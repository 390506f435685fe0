----------------------------- MODULE ListProofs -----------------------------
(***************************************************************************)
(* Induction and recursion over the numbers below a length, what they give *)
(* of lists, and what _iter_batches does with any list of texts, whatever  *)
(* the caps. The theorems of the library on either take an operator as a   *)
(* parameter, which no prover instantiates; here the induction is over a   *)
(* set, and follows from < being well-founded on Nat, and a recursion is   *)
(* over a function, of which its definition is shown to be an instance     *)
(* wherever it is used.                                                    *)
(***************************************************************************)
EXTENDS EmbedBatches, WellFoundedInduction, SequenceTheorems, TLAPS

\* S holds at a, and up to b with every number the next.
Inductive(S, a, b) ==
    /\ a \in Int /\ b \in Int
    /\ a \in S /\ \A k \in a..(b - 1) : k \in S => k + 1 \in S

\* Then S holds from a to b: a least number it does not hold at would be none.
LEMMA FromTo ==
    ASSUME NEW S, NEW a, NEW b, Inductive(S, a, b)
    PROVE  \A k \in a..b : k \in S
<1> USE DEF Inductive
<1> DEFINE Left == {d \in Nat : a + d <= b /\ a + d \notin S}
           Less == {pair \in Nat \X Nat : pair[1] < pair[2]}
<1>1. SUFFICES ASSUME Left # {} PROVE FALSE
  <2>1. SUFFICES ASSUME NEW k \in a..b, k \notin S PROVE FALSE
    OBVIOUS
  <2>2. k - a \in Left
    BY <2>1
  <2> QED
    BY <1>1, <2>2
<1>2. IsWellFoundedOn(Less, Nat)
  BY NatLessThanWellFounded DEF OpToRel
<1>3. Left \subseteq Nat
  OBVIOUS
<1>4. \E m \in Left : \A d \in Left : <<d, m>> \notin Less
  <2> HIDE DEF Less, Left
  <2> QED
    BY <1>1, <1>2, <1>3, WFMin
<1>5. PICK m \in Left : \A d \in Left : <<d, m>> \notin Less
  BY <1>4
<1>6. m \in Nat /\ m # 0
  BY <1>3, <1>5
<1> DEFINE k == a + (m - 1)
<1>7. k \in a..(b - 1) /\ k + 1 = a + m
  BY <1>5, <1>6
<1>8. m - 1 \notin Left
  <2>1. <<m - 1, m>> \in Less
    BY <1>6
  <2> HIDE DEF Less, Left
  <2> QED
    BY <1>5, <2>1
<1>9. k \in S
  BY <1>6, <1>7, <1>8
<1> QED
  <2> HIDE DEF k
  <2> QED
    BY <1>5, <1>7, <1>9

\* Two functions whose values follow in the same way from the one before.
InStep(f, g, n) ==
    f[0] = g[0] /\ \A i \in 1..n : f[i - 1] = g[i - 1] => f[i] = g[i]

\* Such functions are one.
LEMMA SameSteps ==
    ASSUME NEW n \in Nat, NEW f, NEW g, InStep(f, g, n)
    PROVE  \A i \in 0..n : f[i] = g[i]
<1> USE DEF InStep
<1> DEFINE T == {i \in 0..n : f[i] = g[i]}
<1>1. ASSUME NEW i \in 0..(n - 1), i \in T PROVE i + 1 \in T
  <2>1. i + 1 \in 0..n /\ i + 1 \in 1..n /\ (i + 1) - 1 = i
    OBVIOUS
  <2> QED
    BY <1>1, <2>1
<1>2. 0 \in T
  OBVIOUS
<1>3. Inductive(T, 0, n)
  <2> HIDE DEF T
  <2> QED
    BY <1>1, <1>2 DEF Inductive
<1>4. \A i \in 0..n : i \in T
  <2> HIDE DEF T
  <2> QED
    BY <1>3, FromTo
<1> QED
  BY <1>4

\* A recursion that makes a value in V out of the one before and a number up to n.
IsStep(step, base, V, n) == n \in Nat /\ base \in V /\ step \in [V \X (1..n) -> V]

\* The function such a recursion defines.
Unrolls(f, step, base, V, n) ==
    /\ f \in [0..n -> V] /\ f[0] = base
    /\ \A i \in 1..n : f[i] = step[<<f[i - 1], i>>]

\* There is one.
LEMMA Recursion ==
    ASSUME NEW step, NEW base, NEW V, NEW n, IsStep(step, base, V, n)
    PROVE  \E f : Unrolls(f, step, base, V, n)
<1> USE DEF IsStep
<1> DEFINE Follows(f, k) == f[0] = base /\ \A i \in 1..k : f[i] = step[<<f[i - 1], i>>]
           S == {k \in 0..n : \E f \in [0..k -> V] : Follows(f, k)}
<1>1. 0 \in S
  <2>1. [i \in 0..0 |-> base] \in [0..0 -> V] /\ Follows([i \in 0..0 |-> base], 0)
    OBVIOUS
  <2> HIDE DEF Follows
  <2> QED
    BY <2>1
<1>2. ASSUME NEW k \in 0..(n - 1), k \in S PROVE k + 1 \in S
  <2>1. PICK f \in [0..k -> V] : Follows(f, k)
    BY <1>2
  <2> DEFINE g == [i \in 0..(k + 1) |-> IF i = k + 1 THEN step[<<f[k], k + 1>>] ELSE f[i]]
  <2>2. g \in [0..(k + 1) -> V]
    BY <2>1
  <2>3. Follows(g, k + 1)
    <3>1. g[0] = base /\ g[k + 1] = step[<<f[k], k + 1>>] /\ \A i \in 0..k : g[i] = f[i]
      BY <2>1
    <3>2. ASSUME NEW i \in 1..(k + 1) PROVE g[i] = step[<<g[i - 1], i>>]
      <4>1. CASE i \in 1..k
        <5>1. i \in 0..k /\ i - 1 \in 0..k
          BY <4>1
        <5> HIDE DEF g
        <5> QED
          BY <2>1, <3>1, <4>1, <5>1
      <4>2. CASE i = k + 1
        <5>1. i - 1 = k /\ k \in 0..k
          BY <4>2
        <5> HIDE DEF g
        <5> QED
          BY <3>1, <4>2, <5>1
      <4> QED
        BY <4>1, <4>2
    <3> HIDE DEF g
    <3> QED
      BY <3>1, <3>2
  <2> HIDE DEF Follows, g
  <2> QED
    BY <2>2, <2>3
<1>3. n \in S
  <2>1. Inductive(S, 0, n)
    <3> HIDE DEF S
    <3> QED
      BY <1>1, <1>2 DEF Inductive
  <2> HIDE DEF S
  <2> QED
    BY <2>1, FromTo
<1> QED
  BY <1>3 DEF Unrolls
-----------------------------------------------------------------------------
(* Lists, item by item *)

\* What holds of no items, and of a list with an item more whenever of the list,
\* holds of every list.
LEMMA BuiltUp ==
    ASSUME NEW S, NEW P, <<>> \in P,
           \A s \in Seq(S), x \in S : s \in P => Append(s, x) \in P
    PROVE  Seq(S) \subseteq P
<1> SUFFICES ASSUME NEW s \in Seq(S) PROVE s \in P
  OBVIOUS
<1> DEFINE n == Len(s)
           T == {k \in 0..n : SubSeq(s, 1, k) \in P}
<1>1. n \in Nat /\ \A i \in 1..n : s[i] \in S
  OBVIOUS
<1>2. \A k \in 0..n : SubSeq(s, 1, k) \in Seq(S)
  <2>1. \A k \in 0..n : 1 \in Int /\ k \in Int /\ \A i \in 1..k : s[i] \in S
    BY <1>1
  <2> QED
    BY <2>1, SubSeqProperties
<1>3. 0 \in T
  <2>1. 1 \in Int /\ 0 \in Int /\ 0 < 1 /\ 0 \in 0..n
    BY <1>1
  <2>2. SubSeq(s, 1, 0) = <<>>
    BY <2>1, SubSeqEmpty
  <2> QED
    BY <2>1, <2>2
<1>4. ASSUME NEW k \in 0..(n - 1), k \in T PROVE k + 1 \in T
  <2>1. k + 1 \in 1..n /\ k + 1 \in 0..n /\ k \in 0..n /\ s[k + 1] \in S
    BY <1>1
  <2>2. SubSeq(s, 1, k + 1) = Append(SubSeq(s, 1, k), s[k + 1])
    BY <2>1
  <2> QED
    BY <1>2, <1>4, <2>1, <2>2
<1>5. n \in T
  <2>1. Inductive(T, 0, n)
    <3> HIDE DEF T
    <3> QED
      BY <1>1, <1>3, <1>4 DEF Inductive
  <2>2. n \in 0..n
    BY <1>1
  <2> HIDE DEF T
  <2> QED
    BY <2>1, <2>2, FromTo
<1>6. SubSeq(s, 1, n) = s
  OBVIOUS
<1> QED
  BY <1>5, <1>6

-----------------------------------------------------------------------------
(* Lists of lists *)

\* n lists over S; and what FlattenSeq makes of the first of them, one by one.
Lists(seqs, n, S) ==
    n \in Nat /\ Len(seqs) = n /\ (n = 0 => seqs = <<>>) /\ \A i \in 1..n : seqs[i] \in Seq(S)

Flattens(f, seqs, n, S) ==
    /\ f \in [0..n -> Seq(S)] /\ f[0] = <<>> /\ f[n] = FlattenSeq(seqs)
    /\ \A i \in 1..n : f[i] = f[i - 1] \o seqs[i]

\* FlattenSeq is what its recursion says.
LEMMA FlattenSteps ==
    ASSUME NEW seqs, NEW n, NEW S, Lists(seqs, n, S)
    PROVE  \E f : Flattens(f, seqs, n, S)
<1> USE DEF Lists
<1> DEFINE step == [p \in Seq(S) \X (1..n) |-> p[1] \o seqs[p[2]]]
           Joins(f) == f = [i \in 1..n |-> IF i = 1 THEN seqs[i] ELSE f[i - 1] \o seqs[i]]
<1>1. IsStep(step, <<>>, Seq(S), n)
  BY DEF IsStep
<1>2. PICK f : Unrolls(f, step, <<>>, Seq(S), n)
  <2> HIDE DEF step
  <2> QED
    BY <1>1, Recursion
<1> USE DEF Unrolls
<1>3. ASSUME NEW i \in 1..n PROVE f[i] = f[i - 1] \o seqs[i]
  <2>1. f[i - 1] \in Seq(S)
    BY <1>2
  <2>2. step[<<f[i - 1], i>>] = f[i - 1] \o seqs[i]
    BY <2>1
  <2> HIDE DEF step
  <2> QED
    BY <1>2, <2>2
<1>4. Joins([i \in 1..n |-> f[i]])
  <2>1. ASSUME NEW i \in 1..n
        PROVE  f[i] = IF i = 1 THEN seqs[i] ELSE [k \in 1..n |-> f[k]][i - 1] \o seqs[i]
    <3>1. CASE i = 1
      <4>1. f[1] = f[0] \o seqs[1] /\ seqs[1] \in Seq(S)
        BY <1>3, <3>1
      <4> QED
        BY <1>2, <3>1, <4>1
    <3>2. CASE i # 1
      <4>1. i - 1 \in 1..n
        BY <3>2
      <4> QED
        BY <1>3, <3>2, <4>1
    <3> QED
      BY <3>1, <3>2
  <2> QED
    BY <2>1
<1>5. ASSUME f[n] = FlattenSeq(seqs) PROVE \E g : Flattens(g, seqs, n, S)
  <2>1. Flattens(f, seqs, n, S)
    BY <1>2, <1>3, <1>5 DEF Flattens
  <2> QED
    BY <2>1
<1>6. CASE n = 0
  <2>1. FlattenSeq(seqs) = <<>> /\ f[n] = f[0]
    BY <1>6 DEF FlattenSeq
  <2> QED
    BY <1>2, <1>5, <2>1
<1>7. CASE n # 0
  <2> DEFINE c == CHOOSE g : Joins(g)
             T == {k \in 1..n : c[k] = f[k]}
  <2>1. Joins(c)
    <3> HIDE DEF Joins
    <3> QED
      BY <1>4
  <2>2. FlattenSeq(seqs) = c[n]
    BY <1>7 DEF FlattenSeq
  <2> HIDE DEF c
  <2>3. 1 \in T
    <3>1. c[1] = seqs[1]
      BY <1>7, <2>1
    <3>2. f[1] = f[0] \o seqs[1] /\ seqs[1] \in Seq(S)
      <4>1. 1 \in 1..n /\ 1 - 1 = 0
        BY <1>7
      <4> QED
        BY <1>3, <4>1
    <3>3. f[1] = seqs[1]
      BY <1>2, <3>2
    <3> QED
      BY <1>7, <3>1, <3>3
  <2>4. ASSUME NEW i \in 1..(n - 1), i \in T PROVE i + 1 \in T
    <3>1. i + 1 \in 1..n /\ i + 1 # 1 /\ (i + 1) - 1 = i
      OBVIOUS
    <3>2. c[i + 1] = c[i] \o seqs[i + 1]
      BY <2>1, <3>1
    <3>3. f[i + 1] = f[i] \o seqs[i + 1]
      BY <1>3, <3>1
    <3> QED
      BY <2>4, <3>1, <3>2, <3>3
  <2>5. Inductive(T, 1, n)
    BY <2>3, <2>4 DEF Inductive
  <2>6. n \in T
    <3> HIDE DEF T
    <3> QED
      BY <1>7, <2>5, FromTo
  <2> QED
    BY <1>5, <2>2, <2>6
<1> QED
  BY <1>6, <1>7

\* A list more is joined behind the others.
LEMMA FlattenAppend ==
    ASSUME NEW S, NEW seqs \in Seq(Seq(S)), NEW s \in Seq(S)
    PROVE  /\ FlattenSeq(seqs) \in Seq(S)
           /\ FlattenSeq(Append(seqs, s)) = FlattenSeq(seqs) \o s
<1> DEFINE n == Len(seqs)
           longer == Append(seqs, s)
<1>1. n \in Nat /\ Lists(seqs, n, S)
  BY DEF Lists
<1>2. /\ n + 1 \in Nat /\ Len(longer) = n + 1
      /\ longer[n + 1] = s /\ \A i \in 1..n : longer[i] = seqs[i]
  BY AppendProperties
<1> HIDE DEF n, longer
<1>3. Lists(longer, n + 1, S)
  <2>1. \A i \in 1..(n + 1) : i = n + 1 \/ i \in 1..n
    BY <1>1
  <2> QED
    BY <1>1, <1>2, <2>1 DEF Lists
<1>4. PICK f : Flattens(f, seqs, n, S)
  BY <1>1, FlattenSteps
<1>5. PICK g : Flattens(g, longer, n + 1, S)
  BY <1>3, FlattenSteps
<1> USE DEF Flattens
<1> DEFINE T == {k \in 0..n : f[k] = g[k]}
<1>6. ASSUME NEW i \in 0..(n - 1), i \in T PROVE i + 1 \in T
  <2>1. i + 1 \in 0..n /\ i + 1 \in 1..n /\ i + 1 \in 1..(n + 1) /\ (i + 1) - 1 = i
    BY <1>1
  <2>2. f[i + 1] = f[i] \o seqs[i + 1]
    BY <1>4, <2>1
  <2>3. g[i + 1] = g[i] \o seqs[i + 1]
    BY <1>2, <1>5, <2>1
  <2> QED
    BY <1>6, <2>1, <2>2, <2>3
<1>7. Inductive(T, 0, n)
  <2>1. 0 \in T
    BY <1>1, <1>4, <1>5
  <2> HIDE DEF T
  <2> QED
    BY <1>1, <1>6, <2>1 DEF Inductive
<1>8. n \in T
  <2>1. n \in 0..n
    BY <1>1
  <2> HIDE DEF T
  <2> QED
    BY <1>7, <2>1, FromTo
<1>9. g[n + 1] = g[n] \o s
  <2>1. n + 1 \in 1..(n + 1) /\ (n + 1) - 1 = n
    BY <1>1
  <2> QED
    BY <1>2, <1>5, <2>1
<1> QED
  BY <1>1, <1>4, <1>5, <1>8, <1>9 DEF longer

\* The first list comes first.
LEMMA FlattenHead ==
    ASSUME NEW S, NEW seqs \in Seq(Seq(S)), seqs # <<>>
    PROVE  /\ Head(seqs) \in Seq(S) /\ FlattenSeq(Tail(seqs)) \in Seq(S)
           /\ FlattenSeq(seqs) = Head(seqs) \o FlattenSeq(Tail(seqs))
<1> DEFINE n == Len(seqs) - 1
           rest == Tail(seqs)
           h == Head(seqs)
<1>1. /\ n \in Nat /\ Len(seqs) = n + 1 /\ Len(rest) = n /\ seqs[1] = h
      /\ h \in Seq(S) /\ \A i \in 1..n : rest[i] = seqs[i + 1]
  OBVIOUS
<1>2. Lists(seqs, n + 1, S)
  BY <1>1 DEF Lists
<1>3. Lists(rest, n, S)
  <2>1. \A i \in 1..n : i + 1 \in 1..(n + 1)
    OBVIOUS
  <2>2. \A i \in 1..n : rest[i] \in Seq(S)
    <3> HIDE DEF n, rest, h
    <3> QED
      BY <1>1, <1>2, <2>1 DEF Lists
  <2>3. n = 0 => rest = <<>>
    BY <1>1, EmptySeq, HeadTailProperties
  <2> HIDE DEF n, rest, h
  <2> QED
    BY <1>1, <2>2, <2>3 DEF Lists
<1> HIDE DEF n, rest, h
<1>4. \A i \in 1..n : rest[i] \in Seq(S)
  BY <1>3 DEF Lists
<1>5. PICK f : Flattens(f, seqs, n + 1, S)
  BY <1>2, FlattenSteps
<1>6. PICK g : Flattens(g, rest, n, S)
  BY <1>3, FlattenSteps
<1> USE DEF Flattens
<1> DEFINE T == {k \in 0..n : f[k + 1] = h \o g[k]}
<1>7. 0 \in T
  <2>1. f[1] = f[0] \o seqs[1]
    <3>1. 1 \in 1..(n + 1) /\ 1 - 1 = 0
      BY <1>1
    <3> QED
      BY <1>5, <3>1
  <2>2. f[1] = h
    BY <1>1, <1>5, <2>1, ConcatEmptySeq
  <2>3. h \o g[0] = h
    BY <1>1, <1>6, ConcatEmptySeq
  <2> QED
    BY <1>1, <2>2, <2>3
<1>8. ASSUME NEW i \in 0..(n - 1), i \in T PROVE i + 1 \in T
  <2>1. /\ i \in 0..n /\ i + 1 \in 0..n /\ i + 1 \in 1..n /\ i + 2 \in 1..(n + 1)
        /\ (i + 1) - 1 = i /\ (i + 2) - 1 = i + 1 /\ (i + 1) + 1 = i + 2
    BY <1>1
  <2>2. f[i + 2] = f[i + 1] \o rest[i + 1]
    BY <1>1, <1>5, <2>1
  <2>3. g[i + 1] = g[i] \o rest[i + 1]
    BY <1>6, <2>1
  <2>4. (h \o g[i]) \o rest[i + 1] = h \o (g[i] \o rest[i + 1])
    <3>1. g[i] \in Seq(S) /\ rest[i + 1] \in Seq(S)
      BY <1>4, <1>6, <2>1
    <3>2. h \in Seq(S)
      BY <1>1
    <3>3. \A x, y, z \in Seq(S) : (x \o y) \o z = x \o (y \o z)
      BY ConcatAssociative, SMTT(30)
    <3> QED
      BY <3>1, <3>2, <3>3, Zenon
  <2> QED
    BY <1>8, <2>1, <2>2, <2>3, <2>4
<1>9. Inductive(T, 0, n)
  <2> HIDE DEF T
  <2> QED
    BY <1>1, <1>7, <1>8 DEF Inductive
<1>10. n \in T
  <2>1. n \in 0..n
    BY <1>1
  <2> HIDE DEF T
  <2> QED
    BY <1>9, <2>1, FromTo
<1> QED
  BY <1>1, <1>5, <1>6, <1>10 DEF rest, h

\* Lists of which none is empty make a list that is empty only if there are none.
LEMMA FlattenFilled ==
    ASSUME NEW S, NEW seqs \in Seq(Seq(S) \ {<<>>})
    PROVE  FlattenSeq(seqs) \in Seq(S) /\ (seqs # <<>> => FlattenSeq(seqs) # <<>>)
<1>1. seqs \in Seq(Seq(S)) /\ <<>> \in Seq(S)
  OBVIOUS
<1>2. FlattenSeq(seqs) \in Seq(S)
  BY <1>1, FlattenAppend
<1>3. ASSUME seqs # <<>> PROVE FlattenSeq(seqs) # <<>>
  <2>1. Head(seqs) \in Seq(S) \ {<<>>}
    BY <1>3, HeadTailProperties
  <2>2. /\ Head(seqs) \in Seq(S) /\ FlattenSeq(Tail(seqs)) \in Seq(S)
        /\ FlattenSeq(seqs) = Head(seqs) \o FlattenSeq(Tail(seqs))
    BY <1>1, <1>3, FlattenHead
  <2> QED
    BY <2>1, <2>2, ConcatEqualIffEmpty
<1> QED
  BY <1>2, <1>3

\* The items of a list are at its places.
LEMMA ItemsOf ==
    ASSUME NEW S, NEW s \in Seq(S)
    PROVE  ToSet(s) = {s[i] : i \in 1..Len(s)} /\ DOMAIN s = 1..Len(s) /\ Len(s) \in Nat
<1>1. DOMAIN s = 1..Len(s) /\ Len(s) \in Nat
  OBVIOUS
<1> QED
  BY <1>1 DEF ToSet

\* The items of a list, of one with an item more, and of two joined.
LEMMA Members ==
    ASSUME NEW S, NEW s \in Seq(S)
    PROVE  /\ ToSet(s) = {s[i] : i \in 1..Len(s)} /\ ToSet(s) \subseteq S
           /\ \A x \in S : ToSet(Append(s, x)) = ToSet(s) \cup {x}
           /\ \A t \in Seq(S) : ToSet(s \o t) = ToSet(s) \cup ToSet(t)
<1>1. \A t \in Seq(S) : ToSet(t) = {t[i] : i \in 1..Len(t)}
  BY DEF ToSet
<1>2. ASSUME NEW x \in S PROVE ToSet(Append(s, x)) = ToSet(s) \cup {x}
  <2> DEFINE longer == Append(s, x)
             n == Len(s)
  <2>1. /\ longer \in Seq(S) /\ Len(longer) = n + 1 /\ n \in Nat /\ longer[n + 1] = x
        /\ \A i \in 1..n : longer[i] = s[i]
    BY AppendProperties
  <2> HIDE DEF longer, n
  <2>2. ToSet(longer) = {longer[i] : i \in 1..(n + 1)} /\ ToSet(s) = {s[i] : i \in 1..n}
    BY <1>1, <2>1 DEF n
  <2>3. \A i \in 1..(n + 1) : i \in 1..n \/ i = n + 1
    BY <2>1
  <2>4. n + 1 \in 1..(n + 1) /\ \A i \in 1..n : i \in 1..(n + 1)
    BY <2>1
  <2>5. ToSet(longer) = ToSet(s) \cup {x}
    BY <2>1, <2>2, <2>3, <2>4
  <2> QED
    BY <2>5 DEF longer
<1>3. ASSUME NEW t \in Seq(S) PROVE ToSet(s \o t) = ToSet(s) \cup ToSet(t)
  <2> DEFINE both == s \o t
             m == Len(s)
             n == Len(t)
  <2>1. /\ both \in Seq(S) /\ Len(both) = m + n /\ m \in Nat /\ n \in Nat
        /\ \A i \in 1..(m + n) : both[i] = IF i <= m THEN s[i] ELSE t[i - m]
    BY ConcatProperties
  <2> HIDE DEF both, m, n
  <2>2. ToSet(both) = {both[i] : i \in 1..(m + n)} /\ ToSet(s) = {s[i] : i \in 1..m}
        /\ ToSet(t) = {t[i] : i \in 1..n}
    BY <1>1, <2>1 DEF m, n
  <2>3. ASSUME NEW i \in 1..(m + n) PROVE both[i] \in ToSet(s) \cup ToSet(t)
    <3>1. i \in 1..m \/ i - m \in 1..n
      BY <2>1
    <3> QED
      BY <2>1, <2>2, <3>1
  <2>4. ASSUME NEW i \in 1..m PROVE s[i] \in ToSet(both)
    <3>1. i \in 1..(m + n) /\ i <= m
      BY <2>1
    <3> QED
      BY <2>1, <2>2, <3>1
  <2>5. ASSUME NEW i \in 1..n PROVE t[i] \in ToSet(both)
    <3>1. m + i \in 1..(m + n) /\ ~(m + i <= m) /\ (m + i) - m = i
      BY <2>1
    <3> QED
      BY <2>1, <2>2, <3>1
  <2>6. ToSet(both) = ToSet(s) \cup ToSet(t)
    BY <2>2, <2>3, <2>4, <2>5
  <2> QED
    BY <2>6 DEF both
<1> QED
  BY <1>1, <1>2, <1>3

\* The items of lists joined are those of the lists.
LEMMA FlattenMembers ==
    ASSUME NEW S, NEW seqs \in Seq(Seq(S)), NEW n, n = Len(seqs)
    PROVE  \A x : x \in ToSet(FlattenSeq(seqs)) <=> \E i \in 1..n : x \in ToSet(seqs[i])
<1>1. n \in Nat /\ Lists(seqs, n, S)
  BY DEF Lists
<1>2. PICK f : Flattens(f, seqs, n, S)
  BY <1>1, FlattenSteps
<1> USE DEF Flattens
<1> DEFINE Joined(k) == {x \in S : \E i \in 1..k : x \in ToSet(seqs[i])}
           T == {k \in 0..n : ToSet(f[k]) = Joined(k)}
<1>3. 0 \in T
  BY <1>1, <1>2 DEF ToSet
<1>4. ASSUME NEW k \in 0..(n - 1), k \in T PROVE k + 1 \in T
  <2>1. k + 1 \in 0..n /\ k + 1 \in 1..n /\ (k + 1) - 1 = k /\ k \in 0..n
    BY <1>1
  <2>2. f[k] \in Seq(S) /\ seqs[k + 1] \in Seq(S) /\ f[k + 1] = f[k] \o seqs[k + 1]
    BY <1>1, <1>2, <2>1 DEF Lists
  <2>3. ToSet(f[k + 1]) = ToSet(f[k]) \cup ToSet(seqs[k + 1]) /\ ToSet(seqs[k + 1]) \subseteq S
    BY <2>2, Members
  <2>4. \A i \in 1..(k + 1) : i \in 1..k \/ i = k + 1
    BY <1>1
  <2>5. \A i \in 1..k : i \in 1..(k + 1)
    BY <1>1
  <2>6. k + 1 \in 1..(k + 1)
    BY <1>1
  <2>7. Joined(k + 1) = Joined(k) \cup ToSet(seqs[k + 1])
    BY <2>3, <2>4, <2>5, <2>6
  <2> QED
    BY <1>4, <2>1, <2>3, <2>7
<1>5. n \in T
  <2>1. Inductive(T, 0, n)
    <3> HIDE DEF T
    <3> QED
      BY <1>1, <1>3, <1>4 DEF Inductive
  <2>2. n \in 0..n
    BY <1>1
  <2> HIDE DEF T
  <2> QED
    BY <2>1, <2>2, FromTo
<1>6. \A i \in 1..n : ToSet(seqs[i]) \subseteq S
  BY <1>1, Members DEF Lists
<1> QED
  BY <1>2, <1>5, <1>6

\* Any two items of a list are in a relation in their order; any two of two lists.
Related(s, R) == \A i, j \in 1..Len(s) : i < j => <<s[i], s[j]>> \in R
Across(s, t, R) == \A x \in ToSet(s), y \in ToSet(t) : <<x, y>> \in R

\* Two lists whose items are, and across, join to one.
LEMMA JoinRelated ==
    ASSUME NEW S, NEW R, NEW s \in Seq(S), NEW t \in Seq(S),
           Related(s, R), Related(t, R), Across(s, t, R)
    PROVE  Related(s \o t, R)
<1> DEFINE both == s \o t
           m == Len(s)
           n == Len(t)
<1>1. /\ Len(both) = m + n /\ m \in Nat /\ n \in Nat
      /\ \A i \in 1..(m + n) : both[i] = IF i <= m THEN s[i] ELSE t[i - m]
  BY ConcatProperties
<1>2. ToSet(s) = {s[i] : i \in 1..m} /\ ToSet(t) = {t[i] : i \in 1..n}
  BY Members
<1>3. /\ \A i, j \in 1..m : i < j => <<s[i], s[j]>> \in R
      /\ \A i, j \in 1..n : i < j => <<t[i], t[j]>> \in R
  BY DEF Related
<1>4. \A i \in 1..m, j \in 1..n : <<s[i], t[j]>> \in R
  BY <1>2 DEF Across
<1> HIDE DEF both, m, n
<1>5. ASSUME NEW i \in 1..(m + n), NEW j \in 1..(m + n), i < j
      PROVE  <<both[i], both[j]>> \in R
  <2>1. CASE i <= m /\ j <= m
    <3>1. i \in 1..m /\ j \in 1..m
      BY <1>1, <2>1
    <3> QED
      BY <1>1, <1>3, <1>5, <2>1, <3>1
  <2>2. CASE i <= m /\ ~(j <= m)
    <3>1. i \in 1..m /\ j - m \in 1..n
      BY <1>1, <2>2
    <3> QED
      BY <1>1, <1>4, <2>2, <3>1
  <2>3. CASE ~(i <= m)
    <3>1. i - m \in 1..n /\ j - m \in 1..n /\ i - m < j - m /\ ~(j <= m)
      BY <1>1, <1>5, <2>3
    <3> QED
      BY <1>1, <1>3, <2>3, <3>1
  <2> QED
    BY <2>1, <2>2, <2>3
<1> QED
  BY <1>1, <1>5 DEF Related, both

\* So does an item with the list before it.
LEMMA AppendRelated ==
    ASSUME NEW S, NEW R, NEW s \in Seq(S), NEW x \in S,
           Related(s, R), \A y \in ToSet(s) : <<y, x>> \in R
    PROVE  Related(Append(s, x), R)
<1> DEFINE n == Len(s)
           longer == Append(s, x)
<1>1. /\ n \in Nat /\ Len(longer) = n + 1 /\ longer[n + 1] = x
      /\ \A i \in 1..n : longer[i] = s[i]
  BY AppendProperties
<1>2. \A i \in 1..n : s[i] \in ToSet(s)
  BY Members
<1>3. \A i, j \in 1..n : i < j => <<s[i], s[j]>> \in R
  BY DEF Related
<1> HIDE DEF n, longer
<1>4. ASSUME NEW i \in 1..(n + 1), NEW j \in 1..(n + 1), i < j
      PROVE  <<longer[i], longer[j]>> \in R
  <2>1. i \in 1..n /\ (j \in 1..n \/ j = n + 1)
    BY <1>1, <1>4
  <2> QED
    BY <1>1, <1>2, <1>3, <1>4, <2>1
<1> QED
  BY <1>1, <1>4 DEF Related, longer

\* A list whose items are is one with the last item behind the others.
LEMMA RelatedFront ==
    ASSUME NEW S, NEW R, NEW s \in Seq(S), NEW x \in S, Related(Append(s, x), R)
    PROVE  Related(s, R) /\ \A y \in ToSet(s) : <<y, x>> \in R
<1> DEFINE n == Len(s)
           longer == Append(s, x)
<1>1. /\ n \in Nat /\ Len(longer) = n + 1 /\ longer[n + 1] = x
      /\ \A i \in 1..n : longer[i] = s[i]
  BY AppendProperties
<1>2. ToSet(s) = {s[i] : i \in 1..n}
  BY Members
<1>3. \A i, j \in 1..(n + 1) : i < j => <<longer[i], longer[j]>> \in R
  BY <1>1 DEF Related
<1> HIDE DEF n, longer
<1>4. \A i, j \in 1..n : i < j => <<s[i], s[j]>> \in R
  <2>1. \A i \in 1..n : i \in 1..(n + 1)
    BY <1>1
  <2> QED
    BY <1>1, <1>3, <2>1
<1>5. \A i \in 1..n : <<s[i], x>> \in R
  <2>1. \A i \in 1..n : i \in 1..(n + 1) /\ n + 1 \in 1..(n + 1) /\ i < n + 1
    BY <1>1
  <2> QED
    BY <1>1, <1>3, <2>1
<1> QED
  BY <1>2, <1>4, <1>5 DEF Related, n

\* And so do any number of lists.
LEMMA FlattenRelated ==
    ASSUME NEW S, NEW R, NEW seqs \in Seq(Seq(S)), NEW n, n = Len(seqs),
           \A i \in 1..n : Related(seqs[i], R),
           \A i, j \in 1..n : i < j => Across(seqs[i], seqs[j], R)
    PROVE  Related(FlattenSeq(seqs), R)
<1>1. n \in Nat /\ Lists(seqs, n, S)
  BY DEF Lists
<1>2. PICK f : Flattens(f, seqs, n, S)
  BY <1>1, FlattenSteps
<1> USE DEF Flattens
<1> DEFINE Fine(k) == Related(f[k], R) /\ \A j \in (k + 1)..n : Across(f[k], seqs[j], R)
           T == {k \in 0..n : Fine(k)}
<1>3. 0 \in T
  BY <1>1, <1>2 DEF ToSet, Related, Across
<1>4. ASSUME NEW k \in 0..(n - 1), k \in T PROVE k + 1 \in T
  <2>1. k + 1 \in 0..n /\ k + 1 \in 1..n /\ (k + 1) - 1 = k /\ k \in 0..n /\ k + 1 \in (k + 1)..n
    BY <1>1
  <2>2. f[k] \in Seq(S) /\ seqs[k + 1] \in Seq(S) /\ f[k + 1] = f[k] \o seqs[k + 1]
    BY <1>1, <1>2, <2>1 DEF Lists
  <2>3. Fine(k)
    BY <1>4
  <2>4. Related(f[k + 1], R)
    BY <2>1, <2>2, <2>3, JoinRelated
  <2>5. ASSUME NEW j \in (k + 2)..n PROVE Across(f[k + 1], seqs[j], R)
    <3>1. j \in 1..n /\ k + 1 < j /\ j \in (k + 1)..n
      BY <1>1
    <3>2. Across(f[k], seqs[j], R) /\ Across(seqs[k + 1], seqs[j], R)
      BY <2>1, <2>3, <3>1
    <3>3. ToSet(f[k + 1]) = ToSet(f[k]) \cup ToSet(seqs[k + 1])
      BY <2>2, Members
    <3> QED
      BY <3>2, <3>3 DEF Across
  <2>6. (k + 1) + 1 = k + 2
    BY <1>1
  <2>7. Fine(k + 1)
    BY <2>4, <2>5, <2>6
  <2> HIDE DEF Fine
  <2> QED
    BY <2>1, <2>7
<1>5. n \in T
  <2>1. Inductive(T, 0, n)
    <3> HIDE DEF T
    <3> QED
      BY <1>1, <1>3, <1>4 DEF Inductive
  <2>2. n \in 0..n
    BY <1>1
  <2> HIDE DEF T
  <2> QED
    BY <2>1, <2>2, FromTo
<1> QED
  BY <1>2, <1>5

-----------------------------------------------------------------------------
(* Sums and selections *)

\* The partial sums of a list of numbers.
Sums(f, numbers, n) ==
    /\ f \in [0..n -> Nat] /\ f[0] = 0 /\ f[n] = Total(numbers)
    /\ \A i \in 1..n : f[i] = f[i - 1] + numbers[i]

\* Total is what its recursion says.
LEMMA TotalSums ==
    ASSUME NEW numbers \in Seq(Nat), NEW n, n = Len(numbers)
    PROVE  \E f : Sums(f, numbers, n)
<1> DEFINE step == [p \in Nat \X (1..n) |-> p[1] + numbers[p[2]]]
           Adds(f) == f = [i \in 0..n |->
                             IF i = 0 THEN 0 ELSE f[i - 1] + numbers[i]]
           c == CHOOSE f : Adds(f)
           T == {k \in 0..n : c[k] \in Nat}
<1>1. n \in Nat /\ \A i \in 1..n : numbers[i] \in Nat
  OBVIOUS
<1>2. IsStep(step, 0, Nat, n)
  BY <1>1 DEF IsStep
<1>3. PICK f : Unrolls(f, step, 0, Nat, n)
  <2> HIDE DEF step
  <2> QED
    BY <1>2, Recursion
<1>4. \A i \in 1..n : f[i] = f[i - 1] + numbers[i]
  <2>1. \A i \in 1..n : f[i - 1] \in Nat
    BY <1>1, <1>3 DEF Unrolls
  <2>2. \A i \in 1..n : f[i] = step[<<f[i - 1], i>>]
    <3> HIDE DEF step
    <3> QED
      BY <1>3 DEF Unrolls
  <2> QED
    BY <2>1, <2>2
<1>5. Adds(f)
  BY <1>3, <1>4 DEF Unrolls
<1>6. Adds(c)
  <2> HIDE DEF Adds
  <2> QED
    BY <1>5
<1>7. c[n] = Total(numbers)
  BY DEF Total
<1> HIDE DEF c
<1>8. c[0] = 0 /\ \A i \in 1..n : c[i] = c[i - 1] + numbers[i]
  <2>1. DOMAIN c = 0..n /\ \A i \in 0..n : c[i] = IF i = 0 THEN 0 ELSE c[i - 1] + numbers[i]
    BY <1>6, Zenon
  <2>2. 0 \in 0..n /\ \A i \in 1..n : i \in 0..n /\ i # 0
    BY <1>1
  <2> QED
    BY <2>1, <2>2, Zenon
<1>9. Inductive(T, 0, n)
  <2>1. ASSUME NEW i \in 0..(n - 1), i \in T PROVE i + 1 \in T
    <3>1. i + 1 \in 1..n /\ i + 1 \in 0..n /\ (i + 1) - 1 = i
      BY <1>1
    <3> QED
      BY <1>1, <1>8, <2>1, <3>1
  <2>2. 0 \in T
    BY <1>1, <1>8
  <2> HIDE DEF T
  <2> QED
    BY <1>1, <2>1, <2>2 DEF Inductive
<1>10. \A i \in 0..n : i \in T
  <2> HIDE DEF T
  <2> QED
    BY <1>9, FromTo
<1>11. Sums(c, numbers, n)
  BY <1>6, <1>7, <1>8, <1>10 DEF Sums
<1> QED
  BY <1>11

\* No numbers sum to 0.
LEMMA TotalEmpty == Total(<<>>) = 0
<1>1. <<>> \in Seq(Nat) /\ 0 = Len(<<>>)
  OBVIOUS
<1>2. PICK f : Sums(f, <<>>, 0)
  BY <1>1, TotalSums
<1> QED
  BY <1>2 DEF Sums

\* A number more adds its value.
LEMMA TotalAppend ==
    ASSUME NEW numbers \in Seq(Nat), NEW x \in Nat
    PROVE  /\ Total(numbers) \in Nat
           /\ Total(Append(numbers, x)) = Total(numbers) + x
<1> DEFINE n == Len(numbers)
           longer == Append(numbers, x)
<1>1. /\ n \in Nat /\ longer \in Seq(Nat) /\ n + 1 = Len(longer)
      /\ longer[n + 1] = x /\ \A i \in 1..n : longer[i] = numbers[i]
  OBVIOUS
<1>2. PICK f : Sums(f, numbers, n)
  BY TotalSums
<1> HIDE DEF longer
<1>3. PICK g : Sums(g, longer, n + 1)
  BY <1>1, TotalSums
<1> HIDE DEF n
<1> DEFINE T == {k \in 0..n : f[k] = g[k]}
<1>4. ASSUME NEW i \in 0..(n - 1), i \in T PROVE i + 1 \in T
  <2>1. i + 1 \in 0..n /\ i + 1 \in 1..n /\ i + 1 \in 1..(n + 1) /\ (i + 1) - 1 = i
    BY <1>1
  <2>2. f[i + 1] = f[i] + numbers[i + 1]
    BY <1>2, <2>1 DEF Sums
  <2>3. g[i + 1] = g[i] + numbers[i + 1]
    BY <1>1, <1>3, <2>1 DEF Sums
  <2> QED
    BY <1>4, <2>1, <2>2, <2>3
<1>5. Inductive(T, 0, n)
  <2>1. 0 \in T
    BY <1>1, <1>2, <1>3 DEF Sums
  <2> HIDE DEF T
  <2> QED
    BY <1>1, <1>4, <2>1 DEF Inductive
<1>6. n \in T
  <2>1. n \in 0..n
    BY <1>1
  <2> HIDE DEF T
  <2> QED
    BY <1>5, <2>1, FromTo
<1>7. g[n + 1] = g[n] + x
  <2>1. n + 1 \in 1..(n + 1) /\ (n + 1) - 1 = n
    BY <1>1
  <2> QED
    BY <1>1, <1>3, <2>1 DEF Sums
<1> QED
  BY <1>1, <1>2, <1>3, <1>6, <1>7 DEF Sums, longer

\* The sum of the first k numbers.
FirstSum(numbers, k) == Total(SubSeq(numbers, 1, k))

\* It grows by each.
LEMMA FirstSums ==
    ASSUME NEW numbers \in Seq(Nat), NEW n, n = Len(numbers)
    PROVE  /\ FirstSum(numbers, 0) = 0 /\ FirstSum(numbers, n) = Total(numbers)
           /\ \A k \in 0..n : FirstSum(numbers, k) \in Nat
           /\ \A k \in 1..n : FirstSum(numbers, k) = FirstSum(numbers, k - 1) + numbers[k]
           /\ \A j, k \in 0..n : j <= k => FirstSum(numbers, j) <= FirstSum(numbers, k)
<1> DEFINE sum(k) == FirstSum(numbers, k)
<1>1. n \in Nat /\ \A i \in 1..n : numbers[i] \in Nat
  OBVIOUS
<1>2. \A k \in 0..n : SubSeq(numbers, 1, k) \in Seq(Nat)
  <2>1. \A k \in 0..n : 1 \in Int /\ k \in Int /\ \A i \in 1..k : numbers[i] \in Nat
    BY <1>1
  <2> QED
    BY <2>1, SubSeqProperties
<1>3. \A k \in 0..n : sum(k) \in Nat
  BY <1>2, TotalAppend, 0 \in Nat DEF FirstSum
<1>4. sum(0) = 0
  <2>1. 1 \in Int /\ 0 \in Int /\ 0 < 1
    OBVIOUS
  <2>2. SubSeq(numbers, 1, 0) = <<>>
    BY <2>1, SubSeqEmpty
  <2> QED
    BY <2>2, TotalEmpty DEF FirstSum
<1>5. sum(n) = Total(numbers)
  <2>1. SubSeq(numbers, 1, n) = numbers
    OBVIOUS
  <2> QED
    BY <2>1 DEF FirstSum
<1>6. ASSUME NEW k \in 1..n PROVE sum(k) = sum(k - 1) + numbers[k]
  <2>1. k - 1 \in 0..n /\ numbers[k] \in Nat
    BY <1>1
  <2>2. SubSeq(numbers, 1, k) = Append(SubSeq(numbers, 1, k - 1), numbers[k])
    BY <1>1
  <2> QED
    BY <1>2, <2>1, <2>2, TotalAppend DEF FirstSum
<1> HIDE DEF sum
<1>7. ASSUME NEW j \in 0..n, NEW k \in 0..n, j <= k PROVE sum(j) <= sum(k)
  <2> DEFINE T == {i \in j..n : sum(j) <= sum(i)}
  <2>1. j \in T
    BY <1>1, <1>3
  <2>2. ASSUME NEW i \in j..(n - 1), i \in T PROVE i + 1 \in T
    <3>1. i \in 0..n /\ i + 1 \in 1..n /\ (i + 1) - 1 = i /\ i + 1 \in j..n
      BY <1>1
    <3>2. sum(i + 1) = sum(i) + numbers[i + 1] /\ sum(i) \in Nat /\ sum(j) \in Nat
          /\ numbers[i + 1] \in Nat
      BY <1>1, <1>3, <1>6, <3>1
    <3>3. sum(j) <= sum(i)
      BY <2>2
    <3>4. sum(j) <= sum(i + 1)
      BY <3>2, <3>3
    <3> QED
      BY <3>1, <3>4
  <2>3. Inductive(T, j, n)
    <3> HIDE DEF T
    <3> QED
      BY <1>1, <2>1, <2>2 DEF Inductive
  <2>4. k \in j..n
    BY <1>1, <1>7
  <2>5. k \in T
    <3> HIDE DEF T
    <3> QED
      BY <2>3, <2>4, FromTo
  <2> QED
    BY <2>5
<1> QED
  BY <1>3, <1>4, <1>5, <1>6, <1>7 DEF sum

\* The weights of the items of a list.
Weighed(weight, list) == [i \in DOMAIN list |-> weight[list[i]]]

\* An item more puts its weight behind the others.
LEMMA WeighedAppend ==
    ASSUME NEW S, NEW weight \in [S -> Nat], NEW list \in Seq(S), NEW x \in S
    PROVE  /\ Weighed(weight, list) \in Seq(Nat)
           /\ Weighed(weight, Append(list, x)) = Append(Weighed(weight, list), weight[x])
<1> DEFINE n == Len(list)
           longer == Append(list, x)
           u == Weighed(weight, longer)
           v == Append(Weighed(weight, list), weight[x])
<1>1. /\ n \in Nat /\ longer \in Seq(S) /\ Len(longer) = n + 1 /\ longer[n + 1] = x
      /\ DOMAIN longer = 1..(n + 1) /\ DOMAIN list = 1..n
      /\ \A i \in 1..n : longer[i] = list[i] /\ list[i] \in S
  BY AppendProperties
<1> HIDE DEF n, longer
<1>2. Weighed(weight, list) \in Seq(Nat) /\ Len(Weighed(weight, list)) = n
      /\ \A i \in 1..n : Weighed(weight, list)[i] = weight[list[i]]
  BY <1>1 DEF Weighed
<1>3. \A i \in 1..(n + 1) : (i = n + 1 \/ i \in 1..n) /\ longer[i] \in S
  BY <1>1
<1>4. u \in Seq(Nat) /\ Len(u) = n + 1 /\ \A i \in 1..(n + 1) : u[i] = weight[longer[i]]
  BY <1>1, <1>3 DEF Weighed
<1>5. v \in Seq(Nat) /\ Len(v) = n + 1 /\ v[n + 1] = weight[x]
      /\ \A i \in 1..n : v[i] = weight[list[i]]
  BY <1>1, <1>2, AppendProperties
<1>6. u = v
  <2> HIDE DEF u, v
  <2>1. \A i \in 1..Len(u) : u[i] = v[i]
    <3> SUFFICES ASSUME NEW i \in 1..(n + 1) PROVE u[i] = v[i]
      BY <1>4
    <3>1. CASE i = n + 1
      BY <1>1, <1>4, <1>5, <3>1
    <3>2. CASE i \in 1..n
      BY <1>1, <1>4, <1>5, <3>2
    <3> QED
      BY <1>3, <3>1, <3>2
  <2> QED
    BY <1>4, <1>5, <2>1, SeqEqual
<1> QED
  BY <1>2, <1>6 DEF longer

\* An item more adds its weight.
LEMMA TotalWeighed ==
    ASSUME NEW S, NEW weight \in [S -> Nat], NEW list \in Seq(S), NEW x \in S
    PROVE  /\ Total(Weighed(weight, list)) \in Nat
           /\ Total(Weighed(weight, Append(list, x))) = Total(Weighed(weight, list)) + weight[x]
           /\ Total(Weighed(weight, <<>>)) = 0
<1>1. /\ Weighed(weight, list) \in Seq(Nat) /\ weight[x] \in Nat
      /\ Weighed(weight, Append(list, x)) = Append(Weighed(weight, list), weight[x])
  BY WeighedAppend
<1>2. Weighed(weight, <<>>) = <<>>
  BY DEF Weighed
<1> QED
  BY <1>1, <1>2, TotalAppend, TotalEmpty

\* What Only has kept of the first k items.
Kept(kept, list, k, chosen, R) ==
    /\ kept \in Seq(R)
    /\ \A i \in 1..Len(kept) : \E m \in 1..k : kept[i] = list[m] /\ list[m] \in chosen
    /\ \A m \in 1..k : list[m] \in chosen => \E i \in 1..Len(kept) : kept[i] = list[m]
    /\ \A i, j \in 1..Len(kept) : i < j =>
          \E m, n \in 1..k : m < n /\ kept[i] = list[m] /\ kept[j] = list[n]

\* The next item joins them if it is chosen.
LEMMA KeptStep ==
    ASSUME NEW R, NEW list \in Seq(R), NEW chosen, NEW kept, NEW k \in Nat,
           k + 1 \in 1..Len(list), Kept(kept, list, k, chosen, R)
    PROVE  Kept(IF list[k + 1] \in chosen THEN Append(kept, list[k + 1]) ELSE kept,
                list, k + 1, chosen, R)
<1> DEFINE item == list[k + 1]
           longer == Append(kept, item)
<1>1. kept \in Seq(R) /\ item \in R /\ Len(kept) \in Nat /\ k + 1 \in 1..(k + 1)
  BY DEF Kept
<1>2. /\ longer \in Seq(R) /\ Len(longer) = Len(kept) + 1 /\ longer[Len(kept) + 1] = item
      /\ \A i \in 1..Len(kept) : longer[i] = kept[i]
  BY <1>1, AppendProperties
<1> HIDE DEF longer
<1>3. CASE item \notin chosen
  <2>1. \A m \in 1..(k + 1) : m \in 1..k \/ list[m] \notin chosen
    BY <1>3
  <2> QED
    BY <1>3, <2>1 DEF Kept
<1>4. CASE item \in chosen
  <2>1. \A i \in 1..Len(longer) : i \in 1..Len(kept) \/ i = Len(kept) + 1
    BY <1>1, <1>2
  <2>2. ASSUME NEW i \in 1..Len(longer)
        PROVE  \E m \in 1..(k + 1) : longer[i] = list[m] /\ list[m] \in chosen
    <3>1. CASE i \in 1..Len(kept)
      <4>1. PICK m \in 1..k : kept[i] = list[m] /\ list[m] \in chosen
        BY <3>1 DEF Kept
      <4>2. m \in 1..(k + 1)
        OBVIOUS
      <4> QED
        BY <1>2, <3>1, <4>1, <4>2
    <3> QED
      BY <1>1, <1>2, <1>4, <2>1, <3>1
  <2>3. ASSUME NEW m \in 1..(k + 1), list[m] \in chosen
        PROVE  \E i \in 1..Len(longer) : longer[i] = list[m]
    <3>1. CASE m \in 1..k
      <4>1. PICK i \in 1..Len(kept) : kept[i] = list[m]
        BY <2>3, <3>1 DEF Kept
      <4>2. i \in 1..Len(longer)
        BY <1>1, <1>2
      <4> QED
        BY <1>2, <4>1, <4>2
    <3>2. CASE m = k + 1
      <4>1. Len(kept) + 1 \in 1..Len(longer)
        BY <1>1, <1>2
      <4> QED
        BY <1>2, <3>2, <4>1
    <3> QED
      BY <3>1, <3>2
  <2>4. ASSUME NEW i \in 1..Len(longer), NEW j \in 1..Len(longer), i < j
        PROVE  \E m, n \in 1..(k + 1) : m < n /\ longer[i] = list[m] /\ longer[j] = list[n]
    <3>1. i \in 1..Len(kept) /\ longer[i] = kept[i]
      BY <1>1, <1>2, <2>1, <2>4
    <3>2. CASE j \in 1..Len(kept)
      <4>1. PICK m \in 1..k, n \in 1..k : m < n /\ kept[i] = list[m] /\ kept[j] = list[n]
        BY <2>4, <3>1, <3>2 DEF Kept
      <4>2. m \in 1..(k + 1) /\ n \in 1..(k + 1)
        OBVIOUS
      <4> QED
        BY <1>2, <3>1, <3>2, <4>1, <4>2
    <3>3. CASE j = Len(kept) + 1
      <4>1. PICK m \in 1..k : kept[i] = list[m]
        BY <3>1 DEF Kept
      <4>2. m \in 1..(k + 1) /\ k + 1 \in 1..(k + 1) /\ m < k + 1 /\ longer[j] = list[k + 1]
        BY <1>2, <3>3
      <4> QED
        BY <3>1, <4>1, <4>2
    <3> QED
      BY <2>1, <3>2, <3>3
  <2>5. Kept(longer, list, k + 1, chosen, R)
    BY <1>2, <2>2, <2>3, <2>4 DEF Kept
  <2> QED
    BY <1>4, <2>5 DEF longer
<1> QED
  BY <1>3, <1>4

\* The selections of the first items, one by one.
Selects(f, list, chosen, n, R) ==
    /\ f \in [0..n -> Seq(R)] /\ f[0] = <<>> /\ f[n] = Only(list, chosen)
    /\ \A i \in 1..n :
          f[i] = IF list[i] \in chosen THEN Append(f[i - 1], list[i]) ELSE f[i - 1]

\* Only is what its recursion says.
LEMMA OnlySteps ==
    ASSUME NEW R, NEW list \in Seq(R), NEW chosen, NEW n, n = Len(list)
    PROVE  \E f : Selects(f, list, chosen, n, R)
<1> DEFINE pick(kept, i) == IF list[i] \in chosen THEN Append(kept, list[i]) ELSE kept
           step == [p \in Seq(R) \X (1..n) |-> pick(p[1], p[2])]
           Picks(f) == f = [i \in 0..n |-> IF i = 0 THEN <<>> ELSE pick(f[i - 1], i)]
           c == CHOOSE f : Picks(f)
           T == {k \in 0..n : c[k] \in Seq(R)}
<1>1. n \in Nat /\ \A i \in 1..n : list[i] \in R
  OBVIOUS
<1>2. ASSUME NEW kept \in Seq(R), NEW i \in 1..n PROVE pick(kept, i) \in Seq(R)
  BY <1>1, AppendProperties
<1>3. IsStep(step, <<>>, Seq(R), n)
  <2> HIDE DEF pick
  <2> QED
    BY <1>1, <1>2 DEF IsStep
<1>4. PICK f : Unrolls(f, step, <<>>, Seq(R), n)
  <2> HIDE DEF step
  <2> QED
    BY <1>3, Recursion
<1>5. \A i \in 1..n : f[i] = pick(f[i - 1], i)
  <2>1. \A i \in 1..n : f[i - 1] \in Seq(R)
    BY <1>1, <1>4 DEF Unrolls
  <2>2. \A i \in 1..n : f[i] = step[<<f[i - 1], i>>]
    <3> HIDE DEF step
    <3> QED
      BY <1>4 DEF Unrolls
  <2> HIDE DEF pick
  <2> QED
    BY <2>1, <2>2
<1>6. Picks(f)
  <2> HIDE DEF pick
  <2> QED
    BY <1>4, <1>5 DEF Unrolls
<1>7. Picks(c)
  <2> HIDE DEF Picks
  <2> QED
    BY <1>6
<1>8. Only(list, chosen) = c[n]
  BY DEF Only
<1> HIDE DEF c
<1>9. c[0] = <<>> /\ \A i \in 1..n : c[i] = pick(c[i - 1], i)
  <2> HIDE DEF pick
  <2> QED
    BY <1>1, <1>7
<1>10. ASSUME NEW k \in 0..(n - 1), k \in T PROVE k + 1 \in T
  <2>1. k + 1 \in 1..n /\ k + 1 \in 0..n /\ (k + 1) - 1 = k
    BY <1>1
  <2>2. pick(c[k], k + 1) \in Seq(R)
    BY <1>2, <1>10, <2>1
  <2> QED
    BY <1>9, <2>1, <2>2
<1>11. Inductive(T, 0, n)
  <2>1. 0 \in T
    <3>1. 0 \in 0..n /\ <<>> \in Seq(R)
      BY <1>1
    <3> HIDE DEF pick
    <3> QED
      BY <1>9, <3>1
  <2> HIDE DEF T
  <2> QED
    BY <1>1, <1>10, <2>1 DEF Inductive
<1>12. \A i \in 0..n : i \in T
  <2> HIDE DEF T
  <2> QED
    BY <1>11, FromTo
<1>13. Selects(c, list, chosen, n, R)
  BY <1>7, <1>8, <1>9, <1>12 DEF Selects
<1> QED
  BY <1>13

\* Only keeps the chosen items, each as often as it is there, in order.
LEMMA OnlyKeeps ==
    ASSUME NEW R, NEW list \in Seq(R), NEW chosen
    PROVE  Kept(Only(list, chosen), list, Len(list), chosen, R)
<1> DEFINE n == Len(list)
<1>1. n \in Nat
  OBVIOUS
<1>2. PICK c : Selects(c, list, chosen, n, R)
  BY OnlySteps
<1> DEFINE T == {k \in 0..n : Kept(c[k], list, k, chosen, R)}
<1>3. 0 \in T
  <2>1. <<>> \in Seq(R) /\ Len(<<>>) = 0 /\ 1..0 = {}
    OBVIOUS
  <2>2. Kept(<<>>, list, 0, chosen, R)
    BY <2>1 DEF Kept
  <2> QED
    BY <1>1, <1>2, <2>2 DEF Selects
<1>4. ASSUME NEW k \in 0..(n - 1), k \in T PROVE k + 1 \in T
  <2>1. k \in Nat /\ k + 1 \in 1..Len(list) /\ k + 1 \in 0..n /\ (k + 1) - 1 = k
    BY <1>1
  <2>2. c[k + 1] = IF list[k + 1] \in chosen THEN Append(c[k], list[k + 1]) ELSE c[k]
    BY <1>2, <2>1 DEF Selects
  <2>3. Kept(c[k + 1], list, k + 1, chosen, R)
    BY <1>4, <2>1, <2>2, KeptStep
  <2> QED
    BY <2>1, <2>3
<1>5. Inductive(T, 0, n)
  <2> HIDE DEF T
  <2> QED
    BY <1>1, <1>3, <1>4 DEF Inductive
<1>6. n \in T
  <2>1. n \in 0..n
    BY <1>1
  <2> HIDE DEF T
  <2> QED
    BY <1>5, <2>1, FromTo
<1> QED
  BY <1>2, <1>6 DEF Selects

\* They are the chosen items, and as related as before.
LEMMA OnlyMembers ==
    ASSUME NEW R, NEW list \in Seq(R), NEW chosen, NEW kept, kept = Only(list, chosen)
    PROVE  /\ kept \in Seq(R) /\ ToSet(kept) = ToSet(list) \cap chosen
           /\ \A rel : Related(list, rel) => Related(kept, rel)
<1>1. Kept(kept, list, Len(list), chosen, R)
  BY OnlyKeeps
<1> DEFINE n == Len(list)
<1>2. /\ kept \in Seq(R)
      /\ \A i \in 1..Len(kept) : \E m \in 1..n : kept[i] = list[m] /\ list[m] \in chosen
      /\ \A m \in 1..n : list[m] \in chosen => \E i \in 1..Len(kept) : kept[i] = list[m]
      /\ \A i, j \in 1..Len(kept) : i < j =>
            \E k, m \in 1..n : k < m /\ kept[i] = list[k] /\ kept[j] = list[m]
  BY <1>1 DEF Kept
<1>3. /\ \A x : x \in ToSet(list) <=> \E i \in 1..n : x = list[i]
      /\ \A x : x \in ToSet(kept) <=> \E i \in 1..Len(kept) : x = kept[i]
  <2>1. DOMAIN list = 1..n /\ DOMAIN kept = 1..Len(kept)
    BY <1>2
  <2> QED
    BY <2>1 DEF ToSet
<1> HIDE DEF n
<1>4. ToSet(kept) = ToSet(list) \cap chosen
  <2>1. ASSUME NEW x \in ToSet(kept) PROVE x \in ToSet(list) \cap chosen
    <3>1. PICK i \in 1..Len(kept) : x = kept[i]
      BY <1>3
    <3>2. PICK m \in 1..n : kept[i] = list[m] /\ list[m] \in chosen
      BY <1>2
    <3> QED
      BY <1>3, <3>1, <3>2
  <2>2. ASSUME NEW x \in ToSet(list) \cap chosen PROVE x \in ToSet(kept)
    <3>1. PICK m \in 1..n : x = list[m]
      BY <1>3
    <3>2. PICK i \in 1..Len(kept) : kept[i] = list[m]
      BY <1>2, <2>2, <3>1
    <3> QED
      BY <1>3, <3>1, <3>2
  <2> QED
    BY <2>1, <2>2
<1>5. ASSUME NEW rel, Related(list, rel) PROVE Related(kept, rel)
  <2>1. \A k, m \in 1..n : k < m => <<list[k], list[m]>> \in rel
    BY <1>5 DEF Related, n
  <2>2. ASSUME NEW i \in 1..Len(kept), NEW j \in 1..Len(kept), i < j
        PROVE  <<kept[i], kept[j]>> \in rel
    <3>1. PICK k \in 1..n, m \in 1..n : k < m /\ kept[i] = list[k] /\ kept[j] = list[m]
      BY <1>2, <2>2
    <3> QED
      BY <2>1, <3>1
  <2> QED
    BY <2>2 DEF Related
<1> QED
  BY <1>2, <1>4, <1>5

\* Of nothing, nothing is kept.
LEMMA OnlyNothing ==
    ASSUME NEW chosen
    PROVE  Only(<<>>, chosen) = <<>>
<1> DEFINE none == <<>>
<1>1. none \in Seq({}) /\ Len(none) = 0 /\ none = <<>>
  OBVIOUS
<1> HIDE DEF none
<1>2. PICK e : Selects(e, none, chosen, 0, {})
  BY <1>1, OnlySteps
<1> QED
  BY <1>1, <1>2 DEF Selects, none

\* An item more is kept behind the others, if it is chosen.
LEMMA OnlyAppend ==
    ASSUME NEW R, NEW list \in Seq(R), NEW x \in R, NEW chosen
    PROVE  /\ Only(list, chosen) \in Seq(R)
           /\ Only(Append(list, x), chosen)
                = IF x \in chosen THEN Append(Only(list, chosen), x) ELSE Only(list, chosen)
<1> DEFINE n == Len(list)
           longer == Append(list, x)
<1>1. /\ n \in Nat /\ longer \in Seq(R) /\ n + 1 = Len(longer)
      /\ longer[n + 1] = x /\ \A i \in 1..n : longer[i] = list[i]
  OBVIOUS
<1>2. PICK f : Selects(f, list, chosen, n, R)
  BY OnlySteps
<1> HIDE DEF longer
<1>3. PICK g : Selects(g, longer, chosen, n + 1, R)
  BY <1>1, OnlySteps
<1> HIDE DEF n
<1>4. InStep(f, g, n)
  <2>1. \A i \in 1..n : i \in 1..(n + 1)
    BY <1>1
  <2> QED
    BY <1>1, <1>2, <1>3, <2>1 DEF InStep, Selects
<1>5. f[n] = g[n]
  <2>1. n \in 0..n
    BY <1>1
  <2> QED
    BY <1>1, <1>4, <2>1, SameSteps
<1>6. g[n + 1] = IF x \in chosen THEN Append(g[n], x) ELSE g[n]
  <2>1. n + 1 \in 1..(n + 1) /\ (n + 1) - 1 = n
    BY <1>1
  <2> QED
    BY <1>1, <1>3, <2>1 DEF Selects
<1>7. f[n] \in Seq(R)
  BY <1>1, <1>2 DEF Selects
<1> QED
  BY <1>2, <1>3, <1>5, <1>6, <1>7 DEF Selects, longer

\* To choose twice is to choose what is chosen both times.
LEMMA OnlyOnly ==
    ASSUME NEW R, NEW list \in Seq(R), NEW A, NEW B
    PROVE  Only(Only(list, A), B) = Only(list, A \cap B)
<1> DEFINE n == Len(list)
<1>1. n \in Nat /\ \A i \in 1..n : list[i] \in R
  OBVIOUS
<1>2. PICK f : Selects(f, list, A, n, R)
  BY OnlySteps
<1>3. PICK g : Selects(g, list, A \cap B, n, R)
  BY OnlySteps
<1> HIDE DEF n
<1> DEFINE T == {k \in 0..n : Only(f[k], B) = g[k]}
<1>4. 0 \in T
  <2>1. <<>> \in Seq(R) /\ 0 = Len(<<>>)
    OBVIOUS
  <2>2. PICK e : Selects(e, <<>>, B, 0, R)
    BY <2>1, OnlySteps
  <2>3. Only(<<>>, B) = <<>>
    BY <2>2 DEF Selects
  <2> QED
    BY <1>1, <1>2, <1>3, <2>3 DEF Selects
<1>5. ASSUME NEW k \in 0..(n - 1), k \in T PROVE k + 1 \in T
  <2> DEFINE x == list[k + 1]
  <2>1. k + 1 \in 1..n /\ k + 1 \in 0..n /\ (k + 1) - 1 = k /\ k \in 0..n /\ x \in R
    BY <1>1
  <2> HIDE DEF x
  <2>2. /\ f[k + 1] = (IF x \in A THEN Append(f[k], x) ELSE f[k])
        /\ g[k + 1] = (IF x \in A \cap B THEN Append(g[k], x) ELSE g[k])
        /\ f[k] \in Seq(R)
    BY <1>2, <1>3, <2>1 DEF Selects, x
  <2>3. Only(Append(f[k], x), B) = IF x \in B THEN Append(Only(f[k], B), x) ELSE Only(f[k], B)
    <3>1. x \in R /\ f[k] \in Seq(R)
      BY <2>1, <2>2
    <3>2. \A list2 \in Seq(R), y \in R :
            Only(Append(list2, y), B) = IF y \in B THEN Append(Only(list2, B), y) ELSE Only(list2, B)
      BY OnlyAppend
    <3> QED
      BY <3>1, <3>2
  <2>4. Only(f[k + 1], B) = g[k + 1]
    BY <1>5, <2>2, <2>3
  <2> QED
    BY <2>1, <2>4
<1>6. Inductive(T, 0, n)
  <2> HIDE DEF T
  <2> QED
    BY <1>1, <1>4, <1>5 DEF Inductive
<1>7. n \in T
  <2>1. n \in 0..n
    BY <1>1
  <2> HIDE DEF T
  <2> QED
    BY <1>6, <2>1, FromTo
<1> QED
  BY <1>2, <1>3, <1>7 DEF Selects

-----------------------------------------------------------------------------
(* The loop of _iter_batches *)

\* The caps are numbers, and each text has its tokens.
Measured(S, tokens, caps) ==
    caps.texts \in Nat \ {0} /\ caps.tokens \in Nat /\ tokens \in [S -> Nat \ {0}]

\* Every text has tokens, at least one.
LEMMA TokensType ==
    ASSUME NEW S, NEW tokens, NEW caps, Measured(S, tokens, caps), NEW text \in S
    PROVE  tokens[text] \in Nat \ {0}
BY DEF Measured

\* A text more adds its tokens.
LEMMA TokensAppend ==
    ASSUME NEW S, NEW tokens, NEW caps, Measured(S, tokens, caps),
           NEW texts \in Seq(S), NEW text \in S
    PROVE  /\ TokensOf(texts, tokens) \in Nat
           /\ TokensOf(Append(texts, text), tokens) = TokensOf(texts, tokens) + tokens[text]
<1>1. tokens \in [S -> Nat]
  BY DEF Measured
<1>2. \A list : TokensOf(list, tokens) = Total(Weighed(tokens, list))
  BY DEF TokensOf, Weighed
<1> QED
  BY <1>1, <1>2, TotalWeighed

\* The loop before its first text, and whatever it may gather.
Nothing == [batches |-> <<>>, current |-> <<>>, tokens |-> 0]
AccType(S) == [batches : Seq(Seq(S)), current : Seq(S), tokens : Nat]

\* A turn keeps the types.
LEMMA AddTextType ==
    ASSUME NEW S, NEW tokens, NEW caps, Measured(S, tokens, caps),
           NEW acc \in AccType(S), NEW text \in S
    PROVE  AddText(acc, text, tokens[text], caps) \in AccType(S)
<1>1. tokens[text] \in Nat /\ acc.tokens \in Nat
  BY TokensType DEF AccType
<1>2. /\ Append(acc.batches, acc.current) \in Seq(Seq(S))
      /\ Append(acc.current, text) \in Seq(S) /\ <<text>> \in Seq(S)
  BY AppendProperties DEF AccType
<1>3. CASE Overflows(acc, tokens[text], caps)
  BY <1>1, <1>2, <1>3 DEF AddText, AccType
<1>4. CASE ~Overflows(acc, tokens[text], caps)
  <2>1. AddText(acc, text, tokens[text], caps)
          = [batches |-> acc.batches, current |-> Append(acc.current, text),
             tokens |-> acc.tokens + tokens[text]]
    BY <1>4 DEF AddText, AccType
  <2> QED
    BY <1>1, <1>2, <2>1 DEF AccType
<1> QED
  BY <1>3, <1>4

\* Turns is what its recursion says.
LEMMA TurnByTurn ==
    ASSUME NEW S, NEW tokens, NEW caps, Measured(S, tokens, caps),
           NEW texts \in Seq(S), NEW n, n = Len(texts)
    PROVE  /\ Turns(texts, tokens, caps)[0] = Nothing
           /\ \A i \in 1..n : Turns(texts, tokens, caps)[i]
                = AddText(Turns(texts, tokens, caps)[i - 1], texts[i], tokens[texts[i]], caps)
<1> DEFINE Turn(acc, i) == AddText(acc, texts[i], tokens[texts[i]], caps)
           step == [p \in AccType(S) \X (1..n) |-> Turn(p[1], p[2])]
           Gathers(f) == f = [i \in 0..n |-> IF i = 0 THEN Nothing ELSE Turn(f[i - 1], i)]
<1>1. n \in Nat /\ \A i \in 1..n : texts[i] \in S
  OBVIOUS
<1>2. IsStep(step, Nothing, AccType(S), n)
  <2>1. Nothing \in AccType(S)
    BY DEF Nothing, AccType
  <2>2. \A acc \in AccType(S), i \in 1..n : Turn(acc, i) \in AccType(S)
    BY <1>1, AddTextType
  <2> QED
    BY <1>1, <2>1, <2>2 DEF IsStep
<1>3. PICK f : Unrolls(f, step, Nothing, AccType(S), n)
  <2> HIDE DEF step
  <2> QED
    BY <1>2, Recursion
<1>4. \A i \in 1..n : f[i] = Turn(f[i - 1], i)
  <2>1. \A i \in 1..n : f[i - 1] \in AccType(S)
    BY <1>1, <1>3 DEF Unrolls
  <2>2. \A i \in 1..n : f[i] = step[<<f[i - 1], i>>]
    <3> HIDE DEF step
    <3> QED
      BY <1>3 DEF Unrolls
  <2> QED
    BY <2>1, <2>2
<1>5. Gathers(f)
  BY <1>3, <1>4 DEF Unrolls
<1>6. Gathers(Turns(texts, tokens, caps))
  <2>1. Turns(texts, tokens, caps) = CHOOSE g : Gathers(g)
    BY DEF Turns, Nothing
  <2> HIDE DEF Gathers
  <2> QED
    BY <1>5, <2>1
<1> QED
  BY <1>1, <1>6

-----------------------------------------------------------------------------
(* What the requests hold *)

\* A request keeps both caps, but for a single text over the token cap.
WithinCaps(batch, tokens, caps) ==
    /\ Len(batch) \in 1..caps.texts
    /\ TokensOf(batch, tokens) <= caps.tokens \/ Len(batch) = 1

\* A request that could not have taken the first text of the next one.
FullBefore(batch, next, tokens, caps) ==
    \/ Len(batch) = caps.texts
    \/ TokensOf(batch, tokens) + tokens[next[1]] > caps.tokens

\* No text has no tokens.
LEMMA NoTokens == \A tokens : TokensOf(<<>>, tokens) = 0
<1>1. \A tokens : [i \in DOMAIN <<>> |-> tokens[<<>>[i]]] = <<>>
  OBVIOUS
<1> QED
  BY <1>1, TotalEmpty DEF TokensOf

\* A text alone has its own tokens.
LEMMA FirstTokens ==
    ASSUME NEW S, NEW tokens, NEW caps, Measured(S, tokens, caps), NEW text \in S
    PROVE  TokensOf(<<>>, tokens) = 0 /\ TokensOf(<<text>>, tokens) = tokens[text]
<1>1. <<>> \in Seq(S) /\ Len(<<>>) = 0 /\ Append(<<>>, text) = <<text>>
  OBVIOUS
<1>3. TokensOf(<<>>, tokens) = 0
  BY NoTokens
<1>4. tokens[text] \in Nat
  BY TokensType
<1>5. TokensOf(Append(<<>>, text), tokens) = TokensOf(<<>>, tokens) + tokens[text]
  BY <1>1, TokensAppend
<1> QED
  BY <1>1, <1>3, <1>4, <1>5

\* The texts gathered so far, closed requests first.
TextSoFar(acc) == FlattenSeq(acc.batches) \o acc.current

\* A turn puts the next text behind the others, in whichever request.
LEMMA TextGrows ==
    ASSUME NEW S, NEW tokens, NEW caps, Measured(S, tokens, caps),
           NEW acc \in AccType(S), NEW text \in S
    PROVE  /\ TextSoFar(acc) \in Seq(S)
           /\ TextSoFar(AddText(acc, text, tokens[text], caps)) = Append(TextSoFar(acc), text)
<1> DEFINE b == FlattenSeq(acc.batches)
           c == acc.current
<1>1. acc.batches \in Seq(Seq(S)) /\ c \in Seq(S)
  BY DEF AccType
<1>2. b \in Seq(S) /\ FlattenSeq(Append(acc.batches, c)) = b \o c
  <2> HIDE DEF c
  <2> QED
    BY <1>1, FlattenAppend
<1>3. <<text>> \in Seq(S) /\ Append(c, text) = c \o <<text>>
  BY <1>1, AppendIsConcat
<1> HIDE DEF b, c
<1>4. b \o c \in Seq(S) /\ Append(b \o c, text) = (b \o c) \o <<text>>
  BY <1>1, <1>2, ConcatProperties, AppendIsConcat
<1>5. (b \o c) \o <<text>> = b \o (c \o <<text>>)
  <2>1. \A x, y, z \in Seq(S) : (x \o y) \o z = x \o (y \o z)
    BY ConcatAssociative
  <2> QED
    BY <1>1, <1>2, <1>3, <2>1, Zenon
<1>6. CASE Overflows(acc, tokens[text], caps)
  <2>1. AddText(acc, text, tokens[text], caps).batches = Append(acc.batches, c)
        /\ AddText(acc, text, tokens[text], caps).current = <<text>>
    BY <1>6 DEF AddText, c
  <2> QED
    BY <1>2, <1>4, <2>1 DEF TextSoFar, b, c
<1>7. CASE ~Overflows(acc, tokens[text], caps)
  <2>1. AddText(acc, text, tokens[text], caps).batches = acc.batches
        /\ AddText(acc, text, tokens[text], caps).current = Append(c, text)
    BY <1>7 DEF AddText, AccType, c
  <2> QED
    BY <1>3, <1>4, <1>5, <2>1 DEF TextSoFar, b, c
<1> QED
  BY <1>6, <1>7

\* What the loop has after k texts.
Gathered(acc, texts, k, S, tokens, caps) ==
    /\ acc \in AccType(S)
    /\ Len(TextSoFar(acc)) = k /\ \A i \in 1..k : TextSoFar(acc)[i] = texts[i]
    /\ acc.current = <<>> => acc.batches = <<>>
    /\ acc.tokens = TokensOf(acc.current, tokens)
    /\ acc.current # <<>> => WithinCaps(acc.current, tokens, caps)
    /\ \A i \in 1..Len(acc.batches) : WithinCaps(acc.batches[i], tokens, caps)
    /\ \A i \in 1..(Len(acc.batches) - 1) :
          FullBefore(acc.batches[i], acc.batches[i + 1], tokens, caps)
    /\ acc.batches # <<>> => FullBefore(acc.batches[Len(acc.batches)], acc.current, tokens, caps)

\* A turn keeps it.
LEMMA GatheredStep ==
    ASSUME NEW S, NEW tokens, NEW caps, Measured(S, tokens, caps),
           NEW texts, NEW acc, NEW k \in Nat, NEW text \in S, text = texts[k + 1],
           Gathered(acc, texts, k, S, tokens, caps)
    PROVE  Gathered(AddText(acc, text, tokens[text], caps), texts, k + 1, S, tokens, caps)
<1> DEFINE new == AddText(acc, text, tokens[text], caps)
           cost == tokens[text]
           b == acc.batches
           c == acc.current
<1>1. /\ acc \in AccType(S) /\ b \in Seq(Seq(S)) /\ c \in Seq(S) /\ acc.tokens \in Nat
      /\ acc.tokens = TokensOf(c, tokens)
  BY DEF Gathered, AccType
<1>2. new \in AccType(S)
  BY <1>1, AddTextType
<1>3. cost \in Nat /\ caps.texts \in Nat \ {0} /\ caps.tokens \in Nat
  BY TokensType DEF Measured
<1>4. Len(TextSoFar(new)) = k + 1 /\ \A i \in 1..(k + 1) : TextSoFar(new)[i] = texts[i]
  <2>1. TextSoFar(acc) \in Seq(S) /\ TextSoFar(new) = Append(TextSoFar(acc), text)
    BY <1>1, TextGrows
  <2>2. Len(TextSoFar(acc)) = k /\ \A i \in 1..k : TextSoFar(acc)[i] = texts[i]
    BY DEF Gathered
  <2>3. /\ Len(TextSoFar(new)) = k + 1 /\ TextSoFar(new)[k + 1] = text
        /\ \A i \in 1..k : TextSoFar(new)[i] = TextSoFar(acc)[i]
    <3> HIDE DEF new
    <3> QED
      BY <2>1, <2>2, AppendProperties
  <2>4. \A i \in 1..(k + 1) : i \in 1..k \/ i = k + 1
    OBVIOUS
  <2> QED
    BY <2>2, <2>3, <2>4
<1>5. CASE Overflows(acc, tokens[text], caps)
  <2>1. /\ new.batches = Append(b, c) /\ new.current = <<text>> /\ new.tokens = cost
    BY <1>5 DEF AddText
  <2>2. /\ c # <<>> /\ WithinCaps(c, tokens, caps) /\ FullBefore(c, <<text>>, tokens, caps)
    BY <1>1, <1>3, <1>5 DEF Overflows, Gathered, WithinCaps, FullBefore
  <2>3. TokensOf(<<text>>, tokens) = cost
    BY FirstTokens
  <2>4. WithinCaps(<<text>>, tokens, caps)
    BY <1>3 DEF WithinCaps
  <2>5. /\ Len(Append(b, c)) = Len(b) + 1 /\ Append(b, c)[Len(b) + 1] = c
        /\ \A i \in 1..Len(b) : Append(b, c)[i] = b[i]
        /\ Len(b) \in Nat /\ (Len(b) # 0 => b # <<>>)
    BY <1>1, AppendProperties
  <2> HIDE DEF new, b, c, cost
  <2>6. \A i \in 1..Len(new.batches) : WithinCaps(new.batches[i], tokens, caps)
    <3>1. \A i \in 1..(Len(b) + 1) : i \in 1..Len(b) \/ i = Len(b) + 1
      BY <2>5
    <3> QED
      BY <2>1, <2>2, <2>5, <3>1 DEF Gathered, b
  <2>7. ASSUME NEW i \in 1..(Len(new.batches) - 1)
        PROVE  FullBefore(new.batches[i], new.batches[i + 1], tokens, caps)
    <3>1. i \in 1..Len(b)
      BY <2>1, <2>5
    <3>2. CASE i = Len(b)
      BY <2>1, <2>5, <3>1, <3>2 DEF Gathered, b, c
    <3>3. CASE i \in 1..(Len(b) - 1)
      <4>1. i + 1 \in 1..Len(b)
        BY <2>5, <3>3
      <4> QED
        BY <2>1, <2>5, <3>1, <3>3, <4>1 DEF Gathered, b
    <3> QED
      BY <2>5, <3>1, <3>2, <3>3
  <2>8. FullBefore(new.batches[Len(new.batches)], new.current, tokens, caps)
    BY <2>1, <2>2, <2>5
  <2>9. Gathered(new, texts, k + 1, S, tokens, caps)
    BY <1>2, <1>4, <2>1, <2>3, <2>4, <2>6, <2>7, <2>8 DEF Gathered
  <2> QED
    BY <2>9 DEF new
<1>6. CASE ~Overflows(acc, tokens[text], caps)
  <2>1. /\ new.batches = b /\ new.current = Append(c, text)
        /\ new.tokens = acc.tokens + cost
    BY <1>1, <1>6 DEF AddText, AccType
  <2>2. /\ Append(c, text) # <<>> /\ Len(Append(c, text)) = Len(c) + 1
        /\ Len(c) \in Nat /\ (c # <<>> => Append(c, text)[1] = c[1])
        /\ (c = <<>> => Len(c) = 0)
    BY <1>1, AppendProperties
  <2>3. TokensOf(Append(c, text), tokens) = acc.tokens + cost
    BY <1>1, TokensAppend
  <2> HIDE DEF new, b, c, cost
  <2>4. WithinCaps(Append(c, text), tokens, caps)
    <3>1. CASE c = <<>>
      BY <1>3, <2>2, <3>1 DEF WithinCaps
    <3>2. CASE c # <<>>
      <4>1. Len(c) < caps.texts /\ acc.tokens + cost <= caps.tokens
        BY <1>1, <1>3, <1>6, <2>2, <3>2 DEF Overflows, c, cost
      <4> QED
        BY <1>3, <2>2, <2>3, <4>1 DEF WithinCaps
    <3> QED
      BY <3>1, <3>2
  <2>5. b # <<>> => FullBefore(b[Len(b)], Append(c, text), tokens, caps)
    BY <2>2 DEF Gathered, FullBefore, b, c
  <2>6. Gathered(new, texts, k + 1, S, tokens, caps)
    BY <1>2, <1>4, <2>1, <2>2, <2>3, <2>4, <2>5 DEF Gathered, b
  <2> QED
    BY <2>6 DEF new
<1> QED
  BY <1>5, <1>6

\* So it holds after all of them.
LEMMA AllGathered ==
    ASSUME NEW S, NEW tokens, NEW caps, Measured(S, tokens, caps), NEW texts \in Seq(S)
    PROVE  Gathered(Turns(texts, tokens, caps)[Len(texts)], texts, Len(texts), S, tokens, caps)
<1> DEFINE n == Len(texts)
           turns == Turns(texts, tokens, caps)
           T == {k \in 0..n : Gathered(turns[k], texts, k, S, tokens, caps)}
<1>1. n \in Nat /\ \A i \in 1..n : texts[i] \in S
  OBVIOUS
<1>2. /\ turns[0] = Nothing
      /\ \A i \in 1..n : turns[i] = AddText(turns[i - 1], texts[i], tokens[texts[i]], caps)
  BY TurnByTurn DEF turns
<1> HIDE DEF n, turns
<1>3. 0 \in T
  <2>1. TokensOf(<<>>, tokens) = 0
    BY NoTokens
  <2>2. TextSoFar(Nothing) = <<>>
    BY DEF TextSoFar, Nothing, FlattenSeq
  <2>3. Gathered(Nothing, texts, 0, S, tokens, caps)
    BY <2>1, <2>2 DEF Gathered, Nothing, AccType
  <2> QED
    BY <1>1, <1>2, <2>3
<1>4. ASSUME NEW k \in 0..(n - 1), k \in T PROVE k + 1 \in T
  <2>1. k \in Nat /\ k + 1 \in 0..n /\ k + 1 \in 1..n /\ (k + 1) - 1 = k
    BY <1>1
  <2>2. turns[k + 1] = AddText(turns[k], texts[k + 1], tokens[texts[k + 1]], caps)
    BY <1>2, <2>1
  <2>3. Gathered(AddText(turns[k], texts[k + 1], tokens[texts[k + 1]], caps),
                 texts, k + 1, S, tokens, caps)
    BY <1>1, <1>4, <2>1, GatheredStep
  <2> QED
    BY <2>1, <2>2, <2>3
<1>5. Inductive(T, 0, n)
  <2> HIDE DEF T
  <2> QED
    BY <1>1, <1>3, <1>4 DEF Inductive
<1>6. n \in T
  <2>1. n \in 0..n
    BY <1>1
  <2> HIDE DEF T
  <2> QED
    BY <1>5, <2>1, FromTo
<1> QED
  BY <1>6 DEF n, turns

\* Whatever the texts are, the requests of one call hold all of them, in order;
\* each keeps both caps, but for a single text over the token cap, and none could
\* have taken the first text of the next (embedding_service.py:59-64).
THEOREM RequestsHoldAll ==
    ASSUME NEW S, NEW tokens, NEW caps, Measured(S, tokens, caps), NEW texts \in Seq(S),
           NEW requests, requests = IterBatches(texts, tokens, caps)
    PROVE  /\ requests \in Seq(Seq(S)) /\ FlattenSeq(requests) = texts
           /\ \A i \in 1..Len(requests) : WithinCaps(requests[i], tokens, caps)
           /\ \A i \in 1..(Len(requests) - 1) :
                 FullBefore(requests[i], requests[i + 1], tokens, caps)
<1> DEFINE acc == Turns(texts, tokens, caps)[Len(texts)]
           b == acc.batches
           c == acc.current
           n == Len(b)
<1>1. Gathered(acc, texts, Len(texts), S, tokens, caps)
  BY AllGathered
<1>2. requests = IF c = <<>> THEN b ELSE Append(b, c)
  BY DEF IterBatches
<1>3. b \in Seq(Seq(S)) /\ c \in Seq(S) /\ acc \in AccType(S)
  BY <1>1 DEF Gathered, AccType
<1> HIDE DEF acc
<1>4. /\ Append(b, c) \in Seq(Seq(S)) /\ Len(Append(b, c)) = n + 1
      /\ Append(b, c)[n + 1] = c /\ \A i \in 1..n : Append(b, c)[i] = b[i]
      /\ n \in Nat /\ (n # 0 => b # <<>>)
      /\ FlattenSeq(b) \in Seq(S) /\ FlattenSeq(Append(b, c)) = FlattenSeq(b) \o c
  <2> HIDE DEF b, c
  <2> QED
    BY <1>3, AppendProperties, FlattenAppend
<1>5. TextSoFar(acc) = texts
  <2>1. TextSoFar(acc) \in Seq(S)
    BY <1>3, <1>4, ConcatProperties DEF TextSoFar
  <2> QED
    BY <1>1, <2>1, SeqEqual DEF Gathered
<1>6. CASE c = <<>>
  <2>1. TextSoFar(acc) = FlattenSeq(b)
    BY <1>4, <1>6, ConcatEmptySeq DEF TextSoFar
  <2> QED
    BY <1>1, <1>2, <1>3, <1>5, <1>6, <2>1 DEF Gathered
<1>7. CASE c # <<>>
  <2>1. requests = Append(b, c)
    BY <1>2, <1>7
  <2>2. FlattenSeq(Append(b, c)) = texts
    BY <1>4, <1>5 DEF TextSoFar
  <2> HIDE DEF b, c, n
  <2>3. ASSUME NEW i \in 1..(n + 1) PROVE WithinCaps(Append(b, c)[i], tokens, caps)
    <3>1. i \in 1..n \/ i = n + 1
      BY <1>4
    <3> QED
      BY <1>1, <1>4, <1>7, <3>1 DEF Gathered, b, c, n
  <2>4. ASSUME NEW i \in 1..n PROVE FullBefore(Append(b, c)[i], Append(b, c)[i + 1], tokens, caps)
    <3>1. CASE i = n
      BY <1>1, <1>4, <3>1 DEF Gathered, b, c, n
    <3>2. CASE i \in 1..(n - 1)
      <4>1. i + 1 \in 1..n
        BY <1>4, <3>2
      <4> QED
        BY <1>1, <1>4, <3>2, <4>1 DEF Gathered, b, n
    <3> QED
      BY <1>4, <3>1, <3>2
  <2>5. Len(requests) = n + 1 /\ (n + 1) - 1 = n
    BY <1>4, <2>1
  <2>6. \A i \in 1..(Len(requests) - 1) :
           FullBefore(requests[i], requests[i + 1], tokens, caps)
    BY <2>1, <2>4, <2>5
  <2>7. \A i \in 1..Len(requests) : WithinCaps(requests[i], tokens, caps)
    BY <2>1, <2>3, <2>5
  <2> QED
    BY <1>4, <2>1, <2>2, <2>6, <2>7
<1> QED
  BY <1>6, <1>7

=============================================================================
