----------------------------- MODULE TextProofs -----------------------------
(***************************************************************************)
(* What holds of TextPipeline for documents of any number of lines of any  *)
(* kinds, whatever the sizes and caps.                                     *)
(*                                                                         *)
(* The invariant is that the chunks are those of the lines (TextInv); the  *)
(* rest is about what the operators return. A set of lists with the wanted *)
(* property is the type each loop is shown to stay in: Atom, of the texts  *)
(* that fit a chunk, Chunk, of the lists of atoms that do. Only the last   *)
(* turn tells that the result is not empty.                                *)
(***************************************************************************)
EXTENDS TextPipeline, ListProofs, FiniteSetTheorems

-----------------------------------------------------------------------------
(* Texts and their lengths *)

\* Runs, and texts in which something is left when they are stripped.
Run == [at : Nat, len : Nat \ {0}, sep : {"paragraph", "sentence", "line"}]
Text == Seq(Run) \ {<<>>}

\* What a run adds to the length of a text that goes on behind it.
Weight == [run \in Run |-> run.len + SepLen(run.sep)]

\* Only the boundary behind the last run does not count.
LEMMA TextLenAppend ==
    ASSUME NEW text \in Seq(Run), NEW run \in Run
    PROVE  /\ Total(Weighed(Weight, text)) \in Nat
           /\ TextLen(Append(text, run)) = Total(Weighed(Weight, text)) + run.len
<1> DEFINE longer == Append(text, run)
<1>1. SepLen(run.sep) \in Nat /\ run.len \in Nat
  BY DEF Run, SepLen
<1>2. Weight \in [Run -> Nat] /\ Weight[run] = run.len + SepLen(run.sep)
  <2>1. \A r \in Run : r.len + SepLen(r.sep) \in Nat
    BY DEF Run, SepLen
  <2> QED
    BY <2>1 DEF Weight
<1>3. Total(Weighed(Weight, text)) \in Nat
      /\ Total(Weighed(Weight, longer)) = Total(Weighed(Weight, text)) + Weight[run]
  BY <1>2, TotalWeighed
<1>4. longer \in Seq(Run) /\ longer # <<>> /\ Last(longer) = run
  BY AppendProperties DEF Last
<1> HIDE DEF longer
<1>5. TextLen(longer) = Total(Weighed(Weight, longer)) - SepLen(run.sep)
  <2>1. Weighed(Weight, longer) = [i \in DOMAIN longer |-> longer[i].len + SepLen(longer[i].sep)]
    BY <1>4 DEF Weighed, Weight
  <2> QED
    BY <1>4, <2>1 DEF TextLen
<1> QED
  BY <1>1, <1>2, <1>3, <1>5 DEF longer

\* The length of a text is a number.
LEMMA TextLenType ==
    ASSUME NEW text \in Seq(Run)
    PROVE  TextLen(text) \in Nat
<1>1. CASE text = <<>>
  <2>1. [i \in DOMAIN <<>> |-> <<>>[i].len + SepLen(<<>>[i].sep)] = <<>>
    OBVIOUS
  <2> QED
    BY <1>1, <2>1, TotalEmpty DEF TextLen
<1>2. CASE text # <<>>
  <2>1. PICK front \in Seq(Run), run \in Run : text = Append(front, run)
    BY <1>2, SequenceEmptyOrAppend
  <2>2. run.len \in Nat
    BY DEF Run
  <2> QED
    BY <2>1, <2>2, TextLenAppend
<1> QED
  BY <1>1, <1>2

\* The boundary behind the only run does not count.
LEMMA RunLength ==
    ASSUME NEW run \in Run
    PROVE  TextLen(<<run>>) = run.len
<1>1. <<>> \in Seq(Run) /\ Append(<<>>, run) = <<run>> /\ run.len \in Nat
  BY DEF Run
<1>2. Total(Weighed(Weight, <<>>)) = 0
  <2>1. Weighed(Weight, <<>>) = <<>>
    BY DEF Weighed
  <2> QED
    BY <2>1, TotalEmpty
<1>3. TextLen(Append(<<>>, run)) = Total(Weighed(Weight, <<>>)) + run.len
  BY <1>1, TextLenAppend
<1> QED
  BY <1>1, <1>2, <1>3

-----------------------------------------------------------------------------
(* Texts in pieces *)

\* The loop of Split: its type, its start, a turn.
SplitAcc == [pieces : Seq(Text), open : Seq(Run)]
SplitStart == [pieces |-> <<>>, open |-> <<>>]
SplitAdd(acc, run, kind) ==
    IF run.sep = kind
    THEN [pieces |-> Append(acc.pieces, Append(acc.open, run)), open |-> <<>>]
    ELSE [acc EXCEPT !.open = Append(@, run)]

\* A turn keeps the type, and leaves something.
LEMMA SplitAddType ==
    ASSUME NEW acc \in SplitAcc, NEW run \in Run, NEW kind
    PROVE  /\ SplitAdd(acc, run, kind) \in SplitAcc
           /\ \/ SplitAdd(acc, run, kind).pieces # <<>>
              \/ SplitAdd(acc, run, kind).open # <<>>
<1>1. /\ Append(acc.open, run) \in Text /\ Append(acc.open, run) # <<>>
      /\ acc.pieces \in Seq(Text) /\ Append(acc.open, run) \in Seq(Run)
  <2>1. acc.open \in Seq(Run) /\ acc.pieces \in Seq(Text)
    BY DEF SplitAcc
  <2> QED
    BY <2>1, AppendProperties DEF Text
<1>2. CASE run.sep = kind
  <2>1. Append(acc.pieces, Append(acc.open, run)) \in Seq(Text)
        /\ Append(acc.pieces, Append(acc.open, run)) # <<>>
    BY <1>1, AppendProperties, SMTT(30)
  <2>2. SplitAdd(acc, run, kind)
          = [pieces |-> Append(acc.pieces, Append(acc.open, run)), open |-> <<>>]
    BY <1>2 DEF SplitAdd
  <2>3. <<>> \in Seq(Run)
    OBVIOUS
  <2> QED
    BY <2>1, <2>2, <2>3 DEF SplitAcc
<1>3. CASE run.sep # kind
  <2>1. SplitAdd(acc, run, kind) = [pieces |-> acc.pieces, open |-> Append(acc.open, run)]
    BY <1>3 DEF SplitAdd, SplitAcc
  <2> QED
    BY <1>1, <2>1 DEF SplitAcc
<1> QED
  BY <1>2, <1>3

\* The loop of Split, run by run.
Splits(f, text, kind, n) ==
    /\ f \in [0..n -> SplitAcc] /\ f[0] = SplitStart
    /\ \A i \in 1..n : f[i] = SplitAdd(f[i - 1], text[i], kind)
    /\ Split(text, kind) = IF f[n].open = <<>> THEN f[n].pieces
                           ELSE Append(f[n].pieces, f[n].open)

\* Split is what its recursion says.
LEMMA SplitSteps ==
    ASSUME NEW text \in Seq(Run), NEW kind, NEW n, n = Len(text)
    PROVE  \E f : Splits(f, text, kind, n)
<1> DEFINE add(acc, i) == SplitAdd(acc, text[i], kind)
           step == [p \in SplitAcc \X (1..n) |-> add(p[1], p[2])]
           Adds(f) == f = [i \in 0..n |-> IF i = 0 THEN SplitStart ELSE add(f[i - 1], i)]
           c == CHOOSE f : Adds(f)
<1>1. n \in Nat /\ \A i \in 1..n : text[i] \in Run
  OBVIOUS
<1>2. IsStep(step, SplitStart, SplitAcc, n)
  <2>1. SplitStart \in SplitAcc
    BY DEF SplitStart, SplitAcc
  <2>2. ASSUME NEW acc \in SplitAcc, NEW i \in 1..n PROVE add(acc, i) \in SplitAcc
    BY <1>1, SplitAddType
  <2> HIDE DEF add
  <2> QED
    BY <1>1, <2>1, <2>2 DEF IsStep
<1>3. PICK f : Unrolls(f, step, SplitStart, SplitAcc, n)
  <2> HIDE DEF step
  <2> QED
    BY <1>2, Recursion
<1>4. f \in [0..n -> SplitAcc] /\ f[0] = SplitStart
      /\ \A i \in 1..n : f[i] = add(f[i - 1], i)
  <2> HIDE DEF add
  <2>1. \A i \in 1..n : f[i - 1] \in SplitAcc
    BY <1>1, <1>3 DEF Unrolls
  <2>2. \A i \in 1..n : f[i] = step[<<f[i - 1], i>>]
    <3> HIDE DEF step
    <3> QED
      BY <1>3 DEF Unrolls
  <2> QED
    BY <1>3, <2>1, <2>2 DEF Unrolls
<1>5. Adds(f)
  <2> HIDE DEF add
  <2> QED
    BY <1>4
<1>6. Adds(c)
  <2> HIDE DEF Adds
  <2> QED
    BY <1>5
<1>7. Split(text, kind) = IF c[n].open = <<>> THEN c[n].pieces ELSE Append(c[n].pieces, c[n].open)
  BY DEF Split, SplitAdd, SplitStart
<1> HIDE DEF c
<1>8. ASSUME NEW i \in 0..n PROVE c[i] = IF i = 0 THEN SplitStart ELSE add(c[i - 1], i)
  <2> HIDE DEF add
  <2> QED
    BY <1>6
<1> QED
  <2>1. c[0] = f[0]
    BY <1>1, <1>4, <1>8
  <2>2. ASSUME NEW i \in 1..n, c[i - 1] = f[i - 1] PROVE c[i] = f[i]
    <3>1. i \in 0..n /\ i # 0
      BY <1>1
    <3> HIDE DEF add
    <3> QED
      BY <1>4, <1>8, <2>2, <3>1
  <2>3. InStep(c, f, n)
    BY <2>1, <2>2 DEF InStep
  <2>4. c[n] = f[n]
    BY <1>1, <2>3, SameSteps
  <2> QED
    BY <1>4, <1>7, <2>4 DEF Splits

\* No piece is empty, and a text that is not has pieces.
LEMMA SplitType ==
    ASSUME NEW text \in Seq(Run), NEW kind
    PROVE  Split(text, kind) \in Seq(Text) /\ (text # <<>> => Split(text, kind) # <<>>)
<1> DEFINE n == Len(text)
<1>1. n \in Nat /\ \A i \in 1..n : text[i] \in Run
  OBVIOUS
<1>2. PICK f : Splits(f, text, kind, n)
  BY SplitSteps
<1> HIDE DEF n
<1>3. f[n].pieces \in Seq(Text) /\ f[n].open \in Seq(Run)
  <2>1. f[n] \in SplitAcc
    BY <1>1, <1>2 DEF Splits
  <2> QED
    BY <2>1 DEF SplitAcc
<1>4. ASSUME f[n].open # <<>>
      PROVE  /\ Append(f[n].pieces, f[n].open) \in Seq(Text)
             /\ Append(f[n].pieces, f[n].open) # <<>>
  <2>1. f[n].open \in Text
    BY <1>3, <1>4 DEF Text
  <2> QED
    BY <1>3, <2>1, AppendProperties
<1>5. ASSUME text # <<>> PROVE f[n].pieces # <<>> \/ f[n].open # <<>>
  <2>1. n \in 1..n /\ n - 1 \in 0..n
    BY <1>1, <1>5 DEF n
  <2>2. f[n - 1] \in SplitAcc /\ f[n] = SplitAdd(f[n - 1], text[n], kind)
    BY <1>2, <2>1 DEF Splits
  <2> QED
    BY <1>1, <2>1, <2>2, SplitAddType
<1> QED
  BY <1>2, <1>3, <1>4, <1>5 DEF Splits

-----------------------------------------------------------------------------
(* Texts that fit a chunk *)

\* What no boundary need divide.
Atom == {text \in Text : TextLen(text) <= ChunkSize}

\* Multiplication keeps the order.
LEMMA Times ==
    ASSUME NEW a \in Int, NEW b \in Int, a <= b, NEW s \in Nat
    PROVE  a * s <= b * s /\ (a + 1) * s = a * s + s
OBVIOUS

\* The windows of a run start inside it, all but the last end before it does, and
\* the last does not.
LEMMA WindowStarts ==
    ASSUME NEW len \in Nat \ {0}, NEW step, step = ChunkSize - Overlap,
           NEW n, n = Cardinality({w \in 0..len : w = 0 \/ (w - 1) * step + ChunkSize < len})
    PROVE  /\ n \in Nat \ {0}
           /\ \A k \in 1..n : (k - 1) * step \in 0..(len - 1)
           /\ \A k \in 1..(n - 1) : (k - 1) * step + ChunkSize < len
           /\ (n - 1) * step \in Nat /\ (n - 1) * step + ChunkSize >= len
<1> DEFINE windows == {w \in 0..len : w = 0 \/ (w - 1) * step + ChunkSize < len}
<1>1. step \in Nat \ {0} /\ step <= ChunkSize /\ ChunkSize \in Nat \ {0}
  BY Parameters
<1>2. IsFiniteSet(windows) /\ n \in Nat /\ n # 0
  <2>1. 0 \in Int /\ len \in Int /\ windows \in SUBSET (0..len) /\ 0 \in windows
    OBVIOUS
  <2> HIDE DEF windows
  <2>2. IsFiniteSet(windows)
    BY <2>1, FS_Interval, FS_Subset
  <2>3. n = Cardinality(windows)
    BY DEF windows
  <2> QED
    BY <2>1, <2>2, <2>3, FS_CardinalityType, FS_EmptySet
<1>3. n = Cardinality(windows)
  OBVIOUS
<1>4. \A a, b \in Nat : a <= b => a * step <= b * step /\ a * step \in Nat /\ b * step \in Nat
  BY <1>1, Times
<1>5. ASSUME NEW w \in windows, NEW v \in 0..w PROVE v \in windows
  <2>1. CASE v = 0
    BY <2>1
  <2>2. CASE v # 0
    <3>1. /\ w \in 0..len /\ w # 0 /\ (w - 1) * step + ChunkSize < len
          /\ v \in 0..len /\ v - 1 \in Nat /\ w - 1 \in Nat /\ v - 1 <= w - 1
      BY <2>2
    <3>2. (v - 1) * step <= (w - 1) * step /\ (v - 1) * step \in Nat /\ (w - 1) * step \in Nat
      BY <1>4, <3>1
    <3>3. (v - 1) * step + ChunkSize < len
      BY <1>1, <3>1, <3>2
    <3> QED
      BY <3>1, <3>3
  <2> QED
    BY <2>1, <2>2
<1> HIDE DEF windows
<1>6. ASSUME NEW k \in 1..n, k - 1 \notin windows PROVE FALSE
  <2>1. ASSUME NEW w \in windows PROVE w \in 0..(k - 2)
    <3>1. w \in Nat /\ k - 1 \in Nat
      BY <1>2 DEF windows
    <3>2. ~(k - 1 <= w)
      BY <1>5, <1>6, <3>1
    <3> QED
      BY <3>1, <3>2
  <2>2. windows \in SUBSET (0..(k - 2)) /\ 0 \in Int /\ k - 2 \in Int
    BY <2>1
  <2>3. Cardinality(windows) <= Cardinality(0..(k - 2)) /\ IsFiniteSet(0..(k - 2))
        /\ Cardinality(0..(k - 2)) = IF 0 > k - 2 THEN 0 ELSE (k - 2) - 0 + 1
    BY <2>2, FS_Interval, FS_Subset
  <2> QED
    BY <1>2, <1>3, <2>3
<1>7. n \notin windows
  <2>1. SUFFICES ASSUME n \in windows PROVE FALSE
    OBVIOUS
  <2>2. 0..n \subseteq windows
    BY <1>5, <2>1
  <2>3. 0 \in Int /\ n \in Int /\ ~(0 > n)
    BY <1>2
  <2>4. Cardinality(0..n) = n - 0 + 1
    BY <2>3, FS_Interval
  <2>5. Cardinality(0..n) <= Cardinality(windows)
    BY <1>2, <2>2, FS_Subset
  <2> QED
    BY <1>2, <1>3, <2>4, <2>5
<1>8. ASSUME NEW k \in 1..n
      PROVE  /\ (k - 1) * step \in 0..(len - 1)
             /\ k # 1 => (k - 2) * step + ChunkSize < len
  <2>1. k - 1 \in windows
    BY <1>6
  <2>2. CASE k = 1
    BY <1>1, <2>2
  <2>3. CASE k # 1
    <3>1. (k - 1) - 1 = k - 2 /\ k - 1 # 0 /\ k - 2 \in Nat /\ (k - 2) + 1 = k - 1
      BY <1>2, <2>3
    <3>2. (k - 2) * step + ChunkSize < len
      BY <2>1, <3>1 DEF windows
    <3>3. (k - 1) * step = (k - 2) * step + step /\ (k - 2) * step \in Nat
      BY <1>1, <1>4, <3>1, Times
    <3> QED
      BY <1>1, <3>2, <3>3
  <2> QED
    BY <2>2, <2>3
<1>9. \A k \in 1..(n - 1) : (k - 1) * step + ChunkSize < len
  <2> SUFFICES ASSUME NEW k \in 1..(n - 1) PROVE (k - 1) * step + ChunkSize < len
    OBVIOUS
  <2>1. k + 1 \in 1..n /\ k + 1 # 1 /\ (k + 1) - 2 = k - 1
    BY <1>2
  <2> QED
    BY <1>8, <2>1
<1>10. (n - 1) * step \in Nat /\ (n - 1) * step + ChunkSize >= len
  <2>1. n - 1 \in Nat /\ (n - 1) * step \in Nat
    BY <1>2, <1>4
  <2>2. CASE n <= len
    BY <1>1, <1>2, <1>7, <2>1, <2>2 DEF windows
  <2>3. CASE n > len
    <3>1. (n - 1) * 1 <= (n - 1) * step
      BY <1>1, <2>1
    <3> QED
      BY <1>1, <1>2, <2>1, <2>3, <3>1
  <2> QED
    BY <1>2, <2>2, <2>3
<1> QED
  BY <1>2, <1>8, <1>9, <1>10

\* A window fits a chunk, and there is one.
LEMMA WindowsType ==
    ASSUME NEW run \in Run
    PROVE  CharWindows(run) \in Seq(Atom) /\ CharWindows(run) # <<>>
<1> DEFINE step == ChunkSize - Overlap
           windows == {k \in 0..run.len : k = 0 \/ (k - 1) * step + ChunkSize < run.len}
           size(start) == IF start + ChunkSize < run.len THEN ChunkSize ELSE run.len - start
           window(start) == [at |-> run.at + start, len |-> size(start), sep |-> run.sep]
           n == Cardinality(windows)
<1>1. /\ ChunkSize \in Nat \ {0} /\ run.len \in Nat \ {0} /\ run.at \in Nat
      /\ run.sep \in {"paragraph", "sentence", "line"}
  BY Parameters DEF Run
<1>2. n \in Nat /\ n # 0 /\ \A k \in 1..n : (k - 1) * step \in 0..(run.len - 1)
  BY <1>1, WindowStarts
<1>3. ASSUME NEW start \in 0..(run.len - 1) PROVE <<window(start)>> \in Atom
  <2>1. size(start) \in Nat \ {0} /\ size(start) <= ChunkSize
    BY <1>1
  <2> HIDE DEF size
  <2>2. window(start) \in Run /\ window(start).len = size(start)
    BY <1>1, <2>1 DEF Run
  <2> HIDE DEF window
  <2>3. TextLen(<<window(start)>>) = size(start)
    BY <2>2, RunLength
  <2> QED
    BY <2>1, <2>2, <2>3 DEF Atom, Text
<1>4. CharWindows(run) = [k \in 1..n |-> <<window((k - 1) * step)>>]
  BY DEF CharWindows
<1> HIDE DEF n, window, step
<1>5. \A k \in 1..n : <<window((k - 1) * step)>> \in Atom
  BY <1>2, <1>3
<1>6. CharWindows(run) \in Seq(Atom) /\ Len(CharWindows(run)) = n
  BY <1>2, <1>4, <1>5
<1> QED
  BY <1>2, <1>6

\* Dividing texts leaves no empty text, and some if there were some.
LEMMA DivideType ==
    ASSUME NEW texts \in Seq(Text), NEW kind
    PROVE  Divide(texts, kind) \in Seq(Text) /\ (texts # <<>> => Divide(texts, kind) # <<>>)
<1> DEFINE n == Len(texts)
           part(i) == IF TextLen(texts[i]) <= ChunkSize THEN <<texts[i]>>
                      ELSE Split(texts[i], kind)
           parts == [i \in 1..n |-> part(i)]
<1>1. n \in Nat /\ DOMAIN texts = 1..n
  OBVIOUS
<1>2. ASSUME NEW i \in 1..n PROVE part(i) \in Seq(Text) \ {<<>>}
  <2>1. texts[i] \in Text /\ texts[i] \in Seq(Run) /\ texts[i] # <<>>
    BY DEF Text
  <2>2. Split(texts[i], kind) \in Seq(Text) /\ Split(texts[i], kind) # <<>>
    BY <2>1, SplitType
  <2>3. <<texts[i]>> \in Seq(Text) /\ <<texts[i]>> # <<>>
    BY <2>1
  <2> QED
    BY <2>2, <2>3
<1>3. Divide(texts, kind) = FlattenSeq(parts)
  BY <1>1 DEF Divide
<1> HIDE DEF part
<1>4. parts \in Seq(Seq(Text) \ {<<>>}) /\ Len(parts) = n
  BY <1>1, <1>2
<1> HIDE DEF parts
<1>5. texts # <<>> => parts # <<>>
  BY <1>4
<1> QED
  BY <1>3, <1>4, <1>5, FlattenFilled

\* The texts all three boundaries leave, and what becomes of one.
Whole(text) == IF text = <<>> THEN <<>> ELSE <<text>>
Divided(text) == Divide(Divide(Divide(Whole(text), "paragraph"), "sentence"), "line")
AtomsOf(text) == IF TextLen(text) <= ChunkSize THEN <<text>> ELSE CharWindows(Head(text))

\* Atomize is what its recursion says.
LEMMA AtomizeSteps ==
    ASSUME NEW text \in Seq(Run)
    PROVE  Atomize(text)
             = FlattenSeq([i \in DOMAIN Divided(text) |-> AtomsOf(Divided(text)[i])])
<1> DEFINE n == Len(Boundaries)
           Levels(f) == f = [i \in 0..n |-> IF i = 0 THEN Whole(text)
                                            ELSE Divide(f[i - 1], Boundaries[i])]
           level == CHOOSE f : Levels(f)
<1>1. n = 3 /\ Boundaries[1] = "paragraph" /\ Boundaries[2] = "sentence" /\ Boundaries[3] = "line"
  BY DEF Boundaries
<1>2. Levels(level)
  <2> DEFINE one == Divide(Whole(text), Boundaries[1])
             two == Divide(one, Boundaries[2])
             three == Divide(two, Boundaries[3])
             f == [i \in 0..3 |-> IF i = 0 THEN Whole(text) ELSE IF i = 1 THEN one
                                  ELSE IF i = 2 THEN two ELSE three]
  <2>1. Levels(f)
    <3>1. f[0] = Whole(text) /\ f[1] = one /\ f[2] = two /\ f[3] = three
      OBVIOUS
    <3> HIDE DEF f, one, two, three
    <3>2. \A i \in 0..3 : i = 0 \/ i = 1 \/ i = 2 \/ i = 3
      OBVIOUS
    <3>3. \A i \in 0..3 : f[i] = IF i = 0 THEN Whole(text) ELSE Divide(f[i - 1], Boundaries[i])
      BY <3>1, <3>2 DEF one, two, three
    <3>4. f \in [0..3 -> {Whole(text), one, two, three}]
      BY DEF f
    <3> QED
      BY <1>1, <3>3, <3>4
  <2> HIDE DEF Levels
  <2> QED
    BY <2>1
<1>3. Atomize(text) = FlattenSeq([i \in DOMAIN level[n] |-> AtomsOf(level[n][i])])
  BY DEF Atomize, AtomsOf, Whole
<1> HIDE DEF level
<1>4. level[3] = Divided(text)
  <2>1. \A i \in 0..3 :
           level[i] = IF i = 0 THEN Whole(text) ELSE Divide(level[i - 1], Boundaries[i])
    BY <1>1, <1>2
  <2>2. level[0] = Whole(text) /\ level[1] = Divide(level[0], Boundaries[1])
        /\ level[2] = Divide(level[1], Boundaries[2]) /\ level[3] = Divide(level[2], Boundaries[3])
    BY <2>1
  <2> QED
    BY <1>1, <2>2 DEF Divided
<1> QED
  BY <1>1, <1>3, <1>4

\* The texts the boundaries leave are not empty.
LEMMA DividedType ==
    ASSUME NEW text \in Seq(Run)
    PROVE  /\ Whole(text) \in Seq(Text) /\ Divided(text) \in Seq(Text)
           /\ text # <<>> => Divided(text) # <<>>
<1>1. Whole(text) \in Seq(Text) /\ (text # <<>> => Whole(text) # <<>>)
  <2>1. <<>> \in Seq(Text)
    OBVIOUS
  <2>2. ASSUME text # <<>> PROVE <<text>> \in Seq(Text)
    <3>1. text \in Text
      BY <2>2 DEF Text
    <3> QED
      BY <3>1
  <2> QED
    BY <2>1, <2>2 DEF Whole
<1> QED
  BY <1>1, DivideType DEF Divided

\* Whatever the text, no atom of it is empty or longer than a chunk; and only an
\* empty text has none.
LEMMA AtomizeType ==
    ASSUME NEW text \in Seq(Run)
    PROVE  Atomize(text) \in Seq(Atom) /\ (text # <<>> => Atomize(text) # <<>>)
<1> DEFINE texts == Divided(text)
           parts == [i \in DOMAIN texts |-> AtomsOf(texts[i])]
<1>1. texts \in Seq(Text) /\ (text # <<>> => texts # <<>>)
  BY DividedType
<1> HIDE DEF texts
<1>2. ASSUME NEW i \in 1..Len(texts) PROVE AtomsOf(texts[i]) \in Seq(Atom) \ {<<>>}
  <2>1. texts[i] \in Text /\ Head(texts[i]) \in Run
    BY <1>1, HeadTailProperties DEF Text
  <2>2. CharWindows(Head(texts[i])) \in Seq(Atom) /\ CharWindows(Head(texts[i])) # <<>>
    BY <2>1, WindowsType
  <2>3. TextLen(texts[i]) <= ChunkSize => texts[i] \in Atom
    BY <2>1 DEF Atom
  <2> QED
    BY <2>2, <2>3 DEF AtomsOf
<1>3. parts \in Seq(Seq(Atom) \ {<<>>}) /\ Len(parts) = Len(texts) /\ DOMAIN texts = 1..Len(texts)
  BY <1>1, <1>2
<1>4. Atomize(text) = FlattenSeq(parts)
  BY AtomizeSteps DEF texts
<1> HIDE DEF parts
<1>5. texts # <<>> => parts # <<>>
  BY <1>1, <1>3
<1> QED
  BY <1>1, <1>3, <1>4, <1>5, FlattenFilled

-----------------------------------------------------------------------------
(* Atoms packed into chunks *)

\* An atom more adds its length and, behind others, a blank line.
LEMMA JoinedLenAppend ==
    ASSUME NEW atoms \in Seq(Atom), NEW atom \in Atom
    PROVE  /\ JoinedLen(atoms) \in Nat /\ TextLen(atom) \in Nat
           /\ JoinedLen(Append(atoms, atom))
                = IF atoms = <<>> THEN TextLen(atom) ELSE JoinedLen(atoms) + 2 + TextLen(atom)
<1> DEFINE length == [a \in Atom |-> TextLen(a)]
           n == Len(atoms)
           longer == Append(atoms, atom)
<1>1. length \in [Atom -> Nat] /\ length[atom] = TextLen(atom)
  <2>1. \A a \in Atom : TextLen(a) \in Nat
    BY TextLenType DEF Atom, Text
  <2> QED
    BY <2>1
<1>2. n \in Nat /\ (atoms = <<>> <=> n = 0) /\ longer \in Seq(Atom) /\ longer # <<>>
      /\ Len(longer) = n + 1
  BY AppendProperties, EmptySeq
<1> HIDE DEF n, longer
<1>3. /\ Weighed(length, atoms) = [i \in DOMAIN atoms |-> TextLen(atoms[i])]
      /\ Weighed(length, longer) = [i \in DOMAIN longer |-> TextLen(longer[i])]
  BY <1>2 DEF Weighed
<1> HIDE DEF length
<1>4. /\ Total(Weighed(length, atoms)) \in Nat /\ Total(Weighed(length, <<>>)) = 0
      /\ Total(Weighed(length, longer)) = Total(Weighed(length, atoms)) + length[atom]
  BY <1>1, TotalWeighed DEF longer
<1>5. JoinedLen(atoms) = IF atoms = <<>> THEN 0 ELSE Total(Weighed(length, atoms)) + 2 * (n - 1)
  BY <1>3 DEF JoinedLen, n
<1>6. JoinedLen(longer) = Total(Weighed(length, longer)) + 2 * ((n + 1) - 1)
  BY <1>2, <1>3 DEF JoinedLen
<1>7. CASE atoms = <<>>
  BY <1>1, <1>2, <1>4, <1>5, <1>6, <1>7 DEF longer
<1>8. CASE atoms # <<>>
  BY <1>1, <1>2, <1>4, <1>5, <1>6, <1>8 DEF longer
<1> QED
  BY <1>7, <1>8

\* The length of joined atoms is a number.
LEMMA JoinedLenType ==
    ASSUME NEW atoms \in Seq(Atom)
    PROVE  JoinedLen(atoms) \in Nat
<1>1. CASE atoms = <<>>
  BY <1>1 DEF JoinedLen
<1>2. CASE atoms # <<>>
  <2>1. PICK front \in Seq(Atom), atom \in Atom : atoms = Append(front, atom)
    BY <1>2, SequenceEmptyOrAppend
  <2> QED
    BY <2>1, JoinedLenAppend
<1> QED
  BY <1>1, <1>2

\* Min is what it says.
LEMMA LeastNumber ==
    ASSUME NEW S \in SUBSET Nat, S # {}
    PROVE  Min(S) \in S /\ \A x \in S : Min(S) <= x
<1> DEFINE Less == {pair \in Nat \X Nat : pair[1] < pair[2]}
<1>1. IsWellFoundedOn(Less, Nat)
  BY NatLessThanWellFounded DEF OpToRel
<1>2. \E m \in S : \A d \in S : <<d, m>> \notin Less
  <2> HIDE DEF Less
  <2> QED
    BY <1>1, WFMin
<1>3. \E m \in S : \A d \in S : m <= d
  <2>1. PICK m \in S : \A d \in S : <<d, m>> \notin Less
    BY <1>2
  <2>2. ASSUME NEW d \in S PROVE m <= d
    <3>1. ~(d < m) /\ d \in Nat /\ m \in Nat
      BY <2>1
    <3> QED
      BY <3>1
  <2> QED
    BY <2>2
<1> QED
  BY <1>3 DEF Min

\* What is carried over are the last atoms of the chunk, and it keeps the overlap.
LEMMA TailType ==
    ASSUME NEW atoms \in Seq(Atom), NEW n, n = Len(atoms)
    PROVE  /\ OverlapTail(atoms) \in Seq(Atom) /\ JoinedLen(OverlapTail(atoms)) <= Overlap
           /\ \E i \in 1..(n + 1) : OverlapTail(atoms) = SubSeq(atoms, i, n)
<1> DEFINE starts == {i \in 1..(n + 1) : JoinedLen(SubSeq(atoms, i, n)) <= Overlap}
<1>1. n \in Nat /\ \A i \in 1..n : atoms[i] \in Atom
  OBVIOUS
<1>2. n + 1 \in starts
  <2>1. SubSeq(atoms, n + 1, n) = <<>>
    BY <1>1, SubSeqEmpty
  <2> QED
    BY <1>1, <2>1, Parameters DEF JoinedLen
<1>3. Min(starts) \in starts
  <2>1. starts \in SUBSET Nat
    BY <1>1
  <2> HIDE DEF starts
  <2> QED
    BY <1>2, <2>1, LeastNumber
<1>4. OverlapTail(atoms) = SubSeq(atoms, Min(starts), n)
  BY DEF OverlapTail
<1>5. Min(starts) \in 1..(n + 1) /\ JoinedLen(SubSeq(atoms, Min(starts), n)) <= Overlap
  <2> DEFINE m == Min(starts)
  <2>1. m \in starts
    BY <1>3
  <2> HIDE DEF m
  <2>2. m \in 1..(n + 1) /\ JoinedLen(SubSeq(atoms, m, n)) <= Overlap
    BY <2>1
  <2> QED
    BY <2>2 DEF m
<1> HIDE DEF starts
<1>6. SubSeq(atoms, Min(starts), n) \in Seq(Atom)
  <2>1. Min(starts) \in Int /\ n \in Int /\ \A i \in Min(starts)..n : atoms[i] \in Atom
    BY <1>1, <1>5
  <2> QED
    BY <2>1, SubSeqProperties
<1> QED
  BY <1>4, <1>5, <1>6

\* Atoms that, joined, fit a chunk; and the packing loop: its type, its start.
Chunk == {atoms \in Seq(Atom) : JoinedLen(atoms) <= ChunkSize}
PackAcc == [chunks : Seq(Chunk \ {<<>>}), current : Chunk]
PackStart == [chunks |-> <<>>, current |-> <<>>]

\* A turn keeps the type: what is carried over makes room or is dropped.
LEMMA AddAtomType ==
    ASSUME NEW acc \in PackAcc, NEW atom \in Atom
    PROVE  AddAtom(acc, atom) \in PackAcc /\ AddAtom(acc, atom).current # <<>>
<1> DEFINE tail == OverlapTail(acc.current)
           seed == IF tail # <<>> /\ ~Fits(tail, atom) THEN <<>> ELSE tail
<1>1. /\ acc.chunks \in Seq(Chunk \ {<<>>}) /\ acc.current \in Seq(Atom)
      /\ JoinedLen(acc.current) <= ChunkSize /\ acc.current \in Chunk
  BY DEF PackAcc, Chunk
<1>2. TextLen(atom) <= ChunkSize
  BY DEF Atom
<1>3. ASSUME NEW start \in Seq(Atom), start = <<>> \/ Fits(start, atom)
      PROVE  Append(start, atom) \in Chunk /\ Append(start, atom) # <<>>
  <2>1. Append(start, atom) \in Seq(Atom) /\ Append(start, atom) # <<>>
    BY AppendProperties
  <2>2. JoinedLen(Append(start, atom))
          = IF start = <<>> THEN TextLen(atom) ELSE JoinedLen(start) + 2 + TextLen(atom)
    BY JoinedLenAppend
  <2> QED
    BY <1>2, <1>3, <2>1, <2>2 DEF Chunk, Fits
<1>4. CASE acc.current = <<>> \/ Fits(acc.current, atom)
  <2>1. AddAtom(acc, atom) = [chunks |-> acc.chunks, current |-> Append(acc.current, atom)]
    BY <1>4 DEF AddAtom, PackAcc
  <2> QED
    BY <1>1, <1>3, <1>4, <2>1 DEF PackAcc
<1>5. CASE ~(acc.current = <<>> \/ Fits(acc.current, atom))
  <2>1. AddAtom(acc, atom)
          = [chunks |-> Append(acc.chunks, acc.current), current |-> Append(seed, atom)]
    BY <1>5 DEF AddAtom
  <2>2. seed \in Seq(Atom) /\ (seed = <<>> \/ Fits(seed, atom))
    BY <1>1, TailType
  <2> HIDE DEF seed
  <2>3. Append(acc.chunks, acc.current) \in Seq(Chunk \ {<<>>})
    BY <1>1, <1>5, AppendProperties
  <2> QED
    BY <1>3, <2>1, <2>2, <2>3 DEF PackAcc
<1> QED
  BY <1>4, <1>5


\* The packing loop, atom by atom.
Packs(f, atoms, n) ==
    /\ f \in [0..n -> PackAcc] /\ f[0] = PackStart
    /\ \A i \in 1..n : f[i] = AddAtom(f[i - 1], atoms[i])

\* ChunkMarkdown is what its recursion says.
LEMMA PackSteps ==
    ASSUME NEW text \in Seq(Run), NEW atoms, atoms = Atomize(text), NEW n, n = Len(atoms)
    PROVE  \E f : /\ Packs(f, atoms, n)
                  /\ ChunkMarkdown(text) = IF f[n].current = <<>> THEN f[n].chunks
                                           ELSE Append(f[n].chunks, f[n].current)
<1> DEFINE add(acc, i) == AddAtom(acc, atoms[i])
           step == [p \in PackAcc \X (1..n) |-> add(p[1], p[2])]
           Adds(f) == f = [i \in 0..n |-> IF i = 0 THEN PackStart ELSE add(f[i - 1], i)]
           c == CHOOSE f : Adds(f)
<1>1. n \in Nat /\ \A i \in 1..n : atoms[i] \in Atom
  <2>1. atoms \in Seq(Atom)
    BY AtomizeType
  <2> QED
    BY <2>1
<1>2. ChunkMarkdown(text) = IF c[n].current = <<>> THEN c[n].chunks
                            ELSE Append(c[n].chunks, c[n].current)
  BY DEF ChunkMarkdown, PackStart
<1>3. IsStep(step, PackStart, PackAcc, n)
  <2>1. PackStart \in PackAcc
    <3>1. JoinedLen(<<>>) = 0 /\ 0 <= ChunkSize
      BY Parameters DEF JoinedLen
    <3> QED
      BY <3>1 DEF PackStart, PackAcc, Chunk
  <2>2. ASSUME NEW acc \in PackAcc, NEW i \in 1..n PROVE add(acc, i) \in PackAcc
    BY <1>1, AddAtomType
  <2> HIDE DEF add
  <2> QED
    BY <1>1, <2>1, <2>2 DEF IsStep
<1>4. PICK f : Unrolls(f, step, PackStart, PackAcc, n)
  <2> HIDE DEF step
  <2> QED
    BY <1>3, Recursion
<1>5. Adds(f)
  <2> HIDE DEF add
  <2>1. \A i \in 1..n : f[i - 1] \in PackAcc
    BY <1>1, <1>4 DEF Unrolls
  <2>2. \A i \in 1..n : f[i] = step[<<f[i - 1], i>>]
    <3> HIDE DEF step
    <3> QED
      BY <1>4 DEF Unrolls
  <2>3. \A i \in 1..n : f[i] = add(f[i - 1], i)
    BY <2>1, <2>2
  <2> QED
    BY <1>4, <2>3 DEF Unrolls
<1>6. Adds(c)
  <2> HIDE DEF Adds
  <2> QED
    BY <1>5
<1> HIDE DEF c
<1>7. \A g : Adds(g) => g[0] = PackStart /\ \A i \in 1..n : g[i] = add(g[i - 1], i)
  <2> SUFFICES ASSUME NEW g, Adds(g)
               PROVE  g[0] = PackStart /\ \A i \in 1..n : g[i] = add(g[i - 1], i)
    OBVIOUS
  <2>1. \A i \in 0..n : g[i] = IF i = 0 THEN PackStart ELSE add(g[i - 1], i)
    <3> HIDE DEF add
    <3> QED
      BY Zenon
  <2>2. 0 \in 0..n /\ \A i \in 1..n : i \in 0..n /\ i # 0
    BY <1>1
  <2> HIDE DEF Adds, add
  <2> QED
    BY <2>1, <2>2, Zenon
<1>8. c[n] = f[n]
  <2>1. InStep(c, f, n)
    <3> HIDE DEF Adds, add
    <3> QED
      BY <1>5, <1>6, <1>7 DEF InStep
  <2> QED
    BY <1>1, <2>1, SameSteps
<1>9. Packs(f, atoms, n)
  <2>1. \A i \in 1..n : f[i] = add(f[i - 1], i)
    <3> HIDE DEF Adds, add
    <3> QED
      BY <1>5, <1>7
  <2> QED
    BY <1>4, <2>1 DEF Packs, Unrolls
<1> QED
  BY <1>2, <1>8, <1>9

\* Whatever the text, no chunk of it is empty or longer than the chunk size; and
\* only an empty text has none.
LEMMA ChunkMarkdownType ==
    ASSUME NEW text \in Seq(Run)
    PROVE  /\ ChunkMarkdown(text) \in Seq(Chunk \ {<<>>})
           /\ text # <<>> => ChunkMarkdown(text) # <<>>
<1> DEFINE atoms == Atomize(text)
           n == Len(atoms)
<1>1. n \in Nat /\ (text # <<>> => n # 0) /\ \A i \in 1..n : atoms[i] \in Atom
  <2>1. atoms \in Seq(Atom) /\ (text # <<>> => atoms # <<>>)
    BY AtomizeType
  <2> HIDE DEF atoms
  <2> QED
    BY <2>1
<1>2. PICK f : /\ Packs(f, atoms, n)
               /\ ChunkMarkdown(text) = IF f[n].current = <<>> THEN f[n].chunks
                                        ELSE Append(f[n].chunks, f[n].current)
  BY PackSteps
<1> HIDE DEF atoms, n
<1> DEFINE end == f[n]
<1>3. end \in PackAcc /\ (n # 0 => end.current # <<>>)
  <2>1. f[n] \in PackAcc
    BY <1>1, <1>2 DEF Packs
  <2>2. ASSUME n # 0 PROVE f[n].current # <<>>
    <3>1. n \in 1..n /\ n - 1 \in 0..n
      BY <1>1, <2>2
    <3>2. f[n] = AddAtom(f[n - 1], atoms[n]) /\ f[n - 1] \in PackAcc /\ atoms[n] \in Atom
      BY <1>1, <1>2, <3>1 DEF Packs
    <3> QED
      BY <3>2, AddAtomType
  <2> QED
    BY <2>1, <2>2
<1>4. /\ end.chunks \in Seq(Chunk \ {<<>>}) /\ end.current \in Chunk
      /\ n # 0 => end.current # <<>>
  BY <1>3 DEF PackAcc
<1>5. ASSUME end.current # <<>>
      PROVE  /\ Append(end.chunks, end.current) \in Seq(Chunk \ {<<>>})
             /\ Append(end.chunks, end.current) # <<>>
  <2>1. end.current \in Chunk \ {<<>>}
    BY <1>4, <1>5
  <2> HIDE DEF end
  <2> QED
    BY <1>4, <2>1, AppendProperties
<1>6. ChunkMarkdown(text) = IF end.current = <<>> THEN end.chunks
                            ELSE Append(end.chunks, end.current)
  BY <1>2
<1> HIDE DEF end
<1> QED
  BY <1>1, <1>4, <1>5, <1>6

-----------------------------------------------------------------------------
(* Chunks as stretches of the atoms *)

\* A stretch of a list; with the next item; and what is behind a place in it.
LEMMA Stretch ==
    ASSUME NEW S, NEW s \in Seq(S), NEW n, n = Len(s),
           NEW a \in 1..(n + 1), NEW b \in 0..n, a <= b + 1,
           NEW part, part = SubSeq(s, a, b)
    PROVE  /\ part \in Seq(S) /\ Len(part) = b - a + 1
           /\ \A i \in 1..(b - a + 1) : part[i] = s[a + i - 1]
           /\ b < n => SubSeq(s, a, b + 1) = Append(part, s[b + 1])
           /\ \A i \in 1..(b - a + 2) : SubSeq(part, i, b - a + 1) = SubSeq(s, a + i - 1, b)
<1>1. n \in Nat /\ a \in Int /\ b \in Int /\ b + 1 \in Int /\ \A i \in 1..n : s[i] \in S
  OBVIOUS
<1>2. ASSUME NEW c \in 1..(n + 1), NEW d \in 0..n, c <= d + 1, NEW q, q = SubSeq(s, c, d)
      PROVE  /\ q \in Seq(S) /\ Len(q) = d - c + 1
             /\ \A i \in 1..(d - c + 1) : q[i] = s[c + i - 1]
  <2>1. c \in Int /\ d \in Int /\ (c <= d \/ d - c + 1 = 0) /\ \A i \in c..d : s[i] \in S
    BY <1>1, <1>2
  <2> QED
    BY <1>2, <2>1, SubSeqProperties
<1>3. /\ part \in Seq(S) /\ Len(part) = b - a + 1
      /\ \A i \in 1..(b - a + 1) : part[i] = s[a + i - 1]
  BY <1>2
<1>4. ASSUME b < n PROVE SubSeq(s, a, b + 1) = Append(part, s[b + 1])
  <2> DEFINE q == SubSeq(s, a, b + 1)
             r == Append(part, s[b + 1])
  <2>1. b + 1 \in 0..n /\ a <= (b + 1) + 1 /\ s[b + 1] \in S /\ (b + 1) - a + 1 = b - a + 2
    BY <1>1, <1>4
  <2>2. q \in Seq(S) /\ Len(q) = b - a + 2 /\ \A i \in 1..(b - a + 2) : q[i] = s[a + i - 1]
    BY <1>2, <2>1
  <2>3. r \in Seq(S) /\ Len(r) = b - a + 2 /\ r[b - a + 2] = s[b + 1]
        /\ \A i \in 1..(b - a + 1) : r[i] = part[i]
    <3>1. Len(part) + 1 = b - a + 2
      BY <1>1, <1>3
    <3> QED
      BY <1>3, <2>1, <3>1, AppendProperties
  <2> HIDE DEF q, r
  <2>4. ASSUME NEW i \in 1..(b - a + 2) PROVE q[i] = r[i]
    <3>1. CASE i = b - a + 2
      <4>1. a + i - 1 = b + 1
        BY <1>1, <3>1
      <4> QED
        BY <2>2, <2>3, <3>1, <4>1
    <3>2. CASE i # b - a + 2
      <4>1. i \in 1..(b - a + 1)
        BY <1>1, <3>2
      <4> QED
        BY <1>3, <2>2, <2>3, <4>1
    <3> QED
      BY <3>1, <3>2
  <2>5. q = r
    BY <2>2, <2>3, <2>4
  <2> QED
    BY <2>5 DEF q, r
<1>5. ASSUME NEW i \in 1..(b - a + 2)
      PROVE  SubSeq(part, i, b - a + 1) = SubSeq(s, a + i - 1, b)
  <2> DEFINE q == SubSeq(part, i, b - a + 1)
             r == SubSeq(s, a + i - 1, b)
             m == b - (a + i - 1) + 1
  <2>1. /\ i \in Int /\ b - a + 1 \in Int /\ (i <= b - a + 1 \/ m = 0)
        /\ (b - a + 1) - i + 1 = m /\ m \in Nat
        /\ \A j \in i..(b - a + 1) : part[j] \in S
    BY <1>1, <1>3
  <2>2. q \in Seq(S) /\ Len(q) = m /\ \A j \in 1..m : q[j] = part[i + j - 1]
    BY <2>1, SubSeqProperties
  <2>3. a + i - 1 \in 1..(n + 1) /\ a + i - 1 <= b + 1
    BY <1>1
  <2>4. r \in Seq(S) /\ Len(r) = m /\ \A j \in 1..m : r[j] = s[(a + i - 1) + j - 1]
    BY <1>2, <2>3
  <2> HIDE DEF q, r
  <2>5. ASSUME NEW j \in 1..m PROVE q[j] = r[j]
    <3>1. i + j - 1 \in 1..(b - a + 1) /\ a + (i + j - 1) - 1 = (a + i - 1) + j - 1
      BY <1>1
    <3> QED
      BY <1>3, <2>2, <2>4, <3>1
  <2> HIDE DEF m
  <2>6. q = r
    BY <2>2, <2>4, <2>5
  <2> QED
    BY <2>6 DEF q, r
<1> QED
  BY <1>3, <1>4, <1>5

\* The list is the first k atoms in stretches, each of which begins and ends behind
\* the one before, leaves out no atom, and shares with it no more than the overlap.
Stretches(list, atoms, k, from, to) ==
    LET m == Len(list) IN
    /\ m \in Nat \ {0} /\ from \in [1..m -> 1..k] /\ to \in [1..m -> 1..k]
    /\ from[1] = 1 /\ to[m] = k
    /\ \A i \in 1..m : from[i] <= to[i] /\ list[i] = SubSeq(atoms, from[i], to[i])
    /\ \A i \in 1..(m - 1) :
          /\ from[i] < from[i + 1] /\ to[i] < to[i + 1] /\ from[i + 1] <= to[i] + 1
          /\ JoinedLen(SubSeq(atoms, from[i + 1], to[i])) <= Overlap

\* A turn of the packing loop makes the last stretch longer by an atom, or adds one
\* that ends with it.
LEMMA StretchesStep ==
    ASSUME NEW atoms \in Seq(Atom), NEW n, n = Len(atoms), NEW k \in 1..(n - 1),
           NEW acc \in PackAcc, NEW from, NEW to,
           Stretches(Append(acc.chunks, acc.current), atoms, k, from, to),
           NEW next, next = AddAtom(acc, atoms[k + 1])
    PROVE  \E from2, to2 : Stretches(Append(next.chunks, next.current), atoms, k + 1, from2, to2)
<1> DEFINE list == Append(acc.chunks, acc.current)
           m == Len(list)
           atom == atoms[k + 1]
           last == acc.current
<1>1. n \in Nat /\ k \in Nat /\ k + 1 \in 1..n /\ k + 1 \in Nat /\ k \in 1..n /\ atom \in Atom
  OBVIOUS
<1>2. /\ acc.chunks \in Seq(Seq(Atom)) /\ last \in Seq(Atom)
  BY DEF PackAcc, Chunk
<1>3. /\ m = Len(acc.chunks) + 1 /\ list[m] = last /\ list \in Seq(Seq(Atom))
      /\ \A i \in 1..(m - 1) : list[i] = acc.chunks[i]
  BY <1>2, AppendProperties
<1>4. /\ m \in Nat \ {0} /\ from \in [1..m -> 1..k] /\ to \in [1..m -> 1..k]
      /\ from[1] = 1 /\ to[m] = k
      /\ \A i \in 1..m : from[i] <= to[i] /\ list[i] = SubSeq(atoms, from[i], to[i])
      /\ \A i \in 1..(m - 1) :
            /\ from[i] < from[i + 1] /\ to[i] < to[i + 1] /\ from[i + 1] <= to[i] + 1
            /\ JoinedLen(SubSeq(atoms, from[i + 1], to[i])) <= Overlap
  BY DEF Stretches
<1> HIDE DEF list, m, atom, last
<1> DEFINE a == from[m]
<1>5. m \in 1..m /\ a \in 1..k /\ last = SubSeq(atoms, a, k)
  <2>1. m \in 1..m
    BY <1>4
  <2> QED
    BY <1>3, <1>4, <2>1
<1> HIDE DEF a
<1>6. /\ last \in Seq(Atom) /\ Len(last) = k - a + 1
      /\ SubSeq(atoms, a, k + 1) = Append(last, atom)
      /\ \A i \in 1..(k - a + 2) : SubSeq(last, i, k - a + 1) = SubSeq(atoms, a + i - 1, k)
  <2>1. a \in 1..(n + 1) /\ k \in 0..n /\ a <= k + 1 /\ k < n
    BY <1>1, <1>5
  <2> QED
    BY <1>5, <2>1, Stretch DEF atom
<1>7. CASE last = <<>> \/ Fits(last, atom)
  <2>1. next.chunks = acc.chunks /\ next.current = Append(last, atom)
    BY <1>7 DEF AddAtom, PackAcc, last, atom
  <2> DEFINE list2 == Append(next.chunks, next.current)
             to2 == [i \in 1..m |-> IF i = m THEN k + 1 ELSE to[i]]
  <2>2. Append(last, atom) \in Seq(Atom)
    BY <1>1, <1>6, AppendProperties
  <2>3. /\ Len(list2) = m /\ list2[m] = Append(last, atom)
        /\ \A i \in 1..(m - 1) : list2[i] = list[i]
    BY <1>2, <1>3, <1>4, <2>1, <2>2, AppendProperties
  <2> HIDE DEF list2
  <2>4. /\ to2 \in [1..m -> 1..(k + 1)] /\ from \in [1..m -> 1..(k + 1)] /\ to2[m] = k + 1
        /\ \A i \in 1..(m - 1) : to2[i] = to[i]
    BY <1>1, <1>4, SMTT(30)
  <2> HIDE DEF to2
  <2>5. ASSUME NEW i \in 1..m
        PROVE  from[i] <= to2[i] /\ list2[i] = SubSeq(atoms, from[i], to2[i])
    <3>1. CASE i = m
      <4>1. from[i] = a /\ to2[i] = k + 1 /\ list2[i] = SubSeq(atoms, a, k + 1)
        BY <1>6, <2>3, <2>4, <3>1 DEF a
      <4>2. a <= k + 1
        BY <1>1, <1>5
      <4> QED
        BY <4>1, <4>2
    <3>2. CASE i # m
      <4>1. i \in 1..(m - 1)
        BY <1>4, <3>2
      <4> QED
        BY <1>4, <2>3, <2>4, <4>1
    <3> QED
      BY <3>1, <3>2
  <2>6. ASSUME NEW i \in 1..(m - 1)
        PROVE  /\ from[i] < from[i + 1] /\ to2[i] < to2[i + 1] /\ from[i + 1] <= to2[i] + 1
               /\ JoinedLen(SubSeq(atoms, from[i + 1], to2[i])) <= Overlap
    <3>1. /\ from[i] < from[i + 1] /\ to[i] < to[i + 1] /\ from[i + 1] <= to[i] + 1
          /\ JoinedLen(SubSeq(atoms, from[i + 1], to[i])) <= Overlap /\ to2[i] = to[i]
      BY <1>4, <2>4
    <3>2. to[i] < to2[i + 1]
      <4>1. CASE i + 1 = m
        BY <1>1, <1>4, <2>4, <3>1, <4>1
      <4>2. CASE i + 1 # m
        <5>1. i + 1 \in 1..(m - 1)
          BY <1>4, <4>2
        <5> QED
          BY <2>4, <3>1, <5>1
      <4> QED
        BY <4>1, <4>2
    <3> QED
      BY <3>1, <3>2
  <2>7. Stretches(list2, atoms, k + 1, from, to2)
    BY <1>4, <2>3, <2>4, <2>5, <2>6 DEF Stretches
  <2> QED
    BY <2>7 DEF list2
<1>8. CASE ~(last = <<>> \/ Fits(last, atom))
  <2> DEFINE tail == OverlapTail(last)
             seed == IF tail # <<>> /\ ~Fits(tail, atom) THEN <<>> ELSE tail
             list2 == Append(next.chunks, next.current)
  <2>1. next.chunks = list /\ next.current = Append(seed, atom)
    BY <1>8 DEF AddAtom, last, atom, list
  <2>2. PICK t \in (a + 1)..(k + 1) :
           seed = SubSeq(atoms, t, k) /\ JoinedLen(SubSeq(atoms, t, k)) <= Overlap
    <3>1. CASE seed = <<>>
      <4>1. SubSeq(atoms, k + 1, k) = <<>> /\ JoinedLen(<<>>) = 0 /\ 0 <= Overlap
        BY <1>1, SubSeqEmpty, Parameters DEF JoinedLen
      <4>2. k + 1 \in (a + 1)..(k + 1)
        BY <1>1, <1>5
      <4> QED
        BY <3>1, <4>1, <4>2
    <3>2. CASE seed # <<>>
      <4>1. seed = tail /\ Fits(tail, atom)
        BY <3>2
      <4>2. PICK i \in 1..(k - a + 2) : tail = SubSeq(last, i, k - a + 1)
        <5>1. k - a + 1 = Len(last) /\ (k - a + 1) + 1 = k - a + 2
          BY <1>1, <1>5, <1>6
        <5> QED
          BY <1>6, <5>1, TailType
      <4>3. JoinedLen(tail) <= Overlap
        BY <1>6, TailType
      <4>4. tail = SubSeq(atoms, a + i - 1, k)
        BY <1>6, <4>2
      <4>5. i # 1
        <5>1. SUFFICES ASSUME i = 1 PROVE FALSE
          OBVIOUS
        <5>2. tail = last
          BY <1>5, <1>6, <4>2, <4>4, <5>1
        <5> QED
          BY <1>8, <4>1, <5>2
      <4>6. a + i - 1 \in (a + 1)..(k + 1)
        BY <1>1, <1>5, <4>5
      <4> QED
        BY <4>1, <4>3, <4>4, <4>6
    <3> QED
      BY <3>1, <3>2
  <2> HIDE DEF seed
  <2> DEFINE from2 == [i \in 1..(m + 1) |-> IF i = m + 1 THEN t ELSE from[i]]
             to2 == [i \in 1..(m + 1) |-> IF i = m + 1 THEN k + 1 ELSE to[i]]
  <2>3. seed \in Seq(Atom) /\ SubSeq(atoms, t, k + 1) = Append(seed, atom)
    <3>1. t \in 1..(n + 1) /\ k \in 0..n /\ t <= k + 1 /\ k < n
      BY <1>1, <1>5
    <3> QED
      BY <2>2, <3>1, Stretch DEF atom
  <2>4. /\ Len(list2) = m + 1 /\ list2[m + 1] = Append(seed, atom)
        /\ \A i \in 1..m : list2[i] = list[i]
    <3> DEFINE longer == Append(seed, atom)
               more == Append(list, longer)
    <3>1. longer \in Seq(Atom)
      BY <1>1, <2>3, AppendProperties
    <3>2. list2 = more
      BY <2>1
    <3> HIDE DEF longer, list2
    <3>3. /\ Len(more) = m + 1 /\ more[m + 1] = longer
          /\ \A i \in 1..m : more[i] = list[i]
      BY <1>3, <3>1, AppendProperties DEF m
    <3> QED
      BY <3>2, <3>3, Zenon DEF longer
  <2> HIDE DEF list2
  <2>5. t \in 1..(k + 1) /\ a < t /\ t <= k + 1
    BY <1>1, <1>5
  <2>6. /\ from2 \in [1..(m + 1) -> 1..(k + 1)] /\ to2 \in [1..(m + 1) -> 1..(k + 1)]
        /\ from2[m + 1] = t /\ to2[m + 1] = k + 1
        /\ \A i \in 1..m : from2[i] = from[i] /\ to2[i] = to[i]
    BY <1>1, <1>4, <2>5, SMTT(30)
  <2> HIDE DEF from2, to2
  <2>7. ASSUME NEW i \in 1..(m + 1)
        PROVE  from2[i] <= to2[i] /\ list2[i] = SubSeq(atoms, from2[i], to2[i])
    <3>1. CASE i = m + 1
      BY <2>3, <2>4, <2>5, <2>6, <3>1
    <3>2. CASE i # m + 1
      <4>1. i \in 1..m
        BY <1>4, <3>2
      <4> QED
        BY <1>4, <2>4, <2>6, <4>1
    <3> QED
      BY <3>1, <3>2
  <2>8. ASSUME NEW i \in 1..m
        PROVE  /\ from2[i] < from2[i + 1] /\ to2[i] < to2[i + 1] /\ from2[i + 1] <= to2[i] + 1
               /\ JoinedLen(SubSeq(atoms, from2[i + 1], to2[i])) <= Overlap
    <3>1. CASE i = m
      <4>1. from2[i] = a /\ to2[i] = k /\ from2[i + 1] = t /\ to2[i + 1] = k + 1
        BY <1>4, <1>5, <2>6, <3>1 DEF a
      <4> QED
        BY <1>1, <2>2, <2>5, <4>1
    <3>2. CASE i # m
      <4>1. i \in 1..(m - 1) /\ i + 1 \in 1..m
        BY <1>4, <3>2
      <4> QED
        BY <1>4, <2>6, <4>1
    <3> QED
      BY <3>1, <3>2
  <2>9. m + 1 \in Nat \ {0} /\ (m + 1) - 1 = m /\ from2[1] = 1
    <3>1. 1 \in 1..m
      BY <1>4
    <3> QED
      BY <1>4, <2>6, <3>1
  <2>10. Stretches(list2, atoms, k + 1, from2, to2)
    BY <2>4, <2>6, <2>7, <2>8, <2>9 DEF Stretches
  <2> QED
    BY <2>10 DEF list2
<1> QED
  BY <1>7, <1>8

\* A list is the items from a to b of another.
IsStretch(part, s, a, b) == part = SubSeq(s, a, b)

\* It has these items and no other.
LEMMA StretchMembers ==
    ASSUME NEW S, NEW s \in Seq(S), NEW a \in 1..Len(s), NEW b \in a..Len(s),
           NEW part, IsStretch(part, s, a, b)
    PROVE  part \in Seq(S) /\ part # <<>> /\ \A x : x \in ToSet(part) <=> \E i \in a..b : x = s[i]
<1>1. /\ part \in Seq(S) /\ Len(part) = b - a + 1
      /\ \A i \in 1..(b - a + 1) : part[i] = s[a + i - 1]
  BY Stretch DEF IsStretch
<1>2. ToSet(part) = {part[i] : i \in 1..(b - a + 1)}
  <2>1. DOMAIN part = 1..(b - a + 1)
    BY <1>1
  <2> QED
    BY <2>1 DEF ToSet
<1>3. ASSUME NEW i \in a..b PROVE s[i] \in ToSet(part)
  <2>1. i - a + 1 \in 1..(b - a + 1) /\ a + (i - a + 1) - 1 = i
    OBVIOUS
  <2> QED
    BY <1>1, <1>2, <2>1
<1>4. \A i \in 1..(b - a + 1) : a + i - 1 \in a..b
  OBVIOUS
<1>5. part # <<>>
  BY <1>1
<1> QED
  BY <1>1, <1>2, <1>3, <1>4, <1>5

\* The chunks of a text are stretches of its atoms, and all of them.
LEMMA ChunksStretch ==
    ASSUME NEW text \in Seq(Run), text # <<>>, NEW atoms, atoms = Atomize(text),
           NEW n, n = Len(atoms)
    PROVE  /\ atoms \in Seq(Atom) /\ n \in Nat \ {0}
           /\ \E from, to : Stretches(ChunkMarkdown(text), atoms, n, from, to)
<1>1. /\ atoms \in Seq(Atom) /\ n \in Nat \ {0} /\ 1 \in 1..n /\ atoms[1] \in Atom
      /\ \A k \in 1..n : atoms[k] \in Atom
  BY AtomizeType
<1>2. PICK f : /\ Packs(f, atoms, n)
               /\ ChunkMarkdown(text) = IF f[n].current = <<>> THEN f[n].chunks
                                        ELSE Append(f[n].chunks, f[n].current)
  BY PackSteps
<1>3. /\ f \in [0..n -> PackAcc] /\ f[0] = PackStart
      /\ \A i \in 1..n : f[i] = AddAtom(f[i - 1], atoms[i])
  BY <1>2 DEF Packs
<1> DEFINE list(k) == Append(f[k].chunks, f[k].current)
           T == {k \in 1..n : \E from, to : Stretches(list(k), atoms, k, from, to)}
<1>4. 1 \in T
  <2>1. f[1] = AddAtom(PackStart, atoms[1])
    <3>1. 1 - 1 = 0
      OBVIOUS
    <3> QED
      BY <1>1, <1>3, <3>1
  <2>2. f[1].chunks = <<>> /\ f[1].current = <<atoms[1]>>
    BY <2>1 DEF PackStart, AddAtom
  <2>3. Len(list(1)) = 1 /\ list(1)[1] = <<atoms[1]>>
    BY <2>2
  <2>4. SubSeq(atoms, 1, 1) = <<atoms[1]>>
    <3>1. SubSeq(atoms, 1, 1) \in Seq(Atom) /\ Len(SubSeq(atoms, 1, 1)) = 1
      BY <1>1, Stretch
    <3>2. SubSeq(atoms, 1, 1)[1] = atoms[1]
      BY <1>1
    <3> DEFINE first == SubSeq(atoms, 1, 1)
               single == <<atoms[1]>>
    <3>3. /\ first \in Seq(Atom) /\ Len(first) = 1 /\ first[1] = atoms[1]
          /\ single \in Seq(Atom) /\ Len(single) = 1 /\ single[1] = atoms[1]
      BY <1>1, <3>1, <3>2
    <3> HIDE DEF first, single
    <3>4. \A i \in 1..1 : first[i] = single[i]
      BY <3>3
    <3>5. first = single
      BY <3>3, <3>4
    <3> QED
      BY <3>5 DEF first, single
  <2> DEFINE one == [i \in 1..1 |-> 1]
  <2>5. one \in [1..1 -> 1..1] /\ one[1] = 1
    OBVIOUS
  <2>11. \A i \in 1..1 : i = 1
    OBVIOUS
  <2> HIDE DEF one, list
  <2>6. ASSUME NEW i \in 1..1
        PROVE  one[i] <= one[i] /\ list(1)[i] = SubSeq(atoms, one[i], one[i])
    <3>1. i = 1
      BY <2>11
    <3>2. one[i] = 1 /\ one[i] <= one[i]
      BY <2>5, <3>1
    <3>3. list(1)[i] = <<atoms[1]>>
      BY <2>3, <3>1
    <3>4. SubSeq(atoms, one[i], one[i]) = <<atoms[1]>>
      BY <2>4, <3>2
    <3> QED
      BY <3>2, <3>3, <3>4
  <2>7. Stretches(list(1), atoms, 1, one, one)
    <3>1. 1 - 1 = 0 /\ 1..0 = {} /\ 1 \in Nat \ {0}
      OBVIOUS
    <3>2. Len(list(1)) \in Nat \ {0} /\ Len(list(1)) - 1 = 0
      BY <2>3, <3>1
    <3>3. /\ one \in [1..Len(list(1)) -> 1..1] /\ one[1] = 1 /\ one[Len(list(1))] = 1
          /\ \A i \in 1..Len(list(1)) :
               one[i] <= one[i] /\ list(1)[i] = SubSeq(atoms, one[i], one[i])
      BY <2>3, <2>5, <2>6
    <3>4. 1..(Len(list(1)) - 1) = {}
      BY <3>1, <3>2
    <3> QED
      BY <3>2, <3>3, <3>4 DEF Stretches
  <2> QED
    BY <1>1, <2>7
<1>5. ASSUME NEW k \in 1..(n - 1), k \in T PROVE k + 1 \in T
  <2>1. k \in 0..n /\ k + 1 \in 1..n /\ (k + 1) - 1 = k
    BY <1>1
  <2>2. f[k] \in PackAcc /\ f[k + 1] = AddAtom(f[k], atoms[k + 1])
    BY <1>3, <2>1
  <2>3. PICK from, to : Stretches(list(k), atoms, k, from, to)
    BY <1>5
  <2>4. \E from2, to2 : Stretches(list(k + 1), atoms, k + 1, from2, to2)
    BY <1>1, <2>2, <2>3, StretchesStep
  <2> HIDE DEF list
  <2> QED
    BY <2>1, <2>4
<1>6. n \in T
  <2>1. Inductive(T, 1, n)
    <3> HIDE DEF T
    <3> QED
      BY <1>1, <1>4, <1>5 DEF Inductive
  <2>2. n \in 1..n
    BY <1>1
  <2> HIDE DEF T
  <2> QED
    BY <2>1, <2>2, FromTo
<1>7. f[n].current # <<>>
  <2>1. n \in 1..n /\ n - 1 \in 0..n
    BY <1>1
  <2>2. f[n - 1] \in PackAcc /\ f[n] = AddAtom(f[n - 1], atoms[n])
    BY <1>3, <2>1
  <2> QED
    BY <1>1, <2>1, <2>2, AddAtomType
<1> QED
  BY <1>1, <1>2, <1>6, <1>7

\* Every atom is in one of them.
LEMMA EveryAtom ==
    ASSUME NEW list, NEW atoms, NEW n \in Nat \ {0}, NEW from, NEW to,
           Stretches(list, atoms, n, from, to), NEW j \in 1..n
    PROVE  \E i \in 1..Len(list) : j \in from[i]..to[i]
<1> DEFINE m == Len(list)
           T == {k \in 1..n : \E i \in 1..m : k \in from[i]..to[i]}
<1>1. /\ m \in Nat \ {0} /\ from \in [1..m -> 1..n] /\ to \in [1..m -> 1..n]
      /\ from[1] = 1 /\ to[m] = n /\ \A i \in 1..m : from[i] <= to[i]
      /\ \A i \in 1..(m - 1) : from[i + 1] <= to[i] + 1 /\ to[i] < to[i + 1]
  BY DEF Stretches
<1> HIDE DEF m
<1>2. 1 \in T
  <2>1. 1 \in 1..m /\ 1 \in 1..n /\ 1 \in from[1]..to[1]
    BY <1>1
  <2> QED
    BY <2>1
<1>3. ASSUME NEW k \in 1..(n - 1), k \in T PROVE k + 1 \in T
  <2>1. PICK i \in 1..m : k \in from[i]..to[i]
    BY <1>3
  <2>2. from[i] \in Nat /\ to[i] \in Nat /\ k \in Nat /\ k + 1 \in 1..n
    BY <1>1
  <2>3. CASE k < to[i]
    <3>1. k + 1 \in from[i]..to[i]
      BY <2>1, <2>2, <2>3
    <3> QED
      BY <2>2, <3>1
  <2>4. CASE k = to[i]
    <3>1. i # m
      BY <1>1, <2>2, <2>4
    <3>2. i \in 1..(m - 1) /\ i + 1 \in 1..m
      BY <1>1, <3>1
    <3>3. from[i + 1] \in Nat /\ to[i + 1] \in Nat
      BY <1>1, <3>2
    <3>4. k + 1 \in from[i + 1]..to[i + 1]
      BY <1>1, <2>2, <2>4, <3>2, <3>3
    <3> QED
      BY <2>2, <3>2, <3>4
  <2> QED
    BY <2>1, <2>2, <2>3, <2>4
<1>4. j \in T
  <2>1. Inductive(T, 1, n)
    <3> HIDE DEF T
    <3> QED
      BY <1>2, <1>3 DEF Inductive
  <2> HIDE DEF T
  <2> QED
    BY <2>1, FromTo
<1> QED
  BY <1>4 DEF m

-----------------------------------------------------------------------------
(* What the pieces of a text are *)

\* The loop of Split behind the last run, and what Split makes of it.
SplitEnd(text, kind) ==
    CHOOSE acc : \E f : Splits(f, text, kind, Len(text)) /\ acc = f[Len(text)]
AllPieces(acc) == IF acc.open = <<>> THEN acc.pieces ELSE Append(acc.pieces, acc.open)

\* A run more is a turn more.
LEMMA SplitAppend ==
    ASSUME NEW text \in Seq(Run), NEW kind
    PROVE  /\ SplitEnd(text, kind) \in SplitAcc
           /\ Split(text, kind) = AllPieces(SplitEnd(text, kind))
           /\ text = <<>> => SplitEnd(text, kind) = SplitStart
           /\ \A run \in Run :
                SplitEnd(Append(text, run), kind) = SplitAdd(SplitEnd(text, kind), run, kind)
<1>1. ASSUME NEW t \in Seq(Run)
      PROVE  \E f : Splits(f, t, kind, Len(t)) /\ SplitEnd(t, kind) = f[Len(t)]
  <2>1. \E acc : \E f : Splits(f, t, kind, Len(t)) /\ acc = f[Len(t)]
    BY SplitSteps
  <2> QED
    BY <2>1 DEF SplitEnd
<1> DEFINE n == Len(text)
<1>2. PICK f : Splits(f, text, kind, n) /\ SplitEnd(text, kind) = f[n]
  BY <1>1
<1>3. n \in Nat /\ (text = <<>> => n = 0) /\ n \in 0..n
  OBVIOUS
<1>4. /\ f \in [0..n -> SplitAcc] /\ f[0] = SplitStart
      /\ \A i \in 1..n : f[i] = SplitAdd(f[i - 1], text[i], kind)
      /\ Split(text, kind) = AllPieces(f[n])
  BY <1>2 DEF Splits, AllPieces
<1>5. ASSUME NEW run \in Run
      PROVE  SplitEnd(Append(text, run), kind) = SplitAdd(SplitEnd(text, kind), run, kind)
  <2> DEFINE longer == Append(text, run)
  <2>1. /\ longer \in Seq(Run) /\ Len(longer) = n + 1 /\ longer[n + 1] = run
        /\ \A i \in 1..n : longer[i] = text[i]
    BY AppendProperties
  <2>2. PICK g : Splits(g, longer, kind, Len(longer)) /\ SplitEnd(longer, kind) = g[Len(longer)]
    BY <1>1, <2>1
  <2> HIDE DEF longer, n
  <2>3. /\ g[0] = SplitStart /\ SplitEnd(longer, kind) = g[n + 1]
        /\ \A i \in 1..(n + 1) : g[i] = SplitAdd(g[i - 1], longer[i], kind)
    BY <2>1, <2>2 DEF Splits
  <2>4. InStep(f, g, n)
    <3>1. \A i \in 1..n : i \in 1..(n + 1)
      BY <1>3
    <3> QED
      BY <1>4, <2>1, <2>3, <3>1 DEF InStep
  <2>5. f[n] = g[n]
    BY <1>3, <2>4, SameSteps
  <2>6. n + 1 \in 1..(n + 1) /\ (n + 1) - 1 = n
    BY <1>3
  <2>7. g[n + 1] = SplitAdd(g[n], run, kind)
    BY <2>1, <2>3, <2>6
  <2> QED
    BY <1>2, <2>3, <2>5, <2>7 DEF longer
<1> HIDE DEF n
<1> QED
  BY <1>2, <1>3, <1>4, <1>5

\* The runs of some texts.
RunsIn(texts) == UNION {ToSet(text) : text \in ToSet(texts)}

\* The pieces of a text hold the runs of the text.
LEMMA SplitMembers ==
    ASSUME NEW text \in Seq(Run), NEW kind
    PROVE  RunsIn(Split(text, kind)) = ToSet(text)
<1> DEFINE end(t) == SplitEnd(t, kind)
           Holds(t) == RunsIn(end(t).pieces) \cup ToSet(end(t).open) = ToSet(t)
           P == {t \in Seq(Run) : Holds(t)}
<1>1. <<>> \in P
  <2>1. <<>> \in Seq(Run)
    OBVIOUS
  <2>2. end(<<>>) = SplitStart
    BY <2>1, SplitAppend
  <2> HIDE DEF end
  <2> QED
    BY <2>1, <2>2 DEF SplitStart, RunsIn, ToSet
<1>2. ASSUME NEW t \in Seq(Run), NEW run \in Run, t \in P PROVE Append(t, run) \in P
  <2> DEFINE acc == end(t)
             next == end(Append(t, run))
  <2>1. acc \in SplitAcc /\ next = SplitAdd(acc, run, kind) /\ Append(t, run) \in Seq(Run)
    BY SplitAppend
  <2>2. Holds(t)
    BY <1>2
  <2>3. RunsIn(acc.pieces) \cup ToSet(acc.open) = ToSet(t)
    BY <2>2
  <2> HIDE DEF acc, next
  <2>4. acc.pieces \in Seq(Text) /\ acc.open \in Seq(Run)
    BY <2>1 DEF SplitAcc
  <2>5. ToSet(Append(t, run)) = ToSet(t) \cup {run}
        /\ ToSet(Append(acc.open, run)) = ToSet(acc.open) \cup {run}
    BY <2>4, Members
  <2>6. RunsIn(next.pieces) \cup ToSet(next.open) = ToSet(Append(t, run))
    <3>1. CASE run.sep = kind
      <4>1. next.pieces = Append(acc.pieces, Append(acc.open, run)) /\ next.open = <<>>
        BY <2>1, <3>1 DEF SplitAdd
      <4>2. Append(acc.open, run) \in Text
        <5> DEFINE open == acc.open
        <5>1. open \in Seq(Run)
          BY <2>4
        <5> HIDE DEF open
        <5>2. Append(open, run) \in Seq(Run) /\ Append(open, run) # <<>>
          BY <5>1, AppendProperties
        <5>3. Append(open, run) \in Text
          BY <5>2 DEF Text
        <5> QED
          BY <5>3 DEF open
      <4>3. ToSet(next.pieces) = ToSet(acc.pieces) \cup {Append(acc.open, run)}
            /\ ToSet(next.open) = {}
        <5>1. ToSet(Append(acc.pieces, Append(acc.open, run)))
                = ToSet(acc.pieces) \cup {Append(acc.open, run)}
          <6> DEFINE pieces == acc.pieces
                     piece == Append(acc.open, run)
          <6>1. pieces \in Seq(Text) /\ piece \in Text
            BY <2>4, <4>2
          <6> HIDE DEF pieces, piece
          <6>2. ToSet(Append(pieces, piece)) = ToSet(pieces) \cup {piece}
            BY <6>1, Members
          <6> QED
            BY <6>2 DEF pieces, piece
        <5>2. ToSet(<<>>) = {}
          BY DEF ToSet
        <5> QED
          BY <4>1, <5>1, <5>2
      <4>4. RunsIn(next.pieces) = RunsIn(acc.pieces) \cup ToSet(Append(acc.open, run))
        BY <4>3 DEF RunsIn
      <4> QED
        BY <2>3, <2>5, <4>3, <4>4
    <3>2. CASE run.sep # kind
      <4>1. next.pieces = acc.pieces /\ next.open = Append(acc.open, run)
        BY <2>1, <3>2 DEF SplitAdd, SplitAcc
      <4> QED
        BY <2>3, <2>5, <4>1
    <3> QED
      BY <3>1, <3>2
  <2>7. Holds(Append(t, run))
    BY <2>6 DEF next
  <2> HIDE DEF Holds
  <2> QED
    BY <2>1, <2>7
<1>3. text \in P
  <2> HIDE DEF P
  <2> QED
    BY <1>1, <1>2, BuiltUp
<1>4. end(text) \in SplitAcc /\ Split(text, kind) = AllPieces(end(text))
  BY SplitAppend
<1>5. RunsIn(end(text).pieces) \cup ToSet(end(text).open) = ToSet(text)
  BY <1>3
<1> HIDE DEF end
<1>6. end(text).pieces \in Seq(Text) /\ end(text).open \in Seq(Run)
  BY <1>4 DEF SplitAcc
<1>7. CASE end(text).open = <<>>
  BY <1>4, <1>5, <1>7 DEF AllPieces, ToSet
<1>8. CASE end(text).open # <<>>
  <2>1. end(text).open \in Text
    BY <1>6, <1>8 DEF Text
  <2>2. ToSet(Split(text, kind)) = ToSet(end(text).pieces) \cup {end(text).open}
    BY <1>4, <1>6, <1>8, <2>1, Members DEF AllPieces
  <2> QED
    BY <1>5, <2>2 DEF RunsIn
<1> QED
  BY <1>7, <1>8

-----------------------------------------------------------------------------
(* What fits is not divided *)

\* What becomes of a text at a level.
PartsOf(text, kind) == IF TextLen(text) <= ChunkSize THEN <<text>> ELSE Split(text, kind)

\* A level holds the parts of the texts, each text's behind those before.
LEMMA DivideParts ==
    ASSUME NEW texts \in Seq(Text), NEW kind, NEW n, n = Len(texts)
    PROVE  \E parts \in Seq(Seq(Text)) :
             /\ Divide(texts, kind) = FlattenSeq(parts) /\ Len(parts) = n
             /\ \A i \in 1..n : parts[i] = PartsOf(texts[i], kind)
<1> DEFINE parts == [i \in 1..n |-> PartsOf(texts[i], kind)]
<1>1. n \in Nat /\ DOMAIN texts = 1..n /\ \A i \in 1..n : texts[i] \in Text
  OBVIOUS
<1>2. ASSUME NEW i \in 1..n PROVE PartsOf(texts[i], kind) \in Seq(Text)
  <2>1. texts[i] \in Text /\ texts[i] \in Seq(Run)
    BY <1>1 DEF Text
  <2>2. Split(texts[i], kind) \in Seq(Text) /\ <<texts[i]>> \in Seq(Text)
    BY <2>1, SplitType
  <2> QED
    BY <2>2 DEF PartsOf
<1>3. Divide(texts, kind) = FlattenSeq(parts)
  BY <1>1 DEF Divide, PartsOf
<1>4. parts \in Seq(Seq(Text)) /\ Len(parts) = n /\ \A i \in 1..n : parts[i] = PartsOf(texts[i], kind)
  BY <1>1, <1>2
<1> HIDE DEF parts
<1> QED
  BY <1>3, <1>4

\* A text is in the next level if and only if it is a part of one in this.
LEMMA DivideMembers ==
    ASSUME NEW texts \in Seq(Text), NEW kind
    PROVE  \A x : x \in ToSet(Divide(texts, kind))
                    <=> \E t \in ToSet(texts) : x \in ToSet(PartsOf(t, kind))
<1> DEFINE n == Len(texts)
<1>1. PICK parts \in Seq(Seq(Text)) :
         /\ Divide(texts, kind) = FlattenSeq(parts) /\ Len(parts) = n
         /\ \A i \in 1..n : parts[i] = PartsOf(texts[i], kind)
  BY DivideParts
<1>2. ToSet(texts) = {texts[i] : i \in 1..n}
  BY Members
<1> HIDE DEF n
<1>3. \A x : x \in ToSet(FlattenSeq(parts)) <=> \E i \in 1..n : x \in ToSet(parts[i])
  BY <1>1, FlattenMembers
<1> QED
  BY <1>1, <1>2, <1>3

\* An atom is the text of the last level it is, or one of its windows.
LEMMA AtomizeMembers ==
    ASSUME NEW text \in Seq(Run), NEW texts, texts = Divided(text), NEW n, n = Len(texts)
    PROVE  /\ \E parts \in Seq(Seq(Atom)) :
                /\ Atomize(text) = FlattenSeq(parts) /\ Len(parts) = n
                /\ \A i \in 1..n : parts[i] = AtomsOf(texts[i])
           /\ \A x : x \in ToSet(Atomize(text)) <=> \E t \in ToSet(texts) : x \in ToSet(AtomsOf(t))
<1> DEFINE parts == [i \in DOMAIN texts |-> AtomsOf(texts[i])]
<1>1. texts \in Seq(Text) /\ n \in Nat /\ DOMAIN texts = 1..n
      /\ ToSet(texts) = {texts[i] : i \in 1..n}
  <2>1. texts \in Seq(Text)
    BY DividedType
  <2> QED
    BY <2>1, Members
<1>2. ASSUME NEW i \in 1..n PROVE AtomsOf(texts[i]) \in Seq(Atom)
  <2>1. texts[i] \in Text /\ Head(texts[i]) \in Run
    BY <1>1, HeadTailProperties DEF Text
  <2>2. CharWindows(Head(texts[i])) \in Seq(Atom)
    BY <2>1, WindowsType
  <2>3. TextLen(texts[i]) <= ChunkSize => texts[i] \in Atom
    BY <2>1 DEF Atom
  <2> QED
    BY <2>2, <2>3 DEF AtomsOf
<1>3. parts \in Seq(Seq(Atom)) /\ Len(parts) = n /\ \A i \in 1..n : parts[i] = AtomsOf(texts[i])
  BY <1>1, <1>2
<1>4. Atomize(text) = FlattenSeq(parts)
  BY AtomizeSteps
<1> HIDE DEF parts
<1>5. \A x : x \in ToSet(FlattenSeq(parts)) <=> \E i \in 1..n : x \in ToSet(parts[i])
  BY <1>3, FlattenMembers
<1> QED
  BY <1>1, <1>3, <1>4, <1>5

\* The items of a list of one.
LEMMA OnlyMember == \A x : x \in ToSet(<<x>>) /\ \A y \in ToSet(<<x>>) : y = x
BY DEF ToSet

\* The levels of a text: the text, its paragraphs, their sentences, their lines, so
\* far as they do not fit.
Levels(text) ==
    LET whole == Whole(text)
        one == Divide(whole, "paragraph")
        two == Divide(one, "sentence")
    IN [whole |-> whole, one |-> one, two |-> two, three |-> Divide(two, "line")]

\* They are lists of texts, and what fits in one is in the last, and an atom.
LEMMA LevelsKeep ==
    ASSUME NEW text \in Seq(Run), NEW level, level = Levels(text)
    PROVE  /\ level.whole \in Seq(Text) /\ level.one \in Seq(Text) /\ level.two \in Seq(Text)
           /\ \A t \in ToSet(level.whole) \cup ToSet(level.one) \cup ToSet(level.two)
                         \cup ToSet(level.three) :
                TextLen(t) <= ChunkSize => t \in ToSet(Atomize(text))
<1>1. /\ level.whole = Whole(text) /\ level.one = Divide(level.whole, "paragraph")
      /\ level.two = Divide(level.one, "sentence") /\ level.three = Divide(level.two, "line")
      /\ level.three = Divided(text)
  BY DEF Levels, Divided
<1>2. level.whole \in Seq(Text) /\ level.one \in Seq(Text) /\ level.two \in Seq(Text)
  BY <1>1, DividedType, DivideType
<1>3. ASSUME NEW texts \in Seq(Text), NEW kind, NEW t \in ToSet(texts), TextLen(t) <= ChunkSize
      PROVE  t \in ToSet(Divide(texts, kind))
  <2>1. t \in ToSet(PartsOf(t, kind))
    BY <1>3, OnlyMember DEF PartsOf
  <2> QED
    BY <2>1, DivideMembers
<1>4. ASSUME NEW t \in ToSet(level.three), TextLen(t) <= ChunkSize PROVE t \in ToSet(Atomize(text))
  <2>1. t \in ToSet(AtomsOf(t))
    BY <1>4, OnlyMember DEF AtomsOf
  <2> QED
    BY <1>1, <2>1, AtomizeMembers
<1>5. ASSUME NEW t \in ToSet(level.two), TextLen(t) <= ChunkSize PROVE t \in ToSet(Atomize(text))
  BY <1>1, <1>2, <1>3, <1>4, <1>5
<1>6. ASSUME NEW t \in ToSet(level.one), TextLen(t) <= ChunkSize PROVE t \in ToSet(Atomize(text))
  BY <1>1, <1>2, <1>3, <1>5, <1>6
<1>7. ASSUME NEW t \in ToSet(level.whole), TextLen(t) <= ChunkSize PROVE t \in ToSet(Atomize(text))
  BY <1>1, <1>2, <1>3, <1>6, <1>7
<1> QED
  BY <1>2, <1>4, <1>5, <1>6, <1>7

\* A text is in a level, or in an atom.
Reached(text, texts, atoms) ==
    \/ text \in ToSet(texts)
    \/ \E atom \in ToSet(atoms) : ToSet(text) \subseteq ToSet(atom)

\* A piece of it is in the next level, or in the same atom.
LEMMA ReachedPiece ==
    ASSUME NEW texts \in Seq(Text), NEW kind, NEW atoms,
           \A t \in ToSet(texts) : TextLen(t) <= ChunkSize => t \in ToSet(atoms),
           NEW t \in Seq(Run), Reached(t, texts, atoms), NEW piece \in ToSet(Split(t, kind))
    PROVE  piece \in Text /\ Reached(piece, Divide(texts, kind), atoms)
<1>1. Split(t, kind) \in Seq(Text) /\ ToSet(Split(t, kind)) \subseteq Text
  BY SplitType, Members
<1>2. ToSet(piece) \subseteq ToSet(t)
  BY SplitMembers DEF RunsIn
<1>3. CASE \E atom \in ToSet(atoms) : ToSet(t) \subseteq ToSet(atom)
  BY <1>1, <1>2, <1>3 DEF Reached
<1>4. CASE t \in ToSet(texts) /\ TextLen(t) <= ChunkSize
  BY <1>1, <1>2, <1>4 DEF Reached
<1>5. CASE t \in ToSet(texts) /\ ~(TextLen(t) <= ChunkSize)
  <2>1. piece \in ToSet(PartsOf(t, kind))
    BY <1>5 DEF PartsOf
  <2> QED
    BY <1>1, <1>5, <2>1, DivideMembers DEF Reached
<1> QED
  BY <1>3, <1>4, <1>5 DEF Reached

\* The blocks of a text at every level.
BlocksOf(text) ==
    LET paragraphs == PiecesIn({text}, "paragraph")
        sentences == PiecesIn(paragraphs, "sentence")
    IN paragraphs \cup sentences \cup PiecesIn(sentences, "line")

\* Blocks are texts.
LEMMA BlocksType ==
    ASSUME NEW text \in Text
    PROVE  BlocksOf(text) \subseteq Text
<1>1. ASSUME NEW texts \in SUBSET Text, NEW kind PROVE PiecesIn(texts, kind) \subseteq Text
  <2>1. \A t \in texts : Split(t, kind) \in Seq(Text)
    BY SplitType DEF Text
  <2>2. \A t \in texts : ToSet(Split(t, kind)) \subseteq Text
    BY <2>1, Members
  <2> QED
    BY <2>2 DEF PiecesIn
<1>2. PiecesIn({text}, "paragraph") \subseteq Text
  BY <1>1
<1>3. PiecesIn(PiecesIn({text}, "paragraph"), "sentence") \subseteq Text
  BY <1>1, <1>2
<1> QED
  BY <1>1, <1>2, <1>3 DEF BlocksOf

\* A block that fits a chunk is within an atom.
LEMMA FittingBlocks ==
    ASSUME NEW text \in Text, NEW block \in BlocksOf(text), TextLen(block) <= ChunkSize
    PROVE  \E atom \in ToSet(Atomize(text)) : ToSet(block) \subseteq ToSet(atom)
<1> DEFINE level == Levels(text)
           atoms == Atomize(text)
           paragraphs == PiecesIn({text}, "paragraph")
           sentences == PiecesIn(paragraphs, "sentence")
<1>1. /\ level.whole \in Seq(Text) /\ level.one \in Seq(Text) /\ level.two \in Seq(Text)
      /\ level.whole = Whole(text) /\ level.one = Divide(level.whole, "paragraph")
      /\ level.two = Divide(level.one, "sentence") /\ level.three = Divide(level.two, "line")
      /\ \A t \in ToSet(level.whole) \cup ToSet(level.one) \cup ToSet(level.two)
                    \cup ToSet(level.three) :
           TextLen(t) <= ChunkSize => t \in ToSet(atoms)
  <2>1. text \in Seq(Run)
    BY DEF Text
  <2> QED
    BY <2>1, LevelsKeep DEF Levels
<1> HIDE DEF level, atoms
<1>2. text \in Seq(Run) /\ Reached(text, level.whole, atoms)
  BY <1>1, OnlyMember DEF Text, Whole, Reached
<1>3. \A t \in paragraphs : t \in Text /\ Reached(t, level.one, atoms)
  BY <1>1, <1>2, ReachedPiece DEF PiecesIn
<1> HIDE DEF paragraphs
<1>4. \A t \in sentences : t \in Text /\ Reached(t, level.two, atoms)
  <2> SUFFICES ASSUME NEW t \in sentences PROVE t \in Text /\ Reached(t, level.two, atoms)
    OBVIOUS
  <2>1. PICK whole \in paragraphs : t \in ToSet(Split(whole, "sentence"))
    BY DEF PiecesIn
  <2>2. whole \in Seq(Run) /\ Reached(whole, level.one, atoms)
    BY <1>3 DEF Text
  <2>3. \A other \in ToSet(level.one) : TextLen(other) <= ChunkSize => other \in ToSet(atoms)
    BY <1>1
  <2>4. t \in Text /\ Reached(t, Divide(level.one, "sentence"), atoms)
    BY <1>1, <2>1, <2>2, <2>3, ReachedPiece
  <2> QED
    BY <1>1, <2>4
<1> HIDE DEF sentences
<1>5. \A t \in PiecesIn(sentences, "line") : t \in Text /\ Reached(t, level.three, atoms)
  <2> SUFFICES ASSUME NEW t \in PiecesIn(sentences, "line")
               PROVE  t \in Text /\ Reached(t, level.three, atoms)
    OBVIOUS
  <2>1. PICK whole \in sentences : t \in ToSet(Split(whole, "line"))
    BY DEF PiecesIn
  <2>2. whole \in Seq(Run) /\ Reached(whole, level.two, atoms)
    BY <1>4 DEF Text
  <2>3. \A other \in ToSet(level.two) : TextLen(other) <= ChunkSize => other \in ToSet(atoms)
    BY <1>1
  <2>4. t \in Text /\ Reached(t, Divide(level.two, "line"), atoms)
    BY <1>1, <2>1, <2>2, <2>3, ReachedPiece
  <2> QED
    BY <1>1, <2>4
<1>6. \/ Reached(block, level.one, atoms)
      \/ Reached(block, level.two, atoms)
      \/ Reached(block, level.three, atoms)
  BY <1>3, <1>4, <1>5 DEF BlocksOf, paragraphs, sentences
<1>7. block \in ToSet(atoms) \/ \E atom \in ToSet(atoms) : ToSet(block) \subseteq ToSet(atom)
  BY <1>1, <1>6 DEF Reached
<1> QED
  BY <1>7 DEF atoms

\* The characters of a text are those of its runs; of atoms, those of each.
LEMMA CharsMembers ==
    /\ \A text \in Seq(Run) : CharsOf(text) = UNION {CharsOfRun(x) : x \in ToSet(text)}
    /\ \A atoms \in Seq(Text) : CharsIn(atoms) = UNION {CharsOf(x) : x \in ToSet(atoms)}
<1>1. ASSUME NEW text \in Seq(Run) PROVE CharsOf(text) = UNION {CharsOfRun(x) : x \in ToSet(text)}
  <2>1. ToSet(text) = {text[i] : i \in 1..Len(text)} /\ DOMAIN text = 1..Len(text)
    BY Members
  <2> QED
    BY <2>1 DEF CharsOf
<1>2. ASSUME NEW atoms \in Seq(Text) PROVE CharsIn(atoms) = UNION {CharsOf(x) : x \in ToSet(atoms)}
  <2>1. ToSet(atoms) = {atoms[i] : i \in 1..Len(atoms)} /\ DOMAIN atoms = 1..Len(atoms)
    BY Members
  <2> QED
    BY <2>1 DEF CharsIn
<1> QED
  BY <1>1, <1>2

\* A character is one of a run of the text.
LEMMA CharIn ==
    ASSUME NEW text \in Seq(Run)
    PROVE  \A c : c \in CharsOf(text) <=> \E x \in ToSet(text) : c \in CharsOfRun(x)
<1>1. \A x : x \in ToSet(text) <=> \E i \in DOMAIN text : x = text[i]
  BY DEF ToSet
<1> QED
  BY <1>1 DEF CharsOf

\* One of a list of atoms is one of an atom of it.
LEMMA CharInAtoms ==
    ASSUME NEW atoms \in Seq(Text)
    PROVE  \A c : c \in CharsIn(atoms) <=> \E x \in ToSet(atoms) : c \in CharsOf(x)
<1>1. \A x : x \in ToSet(atoms) <=> \E i \in DOMAIN atoms : x = atoms[i]
  BY DEF ToSet
<1> QED
  BY <1>1 DEF CharsIn

\* The characters of no text, of one with a run more, and of two texts joined.
LEMMA CharsAppend ==
    ASSUME NEW text \in Seq(Run)
    PROVE  /\ CharsOf(<<>>) = {}
           /\ \A run \in Run : CharsOf(Append(text, run)) = CharsOf(text) \cup CharsOfRun(run)
           /\ \A more \in Seq(Run) : CharsOf(text \o more) = CharsOf(text) \cup CharsOf(more)
<1>1. CharsOf(<<>>) = {}
  BY DEF CharsOf
<1>2. ASSUME NEW run \in Run
      PROVE  CharsOf(Append(text, run)) = CharsOf(text) \cup CharsOfRun(run)
  <2> DEFINE longer == Append(text, run)
  <2>1. longer \in Seq(Run) /\ ToSet(longer) = ToSet(text) \cup {run}
    BY Members, AppendProperties
  <2> HIDE DEF longer
  <2>2. \A c : c \in CharsOf(longer) <=> \E x \in ToSet(longer) : c \in CharsOfRun(x)
    BY <2>1, CharIn
  <2>3. \A c : c \in CharsOf(text) <=> \E x \in ToSet(text) : c \in CharsOfRun(x)
    BY CharIn
  <2>4. CharsOf(longer) = CharsOf(text) \cup CharsOfRun(run)
    BY <2>1, <2>2, <2>3
  <2> QED
    BY <2>4 DEF longer
<1>3. ASSUME NEW more \in Seq(Run)
      PROVE  CharsOf(text \o more) = CharsOf(text) \cup CharsOf(more)
  <2> DEFINE both == text \o more
  <2>1. both \in Seq(Run) /\ ToSet(both) = ToSet(text) \cup ToSet(more)
    BY Members, ConcatProperties
  <2> HIDE DEF both
  <2>2. \A c : c \in CharsOf(both) <=> \E x \in ToSet(both) : c \in CharsOfRun(x)
    BY <2>1, CharIn
  <2>3. \A c : c \in CharsOf(text) <=> \E x \in ToSet(text) : c \in CharsOfRun(x)
    BY CharIn
  <2>4. \A c : c \in CharsOf(more) <=> \E x \in ToSet(more) : c \in CharsOfRun(x)
    BY CharIn
  <2>5. CharsOf(both) = CharsOf(text) \cup CharsOf(more)
    BY <2>1, <2>2, <2>3, <2>4
  <2> QED
    BY <2>5 DEF both
<1> QED
  BY <1>1, <1>2, <1>3

\* A text within another has no characters it has not.
LEMMA CharsWithin ==
    ASSUME NEW text \in Seq(Run), NEW other \in Seq(Run), ToSet(text) \subseteq ToSet(other)
    PROVE  CharsOf(text) \subseteq CharsOf(other)
BY CharsMembers

\* Every atom is in a chunk.
LEMMA AtomInChunk ==
    ASSUME NEW text \in Seq(Run), text # <<>>, NEW atom \in ToSet(Atomize(text))
    PROVE  \E i \in DOMAIN ChunkMarkdown(text) : atom \in ToSet(ChunkMarkdown(text)[i])
<1> DEFINE atoms == Atomize(text)
           n == Len(atoms)
           list == ChunkMarkdown(text)
<1>1. /\ atoms \in Seq(Atom) /\ n \in Nat \ {0}
      /\ \E from, to : Stretches(list, atoms, n, from, to)
  BY ChunksStretch
<1>2. list \in Seq(Chunk \ {<<>>})
  BY ChunkMarkdownType
<1>3. DOMAIN list = 1..Len(list)
  BY <1>2
<1>4. \E j \in 1..n : atom = atoms[j]
  BY <1>1, Members
<1> HIDE DEF atoms, n, list
<1>5. PICK from, to : Stretches(list, atoms, n, from, to)
  BY <1>1
<1>6. PICK j \in 1..n : atom = atoms[j]
  BY <1>4
<1>7. PICK i \in 1..Len(list) : j \in from[i]..to[i]
  BY <1>1, <1>5, EveryAtom
<1>8. /\ from[i] \in 1..n /\ to[i] \in 1..n /\ from[i] <= to[i]
      /\ list[i] = SubSeq(atoms, from[i], to[i])
  BY <1>5, <1>7 DEF Stretches
<1>9. from[i] \in 1..Len(atoms) /\ to[i] \in from[i]..Len(atoms)
  BY <1>8 DEF n
<1>10. atom \in ToSet(list[i])
  <2> DEFINE part == list[i]
             first == from[i]
             last == to[i]
  <2>1. /\ IsStretch(part, atoms, first, last) /\ first \in 1..Len(atoms)
        /\ last \in first..Len(atoms)
    BY <1>8, <1>9 DEF IsStretch
  <2> HIDE DEF part, first, last
  <2>2. \A x : x \in ToSet(part) <=> \E k \in first..last : x = atoms[k]
    BY <1>1, <2>1, StretchMembers
  <2> QED
    BY <1>6, <1>7, <2>2 DEF part, first, last
<1> QED
  BY <1>3, <1>7, <1>10 DEF list

-----------------------------------------------------------------------------
(* The places of runs *)

\* A run behind another; a text whose runs are in their order; one behind another.
Behind == {pair \in Run \X Run : pair[1].at + pair[1].len <= pair[2].at}
Placed(text) == Related(text, Behind)
TextsApart == {pair \in Text \X Text : Across(pair[1], pair[2], Behind)}

\* A boundary of the kind is in the text at most behind the last run.
NoneInside(text, kind) == \A x, y \in ToSet(text) : <<x, y>> \in Behind => x.sep # kind

\* Of two runs, one may be behind the other, not both, and none behind itself.
LEMMA OneWay ==
    ASSUME NEW x \in Run, NEW y \in Run
    PROVE  /\ <<x, y>> \in Behind <=> x.at + x.len <= y.at
           /\ <<x, x>> \notin Behind /\ (<<x, y>> \in Behind => <<y, x>> \notin Behind)
<1>1. x.at \in Nat /\ x.len \in Nat \ {0} /\ y.at \in Nat /\ y.len \in Nat \ {0}
  BY DEF Run
<1> QED
  BY <1>1 DEF Behind

\* What the loop of Split has of a text in order.
InOrder(acc, text, kind) ==
    /\ \A p \in ToSet(acc.pieces) :
          Placed(p) /\ NoneInside(p, kind) /\ ToSet(p) \subseteq ToSet(text)
          /\ Across(p, acc.open, Behind)
    /\ Placed(acc.open) /\ ToSet(acc.open) \subseteq ToSet(text)
    /\ \A x \in ToSet(acc.open) : x.sep # kind
    /\ Related(acc.pieces, TextsApart)

\* A turn keeps it.
LEMMA InOrderStep ==
    ASSUME NEW text \in Seq(Run), NEW kind, NEW acc \in SplitAcc, InOrder(acc, text, kind),
           NEW run \in Run, \A x \in ToSet(text) : <<x, run>> \in Behind,
           NEW next, next = SplitAdd(acc, run, kind)
    PROVE  InOrder(next, Append(text, run), kind)
<1> DEFINE longer == Append(text, run)
           open == Append(acc.open, run)
<1>1. acc.pieces \in Seq(Text) /\ acc.open \in Seq(Run)
  BY DEF SplitAcc
<1>2. /\ ToSet(longer) = ToSet(text) \cup {run} /\ ToSet(open) = ToSet(acc.open) \cup {run}
      /\ ToSet(text) \subseteq Run /\ ToSet(acc.pieces) \subseteq Text
      /\ ToSet(acc.open) \subseteq Run
  BY <1>1, Members
<1>3. open \in Text
  BY <1>1, AppendProperties DEF Text
<1>4. /\ \A p \in ToSet(acc.pieces) :
            Placed(p) /\ NoneInside(p, kind) /\ ToSet(p) \subseteq ToSet(text)
            /\ Across(p, acc.open, Behind)
      /\ Placed(acc.open) /\ ToSet(acc.open) \subseteq ToSet(text)
      /\ \A x \in ToSet(acc.open) : x.sep # kind
      /\ Related(acc.pieces, TextsApart)
  BY DEF InOrder
<1>5. \A x \in ToSet(acc.open) : <<x, run>> \in Behind
  BY <1>4
<1>6. Placed(open)
  BY <1>1, <1>4, <1>5, AppendRelated DEF Placed
<1>7. \A p \in ToSet(acc.pieces) : Across(p, open, Behind)
  BY <1>2, <1>4 DEF Across
<1> HIDE DEF longer, open
<1>8. CASE run.sep = kind
  <2>1. next.pieces = Append(acc.pieces, open) /\ next.open = <<>>
    BY <1>8 DEF SplitAdd, open
  <2>2. ToSet(next.pieces) = ToSet(acc.pieces) \cup {open} /\ ToSet(next.open) = {}
    <3>1. ToSet(Append(acc.pieces, open)) = ToSet(acc.pieces) \cup {open}
      BY <1>1, <1>3, Members
    <3>2. ToSet(<<>>) = {}
      BY DEF ToSet
    <3> QED
      BY <2>1, <3>1, <3>2
  <2>3. NoneInside(open, kind)
    <3> SUFFICES ASSUME NEW x \in ToSet(open), NEW y \in ToSet(open), <<x, y>> \in Behind
                 PROVE  x.sep # kind
      BY DEF NoneInside
    <3>1. CASE x = run
      <4>1. <<y, run>> \in Behind \/ y = run
        BY <1>2, <1>5
      <4>2. y \in Run
        BY <1>2
      <4> QED
        BY <3>1, <4>1, <4>2, OneWay
    <3> QED
      BY <1>2, <1>4, <3>1
  <2>4. Placed(<<>>)
    BY DEF Placed, Related
  <2>5. \A p \in ToSet(acc.pieces) : <<p, open>> \in TextsApart
    BY <1>2, <1>3, <1>7 DEF TextsApart
  <2>6. Related(next.pieces, TextsApart)
    BY <1>1, <1>3, <1>4, <2>1, <2>5, AppendRelated
  <2>7. \A p \in ToSet(next.pieces) : Across(p, next.open, Behind)
    BY <2>2 DEF Across
  <2>8. \A p \in ToSet(next.pieces) :
           Placed(p) /\ NoneInside(p, kind) /\ ToSet(p) \subseteq ToSet(longer)
    BY <1>2, <1>4, <1>6, <2>2, <2>3
  <2> QED
    BY <2>1, <2>2, <2>4, <2>6, <2>7, <2>8 DEF InOrder, longer
<1>9. CASE run.sep # kind
  <2>1. next.pieces = acc.pieces /\ next.open = open
    BY <1>9 DEF SplitAdd, SplitAcc, open
  <2>2. \A x \in ToSet(open) : x.sep # kind
    BY <1>2, <1>4, <1>9
  <2>3. ToSet(open) \subseteq ToSet(longer) /\ ToSet(text) \subseteq ToSet(longer)
    BY <1>2, <1>4
  <2>4. \A p \in ToSet(acc.pieces) : ToSet(p) \subseteq ToSet(longer)
    BY <1>4, <2>3
  <2> QED
    BY <1>4, <1>6, <1>7, <2>1, <2>2, <2>3, <2>4 DEF InOrder, longer
<1> QED
  BY <1>8, <1>9

\* The pieces of a text in order are in order, each behind those before, and have no
\* boundary of the kind inside.
LEMMA SplitPlaces ==
    ASSUME NEW text \in Seq(Run), Placed(text), NEW kind
    PROVE  /\ \A p \in ToSet(Split(text, kind)) :
                Placed(p) /\ NoneInside(p, kind) /\ ToSet(p) \subseteq ToSet(text)
           /\ Related(Split(text, kind), TextsApart)
<1> DEFINE end(t) == SplitEnd(t, kind)
           P == {t \in Seq(Run) : Placed(t) => InOrder(end(t), t, kind)}
<1>1. <<>> \in P
  <2>1. <<>> \in Seq(Run)
    OBVIOUS
  <2>2. end(<<>>) = SplitStart
    BY <2>1, SplitAppend
  <2> HIDE DEF end
  <2>3. InOrder(SplitStart, <<>>, kind)
    BY DEF SplitStart, InOrder, ToSet, Placed, Related
  <2> QED
    BY <2>1, <2>2, <2>3
<1>2. ASSUME NEW t \in Seq(Run), NEW run \in Run, t \in P PROVE Append(t, run) \in P
  <2>1. end(t) \in SplitAcc /\ end(Append(t, run)) = SplitAdd(end(t), run, kind)
        /\ Append(t, run) \in Seq(Run)
    BY SplitAppend
  <2> HIDE DEF end
  <2>2. ASSUME Placed(Append(t, run)) PROVE InOrder(end(Append(t, run)), Append(t, run), kind)
    <3>1. Placed(t) /\ \A x \in ToSet(t) : <<x, run>> \in Behind
      BY <2>2, RelatedFront DEF Placed
    <3>2. InOrder(end(t), t, kind)
      BY <1>2, <3>1
    <3> QED
      BY <2>1, <3>1, <3>2, InOrderStep
  <2> QED
    BY <2>1, <2>2
<1>3. text \in P
  <2> HIDE DEF P
  <2> QED
    BY <1>1, <1>2, BuiltUp
<1>4. end(text) \in SplitAcc /\ Split(text, kind) = AllPieces(end(text))
  BY SplitAppend
<1>5. InOrder(end(text), text, kind)
  BY <1>3
<1> HIDE DEF end
<1> DEFINE acc == end(text)
<1>6. /\ \A p \in ToSet(acc.pieces) :
            Placed(p) /\ NoneInside(p, kind) /\ ToSet(p) \subseteq ToSet(text)
            /\ Across(p, acc.open, Behind)
      /\ Placed(acc.open) /\ ToSet(acc.open) \subseteq ToSet(text)
      /\ \A x \in ToSet(acc.open) : x.sep # kind
      /\ Related(acc.pieces, TextsApart)
  BY <1>5 DEF InOrder
<1>7. acc.pieces \in Seq(Text) /\ acc.open \in Seq(Run)
  BY <1>4 DEF SplitAcc
<1> HIDE DEF acc
<1>8. CASE acc.open = <<>>
  BY <1>4, <1>6, <1>8 DEF AllPieces, acc
<1>9. CASE acc.open # <<>>
  <2>1. acc.open \in Text /\ Split(text, kind) = Append(acc.pieces, acc.open)
    BY <1>4, <1>7, <1>9 DEF Text, AllPieces, acc
  <2>2. ToSet(Split(text, kind)) = ToSet(acc.pieces) \cup {acc.open}
        /\ ToSet(acc.pieces) \subseteq Text
    BY <1>7, <2>1, Members
  <2>3. NoneInside(acc.open, kind)
    BY <1>6 DEF NoneInside
  <2>4. \A p \in ToSet(acc.pieces) : <<p, acc.open>> \in TextsApart
    BY <1>6, <2>1, <2>2 DEF TextsApart
  <2>5. Related(Split(text, kind), TextsApart)
    BY <1>6, <1>7, <2>1, <2>4, AppendRelated
  <2> QED
    BY <1>6, <2>2, <2>3, <2>5
<1> QED
  BY <1>8, <1>9

\* A level of a text in order: in order, with all its runs, and none of its texts
\* that do not fit has a boundary inside of the kinds already tried.
Level(texts, text, kinds) ==
    /\ texts \in Seq(Text) /\ Related(texts, TextsApart) /\ RunsIn(texts) = ToSet(text)
    /\ \A t \in ToSet(texts) :
          Placed(t) /\ (TextLen(t) <= ChunkSize \/ \A kind \in kinds : NoneInside(t, kind))

\* The next level is one.
LEMMA LevelStep ==
    ASSUME NEW texts, NEW text, NEW kinds, Level(texts, text, kinds), NEW kind
    PROVE  Level(Divide(texts, kind), text, kinds \cup {kind})
<1> DEFINE n == Len(texts)
           next == Divide(texts, kind)
<1>1. /\ texts \in Seq(Text) /\ Related(texts, TextsApart) /\ RunsIn(texts) = ToSet(text)
      /\ \A t \in ToSet(texts) :
            Placed(t) /\ (TextLen(t) <= ChunkSize \/ \A k \in kinds : NoneInside(t, k))
  BY DEF Level
<1>2. next \in Seq(Text)
  BY <1>1, DivideType
<1>3. /\ n \in Nat /\ ToSet(texts) = {texts[i] : i \in 1..n}
      /\ ToSet(texts) \subseteq Text /\ Text \subseteq Seq(Run)
  BY <1>1, Members DEF Text
<1>4. ASSUME NEW t \in ToSet(texts)
      PROVE  /\ Related(PartsOf(t, kind), TextsApart)
             /\ RunsIn(PartsOf(t, kind)) = ToSet(t)
             /\ \A p \in ToSet(PartsOf(t, kind)) :
                  /\ Placed(p) /\ ToSet(p) \subseteq ToSet(t)
                  /\ TextLen(p) <= ChunkSize \/ \A k \in kinds \cup {kind} : NoneInside(p, k)
  <2>1. t \in Seq(Run) /\ Placed(t)
    BY <1>1, <1>3
  <2>2. CASE TextLen(t) <= ChunkSize
    <3>1. PartsOf(t, kind) = <<t>>
      BY <2>2 DEF PartsOf
    <3>2. ToSet(<<t>>) = {t}
      BY OnlyMember
    <3>3. Related(<<t>>, TextsApart)
      BY DEF Related
    <3> QED
      BY <2>1, <2>2, <3>1, <3>2, <3>3 DEF RunsIn
  <2>3. CASE ~(TextLen(t) <= ChunkSize)
    <3>1. PartsOf(t, kind) = Split(t, kind)
      BY <2>3 DEF PartsOf
    <3>2. /\ RunsIn(Split(t, kind)) = ToSet(t) /\ Related(Split(t, kind), TextsApart)
          /\ \A p \in ToSet(Split(t, kind)) :
                Placed(p) /\ NoneInside(p, kind) /\ ToSet(p) \subseteq ToSet(t)
      BY <2>1, SplitMembers, SplitPlaces
    <3>3. \A k \in kinds : NoneInside(t, k)
      BY <1>1, <2>3
    <3>4. \A p \in ToSet(Split(t, kind)), k \in kinds : NoneInside(p, k)
      BY <3>2, <3>3 DEF NoneInside
    <3> QED
      BY <3>1, <3>2, <3>4
  <2> QED
    BY <2>2, <2>3
<1>5. \A x : x \in ToSet(next) <=> \E t \in ToSet(texts) : x \in ToSet(PartsOf(t, kind))
  BY <1>1, DivideMembers
<1>6. RunsIn(next) = ToSet(text)
  <2>1. \A x : x \in RunsIn(next) <=> \E t \in ToSet(texts) : x \in RunsIn(PartsOf(t, kind))
    BY <1>5 DEF RunsIn
  <2>2. \A x : x \in RunsIn(next) <=> \E t \in ToSet(texts) : x \in ToSet(t)
    BY <1>4, <2>1
  <2> QED
    BY <1>1, <2>2 DEF RunsIn
<1>7. \A p \in ToSet(next) :
         Placed(p) /\ (TextLen(p) <= ChunkSize \/ \A k \in kinds \cup {kind} : NoneInside(p, k))
  BY <1>4, <1>5
<1>8. Related(next, TextsApart)
  <2>1. PICK parts \in Seq(Seq(Text)) :
           /\ next = FlattenSeq(parts) /\ Len(parts) = n
           /\ \A i \in 1..n : parts[i] = PartsOf(texts[i], kind)
    BY <1>1, DivideParts
  <2> HIDE DEF next, n
  <2>2. \A i \in 1..n : Related(parts[i], TextsApart)
    BY <1>3, <1>4, <2>1
  <2>3. ASSUME NEW i \in 1..n, NEW j \in 1..n, i < j
        PROVE  Across(parts[i], parts[j], TextsApart)
    <3> SUFFICES ASSUME NEW x \in ToSet(parts[i]), NEW y \in ToSet(parts[j])
                 PROVE  <<x, y>> \in TextsApart
      BY DEF Across
    <3>1. <<texts[i], texts[j]>> \in TextsApart
      BY <1>1, <2>3 DEF Related, n
    <3>2. Across(texts[i], texts[j], Behind)
      BY <3>1 DEF TextsApart
    <3>3. ToSet(x) \subseteq ToSet(texts[i]) /\ ToSet(y) \subseteq ToSet(texts[j])
      BY <1>3, <1>4, <2>1
    <3>4. x \in Text /\ y \in Text
      <4>1. parts[i] \in Seq(Text) /\ parts[j] \in Seq(Text)
        BY <2>1
      <4> QED
        BY <4>1, Members
    <3>5. Across(x, y, Behind)
      BY <3>2, <3>3 DEF Across
    <3> QED
      BY <3>4, <3>5 DEF TextsApart
  <2>4. Related(FlattenSeq(parts), TextsApart)
    BY <2>1, <2>2, <2>3, FlattenRelated
  <2> QED
    BY <2>1, <2>4
<1> QED
  BY <1>2, <1>6, <1>7, <1>8 DEF Level

\* So is the last one; and what does not fit there is a single run.
LEMMA LastLevel ==
    ASSUME NEW text \in Seq(Run), Placed(text), NEW texts, texts = Divided(text)
    PROVE  /\ texts \in Seq(Text) /\ Related(texts, TextsApart) /\ RunsIn(texts) = ToSet(text)
           /\ \A t \in ToSet(texts) :
                Placed(t) /\ (TextLen(t) <= ChunkSize \/ \E run \in Run : t = <<run>>)
<1> DEFINE kinds == {"paragraph", "sentence", "line"}
<1>1. Level(Whole(text), text, {})
  <2>1. Whole(text) \in Seq(Text)
    BY DividedType
  <2>2. CASE text = <<>>
    BY <2>1, <2>2 DEF Whole, Level, Related, RunsIn, ToSet
  <2>3. CASE text # <<>>
    <3>1. Whole(text) = <<text>> /\ ToSet(<<text>>) = {text}
      BY <2>3, OnlyMember DEF Whole
    <3>2. Related(<<text>>, TextsApart)
      BY DEF Related
    <3> QED
      BY <2>1, <3>1, <3>2 DEF Level, RunsIn
  <2> QED
    BY <2>2, <2>3
<1>2. Level(texts, text, (({} \cup {"paragraph"}) \cup {"sentence"}) \cup {"line"})
  BY <1>1, LevelStep DEF Divided
<1>3. (({} \cup {"paragraph"}) \cup {"sentence"}) \cup {"line"} = kinds
  OBVIOUS
<1>4. Level(texts, text, kinds)
  BY <1>2, <1>3
<1>5. ASSUME NEW t \in Text, Placed(t), \A kind \in kinds : NoneInside(t, kind)
      PROVE  \E run \in Run : t = <<run>>
  <2>1. t \in Seq(Run) /\ t # <<>> /\ Len(t) \in Nat \ {0}
    BY DEF Text
  <2>2. CASE Len(t) = 1
    <3>1. t = <<t[1]>> /\ t[1] \in Run
      BY <2>1, <2>2
    <3> QED
      BY <3>1
  <2>3. CASE Len(t) # 1
    <3>1. 1 \in 1..Len(t) /\ 2 \in 1..Len(t)
      BY <2>1, <2>3, SMTT(30)
    <3>2. t[1] \in ToSet(t) /\ t[2] \in ToSet(t) /\ <<t[1], t[2]>> \in Behind
      BY <1>5, <2>1, <3>1, Members DEF Placed, Related
    <3>3. \A kind \in kinds : t[1].sep # kind
      BY <1>5, <3>2 DEF NoneInside
    <3>4. t[1] \in Run
      BY <2>1, <3>1
    <3> QED
      BY <3>3, <3>4 DEF Run
  <2> QED
    BY <2>2, <2>3
<1>6. ToSet(texts) \subseteq Text
  BY <1>4, Members DEF Level
<1> HIDE DEF kinds
<1> QED
  BY <1>4, <1>5, <1>6 DEF Level

-----------------------------------------------------------------------------
(* The places of atoms *)

\* Where a text in order starts and ends, and its characters between.
Start(text) == text[1].at
End(text) == text[Len(text)].at + text[Len(text)].len

\* The first character is the text's, the last one is before its end.
LEMMA Extent ==
    ASSUME NEW text \in Text, Placed(text)
    PROVE  /\ Start(text) \in Nat /\ End(text) \in Nat /\ Start(text) < End(text)
           /\ \A x \in ToSet(text) : Start(text) <= x.at /\ x.at + x.len <= End(text)
           /\ CharsOf(text) \subseteq Start(text)..(End(text) - 1)
           /\ Start(text) \in CharsOf(text) /\ End(text) - 1 \in CharsOf(text)
<1> DEFINE n == Len(text)
<1>1. text \in Seq(Run) /\ n \in Nat \ {0} /\ 1 \in 1..n /\ n \in 1..n
  BY DEF Text
<1>2. \A i \in 1..n : text[i] \in Run
  BY <1>1
<1>3. ToSet(text) = {text[i] : i \in 1..n}
  BY <1>1, Members
<1>4. \A i, j \in 1..n : i < j => <<text[i], text[j]>> \in Behind
  BY DEF Placed, Related
<1>5. Start(text) = text[1].at /\ End(text) = text[n].at + text[n].len
  BY DEF Start, End
<1> HIDE DEF n
<1>6. \A i \in 1..n : text[i].at \in Nat /\ text[i].len \in Nat \ {0}
  BY <1>2 DEF Run
<1>7. ASSUME NEW i \in 1..n
      PROVE  text[1].at <= text[i].at /\ text[i].at + text[i].len <= text[n].at + text[n].len
  <2>1. i = 1 \/ text[1].at + text[1].len <= text[i].at
    <3>1. i = 1 \/ 1 < i
      BY <1>1
    <3> QED
      BY <1>1, <1>2, <1>4, <3>1, OneWay
  <2>2. i = n \/ text[i].at + text[i].len <= text[n].at
    <3>1. i = n \/ i < n
      BY <1>1
    <3> QED
      BY <1>1, <1>2, <1>4, <3>1, OneWay
  <2>3. text[1].at <= text[i].at
    BY <1>1, <1>6, <2>1
  <2>4. text[i].at + text[i].len <= text[n].at + text[n].len
    BY <1>1, <1>6, <2>2
  <2> QED
    BY <2>3, <2>4
<1>8. CharsOf(text) = UNION {CharsOfRun(text[i]) : i \in 1..n}
  BY <1>1, <1>3, CharsMembers
<1>9. Start(text) \in Nat /\ End(text) \in Nat /\ Start(text) < End(text)
  <2>1. text[1].at <= text[n].at /\ text[n].at \in Nat /\ text[n].len \in Nat \ {0}
        /\ text[1].at \in Nat
    BY <1>1, <1>6, <1>7
  <2> QED
    BY <1>5, <2>1
<1>10. ASSUME NEW i \in 1..n PROVE CharsOfRun(text[i]) \subseteq Start(text)..(End(text) - 1)
  BY <1>5, <1>6, <1>7, <1>9 DEF CharsOfRun
<1>11. Start(text) \in CharsOfRun(text[1]) /\ End(text) - 1 \in CharsOfRun(text[n])
  BY <1>1, <1>5, <1>6, SMTT(30) DEF CharsOfRun
<1> QED
  BY <1>1, <1>3, <1>5, <1>7, <1>8, <1>9, <1>10, <1>11

\* The n windows of a run of a length: each starts at `at` and ends before `end`,
\* and is longer than the overlap; the next starts no later than it ends, later ones
\* start and end behind it and share no more than the overlap with it; and the run is
\* covered.
Spans(at, end, n, len) ==
    /\ n \in Nat \ {0} /\ at \in [1..n -> Nat] /\ end \in [1..n -> Nat]
    /\ at[1] = 0 /\ end[n] = len
    /\ \A k \in 1..n : at[k] + Overlap < end[k] /\ end[k] <= len
    /\ \A k \in 1..(n - 1) : at[k + 1] <= end[k]
    /\ \A i, j \in 1..n : i < j =>
          at[i] < at[j] /\ end[i] < end[j] /\ end[i] <= at[j] + Overlap

\* CharWindows cuts a run that is too long like that.
LEMMA WindowSpans ==
    ASSUME NEW run \in Run, run.len > ChunkSize
    PROVE  \E n, at, end :
             /\ Spans(at, end, n, run.len) /\ Len(CharWindows(run)) = n
             /\ \A k \in 1..n : CharWindows(run)[k]
                  = <<[at |-> run.at + at[k], len |-> end[k] - at[k], sep |-> run.sep]>>
<1> DEFINE len == run.len
           step == ChunkSize - Overlap
           windows == {w \in 0..len : w = 0 \/ (w - 1) * step + ChunkSize < len}
           n == Cardinality(windows)
           at == [k \in 1..n |-> (k - 1) * step]
           size(start) == IF start + ChunkSize < len THEN ChunkSize ELSE len - start
           end == [k \in 1..n |-> at[k] + size(at[k])]
<1>1. /\ Overlap \in Nat /\ ChunkSize \in Nat /\ Overlap < ChunkSize /\ run.len \in Nat \ {0}
      /\ step \in Nat \ {0} /\ step + Overlap = ChunkSize
  BY Parameters DEF Run
<1>2. /\ n \in Nat \ {0}
      /\ \A k \in 1..n : (k - 1) * step \in 0..(len - 1)
      /\ \A k \in 1..(n - 1) : (k - 1) * step + ChunkSize < len
      /\ (n - 1) * step \in Nat /\ (n - 1) * step + ChunkSize >= len
  BY <1>1, WindowStarts
<1>3. CharWindows(run)
        = [k \in 1..n |-> <<[at |-> run.at + (k - 1) * step, len |-> size((k - 1) * step),
                             sep |-> run.sep]>>]
  BY DEF CharWindows
<1> HIDE DEF n, step
<1>4. /\ at \in [1..n -> Nat] /\ \A k \in 1..n : at[k] = (k - 1) * step
      /\ \A k \in 1..n : at[k] < len /\ at[k] \in Nat
  BY <1>1, <1>2
<1> HIDE DEF at
<1>5. at[1] = 0
  <2>1. 1 \in 1..n /\ 1 - 1 = 0 /\ 0 * step = 0
    BY <1>1, <1>2
  <2> QED
    BY <1>4, <2>1
<1>6. ASSUME NEW k \in 1..(n - 1) PROVE at[k] + ChunkSize < len /\ at[k + 1] = at[k] + step
  <2>1. k \in 1..n /\ k + 1 \in 1..n /\ (k + 1) - 1 = (k - 1) + 1 /\ k - 1 \in Int
    BY <1>2
  <2>2. ((k - 1) + 1) * step = (k - 1) * step + step
    BY <1>1, <2>1, Times
  <2> QED
    BY <1>2, <1>4, <2>1, <2>2
<1>7. at[n] + ChunkSize >= len
  BY <1>2, <1>4
<1>8. ASSUME NEW i \in 1..n, NEW j \in 1..n, i < j PROVE at[i] + step <= at[j]
  <2>1. i - 1 \in Int /\ (i - 1) + 1 <= j - 1 /\ (i - 1) + 1 \in Int /\ j - 1 \in Int
    BY <1>2, <1>8
  <2>2. ((i - 1) + 1) * step = (i - 1) * step + step /\ ((i - 1) + 1) * step <= (j - 1) * step
    BY <1>1, <2>1, Times
  <2> QED
    BY <1>4, <2>2
<1>9. \A k \in 1..n : end[k] = IF at[k] + ChunkSize < len THEN at[k] + ChunkSize ELSE len
  BY <1>1, <1>4
<1>10. end \in [1..n -> Nat] /\ end[n] = len /\ \A k \in 1..n : end[k] <= len /\ end[k] \in Nat
  <2>1. \A k \in 1..n : end[k] \in Nat /\ end[k] <= len
    BY <1>1, <1>4, <1>9
  <2>2. end[n] = len
    BY <1>1, <1>2, <1>4, <1>7, <1>9
  <2> QED
    BY <2>1, <2>2
<1>11. \A k \in 1..n : at[k] + size(at[k]) = end[k]
  OBVIOUS
<1>12. \A k \in 1..n : size(at[k]) = end[k] - at[k]
  BY <1>1, <1>4, <1>9
<1> HIDE DEF end, size
<1>13. \A k \in 1..(n - 1) : k \in 1..n /\ end[k] = at[k] + ChunkSize
  <2>1. \A k \in 1..(n - 1) : k \in 1..n
    BY <1>2
  <2> QED
    BY <1>6, <1>9, <2>1
<1>14. ASSUME NEW k \in 1..n PROVE at[k] + Overlap < end[k]
  <2>1. CASE k \in 1..(n - 1)
    BY <1>1, <1>4, <1>13, <2>1
  <2>2. CASE k = n /\ n = 1
    BY <1>1, <1>5, <1>10, <2>2
  <2>3. CASE k = n /\ n # 1
    <3>1. n - 1 \in 1..(n - 1) /\ (n - 1) + 1 = n /\ n - 1 \in 1..n
      BY <1>2, <2>3
    <3>2. at[n - 1] + ChunkSize < len /\ at[n] = at[n - 1] + step /\ at[n - 1] \in Nat
      BY <1>4, <1>6, <3>1
    <3> QED
      BY <1>1, <1>10, <2>3, <3>2
  <2> QED
    BY <1>2, <2>1, <2>2, <2>3
<1>15. ASSUME NEW k \in 1..(n - 1) PROVE at[k + 1] <= end[k]
  <2>1. at[k] \in Nat
    BY <1>4, <1>13
  <2> QED
    BY <1>1, <1>6, <1>13, <2>1
<1>16. ASSUME NEW i \in 1..n, NEW j \in 1..n, i < j
       PROVE  at[i] < at[j] /\ end[i] < end[j] /\ end[i] <= at[j] + Overlap
  <2>1. i \in 1..(n - 1) /\ at[i] \in Nat /\ at[j] \in Nat
    BY <1>2, <1>4, <1>16
  <2>2. at[i] + step <= at[j] /\ end[i] = at[i] + ChunkSize /\ at[i] + ChunkSize < len
    BY <1>6, <1>8, <1>13, <1>16, <2>1
  <2>3. end[j] = at[j] + ChunkSize \/ end[j] = len
    BY <1>9
  <2> QED
    BY <1>1, <2>1, <2>2, <2>3
<1>17. Spans(at, end, n, len)
  BY <1>2, <1>4, <1>5, <1>10, <1>14, <1>15, <1>16 DEF Spans
<1>18. Len(CharWindows(run)) = n
  BY <1>2, <1>3
<1>19. ASSUME NEW k \in 1..n
       PROVE  CharWindows(run)[k]
                = <<[at |-> run.at + at[k], len |-> end[k] - at[k], sep |-> run.sep]>>
  BY <1>3, <1>4, <1>12
<1> QED
  BY <1>17, <1>18, <1>19

\* An atom and a later one: it starts and ends before; they share at most the overlap,
\* and nothing if one of them is no longer than that.
Follows ==
    {pair \in Atom \X Atom :
       /\ Start(pair[1]) < Start(pair[2]) /\ End(pair[1]) < End(pair[2])
       /\ End(pair[1]) <= Start(pair[2]) + Overlap
       /\ TextLen(pair[1]) <= Overlap \/ TextLen(pair[2]) <= Overlap =>
            End(pair[1]) <= Start(pair[2])}

\* Atoms in order, with the characters of some text.
AtomsInOrder(atoms, chars) ==
    /\ atoms \in Seq(Atom) /\ Related(atoms, Follows) /\ CharsIn(atoms) = chars
    /\ \A atom \in ToSet(atoms) : Placed(atom)

\* The windows of a run are that.
LEMMA WindowsInOrder ==
    ASSUME NEW run \in Run, run.len > ChunkSize
    PROVE  /\ AtomsInOrder(CharWindows(run), CharsOfRun(run))
           /\ \A w \in ToSet(CharWindows(run)) :
                run.at <= Start(w) /\ End(w) <= run.at + run.len
<1> DEFINE list == CharWindows(run)
           len == run.len
<1>1. list \in Seq(Atom) /\ run.at \in Nat /\ len \in Nat \ {0} /\ Overlap \in Nat
  BY WindowsType, Parameters DEF Run
<1>2. PICK n, at, end :
         /\ Spans(at, end, n, len) /\ Len(list) = n
         /\ \A k \in 1..n : list[k]
              = <<[at |-> run.at + at[k], len |-> end[k] - at[k], sep |-> run.sep]>>
  BY WindowSpans
<1> HIDE DEF list
<1>3. /\ n \in Nat \ {0} /\ at[1] = 0 /\ end[n] = len
      /\ \A k \in 1..n : at[k] \in Nat /\ end[k] \in Nat
      /\ \A k \in 1..n : at[k] + Overlap < end[k] /\ end[k] <= len
      /\ \A k \in 1..(n - 1) : at[k + 1] <= end[k]
      /\ \A i, j \in 1..n : i < j =>
            at[i] < at[j] /\ end[i] < end[j] /\ end[i] <= at[j] + Overlap
  BY <1>2 DEF Spans
<1>4. ASSUME NEW k \in 1..n
      PROVE  /\ list[k] \in Atom /\ Placed(list[k])
             /\ Start(list[k]) = run.at + at[k] /\ End(list[k]) = run.at + end[k]
             /\ TextLen(list[k]) = end[k] - at[k]
             /\ CharsOf(list[k]) = (run.at + at[k])..(run.at + end[k] - 1)
  <2> DEFINE w == [at |-> run.at + at[k], len |-> end[k] - at[k], sep |-> run.sep]
  <2>1. w \in Run /\ w.at = run.at + at[k] /\ w.len = end[k] - at[k]
    BY <1>1, <1>3 DEF Run
  <2>2. list[k] = <<w>>
    BY <1>2
  <2> HIDE DEF w
  <2>3. Placed(<<w>>)
    BY DEF Placed, Related
  <2>4. Start(<<w>>) = w.at /\ End(<<w>>) = w.at + w.len
    BY DEF Start, End
  <2>5. w.at + w.len = run.at + end[k] /\ w.at + w.len - 1 = run.at + end[k] - 1
    BY <1>1, <1>3, <2>1
  <2>6. CharsOf(<<w>>) = w.at..(w.at + w.len - 1)
    <3>1. <<w>> \in Seq(Run) /\ ToSet(<<w>>) = {w}
      BY <2>1, OnlyMember
    <3> QED
      BY <3>1, CharsMembers DEF CharsOfRun
  <2> QED
    BY <1>1, <1>2, <2>1, <2>2, <2>3, <2>4, <2>5, <2>6, RunLength
<1>5. Related(list, Follows)
  <2> SUFFICES ASSUME NEW i \in 1..n, NEW j \in 1..n, i < j PROVE <<list[i], list[j]>> \in Follows
    BY <1>2 DEF Related
  <2> DEFINE s == list[i]
             t == list[j]
  <2>1. /\ at[i] < at[j] /\ end[i] < end[j] /\ end[i] <= at[j] + Overlap
        /\ at[i] + Overlap < end[i] /\ at[j] + Overlap < end[j]
        /\ at[i] \in Nat /\ at[j] \in Nat /\ end[i] \in Nat /\ end[j] \in Nat
    BY <1>3
  <2>2. /\ s \in Atom /\ t \in Atom
        /\ Start(s) = run.at + at[i] /\ End(s) = run.at + end[i] /\ TextLen(s) = end[i] - at[i]
        /\ Start(t) = run.at + at[j] /\ End(t) = run.at + end[j] /\ TextLen(t) = end[j] - at[j]
    BY <1>4
  <2> HIDE DEF s, t
  <2>3. /\ Start(s) < Start(t) /\ End(s) < End(t) /\ End(s) <= Start(t) + Overlap
        /\ ~(TextLen(s) <= Overlap) /\ ~(TextLen(t) <= Overlap)
    <3>1. run.at \in Nat /\ Overlap \in Nat
      BY <1>1, Parameters DEF Run
    <3> HIDE DEF len
    <3>2. /\ run.at + at[i] < run.at + at[j] /\ run.at + end[i] < run.at + end[j]
          /\ run.at + end[i] <= (run.at + at[j]) + Overlap
          /\ ~(end[i] - at[i] <= Overlap) /\ ~(end[j] - at[j] <= Overlap)
      BY <2>1, <3>1
    <3> QED
      BY <2>2, <3>2
  <2>4. <<s, t>> \in Follows
    BY <2>2, <2>3 DEF Follows
  <2> QED
    BY <2>4 DEF s, t
<1>6. ToSet(list) = {list[k] : k \in 1..n}
  BY <1>1, <1>2, Members DEF list
<1>7. list \in Seq(Atom) /\ list \in Seq(Text)
  <2>1. Atom \subseteq Text
    BY DEF Atom
  <2> QED
    BY <1>1, <2>1 DEF list
<1>8. \A w \in ToSet(list) : Placed(w) /\ run.at <= Start(w) /\ End(w) <= run.at + len
  <2>1. \A k \in 1..n : run.at <= run.at + at[k] /\ run.at + end[k] <= run.at + len
    BY <1>1, <1>3
  <2> QED
    BY <1>4, <1>6, <2>1
<1>9. CharsIn(list) = CharsOfRun(run)
  <2>1. CharsIn(list) = UNION {CharsOf(list[k]) : k \in 1..n}
    BY <1>6, <1>7, CharsMembers
  <2>2. \A k \in 1..n : CharsOf(list[k]) \subseteq run.at..(run.at + len - 1)
    <3>1. \A k \in 1..n : (run.at + at[k])..(run.at + end[k] - 1) \subseteq run.at..(run.at + len - 1)
      BY <1>1, <1>3, SMTT(30)
    <3> QED
      BY <1>4, <3>1
  <2> DEFINE Covered(c) == \E k \in 1..n : c \in (run.at + at[k])..(run.at + end[k] - 1)
             T == {c \in run.at..(run.at + len - 1) : Covered(c)}
  <2>3. run.at \in T
    <3>1. 1 \in 1..n /\ at[1] + Overlap < end[1]
      BY <1>3
    <3>2. run.at \in (run.at + at[1])..(run.at + end[1] - 1) /\ run.at \in run.at..(run.at + len - 1)
      BY <1>1, <1>3, <3>1
    <3> QED
      BY <3>1, <3>2
  <2>4. ASSUME NEW c \in run.at..((run.at + len - 1) - 1), c \in T PROVE c + 1 \in T
    <3>1. PICK k \in 1..n : c \in (run.at + at[k])..(run.at + end[k] - 1)
      BY <2>4
    <3>2. c + 1 \in run.at..(run.at + len - 1) /\ c \in Nat /\ c + 1 < run.at + len
      BY <1>1
    <3>3. CASE c + 1 < run.at + end[k]
      <4>1. c + 1 \in (run.at + at[k])..(run.at + end[k] - 1)
        BY <1>1, <1>3, <3>1, <3>2, <3>3, SMTT(30)
      <4> QED
        BY <3>2, <4>1
    <3>4. CASE ~(c + 1 < run.at + end[k])
      <4>1. k # n
        BY <1>1, <1>3, <3>2, <3>4
      <4>2. k \in 1..(n - 1) /\ k + 1 \in 1..n /\ k < k + 1
        BY <1>3, <4>1
      <4>3. at[k + 1] <= end[k] /\ end[k] < end[k + 1]
        BY <1>3, <4>2
      <4>4. at[k + 1] \in Nat /\ end[k + 1] \in Nat /\ end[k] \in Nat /\ at[k] \in Nat
        BY <1>3, <4>2
      <4>5. c + 1 \in (run.at + at[k + 1])..(run.at + end[k + 1] - 1)
        <5>1. run.at \in Nat /\ c <= run.at + end[k] - 1 /\ run.at + end[k] <= c + 1
          BY <1>1, <3>1, <3>2, <3>4, <4>4, SMTT(30)
        <5> DEFINE low == at[k + 1]
                   high == end[k + 1]
        <5>2. low \in Nat /\ high \in Nat /\ low <= end[k] /\ end[k] < high
          BY <4>3, <4>4
        <5> HIDE DEF low, high, len
        <5>3. c + 1 = run.at + end[k]
          BY <3>2, <4>4, <5>1
        <5>4. run.at + end[k] \in (run.at + low)..(run.at + high - 1)
          BY <4>4, <5>1, <5>2
        <5> QED
          BY <5>3, <5>4 DEF low, high
      <4> QED
        BY <3>2, <4>2, <4>5
    <3> QED
      BY <3>3, <3>4
  <2>5. \A c \in run.at..(run.at + len - 1) : c \in T
    <3>1. run.at + len - 1 \in Int /\ run.at \in Int
      BY <1>1
    <3>2. Inductive(T, run.at, run.at + len - 1)
      <4> HIDE DEF T
      <4> QED
        BY <2>3, <2>4, <3>1 DEF Inductive
    <3> HIDE DEF T
    <3> QED
      BY <3>2, FromTo
  <2>6. CharsOfRun(run) = run.at..(run.at + len - 1)
    BY DEF CharsOfRun
  <2>7. \A c \in CharsOfRun(run) : \E k \in 1..n : c \in CharsOf(list[k])
    BY <1>4, <2>5, <2>6
  <2> QED
    BY <2>1, <2>2, <2>6, <2>7
<1> QED
  BY <1>5, <1>7, <1>8, <1>9 DEF AtomsInOrder, list

\* The atoms of a text in order are in order, with all its characters.
LEMMA AtomizeInOrder ==
    ASSUME NEW text \in Seq(Run), Placed(text)
    PROVE  AtomsInOrder(Atomize(text), CharsOf(text))
<1> DEFINE texts == Divided(text)
           n == Len(texts)
           atoms == Atomize(text)
<1>1. /\ texts \in Seq(Text) /\ Related(texts, TextsApart) /\ RunsIn(texts) = ToSet(text)
      /\ \A t \in ToSet(texts) :
           Placed(t) /\ (TextLen(t) <= ChunkSize \/ \E run \in Run : t = <<run>>)
  BY LastLevel
<1>2. PICK parts \in Seq(Seq(Atom)) :
         /\ atoms = FlattenSeq(parts) /\ Len(parts) = n
         /\ \A i \in 1..n : parts[i] = AtomsOf(texts[i])
  BY AtomizeMembers
<1>3. \A x : x \in ToSet(atoms) <=> \E t \in ToSet(texts) : x \in ToSet(AtomsOf(t))
  BY AtomizeMembers
<1>4. atoms \in Seq(Atom) /\ n \in Nat
  BY <1>1, AtomizeType
<1>5. /\ ToSet(texts) = {texts[i] : i \in 1..n} /\ ToSet(texts) \subseteq Text
      /\ Text \subseteq Seq(Run) /\ Atom \subseteq Text /\ Seq(Atom) \subseteq Seq(Text)
  BY <1>1, Members DEF Text, Atom
<1> HIDE DEF texts, n, atoms
<1>6. ASSUME NEW t \in ToSet(texts)
      PROVE  /\ AtomsInOrder(AtomsOf(t), CharsOf(t))
             /\ \A a \in ToSet(AtomsOf(t)) : Start(t) <= Start(a) /\ End(a) <= End(t)
  <2>1. t \in Text /\ Placed(t)
    BY <1>1, <1>5
  <2>2. CASE TextLen(t) <= ChunkSize
    <3>1. AtomsOf(t) = <<t>> /\ t \in Atom /\ ToSet(<<t>>) = {t}
      BY <2>1, <2>2, OnlyMember DEF AtomsOf, Atom
    <3>2. <<t>> \in Seq(Atom) /\ <<t>> \in Seq(Text)
      BY <2>1, <3>1
    <3>3. Related(<<t>>, Follows)
      BY DEF Related
    <3>4. CharsIn(<<t>>) = CharsOf(t)
      BY <3>1, <3>2, CharInAtoms
    <3>5. Start(t) <= Start(t) /\ End(t) <= End(t)
      BY <2>1, Extent
    <3> QED
      BY <2>1, <3>1, <3>2, <3>3, <3>4, <3>5 DEF AtomsInOrder
  <2>3. CASE ~(TextLen(t) <= ChunkSize)
    <3>1. PICK run \in Run : t = <<run>>
      BY <1>1, <2>3
    <3>2. AtomsOf(t) = CharWindows(run) /\ Start(t) = run.at /\ End(t) = run.at + run.len
      BY <2>3, <3>1 DEF AtomsOf, Start, End
    <3>3. run.len > ChunkSize
      <4>1. TextLen(t) = run.len
        BY <3>1, RunLength
      <4> QED
        BY <2>3, <4>1, Parameters DEF Run
    <3>4. CharsOf(t) = CharsOfRun(run)
      <4>1. <<run>> \in Seq(Run) /\ ToSet(<<run>>) = {run}
        BY OnlyMember
      <4> QED
        BY <3>1, <4>1, CharsMembers, ZenonT(30)
    <3> QED
      BY <3>2, <3>3, <3>4, WindowsInOrder
  <2> QED
    BY <2>2, <2>3
<1>7. \A t \in ToSet(texts) :
         /\ AtomsOf(t) \in Seq(Atom) /\ Related(AtomsOf(t), Follows)
         /\ CharsIn(AtomsOf(t)) = CharsOf(t) /\ \A a \in ToSet(AtomsOf(t)) : Placed(a)
         /\ ToSet(AtomsOf(t)) \subseteq Atom
  BY <1>6, Members DEF AtomsInOrder
<1>8. \A a \in ToSet(atoms) : Placed(a)
  BY <1>3, <1>7
<1>9. CharsIn(atoms) = CharsOf(text)
  <2>1. CharsIn(atoms) = UNION {CharsOf(a) : a \in ToSet(atoms)}
    BY <1>4, <1>5, CharsMembers
  <2>2. \A t \in ToSet(texts) : CharsOf(t) = UNION {CharsOf(a) : a \in ToSet(AtomsOf(t))}
    <3>1. \A t \in ToSet(texts) : AtomsOf(t) \in Seq(Text)
      BY <1>5, <1>7
    <3> QED
      BY <1>7, <3>1, CharsMembers
  <2>3. \A t \in ToSet(texts) : CharsOf(t) = UNION {CharsOfRun(x) : x \in ToSet(t)}
    BY <1>5, CharsMembers
  <2>4. CharsOf(text) = UNION {CharsOfRun(x) : x \in ToSet(text)}
    BY CharsMembers
  <2>5. ASSUME NEW c PROVE c \in CharsIn(atoms) <=> \E t \in ToSet(texts) : c \in CharsOf(t)
    BY <1>3, <2>1, <2>2
  <2>6. ASSUME NEW c PROVE c \in CharsOf(text) <=> \E t \in ToSet(texts) : c \in CharsOf(t)
    BY <1>1, <2>3, <2>4 DEF RunsIn
  <2> QED
    BY <2>5, <2>6
<1>10. Related(atoms, Follows)
  <2>1. \A i \in 1..n : Related(parts[i], Follows)
    BY <1>2, <1>5, <1>7
  <2>2. ASSUME NEW i \in 1..n, NEW j \in 1..n, i < j PROVE Across(parts[i], parts[j], Follows)
    <3> SUFFICES ASSUME NEW a \in ToSet(parts[i]), NEW b \in ToSet(parts[j])
                 PROVE  <<a, b>> \in Follows
      BY DEF Across
    <3> DEFINE s == texts[i]
               t == texts[j]
    <3>1. s \in ToSet(texts) /\ t \in ToSet(texts) /\ parts[i] = AtomsOf(s) /\ parts[j] = AtomsOf(t)
      BY <1>2, <1>5
    <3>2. <<s, t>> \in TextsApart
      BY <1>1, <2>2 DEF Related, n
    <3> HIDE DEF s, t
    <3>3. s \in Text /\ t \in Text /\ Placed(s) /\ Placed(t)
      BY <1>1, <1>5, <3>1
    <3>4. End(s) <= Start(t)
      <4>1. s \in Seq(Run) /\ t \in Seq(Run) /\ Len(s) \in 1..Len(s) /\ 1 \in 1..Len(t)
        BY <3>3 DEF Text
      <4>2. s[Len(s)] \in ToSet(s) /\ t[1] \in ToSet(t)
        BY <4>1, Members
      <4>3. <<s[Len(s)], t[1]>> \in Behind
        BY <3>2, <4>2 DEF TextsApart, Across
      <4> QED
        BY <4>3 DEF Behind, Start, End
    <3>5. a \in Atom /\ b \in Atom /\ Placed(a) /\ Placed(b)
      BY <1>7, <3>1
    <3>6. Start(s) <= Start(a) /\ End(a) <= End(s) /\ Start(t) <= Start(b) /\ End(b) <= End(t)
      BY <1>6, <3>1
    <3>7. /\ Start(a) \in Nat /\ End(a) \in Nat /\ Start(a) < End(a)
          /\ Start(b) \in Nat /\ End(b) \in Nat /\ Start(b) < End(b)
          /\ End(s) \in Nat /\ Start(t) \in Nat
      BY <1>5, <3>3, <3>5, Extent
    <3>8. End(a) <= Start(b)
      BY <3>4, <3>6, <3>7
    <3>9. Start(a) < Start(b) /\ End(a) < End(b) /\ End(a) <= Start(b) + Overlap
      BY <3>7, <3>8, Parameters
    <3> QED
      BY <3>5, <3>8, <3>9 DEF Follows
  <2>3. Related(FlattenSeq(parts), Follows)
    BY <1>2, <2>1, <2>2, FlattenRelated
  <2> QED
    BY <1>2, <2>3
<1> QED
  BY <1>4, <1>8, <1>9, <1>10 DEF AtomsInOrder, atoms

\* Later stretches begin and end behind earlier ones.
LEMMA Rising ==
    ASSUME NEW list, NEW atoms, NEW n \in Nat, NEW from, NEW to,
           Stretches(list, atoms, n, from, to), NEW m, m = Len(list)
    PROVE  \A i, j \in 1..m : i < j => from[i] < from[j] /\ to[i] < to[j] /\ i + 1 \in 1..m
                                         /\ from[i + 1] <= from[j]
<1>1. /\ m \in Nat \ {0} /\ from \in [1..m -> 1..n] /\ to \in [1..m -> 1..n]
      /\ \A i \in 1..(m - 1) : from[i] < from[i + 1] /\ to[i] < to[i + 1]
  BY DEF Stretches
<1>2. \A i \in 1..m : from[i] \in Nat /\ to[i] \in Nat
  BY <1>1
<1> SUFFICES ASSUME NEW i \in 1..m, NEW j \in 1..m, i < j
             PROVE  from[i] < from[j] /\ to[i] < to[j] /\ i + 1 \in 1..m /\ from[i + 1] <= from[j]
  OBVIOUS
<1> DEFINE T == {k \in (i + 1)..m : from[i] < from[k] /\ to[i] < to[k] /\ from[i + 1] <= from[k]}
<1>3. i + 1 \in 1..m /\ i \in 1..(m - 1) /\ i + 1 \in (i + 1)..m /\ j \in (i + 1)..m
  BY <1>1
<1>4. i + 1 \in T
  BY <1>1, <1>2, <1>3
<1>5. ASSUME NEW k \in (i + 1)..(m - 1), k \in T PROVE k + 1 \in T
  <2>1. k \in 1..(m - 1) /\ k \in 1..m /\ k + 1 \in 1..m /\ k + 1 \in (i + 1)..m
    BY <1>1
  <2>2. from[k] < from[k + 1] /\ to[k] < to[k + 1]
    BY <1>1, <2>1
  <2> QED
    BY <1>2, <1>3, <1>5, <2>1, <2>2
<1>6. j \in T
  <2>1. Inductive(T, i + 1, m)
    <3> HIDE DEF T
    <3> QED
      BY <1>1, <1>4, <1>5 DEF Inductive
  <2> HIDE DEF T
  <2> QED
    BY <1>3, <2>1, FromTo
<1> QED
  BY <1>3, <1>6

-----------------------------------------------------------------------------
(* How many characters two chunks share *)

\* A text has no more characters than its length.
LEMMA CharsCount ==
    ASSUME NEW text \in Seq(Run)
    PROVE  IsFiniteSet(CharsOf(text)) /\ Cardinality(CharsOf(text)) <= TextLen(text)
<1> DEFINE Sum(t) == Total(Weighed(Weight, t))
           Counted(t) == /\ IsFiniteSet(CharsOf(t)) /\ Cardinality(CharsOf(t)) <= TextLen(t)
                         /\ Cardinality(CharsOf(t)) <= Sum(t)
           P == {t \in Seq(Run) : Counted(t)}
<1>1. <<>> \in P
  <2>1. <<>> \in Seq(Run) /\ CharsOf(<<>>) = {}
    BY DEF CharsOf
  <2>2. TextLen(<<>>) \in Nat /\ Sum(<<>>) \in Nat
    <3>1. Weighed(Weight, <<>>) = <<>>
      BY DEF Weighed
    <3>2. Sum(<<>>) \in Nat
      BY <3>1, TotalEmpty
    <3>3. TextLen(<<>>) \in Nat
      BY <2>1, TextLenType
    <3> QED
      BY <3>2, <3>3
  <2>3. IsFiniteSet({}) /\ Cardinality({}) = 0
    BY FS_EmptySet
  <2>4. IsFiniteSet(CharsOf(<<>>)) /\ Cardinality(CharsOf(<<>>)) = 0
    BY <2>1, <2>3, Zenon
  <2> HIDE DEF Sum
  <2> QED
    BY <2>1, <2>2, <2>4
<1>2. ASSUME NEW t \in Seq(Run), NEW run \in Run, t \in P PROVE Append(t, run) \in P
  <2>1. Append(t, run) \in Seq(Run) /\ ToSet(Append(t, run)) = ToSet(t) \cup {run}
    BY Members
  <2>2. CharsOf(Append(t, run)) = CharsOf(t) \cup CharsOfRun(run)
    BY CharsAppend
  <2>3. run.at \in Nat /\ run.len \in Nat \ {0} /\ run.sep \in {"paragraph", "sentence", "line"}
    BY DEF Run
  <2>4. IsFiniteSet(CharsOfRun(run)) /\ Cardinality(CharsOfRun(run)) = run.len
    <3>1. run.at \in Int /\ run.at + run.len - 1 \in Int /\ ~(run.at > run.at + run.len - 1)
          /\ (run.at + run.len - 1) - run.at + 1 = run.len
      BY <2>3
    <3> QED
      BY <3>1, FS_Interval DEF CharsOfRun
  <2>5. Sum(t) \in Nat /\ Sum(Append(t, run)) = Sum(t) + Weight[run]
        /\ TextLen(Append(t, run)) = Sum(t) + run.len
    <3>1. Weight \in [Run -> Nat]
      <4>1. \A r \in Run : r.len + SepLen(r.sep) \in Nat
        BY DEF Run, SepLen
      <4> QED
        BY <4>1 DEF Weight
    <3> QED
      BY <3>1, TotalWeighed, TextLenAppend
  <2>6. Weight[run] >= run.len /\ Weight[run] \in Nat
    BY <2>3 DEF Weight, SepLen
  <2>7. IsFiniteSet(CharsOf(t)) /\ Cardinality(CharsOf(t)) <= Sum(t)
    BY <1>2
  <2> HIDE DEF Sum
  <2>8. IsFiniteSet(CharsOf(t) \cup CharsOfRun(run))
        /\ Cardinality(CharsOf(t) \cup CharsOfRun(run))
             <= Cardinality(CharsOf(t)) + Cardinality(CharsOfRun(run))
    <3>1. /\ IsFiniteSet(CharsOf(t) \cup CharsOfRun(run))
          /\ IsFiniteSet(CharsOf(t) \cap CharsOfRun(run))
          /\ Cardinality(CharsOf(t) \cup CharsOfRun(run))
               = Cardinality(CharsOf(t)) + Cardinality(CharsOfRun(run))
                   - Cardinality(CharsOf(t) \cap CharsOfRun(run))
      BY <2>4, <2>7, FS_Union, FS_Intersection
    <3>2. Cardinality(CharsOf(t) \cap CharsOfRun(run)) \in Nat
          /\ Cardinality(CharsOf(t)) \in Nat /\ Cardinality(CharsOfRun(run)) \in Nat
      BY <2>4, <2>7, <3>1, FS_CardinalityType
    <3> QED
      BY <3>1, <3>2
  <2>9. Cardinality(CharsOf(Append(t, run))) \in Nat /\ Cardinality(CharsOf(t)) \in Nat
    BY <2>2, <2>7, <2>8, FS_CardinalityType
  <2>10. Cardinality(CharsOf(Append(t, run))) <= Sum(t) + run.len
    BY <2>2, <2>3, <2>4, <2>5, <2>7, <2>8, <2>9
  <2>11. Cardinality(CharsOf(Append(t, run))) <= Sum(Append(t, run))
    BY <2>3, <2>5, <2>6, <2>9, <2>10
  <2> QED
    BY <2>1, <2>2, <2>5, <2>8, <2>10, <2>11
<1>3. text \in P
  <2> HIDE DEF P
  <2> QED
    BY <1>1, <1>2, BuiltUp
<1> QED
  BY <1>3

\* Nor atoms than theirs when joined; and none of them is longer than that.
LEMMA JoinedCount ==
    ASSUME NEW atoms \in Seq(Atom)
    PROVE  /\ IsFiniteSet(CharsIn(atoms)) /\ Cardinality(CharsIn(atoms)) <= JoinedLen(atoms)
           /\ \A a \in ToSet(atoms) : TextLen(a) <= JoinedLen(atoms)
<1> DEFINE Counted(s) ==
             /\ IsFiniteSet(CharsIn(s)) /\ Cardinality(CharsIn(s)) <= JoinedLen(s)
             /\ \A a \in ToSet(s) : TextLen(a) <= JoinedLen(s)
           P == {s \in Seq(Atom) : Counted(s)}
<1>1. <<>> \in P
  <2>1. <<>> \in Seq(Atom) /\ CharsIn(<<>>) = {} /\ ToSet(<<>>) = {} /\ JoinedLen(<<>>) = 0
    BY DEF CharsIn, ToSet, JoinedLen
  <2>2. IsFiniteSet({}) /\ Cardinality({}) = 0
    BY FS_EmptySet
  <2>3. IsFiniteSet(CharsIn(<<>>)) /\ Cardinality(CharsIn(<<>>)) = 0
    BY <2>1, <2>2, Zenon
  <2> QED
    BY <2>1, <2>3
<1>2. ASSUME NEW s \in Seq(Atom), NEW atom \in Atom, s \in P PROVE Append(s, atom) \in P
  <2>1. Append(s, atom) \in Seq(Atom) /\ ToSet(Append(s, atom)) = ToSet(s) \cup {atom}
        /\ ToSet(s) \subseteq Atom
    BY Members
  <2>2. s \in Seq(Text) /\ Append(s, atom) \in Seq(Text) /\ atom \in Seq(Run)
    BY <2>1 DEF Atom, Text
  <2>3. CharsIn(Append(s, atom)) = CharsIn(s) \cup CharsOf(atom)
    <3> DEFINE longer == Append(s, atom)
    <3> HIDE DEF longer
    <3>1. \A c : c \in CharsIn(longer) <=> \E x \in ToSet(longer) : c \in CharsOf(x)
      BY <2>2, CharInAtoms DEF longer
    <3>2. \A c : c \in CharsIn(s) <=> \E x \in ToSet(s) : c \in CharsOf(x)
      BY <2>2, CharInAtoms
    <3>3. ToSet(longer) = ToSet(s) \cup {atom}
      BY <2>1 DEF longer
    <3>4. CharsIn(longer) = CharsIn(s) \cup CharsOf(atom)
      BY <3>1, <3>2, <3>3
    <3> QED
      BY <3>4 DEF longer
  <2>4. /\ JoinedLen(s) \in Nat /\ TextLen(atom) \in Nat
        /\ JoinedLen(Append(s, atom)) = IF s = <<>> THEN TextLen(atom)
                                        ELSE JoinedLen(s) + 2 + TextLen(atom)
        /\ s = <<>> => JoinedLen(s) = 0
    BY JoinedLenAppend DEF JoinedLen
  <2>5. IsFiniteSet(CharsOf(atom)) /\ Cardinality(CharsOf(atom)) <= TextLen(atom)
    BY <2>2, CharsCount
  <2>6. /\ IsFiniteSet(CharsIn(s)) /\ Cardinality(CharsIn(s)) <= JoinedLen(s)
        /\ \A a \in ToSet(s) : TextLen(a) <= JoinedLen(s)
    BY <1>2
  <2>7. /\ IsFiniteSet(CharsIn(s) \cup CharsOf(atom))
        /\ Cardinality(CharsIn(s) \cup CharsOf(atom))
             <= Cardinality(CharsIn(s)) + Cardinality(CharsOf(atom))
        /\ Cardinality(CharsIn(s) \cup CharsOf(atom)) \in Nat
        /\ Cardinality(CharsIn(s)) \in Nat /\ Cardinality(CharsOf(atom)) \in Nat
    <3>1. /\ IsFiniteSet(CharsIn(s) \cup CharsOf(atom)) /\ IsFiniteSet(CharsIn(s) \cap CharsOf(atom))
          /\ Cardinality(CharsIn(s) \cup CharsOf(atom))
               = Cardinality(CharsIn(s)) + Cardinality(CharsOf(atom))
                   - Cardinality(CharsIn(s) \cap CharsOf(atom))
      BY <2>5, <2>6, FS_Union, FS_Intersection
    <3>2. /\ Cardinality(CharsIn(s) \cap CharsOf(atom)) \in Nat
          /\ Cardinality(CharsIn(s) \cup CharsOf(atom)) \in Nat
          /\ Cardinality(CharsIn(s)) \in Nat /\ Cardinality(CharsOf(atom)) \in Nat
      BY <2>5, <2>6, <3>1, FS_CardinalityType
    <3> QED
      BY <3>1, <3>2
  <2>8. JoinedLen(Append(s, atom)) >= JoinedLen(s) + TextLen(atom)
        /\ JoinedLen(Append(s, atom)) \in Nat
    BY <2>4
  <2>9. Cardinality(CharsIn(Append(s, atom))) <= JoinedLen(Append(s, atom))
    BY <2>3, <2>4, <2>5, <2>6, <2>7, <2>8
  <2>10. \A a \in ToSet(Append(s, atom)) : TextLen(a) <= JoinedLen(Append(s, atom))
    <3>1. \A a \in ToSet(s) : TextLen(a) \in Nat
      BY <2>1, TextLenType DEF Atom, Text
    <3>2. \A a \in ToSet(s) : TextLen(a) <= JoinedLen(Append(s, atom))
      BY <2>4, <2>6, <2>8, <3>1
    <3>3. TextLen(atom) <= JoinedLen(Append(s, atom))
      BY <2>4, <2>8
    <3> QED
      BY <2>1, <3>2, <3>3
  <2> QED
    BY <2>1, <2>3, <2>7, <2>9, <2>10
<1>3. atoms \in P
  <2> HIDE DEF P
  <2> QED
    BY <1>1, <1>2, BuiltUp
<1> QED
  BY <1>3

\* Atoms in order: each is one, its characters are from its start to its end, and of
\* two the later starts and ends behind.
LEMMA InOrderAtoms ==
    ASSUME NEW atoms, NEW chars, AtomsInOrder(atoms, chars), NEW n, n = Len(atoms)
    PROVE  /\ atoms \in Seq(Atom) /\ n \in Nat
           /\ \A k \in 1..n :
                /\ atoms[k] \in Atom /\ atoms[k] \in Text /\ Placed(atoms[k])
                /\ Start(atoms[k]) \in Nat /\ End(atoms[k]) \in Nat
                /\ Start(atoms[k]) < End(atoms[k])
                /\ CharsOf(atoms[k]) \subseteq Start(atoms[k])..(End(atoms[k]) - 1)
                /\ Start(atoms[k]) \in CharsOf(atoms[k])
                /\ End(atoms[k]) - 1 \in CharsOf(atoms[k])
           /\ \A j, k \in 1..n : j < k =>
                /\ Start(atoms[j]) < Start(atoms[k]) /\ End(atoms[j]) < End(atoms[k])
                /\ End(atoms[j]) <= Start(atoms[k]) + Overlap
                /\ TextLen(atoms[j]) <= Overlap \/ TextLen(atoms[k]) <= Overlap =>
                     End(atoms[j]) <= Start(atoms[k])
<1>1. /\ atoms \in Seq(Atom) /\ n \in Nat /\ ToSet(atoms) = {atoms[k] : k \in 1..n}
      /\ \A j, k \in 1..n : j < k => <<atoms[j], atoms[k]>> \in Follows
      /\ \A a \in ToSet(atoms) : Placed(a)
  BY Members DEF AtomsInOrder, Related
<1>2. \A k \in 1..n : atoms[k] \in Atom /\ atoms[k] \in Text /\ Placed(atoms[k])
  BY <1>1 DEF Atom
<1>3. \A j, k \in 1..n : j < k =>
         /\ Start(atoms[j]) < Start(atoms[k]) /\ End(atoms[j]) < End(atoms[k])
         /\ End(atoms[j]) <= Start(atoms[k]) + Overlap
         /\ TextLen(atoms[j]) <= Overlap \/ TextLen(atoms[k]) <= Overlap =>
              End(atoms[j]) <= Start(atoms[k])
  BY <1>1 DEF Follows
<1> QED
  BY <1>1, <1>2, <1>3, Extent

\* A stretch of them has the characters from the start of its first atom to the end
\* of its last, or some of them.
LEMMA StretchExtent ==
    ASSUME NEW atoms, NEW chars, AtomsInOrder(atoms, chars), NEW n, n = Len(atoms),
           NEW a \in 1..n, NEW b \in a..n, NEW part, IsStretch(part, atoms, a, b)
    PROVE  /\ \A c : c \in CharsIn(part) <=> \E k \in a..b : c \in CharsOf(atoms[k])
           /\ CharsIn(part) \subseteq Start(atoms[a])..(End(atoms[b]) - 1)
           /\ Start(atoms[a]) \in CharsIn(part) /\ End(atoms[b]) - 1 \in CharsIn(part)
           /\ part \in Seq(Atom) /\ \A k \in a..b : atoms[k] \in ToSet(part)
<1>1. /\ atoms \in Seq(Atom) /\ n \in Nat
      /\ \A k \in 1..n :
           /\ Start(atoms[k]) \in Nat /\ End(atoms[k]) \in Nat
           /\ CharsOf(atoms[k]) \subseteq Start(atoms[k])..(End(atoms[k]) - 1)
           /\ Start(atoms[k]) \in CharsOf(atoms[k])
           /\ End(atoms[k]) - 1 \in CharsOf(atoms[k])
      /\ \A j, k \in 1..n : j < k =>
           Start(atoms[j]) < Start(atoms[k]) /\ End(atoms[j]) < End(atoms[k])
  BY InOrderAtoms
<1>2. part \in Seq(Atom) /\ \A x : x \in ToSet(part) <=> \E k \in a..b : x = atoms[k]
  <2>1. a \in 1..Len(atoms) /\ b \in a..Len(atoms)
    OBVIOUS
  <2>2. atoms \in Seq(Atom)
    BY <1>1
  <2> QED
    BY <2>1, <2>2, StretchMembers
<1>3. part \in Seq(Text)
  <2>1. Atom \subseteq Text
    BY DEF Atom
  <2> QED
    BY <1>2, <2>1
<1>4. \A c : c \in CharsIn(part) <=> \E x \in ToSet(part) : c \in CharsOf(x)
  BY <1>3, CharInAtoms
<1>5. \A c : c \in CharsIn(part) <=> \E k \in a..b : c \in CharsOf(atoms[k])
  BY <1>2, <1>4
<1>6. a \in 1..n /\ b \in 1..n /\ a \in a..b /\ b \in a..b /\ \A k \in a..b : k \in 1..n
  BY <1>1
<1>7. ASSUME NEW k \in a..b
      PROVE  CharsOf(atoms[k]) \subseteq Start(atoms[a])..(End(atoms[b]) - 1)
  <2>1. Start(atoms[a]) <= Start(atoms[k]) /\ End(atoms[k]) <= End(atoms[b])
    <3>1. (k = a \/ a < k) /\ (k = b \/ k < b)
      BY <1>6
    <3> QED
      BY <1>1, <1>6, <3>1
  <2>2. Start(atoms[k])..(End(atoms[k]) - 1) \subseteq Start(atoms[a])..(End(atoms[b]) - 1)
    BY <1>1, <1>6, <2>1
  <2> QED
    BY <1>1, <1>6, <2>2
<1> QED
  BY <1>1, <1>2, <1>5, <1>6, <1>7

\* Two stretches share no more characters than the overlap: none, or those of the
\* atoms carried over, or those of windows that overlap.
LEMMA StretchesShare ==
    ASSUME NEW atoms, NEW chars, AtomsInOrder(atoms, chars), NEW n, n = Len(atoms),
           NEW list, NEW from, NEW to, Stretches(list, atoms, n, from, to),
           NEW m, m = Len(list), NEW i \in 1..m, NEW j \in 1..m, i < j
    PROVE  Cardinality(CharsIn(list[i]) \cap CharsIn(list[j])) <= Overlap
<1> DEFINE shared == CharsIn(list[i]) \cap CharsIn(list[j])
           a == from[i + 1]
           b == to[i]
<1>1. /\ atoms \in Seq(Atom) /\ n \in Nat /\ Overlap \in Nat
      /\ \A k \in 1..n :
           /\ Start(atoms[k]) \in Nat /\ End(atoms[k]) \in Nat
           /\ Start(atoms[k]) < End(atoms[k])
           /\ CharsOf(atoms[k]) \subseteq Start(atoms[k])..(End(atoms[k]) - 1)
      /\ \A p, q \in 1..n : p < q =>
           /\ Start(atoms[p]) < Start(atoms[q]) /\ End(atoms[p]) < End(atoms[q])
           /\ End(atoms[p]) <= Start(atoms[q]) + Overlap
           /\ TextLen(atoms[p]) <= Overlap \/ TextLen(atoms[q]) <= Overlap =>
                End(atoms[p]) <= Start(atoms[q])
  BY InOrderAtoms, Parameters
<1>2. /\ m \in Nat \ {0} /\ from \in [1..m -> 1..n] /\ to \in [1..m -> 1..n]
      /\ \A k \in 1..m : from[k] <= to[k] /\ list[k] = SubSeq(atoms, from[k], to[k])
      /\ \A k \in 1..(m - 1) : JoinedLen(SubSeq(atoms, from[k + 1], to[k])) <= Overlap
  BY DEF Stretches
<1>3. from[i] < from[j] /\ to[i] < to[j] /\ i + 1 \in 1..m /\ from[i + 1] <= from[j]
  BY <1>1, Rising
<1>4. /\ from[i] \in 1..n /\ b \in 1..n /\ a \in 1..n /\ from[j] \in 1..n /\ to[j] \in 1..n
      /\ i \in 1..(m - 1) /\ b \in from[i]..n /\ to[j] \in from[j]..n
      /\ JoinedLen(SubSeq(atoms, a, b)) <= Overlap /\ a <= from[j]
  <2>1. i \in 1..(m - 1)
    BY <1>2, <1>3
  <2>2. \A k \in 1..m : from[k] \in 1..n /\ to[k] \in 1..n /\ to[k] \in from[k]..n
    BY <1>2
  <2>3. from[i] \in 1..n /\ b \in 1..n /\ b \in from[i]..n
    BY <2>2
  <2>4. from[j] \in 1..n /\ to[j] \in 1..n /\ to[j] \in from[j]..n
    BY <2>2
  <2>5. a \in 1..n
    BY <1>3, <2>2
  <2>6. JoinedLen(SubSeq(atoms, a, b)) <= Overlap
    BY <1>2, <2>1
  <2> QED
    BY <1>3, <2>1, <2>3, <2>4, <2>5, <2>6
<1>5. \A c : c \in CharsIn(list[i]) <=> \E k \in from[i]..b : c \in CharsOf(atoms[k])
  <2> DEFINE part == list[i]
             first == from[i]
             last == to[i]
  <2>1. IsStretch(part, atoms, first, last) /\ first \in 1..n /\ last \in first..n
    BY <1>2, <1>4 DEF IsStretch
  <2> HIDE DEF part, first, last
  <2>2. \A c : c \in CharsIn(part) <=> \E k \in first..last : c \in CharsOf(atoms[k])
    BY <2>1, StretchExtent, SMTT(60)
  <2> QED
    BY <2>2 DEF part, first, last
<1>6. \A c : c \in CharsIn(list[j]) <=> \E k \in from[j]..to[j] : c \in CharsOf(atoms[k])
  <2> DEFINE part == list[j]
             first == from[j]
             last == to[j]
  <2>1. IsStretch(part, atoms, first, last) /\ first \in 1..n /\ last \in first..n
    BY <1>2, <1>4 DEF IsStretch
  <2> HIDE DEF part, first, last
  <2>2. \A c : c \in CharsIn(part) <=> \E k \in first..last : c \in CharsOf(atoms[k])
    BY <2>1, StretchExtent, SMTT(60)
  <2> QED
    BY <2>2 DEF part, first, last
<1> HIDE DEF a, b
<1>7. ASSUME NEW c \in shared
      PROVE  \E p \in from[i]..b, q \in from[j]..to[j] :
               /\ p \in 1..n /\ q \in 1..n /\ c \in CharsOf(atoms[p]) /\ c \in CharsOf(atoms[q])
               /\ Start(atoms[p]) <= c /\ c < End(atoms[p])
               /\ Start(atoms[q]) <= c /\ c < End(atoms[q])
  <2>1. PICK p \in from[i]..b, q \in from[j]..to[j] :
           c \in CharsOf(atoms[p]) /\ c \in CharsOf(atoms[q])
    BY <1>5, <1>6
  <2>2. p \in 1..n /\ q \in 1..n
    BY <1>4
  <2>3. /\ c \in Start(atoms[p])..(End(atoms[p]) - 1) /\ c \in Start(atoms[q])..(End(atoms[q]) - 1)
        /\ Start(atoms[p]) \in Nat /\ End(atoms[p]) \in Nat
        /\ Start(atoms[q]) \in Nat /\ End(atoms[q]) \in Nat
    BY <1>1, <2>1, <2>2
  <2>4. Start(atoms[p]) <= c /\ c < End(atoms[p]) /\ Start(atoms[q]) <= c /\ c < End(atoms[q])
    BY <2>3
  <2> QED
    BY <2>1, <2>2, <2>4
<1>8. shared \subseteq Nat
  <2>1. \A c \in shared : \E p \in 1..n : c \in Start(atoms[p])..(End(atoms[p]) - 1)
    BY <1>1, <1>7
  <2>2. \A p \in 1..n : Start(atoms[p])..(End(atoms[p]) - 1) \subseteq Nat
    BY <1>1
  <2> QED
    BY <2>1, <2>2
<1> HIDE DEF shared
<1>9. CASE b < a
  <2> DEFINE lo == Start(atoms[from[j]])
             hi == End(atoms[b])
  <2>1. lo \in Nat /\ hi \in Nat /\ hi <= lo + Overlap
    <3>1. b < from[j] /\ b \in 1..n /\ from[j] \in 1..n
      BY <1>4, <1>9
    <3> QED
      BY <1>1, <3>1
  <2>2. ASSUME NEW c \in shared PROVE c \in lo..(hi - 1)
    <3>1. PICK p \in from[i]..b, q \in from[j]..to[j] :
             p \in 1..n /\ q \in 1..n /\ c < End(atoms[p]) /\ Start(atoms[q]) <= c
      BY <1>7
    <3>2. (p = b \/ p < b) /\ (q = from[j] \/ from[j] < q)
      BY <1>4
    <3>3. End(atoms[p]) <= hi /\ lo <= Start(atoms[q])
      <4>1. End(atoms[p]) <= End(atoms[b])
        <5>1. b \in 1..n /\ p \in 1..n
          BY <1>4, <3>1
        <5> QED
          BY <1>1, <3>2, <5>1
      <4>2. Start(atoms[from[j]]) <= Start(atoms[q])
        <5> DEFINE first == from[j]
        <5>1. first \in 1..n /\ q \in 1..n /\ (q = first \/ first < q)
          BY <1>4, <3>1, <3>2
        <5> HIDE DEF first
        <5>2. Start(atoms[first]) <= Start(atoms[q])
          BY <1>1, <5>1
        <5> QED
          BY <5>2 DEF first
      <4> QED
        BY <4>1, <4>2
    <3>4. End(atoms[p]) \in Nat /\ Start(atoms[q]) \in Nat /\ c \in Nat
      BY <1>1, <1>8, <3>1
    <3> HIDE DEF lo, hi
    <3> QED
      BY <2>1, <3>1, <3>3, <3>4
  <2> HIDE DEF lo, hi
  <2>3. IsFiniteSet(lo..(hi - 1)) /\ Cardinality(lo..(hi - 1)) <= Overlap
    <3>1. lo \in Int /\ hi - 1 \in Int
      BY <2>1
    <3>2. IsFiniteSet(lo..(hi - 1))
          /\ Cardinality(lo..(hi - 1)) = IF lo > hi - 1 THEN 0 ELSE (hi - 1) - lo + 1
      BY <3>1, FS_Interval
    <3> QED
      BY <1>1, <2>1, <3>2
  <2>4. IsFiniteSet(shared) /\ Cardinality(shared) <= Cardinality(lo..(hi - 1))
    BY <2>2, <2>3, FS_Subset
  <2>5. Cardinality(shared) \in Nat /\ Cardinality(lo..(hi - 1)) \in Nat
    BY <2>3, <2>4, FS_CardinalityType
  <2>6. Cardinality(shared) <= Overlap
    BY <1>1, <2>3, <2>4, <2>5
  <2> QED
    BY <2>6 DEF shared
<1>10. CASE a <= b
  <2> DEFINE tail == SubSeq(atoms, a, b)
  <2>1. b \in a..n
    BY <1>4, <1>10
  <2>2. /\ tail \in Seq(Atom) /\ \A k \in a..b : atoms[k] \in ToSet(tail)
        /\ \A c : c \in CharsIn(tail) <=> \E k \in a..b : c \in CharsOf(atoms[k])
    <3>1. a \in 1..n /\ IsStretch(tail, atoms, a, b)
      BY <1>4 DEF IsStretch
    <3> HIDE DEF tail
    <3> QED
      BY <2>1, <3>1, StretchExtent, SMTT(60)
  <2>3. JoinedLen(tail) <= Overlap /\ JoinedLen(tail) \in Nat
    <3>1. JoinedLen(tail) \in Nat
      BY <2>2, JoinedLenType
    <3> QED
      BY <1>4, <3>1 DEF a, b
  <2> HIDE DEF tail
  <2>4. /\ IsFiniteSet(CharsIn(tail)) /\ Cardinality(CharsIn(tail)) <= JoinedLen(tail)
        /\ \A x \in ToSet(tail) : TextLen(x) <= JoinedLen(tail)
    BY <2>2, JoinedCount
  <2>5. \A k \in a..b : k \in 1..n /\ TextLen(atoms[k]) <= Overlap
    <3>1. \A k \in a..b : k \in 1..n
      BY <1>4
    <3>2. \A k \in a..b : TextLen(atoms[k]) <= JoinedLen(tail)
      BY <2>2, <2>4
    <3>3. \A k \in a..b : TextLen(atoms[k]) \in Nat
      <4>1. \A k \in 1..n : atoms[k] \in Seq(Run)
        BY <1>1 DEF Atom, Text
      <4> QED
        BY <3>1, <4>1, TextLenType
    <3> QED
      BY <1>1, <2>3, <3>1, <3>2, <3>3
  <2>6. ASSUME NEW c \in shared PROVE c \in CharsIn(tail)
    <3>1. PICK p \in from[i]..b, q \in from[j]..to[j] :
             /\ p \in 1..n /\ q \in 1..n /\ c \in CharsOf(atoms[p])
             /\ c < End(atoms[p]) /\ Start(atoms[q]) <= c
      BY <1>7
    <3>2. CASE a <= p
      <4>1. p \in a..b
        BY <1>4, <3>1, <3>2
      <4> QED
        BY <2>2, <3>1, <4>1
    <3>3. CASE p < a
      <4>1. a \in a..b /\ TextLen(atoms[a]) <= Overlap /\ a \in 1..n /\ a <= q
        BY <1>4, <1>10, <2>5, <3>1
      <4>2. End(atoms[p]) <= Start(atoms[a])
        BY <1>1, <3>1, <3>3, <4>1
      <4>3. Start(atoms[a]) <= Start(atoms[q])
        <5>1. a = q \/ a < q
          BY <3>1, <4>1
        <5> QED
          BY <1>1, <3>1, <4>1, <5>1
      <4>4. End(atoms[p]) \in Nat /\ Start(atoms[a]) \in Nat /\ Start(atoms[q]) \in Nat /\ c \in Nat
        BY <1>1, <1>8, <3>1, <4>1
      <4> QED
        BY <3>1, <4>2, <4>3, <4>4
    <3> QED
      BY <1>4, <3>1, <3>2, <3>3
  <2>7. IsFiniteSet(shared) /\ Cardinality(shared) <= Cardinality(CharsIn(tail))
    BY <2>4, <2>6, FS_Subset
  <2>8. Cardinality(shared) \in Nat /\ Cardinality(CharsIn(tail)) \in Nat
    BY <2>4, <2>7, FS_CardinalityType
  <2>9. Cardinality(shared) <= Overlap
    BY <1>1, <2>3, <2>4, <2>7, <2>8
  <2> QED
    BY <2>9 DEF shared
<1>11. b < a \/ a <= b
  BY <1>4
<1> QED
  BY <1>9, <1>10, <1>11

-----------------------------------------------------------------------------
(* Lines and the text they are *)

\* The lines of a document.
Line == [kind : Kinds \cup {Blank}, at : Nat]

\* A sum is a number.
LEMMA TotalType ==
    ASSUME NEW numbers \in Seq(Nat)
    PROVE  Total(numbers) \in Nat
BY TotalAppend, 0 \in Nat

\* A line has pieces unless it is blank.
LEMMA PiecesType ==
    ASSUME NEW line \in Line
    PROVE  /\ Pieces(line) \in Seq(Nat \ {0}) /\ Pieces(line) \in Seq(Nat)
           /\ Pieces(line) = <<>> <=> line.kind = Blank
<1>1. CASE line.kind = Blank
  BY <1>1 DEF Pieces
<1>2. CASE line.kind # Blank
  <2>1. line.kind \in Kinds
    BY <1>2 DEF Line
  <2>2. PiecesOf[line.kind] \in Seq(Nat \ {0}) /\ PiecesOf[line.kind] # <<>>
    BY <2>1, LinesAndCaps
  <2>3. Pieces(line) = PiecesOf[line.kind]
    BY <1>2 DEF Pieces
  <2>4. PiecesOf[line.kind] \in Seq(Nat)
    BY <2>2
  <2> QED
    BY <1>2, <2>2, <2>3, <2>4
<1> QED
  BY <1>1, <1>2

\* A line is blank if and only if it has no length.
LEMMA SizeType ==
    ASSUME NEW line \in Line
    PROVE  /\ Size(line) \in Nat /\ LengthOf(line) \in Nat
           /\ LengthOf(line) = 0 <=> line.kind = Blank
<1>1. /\ Pieces(line) \in Seq(Nat \ {0}) /\ Pieces(line) \in Seq(Nat)
      /\ Pieces(line) = <<>> <=> line.kind = Blank
  BY PiecesType
<1>2. Size(line) \in Nat
  BY <1>1, TotalType DEF Size
<1>3. CASE line.kind = Blank
  BY <1>2, <1>3 DEF LengthOf
<1>4. CASE line.kind # Blank
  <2> DEFINE pieces == Pieces(line)
  <2>1. pieces \in Seq(Nat \ {0}) /\ pieces # <<>>
    BY <1>1, <1>4
  <2>2. Size(line) = Total(pieces) /\ LengthOf(line) = Size(line) + Len(pieces) - 1
    BY <1>4 DEF Size, LengthOf
  <2> HIDE DEF pieces
  <2>3. PICK front \in Seq(Nat \ {0}), x \in Nat \ {0} : pieces = Append(front, x)
    BY <2>1, SequenceEmptyOrAppend
  <2>4. front \in Seq(Nat) /\ Len(pieces) \in Nat /\ Len(pieces) # 0
    BY <2>1, <2>3
  <2>5. Total(front) \in Nat /\ Total(pieces) = Total(front) + x
    BY <2>3, <2>4, TotalAppend
  <2> QED
    BY <1>4, <2>2, <2>4, <2>5
<1> QED
  BY <1>2, <1>3, <1>4

\* A line is a list of runs, empty only if it is blank.
LEMMA RunsType ==
    ASSUME NEW line \in Line
    PROVE  RunsOf(line) \in Seq(Run) /\ (line.kind # Blank => RunsOf(line) # <<>>)
<1> DEFINE pieces == Pieces(line)
           n == Len(pieces)
           start(i) == line.at + Total(SubSeq(pieces, 1, i - 1))
           sep(i) == IF i < Len(pieces) \/ line.kind \in SentenceEnds THEN "sentence" ELSE "line"
           run(i) == [at |-> start(i), len |-> pieces[i], sep |-> sep(i)]
<1>1. pieces \in Seq(Nat \ {0}) /\ (pieces = <<>> <=> line.kind = Blank) /\ line.at \in Nat
  BY PiecesType DEF Line
<1>2. RunsOf(line) = [i \in DOMAIN pieces |-> run(i)]
  BY DEF RunsOf
<1> HIDE DEF pieces
<1>3. n \in Nat /\ DOMAIN pieces = 1..n /\ (n = 0 <=> pieces = <<>>)
      /\ \A i \in 1..n : pieces[i] \in Nat \ {0}
  BY <1>1
<1>4. ASSUME NEW i \in 1..n PROVE run(i) \in Run
  <2>1. SubSeq(pieces, 1, i - 1) \in Seq(Nat)
    <3>1. 1 \in Int /\ i - 1 \in Int /\ \A j \in 1..(i - 1) : pieces[j] \in Nat
      BY <1>3
    <3> HIDE DEF n
    <3> QED
      BY <3>1, SubSeqProperties
  <2>2. start(i) \in Nat
    <3>1. Total(SubSeq(pieces, 1, i - 1)) \in Nat
      BY <2>1, TotalType
    <3> QED
      BY <1>1, <3>1
  <2> HIDE DEF start
  <2> QED
    BY <1>3, <2>2 DEF Run
<1> HIDE DEF n, run
<1>5. RunsOf(line) \in Seq(Run) /\ Len(RunsOf(line)) = n
  BY <1>2, <1>3, <1>4
<1> QED
  BY <1>1, <1>3, <1>5

\* One line more of the text.
TextAdd(before, line) ==
    IF line.kind # Blank THEN before \o RunsOf(line)
    ELSE IF before = <<>> THEN before
    ELSE [before EXCEPT ![Len(before)].sep = "paragraph"]

\* It only adds to the text.
LEMMA TextAddType ==
    ASSUME NEW before \in Seq(Run), NEW line \in Line
    PROVE  /\ TextAdd(before, line) \in Seq(Run)
           /\ before # <<>> \/ line.kind # Blank => TextAdd(before, line) # <<>>
<1>1. RunsOf(line) \in Seq(Run) /\ (line.kind # Blank => RunsOf(line) # <<>>)
  BY RunsType
<1>2. before \o RunsOf(line) \in Seq(Run)
      /\ (RunsOf(line) # <<>> => before \o RunsOf(line) # <<>>)
  BY <1>1, ConcatProperties, ConcatEqualIffEmpty
<1>3. ASSUME before # <<>>
      PROVE  LET after == [before EXCEPT ![Len(before)].sep = "paragraph"]
             IN after \in Seq(Run) /\ after # <<>>
  <2> DEFINE n == Len(before)
             last == [before[n] EXCEPT !.sep = "paragraph"]
             after == [before EXCEPT ![n] = last]
  <2>1. n \in 1..n /\ before[n] \in Run
    BY <1>3
  <2>2. last \in Run
    BY <2>1 DEF Run
  <2> HIDE DEF last
  <2>3. after \in Seq(Run) /\ Len(after) = n
    BY <2>1, <2>2, ExceptSeq
  <2>4. after # <<>>
    BY <2>1, <2>3
  <2> QED
    BY <2>3, <2>4 DEF last
<1> QED
  BY <1>1, <1>2, <1>3 DEF TextAdd

\* The text of the first lines, one by one.
Writes(f, someLines, n) ==
    /\ f \in [0..n -> Seq(Run)] /\ f[0] = <<>> /\ f[n] = TextOf(someLines)
    /\ \A i \in 1..n : f[i] = TextAdd(f[i - 1], someLines[i])

\* TextOf is what its recursion says.
LEMMA TextSteps ==
    ASSUME NEW someLines \in Seq(Line), NEW n, n = Len(someLines)
    PROVE  \E f : Writes(f, someLines, n)
<1> DEFINE add(before, i) == TextAdd(before, someLines[i])
           step == [p \in Seq(Run) \X (1..n) |-> add(p[1], p[2])]
           Adds(f) == f = [i \in 0..n |-> IF i = 0 THEN <<>> ELSE add(f[i - 1], i)]
           c == CHOOSE f : Adds(f)
<1>1. n \in Nat /\ \A i \in 1..n : someLines[i] \in Line
  OBVIOUS
<1>2. TextOf(someLines) = c[n]
  BY DEF TextOf, TextAdd
<1>3. IsStep(step, <<>>, Seq(Run), n)
  <2>1. ASSUME NEW before \in Seq(Run), NEW i \in 1..n PROVE add(before, i) \in Seq(Run)
    BY <1>1, TextAddType
  <2>2. <<>> \in Seq(Run)
    OBVIOUS
  <2> HIDE DEF add
  <2> QED
    BY <1>1, <2>1, <2>2 DEF IsStep
<1>4. PICK f : Unrolls(f, step, <<>>, Seq(Run), n)
  <2> HIDE DEF step
  <2> QED
    BY <1>3, Recursion
<1>5. f \in [0..n -> Seq(Run)] /\ f[0] = <<>> /\ \A i \in 1..n : f[i] = add(f[i - 1], i)
  <2> HIDE DEF add
  <2>1. \A i \in 1..n : f[i - 1] \in Seq(Run)
    BY <1>1, <1>4 DEF Unrolls
  <2>2. \A i \in 1..n : f[i] = step[<<f[i - 1], i>>]
    <3> HIDE DEF step
    <3> QED
      BY <1>4 DEF Unrolls
  <2> QED
    BY <1>4, <2>1, <2>2 DEF Unrolls
<1>6. Adds(f)
  <2> HIDE DEF add
  <2> QED
    BY <1>5
<1>7. Adds(c)
  <2> HIDE DEF Adds
  <2> QED
    BY <1>6
<1> HIDE DEF c
<1>8. c[0] = <<>> /\ \A i \in 1..n : c[i] = add(c[i - 1], i)
  <2>1. \A i \in 0..n : c[i] = IF i = 0 THEN <<>> ELSE add(c[i - 1], i)
    <3> HIDE DEF add
    <3> QED
      BY <1>7, Zenon
  <2>2. 0 \in 0..n /\ \A i \in 1..n : i \in 0..n /\ i # 0
    BY <1>1
  <2> HIDE DEF Adds, add
  <2> QED
    BY <2>1, <2>2, Zenon
<1>9. \A i \in 0..n : c[i] = f[i]
  <2>1. InStep(c, f, n)
    <3> HIDE DEF Adds, add
    <3> QED
      BY <1>5, <1>8 DEF InStep
  <2> QED
    BY <1>1, <2>1, SameSteps
<1> QED
  BY <1>1, <1>2, <1>5, <1>9 DEF Writes

\* Lines are a text, and one that is not empty if any of them is not blank.
LEMMA TextOfType ==
    ASSUME NEW someLines \in Seq(Line)
    PROVE  /\ TextOf(someLines) \in Seq(Run)
           /\ (\E i \in DOMAIN someLines : someLines[i].kind # Blank) => TextOf(someLines) # <<>>
<1> DEFINE n == Len(someLines)
<1>1. n \in Nat /\ DOMAIN someLines = 1..n /\ \A i \in 1..n : someLines[i] \in Line
  OBVIOUS
<1>2. PICK c : Writes(c, someLines, n)
  BY TextSteps
<1> HIDE DEF n
<1>3. \A i \in 0..n : c[i] \in Seq(Run)
  BY <1>2 DEF Writes
<1> DEFINE SomeProse(k) == \E i \in 1..k : someLines[i].kind # Blank
           T == {k \in 0..n : SomeProse(k) => c[k] # <<>>}
<1>4. 0 \in T
  BY <1>1
<1>5. ASSUME NEW k \in 0..(n - 1), k \in T PROVE k + 1 \in T
  <2>1. k + 1 \in 0..n /\ k + 1 \in 1..n /\ (k + 1) - 1 = k /\ k \in 0..n /\ k \in Nat
    BY <1>1
  <2>2. c[k + 1] = TextAdd(c[k], someLines[k + 1])
    BY <1>2, <2>1 DEF Writes
  <2>3. SomeProse(k + 1) => SomeProse(k) \/ someLines[k + 1].kind # Blank
    BY <2>1
  <2>4. c[k] \in Seq(Run) /\ someLines[k + 1] \in Line
    BY <1>1, <1>3, <2>1
  <2> HIDE DEF SomeProse
  <2>5. SomeProse(k) => c[k] # <<>>
    BY <1>5
  <2>6. SomeProse(k + 1) => c[k + 1] # <<>>
    BY <2>2, <2>3, <2>4, <2>5, TextAddType
  <2> QED
    BY <2>1, <2>6
<1>6. n \in T
  <2>1. Inductive(T, 0, n)
    <3> HIDE DEF T
    <3> QED
      BY <1>1, <1>4, <1>5 DEF Inductive
  <2>2. n \in 0..n
    BY <1>1
  <2> HIDE DEF T
  <2> QED
    BY <2>1, <2>2, FromTo
<1>7. n \in 0..n
  BY <1>1
<1> QED
  BY <1>1, <1>2, <1>3, <1>6, <1>7 DEF Writes

\* The lines have text in them.
HasProse(someLines) == \E i \in DOMAIN someLines : someLines[i].kind # Blank

\* The lines cleaning keeps, if it leaves any text.
Keeps(line, someLines) ==
    /\ line.kind \notin TocKinds
    /\ ~(line.kind \in DigitKinds /\ LengthOf(line) <= MaxPageNumberLen)
    /\ line.kind \notin C!Repeated(someLines)
Chosen(someLines) == {line \in ToSet(someLines) : Keeps(line, someLines)}

\* Cleaning takes those, or everything if all of them are blank.
LEMMA CleanIs ==
    ASSUME NEW someLines \in Seq(Line), NEW kept, kept = Only(someLines, Chosen(someLines))
    PROVE  /\ kept \in Seq(Line) /\ ToSet(kept) = Chosen(someLines)
           /\ C!CleanMarkdown(someLines) = IF HasProse(kept) THEN kept ELSE someLines
<1>1. /\ kept \in Seq(Line) /\ ToSet(kept) = ToSet(someLines) \cap Chosen(someLines)
  BY OnlyMembers
<1>2. ToSet(kept) = Chosen(someLines)
  BY <1>1 DEF Chosen
<1>3. C!Kept(someLines) = kept
  <2> DEFINE chosen == {line \in {someLines[i] : i \in DOMAIN someLines} :
                          /\ ~(line.kind \in TocKinds)
                          /\ ~(line.kind \in DigitKinds /\ LengthOf(line) <= MaxPageNumberLen)
                          /\ line.kind \notin C!Repeated(someLines)}
  <2>1. C!Kept(someLines) = Only(someLines, chosen)
    BY DEF C!Kept, C!IsPageNumber, C!Only, Only
  <2>2. chosen = Chosen(someLines)
    BY DEF Chosen, Keeps, ToSet
  <2> QED
    BY <2>1, <2>2
<1>4. \A i \in DOMAIN kept : LengthOf(kept[i]) = 0 <=> kept[i].kind = Blank
  <2>1. \A i \in DOMAIN kept : kept[i] \in Line
    BY <1>1
  <2> QED
    BY <2>1, SizeType
<1> HIDE DEF Only
<1>5. C!CleanMarkdown(someLines)
        = IF \A i \in DOMAIN kept : LengthOf(kept[i]) = 0 THEN someLines ELSE kept
  BY <1>3 DEF C!CleanMarkdown, C!IsBlank
<1> QED
  BY <1>1, <1>2, <1>4, <1>5 DEF HasProse

\* Cleaning leaves lines, as they were ordered, and never blank ones only where there
\* was text.
LEMMA CleanType ==
    ASSUME NEW someLines \in Seq(Line)
    PROVE  /\ C!CleanMarkdown(someLines) \in Seq(Line)
           /\ HasProse(someLines) => HasProse(C!CleanMarkdown(someLines))
           /\ \A rel : Related(someLines, rel) => Related(C!CleanMarkdown(someLines), rel)
BY CleanIs, OnlyMembers

\* A document has a size.
LEMMA CharactersType ==
    ASSUME NEW someLines \in Seq(Line)
    PROVE  Characters(someLines) \in Nat
<1> DEFINE n == Len(someLines)
<1>1. n \in Nat /\ DOMAIN someLines = 1..n /\ \A i \in 1..n : Size(someLines[i]) \in Nat
  BY SizeType
<1> HIDE DEF n
<1>2. [i \in 1..n |-> Size(someLines[i])] \in Seq(Nat)
  BY <1>1
<1> QED
  BY <1>1, <1>2, TotalType DEF Characters

-----------------------------------------------------------------------------
(* The places of lines *)

\* A line more adds to the text of those before.
LEMMA TextAppend ==
    ASSUME NEW someLines \in Seq(Line)
    PROVE  /\ TextOf(someLines) \in Seq(Run) /\ (someLines = <<>> => TextOf(someLines) = <<>>)
           /\ \A line \in Line :
                TextOf(Append(someLines, line)) = TextAdd(TextOf(someLines), line)
<1> DEFINE n == Len(someLines)
<1>1. PICK f : Writes(f, someLines, n)
  BY TextSteps
<1>2. n \in Nat /\ (someLines = <<>> => n = 0) /\ n \in 0..n
  OBVIOUS
<1>3. f[0] = <<>> /\ f[n] = TextOf(someLines) /\ f[n] \in Seq(Run)
      /\ \A i \in 1..n : f[i] = TextAdd(f[i - 1], someLines[i])
  BY <1>1, <1>2 DEF Writes
<1>4. ASSUME NEW line \in Line
      PROVE  TextOf(Append(someLines, line)) = TextAdd(TextOf(someLines), line)
  <2> DEFINE longer == Append(someLines, line)
  <2>1. /\ longer \in Seq(Line) /\ Len(longer) = n + 1 /\ longer[n + 1] = line
        /\ \A i \in 1..n : longer[i] = someLines[i]
    BY AppendProperties
  <2> HIDE DEF longer, n
  <2>2. PICK g : Writes(g, longer, n + 1)
    BY <2>1, TextSteps
  <2>3. g[0] = <<>> /\ g[n + 1] = TextOf(longer)
        /\ \A i \in 1..(n + 1) : g[i] = TextAdd(g[i - 1], longer[i])
    BY <2>2 DEF Writes
  <2>4. InStep(f, g, n)
    <3>1. \A i \in 1..n : i \in 1..(n + 1)
      BY <1>2
    <3> QED
      BY <1>3, <2>1, <2>3, <3>1 DEF InStep
  <2>5. f[n] = g[n]
    BY <1>2, <2>4, SameSteps
  <2>6. n + 1 \in 1..(n + 1) /\ (n + 1) - 1 = n
    BY <1>2
  <2>7. g[n + 1] = TextAdd(g[n], line)
    BY <2>1, <2>3, <2>6
  <2> QED
    BY <1>3, <2>3, <2>5, <2>7 DEF longer
<1> QED
  BY <1>2, <1>3, <1>4

\* A run at the end of a paragraph, as a blank line makes one of the last.
Marked(run) == [run EXCEPT !.sep = "paragraph"]

\* The mark changes the last run, and nothing in it but what it ends.
LEMMA MarkLast ==
    ASSUME NEW front \in Seq(Run), NEW run \in Run, NEW text, text = Append(front, run)
    PROVE  /\ [text EXCEPT ![Len(text)].sep = "paragraph"] = Append(front, Marked(run))
           /\ Marked(run) \in Run /\ Marked(run).at = run.at /\ Marked(run).len = run.len
           /\ Marked(run).sep = "paragraph" /\ (run.sep = "paragraph" => Marked(run) = run)
           /\ CharsOfRun(Marked(run)) = CharsOfRun(run)
<1>1. /\ Marked(run) \in Run /\ Marked(run).at = run.at /\ Marked(run).len = run.len
      /\ Marked(run).sep = "paragraph" /\ (run.sep = "paragraph" => Marked(run) = run)
  BY DEF Marked, Run
<1>2. CharsOfRun(Marked(run)) = CharsOfRun(run)
  BY <1>1 DEF CharsOfRun
<1> DEFINE n == Len(front)
           after == [text EXCEPT ![Len(text)].sep = "paragraph"]
           wanted == Append(front, Marked(run))
<1>3. /\ n \in Nat /\ text \in Seq(Run) /\ Len(text) = n + 1 /\ text[n + 1] = run
      /\ \A i \in 1..n : text[i] = front[i]
  BY AppendProperties
<1>4. /\ wanted \in Seq(Run) /\ Len(wanted) = n + 1 /\ wanted[n + 1] = Marked(run)
      /\ \A i \in 1..n : wanted[i] = front[i]
  BY <1>1, AppendProperties
<1> HIDE DEF n, wanted
<1>5. after = [text EXCEPT ![n + 1] = Marked(run)]
  BY <1>3 DEF Marked
<1>6. n + 1 \in 1..(n + 1) /\ \A i \in 1..(n + 1) : i = n + 1 \/ (i \in 1..n /\ i # n + 1)
  BY <1>3
<1>7. after \in Seq(Run) /\ Len(after) = n + 1 /\ after[n + 1] = Marked(run)
      /\ \A i \in 1..n : after[i] = text[i]
  <2> DEFINE mark == Marked(run)
             k == n + 1
             changed == [text EXCEPT ![k] = mark]
  <2>1. mark \in Run /\ k \in 1..Len(text)
    BY <1>1, <1>3, <1>6
  <2> HIDE DEF mark, k
  <2>2. changed \in Seq(Run) /\ Len(changed) = Len(text)
    BY <1>3, <2>1, ExceptSeq
  <2>3. \A j \in 1..Len(text) : changed[j] = IF j = k THEN mark ELSE text[j]
    <3>1. DOMAIN text = 1..Len(text)
      BY <1>3
    <3> QED
      BY <3>1, Zenon
  <2>4. after = changed
    BY <1>5 DEF mark, k
  <2> HIDE DEF changed, after
  <2> QED
    BY <1>3, <1>6, <2>2, <2>3, <2>4 DEF mark, k
<1> HIDE DEF after
<1>8. \A i \in 1..(n + 1) : after[i] = wanted[i]
  BY <1>3, <1>4, <1>6, <1>7
<1>9. after = wanted
  BY <1>4, <1>7, <1>8
<1> QED
  BY <1>1, <1>2, <1>9 DEF after, wanted

\* A line that ends before another starts.
LineBefore == {pair \in Line \X Line : pair[1].at + Size(pair[1]) <= pair[2].at}

\* The runs of a line are in order, within the line, and end no paragraph.
LEMMA LineRuns ==
    ASSUME NEW line \in Line, NEW runs, runs = RunsOf(line)
    PROVE  /\ runs \in Seq(Run) /\ Placed(runs)
           /\ \A x \in ToSet(runs) :
                /\ line.at <= x.at /\ x.at + x.len <= line.at + Size(line)
                /\ x.sep # "paragraph"
<1> DEFINE pieces == Pieces(line)
           n == Len(pieces)
           start(i) == line.at + Total(SubSeq(pieces, 1, i - 1))
           sep(i) == IF i < Len(pieces) \/ line.kind \in SentenceEnds THEN "sentence" ELSE "line"
<1>1. runs \in Seq(Run) /\ pieces \in Seq(Nat \ {0}) /\ pieces \in Seq(Nat) /\ line.at \in Nat
  BY RunsType, PiecesType DEF Line
<1>2. runs = [i \in DOMAIN pieces |-> [at |-> start(i), len |-> pieces[i], sep |-> sep(i)]]
  BY DEF RunsOf
<1>3. n \in Nat /\ DOMAIN pieces = 1..n /\ \A i \in 1..n : pieces[i] \in Nat \ {0}
  BY <1>1
<1>4. Size(line) = Total(pieces)
  BY DEF Size
<1>5. /\ FirstSum(pieces, n) = Total(pieces)
      /\ \A k \in 0..n : FirstSum(pieces, k) \in Nat
      /\ \A k \in 1..n : FirstSum(pieces, k) = FirstSum(pieces, k - 1) + pieces[k]
      /\ \A j, k \in 0..n : j <= k => FirstSum(pieces, j) <= FirstSum(pieces, k)
  BY <1>1, FirstSums
<1>6. \A i \in 1..n : start(i) = line.at + FirstSum(pieces, i - 1)
  BY DEF FirstSum
<1>7. Len(runs) = n /\ \A i \in 1..n :
         runs[i].at = start(i) /\ runs[i].len = pieces[i] /\ runs[i].sep = sep(i)
  BY <1>1, <1>2, <1>3
<1>8. \A i \in 1..n : sep(i) # "paragraph"
  OBVIOUS
<1> HIDE DEF pieces, n, start, sep
<1>9. ASSUME NEW i \in 1..n
      PROVE  /\ runs[i].at = line.at + FirstSum(pieces, i - 1)
             /\ runs[i].at + runs[i].len = line.at + FirstSum(pieces, i)
  <2>1. i - 1 \in 0..n /\ i \in 0..n
    BY <1>3
  <2>2. FirstSum(pieces, i - 1) \in Nat /\ pieces[i] \in Nat
        /\ FirstSum(pieces, i) = FirstSum(pieces, i - 1) + pieces[i]
    BY <1>3, <1>5, <2>1
  <2> QED
    BY <1>1, <1>6, <1>7, <2>2
<1>10. \A i \in 1..n : runs[i] \in Run /\ i - 1 \in 0..n /\ i \in 0..n /\ 0 <= i - 1 /\ i <= n
  BY <1>1, <1>3, <1>7
<1>11. Placed(runs)
  <2> SUFFICES ASSUME NEW i \in 1..n, NEW j \in 1..n, i < j PROVE <<runs[i], runs[j]>> \in Behind
    BY <1>7 DEF Placed, Related
  <2>1. i <= j - 1 /\ i \in 0..n /\ j - 1 \in 0..n
    BY <1>3
  <2>2. FirstSum(pieces, i) <= FirstSum(pieces, j - 1)
        /\ FirstSum(pieces, i) \in Nat /\ FirstSum(pieces, j - 1) \in Nat
    BY <1>5, <2>1
  <2>3. runs[i].at + runs[i].len <= runs[j].at
    BY <1>1, <1>9, <2>2, SMTT(30)
  <2> QED
    BY <1>10, <2>3, OneWay
<1>12. ASSUME NEW i \in 1..n
       PROVE  /\ line.at <= runs[i].at /\ runs[i].at + runs[i].len <= line.at + Size(line)
              /\ runs[i].sep # "paragraph"
  <2>1. i - 1 \in 0..n /\ i \in 0..n /\ n \in 0..n /\ i <= n
    BY <1>3
  <2>2. FirstSum(pieces, i - 1) \in Nat /\ FirstSum(pieces, i) <= FirstSum(pieces, n)
        /\ FirstSum(pieces, i) \in Nat /\ FirstSum(pieces, n) \in Nat
        /\ FirstSum(pieces, n) = Size(line)
    BY <1>4, <1>5, <2>1
  <2>3. line.at <= line.at + FirstSum(pieces, i - 1)
        /\ line.at + FirstSum(pieces, i) <= line.at + FirstSum(pieces, n)
    BY <1>1, <2>2
  <2> QED
    BY <1>7, <1>8, <1>9, <2>2, <2>3
<1>13. ToSet(runs) = {runs[i] : i \in 1..n}
  BY <1>1, <1>7, Members
<1> QED
  BY <1>1, <1>11, <1>12, <1>13

\* A run within a line of the list; the characters of its lines.
Lined(run, someLines) ==
    \E line \in ToSet(someLines) : line.at <= run.at /\ run.at + run.len <= line.at + Size(line)
CharsOfLines(someLines) == UNION {CharsOf(RunsOf(line)) : line \in ToSet(someLines)}

\* The text of lines in order is in order, each run within a line, and it has the
\* characters of the lines.
LEMMA TextOfPlaces ==
    ASSUME NEW someLines \in Seq(Line), Related(someLines, LineBefore)
    PROVE  /\ Placed(TextOf(someLines)) /\ \A x \in ToSet(TextOf(someLines)) : Lined(x, someLines)
           /\ CharsOf(TextOf(someLines)) = CharsOfLines(someLines)
<1> DEFINE Good(s) == /\ Placed(TextOf(s)) /\ \A x \in ToSet(TextOf(s)) : Lined(x, s)
                      /\ CharsOf(TextOf(s)) = CharsOfLines(s)
           P == {s \in Seq(Line) : Related(s, LineBefore) => Good(s)}
<1>1. <<>> \in P
  <2> DEFINE none == <<>>
  <2>1. none \in Seq(Line) /\ none = <<>>
    OBVIOUS
  <2> HIDE DEF none
  <2>2. TextOf(none) = <<>>
    BY <2>1, TextAppend
  <2>3. Placed(<<>>) /\ ToSet(<<>>) = {} /\ CharsOf(<<>>) = {} /\ CharsOfLines(<<>>) = {}
    BY DEF Placed, Related, ToSet, CharsOf, CharsOfLines
  <2> QED
    BY <2>1, <2>2, <2>3 DEF none
<1>2. ASSUME NEW s \in Seq(Line), NEW line \in Line, s \in P PROVE Append(s, line) \in P
  <2> DEFINE before == TextOf(s)
             after == TextOf(Append(s, line))
  <2>1. before \in Seq(Run) /\ after = TextAdd(before, line) /\ Append(s, line) \in Seq(Line)
    BY TextAppend
  <2>2. ToSet(Append(s, line)) = ToSet(s) \cup {line} /\ ToSet(s) \subseteq Line
    BY Members
  <2>3. CharsOfLines(Append(s, line)) = CharsOfLines(s) \cup CharsOf(RunsOf(line))
    BY <2>2 DEF CharsOfLines
  <2>4. \A x : Lined(x, s) => Lined(x, Append(s, line))
    BY <2>2 DEF Lined
  <2> SUFFICES ASSUME Related(Append(s, line), LineBefore) PROVE Good(Append(s, line))
    BY <2>1
  <2>5. Related(s, LineBefore) /\ \A y \in ToSet(s) : <<y, line>> \in LineBefore
    BY RelatedFront
  <2>6. Good(s)
    BY <1>2, <2>5
  <2>7. Placed(before) /\ (\A x \in ToSet(before) : Lined(x, s)) /\ CharsOf(before) = CharsOfLines(s)
    BY <2>6
  <2> HIDE DEF before, after
  <2>8. CASE line.kind # Blank
    <3> DEFINE runs == RunsOf(line)
    <3>1. /\ runs \in Seq(Run) /\ Placed(runs)
          /\ \A x \in ToSet(runs) : line.at <= x.at /\ x.at + x.len <= line.at + Size(line)
      BY LineRuns
    <3>2. after = before \o runs
      BY <2>1, <2>8 DEF TextAdd
    <3> HIDE DEF runs
    <3>3. after \in Seq(Run) /\ ToSet(after) = ToSet(before) \cup ToSet(runs)
          /\ ToSet(before) \subseteq Run /\ ToSet(runs) \subseteq Run
      BY <2>1, <3>1, <3>2, Members, ConcatProperties
    <3>4. Across(before, runs, Behind)
      <4> SUFFICES ASSUME NEW x \in ToSet(before), NEW y \in ToSet(runs)
                   PROVE  <<x, y>> \in Behind
        BY DEF Across
      <4>1. PICK other \in ToSet(s) : x.at + x.len <= other.at + Size(other)
        BY <2>7 DEF Lined
      <4>2. other.at + Size(other) <= line.at
        BY <2>5, <4>1 DEF LineBefore
      <4>3. x \in Run /\ y \in Run /\ line.at <= y.at /\ other \in Line
        BY <2>2, <3>1, <3>3
      <4>4. x.at + x.len \in Nat /\ other.at + Size(other) \in Nat /\ line.at \in Nat /\ y.at \in Nat
        BY <4>3, SizeType DEF Run, Line
      <4>5. x.at + x.len <= y.at
        BY <4>1, <4>2, <4>3, <4>4
      <4> QED
        BY <4>3, <4>5, OneWay
    <3>5. Placed(after)
      BY <2>1, <2>7, <3>1, <3>2, <3>4, JoinRelated DEF Placed
    <3>6. \A x \in ToSet(after) : Lined(x, Append(s, line))
      BY <2>2, <2>4, <2>7, <3>1, <3>3 DEF Lined
    <3>7. CharsOf(after) = CharsOf(before) \cup CharsOf(runs)
      BY <2>1, <3>1, <3>3, CharsMembers
    <3> QED
      BY <2>3, <2>7, <3>5, <3>6, <3>7 DEF after, runs
  <2>9. CASE line.kind = Blank
    <3>1. CharsOf(RunsOf(line)) = {}
      <4>1. Pieces(line) = <<>>
        BY <2>9, PiecesType
      <4>2. DOMAIN RunsOf(line) = {}
        BY <4>1 DEF RunsOf
      <4> QED
        BY <4>2 DEF CharsOf
    <3>2. CASE before = <<>>
      <4>1. after = before
        BY <2>1, <2>9, <3>2 DEF TextAdd
      <4> QED
        BY <2>3, <2>4, <2>7, <3>1, <4>1 DEF after
    <3>3. CASE before # <<>>
      <4>1. PICK front \in Seq(Run), run \in Run : before = Append(front, run)
        BY <2>1, <3>3, SequenceEmptyOrAppend
      <4>2. after = Append(front, Marked(run)) /\ Marked(run) \in Run
            /\ Marked(run).at = run.at /\ Marked(run).len = run.len
            /\ CharsOfRun(Marked(run)) = CharsOfRun(run)
        <5>1. after = [before EXCEPT ![Len(before)].sep = "paragraph"]
          BY <2>1, <2>9, <3>3 DEF TextAdd
        <5> QED
          BY <4>1, <5>1, MarkLast
      <4>3. ToSet(before) = ToSet(front) \cup {run} /\ ToSet(after) = ToSet(front) \cup {Marked(run)}
            /\ ToSet(front) \subseteq Run /\ after \in Seq(Run)
        BY <4>1, <4>2, Members, AppendProperties
      <4>4. Placed(front) /\ \A x \in ToSet(front) : <<x, run>> \in Behind
        BY <2>7, <4>1, RelatedFront DEF Placed
      <4>5. \A x \in ToSet(front) : <<x, Marked(run)>> \in Behind
        BY <4>2, <4>4 DEF Behind
      <4>6. Placed(after)
        BY <4>2, <4>4, <4>5, AppendRelated DEF Placed
      <4>7. \A x \in ToSet(after) : Lined(x, Append(s, line))
        <5>1. Lined(Marked(run), s)
          BY <2>7, <4>2, <4>3 DEF Lined
        <5> QED
          BY <2>4, <2>7, <4>3, <5>1
      <4>8. CharsOf(after) = CharsOf(before)
        <5>1. CharsOf(Append(front, run)) = CharsOf(front) \cup CharsOfRun(run)
          BY CharsAppend
        <5>2. CharsOf(Append(front, Marked(run))) = CharsOf(front) \cup CharsOfRun(Marked(run))
          BY <4>2, CharsAppend
        <5> QED
          BY <4>1, <4>2, <5>1, <5>2, Zenon
      <4> QED
        BY <2>3, <2>7, <3>1, <4>6, <4>7, <4>8 DEF after
    <3> QED
      BY <3>2, <3>3
  <2> QED
    BY <2>8, <2>9
<1>3. someLines \in P
  <2> HIDE DEF P
  <2> QED
    BY <1>1, <1>2, BuiltUp
<1> QED
  BY <1>3

-----------------------------------------------------------------------------
(* The invariant *)

\* The chunks are those of the lines, which are in order and end where the next starts.
TextInv ==
    /\ lines \in Seq(Line) /\ chunks = ChunksOf(lines)
    /\ Related(lines, LineBefore)
    /\ \A line \in ToSet(lines) : line.at + Size(line) <= Characters(lines)

\* The chunks of lines fit, none is empty, and where there is text there are some.
LEMMA ChunksType ==
    ASSUME NEW someLines \in Seq(Line)
    PROVE  /\ ChunksOf(someLines) \in Seq(Chunk \ {<<>>})
           /\ HasProse(someLines) => ChunksOf(someLines) # <<>>
<1> DEFINE left == C!CleanMarkdown(someLines)
<1>1. left \in Seq(Line) /\ (HasProse(someLines) => HasProse(left))
  BY CleanType
<1> HIDE DEF left
<1>2. TextOf(left) \in Seq(Run) /\ (HasProse(left) => TextOf(left) # <<>>)
  BY <1>1, TextOfType DEF HasProse
<1>3. ChunksOf(someLines) = ChunkMarkdown(TextOf(left))
  BY DEF ChunksOf, left
<1> QED
  BY <1>1, <1>2, <1>3, ChunkMarkdownType

\* A line more makes a document larger by its size.
LEMMA CharactersAppend ==
    ASSUME NEW someLines \in Seq(Line), NEW line \in Line
    PROVE  Characters(Append(someLines, line)) = Characters(someLines) + Size(line)
<1> DEFINE n == Len(someLines)
           longer == Append(someLines, line)
           sizes(s) == [i \in DOMAIN s |-> Size(s[i])]
<1>1. /\ n \in Nat /\ longer \in Seq(Line) /\ Len(longer) = n + 1 /\ longer[n + 1] = line
      /\ \A i \in 1..n : longer[i] = someLines[i]
  BY AppendProperties
<1>2. Size(line) \in Nat /\ \A i \in 1..n : Size(someLines[i]) \in Nat
  BY SizeType
<1>3. DOMAIN someLines = 1..n /\ DOMAIN longer = 1..(n + 1)
  BY <1>1
<1> HIDE DEF n, longer
<1>4. sizes(someLines) \in Seq(Nat) /\ Len(sizes(someLines)) = n
  BY <1>1, <1>2, <1>3
<1>5. sizes(longer) = Append(sizes(someLines), Size(line))
  <2> DEFINE wanted == Append(sizes(someLines), Size(line))
  <2>1. /\ wanted \in Seq(Nat) /\ Len(wanted) = n + 1 /\ wanted[n + 1] = Size(line)
        /\ \A i \in 1..n : wanted[i] = sizes(someLines)[i]
    BY <1>2, <1>4, AppendProperties
  <2> HIDE DEF wanted
  <2>2. \A i \in 1..(n + 1) : i = n + 1 \/ i \in 1..n
    BY <1>1
  <2>3. \A i \in 1..(n + 1) : wanted[i] = Size(longer[i])
    BY <1>1, <1>3, <2>1, <2>2
  <2>4. wanted = [i \in 1..(n + 1) |-> Size(longer[i])]
    BY <1>1, <2>1, <2>3
  <2> QED
    BY <1>3, <2>4 DEF wanted
<1> HIDE DEF sizes
<1>6. Total(sizes(longer)) = Total(sizes(someLines)) + Size(line)
  BY <1>2, <1>4, <1>5, TotalAppend
<1> QED
  BY <1>6 DEF Characters, sizes, longer

\* TextInv is an invariant.
LEMMA Invariant == Spec => []TextInv
<1>1. Init => TextInv
  <2>1. <<>> \in Seq(Line) /\ ToSet(<<>>) = {} /\ Related(<<>>, LineBefore)
    BY DEF ToSet, Related
  <2> QED
    BY <2>1 DEF Init, TextInv
<1>2. TextInv /\ [Next]_<<lines, chunks>> => TextInv'
  <2> SUFFICES ASSUME TextInv, [Next]_<<lines, chunks>> PROVE TextInv'
    OBVIOUS
  <2>1. /\ lines \in Seq(Line) /\ Characters(lines) \in Nat /\ Related(lines, LineBefore)
        /\ \A line \in ToSet(lines) : line.at + Size(line) <= Characters(lines)
    BY CharactersType DEF TextInv
  <2>2. ASSUME NEW kind \in Kinds \cup {Blank},
               lines' = Append(lines, [kind |-> kind, at |-> Characters(lines)]),
               chunks' = ChunksOf(lines')
        PROVE  TextInv'
    <3> DEFINE line == [kind |-> kind, at |-> Characters(lines)]
    <3>1. line \in Line /\ line.at = Characters(lines)
      BY <2>1 DEF Line
    <3> HIDE DEF line
    <3>2. lines' = Append(lines, line)
      BY <2>2 DEF line
    <3>3. lines' \in Seq(Line) /\ ToSet(lines') = ToSet(lines) \cup {line}
          /\ ToSet(lines) \subseteq Line
      BY <2>1, <3>1, <3>2, Members, AppendProperties
    <3>4. \A other \in ToSet(lines) : <<other, line>> \in LineBefore
      BY <2>1, <3>1, <3>3 DEF LineBefore
    <3>5. Related(lines', LineBefore)
      BY <2>1, <3>1, <3>2, <3>4, AppendRelated
    <3>6. Characters(lines') = Characters(lines) + Size(line) /\ Size(line) \in Nat
      BY <2>1, <3>1, <3>2, CharactersAppend, SizeType
    <3>7. \A other \in ToSet(lines') : other.at + Size(other) <= Characters(lines')
      <4>1. \A other \in ToSet(lines) : other.at + Size(other) \in Nat
        BY <3>3, SizeType DEF Line
      <4> QED
        BY <2>1, <3>1, <3>3, <3>6, <4>1
    <3> QED
      BY <2>2, <3>3, <3>5, <3>7 DEF TextInv
  <2>3. CASE AddBlank
    BY <2>2, <2>3 DEF AddBlank
  <2>4. CASE \E kind \in Kinds : AddLine(kind)
    BY <2>2, <2>4 DEF AddLine
  <2>5. CASE UNCHANGED <<lines, chunks>>
    BY <2>5 DEF TextInv
  <2> QED
    BY <2>3, <2>4, <2>5 DEF Next
<1> QED
  BY <1>1, <1>2, PTL DEF Spec

\* No chunk of any document is longer than the chunk size, whatever its lines are
\* (chunking_service.py:158).
THEOREM ChunksKeepSize == Spec => []WithinSize
<1>1. TextInv => WithinSize
  <2> SUFFICES ASSUME TextInv PROVE WithinSize
    OBVIOUS
  <2>1. chunks \in Seq(Chunk \ {<<>>})
    BY ChunksType DEF TextInv
  <2>2. \A i \in DOMAIN chunks : chunks[i] \in Chunk
    BY <2>1
  <2> QED
    BY <2>2 DEF WithinSize, Chunk
<1> QED
  BY <1>1, Invariant, PTL

-----------------------------------------------------------------------------
(* Requests *)

\* A chunk of the largest size fits a request: 1200 characters, 100 000 tokens.
ChunksFitRequests == ChunkSize \div CharsPerToken <= MaxBatchTokens /\ 1 <= MaxBatchTokens

\* Chunks have tokens, as embed_documents counts them.
LEMMA ChunksMeasured ==
    ASSUME TextInv
    PROVE  /\ chunks \in Seq(ToSet(chunks)) /\ ToSet(chunks) \subseteq Chunk \ {<<>>}
           /\ Measured(ToSet(chunks), Tokens, Caps)
<1>1. chunks \in Seq(Chunk \ {<<>>})
  BY ChunksType DEF TextInv
<1>2. chunks \in Seq(ToSet(chunks)) /\ ToSet(chunks) \subseteq Chunk \ {<<>>}
  BY <1>1 DEF ToSet
<1>3. ASSUME NEW chunk \in ToSet(chunks)
      PROVE  EstimateTokens(JoinedLen(chunk), CharsPerToken) \in Nat \ {0}
  <2>1. JoinedLen(chunk) \in Nat
    BY <1>2, JoinedLenType DEF Chunk
  <2>2. JoinedLen(chunk) \div CharsPerToken \in Nat
    BY <2>1, LinesAndCaps
  <2> QED
    BY <2>2 DEF EstimateTokens
<1> QED
  BY <1>2, <1>3, LinesAndCaps DEF Measured, Tokens, Caps

\* Division keeps the order.
LEMMA SmallerQuotient ==
    ASSUME NEW a \in Nat, NEW b \in Nat, a <= b, NEW k \in Nat \ {0}
    PROVE  a \div k <= b \div k
OBVIOUS

\* What is true of the requests, in the terms of TextPipeline.
LEMMA RequestsOfChunks ==
    ASSUME TextInv, ChunksFitRequests
    PROVE  RequestsFillCaps
<1> DEFINE S == ToSet(chunks)
<1>1. chunks \in Seq(S) /\ S \subseteq Chunk \ {<<>>} /\ Measured(S, Tokens, Caps)
  BY ChunksMeasured
<1>2. Tokens = [chunk \in S |-> EstimateTokens(JoinedLen(chunk), CharsPerToken)]
      /\ Caps.texts = MaxBatchTexts /\ Caps.tokens = MaxBatchTokens
  BY DEF Tokens, Caps
<1> HIDE DEF S
<1>3. /\ Batches \in Seq(Seq(S)) /\ FlattenSeq(Batches) = chunks
      /\ \A i \in 1..Len(Batches) : WithinCaps(Batches[i], Tokens, Caps)
      /\ \A i \in 1..(Len(Batches) - 1) :
            FullBefore(Batches[i], Batches[i + 1], Tokens, Caps)
  BY <1>1, RequestsHoldAll DEF Batches
<1>4. ASSUME NEW c \in S PROVE Tokens[c] <= MaxBatchTokens
  <2>1. JoinedLen(c) \in Nat /\ JoinedLen(c) <= ChunkSize /\ ChunkSize \in Nat
    BY <1>1, JoinedLenType, Parameters DEF Chunk
  <2>2. JoinedLen(c) \div CharsPerToken <= ChunkSize \div CharsPerToken
    BY <2>1, LinesAndCaps, SmallerQuotient
  <2>3. JoinedLen(c) \div CharsPerToken \in Int /\ ChunkSize \div CharsPerToken \in Int
    BY <2>1, LinesAndCaps
  <2>4. EstimateTokens(JoinedLen(c), CharsPerToken) <= MaxBatchTokens
    BY <2>2, <2>3, LinesAndCaps DEF EstimateTokens, ChunksFitRequests
  <2> QED
    BY <1>2, <2>4
<1>5. ASSUME NEW i \in DOMAIN Batches
      PROVE  Len(Batches[i]) \in 1..MaxBatchTexts /\ TokensOf(Batches[i], Tokens) <= MaxBatchTokens
  <2> DEFINE batch == Batches[i]
  <2>1. batch \in Seq(S) /\ WithinCaps(batch, Tokens, Caps)
    BY <1>3
  <2> HIDE DEF batch
  <2>2. /\ Len(batch) \in 1..MaxBatchTexts
        /\ TokensOf(batch, Tokens) <= MaxBatchTokens \/ Len(batch) = 1
    BY <1>2, <2>1 DEF WithinCaps
  <2>3. ASSUME Len(batch) = 1 PROVE TokensOf(batch, Tokens) <= MaxBatchTokens
    <3>1. batch[1] \in S /\ batch = <<batch[1]>>
      BY <2>1, <2>3
    <3>2. TokensOf(<<batch[1]>>, Tokens) = Tokens[batch[1]]
      BY <1>1, <3>1, FirstTokens
    <3> QED
      BY <1>4, <3>1, <3>2
  <2> QED
    BY <2>2, <2>3 DEF batch
<1>6. ASSUME NEW i \in 1..(Len(Batches) - 1)
      PROVE  \/ Len(Batches[i]) = MaxBatchTexts
             \/ TokensOf(Batches[i], Tokens) + Tokens[Batches[i + 1][1]] > MaxBatchTokens
  BY <1>2, <1>3 DEF FullBefore
<1> QED
  BY <1>3, <1>5, <1>6 DEF RequestsFillCaps

\* Where a chunk fits a request, every request keeps both caps, the requests hold
\* the chunks in order, and none has room for the first text of the next one
\* (embedding_service.py:60-63).
THEOREM RequestsKeepCaps ==
    ASSUME ChunksFitRequests
    PROVE  Spec => []RequestsFillCaps
<1>1. TextInv => RequestsFillCaps
  BY RequestsOfChunks
<1> QED
  BY <1>1, Invariant, PTL

-----------------------------------------------------------------------------
(* From the upload to the index *)

\* The invariant gives it in every state.
LEMMA Searchable ==
    ASSUME TextInv
    PROVE  ReadyIsSearchable
<1>1. lines \in Seq(Line) /\ chunks = ChunksOf(lines)
  BY DEF TextInv
<1>2. ASSUME NEW mime \in Accepted
      PROVE  Status(mime) = "ready" <=> HasProse(lines)
  <2>1. mime \in {"pdf", "html", "docx", "plain", "markdown"}
    BY DEF Accepted, In!Response, In!ALLOWED_MIME_TYPES
  <2>2. mime \in DOMAIN In!ProseMimeExtensions
    BY <2>1 DEF In!ProseMimeExtensions
  <2>3. \A i \in DOMAIN lines : LengthOf(lines[i]) = 0 <=> lines[i].kind = Blank
    <3>1. \A i \in DOMAIN lines : lines[i] \in Line
      BY <1>1
    <3> QED
      BY <3>1, SizeType
  <2>4. In!Parses(mime, lines) <=> HasProse(lines)
    BY <2>2, <2>3 DEF In!Parses, In!HasText, C!IsBlank, HasProse
  <2> QED
    BY <2>4 DEF Status
<1>3. ASSUME HasProse(lines) PROVE chunks # <<>> /\ Batches # <<>>
  <2>1. chunks \in Seq(Chunk \ {<<>>}) /\ chunks # <<>>
    BY <1>1, <1>3, ChunksType
  <2>2. FlattenSeq(Batches) = chunks
    BY ChunksMeasured, RequestsHoldAll DEF Batches
  <2>3. FlattenSeq(<<>>) = <<>>
    BY DEF FlattenSeq
  <2> QED
    BY <2>1, <2>2, <2>3
<1> QED
  BY <1>2, <1>3 DEF ReadyIsSearchable, HasProse

\* Whatever an upload accepts has a parser, and if it finds any text at all, no
\* step behind it loses all of it: what becomes ready can be found, and what
\* cannot fails (document_service.py:25-27).
THEOREM ReadyCanBeFound == Spec => []ReadyIsSearchable
BY Searchable, Invariant, PTL


-----------------------------------------------------------------------------
(* What a chunk keeps of the document *)

\* The text the chunks are cut from.
Cleaned == TextOf(C!CleanMarkdown(lines))

\* It is a text, the chunks are lists of atoms, and there are none only of no text.
LEMMA CleanedType ==
    ASSUME TextInv
    PROVE  /\ Cleaned \in Seq(Run) /\ chunks = ChunkMarkdown(Cleaned)
           /\ chunks \in Seq(Seq(Text)) /\ chunks \in Seq(Seq(Atom))
           /\ Cleaned = <<>> => chunks = <<>>
<1>1. lines \in Seq(Line) /\ chunks = ChunkMarkdown(Cleaned)
  BY DEF TextInv, ChunksOf, Cleaned
<1>2. Cleaned \in Seq(Run)
  BY <1>1, CleanType, TextOfType DEF Cleaned
<1>3. chunks \in Seq(Chunk \ {<<>>})
  BY <1>1, <1>2, ChunkMarkdownType
<1>4. chunks \in Seq(Seq(Atom)) /\ chunks \in Seq(Seq(Text))
  <2>1. Chunk \ {<<>>} \subseteq Seq(Atom)
    BY DEF Chunk
  <2>2. Atom \subseteq Text
    BY DEF Atom
  <2> QED
    BY <1>3, <2>1, <2>2
<1>5. ASSUME Cleaned = <<>> PROVE chunks = <<>>
  <2>1. Divided(<<>>) = <<>>
    <3>1. ASSUME NEW kind PROVE Divide(<<>>, kind) = <<>>
      <4> DEFINE none == <<>>
                 divided == Divide(none, kind)
      <4>1. none \in Seq(Text) /\ ToSet(none) = {}
        BY DEF ToSet
      <4> HIDE DEF none
      <4>2. divided \in Seq(Text)
        BY <4>1, DivideType
      <4>3. \A x : x \notin ToSet(divided)
        BY <4>1, DivideMembers
      <4> HIDE DEF divided
      <4>4. divided = <<>>
        BY <4>2, <4>3, Members
      <4> QED
        BY <4>4 DEF divided, none
    <3> QED
      BY <3>1 DEF Divided, Whole
  <2>2. Atomize(<<>>) = <<>>
    <3> DEFINE none == <<>>
               atoms == Atomize(none)
               texts == Divided(none)
    <3>1. none \in Seq(Run) /\ none = <<>> /\ ToSet(none) = {}
      BY DEF ToSet
    <3> HIDE DEF none
    <3>2. atoms \in Seq(Atom)
      BY <3>1, AtomizeType
    <3>3. texts = none
      BY <2>1 DEF none
    <3> HIDE DEF texts
    <3>4. \A x : x \notin ToSet(atoms)
      <4>1. \A x : x \in ToSet(atoms) <=> \E t \in ToSet(texts) : x \in ToSet(AtomsOf(t))
        BY <3>1, AtomizeMembers DEF texts
      <4> QED
        BY <3>1, <3>3, <4>1
    <3> HIDE DEF atoms
    <3>5. atoms = <<>>
      BY <3>2, <3>4, Members
    <3> QED
      BY <3>5 DEF atoms, none
  <2>3. PICK f : /\ Packs(f, <<>>, 0)
                 /\ ChunkMarkdown(<<>>) = IF f[0].current = <<>> THEN f[0].chunks
                                          ELSE Append(f[0].chunks, f[0].current)
    <3>1. <<>> \in Seq(Run) /\ Len(<<>>) = 0
      OBVIOUS
    <3> QED
      BY <2>2, <3>1, PackSteps
  <2> QED
    BY <1>1, <1>5, <2>3 DEF Packs, PackStart
<1> QED
  BY <1>1, <1>2, <1>4, <1>5

\* The atoms of the cleaned text, in order, and the chunks that are stretches of them.
LEMMA CleanedPlaces ==
    ASSUME TextInv
    PROVE  /\ AtomsInOrder(Atomize(Cleaned), CharsOf(Cleaned))
           /\ CharsOf(Cleaned) = CharsOfLines(C!CleanMarkdown(lines))
           /\ chunks # <<>> =>
                /\ Len(Atomize(Cleaned)) \in Nat \ {0}
                /\ \E from, to :
                     Stretches(chunks, Atomize(Cleaned), Len(Atomize(Cleaned)), from, to)
<1>1. lines \in Seq(Line) /\ Related(lines, LineBefore)
  BY DEF TextInv
<1>2. C!CleanMarkdown(lines) \in Seq(Line) /\ Related(C!CleanMarkdown(lines), LineBefore)
  BY <1>1, CleanType
<1>3. Placed(Cleaned) /\ CharsOf(Cleaned) = CharsOfLines(C!CleanMarkdown(lines))
  BY <1>2, TextOfPlaces DEF Cleaned
<1>4. /\ Cleaned \in Seq(Run) /\ chunks = ChunkMarkdown(Cleaned)
      /\ Cleaned = <<>> => chunks = <<>>
  BY CleanedType
<1>5. AtomsInOrder(Atomize(Cleaned), CharsOf(Cleaned))
  BY <1>3, <1>4, AtomizeInOrder
<1> QED
  BY <1>3, <1>4, <1>5, ChunksStretch

\* Of the characters two chunks share there are never more than the overlap, however
\* far apart in the list they are (chunking_service.py:149-158).
THEOREM SharedWithinOverlap == Spec => []OverlapBounded
<1>1. TextInv => OverlapBounded
  <2> SUFFICES ASSUME TextInv, NEW i \in DOMAIN chunks, NEW j \in DOMAIN chunks, i < j
               PROVE  Cardinality(CharsIn(chunks[i]) \cap CharsIn(chunks[j])) <= Overlap
    BY DEF OverlapBounded
  <2>1. chunks \in Seq(Seq(Atom))
    BY CleanedType
  <2>2. i \in 1..Len(chunks) /\ j \in 1..Len(chunks) /\ chunks # <<>>
    BY <2>1
  <2> DEFINE atoms == Atomize(Cleaned)
             n == Len(atoms)
  <2>3. AtomsInOrder(atoms, CharsOf(Cleaned))
        /\ \E from, to : Stretches(chunks, atoms, n, from, to)
    BY <2>2, CleanedPlaces
  <2> HIDE DEF atoms
  <2>4. PICK from, to : Stretches(chunks, atoms, n, from, to)
    BY <2>3
  <2> QED
    BY <2>2, <2>3, <2>4, StretchesShare
<1> QED
  BY <1>1, Invariant, PTL

\* A set of numbers from one of its own to another has them as its least and greatest.
LEMMA Extremes ==
    ASSUME NEW lo \in Nat, NEW hi \in Nat, NEW S, S \subseteq lo..hi, lo \in S, hi \in S
    PROVE  Min(S) = lo /\ Max(S) = hi
<1>1. \A x \in S : x \in Nat /\ lo <= x /\ x <= hi
  OBVIOUS
<1>2. Min(S) \in S /\ \A y \in S : Min(S) <= y
  BY <1>1 DEF Min
<1>3. Max(S) \in S /\ \A y \in S : Max(S) >= y
  BY <1>1 DEF Max
<1>4. Min(S) \in Nat /\ Max(S) \in Nat /\ lo <= Min(S) /\ Min(S) <= lo /\ Max(S) <= hi /\ hi <= Max(S)
  BY <1>1, <1>2, <1>3
<1> QED
  BY <1>4

\* What the chunks hold, in the places of the atoms: all of it, each behind the last.
LEMMA ChunksHold ==
    ASSUME TextInv
    PROVE  /\ CharsOf(Cleaned) = UNION {CharsIn(chunks[i]) : i \in DOMAIN chunks}
           /\ \A i \in 1..(Len(chunks) - 1) :
                 /\ Min(CharsIn(chunks[i])) < Min(CharsIn(chunks[i + 1]))
                 /\ Max(CharsIn(chunks[i])) < Max(CharsIn(chunks[i + 1]))
<1> DEFINE atoms == Atomize(Cleaned)
           n == Len(atoms)
           m == Len(chunks)
<1>1. /\ Cleaned \in Seq(Run) /\ chunks = ChunkMarkdown(Cleaned) /\ chunks \in Seq(Seq(Atom))
      /\ Cleaned = <<>> => chunks = <<>>
  BY CleanedType
<1>2. m \in Nat /\ DOMAIN chunks = 1..m
  BY <1>1
<1>3. AtomsInOrder(atoms, CharsOf(Cleaned))
      /\ (chunks # <<>> => n \in Nat \ {0} /\ \E from, to : Stretches(chunks, atoms, n, from, to))
  BY CleanedPlaces
<1>4. CASE chunks = <<>>
  <2>1. Cleaned = <<>>
    BY <1>1, <1>4, ChunkMarkdownType
  <2>2. CharsOf(Cleaned) = {} /\ DOMAIN chunks = {} /\ 1..(m - 1) = {}
    <3>1. m = 0 /\ 1..0 = {} /\ 1..(0 - 1) = {}
      BY <1>4
    <3> QED
      BY <1>2, <2>1, <3>1 DEF CharsOf
  <2> QED
    BY <2>2
<1>5. CASE chunks # <<>>
  <2>1. n \in Nat \ {0}
    BY <1>3, <1>5
  <2>2. PICK from, to : Stretches(chunks, atoms, n, from, to)
    BY <1>3, <1>5
  <2> HIDE DEF atoms, m
  <2>3. /\ from \in [1..m -> 1..n] /\ to \in [1..m -> 1..n]
        /\ \A i \in 1..m : from[i] <= to[i] /\ chunks[i] = SubSeq(atoms, from[i], to[i])
        /\ \A i \in 1..(m - 1) : from[i] < from[i + 1] /\ to[i] < to[i + 1]
    BY <2>2 DEF Stretches, m
  <2>4. /\ atoms \in Seq(Atom) /\ n \in Nat
        /\ \A k \in 1..n :
             Start(atoms[k]) \in Nat /\ End(atoms[k]) \in Nat /\ Start(atoms[k]) < End(atoms[k])
        /\ \A j, k \in 1..n : j < k =>
             Start(atoms[j]) < Start(atoms[k]) /\ End(atoms[j]) < End(atoms[k])
    BY <1>3, InOrderAtoms
  <2>5. \A i \in 1..m : from[i] \in 1..n /\ to[i] \in 1..n /\ to[i] \in from[i]..n
    BY <2>3, <2>4
  <2>6. ASSUME NEW i \in 1..m
        PROVE  /\ \A c : c \in CharsIn(chunks[i])
                           <=> \E k \in from[i]..to[i] : c \in CharsOf(atoms[k])
               /\ Min(CharsIn(chunks[i])) = Start(atoms[from[i]])
               /\ Max(CharsIn(chunks[i])) = End(atoms[to[i]]) - 1
    <3> DEFINE lo == Start(atoms[from[i]])
               hi == End(atoms[to[i]]) - 1
    <3>1. /\ \A c : c \in CharsIn(chunks[i])
                      <=> \E k \in from[i]..to[i] : c \in CharsOf(atoms[k])
          /\ CharsIn(chunks[i]) \subseteq lo..hi /\ lo \in CharsIn(chunks[i])
          /\ hi \in CharsIn(chunks[i])
      <4> DEFINE part == chunks[i]
                 first == from[i]
                 last == to[i]
      <4>1. IsStretch(part, atoms, first, last) /\ first \in 1..n /\ last \in first..n
        BY <2>3, <2>5 DEF IsStretch
      <4> HIDE DEF part, first, last
      <4>2. /\ \A c : c \in CharsIn(part) <=> \E k \in first..last : c \in CharsOf(atoms[k])
            /\ CharsIn(part) \subseteq Start(atoms[first])..(End(atoms[last]) - 1)
            /\ Start(atoms[first]) \in CharsIn(part) /\ End(atoms[last]) - 1 \in CharsIn(part)
        BY <1>3, <4>1, StretchExtent
      <4> QED
        BY <4>2 DEF part, first, last
    <3>2. lo \in Nat /\ hi \in Nat
      BY <2>4, <2>5
    <3>3. Min(CharsIn(chunks[i])) = lo /\ Max(CharsIn(chunks[i])) = hi
      <4> HIDE DEF lo, hi
      <4> QED
        BY <3>1, <3>2, Extremes
    <3> QED
      BY <3>1, <3>3
  <2>7. CharsOf(Cleaned) = UNION {CharsIn(chunks[i]) : i \in DOMAIN chunks}
    <3>1. CharsIn(atoms) = CharsOf(Cleaned)
      BY <1>3 DEF AtomsInOrder
    <3>2. \A c : c \in CharsIn(atoms) <=> \E k \in 1..n : c \in CharsOf(atoms[k])
      <4>1. DOMAIN atoms = 1..n
        BY <2>4
      <4> QED
        BY <4>1 DEF CharsIn
    <3>3. \A k \in 1..n : \E i \in 1..m : k \in from[i]..to[i]
      BY <2>1, <2>2, EveryAtom DEF m
    <3>4. ASSUME NEW i \in 1..m, NEW k \in from[i]..to[i] PROVE k \in 1..n
      <4>1. from[i] \in 1..n /\ to[i] \in 1..n /\ n \in Nat
        BY <2>4, <2>5
      <4> QED
        BY <4>1
    <3>5. ASSUME NEW c
          PROVE  (\E k \in 1..n : c \in CharsOf(atoms[k]))
                   <=> \E i \in 1..m : c \in CharsIn(chunks[i])
      BY <2>6, <3>3, <3>4
    <3> QED
      BY <1>2, <3>1, <3>2, <3>5 DEF m
  <2>8. ASSUME NEW i \in 1..(m - 1)
        PROVE  /\ Min(CharsIn(chunks[i])) < Min(CharsIn(chunks[i + 1]))
               /\ Max(CharsIn(chunks[i])) < Max(CharsIn(chunks[i + 1]))
    <3>1. i \in 1..m /\ i + 1 \in 1..m
      BY <1>2 DEF m
    <3>2. Start(atoms[from[i]]) < Start(atoms[from[i + 1]])
          /\ End(atoms[to[i]]) < End(atoms[to[i + 1]])
          /\ End(atoms[to[i]]) \in Nat /\ End(atoms[to[i + 1]]) \in Nat
      BY <2>3, <2>4, <2>5, <3>1
    <3>3. End(atoms[to[i]]) - 1 < End(atoms[to[i + 1]]) - 1
      BY <3>2
    <3> QED
      BY <2>6, <3>1, <3>2, <3>3
  <2> QED
    BY <2>7, <2>8 DEF m
<1> QED
  BY <1>4, <1>5

\* The length of a line is that of its kind.
LEMMA LengthOfKind ==
    ASSUME NEW line \in Line, NEW other \in Line, line.kind = other.kind
    PROVE  LengthOf(line) = LengthOf(other)
BY DEF LengthOf, Size, Pieces

\* The cleaner counts as this module does.
LEMMA SameCount ==
    ASSUME NEW S
    PROVE  C!Cardinality(S) = Cardinality(S)
BY DEF C!Cardinality, Cardinality

\* A line that is not blank is kept if and only if it is no furniture.
LEMMA KeptProse ==
    ASSUME lines \in Seq(Line), NEW i \in DOMAIN lines, lines[i].kind # Blank
    PROVE  Keeps(lines[i], lines) <=> ~Furniture(i)
<1> DEFINE counted == C!Counted(lines)
           line == lines[i]
<1>1. DOMAIN lines = 1..Len(lines) /\ \A j \in DOMAIN lines : lines[j] \in Line
  OBVIOUS
<1>2. \A j \in DOMAIN lines : LengthOf(lines[j]) \in Nat
  BY <1>1, SizeType
<1>3. LengthOf(line) # 0
  BY <1>1, SizeType
<1>4. counted = {j \in DOMAIN lines : LengthOf(lines[j]) \in 1..MaxBoilerplateLen}
  BY DEF C!Counted
<1>5. \A text : text \in C!Repeated(lines)
                  <=> /\ \E j \in counted : text = lines[j].kind
                      /\ Cardinality({j \in counted : lines[j].kind = text}) >= MinRepeats
  BY SameCount DEF C!Repeated
<1> HIDE DEF counted
<1>6. MaxBoilerplateLen \in Nat
  BY LinesAndCaps
<1>7. ASSUME LengthOf(line) <= MaxBoilerplateLen
      PROVE  i \in counted /\ {j \in counted : lines[j].kind = line.kind} = Alike(i)
  <2>1. LengthOf(line) \in 1..MaxBoilerplateLen
    BY <1>2, <1>3, <1>6, <1>7
  <2>2. \A j \in DOMAIN lines : lines[j].kind = line.kind => LengthOf(lines[j]) = LengthOf(line)
    BY <1>1, LengthOfKind
  <2> QED
    BY <1>4, <2>1, <2>2 DEF Alike
<1>8. line.kind \in C!Repeated(lines)
        <=> LengthOf(line) <= MaxBoilerplateLen /\ Cardinality(Alike(i)) >= MinRepeats
  <2>1. ASSUME line.kind \in C!Repeated(lines) PROVE LengthOf(line) <= MaxBoilerplateLen
    <3>1. PICK j \in counted : lines[j].kind = line.kind
      BY <1>5, <2>1
    <3>2. LengthOf(lines[j]) = LengthOf(line) /\ LengthOf(lines[j]) \in 1..MaxBoilerplateLen
      BY <1>1, <1>4, <3>1, LengthOfKind
    <3> QED
      BY <1>6, <3>2
  <2>2. ASSUME LengthOf(line) <= MaxBoilerplateLen
        PROVE  line.kind \in C!Repeated(lines) <=> Cardinality(Alike(i)) >= MinRepeats
    BY <1>5, <1>7, <2>2
  <2> QED
    BY <2>1, <2>2
<1> QED
  BY <1>8 DEF Keeps, Furniture

\* The characters the cleaned lines have are those worth finding.
LEMMA CleanedContent ==
    ASSUME TextInv
    PROVE  CharsOfLines(C!CleanMarkdown(lines)) = Content
<1> DEFINE kept == Only(lines, Chosen(lines))
           charsAt(i) == CharsOf(RunsOf(lines[i]))
<1>1. lines \in Seq(Line) /\ \A i \in DOMAIN lines : lines[i] \in Line
  BY DEF TextInv
<1>2. /\ kept \in Seq(Line) /\ ToSet(kept) = Chosen(lines)
      /\ C!CleanMarkdown(lines) = IF HasProse(kept) THEN kept ELSE lines
  BY <1>1, CleanIs
<1> HIDE DEF kept
<1>3. \A i \in DOMAIN lines : lines[i].kind # Blank => (Keeps(lines[i], lines) <=> i \in Prose)
  BY <1>1, KeptProse DEF Prose
<1>4. \A i \in Prose : i \in DOMAIN lines /\ lines[i].kind # Blank
  BY DEF Prose
<1>5. \A line \in Chosen(lines) : \E i \in DOMAIN lines : line = lines[i] /\ Keeps(line, lines)
  BY DEF Chosen, ToSet
<1>6. \A i \in DOMAIN lines : Keeps(lines[i], lines) => lines[i] \in Chosen(lines)
  BY DEF Chosen, ToSet
<1>7. \A i \in DOMAIN lines : lines[i].kind = Blank => charsAt(i) = {}
  <2> SUFFICES ASSUME NEW i \in DOMAIN lines, lines[i].kind = Blank PROVE charsAt(i) = {}
    OBVIOUS
  <2>1. Pieces(lines[i]) = <<>>
    BY <1>1, PiecesType
  <2>2. DOMAIN RunsOf(lines[i]) = {}
    BY <2>1 DEF RunsOf
  <2> QED
    BY <2>2 DEF CharsOf
<1>8. HasProse(kept) <=> Prose # {}
  <2>1. HasProse(kept) <=> \E line \in ToSet(kept) : line.kind # Blank
    <3>1. ToSet(kept) = {kept[i] : i \in DOMAIN kept}
      BY DEF ToSet
    <3> QED
      BY <3>1 DEF HasProse
  <2> QED
    BY <1>2, <1>3, <1>4, <1>5, <1>6, <2>1
<1>9. CASE Prose = {}
  <2>1. C!CleanMarkdown(lines) = lines /\ Content = UNION {charsAt(i) : i \in DOMAIN lines}
    BY <1>2, <1>8, <1>9 DEF Content
  <2>2. CharsOfLines(lines) = UNION {charsAt(i) : i \in DOMAIN lines}
    BY DEF CharsOfLines, ToSet
  <2> QED
    BY <2>1, <2>2
<1>10. CASE Prose # {}
  <2>1. C!CleanMarkdown(lines) = kept /\ Content = UNION {charsAt(i) : i \in Prose}
    BY <1>2, <1>8, <1>10 DEF Content
  <2>2. CharsOfLines(kept) = UNION {CharsOf(RunsOf(line)) : line \in Chosen(lines)}
    BY <1>2 DEF CharsOfLines
  <2>3. ASSUME NEW c PROVE (\E line \in Chosen(lines) : c \in CharsOf(RunsOf(line)))
                             <=> \E i \in Prose : c \in charsAt(i)
    <3>1. ASSUME NEW line \in Chosen(lines), c \in CharsOf(RunsOf(line))
          PROVE  \E i \in Prose : c \in charsAt(i)
      <4>1. PICK i \in DOMAIN lines : line = lines[i] /\ Keeps(line, lines)
        BY <1>5
      <4>2. lines[i].kind # Blank
        BY <1>7, <3>1, <4>1
      <4> QED
        BY <1>3, <3>1, <4>1, <4>2
    <3>2. ASSUME NEW i \in Prose, c \in charsAt(i)
          PROVE  \E line \in Chosen(lines) : c \in CharsOf(RunsOf(line))
      BY <1>3, <1>4, <1>6, <3>2
    <3> QED
      BY <3>1, <3>2
  <2> QED
    BY <2>1, <2>2, <2>3
<1> QED
  BY <1>9, <1>10

\* Every character that is no furniture is in a chunk and no other is, and the chunks
\* are in the order of the document (cleaning_service.py:51-59,
\* chunking_service.py:126-158).
THEOREM NoCharacterLost == Spec => []NothingLost
<1>1. TextInv => NothingLost
  BY CleanedPlaces, CleanedContent, ChunksHold DEF NothingLost
<1> QED
  BY <1>1, Invariant, PTL

\* No boundary cuts a block of the cleaned document that fits a chunk
\* (chunking_service.py:10-22): at whatever level it is one, some chunk has all of it.
THEOREM FittingBlocksStay == Spec => []FittingStaysWhole
<1>1. TextInv => FittingStaysWhole
  <2> SUFFICES ASSUME TextInv, NEW block \in Blocks, TextLen(block) <= ChunkSize
               PROVE  \E i \in DOMAIN chunks : CharsOf(block) \subseteq CharsIn(chunks[i])
    BY DEF FittingStaysWhole
  <2>1. Cleaned \in Seq(Run) /\ chunks = ChunkMarkdown(Cleaned) /\ chunks \in Seq(Seq(Text))
    BY CleanedType
  <2>2. block \in BlocksOf(Cleaned)
    BY DEF Blocks, BlocksOf, Cleaned
  <2>3. Cleaned # <<>>
    <3>1. ASSUME Cleaned = <<>> PROVE PiecesIn({Cleaned}, "paragraph") = {}
      <4>1. Split(Cleaned, "paragraph") = <<>>
        <5> DEFINE acc == SplitEnd(Cleaned, "paragraph")
        <5>1. acc = SplitStart /\ Split(Cleaned, "paragraph") = AllPieces(acc)
          BY <2>1, <3>1, SplitAppend
        <5>2. AllPieces(SplitStart) = <<>>
          BY DEF AllPieces, SplitStart
        <5> QED
          BY <5>1, <5>2, Zenon
      <4> QED
        BY <4>1 DEF PiecesIn, ToSet
    <3> QED
      BY <2>2, <3>1 DEF BlocksOf, PiecesIn
  <2>4. Cleaned \in Text
    BY <2>1, <2>3 DEF Text
  <2>5. PICK atom \in ToSet(Atomize(Cleaned)) : ToSet(block) \subseteq ToSet(atom)
    BY <2>2, <2>4, FittingBlocks
  <2>6. PICK i \in DOMAIN chunks : atom \in ToSet(chunks[i])
    BY <2>1, <2>3, AtomInChunk
  <2>7. chunks[i] \in Seq(Text)
    BY <2>1, <2>6
  <2>8. atom \in Seq(Run) /\ block \in Seq(Run)
    <3>1. ToSet(chunks[i]) \subseteq Text
      BY <2>7, Members
    <3>2. block \in Text
      BY <2>2, <2>4, BlocksType
    <3> QED
      BY <2>6, <3>1, <3>2 DEF Text
  <2>9. CharsOf(block) \subseteq CharsOf(atom)
    BY <2>5, <2>8, CharsWithin
  <2>10. CharsOf(atom) \subseteq CharsIn(chunks[i])
    BY <2>6, <2>7, CharsMembers
  <2> QED
    BY <2>9, <2>10
<1> QED
  BY <1>1, Invariant, PTL


-----------------------------------------------------------------------------
(* Paragraphs *)

\* The paragraphs of a text that a blank line has ended, and the one that goes on,
\* as sets of characters.
ClosedIn(acc) == {CharsOf(block) : block \in ToSet(acc.pieces)}
Closed(text) == ClosedIn(SplitEnd(text, "paragraph"))
Open(text) == CharsOf(SplitEnd(text, "paragraph").open)

\* A text that is not empty has characters.
LEMMA TextHasChars ==
    ASSUME NEW text \in Text
    PROVE  CharsOf(text) # {}
<1>1. text \in Seq(Run) /\ text # <<>>
  BY DEF Text
<1>2. 1 \in DOMAIN text /\ text[1] \in Run
  BY <1>1
<1>3. text[1].at \in CharsOfRun(text[1])
  BY <1>2 DEF Run, CharsOfRun
<1> QED
  BY <1>2, <1>3 DEF CharsOf

\* The paragraphs of a text are those, and the one that goes on if it has begun.
LEMMA ParagraphsAre ==
    ASSUME NEW text \in Seq(Run), NEW acc, acc = SplitEnd(text, "paragraph")
    PROVE  /\ acc \in SplitAcc /\ (acc.open = <<>> <=> Open(text) = {})
           /\ {CharsOf(block) : block \in ToSet(Split(text, "paragraph"))}
                = Closed(text) \cup ({Open(text)} \ {{}})
           /\ text = <<>> => Closed(text) = {} /\ Open(text) = {}
<1>1. /\ acc \in SplitAcc /\ Split(text, "paragraph") = AllPieces(acc)
      /\ text = <<>> => acc = SplitStart
  BY SplitAppend
<1>2. acc.pieces \in Seq(Text) /\ acc.open \in Seq(Run)
  BY <1>1 DEF SplitAcc
<1>3. acc.open = <<>> <=> Open(text) = {}
  <2>1. acc.open = <<>> => CharsOf(acc.open) = {}
    BY DEF CharsOf
  <2>2. acc.open # <<>> => acc.open \in Text
    BY <1>2 DEF Text
  <2> QED
    BY <2>1, <2>2, TextHasChars DEF Open
<1>4. ASSUME acc.open # <<>>
      PROVE  ToSet(AllPieces(acc)) = ToSet(acc.pieces) \cup {acc.open}
  <2>1. acc.open \in Text
    BY <1>2, <1>4 DEF Text
  <2> QED
    BY <1>2, <1>4, <2>1, Members DEF AllPieces
<1>5. acc.open = <<>> => ToSet(AllPieces(acc)) = ToSet(acc.pieces)
  BY DEF AllPieces
<1>6. {CharsOf(block) : block \in ToSet(AllPieces(acc))} = Closed(text) \cup ({Open(text)} \ {{}})
  <2>1. Closed(text) = {CharsOf(block) : block \in ToSet(acc.pieces)} /\ Open(text) = CharsOf(acc.open)
    BY DEF Closed, ClosedIn, Open
  <2> QED
    BY <1>3, <1>4, <1>5, <2>1
<1>7. text = <<>> => Closed(text) = {} /\ Open(text) = {}
  <2>1. SplitStart.pieces = <<>> /\ SplitStart.open = <<>>
    BY DEF SplitStart
  <2>2. ToSet(<<>>) = {} /\ CharsOf(<<>>) = {}
    BY DEF ToSet, CharsOf
  <2> QED
    BY <1>1, <2>1, <2>2 DEF Closed, ClosedIn, Open
<1> QED
  BY <1>1, <1>3, <1>6, <1>7

\* Runs that end no paragraph lengthen the one that goes on.
LEMMA OpenGrows ==
    ASSUME NEW text \in Seq(Run), NEW more \in Seq({run \in Run : run.sep # "paragraph"})
    PROVE  /\ more \in Seq(Run) /\ Closed(text \o more) = Closed(text)
           /\ Open(text \o more) = Open(text) \cup CharsOf(more)
<1> DEFINE Inner == {run \in Run : run.sep # "paragraph"}
           end == SplitEnd(text, "paragraph")
           Grown(s) == SplitEnd(text \o s, "paragraph")
           P == {s \in Seq(Inner) : /\ Grown(s).pieces = end.pieces
                                    /\ Grown(s).open = end.open \o s}
<1>1. end \in SplitAcc /\ end.open \in Seq(Run)
  BY SplitAppend DEF SplitAcc
<1>2. \A s \in Seq(Inner) : s \in Seq(Run)
  OBVIOUS
<1>3. <<>> \in P
  <2>1. text \o <<>> = text /\ end.open \o <<>> = end.open
    BY <1>1
  <2> HIDE DEF end
  <2>2. Grown(<<>>) = end
    BY <2>1, Zenon DEF end
  <2>3. Grown(<<>>).pieces = end.pieces /\ Grown(<<>>).open = end.open \o <<>>
    BY <2>1, <2>2, Zenon
  <2>4. <<>> \in Seq(Inner)
    OBVIOUS
  <2> HIDE DEF Grown
  <2> QED
    BY <2>3, <2>4, Zenon
<1>4. ASSUME NEW s \in Seq(Inner), NEW x \in Inner, s \in P PROVE Append(s, x) \in P
  <2>1. s \in Seq(Run) /\ x \in Run /\ x.sep # "paragraph" /\ Append(s, x) \in Seq(Inner)
    BY <1>2
  <2>2. text \o Append(s, x) = Append(text \o s, x) /\ text \o s \in Seq(Run)
    BY <2>1
  <2>3. Grown(Append(s, x)) = SplitAdd(Grown(s), x, "paragraph") /\ Grown(s) \in SplitAcc
    BY <2>1, <2>2, SplitAppend
  <2>4. SplitAdd(Grown(s), x, "paragraph") = [Grown(s) EXCEPT !.open = Append(@, x)]
    BY <2>1 DEF SplitAdd
  <2>5. Grown(Append(s, x)).pieces = Grown(s).pieces
        /\ Grown(Append(s, x)).open = Append(Grown(s).open, x)
    <3> DEFINE g == Grown(s)
    <3>1. g \in SplitAcc /\ Grown(Append(s, x)) = [g EXCEPT !.open = Append(@, x)]
      BY <2>3, <2>4
    <3> HIDE DEF g
    <3>2. [g EXCEPT !.open = Append(@, x)].pieces = g.pieces
          /\ [g EXCEPT !.open = Append(@, x)].open = Append(g.open, x)
      BY <3>1 DEF SplitAcc
    <3> QED
      BY <3>1, <3>2 DEF g
  <2>6. end.open \o Append(s, x) = Append(end.open \o s, x)
    <3> DEFINE begun == end.open
    <3>1. begun \in Seq(Run)
      BY <1>1
    <3> HIDE DEF begun
    <3>2. begun \o Append(s, x) = Append(begun \o s, x)
      BY <2>1, <3>1
    <3> QED
      BY <3>2 DEF begun
  <2> QED
    BY <1>4, <2>1, <2>5, <2>6
<1>5. more \in P
  <2> HIDE DEF P
  <2> QED
    BY <1>3, <1>4, BuiltUp
<1>6. more \in Seq(Run) /\ Grown(more).pieces = end.pieces /\ Grown(more).open = end.open \o more
  BY <1>2, <1>5
<1>7. CharsOf(end.open \o more) = CharsOf(end.open) \cup CharsOf(more)
  <2> DEFINE begun == end.open
  <2>1. begun \in Seq(Run)
    BY <1>1
  <2> HIDE DEF begun
  <2>2. CharsOf(begun \o more) = CharsOf(begun) \cup CharsOf(more)
    BY <1>6, <2>1, CharsAppend
  <2> QED
    BY <2>2 DEF begun
<1> HIDE DEF end
<1> QED
  BY <1>6, <1>7 DEF Closed, ClosedIn, Open, end


\* Runs that differ in what ends them have the same characters, and so have texts.
LEMMA MarkedChars ==
    ASSUME NEW front \in Seq(Run), NEW run \in Run
    PROVE  CharsOf(Append(front, Marked(run))) = CharsOf(Append(front, run))
<1>1. Marked(run) \in Run /\ CharsOfRun(Marked(run)) = CharsOfRun(run)
  BY MarkLast
<1>2. \A x \in Run : CharsOf(Append(front, x)) = CharsOf(front) \cup CharsOfRun(x)
  BY CharsAppend
<1> QED
  BY <1>1, <1>2

\* A line that is not blank lengthens the paragraph that goes on, a blank one ends it.
LEMMA LineParagraphs ==
    ASSUME NEW someLines \in Seq(Line), NEW line \in Line,
           NEW before, before = TextOf(someLines),
           NEW after, after = TextOf(Append(someLines, line))
    PROVE  /\ line.kind # Blank => /\ Closed(after) = Closed(before)
                                   /\ Open(after) = Open(before) \cup CharsOf(RunsOf(line))
           /\ line.kind = Blank => /\ Closed(after) = Closed(before) \cup ({Open(before)} \ {{}})
                                   /\ Open(after) = {}
<1>1. before \in Seq(Run) /\ after = TextAdd(before, line)
  BY TextAppend
<1>2. CASE line.kind # Blank
  <2> DEFINE runs == RunsOf(line)
             Inner == {run \in Run : run.sep # "paragraph"}
  <2>1. runs \in Seq(Run) /\ \A x \in ToSet(runs) : x.sep # "paragraph"
    BY LineRuns
  <2>2. after = before \o runs
    BY <1>1, <1>2 DEF TextAdd
  <2> HIDE DEF runs
  <2>3. runs \in Seq(Inner)
    <3>1. \A i \in 1..Len(runs) : runs[i] \in Run /\ runs[i] \in ToSet(runs)
      BY <2>1, Members
    <3> QED
      BY <2>1, <3>1
  <2> QED
    BY <1>1, <1>2, <2>2, <2>3, OpenGrows DEF runs
<1>3. CASE line.kind = Blank /\ before = <<>>
  <2>1. after = before
    BY <1>1, <1>3 DEF TextAdd
  <2> QED
    BY <1>1, <1>3, <2>1, ParagraphsAre
<1>4. CASE line.kind = Blank /\ before # <<>>
  <2>1. PICK front \in Seq(Run), run \in Run : before = Append(front, run)
    BY <1>1, <1>4, SequenceEmptyOrAppend, SMTT(60)
  <2>2. /\ after = Append(front, Marked(run)) /\ Marked(run) \in Run
        /\ Marked(run).sep = "paragraph" /\ (run.sep = "paragraph" => Marked(run) = run)
    <3>1. after = [before EXCEPT ![Len(before)].sep = "paragraph"]
      BY <1>1, <1>4 DEF TextAdd
    <3> QED
      BY <2>1, <3>1, MarkLast
  <2> DEFINE kept == SplitEnd(front, "paragraph")
             mark == Marked(run)
             last == Append(kept.open, run)
             ended == Append(kept.open, mark)
  <2>3. kept \in SplitAcc /\ kept.pieces \in Seq(Text) /\ kept.open \in Seq(Run)
    BY SplitAppend DEF SplitAcc
  <2>4. /\ SplitEnd(before, "paragraph") = SplitAdd(kept, run, "paragraph")
        /\ SplitEnd(after, "paragraph") = SplitAdd(kept, mark, "paragraph")
    BY <2>1, <2>2, SplitAppend
  <2>5. SplitEnd(after, "paragraph") = [pieces |-> Append(kept.pieces, ended), open |-> <<>>]
    BY <2>2, <2>4 DEF SplitAdd
  <2>6. CharsOf(ended) = CharsOf(last) /\ CharsOf(<<>>) = {}
    <3>1. CharsOf(<<>>) = {}
      BY DEF CharsOf
    <3> QED
      BY <2>3, <3>1, MarkedChars
  <2>7. ended \in Text /\ last \in Text
    BY <2>2, <2>3, AppendProperties, SMTT(30) DEF Text
  <2> HIDE DEF kept, mark, last, ended
  <2>8. ToSet(Append(kept.pieces, ended)) = ToSet(kept.pieces) \cup {ended}
    <3> DEFINE pieces == kept.pieces
    <3>1. pieces \in Seq(Text)
      BY <2>3
    <3> HIDE DEF pieces
    <3>2. ToSet(Append(pieces, ended)) = ToSet(pieces) \cup {ended}
      BY <2>7, <3>1, Members
    <3> QED
      BY <3>2 DEF pieces
  <2>9. Closed(after) = ClosedIn(kept) \cup {CharsOf(last)} /\ Open(after) = {}
    <3> DEFINE done == SplitEnd(after, "paragraph")
               more == Append(kept.pieces, ended)
    <3> HIDE DEF more
    <3>1. done.pieces = more /\ done.open = <<>>
      BY <2>5 DEF more
    <3> HIDE DEF done
    <3>2. \A x : x \in ToSet(done.pieces) <=> x \in ToSet(kept.pieces) \/ x = ended
      BY <2>8, <3>1 DEF more
    <3>3. ClosedIn(done) = ClosedIn(kept) \cup {CharsOf(ended)}
      BY <3>2 DEF ClosedIn
    <3>4. CharsOf(done.open) = {}
      BY <2>6, <3>1, Zenon
    <3> QED
      BY <2>6, <3>3, <3>4 DEF Closed, Open, done
  <2>10. CASE run.sep = "paragraph"
    <3>1. after = before
      BY <2>1, <2>2, <2>10
    <3>2. Open(before) = {}
      BY <2>9, <3>1
    <3> QED
      BY <1>4, <3>1, <3>2
  <2>11. CASE run.sep # "paragraph"
    <3>1. SplitEnd(before, "paragraph") = [kept EXCEPT !.open = last]
      BY <2>4, <2>11 DEF SplitAdd, last
    <3>2. [kept EXCEPT !.open = last].pieces = kept.pieces
          /\ [kept EXCEPT !.open = last].open = last
      BY <2>3 DEF SplitAcc
    <3>3. Closed(before) = ClosedIn(kept) /\ Open(before) = CharsOf(last)
      BY <3>1, <3>2 DEF Closed, ClosedIn, Open
    <3>4. CharsOf(last) # {}
      BY <2>7, TextHasChars
    <3> QED
      BY <1>4, <2>9, <3>3, <3>4
  <2> QED
    BY <2>10, <2>11
<1> QED
  BY <1>2, <1>3, <1>4

\* Lines of which some are chosen: blank ones are, and of the others a chosen one has
\* no characters but those wanted, one that is not has none of them.
Sorted(line, chosen, wanted) ==
    IF line.kind = Blank THEN line \in chosen
    ELSE IF line \in chosen THEN CharsOf(RunsOf(line)) \subseteq wanted
    ELSE CharsOf(RunsOf(line)) \cap wanted = {}

\* The paragraphs of the chosen lines are those of all of them, less what is not wanted.
LEMMA ChosenParagraphs ==
    ASSUME NEW someLines \in Seq(Line), NEW chosen, NEW wanted,
           \A line \in ToSet(someLines) : Sorted(line, chosen, wanted)
    PROVE  ParagraphsOf(Only(someLines, chosen))
             = {block \cap wanted : block \in ParagraphsOf(someLines)} \ {{}}
<1> DEFINE Cut(blocks) == {block \cap wanted : block \in blocks} \ {{}}
           Part(s) == TextOf(Only(s, chosen))
           Good(s) == Closed(Part(s)) = Cut(Closed(TextOf(s)))
                      /\ Open(Part(s)) = Open(TextOf(s)) \cap wanted
           P == {s \in Seq(Line) :
                   (\A line \in ToSet(s) : Sorted(line, chosen, wanted)) => Good(s)}
<1>1. <<>> \in P
  <2> DEFINE none == <<>>
  <2>1. none \in Seq(Line) /\ none \in Seq(Run) /\ none = <<>> /\ Only(none, chosen) = none
    BY OnlyNothing
  <2> HIDE DEF none
  <2>2. TextOf(none) = none
    BY <2>1, TextAppend
  <2>3. Closed(none) = {} /\ Open(none) = {}
    BY <2>1, ParagraphsAre
  <2>4. Part(none) = none
    BY <2>1, <2>2, Zenon
  <2>5. Closed(Part(none)) = {} /\ Closed(TextOf(none)) = {} /\ Open(Part(none)) = {}
        /\ Open(TextOf(none)) = {}
    BY <2>2, <2>3, <2>4, Zenon
  <2>6. none \in P
    BY <2>1, <2>5
  <2> QED
    BY <2>6 DEF none
<1>2. ASSUME NEW s \in Seq(Line), NEW line \in Line, s \in P PROVE Append(s, line) \in P
  <2> DEFINE longer == Append(s, line)
             kept == Only(s, chosen)
             t == TextOf(s)
             u == TextOf(longer)
             k == TextOf(kept)
             m == Part(longer)
  <2>1. longer \in Seq(Line) /\ ToSet(longer) = ToSet(s) \cup {line}
    BY Members
  <2> SUFFICES ASSUME \A x \in ToSet(longer) : Sorted(x, chosen, wanted)
               PROVE  Good(longer)
    BY <2>1
  <2>2. Sorted(line, chosen, wanted) /\ Good(s)
    BY <1>2, <2>1
  <2>3. /\ kept \in Seq(Line)
        /\ Only(longer, chosen) = IF line \in chosen THEN Append(kept, line) ELSE kept
    <3>1. \A list \in Seq(Line), x \in Line :
            /\ Only(list, chosen) \in Seq(Line)
            /\ Only(Append(list, x), chosen)
                 = IF x \in chosen THEN Append(Only(list, chosen), x) ELSE Only(list, chosen)
      BY OnlyAppend
    <3> QED
      BY <3>1
  <2>4. /\ line.kind # Blank => Closed(u) = Closed(t) /\ Open(u) = Open(t) \cup CharsOf(RunsOf(line))
        /\ line.kind = Blank => Closed(u) = Closed(t) \cup ({Open(t)} \ {{}}) /\ Open(u) = {}
    BY LineParagraphs
  <2>5. ASSUME line \in chosen
        PROVE  /\ line.kind # Blank => Closed(m) = Closed(k) /\ Open(m) = Open(k) \cup CharsOf(RunsOf(line))
               /\ line.kind = Blank => Closed(m) = Closed(k) \cup ({Open(k)} \ {{}}) /\ Open(m) = {}
    BY <2>3, <2>5, LineParagraphs
  <2>6. line \notin chosen => m = k
    BY <2>3
  <2>7. Closed(k) = Cut(Closed(t)) /\ Open(k) = Open(t) \cap wanted
    BY <2>2
  <2> DEFINE chars == CharsOf(RunsOf(line))
  <2> HIDE DEF longer, kept, t, u, k, m, chars
  <2> SUFFICES Closed(m) = Cut(Closed(u)) /\ Open(m) = Open(u) \cap wanted
    BY DEF m, u, longer
  <2>8. CASE line.kind = Blank
    <3>1. line \in chosen
      BY <2>2, <2>8 DEF Sorted
    <3>2. Cut(Closed(t) \cup ({Open(t)} \ {{}})) = Cut(Closed(t)) \cup ({Open(t) \cap wanted} \ {{}})
      OBVIOUS
    <3> QED
      BY <2>4, <2>5, <2>7, <2>8, <3>1, <3>2
  <2>9. CASE line.kind # Blank
    <3>1. IF line \in chosen THEN chars \subseteq wanted ELSE chars \cap wanted = {}
      BY <2>2, <2>9 DEF Sorted, chars
    <3>2. Closed(u) = Closed(t) /\ Open(u) = Open(t) \cup chars
      BY <2>4, <2>9 DEF chars
    <3>3. Closed(m) = Closed(k) /\ Open(m) = IF line \in chosen THEN Open(k) \cup chars ELSE Open(k)
      BY <2>5, <2>6, <2>9 DEF chars
    <3>4. Open(m) = Open(u) \cap wanted
      BY <2>7, <3>1, <3>2, <3>3
    <3> QED
      BY <2>7, <3>2, <3>3, <3>4
  <2> QED
    BY <2>8, <2>9
<1>3. someLines \in P
  <2> HIDE DEF P
  <2> QED
    BY <1>1, <1>2, BuiltUp
<1>4. Good(someLines)
  BY <1>3
<1>5. \A s \in Seq(Line) : ParagraphsOf(s) = Closed(TextOf(s)) \cup ({Open(TextOf(s))} \ {{}})
  BY TextAppend, ParagraphsAre DEF ParagraphsOf
<1>6. Only(someLines, chosen) \in Seq(Line)
  BY OnlyMembers
<1> DEFINE closed == Closed(TextOf(someLines))
           open == Open(TextOf(someLines))
<1>7. /\ ParagraphsOf(someLines) = closed \cup ({open} \ {{}})
      /\ ParagraphsOf(Only(someLines, chosen)) = Cut(closed) \cup ({open \cap wanted} \ {{}})
  BY <1>4, <1>5, <1>6
<1> HIDE DEF closed, open
<1>8. Cut(closed \cup ({open} \ {{}})) = Cut(closed) \cup ({open \cap wanted} \ {{}})
  OBVIOUS
<1> QED
  BY <1>7, <1>8


\* The characters of a line are within it, and none of a blank one.
LEMMA CharsOfLine ==
    ASSUME NEW line \in Line
    PROVE  /\ CharsOf(RunsOf(line)) \subseteq line.at..(line.at + Size(line) - 1)
           /\ line.kind = Blank => CharsOf(RunsOf(line)) = {}
<1> DEFINE runs == RunsOf(line)
<1>1. /\ runs \in Seq(Run)
      /\ \A x \in ToSet(runs) : line.at <= x.at /\ x.at + x.len <= line.at + Size(line)
  BY LineRuns
<1>2. line.at \in Nat /\ Size(line) \in Nat
  BY SizeType DEF Line
<1>3. CharsOf(runs) = UNION {CharsOfRun(x) : x \in ToSet(runs)} /\ ToSet(runs) \subseteq Run
  BY <1>1, CharsMembers, Members
<1>4. line.kind = Blank => CharsOf(runs) = {}
  <2>1. line.kind = Blank => DOMAIN runs = {}
    BY PiecesType DEF RunsOf
  <2> QED
    BY <2>1 DEF CharsOf
<1> HIDE DEF runs
<1>5. ASSUME NEW x \in ToSet(runs), NEW c \in CharsOfRun(x)
      PROVE  c \in line.at..(line.at + Size(line) - 1)
  <2>1. x.at \in Nat /\ x.len \in Nat /\ c \in x.at..(x.at + x.len - 1)
    BY <1>3 DEF Run, CharsOfRun
  <2>2. line.at <= x.at /\ x.at + x.len <= line.at + Size(line)
    BY <1>1
  <2> QED
    BY <1>2, <2>1, <2>2
<1> QED
  BY <1>3, <1>4, <1>5 DEF runs

\* Blank lines are kept, other lines with all of their characters or none of them.
LEMMA LinesSorted ==
    ASSUME TextInv, HasProse(Only(lines, Chosen(lines))), NEW line \in ToSet(lines)
    PROVE  Sorted(line, Chosen(lines), Content)
<1> DEFINE kept == Only(lines, Chosen(lines))
<1>1. lines \in Seq(Line) /\ Related(lines, LineBefore)
  BY DEF TextInv
<1>2. ToSet(lines) = {lines[i] : i \in 1..Len(lines)} /\ ToSet(lines) \subseteq Line
  BY <1>1, Members
<1>3. ToSet(kept) = Chosen(lines) /\ C!CleanMarkdown(lines) = kept
  BY <1>1, CleanIs
<1>4. Content = UNION {CharsOf(RunsOf(other)) : other \in Chosen(lines)}
  BY <1>3, CleanedContent DEF CharsOfLines
<1>5. Chosen(lines) \subseteq ToSet(lines)
  BY DEF Chosen
<1>6. CASE line.kind = Blank
  <2>1. Blank \notin TocKinds /\ Blank \notin DigitKinds
    BY LinesAndCaps
  <2>2. Blank \notin C!Repeated(lines)
    <3> SUFFICES ASSUME Blank \in C!Repeated(lines) PROVE FALSE
      OBVIOUS
    <3>1. PICK j \in C!Counted(lines) : lines[j].kind = Blank
      BY DEF C!Repeated
    <3>2. j \in DOMAIN lines /\ LengthOf(lines[j]) \in 1..MaxBoilerplateLen
      BY <3>1 DEF C!Counted
    <3>3. lines[j] \in Line
      BY <1>1, <3>2
    <3>4. LengthOf(lines[j]) = 0
      BY <3>1, <3>3, SizeType
    <3> QED
      BY <3>2, <3>4
  <2>3. line \in Chosen(lines)
    BY <1>6, <2>1, <2>2 DEF Chosen, Keeps
  <2> QED
    BY <1>6, <2>3 DEF Sorted
<1>7. CASE line.kind # Blank /\ line \in Chosen(lines)
  BY <1>4, <1>7 DEF Sorted
<1>8. CASE line.kind # Blank /\ line \notin Chosen(lines)
  <2>1. ASSUME NEW other \in Chosen(lines)
        PROVE  CharsOf(RunsOf(line)) \cap CharsOf(RunsOf(other)) = {}
    <3>1. other \in ToSet(lines) /\ other # line
      BY <1>5, <1>8
    <3>2. PICK i \in 1..Len(lines), j \in 1..Len(lines) : line = lines[i] /\ other = lines[j]
      BY <1>2, <3>1
    <3>3. i < j \/ j < i
      BY <3>1, <3>2
    <3>4. <<line, other>> \in LineBefore \/ <<other, line>> \in LineBefore
      BY <1>1, <3>2, <3>3 DEF Related
    <3>5. line.at + Size(line) <= other.at \/ other.at + Size(other) <= line.at
      BY <3>4 DEF LineBefore
    <3>6. line \in Line /\ other \in Line
      BY <1>2, <3>1
    <3>7. /\ CharsOf(RunsOf(line)) \subseteq line.at..(line.at + Size(line) - 1)
          /\ CharsOf(RunsOf(other)) \subseteq other.at..(other.at + Size(other) - 1)
      BY <3>6, CharsOfLine
    <3>8. line.at \in Nat /\ other.at \in Nat /\ Size(line) \in Nat /\ Size(other) \in Nat
      BY <3>6, SizeType DEF Line
    <3>9. (line.at..(line.at + Size(line) - 1)) \cap (other.at..(other.at + Size(other) - 1)) = {}
      BY <3>5, <3>8
    <3> QED
      BY <3>7, <3>9
  <2> QED
    BY <1>4, <1>8, <2>1 DEF Sorted
<1> QED
  BY <1>6, <1>7, <1>8

\* Cleaning neither joins two paragraphs nor cuts one in two: the chunker gets those
\* of the document, less the furniture in them (cleaning_service.py:55).
THEOREM NoParagraphCut == Spec => []ParagraphsStay
<1>1. TextInv => ParagraphsStay
  <2> SUFFICES ASSUME TextInv PROVE ParagraphsStay
    OBVIOUS
  <2> DEFINE kept == Only(lines, Chosen(lines))
  <2>1. lines \in Seq(Line) /\ Related(lines, LineBefore)
    BY DEF TextInv
  <2>2. C!CleanMarkdown(lines) = IF HasProse(kept) THEN kept ELSE lines
    BY <2>1, CleanIs
  <2>3. CASE HasProse(kept)
    <3>1. \A line \in ToSet(lines) : Sorted(line, Chosen(lines), Content)
      BY <2>3, LinesSorted
    <3>2. ParagraphsOf(kept) = {block \cap Content : block \in ParagraphsOf(lines)} \ {{}}
      BY <2>1, <3>1, ChosenParagraphs
    <3> QED
      BY <2>2, <2>3, <3>2 DEF ParagraphsStay
  <2>4. CASE ~HasProse(kept)
    <3> DEFINE text == TextOf(lines)
               blocks == Split(text, "paragraph")
    <3>1. C!CleanMarkdown(lines) = lines
      BY <2>2, <2>4
    <3>2. text \in Seq(Run) /\ CharsOf(text) = Content
      BY <2>1, <3>1, TextAppend, TextOfPlaces, CleanedContent
    <3>3. blocks \in Seq(Text) /\ RunsIn(blocks) = ToSet(text)
      BY <3>2, SplitType, SplitMembers
    <3> HIDE DEF text, blocks
    <3>4. ASSUME NEW block \in ToSet(blocks)
          PROVE  CharsOf(block) # {} /\ CharsOf(block) \subseteq Content
      <4>1. block \in Text /\ block \in Seq(Run)
        BY <3>3, Members DEF Text
      <4>2. ToSet(block) \subseteq ToSet(text)
        BY <3>3 DEF RunsIn
      <4>3. CharsOf(block) = UNION {CharsOfRun(x) : x \in ToSet(block)}
            /\ CharsOf(text) = UNION {CharsOfRun(x) : x \in ToSet(text)}
        BY <3>2, <4>1, CharsMembers
      <4> QED
        BY <3>2, <4>1, <4>2, <4>3, TextHasChars
    <3>5. ParagraphsOf(lines) = {CharsOf(block) : block \in ToSet(blocks)}
      BY DEF ParagraphsOf, text, blocks
    <3>6. {part \cap Content : part \in ParagraphsOf(lines)} \ {{}} = ParagraphsOf(lines)
      <4> DEFINE paragraphs == ParagraphsOf(lines)
                 cut == {part \cap Content : part \in paragraphs} \ {{}}
      <4>1. \A part \in paragraphs : part # {} /\ part \cap Content = part
        BY <3>4, <3>5
      <4> HIDE DEF paragraphs
      <4>2. \A part \in paragraphs : part \in cut
        BY <4>1, Zenon
      <4>3. \A part \in cut : part \in paragraphs
        BY <4>1, Zenon
      <4> HIDE DEF cut
      <4>4. cut = paragraphs
        BY <4>2, <4>3
      <4> QED
        BY <4>4 DEF cut, paragraphs
    <3> QED
      BY <3>1, <3>6 DEF ParagraphsStay
  <2> QED
    BY <2>3, <2>4
<1> QED
  BY <1>1, Invariant, PTL

=============================================================================
