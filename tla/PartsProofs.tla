----------------------------- MODULE PartsProofs -----------------------------
EXTENDS MCParts, SequenceTheorems, FiniteSetTheorems, WellFoundedInduction, TLAPS

-----------------------------------------------------------------------------
(* Induction.  The theorems of the library that take a predicate cannot be  *)
(* used, so a predicate is the set of the numbers that it holds of.         *)

LEMMA LeastNatural ==
    ASSUME NEW T \in SUBSET Nat, T # {}
    PROVE  \E n \in T : \A m \in T : n <= m
<1> DEFINE R == OpToRel(<, Nat)
<1>1. IsWellFoundedOn(R, Nat)
  BY NatLessThanWellFounded
<1>2. \A x, y \in Nat : x < y => <<x, y>> \in R
  BY DEF OpToRel
<1> HIDE DEF R
<1>3. PICK n \in T : \A m \in T : ~(<<m, n>> \in R)
  BY <1>1, WFMin
<1>4. \A m \in T : n <= m
  <2> SUFFICES ASSUME NEW m \in T, m < n PROVE FALSE
    OBVIOUS
  <2>1. <<m, n>> \in R
    BY <1>2
  <2> QED
    BY <2>1, <1>3
<1> QED
  BY <1>3, <1>4

LEMMA Induction ==
    ASSUME NEW S, 0 \in S, \A n \in Nat : n \in S => n + 1 \in S
    PROVE  \A n \in Nat : n \in S
<1> SUFFICES ASSUME NEW k \in Nat, k \notin S PROVE FALSE
  OBVIOUS
<1> DEFINE T == {m \in Nat : m \notin S}
<1>1. PICK n \in T : \A m \in T : n <= m
  BY LeastNatural
<1>2. n # 0 /\ n - 1 \in Nat
  BY <1>1
<1>3. n - 1 \in S
  BY <1>1, <1>2
<1> QED
  BY <1>1, <1>2, <1>3

\* The same over the turns of a loop.
LEMMA UpTo ==
    ASSUME NEW n \in Nat, NEW S, 0 \in S, \A i \in 1 .. n : i - 1 \in S => i \in S
    PROVE  \A i \in 0 .. n : i \in S
<1> DEFINE T == {i \in Nat : i <= n => i \in S}
<1>1. 0 \in T
  OBVIOUS
<1>2. ASSUME NEW i \in Nat, i \in T PROVE i + 1 \in T
  <2> SUFFICES ASSUME i + 1 <= n PROVE i + 1 \in S
    OBVIOUS
  <2>1. i + 1 \in 1 .. n /\ (i + 1) - 1 \in S
    BY <1>2
  <2> QED
    BY <2>1
<1> HIDE DEF T
<1>3. \A i \in Nat : i \in T
  BY <1>1, <1>2, Induction
<1> QED
  BY <1>3 DEF T

\* f has the states of a loop of n turns that starts with c: step[i] is what its
\* turn i makes of the state.
IsLoop(f, S, c, n, step) ==
    /\ f \in [0 .. n -> S] /\ f[0] = c
    /\ \A i \in 1 .. n : f[i] = step[i][f[i - 1]]

LEMMA LoopRuns ==
    ASSUME NEW S, NEW c \in S, NEW n \in Nat, NEW step \in [1 .. n -> [S -> S]]
    PROVE  \E f : IsLoop(f, S, c, n, step)
<1> DEFINE Runs(m) == \E f \in [0 .. m -> S] :
             f[0] = c /\ \A i \in 1 .. m : f[i] = step[i][f[i - 1]]
           T == {m \in Nat : m <= n => Runs(m)}
<1>1. Runs(0)
  <2> DEFINE f == [i \in 0 .. 0 |-> c]
  <2>1. f \in [0 .. 0 -> S] /\ f[0] = c /\ \A i \in 1 .. 0 : FALSE
    OBVIOUS
  <2> HIDE DEF f
  <2> QED
    BY <2>1
<1>2. ASSUME NEW m \in Nat, m + 1 <= n, Runs(m) PROVE Runs(m + 1)
  <2>1. PICK f \in [0 .. m -> S] :
          f[0] = c /\ \A i \in 1 .. m : f[i] = step[i][f[i - 1]]
    BY <1>2
  <2> DEFINE last == step[m + 1][f[m]]
             g == [i \in 0 .. m + 1 |-> IF i = m + 1 THEN last ELSE f[i]]
  <2>2. last \in S
    BY <1>2
  <2>3. /\ g \in [0 .. m + 1 -> S] /\ g[m + 1] = last
        /\ \A i \in 0 .. m : g[i] = f[i]
    <3> HIDE DEF last
    <3> QED
      BY <2>2
  <2> HIDE DEF g
  <2>4. g[0] = c
    BY <2>1, <2>3
  <2>5. ASSUME NEW i \in 1 .. m + 1 PROVE g[i] = step[i][g[i - 1]]
    <3>1. CASE i = m + 1
      BY <3>1, <2>3
    <3>2. CASE i # m + 1
      <4>1. i \in 1 .. m /\ i \in 0 .. m /\ i - 1 \in 0 .. m
        BY <3>2
      <4> QED
        BY <4>1, <2>1, <2>3
    <3> QED
      BY <3>1, <3>2
  <2> QED
    BY <2>3, <2>4, <2>5
<1> HIDE DEF Runs
<1>3. \A m \in Nat : m \in T
  <2>1. 0 \in T
    BY <1>1
  <2>2. \A m \in Nat : m \in T => m + 1 \in T
    BY <1>2
  <2> HIDE DEF T
  <2> QED
    BY <2>1, <2>2, Induction
<1>4. Runs(n)
  BY <1>3
<1> QED
  BY <1>4 DEF Runs, IsLoop

-----------------------------------------------------------------------------
(* Sums.                                                                    *)

\* f[i] is the sum of the first i of values.
Sums(f, values) ==
    /\ f \in [0 .. Len(values) -> Int] /\ f[0] = 0
    /\ \A i \in 1 .. Len(values) : f[i] = f[i - 1] + values[i]

LEMMA SumOfSums ==
    ASSUME NEW values \in Seq(Int)
    PROVE  \E f : Sums(f, values) /\ SumOf(values) = f[Len(values)]
<1> DEFINE n == Len(values)
           step == [i \in 1 .. n |-> [x \in Int |-> x + values[i]]]
           Body(g) == [i \in 0 .. n |-> IF i = 0 THEN 0 ELSE g[i - 1] + values[i]]
           upTo == CHOOSE g : g = Body(g)
<1>1. /\ n \in Nat /\ step \in [1 .. n -> [Int -> Int]]
      /\ \A i \in 1 .. n : \A x \in Int : step[i][x] = x + values[i]
  OBVIOUS
<1> HIDE DEF step
<1>2. PICK f : IsLoop(f, Int, 0, n, step)
  <2> HIDE DEF n
  <2>1. 0 \in Int
    OBVIOUS
  <2> QED
    BY <1>1, <2>1, LoopRuns
<1>3. ASSUME NEW i \in 1 .. n PROVE f[i] = f[i - 1] + values[i]
  <2>1. i - 1 \in 0 .. n
    BY <1>1
  <2>2. f[i - 1] \in Int
    BY <2>1, <1>2 DEF IsLoop
  <2> QED
    BY <2>2, <1>1, <1>2 DEF IsLoop
<1>4. f = Body(f)
  BY <1>2, <1>3 DEF IsLoop
<1>5. upTo = Body(upTo)
  <2> HIDE DEF Body
  <2> QED
    BY <1>4, Zenon
<1>6. SumOf(values) = upTo[n]
  BY DEF SumOf
<1> HIDE DEF upTo
<1>7. Sums(upTo, values)
  <2>1. upTo[0] = 0 /\ \A i \in 1 .. n : upTo[i] = upTo[i - 1] + values[i]
    <3>1. \A i \in 0 .. n : upTo[i] = IF i = 0 THEN 0 ELSE upTo[i - 1] + values[i]
      BY <1>5
    <3>2. 0 \in 0 .. n /\ \A i \in 1 .. n : i \in 0 .. n /\ i # 0
      BY <1>1
    <3> QED
      BY <3>1, <3>2
  <2> DEFINE T == {i \in Nat : i <= n => upTo[i] \in Int}
  <2>2. 0 \in T
    BY <2>1
  <2>3. ASSUME NEW i \in Nat, i \in T PROVE i + 1 \in T
    <3> SUFFICES ASSUME i + 1 <= n PROVE upTo[i + 1] \in Int
      OBVIOUS
    <3>1. upTo[i + 1] = upTo[i] + values[i + 1]
      BY <2>1
    <3>2. upTo[i] \in Int /\ values[i + 1] \in Int
      BY <2>3
    <3> QED
      BY <3>1, <3>2
  <2> HIDE DEF T
  <2>4. \A i \in Nat : i \in T
    BY <2>2, <2>3, Induction
  <2>5. upTo \in [0 .. n -> Int]
    BY <2>4, <1>5 DEF T
  <2> QED
    BY <2>1, <2>5 DEF Sums
<1> QED
  BY <1>6, <1>7

LEMMA SumOfConcat ==
    ASSUME NEW a \in Seq(Int), NEW b \in Seq(Int)
    PROVE  /\ SumOf(a) \in Int /\ SumOf(b) \in Int
           /\ SumOf(a \o b) = SumOf(a) + SumOf(b)
<1> DEFINE m == Len(a)
           n == Len(b)
<1>1. /\ a \o b \in Seq(Int) /\ m \in Nat /\ n \in Nat /\ Len(a \o b) = m + n
      /\ \A i \in 1 .. m : (a \o b)[i] = a[i]
      /\ \A i \in 1 .. n : (a \o b)[m + i] = b[i]
  OBVIOUS
<1>2. PICK f : Sums(f, a) /\ SumOf(a) = f[m]
  BY SumOfSums
<1>3. PICK g : Sums(g, b) /\ SumOf(b) = g[n]
  BY SumOfSums
<1>4. PICK h : Sums(h, a \o b) /\ SumOf(a \o b) = h[m + n]
  BY <1>1, SumOfSums
<1>5. /\ f \in [0 .. m -> Int] /\ f[0] = 0 /\ \A i \in 1 .. m : f[i] = f[i - 1] + a[i]
      /\ g \in [0 .. n -> Int] /\ g[0] = 0 /\ \A i \in 1 .. n : g[i] = g[i - 1] + b[i]
      /\ h[0] = 0 /\ \A i \in 1 .. m + n : h[i] = h[i - 1] + (a \o b)[i]
  BY <1>1, <1>2, <1>3, <1>4 DEF Sums
<1> HIDE DEF m, n
<1>6. h[m] = f[m]
  <2> DEFINE T == {i \in Nat : h[i] = f[i]}
  <2>1. 0 \in T
    BY <1>5
  <2>2. ASSUME NEW i \in 1 .. m, i - 1 \in T PROVE i \in T
    <3>1. i \in 1 .. m + n
      BY <1>1
    <3>2. h[i] = h[i - 1] + (a \o b)[i] /\ f[i] = f[i - 1] + a[i]
      BY <3>1, <1>5
    <3> QED
      BY <3>2, <2>2, <1>1
  <2> HIDE DEF T
  <2>3. \A i \in 0 .. m : i \in T
    BY <2>1, <2>2, <1>1, UpTo
  <2> QED
    BY <2>3, <1>1 DEF T
<1>7. h[m + n] = f[m] + g[n]
  <2> DEFINE T == {i \in Nat : h[m + i] = f[m] + g[i]}
  <2>0. f[m] \in Int /\ \A i \in 0 .. n : g[i] \in Int
    BY <1>1, <1>5
  <2>1. 0 \in T
    BY <1>1, <1>5, <1>6, <2>0
  <2>2. ASSUME NEW i \in 1 .. n, i - 1 \in T PROVE i \in T
    <3>1. m + i \in 1 .. m + n /\ i - 1 \in 0 .. n /\ (m + i) - 1 = m + (i - 1)
      BY <1>1
    <3>2. h[m + i] = h[(m + i) - 1] + (a \o b)[m + i]
      <4>1. \A j \in 1 .. m + n : h[j] = h[j - 1] + (a \o b)[j]
        BY <1>5
      <4> DEFINE k == m + i
      <4>2. k \in 1 .. m + n
        BY <3>1
      <4> HIDE DEF k
      <4>3. h[k] = h[k - 1] + (a \o b)[k]
        BY <4>1, <4>2, Zenon
      <4> QED
        BY <4>3 DEF k
    <3>5. g[i] = g[i - 1] + b[i]
      BY <1>5
    <3>3. b[i] \in Int /\ (a \o b)[m + i] = b[i]
      BY <1>1 DEF n
    <3>4. g[i - 1] \in Int
      BY <3>1, <2>0
    <3> QED
      BY <3>1, <3>2, <3>3, <3>4, <3>5, <2>0, <2>2
  <2> HIDE DEF T
  <2>3. \A i \in 0 .. n : i \in T
    BY <2>1, <2>2, <1>1, UpTo
  <2> QED
    BY <2>3, <1>1 DEF T
<1> QED
  BY <1>1, <1>2, <1>3, <1>4, <1>5, <1>7

LEMMA SumOfFew ==
    /\ SumOf(<<>>) = 0
    /\ \A v \in Int : SumOf(<<v>>) = v
<1>1. SumOf(<<>>) = 0
  <2>1. <<>> \in Seq(Int) /\ Len(<<>>) = 0
    OBVIOUS
  <2>2. PICK f : Sums(f, <<>>) /\ SumOf(<<>>) = f[Len(<<>>)]
    BY <2>1, SumOfSums
  <2> QED
    BY <2>1, <2>2 DEF Sums
<1>2. ASSUME NEW v \in Int PROVE SumOf(<<v>>) = v
  <2>1. <<v>> \in Seq(Int) /\ Len(<<v>>) = 1 /\ <<v>>[1] = v
    OBVIOUS
  <2>2. PICK f : Sums(f, <<v>>) /\ SumOf(<<v>>) = f[Len(<<v>>)]
    BY <2>1, SumOfSums
  <2>3. f[1] = f[0] + v /\ f[0] = 0
    BY <2>1, <2>2 DEF Sums
  <2> QED
    BY <2>1, <2>2, <2>3
<1> QED
  BY <1>1, <1>2

-----------------------------------------------------------------------------
(* Sequences.                                                               *)

\* A sequence in two pieces.
LEMMA Cut ==
    ASSUME NEW S, NEW seq \in Seq(S), NEW k \in 0 .. Len(seq)
    PROVE  /\ SubSeq(seq, 1, k) \in Seq(S) /\ Len(SubSeq(seq, 1, k)) = k
           /\ \A i \in 1 .. k : SubSeq(seq, 1, k)[i] = seq[i]
           /\ SubSeq(seq, k + 1, Len(seq)) \in Seq(S)
           /\ Len(SubSeq(seq, k + 1, Len(seq))) = Len(seq) - k
           /\ \A i \in 1 .. Len(seq) - k : SubSeq(seq, k + 1, Len(seq))[i] = seq[k + i]
           /\ SubSeq(seq, 1, k) \o SubSeq(seq, k + 1, Len(seq)) = seq
<1> DEFINE n == Len(seq)
<1>1. n \in Nat /\ k \in Int /\ 1 \in Int /\ k + 1 \in Int /\ n \in Int
      /\ \A i \in 1 .. n : seq[i] \in S
  OBVIOUS
<1>2. (\A i \in 1 .. k : seq[i] \in S) /\ \A i \in k + 1 .. n : seq[i] \in S
  BY <1>1
<1> HIDE DEF n
<1>3. /\ SubSeq(seq, 1, k) \in Seq(S) /\ Len(SubSeq(seq, 1, k)) = k
      /\ \A i \in 1 .. k : SubSeq(seq, 1, k)[i] = seq[i]
  <2>1. /\ SubSeq(seq, 1, k) \in Seq(S)
        /\ Len(SubSeq(seq, 1, k)) = IF 1 <= k THEN k - 1 + 1 ELSE 0
        /\ \A i \in 1 .. k - 1 + 1 : SubSeq(seq, 1, k)[i] = seq[1 + i - 1]
    BY <1>1, <1>2, SubSeqProperties
  <2>2. k - 1 + 1 = k /\ (~(1 <= k) => k = 0) /\ \A i \in 1 .. k : 1 + i - 1 = i
    OBVIOUS
  <2> QED
    BY <2>1, <2>2
<1>4. /\ SubSeq(seq, k + 1, n) \in Seq(S) /\ Len(SubSeq(seq, k + 1, n)) = n - k
      /\ \A i \in 1 .. n - k : SubSeq(seq, k + 1, n)[i] = seq[k + i]
  <2>1. /\ SubSeq(seq, k + 1, n) \in Seq(S)
        /\ Len(SubSeq(seq, k + 1, n)) = IF k + 1 <= n THEN n - (k + 1) + 1 ELSE 0
        /\ \A i \in 1 .. n - (k + 1) + 1 : SubSeq(seq, k + 1, n)[i] = seq[k + 1 + i - 1]
    BY <1>1, <1>2, SubSeqProperties
  <2>2. n - (k + 1) + 1 = n - k /\ (~(k + 1 <= n) => n - k = 0)
    BY <1>1 DEF n
  <2>3. \A i \in 1 .. n - k : k + 1 + i - 1 = k + i
    BY <1>1
  <2> QED
    BY <2>1, <2>2, <2>3
<1>5. SubSeq(seq, 1, k) \o SubSeq(seq, k + 1, n) = seq
  <2> DEFINE a == SubSeq(seq, 1, k)
             b == SubSeq(seq, k + 1, n)
  <2> HIDE DEF a, b
  <2>1. /\ a \in Seq(S) /\ Len(a) = k /\ \A i \in 1 .. k : a[i] = seq[i]
        /\ b \in Seq(S) /\ Len(b) = n - k /\ \A i \in 1 .. n - k : b[i] = seq[k + i]
    BY <1>3, <1>4 DEF a, b
  <2>2. k <= n
    BY DEF n
  <2>3. /\ a \o b \in Seq(S) /\ Len(a \o b) = n
        /\ \A i \in 1 .. n : (a \o b)[i] = IF i <= k THEN a[i] ELSE b[i - k]
    <3>1. /\ a \o b \in Seq(S) /\ Len(a \o b) = Len(a) + Len(b)
          /\ \A i \in 1 .. Len(a) + Len(b) :
               (a \o b)[i] = IF i <= Len(a) THEN a[i] ELSE b[i - Len(a)]
      BY <2>1, ConcatProperties
    <3>2. Len(a) + Len(b) = n /\ Len(a) = k
      BY <1>1, <2>1
    <3> QED
      BY <3>1, <3>2
  <2>4. ASSUME NEW i \in 1 .. n PROVE (a \o b)[i] = seq[i]
    <3>1. CASE i <= k
      BY <3>1, <2>1, <2>3, <1>1
    <3>2. CASE ~(i <= k)
      <4>1. i - k \in 1 .. n - k /\ k + (i - k) = i
        BY <3>2, <1>1
      <4> QED
        BY <4>1, <3>2, <2>1, <2>3
    <3> QED
      BY <3>1, <3>2
  <2>5. Len(seq) = n
    BY DEF n
  <2>6. a \o b = seq
    BY <2>3, <2>4, <2>5, SeqEqual
  <2> QED
    BY <2>6 DEF a, b
<1> QED
  BY <1>3, <1>4, <1>5 DEF n

-----------------------------------------------------------------------------
(* FloatingAverage.  The array holds the last values: from the start up to  *)
(* the iterator while it fills, and around the iterator afterwards.         *)

\* Where the value i of the last ones stands.
PlaceOf(i, it, n, filled) ==
    IF ~filled THEN i ELSE IF it + i <= n THEN it + i ELSE (it + i) - n

Stands(values, it, sum, filled, last) ==
    /\ values \in Seq(Int) /\ it \in 0 .. Len(values) - 1
    /\ filled \in BOOLEAN /\ last \in Seq(Int)
    /\ Len(last) = IF filled THEN Len(values) ELSE it
    /\ \A i \in 1 .. Len(last) : last[i] = values[PlaceOf(i, it, Len(values), filled)]
    /\ sum = SumOf(last)

AverageHolds(avg, last) ==
    /\ avg = [values |-> avg.values, valIt |-> avg.valIt, sum |-> avg.sum,
              bufferFilled |-> avg.bufferFilled]
    /\ Stands(avg.values, avg.valIt, avg.sum, avg.bufferFilled, last)

LEMMA AverageNew ==
    ASSUME NEW n \in Nat \ {0}, NEW values \in [1 .. n -> Int]
    PROVE  AverageHolds(NewAverage(values), <<>>) /\ NewAverage(values).values = values
<1>1. values \in Seq(Int) /\ Len(values) = n
  OBVIOUS
<1>2. Stands(values, 0, 0, FALSE, <<>>)
  BY <1>1, SumOfFew DEF Stands
<1> QED
  BY <1>2 DEF AverageHolds, NewAverage

LEMMA NextPlace ==
    ASSUME NEW n \in Nat \ {0}, NEW it \in 0 .. n - 1
    PROVE  Advanced(it, 1, n) = IF it + 1 = n THEN 0 ELSE it + 1
<1>1. CASE it + 1 = n
  <2>1. n % n = 0
    OBVIOUS
  <2> QED
    BY <2>1, <1>1 DEF Advanced
<1>2. CASE it + 1 # n
  <2>1. it + 1 \in 0 .. n - 1
    BY <1>2
  <2>2. \A k \in 0 .. n - 1 : k % n = k
    OBVIOUS
  <2> QED
    BY <2>1, <2>2, <1>2 DEF Advanced
<1> QED
  BY <1>1, <1>2

LEMMA SumOfAppend ==
    ASSUME NEW last \in Seq(Int), NEW v \in Int
    PROVE  SumOf(Append(last, v)) = SumOf(last) + v /\ SumOf(last) \in Int
<1>1. <<v>> \in Seq(Int) /\ Append(last, v) = last \o <<v>>
  OBVIOUS
<1>2. SumOf(last) \in Int /\ SumOf(last \o <<v>>) = SumOf(last) + SumOf(<<v>>)
  BY <1>1, SumOfConcat
<1> QED
  BY <1>1, <1>2, SumOfFew

\* A value goes in at the end of the last ones, and out at their start.
LEMMA SumOfShifted ==
    ASSUME NEW last \in Seq(Int), NEW v \in Int, last # <<>>
    PROVE  /\ SumOf(Append(Tail(last), v)) = (SumOf(last) + v) - last[1]
           /\ last[1] \in Int /\ SumOf(last) \in Int
<1> DEFINE rest == Tail(last)
           w == last[1]
<1>1. rest \in Seq(Int) /\ w \in Int /\ <<w>> \in Seq(Int) /\ last = <<w>> \o rest
  OBVIOUS
<1> HIDE DEF rest, w
<1>2. SumOf(<<w>> \o rest) = SumOf(<<w>>) + SumOf(rest) /\ SumOf(<<w>>) = w /\ SumOf(rest) \in Int
  BY <1>1, SumOfConcat, SumOfFew
<1>3. SumOf(Append(rest, v)) = SumOf(rest) + v
  BY <1>1, SumOfAppend
<1>4. SumOf(last) = w + SumOf(rest)
  BY <1>1, <1>2
<1>5. /\ SumOf(Append(rest, v)) = (SumOf(last) + v) - w
      /\ w \in Int /\ SumOf(last) \in Int
  BY <1>1, <1>2, <1>3, <1>4
<1> QED
  BY <1>5 DEF rest, w

LEMMA StandsFilling ==
    ASSUME NEW values, NEW it, NEW sum, NEW last, NEW v \in Int,
           Stands(values, it, sum, FALSE, last)
    PROVE  Stands([values EXCEPT ![it + 1] = v],
                  IF it + 1 = Len(values) THEN 0 ELSE it + 1, sum + v,
                  it + 1 = Len(values), Append(last, v))
<1> DEFINE n == Len(values)
           values2 == [values EXCEPT ![it + 1] = v]
           last2 == Append(last, v)
           full == it + 1 = n
<1>1. /\ n \in Nat \ {0} /\ values \in Seq(Int) /\ it \in 0 .. n - 1
      /\ last \in Seq(Int) /\ sum = SumOf(last) /\ Len(last) = it
      /\ \A i \in 1 .. it : last[i] = values[i]
  BY DEF Stands, PlaceOf
<1>2. /\ values2 \in Seq(Int) /\ Len(values2) = n /\ values2[it + 1] = v
      /\ \A i \in 1 .. n : i # it + 1 => values2[i] = values[i]
  BY <1>1
<1>3. /\ last2 \in Seq(Int) /\ Len(last2) = it + 1 /\ last2[it + 1] = v
      /\ \A i \in 1 .. it : last2[i] = last[i]
  BY <1>1
<1>4. SumOf(last2) = sum + v
  BY <1>1, SumOfAppend
<1> HIDE DEF n, values2, last2
<1>5. \A i \in 1 .. it + 1 : last2[i] = values2[i]
  BY <1>1, <1>2, <1>3
<1>6. Stands(values2, IF full THEN 0 ELSE it + 1, sum + v, full, last2)
  <2>1. CASE full
    <3>1. \A i \in 1 .. n :
            (IF 0 + i <= n THEN 0 + i ELSE (0 + i) - n) = i
      BY <1>1
    <3>2. Stands(values2, 0, sum + v, TRUE, last2)
      BY <1>1, <1>2, <1>3, <1>4, <1>5, <2>1, <3>1 DEF Stands, PlaceOf
    <3> QED
      BY <2>1, <3>2
  <2>2. CASE ~full
    <3>1. Stands(values2, it + 1, sum + v, FALSE, last2)
      BY <1>1, <1>2, <1>3, <1>4, <1>5, <2>2 DEF Stands, PlaceOf
    <3> QED
      BY <2>2, <3>1
  <2> QED
    BY <2>1, <2>2
<1> QED
  BY <1>6 DEF n, values2, last2

LEMMA StandsTurning ==
    ASSUME NEW values, NEW it, NEW sum, NEW last, NEW v \in Int,
           Stands(values, it, sum, TRUE, last)
    PROVE  Stands([values EXCEPT ![it + 1] = v],
                  IF it + 1 = Len(values) THEN 0 ELSE it + 1,
                  (sum + v) - values[it + 1], TRUE, Append(Tail(last), v))
<1> DEFINE n == Len(values)
           values2 == [values EXCEPT ![it + 1] = v]
           next == IF it + 1 = n THEN 0 ELSE it + 1
           last2 == Append(Tail(last), v)
<1>1. /\ n \in Nat \ {0} /\ values \in Seq(Int) /\ it \in 0 .. n - 1
      /\ last \in Seq(Int) /\ sum = SumOf(last) /\ Len(last) = n
      /\ \A i \in 1 .. n : last[i] = values[IF it + i <= n THEN it + i ELSE (it + i) - n]
  BY DEF Stands, PlaceOf
<1>2. /\ values2 \in Seq(Int) /\ Len(values2) = n /\ values2[it + 1] = v
      /\ \A i \in 1 .. n : i # it + 1 => values2[i] = values[i]
  BY <1>1
<1>3. /\ last2 \in Seq(Int) /\ Len(last2) = n /\ last2[n] = v
      /\ \A i \in 1 .. n - 1 : last2[i] = last[i + 1]
  BY <1>1
<1>4. last # <<>> /\ last[1] = values[it + 1]
  BY <1>1
<1>5. SumOf(last2) = (sum + v) - values[it + 1]
  BY <1>1, <1>4, SumOfShifted
<1> HIDE DEF n, values2, last2
<1>6. next \in 0 .. n - 1
  BY <1>1
<1>7. ASSUME NEW i \in 1 .. n
      PROVE  last2[i] = values2[IF next + i <= n THEN next + i ELSE (next + i) - n]
  <2> DEFINE at == IF next + i <= n THEN next + i ELSE (next + i) - n
  <2>1. CASE i = n
    <3>1. at = it + 1
      BY <1>1, <2>1
    <3> QED
      BY <1>2, <1>3, <3>1, <2>1
  <2>2. CASE i # n
    <3>1. i + 1 \in 1 .. n /\ i \in 1 .. n - 1
      BY <2>2, <1>1
    <3>2. at = IF it + (i + 1) <= n THEN it + (i + 1) ELSE (it + (i + 1)) - n
      BY <1>1, <2>2
    <3>3. at \in 1 .. n /\ at # it + 1
      BY <1>1, <2>2
    <3> HIDE DEF at
    <3>4. last2[i] = values[at]
      BY <3>1, <3>2, <1>1, <1>3
    <3> QED
      BY <3>3, <3>4, <1>2 DEF at
  <2> QED
    BY <2>1, <2>2
<1>8. Stands(values2, next, (sum + v) - values[it + 1], TRUE, last2)
  <2> HIDE DEF next
  <2> QED
    BY <1>2, <1>3, <1>5, <1>6, <1>7 DEF Stands, PlaceOf
<1> QED
  BY <1>8 DEF n, values2, last2

LEMMA LastOfAppended ==
    ASSUME NEW n \in Nat \ {0}, NEW last \in Seq(Int), NEW v \in Int
    PROVE  /\ Len(last) < n => LastOf(Append(last, v), n) = Append(last, v)
           /\ Len(last) = n => LastOf(Append(last, v), n) = Append(Tail(last), v)
<1>1. Append(last, v) \in Seq(Int) /\ Len(Append(last, v)) = Len(last) + 1
  OBVIOUS
<1>2. ASSUME Len(last) = n PROVE LastOf(Append(last, v), n) = Append(Tail(last), v)
  <2>1. LastOf(Append(last, v), n) = SubSeq(Append(last, v), 2, n + 1)
    BY <1>1, <1>2 DEF LastOf
  <2>2. SubSeq(Append(last, v), 2, n + 1) = Tail(Append(last, v))
    BY <1>1, <1>2
  <2>3. Tail(Append(last, v)) = Append(Tail(last), v)
    BY <1>2
  <2> QED
    BY <2>1, <2>2, <2>3
<1>3. ASSUME Len(last) < n PROVE LastOf(Append(last, v), n) = Append(last, v)
  <2>1. ~(Len(Append(last, v)) > n)
    BY <1>1, <1>3
  <2> QED
    BY <2>1 DEF LastOf
<1> QED
  BY <1>2, <1>3

LEMMA AverageAdds ==
    ASSUME NEW avg, NEW last, AverageHolds(avg, last), NEW v \in Int
    PROVE  AverageHolds(Added(avg, v), LastOf(Append(last, v), Len(avg.values)))
<1> DEFINE n == Len(avg.values)
           last2 == LastOf(Append(last, v), n)
           next == IF avg.valIt + 1 = n THEN 0 ELSE avg.valIt + 1
           values2 == [avg.values EXCEPT ![avg.valIt + 1] = v]
           leaves == IF avg.bufferFilled THEN avg.values[avg.valIt + 1] ELSE 0
           sum2 == (avg.sum + v) - leaves
           filled2 == avg.bufferFilled \/ next = 0
<1>1. /\ n \in Nat \ {0} /\ avg.values \in Seq(Int) /\ avg.valIt \in 0 .. n - 1
      /\ last \in Seq(Int) /\ Len(last) = (IF avg.bufferFilled THEN n ELSE avg.valIt)
      /\ avg.bufferFilled \in BOOLEAN /\ avg.sum \in Int
      /\ avg.bufferFilled => last # <<>>
  <2>1. \A l \in Seq(Int) : SumOf(l) \in Int
    BY SumOfConcat
  <2> QED
    BY <2>1 DEF AverageHolds, Stands
<1>2. Advanced(avg.valIt, 1, n) = next
  BY <1>1, NextPlace
<1>3. Added(avg, v) = [values |-> values2, valIt |-> next, sum |-> avg.sum + v - leaves,
                       bufferFilled |-> filled2]
  BY <1>2 DEF Added
<1>4. avg.sum + v - leaves = sum2
  <2>1. leaves \in Int
    BY <1>1
  <2> HIDE DEF leaves
  <2> QED
    BY <1>1, <2>1
<1>5. Stands(values2, next, sum2, filled2, last2)
  <2>1. CASE ~avg.bufferFilled
    <3>1. Stands(avg.values, avg.valIt, avg.sum, FALSE, last)
      <4>1. avg.bufferFilled = FALSE
        BY <1>1, <2>1
      <4> QED
        BY <4>1, Zenon DEF AverageHolds
    <3>2. Stands(values2, next, avg.sum + v, avg.valIt + 1 = n, Append(last, v))
      BY <3>1, StandsFilling
    <3>3. last2 = Append(last, v) /\ sum2 = avg.sum + v
      <4>1. Len(last) < n /\ leaves = 0
        BY <1>1, <2>1
      <4>2. sum2 = avg.sum + v
        BY <4>1, <1>1
      <4> HIDE DEF n, leaves, sum2
      <4> QED
        BY <1>1, <4>1, <4>2, LastOfAppended
    <3>4. filled2 = (avg.valIt + 1 = n)
      BY <1>1, <2>1
    <3> QED
      BY <3>2, <3>3, <3>4
  <2>2. CASE avg.bufferFilled
    <3>1. Stands(avg.values, avg.valIt, avg.sum, TRUE, last)
      <4>1. avg.bufferFilled = TRUE
        BY <1>1, <2>2
      <4> QED
        BY <4>1, Zenon DEF AverageHolds
    <3>2. Stands(values2, next, (avg.sum + v) - avg.values[avg.valIt + 1], TRUE,
                 Append(Tail(last), v))
      BY <3>1, StandsTurning
    <3>3. last2 = Append(Tail(last), v)
      <4> HIDE DEF n
      <4> QED
        BY <1>1, <2>2, LastOfAppended
    <3> QED
      BY <3>2, <3>3, <2>2
  <2> QED
    BY <2>1, <2>2
<1> HIDE DEF n, last2, next, values2, leaves, sum2, filled2
<1> QED
  BY <1>3, <1>4, <1>5 DEF AverageHolds, last2, n

LEMMA SumOfTurned ==
    ASSUME NEW values, NEW it, NEW sum, NEW last, Stands(values, it, sum, TRUE, last)
    PROVE  SumOf(values) = SumOf(last)
<1> DEFINE n == Len(values)
           head == SubSeq(values, 1, it)
           tail == SubSeq(values, it + 1, n)
<1>1. /\ n \in Nat \ {0} /\ values \in Seq(Int) /\ it \in 0 .. n - 1
      /\ last \in Seq(Int) /\ Len(last) = n
      /\ \A i \in 1 .. n : last[i] = values[IF it + i <= n THEN it + i ELSE (it + i) - n]
  BY DEF Stands, PlaceOf
<1>2. it \in 0 .. Len(values)
  BY <1>1
<1>3. /\ head \in Seq(Int) /\ tail \in Seq(Int) /\ Len(head) = it /\ Len(tail) = n - it
      /\ \A i \in 1 .. it : head[i] = values[i]
      /\ \A i \in 1 .. n - it : tail[i] = values[it + i]
      /\ head \o tail = values
  BY <1>1, <1>2, Cut
<1> HIDE DEF head, tail, n
<1>4. /\ tail \o head \in Seq(Int) /\ Len(tail \o head) = n
      /\ \A i \in 1 .. n - it : (tail \o head)[i] = tail[i]
      /\ \A i \in 1 .. n : i > n - it => (tail \o head)[i] = head[i - (n - it)]
  <2>1. /\ tail \o head \in Seq(Int) /\ Len(tail \o head) = Len(tail) + Len(head)
        /\ \A i \in 1 .. Len(tail) + Len(head) :
             (tail \o head)[i] = IF i <= Len(tail) THEN tail[i] ELSE head[i - Len(tail)]
    BY <1>3, ConcatProperties
  <2>2. Len(tail) + Len(head) = n /\ Len(tail) = n - it
    BY <1>1, <1>3
  <2>3. \A i \in 1 .. n - it : i \in 1 .. n /\ i <= n - it
    BY <1>1
  <2>4. \A i \in 1 .. n : (tail \o head)[i] = IF i <= n - it THEN tail[i] ELSE head[i - (n - it)]
    BY <2>1, <2>2
  <2>5. \A i \in 1 .. n : i > n - it => ~(i <= n - it)
    BY <1>1
  <2> QED
    BY <2>1, <2>2, <2>3, <2>4, <2>5
<1>5. ASSUME NEW i \in 1 .. n PROVE last[i] = (tail \o head)[i]
  <2>1. CASE it + i <= n
    <3>1. i \in 1 .. n - it
      BY <2>1, <1>1
    <3> QED
      BY <3>1, <2>1, <1>1, <1>3, <1>4
  <2>2. CASE ~(it + i <= n)
    <3>1. i > n - it /\ i - (n - it) = (it + i) - n /\ i - (n - it) \in 1 .. it
      BY <2>2, <1>1
    <3> QED
      BY <3>1, <2>2, <1>1, <1>3, <1>4
  <2> QED
    BY <2>1, <2>2
<1>6. last = tail \o head
  BY <1>1, <1>4, <1>5, SeqEqual
<1>7. SumOf(head \o tail) = SumOf(tail \o head)
  <2>1. SumOf(head) \in Int /\ SumOf(tail) \in Int
    BY <1>3, SumOfConcat
  <2>2. SumOf(head \o tail) = SumOf(head) + SumOf(tail)
    BY <1>3, SumOfConcat
  <2>3. SumOf(tail \o head) = SumOf(tail) + SumOf(head)
    BY <1>3, SumOfConcat
  <2> QED
    BY <2>1, <2>2, <2>3
<1> QED
  BY <1>3, <1>6, <1>7

LEMMA AveragePurges ==
    ASSUME NEW avg, NEW last, AverageHolds(avg, last), avg.bufferFilled
    PROVE  AverageHolds(Purged(avg), last)
<1>1. Stands(avg.values, avg.valIt, avg.sum, avg.bufferFilled, last)
  BY DEF AverageHolds
<1>2. avg.bufferFilled = TRUE
  BY <1>1 DEF Stands
<1>3. Stands(avg.values, avg.valIt, avg.sum, TRUE, last)
  BY <1>1, <1>2, Zenon
<1>4. SumOf(avg.values) = SumOf(last)
  BY <1>3, SumOfTurned
<1>5. avg.sum = SumOf(last)
  BY <1>3 DEF Stands
<1>6. Purged(avg) = avg
  BY <1>4, <1>5 DEF Purged, AverageHolds
<1> QED
  BY <1>6

-----------------------------------------------------------------------------
(* A part stays the part that it is.                                        *)

HasPart(r) == "part" \in DOMAIN r

LEMMA InitHasPart == Init => HasPart(s)
<1> SUFFICES ASSUME Init PROVE HasPart(s)
  OBVIOUS
<1>1. CASE s \in Hash
  BY <1>1 DEF Hash, HasPart
<1>2. CASE s \in Average
  BY <1>2 DEF Average, HasPart
<1>3. CASE s \in FilterOf
  BY <1>3 DEF FilterOf, HasPart
<1>4. CASE s \in Image
  BY <1>4 DEF Image, HasPart
<1>5. CASE s \in Spectrum
  BY <1>5 DEF Spectrum, HasPart
<1>6. CASE s \in Reader
  BY <1>6 DEF Reader, HasPart
<1>7. CASE s \in Tracks
  <2>1. \E t : s = [part |-> "track", track |-> t]
    BY <1>7, Zenon DEF Tracks
  <2> QED
    BY <2>1 DEF HasPart
<1>8. CASE s \in Stations
  BY <1>8 DEF Stations, HasPart
<1> QED
  BY <1>1, <1>2, <1>3, <1>4, <1>5, <1>6, <1>7, <1>8 DEF Init

LEMMA NextKeepsPart ==
    ASSUME HasPart(s), [Next]_s
    PROVE  HasPart(s') /\ s'.part = s.part
<1>1. CASE HashUpdate
  <2>1. PICK v, w, x, y : s' = [part |-> "hash", fast |-> x, fed |-> v, final |-> w, sc |-> y]
    BY <1>1, Zenon DEF HashUpdate
  <2>2. s.part = "hash"
    BY <1>1 DEF HashUpdate
  <2> QED
    BY <2>1, <2>2 DEF HasPart
<1>2. CASE HashFinal
  <2>1. PICK v, w, x, y : s' = [part |-> "hash", fast |-> x, fed |-> v, final |-> w, sc |-> y]
    BY <1>2, Zenon DEF HashFinal
  <2>2. s.part = "hash"
    BY <1>2 DEF HashFinal
  <2> QED
    BY <2>1, <2>2 DEF HasPart
<1>3. CASE AverageAdd
  <2>1. PICK v, w : s' = [part |-> "average", avg |-> v, last |-> w]
    BY <1>3, Zenon DEF AverageAdd
  <2>2. s.part = "average"
    BY <1>3 DEF AverageAdd
  <2> QED
    BY <2>1, <2>2 DEF HasPart
<1>4. CASE AverageClear
  <2>1. PICK v, w : s' = [part |-> "average", avg |-> v, last |-> w]
    BY <1>4, Zenon DEF AverageClear
  <2>2. s.part = "average"
    BY <1>4 DEF AverageClear
  <2> QED
    BY <2>1, <2>2 DEF HasPart
<1>5. CASE AveragePurge
  <2>1. PICK v : s' = [s EXCEPT !.avg = v]
    BY <1>5, Zenon DEF AveragePurge
  <2> QED
    BY <2>1 DEF HasPart
<1>6. CASE MbidOpen
  <2>1. PICK v : s' = [s EXCEPT !.reader = v]
    BY <1>6, Zenon DEF MbidOpen
  <2> QED
    BY <2>1 DEF HasPart
<1>7. CASE MbidFrame
  <2>1. PICK v : s' = [s EXCEPT !.reader = v]
    BY <1>7, Zenon DEF MbidFrame
  <2> QED
    BY <2>1 DEF HasPart
<1>8. CASE MbidNext
  <2>1. PICK v, u, w : s' = [s EXCEPT !.reader = v, !.ready = u, !.plain = w]
    BY <1>8, Zenon DEF MbidNext
  <2> QED
    BY <2>1 DEF HasPart
<1>9. CASE Restart
  <2>1. PICK v : s' = [s EXCEPT !.track = v]
    BY <1>9, Zenon DEF Restart
  <2> QED
    BY <2>1 DEF HasPart
<1>10. CASE UNCHANGED s
  BY <1>10 DEF HasPart
<1> QED
  BY <1>1, <1>2, <1>3, <1>4, <1>5, <1>6, <1>7, <1>8, <1>9, <1>10 DEF Next

-----------------------------------------------------------------------------

AverageState ==
    s.part = "average" =>
      /\ s = [part |-> "average", avg |-> s.avg, last |-> s.last]
      /\ AverageHolds(s.avg, s.last)

LEMMA AverageStateHolds == Spec => [](HasPart(s) /\ AverageState)
<1>1. Init => HasPart(s) /\ AverageState
  <2> SUFFICES ASSUME Init, s.part = "average"
               PROVE  /\ s = [part |-> "average", avg |-> s.avg, last |-> s.last]
                      /\ AverageHolds(s.avg, s.last)
    BY InitHasPart DEF AverageState
  <2>1. s \in Average
    <3>1. s \notin Tracks
      BY DEF Tracks
    <3> QED
      BY <3>1 DEF Init, Hash, FilterOf, Image, Spectrum, Reader, Stations
  <2>2. PICK n \in 1 .. MaxSize : \E old \in [1 .. n -> {7}] :
          s = [part |-> "average", avg |-> NewAverage(old), last |-> <<>>]
    BY <2>1 DEF Average
  <2>6. PICK old \in [1 .. n -> {7}] :
          s = [part |-> "average", avg |-> NewAverage(old), last |-> <<>>]
    BY <2>2
  <2>3. n \in Nat \ {0} /\ old \in [1 .. n -> Int]
    BY <2>6, AverageAssumption
  <2>4. AverageHolds(NewAverage(old), <<>>)
    BY <2>3, AverageNew
  <2>5. s.avg = NewAverage(old) /\ s.last = <<>>
    BY <2>6
  <2> QED
    BY <2>6, <2>4, <2>5
<1>2. HasPart(s) /\ AverageState /\ [Next]_s => (HasPart(s) /\ AverageState)'
  <2> SUFFICES ASSUME HasPart(s), AverageState, [Next]_s, s'.part = "average"
               PROVE  /\ s' = [part |-> "average", avg |-> s'.avg, last |-> s'.last]
                      /\ AverageHolds(s'.avg, s'.last)
    BY NextKeepsPart DEF AverageState
  <2>1. /\ s.part = "average" /\ s = [part |-> "average", avg |-> s.avg, last |-> s.last]
        /\ AverageHolds(s.avg, s.last)
    BY NextKeepsPart DEF AverageState
  <2>3. \A avg : [s EXCEPT !.avg = avg] = [part |-> "average", avg |-> avg, last |-> s.last]
    BY <2>1
  <2>4. ASSUME NEW avg, NEW last, AverageHolds(avg, last),
               s' = [part |-> "average", avg |-> avg, last |-> last]
        PROVE  /\ s' = [part |-> "average", avg |-> s'.avg, last |-> s'.last]
               /\ AverageHolds(s'.avg, s'.last)
    <3>1. s'.avg = avg /\ s'.last = last
      BY <2>4
    <3> QED
      BY <2>4, <3>1
  <2>5. CASE AverageAdd
    <3>1. PICK v \in Values : s' = [part |-> "average", avg |-> Added(s.avg, v),
                                   last |-> LastOf(Append(s.last, v), Len(s.avg.values))]
      BY <2>5, Zenon DEF AverageAdd
    <3>2. v \in Int
      BY AverageAssumption
    <3>3. AverageHolds(Added(s.avg, v), LastOf(Append(s.last, v), Len(s.avg.values)))
      BY <2>1, <3>2, AverageAdds
    <3> QED
      BY <2>4, <3>1, <3>3
  <2>6. CASE AverageClear
    <3>1. s' = [part |-> "average", avg |-> Cleared(s.avg), last |-> <<>>]
      BY <2>6, Zenon DEF AverageClear
    <3> DEFINE n == Len(s.avg.values)
               zeros == [i \in DOMAIN s.avg.values |-> 0]
    <3>2. n \in Nat \ {0} /\ zeros \in [1 .. n -> Int]
      BY <2>1 DEF AverageHolds, Stands
    <3> HIDE DEF n, zeros
    <3>3. AverageHolds(NewAverage(zeros), <<>>)
      BY <3>2, AverageNew
    <3> QED
      BY <2>4, <3>1, <3>3 DEF Cleared, zeros
  <2>7. CASE AveragePurge
    <3>1. s' = [part |-> "average", avg |-> Purged(s.avg), last |-> s.last]
      BY <2>3, <2>7, Zenon DEF AveragePurge
    <3>2. AverageHolds(Purged(s.avg), s.last)
      BY <2>1, <2>7, AveragePurges DEF AveragePurge
    <3> QED
      BY <2>4, <3>1, <3>2
  <2>8. CASE UNCHANGED s
    <3>1. s'.avg = s.avg /\ s'.last = s.last
      BY <2>8
    <3> QED
      BY <2>1, <2>8, <3>1
  <2> QED
    BY <2>1, <2>5, <2>6, <2>7, <2>8
       DEF Next, HashUpdate, HashFinal, MbidOpen, MbidFrame, MbidNext, Restart
<1> QED
  BY <1>1, <1>2, PTL DEF Spec

(* FloatingAverage: the running sum is the sum of the last values, whatever *)
(* the size of the array and the values that go through it.                 *)
THEOREM SumIsOfTheLast == Spec => []AverageIsOfTheLast
<1>1. AverageState => AverageIsOfTheLast
  <2> SUFFICES ASSUME AverageState, s.part = "average"
               PROVE  /\ s.avg.sum = SumOf(s.last)
                      /\ s.last # <<>> => Counted(s.avg) = Len(s.last)
    BY DEF AverageIsOfTheLast
  <2>1. Stands(s.avg.values, s.avg.valIt, s.avg.sum, s.avg.bufferFilled, s.last)
    BY DEF AverageState, AverageHolds
  <2>2. /\ s.avg.sum = SumOf(s.last) /\ s.avg.valIt \in 0 .. Len(s.avg.values) - 1
        /\ Len(s.last) = (IF s.avg.bufferFilled THEN Len(s.avg.values) ELSE s.avg.valIt)
        /\ s.last \in Seq(Int) /\ s.avg.values \in Seq(Int)
    BY <2>1 DEF Stands
  <2>3. s.last # <<>> => Len(s.last) # 0
    BY <2>2
  <2>4. s.last # <<>> => Counted(s.avg) = Len(s.last)
    <3>1. CASE s.avg.bufferFilled
      BY <2>2, <3>1 DEF Counted
    <3>2. CASE ~s.avg.bufferFilled
      <4> SUFFICES ASSUME s.last # <<>> PROVE Counted(s.avg) = Len(s.last)
        OBVIOUS
      <4>1. s.avg.valIt > 0
        BY <2>2, <2>3, <3>2
      <4> QED
        BY <2>2, <3>2, <4>1 DEF Counted, Distance
    <3> QED
      BY <3>1, <3>2
  <2> QED
    BY <2>2, <2>4
<1> QED
  BY <1>1, AverageStateHolds, PTL

-----------------------------------------------------------------------------
(* Tracks.                                                                  *)

\* Tracks of any texts, numbers and images.
AllTracks(Text, Pictures) ==
    [artist : Text, correctedArtist : Text, albumArtist : Text, album : Text,
     title : Text, duration : Nat, time : Int, rating : Int, trackNumber : Int,
     mbid : Text, fpid : Int, playerId : Text, images : Seq(Pictures)]

LEMMA Numbers ==
    /\ \A n \in Nat : ToInt(n) \in Nat
    /\ \A n \in Nat : n < UIntMod \div 2 => ToInt(n) = n
    /\ \A n \in Int : ToUInt(n) \in Nat
    /\ \A n \in Nat : ToUInt(n) = n
    /\ \A n \in Int : ToTime_t(n) \in Nat
    /\ \A n \in Nat : ToTime_t(n) = n
    /\ \A n \in Nat : ToInt(ToInt(n)) = ToInt(n)
    /\ Unset \in Nat /\ Unset > Future
<1>1. UIntMod - 1 \in Int /\ UIntMod \div 2 \in Int /\ UIntMod \in Nat
  BY TimeAssumption
<1>2. Unset \in Nat /\ Unset > Future
  BY TimeAssumption DEF Unset
<1> QED
  BY <1>1, <1>2 DEF ToInt, ToUInt, ToTime_t

LEMMA RestartedTrack ==
    ASSUME NEW Text, Empty \in Text, NEW Pictures, NEW t \in AllTracks(Text, Pictures)
    PROVE  /\ Restarted(t) =
                [artist |-> t.artist, correctedArtist |-> t.correctedArtist,
                 albumArtist |-> t.albumArtist, album |-> t.album, title |-> t.title,
                 duration |-> ToInt(t.duration), time |-> ToTime_t(t.time),
                 rating |-> ToUInt(t.rating), trackNumber |-> 0, mbid |-> Empty,
                 fpid |-> Unset, playerId |-> t.playerId, images |-> FirstOf(t.images)]
           /\ Restarted(t) \in AllTracks(Text, Pictures)
<1>1. t = [artist |-> t.artist, correctedArtist |-> t.correctedArtist,
           albumArtist |-> t.albumArtist, album |-> t.album, title |-> t.title,
           duration |-> t.duration, time |-> t.time,
           rating |-> t.rating, trackNumber |-> t.trackNumber, mbid |-> t.mbid,
           fpid |-> t.fpid, playerId |-> t.playerId, images |-> t.images]
  BY DEF AllTracks
<1>2. ToDomElement(t) =
          [artist |-> t.artist, correctedArtist |-> t.correctedArtist,
           albumArtist |-> t.albumArtist, album |-> t.album, title |-> t.title,
           duration |-> t.duration, time |-> ToTime_t(t.time),
           rating |-> t.rating, trackNumber |-> t.trackNumber, mbid |-> t.mbid,
           fpid |-> t.fpid, playerId |-> t.playerId, images |-> t.images]
  BY <1>1 DEF ToDomElement
<1>3. /\ t.duration \in Nat /\ t.time \in Int /\ t.rating \in Int /\ t.images \in Seq(Pictures)
      /\ t.artist \in Text /\ t.correctedArtist \in Text /\ t.albumArtist \in Text
      /\ t.album \in Text /\ t.title \in Text /\ t.playerId \in Text
  BY DEF AllTracks
<1>4. Timestamp(ToTime_t(t.time)) = ToTime_t(t.time)
  BY <1>3, Numbers DEF Timestamp
<1>5. Restarted(t) =
                [artist |-> t.artist, correctedArtist |-> t.correctedArtist,
                 albumArtist |-> t.albumArtist, album |-> t.album, title |-> t.title,
                 duration |-> ToInt(t.duration), time |-> ToTime_t(t.time),
                 rating |-> ToUInt(t.rating), trackNumber |-> 0, mbid |-> Empty,
                 fpid |-> Unset, playerId |-> t.playerId, images |-> FirstOf(t.images)]
  <2> DEFINE e == ToDomElement(t)
  <2>1. /\ e.artist = t.artist /\ e.correctedArtist = t.correctedArtist
        /\ e.albumArtist = t.albumArtist /\ e.album = t.album /\ e.title = t.title
        /\ e.duration = t.duration /\ e.time = ToTime_t(t.time) /\ e.rating = t.rating
        /\ e.playerId = t.playerId /\ e.images = t.images
    BY <1>2
  <2> HIDE DEF e
  <2>2. Restarted(t) = FromDomElement(e)
    BY DEF Restarted, e
  <2> QED
    BY <1>4, <2>1, <2>2, Zenon DEF FromDomElement
<1>6. FirstOf(t.images) \in Seq(Pictures)
  <2>1. CASE t.images = <<>>
    BY <2>1 DEF FirstOf
  <2>2. CASE t.images # <<>>
    <3>1. t.images[1] \in Pictures
      BY <1>3, <2>2
    <3>2. <<t.images[1]>> \in Seq(Pictures)
      BY <3>1
    <3> QED
      BY <2>2, <3>2 DEF FirstOf
  <2> QED
    BY <2>1, <2>2
<1>7. ToInt(t.duration) \in Nat /\ ToTime_t(t.time) \in Nat /\ ToUInt(t.rating) \in Nat /\ Unset \in Nat
  BY <1>3, Numbers
<1>8. Restarted(t) \in AllTracks(Text, Pictures)
  <2>1. ASSUME NEW d \in Nat, NEW ti \in Nat, NEW ra \in Nat, NEW fp \in Nat,
               NEW im \in Seq(Pictures)
        PROVE  [artist |-> t.artist, correctedArtist |-> t.correctedArtist,
                albumArtist |-> t.albumArtist, album |-> t.album, title |-> t.title,
                duration |-> d, time |-> ti, rating |-> ra, trackNumber |-> 0, mbid |-> Empty,
                fpid |-> fp, playerId |-> t.playerId, images |-> im] \in AllTracks(Text, Pictures)
    BY <1>3 DEF AllTracks
  <2>2. [artist |-> t.artist, correctedArtist |-> t.correctedArtist,
         albumArtist |-> t.albumArtist, album |-> t.album, title |-> t.title,
         duration |-> ToInt(t.duration), time |-> ToTime_t(t.time),
         rating |-> ToUInt(t.rating), trackNumber |-> 0, mbid |-> Empty,
         fpid |-> Unset, playerId |-> t.playerId, images |-> FirstOf(t.images)] \in AllTracks(Text, Pictures)
    BY <1>6, <1>7, <2>1
  <2> QED
    BY <1>5, <2>2, Zenon
<1> QED
  BY <1>5, <1>8

\* Every track, whatever it holds, comes back from the cache file with what it
\* is worth: as valid, sent the same but for its mbid, and for good.
THEOREM TracksComeBack ==
    \A Text, Pictures : Empty \in Text => \A t \in AllTracks(Text, Pictures) :
      t.duration < UIntMod \div 2 =>
      LET again == Restarted(t)
      IN  /\ IsValid(again) <=> IsValid(t)
          /\ Sent(again) = [Sent(t) EXCEPT !.mbid = Empty]
          /\ Restarted(again) = again
<1> SUFFICES ASSUME NEW Text, NEW Pictures, Empty \in Text, NEW t \in AllTracks(Text, Pictures), t.duration < UIntMod \div 2
             PROVE  /\ IsValid(Restarted(t)) <=> IsValid(t)
                    /\ Sent(Restarted(t)) = [Sent(t) EXCEPT !.mbid = Empty]
                    /\ Restarted(Restarted(t)) = Restarted(t)
  OBVIOUS
<1> DEFINE r == Restarted(t)
<1>1. r \in AllTracks(Text, Pictures) /\ Restarted(r) \in AllTracks(Text, Pictures)
  BY RestartedTrack
<1>2. t.duration \in Nat /\ t.time \in Int /\ t.rating \in Int /\ t.images \in Seq(Pictures)
  BY DEF AllTracks
<1>3. /\ r.artist = t.artist /\ r.correctedArtist = t.correctedArtist
      /\ r.albumArtist = t.albumArtist /\ r.album = t.album /\ r.title = t.title
      /\ r.duration = t.duration /\ r.time = ToTime_t(t.time) /\ r.rating = ToUInt(t.rating)
      /\ r.trackNumber = 0 /\ r.mbid = Empty /\ r.fpid = Unset /\ r.playerId = t.playerId
      /\ r.images = FirstOf(t.images)
  <2>1. ToInt(t.duration) = t.duration
    BY <1>2, Numbers
  <2>2. r = [artist |-> t.artist, correctedArtist |-> t.correctedArtist,
             albumArtist |-> t.albumArtist, album |-> t.album, title |-> t.title,
             duration |-> ToInt(t.duration), time |-> ToTime_t(t.time),
             rating |-> ToUInt(t.rating), trackNumber |-> 0, mbid |-> Empty,
             fpid |-> Unset, playerId |-> t.playerId, images |-> FirstOf(t.images)]
    BY RestartedTrack, Zenon
  <2> HIDE DEF r
  <2> QED
    BY <2>1, <2>2
<1> HIDE DEF r
<1>4. r.time \in Nat /\ ToTime_t(r.time) = r.time
  BY <1>2, <1>3, Numbers
<1>5. IsValid(r) <=> IsValid(t)
  <2>1. t.time \in Nat => r.time = t.time
    BY <1>3, Numbers
  <2>2. t.time \notin Nat => r.time = Unset /\ t.time < 0
    <3> SUFFICES ASSUME t.time \notin Nat PROVE r.time = Unset /\ t.time < 0
      OBVIOUS
    <3>1. t.time < 0
      BY <1>2
    <3> QED
      BY <3>1, <1>3 DEF ToTime_t
  <2>3. r.time # NullTime
    BY <1>4 DEF NullTime
  <2>4. CASE t.time \in Nat
    <3>1. t.time = r.time
      BY <2>1, <2>4
    <3> QED
      BY <1>3, <3>1 DEF IsValid, Invalidity
  <2>5. CASE t.time \notin Nat
    <3>1. ~IsValid(t)
      <4>1. t.time < Past /\ MinLength \in Nat
        BY <2>2, <2>5, <1>2, TimeAssumption DEF MinLength
      <4> QED
        BY <4>1, <1>2 DEF IsValid, Invalidity
    <3>2. ~IsValid(r)
      <4>1. r.time > Future /\ MinLength \in Nat /\ r.duration \in Nat
        BY <2>2, <2>5, <1>2, <1>3, Numbers DEF MinLength
      <4>2. CASE r.duration < MinLength
        <5>1. Invalidity(r) = "TooShort"
          BY <4>1, <4>2 DEF Invalidity, MinLength
        <5> QED
          BY <5>1 DEF IsValid
      <4>3. CASE ~(r.duration < MinLength)
        <5>1. r.duration >= MinLength
          BY <4>1, <4>3
        <5>2. Invalidity(r) = "FromTheFuture"
          BY <4>1, <4>3, <5>1, <2>3 DEF Invalidity
        <5> QED
          BY <5>2 DEF IsValid
      <4> QED
        BY <4>2, <4>3
    <3> QED
      BY <3>1, <3>2
  <2> QED
    BY <2>4, <2>5
<1>6. Sent(r) = [Sent(t) EXCEPT !.mbid = Empty]
  <2>1. Sent(r) = [duration |-> t.duration, timestamp |-> ToTime_t(t.time),
                   track |-> Named(t.title), context |-> t.playerId,
                   artist |-> Named(t.artist), albumArtist |-> Named(t.albumArtist),
                   album |-> t.album, mbid |-> Empty]
    BY <1>3, <1>4, Zenon DEF Sent
  <2>2. Sent(t) = [duration |-> t.duration, timestamp |-> ToTime_t(t.time),
                   track |-> Named(t.title), context |-> t.playerId,
                   artist |-> Named(t.artist), albumArtist |-> Named(t.albumArtist),
                   album |-> t.album, mbid |-> t.mbid]
    BY DEF Sent
  <2> DEFINE x == Sent(t)
             y == Sent(r)
             Fields == {"duration", "timestamp", "track", "context", "artist",
                        "albumArtist", "album", "mbid"}
  <2> HIDE DEF x, y
  <2>3. DOMAIN x = Fields
    BY <2>2 DEF x
  <2>4. DOMAIN y = Fields
    BY <2>1 DEF y
  <2>5. /\ x["duration"] = y["duration"] /\ x["timestamp"] = y["timestamp"]
        /\ x["track"] = y["track"] /\ x["context"] = y["context"]
        /\ x["artist"] = y["artist"] /\ x["albumArtist"] = y["albumArtist"]
        /\ x["album"] = y["album"] /\ y["mbid"] = Empty
    BY <2>1, <2>2 DEF x, y
  <2>6. y = [k \in DOMAIN y |-> y[k]]
    BY <2>1 DEF y
  <2>7. [x EXCEPT !.mbid = Empty] = [k \in DOMAIN x |-> y[k]]
    <3>1. \A k \in DOMAIN x : k # "mbid" => x[k] = y[k]
      BY <2>3, <2>5
    <3> QED
      BY <3>1, <2>5
  <2> QED
    BY <2>3, <2>4, <2>6, <2>7 DEF x, y
<1>7. Restarted(r) = r
  <2>1. FirstOf(FirstOf(t.images)) = FirstOf(t.images)
    BY <1>2 DEF FirstOf
  <2>2. r.rating \in Nat /\ ToUInt(r.rating) = r.rating
    BY <1>2, <1>3, Numbers
  <2>3. ToInt(r.duration) = r.duration
    BY <1>2, <1>3, Numbers
  <2>4. r = [artist |-> r.artist, correctedArtist |-> r.correctedArtist,
             albumArtist |-> r.albumArtist, album |-> r.album, title |-> r.title,
             duration |-> r.duration, time |-> r.time,
             rating |-> r.rating, trackNumber |-> r.trackNumber, mbid |-> r.mbid,
             fpid |-> r.fpid, playerId |-> r.playerId, images |-> r.images]
    BY <1>1 DEF AllTracks
  <2>5. Restarted(r) =
            [artist |-> r.artist, correctedArtist |-> r.correctedArtist,
             albumArtist |-> r.albumArtist, album |-> r.album, title |-> r.title,
             duration |-> ToInt(r.duration), time |-> ToTime_t(r.time),
             rating |-> ToUInt(r.rating), trackNumber |-> 0, mbid |-> Empty,
             fpid |-> Unset, playerId |-> r.playerId, images |-> FirstOf(r.images)]
    BY <1>1, RestartedTrack
  <2>6. /\ ToInt(r.duration) = r.duration /\ ToTime_t(r.time) = r.time
        /\ ToUInt(r.rating) = r.rating /\ r.trackNumber = 0 /\ r.mbid = Empty
        /\ r.fpid = Unset /\ FirstOf(r.images) = r.images
    BY <1>3, <1>4, <2>1, <2>2, <2>3
  <2> QED
    BY <2>4, <2>5, <2>6
<1> QED
  BY <1>5, <1>6, <1>7 DEF r

\* The point of half the duration is within a track if and only if the track is
\* long enough: half of what is shorter gives MinLength, or all of TimeMax.
LEMMA PointWithin ==
    ASSUME NEW n \in Nat
    PROVE  ScrobblePoint(n \div 2) <= n <=> n >= MinLength
<1> DEFINE j == n \div 2
           k == IF j = 0 THEN UIntMod - 1 ELSE j
<1>1. j \in Nat /\ j <= n /\ (n >= 31 => j # 0)
  OBVIOUS
<1>2. k \in Nat
  BY <1>1, TimeAssumption
<1>3. n >= 31 => k <= n
  BY <1>1
<1>4. ScrobblePoint(j) = QBound(31, k, 240)
  BY DEF ScrobblePoint, MinLength, TimeMax
<1> HIDE DEF j, k
<1>5. n >= 31 => QBound(31, k, 240) <= n
  BY <1>2, <1>3 DEF QBound
<1>6. QBound(31, k, 240) \in Nat /\ QBound(31, k, 240) >= 31
  BY <1>2 DEF QBound
<1> QED
  BY <1>4, <1>5, <1>6 DEF MinLength, j

\* The texts and images of the tracks of a run.
Texts == {Empty, "unknown", "elsa", "lp", "one", "m1", "p"}
Sizes == {"small", "large"}

LEMMA EmptyText == Empty \in Texts
  BY DEF Texts

LEMMA TrackIsTyped == Spec => [](HasPart(s) /\ (s.part = "track" =>
                                   s = [part |-> "track", track |-> s.track] /\ s.track \in AllTracks(Texts, Sizes)))
<1> DEFINE TrackState == s.part = "track" =>
             s = [part |-> "track", track |-> s.track] /\ s.track \in AllTracks(Texts, Sizes)
<1>1. Init => HasPart(s) /\ TrackState
  <2> SUFFICES ASSUME Init, s.part = "track"
               PROVE  s = [part |-> "track", track |-> s.track] /\ s.track \in AllTracks(Texts, Sizes)
    BY InitHasPart
  <2>1. s \in Tracks
    BY DEF Init, Hash, Average, FilterOf, Image, Spectrum, Reader, Stations
  <2>2. PICK t \in TrackForms : s = [part |-> "track", track |-> t]
    BY <2>1, Zenon DEF Tracks
  <2>3. t \in AllTracks(Texts, Sizes)
    <3>1. /\ {NullTime, -1, 0, 99, 100, 512, 600, 601} \subseteq Int
          /\ {0, 30, 31, 511, 1000} \subseteq Nat /\ {-1, 3} \subseteq Int
          /\ {4} \subseteq Int /\ {5} \subseteq Int
      BY DEF NullTime
    <3>2. {<<>>, <<"small", "large">>} \subseteq Seq(Sizes)
      <4>1. "small" \in Sizes /\ "large" \in Sizes
        BY DEF Sizes
      <4> QED
        BY <4>1
    <3>3. /\ {Empty, "unknown", "elsa"} \subseteq Texts /\ {Empty, "unknown"} \subseteq Texts
          /\ {Empty, "elsa"} \subseteq Texts /\ {Empty, "lp"} \subseteq Texts
          /\ {Empty, "one"} \subseteq Texts /\ {Empty, "m1"} \subseteq Texts
          /\ {"p"} \subseteq Texts
      BY DEF Texts
    <3>4. /\ t.artist \in Texts /\ t.correctedArtist \in Texts /\ t.albumArtist \in Texts
          /\ t.album \in Texts /\ t.title \in Texts /\ t.mbid \in Texts /\ t.playerId \in Texts
      BY <3>3 DEF TrackForms
    <3>5. /\ t.duration \in Nat /\ t.time \in Int /\ t.rating \in Int
          /\ t.trackNumber \in Int /\ t.fpid \in Int
      BY <3>1 DEF TrackForms
    <3>6. t.images \in Seq(Sizes)
      <4>1. t.images \in {<<>>, <<"small", "large">>}
        BY DEF TrackForms
      <4> QED
        BY <3>2, <4>1, Zenon
    <3>7. t = [artist |-> t.artist, correctedArtist |-> t.correctedArtist,
               albumArtist |-> t.albumArtist, album |-> t.album, title |-> t.title,
               duration |-> t.duration, time |-> t.time,
               rating |-> t.rating, trackNumber |-> t.trackNumber, mbid |-> t.mbid,
               fpid |-> t.fpid, playerId |-> t.playerId, images |-> t.images]
      BY DEF TrackForms
    <3> QED
      BY <3>4, <3>5, <3>6, <3>7 DEF AllTracks
  <2> QED
    BY <2>2, <2>3
<1>2. HasPart(s) /\ TrackState /\ [Next]_s => (HasPart(s) /\ TrackState)'
  <2> SUFFICES ASSUME HasPart(s), TrackState, [Next]_s, s'.part = "track"
               PROVE  s' = [part |-> "track", track |-> s'.track] /\ s'.track \in AllTracks(Texts, Sizes)
    BY NextKeepsPart
  <2>1. s.part = "track" /\ s = [part |-> "track", track |-> s.track] /\ s.track \in AllTracks(Texts, Sizes)
    BY NextKeepsPart
  <2>2. CASE Restart
    <3>1. s' = [s EXCEPT !.track = Restarted(s.track)]
      BY <2>2, Zenon DEF Restart
    <3>2. Restarted(s.track) \in AllTracks(Texts, Sizes)
      BY <2>1, EmptyText, RestartedTrack
    <3>3. s' = [part |-> "track", track |-> Restarted(s.track)]
      BY <2>1, <3>1
    <3> QED
      BY <3>2, <3>3
  <2>3. CASE UNCHANGED s
    BY <2>1, <2>3
  <2> QED
    BY <2>1, <2>2, <2>3
       DEF Next, HashUpdate, HashFinal, AverageAdd, AverageClear, AveragePurge,
           MbidOpen, MbidFrame, MbidNext
<1> QED
  BY <1>1, <1>2, PTL DEF Spec

(* A track keeps over any number of restarts what it is worth to the        *)
(* service, and it counts by listening if and only if it is long enough.    *)
THEOREM WorthIsKept == Spec => []TracksKeepTheirWorth
<1>1. (s.part = "track" => s = [part |-> "track", track |-> s.track] /\ s.track \in AllTracks(Texts, Sizes))
        => TracksKeepTheirWorth
  <2> SUFFICES ASSUME s.part = "track" => s.track \in AllTracks(Texts, Sizes)
               PROVE  TracksKeepTheirWorth
    OBVIOUS
  <2>1. TracksSurvive
    BY EmptyText, TracksComeBack, Zenon DEF TracksSurvive
  <2>2. PointIsReached
    BY PointWithin DEF PointIsReached, AllTracks
  <2> QED
    BY <2>1, <2>2 DEF TracksKeepTheirWorth
<1> QED
  BY <1>1, TrackIsTyped, PTL

-----------------------------------------------------------------------------
(* Sequences of sequences, one behind the other.                            *)

\* f[i] is the first i of the sequences.
Flattens(f, seqs, S) ==
    /\ f \in [0 .. Len(seqs) -> Seq(S)] /\ f[0] = <<>>
    /\ \A i \in 1 .. Len(seqs) : f[i] = f[i - 1] \o seqs[i]

LEMMA FlattenSteps ==
    ASSUME NEW S, NEW seqs \in Seq(Seq(S))
    PROVE  \E f : Flattens(f, seqs, S) /\ FlattenSeq(seqs) = f[Len(seqs)]
<1> DEFINE n == Len(seqs)
           All == Seq(S)
           step == [i \in 1 .. n |-> [x \in All |-> x \o seqs[i]]]
           Body(g) == [i \in 1 .. n |-> IF i = 1 THEN seqs[i] ELSE g[i - 1] \o seqs[i]]
           flatten == CHOOSE g : g = Body(g)
<1>1. /\ n \in Nat /\ <<>> \in All /\ (n = 0 <=> seqs = <<>>)
      /\ \A i \in 1 .. n : seqs[i] \in All
  OBVIOUS
<1>2. \A x, y \in All : x \o y \in All /\ <<>> \o y = y
  BY ConcatProperties, ConcatEmptySeq
<1> HIDE DEF n, All
<1>3. /\ step \in [1 .. n -> [All -> All]]
      /\ \A i \in 1 .. n : \A x \in All : step[i][x] = x \o seqs[i]
  BY <1>1, <1>2
<1> HIDE DEF step
<1>4. PICK f : IsLoop(f, All, <<>>, n, step)
  BY <1>1, <1>3, LoopRuns
<1>5. /\ f \in [0 .. n -> All] /\ f[0] = <<>>
      /\ \A i \in 1 .. n : f[i] = f[i - 1] \o seqs[i]
  <2>1. \A i \in 1 .. n : i - 1 \in 0 .. n
    BY <1>1
  <2> QED
    BY <1>3, <1>4, <2>1 DEF IsLoop
<1>6. Flattens(f, seqs, S)
  BY <1>5 DEF Flattens, n, All
<1>7. CASE n = 0
  <2>1. FlattenSeq(seqs) = seqs
    BY <1>7 DEF FlattenSeq, n
  <2>2. f[n] = seqs
    BY <1>1, <1>5, <1>7
  <2> QED
    BY <1>6, <2>1, <2>2 DEF n
<1>8. CASE n # 0
  <2> DEFINE g == [i \in 1 .. n |-> f[i]]
  <2>1. g = Body(g)
    <3>1. ASSUME NEW i \in 1 .. n
          PROVE  f[i] = IF i = 1 THEN seqs[i] ELSE g[i - 1] \o seqs[i]
      <4>1. CASE i = 1
        <5>1. seqs[i] \in All
          BY <1>1
        <5>2. i - 1 = 0
          BY <4>1
        <5>3. f[i] = <<>> \o seqs[i]
          BY <1>5, <5>2, Zenon
        <5>4. f[i] = seqs[i]
          BY <1>2, <5>1, <5>3, Zenon
        <5> QED
          BY <5>4, <4>1
      <4>2. CASE i # 1
        <5>1. i - 1 \in 1 .. n
          BY <1>1, <4>2
        <5> QED
          BY <1>5, <5>1, <4>2
      <4> QED
        BY <4>1, <4>2
    <3> QED
      BY <3>1
  <2>2. flatten = Body(flatten)
    <3> HIDE DEF Body
    <3> QED
      BY <2>1, Zenon
  <2>3. FlattenSeq(seqs) = flatten[n]
    BY <1>8 DEF FlattenSeq, n
  <2> HIDE DEF flatten
  <2>4. \A i \in 1 .. n : flatten[i] = IF i = 1 THEN seqs[i] ELSE flatten[i - 1] \o seqs[i]
    BY <2>2
  <2> DEFINE T == {i \in Nat : i = 0 \/ flatten[i] = f[i]}
  <2>5. ASSUME NEW i \in 1 .. n, i - 1 \in T PROVE i \in T
    <3>1. flatten[i] = f[i]
      <4>1. CASE i = 1
        <5>1. seqs[i] \in All
          BY <1>1
        <5>2. i - 1 = 0
          BY <4>1
        <5>3. f[i] = <<>> \o seqs[i]
          BY <1>5, <5>2, Zenon
        <5>4. f[i] = seqs[i]
          BY <1>2, <5>1, <5>3, Zenon
        <5> QED
          BY <2>4, <5>4, <4>1
      <4>2. CASE i # 1
        <5>1. flatten[i - 1] = f[i - 1]
          BY <2>5, <4>2
        <5>2. flatten[i] = flatten[i - 1] \o seqs[i]
          BY <2>4, <4>2
        <5>3. f[i] = f[i - 1] \o seqs[i]
          BY <1>5
        <5> QED
          BY <5>1, <5>2, <5>3, Zenon
      <4> QED
        BY <4>1, <4>2
    <3>2. i \in Nat
      BY <1>1
    <3> QED
      BY <3>1, <3>2
  <2>6. 0 \in T
    OBVIOUS
  <2> HIDE DEF T
  <2>7. \A i \in 0 .. n : i \in T
    BY <1>1, <2>5, <2>6, UpTo
  <2>8. flatten[n] = f[n]
    BY <1>1, <1>8, <2>7 DEF T
  <2> QED
    BY <1>6, <2>3, <2>8 DEF n
<1> QED
  BY <1>7, <1>8

LEMMA FlattenAppend ==
    ASSUME NEW S, NEW seqs \in Seq(Seq(S)), NEW seq \in Seq(S)
    PROVE  /\ FlattenSeq(seqs) \in Seq(S)
           /\ FlattenSeq(Append(seqs, seq)) = FlattenSeq(seqs) \o seq
<1> DEFINE n == Len(seqs)
           more == Append(seqs, seq)
<1>1. /\ more \in Seq(Seq(S)) /\ Len(more) = n + 1 /\ more[n + 1] = seq /\ n \in Nat
      /\ \A i \in 1 .. n : more[i] = seqs[i]
  OBVIOUS
<1> HIDE DEF more
<1>2. PICK f : Flattens(f, seqs, S) /\ FlattenSeq(seqs) = f[n]
  BY FlattenSteps
<1>3. PICK g : Flattens(g, more, S) /\ FlattenSeq(more) = g[n + 1]
  BY <1>1, FlattenSteps
<1>4. /\ f \in [0 .. n -> Seq(S)] /\ f[0] = <<>> /\ g[0] = <<>>
      /\ \A i \in 1 .. n : f[i] = f[i - 1] \o seqs[i]
      /\ \A i \in 1 .. n + 1 : g[i] = g[i - 1] \o more[i]
  BY <1>1, <1>2, <1>3 DEF Flattens
<1> HIDE DEF n
<1> DEFINE T == {i \in Nat : g[i] = f[i]}
<1>5. 0 \in T
  BY <1>4
<1>6. ASSUME NEW i \in 1 .. n, i - 1 \in T PROVE i \in T
  <2>1. i \in 1 .. n + 1 /\ i \in Nat /\ more[i] = seqs[i] /\ g[i - 1] = f[i - 1]
    BY <1>1, <1>6
  <2>2. g[i] = g[i - 1] \o more[i] /\ f[i] = f[i - 1] \o seqs[i]
    BY <1>4, <2>1
  <2>3. g[i] = f[i]
    BY <2>1, <2>2, Zenon
  <2> QED
    BY <2>1, <2>3
<1>7. g[n] = f[n]
  <2> HIDE DEF T
  <2>1. \A i \in 0 .. n : i \in T
    BY <1>1, <1>5, <1>6, UpTo
  <2> QED
    BY <1>1, <2>1 DEF T
<1>8. g[n + 1] = f[n] \o seq
  <2>1. n + 1 \in 1 .. n + 1 /\ (n + 1) - 1 = n
    BY <1>1
  <2>2. g[n + 1] = g[(n + 1) - 1] \o more[n + 1]
    BY <1>4, <2>1
  <2> QED
    BY <1>1, <1>7, <2>1, <2>2
<1> QED
  BY <1>1, <1>2, <1>3, <1>4, <1>8 DEF more

LEMMA FlattenNothing == FlattenSeq(<<>>) = <<>>
  BY DEF FlattenSeq

-----------------------------------------------------------------------------
(* Messages in blocks.                                                      *)

LEMMA Concats ==
    ASSUME NEW S, NEW a \in Seq(S), NEW b \in Seq(S), NEW c \in Seq(S)
    PROVE  /\ a \o b \in Seq(S) /\ Len(a \o b) = Len(a) + Len(b)
           /\ (a \o b) \o c = a \o (b \o c)
           /\ a \o <<>> = a /\ <<>> \o a = a
  BY ConcatProperties, ConcatAssociative, ConcatEmptySeq

\* The bytes are those of a set S.
Blocks(S) == {block \in Seq(S) : Len(block) = BlockSize}
Hashing(S) == [hashed : Seq(Blocks(S)), buffer : Seq(S), totalLength : Nat]
Contexts(S) == {sc \in Hashing(S) : Len(sc.buffer) < BlockSize}
Turns(S) == [sc : Contexts(S), data : Seq(S)]

Content(sc) == FlattenSeq(sc.hashed) \o sc.buffer
Bits(t) == t.sc.totalLength + 8 * Len(t.data)

LEMMA BlocksAppend ==
    ASSUME NEW S, NEW blocks \in Seq(Blocks(S)), NEW block \in Blocks(S)
    PROVE  /\ blocks \in Seq(Seq(S)) /\ FlattenSeq(blocks) \in Seq(S)
           /\ Append(blocks, block) \in Seq(Blocks(S))
           /\ FlattenSeq(Append(blocks, block)) = FlattenSeq(blocks) \o block
<1>1. \A b \in Blocks(S) : b \in Seq(S)
  BY DEF Blocks
<1>2. Append(blocks, block) \in Seq(Blocks(S))
  OBVIOUS
<1>3. blocks \in Seq(Seq(S))
  <2>1. Len(blocks) \in Nat /\ DOMAIN blocks = 1 .. Len(blocks)
        /\ \A i \in 1 .. Len(blocks) : blocks[i] \in Blocks(S)
    OBVIOUS
  <2>2. \A i \in 1 .. Len(blocks) : blocks[i] \in Seq(S)
    BY <1>1, <2>1
  <2> HIDE DEF Blocks
  <2> QED
    BY <2>1, <2>2
<1> QED
  BY <1>1, <1>2, <1>3, FlattenAppend

LEMMA FlatIsSeq ==
    ASSUME NEW S, NEW blocks \in Seq(Blocks(S))
    PROVE  /\ blocks \in Seq(Seq(S)) /\ FlattenSeq(blocks) \in Seq(S)
           /\ Len(FlattenSeq(blocks)) = BlockSize * Len(blocks)
<1>1. /\ Len(blocks) \in Nat /\ DOMAIN blocks = 1 .. Len(blocks)
      /\ \A i \in 1 .. Len(blocks) : blocks[i] \in Blocks(S)
  OBVIOUS
<1>2. \A i \in 1 .. Len(blocks) : blocks[i] \in Seq(S) /\ Len(blocks[i]) = BlockSize
  BY <1>1 DEF Blocks
<1>3. blocks \in Seq(Seq(S))
  BY <1>1, <1>2
<1>4. PICK f : Flattens(f, blocks, S) /\ FlattenSeq(blocks) = f[Len(blocks)]
  BY <1>3, FlattenSteps
<1> DEFINE n == Len(blocks)
<1>5. /\ f \in [0 .. n -> Seq(S)] /\ f[0] = <<>> /\ n \in Nat /\ BlockSize \in Nat
      /\ \A i \in 1 .. n : f[i] = f[i - 1] \o blocks[i]
  BY <1>1, <1>4, HashAssumption DEF Flattens
<1> DEFINE T == {i \in Nat : Len(f[i]) = BlockSize * i}
<1>6. 0 \in T
  BY <1>5
<1>7. ASSUME NEW i \in 1 .. n, i - 1 \in T PROVE i \in T
  <2>1. i \in Nat /\ i - 1 \in 0 .. n /\ f[i - 1] \in Seq(S)
    BY <1>5
  <2>2. Len(f[i]) = Len(f[i - 1]) + BlockSize
    <3>1. blocks[i] \in Seq(S) /\ Len(blocks[i]) = BlockSize
      BY <1>2
    <3>2. Len(f[i - 1] \o blocks[i]) = Len(f[i - 1]) + Len(blocks[i])
      BY <2>1, <3>1, ConcatProperties
    <3>3. f[i] = f[i - 1] \o blocks[i]
      BY <1>5
    <3> QED
      BY <3>1, <3>2, <3>3, Zenon
  <2>3. Len(f[i]) = BlockSize * (i - 1) + BlockSize
    BY <1>7, <2>2
  <2>4. BlockSize * (i - 1) + BlockSize = BlockSize * i
    BY <1>5, <2>1
  <2>5. Len(f[i]) = BlockSize * i
    BY <2>3, <2>4, Zenon
  <2> QED
    BY <2>1, <2>5
<1>8. Len(f[n]) = BlockSize * n /\ f[n] \in Seq(S)
  <2> HIDE DEF T, n
  <2>1. \A i \in 0 .. n : i \in T
    BY <1>5, <1>6, <1>7, UpTo
  <2>2. n \in 0 .. n
    BY <1>5
  <2> QED
    BY <1>5, <2>1, <2>2 DEF T
<1> QED
  BY <1>3, <1>4, <1>8

\* A turn loses no byte and counts every one, and leaves less to do.
SameBytes(t, u) ==
    /\ Content(u.sc) \o u.data = Content(t.sc) \o t.data
    /\ Bits(u) = Bits(t)

LEMMA ContentIsSeq ==
    ASSUME NEW S, NEW sc \in Hashing(S)
    PROVE  /\ sc = [hashed |-> sc.hashed, buffer |-> sc.buffer, totalLength |-> sc.totalLength]
           /\ sc.hashed \in Seq(Blocks(S)) /\ sc.buffer \in Seq(S) /\ sc.totalLength \in Nat
           /\ FlattenSeq(sc.hashed) \in Seq(S) /\ Content(sc) \in Seq(S)
           /\ Len(Content(sc)) = BlockSize * Len(sc.hashed) + Len(sc.buffer)
<1>1. /\ sc = [hashed |-> sc.hashed, buffer |-> sc.buffer, totalLength |-> sc.totalLength]
      /\ sc.hashed \in Seq(Blocks(S)) /\ sc.buffer \in Seq(S) /\ sc.totalLength \in Nat
  <2> DEFINE H == Seq(Blocks(S))
             D == Seq(S)
  <2>1. sc \in [hashed : H, buffer : D, totalLength : Nat]
    BY DEF Hashing
  <2> HIDE DEF H, D
  <2>2. /\ sc = [hashed |-> sc.hashed, buffer |-> sc.buffer, totalLength |-> sc.totalLength]
        /\ sc.hashed \in H /\ sc.buffer \in D /\ sc.totalLength \in Nat
    BY <2>1
  <2> QED
    BY <2>2 DEF H, D
<1>2. FlattenSeq(sc.hashed) \in Seq(S)
      /\ Len(FlattenSeq(sc.hashed)) = BlockSize * Len(sc.hashed)
  BY <1>1, FlatIsSeq
<1>3. /\ FlattenSeq(sc.hashed) \o sc.buffer \in Seq(S)
      /\ Len(FlattenSeq(sc.hashed) \o sc.buffer) = Len(FlattenSeq(sc.hashed)) + Len(sc.buffer)
  BY <1>1, <1>2, ConcatProperties
<1>4. Content(sc) = FlattenSeq(sc.hashed) \o sc.buffer
  BY DEF Content
<1> HIDE DEF Hashing
<1> QED
  BY <1>1, <1>2, <1>3, <1>4, Zenon

LEMMA GutsKeeps ==
    ASSUME NEW S, NEW sc \in Hashing(S), Len(sc.buffer) <= BlockSize
    PROVE  /\ Guts(sc) \in Contexts(S) /\ Content(Guts(sc)) = Content(sc)
           /\ Guts(sc).totalLength = sc.totalLength
           /\ Guts(sc).buffer = IF Len(sc.buffer) = BlockSize THEN <<>> ELSE sc.buffer
<1>0. /\ sc.hashed \in Seq(Blocks(S)) /\ sc.buffer \in Seq(S) /\ sc.totalLength \in Nat
      /\ FlattenSeq(sc.hashed) \in Seq(S) /\ Content(sc) \in Seq(S)
  BY ContentIsSeq
<1>1. CASE Len(sc.buffer) = BlockSize
  <2> DEFINE h == Append(sc.hashed, sc.buffer)
             n == sc.totalLength
             gone == [hashed |-> h, buffer |-> <<>>, totalLength |-> n]
  <2>1. Guts(sc) = gone
    BY <1>1 DEF Guts
  <2>2. sc.buffer \in Blocks(S)
    BY <1>0, <1>1 DEF Blocks
  <2>3. h \in Seq(Blocks(S)) /\ FlattenSeq(h) = FlattenSeq(sc.hashed) \o sc.buffer
    BY <1>0, <2>2, BlocksAppend
  <2>4. n \in Nat /\ <<>> \in Seq(S) /\ Len(<<>>) = 0 /\ BlockSize > 0
    BY <1>0, HashAssumption
  <2>5. FlattenSeq(h) = Content(sc)
    BY <2>3 DEF Content
  <2> HIDE DEF h, n
  <2>6. gone.hashed = h /\ gone.buffer = <<>> /\ gone.totalLength = n
    OBVIOUS
  <2>7. gone \in Contexts(S)
    BY <2>3, <2>4 DEF Contexts, Hashing
  <2> HIDE DEF gone
  <2>8. Content(gone) = Content(sc)
    <3>1. Content(gone) = FlattenSeq(h) \o <<>>
      BY <2>6 DEF Content
    <3>2. Content(sc) \o <<>> = Content(sc)
      BY <1>0, ConcatEmptySeq
    <3> QED
      BY <2>5, <3>1, <3>2, Zenon
  <2> QED
    BY <1>1, <2>1, <2>6, <2>7, <2>8 DEF n
<1>2. CASE Len(sc.buffer) # BlockSize
  <2>1. Guts(sc) = sc
    BY <1>2 DEF Guts
  <2>2. Len(sc.buffer) < BlockSize
    BY <1>0, <1>2, HashAssumption
  <2> QED
    BY <1>2, <2>1, <2>2 DEF Contexts
<1> QED
  BY <1>1, <1>2

LEMMA CopiedKeeps ==
    ASSUME NEW S, NEW sc \in Hashing(S), NEW bytes \in Seq(S)
    PROVE  /\ Copied(sc, bytes) \in Hashing(S)
           /\ Content(Copied(sc, bytes)) = Content(sc) \o bytes
           /\ Copied(sc, bytes).totalLength = sc.totalLength + 8 * Len(bytes)
           /\ Copied(sc, bytes).buffer = sc.buffer \o bytes
           /\ Len(Copied(sc, bytes).buffer) = Len(sc.buffer) + Len(bytes)
<1> DEFINE h == sc.hashed
           b == sc.buffer \o bytes
           n == sc.totalLength + 8 * Len(bytes)
           more == [hashed |-> h, buffer |-> b, totalLength |-> n]
<1>1. /\ h \in Seq(Blocks(S)) /\ sc.buffer \in Seq(S) /\ sc.totalLength \in Nat
      /\ FlattenSeq(h) \in Seq(S)
  BY ContentIsSeq
<1>2. b \in Seq(S) /\ Len(b) = Len(sc.buffer) + Len(bytes)
  BY <1>1, ConcatProperties
<1>3. n \in Nat
  <2>1. Len(bytes) \in Nat
    OBVIOUS
  <2> QED
    BY <1>1, <2>1
<1>4. FlattenSeq(h) \o b = (FlattenSeq(h) \o sc.buffer) \o bytes
  <2>1. \A x, y, z \in Seq(S) : x \o (y \o z) = (x \o y) \o z
    BY ConcatAssociative
  <2> QED
    BY <1>1, <2>1, Zenon
<1>5. Copied(sc, bytes) = more
  BY DEF Copied
<1>6. Content(sc) = FlattenSeq(h) \o sc.buffer
  BY DEF Content
<1> HIDE DEF h, b, n
<1>7. more.hashed = h /\ more.buffer = b /\ more.totalLength = n
  OBVIOUS
<1>8. more \in Hashing(S)
  BY <1>1, <1>2, <1>3 DEF Hashing
<1> HIDE DEF more
<1>9. Content(more) = FlattenSeq(h) \o b
  BY <1>7 DEF Content
<1>10. Content(more) = Content(sc) \o bytes
  BY <1>4, <1>6, <1>9, Zenon
<1> QED
  BY <1>2, <1>5, <1>7, <1>8, <1>10, Zenon DEF n, b

LEMMA FilledKeeps ==
    ASSUME NEW S, NEW sc \in Contexts(S), NEW data \in Seq(S)
    PROVE  LET t == [sc |-> sc, data |-> data]
               u == Filled(t)
           IN  /\ u \in Turns(S) /\ SameBytes(t, u)
               /\ u.sc.buffer = <<>> \/ u.data = <<>>
               /\ Len(u.data) <= Len(data)
               /\ data # <<>> => Len(u.data) < Len(data)
<1> DEFINE t == [sc |-> sc, data |-> data]
           n == ToCopy(sc, data)
           a == SubSeq(data, 1, n)
           b == Behind(data, n)
           copied == Copied(sc, a)
           guts == Guts(copied)
           u == [sc |-> guts, data |-> b]
<1>1. Filled(t) = u
  BY DEF Filled
<1>2. /\ sc \in Hashing(S) /\ Len(sc.buffer) < BlockSize /\ sc.totalLength \in Nat
      /\ Content(sc) \in Seq(S) /\ Len(sc.buffer) \in Nat /\ Len(data) \in Nat
      /\ BlockSize \in Nat
  BY ContentIsSeq, HashAssumption DEF Contexts
<1>3. /\ n \in 0 .. Len(data) /\ Len(sc.buffer) + n <= BlockSize
      /\ Len(data) # 0 => n > 0
      /\ n = Len(data) \/ Len(sc.buffer) + n = BlockSize
  <2> DEFINE l == Len(data)
             m == Len(sc.buffer)
  <2>1. n = IF BlockSize - m < l THEN BlockSize - m ELSE l
    BY DEF ToCopy
  <2>2. l \in Nat /\ m \in Nat /\ BlockSize \in Nat /\ m < BlockSize
    BY <1>2
  <2> HIDE DEF l, m, n
  <2>3. n \in 0 .. l /\ m + n <= BlockSize /\ (l # 0 => n > 0) /\ (n = l \/ m + n = BlockSize)
    BY <2>1, <2>2
  <2> QED
    BY <2>3 DEF l, m
<1> HIDE DEF n
<1>4. /\ a \in Seq(S) /\ Len(a) = n /\ b \in Seq(S) /\ Len(b) = Len(data) - n
      /\ a \o b = data
  BY <1>3, Cut DEF Behind
<1> HIDE DEF a, b
<1>5. /\ copied \in Hashing(S) /\ Content(copied) = Content(sc) \o a
      /\ copied.totalLength = sc.totalLength + 8 * Len(a)
      /\ Len(copied.buffer) = Len(sc.buffer) + Len(a)
  BY <1>2, <1>4, CopiedKeeps
<1> HIDE DEF copied
<1>6. /\ guts \in Contexts(S) /\ Content(guts) = Content(copied)
      /\ guts.totalLength = copied.totalLength
      /\ guts.buffer = IF Len(copied.buffer) = BlockSize THEN <<>> ELSE copied.buffer
  <2>1. Len(copied.buffer) <= BlockSize
    BY <1>3, <1>4, <1>5
  <2> QED
    BY <1>5, <2>1, GutsKeeps
<1> HIDE DEF guts
<1>7. u.sc = guts /\ u.data = b /\ u \in Turns(S)
  BY <1>4, <1>6 DEF Turns
<1>8. t.sc = sc /\ t.data = data
  OBVIOUS
<1> HIDE DEF t, u
<1>9. Content(u.sc) \o u.data = Content(t.sc) \o t.data
  <2>1. Content(guts) \o b = (Content(sc) \o a) \o b
    BY <1>5, <1>6, Zenon
  <2>2. (Content(sc) \o a) \o b = Content(sc) \o (a \o b)
    <3>1. \A x, y, z \in Seq(S) : (x \o y) \o z = x \o (y \o z)
      BY ConcatAssociative
    <3> QED
      BY <1>2, <1>4, <3>1, Zenon
  <2> QED
    BY <1>4, <1>7, <1>8, <2>1, <2>2, Zenon
<1>10. Bits(u) = Bits(t)
  <2>1. Bits(u) = (sc.totalLength + 8 * n) + 8 * (Len(data) - n)
    BY <1>4, <1>5, <1>6, <1>7 DEF Bits
  <2>2. Bits(t) = sc.totalLength + 8 * Len(data)
    BY <1>8 DEF Bits
  <2>3. sc.totalLength \in Nat /\ Len(data) \in Nat /\ n \in Nat
    BY <1>2, <1>3
  <2> QED
    BY <2>1, <2>2, <2>3
<1>11. u.sc.buffer = <<>> \/ u.data = <<>>
  <2>1. CASE n = Len(data)
    <3>1. Len(b) = 0
      BY <1>2, <1>4, <2>1
    <3> QED
      BY <1>4, <1>7, <3>1
  <2>2. CASE Len(sc.buffer) + n = BlockSize
    BY <1>4, <1>5, <1>6, <1>7, <2>2
  <2> QED
    BY <1>3, <2>1, <2>2
<1>12. Len(u.data) <= Len(data) /\ (data # <<>> => Len(u.data) < Len(data))
  <2>1. Len(u.data) = Len(data) - n
    BY <1>4, <1>7
  <2>2. data # <<>> => Len(data) # 0
    OBVIOUS
  <2> QED
    BY <1>2, <1>3, <2>1, <2>2
<1> QED
  BY <1>1, <1>7, <1>9, <1>10, <1>11, <1>12, Zenon DEF SameBytes, t

LEMMA TakenKeeps ==
    ASSUME NEW S, NEW t \in Turns(S), t.sc.buffer = <<>>, Len(t.data) >= BlockSize
    PROVE  LET u == Taken(t)
           IN  /\ u \in Turns(S) /\ SameBytes(t, u) /\ u.sc.buffer = <<>>
               /\ Len(u.data) < Len(t.data)
<1> DEFINE sc == t.sc
           data == t.data
           a == SubSeq(data, 1, BlockSize)
           b == Behind(data, BlockSize)
           h == Append(sc.hashed, a)
           n == sc.totalLength + 8 * BlockSize
           more == [hashed |-> h, buffer |-> <<>>, totalLength |-> n]
           u == [sc |-> more, data |-> b]
<1>1. Taken(t) = u
  BY DEF Taken
<1>2. sc \in Contexts(S) /\ data \in Seq(S) /\ sc.buffer = <<>>
  BY DEF Turns
<1>3. /\ sc \in Hashing(S) /\ sc.totalLength \in Nat /\ sc.hashed \in Seq(Blocks(S))
      /\ Content(sc) \in Seq(S) /\ Len(data) \in Nat /\ BlockSize \in Nat
      /\ FlattenSeq(sc.hashed) \in Seq(S) /\ BlockSize > 0
  BY <1>2, ContentIsSeq, HashAssumption DEF Contexts
<1>4. /\ a \in Seq(S) /\ Len(a) = BlockSize /\ b \in Seq(S)
      /\ Len(b) = Len(data) - BlockSize /\ a \o b = data
  <2>1. BlockSize \in 0 .. Len(data)
    BY <1>3
  <2>2. b = SubSeq(data, BlockSize + 1, Len(data))
    BY DEF Behind
  <2>3. data \in Seq(S)
    BY <1>2
  <2> HIDE DEF sc, data, b, h, n, more, u
  <2> QED
    BY <2>1, <2>2, <2>3, Cut
<1>5. a \in Blocks(S)
  BY <1>4 DEF Blocks
<1> HIDE DEF a, b
<1>6. h \in Seq(Blocks(S)) /\ FlattenSeq(h) = FlattenSeq(sc.hashed) \o a
  BY <1>3, <1>5, BlocksAppend
<1>7. n \in Nat
  BY <1>3
<1>8. Content(sc) = FlattenSeq(sc.hashed)
  <2>1. Content(sc) = FlattenSeq(sc.hashed) \o <<>>
    BY <1>2 DEF Content
  <2> QED
    BY <1>3, <2>1, ConcatEmptySeq
<1> HIDE DEF h, n, sc, data
<1>9. more.hashed = h /\ more.buffer = <<>> /\ more.totalLength = n
  OBVIOUS
<1>10. more \in Contexts(S)
  <2>1. <<>> \in Seq(S) /\ Len(<<>>) < BlockSize
    BY <1>3
  <2> QED
    BY <1>6, <1>7, <2>1 DEF Contexts, Hashing
<1>11. Content(more) = Content(sc) \o a
  <2>1. Content(more) = FlattenSeq(h) \o <<>>
    BY <1>9 DEF Content
  <2>2. FlattenSeq(h) \in Seq(S)
    BY <1>6, FlatIsSeq
  <2>3. Content(more) = FlattenSeq(h)
    BY <2>1, <2>2, ConcatEmptySeq
  <2> QED
    BY <1>6, <1>8, <2>3, Zenon
<1> HIDE DEF more
<1>12. u.sc = more /\ u.data = b /\ u \in Turns(S)
  BY <1>4, <1>10 DEF Turns
<1> HIDE DEF u
<1>13. Content(u.sc) \o u.data = Content(sc) \o data
  <2>1. (Content(sc) \o a) \o b = Content(sc) \o (a \o b)
    <3>1. \A x, y, z \in Seq(S) : (x \o y) \o z = x \o (y \o z)
      BY ConcatAssociative
    <3> QED
      BY <1>3, <1>4, <3>1, Zenon
  <2> QED
    BY <1>4, <1>11, <1>12, <2>1, Zenon
<1>14. Bits(u) = sc.totalLength + 8 * Len(data)
  <2>1. Bits(u) = n + 8 * Len(b)
    BY <1>9, <1>12 DEF Bits
  <2>2. Len(b) = Len(data) - BlockSize
    BY <1>4
  <2> QED
    BY <1>3, <2>1, <2>2 DEF n
<1>15. Len(u.data) < Len(data) /\ u.sc.buffer = <<>>
  BY <1>3, <1>4, <1>9, <1>12
<1>16. SameBytes(t, u)
  BY <1>13, <1>14, Zenon DEF SameBytes, Bits, sc, data
<1> QED
  BY <1>1, <1>12, <1>15, <1>16, Zenon DEF data

\* What there is to do at a turn of the loop, and what there is after all of them.
Ready(fast, t) == fast => t.sc.buffer = <<>> \/ t.data = <<>>
Finished(fast, t) == IF fast THEN Len(t.data) < BlockSize ELSE t.data = <<>>

LEMMA TurnedKeeps ==
    ASSUME NEW S, NEW fast \in BOOLEAN, NEW t \in Turns(S), Ready(fast, t)
    PROVE  LET u == Turned(fast, t)
           IN  /\ u \in Turns(S) /\ SameBytes(t, u) /\ Ready(fast, u)
               /\ Finished(fast, t) => u = t
               /\ Finished(fast, t) \/ Len(u.data) < Len(t.data)
<1> DEFINE u == Turned(fast, t)
<1>1. /\ t.sc \in Contexts(S) /\ t.data \in Seq(S) /\ Len(t.data) \in Nat
      /\ t = [sc |-> t.sc, data |-> t.data] /\ BlockSize \in Nat /\ BlockSize > 0
  BY HashAssumption DEF Turns
<1>2. CASE Finished(fast, t)
  <2>1. u = t
    BY <1>2 DEF Finished, Turned
  <2> QED
    BY <1>2, <2>1, Zenon DEF SameBytes
<1>3. CASE ~Finished(fast, t) /\ fast
  <2>1. u = Taken(t) /\ Len(t.data) >= BlockSize
    BY <1>1, <1>3 DEF Finished, Turned
  <2>2. t.data # <<>>
    BY <1>1, <2>1
  <2>3. t.sc.buffer = <<>>
    BY <1>3, <2>2 DEF Ready
  <2>4. /\ u \in Turns(S) /\ SameBytes(t, u) /\ u.sc.buffer = <<>>
        /\ Len(u.data) < Len(t.data)
    BY <2>1, <2>3, TakenKeeps, Zenon
  <2> QED
    BY <1>3, <2>4, Zenon DEF Ready
<1>4. CASE ~Finished(fast, t) /\ ~fast
  <2>1. u = Filled(t) /\ t.data # <<>>
    BY <1>4 DEF Finished, Turned
  <2>2. /\ u \in Turns(S) /\ SameBytes(t, u) /\ Len(u.data) < Len(t.data)
    <3> DEFINE v == [sc |-> t.sc, data |-> t.data]
    <3>1. /\ Filled(v) \in Turns(S) /\ SameBytes(v, Filled(v))
          /\ t.data # <<>> => Len(Filled(v).data) < Len(t.data)
      BY <1>1, FilledKeeps, Zenon
    <3>2. v = t
      BY <1>1, Zenon
    <3> HIDE DEF v
    <3> QED
      BY <2>1, <3>1, <3>2, Zenon
  <2> QED
    BY <1>4, <2>2, Zenon DEF Ready
<1> QED
  BY <1>2, <1>3, <1>4, Zenon

LEMMA BegunKeeps ==
    ASSUME NEW S, NEW fast \in BOOLEAN, NEW sc \in Contexts(S), NEW data \in Seq(S)
    PROVE  LET t == [sc |-> sc, data |-> data]
               u == Begun(fast, sc, data)
           IN  /\ u \in Turns(S) /\ SameBytes(t, u) /\ Ready(fast, u)
               /\ Len(u.data) <= Len(data)
<1> DEFINE t == [sc |-> sc, data |-> data]
           u == Begun(fast, sc, data)
<1>1. t \in Turns(S) /\ t.sc = sc /\ t.data = data
  BY DEF Turns
<1>2. CASE fast /\ sc.buffer # <<>>
  <2>1. u = Filled(t)
    BY <1>2 DEF Begun
  <2>2. /\ Filled(t) \in Turns(S) /\ SameBytes(t, Filled(t))
        /\ Filled(t).sc.buffer = <<>> \/ Filled(t).data = <<>>
        /\ Len(Filled(t).data) <= Len(data)
    BY FilledKeeps, Zenon
  <2> HIDE DEF t, u
  <2> QED
    BY <2>1, <2>2, Zenon DEF Ready, t, u
<1>3. CASE ~(fast /\ sc.buffer # <<>>)
  <2>1. u = t
    BY <1>3 DEF Begun
  <2>2. Len(t.data) <= Len(data)
    BY <1>1
  <2>3. SameBytes(t, t)
    BY Zenon DEF SameBytes
  <2>4. Ready(fast, t)
    BY <1>1, <1>3, Zenon DEF Ready
  <2> QED
    BY <1>1, <2>1, <2>2, <2>3, <2>4, Zenon
<1> QED
  BY <1>2, <1>3, Zenon

LEMMA SameBytesChain ==
    ASSUME NEW a, NEW b, NEW c, SameBytes(a, b), SameBytes(b, c)
    PROVE  SameBytes(a, c)
  BY Zenon DEF SameBytes

LEMMA GatheredKeeps ==
    ASSUME NEW S, NEW fast \in BOOLEAN, NEW sc \in Contexts(S), NEW data \in Seq(S)
    PROVE  LET t == [sc |-> sc, data |-> data]
               u == Gathered(fast, sc, data)
           IN  /\ u \in Turns(S) /\ SameBytes(t, u) /\ Ready(fast, u)
               /\ Finished(fast, u)
<1> DEFINE t == [sc |-> sc, data |-> data]
           c == Begun(fast, sc, data)
           n == Len(data)
           R == {u \in Turns(S) : Ready(fast, u) /\ SameBytes(t, u)}
           step == [i \in 1 .. n |-> [u \in R |-> Turned(fast, u)]]
           Body(g) == [i \in 0 .. n |-> IF i = 0 THEN c ELSE Turned(fast, g[i - 1])]
           turn == CHOOSE g : g = Body(g)
<1>1. c \in R /\ Len(c.data) <= n /\ n \in Nat
  <2>1. c \in Turns(S) /\ SameBytes(t, c) /\ Ready(fast, c) /\ Len(c.data) <= Len(data)
    BY BegunKeeps, Zenon
  <2>2. Len(data) \in Nat
    OBVIOUS
  <2> HIDE DEF c, t
  <2> QED
    BY <2>1, <2>2
<1>2. ASSUME NEW u \in R
      PROVE  /\ Turned(fast, u) \in R
             /\ Finished(fast, u) => Turned(fast, u) = u
             /\ Finished(fast, u) \/ Len(Turned(fast, u).data) < Len(u.data)
             /\ u.data \in Seq(S)
  <2> HIDE DEF t
  <2>1. u \in Turns(S) /\ Ready(fast, u) /\ SameBytes(t, u)
    BY <1>2
  <2>2. /\ Turned(fast, u) \in Turns(S) /\ SameBytes(u, Turned(fast, u))
        /\ Ready(fast, Turned(fast, u))
        /\ Finished(fast, u) => Turned(fast, u) = u
        /\ Finished(fast, u) \/ Len(Turned(fast, u).data) < Len(u.data)
    BY <2>1, TurnedKeeps, Zenon
  <2>3. SameBytes(t, Turned(fast, u))
    BY <2>1, <2>2, SameBytesChain, Zenon
  <2>4. u.data \in Seq(S)
    BY <2>1 DEF Turns
  <2> QED
    BY <2>2, <2>3, <2>4
<1> HIDE DEF R, c
<1>3. /\ step \in [1 .. n -> [R -> R]]
      /\ \A i \in 1 .. n : \A u \in R : step[i][u] = Turned(fast, u)
  BY <1>2
<1> HIDE DEF step, n
<1>4. PICK f : IsLoop(f, R, c, n, step)
  BY <1>1, <1>3, LoopRuns
<1>5. /\ f \in [0 .. n -> R] /\ f[0] = c
      /\ \A i \in 1 .. n : f[i] = Turned(fast, f[i - 1])
  <2>1. f \in [0 .. n -> R] /\ f[0] = c /\ \A i \in 1 .. n : f[i] = step[i][f[i - 1]]
    BY <1>4 DEF IsLoop
  <2>2. \A i \in 1 .. n : i - 1 \in 0 .. n
    BY <1>1
  <2>3. \A i \in 1 .. n : f[i - 1] \in R
    BY <2>1, <2>2
  <2> QED
    BY <1>3, <2>1, <2>3
<1>6. f = Body(f)
  <2>1. f = [i \in 0 .. n |-> f[i]]
    BY <1>5
  <2>2. ASSUME NEW i \in 0 .. n
        PROVE  f[i] = IF i = 0 THEN c ELSE Turned(fast, f[i - 1])
    <3>1. i # 0 => i \in 1 .. n
      BY <1>1
    <3> QED
      BY <1>5, <3>1
  <2> QED
    BY <2>1, <2>2
<1>7. turn = Body(turn)
  <2> HIDE DEF Body
  <2> QED
    BY <1>6, Zenon
<1>8. Gathered(fast, sc, data) = turn[n]
  BY Zenon DEF Gathered, c, n
<1> HIDE DEF turn
<1>9. \A i \in 0 .. n : turn[i] = IF i = 0 THEN c ELSE Turned(fast, turn[i - 1])
  BY <1>7
<1> DEFINE T == {i \in Nat : turn[i] \in R /\ (Finished(fast, turn[i])
                                                  \/ Len(turn[i].data) <= n - i)}
<1>10. 0 \in T
  <2>1. turn[0] = c
    BY <1>1, <1>9
  <2>2. Len(c.data) <= n - 0
    BY <1>1
  <2> QED
    BY <1>1, <2>1, <2>2
<1>11. ASSUME NEW i \in 1 .. n, i - 1 \in T PROVE i \in T
  <2>1. turn[i - 1] \in R /\ (Finished(fast, turn[i - 1]) \/ Len(turn[i - 1].data) <= n - (i - 1))
    BY <1>11
  <2>2. turn[i] = Turned(fast, turn[i - 1])
    <3>1. i \in 0 .. n /\ i # 0
      BY <1>1
    <3> QED
      BY <1>9, <3>1, Zenon
  <2> DEFINE u == turn[i - 1]
             v == turn[i]
  <2>3. /\ v \in R /\ (Finished(fast, u) => v = u)
        /\ Finished(fast, u) \/ Len(v.data) < Len(u.data)
        /\ u.data \in Seq(S) /\ v.data \in Seq(S)
    <3>1. /\ v \in R /\ (Finished(fast, u) => v = u)
          /\ Finished(fast, u) \/ Len(v.data) < Len(u.data)
          /\ u.data \in Seq(S)
      BY <1>2, <2>1, <2>2, Zenon
    <3>2. v.data \in Seq(S)
      BY <1>2, <3>1
    <3> QED
      BY <3>1, <3>2
  <2>4. Finished(fast, v) \/ Len(v.data) <= n - i
    <3>1. CASE Finished(fast, u)
      BY <2>3, <3>1
    <3>2. CASE ~Finished(fast, u)
      <4>1. Len(v.data) < Len(u.data) /\ Len(u.data) <= n - (i - 1)
        BY <2>1, <2>3, <3>2
      <4>2. Len(v.data) \in Nat /\ Len(u.data) \in Nat
        BY <2>3
      <4> HIDE DEF u, v
      <4> QED
        BY <1>1, <4>1, <4>2
    <3> QED
      BY <3>1, <3>2
  <2>5. i \in Nat
    BY <1>1
  <2> QED
    BY <2>3, <2>4, <2>5
<1>12. turn[n] \in R /\ Finished(fast, turn[n])
  <2>1. n \in T
    <3> HIDE DEF T
    <3>1. \A i \in 0 .. n : i \in T
      BY <1>1, <1>10, <1>11, UpTo
    <3> QED
      BY <1>1, <3>1
  <2>2. turn[n] \in R /\ (Finished(fast, turn[n]) \/ Len(turn[n].data) <= n - n)
    BY <2>1
  <2> DEFINE v == turn[n]
  <2>3. v.data \in Seq(S)
    BY <1>2, <2>2
  <2>4. Finished(fast, v)
    <3>1. CASE Len(v.data) <= n - n
      <4> DEFINE d == v.data
      <4>1. Len(d) <= n - n /\ d \in Seq(S)
        BY <2>3, <3>1
      <4> HIDE DEF d
      <4>2. d = <<>> /\ Len(d) = 0
        BY <1>1, <4>1
      <4>3. 0 < BlockSize
        BY HashAssumption
      <4>4. Finished(fast, v)
        BY <4>2, <4>3 DEF Finished, d
      <4> QED
        BY <4>4
    <3> QED
      BY <2>2, <3>1
  <2> QED
    BY <2>2, <2>4
<1>13. turn[n] \in Turns(S) /\ SameBytes(t, turn[n]) /\ Ready(fast, turn[n])
  BY <1>12 DEF R
<1> QED
  BY <1>8, <1>12, <1>13, Zenon

\* SHA256Update() takes all of the data and loses nothing of it.
LEMMA UpdateKeeps ==
    ASSUME NEW S, NEW fast \in BOOLEAN, NEW sc \in Contexts(S), NEW data \in Seq(S)
    PROVE  LET more == Update(fast, sc, data)
           IN  /\ more \in Contexts(S) /\ Content(more) = Content(sc) \o data
               /\ more.totalLength = sc.totalLength + 8 * Len(data)
<1> DEFINE t == [sc |-> sc, data |-> data]
           u == Gathered(fast, sc, data)
           now == u.sc
           rest == u.data
<1>1. u \in Turns(S) /\ SameBytes(t, u) /\ Ready(fast, u) /\ Finished(fast, u)
  BY GatheredKeeps, Zenon
<1>2. Update(fast, sc, data) = IF fast THEN Copied(now, rest) ELSE now
  BY DEF Update
<1> HIDE DEF u
<1>3. now \in Contexts(S) /\ rest \in Seq(S)
  BY <1>1 DEF Turns
<1>4. /\ Content(now) \o rest = Content(sc) \o data
      /\ now.totalLength + 8 * Len(rest) = sc.totalLength + 8 * Len(data)
  BY <1>1 DEF SameBytes, Bits
<1>5. Ready(fast, u) = (fast => now.buffer = <<>> \/ rest = <<>>)
      /\ Finished(fast, u) = (IF fast THEN Len(rest) < BlockSize ELSE rest = <<>>)
  BY Zenon DEF Ready, Finished
<1> HIDE DEF now, rest
<1>6. /\ now \in Hashing(S) /\ Len(now.buffer) < BlockSize /\ Content(now) \in Seq(S)
      /\ now.buffer \in Seq(S) /\ now.totalLength \in Nat /\ BlockSize > 0
  BY <1>3, ContentIsSeq, HashAssumption DEF Contexts
<1>7. CASE fast
  <2> DEFINE more == Copied(now, rest)
  <2>1. /\ more \in Hashing(S) /\ Content(more) = Content(now) \o rest
        /\ more.totalLength = now.totalLength + 8 * Len(rest)
        /\ Len(more.buffer) = Len(now.buffer) + Len(rest)
    BY <1>3, <1>6, CopiedKeeps
  <2>2. Len(rest) < BlockSize /\ (now.buffer = <<>> \/ rest = <<>>)
    BY <1>1, <1>5, <1>7
  <2>3. Len(more.buffer) < BlockSize
    <3>1. Len(now.buffer) = 0 \/ Len(rest) = 0
      BY <2>2
    <3>2. Len(now.buffer) \in Nat /\ Len(rest) \in Nat
      BY <1>3, <1>6
    <3> QED
      BY <1>6, <2>1, <2>2, <3>1, <3>2
  <2>4. Update(fast, sc, data) = more
    BY <1>2, <1>7
  <2> HIDE DEF more
  <2>5. more \in Contexts(S)
    BY <2>1, <2>3 DEF Contexts
  <2> QED
    BY <1>4, <2>1, <2>4, <2>5, Zenon
<1>8. CASE ~fast
  <2>1. rest = <<>>
    BY <1>1, <1>5, <1>8
  <2>2. Content(now) \o rest = Content(now) /\ 8 * Len(rest) = 0
    BY <1>6, <2>1, ConcatEmptySeq
  <2>3. now.totalLength + 8 * Len(rest) = now.totalLength
    BY <1>6, <2>2
  <2>4. Update(fast, sc, data) = now
    BY <1>2, <1>8
  <2> QED
    BY <1>3, <1>4, <2>2, <2>3, <2>4, Zenon
<1> QED
  BY <1>7, <1>8, Zenon

LEMMA NoMultipleBetween ==
    ASSUME NEW b \in Nat, b > 0, NEW p \in Int, NEW q \in Int, NEW r \in Int,
           b * p = b * q + r, - b < r, r < b
    PROVE  p = q /\ r = 0
<1> DEFINE d == p - q
<1>1. d \in Int /\ b * d = r
  <2>1. b * d = b * p - b * q
    OBVIOUS
  <2>2. b * p \in Int /\ b * q \in Int
    OBVIOUS
  <2> HIDE DEF d
  <2> QED
    BY <2>1, <2>2 DEF d
<1>2. p = q + d
  OBVIOUS
<1> HIDE DEF d
<1>3. CASE d >= 1
  <2>1. b * d >= b
    BY <1>1, <1>3
  <2> QED
    BY <1>1, <2>1
<1>4. CASE d <= -1
  <2>1. b * d <= - b
    BY <1>1, <1>4
  <2> QED
    BY <1>1, <2>1
<1>5. CASE d = 0
  BY <1>1, <1>2, <1>5
<1> QED
  BY <1>1, <1>3, <1>4, <1>5

LEMMA ModOfMultiple ==
    ASSUME NEW b \in Nat, b > 0, NEW x \in Nat
    PROVE  x % b = 0 <=> \E q \in Nat : x = b * q
<1> DEFINE q == x \div b
           r == x % b
<1>1. q \in Nat /\ r \in 0 .. b - 1 /\ x = b * q + r
  OBVIOUS
<1> HIDE DEF q, r
<1>2. ASSUME NEW p \in Nat, x = b * p PROVE r = 0
  <2>1. b * p = b * q + r /\ -b < r /\ r < b /\ p \in Int /\ q \in Int /\ r \in Int
    BY <1>1, <1>2
  <2> QED
    BY <2>1, NoMultipleBetween
<1>3. r = 0 => x = b * q
  BY <1>1
<1> QED
  BY <1>1, <1>2, <1>3 DEF r

LEMMA PaddingFits ==
    ASSUME NEW n \in Nat, n < BlockSize
    PROVE  /\ BytesToPad(n) \in 1 .. BlockSize
           /\ \/ (n + BytesToPad(n)) + LengthBytes = BlockSize
              \/ (n + BytesToPad(n)) + LengthBytes = 2 * BlockSize
<1> DEFINE p == BytesToPad(n)
           room == ((2 * BlockSize) - LengthBytes) - n
<1>1. BlockSize \in Nat /\ LengthBytes \in Nat /\ LengthBytes < BlockSize
  BY HashAssumption
<1>2. p = IF room > BlockSize THEN room - BlockSize ELSE room
  <2>1. 2 * BlockSize - LengthBytes - n = room
    BY <1>1
  <2> QED
    BY <2>1 DEF BytesToPad
<1> HIDE DEF p
<1>3. CASE room > BlockSize
  <2>1. p = room - BlockSize
    BY <1>2, <1>3
  <2>2. p \in 1 .. BlockSize /\ (n + p) + LengthBytes = BlockSize
    BY <1>1, <1>3, <2>1
  <2> QED
    BY <2>2 DEF p
<1>4. CASE ~(room > BlockSize)
  <2>1. p = room
    BY <1>2, <1>4
  <2>2. p \in 1 .. BlockSize /\ (n + p) + LengthBytes = 2 * BlockSize
    BY <1>1, <1>4, <2>1
  <2> QED
    BY <2>2 DEF p
<1> QED
  BY <1>3, <1>4

LEMMA ZerosFill ==
    ASSUME NEW h \in Nat, NEW n \in Nat, n < BlockSize
    PROVE  Zeros(BlockSize * h + n) = BytesToPad(n) - 1
<1> DEFINE len == BlockSize * h + n
           p == BytesToPad(n)
           Fills(k) == (len + 1 + k + LengthBytes) % BlockSize = 0
           z == CHOOSE k \in 0 .. BlockSize - 1 : Fills(k)
<1>1. /\ BlockSize \in Nat /\ LengthBytes \in Nat /\ LengthBytes < BlockSize
      /\ BlockSize > 0 /\ BlockSize * h \in Nat /\ len \in Nat
  BY HashAssumption
<1>2. p \in 1 .. BlockSize /\ \E m \in 1 .. 2 : (n + p) + LengthBytes = BlockSize * m
  <2>1. BlockSize * 1 = BlockSize /\ BlockSize * 2 = 2 * BlockSize
    BY <1>1
  <2>2. 1 \in 1 .. 2 /\ 2 \in 1 .. 2
    OBVIOUS
  <2>3. p \in 1 .. BlockSize /\ ((n + p) + LengthBytes = BlockSize
                                   \/ (n + p) + LengthBytes = 2 * BlockSize)
    BY PaddingFits
  <2> QED
    BY <2>1, <2>2, <2>3, Zenon
<1>3. Zeros(len) = z
  BY DEF Zeros
<1> HIDE DEF p, len
<1>4. PICK m \in 1 .. 2 : (n + p) + LengthBytes = BlockSize * m
  BY <1>2
<1>5. ASSUME NEW k \in 0 .. BlockSize - 1
      PROVE  Fills(k) <=> \E q \in Nat : len + 1 + k + LengthBytes = BlockSize * q
  <2> DEFINE x == len + 1 + k + LengthBytes
  <2>1. x \in Nat
    BY <1>1
  <2> HIDE DEF x
  <2>2. x % BlockSize = 0 <=> \E q \in Nat : x = BlockSize * q
    BY <1>1, <2>1, ModOfMultiple
  <2> QED
    BY <2>2 DEF x
<1>6. len + 1 + (p - 1) + LengthBytes = BlockSize * (h + m)
  <2>1. BlockSize * (h + m) = BlockSize * h + BlockSize * m
    BY <1>1
  <2>2. len + 1 + (p - 1) + LengthBytes = BlockSize * h + ((n + p) + LengthBytes)
    BY <1>1, <1>2 DEF len
  <2> QED
    BY <1>4, <2>1, <2>2
<1>7. Fills(p - 1) /\ p - 1 \in 0 .. BlockSize - 1
  <2>1. p - 1 \in 0 .. BlockSize - 1 /\ h + m \in Nat
    BY <1>1, <1>2
  <2> HIDE DEF Fills
  <2> QED
    BY <1>5, <1>6, <2>1
<1>8. ASSUME NEW k \in 0 .. BlockSize - 1, Fills(k) PROVE k = p - 1
  <2>1. PICK q \in Nat : len + 1 + k + LengthBytes = BlockSize * q
    <3> HIDE DEF Fills
    <3> QED
      BY <1>5, <1>8
  <2> DEFINE r == k - (p - 1)
             a == BlockSize * q
             c == BlockSize * (h + m)
  <2>2. r \in Int /\ - BlockSize < r /\ r < BlockSize
    BY <1>1, <1>2
  <2>3. a = c + r
    <3>1. len + 1 + k + LengthBytes = a /\ len + 1 + (p - 1) + LengthBytes = c
      BY <1>6, <2>1
    <3>2. p \in Int /\ k \in Int
      BY <1>1, <1>2
    <3> HIDE DEF a, c
    <3> QED
      BY <1>1, <3>1, <3>2
  <2>4. q \in Int /\ h + m \in Int
    OBVIOUS
  <2> HIDE DEF r
  <2>5. r = 0
    BY <1>1, <2>2, <2>3, <2>4, NoMultipleBetween
  <2> QED
    BY <1>1, <1>2, <2>5 DEF r
<1> HIDE DEF Fills
<1>9. z = p - 1
  <2>1. z \in 0 .. BlockSize - 1 /\ Fills(z)
    BY <1>7, Zenon
  <2> HIDE DEF z
  <2> QED
    BY <1>8, <2>1
<1> QED
  BY <1>3, <1>9 DEF len, p

-----------------------------------------------------------------------------
(* The digest.                                                              *)

AllBytes == {"message", "pad", "length"} \X Nat

LEMMA MessageGrows ==
    ASSUME NEW m \in Nat, NEW n \in Nat
    PROVE  /\ Message(1, m) \in Seq(AllBytes) /\ Len(Message(1, m)) = m
           /\ Message(m + 1, m + n) \in Seq(AllBytes) /\ Len(Message(m + 1, m + n)) = n
           /\ Message(1, m) \o Message(m + 1, m + n) = Message(1, m + n)
<1> DEFINE Byte(i) == <<"message", i>>
<1>1. \A i \in Nat : Byte(i) \in AllBytes
  BY DEF AllBytes
<1> HIDE DEF Byte
<1>2. \A k \in Nat : Message(1, k) = [i \in 1 .. k |-> Byte(i)]
  <2>1. \A k \in Nat : k - 1 + 1 = k /\ \A i \in 1 .. k : 1 + i - 1 = i
    OBVIOUS
  <2> QED
    BY <2>1 DEF Message, Byte
<1>3. Message(m + 1, m + n) = [i \in 1 .. n |-> Byte(m + i)]
  <2>1. (m + n) - (m + 1) + 1 = n /\ \A i \in 1 .. n : m + 1 + i - 1 = m + i
    OBVIOUS
  <2> QED
    BY <2>1 DEF Message, Byte
<1> DEFINE a == [i \in 1 .. m |-> Byte(i)]
           b == [i \in 1 .. n |-> Byte(m + i)]
           c == [i \in 1 .. m + n |-> Byte(i)]
<1>4. /\ a \in Seq(AllBytes) /\ Len(a) = m /\ \A i \in 1 .. m : a[i] = Byte(i)
      /\ b \in Seq(AllBytes) /\ Len(b) = n /\ \A i \in 1 .. n : b[i] = Byte(m + i)
      /\ c \in Seq(AllBytes) /\ Len(c) = m + n /\ \A i \in 1 .. m + n : c[i] = Byte(i)
  <2>1. /\ \A i \in 1 .. m : Byte(i) \in AllBytes
        /\ \A i \in 1 .. n : Byte(m + i) \in AllBytes
        /\ \A i \in 1 .. m + n : Byte(i) \in AllBytes
    BY <1>1
  <2> QED
    BY <2>1
<1> HIDE DEF a, b, c
<1>5. a \o b = c
  <2>1. /\ a \o b \in Seq(AllBytes) /\ Len(a \o b) = m + n
        /\ \A i \in 1 .. m + n : (a \o b)[i] = IF i <= m THEN a[i] ELSE b[i - m]
    BY <1>4, ConcatProperties
  <2>2. ASSUME NEW i \in 1 .. m + n PROVE (a \o b)[i] = c[i]
    <3>1. CASE i <= m
      BY <1>4, <2>1, <3>1
    <3>2. CASE ~(i <= m)
      <4>1. i - m \in 1 .. n /\ m + (i - m) = i
        BY <3>2
      <4>2. b[i - m] = Byte(m + (i - m))
        BY <1>4, <4>1
      <4> QED
        BY <1>4, <2>1, <3>2, <4>1, <4>2
    <3> QED
      BY <3>1, <3>2
  <2> QED
    BY <1>4, <2>1, <2>2, SeqEqual
<1>6. m + n \in Nat
  OBVIOUS
<1>7. Message(1, m) = a /\ Message(m + 1, m + n) = b /\ Message(1, m + n) = c
  BY <1>2, <1>3, <1>6 DEF a, b, c
<1> QED
  BY <1>4, <1>5, <1>7, Zenon

LEMMA PaddingParts ==
    ASSUME NEW p \in Nat, p > 0
    PROVE  /\ Padding(p) \in Seq(AllBytes) /\ Len(Padding(p)) = p
           /\ [i \in 1 .. p - 1 |-> <<"pad", 0>>] \in Seq(AllBytes)
           /\ <<<<"pad", 128>>>> \in Seq(AllBytes)
           /\ <<<<"pad", 128>>>> \o [i \in 1 .. p - 1 |-> <<"pad", 0>>] = Padding(p)
<1> DEFINE first == <<"pad", 128>>
           zero == <<"pad", 0>>
           a == <<first>>
           b == [i \in 1 .. p - 1 |-> zero]
           c == [i \in 1 .. p |-> IF i = 1 THEN first ELSE zero]
<1>1. Padding(p) = c
  BY DEF Padding
<1>2. first \in AllBytes /\ zero \in AllBytes
  BY DEF AllBytes
<1> HIDE DEF first, zero
<1>3. p - 1 \in Nat
  OBVIOUS
<1>4. /\ a \in Seq(AllBytes) /\ Len(a) = 1 /\ a[1] = first
      /\ b \in Seq(AllBytes) /\ Len(b) = p - 1 /\ \A i \in 1 .. p - 1 : b[i] = zero
      /\ c \in Seq(AllBytes) /\ Len(c) = p
      /\ \A i \in 1 .. p : c[i] = IF i = 1 THEN first ELSE zero
  BY <1>2, <1>3
<1> HIDE DEF a, b, c
<1>5. a \o b = c
  <2>1. /\ a \o b \in Seq(AllBytes) /\ Len(a \o b) = Len(a) + Len(b)
        /\ \A i \in 1 .. Len(a) + Len(b) :
             (a \o b)[i] = IF i <= Len(a) THEN a[i] ELSE b[i - Len(a)]
    BY <1>4, ConcatProperties
  <2>2. /\ Len(a \o b) = p
        /\ \A i \in 1 .. p : (a \o b)[i] = IF i <= 1 THEN a[i] ELSE b[i - 1]
    <3>1. Len(a) + Len(b) = p /\ Len(a) = 1
      BY <1>4
    <3> QED
      BY <2>1, <3>1
  <2>3. ASSUME NEW i \in 1 .. p PROVE (a \o b)[i] = c[i]
    <3>1. CASE i = 1
      BY <1>4, <2>2, <3>1
    <3>2. CASE i # 1
      <4>1. i - 1 \in 1 .. p - 1
        BY <3>2
      <4>2. b[i - 1] = zero
        BY <1>4, <4>1
      <4> QED
        BY <1>4, <2>2, <3>2, <4>2
    <3> QED
      BY <3>1, <3>2
  <2> QED
    BY <1>4, <2>1, <2>2, <2>3, SeqEqual
<1> QED
  BY <1>1, <1>4, <1>5, Zenon DEF a, b, first, zero

LEMMA LengthParts ==
    ASSUME NEW n \in Nat
    PROVE  LET bytes == [i \in 1 .. LengthBytes |-> <<"length", n>>]
           IN  bytes \in Seq(AllBytes) /\ Len(bytes) = LengthBytes
<1> DEFINE byte == <<"length", n>>
<1>1. byte \in AllBytes /\ LengthBytes \in Nat
  BY HashAssumption DEF AllBytes
<1> HIDE DEF byte
<1>2. LET bytes == [i \in 1 .. LengthBytes |-> byte]
      IN  bytes \in Seq(AllBytes) /\ Len(bytes) = LengthBytes
  BY <1>1
<1> QED
  BY <1>2 DEF byte

\* SHA256Final() makes whole blocks of the message, its padding and its length.
LEMMA FinalKeeps ==
    ASSUME NEW fast \in BOOLEAN, NEW sc \in Contexts(AllBytes), NEW n \in Nat,
           Content(sc) = Message(1, n), sc.totalLength = 8 * n
    PROVE  LET done == Final(fast, sc)
           IN  /\ done \in Contexts(AllBytes) /\ Content(done) = Padded(n)
               /\ done.buffer = <<>>
<1> DEFINE b == Len(sc.buffer)
           p == BytesToPad(b)
           pads == Padding(p)
           bits == [i \in 1 .. LengthBytes |-> <<"length", sc.totalLength>>]
           mid == Update(fast, sc, pads)
           done == Update(fast, mid, bits)
           h == Len(sc.hashed)
           zeros == [i \in 1 .. p - 1 |-> <<"pad", 0>>]
           head == <<<<"pad", 128>>>>
           text == Message(1, n)
<1>1. /\ b \in Nat /\ b < BlockSize /\ h \in Nat /\ Content(sc) \in Seq(AllBytes)
      /\ BlockSize \in Nat /\ LengthBytes \in Nat /\ n = BlockSize * h + b
  <2>1. sc \in Hashing(AllBytes) /\ Len(sc.buffer) < BlockSize
    BY DEF Contexts
  <2>2. /\ sc.hashed \in Seq(Blocks(AllBytes)) /\ sc.buffer \in Seq(AllBytes)
        /\ Content(sc) \in Seq(AllBytes)
        /\ Len(Content(sc)) = BlockSize * Len(sc.hashed) + Len(sc.buffer)
    BY <2>1, ContentIsSeq
  <2>3. Len(Content(sc)) = n
    BY MessageGrows
  <2>4. Len(sc.buffer) \in Nat /\ Len(sc.hashed) \in Nat
    BY <2>2
  <2> QED
    BY <2>1, <2>2, <2>3, <2>4, HashAssumption
<1>2. /\ p \in Nat /\ p > 0
      /\ (b + p) + LengthBytes = BlockSize \/ (b + p) + LengthBytes = 2 * BlockSize
  <2> HIDE DEF b
  <2>1. /\ BytesToPad(b) \in 1 .. BlockSize
        /\ \/ (b + BytesToPad(b)) + LengthBytes = BlockSize
           \/ (b + BytesToPad(b)) + LengthBytes = 2 * BlockSize
    BY <1>1, PaddingFits
  <2> QED
    BY <2>1
<1>3. Zeros(n) = p - 1
  <2> HIDE DEF b, h
  <2>1. Zeros(BlockSize * h + b) = BytesToPad(b) - 1
    BY <1>1, ZerosFill
  <2> QED
    BY <1>1, <2>1
<1>4. Padded(n) = ((text \o head) \o zeros) \o bits
  BY <1>3 DEF Padded
<1>5. Final(fast, sc) = done
  BY DEF Final
<1> HIDE DEF p, b, h
<1>6. /\ pads \in Seq(AllBytes) /\ Len(pads) = p /\ head \o zeros = pads
      /\ zeros \in Seq(AllBytes) /\ head \in Seq(AllBytes)
  BY <1>2, PaddingParts
<1>7. bits \in Seq(AllBytes) /\ Len(bits) = LengthBytes
  <2>1. 8 * n \in Nat
    OBVIOUS
  <2> HIDE DEF done, mid, pads
  <2> QED
    BY <2>1, LengthParts, Zenon
<1>8. text \in Seq(AllBytes)
  BY MessageGrows
<1> HIDE DEF pads, bits, zeros, head, text
<1>9. mid \in Contexts(AllBytes) /\ Content(mid) = Content(sc) \o pads
  BY <1>6, UpdateKeeps, Zenon
<1> HIDE DEF mid
<1>10. done \in Contexts(AllBytes) /\ Content(done) = Content(mid) \o bits
  BY <1>7, <1>9, UpdateKeeps, Zenon
<1> HIDE DEF done
<1>11. Content(done) = Padded(n)
  <2>1. (text \o head) \o zeros = text \o pads
    <3>1. \A x, y, z \in Seq(AllBytes) : (x \o y) \o z = x \o (y \o z)
      BY ConcatAssociative
    <3> QED
      BY <1>6, <1>8, <3>1, Zenon
  <2>2. Content(sc) = text
    BY DEF text
  <2> QED
    BY <1>4, <1>9, <1>10, <2>1, <2>2, Zenon
<1>12. done.buffer = <<>>
  <2> DEFINE k == Len(done.hashed)
             r == Len(done.buffer)
  <2>1. /\ done.buffer \in Seq(AllBytes) /\ r < BlockSize /\ r \in Nat /\ k \in Nat
        /\ Len(Content(done)) = BlockSize * k + r
    <3>1. done \in Hashing(AllBytes) /\ r < BlockSize
      BY <1>10 DEF Contexts
    <3>2. /\ done.hashed \in Seq(Blocks(AllBytes)) /\ done.buffer \in Seq(AllBytes)
          /\ Len(Content(done)) = BlockSize * Len(done.hashed) + Len(done.buffer)
      BY <3>1, ContentIsSeq
    <3> QED
      BY <3>1, <3>2
  <2>2. Len(Content(done)) = (n + p) + LengthBytes
    <3>1. Len(Content(sc)) = n
      BY MessageGrows
    <3>2. Content(mid) \in Seq(AllBytes) /\ Len(Content(mid)) = n + p
      BY <1>1, <1>6, <1>9, <3>1, ConcatProperties
    <3>3. Len(Content(mid) \o bits) = Len(Content(mid)) + Len(bits)
      BY <1>7, <3>2, ConcatProperties
    <3> QED
      BY <1>7, <1>10, <3>2, <3>3, Zenon
  <2> HIDE DEF k, r
  <2>3. PICK m \in 1 .. 2 : (b + p) + LengthBytes = BlockSize * m
    <3>1. BlockSize * 1 = BlockSize /\ BlockSize * 2 = 2 * BlockSize
      BY <1>1
    <3>2. 1 \in 1 .. 2 /\ 2 \in 1 .. 2
      OBVIOUS
    <3> QED
      BY <1>2, <3>1, <3>2, Zenon
  <2>4. BlockSize * (h + m) = BlockSize * k + r
    <3>1. BlockSize * (h + m) = BlockSize * h + BlockSize * m
      BY <1>1
    <3>2. (n + p) + LengthBytes = BlockSize * h + ((b + p) + LengthBytes)
      <4> DEFINE x == BlockSize * h
      <4>1. x \in Nat /\ n = x + b
        BY <1>1
      <4> HIDE DEF x
      <4>2. (n + p) + LengthBytes = x + ((b + p) + LengthBytes)
        BY <1>1, <1>2, <4>1
      <4> QED
        BY <4>2 DEF x
    <3> QED
      BY <2>1, <2>2, <2>3, <3>1, <3>2, Zenon
  <2>5. r = 0
    <3>1. BlockSize > 0 /\ - BlockSize < r /\ h + m \in Int /\ k \in Int /\ r \in Int
      BY <1>1, <2>1
    <3> QED
      BY <1>1, <2>1, <2>4, <3>1, NoMultipleBetween
  <2> QED
    BY <2>1, <2>5 DEF r
<1> QED
  BY <1>5, <1>10, <1>11, <1>12, Zenon

HashState ==
    s.part = "hash" =>
      /\ s = [part |-> "hash", fast |-> s.fast, fed |-> s.fed, final |-> s.final, sc |-> s.sc]
      /\ s.fast \in BOOLEAN /\ s.final \in BOOLEAN /\ s.fed \in Nat
      /\ s.sc \in Contexts(AllBytes)
      /\ IF s.final THEN Content(s.sc) = Padded(s.fed) /\ s.sc.buffer = <<>>
         ELSE Content(s.sc) = Message(1, s.fed) /\ s.sc.totalLength = 8 * s.fed

LEMMA HashStateHolds == Spec => [](HasPart(s) /\ HashState)
<1> DEFINE Made(fast, fed, final, sc) ==
             [part |-> "hash", fast |-> fast, fed |-> fed, final |-> final, sc |-> sc]
           Right(fast, fed, final, sc) ==
             /\ fast \in BOOLEAN /\ final \in BOOLEAN /\ fed \in Nat
             /\ sc \in Contexts(AllBytes)
             /\ IF final THEN Content(sc) = Padded(fed) /\ sc.buffer = <<>>
                ELSE Content(sc) = Message(1, fed) /\ sc.totalLength = 8 * fed
<1>0. \A fast, fed, final, sc : Made(fast, fed, final, sc).fast = fast
        /\ Made(fast, fed, final, sc).fed = fed /\ Made(fast, fed, final, sc).final = final
        /\ Made(fast, fed, final, sc).sc = sc
  OBVIOUS
<1>1. Init => HasPart(s) /\ HashState
  <2> SUFFICES ASSUME Init, s.part = "hash"
               PROVE  HashState
    BY InitHasPart DEF HashState
  <2>1. s \in Hash
    <3>1. s \notin Tracks
      BY DEF Tracks
    <3> QED
      BY <3>1 DEF Init, Average, FilterOf, Image, Spectrum, Reader, Stations
  <2>2. PICK fast \in BOOLEAN : s = Made(fast, 0, FALSE, HashInit)
    BY <2>1 DEF Hash
  <2>3. Right(fast, 0, FALSE, HashInit)
    <3>1. HashInit \in Contexts(AllBytes)
      <4>1. <<>> \in Seq(Blocks(AllBytes)) /\ <<>> \in Seq(AllBytes) /\ Len(<<>>) = 0
        OBVIOUS
      <4>2. 0 < BlockSize
        BY HashAssumption
      <4> QED
        BY <4>1, <4>2 DEF HashInit, Contexts, Hashing
    <3>2. Content(HashInit) = <<>> \o <<>> /\ HashInit.totalLength = 0
      BY FlattenNothing DEF HashInit, Content
    <3>3. <<>> \o <<>> = <<>>
      OBVIOUS
    <3>4. Message(1, 0) \in Seq(AllBytes) /\ Len(Message(1, 0)) = 0
      BY MessageGrows
    <3>5. Message(1, 0) = <<>>
      BY <3>4
    <3> QED
      BY <3>1, <3>2, <3>3, <3>5
  <2>4. s.fast = fast /\ s.fed = 0 /\ s.final = FALSE /\ s.sc = HashInit
    BY <1>0, <2>2, Zenon
  <2> HIDE DEF Made, Right
  <2>5. s = Made(s.fast, s.fed, s.final, s.sc) /\ Right(s.fast, s.fed, s.final, s.sc)
    BY <2>2, <2>3, <2>4
  <2> QED
    BY <2>5 DEF HashState, Made, Right
<1>2. HasPart(s) /\ HashState /\ [Next]_s => (HasPart(s) /\ HashState)'
  <2> SUFFICES ASSUME HasPart(s), HashState, [Next]_s, s'.part = "hash"
               PROVE  s' = Made(s'.fast, s'.fed, s'.final, s'.sc)
                        /\ Right(s'.fast, s'.fed, s'.final, s'.sc)
    BY NextKeepsPart DEF HashState
  <2>1. /\ s.part = "hash" /\ s = Made(s.fast, s.fed, s.final, s.sc)
        /\ Right(s.fast, s.fed, s.final, s.sc)
    BY NextKeepsPart DEF HashState
  <2>2. ASSUME NEW fast, NEW fed, NEW final, NEW sc, s' = Made(fast, fed, final, sc),
               Right(fast, fed, final, sc)
        PROVE  s' = Made(s'.fast, s'.fed, s'.final, s'.sc)
                 /\ Right(s'.fast, s'.fed, s'.final, s'.sc)
    <3>1. s'.fast = fast /\ s'.fed = fed /\ s'.final = final /\ s'.sc = sc
      BY <1>0, <2>2, Zenon
    <3> HIDE DEF Made, Right
    <3> QED
      BY <2>2, <3>1
  <2>3. CASE HashUpdate
    <3>1. ~s.final
      BY <2>3 DEF HashUpdate
    <3>2. PICK n \in 0 .. MaxPiece :
            s' = Made(s.fast, s.fed + n, FALSE,
                      Update(s.fast, s.sc, Message(s.fed + 1, s.fed + n)))
      BY <2>3, Zenon DEF HashUpdate
    <3> DEFINE m == s.fed
               sc == s.sc
               text == Message(m + 1, m + n)
               more == Update(s.fast, sc, text)
    <3>3. /\ n \in Nat /\ m \in Nat /\ m + n \in Nat /\ sc \in Contexts(AllBytes)
          /\ s.fast \in BOOLEAN /\ Content(sc) = Message(1, m) /\ sc.totalLength = 8 * m
      BY <2>1, <3>1
    <3> HIDE DEF m, sc
    <3>4. text \in Seq(AllBytes) /\ Len(text) = n /\ Message(1, m) \o text = Message(1, m + n)
      BY <3>3, MessageGrows
    <3> HIDE DEF text
    <3>5. /\ more \in Contexts(AllBytes) /\ Content(more) = Content(sc) \o text
          /\ more.totalLength = sc.totalLength + 8 * Len(text)
      BY <3>3, <3>4, UpdateKeeps, Zenon
    <3> HIDE DEF more
    <3>6. Content(more) = Message(1, m + n)
      BY <3>3, <3>4, <3>5, Zenon
    <3>7. more.totalLength = 8 * (m + n)
      BY <3>3, <3>4, <3>5
    <3>8. Right(s.fast, m + n, FALSE, more)
      BY <3>3, <3>5, <3>6, <3>7
    <3>9. s' = Made(s.fast, m + n, FALSE, more)
      BY <3>2, Zenon DEF m, more, sc, text
    <3> HIDE DEF Made, Right
    <3> QED
      BY <2>2, <3>8, <3>9, Zenon
  <2>4. CASE HashFinal
    <3>1. ~s.final
      BY <2>4 DEF HashFinal
    <3>2. s' = Made(s.fast, s.fed, TRUE, Final(s.fast, s.sc))
      BY <2>4, Zenon DEF HashFinal
    <3>3. /\ s.fed \in Nat /\ s.sc \in Contexts(AllBytes) /\ s.fast \in BOOLEAN
          /\ Content(s.sc) = Message(1, s.fed) /\ s.sc.totalLength = 8 * s.fed
      BY <2>1, <3>1
    <3>4. /\ Final(s.fast, s.sc) \in Contexts(AllBytes)
          /\ Content(Final(s.fast, s.sc)) = Padded(s.fed)
          /\ Final(s.fast, s.sc).buffer = <<>>
      BY <3>3, FinalKeeps, Zenon
    <3>5. Right(s.fast, s.fed, TRUE, Final(s.fast, s.sc))
      BY <3>3, <3>4
    <3> HIDE DEF Made, Right
    <3> QED
      BY <2>2, <3>2, <3>5, Zenon
  <2>5. CASE UNCHANGED s
    <3>1. s' = s
      BY <2>5
    <3> HIDE DEF Made, Right
    <3> QED
      BY <2>1, <3>1
  <2> QED
    BY <2>1, <2>3, <2>4, <2>5
       DEF Next, AverageAdd, AverageClear, AveragePurge, MbidOpen, MbidFrame, MbidNext, Restart
<1> QED
  BY <1>1, <1>2, PTL DEF Spec

(* Sha256: whatever the size of a block and of the length, and however the  *)
(* message is cut into pieces, both ways of copying compress the message,   *)
(* its padding and its length, in their order, in whole blocks.             *)
THEOREM DigestOfAnyMessage == Spec => []DigestIsOfTheMessage
<1>1. HashState => DigestIsOfTheMessage
  <2> SUFFICES ASSUME HashState, s.part = "hash"
               PROVE  /\ Flat(s.sc.hashed) \o s.sc.buffer
                           = IF s.final THEN Padded(s.fed) ELSE Message(1, s.fed)
                      /\ Len(s.sc.buffer) < BlockSize
                      /\ s.final => s.sc.buffer = <<>>
                      /\ \A i \in DOMAIN s.sc.hashed : Len(s.sc.hashed[i]) = BlockSize
    BY DEF DigestIsOfTheMessage
  <2>1. /\ s.final \in BOOLEAN /\ s.sc \in Contexts(AllBytes)
        /\ IF s.final THEN Content(s.sc) = Padded(s.fed) /\ s.sc.buffer = <<>>
           ELSE Content(s.sc) = Message(1, s.fed)
    BY DEF HashState
  <2>2. Flat(s.sc.hashed) \o s.sc.buffer = Content(s.sc)
    BY DEF Flat, Content
  <2>3. s.sc \in Hashing(AllBytes) /\ Len(s.sc.buffer) < BlockSize
    BY <2>1 DEF Contexts
  <2>4. s.sc.hashed \in Seq(Blocks(AllBytes))
    BY <2>3, ContentIsSeq
  <2>5. \A i \in DOMAIN s.sc.hashed : s.sc.hashed[i] \in Blocks(AllBytes)
    BY <2>4
  <2>6. \A i \in DOMAIN s.sc.hashed : Len(s.sc.hashed[i]) = BlockSize
    BY <2>5 DEF Blocks
  <2> QED
    BY <2>1, <2>2, <2>3, <2>6
<1> QED
  BY <1>1, HashStateHolds, PTL

-----------------------------------------------------------------------------
(* Sorted names.  Whatever sorts them, there is one result.                 *)

Names == DOMAIN Rank

\* t sorts n names: it has them in the order p.
Sorts(t, names, n, p) ==
    /\ p \in [1 .. n -> 1 .. n]
    /\ \A i, j \in 1 .. n : p[i] = p[j] => i = j
    /\ \A i \in 1 .. n : \E l \in 1 .. n : p[l] = i
    /\ t = [i \in 1 .. n |-> names[p[i]]]
    /\ \A i, j \in 1 .. n : i < j => Rank[t[i]] <= Rank[t[j]]

\* A name of one is not before the name that the other has in its place: else too many
\* names would be before it.
LEMMA NotBefore ==
    ASSUME NEW n \in Nat, NEW names \in [1 .. n -> Names],
           NEW t, NEW p, Sorts(t, names, n, p), NEW u, NEW q, Sorts(u, names, n, q),
           NEW k \in 1 .. n
    PROVE  ~(Rank[t[k]] < Rank[u[k]])
<1> SUFFICES ASSUME Rank[t[k]] < Rank[u[k]] PROVE FALSE
  OBVIOUS
<1>1. /\ p \in [1 .. n -> 1 .. n] /\ \A i, j \in 1 .. n : p[i] = p[j] => i = j
      /\ q \in [1 .. n -> 1 .. n] /\ \A i \in 1 .. n : \E l \in 1 .. n : q[l] = i
      /\ \A i \in 1 .. n : t[i] = names[p[i]] /\ u[i] = names[q[i]]
      /\ \A i, j \in 1 .. n : i < j => Rank[t[i]] <= Rank[t[j]]
      /\ \A i, j \in 1 .. n : i < j => Rank[u[i]] <= Rank[u[j]]
  BY DEF Sorts
<1>2. /\ \A i \in 1 .. n : t[i] = names[p[i]] /\ u[i] = names[q[i]]
      /\ \A i \in 1 .. n : t[i] \in Names /\ u[i] \in Names
  <2>1. ASSUME NEW i \in 1 .. n
        PROVE  t[i] = names[p[i]] /\ u[i] = names[q[i]] /\ t[i] \in Names /\ u[i] \in Names
    <3>1. p[i] \in 1 .. n /\ q[i] \in 1 .. n
      BY <1>1
    <3>2. names[p[i]] \in Names /\ names[q[i]] \in Names
      BY <3>1
    <3>3. t[i] = names[p[i]] /\ u[i] = names[q[i]]
      BY <1>1
    <3> QED
      BY <3>2, <3>3
  <2> QED
    BY <2>1
<1>3. \A i \in 1 .. n : Rank[t[i]] \in Int /\ Rank[u[i]] \in Int
  BY <1>2, RankAssumption DEF Names
<1>4. /\ \A i, j \in 1 .. n : i < j => Rank[t[i]] <= Rank[t[j]]
      /\ \A i, j \in 1 .. n : i < j => Rank[u[i]] <= Rank[u[j]]
  BY <1>1
<1> DEFINE f == [i \in 1 .. k |-> CHOOSE l \in 1 .. n : q[l] = p[i]]
<1>5. \A i \in 1 .. k : i \in 1 .. n /\ f[i] \in 1 .. n /\ q[f[i]] = p[i]
  <2> TAKE i \in 1 .. k
  <2>1. i \in 1 .. n
    OBVIOUS
  <2>2. p[i] \in 1 .. n
    BY <2>1, <1>1
  <2>3. \E l \in 1 .. n : q[l] = p[i]
    BY <2>2, <1>1
  <2> QED
    BY <2>1, <2>3
<1>6. f \in [1 .. k -> 1 .. k - 1]
  <2>1. ASSUME NEW i \in 1 .. k PROVE f[i] \in 1 .. k - 1
    <3> DEFINE l == f[i]
    <3> HIDE DEF f
    <3>1. i \in 1 .. n /\ l \in 1 .. n /\ u[l] = t[i]
      <4>1. i \in 1 .. n /\ l \in 1 .. n /\ q[l] = p[i]
        BY <1>5
      <4>2. t[i] = names[p[i]] /\ u[l] = names[q[l]]
        BY <1>2, <4>1
      <4> QED
        BY <4>1, <4>2
    <3> HIDE DEF l
    <3>2. Rank[t[i]] <= Rank[t[k]]
      BY <3>1, <1>3, <1>4
    <3>3. l >= k => Rank[u[k]] <= Rank[u[l]]
      BY <3>1, <1>3, <1>4
    <3>4. ~(l >= k)
      BY <3>1, <3>2, <3>3, <1>3
    <3> QED
      BY <3>1, <3>4 DEF l
  <2> QED
    BY <2>1
<1>7. \E i, j \in 1 .. k : i # j /\ f[i] = f[j]
  <2>1. /\ IsFiniteSet(1 .. k) /\ Cardinality(1 .. k) = k
        /\ IsFiniteSet(1 .. k - 1) /\ Cardinality(1 .. k - 1) = k - 1
    BY FS_Interval
  <2> HIDE DEF f
  <2>2. Cardinality(1 .. k - 1) < Cardinality(1 .. k)
    BY <2>1
  <2> QED
    BY <1>6, <2>1, <2>2, FS_PigeonHole
<1> HIDE DEF f
<1>8. PICK i \in 1 .. k, j \in 1 .. k : i # j /\ f[i] = f[j]
  BY <1>7
<1>9. /\ i \in 1 .. n /\ j \in 1 .. n /\ i # j
      /\ q[f[i]] = p[i] /\ q[f[j]] = p[j] /\ f[i] = f[j]
  BY <1>5, <1>8
<1>10. p[i] = p[j]
  BY <1>9, Zenon
<1> QED
  BY <1>1, <1>9, <1>10

LEMMA SortedIsUnique ==
    ASSUME NEW n \in Nat, NEW names \in [1 .. n -> Names],
           NEW t, NEW p, Sorts(t, names, n, p), NEW u, NEW q, Sorts(u, names, n, q)
    PROVE  t = u
<1>1. \A i \in 1 .. n : t[i] \in Names /\ u[i] \in Names
  <2>1. /\ p \in [1 .. n -> 1 .. n] /\ \A i \in 1 .. n : t[i] = names[p[i]]
        /\ q \in [1 .. n -> 1 .. n] /\ \A i \in 1 .. n : u[i] = names[q[i]]
    BY DEF Sorts
  <2> QED
    BY <2>1
<1>2. ASSUME NEW k \in 1 .. n PROVE t[k] = u[k]
  <2>1. ~(Rank[t[k]] < Rank[u[k]]) /\ ~(Rank[u[k]] < Rank[t[k]])
    BY NotBefore
  <2>2. Rank[t[k]] \in Int /\ Rank[u[k]] \in Int
    BY <1>1, RankAssumption DEF Names
  <2>3. Rank[t[k]] = Rank[u[k]]
    BY <2>1, <2>2
  <2> QED
    BY <1>1, <2>3, RankAssumption DEF Names
<1>3. t = [i \in 1 .. n |-> t[i]] /\ u = [i \in 1 .. n |-> u[i]]
  <2>1. t = [i \in 1 .. n |-> names[p[i]]] /\ u = [i \in 1 .. n |-> names[q[i]]]
    BY DEF Sorts
  <2> QED
    BY <2>1
<1> QED
  BY <1>2, <1>3

\* One more name is put before those behind it.
LEMMA SortedGrows ==
    ASSUME NEW n \in Nat, NEW names \in [1 .. n + 1 -> Names], NEW t, NEW p,
           Sorts(t, [i \in 1 .. n |-> names[i]], n, p)
    PROVE  \E u, q : Sorts(u, names, n + 1, q)
<1> DEFINE v == names[n + 1]
           After == {i \in 1 .. n + 1 : \A j \in i .. n : Rank[v] < Rank[t[j]]}
<1>1. /\ p \in [1 .. n -> 1 .. n] /\ \A i, j \in 1 .. n : p[i] = p[j] => i = j
      /\ \A i \in 1 .. n : \E l \in 1 .. n : p[l] = i
  BY DEF Sorts
<1>2. \A i \in 1 .. n : t[i] = names[p[i]] /\ t[i] \in Names
  <2> DEFINE fewer == [i \in 1 .. n |-> names[i]]
  <2>1. \A i \in 1 .. n : t[i] = fewer[p[i]]
    <3> HIDE DEF fewer
    <3>1. Sorts(t, fewer, n, p)
      BY DEF fewer
    <3> QED
      BY <3>1 DEF Sorts
  <2>2. \A i \in 1 .. n : fewer[i] = names[i] /\ names[i] \in Names
    OBVIOUS
  <2> HIDE DEF fewer
  <2>3. ASSUME NEW i \in 1 .. n PROVE t[i] = names[p[i]] /\ t[i] \in Names
    <3>1. p[i] \in 1 .. n
      BY <1>1
    <3>2. t[i] = fewer[p[i]] /\ fewer[p[i]] = names[p[i]] /\ names[p[i]] \in Names
      BY <2>1, <2>2, <3>1
    <3> QED
      BY <3>2
  <2> QED
    BY <2>3
<1>3. /\ \A i \in 1 .. n : Rank[t[i]] \in Int
      /\ v \in Names /\ Rank[v] \in Int
  BY <1>2, RankAssumption DEF Names
<1>4. \A i, j \in 1 .. n : i < j => Rank[t[i]] <= Rank[t[j]]
  BY DEF Sorts
<1> HIDE DEF v
<1>5. PICK k \in After : \A i \in After : k <= i
  <2>1. n + 1 \in After
    OBVIOUS
  <2>2. After \in SUBSET Nat
    OBVIOUS
  <2> HIDE DEF After
  <2> QED
    BY <2>1, <2>2, LeastNatural
<1>6. k \in 1 .. n + 1 /\ \A j \in k .. n : Rank[v] < Rank[t[j]]
  OBVIOUS
<1>7. \A j \in 1 .. k - 1 : Rank[t[j]] <= Rank[v]
  <2>1. CASE k = 1
    BY <2>1
  <2>2. CASE k # 1
    <3> DEFINE l == k - 1
    <3>1. l \in 1 .. n /\ l \in 1 .. n + 1 /\ ~(k <= l)
      BY <2>2, <1>6
    <3>2. l \notin After
      BY <3>1, <1>5
    <3>3. PICK j \in l .. n : ~(Rank[v] < Rank[t[j]])
      BY <3>1, <3>2
    <3>4. j = l
      BY <3>1, <3>3, <1>6
    <3>5. Rank[t[l]] <= Rank[v]
      BY <3>1, <3>3, <3>4, <1>3
    <3>6. \A i \in 1 .. l : i \in 1 .. n /\ (i = l \/ i < l)
      BY <3>1
    <3> HIDE DEF l
    <3>7. \A i \in 1 .. l : Rank[t[i]] <= Rank[v]
      BY <3>1, <3>5, <3>6, <1>3, <1>4
    <3> QED
      BY <3>7 DEF l
  <2> QED
    BY <2>1, <2>2
<1> HIDE DEF After
<1> DEFINE q == [i \in 1 .. n + 1 |-> IF i < k THEN p[i] ELSE IF i = k THEN n + 1 ELSE p[i - 1]]
           u == [i \in 1 .. n + 1 |-> names[q[i]]]
<1>8. /\ \A i \in 1 .. k - 1 : i \in 1 .. n /\ q[i] = p[i]
      /\ q[k] = n + 1
      /\ \A i \in k + 1 .. n + 1 : i - 1 \in 1 .. n /\ q[i] = p[i - 1]
  BY <1>6
<1>9. \A i \in 1 .. n + 1 : i \in 1 .. k - 1 \/ i = k \/ i \in k + 1 .. n + 1
  BY <1>6
<1>10. q \in [1 .. n + 1 -> 1 .. n + 1]
  <2>1. \A i \in 1 .. n : p[i] \in 1 .. n + 1
    BY <1>1
  <2>2. n + 1 \in 1 .. n + 1
    OBVIOUS
  <2> QED
    BY <2>1, <2>2, <1>8, <1>9
<1> HIDE DEF q
<1>11. ASSUME NEW i \in 1 .. n + 1, NEW j \in 1 .. n + 1, q[i] = q[j] PROVE i = j
  <2>1. \A l \in 1 .. n : p[l] # n + 1
    BY <1>1
  <2>2. CASE i = k
    <3>1. q[j] = n + 1
      BY <2>2, <1>8, <1>11
    <3>2. ~(j \in 1 .. k - 1) /\ ~(j \in k + 1 .. n + 1)
      BY <3>1, <2>1, <1>8
    <3> QED
      BY <3>2, <2>2, <1>9
  <2>3. CASE j = k
    <3>1. q[i] = n + 1
      BY <2>3, <1>8, <1>11
    <3>2. ~(i \in 1 .. k - 1) /\ ~(i \in k + 1 .. n + 1)
      BY <3>1, <2>1, <1>8
    <3> QED
      BY <3>2, <2>3, <1>9
  <2>4. CASE i # k /\ j # k
    <3> DEFINE a == IF i < k THEN i ELSE i - 1
               b == IF j < k THEN j ELSE j - 1
    <3>1. a \in 1 .. n /\ b \in 1 .. n /\ q[i] = p[a] /\ q[j] = p[b]
      BY <2>4, <1>6, <1>8, <1>9
    <3>2. a = b
      BY <3>1, <1>1, <1>11
    <3> QED
      BY <3>2, <2>4, <1>6
  <2> QED
    BY <2>2, <2>3, <2>4
<1>12. ASSUME NEW y \in 1 .. n + 1 PROVE \E i \in 1 .. n + 1 : q[i] = y
  <2>1. CASE y = n + 1
    BY <2>1, <1>6, <1>8
  <2>2. CASE y # n + 1
    <3>1. y \in 1 .. n
      BY <2>2
    <3>2. PICK l \in 1 .. n : p[l] = y
      BY <3>1, <1>1
    <3>3. CASE l < k
      <4>1. l \in 1 .. k - 1 /\ l \in 1 .. n + 1
        BY <3>3, <1>6
      <4> QED
        BY <4>1, <3>2, <1>8
    <3>4. CASE ~(l < k)
      <4>1. l + 1 \in k + 1 .. n + 1 /\ (l + 1) - 1 = l /\ l + 1 \in 1 .. n + 1
        BY <3>4, <1>6
      <4>2. q[l + 1] = p[l]
        BY <4>1, <1>8
      <4> QED
        BY <4>1, <4>2, <3>2
    <3> QED
      BY <3>3, <3>4
  <2> QED
    BY <2>1, <2>2
<1>13. /\ \A i \in 1 .. k - 1 : i \in 1 .. n /\ u[i] = t[i]
       /\ u[k] = v
       /\ \A i \in k + 1 .. n + 1 : i - 1 \in 1 .. n /\ u[i] = t[i - 1]
  <2>1. \A i \in 1 .. n + 1 : u[i] = names[q[i]]
    OBVIOUS
  <2> HIDE DEF u
  <2>2. \A i \in 1 .. k - 1 : i \in 1 .. n + 1
    BY <1>6
  <2>3. \A i \in k + 1 .. n + 1 : i \in 1 .. n + 1
    BY <1>6
  <2>4. ASSUME NEW i \in 1 .. k - 1 PROVE i \in 1 .. n /\ u[i] = t[i]
    <3>1. i \in 1 .. n /\ q[i] = p[i] /\ u[i] = names[q[i]]
      BY <2>1, <2>2, <1>8
    <3>2. t[i] = names[p[i]]
      BY <3>1, <1>2
    <3> QED
      BY <3>1, <3>2, Zenon
  <2>5. u[k] = v
    <3>1. u[k] = names[q[k]] /\ q[k] = n + 1
      BY <2>1, <1>6, <1>8
    <3> QED
      BY <3>1, Zenon DEF v
  <2>6. ASSUME NEW i \in k + 1 .. n + 1 PROVE i - 1 \in 1 .. n /\ u[i] = t[i - 1]
    <3>1. i - 1 \in 1 .. n /\ q[i] = p[i - 1] /\ u[i] = names[q[i]]
      BY <2>1, <2>3, <1>8
    <3>2. t[i - 1] = names[p[i - 1]]
      BY <3>1, <1>2
    <3> QED
      BY <3>1, <3>2, Zenon
  <2> QED
    BY <2>4, <2>5, <2>6
<1>14. ASSUME NEW i \in 1 .. n + 1, NEW j \in 1 .. n + 1, i < j
       PROVE  Rank[u[i]] <= Rank[u[j]]
  <2> HIDE DEF u
  <2>1. CASE i \in 1 .. k - 1
    <3>1. i \in 1 .. n /\ u[i] = t[i] /\ Rank[t[i]] <= Rank[v]
      BY <2>1, <1>7, <1>13
    <3>2. CASE j \in 1 .. k - 1
      BY <3>1, <3>2, <1>4, <1>13, <1>14
    <3>3. CASE j = k
      BY <3>1, <3>3, <1>13
    <3>4. CASE j \in k + 1 .. n + 1
      <4>1. j - 1 \in 1 .. n /\ u[j] = t[j - 1] /\ i < j - 1
        BY <3>4, <2>1, <1>6, <1>13
      <4> QED
        BY <4>1, <3>1, <1>4
    <3> QED
      BY <3>2, <3>3, <3>4, <1>9
  <2>2. CASE i = k
    <3>1. j \in k + 1 .. n + 1 /\ j - 1 \in k .. n /\ j - 1 \in 1 .. n
      BY <2>2, <1>6, <1>14
    <3>2. u[j] = t[j - 1] /\ Rank[v] < Rank[t[j - 1]] /\ Rank[t[j - 1]] \in Int
      BY <3>1, <1>3, <1>6, <1>13
    <3> QED
      BY <3>2, <2>2, <1>3, <1>13
  <2>3. CASE i \in k + 1 .. n + 1
    <3>1. j \in k + 1 .. n + 1 /\ i - 1 < j - 1
      BY <2>3, <1>6, <1>14
    <3>2. /\ i - 1 \in 1 .. n /\ u[i] = t[i - 1]
          /\ j - 1 \in 1 .. n /\ u[j] = t[j - 1]
      BY <3>1, <2>3, <1>13
    <3> QED
      BY <3>1, <3>2, <1>4
  <2> QED
    BY <2>1, <2>2, <2>3, <1>9
<1>15. Sorts(u, names, n + 1, q)
  <2>1. u = [i \in 1 .. n + 1 |-> names[q[i]]]
    OBVIOUS
  <2> HIDE DEF u
  <2> QED
    BY <2>1, <1>10, <1>11, <1>12, <1>14 DEF Sorts
<1> QED
  BY <1>15

LEMMA SortExists ==
    ASSUME NEW n \in Nat, NEW names \in [1 .. n -> Names]
    PROVE  \E t, p : Sorts(t, names, n, p)
<1> DEFINE S == {m \in Nat : \A ns \in [1 .. m -> Names] : \E t, p : Sorts(t, ns, m, p)}
<1>1. 0 \in S
  <2> SUFFICES ASSUME NEW ns \in [1 .. 0 -> Names] PROVE \E t, p : Sorts(t, ns, 0, p)
    OBVIOUS
  <2> DEFINE p == [i \in 1 .. 0 |-> i]
             t == [i \in 1 .. 0 |-> ns[p[i]]]
  <2>1. \A i \in 1 .. 0 : FALSE
    OBVIOUS
  <2>2. p \in [1 .. 0 -> 1 .. 0]
    OBVIOUS
  <2> HIDE DEF p
  <2>3. Sorts(t, ns, 0, p)
    BY <2>1, <2>2 DEF Sorts
  <2> QED
    BY <2>3
<1>2. ASSUME NEW m \in Nat, m \in S PROVE m + 1 \in S
  <2> SUFFICES ASSUME NEW ns \in [1 .. m + 1 -> Names] PROVE \E t, p : Sorts(t, ns, m + 1, p)
    OBVIOUS
  <2> DEFINE fewer == [i \in 1 .. m |-> ns[i]]
  <2>1. fewer \in [1 .. m -> Names]
    <3>1. \A i \in 1 .. m : i \in 1 .. m + 1
      OBVIOUS
    <3> QED
      BY <3>1
  <2> HIDE DEF fewer
  <2>2. PICK t, p : Sorts(t, fewer, m, p)
    BY <2>1, <1>2
  <2>3. Sorts(t, [i \in 1 .. m |-> ns[i]], m, p)
    BY <2>2 DEF fewer
  <2> QED
    BY <2>3, SortedGrows
<1> HIDE DEF S
<1>3. \A m \in Nat : m \in S
  BY <1>1, <1>2, Induction
<1> QED
  BY <1>3 DEF S

-----------------------------------------------------------------------------
(* Urls of stations.                                                        *)

LEMMA TagFound ==
    ASSUME NEW S, NEW url \in Seq(S), NEW i, i = TagAt(url)
    PROVE  \/ i = 0 /\ \A j \in 2 .. Len(url) - 1 : url[j] # <<"tag">>
           \/ /\ i \in 2 .. Len(url) - 1 /\ url[i] = <<"tag">>
              /\ \A j \in 2 .. Len(url) - 1 : url[j] = <<"tag">> => i <= j
<1> DEFINE mark == <<"tag">>
           tags == {j \in 2 .. Len(url) - 1 : url[j] = mark}
<1>1. i = IF tags = {} THEN 0 ELSE CHOOSE j \in tags : \A k \in tags : j <= k
  BY DEF TagAt
<1>2. tags \in SUBSET Nat
  OBVIOUS
<1> HIDE DEF mark
<1>3. CASE tags = {}
  BY <1>1, <1>3 DEF mark
<1>4. CASE tags # {}
  <2> HIDE DEF tags
  <2>1. \E j \in tags : \A k \in tags : j <= k
    BY <1>2, <1>4, LeastNatural
  <2>2. i \in tags /\ \A k \in tags : i <= k
    BY <1>1, <1>4, <2>1
  <2> QED
    BY <2>2 DEF tags, mark
<1> QED
  BY <1>3, <1>4

\* What a url is split into makes the url again.
LEMMA UrlIsKept ==
    ASSUME NEW S, NEW url \in Seq(S), url # <<>>, NEW station, station = SetString(url)
    PROVE  /\ Url(station) = url
           /\ station = Station(station.url, station.filter)
           /\ station.url \in Seq(S) /\ station.url # <<>>
<1> DEFINE i == TagAt(url)
           mark == <<"tag">>
           n == Len(url)
<1>1. \A v, f : Station(v, f).url = v /\ Station(v, f).filter = f
  BY DEF Station
<1>2. \A v, f : Url(Station(v, f)) = v \o IF f = <<>> THEN <<>> ELSE <<mark>> \o f
  BY <1>1 DEF Url
<1>3. CASE url[1] = mark \/ i = 0
  <2>1. station = Station(url, <<>>)
    BY <1>3 DEF SetString
  <2>2. url \o <<>> = url
    BY ConcatEmptySeq
  <2>3. Url(station) = url \o <<>>
    BY <1>2, <2>1
  <2>4. station = Station(station.url, station.filter) /\ station.url = url
    BY <1>1, <2>1
  <2> QED
    BY <2>2, <2>3, <2>4, Zenon
<1>4. CASE ~(url[1] = mark \/ i = 0)
  <2> DEFINE v == SubSeq(url, 1, i - 1)
             f == SubSeq(url, i + 1, n)
             rest == SubSeq(url, (i - 1) + 1, n)
  <2>1. station = Station(v, f)
    BY <1>4 DEF SetString, FilterFrom
  <2>2. n \in Nat /\ i \in 2 .. n - 1 /\ url[i] = mark /\ mark \in S
    <3>1. i \in 2 .. n - 1 /\ url[i] = mark
      BY <1>4, TagFound
    <3>2. n \in Nat /\ url[i] \in S
      BY <3>1
    <3> QED
      BY <3>1, <3>2
  <2> HIDE DEF i, n, mark
  <2>3. /\ v \in Seq(S) /\ Len(v) = i - 1 /\ v \o rest = url
        /\ rest \in Seq(S) /\ Len(rest) = n - (i - 1)
        /\ \A j \in 1 .. n - (i - 1) : rest[j] = url[(i - 1) + j]
    <3> DEFINE k == i - 1
    <3>1. k \in 0 .. Len(url) /\ n = Len(url)
      BY <2>2 DEF n
    <3> HIDE DEF k
    <3>2. /\ SubSeq(url, 1, k) \in Seq(S) /\ Len(SubSeq(url, 1, k)) = k
          /\ SubSeq(url, k + 1, n) \in Seq(S) /\ Len(SubSeq(url, k + 1, n)) = n - k
          /\ \A j \in 1 .. n - k : SubSeq(url, k + 1, n)[j] = url[k + j]
          /\ SubSeq(url, 1, k) \o SubSeq(url, k + 1, n) = url
      BY <3>1, Cut
    <3> QED
      BY <3>2 DEF k
  <2>4. /\ f \in Seq(S) /\ Len(f) = n - i
        /\ \A j \in 1 .. n - i : f[j] = url[i + j]
    <3>1. i \in 0 .. Len(url) /\ n = Len(url)
      BY <2>2 DEF n
    <3> QED
      BY <3>1, Cut
  <2> HIDE DEF v, f, rest
  <2>5. <<mark>> \o f = rest
    <3>1. <<mark>> \in Seq(S) /\ Len(<<mark>>) = 1 /\ <<mark>>[1] = mark
      BY <2>2
    <3>2. /\ <<mark>> \o f \in Seq(S) /\ Len(<<mark>> \o f) = 1 + Len(f)
          /\ \A j \in 1 .. 1 + Len(f) :
               (<<mark>> \o f)[j] = IF j <= 1 THEN <<mark>>[j] ELSE f[j - 1]
      BY <2>4, <3>1, ConcatProperties
    <3>3. 1 + Len(f) = n - (i - 1)
      BY <2>2, <2>4
    <3>4. ASSUME NEW j \in 1 .. n - (i - 1) PROVE (<<mark>> \o f)[j] = rest[j]
      <4>1. CASE j = 1
        <5>1. (i - 1) + 1 = i
          BY <2>2
        <5>2. rest[1] = url[i]
          BY <2>3, <4>1, <5>1
        <5>3. (<<mark>> \o f)[1] = mark
          BY <3>1, <3>2, <3>3, <4>1
        <5> QED
          BY <2>2, <4>1, <5>2, <5>3
      <4>2. CASE j # 1
        <5>1. j - 1 \in 1 .. n - i /\ i + (j - 1) = (i - 1) + j /\ ~(j <= 1)
          BY <2>2, <4>2
        <5>2. f[j - 1] = url[i + (j - 1)] /\ rest[j] = url[(i - 1) + j]
          BY <2>3, <2>4, <5>1
        <5>3. (<<mark>> \o f)[j] = f[j - 1]
          BY <3>2, <3>3, <5>1
        <5> QED
          BY <5>1, <5>2, <5>3
      <4> QED
        BY <4>1, <4>2
    <3>5. Len(<<mark>> \o f) = Len(rest) /\ \A j \in 1 .. Len(rest) : rest[j] = (<<mark>> \o f)[j]
      BY <2>3, <3>2, <3>3, <3>4
    <3> QED
      BY <2>3, <3>2, <3>5, SeqEqual
  <2>6. f # <<>> /\ v # <<>>
    BY <2>2, <2>3, <2>4
  <2>7. Url(station) = v \o rest
    BY <1>2, <2>1, <2>5, <2>6
  <2> QED
    BY <1>1, <2>1, <2>3, <2>6, <2>7
<1> QED
  BY <1>3, <1>4

\* A station that has no part "tag" comes back with its filter.
LEMMA FilterIsKept ==
    ASSUME NEW S, NEW v \in Seq(S), v # <<>>, NEW f \in Seq(S), <<"tag">> \in S,
           \A i \in 1 .. Len(v) : v[i] # <<"tag">>
    PROVE  SetString(Url(Station(v, f))) = Station(v, f)
<1> DEFINE mark == <<"tag">>
           u == Url(Station(v, f))
           i == TagAt(u)
           n == Len(v)
           m == Len(f)
<1>1. u = v \o IF f = <<>> THEN <<>> ELSE <<mark>> \o f
  BY DEF Station, Url
<1>2. SetString(u) = IF u[1] = mark \/ i = 0 THEN Station(u, <<>>)
                     ELSE Station(SubSeq(u, 1, i - 1), SubSeq(u, i + 1, Len(u)))
  BY DEF SetString, FilterFrom
<1>3. n \in Nat /\ m \in Nat /\ n # 0 /\ mark \in S /\ \A j \in 1 .. n : v[j] # mark
  OBVIOUS
<1>4. CASE f = <<>>
  <2>1. u = v
    BY <1>1, <1>4, ConcatEmptySeq
  <2>2. i = 0
    <3>1. \A j \in 2 .. Len(v) - 1 : j \in 1 .. Len(v)
      OBVIOUS
    <3>2. i = TagAt(v) /\ \A j \in 2 .. Len(v) - 1 : v[j] # <<"tag">>
      BY <2>1, <3>1
    <3> HIDE DEF i
    <3> QED
      BY <3>2, TagFound
  <2> QED
    BY <1>2, <1>4, <2>1, <2>2
<1>5. CASE f # <<>>
  <2> DEFINE rest == <<mark>> \o f
  <2> HIDE DEF mark
  <2>1. /\ rest \in Seq(S) /\ Len(rest) = 1 + m
        /\ rest[1] = mark /\ \A j \in 1 .. m : rest[1 + j] = f[j]
    <3>1. <<mark>> \in Seq(S) /\ Len(<<mark>>) = 1 /\ <<mark>>[1] = mark
      BY <1>3
    <3>2. /\ rest \in Seq(S) /\ Len(rest) = Len(<<mark>>) + Len(f)
          /\ \A j \in 1 .. Len(<<mark>>) + Len(f) :
               rest[j] = IF j <= Len(<<mark>>) THEN <<mark>>[j] ELSE f[j - Len(<<mark>>)]
      BY <3>1, ConcatProperties
    <3> HIDE DEF rest
    <3>3. \A j \in 1 .. m : 1 + j \in 1 .. 1 + m /\ ~(1 + j <= 1) /\ (1 + j) - 1 = j
      BY <1>3
    <3> QED
      BY <1>3, <3>1, <3>2, <3>3
  <2>2. u = v \o rest
    BY <1>1, <1>5
  <2> HIDE DEF rest, u
  <2>3. /\ u \in Seq(S) /\ Len(u) = (n + 1) + m
        /\ \A j \in 1 .. n : u[j] = v[j]
        /\ u[n + 1] = mark
        /\ \A j \in 1 .. m : u[(n + 1) + j] = f[j]
    <3>1. /\ v \o rest \in Seq(S) /\ Len(v \o rest) = n + (1 + m)
          /\ \A j \in 1 .. n + (1 + m) :
               (v \o rest)[j] = IF j <= n THEN v[j] ELSE rest[j - n]
      <4>1. /\ v \o rest \in Seq(S) /\ Len(v \o rest) = Len(v) + Len(rest)
            /\ \A j \in 1 .. Len(v) + Len(rest) :
                 (v \o rest)[j] = IF j <= Len(v) THEN v[j] ELSE rest[j - Len(v)]
        BY <2>1, ConcatProperties
      <4> QED
        BY <2>1, <4>1, Zenon
    <3> HIDE DEF n, m
    <3>2. u \in Seq(S) /\ Len(u) = (n + 1) + m
      BY <1>3, <2>2, <3>1
    <3>3. \A j \in 1 .. n : u[j] = v[j]
      BY <1>3, <2>2, <3>1
    <3>4. u[n + 1] = mark
      <4>1. n + 1 \in 1 .. n + (1 + m) /\ ~(n + 1 <= n) /\ (n + 1) - n = 1
        BY <1>3
      <4>2. u[n + 1] = rest[(n + 1) - n]
        BY <2>2, <3>1, <4>1
      <4> QED
        BY <2>1, <4>1, <4>2
    <3>5. ASSUME NEW j \in 1 .. m PROVE u[(n + 1) + j] = f[j]
      <4>1. /\ (n + 1) + j \in 1 .. n + (1 + m) /\ ~((n + 1) + j <= n)
            /\ ((n + 1) + j) - n = 1 + j
        BY <1>3
      <4>2. u[(n + 1) + j] = rest[((n + 1) + j) - n]
        BY <2>2, <3>1, <4>1
      <4> QED
        BY <2>1, <4>1, <4>2
    <3> QED
      BY <3>2, <3>3, <3>4, <3>5
  <2>4. m # 0
    BY <1>5
  <2>5. i = n + 1
    <3>1. \/ i = 0 /\ \A j \in 2 .. Len(u) - 1 : u[j] # mark
          \/ /\ i \in 2 .. Len(u) - 1 /\ u[i] = mark
             /\ \A j \in 2 .. Len(u) - 1 : u[j] = mark => i <= j
      <4> HIDE DEF i
      <4>1. i = TagAt(u)
        BY DEF i
      <4> QED
        BY <2>3, <4>1, TagFound DEF mark
    <3> HIDE DEF i, n, m
    <3>2. n + 1 \in 2 .. Len(u) - 1
      BY <1>3, <2>3, <2>4
    <3>3. i \in 2 .. Len(u) - 1 /\ u[i] = mark /\ i <= n + 1
      BY <2>3, <3>1, <3>2
    <3>4. ~(i \in 1 .. n)
      BY <1>3, <2>3, <3>3
    <3> QED
      BY <1>3, <3>3, <3>4
  <2>6. u[1] # mark /\ i # 0
    <3>1. 1 \in 1 .. n
      BY <1>3
    <3>2. u[1] = v[1] /\ v[1] # mark
      BY <1>3, <2>3, <3>1
    <3> QED
      BY <1>3, <2>5, <3>2
  <2> HIDE DEF i, n, m
  <2>7. SubSeq(u, 1, n) = v
    <3>1. n \in 0 .. Len(u)
      BY <1>3, <2>3
    <3>2. /\ SubSeq(u, 1, n) \in Seq(S) /\ Len(SubSeq(u, 1, n)) = n
          /\ \A j \in 1 .. n : SubSeq(u, 1, n)[j] = u[j]
      BY <2>3, <3>1, Cut
    <3>3. Len(v) = n
      BY DEF n
    <3> QED
      BY <2>3, <3>2, <3>3, SeqEqual
  <2>8. SubSeq(u, (n + 1) + 1, Len(u)) = f
    <3> DEFINE k == n + 1
               w == SubSeq(u, k + 1, Len(u))
    <3>1. k \in 0 .. Len(u) /\ Len(u) - k = m
      BY <1>3, <2>3
    <3>2. \A j \in 1 .. m : u[k + j] = f[j]
      BY <2>3
    <3> HIDE DEF k
    <3>3. /\ w \in Seq(S) /\ Len(w) = Len(u) - k
          /\ \A j \in 1 .. Len(u) - k : w[j] = u[k + j]
      BY <2>3, <3>1, Cut
    <3>4. Len(f) = m
      BY DEF m
    <3> HIDE DEF w
    <3>5. Len(w) = Len(f) /\ \A j \in 1 .. Len(w) : w[j] = f[j]
      BY <3>1, <3>2, <3>3, <3>4
    <3>6. w = f
      BY <3>3, <3>5, SeqEqual
    <3> QED
      BY <3>6 DEF w, k
  <2>9. (n + 1) - 1 = n
    BY <1>3
  <2>10. SetString(u) = Station(SubSeq(u, 1, i - 1), SubSeq(u, i + 1, Len(u)))
    BY <1>2, <2>6
  <2> QED
    BY <2>5, <2>7, <2>8, <2>9, <2>10 DEF u
<1> QED
  BY <1>4, <1>5

-----------------------------------------------------------------------------
(* Stations.                                                                *)

LEMMA ReorderedSorts ==
    ASSUME NEW n \in Nat, NEW names \in [1 .. n -> Names], NEW t
    PROVE  /\ t \in Reordered(names) /\ InOrder(t) => \E p : Sorts(t, names, n, p)
           /\ (\E p : Sorts(t, names, n, p)) => t \in Reordered(names) /\ InOrder(t)
<1>1. DOMAIN names = 1 .. n
  OBVIOUS
<1>2. \A p : /\ p \in [1 .. n -> 1 .. n]
             /\ \A i, j \in 1 .. n : p[i] = p[j] => i = j
             /\ \A i \in 1 .. n : \E l \in 1 .. n : p[l] = i
             <=> p \in Bijection(1 .. n, 1 .. n)
  BY DEF Bijection, Injection, Surjection, IsInjective
<1>3. ASSUME t \in Reordered(names), InOrder(t) PROVE \E p : Sorts(t, names, n, p)
  <2>1. PICK p \in Bijection(1 .. n, 1 .. n) : t = [i \in 1 .. n |-> names[p[i]]]
    BY <1>1, <1>3 DEF Reordered
  <2>2. DOMAIN t = 1 .. n
    BY <2>1
  <2>3. \A i, j \in 1 .. n : i < j => Rank[t[i]] <= Rank[t[j]]
    BY <1>3, <2>2 DEF InOrder
  <2>4. Sorts(t, names, n, p)
    BY <1>2, <2>1, <2>3 DEF Sorts
  <2> QED
    BY <2>4
<1>4. ASSUME NEW p, Sorts(t, names, n, p) PROVE t \in Reordered(names) /\ InOrder(t)
  <2>1. t = [i \in 1 .. n |-> names[p[i]]] /\ p \in Bijection(1 .. n, 1 .. n)
    BY <1>2, <1>4 DEF Sorts
  <2>2. DOMAIN t = 1 .. n /\ \A i, j \in 1 .. n : i < j => Rank[t[i]] <= Rank[t[j]]
    BY <1>4, <2>1 DEF Sorts
  <2> QED
    BY <1>1, <2>1, <2>2 DEF Reordered, InOrder
<1> QED
  BY <1>3, <1>4

LEMMA ListedSorts ==
    ASSUME NEW n \in Nat, NEW names \in [1 .. n -> Names]
    PROVE  \E p : Sorts(Listed(names), names, n, p)
<1>1. PICK t, p : Sorts(t, names, n, p)
  BY SortExists
<1>2. t \in Reordered(names) /\ InOrder(t)
  BY <1>1, ReorderedSorts
<1>3. Listed(names) \in Reordered(names) /\ InOrder(Listed(names))
  BY <1>2 DEF Listed
<1> QED
  BY <1>3, ReorderedSorts

LEMMA SameListed ==
    ASSUME NEW n \in Nat, NEW names \in [1 .. n -> Names], NEW others \in Reordered(names)
    PROVE  others \in [1 .. n -> Names] /\ Listed(others) = Listed(names)
<1>1. DOMAIN names = 1 .. n
  OBVIOUS
<1>2. PICK r \in Bijection(1 .. n, 1 .. n) : others = [i \in 1 .. n |-> names[r[i]]]
  BY <1>1 DEF Reordered
<1>3. /\ r \in [1 .. n -> 1 .. n]
      /\ \A i, j \in 1 .. n : r[i] = r[j] => i = j
      /\ \A i \in 1 .. n : \E l \in 1 .. n : r[l] = i
  BY DEF Bijection, Injection, Surjection, IsInjective
<1>4. \A i \in 1 .. n : others[i] = names[r[i]] /\ others[i] \in Names
  <2>1. ASSUME NEW i \in 1 .. n PROVE names[r[i]] \in Names
    <3>1. r[i] \in 1 .. n
      BY <1>3
    <3> QED
      BY <3>1
  <2> QED
    BY <1>2, <2>1
<1>5. others \in [1 .. n -> Names]
  <2>1. others = [i \in 1 .. n |-> others[i]]
    BY <1>2
  <2> QED
    BY <1>4, <2>1
<1>6. PICK p : Sorts(Listed(others), others, n, p)
  BY <1>5, ListedSorts
<1> DEFINE t == Listed(others)
           q == [i \in 1 .. n |-> r[p[i]]]
<1>7. /\ p \in [1 .. n -> 1 .. n]
      /\ \A i, j \in 1 .. n : p[i] = p[j] => i = j
      /\ \A i \in 1 .. n : \E l \in 1 .. n : p[l] = i
      /\ t = [i \in 1 .. n |-> others[p[i]]]
      /\ \A i, j \in 1 .. n : i < j => Rank[t[i]] <= Rank[t[j]]
  BY <1>6 DEF Sorts
<1> HIDE DEF t
<1>8. \A i \in 1 .. n : p[i] \in 1 .. n /\ q[i] = r[p[i]] /\ r[p[i]] \in 1 .. n
  BY <1>3, <1>7
<1>9. q \in [1 .. n -> 1 .. n]
  BY <1>8
<1> HIDE DEF q
<1>10. \A i, j \in 1 .. n : q[i] = q[j] => i = j
  <2> SUFFICES ASSUME NEW i \in 1 .. n, NEW j \in 1 .. n, q[i] = q[j] PROVE i = j
    OBVIOUS
  <2>1. p[i] = p[j]
    <3>1. /\ p[i] \in 1 .. n /\ p[j] \in 1 .. n /\ q[i] = r[p[i]] /\ q[j] = r[p[j]]
      BY <1>8
    <3>2. r[p[i]] = r[p[j]]
      BY <3>1
    <3> QED
      BY <1>3, <3>1, <3>2
  <2> QED
    BY <1>7, <2>1
<1>11. \A y \in 1 .. n : \E l \in 1 .. n : q[l] = y
  <2> TAKE y \in 1 .. n
  <2>1. PICK m \in 1 .. n : r[m] = y
    BY <1>3
  <2>2. PICK l \in 1 .. n : p[l] = m
    BY <1>7
  <2> QED
    BY <1>8, <2>1, <2>2
<1>12. t = [i \in 1 .. n |-> names[q[i]]]
  <2>1. \A i \in 1 .. n : others[p[i]] = names[q[i]]
    BY <1>4, <1>8
  <2> QED
    BY <1>7, <2>1
<1>13. Sorts(t, names, n, q)
  BY <1>7, <1>9, <1>10, <1>11, <1>12 DEF Sorts
<1>14. PICK o : Sorts(Listed(names), names, n, o)
  BY ListedSorts
<1>15. t = Listed(names)
  BY <1>13, <1>14, SortedIsUnique
<1> QED
  BY <1>5, <1>15 DEF t

\* A station of one or more names, filtered by any tags.
LEMMA StationIsItsUrl ==
    ASSUME NEW n \in Nat \ {0}, NEW names \in [1 .. n -> Names],
           NEW F, NEW filter \in Seq(F), NEW url \in Factories(names)
    PROVE  LET station  == SetString(url)
               filtered == SetTagFilter(station, filter)
           IN  /\ Url(station) = url
               /\ <<"tag">> \notin ToSet(filtered.url) => SetString(Url(filtered)) = filtered
<1>1. PICK a, b, c : url = <<a, b>> \/ url = <<a, b, c>>
  BY Zenon DEF Factories, LibraryStr, TagStr, SimilarStr, UserStr
<1> DEFINE S == {a, b, c, <<"tag">>} \cup F
           station == SetString(url)
           filtered == SetTagFilter(station, filter)
           v == station.url
<1>2. /\ a \in S /\ b \in S /\ c \in S /\ <<"tag">> \in S
      /\ \A x \in F : x \in S
  OBVIOUS
<1> HIDE DEF S
<1>3. url \in Seq(S) /\ url # <<>>
  <2> HIDE DEF station
  <2>1. <<a, b>> \in Seq(S) /\ <<a, b>> # <<>>
    BY <1>2
  <2>2. <<a, b, c>> \in Seq(S) /\ <<a, b, c>> # <<>>
    BY <1>2
  <2> QED
    BY <1>1, <2>1, <2>2, Zenon
<1>4. filter \in Seq(S)
  BY <1>2
<1> HIDE DEF station
<1>5. /\ Url(station) = url /\ station = Station(v, station.filter)
      /\ v \in Seq(S) /\ v # <<>>
  BY <1>3, UrlIsKept DEF station
<1>6. filtered = Station(v, filter) /\ filtered.url = v
  <2> HIDE DEF v
  <2> QED
    BY <1>5 DEF Station, SetTagFilter
<1> HIDE DEF filtered, v
<1>7. ASSUME <<"tag">> \notin ToSet(filtered.url) PROVE SetString(Url(filtered)) = filtered
  <2>1. \A i \in 1 .. Len(v) : v[i] # <<"tag">>
    <3>1. DOMAIN v = 1 .. Len(v)
      BY <1>5
    <3> QED
      BY <1>6, <1>7, <3>1 DEF ToSet
  <2>2. SetString(Url(Station(v, filter))) = Station(v, filter)
    BY <1>2, <1>4, <1>5, <2>1, FilterIsKept
  <2> QED
    BY <1>6, <2>2
<1> QED
  BY <1>5, <1>7 DEF filtered, station

LEMMA StationIsItsNames ==
    ASSUME NEW n \in Nat \ {0}, NEW names \in [1 .. n -> Names], NEW others \in Reordered(names)
    PROVE  /\ LibraryStr(others) = LibraryStr(names)
           /\ TagStr(others) = TagStr(names)
           /\ SimilarStr(others) = SimilarStr(names)
<1>1. others \in [1 .. n -> Names] /\ Listed(others) = Listed(names)
  BY SameListed
<1>2. Len(others) = n /\ Len(names) = n
  BY <1>1
<1> QED
  BY <1>1, <1>2, Zenon DEF LibraryStr, TagStr, SimilarStr

LEMMA StationIsTyped == Spec => [](HasPart(s) /\ (s.part = "station" => s \in Stations))
<1> DEFINE StationState == s.part = "station" => s \in Stations
<1>1. Init => HasPart(s) /\ StationState
  <2> SUFFICES ASSUME Init, s.part = "station" PROVE s \in Stations
    BY InitHasPart
  <2>1. s \notin Tracks
    BY DEF Tracks
  <2> QED
    BY <2>1 DEF Init, Hash, Average, FilterOf, Image, Spectrum, Reader
<1>2. HasPart(s) /\ StationState /\ [Next]_s => (HasPart(s) /\ StationState)'
  <2> SUFFICES ASSUME HasPart(s), StationState, [Next]_s, s'.part = "station"
               PROVE  s' \in Stations
    BY NextKeepsPart DEF Stations
  <2>1. s.part = "station" /\ s \in Stations
    BY NextKeepsPart
  <2>2. s' = s
    BY <2>1 DEF Next, HashUpdate, HashFinal, AverageAdd, AverageClear, AveragePurge,
                MbidOpen, MbidFrame, MbidNext, Restart
  <2> QED
    BY <2>1, <2>2
<1> QED
  BY <1>1, <1>2, PTL DEF Spec

(* A station is its url, whoever wrote the url, with its filter; and the    *)
(* same names in any order are the same station.                            *)
THEOREM StationsStay == Spec => []StationsComeBack
<1>1. (s.part = "station" => s \in Stations) => StationsComeBack
  <2> SUFFICES ASSUME s.part = "station" => s \in Stations PROVE StationsComeBack
    OBVIOUS
  <2>1. ASSUME s.part = "station"
        PROVE  /\ \E n \in Nat \ {0} : s.names \in [1 .. n -> Names]
               /\ s.filter \in Seq({<<"rock">>, <<"pop">>})
    <3> DEFINE F == {<<"rock">>, <<"pop">>}
    <3>1. PICK names \in NameLists : \E filter \in TagFilters :
            s = [part |-> "station", names |-> names, filter |-> filter]
      BY <2>1 DEF Stations
    <3>2. PICK filter \in TagFilters :
             s = [part |-> "station", names |-> names, filter |-> filter]
      BY <3>1
    <3>3. TagFilters \subseteq Seq(F)
      <4> DEFINE x == <<"rock">>
                 y == <<"pop">>
      <4>1. x \in F /\ y \in F
        OBVIOUS
      <4> HIDE DEF x, y, F
      <4>2. <<>> \in Seq(F) /\ <<x>> \in Seq(F) /\ <<x, y>> \in Seq(F)
        BY <4>1
      <4> QED
        BY <4>2, Zenon DEF x, y, TagFilters
    <3>4. \E n \in Nat \ {0} : names \in [1 .. n -> Names]
      <4>1. PICK n \in 1 .. MaxNames : names \in [1 .. n -> Names]
        BY DEF NameLists, Names
      <4>2. n \in Nat \ {0}
        BY StationAssumption
      <4> QED
        BY <4>1, <4>2
    <3> HIDE DEF F
    <3>5. s.names = names /\ s.filter = filter
      BY <3>2
    <3>6. s.filter \in Seq(F)
      BY <3>3, <3>5
    <3> QED
      BY <3>4, <3>5, <3>6 DEF F
  <2>2. StationComesBack
    <3> SUFFICES ASSUME s.part = "station", NEW url \in Factories(s.names)
                 PROVE  LET station  == SetString(url)
                            filtered == SetTagFilter(station, s.filter)
                        IN  /\ Url(station) = url
                            /\ <<"tag">> \notin ToSet(filtered.url)
                                 => SetString(Url(filtered)) = filtered
      BY Zenon DEF StationComesBack
    <3>1. PICK n \in Nat \ {0} : s.names \in [1 .. n -> Names]
      BY <2>1
    <3>2. s.filter \in Seq({<<"rock">>, <<"pop">>})
      BY <2>1
    <3> QED
      BY <3>1, <3>2, StationIsItsUrl, Zenon
  <2>3. SameStation
    <3> SUFFICES ASSUME s.part = "station", NEW names \in Reordered(s.names)
                 PROVE  /\ SetString(LibraryStr(names)) = SetString(LibraryStr(s.names))
                        /\ SetString(TagStr(names)) = SetString(TagStr(s.names))
                        /\ SetString(SimilarStr(names)) = SetString(SimilarStr(s.names))
      BY Zenon DEF SameStation
    <3>1. PICK n \in Nat \ {0} : s.names \in [1 .. n -> Names]
      BY <2>1
    <3> QED
      BY <3>1, StationIsItsNames, Zenon
  <2> QED
    BY <2>2, <2>3 DEF StationsComeBack
<1> QED
  BY <1>1, StationIsTyped, PTL

-------------------------------------------------------------------------------
(* Files with a tag.                                                            *)

TagFiles == [id3 : BOOLEAN, version : 2 .. 4, extended : BOOLEAN,
             frames : Seq(TagFrames), padding : Nat, cut : Nat]

\* The frames stand one behind the other.
LEMMA FrameStarts ==
    ASSUME NEW f \in TagFiles
    PROVE  LET n == Len(f.frames)
           IN  /\ n \in Nat /\ \A k \in 1 .. n : f.frames[k].size \in Nat
               /\ FrameStart(f, 1) = Header
               /\ \A k \in 1 .. n :
                    FrameStart(f, k + 1) = FrameStart(f, k) + Header + f.frames[k].size
               /\ \A k \in 1 .. n + 1 : FrameStart(f, k) \in Nat
<1> DEFINE n == Len(f.frames)
           Size(k) == f.frames[k].size
           m == n + 1
           Body(g) == [i \in 1 .. m |-> IF i = 1 THEN Header
                                        ELSE g[i - 1] + Header + f.frames[i - 1].size]
           step == [i \in 1 .. n |-> [x \in Nat |-> x + Header + Size(i)]]
           to == CHOOSE g : g = Body(g)
<1>1. n \in Nat /\ \A k \in 1 .. n : Size(k) \in Nat
  <2>1. f.frames \in Seq(TagFrames)
    BY DEF TagFiles
  <2>2. n \in Nat /\ \A k \in 1 .. n : f.frames[k] \in TagFrames
    BY <2>1
  <2> QED
    BY <2>2, TagAssumption
<1>2. \A k : FrameStart(f, k) = to[k]
  BY DEF FrameStart
<1>3. Header \in Nat
  BY DEF Header
<1> HIDE DEF n
<1>4. step \in [1 .. n -> [Nat -> Nat]]
  <2>1. \A i \in 1 .. n : \A x \in Nat : x + Header + Size(i) \in Nat
    BY <1>1, <1>3
  <2> QED
    BY <2>1
<1>5. PICK h : IsLoop(h, Nat, Header, n, step)
  BY <1>1, <1>3, <1>4, LoopRuns
<1>6. /\ h \in [0 .. n -> Nat] /\ h[0] = Header
      /\ \A i \in 1 .. n : h[i] = h[i - 1] + Header + Size(i)
  <2>1. \A i \in 1 .. n : i - 1 \in 0 .. n
    BY <1>1
  <2>2. h \in [0 .. n -> Nat] /\ h[0] = Header /\ \A i \in 1 .. n : h[i] = step[i][h[i - 1]]
    BY <1>5 DEF IsLoop
  <2> QED
    BY <2>1, <2>2
<1> DEFINE g == [i \in 1 .. m |-> h[i - 1]]
<1>7. g = Body(g)
  <2>1. ASSUME NEW i \in 1 .. m
        PROVE  h[i - 1] = IF i = 1 THEN Header ELSE g[i - 1] + Header + f.frames[i - 1].size
    <3>1. CASE i = 1
      BY <1>6, <3>1
    <3>2. CASE i # 1
      <4>1. i - 1 \in 1 .. n /\ i - 1 \in 1 .. m
        BY <1>1, <3>2
      <4>2. g[i - 1] = h[(i - 1) - 1] /\ h[i - 1] = h[(i - 1) - 1] + Header + Size(i - 1)
        BY <1>6, <4>1
      <4> QED
        BY <3>2, <4>2
    <3> QED
      BY <3>1, <3>2
  <2> QED
    BY <2>1
<1>8. to = Body(to)
  <2> HIDE DEF Body, g
  <2> QED
    BY <1>7, Zenon
<1> HIDE DEF to, step
<1>9. \A i \in 1 .. m :
        to[i] = IF i = 1 THEN Header ELSE to[i - 1] + Header + f.frames[i - 1].size
  BY <1>8
<1>10. to[1] = Header /\ \A k \in 1 .. n : to[k + 1] = to[k] + Header + Size(k)
  <2>1. 1 \in 1 .. m
    BY <1>1
  <2>2. ASSUME NEW k \in 1 .. n PROVE to[k + 1] = to[k] + Header + Size(k)
    <3>1. k + 1 \in 1 .. m /\ k + 1 # 1 /\ (k + 1) - 1 = k
      BY <1>1
    <3> HIDE DEF m
    <3>2. to[k + 1] = to[(k + 1) - 1] + Header + f.frames[(k + 1) - 1].size
      BY <1>9, <3>1
    <3> QED
      BY <3>1, <3>2
  <2> QED
    BY <1>9, <2>1, <2>2
<1>11. \A k \in 1 .. m : to[k] \in Nat
  <2> DEFINE T == {k \in Nat : to[k + 1] \in Nat}
  <2>1. 0 \in T
    BY <1>3, <1>10
  <2>2. \A i \in 1 .. n : i - 1 \in T => i \in T
    BY <1>1, <1>3, <1>10
  <2> HIDE DEF T
  <2>3. \A i \in 0 .. n : i \in T
    BY <1>1, <2>1, <2>2, UpTo
  <2>4. ASSUME NEW k \in 1 .. m PROVE to[k] \in Nat
    <3>1. k - 1 \in 0 .. n /\ (k - 1) + 1 = k
      BY <1>1
    <3>2. k - 1 \in T
      BY <2>3, <3>1
    <3> QED
      BY <3>1, <3>2 DEF T
  <2> QED
    BY <2>4
<1> QED
  BY <1>1, <1>2, <1>10, <1>11 DEF n

\* Where the frames end, and where one of them can stand.
EndOf(f) == FrameStart(f, Len(f.frames) + 1)

LEMMA FramesApart ==
    ASSUME NEW f \in TagFiles, NEW k \in 1 .. Len(f.frames) + 1, NEW j \in 1 .. k, j # k
    PROVE  FrameStart(f, j) + Header + f.frames[j].size <= FrameStart(f, k)
<1> DEFINE n == Len(f.frames)
           At(i) == FrameStart(f, i)
           Size(i) == f.frames[i].size
<1>1. /\ n \in Nat /\ Header = 10 /\ \A i \in 1 .. n : Size(i) \in Nat
      /\ \A i \in 1 .. n : At(i + 1) = At(i) + Header + Size(i)
      /\ \A i \in 1 .. n + 1 : At(i) \in Nat
  BY FrameStarts DEF Header
<1> HIDE DEF n, At, Size
<1>2. j \in 1 .. n /\ k \in 1 .. n + 1 /\ j < k
  BY DEF n
<1> DEFINE T == {d \in Nat : (j + 1) + d <= n + 1 => At(j + 1) <= At((j + 1) + d)}
<1>3. 0 \in T
  BY <1>1, <1>2
<1>4. ASSUME NEW d \in Nat, d \in T PROVE d + 1 \in T
  <2> SUFFICES ASSUME (j + 1) + (d + 1) <= n + 1 PROVE At(j + 1) <= At((j + 1) + (d + 1))
    OBVIOUS
  <2> DEFINE i == (j + 1) + d
  <2>1. i \in 1 .. n /\ i + 1 = (j + 1) + (d + 1) /\ j + 1 \in 1 .. n + 1 /\ i \in 1 .. n + 1
        /\ i + 1 \in 1 .. n + 1
    BY <1>1, <1>2
  <2>2. At(j + 1) <= At(i)
    BY <1>4, <2>1
  <2> HIDE DEF i
  <2>3. At(i + 1) = At(i) + Header + Size(i) /\ Size(i) \in Nat
    BY <1>1, <2>1
  <2>4. At(j + 1) \in Nat /\ At(i) \in Nat /\ At(i + 1) \in Nat
    BY <1>1, <2>1
  <2>5. At(j + 1) <= At(i + 1)
    BY <1>1, <2>2, <2>3, <2>4
  <2> QED
    BY <2>1, <2>5
<1> HIDE DEF T
<1>5. \A d \in Nat : d \in T
  BY <1>3, <1>4, Induction
<1>6. PICK d \in Nat : k = (j + 1) + d
  <2>1. k - (j + 1) \in Nat /\ k = (j + 1) + (k - (j + 1))
    BY <1>2
  <2> QED
    BY <2>1
<1>7. At(j + 1) <= At(k)
  <2>1. (j + 1) + d <= n + 1 => At(j + 1) <= At((j + 1) + d)
    BY <1>5 DEF T
  <2>2. (j + 1) + d <= n + 1
    BY <1>2, <1>6
  <2> QED
    BY <1>6, <2>1, <2>2
<1>8. At(j + 1) = At(j) + Header + Size(j)
  BY <1>1, <1>2
<1> QED
  BY <1>7, <1>8 DEF At, Size

\* The numbers of a file.
LEMMA FileNumbers ==
    ASSUME NEW f \in TagFiles
    PROVE  /\ EndOf(f) \in Nat /\ EndOf(f) >= Header /\ f.padding \in Nat /\ f.cut \in Nat
           /\ TagSize(f) = (EndOf(f) + f.padding) - Header
           /\ Whole(f) = (EndOf(f) + f.padding) + Audio
           /\ Length(f) \in Nat /\ Length(f) <= Whole(f)
           /\ f.cut >= Whole(f) => Length(f) = Whole(f)
           /\ f.cut < Whole(f) \/ f.cut >= Whole(f)
<1>1. f.padding \in Nat /\ f.cut \in Nat
  BY DEF TagFiles
<1> DEFINE n == Len(f.frames)
<1>2. n \in Nat /\ FrameStart(f, 1) = Header /\ EndOf(f) \in Nat
  <2>1. n + 1 \in 1 .. n + 1
    BY FrameStarts
  <2> QED
    BY <2>1, FrameStarts DEF EndOf
<1>3. EndOf(f) >= Header
  <2>1. CASE n = 0
    BY <1>2, <2>1 DEF EndOf, Header
  <2>2. CASE n # 0
    <3>1. 1 \in 1 .. n + 1 /\ n + 1 # 1 /\ 1 \in 1 .. n
      BY <1>2, <2>2
    <3>2. n + 1 \in 1 .. Len(f.frames) + 1 /\ 1 \in 1 .. n + 1
      BY <1>2, <3>1
    <3>3. FrameStart(f, 1) + Header + f.frames[1].size <= FrameStart(f, n + 1)
      BY <3>1, <3>2, FramesApart
    <3>4. f.frames[1].size \in Nat
      BY <3>1, FrameStarts
    <3> QED
      BY <1>2, <3>3, <3>4 DEF EndOf, Header
  <2> QED
    BY <2>1, <2>2
<1>4. TagSize(f) = (EndOf(f) + f.padding) - Header
  BY <1>1, <1>2 DEF TagSize, EndOf, Header
<1>5. Whole(f) = (EndOf(f) + f.padding) + Audio
  BY <1>1, <1>2, <1>4, AudioAssumption DEF Whole, Header
<1> QED
  BY <1>1, <1>2, <1>3, <1>4, <1>5, AudioAssumption DEF Length

-------------------------------------------------------------------------------
(* What is read of a file.                                                      *)

\* A read goes no farther than its bytes, and all the way in a whole file.
LEMMA Reads ==
    ASSUME NEW f \in TagFiles, NEW pos \in Nat, NEW bytes \in Nat
    PROVE  /\ Short(f, pos, bytes) \in BOOLEAN
           /\ Reached(f, pos, bytes) \in Nat
           /\ Reached(f, pos, bytes) <= pos + bytes
           /\ ~Short(f, pos, bytes) => Reached(f, pos, bytes) = pos + bytes
           /\ f.cut >= Whole(f) /\ Short(f, pos, bytes)
                => pos + bytes > (EndOf(f) + f.padding) + Audio
           /\ f.cut >= Whole(f) /\ ~Short(f, pos, bytes)
                => pos + bytes <= (EndOf(f) + f.padding) + Audio
<1>1. /\ Length(f) \in Nat
      /\ f.cut >= Whole(f) => Length(f) = (EndOf(f) + f.padding) + Audio
  BY FileNumbers
<1>2. Short(f, pos, bytes) <=> pos + bytes > Length(f)
  BY DEF Short
<1>3. Reached(f, pos, bytes) = IF pos > Length(f) THEN pos
                               ELSE IF pos + bytes > Length(f) THEN Length(f) ELSE pos + bytes
  BY DEF Reached, Short
<1>4. Short(f, pos, bytes) \in BOOLEAN
  BY DEF Short
<1> QED
  BY <1>1, <1>2, <1>3, <1>4

LEMMA SoughtIsNat ==
    ASSUME NEW pos \in Nat, NEW bytes \in Int
    PROVE  /\ Sought(pos, bytes) \in Nat
           /\ bytes \in Nat => Sought(pos, bytes) = pos + bytes
  BY DEF Sought

\* At most one frame starts at a place, and none in the padding.
LEMMA FramesAtStart ==
    ASSUME NEW f \in TagFiles, NEW k \in 1 .. Len(f.frames)
    PROVE  FramesAt(f, FrameStart(f, k)) = {f.frames[k]}
<1>1. DOMAIN f.frames = 1 .. Len(f.frames) /\ Len(f.frames) \in Nat
  BY DEF TagFiles
<1>2. ASSUME NEW i \in 1 .. Len(f.frames), FrameStart(f, i) = FrameStart(f, k) PROVE i = k
  <2>1. /\ i \in 1 .. Len(f.frames) + 1 /\ k \in 1 .. Len(f.frames) + 1
        /\ i < k \/ i = k \/ k < i
    BY <1>1
  <2>2. /\ FrameStart(f, i) \in Nat /\ FrameStart(f, k) \in Nat
        /\ f.frames[i].size \in Nat /\ f.frames[k].size \in Nat
    BY <2>1, FrameStarts
  <2>3. i < k => FrameStart(f, i) + Header + f.frames[i].size <= FrameStart(f, k)
    <3>1. i < k => i \in 1 .. k
      OBVIOUS
    <3> QED
      BY <2>1, <3>1, FramesApart
  <2>4. k < i => FrameStart(f, k) + Header + f.frames[k].size <= FrameStart(f, i)
    <3>1. k < i => k \in 1 .. i
      OBVIOUS
    <3> QED
      BY <2>1, <3>1, FramesApart
  <2> QED
    BY <1>2, <2>1, <2>2, <2>3, <2>4 DEF Header
<1> QED
  BY <1>1, <1>2 DEF FramesAt

LEMMA FrameBeforeEnd ==
    ASSUME NEW f \in TagFiles, NEW k \in 1 .. Len(f.frames)
    PROVE  /\ FrameStart(f, k) \in Nat /\ f.frames[k].size \in Nat
           /\ (FrameStart(f, k) + 10) + f.frames[k].size <= EndOf(f)
           /\ FrameStart(f, k + 1) = (FrameStart(f, k) + 10) + f.frames[k].size
<1> DEFINE n == Len(f.frames)
<1>1. n \in Nat /\ n + 1 \in 1 .. Len(f.frames) + 1 /\ k \in 1 .. n + 1 /\ k # n + 1
  BY FrameStarts
<1>2. FrameStart(f, k) \in Nat /\ f.frames[k].size \in Nat
      /\ FrameStart(f, k + 1) = FrameStart(f, k) + Header + f.frames[k].size
  BY <1>1, FrameStarts
<1>3. FrameStart(f, k) + Header + f.frames[k].size <= FrameStart(f, n + 1)
  BY <1>1, FramesApart
<1> QED
  BY <1>2, <1>3 DEF EndOf, Header

LEMMA NoFrameAtEnd ==
    ASSUME NEW f \in TagFiles
    PROVE  FramesAt(f, EndOf(f)) = {}
<1>1. DOMAIN f.frames = 1 .. Len(f.frames)
  BY DEF TagFiles
<1>2. ASSUME NEW i \in 1 .. Len(f.frames) PROVE FrameStart(f, i) # EndOf(f)
  BY FrameBeforeEnd, FileNumbers
<1> QED
  BY <1>1, <1>2 DEF FramesAt

\* A frame that is found at a place ends within the tag.
LEMMA FrameFound ==
    ASSUME NEW f \in TagFiles, NEW pos \in Nat, FramesAt(f, pos) # {}
    PROVE  \E k \in 1 .. Len(f.frames) :
             pos = FrameStart(f, k) /\ FrameAt(f, pos) = f.frames[k] /\ pos + 10 <= EndOf(f)
<1>1. DOMAIN f.frames = 1 .. Len(f.frames)
  BY DEF TagFiles
<1>2. PICK k \in 1 .. Len(f.frames) : FrameStart(f, k) = pos
  BY <1>1 DEF FramesAt
<1>3. FramesAt(f, pos) = {f.frames[k]}
  BY <1>2, FramesAtStart
<1>4. FrameAt(f, pos) = f.frames[k]
  BY <1>3 DEF FrameAt
<1>5. pos + 10 <= EndOf(f)
  <2> DEFINE size == f.frames[k].size
  <2>1. size \in Nat /\ (pos + 10) + size <= EndOf(f) /\ EndOf(f) \in Nat
    BY <1>2, FrameBeforeEnd, FileNumbers
  <2> HIDE DEF size
  <2> QED
    BY <2>1
<1> QED
  BY <1>2, <1>4, <1>5

LEMMA SizesAreInts ==
    ASSUME NEW f \in TagFiles, NEW pos \in Nat
    PROVE  SizesAt(f, pos) \subseteq Int
<1>1. Garbage \subseteq Int
  BY AudioAssumption
<1>2. \A frame \in FramesAt(f, pos) : frame.size \in Int
  <2>1. DOMAIN f.frames = 1 .. Len(f.frames)
    BY DEF TagFiles
  <2>2. \A k \in 1 .. Len(f.frames) : f.frames[k].size \in Nat
    BY FrameStarts
  <2> QED
    BY <2>1, <2>2 DEF FramesAt
<1> QED
  BY <1>1, <1>2 DEF SizesAt, ToInteger

-------------------------------------------------------------------------------
(* The reader of files.                                                         *)

Rd(phase, ok, file, name, pos, tag, mbid) ==
    [phase |-> phase, s |-> ok, file |-> file, name |-> name, pos |-> pos, tag |-> tag,
     mbid |-> mbid]

LEMMA RdFields ==
    ASSUME NEW a, NEW b, NEW c, NEW d, NEW e, NEW g, NEW h
    PROVE  LET r == Rd(a, b, c, d, e, g, h)
           IN  /\ r.phase = a /\ r.s = b /\ r.file = c /\ r.name = d
               /\ r.pos = e /\ r.tag = g /\ r.mbid = h
  BY DEF Rd

\* What the steps assign.
LEMMA RdStarted ==
    ASSUME NEW a, NEW b, NEW c, NEW d, NEW e, NEW g, NEW h, NEW f
    PROVE  Started(Rd(a, b, c, d, e, g, h), f) = Rd("frames", b, f, Unwritten, e, g, NoMbid)
<1> DEFINE r == Rd(a, b, c, d, e, g, h)
<1>1. Started(r, f)
        = [[[[r EXCEPT !.file = f] EXCEPT !.phase = "frames"] EXCEPT !.name = Unwritten]
             EXCEPT !.mbid = NoMbid]
  BY Zenon DEF Started
<1>2. [Rd(a, b, c, d, e, g, h) EXCEPT !.file = f] = Rd(a, b, f, d, e, g, h)
  BY DEF Rd
<1>3. [Rd(a, b, f, d, e, g, h) EXCEPT !.phase = "frames"] = Rd("frames", b, f, d, e, g, h)
  BY DEF Rd
<1>4. [Rd("frames", b, f, d, e, g, h) EXCEPT !.name = Unwritten]
        = Rd("frames", b, f, Unwritten, e, g, h)
  BY DEF Rd
<1>5. [Rd("frames", b, f, Unwritten, e, g, h) EXCEPT !.mbid = NoMbid]
        = Rd("frames", b, f, Unwritten, e, g, NoMbid)
  BY DEF Rd
<1> QED
  BY <1>1, <1>2, <1>3, <1>4, <1>5, Zenon

LEMMA RdNotFound ==
    ASSUME NEW a, NEW b, NEW c, NEW d, NEW e, NEW g, NEW h, NEW ok
    PROVE  NotFound(Rd(a, b, c, d, e, g, h), ok) = Rd("answer", ok, c, d, e, g, h)
<1> DEFINE r == Rd(a, b, c, d, e, g, h)
<1>1. NotFound(r, ok)
        = [[r EXCEPT !.phase = "answer"] EXCEPT !.s = ok]
  BY Zenon DEF NotFound
<1>2. [Rd(a, b, c, d, e, g, h) EXCEPT !.phase = "answer"] = Rd("answer", b, c, d, e, g, h)
  BY DEF Rd
<1>3. [Rd("answer", b, c, d, e, g, h) EXCEPT !.s = ok] = Rd("answer", ok, c, d, e, g, h)
  BY DEF Rd
<1> QED
  BY <1>1, <1>2, <1>3, Zenon

LEMMA RdEntered ==
    ASSUME NEW a, NEW b, NEW c, NEW d, NEW e, NEW g, NEW h, NEW at, NEW to, NEW ok
    PROVE  Entered(Rd(a, b, c, d, e, g, h), at, to, ok) = Rd(a, ok, c, d, at, to, h)
<1> DEFINE r == Rd(a, b, c, d, e, g, h)
<1>1. Entered(r, at, to, ok)
        = [[[r EXCEPT !.pos = at] EXCEPT !.tag = to] EXCEPT !.s = ok]
  BY Zenon DEF Entered
<1>2. [Rd(a, b, c, d, e, g, h) EXCEPT !.pos = at] = Rd(a, b, c, d, at, g, h)
  BY DEF Rd
<1>3. [Rd(a, b, c, d, at, g, h) EXCEPT !.tag = to] = Rd(a, b, c, d, at, to, h)
  BY DEF Rd
<1>4. [Rd(a, b, c, d, at, to, h) EXCEPT !.s = ok] = Rd(a, ok, c, d, at, to, h)
  BY DEF Rd
<1> QED
  BY <1>1, <1>2, <1>3, <1>4, Zenon

LEMMA RdPassed ==
    ASSUME NEW a, NEW b, NEW c, NEW d, NEW e, NEW g, NEW h, NEW n, NEW at, NEW ok
    PROVE  Passed(Rd(a, b, c, d, e, g, h), n, at, ok) = Rd(a, ok, c, n, at, g, h)
<1> DEFINE r == Rd(a, b, c, d, e, g, h)
<1>1. Passed(r, n, at, ok)
        = [[[r EXCEPT !.name = n] EXCEPT !.pos = at] EXCEPT !.s = ok]
  BY Zenon DEF Passed
<1>2. [Rd(a, b, c, d, e, g, h) EXCEPT !.name = n] = Rd(a, b, c, n, e, g, h)
  BY DEF Rd
<1>3. [Rd(a, b, c, n, e, g, h) EXCEPT !.pos = at] = Rd(a, b, c, n, at, g, h)
  BY DEF Rd
<1>4. [Rd(a, b, c, n, at, g, h) EXCEPT !.s = ok] = Rd(a, ok, c, n, at, g, h)
  BY DEF Rd
<1> QED
  BY <1>1, <1>2, <1>3, <1>4, Zenon

LEMMA RdAnswer ==
    ASSUME NEW a, NEW b, NEW c, NEW d, NEW e, NEW g, NEW h, NEW m
    PROVE  Answer(Rd(a, b, c, d, e, g, h), m) = Rd("answer", b, c, d, e, g, m)
<1> DEFINE r == Rd(a, b, c, d, e, g, h)
<1>1. Answer(r, m)
        = [[r EXCEPT !.phase = "answer"] EXCEPT !.mbid = m]
  BY Zenon DEF Answer
<1>2. [Rd(a, b, c, d, e, g, h) EXCEPT !.phase = "answer"] = Rd("answer", b, c, d, e, g, h)
  BY DEF Rd
<1>3. [Rd("answer", b, c, d, e, g, h) EXCEPT !.mbid = m] = Rd("answer", b, c, d, e, g, m)
  BY DEF Rd
<1> QED
  BY <1>1, <1>2, <1>3, Zenon

\* In the loop over the frames, where a call that found s cleared does not come.  In a plain
\* file nothing is read short, so s stays set; in a readable file the position is at a frame,
\* or at their end, and no identifier is behind it.
NoneUpTo(f, k) == \A j \in 1 .. k - 1 : ~f.frames[j].musicbrainz
AtFrame(f, pos) ==
    \E k \in 1 .. Len(f.frames) + 1 : pos = FrameStart(f, k) /\ NoneUpTo(f, k)
InLoop(ready, ok, f, name, pos, tag, mbid) ==
    /\ ready /\ mbid = NoMbid
    /\ f \in TagFiles /\ ok \in BOOLEAN /\ pos \in Nat /\ tag \in Int
    /\ Plain(f) => ok /\ tag = TagSize(f)
    /\ Readable(f) => AtFrame(f, pos)

OfFile(f, mbid) ==
    mbid # NoMbid => \/ mbid = GarbageMbid /\ ~Plain(f)
                     \/ mbid = JunkMbid /\ ~Readable(f)
                     \/ \E k \in DOMAIN f.frames :
                          f.frames[k].musicbrainz /\ f.frames[k].mbid = mbid
Answered(ready, ok, f, mbid) ==
    /\ f \in TagFiles /\ ok \in BOOLEAN
    /\ ready /\ Plain(f) => ok
    /\ ready /\ Readable(f) => IsFirstMbid(f, mbid)
    /\ OfFile(f, mbid)

Holding(ready, r) ==
    \/ \E ok, f, name, pos, tag, mbid :
         /\ r = Rd("idle", ok, f, name, pos, tag, mbid)
         /\ ok \in BOOLEAN /\ ok = ready
    \/ \E ok, f, name, pos, tag, mbid :
         /\ r = Rd("frames", ok, f, name, pos, tag, mbid)
         /\ InLoop(ready, ok, f, name, pos, tag, mbid)
    \/ \E ok, f, name, pos, tag, mbid :
         /\ r = Rd("answer", ok, f, name, pos, tag, mbid)
         /\ Answered(ready, ok, f, mbid)

\* A plain file is not read short anywhere in its tag.
LEMMA PlainReads ==
    ASSUME NEW f \in TagFiles, Plain(f), NEW pos \in Nat, NEW bytes \in 0 .. 69,
           pos <= TagSize(f) \/ pos + bytes <= 20
    PROVE  ~Short(f, pos, bytes)
<1>1. f.cut >= Whole(f)
  BY DEF Plain
<1>2. /\ EndOf(f) \in Nat /\ EndOf(f) >= 10 /\ f.padding \in Nat
      /\ TagSize(f) = (EndOf(f) + f.padding) - 10
  BY FileNumbers DEF Header
<1>3. Audio \in Nat /\ Audio >= 63 /\ Header = 10
  BY AudioAssumption DEF UfidData, Header
<1>4. Short(f, pos, bytes) => pos + bytes > (EndOf(f) + f.padding) + Audio
  <2>1. bytes \in Nat
    OBVIOUS
  <2> QED
    BY <1>1, <2>1, Reads
<1> DEFINE e == EndOf(f)
           p == f.padding
           t == TagSize(f)
<1>5. ASSUME Short(f, pos, bytes) PROVE FALSE
  <2>1. pos + bytes > (e + p) + Audio
    BY <1>4, <1>5
  <2>2. e \in Nat /\ e >= 10 /\ p \in Nat /\ t = (e + p) - 10
    BY <1>2
  <2>3. pos <= t \/ pos + bytes <= 20
    OBVIOUS
  <2> HIDE DEF e, p, t
  <2> QED
    BY <1>3, <2>1, <2>2, <2>3
<1> QED
  BY <1>5

LEMMA OpenedHolds ==
    ASSUME NEW ready \in BOOLEAN, NEW ok \in BOOLEAN, ready = ok, NEW f \in TagFiles,
           NEW old, NEW name, NEW pos, NEW tag, NEW mbid,
           NEW r \in Opened(Rd("idle", ok, old, name, pos, tag, mbid), f)
    PROVE  Holding(ready, r)
<1> DEFINE r0 == Rd("idle", ok, old, name, pos, tag, mbid)
           started == Started(r0, f)
           skips == IF f.version = 4 THEN {TagSize(f)} ELSE ToInteger(TagSize(f))
<1>1. r0.s = ok
  BY RdFields
<1>2. started = Rd("frames", ok, f, Unwritten, pos, tag, NoMbid)
  BY RdStarted
<1> HIDE DEF started
<1>3. \A b : NotFound(started, b) = Rd("answer", b, f, Unwritten, pos, tag, NoMbid)
  BY <1>2, RdNotFound
<1>4. Answer(started, NoMbid) = Rd("answer", ok, f, Unwritten, pos, tag, NoMbid)
  BY <1>2, RdAnswer
<1>5. \A x, y, z : Entered(started, x, y, z) = Rd("frames", z, f, Unwritten, x, y, NoMbid)
  BY <1>2, RdEntered
<1>6. \/ ~ok /\ r = Answer(started, NoMbid)
      \/ (~f.id3 \/ Short(f, 0, 3)) /\ r = NotFound(started, ~Short(f, 0, 3))
      \/ (~Supported(f.version) \/ Short(f, 3, 2)) /\ r = NotFound(started, ~Short(f, 0, 5))
      \/ ok /\ f.id3 /\ ~f.extended /\ r = Entered(started, Header, TagSize(f), ~Short(f, 0, Header))
      \/ /\ ok /\ f.id3 /\ f.extended
         /\ \E skip \in skips : \E t \in Garbage :
              r = Entered(started, Reached(f, Sought(Header, skip), 4), t,
                          ~Short(f, 0, Header) /\ ~Short(f, Sought(Header, skip), 4))
  <2> HIDE DEF r0, skips
  <2>1. r \in Opened(r0, f)
    BY DEF r0
  <2> QED
    BY <1>1, <2>1 DEF Opened, started, skips
<1> HIDE DEF r0, skips
<1>7. OfFile(f, NoMbid)
  BY DEF OfFile
<1>8. \A a, b : Short(f, a, b) \in BOOLEAN
  BY DEF Short
<1>9. Plain(f) => ~Short(f, 0, 3) /\ ~Short(f, 0, 5) /\ ~Short(f, 3, 2) /\ ~Short(f, 0, Header)
  <2>1. 0 \in Nat /\ 3 \in Nat /\ Header \in 0 .. 69 /\ 0 + Header <= 20
    BY DEF Header
  <2> QED
    BY <2>1, PlainReads
<1>10. Readable(f) => Plain(f) /\ f.id3 /\ Supported(f.version)
  BY DEF Readable, Supported
<1>11. CASE ~ok /\ r = Answer(started, NoMbid)
  <2>1. ~ready
    BY <1>11
  <2>2. Answered(ready, ok, f, NoMbid)
    BY <1>7, <2>1 DEF Answered
  <2> QED
    BY <1>4, <1>11, <2>2 DEF Holding
<1>12. CASE (~f.id3 \/ Short(f, 0, 3)) /\ r = NotFound(started, ~Short(f, 0, 3))
  <2>1. Answered(ready, ~Short(f, 0, 3), f, NoMbid)
    BY <1>7, <1>8, <1>9, <1>10, <1>12 DEF Answered
  <2> QED
    BY <1>3, <1>12, <2>1 DEF Holding
<1>13. CASE (~Supported(f.version) \/ Short(f, 3, 2)) /\ r = NotFound(started, ~Short(f, 0, 5))
  <2>1. Answered(ready, ~Short(f, 0, 5), f, NoMbid)
    BY <1>7, <1>8, <1>9, <1>10, <1>13 DEF Answered
  <2> QED
    BY <1>3, <1>13, <2>1 DEF Holding
<1>14. CASE ok /\ f.id3 /\ ~f.extended /\ r = Entered(started, Header, TagSize(f), ~Short(f, 0, Header))
  <2>1. AtFrame(f, Header)
    <3>1. 1 \in 1 .. Len(f.frames) + 1 /\ FrameStart(f, 1) = Header
      BY FrameStarts
    <3>2. NoneUpTo(f, 1)
      BY DEF NoneUpTo
    <3> QED
      BY <3>1, <3>2 DEF AtFrame
  <2>2. Header \in Nat /\ TagSize(f) \in Int
    BY FileNumbers DEF Header
  <2>3. InLoop(ready, ~Short(f, 0, Header), f, Unwritten, Header, TagSize(f), NoMbid)
    BY <1>8, <1>9, <1>14, <2>1, <2>2 DEF InLoop
  <2> QED
    BY <1>5, <1>14, <2>3 DEF Holding
<1>15. CASE /\ ok /\ f.id3 /\ f.extended
            /\ \E skip \in skips : \E t \in Garbage :
                 r = Entered(started, Reached(f, Sought(Header, skip), 4), t,
                             ~Short(f, 0, Header) /\ ~Short(f, Sought(Header, skip), 4))
  <2>1. PICK skip \in skips : \E t \in Garbage :
          r = Entered(started, Reached(f, Sought(Header, skip), 4), t,
                      ~Short(f, 0, Header) /\ ~Short(f, Sought(Header, skip), 4))
    BY <1>15
  <2>10. PICK t \in Garbage :
          r = Entered(started, Reached(f, Sought(Header, skip), 4), t,
                      ~Short(f, 0, Header) /\ ~Short(f, Sought(Header, skip), 4))
    BY <2>1
  <2>2. Garbage \subseteq Int /\ TagSize(f) \in Int
    BY FileNumbers, AudioAssumption DEF Header
  <2>3. skip \in Int /\ t \in Int
    BY <2>2 DEF skips, ToInteger
  <2>4. Reached(f, Sought(Header, skip), 4) \in Nat
    <3>1. Header \in Nat /\ 4 \in Nat
      BY DEF Header
    <3>2. Sought(Header, skip) \in Nat
      BY <2>3, <3>1, SoughtIsNat
    <3> QED
      BY <3>1, <3>2, Reads
  <2>5. ~Plain(f) /\ ~Readable(f)
    BY <1>10, <1>15 DEF Plain
  <2> DEFINE good == ~Short(f, 0, Header) /\ ~Short(f, Sought(Header, skip), 4)
             p == Reached(f, Sought(Header, skip), 4)
  <2>6. good \in BOOLEAN
    BY <1>8
  <2>7. r = Rd("frames", good, f, Unwritten, p, t, NoMbid)
    BY <1>5, <2>10
  <2> HIDE DEF good, p
  <2>8. InLoop(ready, good, f, Unwritten, p, t, NoMbid)
    BY <1>15, <2>3, <2>4, <2>5, <2>6 DEF InLoop, p
  <2> QED
    BY <2>7, <2>8 DEF Holding
<1> QED
  BY <1>6, <1>11, <1>12, <1>13, <1>14, <1>15

\* What stands at the k-th frame.
LEMMA AtTheFrame ==
    ASSUME NEW f \in TagFiles, NEW k \in 1 .. Len(f.frames)
    PROVE  LET pos == FrameStart(f, k)
           IN  /\ NamesAt(f, pos) = {f.frames[k].name}
               /\ FrameAt(f, pos) = f.frames[k]
               /\ f.version = 4 => SizesAt(f, pos) = {f.frames[k].size}
<1> DEFINE pos == FrameStart(f, k)
           frame == f.frames[k]
<1>1. FramesAt(f, pos) = {frame}
  BY FramesAtStart
<1> HIDE DEF pos, frame
<1>2. NamesAt(f, pos) = {frame.name}
  BY <1>1 DEF NamesAt
<1>3. FrameAt(f, pos) = frame
  BY <1>1 DEF FrameAt
<1>4. ASSUME f.version = 4 PROVE SizesAt(f, pos) = {frame.size}
  BY <1>1, <1>4 DEF SizesAt
<1> QED
  BY <1>2, <1>3, <1>4 DEF pos, frame

\* The frames of a tag.
LEMMA FrameKinds ==
    ASSUME NEW f \in TagFiles, NEW k \in 1 .. Len(f.frames)
    PROVE  /\ f.frames[k].musicbrainz \in BOOLEAN /\ f.frames[k].name # NoName
           /\ f.frames[k].musicbrainz => f.frames[k].name = "UFID"
           /\ DOMAIN f.frames = 1 .. Len(f.frames)
<1>1. f.frames \in Seq(TagFrames)
  BY DEF TagFiles
<1>2. f.frames[k] \in TagFrames /\ DOMAIN f.frames = 1 .. Len(f.frames)
  BY <1>1
<1> QED
  BY <1>2, TagAssumption

\* No identifier up to the end of the frames is none at all.
LEMMA NoneAtAll ==
    ASSUME NEW f \in TagFiles, NoneUpTo(f, Len(f.frames) + 1)
    PROVE  IsFirstMbid(f, NoMbid)
<1>1. DOMAIN f.frames = 1 .. Len(f.frames) /\ Len(f.frames) \in Nat
  BY DEF TagFiles
<1>2. MbidFrames(f) = {}
  BY <1>1 DEF MbidFrames, NoneUpTo
<1> QED
  BY <1>2 DEF IsFirstMbid

\* In the loop over a readable file.
LEMMA InReadable ==
    ASSUME NEW ready \in BOOLEAN, NEW ok, NEW f, NEW name, NEW pos, NEW tag, NEW mbid,
           InLoop(ready, ok, f, name, pos, tag, mbid), ready, Readable(f)
    PROVE  /\ f \in TagFiles /\ ok /\ tag = TagSize(f) /\ TagSize(f) <= TagLimit
           /\ Plain(f) /\ f.version = 4 /\ f.cut >= Whole(f)
           /\ \E k \in 1 .. Len(f.frames) + 1 : pos = FrameStart(f, k) /\ NoneUpTo(f, k)
<1>1. Plain(f) /\ f.version = 4 /\ TagSize(f) <= TagLimit /\ f.cut >= Whole(f)
  BY DEF Readable, Plain
<1> QED
  BY <1>1 DEF InLoop, AtFrame

\* A frame of a ready file is before the end of the tag.
LEMMA FrameIsInTag ==
    ASSUME NEW f \in TagFiles, NEW k \in 1 .. Len(f.frames)
    PROVE  FrameStart(f, k) <= TagSize(f)
<1> DEFINE at == FrameStart(f, k)
           size == f.frames[k].size
           e == EndOf(f)
           p == f.padding
<1>1. at \in Nat /\ size \in Nat /\ (at + 10) + size <= e
  BY FrameBeforeEnd
<1>2. e \in Nat /\ p \in Nat /\ TagSize(f) = (e + p) - 10
  BY FileNumbers DEF Header
<1> HIDE DEF at, size, e, p
<1>3. at <= TagSize(f)
  BY <1>1, <1>2
<1> QED
  BY <1>3 DEF at

\* Where the loop ends.
LEMMA LoopEnds ==
    ASSUME NEW ready \in BOOLEAN, NEW ok, NEW f, NEW name, NEW pos, NEW tag, NEW mbid,
           InLoop(ready, ok, f, name, pos, tag, mbid),
           ~ok \/ pos > tag \/ pos > TagLimit
    PROVE  Answered(ready, ok, f, NoMbid)
<1>1. f \in TagFiles /\ ok \in BOOLEAN /\ pos \in Nat /\ (ready /\ Plain(f) => ok)
  BY DEF InLoop
<1>2. OfFile(f, NoMbid)
  BY DEF OfFile
<1>3. ASSUME ready, Readable(f) PROVE IsFirstMbid(f, NoMbid)
  <2>1. /\ ok /\ tag = TagSize(f) /\ TagSize(f) <= TagLimit
        /\ \E k \in 1 .. Len(f.frames) + 1 : pos = FrameStart(f, k) /\ NoneUpTo(f, k)
    BY <1>3, InReadable
  <2>2. PICK k \in 1 .. Len(f.frames) + 1 : pos = FrameStart(f, k) /\ NoneUpTo(f, k)
    BY <2>1
  <2>3. Len(f.frames) \in Nat /\ TagSize(f) \in Int
    BY <1>1, FrameStarts, FileNumbers DEF Header
  <2>4. CASE k \in 1 .. Len(f.frames)
    <3>1. pos <= TagSize(f)
      BY <1>1, <2>2, <2>4, FrameIsInTag
    <3> QED
      BY <1>1, <2>1, <2>3, <3>1 DEF TagLimit
  <2>5. CASE k = Len(f.frames) + 1
    BY <1>1, <2>2, <2>5, NoneAtAll
  <2> QED
    BY <2>3, <2>4, <2>5
<1> QED
  BY <1>1, <1>2, <1>3 DEF Answered

\* The room that a ready file has at a place.
LEMMA RoomInPlain ==
    ASSUME NEW ready \in BOOLEAN, NEW ok, NEW f, NEW name, NEW pos, NEW tag, NEW mbid,
           InLoop(ready, ok, f, name, pos, tag, mbid), ~(pos > tag), Plain(f),
           NEW bytes \in 0 .. 69
    PROVE  ~Short(f, pos, bytes)
<1>1. f \in TagFiles /\ pos \in Nat /\ tag = TagSize(f) /\ tag \in Int
  BY DEF InLoop
<1>2. pos <= TagSize(f)
  BY <1>1
<1> QED
  BY <1>1, <1>2, PlainReads

\* In a readable file the loop is at a frame, or at their end.
FrameOrEnd(f, name, pos) ==
    \/ NamesRead(f, pos, name) = {NoName} /\ NoneUpTo(f, Len(f.frames) + 1)
    \/ \E k \in 1 .. Len(f.frames) :
         /\ pos = FrameStart(f, k) /\ NoneUpTo(f, k)
         /\ NamesRead(f, pos, name) = {f.frames[k].name} /\ FrameAt(f, pos) = f.frames[k]
         /\ SizesAt(f, pos) = {f.frames[k].size}

LEMMA AtReadable ==
    ASSUME NEW ready \in BOOLEAN, NEW ok, NEW f, NEW name, NEW pos, NEW tag, NEW mbid,
           InLoop(ready, ok, f, name, pos, tag, mbid), ~(pos > tag), ready, Readable(f)
    PROVE  FrameOrEnd(f, name, pos)
<1> DEFINE n == Len(f.frames)
<1>1. /\ f \in TagFiles /\ tag = TagSize(f) /\ Plain(f) /\ f.version = 4
      /\ \E k \in 1 .. n + 1 : pos = FrameStart(f, k) /\ NoneUpTo(f, k)
  BY InReadable
<1>2. PICK k \in 1 .. n + 1 : pos = FrameStart(f, k) /\ NoneUpTo(f, k)
  BY <1>1
<1>3. ~Short(f, pos, 4)
  <2>1. 4 \in 0 .. 69
    OBVIOUS
  <2> QED
    BY <1>1, <2>1, RoomInPlain
<1>4. NamesRead(f, pos, name) = NamesAt(f, pos)
  BY <1>3 DEF NamesRead
<1>5. n \in Nat
  BY <1>1, FrameStarts
<1>6. CASE k \in 1 .. n
  <2>1. NamesAt(f, pos) = {f.frames[k].name} /\ FrameAt(f, pos) = f.frames[k]
        /\ SizesAt(f, pos) = {f.frames[k].size}
    BY <1>1, <1>2, <1>6, AtTheFrame
  <2> QED
    BY <1>2, <1>4, <1>6, <2>1 DEF FrameOrEnd
<1>7. CASE k = n + 1
  <2>1. pos = EndOf(f) /\ FramesAt(f, pos) = {}
    BY <1>1, <1>2, <1>7, NoFrameAtEnd DEF EndOf
  <2>2. pos \in Nat /\ f.padding \in Nat /\ TagSize(f) = (pos + f.padding) - 10
    BY <1>1, <2>1, FileNumbers DEF Header
  <2>3. pos < 10 + TagSize(f)
    <3> DEFINE t == TagSize(f)
               p == f.padding
    <3>1. ~(pos > t)
      BY <1>1
    <3>2. p \in Nat /\ t = (pos + p) - 10
      BY <2>2
    <3> HIDE DEF t, p
    <3>3. pos < 10 + t
      BY <2>2, <3>1, <3>2
    <3> QED
      BY <3>3 DEF t
  <2>4. InPadding(f, pos)
    BY <2>1, <2>2, <2>3 DEF InPadding, EndOf, Header
  <2>5. NamesAt(f, pos) = {NoName}
    BY <2>1, <2>4 DEF NamesAt
  <2> QED
    BY <1>2, <1>4, <1>7, <2>5 DEF FrameOrEnd
<1> QED
  BY <1>5, <1>6, <1>7

\* Where the padding is met.
LEMMA PaddingEnds ==
    ASSUME NEW ready \in BOOLEAN, NEW ok, NEW f, NEW name, NEW pos, NEW tag, NEW mbid,
           InLoop(ready, ok, f, name, pos, tag, mbid), ~(pos > tag),
           NoName \in NamesRead(f, pos, name)
    PROVE  Answered(ready, ~Short(f, pos, 4), f, NoMbid)
<1>1. f \in TagFiles /\ Short(f, pos, 4) \in BOOLEAN
  BY DEF InLoop, Short
<1>2. OfFile(f, NoMbid)
  BY DEF OfFile
<1>3. ASSUME ready, Plain(f) PROVE ~Short(f, pos, 4)
  <2>1. 4 \in 0 .. 69
    OBVIOUS
  <2> QED
    BY <1>3, <2>1, RoomInPlain
<1>4. ASSUME ready, Readable(f) PROVE IsFirstMbid(f, NoMbid)
  <2>3. FrameOrEnd(f, name, pos)
    BY <1>4, AtReadable
  <2>1. CASE NoneUpTo(f, Len(f.frames) + 1)
    BY <1>1, <2>1, NoneAtAll
  <2>2. CASE \E k \in 1 .. Len(f.frames) : NamesRead(f, pos, name) = {f.frames[k].name}
    BY <1>1, <2>2, FrameKinds
  <2> QED
    BY <2>1, <2>2, <2>3 DEF FrameOrEnd
<1> QED
  BY <1>1, <1>2, <1>3, <1>4 DEF Answered

\* How far the header of a frame is read.
LEMMA DataStarts ==
    ASSUME NEW f \in TagFiles, NEW pos \in Nat
    PROVE  LET data == Reached(f, pos, 8) + 2
           IN  /\ data \in Nat /\ data <= pos + 10
               /\ ~Short(f, pos, 8) => data = pos + 10
<1> DEFINE to == Reached(f, pos, 8)
<1>1. to \in Nat /\ to <= pos + 8 /\ (~Short(f, pos, 8) => to = pos + 8)
  <2>1. 8 \in Nat
    OBVIOUS
  <2> QED
    BY <2>1, Reads
<1> HIDE DEF to
<1>2. to + 2 \in Nat /\ to + 2 <= pos + 10 /\ (~Short(f, pos, 8) => to + 2 = pos + 10)
  BY <1>1
<1> QED
  BY <1>2 DEF to

\* The turn over a frame of another name goes on behind it.
LEMMA OtherHolds ==
    ASSUME NEW ready \in BOOLEAN, NEW ok, NEW f, NEW name, NEW pos, NEW tag, NEW mbid,
           InLoop(ready, ok, f, name, pos, tag, mbid), ~(pos > tag),
           NEW n \in NamesRead(f, pos, name) \ {NoName, "UFID"}, NEW size \in SizesRead(f, pos)
    PROVE  InLoop(ready, ~Short(f, pos, 8), f, n, Sought(Reached(f, pos, 8) + 2, size), tag, mbid)
<1> DEFINE data == Reached(f, pos, 8) + 2
           read == ~Short(f, pos, 8)
<1>1. f \in TagFiles /\ pos \in Nat /\ tag \in Int /\ mbid = NoMbid /\ read \in BOOLEAN
  BY DEF InLoop, Short
<1>2. data \in Nat /\ (read => data = pos + 10)
  BY <1>1, DataStarts
<1>3. size \in Int
  BY <1>1, SizesAreInts, AudioAssumption DEF SizesRead
<1>4. Sought(data, size) \in Nat
  BY <1>2, <1>3, SoughtIsNat
<1>5. ASSUME ready, Plain(f) PROVE read /\ tag = TagSize(f)
  <2>1. 8 \in 0 .. 69
    OBVIOUS
  <2>2. ~Short(f, pos, 8)
    BY <1>5, <2>1, RoomInPlain
  <2> QED
    BY <1>5, <2>2 DEF InLoop
<1>6. ASSUME ready, Readable(f) PROVE AtFrame(f, Sought(data, size))
  <2>1. Plain(f)
    BY <1>6 DEF Readable
  <2>2. read /\ data = pos + 10
    BY <1>2, <1>5, <1>6, <2>1
  <2>3. NamesRead(f, pos, name) # {NoName}
    OBVIOUS
  <2>11. FrameOrEnd(f, name, pos)
    BY <1>6, AtReadable
  <2>4. PICK k \in 1 .. Len(f.frames) :
          /\ pos = FrameStart(f, k) /\ NoneUpTo(f, k)
          /\ NamesRead(f, pos, name) = {f.frames[k].name}
          /\ SizesAt(f, pos) = {f.frames[k].size}
    BY <2>3, <2>11 DEF FrameOrEnd
  <2>5. n = f.frames[k].name /\ n # "UFID" /\ size = f.frames[k].size
    BY <2>2, <2>4 DEF SizesRead
  <2>6. ~f.frames[k].musicbrainz
    BY <1>1, <2>5, FrameKinds
  <2>7. Len(f.frames) \in Nat /\ size \in Nat /\ FrameStart(f, k + 1) = (pos + 10) + size
    BY <1>1, <2>4, <2>5, FrameStarts, FrameBeforeEnd
  <2>8. Sought(data, size) = FrameStart(f, k + 1)
    BY <1>1, <2>2, <2>7 DEF Sought
  <2>9. k + 1 \in 1 .. Len(f.frames) + 1
    BY <2>7
  <2>10. NoneUpTo(f, k + 1)
    <3>1. ASSUME NEW j \in 1 .. (k + 1) - 1 PROVE ~f.frames[j].musicbrainz
      <4>1. j = k \/ j \in 1 .. k - 1
        BY <2>7
      <4> QED
        BY <2>4, <2>6, <4>1 DEF NoneUpTo
    <3> QED
      BY <3>1 DEF NoneUpTo
  <2> QED
    BY <2>8, <2>9, <2>10 DEF AtFrame
<1> HIDE DEF data, read
<1>7. ready
  BY DEF InLoop
<1>8. InLoop(ready, read, f, n, Sought(data, size), tag, mbid)
  BY <1>1, <1>4, <1>5, <1>6, <1>7 DEF InLoop
<1> QED
  BY <1>8 DEF data, read

\* The data of a UFID frame that is met in a plain file is all there.
LEMMA UfidIsThere ==
    ASSUME NEW ready \in BOOLEAN, NEW ok, NEW f, NEW name, NEW pos, NEW tag, NEW mbid,
           InLoop(ready, ok, f, name, pos, tag, mbid), ~(pos > tag), Plain(f)
    PROVE  ~Short(f, pos, 8) /\ ~Short(f, Reached(f, pos, 8) + 2, UfidData)
<1>1. f \in TagFiles /\ pos \in Nat /\ Length(f) \in Nat
  BY FileNumbers DEF InLoop
<1>2. 8 \in 0 .. 69 /\ 69 \in 0 .. 69
  OBVIOUS
<1>3. ~Short(f, pos, 8) /\ ~Short(f, pos, 69)
  BY <1>2, RoomInPlain
<1>4. Reached(f, pos, 8) + 2 = pos + 10
  BY <1>1, <1>3, DataStarts
<1> QED
  BY <1>1, <1>3, <1>4 DEF Short, UfidData

Owners(f, data, frame) ==
    IF Short(f, data, 22) \/ frame = NoFrame THEN BOOLEAN ELSE {OwnerMatches(frame)}

\* What the data of a UFID frame gives.
LEMMA UfidIs ==
    ASSUME NEW b, NEW f, NEW pos, NEW tag, NEW data, NEW size, NEW frame,
           NEW r \in UfidRead(Rd("frames", b, f, "UFID", pos, tag, NoMbid), data, size, frame)
    PROVE  LET read == ~Short(f, data, UfidData)
               at   == Reached(f, data, UfidData)
           IN  \E o \in Owners(f, data, frame) :
                 \/ /\ size >= UfidData /\ o
                    /\ r = Rd("answer", b /\ read, f, "UFID", at, tag,
                              IF read THEN frame.mbid ELSE GarbageMbid)
                 \/ /\ ~(size >= UfidData /\ o)
                    /\ r = Rd("frames", b /\ read, f, "UFID", at, tag, NoMbid)
<1> DEFINE r0 == Rd("frames", b, f, "UFID", pos, tag, NoMbid)
           read == ~Short(f, data, UfidData)
           at   == Reached(f, data, UfidData)
           both == b /\ read
           found == IF read THEN frame.mbid ELSE GarbageMbid
           next == Passed(r0, "UFID", at, both)
           owners == Owners(f, data, frame)
<1>1. r0.file = f /\ r0.s = b
  BY RdFields
<1> HIDE DEF r0, next
<1>2. r \in UfidRead(r0, data, size, frame)
  BY DEF r0
<1>3. UfidRead(r0, data, size, frame)
        = {IF size >= UfidData /\ o THEN Answer(next, found) ELSE next : o \in owners}
  BY <1>1, Zenon DEF UfidRead, next, Owners
<1> HIDE DEF read, at, both, found, owners
<1>4. PICK o \in owners : r = IF size >= UfidData /\ o THEN Answer(next, found) ELSE next
  BY <1>2, <1>3
<1>5. next = Rd("frames", both, f, "UFID", at, tag, NoMbid)
  BY RdPassed DEF next, r0
<1>6. Answer(next, found) = Rd("answer", both, f, "UFID", at, tag, found)
  BY <1>5, RdAnswer
<1>7. \/ /\ size >= UfidData /\ o
         /\ r = Rd("answer", both, f, "UFID", at, tag, found)
      \/ /\ ~(size >= UfidData /\ o)
         /\ r = Rd("frames", both, f, "UFID", at, tag, NoMbid)
  BY <1>4, <1>5, <1>6
<1> QED
  BY <1>7 DEF read, at, both, found, owners

\* The turn over a UFID frame finds its identifier, or goes on behind it.
LEMMA UfidHolds ==
    ASSUME NEW ready \in BOOLEAN, NEW ok, NEW f, NEW name, NEW pos, NEW tag, NEW mbid,
           InLoop(ready, ok, f, name, pos, tag, mbid), ~(pos > tag),
           "UFID" \in NamesRead(f, pos, name), NEW size \in SizesRead(f, pos),
           NEW r \in UfidRead(Rd("frames", ~Short(f, pos, 8), f, "UFID", pos, tag, NoMbid),
                              Reached(f, pos, 8) + 2, size, FrameAt(f, pos))
    PROVE  Holding(ready, r)
<1> DEFINE data == Reached(f, pos, 8) + 2
           frame == FrameAt(f, pos)
           b == ~Short(f, pos, 8)
           read == ~Short(f, data, UfidData)
           at == Reached(f, data, UfidData)
           both == b /\ read
           found == IF read THEN frame.mbid ELSE GarbageMbid
           n == Len(f.frames)
<1>1. f \in TagFiles /\ pos \in Nat /\ tag \in Int /\ mbid = NoMbid
  BY DEF InLoop
<1>2. data \in Nat /\ data <= pos + 10 /\ (b => data = pos + 10)
  BY <1>1, DataStarts
<1>3. b \in BOOLEAN /\ read \in BOOLEAN /\ both \in BOOLEAN
  BY DEF Short
<1>4. at \in Nat /\ at <= data + 59 /\ (read => at = data + 59)
  <2>1. 59 \in Nat
    OBVIOUS
  <2> HIDE DEF data
  <2> QED
    BY <1>1, <1>2, <2>1, Reads DEF UfidData
<1>5. Plain(f) => b /\ read
  BY UfidIsThere
<1>6. ASSUME ready, Plain(f) PROVE both /\ tag = TagSize(f)
  BY <1>5, <1>6 DEF InLoop
<1>7. PICK o \in Owners(f, data, frame) :
        \/ size >= UfidData /\ o /\ r = Rd("answer", both, f, "UFID", at, tag, found)
        \/ /\ ~(size >= UfidData /\ o)
           /\ r = Rd("frames", both, f, "UFID", at, tag, NoMbid)
  <2> HIDE DEF data, frame, b
  <2>1. r \in UfidRead(Rd("frames", b, f, "UFID", pos, tag, NoMbid), data, size, frame)
    BY DEF data, frame, b
  <2> QED
    BY <2>1, UfidIs
<1>8. read => ~Short(f, data, 22)
  <2> HIDE DEF data
  <2>1. Length(f) \in Nat
    BY <1>1, FileNumbers
  <2> QED
    BY <1>2, <2>1 DEF Short, UfidData
<1>9. read /\ frame # NoFrame => o = frame.musicbrainz
  BY <1>7, <1>8 DEF OwnerMatches, Owners
<1>13. ready
  BY DEF InLoop
<1>14. ASSUME FramesAt(f, pos) # {}
       PROVE  \E k \in DOMAIN f.frames : frame = f.frames[k] /\ frame # NoFrame
  <2>1. PICK k \in 1 .. Len(f.frames) : frame = f.frames[k]
    BY <1>1, <1>14, FrameFound
  <2>2. f.frames[k].name # NoName /\ k \in DOMAIN f.frames
    BY <1>1, FrameKinds
  <2>3. NoFrame.name = NoName
    BY DEF NoFrame
  <2> QED
    BY <2>1, <2>2, <2>3
<1>10. ASSUME ready, Readable(f)
       PROVE  \E k \in 1 .. n :
                /\ pos = FrameStart(f, k) /\ NoneUpTo(f, k) /\ frame = f.frames[k]
                /\ size = UfidData /\ f.frames[k].size = UfidData /\ frame # NoFrame
  <2>1. Plain(f) /\ UfidsFit(f)
    BY <1>10 DEF Readable
  <2>2. both
    BY <1>6, <1>10, <2>1
  <2>3. FrameOrEnd(f, name, pos)
    BY <1>10, AtReadable
  <2>7. NamesRead(f, pos, name) # {NoName}
    <3>1. "UFID" # NoName
      BY DEF NoName
    <3>2. "UFID" \in NamesRead(f, pos, name)
      OBVIOUS
    <3> QED
      BY <3>1, <3>2, Zenon
  <2>4. PICK k \in 1 .. n :
          /\ pos = FrameStart(f, k) /\ NoneUpTo(f, k)
          /\ NamesRead(f, pos, name) = {f.frames[k].name} /\ frame = f.frames[k]
          /\ SizesAt(f, pos) = {f.frames[k].size}
    BY <2>3, <2>7 DEF FrameOrEnd
  <2>5. f.frames[k].name = "UFID" /\ size = f.frames[k].size
    BY <2>2, <2>4 DEF SizesRead
  <2>6. f.frames[k].size = UfidData
    BY <1>1, <2>1, <2>5, FrameKinds DEF UfidsFit
  <2>8. frame # NoFrame
    BY <1>1, <2>4, FrameKinds DEF NoFrame
  <2> QED
    BY <2>4, <2>5, <2>6, <2>8
<1> HIDE DEF data, frame, b, at, read, both, found, n
<1>11. CASE size >= UfidData /\ o /\ r = Rd("answer", both, f, "UFID", at, tag, found)
  <2>1. OfFile(f, found)
    <3>1. CASE ~read
      <4>1. found = GarbageMbid /\ ~Plain(f)
        BY <1>5, <3>1 DEF found
      <4> QED
        BY <4>1 DEF OfFile
    <3>2. CASE read /\ FramesAt(f, pos) = {}
      <4>1. found = JunkMbid
        BY <3>2 DEF found, frame, FrameAt, NoFrame
      <4>2. ~Readable(f)
        <5>1. FramesAt(f, pos) = {} => frame = NoFrame
          BY DEF frame, FrameAt
        <5> QED
          BY <1>10, <1>13, <3>2, <5>1
      <4> QED
        BY <4>1, <4>2 DEF OfFile
    <3>3. CASE read /\ FramesAt(f, pos) # {}
      <4>1. PICK k \in DOMAIN f.frames : frame = f.frames[k] /\ frame # NoFrame
        BY <1>14, <3>3
      <4>2. frame.musicbrainz /\ found = frame.mbid
        BY <1>9, <1>11, <3>3, <4>1 DEF found
      <4> QED
        BY <4>1, <4>2 DEF OfFile
    <3> QED
      BY <1>3, <3>1, <3>2, <3>3
  <2>2. ASSUME ready, Readable(f) PROVE IsFirstMbid(f, found)
    <3>1. PICK k \in 1 .. n :
            /\ pos = FrameStart(f, k) /\ NoneUpTo(f, k) /\ frame = f.frames[k]
            /\ frame # NoFrame
      BY <1>10, <2>2
    <3>2. read
      BY <1>6, <2>2 DEF Readable, both
    <3>3. f.frames[k].musicbrainz /\ found = f.frames[k].mbid
      BY <1>9, <1>11, <3>1, <3>2 DEF found
    <3>4. DOMAIN f.frames = 1 .. n /\ n \in Nat
      BY <1>1 DEF TagFiles, n
    <3>5. k \in MbidFrames(f)
      BY <3>3, <3>4 DEF MbidFrames
    <3>6. ASSUME NEW j \in MbidFrames(f) PROVE k <= j
      <4>1. j \in 1 .. n /\ f.frames[j].musicbrainz
        BY <3>4 DEF MbidFrames
      <4>2. ~(j \in 1 .. k - 1)
        BY <3>1, <4>1 DEF NoneUpTo
      <4> QED
        BY <3>4, <4>1, <4>2
    <3> QED
      BY <3>3, <3>5, <3>6 DEF IsFirstMbid
  <2>3. Answered(ready, both, f, found)
    BY <1>1, <1>3, <1>6, <2>1, <2>2 DEF Answered
  <2> QED
    BY <1>11, <2>3 DEF Holding
<1>12. CASE ~(size >= UfidData /\ o) /\ r = Rd("frames", both, f, "UFID", at, tag, NoMbid)
  <2>2. ASSUME ready, Readable(f) PROVE AtFrame(f, at)
    <3>1. PICK k \in 1 .. n :
            /\ pos = FrameStart(f, k) /\ NoneUpTo(f, k) /\ frame = f.frames[k]
            /\ size = UfidData /\ f.frames[k].size = UfidData /\ frame # NoFrame
      BY <1>10, <2>2
    <3>2. read /\ b
      BY <1>6, <2>2 DEF Readable, both
    <3>3. ~f.frames[k].musicbrainz
      BY <1>9, <1>12, <3>1, <3>2 DEF UfidData
    <3>4. n \in Nat /\ FrameStart(f, k + 1) = (pos + 10) + 59
      BY <1>1, <3>1, FrameStarts, FrameBeforeEnd DEF UfidData, n
    <3>5. at = FrameStart(f, k + 1)
      BY <1>2, <1>4, <3>2, <3>4
    <3>6. k + 1 \in 1 .. n + 1
      BY <3>4
    <3>7. NoneUpTo(f, k + 1)
      <4>1. ASSUME NEW j \in 1 .. (k + 1) - 1 PROVE ~f.frames[j].musicbrainz
        <5>1. j = k \/ j \in 1 .. k - 1
          BY <3>4
        <5> QED
          BY <3>1, <3>3, <5>1 DEF NoneUpTo
      <4> QED
        BY <4>1 DEF NoneUpTo
    <3> QED
      BY <3>5, <3>6, <3>7 DEF AtFrame, n
  <2>3. InLoop(ready, both, f, "UFID", at, tag, NoMbid)
    BY <1>1, <1>3, <1>4, <1>6, <1>13, <2>2 DEF InLoop
  <2> QED
    BY <1>12, <2>3 DEF Holding
<1> QED
  BY <1>7, <1>11, <1>12

\* The outcomes of one turn of the loop.
LEMMA FrameReadIs ==
    ASSUME NEW r0, NEW r \in FrameRead(r0)
    PROVE  LET f     == r0.file
               pos   == r0.pos
               data  == Reached(f, pos, 8) + 2
               read  == ~Short(f, pos, 8)
               names == NamesRead(f, pos, r0.name)
               sizes == SizesRead(f, pos)
               ends  == ~r0.s \/ pos > r0.tag \/ pos > TagLimit
           IN  \/ ends /\ r = Answer(r0, NoMbid)
               \/ ~ends /\ NoName \in names /\ r = NotFound(r0, ~Short(f, pos, 4))
               \/ /\ ~ends /\ "UFID" \in names
                  /\ \E size \in sizes :
                       r \in UfidRead(Passed(r0, "UFID", pos, read), data, size, FrameAt(f, pos))
               \/ /\ ~ends
                  /\ \E n \in names \ {NoName, "UFID"} : \E size \in sizes :
                       r = Passed(r0, n, Sought(data, size), read)
<1> DEFINE f     == r0.file
           pos   == r0.pos
           data  == Reached(f, pos, 8) + 2
           read  == ~Short(f, pos, 8)
           names == NamesRead(f, pos, r0.name)
           sizes == SizesRead(f, pos)
           ends  == ~r0.s \/ pos > r0.tag \/ pos > TagLimit
<1>1. CASE ends
  BY <1>1 DEF FrameRead
<1>2. CASE ~ends
  <2>1. PICK n \in names :
          r \in IF n = NoName THEN {NotFound(r0, ~Short(f, pos, 4))}
               ELSE UNION {RestRead(r0, n, size) : size \in sizes}
    BY <1>2, Zenon DEF FrameRead
  <2>2. CASE n = NoName
    BY <1>2, <2>1, <2>2
  <2>3. CASE n # NoName
    <3>1. PICK size \in sizes : r \in RestRead(r0, n, size)
      BY <2>1, <2>3, Zenon
    <3>2. CASE n = "UFID"
      <4>1. r \in UfidRead(Passed(r0, "UFID", pos, read), data, size, FrameAt(f, pos))
        BY <3>1, <3>2, Zenon DEF RestRead
      <4> QED
        BY <1>2, <3>2, <4>1
    <3>3. CASE n # "UFID"
      <4>1. r = Passed(r0, n, Sought(data, size), read)
        BY <3>1, <3>3, Zenon DEF RestRead
      <4>2. n \in names \ {NoName, "UFID"}
        BY <2>3, <3>3
      <4> HIDE DEF names, sizes, read, data, ends
      <4>3. \E m \in names \ {NoName, "UFID"} : \E z \in sizes :
              r = Passed(r0, m, Sought(data, z), read)
        BY <4>1, <4>2
      <4> QED
        BY <1>2, <4>3, Zenon DEF names, sizes, read, data, ends
    <3> QED
      BY <3>2, <3>3
  <2> QED
    BY <2>2, <2>3
<1> QED
  BY <1>1, <1>2

\* One turn of the loop.
LEMMA FrameReadHolds ==
    ASSUME NEW ready \in BOOLEAN, NEW ok, NEW f, NEW name, NEW pos, NEW tag, NEW mbid,
           InLoop(ready, ok, f, name, pos, tag, mbid),
           NEW r \in FrameRead(Rd("frames", ok, f, name, pos, tag, mbid))
    PROVE  Holding(ready, r)
<1> DEFINE r0 == Rd("frames", ok, f, name, pos, tag, mbid)
           data == Reached(f, pos, 8) + 2
           read == ~Short(f, pos, 8)
           names == NamesRead(f, pos, name)
           sizes == SizesRead(f, pos)
<1>1. r0.s = ok /\ r0.file = f /\ r0.name = name /\ r0.pos = pos /\ r0.tag = tag
  BY RdFields
<1> HIDE DEF r0
<1>2. \/ (~ok \/ pos > tag \/ pos > TagLimit) /\ r = Answer(r0, NoMbid)
      \/ ~(pos > tag) /\ NoName \in names /\ r = NotFound(r0, ~Short(f, pos, 4))
      \/ /\ ~(pos > tag) /\ "UFID" \in names
         /\ \E size \in sizes :
              r \in UfidRead(Passed(r0, "UFID", pos, read), data, size, FrameAt(f, pos))
      \/ /\ ~(pos > tag)
         /\ \E n \in names \ {NoName, "UFID"} : \E size \in sizes :
              r = Passed(r0, n, Sought(data, size), read)
  <2>1. r \in FrameRead(r0)
    BY DEF r0
  <2> QED
    BY <1>1, <2>1, FrameReadIs
<1> HIDE DEF data, read, names, sizes
<1>3. CASE (~ok \/ pos > tag \/ pos > TagLimit) /\ r = Answer(r0, NoMbid)
  <2>1. r = Rd("answer", ok, f, name, pos, tag, NoMbid)
    BY <1>3, RdAnswer DEF r0
  <2>2. Answered(ready, ok, f, NoMbid)
    BY <1>3, LoopEnds
  <2> QED
    BY <2>1, <2>2 DEF Holding
<1>4. CASE ~(pos > tag) /\ NoName \in names /\ r = NotFound(r0, ~Short(f, pos, 4))
  <2>1. r = Rd("answer", ~Short(f, pos, 4), f, name, pos, tag, mbid) /\ mbid = NoMbid
    BY <1>4, RdNotFound DEF r0, InLoop
  <2>2. Answered(ready, ~Short(f, pos, 4), f, NoMbid)
    BY <1>4, PaddingEnds DEF names
  <2> QED
    BY <2>1, <2>2 DEF Holding
<1>5. CASE /\ ~(pos > tag) /\ "UFID" \in names
           /\ \E size \in sizes :
                r \in UfidRead(Passed(r0, "UFID", pos, read), data, size, FrameAt(f, pos))
  <2>1. PICK size \in sizes :
          r \in UfidRead(Passed(r0, "UFID", pos, read), data, size, FrameAt(f, pos))
    BY <1>5
  <2>2. Passed(r0, "UFID", pos, read) = Rd("frames", read, f, "UFID", pos, tag, NoMbid)
    BY RdPassed DEF r0, InLoop
  <2>3. r \in UfidRead(Rd("frames", read, f, "UFID", pos, tag, NoMbid), data, size,
                       FrameAt(f, pos))
    BY <2>1, <2>2
  <2> QED
    BY <1>5, <2>3, UfidHolds DEF names, sizes, read, data
<1>6. CASE /\ ~(pos > tag)
           /\ \E n \in names \ {NoName, "UFID"} : \E size \in sizes :
                r = Passed(r0, n, Sought(data, size), read)
  <2>1. PICK n \in names \ {NoName, "UFID"} :
          \E size \in sizes : r = Passed(r0, n, Sought(data, size), read)
    BY <1>6
  <2>2. PICK size \in sizes : r = Passed(r0, n, Sought(data, size), read)
    BY <2>1
  <2>3. r = Rd("frames", read, f, n, Sought(data, size), tag, mbid)
    BY <2>2, RdPassed DEF r0
  <2>4. InLoop(ready, read, f, n, Sought(data, size), tag, mbid)
    BY <1>6, OtherHolds DEF names, sizes, read, data
  <2> QED
    BY <2>3, <2>4 DEF Holding
<1> QED
  BY <1>2, <1>3, <1>4, <1>5, <1>6

\* A file of the runs is a file with a tag.
LEMMA FilesHaveTags == Files \subseteq TagFiles
<1>1. BoundedSeq(TagFrames, MaxTagFrames) \subseteq Seq(TagFrames)
  <2> SUFFICES ASSUME NEW q \in BoundedSeq(TagFrames, MaxTagFrames)
               PROVE  q \in Seq(TagFrames)
    OBVIOUS
  <2>1. PICK m \in 0 .. MaxTagFrames : q \in [1 .. m -> TagFrames]
    BY Zenon DEF BoundedSeq, SeqOf
  <2>2. m \in Nat
    BY TagAssumption
  <2> QED
    BY <2>1, <2>2
<1>2. Paddings \subseteq Nat /\ Cuts \subseteq Nat
  BY TagAssumption
<1> QED
  BY <1>1, <1>2 DEF Files, TagFiles

Told(plain, ready, r) ==
    [part |-> "mbid", reader |-> r, ready |-> ready, plain |-> plain]

Known(t) ==
    \E plain \in BOOLEAN : \E ready \in BOOLEAN : \E r :
      t = Told(plain, ready, r) /\ (plain => ready) /\ Holding(ready, r)
MbidState == s.part = "mbid" => Known(s)

LEMMA HeldInPhase ==
    ASSUME NEW ready \in BOOLEAN, NEW r, Holding(ready, r)
    PROVE  /\ r.phase = "idle" =>
                \E ok, f, name, pos, tag, mbid :
                  /\ r = Rd("idle", ok, f, name, pos, tag, mbid)
                  /\ ok \in BOOLEAN /\ ok = ready
           /\ r.phase = "frames" =>
                \E ok, f, name, pos, tag, mbid :
                  /\ r = Rd("frames", ok, f, name, pos, tag, mbid)
                  /\ InLoop(ready, ok, f, name, pos, tag, mbid)
           /\ r.phase = "answer" =>
                \E ok, f, name, pos, tag, mbid :
                  /\ r = Rd("answer", ok, f, name, pos, tag, mbid)
                  /\ Answered(ready, ok, f, mbid)
<1>1. \A a, b, c, d, e, g, h : r = Rd(a, b, c, d, e, g, h) => r.phase = a
  BY RdFields
<1>2. "idle" # "frames" /\ "idle" # "answer" /\ "frames" # "answer"
  OBVIOUS
<1> QED
  BY <1>1, <1>2, Zenon DEF Holding

LEMMA ToldFields ==
    ASSUME NEW plain, NEW ready, NEW r
    PROVE  /\ Told(plain, ready, r).part = "mbid" /\ Told(plain, ready, r).reader = r
           /\ Told(plain, ready, r).ready = ready /\ Told(plain, ready, r).plain = plain
  BY DEF Told

LEMMA MbidStateHolds == Spec => [](HasPart(s) /\ MbidState)
<1>1. Init => HasPart(s) /\ MbidState
  <2> SUFFICES ASSUME Init, s.part = "mbid"
               PROVE  Known(s)
    BY InitHasPart DEF MbidState
  <2>1. s \in Reader
    <3>1. s \notin Tracks
      BY DEF Tracks
    <3> QED
      BY <3>1 DEF Init, Hash, Average, FilterOf, Image, Spectrum, Stations
  <2>2. s = Told(TRUE, TRUE, NewReader)
    BY <2>1, Zenon DEF Reader, Told
  <2>3. NewReader = Rd("idle", TRUE, NoMbid, NoName, 0, 0, NoMbid)
    BY DEF NewReader, Rd
  <2>4. Holding(TRUE, NewReader)
    BY <2>3, Zenon DEF Holding
  <2> QED
    BY <2>2, <2>4 DEF Known
<1>2. HasPart(s) /\ MbidState /\ [Next]_s => (HasPart(s) /\ MbidState)'
  <2> SUFFICES ASSUME HasPart(s), MbidState, [Next]_s, s'.part = "mbid"
               PROVE  Known(s')
    BY NextKeepsPart DEF MbidState, Known
  <2>1. s.part = "mbid"
    BY NextKeepsPart
  <2>2. PICK plain \in BOOLEAN : \E ready \in BOOLEAN : \E r :
          s = Told(plain, ready, r) /\ (plain => ready) /\ Holding(ready, r)
    BY <2>1 DEF MbidState, Known
  <2>10. PICK ready \in BOOLEAN : \E r :
          s = Told(plain, ready, r) /\ (plain => ready) /\ Holding(ready, r)
    BY <2>2
  <2>3. PICK r : s = Told(plain, ready, r) /\ (plain => ready) /\ Holding(ready, r)
    BY <2>10
  <2>4. s.reader = r /\ s.ready = ready /\ s.plain = plain
    BY <2>3, ToldFields
  <2>5. \A q : [s EXCEPT !.reader = q] = Told(plain, ready, q)
    BY <2>3 DEF Told
  <2>6. CASE UNCHANGED s
    BY <2>3, <2>6 DEF Known
  <2>7. CASE MbidOpen
    <3>1. PICK f \in Files : \E q \in Opened(s.reader, f) : s' = [s EXCEPT !.reader = q]
      BY <2>7 DEF MbidOpen
    <3>2. PICK q \in Opened(r, f) : s' = [s EXCEPT !.reader = q]
      BY <2>4, <3>1
    <3>3. r.phase = "idle"
      BY <2>4, <2>7 DEF MbidOpen
    <3>4. PICK ok, old, name, pos, tag, mbid :
            /\ r = Rd("idle", ok, old, name, pos, tag, mbid)
            /\ ok \in BOOLEAN /\ ok = ready
      BY <2>3, <3>3, HeldInPhase
    <3>5. q \in Opened(Rd("idle", ok, old, name, pos, tag, mbid), f)
      BY <3>2, <3>4
    <3>6. f \in TagFiles
      BY FilesHaveTags
    <3>7. Holding(ready, q)
      BY <3>4, <3>5, <3>6, OpenedHolds
    <3>8. s' = Told(plain, ready, q)
      BY <2>5, <3>2
    <3> QED
      BY <2>3, <3>7, <3>8 DEF Known
  <2>8. CASE MbidFrame
    <3>1. PICK q \in FrameRead(r) : s' = [s EXCEPT !.reader = q]
      BY <2>4, <2>8 DEF MbidFrame
    <3>2. r.phase = "frames"
      BY <2>4, <2>8 DEF MbidFrame
    <3>3. PICK ok, f, name, pos, tag, mbid :
            /\ r = Rd("frames", ok, f, name, pos, tag, mbid)
            /\ InLoop(ready, ok, f, name, pos, tag, mbid)
      BY <2>3, <3>2, HeldInPhase
    <3>4. q \in FrameRead(Rd("frames", ok, f, name, pos, tag, mbid))
      BY <3>1, <3>3
    <3>5. Holding(ready, q)
      BY <3>3, <3>4, FrameReadHolds
    <3>6. s' = Told(plain, ready, q)
      BY <2>5, <3>1
    <3> QED
      BY <2>3, <3>5, <3>6 DEF Known
  <2>9. CASE MbidNext
    <3>1. r.phase = "answer"
      BY <2>4, <2>9 DEF MbidNext
    <3>2. PICK ok, f, name, pos, tag, mbid :
            /\ r = Rd("answer", ok, f, name, pos, tag, mbid)
            /\ Answered(ready, ok, f, mbid)
      BY <2>3, <3>1, HeldInPhase
    <3>3. r.s = ok /\ r.file = f
      BY <3>2, RdFields
    <3> DEFINE q == [NewReader EXCEPT !.s = ok]
               both == plain /\ Plain(f)
    <3>4. both \in BOOLEAN
      OBVIOUS
    <3>5. s' = [s EXCEPT !.reader = q, !.ready = ok, !.plain = both]
      BY <2>4, <2>9, <3>3, Zenon DEF MbidNext
    <3>6. q = Rd("idle", ok, NoMbid, NoName, 0, 0, NoMbid)
      BY DEF NewReader, Rd
    <3>7. ok \in BOOLEAN /\ (both => ok)
      BY <2>3, <3>2 DEF Answered
    <3> HIDE DEF q, both
    <3>8. Holding(ok, q)
      BY <3>6, <3>7, Zenon DEF Holding
    <3>9. s' = Told(both, ok, q)
      <4>1. s' = [[[s EXCEPT !.reader = q] EXCEPT !.ready = ok] EXCEPT !.plain = both]
        BY <3>5, Zenon
      <4>2. [Told(plain, ready, q) EXCEPT !.ready = ok] = Told(plain, ok, q)
        BY DEF Told
      <4>3. [Told(plain, ok, q) EXCEPT !.plain = both] = Told(both, ok, q)
        BY DEF Told
      <4> QED
        BY <2>5, <4>1, <4>2, <4>3, Zenon
    <3> QED
      BY <3>4, <3>7, <3>8, <3>9 DEF Known
  <2> QED
    BY <2>1, <2>6, <2>7, <2>8, <2>9
       DEF Next, HashUpdate, HashFinal, AverageAdd, AverageClear, AveragePurge, Restart
<1> QED
  BY <1>1, <1>2, PTL DEF Spec

(* getMP3_MBID(): whatever files are read one after the other, with frames  *)
(* of any size, cut or not: what it finds stands in that very file where    *)
(* the file is whole and has no extended header; such files, of version 2.3 *)
(* too, leave s set; and with s set, it finds the first identifier of a     *)
(* readable file of version 2.4.                                            *)
THEOREM MbidOfTheFile == Spec => []MbidIsRight
<1>1. MbidState => MbidIsRight
  <2> SUFFICES ASSUME MbidState, s.part = "mbid"
               PROVE  /\ s.plain => s.ready
                      /\ s.reader.phase = "answer" =>
                           /\ s.ready /\ Readable(s.reader.file)
                                => IsFirstMbid(s.reader.file, s.reader.mbid)
                           /\ OfFile(s.reader.file, s.reader.mbid)
    BY DEF MbidIsRight, MbidIsFound, ReadersStayReady, MbidIsOfTheFile, OfFile
  <2>1. PICK plain \in BOOLEAN : \E ready \in BOOLEAN : \E r :
          s = Told(plain, ready, r) /\ (plain => ready) /\ Holding(ready, r)
    BY DEF MbidState, Known
  <2>2. PICK ready \in BOOLEAN : \E r :
          s = Told(plain, ready, r) /\ (plain => ready) /\ Holding(ready, r)
    BY <2>1
  <2>3. PICK r : s = Told(plain, ready, r) /\ (plain => ready) /\ Holding(ready, r)
    BY <2>2
  <2>4. s.reader = r /\ s.ready = ready /\ s.plain = plain
    BY <2>3, ToldFields
  <2>5. ASSUME r.phase = "answer"
        PROVE  (ready /\ Readable(r.file) => IsFirstMbid(r.file, r.mbid))
                 /\ OfFile(r.file, r.mbid)
    <3>1. PICK ok, f, name, pos, tag, mbid :
            /\ r = Rd("answer", ok, f, name, pos, tag, mbid)
            /\ Answered(ready, ok, f, mbid)
      BY <2>3, <2>5, HeldInPhase
    <3>2. r.file = f /\ r.mbid = mbid
      BY <3>1, RdFields
    <3> QED
      BY <3>1, <3>2 DEF Answered
  <2> QED
    BY <2>3, <2>4, <2>5
<1>2. Spec => [](HasPart(s) /\ MbidState)
  BY MbidStateHolds
<1> QED
  BY <1>1, <1>2, PTL
=============================================================================
