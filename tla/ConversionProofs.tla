-------------------------- MODULE ConversionProofs --------------------------
(* The properties of the pipeline for every document a parser can deliver,   *)
(* whatever its length, its titles, its links and its images are.            *)
(*                                                                           *)
(* A conversion computes a function of its input. ConversionInvariant says   *)
(* what each stage finds, in terms of Split, Extract, RenderConcepts, Put    *)
(* and Run, and that a cancellation or an expired context since the last     *)
(* checkpoint is all there can be. What a conversion that succeeds leaves    *)
(* behind is then a matter of those operators: Published says that the units *)
(* are the document cut in order (CutAt), each with a file of its own        *)
(* (Filed), with no image changed but those whose bytes became a file        *)
(* (Keeps, Shows, Paid), and that the files are the assets, one concept for  *)
(* each unit and, of the index and the log, those that were not removed      *)
(* (Whole). Every property follows from Published.                           *)
EXTENDS Conversion, FiniteSetTheorems, SequenceTheorems, TLAPS

---------------------------------------------------------------------------
(* Numbers *)

\* Of the numbers with some property one is the least.
LEMMA LeastNumber ==
    ASSUME NEW T, T \subseteq Nat, T # {}
    PROVE  \E n \in T : \A m \in T : n <= m
<1>1. PICK n \in T : \A m \in T : <<m, n>> \notin OpToRel(<, Nat)
  BY NatLessThanWellFounded, WFMin
<1>2. \A m \in T : ~(m < n)
  BY <1>1 DEF OpToRel
<1>3. QED
  BY <1>2

---------------------------------------------------------------------------
(* Sequences glued one after another *)

\* What FlattenSeq does with the first n sequences.
Glued(f, s, n) == f = [i \in 1..n |-> IF i = 1 THEN s[i] ELSE f[i - 1] \o s[i]]

\* There is such a function for every sequence.
LEMMA GluedExists == ASSUME NEW s, NEW n \in Nat PROVE \E f : Glued(f, s, n)
<1> DEFINE Unsolved == {m \in Nat : \A f : ~Glued(f, s, m)}
<1> SUFFICES ASSUME Unsolved # {} PROVE FALSE
  OBVIOUS
<1>1. PICK m \in Unsolved : \A k \in Unsolved : m <= k
  BY LeastNumber, Unsolved \subseteq Nat
<1>2. CASE m = 0
  <2> DEFINE f == [i \in 1..0 |-> <<>>]
  <2>1. Glued(f, s, 0)
    BY 1..0 = {} DEF Glued
  <2>2. QED
    BY <1>1, <1>2, <2>1
<1>3. CASE m > 0
  <2>1. m \in Nat /\ m - 1 \in Nat /\ m - 1 \notin Unsolved
    BY <1>1, <1>3
  <2>2. PICK g : Glued(g, s, m - 1)
    BY <2>1
  <2> DEFINE f == [i \in 1..m |-> IF i = m THEN (IF i = 1 THEN s[i] ELSE g[i - 1] \o s[i]) ELSE g[i]]
  <2>3. ASSUME NEW i \in 1..m PROVE f[i] = IF i = 1 THEN s[i] ELSE f[i - 1] \o s[i]
    <3>1. CASE i = m
      BY <2>1, <3>1
    <3>2. CASE i # m
      <4>1. i \in 1..(m - 1) /\ i - 1 # m
        BY <2>1, <3>2
      <4>2. g[i] = IF i = 1 THEN s[i] ELSE g[i - 1] \o s[i]
        BY <2>2, <4>1 DEF Glued
      <4>3. i # 1 => i - 1 \in 1..m
        BY <2>1, <4>1
      <4>4. QED
        BY <3>2, <4>1, <4>2, <4>3
    <3>3. QED
      BY <3>1, <3>2
  <2>4. Glued(f, s, m)
    BY <2>3 DEF Glued
  <2>5. QED
    BY <1>1, <2>4
<1>4. QED
  BY <1>1, <1>2, <1>3

\* FlattenSeq adds one sequence after another.
LEMMA FlattenIs ==
    ASSUME NEW s, Len(s) \in Nat \ {0}
    PROVE  \E f : /\ f[1] = s[1]
                  /\ \A i \in 2..Len(s) : f[i] = f[i - 1] \o s[i]
                  /\ FlattenSeq(s) = f[Len(s)]
<1>1. FlattenSeq(s) = (CHOOSE f : Glued(f, s, Len(s)))[Len(s)]
  BY Zenon DEF FlattenSeq, Glued
<1>2. \E f : Glued(f, s, Len(s))
  BY GluedExists
<1>3. PICK f : Glued(f, s, Len(s)) /\ FlattenSeq(s) = f[Len(s)]
  BY <1>1, <1>2, Zenon
<1>4. ASSUME NEW i \in 1..Len(s) PROVE f[i] = IF i = 1 THEN s[i] ELSE f[i - 1] \o s[i]
  BY <1>3, Zenon DEF Glued
<1>5. 1 \in 1..Len(s) /\ \A i \in 2..Len(s) : i \in 1..Len(s) /\ i # 1
  OBVIOUS
<1>6. QED
  BY <1>3, <1>4, <1>5, Zenon

\* Nothing, one after another, is nothing.
LEMMA FlattenEmpty == ASSUME NEW s, Len(s) = 0 PROVE FlattenSeq(s) = s
  BY DEF FlattenSeq

\* What it holds.
LEMMA FlattenHolds ==
    ASSUME NEW T, NEW s \in Seq(Seq(T))
    PROVE  /\ FlattenSeq(s) \in Seq(T)
           /\ \A x : x \in ToSet(FlattenSeq(s)) <=> \E i \in DOMAIN s : x \in ToSet(s[i])
<1>1. CASE Len(s) = 0
  <2>1. s = <<>> /\ FlattenSeq(s) = <<>>
    BY <1>1, FlattenEmpty
  <2>2. ToSet(<<>>) = {} /\ DOMAIN s = {}
    BY <2>1 DEF ToSet
  <2>3. <<>> \in Seq(T)
    OBVIOUS
  <2>4. QED
    BY <2>1, <2>2, <2>3, Zenon
<1>2. CASE Len(s) # 0
  <2>1. Len(s) \in Nat \ {0}
    BY <1>2
  <2>2. PICK f : /\ f[1] = s[1]
                 /\ \A i \in 2..Len(s) : f[i] = f[i - 1] \o s[i]
                 /\ FlattenSeq(s) = f[Len(s)]
    BY <2>1, FlattenIs
  <2> DEFINE Good(i) == f[i] \in Seq(T) /\ \A x : x \in ToSet(f[i]) <=> \E j \in 1..i : x \in ToSet(s[j])
             Bad == {i \in 1..Len(s) : ~Good(i)}
  <2> HIDE DEF Good
  <2>3. \A i \in 1..Len(s) : s[i] \in Seq(T)
    OBVIOUS
  <2>4. ASSUME NEW i \in Bad, \A j \in Bad : i <= j PROVE FALSE
    <3>1. CASE i = 1
      <4>1. f[1] = s[1] /\ s[1] \in Seq(T) /\ 1..1 = {1}
        BY <2>1, <2>2, <2>3
      <4>2. Good(1)
        BY <4>1, Zenon DEF Good
      <4>3. QED
        BY <3>1, <4>2
    <3>2. CASE i # 1
      <4>1. i - 1 \in 1..Len(s) /\ i \in 2..Len(s)
        BY <2>1, <3>2
      <4>2. Good(i - 1)
        BY <2>4, <4>1
      <4>3. f[i] = f[i - 1] \o s[i]
        BY <2>2, <4>1
      <4>4. PICK a, b : a = f[i - 1] /\ b = s[i] /\ a \in Seq(T) /\ b \in Seq(T)
        BY <2>3, <4>2 DEF Good
      <4>5. ToSet(a \o b) = ToSet(a) \cup ToSet(b) /\ a \o b \in Seq(T)
        <5>1. Range(a \o b) = Range(a) \cup Range(b)
          BY <4>4, RangeConcatenation
        <5>2. QED
          BY <4>4, <5>1, ConcatProperties DEF Range, ToSet
      <4>6. ASSUME NEW x
            PROVE  (\E j \in 1..i : x \in ToSet(s[j]))
                     <=> (\E j \in 1..(i - 1) : x \in ToSet(s[j])) \/ x \in ToSet(s[i])
        <5>1. 1..i = 1..(i - 1) \cup {i}
          BY <4>1
        <5>2. QED
          BY <5>1, Zenon
      <4>7. f[i] \in Seq(T) /\ ToSet(f[i]) = ToSet(f[i - 1]) \cup ToSet(s[i])
        BY <4>3, <4>4, <4>5, Zenon
      <4>8. Good(i)
        BY <4>2, <4>6, <4>7, Zenon DEF Good
      <4>9. QED
        BY <4>8
    <3>3. QED
      BY <3>1, <3>2
  <2>5. Bad = {}
    BY <2>4, LeastNumber, Bad \subseteq Nat
  <2>6. Good(Len(s))
    BY <2>1, <2>5
  <2>7. DOMAIN s = 1..Len(s)
    OBVIOUS
  <2>8. QED
    BY <2>2, <2>6, <2>7 DEF Good
<1>3. QED
  BY <1>1, <1>2

\* Sequences of one element each.
LEMMA FlattenSingles ==
    ASSUME NEW T, NEW l \in Seq(T), NEW s, s = [i \in 1..Len(l) |-> <<l[i]>>]
    PROVE  FlattenSeq(s) = l
<1>1. Len(l) \in Nat /\ Len(s) = Len(l) /\ \A i \in 1..Len(l) : l[i] \in T /\ s[i] = <<l[i]>>
  OBVIOUS
<1>2. CASE Len(l) = 0
  BY <1>1, <1>2, FlattenEmpty
<1>3. CASE Len(l) # 0
  <2>1. PICK f : /\ f[1] = s[1]
                 /\ \A i \in 2..Len(l) : f[i] = f[i - 1] \o s[i]
                 /\ FlattenSeq(s) = f[Len(l)]
    <3>1. Len(s) \in Nat \ {0}
      BY <1>1, <1>3
    <3>2. QED
      BY <1>1, <3>1, FlattenIs
  <2> DEFINE Bad == {i \in 1..Len(l) : f[i] # SubSeq(l, 1, i)}
  <2>2. ASSUME NEW i \in Bad, \A j \in Bad : i <= j PROVE FALSE
    <3>1. CASE i = 1
      <4>1. f[1] = <<l[1]>> /\ 1 \in 1..Len(l)
        BY <1>1, <1>3, <2>1
      <4>2. SubSeq(l, 1, 1) = SubSeq(l, 1, 0) \o <<l[1]>>
        BY <4>1, SubSeqRecursiveSecond, 1 \in 1..Len(l), 1 - 1 = 0
      <4>3. SubSeq(l, 1, 0) = <<>> /\ <<l[1]>> \in Seq(T)
        BY <1>1, <4>1, SubSeqEmpty, 1 \in Int, 0 \in Int, 0 < 1
      <4>4. <<>> \o <<l[1]>> = <<l[1]>>
        BY <4>3, ConcatEmptySeq
      <4>5. QED
        BY <3>1, <4>1, <4>2, <4>3, <4>4
    <3>2. CASE i # 1
      <4>1. i - 1 \in 1..Len(l) /\ i \in 2..Len(l) /\ 1 \in 1..Len(l) /\ i \in 1..Len(l)
        BY <1>1, <3>2
      <4>2. f[i - 1] = SubSeq(l, 1, i - 1)
        BY <2>2, <4>1
      <4>3. f[i] = SubSeq(l, 1, i - 1) \o <<l[i]>>
        BY <1>1, <2>1, <4>1, <4>2
      <4>4. SubSeq(l, 1, i) = SubSeq(l, 1, i - 1) \o <<l[i]>>
        BY <4>1, SubSeqRecursiveSecond
      <4>5. QED
        BY <4>3, <4>4
    <3>3. QED
      BY <3>1, <3>2
  <2>3. Bad = {}
    BY <2>2, LeastNumber, Bad \subseteq Nat
  <2>4. f[Len(l)] = SubSeq(l, 1, Len(l))
    BY <1>1, <1>3, <2>3
  <2>5. QED
    BY <2>1, <2>4, SubSeqFull
<1>4. QED
  BY <1>2, <1>3

\* The pieces of a sequence that was cut.
LEMMA FlattenCuts ==
    ASSUME NEW T, NEW b \in Seq(T), NEW n \in Nat \ {0}, NEW c \in [1..(n + 1) -> 1..(Len(b) + 1)],
           \A k \in 1..n : c[k] <= c[k + 1], c[n + 1] = Len(b) + 1,
           NEW s, s = [k \in 1..n |-> SubSeq(b, c[k], c[k + 1] - 1)]
    PROVE  FlattenSeq(s) = SubSeq(b, c[1], Len(b))
<1>1. Len(s) = n /\ Len(s) \in Nat \ {0} /\ Len(b) \in Nat
  OBVIOUS
<1>2. PICK f : /\ f[1] = s[1]
               /\ \A i \in 2..n : f[i] = f[i - 1] \o s[i]
               /\ FlattenSeq(s) = f[n]
  BY <1>1, FlattenIs
<1> DEFINE Good(i) == f[i] = SubSeq(b, c[1], c[i + 1] - 1) /\ c[1] <= c[i + 1]
           Bad == {i \in 1..n : ~Good(i)}
<1> HIDE DEF Good
<1>3. \A k \in 1..n : s[k] = SubSeq(b, c[k], c[k + 1] - 1)
  OBVIOUS
<1>4. \A k \in 1..(n + 1) : c[k] \in 1..(Len(b) + 1)
  OBVIOUS
<1>5. ASSUME NEW i \in Bad, \A j \in Bad : i <= j PROVE FALSE
  <2>1. CASE i = 1
    <3>1. 1 \in 1..n
      OBVIOUS
    <3>2. s[1] = SubSeq(b, c[1], c[1 + 1] - 1) /\ c[1] <= c[1 + 1]
      BY <1>3, <3>1
    <3>3. Good(1)
      BY <1>2, <3>2, Zenon DEF Good
    <3>4. QED
      BY <1>5, <2>1, <3>3
  <2>2. CASE i # 1
    <3>1. i - 1 \in 1..n /\ i \in 2..n /\ i \in 1..(n + 1) /\ i + 1 \in 1..(n + 1) /\ 1 \in 1..(n + 1) /\ i \in 1..n
      BY <2>2
    <3>2. f[i - 1] = SubSeq(b, c[1], c[i] - 1) /\ c[1] <= c[i]
      <4>1. Good(i - 1)
        BY <1>5, <3>1
      <4>2. i - 1 + 1 = i
        BY <3>1
      <4>3. QED
        BY <4>1, <4>2 DEF Good
    <3>3. PICK u, v, w : /\ u = c[1] /\ v = c[i] /\ w = c[i + 1]
                         /\ u \in 1..(Len(b) + 1) /\ v \in 1..(Len(b) + 1) /\ w \in 1..(Len(b) + 1)
      BY <1>4, <3>1
    <3>4. u <= v /\ v <= w
      BY <3>1, <3>2, <3>3
    <3>5. f[i] = SubSeq(b, u, v - 1) \o SubSeq(b, v, w - 1)
      BY <1>2, <1>3, <3>1, <3>2, <3>3
    <3>6. SubSeq(b, u, v - 1) \o SubSeq(b, v, w - 1) = SubSeq(b, u, w - 1)
      <4>1. v - 1 \in (u - 1)..Len(b) /\ w - 1 \in (v - 1)..Len(b) /\ v - 1 + 1 = v
        <5>1. PICK q \in Nat : q = Len(b)
          BY <1>1
        <5>2. u \in 1..(q + 1) /\ v \in 1..(q + 1) /\ w \in 1..(q + 1)
          BY <3>3, <5>1
        <5>3. v - 1 \in (u - 1)..q /\ w - 1 \in (v - 1)..q /\ v - 1 + 1 = v
          BY ONLY <3>4, <5>2, q \in Nat
        <5>4. QED
          BY <5>1, <5>3
      <4>2. SubSeq(b, u, v - 1) \o SubSeq(b, (v - 1) + 1, w - 1) = SubSeq(b, u, w - 1)
        BY <3>3, <4>1, ConcatAdjacentSubSeq
      <4>3. QED
        BY <4>1, <4>2
    <3>7. Good(i)
      <4>1. u <= w
        <5>1. u \in Int /\ v \in Int /\ w \in Int
          BY <1>1, <3>3
        <5>2. QED
          BY ONLY <3>4, <5>1
      <4>2. QED
        BY <3>3, <3>5, <3>6, <4>1 DEF Good
    <3>8. QED
      BY <3>7
  <2>3. QED
    BY <2>1, <2>2
<1>6. Bad = {}
  BY <1>5, LeastNumber, Bad \subseteq Nat
<1>7. f[n] = SubSeq(b, c[1], c[n + 1] - 1)
  BY <1>6, n \in 1..n DEF Good
<1>8. c[n + 1] - 1 = Len(b)
  BY <1>1
<1>9. QED
  BY <1>1, <1>2, <1>7, <1>8

---------------------------------------------------------------------------
(* Numbers in order *)

Rising(a, n) == \A i, j \in 1..n : i < j => a[i] < a[j]

\* The elements of a rising sequence below one of them are the ones before it.
LEMMA RisingBelow ==
    ASSUME NEW n \in Nat, NEW a \in [1..n -> Nat], Rising(a, n), NEW i \in 1..n
    PROVE  LET S == {a[j] : j \in 1..n}
           IN  Cardinality({m \in S : m < a[i]}) = i - 1
<1> DEFINE S == {a[j] : j \in 1..n}
           B == {m \in S : m < a[i]}
           f == [j \in 1..(i - 1) |-> a[j]]
<1>1. \A j \in 1..n : a[j] < a[i] <=> j < i
  BY DEF Rising
<1>2. f \in Injection(1..(i - 1), B)
  <2>1. \A j \in 1..(i - 1) : j \in 1..n /\ a[j] \in B
    BY <1>1
  <2>2. ASSUME NEW j \in 1..(i - 1), NEW k \in 1..(i - 1), f[j] = f[k] PROVE j = k
    <3>1. a[j] = a[k] /\ a[j] \in Nat /\ a[k] \in Nat /\ j \in 1..n /\ k \in 1..n
      BY <2>1, <2>2
    <3>2. ~(j < k) /\ ~(k < j)
      BY <3>1 DEF Rising
    <3>3. QED
      BY <3>1, <3>2
  <2>3. QED
    BY <2>1, <2>2 DEF Injection, IsInjective
<1>3. f \in Surjection(1..(i - 1), B)
  <2>1. \A m \in B : \E j \in 1..(i - 1) : a[j] = m
    BY <1>1
  <2>2. QED
    BY <1>2, <2>1 DEF Surjection, Injection
<1>4. QED
  <2>1. i - 1 \in Nat /\ ExistsBijection(1..(i - 1), B)
    <3>1. f \in Bijection(1..(i - 1), B)
      BY <1>2, <1>3 DEF Bijection
    <3> HIDE DEF f, B
    <3>2. QED
      BY <3>1 DEF ExistsBijection
  <2>2. QED
    BY <2>1, FS_CountingElements

\* A rising sequence is what Ascending makes of its elements.
LEMMA AscendingOf ==
    ASSUME NEW n \in Nat, NEW a \in [1..n -> Nat], Rising(a, n)
    PROVE  Ascending({a[j] : j \in 1..n}) = a
<1> DEFINE S == {a[j] : j \in 1..n}
<1>1. Cardinality(S) = n
  <2>1. a \in Injection(1..n, S)
    BY DEF Injection, IsInjective, Rising
  <2>2. a \in Surjection(1..n, S)
    BY DEF Surjection
  <2>3. QED
    BY <2>1, <2>2, FS_CountingElements DEF ExistsBijection, Bijection
<1>2. ASSUME NEW i \in 1..n PROVE (CHOOSE x \in S : Cardinality({m \in S : m < x}) = i - 1) = a[i]
  <2>1. a[i] \in S /\ Cardinality({m \in S : m < a[i]}) = i - 1
    BY RisingBelow
  <2>2. ASSUME NEW x \in S, Cardinality({m \in S : m < x}) = i - 1 PROVE x = a[i]
    <3>1. PICK j \in 1..n : x = a[j]
      OBVIOUS
    <3>2. Cardinality({m \in S : m < a[j]}) = j - 1
      BY RisingBelow
    <3>3. QED
      BY <2>2, <3>1, <3>2
  <2> HIDE DEF S
  <2>3. QED
    BY <2>1, <2>2
<1> HIDE DEF S
<1>3. Ascending(S) = [i \in 1..n |-> CHOOSE x \in S : Cardinality({m \in S : m < x}) = i - 1]
  BY <1>1 DEF Ascending
<1>4. Ascending(S) = [i \in 1..n |-> a[i]]
  BY <1>2, <1>3
<1>5. QED
  BY <1>4 DEF S

\* And it makes one of any finite set of numbers.
LEMMA AscendingIs ==
    ASSUME NEW S \in SUBSET Nat, IsFiniteSet(S)
    PROVE  /\ Cardinality(S) \in Nat
           /\ Ascending(S) \in [1..Cardinality(S) -> S]
           /\ Rising(Ascending(S), Cardinality(S))
           /\ \A x \in S : \E i \in 1..Cardinality(S) : Ascending(S)[i] = x
<1> DEFINE n == Cardinality(S)
           Below(x) == {m \in S : m < x}
           r == [x \in S |-> Cardinality(Below(x)) + 1]
<1>1. n \in Nat
  BY FS_CardinalityType
<1>2. ASSUME NEW x \in S PROVE /\ IsFiniteSet(Below(x))
                               /\ Cardinality(Below(x)) \in Nat /\ Cardinality(Below(x)) < n
  <2>1. Below(x) \in SUBSET S /\ Below(x) # S
    OBVIOUS
  <2>2. QED
    BY <1>1, <2>1, FS_Subset, FS_CardinalityType
<1>3. ASSUME NEW x \in S, NEW y \in S, x < y PROVE Cardinality(Below(x)) < Cardinality(Below(y))
  <2>1. Below(x) \in SUBSET Below(y) /\ Below(x) # Below(y)
    <3>1. x \in Below(y) /\ x \notin Below(x)
      BY <1>3
    <3>2. \A m \in Below(x) : m \in Below(y)
      BY <1>3
    <3>3. QED
      BY <3>1, <3>2
  <2> HIDE DEF Below
  <2>2. QED
    BY <1>2, <2>1, FS_Subset
<1> HIDE DEF Below
<1>4. \A x \in S : r[x] \in 1..n /\ r[x] - 1 = Cardinality(Below(x))
  BY <1>1, <1>2
<1>5. ASSUME NEW x \in S, NEW y \in S, x < y PROVE r[x] < r[y]
  BY <1>2, <1>3, <1>5
<1>6. \A i \in 1..n, x \in S : Cardinality(Below(x)) = i - 1 <=> r[x] = i
  BY <1>1, <1>2
<1>7. DOMAIN r = S
  OBVIOUS
<1> HIDE DEF r, n
<1>8. ASSUME NEW x \in S, NEW y \in S, r[x] = r[y] PROVE x = y
  <2>1. x \in Nat /\ y \in Nat /\ r[x] \in Nat /\ ~(r[x] < r[y]) /\ ~(r[y] < r[x])
    BY <1>1, <1>4, <1>8
  <2>2. ~(x < y) /\ ~(y < x)
    BY <1>5, <2>1
  <2>3. QED
    BY <2>1, <2>2
<1>9. r \in Injection(S, 1..n)
  <2>1. r \in [S -> 1..n]
    BY <1>4, <1>7 DEF r
  <2>2. QED
    BY <1>8, <2>1 DEF Injection, IsInjective
<1>10. r \in Surjection(S, 1..n)
  <2>1. IsFiniteSet(1..n) /\ Cardinality(1..n) = n
    BY <1>1, FS_Interval
  <2>2. n = Cardinality(S)
    BY DEF n
  <2>3. QED
    BY <1>9, <2>1, <2>2, FS_Injection
<1>11. \A i \in 1..n : \E x \in S : r[x] = i
  BY <1>10 DEF Surjection
<1> DEFINE a == Ascending(S)
<1>12. a = [i \in 1..n |-> CHOOSE x \in S : Cardinality(Below(x)) = i - 1]
  BY DEF Ascending, Below, n
<1>13. ASSUME NEW i \in 1..n PROVE a[i] \in S /\ r[a[i]] = i
  <2>1. a[i] = CHOOSE x \in S : Cardinality(Below(x)) = i - 1
    BY <1>12
  <2>2. PICK x \in S : Cardinality(Below(x)) = i - 1
    BY <1>6, <1>11
  <2>3. a[i] \in S /\ Cardinality(Below(a[i])) = i - 1
    BY <2>1, <2>2
  <2>4. QED
    BY <1>6, <2>3
<1>14. DOMAIN a = 1..n
  BY <1>12
<1> HIDE DEF a
<1>15. a \in [1..n -> S]
  <2>1. a = [i \in 1..n |-> a[i]]
    BY <1>12
  <2>2. QED
    BY <1>13, <2>1
<1>16. ASSUME NEW i \in 1..n, NEW j \in 1..n, i < j PROVE a[i] < a[j]
  <2>1. PICK x \in S, y \in S : x = a[i] /\ y = a[j]
    BY <1>13
  <2>2. x \in Nat /\ y \in Nat /\ r[x] = i /\ r[y] = j /\ i \in Nat /\ j \in Nat
    BY <1>1, <1>13, <2>1
  <2>3. ~(y < x) /\ x # y
    BY <1>5, <1>16, <2>2
  <2>4. x < y
    BY <2>2, <2>3
  <2>5. QED
    BY <2>1, <2>4
<1>17. ASSUME NEW x \in S PROVE \E i \in 1..n : a[i] = x
  <2>1. r[x] \in 1..n
    BY <1>4
  <2>2. a[r[x]] \in S /\ r[a[r[x]]] = r[x]
    BY <1>13, <2>1
  <2>3. a[r[x]] = x
    BY <1>8, <2>2
  <2>4. QED
    BY <2>1, <2>3
<1>18. QED
  BY <1>1, <1>15, <1>16, <1>17 DEF a, n, Rising

---------------------------------------------------------------------------
(* Sums *)

\* What SumFunctionOnSet does with the subsets of a set.
Adds(sum, f, S) ==
    sum = [T \in SUBSET S |->
              IF T = {} THEN 0 ELSE LET x == CHOOSE y \in T : TRUE IN f[x] + sum[T \ {x}]]

\* Of some finite sets one is the smallest.
LEMMA SmallestSet ==
    ASSUME NEW S, IsFiniteSet(S), NEW F \in SUBSET SUBSET S, F # {}
    PROVE  \E T \in F : \A U \in F : U \subseteq T => U = T
<1>1. IsWellFoundedOn(StrictSubsetOrdering(S), FiniteSubsetsOf(S))
  BY FS_StrictSubsetOrderingWellFounded
<1>2. FiniteSubsetsOf(S) = SUBSET S
  BY FS_FiniteSubsetsOfFinite
<1>3. PICK T \in F : \A U \in F : <<U, T>> \notin StrictSubsetOrdering(S)
  BY <1>1, <1>2, WFMin
<1>4. ASSUME NEW U \in F, U \subseteq T PROVE U = T
  <2>1. <<U, T>> \notin StrictSubsetOrdering(S) /\ U \in SUBSET S /\ T \in SUBSET S
    BY <1>3
  <2>2. QED
    BY <1>4, <2>1 DEF StrictSubsetOrdering
<1>5. QED
  BY <1>4

\* Subsets of up to n elements.
Upto(n, S) == {T \in SUBSET S : Cardinality(T) <= n}
AddsUpto(sum, f, S, n) ==
    sum = [T \in Upto(n, S) |->
              IF T = {} THEN 0 ELSE LET x == CHOOSE y \in T : TRUE IN f[x] + sum[T \ {x}]]

\* There is such a function for the subsets of every size.
LEMMA AddsUptoExists ==
    ASSUME NEW f, NEW S, IsFiniteSet(S), NEW n \in Nat
    PROVE  \E sum : AddsUpto(sum, f, S, n)
<1> DEFINE Unsolved == {m \in Nat : \A sum : ~AddsUpto(sum, f, S, m)}
<1> SUFFICES ASSUME Unsolved # {} PROVE FALSE
  OBVIOUS
<1>1. PICK m \in Unsolved : \A k \in Unsolved : m <= k
  BY LeastNumber, Unsolved \subseteq Nat
<1>2. \A T \in SUBSET S : Cardinality(T) \in Nat /\ (Cardinality(T) = 0 <=> T = {}) /\ IsFiniteSet(T)
  BY FS_Subset, FS_CardinalityType, FS_EmptySet
<1>3. CASE m = 0
  <2> DEFINE g == [T \in Upto(0, S) |-> 0]
  <2>1. \A T \in Upto(0, S) : T = {}
    BY <1>2 DEF Upto
  <2>2. AddsUpto(g, f, S, 0)
    BY <2>1 DEF AddsUpto
  <2>3. QED
    BY <1>1, <1>3, <2>2
<1>4. CASE m > 0
  <2>1. m \in Nat /\ m - 1 \in Nat /\ m - 1 \notin Unsolved
    BY <1>1, <1>4
  <2>2. PICK g : AddsUpto(g, f, S, m - 1)
    BY <2>1
  <2> DEFINE Next(h, T) == IF T = {} THEN 0 ELSE LET x == CHOOSE y \in T : TRUE IN f[x] + h[T \ {x}]
             h == [T \in Upto(m, S) |-> Next(g, T)]
  <2>3. ASSUME NEW T \in Upto(m - 1, S) PROVE g[T] = Next(g, T)
    BY <2>2 DEF AddsUpto
  <2>4. ASSUME NEW T \in Upto(m, S), T # {}, NEW x, x = CHOOSE y \in T : TRUE
        PROVE  T \ {x} \in Upto(m - 1, S) /\ T \ {x} \in Upto(m, S)
    <3>1. x \in T /\ T \in SUBSET S /\ Cardinality(T) <= m /\ IsFiniteSet(T) /\ Cardinality(T) \in Nat
      BY <1>2, <2>4 DEF Upto
    <3>2. Cardinality(T \ {x}) = Cardinality(T) - 1
      BY <3>1, FS_RemoveElement
    <3>3. QED
      BY <2>1, <3>1, <3>2 DEF Upto
  <2>5. ASSUME NEW T \in Upto(m, S) PROVE h[T] = Next(h, T)
    <3>1. h[T] = Next(g, T)
      OBVIOUS
    <3>2. CASE T = {}
      BY <3>1, <3>2
    <3>3. CASE T # {}
      <4>1. PICK x : x = CHOOSE y \in T : TRUE
        OBVIOUS
      <4>2. T \ {x} \in Upto(m - 1, S) /\ T \ {x} \in Upto(m, S)
        BY <2>4, <3>3, <4>1
      <4>3. h[T \ {x}] = g[T \ {x}]
        BY <2>3, <4>2
      <4> HIDE DEF h
      <4>4. QED
        BY <3>1, <3>3, <4>1, <4>3
    <3>4. QED
      BY <3>2, <3>3
  <2>6. AddsUpto(h, f, S, m)
    <3>1. h = [T \in Upto(m, S) |-> h[T]]
      OBVIOUS
    <3> HIDE DEF h
    <3>2. h = [T \in Upto(m, S) |-> Next(h, T)]
      BY <2>5, <3>1
    <3>3. QED
      BY <3>2 DEF AddsUpto
  <2>7. QED
    BY <1>1, <2>6
<1>5. QED
  BY <1>1, <1>3, <1>4

\* What SumFunctionOnSet folds over a finite set is such a sum.
LEMMA SumIs ==
    ASSUME NEW f, NEW S, IsFiniteSet(S)
    PROVE  \E sum : Adds(sum, f, S) /\ SumFunctionOnSet(f, S) = sum[S]
<1>1. SumFunctionOnSet(f, S) = (CHOOSE sum : Adds(sum, f, S))[S]
  BY Zenon DEF SumFunctionOnSet, FoldFunctionOnSet, MapThenFoldSet, Adds
<1>2. \E sum : Adds(sum, f, S)
  <2>1. Cardinality(S) \in Nat /\ Upto(Cardinality(S), S) = SUBSET S
    <3>1. \A T \in SUBSET S : Cardinality(T) <= Cardinality(S)
      BY FS_Subset
    <3>2. QED
      BY <3>1, FS_CardinalityType DEF Upto
  <2>2. PICK sum : AddsUpto(sum, f, S, Cardinality(S))
    BY <2>1, AddsUptoExists
  <2>3. QED
    BY <2>1, <2>2, Zenon DEF Adds, AddsUpto
<1>3. QED
  BY <1>1, <1>2, Zenon

\* Sums of natural numbers over the same elements are the same number.
LEMMA AddsSame ==
    ASSUME NEW f, NEW g, NEW S, IsFiniteSet(S), NEW T, IsFiniteSet(T),
           NEW a, Adds(a, f, S), NEW b, Adds(b, g, T),
           NEW U, U \subseteq S, U \subseteq T, \A x \in U : f[x] = g[x] /\ f[x] \in Nat
    PROVE  a[U] = b[U] /\ a[U] \in Nat
<1> DEFINE Bad == {V \in SUBSET U : ~(a[V] = b[V] /\ a[V] \in Nat)}
<1> SUFFICES ASSUME Bad # {} PROVE FALSE
  OBVIOUS
<1>1. PICK V \in Bad : \A W \in Bad : W \subseteq V => W = V
  <2>1. Bad \in SUBSET SUBSET U /\ IsFiniteSet(U)
    BY FS_Subset
  <2> HIDE DEF Bad
  <2>2. QED
    BY <2>1, SmallestSet
<1>2. V \in SUBSET S /\ V \in SUBSET T
  OBVIOUS
<1>3. /\ a[V] = IF V = {} THEN 0 ELSE LET x == CHOOSE y \in V : TRUE IN f[x] + a[V \ {x}]
      /\ b[V] = IF V = {} THEN 0 ELSE LET x == CHOOSE y \in V : TRUE IN g[x] + b[V \ {x}]
  BY <1>2 DEF Adds
<1>4. CASE V = {}
  BY <1>1, <1>3, <1>4
<1>5. CASE V # {}
  <2>1. PICK x : x = CHOOSE y \in V : TRUE
    OBVIOUS
  <2>2. x \in V /\ x \in U /\ V \ {x} \in SUBSET U /\ V \ {x} # V
    BY <1>5, <2>1
  <2>3. V \ {x} \notin Bad
    BY <1>1, <2>2
  <2>4. a[V \ {x}] = b[V \ {x}] /\ a[V \ {x}] \in Nat
    BY <2>2, <2>3
  <2>5. f[x] = g[x] /\ f[x] \in Nat
    BY <2>2
  <2>6. a[V] = f[x] + a[V \ {x}] /\ b[V] = g[x] + b[V \ {x}]
    BY <1>3, <1>5, <2>1
  <2>7. QED
    BY <1>1, <2>4, <2>5, <2>6
<1>6. QED
  BY <1>4, <1>5

\* Whatever element is taken first.
LEMMA AddsAny ==
    ASSUME NEW f, NEW S, IsFiniteSet(S), NEW a, Adds(a, f, S), \A x \in S : f[x] \in Nat,
           NEW V \in SUBSET S, NEW x \in V
    PROVE  a[V] = f[x] + a[V \ {x}]
<1> DEFINE Bad == {W \in SUBSET S : \E y \in W : a[W] # f[y] + a[W \ {y}]}
<1> SUFFICES ASSUME Bad # {} PROVE FALSE
  OBVIOUS
<1>1. PICK W \in Bad : \A X \in Bad : X \subseteq W => X = W
  <2>1. Bad \in SUBSET SUBSET S
    OBVIOUS
  <2> HIDE DEF Bad
  <2>2. QED
    BY <2>1, SmallestSet
<1>2. PICK y \in W : a[W] # f[y] + a[W \ {y}]
  BY <1>1
<1>3. PICK z : z = CHOOSE u \in W : TRUE
  OBVIOUS
<1>4. z \in W /\ a[W] = f[z] + a[W \ {z}] /\ W \in SUBSET S
  BY <1>2, <1>3 DEF Adds
<1>5. y # z
  BY <1>2, <1>4
<1>6. W \ {z} \notin Bad /\ W \ {y} \notin Bad /\ W \ {z} \in SUBSET S /\ W \ {y} \in SUBSET S
  BY <1>1, <1>2, <1>4
<1>7. a[W \ {z}] = f[y] + a[(W \ {z}) \ {y}]
  BY <1>2, <1>5, <1>6
<1>8. a[W \ {y}] = f[z] + a[(W \ {y}) \ {z}]
  BY <1>4, <1>5, <1>6
<1>9. (W \ {y}) \ {z} = (W \ {z}) \ {y}
  OBVIOUS
<1>10. a[(W \ {z}) \ {y}] \in Nat
  <2>1. (W \ {z}) \ {y} \subseteq S
    BY <1>4
  <2>2. QED
    BY <2>1, AddsSame
<1>11. f[y] \in Nat /\ f[z] \in Nat
  BY <1>2, <1>4
<1>12. PICK p \in Nat, u \in Nat, v \in Nat : p = a[(W \ {z}) \ {y}] /\ u = f[y] /\ v = f[z]
  BY <1>10, <1>11
<1>13. a[W] = v + (u + p) /\ a[W \ {y}] = v + p
  BY ONLY <1>4, <1>7, <1>8, <1>9, <1>12, Zenon
<1>14. u + (v + p) = v + (u + p)
  OBVIOUS
<1>15. QED
  BY ONLY <1>2, <1>12, <1>13, <1>14, Zenon

\* The sum over nothing.
LEMMA SumEmpty == ASSUME NEW f PROVE SumFunctionOnSet(f, {}) = 0
<1>1. PICK sum : Adds(sum, f, {}) /\ SumFunctionOnSet(f, {}) = sum[{}]
  BY FS_EmptySet, SumIs
<1>2. QED
  BY <1>1 DEF Adds

\* A sum depends on the values of the function over its set only, and is a number.
LEMMA SumSame ==
    ASSUME NEW f, NEW g, NEW S, IsFiniteSet(S), \A x \in S : f[x] = g[x] /\ f[x] \in Nat
    PROVE  SumFunctionOnSet(f, S) = SumFunctionOnSet(g, S) /\ SumFunctionOnSet(f, S) \in Nat
<1>1. PICK a : Adds(a, f, S) /\ SumFunctionOnSet(f, S) = a[S]
  BY SumIs
<1>2. PICK b : Adds(b, g, S) /\ SumFunctionOnSet(g, S) = b[S]
  BY SumIs
<1>3. QED
  BY <1>1, <1>2, AddsSame

\* One element more.
LEMMA SumMore ==
    ASSUME NEW f, NEW S, IsFiniteSet(S), NEW x \in S, \A y \in S : f[y] \in Nat
    PROVE  SumFunctionOnSet(f, S) = f[x] + SumFunctionOnSet(f, S \ {x})
<1>1. PICK a : Adds(a, f, S) /\ SumFunctionOnSet(f, S) = a[S]
  BY SumIs
<1>2. IsFiniteSet(S \ {x})
  BY FS_RemoveElement
<1>3. PICK b : Adds(b, f, S \ {x}) /\ SumFunctionOnSet(f, S \ {x}) = b[S \ {x}]
  BY <1>2, SumIs
<1>4. a[S] = f[x] + a[S \ {x}]
  BY <1>1, AddsAny
<1>5. a[S \ {x}] = b[S \ {x}]
  BY <1>1, <1>2, <1>3, AddsSame
<1>6. QED
  BY <1>1, <1>3, <1>4, <1>5

---------------------------------------------------------------------------
(* Segmentation *)

\* The lowest of a set of levels.
LEMMA LowestIs ==
    ASSUME NEW S, S \subseteq Nat, S # {}
    PROVE  Lowest(S) \in S /\ \A m \in S : Lowest(S) <= m
<1>1. \E n \in S : \A m \in S : n <= m
  BY LeastNumber
<1>2. QED
  BY <1>1, Zenon DEF Lowest

\* A document is cut at a level that some heading has.
LEMMA SplitLevelIs ==
    ASSUME NEW blocks, SplitLevel(blocks) # 0
    PROVE  HeadingsOf(blocks, SplitLevel(blocks)) # {} /\ SplitLevel(blocks) \in 1..3
<1> DEFINE present == {l \in 1..3 : HeadingsOf(blocks, l) # {}}
           repeated == {l \in present : Cardinality(HeadingsOf(blocks, l)) >= 2}
<1>1. SplitLevel(blocks) = IF repeated # {} THEN Lowest(repeated)
                           ELSE IF present # {} THEN Lowest(present) ELSE 0
  BY DEF SplitLevel
<1>2. present \subseteq Nat /\ repeated \subseteq Nat /\ repeated \subseteq present
  OBVIOUS
<1>3. \A l \in present : HeadingsOf(blocks, l) # {} /\ l \in 1..3
  OBVIOUS
<1> HIDE DEF present, repeated
<1>4. SplitLevel(blocks) \in present
  BY <1>1, <1>2, LowestIs
<1>5. QED
  BY <1>3, <1>4

\* The cuts are blocks of the document, one behind the other.
LEMMA CutsAre ==
    ASSUME NEW T, NEW blocks \in Seq(T), SplitLevel(blocks) # 0
    PROVE  /\ Len(Cuts(blocks)) \in Nat \ {0}
           /\ Cuts(blocks) \in [1..Len(Cuts(blocks)) -> 1..Len(blocks)]
           /\ Rising(Cuts(blocks), Len(Cuts(blocks)))
<1> DEFINE H == HeadingsOf(blocks, SplitLevel(blocks))
<1>1. H # {} /\ H \subseteq 1..Len(blocks) /\ Len(blocks) \in Nat
  BY SplitLevelIs DEF HeadingsOf
<1>2. H \in SUBSET Nat /\ IsFiniteSet(H)
  <2>1. IsFiniteSet(1..Len(blocks))
    BY <1>1, FS_Interval
  <2>2. QED
    BY <1>1, <2>1, FS_Subset
<1>3. Cuts(blocks) = Ascending(H)
  BY DEF Cuts
<1> HIDE DEF H
<1>4. PICK n, a : n = Cardinality(H) /\ a = Ascending(H)
  OBVIOUS
<1>5. n \in Nat /\ a \in [1..n -> H] /\ Rising(a, n)
  BY <1>2, <1>4, AscendingIs
<1>6. n # 0
  BY <1>1, <1>2, <1>4, FS_EmptySet
<1>7. Len(a) = n
  BY <1>5
<1>8. a \in [1..n -> 1..Len(blocks)]
  BY <1>1, <1>5
<1>9. QED
  BY <1>3, <1>4, <1>5, <1>6, <1>7, <1>8

\* What a title is known to be: a text whose links are a sequence.
Linking(title) == title.links \in Seq(Links)

\* Where the parts of a document begin: c[k] is the first block of the k-th, and the last
\* number is one more than the blocks.
CutAt(doc, n, c) ==
    /\ n \in Nat \ {0}
    /\ Parts(doc) = [k \in 1..n |-> Parts(doc)[k]]
    /\ c \in [1..(n + 1) -> 1..(Len(doc.blocks) + 1)]
    /\ \A k \in 1..n : c[k] <= c[k + 1]
    /\ c[n + 1] = Len(doc.blocks) + 1
    /\ \A k \in 1..n : /\ Parts(doc)[k].blocks = SubSeq(doc.blocks, c[k], c[k + 1] - 1)
                       /\ Linking(Parts(doc)[k].title)
    /\ ~HasProse(SubSeq(doc.blocks, 1, c[1] - 1))

\* Every title a unit can get is one that Linking asks for.
LEMMA TitlesTyped ==
    /\ Linking(NoText) /\ Linking(DocumentTitle) /\ Linking(PreambleTitle)
    /\ \A i : Linking(SectionTitle(i))
    /\ \A t, o : Linking(t) /\ Linking(o) => Linking(Or(t, o))
<1>1. <<>> \in Seq(Links)
  OBVIOUS
<1>2. \A slug, marks : Text(slug, <<>>, marks).links = <<>>
  BY DEF Text
<1>3. QED
  BY <1>1, <1>2, Zenon DEF Linking, NoText, DocumentTitle, PreambleTitle, SectionTitle, Or

\* A part and its fields.
LEMMA PartIs == ASSUME NEW t, NEW b PROVE Part(t, b).title = t /\ Part(t, b).blocks = b
  BY DEF Part

\* There is no prose before the first block.
LEMMA NoProseBefore == ASSUME NEW b PROVE ~HasProse(SubSeq(b, 1, 1 - 1))
<1>1. SubSeq(b, 1, 0) = <<>>
  BY SubSeqEmpty, 0 \in Int, 1 \in Int, 0 < 1
<1>2. 1 - 1 = 0 /\ DOMAIN <<>> = {}
  OBVIOUS
<1>3. QED
  BY <1>1, <1>2 DEF HasProse

\* The sections, from the cuts.
LEMMA SectionsAre ==
    ASSUME NEW doc \in Documents, SplitLevel(doc.blocks) # 0, NEW n, n = Len(Cuts(doc.blocks)),
           NEW i \in 1..n
    PROVE  /\ DOMAIN Sections(doc) = 1..n
           /\ Sections(doc)[i].blocks =
                SubSeq(doc.blocks, Cuts(doc.blocks)[i],
                       IF i < n THEN Cuts(doc.blocks)[i + 1] - 1 ELSE Len(doc.blocks))
           /\ Linking(Sections(doc)[i].title)
<1>1. doc.blocks \in Seq(Blocks)
  BY DEF Documents
<1>2. PICK a : a = Cuts(doc.blocks)
  OBVIOUS
<1>3. n \in Nat \ {0} /\ a \in [1..n -> 1..Len(doc.blocks)] /\ Len(a) = n
  BY <1>1, <1>2, CutsAre
<1>4. DOMAIN a = 1..n
  BY <1>3
<1> DEFINE title == Or(doc.blocks[a[i]].text, SectionTitle(i))
           body == SubSeq(doc.blocks, a[i], IF i < Len(a) THEN a[i + 1] - 1 ELSE Len(doc.blocks))
<1>5. DOMAIN Sections(doc) = 1..n /\ Sections(doc)[i] = Part(title, body)
  BY <1>2, <1>4 DEF Sections
<1>6. Linking(title)
  <2>1. a[i] \in 1..Len(doc.blocks)
    BY <1>3
  <2>2. doc.blocks[a[i]] \in Blocks
    BY <1>1, <2>1
  <2>3. Linking(doc.blocks[a[i]].text)
    <3>1. doc.blocks[a[i]].text \in Texts
      BY <2>2 DEF Blocks
    <3>2. doc.blocks[a[i]].text.links \in Seq(Links)
      BY <3>1 DEF Texts
    <3>3. QED
      BY <3>2, Zenon DEF Linking
  <2>4. QED
    BY <2>3, TitlesTyped
<1> HIDE DEF title, body
<1>7. Part(title, body).title = title /\ Part(title, body).blocks = body
  BY ONLY PartIs
<1>8. Sections(doc)[i].title = title /\ Sections(doc)[i].blocks = body
  BY ONLY <1>5, <1>7
<1>9. QED
  BY <1>2, <1>3, <1>5, <1>6, <1>8 DEF body

\* The parts of every document begin where CutAt says.
LEMMA PartsAre == ASSUME NEW doc \in Documents PROVE \E n, c : CutAt(doc, n, c)
<1> DEFINE b == doc.blocks
           L == Len(b)
<1>0. b \in Seq(Blocks) /\ L \in Nat /\ Linking(doc.title)
  <2>1. doc.title \in Texts /\ b \in Seq(Blocks) /\ L \in Nat
    BY DEF Documents
  <2>2. doc.title.links \in Seq(Links)
    BY <2>1 DEF Texts
  <2>3. QED
    BY <2>1, <2>2, Zenon DEF Linking
<1>1. CASE SplitLevel(b) = 0
  <2> DEFINE c == [k \in 1..2 |-> IF k = 1 THEN 1 ELSE L + 1]
             p == Part(Or(doc.title, DocumentTitle), b)
  <2>1. Parts(doc) = <<p>>
    BY <1>1 DEF Parts
  <2>2. Linking(p.title) /\ p.blocks = b
    BY <1>0, TitlesTyped, PartIs
  <2>3. SubSeq(b, 1, L) = b
    BY <1>0, SubSeqFull
  <2>4. c \in [1..2 -> 1..(L + 1)] /\ c[1] = 1 /\ c[2] = L + 1 /\ 1 <= L + 1 /\ L + 1 - 1 = L /\ 1 + 1 = 2
    BY <1>0
  <2>5. ~HasProse(SubSeq(b, 1, c[1] - 1))
    BY <2>4, NoProseBefore
  <2> HIDE DEF p, c
  <2>6. <<p>> = [k \in 1..1 |-> <<p>>[k]] /\ <<p>>[1] = p /\ 1..1 = {1} /\ 1 \in Nat \ {0}
    OBVIOUS
  <2> HIDE DEF b, L
  <2>7. CutAt(doc, 1, c)
    BY <2>1, <2>2, <2>3, <2>4, <2>5, <2>6 DEF CutAt, b, L
  <2>8. QED
    BY <2>7
<1>2. CASE SplitLevel(b) # 0
  <2>1. PICK a, m : a = Cuts(b) /\ m = Len(a)
    OBVIOUS
  <2>2. m \in Nat \ {0} /\ a \in [1..m -> 1..L] /\ Rising(a, m)
    BY <1>0, <1>2, <2>1, CutsAre
  <2>3. PICK s : s = Sections(doc)
    OBVIOUS
  <2>4. /\ DOMAIN s = 1..m
        /\ \A i \in 1..m : /\ s[i].blocks = SubSeq(b, a[i], IF i < m THEN a[i + 1] - 1 ELSE L)
                           /\ Linking(s[i].title)
    <3>1. 1 \in 1..m
      BY <2>2
    <3>2. QED
      BY <1>2, <2>1, <2>3, <3>1, SectionsAre
  <2>5. s = [i \in 1..m |-> s[i]] /\ Len(s) = m
    <3>1. s = [i \in 1..m |-> s[i]]
      BY <2>1, <2>3, <2>4 DEF Sections
    <3>2. QED
      BY <2>2, <3>1
  <2>6. Parts(doc) = Preamble(doc) \o s
    BY <1>2, <2>3 DEF Parts
  <2> DEFINE before == SubSeq(b, 1, a[1] - 1)
  <2>7. a[1] \in 1..L
    BY <2>2
  <2>8. \A i \in 1..m : i < m => a[i] <= a[i + 1]
    <3>1. ASSUME NEW i \in 1..m, i < m PROVE a[i] <= a[i + 1]
      <4>1. i + 1 \in 1..m /\ i < i + 1
        BY <2>2, <3>1
      <4>2. a[i] < a[i + 1] /\ a[i] \in Int /\ a[i + 1] \in Int
        BY <2>2, <4>1 DEF Rising
      <4>3. QED
        BY <4>2
    <3>2. QED
      BY <3>1
  <2>9. CASE HasProse(before)
    <3> DEFINE p == Part(Or(doc.title, PreambleTitle), before)
               c == [k \in 1..(m + 2) |-> IF k = 1 THEN 1 ELSE IF k <= m + 1 THEN a[k - 1] ELSE L + 1]
               n == m + 1
               q == Parts(doc)
    <3>1. Preamble(doc) = <<p>>
      BY <2>1, <2>9 DEF Preamble
    <3>2. Linking(p.title) /\ p.blocks = before
      <4>1. Linking(Or(doc.title, PreambleTitle))
        BY <1>0, TitlesTyped
      <4>2. \A t, x : Part(t, x).title = t /\ Part(t, x).blocks = x
        BY PartIs
      <4> HIDE DEF before
      <4>3. QED
        BY <4>1, <4>2, Zenon DEF p
    <3> HIDE DEF p
    <3>3. q = [k \in 1..n |-> IF k = 1 THEN p ELSE s[k - 1]]
      BY <2>2, <2>5, <2>6, <3>1
    <3> HIDE DEF q
    <3>4. n \in Nat \ {0} /\ n + 1 = m + 2 /\ n + 1 \in 1..(m + 2)
      BY <2>2
    <3>5. ASSUME NEW k \in 1..(m + 2) PROVE c[k] \in 1..(L + 1)
      BY <1>0, <2>2
    <3>6. c \in [1..(n + 1) -> 1..(L + 1)] /\ c[n + 1] = L + 1
      BY <2>2, <3>4, <3>5
    <3>7. c[1] = 1
      BY <2>2
    <3>8. ASSUME NEW k \in 1..n PROVE /\ c[k] <= c[k + 1]
                                      /\ q[k].blocks = SubSeq(b, c[k], c[k + 1] - 1)
                                      /\ Linking(q[k].title)
      <4>1. CASE k = 1
        <5>1. c[2] = a[1] /\ 1 + 1 = 2 /\ a[1] \in Int /\ 1 <= a[1]
          BY <2>2, <2>7
        <5>2. q[1] = p
          BY <2>2, <3>3
        <5> HIDE DEF c
        <5>3. QED
          BY <3>2, <3>7, <4>1, <5>1, <5>2
      <4>2. CASE k # 1
        <5>1. k - 1 \in 1..m /\ k + 1 \in 1..(m + 2) /\ k \in 1..(m + 2) /\ k - 1 + 1 = k
          BY <2>2, <4>2
        <5>2. c[k] = a[k - 1] /\ c[k + 1] = (IF k <= m THEN a[k] ELSE L + 1) /\ q[k] = s[k - 1]
          BY <2>2, <3>3, <4>2, <5>1
        <5>3. Linking(q[k].title) /\ q[k].blocks = SubSeq(b, a[k - 1], IF k - 1 < m THEN a[k - 1 + 1] - 1 ELSE L)
          BY <2>4, <5>1, <5>2
        <5> HIDE DEF c, n
        <5>4. CASE k <= m
          <6>1. k - 1 < m /\ a[k - 1] <= a[k]
            BY <2>2, <2>8, <5>1, <5>4
          <6>2. QED
            BY <5>1, <5>2, <5>3, <5>4, <6>1
        <5>5. CASE ~(k <= m)
          <6>1. ~(k - 1 < m) /\ L + 1 - 1 = L
            BY <1>0, <2>2, <5>1, <5>5, k \in Int
          <6>2. a[k - 1] <= L + 1
            BY <1>0, <2>2, <5>1
          <6>3. c[k + 1] = L + 1
            BY <5>2, <5>5, Zenon
          <6>4. q[k].blocks = SubSeq(b, a[k - 1], L)
            BY <5>3, <6>1, Zenon
          <6>6. c[k + 1] - 1 = L
            BY <1>0, <6>3
          <6> HIDE DEF L, b
          <6>5. c[k] <= c[k + 1]
            BY <5>2, <6>2, <6>3
          <6>7. q[k].blocks = SubSeq(b, c[k], c[k + 1] - 1)
            BY ONLY <5>2, <6>4, <6>6, Zenon
          <6>8. QED
            BY <5>3, <6>5, <6>7
        <5>6. QED
          BY <5>4, <5>5
      <4>3. QED
        BY <4>1, <4>2
    <3>9. ~HasProse(SubSeq(b, 1, c[1] - 1))
      BY <3>7, NoProseBefore
    <3>10. q = [k \in 1..n |-> q[k]]
      BY <3>3
    <3> HIDE DEF c, n, b, L
    <3>11. CutAt(doc, n, c)
      BY <3>4, <3>6, <3>8, <3>9, <3>10 DEF CutAt, b, L, q
    <3>12. QED
      BY <3>11
  <2>10. CASE ~HasProse(before)
    <3> DEFINE c == [k \in 1..(m + 1) |-> IF k <= m THEN a[k] ELSE L + 1]
               q == Parts(doc)
    <3>1. Preamble(doc) = <<>>
      BY <2>1, <2>10 DEF Preamble
    <3>2. q = s
      BY <2>5, <2>6, <3>1
    <3> HIDE DEF q
    <3>3. ASSUME NEW k \in 1..(m + 1) PROVE c[k] \in 1..(L + 1)
      BY <1>0, <2>2
    <3>4. c \in [1..(m + 1) -> 1..(L + 1)] /\ c[m + 1] = L + 1
      BY <2>2, <3>3
    <3>5. c[1] = a[1]
      BY <2>2
    <3>6. ASSUME NEW k \in 1..m PROVE /\ c[k] <= c[k + 1]
                                      /\ q[k].blocks = SubSeq(b, c[k], c[k + 1] - 1)
                                      /\ Linking(q[k].title)
      <4>1. k + 1 \in 1..(m + 1) /\ k \in 1..(m + 1) /\ k \in Int
        BY <2>2
      <4>2. c[k] = a[k] /\ c[k + 1] = (IF k < m THEN a[k + 1] ELSE L + 1) /\ q[k] = s[k]
        BY <2>2, <3>2, <4>1
      <4>3. Linking(q[k].title) /\ q[k].blocks = SubSeq(b, a[k], IF k < m THEN a[k + 1] - 1 ELSE L)
        BY <2>4, <4>2
      <4> HIDE DEF c
      <4>4. CASE k < m
        BY <2>8, <4>2, <4>3, <4>4
      <4>5. CASE ~(k < m)
        <5>1. k \in 1..m
          BY <2>2
        <5>2. a[k] <= L + 1 /\ L + 1 - 1 = L
          BY <1>0, <2>2, <5>1
        <5>3. c[k + 1] = L + 1 /\ q[k].blocks = SubSeq(b, a[k], L)
          BY <4>2, <4>3, <4>5, Zenon
        <5>5. c[k + 1] - 1 = L
          BY <1>0, <5>3
        <5> HIDE DEF L, b
        <5>4. c[k] <= c[k + 1]
          BY <4>2, <5>2, <5>3
        <5>6. q[k].blocks = SubSeq(b, c[k], c[k + 1] - 1)
          BY ONLY <4>2, <5>3, <5>5, Zenon
        <5>7. QED
          BY <4>3, <5>4, <5>6
      <4>6. QED
        BY <4>4, <4>5
    <3>7. ~HasProse(SubSeq(b, 1, c[1] - 1))
      BY <2>10, <3>5
    <3>8. q = [k \in 1..m |-> q[k]]
      BY <2>5, <3>2
    <3> HIDE DEF c, b, L
    <3>9. CutAt(doc, m, c)
      BY <2>2, <3>4, <3>6, <3>7, <3>8 DEF CutAt, b, L, q
    <3>10. QED
      BY <3>9
  <2>11. QED
    BY <2>9, <2>10
<1>3. QED
  BY <1>1, <1>2

\* The unit with other blocks.
With(unit, blocks) ==
    [order |-> unit.order, title |-> unit.title, blocks |-> blocks, anchor |-> unit.anchor, path |-> unit.path]

\* What the later stages use of the units: they are a sequence, their titles have links,
\* and each has a file of its own that is neither the index nor the log.
Filed(us, n) ==
    /\ n \in Nat \ {0}
    /\ us = [k \in 1..n |-> us[k]]
    /\ \A k \in 1..n : /\ Linking(us[k].title)
                       /\ us[k].order = k
                       /\ us[k].path.dir = ""
                       /\ us[k].path # IndexPath /\ us[k].path # LogPath
    /\ \A k, m \in 1..n : us[k].path = us[m].path => k = m

\* Concepts, index and log are different files of the root of the bundle.
LEMMA PathsDiffer ==
    /\ SingleUnit.dir = "" /\ SingleUnit # IndexPath /\ SingleUnit # LogPath
    /\ \A k \in Nat \ {0} : \A slug : /\ ConceptPath(k, slug).dir = ""
                                      /\ ConceptPath(k, slug).order = k
                                      /\ ConceptPath(k, slug) # IndexPath
                                      /\ ConceptPath(k, slug) # LogPath
    /\ IndexPath.dir = "" /\ LogPath.dir = "" /\ IndexPath # LogPath
    /\ \A digest : AssetPath(digest).dir = "assets" /\ AssetPath(digest).order = digest
<1>1. SingleUnit.slug.base = "documento" /\ IndexPath.slug.base = "index" /\ LogPath.slug.base = "log"
  BY DEF SingleUnit, ConceptPath, IndexPath, LogPath, Path, Slug
<1>2. SingleUnit.dir = "" /\ IndexPath.dir = "" /\ LogPath.dir = "" /\ IndexPath.order = 0 /\ LogPath.order = 0
  BY DEF SingleUnit, ConceptPath, IndexPath, LogPath, Path
<1>3. ASSUME NEW k \in Nat \ {0}, NEW slug
      PROVE  /\ ConceptPath(k, slug).dir = "" /\ ConceptPath(k, slug).order = k
             /\ ConceptPath(k, slug) # IndexPath /\ ConceptPath(k, slug) # LogPath
  <2>1. ConceptPath(k, slug).dir = "" /\ ConceptPath(k, slug).order = k
    BY DEF ConceptPath, Path
  <2>2. k # 0
    OBVIOUS
  <2>3. QED
    BY <1>2, <2>1, <2>2
<1>4. ASSUME NEW digest PROVE AssetPath(digest).dir = "assets" /\ AssetPath(digest).order = digest
  BY DEF AssetPath, Path
<1>5. SingleUnit # IndexPath /\ SingleUnit # LogPath /\ IndexPath # LogPath
  BY <1>1
<1>6. QED
  BY <1>2, <1>3, <1>4, <1>5

\* segment.Split: the units are the parts of the document, each in a file of its own.
LEMMA SplitIs ==
    ASSUME NEW doc \in Documents
    PROVE  \E n, c : /\ CutAt(doc, n, c)
                     /\ Filed(Split(doc), n)
                     /\ \A k \in 1..n : /\ Split(doc)[k].blocks = SubSeq(doc.blocks, c[k], c[k + 1] - 1)
                                        /\ Split(doc)[k].blocks \in Seq(Blocks)
                                        /\ Split(doc)[k] = With(Split(doc)[k], Split(doc)[k].blocks)
<1>1. PICK n, c : CutAt(doc, n, c)
  BY PartsAre
<1>2. PICK parts, slugs, us : /\ parts = Parts(doc) /\ us = Split(doc)
                              /\ slugs = Dedupe([k \in DOMAIN parts |-> parts[k].title.slug])
  OBVIOUS
<1>3. n \in Nat \ {0} /\ parts = [k \in 1..n |-> parts[k]]
  BY <1>1, <1>2 DEF CutAt
<1>4. DOMAIN parts = 1..n /\ Len(parts) = n
  BY <1>3
<1> DEFINE unit(k) == [order  |-> k,
                       title  |-> parts[k].title,
                       blocks |-> parts[k].blocks,
                       anchor |-> slugs[k],
                       path   |-> IF n = 1 THEN SingleUnit ELSE ConceptPath(k, slugs[k])]
<1>5. us = [k \in 1..n |-> unit(k)]
  BY <1>2, <1>4 DEF Split
<1>6. \A k \in 1..n : us[k] = unit(k)
  BY <1>5
<1>7. us = [k \in 1..n |-> us[k]]
  BY <1>5
<1>8. ASSUME NEW k \in 1..n
      PROVE  /\ us[k].order = k /\ us[k].title = parts[k].title /\ us[k].blocks = parts[k].blocks
             /\ us[k].path = IF n = 1 THEN SingleUnit ELSE ConceptPath(k, slugs[k])
             /\ us[k] = With(us[k], us[k].blocks)
  <2>1. PICK p : p = IF n = 1 THEN SingleUnit ELSE ConceptPath(k, slugs[k])
    OBVIOUS
  <2>2. us[k] = [order |-> k, title |-> parts[k].title, blocks |-> parts[k].blocks,
                 anchor |-> slugs[k], path |-> p]
    BY <1>6, <2>1, Zenon
  <2>3. us[k].path = p /\ us[k].order = k /\ us[k].title = parts[k].title /\ us[k].blocks = parts[k].blocks
    BY <2>2
  <2>4. us[k].anchor = slugs[k]
    BY <2>2
  <2>5. us[k] = With(us[k], us[k].blocks)
    BY <2>2, <2>3, <2>4, Zenon DEF With
  <2>6. QED
    BY <2>1, <2>3, <2>5, Zenon
<1> HIDE DEF unit
<1>9. ASSUME NEW k \in 1..n
      PROVE  us[k].path.dir = "" /\ us[k].path # IndexPath /\ us[k].path # LogPath
  <2>1. k \in Nat \ {0}
    BY <1>3
  <2>2. CASE n = 1
    BY <1>8, <2>2, PathsDiffer, Zenon
  <2>3. CASE n # 1
    <3>1. PICK p : p = ConceptPath(k, slugs[k]) /\ us[k].path = p
      BY <1>8, <2>3
    <3>2. \A slug : /\ ConceptPath(k, slug).dir = ""
                    /\ ConceptPath(k, slug) # IndexPath /\ ConceptPath(k, slug) # LogPath
      BY ONLY <2>1, PathsDiffer, Zenon
    <3>3. QED
      BY ONLY <3>1, <3>2, Zenon
  <2>4. QED
    BY <2>2, <2>3
<1>10. ASSUME NEW k \in 1..n, NEW m \in 1..n, us[k].path = us[m].path PROVE k = m
  <2>1. CASE n = 1
    BY <2>1
  <2>2. CASE n # 1
    <3>1. k \in Nat \ {0} /\ m \in Nat \ {0}
      BY <1>3
    <3>2. us[k].path = ConceptPath(k, slugs[k]) /\ us[m].path = ConceptPath(m, slugs[m])
      BY <1>8, <2>2
    <3>3. ConceptPath(k, slugs[k]).order = k /\ ConceptPath(m, slugs[m]).order = m
      BY <3>1, PathsDiffer
    <3>4. QED
      BY <1>10, <3>2, <3>3
  <2>3. QED
    BY <2>1, <2>2
<1>11. \A k \in 1..n : /\ Linking(parts[k].title)
                       /\ parts[k].blocks = SubSeq(doc.blocks, c[k], c[k + 1] - 1)
  BY <1>1, <1>2 DEF CutAt
<1>12. Filed(us, n)
  BY <1>3, <1>7, <1>8, <1>9, <1>10, <1>11 DEF Filed
<1>13. ASSUME NEW k \in 1..n PROVE us[k].blocks \in Seq(Blocks)
  <2>1. /\ doc.blocks \in Seq(Blocks) /\ c[k] \in 1..(Len(doc.blocks) + 1)
        /\ c[k + 1] \in 1..(Len(doc.blocks) + 1)
    <3>1. k \in 1..(n + 1) /\ k + 1 \in 1..(n + 1)
      BY <1>3
    <3>2. QED
      BY <1>1, <3>1 DEF CutAt, Documents
  <2>2. PICK from, to : from = c[k] /\ to = c[k + 1] - 1
    OBVIOUS
  <2>3. from \in 1..(Len(doc.blocks) + 1) /\ to \in Int /\ to <= Len(doc.blocks) /\ 1 <= from
    BY <2>1, <2>2
  <2>4. \A x \in from..to : doc.blocks[x] \in Blocks
    BY <2>1, <2>3
  <2>5. SubSeq(doc.blocks, from, to) \in Seq(Blocks)
    BY <2>1, <2>3, <2>4
  <2>6. QED
    BY <1>8, <1>11, <2>2, <2>5
<1>14. ASSUME NEW k \in 1..n
       PROVE  /\ us[k].blocks = SubSeq(doc.blocks, c[k], c[k + 1] - 1)
              /\ us[k].blocks \in Seq(Blocks)
              /\ us[k] = With(us[k], us[k].blocks)
  BY <1>8, <1>11, <1>13
<1>15. CutAt(doc, n, c) /\ us = Split(doc)
  BY <1>1, <1>2
<1>16. QED
  BY ONLY <1>12, <1>14, <1>15

\* What is left of a sequence after its first elements is a suffix of it.
LEMMA SuffixIs ==
    ASSUME NEW T, NEW b \in Seq(T), NEW p \in 1..(Len(b) + 1)
    PROVE  /\ IsSuffix(SubSeq(b, p, Len(b)), b)
           /\ Len(SubSeq(b, p, Len(b))) = Len(b) - p + 1
<1>1. PICK L \in Nat : L = Len(b)
  OBVIOUS
<1>2. PICK s, m : s = SubSeq(b, p, L) /\ m = L - p + 1 /\ m \in Nat
  <2>1. L - p + 1 \in Nat
    BY <1>1
  <2>2. QED
    BY <2>1
<1>3. s \in Seq(T) /\ Len(s) = m /\ \A i \in 1..m : s[i] = b[p + i - 1]
  BY <1>1, <1>2
<1>4. PICK r, t : r = Reverse(s) /\ t = Reverse(b)
  OBVIOUS
<1>5. r = [i \in 1..m |-> s[m - i + 1]] /\ t = [i \in 1..L |-> b[L - i + 1]]
  BY <1>1, <1>3, <1>4 DEF Reverse
<1>6. m <= L /\ Len(r) = m /\ Len(t) = L
  BY <1>1, <1>2, <1>5
<1>7. ASSUME NEW i \in 1..m PROVE r[i] = t[i]
  <2>1. m - i + 1 \in 1..m /\ i \in 1..L /\ p + (m - i + 1) - 1 = L - i + 1
    BY <1>1, <1>2
  <2>2. s[m - i + 1] = b[p + (m - i + 1) - 1]
    BY <1>3, <2>1
  <2>3. QED
    BY <1>5, <2>1, <2>2
<1>8. ASSUME NEW q \in Seq(T), m <= Len(q)
      PROVE  SubSeq(q, 1, m) = [i \in 1..m |-> q[i]]
  <2>1. SubSeq(q, 1, m) \in Seq(T) /\ Len(SubSeq(q, 1, m)) = m /\ \A i \in 1..m : SubSeq(q, 1, m)[i] = q[i]
    BY <1>2, <1>8
  <2>2. QED
    BY <2>1
<1>12. r \in Seq(T) /\ t \in Seq(T)
  <2>1. \A i \in 1..m : s[m - i + 1] \in T
    BY <1>3
  <2>2. \A i \in 1..L : b[L - i + 1] \in T
    BY <1>1
  <2>3. QED
    BY <1>2, <1>5, <2>1, <2>2
<1>9. SubSeq(r, 1, Len(r)) = SubSeq(t, 1, Len(r))
  BY <1>6, <1>7, <1>8, <1>12
<1>10. IsSuffix(s, b)
  BY <1>4, <1>6, <1>9 DEF IsSuffix, IsPrefix
<1>11. QED
  BY <1>1, <1>2, <1>3, <1>10

\* As many units as Filed says.
LEMMA FiledIs ==
    ASSUME NEW us, NEW n, Filed(us, n)
    PROVE  n \in Nat /\ n > 0 /\ DOMAIN us = 1..n /\ Len(us) = n
<1>1. n \in Nat \ {0} /\ us = [k \in 1..n |-> us[k]]
  BY DEF Filed
<1>2. DOMAIN us = 1..n /\ Len(us) = n
  BY <1>1
<1>3. QED
  BY <1>1, <1>2

---------------------------------------------------------------------------
(* The conversion computes a function of its input. Each stage is reached    *)
(* with the units and the files that the stages before it make of the        *)
(* document, whatever the user and the clock do in the meantime.             *)

Extracted == Extract(Split(input.doc), EmptyFS, AssetsBudget)
Rendered == RenderConcepts(Extracted.fs, Extracted.units)
Indexed == Put(Rendered, IndexPath, Index(BundleTitle, input.name, Extracted.units))
Drafted == Put(Indexed, LogPath, Log(input.name, Extracted.units, {}))
Logged == Put(Drafted, LogPath, Log(input.name, Extracted.units, Run(Drafted).findings))
Final == Inject(Logged)

\* What each stage finds.
Found(stage, us, files) == phase = stage => units = us /\ fs = files

Computes ==
    /\ input \in Inputs
    /\ phase # "done" => outcome = "none"
    /\ phase \in {"parse", "segment"} => fs = EmptyFS
    /\ Found("assets", Split(input.doc), EmptyFS)
    /\ phase = "assets" => ~TooManyUnits(input.doc, MaxUnits)
    /\ Found("render", Extracted.units, Extracted.fs)
    /\ Found("index", Extracted.units, Rendered)
    /\ Found("log", Extracted.units, Indexed)
    /\ Found("validate", Extracted.units, Drafted)
    /\ phase = "validate" => first = Run(Drafted)
    /\ Converted => /\ phase = "done"
                    /\ units = Extracted.units
                    /\ first = Run(Drafted)
                    /\ fs = Final
                    /\ report = SecondReport(Final)

\* While a stage runs, the user may have asked for the cancellation, and ctx may be done,
\* since the last checkpoint only.
Since ==
    [parse  |-> {"parse"}, segment |-> {"segment"},
     assets |-> {"assets"}, render |-> {"assets", "render"}, index |-> {"assets", "render", "index"},
     log    |-> {"log"}, validate |-> {"log", "validate"}, done |-> Stages]

Watched ==
    /\ phase \in Stages
    /\ canceling \in {"never"} \cup Since[phase]
    /\ expired \in {"never"} \cup Since[phase]
    /\ Converted => {canceling, expired} \subseteq {"never", "log", "validate"}

ConversionInvariant == Computes /\ Watched

\* A conversion starts from a document and nothing else.
LEMMA ComputesInit == ConversionInit => ConversionInvariant
<1> SUFFICES ASSUME ConversionInit PROVE ConversionInvariant
  OBVIOUS
<1>1. /\ input \in Inputs /\ phase = "parse" /\ outcome = "none" /\ fs = EmptyFS
      /\ canceling = "never" /\ expired = "never"
  BY DEF ConversionInit
<1>2. Computes
  BY <1>1 DEF Computes, Found, Converted
<1>3. Watched
  BY <1>1 DEF Watched, Converted, Stages
<1>4. QED
  BY <1>2, <1>3 DEF ConversionInvariant

\* The results of the stages read the input only.
LEMMA SameResults ==
    ASSUME UNCHANGED input
    PROVE  UNCHANGED <<Extracted, Rendered, Indexed, Drafted, Logged, Final, Split(input.doc)>>
  BY DEF Extracted, Rendered, Indexed, Drafted, Logged, Final, Inject, BundleTitle

\* A stage that ends the conversion, or goes on to the next one.
LEMMA CheckpointIs ==
    ASSUME NEW next \in Stages, Checkpoint(next)
    PROVE  \/ phase' = "done" /\ outcome' \in {"canceled", "expired"}
           \/ phase' = next /\ outcome' = outcome /\ canceling = "never" /\ expired = "never"
  BY DEF Checkpoint, Return

\* Every step keeps what is computed.
LEMMA ComputesStep == Computes /\ [ConversionNext]_vars => Computes'
<1> SUFFICES ASSUME Computes, [ConversionNext]_vars PROVE Computes'
  OBVIOUS
<1>1. UNCHANGED input
  BY DEF ConversionNext, Step, Parse, Segment, ExtractAssets, Render, WriteIndex, ValidateDraft,
         ValidateFinal, RequestCancel, Timeout, vars
<1>2. UNCHANGED <<Extracted, Rendered, Indexed, Drafted, Logged, Final, Split(input.doc)>>
  BY <1>1, SameResults
<1>3. UNCHANGED TooManyUnits(input.doc, MaxUnits)
  BY <1>1
<1>4. CASE phase' = "done" /\ outcome' # "converted"
  BY <1>1, <1>4 DEF Computes, Found, Converted
<1>5. CASE Parse
  <2>1. \/ phase' = "segment" /\ outcome' = outcome /\ phase = "parse" /\ fs' = fs
        \/ phase' = "done" /\ outcome' # "converted"
    <3>1. phase = "parse" /\ fs' = fs /\ "segment" \in Stages
      BY <1>5 DEF Parse, Stages
    <3>2. CASE HasContent(input.doc.blocks)
      <4>1. Checkpoint("segment")
        BY <1>5, <3>2 DEF Parse
      <4>2. QED
        BY <3>1, <4>1 DEF Checkpoint, Return
    <3>3. CASE ~HasContent(input.doc.blocks)
      BY <1>5, <3>3 DEF Parse, Return
    <3>4. QED
      BY <3>2, <3>3
  <2>2. QED
    BY <1>1, <1>4, <2>1 DEF Computes, Found, Converted
<1>6. CASE Segment
  <2>1. \/ phase' = "done" /\ outcome' # "converted"
        \/ /\ phase = "segment" /\ phase' = "assets" /\ outcome' = outcome /\ fs' = fs
           /\ units' = Split(input.doc) /\ ~TooManyUnits(input.doc, MaxUnits)
    BY <1>6, CheckpointIs DEF Segment, Return, Stages
  <2>2. QED
    BY <1>1, <1>2, <1>3, <1>4, <2>1 DEF Computes, Found, Converted
<1>7. CASE ExtractAssets
  <2>1. phase = "assets" /\ phase' = "render" /\ outcome' = outcome
    BY <1>7 DEF ExtractAssets
  <2>2. units = Split(input.doc) /\ fs = EmptyFS /\ outcome = "none"
    BY <2>1 DEF Computes, Found
  <2>3. units' = Extracted.units /\ fs' = Extracted.fs
    BY <1>7, <2>2, Zenon DEF ExtractAssets, Extracted
  <2>4. QED
    BY <1>1, <1>2, <2>1, <2>2, <2>3 DEF Computes, Found, Converted
<1>8. CASE Render
  <2>1. phase = "render" /\ phase' = "index" /\ outcome' = outcome /\ units' = units
    BY <1>8 DEF Render
  <2>2. units = Extracted.units /\ fs = Extracted.fs /\ outcome = "none"
    BY <2>1 DEF Computes, Found
  <2>3. fs' = Rendered
    BY <1>8, <2>2, Zenon DEF Render, Rendered
  <2>4. QED
    BY <1>1, <1>2, <2>1, <2>2, <2>3 DEF Computes, Found, Converted
<1>9. CASE WriteIndex
  <2>1. phase = "index" /\ units' = units
    BY <1>9 DEF WriteIndex
  <2>2. units = Extracted.units /\ fs = Rendered /\ outcome = "none"
    BY <2>1 DEF Computes, Found
  <2>3. fs' = Indexed
    BY <1>9, <2>2, Zenon DEF WriteIndex, Indexed
  <2>4. \/ phase' = "log" /\ outcome' = outcome
        \/ phase' = "done" /\ outcome' # "converted"
    <3>1. "log" \in Stages /\ Checkpoint("log")
      BY <1>9 DEF WriteIndex, Stages
    <3>2. QED
      BY <3>1 DEF Checkpoint, Return
  <2>5. QED
    BY <1>1, <1>2, <1>4, <2>1, <2>2, <2>3, <2>4 DEF Computes, Found, Converted
<1>10. CASE ValidateDraft
  <2>1. phase = "log" /\ phase' = "validate" /\ outcome' = outcome /\ units' = units
    BY <1>10 DEF ValidateDraft
  <2>2. units = Extracted.units /\ fs = Indexed /\ outcome = "none"
    BY <2>1 DEF Computes, Found
  <2>3. fs' = Drafted /\ first' = Run(Drafted)
    BY <1>10, <2>2, Zenon DEF ValidateDraft, Drafted
  <2>4. Run(Drafted)' = Run(Drafted)
    BY <1>2, Zenon
  <2>5. QED
    BY <1>1, <1>2, <2>1, <2>2, <2>3, <2>4 DEF Computes, Found, Converted
<1>11. CASE ValidateFinal
  <2>1. phase = "validate" /\ units' = units /\ first' = first /\ phase' = "done"
    BY <1>11 DEF ValidateFinal, Return
  <2>2. units = Extracted.units /\ fs = Drafted /\ first = Run(Drafted)
    BY <2>1 DEF Computes, Found
  <2>3. fs' = Final
    BY <1>11, <2>2, Zenon DEF ValidateFinal, Final, Logged
  <2>4. report' = SecondReport(Final)
    BY <1>11, <2>3, Zenon DEF ValidateFinal
  <2>5. SecondReport(Final)' = SecondReport(Final) /\ Run(Drafted)' = Run(Drafted)
    <3>1. Final' = Final /\ Drafted' = Drafted
      BY <1>2
    <3>2. QED
      BY <1>1, <2>1, <3>1, Zenon DEF SecondReport
  <2>6. QED
    BY <1>1, <1>2, <2>1, <2>2, <2>3, <2>4, <2>5 DEF Computes, Found, Converted
<1>12. CASE RequestCancel \/ Timeout \/ UNCHANGED vars
  <2>1. UNCHANGED <<phase, input, units, fs, first, report, outcome>>
    BY <1>12 DEF RequestCancel, Timeout, vars
  <2>2. Run(Drafted)' = Run(Drafted) /\ SecondReport(Final)' = SecondReport(Final)
    <3>1. Final' = Final /\ Drafted' = Drafted
      BY <1>2
    <3>2. QED
      BY <1>1, <2>1, <3>1, Zenon DEF SecondReport
  <2>3. QED
    BY <1>1, <1>2, <1>3, <2>1, <2>2 DEF Computes, Found, Converted
<1>13. QED
  BY <1>5, <1>6, <1>7, <1>8, <1>9, <1>10, <1>11, <1>12 DEF ConversionNext, Step

\* Every step keeps what the checkpoints know of the user and the clock.
LEMMA WatchedStep == Computes /\ Watched /\ [ConversionNext]_vars => Watched'
<1> SUFFICES ASSUME Computes, Watched, [ConversionNext]_vars PROVE Watched'
  OBVIOUS
<1>1. phase # "done" => outcome = "none"
  BY DEF Computes
<1>2. \A p \in Stages : Since[p] \subseteq Stages /\ (p # "done" => p \in Since[p]) /\ Since["done"] = Stages
  BY DEF Since, Stages
<1>3. ASSUME UNCHANGED <<canceling, expired>>, phase' = "done", outcome' # "converted"
      PROVE  Watched'
  BY <1>2, <1>3 DEF Watched, Converted, Stages
<1>4. ASSUME UNCHANGED <<canceling, expired>>, phase # "done", phase' \in Stages, outcome' = outcome,
             canceling \in {"never"} \cup Since[phase'], expired \in {"never"} \cup Since[phase']
      PROVE  Watched'
  BY <1>1, <1>4 DEF Watched, Converted
<1>5. CASE Parse
  <2>1. \/ phase' = "done" /\ outcome' # "converted"
        \/ phase = "parse" /\ phase' = "segment" /\ outcome' = outcome /\ canceling = "never" /\ expired = "never"
    BY <1>5, CheckpointIs DEF Parse, Return, Stages
  <2>2. UNCHANGED <<canceling, expired>>
    BY <1>5 DEF Parse
  <2>3. QED
    BY <1>3, <1>4, <2>1, <2>2 DEF Stages
<1>6. CASE Segment
  <2>1. \/ phase' = "done" /\ outcome' # "converted"
        \/ phase = "segment" /\ phase' = "assets" /\ outcome' = outcome /\ canceling = "never" /\ expired = "never"
    BY <1>6, CheckpointIs DEF Segment, Return, Stages
  <2>2. UNCHANGED <<canceling, expired>>
    BY <1>6 DEF Segment
  <2>3. QED
    BY <1>3, <1>4, <2>1, <2>2 DEF Stages
<1>7. CASE ExtractAssets
  <2>1. phase = "assets" /\ phase' = "render" /\ UNCHANGED <<outcome, canceling, expired>>
    BY <1>7 DEF ExtractAssets
  <2>2. canceling \in {"never", "assets"} /\ expired \in {"never", "assets"}
    BY <2>1 DEF Watched, Since
  <2>3. QED
    BY <1>4, <2>1, <2>2 DEF Stages, Since
<1>8. CASE Render
  <2>1. phase = "render" /\ phase' = "index" /\ UNCHANGED <<outcome, canceling, expired>>
    BY <1>8 DEF Render
  <2>2. canceling \in {"never", "assets", "render"} /\ expired \in {"never", "assets", "render"}
    BY <2>1 DEF Watched, Since
  <2>3. QED
    BY <1>4, <2>1, <2>2 DEF Stages, Since
<1>9. CASE WriteIndex
  <2>1. \/ phase' = "done" /\ outcome' # "converted"
        \/ phase = "index" /\ phase' = "log" /\ outcome' = outcome /\ canceling = "never" /\ expired = "never"
    BY <1>9, CheckpointIs DEF WriteIndex, Stages
  <2>2. UNCHANGED <<canceling, expired>>
    BY <1>9 DEF WriteIndex
  <2>3. QED
    BY <1>3, <1>4, <2>1, <2>2 DEF Stages
<1>10. CASE ValidateDraft
  <2>1. phase = "log" /\ phase' = "validate" /\ UNCHANGED <<outcome, canceling, expired>>
    BY <1>10 DEF ValidateDraft
  <2>2. canceling \in {"never", "log"} /\ expired \in {"never", "log"}
    BY <2>1 DEF Watched, Since
  <2>3. QED
    BY <1>4, <2>1, <2>2 DEF Stages, Since
<1>11. CASE ValidateFinal
  <2>1. phase = "validate" /\ phase' = "done" /\ UNCHANGED <<canceling, expired>>
    BY <1>11 DEF ValidateFinal, Return
  <2>2. canceling \in {"never", "log", "validate"} /\ expired \in {"never", "log", "validate"}
    BY <2>1 DEF Watched, Since
  <2>3. QED
    BY <2>1, <2>2 DEF Watched, Since, Stages, Converted
<1>12. CASE RequestCancel
  <2>1. phase # "done" /\ phase' = phase /\ canceling' = phase /\ UNCHANGED <<outcome, expired>>
    BY <1>12 DEF RequestCancel
  <2>2. QED
    BY <1>1, <1>2, <2>1 DEF Watched, Converted
<1>13. CASE Timeout
  <2>1. phase # "done" /\ phase' = phase /\ expired' = phase /\ UNCHANGED <<outcome, canceling>>
    BY <1>13 DEF Timeout
  <2>2. QED
    BY <1>1, <1>2, <2>1 DEF Watched, Converted
<1>14. CASE UNCHANGED vars
  BY <1>14 DEF Watched, Converted, vars
<1>15. QED
  BY <1>5, <1>6, <1>7, <1>8, <1>9, <1>10, <1>11, <1>12, <1>13, <1>14 DEF ConversionNext, Step

\* The conversion is a function of its input, checkpoint after checkpoint.
THEOREM ConversionIsAFunction == ConversionSpec => []ConversionInvariant
<1>1. ConversionInit => ConversionInvariant
  BY ComputesInit
<1>2. ConversionInvariant /\ [ConversionNext]_vars => ConversionInvariant'
  BY ComputesStep, WatchedStep DEF ConversionInvariant
<1>3. QED
  BY <1>1, <1>2, PTL DEF ConversionSpec

\* A cancellation that comes before the last checkpoint never gives a candidate.
THEOREM CancelInTimeHolds == ConversionSpec => []CancelInTime
<1>1. ConversionInvariant => CancelInTime
  BY DEF ConversionInvariant, Watched, CancelInTime
<1>2. QED
  BY <1>1, ConversionIsAFunction, PTL

\* One after another, the units of a document are what follows the first cut.
LEMMA NothingIsLost ==
    ASSUME NEW doc \in Documents
    PROVE  LET us   == Split(doc)
               kept == FlattenSeq([k \in DOMAIN us |-> us[k].blocks])
               lost == Len(doc.blocks) - Len(kept)
           IN  /\ IsSuffix(kept, doc.blocks)
               /\ ~HasProse(SubSeq(doc.blocks, 1, lost))
               /\ \A k, m \in DOMAIN us : us[k].path = us[m].path => k = m
               /\ MaxUnits > 0 /\ ~TooManyUnits(doc, MaxUnits) => Len(us) <= MaxUnits
<1>1. PICK n, c, us : /\ us = Split(doc)
                      /\ CutAt(doc, n, c)
                      /\ Filed(us, n)
                      /\ \A k \in 1..n : us[k].blocks = SubSeq(doc.blocks, c[k], c[k + 1] - 1)
  BY SplitIs
<1>2. PICK b, L : b = doc.blocks /\ b \in Seq(Blocks) /\ L = Len(b) /\ L \in Nat
  BY DEF Documents
<1>3. /\ n \in Nat \ {0} /\ c \in [1..(n + 1) -> 1..(L + 1)] /\ \A k \in 1..n : c[k] <= c[k + 1]
      /\ c[n + 1] = L + 1 /\ ~HasProse(SubSeq(b, 1, c[1] - 1))
  BY <1>1, <1>2 DEF CutAt
<1>4. DOMAIN us = 1..n /\ Len(us) = n /\ \A k, m \in 1..n : us[k].path = us[m].path => k = m
  <2>1. n \in Nat /\ us = [k \in 1..n |-> us[k]] /\ \A k, m \in 1..n : us[k].path = us[m].path => k = m
    BY <1>1 DEF Filed
  <2>2. DOMAIN us = 1..n /\ Len(us) = n
    BY <2>1
  <2>3. QED
    BY <2>1, <2>2
<1>5. PICK s, kept : s = [k \in DOMAIN us |-> us[k].blocks] /\ kept = FlattenSeq(s)
  OBVIOUS
<1>6. s = [k \in 1..n |-> SubSeq(b, c[k], c[k + 1] - 1)]
  BY <1>1, <1>2, <1>4, <1>5
<1>7. kept = SubSeq(b, c[1], L)
  <2>1. b \in Seq(Blocks) /\ c \in [1..(n + 1) -> 1..(Len(b) + 1)] /\ c[n + 1] = Len(b) + 1
    BY <1>2, <1>3
  <2>2. FlattenSeq(s) = SubSeq(b, c[1], Len(b))
    BY <1>3, <1>6, <2>1, FlattenCuts
  <2>3. QED
    BY <1>2, <1>5, <2>2
<1>8. c[1] \in 1..(L + 1)
  BY <1>3
<1>9. IsSuffix(kept, b) /\ Len(kept) = L - c[1] + 1
  BY <1>2, <1>7, <1>8, SuffixIs
<1>10. L - Len(kept) = c[1] - 1
  BY <1>2, <1>8, <1>9
<1>11. MaxUnits > 0 /\ ~TooManyUnits(doc, MaxUnits) => Len(us) <= MaxUnits
  <2>1. MaxUnits \in Nat
    BY ConversionAssumption
  <2>2. Len(Parts(doc)) = n
    BY <1>1, <1>3 DEF CutAt
  <2>3. CASE SplitLevel(b) = 0
    <3>1. Len(Parts(doc)) = 1
      BY <1>2, <2>3 DEF Parts
    <3>2. QED
      BY <1>4, <2>1, <2>2, <3>1
  <2>4. CASE SplitLevel(b) # 0
    <3>1. SplitLevel(b) > 0
      BY <2>4, SplitLevelIs
    <3>2. QED
      BY <1>2, <1>3, <1>4, <2>1, <2>2, <3>1 DEF TooManyUnits
  <2>5. QED
    BY <2>3, <2>4
<1>12. ~HasProse(SubSeq(b, 1, L - Len(kept)))
  BY <1>3, <1>10, Zenon
<1> HIDE <1>3, <1>6
<1>13. QED
  BY <1>1, <1>2, <1>4, <1>5, <1>9, <1>11, <1>12, Zenon

\* segment.Split promises that no content is lost, and keeps its promise for every
\* document.
THEOREM UnitsKeepTheProseHolds == ConversionSpec => []UnitsKeepTheProse
<1>1. ConversionInvariant => UnitsKeepTheProse
  <2> SUFFICES ASSUME ConversionInvariant, phase = "assets" PROVE UnitsKeepTheProse
    BY DEF UnitsKeepTheProse
  <2>1. input.doc \in Documents
    BY ConversionAssumption DEF ConversionInvariant, Computes
  <2>2. units = Split(input.doc) /\ ~TooManyUnits(input.doc, MaxUnits)
    BY DEF ConversionInvariant, Computes, Found
  <2>3. QED
    BY <2>1, <2>2, NothingIsLost DEF UnitsKeepTheProse
<1>2. QED
  BY <1>1, ConversionIsAFunction, PTL

---------------------------------------------------------------------------
(* Assets, one block after another *)

\* The accumulator after each of the first n blocks.
Extracting(f, at, start, n) ==
    f = [k \in 0..n |-> IF k = 0 THEN start ELSE ExtractOne(f[k - 1], at[k])]

\* There is such a function for every list of places.
LEMMA ExtractingExists ==
    ASSUME NEW at, NEW start, NEW n \in Nat PROVE \E f : Extracting(f, at, start, n)
<1> DEFINE Unsolved == {m \in Nat : \A f : ~Extracting(f, at, start, m)}
<1> SUFFICES ASSUME Unsolved # {} PROVE FALSE
  OBVIOUS
<1>1. PICK m \in Unsolved : \A k \in Unsolved : m <= k
  BY LeastNumber, Unsolved \subseteq Nat
<1>2. CASE m = 0
  <2> DEFINE f == [k \in 0..0 |-> start]
  <2>1. \A k \in 0..0 : k = 0
    OBVIOUS
  <2>2. Extracting(f, at, start, 0)
    BY <2>1 DEF Extracting
  <2>3. QED
    BY <1>1, <1>2, <2>2
<1>3. CASE m > 0
  <2>1. m \in Nat /\ m - 1 \in Nat /\ m - 1 \notin Unsolved
    BY <1>1, <1>3
  <2>2. PICK g : Extracting(g, at, start, m - 1)
    BY <2>1
  <2> DEFINE f == [k \in 0..m |-> IF k = m THEN ExtractOne(g[m - 1], at[m]) ELSE g[k]]
  <2>3. ASSUME NEW k \in 0..m PROVE f[k] = IF k = 0 THEN start ELSE ExtractOne(f[k - 1], at[k])
    <3>1. CASE k = m
      <4>1. m - 1 \in 0..m /\ m - 1 # m /\ m # 0
        BY <2>1, <1>3
      <4>2. f[m - 1] = g[m - 1] /\ f[m] = ExtractOne(g[m - 1], at[m])
        BY <2>1, <4>1
      <4>3. QED
        BY <3>1, <4>1, <4>2
    <3>2. CASE k # m
      <4>1. k \in 0..(m - 1) /\ k - 1 # m /\ f[k] = g[k]
        BY <2>1, <3>2
      <4>2. g[k] = IF k = 0 THEN start ELSE ExtractOne(g[k - 1], at[k])
        BY <2>2, <4>1 DEF Extracting
      <4>3. k # 0 => f[k - 1] = g[k - 1]
        BY <2>1, <4>1
      <4> HIDE DEF f
      <4>4. QED
        BY <4>1, <4>2, <4>3, Zenon
    <3>3. QED
      BY <3>1, <3>2
  <2>4. f = [k \in 0..m |-> f[k]]
    OBVIOUS
  <2> HIDE DEF f
  <2>5. Extracting(f, at, start, m)
    BY <2>3, <2>4 DEF Extracting
  <2>6. QED
    BY <1>1, <2>5
<1>4. QED
  BY <1>1, <1>2, <1>3

Start(us, files, budget) ==
    [units |-> us, fs |-> files, budget |-> budget, extracted |-> 0, skipped |-> 0, remote |-> 0]

\* What Extract has done after each of its blocks.
Walks(f, at, us, files, budget, n) ==
    /\ f[0] = Start(us, files, budget)
    /\ \A k \in 1..n : f[k] = ExtractOne(f[k - 1], at[k])
    /\ Extract(us, files, budget) = f[n]

\* Extract looks at one block after another.
LEMMA ExtractIs ==
    ASSUME NEW us, NEW files, NEW budget, NEW n \in Nat, n = Len(BlocksOf(us))
    PROVE  \E f : Walks(f, BlocksOf(us), us, files, budget, n)
<1> DEFINE at == BlocksOf(us)
           start == Start(us, files, budget)
<1>1. Extract(us, files, budget) = (CHOOSE f : Extracting(f, at, start, Len(at)))[Len(at)]
  BY Zenon DEF Extract, Extracting, Start
<1> HIDE DEF at, start
<1>2. \E f : Extracting(f, at, start, Len(at))
  BY ExtractingExists DEF at
<1>3. PICK f : Extracting(f, at, start, Len(at)) /\ Extract(us, files, budget) = f[Len(at)]
  BY <1>1, <1>2, Zenon
<1>4. n = Len(at)
  BY DEF at
<1>5. ASSUME NEW k \in 0..n PROVE f[k] = IF k = 0 THEN start ELSE ExtractOne(f[k - 1], at[k])
  BY <1>3, <1>4, Zenon DEF Extracting
<1>6. 0 \in 0..n /\ \A k \in 1..n : k \in 0..n /\ k # 0
  OBVIOUS
<1>7. f[0] = start /\ \A k \in 1..n : f[k] = ExtractOne(f[k - 1], at[k])
  BY <1>5, <1>6, Zenon
<1>8. QED
  BY <1>3, <1>4, <1>7 DEF at, start, Walks

\* Every number that BlocksOf lists is the place of a block.
Lists(at, us, n) ==
    /\ at \in Seq(Nat \X Nat)
    /\ \A x : x \in ToSet(at) <=> \E k \in 1..n : \E i \in DOMAIN us[k].blocks : x = <<k, i>>

\* BlocksOf lists all the blocks of the units.
LEMMA BlocksOfIs ==
    ASSUME NEW us, NEW n \in Nat, DOMAIN us = 1..n, \A k \in 1..n : us[k].blocks \in Seq(Blocks)
    PROVE  Lists(BlocksOf(us), us, n)
<1> DEFINE row(k) == [i \in DOMAIN us[k].blocks |-> <<k, i>>]
           s == [k \in DOMAIN us |-> row(k)]
<1>1. DOMAIN us = 1..n
  OBVIOUS
<1>2. ASSUME NEW k \in 1..n
      PROVE  row(k) \in Seq(Nat \X Nat) /\ DOMAIN row(k) = DOMAIN us[k].blocks
  <2>1. us[k].blocks \in Seq(Blocks)
    OBVIOUS
  <2>2. PICK m \in Nat : DOMAIN us[k].blocks = 1..m
    BY <2>1
  <2>3. \A i \in 1..m : <<k, i>> \in Nat \X Nat
    OBVIOUS
  <2>4. QED
    BY <2>2, <2>3
<1>3. s \in Seq(Seq(Nat \X Nat)) /\ DOMAIN s = 1..n /\ \A k \in 1..n : s[k] = row(k)
  BY <1>1, <1>2
<1>4. BlocksOf(us) = FlattenSeq(s)
  BY Zenon DEF BlocksOf
<1>5. ASSUME NEW k \in 1..n, NEW at
      PROVE  at \in ToSet(row(k)) <=> \E i \in DOMAIN us[k].blocks : at = <<k, i>>
  BY <1>2 DEF ToSet
<1> HIDE DEF s, row
<1>6. /\ FlattenSeq(s) \in Seq(Nat \X Nat)
      /\ \A x : x \in ToSet(FlattenSeq(s)) <=> \E k \in DOMAIN s : x \in ToSet(s[k])
  BY <1>3, FlattenHolds
<1>7. ASSUME NEW at
      PROVE  at \in ToSet(FlattenSeq(s)) <=> \E k \in 1..n : \E i \in DOMAIN us[k].blocks : at = <<k, i>>
  <2>1. at \in ToSet(FlattenSeq(s)) <=> \E k \in 1..n : at \in ToSet(s[k])
    BY <1>3, <1>6, Zenon
  <2>2. \A k \in 1..n : at \in ToSet(s[k]) <=> at \in ToSet(row(k))
    BY <1>3, Zenon
  <2>3. \A k \in 1..n : at \in ToSet(row(k)) <=> \E i \in DOMAIN us[k].blocks : at = <<k, i>>
    BY <1>5
  <2>4. QED
    BY ONLY <2>1, <2>2, <2>3, Zenon
<1>8. QED
  BY <1>4, <1>6, <1>7, Zenon DEF Lists

\* The image once its bytes are a file of the bundle.
ShownAs(img) == Image(img.alt, 0, img.size, FileLink(AssetPath(img.data)), img.remote)

\* The units are still those that were given, but for images whose bytes were taken out.
Keeps(us, now, n) ==
    /\ now = [k \in 1..n |-> With(us[k], now[k].blocks)]
    /\ \A k \in 1..n :
          /\ now[k].blocks = [i \in DOMAIN us[k].blocks |-> now[k].blocks[i]]
          /\ \A i \in DOMAIN us[k].blocks :
                /\ now[k].blocks[i] = Block(us[k].blocks[i].kind, us[k].blocks[i].level,
                                            us[k].blocks[i].text, now[k].blocks[i].image)
                /\ \/ now[k].blocks[i].image = us[k].blocks[i].image
                   \/ /\ us[k].blocks[i].image.data # 0
                      /\ now[k].blocks[i].image = ShownAs(us[k].blocks[i].image)

\* What a parser delivers, field by field.
LEMMA BlockIs ==
    ASSUME NEW b \in Blocks
    PROVE  /\ b = Block(b.kind, b.level, b.text, b.image)
           /\ b.image = Image(b.image.alt, b.image.data, b.image.size, b.image.url, b.image.remote)
           /\ b.image.data \in Nat /\ b.image.size \in Nat
<1>1. b = Block(b.kind, b.level, b.text, b.image) /\ b.image \in Images
  BY DEF Blocks, Block
<1>2. b.image = Image(b.image.alt, b.image.data, b.image.size, b.image.url, b.image.remote)
  BY <1>1 DEF Images, Image
<1>3. b.image.data \in Nat /\ b.image.size \in Nat
  BY <1>1 DEF Images
<1>4. QED
  BY <1>1, <1>2, <1>3

\* The image at i of the unit k is shown from its file, and nothing else changes.
Referred(us, now, new, k, i, n) ==
    /\ now[k].blocks[i].image = us[k].blocks[i].image
    /\ Keeps(us, new, n)
    /\ new[k].blocks[i].image = ShownAs(us[k].blocks[i].image)
    /\ \A m \in 1..n : \A j \in DOMAIN us[m].blocks :
          m # k \/ j # i => new[m].blocks[j].image = now[m].blocks[j].image

\* Refer keeps the units.
LEMMA ReferKeeps ==
    ASSUME NEW us, NEW n \in Nat, \A k \in 1..n : us[k].blocks \in Seq(Blocks),
           NEW now, Keeps(us, now, n),
           NEW k \in 1..n, NEW i \in DOMAIN us[k].blocks, NEW at, at = <<k, i>>,
           NEW img, img = now[k].blocks[i].image, img.data # 0,
           NEW new, new = Refer(now, at, AssetPath(img.data))
    PROVE  Referred(us, now, new, k, i, n)
<1>1. img = us[k].blocks[i].image
  <2>1. ShownAs(us[k].blocks[i].image).data = 0
    BY DEF ShownAs, Image
  <2>2. QED
    BY <2>1 DEF Keeps
<1>2. us[k].blocks[i] \in Blocks
  OBVIOUS
<1>3. img = Image(img.alt, img.data, img.size, img.url, img.remote)
  BY <1>1, <1>2, BlockIs
<1>4. PICK b : b = us[k].blocks[i]
  OBVIOUS
<1> DEFINE img2 == [img EXCEPT !.url = FileLink(AssetPath(img.data)), !.data = 0]
           b2 == [now[k].blocks[i] EXCEPT !.image = img2]
           bs2 == [now[k].blocks EXCEPT ![i] = b2]
           u2 == [now[k] EXCEPT !.blocks = bs2]
<1>5. new = [now EXCEPT ![k] = u2]
  <2>1. at[1] = k /\ at[2] = i
    OBVIOUS
  <2>2. QED
    BY <2>1, Zenon DEF Refer
<1>6. img2 = ShownAs(img)
  <2>1. PICK url : url = FileLink(AssetPath(img.data))
    OBVIOUS
  <2>2. PICK alt, data, size, old, remote :
            /\ alt = img.alt /\ data = img.data /\ size = img.size /\ old = img.url /\ remote = img.remote
            /\ img = [alt |-> alt, data |-> data, size |-> size, url |-> old, remote |-> remote]
    BY <1>3, Zenon DEF Image
  <2> HIDE DEF img2
  <2>3. [img EXCEPT !.url = url, !.data = 0]
            = [alt |-> alt, data |-> 0, size |-> size, url |-> url, remote |-> remote]
    <3>1. PICK none : none = 0
      OBVIOUS
    <3>2. [img EXCEPT !.url = url, !.data = none]
            = [alt |-> alt, data |-> none, size |-> size, url |-> url, remote |-> remote]
      <4>1. [img EXCEPT !.url = url, !.data = none] = [[img EXCEPT !.url = url] EXCEPT !.data = none]
        BY ONLY Zenon
      <4>2. PICK shown : shown = [img EXCEPT !.url = url]
        OBVIOUS
      <4>3. shown = [alt |-> alt, data |-> data, size |-> size, url |-> url, remote |-> remote]
        BY ONLY <2>2, <4>2
      <4>4. [shown EXCEPT !.data = none] = [alt |-> alt, data |-> none, size |-> size, url |-> url, remote |-> remote]
        BY ONLY <4>3
      <4>5. QED
        BY ONLY <4>1, <4>2, <4>4, Zenon
    <3>3. QED
      BY ONLY <3>1, <3>2, Zenon
  <2>4. QED
    BY <2>1, <2>2, <2>3, Zenon DEF ShownAs, Image, img2
<1>7. now[k].blocks[i] = Block(b.kind, b.level, b.text, img)
  BY <1>4 DEF Keeps
<1> HIDE DEF img2
<1>8. b2 = Block(b.kind, b.level, b.text, img2)
  BY <1>7 DEF Block
<1> HIDE DEF b2
<1>9. bs2 = [j \in DOMAIN us[k].blocks |-> IF j = i THEN b2 ELSE now[k].blocks[j]]
  <2>1. now[k].blocks = [j \in DOMAIN us[k].blocks |-> now[k].blocks[j]]
    BY DEF Keeps
  <2>2. QED
    BY <2>1
<1> HIDE DEF bs2
<1>10. u2 = With(us[k], bs2)
  <2>1. now[k] = With(us[k], now[k].blocks)
    BY DEF Keeps
  <2>2. QED
    BY <2>1 DEF With
<1> HIDE DEF u2
<1>11. now = [m \in 1..n |-> now[m]]
  BY DEF Keeps
<1>12. new = [m \in 1..n |-> IF m = k THEN u2 ELSE now[m]]
  BY <1>5, <1>11
<1>13. new[k] = u2 /\ \A m \in 1..n : m # k => new[m] = now[m]
  BY <1>12
<1>14. u2.blocks = bs2
  BY <1>10 DEF With
<1>15. bs2[i] = b2 /\ \A j \in DOMAIN us[k].blocks : j # i => bs2[j] = now[k].blocks[j]
  BY <1>9
<1>16. b2.image = img2
  BY <1>8 DEF Block
<1>17. new[k].blocks[i].image = ShownAs(img)
  BY <1>6, <1>13, <1>14, <1>15, <1>16
<1>18. ASSUME NEW m \in 1..n, NEW j \in DOMAIN us[m].blocks, m # k \/ j # i
       PROVE  new[m].blocks[j] = now[m].blocks[j]
  <2>1. CASE m # k
    BY <1>13, <2>1
  <2>2. CASE m = k
    BY <1>13, <1>14, <1>15, <1>18, <2>2
  <2>3. QED
    BY <2>1, <2>2
<1>19. ASSUME NEW m \in 1..n
       PROVE  new[m] = With(us[m], new[m].blocks)
  <2>1. CASE m = k
    BY <1>10, <1>13, <1>14, <2>1
  <2>2. CASE m # k
    <3>1. now[m] = With(us[m], now[m].blocks)
      BY DEF Keeps
    <3>2. QED
      BY <1>13, <2>2, <3>1, Zenon
  <2>3. QED
    BY <2>1, <2>2
<1>20. new = [m \in 1..n |-> With(us[m], new[m].blocks)]
  BY <1>12, <1>19
<1>21. ASSUME NEW m \in 1..n
       PROVE  new[m].blocks = [j \in DOMAIN us[m].blocks |-> new[m].blocks[j]]
  <2>1. CASE m = k
    BY <1>9, <1>13, <1>14, <2>1
  <2>2. CASE m # k
    <3>1. now[m].blocks = [j \in DOMAIN us[m].blocks |-> now[m].blocks[j]]
      BY DEF Keeps
    <3>2. QED
      BY <1>13, <2>2, <3>1, Zenon
  <2>3. QED
    BY <2>1, <2>2
<1>22. ASSUME NEW m \in 1..n, NEW j \in DOMAIN us[m].blocks
       PROVE  /\ new[m].blocks[j] = Block(us[m].blocks[j].kind, us[m].blocks[j].level,
                                          us[m].blocks[j].text, new[m].blocks[j].image)
              /\ \/ new[m].blocks[j].image = us[m].blocks[j].image
                 \/ /\ us[m].blocks[j].image.data # 0
                    /\ new[m].blocks[j].image = ShownAs(us[m].blocks[j].image)
  <2>1. CASE m # k \/ j # i
    <3>1. /\ now[m].blocks[j] = Block(us[m].blocks[j].kind, us[m].blocks[j].level,
                                      us[m].blocks[j].text, now[m].blocks[j].image)
          /\ \/ now[m].blocks[j].image = us[m].blocks[j].image
             \/ /\ us[m].blocks[j].image.data # 0
                /\ now[m].blocks[j].image = ShownAs(us[m].blocks[j].image)
      BY DEF Keeps
    <3>2. new[m].blocks[j] = now[m].blocks[j]
      BY <1>18, <2>1
    <3>3. QED
      BY ONLY <3>1, <3>2, Zenon
  <2>2. CASE m = k /\ j = i
    <3>1. new[m].blocks[j] = b2 /\ us[m].blocks[j] = b
      BY <1>4, <1>13, <1>14, <1>15, <2>2
    <3>2. new[m].blocks[j] = Block(b.kind, b.level, b.text, b2.image)
      BY <1>8, <1>16, <3>1, Zenon
    <3>3. new[m].blocks[j].image = ShownAs(b.image) /\ b.image.data # 0
      BY <1>1, <1>4, <1>17, <2>2
    <3>4. QED
      BY <3>1, <3>2, <3>3, Zenon
  <2>3. QED
    BY <2>1, <2>2
<1>23. Keeps(us, new, n)
  BY <1>20, <1>21, <1>22 DEF Keeps
<1>24. \A m \in 1..n : \A j \in DOMAIN us[m].blocks :
          m # k \/ j # i => new[m].blocks[j].image = now[m].blocks[j].image
  BY <1>18
<1>25. QED
  BY <1>1, <1>17, <1>23, <1>24 DEF Referred

\* What a file that is written for the first time adds.
Written(f, p, d, g) ==
    /\ DOMAIN g = {"files", "next"}
    /\ g.next = f.next + 1
    /\ DOMAIN g.files = DOMAIN f.files \cup {p}
    /\ g.files[p] = [seq |-> f.next, data |-> d]
    /\ \A q \in DOMAIN f.files : g.files[q] = f.files[q] /\ q # p

\* Put writes a file that was not there.
LEMMA PutNew ==
    ASSUME NEW f, NEW p, NEW d, ~Has(f, p), NEW g, g = Put(f, p, d)
    PROVE  Written(f, p, d, g)
<1>1. g = [next  |-> f.next + 1,
           files |-> [q \in DOMAIN f.files \cup {p} |->
                         IF q = p THEN [seq |-> f.next, data |-> d] ELSE f.files[q]]]
  BY Zenon DEF Put
<1>2. PICK next, entry, old : next = f.next + 1 /\ entry = [seq |-> f.next, data |-> d] /\ old = f.files
  OBVIOUS
<1>3. g = [next |-> next, files |-> [q \in DOMAIN old \cup {p} |-> IF q = p THEN entry ELSE old[q]]]
  BY <1>1, <1>2, Zenon
<1>4. p \notin DOMAIN old
  BY <1>2 DEF Has
<1>5. /\ DOMAIN g = {"files", "next"}
      /\ g.next = next /\ DOMAIN g.files = DOMAIN old \cup {p} /\ g.files[p] = entry
      /\ \A q \in DOMAIN old : g.files[q] = old[q] /\ q # p
  BY <1>3, <1>4
<1>6. QED
  BY <1>2, <1>5, Zenon DEF Written

Fields == {"units", "fs", "budget", "extracted", "skipped", "remote"}

\* What happens to one block: nothing, or its image is shown from a file that is already
\* there, or from one that is written and paid for.
LEMMA ExtractOneIs ==
    ASSUME NEW acc, DOMAIN acc = Fields, NEW at, NEW img, img = ImageAt(acc.units, at),
           NEW path, path = AssetPath(img.data), NEW new, new = ExtractOne(acc, at)
    PROVE  /\ DOMAIN new = Fields
           /\ \/ new.units = acc.units /\ new.fs = acc.fs /\ new.budget = acc.budget
              \/ /\ img.data # 0 /\ new.units = Refer(acc.units, at, path)
                 /\ Has(acc.fs, path) /\ new.fs = acc.fs /\ new.budget = acc.budget
              \/ /\ img.data # 0 /\ new.units = Refer(acc.units, at, path)
                 /\ ~Has(acc.fs, path) /\ new.fs = Put(acc.fs, path, img.size)
                 /\ ~(img.size > acc.budget) /\ new.budget = acc.budget - img.size
<1>1. PICK refer, put, less : /\ refer = Refer(acc.units, at, path) /\ put = Put(acc.fs, path, img.size)
                              /\ less = acc.budget - img.size
  OBVIOUS
<1>2. PICK taken : taken = [acc EXCEPT !.units = refer]
  OBVIOUS
<1>3. DOMAIN taken = Fields /\ taken.units = refer /\ taken.fs = acc.fs /\ taken.budget = acc.budget
  BY <1>2 DEF Fields
<1>4. CASE img = NoImage
  BY <1>4, Zenon DEF ExtractOne
<1>5. CASE img # NoImage /\ img.remote
  <2>1. new = [acc EXCEPT !.remote = acc.remote + 1]
    BY <1>5, Zenon DEF ExtractOne
  <2>2. QED
    BY <2>1 DEF Fields
<1>6. CASE img # NoImage /\ ~img.remote /\ (img.data = 0 \/ img.size > acc.budget)
  <2>1. new = [acc EXCEPT !.skipped = acc.skipped + 1]
    BY <1>6, Zenon DEF ExtractOne
  <2>2. QED
    BY <2>1 DEF Fields
<1>7. CASE img # NoImage /\ ~img.remote /\ ~(img.data = 0 \/ img.size > acc.budget)
  <2>1. CASE Has(acc.fs, path)
    <3>1. new = [acc EXCEPT !.units = Refer(acc.units, at, path)]
      BY <1>7, <2>1, Zenon DEF ExtractOne
    <3>2. new = taken
      BY <1>1, <1>2, <3>1, Zenon
    <3>3. QED
      BY <1>1, <1>3, <1>7, <2>1, <3>2, Zenon
  <2>2. CASE ~Has(acc.fs, path)
    <3>1. PICK count : count = taken.extracted + 1
      OBVIOUS
    <3>2. new = [taken EXCEPT !.fs = put, !.budget = less, !.extracted = count]
      <4>1. new = [[acc EXCEPT !.units = Refer(acc.units, at, path)] EXCEPT
                      !.fs = Put(@, path, img.size), !.budget = @ - img.size, !.extracted = @ + 1]
        BY <1>7, <2>2, Zenon DEF ExtractOne
      <4>2. new = [taken EXCEPT !.fs = Put(@, path, img.size), !.budget = @ - img.size, !.extracted = @ + 1]
        BY <1>1, <1>2, <4>1, Zenon
      <4>3. new = [taken EXCEPT !.fs = Put(taken.fs, path, img.size), !.budget = taken.budget - img.size,
                                !.extracted = taken.extracted + 1]
        BY <4>2, Zenon
      <4>4. QED
        BY <1>1, <1>3, <3>1, <4>3, Zenon
    <3>3. DOMAIN new = Fields /\ new.units = refer /\ new.fs = put /\ new.budget = less
      BY <1>3, <3>2 DEF Fields
    <3>4. QED
      BY <1>1, <1>7, <2>2, <3>3, Zenon
  <2>3. QED
    BY <2>1, <2>2
<1>8. QED
  BY <1>4, <1>5, <1>6, <1>7

\* The sizes of the files and what is left of the budget add up to the budget.
Paid(files, left, total) ==
    /\ IsFiniteSet(DOMAIN files)
    /\ \A p \in DOMAIN files : files[p].data \in Nat
    /\ left \in Nat
    /\ SumFunctionOnSet([p \in DOMAIN files |-> files[p].data], DOMAIN files) + left = total

\* The bytes of the image were taken out.
TakenOut(us, now, k, i) == us[k].blocks[i].image.data # 0 /\ now[k].blocks[i].image.data = 0

\* The files are those shown by the images whose bytes were taken out.
Shows(files, us, now, n) ==
    \A p : p \in DOMAIN files
             <=> \E k \in 1..n : \E i \in DOMAIN us[k].blocks :
                    TakenOut(us, now, k, i) /\ p = AssetPath(us[k].blocks[i].image.data)

\* The accumulator, after any number of blocks.
Spent(acc, us, n, total) ==
    /\ DOMAIN acc = Fields
    /\ Keeps(us, acc.units, n)
    /\ acc.fs.next \in Nat
    /\ Paid(acc.fs.files, acc.budget, total)
    /\ Shows(acc.fs.files, us, acc.units, n)

\* A new file is paid for.
LEMMA PutPays ==
    ASSUME NEW f, NEW p, ~Has(f, p), NEW left, NEW total, Paid(f.files, left, total),
           NEW size \in Nat, ~(size > left), NEW g, g = Put(f, p, size)
    PROVE  Paid(g.files, left - size, total)
<1>1. PICK old, new : old = f.files /\ new = g.files
  OBVIOUS
<1>2. p \notin DOMAIN old
  BY <1>1 DEF Has
<1>3. /\ DOMAIN new = DOMAIN old \cup {p} /\ new[p] = [seq |-> f.next, data |-> size]
      /\ \A q \in DOMAIN old : new[q] = old[q]
  <2>1. Written(f, p, size, g)
    BY PutNew
  <2>2. QED
    BY <1>1, <2>1 DEF Written
<1>4. new[p].data = size
  BY <1>3
<1>5. /\ IsFiniteSet(DOMAIN old) /\ left \in Nat
      /\ \A q \in DOMAIN old : old[q].data \in Nat
      /\ SumFunctionOnSet([q \in DOMAIN old |-> old[q].data], DOMAIN old) + left = total
  BY <1>1, Zenon DEF Paid
<1>6. IsFiniteSet(DOMAIN new)
  BY <1>3, <1>5, FS_AddElement
<1>7. \A q \in DOMAIN new : new[q].data \in Nat
  BY <1>3, <1>4, <1>5
<1> DEFINE before == [q \in DOMAIN old |-> old[q].data]
           after == [q \in DOMAIN new |-> new[q].data]
<1>8. /\ \A q \in DOMAIN old : before[q] = after[q] /\ before[q] \in Nat
      /\ \A q \in DOMAIN new : after[q] \in Nat
      /\ after[p] = size
  BY <1>3, <1>4, <1>5, <1>7
<1> HIDE DEF before, after
<1>9. DOMAIN new \ {p} = DOMAIN old /\ p \in DOMAIN new
  BY <1>2, <1>3
<1>10. SumFunctionOnSet(after, DOMAIN new) = size + SumFunctionOnSet(after, DOMAIN new \ {p})
  BY <1>6, <1>8, <1>9, SumMore
<1>11. /\ SumFunctionOnSet(before, DOMAIN old) = SumFunctionOnSet(after, DOMAIN old)
       /\ SumFunctionOnSet(before, DOMAIN old) \in Nat
  BY <1>5, <1>8, SumSame
<1>12. PICK a, b : a = SumFunctionOnSet(before, DOMAIN old) /\ b = SumFunctionOnSet(after, DOMAIN new)
  OBVIOUS
<1>13. a \in Nat /\ b = size + a /\ a + left = total
  BY <1>5, <1>9, <1>10, <1>11, <1>12 DEF before
<1>14. b + (left - size) = total /\ left - size \in Nat
  BY <1>5, <1>13
<1>15. QED
  BY <1>1, <1>6, <1>7, <1>12, <1>14 DEF Paid, after

\* When one more image is shown from a file, the files still are those that are shown.
LEMMA ReferShows ==
    ASSUME NEW us, NEW n, NEW now, NEW new, NEW k \in 1..n, NEW i \in DOMAIN us[k].blocks,
           Referred(us, now, new, k, i, n), us[k].blocks[i].image.data # 0,
           NEW files, Shows(files, us, now, n),
           NEW more, DOMAIN more = DOMAIN files \cup {AssetPath(us[k].blocks[i].image.data)}
    PROVE  Shows(more, us, new, n)
<1>1. /\ new[k].blocks[i].image = ShownAs(us[k].blocks[i].image)
      /\ \A m \in 1..n : \A j \in DOMAIN us[m].blocks :
            m # k \/ j # i => new[m].blocks[j].image = now[m].blocks[j].image
  BY DEF Referred
<1>2. ShownAs(us[k].blocks[i].image).data = 0
  BY DEF ShownAs, Image
<1>3. TakenOut(us, new, k, i)
  BY <1>1, <1>2 DEF TakenOut
<1>4. \A m \in 1..n : \A j \in DOMAIN us[m].blocks :
        m # k \/ j # i => (TakenOut(us, new, m, j) <=> TakenOut(us, now, m, j))
  BY <1>1 DEF TakenOut
<1>5. ASSUME NEW p
      PROVE  p \in DOMAIN more
               <=> \E m \in 1..n : \E j \in DOMAIN us[m].blocks :
                      TakenOut(us, new, m, j) /\ p = AssetPath(us[m].blocks[j].image.data)
  <2>1. p \in DOMAIN files
          <=> \E m \in 1..n : \E j \in DOMAIN us[m].blocks :
                 TakenOut(us, now, m, j) /\ p = AssetPath(us[m].blocks[j].image.data)
    BY DEF Shows
  <2>2. p \in DOMAIN more <=> p \in DOMAIN files \/ p = AssetPath(us[k].blocks[i].image.data)
    OBVIOUS
  <2>3. QED
    BY ONLY <1>3, <1>4, <2>1, <2>2, k \in 1..n, i \in DOMAIN us[k].blocks, Zenon
<1>6. QED
  BY <1>5 DEF Shows

\* One block.
LEMMA SpentStep ==
    ASSUME NEW us, NEW n \in Nat, \A k \in 1..n : us[k].blocks \in Seq(Blocks), NEW total,
           NEW acc, Spent(acc, us, n, total),
           NEW k \in 1..n, NEW i \in DOMAIN us[k].blocks, NEW at, at = <<k, i>>,
           NEW new, new = ExtractOne(acc, at)
    PROVE  Spent(new, us, n, total)
<1>1. PICK img, path : img = acc.units[k].blocks[i].image /\ path = AssetPath(img.data)
  OBVIOUS
<1>2. img = ImageAt(acc.units, at)
  <2>1. at[1] = k /\ at[2] = i
    OBVIOUS
  <2>2. QED
    BY <1>1, <2>1 DEF ImageAt
<1>3. /\ DOMAIN acc = Fields /\ Keeps(us, acc.units, n) /\ acc.fs.next \in Nat
      /\ Paid(acc.fs.files, acc.budget, total) /\ Shows(acc.fs.files, us, acc.units, n)
  BY DEF Spent
<1>4. /\ DOMAIN new = Fields
      /\ \/ new.units = acc.units /\ new.fs = acc.fs /\ new.budget = acc.budget
         \/ /\ img.data # 0 /\ new.units = Refer(acc.units, at, path)
            /\ Has(acc.fs, path) /\ new.fs = acc.fs /\ new.budget = acc.budget
         \/ /\ img.data # 0 /\ new.units = Refer(acc.units, at, path)
            /\ ~Has(acc.fs, path) /\ new.fs = Put(acc.fs, path, img.size)
            /\ ~(img.size > acc.budget) /\ new.budget = acc.budget - img.size
  BY <1>1, <1>2, <1>3, ExtractOneIs
<1>5. CASE new.units = acc.units /\ new.fs = acc.fs /\ new.budget = acc.budget
  BY <1>3, <1>4, <1>5, Zenon DEF Spent
<1>6. CASE img.data # 0 /\ new.units = Refer(acc.units, at, path)
  <2>1. PICK now, then : now = acc.units /\ then = new.units
    OBVIOUS
  <2>2. Keeps(us, now, n) /\ then = Refer(now, at, AssetPath(img.data)) /\ img = now[k].blocks[i].image
    BY <1>1, <1>3, <1>6, <2>1
  <2>7. Referred(us, now, then, k, i, n)
    BY <1>6, <2>2, ReferKeeps
  <2>3. Keeps(us, then, n) /\ img = us[k].blocks[i].image
    BY <2>2, <2>7 DEF Referred
  <2>4. CASE Has(acc.fs, path) /\ new.fs = acc.fs /\ new.budget = acc.budget
    <3>1. PICK files : files = acc.fs.files
      OBVIOUS
    <3>2. DOMAIN files = DOMAIN files \cup {AssetPath(img.data)}
      BY <1>1, <2>4, <3>1 DEF Has
    <3>3. Shows(files, us, now, n)
      BY <1>3, <2>1, <3>1
    <3>4. Shows(files, us, then, n)
      BY <1>6, <2>3, <2>7, <3>2, <3>3, ReferShows
    <3>5. QED
      BY <1>3, <1>4, <2>1, <2>3, <2>4, <3>1, <3>4, Zenon DEF Spent
  <2>5. CASE /\ ~Has(acc.fs, path) /\ new.fs = Put(acc.fs, path, img.size)
             /\ ~(img.size > acc.budget) /\ new.budget = acc.budget - img.size
    <3>1. PICK files, more : files = acc.fs.files /\ more = new.fs.files
      OBVIOUS
    <3>2. DOMAIN more = DOMAIN files \cup {AssetPath(img.data)} /\ new.fs.next = acc.fs.next + 1
      <4>1. PICK f, g, size : f = acc.fs /\ g = new.fs /\ size = img.size
        OBVIOUS
      <4>2. ~Has(f, path) /\ g = Put(f, path, size)
        BY <2>5, <4>1, Zenon
      <4>3. Written(f, path, size, g)
        BY <4>2, PutNew
      <4>4. QED
        BY <1>1, <3>1, <4>1, <4>3, Zenon DEF Written
    <3>3. Shows(files, us, now, n)
      BY <1>3, <2>1, <3>1
    <3>4. Shows(more, us, then, n)
      <4>1. /\ us[k].blocks[i].image.data # 0
            /\ DOMAIN more = DOMAIN files \cup {AssetPath(us[k].blocks[i].image.data)}
        BY <1>6, <2>3, <3>2, Zenon
      <4>2. QED
        BY <2>7, <3>3, <4>1, ReferShows
    <3>5. img.size \in Nat
      <4>1. us[k].blocks[i] \in Blocks
        OBVIOUS
      <4>2. QED
        BY <2>3, <4>1, BlockIs
    <3>6. Paid(more, new.budget, total)
      BY <1>3, <2>5, <3>1, <3>5, PutPays
    <3>7. new.fs.next \in Nat
      BY <1>3, <3>2
    <3>8. QED
      BY <1>4, <2>1, <2>3, <3>1, <3>4, <3>6, <3>7, Zenon DEF Spent
  <2>6. QED
    BY <1>4, <1>5, <2>4, <2>5
<1>7. QED
  BY <1>4, <1>5, <1>6

\* What Split delivers and the later stages start from.
Delivered(us, n) ==
    /\ Filed(us, n)
    /\ \A k \in 1..n : us[k].blocks \in Seq(Blocks) /\ us[k] = With(us[k], us[k].blocks)

\* The units that Split delivers, as a sequence.
LEMMA DeliveredIs ==
    ASSUME NEW us, NEW n, Delivered(us, n)
    PROVE  /\ n \in Nat \ {0} /\ us = [k \in 1..n |-> us[k]] /\ DOMAIN us = 1..n /\ Len(us) = n
           /\ \A k \in 1..n : us[k].blocks \in Seq(Blocks)
<1>1. n \in Nat \ {0} /\ us = [k \in 1..n |-> us[k]] /\ \A k \in 1..n : us[k].blocks \in Seq(Blocks)
  BY DEF Delivered, Filed
<1>2. DOMAIN us = 1..n /\ Len(us) = n
  BY <1>1
<1>3. QED
  BY <1>1, <1>2

\* Before the first block.
LEMMA SpentStart ==
    ASSUME NEW us, NEW n, Delivered(us, n), NEW total \in Nat
    PROVE  Spent(Start(us, EmptyFS, total), us, n, total)
<1> DEFINE acc == Start(us, EmptyFS, total)
<1>1. acc.units = us /\ acc.fs = EmptyFS /\ acc.budget = total /\ DOMAIN acc = Fields
  BY DEF Start, Fields
<1>2. EmptyFS.next = 0 /\ DOMAIN EmptyFS.files = {}
  BY DEF EmptyFS
<1>3. /\ us = [k \in 1..n |-> us[k]] /\ \A k \in 1..n : us[k].blocks \in Seq(Blocks)
      /\ \A k \in 1..n : us[k] = With(us[k], us[k].blocks)
  BY DEF Delivered, Filed
<1>4. us = [k \in 1..n |-> With(us[k], us[k].blocks)]
  BY <1>3
<1>5. ASSUME NEW k \in 1..n
      PROVE  /\ us[k].blocks = [i \in DOMAIN us[k].blocks |-> us[k].blocks[i]]
             /\ \A i \in DOMAIN us[k].blocks :
                   us[k].blocks[i] = Block(us[k].blocks[i].kind, us[k].blocks[i].level,
                                           us[k].blocks[i].text, us[k].blocks[i].image)
  <2>1. us[k].blocks \in Seq(Blocks)
    BY <1>3
  <2>2. us[k].blocks = [i \in DOMAIN us[k].blocks |-> us[k].blocks[i]]
    BY <2>1
  <2>3. ASSUME NEW i \in DOMAIN us[k].blocks
        PROVE  us[k].blocks[i] = Block(us[k].blocks[i].kind, us[k].blocks[i].level,
                                       us[k].blocks[i].text, us[k].blocks[i].image)
    <3>1. us[k].blocks[i] \in Blocks
      BY <2>1
    <3>2. QED
      BY <3>1, BlockIs
  <2>4. QED
    BY <2>2, <2>3
<1>6. Keeps(us, us, n)
  BY <1>4, <1>5, Zenon DEF Keeps
<1>7. Paid(EmptyFS.files, total, total)
  <2>1. PICK files : files = EmptyFS.files
    OBVIOUS
  <2>2. IsFiniteSet(DOMAIN files) /\ \A p \in DOMAIN files : files[p].data \in Nat
    BY <1>2, <2>1, FS_EmptySet
  <2>3. SumFunctionOnSet([p \in DOMAIN files |-> files[p].data], DOMAIN files) = 0
    BY <1>2, <2>1, SumEmpty
  <2>4. 0 + total = total
    OBVIOUS
  <2>5. QED
    BY <2>1, <2>2, <2>3, <2>4, Zenon DEF Paid
<1>8. Shows(EmptyFS.files, us, us, n)
  BY <1>2 DEF Shows, TakenOut
<1> HIDE DEF acc
<1>9. 0 \in Nat
  OBVIOUS
<1>10. Spent(acc, us, n, total)
  BY <1>1, <1>2, <1>6, <1>7, <1>8, <1>9, Zenon DEF Spent
<1>11. QED
  BY <1>10 DEF acc

\* After the last one.
LEMMA ExtractSpends ==
    ASSUME NEW us, NEW n, Delivered(us, n), NEW total \in Nat
    PROVE  Spent(Extract(us, EmptyFS, total), us, n, total)
<1>1. n \in Nat /\ DOMAIN us = 1..n /\ \A k \in 1..n : us[k].blocks \in Seq(Blocks)
  BY DeliveredIs
<1>2. PICK at, m : at = BlocksOf(us) /\ m = Len(at)
  OBVIOUS
<1>3. /\ at \in Seq(Nat \X Nat)
      /\ \A x \in ToSet(at) : \E k \in 1..n : \E i \in DOMAIN us[k].blocks : x = <<k, i>>
  <2>1. Lists(BlocksOf(us), us, n)
    BY <1>1, BlocksOfIs
  <2>2. QED
    BY <1>2, <2>1, Zenon DEF Lists
<1>4. m \in Nat
  BY <1>2, <1>3
<1>5. PICK f : /\ f[0] = Start(us, EmptyFS, total)
               /\ \A j \in 1..m : f[j] = ExtractOne(f[j - 1], at[j])
               /\ Extract(us, EmptyFS, total) = f[m]
  <2>1. m \in Nat /\ m = Len(BlocksOf(us))
    BY <1>2, <1>4
  <2>2. \E f : Walks(f, BlocksOf(us), us, EmptyFS, total, m)
    BY ONLY <2>1, ExtractIs
  <2>3. QED
    BY ONLY <1>2, <2>2, Zenon DEF Walks
<1> DEFINE Bad == {j \in 0..m : ~Spent(f[j], us, n, total)}
<1>6. ASSUME NEW j \in Bad, \A x \in Bad : j <= x PROVE FALSE
  <2>1. CASE j = 0
    BY <1>5, <2>1, SpentStart
  <2>2. CASE j # 0
    <3>1. j \in 1..m /\ j - 1 \in 0..m /\ ~(j <= j - 1)
      BY <1>4, <2>2
    <3>2. Spent(f[j - 1], us, n, total)
      BY <1>6, <3>1
    <3>3. at[j] \in ToSet(at)
      <4>1. j \in DOMAIN at
        BY <1>2, <1>3, <3>1
      <4>2. QED
        BY <4>1 DEF ToSet
    <3>4. PICK k \in 1..n : \E i \in DOMAIN us[k].blocks : at[j] = <<k, i>>
      BY <1>3, <3>3
    <3>5. PICK i \in DOMAIN us[k].blocks : at[j] = <<k, i>>
      BY <3>4
    <3>6. f[j] = ExtractOne(f[j - 1], at[j])
      BY <1>5, <3>1
    <3>7. Spent(f[j], us, n, total)
      BY <1>1, <3>2, <3>5, <3>6, SpentStep
    <3>8. QED
      BY <3>7
  <2>3. QED
    BY <2>1, <2>2
<1>7. Bad \subseteq Nat
  OBVIOUS
<1>8. Bad = {}
  <2> HIDE DEF Bad
  <2>1. QED
    BY <1>6, <1>7, LeastNumber
<1>9. m \in 0..m
  BY <1>4
<1>10. QED
  BY <1>5, <1>8, <1>9

\* The units keep their titles and their files.
LEMMA KeepsFiled ==
    ASSUME NEW us, NEW n, Filed(us, n), NEW now, Keeps(us, now, n)
    PROVE  /\ Filed(now, n)
           /\ \A k \in 1..n : /\ now[k].title = us[k].title /\ now[k].path = us[k].path
                              /\ now[k].anchor = us[k].anchor
                              /\ DOMAIN now[k].blocks = DOMAIN us[k].blocks
<1>1. \A k \in 1..n : now[k] = With(us[k], now[k].blocks)
  BY DEF Keeps
<1>2. \A k \in 1..n : /\ now[k].title = us[k].title /\ now[k].path = us[k].path
                      /\ now[k].anchor = us[k].anchor /\ now[k].order = us[k].order
  <2>1. ASSUME NEW k \in 1..n
        PROVE  /\ now[k].title = us[k].title /\ now[k].path = us[k].path
               /\ now[k].anchor = us[k].anchor /\ now[k].order = us[k].order
    <3>1. PICK unit, blocks : unit = us[k] /\ blocks = now[k].blocks
      OBVIOUS
    <3>2. now[k] = With(unit, blocks)
      BY <1>1, <3>1
    <3>3. QED
      BY <3>1, <3>2 DEF With
  <2>2. QED
    BY <2>1
<1>3. now = [k \in 1..n |-> now[k]]
  BY DEF Keeps
<1>4. \A k \in 1..n : DOMAIN now[k].blocks = DOMAIN us[k].blocks
  <2>1. ASSUME NEW k \in 1..n PROVE DOMAIN now[k].blocks = DOMAIN us[k].blocks
    <3>1. now[k].blocks = [i \in DOMAIN us[k].blocks |-> now[k].blocks[i]]
      BY DEF Keeps
    <3>2. QED
      BY <3>1, Zenon
  <2>2. QED
    BY <2>1
<1>5. Filed(now, n)
  BY <1>2, <1>3 DEF Filed
<1>6. QED
  BY <1>2, <1>4, <1>5

---------------------------------------------------------------------------
(* Rendering, one concept after another *)

\* The files after each of the first n concepts.
Rendering(f, e, us, anchors, n) ==
    f = [k \in 0..n |-> IF k = 0 THEN e ELSE Put(f[k - 1], us[k].path, Concept(us, k, anchors))]

\* There is such a function for every sequence of units.
LEMMA RenderingExists ==
    ASSUME NEW e, NEW us, NEW anchors, NEW n \in Nat PROVE \E f : Rendering(f, e, us, anchors, n)
<1> DEFINE Unsolved == {m \in Nat : \A f : ~Rendering(f, e, us, anchors, m)}
<1> SUFFICES ASSUME Unsolved # {} PROVE FALSE
  OBVIOUS
<1>1. PICK m \in Unsolved : \A k \in Unsolved : m <= k
  BY LeastNumber, Unsolved \subseteq Nat
<1>2. CASE m = 0
  <2> DEFINE f == [k \in 0..0 |-> e]
  <2>1. \A k \in 0..0 : k = 0
    OBVIOUS
  <2>2. Rendering(f, e, us, anchors, 0)
    BY <2>1 DEF Rendering
  <2>3. QED
    BY <1>1, <1>2, <2>2
<1>3. CASE m > 0
  <2>1. m \in Nat /\ m - 1 \in Nat /\ m - 1 \notin Unsolved
    BY <1>1, <1>3
  <2>2. PICK g : Rendering(g, e, us, anchors, m - 1)
    BY <2>1
  <2> DEFINE step(before, k) == Put(before, us[k].path, Concept(us, k, anchors))
  <2> DEFINE f == [k \in 0..m |-> IF k = m THEN step(g[m - 1], m) ELSE g[k]]
  <2>3. ASSUME NEW k \in 0..m PROVE f[k] = IF k = 0 THEN e ELSE step(f[k - 1], k)
    <3>1. CASE k = m
      <4>1. m - 1 \in 0..m /\ m - 1 # m /\ m # 0
        BY <2>1, <1>3
      <4> HIDE DEF step
      <4>2. f[m - 1] = g[m - 1] /\ f[m] = step(g[m - 1], m)
        BY <2>1, <4>1
      <4>3. QED
        BY <3>1, <4>1, <4>2
    <3>2. CASE k # m
      <4>1. k \in 0..(m - 1) /\ k - 1 # m
        BY <2>1, <3>2
      <4>2. g[k] = IF k = 0 THEN e ELSE step(g[k - 1], k)
        BY <2>2, <4>1 DEF Rendering
      <4> HIDE DEF step
      <4>3. f[k] = g[k] /\ (k # 0 => f[k - 1] = g[k - 1])
        BY <2>1, <3>2, <4>1
      <4> HIDE DEF f
      <4>4. QED
        BY <4>1, <4>2, <4>3, Zenon
    <3>3. QED
      BY <3>1, <3>2
  <2>4. f = [k \in 0..m |-> f[k]]
    OBVIOUS
  <2> HIDE DEF f
  <2>5. Rendering(f, e, us, anchors, m)
    BY <2>3, <2>4 DEF Rendering
  <2>6. QED
    BY <1>1, <2>5
<1>4. QED
  BY <1>1, <1>2, <1>3

\* RenderConcepts writes one concept after another.
LEMMA RenderIs ==
    ASSUME NEW e, NEW us, NEW n \in Nat, n = Len(us)
    PROVE  \E f : /\ f[0] = e
                  /\ \A k \in 1..n : f[k] = Put(f[k - 1], us[k].path, Concept(us, k, AnchorToFile(us)))
                  /\ RenderConcepts(e, us) = f[n]
<1>0. PICK anchors : anchors = AnchorToFile(us)
  OBVIOUS
<1>1. RenderConcepts(e, us) = (CHOOSE f : Rendering(f, e, us, anchors, Len(us)))[Len(us)]
  BY <1>0, Zenon DEF RenderConcepts, Rendering
<1>2. \E f : Rendering(f, e, us, anchors, Len(us))
  BY RenderingExists
<1>3. PICK f : Rendering(f, e, us, anchors, Len(us)) /\ RenderConcepts(e, us) = f[Len(us)]
  BY <1>1, <1>2, Zenon
<1>4. ASSUME NEW k \in 0..n
      PROVE  f[k] = IF k = 0 THEN e ELSE Put(f[k - 1], us[k].path, Concept(us, k, anchors))
  BY <1>3, Zenon DEF Rendering
<1>5. 0 \in 0..n /\ \A k \in 1..n : k \in 0..n /\ k # 0
  OBVIOUS
<1>6. f[0] = e /\ \A k \in 1..n : f[k] = Put(f[k - 1], us[k].path, Concept(us, k, anchors))
  BY <1>4, <1>5, Zenon
<1>7. QED
  BY <1>0, <1>3, <1>6, Zenon

\* Only assets have been written.
OnlyAssets(e) == e.next \in Nat /\ \A p \in DOMAIN e.files : p.dir = "assets"

\* The files after the first j concepts.
Holds(g, e, us, anchors, j) ==
    /\ g.next = e.next + j
    /\ \A p : p \in DOMAIN g.files <=> p \in DOMAIN e.files \/ \E k \in 1..j : p = us[k].path
    /\ \A k \in 1..j : g.files[us[k].path] = [seq |-> e.next + k - 1, data |-> Concept(us, k, anchors)]
    /\ \A p \in DOMAIN e.files : g.files[p] = e.files[p]

\* RenderConcepts writes one concept for each unit, behind the assets.
LEMMA RenderHolds ==
    ASSUME NEW e, OnlyAssets(e), NEW us, NEW n, Filed(us, n), NEW anchors, anchors = AnchorToFile(us)
    PROVE  Holds(RenderConcepts(e, us), e, us, anchors, n)
<1>1. /\ \A k, m \in 1..n : us[k].path = us[m].path => k = m
      /\ \A k \in 1..n : us[k].path.dir = ""
  BY DEF Filed
<1>2. n = Len(us) /\ n \in Nat /\ n > 0
  BY FiledIs
<1>3. PICK f : /\ f[0] = e
               /\ \A k \in 1..n : f[k] = Put(f[k - 1], us[k].path, Concept(us, k, anchors))
               /\ RenderConcepts(e, us) = f[n]
  <2>1. \E f : /\ f[0] = e
               /\ \A k \in 1..n : f[k] = Put(f[k - 1], us[k].path, Concept(us, k, AnchorToFile(us)))
               /\ RenderConcepts(e, us) = f[n]
    BY ONLY <1>2, RenderIs
  <2>2. QED
    BY <2>1, Zenon
<1>4. e.next \in Nat /\ \A p \in DOMAIN e.files : p.dir = "assets"
  BY DEF OnlyAssets
<1> DEFINE Bad == {j \in 0..n : ~Holds(f[j], e, us, anchors, j)}
<1>5. ASSUME NEW j \in Bad, \A x \in Bad : j <= x PROVE FALSE
  <2>1. CASE j = 0
    <3>1. 1..0 = {} /\ e.next + 0 = e.next
      BY <1>4
    <3>2. Holds(e, e, us, anchors, 0)
      BY <3>1 DEF Holds
    <3>3. QED
      BY <1>3, <2>1, <3>2
  <2>2. CASE j # 0
    <3>1. j \in 1..n /\ j - 1 \in 0..n /\ ~(j <= j - 1) /\ 1..j = 1..(j - 1) \cup {j}
      BY <1>2, <2>2
    <3>2. Holds(f[j - 1], e, us, anchors, j - 1)
      BY <1>5, <3>1
    <3>3. PICK before, g, path, data : /\ before = f[j - 1] /\ g = f[j] /\ path = us[j].path
                                       /\ data = Concept(us, j, anchors)
      OBVIOUS
    <3>4. g = Put(before, path, data)
      BY <1>3, <3>1, <3>3
    <3>5. /\ before.next = e.next + (j - 1)
          /\ \A p : p \in DOMAIN before.files <=> p \in DOMAIN e.files \/ \E k \in 1..(j - 1) : p = us[k].path
          /\ \A k \in 1..(j - 1) :
                before.files[us[k].path] = [seq |-> e.next + k - 1, data |-> Concept(us, k, anchors)]
          /\ \A p \in DOMAIN e.files : before.files[p] = e.files[p]
      BY <3>2, <3>3 DEF Holds
    <3>6. ~Has(before, path)
      <4>1. path \notin DOMAIN e.files
        BY <1>1, <1>4, <3>1, <3>3
      <4>2. ASSUME NEW k \in 1..(j - 1), path = us[k].path PROVE FALSE
        <5>1. k \in 1..n /\ k # j
          BY <1>2, <3>1
        <5>2. QED
          BY <1>1, <3>1, <3>3, <4>2, <5>1
      <4>3. QED
        BY <3>5, <4>1, <4>2 DEF Has
    <3>7. Written(before, path, data, g)
      BY <3>4, <3>6, PutNew
    <3>8. /\ g.next = before.next + 1 /\ DOMAIN g.files = DOMAIN before.files \cup {path}
          /\ g.files[path] = [seq |-> before.next, data |-> data]
          /\ \A q \in DOMAIN before.files : g.files[q] = before.files[q]
      BY <3>7, Zenon DEF Written
    <3>9. before.next + 1 = e.next + j /\ before.next = e.next + j - 1
      BY <1>4, <3>1, <3>5
    <3>10. ASSUME NEW p
           PROVE  p \in DOMAIN g.files <=> p \in DOMAIN e.files \/ \E k \in 1..j : p = us[k].path
      BY <3>1, <3>3, <3>5, <3>8
    <3>11. ASSUME NEW k \in 1..j
           PROVE  g.files[us[k].path] = [seq |-> e.next + k - 1, data |-> Concept(us, k, anchors)]
      <4>1. CASE k = j
        BY <3>3, <3>8, <3>9, <4>1, Zenon
      <4>2. CASE k # j
        <5>1. k \in 1..(j - 1)
          BY <3>1, <4>2
        <5>2. us[k].path \in DOMAIN before.files
          BY <3>5, <5>1
        <5>3. QED
          BY <3>5, <3>8, <5>1, <5>2, Zenon
      <4>3. QED
        BY <4>1, <4>2
    <3>12. \A p \in DOMAIN e.files : g.files[p] = e.files[p]
      BY <3>5, <3>8
    <3>13. g.next = e.next + j
      BY <3>8, <3>9, Zenon
    <3>14. Holds(g, e, us, anchors, j)
      BY <3>10, <3>11, <3>12, <3>13, Zenon DEF Holds
    <3>15. QED
      BY <3>3, <3>14
  <2>3. QED
    BY <2>1, <2>2
<1>6. Bad \subseteq Nat
  OBVIOUS
<1>7. Bad = {}
  <2> HIDE DEF Bad
  <2>1. QED
    BY <1>5, <1>6, LeastNumber
<1>8. n \in 0..n
  BY <1>2
<1>9. QED
  BY <1>3, <1>7, <1>8

---------------------------------------------------------------------------
(* The complete bundle *)

\* The assets e, the concepts of the units and, of the index and the log, those in extra.
Whole(g, e, us, n, index, log, extra) ==
    /\ DOMAIN g = {"files", "next"}
    /\ \A p : p \in DOMAIN g.files
                <=> p \in DOMAIN e.files \/ p \in extra \/ \E k \in 1..n : p = us[k].path
    /\ \A k \in 1..n :
          g.files[us[k].path] = [seq |-> e.next + k - 1, data |-> Concept(us, k, AnchorToFile(us))]
    /\ \A p \in DOMAIN e.files : g.files[p] = e.files[p]
    /\ IndexPath \in extra => \E place : g.files[IndexPath] = [seq |-> place, data |-> index]
    /\ LogPath \in extra => \E place : g.files[LogPath] = [seq |-> place, data |-> log]

\* The index and the log are not among the files that were there.
LEMMA NotYet ==
    ASSUME NEW e, OnlyAssets(e), NEW us, NEW n, Filed(us, n)
    PROVE  /\ IndexPath \notin DOMAIN e.files /\ LogPath \notin DOMAIN e.files /\ IndexPath # LogPath
           /\ \A k \in 1..n : us[k].path # IndexPath /\ us[k].path # LogPath /\ us[k].path \notin DOMAIN e.files
<1>1. \A p \in DOMAIN e.files : p.dir = "assets"
  BY DEF OnlyAssets
<1>2. IndexPath.dir = "" /\ LogPath.dir = "" /\ IndexPath # LogPath
  BY PathsDiffer
<1>3. \A k \in 1..n : us[k].path # IndexPath /\ us[k].path # LogPath /\ us[k].path.dir = ""
  BY DEF Filed
<1>4. QED
  BY <1>1, <1>2, <1>3

\* The bundle that is validated first.
LEMMA WholeDraft ==
    ASSUME NEW e, OnlyAssets(e), NEW us, NEW n, Filed(us, n), NEW index, NEW log,
           NEW r, r = RenderConcepts(e, us), NEW i, i = Put(r, IndexPath, index),
           NEW d, d = Put(i, LogPath, log)
    PROVE  Whole(d, e, us, n, index, log, {IndexPath, LogPath})
<1>1. PICK anchors : anchors = AnchorToFile(us)
  OBVIOUS
<1>2. Holds(r, e, us, anchors, n)
  BY <1>1, RenderHolds
<1>3. /\ \A p : p \in DOMAIN r.files <=> p \in DOMAIN e.files \/ \E k \in 1..n : p = us[k].path
      /\ \A k \in 1..n : r.files[us[k].path] = [seq |-> e.next + k - 1, data |-> Concept(us, k, anchors)]
      /\ \A p \in DOMAIN e.files : r.files[p] = e.files[p]
  BY <1>2, Zenon DEF Holds
<1>4. /\ IndexPath \notin DOMAIN e.files /\ LogPath \notin DOMAIN e.files /\ IndexPath # LogPath
      /\ \A k \in 1..n : us[k].path # IndexPath /\ us[k].path # LogPath
  BY NotYet
<1>5. IndexPath \notin DOMAIN r.files /\ LogPath \notin DOMAIN r.files
  BY <1>3, <1>4
<1>6. Written(r, IndexPath, index, i)
  BY <1>5, PutNew DEF Has
<1>7. /\ DOMAIN i.files = DOMAIN r.files \cup {IndexPath}
      /\ i.files[IndexPath] = [seq |-> r.next, data |-> index]
      /\ \A q \in DOMAIN r.files : i.files[q] = r.files[q]
  BY <1>6, Zenon DEF Written
<1>8. LogPath \notin DOMAIN i.files
  BY <1>4, <1>5, <1>7
<1>9. Written(i, LogPath, log, d)
  BY <1>8, PutNew DEF Has
<1>10. /\ DOMAIN d = {"files", "next"} /\ DOMAIN d.files = DOMAIN i.files \cup {LogPath}
       /\ d.files[LogPath] = [seq |-> i.next, data |-> log]
       /\ \A q \in DOMAIN i.files : d.files[q] = i.files[q]
  BY <1>9, Zenon DEF Written
<1>11. ASSUME NEW p
       PROVE  p \in DOMAIN d.files
                <=> p \in DOMAIN e.files \/ p \in {IndexPath, LogPath} \/ \E k \in 1..n : p = us[k].path
  BY <1>3, <1>7, <1>10
<1>12. \A q \in DOMAIN r.files : d.files[q] = r.files[q]
  BY <1>7, <1>10
<1>13. ASSUME NEW k \in 1..n
       PROVE  d.files[us[k].path] = [seq |-> e.next + k - 1, data |-> Concept(us, k, anchors)]
  <2>1. us[k].path \in DOMAIN r.files
    BY <1>3
  <2>2. QED
    BY <1>3, <1>12, <2>1, Zenon
<1>14. \A p \in DOMAIN e.files : d.files[p] = e.files[p]
  BY <1>3, <1>12
<1>15. d.files[IndexPath] = [seq |-> r.next, data |-> index]
  BY <1>7, <1>10
<1>16. QED
  BY <1>1, <1>10, <1>11, <1>13, <1>14, <1>15, Zenon DEF Whole

\* The log is written again: everything else stays.
LEMMA WholeAgain ==
    ASSUME NEW d, NEW e, OnlyAssets(e), NEW us, NEW n, Filed(us, n), NEW index, NEW draft,
           Whole(d, e, us, n, index, draft, {IndexPath, LogPath}),
           NEW log, NEW g, g = Put(d, LogPath, log)
    PROVE  Whole(g, e, us, n, index, log, {IndexPath, LogPath})
<1>1. PICK anchors : anchors = AnchorToFile(us)
  OBVIOUS
<1>2. /\ DOMAIN d = {"files", "next"}
      /\ \A p : p \in DOMAIN d.files
                  <=> p \in DOMAIN e.files \/ p \in {IndexPath, LogPath} \/ \E k \in 1..n : p = us[k].path
      /\ \A k \in 1..n :
            d.files[us[k].path] = [seq |-> e.next + k - 1, data |-> Concept(us, k, anchors)]
      /\ \A p \in DOMAIN e.files : d.files[p] = e.files[p]
      /\ \E place : d.files[IndexPath] = [seq |-> place, data |-> index]
      /\ \E place : d.files[LogPath] = [seq |-> place, data |-> draft]
  <2>1. IndexPath \in {IndexPath, LogPath} /\ LogPath \in {IndexPath, LogPath}
    OBVIOUS
  <2>2. QED
    BY <1>1, <2>1, Zenon DEF Whole
<1>3. /\ IndexPath # LogPath /\ LogPath \notin DOMAIN e.files
      /\ \A k \in 1..n : us[k].path # LogPath
  BY NotYet
<1>4. Has(d, LogPath)
  BY <1>2 DEF Has
<1>5. g = [d EXCEPT !.files[LogPath].data = log]
  BY <1>4, Zenon DEF Put
<1>6. PICK old, entry : old = d.files /\ entry = [old[LogPath] EXCEPT !.data = log]
  OBVIOUS
<1>7. g = [d EXCEPT !.files = [old EXCEPT ![LogPath] = entry]]
  BY <1>5, <1>6, Zenon
<1>8. PICK new : new = [old EXCEPT ![LogPath] = entry]
  OBVIOUS
<1>9. g = [d EXCEPT !.files = new]
  BY <1>7, <1>8, Zenon
<1>10. DOMAIN g = {"files", "next"} /\ g.files = new
  BY <1>2, <1>9
<1>11. LogPath \in DOMAIN old /\ DOMAIN old = DOMAIN d.files
  BY <1>4, <1>6 DEF Has
<1>12. DOMAIN new = DOMAIN old /\ new[LogPath] = entry /\ \A p \in DOMAIN old : p # LogPath => new[p] = old[p]
  BY <1>8, <1>11
<1>13. PICK place : old[LogPath] = [seq |-> place, data |-> draft]
  BY <1>2, <1>6
<1>14. entry = [seq |-> place, data |-> log]
  BY <1>6, <1>13
<1>15. \A p : p \in DOMAIN g.files
                <=> p \in DOMAIN e.files \/ p \in {IndexPath, LogPath} \/ \E k \in 1..n : p = us[k].path
  BY <1>2, <1>10, <1>11, <1>12
<1>16. ASSUME NEW k \in 1..n
       PROVE  g.files[us[k].path] = [seq |-> e.next + k - 1, data |-> Concept(us, k, anchors)]
  <2>1. us[k].path \in DOMAIN old /\ us[k].path # LogPath
    BY <1>2, <1>3, <1>11
  <2>2. QED
    BY <1>2, <1>6, <1>10, <1>12, <2>1, Zenon
<1>17. \A p \in DOMAIN e.files : g.files[p] = e.files[p]
  <2>1. ASSUME NEW p \in DOMAIN e.files PROVE g.files[p] = e.files[p]
    <3>1. p \in DOMAIN old /\ p # LogPath
      BY <1>2, <1>3, <1>11
    <3>2. QED
      BY <1>2, <1>6, <1>10, <1>12, <3>1, Zenon
  <2>2. QED
    BY <2>1
<1>18. \E at : g.files[IndexPath] = [seq |-> at, data |-> index]
  <2>1. IndexPath \in DOMAIN old
    BY <1>2, <1>11
  <2>2. QED
    BY <1>2, <1>3, <1>6, <1>10, <1>12, <2>1, Zenon
<1>19. g.files[LogPath] = [seq |-> place, data |-> log]
  BY <1>10, <1>12, <1>14, Zenon
<1>20. QED
  BY <1>1, <1>10, <1>15, <1>16, <1>17, <1>18, <1>19, Zenon DEF Whole

\* A file is removed on purpose: everything else stays.
LEMMA WholeLess ==
    ASSUME NEW g, NEW e, OnlyAssets(e), NEW us, NEW n, Filed(us, n), NEW index, NEW log,
           Whole(g, e, us, n, index, log, {IndexPath, LogPath}),
           NEW path \in {IndexPath, LogPath}, NEW h, h = Delete(g, path)
    PROVE  Whole(h, e, us, n, index, log, {IndexPath, LogPath} \ {path})
<1>1. PICK anchors : anchors = AnchorToFile(us)
  OBVIOUS
<1>2. /\ DOMAIN g = {"files", "next"}
      /\ \A p : p \in DOMAIN g.files
                  <=> p \in DOMAIN e.files \/ p \in {IndexPath, LogPath} \/ \E k \in 1..n : p = us[k].path
      /\ \A k \in 1..n :
            g.files[us[k].path] = [seq |-> e.next + k - 1, data |-> Concept(us, k, anchors)]
      /\ \A p \in DOMAIN e.files : g.files[p] = e.files[p]
      /\ \E place : g.files[IndexPath] = [seq |-> place, data |-> index]
      /\ \E place : g.files[LogPath] = [seq |-> place, data |-> log]
  <2>1. IndexPath \in {IndexPath, LogPath} /\ LogPath \in {IndexPath, LogPath}
    OBVIOUS
  <2>2. QED
    BY <1>1, <2>1, Zenon DEF Whole
<1>3. /\ IndexPath # LogPath /\ LogPath \notin DOMAIN e.files /\ IndexPath \notin DOMAIN e.files
      /\ \A k \in 1..n : us[k].path # LogPath /\ us[k].path # IndexPath
  BY NotYet
<1>4. PICK old, new : old = g.files /\ new = [p \in DOMAIN old \ {path} |-> old[p]]
  OBVIOUS
<1>5. h = [g EXCEPT !.files = new]
  BY <1>4, Zenon DEF Delete
<1>6. DOMAIN h = {"files", "next"} /\ h.files = new
  BY <1>2, <1>5
<1>7. DOMAIN new = DOMAIN old \ {path} /\ \A p \in DOMAIN old : p # path => new[p] = old[p]
  BY <1>4
<1>8. ASSUME NEW p
      PROVE  p \in DOMAIN h.files
               <=> p \in DOMAIN e.files \/ p \in {IndexPath, LogPath} \ {path} \/ \E k \in 1..n : p = us[k].path
  BY <1>2, <1>3, <1>4, <1>6, <1>7
<1>9. ASSUME NEW k \in 1..n
      PROVE  h.files[us[k].path] = [seq |-> e.next + k - 1, data |-> Concept(us, k, anchors)]
  <2>1. us[k].path \in DOMAIN old /\ us[k].path # path
    BY <1>2, <1>3, <1>4
  <2>2. QED
    BY <1>2, <1>4, <1>6, <1>7, <2>1, Zenon
<1>10. \A p \in DOMAIN e.files : h.files[p] = e.files[p]
  <2>1. ASSUME NEW p \in DOMAIN e.files PROVE h.files[p] = e.files[p]
    <3>1. p \in DOMAIN old /\ p # path
      BY <1>2, <1>3, <1>4
    <3>2. QED
      BY <1>2, <1>4, <1>6, <1>7, <3>1, Zenon
  <2>2. QED
    BY <2>1
<1>11. IndexPath \in {IndexPath, LogPath} \ {path}
         => \E at : h.files[IndexPath] = [seq |-> at, data |-> index]
  <2>1. HAVE IndexPath \in {IndexPath, LogPath} \ {path}
  <2>2. IndexPath \in DOMAIN old /\ IndexPath # path
    BY <1>2, <1>4, <2>1
  <2>3. QED
    BY <1>2, <1>4, <1>6, <1>7, <2>2, Zenon
<1>12. LogPath \in {IndexPath, LogPath} \ {path}
         => \E at : h.files[LogPath] = [seq |-> at, data |-> log]
  <2>1. HAVE LogPath \in {IndexPath, LogPath} \ {path}
  <2>2. LogPath \in DOMAIN old /\ LogPath # path
    BY <1>2, <1>4, <2>1
  <2>3. QED
    BY <1>2, <1>4, <1>6, <1>7, <2>2, Zenon
<1>13. QED
  BY <1>1, <1>6, <1>8, <1>9, <1>10, <1>11, <1>12, Zenon DEF Whole

---------------------------------------------------------------------------
(* What a conversion that succeeds leaves behind *)

\* OKF_FAULT_INJECT: the file that is removed on purpose.
Dropped ==
    IF input.inject = "drop_index" THEN {IndexPath}
    ELSE IF input.inject = "drop_log" THEN {LogPath} ELSE {}

TheIndex == Index(BundleTitle, input.name, units)

Published(n, c, e) ==
    /\ CutAt(input.doc, n, c)
    /\ Delivered(Split(input.doc), n)
    /\ \A k \in 1..n : Split(input.doc)[k].blocks = SubSeq(input.doc.blocks, c[k], c[k + 1] - 1)
    /\ Keeps(Split(input.doc), units, n)
    /\ Filed(units, n)
    /\ e.next \in Nat
    /\ \E left : Paid(e.files, left, AssetsBudget)
    /\ Shows(e.files, Split(input.doc), units, n)
    /\ OnlyAssets(e)
    /\ \E draft : /\ Whole(draft, e, units, n, TheIndex, Log(input.name, units, {}), {IndexPath, LogPath})
                  /\ first = Run(draft)
    /\ Whole(fs, e, units, n, TheIndex, Log(input.name, units, first.findings), {IndexPath, LogPath} \ Dropped)
    /\ report = SecondReport(fs)

\* The first units are what Split delivers.
LEMMA SplitDelivers ==
    ASSUME NEW doc \in Documents
    PROVE  \E n, c : /\ CutAt(doc, n, c) /\ Delivered(Split(doc), n)
                     /\ \A k \in 1..n : Split(doc)[k].blocks = SubSeq(doc.blocks, c[k], c[k + 1] - 1)
<1>1. PICK n, c, us : /\ us = Split(doc) /\ CutAt(doc, n, c) /\ Filed(us, n)
                      /\ \A k \in 1..n : /\ us[k].blocks = SubSeq(doc.blocks, c[k], c[k + 1] - 1)
                                         /\ us[k].blocks \in Seq(Blocks)
                                         /\ us[k] = With(us[k], us[k].blocks)
  BY SplitIs
<1>2. Delivered(us, n)
  BY <1>1, Zenon DEF Delivered
<1>3. QED
  BY <1>1, <1>2, Zenon

\* The assets are the only files that Extract writes.
LEMMA ShownAreAssets ==
    ASSUME NEW us, NEW n, NEW total, NEW acc, Spent(acc, us, n, total)
    PROVE  OnlyAssets(acc.fs)
<1>1. acc.fs.next \in Nat /\ Shows(acc.fs.files, us, acc.units, n)
  BY DEF Spent
<1>2. ASSUME NEW p \in DOMAIN acc.fs.files PROVE p.dir = "assets"
  <2>1. \E k \in 1..n : \E i \in DOMAIN us[k].blocks : p = AssetPath(us[k].blocks[i].image.data)
    BY <1>1 DEF Shows
  <2>2. QED
    BY <2>1, PathsDiffer
<1>3. QED
  BY <1>1, <1>2 DEF OnlyAssets

\* A conversion that succeeds leaves such a bundle behind.
LEMMA PublishedIs ==
    ASSUME ConversionInvariant, Converted
    PROVE  \E n, c, e : Published(n, c, e)
<1>1. /\ input \in Inputs /\ units = Extracted.units /\ first = Run(Drafted)
      /\ fs = Final /\ report = SecondReport(Final)
  BY DEF ConversionInvariant, Computes
<1>2. /\ input.doc \in Documents /\ input.inject \in {"", "drop_index", "drop_log"}
      /\ AssetsBudget \in Nat
  BY <1>1, ConversionAssumption
<1>3. PICK given : given = Split(input.doc)
  OBVIOUS
<1>4. PICK n, c : /\ CutAt(input.doc, n, c) /\ Delivered(given, n)
                  /\ \A k \in 1..n : given[k].blocks = SubSeq(input.doc.blocks, c[k], c[k + 1] - 1)
  BY <1>2, <1>3, SplitDelivers
<1>5. PICK x, e : x = Extracted /\ e = x.fs
  OBVIOUS
<1>6. x = Extract(given, EmptyFS, AssetsBudget)
  BY <1>3, <1>5, Zenon DEF Extracted
<1>7. Spent(x, given, n, AssetsBudget)
  BY <1>2, <1>4, <1>6, ExtractSpends
<1>8. OnlyAssets(e)
  BY <1>5, <1>7, ShownAreAssets
<1>9. /\ Keeps(given, units, n) /\ e.next \in Nat /\ Paid(e.files, x.budget, AssetsBudget)
      /\ Shows(e.files, given, units, n)
  BY <1>1, <1>5, <1>7, Zenon DEF Spent
<1>10. Filed(units, n)
  <2>1. Filed(given, n)
    BY <1>4 DEF Delivered
  <2>2. QED
    BY <1>9, <2>1, KeepsFiled
<1>11. PICK r, i, d, g : r = Rendered /\ i = Indexed /\ d = Drafted /\ g = Logged
  OBVIOUS
<1>12. PICK index, draft, log : index = TheIndex /\ draft = Log(input.name, units, {}) /\ log = Log(input.name, units, first.findings)
  OBVIOUS
<1>13. /\ r = RenderConcepts(e, units) /\ i = Put(r, IndexPath, index) /\ d = Put(i, LogPath, draft)
       /\ g = Put(d, LogPath, log)
  BY <1>1, <1>5, <1>11, <1>12, Zenon DEF Rendered, Indexed, Drafted, Logged, TheIndex
<1>14. Whole(d, e, units, n, index, draft, {IndexPath, LogPath})
  BY <1>8, <1>10, <1>13, WholeDraft
<1>15. Whole(g, e, units, n, index, log, {IndexPath, LogPath})
  BY <1>8, <1>10, <1>13, <1>14, WholeAgain
<1>16. Whole(fs, e, units, n, index, log, {IndexPath, LogPath} \ Dropped)
  <2>1. CASE input.inject = "drop_index"
    <3>1. fs = Delete(g, IndexPath) /\ Dropped = {IndexPath} /\ IndexPath \in {IndexPath, LogPath}
      BY <1>1, <1>11, <2>1 DEF Final, Inject, Dropped
    <3>2. Whole(fs, e, units, n, index, log, {IndexPath, LogPath} \ {IndexPath})
      BY <1>8, <1>10, <1>15, <3>1, WholeLess
    <3>3. QED
      BY <3>1, <3>2
  <2>2. CASE input.inject = "drop_log"
    <3>1. fs = Delete(g, LogPath) /\ Dropped = {LogPath} /\ LogPath \in {IndexPath, LogPath}
      BY <1>1, <1>11, <2>2 DEF Final, Inject, Dropped
    <3>2. Whole(fs, e, units, n, index, log, {IndexPath, LogPath} \ {LogPath})
      BY <1>8, <1>10, <1>15, <3>1, WholeLess
    <3>3. QED
      BY <3>1, <3>2
  <2>3. CASE input.inject = ""
    <3>1. fs = g /\ Dropped = {}
      BY <1>1, <1>11, <2>3 DEF Final, Inject, Dropped
    <3>2. {IndexPath, LogPath} \ {} = {IndexPath, LogPath}
      OBVIOUS
    <3>3. QED
      BY <1>15, <3>1, <3>2, Zenon
  <2>4. QED
    BY <1>2, <2>1, <2>2, <2>3
<1>17. first = Run(d)
  BY <1>1, <1>11
<1>18. report = SecondReport(fs)
  BY <1>1, Zenon
<1>19. Published(n, c, e)
  BY <1>3, <1>4, <1>8, <1>9, <1>10, <1>12, <1>14, <1>16, <1>17, <1>18, Zenon DEF Published
<1>20. QED
  BY <1>19

\* The bundle holds the assets that were there, as they were.
LEMMA AssetsAre ==
    ASSUME NEW g, NEW e, OnlyAssets(e), NEW us, NEW n, Filed(us, n), NEW index, NEW log,
           NEW extra \in SUBSET {IndexPath, LogPath}, Whole(g, e, us, n, index, log, extra)
    PROVE  Assets(g) = DOMAIN e.files /\ \A p \in DOMAIN e.files : Data(g, p) = e.files[p].data
<1>1. \A p \in DOMAIN e.files : p.dir = "assets"
  BY DEF OnlyAssets
<1>2. IndexPath.dir = "" /\ LogPath.dir = ""
  BY PathsDiffer
<1>3. \A k \in 1..n : us[k].path.dir = ""
  BY DEF Filed
<1>4. /\ \A p : p \in DOMAIN g.files
                  <=> p \in DOMAIN e.files \/ p \in extra \/ \E k \in 1..n : p = us[k].path
      /\ \A p \in DOMAIN e.files : g.files[p] = e.files[p]
  BY DEF Whole
<1>5. ASSUME NEW p PROVE p \in Assets(g) <=> p \in DOMAIN e.files
  <2>1. p \in Assets(g) <=> p \in DOMAIN g.files /\ p.dir = "assets"
    BY DEF Assets
  <2>2. p \in extra => p.dir # "assets"
    BY <1>2
  <2>3. (\E k \in 1..n : p = us[k].path) => p.dir # "assets"
    BY <1>3
  <2>4. QED
    BY <1>1, <1>4, <2>1, <2>2, <2>3
<1>6. QED
  BY <1>4, <1>5 DEF Data

\* The images, by the numbers of their units and blocks.
LEMMA ImageIs == ASSUME NEW us, NEW k, NEW i PROVE ImageAt(us, <<k, i>>) = us[k].blocks[i].image
  BY DEF ImageAt

\* The assets of a bundle are paid for, and shown by the images that lost their bytes.
LEMMA AssetsArePaid ==
    ASSUME NEW n, NEW c, NEW e, Published(n, c, e)
    PROVE  LET given == Split(input.doc)
               images == ToSet(BlocksOf(given))
               taken == {at \in images : ImageAt(given, at).data # 0 /\ ImageAt(units, at).data = 0}
           IN  /\ SumFunction([p \in Assets(fs) |-> Data(fs, p)]) <= AssetsBudget
               /\ Assets(fs) = {ImageAt(units, at).url.path : at \in taken}
               /\ \A at \in images \ taken : ImageAt(units, at) = ImageAt(given, at)
<1>1. PICK given : given = Split(input.doc)
  OBVIOUS
<1>2. PICK index, log : Whole(fs, e, units, n, index, log, {IndexPath, LogPath} \ Dropped)
  BY DEF Published
<1>3. OnlyAssets(e) /\ Filed(units, n) /\ Delivered(given, n) /\ Keeps(given, units, n) /\ Shows(e.files, given, units, n)
  BY <1>1 DEF Published
<1>4. {IndexPath, LogPath} \ Dropped \in SUBSET {IndexPath, LogPath}
  OBVIOUS
<1>5. Assets(fs) = DOMAIN e.files /\ \A p \in DOMAIN e.files : Data(fs, p) = e.files[p].data
  BY <1>2, <1>3, <1>4, AssetsAre
<1>6. SumFunction([p \in Assets(fs) |-> Data(fs, p)]) <= AssetsBudget
  <2>1. PICK left : Paid(e.files, left, AssetsBudget)
    BY DEF Published
  <2>2. PICK S, f : S = DOMAIN e.files /\ f = [p \in S |-> e.files[p].data]
    OBVIOUS
  <2>3. IsFiniteSet(S) /\ left \in Nat /\ \A p \in S : f[p] \in Nat
    BY <2>1, <2>2 DEF Paid
  <2>4. SumFunctionOnSet(f, S) + left = AssetsBudget
    BY <2>1, <2>2, Zenon DEF Paid
  <2>5. SumFunctionOnSet(f, S) \in Nat
    BY <2>3, SumSame
  <2>6. [p \in Assets(fs) |-> Data(fs, p)] = f
    BY <1>5, <2>2
  <2>7. SumFunction(f) = SumFunctionOnSet(f, S)
    <3>1. DOMAIN f = S
      BY <2>2
    <3>2. QED
      BY <3>1, Zenon DEF SumFunction
  <2>8. SumFunction([p \in Assets(fs) |-> Data(fs, p)]) = SumFunctionOnSet(f, S)
    BY <2>6, <2>7, Zenon
  <2>9. PICK sum : sum = SumFunctionOnSet(f, S)
    OBVIOUS
  <2>10. sum \in Nat /\ sum + left = AssetsBudget
    BY <2>4, <2>5, <2>9
  <2>11. sum <= AssetsBudget
    BY <2>3, <2>10
  <2>12. QED
    BY <2>8, <2>9, <2>11, Zenon
<1>7. PICK images : images = ToSet(BlocksOf(given))
  OBVIOUS
<1>8. PICK taken : taken = {at \in images : ImageAt(given, at).data # 0 /\ ImageAt(units, at).data = 0}
  OBVIOUS
<1>9. \A at : at \in images <=> \E k \in 1..n : \E i \in DOMAIN given[k].blocks : at = <<k, i>>
  <2>1. n \in Nat /\ DOMAIN given = 1..n /\ \A k \in 1..n : given[k].blocks \in Seq(Blocks)
    BY <1>3, DeliveredIs
  <2>2. Lists(BlocksOf(given), given, n)
    BY <2>1, BlocksOfIs
  <2>3. QED
    BY <1>7, <2>2, Zenon DEF Lists
<1>10. ASSUME NEW k \in 1..n, NEW i \in DOMAIN given[k].blocks
       PROVE  /\ <<k, i>> \in images
              /\ <<k, i>> \in taken <=> TakenOut(given, units, k, i)
              /\ TakenOut(given, units, k, i)
                   => ImageAt(units, <<k, i>>).url.path = AssetPath(given[k].blocks[i].image.data)
              /\ ~TakenOut(given, units, k, i) => ImageAt(units, <<k, i>>) = ImageAt(given, <<k, i>>)
  <2>1. <<k, i>> \in images
    BY <1>9
  <2>2. PICK was, is : was = given[k].blocks[i].image /\ is = units[k].blocks[i].image
    OBVIOUS
  <2>3. ImageAt(given, <<k, i>>) = was /\ ImageAt(units, <<k, i>>) = is
    BY <2>2, ImageIs
  <2>4. is = was \/ (was.data # 0 /\ is = ShownAs(was))
    BY <1>3, <2>2 DEF Keeps
  <2>5. TakenOut(given, units, k, i) <=> was.data # 0 /\ is.data = 0
    BY <2>2 DEF TakenOut
  <2>6. ShownAs(was).data = 0
    BY DEF ShownAs, Image
  <2>7. ShownAs(was).url.path = AssetPath(was.data)
    <3>1. ShownAs(was).url = FileLink(AssetPath(was.data))
      BY DEF ShownAs, Image
    <3>2. FileLink(AssetPath(was.data)).path = AssetPath(was.data)
      BY DEF FileLink, Link
    <3>3. QED
      BY <3>1, <3>2
  <2>8. <<k, i>> \in taken <=> was.data # 0 /\ is.data = 0
    BY <1>8, <2>1, <2>3
  <2>9. TakenOut(given, units, k, i) => is = ShownAs(was)
    BY <2>4, <2>5
  <2>10. ~TakenOut(given, units, k, i) => is = was
    BY <2>4, <2>5, <2>6
  <2>11. QED
    BY <2>1, <2>2, <2>3, <2>5, <2>7, <2>8, <2>9, <2>10, Zenon
<1>11. ASSUME NEW p
       PROVE  p \in Assets(fs) <=> p \in {ImageAt(units, at).url.path : at \in taken}
  <2>1. p \in DOMAIN e.files
          <=> \E k \in 1..n : \E i \in DOMAIN given[k].blocks :
                 TakenOut(given, units, k, i) /\ p = AssetPath(given[k].blocks[i].image.data)
    BY <1>3 DEF Shows
  <2>2. ASSUME p \in DOMAIN e.files PROVE \E at \in taken : p = ImageAt(units, at).url.path
    <3>1. PICK k \in 1..n : \E i \in DOMAIN given[k].blocks :
                 TakenOut(given, units, k, i) /\ p = AssetPath(given[k].blocks[i].image.data)
      BY <2>1, <2>2
    <3>2. PICK i \in DOMAIN given[k].blocks :
                 TakenOut(given, units, k, i) /\ p = AssetPath(given[k].blocks[i].image.data)
      BY <3>1
    <3>3. <<k, i>> \in taken /\ p = ImageAt(units, <<k, i>>).url.path
      BY <1>10, <3>2
    <3>4. QED
      BY <3>3
  <2>3. ASSUME NEW at \in taken, p = ImageAt(units, at).url.path PROVE p \in DOMAIN e.files
    <3>1. at \in images
      BY <1>8
    <3>2. PICK k \in 1..n : \E i \in DOMAIN given[k].blocks : at = <<k, i>>
      BY <1>9, <3>1
    <3>3. PICK i \in DOMAIN given[k].blocks : at = <<k, i>>
      BY <3>2
    <3>4. TakenOut(given, units, k, i) /\ p = AssetPath(given[k].blocks[i].image.data)
      BY <1>10, <2>3, <3>3
    <3>5. QED
      BY <2>1, <3>4
  <2>4. QED
    BY <1>5, <2>2, <2>3
<1>12. ASSUME NEW at \in images \ taken PROVE ImageAt(units, at) = ImageAt(given, at)
  <2>1. PICK k \in 1..n : \E i \in DOMAIN given[k].blocks : at = <<k, i>>
    BY <1>9
  <2>2. PICK i \in DOMAIN given[k].blocks : at = <<k, i>>
    BY <2>1
  <2>3. QED
    BY <1>10, <2>2
<1>13. Assets(fs) = {ImageAt(units, at).url.path : at \in taken}
  BY <1>11
<1>14. QED
  BY <1>1, <1>6, <1>7, <1>8, <1>12, <1>13, Zenon

\* The assets of a bundle fit in ASSETS_MAX_BYTES and are the files that images show.
THEOREM AssetsAccountedForHolds == ConversionSpec => []AssetsAccountedFor
<1>1. ConversionInvariant => AssetsAccountedFor
  <2> SUFFICES ASSUME ConversionInvariant, Converted PROVE AssetsAccountedFor
    BY DEF AssetsAccountedFor
  <2>1. PICK n, c, e : Published(n, c, e)
    BY PublishedIs
  <2>2. QED
    BY <2>1, AssetsArePaid, Zenon DEF AssetsAccountedFor
<1>2. QED
  BY <1>1, ConversionIsAFunction, PTL

---------------------------------------------------------------------------
(* The concepts and the index of a bundle *)

\* A concept, field by field: its blocks are rendered over the base level of its headings.
ConceptOf(data, us, k, anchors) ==
    /\ data.type = "concept" /\ data.order = k /\ data.title = us[k].title
    /\ \E base : data.body = [i \in DOMAIN Body(us[k]) |-> RenderBlock(Body(us[k])[i], base, anchors, us[k].path)]
    /\ data.nav = Navigation(us, k)
    /\ data.broken <=> NotUTF8({us[k].title} \cup TitlesOf(data.nav), Body(us[k]))

\* It is what Concept makes of a unit.
LEMMA ConceptIs ==
    ASSUME NEW us, NEW k, NEW anchors
    PROVE  ConceptOf(Concept(us, k, anchors), us, k, anchors)
<1> DEFINE body   == Body(us[k])
           levels == {body[i].level : i \in {j \in DOMAIN body : IsHeading(body[j])}}
           base   == IF levels = {} THEN 0 ELSE Lowest(levels)
<1>1. PICK text, nav : /\ text = [i \in DOMAIN body |-> RenderBlock(body[i], base, anchors, us[k].path)]
                       /\ nav = Navigation(us, k)
  OBVIOUS
<1>2. PICK bad : bad = NotUTF8({us[k].title} \cup TitlesOf(nav), body)
  OBVIOUS
<1>7. PICK data : data = File("concept", k, us[k].title, text, <<>>, nav, bad)
  OBVIOUS
<1>3. Concept(us, k, anchors) = data
  BY <1>1, <1>2, <1>7, Zenon DEF Concept
<1>4. /\ data.type = "concept" /\ data.order = k /\ data.title = us[k].title /\ data.body = text
      /\ data.nav = nav /\ data.broken = bad
  BY <1>7 DEF File
<1>8. data.broken <=> NotUTF8({us[k].title} \cup TitlesOf(nav), Body(us[k]))
  BY <1>2, <1>4
<1>5. \E b : data.body = [i \in DOMAIN Body(us[k]) |-> RenderBlock(Body(us[k])[i], b, anchors, us[k].path)]
  <2>1. data.body = [i \in DOMAIN Body(us[k]) |-> RenderBlock(Body(us[k])[i], base, anchors, us[k].path)]
    BY <1>1, <1>4
  <2> HIDE DEF base
  <2>2. QED
    BY <2>1
<1>6. ConceptOf(data, us, k, anchors)
  BY <1>1, <1>4, <1>5, <1>8, Zenon DEF ConceptOf
<1>9. QED
  BY <1>3, <1>6, Zenon

\* The index, field by field.
IndexOf(data, title, name, us) ==
    /\ data.type = "bundle" /\ data.order = 0 /\ data.title = title /\ data.body = <<Prose("raw", name)>>
    /\ data.toc = [k \in DOMAIN us |-> Titled(us[k].title, us[k].path)]
    /\ data.nav = <<>>
    /\ data.broken <=> NotUTF8({title} \cup TitlesOf(us), <<>>)

\* It is what Index makes of the units.
LEMMA IndexIs ==
    ASSUME NEW title, NEW name, NEW us, NEW data, data = Index(title, name, us)
    PROVE  IndexOf(data, title, name, us)
<1>1. PICK toc, body, bad : /\ toc = [k \in DOMAIN us |-> Titled(us[k].title, us[k].path)]
                            /\ body = <<Prose("raw", name)>>
                            /\ bad = NotUTF8({title} \cup TitlesOf(us), <<>>)
  OBVIOUS
<1>2. data = File("bundle", 0, title, body, toc, <<>>, bad)
  BY <1>1, Zenon DEF Index
<1>3. /\ data.type = "bundle" /\ data.order = 0 /\ data.title = title /\ data.body = body
      /\ data.toc = toc /\ data.nav = <<>> /\ data.broken = bad
  BY <1>2 DEF File
<1>4. data.broken <=> NotUTF8({title} \cup TitlesOf(us), <<>>)
  BY <1>1, <1>3
<1>5. QED
  BY <1>1, <1>3, <1>4, Zenon DEF IndexOf

\* What the log repeats, and cannot repeat well.
BadInTheLog(name, us) ==
    \E t \in {name} \cup TitlesOf(us) : "broken" \in t.marks \/ "wide" \in t.marks
CutFinding(findings) == \E f \in findings : f.severity # "info" /\ "wide" \in f.target.marks

\* The log is broken when the name, a title or a finding is.
LEMMA LogIs ==
    ASSUME NEW name, NEW us, NEW findings, NEW data, data = Log(name, us, findings)
    PROVE  /\ data.type = "log" /\ data.title = NoText
           /\ data.broken <=> BadInTheLog(name, us) \/ CutFinding(findings)
<1>1. PICK body, bad :
         /\ body = <<Prose("table", name)>> \o [k \in DOMAIN us |-> Prose("table", us[k].title)]
         /\ bad = (\/ \E t \in {name} \cup TitlesOf(us) : "broken" \in t.marks \/ "wide" \in t.marks
                  \/ \E f \in findings : f.severity # "info" /\ "wide" \in f.target.marks)
  OBVIOUS
<1>2. data = File("log", 0, NoText, body, <<>>, <<>>, bad)
  BY <1>1, Zenon DEF Log
<1>3. data.type = "log" /\ data.title = NoText /\ data.broken = bad
  BY <1>2 DEF File
<1>4. QED
  BY <1>1, <1>3, Zenon DEF BadInTheLog, CutFinding

\* The concepts are the files of the units, in the order of the units.
LEMMA ConceptsAre ==
    ASSUME NEW g, NEW e, OnlyAssets(e), NEW us, NEW n, Filed(us, n), NEW index, NEW log,
           NEW extra \in SUBSET {IndexPath, LogPath}, Whole(g, e, us, n, index, log, extra)
    PROVE  Concepts(g) = [k \in 1..n |-> us[k].path]
<1>1. e.next \in Nat /\ \A p \in DOMAIN e.files : p.dir = "assets"
  BY DEF OnlyAssets
<1>2. n \in Nat
  BY FiledIs
<1>3. /\ \A k \in 1..n : us[k].path.dir = "" /\ us[k].path # IndexPath /\ us[k].path # LogPath
      /\ \A k, m \in 1..n : us[k].path = us[m].path => k = m
  BY DEF Filed
<1>4. /\ \A p : p \in DOMAIN g.files
                  <=> p \in DOMAIN e.files \/ p \in extra \/ \E k \in 1..n : p = us[k].path
      /\ \A k \in 1..n :
            g.files[us[k].path] = [seq |-> e.next + k - 1, data |-> Concept(us, k, AnchorToFile(us))]
  BY DEF Whole
<1>5. PICK C : C = ConceptFiles(g)
  OBVIOUS
<1>6. ASSUME NEW p PROVE p \in C <=> \E k \in 1..n : p = us[k].path
  <2>1. p \in C <=> p \in DOMAIN g.files /\ p.dir = "" /\ p # IndexPath /\ p # LogPath
    BY <1>5 DEF ConceptFiles
  <2>2. p \in DOMAIN e.files => p.dir # ""
    BY <1>1
  <2>3. p \in extra => p = IndexPath \/ p = LogPath
    OBVIOUS
  <2>4. QED
    BY <1>3, <1>4, <2>1, <2>2, <2>3
<1>7. PICK a : a = [k \in 1..n |-> e.next + k - 1]
  OBVIOUS
<1>8. a \in [1..n -> Nat] /\ Rising(a, n) /\ DOMAIN a = 1..n
  BY <1>1, <1>2, <1>7 DEF Rising
<1>9. \A k \in 1..n : g.files[us[k].path].seq = a[k]
  <2>1. ASSUME NEW k \in 1..n PROVE g.files[us[k].path].seq = a[k]
    <3>1. PICK x, data : x = e.next + k - 1 /\ data = Concept(us, k, AnchorToFile(us))
      OBVIOUS
    <3>2. g.files[us[k].path] = [seq |-> x, data |-> data]
      BY <1>4, <3>1, Zenon
    <3>3. a[k] = x
      BY <1>7, <3>1
    <3>4. QED
      BY <3>2, <3>3
  <2>2. QED
    BY <2>1
<1>10. {g.files[p].seq : p \in C} = {a[j] : j \in 1..n}
  BY <1>6, <1>9
<1>11. Ascending({g.files[p].seq : p \in C}) = a
  BY <1>2, <1>8, <1>10, AscendingOf
<1>12. Concepts(g) = [i \in DOMAIN a |-> CHOOSE p \in C : g.files[p].seq = a[i]]
  <2> DEFINE places == Ascending({g.files[p].seq : p \in ConceptFiles(g)})
  <2>1. Concepts(g) = [i \in DOMAIN places |-> CHOOSE p \in ConceptFiles(g) : g.files[p].seq = places[i]]
    BY Zenon DEF Concepts
  <2>2. places = a
    BY <1>5, <1>11, Zenon
  <2> HIDE DEF places
  <2>3. QED
    BY ONLY <1>5, <2>1, <2>2, Zenon
<1>13. ASSUME NEW i \in 1..n PROVE (CHOOSE p \in C : g.files[p].seq = a[i]) = us[i].path
  <2>1. us[i].path \in C /\ g.files[us[i].path].seq = a[i]
    BY <1>6, <1>9
  <2>2. ASSUME NEW p \in C, g.files[p].seq = a[i] PROVE p = us[i].path
    <3>1. PICK k \in 1..n : p = us[k].path
      BY <1>6, <2>2
    <3>2. a[k] = a[i]
      BY <1>9, <2>2, <3>1
    <3>3. k = i
      BY <1>1, <1>2, <1>7, <3>2
    <3>4. QED
      BY <3>1, <3>3
  <2>3. QED
    BY <2>1, <2>2
<1>14. QED
  BY <1>8, <1>12, <1>13

\* What the validator finds in the links of a list of titles.
Entries(entries, n, T) ==
    /\ n \in Nat
    /\ DOMAIN entries = 1..n
    /\ \A i \in 1..n : entries[i].title.links \in Seq(T) /\ entries[i].link \in T

\* It finds what it finds in each.
LEMMA MatchesHold ==
    ASSUME NEW entries, NEW n, NEW T, Entries(entries, n, T), NEW l
    PROVE  /\ MatchesAll(entries) \in Seq(T)
           /\ l \in ToSet(MatchesAll(entries))
                <=> \E i \in 1..n : l \in ToSet(Matches(entries[i].title, entries[i].link))
<1>1. /\ n \in Nat /\ DOMAIN entries = 1..n
      /\ \A i \in 1..n : entries[i].title.links \in Seq(T) /\ entries[i].link \in T
  BY DEF Entries
<1>2. PICK s : s = [i \in DOMAIN entries |-> Matches(entries[i].title, entries[i].link)]
  OBVIOUS
<1>3. ASSUME NEW i \in 1..n PROVE Matches(entries[i].title, entries[i].link) \in Seq(T)
  <2>1. PICK title, link : title = entries[i].title /\ link = entries[i].link
    OBVIOUS
  <2>2. title.links \in Seq(T) /\ link \in T
    BY <1>1, <2>1
  <2>3. <<>> \in Seq(T) /\ <<link>> \in Seq(T)
    BY <2>2
  <2>4. Matches(title, link) \in Seq(T)
    BY <2>2, <2>3, Zenon DEF Matches
  <2>5. QED
    BY <2>1, <2>4
<1>4. s \in Seq(Seq(T)) /\ DOMAIN s = 1..n
  <2>1. \A i \in 1..n : s[i] \in Seq(T)
    BY <1>1, <1>2, <1>3
  <2>2. s = [i \in 1..n |-> s[i]]
    BY <1>1, <1>2
  <2>3. QED
    BY <1>1, <2>1, <2>2
<1>5. MatchesAll(entries) = FlattenSeq(s)
  BY <1>2, Zenon DEF MatchesAll
<1>6. FlattenSeq(s) \in Seq(T) /\ (l \in ToSet(FlattenSeq(s)) <=> \E i \in DOMAIN s : l \in ToSet(s[i]))
  BY <1>4, FlattenHolds
<1>7. \A i \in 1..n : s[i] = Matches(entries[i].title, entries[i].link)
  BY <1>1, <1>2
<1>8. l \in ToSet(FlattenSeq(s)) <=> \E i \in 1..n : l \in ToSet(s[i])
  BY <1>4, <1>6, Zenon
<1>9. (\E i \in 1..n : l \in ToSet(s[i]))
        <=> \E i \in 1..n : l \in ToSet(Matches(entries[i].title, entries[i].link))
  BY ONLY <1>7, Zenon
<1>10. QED
  BY <1>5, <1>6, <1>8, <1>9, Zenon

\* Where no title is in the way it finds the links that were written.
LEMMA MatchesPlain ==
    ASSUME NEW entries, NEW n, NEW T, Entries(entries, n, T),
           \A i \in 1..n : ~BreaksTheIndex(entries[i].title)
    PROVE  MatchesAll(entries) = [i \in 1..n |-> entries[i].link]
<1>1. n \in Nat /\ DOMAIN entries = 1..n /\ \A i \in 1..n : entries[i].link \in T
  BY DEF Entries
<1>2. PICK l : l = [i \in 1..n |-> entries[i].link]
  OBVIOUS
<1>3. l \in Seq(T) /\ Len(l) = n
  BY <1>1, <1>2
<1>4. PICK s : s = [i \in DOMAIN entries |-> Matches(entries[i].title, entries[i].link)]
  OBVIOUS
<1>5. \A i \in 1..n : Matches(entries[i].title, entries[i].link) = <<entries[i].link>>
  BY Zenon DEF Matches, BreaksTheIndex
<1>6. s = [i \in 1..n |-> <<l[i]>>]
  BY <1>1, <1>2, <1>4, <1>5
<1>7. FlattenSeq(s) = l
  BY <1>3, <1>6, FlattenSingles
<1>8. MatchesAll(entries) = FlattenSeq(s)
  BY <1>4, Zenon DEF MatchesAll
<1>9. QED
  BY <1>2, <1>7, <1>8

---------------------------------------------------------------------------
(* What the validator finds *)

Errors(g) == StructureErrors(g) \cup LinkErrors(g) \cup OrderErrors(g) \cup EncodingErrors(g)

\* A report, field by field.
LEMMA ReportIs ==
    ASSUME NEW findings, NEW score, NEW r, r = Report(findings, score)
    PROVE  r.findings = findings /\ r.verdict = Classify(findings) /\ r.score = score
<1>1. PICK verdict, grade : verdict = Classify(findings) /\ grade = Grade(score)
  OBVIOUS
<1>2. r = [findings |-> findings, verdict |-> verdict, score |-> score, grade |-> grade]
  BY <1>1, Zenon DEF Report
<1>3. QED
  BY <1>1, <1>2

\* The report of a validation, field by field.
LEMMA RunIs ==
    ASSUME NEW g, NEW r, r = Run(g)
    PROVE  /\ r.findings = Errors(g) \cup Warnings(g) \cup Conformance(g)
           /\ r.verdict = Classify(r.findings)
           /\ r.score = Score(g)
<1>1. PICK findings, score : /\ findings = Errors(g) \cup Warnings(g) \cup Conformance(g)
                             /\ score = Score(g)
  OBVIOUS
<1>2. r = Report(findings, score)
  BY <1>1, Zenon DEF Run, Errors
<1>3. QED
  BY <1>1, <1>2, ReportIs

\* A report is "invalid" when, and only when, something in it is an error.
LEMMA ClassifyIs == \A findings : Classify(findings) = "invalid" <=> ~Publishable(findings)
  BY DEF Classify

\* A finding, field by field.
LEMMA FindingIs ==
    \A code, severity, path, target :
        /\ Finding(code, severity, path, target).code = code
        /\ Finding(code, severity, path, target).severity = severity
        /\ Finding(code, severity, path, target).target = target
        /\ Error(code, path).severity = "error"
  BY DEF Finding, Error

\* Errors, warnings and what the score reports are told apart by their severity.
LEMMA Severities ==
    ASSUME NEW g
    PROVE  /\ \A f \in Errors(g) : f.severity = "error"
           /\ \A f \in Warnings(g) : f.severity = "warning"
           /\ \A f \in Conformance(g) : f.severity = "info"
<1>1. ASSUME NEW f \in StructureErrors(g) PROVE f.severity = "error"
  <2>1. \E code, path : f = Error(code, path)
    BY Zenon DEF StructureErrors
  <2>2. QED
    BY <2>1, FindingIs
<1>2. ASSUME NEW f \in LinkErrors(g) PROVE f.severity = "error"
  <2>1. (\E code, path : f = Error(code, path)) \/ (\E code, path, l : f = Finding(code, "error", path, l))
    BY Zenon DEF LinkErrors
  <2>2. QED
    BY <2>1, FindingIs
<1>3. ASSUME NEW f \in OrderErrors(g) PROVE f.severity = "error"
  <2>1. \E code, path : f = Error(code, path)
    BY Zenon DEF OrderErrors
  <2>2. QED
    BY <2>1, FindingIs
<1>4. ASSUME NEW f \in EncodingErrors(g) PROVE f.severity = "error"
  <2>1. \E code, path : f = Error(code, path)
    BY Zenon DEF EncodingErrors
  <2>2. QED
    BY <2>1, FindingIs
<1>5. ASSUME NEW f \in Warnings(g) PROVE f.severity = "warning"
  <2>1. \E code, path, l : f = Finding(code, "warning", path, l)
    <3> DEFINE large == {Finding("PLT-CNT-001", "warning", p, External) :
                            p \in {q \in ToSet(Concepts(g)) : Len(Data(g, q).body) > LargeUnit}}
               links == UNION {{Finding("PLT-LNK-004", "warning", p, l) :
                            l \in {m \in BodyLinks(Data(g, p)) : m.kind = "file" /\ ~Has(g, m.path)}} :
                            p \in MarkdownFiles(g)}
               images == UNION {{Finding("PLT-AST-001", "warning", p, l) :
                            l \in {m \in ImageLinks(Data(g, p)) : m.path.dir = "assets" /\ ~Has(g, m.path)}} :
                            p \in MarkdownFiles(g)}
    <3>1. Warnings(g) = large \cup links \cup images
      BY Zenon DEF Warnings
    <3>3. f \in large => \E code, path, l : f = Finding(code, "warning", path, l)
      BY Zenon
    <3>4. f \in links => \E code, path, l : f = Finding(code, "warning", path, l)
      BY Zenon
    <3>5. f \in images => \E code, path, l : f = Finding(code, "warning", path, l)
      BY Zenon
    <3> HIDE DEF large, links, images
    <3>6. f \in large \/ f \in links \/ f \in images
      BY <3>1
    <3>7. QED
      BY <3>3, <3>4, <3>5, <3>6, Zenon
  <2>2. QED
    BY <2>1, FindingIs
<1>6. ASSUME NEW f \in Conformance(g) PROVE f.severity = "info"
  <2>1. \E code, path, l : f = Finding(code, "info", path, l)
    BY Zenon DEF Conformance
  <2>2. QED
    BY <2>1, FindingIs
<1>7. QED
  BY <1>1, <1>2, <1>3, <1>4, <1>5, <1>6 DEF Errors

\* A validated bundle is publishable when it has no errors.
LEMMA PublishableIs ==
    ASSUME NEW g, NEW r, r = Run(g)
    PROVE  Publishable(r.findings) <=> Errors(g) = {}
<1>1. r.findings = Errors(g) \cup Warnings(g) \cup Conformance(g)
  BY RunIs
<1>2. QED
  BY <1>1, Severities DEF Publishable

\* Two reports without errors agree on their codes.
LEMMA SameWithout ==
    ASSUME NEW a, NEW b, Publishable(a.findings), Publishable(b.findings)
    PROVE  SameCodes(a, b)
<1>1. ASSUME NEW r, Publishable(r.findings), NEW c
      PROVE  {f \in r.findings : f.severity = "error" /\ f.code = c} = {}
  BY <1>1 DEF Publishable
<1>2. QED
  BY <1>1, Zenon DEF SameCodes

\* The second validation refuses a bundle with errors and, when the first one found
\* none, no other bundle.
LEMMA SecondIs ==
    ASSUME NEW g
    PROVE  /\ Errors(g) # {} => SecondReport(g).verdict = "invalid"
           /\ Errors(g) = {} /\ Publishable(first.findings) => SecondReport(g).verdict # "invalid"
           /\ SecondReport(g).verdict = "invalid" <=> ~Publishable(SecondReport(g).findings)
<1>1. PICK second : second = Run(g)
  OBVIOUS
<1>2. second.verdict = Classify(second.findings) /\ (Publishable(second.findings) <=> Errors(g) = {})
  BY <1>1, RunIs, PublishableIs
<1>3. CASE input.inject = "" /\ ~SameCodes(first, second)
  <2>1. PICK findings : findings = second.findings \cup {FixedPointError}
    OBVIOUS
  <2>2. SecondReport(g) = Report(findings, second.score)
    BY <1>1, <1>3, <2>1, Zenon DEF SecondReport
  <2>3. SecondReport(g).findings = findings /\ SecondReport(g).verdict = Classify(findings)
    BY <2>2, ReportIs
  <2>4. FixedPointError.severity = "error"
    BY FindingIs DEF FixedPointError
  <2>5. ~Publishable(findings)
    BY <2>1, <2>4 DEF Publishable
  <2>6. ~(Publishable(first.findings) /\ Publishable(second.findings))
    BY <1>3, SameWithout
  <2>7. QED
    BY <1>2, <2>3, <2>5, <2>6, ClassifyIs, Zenon
<1>4. CASE ~(input.inject = "" /\ ~SameCodes(first, second))
  <2>1. SecondReport(g) = second
    BY <1>1, <1>4, Zenon DEF SecondReport
  <2>2. QED
    BY <1>2, <2>1, ClassifyIs, Zenon
<1>5. QED
  BY <1>3, <1>4

---------------------------------------------------------------------------
(* The links of the index *)

LinkSet(us, n) == Links \cup {FileLink(us[k].path) : k \in 1..n}

\* A title and its link are found by the validator as any list of them.
LEMMA TitledIs ==
    ASSUME NEW us, NEW n, Filed(us, n), NEW entries,
           entries = [k \in DOMAIN us |-> Titled(us[k].title, us[k].path)]
    PROVE  /\ Entries(entries, n, LinkSet(us, n))
           /\ \A k \in 1..n : entries[k].title = us[k].title /\ entries[k].link = FileLink(us[k].path)
<1>1. n \in Nat /\ DOMAIN us = 1..n
  BY FiledIs
<1>2. \A k \in 1..n : us[k].title.links \in Seq(Links)
  BY DEF Filed, Linking
<1>3. \A k \in 1..n : entries[k].title = us[k].title /\ entries[k].link = FileLink(us[k].path)
  BY <1>1 DEF Titled
<1>4. PICK T : T = LinkSet(us, n)
  OBVIOUS
<1>5. Links \subseteq T /\ \A k \in 1..n : FileLink(us[k].path) \in T
  BY <1>4 DEF LinkSet
<1>6. \A s \in Seq(Links) : s \in Seq(T)
  BY <1>5
<1>7. DOMAIN entries = 1..n
  BY <1>1
<1>8. Entries(entries, n, T)
  BY <1>1, <1>2, <1>3, <1>5, <1>6, <1>7 DEF Entries
<1>9. QED
  BY <1>3, <1>4, <1>8

\* A file link leads to its file.
LEMMA FileLinkIs == \A p : FileLink(p).path = p
  BY DEF FileLink, Link

\* A list of entries that the validator reads to its end, or to the first title that
\* closes it.
LEMMA ListedIs ==
    ASSUME NEW entries, NEW n, NEW T, Entries(entries, n, T)
    PROVE  /\ \E m \in 0..n : Entries(Listed(entries), m, T) /\ \A i \in 1..m : Listed(entries)[i] = entries[i]
           /\ (\A i \in 1..n : "close" \notin entries[i].title.marks) => Listed(entries) = entries
<1>1. /\ n \in Nat /\ DOMAIN entries = 1..n
      /\ \A i \in 1..n : entries[i].title.links \in Seq(T) /\ entries[i].link \in T
  BY DEF Entries
<1>2. PICK closing : closing = {i \in DOMAIN entries : "close" \in entries[i].title.marks}
  OBVIOUS
<1>3. Listed(entries) = IF closing = {} THEN entries ELSE SubSeq(entries, 1, Lowest(closing))
  BY <1>2, Zenon DEF Listed
<1>4. CASE closing = {}
  <2>1. Listed(entries) = entries
    BY <1>3, <1>4
  <2>2. n \in 0..n
    BY <1>1
  <2>3. QED
    BY <2>1, <2>2
<1>5. CASE closing # {}
  <2>1. PICK m : m = Lowest(closing)
    OBVIOUS
  <2>2. m \in closing
    <3>1. closing \subseteq Nat
      BY <1>1, <1>2
    <3>2. QED
      BY <1>5, <2>1, <3>1, LowestIs
  <2>3. m \in 1..n /\ m \in Nat /\ "close" \in entries[m].title.marks
    BY <1>1, <1>2, <2>2
  <2>4. PICK listed : listed = SubSeq(entries, 1, m)
    OBVIOUS
  <2>5. DOMAIN listed = 1..m /\ \A i \in 1..m : listed[i] = entries[i]
    BY <2>3, <2>4
  <2>6. Entries(listed, m, T)
    BY <1>1, <2>3, <2>5 DEF Entries
  <2>7. Listed(entries) = listed
    BY <1>3, <1>5, <2>1, <2>4
  <2>8. QED
    BY <2>3, <2>5, <2>6, <2>7
<1>6. QED
  BY <1>4, <1>5

\* What an entry of the index adds to it: the links of its title, or its own link if the
\* title is not in the way.
LEMMA EntryLinksAre ==
    ASSUME NEW entry, NEW T, entry.title.links \in Seq(T), entry.link \in T
    PROVE  /\ EntryLinks(entry) \in Seq(T)
           /\ \A l \in ToSet(EntryLinks(entry)) :
                 l \in ToSet(entry.title.links) \/ (~BreaksTheIndex(entry.title) /\ l = entry.link)
           /\ ~BreaksTheIndex(entry.title) => EntryLinks(entry) = <<entry.link>>
<1>1. PICK title, link : title = entry.title /\ link = entry.link
  OBVIOUS
<1>2. title.links \in Seq(T) /\ link \in T /\ <<>> \in Seq(T) /\ <<link>> \in Seq(T)
  BY <1>1
<1>3. ToSet(<<>>) = {} /\ ToSet(<<link>>) = {link}
  BY DEF ToSet
<1>4. CASE "close" \in title.marks
  <2>1. EntryLinks(entry) = title.links /\ BreaksTheIndex(title)
    BY <1>1, <1>4, Zenon DEF EntryLinks, BreaksTheIndex
  <2>2. QED
    BY <1>1, <1>2, <2>1
<1>5. CASE "close" \notin title.marks
  <2>1. EntryLinks(entry) = Matches(title, link)
    BY <1>1, <1>5, Zenon DEF EntryLinks
  <2>2. CASE title.links # <<>>
    <3>1. EntryLinks(entry) = title.links /\ BreaksTheIndex(title)
      BY <2>1, <2>2, Zenon DEF Matches, BreaksTheIndex
    <3>2. QED
      BY <1>1, <1>2, <3>1
  <2>3. CASE title.links = <<>> /\ "bracket" \in title.marks
    <3>1. EntryLinks(entry) = <<>> /\ BreaksTheIndex(title)
      BY <2>1, <2>3, Zenon DEF Matches, BreaksTheIndex
    <3>2. QED
      BY <1>1, <1>2, <1>3, <3>1
  <2>4. CASE title.links = <<>> /\ "bracket" \notin title.marks
    <3>1. EntryLinks(entry) = <<link>> /\ ~BreaksTheIndex(title)
      BY <1>5, <2>1, <2>4, Zenon DEF Matches, BreaksTheIndex
    <3>2. QED
      BY <1>1, <1>2, <1>3, <3>1
  <2>5. QED
    BY <2>2, <2>3, <2>4
<1>6. QED
  BY <1>4, <1>5

\* The links of the delimited index, between the two comments.
ListedLinks(entries) ==
    LET listed == Listed(entries)
    IN  FlattenSeq([i \in DOMAIN listed |-> EntryLinks(listed[i])])

\* Each is in a title, or is the link of an entry whose title is not in the way.
LEMMA ListedHold ==
    ASSUME NEW entries, NEW n, NEW T, Entries(entries, n, T)
    PROVE  /\ ListedLinks(entries) \in Seq(T)
           /\ \A l \in ToSet(ListedLinks(entries)) : \E i \in 1..n :
                 \/ l \in ToSet(entries[i].title.links)
                 \/ ~BreaksTheIndex(entries[i].title) /\ l = entries[i].link
<1>1. PICK listed : listed = Listed(entries)
  OBVIOUS
<1>2. PICK m \in 0..n : Entries(listed, m, T) /\ \A i \in 1..m : listed[i] = entries[i]
  BY <1>1, ListedIs
<1>3. /\ m \in Nat /\ DOMAIN listed = 1..m
      /\ \A i \in 1..m : listed[i].title.links \in Seq(T) /\ listed[i].link \in T
  BY <1>2 DEF Entries
<1>4. n \in Nat /\ \A i \in 1..m : i \in 1..n
  <2>1. n \in Nat
    BY DEF Entries
  <2>2. QED
    BY <1>3, <2>1
<1>5. PICK s : s = [i \in DOMAIN listed |-> EntryLinks(listed[i])]
  OBVIOUS
<1>6. \A i \in 1..m : s[i] = EntryLinks(listed[i]) /\ s[i] \in Seq(T)
  <2>1. ASSUME NEW i \in 1..m PROVE EntryLinks(listed[i]) \in Seq(T)
    BY <1>3, EntryLinksAre
  <2>2. QED
    BY <1>3, <1>5, <2>1
<1>7. s \in Seq(Seq(T)) /\ DOMAIN s = 1..m
  <2>1. s = [i \in 1..m |-> s[i]]
    BY <1>3, <1>5
  <2>2. QED
    BY <1>3, <1>6, <2>1
<1>8. ListedLinks(entries) = FlattenSeq(s)
  BY <1>1, <1>5, Zenon DEF ListedLinks
<1>9. FlattenSeq(s) \in Seq(T) /\ \A l : l \in ToSet(FlattenSeq(s)) <=> \E i \in DOMAIN s : l \in ToSet(s[i])
  BY <1>7, FlattenHolds
<1>10. ASSUME NEW l \in ToSet(FlattenSeq(s))
       PROVE  \E i \in 1..n : \/ l \in ToSet(entries[i].title.links)
                              \/ ~BreaksTheIndex(entries[i].title) /\ l = entries[i].link
  <2>1. PICK i \in 1..m : l \in ToSet(s[i])
    BY <1>7, <1>9
  <2>2. l \in ToSet(EntryLinks(listed[i]))
    BY <1>6, <2>1
  <2>3. l \in ToSet(listed[i].title.links) \/ (~BreaksTheIndex(listed[i].title) /\ l = listed[i].link)
    BY <1>3, <2>2, EntryLinksAre
  <2>4. listed[i] = entries[i] /\ i \in 1..n
    BY <1>2, <1>4
  <2>5. QED
    BY <2>3, <2>4
<1>11. QED
  BY <1>8, <1>9, <1>10

\* Where no title is in the way they are the links that were written.
LEMMA ListedPlain ==
    ASSUME NEW entries, NEW n, NEW T, Entries(entries, n, T),
           \A i \in 1..n : ~BreaksTheIndex(entries[i].title)
    PROVE  ListedLinks(entries) = [i \in 1..n |-> entries[i].link]
<1>1. /\ n \in Nat /\ DOMAIN entries = 1..n
      /\ \A i \in 1..n : entries[i].title.links \in Seq(T) /\ entries[i].link \in T
  BY DEF Entries
<1>2. Listed(entries) = entries
  <2>1. \A i \in 1..n : "close" \notin entries[i].title.marks
    BY DEF BreaksTheIndex
  <2>2. QED
    BY <2>1, ListedIs
<1>3. PICK l : l = [i \in 1..n |-> entries[i].link]
  OBVIOUS
<1>4. l \in Seq(T) /\ Len(l) = n
  BY <1>1, <1>3
<1>5. PICK s : s = [i \in DOMAIN entries |-> EntryLinks(entries[i])]
  OBVIOUS
<1>6. \A i \in 1..n : EntryLinks(entries[i]) = <<entries[i].link>>
  BY <1>1, EntryLinksAre
<1>7. s = [i \in 1..n |-> <<l[i]>>]
  BY <1>1, <1>3, <1>5, <1>6
<1>8. FlattenSeq(s) = l
  BY <1>4, <1>7, FlattenSingles
<1>9. ListedLinks(entries) = FlattenSeq(s)
  BY <1>2, <1>5, Zenon DEF ListedLinks
<1>10. QED
  BY <1>3, <1>8, <1>9

\* What the validator takes for the index besides: links of the title and of the name.
LEMMA EarlyLinksAre ==
    ASSUME NEW title, NEW name, Linking(title), Linking(name)
    PROVE  /\ EarlyLinks(title, name) \in Seq(Links)
           /\ \A l \in ToSet(EarlyLinks(title, name)) : l \in ToSet(name.links \o title.links)
<1>1. PICK a, b : a = name.links /\ b = title.links
  OBVIOUS
<1>2. a \in Seq(Links) /\ b \in Seq(Links)
  BY <1>1 DEF Linking
<1>3. a \o b \in Seq(Links) /\ <<>> \in Seq(Links)
  BY <1>2
<1>4. \A i \in DOMAIN b : \E j \in DOMAIN (a \o b) : (a \o b)[j] = b[i]
  <2>1. ASSUME NEW i \in DOMAIN b PROVE \E j \in DOMAIN (a \o b) : (a \o b)[j] = b[i]
    <3>1. Len(a) + i \in DOMAIN (a \o b) /\ (a \o b)[Len(a) + i] = b[i]
      BY <1>2
    <3>2. QED
      BY <3>1
  <2>2. QED
    BY <2>1
<1>5. \A l \in ToSet(b) : l \in ToSet(a \o b)
  BY <1>4 DEF ToSet
<1>6. ToSet(<<>>) = {}
  BY DEF ToSet
<1>7. \/ EarlyLinks(title, name) = a \o b
      \/ EarlyLinks(title, name) = b
      \/ EarlyLinks(title, name) = <<>>
  BY <1>1, Zenon DEF EarlyLinks
<1>8. QED
  BY <1>1, <1>2, <1>3, <1>5, <1>6, <1>7

\* What index.md holds, when it is there.
EntriesOf(us) == [k \in DOMAIN us |-> Titled(us[k].title, us[k].path)]

\* It is what the validator reads.
LEMMA TocIs ==
    ASSUME NEW g, NEW e, NEW us, NEW n, Filed(us, n), NEW title, NEW name, NEW index,
           index = Index(title, name, us), NEW log, NEW extra, IndexPath \in extra,
           Whole(g, e, us, n, index, log, extra)
    PROVE  TocLinks(g) = EarlyLinks(title, name) \o ListedLinks(EntriesOf(us))
<1>1. Has(g, IndexPath) /\ Data(g, IndexPath) = index
  <2>1. IndexPath \in DOMAIN g.files /\ \E place : g.files[IndexPath] = [seq |-> place, data |-> index]
    BY DEF Whole
  <2>2. QED
    BY <2>1 DEF Has, Data
<1>2. PICK entries : entries = [k \in DOMAIN us |-> Titled(us[k].title, us[k].path)]
  OBVIOUS
<1>3. IndexOf(index, title, name, us)
  BY IndexIs
<1>4. index.toc = entries /\ index.title = title /\ index.body = <<Prose("raw", name)>>
  BY <1>2, <1>3, Zenon DEF IndexOf
<1>5. index.body[1].text = name
  BY <1>4 DEF Prose, Block
<1>6. TocOf(index) = EarlyLinks(title, name) \o ListedLinks(entries)
  BY <1>4, <1>5, Zenon DEF TocOf, ListedLinks
<1>7. TocLinks(g) = TocOf(index)
  BY <1>1, Zenon DEF TocLinks
<1>8. QED
  BY <1>2, <1>6, <1>7 DEF EntriesOf

\* Every link it holds comes before the index, is in a title, or is the link of a unit
\* whose title is not in the way.
LEMMA TocHolds ==
    ASSUME NEW g, NEW e, NEW us, NEW n, Filed(us, n), NEW title, NEW name, Linking(title),
           Linking(name), NEW index, index = Index(title, name, us), NEW log, NEW extra,
           IndexPath \in extra, Whole(g, e, us, n, index, log, extra)
    PROVE  /\ TocLinks(g) \in Seq(LinkSet(us, n))
           /\ \A l \in ToSet(EarlyLinks(title, name)) : l \in ToSet(TocLinks(g))
           /\ \A l \in ToSet(TocLinks(g)) :
                 \/ l \in ToSet(EarlyLinks(title, name))
                 \/ \E k \in 1..n : \/ l \in ToSet(us[k].title.links)
                                    \/ ~BreaksTheIndex(us[k].title) /\ l = FileLink(us[k].path)
<1>1. PICK entries : /\ entries = [k \in DOMAIN us |-> Titled(us[k].title, us[k].path)]
                     /\ TocLinks(g) = EarlyLinks(title, name) \o ListedLinks(entries)
  <2>1. TocLinks(g) = EarlyLinks(title, name) \o ListedLinks(EntriesOf(us))
    BY TocIs
  <2>2. QED
    BY <2>1 DEF EntriesOf
<1>2. PICK T : T = LinkSet(us, n)
  OBVIOUS
<1>3. /\ Entries(entries, n, T)
      /\ \A k \in 1..n : entries[k].title = us[k].title /\ entries[k].link = FileLink(us[k].path)
  BY <1>1, <1>2, TitledIs
<1>4. PICK a, b, toc : a = EarlyLinks(title, name) /\ b = ListedLinks(entries) /\ toc = a \o b
  OBVIOUS
<1>5. a \in Seq(T) /\ b \in Seq(T)
  <2>1. a \in Seq(Links)
    BY <1>4, EarlyLinksAre
  <2>2. Links \subseteq T
    BY <1>2 DEF LinkSet
  <2>3. b \in Seq(T)
    BY <1>3, <1>4, ListedHold
  <2>4. QED
    BY <2>1, <2>2, <2>3
<1>6. toc \in Seq(T)
  BY <1>4, <1>5
<1>7. ASSUME NEW i \in DOMAIN toc
      PROVE  (\E j \in DOMAIN a : toc[i] = a[j]) \/ (\E j \in DOMAIN b : toc[i] = b[j])
  <2>1. i \in 1..(Len(a) + Len(b)) /\ Len(a) \in Nat /\ Len(b) \in Nat
    BY <1>4, <1>5
  <2>2. CASE i <= Len(a)
    <3>1. i \in DOMAIN a /\ toc[i] = a[i]
      BY <1>4, <1>5, <2>1, <2>2
    <3>2. QED
      BY <3>1
  <2>3. CASE ~(i <= Len(a))
    <3>1. i - Len(a) \in DOMAIN b /\ toc[i] = b[i - Len(a)]
      BY <1>4, <1>5, <2>1, <2>3
    <3>2. QED
      BY <3>1
  <2>4. QED
    BY <2>2, <2>3
<1>8. \A l \in ToSet(toc) : l \in ToSet(a) \/ l \in ToSet(b)
  BY <1>7 DEF ToSet
<1>9. \A l \in ToSet(a) : l \in ToSet(toc)
  <2>1. \A i \in DOMAIN a : i \in DOMAIN toc /\ toc[i] = a[i]
    BY <1>4, <1>5
  <2>2. QED
    BY <2>1 DEF ToSet
<1>10. \A l \in ToSet(b) : \E k \in 1..n : \/ l \in ToSet(us[k].title.links)
                                           \/ ~BreaksTheIndex(us[k].title) /\ l = FileLink(us[k].path)
  <2>1. \A l \in ToSet(b) : \E i \in 1..n :
           \/ l \in ToSet(entries[i].title.links)
           \/ ~BreaksTheIndex(entries[i].title) /\ l = entries[i].link
    BY <1>3, <1>4, ListedHold
  <2>2. ASSUME NEW l \in ToSet(b)
        PROVE  \E k \in 1..n : \/ l \in ToSet(us[k].title.links)
                               \/ ~BreaksTheIndex(us[k].title) /\ l = FileLink(us[k].path)
    <3>1. PICK k \in 1..n : \/ l \in ToSet(entries[k].title.links)
                            \/ ~BreaksTheIndex(entries[k].title) /\ l = entries[k].link
      BY <2>1
    <3>2. entries[k].title = us[k].title /\ entries[k].link = FileLink(us[k].path)
      BY <1>3
    <3>3. QED
      BY <3>1, <3>2
  <2>3. QED
    BY <2>2
<1>11. TocLinks(g) = toc
  BY <1>1, <1>4
<1>12. QED
  BY <1>2, <1>4, <1>6, <1>8, <1>9, <1>10, <1>11

\* No title is in the way; no link of a title leads to the file of a unit; what is taken for
\* the index before it begins leads out of the bundle; and the links to the units.
Plain(us, n) == \A k \in 1..n : ~BreaksTheIndex(us[k].title)
OutOfUnits(us, n) == \A i, m \in 1..n : \A l \in ToSet(us[i].title.links) : l.path # us[m].path
EarlyLeadsOut(g, title, name) == \A l \in ToSet(EarlyLinks(title, name)) : ~Has(g, l.path)
FilesOf(us, n) == [k \in 1..n |-> FileLink(us[k].path)]

\* Where no title is in the way, and nothing is taken for the index before it begins,
\* index.md holds the links to the files of the units.
LEMMA TocPlain ==
    ASSUME NEW g, NEW e, NEW us, NEW n, Filed(us, n), NEW title, NEW name, NEW index,
           index = Index(title, name, us), NEW log, NEW extra, IndexPath \in extra,
           Whole(g, e, us, n, index, log, extra), EarlyLinks(title, name) = <<>>,
           Plain(us, n)
    PROVE  TocLinks(g) = FilesOf(us, n)
<1>1. PICK entries : /\ entries = [k \in DOMAIN us |-> Titled(us[k].title, us[k].path)]
                     /\ TocLinks(g) = EarlyLinks(title, name) \o ListedLinks(entries)
  <2>1. TocLinks(g) = EarlyLinks(title, name) \o ListedLinks(EntriesOf(us))
    BY TocIs
  <2>2. QED
    BY <2>1 DEF EntriesOf
<1>2. PICK T : T = LinkSet(us, n)
  OBVIOUS
<1>3. /\ Entries(entries, n, T)
      /\ \A k \in 1..n : entries[k].title = us[k].title /\ entries[k].link = FileLink(us[k].path)
  BY <1>1, <1>2, TitledIs
<1>4. \A k \in 1..n : ~BreaksTheIndex(entries[k].title)
  BY <1>3 DEF Plain
<1>5. PICK b : b = ListedLinks(entries)
  OBVIOUS
<1>6. b = [k \in 1..n |-> entries[k].link] /\ b \in Seq(T)
  BY <1>3, <1>4, <1>5, ListedHold, ListedPlain
<1>7. <<>> \o b = b
  BY <1>6
<1>8. [k \in 1..n |-> entries[k].link] = FilesOf(us, n)
  BY <1>3 DEF FilesOf
<1>9. QED
  BY <1>1, <1>5, <1>6, <1>7, <1>8

\* A file of a bundle that is Markdown is a concept, the index or the log.
LEMMA MarkdownAre ==
    ASSUME NEW g, NEW e, OnlyAssets(e), NEW us, NEW n, Filed(us, n), NEW index, NEW log,
           NEW extra \in SUBSET {IndexPath, LogPath}, Whole(g, e, us, n, index, log, extra)
    PROVE  /\ \A p \in MarkdownFiles(g) :
                 \/ p = IndexPath /\ IndexPath \in extra /\ Data(g, p) = index
                 \/ p = LogPath /\ LogPath \in extra /\ Data(g, p) = log
                 \/ \E k \in 1..n : p = us[k].path /\ Data(g, p) = Concept(us, k, AnchorToFile(us))
           /\ \A k \in 1..n : /\ us[k].path \in MarkdownFiles(g)
                              /\ Has(g, us[k].path)
                              /\ Data(g, us[k].path) = Concept(us, k, AnchorToFile(us))
           /\ \A p \in extra : p \in MarkdownFiles(g)
<1>1. \A p \in DOMAIN e.files : p.dir = "assets"
  BY DEF OnlyAssets
<1>2. IndexPath.dir = "" /\ LogPath.dir = ""
  BY PathsDiffer
<1>3. \A k \in 1..n : us[k].path.dir = ""
  BY DEF Filed
<1>4. /\ \A p : p \in DOMAIN g.files
                  <=> p \in DOMAIN e.files \/ p \in extra \/ \E k \in 1..n : p = us[k].path
      /\ \A k \in 1..n :
            g.files[us[k].path] = [seq |-> e.next + k - 1, data |-> Concept(us, k, AnchorToFile(us))]
      /\ IndexPath \in extra => \E place : g.files[IndexPath] = [seq |-> place, data |-> index]
      /\ LogPath \in extra => \E place : g.files[LogPath] = [seq |-> place, data |-> log]
  BY DEF Whole
<1>5. ASSUME NEW k \in 1..n
      PROVE  /\ us[k].path \in MarkdownFiles(g) /\ Has(g, us[k].path)
             /\ Data(g, us[k].path) = Concept(us, k, AnchorToFile(us))
  <2>1. PICK x, data : x = e.next + k - 1 /\ data = Concept(us, k, AnchorToFile(us))
    OBVIOUS
  <2>2. g.files[us[k].path] = [seq |-> x, data |-> data]
    BY <1>4, <2>1, Zenon
  <2>3. us[k].path \in DOMAIN g.files
    BY <1>4
  <2>4. us[k].path \in MarkdownFiles(g)
    BY <1>3, <2>3 DEF MarkdownFiles, IsMarkdown
  <2>5. QED
    BY <2>1, <2>2, <2>3, <2>4 DEF Has, Data
<1>6. ASSUME NEW p, NEW data, NEW place, g.files[p] = [seq |-> place, data |-> data]
      PROVE  Data(g, p) = data
  <2>1. [seq |-> place, data |-> data].data = data
    OBVIOUS
  <2>2. QED
    BY <1>6, <2>1 DEF Data
<1>7. /\ IndexPath \in extra => Data(g, IndexPath) = index
      /\ LogPath \in extra => Data(g, LogPath) = log
  <2>1. ASSUME IndexPath \in extra PROVE Data(g, IndexPath) = index
    <3>1. PICK place : g.files[IndexPath] = [seq |-> place, data |-> index]
      BY <1>4, <2>1
    <3>2. QED
      BY <1>6, <3>1
  <2>2. ASSUME LogPath \in extra PROVE Data(g, LogPath) = log
    <3>1. PICK place : g.files[LogPath] = [seq |-> place, data |-> log]
      BY <1>4, <2>2
    <3>2. QED
      BY <1>6, <3>1
  <2>3. QED
    BY <2>1, <2>2
<1>8. ASSUME NEW p \in extra PROVE p \in MarkdownFiles(g)
  BY <1>2, <1>4 DEF MarkdownFiles, IsMarkdown
<1>9. ASSUME NEW p \in MarkdownFiles(g)
      PROVE  \/ p = IndexPath /\ IndexPath \in extra /\ Data(g, p) = index
             \/ p = LogPath /\ LogPath \in extra /\ Data(g, p) = log
             \/ \E k \in 1..n : p = us[k].path /\ Data(g, p) = Concept(us, k, AnchorToFile(us))
  <2>1. p \in DOMAIN g.files /\ p.dir = ""
    BY DEF MarkdownFiles, IsMarkdown
  <2>2. p \in extra \/ \E k \in 1..n : p = us[k].path
    BY <1>1, <1>4, <2>1
  <2>3. CASE p \in extra
    BY <1>7, <2>3
  <2>4. CASE \E k \in 1..n : p = us[k].path
    BY <1>5, <2>4
  <2>5. QED
    BY <2>2, <2>3, <2>4
<1>10. QED
  BY <1>5, <1>8, <1>9

---------------------------------------------------------------------------
(* Which bundles are refused *)

\* A complete bundle whose index holds its links and no others, and whose files are
\* UTF-8, has no error.
LEMMA CleanWhole ==
    ASSUME NEW g, NEW e, OnlyAssets(e), NEW us, NEW n, Filed(us, n), NEW title, NEW name,
           NEW index, index = Index(title, name, us), NEW log, ~log.broken, ~index.broken,
           NEW extra, extra = {IndexPath, LogPath}, Whole(g, e, us, n, index, log, extra),
           EarlyLinks(title, name) = <<>>,
           \A k \in 1..n : ~BreaksTheIndex(us[k].title),
           \A k \in 1..n : ~Concept(us, k, AnchorToFile(us)).broken
    PROVE  Errors(g) = {}
<1>1. n \in Nat /\ n > 0 /\ DOMAIN us = 1..n
  BY FiledIs
<1>2. extra \in SUBSET {IndexPath, LogPath} /\ IndexPath \in extra /\ LogPath \in extra
  OBVIOUS
<1>3. PICK toc : toc = [k \in 1..n |-> FileLink(us[k].path)]
  OBVIOUS
<1>4. TocLinks(g) = toc
  <2>1. Plain(us, n) /\ toc = FilesOf(us, n)
    BY <1>3 DEF Plain, FilesOf
  <2>2. TocLinks(g) = FilesOf(us, n)
    BY <1>2, <2>1, TocPlain
  <2>3. QED
    BY <2>1, <2>2
<1>5. Concepts(g) = [k \in 1..n |-> us[k].path]
  BY <1>2, ConceptsAre
<1>6. /\ \A p \in MarkdownFiles(g) :
            \/ p = IndexPath /\ Data(g, p) = index
            \/ p = LogPath /\ Data(g, p) = log
            \/ \E k \in 1..n : p = us[k].path /\ Data(g, p) = Concept(us, k, AnchorToFile(us))
      /\ \A k \in 1..n : /\ Has(g, us[k].path)
                         /\ Data(g, us[k].path) = Concept(us, k, AnchorToFile(us))
      /\ IndexPath \in MarkdownFiles(g) /\ LogPath \in MarkdownFiles(g)
  BY <1>2, MarkdownAre
<1>7. Has(g, IndexPath) /\ Has(g, LogPath)
  BY <1>6 DEF MarkdownFiles, Has
<1>8. DOMAIN toc = 1..n /\ Len(toc) = n /\ \A k \in 1..n : toc[k].path = us[k].path
  BY <1>1, <1>3, FileLinkIs
<1>9. StructureErrors(g) = {}
  <2>1. Concepts(g) # <<>>
    BY <1>1, <1>5
  <2>2. TocLinks(g) # <<>>
    BY <1>1, <1>3, <1>4
  <2>3. QED
    BY <1>7, <2>1, <2>2 DEF StructureErrors
<1>10. LinkErrors(g) = {}
  <2>1. \A m \in ToSet(TocLinks(g)) : Has(g, m.path)
    BY <1>4, <1>6, <1>8 DEF ToSet
  <2>2. \A p \in ToSet(Concepts(g)) : \E k \in 1..n : p = us[k].path
    BY <1>5 DEF ToSet
  <2>3. \A k \in 1..n : us[k].path \in Linked(g)
    <3>1. Linked(g) = {toc[i].path : i \in DOMAIN toc}
      BY <1>4, Zenon DEF Linked
    <3>2. QED
      BY <1>8, <3>1
  <2>4. ToSet(Concepts(g)) \ Linked(g) = {}
    BY <2>2, <2>3
  <2>5. {m \in ToSet(TocLinks(g)) : ~Has(g, m.path)} = {}
    BY <2>1
  <2>6. ASSUME NEW f \in LinkErrors(g) PROVE FALSE
    <3>1. PICK broken, left : /\ broken = {m \in ToSet(TocLinks(g)) : ~Has(g, m.path)}
                              /\ left = ToSet(Concepts(g)) \ Linked(g)
      OBVIOUS
    <3>2. \/ f \in {Finding("PLT-LNK-001", "error", IndexPath, l) : l \in broken}
          \/ f \in {Error("PLT-LNK-002", p) : p \in left}
          \/ f \in {Error("PLT-STR-005", p) : p \in left}
      BY <3>1, Zenon DEF LinkErrors
    <3>3. broken = {} /\ left = {}
      BY <2>4, <2>5, <3>1
    <3>4. QED
      BY <3>2, <3>3, Zenon
  <2>7. QED
    BY <2>6
<1>11. OrderErrors(g) = {}
  <2>1. \A i \in 1..n : Data(g, toc[i].path).order = i
    <3>1. ASSUME NEW i \in 1..n PROVE Data(g, toc[i].path).order = i
      <4>1. Data(g, toc[i].path) = Concept(us, i, AnchorToFile(us))
        BY <1>6, <1>8
      <4>2. ConceptOf(Data(g, toc[i].path), us, i, AnchorToFile(us))
        BY <4>1, ConceptIs
      <4>3. QED
        BY <4>2 DEF ConceptOf
    <3>2. QED
      BY <3>1
  <2>2. ASSUME NEW i \in 2..Len(toc)
        PROVE  ~(Data(g, toc[i].path).order <= Data(g, toc[i - 1].path).order)
    <3>1. i \in 1..n /\ i - 1 \in 1..n /\ i \in Nat
      BY <1>1, <1>8
    <3>2. Data(g, toc[i].path).order = i /\ Data(g, toc[i - 1].path).order = i - 1
      BY <2>1, <3>1
    <3>3. QED
      BY <3>1, <3>2
  <2>3. ~\E i \in 2..Len(toc) : Data(g, toc[i].path).order <= Data(g, toc[i - 1].path).order
    BY <2>2
  <2>4. QED
    BY <1>4, <2>3, Zenon DEF OrderErrors
<1>12. EncodingErrors(g) = {}
  <2>1. ASSUME NEW p \in MarkdownFiles(g) PROVE ~Data(g, p).broken
    <3>1. QED
      BY <1>6
  <2>2. QED
    BY <2>1, Zenon DEF EncodingErrors
<1>13. QED
  BY <1>9, <1>10, <1>11, <1>12 DEF Errors

\* A file that index.md does not link is an error.
LEMMA UnlinkedIsError ==
    ASSUME NEW g, NEW p, p \in ToSet(Concepts(g)), p \notin Linked(g)
    PROVE  Errors(g) # {}
<1>1. Error("PLT-LNK-002", p) \in {Error("PLT-LNK-002", q) : q \in ToSet(Concepts(g)) \ Linked(g)}
  OBVIOUS
<1>2. Error("PLT-LNK-002", p) \in LinkErrors(g)
  BY <1>1, Zenon DEF LinkErrors
<1>3. QED
  BY <1>2, Zenon DEF Errors

\* So is a file of the bundle that is missing, or cut in the middle of a character.
LEMMA MissingIsError ==
    ASSUME NEW g, ~Has(g, IndexPath) \/ ~Has(g, LogPath)
    PROVE  Errors(g) # {}
<1>1. \E p : Error("PLT-STR-001", p) \in StructureErrors(g) \/ Error("PLT-STR-002", p) \in StructureErrors(g)
  BY Zenon DEF StructureErrors
<1>2. QED
  BY <1>1, Zenon DEF Errors

\* A file with a cut character is an error.
LEMMA BrokenIsError ==
    ASSUME NEW g, NEW p \in MarkdownFiles(g), Data(g, p).broken
    PROVE  Errors(g) # {}
<1>1. Error("PLT-ENC-001", p) \in EncodingErrors(g)
  BY Zenon DEF EncodingErrors
<1>2. QED
  BY <1>1, Zenon DEF Errors

\* Where no title links to the file of a unit, a title that breaks the index leaves its
\* file out of it.
LEMMA BreakingIsError ==
    ASSUME NEW g, NEW e, OnlyAssets(e), NEW us, NEW n, Filed(us, n), NEW title, NEW name,
           Linking(title), Linking(name), NEW index, index = Index(title, name, us), NEW log,
           NEW extra, extra \in SUBSET {IndexPath, LogPath},
           IndexPath \in extra, Whole(g, e, us, n, index, log, extra),
           NEW k \in 1..n, BreaksTheIndex(us[k].title),
           OutOfUnits(us, n), EarlyLeadsOut(g, title, name)
    PROVE  Errors(g) # {}
<1>1. ASSUME NEW l, l \in ToSet(TocLinks(g)) PROVE l.path # us[k].path
  <2>1. CASE l \in ToSet(EarlyLinks(title, name))
    <3>1. ~Has(g, l.path)
      BY <2>1 DEF EarlyLeadsOut
    <3>2. Has(g, us[k].path)
      BY MarkdownAre
    <3>3. QED
      BY <3>1, <3>2
  <2>2. CASE l \notin ToSet(EarlyLinks(title, name))
    <3>1. PICK i \in 1..n : \/ l \in ToSet(us[i].title.links)
                            \/ ~BreaksTheIndex(us[i].title) /\ l = FileLink(us[i].path)
      BY <1>1, <2>2, TocHolds
    <3>2. CASE l \in ToSet(us[i].title.links)
      BY <3>2 DEF OutOfUnits
    <3>3. CASE ~BreaksTheIndex(us[i].title) /\ l = FileLink(us[i].path)
      <4>1. l.path = us[i].path
        BY <3>3, FileLinkIs
      <4>2. i # k
        BY <3>3
      <4>3. us[i].path # us[k].path
        BY <4>2 DEF Filed
      <4>4. QED
        BY <4>1, <4>3
    <3>4. QED
      BY <3>1, <3>2, <3>3
  <2>3. QED
    BY <2>1, <2>2
<1>2. TocLinks(g) \in Seq(LinkSet(us, n))
  BY TocHolds
<1>3. us[k].path \notin Linked(g)
  <2>1. PICK toc : toc = TocLinks(g)
    OBVIOUS
  <2>2. \A i \in DOMAIN toc : toc[i] \in ToSet(toc)
    BY <1>2, <2>1 DEF ToSet
  <2>3. Linked(g) = {toc[i].path : i \in DOMAIN toc}
    BY <2>1, Zenon DEF Linked
  <2>4. QED
    BY <1>1, <2>1, <2>2, <2>3
<1>4. us[k].path \in ToSet(Concepts(g))
  <2>1. Concepts(g) = [m \in 1..n |-> us[m].path]
    BY ConceptsAre
  <2>2. QED
    BY <2>1 DEF ToSet
<1>5. QED
  BY <1>3, <1>4, UnlinkedIsError

\* A link that is taken for the index before it begins, and leads out of the bundle, is
\* an error.
LEMMA EarlyIsError ==
    ASSUME NEW g, NEW e, NEW us, NEW n, Filed(us, n), NEW title, NEW name, Linking(title),
           Linking(name), NEW index, index = Index(title, name, us), NEW log, NEW extra,
           IndexPath \in extra, Whole(g, e, us, n, index, log, extra),
           EarlyLinks(title, name) # <<>>, EarlyLeadsOut(g, title, name)
    PROVE  Errors(g) # {}
<1>1. PICK early : early = EarlyLinks(title, name)
  OBVIOUS
<1>2. early \in Seq(Links)
  BY <1>1, EarlyLinksAre
<1>3. 1 \in DOMAIN early
  BY <1>1, <1>2
<1>4. PICK l : l \in ToSet(early)
  BY <1>3 DEF ToSet
<1>5. l \in ToSet(TocLinks(g)) /\ ~Has(g, l.path)
  BY <1>1, <1>4, TocHolds DEF EarlyLeadsOut
<1>6. PICK bad : bad = {m \in ToSet(TocLinks(g)) : ~Has(g, m.path)}
  OBVIOUS
<1>7. l \in bad
  BY <1>5, <1>6
<1>8. Finding("PLT-LNK-001", "error", IndexPath, l) \in LinkErrors(g)
  BY <1>6, <1>7, Zenon DEF LinkErrors
<1>9. QED
  BY <1>8, Zenon DEF Errors

---------------------------------------------------------------------------
(* Why a bundle is refused, and what it means that it is not *)

\* What was published, without the assets.
LEMMA PublishedBundle ==
    ASSUME NEW n, NEW c, NEW e, Published(n, c, e)
    PROVE  /\ Filed(units, n) /\ OnlyAssets(e)
           /\ \E draft : /\ Whole(draft, e, units, n, TheIndex, Log(input.name, units, {}), {IndexPath, LogPath})
                         /\ first = Run(draft)
           /\ Whole(fs, e, units, n, TheIndex, Log(input.name, units, first.findings), {IndexPath, LogPath} \ Dropped)
           /\ {IndexPath, LogPath} \ Dropped \in SUBSET {IndexPath, LogPath}
           /\ report = SecondReport(fs)
  BY Zenon DEF Published

\* The navigation of a unit, as a list of titles and links.
Neighbours(nav, us, n, k) ==
    /\ nav # <<>>
    /\ \E q, T : Entries(nav, q, T)
    /\ \A m \in {k - 1, k + 1} \cap 1..n :
          \E i \in DOMAIN nav : nav[i].title = us[m].title /\ nav[i].link = FileLink(us[m].path)
    /\ \A i \in DOMAIN nav : nav[i].title = IndexText \/ \E m \in 1..n : nav[i].title = us[m].title

\* It leads to the neighbours of the unit.
LEMMA NavigationIs ==
    ASSUME NEW us, NEW n, Filed(us, n), NEW k \in 1..n, NEW nav, nav = Navigation(us, k)
    PROVE  Neighbours(nav, us, n, k)
<1>1. n \in Nat /\ Len(us) = n /\ k \in Nat
  BY FiledIs
<1>2. PICK T : T = LinkSet(us, n) \cup {FileLink(IndexPath)}
  OBVIOUS
<1>3. PICK before, home, after :
         /\ before = Titled(us[k - 1].title, us[k - 1].path)
         /\ home = Titled(IndexText, IndexPath)
         /\ after = Titled(us[k + 1].title, us[k + 1].path)
  OBVIOUS
<1>4. PICK head, tail : /\ head = IF k > 1 THEN <<before>> ELSE <<>>
                        /\ tail = IF k < n THEN <<after>> ELSE <<>>
  OBVIOUS
<1>5. nav = head \o <<home>> \o tail
  BY <1>1, <1>3, <1>4, Zenon DEF Navigation
<1>6. /\ before.title = us[k - 1].title /\ before.link = FileLink(us[k - 1].path)
      /\ home.title = IndexText /\ home.link = FileLink(IndexPath)
      /\ after.title = us[k + 1].title /\ after.link = FileLink(us[k + 1].path)
  BY <1>3 DEF Titled
<1>7. \A m \in 1..n : us[m].title.links \in Seq(T) /\ FileLink(us[m].path) \in T
  <2>1. \A m \in 1..n : us[m].title.links \in Seq(Links)
    BY DEF Filed, Linking
  <2>2. Links \subseteq T /\ \A m \in 1..n : FileLink(us[m].path) \in T
    BY <1>2 DEF LinkSet
  <2>3. \A s \in Seq(Links) : s \in Seq(T)
    BY <2>2
  <2>4. QED
    BY <2>1, <2>2, <2>3
<1>8. home.title.links \in Seq(T) /\ home.link \in T
  <2>1. IndexText.links = <<>>
    BY DEF IndexText, Text
  <2>2. QED
    BY <1>2, <1>6, <2>1
<1>9. PICK E : E = {x \in {before, home, after} :
                     /\ x.title.links \in Seq(T) /\ x.link \in T
                     /\ x.title = IndexText \/ \E m \in 1..n : x.title = us[m].title}
  OBVIOUS
<1>10. /\ k > 1 => before \in E
       /\ home \in E
       /\ k < n => after \in E
  <2>1. k > 1 => k - 1 \in 1..n
    BY <1>1
  <2>2. k < n => k + 1 \in 1..n
    BY <1>1
  <2>3. QED
    BY <1>6, <1>7, <1>8, <1>9, <2>1, <2>2
<1>11. head \in Seq(E) /\ tail \in Seq(E) /\ <<home>> \in Seq(E)
  BY <1>4, <1>10
<1>12. nav \in Seq(E)
  BY <1>5, <1>11
<1>13. Entries(nav, Len(nav), T)
  <2>1. Len(nav) \in Nat /\ DOMAIN nav = 1..Len(nav) /\ \A i \in 1..Len(nav) : nav[i] \in E
    BY <1>12
  <2>2. QED
    BY <1>9, <2>1 DEF Entries
<1>14. ASSUME k > 1 PROVE \E i \in DOMAIN nav : nav[i] = before
  <2>1. head = <<before>>
    BY <1>4, <1>14
  <2>2. 1 \in DOMAIN nav /\ nav[1] = before
    BY <1>5, <1>10, <1>11, <1>14, <2>1
  <2>3. QED
    BY <2>2
<1>15. ASSUME k < n PROVE \E i \in DOMAIN nav : nav[i] = after
  <2>1. tail = <<after>>
    BY <1>4, <1>15
  <2>2. PICK h : h = head \o <<home>>
    OBVIOUS
  <2>3. h \in Seq(E) /\ nav = h \o <<after>> /\ <<after>> \in Seq(E)
    BY <1>5, <1>10, <1>11, <1>15, <2>1, <2>2
  <2>4. Len(h) + 1 \in DOMAIN nav /\ nav[Len(h) + 1] = after
    BY <2>3
  <2>5. QED
    BY <2>4
<1>16. ASSUME NEW m \in {k - 1, k + 1} \cap 1..n
       PROVE  \E i \in DOMAIN nav : nav[i].title = us[m].title /\ nav[i].link = FileLink(us[m].path)
  <2>1. CASE m = k - 1
    <3>1. k > 1
      BY <1>1, <2>1
    <3>2. QED
      BY <1>6, <1>14, <2>1, <3>1
  <2>2. CASE m = k + 1
    <3>1. k < n
      BY <1>1, <2>2
    <3>2. QED
      BY <1>6, <1>15, <2>2, <3>1
  <2>3. QED
    BY <2>1, <2>2
<1>17. nav # <<>>
  <2>1. Len(nav) = Len(head) + 1 + Len(tail) /\ Len(head) \in Nat /\ Len(tail) \in Nat
    BY <1>5, <1>11
  <2>2. QED
    BY <2>1
<1>18. \A i \in DOMAIN nav : nav[i].title = IndexText \/ \E m \in 1..n : nav[i].title = us[m].title
  <2>1. \A i \in DOMAIN nav : nav[i] \in E
    BY <1>12
  <2>2. QED
    BY <1>9, <2>1
<1>19. QED
  BY <1>13, <1>16, <1>17, <1>18 DEF Neighbours

\* The titles of the navigation are those of the units, and its own.
LEMMA NavigationTitles ==
    ASSUME NEW us, NEW n, Filed(us, n), NEW k \in 1..n, NEW t \in TitlesOf(Navigation(us, k))
    PROVE  t = IndexText \/ \E m \in 1..n : t = us[m].title
<1>1. PICK nav : nav = Navigation(us, k)
  OBVIOUS
<1>2. Neighbours(nav, us, n, k)
  BY <1>1, NavigationIs
<1>3. PICK i \in DOMAIN nav : t = nav[i].title
  BY <1>1 DEF TitlesOf
<1>4. QED
  BY <1>2, <1>3 DEF Neighbours

\* A bundle without a text that is not UTF-8 has concepts and an index that are UTF-8.
LEMMA GoodBytes ==
    ASSUME NEW n, Filed(units, n), ~BadBytes
    PROVE  /\ \A k \in 1..n : ~Concept(units, k, AnchorToFile(units)).broken
           /\ ~TheIndex.broken
           /\ \A t \in {input.name} \cup TitlesOf(units) : "broken" \notin t.marks
<1>1. DOMAIN units = 1..n
  BY FiledIs
<1>2. /\ "broken" \notin input.name.marks /\ "broken" \notin input.doc.title.marks
      /\ \A k \in 1..n : /\ "broken" \notin units[k].title.marks
                         /\ \A b \in ToSet(Body(units[k])) : "broken" \notin MarksOf(b)
  BY <1>1 DEF BadBytes
<1>3. \A t \in TitlesOf(units) : \E k \in 1..n : t = units[k].title
  BY <1>1 DEF TitlesOf
<1>4. \A t \in {input.name} \cup TitlesOf(units) : "broken" \notin t.marks
  BY <1>2, <1>3
<1>5. "broken" \notin IndexText.marks
  BY DEF IndexText, Text
<1>6. ASSUME NEW k \in 1..n PROVE ~Concept(units, k, AnchorToFile(units)).broken
  <2>1. PICK data : data = Concept(units, k, AnchorToFile(units))
    OBVIOUS
  <2>2. ConceptOf(data, units, k, AnchorToFile(units))
    BY <2>1, ConceptIs
  <2>3. PICK titles, body : titles = {units[k].title} \cup TitlesOf(data.nav) /\ body = Body(units[k])
    OBVIOUS
  <2>4. data.nav = Navigation(units, k) /\ (data.broken <=> NotUTF8(titles, body))
    BY <2>2, <2>3, Zenon DEF ConceptOf
  <2>5. ASSUME NEW t \in titles PROVE "broken" \notin t.marks
    <3>1. t = units[k].title \/ t \in TitlesOf(Navigation(units, k))
      BY <2>3, <2>4
    <3>2. t = units[k].title \/ t = IndexText \/ \E m \in 1..n : t = units[m].title
      BY <3>1, NavigationTitles
    <3>3. QED
      BY <1>2, <1>5, <3>2
  <2>6. \A i \in DOMAIN body : "broken" \notin MarksOf(body[i])
    <3>1. \A i \in DOMAIN body : body[i] \in ToSet(body)
      BY DEF ToSet
    <3>2. QED
      BY <1>2, <2>3, <3>1
  <2>7. ~NotUTF8(titles, body)
    BY <2>5, <2>6, Zenon DEF NotUTF8
  <2>8. QED
    BY <2>1, <2>4, <2>7
<1>7. ~TheIndex.broken
  <2>1. PICK index, title : index = TheIndex /\ title = BundleTitle
    OBVIOUS
  <2>2. index = Index(title, input.name, units)
    BY <2>1, Zenon DEF TheIndex
  <2>3. IndexOf(index, title, input.name, units)
    BY <2>2, IndexIs
  <2>4. PICK titles : titles = {title} \cup TitlesOf(units)
    OBVIOUS
  <2>5. index.broken <=> NotUTF8(titles, <<>>)
    BY <2>3, <2>4, Zenon DEF IndexOf
  <2>6. title = input.doc.title \/ title = input.name
    BY <2>1 DEF BundleTitle, Or
  <2>7. \A t \in titles : "broken" \notin t.marks
    BY <1>2, <1>4, <2>4, <2>6
  <2>8. DOMAIN <<>> = {}
    OBVIOUS
  <2>9. ~NotUTF8(titles, <<>>)
    BY <2>7, <2>8 DEF NotUTF8
  <2>10. QED
    BY <2>1, <2>5, <2>9
<1>8. QED
  BY <1>4, <1>6, <1>7

\* The bytes of a file.
LEMMA DataIs ==
    ASSUME NEW g, NEW p, NEW data, NEW place, g.files[p] = [seq |-> place, data |-> data]
    PROVE  Data(g, p) = data
<1>1. [seq |-> place, data |-> data].data = data
  OBVIOUS
<1>2. QED
  BY <1>1 DEF Data

\* Nothing but a cause of refusal makes a bundle invalid.
LEMMA NoCauseNoRefusal ==
    ASSUME NEW n, NEW c, NEW e, Published(n, c, e), ~CauseOfRefusal
    PROVE  report.verdict # "invalid"
<1>1. /\ Filed(units, n) /\ OnlyAssets(e) /\ report = SecondReport(fs)
      /\ Whole(fs, e, units, n, TheIndex, Log(input.name, units, first.findings), {IndexPath, LogPath} \ Dropped)
  BY PublishedBundle
<1>2. PICK draft : /\ Whole(draft, e, units, n, TheIndex, Log(input.name, units, {}), {IndexPath, LogPath})
                   /\ first = Run(draft)
  BY PublishedBundle
<1>3. DOMAIN units = 1..n
  BY <1>1, FiledIs
<1>4. /\ input.inject = ""
      /\ \A k \in 1..n : ~BreaksTheIndex(units[k].title)
      /\ EarlyLinks(BundleTitle, input.name) = <<>>
      /\ ~CutInTheLog /\ ~BadBytes
  BY <1>3 DEF CauseOfRefusal
<1>5. PICK index, one, two : /\ index = TheIndex /\ one = Log(input.name, units, {})
                             /\ two = Log(input.name, units, first.findings)
  OBVIOUS
<1>6. PICK title, name : /\ title = BundleTitle /\ name = input.name
                         /\ index = Index(title, name, units)
  BY <1>5, Zenon DEF TheIndex
<1>16. EarlyLinks(title, name) = <<>>
  BY <1>4, <1>6
<1>17. /\ \A k \in 1..n : ~Concept(units, k, AnchorToFile(units)).broken
       /\ ~index.broken
       /\ \A t \in {name} \cup TitlesOf(units) : "broken" \notin t.marks
  BY <1>1, <1>4, <1>5, <1>6, GoodBytes
<1>18. ~BadInTheLog(name, units)
  <2>1. \A t \in {name} \cup TitlesOf(units) : "wide" \notin t.marks
    BY <1>4, <1>6 DEF CutInTheLog, TitlesOf
  <2>2. QED
    BY <1>17, <2>1, Zenon DEF BadInTheLog
<1>7. ~one.broken
  <2>1. ~CutFinding({})
    BY DEF CutFinding
  <2>2. QED
    BY <1>5, <1>6, <1>18, <2>1, LogIs
<1>8. Errors(draft) = {}
  BY <1>1, <1>2, <1>4, <1>5, <1>6, <1>7, <1>16, <1>17, CleanWhole
<1>9. Publishable(first.findings)
  BY <1>2, <1>8, PublishableIs
<1>10. ~CutFinding(first.findings)
  <2>1. ASSUME NEW f \in first.findings, f.severity # "info" PROVE f.severity = "warning"
    <3>1. f \in Errors(draft) \/ f \in Warnings(draft) \/ f \in Conformance(draft)
      BY <1>2, RunIs
    <3>2. QED
      BY <1>8, <2>1, <3>1, Severities
  <2>2. QED
    BY <1>4, <2>1 DEF CutFinding, CutInTheLog
<1>11. ~two.broken
  BY <1>5, <1>6, <1>10, <1>18, LogIs
<1>12. Dropped = {}
  BY <1>4 DEF Dropped
<1>13. Whole(fs, e, units, n, index, two, {IndexPath, LogPath})
  <2>1. {IndexPath, LogPath} \ {} = {IndexPath, LogPath}
    OBVIOUS
  <2>2. QED
    BY <1>1, <1>5, <1>12, <2>1, Zenon
<1>14. Errors(fs) = {}
  BY <1>1, <1>4, <1>6, <1>11, <1>13, <1>16, <1>17, CleanWhole
<1>15. QED
  BY <1>1, <1>9, <1>14, SecondIs

\* Every cause of refusal makes a bundle invalid, if the links inside the titles lead out.
LEMMA CauseIsRefusal ==
    ASSUME NEW n, NEW c, NEW e, Published(n, c, e), CauseOfRefusal, TitlesLeadOut,
           input \in Inputs
    PROVE  report.verdict = "invalid"
<1>1. PICK extra : extra = {IndexPath, LogPath} \ Dropped
  OBVIOUS
<1>2. PICK index, log : index = TheIndex /\ log = Log(input.name, units, first.findings)
  OBVIOUS
<1>3. /\ Filed(units, n) /\ OnlyAssets(e) /\ report = SecondReport(fs)
      /\ Whole(fs, e, units, n, index, log, extra) /\ extra \in SUBSET {IndexPath, LogPath}
  BY <1>1, <1>2, PublishedBundle
<1>4. PICK title, name : /\ title = BundleTitle /\ name = input.name
                         /\ index = Index(title, name, units)
  BY <1>2, Zenon DEF TheIndex
<1>9. /\ input.inject \in {"", "drop_index", "drop_log"}
      /\ Linking(title) /\ Linking(name)
      /\ NoText.marks = {"empty"}
  <2>1. /\ input.inject \in {"", "drop_index", "drop_log"}
        /\ input.doc \in Documents /\ input.name \in Texts
    BY ConversionAssumption
  <2>2. Linking(input.doc.title) /\ Linking(name)
    BY <1>4, <2>1 DEF Linking, Documents, Texts
  <2>3. Linking(Or(input.doc.title, input.name))
    BY <1>4, <2>2, TitlesTyped
  <2>4. NoText.marks = {"empty"}
    BY DEF NoText, Text
  <2>5. QED
    BY <1>4, <2>1, <2>2, <2>3, <2>4 DEF BundleTitle
<1>10. EarlyLeadsOut(fs, title, name)
  <2>1. \A l \in ToSet(name.links \o title.links) : ~Has(fs, l.path)
    BY <1>4 DEF TitlesLeadOut
  <2>2. QED
    BY <1>9, <2>1, EarlyLinksAre DEF EarlyLeadsOut
<1>5. DOMAIN units = 1..n
  BY <1>3, FiledIs
<1>6. CASE input.inject # ""
  <2>1. PICK p : Dropped = {p} /\ (p = IndexPath \/ p = LogPath)
    BY <1>6, <1>9 DEF Dropped
  <2>2. p \notin DOMAIN fs.files
    <3>1. p \notin extra
      BY <1>1, <2>1
    <3>2. p \notin DOMAIN e.files /\ \A k \in 1..n : p # units[k].path
      BY <1>3, <2>1, NotYet
    <3>3. p \in DOMAIN fs.files <=> p \in DOMAIN e.files \/ p \in extra \/ \E k \in 1..n : p = units[k].path
      BY <1>3, Zenon DEF Whole
    <3>4. QED
      BY <3>1, <3>2, <3>3
  <2>3. ~Has(fs, IndexPath) \/ ~Has(fs, LogPath)
    BY <2>1, <2>2 DEF Has
  <2>4. Errors(fs) # {}
    BY <2>3, MissingIsError
  <2>5. QED
    BY <1>3, <2>4, SecondIs
<1>7. CASE input.inject = ""
  <2>1. extra = {IndexPath, LogPath}
    BY <1>1, <1>7 DEF Dropped
  <2>5. /\ LogPath \in MarkdownFiles(fs) /\ Data(fs, LogPath) = log
        /\ IndexPath \in MarkdownFiles(fs) /\ Data(fs, IndexPath) = index
    <3>1. LogPath \in MarkdownFiles(fs) /\ IndexPath \in MarkdownFiles(fs)
      BY <1>3, <2>1, MarkdownAre
    <3>2. PICK place : fs.files[LogPath] = [seq |-> place, data |-> log]
      BY <1>3, <2>1 DEF Whole
    <3>3. PICK at : fs.files[IndexPath] = [seq |-> at, data |-> index]
      BY <1>3, <2>1 DEF Whole
    <3>4. QED
      BY <3>1, <3>2, <3>3, DataIs
  <2>2. CASE \E k \in DOMAIN units : BreaksTheIndex(units[k].title)
    <3>1. PICK k \in 1..n : BreaksTheIndex(units[k].title)
      BY <1>5, <2>2
    <3>2. OutOfUnits(units, n)
      BY <1>5 DEF TitlesLeadOut, OutOfUnits
    <3>3. IndexPath \in extra
      BY <2>1
    <3>4. Errors(fs) # {}
      BY <1>3, <1>4, <1>9, <1>10, <3>1, <3>2, <3>3, BreakingIsError
    <3>5. QED
      BY <1>3, <3>4, SecondIs
  <2>3. CASE CutInTheLog
    <3>1. BadInTheLog(name, units) \/ CutFinding(first.findings)
      BY <1>4, <2>3 DEF CutInTheLog, BadInTheLog, CutFinding, TitlesOf
    <3>2. log.broken
      BY <1>2, <1>4, <3>1, LogIs
    <3>3. Errors(fs) # {}
      BY <2>5, <3>2, BrokenIsError
    <3>4. QED
      BY <1>3, <3>3, SecondIs
  <2>4. CASE EarlyLinks(BundleTitle, input.name) # <<>>
    <3>1. EarlyLinks(title, name) # <<>> /\ IndexPath \in extra
      BY <1>4, <2>1, <2>4
    <3>2. Errors(fs) # {}
      BY <1>3, <1>4, <1>9, <1>10, <3>1, EarlyIsError
    <3>3. QED
      BY <1>3, <3>2, SecondIs
  <2>6. CASE BadBytes
    <3>1. CASE "broken" \in input.name.marks
      <4>1. log.broken
        <5>1. BadInTheLog(name, units)
          BY <1>4, <3>1 DEF BadInTheLog
        <5>2. QED
          BY <1>2, <1>4, <5>1, LogIs
      <4>2. Errors(fs) # {}
        BY <2>5, <4>1, BrokenIsError
      <4>3. QED
        BY <1>3, <4>2, SecondIs
    <3>2. CASE "broken" \in input.doc.title.marks
      <4>1. title = input.doc.title
        <5>1. input.doc.title # NoText
          BY <1>9, <3>2
        <5>2. QED
          BY <1>4, <5>1 DEF BundleTitle, Or
      <4>2. PICK titles : titles = {title} \cup TitlesOf(units)
        OBVIOUS
      <4>3. title \in titles /\ "broken" \in title.marks
        BY <3>2, <4>1, <4>2
      <4>4. NotUTF8(titles, <<>>)
        BY <4>3, Zenon DEF NotUTF8
      <4>5. IndexOf(index, title, name, units)
        BY <1>4, IndexIs
      <4>6. index.broken
        BY <4>2, <4>4, <4>5, Zenon DEF IndexOf
      <4>7. Errors(fs) # {}
        BY <2>5, <4>6, BrokenIsError
      <4>8. QED
        BY <1>3, <4>7, SecondIs
    <3>3. CASE \E k \in DOMAIN units : \/ "broken" \in units[k].title.marks
                                      \/ \E b \in ToSet(Body(units[k])) : "broken" \in MarksOf(b)
      <4>1. PICK k \in 1..n : \/ "broken" \in units[k].title.marks
                             \/ \E b \in ToSet(Body(units[k])) : "broken" \in MarksOf(b)
        BY <1>5, <3>3
      <4>2. PICK data : data = Concept(units, k, AnchorToFile(units))
        OBVIOUS
      <4>3. ConceptOf(data, units, k, AnchorToFile(units))
        BY <4>2, ConceptIs
      <4>4. PICK titles, body : titles = {units[k].title} \cup TitlesOf(data.nav) /\ body = Body(units[k])
        OBVIOUS
      <4>5. (\E t \in titles : "broken" \in t.marks) \/ \E i \in DOMAIN body : "broken" \in MarksOf(body[i])
        BY <4>1, <4>4 DEF ToSet
      <4>6. NotUTF8(titles, body)
        BY <4>5, Zenon DEF NotUTF8
      <4>7. data.broken
        BY <4>3, <4>4, <4>6, Zenon DEF ConceptOf
      <4>8. units[k].path \in MarkdownFiles(fs) /\ Data(fs, units[k].path) = data
        BY <1>3, <4>2, MarkdownAre
      <4>9. Errors(fs) # {}
        BY <4>7, <4>8, BrokenIsError
      <4>10. QED
        BY <1>3, <4>9, SecondIs
    <3>4. QED
      BY <2>6, <3>1, <3>2, <3>3 DEF BadBytes
  <2>7. QED
    BY <1>7, <2>2, <2>3, <2>4, <2>6 DEF CauseOfRefusal
<1>8. QED
  BY <1>6, <1>7

\* A bundle is refused because a file was removed on purpose, because of a title that the
\* index cannot hold, because a link of the title or of the name is taken for the index,
\* because of a text that the log cuts or that is not UTF-8, and for no other reason.
THEOREM InvalidHasACauseHolds == ConversionSpec => []InvalidHasACause
<1>1. ConversionInvariant => InvalidHasACause
  <2> SUFFICES ASSUME ConversionInvariant, Converted PROVE InvalidHasACause
    BY DEF InvalidHasACause
  <2>1. PICK n, c, e : Published(n, c, e)
    BY PublishedIs
  <2>2. input \in Inputs
    BY DEF ConversionInvariant, Computes
  <2>3. QED
    BY <2>1, <2>2, NoCauseNoRefusal, CauseIsRefusal DEF InvalidHasACause
<1>2. QED
  BY <1>1, ConversionIsAFunction, PTL

---------------------------------------------------------------------------
(* What the validator lets through can be walked *)

\* The validator finds the links to the neighbours, unless the index could not hold them.
LEMMA NeighboursFound ==
    ASSUME NEW us, NEW n, Filed(us, n), NEW k \in 1..n, NEW nav, nav = Navigation(us, k),
           NEW m \in {k - 1, k + 1} \cap 1..n, ~BreaksTheIndex(us[m].title)
    PROVE  FileLink(us[m].path) \in ToSet(MatchesAll(nav))
<1> Neighbours(nav, us, n, k)
  BY NavigationIs
<1>1. PICK q, T : Entries(nav, q, T)
  BY DEF Neighbours
<1>2. PICK i \in DOMAIN nav : nav[i].title = us[m].title /\ nav[i].link = FileLink(us[m].path)
  BY DEF Neighbours
<1>3. DOMAIN nav = 1..q
  BY <1>1 DEF Entries
<1>4. PICK l : l = FileLink(us[m].path)
  OBVIOUS
<1>5. Matches(nav[i].title, nav[i].link) = <<l>>
  BY <1>2, <1>4, Zenon DEF Matches, BreaksTheIndex
<1>6. l \in ToSet(Matches(nav[i].title, nav[i].link))
  <2>1. l \in ToSet(<<l>>)
    BY DEF ToSet
  <2>2. QED
    BY <1>5, <2>1
<1>7. l \in ToSet(MatchesAll(nav))
  BY <1>1, <1>2, <1>3, <1>6, MatchesHold
<1>8. QED
  BY <1>4, <1>7

\* Where every title can be linked, the index leads to every concept, and every concept to
\* its neighbours.
LEMMA WalkedThrough ==
    ASSUME NEW g, NEW e, OnlyAssets(e), NEW us, NEW n, Filed(us, n), NEW title, NEW name,
           NEW index, index = Index(title, name, us), NEW log, NEW extra,
           extra \in SUBSET {IndexPath, LogPath},
           IndexPath \in extra, Whole(g, e, us, n, index, log, extra),
           EarlyLinks(title, name) = <<>>, \A k \in 1..n : ~BreaksTheIndex(us[k].title)
    PROVE  /\ TocLinks(g) = [k \in 1..n |-> FileLink(us[k].path)]
           /\ \A k \in 1..n : \A m \in {k - 1, k + 1} \cap 1..n :
                 FileLink(us[m].path) \in ToSet(MatchesAll(Data(g, us[k].path).nav))
<1>1. TocLinks(g) = [k \in 1..n |-> FileLink(us[k].path)]
  <2>1. Plain(us, n)
    BY DEF Plain
  <2>2. TocLinks(g) = FilesOf(us, n)
    BY <2>1, TocPlain
  <2>3. QED
    BY <2>2 DEF FilesOf
<1>2. /\ \A k \in 1..n : /\ us[k].path \in MarkdownFiles(g) /\ Has(g, us[k].path)
                         /\ Data(g, us[k].path) = Concept(us, k, AnchorToFile(us))
      /\ IndexPath \in MarkdownFiles(g)
  BY MarkdownAre
<1>3. ASSUME NEW k \in 1..n, NEW m \in {k - 1, k + 1} \cap 1..n
      PROVE  FileLink(us[m].path) \in ToSet(MatchesAll(Data(g, us[k].path).nav))
  <2>1. ConceptOf(Data(g, us[k].path), us, k, AnchorToFile(us))
    BY <1>2, ConceptIs
  <2>2. PICK nav : nav = Data(g, us[k].path).nav
    OBVIOUS
  <2>3. nav = Navigation(us, k)
    BY <2>1, <2>2 DEF ConceptOf
  <2>4. FileLink(us[m].path) \in ToSet(MatchesAll(nav))
    BY <2>3, NeighboursFound
  <2>5. QED
    BY <2>2, <2>4
<1>4. QED
  BY <1>1, <1>3

\* A candidate without errors can be walked from its index and from each of its concepts.
THEOREM PublishableIsNavigableHolds == ConversionSpec => []PublishableIsNavigable
<1>1. ConversionInvariant => PublishableIsNavigable
  <2> SUFFICES ASSUME ConversionInvariant, Converted PROVE PublishableIsNavigable
    BY DEF PublishableIsNavigable
  <2>1. PICK n, c, e : Published(n, c, e)
    BY PublishedIs
  <2>2. input \in Inputs
    BY DEF ConversionInvariant, Computes
  <2>4. PICK extra : extra = {IndexPath, LogPath} \ Dropped
    OBVIOUS
  <2>5. PICK index, log : index = TheIndex /\ log = Log(input.name, units, first.findings)
    OBVIOUS
  <2>6. /\ Filed(units, n) /\ OnlyAssets(e) /\ report = SecondReport(fs)
        /\ Whole(fs, e, units, n, index, log, extra) /\ extra \in SUBSET {IndexPath, LogPath}
    BY <2>1, <2>4, <2>5, PublishedBundle
  <2>7. PICK title, name : /\ title = BundleTitle /\ name = input.name
                           /\ index = Index(title, name, units)
    BY <2>5, Zenon DEF TheIndex
  <2>8. DOMAIN units = 1..n
    BY <2>6, FiledIs
  <2>9. Concepts(fs) = [k \in 1..n |-> units[k].path]
    BY <2>6, ConceptsAre
  <2>10. ASSUME TitlesLeadOut, Publishable(report.findings)
         PROVE  /\ TocLinks(fs) = [k \in 1..n |-> FileLink(units[k].path)]
                /\ \A k \in 1..n : \A m \in {k - 1, k + 1} \cap 1..n :
                      FileLink(units[m].path) \in ToSet(MatchesAll(Data(fs, units[k].path).nav))
    <3>1. report.verdict # "invalid"
      BY <2>6, <2>10, SecondIs
    <3>2. ~CauseOfRefusal
      BY <2>1, <2>2, <2>10, <3>1, CauseIsRefusal
    <3>3. /\ input.inject = "" /\ \A k \in 1..n : ~BreaksTheIndex(units[k].title)
          /\ EarlyLinks(title, name) = <<>>
      BY <2>7, <2>8, <3>2 DEF CauseOfRefusal
    <3>4. IndexPath \in extra
      BY <2>4, <3>3 DEF Dropped
    <3>5. QED
      BY <2>6, <2>7, <3>3, <3>4, WalkedThrough
  <2>11. QED
    BY <2>8, <2>9, <2>10, Zenon DEF PublishableIsNavigable
<1>2. QED
  BY <1>1, ConversionIsAFunction, PTL

---------------------------------------------------------------------------
(* The score *)

\* The weights are natural numbers.
LEMMA WeightsTyped ==
    /\ DOMAIN Weight = {"SingleH1", "FrontMatter", "ExplicitOrder", "NavBlocks",
                        "NoRawHTML", "KebabNames", "LogStages", "AssetsUsed"}
    /\ \A c \in DOMAIN Weight : Weight[c] \in Nat
    /\ Weight["SingleH1"] = 15 /\ Weight["FrontMatter"] = 15 /\ Weight["ExplicitOrder"] = 15
    /\ Weight["NavBlocks"] = 15 /\ Weight["NoRawHTML"] = 10 /\ Weight["KebabNames"] = 10
    /\ Weight["LogStages"] = 10 /\ Weight["AssetsUsed"] = 10
  BY DEF Weight

\* They are added up one check at a time.
Scored(S, T) == SumFunctionOnSet(Weight, S \cap T)
Gain(S, c) == IF c \in S THEN Weight[c] ELSE 0

\* One check more adds its weight, if it passed.
LEMMA OneMore ==
    ASSUME NEW S, S \subseteq DOMAIN Weight, IsFiniteSet(S), NEW T, NEW c \in DOMAIN Weight, c \notin T
    PROVE  Scored(S, T \cup {c}) = Gain(S, c) + Scored(S, T)
<1>1. CASE c \notin S
  <2>1. S \cap (T \cup {c}) = S \cap T
    BY <1>1
  <2>2. Scored(S, T \cup {c}) = Scored(S, T) /\ Gain(S, c) = 0
    BY <1>1, <2>1, Zenon DEF Scored, Gain
  <2>3. Scored(S, T) \in Nat
    <3>1. IsFiniteSet(S \cap T)
      BY FS_Subset
    <3>2. \A x \in S \cap T : Weight[x] \in Nat
      BY WeightsTyped
    <3>3. SumFunctionOnSet(Weight, S \cap T) \in Nat
      BY <3>1, <3>2, SumSame
    <3>4. QED
      BY <3>3 DEF Scored
  <2>4. PICK s \in Nat : s = Scored(S, T)
    BY <2>3
  <2>5. QED
    BY <2>2, <2>4
<1>2. CASE c \in S
  <2>1. PICK U : U = S \cap (T \cup {c})
    OBVIOUS
  <2>2. IsFiniteSet(U) /\ c \in U
    BY <1>2, <2>1, FS_Subset
  <2>3. \A x \in U : Weight[x] \in Nat
    BY <2>1, WeightsTyped
  <2>4. SumFunctionOnSet(Weight, U) = Weight[c] + SumFunctionOnSet(Weight, U \ {c})
    BY <2>2, <2>3, SumMore
  <2>5. U \ {c} = S \cap T
    BY <2>1
  <2>6. Gain(S, c) = Weight[c]
    BY <1>2 DEF Gain
  <2>7. QED
    BY ONLY <2>1, <2>4, <2>5, <2>6, Zenon DEF Scored
<1>3. QED
  BY <1>1, <1>2

\* Only the whole of them makes 100.
LEMMA WeightsAddUp ==
    ASSUME NEW S, S \subseteq DOMAIN Weight
    PROVE  SumFunctionOnSet(Weight, S) = 100 <=> S = DOMAIN Weight
<1>1. DOMAIN Weight = {"SingleH1", "FrontMatter", "ExplicitOrder", "NavBlocks",
                       "NoRawHTML", "KebabNames", "LogStages", "AssetsUsed"}
  BY WeightsTyped
<1>2. IsFiniteSet(S)
  <2>1. IsFiniteSet({"SingleH1", "FrontMatter", "ExplicitOrder", "NavBlocks",
                     "NoRawHTML", "KebabNames", "LogStages", "AssetsUsed"})
    <3>1. /\ IsFiniteSet({"SingleH1"})
          /\ \A U, x : IsFiniteSet(U) => IsFiniteSet(U \cup {x})
      BY FS_Singleton, FS_AddElement
    <3>2. IsFiniteSet((((((({"SingleH1"} \cup {"FrontMatter"}) \cup {"ExplicitOrder"}) \cup {"NavBlocks"})
                        \cup {"NoRawHTML"}) \cup {"KebabNames"}) \cup {"LogStages"}) \cup {"AssetsUsed"})
      BY ONLY <3>1, Zenon
    <3>3. {"SingleH1", "FrontMatter", "ExplicitOrder", "NavBlocks", "NoRawHTML", "KebabNames", "LogStages",
           "AssetsUsed"}
            = (((((({"SingleH1"} \cup {"FrontMatter"}) \cup {"ExplicitOrder"}) \cup {"NavBlocks"})
                  \cup {"NoRawHTML"}) \cup {"KebabNames"}) \cup {"LogStages"}) \cup {"AssetsUsed"}
      OBVIOUS
    <3>4. QED
      BY <3>2, <3>3
  <2>2. QED
    BY <1>1, <2>1, FS_Subset
<1>3. PICK t0, t1, t2, t3, t4, t5, t6, t7, t8 :
         /\ t0 = {} /\ t1 = t0 \cup {"SingleH1"} /\ t2 = t1 \cup {"FrontMatter"}
         /\ t3 = t2 \cup {"ExplicitOrder"} /\ t4 = t3 \cup {"NavBlocks"} /\ t5 = t4 \cup {"NoRawHTML"}
         /\ t6 = t5 \cup {"KebabNames"} /\ t7 = t6 \cup {"LogStages"} /\ t8 = t7 \cup {"AssetsUsed"}
  OBVIOUS
<1>4. S \cap t8 = S
  BY <1>1, <1>3
<1>5. Scored(S, t0) = 0
  <2>1. S \cap t0 = {}
    BY <1>3
  <2>2. QED
    BY <2>1, SumEmpty DEF Scored
<1>6. /\ Scored(S, t1) = Gain(S, "SingleH1") + Scored(S, t0)
      /\ Scored(S, t2) = Gain(S, "FrontMatter") + Scored(S, t1)
      /\ Scored(S, t3) = Gain(S, "ExplicitOrder") + Scored(S, t2)
      /\ Scored(S, t4) = Gain(S, "NavBlocks") + Scored(S, t3)
      /\ Scored(S, t5) = Gain(S, "NoRawHTML") + Scored(S, t4)
      /\ Scored(S, t6) = Gain(S, "KebabNames") + Scored(S, t5)
      /\ Scored(S, t7) = Gain(S, "LogStages") + Scored(S, t6)
      /\ Scored(S, t8) = Gain(S, "AssetsUsed") + Scored(S, t7)
  <2>1. /\ "SingleH1" \notin t0 /\ "FrontMatter" \notin t1 /\ "ExplicitOrder" \notin t2
        /\ "NavBlocks" \notin t3 /\ "NoRawHTML" \notin t4 /\ "KebabNames" \notin t5
        /\ "LogStages" \notin t6 /\ "AssetsUsed" \notin t7
    BY <1>3
  <2>2. Scored(S, t0 \cup {"SingleH1"}) = Gain(S, "SingleH1") + Scored(S, t0)
    BY <1>1, <1>2, <2>1, OneMore
  <2>3. Scored(S, t1 \cup {"FrontMatter"}) = Gain(S, "FrontMatter") + Scored(S, t1)
    BY <1>1, <1>2, <2>1, OneMore
  <2>4. Scored(S, t2 \cup {"ExplicitOrder"}) = Gain(S, "ExplicitOrder") + Scored(S, t2)
    BY <1>1, <1>2, <2>1, OneMore
  <2>5. Scored(S, t3 \cup {"NavBlocks"}) = Gain(S, "NavBlocks") + Scored(S, t3)
    BY <1>1, <1>2, <2>1, OneMore
  <2>6. Scored(S, t4 \cup {"NoRawHTML"}) = Gain(S, "NoRawHTML") + Scored(S, t4)
    BY <1>1, <1>2, <2>1, OneMore
  <2>7. Scored(S, t5 \cup {"KebabNames"}) = Gain(S, "KebabNames") + Scored(S, t5)
    BY <1>1, <1>2, <2>1, OneMore
  <2>8. Scored(S, t6 \cup {"LogStages"}) = Gain(S, "LogStages") + Scored(S, t6)
    BY <1>1, <1>2, <2>1, OneMore
  <2>9. Scored(S, t7 \cup {"AssetsUsed"}) = Gain(S, "AssetsUsed") + Scored(S, t7)
    BY <1>1, <1>2, <2>1, OneMore
  <2>10. QED
    BY ONLY <1>3, <2>2, <2>3, <2>4, <2>5, <2>6, <2>7, <2>8, <2>9, Zenon
<1>7. \A c : c \notin S => Gain(S, c) = 0
  BY DEF Gain
<1>8. \A c : c \in S => Gain(S, c) = Weight[c]
  BY DEF Gain
<1>9. PICK a, b, c, d, f, g, h, i :
         /\ a = Gain(S, "SingleH1") /\ b = Gain(S, "FrontMatter") /\ c = Gain(S, "ExplicitOrder")
         /\ d = Gain(S, "NavBlocks") /\ f = Gain(S, "NoRawHTML") /\ g = Gain(S, "KebabNames")
         /\ h = Gain(S, "LogStages") /\ i = Gain(S, "AssetsUsed")
  OBVIOUS
<1>10. /\ a \in {0, 15} /\ b \in {0, 15} /\ c \in {0, 15} /\ d \in {0, 15}
       /\ f \in {0, 10} /\ g \in {0, 10} /\ h \in {0, 10} /\ i \in {0, 10}
  BY <1>7, <1>8, <1>9, WeightsTyped
<1>11. PICK s : s = SumFunctionOnSet(Weight, S)
  OBVIOUS
<1>12. s = Scored(S, t8)
  BY ONLY <1>4, <1>11, Zenon DEF Scored
<1>13. s = i + (h + (g + (f + (d + (c + (b + (a + 0)))))))
  BY ONLY <1>5, <1>6, <1>9, <1>12, Zenon
<1>14. s = 100 <=> /\ a # 0 /\ b # 0 /\ c # 0 /\ d # 0 /\ f # 0 /\ g # 0 /\ h # 0 /\ i # 0
  BY <1>10, <1>13
<1>15. \A x \in DOMAIN Weight : Gain(S, x) # 0 <=> x \in S
  <2>1. \A x \in DOMAIN Weight : Weight[x] # 0
    BY WeightsTyped
  <2>2. QED
    BY <1>7, <1>8, <2>1
<1>16. s = 100 <=> \A x \in DOMAIN Weight : x \in S
  BY <1>1, <1>9, <1>14, <1>15
<1>17. QED
  BY <1>11, <1>16

\* What each check looks at.
Checks(g, c) ==
    CASE c = "SingleH1" -> \A k \in DOMAIN Concepts(g) :
                               \A b \in ToSet(Data(g, Concepts(g)[k]).body) : ~IsH1(b)
      [] c = "ExplicitOrder" -> \A k \in DOMAIN Concepts(g) : Data(g, Concepts(g)[k]).order > 0
      [] c = "NavBlocks" -> \A k \in DOMAIN Concepts(g) : Data(g, Concepts(g)[k]).nav # <<>>
      [] c = "NoRawHTML" -> \A p \in MarkdownFiles(g) : ~HasHTML(Data(g, p))
      [] c = "LogStages" -> Has(g, LogPath)
      [] c = "AssetsUsed" -> \A a \in Assets(g) :
            \E p \in MarkdownFiles(g) : \E l \in ImageLinks(Data(g, p)) : l.path = a
      [] OTHER -> TRUE

\* The checks that pass are those that see what they look at.
LEMMA PassedIs ==
    ASSUME NEW g, NEW c \in DOMAIN Weight
    PROVE  c \in Passed(g) <=> Checks(g, c)
<1> DEFINE concepts == {Data(g, Concepts(g)[k]) : k \in DOMAIN Concepts(g)}
           blocks(file) == {file.body[i] : i \in DOMAIN file.body}
           files == {Data(g, p) : p \in MarkdownFiles(g)}
           single == \A f \in concepts : \A b \in blocks(f) : ~IsH1(b)
           order == \A f \in concepts : f.order > 0
           nav == \A f \in concepts : f.nav # <<>>
           raw == \A f \in files : ~HasHTML(f)
           log == Has(g, LogPath)
           used == Assets(g) \subseteq {l.path : l \in UNION {ImageLinks(f) : f \in files}}
<1>1. c \in Passed(g) <=>
         CASE c = "SingleH1" -> single
           [] c = "ExplicitOrder" -> order
           [] c = "NavBlocks" -> nav
           [] c = "NoRawHTML" -> raw
           [] c = "LogStages" -> log
           [] c = "AssetsUsed" -> used
           [] OTHER -> TRUE
  BY Zenon DEF Passed
<1>2. single <=> \A k \in DOMAIN Concepts(g) : \A b \in ToSet(Data(g, Concepts(g)[k]).body) : ~IsH1(b)
  BY Zenon DEF ToSet
<1>3. order <=> \A k \in DOMAIN Concepts(g) : Data(g, Concepts(g)[k]).order > 0
  BY Zenon
<1>4. nav <=> \A k \in DOMAIN Concepts(g) : Data(g, Concepts(g)[k]).nav # <<>>
  BY Zenon
<1>5. raw <=> \A p \in MarkdownFiles(g) : ~HasHTML(Data(g, p))
  BY Zenon
<1>6. used <=> \A a \in Assets(g) : \E p \in MarkdownFiles(g) : \E l \in ImageLinks(Data(g, p)) : l.path = a
  BY Zenon
<1> HIDE DEF single, order, nav, raw, log, used
<1>7. QED
  BY <1>1, <1>2, <1>3, <1>4, <1>5, <1>6 DEF Checks, log

---------------------------------------------------------------------------
(* What takes points off the score *)

\* The images of a file that the validator finds.
LEMMA ImageLinksHold ==
    ASSUME NEW f, NEW l
    PROVE  l \in ImageLinks(f)
             <=> \E b \in ToSet(f.body) : b.image # NoImage /\ l \in ToSet(Matches(b.image.alt, b.image.url))
<1>1. l \in ImageLinks(f)
        <=> \E i \in DOMAIN f.body : /\ f.body[i].image # NoImage
                                     /\ l \in ToSet(Matches(f.body[i].image.alt, f.body[i].image.url))
  BY Zenon DEF ImageLinks
<1>2. QED
  BY <1>1, Zenon DEF ToSet

\* An image whose description holds no link to an asset shows the asset it links to, if its
\* description can be read.
LEMMA ImageShows ==
    ASSUME NEW b, \A l \in ToSet(b.image.alt.links) : l.path.dir # "assets", NEW a, a.dir = "assets"
    PROVE  (b.image # NoImage /\ \E l \in ToSet(Matches(b.image.alt, b.image.url)) : l.path = a)
             <=> b.image.url.path = a /\ ~Unreadable(b.image.alt)
<1>1. PICK alt, url : alt = b.image.alt /\ url = b.image.url
  OBVIOUS
<1>2. CASE alt.links # <<>>
  <2>1. Matches(alt, url) = alt.links
    BY <1>2, Zenon DEF Matches
  <2>2. Unreadable(alt)
    BY <1>2 DEF Unreadable
  <2>3. QED
    BY <1>1, <2>1, <2>2
<1>3. CASE alt.links = <<>> /\ "bracket" \in alt.marks
  <2>1. Matches(alt, url) = <<>>
    BY <1>3, Zenon DEF Matches
  <2>2. Unreadable(alt)
    BY <1>3 DEF Unreadable
  <2>3. ToSet(<<>>) = {}
    BY DEF ToSet
  <2>4. QED
    BY <1>1, <2>1, <2>2, <2>3
<1>4. CASE alt.links = <<>> /\ "bracket" \notin alt.marks
  <2>1. Matches(alt, url) = <<url>>
    BY <1>4, Zenon DEF Matches
  <2>2. ~Unreadable(alt)
    BY <1>4 DEF Unreadable
  <2>3. ToSet(<<url>>) = {url}
    BY DEF ToSet
  <2>4. url.path = a => b.image # NoImage
    <3>1. NoImage.url.path.dir = ""
      BY DEF NoImage, Image, External, Link, NoPath, Path
    <3>2. QED
      BY <1>1, <3>1
  <2>5. QED
    BY <1>1, <2>1, <2>2, <2>3, <2>4
<1>5. QED
  BY <1>2, <1>3, <1>4

\* The score of a bundle, from the bodies B of its concepts.
ScoreReads(g, us, n, title, name, extra, B) ==
    Score(g) = 100 <=>
        /\ \A b \in B : ~IsH1(b) /\ "html" \notin MarksOf(b)
        /\ \A k \in 1..n : "html" \notin us[k].title.marks
        /\ IndexPath \in extra => "html" \notin title.marks /\ "html" \notin name.marks
        /\ \A p \in Assets(g) : \E b \in B : b.image.url.path = p /\ ~Unreadable(b.image.alt)
        /\ LogPath \in extra

\* No block of the log is an image.
LEMMA LogShowsNothing ==
    ASSUME NEW us, NEW n, Filed(us, n), NEW name, NEW findings, NEW log, log = Log(name, us, findings)
    PROVE  \A b \in ToSet(log.body) : b.image = NoImage
<1>1. n \in Nat /\ DOMAIN us = 1..n
  BY FiledIs
<1>2. PICK rows, first_row, bad :
         /\ rows = [k \in DOMAIN us |-> Prose("table", us[k].title)]
         /\ first_row = <<Prose("table", name)>>
         /\ bad = (\/ \E t \in {name} \cup TitlesOf(us) : "broken" \in t.marks \/ "wide" \in t.marks
                  \/ \E f \in findings : f.severity # "info" /\ "wide" \in f.target.marks)
  OBVIOUS
<1>3. PICK body : body = first_row \o rows
  OBVIOUS
<1>4. log = File("log", 0, NoText, body, <<>>, <<>>, bad)
  BY <1>2, <1>3, Zenon DEF Log
<1>5. log.body = body
  BY <1>4 DEF File
<1>6. PICK P : P = {Prose("table", t) : t \in {name} \cup TitlesOf(us)}
  OBVIOUS
<1>7. \A t : Prose("table", t).image = NoImage
  BY DEF Prose, Block
<1>8. \A b \in P : b.image = NoImage
  BY <1>6, <1>7
<1>9. first_row \in Seq(P) /\ rows \in Seq(P)
  <2>1. Prose("table", name) \in P /\ \A k \in 1..n : Prose("table", us[k].title) \in P
    BY <1>1, <1>6 DEF TitlesOf
  <2>2. QED
    BY <1>1, <1>2, <2>1
<1>10. body \in Seq(P)
  BY <1>3, <1>9
<1>11. \A b \in ToSet(body) : b \in P
  BY <1>10 DEF ToSet
<1>12. QED
  BY <1>5, <1>8, <1>11

\* The score of a complete bundle reads as much.
LEMMA ScoreIs ==
    ASSUME NEW g, NEW e, OnlyAssets(e), NEW us, NEW n, Filed(us, n), NEW title, NEW name,
           NEW index, index = Index(title, name, us),
           NEW findings, NEW log, log = Log(name, us, findings),
           NEW extra, extra \in SUBSET {IndexPath, LogPath}, Whole(g, e, us, n, index, log, extra),
           NEW B, \A b : b \in B <=> \E k \in 1..n : b \in ToSet(Data(g, us[k].path).body),
           \A b \in B : \A l \in ToSet(b.image.alt.links) : l.path.dir # "assets"
    PROVE  ScoreReads(g, us, n, title, name, extra, B)
<1>1. n \in Nat /\ n > 0
  BY FiledIs
<1>2. Concepts(g) = [k \in 1..n |-> us[k].path]
  BY ConceptsAre
<1>3. /\ \A p \in MarkdownFiles(g) :
            \/ p = IndexPath /\ IndexPath \in extra /\ Data(g, p) = index
            \/ p = LogPath /\ LogPath \in extra /\ Data(g, p) = log
            \/ \E k \in 1..n : p = us[k].path /\ Data(g, p) = Concept(us, k, AnchorToFile(us))
      /\ \A k \in 1..n : /\ us[k].path \in MarkdownFiles(g)
                         /\ Has(g, us[k].path)
                         /\ Data(g, us[k].path) = Concept(us, k, AnchorToFile(us))
      /\ \A p \in extra : p \in MarkdownFiles(g)
  BY MarkdownAre
<1>4. ASSUME NEW k \in 1..n
      PROVE  /\ Data(g, us[k].path).type = "concept" /\ Data(g, us[k].path).order = k
             /\ Data(g, us[k].path).title = us[k].title
             /\ Data(g, us[k].path).nav # <<>>
  <2>1. ConceptOf(Data(g, us[k].path), us, k, AnchorToFile(us))
    BY <1>3, ConceptIs
  <2>2. PICK nav : nav = Data(g, us[k].path).nav /\ nav = Navigation(us, k)
    BY <2>1 DEF ConceptOf
  <2>3. Neighbours(nav, us, n, k)
    BY <2>2, NavigationIs
  <2>4. nav # <<>>
    BY <2>3 DEF Neighbours
  <2>5. QED
    BY <2>1, <2>2, <2>4 DEF ConceptOf
<1>5. index.type = "bundle" /\ index.title = title /\ index.body = <<Prose("raw", name)>>
  <2>1. IndexOf(index, title, name, us)
    BY IndexIs
  <2>2. QED
    BY <2>1, Zenon DEF IndexOf
<1>6. log.type = "log"
  BY LogIs
<1>7. Prose("raw", name).image = NoImage /\ MarksOf(Prose("raw", name)) = name.marks \cup {"empty"}
  BY DEF Prose, Block, MarksOf, NoImage, Image, NoText, Text, External, Link
<1>8. DOMAIN index.body = {1} /\ index.body[1] = Prose("raw", name)
  BY <1>5
<1>9. /\ \A b \in ToSet(index.body) : b.image = NoImage
      /\ \A b \in ToSet(log.body) : b.image = NoImage
  <2>1. \A b \in ToSet(index.body) : b.image = NoImage
    BY <1>7, <1>8 DEF ToSet
  <2>2. \A b \in ToSet(log.body) : b.image = NoImage
    BY LogShowsNothing
  <2>3. QED
    BY <2>1, <2>2
<1>20. /\ \A f : HasHTML(f) <=> /\ f.type # "log"
                                /\ \/ "html" \in f.title.marks
                                   \/ \E b \in ToSet(f.body) : "html" \in MarksOf(b)
       /\ HasHTML(index) <=> "html" \in title.marks \/ "html" \in name.marks
  <2>1. HasHTML(index) <=> "html" \in title.marks \/ "html" \in MarksOf(index.body[1])
    BY <1>5, <1>8, Zenon DEF HasHTML
  <2>2. "html" \in MarksOf(index.body[1]) <=> "html" \in name.marks
    BY <1>7, <1>8
  <2>3. QED
    BY <2>1, <2>2, Zenon DEF HasHTML, ToSet
<1>10. Checks(g, "SingleH1") <=> \A b \in B : ~IsH1(b)
  <2>1. Checks(g, "SingleH1")
          <=> \A k \in DOMAIN Concepts(g) : \A b \in ToSet(Data(g, Concepts(g)[k]).body) : ~IsH1(b)
    BY DEF Checks
  <2>2. (\A k \in DOMAIN Concepts(g) : \A b \in ToSet(Data(g, Concepts(g)[k]).body) : ~IsH1(b))
          <=> \A k \in 1..n : \A b \in ToSet(Data(g, us[k].path).body) : ~IsH1(b)
    BY <1>2
  <2>3. QED
    BY <2>1, <2>2
<1>11. Checks(g, "ExplicitOrder")
  <2>1. \A k \in DOMAIN Concepts(g) : Data(g, Concepts(g)[k]).order > 0
    BY <1>1, <1>2, <1>4
  <2>2. QED
    BY <2>1 DEF Checks
<1>12. Checks(g, "NavBlocks")
  <2>1. \A k \in DOMAIN Concepts(g) : Data(g, Concepts(g)[k]).nav # <<>>
    BY <1>2, <1>4
  <2>2. QED
    BY <2>1 DEF Checks
<1>13. Checks(g, "NoRawHTML")
         <=> /\ \A b \in B : "html" \notin MarksOf(b)
             /\ \A k \in 1..n : "html" \notin us[k].title.marks
             /\ IndexPath \in extra => "html" \notin title.marks /\ "html" \notin name.marks
  <2>1. Checks(g, "NoRawHTML") <=> \A p \in MarkdownFiles(g) : ~HasHTML(Data(g, p))
    BY DEF Checks
  <2>2. IndexPath \in extra => Data(g, IndexPath) = index
    <3>1. ASSUME IndexPath \in extra PROVE Data(g, IndexPath) = index
      <4>1. PICK place : g.files[IndexPath] = [seq |-> place, data |-> index]
        BY <3>1 DEF Whole
      <4>2. QED
        BY <4>1, DataIs
    <3>2. QED
      BY <3>1
  <2>3. ASSUME Checks(g, "NoRawHTML")
        PROVE  /\ \A b \in B : "html" \notin MarksOf(b)
               /\ \A k \in 1..n : "html" \notin us[k].title.marks
               /\ IndexPath \in extra => "html" \notin title.marks /\ "html" \notin name.marks
    <3>1. ASSUME NEW b \in B PROVE "html" \notin MarksOf(b)
      <4>1. PICK k \in 1..n : b \in ToSet(Data(g, us[k].path).body)
        OBVIOUS
      <4>2. us[k].path \in MarkdownFiles(g) /\ Data(g, us[k].path).type # "log"
        BY <1>3, <1>4
      <4>3. ~HasHTML(Data(g, us[k].path))
        BY <2>1, <2>3, <4>2
      <4>4. QED
        BY <1>20, <4>1, <4>2, <4>3
    <3>2. ASSUME NEW k \in 1..n PROVE "html" \notin us[k].title.marks
      <4>1. /\ us[k].path \in MarkdownFiles(g) /\ Data(g, us[k].path).type # "log"
            /\ Data(g, us[k].path).title = us[k].title
        BY <1>3, <1>4
      <4>2. ~HasHTML(Data(g, us[k].path))
        BY <2>1, <2>3, <4>1
      <4>3. QED
        BY <1>20, <4>1, <4>2
    <3>3. ASSUME IndexPath \in extra PROVE "html" \notin title.marks /\ "html" \notin name.marks
      <4>1. IndexPath \in MarkdownFiles(g) /\ Data(g, IndexPath) = index
        BY <1>3, <2>2, <3>3
      <4>2. QED
        BY <1>20, <2>1, <2>3, <4>1
    <3>4. QED
      BY <3>1, <3>2, <3>3
  <2>4. ASSUME /\ \A b \in B : "html" \notin MarksOf(b)
               /\ \A k \in 1..n : "html" \notin us[k].title.marks
               /\ IndexPath \in extra => "html" \notin title.marks /\ "html" \notin name.marks
        PROVE  Checks(g, "NoRawHTML")
    <3>1. ASSUME NEW p \in MarkdownFiles(g) PROVE ~HasHTML(Data(g, p))
      <4>1. CASE IndexPath \in extra /\ Data(g, p) = index
        BY <1>20, <2>4, <4>1
      <4>2. CASE Data(g, p) = log
        BY <1>6, <1>20, <4>2
      <4>3. CASE \E k \in 1..n : p = us[k].path
        <5>1. PICK k \in 1..n : p = us[k].path
          BY <4>3
        <5>2. \A b \in ToSet(Data(g, p).body) : b \in B
          BY <5>1
        <5>3. Data(g, p).title = us[k].title
          BY <1>4, <5>1
        <5>4. QED
          BY <1>20, <2>4, <5>2, <5>3
      <4>4. QED
        BY <1>3, <4>1, <4>2, <4>3
    <3>2. QED
      BY <2>1, <3>1
  <2>5. QED
    BY <2>3, <2>4
<1>14. Checks(g, "LogStages") <=> LogPath \in extra
  <2>1. Checks(g, "LogStages") <=> Has(g, LogPath)
    BY DEF Checks
  <2>2. LogPath \in DOMAIN g.files
          <=> LogPath \in DOMAIN e.files \/ LogPath \in extra \/ \E k \in 1..n : LogPath = us[k].path
    BY Zenon DEF Whole
  <2>3. LogPath \notin DOMAIN e.files /\ \A k \in 1..n : us[k].path # LogPath
    BY NotYet
  <2>4. QED
    BY <2>1, <2>2, <2>3 DEF Has
<1>15. Checks(g, "AssetsUsed")
         <=> \A p \in Assets(g) : \E b \in B : b.image.url.path = p /\ ~Unreadable(b.image.alt)
  <2>1. Checks(g, "AssetsUsed")
          <=> \A a \in Assets(g) : \E p \in MarkdownFiles(g) : \E l \in ImageLinks(Data(g, p)) : l.path = a
    BY DEF Checks
  <2>2. ASSUME NEW a \in Assets(g)
        PROVE  (\E p \in MarkdownFiles(g) : \E l \in ImageLinks(Data(g, p)) : l.path = a)
                 <=> \E b \in B : b.image.url.path = a /\ ~Unreadable(b.image.alt)
    <3>1. a.dir = "assets"
      BY DEF Assets
    <3>2. ASSUME NEW p \in MarkdownFiles(g), NEW l \in ImageLinks(Data(g, p)), l.path = a
          PROVE  \E b \in B : b.image.url.path = a /\ ~Unreadable(b.image.alt)
      <4>1. PICK b \in ToSet(Data(g, p).body) :
                 b.image # NoImage /\ l \in ToSet(Matches(b.image.alt, b.image.url))
        BY ImageLinksHold
      <4>2. Data(g, p) # index /\ Data(g, p) # log
        BY <1>9, <4>1
      <4>3. b \in B
        BY <1>3, <4>1, <4>2
      <4>4. b.image.url.path = a /\ ~Unreadable(b.image.alt)
        BY <3>1, <3>2, <4>1, <4>3, ImageShows
      <4>5. QED
        BY <4>3, <4>4
    <3>3. ASSUME NEW b \in B, b.image.url.path = a, ~Unreadable(b.image.alt)
          PROVE  \E p \in MarkdownFiles(g) : \E l \in ImageLinks(Data(g, p)) : l.path = a
      <4>1. b.image # NoImage /\ \E l \in ToSet(Matches(b.image.alt, b.image.url)) : l.path = a
        BY <3>1, <3>3, ImageShows
      <4>2. PICK l \in ToSet(Matches(b.image.alt, b.image.url)) : l.path = a
        BY <4>1
      <4>3. PICK k \in 1..n : b \in ToSet(Data(g, us[k].path).body)
        OBVIOUS
      <4>4. l \in ImageLinks(Data(g, us[k].path))
        BY <4>1, <4>2, <4>3, ImageLinksHold
      <4>5. QED
        BY <1>3, <4>2, <4>4
    <3>4. QED
      BY <3>2, <3>3
  <2>3. QED
    BY <2>1, <2>2
<1>16. Checks(g, "FrontMatter") /\ Checks(g, "KebabNames")
  BY DEF Checks
<1>17. Score(g) = 100 <=> \A c \in DOMAIN Weight : Checks(g, c)
  <2>1. Passed(g) \subseteq DOMAIN Weight
    BY Zenon DEF Passed
  <2>2. Score(g) = 100 <=> Passed(g) = DOMAIN Weight
    BY <2>1, WeightsAddUp DEF Score
  <2>3. Passed(g) = DOMAIN Weight <=> \A c \in DOMAIN Weight : c \in Passed(g)
    BY <2>1
  <2>4. QED
    BY <2>2, <2>3, PassedIs
<1>18. (\A c \in DOMAIN Weight : Checks(g, c))
         <=> /\ Checks(g, "SingleH1") /\ Checks(g, "FrontMatter") /\ Checks(g, "ExplicitOrder")
             /\ Checks(g, "NavBlocks") /\ Checks(g, "NoRawHTML") /\ Checks(g, "KebabNames")
             /\ Checks(g, "LogStages") /\ Checks(g, "AssetsUsed")
  BY WeightsTyped
<1>19. QED
  BY <1>10, <1>11, <1>12, <1>13, <1>14, <1>15, <1>16, <1>17, <1>18 DEF ScoreReads

\* The score of a bundle the pipeline wrote is 100 but for what the texts of the author, the
\* titles and the name of the source read as, for the assets that no image shows, and for a
\* log that was removed.
THEOREM ScoreExplainedHolds == ConversionSpec => []ScoreExplained
<1>1. ConversionInvariant => ScoreExplained
  <2> DEFINE bodies == UNION {ToSet(Data(fs, units[k].path).body) : k \in DOMAIN units}
             titles == {units[k].title : k \in DOMAIN units}
                       \cup (IF Has(fs, IndexPath) THEN {BundleTitle, input.name} ELSE {})
  <2> SUFFICES ASSUME ConversionInvariant, Converted,
                      \A b \in bodies : \A l \in ToSet(b.text.links) \cup ToSet(b.image.alt.links) :
                          l.path.dir # "assets"
               PROVE  report.score = 100 <=>
                         /\ ~\E b \in bodies : IsH1(b) \/ "html" \in MarksOf(b)
                         /\ ~\E t \in titles : "html" \in t.marks
                         /\ \A p \in Assets(fs) : \E b \in bodies :
                                 b.image.url.path = p /\ ~Unreadable(b.image.alt)
                         /\ input.inject # "drop_log"
    BY Zenon DEF ScoreExplained
  <2>1. PICK n, c, e : Published(n, c, e)
    BY PublishedIs
  <2>2. PICK extra : extra = {IndexPath, LogPath} \ Dropped
    OBVIOUS
  <2>3. PICK index, log, title, name : /\ index = TheIndex /\ log = Log(name, units, first.findings)
                                       /\ title = BundleTitle /\ name = input.name
    OBVIOUS
  <2>4. /\ Filed(units, n) /\ OnlyAssets(e) /\ report = SecondReport(fs)
        /\ Whole(fs, e, units, n, index, log, extra) /\ extra \in SUBSET {IndexPath, LogPath}
    BY <2>1, <2>2, <2>3, PublishedBundle
  <2>5. index = Index(title, name, units)
    BY <2>3, Zenon DEF TheIndex
  <2>6. DOMAIN units = 1..n
    BY <2>4, FiledIs
  <2>7. PICK B : B = bodies
    OBVIOUS
  <2>8. \A b : b \in B <=> \E k \in 1..n : b \in ToSet(Data(fs, units[k].path).body)
    BY <2>6, <2>7
  <2>9. Score(fs) = 100 <=>
              /\ \A b \in B : ~IsH1(b) /\ "html" \notin MarksOf(b)
              /\ \A k \in 1..n : "html" \notin units[k].title.marks
              /\ IndexPath \in extra => "html" \notin title.marks /\ "html" \notin name.marks
              /\ \A p \in Assets(fs) : \E b \in B : b.image.url.path = p /\ ~Unreadable(b.image.alt)
              /\ LogPath \in extra
    <3>1. \A b \in B : \A l \in ToSet(b.image.alt.links) : l.path.dir # "assets"
      BY <2>7
    <3>2. ScoreReads(fs, units, n, title, name, extra, B)
      BY <2>3, <2>4, <2>5, <2>8, <3>1, ScoreIs
    <3>3. QED
      BY <3>2 DEF ScoreReads
  <2>10. report.score = Score(fs)
    <3>1. PICK second : second = Run(fs)
      OBVIOUS
    <3>2. second.score = Score(fs)
      BY <3>1, RunIs
    <3>3. report = second \/ \E findings : report = Report(findings, second.score)
      BY <2>4, <3>1, Zenon DEF SecondReport
    <3>4. QED
      BY <3>2, <3>3, ReportIs
  <2>11. LogPath \in extra <=> input.inject # "drop_log"
    BY <2>2, PathsDiffer DEF Dropped
  <2>12. Has(fs, IndexPath) <=> IndexPath \in extra
    <3>1. IndexPath \in DOMAIN fs.files
            <=> IndexPath \in DOMAIN e.files \/ IndexPath \in extra \/ \E k \in 1..n : IndexPath = units[k].path
      BY <2>4, Zenon DEF Whole
    <3>2. IndexPath \notin DOMAIN e.files /\ \A k \in 1..n : units[k].path # IndexPath
      BY <2>4, NotYet
    <3>3. QED
      BY <3>1, <3>2 DEF Has
  <2>13. (~\E t \in titles : "html" \in t.marks)
           <=> /\ \A k \in 1..n : "html" \notin units[k].title.marks
               /\ IndexPath \in extra => "html" \notin title.marks /\ "html" \notin name.marks
    BY <2>3, <2>6, <2>12
  <2> HIDE DEF bodies, titles
  <2>14. QED
    BY <2>7, <2>9, <2>10, <2>11, <2>13
<1>2. QED
  BY <1>1, ConversionIsAFunction, PTL

---------------------------------------------------------------------------
(* Where the anchors of a document lead *)

\* The cuts of a document never go back.
LEMMA CutsRise ==
    ASSUME NEW n \in Nat, NEW c \in [1..(n + 1) -> Nat], \A k \in 1..n : c[k] <= c[k + 1],
           NEW i \in 1..(n + 1), NEW j \in 1..(n + 1), i <= j
    PROVE  c[i] <= c[j]
<1> DEFINE Bad == {m \in 1..(n + 1) : i <= m /\ ~(c[i] <= c[m])}
<1>1. SUFFICES ASSUME Bad # {} PROVE FALSE
  BY <1>1
<1>2. Bad \subseteq Nat
  OBVIOUS
<1> HIDE DEF Bad
<1>3. PICK m \in Bad : \A x \in Bad : m <= x
  BY <1>1, <1>2, LeastNumber
<1> USE DEF Bad
<1>4. m # i /\ m \in Nat /\ i \in Nat /\ c[i] \in Nat
  BY <1>3
<1>5. m - 1 \in 1..n /\ i <= m - 1 /\ m - 1 \in 1..(n + 1)
  BY <1>3, <1>4
<1>6. c[i] <= c[m - 1]
  <2>1. m - 1 \notin Bad
    <3>1. ~(m <= m - 1)
      BY <1>4
    <3>2. QED
      BY <1>3, <3>1
  <2>2. QED
    BY <1>5, <2>1
<1>7. c[m - 1] <= c[m]
  <2>1. m - 1 + 1 = m
    BY <1>4
  <2>2. QED
    BY <1>5, <2>1
<1>8. c[m - 1] \in Nat /\ c[m] \in Nat
  BY <1>3, <1>5
<1>9. QED
  BY <1>3, <1>4, <1>6, <1>7, <1>8

\* The block i of the unit k is the block c[k] + i - 1 of the document, but for its image.
FromBlock(b, d) ==
    /\ d \in Blocks
    /\ b = Block(d.kind, d.level, d.text, b.image)

\* Every block of a unit is the block of the document in its place.
LEMMA UnitBlocks ==
    ASSUME NEW n, NEW c, NEW e, Published(n, c, e), NEW k \in 1..n, NEW i \in DOMAIN units[k].blocks,
           input.doc \in Documents
    PROVE  /\ c[k] + i - 1 \in DOMAIN input.doc.blocks /\ c[k] + i - 1 < c[k + 1] /\ c[k] <= c[k] + i - 1
           /\ FromBlock(units[k].blocks[i], input.doc.blocks[c[k] + i - 1])
<1>1. PICK given, b : given = Split(input.doc) /\ b = input.doc.blocks
  OBVIOUS
<1>2. /\ CutAt(input.doc, n, c) /\ Keeps(given, units, n)
      /\ \A m \in 1..n : given[m].blocks = SubSeq(b, c[m], c[m + 1] - 1)
  BY <1>1, Zenon DEF Published
<1>3. b \in Seq(Blocks)
  BY <1>1 DEF Documents
<1>4. n \in Nat /\ c \in [1..(n + 1) -> 1..(Len(b) + 1)] /\ c[k] <= c[k + 1]
  BY <1>1, <1>2 DEF CutAt
<1>5. PICK p, q : p = c[k] /\ q = c[k + 1] - 1
  OBVIOUS
<1>6. p \in 1..(Len(b) + 1) /\ q \in 0..Len(b) /\ Len(b) \in Nat /\ p <= q + 1
  BY <1>3, <1>4, <1>5
<1>7. PICK s : s = SubSeq(b, p, q)
  OBVIOUS
<1>8. DOMAIN s = 1..(q - p + 1) /\ \A j \in 1..(q - p + 1) : s[j] = b[p + j - 1]
  BY <1>3, <1>6, <1>7
<1>9. given[k].blocks = s
  BY <1>2, <1>5, <1>7
<1>10. /\ DOMAIN units[k].blocks = DOMAIN s
       /\ \A j \in DOMAIN s : units[k].blocks[j] = Block(s[j].kind, s[j].level, s[j].text, units[k].blocks[j].image)
  BY <1>2, <1>9 DEF Keeps
<1>11. i \in 1..(q - p + 1) /\ s[i] = b[p + i - 1]
  BY <1>8, <1>10
<1>12. p + i - 1 \in 1..Len(b) /\ p + i - 1 < c[k + 1] /\ p <= p + i - 1
  <2>1. PICK x \in Nat, y \in Nat, z \in Nat, w \in Nat : x = p /\ y = q /\ z = i /\ w = c[k + 1]
    <3>1. k + 1 \in 1..(n + 1)
      BY <1>4
    <3>2. c[k + 1] \in 1..(Len(b) + 1)
      BY <1>4, <3>1
    <3>3. c[k + 1] \in Nat
      BY <1>6, <3>2
    <3>4. p \in Nat /\ q \in Nat
      BY <1>6
    <3>5. i \in Nat
      BY <1>11, <3>4
    <3>6. QED
      BY <3>3, <3>4, <3>5
  <2>2. y = w - 1 /\ 1 <= z /\ z <= y - x + 1 /\ 1 <= x /\ y <= Len(b)
    BY <1>5, <1>6, <1>11, <2>1
  <2>3. PICK L \in Nat : L = Len(b)
    BY <1>6
  <2>4. y <= L
    BY <2>2, <2>3
  <2>5. x + z - 1 \in 1..L
    <3>1. /\ x \in Nat /\ y \in Nat /\ z \in Nat /\ L \in Nat
          /\ 1 <= z /\ z <= y - x + 1 /\ 1 <= x /\ y <= L
      BY <2>1, <2>2, <2>4
    <3>2. x + z - 1 \in Int /\ 1 <= x + z - 1 /\ x + z - 1 <= L
      BY ONLY <3>1
    <3>3. QED
      BY ONLY <3>1, <3>2
  <2>6. x + z - 1 < w /\ x <= x + z - 1
    BY <2>1, <2>2
  <2>7. QED
    BY <2>1, <2>3, <2>5, <2>6
<1>13. b[p + i - 1] \in Blocks
  BY <1>3, <1>12
<1>14. units[k].blocks[i] = Block(s[i].kind, s[i].level, s[i].text, units[k].blocks[i].image)
  BY <1>8, <1>10, <1>11
<1>15. FromBlock(units[k].blocks[i], b[p + i - 1])
  BY <1>11, <1>13, <1>14, Zenon DEF FromBlock
<1>16. QED
  BY <1>1, <1>3, <1>5, <1>12, <1>15

\* The blocks that a link can name, and the units that hold one.
Names(b, slug) == IsHeading(b) /\ b.text # NoText /\ b.text.slug = slug
Holding(us, k, slug) == \E i \in DOMAIN us[k].blocks : Names(us[k].blocks[i], slug)

\* A block of a unit has the name of the block it comes from.
LEMMA NamesSame ==
    ASSUME NEW b, NEW d, FromBlock(b, d), NEW slug
    PROVE  Names(b, slug) <=> Names(d, slug)
<1>1. b.kind = d.kind /\ b.text = d.text
  BY DEF FromBlock, Block
<1>2. QED
  BY <1>1 DEF Names, IsHeading

\* No two units hold headings of the same name, if no two headings have it.
LEMMA HeldOnce ==
    ASSUME NEW n, NEW c, NEW e, Published(n, c, e), input.doc \in Documents,
           \A i, j \in DOMAIN input.doc.blocks : \A slug \in {input.doc.blocks[i].text.slug} :
              Names(input.doc.blocks[i], slug) /\ Names(input.doc.blocks[j], slug) => i = j,
           NEW slug, NEW k \in 1..n, NEW m \in 1..n, Holding(units, k, slug), Holding(units, m, slug)
    PROVE  k = m
<1>1. PICK b : b = input.doc.blocks
  OBVIOUS
<1>2. n \in Nat /\ c \in [1..(n + 1) -> Nat] /\ \A x \in 1..n : c[x] <= c[x + 1]
  <2>1. CutAt(input.doc, n, c) /\ b \in Seq(Blocks)
    BY <1>1 DEF Published, Documents
  <2>2. n \in Nat /\ c \in [1..(n + 1) -> 1..(Len(b) + 1)] /\ \A x \in 1..n : c[x] <= c[x + 1]
    BY <1>1, <2>1 DEF CutAt
  <2>3. QED
    BY <2>2
<1>3. ASSUME NEW x \in 1..n, NEW y \in 1..n, Holding(units, x, slug), Holding(units, y, slug), x < y
      PROVE  FALSE
  <2>1. PICK i \in DOMAIN units[x].blocks : Names(units[x].blocks[i], slug)
    BY <1>3 DEF Holding
  <2>2. PICK j \in DOMAIN units[y].blocks : Names(units[y].blocks[j], slug)
    BY <1>3 DEF Holding
  <2>3. PICK p, q : p = c[x] + i - 1 /\ q = c[y] + j - 1
    OBVIOUS
  <2>4. p \in DOMAIN b /\ p < c[x + 1] /\ c[x] <= p /\ FromBlock(units[x].blocks[i], b[p])
    BY <1>1, <2>3, UnitBlocks
  <2>5. q \in DOMAIN b /\ q < c[y + 1] /\ c[y] <= q /\ FromBlock(units[y].blocks[j], b[q])
    BY <1>1, <2>3, UnitBlocks
  <2>6. Names(b[p], slug) /\ Names(b[q], slug)
    BY <2>1, <2>2, <2>4, <2>5, NamesSame
  <2>7. p = q
    <3>1. slug \in {b[p].text.slug}
      BY <2>6 DEF Names
    <3>2. QED
      BY <1>1, <2>4, <2>5, <2>6, <3>1
  <2>8. c[x + 1] <= c[y]
    <3>1. x + 1 \in 1..(n + 1) /\ y \in 1..(n + 1) /\ x + 1 <= y
      BY <1>2, <1>3
    <3>2. QED
      BY <1>2, <3>1, CutsRise
  <2>9. p \in Nat /\ c[x + 1] \in Nat /\ c[y] \in Nat
    <3>1. b \in Seq(Blocks)
      BY <1>1 DEF Documents
    <3>2. p \in Nat
      BY <2>4, <3>1
    <3>3. x + 1 \in 1..(n + 1) /\ y \in 1..(n + 1)
      BY <1>2
    <3>4. QED
      BY <1>2, <3>2, <3>3
  <2>10. QED
    BY <2>4, <2>5, <2>7, <2>8, <2>9
<1>4. k \in Nat /\ m \in Nat
  BY <1>2
<1>5. ~(k < m) /\ ~(m < k)
  BY <1>3
<1>6. QED
  BY <1>4, <1>5

\* The anchors of a unit: its own, and the headings that it holds.
LEMMA AnchorsAre ==
    ASSUME NEW us, NEW k, NEW slug
    PROVE  slug \in AnchorsOf(us[k]) <=> slug = us[k].anchor \/ Holding(us, k, slug)
  BY Zenon DEF AnchorsOf, Holding, Names

\* An anchor leads to the file of the only unit that holds its heading.
LEMMA AnchorLeads ==
    ASSUME NEW us, NEW n, Filed(us, n), NEW slug, NEW m \in 1..n, Holding(us, m, slug),
           \A k \in 1..n : Holding(us, k, slug) => k = m,
           \A j, k \in 1..n : j < k => ~Holding(us, j, us[k].anchor)
    PROVE  slug \in DOMAIN AnchorToFile(us) /\ AnchorToFile(us)[slug] = us[m].path
<1>1. n \in Nat /\ DOMAIN us = 1..n
  BY FiledIs
<1>2. slug \in AnchorsOf(us[m])
  BY AnchorsAre
<1>3. ASSUME NEW k \in 1..n, slug \in AnchorsOf(us[k]) PROVE k <= m
  <2>1. CASE slug = us[k].anchor
    <3>1. ~(m < k)
      BY <2>1
    <3>2. QED
      BY <1>1, <3>1
  <2>2. CASE Holding(us, k, slug)
    BY <1>1, <2>2
  <2>3. QED
    BY <1>3, <2>1, <2>2, AnchorsAre
<1>4. PICK top : top = CHOOSE k \in DOMAIN us : /\ slug \in AnchorsOf(us[k])
                                                 /\ \A x \in DOMAIN us : slug \in AnchorsOf(us[x]) => x <= k
  OBVIOUS
<1>5. top = m
  <2>1. m \in DOMAIN us /\ slug \in AnchorsOf(us[m]) /\ \A x \in DOMAIN us : slug \in AnchorsOf(us[x]) => x <= m
    BY <1>1, <1>2, <1>3
  <2>2. top \in DOMAIN us /\ slug \in AnchorsOf(us[top]) /\ \A x \in DOMAIN us : slug \in AnchorsOf(us[x]) => x <= top
    BY <1>4, <2>1, Zenon
  <2>3. top <= m /\ m <= top /\ top \in Nat /\ m \in Nat
    BY <1>1, <2>1, <2>2
  <2>4. QED
    BY <2>3
<1>6. PICK S : S = UNION {AnchorsOf(us[k]) : k \in DOMAIN us}
  OBVIOUS
<1>7. slug \in S
  BY <1>1, <1>2, <1>6
<1>8. /\ DOMAIN AnchorToFile(us) = S
      /\ AnchorToFile(us)[slug] = us[CHOOSE k \in DOMAIN us :
            /\ slug \in AnchorsOf(us[k])
            /\ \A x \in DOMAIN us : slug \in AnchorsOf(us[x]) => x <= k].path
  BY <1>6, <1>7, Zenon DEF AnchorToFile
<1>9. AnchorToFile(us)[slug] = us[top].path
  BY <1>4, <1>8
<1>10. QED
  BY <1>5, <1>7, <1>8, <1>9

---------------------------------------------------------------------------
(* Links to the headings of the document *)

\* What the body of a concept is made of: blocks of the unit.
LEMMA BodyIs ==
    ASSUME NEW unit, NEW S, unit.blocks \in Seq(S), NEW i \in DOMAIN Body(unit)
    PROVE  \E j \in DOMAIN unit.blocks : Body(unit)[i] = unit.blocks[j]
<1>1. PICK s : s = unit.blocks
  OBVIOUS
<1>2. CASE s # <<>> /\ IsHeading(s[1]) /\ s[1].text = unit.title
  <2>1. Body(unit) = Tail(s)
    BY <1>1, <1>2, Zenon DEF Body
  <2>2. i + 1 \in DOMAIN s /\ Tail(s)[i] = s[i + 1]
    BY <1>1, <1>2, <2>1
  <2>3. QED
    BY <1>1, <2>1, <2>2
<1>3. CASE ~(s # <<>> /\ IsHeading(s[1]) /\ s[1].text = unit.title)
  <2>1. Body(unit) = s
    BY <1>1, <1>3, Zenon DEF Body
  <2>2. QED
    BY <1>1, <2>1
<1>4. QED
  BY <1>2, <1>3

\* The links of a paragraph or a list, once it is written.
LEMMA WrittenLinks ==
    ASSUME NEW b, NEW d, FromBlock(b, d), b.kind \in {"paragraph", "list"},
           NEW base, NEW anchors, NEW self, NEW n \in DOMAIN b.text.links
    PROVE  RenderBlock(b, base, anchors, self).text.links[n] = RewriteLink(b.text.links[n], anchors, self)
<1>1. d.text \in Texts /\ b.text = d.text
  BY DEF FromBlock, Blocks, Block
<1>2. PICK slug, links, marks :
         /\ links = b.text.links
         /\ b.text = [slug |-> slug, links |-> links, marks |-> marks]
  BY <1>1 DEF Texts
<1>3. PICK kind, level, image : b = [kind |-> kind, level |-> level, text |-> b.text, image |-> image]
  BY <1>1 DEF FromBlock, Block
<1>4. PICK new : new = [i \in DOMAIN links |-> RewriteLink(links[i], anchors, self)]
  OBVIOUS
<1>5. PICK text : text = [b.text EXCEPT !.links = new]
  OBVIOUS
<1>6. text = RewriteAnchors(b.text, anchors, self)
  BY <1>2, <1>4, <1>5, Zenon DEF RewriteAnchors
<1>7. RenderBlock(b, base, anchors, self) = [b EXCEPT !.text = text]
  <2>1. b.kind # "heading"
    OBVIOUS
  <2>2. RenderBlock(b, base, anchors, self) = [b EXCEPT !.text = RewriteAnchors(b.text, anchors, self)]
    BY <2>1 DEF RenderBlock
  <2>3. QED
    BY <1>6, <2>2
<1>8. text.links = new
  BY <1>2, <1>5
<1>9. [b EXCEPT !.text = text].text = text
  <2>1. "text" \in DOMAIN b
    BY <1>3
  <2>2. QED
    BY <2>1
<1>10. RenderBlock(b, base, anchors, self).text.links = new
  BY <1>7, <1>8, <1>9, Zenon
<1>11. new[n] = RewriteLink(b.text.links[n], anchors, self)
  BY <1>2, <1>4
<1>12. QED
  BY <1>10, <1>11, Zenon

\* Where a link to a heading is sent.
LandsIn(link, anchors, us, k, m) ==
    RewriteLink(link, anchors, us[k].path)
      = IF k = m THEN link ELSE Link("file", us[m].path, link.frag, {})

\* A link to a heading is given the file of the heading, unless it is its own.
LEMMA LinkLands ==
    ASSUME NEW us, NEW n, Filed(us, n), NEW k \in 1..n, NEW m \in 1..n, NEW anchors, NEW link,
           link.kind = "anchor", link.frag \in DOMAIN anchors, anchors[link.frag] = us[m].path
    PROVE  LandsIn(link, anchors, us, k, m)
<1>1. us[m].path # us[k].path <=> k # m
  BY DEF Filed
<1>2. QED
  BY <1>1, Zenon DEF RewriteLink, LandsIn

\* Whatever way the document was cut, a link to a heading leads to the file of that heading.
THEOREM AnchorsLandHolds == ConversionSpec => []AnchorsLand
<1>1. ConversionInvariant => AnchorsLand
  <2> DEFINE blocks == input.doc.blocks
             links(body, i) == body[i].text.links
             lands(link, k, m) ==
                 IF k = m THEN link ELSE Link("file", units[m].path, link.frag, {})
             Different == \A i, j \in DOMAIN blocks : \A slug \in {blocks[i].text.slug} :
                             Names(blocks[i], slug) /\ Names(blocks[j], slug) => i = j
             Unshadowed == \A j, k \in DOMAIN units : j < k => ~Holding(units, j, units[k].anchor)
             Landing == \A k, m \in DOMAIN units : \A i \in DOMAIN Body(units[k]) :
                Body(units[k])[i].kind \in {"paragraph", "list"} =>
                  \A n \in DOMAIN links(Body(units[k]), i) :
                      LET link == links(Body(units[k]), i)[n]
                      IN  link.kind = "anchor" /\ Holding(units, m, link.frag) =>
                              links(Data(fs, units[k].path).body, i)[n] = lands(link, k, m)
  <2>1. (Converted /\ Different /\ Unshadowed => Landing) => AnchorsLand
    BY Zenon DEF AnchorsLand, Names, Holding
  <2>2. SUFFICES ASSUME ConversionInvariant, Converted, Different, Unshadowed PROVE Landing
    BY <2>1
  <2>3. PICK N, c, e : Published(N, c, e)
    BY <2>2, PublishedIs
  <2>4. input \in Inputs
    BY <2>2 DEF ConversionInvariant, Computes
  <2>5. input.doc \in Documents
    BY <2>4, ConversionAssumption
  <2>6. PICK extra : extra = {IndexPath, LogPath} \ Dropped
    OBVIOUS
  <2>7. PICK index, log : index = TheIndex /\ log = Log(input.name, units, first.findings)
    OBVIOUS
  <2>8. /\ Filed(units, N) /\ OnlyAssets(e)
        /\ Whole(fs, e, units, N, index, log, extra) /\ extra \in SUBSET {IndexPath, LogPath}
    BY <2>3, <2>6, <2>7, PublishedBundle
  <2>9. DOMAIN units = 1..N
    BY <2>8, FiledIs
  <2>10. PICK anchors : anchors = AnchorToFile(units)
    OBVIOUS
  <2>11. ASSUME NEW m \in 1..N, NEW slug, Holding(units, m, slug)
         PROVE  slug \in DOMAIN anchors /\ anchors[slug] = units[m].path
    <3>1. \A k \in 1..N : Holding(units, k, slug) => k = m
      <4>1. ASSUME NEW k \in 1..N, Holding(units, k, slug) PROVE k = m
        BY <2>2, <2>3, <2>5, <2>11, <4>1, HeldOnce
      <4>2. QED
        BY <4>1
    <3>2. \A j, k \in 1..N : j < k => ~Holding(units, j, units[k].anchor)
      BY <2>2, <2>9
    <3>3. QED
      BY <2>8, <2>10, <2>11, <3>1, <3>2, AnchorLeads
  <2>12. ASSUME NEW k \in 1..N, NEW m \in 1..N, NEW i \in DOMAIN Body(units[k]),
                Body(units[k])[i].kind \in {"paragraph", "list"},
                NEW n \in DOMAIN Body(units[k])[i].text.links, NEW link,
                link = Body(units[k])[i].text.links[n], link.kind = "anchor", Holding(units, m, link.frag)
         PROVE  Data(fs, units[k].path).body[i].text.links[n] = lands(link, k, m)
    <3>1. PICK b : b = Body(units[k])[i]
      OBVIOUS
    <3>2. \E d : FromBlock(b, d)
      <4>1. PICK S : units[k].blocks \in Seq(S)
        <5>1. PICK given : given = Split(input.doc)
          OBVIOUS
        <5>2. Delivered(given, N) /\ Keeps(given, units, N)
          BY <2>3, <5>1, Zenon DEF Published
        <5>3. given[k].blocks \in Seq(Blocks)
          BY <5>2 DEF Delivered
        <5>4. units[k].blocks = [j \in DOMAIN given[k].blocks |-> units[k].blocks[j]]
          BY <5>2 DEF Keeps
        <5>5. PICK S : S = {units[k].blocks[j] : j \in DOMAIN given[k].blocks}
          OBVIOUS
        <5>6. units[k].blocks \in Seq(S)
          BY <5>3, <5>4, <5>5
        <5>7. QED
          BY <5>6
      <4>2. PICK j \in DOMAIN units[k].blocks : b = units[k].blocks[j]
        BY <3>1, <4>1, BodyIs
      <4>3. FromBlock(units[k].blocks[j], blocks[c[k] + j - 1])
        BY <2>3, <2>5, UnitBlocks
      <4>4. QED
        BY <4>2, <4>3
    <3>3. PICK d : FromBlock(b, d)
      BY <3>2
    <3>4. PICK data : data = Data(fs, units[k].path)
      OBVIOUS
    <3>5. ConceptOf(data, units, k, anchors)
      <4>1. /\ \A j \in 1..N : /\ units[j].path \in MarkdownFiles(fs)
                               /\ Has(fs, units[j].path)
                               /\ Data(fs, units[j].path) = Concept(units, j, AnchorToFile(units))
            /\ \A p \in extra : p \in MarkdownFiles(fs)
        BY <2>8, MarkdownAre
      <4>2. data = Concept(units, k, anchors)
        BY <2>10, <3>4, <4>1
      <4>3. QED
        BY <4>2, ConceptIs
    <3>6. PICK base : data.body = [j \in DOMAIN Body(units[k]) |->
                                      RenderBlock(Body(units[k])[j], base, anchors, units[k].path)]
      BY <3>5 DEF ConceptOf
    <3>7. data.body[i] = RenderBlock(b, base, anchors, units[k].path)
      BY <3>1, <3>6
    <3>8. data.body[i].text.links[n] = RewriteLink(b.text.links[n], anchors, units[k].path)
      BY <2>12, <3>1, <3>3, <3>7, WrittenLinks
    <3>9. link.frag \in DOMAIN anchors /\ anchors[link.frag] = units[m].path
      BY <2>11, <2>12
    <3>10. RewriteLink(link, anchors, units[k].path) = lands(link, k, m)
      <4>1. LandsIn(link, anchors, units, k, m)
        BY <2>8, <2>12, <3>9, LinkLands
      <4>2. QED
        BY <4>1, Zenon DEF LandsIn
    <3>11. QED
      BY <2>12, <3>1, <3>4, <3>8, <3>10, Zenon
  <2> HIDE DEF lands
  <2>13. QED
    BY <2>9, <2>12
<1>2. QED
  BY <1>1, ConversionIsAFunction, PTL
=============================================================================
