--------------------------- MODULE SequenceLemmas ---------------------------
(***************************************************************************)
(* Facts about sequences that the proofs of several components use.        *)
(***************************************************************************)
EXTENDS Naturals, Sequences, SequencesExt, SequenceTheorems,
        FiniteSetTheorems, WellFoundedInduction, Compaction, TLAPS

\* Appending a new element to a sequence without duplicates.
LEMMA AppendListing ==
    ASSUME NEW S, NEW s \in Seq(S), NEW g \in S
    PROVE  /\ Append(s, g) # <<>>
           /\ Len(Append(s, g)) = Len(s) + 1
           /\ Append(s, g)[Len(s) + 1] = g
           /\ \A i \in 1 .. Len(s) : Append(s, g)[i] = s[i]
OBVIOUS

\* The elements before the i-th.
LEMMA PrefixListing ==
    ASSUME NEW S, NEW s \in Seq(S), NEW i \in 1 .. Len(s)
    PROVE  /\ SubSeq(s, 1, i - 1) \in Seq(S)
           /\ Len(SubSeq(s, 1, i - 1)) = i - 1
           /\ \A j \in 1 .. i - 1 : SubSeq(s, 1, i - 1)[j] = s[j]
OBVIOUS

\* Removing the i-th element moves the later ones down by one.
LEMMA RemoveAtListing ==
    ASSUME NEW S, NEW s \in Seq(S), NEW i \in 1 .. Len(s)
    PROVE  /\ Len(RemoveAt(s, i)) = Len(s) - 1
           /\ \A j \in 1 .. Len(s) - 1 :
                RemoveAt(s, i)[j] = IF j < i THEN s[j] ELSE s[j + 1]
<1> DEFINE low == SubSeq(s, 1, i - 1)
           high == SubSeq(s, i + 1, Len(s))
<1>1. /\ low \in Seq(S) /\ Len(low) = i - 1
      /\ \A j \in 1 .. i - 1 : low[j] = s[j]
  BY PrefixListing
<1>2. /\ high \in Seq(S) /\ Len(high) = Len(s) - i
      /\ \A j \in 1 .. Len(s) - i : high[j] = s[i + j]
  OBVIOUS
<1>3. RemoveAt(s, i) = low \o high
  BY DEF RemoveAt
<1> HIDE DEF low, high
<1>4. /\ Len(low \o high) = Len(s) - 1
      /\ \A j \in 1 .. Len(s) - 1 :
            (low \o high)[j] = IF j <= i - 1 THEN low[j] ELSE high[j - (i - 1)]
  <2>1. /\ Len(low \o high) = Len(low) + Len(high)
        /\ \A j \in 1 .. Len(low) + Len(high) :
            (low \o high)[j] = IF j <= Len(low) THEN low[j]
                                                ELSE high[j - Len(low)]
    BY <1>1, <1>2, ConcatProperties
  <2>2. Len(low) + Len(high) = Len(s) - 1 /\ Len(s) \in Nat
    BY <1>1, <1>2
  <2> QED BY <1>1, <2>1, <2>2
<1>5. ASSUME NEW j \in 1 .. Len(s) - 1
      PROVE  (low \o high)[j] = IF j < i THEN s[j] ELSE s[j + 1]
  <2>1. CASE j < i
    BY <1>1, <1>4, <2>1
  <2>2. CASE ~(j < i)
    <3>1. j - (i - 1) \in 1 .. Len(s) - i /\ ~(j <= i - 1)
      BY <2>2
    <3>3. (low \o high)[j] = high[j - (i - 1)]
      BY <1>4, <3>1, Zenon
    <3>2. high[j - (i - 1)] = s[i + (j - (i - 1))]
      BY <1>2, <3>1
    <3>4. i + (j - (i - 1)) = j + 1
      OBVIOUS
    <3> QED BY <2>2, <3>2, <3>3, <3>4
  <2> QED BY <2>1, <2>2, Zenon
<1> QED BY <1>3, <1>4, <1>5

\* A function on 1 .. m has at most m values.
LEMMA RangeIsBounded ==
    ASSUME NEW m \in Nat, NEW f, f = [i \in 1 .. m |-> f[i]]
    PROVE  IsFiniteSet(Range(f)) /\ Cardinality(Range(f)) <= m
<1>1. f \in Surjection(1 .. m, Range(f))
  BY DEF Surjection, Range
<1>2. IsFiniteSet(1 .. m) /\ Cardinality(1 .. m) = m
  BY FS_Interval
<1> QED BY <1>1, <1>2, FS_Surjection

\* The values of a sequence.
LEMMA RangeOfSequence ==
    ASSUME NEW S, NEW s \in Seq(S)
    PROVE  /\ Range(s) = {s[i] : i \in 1 .. Len(s)}
           /\ Range(s) \subseteq S
<1>1. DOMAIN s = 1 .. Len(s)
  OBVIOUS
<1> QED BY <1>1 DEF Range

\* Appending adds one value.
LEMMA AppendRange ==
    ASSUME NEW S, NEW s \in Seq(S), NEW g \in S
    PROVE  Range(Append(s, g)) = Range(s) \cup {g}
<1>1. DOMAIN s = 1 .. Len(s) /\ DOMAIN Append(s, g) = 1 .. Len(s) + 1
  OBVIOUS
<1>2. /\ Append(s, g)[Len(s) + 1] = g
      /\ \A i \in 1 .. Len(s) : Append(s, g)[i] = s[i]
  BY AppendListing
<1>3. Len(s) \in Nat
  OBVIOUS
<1>4. 1 .. Len(s) + 1 = (1 .. Len(s)) \cup {Len(s) + 1}
  BY <1>3
<1> QED BY <1>1, <1>2, <1>4, Zenon DEF Range

\* No other element of s equals the one at index.
IsOnlyEntry(s, index) ==
    \A i \in 1 .. Len(s) : s[i] = s[index] => i = index

\* new is s without the element at index.
LacksEntry(new, s, index) ==
    /\ Len(new) = Len(s) - 1
    /\ \A j \in 1 .. Len(s) - 1 :
            new[j] = IF j < index THEN s[j] ELSE s[j + 1]

\* Removing the only entry of a value removes that value.
LEMMA RemovedRange ==
    ASSUME NEW S, NEW s \in Seq(S), NEW index \in 1 .. Len(s),
           IsOnlyEntry(s, index),
           NEW new \in Seq(S), LacksEntry(new, s, index)
    PROVE  Range(new) = Range(s) \ {s[index]}
<1> USE DEF IsOnlyEntry, LacksEntry
<1>1. DOMAIN s = 1 .. Len(s) /\ DOMAIN new = 1 .. Len(s) - 1
  OBVIOUS
<1>2. ASSUME NEW j \in 1 .. Len(s) - 1
      PROVE  \E i \in 1 .. Len(s) : i # index /\ new[j] = s[i]
  <2>1. CASE j < index
    BY <2>1
  <2>2. CASE ~(j < index)
    <3>1. j + 1 \in 1 .. Len(s) /\ j + 1 # index
      BY <2>2
    <3> QED BY <2>2, <3>1
  <2> QED BY <2>1, <2>2
<1>3. ASSUME NEW i \in 1 .. Len(s), i # index
      PROVE  \E j \in 1 .. Len(s) - 1 : new[j] = s[i]
  <2>1. CASE i < index
    <3>1. i \in 1 .. Len(s) - 1
      BY <2>1
    <3> QED BY <2>1, <3>1
  <2>2. CASE ~(i < index)
    <3>1. /\ i - 1 \in 1 .. Len(s) - 1 /\ ~(i - 1 < index)
          /\ (i - 1) + 1 = i
      BY <1>3, <2>2
    <3>2. new[i - 1] = s[(i - 1) + 1]
      BY <3>1
    <3> QED BY <3>1, <3>2
  <2> QED BY <2>1, <2>2
<1>4. Range(s) = {s[i] : i \in 1 .. Len(s)}
      /\ Range(new) = {new[j] : j \in 1 .. Len(s) - 1}
  BY <1>1 DEF Range
<1>5. ASSUME NEW v \in Range(new)
      PROVE  v \in Range(s) \ {s[index]}
  BY <1>2, <1>4
<1>6. ASSUME NEW v \in Range(s) \ {s[index]}
      PROVE  v \in Range(new)
  <2>1. PICK i \in 1 .. Len(s) : v = s[i]
    BY <1>4
  <2>2. i # index
    BY <2>1
  <2>3. PICK j \in 1 .. Len(s) - 1 : new[j] = s[i]
    BY <1>3, <2>2
  <2> QED BY <1>4, <2>1, <2>3
<1> QED BY <1>5, <1>6

-----------------------------------------------------------------------------
(* Induction up to a bound, for a set in the place of a predicate *)

\* A set of numbers that holds 0 and with each number its successor up to m
\* holds them all: otherwise it lacks a smallest one.
LEMMA UpTo ==
    ASSUME NEW m \in Nat, NEW P, 0 \in P,
           \A n \in 0 .. m : n # m /\ n \in P => n + 1 \in P
    PROVE  \A n \in 0 .. m : n \in P
<1> DEFINE T == {n \in 0 .. m : n \notin P}
           R == OpToRel(<, Nat)
<1> SUFFICES ASSUME T # {} PROVE FALSE
  OBVIOUS
<1>1. T \subseteq Nat
  OBVIOUS
<1>2. IsWellFoundedOn(R, Nat)
  BY NatLessThanWellFounded
<1> HIDE DEF R
<1>3. \E x \in T : \A y \in T : ~(<<y, x>> \in R)
  <2> HIDE DEF T
  <2> QED BY <1>1, <1>2, WFMin, Zenon
<1>4. PICK x \in T : \A y \in T : ~(<<y, x>> \in R)
  BY <1>3
<1>5. x \in Nat /\ x # 0 /\ x - 1 \in 0 .. m /\ x - 1 # m /\ (x - 1) + 1 = x
  OBVIOUS
<1>6. <<x - 1, x>> \in R
  BY <1>5 DEF R, OpToRel
<1>7. x - 1 \notin T
  BY <1>4, <1>6
<1> QED BY <1>5, <1>7

-----------------------------------------------------------------------------
(* Compaction *)

\* What Kept computes, up to the n-th turn.
IsKept(f, s, keep, n) ==
    f = [i \in 0 .. n |->
            IF i = 0 THEN <<>>
            ELSE IF s[i] \in keep THEN Append(f[i - 1], s[i])
            ELSE f[i - 1]]

\* The recursion of Kept has a solution, so Kept satisfies it.
LEMMA KeptEquation ==
    ASSUME NEW S, NEW s \in Seq(S), NEW keep
    PROVE  IsKept(Kept(s, keep), s, keep, Len(s))
<1> DEFINE P == {n \in 0 .. Len(s) : \E f : IsKept(f, s, keep, n)}
<1>1. Len(s) \in Nat
  OBVIOUS
<1>2. 0 \in P
  <2>1. IsKept([i \in 0 .. 0 |-> <<>>], s, keep, 0)
    BY DEF IsKept
  <2> QED BY <1>1, <2>1
<1>3. ASSUME NEW n \in 0 .. Len(s), n # Len(s), n \in P
      PROVE  n + 1 \in P
  <2>1. PICK f : IsKept(f, s, keep, n)
    BY <1>3
  <2> DEFINE last == IF s[n + 1] \in keep THEN Append(f[n], s[n + 1])
                                          ELSE f[n]
             g == [i \in 0 .. n + 1 |-> IF i = n + 1 THEN last ELSE f[i]]
  <2>2. ASSUME NEW i \in 0 .. n + 1
        PROVE  g[i] = IF i = 0 THEN <<>>
                      ELSE IF s[i] \in keep THEN Append(g[i - 1], s[i])
                      ELSE g[i - 1]
    <3>1. CASE i = n + 1
      <4>1. i # 0 /\ i - 1 = n /\ n \in 0 .. n + 1 /\ n # n + 1
        BY <3>1
      <4>2. g[i] = last /\ g[n] = f[n]
        BY <3>1, <4>1
      <4> QED BY <3>1, <4>1, <4>2
    <3>2. CASE i # n + 1
      <4>1. i \in 0 .. n /\ g[i] = f[i]
        BY <3>2
      <4>2. f[i] = IF i = 0 THEN <<>>
                   ELSE IF s[i] \in keep THEN Append(f[i - 1], s[i])
                   ELSE f[i - 1]
        BY <2>1, <4>1 DEF IsKept
      <4>3. i # 0 => i - 1 \in 0 .. n + 1 /\ i - 1 # n + 1
        BY <4>1
      <4>4. i # 0 => g[i - 1] = f[i - 1]
        BY <4>3
      <4> HIDE DEF g
      <4> QED BY <4>1, <4>2, <4>4
    <3> QED BY <3>1, <3>2
  <2>3. g = [i \in 0 .. n + 1 |-> g[i]]
    OBVIOUS
  <2> HIDE DEF g
  <2>4. IsKept(g, s, keep, n + 1)
    BY <2>2, <2>3 DEF IsKept
  <2>5. n + 1 \in 0 .. Len(s)
    BY <1>3
  <2> QED BY <2>4, <2>5
<1>4. Len(s) \in P
  <2> HIDE DEF P
  <2>1. \A n \in 0 .. Len(s) : n # Len(s) /\ n \in P => n + 1 \in P
    BY <1>3
  <2>2. \A n \in 0 .. Len(s) : n \in P
    BY <1>1, <1>2, <2>1, UpTo, Zenon
  <2> QED BY <1>1, <2>2
<1>5. \E f : IsKept(f, s, keep, Len(s))
  BY <1>4
<1>6. Kept(s, keep) = CHOOSE f : IsKept(f, s, keep, Len(s))
  BY DEF Kept, IsKept
<1> QED BY <1>5, <1>6

\* The same, turn by turn.
LEMMA KeptTurns ==
    ASSUME NEW S, NEW s \in Seq(S), NEW keep
    PROVE  /\ Kept(s, keep)[0] = <<>>
           /\ \A i \in 1 .. Len(s) :
                Kept(s, keep)[i] = IF s[i] \in keep
                                   THEN Append(Kept(s, keep)[i - 1], s[i])
                                   ELSE Kept(s, keep)[i - 1]
<1>1. PICK f : f = Kept(s, keep) /\ IsKept(f, s, keep, Len(s))
  BY KeptEquation
<1>2. f[0] = <<>>
  BY <1>1 DEF IsKept
<1>3. ASSUME NEW i \in 1 .. Len(s)
      PROVE  f[i] = IF s[i] \in keep THEN Append(f[i - 1], s[i]) ELSE f[i - 1]
  <2>1. i \in 0 .. Len(s) /\ i # 0
    OBVIOUS
  <2> QED BY <1>1, <2>1 DEF IsKept
<1> QED BY <1>1, <1>2, <1>3

\* c holds, in order, the entries among the first n of s that are in keep;
\* h tells from where.
Selects(h, c, s, keep, n) ==
    /\ h \in [1 .. Len(c) -> 1 .. n]
    /\ \A i, j \in 1 .. Len(c) : i < j => h[i] < h[j]
    /\ \A j \in 1 .. Len(c) : c[j] = s[h[j]] /\ s[h[j]] \in keep
    /\ \A i \in 1 .. n : s[i] \in keep => \E j \in 1 .. Len(c) : h[j] = i

\* One more turn keeps that up when its entry is kept.
LEMMA SelectsNext ==
    ASSUME NEW S, NEW s \in Seq(S), NEW keep, NEW n \in Nat, n + 1 \in 1 .. Len(s),
           NEW c \in Seq(S), Len(c) <= n, NEW h, Selects(h, c, s, keep, n),
           s[n + 1] \in keep
    PROVE  \E g : Selects(g, Append(c, s[n + 1]), s, keep, n + 1)
<1> DEFINE m == Len(c)
           d == Append(c, s[n + 1])
           g == [j \in 1 .. m + 1 |-> IF j = m + 1 THEN n + 1 ELSE h[j]]
<1>1. m \in Nat /\ s[n + 1] \in S
  OBVIOUS
<1>2. /\ Len(d) = m + 1 /\ d[m + 1] = s[n + 1]
      /\ \A j \in 1 .. m : d[j] = c[j]
  BY <1>1, AppendListing
<1>3. /\ h \in [1 .. m -> 1 .. n]
      /\ \A i, j \in 1 .. m : i < j => h[i] < h[j]
      /\ \A j \in 1 .. m : c[j] = s[h[j]] /\ s[h[j]] \in keep
      /\ \A i \in 1 .. n : s[i] \in keep => \E j \in 1 .. m : h[j] = i
  BY DEF Selects
<1> HIDE DEF m, d
<1>4. /\ g[m + 1] = n + 1
      /\ \A j \in 1 .. m : g[j] = h[j] /\ j \in 1 .. m + 1
      /\ \A j \in 1 .. m + 1 : j = m + 1 \/ j \in 1 .. m
      /\ m + 1 \in 1 .. m + 1
  BY <1>1
<1>5. g \in [1 .. m + 1 -> 1 .. n + 1]
  BY <1>1, <1>3
<1> HIDE DEF g
<1>6. \A i, j \in 1 .. m + 1 : i < j => g[i] < g[j]
  <2> SUFFICES ASSUME NEW i \in 1 .. m + 1, NEW j \in 1 .. m + 1, i < j
               PROVE  g[i] < g[j]
    OBVIOUS
  <2>1. i \in 1 .. m
    BY <1>1
  <2>2. CASE j \in 1 .. m
    BY <1>3, <1>4, <2>1, <2>2
  <2>3. CASE j = m + 1
    <3>1. g[i] = h[i] /\ h[i] \in 1 .. n
      BY <1>3, <1>4, <2>1
    <3> QED BY <1>4, <2>3, <3>1
  <2> QED BY <1>4, <2>2, <2>3
<1>7. \A j \in 1 .. m + 1 : d[j] = s[g[j]] /\ s[g[j]] \in keep
  BY <1>2, <1>3, <1>4
<1>8. \A i \in 1 .. n + 1 : s[i] \in keep => \E j \in 1 .. m + 1 : g[j] = i
  <2> SUFFICES ASSUME NEW i \in 1 .. n + 1, s[i] \in keep
               PROVE  \E j \in 1 .. m + 1 : g[j] = i
    OBVIOUS
  <2>1. CASE i = n + 1
    BY <1>4, <2>1
  <2>2. CASE i # n + 1
    <3>1. i \in 1 .. n
      BY <2>2
    <3> QED BY <1>3, <1>4, <3>1
  <2> QED BY <2>1, <2>2
<1>9. Selects(g, d, s, keep, n + 1)
  BY <1>2, <1>5, <1>6, <1>7, <1>8 DEF Selects
<1> QED BY <1>9 DEF d

\* One more turn keeps that up when its entry goes.
LEMMA SelectsSkip ==
    ASSUME NEW s, NEW keep, NEW n \in Nat, NEW c, Len(c) \in Nat, NEW h,
           Selects(h, c, s, keep, n), s[n + 1] \notin keep
    PROVE  Selects(h, c, s, keep, n + 1)
<1>1. h \in [1 .. Len(c) -> 1 .. n + 1]
  BY DEF Selects
<1>2. \A i \in 1 .. n + 1 : s[i] \in keep => \E j \in 1 .. Len(c) : h[j] = i
  <2> SUFFICES ASSUME NEW i \in 1 .. n + 1, s[i] \in keep
               PROVE  \E j \in 1 .. Len(c) : h[j] = i
    OBVIOUS
  <2>1. i \in 1 .. n
    <3>1. i # n + 1
      OBVIOUS
    <3> QED BY <3>1
  <2> QED BY <2>1 DEF Selects
<1> QED BY <1>1, <1>2 DEF Selects

\* Compact keeps the entries in keep, all of them, once each and in order.
LEMMA CompactSelects ==
    ASSUME NEW S, NEW s \in Seq(S), NEW keep
    PROVE  /\ Compact(s, keep) \in Seq(S)
           /\ Len(Compact(s, keep)) <= Len(s)
           /\ \E h : Selects(h, Compact(s, keep), s, keep, Len(s))
<1> DEFINE k == Kept(s, keep)
           P == {n \in 0 .. Len(s) :
                    /\ k[n] \in Seq(S) /\ Len(k[n]) <= n
                    /\ \E h : Selects(h, k[n], s, keep, n)}
<1>1. /\ k[0] = <<>>
      /\ \A i \in 1 .. Len(s) :
            k[i] = IF s[i] \in keep THEN Append(k[i - 1], s[i]) ELSE k[i - 1]
  BY KeptTurns
<1>2. Len(s) \in Nat
  OBVIOUS
<1> HIDE DEF k
<1>3. 0 \in P
  <2>1. Selects([j \in 1 .. 0 |-> 0], <<>>, s, keep, 0)
    BY DEF Selects
  <2>2. k[0] \in Seq(S) /\ Len(k[0]) <= 0 /\ 0 \in 0 .. Len(s)
    BY <1>1, <1>2
  <2>3. \E h : Selects(h, k[0], s, keep, 0)
    BY <1>1, <2>1
  <2> QED BY <2>2, <2>3
<1>4. ASSUME NEW n \in 0 .. Len(s), n # Len(s), n \in P
      PROVE  n + 1 \in P
  <2>1. k[n] \in Seq(S) /\ Len(k[n]) <= n
    BY <1>4
  <2>2. PICK h : Selects(h, k[n], s, keep, n)
    BY <1>4
  <2>3. n + 1 \in 1 .. Len(s) /\ n + 1 \in 0 .. Len(s) /\ (n + 1) - 1 = n
    BY <1>4
  <2>4. k[n + 1] = IF s[n + 1] \in keep THEN Append(k[n], s[n + 1]) ELSE k[n]
    BY <1>1, <2>3
  <2>5. CASE s[n + 1] \in keep
    <3>1. /\ k[n + 1] = Append(k[n], s[n + 1]) /\ s[n + 1] \in S
      BY <2>3, <2>4, <2>5
    <3>2. k[n + 1] \in Seq(S) /\ Len(k[n + 1]) = Len(k[n]) + 1
      BY <2>1, <3>1
    <3>3. PICK c \in Seq(S) : c = k[n]
      BY <2>1
    <3>4. \E g : Selects(g, Append(c, s[n + 1]), s, keep, n + 1)
      BY <2>1, <2>2, <2>3, <2>5, <3>3, SelectsNext
    <3>5. Len(k[n]) \in Nat
      BY <2>1
    <3>6. Len(k[n + 1]) <= n + 1
      BY <2>1, <3>2, <3>5
    <3>7. \E g : Selects(g, k[n + 1], s, keep, n + 1)
      BY <3>1, <3>3, <3>4
    <3> QED BY <2>3, <3>2, <3>6, <3>7
  <2>6. CASE s[n + 1] \notin keep
    <3>1. k[n + 1] = k[n]
      BY <2>4, <2>6
    <3>2. Len(k[n]) \in Nat
      BY <2>1
    <3>3. Selects(h, k[n], s, keep, n + 1)
      BY <2>2, <2>6, <3>2, SelectsSkip
    <3> QED BY <2>1, <2>3, <3>1, <3>2, <3>3
  <2> QED BY <2>5, <2>6
<1>5. Len(s) \in P
  <2> HIDE DEF P
  <2>1. \A n \in 0 .. Len(s) : n # Len(s) /\ n \in P => n + 1 \in P
    BY <1>4
  <2>2. \A n \in 0 .. Len(s) : n \in P
    BY <1>2, <1>3, <2>1, UpTo, Zenon
  <2> QED BY <1>2, <2>2
<1> QED BY <1>5 DEF Compact, k

\* The values that remain are those in keep.
LEMMA CompactRange ==
    ASSUME NEW S, NEW s \in Seq(S), NEW keep
    PROVE  \A j \in 1 .. Len(Compact(s, keep)) :
                /\ Compact(s, keep)[j] \in keep
                /\ \E i \in 1 .. Len(s) : Compact(s, keep)[j] = s[i]
<1>1. PICK h : Selects(h, Compact(s, keep), s, keep, Len(s))
  BY CompactSelects
<1> QED BY <1>1 DEF Selects

\* Every turn leaves a sequence.
LEMMA KeptType ==
    ASSUME NEW S, NEW s \in Seq(S), NEW keep
    PROVE  \A n \in 0 .. Len(s) : Kept(s, keep)[n] \in Seq(S)
<1> DEFINE k == Kept(s, keep)
           P == {n \in 0 .. Len(s) : k[n] \in Seq(S)}
<1>1. /\ k[0] = <<>>
      /\ \A i \in 1 .. Len(s) :
            k[i] = IF s[i] \in keep THEN Append(k[i - 1], s[i]) ELSE k[i - 1]
  BY KeptTurns
<1>2. Len(s) \in Nat
  OBVIOUS
<1> HIDE DEF k
<1>3. 0 \in P
  <2>1. k[0] \in Seq(S) /\ 0 \in 0 .. Len(s)
    BY <1>1, <1>2
  <2> QED BY <2>1
<1>4. \A n \in 0 .. Len(s) : n # Len(s) /\ n \in P => n + 1 \in P
  <2> SUFFICES ASSUME NEW n \in 0 .. Len(s), n # Len(s), n \in P
               PROVE  n + 1 \in P
    OBVIOUS
  <2>1. n + 1 \in 1 .. Len(s) /\ n + 1 \in 0 .. Len(s) /\ (n + 1) - 1 = n
    OBVIOUS
  <2>2. k[n + 1] = IF s[n + 1] \in keep THEN Append(k[n], s[n + 1]) ELSE k[n]
    BY <1>1, <2>1
  <2>3. k[n] \in Seq(S) /\ s[n + 1] \in S
    BY <2>1
  <2>4. k[n + 1] \in Seq(S)
    BY <2>2, <2>3
  <2> QED BY <2>1, <2>4
<1>5. \A n \in 0 .. Len(s) : n \in P
  <2> HIDE DEF P
  <2> QED BY <1>2, <1>3, <1>4, UpTo, Zenon
<1> QED BY <1>5 DEF k

\* Two sequences that agree on what is kept of their first m entries.
Agree(s, t, keep, m) ==
    \A i \in 1 .. m : /\ s[i] \in keep <=> t[i] \in keep
                      /\ s[i] \in keep => s[i] = t[i]

\* After m turns the same is kept of both.
LEMMA KeptAgree ==
    ASSUME NEW S, NEW s \in Seq(S), NEW t \in Seq(S), NEW keep, NEW m \in Nat,
           m <= Len(s), m <= Len(t), Agree(s, t, keep, m)
    PROVE  Kept(s, keep)[m] = Kept(t, keep)[m]
<1> DEFINE k == Kept(s, keep)
           l == Kept(t, keep)
           P == {n \in 0 .. m : k[n] = l[n]}
<1>1. /\ k[0] = <<>>
      /\ \A i \in 1 .. Len(s) :
            k[i] = IF s[i] \in keep THEN Append(k[i - 1], s[i]) ELSE k[i - 1]
  BY KeptTurns
<1>2. /\ l[0] = <<>>
      /\ \A i \in 1 .. Len(t) :
            l[i] = IF t[i] \in keep THEN Append(l[i - 1], t[i]) ELSE l[i - 1]
  BY KeptTurns
<1> HIDE DEF k, l
<1>3. 0 \in P
  BY <1>1, <1>2
<1>4. \A n \in 0 .. m : n # m /\ n \in P => n + 1 \in P
  <2> SUFFICES ASSUME NEW n \in 0 .. m, n # m, n \in P
               PROVE  n + 1 \in P
    OBVIOUS
  <2>1. /\ n + 1 \in 1 .. Len(s) /\ n + 1 \in 1 .. Len(t) /\ n + 1 \in 1 .. m
        /\ n + 1 \in 0 .. m /\ (n + 1) - 1 = n
    OBVIOUS
  <2>2. k[n + 1] = IF s[n + 1] \in keep THEN Append(k[n], s[n + 1]) ELSE k[n]
    BY <1>1, <2>1
  <2>3. l[n + 1] = IF t[n + 1] \in keep THEN Append(l[n], t[n + 1]) ELSE l[n]
    BY <1>2, <2>1
  <2>4. k[n] = l[n]
    OBVIOUS
  <2>5. /\ s[n + 1] \in keep <=> t[n + 1] \in keep
        /\ s[n + 1] \in keep => s[n + 1] = t[n + 1]
    BY <2>1 DEF Agree
  <2>6. k[n + 1] = l[n + 1]
    BY <2>2, <2>3, <2>4, <2>5, Zenon
  <2> QED BY <2>1, <2>6
<1>5. \A n \in 0 .. m : n \in P
  <2> HIDE DEF P
  <2> QED BY <1>3, <1>4, UpTo, Zenon
<1>6. m \in 0 .. m
  OBVIOUS
<1>7. k[m] = l[m]
  BY <1>5, <1>6
<1> QED BY <1>7 DEF k, l

\* Compaction of a longer array.
LEMMA CompactAppend ==
    ASSUME NEW S, NEW s \in Seq(S), NEW e \in S, NEW keep
    PROVE  Compact(Append(s, e), keep) =
                IF e \in keep THEN Append(Compact(s, keep), e)
                              ELSE Compact(s, keep)
<1>1. PICK t \in Seq(S) : t = Append(s, e)
  <2>1. Append(s, e) \in Seq(S)
    OBVIOUS
  <2> QED BY <2>1
<1>2. /\ Len(t) = Len(s) + 1 /\ t[Len(s) + 1] = e /\ Len(s) \in Nat
      /\ \A i \in 1 .. Len(s) : t[i] = s[i]
  BY <1>1, AppendListing
<1>3. Agree(s, t, keep, Len(s))
  BY <1>2 DEF Agree
<1>4. Kept(s, keep)[Len(s)] = Kept(t, keep)[Len(s)]
  <2>1. Len(s) <= Len(s) /\ Len(s) <= Len(t)
    BY <1>2
  <2> QED BY <1>2, <1>3, <2>1, KeptAgree
<1>5. Len(t) \in 1 .. Len(t) /\ Len(t) - 1 = Len(s)
  BY <1>2
<1>6. Kept(t, keep)[Len(t)] = IF t[Len(t)] \in keep
                              THEN Append(Kept(t, keep)[Len(s)], t[Len(t)])
                              ELSE Kept(t, keep)[Len(s)]
  BY <1>5, KeptTurns
<1> QED BY <1>1, <1>2, <1>4, <1>6 DEF Compact

\* An entry that would go anyway may go before.
LEMMA CompactLacks ==
    ASSUME NEW S, NEW s \in Seq(S), NEW index \in 1 .. Len(s), NEW keep,
           s[index] \notin keep, NEW new \in Seq(S), LacksEntry(new, s, index)
    PROVE  Compact(new, keep) = Compact(s, keep)
<1> DEFINE k == Kept(s, keep)
           l == Kept(new, keep)
           P == {n \in 0 .. Len(new) :
                    l[n] = IF n < index THEN k[n] ELSE k[n + 1]}
<1>1. /\ k[0] = <<>>
      /\ \A i \in 1 .. Len(s) :
            k[i] = IF s[i] \in keep THEN Append(k[i - 1], s[i]) ELSE k[i - 1]
  BY KeptTurns
<1>2. /\ l[0] = <<>>
      /\ \A i \in 1 .. Len(new) :
            l[i] = IF new[i] \in keep THEN Append(l[i - 1], new[i])
                                      ELSE l[i - 1]
  BY KeptTurns
<1>3. k[index] = k[index - 1]
  BY <1>1
<1>4. /\ Len(s) \in Nat /\ Len(new) \in Nat /\ Len(new) = Len(s) - 1
      /\ \A j \in 1 .. Len(new) :
            new[j] = IF j < index THEN s[j] ELSE s[j + 1]
  BY DEF LacksEntry
<1> HIDE DEF k, l
<1>5. 0 \in P
  BY <1>1, <1>2, <1>4
<1>6. \A n \in 0 .. Len(new) : n # Len(new) /\ n \in P => n + 1 \in P
  <2> SUFFICES ASSUME NEW n \in 0 .. Len(new), n # Len(new), n \in P
               PROVE  n + 1 \in P
    OBVIOUS
  <2>1. /\ n + 1 \in 1 .. Len(new) /\ n + 1 \in 0 .. Len(new)
        /\ (n + 1) - 1 = n /\ n + 1 \in 1 .. Len(s) /\ n + 2 \in 1 .. Len(s)
        /\ (n + 2) - 1 = n + 1 /\ (n + 1) + 1 = n + 2
    BY <1>4
  <2>2. l[n + 1] = IF new[n + 1] \in keep THEN Append(l[n], new[n + 1])
                                          ELSE l[n]
    BY <1>2, <2>1
  <2>3. CASE n + 1 < index
    <3>1. n < index
      BY <2>3
    <3>2. l[n] = k[n] /\ new[n + 1] = s[n + 1]
      BY <1>4, <2>1, <2>3, <3>1
    <3>3. k[n + 1] = IF s[n + 1] \in keep THEN Append(k[n], s[n + 1])
                                          ELSE k[n]
      BY <1>1, <2>1
    <3>4. l[n + 1] = k[n + 1]
      BY <2>2, <3>2, <3>3
    <3> QED BY <2>1, <2>3, <3>4
  <2>4. CASE ~(n + 1 < index)
    <3>1. new[n + 1] = s[n + 2]
      BY <1>4, <2>1, <2>4
    <3>2. k[n + 2] = IF s[n + 2] \in keep THEN Append(k[n + 1], s[n + 2])
                                          ELSE k[n + 1]
      BY <1>1, <2>1
    <3>3. l[n] = k[n + 1]
      <4>1. CASE n < index
        <5>1. n + 1 = index /\ index - 1 = n
          BY <2>4, <4>1
        <5> QED BY <1>3, <4>1, <5>1
      <4>2. CASE ~(n < index)
        BY <4>2
      <4> QED BY <4>1, <4>2
    <3>4. l[n + 1] = k[n + 2]
      BY <2>2, <3>1, <3>2, <3>3
    <3> QED BY <2>1, <2>4, <3>4
  <2> QED BY <2>3, <2>4
<1>7. \A n \in 0 .. Len(new) : n \in P
  <2> HIDE DEF P
  <2> QED BY <1>4, <1>5, <1>6, UpTo, Zenon
<1>8. l[Len(new)] = IF Len(new) < index THEN k[Len(new)] ELSE k[Len(new) + 1]
  <2>1. Len(new) \in 0 .. Len(new)
    BY <1>4
  <2> QED BY <1>7, <2>1
<1>9. l[Len(new)] = k[Len(s)]
  <2>1. Len(new) + 1 = Len(s)
    BY <1>4
  <2>2. CASE Len(new) < index
    <3>1. index = Len(s) /\ index - 1 = Len(new)
      BY <1>4, <2>2
    <3> QED BY <1>3, <1>8, <2>2, <3>1
  <2>3. CASE ~(Len(new) < index)
    BY <1>8, <2>1, <2>3
  <2> QED BY <2>2, <2>3
<1> QED BY <1>9 DEF Compact, k, l

\* Compacting twice: what the first pass drops the second does not keep.
LEMMA CompactCompact ==
    ASSUME NEW S, NEW s \in Seq(S), NEW wide, NEW keep,
           \A i \in 1 .. Len(s) : s[i] \in keep => s[i] \in wide
    PROVE  Compact(Compact(s, wide), keep) = Compact(s, keep)
<1> DEFINE k == Kept(s, keep)
           l == Kept(s, wide)
           P == {n \in 0 .. Len(s) : Compact(l[n], keep) = k[n]}
<1>1. /\ k[0] = <<>>
      /\ \A i \in 1 .. Len(s) :
            k[i] = IF s[i] \in keep THEN Append(k[i - 1], s[i]) ELSE k[i - 1]
  BY KeptTurns
<1>2. /\ l[0] = <<>>
      /\ \A i \in 1 .. Len(s) :
            l[i] = IF s[i] \in wide THEN Append(l[i - 1], s[i]) ELSE l[i - 1]
  BY KeptTurns
<1>3. \A n \in 0 .. Len(s) : l[n] \in Seq(S)
  BY KeptType
<1>4. Len(s) \in Nat
  OBVIOUS
<1> HIDE DEF k, l
<1>5. 0 \in P
  <2>1. PICK none \in Seq(S) : none = <<>>
    <3>1. <<>> \in Seq(S)
      OBVIOUS
    <3> QED BY <3>1
  <2>2. Kept(none, keep)[0] = <<>>
    BY KeptTurns
  <2>3. Compact(<<>>, keep) = <<>>
    BY <2>1, <2>2 DEF Compact
  <2> QED BY <1>1, <1>2, <1>4, <2>3
<1>6. \A n \in 0 .. Len(s) : n # Len(s) /\ n \in P => n + 1 \in P
  <2> SUFFICES ASSUME NEW n \in 0 .. Len(s), n # Len(s), n \in P
               PROVE  n + 1 \in P
    OBVIOUS
  <2>1. n + 1 \in 1 .. Len(s) /\ n + 1 \in 0 .. Len(s) /\ (n + 1) - 1 = n
    BY <1>4
  <2>2. k[n + 1] = IF s[n + 1] \in keep THEN Append(k[n], s[n + 1]) ELSE k[n]
    BY <1>1, <2>1
  <2>3. l[n + 1] = IF s[n + 1] \in wide THEN Append(l[n], s[n + 1]) ELSE l[n]
    BY <1>2, <2>1
  <2>4. Compact(l[n], keep) = k[n]
    OBVIOUS
  <2>5. PICK c \in Seq(S), e \in S : c = l[n] /\ e = s[n + 1]
    BY <1>3, <2>1
  <2>6. Compact(Append(c, e), keep) =
            IF e \in keep THEN Append(Compact(c, keep), e)
                          ELSE Compact(c, keep)
    BY CompactAppend
  <2>7. s[n + 1] \in keep => s[n + 1] \in wide
    BY <2>1
  <2>8. Compact(l[n + 1], keep) = k[n + 1]
    BY <2>2, <2>3, <2>4, <2>5, <2>6, <2>7
  <2> QED BY <2>1, <2>8
<1>7. \A n \in 0 .. Len(s) : n \in P
  <2> HIDE DEF P
  <2> QED BY <1>4, <1>5, <1>6, UpTo, Zenon
<1>8. Len(s) \in 0 .. Len(s)
  BY <1>4
<1>9. Compact(l[Len(s)], keep) = k[Len(s)]
  BY <1>7, <1>8
<1> QED BY <1>9 DEF Compact, k, l

-----------------------------------------------------------------------------
(* The oldest element of two sequences in a row *)

\* It is the first one's head, and the rest are its tail and the second.
LEMMA ConcatTail ==
    ASSUME NEW S, NEW b \in Seq(S), b # <<>>, NEW q \in Seq(S)
    PROVE  /\ b \o q # <<>>
           /\ (b \o q)[1] = Head(b)
           /\ Tail(b) \o q = Tail(b \o q)
<1>2. PICK t \in Seq(S) :
        /\ t = Tail(b) /\ Len(t) = Len(b) - 1
        /\ \A i \in 1 .. Len(t) : t[i] = b[i + 1]
  <2>1. /\ Tail(b) \in Seq(S) /\ Len(Tail(b)) = Len(b) - 1
        /\ \A i \in 1 .. Len(Tail(b)) : Tail(b)[i] = b[i + 1]
    BY HeadTailProperties
  <2> QED BY <2>1
<1>3. Len(b) \in Nat /\ Len(q) \in Nat /\ Len(t) \in Nat
  OBVIOUS
<1>4. PICK all \in Seq(S) :
        /\ all = b \o q /\ Len(all) = Len(b) + Len(q)
        /\ \A i \in 1 .. Len(b) + Len(q) :
            all[i] = IF i <= Len(b) THEN b[i] ELSE q[i - Len(b)]
  <2>1. /\ b \o q \in Seq(S) /\ Len(b \o q) = Len(b) + Len(q)
        /\ \A i \in 1 .. Len(b) + Len(q) :
            (b \o q)[i] = IF i <= Len(b) THEN b[i] ELSE q[i - Len(b)]
    BY ConcatProperties
  <2> QED BY <2>1, Zenon
<1>5. PICK rest \in Seq(S) :
        /\ rest = t \o q /\ Len(rest) = Len(t) + Len(q)
        /\ \A i \in 1 .. Len(t) + Len(q) :
            rest[i] = IF i <= Len(t) THEN t[i] ELSE q[i - Len(t)]
  <2>1. /\ t \o q \in Seq(S) /\ Len(t \o q) = Len(t) + Len(q)
        /\ \A i \in 1 .. Len(t) + Len(q) :
            (t \o q)[i] = IF i <= Len(t) THEN t[i] ELSE q[i - Len(t)]
    BY ConcatProperties
  <2> QED BY <2>1, Zenon
<1>6. all # <<>> /\ all[1] = Head(b)
  <2>1. 1 \in 1 .. Len(b) + Len(q) /\ 1 <= Len(b)
    BY <1>3
  <2>2. all[1] = b[1] /\ b[1] = Head(b)
    BY <1>4, <2>1
  <2>3. Len(all) # 0
    BY <1>3, <1>4, <2>1
  <2> QED BY <2>2, <2>3
<1>7. PICK new \in Seq(S) :
        /\ new = Tail(all) /\ Len(new) = Len(all) - 1
        /\ \A i \in 1 .. Len(new) : new[i] = all[i + 1]
  <2>1. /\ Tail(all) \in Seq(S) /\ Len(Tail(all)) = Len(all) - 1
        /\ \A i \in 1 .. Len(Tail(all)) : Tail(all)[i] = all[i + 1]
    BY <1>6, HeadTailProperties
  <2> QED BY <2>1, Zenon
<1>8. Len(new) = Len(rest)
  BY <1>2, <1>3, <1>4, <1>5, <1>7
<1>9. ASSUME NEW i \in 1 .. Len(rest)
      PROVE  rest[i] = new[i]
  <2>1. /\ i \in 1 .. Len(t) + Len(q) /\ i \in 1 .. Len(new)
        /\ i + 1 \in 1 .. Len(b) + Len(q)
    BY <1>2, <1>3, <1>5, <1>8
  <2>2. CASE i <= Len(t)
    <3>1. i + 1 <= Len(b) /\ i \in 1 .. Len(t)
      BY <1>2, <1>3, <2>2
    <3> QED BY <1>2, <1>4, <1>5, <1>7, <2>1, <2>2, <3>1
  <2>3. CASE ~(i <= Len(t))
    <3>1. ~(i + 1 <= Len(b)) /\ i - Len(t) = (i + 1) - Len(b)
      BY <1>2, <1>3, <2>3
    <3>2. rest[i] = q[i - Len(t)]
      BY <1>5, <2>1, <2>3
    <3>3. all[i + 1] = q[(i + 1) - Len(b)]
      BY <1>4, <2>1, <3>1
    <3> QED BY <1>7, <2>1, <3>1, <3>2, <3>3
  <2> QED BY <2>2, <2>3
<1>10. rest = new
  BY <1>8, <1>9, SeqEqual
<1> QED BY <1>2, <1>4, <1>5, <1>6, <1>7, <1>10

-----------------------------------------------------------------------------
(* Least elements *)

\* A set of numbers that is not empty has a least one, and Min is it.
LEMMA MinIsLeast ==
    ASSUME NEW T \in SUBSET Nat, T # {}
    PROVE  Min(T) \in T /\ \A y \in T : Min(T) <= y
<1> DEFINE R == OpToRel(<, Nat)
<1>1. IsWellFoundedOn(R, Nat)
  BY NatLessThanWellFounded
<1> HIDE DEF R
<1>2. T \subseteq Nat
  OBVIOUS
<1>3. \E x \in T : \A y \in T : ~(<<y, x>> \in R)
  BY <1>1, <1>2, WFMin, Zenon
<1>4. PICK x \in T : \A y \in T : ~(<<y, x>> \in R)
  BY <1>3
<1>5. \A y \in T : x <= y
  <2> SUFFICES ASSUME NEW y \in T PROVE x <= y
    OBVIOUS
  <2>1. x \in Nat /\ y \in Nat /\ ~(<<y, x>> \in R)
    BY <1>4
  <2>2. ~(y < x)
    BY <2>1 DEF R, OpToRel
  <2> QED BY <2>1, <2>2
<1> QED BY <1>5 DEF Min
=============================================================================
