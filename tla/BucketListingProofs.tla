------------------------ MODULE BucketListingProofs -------------------------
(***************************************************************************)
(* What a listing shows, whatever the keys, the prefix and the delimiter:  *)
(* the listing of each backend is what S3 names, and a listing page by     *)
(* page has its keys in order and skips none.                              *)
(***************************************************************************)
EXTENDS BucketListing, RecursionProofs, SequenceTheorems, TLAPS

Strings == Seq(Nat)

-----------------------------------------------------------------------------
(* Sequences and their prefixes.                                           *)

LEMMA PartIs ==
    ASSUME NEW V, NEW s \in Seq(V), NEW m \in 1 .. Len(s) + 1, NEW n \in 0 .. Len(s)
    PROVE  /\ SubSeq(s, m, n) \in Seq(V) /\ Len(s) \in Nat
           /\ Len(SubSeq(s, m, n)) = IF m <= n THEN n - m + 1 ELSE 0
           /\ \A i \in 1 .. n - m + 1 : SubSeq(s, m, n)[i] = s[m + i - 1]
  OBVIOUS

LEMMA ConcatIs ==
    ASSUME NEW V, NEW s \in Seq(V), NEW t \in Seq(V)
    PROVE  /\ s \o t \in Seq(V) /\ Len(s \o t) = Len(s) + Len(t)
           /\ Len(s) \in Nat /\ Len(t) \in Nat
           /\ \A i \in 1 .. Len(s) + Len(t) :
                 (s \o t)[i] = IF i <= Len(s) THEN s[i] ELSE t[i - Len(s)]
  OBVIOUS

LEMMA PrefixIs ==
    ASSUME NEW V, NEW s \in Seq(V), NEW t \in Seq(V)
    PROVE  IsPrefix(s, t) <=> Len(s) <= Len(t) /\ \A i \in 1 .. Len(s) : s[i] = t[i]
<1>1. SubSeq(s, 1, Len(s)) = s
  OBVIOUS
<1>2. Len(s) <= Len(t) =>
         /\ SubSeq(t, 1, Len(s)) \in Seq(V)
         /\ Len(SubSeq(t, 1, Len(s))) = Len(s)
         /\ \A i \in 1 .. Len(s) : SubSeq(t, 1, Len(s))[i] = t[i]
  OBVIOUS
<1>3. ASSUME Len(s) <= Len(t), \A i \in 1 .. Len(s) : s[i] = t[i]
      PROVE  s = SubSeq(t, 1, Len(s))
  <2>1. \A i \in 1 .. Len(s) : s[i] = SubSeq(t, 1, Len(s))[i]
    BY <1>2, <1>3
  <2> QED  BY <1>2, <1>3, <2>1, SeqEqual
<1> QED  BY <1>1, <1>2, <1>3 DEF IsPrefix

LEMMA BeforeIs ==
    ASSUME NEW s \in Strings, NEW t \in Strings
    PROVE  Before(s, t) <=>
              \/ Len(s) < Len(t) /\ \A i \in 1 .. Len(s) : s[i] = t[i]
              \/ \E i \in 1 .. Len(s) : /\ i <= Len(t) /\ s[i] < t[i]
                                        /\ \A j \in 1 .. i - 1 : s[j] = t[j]
<1>1. IsStrictPrefix(s, t) <=> Len(s) < Len(t) /\ \A i \in 1 .. Len(s) : s[i] = t[i]
  <2>1. Len(s) \in Nat /\ Len(t) \in Nat
    BY DEF Strings
  <2>2. IsPrefix(s, t) <=> Len(s) <= Len(t) /\ \A i \in 1 .. Len(s) : s[i] = t[i]
    BY PrefixIs DEF Strings
  <2>3. ASSUME Len(s) = Len(t), \A i \in 1 .. Len(s) : s[i] = t[i]
        PROVE  s = t
    BY <2>3, SeqEqual DEF Strings
  <2> QED  BY <2>1, <2>2, <2>3 DEF IsStrictPrefix
<1>2. ASSUME NEW i \in 1 .. Len(s), i <= Len(t)
      PROVE  SubSeq(s, 1, i - 1) = SubSeq(t, 1, i - 1) <=> \A j \in 1 .. i - 1 : s[j] = t[j]
  <2>1. /\ Len(SubSeq(s, 1, i - 1)) = i - 1 /\ SubSeq(s, 1, i - 1) \in Seq(Nat)
        /\ Len(SubSeq(t, 1, i - 1)) = i - 1 /\ SubSeq(t, 1, i - 1) \in Seq(Nat)
        /\ \A j \in 1 .. i - 1 : SubSeq(s, 1, i - 1)[j] = s[j] /\ SubSeq(t, 1, i - 1)[j] = t[j]
    <3>1. i - 1 \in 0 .. Len(s) /\ i - 1 \in 0 .. Len(t)
      BY <1>2 DEF Strings
    <3>2. 1 \in 1 .. Len(s) + 1 /\ 1 \in 1 .. Len(t) + 1
      BY DEF Strings
    <3>3. \A j \in 1 .. i - 1 : 1 + j - 1 = j
      OBVIOUS
    <3>4. i - 1 - 1 + 1 = i - 1 /\ (1 > i - 1 => i - 1 = 0)
      OBVIOUS
    <3>5. s \in Seq(Nat) /\ t \in Seq(Nat)
      BY DEF Strings
    <3>6. /\ Len(SubSeq(s, 1, i - 1)) = i - 1 /\ SubSeq(s, 1, i - 1) \in Seq(Nat)
          /\ \A j \in 1 .. i - 1 : SubSeq(s, 1, i - 1)[j] = s[j]
      BY <3>1, <3>2, <3>3, <3>4, <3>5, PartIs
    <3>7. /\ Len(SubSeq(t, 1, i - 1)) = i - 1 /\ SubSeq(t, 1, i - 1) \in Seq(Nat)
          /\ \A j \in 1 .. i - 1 : SubSeq(t, 1, i - 1)[j] = t[j]
      BY <3>1, <3>2, <3>3, <3>4, <3>5, PartIs
    <3> QED  BY <3>6, <3>7
  <2>2. ASSUME \A j \in 1 .. i - 1 : s[j] = t[j]
        PROVE  SubSeq(s, 1, i - 1) = SubSeq(t, 1, i - 1)
    BY <2>1, <2>2, SeqEqual
  <2> QED  BY <2>1, <2>2
<1> QED  BY <1>1, <1>2 DEF Before

\* The order of the keys is strict, as that of their bytes is.
LEMMA BeforeIsStrict ==
    ASSUME NEW s \in Strings, NEW t \in Strings, Before(s, t)
    PROVE  ~Before(t, s)
<1>0. /\ Len(s) \in Nat /\ Len(t) \in Nat
      /\ \A i \in 1 .. Len(s) : s[i] \in Nat
      /\ \A i \in 1 .. Len(t) : t[i] \in Nat
  BY DEF Strings
<1> SUFFICES ASSUME Before(t, s)
             PROVE  FALSE
  OBVIOUS
<1>1. \/ Len(s) < Len(t) /\ \A i \in 1 .. Len(s) : s[i] = t[i]
      \/ \E i \in 1 .. Len(s) : /\ i <= Len(t) /\ s[i] < t[i]
                                /\ \A j \in 1 .. i - 1 : s[j] = t[j]
  BY BeforeIs
<1>2. \/ Len(t) < Len(s) /\ \A i \in 1 .. Len(t) : t[i] = s[i]
      \/ \E i \in 1 .. Len(t) : /\ i <= Len(s) /\ t[i] < s[i]
                                /\ \A j \in 1 .. i - 1 : t[j] = s[j]
  BY BeforeIs
<1>3. CASE Len(s) < Len(t) /\ \A i \in 1 .. Len(s) : s[i] = t[i]
  BY <1>0, <1>2, <1>3
<1>4. ASSUME NEW i \in 1 .. Len(s), i <= Len(t), s[i] < t[i], \A j \in 1 .. i - 1 : s[j] = t[j]
      PROVE  FALSE
  <2>1. i \in 1 .. Len(t)
    BY <1>0, <1>4
  <2>2. ASSUME NEW j \in 1 .. Len(t), j <= Len(s), t[j] < s[j], \A l \in 1 .. j - 1 : t[l] = s[l]
        PROVE  FALSE
    <3>1. i < j \/ i = j \/ j < i
      OBVIOUS
    <3> QED  BY <1>0, <1>4, <2>1, <2>2, <3>1
  <2> QED  BY <1>0, <1>2, <1>4, <2>1, <2>2
<1> QED  BY <1>1, <1>3, <1>4

-----------------------------------------------------------------------------
(* What of a sequence is in a set.                                         *)

Increasing(f, n) == \A i, j \in 1 .. n : i < j => f[i] < f[j]

\* f has the positions up to m of what r takes from s.
Takes(f, r, s, m, set) ==
    /\ f \in [1 .. Len(r) -> 1 .. m]
    /\ Increasing(f, Len(r))
    /\ \A i \in 1 .. Len(r) : r[i] = s[f[i]] /\ r[i] \in set
    /\ \A i \in 1 .. m : s[i] \in set => \E j \in 1 .. Len(r) : f[j] = i

LEMMA IncreasingIsBounded ==
    ASSUME NEW n \in Nat, NEW m \in Nat, NEW f,
           \A i \in 1 .. n : f[i] \in 1 .. m, Increasing(f, n)
    PROVE  n <= m /\ \A i \in 1 .. n : i <= f[i]
<1> DEFINE T == {i \in Nat : i \in 1 .. n => i <= f[i]}
<1>1. 0 \in T
  OBVIOUS
<1>2. ASSUME NEW i \in Nat, i \in T
      PROVE  i + 1 \in T
  <2> SUFFICES ASSUME i + 1 \in 1 .. n
               PROVE  i + 1 <= f[i + 1]
    OBVIOUS
  <2>1. CASE i = 0
    BY <2>1
  <2>2. CASE i > 0
    <3>1. i \in 1 .. n /\ i < i + 1
      BY <2>2
    <3>2. i <= f[i] /\ f[i] < f[i + 1]
      BY <1>2, <3>1 DEF Increasing
    <3> QED  BY <3>1, <3>2
  <2> QED  BY <2>1, <2>2
<1> HIDE DEF T
<1>3. \A i \in Nat : i \in T
  BY <1>1, <1>2, Induction
<1>4. \A i \in 1 .. n : i <= f[i]
  BY <1>3 DEF T
<1>5. CASE n = 0
  BY <1>4, <1>5
<1>6. CASE n > 0
  <2>1. n <= f[n] /\ f[n] \in 1 .. m
    BY <1>4, <1>6
  <2> QED  BY <1>4, <2>1
<1> QED  BY <1>5, <1>6

\* If f has them all, it is the identity.
LEMMA IncreasingOnto ==
    ASSUME NEW n \in Nat, NEW m \in Nat, NEW f,
           \A i \in 1 .. n : f[i] \in 1 .. m, Increasing(f, n),
           \A i \in 1 .. m : \E j \in 1 .. n : f[j] = i
    PROVE  n = m /\ \A i \in 1 .. n : f[i] = i
<1>1. PICK g : g = [i \in 1 .. m |-> CHOOSE j \in 1 .. n : f[j] = i]
  OBVIOUS
<1>2. \A i \in 1 .. m : g[i] \in 1 .. n /\ f[g[i]] = i
  BY <1>1
<1>3. ASSUME NEW i \in 1 .. m, NEW j \in 1 .. m, i < j
      PROVE  g[i] < g[j]
  <2>1. g[i] \in 1 .. n /\ g[j] \in 1 .. n /\ f[g[i]] = i /\ f[g[j]] = j
    BY <1>2
  <2>2. g[j] < g[i] => f[g[j]] < f[g[i]]
    BY <2>1 DEF Increasing
  <2> QED  BY <1>3, <2>1, <2>2
<1>4. Increasing(g, m)
  BY <1>3 DEF Increasing
<1>5. n <= m /\ \A i \in 1 .. n : i <= f[i]
  BY IncreasingIsBounded
<1>6. m <= n /\ \A i \in 1 .. m : i <= g[i]
  BY <1>2, <1>4, IncreasingIsBounded
<1>7. ASSUME NEW i \in 1 .. n
      PROVE  f[i] = i
  <2>1. i \in 1 .. m /\ g[i] \in 1 .. n /\ f[g[i]] = i /\ i <= g[i]
    BY <1>2, <1>5, <1>6
  <2>2. g[i] <= f[g[i]]
    BY <1>5, <2>1
  <2>3. g[i] = i
    BY <2>1, <2>2
  <2> QED  BY <2>1, <2>3
<1> QED  BY <1>5, <1>6, <1>7

LEMMA TakesNext ==
    ASSUME NEW V, NEW s \in Seq(V), NEW set, NEW m \in Nat, m + 1 <= Len(s),
           NEW r \in Seq(V), NEW f, Takes(f, r, s, m, set),
           NEW t, t = r \o (IF s[m + 1] \in set THEN <<s[m + 1]>> ELSE <<>>)
    PROVE  t \in Seq(V) /\ \E g : Takes(g, t, s, m + 1, set)
<1>1. s[m + 1] \in V /\ Len(r) \in Nat
  OBVIOUS
<1>2. CASE s[m + 1] \in set
  <2>1. /\ t \in Seq(V) /\ Len(t) = Len(r) + 1
        /\ \A i \in 1 .. Len(r) : t[i] = r[i]
        /\ t[Len(r) + 1] = s[m + 1]
    <3>1. t = Append(r, s[m + 1])
      BY <1>1, <1>2
    <3> QED  BY <1>1, <3>1
  <2> DEFINE g == [i \in 1 .. Len(t) |-> IF i <= Len(r) THEN f[i] ELSE m + 1]
  <2>2. \A i \in 1 .. Len(r) : f[i] \in 1 .. m
    BY DEF Takes
  <2>3. g \in [1 .. Len(t) -> 1 .. m + 1]
    BY <1>1, <2>1, <2>2
  <2>4. Increasing(g, Len(t))
    <3>1. ASSUME NEW i \in 1 .. Len(r) + 1, NEW j \in 1 .. Len(r) + 1, i < j
          PROVE  g[i] < g[j]
      <4>1. i \in 1 .. Len(r) /\ g[i] = f[i]
        BY <1>1, <2>1, <3>1
      <4>2. CASE j <= Len(r)
        <5>1. j \in 1 .. Len(r) /\ g[j] = f[j]
          BY <1>1, <2>1, <4>2
        <5> QED  BY <3>1, <4>1, <5>1 DEF Takes, Increasing
      <4>3. CASE j = Len(r) + 1
        <5>1. g[j] = m + 1
          BY <1>1, <2>1, <4>3
        <5> QED  BY <2>2, <4>1, <5>1
      <4> QED  BY <1>1, <4>2, <4>3
    <3> QED  BY <2>1, <3>1 DEF Increasing
  <2>5. \A i \in 1 .. Len(t) : t[i] = s[g[i]] /\ t[i] \in set
    BY <1>1, <1>2, <2>1, <2>2 DEF Takes
  <2>6. ASSUME NEW i \in 1 .. m + 1, s[i] \in set
        PROVE  \E j \in 1 .. Len(t) : g[j] = i
    <3>1. CASE i = m + 1
      BY <1>1, <2>1, <3>1
    <3>2. CASE i <= m
      <4>1. PICK j \in 1 .. Len(r) : f[j] = i
        BY <2>6, <3>2 DEF Takes
      <4> QED  BY <1>1, <2>1, <4>1
    <3>3. i = m + 1 \/ i <= m
      OBVIOUS
    <3> QED  BY <3>1, <3>2, <3>3
  <2>7. Takes(g, t, s, m + 1, set)
    <3> HIDE DEF g
    <3> QED  BY <2>3, <2>4, <2>5, <2>6 DEF Takes
  <2> QED  BY <2>1, <2>7
<1>3. CASE s[m + 1] \notin set
  <2>1. t = r
    BY <1>3
  <2>2. f \in [1 .. Len(t) -> 1 .. m + 1]
    BY <1>1, <2>1 DEF Takes
  <2>3. Takes(f, t, s, m + 1, set)
    BY <1>3, <2>1, <2>2 DEF Takes
  <2> QED  BY <2>1, <2>3
<1> QED  BY <1>2, <1>3

LEMMA AmongIs ==
    ASSUME NEW V, NEW s \in Seq(V), NEW set
    PROVE  /\ Among(s, set) \in Seq(V)
           /\ \E f : Takes(f, Among(s, set), s, Len(s), set)
<1> DEFINE n == Len(s)
           Taken(i) == IF s[i] \in set THEN <<s[i]>> ELSE <<>>
           step == [x \in Nat \X Seq(V) |-> IF x[1] \in 1 .. n THEN x[2] \o Taken(x[1]) ELSE <<>>]
           upTo[i \in 0 .. Len(s)] ==
              IF i = 0 THEN <<>> ELSE upTo[i - 1] \o (IF s[i] \in set THEN <<s[i]>> ELSE <<>>)
<1>1. n \in Nat /\ <<>> \in Seq(V) /\ \A i \in 1 .. n : Taken(i) \in Seq(V)
  <2>1. \A i \in 1 .. n : s[i] \in V
    OBVIOUS
  <2>2. \A i \in 1 .. n : <<s[i]>> \in Seq(V)
    BY <2>1
  <2> QED  BY <2>2
<1>2. step \in [Nat \X Seq(V) -> Seq(V)]
  <2>1. ASSUME NEW x \in Nat \X Seq(V)
        PROVE  (IF x[1] \in 1 .. n THEN x[2] \o Taken(x[1]) ELSE <<>>) \in Seq(V)
    <3> HIDE DEF Taken
    <3>1. x[2] \in Seq(V)
      OBVIOUS
    <3>2. CASE x[1] \in 1 .. n
      <4>1. Taken(x[1]) \in Seq(V)
        BY <1>1, <3>2
      <4> QED  BY <3>1, <3>2, <4>1
    <3> QED  BY <1>1, <3>2
  <2> QED  BY <2>1
<1>3. \A i \in Nat, v \in Seq(V) :
         step[<<i, v>>] = IF i \in 1 .. n THEN v \o Taken(i) ELSE <<>>
  OBVIOUS
<1> HIDE DEF step
<1>4. PICK f : Steps(f, Seq(V), <<>>, step, n)
  <2> HIDE DEF n
  <2> QED  BY <1>1, <1>2, Recursion
<1>5. f = [i \in 0 .. n |-> IF i = 0 THEN <<>> ELSE f[i - 1] \o Taken(i)]
  <2>1. f = [i \in 0 .. n |-> f[i]]
    BY <1>4 DEF Steps
  <2>2. ASSUME NEW i \in 0 .. n
        PROVE  f[i] = IF i = 0 THEN <<>> ELSE f[i - 1] \o Taken(i)
    <3> HIDE DEF Taken
    <3>1. CASE i = 0
      BY <1>4, <3>1 DEF Steps
    <3>2. CASE i > 0
      <4>1. i \in 1 .. n /\ i - 1 \in 0 .. n /\ i \in Nat
        BY <1>1, <3>2
      <4>2. f[i] = step[<<i, f[i - 1]>>] /\ f[i - 1] \in Seq(V)
        BY <1>4, <4>1 DEF Steps
      <4> QED  BY <1>3, <3>2, <4>1, <4>2
    <3> QED  BY <1>1, <3>1, <3>2
  <2> HIDE DEF Taken
  <2> QED  BY <2>1, <2>2
<1>6. upTo = [i \in 0 .. Len(s) |-> IF i = 0 THEN <<>> ELSE upTo[i - 1] \o Taken(i)]
  BY <1>5
<1>7. Among(s, set) = upTo[n]
  BY DEF Among
<1> HIDE DEF upTo
<1> DEFINE Upto(i) == upTo[i] \in Seq(V) /\ \E g : Takes(g, upTo[i], s, i, set)
           T == {i \in Nat : i <= n => Upto(i)}
<1>8. 0 \in T
  <2>1. upTo[0] = <<>> /\ upTo[0] \in Seq(V) /\ Len(upTo[0]) = 0
    BY <1>1, <1>6
  <2>2. Takes([i \in 1 .. 0 |-> i], upTo[0], s, 0, set)
    BY <2>1 DEF Takes, Increasing
  <2> QED  BY <2>1, <2>2
<1>9. ASSUME NEW i \in Nat, i \in T
      PROVE  i + 1 \in T
  <2> SUFFICES ASSUME i + 1 <= n
               PROVE  Upto(i + 1)
    OBVIOUS
  <2>1. Upto(i) /\ i + 1 \in 0 .. n /\ (i + 1) - 1 = i /\ i + 1 # 0
    BY <1>1, <1>9
  <2>2. upTo[i + 1] = upTo[i] \o (IF s[i + 1] \in set THEN <<s[i + 1]>> ELSE <<>>)
    BY <1>6, <2>1
  <2>3. PICK g : Takes(g, upTo[i], s, i, set)
    BY <2>1
  <2> QED  BY <2>1, <2>2, <2>3, TakesNext
<1> HIDE DEF T
<1>10. n \in T
  BY <1>1, <1>8, <1>9, Induction
<1> QED  BY <1>1, <1>7, <1>10 DEF T

\* Of the numbers up to n.
LEMMA AmongAll ==
    ASSUME NEW V, NEW s \in Seq(V), NEW set, \A i \in 1 .. Len(s) : s[i] \in set
    PROVE  Among(s, set) = s
<1>1. PICK r \in Seq(V) : r = Among(s, set)
  BY AmongIs
<1>2. \E f : Takes(f, r, s, Len(s), set)
  BY <1>1, AmongIs
<1>3. PICK f : Takes(f, r, s, Len(s), set)
  BY <1>2
<1>4. Len(r) \in Nat /\ Len(s) \in Nat
  OBVIOUS
<1>5. /\ \A i \in 1 .. Len(r) : f[i] \in 1 .. Len(s)
      /\ Increasing(f, Len(r))
      /\ \A i \in 1 .. Len(s) : \E j \in 1 .. Len(r) : f[j] = i
      /\ \A i \in 1 .. Len(r) : r[i] = s[f[i]]
  BY <1>3 DEF Takes
<1>6. Len(r) = Len(s) /\ \A i \in 1 .. Len(r) : f[i] = i
  <2>1. PICK n \in Nat, m \in Nat : n = Len(r) /\ m = Len(s)
    BY <1>4
  <2>2. \A i \in 1 .. n : f[i] \in 1 .. m
    BY <1>5, <2>1
  <2>3. Increasing(f, n) /\ \A i \in 1 .. m : \E j \in 1 .. n : f[j] = i
    BY <1>5, <2>1
  <2>4. n = m /\ \A i \in 1 .. n : f[i] = i
    BY <2>2, <2>3, IncreasingOnto
  <2> QED  BY <2>1, <2>4
<1>7. ASSUME NEW i \in 1 .. Len(s)
      PROVE  r[i] = s[i]
  <2>1. i \in 1 .. Len(r)
    BY <1>6
  <2>2. r[i] = s[f[i]] /\ f[i] = i
    BY <1>5, <1>6, <2>1
  <2> QED  BY <2>2
<1>8. r = s
  BY <1>6, <1>7
<1> QED  BY <1>1, <1>8

\* r has the numbers of a set, all up to n, each once and in their order.
Enumerates(r, set, n) ==
    /\ r \in Seq(1 .. n)
    /\ Len(r) \in Nat
    /\ Increasing(r, Len(r))
    /\ \A i \in 1 .. Len(r) : r[i] \in set
    /\ \A x \in set : \E i \in 1 .. Len(r) : r[i] = x

LEMMA AmongNumbers ==
    ASSUME NEW n \in Nat, NEW s \in Seq(1 .. n), Len(s) = n, \A i \in 1 .. n : s[i] = i,
           NEW set \in SUBSET (1 .. n)
    PROVE  Enumerates(Among(s, set), set, n)
<1>1. s \in Seq(1 .. n) /\ Len(s) = n /\ \A i \in 1 .. n : s[i] = i
  OBVIOUS
<1>2. Among(s, set) \in Seq(1 .. n) /\ \E f : Takes(f, Among(s, set), s, n, set)
  <2>1. PICK V : V = 1 .. n
    OBVIOUS
  <2>2. s \in Seq(V)
    BY <1>1, <2>1
  <2>3. Among(s, set) \in Seq(V) /\ \E f : Takes(f, Among(s, set), s, Len(s), set)
    BY <2>2, AmongIs
  <2> QED  BY <1>1, <2>1, <2>3
<1> DEFINE r == Among(s, set)
<1> HIDE DEF r
<1>3. r \in Seq(1 .. n) /\ Len(r) \in Nat
  BY <1>2 DEF r
<1>4. PICK f : Takes(f, r, s, n, set)
  BY <1>2 DEF r
<1>5. \A i \in 1 .. Len(r) : f[i] \in 1 .. n /\ r[i] = f[i] /\ r[i] \in set
  BY <1>1, <1>4 DEF Takes
<1>6. Increasing(r, Len(r))
  BY <1>4, <1>5 DEF Takes, Increasing
<1>7. ASSUME NEW x \in set
      PROVE  \E i \in 1 .. Len(r) : r[i] = x
  <2>1. x \in 1 .. n /\ s[x] = x
    BY <1>1
  <2>2. PICK i \in 1 .. Len(r) : f[i] = x
    BY <1>4, <2>1 DEF Takes
  <2> QED  BY <1>5, <2>2
<1>8. Enumerates(r, set, n)
  BY <1>3, <1>5, <1>6, <1>7 DEF Enumerates
<1> QED  BY <1>8 DEF r

-----------------------------------------------------------------------------
(* The keys and their order.                                               *)

LEMMA KeyOrderIs ==
    /\ KeyOrder \in Seq(Keys) /\ Len(KeyOrder) \in Nat /\ DOMAIN KeyOrder = 1 .. Len(KeyOrder)
    /\ \A i \in 1 .. Len(KeyOrder) : KeyOrder[i] \in Keys
    /\ \A k \in Keys : k \in Strings /\ k # <<>> /\ \E i \in 1 .. Len(KeyOrder) : KeyOrder[i] = k
    /\ \A i, j \in 1 .. Len(KeyOrder) : i < j => Before(KeyOrder[i], KeyOrder[j])
<1>1. /\ KeyOrder \in Seq(Strings \ {<<>>})
      /\ \A i, j \in DOMAIN KeyOrder : i < j => Before(KeyOrder[i], KeyOrder[j])
  BY BucketListingAssumption DEF Strings
<1>2. DOMAIN KeyOrder = 1 .. Len(KeyOrder) /\ Len(KeyOrder) \in Nat
  BY <1>1
<1>3. \A i \in 1 .. Len(KeyOrder) : KeyOrder[i] \in Strings \ {<<>>}
  BY <1>1
<1>4. Keys = {KeyOrder[i] : i \in 1 .. Len(KeyOrder)}
  BY <1>2 DEF Keys, ToSet
<1>5. KeyOrder \in Seq(Keys)
  BY <1>1, <1>2, <1>4
<1> QED  BY <1>1, <1>2, <1>3, <1>4, <1>5

LEMMA KeysAreOrdered ==
    ASSUME NEW k \in Keys, NEW l \in Keys, NEW m \in Keys
    PROVE  /\ ~Before(k, k)
           /\ k = l \/ Before(k, l) \/ Before(l, k)
           /\ Before(k, l) => ~Before(l, k)
           /\ Before(k, l) /\ Before(l, m) => Before(k, m)
<1>1. PICK i \in 1 .. Len(KeyOrder) : KeyOrder[i] = k
  BY KeyOrderIs
<1>2. PICK j \in 1 .. Len(KeyOrder) : KeyOrder[j] = l
  BY KeyOrderIs
<1>3. PICK h \in 1 .. Len(KeyOrder) : KeyOrder[h] = m
  BY KeyOrderIs
<1>4. i \in Nat /\ j \in Nat /\ h \in Nat
  OBVIOUS
<1>5. ~Before(k, k) /\ (Before(k, l) => ~Before(l, k)) /\ (Before(l, m) => ~Before(m, l))
  BY KeyOrderIs, BeforeIsStrict
<1>6. (i < j => Before(k, l)) /\ (j < i => Before(l, k)) /\ (j < h => Before(l, m))
      /\ (h < j => Before(m, l)) /\ (i < h => Before(k, m))
  BY <1>1, <1>2, <1>3, KeyOrderIs
<1>7. k = l \/ Before(k, l) \/ Before(l, k)
  BY <1>1, <1>2, <1>4, <1>6
<1>8. (Before(k, l) => i < j) /\ (Before(l, m) => j < h)
  BY <1>1, <1>2, <1>3, <1>4, <1>5, <1>6
<1> QED  BY <1>4, <1>5, <1>6, <1>7, <1>8

Sorted(s) == \A i, j \in 1 .. Len(s) : i < j => Before(s[i], s[j])

Lists(s, k) == \E i \in 1 .. Len(s) : s[i] = k

LEMMA InOrderIs ==
    ASSUME NEW keys \in SUBSET Keys
    PROVE  /\ InOrder[keys] \in Seq(Keys) /\ Len(InOrder[keys]) \in Nat
           /\ DOMAIN InOrder[keys] = 1 .. Len(InOrder[keys])
           /\ Len(InOrder[keys]) <= Len(KeyOrder)
           /\ Sorted(InOrder[keys])
           /\ \A k : Lists(InOrder[keys], k) <=> k \in keys
<1>1. InOrder[keys] = Among(KeyOrder, keys)
  BY DEF InOrder
<1> DEFINE r == InOrder[keys]
<1>2. r \in Seq(Keys) /\ \E f : Takes(f, r, KeyOrder, Len(KeyOrder), keys)
  BY <1>1, KeyOrderIs, AmongIs
<1> HIDE DEF r
<1>3. PICK f : Takes(f, r, KeyOrder, Len(KeyOrder), keys)
  BY <1>2
<1>4. Len(r) \in Nat /\ DOMAIN r = 1 .. Len(r)
  BY <1>2
<1>5. /\ \A i \in 1 .. Len(r) : /\ f[i] \in 1 .. Len(KeyOrder)
                                /\ r[i] = KeyOrder[f[i]] /\ r[i] \in keys
      /\ \A i, j \in 1 .. Len(r) : i < j => f[i] < f[j]
  BY <1>3 DEF Takes, Increasing
<1>6. Sorted(r)
  BY <1>5, KeyOrderIs, SMTT(30) DEF Sorted
<1>7. ASSUME NEW k \in keys
      PROVE  Lists(r, k)
  <2>1. PICK i \in 1 .. Len(KeyOrder) : KeyOrder[i] = k
    BY KeyOrderIs
  <2>2. PICK j \in 1 .. Len(r) : f[j] = i
    BY <1>3, <2>1 DEF Takes
  <2> QED  BY <1>5, <2>1, <2>2 DEF Lists
<1>8. ASSUME NEW k, Lists(r, k)
      PROVE  k \in keys
  BY <1>5, <1>8 DEF Lists
<1>9. Len(r) <= Len(KeyOrder)
  BY <1>4, <1>5, KeyOrderIs, IncreasingIsBounded DEF Increasing
<1> QED  BY <1>2, <1>4, <1>6, <1>7, <1>8, <1>9 DEF r

-----------------------------------------------------------------------------
(* Splitting at a delimiter and joining again.                             *)

LEMMA CutsAre ==
    ASSUME NEW s \in Strings, NEW c
    PROVE  /\ Cuts(s, c) \in Seq(Nat) /\ Len(Cuts(s, c)) \in Nat /\ Len(Cuts(s, c)) >= 2
           /\ Cuts(s, c)[1] = 0 /\ Cuts(s, c)[Len(Cuts(s, c))] = Len(s) + 1
           /\ Increasing(Cuts(s, c), Len(Cuts(s, c)))
           /\ \A i \in 1 .. Len(Cuts(s, c)) : Cuts(s, c)[i] \in 0 .. Len(s) + 1
           /\ \A i \in 2 .. Len(Cuts(s, c)) - 1 : /\ Cuts(s, c)[i] \in 1 .. Len(s)
                                                  /\ s[Cuts(s, c)[i]] = c
           /\ \A i \in 1 .. Len(Cuts(s, c)) - 1, j \in 1 .. Len(s) :
                 Cuts(s, c)[i] < j /\ j < Cuts(s, c)[i + 1] => s[j] # c
<1> DEFINE n == Len(s)
           at == {i \in 1 .. n : s[i] = c}
           r == Among([i \in 1 .. n |-> i], at)
           cuts == Cuts(s, c)
<1>1. n \in Nat /\ DOMAIN s = 1 .. n
  BY DEF Strings
<1>2. cuts = <<0>> \o r \o <<n + 1>>
  BY <1>1 DEF Cuts
<1>3. /\ r \in Seq(1 .. n) /\ Len(r) \in Nat /\ Increasing(r, Len(r))
      /\ \A i \in 1 .. Len(r) : r[i] \in at
      /\ \A x \in at : \E i \in 1 .. Len(r) : r[i] = x
  <2>1. at \in SUBSET (1 .. n)
    OBVIOUS
  <2>2. PICK t : t = [i \in 1 .. n |-> i]
    OBVIOUS
  <2> HIDE DEF at, n
  <2>3. t \in Seq(1 .. n) /\ Len(t) = n /\ \A i \in 1 .. n : t[i] = i
    BY <1>1, <2>2
  <2>4. Enumerates(Among(t, at), at, n)
    BY <1>1, <2>1, <2>3, AmongNumbers
  <2>5. Enumerates(r, at, n)
    BY <2>2, <2>4
  <2> QED  BY <2>5 DEF Enumerates
<1>4. \A i \in 1 .. Len(r) : r[i] \in 1 .. n /\ s[r[i]] = c
  BY <1>3
<1>5. \A x \in 1 .. n : s[x] = c => \E i \in 1 .. Len(r) : r[i] = x
  BY <1>3
<1> HIDE DEF r, n
<1>6. r \in Seq(Nat)
  BY <1>1, <1>3, <1>4
<1>7. /\ cuts \in Seq(Nat) /\ Len(cuts) = Len(r) + 2
      /\ cuts[1] = 0 /\ cuts[Len(r) + 2] = n + 1
      /\ \A i \in 2 .. Len(r) + 1 : cuts[i] = r[i - 1]
  <2> HIDE DEF cuts
  <2>1. n + 1 \in Nat
    BY <1>1
  <2> QED  BY <1>2, <1>3, <1>6, <2>1
<1> HIDE DEF cuts
<1>8. \A i \in 2 .. Len(r) + 1 : cuts[i] \in 1 .. n /\ s[cuts[i]] = c
  <2> SUFFICES ASSUME NEW i \in 2 .. Len(r) + 1
               PROVE  cuts[i] \in 1 .. n /\ s[cuts[i]] = c
    OBVIOUS
  <2>1. i - 1 \in 1 .. Len(r)
    BY <1>3
  <2> QED  BY <1>4, <1>7, <2>1
<1>9. ASSUME NEW i \in 1 .. Len(r) + 2, NEW j \in 1 .. Len(r) + 2, i < j
      PROVE  cuts[i] < cuts[j]
  <2>1. CASE i = 1 /\ j = Len(r) + 2
    BY <1>1, <1>7, <2>1
  <2>2. CASE i = 1 /\ j # Len(r) + 2
    <3>1. j \in 2 .. Len(r) + 1
      BY <1>3, <1>9, <2>2
    <3> QED  BY <1>7, <1>8, <2>2, <3>1
  <2>3. CASE i # 1 /\ j = Len(r) + 2
    <3>1. i \in 2 .. Len(r) + 1
      BY <1>3, <1>9, <2>3
    <3> QED  BY <1>1, <1>7, <1>8, <2>3, <3>1
  <2>4. CASE i # 1 /\ j # Len(r) + 2
    <3>1. i \in 2 .. Len(r) + 1 /\ j \in 2 .. Len(r) + 1
      BY <1>3, <1>9, <2>4
    <3>2. i - 1 \in 1 .. Len(r) /\ j - 1 \in 1 .. Len(r) /\ i - 1 < j - 1
      BY <1>3, <1>9, <3>1
    <3>3. r[i - 1] < r[j - 1]
      BY <1>3, <3>2 DEF Increasing
    <3> QED  BY <1>7, <3>1, <3>3
  <2> QED  BY <2>1, <2>2, <2>3, <2>4
<1>10. ASSUME NEW i \in 1 .. Len(r) + 2
       PROVE  cuts[i] \in 0 .. n + 1
  <2>1. CASE i \in 2 .. Len(r) + 1
    BY <1>1, <1>8, <2>1
  <2>2. CASE i = 1 \/ i = Len(r) + 2
    BY <1>1, <1>7, <2>2
  <2> QED  BY <1>3, <2>1, <2>2
<1>11. ASSUME NEW i \in 1 .. Len(r) + 1, NEW j \in 1 .. n, cuts[i] < j, j < cuts[i + 1], s[j] = c
       PROVE  FALSE
  <2>1. PICK x \in 1 .. Len(r) : r[x] = j
    BY <1>5, <1>11
  <2>2. x + 1 \in 2 .. Len(r) + 1 /\ x + 1 - 1 = x
    BY <1>3
  <2>3. cuts[x + 1] = j
    <3>1. cuts[x + 1] = r[x + 1 - 1]
      BY <1>7, <2>2
    <3> QED  BY <2>1, <2>2, <3>1
  <2>4. x + 1 \in 1 .. Len(r) + 2 /\ i \in 1 .. Len(r) + 2 /\ i + 1 \in 1 .. Len(r) + 2
    BY <1>3, <2>2
  <2>5. cuts[i] \in Nat /\ cuts[i + 1] \in Nat /\ j \in Nat
    BY <1>1, <1>10, <2>4
  <2>6. x + 1 <= i \/ x + 1 >= i + 1
    BY <1>3
  <2>7. CASE x + 1 <= i
    <3>1. cuts[x + 1] <= cuts[i]
      BY <1>9, <2>4, <2>5, <2>7, <2>3
    <3> QED  BY <1>11, <2>3, <2>5, <3>1
  <2>8. CASE x + 1 >= i + 1
    <3>1. cuts[i + 1] <= cuts[x + 1]
      BY <1>9, <2>4, <2>5, <2>8, <2>3
    <3> QED  BY <1>11, <2>3, <2>5, <3>1
  <2> QED  BY <2>6, <2>7, <2>8
<1>12. Increasing(cuts, Len(cuts))
  BY <1>7, <1>9 DEF Increasing
<1>13. Len(cuts) - 1 = Len(r) + 1 /\ Len(cuts) \in Nat /\ Len(cuts) >= 2
  BY <1>3, <1>7
<1> QED  BY <1>7, <1>8, <1>10, <1>11, <1>12, <1>13 DEF cuts, n

LEMMA CutsOrdered ==
    ASSUME NEW s \in Strings, NEW c, NEW i \in 1 .. Len(Cuts(s, c)) - 1
    PROVE  /\ Len(s) \in Nat
           /\ Cuts(s, c)[i] \in 0 .. Len(s) + 1 /\ Cuts(s, c)[i + 1] \in 0 .. Len(s) + 1
           /\ Cuts(s, c)[i] < Cuts(s, c)[i + 1]
<1> DEFINE cuts == Cuts(s, c)
<1>1. /\ Len(cuts) \in Nat /\ Len(s) \in Nat
      /\ \A x \in 1 .. Len(cuts) : cuts[x] \in 0 .. Len(s) + 1
      /\ \A x, y \in 1 .. Len(cuts) : x < y => cuts[x] < cuts[y]
  BY CutsAre DEF Increasing, Strings
<1> HIDE DEF cuts
<1>2. i \in 1 .. Len(cuts) /\ i + 1 \in 1 .. Len(cuts) /\ i < i + 1
  BY <1>1 DEF cuts
<1> QED  BY <1>1, <1>2 DEF cuts

LEMMA SplitIs ==
    ASSUME NEW s \in Strings, NEW c
    PROVE  /\ Split(s, c) \in Seq(Strings)
           /\ Len(Split(s, c)) = Len(Cuts(s, c)) - 1 /\ Len(Split(s, c)) \in Nat \ {0}
           /\ DOMAIN Split(s, c) = 1 .. Len(Split(s, c))
<1> DEFINE cuts == Cuts(s, c)
           n == Len(cuts) - 1
<1>1. n \in Nat \ {0}
  BY CutsAre
<1>2. Split(s, c) = [i \in 1 .. n |-> SubSeq(s, cuts[i] + 1, cuts[i + 1] - 1)]
  BY DEF Split
<1>3. ASSUME NEW i \in 1 .. n
      PROVE  SubSeq(s, cuts[i] + 1, cuts[i + 1] - 1) \in Strings
  <2>1. /\ Len(s) \in Nat /\ cuts[i] \in 0 .. Len(s) + 1 /\ cuts[i + 1] \in 0 .. Len(s) + 1
        /\ cuts[i] < cuts[i + 1]
    BY CutsOrdered
  <2> HIDE DEF cuts
  <2>2. cuts[i] + 1 \in 1 .. Len(s) + 1 /\ cuts[i + 1] - 1 \in 0 .. Len(s)
    BY <2>1
  <2> QED  BY <2>2, PartIs DEF Strings
<1> HIDE DEF cuts, n
<1>4. Split(s, c) \in Seq(Strings) /\ Len(Split(s, c)) = n /\ DOMAIN Split(s, c) = 1 .. n
  BY <1>1, <1>2, <1>3
<1> QED  BY <1>1, <1>4 DEF n, cuts

LEMMA PartOfSplit ==
    ASSUME NEW s \in Strings, NEW c, NEW i \in 1 .. Len(Split(s, c))
    PROVE  /\ Split(s, c)[i] \in Strings
           /\ Split(s, c)[i] = SubSeq(s, Cuts(s, c)[i] + 1, Cuts(s, c)[i + 1] - 1)
           /\ Len(Split(s, c)[i]) = Cuts(s, c)[i + 1] - Cuts(s, c)[i] - 1
           /\ \A j \in 1 .. Len(Split(s, c)[i]) : Split(s, c)[i][j] = s[Cuts(s, c)[i] + j]
<1> DEFINE cuts == Cuts(s, c)
           part == Split(s, c)[i]
           t == SubSeq(s, cuts[i] + 1, cuts[i + 1] - 1)
<1>1. i \in 1 .. Len(cuts) - 1
  BY SplitIs
<1>2. /\ Len(s) \in Nat /\ cuts[i] \in 0 .. Len(s) + 1 /\ cuts[i + 1] \in 0 .. Len(s) + 1
      /\ cuts[i] < cuts[i + 1]
  BY <1>1, CutsOrdered
<1>3. part = t
  BY <1>1 DEF Split
<1> HIDE DEF cuts, part
<1>4. PICK a \in Nat, b \in Nat : a = cuts[i] /\ b = cuts[i + 1]
  BY <1>2
<1>5. a + 1 \in 1 .. Len(s) + 1 /\ b - 1 \in 0 .. Len(s)
  BY <1>2, <1>4
<1>6. t = SubSeq(s, a + 1, b - 1)
  BY <1>4
<1> HIDE DEF t
<1>7. /\ t \in Seq(Nat)
      /\ Len(t) = IF a + 1 <= b - 1 THEN (b - 1) - (a + 1) + 1 ELSE 0
      /\ \A j \in 1 .. (b - 1) - (a + 1) + 1 : t[j] = s[a + 1 + j - 1]
  BY <1>5, <1>6, PartIs DEF Strings
<1>8. Len(t) = b - a - 1
  <2>1. a < b
    BY <1>2, <1>4
  <2>2. (IF a + 1 <= b - 1 THEN (b - 1) - (a + 1) + 1 ELSE 0) = b - a - 1
    BY <2>1
  <2> QED  BY <1>7, <2>2
<1>9. /\ \A j \in 1 .. b - a - 1 : a + 1 + j - 1 = a + j
      /\ (b - 1) - (a + 1) + 1 = b - a - 1
  OBVIOUS
<1>10. \A j \in 1 .. Len(t) : t[j] = s[a + j]
  BY <1>7, <1>8, <1>9
<1> QED  BY <1>3, <1>4, <1>7, <1>8, <1>10 DEF cuts, part, t, Strings

\* A string, its cuts and its parts.
CutInParts(s, c, cuts, parts, n) ==
    /\ Len(s) \in Nat /\ n \in Nat \ {0} /\ n = Len(parts)
    /\ cuts[1] = 0 /\ cuts[n + 1] = Len(s) + 1
    /\ \A i \in 1 .. n : /\ cuts[i] \in Nat /\ cuts[i + 1] \in Nat
                         /\ cuts[i] < cuts[i + 1] /\ cuts[i + 1] <= Len(s) + 1
    /\ \A i \in 2 .. n : cuts[i] \in 1 .. Len(s) /\ s[cuts[i]] = c
    /\ \A i \in 1 .. n, j \in 1 .. Len(s) : cuts[i] < j /\ j < cuts[i + 1] => s[j] # c
    /\ \A i \in 1 .. n : /\ parts[i] \in Seq(Nat)
                         /\ Len(parts[i]) = cuts[i + 1] - cuts[i] - 1
    /\ \A i \in 1 .. n : \A j \in 1 .. Len(parts[i]) : parts[i][j] = s[cuts[i] + j]

LEMMA SplitCuts ==
    ASSUME NEW s \in Strings, NEW c
    PROVE  CutInParts(s, c, Cuts(s, c), Split(s, c), Len(Split(s, c)))
<1>1. PICK cuts, n : cuts = Cuts(s, c) /\ n = Len(Split(s, c))
  OBVIOUS
<1>2. Len(s) \in Nat /\ n \in Nat \ {0} /\ n = Len(cuts) - 1 /\ Len(cuts) \in Nat
  BY <1>1, SplitIs, CutsAre DEF Strings
<1>3. n + 1 = Len(cuts)
  BY <1>2
<1>4. /\ cuts[1] = 0 /\ cuts[n + 1] = Len(s) + 1
      /\ \A i \in 2 .. n : cuts[i] \in 1 .. Len(s) /\ s[cuts[i]] = c
      /\ \A i \in 1 .. n, j \in 1 .. Len(s) : cuts[i] < j /\ j < cuts[i + 1] => s[j] # c
  <2>1. \A i \in 2 .. Len(cuts) - 1 : cuts[i] \in 1 .. Len(s) /\ s[cuts[i]] = c
    BY <1>1, CutsAre
  <2>2. \A i \in 1 .. Len(cuts) - 1, j \in 1 .. Len(s) : cuts[i] < j /\ j < cuts[i + 1] => s[j] # c
    BY <1>1, CutsAre
  <2>3. cuts[1] = 0 /\ cuts[Len(cuts)] = Len(s) + 1
    BY <1>1, CutsAre
  <2> QED  BY <1>2, <1>3, <2>1, <2>2, <2>3
<1>5. \A i \in 1 .. n : /\ cuts[i] \in Nat /\ cuts[i + 1] \in Nat
                        /\ cuts[i] < cuts[i + 1] /\ cuts[i + 1] <= Len(s) + 1
  <2> SUFFICES ASSUME NEW i \in 1 .. n
               PROVE  /\ cuts[i] \in Nat /\ cuts[i + 1] \in Nat
                      /\ cuts[i] < cuts[i + 1] /\ cuts[i + 1] <= Len(s) + 1
    OBVIOUS
  <2>1. i \in 1 .. Len(Cuts(s, c)) - 1
    BY <1>1, <1>2
  <2>2. cuts[i] \in 0 .. Len(s) + 1 /\ cuts[i + 1] \in 0 .. Len(s) + 1 /\ cuts[i] < cuts[i + 1]
    BY <1>1, <2>1, CutsOrdered
  <2> QED  BY <1>2, <2>2
<1>6. PICK parts : parts = Split(s, c)
  OBVIOUS
<1>7. ASSUME NEW i \in 1 .. n
      PROVE  /\ parts[i] \in Seq(Nat) /\ Len(parts[i]) = cuts[i + 1] - cuts[i] - 1
             /\ \A j \in 1 .. Len(parts[i]) : parts[i][j] = s[cuts[i] + j]
  <2>1. i \in 1 .. Len(Split(s, c))
    BY <1>1
  <2> QED  BY <1>1, <1>6, <2>1, PartOfSplit DEF Strings
<1> QED  BY <1>1, <1>2, <1>4, <1>5, <1>6, <1>7 DEF CutInParts

LEMMA Rejoin ==
    ASSUME NEW s \in Strings, NEW i \in 1 .. Len(s), NEW j \in i .. Len(s)
    PROVE  SubSeq(s, 1, i - 1) \o <<s[i]>> \o SubSeq(s, i + 1, j) = SubSeq(s, 1, j)
<1> DEFINE u == SubSeq(s, 1, i - 1)
           v == SubSeq(s, i + 1, j)
           w == SubSeq(s, 1, j)
<1>1. /\ Len(s) \in Nat /\ s \in Seq(Nat) /\ i - 1 \in 0 .. Len(s) /\ j \in 0 .. Len(s)
      /\ i + 1 \in 1 .. Len(s) + 1 /\ 1 \in 1 .. Len(s) + 1 /\ s[i] \in Nat /\ j \in Nat /\ i \in Nat
  BY DEF Strings
<1>2. u \in Seq(Nat) /\ Len(u) = i - 1 /\ \A x \in 1 .. i - 1 : u[x] = s[x]
  <2>1. /\ u \in Seq(Nat) /\ Len(u) = IF 1 <= i - 1 THEN i - 1 - 1 + 1 ELSE 0
        /\ \A x \in 1 .. i - 1 - 1 + 1 : u[x] = s[1 + x - 1]
    BY <1>1, PartIs
  <2>2. i - 1 - 1 + 1 = i - 1 /\ \A x \in 1 .. i - 1 : 1 + x - 1 = x
    BY <1>1
  <2> QED  BY <1>1, <2>1, <2>2
<1>3. v \in Seq(Nat) /\ Len(v) = j - i /\ \A x \in 1 .. j - i : v[x] = s[i + x]
  <2>1. /\ v \in Seq(Nat) /\ Len(v) = IF i + 1 <= j THEN j - (i + 1) + 1 ELSE 0
        /\ \A x \in 1 .. j - (i + 1) + 1 : v[x] = s[i + 1 + x - 1]
    BY <1>1, PartIs
  <2>2. j - (i + 1) + 1 = j - i /\ \A x \in 1 .. j - i : i + 1 + x - 1 = i + x
    BY <1>1
  <2> QED  BY <1>1, <2>1, <2>2
<1>4. w \in Seq(Nat) /\ Len(w) = j /\ \A x \in 1 .. j : w[x] = s[x]
  <2>1. /\ w \in Seq(Nat) /\ Len(w) = IF 1 <= j THEN j - 1 + 1 ELSE 0
        /\ \A x \in 1 .. j - 1 + 1 : w[x] = s[1 + x - 1]
    BY <1>1, PartIs
  <2>2. j - 1 + 1 = j /\ \A x \in 1 .. j : 1 + x - 1 = x
    BY <1>1
  <2> QED  BY <1>1, <2>1, <2>2
<1> HIDE DEF u, v, w
<1> DEFINE l == u \o <<s[i]>> \o v
<1>5. /\ l \in Seq(Nat) /\ Len(l) = Len(u) + 1 + Len(v)
      /\ \A x \in 1 .. Len(u) : l[x] = u[x]
      /\ l[Len(u) + 1] = s[i]
      /\ \A x \in Len(u) + 2 .. Len(u) + 1 + Len(v) : l[x] = v[x - Len(u) - 1]
  <2>1. PICK t : t = u \o <<s[i]>>
    OBVIOUS
  <2>2. t = Append(u, s[i])
    BY <1>1, <1>2, <2>1
  <2>3. /\ t \in Seq(Nat) /\ Len(t) = Len(u) + 1 /\ t[Len(u) + 1] = s[i]
        /\ \A x \in 1 .. Len(u) : t[x] = u[x]
    BY <1>1, <1>2, <2>2
  <2>4. l = t \o v
    BY <2>1
  <2>5. /\ t \o v \in Seq(Nat) /\ Len(t \o v) = Len(t) + Len(v)
        /\ \A x \in 1 .. Len(t) + Len(v) : (t \o v)[x] = IF x <= Len(t) THEN t[x] ELSE v[x - Len(t)]
    BY <1>3, <2>3, ConcatIs
  <2>6. Len(u) \in Nat /\ Len(v) \in Nat
    BY <1>2, <1>3
  <2>7. \A x \in Len(u) + 2 .. Len(u) + 1 + Len(v) :
           x \in 1 .. Len(t) + Len(v) /\ ~(x <= Len(t)) /\ x - Len(t) = x - Len(u) - 1
    BY <2>3, <2>6
  <2>8. \A x \in 1 .. Len(u) + 1 : x \in 1 .. Len(t) + Len(v) /\ x <= Len(t)
    BY <2>3, <2>6
  <2>9. Len(u) + 1 \in 1 .. Len(u) + 1 /\ \A x \in 1 .. Len(u) : x \in 1 .. Len(u) + 1
    BY <2>6
  <2> HIDE DEF l
  <2> QED  BY <2>3, <2>4, <2>5, <2>7, <2>8, <2>9
<1> HIDE DEF l
<1>6. Len(l) = j
  BY <1>1, <1>2, <1>3, <1>5
<1>7. ASSUME NEW x \in 1 .. j
      PROVE  l[x] = w[x]
  <2>1. CASE x \in 1 .. i - 1
    BY <1>2, <1>4, <1>5, <2>1
  <2>2. CASE x = i
    BY <1>1, <1>2, <1>4, <1>5, <2>2, SMTT(30)
  <2>3. CASE x > i
    <3>1. x \in Len(u) + 2 .. Len(u) + 1 + Len(v) /\ x - Len(u) - 1 = x - i
      BY <1>1, <1>2, <1>3, <2>3
    <3>2. x - i \in 1 .. j - i /\ i + (x - i) = x
      BY <1>1, <2>3
    <3> QED  BY <1>3, <1>4, <1>5, <3>1, <3>2
  <2> QED  BY <1>1, <2>1, <2>2, <2>3
<1>8. l = w
  BY <1>4, <1>5, <1>6, <1>7, SeqEqual
<1> QED  BY <1>8 DEF l, u, v, w

\* The first parts of a string, joined again, are all that comes before the next cut.
LEMMA JoinIs ==
    ASSUME NEW s \in Strings, NEW c, NEW parts \in Seq(Strings), NEW n \in 1 .. Len(parts),
           n <= Len(Split(s, c)), \A i \in 1 .. n : parts[i] = Split(s, c)[i]
    PROVE  /\ JoinFirst(parts, n, c, FALSE) = SubSeq(s, 1, Cuts(s, c)[n + 1] - 1)
           /\ JoinFirst(parts, n, c, TRUE) = SubSeq(s, 1, Cuts(s, c)[n + 1] - 1) \o <<c>>
<1> DEFINE cuts == Cuts(s, c)
           upTo[i \in 0 .. n] == IF i = 0 THEN <<>>
                                 ELSE upTo[i - 1] \o (IF i > 1 THEN <<c>> ELSE <<>>) \o parts[i]
           g == [i \in 0 .. n |-> IF i = 0 THEN <<>> ELSE SubSeq(s, 1, cuts[i + 1] - 1)]
<1>1. n \in Nat \ {0} /\ Len(s) \in Nat /\ s \in Seq(Nat)
  BY DEF Strings
<1> HIDE DEF upTo, g
<1>2. /\ \A i \in 1 .. n + 1 : cuts[i] \in 0 .. Len(s) + 1
      /\ cuts[1] = 0
      /\ \A i \in 1 .. n : cuts[i] < cuts[i + 1]
      /\ \A i \in 2 .. n : cuts[i] \in 1 .. Len(s) /\ s[cuts[i]] = c
  <2>1. /\ Len(cuts) \in Nat /\ n + 1 <= Len(cuts) /\ cuts[1] = 0
        /\ \A i \in 1 .. Len(cuts) : cuts[i] \in 0 .. Len(s) + 1
        /\ \A i, j \in 1 .. Len(cuts) : i < j => cuts[i] < cuts[j]
        /\ \A i \in 2 .. Len(cuts) - 1 : cuts[i] \in 1 .. Len(s) /\ s[cuts[i]] = c
    <3>1. Len(cuts) \in Nat /\ n <= Len(cuts) - 1
      BY CutsAre, SplitIs
    <3>2. n + 1 <= Len(cuts)
      BY <1>1, <3>1
    <3> QED  BY <3>1, <3>2, CutsAre DEF Increasing
  <2> HIDE DEF cuts
  <2>2. \A i \in 1 .. n : i \in 1 .. Len(cuts) /\ i + 1 \in 1 .. Len(cuts) /\ i < i + 1
    BY <1>1, <2>1
  <2>3. \A i \in 1 .. n + 1 : i \in 1 .. Len(cuts)
    BY <1>1, <2>1
  <2>4. \A i \in 2 .. n : i \in 2 .. Len(cuts) - 1
    BY <1>1, <2>1
  <2> QED  BY <2>1, <2>2, <2>3, <2>4
<1>3. \A i \in 1 .. n : /\ parts[i] = SubSeq(s, cuts[i] + 1, cuts[i + 1] - 1)
                        /\ parts[i] \in Seq(Nat)
  <2>1. n <= Len(Split(s, c)) /\ Len(Split(s, c)) \in Nat
    BY SplitIs
  <2>2. \A i \in 1 .. n : i \in 1 .. Len(Split(s, c))
    BY <1>1, <2>1
  <2>3. \A i \in 1 .. Len(Split(s, c)) :
           /\ Split(s, c)[i] \in Strings
           /\ Split(s, c)[i] = SubSeq(s, cuts[i] + 1, cuts[i + 1] - 1)
    <3> SUFFICES ASSUME NEW i \in 1 .. Len(Split(s, c))
                 PROVE  /\ Split(s, c)[i] \in Strings
                        /\ Split(s, c)[i] = SubSeq(s, Cuts(s, c)[i] + 1, Cuts(s, c)[i + 1] - 1)
      OBVIOUS
    <3> QED  BY PartOfSplit
  <2> QED  BY <2>2, <2>3 DEF Strings
<1> HIDE DEF cuts
<1>4. ASSUME NEW i \in 1 .. n
      PROVE  g[i] = g[i - 1] \o (IF i > 1 THEN <<c>> ELSE <<>>) \o parts[i]
  <2>1. i \in 0 .. n /\ i - 1 \in 0 .. n /\ i # 0 /\ g[i] = SubSeq(s, 1, cuts[i + 1] - 1)
    <3>1. i \in 0 .. n /\ i - 1 \in 0 .. n /\ i # 0
      BY <1>1
    <3> QED  BY <3>1 DEF g
  <2>2. CASE i = 1
    <3>1. g[i - 1] = <<>>
      BY <2>1, <2>2 DEF g
    <3>4. parts[i] = SubSeq(s, 1, cuts[2] - 1) /\ g[i] = SubSeq(s, 1, cuts[2] - 1)
      <4>1. cuts[1] + 1 = 1 /\ 1 + 1 = 2 /\ parts[1] = SubSeq(s, cuts[1] + 1, cuts[1 + 1] - 1)
        <5>1. 1 \in 1 .. n /\ cuts[1] = 0
          BY <1>1, <1>2
        <5>2. parts[1] = SubSeq(s, cuts[1] + 1, cuts[1 + 1] - 1)
          BY <1>3, <5>1
        <5>3. cuts[1] + 1 = 1 /\ 1 + 1 = 2
          BY <5>1
        <5> QED  BY <5>2, <5>3
      <4> QED  BY <2>1, <2>2, <4>1
    <3>2. (IF i > 1 THEN <<c>> ELSE <<>>) = <<>>
      BY <2>2
    <3>3. <<>> \o <<>> \o parts[i] = parts[i]
      BY <1>3
    <3> QED  BY <3>1, <3>2, <3>3, <3>4
  <2>3. CASE i > 1
    <3>1. /\ i \in 2 .. n /\ i - 1 # 0 /\ (i - 1) + 1 = i /\ i \in 1 .. n + 1 /\ i + 1 \in 1 .. n + 1
      BY <1>1, <2>3
    <3>2. /\ cuts[i] \in 1 .. Len(s) /\ s[cuts[i]] = c
          /\ cuts[i + 1] \in 0 .. Len(s) + 1 /\ cuts[i] < cuts[i + 1]
      BY <1>2, <3>1
    <3>3. cuts[i + 1] - 1 \in cuts[i] .. Len(s)
      BY <1>1, <3>2, SMTT(30)
    <3>4. SubSeq(s, 1, cuts[i] - 1) \o <<c>> \o SubSeq(s, cuts[i] + 1, cuts[i + 1] - 1)
             = SubSeq(s, 1, cuts[i + 1] - 1)
      BY <3>2, <3>3, Rejoin
    <3>5. g[i - 1] = SubSeq(s, 1, cuts[i] - 1)
      BY <2>1, <3>1 DEF g
    <3>6. (IF i > 1 THEN <<c>> ELSE <<>>) = <<c>>
      BY <2>3
    <3> QED  BY <1>3, <2>1, <3>4, <3>5, <3>6
  <2>4. i = 1 \/ i > 1
    OBVIOUS
  <2> QED  BY <2>2, <2>3, <2>4
<1>5. g = [i \in 0 .. n |-> IF i = 0 THEN <<>>
                            ELSE g[i - 1] \o (IF i > 1 THEN <<c>> ELSE <<>>) \o parts[i]]
  <2>1. ASSUME NEW i \in 0 .. n
        PROVE  g[i] = IF i = 0 THEN <<>>
                      ELSE g[i - 1] \o (IF i > 1 THEN <<c>> ELSE <<>>) \o parts[i]
    <3>1. CASE i = 0
      BY <3>1 DEF g
    <3>2. CASE i # 0
      <4>1. i \in 1 .. n
        BY <1>1, <3>2
      <4> QED  BY <1>4, <3>2, <4>1
    <3> QED  BY <3>1, <3>2
  <2>2. g = [i \in 0 .. n |-> g[i]]
    BY DEF g
  <2> QED  BY <2>1, <2>2
<1>6. upTo = [i \in 0 .. n |-> IF i = 0 THEN <<>>
                               ELSE upTo[i - 1] \o (IF i > 1 THEN <<c>> ELSE <<>>) \o parts[i]]
  BY <1>5 DEF upTo
<1>7. /\ JoinFirst(parts, n, c, FALSE) = upTo[n] \o <<>>
      /\ JoinFirst(parts, n, c, TRUE) = upTo[n] \o <<c>>
  BY DEF JoinFirst, upTo
<1> DEFINE T == {i \in Nat : i <= n => upTo[i] = g[i]}
<1>8. 0 \in T
  BY <1>1, <1>6 DEF g
<1>9. ASSUME NEW i \in Nat, i \in T
      PROVE  i + 1 \in T
  <2> SUFFICES ASSUME i + 1 <= n
               PROVE  upTo[i + 1] = g[i + 1]
    OBVIOUS
  <2>1. i + 1 \in 1 .. n /\ (i + 1) - 1 = i /\ i + 1 # 0 /\ i + 1 \in 0 .. n
    BY <1>1
  <2>2. upTo[i] = g[i]
    BY <1>1, <1>9
  <2>3. g[i + 1] = g[i] \o (IF i + 1 > 1 THEN <<c>> ELSE <<>>) \o parts[i + 1]
    BY <1>4, <2>1
  <2> QED  BY <1>6, <2>1, <2>2, <2>3
<1> HIDE DEF T
<1>10. n \in T
  BY <1>1, <1>8, <1>9, Induction
<1>11. upTo[n] = SubSeq(s, 1, cuts[n + 1] - 1)
  BY <1>1, <1>10 DEF T, g
<1>12. SubSeq(s, 1, cuts[n + 1] - 1) \in Seq(Nat)
  <2>1. n + 1 \in 1 .. n + 1 /\ n \in 1 .. n + 1 /\ n \in 1 .. n
    BY <1>1
  <2>2. cuts[n + 1] \in 0 .. Len(s) + 1 /\ cuts[n] \in 0 .. Len(s) + 1 /\ cuts[n] < cuts[n + 1]
    BY <1>2, <2>1
  <2>3. cuts[n + 1] - 1 \in 0 .. Len(s) /\ 1 \in 1 .. Len(s) + 1
    BY <1>1, <2>2
  <2> QED  BY <1>1, <2>3, PartIs
<1>13. SubSeq(s, 1, cuts[n + 1] - 1) \o <<>> = SubSeq(s, 1, cuts[n + 1] - 1)
  BY <1>12, ConcatIs
<1> QED  BY <1>7, <1>11, <1>13 DEF cuts

-----------------------------------------------------------------------------
(* A prefix, part by part.                                                 *)

PartsMatch(p, k, c) ==
    /\ Len(Split(k, c)) >= Len(Split(p, c))
    /\ \A i \in 1 .. Len(Split(p, c)) - 1 : Split(k, c)[i] = Split(p, c)[i]
    /\ IsPrefix(Split(p, c)[Len(Split(p, c))], Split(k, c)[Len(Split(p, c))])

\* The parts of the prefix end where those of the key do, but for the last.
SameCuts(p, k, c) ==
    /\ Len(Split(k, c)) >= Len(Split(p, c))
    /\ \A i \in 1 .. Len(Split(p, c)) : Cuts(k, c)[i] = Cuts(p, c)[i]

LEMMA PrefixHasCuts ==
    ASSUME NEW p \in Strings, NEW k \in Strings, NEW c, IsPrefix(p, k)
    PROVE  SameCuts(p, k, c)
<1>1. Len(p) \in Nat /\ Len(k) \in Nat /\ Len(p) <= Len(k) /\ \A i \in 1 .. Len(p) : p[i] = k[i]
  BY PrefixIs DEF Strings
<1>a. PICK P, pp, n : P = Cuts(p, c) /\ pp = Split(p, c) /\ n = Len(Split(p, c))
  OBVIOUS
<1>b. PICK K, kk, m : K = Cuts(k, c) /\ kk = Split(k, c) /\ m = Len(Split(k, c))
  OBVIOUS
<1>c. CutInParts(p, c, P, pp, n) /\ CutInParts(k, c, K, kk, m)
  BY <1>a, <1>b, SplitCuts
<1>2. /\ n \in Nat \ {0} /\ m \in Nat \ {0} /\ P[1] = 0 /\ K[1] = 0 /\ K[m + 1] = Len(k) + 1
  BY <1>c DEF CutInParts
<1>3. /\ \A i \in 2 .. n : P[i] \in 1 .. Len(p) /\ p[P[i]] = c
      /\ \A i \in 1 .. n, j \in 1 .. Len(p) : P[i] < j /\ j < P[i + 1] => p[j] # c
  BY <1>c DEF CutInParts
<1>4. /\ \A i \in 2 .. m : K[i] \in 1 .. Len(k) /\ k[K[i]] = c
      /\ \A i \in 1 .. m, j \in 1 .. Len(k) : K[i] < j /\ j < K[i + 1] => k[j] # c
  BY <1>c DEF CutInParts
<1>5. \A i \in 1 .. n : P[i] < P[i + 1] /\ P[i] \in Nat /\ P[i + 1] \in Nat
  BY <1>c DEF CutInParts
<1>6. \A i \in 1 .. m : K[i] < K[i + 1] /\ K[i] \in Nat /\ K[i + 1] \in Nat
  BY <1>c DEF CutInParts
<1> DEFINE T == {i \in Nat : i \in 1 .. n => i <= m /\ K[i] = P[i]}
<1>7. 0 \in T
  OBVIOUS
<1>8. ASSUME NEW i \in Nat, i \in T
      PROVE  i + 1 \in T
  <2> SUFFICES ASSUME i + 1 \in 1 .. n
               PROVE  i + 1 <= m /\ K[i + 1] = P[i + 1]
    OBVIOUS
  <2>1. CASE i = 0
    BY <1>2, <2>1
  <2>2. CASE i > 0
    <3>1. i \in 1 .. n /\ i <= m /\ K[i] = P[i] /\ i + 1 \in 2 .. n /\ i \in 1 .. m
      BY <1>2, <1>8, <2>2
    <3> DEFINE x == P[i + 1]
               y == K[i + 1]
    <3>2. x \in 1 .. Len(p) /\ p[x] = c /\ x \in 1 .. Len(k) /\ k[x] = c /\ P[i] < x
      <4>1. x \in 1 .. Len(p) /\ p[x] = c /\ P[i] < x
        BY <1>3, <1>5, <3>1
      <4>2. x \in 1 .. Len(k)
        BY <1>1, <4>1
      <4> HIDE DEF x
      <4> QED  BY <1>1, <4>1, <4>2
    <3>3. y \in Nat /\ K[i] < y
      BY <1>6, <3>1
    <3>4. ~(x < y)
      BY <1>4, <3>1, <3>2
    <3>5. y <= x /\ y <= Len(p) /\ y <= Len(k)
      BY <1>1, <3>2, <3>3, <3>4
    <3>6. i + 1 # m + 1
      BY <1>1, <1>2, <3>3, <3>5
    <3>7. i + 1 \in 2 .. m /\ i + 1 <= m
      BY <1>2, <3>1, <3>6
    <3>8. y \in 1 .. Len(k) /\ k[y] = c
      BY <1>4, <3>7
    <3>9. y \in 1 .. Len(p)
      BY <1>1, <3>3, <3>5, <3>8
    <3>10. p[y] = c
      BY <1>1, <3>8, <3>9
    <3>11. ~(y < x)
      BY <1>3, <3>1, <3>3, <3>9, <3>10
    <3>12. y = x
      BY <3>2, <3>3, <3>4, <3>11
    <3> QED  BY <3>7, <3>12
  <2> QED  BY <2>1, <2>2
<1> HIDE DEF T
<1>9. Nat \subseteq T
  BY <1>7, <1>8, Induction
<1>10. \A i \in 1 .. n : i <= m /\ K[i] = P[i]
  BY <1>2, <1>9 DEF T
<1>11. n \in 1 .. n /\ n <= m
  BY <1>2, <1>10
<1> QED  BY <1>2, <1>10, <1>11, <1>a, <1>b DEF SameCuts

\* The first cut of the key past the prefix, and what lies between.
LEMMA CutPastPrefix ==
    ASSUME NEW p \in Strings, NEW k \in Strings, NEW c, IsPrefix(p, k),
           NEW cut, cut = Cuts(k, c)[Len(Split(p, c)) + 1]
    PROVE  /\ cut \in Len(p) + 1 .. Len(k) + 1
           /\ \A i \in Len(p) + 1 .. cut - 1 : k[i] # c
           /\ IF Len(Split(k, c)) = Len(Split(p, c)) THEN cut = Len(k) + 1
              ELSE cut \in 1 .. Len(k) /\ k[cut] = c
<1>1. Len(p) \in Nat /\ Len(k) \in Nat /\ Len(p) <= Len(k) /\ \A i \in 1 .. Len(p) : p[i] = k[i]
  BY PrefixIs DEF Strings
<1>a. PICK P, pp, n : P = Cuts(p, c) /\ pp = Split(p, c) /\ n = Len(Split(p, c))
  OBVIOUS
<1>b. PICK K, kk, m : K = Cuts(k, c) /\ kk = Split(k, c) /\ m = Len(Split(k, c))
  OBVIOUS
<1>c. CutInParts(p, c, P, pp, n) /\ CutInParts(k, c, K, kk, m)
  BY <1>a, <1>b, SplitCuts
<1>d. PICK y : y = K[n + 1]
  OBVIOUS
<1>2. n \in Nat \ {0} /\ m \in Nat \ {0} /\ n <= m /\ K[n] = P[n] /\ n \in 1 .. n /\ n \in 1 .. m
  <2>1. n \in Nat \ {0} /\ m \in Nat \ {0}
    BY <1>c DEF CutInParts
  <2>2. m >= n /\ \A i \in 1 .. n : K[i] = P[i]
    BY <1>a, <1>b, PrefixHasCuts DEF SameCuts
  <2> QED  BY <2>1, <2>2
<1>3. /\ P[n + 1] = Len(p) + 1 /\ K[m + 1] = Len(k) + 1
      /\ \A i \in 1 .. n, j \in 1 .. Len(p) : P[i] < j /\ j < P[i + 1] => p[j] # c
  BY <1>c DEF CutInParts
<1>4. /\ \A i \in 2 .. m : K[i] \in 1 .. Len(k) /\ k[K[i]] = c
      /\ \A i \in 1 .. m, j \in 1 .. Len(k) : K[i] < j /\ j < K[i + 1] => k[j] # c
  BY <1>c DEF CutInParts
<1>5. P[n] < P[n + 1] /\ P[n] \in Nat /\ P[n + 1] \in Nat
  BY <1>2, <1>c DEF CutInParts
<1>6. K[n] < y /\ y \in 0 .. Len(k) + 1
  <2>1. K[n] < K[n + 1] /\ K[n + 1] \in Nat /\ K[n + 1] <= Len(k) + 1
    BY <1>2, <1>c DEF CutInParts
  <2> QED  BY <1>1, <1>d, <2>1
<1>8. CASE n = m
  <2>2. y = Len(k) + 1
    BY <1>3, <1>8, <1>d
  <2>3. \A i \in Len(p) + 1 .. y - 1 : i \in 1 .. Len(k) /\ K[n] < i /\ i < K[n + 1]
    BY <1>1, <1>2, <1>3, <1>5, <1>6, <1>d, <2>2
  <2>4. \A i \in Len(p) + 1 .. y - 1 : k[i] # c
    BY <1>2, <1>4, <2>3
  <2>5. y \in Len(p) + 1 .. Len(k) + 1
    BY <1>1, <2>2
  <2> QED  BY <1>8, <2>2, <2>4, <2>5, <1>a, <1>b, <1>d
<1>9. CASE n # m
  <2>1. n + 1 \in 2 .. m
    BY <1>2, <1>9
  <2>2. y \in 1 .. Len(k) /\ k[y] = c
    BY <1>4, <1>d, <2>1
  <2>3. ~(y <= Len(p))
    <3> SUFFICES ASSUME y <= Len(p)
                 PROVE  FALSE
      OBVIOUS
    <3>1. y \in 1 .. Len(p) /\ P[n] < y /\ y < P[n + 1]
      BY <1>1, <1>2, <1>3, <1>6, <1>d, <2>2
    <3>2. p[y] # c
      BY <1>2, <1>3, <3>1
    <3> QED  BY <1>1, <2>2, <3>1, <3>2
  <2>4. y \in Len(p) + 1 .. Len(k) + 1
    BY <1>1, <2>2, <2>3
  <2>5. \A i \in Len(p) + 1 .. y - 1 : i \in 1 .. Len(k) /\ K[n] < i /\ i < K[n + 1]
    BY <1>1, <1>2, <1>3, <1>5, <1>6, <1>d, <2>2
  <2>6. \A i \in Len(p) + 1 .. y - 1 : k[i] # c
    BY <1>2, <1>4, <2>5
  <2> QED  BY <1>9, <2>2, <2>4, <2>6, <1>a, <1>b, <1>d
<1> QED  BY <1>8, <1>9

LEMMA PrefixByParts ==
    ASSUME NEW p \in Strings, NEW k \in Strings, NEW c
    PROVE  IsPrefix(p, k) <=> PartsMatch(p, k, c)
<1>a. PICK P, pp, n : P = Cuts(p, c) /\ pp = Split(p, c) /\ n = Len(Split(p, c))
  OBVIOUS
<1>b. PICK K, kk, m : K = Cuts(k, c) /\ kk = Split(k, c) /\ m = Len(Split(k, c))
  OBVIOUS
<1>c. CutInParts(p, c, P, pp, n) /\ CutInParts(k, c, K, kk, m)
  BY <1>a, <1>b, SplitCuts
<1>1. Len(p) \in Nat /\ Len(k) \in Nat /\ n \in Nat \ {0} /\ m \in Nat \ {0}
  BY <1>c DEF CutInParts
<1>2. /\ P[1] = 0 /\ P[n + 1] = Len(p) + 1 /\ K[1] = 0
      /\ \A i \in 2 .. n : P[i] \in 1 .. Len(p) /\ p[P[i]] = c
      /\ \A i \in 2 .. m : K[i] \in 1 .. Len(k) /\ k[K[i]] = c
  BY <1>c DEF CutInParts
<1>3. \A i \in 1 .. n :
         /\ pp[i] \in Seq(Nat) /\ P[i] \in Nat /\ P[i + 1] \in Nat
         /\ P[i] < P[i + 1] /\ P[i + 1] <= Len(p) + 1
         /\ Len(pp[i]) = P[i + 1] - P[i] - 1
  BY <1>c DEF CutInParts
<1>e. \A i \in 1 .. n : \A j \in 1 .. Len(pp[i]) : pp[i][j] = p[P[i] + j]
  BY <1>c DEF CutInParts
<1>4. \A i \in 1 .. m :
         /\ kk[i] \in Seq(Nat) /\ K[i] \in Nat /\ K[i + 1] \in Nat
         /\ K[i] < K[i + 1] /\ K[i + 1] <= Len(k) + 1
         /\ Len(kk[i]) = K[i + 1] - K[i] - 1
  BY <1>c DEF CutInParts
<1>f. \A i \in 1 .. m : \A j \in 1 .. Len(kk[i]) : kk[i][j] = k[K[i] + j]
  BY <1>c DEF CutInParts
<1>5. ASSUME IsPrefix(p, k)
      PROVE  PartsMatch(p, k, c)
  <2>1. Len(p) <= Len(k) /\ \A i \in 1 .. Len(p) : p[i] = k[i]
    BY <1>5, PrefixIs DEF Strings
  <2>2. m >= n /\ \A i \in 1 .. n : K[i] = P[i]
    BY <1>5, <1>a, <1>b, PrefixHasCuts DEF SameCuts
  <2>3. K[n + 1] \in Nat /\ K[n + 1] >= Len(p) + 1
    <3>1. K[n + 1] \in Len(p) + 1 .. Len(k) + 1
      BY <1>5, <1>a, <1>b, CutPastPrefix
    <3> QED  BY <1>1, <3>1
  <2>4. ASSUME NEW i \in 1 .. n - 1
        PROVE  kk[i] = pp[i]
    <3>1. i \in 1 .. n /\ i \in 1 .. m /\ i + 1 \in 1 .. n /\ i + 1 \in 2 .. n
      BY <1>1, <2>2
    <3>2. K[i] = P[i] /\ K[i + 1] = P[i + 1] /\ P[i + 1] \in 1 .. Len(p)
      BY <1>2, <2>2, <3>1
    <3>3. Len(kk[i]) = Len(pp[i]) /\ kk[i] \in Seq(Nat) /\ pp[i] \in Seq(Nat)
      BY <1>3, <1>4, <3>1, <3>2 DEF Strings
    <3>4. ASSUME NEW j \in 1 .. Len(pp[i])
          PROVE  kk[i][j] = pp[i][j]
      <4>1. P[i] + j \in 1 .. Len(p)
        <5>1. PICK x \in Nat, y \in Nat : x = P[i] /\ y = P[i + 1] /\ Len(pp[i]) = y - x - 1
          BY <1>3, <3>1
        <5>2. y <= Len(p) /\ j \in 1 .. y - x - 1
          BY <3>2, <5>1
        <5>3. x + j \in 1 .. Len(p)
          BY <1>1, <5>2
        <5> QED  BY <5>1, <5>3
      <4>2. pp[i][j] = p[P[i] + j]
        BY <1>e, <3>1
      <4>3. kk[i][j] = k[K[i] + j]
        BY <1>f, <3>1, <3>3
      <4> QED  BY <2>1, <3>2, <4>1, <4>2, <4>3
    <3> QED  BY <3>3, <3>4, SeqEqual
  <2>5. IsPrefix(pp[n], kk[n])
    <3>1. n \in 1 .. n /\ n \in 1 .. m
      BY <1>1, <2>2
    <3>2. K[n] = P[n] /\ P[n + 1] = Len(p) + 1
      BY <1>2, <2>2, <3>1
    <3>3. Len(pp[n]) <= Len(kk[n]) /\ kk[n] \in Seq(Nat) /\ pp[n] \in Seq(Nat)
      BY <1>1, <1>3, <1>4, <2>3, <3>1, <3>2 DEF Strings
    <3>4. ASSUME NEW j \in 1 .. Len(pp[n])
          PROVE  pp[n][j] = kk[n][j]
      <4>1. P[n] + j \in 1 .. Len(p) /\ j \in 1 .. Len(kk[n])
        <5>1. PICK x \in Nat : x = P[n] /\ Len(pp[n]) = (Len(p) + 1) - x - 1
          BY <1>3, <3>1, <3>2
        <5>4. Len(pp[n]) \in Nat
          BY <3>3
        <5>5. PICK z \in Nat : z = Len(pp[n])
          BY <5>4
        <5>2. x + j \in 1 .. Len(p) /\ Len(pp[n]) \in Nat
          BY <1>1, <5>1, <5>5
        <5>3. Len(kk[n]) \in Nat
          BY <3>3
        <5> QED  BY <3>3, <5>1, <5>2, <5>3
      <4>2. pp[n][j] = p[P[n] + j]
        BY <1>e, <3>1
      <4>3. kk[n][j] = k[K[n] + j]
        BY <1>f, <3>1, <4>1
      <4> QED  BY <2>1, <3>2, <4>1, <4>2, <4>3
    <3> QED  BY <3>3, <3>4, PrefixIs
  <2> QED  BY <2>2, <2>4, <2>5, <1>a, <1>b DEF PartsMatch
<1>6. ASSUME PartsMatch(p, k, c)
      PROVE  IsPrefix(p, k)
  <2>1. m >= n /\ (\A i \in 1 .. n - 1 : kk[i] = pp[i]) /\ IsPrefix(pp[n], kk[n])
    BY <1>6, <1>a, <1>b DEF PartsMatch
  <2> DEFINE T == {i \in Nat : i \in 1 .. n =>
                      K[i] = P[i] /\ \A j \in 1 .. P[i] : p[j] = k[j]}
  <2>2. 0 \in T
    OBVIOUS
  <2>3. ASSUME NEW i \in Nat, i \in T
        PROVE  i + 1 \in T
    <3> SUFFICES ASSUME i + 1 \in 1 .. n
                 PROVE  K[i + 1] = P[i + 1] /\ \A j \in 1 .. P[i + 1] : p[j] = k[j]
      OBVIOUS
    <3>1. CASE i = 0
      BY <1>2, <3>1
    <3>2. CASE i > 0
      <4>1. /\ i \in 1 .. n /\ i \in 1 .. m /\ i + 1 \in 2 .. n /\ i + 1 \in 2 .. m
            /\ i \in 1 .. n - 1
        BY <1>1, <2>1, <3>2
      <4>2. K[i] = P[i] /\ (\A j \in 1 .. P[i] : p[j] = k[j]) /\ kk[i] = pp[i]
        BY <2>1, <2>3, <4>1
      <4>3. K[i + 1] = P[i + 1]
        BY <1>3, <1>4, <4>1, <4>2, SMTT(30)
      <4>4. ASSUME NEW j \in 1 .. P[i + 1]
            PROVE  p[j] = k[j]
        <5>1. P[i] \in Nat /\ P[i + 1] \in Nat /\ Len(pp[i]) = P[i + 1] - P[i] - 1
          BY <1>3, <4>1
        <5>2. j <= P[i] \/ j = P[i + 1] \/ (j - P[i] \in 1 .. Len(pp[i]) /\ P[i] + (j - P[i]) = j)
          BY <5>1
        <5>3. CASE j <= P[i]
          BY <4>2, <5>1, <5>3
        <5>4. CASE j = P[i + 1]
          BY <1>2, <4>1, <4>3, <5>4
        <5>5. CASE j - P[i] \in 1 .. Len(pp[i]) /\ P[i] + (j - P[i]) = j
          <6>1. pp[i][j - P[i]] = p[j]
            BY <1>e, <4>1, <5>5
          <6>2. kk[i][j - P[i]] = k[j]
            BY <1>f, <4>1, <4>2, <5>5
          <6> QED  BY <4>2, <6>1, <6>2
        <5> QED  BY <5>2, <5>3, <5>4, <5>5
      <4> QED  BY <4>3, <4>4
    <3> QED  BY <3>1, <3>2
  <2> HIDE DEF T
  <2>4. n \in T
    BY <1>1, <2>2, <2>3, Induction
  <2>5. n \in 1 .. n /\ n \in 1 .. m
    BY <1>1, <2>1
  <2>6. K[n] = P[n] /\ \A j \in 1 .. P[n] : p[j] = k[j]
    BY <2>4, <2>5 DEF T
  <2>7. /\ Len(pp[n]) <= Len(kk[n]) /\ Len(pp[n]) \in Nat /\ Len(kk[n]) \in Nat
        /\ \A j \in 1 .. Len(pp[n]) : pp[n][j] = kk[n][j]
    <3>1. pp[n] \in Seq(Nat) /\ kk[n] \in Seq(Nat)
      BY <1>3, <1>4, <2>5
    <3>2. Len(pp[n]) \in Nat /\ Len(kk[n]) \in Nat
      BY <3>1
    <3> QED  BY <2>1, <3>1, <3>2, PrefixIs
  <2>8. /\ P[n] \in Nat /\ K[n + 1] \in Nat /\ Len(pp[n]) = Len(p) - P[n]
        /\ Len(kk[n]) = K[n + 1] - K[n] - 1 /\ K[n + 1] <= Len(k) + 1
    <3>1. P[n] \in Nat /\ Len(pp[n]) = (Len(p) + 1) - P[n] - 1
      BY <1>2, <1>3, <2>5
    <3>2. (Len(p) + 1) - P[n] - 1 = Len(p) - P[n]
      BY <1>1, <3>1
    <3> QED  BY <1>4, <2>5, <3>1, <3>2
  <2>9. Len(p) <= Len(k)
    BY <1>1, <2>6, <2>7, <2>8, SMTT(30)
  <2>10. ASSUME NEW j \in 1 .. Len(p)
         PROVE  p[j] = k[j]
    <3>1. j <= P[n] \/ (j - P[n] \in 1 .. Len(pp[n]) /\ P[n] + (j - P[n]) = j)
      BY <1>1, <2>8
    <3>2. CASE j <= P[n]
      BY <2>6, <2>8, <3>2
    <3>3. CASE j - P[n] \in 1 .. Len(pp[n]) /\ P[n] + (j - P[n]) = j
      <4>1. pp[n][j - P[n]] = p[j]
        BY <1>e, <2>5, <3>3
      <4>2. j - P[n] \in 1 .. Len(kk[n])
        BY <2>7, <3>3
      <4>3. kk[n][j - P[n]] = k[j]
        BY <1>f, <2>5, <2>6, <3>3, <4>2
      <4> QED  BY <2>7, <3>3, <4>1, <4>3
    <3> QED  BY <3>1, <3>2, <3>3
  <2> QED  BY <2>9, <2>10, PrefixIs DEF Strings
<1> QED  BY <1>5, <1>6

-----------------------------------------------------------------------------
(* Prefix.Match.                                                           *)

LEMMA TrimLeftIs ==
    ASSUME NEW s \in Strings, NEW c, s = <<>> \/ Head(s) # c
    PROVE  TrimLeft(s, c) = s
<1> DEFINE others == {i \in 1 .. Len(s) : s[i] # c}
<1>1. CASE s = <<>>
  <2>1. others = {}
    BY <1>1
  <2> QED  BY <1>1, <2>1 DEF TrimLeft
<1>2. CASE s # <<>>
  <2>1. 1 \in others /\ \A j \in others : 1 <= j
    BY <1>2 DEF Strings
  <2>2. \A i \in others : (\A j \in others : i <= j) => i = 1
    BY <2>1
  <2>3. (CHOOSE i \in others : \A j \in others : i <= j) = 1
    <3> HIDE DEF others
    <3> QED  BY <2>1, <2>2
  <2>4. SubSeq(s, 1, Len(s)) = s
    BY DEF Strings
  <2> QED  BY <2>1, <2>3, <2>4 DEF TrimLeft
<1> QED  BY <1>1, <1>2

\* What a part of the key under the prefix is joined to, with the delimiter after it.
LEMMA JoinedToCut ==
    ASSUME NEW k \in Strings, NEW c, NEW parts \in Seq(Strings), NEW n \in 1 .. Len(parts),
           n <= Len(Split(k, c)), \A i \in 1 .. n : parts[i] = Split(k, c)[i],
           Cuts(k, c)[n + 1] \in 1 .. Len(k), k[Cuts(k, c)[n + 1]] = c
    PROVE  JoinFirst(parts, n, c, TRUE) = SubSeq(k, 1, Cuts(k, c)[n + 1])
<1>0. PICK cut : cut = Cuts(k, c)[n + 1]
  OBVIOUS
<1>a. cut \in 1 .. Len(k) /\ k[cut] = c
  BY <1>0
<1>1. JoinFirst(parts, n, c, TRUE) = SubSeq(k, 1, cut - 1) \o <<c>>
  BY <1>0, JoinIs
<1>2. SubSeq(k, 1, cut - 1) \o <<k[cut]>> \o SubSeq(k, cut + 1, cut) = SubSeq(k, 1, cut)
  <2>1. cut \in cut .. Len(k)
    BY <1>a DEF Strings
  <2> QED  BY <1>a, <2>1, Rejoin
<1>3. Len(k) \in Nat /\ k \in Seq(Nat) /\ c \in Nat /\ cut - 1 \in 0 .. Len(k) /\ 1 \in 1 .. Len(k) + 1
      /\ cut + 1 \in 1 .. Len(k) + 1 /\ cut \in 0 .. Len(k) /\ ~(cut + 1 <= cut)
  <2>1. Len(k) \in Nat /\ k \in Seq(Nat)
    BY DEF Strings
  <2>2. c \in Nat
    BY <1>a, <2>1
  <2>3. cut \in Nat /\ 1 <= cut /\ cut <= Len(k)
    BY <1>a, <2>1
  <2> QED  BY <2>1, <2>2, <2>3
<1>4. SubSeq(k, cut + 1, cut) = <<>>
  <2>1. SubSeq(k, cut + 1, cut) \in Seq(Nat) /\ Len(SubSeq(k, cut + 1, cut)) = 0
    BY <1>3, PartIs
  <2>2. \A t \in Seq(Nat) : Len(t) = 0 => t = <<>>
    OBVIOUS
  <2> QED  BY <2>1, <2>2
<1>5. SubSeq(k, 1, cut - 1) \o <<c>> \in Seq(Nat)
  <2>1. SubSeq(k, 1, cut - 1) \in Seq(Nat)
    BY <1>3, PartIs
  <2>2. <<c>> \in Seq(Nat)
    BY <1>3
  <2> QED  BY <2>1, <2>2, ConcatIs
<1>6. SubSeq(k, 1, cut - 1) \o <<c>> \o <<>> = SubSeq(k, 1, cut - 1) \o <<c>>
  BY <1>5
<1> QED  BY <1>0, <1>a, <1>1, <1>2, <1>4, <1>6

\* Regular keys and prefixes, whatever the delimiter: the matching of parts finds
\* the first delimiter past the prefix.
LEMMA MatchPartsIs ==
    ASSUME NEW p \in Strings, NEW k \in Strings, NEW c,
           p = <<>> \/ Head(p) # c, k = <<>> \/ Head(k) # c,
           Len(k) > Len(p) => Last(k) # c
    PROVE  IF ~IsPrefix(p, k) THEN MatchParts(p, k, c) = NoMatch
           ELSE LET cut == Cuts(k, c)[Len(Split(p, c)) + 1] IN
                IF Len(Split(k, c)) = Len(Split(p, c)) THEN MatchParts(p, k, c) = Content
                ELSE MatchParts(p, k, c) = CommonPrefix(SubSeq(k, 1, cut))
<1>1. PICK pp, kk, n, m, K : /\ pp = Split(p, c) /\ kk = Split(k, c) /\ n = Len(pp) /\ m = Len(kk)
                             /\ K = Cuts(k, c)
  OBVIOUS
<1>2. TrimLeft(p, c) = p /\ TrimLeft(k, c) = k
  BY TrimLeftIs
<1>3. /\ pp \in Seq(Strings) /\ n \in Nat \ {0} /\ kk \in Seq(Strings) /\ m \in Nat \ {0}
  BY <1>1, SplitIs
<1>4. IsPrefix(p, k) <=> /\ m >= n
                         /\ \A i \in 1 .. n - 1 : kk[i] = pp[i]
                         /\ IsPrefix(pp[n], kk[n])
  BY <1>1, PrefixByParts DEF PartsMatch
<1> DEFINE out == JoinFirst(kk, n, c, m # n)
<1>5. MatchParts(p, k, c) = IF IsPrefix(p, k)
                            THEN IF out = k THEN Content ELSE CommonPrefix(out)
                            ELSE NoMatch
  BY <1>1, <1>2, <1>4 DEF MatchParts
<1>6. CASE ~IsPrefix(p, k)
  BY <1>5, <1>6
<1>7. CASE IsPrefix(p, k)
  <2>1. n <= m /\ n \in 1 .. Len(kk) /\ Len(k) \in Nat /\ Len(p) \in Nat
    BY <1>1, <1>3, <1>4, <1>7 DEF Strings
  <2>2. PICK cut : cut = K[n + 1]
    OBVIOUS
  <2>3. /\ cut \in Len(p) + 1 .. Len(k) + 1
        /\ IF m = n THEN cut = Len(k) + 1 ELSE cut \in 1 .. Len(k) /\ k[cut] = c
    BY <1>1, <1>7, <2>2, CutPastPrefix
  <2>4. CASE m = n
    <3>1. out = JoinFirst(kk, n, c, FALSE)
      BY <2>4
    <3>2. JoinFirst(kk, n, c, FALSE) = SubSeq(k, 1, cut - 1)
      <4>1. /\ k \in Strings /\ kk \in Seq(Strings) /\ n \in 1 .. Len(kk)
            /\ n <= Len(Split(k, c)) /\ \A i \in 1 .. n : kk[i] = Split(k, c)[i]
        BY <1>1, <1>3, <2>1
      <4>2. JoinFirst(kk, n, c, FALSE) = SubSeq(k, 1, Cuts(k, c)[n + 1] - 1)
        BY <4>1, JoinIs
      <4> QED  BY <1>1, <2>2, <4>2
    <3>3. cut - 1 = Len(k)
      BY <2>1, <2>3, <2>4
    <3>4. SubSeq(k, 1, Len(k)) = k
      BY DEF Strings
    <3> HIDE DEF out
    <3>5. out = k
      BY <3>1, <3>2, <3>3, <3>4
    <3> QED  BY <1>1, <1>5, <1>7, <2>4, <3>5
  <2>5. CASE m # n
    <3>1. out = JoinFirst(kk, n, c, TRUE)
      BY <2>5
    <3>2. cut \in 1 .. Len(k) /\ k[cut] = c /\ cut > Len(p)
      BY <2>1, <2>3, <2>5
    <3>3. JoinFirst(kk, n, c, TRUE) = SubSeq(k, 1, cut)
      <4>1. kk \in Seq(Strings) /\ n <= Len(Split(k, c)) /\ \A i \in 1 .. n : kk[i] = Split(k, c)[i]
        BY <1>1, <1>3, <2>1
      <4>2. cut = Cuts(k, c)[n + 1]
        BY <1>1, <2>2
      <4>3. n \in 1 .. Len(kk) /\ Cuts(k, c)[n + 1] \in 1 .. Len(k) /\ k[Cuts(k, c)[n + 1]] = c
        BY <2>1, <3>2, <4>2
      <4>4. JoinFirst(kk, n, c, TRUE) = SubSeq(k, 1, Cuts(k, c)[n + 1])
        BY <4>1, <4>3, JoinedToCut
      <4> QED  BY <4>2, <4>4
    <3> HIDE DEF out
    <3>4. SubSeq(k, 1, cut) # k
      <4>1. Len(SubSeq(k, 1, cut)) = cut
        BY <3>2, PartIs DEF Strings
      <4>2. cut # Len(k)
        BY <2>1, <3>2 DEF Last
      <4> QED  BY <4>1, <4>2
    <3> QED  BY <1>1, <1>5, <1>7, <2>2, <2>5, <3>1, <3>3, <3>4
  <2> QED  BY <2>4, <2>5
<1> QED  BY <1>6, <1>7

-----------------------------------------------------------------------------
(* What S3 names, by parts.                                                *)

LEMMA RequestIs ==
    ASSUME request \in Requests
    PROVE  /\ request.prefix \in Queries /\ request.prefix \in Strings
           /\ request.delimiter \in Delimiters
           /\ request.delimiter = NoDelimiter \/ request.delimiter \in Nat
           /\ request.limit \in Nat
<1>1. Queries \subseteq Strings /\ Delimiters \subseteq Nat \cup {NoDelimiter} /\ MaxLimit \in Nat
  BY BucketListingAssumption DEF Strings
<1>2. request.prefix \in Queries /\ request.delimiter \in Delimiters /\ request.limit \in 0 .. MaxLimit
  BY DEF Requests
<1>3. request.limit \in Nat
  BY <1>1, <1>2
<1>4. request.delimiter = NoDelimiter \/ request.delimiter \in Nat
  BY <1>1, <1>2
<1>5. request.prefix \in Strings
  BY <1>1, <1>2
<1> QED  BY <1>2, <1>3, <1>4, <1>5

LEMMA KindsAre ==
    /\ NoMatch # Content /\ NoMatch.is # "common" /\ Content.is # "common"
    /\ \A x : /\ CommonPrefix(x) # NoMatch /\ CommonPrefix(x) # Content
              /\ CommonPrefix(x).is = "common" /\ CommonPrefix(x).part = x
  BY DEF NoMatch, Content, CommonPrefix

\* What S3 names a key that has the delimiter at these positions after the prefix.
NamedAs(p, c, k, after) ==
    IF ~IsPrefix(p, k) THEN NoMatch
    ELSE IF c = NoDelimiter \/ after = {} THEN Content
    ELSE CommonPrefix(SubSeq(k, 1, CHOOSE i \in after : \A j \in after : i <= j))

LEMMA NamedIs ==
    ASSUME request \in Requests, NEW k \in Keys, NEW after,
           after = {i \in 1 .. Len(k) : i > Len(request.prefix) /\ k[i] = request.delimiter}
    PROVE  Named(k) = NamedAs(request.prefix, request.delimiter, k, after)
<1>1. request.prefix \in Queries /\ request.delimiter \in Delimiters
  BY RequestIs
<1>2. Named(k) = LET a == {i \in 1 .. Len(k) : i > Len(request.prefix) /\ k[i] = request.delimiter}
                 IN  IF ~IsPrefix(request.prefix, k) THEN NoMatch
                     ELSE IF request.delimiter = NoDelimiter \/ a = {} THEN Content
                     ELSE CommonPrefix(SubSeq(k, 1, CHOOSE i \in a : \A j \in a : i <= j))
  BY <1>1, Zenon DEF Named, Names
<1> QED  BY <1>2 DEF NamedAs

\* The parts of a key tell what it is named, for every prefix and delimiter.
LEMMA NamedByParts ==
    ASSUME request \in Requests, NEW k \in Keys, request.delimiter # NoDelimiter,
           NEW n, n = Len(Split(request.prefix, request.delimiter))
    PROVE  /\ ~IsPrefix(request.prefix, k) => Named(k) = NoMatch
           /\ IsPrefix(request.prefix, k) =>
                 IF Len(Split(k, request.delimiter)) = n THEN Named(k) = Content
                 ELSE Named(k) = CommonPrefix(SubSeq(k, 1, Cuts(k, request.delimiter)[n + 1]))
<1>1. PICK p \in Strings, c \in Nat : p = request.prefix /\ c = request.delimiter
  BY RequestIs
<1>2. k \in Strings /\ Len(k) \in Nat /\ Len(p) \in Nat
  BY KeyOrderIs DEF Strings
<1>3. PICK after : after = {i \in 1 .. Len(k) : i > Len(p) /\ k[i] = c}
  OBVIOUS
<1>4. Named(k) = IF ~IsPrefix(p, k) THEN NoMatch
                 ELSE IF c = NoDelimiter \/ after = {} THEN Content
                 ELSE CommonPrefix(SubSeq(k, 1, CHOOSE i \in after : \A j \in after : i <= j))
  <2>1. after = {i \in 1 .. Len(k) : i > Len(request.prefix) /\ k[i] = request.delimiter}
    BY <1>1, <1>3
  <2>2. Named(k) = NamedAs(request.prefix, request.delimiter, k, after)
    BY <2>1, NamedIs
  <2>3. Named(k) = NamedAs(p, c, k, after)
    BY <1>1, <2>2
  <2> QED  BY <2>3 DEF NamedAs
<1>5. CASE ~IsPrefix(p, k)
  BY <1>1, <1>4, <1>5
<1>6. CASE IsPrefix(p, k)
  <2>1. PICK cut : cut = Cuts(k, c)[n + 1]
    OBVIOUS
  <2>2. /\ cut \in Len(p) + 1 .. Len(k) + 1
        /\ \A i \in Len(p) + 1 .. cut - 1 : k[i] # c
        /\ IF Len(Split(k, c)) = n THEN cut = Len(k) + 1 ELSE cut \in 1 .. Len(k) /\ k[cut] = c
    BY <1>1, <1>2, <1>6, <2>1, CutPastPrefix, SMTT(30)
  <2>3. \A i \in after : i \in Nat /\ cut <= i
    BY <1>2, <1>3, <2>2
  <2>4. CASE Len(Split(k, c)) = n
    <3>1. after = {}
      BY <1>2, <1>3, <2>2, <2>3, <2>4
    <3> QED  BY <1>1, <1>4, <1>6, <2>4, <3>1
  <2>5. CASE Len(Split(k, c)) # n
    <3>1. cut \in after /\ cut \in Nat
      BY <1>2, <1>3, <2>2, <2>5
    <3>2. \A i \in after : (\A j \in after : i <= j) => i = cut
      BY <2>3, <3>1
    <3>3. (CHOOSE i \in after : \A j \in after : i <= j) = cut
      BY <2>3, <3>1, <3>2
    <3>4. c # NoDelimiter /\ after # {}
      BY <1>1, <3>1
    <3>5. Named(k) = CommonPrefix(SubSeq(k, 1, cut))
      BY <1>4, <1>6, <3>3, <3>4
    <3> QED  BY <1>1, <1>6, <2>1, <2>5, <3>5
  <2> QED  BY <2>4, <2>5
<1> QED  BY <1>5, <1>6

LEMMA MatchIs ==
    ASSUME request \in Requests, NEW k \in Keys
    PROVE  Match(k) = IF request.delimiter # NoDelimiter
                      THEN MatchParts(request.prefix, k, request.delimiter)
                      ELSE IF IsPrefix(request.prefix, k) THEN Content ELSE NoMatch
<1>1. request.prefix \in Queries /\ request.delimiter \in Delimiters
  BY RequestIs
<1> QED  BY <1>1 DEF Match, Matches

\* Prefix.Match (src/prefix.go) does as S3 does with a regular key and prefix,
\* whatever the delimiter: parts matched one by one find the first delimiter
\* past the prefix, and the key up to there.
THEOREM MatchAgrees ==
    ASSUME request \in Requests, NEW k \in Keys, Regular(k)
    PROVE  Match(k) = Named(k)
<1>1. CASE request.delimiter = NoDelimiter
  <2>1. PICK after : after = {i \in 1 .. Len(k) : i > Len(request.prefix) /\ k[i] = request.delimiter}
    OBVIOUS
  <2>2. Named(k) = NamedAs(request.prefix, request.delimiter, k, after)
    BY <2>1, NamedIs
  <2> QED  BY <1>1, <2>2, MatchIs DEF NamedAs
<1>2. CASE request.delimiter # NoDelimiter
  <2>1. PICK p \in Strings, c \in Nat : p = request.prefix /\ c = request.delimiter
    BY <1>2, RequestIs
  <2>2. k \in Strings
    BY KeyOrderIs
  <2>3. p = <<>> \/ Head(p) # c
    BY <1>2, <2>1 DEF Regular
  <2>4. k = <<>> \/ Head(k) # c
    BY <1>2, <2>1 DEF Regular
  <2>5. Len(k) > Len(p) => Last(k) # c
    BY <1>2, <2>1 DEF Regular
  <2>6. Match(k) = MatchParts(p, k, c)
    BY <1>2, <2>1, MatchIs
  <2>7. PICK n : n = Len(Split(p, c))
    OBVIOUS
  <2>8. /\ ~IsPrefix(p, k) => MatchParts(p, k, c) = NoMatch
        /\ IsPrefix(p, k) =>
              IF Len(Split(k, c)) = n THEN MatchParts(p, k, c) = Content
              ELSE MatchParts(p, k, c) = CommonPrefix(SubSeq(k, 1, Cuts(k, c)[n + 1]))
    BY <2>2, <2>3, <2>4, <2>5, <2>7, MatchPartsIs
  <2>9. /\ ~IsPrefix(p, k) => Named(k) = NoMatch
        /\ IsPrefix(p, k) =>
              IF Len(Split(k, c)) = n THEN Named(k) = Content
              ELSE Named(k) = CommonPrefix(SubSeq(k, 1, Cuts(k, c)[n + 1]))
    BY <1>2, <2>1, <2>7, NamedByParts
  <2> QED  BY <2>6, <2>8, <2>9
<1> QED  BY <1>1, <1>2

\* What a key may be to a request.
-----------------------------------------------------------------------------
(* A page of the memory backend.                                           *)

LEMMA MaxIs ==
    ASSUME NEW n \in Nat, NEW S \in SUBSET (1 .. n), S # {}
    PROVE  Max(S) \in S /\ \A x \in S : Max(S) >= x
<1> DEFINE T == {m \in Nat : \A U \in SUBSET (1 .. m) :
                    U # {} => \E x \in U : \A y \in U : x >= y}
<1>1. 0 \in T
  <2>1. \A U \in SUBSET (1 .. 0) : U = {}
    OBVIOUS
  <2> QED  BY <2>1
<1>2. ASSUME NEW m \in Nat, m \in T
      PROVE  m + 1 \in T
  <2> SUFFICES ASSUME NEW U \in SUBSET (1 .. m + 1), U # {}
               PROVE  \E x \in U : \A y \in U : x >= y
    OBVIOUS
  <2>1. CASE m + 1 \in U
    BY <2>1
  <2>2. CASE m + 1 \notin U
    <3>1. U \in SUBSET (1 .. m)
      BY <2>2
    <3> QED  BY <1>2, <3>1
  <2> QED  BY <2>1, <2>2
<1> HIDE DEF T
<1>3. n \in T
  BY <1>1, <1>2, Induction
<1>4. \E x \in S : \A y \in S : x >= y
  BY <1>3 DEF T
<1> QED  BY <1>4 DEF Max

LEMMA LeastIs ==
    ASSUME NEW S \in SUBSET Nat, NEW m \in S
    PROVE  \E x \in S : x <= m /\ \A y \in S : x <= y
<1> DEFINE T == {i \in Nat : (\E y \in S : y <= i) => \E x \in S : x <= i /\ \A y \in S : x <= y}
<1>1. 0 \in T
  <2>1. \A y \in S : y \in Nat
    OBVIOUS
  <2>2. \A y \in S : y <= 0 => y = 0
    BY <2>1
  <2> QED  BY <2>1, <2>2
<1>2. ASSUME NEW i \in Nat, i \in T
      PROVE  i + 1 \in T
  <2> SUFFICES ASSUME NEW y \in S, y <= i + 1
               PROVE  \E x \in S : x <= i + 1 /\ \A z \in S : x <= z
    OBVIOUS
  <2>1. CASE \E z \in S : z <= i
    <3>1. PICK x \in S : x <= i /\ \A z \in S : x <= z
      BY <1>2, <2>1
    <3>2. x <= i + 1
      BY <3>1
    <3> QED  BY <3>1, <3>2
  <2>2. CASE ~\E z \in S : z <= i
    <3>1. \A z \in S : z \in Nat /\ i < z
      BY <2>2
    <3>2. \A z \in S : y <= z
      BY <3>1
    <3> QED  BY <3>2
  <2> QED  BY <2>1, <2>2
<1> HIDE DEF T
<1>3. m \in T
  BY <1>1, <1>2, Induction
<1> QED  BY <1>3 DEF T

LEMMA AscendingIs ==
    ASSUME NEW set \in SUBSET (1 .. Len(KeyOrder)), NEW r, r = Ascending[set]
    PROVE  Enumerates(r, set, Len(KeyOrder))
<1>1. PICK n \in Nat : n = Len(KeyOrder) /\ DOMAIN KeyOrder = 1 .. n
  BY KeyOrderIs
<1>2. PICK s : s = [i \in 1 .. n |-> i]
  OBVIOUS
<1>a. s \in Seq(1 .. n) /\ Len(s) = n /\ \A i \in 1 .. n : s[i] = i
  BY <1>1, <1>2
<1>3. r = Among(s, set)
  BY <1>1, <1>2 DEF Ascending
<1>4. set \in SUBSET (1 .. n)
  BY <1>1
<1>5. Enumerates(Among(s, set), set, n)
  BY <1>a, <1>4, AmongNumbers
<1> QED  BY <1>1, <1>3, <1>5

\* Each common prefix is counted where it is met first.
Counts(counted, kinds, n) ==
    /\ counted \in Seq(1 .. n) /\ Len(counted) \in Nat
    /\ Increasing(counted, Len(counted))
    /\ \A i \in 1 .. n : kinds[i] = Content => \E j \in 1 .. Len(counted) : counted[j] = i
    /\ \A i \in 1 .. n : kinds[i].is = "common" =>
          \E j \in 1 .. Len(counted) : counted[j] <= i /\ kinds[counted[j]] = kinds[i]

LEMMA CountedIs ==
    ASSUME NEW kinds, NEW n \in Nat, n <= Len(KeyOrder), DOMAIN kinds = 1 .. n
    PROVE  Counts(Counted(kinds), kinds, n)
<1>0. PICK counted : counted = Counted(kinds)
  OBVIOUS
<1> DEFINE Met(i) == {j \in 1 .. i - 1 : kinds[j].is = "common"}
           IsNew(i) == Met(i) = {} \/ kinds[Max(Met(i))] # kinds[i]
           set == {i \in 1 .. n : kinds[i] = Content \/ (kinds[i].is = "common" /\ IsNew(i))}
<1>1. counted = Ascending[set]
  BY <1>0 DEF Counted
<1>2. Len(KeyOrder) \in Nat
  BY KeyOrderIs
<1>3. set \in SUBSET (1 .. Len(KeyOrder))
  BY <1>2
<1> HIDE DEF IsNew
<1>4. /\ counted \in Seq(1 .. Len(KeyOrder)) /\ Len(counted) \in Nat /\ DOMAIN counted = 1 .. Len(counted)
      /\ Increasing(counted, Len(counted))
      /\ \A i \in 1 .. Len(counted) : counted[i] \in set
      /\ \A x \in set : \E i \in 1 .. Len(counted) : counted[i] = x
  <2> HIDE DEF set
  <2>1. Enumerates(counted, set, Len(KeyOrder))
    BY <1>1, <1>3, AscendingIs
  <2> QED  BY <2>1 DEF Enumerates
<1>5. counted \in Seq(1 .. n)
  <2>1. \A i \in 1 .. Len(counted) : counted[i] \in 1 .. n
    BY <1>4
  <2> QED  BY <1>4, <2>1
<1>6. ASSUME NEW i \in 1 .. n, kinds[i] = Content
      PROVE  \E j \in 1 .. Len(counted) : counted[j] = i
  BY <1>4, <1>6
<1>7. ASSUME NEW i \in 1 .. n, kinds[i].is = "common"
      PROVE  \E j \in 1 .. Len(counted) : counted[j] <= i /\ kinds[counted[j]] = kinds[i]
  <2> DEFINE same == {h \in 1 .. n : kinds[h] = kinds[i]}
  <2>1. same \in SUBSET Nat /\ i \in same
    OBVIOUS
  <2>2. PICK h \in same : h <= i /\ \A y \in same : h <= y
    <3> HIDE DEF same
    <3> QED  BY <2>1, LeastIs
  <2>3. h \in 1 .. n /\ kinds[h] = kinds[i] /\ kinds[h].is = "common"
    BY <1>7
  <2>4. IsNew(h)
    <3> SUFFICES ASSUME Met(h) # {}
                 PROVE  kinds[Max(Met(h))] # kinds[h]
      BY DEF IsNew
    <3>1. Met(h) \in SUBSET (1 .. h - 1) /\ h - 1 \in Nat
      BY <2>3
    <3>2. Max(Met(h)) \in Met(h)
      <4> HIDE DEF Met
      <4> QED  BY <3>1, MaxIs
    <3> DEFINE x == Max(Met(h))
    <3>3. x \in 1 .. h - 1
      BY <3>2
    <3> HIDE DEF x
    <3>4. x \in 1 .. n /\ ~(h <= x)
      BY <2>3, <3>3
    <3> QED  BY <2>2, <2>3, <3>4 DEF x
  <2>5. h \in set
    BY <2>3, <2>4
  <2>6. PICK j \in 1 .. Len(counted) : counted[j] = h
    BY <1>4, <2>5
  <2> QED  BY <2>2, <2>3, <2>6
<1> QED  BY <1>0, <1>4, <1>5, <1>6, <1>7 DEF Counts

Shows(L, keys, kinds, page, full, more) ==
    /\ L.contents \in Seq(Keys) /\ Sorted(L.contents)
    /\ \A k : Lists(L.contents, k) <=>
          \E j \in 1 .. Len(page) : kinds[page[j]] = Content /\ keys[page[j]] = k
    /\ \A x : x \in L.prefixes <=>
          \E j \in 1 .. Len(page) : kinds[page[j]].is = "common" /\ kinds[page[j]].part = x
    /\ L.truncated = more
    /\ full => L.marker = keys[page[Len(page)]]
    /\ ~IsError(L)

LEMMA PageListingIs ==
    ASSUME NEW n \in Nat, n <= Len(KeyOrder), NEW keys \in Seq(Keys), Len(keys) = n, Sorted(keys),
           NEW kinds, DOMAIN kinds = 1 .. n, NEW page \in Seq(1 .. n), NEW full, NEW more,
           full => Len(page) > 0,
           NEW L, L = PageListing(keys, kinds, page, full, more)
    PROVE  Shows(L, keys, kinds, page, full, more)
<1>1. /\ Len(page) \in Nat /\ \A j \in 1 .. Len(page) : page[j] \in 1 .. n
      /\ ToSet(page) = {page[j] : j \in 1 .. Len(page)}
      /\ \A i \in 1 .. n : keys[i] \in Keys
      /\ \A i, j \in 1 .. n : i < j => Before(keys[i], keys[j])
  BY DEF ToSet, Sorted
<1>2. Len(KeyOrder) \in Nat
  BY KeyOrderIs
<1> DEFINE set == {i \in ToSet(page) : kinds[i] = Content}
<1>3. PICK r : r = Ascending[set]
  OBVIOUS
<1>4. set \in SUBSET (1 .. Len(KeyOrder)) /\ set \in SUBSET (1 .. n)
  BY <1>1, <1>2
<1>5. /\ r \in Seq(1 .. Len(KeyOrder)) /\ Len(r) \in Nat /\ DOMAIN r = 1 .. Len(r)
      /\ Increasing(r, Len(r))
      /\ \A i \in 1 .. Len(r) : r[i] \in set
      /\ \A x \in set : \E i \in 1 .. Len(r) : r[i] = x
  <2> HIDE DEF set
  <2>1. Enumerates(r, set, Len(KeyOrder))
    BY <1>3, <1>4, AscendingIs
  <2> QED  BY <2>1 DEF Enumerates
<1>6. PICK C : C = [j \in 1 .. Len(r) |-> keys[r[j]]]
  OBVIOUS
<1>7. L = [contents |-> C, prefixes |-> {kinds[i].part : i \in {j \in ToSet(page) : kinds[j].is = "common"}},
           truncated |-> more, marker |-> IF full THEN keys[Last(page)] ELSE <<>>]
  BY <1>3, <1>5, <1>6 DEF PageListing, Listing, MarkerOf
<1>8. /\ L.contents = C /\ L.truncated = more /\ L.marker = (IF full THEN keys[Last(page)] ELSE <<>>)
      /\ L.prefixes = {kinds[i].part : i \in {j \in ToSet(page) : kinds[j].is = "common"}}
      /\ DOMAIN L = {"contents", "prefixes", "truncated", "marker"}
  BY <1>7
<1>9. \A j \in 1 .. Len(r) : r[j] \in 1 .. n /\ C[j] = keys[r[j]] /\ C[j] \in Keys
  BY <1>1, <1>4, <1>5, <1>6
<1>10. C \in Seq(Keys) /\ Len(C) = Len(r)
  BY <1>5, <1>6, <1>9
<1>11. Sorted(C)
  BY <1>1, <1>5, <1>9, <1>10 DEF Sorted, Increasing
<1>12. ASSUME NEW k, Lists(C, k)
       PROVE  \E j \in 1 .. Len(page) : kinds[page[j]] = Content /\ keys[page[j]] = k
  <2>1. PICK i \in 1 .. Len(r) : C[i] = k
    BY <1>10, <1>12 DEF Lists
  <2>2. keys[r[i]] = k /\ r[i] \in set
    BY <1>5, <1>9, <2>1
  <2> QED  BY <1>1, <2>2
<1>13. ASSUME NEW k, NEW j \in 1 .. Len(page), kinds[page[j]] = Content, keys[page[j]] = k
       PROVE  Lists(C, k)
  <2>1. page[j] \in set
    BY <1>1, <1>13
  <2>2. PICK i \in 1 .. Len(r) : r[i] = page[j]
    BY <1>5, <2>1
  <2> QED  BY <1>9, <1>10, <1>13, <2>2 DEF Lists
<1>14. \A x : x \in L.prefixes <=>
                 \E j \in 1 .. Len(page) : kinds[page[j]].is = "common" /\ kinds[page[j]].part = x
  BY <1>1, <1>8
<1>15. full => L.marker = keys[page[Len(page)]]
  BY <1>8 DEF Last
<1>16. ~IsError(L)
  BY <1>8 DEF IsError
<1> QED  BY <1>8, <1>10, <1>11, <1>12, <1>13, <1>14, <1>15, <1>16 DEF Shows

\* A key that the page has to answer for: one beyond the marker, and not beyond
\* the marker that it leaves.
InReach(k, marker, L) ==
    /\ marker = <<>> \/ Before(marker, k)
    /\ L.truncated => ~Before(L.marker, k)

\* What a page of the keys after the marker finds.
FindsItsKeys(L, marker) ==
    /\ L.contents \in Seq(Keys) /\ Sorted(L.contents) /\ ~IsError(L)
    /\ L.truncated \in BOOLEAN
    /\ L.truncated => L.marker \in Keys /\ (marker = <<>> \/ Before(marker, L.marker))
    /\ \A k : Lists(L.contents, k) =>
          k \in Stored({"object"}) /\ Match(k) = Content /\ InReach(k, marker, L)
    /\ \A x \in L.prefixes :
          \E k \in Stored({"object"}) : Match(k).is = "common" /\ Match(k).part = x
    /\ \A k \in Stored({"object"}) : InReach(k, marker, L) =>
          /\ Match(k) = Content => Lists(L.contents, k)
          /\ Match(k).is = "common" => Match(k).part \in L.prefixes

\* The page shows the first m of the keys.
ShowsFirst(L, keys, kinds, limit, n, m) ==
    /\ L.contents \in Seq(Keys) /\ Sorted(L.contents) /\ ~IsError(L)
    /\ L.truncated \in BOOLEAN
    /\ L.truncated => limit > 0 /\ m > 0 /\ L.marker = keys[m]
    /\ ~L.truncated => m = n
    /\ \A k : Lists(L.contents, k) <=> \E i \in 1 .. m : kinds[i] = Content /\ keys[i] = k
    /\ \A x : x \in L.prefixes <=>
          \E i \in 1 .. m : kinds[i].is = "common" /\ kinds[i].part = x

LEMMA CutFinds ==
    ASSUME NEW n \in Nat, n <= Len(KeyOrder), NEW keys \in Seq(Keys), Len(keys) = n, Sorted(keys),
           NEW kinds, DOMAIN kinds = 1 .. n, NEW limit \in Nat,
           NEW L, L = CutAt(keys, kinds, limit)
    PROVE  \E m \in 0 .. n : ShowsFirst(L, keys, kinds, limit, n, m)
<1>1. PICK counted : counted = Counted(kinds)
  OBVIOUS
<1>2. /\ counted \in Seq(1 .. n) /\ Len(counted) \in Nat
      /\ \A i, j \in 1 .. Len(counted) : i < j => counted[i] < counted[j]
      /\ \A i \in 1 .. n : kinds[i] = Content => \E j \in 1 .. Len(counted) : counted[j] = i
      /\ \A i \in 1 .. n : kinds[i].is = "common" =>
            \E j \in 1 .. Len(counted) : counted[j] <= i /\ kinds[counted[j]] = kinds[i]
  <2>1. Counts(counted, kinds, n)
    BY <1>1, CountedIs
  <2> QED  BY <2>1 DEF Counts, Increasing
<1>3. \A i \in 1 .. Len(counted) : counted[i] \in 1 .. n
  BY <1>2
<1>4. PICK full \in BOOLEAN : full <=> limit > 0 /\ Len(counted) >= limit
  OBVIOUS
<1>5. PICK q \in 0 .. Len(counted) : /\ full => q = limit
                                     /\ ~full => q = Len(counted)
  BY <1>2, <1>4
<1>6. PICK page : page = IF full THEN SubSeq(counted, 1, limit) ELSE counted
  OBVIOUS
<1>7. page \in Seq(1 .. n) /\ Len(page) = q /\ \A j \in 1 .. q : page[j] = counted[j]
  <2>1. CASE full
    <3>1. limit \in 0 .. Len(counted) /\ 1 \in 1 .. Len(counted) + 1
      BY <1>2, <1>4, <2>1
    <3>2. /\ SubSeq(counted, 1, limit) \in Seq(1 .. n)
          /\ Len(SubSeq(counted, 1, limit)) = IF 1 <= limit THEN limit - 1 + 1 ELSE 0
          /\ \A i \in 1 .. limit - 1 + 1 : SubSeq(counted, 1, limit)[i] = counted[1 + i - 1]
      BY <1>2, <3>1, PartIs
    <3>3. \A i \in 1 .. limit : 1 + i - 1 = i /\ i \in 1 .. limit - 1 + 1
      OBVIOUS
    <3> QED  BY <1>4, <1>5, <1>6, <2>1, <3>2, <3>3
  <2>2. CASE ~full
    BY <1>2, <1>5, <1>6, <2>2
  <2> QED  BY <2>1, <2>2
<1>8. PICK more \in BOOLEAN : more <=> full /\ counted[limit] < n
  OBVIOUS
<1>9. L = PageListing(keys, kinds, page, full, more)
  <2>1. L = IF full THEN PageListing(keys, kinds, SubSeq(counted, 1, limit), TRUE, counted[limit] < n)
            ELSE PageListing(keys, kinds, counted, FALSE, FALSE)
    BY <1>1, <1>4 DEF CutAt, Cut
  <2>2. CASE full
    <3>1. more = (counted[limit] < n) /\ full = TRUE
      BY <1>8, <2>2
    <3> QED  BY <1>6, <2>1, <2>2, <3>1
  <2>3. CASE ~full
    <3>1. more = FALSE /\ full = FALSE
      BY <1>8, <2>3
    <3> QED  BY <1>6, <2>1, <2>3, <3>1
  <2> QED  BY <2>2, <2>3
<1>10. full => q > 0
  BY <1>4, <1>5
<1>11. /\ L.contents \in Seq(Keys) /\ Sorted(L.contents)
       /\ \A k : Lists(L.contents, k) <=>
             \E j \in 1 .. q : kinds[page[j]] = Content /\ keys[page[j]] = k
       /\ \A x : x \in L.prefixes <=>
             \E j \in 1 .. q : kinds[page[j]].is = "common" /\ kinds[page[j]].part = x
       /\ L.truncated = more
       /\ full => L.marker = keys[page[q]]
       /\ ~IsError(L)
  <2>1. Shows(L, keys, kinds, page, full, more)
    BY <1>7, <1>9, <1>10, PageListingIs
  <2> QED  BY <1>7, <2>1 DEF Shows
<1>12. PICK m \in 0 .. n : /\ full => m = counted[limit]
                           /\ ~full => m = n
  BY <1>3, <1>4
<1>13. more => limit > 0 /\ m > 0 /\ L.marker = keys[m]
  <2> SUFFICES ASSUME more
               PROVE  limit > 0 /\ m > 0 /\ L.marker = keys[m]
    OBVIOUS
  <2>1. full /\ q = limit /\ limit \in 1 .. Len(counted) /\ m = counted[limit]
    BY <1>2, <1>4, <1>5, <1>8, <1>12
  <2>2. page[q] = m
    BY <1>7, <2>1
  <2> QED  BY <1>3, <1>11, <2>1, <2>2
<1>14. ~more => m = n
  <2> SUFFICES ASSUME full, ~(counted[limit] < n)
               PROVE  m = n
    BY <1>8, <1>12
  <2>1. limit \in 1 .. Len(counted)
    BY <1>2, <1>4
  <2> QED  BY <1>3, <1>12, <2>1
<1>15. \A j \in 1 .. q : /\ page[j] \in 1 .. m /\ page[j] = counted[j] /\ j \in 1 .. Len(counted)
  <2> SUFFICES ASSUME NEW j \in 1 .. q
               PROVE  page[j] \in 1 .. m /\ page[j] = counted[j] /\ j \in 1 .. Len(counted)
    OBVIOUS
  <2>1. page[j] = counted[j] /\ j \in 1 .. Len(counted) /\ counted[j] \in 1 .. n
    BY <1>2, <1>3, <1>5, <1>7
  <2>2. CASE full
    <3>1. limit \in 1 .. Len(counted) /\ j <= limit /\ m = counted[limit]
      BY <1>2, <1>4, <1>5, <1>12, <2>2
    <3>2. j = limit \/ counted[j] < counted[limit]
      BY <1>2, <2>1, <3>1
    <3> QED  BY <1>3, <2>1, <3>1, <3>2
  <2>3. CASE ~full
    BY <1>12, <2>1, <2>3
  <2> QED  BY <2>2, <2>3
<1>16. \A j \in 1 .. Len(counted) : counted[j] <= m => j \in 1 .. q
  <2> SUFFICES ASSUME NEW j \in 1 .. Len(counted), counted[j] <= m
               PROVE  j \in 1 .. q
    OBVIOUS
  <2>1. CASE full
    <3>1. limit \in 1 .. Len(counted) /\ q = limit /\ m = counted[limit]
      BY <1>2, <1>4, <1>5, <1>12, <2>1
    <3>2. ~(limit < j)
      BY <1>2, <1>3, <2>1, <3>1
    <3> QED  BY <3>1, <3>2
  <2>2. CASE ~full
    BY <1>2, <1>5, <2>2
  <2> QED  BY <2>1, <2>2
<1>17. \A i \in 1 .. m : i \in 1 .. n
  OBVIOUS
<1>18. ASSUME NEW i \in 1 .. m, kinds[i] = Content
       PROVE  \E j \in 1 .. q : page[j] = i
  <2>1. PICK j \in 1 .. Len(counted) : counted[j] = i
    BY <1>2, <1>17, <1>18
  <2>2. j \in 1 .. q
    BY <1>16, <2>1
  <2> QED  BY <1>15, <2>1, <2>2
<1>19. ASSUME NEW i \in 1 .. m, kinds[i].is = "common"
       PROVE  \E j \in 1 .. q : kinds[page[j]] = kinds[i]
  <2>1. PICK j \in 1 .. Len(counted) : counted[j] <= i /\ kinds[counted[j]] = kinds[i]
    BY <1>2, <1>17, <1>19
  <2>2. counted[j] \in Nat /\ counted[j] <= m
    BY <1>3, <2>1
  <2>3. j \in 1 .. q
    BY <1>16, <2>2
  <2> QED  BY <1>15, <2>1, <2>3
<1>20. \A k : Lists(L.contents, k) <=> \E i \in 1 .. m : kinds[i] = Content /\ keys[i] = k
  BY <1>11, <1>15, <1>18, SMTT(30)
<1>21. \A x : x \in L.prefixes <=> \E i \in 1 .. m : kinds[i].is = "common" /\ kinds[i].part = x
  BY <1>11, <1>15, <1>19, SMTT(30)
<1>22. L.truncated = more /\ more \in BOOLEAN
  BY <1>8, <1>11
<1> QED  BY <1>11, <1>13, <1>14, <1>20, <1>21, <1>22, SMTT(30) DEF ShowsFirst

LEMMA MemPageIs ==
    ASSUME request \in Requests, NEW marker \in Keys \cup {<<>>}, NEW limit \in Nat,
           NEW L, L = PageOf(AfterMarker(marker), limit)
    PROVE  FindsItsKeys(L, marker) /\ (limit = 0 => ~L.truncated)
<1> DEFINE reached == {k \in Stored(Kept) : marker = <<>> \/ Before(marker, k)}
<1>1. reached \in SUBSET Keys
  BY DEF Stored
<1>2. PICK keys : keys = InOrder[reached]
  OBVIOUS
<1>3. /\ keys \in Seq(Keys) /\ Len(keys) \in Nat /\ DOMAIN keys = 1 .. Len(keys)
      /\ Len(keys) <= Len(KeyOrder) /\ Sorted(keys)
      /\ \A k : Lists(keys, k) <=> k \in reached
  <2> HIDE DEF reached
  <2> QED  BY <1>1, <1>2, InOrderIs
<1>4. PICK n \in Nat : n = Len(keys)
  BY <1>3
<1>5. /\ \A i \in 1 .. n : keys[i] \in Keys /\ keys[i] \in reached
      /\ \A k \in reached : \E i \in 1 .. n : keys[i] = k
      /\ \A i, j \in 1 .. n : i < j => Before(keys[i], keys[j])
  BY <1>3, <1>4 DEF Lists, Sorted
<1>6. PICK kinds : kinds = Kinds(keys)
  OBVIOUS
<1>7. DOMAIN kinds = 1 .. n
      /\ \A i \in 1 .. n : kinds[i] = IF state[keys[i]] = "object" THEN Match(keys[i]) ELSE NoMatch
  BY <1>3, <1>4, <1>6 DEF Kinds
<1>8. L = CutAt(keys, kinds, limit)
  BY <1>2, <1>6 DEF AfterMarker, PageOf
<1>9. PICK m \in 0 .. n :
          /\ L.contents \in Seq(Keys) /\ Sorted(L.contents) /\ ~IsError(L)
          /\ L.truncated \in BOOLEAN
          /\ L.truncated => limit > 0 /\ m > 0 /\ L.marker = keys[m]
          /\ ~L.truncated => m = n
          /\ \A k : Lists(L.contents, k) <=> \E i \in 1 .. m : kinds[i] = Content /\ keys[i] = k
          /\ \A x : x \in L.prefixes <=>
                \E i \in 1 .. m : kinds[i].is = "common" /\ kinds[i].part = x
  <2>1. keys \in Seq(Keys) /\ Len(keys) = n /\ n <= Len(KeyOrder) /\ Sorted(keys) /\ DOMAIN kinds = 1 .. n
    BY <1>3, <1>4, <1>7
  <2>2. \E m \in 0 .. n : ShowsFirst(L, keys, kinds, limit, n, m)
    BY <1>8, <2>1, CutFinds
  <2> QED  BY <2>2 DEF ShowsFirst
<1>10. \A k \in Keys : k \in Stored({"object"}) <=> state[k] = "object"
  BY DEF Stored
<1>11. \A i \in 1 .. m : i \in 1 .. n
  OBVIOUS
<1>12. \A i \in 1 .. n : (kinds[i] = Content \/ kinds[i].is = "common") =>
          keys[i] \in Stored({"object"}) /\ kinds[i] = Match(keys[i])
  BY <1>5, <1>7, <1>10, KindsAre
<1>13. \A i \in 1 .. m : InReach(keys[i], marker, L)
  <2> SUFFICES ASSUME NEW i \in 1 .. m
               PROVE  /\ marker = <<>> \/ Before(marker, keys[i])
                      /\ L.truncated => ~Before(keys[m], keys[i])
    BY <1>9 DEF InReach
  <2>1. marker = <<>> \/ Before(marker, keys[i])
    BY <1>5, <1>11
  <2>2. i = m \/ Before(keys[i], keys[m])
    BY <1>5, <1>11
  <2>3. keys[i] \in Keys /\ keys[m] \in Keys
    BY <1>5, <1>11
  <2>4. ~Before(keys[m], keys[i])
    BY <2>2, <2>3, KeysAreOrdered
  <2> QED  BY <2>1, <2>4
<1>14. ASSUME NEW k \in Stored({"object"}), InReach(k, marker, L)
       PROVE  \E i \in 1 .. m : keys[i] = k /\ kinds[i] = Match(k)
  <2>1. k \in reached /\ k \in Keys /\ state[k] = "object"
    BY <1>14 DEF InReach, Stored, Kept
  <2>2. PICK i \in 1 .. n : keys[i] = k
    BY <1>5, <2>1
  <2>3. kinds[i] = Match(k)
    BY <1>7, <2>1, <2>2
  <2>4. i <= m
    <3>1. CASE ~L.truncated
      BY <1>9, <3>1
    <3>2. CASE L.truncated
      <4>1. ~Before(keys[m], keys[i]) /\ m \in 1 .. n
        BY <1>9, <1>14, <2>2, <3>2 DEF InReach
      <4> QED  BY <1>5, <4>1
    <3> QED  BY <3>1, <3>2
  <2> QED  BY <2>2, <2>3, <2>4
<1>15. L.truncated => L.marker \in Keys /\ (marker = <<>> \/ Before(marker, L.marker))
  <2> SUFFICES ASSUME L.truncated
               PROVE  L.marker \in Keys /\ (marker = <<>> \/ Before(marker, L.marker))
    OBVIOUS
  <2>1. m \in 1 .. m /\ L.marker = keys[m]
    BY <1>9
  <2>2. keys[m] \in Keys /\ keys[m] \in reached
    BY <1>5, <1>11, <2>1
  <2> QED  BY <2>1, <2>2
<1>16. ASSUME NEW k, Lists(L.contents, k)
       PROVE  k \in Stored({"object"}) /\ Match(k) = Content /\ InReach(k, marker, L)
  BY <1>9, <1>11, <1>12, <1>13, <1>16
<1>17. ASSUME NEW x \in L.prefixes
       PROVE  \E k \in Stored({"object"}) : Match(k).is = "common" /\ Match(k).part = x
  BY <1>9, <1>11, <1>12, <1>17
<1>18. ASSUME NEW k \in Stored({"object"}), InReach(k, marker, L)
       PROVE  /\ Match(k) = Content => Lists(L.contents, k)
              /\ Match(k).is = "common" => Match(k).part \in L.prefixes
  BY <1>9, <1>14, <1>18
<1>19. limit = 0 => ~L.truncated
  BY <1>9
<1> QED  BY <1>9, <1>15, <1>16, <1>17, <1>18, <1>19 DEF FindsItsKeys

\* The page, or none when a key that has only archived versions is looked at.
LEMMA MemListingIs ==
    ASSUME request \in Requests, NEW marker \in Keys \cup {<<>>}, NEW limit \in Nat,
           NEW L, L = MemListing(marker, limit)
    PROVE  \/ L = Error
           \/ FindsItsKeys(L, marker) /\ (limit = 0 => ~L.truncated)
<1>1. L = Error \/ L = PageOf(AfterMarker(marker), limit)
  BY DEF MemListing
<1> QED  BY <1>1, MemPageIs

LEMMA ErrorIs ==
    /\ Error.contents = <<>> /\ Error.truncated = FALSE /\ IsError(Error)
BY DEF Error, IsError

-----------------------------------------------------------------------------
(* The pages of the others, which are whole listings.                      *)

LEMMA BoltListingIs ==
    ASSUME NEW L, L = BoltListing
    PROVE  FindsItsKeys(L, <<>>) /\ ~L.truncated
<1> DEFINE found == {k \in Stored({"object"}) : Match(k) = Content}
<1>1. found \in SUBSET Keys
  BY DEF Stored
<1>2. PICK C : C = InOrder[found]
  OBVIOUS
<1>3. C \in Seq(Keys) /\ Sorted(C) /\ \A k : Lists(C, k) <=> k \in found
  <2> HIDE DEF found
  <2> QED  BY <1>1, <1>2, InOrderIs
<1>4. PICK P : P = {Match(k).part : k \in {l \in Stored({"object"}) : Match(l).is = "common"}}
  OBVIOUS
<1>5. L = [contents |-> C, prefixes |-> P, truncated |-> FALSE, marker |-> <<>>]
  BY <1>2, <1>4 DEF BoltListing, Listing
<1>6. /\ L.contents = C /\ L.prefixes = P /\ L.truncated = FALSE
      /\ DOMAIN L = {"contents", "prefixes", "truncated", "marker"}
  BY <1>5
<1>7. ~IsError(L) /\ L.truncated \in BOOLEAN
  BY <1>6 DEF IsError
<1>8. \A k : InReach(k, <<>>, L)
  BY <1>6 DEF InReach
<1>9. \A x : x \in P <=> \E k \in Stored({"object"}) : Match(k).is = "common" /\ Match(k).part = x
  BY <1>4
<1> QED  BY <1>3, <1>6, <1>7, <1>8, <1>9 DEF FindsItsKeys

LEMMA TreeListingIs ==
    ASSUME NEW L, L = TreeListing
    PROVE  /\ L.contents \in Seq(Keys) /\ Sorted(L.contents) /\ ~IsError(L)
           /\ L.truncated = FALSE /\ L.prefixes = {}
           /\ \A k : Lists(L.contents, k) <=> k \in Stored({"object"}) /\ Match(k) # NoMatch
<1> DEFINE found == {k \in Stored({"object"}) : Match(k) # NoMatch}
<1>1. found \in SUBSET Keys
  BY DEF Stored
<1>2. PICK C : C = InOrder[found]
  OBVIOUS
<1>3. C \in Seq(Keys) /\ Sorted(C) /\ \A k : Lists(C, k) <=> k \in found
  <2> HIDE DEF found
  <2> QED  BY <1>1, <1>2, InOrderIs
<1>4. L = [contents |-> C, prefixes |-> {}, truncated |-> FALSE, marker |-> <<>>]
  BY <1>2 DEF TreeListing, Listing
<1>5. /\ L.contents = C /\ L.prefixes = {} /\ L.truncated = FALSE
      /\ DOMAIN L = {"contents", "prefixes", "truncated", "marker"}
  BY <1>4
<1>6. ~IsError(L)
  BY <1>5 DEF IsError
<1> QED  BY <1>3, <1>5, <1>6

-----------------------------------------------------------------------------
(* Paths and directories.                                                  *)

\* A key without an empty name, which is its path.
Clean(k) == \A i \in 1 .. Len(Split(k, Slash)) : Split(k, Slash)[i] # <<>>

LEMMA PathIs ==
    ASSUME NEW k \in Keys
    PROVE  /\ Paths[k] \in Seq(Strings) /\ Len(Paths[k]) \in Nat
           /\ Clean(k) => Paths[k] = Split(k, Slash) /\ Name(Paths[k]) = k
<1>1. k \in Strings /\ k # <<>>
  BY KeyOrderIs
<1>2. PICK parts : parts = Split(k, Slash)
  OBVIOUS
<1>3. /\ parts \in Seq(Strings) /\ Len(parts) = Len(Cuts(k, Slash)) - 1
      /\ Len(parts) \in Nat \ {0} /\ DOMAIN parts = 1 .. Len(parts)
  BY <1>1, <1>2, SplitIs
<1>4. PICK set : set = ToSet(parts) \ {<<>>}
  OBVIOUS
<1>5. Paths[k] = Among(parts, set)
  BY <1>2, <1>4 DEF Paths, PathOf
<1>6. Paths[k] \in Seq(Strings)
  BY <1>3, <1>5, AmongIs
<1>7. ASSUME Clean(k)
      PROVE  Paths[k] = parts /\ Name(Paths[k]) = k
  <2>1. \A i \in 1 .. Len(parts) : parts[i] \in set
    BY <1>2, <1>3, <1>4, <1>7 DEF Clean, ToSet
  <2>2. Paths[k] = parts
    BY <1>3, <1>5, <2>1, AmongAll
  <2>3. PICK n \in 1 .. Len(parts) : n = Len(parts)
    BY <1>3
  <2>4. JoinFirst(parts, n, Slash, FALSE) = SubSeq(k, 1, Cuts(k, Slash)[n + 1] - 1)
    <3>1. n <= Len(Split(k, Slash)) /\ \A i \in 1 .. n : parts[i] = Split(k, Slash)[i]
      BY <1>2, <2>3
    <3> QED  BY <1>1, <1>3, <2>3, <3>1, JoinIs
  <2>5. Cuts(k, Slash)[n + 1] - 1 = Len(k)
    <3>1. Cuts(k, Slash)[Len(Cuts(k, Slash))] = Len(k) + 1 /\ Len(Cuts(k, Slash)) \in Nat
      BY <1>1, CutsAre
    <3>2. n + 1 = Len(Cuts(k, Slash))
      BY <1>3, <2>3, <3>1
    <3>3. Len(k) \in Nat
      BY <1>1 DEF Strings
    <3> QED  BY <3>1, <3>2, <3>3
  <2>6. SubSeq(k, 1, Len(k)) = k
    BY <1>1 DEF Strings
  <2> QED  BY <2>2, <2>3, <2>4, <2>5, <2>6 DEF Name
<1> QED  BY <1>2, <1>6, <1>7

LEMMA AppendedIs ==
    ASSUME NEW V, NEW s \in Seq(V), NEW e \in V
    PROVE  Append(s, e) = s \o <<e>>
  OBVIOUS

\* The name of the directory of a key is what S3 has for a common prefix.
IsDirectory(d, k, n) ==
    /\ d \in DirsOf(k) /\ d \in Seq(Strings) /\ Len(d) = n
    /\ \A i \in 1 .. n : d[i] = Split(k, Slash)[i]
    /\ Append(Name(d), Slash) = SubSeq(k, 1, Cuts(k, Slash)[n + 1])

LEMMA DirectoryIs ==
    ASSUME NEW k \in Keys, Clean(k), NEW n \in 1 .. Len(Split(k, Slash)) - 1,
           NEW d, d = SubSeq(Paths[k], 1, n)
    PROVE  IsDirectory(d, k, n)
<1>1. PICK parts : parts = Split(k, Slash)
  OBVIOUS
<1>2. k \in Strings /\ parts \in Seq(Strings) /\ Len(parts) \in Nat /\ Paths[k] = parts
      /\ n \in 1 .. Len(parts) - 1
  BY <1>1, KeyOrderIs, SplitIs, PathIs
<1>3. d \in DirsOf(k)
  BY <1>2 DEF DirsOf
<1>4. d \in Seq(Strings) /\ Len(d) = n /\ \A i \in 1 .. n : d[i] = parts[i]
  <2>1. n \in 0 .. Len(parts) /\ 1 \in 1 .. Len(parts) + 1 /\ 1 <= n /\ n - 1 + 1 = n
    BY <1>2
  <2>2. /\ SubSeq(parts, 1, n) \in Seq(Strings)
        /\ Len(SubSeq(parts, 1, n)) = IF 1 <= n THEN n - 1 + 1 ELSE 0
        /\ \A i \in 1 .. n - 1 + 1 : SubSeq(parts, 1, n)[i] = parts[1 + i - 1]
    BY <1>2, <2>1, PartIs
  <2>3. \A i \in 1 .. n : i \in 1 .. n - 1 + 1 /\ 1 + i - 1 = i
    OBVIOUS
  <2> QED  BY <1>2, <2>1, <2>2, <2>3
<1>5. PICK cut : cut = Cuts(k, Slash)[n + 1]
  OBVIOUS
<1>6. cut \in 1 .. Len(k) /\ k[cut] = Slash
  <2>1. \A i \in 2 .. Len(Cuts(k, Slash)) - 1 :
           Cuts(k, Slash)[i] \in 1 .. Len(k) /\ k[Cuts(k, Slash)[i]] = Slash
    BY <1>2, CutsAre
  <2>2. Len(parts) = Len(Cuts(k, Slash)) - 1
    BY <1>1, <1>2, SplitIs
  <2>3. n + 1 \in 2 .. Len(Cuts(k, Slash)) - 1
    BY <1>2, <2>2
  <2> QED  BY <1>5, <2>1, <2>3
<1>7. /\ n \in 1 .. Len(d) /\ n <= Len(Split(k, Slash))
      /\ \A i \in 1 .. n : d[i] = Split(k, Slash)[i]
  BY <1>1, <1>2, <1>4
<1>8. JoinFirst(d, n, Slash, TRUE) = SubSeq(k, 1, cut)
  BY <1>2, <1>4, <1>5, <1>6, <1>7, JoinedToCut
<1>9. JoinFirst(d, n, Slash, FALSE) = SubSeq(k, 1, cut - 1)
      /\ JoinFirst(d, n, Slash, TRUE) = SubSeq(k, 1, cut - 1) \o <<Slash>>
  BY <1>2, <1>4, <1>5, <1>7, JoinIs
<1>10. Append(SubSeq(k, 1, cut - 1), Slash) = SubSeq(k, 1, cut - 1) \o <<Slash>>
  <2>1. cut - 1 \in 0 .. Len(k) /\ 1 \in 1 .. Len(k) + 1 /\ k \in Seq(Nat)
    BY <1>2, <1>6 DEF Strings
  <2>2. SubSeq(k, 1, cut - 1) \in Seq(Nat) /\ Slash \in Nat
    BY <2>1, PartIs DEF Slash
  <2> QED  BY <2>2, AppendedIs
<1>11. Append(Name(d), Slash) = SubSeq(k, 1, cut)
  BY <1>4, <1>8, <1>9, <1>10 DEF Name
<1> QED  BY <1>1, <1>3, <1>4, <1>5, <1>11 DEF IsDirectory

LEMMA FilePrefixIs ==
    ASSUME request \in Requests, NEW names, names = Split(request.prefix, Slash)
    PROVE  /\ names \in Seq(Strings) /\ Len(names) \in Nat \ {0}
           /\ FilePrefix.path \in Seq(Strings) /\ FilePrefix.part = names[Len(names)]
           /\ (\A i \in 1 .. Len(names) - 1 : names[i] # <<>>) =>
                 /\ Len(FilePrefix.path) = Len(names) - 1
                 /\ \A i \in 1 .. Len(names) - 1 : FilePrefix.path[i] = names[i]
<1>1. request.prefix \in Queries /\ request.prefix \in Strings
  BY RequestIs
<1>2. names \in Seq(Strings) /\ Len(names) \in Nat \ {0}
  BY <1>1, SplitIs
<1>3. PICK front : front = Front(names)
  OBVIOUS
<1>4. front \in Seq(Strings) /\ Len(front) = Len(names) - 1 /\ \A i \in 1 .. Len(names) - 1 : front[i] = names[i]
  <2>1. PICK n \in Nat \ {0} : n = Len(names)
    BY <1>2
  <2>2. n - 1 \in 0 .. Len(names) /\ 1 \in 1 .. Len(names) + 1 /\ n - 1 - 1 + 1 = n - 1
        /\ \A i \in 1 .. n - 1 : 1 + i - 1 = i
    BY <2>1
  <2>3. /\ SubSeq(names, 1, n - 1) \in Seq(Strings)
        /\ Len(SubSeq(names, 1, n - 1)) = IF 1 <= n - 1 THEN n - 1 - 1 + 1 ELSE 0
        /\ \A i \in 1 .. n - 1 - 1 + 1 : SubSeq(names, 1, n - 1)[i] = names[1 + i - 1]
    BY <1>2, <2>2, PartIs
  <2>4. front = SubSeq(names, 1, n - 1)
    BY <1>3, <2>1 DEF Front
  <2> QED  BY <2>1, <2>2, <2>3, <2>4
<1>5. PICK set : set = ToSet(front) \ {<<>>}
  OBVIOUS
<1>6. FilePrefix = [path |-> Among(front, set), part |-> Last(names)]
  BY <1>1, <1>3, <1>5 DEF FilePrefix, FilePrefixes, PathOf
<1>7. FilePrefix.path = Among(front, set) /\ FilePrefix.part = names[Len(names)]
  BY <1>6 DEF Last
<1>8. FilePrefix.path \in Seq(Strings)
  BY <1>4, <1>7, AmongIs
<1>9. ASSUME \A i \in 1 .. Len(names) - 1 : names[i] # <<>>
      PROVE  FilePrefix.path = front
  <2>1. \A i \in 1 .. Len(front) : front[i] \in set
    <3>1. ToSet(front) = {front[i] : i \in 1 .. Len(front)}
      BY <1>4 DEF ToSet
    <3>2. ASSUME NEW i \in 1 .. Len(front)
          PROVE  front[i] \in ToSet(front) /\ front[i] # <<>>
      BY <1>4, <1>9, <3>1
    <3> QED  BY <1>5, <3>2
  <2> QED  BY <1>4, <1>7, <2>1, AmongAll
<1> QED  BY <1>2, <1>4, <1>7, <1>8, <1>9

LEMMA AppendedLast ==
    ASSUME NEW V, NEW s \in Seq(V), NEW q \in Seq(V), Len(q) = Len(s) + 1, IsPrefix(s, q)
    PROVE  q = Append(s, q[Len(s) + 1])
<1>1. Len(s) \in Nat /\ q[Len(s) + 1] \in V
  OBVIOUS
<1>2. \A i \in 1 .. Len(s) : s[i] = q[i]
  BY PrefixIs
<1>3. PICK e \in V : e = q[Len(s) + 1]
  BY <1>1
<1>4. Append(s, e) \in Seq(V)
  OBVIOUS
<1>a. PICK t \in Seq(V) : t = Append(s, e)
  BY <1>4
<1>5. Len(t) = Len(s) + 1 /\ (\A i \in 1 .. Len(s) : t[i] = s[i]) /\ t[Len(s) + 1] = e
  BY <1>a
<1>6. \A i \in 1 .. Len(s) + 1 : i \in 1 .. Len(s) \/ i = Len(s) + 1
  BY <1>1
<1>7. \A i \in 1 .. Len(q) : t[i] = q[i]
  BY <1>2, <1>3, <1>5, <1>6
<1>8. t = q
  BY <1>5, <1>7
<1> QED  BY <1>3, <1>a, <1>8

\* What is next in a directory, with a name that begins with a part.
IsNext(dir, part, q) ==
    Len(q) = Len(dir) + 1 /\ IsPrefix(dir, q) /\ IsPrefix(part, q[Len(dir) + 1])

\* A directory that was made for a key, and the keys that are files of theirs.
DiskIs ==
    /\ dirs \subseteq Seq(Strings)
    /\ <<>> \in dirs
    /\ \A k \in Stored({"object"}) : Clean(k) /\ DirsOf(k) \subseteq dirs

EntriesAreNext(dir, paths, part) ==
    /\ \A n \in Entries(dir, paths) : IsPrefix(part, n) =>
          Append(dir, n) \in paths /\ IsNext(dir, part, Append(dir, n))
    /\ \A q \in paths : IsNext(dir, part, q) =>
          \E n \in Entries(dir, paths) : IsPrefix(part, n) /\ q = Append(dir, n)

LEMMA EntriesAre ==
    ASSUME NEW dir \in Seq(Strings), NEW paths \in SUBSET Seq(Strings), NEW part
    PROVE  EntriesAreNext(dir, paths, part)
<1>1. ASSUME NEW n \in Entries(dir, paths), IsPrefix(part, n)
      PROVE  Append(dir, n) \in paths /\ IsNext(dir, part, Append(dir, n))
  <2>1. PICK q \in paths : Len(q) = Len(dir) + 1 /\ IsPrefix(dir, q) /\ n = q[Len(dir) + 1]
    BY <1>1 DEF Entries
  <2>2. q \in Seq(Strings)
    OBVIOUS
  <2>3. q = Append(dir, n)
    BY <2>1, <2>2, AppendedLast
  <2> QED  BY <1>1, <2>1, <2>3 DEF IsNext
<1>2. ASSUME NEW q \in paths, IsNext(dir, part, q)
      PROVE  \E n \in Entries(dir, paths) : IsPrefix(part, n) /\ q = Append(dir, n)
  <2>1. q \in Seq(Strings) /\ Len(q) = Len(dir) + 1 /\ IsPrefix(dir, q) /\ IsPrefix(part, q[Len(dir) + 1])
    BY <1>2 DEF IsNext
  <2>2. q = Append(dir, q[Len(dir) + 1])
    BY <2>1, AppendedLast
  <2>3. q[Len(dir) + 1] \in Entries(dir, paths)
    BY <2>1 DEF Entries
  <2> QED  BY <2>1, <2>2, <2>3
<1> QED  BY <1>1, <1>2 DEF EntriesAreNext

\* A listing of what is next in a directory.
ListsNext(L, dir, part) ==
    /\ L.contents \in Seq(Keys) /\ Sorted(L.contents) /\ L.truncated = FALSE
    /\ \A k : Lists(L.contents, k) =>
          k \in Stored({"object"}) /\ IsNext(dir, part, Paths[k])
    /\ ~IsError(L) => \A k \in Stored({"object"}) :
          IsNext(dir, part, Paths[k]) => Lists(L.contents, k)
    /\ ~IsError(L) /\ (backend = "multi" => part = <<>>) => \A x : x \in L.prefixes <=>
          \E d \in dirs : IsNext(dir, part, d) /\ x = Append(Name(d), Slash)

LEMMA DirectoryListingIs ==
    ASSUME request \in Requests, DiskIs, NEW L, L = DirectoryListing,
           NEW dir, dir = FilePrefix.path, NEW part, part = FilePrefix.part
    PROVE  ListsNext(L, dir, part)
<1>1. dir \in Seq(Strings)
  BY FilePrefixIs
<1> DEFINE files == {n \in Entries(dir, {Paths[k] : k \in Stored({"object"})}) : IsPrefix(part, n)}
           named == {n \in Entries(dir, dirs) : IsPrefix(part, n)}
           Joined(n) == IF backend = "multi" /\ part # <<>> THEN dir \o <<part, n>> ELSE Append(dir, n)
           found == {Name(Append(dir, n)) : n \in files}
           names == {Append(Name(Joined(n)), Slash) : n \in named}
<1>2. PICK C, P : C = InOrder[found] /\ P = names
  OBVIOUS
<1>3. /\ dir \notin dirs => L = Error
      /\ dir \in dirs => L = [contents |-> C, prefixes |-> P, truncated |-> FALSE, marker |-> <<>>]
  BY <1>2 DEF DirectoryListing, Listing
<1>4. \A k \in Stored({"object"}) :
         k \in Keys /\ Paths[k] \in Seq(Strings) /\ Name(Paths[k]) = k
  BY PathIs DEF DiskIs, Stored
<1>5. \A k : k \in found <=> k \in Stored({"object"}) /\ IsNext(dir, part, Paths[k])
  <2>1. PICK paths : paths = {Paths[k] : k \in Stored({"object"})}
    OBVIOUS
  <2>2. paths \in SUBSET Seq(Strings)
    BY <1>4, <2>1
  <2>3. /\ \A n \in Entries(dir, paths) : IsPrefix(part, n) =>
              Append(dir, n) \in paths /\ IsNext(dir, part, Append(dir, n))
        /\ \A q \in paths : IsNext(dir, part, q) =>
              \E n \in Entries(dir, paths) : IsPrefix(part, n) /\ q = Append(dir, n)
    <3>1. EntriesAreNext(dir, paths, part)
      BY <1>1, <2>2, EntriesAre
    <3> QED  BY <3>1 DEF EntriesAreNext
  <2>4. files = {n \in Entries(dir, paths) : IsPrefix(part, n)}
    BY <2>1
  <2> HIDE DEF files
  <2>5. ASSUME NEW k, k \in found
        PROVE  k \in Stored({"object"}) /\ IsNext(dir, part, Paths[k])
    <3>1. PICK n \in files : k = Name(Append(dir, n))
      BY <2>5
    <3>2. Append(dir, n) \in paths /\ IsNext(dir, part, Append(dir, n))
      BY <2>3, <2>4, <3>1
    <3>3. PICK l \in Stored({"object"}) : Append(dir, n) = Paths[l]
      BY <2>1, <3>2
    <3>4. k = l
      BY <1>4, <3>1, <3>3
    <3> QED  BY <3>2, <3>3, <3>4
  <2>6. ASSUME NEW k \in Stored({"object"}), IsNext(dir, part, Paths[k])
        PROVE  k \in found
    <3>1. Paths[k] \in paths
      BY <2>1
    <3>2. PICK n \in Entries(dir, paths) : IsPrefix(part, n) /\ Paths[k] = Append(dir, n)
      BY <2>3, <2>6, <3>1
    <3>3. n \in files /\ Name(Append(dir, n)) = k
      BY <1>4, <2>4, <3>2
    <3> QED  BY <3>3
  <2> HIDE DEF found
  <2> QED  BY <2>5, <2>6
<1>6. found \in SUBSET Keys
  <2> HIDE DEF found
  <2> QED  BY <1>4, <1>5
<1>7. C \in Seq(Keys) /\ Sorted(C) /\ \A k : Lists(C, k) <=> k \in found
  <2> HIDE DEF found
  <2> QED  BY <1>2, <1>6, InOrderIs
<1>8. ASSUME backend = "multi" => part = <<>>
      PROVE  \A x : x \in P <=> \E d \in dirs : IsNext(dir, part, d) /\ x = Append(Name(d), Slash)
  <2>1. /\ \A n \in Entries(dir, dirs) : IsPrefix(part, n) =>
              Append(dir, n) \in dirs /\ IsNext(dir, part, Append(dir, n))
        /\ \A q \in dirs : IsNext(dir, part, q) =>
              \E n \in Entries(dir, dirs) : IsPrefix(part, n) /\ q = Append(dir, n)
    <3>1. dirs \in SUBSET Seq(Strings)
      BY DEF DiskIs
    <3>2. EntriesAreNext(dir, dirs, part)
      BY <1>1, <3>1, EntriesAre
    <3> QED  BY <3>2 DEF EntriesAreNext
  <2>2. \A n \in named : Joined(n) = Append(dir, n)
    BY <1>8
  <2> HIDE DEF Joined
  <2>3. \A x : x \in P <=> \E n \in named : x = Append(Name(Append(dir, n)), Slash)
    BY <1>2, <2>2
  <2>4. \A n \in named : Append(dir, n) \in dirs /\ IsNext(dir, part, Append(dir, n))
    BY <2>1
  <2>5. \A d \in dirs : IsNext(dir, part, d) => \E n \in named : d = Append(dir, n)
    BY <2>1
  <2> HIDE DEF named, names
  <2> QED  BY <2>3, <2>4, <2>5
<1> HIDE DEF files, named, Joined, found, names
<1>9. CASE dir \notin dirs
  <2>1. L.contents = <<>> /\ L.truncated = FALSE /\ IsError(L)
    BY <1>3, <1>9 DEF Error, IsError
  <2>2. <<>> \in Seq(Keys) /\ Sorted(<<>>) /\ \A k : ~Lists(<<>>, k)
    BY DEF Sorted, Lists
  <2> QED  BY <2>1, <2>2 DEF ListsNext
<1>10. CASE dir \in dirs
  <2>1. L.contents = C /\ L.prefixes = P /\ L.truncated = FALSE
    BY <1>3, <1>10
  <2> QED  BY <1>5, <1>7, <1>8, <2>1 DEF ListsNext
<1> QED  BY <1>9, <1>10

\* The part of a key up to the last of the prefix decides what it is to a
\* request, and where it is below the directory of the prefix.
LEMMA NamedByPath ==
    ASSUME request \in Requests, request.delimiter = Slash, NEW k \in Keys, Clean(k),
           NEW names, names = Split(request.prefix, Slash),
           \A i \in 1 .. Len(names) - 1 : names[i] # <<>>,
           NEW dir, dir = FilePrefix.path, NEW part, part = FilePrefix.part
    PROVE  /\ IsNext(dir, part, Paths[k]) <=> Named(k) = Content
           /\ Named(k).is = "common" =>
                 \E d \in DirsOf(k) : IsNext(dir, part, d) /\ Named(k).part = Append(Name(d), Slash)
           /\ \A d \in DirsOf(k) : IsNext(dir, part, d) =>
                 Named(k).is = "common" /\ Named(k).part = Append(Name(d), Slash)
<1>1. PICK p \in Strings, n \in Nat \ {0} :
          p = request.prefix /\ n = Len(names)
  BY RequestIs, FilePrefixIs
<1>2. /\ dir \in Seq(Strings) /\ Len(dir) = n - 1
      /\ (\A i \in 1 .. n - 1 : dir[i] = names[i]) /\ part = names[n]
  BY <1>1, FilePrefixIs
<1>0. PICK q : q = Split(k, Slash)
  OBVIOUS
<1>a. Len(q) \in Nat \ {0}
  <2>1. k \in Strings
    BY KeyOrderIs
  <2> QED  BY <1>0, <2>1, SplitIs
<1>b. PICK m \in Nat \ {0} : m = Len(q)
  BY <1>a
<1>3. q = Split(k, Slash) /\ m = Len(q)
  BY <1>0, <1>b
<1>4. k \in Strings /\ q \in Seq(Strings) /\ Paths[k] = q
  BY <1>3, KeyOrderIs, SplitIs, PathIs
<1>5. request.delimiter # NoDelimiter
  BY BucketListingAssumption DEF Slash
<1>6. PICK cut : cut = Cuts(k, Slash)[n + 1]
  OBVIOUS
<1>7. /\ ~IsPrefix(p, k) => Named(k) = NoMatch
      /\ IsPrefix(p, k) => IF m = n THEN Named(k) = Content
                           ELSE Named(k) = CommonPrefix(SubSeq(k, 1, cut))
  BY <1>1, <1>3, <1>5, <1>6, NamedByParts
<1>8. IsPrefix(p, k) <=> /\ m >= n /\ \A i \in 1 .. n - 1 : q[i] = names[i]
                         /\ IsPrefix(part, q[n])
  <2>1. IsPrefix(p, k) <=> PartsMatch(p, k, Slash)
    BY <1>1, <1>4, PrefixByParts
  <2> QED  BY <1>1, <1>2, <1>3, <2>1 DEF PartsMatch
<1>9. \A d \in Seq(Strings) : IsNext(dir, part, d) <=>
         /\ Len(d) = n /\ \A i \in 1 .. n - 1 : d[i] = names[i]
         /\ IsPrefix(part, d[n])
  <2> SUFFICES ASSUME NEW d \in Seq(Strings), Len(d) = n
               PROVE  IsPrefix(dir, d) <=> \A i \in 1 .. n - 1 : d[i] = names[i]
    <3>1. n - 1 + 1 = n
      OBVIOUS
    <3> QED  BY <1>2, <3>1 DEF IsNext
  <2>1. IsPrefix(dir, d) <=> Len(dir) <= Len(d) /\ \A i \in 1 .. Len(dir) : dir[i] = d[i]
    <3>1. dir \in Seq(Strings)
      BY <1>2
    <3> QED  BY <3>1, PrefixIs
  <2> QED  BY <1>2, <2>1
<1>10. IsNext(dir, part, q) <=> Named(k) = Content
  BY <1>3, <1>4, <1>7, <1>8, <1>9, KindsAre
<1>11. ASSUME NEW j \in 1 .. m - 1
       PROVE  /\ SubSeq(q, 1, j) \in DirsOf(k) /\ SubSeq(q, 1, j) \in Seq(Strings)
              /\ Len(SubSeq(q, 1, j)) = j /\ \A i \in 1 .. j : SubSeq(q, 1, j)[i] = q[i]
              /\ Append(Name(SubSeq(q, 1, j)), Slash) = SubSeq(k, 1, Cuts(k, Slash)[j + 1])
  <2>1. PICK d : d = SubSeq(Paths[k], 1, j)
    OBVIOUS
  <2>2. j \in 1 .. Len(Split(k, Slash)) - 1
    BY <1>3
  <2>3. /\ d \in DirsOf(k) /\ d \in Seq(Strings) /\ Len(d) = j
        /\ \A i \in 1 .. j : d[i] = Split(k, Slash)[i]
        /\ Append(Name(d), Slash) = SubSeq(k, 1, Cuts(k, Slash)[j + 1])
    <3>1. IsDirectory(d, k, j)
      BY <2>1, <2>2, DirectoryIs
    <3> QED  BY <3>1 DEF IsDirectory
  <2> QED  BY <1>3, <1>4, <2>1, <2>3
<1>12. n \in 1 .. n /\ \A i \in 1 .. n - 1 : i \in 1 .. n
  OBVIOUS
<1>13. ASSUME Named(k).is = "common"
       PROVE  \E d \in DirsOf(k) : IsNext(dir, part, d) /\ Named(k).part = Append(Name(d), Slash)
  <2>1. IsPrefix(p, k) /\ m # n /\ Named(k) = CommonPrefix(SubSeq(k, 1, cut))
    BY <1>7, <1>13, KindsAre
  <2>2. n \in 1 .. m - 1
    BY <1>8, <2>1
  <2>3. PICK d \in DirsOf(k) : /\ d \in Seq(Strings) /\ Len(d) = n
                               /\ \A i \in 1 .. n : d[i] = q[i]
                               /\ Append(Name(d), Slash) = SubSeq(k, 1, cut)
    BY <1>6, <1>11, <2>2
  <2>4. IsNext(dir, part, d)
    BY <1>8, <1>9, <1>12, <2>1, <2>3
  <2> QED  BY <2>1, <2>3, <2>4, KindsAre
<1>14. ASSUME NEW d \in DirsOf(k), IsNext(dir, part, d)
       PROVE  Named(k).is = "common" /\ Named(k).part = Append(Name(d), Slash)
  <2>1. PICK j \in 0 .. m - 1 : d = SubSeq(q, 1, j)
    BY <1>3, <1>4 DEF DirsOf
  <2>2. j # 0
    <3> SUFFICES ASSUME j = 0
                 PROVE  FALSE
      OBVIOUS
    <3>1. d = <<>>
      <4>1. SubSeq(q, 1, 0) \in Seq(Strings) /\ Len(SubSeq(q, 1, 0)) = IF 1 <= 0 THEN 0 - 1 + 1 ELSE 0
        BY <1>3, <1>4, PartIs
      <4>2. \A t \in Seq(Strings) : Len(t) = 0 => t = <<>>
        OBVIOUS
      <4> QED  BY <2>1, <4>1, <4>2
    <3>2. <<>> \in Seq(Strings) /\ Len(<<>>) = 0
      OBVIOUS
    <3>3. Len(d) = n
      BY <1>14, <1>9, <3>1, <3>2
    <3> QED  BY <3>1, <3>2, <3>3
  <2>3. /\ d \in Seq(Strings) /\ Len(d) = j /\ \A i \in 1 .. j : d[i] = q[i]
        /\ Append(Name(d), Slash) = SubSeq(k, 1, Cuts(k, Slash)[j + 1])
    <3>1. j \in 1 .. m - 1
      BY <2>1, <2>2
    <3> QED  BY <1>11, <2>1, <3>1
  <2>4. j = n /\ (\A i \in 1 .. n - 1 : d[i] = names[i]) /\ IsPrefix(part, d[n])
    BY <1>9, <1>14, <2>3
  <2>5. IsPrefix(p, k) /\ m # n
    BY <1>8, <1>12, <2>1, <2>3, <2>4
  <2>6. Named(k) = CommonPrefix(Append(Name(d), Slash))
    BY <1>6, <1>7, <2>3, <2>4, <2>5
  <2> QED  BY <2>6, KindsAre
<1> QED  BY <1>4, <1>10, <1>13, <1>14

-----------------------------------------------------------------------------
(* The inductive invariant.                                                *)

TypeOK ==
    /\ backend \in Backends
    /\ request \in Requests
    /\ state \in [Keys -> {"object", "deleted", "archived", "none"}]
    /\ walk = [phase |-> walk.phase, marker |-> walk.marker, listed |-> walk.listed,
               prefixes |-> walk.prefixes, since |-> walk.since]
    /\ walk.phase \in {"idle", "paging", "done", "refused"}
    /\ walk.listed \in Seq(Keys)
    /\ walk.since \subseteq Stored({"object"})

\* The client's marker is where its listing stands: there is none yet, or no key
\* that it has is beyond it.  Only the memory backend truncates.
MarkerIs ==
    /\ walk.phase = "idle" => walk.marker = <<>> /\ walk.listed = <<>>
    /\ walk.phase = "paging" =>
          /\ backend = "mem" /\ walk.marker \in Keys
          /\ \A k : Lists(walk.listed, k) => ~Before(walk.marker, k)

Behind(k) ==
    walk.phase = "done" \/ (walk.phase = "paging" /\ ~Before(walk.marker, k))

\* What is behind the marker was listed, whether or not it is still there.
CoveredIs ==
    \A k \in walk.since : Regular(k) /\ Behind(k) =>
        /\ Named(k) = Content => Lists(walk.listed, k)
        /\ Named(k).is = "common" /\ NamesCommonPrefixes => Named(k).part \in walk.prefixes

IInv == TypeOK /\ (OnDisk => DiskIs) /\ MarkerIs /\ Sorted(walk.listed) /\ CoveredIs

\* What the client gets for its marker.
Covers(L, k) ==
    /\ Named(k) = Content => Lists(L.contents, k)
    /\ Named(k).is = "common" /\ NamesCommonPrefixes => Named(k).part \in L.prefixes

IsPage(L, marker) ==
    /\ L.contents \in Seq(Keys) /\ Sorted(L.contents)
    /\ \A k : Lists(L.contents, k) => InReach(k, marker, L)
    /\ L.truncated \in BOOLEAN
    /\ L.truncated =>
          /\ backend = "mem" /\ L.marker \in Keys /\ ~IsError(L)
          /\ marker = <<>> \/ Before(marker, L.marker)
    /\ ~IsError(L) => \A k \in Stored({"object"}) :
          Regular(k) /\ InReach(k, marker, L) => Covers(L, k)

LEMMA FoundIsPage ==
    ASSUME request \in Requests, NEW L, NEW marker, FindsItsKeys(L, marker),
           L.truncated => backend = "mem"
    PROVE  IsPage(L, marker)
<1>1. ASSUME NEW k \in Stored({"object"}), Regular(k), InReach(k, marker, L)
      PROVE  Covers(L, k)
  <2>1. k \in Keys /\ Match(k) = Named(k)
    BY <1>1, MatchAgrees DEF Stored
  <2>2. /\ Match(k) = Content => Lists(L.contents, k)
        /\ Match(k).is = "common" => Match(k).part \in L.prefixes
    BY <1>1 DEF FindsItsKeys
  <2> QED  BY <2>1, <2>2 DEF Covers
<1> QED  BY <1>1 DEF FindsItsKeys, IsPage

LEMMA ErrorIsPage ==
    ASSUME NEW marker
    PROVE  IsPage(Error, marker)
<1>1. \A k : ~Lists(Error.contents, k)
  BY ErrorIs DEF Lists
<1>2. Error.contents \in Seq(Keys) /\ Sorted(Error.contents)
  BY ErrorIs DEF Sorted
<1> QED  BY <1>1, <1>2, ErrorIs DEF IsPage

LEMMA TreeIsPage ==
    ASSUME request \in Requests, WalksTree, backend # "mem", NEW L, L = TreeListing
    PROVE  IsPage(L, <<>>)
<1>1. /\ L.contents \in Seq(Keys) /\ Sorted(L.contents) /\ ~IsError(L)
      /\ L.truncated = FALSE /\ L.prefixes = {}
      /\ \A k : Lists(L.contents, k) <=> k \in Stored({"object"}) /\ Match(k) # NoMatch
  BY TreeListingIs
<1>2. ASSUME NEW k \in Stored({"object"}), Regular(k)
      PROVE  Covers(L, k)
  <2>1. k \in Keys /\ Match(k) = Named(k)
    BY <1>2, MatchAgrees DEF Stored
  <2>2. Named(k) = Content => Lists(L.contents, k)
    BY <1>1, <2>1, KindsAre
  <2>3. NamesCommonPrefixes => Named(k).is # "common"
    <3> SUFFICES ASSUME request.delimiter = NoDelimiter
                 PROVE  Named(k).is # "common"
      BY DEF NamesCommonPrefixes
    <3>1. Match(k) = IF IsPrefix(request.prefix, k) THEN Content ELSE NoMatch
      BY <2>1, MatchIs
    <3> QED  BY <2>1, <3>1, KindsAre
  <2> QED  BY <2>2, <2>3 DEF Covers
<1>3. \A k : InReach(k, <<>>, L)
  BY <1>1 DEF InReach
<1> QED  BY <1>1, <1>2, <1>3 DEF IsPage

\* A key that has the prefix is clean, so the names of the directory are too.
LEMMA CleanFront ==
    ASSUME request \in Requests, request.delimiter = Slash, NEW k \in Keys, Clean(k),
           Named(k) # NoMatch, NEW names, names = Split(request.prefix, Slash)
    PROVE  \A i \in 1 .. Len(names) - 1 : names[i] # <<>>
<1>1. PICK p \in Strings : p = request.prefix
  BY RequestIs
<1>2. request.delimiter # NoDelimiter
  BY BucketListingAssumption DEF Slash
<1>3. IsPrefix(p, k)
  BY <1>1, <1>2, NamedByParts
<1>4. k \in Strings
  BY KeyOrderIs
<1>5. PartsMatch(p, k, Slash)
  BY <1>1, <1>3, <1>4, PrefixByParts
<1>6. Len(names) \in Nat \ {0} /\ Len(Split(k, Slash)) \in Nat
  BY <1>1, <1>4, SplitIs
<1> QED  BY <1>1, <1>5, <1>6 DEF PartsMatch, Clean

LEMMA DirectoryIsPage ==
    ASSUME request \in Requests, DiskIs, ReadsDirectory, backend # "mem",
           NEW L, L = DirectoryListing
    PROVE  IsPage(L, <<>>)
<1>1. PICK dir, part, names : /\ dir = FilePrefix.path /\ part = FilePrefix.part
                              /\ names = Split(request.prefix, Slash)
  OBVIOUS
<1>2. /\ L.contents \in Seq(Keys) /\ Sorted(L.contents) /\ L.truncated = FALSE
      /\ ~IsError(L) => \A k \in Stored({"object"}) :
            IsNext(dir, part, Paths[k]) => Lists(L.contents, k)
      /\ ~IsError(L) /\ (backend = "multi" => part = <<>>) => \A x : x \in L.prefixes <=>
            \E d \in dirs : IsNext(dir, part, d) /\ x = Append(Name(d), Slash)
  <2>1. ListsNext(L, dir, part)
    BY <1>1, DirectoryListingIs
  <2> QED  BY <2>1 DEF ListsNext
<1>3. ASSUME ~IsError(L), NEW k \in Stored({"object"})
      PROVE  Covers(L, k)
  <2>1. k \in Keys /\ Clean(k) /\ DirsOf(k) \subseteq dirs /\ request.delimiter = Slash
    BY DEF DiskIs, Stored, ReadsDirectory
  <2> SUFFICES ASSUME Named(k) # NoMatch
               PROVE  Covers(L, k)
    BY KindsAre DEF Covers
  <2>2. \A i \in 1 .. Len(names) - 1 : names[i] # <<>>
    BY <1>1, <2>1, CleanFront
  <2>3. /\ IsNext(dir, part, Paths[k]) <=> Named(k) = Content
        /\ Named(k).is = "common" =>
              \E d \in DirsOf(k) : IsNext(dir, part, d) /\ Named(k).part = Append(Name(d), Slash)
    BY <1>1, <2>1, <2>2, NamedByPath
  <2>4. Named(k) = Content => Lists(L.contents, k)
    BY <1>2, <1>3, <2>3
  <2>5. ASSUME Named(k).is = "common", NamesCommonPrefixes
        PROVE  Named(k).part \in L.prefixes
    <3>1. backend = "multi" => part = <<>>
      BY <1>1, <2>5 DEF NamesCommonPrefixes
    <3> QED  BY <1>2, <1>3, <2>1, <2>3, <2>5, <3>1
  <2> QED  BY <2>4, <2>5 DEF Covers
<1>4. \A k : InReach(k, <<>>, L)
  BY <1>2 DEF InReach
<1> QED  BY <1>2, <1>3, <1>4 DEF IsPage

LEMMA PageIs ==
    ASSUME IInv, walk.phase \in {"idle", "paging"},
           NEW L, L = ListBucket(walk.marker, request.limit)
    PROVE  IsPage(L, walk.marker)
<1>1. /\ request \in Requests /\ backend \in {"mem", "bolt", "multi", "single"}
      /\ OnDisk => DiskIs
  BY BucketListingAssumption DEF IInv, TypeOK
<1>2. walk.marker \in Keys \cup {<<>>} /\ (backend # "mem" => walk.marker = <<>>)
  BY DEF IInv, MarkerIs
<1>3. CASE backend = "mem"
  <2>1. L = MemListing(walk.marker, request.limit)
    BY <1>3 DEF ListBucket, ReadsDirectory, WalksTree, OnDisk
  <2>2. request.limit \in Nat
    BY <1>1, RequestIs
  <2>3. L = Error \/ FindsItsKeys(L, walk.marker)
    BY <1>1, <1>2, <2>1, <2>2, MemListingIs
  <2> QED  BY <1>1, <1>3, <2>3, FoundIsPage, ErrorIsPage
<1>4. CASE backend = "bolt"
  <2>1. L = BoltListing
    BY <1>4 DEF ListBucket, ReadsDirectory, WalksTree, OnDisk
  <2>2. FindsItsKeys(L, <<>>) /\ ~L.truncated
    BY <2>1, BoltListingIs
  <2> QED  BY <1>1, <1>2, <1>4, <2>2, FoundIsPage
<1>5. CASE ReadsDirectory
  <2>1. backend \notin {"mem", "bolt"} /\ DiskIs
    BY <1>1, <1>5 DEF ReadsDirectory, OnDisk
  <2>2. L = DirectoryListing
    BY <1>5, <2>1 DEF ListBucket, ReadsDirectory, WalksTree
  <2> QED  BY <1>1, <1>2, <1>5, <2>1, <2>2, DirectoryIsPage
<1>6. CASE WalksTree
  <2>1. backend \notin {"mem", "bolt"}
    BY <1>6 DEF WalksTree, OnDisk
  <2>2. L = TreeListing
    BY <1>6, <2>1 DEF ListBucket, ReadsDirectory, WalksTree
  <2> QED  BY <1>1, <1>2, <1>6, <2>1, <2>2, TreeIsPage
<1>7. backend \in {"mem", "bolt"} \/ ReadsDirectory \/ WalksTree
  BY <1>1 DEF ReadsDirectory, WalksTree, OnDisk
<1> QED  BY <1>3, <1>4, <1>5, <1>6, <1>7

LEMMA InitIsCovered == Init => IInv
<1> SUFFICES ASSUME Init
             PROVE  IInv
  OBVIOUS
<1>1. Stored({"object"}) = {}
  BY DEF Init, Stored
<1>2. TypeOK
  BY <1>1 DEF Init, TypeOK
<1>3. DiskIs
  BY <1>1 DEF Init, DiskIs
<1>4. MarkerIs /\ Sorted(walk.listed) /\ CoveredIs
  BY DEF Init, MarkerIs, Lists, Sorted, CoveredIs
<1> QED  BY <1>2, <1>3, <1>4 DEF IInv

LEMMA SortedTogether ==
    ASSUME NEW s \in Seq(Keys), NEW t \in Seq(Keys), Sorted(s), Sorted(t),
           \A k, l \in Keys : Lists(s, k) /\ Lists(t, l) => Before(k, l)
    PROVE  /\ s \o t \in Seq(Keys) /\ Sorted(s \o t)
           /\ \A k : Lists(s \o t, k) <=> Lists(s, k) \/ Lists(t, k)
<1>1. PICK m \in Nat, n \in Nat : m = Len(s) /\ n = Len(t)
  OBVIOUS
<1>2. PICK r : r = s \o t
  OBVIOUS
<1>3. /\ r \in Seq(Keys) /\ Len(r) = m + n
      /\ \A i \in 1 .. m + n : r[i] = IF i <= m THEN s[i] ELSE t[i - m]
  BY <1>1, <1>2, ConcatIs
<1>4. /\ \A i \in 1 .. m : s[i] \in Keys /\ Lists(s, s[i])
      /\ \A i \in 1 .. n : t[i] \in Keys /\ Lists(t, t[i])
  BY <1>1 DEF Lists
<1>5. \A i \in 1 .. m + n : i \in 1 .. m \/ (~(i <= m) /\ i - m \in 1 .. n)
  OBVIOUS
<1>6. ASSUME NEW i \in 1 .. m + n, NEW j \in 1 .. m + n, i < j
      PROVE  Before(r[i], r[j])
  <2>1. CASE j \in 1 .. m
    <3>1. i \in 1 .. m /\ r[i] = s[i] /\ r[j] = s[j]
      BY <1>3, <1>6, <2>1
    <3> QED  BY <1>1, <1>6, <2>1, <3>1 DEF Sorted
  <2>2. CASE ~(j <= m) /\ i \in 1 .. m
    <3>1. r[i] = s[i] /\ r[j] = t[j - m] /\ j - m \in 1 .. n
      BY <1>3, <2>2
    <3> QED  BY <1>4, <2>2, <3>1
  <2>3. CASE ~(j <= m) /\ ~(i <= m)
    <3>1. i - m \in 1 .. n /\ j - m \in 1 .. n /\ i - m < j - m
      BY <1>6, <2>3
    <3>2. r[i] = t[i - m] /\ r[j] = t[j - m]
      BY <1>3, <2>3
    <3> QED  BY <1>1, <3>1, <3>2 DEF Sorted
  <2> QED  BY <1>5, <2>1, <2>2, <2>3
<1>7. Sorted(r)
  BY <1>3, <1>6 DEF Sorted
<1>8. ASSUME NEW k, Lists(s, k)
      PROVE  Lists(r, k)
  <2>1. PICK i \in 1 .. m : s[i] = k
    BY <1>1, <1>8 DEF Lists
  <2>2. i \in 1 .. m + n /\ r[i] = k
    BY <1>3, <2>1
  <2> QED  BY <1>3, <2>2 DEF Lists
<1>9. ASSUME NEW k, Lists(t, k)
      PROVE  Lists(r, k)
  <2>1. PICK i \in 1 .. n : t[i] = k
    BY <1>1, <1>9 DEF Lists
  <2>2. m + i \in 1 .. m + n /\ ~(m + i <= m) /\ m + i - m = i
    OBVIOUS
  <2>3. r[m + i] = k
    BY <1>3, <2>1, <2>2
  <2> QED  BY <1>3, <2>2, <2>3 DEF Lists
<1>10. ASSUME NEW k, Lists(r, k)
       PROVE  Lists(s, k) \/ Lists(t, k)
  <2>1. PICK i \in 1 .. m + n : r[i] = k
    BY <1>3, <1>10 DEF Lists
  <2> QED  BY <1>3, <1>4, <1>5, <2>1
<1> QED  BY <1>2, <1>3, <1>7, <1>8, <1>9, <1>10

LEMMA NextPageKeeps ==
    ASSUME IInv, NextPage
    PROVE  IInv'
<1>1. PICK L : L = ListBucket(walk.marker, request.limit)
  OBVIOUS
<1>2. /\ walk.phase \in {"idle", "paging"}
      /\ walk' = After(L)
      /\ UNCHANGED <<backend, request, state, dirs>>
  BY <1>1 DEF NextPage
<1>3. IsPage(L, walk.marker)
  BY <1>1, <1>2, PageIs
<1>4. /\ walk'.phase = IF IsError(L) THEN "refused" ELSE IF L.truncated THEN "paging" ELSE "done"
      /\ walk'.marker = L.marker
      /\ walk'.listed = walk.listed \o L.contents
      /\ walk'.prefixes = walk.prefixes \cup L.prefixes
      /\ walk'.since = IF walk.phase = "idle" THEN Stored({"object"}) ELSE walk.since
      /\ walk' = [phase |-> walk'.phase, marker |-> walk'.marker, listed |-> walk'.listed,
                  prefixes |-> walk'.prefixes, since |-> walk'.since]
  BY <1>2 DEF After
<1>5. /\ TypeOK /\ MarkerIs /\ Sorted(walk.listed) /\ CoveredIs /\ (OnDisk => DiskIs)
      /\ walk.listed \in Seq(Keys)
  BY DEF IInv, TypeOK
<1>6. /\ L.contents \in Seq(Keys) /\ Sorted(L.contents)
      /\ \A k : Lists(L.contents, k) => InReach(k, walk.marker, L)
      /\ L.truncated =>
            /\ backend = "mem" /\ L.marker \in Keys /\ ~IsError(L)
            /\ walk.marker = <<>> \/ Before(walk.marker, L.marker)
      /\ ~IsError(L) => \A k \in Stored({"object"}) :
            Regular(k) /\ InReach(k, walk.marker, L) => Covers(L, k)
  BY <1>3 DEF IsPage
<1>7. walk.phase = "idle" => \A k : ~Lists(walk.listed, k)
  BY <1>5 DEF MarkerIs, Lists
<1>8. walk.phase = "paging" => walk.marker \in Keys /\ walk.marker # <<>>
  BY <1>5, KeyOrderIs DEF MarkerIs
<1>9. ASSUME NEW k \in Keys, NEW l \in Keys, Lists(walk.listed, k), Lists(L.contents, l)
      PROVE  Before(k, l)
  <2>1. walk.phase = "paging" /\ ~Before(walk.marker, k)
    BY <1>2, <1>5, <1>7, <1>9 DEF MarkerIs
  <2>2. Before(walk.marker, l)
    BY <1>6, <1>8, <1>9, <2>1 DEF InReach
  <2> QED  BY <1>8, <2>1, <2>2, KeysAreOrdered
<1>10. /\ walk'.listed \in Seq(Keys) /\ Sorted(walk'.listed)
       /\ \A k : Lists(walk'.listed, k) <=> Lists(walk.listed, k) \/ Lists(L.contents, k)
  BY <1>4, <1>5, <1>6, <1>9, SortedTogether
<1>11. Stored({"object"})' = Stored({"object"})
  BY <1>2 DEF Stored
<1>12. TypeOK'
  <2>1. walk'.since \subseteq Stored({"object"})
    BY <1>4, <1>5 DEF TypeOK
  <2>2. walk'.phase \in {"idle", "paging", "done", "refused"}
    BY <1>4
  <2> QED  BY <1>2, <1>4, <1>5, <1>10, <1>11, <2>1, <2>2 DEF TypeOK
<1>13. (OnDisk => DiskIs)'
  BY <1>2, <1>5, <1>11 DEF OnDisk, DiskIs, DirsOf, Clean
<1>14. MarkerIs'
  <2>1. walk'.phase # "idle"
    BY <1>4
  <2>2. ASSUME walk'.phase = "paging"
        PROVE  backend' = "mem" /\ walk'.marker \in Keys
               /\ \A k : Lists(walk'.listed, k) => ~Before(walk'.marker, k)
    <3>1. L.truncated
      BY <1>4, <2>2
    <3>2. backend' = "mem" /\ walk'.marker \in Keys
      BY <1>2, <1>4, <1>6, <3>1
    <3>3. ASSUME NEW k, Lists(L.contents, k)
          PROVE  ~Before(walk'.marker, k)
      BY <1>4, <1>6, <3>1, <3>3 DEF InReach
    <3>4. ASSUME NEW k, Lists(walk.listed, k)
          PROVE  ~Before(walk'.marker, k)
      <4>1. walk.phase = "paging" /\ ~Before(walk.marker, k)
        BY <1>2, <1>5, <1>7, <3>4 DEF MarkerIs
      <4>2. Before(walk.marker, L.marker) /\ L.marker \in Keys
        BY <1>6, <1>8, <3>1, <4>1
      <4>3. k \in Keys
        BY <1>5, <3>4 DEF Lists
      <4> QED  BY <1>4, <1>8, <4>1, <4>2, <4>3, KeysAreOrdered
    <3> QED  BY <1>10, <3>2, <3>3, <3>4
  <2> QED  BY <2>1, <2>2 DEF MarkerIs
<1>15. CoveredIs'
  <2>1. \A k : Named(k)' = Named(k) /\ Regular(k)' = Regular(k)
    BY <1>2 DEF Named, Regular
  <2>2. NamesCommonPrefixes' = NamesCommonPrefixes
    BY <1>2 DEF NamesCommonPrefixes, WalksTree, ReadsDirectory, OnDisk, FilePrefix
  <2>3. ASSUME NEW k \in walk'.since, Regular(k), Behind(k)'
        PROVE  /\ Named(k) = Content => Lists(walk'.listed, k)
               /\ Named(k).is = "common" /\ NamesCommonPrefixes => Named(k).part \in walk'.prefixes
    <3>1. ~IsError(L) /\ (L.truncated => ~Before(L.marker, k))
      BY <1>3, <1>4, <2>3 DEF Behind, IsPage
    <3>2. k \in Stored({"object"})
      BY <1>4, <1>5, <2>3 DEF TypeOK
    <3>3. CASE walk.marker = <<>> \/ Before(walk.marker, k)
      <4>1. Covers(L, k)
        BY <1>6, <2>3, <3>1, <3>2, <3>3 DEF InReach
      <4> QED  BY <1>4, <1>10, <4>1 DEF Covers
    <3>4. CASE walk.marker # <<>> /\ ~Before(walk.marker, k)
      <4>1. walk.phase = "paging" /\ k \in walk.since
        BY <1>2, <1>4, <1>5, <2>3, <3>4 DEF MarkerIs
      <4>2. Behind(k)
        BY <3>4, <4>1 DEF Behind
      <4> QED  BY <1>4, <1>5, <1>10, <2>3, <4>1, <4>2 DEF CoveredIs
    <3> QED  BY <3>3, <3>4
  <2> QED  BY <2>1, <2>2, <2>3 DEF CoveredIs
<1> QED  BY <1>10, <1>12, <1>13, <1>14, <1>15 DEF IInv

LEMMA PutKeeps ==
    ASSUME IInv, NEW k \in Keys, Put(k)
    PROVE  IInv'
<1>1. /\ OnDisk => Fits(k)
      /\ state' = [state EXCEPT ![k] = "object"]
      /\ dirs' = IF OnDisk THEN dirs \cup DirsOf(k) ELSE dirs
      /\ UNCHANGED <<backend, request, walk>>
  BY DEF Put
<1>2. TypeOK /\ MarkerIs /\ Sorted(walk.listed) /\ CoveredIs /\ (OnDisk => DiskIs)
  BY DEF IInv
<1>3. state' \in [Keys -> {"object", "deleted", "archived", "none"}]
  BY <1>1, <1>2 DEF TypeOK
<1>4. Stored({"object"})' = Stored({"object"}) \cup {k}
  BY <1>1, <1>2 DEF Stored, TypeOK
<1>5. TypeOK'
  BY <1>1, <1>2, <1>3, <1>4 DEF TypeOK
<1>6. (OnDisk => DiskIs)'
  <2> SUFFICES ASSUME OnDisk'
               PROVE  DiskIs'
    OBVIOUS
  <2>1. OnDisk /\ DiskIs /\ dirs' = dirs \cup DirsOf(k) /\ Fits(k)
    BY <1>1, <1>2 DEF OnDisk
  <2>2. Clean(k)
    <3>1. k \in Strings
      BY KeyOrderIs
    <3>2. DOMAIN Split(k, Slash) = 1 .. Len(Split(k, Slash))
      BY <3>1, SplitIs
    <3> QED  BY <2>1, <3>2 DEF Clean, Fits, ToSet
  <2>3. DirsOf(k) \subseteq Seq(Strings)
    <3>1. Paths[k] \in Seq(Strings) /\ Len(Paths[k]) \in Nat
      BY PathIs
    <3>2. ASSUME NEW n \in 0 .. Len(Paths[k]) - 1
          PROVE  SubSeq(Paths[k], 1, n) \in Seq(Strings)
      <4>1. n \in 0 .. Len(Paths[k]) /\ 1 \in 1 .. Len(Paths[k]) + 1
        BY <3>1
      <4> QED  BY <3>1, <4>1, PartIs
    <3> QED  BY <3>2 DEF DirsOf
  <2>4. \A l \in Stored({"object"})' : Clean(l) /\ DirsOf(l) \subseteq dirs'
    BY <1>4, <2>1, <2>2 DEF DiskIs
  <2>5. dirs' \subseteq Seq(Strings) /\ <<>> \in dirs'
    BY <2>1, <2>3 DEF DiskIs
  <2> QED  BY <2>4, <2>5 DEF DiskIs, Clean, DirsOf
<1>7. (MarkerIs /\ Sorted(walk.listed) /\ CoveredIs)'
  BY <1>1, <1>2 DEF MarkerIs, CoveredIs, Behind, Regular, Named, NamesCommonPrefixes,
                    WalksTree, ReadsDirectory, OnDisk, FilePrefix
<1> QED  BY <1>5, <1>6, <1>7 DEF IInv

LEMMA DeleteKeeps ==
    ASSUME IInv, NEW k \in Keys, NEW left \in {"deleted", "archived", "none"}, Delete(k, left)
    PROVE  IInv'
<1>1. /\ state' = [state EXCEPT ![k] = left]
      /\ walk' = [walk EXCEPT !.since = @ \ {k}]
      /\ UNCHANGED <<backend, request, dirs>>
  BY DEF Delete
<1>2. TypeOK /\ MarkerIs /\ Sorted(walk.listed) /\ CoveredIs /\ (OnDisk => DiskIs)
  BY DEF IInv
<1>3. state' \in [Keys -> {"object", "deleted", "archived", "none"}]
  BY <1>1, <1>2 DEF TypeOK
<1>4. Stored({"object"})' = Stored({"object"}) \ {k}
  BY <1>1, <1>2 DEF Stored, TypeOK
<1>5. /\ walk'.phase = walk.phase /\ walk'.marker = walk.marker /\ walk'.listed = walk.listed
      /\ walk'.prefixes = walk.prefixes /\ walk'.since = walk.since \ {k}
      /\ walk' = [phase |-> walk'.phase, marker |-> walk'.marker, listed |-> walk'.listed,
                  prefixes |-> walk'.prefixes, since |-> walk'.since]
  <2>1. PICK w : /\ w = [phase |-> walk.phase, marker |-> walk.marker, listed |-> walk.listed,
                         prefixes |-> walk.prefixes, since |-> walk.since]
                 /\ walk = w
    BY <1>2 DEF TypeOK
  <2>2. walk' = [w EXCEPT !.since = walk.since \ {k}]
    BY <1>1, <2>1
  <2>3. walk' = [phase |-> walk.phase, marker |-> walk.marker, listed |-> walk.listed,
                 prefixes |-> walk.prefixes, since |-> walk.since \ {k}]
    BY <2>1, <2>2
  <2> QED  BY <2>3
<1>6. TypeOK'
  BY <1>1, <1>2, <1>3, <1>4, <1>5 DEF TypeOK
<1>7. (OnDisk => DiskIs)'
  BY <1>1, <1>2, <1>4 DEF OnDisk, DiskIs, Clean, DirsOf
<1>8. MarkerIs' /\ Sorted(walk.listed)'
  BY <1>1, <1>2, <1>5 DEF MarkerIs
<1>9. CoveredIs'
  <2>1. \A l : Named(l)' = Named(l) /\ Regular(l)' = Regular(l)
    BY <1>1 DEF Named, Regular
  <2>2. NamesCommonPrefixes' = NamesCommonPrefixes
    BY <1>1 DEF NamesCommonPrefixes, WalksTree, ReadsDirectory, OnDisk, FilePrefix
  <2>3. \A l : Behind(l)' = Behind(l)
    BY <1>5 DEF Behind
  <2> QED  BY <1>2, <1>5, <2>1, <2>2, <2>3 DEF CoveredIs
<1> QED  BY <1>6, <1>7, <1>8, <1>9 DEF IInv

LEMMA StepKeeps == IInv /\ [Next]_vars => IInv'
<1> SUFFICES ASSUME IInv, [Next]_vars
             PROVE  IInv'
  OBVIOUS
<1>1. CASE NextPage
  BY <1>1, NextPageKeeps
<1>2. CASE \E k \in Keys : Put(k)
  BY <1>2, PutKeeps
<1>3. CASE \E k \in Keys : \E left \in {"deleted", "archived", "none"} : Delete(k, left)
  BY <1>3, DeleteKeeps
<1>4. CASE UNCHANGED vars
  BY <1>4 DEF vars, IInv, TypeOK, DiskIs, OnDisk, MarkerIs, CoveredIs, Behind, Regular, Named,
              NamesCommonPrefixes, WalksTree, ReadsDirectory, FilePrefix, Stored, Clean, DirsOf
<1> QED  BY <1>1, <1>2, <1>3, <1>4 DEF Next

THEOREM Invariance == Spec => []IInv
<1>1. Init => IInv
  BY InitIsCovered
<1>2. IInv /\ [Next]_vars => IInv'
  BY StepKeeps
<1> QED  BY <1>1, <1>2, PTL DEF Spec

-----------------------------------------------------------------------------
(* The properties.                                                         *)

\* A client that lists a bucket page by page, while others change it, is given
\* the keys in their order and none twice: what a page of listBucket has is
\* beyond the marker of the last.
THEOREM ListedInOrder == Spec => []InOrderAcrossPages
<1>1. ASSUME IInv
      PROVE  InOrderAcrossPages
  <2>1. Len(walk.listed) \in Nat /\ Sorted(walk.listed)
    BY <1>1 DEF IInv, TypeOK
  <2>2. \A i \in 2 .. Len(walk.listed) :
           i - 1 \in 1 .. Len(walk.listed) /\ i \in 1 .. Len(walk.listed) /\ i - 1 < i
    BY <2>1
  <2> QED  BY <2>1, <2>2 DEF Sorted, InOrderAcrossPages
<1>2. IInv => InOrderAcrossPages
  BY <1>1
<1> QED  BY <1>2, Invariance, PTL

\* A listing of any backend that has come to its end, over as many pages as
\* that took, named every regular key that was in the bucket all along, or its
\* common prefix: no key falls between two pages of listBucket.
THEOREM ListedCompletely == Spec => []NothingIsSkipped
<1>1. ASSUME IInv
      PROVE  NothingIsSkipped
  <2> SUFFICES ASSUME walk.phase = "done", NEW k \in walk.since, Regular(k)
               PROVE  /\ Named(k) = Content => \E i \in DOMAIN walk.listed : walk.listed[i] = k
                      /\ Named(k).is = "common" /\ NamesCommonPrefixes => Named(k).part \in walk.prefixes
    BY DEF NothingIsSkipped
  <2>1. /\ Named(k) = Content => Lists(walk.listed, k)
        /\ Named(k).is = "common" /\ NamesCommonPrefixes => Named(k).part \in walk.prefixes
    BY <1>1 DEF IInv, CoveredIs, Behind
  <2>2. DOMAIN walk.listed = 1 .. Len(walk.listed)
    BY <1>1 DEF IInv, TypeOK
  <2> QED  BY <2>1, <2>2 DEF Lists
<1>2. IInv => NothingIsSkipped
  BY <1>1
<1> QED  BY <1>2, Invariance, PTL

\* A listing has what S3 names of the stored keys, and nothing else.
Exactly(L) ==
    /\ L.contents \in Seq(Keys)
    /\ \A k : Lists(L.contents, k) <=>
          k \in Stored({"object"}) /\ (Named(k) = Content \/ (WalksTree /\ Named(k) # NoMatch))
    /\ NamesCommonPrefixes => \A x : x \in L.prefixes <=>
          \E k \in Stored({"object"}) : Named(k).is = "common" /\ Named(k).part = x

LEMMA ExactlyAgrees ==
    ASSUME NEW L, ~IsError(L) => Exactly(L)
    PROVE  Agrees(L, Stored({"object"}))
<1> SUFFICES ASSUME Exactly(L)
             PROVE  Agrees(L, Stored({"object"}))
  BY DEF Agrees
<1>1. \A k : k \in ToSet(L.contents) <=> Lists(L.contents, k)
  <2>1. DOMAIN L.contents = 1 .. Len(L.contents)
    BY DEF Exactly
  <2> QED  BY <2>1 DEF ToSet, Lists
<1>2. ToSet(L.contents) =
         {k \in Stored({"object"}) : Named(k) = Content \/ (WalksTree /\ Named(k) # NoMatch)}
  BY <1>1 DEF Exactly
<1>3. NamesCommonPrefixes =>
         L.prefixes = {Named(k).part : k \in {l \in Stored({"object"}) : Named(l).is = "common"}}
  BY DEF Exactly
<1> QED  BY <1>2, <1>3 DEF Agrees

LEMMA FoundIsExact ==
    ASSUME request \in Requests, ~WalksTree, NEW L, FindsItsKeys(L, <<>>), ~L.truncated,
           \A k \in Stored({"object"}) : Regular(k)
    PROVE  Exactly(L)
<1>1. \A k \in Stored({"object"}) : Match(k) = Named(k) /\ InReach(k, <<>>, L)
  BY MatchAgrees DEF Stored, InReach
<1>2. /\ L.contents \in Seq(Keys)
      /\ \A k : Lists(L.contents, k) => k \in Stored({"object"}) /\ Match(k) = Content
      /\ \A x \in L.prefixes :
            \E k \in Stored({"object"}) : Match(k).is = "common" /\ Match(k).part = x
      /\ \A k \in Stored({"object"}) : InReach(k, <<>>, L) =>
            /\ Match(k) = Content => Lists(L.contents, k)
            /\ Match(k).is = "common" => Match(k).part \in L.prefixes
  BY DEF FindsItsKeys
<1>3. \A k : Lists(L.contents, k) <=> k \in Stored({"object"}) /\ Named(k) = Content
  BY <1>1, <1>2
<1>4. \A x : x \in L.prefixes <=>
         \E k \in Stored({"object"}) : Named(k).is = "common" /\ Named(k).part = x
  BY <1>1, <1>2
<1> QED  BY <1>2, <1>3, <1>4 DEF Exactly

LEMMA TreeIsExact ==
    ASSUME request \in Requests, WalksTree, NEW L, L = TreeListing,
           \A k \in Stored({"object"}) : Regular(k)
    PROVE  Exactly(L)
<1>1. \A k \in Stored({"object"}) : k \in Keys /\ Match(k) = Named(k)
  BY MatchAgrees DEF Stored
<1>2. /\ L.contents \in Seq(Keys) /\ L.prefixes = {}
      /\ \A k : Lists(L.contents, k) <=> k \in Stored({"object"}) /\ Match(k) # NoMatch
  BY TreeListingIs
<1>3. \A k : Lists(L.contents, k) <=>
         k \in Stored({"object"}) /\ (Named(k) = Content \/ (WalksTree /\ Named(k) # NoMatch))
  BY <1>1, <1>2, KindsAre
<1>4. NamesCommonPrefixes => \A k \in Stored({"object"}) : Named(k).is # "common"
  <2> SUFFICES ASSUME request.delimiter = NoDelimiter, NEW k \in Stored({"object"})
               PROVE  Named(k).is # "common"
    BY DEF NamesCommonPrefixes
  <2>1. Match(k) = IF IsPrefix(request.prefix, k) THEN Content ELSE NoMatch
    BY <1>1, MatchIs
  <2> QED  BY <1>1, <2>1, KindsAre
<1> QED  BY <1>2, <1>3, <1>4 DEF Exactly

LEMMA DirectoryIsExact ==
    ASSUME request \in Requests, DiskIs, ReadsDirectory, NEW L, L = DirectoryListing, ~IsError(L),
           dirs = {<<>>} \cup UNION {DirsOf(k) : k \in Stored({"object"})},
           <<>> \notin ToSet(Front(Split(request.prefix, Slash)))
    PROVE  Exactly(L)
<1>1. PICK dir, part, names : /\ dir = FilePrefix.path /\ part = FilePrefix.part
                              /\ names = Split(request.prefix, Slash)
  OBVIOUS
<1>2. /\ L.contents \in Seq(Keys)
      /\ \A k : Lists(L.contents, k) <=> k \in Stored({"object"}) /\ IsNext(dir, part, Paths[k])
      /\ (backend = "multi" => part = <<>>) => \A x : x \in L.prefixes <=>
            \E d \in dirs : IsNext(dir, part, d) /\ x = Append(Name(d), Slash)
  <2>1. ListsNext(L, dir, part)
    BY <1>1, DirectoryListingIs
  <2> QED  BY <2>1 DEF ListsNext
<1>3. names \in Seq(Strings) /\ Len(names) \in Nat \ {0} /\ dir \in Seq(Strings)
  BY <1>1, FilePrefixIs
<1>4. \A i \in 1 .. Len(names) - 1 : names[i] # <<>>
  <2>1. PICK n \in Nat \ {0} : n = Len(names)
    BY <1>3
  <2>2. n - 1 \in 0 .. Len(names) /\ 1 \in 1 .. Len(names) + 1 /\ n - 1 - 1 + 1 = n - 1
        /\ \A i \in 1 .. n - 1 : 1 + i - 1 = i
    BY <2>1
  <2>3. /\ SubSeq(names, 1, n - 1) \in Seq(Strings)
        /\ Len(SubSeq(names, 1, n - 1)) = IF 1 <= n - 1 THEN n - 1 - 1 + 1 ELSE 0
        /\ \A i \in 1 .. n - 1 - 1 + 1 : SubSeq(names, 1, n - 1)[i] = names[1 + i - 1]
    BY <1>3, <2>2, PartIs
  <2>4. PICK front : front = SubSeq(names, 1, n - 1)
    OBVIOUS
  <2>5. DOMAIN front = 1 .. n - 1 /\ \A i \in 1 .. n - 1 : front[i] = names[i]
    BY <2>2, <2>3, <2>4
  <2>6. <<>> \notin ToSet(front)
    BY <1>1, <2>1, <2>4 DEF Front
  <2> QED  BY <2>1, <2>5, <2>6 DEF ToSet
<1>5. ASSUME NEW k \in Stored({"object"})
      PROVE  /\ IsNext(dir, part, Paths[k]) <=> Named(k) = Content
             /\ Named(k).is = "common" =>
                   \E d \in DirsOf(k) : IsNext(dir, part, d) /\ Named(k).part = Append(Name(d), Slash)
             /\ \A d \in DirsOf(k) : IsNext(dir, part, d) =>
                   Named(k).is = "common" /\ Named(k).part = Append(Name(d), Slash)
  <2>1. k \in Keys /\ Clean(k) /\ request.delimiter = Slash
    BY DEF DiskIs, Stored, ReadsDirectory
  <2> QED  BY <1>1, <1>4, <2>1, NamedByPath
<1>6. \A k : Lists(L.contents, k) <=> k \in Stored({"object"}) /\ Named(k) = Content
  BY <1>2, <1>5
<1>7. ASSUME NamesCommonPrefixes
      PROVE  \A x : x \in L.prefixes <=>
                \E k \in Stored({"object"}) : Named(k).is = "common" /\ Named(k).part = x
  <2>1. \A x : x \in L.prefixes <=>
            \E d \in dirs : IsNext(dir, part, d) /\ x = Append(Name(d), Slash)
    BY <1>1, <1>2, <1>7 DEF NamesCommonPrefixes
  <2>2. ~IsNext(dir, part, <<>>)
    <3>1. Len(<<>>) # Len(dir) + 1
      BY <1>3
    <3> QED  BY <3>1 DEF IsNext
  <2>3. \A d \in dirs : IsNext(dir, part, d) => \E k \in Stored({"object"}) : d \in DirsOf(k)
    BY <2>2
  <2>4. \A k \in Stored({"object"}) : DirsOf(k) \subseteq dirs
    BY DEF DiskIs
  <2>5. ASSUME NEW x \in L.prefixes
        PROVE  \E k \in Stored({"object"}) : Named(k).is = "common" /\ Named(k).part = x
    <3>1. PICK d \in dirs : IsNext(dir, part, d) /\ x = Append(Name(d), Slash)
      BY <2>1
    <3>2. PICK k \in Stored({"object"}) : d \in DirsOf(k)
      BY <2>3, <3>1
    <3> QED  BY <1>5, <3>1, <3>2
  <2>6. ASSUME NEW k \in Stored({"object"}), Named(k).is = "common"
        PROVE  Named(k).part \in L.prefixes
    <3>1. PICK d \in DirsOf(k) : IsNext(dir, part, d) /\ Named(k).part = Append(Name(d), Slash)
      BY <1>5, <2>6
    <3>2. d \in dirs
      BY <2>4, <3>1
    <3> QED  BY <2>1, <3>1, <3>2
  <2> QED  BY <2>5, <2>6
<1>8. ~WalksTree
  BY DEF ReadsDirectory, WalksTree
<1> QED  BY <1>2, <1>6, <1>7, <1>8 DEF Exactly

\* "The prefix MUST be correctly handled" (src/backend.go:148): while all keys are
\* Regular, the whole listing of a backend has just the contents that S3 names,
\* whether Prefix.Match finds them by their parts or a directory by its names; and
\* just the common prefixes, where the backend names them (NamesCommonPrefixes).  A
\* walk under a delimiter does not: it has what S3 puts under a common prefix among
\* its contents.  On disk every directory has to hold a file, and the prefix no
\* empty name.  A listing that ends in an error is not judged.
THEOREM ListedCorrectly == Spec => []ListingAgrees
<1>1. ASSUME IInv
      PROVE  ListingAgrees
  <2> SUFFICES ASSUME \A k \in Stored({"object"}) : Regular(k),
                      OnDisk => dirs = {<<>>} \cup UNION {DirsOf(k) : k \in Stored({"object"})},
                      ReadsDirectory => <<>> \notin ToSet(Front(Split(request.prefix, Slash)))
               PROVE  Agrees(ListBucket(<<>>, 0), Stored({"object"}))
    BY DEF ListingAgrees
  <2>1. PICK L : L = ListBucket(<<>>, 0)
    OBVIOUS
  <2>2. /\ request \in Requests /\ backend \in {"mem", "bolt", "multi", "single"}
        /\ OnDisk => DiskIs
    BY <1>1, BucketListingAssumption DEF IInv, TypeOK
  <2>3. CASE backend = "mem"
    <3>1. L = MemListing(<<>>, 0) /\ ~WalksTree
      BY <2>1, <2>3 DEF ListBucket, ReadsDirectory, WalksTree, OnDisk
    <3>2. L = Error \/ (FindsItsKeys(L, <<>>) /\ ~L.truncated)
      BY <2>2, <3>1, MemListingIs
    <3>3. CASE L = Error
      BY <2>1, <3>3, ErrorIs DEF Agrees
    <3> QED  BY <2>1, <2>2, <3>1, <3>2, <3>3, FoundIsExact, ExactlyAgrees
  <2>4. CASE backend = "bolt"
    <3>1. L = BoltListing /\ ~WalksTree
      BY <2>1, <2>4 DEF ListBucket, ReadsDirectory, WalksTree, OnDisk
    <3>2. FindsItsKeys(L, <<>>) /\ ~L.truncated
      BY <3>1, BoltListingIs
    <3> QED  BY <2>1, <2>2, <3>1, <3>2, FoundIsExact, ExactlyAgrees
  <2>5. CASE ReadsDirectory
    <3>1. backend \notin {"mem", "bolt"} /\ OnDisk
      BY <2>5 DEF ReadsDirectory, OnDisk
    <3>2. L = DirectoryListing
      BY <2>1, <2>5, <3>1 DEF ListBucket, ReadsDirectory, WalksTree
    <3> QED  BY <2>1, <2>2, <2>5, <3>1, <3>2, DirectoryIsExact, ExactlyAgrees
  <2>6. CASE WalksTree
    <3>1. backend \notin {"mem", "bolt"}
      BY <2>6 DEF WalksTree, OnDisk
    <3>2. L = TreeListing
      BY <2>1, <2>6, <3>1 DEF ListBucket, ReadsDirectory, WalksTree
    <3> QED  BY <2>1, <2>2, <2>6, <3>2, TreeIsExact, ExactlyAgrees
  <2>7. backend \in {"mem", "bolt"} \/ ReadsDirectory \/ WalksTree
    BY <2>2 DEF ReadsDirectory, WalksTree, OnDisk
  <2> QED  BY <2>3, <2>4, <2>5, <2>6, <2>7
<1>2. IInv => ListingAgrees
  BY <1>1
<1> QED  BY <1>2, Invariance, PTL

=============================================================================
