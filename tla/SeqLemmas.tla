------------------------------ MODULE SeqLemmas ------------------------------
(***************************************************************************)
(* What flattening a sequence of sequences does to one that is extended,   *)
(* and that every sequence can be sorted.  The models keep some elements   *)
(* of a sequence, or map each to several, by flattening; these are the     *)
(* facts their proofs need.  FlattenSeq is                                 *)
(* defined by recursion, so that its equations hold is itself shown by     *)
(* induction: in the form that speaks of a set, not of a predicate.        *)
(***************************************************************************)
EXTENDS Integers, Sequences, SequencesExt, SequenceTheorems, WellFoundedInduction,
        TLAPS

\* A set of numbers with 0 and every successor has all of them: the smallest
\* one missing would have a predecessor.
LEMMA SetInduction ==
  ASSUME NEW S, 0 \in S, \A n \in Nat : n \in S => n + 1 \in S
  PROVE  Nat \subseteq S
<1> DEFINE missing == Nat \ S
           less    == OpToRel(<, Nat)
<1> SUFFICES ASSUME missing # {} PROVE FALSE
  OBVIOUS
<1>1. PICK n \in missing : \A m \in missing : <<m, n>> \notin less
  <2>1. IsWellFoundedOn(less, Nat) /\ missing \subseteq Nat
    BY NatLessThanWellFounded
  <2> HIDE DEF less, missing
  <2> QED
    BY <2>1, WFMin
<1>2. n - 1 \in missing /\ n - 1 < n
  OBVIOUS
<1>3. <<n - 1, n>> \in less
  BY <1>2 DEF OpToRel
<1> QED
  BY <1>1, <1>2, <1>3

\* The same for sequences.
LEMMA SeqInduction ==
  ASSUME NEW S, NEW P, <<>> \in P, \A s \in Seq(S) : \A x \in S : s \in P => Append(s, x) \in P
  PROVE  Seq(S) \subseteq P
<1> DEFINE N == {n \in Nat : \A s \in Seq(S) : Len(s) = n => s \in P}
<1>1. 0 \in N
  OBVIOUS
<1>2. ASSUME NEW n \in Nat, n \in N PROVE n + 1 \in N
  <2> SUFFICES ASSUME NEW s \in Seq(S), Len(s) = n + 1 PROVE s \in P
    OBVIOUS
  <2>1. s # <<>>
    OBVIOUS
  <2>2. PICK t \in Seq(S), x \in S : s = Append(t, x)
    BY <2>1, SequenceEmptyOrAppend
  <2>3. Len(t) = n
    BY <2>2
  <2> QED
    BY <1>2, <2>2, <2>3
<1> HIDE DEF N
<1>3. Nat \subseteq N
  BY <1>1, <1>2, SetInduction
<1> QED
  BY <1>3, LenProperties DEF N

\* A set of numbers that is not empty has a smallest one.
LEMMA SmallestExists ==
  ASSUME NEW S, S \subseteq Nat, S # {}
  PROVE  \E j \in S : \A k \in S : j <= k
<1> DEFINE less == OpToRel(<, Nat)
<1>1. PICK j \in S : \A k \in S : <<k, j>> \notin less
  <2>1. IsWellFoundedOn(less, Nat)
    BY NatLessThanWellFounded
  <2> HIDE DEF less
  <2> QED
    BY <2>1, WFMin
<1>2. ASSUME NEW k \in S PROVE j <= k
  <2>1. ~(k < j)
    BY <1>1 DEF OpToRel
  <2> QED
    BY <2>1
<1> QED
  BY <1>2

\* The equations of the function FlattenSeq applies.
Flattens(f, s) ==
  f = [i \in 1..Len(s) |-> IF i = 1 THEN s[i] ELSE f[i - 1] \o s[i]]

\* They hold of a function given value by value.
LEMMA FlattensByValue ==
  ASSUME NEW s, NEW f, f = [i \in 1..Len(s) |-> f[i]],
         \A i \in 1..Len(s) : f[i] = IF i = 1 THEN s[i] ELSE f[i - 1] \o s[i]
  PROVE  Flattens(f, s)
BY DEF Flattens

LEMMA FlattensValues ==
  ASSUME NEW s, NEW f, Flattens(f, s), NEW i \in 1..Len(s)
  PROVE  f[i] = IF i = 1 THEN s[i] ELSE f[i - 1] \o s[i]
<1> DEFINE v(k) == IF k = 1 THEN s[k] ELSE f[k - 1] \o s[k]
<1>1. f = [k \in 1..Len(s) |-> v(k)]
  BY DEF Flattens
<1> HIDE DEF v
<1>2. f[i] = v(i)
  BY <1>1
<1> QED
  BY <1>2 DEF v

\* There is such a function for every sequence.
LEMMA FlattenExists ==
  ASSUME NEW T, NEW s \in Seq(T)
  PROVE  \E f : Flattens(f, s)
<1> DEFINE P == {t \in Seq(T) : \E f : Flattens(f, t)}
<1>1. <<>> \in P
  <2>1. <<>> \in Seq(T) /\ 1..Len(<<>>) = {}
    OBVIOUS
  <2> DEFINE f == [i \in {} |-> <<>>]
  <2>2. Flattens(f, <<>>)
    BY <2>1 DEF Flattens
  <2> QED
    BY <2>1, <2>2
<1>2. ASSUME NEW t \in Seq(T), NEW x \in T, t \in P PROVE Append(t, x) \in P
  <2>1. PICK f : Flattens(f, t)
    BY <1>2
  <2> DEFINE n == Len(t)
             w == Append(t, x)
             g == [i \in 1..(n + 1) |-> IF i = n + 1 THEN IF n = 0 THEN x ELSE f[n] \o x ELSE f[i]]
  <2>2. n \in Nat /\ w \in Seq(T) /\ Len(w) = n + 1 /\ w[n + 1] = x /\ \A i \in 1..n : w[i] = t[i]
    BY AppendProperties, LenProperties
  <2>3. \A i \in 1..n : f[i] = IF i = 1 THEN t[i] ELSE f[i - 1] \o t[i]
    BY <2>1, FlattensValues
  <2>4. /\ \A i \in 1..n : g[i] = f[i]
        /\ g[n + 1] = IF n = 0 THEN x ELSE f[n] \o x
    BY <2>2
  <2>5. g = [i \in 1..Len(w) |-> g[i]]
    BY <2>2
  <2> HIDE DEF g, w, n
  <2>6. ASSUME NEW i \in 1..Len(w) PROVE g[i] = IF i = 1 THEN w[i] ELSE g[i - 1] \o w[i]
    <3>1. CASE i = n + 1
      <4>1. CASE n = 0
        BY <2>2, <2>4, <3>1, <4>1
      <4>2. CASE n # 0
        <5>1. i # 1 /\ i - 1 = n /\ n \in 1..n
          BY <2>2, <3>1, <4>2
        <5> QED
          BY <2>2, <2>4, <3>1, <4>2, <5>1
      <4> QED
        BY <4>1, <4>2
    <3>2. CASE i # n + 1
      <4>1. i \in 1..n
        BY <2>2, <3>2
      <4>2. CASE i = 1
        BY <2>2, <2>3, <2>4, <4>1, <4>2
      <4>3. CASE i # 1
        <5>1. i - 1 \in 1..n
          BY <2>2, <4>1, <4>3
        <5> QED
          BY <2>2, <2>3, <2>4, <4>1, <4>3, <5>1
      <4> QED
        BY <4>2, <4>3
    <3> QED
      BY <3>1, <3>2
  <2>7. Flattens(g, w)
    BY <2>5, <2>6, FlattensByValue
  <2> QED
    BY <2>2, <2>7 DEF w
<1> HIDE DEF P
<1>3. Seq(T) \subseteq P
  BY <1>1, <1>2, SeqInduction
<1> QED
  BY <1>3 DEF P

\* So FlattenSeq is the last value of one.
LEMMA FlattenValue ==
  ASSUME NEW T, NEW s \in Seq(T), s # <<>>
  PROVE  \E f : Flattens(f, s) /\ FlattenSeq(s) = f[Len(s)]
<1> DEFINE flatten == CHOOSE f : f = [i \in 1..Len(s) |-> IF i = 1 THEN s[i] ELSE f[i - 1] \o s[i]]
<1>1. Flattens(flatten, s)
  <2>1. \E f : f = [i \in 1..Len(s) |-> IF i = 1 THEN s[i] ELSE f[i - 1] \o s[i]]
    BY FlattenExists DEF Flattens
  <2>2. flatten = [i \in 1..Len(s) |-> IF i = 1 THEN s[i] ELSE flatten[i - 1] \o s[i]]
    BY ONLY <2>1, Zenon
  <2> HIDE DEF flatten
  <2> QED
    BY <2>2 DEF Flattens
<1>2. FlattenSeq(s) = flatten[Len(s)]
  <2>1. Len(s) # 0
    OBVIOUS
  <2> QED
    BY <2>1, Zenon DEF FlattenSeq
<1> HIDE DEF flatten
<1> QED
  BY <1>1, <1>2

\* Two such functions agree as far as their sequences do.
LEMMA FlattensAgree ==
  ASSUME NEW s, NEW t, NEW f, NEW g, Flattens(f, s), Flattens(g, t),
         Len(s) \in Nat, Len(t) \in Nat,
         NEW k \in 1..Len(s), k <= Len(t), \A i \in 1..k : s[i] = t[i]
  PROVE  f[k] = g[k]
<1> DEFINE N == {n \in Nat : n \in 1..k => f[n] = g[n]}
<1>1. /\ \A i \in 1..k : f[i] = IF i = 1 THEN s[i] ELSE f[i - 1] \o s[i]
      /\ \A i \in 1..k : g[i] = IF i = 1 THEN t[i] ELSE g[i - 1] \o t[i]
  <2>1. 1..k \subseteq 1..Len(s) /\ 1..k \subseteq 1..Len(t)
    OBVIOUS
  <2> QED
    BY <2>1, FlattensValues
<1>2. 0 \in N
  OBVIOUS
<1>3. ASSUME NEW n \in Nat, n \in N PROVE n + 1 \in N
  <2> SUFFICES ASSUME n + 1 \in 1..k PROVE f[n + 1] = g[n + 1]
    OBVIOUS
  <2>1. CASE n = 0
    BY <1>1, <2>1
  <2>2. CASE n # 0
    <3>1. f[n] = g[n] /\ (n + 1) - 1 = n /\ n + 1 # 1
      BY <1>3, <2>2
    <3> QED
      BY <1>1, <3>1
  <2> QED
    BY <2>1, <2>2
<1>4. k \in N
  <2> HIDE DEF N
  <2>1. Nat \subseteq N
    BY <1>2, <1>3, SetInduction
  <2> QED
    BY <2>1
<1> QED
  BY <1>4

-----------------------------------------------------------------------------
(* Flattening.                                                             *)

\* Nothing.
LEMMA FlattenEmpty == FlattenSeq(<<>>) = <<>>
BY DEF FlattenSeq

\* One more sequence is appended.
LEMMA FlattenAppend ==
  ASSUME NEW S, NEW s \in Seq(Seq(S)), NEW x \in Seq(S)
  PROVE  FlattenSeq(Append(s, x)) = FlattenSeq(s) \o x
<1> DEFINE T == Seq(S)
           w == Append(s, x)
           n == Len(s)
<1>0. s \in Seq(T) /\ x \in T /\ <<>> \o x = x
  BY ConcatEmptySeq
<1> HIDE DEF T
<1>1. /\ w \in Seq(T) /\ w # <<>> /\ Len(w) = n + 1 /\ n \in Nat
      /\ w[n + 1] = x /\ \A i \in 1..n : w[i] = s[i]
  BY <1>0, AppendProperties, LenProperties
<1>4. CASE s = <<>>
  <2> HIDE DEF w
  <2>1. PICK f : Flattens(f, w) /\ FlattenSeq(w) = f[n + 1]
    BY <1>1, FlattenValue
  <2>2. f[n + 1] = IF n + 1 = 1 THEN w[n + 1] ELSE f[(n + 1) - 1] \o w[n + 1]
    <3>1. n + 1 \in 1..Len(w)
      BY <1>1
    <3> QED
      BY <2>1, <3>1, FlattensValues
  <2>3. n + 1 = 1
    BY <1>4
  <2> QED
    BY <1>0, <1>1, <1>4, <2>1, <2>2, <2>3, FlattenEmpty DEF w
<1>5. CASE s # <<>>
  <2> HIDE DEF w
  <2>1. PICK f : Flattens(f, w) /\ FlattenSeq(w) = f[n + 1]
    BY <1>1, FlattenValue
  <2>2. PICK g : Flattens(g, s) /\ FlattenSeq(s) = g[n]
    BY <1>0, <1>5, FlattenValue
  <2>3. n # 0
    BY <1>0, <1>5, EmptySeq
  <2>4. n \in 1..Len(w) /\ n <= Len(s) /\ Len(w) \in Nat /\ Len(s) \in Nat /\ n + 1 \in 1..Len(w)
    BY <1>1, <2>3
  <2>5. f[n] = g[n]
    <3>1. \A i \in 1..n : w[i] = s[i]
      BY <1>1
    <3>2. Flattens(f, w) /\ Flattens(g, s)
      BY <2>1, <2>2
    <3> HIDE DEF n
    <3> QED
      BY ONLY <2>4, <3>1, <3>2, FlattensAgree
  <2>6. f[n + 1] = IF n + 1 = 1 THEN w[n + 1] ELSE f[(n + 1) - 1] \o w[n + 1]
    BY <2>1, <2>4, FlattensValues
  <2>7. n + 1 # 1 /\ (n + 1) - 1 = n
    BY <1>1, <2>3
  <2> QED
    BY <1>1, <2>1, <2>2, <2>5, <2>6, <2>7 DEF w
<1> QED
  BY <1>4, <1>5

\* The result is a sequence of the elements.
LEMMA FlattenType ==
  ASSUME NEW S, NEW s \in Seq(Seq(S))
  PROVE  FlattenSeq(s) \in Seq(S)
<1> DEFINE T == Seq(S)
           P == {t \in Seq(T) : FlattenSeq(t) \in T}
<1>1. <<>> \in P
  BY FlattenEmpty, EmptySeq
<1>2. ASSUME NEW t \in Seq(T), NEW x \in T, t \in P PROVE Append(t, x) \in P
  <2>1. FlattenSeq(Append(t, x)) = FlattenSeq(t) \o x
    BY FlattenAppend
  <2>2. FlattenSeq(t) \o x \in T
    BY <1>2, ConcatProperties
  <2>3. Append(t, x) \in Seq(T)
    <3> HIDE DEF T
    <3> QED
      BY AppendProperties
  <2> QED
    BY <2>1, <2>2, <2>3
<1>3. Seq(T) \subseteq P
  <2> HIDE DEF P, T
  <2> QED
    BY <1>1, <1>2, SeqInduction
<1> QED
  BY <1>3

\* One sequence of sequences and then another.
LEMMA FlattenConcat ==
  ASSUME NEW S, NEW s \in Seq(Seq(S)), NEW t \in Seq(Seq(S))
  PROVE  FlattenSeq(s \o t) = FlattenSeq(s) \o FlattenSeq(t)
<1> DEFINE T == Seq(S)
           P == {u \in Seq(T) : FlattenSeq(s \o u) = FlattenSeq(s) \o FlattenSeq(u)}
<1>1. <<>> \in P
  <2>1. FlattenSeq(s) \o <<>> = FlattenSeq(s)
    BY FlattenType, ConcatEmptySeq
  <2>2. s \o <<>> = s /\ <<>> \in Seq(T)
    <3>1. s \in Seq(T)
      OBVIOUS
    <3> HIDE DEF T
    <3> QED
      BY <3>1, ConcatEmptySeq, EmptySeq
  <2> QED
    BY <2>1, <2>2, FlattenEmpty
<1>2. ASSUME NEW u \in Seq(T), NEW x \in T, u \in P PROVE Append(u, x) \in P
  <2>1. s \o Append(u, x) = Append(s \o u, x) /\ s \o u \in Seq(T) /\ Append(u, x) \in Seq(T)
    <3>1. s \in Seq(T)
      OBVIOUS
    <3> HIDE DEF T
    <3>2. <<x>> \in Seq(T) /\ Append(u, x) = u \o <<x>> /\ s \o u \in Seq(T)
      BY <3>1, AppendIsConcat, ConcatProperties
    <3>3. Append(s \o u, x) = (s \o u) \o <<x>>
      BY <3>2, AppendIsConcat
    <3>4. (s \o u) \o <<x>> = s \o (u \o <<x>>)
      BY <3>1, <3>2, ConcatAssociative
    <3>5. Append(u, x) \in Seq(T)
      BY AppendProperties
    <3> QED
      BY <3>2, <3>3, <3>4, <3>5
  <2>2. FlattenSeq(s \o Append(u, x)) = (FlattenSeq(s) \o FlattenSeq(u)) \o x
    BY <1>2, <2>1, FlattenAppend
  <2>3. (FlattenSeq(s) \o FlattenSeq(u)) \o x = FlattenSeq(s) \o (FlattenSeq(u) \o x)
    BY FlattenType, ConcatAssociative
  <2>4. FlattenSeq(Append(u, x)) = FlattenSeq(u) \o x
    BY FlattenAppend
  <2> QED
    BY <2>1, <2>2, <2>3, <2>4
<1>3. Seq(T) \subseteq P
  <2> HIDE DEF P, T
  <2> QED
    BY <1>1, <1>2, SeqInduction
<1> QED
  BY <1>3

\* A single sequence.
LEMMA FlattenOne ==
  ASSUME NEW S, NEW x \in Seq(S)
  PROVE  FlattenSeq(<<x>>) = x
<1> DEFINE T == Seq(S)
<1>1. <<x>> = Append(<<>>, x) /\ <<>> \in Seq(T) /\ <<>> \o x = x
  <2>1. x \in T /\ <<>> \o x = x
    BY ConcatEmptySeq
  <2> HIDE DEF T
  <2> QED
    BY <2>1
<1> QED
  BY <1>1, FlattenAppend, FlattenEmpty

\* Empty sequences.
LEMMA FlattenNone ==
  ASSUME NEW S, NEW s \in Seq(Seq(S)), \A i \in DOMAIN s : s[i] = <<>>
  PROVE  FlattenSeq(s) = <<>>
<1> DEFINE T == Seq(S)
           P == {t \in Seq(T) : (\A i \in DOMAIN t : t[i] = <<>>) => FlattenSeq(t) = <<>>}
<1>1. <<>> \in P
  BY FlattenEmpty, EmptySeq
<1>2. ASSUME NEW t \in Seq(T), NEW x \in T, t \in P PROVE Append(t, x) \in P
  <2>1. FlattenSeq(Append(t, x)) = FlattenSeq(t) \o x
    BY FlattenAppend
  <2> HIDE DEF T
  <2>2. /\ Append(t, x) \in Seq(T) /\ DOMAIN t \subseteq DOMAIN Append(t, x)
        /\ \A i \in DOMAIN t : Append(t, x)[i] = t[i]
        /\ Len(t) + 1 \in DOMAIN Append(t, x) /\ Append(t, x)[Len(t) + 1] = x
    BY AppendProperties, LenProperties
  <2>3. ASSUME \A i \in DOMAIN Append(t, x) : Append(t, x)[i] = <<>>
        PROVE  FlattenSeq(Append(t, x)) = <<>>
    <3>1. x = <<>> /\ FlattenSeq(t) = <<>>
      BY <1>2, <2>2, <2>3
    <3>2. <<>> \o <<>> = <<>>
      OBVIOUS
    <3> QED
      BY <2>1, <3>1, <3>2
  <2> QED
    BY <2>2, <2>3
<1>3. Seq(T) \subseteq P
  <2> HIDE DEF P, T
  <2> QED
    BY <1>1, <1>2, SeqInduction
<1> QED
  BY <1>3

\* Each element in a sequence of its own.
LEMMA FlattenSingles ==
  ASSUME NEW S, NEW s \in Seq(S)
  PROVE  FlattenSeq([i \in DOMAIN s |-> <<s[i]>>]) = s
<1> DEFINE Singles(t) == [i \in DOMAIN t |-> <<t[i]>>]
           P == {t \in Seq(S) : FlattenSeq(Singles(t)) = t}
<1>1. <<>> \in P
  <2>1. Singles(<<>>) = <<>>
    OBVIOUS
  <2> HIDE DEF Singles
  <2> QED
    BY <2>1, FlattenEmpty, EmptySeq
<1>2. ASSUME NEW t \in Seq(S), NEW x \in S, t \in P PROVE Append(t, x) \in P
  <2>1. Singles(Append(t, x)) = Append(Singles(t), <<x>>)
    OBVIOUS
  <2>2. Singles(t) \in Seq(Seq(S)) /\ <<x>> \in Seq(S)
    <3>1. Len(t) \in Nat /\ DOMAIN t = 1..Len(t) /\ \A i \in 1..Len(t) : <<t[i]>> \in Seq(S)
      OBVIOUS
    <3> QED
      BY <3>1
  <2> HIDE DEF Singles
  <2>3. FlattenSeq(Singles(Append(t, x))) = FlattenSeq(Singles(t)) \o <<x>>
    BY <2>1, <2>2, FlattenAppend
  <2>4. t \o <<x>> = Append(t, x) /\ Append(t, x) \in Seq(S)
    BY AppendIsConcat, AppendProperties
  <2> QED
    BY <1>2, <2>3, <2>4
<1> HIDE DEF P
<1>3. Seq(S) \subseteq P
  BY <1>1, <1>2, SeqInduction
<1> QED
  BY <1>3 DEF P

-----------------------------------------------------------------------------
(* Flattening what a function makes of each element.                       *)

Mapped(m, s) == [i \in DOMAIN s |-> m[s[i]]]

\* What may be made of each element of S: any number of elements of T.
Listings(S, T) == [S -> Seq(T)]

\* As many images as elements, one by one.
LEMMA MappedValues ==
  ASSUME NEW S, NEW m, NEW s \in Seq(S)
  PROVE  /\ DOMAIN Mapped(m, s) = 1..Len(s) /\ Len(Mapped(m, s)) = Len(s)
         /\ \A i \in 1..Len(s) : Mapped(m, s)[i] = m[s[i]]
<1>1. Len(s) \in Nat /\ DOMAIN s = 1..Len(s)
  OBVIOUS
<1> QED
  BY <1>1 DEF Mapped

\* The images are a sequence.
LEMMA MappedType ==
  ASSUME NEW S, NEW T, NEW m, \A x \in S : m[x] \in T, NEW s \in Seq(S)
  PROVE  Mapped(m, s) \in Seq(T)
<1>1. Len(s) \in Nat /\ DOMAIN s = 1..Len(s) /\ \A i \in 1..Len(s) : m[s[i]] \in T
  OBVIOUS
<1> QED
  BY <1>1 DEF Mapped

\* Those of one sequence and then another.
LEMMA MappedConcat ==
  ASSUME NEW S, NEW m, NEW s \in Seq(S), NEW t \in Seq(S)
  PROVE  Mapped(m, s \o t) = Mapped(m, s) \o Mapped(m, t)
<1> DEFINE all == s \o t
           a   == Mapped(m, s)
           b   == Mapped(m, t)
<1>1. /\ all \in Seq(S) /\ Len(all) = Len(s) + Len(t) /\ Len(s) \in Nat /\ Len(t) \in Nat
      /\ \A i \in 1..Len(all) : all[i] = IF i <= Len(s) THEN s[i] ELSE t[i - Len(s)]
  BY ConcatProperties, LenProperties
<1> HIDE DEF all
<1> DEFINE T == {m[x] : x \in S}
<1>2. a \in Seq(T) /\ b \in Seq(T) /\ Mapped(m, all) \in Seq(T)
  <2>1. \A x \in S : m[x] \in T
    OBVIOUS
  <2> HIDE DEF T
  <2> QED
    BY <1>1, <2>1, MappedType
<1>3. /\ Len(a) = Len(s) /\ \A i \in 1..Len(s) : a[i] = m[s[i]]
      /\ Len(b) = Len(t) /\ \A i \in 1..Len(t) : b[i] = m[t[i]]
  BY MappedValues
<1>4. /\ Len(Mapped(m, all)) = Len(all)
      /\ \A i \in 1..Len(all) : Mapped(m, all)[i] = m[all[i]]
  BY <1>1, MappedValues
<1> HIDE DEF a, b, T
<1>5. /\ a \o b \in Seq(T) /\ Len(a \o b) = Len(all)
      /\ \A i \in 1..Len(all) : (a \o b)[i] = IF i <= Len(s) THEN a[i] ELSE b[i - Len(s)]
  <2>1. /\ a \o b \in Seq(T) /\ Len(a \o b) = Len(a) + Len(b)
        /\ \A i \in 1..(Len(a) + Len(b)) : (a \o b)[i] = IF i <= Len(a) THEN a[i] ELSE b[i - Len(a)]
    BY <1>2, ConcatProperties
  <2> QED
    BY <1>1, <1>3, <2>1
<1>6. ASSUME NEW i \in 1..Len(all) PROVE Mapped(m, all)[i] = (a \o b)[i]
  <2>1. CASE i <= Len(s)
    <3>1. i \in 1..Len(s)
      BY <1>1, <2>1
    <3> QED
      BY <1>1, <1>3, <1>4, <1>5, <2>1, <3>1
  <2>2. CASE ~(i <= Len(s))
    <3>1. i - Len(s) \in 1..Len(t)
      BY <1>1, <2>2
    <3>2. all[i] = t[i - Len(s)] /\ (a \o b)[i] = b[i - Len(s)]
      BY <1>1, <1>5, <2>2
    <3> QED
      BY <1>3, <1>4, <3>1, <3>2
  <2> QED
    BY <2>1, <2>2
<1> QED
  BY <1>2, <1>4, <1>5, <1>6, SeqEqual DEF all, a, b

\* Their flattening.
LEMMA FlatMapConcat ==
  ASSUME NEW S, NEW T, NEW m \in Listings(S, T), NEW s \in Seq(S), NEW t \in Seq(S)
  PROVE  /\ FlattenSeq(Mapped(m, s)) \in Seq(T)
         /\ FlattenSeq(Mapped(m, s \o t)) = FlattenSeq(Mapped(m, s)) \o FlattenSeq(Mapped(m, t))
<1>1. Mapped(m, s) \in Seq(Seq(T)) /\ Mapped(m, t) \in Seq(Seq(T))
  BY MappedType DEF Listings
<1>2. Mapped(m, s \o t) = Mapped(m, s) \o Mapped(m, t)
  BY MappedConcat
<1>3. /\ FlattenSeq(Mapped(m, s)) \in Seq(T)
      /\ FlattenSeq(Mapped(m, s) \o Mapped(m, t)) = FlattenSeq(Mapped(m, s)) \o FlattenSeq(Mapped(m, t))
  BY <1>1, FlattenConcat, FlattenType
<1> QED
  BY <1>2, <1>3

\* That of one element.
LEMMA FlatMapOne ==
  ASSUME NEW S, NEW T, NEW m \in Listings(S, T), NEW x \in S
  PROVE  FlattenSeq(Mapped(m, <<x>>)) = m[x]
<1>1. Mapped(m, <<x>>) = <<m[x]>> /\ m[x] \in Seq(T)
  BY DEF Mapped, Listings
<1> QED
  BY <1>1, FlattenOne

\* That of none.
LEMMA FlatMapNone ==
  ASSUME NEW m PROVE FlattenSeq(Mapped(m, <<>>)) = <<>>
<1>1. Mapped(m, <<>>) = <<>>
  BY DEF Mapped
<1> QED
  BY <1>1, FlattenEmpty

-----------------------------------------------------------------------------
(* Sorting.                                                                *)

\* An order of the places of s by which what has the higher rank comes first.
Sorts(p, r, s) ==
  /\ p \in Bijection(DOMAIN s, DOMAIN s)
  /\ \A i, j \in DOMAIN s : i < j => r[s[p[i]]] >= r[s[p[j]]]

\* In an order of places one more place is put in at k.
InsertedAt(p, k, n) == [i \in 1..(n + 1) |-> IF i < k THEN p[i] ELSE IF i = k THEN n + 1 ELSE p[i - 1]]

LEMMA InsertedOrder ==
  ASSUME NEW n \in Nat, NEW p \in Bijection(1..n, 1..n), NEW k \in 1..(n + 1)
  PROVE  InsertedAt(p, k, n) \in Bijection(1..(n + 1), 1..(n + 1))
<1> DEFINE q == InsertedAt(p, k, n)
<1>1. /\ p \in [1..n -> 1..n]
      /\ \A a, b \in 1..n : p[a] = p[b] => a = b
      /\ \A t \in 1..n : \E a \in 1..n : p[a] = t
  BY DEF Bijection, Injection, Surjection, IsInjective
<1>2. \A i \in 1..(n + 1) : /\ i < k => i \in 1..n /\ q[i] = p[i]
                            /\ i = k => q[i] = n + 1
                            /\ i > k => i - 1 \in 1..n /\ q[i] = p[i - 1]
  BY DEF InsertedAt
<1>3. q = [i \in 1..(n + 1) |-> q[i]]
  BY DEF InsertedAt
<1> HIDE DEF q
<1>4. \A i \in 1..(n + 1) : q[i] \in 1..(n + 1) /\ (q[i] = n + 1 => i = k)
  <2> SUFFICES ASSUME NEW i \in 1..(n + 1) PROVE q[i] \in 1..(n + 1) /\ (q[i] = n + 1 => i = k)
    OBVIOUS
  <2>1. CASE i < k
    BY <1>1, <1>2, <2>1
  <2>2. CASE i = k
    BY <1>2, <2>2
  <2>3. CASE i > k
    <3>1. i - 1 \in 1..n /\ q[i] = p[i - 1]
      BY <1>2, <2>3
    <3>2. p[i - 1] \in 1..n
      BY <1>1, <3>1
    <3> QED
      BY <3>1, <3>2
  <2> QED
    BY <2>1, <2>2, <2>3
<1>5. ASSUME NEW a \in 1..(n + 1), NEW b \in 1..(n + 1), q[a] = q[b] PROVE a = b
  <2> DEFINE u(i) == IF i < k THEN i ELSE i - 1
  <2>1. CASE a = k \/ b = k
    BY <1>2, <1>4, <1>5, <2>1
  <2>2. CASE a # k /\ b # k
    <3>1. u(a) \in 1..n /\ u(b) \in 1..n /\ q[a] = p[u(a)] /\ q[b] = p[u(b)]
      BY <1>2, <2>2
    <3>2. u(a) = u(b)
      BY <1>1, <1>5, <3>1
    <3> QED
      BY <2>2, <3>2
  <2> QED
    BY <2>1, <2>2
<1>6. ASSUME NEW t \in 1..(n + 1) PROVE \E i \in 1..(n + 1) : q[i] = t
  <2>1. CASE t = n + 1
    BY <1>2, <2>1
  <2>2. CASE t # n + 1
    <3>1. PICK a \in 1..n : p[a] = t
      <4>1. t \in 1..n
        BY <2>2
      <4> QED
        BY <1>1, <4>1
    <3>2. CASE a < k
      <4>1. a \in 1..(n + 1) /\ q[a] = p[a]
        BY <1>2, <3>2
      <4> QED
        BY <3>1, <4>1
    <3>3. CASE a >= k
      <4>1. a + 1 \in 1..(n + 1) /\ a + 1 > k /\ (a + 1) - 1 = a
        BY <3>3
      <4>2. q[a + 1] = p[a]
        BY <1>2, <4>1
      <4> QED
        BY <3>1, <4>1, <4>2
    <3> QED
      BY <3>2, <3>3
  <2> QED
    BY <2>1, <2>2
<1>7. q \in [1..(n + 1) -> 1..(n + 1)]
  BY <1>3, <1>4
<1>8. q \in Bijection(1..(n + 1), 1..(n + 1))
  BY <1>5, <1>6, <1>7 DEF Bijection, Injection, Surjection, IsInjective
<1> QED
  BY <1>8 DEF q

\* Every sequence can be sorted.
LEMMA SortExists ==
  ASSUME NEW T, NEW r \in [T -> Int], NEW s \in Seq(T)
  PROVE  \E p : Sorts(p, r, s)
<1> DEFINE P == {t \in Seq(T) : \E p : Sorts(p, r, t)}
<1>1. <<>> \in P
  <2>1. <<>> \in Seq(T) /\ DOMAIN <<>> = {}
    OBVIOUS
  <2> DEFINE p == [i \in {} |-> 0]
  <2>2. p \in Bijection({}, {})
    BY DEF Bijection, Injection, Surjection, IsInjective
  <2>3. Sorts(p, r, <<>>)
    BY <2>1, <2>2 DEF Sorts
  <2> QED
    BY <2>1, <2>3
<1>2. ASSUME NEW t \in Seq(T), NEW x \in T, t \in P PROVE Append(t, x) \in P
  <2> DEFINE n == Len(t)
             w == Append(t, x)
  <2>1. PICK p : Sorts(p, r, t)
    BY <1>2
  <2>2. /\ n \in Nat /\ DOMAIN t = 1..n /\ w \in Seq(T) /\ DOMAIN w = 1..(n + 1) /\ w[n + 1] = x
        /\ \A i \in 1..n : w[i] = t[i] /\ t[i] \in T
    OBVIOUS
  <2>3. /\ p \in Bijection(1..n, 1..n) /\ p \in [1..n -> 1..n]
        /\ \A i, j \in 1..n : i < j => r[t[p[i]]] >= r[t[p[j]]]
    BY <2>1, <2>2 DEF Sorts, Bijection, Injection
  <2> HIDE DEF n, w
  <2> DEFINE lower == {i \in 1..n : r[t[p[i]]] < r[x]}
  \* The place where x goes: before the first of a lower rank.
  <2>4. \E k \in 1..(n + 1) : /\ \A i \in 1..n : i < k => r[t[p[i]]] >= r[x]
                              /\ \A i \in 1..n : i >= k => r[t[p[i]]] <= r[x]
    <3>0. \A i \in 1..n : r[t[p[i]]] \in Int /\ r[x] \in Int
      <4>1. \A i \in 1..n : t[p[i]] \in T
        BY <2>2, <2>3
      <4> QED
        BY <4>1
    <3>1. CASE lower = {}
      <4>1. n + 1 \in 1..(n + 1) /\ \A i \in 1..n : i < n + 1
        BY <2>2
      <4>2. \A i \in 1..n : r[t[p[i]]] >= r[x]
        BY <3>0, <3>1
      <4>3. \A i \in 1..n : ~(i >= n + 1)
        BY <2>2
      <4> QED
        BY <4>1, <4>2, <4>3
    <3>2. CASE lower # {}
      <4>1. lower \subseteq Nat
        BY <2>2
      <4>2. PICK k \in lower : \A j \in lower : k <= j
        BY <3>2, <4>1, SmallestExists
      <4>3. k \in 1..(n + 1)
        BY <2>2
      <4>4. ASSUME NEW i \in 1..n, i < k PROVE r[t[p[i]]] >= r[x]
        <5>1. i \notin lower
          BY <4>1, <4>2, <4>4
        <5> QED
          BY <3>0, <5>1
      <4>5. ASSUME NEW i \in 1..n, i >= k PROVE r[t[p[i]]] <= r[x]
        <5>1. k \in 1..n /\ r[t[p[k]]] < r[x]
          OBVIOUS
        <5>2. r[t[p[k]]] >= r[t[p[i]]]
          BY <2>3, <3>0, <4>5, <5>1
        <5> QED
          BY <3>0, <5>1, <5>2
      <4> HIDE DEF lower
      <4> QED
        BY <4>3, <4>4, <4>5
    <3> QED
      BY <3>1, <3>2
  <2> HIDE DEF lower
  <2>5. PICK k \in 1..(n + 1) : /\ \A i \in 1..n : i < k => r[t[p[i]]] >= r[x]
                               /\ \A i \in 1..n : i >= k => r[t[p[i]]] <= r[x]
    BY <2>4
  <2> DEFINE q == InsertedAt(p, k, n)
  <2>6. q \in Bijection(1..(n + 1), 1..(n + 1))
    BY <2>2, <2>3, InsertedOrder
  \* What stands at a place of the longer sequence.
  <2>7. \A i \in 1..(n + 1) : /\ i < k => i \in 1..n /\ w[q[i]] = t[p[i]]
                              /\ i = k => w[q[i]] = x
                              /\ i > k => i - 1 \in 1..n /\ w[q[i]] = t[p[i - 1]]
    <3>1. \A i \in 1..(n + 1) : /\ i < k => i \in 1..n /\ q[i] = p[i]
                                /\ i = k => q[i] = n + 1
                                /\ i > k => i - 1 \in 1..n /\ q[i] = p[i - 1]
      BY <2>2 DEF InsertedAt
    <3> HIDE DEF q
    <3> QED
      BY <2>2, <2>3, <3>1
  <2> HIDE DEF q
  <2>8. ASSUME NEW i \in 1..(n + 1), NEW j \in 1..(n + 1), i < j PROVE r[w[q[i]]] >= r[w[q[j]]]
    <3>0. r[x] \in Int /\ \A a \in 1..n : r[t[p[a]]] \in Int
      <4>1. \A a \in 1..n : t[p[a]] \in T
        BY <2>2, <2>3
      <4> QED
        BY <4>1
    <3>1. CASE j < k
      <4>1. i \in 1..n /\ j \in 1..n /\ w[q[i]] = t[p[i]] /\ w[q[j]] = t[p[j]]
        BY <2>2, <2>7, <2>8, <3>1
      <4> QED
        BY <2>3, <2>8, <4>1
    <3>2. CASE j = k
      <4>1. i \in 1..n /\ i < k /\ w[q[i]] = t[p[i]] /\ w[q[j]] = x
        BY <2>2, <2>7, <2>8, <3>2
      <4> QED
        BY <2>5, <4>1
    <3>3. CASE j > k
      <4>1. j - 1 \in 1..n /\ w[q[j]] = t[p[j - 1]]
        BY <2>7, <3>3
      <4>2. CASE i < k
        <5>1. i \in 1..n /\ w[q[i]] = t[p[i]] /\ i < j - 1
          BY <2>2, <2>7, <3>3, <4>1, <4>2
        <5> QED
          BY <2>3, <4>1, <5>1
      <4>3. CASE i = k
        <5>1. w[q[i]] = x /\ j - 1 >= k
          BY <2>2, <2>7, <3>3, <4>3
        <5>2. r[t[p[j - 1]]] <= r[x]
          BY <2>5, <4>1, <5>1
        <5> QED
          BY <3>0, <4>1, <5>1, <5>2
      <4>4. CASE i > k
        <5>1. i - 1 \in 1..n /\ w[q[i]] = t[p[i - 1]] /\ i - 1 < j - 1
          BY <2>2, <2>7, <2>8, <4>4
        <5> QED
          BY <2>3, <4>1, <5>1
      <4> QED
        BY <2>2, <4>2, <4>3, <4>4
    <3> QED
      BY <2>2, <3>1, <3>2, <3>3
  <2>9. Sorts(q, r, w)
    BY <2>2, <2>6, <2>8 DEF Sorts
  <2> QED
    BY <2>2, <2>9 DEF w
<1> HIDE DEF P
<1>3. Seq(T) \subseteq P
  BY <1>1, <1>2, SeqInduction
<1> QED
  BY <1>3 DEF P
=============================================================================
