----------------------------- MODULE ChatRelayProofs -----------------------------
(***************************************************************************)
(* The relay of a chat answer, for all answers and all ways to cut them.   *)
(***************************************************************************)
EXTENDS ChatRelay, Integers, SequenceTheorems, FiniteSetTheorems, WellFoundedInduction, TLAPS

--------------------------------------------------------------------------------
(* Induction, over the numbers in a set and the sequences in a set.        *)

LEMMA LeastExists ==
  ASSUME NEW T \in SUBSET Nat, T # {}
  PROVE  \E x \in T : \A y \in T : x <= y
<1> DEFINE R == OpToRel(<, Nat)
<1>1. IsWellFoundedOn(R, Nat)
  BY NatLessThanWellFounded
<1>2. \A x, y \in Nat : <<y, x>> \in R <=> y < x
  BY DEF OpToRel
<1> HIDE DEF R
<1>3. PICK x \in T : \A y \in T : ~(<<y, x>> \in R)
  BY <1>1, WFMin
<1>4. ASSUME NEW y \in T
      PROVE  x <= y
  <2>1. ~(y < x)
    BY <1>2, <1>3, <1>4
  <2> QED
    BY <2>1
<1> QED
  BY <1>4

LEMMA NumbersInduction ==
  ASSUME NEW S, 0 \in S, \A n \in Nat : n \in S => n + 1 \in S
  PROVE  Nat \subseteq S
<1> SUFFICES ASSUME Nat \ S # {} PROVE FALSE
  OBVIOUS
<1>1. PICK x \in Nat \ S : \A y \in Nat \ S : x <= y
  BY LeastExists
<1>2. x # 0 /\ x - 1 \in Nat
  BY <1>1
<1>3. x - 1 \in S
  BY <1>1, <1>2
<1>4. (x - 1) + 1 \in S
  BY <1>2, <1>3
<1> QED
  BY <1>1, <1>4

LEMMA SeqSetInduction ==
  ASSUME NEW A, NEW T, <<>> \in T, \A s \in Seq(A), x \in A : s \in T => Append(s, x) \in T
  PROVE  Seq(A) \subseteq T
<1> DEFINE S == {n \in Nat : \A s \in Seq(A) : Len(s) = n => s \in T}
<1>1. 0 \in S
  BY EmptySeq
<1>2. ASSUME NEW n \in Nat, n \in S
      PROVE  n + 1 \in S
  <2>1. ASSUME NEW s \in Seq(A), Len(s) = n + 1
        PROVE  s \in T
    <3>1. s # <<>>
      BY <2>1, EmptySeq
    <3>2. PICK t \in Seq(A), x \in A : s = Append(t, x)
      BY <3>1, SequenceEmptyOrAppend
    <3>3. Len(s) = Len(t) + 1 /\ Len(t) \in Nat
      BY <3>2, AppendProperties, LenProperties
    <3>4. Len(t) = n
      BY <2>1, <3>3
    <3> QED
      BY <1>2, <3>2, <3>4
  <2> QED
    BY <2>1
<1>3. Nat \subseteq S
  <2> HIDE DEF S
  <2> QED
    BY <1>1, <1>2, NumbersInduction
<1>4. \A s \in Seq(A) : Len(s) \in Nat
  BY LenProperties
<1> QED
  BY <1>3, <1>4

(* A function that is defined from its value one step before.              *)
IsRun(f, F, b, n) == f[0] = b /\ \A i \in 1..n : f[i] = F[<<i, f[i - 1]>>]

LEMMA RunExists ==
  ASSUME NEW B, NEW F \in [Nat \X B -> B], NEW b \in B, NEW n \in Nat
  PROVE  \E f \in [0..n -> B] : IsRun(f, F, b, n)
<1> DEFINE Is(f, k) == IsRun(f, F, b, k)
           S == {k \in Nat : \E f \in [0..k -> B] : Is(f, k)}
<1>1. 0 \in S
  <2> DEFINE f == [i \in 0..0 |-> b]
  <2>1. f \in [0..0 -> B] /\ f[0] = b
    OBVIOUS
  <2>2. 1..0 = {}
    OBVIOUS
  <2> HIDE DEF f
  <2>3. Is(f, 0)
    BY <2>1, <2>2 DEF IsRun
  <2> QED
    BY <2>1, <2>3
<1>2. ASSUME NEW k \in Nat, k \in S
      PROVE  k + 1 \in S
  <2>1. PICK f \in [0..k -> B] : Is(f, k)
    BY <1>2
  <2> DEFINE next == F[<<k + 1, f[k]>>]
             g == [i \in 0..(k + 1) |-> IF i = k + 1 THEN next ELSE f[i]]
  <2>2. next \in B
    BY <2>1
  <2>3. g \in [0..(k + 1) -> B]
    <3> HIDE DEF next
    <3>1. \A i \in 0..(k + 1) : i = k + 1 \/ i \in 0..k
      OBVIOUS
    <3> QED
      BY <2>1, <2>2, <3>1
  <2>4. g[0] = b
    BY <2>1 DEF IsRun
  <2>5. ASSUME NEW i \in 1..(k + 1)
        PROVE  g[i] = F[<<i, g[i - 1]>>]
    <3>1. CASE i = k + 1
      <4>1. i \in 0..(k + 1) /\ i - 1 = k /\ k \in 0..(k + 1) /\ k # k + 1
        BY <3>1
      <4>2. g[i] = next /\ g[i - 1] = f[k]
        BY <3>1, <4>1
      <4> QED
        BY <3>1, <4>2
    <3>2. CASE i # k + 1
      <4>1. i \in 1..k /\ i \in 0..(k + 1) /\ i - 1 \in 0..(k + 1) /\ i - 1 # k + 1
        BY <3>2
      <4>2. f[i] = F[<<i, f[i - 1]>>]
        BY <2>1, <4>1 DEF IsRun
      <4>3. g[i] = f[i] /\ g[i - 1] = f[i - 1]
        BY <3>2, <4>1
      <4> QED
        BY <4>2, <4>3
    <3> QED
      BY <3>1, <3>2
  <2> HIDE DEF g
  <2>6. Is(g, k + 1)
    BY <2>4, <2>5 DEF IsRun
  <2> QED
    BY <2>3, <2>6
<1>3. Nat \subseteq S
  <2> HIDE DEF S
  <2> QED
    BY <1>1, <1>2, NumbersInduction
<1> QED
  BY <1>3

LEMMA RunIsOne ==
  ASSUME NEW n \in Nat, NEW f, NEW g, NEW F, NEW b, IsRun(f, F, b, n), IsRun(g, F, b, n)
  PROVE  \A i \in 0..n : f[i] = g[i]
<1> DEFINE S == {k \in Nat : k <= n => f[k] = g[k]}
<1>1. 0 \in S
  BY DEF IsRun
<1>2. ASSUME NEW k \in Nat, k \in S
      PROVE  k + 1 \in S
  <2>1. ASSUME k + 1 <= n
        PROVE  f[k + 1] = g[k + 1]
    <3>1. k + 1 \in 1..n /\ (k + 1) - 1 = k /\ k <= n
      BY <2>1
    <3>2. f[k + 1] = F[<<k + 1, f[k]>>] /\ g[k + 1] = F[<<k + 1, g[k]>>]
      BY <3>1 DEF IsRun
    <3>3. f[k] = g[k]
      BY <1>2, <3>1
    <3> QED
      BY <3>2, <3>3
  <2> QED
    BY <2>1
<1>3. Nat \subseteq S
  <2> HIDE DEF S
  <2> QED
    BY <1>1, <1>2, NumbersInduction
<1> QED
  BY <1>3

--------------------------------------------------------------------------------
(* Sequences joined                                                        *)

LEMMA CatFacts ==
  ASSUME NEW A, NEW s \in Seq(A), NEW t \in Seq(A)
  PROVE  /\ s \o t \in Seq(A) /\ Len(s \o t) = Len(s) + Len(t)
         /\ s \o <<>> = s /\ <<>> \o s = s
  OBVIOUS

Chains(s, t, u) == (s \o t) \o u = s \o (t \o u)

LEMMA CatChains ==
  ASSUME NEW A, NEW s \in Seq(A), NEW t \in Seq(A), NEW u \in Seq(A)
  PROVE  s \o t \in Seq(A) /\ Chains(s, t, u)
  BY ConcatAssociative, ConcatProperties DEF Chains

LEMMA CatAppend ==
  ASSUME NEW A, NEW s \in Seq(A), NEW t \in Seq(A), NEW x \in A
  PROVE  s \o Append(t, x) = Append(s \o t, x)
<1>1. s \o t \in Seq(A) /\ Append(t, x) \in Seq(A) /\ <<x>> \in Seq(A)
  BY ConcatProperties, AppendProperties
<1>2. Append(t, x) = t \o <<x>> /\ Append(s \o t, x) = (s \o t) \o <<x>>
  BY <1>1, AppendIsConcat
<1> QED
  BY <1>1, <1>2, ConcatAssociative

(* FlattenSeq joins from left to right.                                    *)
Joins(f, ss) ==
  /\ f[0] = <<>>
  /\ \A i \in 1..Len(ss) : f[i] = f[i - 1] \o ss[i]

LEMMA JoinsExist ==
  ASSUME NEW A, NEW ss \in Seq(Seq(A))
  PROVE  \E f \in [0..Len(ss) -> Seq(A)] : Joins(f, ss)
<1> DEFINE B == Seq(A)
           n == Len(ss)
           F == [p \in Nat \X B |-> IF p[1] \in 1..n THEN p[2] \o ss[p[1]] ELSE p[2]]
<1>1. n \in Nat /\ \A i \in 1..n : ss[i] \in B
  BY LenProperties, ElementOfSeq
<1>2. <<>> \in B /\ \A s, t \in B : s \o t \in B
  BY EmptySeq, ConcatProperties
<1>3. ASSUME NEW i \in 1..n, NEW s \in B
      PROVE  F[<<i, s>>] = s \o ss[i]
  <2> HIDE DEF n, B
  <2>1. <<i, s>> \in Nat \X B /\ <<i, s>>[1] = i /\ <<i, s>>[2] = s
    BY <1>1
  <2> QED
    BY <2>1
<1>4. F \in [Nat \X B -> B]
  <2> HIDE DEF B, n
  <2>1. \A p \in Nat \X B : p[1] \in Nat /\ p[2] \in B
    OBVIOUS
  <2> QED
    BY <1>1, <1>2, <2>1
<1> HIDE DEF F
<1>5. PICK f \in [0..n -> B] : IsRun(f, F, <<>>, n)
  <2> HIDE DEF B, n
  <2> QED
    BY <1>1, <1>2, <1>4, RunExists
<1>6. ASSUME NEW i \in 1..n
      PROVE  f[i] = f[i - 1] \o ss[i]
  <2>1. i - 1 \in 0..n
    BY <1>1
  <2>2. f[i - 1] \in B /\ f[i] = F[<<i, f[i - 1]>>]
    BY <1>5, <2>1 DEF IsRun
  <2> QED
    BY <1>3, <2>2
<1> QED
  BY <1>5, <1>6 DEF Joins, IsRun

LEMMA FlatIsJoined ==
  ASSUME NEW A, NEW ss \in Seq(Seq(A)), NEW f \in [0..Len(ss) -> Seq(A)], Joins(f, ss)
  PROVE  FlattenSeq(ss) = f[Len(ss)]
<1> DEFINE n == Len(ss)
           g == [i \in 1..n |-> f[i]]
           Is(h) == h = [i \in 1..n |-> IF i = 1 THEN ss[i] ELSE h[i - 1] \o ss[i]]
           chosen == CHOOSE h : Is(h)
<1>1. n \in Nat /\ \A i \in 1..n : ss[i] \in Seq(A)
  BY LenProperties, ElementOfSeq
<1>2. CASE n = 0
  <2>1. ss = <<>>
    BY <1>2, EmptySeq
  <2> QED
    BY <1>2, <2>1 DEF Joins, FlattenSeq
<1>3. CASE n # 0
  <2>1. Is(g)
    <3>1. ASSUME NEW i \in 1..n
          PROVE  g[i] = IF i = 1 THEN ss[i] ELSE g[i - 1] \o ss[i]
      <4>1. g[i] = f[i] /\ f[i] = f[i - 1] \o ss[i] /\ ss[i] \in Seq(A)
        BY <1>1 DEF Joins
      <4>2. CASE i = 1
        <5>1. f[i - 1] = <<>>
          BY <4>2 DEF Joins
        <5>2. <<>> \o ss[i] = ss[i]
          BY <4>1, CatFacts
        <5> QED
          BY <4>1, <4>2, <5>1, <5>2
      <4>3. CASE i # 1
        <5>1. i - 1 \in 1..n
          BY <1>1, <4>3
        <5> QED
          BY <4>1, <4>3, <5>1
      <4> QED
        BY <4>2, <4>3
    <3>2. g = [i \in 1..n |-> g[i]]
      OBVIOUS
    <3> HIDE DEF g
    <3> QED
      BY <3>1, <3>2
  <2>2. Is(chosen)
    BY <2>1
  <2>3. FlattenSeq(ss) = chosen[n]
    BY <1>3 DEF FlattenSeq
  <2> HIDE DEF chosen, g
  <2> DEFINE S == {k \in Nat : k + 1 <= n => chosen[k + 1] = g[k + 1]}
  <2>4. 0 \in S
    <3>1. 1 \in 1..n
      BY <1>1, <1>3
    <3> QED
      BY <2>1, <2>2, <3>1
  <2>5. ASSUME NEW k \in Nat, k \in S
        PROVE  k + 1 \in S
    <3>1. ASSUME k + 2 <= n
          PROVE  chosen[k + 2] = g[k + 2]
      <4>1. k + 2 \in 1..n /\ k + 2 # 1 /\ (k + 2) - 1 = k + 1 /\ k + 1 <= n
        BY <1>1, <3>1
      <4>2. chosen[k + 2] = chosen[k + 1] \o ss[k + 2] /\ g[k + 2] = g[k + 1] \o ss[k + 2]
        BY <2>1, <2>2, <4>1
      <4> QED
        BY <2>5, <4>1, <4>2
    <3>2. (k + 1) + 1 = k + 2 /\ k + 1 \in Nat
      OBVIOUS
    <3> QED
      BY <3>1, <3>2
  <2>6. Nat \subseteq S
    <3> HIDE DEF S
    <3> QED
      BY <2>4, <2>5, NumbersInduction
  <2>7. n - 1 \in Nat /\ (n - 1) + 1 = n /\ n <= n /\ n \in 1..n
    BY <1>1, <1>3
  <2>8. chosen[n] = g[n]
    BY <2>6, <2>7
  <2>9. g[n] = f[n]
    BY <2>7 DEF g
  <2> QED
    BY <2>3, <2>8, <2>9
<1> QED
  BY <1>2, <1>3

LEMMA FlatIs ==
  ASSUME NEW A
  PROVE  /\ FlattenSeq(<<>>) = <<>>
         /\ \A ss \in Seq(Seq(A)) : FlattenSeq(ss) \in Seq(A)
         /\ \A ss \in Seq(Seq(A)), s \in Seq(A) : FlattenSeq(Append(ss, s)) = FlattenSeq(ss) \o s
<1>1. FlattenSeq(<<>>) = <<>>
  BY DEF FlattenSeq
<1>2. ASSUME NEW ss \in Seq(Seq(A))
      PROVE  FlattenSeq(ss) \in Seq(A)
  <2>1. PICK f \in [0..Len(ss) -> Seq(A)] : Joins(f, ss)
    BY JoinsExist
  <2>2. Len(ss) \in 0..Len(ss)
    BY LenProperties
  <2> QED
    BY <2>1, <2>2, FlatIsJoined
<1>3. ASSUME NEW ss \in Seq(Seq(A)), NEW s \in Seq(A)
      PROVE  FlattenSeq(Append(ss, s)) = FlattenSeq(ss) \o s
  <2> DEFINE n == Len(ss)
             long == Append(ss, s)
  <2>1. /\ long \in Seq(Seq(A)) /\ Len(long) = n + 1 /\ n \in Nat
        /\ \A i \in 1..n : long[i] = ss[i]
        /\ long[n + 1] = s
    BY AppendProperties, LenProperties
  <2> HIDE DEF long
  <2>2. PICK f \in [0..Len(long) -> Seq(A)] : Joins(f, long)
    BY <2>1, JoinsExist
  <2> DEFINE g == [i \in 0..n |-> f[i]]
  <2>3. g \in [0..n -> Seq(A)]
    BY <2>1, <2>2
  <2>4. Joins(g, ss)
    <3>1. 0 \in 0..n /\ \A i \in 1..n : i \in 0..n /\ i - 1 \in 0..n /\ i \in 1..Len(long)
      BY <2>1
    <3>2. \A i \in 1..n : f[i] = f[i - 1] \o long[i]
      BY <2>2, <3>1 DEF Joins
    <3> QED
      BY <2>1, <2>2, <3>1, <3>2 DEF Joins
  <2>5. FlattenSeq(ss) = g[n] /\ FlattenSeq(long) = f[n + 1]
    <3> HIDE DEF g
    <3> QED
      BY <2>1, <2>2, <2>3, <2>4, FlatIsJoined
  <2>6. n \in 0..n /\ n + 1 \in 1..Len(long) /\ (n + 1) - 1 = n
    BY <2>1
  <2>7. f[n + 1] = f[n] \o s
    BY <2>1, <2>2, <2>6 DEF Joins
  <2> QED
    BY <2>5, <2>6, <2>7 DEF long
<1> QED
  BY <1>1, <1>2, <1>3

(* What every member of s becomes, joined.                                 *)
Image(g, s)   == [k \in DOMAIN s |-> g[s[k]]]
Through(g, s) == FlattenSeq(Image(g, s))

Maps(g, A, B) ==
  \A s \in Seq(A) : /\ Image(g, s) \in Seq(B)
                    /\ \A x \in A : Image(g, Append(s, x)) = Append(Image(g, s), g[x])

LEMMA ImageIs ==
  ASSUME NEW A, NEW B, NEW g \in [A -> B]
  PROVE  Maps(g, A, B)
<1> DEFINE M(t) == Image(g, t)
<1>1. ASSUME NEW t \in Seq(A)
      PROVE  M(t) \in Seq(B) /\ Len(M(t)) = Len(t) /\ \A k \in 1..Len(t) : M(t)[k] = g[t[k]]
  <2>1. Len(t) \in Nat /\ DOMAIN t = 1..Len(t) /\ \A k \in 1..Len(t) : t[k] \in A
    BY LenProperties, ElementOfSeq
  <2>2. M(t) = [k \in 1..Len(t) |-> g[t[k]]]
    BY <2>1 DEF Image
  <2>3. \A k \in 1..Len(t) : g[t[k]] \in B
    BY <2>1
  <2> HIDE DEF M
  <2>4. M(t) \in [1..Len(t) -> B]
    BY <2>2, <2>3
  <2> QED
    BY <2>1, <2>2, <2>4
<1>2. ASSUME NEW s \in Seq(A), NEW x \in A
      PROVE  M(Append(s, x)) = Append(M(s), g[x])
  <2> DEFINE long == Append(s, x)
             left == M(long)
             base == M(s)
             right == Append(base, g[x])
  <2>1. /\ long \in Seq(A) /\ Len(long) = Len(s) + 1 /\ Len(s) \in Nat
        /\ \A i \in 1..Len(s) : long[i] = s[i]
        /\ long[Len(s) + 1] = x
    BY AppendProperties, LenProperties
  <2> HIDE DEF long
  <2>2. left \in Seq(B) /\ Len(left) = Len(long) /\ \A k \in 1..Len(long) : left[k] = g[long[k]]
    BY <1>1, <2>1
  <2>3. base \in Seq(B) /\ Len(base) = Len(s) /\ \A k \in 1..Len(s) : base[k] = g[s[k]]
    BY <1>1
  <2>4. g[x] \in B
    OBVIOUS
  <2> HIDE DEF M, base, left
  <2>5. /\ right \in Seq(B) /\ Len(right) = Len(s) + 1 /\ right[Len(s) + 1] = g[x]
        /\ \A k \in 1..Len(s) : right[k] = base[k]
    BY <2>3, <2>4, AppendProperties
  <2> HIDE DEF right
  <2>6. ASSUME NEW k \in 1..Len(left)
        PROVE  left[k] = right[k]
    <3>1. k \in 1..Len(s) \/ k = Len(s) + 1
      BY <2>1, <2>2
    <3>2. left[k] = g[long[k]]
      BY <2>2
    <3> QED
      BY <2>1, <2>3, <2>5, <3>1, <3>2
  <2>7. Len(left) = Len(right)
    BY <2>1, <2>2, <2>5
  <2>8. left = right
    BY <2>2, <2>5, <2>6, <2>7, SeqEqual
  <2> QED
    BY <2>8 DEF left, right, base, long
<1> QED
  BY <1>1, <1>2 DEF Maps

JoinsThrough(g, A, B) ==
  /\ Through(g, <<>>) = <<>>
  /\ \A s \in Seq(A) : Through(g, s) \in Seq(B)
  /\ \A s \in Seq(A), x \in A : Through(g, Append(s, x)) = Through(g, s) \o g[x]
  /\ \A s, t \in Seq(A) : Through(g, s \o t) = Through(g, s) \o Through(g, t)

LEMMA ThroughIs ==
  ASSUME NEW A, NEW B, NEW g \in [A -> Seq(B)]
  PROVE  JoinsThrough(g, A, B)
<1>1. Through(g, <<>>) = <<>>
  <2>1. Image(g, <<>>) = <<>>
    BY DEF Image
  <2> QED
    BY <2>1, FlatIs DEF Through
<1>2. ASSUME NEW s \in Seq(A)
      PROVE  Through(g, s) \in Seq(B)
  <2> DEFINE C == Seq(B)
  <2>1. g \in [A -> C]
    OBVIOUS
  <2> HIDE DEF C
  <2>2. Maps(g, A, C)
    BY <2>1, ImageIs
  <2> QED
    BY <2>2, FlatIs DEF Through, Maps, C
<1>3. ASSUME NEW s \in Seq(A), NEW x \in A
      PROVE  Through(g, Append(s, x)) = Through(g, s) \o g[x]
  <2> DEFINE m == Image(g, s)
             r == Image(g, Append(s, x))
             C == Seq(B)
  <2>1. g \in [A -> C]
    OBVIOUS
  <2> HIDE DEF C
  <2>2. g[x] \in C
    BY <2>1
  <2>3. m \in Seq(C) /\ r = Append(m, g[x])
    <3>1. Maps(g, A, C)
      BY <2>1, ImageIs
    <3> QED
      BY <3>1 DEF Maps
  <2> HIDE DEF m, r
  <2>4. FlattenSeq(r) = FlattenSeq(m) \o g[x]
    BY <2>2, <2>3, FlatIs DEF C
  <2> QED
    BY <2>4 DEF m, r, Through
<1>4. ASSUME NEW s \in Seq(A)
      PROVE  \A t \in Seq(A) : Through(g, s \o t) = Through(g, s) \o Through(g, t)
  <2> DEFINE T == {t \in Seq(A) : Through(g, s \o t) = Through(g, s) \o Through(g, t)}
  <2>1. <<>> \in T
    <3>1. s \o <<>> = s /\ Through(g, s) \o <<>> = Through(g, s)
      BY <1>2, CatFacts
    <3> QED
      BY <1>1, <3>1, EmptySeq
  <2>2. ASSUME NEW t \in Seq(A), NEW x \in A, t \in T
        PROVE  Append(t, x) \in T
    <3> DEFINE a == Through(g, s)
               b == Through(g, t)
    <3>1. Append(t, x) \in Seq(A) /\ s \o t \in Seq(A) /\ s \o Append(t, x) = Append(s \o t, x)
      BY AppendProperties, CatFacts, CatAppend
    <3>2. Through(g, s \o t) = a \o b /\ Through(g, Append(t, x)) = b \o g[x]
      BY <1>3, <2>2
    <3>3. Through(g, Append(s \o t, x)) = Through(g, s \o t) \o g[x]
      BY <1>3, <3>1
    <3>4. a \in Seq(B) /\ b \in Seq(B) /\ g[x] \in Seq(B)
      BY <1>2
    <3> HIDE DEF a, b
    <3>5. (a \o b) \o g[x] = a \o (b \o g[x])
      BY <3>4, ConcatAssociative
    <3>6. Through(g, s \o Append(t, x)) = a \o Through(g, Append(t, x))
      BY <3>1, <3>2, <3>3, <3>5
    <3> QED
      BY <3>1, <3>6 DEF a
  <2>3. Seq(A) \subseteq T
    <3> HIDE DEF T
    <3> QED
      BY <2>1, <2>2, SeqSetInduction
  <2> QED
    BY <2>3
<1> QED
  BY <1>1, <1>2, <1>3, <1>4 DEF JoinsThrough

Selects(A, T) ==
  /\ Only(<<>>, T) = <<>>
  /\ \A s \in Seq(A) : Only(s, T) \in Seq(A)
  /\ \A s \in Seq(A), x \in A :
       Only(Append(s, x), T) = IF x \in T THEN Append(Only(s, T), x) ELSE Only(s, T)
  /\ \A s, t \in Seq(A) : Only(s \o t, T) = Only(s, T) \o Only(t, T)

LEMMA OnlyIs ==
  ASSUME NEW A, NEW T
  PROVE  Selects(A, T)
<1> DEFINE g == [x \in A |-> IF x \in T THEN <<x>> ELSE <<>>]
<1>1. g \in [A -> Seq(A)]
  <2>1. \A x \in A : <<x>> \in Seq(A) /\ <<>> \in Seq(A)
    OBVIOUS
  <2> QED
    BY <2>1
<1>2. ASSUME NEW s \in Seq(A)
      PROVE  Only(s, T) = Through(g, s)
  <2>1. \A k \in DOMAIN s : s[k] \in A
    BY LenProperties, ElementOfSeq
  <2>2. [k \in DOMAIN s |-> IF s[k] \in T THEN <<s[k]>> ELSE <<>>] = Image(g, s)
    BY <2>1 DEF Image
  <2> QED
    BY <2>2 DEF Only, Through
<1>3. \A x \in A : g[x] = IF x \in T THEN <<x>> ELSE <<>>
  OBVIOUS
<1> HIDE DEF g
<1>8. JoinsThrough(g, A, A)
  BY <1>1, ThroughIs
<1>4. Only(<<>>, T) = <<>>
  BY <1>2, <1>8, EmptySeq DEF JoinsThrough
<1>5. \A s \in Seq(A) : Only(s, T) \in Seq(A)
  BY <1>2, <1>8 DEF JoinsThrough
<1>6. ASSUME NEW s \in Seq(A), NEW x \in A
      PROVE  Only(Append(s, x), T) = IF x \in T THEN Append(Only(s, T), x) ELSE Only(s, T)
  <2>1. Append(s, x) \in Seq(A)
    BY AppendProperties
  <2>2. Only(Append(s, x), T) = Only(s, T) \o g[x]
    BY <1>2, <1>8, <2>1 DEF JoinsThrough
  <2>3. Only(s, T) \o <<>> = Only(s, T) /\ Only(s, T) \o <<x>> = Append(Only(s, T), x)
    BY <1>5, CatFacts, AppendIsConcat
  <2> QED
    BY <1>3, <2>2, <2>3
<1>7. ASSUME NEW s \in Seq(A), NEW t \in Seq(A)
      PROVE  Only(s \o t, T) = Only(s, T) \o Only(t, T)
  <2>1. s \o t \in Seq(A)
    BY CatFacts
  <2> QED
    BY <1>2, <1>8, <2>1 DEF JoinsThrough
<1> QED
  BY <1>4, <1>5, <1>6, <1>7 DEF Selects

--------------------------------------------------------------------------------
(* Lines                                                                   *)

Atom         == Nat \X {"front", "back", "note", "nl"}
SplitType    == [lines : Seq(Seq(Atom)), rest : Seq(Atom)]
NothingSplit == [lines |-> <<>>, rest |-> <<>>]

LEMMA AtomsAre ==
  /\ Words = Seq(Atom) /\ NL \in Atom
  /\ \A i \in Nat : DataLine(i) \in Seq(Atom) /\ Len(DataLine(i)) = 2
  /\ \A i \in Nat : <<i, "front">> \in Atom /\ <<i, "back">> \in Atom /\ <<i, "note">> \in Atom
  /\ \A i \in Nat : <<i, "front">> # NL /\ <<i, "back">> # NL /\ <<i, "note">> # NL
  BY DEF Words, Atom, NL, DataLine

LEMMA CutStep ==
  ASSUME NEW p \in SplitType, NEW x \in Atom
  PROVE  /\ Cut(p, x) \in SplitType
         /\ Cut(p, x).lines = IF x = NL THEN Append(p.lines, p.rest) ELSE p.lines
         /\ Cut(p, x).rest = IF x = NL THEN <<>> ELSE Append(p.rest, x)
<1>1. p.lines \in Seq(Seq(Atom)) /\ p.rest \in Seq(Atom)
  BY DEF SplitType
<1>2. Append(p.lines, p.rest) \in Seq(Seq(Atom)) /\ Append(p.rest, x) \in Seq(Atom) /\ <<>> \in Seq(Atom)
  BY <1>1, AppendProperties, EmptySeq
<1>3. CASE x = NL
  BY <1>2, <1>3 DEF Cut, SplitType
<1>4. CASE x # NL
  <2>1. Cut(p, x) = [p EXCEPT !.rest = Append(p.rest, x)]
    BY <1>4 DEF Cut
  <2>2. p = [lines |-> p.lines, rest |-> p.rest]
    BY DEF SplitType
  <2>3. Cut(p, x) = [lines |-> p.lines, rest |-> Append(p.rest, x)]
    BY <2>1, <2>2
  <2> QED
    BY <1>1, <1>2, <1>4, <2>3 DEF SplitType
<1> QED
  BY <1>3, <1>4

(* Split cuts atom by atom.                                                *)
Splits(f, s) == f[0] = NothingSplit /\ \A n \in 1..Len(s) : f[n] = Cut(f[n - 1], s[n])

LEMMA CutsExist ==
  ASSUME NEW s \in Seq(Atom)
  PROVE  \E f \in [0..Len(s) -> SplitType] : Splits(f, s)
<1> DEFINE n == Len(s)
           F == [q \in Nat \X SplitType |-> IF q[1] \in 1..n THEN Cut(q[2], s[q[1]]) ELSE q[2]]
<1>1. n \in Nat /\ \A i \in 1..n : s[i] \in Atom
  BY LenProperties, ElementOfSeq
<1>2. NothingSplit \in SplitType /\ \A p \in SplitType, x \in Atom : Cut(p, x) \in SplitType
  BY CutStep DEF NothingSplit, SplitType
<1> HIDE DEF n
<1>3. ASSUME NEW i \in 1..n, NEW p \in SplitType
      PROVE  F[<<i, p>>] = Cut(p, s[i])
  <2>1. <<i, p>> \in Nat \X SplitType /\ <<i, p>>[1] = i /\ <<i, p>>[2] = p
    BY <1>1
  <2> QED
    BY <2>1
<1>4. F \in [Nat \X SplitType -> SplitType]
  <2>1. \A q \in Nat \X SplitType : q[1] \in Nat /\ q[2] \in SplitType
    OBVIOUS
  <2>2. ASSUME NEW q \in Nat \X SplitType
        PROVE  (IF q[1] \in 1..n THEN Cut(q[2], s[q[1]]) ELSE q[2]) \in SplitType
    BY <1>1, <1>2, <2>1
  <2> QED
    BY <2>2
<1> HIDE DEF F
<1>5. PICK f \in [0..n -> SplitType] : IsRun(f, F, NothingSplit, n)
  BY <1>1, <1>2, <1>4, RunExists
<1>6. ASSUME NEW i \in 1..n
      PROVE  f[i] = Cut(f[i - 1], s[i])
  <2>1. i - 1 \in 0..n
    BY <1>1
  <2>2. f[i - 1] \in SplitType /\ f[i] = F[<<i, f[i - 1]>>]
    BY <1>5, <2>1 DEF IsRun
  <2> QED
    BY <1>3, <2>2
<1> QED
  BY <1>5, <1>6 DEF Splits, IsRun, n

LEMMA SplitIsCut ==
  ASSUME NEW s \in Seq(Atom), NEW f \in [0..Len(s) -> SplitType], Splits(f, s)
  PROVE  Split(s) = f[Len(s)]
<1> DEFINE n == Len(s)
           Is(h) == h = [i \in 0..n |-> IF i = 0 THEN NothingSplit ELSE Cut(h[i - 1], s[i])]
           chosen == CHOOSE h : Is(h)
<1>1. n \in Nat
  BY LenProperties
<1>2. Is(f)
  <2>1. \A i \in 0..n : i = 0 \/ i \in 1..n
    OBVIOUS
  <2>2. \A i \in 0..n : f[i] = IF i = 0 THEN NothingSplit ELSE Cut(f[i - 1], s[i])
    BY <2>1 DEF Splits
  <2> QED
    BY <2>2
<1>3. Is(chosen)
  BY <1>2
<1>4. Split(s) = chosen[n]
  BY DEF Split, NothingSplit
<1> HIDE DEF chosen
<1> DEFINE S == {k \in Nat : k <= n => chosen[k] = f[k]}
<1>5. 0 \in S
  <2>1. 0 \in 0..n
    BY <1>1
  <2> QED
    BY <1>2, <1>3, <2>1
<1>6. ASSUME NEW k \in Nat, k \in S
      PROVE  k + 1 \in S
  <2>1. ASSUME k + 1 <= n
        PROVE  chosen[k + 1] = f[k + 1]
    <3>1. k + 1 \in 0..n /\ k + 1 # 0 /\ (k + 1) - 1 = k /\ k <= n
      BY <1>1, <2>1
    <3>2. chosen[k + 1] = Cut(chosen[k], s[k + 1]) /\ f[k + 1] = Cut(f[k], s[k + 1])
      BY <1>2, <1>3, <3>1
    <3> QED
      BY <1>6, <3>1, <3>2
  <2> QED
    BY <2>1
<1>7. Nat \subseteq S
  <2> HIDE DEF S
  <2> QED
    BY <1>5, <1>6, NumbersInduction
<1> QED
  BY <1>1, <1>4, <1>7

LEMMA SplitIs ==
  /\ Split(<<>>) = NothingSplit
  /\ \A s \in Seq(Atom) : Split(s) \in SplitType
  /\ \A s \in Seq(Atom), x \in Atom : Split(Append(s, x)) = Cut(Split(s), x)
<1>1. Split(<<>>) = NothingSplit
  <2>1. <<>> \in Seq(Atom) /\ Len(<<>>) = 0
    BY EmptySeq
  <2>2. PICK f \in [0..Len(<<>>) -> SplitType] : Splits(f, <<>>)
    BY <2>1, CutsExist
  <2> QED
    BY <2>1, <2>2, SplitIsCut DEF Splits
<1>2. ASSUME NEW s \in Seq(Atom)
      PROVE  Split(s) \in SplitType
  <2>1. PICK f \in [0..Len(s) -> SplitType] : Splits(f, s)
    BY CutsExist
  <2>2. Len(s) \in 0..Len(s)
    BY LenProperties
  <2> QED
    BY <2>1, <2>2, SplitIsCut
<1>3. ASSUME NEW s \in Seq(Atom), NEW x \in Atom
      PROVE  Split(Append(s, x)) = Cut(Split(s), x)
  <2> DEFINE n == Len(s)
             long == Append(s, x)
  <2>1. /\ long \in Seq(Atom) /\ Len(long) = n + 1 /\ n \in Nat
        /\ \A i \in 1..n : long[i] = s[i]
        /\ long[n + 1] = x
    BY AppendProperties, LenProperties
  <2> HIDE DEF long
  <2>2. PICK f \in [0..Len(long) -> SplitType] : Splits(f, long)
    BY <2>1, CutsExist
  <2> DEFINE g == [i \in 0..n |-> f[i]]
  <2>3. g \in [0..n -> SplitType]
    BY <2>1, <2>2
  <2>4. Splits(g, s)
    <3>1. 0 \in 0..n /\ \A i \in 1..n : i \in 0..n /\ i - 1 \in 0..n /\ i \in 1..Len(long)
      BY <2>1
    <3>2. \A i \in 1..n : f[i] = Cut(f[i - 1], long[i])
      BY <2>2, <3>1 DEF Splits
    <3> QED
      BY <2>1, <2>2, <3>1, <3>2 DEF Splits
  <2>5. Split(s) = g[n] /\ Split(long) = f[n + 1]
    <3> HIDE DEF g
    <3> QED
      BY <2>1, <2>2, <2>3, <2>4, SplitIsCut
  <2>6. n \in 0..n /\ n + 1 \in 1..Len(long) /\ (n + 1) - 1 = n
    BY <2>1
  <2>7. f[n + 1] = Cut(f[n], x)
    BY <2>1, <2>2, <2>6 DEF Splits
  <2> QED
    BY <2>5, <2>6, <2>7 DEF long
<1> QED
  BY <1>1, <1>2, <1>3

LEMMA LinesAre ==
  /\ LinesOf(<<>>) = <<>> /\ Residue(<<>>) = <<>>
  /\ \A s \in Seq(Atom) : LinesOf(s) \in Seq(Seq(Atom)) /\ Residue(s) \in Seq(Atom)
  /\ \A s \in Seq(Atom), x \in Atom :
       /\ LinesOf(Append(s, x)) = IF x = NL THEN Append(LinesOf(s), Residue(s)) ELSE LinesOf(s)
       /\ Residue(Append(s, x)) = IF x = NL THEN <<>> ELSE Append(Residue(s), x)
<1>1. LinesOf(<<>>) = <<>> /\ Residue(<<>>) = <<>>
  BY SplitIs DEF LinesOf, Residue, NothingSplit
<1>2. \A s \in Seq(Atom) : LinesOf(s) \in Seq(Seq(Atom)) /\ Residue(s) \in Seq(Atom)
  BY SplitIs DEF LinesOf, Residue, SplitType
<1>3. ASSUME NEW s \in Seq(Atom), NEW x \in Atom
      PROVE  /\ LinesOf(Append(s, x)) = IF x = NL THEN Append(LinesOf(s), Residue(s)) ELSE LinesOf(s)
             /\ Residue(Append(s, x)) = IF x = NL THEN <<>> ELSE Append(Residue(s), x)
  <2>1. Split(s) \in SplitType /\ Split(Append(s, x)) = Cut(Split(s), x)
    BY SplitIs
  <2> QED
    BY <2>1, CutStep DEF LinesOf, Residue
<1> QED
  BY <1>1, <1>2, <1>3

(* A line that has not ended is all residue.                               *)
Plain == {l \in Seq(Atom) : LinesOf(l) = <<>> /\ Residue(l) = l}

LEMMA ResidueIsPlain ==
  ASSUME NEW s \in Seq(Atom)
  PROVE  Residue(s) \in Plain
<1> DEFINE T == {t \in Seq(Atom) : Residue(t) \in Plain}
<1>1. <<>> \in T
  BY LinesAre, EmptySeq DEF Plain
<1>2. ASSUME NEW t \in Seq(Atom), NEW x \in Atom, t \in T
      PROVE  Append(t, x) \in T
  <2>1. Append(t, x) \in Seq(Atom)
    BY AppendProperties
  <2>2. CASE x = NL
    <3>1. Residue(Append(t, x)) = <<>>
      BY <2>2, LinesAre
    <3> QED
      BY <2>1, <3>1, LinesAre, EmptySeq DEF Plain
  <2>3. CASE x # NL
    <3> DEFINE r == Residue(t)
    <3>1. Residue(Append(t, x)) = Append(r, x)
      BY <2>3, LinesAre
    <3>2. r \in Seq(Atom) /\ LinesOf(r) = <<>> /\ Residue(r) = r
      BY <1>2 DEF Plain
    <3> HIDE DEF r
    <3>3. Append(r, x) \in Seq(Atom)
      BY <3>2, AppendProperties
    <3>4. LinesOf(Append(r, x)) = <<>> /\ Residue(Append(r, x)) = Append(r, x)
      BY <2>3, <3>2, LinesAre
    <3> QED
      BY <2>1, <3>1, <3>3, <3>4 DEF Plain
  <2> QED
    BY <2>2, <2>3
<1>3. Seq(Atom) \subseteq T
  <2> HIDE DEF T
  <2> QED
    BY <1>1, <1>2, SeqSetInduction
<1> QED
  BY <1>3

LEMMA LinesArePlain ==
  ASSUME NEW s \in Seq(Atom)
  PROVE  LinesOf(s) \in Seq(Plain)
<1> DEFINE T == {t \in Seq(Atom) : LinesOf(t) \in Seq(Plain)}
<1>1. <<>> \in T
  BY LinesAre, EmptySeq
<1>2. ASSUME NEW t \in Seq(Atom), NEW x \in Atom, t \in T
      PROVE  Append(t, x) \in T
  <2>1. Append(t, x) \in Seq(Atom)
    BY AppendProperties
  <2>2. LinesOf(t) \in Seq(Plain) /\ Residue(t) \in Plain
    BY <1>2, ResidueIsPlain
  <2>3. Append(LinesOf(t), Residue(t)) \in Seq(Plain)
    BY <2>2, AppendProperties
  <2>4. LinesOf(Append(t, x)) = Append(LinesOf(t), Residue(t)) \/ LinesOf(Append(t, x)) = LinesOf(t)
    BY LinesAre
  <2> QED
    BY <2>1, <2>2, <2>3, <2>4
<1>3. Seq(Atom) \subseteq T
  <2> HIDE DEF T
  <2> QED
    BY <1>1, <1>2, SeqSetInduction
<1> QED
  BY <1>3

(* What comes behind s is read from its residue on.                        *)
LEMMA LinesOfJoined ==
  ASSUME NEW s \in Seq(Atom), NEW t \in Seq(Atom)
  PROVE  /\ LinesOf(s \o t) = LinesOf(s) \o LinesOf(Residue(s) \o t)
         /\ Residue(s \o t) = Residue(Residue(s) \o t)
<1> DEFINE r == Residue(s)
           T == {u \in Seq(Atom) : /\ LinesOf(s \o u) = LinesOf(s) \o LinesOf(r \o u)
                                   /\ Residue(s \o u) = Residue(r \o u)}
<1>1. r \in Seq(Atom) /\ LinesOf(r) = <<>> /\ Residue(r) = r
  BY ResidueIsPlain DEF Plain
<1>2. LinesOf(s) \in Seq(Seq(Atom))
  BY LinesAre
<1>3. <<>> \in T
  <2>1. s \o <<>> = s /\ r \o <<>> = r
    BY <1>1, CatFacts
  <2>2. LinesOf(s) \o <<>> = LinesOf(s)
    BY <1>2, CatFacts
  <2> QED
    BY <1>1, <2>1, <2>2, EmptySeq
<1> HIDE DEF r
<1>4. ASSUME NEW u \in Seq(Atom), NEW x \in Atom, u \in T
      PROVE  Append(u, x) \in T
  <2>1. /\ Append(u, x) \in Seq(Atom) /\ s \o u \in Seq(Atom) /\ r \o u \in Seq(Atom)
        /\ s \o Append(u, x) = Append(s \o u, x) /\ r \o Append(u, x) = Append(r \o u, x)
    BY <1>1, AppendProperties, CatFacts, CatAppend
  <2> DEFINE a == s \o u
             b == r \o u
  <2>2. LinesOf(a) = LinesOf(s) \o LinesOf(b) /\ Residue(a) = Residue(b)
    BY <1>4
  <2>3. a \in Seq(Atom) /\ b \in Seq(Atom)
    BY <2>1
  <2> HIDE DEF a, b
  <2>4. LinesOf(b) \in Seq(Seq(Atom)) /\ Residue(b) \in Seq(Atom)
    BY <2>3, LinesAre
  <2>5. Residue(Append(a, x)) = Residue(Append(b, x))
    <3>1. Residue(Append(a, x)) = IF x = NL THEN <<>> ELSE Append(Residue(a), x)
      BY <2>3, LinesAre
    <3>2. Residue(Append(b, x)) = IF x = NL THEN <<>> ELSE Append(Residue(b), x)
      BY <2>3, LinesAre
    <3> QED
      BY <2>2, <3>1, <3>2
  <2>6. LinesOf(s) \o Append(LinesOf(b), Residue(b)) = Append(LinesOf(s) \o LinesOf(b), Residue(b))
    BY <1>2, <2>4, CatAppend
  <2>7. LinesOf(Append(a, x)) = LinesOf(s) \o LinesOf(Append(b, x))
    <3>1. CASE x = NL
      <4>1. /\ LinesOf(Append(a, x)) = Append(LinesOf(a), Residue(a))
            /\ LinesOf(Append(b, x)) = Append(LinesOf(b), Residue(b))
        BY <2>3, <3>1, LinesAre
      <4> QED
        BY <2>2, <2>6, <4>1
    <3>2. CASE x # NL
      BY <2>2, <2>3, <3>2, LinesAre
    <3> QED
      BY <3>1, <3>2
  <2>8. s \o Append(u, x) = Append(a, x) /\ r \o Append(u, x) = Append(b, x)
    BY <2>1 DEF a, b
  <2> QED
    BY <2>1, <2>5, <2>7, <2>8
<1>5. Seq(Atom) \subseteq T
  <2> HIDE DEF T
  <2> QED
    BY <1>3, <1>4, SeqSetInduction
<1> QED
  BY <1>5 DEF r

--------------------------------------------------------------------------------
(* What is heard of some bytes                                             *)

Says(s) == Heard(LinesOf(s))

LEMMA DataLinesAre ==
  /\ ~IsData(<<>>)
  /\ \A i \in Nat : IsData(DataLine(i)) /\ DataLine(i)[1][1] = i /\ DataLine(i) \in Plain
  /\ \A l \in Seq(Atom) : IsData(l) => l[1][1] \in Nat /\ l = DataLine(l[1][1])
<1>1. ~IsData(<<>>)
  BY DEF IsData
<1>2. ASSUME NEW i \in Nat
      PROVE  IsData(DataLine(i)) /\ DataLine(i)[1][1] = i /\ DataLine(i) \in Plain
  <2> DEFINE a == <<i, "front">>
             b == <<i, "back">>
  <2>1. a \in Atom /\ b \in Atom /\ a # NL /\ b # NL
    BY AtomsAre
  <2>2. Len(DataLine(i)) = 2 /\ DataLine(i)[1][1] = i
    BY DEF DataLine
  <2>3. Append(<<>>, a) \in Seq(Atom) /\ DataLine(i) = Append(Append(<<>>, a), b)
    BY <2>1 DEF DataLine
  <2> HIDE DEF a, b
  <2>4. LinesOf(Append(<<>>, a)) = <<>> /\ Residue(Append(<<>>, a)) = Append(<<>>, a)
    BY <2>1, LinesAre, EmptySeq
  <2>5. LinesOf(Append(Append(<<>>, a), b)) = <<>> /\ Residue(Append(Append(<<>>, a), b)) = Append(Append(<<>>, a), b)
    BY <2>1, <2>3, <2>4, LinesAre
  <2> QED
    BY <2>2, <2>3, <2>5, AtomsAre DEF IsData, Plain
<1>3. ASSUME NEW l \in Seq(Atom), IsData(l)
      PROVE  l[1][1] \in Nat /\ l = DataLine(l[1][1])
  <2>1. l[1] \in Atom
    BY <1>3, ElementOfSeq DEF IsData
  <2> QED
    BY <1>3, <2>1 DEF IsData, Atom
<1> QED
  BY <1>1, <1>2, <1>3

LineSays(l) == IF IsData(l) THEN <<l[1][1]>> ELSE <<>>

LEMMA HeardIs ==
  /\ Heard(<<>>) = <<>>
  /\ \A ls \in Seq(Seq(Atom)) : Heard(ls) \in Seq(Nat)
  /\ \A ls \in Seq(Seq(Atom)), l \in Seq(Atom) : Heard(Append(ls, l)) = Heard(ls) \o LineSays(l)
  /\ \A ls, ms \in Seq(Seq(Atom)) : Heard(ls \o ms) = Heard(ls) \o Heard(ms)
<1> DEFINE A == Seq(Atom)
           g == [l \in A |-> LineSays(l)]
<1>1. g \in [A -> Seq(Nat)]
  <2>1. \A l \in A : LineSays(l) \in Seq(Nat)
    BY DataLinesAre DEF LineSays
  <2> QED
    BY <2>1
<1>2. ASSUME NEW ls \in Seq(A)
      PROVE  Heard(ls) = Through(g, ls)
  <2>1. \A k \in DOMAIN ls : ls[k] \in A
    <3> HIDE DEF A
    <3> QED
      BY LenProperties, ElementOfSeq
  <2>2. [k \in DOMAIN ls |-> IF IsData(ls[k]) THEN <<ls[k][1][1]>> ELSE <<>>] = Image(g, ls)
    BY <2>1 DEF Image, LineSays
  <2> QED
    BY <2>2 DEF Heard, Through
<1>3. \A l \in A : g[l] = LineSays(l)
  OBVIOUS
<1> HIDE DEF g
<1>4. JoinsThrough(g, A, Nat)
  <2> HIDE DEF A
  <2> QED
    BY <1>1, ThroughIs
<1> HIDE DEF A
<1>5. Heard(<<>>) = <<>>
  BY <1>2, <1>4, EmptySeq DEF JoinsThrough
<1>6. \A ls \in Seq(A) : Heard(ls) \in Seq(Nat)
  BY <1>2, <1>4 DEF JoinsThrough
<1>7. \A ls \in Seq(A), l \in A : Append(ls, l) \in Seq(A)
  BY AppendProperties
<1>8. \A ls, ms \in Seq(A) : ls \o ms \in Seq(A)
  BY CatFacts
<1>9. \A ls \in Seq(A), l \in A : Heard(Append(ls, l)) = Heard(ls) \o LineSays(l)
  BY <1>2, <1>3, <1>4, <1>7 DEF JoinsThrough
<1>10. \A ls, ms \in Seq(A) : Heard(ls \o ms) = Heard(ls) \o Heard(ms)
  BY <1>2, <1>4, <1>8 DEF JoinsThrough
<1> QED
  BY <1>5, <1>6, <1>9, <1>10 DEF A

LEMMA SaysIs ==
  /\ Says(<<>>) = <<>>
  /\ \A s \in Seq(Atom) : Says(s) \in Seq(Nat)
  /\ \A s, t \in Seq(Atom) : Says(s \o t) = Says(s) \o Says(Residue(s) \o t)
<1>1. Says(<<>>) = <<>>
  BY LinesAre, HeardIs DEF Says
<1>2. \A s \in Seq(Atom) : Says(s) \in Seq(Nat)
  BY LinesAre, HeardIs DEF Says
<1>3. ASSUME NEW s \in Seq(Atom), NEW t \in Seq(Atom)
      PROVE  Says(s \o t) = Says(s) \o Says(Residue(s) \o t)
  <2>1. Residue(s) \o t \in Seq(Atom)
    BY LinesAre, CatFacts
  <2>2. LinesOf(s) \in Seq(Seq(Atom)) /\ LinesOf(Residue(s) \o t) \in Seq(Seq(Atom))
    BY <2>1, LinesAre
  <2> QED
    BY <2>2, LinesOfJoined, HeardIs DEF Says
<1> QED
  BY <1>1, <1>2, <1>3

LEMMA SaysLine ==
  ASSUME NEW s \in Seq(Atom), Residue(s) = <<>>, NEW l \in Plain
  PROVE  /\ Append(l, NL) \in Seq(Atom)
         /\ Says(s \o Append(l, NL)) = Says(s) \o LineSays(l)
         /\ Residue(s \o Append(l, NL)) = <<>>
<1>1. l \in Seq(Atom) /\ LinesOf(l) = <<>> /\ Residue(l) = l
  BY DEF Plain
<1>2. Append(l, NL) \in Seq(Atom)
  BY <1>1, AtomsAre, AppendProperties
<1>3. LinesOf(Append(l, NL)) = Append(<<>>, l) /\ Residue(Append(l, NL)) = <<>>
  BY <1>1, AtomsAre, LinesAre
<1>4. Residue(s) \o Append(l, NL) = Append(l, NL)
  BY <1>2, CatFacts
<1>5. Heard(Append(<<>>, l)) = Heard(<<>>) \o LineSays(l)
  BY <1>1, HeardIs, EmptySeq
<1>6. <<>> \o LineSays(l) = LineSays(l)
  <2>1. LineSays(l) \in Seq(Nat)
    BY <1>1, DataLinesAre DEF LineSays
  <2> QED
    BY <2>1, CatFacts
<1>7. Says(Append(l, NL)) = LineSays(l)
  BY <1>3, <1>5, <1>6, HeardIs DEF Says
<1>8. Says(s \o Append(l, NL)) = Says(s) \o Says(Residue(s) \o Append(l, NL))
  BY <1>2, SaysIs
<1>9. Residue(s \o Append(l, NL)) = Residue(Residue(s) \o Append(l, NL))
  BY <1>2, LinesOfJoined
<1> QED
  BY <1>2, <1>3, <1>4, <1>7, <1>8, <1>9

(* Behind whole lines, bytes are heard one block after the other.          *)
Follows(s, x, heard) == Residue(s \o x) = <<>> /\ Says(s \o x) = Says(s) \o heard
Utters(g, h, A) ==
  \A s \in Seq(Atom), a \in A : Residue(s) = <<>> => Follows(s, g[a], h[a])

LEMMA SaysThrough ==
  ASSUME NEW A, NEW g \in [A -> Seq(Atom)], NEW h \in [A -> Seq(Nat)], Utters(g, h, A),
         NEW s \in Seq(Atom), Residue(s) = <<>>, NEW as \in Seq(A)
  PROVE  Follows(s, Through(g, as), Through(h, as))
<1> DEFINE T == {bs \in Seq(A) : /\ Residue(s \o Through(g, bs)) = <<>>
                                 /\ Says(s \o Through(g, bs)) = Says(s) \o Through(h, bs)}
<1>1. JoinsThrough(g, A, Atom) /\ JoinsThrough(h, A, Nat)
  BY ThroughIs
<1>2. Says(s) \in Seq(Nat)
  BY SaysIs
<1>3. <<>> \in T
  <2>1. Through(g, <<>>) = <<>> /\ Through(h, <<>>) = <<>>
    BY <1>1 DEF JoinsThrough
  <2>2. s \o <<>> = s /\ Says(s) \o <<>> = Says(s)
    BY <1>2, CatFacts
  <2> QED
    BY <2>1, <2>2, EmptySeq
<1>4. ASSUME NEW bs \in Seq(A), NEW a \in A, bs \in T
      PROVE  Append(bs, a) \in T
  <2> DEFINE p == Through(g, bs)
             q == Through(h, bs)
             x == g[a]
             y == h[a]
  <2>1. Through(g, Append(bs, a)) = p \o x /\ Through(h, Append(bs, a)) = q \o y
    BY <1>1 DEF JoinsThrough
  <2>9. p \in Seq(Atom) /\ q \in Seq(Nat) /\ x \in Seq(Atom) /\ y \in Seq(Nat)
    BY <1>1 DEF JoinsThrough
  <2>2. Residue(s \o p) = <<>> /\ Says(s \o p) = Says(s) \o q
    BY <1>4
  <2>3. Append(bs, a) \in Seq(A)
    BY AppendProperties
  <2>4. \A u \in Seq(Atom) : Residue(u) = <<>> => Residue(u \o x) = <<>> /\ Says(u \o x) = Says(u) \o y
    BY DEF Utters, Follows
  <2> HIDE DEF p, q, x, y
  <2>5. s \o p \in Seq(Atom) /\ Chains(s, p, x)
    BY <2>9, CatChains
  <2>6. Chains(Says(s), q, y)
    BY <1>2, <2>9, CatChains
  <2>7. Residue((s \o p) \o x) = <<>> /\ Says((s \o p) \o x) = Says(s \o p) \o y
    BY <2>2, <2>4, <2>5
  <2>8. /\ Residue(s \o Through(g, Append(bs, a))) = <<>>
        /\ Says(s \o Through(g, Append(bs, a))) = Says(s) \o Through(h, Append(bs, a))
    BY <2>1, <2>2, <2>5, <2>6, <2>7 DEF Chains
  <2> QED
    BY <2>3, <2>8
<1>5. Seq(A) \subseteq T
  <2> HIDE DEF T
  <2> QED
    BY <1>3, <1>4, SeqSetInduction
<1> QED
  BY <1>5 DEF Follows

(* Events of upstream, and held lines.                                     *)
EventBytes == [i \in Nat |-> DataLine(i) \o <<NL, NL>>]
TailBytes  == [i \in Nat |-> Append(DataLine(i), NL)]
Itself     == [i \in Nat |-> <<i>>]

LEMMA EventsUtter ==
  /\ EventBytes \in [Nat -> Seq(Atom)] /\ TailBytes \in [Nat -> Seq(Atom)] /\ Itself \in [Nat -> Seq(Nat)]
  /\ Utters(EventBytes, Itself, Nat) /\ Utters(TailBytes, Itself, Nat)
  /\ \A as \in Seq(Nat) : Through(Itself, as) = as
<1>1. ASSUME NEW i \in Nat
      PROVE  /\ DataLine(i) \o <<NL, NL>> \in Seq(Atom) /\ Append(DataLine(i), NL) \in Seq(Atom)
             /\ DataLine(i) \o <<NL, NL>> = Append(DataLine(i), NL) \o Append(<<>>, NL)
  <2> DEFINE d == DataLine(i)
  <2>1. d \in Seq(Atom) /\ NL \in Atom
    BY AtomsAre
  <2>2. Append(<<>>, NL) \in Seq(Atom) /\ Append(<<>>, NL) = <<NL>> /\ <<NL, NL>> = Append(<<NL>>, NL)
    BY <2>1, AppendProperties
  <2> HIDE DEF d
  <2>3. Append(d, NL) \in Seq(Atom) /\ Append(d, NL) = d \o <<NL>> /\ <<NL>> \in Seq(Atom)
    BY <2>1, <2>2, AppendProperties, AppendIsConcat
  <2>4. d \o Append(<<NL>>, NL) = Append(d \o <<NL>>, NL)
    BY <2>1, <2>3, CatAppend
  <2>5. Append(Append(d, NL), NL) = Append(d, NL) \o <<NL>> /\ Append(Append(d, NL), NL) \in Seq(Atom)
    BY <2>1, <2>3, AppendIsConcat, AppendProperties
  <2>6. d \o <<NL, NL>> = Append(Append(d, NL), NL)
    BY <2>2, <2>3, <2>4
  <2> QED
    BY <2>2, <2>3, <2>5, <2>6 DEF d
<1>2. EventBytes \in [Nat -> Seq(Atom)] /\ TailBytes \in [Nat -> Seq(Atom)] /\ Itself \in [Nat -> Seq(Nat)]
  BY <1>1 DEF EventBytes, TailBytes, Itself
<1>3. ASSUME NEW s \in Seq(Atom), NEW i \in Nat, Residue(s) = <<>>
      PROVE  /\ Residue(s \o Append(DataLine(i), NL)) = <<>>
             /\ Says(s \o Append(DataLine(i), NL)) = Says(s) \o <<i>>
             /\ s \o Append(DataLine(i), NL) \in Seq(Atom)
  <2>1. DataLine(i) \in Plain /\ LineSays(DataLine(i)) = <<i>>
    BY DataLinesAre DEF LineSays
  <2>2. s \o Append(DataLine(i), NL) \in Seq(Atom)
    BY <1>1, CatFacts
  <2> QED
    BY <1>3, <2>1, <2>2, SaysLine
<1>4. Utters(TailBytes, Itself, Nat)
  <2>1. ASSUME NEW s \in Seq(Atom), NEW i \in Nat, Residue(s) = <<>>
        PROVE  Residue(s \o TailBytes[i]) = <<>> /\ Says(s \o TailBytes[i]) = Says(s) \o Itself[i]
    <3>1. TailBytes[i] = Append(DataLine(i), NL) /\ Itself[i] = <<i>>
      BY DEF TailBytes, Itself
    <3> QED
      BY <1>3, <2>1, <3>1
  <2> QED
    BY <2>1 DEF Utters, Follows
<1>5. Utters(EventBytes, Itself, Nat)
  <2>1. ASSUME NEW s \in Seq(Atom), NEW i \in Nat, Residue(s) = <<>>
        PROVE  Residue(s \o EventBytes[i]) = <<>> /\ Says(s \o EventBytes[i]) = Says(s) \o Itself[i]
    <3> DEFINE d == Append(DataLine(i), NL)
               e == Append(<<>>, NL)
               x == DataLine(i) \o <<NL, NL>>
    <3>1. EventBytes[i] = x /\ Itself[i] = <<i>>
      BY DEF EventBytes, Itself
    <3>2. d \in Seq(Atom) /\ e \in Seq(Atom) /\ x = d \o e
      BY <1>1, AtomsAre, AppendProperties, EmptySeq
    <3>3. s \o d \in Seq(Atom) /\ Residue(s \o d) = <<>> /\ Says(s \o d) = Says(s) \o <<i>>
      BY <1>3, <2>1
    <3>4. <<>> \in Plain /\ LineSays(<<>>) = <<>>
      BY LinesAre, DataLinesAre, EmptySeq DEF Plain, LineSays
    <3> HIDE DEF d, x
    <3>5. Residue((s \o d) \o e) = <<>> /\ Says((s \o d) \o e) = Says(s \o d) \o <<>>
      BY <3>3, <3>4, SaysLine
    <3>6. Says(s \o d) \o <<>> = Says(s \o d)
      BY <3>3, SaysIs, CatFacts
    <3> HIDE DEF e
    <3>7. Chains(s, d, e)
      BY <3>2, CatChains
    <3> QED
      BY <3>1, <3>2, <3>3, <3>5, <3>6, <3>7 DEF Chains
  <2> QED
    BY <2>1 DEF Utters, Follows
<1>6. ASSUME NEW as \in Seq(Nat)
      PROVE  Through(Itself, as) = as
  <2> DEFINE T == {bs \in Seq(Nat) : Through(Itself, bs) = bs}
  <2>1. JoinsThrough(Itself, Nat, Nat)
    BY <1>2, ThroughIs
  <2>2. <<>> \in T
    BY <2>1, EmptySeq DEF JoinsThrough
  <2>3. ASSUME NEW bs \in Seq(Nat), NEW b \in Nat, bs \in T
        PROVE  Append(bs, b) \in T
    <3>1. Through(Itself, Append(bs, b)) = bs \o Itself[b]
      BY <2>1, <2>3 DEF JoinsThrough
    <3>2. Append(bs, b) \in Seq(Nat) /\ Append(bs, b) = bs \o <<b>> /\ Itself[b] = <<b>>
      BY AppendProperties, AppendIsConcat DEF Itself
    <3> QED
      BY <3>1, <3>2
  <2>4. Seq(Nat) \subseteq T
    <3> HIDE DEF T
    <3> QED
      BY <2>2, <2>3, SeqSetInduction
  <2> QED
    BY <2>4
<1> QED
  BY <1>2, <1>4, <1>5, <1>6

(* Bytes that begin with nothing before them.                              *)
Reads(x, heard) == x \in Seq(Atom) /\ Residue(x) = <<>> /\ Says(x) = heard

LEMMA SaysAlone ==
  ASSUME NEW A, NEW g \in [A -> Seq(Atom)], NEW h \in [A -> Seq(Nat)], Utters(g, h, A),
         NEW as \in Seq(A)
  PROVE  Reads(Through(g, as), Through(h, as))
<1>1. JoinsThrough(g, A, Atom) /\ JoinsThrough(h, A, Nat)
  BY ThroughIs
<1>2. Through(g, as) \in Seq(Atom) /\ Through(h, as) \in Seq(Nat)
  BY <1>1 DEF JoinsThrough
<1>3. <<>> \in Seq(Atom) /\ Residue(<<>>) = <<>> /\ Says(<<>>) = <<>>
  BY EmptySeq, LinesAre, SaysIs
<1>4. Follows(<<>>, Through(g, as), Through(h, as))
  BY <1>3, SaysThrough
<1>5. <<>> \o Through(g, as) = Through(g, as) /\ <<>> \o Through(h, as) = Through(h, as)
  BY <1>2, CatFacts
<1> QED
  BY <1>2, <1>3, <1>4, <1>5 DEF Follows, Reads

LEMMA WireSays ==
  ASSUME answer \in Seq(EventType)
  PROVE  /\ Wire \in Seq(Atom) /\ Says(Wire) = All /\ Residue(Wire) = <<>>
         /\ All \in Seq(Nat) /\ Len(All) = Len(answer)
<1>1. Len(answer) \in Nat /\ DOMAIN answer = 1..Len(answer)
  BY LenProperties
<1>2. All \in [1..Len(answer) -> Nat]
  BY <1>1 DEF All, Places
<1>3. All \in Seq(Nat) /\ Len(All) = Len(answer)
  BY <1>1, <1>2
<1>4. Wire = Through(EventBytes, All)
  <2>1. DOMAIN All = DOMAIN answer /\ \A k \in DOMAIN answer : All[k] = k /\ k \in Nat
    BY <1>1 DEF All, Places
  <2>2. [i \in DOMAIN answer |-> DataLine(i) \o <<NL, NL>>] = Image(EventBytes, All)
    BY <2>1 DEF Image, EventBytes
  <2> QED
    BY <2>2 DEF Wire, Through
<1>5. Reads(Through(EventBytes, All), Through(Itself, All))
  BY <1>3, EventsUtter, SaysAlone
<1> QED
  BY <1>3, <1>4, <1>5, EventsUtter DEF Reads

(* Lines that are passed on, if H is held back.                            *)
Passing(H)     == [l \in Plain |-> IF IsData(l) /\ l[1][1] \in H THEN <<>> ELSE Append(l, NL)]
PassingSays(H) == [l \in Plain |-> Only(LineSays(l), Nat \ H)]

LEMMA PassingUtters ==
  ASSUME NEW H
  PROVE  /\ Passing(H) \in [Plain -> Seq(Atom)] /\ PassingSays(H) \in [Plain -> Seq(Nat)]
         /\ Utters(Passing(H), PassingSays(H), Plain)
         /\ \A ls \in Seq(Plain) : Through(PassingSays(H), ls) = Only(Heard(ls), Nat \ H)
<1>1. \A l \in Plain : l \in Seq(Atom) /\ Append(l, NL) \in Seq(Atom) /\ LineSays(l) \in Seq(Nat)
  <2>1. \A l \in Plain : l \in Seq(Atom)
    BY DEF Plain
  <2>2. \A l \in Plain : LineSays(l) \in Seq(Nat)
    BY <2>1, DataLinesAre DEF LineSays
  <2> QED
    BY <2>1, <2>2, AtomsAre, AppendProperties
<1>2. Passing(H) \in [Plain -> Seq(Atom)]
  BY <1>1, EmptySeq DEF Passing
<1>8. Selects(Nat, Nat \ H)
  BY OnlyIs
<1>3. \A l \in Plain : Only(LineSays(l), Nat \ H) \in Seq(Nat)
  BY <1>1, <1>8 DEF Selects
<1>4. PassingSays(H) \in [Plain -> Seq(Nat)]
  BY <1>3 DEF PassingSays
<1>5. ASSUME NEW s \in Seq(Atom), NEW l \in Plain, Residue(s) = <<>>
      PROVE  Residue(s \o Passing(H)[l]) = <<>> /\ Says(s \o Passing(H)[l]) = Says(s) \o PassingSays(H)[l]
  <2>1. PassingSays(H)[l] = Only(LineSays(l), Nat \ H)
    BY DEF PassingSays
  <2>2. Passing(H)[l] = IF IsData(l) /\ l[1][1] \in H THEN <<>> ELSE Append(l, NL)
    BY DEF Passing
  <2>3. \A i \in Nat : <<i>> = Append(<<>>, i) /\ <<>> \in Seq(Nat)
    OBVIOUS
  <2>4. \A i \in Nat : Only(<<i>>, Nat \ H) = IF i \in H THEN <<>> ELSE <<i>>
    BY <1>8, <2>3 DEF Selects
  <2>5. Only(<<>>, Nat \ H) = <<>>
    BY <1>8 DEF Selects
  <2>6. CASE IsData(l) /\ l[1][1] \in H
    <3>1. l[1][1] \in Nat
      BY <1>1, <2>6, DataLinesAre
    <3>2. PassingSays(H)[l] = <<>> /\ Passing(H)[l] = <<>>
      BY <2>1, <2>2, <2>4, <2>6, <3>1 DEF LineSays
    <3>3. s \o <<>> = s /\ Says(s) \o <<>> = Says(s)
      BY SaysIs, CatFacts
    <3> QED
      BY <1>5, <3>2, <3>3
  <2>7. CASE ~(IsData(l) /\ l[1][1] \in H)
    <3>1. Passing(H)[l] = Append(l, NL)
      BY <2>2, <2>7
    <3>2. PassingSays(H)[l] = LineSays(l)
      <4>1. IsData(l) => l[1][1] \in Nat
        BY <1>1, DataLinesAre
      <4> QED
        BY <2>1, <2>4, <2>5, <2>7, <4>1 DEF LineSays
    <3> QED
      BY <1>5, <3>1, <3>2, SaysLine
  <2> QED
    BY <2>6, <2>7
<1>6. Utters(Passing(H), PassingSays(H), Plain)
  BY <1>5 DEF Utters, Follows
<1>7. ASSUME NEW ls \in Seq(Plain)
      PROVE  Through(PassingSays(H), ls) = Only(Heard(ls), Nat \ H)
  <2> DEFINE p == PassingSays(H)
             T == {ms \in Seq(Plain) : Through(p, ms) = Only(Heard(ms), Nat \ H)}
  <2>1. JoinsThrough(p, Plain, Nat) /\ \A l \in Plain : p[l] = Only(LineSays(l), Nat \ H)
    BY <1>4, ThroughIs DEF PassingSays
  <2> HIDE DEF p
  <2>2. <<>> \in T
    BY <1>8, <2>1, HeardIs, EmptySeq DEF JoinsThrough, Selects
  <2>3. ASSUME NEW ms \in Seq(Plain), NEW l \in Plain, ms \in T
        PROVE  Append(ms, l) \in T
    <3>1. Through(p, Append(ms, l)) = Through(p, ms) \o p[l] /\ Append(ms, l) \in Seq(Plain)
      BY <2>1, AppendProperties DEF JoinsThrough
    <3>2. ms \in Seq(Seq(Atom)) /\ l \in Seq(Atom) /\ LineSays(l) \in Seq(Nat)
      <4>1. Plain \subseteq Seq(Atom)
        BY DEF Plain
      <4> QED
        BY <1>1, <4>1, SeqMonotonic
    <3>3. Heard(Append(ms, l)) = Heard(ms) \o LineSays(l) /\ Heard(ms) \in Seq(Nat)
      BY <3>2, HeardIs
    <3>4. Only(Heard(ms) \o LineSays(l), Nat \ H) = Only(Heard(ms), Nat \ H) \o Only(LineSays(l), Nat \ H)
      BY <1>8, <3>2, <3>3 DEF Selects
    <3> QED
      BY <2>1, <2>3, <3>1, <3>3, <3>4
  <2>4. Seq(Plain) \subseteq T
    <3> HIDE DEF T
    <3> QED
      BY <2>2, <2>3, SeqSetInduction
  <2> QED
    BY <2>4 DEF p
<1> QED
  BY <1>2, <1>4, <1>6, <1>7

--------------------------------------------------------------------------------
(* The consumers' steps                                                    *)

LEMMA LastJoined ==
  ASSUME NEW a \in Seq(Nat), NEW b \in Seq(Nat)
  PROVE  /\ LastOf(a \o b) = IF b = <<>> THEN LastOf(a) ELSE Last(b)
         /\ Len(a \o b) = Len(a) + Len(b)
<1>1. a \o b \in Seq(Nat) /\ Len(a \o b) = Len(a) + Len(b) /\ Len(a) \in Nat /\ Len(b) \in Nat
  BY CatFacts, LenProperties
<1>2. CASE b = <<>>
  BY <1>1, <1>2, CatFacts
<1>3. CASE b # <<>>
  <2>1. Len(b) # 0 /\ Len(b) \in 1..Len(b)
    BY <1>1, <1>3, EmptySeq
  <2>2. a \o b # <<>>
    BY <1>1, <2>1, EmptySeq
  <2>3. (a \o b)[Len(a) + Len(b)] = b[Len(b)]
    <3>1. Len(a) + Len(b) \in 1..Len(a) + Len(b) /\ ~(Len(a) + Len(b) <= Len(a)) /\ Len(a) + Len(b) - Len(a) = Len(b)
      BY <1>1, <2>1
    <3> QED
      BY <3>1, ConcatProperties
  <2> QED
    BY <1>1, <1>3, <2>2, <2>3 DEF LastOf, Last
<1> QED
  BY <1>1, <1>2, <1>3

Counted(s, full, talk) ==
  [buf |-> Residue(s), usage |-> LastOf(Only(Says(s), full)), out |-> Len(Only(Says(s), talk))]

LEMMA MeterFeeds ==
  ASSUME NEW s \in Seq(Atom), NEW c \in Seq(Atom)
  PROVE  Metered(Counted(s, WithUsage, Talk), c) = Counted(s \o c, WithUsage, Talk)
<1> DEFINE r == Residue(s)
           a == Says(s)
           b == Says(r \o c)
           full == WithUsage
           talk == Talk
<1>1. r \in Seq(Atom) /\ r \o c \in Seq(Atom)
  BY LinesAre, CatFacts
<1>2. a \in Seq(Nat) /\ b \in Seq(Nat) /\ Says(s \o c) = a \o b
  BY <1>1, SaysIs
<1>3. Residue(s \o c) = Residue(r \o c)
  BY LinesOfJoined
<1>4. Metered(Counted(s, full, talk), c)
        = [buf   |-> Residue(r \o c),
           usage |-> IF Only(b, full) = <<>> THEN LastOf(Only(a, full)) ELSE Last(Only(b, full)),
           out   |-> Len(Only(a, talk)) + Len(Only(b, talk))]
  BY DEF Metered, Counted, Says
<1>5. Counted(s \o c, full, talk)
        = [buf |-> Residue(s \o c), usage |-> LastOf(Only(Says(s \o c), full)), out |-> Len(Only(Says(s \o c), talk))]
  BY DEF Counted
<1> HIDE DEF r, a, b, full, talk
<1>6. Selects(Nat, full) /\ Selects(Nat, talk)
  BY OnlyIs
<1>7. /\ Only(a, full) \in Seq(Nat) /\ Only(b, full) \in Seq(Nat)
      /\ Only(a, talk) \in Seq(Nat) /\ Only(b, talk) \in Seq(Nat)
      /\ Only(a \o b, full) = Only(a, full) \o Only(b, full)
      /\ Only(a \o b, talk) = Only(a, talk) \o Only(b, talk)
  BY <1>2, <1>6 DEF Selects
<1>8. LastOf(Only(a, full) \o Only(b, full))
        = IF Only(b, full) = <<>> THEN LastOf(Only(a, full)) ELSE Last(Only(b, full))
  BY <1>7, LastJoined
<1>9. Len(Only(a, talk) \o Only(b, talk)) = Len(Only(a, talk)) + Len(Only(b, talk))
  BY <1>7, LastJoined
<1>10. Metered(Counted(s, full, talk), c) = Counted(s \o c, full, talk)
  BY <1>2, <1>3, <1>4, <1>5, <1>7, <1>8, <1>9
<1> QED
  BY <1>10 DEF full, talk

(* Where StreamReconciler is when s has come.                              *)
Knows(r, s, held) ==
  /\ r = [residual |-> Residue(s), heard |-> Says(s), tail |-> Only(Says(s), held)]

LEMMA ReconcilerFeeds ==
  ASSUME NEW s \in Seq(Atom), NEW c \in Seq(Atom), NEW r, Knows(r, s, HeldBack)
  PROVE  Knows(Fed(r, c), s \o c, HeldBack)
<1> DEFINE d == Residue(s)
           a == Says(s)
           b == Says(d \o c)
           held == HeldBack
<1>1. d \in Seq(Atom) /\ d \o c \in Seq(Atom)
  BY LinesAre, CatFacts
<1>2. a \in Seq(Nat) /\ b \in Seq(Nat) /\ Says(s \o c) = a \o b
  BY <1>1, SaysIs
<1>3. Residue(s \o c) = Residue(d \o c)
  BY LinesOfJoined
<1>4. r.residual = d /\ r.heard = a /\ r.tail = Only(a, held)
  BY DEF Knows
<1>5. Fed(r, c) = [residual |-> Residue(d \o c), heard |-> a \o b, tail |-> Only(a, held) \o Only(b, held)]
  BY <1>4 DEF Fed, Says
<1> HIDE DEF a, b, d, held
<1>6. Selects(Nat, held)
  BY OnlyIs
<1>7. Only(a \o b, held) = Only(a, held) \o Only(b, held)
  BY <1>2, <1>6 DEF Selects
<1>8. Knows(Fed(r, c), s \o c, held)
  BY <1>2, <1>3, <1>5, <1>7 DEF Knows
<1> QED
  BY <1>8 DEF held

LEMMA ReconcilerPasses ==
  ASSUME NEW s \in Seq(Atom), NEW c \in Seq(Atom), NEW r, Knows(r, s, HeldBack),
         NEW x \in Seq(Atom), Residue(x) = <<>>
  PROVE  /\ PassedOn(r, c) \in Seq(Atom)
         /\ Follows(x, PassedOn(r, c), Only(Says(Residue(s) \o c), Nat \ HeldBack))
<1> DEFINE d == Residue(s)
           ls == LinesOf(d \o c)
           held == HeldBack
           g == Passing(held)
           h == PassingSays(held)
<1>1. d \in Seq(Atom) /\ d \o c \in Seq(Atom)
  BY LinesAre, CatFacts
<1>2. ls \in Seq(Plain)
  BY <1>1, LinesArePlain
<1>3. r.residual = d
  BY DEF Knows
<1>4. PassedOn(r, c) = Through(g, ls)
  <2>1. \A k \in DOMAIN ls : ls[k] \in Plain
    <3> HIDE DEF ls
    <3> QED
      BY <1>2, LenProperties, ElementOfSeq
  <2>2. PassedOn(r, c) = FlattenSeq([k \in DOMAIN ls |-> IF IsHeld(ls[k]) THEN <<>> ELSE Append(ls[k], NL)])
    BY <1>3 DEF PassedOn
  <2>3. [k \in DOMAIN ls |-> IF IsHeld(ls[k]) THEN <<>> ELSE Append(ls[k], NL)] = Image(g, ls)
    <3> HIDE DEF ls
    <3> QED
      BY <2>1 DEF IsHeld, Image, Passing
  <2> QED
    BY <2>2, <2>3 DEF Through
<1>5. Says(d \o c) = Heard(ls)
  BY DEF Says
<1>6. PassedOn(r, c) \in Seq(Atom) /\ Follows(x, PassedOn(r, c), Only(Says(d \o c), Nat \ held))
  <2> HIDE DEF d, ls, held
  <2>1. /\ g \in [Plain -> Seq(Atom)] /\ h \in [Plain -> Seq(Nat)] /\ Utters(g, h, Plain)
        /\ Through(h, ls) = Only(Heard(ls), Nat \ held)
    BY <1>2, PassingUtters
  <2> HIDE DEF g, h
  <2>2. JoinsThrough(g, Plain, Atom) /\ Follows(x, Through(g, ls), Through(h, ls))
    BY <1>2, <2>1, ThroughIs, SaysThrough
  <2> QED
    BY <1>2, <1>4, <1>5, <2>1, <2>2 DEF JoinsThrough
<1> QED
  BY <1>6

(* The delta and the held lines are heard in this order.                   *)
LEMMA EndIsSent ==
  ASSUME Len(answer) \in Nat, NEW heard, NEW held \in Seq(Nat), NEW x \in Seq(Atom), Residue(x) = <<>>
  PROVE  /\ Synthesized(heard, held) \in Seq(Atom)
         /\ Follows(x, Synthesized(heard, held),
                    (IF DeltaCalls(heard, held) = <<>> THEN <<>> ELSE <<Added>>) \o held)
<1> DEFINE y == IF DeltaCalls(heard, held) = <<>> THEN <<>> ELSE DataLine(Added) \o <<NL, NL>>
           f == IF DeltaCalls(heard, held) = <<>> THEN <<>> ELSE <<Added>>
           z == Through(TailBytes, held)
<1>1. Synthesized(heard, held) = y \o z
  <2>1. \A k \in DOMAIN held : held[k] \in Nat
    BY LenProperties, ElementOfSeq
  <2>2. [k \in DOMAIN held |-> Append(DataLine(held[k]), NL)] = Image(TailBytes, held)
    BY <2>1 DEF Image, TailBytes
  <2> QED
    BY <2>2 DEF Synthesized, Through
<1>2. Added \in Nat
  BY DEF Added
<1>3. y \in Seq(Atom) /\ f \in Seq(Nat) /\ Follows(x, y, f)
  <2>1. CASE DeltaCalls(heard, held) = <<>>
    <3>1. x \o <<>> = x /\ Says(x) \o <<>> = Says(x)
      BY SaysIs, CatFacts
    <3> QED
      BY <2>1, <3>1, EmptySeq DEF Follows
  <2>2. CASE DeltaCalls(heard, held) # <<>>
    <3>1. EventBytes[Added] = DataLine(Added) \o <<NL, NL>> /\ Itself[Added] = <<Added>>
      BY <1>2 DEF EventBytes, Itself
    <3>2. EventBytes[Added] \in Seq(Atom) /\ Itself[Added] \in Seq(Nat)
      BY <1>2, EventsUtter
    <3>3. Follows(x, EventBytes[Added], Itself[Added])
      BY <1>2, EventsUtter DEF Utters
    <3> QED
      BY <2>2, <3>1, <3>2, <3>3
  <2> QED
    BY <2>1, <2>2
<1>4. z \in Seq(Atom)
  <2>1. TailBytes \in [Nat -> Seq(Atom)]
    BY EventsUtter
  <2>2. JoinsThrough(TailBytes, Nat, Atom)
    BY <2>1, ThroughIs
  <2> QED
    BY <2>2 DEF JoinsThrough
<1> HIDE DEF y, f
<1>5. x \o y \in Seq(Atom) /\ Residue(x \o y) = <<>> /\ Says(x \o y) = Says(x) \o f
  BY <1>3, CatFacts DEF Follows
<1>6. Follows(x \o y, z, held)
  <2>1. /\ TailBytes \in [Nat -> Seq(Atom)] /\ Itself \in [Nat -> Seq(Nat)]
        /\ Utters(TailBytes, Itself, Nat) /\ Through(Itself, held) = held
    BY EventsUtter
  <2>2. Follows(x \o y, Through(TailBytes, held), Through(Itself, held))
    BY <1>5, <2>1, SaysThrough
  <2> QED
    BY <2>1, <2>2
<1>7. y \o z \in Seq(Atom)
  BY <1>3, <1>4, CatFacts
<1> HIDE DEF z
<1>8. Says(x) \in Seq(Nat)
  BY SaysIs
<1>9. Chains(x, y, z) /\ Chains(Says(x), f, held)
  BY <1>3, <1>4, <1>8, CatChains
<1>10. Follows(x, y \o z, f \o held)
  BY <1>5, <1>6, <1>9 DEF Follows, Chains
<1> QED
  BY <1>1, <1>7, <1>10 DEF f

(* As many of the numbers up to n are in T as Only leaves.                 *)
LEMMA OnlyCounts ==
  ASSUME NEW T, NEW n \in Nat
  PROVE  Len(Only([i \in 1..n |-> i], T)) = Cardinality({i \in 1..n : i \in T})
<1> DEFINE upto(m) == [i \in 1..m |-> i]
           in(m) == {i \in 1..m : i \in T}
           S == {m \in Nat : /\ IsFiniteSet(in(m))
                             /\ Len(Only(upto(m), T)) = Cardinality(in(m))}
<1>1. Selects(Nat, T)
  BY OnlyIs
<1>2. \A m \in Nat : upto(m) \in Seq(Nat) /\ Len(upto(m)) = m
  OBVIOUS
<1>3. 0 \in S
  <2>1. upto(0) = <<>> /\ in(0) = {}
    OBVIOUS
  <2>2. Only(<<>>, T) = <<>> /\ Len(<<>>) = 0
    BY <1>1 DEF Selects
  <2> HIDE DEF upto, in
  <2> QED
    BY <2>1, <2>2, FS_EmptySet
<1>4. ASSUME NEW m \in Nat, m \in S
      PROVE  m + 1 \in S
  <2>1. upto(m + 1) = Append(upto(m), m + 1)
    <3> DEFINE a == upto(m + 1)
               b == Append(upto(m), m + 1)
    <3>1. a \in Seq(Nat) /\ Len(a) = m + 1 /\ \A i \in 1..(m + 1) : a[i] = i
      OBVIOUS
    <3>2. /\ b \in Seq(Nat) /\ Len(b) = m + 1 /\ b[m + 1] = m + 1
          /\ \A i \in 1..m : b[i] = i
      <4> DEFINE u == upto(m)
      <4>1. u \in Seq(Nat) /\ Len(u) = m /\ \A i \in 1..m : u[i] = i
        OBVIOUS
      <4> HIDE DEF u
      <4>2. m + 1 \in Nat
        OBVIOUS
      <4>3. /\ Append(u, m + 1) \in Seq(Nat) /\ Len(Append(u, m + 1)) = Len(u) + 1
            /\ Append(u, m + 1)[Len(u) + 1] = m + 1
            /\ \A i \in 1..Len(u) : Append(u, m + 1)[i] = u[i]
        BY <4>1, <4>2, AppendProperties
      <4> QED
        BY <4>1, <4>3 DEF u
    <3> HIDE DEF a, b
    <3>3. \A i \in 1..Len(a) : a[i] = b[i]
      <4>1. \A i \in 1..Len(a) : i \in 1..m \/ i = m + 1
        BY <3>1
      <4> QED
        BY <3>1, <3>2, <4>1
    <3>4. a = b
      BY <3>1, <3>2, <3>3, SeqEqual
    <3> QED
      BY <3>4 DEF a, b
  <2>2. in(m + 1) = IF m + 1 \in T THEN in(m) \cup {m + 1} ELSE in(m)
    OBVIOUS
  <2>3. m + 1 \notin in(m)
    OBVIOUS
  <2>4. upto(m) \in Seq(Nat)
    BY <1>2
  <2> DEFINE c == in(m)
             u == upto(m)
  <2>5. u \in Seq(Nat) /\ IsFiniteSet(c) /\ Len(Only(u, T)) = Cardinality(c)
    BY <1>4, <2>4
  <2> HIDE DEF c, u
  <2>6. Only(Append(u, m + 1), T) = IF m + 1 \in T THEN Append(Only(u, T), m + 1) ELSE Only(u, T)
    <3>1. \A k \in Nat : Only(Append(u, k), T) = IF k \in T THEN Append(Only(u, T), k) ELSE Only(u, T)
      BY <1>1, <2>5, Zenon DEF Selects
    <3>2. m + 1 \in Nat
      OBVIOUS
    <3> QED
      BY <3>1, <3>2, Zenon
  <2>7. Only(u, T) \in Seq(Nat)
    BY <1>1, <2>5 DEF Selects
  <2>8. Len(Append(Only(u, T), m + 1)) = Len(Only(u, T)) + 1
    BY <2>7, AppendProperties
  <2>9. IsFiniteSet(c \cup {m + 1}) /\ Cardinality(c \cup {m + 1}) = Cardinality(c) + 1
    BY <2>3, <2>5, FS_AddElement DEF c
  <2>10. /\ IsFiniteSet(in(m + 1))
         /\ Len(Only(upto(m + 1), T)) = Cardinality(in(m + 1))
    <3>1. CASE m + 1 \in T
      BY <2>1, <2>2, <2>5, <2>6, <2>8, <2>9, <3>1 DEF c, u
    <3>2. CASE m + 1 \notin T
      BY <2>1, <2>2, <2>5, <2>6, <3>2 DEF c, u
    <3> QED
      BY <3>1, <3>2
  <2> QED
    BY <2>10
<1>5. Nat \subseteq S
  <2> HIDE DEF S
  <2> QED
    BY <1>3, <1>4, NumbersInduction
<1> QED
  BY <1>5

--------------------------------------------------------------------------------
(* The stream                                                              *)

Sent == SubSeq(Wire, 1, at)

(* What a client with tool_reconcile has, when s has come, and in the end. *)
Kept(r, x, s, held) ==
  /\ Knows(r, s, held)
  /\ x \in Seq(Atom) /\ Residue(x) = <<>> /\ Says(x) = Only(Says(s), Nat \ held)
AllRelayed(x, calls, new, all, held) ==
  Says(x) = Only(all, Nat \ held) \o (IF calls = <<>> THEN <<>> ELSE <<new>>) \o Only(all, held)

RelayInv ==
  /\ answer \in Seq(EventType)
  /\ via \in {"plain", "reconcile", "chat", "generate"}
  /\ at \in 0..Len(Wire) /\ link \in {"open", "ended", "broken", "gone", "left"}
  /\ meter = Counted(Sent, WithUsage, Talk)
  /\ link = "ended" => at = Len(Wire)
  /\ tally = IF link = "ended" THEN <<Recorded(meter)>> ELSE <<>>
  /\ via = "reconcile" /\ link \in {"open", "gone"} => Kept(rec, relayed, Sent, HeldBack)
  /\ via = "reconcile" /\ link = "ended" => AllRelayed(relayed, added, Added, All, HeldBack)

LEMMA RelayInvInitially == RelayInit => RelayInv
<1> SUFFICES ASSUME RelayInit PROVE RelayInv
  OBVIOUS
<1>1. answer \in Seq(EventType)
  BY RelayAssumption DEF RelayInit
<1>2. Wire \in Seq(Atom) /\ Len(Wire) \in Nat
  BY <1>1, WireSays, LenProperties
<1>3. at = 0 /\ Sent = <<>>
  <2>1. at = 0
    BY DEF RelayInit
  <2>2. SubSeq(Wire, 1, 0) = <<>>
    BY SubSeqEmpty
  <2> QED
    BY <2>1, <2>2 DEF Sent
<1>4. Residue(<<>>) = <<>> /\ Says(<<>>) = <<>> /\ <<>> \in Seq(Atom)
  BY LinesAre, SaysIs, EmptySeq
<1>5. \A T : Only(<<>>, T) = <<>>
  BY OnlyIs DEF Selects
<1>6. meter = Counted(Sent, WithUsage, Talk)
  <2>1. meter = [buf |-> <<>>, usage |-> 0, out |-> 0]
    BY DEF RelayInit
  <2>2. Counted(<<>>, WithUsage, Talk) = [buf |-> <<>>, usage |-> 0, out |-> 0]
    <3>1. \A f, t : Counted(<<>>, f, t) = [buf |-> <<>>, usage |-> 0, out |-> 0]
      BY <1>4, <1>5 DEF Counted, LastOf
    <3> QED
      BY <3>1
  <2> QED
    BY <1>3, <2>1, <2>2
<1>7. Kept(rec, relayed, Sent, HeldBack)
  <2>1. rec = [residual |-> <<>>, heard |-> <<>>, tail |-> <<>>] /\ relayed = <<>>
    BY DEF RelayInit
  <2>2. \A h : Kept(rec, relayed, Sent, h)
    BY <1>3, <1>4, <1>5, <2>1 DEF Kept, Knows
  <2> QED
    BY <2>2
<1>8. link = "open" /\ tally = <<>> /\ via \in {"plain", "reconcile", "chat", "generate"}
  BY DEF RelayInit
<1> QED
  BY <1>1, <1>2, <1>3, <1>6, <1>7, <1>8 DEF RelayInv

(* The answer stays what it is.                                            *)
Fixed == /\ Wire' = Wire /\ WithUsage' = WithUsage /\ Talk' = Talk /\ HeldBack' = HeldBack
         /\ All' = All /\ Added' = Added

LEMMA AnswerFixes ==
  ASSUME answer' = answer
  PROVE  Fixed
<1>1. Wire' = Wire /\ All' = All /\ Added' = Added
  BY DEF Wire, All, Places, Added
<1>2. WithUsage' = WithUsage /\ Talk' = Talk
  BY DEF WithUsage, Talk, Event
<1>3. HeldBack' = HeldBack
  BY DEF HeldBack, EndsStream, Event
<1> QED
  BY <1>1, <1>2, <1>3 DEF Fixed

LEMMA ChunkExtends ==
  ASSUME RelayInv, NEW n \in Nat, at + n <= Len(Wire)
  PROVE  /\ Sent \in Seq(Atom) /\ SubSeq(Wire, at + 1, at + n) \in Seq(Atom)
         /\ SubSeq(Wire, 1, at + n) = Sent \o SubSeq(Wire, at + 1, at + n)
<1> DEFINE w == Wire
           m == at + n
<1>1. w \in Seq(Atom) /\ Len(w) \in Nat
  BY WireSays, LenProperties DEF RelayInv
<1>2. at \in Nat /\ m \in Nat /\ at <= m /\ m <= Len(w)
  BY <1>1 DEF RelayInv
<1> HIDE DEF w, m
<1>3. 1 \in 1..Len(w) + 1 /\ at \in 1 - 1..Len(w) /\ m \in at..Len(w)
  BY <1>1, <1>2
<1>4. SubSeq(w, 1, at) \o SubSeq(w, at + 1, m) = SubSeq(w, 1, m)
  BY <1>1, <1>3, ConcatAdjacentSubSeq
<1>5. \A i \in 1..Len(w) : w[i] \in Atom
  BY <1>1, ElementOfSeq
<1>6. \A i \in 1..at : w[i] \in Atom
  BY <1>1, <1>2, <1>5
<1>7. \A i \in at + 1..m : w[i] \in Atom
  BY <1>1, <1>2, <1>5
<1>8. SubSeq(w, 1, at) \in Seq(Atom)
  BY <1>2, <1>6, SubSeqProperties
<1>9. SubSeq(w, at + 1, m) \in Seq(Atom)
  BY <1>2, <1>7, SubSeqProperties
<1> QED
  BY <1>4, <1>8, <1>9 DEF w, m, Sent

LEMMA RelaysKeepsInv == RelayInv /\ Relays => RelayInv'
<1> SUFFICES ASSUME RelayInv, Relays PROVE RelayInv'
  OBVIOUS
<1>1. PICK n \in 1..MaxChunk :
        LET chunk == SubSeq(Wire, at + 1, at + n) IN
        /\ at + n <= Len(Wire) /\ at' = at + n
        /\ meter' = Metered(meter, chunk)
        /\ \/ via = "plain"
           \/ /\ via = "reconcile"
              /\ rec' = Fed(rec, chunk) /\ relayed' = relayed \o PassedOn(rec, chunk)
              /\ UNCHANGED link
           \/ Ollama
        /\ link' \in {link, "left"}
  BY DEF Relays
<1>2. answer' = answer /\ via' = via /\ tally' = tally /\ link = "open" /\ n \in Nat
  BY RelayAssumption DEF Relays
<1> DEFINE s == Sent
           c == SubSeq(Wire, at + 1, at + n)
<1>3. s \in Seq(Atom) /\ c \in Seq(Atom) /\ SubSeq(Wire, 1, at + n) = s \o c
  BY <1>1, <1>2, ChunkExtends
<1>4. Fixed
  BY <1>2, AnswerFixes
<1>5. Sent' = s \o c
  BY <1>1, <1>3, <1>4 DEF Fixed, Sent
<1>6. meter' = Metered(meter, c)
  BY <1>1
<1>7. via = "reconcile" => rec' = Fed(rec, c) /\ relayed' = relayed \o PassedOn(rec, c) /\ link' = link
  BY <1>1 DEF Ollama
<1>8. link' \in {"open", "left"} /\ tally = <<>>
  BY <1>1, <1>2 DEF RelayInv
<1>9. at' \in 0..Len(Wire)'
  <2>1. Len(Wire) \in Nat /\ at \in Nat
    BY WireSays, LenProperties DEF RelayInv
  <2> QED
    BY <1>1, <1>2, <1>4, <2>1 DEF Fixed
<1>10. meter = Counted(s, WithUsage, Talk)
  BY DEF RelayInv
<1>11. via = "reconcile" => Kept(rec, relayed, s, HeldBack)
  BY <1>2 DEF RelayInv
<1> HIDE DEF s, c
<1>12. meter' = Counted(Sent, WithUsage, Talk)'
  <2>1. meter' = Counted(s \o c, WithUsage, Talk)
    BY <1>3, <1>6, <1>10, MeterFeeds
  <2>2. Counted(Sent', WithUsage', Talk') = Counted(s \o c, WithUsage, Talk)
    BY <1>4, <1>5 DEF Fixed
  <2> QED
    BY <2>1, <2>2
<1>13. ASSUME via = "reconcile"
       PROVE  Kept(rec, relayed, Sent, HeldBack)'
  <2> DEFINE p == PassedOn(rec, c)
             d == Residue(s)
             held == HeldBack
  <2>1. Knows(rec, s, HeldBack) /\ relayed \in Seq(Atom) /\ Residue(relayed) = <<>>
    BY <1>11, <1>13 DEF Kept
  <2>2. Knows(rec', s \o c, held)
    BY <1>3, <1>7, <1>13, <2>1, ReconcilerFeeds
  <2>3. p \in Seq(Atom) /\ Follows(relayed, p, Only(Says(d \o c), Nat \ held))
    BY <1>3, <2>1, ReconcilerPasses
  <2>4. Says(relayed) = Only(Says(s), Nat \ held)
    BY <1>11, <1>13 DEF Kept
  <2>5. Says(s \o c) = Says(s) \o Says(d \o c) /\ Says(s) \in Seq(Nat) /\ Says(d \o c) \in Seq(Nat)
    <3>1. d \o c \in Seq(Atom)
      BY <1>3, LinesAre, CatFacts
    <3> QED
      BY <1>3, <3>1, SaysIs
  <2> HIDE DEF p, d, held
  <2>6. Only(Says(s \o c), Nat \ held) = Only(Says(s), Nat \ held) \o Only(Says(d \o c), Nat \ held)
    <3>1. Selects(Nat, Nat \ held)
      BY OnlyIs
    <3> QED
      BY <2>5, <3>1 DEF Selects
  <2>7. relayed \o p \in Seq(Atom)
    BY <2>1, <2>3, CatFacts
  <2>8. relayed' = relayed \o p
    BY <1>7, <1>13 DEF p
  <2>9. Kept(rec', relayed', s \o c, held)
    BY <2>2, <2>3, <2>4, <2>6, <2>7, <2>8 DEF Kept, Follows
  <2>10. Sent' = s \o c /\ HeldBack' = held
    BY <1>4, <1>5 DEF Fixed, held
  <2>11. Kept(rec', relayed', Sent', HeldBack')
    BY <2>9, <2>10
  <2> QED
    BY <2>11
<1> QED
  BY <1>2, <1>8, <1>9, <1>12, <1>13 DEF RelayInv

LEMMA AllSent ==
  ASSUME RelayInv, at = Len(Wire)
  PROVE  Sent = Wire /\ Says(Sent) = All /\ Residue(Sent) = <<>>
<1>1. Wire \in Seq(Atom) /\ Says(Wire) = All /\ Residue(Wire) = <<>>
  BY WireSays DEF RelayInv
<1>2. SubSeq(Wire, 1, Len(Wire)) = Wire
  BY <1>1, SubSeqFull
<1> QED
  BY <1>1, <1>2 DEF Sent

(* What finish() makes of an answer that has come to its end.              *)
LEMMA EndFlushes ==
  ASSUME RelayInv, UpstreamEnds, via = "reconcile"
  PROVE  /\ Sent \in Seq(Atom) /\ Says(Sent) = All /\ Residue(Sent) = <<>>
         /\ relayed' = relayed \o PassedOn(rec, <<>>) \o Synthesized(All, Only(All, HeldBack))
         /\ added' = DeltaCalls(All, Only(All, HeldBack))
<1> DEFINE last == Fed(rec, <<>>)
<1>1. link = "open" /\ at = Len(Wire)
  BY DEF UpstreamEnds
<1>2. Sent \in Seq(Atom) /\ Says(Sent) = All /\ Residue(Sent) = <<>> /\ <<>> \in Seq(Atom)
  <2>1. Wire \in Seq(Atom)
    BY WireSays DEF RelayInv
  <2> QED
    BY <1>1, <2>1, AllSent, EmptySeq
<1>3. Knows(rec, Sent, HeldBack)
  BY <1>1 DEF RelayInv, Kept
<1>4. Flushes(rec, <<>>)
  BY DEF UpstreamEnds, Closes, Ollama
<1>5. Residue(rec.residual \o <<>>) = <<>>
  <2>1. rec.residual = <<>> /\ <<>> \o <<>> = <<>>
    BY <1>2, <1>3, EmptySeq, CatFacts DEF Knows
  <2>2. Residue(<<>>) = <<>>
    BY LinesAre
  <2> QED
    BY <2>1, <2>2
<1>6. /\ relayed' = relayed \o PassedOn(rec, <<>>) \o Synthesized(last.heard, last.tail)
      /\ added' = DeltaCalls(last.heard, last.tail)
  BY <1>4, <1>5 DEF Flushes
<1>7. last.heard = All /\ last.tail = Only(All, HeldBack)
  <2>1. Knows(last, Sent \o <<>>, HeldBack)
    BY <1>2, <1>3, ReconcilerFeeds
  <2>2. Sent \o <<>> = Sent
    BY <1>2, CatFacts
  <2> QED
    BY <1>2, <2>1, <2>2 DEF Knows
<1> QED
  BY <1>2, <1>6, <1>7

LEMMA EndKeepsInv == RelayInv /\ UpstreamEnds => RelayInv'
<1> SUFFICES ASSUME RelayInv, UpstreamEnds PROVE RelayInv'
  OBVIOUS
<1>1. /\ link = "open" /\ at = Len(Wire) /\ link' = "ended" /\ tally' = Append(tally, Recorded(meter))
      /\ answer' = answer /\ via' = via /\ at' = at /\ meter' = meter
  BY DEF UpstreamEnds
<1>2. Fixed
  BY <1>1, AnswerFixes
<1>3. Sent' = Sent /\ Recorded(meter)' = Recorded(meter)
  BY <1>1, <1>2 DEF Fixed, Sent, Recorded
<1>4. meter' = Counted(Sent, WithUsage, Talk)'
  <2>1. Counted(Sent', WithUsage', Talk') = Counted(Sent, WithUsage, Talk)
    BY <1>2, <1>3 DEF Fixed
  <2> QED
    BY <1>1, <2>1 DEF RelayInv
<1>5. tally' = <<Recorded(meter)>>'
  BY <1>1, <1>3 DEF RelayInv
<1>6. ASSUME via = "reconcile"
      PROVE  AllRelayed(relayed, added, Added, All, HeldBack)'
  <2> DEFINE all == All
             held == HeldBack
             tail == Only(all, held)
             p == PassedOn(rec, <<>>)
             y == Synthesized(all, tail)
             f == IF DeltaCalls(all, tail) = <<>> THEN <<>> ELSE <<Added>>
  <2>1. Sent \in Seq(Atom) /\ Says(Sent) = all /\ Residue(Sent) = <<>> /\ <<>> \in Seq(Atom)
    BY <1>6, EndFlushes, EmptySeq
  <2>2. Kept(rec, relayed, Sent, held)
    BY <1>1, <1>6 DEF RelayInv
  <2>3. all \in Seq(Nat) /\ Len(answer) \in Nat
    BY WireSays, LenProperties DEF RelayInv
  <2>4. tail \in Seq(Nat) /\ Only(all, Nat \ held) \in Seq(Nat)
    <3>1. Selects(Nat, held) /\ Selects(Nat, Nat \ held)
      BY OnlyIs
    <3> HIDE DEF all, held
    <3> QED
      BY <2>3, <3>1 DEF Selects
  <2>5. Knows(rec, Sent, HeldBack) /\ relayed \in Seq(Atom) /\ Residue(relayed) = <<>>
    BY <2>2 DEF Kept
  <2>10. p \in Seq(Atom) /\ Residue(relayed \o p) = <<>> /\ Says(relayed \o p) = Only(all, Nat \ held)
    <3>1. p \in Seq(Atom) /\ Follows(relayed, p, Only(Says(Residue(Sent) \o <<>>), Nat \ HeldBack))
      BY <2>1, <2>5, ReconcilerPasses
    <3>2. Says(Residue(Sent) \o <<>>) = <<>>
      <4>1. Residue(Sent) \o <<>> = <<>>
        BY <2>1, CatFacts
      <4> QED
        BY <4>1, SaysIs
    <3>3. Only(<<>>, Nat \ HeldBack) = <<>>
      BY OnlyIs DEF Selects
    <3>4. Says(relayed) = Only(all, Nat \ held)
      BY <2>1, <2>2 DEF Kept
    <3> HIDE DEF p, all, held
    <3>5. Says(relayed) \o <<>> = Says(relayed)
      BY <2>5, SaysIs, CatFacts
    <3> QED
      BY <3>1, <3>2, <3>3, <3>4, <3>5 DEF Follows
  <2>11. Follows(relayed \o p, y, f \o tail)
    <3>1. relayed \o p \in Seq(Atom)
      BY <2>5, <2>10, CatFacts
    <3> HIDE DEF p, all, held, tail
    <3> QED
      BY <2>3, <2>4, <2>10, <3>1, EndIsSent
  <2>12. f \in Seq(Nat)
    BY <2>3 DEF Added
  <2>13. added' = DeltaCalls(all, tail) /\ relayed' = (relayed \o p) \o y
    BY <1>6, EndFlushes
  <2> HIDE DEF p, y
  <2>14. Says(relayed') = Only(all, Nat \ held) \o (f \o tail)
    BY <2>10, <2>11, <2>13 DEF Follows
  <2>15. f = IF added' = <<>> THEN <<>> ELSE <<Added>>
    BY <2>13
  <2> HIDE DEF f, tail, all, held
  <2>16. Chains(Only(all, Nat \ held), f, tail)
    BY <2>4, <2>12, CatChains
  <2>17. Says(relayed') = Only(all, Nat \ held) \o f \o tail
    BY <2>14, <2>16 DEF Chains
  <2>18. AllRelayed(relayed', added', Added, all, held)
    BY <2>15, <2>17 DEF AllRelayed, tail
  <2>19. Added' = Added /\ All' = all /\ HeldBack' = held
    BY <1>2 DEF Fixed, all, held
  <2>20. AllRelayed(relayed', added', Added', All', HeldBack')
    BY <2>18, <2>19
  <2> QED
    BY <2>20
<1>7. at' \in 0..Len(Wire)' /\ at' = Len(Wire)'
  BY <1>1, <1>2 DEF Fixed, RelayInv
<1> QED
  BY <1>1, <1>4, <1>5, <1>6, <1>7 DEF RelayInv

LEMMA StopsKeepInv == RelayInv /\ (BreaksOff \/ ClientLeaves \/ UNCHANGED relayVars) => RelayInv'
<1> SUFFICES ASSUME RelayInv, BreaksOff \/ ClientLeaves \/ UNCHANGED relayVars PROVE RelayInv'
  OBVIOUS
<1>1. answer' = answer /\ via' = via /\ at' = at /\ meter' = meter /\ tally' = tally
  BY DEF BreaksOff, ClientLeaves, relayVars
<1>2. \/ link = "open" /\ link' = "broken"
      \/ link = "open" /\ link' = "gone" /\ rec' = rec /\ relayed' = relayed
      \/ link' = link /\ rec' = rec /\ relayed' = relayed /\ added' = added
  BY DEF BreaksOff, ClientLeaves, relayVars
<1>3. Fixed
  BY <1>1, AnswerFixes
<1>4. Sent' = Sent /\ Recorded(meter)' = Recorded(meter)
  BY <1>1, <1>3 DEF Fixed, Sent, Recorded
<1>5. meter' = Counted(Sent, WithUsage, Talk)'
  <2>1. Counted(Sent', WithUsage', Talk') = Counted(Sent, WithUsage, Talk)
    BY <1>3, <1>4 DEF Fixed
  <2> QED
    BY <1>1, <2>1 DEF RelayInv
<1>6. at' \in 0..Len(Wire)' /\ (link' = "ended" => at' = Len(Wire)')
  BY <1>1, <1>2, <1>3 DEF Fixed, RelayInv
<1>7. tally' = IF link' = "ended" THEN <<Recorded(meter)>>' ELSE <<>>
  BY <1>1, <1>2, <1>4 DEF RelayInv
<1>8. ASSUME via = "reconcile", link' \in {"open", "gone"}
      PROVE  Kept(rec, relayed, Sent, HeldBack)'
  <2>1. Kept(rec, relayed, Sent, HeldBack) /\ rec' = rec /\ relayed' = relayed
    BY <1>2, <1>8 DEF RelayInv
  <2>2. Kept(rec', relayed', Sent', HeldBack')
    BY <1>3, <1>4, <2>1 DEF Fixed
  <2> QED
    BY <2>2
<1>9. ASSUME via = "reconcile", link' = "ended"
      PROVE  AllRelayed(relayed, added, Added, All, HeldBack)'
  <2>1. AllRelayed(relayed, added, Added, All, HeldBack) /\ relayed' = relayed /\ added' = added
    BY <1>2, <1>9 DEF RelayInv
  <2>2. AllRelayed(relayed', added', Added', All', HeldBack')
    BY <1>3, <2>1 DEF Fixed
  <2> QED
    BY <2>2
<1>10. link' \in {"open", "ended", "broken", "gone", "left"}
  BY <1>2 DEF RelayInv
<1> QED
  BY <1>1, <1>5, <1>6, <1>7, <1>8, <1>9, <1>10 DEF RelayInv

(* The meter and the reconciler agree with the bytes that have come,       *)
(* wherever these were cut.                                                *)
THEOREM RelayInvAlways == RelaySpec => []RelayInv
<1>1. RelayInv /\ [RelayNext]_relayVars => RelayInv'
  BY RelaysKeepsInv, EndKeepsInv, StopsKeepInv DEF RelayNext
<1> QED
  BY <1>1, RelayInvInitially, PTL DEF RelaySpec

(* UsageIsCountedOnce: StreamTokenMeter counts a stream that was relayed to *)
(* its end, once and by the last usage or all of its text; no other.       *)
THEOREM UsageIsCountedOnceAlways == RelaySpec => []UsageIsCountedOnce
<1>1. RelayInv => UsageIsCountedOnce
  <2> SUFFICES ASSUME RelayInv, ~Ollama PROVE UsageIsCountedOnce
    BY DEF UsageIsCountedOnce
  <2> DEFINE full == Only(All, WithUsage)
             talk == {i \in DOMAIN answer : answer[i].kind \in {"text", "call"} /\ answer[i].usage = "none"}
  <2>1. CASE link # "ended"
    <3>1. tally = <<>>
      BY <2>1 DEF RelayInv
    <3> QED
      BY <2>1, <3>1 DEF UsageIsCountedOnce
  <2>2. CASE link = "ended"
    <3>1. Says(Sent) = All /\ tally = <<Recorded(meter)>> /\ meter = Counted(Sent, WithUsage, Talk)
      BY <2>2, AllSent DEF RelayInv
    <3>2. meter.usage = LastOf(full) /\ meter.out = Len(Only(All, Talk))
      BY <3>1 DEF Counted
    <3>3. Len(answer) \in Nat /\ DOMAIN answer = 1..Len(answer) /\ All \in Seq(Nat)
      BY WireSays, LenProperties DEF RelayInv
    <3>4. Len(Only(All, Talk)) = Cardinality(talk)
      <4>1. All = [i \in 1..Len(answer) |-> i]
        BY <3>3 DEF All, Places
      <4>2. talk = {i \in 1..Len(answer) : i \in Talk}
        BY <3>3 DEF Talk, Event
      <4>3. Len(Only([i \in 1..Len(answer) |-> i], Talk)) = Cardinality({i \in 1..Len(answer) : i \in Talk})
        BY <3>3, OnlyCounts
      <4> QED
        BY <4>1, <4>2, <4>3
    <3>5. full = <<>> => LastOf(full) = 0
      BY DEF LastOf
    <3>6. full # <<>> => LastOf(full) = Last(full) /\ Last(full) # 0
      <4> SUFFICES ASSUME full # <<>> PROVE LastOf(full) = Last(full) /\ Last(full) # 0
        OBVIOUS
      <4>1. full \in Seq(DOMAIN answer)
        <5>1. All \in Seq(DOMAIN answer)
          BY <3>3 DEF All, Places
        <5>2. Selects(DOMAIN answer, WithUsage)
          BY OnlyIs
        <5> QED
          BY <5>1, <5>2 DEF Selects
      <4>2. Len(full) \in 1..Len(full)
        BY <4>1, EmptySeq
      <4>3. full[Len(full)] \in DOMAIN answer
        BY <4>1, <4>2, ElementOfSeq
      <4> QED
        BY <3>3, <4>3 DEF LastOf, Last
    <3>7. Recorded(meter) = IF full # <<>> THEN [usage |-> Last(full), out |-> 0]
                            ELSE [usage |-> 0, out |-> Cardinality(talk)]
      BY <3>2, <3>4, <3>5, <3>6 DEF Recorded
    <3> QED
      BY <2>2, <3>1, <3>7 DEF UsageIsCountedOnce
  <2> QED
    BY <2>1, <2>2
<1> QED
  BY <1>1, RelayInvAlways, PTL

(* StreamIsRelayed: StreamReconciler passes on every event but those that  *)
(* end the stream as its line completes, and in the end every event once,  *)
(* however the bytes were cut.                                             *)
THEOREM StreamIsRelayedAlways == RelaySpec => []StreamIsRelayed
<1>1. RelayInv => StreamIsRelayed
  BY DEF RelayInv, StreamIsRelayed, Kept, AllRelayed, Says, Came, Sent
<1> QED
  BY <1>1, RelayInvAlways, PTL

--------------------------------------------------------------------------------
(* The Ollama routes                                                       *)

(* The answer, event by event.                                             *)
UpTo(m) == [k \in 1..m |-> k]

LEMMA UpToIs ==
  /\ UpTo(0) = <<>>
  /\ \A m \in Nat : UpTo(m) \in Seq(Nat) /\ Len(UpTo(m)) = m /\ UpTo(m + 1) = Append(UpTo(m), m + 1)
<1>1. UpTo(0) = <<>>
  BY DEF UpTo
<1>2. \A m \in Nat : UpTo(m) \in Seq(Nat) /\ Len(UpTo(m)) = m /\ \A i \in 1..m : UpTo(m)[i] = i
  BY DEF UpTo
<1>3. ASSUME NEW m \in Nat
      PROVE  UpTo(m + 1) = Append(UpTo(m), m + 1)
  <2> DEFINE a == UpTo(m + 1)
             u == UpTo(m)
             n == m + 1
             b == Append(u, n)
  <2>1. n \in Nat /\ u \in Seq(Nat) /\ Len(u) = m /\ \A i \in 1..m : u[i] = i
    BY <1>2
  <2>2. a \in Seq(Nat) /\ Len(a) = n /\ \A i \in 1..n : a[i] = i
    BY <1>2, <2>1
  <2>3. \A i \in 1..n : i \in 1..m \/ i = m + 1
    OBVIOUS
  <2>4. n = m + 1
    OBVIOUS
  <2> HIDE DEF a, u, n
  <2>5. /\ b \in Seq(Nat) /\ Len(b) = m + 1 /\ b[m + 1] = n
        /\ \A i \in 1..m : b[i] = u[i]
    BY <2>1, AppendProperties
  <2> HIDE DEF b
  <2>6. \A i \in 1..Len(a) : a[i] = b[i]
    BY <2>1, <2>2, <2>3, <2>4, <2>5
  <2> QED
    BY <2>2, <2>4, <2>5, <2>6, SeqEqual DEF a, b, u, n
<1> QED
  BY <1>1, <1>2, <1>3

TextEvents  == {i \in Nat : Event(i).kind = "text"}
PartLine    == [i \in Nat |-> NdLine("part", i, <<>>, 0, 0)]
ErrorLine   == NdLine("error", Failure, <<>>, 0, 0)
TextOf(m)   == Only(UpTo(m), TextEvents)
PartsOf(m)  == Image(PartLine, TextOf(m))
Line        == {PartLine[i] : i \in Nat}

LEMMA PartsGrow ==
  /\ TextOf(0) = <<>> /\ PartsOf(0) = <<>>
  /\ \A m \in Nat : /\ TextOf(m) \in Seq(Nat) /\ PartsOf(m) \in Seq(Line)
                    /\ TextOf(m + 1) = IF m + 1 \in TextEvents THEN Append(TextOf(m), m + 1) ELSE TextOf(m)
                    /\ PartsOf(m + 1) = IF m + 1 \in TextEvents THEN Append(PartsOf(m), PartLine[m + 1]) ELSE PartsOf(m)
<1>1. Selects(Nat, TextEvents)
  BY OnlyIs
<1>2. PartLine \in [Nat -> Line]
  BY DEF PartLine, Line
<1>3. Maps(PartLine, Nat, Line)
  BY <1>2, ImageIs
<1>4. TextOf(0) = <<>>
  BY <1>1, UpToIs DEF TextOf, Selects
<1>5. PartsOf(0) = <<>>
  BY <1>4 DEF PartsOf, Image
<1>6. ASSUME NEW m \in Nat
      PROVE  /\ TextOf(m) \in Seq(Nat) /\ PartsOf(m) \in Seq(Line)
             /\ TextOf(m + 1) = IF m + 1 \in TextEvents THEN Append(TextOf(m), m + 1) ELSE TextOf(m)
             /\ PartsOf(m + 1) = IF m + 1 \in TextEvents THEN Append(PartsOf(m), PartLine[m + 1]) ELSE PartsOf(m)
  <2> DEFINE n == m + 1
             u == UpTo(m)
  <2>1. n \in Nat /\ u \in Seq(Nat) /\ UpTo(n) = Append(u, n)
    <3>1. n \in Nat
      OBVIOUS
    <3> QED
      BY <3>1, UpToIs, Zenon
  <2> HIDE DEF n, u
  <2>2. TextOf(m) \in Seq(Nat) /\ TextOf(n) = IF n \in TextEvents THEN Append(TextOf(m), n) ELSE TextOf(m)
    BY <1>1, <2>1 DEF Selects, TextOf, u
  <2>3. PartsOf(m) \in Seq(Line) /\ PartsOf(n) = IF n \in TextEvents THEN Append(PartsOf(m), PartLine[n]) ELSE PartsOf(m)
    BY <1>3, <2>1, <2>2 DEF Maps, PartsOf
  <2> QED
    BY <2>2, <2>3 DEF n
<1> QED
  BY <1>4, <1>5, <1>6

(* The event that ends the answer: an error, or else [DONE]; if there is   *)
(* neither, it is where the proxy's own error would be.                    *)
Errors  == {i \in DOMAIN answer : answer[i].kind = "error"}
IsDone  == \E i \in DOMAIN answer : answer[i].kind = "done"
Stop    == IF Errors # {} THEN CHOOSE i \in Errors : TRUE ELSE IF IsDone THEN Len(answer) ELSE Failure
EndLine == IF Event(Stop).kind = "done" THEN DoneLine(UpTo(Stop - 1)) ELSE NdLine("error", Stop, <<>>, 0, 0)

WellEnded ==
  /\ answer \in Seq(EventType)
  /\ \A i \in DOMAIN answer :
       /\ answer[i].kind = "done" => i = Len(answer)
       /\ answer[i].kind = "error" => \A j \in (i + 1)..Len(answer) : answer[j].kind = "done"

LEMMA StopIs ==
  ASSUME WellEnded
  PROVE  /\ Len(answer) \in Nat /\ Failure = Len(answer) + 1 /\ Event(Failure).kind = "error"
         /\ \A i \in 1..Len(answer) : Event(i) = answer[i]
         /\ Stop \in 1..Failure
         /\ \A i \in 1..(Stop - 1) : Event(i).kind \notin {"error", "done"}
         /\ Event(Stop).kind \in {"error", "done"}
         /\ Event(Stop).kind = "done" => Stop = Len(answer)
         /\ \A i \in (Stop + 1)..Len(answer) : Event(i).kind = "done"
<1> DEFINE n == Len(answer)
<1>1. n \in Nat /\ DOMAIN answer = 1..n
  BY LenProperties DEF WellEnded
<1>2. Failure \notin DOMAIN answer /\ Failure = n + 1
  BY <1>1 DEF Failure
<1>3. Event(Failure).kind = "error" /\ \A i \in 1..n : Event(i) = answer[i]
  BY <1>1, <1>2 DEF Event
<1>4. \A i \in 1..n : /\ answer[i].kind = "done" => i = n
                      /\ answer[i].kind = "error" => \A j \in (i + 1)..n : answer[j].kind = "done"
  BY <1>1 DEF WellEnded
<1> DEFINE Goal(s) == /\ s \in 1..Failure
                      /\ \A i \in 1..(s - 1) : Event(i).kind \notin {"error", "done"}
                      /\ Event(s).kind \in {"error", "done"}
                      /\ Event(s).kind = "done" => s = n
                      /\ \A i \in (s + 1)..n : Event(i).kind = "done"
<1> HIDE DEF n
<1>5. CASE Errors # {}
  <2>1. Stop \in Errors
    BY <1>5 DEF Stop
  <2> DEFINE s == Stop
  <2>2. s \in 1..n /\ answer[s].kind = "error"
    BY <1>1, <2>1 DEF Errors
  <2> HIDE DEF s
  <2>3. \A i \in (s + 1)..n : answer[i].kind = "done"
    BY <1>4, <2>2
  <2>4. \A i \in 1..(s - 1) : answer[i].kind \notin {"error", "done"}
    <3> SUFFICES ASSUME NEW i \in 1..(s - 1), answer[i].kind \in {"error", "done"} PROVE FALSE
      OBVIOUS
    <3>1. i \in 1..n /\ i # n /\ s \in (i + 1)..n
      BY <1>1, <2>2
    <3>2. answer[s].kind = "done"
      BY <1>4, <3>1
    <3> QED
      BY <2>2, <3>2
  <2>5. \A i \in 1..n : i \in 1..Failure
    BY <1>1, <1>2
  <2>6. \A i \in 1..(s - 1) : i \in 1..n
    BY <1>1, <2>2
  <2>7. \A i \in (s + 1)..n : i \in 1..n
    BY <1>1, <2>2
  <2>8. Goal(s)
    BY <1>3, <2>2, <2>3, <2>4, <2>5, <2>6, <2>7
  <2> QED
    BY <1>1, <1>2, <1>3, <2>8 DEF n, s
<1>6. CASE Errors = {} /\ IsDone
  <2>1. Stop = n
    BY <1>6 DEF Stop, n
  <2>2. \A i \in 1..n : answer[i].kind # "error"
    BY <1>1, <1>6 DEF Errors
  <2>3. n \in 1..n /\ answer[n].kind = "done"
    BY <1>1, <1>4, <1>6 DEF IsDone
  <2>4. \A i \in 1..(n - 1) : i \in 1..n /\ i # n
    BY <1>1
  <2>5. ~\E i \in (n + 1)..n : TRUE
    BY <1>1
  <2>6. n \in 1..Failure
    BY <1>2, <2>3, <1>1
  <2>7. Goal(n)
    BY <1>3, <1>4, <2>2, <2>3, <2>4, <2>5, <2>6
  <2> QED
    BY <1>1, <1>2, <1>3, <2>1, <2>7 DEF n
<1>7. CASE Errors = {} /\ ~IsDone
  <2>1. Stop = Failure
    BY <1>7 DEF Stop
  <2>2. \A i \in 1..n : answer[i].kind \notin {"error", "done"}
    BY <1>1, <1>7 DEF Errors, IsDone
  <2>3. \A i \in 1..(Failure - 1) : i \in 1..n
    BY <1>1, <1>2
  <2>4. ~\E i \in (Failure + 1)..n : TRUE
    BY <1>1, <1>2
  <2>5. Failure \in 1..Failure
    BY <1>1, <1>2
  <2>6. Goal(Failure)
    BY <1>3, <2>2, <2>3, <2>4, <2>5
  <2> QED
    BY <1>1, <1>2, <1>3, <2>1, <2>6 DEF n
<1> QED
  BY <1>5, <1>6, <1>7

(* What an Ollama client has been told by the first m events.              *)
State(b, heard, over, ls) == [buf |-> b, heard |-> heard, over |-> over, lines |-> ls]
ToldBy(m, b) ==
  IF m < Stop THEN State(b, UpTo(m), "no", PartsOf(m))
  ELSE State(b, UpTo(Stop - 1), Event(Stop).kind, Append(PartsOf(Stop - 1), EndLine))
Failed(m, b) ==
  IF ToldBy(m, b).over = "error" THEN ToldBy(m, b)
  ELSE State(b, ToldBy(m, b).heard, "error", Append(ToldBy(m, b).lines, ErrorLine))

LEMMA HearsNext ==
  ASSUME WellEnded, NEW m \in Nat, m + 1 <= Len(answer), NEW b
  PROVE  Hears(ToldBy(m, b), m + 1) = ToldBy(m + 1, b)
<1> DEFINE n == m + 1
           e == Event(n)
           u == UpTo(m)
           p == PartsOf(m)
           z == Stop
<1>1. Len(answer) \in Nat /\ n \in 1..Len(answer) /\ n - 1 = m /\ z \in 1..(Len(answer) + 1)
  BY StopIs
<1>2. n \in TextEvents <=> e.kind = "text"
  BY <1>1 DEF TextEvents
<1>3. Append(u, n) = UpTo(n) /\ PartLine[n] = NdLine("part", n, <<>>, 0, 0)
  <2>1. Append(u, n) = UpTo(n)
    BY UpToIs, Zenon
  <2>2. n \in Nat
    OBVIOUS
  <2> HIDE DEF n
  <2> QED
    BY <2>1, <2>2 DEF PartLine
<1>4. PartsOf(n) = IF n \in TextEvents THEN Append(p, PartLine[n]) ELSE p
  BY PartsGrow
<1>5. (m < z /\ n < z) \/ (m < z /\ n = z) \/ (~(m < z) /\ ~(n < z) /\ z # Len(answer))
  BY <1>1
<1> HIDE DEF n, e, u, p, z
<1>6. CASE m < z /\ n < z
  <2>1. e.kind \notin {"error", "done"}
    <3>1. n \in 1..(z - 1)
      BY <1>1, <1>6
    <3> QED
      BY <3>1, StopIs DEF e, z
  <2>2. Hears(State(b, u, "no", p), n)
          = State(b, Append(u, n), "no", IF e.kind = "text" THEN Append(p, NdLine("part", n, <<>>, 0, 0)) ELSE p)
    BY <2>1 DEF Hears, State, e
  <2>3. ToldBy(m, b) = State(b, u, "no", p) /\ ToldBy(n, b) = State(b, UpTo(n), "no", PartsOf(n))
    BY <1>6 DEF ToldBy, u, p, z
  <2> QED
    BY <1>2, <1>3, <1>4, <2>2, <2>3 DEF n
<1>7. CASE m < z /\ n = z
  <2>1. e.kind \in {"error", "done"} /\ ~(n < z)
    BY <1>1, <1>7, StopIs DEF e, z
  <2>2. z - 1 = m
    BY <1>1, <1>7
  <2>3. ToldBy(m, b) = State(b, u, "no", p) /\ ToldBy(n, b) = State(b, u, e.kind, Append(p, EndLine))
    BY <1>7, <2>1, <2>2 DEF ToldBy, u, p, z, e
  <2>4. EndLine = IF e.kind = "done" THEN DoneLine(u) ELSE NdLine("error", n, <<>>, 0, 0)
    BY <1>7, <2>2 DEF EndLine, u, z, e
  <2>5. CASE e.kind = "done"
    <3>1. Hears(State(b, u, "no", p), n) = State(b, u, "done", Append(p, DoneLine(u)))
      BY <2>5 DEF Hears, State, e
    <3> QED
      BY <2>3, <2>4, <2>5, <3>1 DEF n
  <2>6. CASE e.kind = "error"
    <3>1. Hears(State(b, u, "no", p), n) = State(b, u, "error", Append(p, NdLine("error", n, <<>>, 0, 0)))
      BY <2>6 DEF Hears, State, e
    <3> QED
      BY <2>3, <2>4, <2>6, <3>1 DEF n
  <2> QED
    BY <2>1, <2>5, <2>6
<1>8. CASE ~(m < z) /\ ~(n < z) /\ z # Len(answer)
  <2>1. Event(z).kind = "error"
    BY <1>8, StopIs DEF z
  <2> DEFINE t == State(b, UpTo(z - 1), "error", Append(PartsOf(z - 1), EndLine))
  <2>2. ToldBy(m, b) = t /\ ToldBy(n, b) = t
    BY <1>8, <2>1 DEF ToldBy, z
  <2>3. Hears(t, n) = t
    BY DEF Hears, State
  <2> QED
    BY <2>2, <2>3 DEF n
<1> QED
  BY <1>5, <1>6, <1>7, <1>8

LEMMA HearsFailure ==
  ASSUME WellEnded, NEW m, NEW b
  PROVE  Hears(ToldBy(m, b), Failure) = Failed(m, b)
<1>1. Event(Failure).kind = "error" /\ Event(Stop).kind \in {"error", "done"}
  BY StopIs
<1>2. ASSUME NEW h, NEW o \in {"no", "done"}, NEW ls
      PROVE  Hears(State(b, h, o, ls), Failure) = State(b, h, "error", Append(ls, ErrorLine))
  BY <1>1 DEF Hears, State, ErrorLine
<1>3. ASSUME NEW h, NEW ls
      PROVE  Hears(State(b, h, "error", ls), Failure) = State(b, h, "error", ls)
  BY DEF Hears, State
<1>4. \E h, o, ls : ToldBy(m, b) = State(b, h, o, ls) /\ o \in {"no", "done", "error"}
  BY <1>1 DEF ToldBy
<1>5. PICK h, o, ls : ToldBy(m, b) = State(b, h, o, ls) /\ o \in {"no", "done", "error"}
  BY <1>4
<1>6. ToldBy(m, b).over = o /\ ToldBy(m, b).heard = h /\ ToldBy(m, b).lines = ls
  BY <1>5 DEF State
<1>7. CASE o = "error"
  BY <1>3, <1>5, <1>6, <1>7 DEF Failed
<1>8. CASE o # "error"
  BY <1>2, <1>5, <1>6, <1>8 DEF Failed
<1> QED
  BY <1>7, <1>8

LEMMA Quarters == \A k \in Nat : \E q \in Nat, r \in 0..3 : k = 4*q + r
<1> DEFINE S == {k \in Nat : \E q \in Nat, r \in 0..3 : k = 4*q + r}
<1>1. 0 \in S
  <2>1. 0 = 4*0 + 0 /\ 0 \in Nat /\ 0 \in 0..3
    OBVIOUS
  <2> QED
    BY <2>1
<1>2. ASSUME NEW k \in Nat, k \in S
      PROVE  k + 1 \in S
  <2>1. PICK q \in Nat, r \in 0..3 : k = 4*q + r
    BY <1>2
  <2>2. CASE r = 3
    <3> DEFINE p == q + 1
    <3>1. k + 1 = 4*p + 0 /\ p \in Nat /\ 0 \in 0..3
      BY <2>1, <2>2
    <3> HIDE DEF p
    <3>2. \E q1 \in Nat, r1 \in 0..3 : k + 1 = 4*q1 + r1
      BY <3>1, Zenon
    <3> QED
      BY <3>2
  <2>3. CASE r # 3
    <3>1. k + 1 = 4*q + (r + 1) /\ r + 1 \in 0..3
      BY <2>1, <2>3
    <3> QED
      BY <3>1
  <2> QED
    BY <2>2, <2>3
<1>3. Nat \subseteq S
  <2> HIDE DEF S
  <2> QED
    BY <1>1, <1>2, NumbersInduction
<1> QED
  BY <1>3

(* An event is four atoms.                                                 *)
Quads(x, as) ==
  /\ x \in Seq(Atom) /\ Len(x) = 4 * Len(as)
  /\ \A i \in 1..Len(as) :
       x[4*i - 3] = <<as[i], "front">> /\ x[4*i - 2] = <<as[i], "back">> /\ x[4*i - 1] = NL /\ x[4*i] = NL

LEMMA EventBytesAre ==
  ASSUME NEW a \in Nat
  PROVE  LET y == EventBytes[a] IN
         /\ y \in Seq(Atom) /\ Len(y) = 4
         /\ y[1] = <<a, "front">> /\ y[2] = <<a, "back">> /\ y[3] = NL /\ y[4] = NL
<1>1. EventBytes[a] = DataLine(a) \o <<NL, NL>> /\ EventBytes[a] \in Seq(Atom)
  BY EventsUtter DEF EventBytes
<1>2. <<a, "front">> \in Atom /\ <<a, "back">> \in Atom /\ NL \in Atom
  BY AtomsAre
<1> DEFINE f == <<a, "front">>
           b == <<a, "back">>
           z == NL
           s == <<f, b>>
           t == <<z, z>>
<1>3. EventBytes[a] = s \o t
  BY <1>1 DEF DataLine
<1> HIDE DEF f, b, z
<1>4. f \in Atom /\ b \in Atom /\ z \in Atom
  BY <1>2 DEF f, b, z
<1>5. /\ s \in Seq(Atom) /\ Len(s) = 2 /\ s[1] = f /\ s[2] = b
      /\ t \in Seq(Atom) /\ Len(t) = 2 /\ t[1] = z /\ t[2] = z
  BY <1>4
<1> HIDE DEF s, t
<1>6. /\ s \o t \in Seq(Atom) /\ Len(s \o t) = Len(s) + Len(t)
      /\ \A i \in 1..(Len(s) + Len(t)) : (s \o t)[i] = IF i <= Len(s) THEN s[i] ELSE t[i - Len(s)]
  BY <1>5, ConcatProperties
<1> DEFINE u == s \o t
<1> HIDE DEF u
<1>7. u \in Seq(Atom) /\ Len(u) = 4 /\ \A i \in 1..4 : u[i] = IF i <= 2 THEN s[i] ELSE t[i - 2]
  BY <1>5, <1>6 DEF u
<1>8. u[1] = f /\ u[2] = b /\ u[3] = z /\ u[4] = z
  BY <1>5, <1>7
<1> QED
  BY <1>3, <1>7, <1>8 DEF f, b, z, u

LEMMA QuadsAre ==
  ASSUME NEW as \in Seq(Nat)
  PROVE  Quads(Through(EventBytes, as), as)
<1> DEFINE T == {bs \in Seq(Nat) : Quads(Through(EventBytes, bs), bs)}
<1>1. JoinsThrough(EventBytes, Nat, Atom)
  BY EventsUtter, ThroughIs
<1>2. <<>> \in T
  <2>1. Through(EventBytes, <<>>) = <<>> /\ Len(<<>>) = 0 /\ <<>> \in Seq(Atom) /\ <<>> \in Seq(Nat)
    BY <1>1, EmptySeq DEF JoinsThrough
  <2>2. 4 * 0 = 0 /\ 1..0 = {}
    OBVIOUS
  <2>3. Quads(<<>>, <<>>)
    BY <2>1, <2>2 DEF Quads
  <2> QED
    BY <2>1, <2>3
<1>3. ASSUME NEW bs \in Seq(Nat), NEW a \in Nat, bs \in T
      PROVE  Append(bs, a) \in T
  <2> DEFINE x == Through(EventBytes, bs)
             y == EventBytes[a]
             cs == Append(bs, a)
             z == x \o y
             n == Len(bs)
  <2>1. Through(EventBytes, cs) = z
    BY <1>1 DEF JoinsThrough
  <2>2. n \in Nat /\ cs \in Seq(Nat) /\ Len(cs) = n + 1 /\ cs[n + 1] = a /\ \A i \in 1..n : cs[i] = bs[i]
    BY AppendProperties, LenProperties
  <2>3. Quads(x, bs)
    BY <1>3
  <2>4. /\ y \in Seq(Atom) /\ Len(y) = 4
        /\ y[1] = <<a, "front">> /\ y[2] = <<a, "back">> /\ y[3] = NL /\ y[4] = NL
    BY EventBytesAre
  <2>5. x \in Seq(Atom) /\ Len(x) = 4 * n
    BY <2>3 DEF Quads
  <2> HIDE DEF x, y, cs
  <2>6. /\ z \in Seq(Atom) /\ Len(z) = 4 * n + 4
        /\ \A k \in 1..(4 * n) : z[k] = x[k]
        /\ z[4 * n + 1] = y[1] /\ z[4 * n + 2] = y[2] /\ z[4 * n + 3] = y[3] /\ z[4 * n + 4] = y[4]
    <3> DEFINE l == 4 * n
    <3>1. l \in Nat /\ Len(x) = l
      BY <2>2, <2>5
    <3> HIDE DEF l
    <3>2. /\ z \in Seq(Atom) /\ Len(z) = l + 4
          /\ \A k \in 1..(l + 4) : z[k] = IF k <= l THEN x[k] ELSE y[k - l]
      <4>1. /\ z \in Seq(Atom) /\ Len(z) = Len(x) + Len(y)
            /\ \A k \in 1..(Len(x) + Len(y)) : z[k] = IF k <= Len(x) THEN x[k] ELSE y[k - Len(x)]
        BY <2>4, <2>5, ConcatProperties
      <4> HIDE DEF z
      <4> QED
        BY <2>4, <3>1, <4>1
    <3> HIDE DEF z
    <3>3. \A k \in 1..l : z[k] = x[k]
      BY <3>1, <3>2
    <3>4. z[l + 1] = y[1] /\ z[l + 2] = y[2] /\ z[l + 3] = y[3] /\ z[l + 4] = y[4]
      <4>1. ASSUME NEW j \in 1..4
            PROVE  z[l + j] = y[j]
        <5>1. l + j \in 1..(l + 4) /\ ~(l + j <= l) /\ (l + j) - l = j
          BY <3>1
        <5> QED
          BY <3>2, <5>1
      <4> QED
        BY <4>1
    <3> QED
      BY <3>2, <3>3, <3>4 DEF l
  <2> HIDE DEF z
  <2>7. ASSUME NEW i \in 1..(n + 1)
        PROVE  /\ z[4*i - 3] = <<cs[i], "front">> /\ z[4*i - 2] = <<cs[i], "back">>
               /\ z[4*i - 1] = NL /\ z[4*i] = NL
    <3>1. CASE i = n + 1
      <4>1. 4*i - 3 = 4*n + 1 /\ 4*i - 2 = 4*n + 2 /\ 4*i - 1 = 4*n + 3 /\ 4*i = 4*n + 4
        BY <2>2, <3>1
      <4> QED
        BY <2>2, <2>4, <2>6, <3>1, <4>1
    <3>2. CASE i # n + 1
      <4>1. i \in 1..n /\ 4*i - 3 \in 1..(4*n) /\ 4*i - 2 \in 1..(4*n) /\ 4*i - 1 \in 1..(4*n) /\ 4*i \in 1..(4*n)
        BY <2>2, <3>2
      <4>2. /\ x[4*i - 3] = <<bs[i], "front">> /\ x[4*i - 2] = <<bs[i], "back">>
            /\ x[4*i - 1] = NL /\ x[4*i] = NL
        BY <2>3, <4>1 DEF Quads
      <4> QED
        BY <2>2, <2>6, <4>1, <4>2
    <3> QED
      BY <3>1, <3>2
  <2>8. Quads(z, cs)
    <3>1. Len(z) = 4 * (n + 1)
      BY <2>2, <2>6
    <3> HIDE DEF n
    <3> QED
      BY <2>2, <2>6, <2>7, <3>1 DEF Quads
  <2> QED
    BY <2>1, <2>2, <2>8 DEF cs
<1>4. Seq(Nat) \subseteq T
  <2> HIDE DEF T
  <2> QED
    BY <1>2, <1>3, SeqSetInduction
<1> QED
  BY <1>4

LEMMA QuadsDiffer ==
  ASSUME NEW as \in Seq(Nat), NEW x, NEW y, Quads(x, as), Quads(y, as)
  PROVE  x = y
<1> DEFINE n == Len(as)
<1>1. n \in Nat
  BY LenProperties
<1>2. x \in Seq(Atom) /\ y \in Seq(Atom) /\ Len(x) = 4 * n /\ Len(y) = 4 * n
  BY DEF Quads
<1>3. ASSUME NEW k \in 1..(4 * n)
      PROVE  x[k] = y[k]
  <2>1. \E i \in 1..n : k = 4*i - 3 \/ k = 4*i - 2 \/ k = 4*i - 1 \/ k = 4*i
    <3>1. k - 1 \in Nat
      OBVIOUS
    <3>2. PICK q \in Nat, r \in 0..3 : k - 1 = 4*q + r
      BY <3>1, Quarters
    <3>3. q + 1 \in 1..n
      <4> HIDE DEF n
      <4> QED
        BY <1>1, <3>2
    <3>4. \/ k = 4*(q + 1) - 3 \/ k = 4*(q + 1) - 2
          \/ k = 4*(q + 1) - 1 \/ k = 4*(q + 1)
      BY <3>2
    <3> QED
      BY <3>3, <3>4
  <2> QED
    BY <2>1 DEF Quads
<1> QED
  BY <1>2, <1>3, SeqEqual

LEMMA WireIs ==
  ASSUME answer \in Seq(EventType)
  PROVE  Quads(Wire, All)
<1>1. Len(answer) \in Nat /\ DOMAIN answer = 1..Len(answer) /\ All \in Seq(Nat)
  BY LenProperties, WireSays
<1>2. DOMAIN All = DOMAIN answer /\ \A k \in DOMAIN answer : All[k] = k /\ k \in Nat
  BY <1>1 DEF All, Places
<1>3. [i \in DOMAIN answer |-> DataLine(i) \o <<NL, NL>>] = Image(EventBytes, All)
  BY <1>2 DEF Image, EventBytes
<1>4. Wire = Through(EventBytes, All)
  BY <1>3 DEF Wire, Through
<1> QED
  BY <1>1, <1>4, QuadsAre

LEMMA WireAt ==
  ASSUME answer \in Seq(EventType)
  PROVE  /\ Len(answer) \in Nat /\ Wire \in Seq(Atom) /\ Len(Wire) = 4 * Len(answer)
         /\ \A i \in 1..Len(answer) : /\ Wire[4*i - 3] = <<i, "front">> /\ Wire[4*i - 2] = <<i, "back">>
                                      /\ Wire[4*i - 1] = NL /\ Wire[4*i] = NL
<1>1. Len(answer) \in Nat /\ DOMAIN answer = 1..Len(answer)
  BY LenProperties
<1>2. Len(All) = Len(answer) /\ \A k \in 1..Len(answer) : All[k] = k
  BY <1>1, WireSays DEF All, Places
<1>3. Quads(Wire, All)
  BY WireIs
<1> QED
  BY <1>1, <1>2, <1>3 DEF Quads

(* The events from m + 1 to m + d, and what has come behind them.          *)
NumbersAfter(m, d) == [k \in 1..d |-> m + k]
Span(m, d, r) == SubSeq(Wire, 4*m + 1, 4*m + 4*d + r)
Fits4(m, d, r) == m \in Nat /\ d \in Nat /\ r \in 0..3 /\ 4*m + 4*d + r <= 4 * Len(answer)

LEMMA SpanIs ==
  ASSUME answer \in Seq(EventType), NEW m, NEW d, NEW r, Fits4(m, d, r)
  PROVE  /\ Span(m, d, r) \in Seq(Atom) /\ Len(Span(m, d, r)) = 4*d + r
         /\ \A k \in 1..(4*d + r) : Span(m, d, r)[k] = Wire[4*m + k]
<1> DEFINE w == Wire
           lo == 4*m + 1
           hi == 4*m + 4*d + r
<1>1. w \in Seq(Atom) /\ Len(w) = 4 * Len(answer) /\ Len(answer) \in Nat
  BY WireAt
<1>2. m \in Nat /\ d \in Nat /\ r \in 0..3 /\ hi <= Len(w) /\ lo \in 1..(Len(w) + 1) /\ hi \in (lo - 1)..Len(w)
  BY <1>1 DEF Fits4
<1>3. \A i \in lo..hi : w[i] \in Atom
  BY <1>1, <1>2, ElementOfSeq
<1>4. hi - lo + 1 = 4*d + r
  BY <1>2
<1> HIDE DEF w
<1>5. SubSeq(w, lo, hi) = [k \in 1..(4*d + r) |-> w[4*m + k]]
  <2>1. \A k \in 1..(4*d + r) : k + lo - 1 = 4*m + k
    BY <1>2
  <2> QED
    BY <1>2, <1>4, <2>1
<1>6. \A k \in 1..(4*d + r) : w[4*m + k] \in Atom
  BY <1>2, <1>3
<1>7. 4*d + r \in Nat
  BY <1>2
<1> DEFINE s == SubSeq(w, lo, hi)
           l == 4*d + r
<1>8. l \in Nat
  BY <1>7
<1>9. s = [k \in 1..l |-> w[4*m + k]] /\ \A k \in 1..l : w[4*m + k] \in Atom
  BY <1>5, <1>6
<1> HIDE DEF l, s
<1>10. s \in Seq(Atom) /\ Len(s) = l /\ \A k \in 1..l : s[k] = w[4*m + k]
  BY <1>8, <1>9
<1> QED
  BY <1>10 DEF s, l, w, Span

LEMMA SpanSays ==
  ASSUME answer \in Seq(EventType), NEW m, NEW d, Fits4(m, d, 0)
  PROVE  Says(Span(m, d, 0)) = NumbersAfter(m, d) /\ NumbersAfter(m, d) \in Seq(Nat) /\ Residue(Span(m, d, 0)) = <<>>
<1>1. m \in Nat /\ d \in Nat /\ m + d <= Len(answer) /\ Len(answer) \in Nat
  BY WireAt DEF Fits4
<1>2. NumbersAfter(m, d) \in Seq(Nat) /\ Len(NumbersAfter(m, d)) = d /\ \A k \in 1..d : NumbersAfter(m, d)[k] = m + k
  BY <1>1 DEF NumbersAfter
<1> DEFINE s == Span(m, d, 0)
           as == NumbersAfter(m, d)
<1>3. s \in Seq(Atom) /\ Len(s) = 4*d /\ \A k \in 1..(4*d) : s[k] = Wire[4*m + k]
  <2>1. 4*d + 0 = 4*d
    BY <1>1
  <2> QED
    BY <2>1, SpanIs
<1> HIDE DEF s
<1>4. ASSUME NEW i \in 1..d
      PROVE  /\ s[4*i - 3] = <<as[i], "front">> /\ s[4*i - 2] = <<as[i], "back">>
             /\ s[4*i - 1] = NL /\ s[4*i] = NL
  <2>1. m + i \in 1..Len(answer) /\ as[i] = m + i
    BY <1>1, <1>2
  <2>2. /\ Wire[4*(m + i) - 3] = <<m + i, "front">> /\ Wire[4*(m + i) - 2] = <<m + i, "back">>
        /\ Wire[4*(m + i) - 1] = NL /\ Wire[4*(m + i)] = NL
    BY <2>1, WireAt
  <2>3. 4*i - 3 \in 1..(4*d) /\ 4*i - 2 \in 1..(4*d) /\ 4*i - 1 \in 1..(4*d) /\ 4*i \in 1..(4*d)
    BY <1>1
  <2>4. /\ 4*m + (4*i - 3) = 4*(m + i) - 3 /\ 4*m + (4*i - 2) = 4*(m + i) - 2
        /\ 4*m + (4*i - 1) = 4*(m + i) - 1 /\ 4*m + 4*i = 4*(m + i)
    BY <1>1
  <2> QED
    BY <1>3, <2>1, <2>2, <2>3, <2>4
<1> HIDE DEF as
<1>5. Quads(s, as)
  BY <1>2, <1>3, <1>4 DEF Quads, as
<1>6. s = Through(EventBytes, as)
  BY <1>2, <1>5, QuadsAre, QuadsDiffer DEF as
<1>7. Reads(Through(EventBytes, as), Through(Itself, as))
  BY <1>2, EventsUtter, SaysAlone DEF as
<1> QED
  BY <1>2, <1>6, <1>7, EventsUtter DEF Reads, s, as

(* Where the last blank line of a buffer ends.                             *)
Breaks(s) == {i \in 1..(Len(s) - 1) : s[i] = NL /\ s[i + 1] = NL}
CutOf(s)  == IF Breaks(s) = {} THEN 0 ELSE Max(Breaks(s)) + 1

LEMMA MaxIs ==
  ASSUME NEW S, NEW x \in S, S \subseteq Nat, \A y \in S : y <= x
  PROVE  Max(S) = x
<1>1. \E z \in S : \A y \in S : z >= y
  BY DEF Max
<1>2. Max(S) \in S /\ \A y \in S : Max(S) >= y
  BY <1>1 DEF Max
<1> DEFINE z == Max(S)
<1>3. z \in S /\ z >= x /\ z <= x
  BY <1>2
<1> HIDE DEF z
<1>4. z \in Nat /\ x \in Nat
  BY <1>3
<1>5. z = x
  BY <1>3, <1>4
<1> QED
  BY <1>5 DEF z

LEMMA SliceIs ==
  ASSUME NEW A, NEW s \in Seq(A), NEW i \in Nat, NEW j \in Nat, i + j <= Len(s)
  PROVE  /\ SubSeq(s, i + 1, i + j) \in Seq(A) /\ Len(SubSeq(s, i + 1, i + j)) = j
         /\ \A k \in 1..j : SubSeq(s, i + 1, i + j)[k] = s[i + k]
<1> DEFINE lo == i + 1
           hi == i + j
           t == SubSeq(s, lo, hi)
<1>1. lo \in Int /\ hi \in Int /\ Len(s) \in Nat /\ \A k \in lo..hi : k \in 1..Len(s)
  BY LenProperties
<1>2. \A k \in lo..hi : s[k] \in A
  BY <1>1, ElementOfSeq
<1>3. hi - lo + 1 = j /\ (lo <= hi <=> j # 0) /\ \A k \in 1..j : lo + k - 1 = i + k
  OBVIOUS
<1> HIDE DEF lo, hi
<1>4. /\ t \in Seq(A) /\ Len(t) = IF lo <= hi THEN hi - lo + 1 ELSE 0
      /\ \A k \in 1..(hi - lo + 1) : t[k] = s[lo + k - 1]
  BY <1>1, <1>2, SubSeqProperties
<1> HIDE DEF t
<1>5. t \in Seq(A) /\ Len(t) = j /\ \A k \in 1..j : t[k] = s[i + k]
  BY <1>3, <1>4
<1> QED
  BY <1>5 DEF t, lo, hi

LEMMA SpanCut ==
  ASSUME answer \in Seq(EventType), NEW m, NEW d, NEW r, Fits4(m, d, r), NEW s, s = Span(m, d, r)
  PROVE  /\ CutOf(s) = 4*d
         /\ SubSeq(s, 1, 4*d) = Span(m, d, 0)
         /\ SubSeq(s, 4*d + 1, Len(s)) = Span(m + d, 0, r)
<1>1. m \in Nat /\ d \in Nat /\ r \in 0..3 /\ 4*m + 4*d + r <= 4 * Len(answer) /\ Len(answer) \in Nat
  BY WireAt DEF Fits4
<1>2. s \in Seq(Atom) /\ Len(s) = 4*d + r /\ \A k \in 1..(4*d + r) : s[k] = Wire[4*m + k]
  BY SpanIs
<1>3. d # 0 => 4*d - 1 \in Breaks(s)
  <2> SUFFICES ASSUME d # 0 PROVE 4*d - 1 \in Breaks(s)
    OBVIOUS
  <2>1. 4*d - 1 \in 1..(Len(s) - 1) /\ 4*d - 1 \in 1..(4*d + r) /\ 4*d \in 1..(4*d + r) /\ (4*d - 1) + 1 = 4*d
    BY <1>1, <1>2
  <2>2. s[4*d - 1] = Wire[4*m + (4*d - 1)] /\ s[4*d] = Wire[4*m + 4*d]
    BY <1>2, <2>1
  <2>3. m + d \in 1..Len(answer) /\ 4*m + (4*d - 1) = 4*(m + d) - 1 /\ 4*m + 4*d = 4*(m + d)
    BY <1>1
  <2>4. Wire[4*(m + d) - 1] = NL /\ Wire[4*(m + d)] = NL
    BY <2>3, WireAt
  <2> QED
    BY <2>1, <2>2, <2>3, <2>4 DEF Breaks
<1>4. ASSUME NEW i \in Breaks(s)
      PROVE  i < 4*d
  <2> SUFFICES ASSUME ~(i < 4*d) PROVE FALSE
    OBVIOUS
  <2>1. i \in 1..(4*d + r - 1) /\ s[i] = NL /\ s[i + 1] = NL
    <3>1. i \in 1..(Len(s) - 1) /\ s[i] = NL /\ s[i + 1] = NL
      BY <1>4 DEF Breaks
    <3>2. Len(s) = 4*d + r
      BY <1>2
    <3> QED
      BY <1>1, <3>1, <3>2
  <2>2. m + d + 1 \in 1..Len(answer) /\ r # 0
    BY <1>1, <2>1
  <2> DEFINE e == m + d + 1
  <2>3. Wire[4*e - 3] = <<e, "front">> /\ Wire[4*e - 2] = <<e, "back">>
    BY <2>2, WireAt
  <2>4. e \in Nat
    BY <2>2
  <2>5. Wire[4*e - 3] # NL /\ Wire[4*e - 2] # NL
    <3> HIDE DEF e
    <3> QED
      BY <2>3, <2>4, AtomsAre
  <2>6. 4*e - 3 = 4*m + (4*d + 1) /\ 4*e - 2 = 4*m + (4*d + 2)
    BY <1>1
  <2> HIDE DEF e
  <2>7. i = 4*d \/ i = 4*d + 1 \/ i = 4*d + 2
    BY <1>1, <2>1
  <2>8. CASE i = 4*d
    <3>1. i + 1 = 4*d + 1 /\ 4*d + 1 \in 1..(4*d + r)
      BY <1>1, <2>2, <2>8
    <3> QED
      BY <1>2, <2>1, <2>5, <2>6, <3>1
  <2>9. CASE i = 4*d + 1
    <3>1. i \in 1..(4*d + r)
      BY <1>1, <2>1
    <3> QED
      BY <1>2, <2>1, <2>5, <2>6, <2>9, <3>1
  <2>10. CASE i = 4*d + 2
    <3>1. i \in 1..(4*d + r)
      BY <1>1, <2>1
    <3> QED
      BY <1>2, <2>1, <2>5, <2>6, <2>10, <3>1
  <2> QED
    BY <2>7, <2>8, <2>9, <2>10
<1>5. Breaks(s) \subseteq Nat
  BY DEF Breaks
<1>6. CutOf(s) = 4*d
  <2>1. CASE d = 0
    <3>1. Breaks(s) = {}
      BY <1>1, <1>4, <2>1 DEF Breaks
    <3> QED
      BY <2>1, <3>1 DEF CutOf
  <2>2. CASE d # 0
    <3> DEFINE x == 4*d - 1
    <3>1. x \in Breaks(s) /\ \A y \in Breaks(s) : y <= x
      BY <1>1, <1>3, <1>4, <1>5, <2>2
    <3>2. x + 1 = 4*d
      BY <1>1
    <3> HIDE DEF x
    <3>3. Max(Breaks(s)) = x
      BY <1>5, <3>1, MaxIs
    <3> QED
      BY <3>1, <3>2, <3>3 DEF CutOf
  <2> QED
    BY <2>1, <2>2
<1>7. SubSeq(s, 1, 4*d) = Span(m, d, 0)
  <2>1. Fits4(m, d, 0) /\ 4*d + 0 = 4*d
    BY <1>1 DEF Fits4
  <2> DEFINE l == 4*d
             t == Span(m, d, 0)
             u == SubSeq(s, 1, l)
  <2>2. t \in Seq(Atom) /\ Len(t) = l /\ \A k \in 1..l : t[k] = Wire[4*m + k]
    BY <2>1, SpanIs
  <2>3. l \in Nat /\ 0 \in Nat /\ 0 + l <= Len(s) /\ 0 + 1 = 1 /\ 0 + l = l
    BY <1>1, <1>2
  <2>4. \A k \in 1..l : s[k] = Wire[4*m + k] /\ 0 + k = k
    BY <1>1, <1>2
  <2> HIDE DEF l, t
  <2>5. u \in Seq(Atom) /\ Len(u) = l /\ \A k \in 1..l : u[k] = s[0 + k]
    BY <1>2, <2>3, SliceIs
  <2> HIDE DEF u
  <2>6. \A k \in 1..Len(u) : u[k] = t[k]
    BY <2>2, <2>4, <2>5
  <2> QED
    BY <2>2, <2>5, <2>6, SeqEqual DEF l, t, u
<1>8. SubSeq(s, 4*d + 1, Len(s)) = Span(m + d, 0, r)
  <2>1. Fits4(m + d, 0, r) /\ 4*0 + r = r
    BY <1>1 DEF Fits4
  <2> DEFINE l == 4*d
             t == Span(m + d, 0, r)
             u == SubSeq(s, l + 1, l + r)
  <2>2. t \in Seq(Atom) /\ Len(t) = r /\ \A k \in 1..r : t[k] = Wire[4*(m + d) + k]
    BY <2>1, SpanIs
  <2>3. l \in Nat /\ r \in Nat /\ l + r <= Len(s) /\ l + r = Len(s)
    BY <1>1, <1>2
  <2>4. ASSUME NEW k \in 1..r
        PROVE  s[l + k] = Wire[4*(m + d) + k]
    <3>1. l + k \in 1..(4*d + r) /\ 4*m + (l + k) = 4*(m + d) + k
      BY <1>1
    <3> QED
      BY <1>2, <3>1
  <2> HIDE DEF l, t
  <2>5. u \in Seq(Atom) /\ Len(u) = r /\ \A k \in 1..r : u[k] = s[l + k]
    BY <1>2, <2>3, SliceIs
  <2> HIDE DEF u
  <2>6. \A k \in 1..Len(u) : u[k] = t[k]
    BY <2>2, <2>4, <2>5
  <2>7. u = t
    BY <2>2, <2>5, <2>6, SeqEqual
  <2> QED
    BY <2>3, <2>7 DEF l, t, u
<1> QED
  BY <1>6, <1>7, <1>8

Buffer(chunk)   == oll.buf \o chunk
Taken(chunk)    == Says(SubSeq(Buffer(chunk), 1, CutOf(Buffer(chunk))))
LeftOver(chunk) == SubSeq(Buffer(chunk), CutOf(Buffer(chunk)) + 1, Len(Buffer(chunk)))

LEMMA ConvertedIs ==
  ASSUME NEW chunk, NEW f, Len(Taken(chunk)) \in Nat,
         f[0] = State(LeftOver(chunk), oll.heard, oll.over, lines),
         \A i \in 1..Len(Taken(chunk)) : f[i] = Hears(f[i - 1], Taken(chunk)[i])
  PROVE  Converted(chunk) = f[Len(Taken(chunk))]
<1> DEFINE hs == Taken(chunk)
           n == Len(hs)
           start == State(LeftOver(chunk), oll.heard, oll.over, lines)
           Is(h) == h = [k \in 0..n |-> IF k = 0 THEN start ELSE Hears(h[k - 1], hs[k])]
           chosen == CHOOSE h : Is(h)
           g == [k \in 0..n |-> f[k]]
<1>1. Is(g)
  <2>1. \A k \in 0..n : k = 0 \/ (k \in 1..n /\ k - 1 \in 0..n)
    OBVIOUS
  <2>2. \A k \in 0..n : g[k] = IF k = 0 THEN start ELSE Hears(g[k - 1], hs[k])
    BY <2>1
  <2> HIDE DEF start, n
  <2> QED
    BY <2>2
<1>2. Is(chosen)
  BY <1>1
<1>3. Converted(chunk) = chosen[n]
  BY DEF Converted, Buffer, Taken, LeftOver, Says, CutOf, Breaks, State
<1> HIDE DEF chosen, start
<1> DEFINE S == {k \in Nat : k <= n => chosen[k] = f[k]}
<1>5. 0 \in S
  <2>1. 0 \in 0..n
    OBVIOUS
  <2> QED
    BY <1>2, <2>1 DEF start
<1>6. ASSUME NEW k \in Nat, k \in S
      PROVE  k + 1 \in S
  <2>1. ASSUME k + 1 <= n
        PROVE  chosen[k + 1] = f[k + 1]
    <3>1. k + 1 \in 0..n /\ k + 1 # 0 /\ (k + 1) - 1 = k /\ k <= n /\ k + 1 \in 1..n
      BY <2>1
    <3>2. chosen[k + 1] = Hears(chosen[k], hs[k + 1])
      BY <1>2, <3>1
    <3>3. f[k + 1] = Hears(f[k], hs[k + 1])
      BY <3>1
    <3> QED
      BY <1>6, <3>1, <3>2, <3>3
  <2> QED
    BY <2>1
<1>7. Nat \subseteq S
  <2> HIDE DEF S
  <2> QED
    BY <1>5, <1>6, NumbersInduction
<1> QED
  BY <1>3, <1>7

LEMMA ToldIs ==
  ASSUME NEW m, NEW b, NEW c
  PROVE  State(c, ToldBy(m, b).heard, ToldBy(m, b).over, ToldBy(m, b).lines) = ToldBy(m, c)
  BY DEF ToldBy, State

Untold(m) == State(oll.buf, oll.heard, oll.over, lines) = ToldBy(m, oll.buf)

LEMMA UntoldIs ==
  ASSUME NEW m, Untold(m), NEW c
  PROVE  State(c, oll.heard, oll.over, lines) = ToldBy(m, c)
<1> DEFINE t == ToldBy(m, oll.buf)
<1>1. t = State(oll.buf, oll.heard, oll.over, lines)
  BY DEF Untold
<1> HIDE DEF t
<1>2. oll.heard = t.heard /\ oll.over = t.over /\ lines = t.lines
  BY <1>1 DEF State
<1>3. State(c, t.heard, t.over, t.lines) = ToldBy(m, c)
  BY ToldIs DEF t
<1> QED
  BY <1>2, <1>3

LEMMA Converts ==
  ASSUME WellEnded, NEW m, NEW d, NEW r, Fits4(m, d, r), Untold(m),
         NEW chunk, oll.buf \o chunk = Span(m, d, r)
  PROVE  Converted(chunk) = ToldBy(m + d, Span(m + d, 0, r))
<1> DEFINE s == Span(m, d, r)
           b == Span(m + d, 0, r)
           hs == NumbersAfter(m, d)
           f == [k \in 0..d |-> ToldBy(m + k, b)]
<1>1. answer \in Seq(EventType) /\ Len(answer) \in Nat
  BY StopIs DEF WellEnded
<1>2. m \in Nat /\ d \in Nat /\ m + d <= Len(answer) /\ Fits4(m, d, 0)
  BY <1>1 DEF Fits4
<1>3. CutOf(s) = 4*d /\ SubSeq(s, 1, 4*d) = Span(m, d, 0) /\ SubSeq(s, 4*d + 1, Len(s)) = b
  BY <1>1, SpanCut
<1>4. hs = Says(Span(m, d, 0)) /\ Len(hs) = d /\ \A k \in 1..d : hs[k] = m + k
  <2>1. hs = Says(Span(m, d, 0))
    BY <1>1, <1>2, SpanSays
  <2>2. Len(hs) = d /\ \A k \in 1..d : hs[k] = m + k
    BY <1>2 DEF NumbersAfter
  <2> QED
    BY <2>1, <2>2
<1>5. m + 0 = m
  BY <1>2
<1> HIDE DEF s, b, hs
<1>6. f[0] = ToldBy(m, b) /\ f[d] = ToldBy(m + d, b)
  <2>1. 0 \in 0..d /\ d \in 0..d
    BY <1>2
  <2> QED
    BY <1>5, <2>1
<1>7. ASSUME NEW k \in 1..d
      PROVE  f[k] = Hears(f[k - 1], hs[k])
  <2> DEFINE j == m + (k - 1)
  <2>1. k \in 0..d /\ k - 1 \in 0..d /\ j \in Nat /\ j + 1 = m + k /\ j + 1 <= Len(answer)
    BY <1>1, <1>2
  <2>2. f[k] = ToldBy(m + k, b) /\ f[k - 1] = ToldBy(j, b)
    BY <2>1
  <2> HIDE DEF j, f
  <2>3. Hears(ToldBy(j, b), j + 1) = ToldBy(j + 1, b)
    BY <2>1, HearsNext
  <2> QED
    BY <1>4, <2>1, <2>2, <2>3
<1>8. State(b, oll.heard, oll.over, lines) = ToldBy(m, b)
  BY UntoldIs
<1> HIDE DEF f
<1>9. Buffer(chunk) = s
  BY DEF Buffer, s
<1>10. Taken(chunk) = hs /\ LeftOver(chunk) = b
  BY <1>3, <1>4, <1>9 DEF Taken, LeftOver
<1>11. /\ Len(Taken(chunk)) \in Nat /\ f[0] = State(LeftOver(chunk), oll.heard, oll.over, lines)
       /\ \A k \in 1..Len(Taken(chunk)) : f[k] = Hears(f[k - 1], Taken(chunk)[k])
  BY <1>2, <1>4, <1>6, <1>7, <1>8, <1>10
<1>12. Converted(chunk) = f[Len(Taken(chunk))]
  BY <1>11, ConvertedIs
<1> QED
  BY <1>4, <1>6, <1>10, <1>12 DEF b

LEMMA AppendsTo1 ==
  ASSUME NEW A, NEW x, NEW y \in Seq(A), Len(y) = 2, x = <<y[1]>>
  PROVE  Append(x, y[2]) = y
<1> DEFINE a == y[1]
           b == y[2]
           z == Append(x, b)
<1>1. a \in A /\ b \in A
  OBVIOUS
<1> HIDE DEF a, b
<1>2. x \in Seq(A) /\ Len(x) = 1 /\ x[1] = a
  BY <1>1 DEF a
<1>3. z \in Seq(A) /\ Len(z) = Len(x) + 1 /\ z[Len(x) + 1] = b /\ \A i \in 1..Len(x) : z[i] = x[i]
  BY <1>1, <1>2, AppendProperties
<1> HIDE DEF z
<1>4. Len(z) = 2 /\ z[1] = a /\ z[2] = b
  BY <1>2, <1>3
<1>5. y[1] = a /\ y[2] = b
  BY DEF a, b
<1>6. \A i \in 1..Len(y) : z[i] = y[i]
  BY <1>4, <1>5
<1> QED
  BY <1>3, <1>4, <1>6, SeqEqual DEF z, b

LEMMA AppendsTo2 ==
  ASSUME NEW A, NEW x, NEW y \in Seq(A), Len(y) = 3, x = <<y[1], y[2]>>
  PROVE  Append(x, y[3]) = y
<1> DEFINE a == y[1]
           b == y[2]
           c == y[3]
           z == Append(x, c)
<1>1. a \in A /\ b \in A /\ c \in A
  BY 1 \in 1..Len(y), 2 \in 1..Len(y), 3 \in 1..Len(y), ElementOfSeq
<1> HIDE DEF a, b, c
<1>2. x \in Seq(A) /\ Len(x) = 2 /\ x[1] = a /\ x[2] = b
  BY <1>1 DEF a, b
<1>3. z \in Seq(A) /\ Len(z) = Len(x) + 1 /\ z[Len(x) + 1] = c /\ \A i \in 1..Len(x) : z[i] = x[i]
  BY <1>1, <1>2, AppendProperties
<1> HIDE DEF z
<1>4. Len(z) = 3 /\ z[1] = a /\ z[2] = b /\ z[3] = c
  BY <1>2, <1>3
<1>5. y[1] = a /\ y[2] = b /\ y[3] = c
  BY DEF a, b, c
<1>6. \A i \in 1..Len(y) : z[i] = y[i]
  BY <1>4, <1>5
<1> QED
  BY <1>3, <1>4, <1>6, SeqEqual DEF z, c

LEMMA PairIs ==
  ASSUME NEW A, NEW a \in A, NEW b \in A
  PROVE  /\ <<a>> \in Seq(A) /\ <<a, b>> \in Seq(A)
         /\ Append(<<>>, a) = <<a>> /\ Append(<<a>>, b) = <<a, b>>
<1>1. <<a>> \in Seq(A) /\ <<a, b>> \in Seq(A)
  OBVIOUS
<1>2. Append(<<>>, a) = <<a>>
  OBVIOUS
<1>3. Append(<<a>>, b) = <<a, b>>
  <2> DEFINE x == <<a>>
             y == <<a, b>>
  <2>1. y \in Seq(A) /\ Len(y) = 2 /\ y[1] = a /\ y[2] = b
    OBVIOUS
  <2>2. x = <<y[1]>>
    BY <2>1
  <2> HIDE DEF x, y
  <2>3. Append(x, y[2]) = y
    BY <2>1, <2>2, AppendsTo1
  <2> QED
    BY <2>1, <2>3 DEF x, y
<1> QED
  BY <1>1, <1>2, <1>3

LEMMA TripleIs ==
  ASSUME NEW A, NEW a \in A, NEW b \in A, NEW c \in A
  PROVE  <<a, b, c>> \in Seq(A) /\ Append(<<a, b>>, c) = <<a, b, c>>
<1>1. <<a, b, c>> \in Seq(A)
  OBVIOUS
<1>2. Append(<<a, b>>, c) = <<a, b, c>>
  <2> DEFINE x == <<a, b>>
             y == <<a, b, c>>
  <2>1. y \in Seq(A) /\ Len(y) = 3 /\ y[1] = a /\ y[2] = b /\ y[3] = c
    OBVIOUS
  <2>2. x = <<y[1], y[2]>>
    BY <2>1
  <2> HIDE DEF x, y
  <2>3. Append(x, y[3]) = y
    BY <2>1, <2>2, AppendsTo2
  <2> QED
    BY <2>1, <2>3 DEF x, y
<1> QED
  BY <1>1, <1>2

(* The part of an event that has come: r of its atoms.                     *)
LEMMA PartSays ==
  ASSUME answer \in Seq(EventType), NEW m, NEW r, Fits4(m, 0, r)
  PROVE  LET u == Span(m, 0, r) IN
         /\ u \in Seq(Atom) /\ m + 1 \in Nat /\ m \in Nat
         /\ Says(u) = (IF r = 3 THEN <<m + 1>> ELSE <<>>)
<1> DEFINE u == Span(m, 0, r)
           e == m + 1
           f == <<e, "front">>
           b == <<e, "back">>
           one == Append(<<>>, f)
           two == Append(one, b)
           three == Append(two, NL)
<1>1. m \in Nat /\ r \in 0..3 /\ e \in Nat /\ 4*m + r <= 4 * Len(answer) /\ Len(answer) \in Nat
  BY WireAt DEF Fits4
<1>2. u \in Seq(Atom) /\ Len(u) = r /\ \A k \in 1..r : u[k] = Wire[4*m + k]
  <2>1. 4*0 + r = r
    BY <1>1
  <2> QED
    BY <2>1, SpanIs
<1>3. f \in Atom /\ b \in Atom /\ f # NL /\ b # NL /\ NL \in Atom
  BY <1>1, AtomsAre
<1>4. r # 0 => Wire[4*m + 1] = f /\ Wire[4*m + 2] = b /\ Wire[4*m + 3] = NL
  <2> SUFFICES ASSUME r # 0 PROVE Wire[4*m + 1] = f /\ Wire[4*m + 2] = b /\ Wire[4*m + 3] = NL
    OBVIOUS
  <2>1. e \in 1..Len(answer) /\ 4*e - 3 = 4*m + 1 /\ 4*e - 2 = 4*m + 2 /\ 4*e - 1 = 4*m + 3
    BY <1>1
  <2>2. Wire[4*e - 3] = f /\ Wire[4*e - 2] = b /\ Wire[4*e - 1] = NL
    BY <2>1, WireAt
  <2> QED
    BY <2>1, <2>2
<1>5. DataLine(e) = <<f, b>>
  BY DEF DataLine
<1> HIDE DEF u, f, b, e
<1>6. /\ one = <<f>> /\ two = <<f, b>> /\ three = <<f, b, NL>>
      /\ <<f>> \in Seq(Atom) /\ <<f, b>> \in Seq(Atom)
  <2>1. /\ Append(<<>>, f) = <<f>> /\ Append(<<f>>, b) = <<f, b>> /\ Append(<<f, b>>, NL) = <<f, b, NL>>
        /\ <<f>> \in Seq(Atom) /\ <<f, b>> \in Seq(Atom)
    BY <1>3, PairIs, TripleIs
  <2> QED
    BY <2>1, Zenon
<1>7. one \in Seq(Atom) /\ two \in Seq(Atom)
  BY <1>6, Zenon
<1>8. u = IF r = 0 THEN <<>> ELSE IF r = 1 THEN one ELSE IF r = 2 THEN two ELSE three
  <2>1. CASE r = 0
    BY <1>2, <2>1, EmptySeq
  <2>2. CASE r = 1
    BY <1>2, <1>4, <1>6, <2>2
  <2>3. CASE r = 2
    BY <1>2, <1>4, <1>6, <2>3
  <2>4. CASE r = 3
    BY <1>2, <1>4, <1>6, <2>4
  <2> QED
    BY <1>1, <2>1, <2>2, <2>3, <2>4
<1>9. <<>> \in Seq(Atom) /\ two = DataLine(e)
  BY <1>5, <1>6, EmptySeq, Zenon
<1> HIDE DEF one, two, three
<1>10. LinesOf(one) = <<>> /\ Residue(one) = one
  <2>1. LinesOf(one) = <<>> /\ Residue(one) = Append(<<>>, f)
    BY <1>3, <1>9, LinesAre DEF one
  <2> QED
    BY <2>1 DEF one
<1>11. LinesOf(two) = <<>> /\ Residue(two) = two
  <2>1. LinesOf(two) = <<>> /\ Residue(two) = Append(one, b)
    BY <1>3, <1>7, <1>10, LinesAre DEF two
  <2> QED
    BY <2>1 DEF two
<1>12. LinesOf(three) = Append(<<>>, DataLine(e))
  <2>1. LinesOf(three) = Append(<<>>, two)
    BY <1>3, <1>7, <1>11, LinesAre DEF three
  <2> QED
    BY <1>9, <2>1
<1>13. Says(<<>>) = <<>> /\ Says(one) = <<>> /\ Says(two) = <<>>
  BY <1>10, <1>11, LinesAre, HeardIs DEF Says
<1>14. Says(three) = <<e>>
  <2>1. DataLine(e) \in Seq(Atom) /\ LineSays(DataLine(e)) = <<e>>
    BY <1>1, AtomsAre, DataLinesAre DEF LineSays
  <2>2. <<>> \in Seq(Seq(Atom))
    BY EmptySeq
  <2>3. Heard(Append(<<>>, DataLine(e))) = <<>> \o <<e>>
    BY <2>1, <2>2, HeardIs
  <2>4. <<e>> \in Seq(Nat)
    BY <1>1
  <2> QED
    BY <1>12, <2>3, <2>4, CatFacts DEF Says
<1> QED
  BY <1>1, <1>2, <1>8, <1>13, <1>14 DEF u, e

(* What has come is the first m events, and that part.                     *)
LEMMA SentIs ==
  ASSUME answer \in Seq(EventType), NEW m, NEW r, Fits4(m, 0, r), at = 4*m + r
  PROVE  Came = UpTo(IF r = 3 THEN m + 1 ELSE m)
<1> DEFINE w == Wire
           n == 4*m
           s == SubSeq(w, 1, n)
           t == SubSeq(w, n + 1, n + r)
<1>1. m \in Nat /\ r \in 0..3 /\ 4*m + r <= 4 * Len(answer) /\ Len(answer) \in Nat
  BY WireAt DEF Fits4
<1>2. w \in Seq(Atom) /\ Len(w) = 4 * Len(answer)
  BY WireAt
<1>3. Fits4(0, m, 0) /\ Fits4(m, 0, r)
  BY <1>1 DEF Fits4
<1>4. s = Span(0, m, 0) /\ t = Span(m, 0, r)
  <2>1. 4*0 + 1 = 1 /\ 4*0 + 4*m + 0 = n /\ 4*m + 4*0 + r = n + r
    BY <1>1
  <2> QED
    BY <2>1 DEF Span
<1>5. SubSeq(w, 1, at) = s \o t
  <2>1. 1 \in 1..(Len(w) + 1) /\ n \in (1 - 1)..Len(w) /\ n + r \in n..Len(w) /\ at = n + r
    BY <1>1, <1>2
  <2> HIDE DEF w, n
  <2> QED
    BY <1>2, <2>1, ConcatAdjacentSubSeq
<1>6. Says(s) = NumbersAfter(0, m) /\ Residue(s) = <<>>
  BY <1>3, <1>4, SpanSays
<1>7. NumbersAfter(0, m) = UpTo(m)
  BY <1>1 DEF NumbersAfter, UpTo
<1>8. t \in Seq(Atom) /\ Says(t) = (IF r = 3 THEN <<m + 1>> ELSE <<>>) /\ m + 1 \in Nat
  <2> HIDE DEF t
  <2>1. /\ Span(m, 0, r) \in Seq(Atom) /\ m + 1 \in Nat
        /\ Says(Span(m, 0, r)) = (IF r = 3 THEN <<m + 1>> ELSE <<>>)
    BY <1>3, PartSays
  <2> QED
    BY <1>4, <2>1
<1>9. s \in Seq(Atom)
  BY <1>3, <1>4, SpanIs
<1> HIDE DEF s, t, w
<1>10. Says(s \o t) = Says(s) \o Says(<<>> \o t) /\ <<>> \o t = t
  BY <1>6, <1>8, <1>9, SaysIs, CatFacts
<1>11. Came = UpTo(m) \o Says(t)
  BY <1>5, <1>6, <1>7, <1>10 DEF Came, Says, w
<1>12. CASE r = 3
  <2>1. UpTo(m) \in Seq(Nat) /\ UpTo(m + 1) = Append(UpTo(m), m + 1)
    BY <1>1, UpToIs
  <2>2. UpTo(m) \o <<m + 1>> = Append(UpTo(m), m + 1)
    BY <1>8, <2>1, AppendIsConcat
  <2> QED
    BY <1>8, <1>11, <1>12, <2>1, <2>2
<1>13. CASE r # 3
  <2>1. UpTo(m) \o <<>> = UpTo(m)
    BY <1>1, UpToIs, CatFacts
  <2> QED
    BY <1>8, <1>11, <1>13, <2>1
<1> QED
  BY <1>12, <1>13

(* The error ends whatever line has begun, and then it is an event.        *)
LEMMA ErrorSays ==
  ASSUME Failure \in Nat, NEW u \in Seq(Atom)
  PROVE  /\ ErrorBytes \in Seq(Atom) /\ Len(u \o ErrorBytes) \in Nat
         /\ CutOf(u \o ErrorBytes) = Len(u \o ErrorBytes)
         /\ Says(u \o ErrorBytes) = Says(u) \o <<Failure>>
<1> DEFINE note == <<Failure, "note">>
           e == EventBytes[Failure]
           a == <<note, NL>>
           d == DataLine(Failure)
           z == <<NL, NL>>
<1>1. note \in Atom /\ NL \in Atom /\ note # NL /\ d \in Seq(Atom)
  BY AtomsAre
<1>2. e \in Seq(Atom) /\ Len(e) = 4 /\ e[3] = NL /\ e[4] = NL /\ e = d \o z
  BY EventBytesAre DEF EventBytes
<1>3. a \in Seq(Atom) /\ z \in Seq(Atom)
  BY <1>1
<1>4. ErrorBytes = (a \o d) \o z
  BY DEF ErrorBytes
<1>5. Utters(EventBytes, Itself, Nat) /\ Itself[Failure] = <<Failure>>
  BY EventsUtter DEF Itself
<1> HIDE DEF d, z, e
<1>6. ErrorBytes = a \o e
  <2> HIDE DEF a
  <2>1. Chains(a, d, z)
    BY <1>1, <1>3, CatChains
  <2> QED
    BY <1>2, <1>4, <2>1 DEF Chains
<1> DEFINE x == Append(u, note)
           v == Append(x, NL)
<1>7. u \o a = v
  <2> DEFINE o == <<note>>
  <2>1. o \in Seq(Atom) /\ Append(o, NL) = a
    <3> HIDE DEF note
    <3> QED
      BY <1>1, PairIs
  <2>2. u \o o = x
    <3> HIDE DEF note
    <3> QED
      BY <1>1, AppendIsConcat
  <2> HIDE DEF o, a, note, x
  <2>3. u \o Append(o, NL) = Append(u \o o, NL)
    <3>1. o \in Seq(Atom) /\ NL \in Atom /\ u \in Seq(Atom)
      BY <1>1, <2>1
    <3> QED
      BY <3>1, CatAppend
  <2> QED
    BY <2>1, <2>2, <2>3
<1>8. x \in Seq(Atom) /\ v \in Seq(Atom) /\ Len(v) \in Nat
  <2> HIDE DEF note
  <2> QED
    BY <1>1, AppendProperties, LenProperties
<1> DEFINE l == Append(Residue(u), note)
<1>9. LinesOf(v) = Append(LinesOf(u), l) /\ Residue(v) = <<>>
  <2> HIDE DEF note
  <2>1. LinesOf(x) = LinesOf(u) /\ Residue(x) = l
    BY <1>1, LinesAre
  <2> QED
    BY <1>1, <1>8, <2>1, LinesAre
<1>10. Residue(u) \in Seq(Atom) /\ LinesOf(u) \in Seq(Seq(Atom))
  BY LinesAre
<1>11. l \in Seq(Atom) /\ Len(l) = Len(Residue(u)) + 1 /\ l[Len(Residue(u)) + 1] = note /\ Len(Residue(u)) \in Nat
  <2> HIDE DEF note
  <2> QED
    BY <1>1, <1>10, AppendProperties, LenProperties
<1> HIDE DEF l
<1>12. LineSays(l) = <<>>
  <2> SUFFICES ASSUME IsData(l) PROVE FALSE
    BY DEF LineSays
  <2>1. Len(l) = 2 /\ l = DataLine(l[1][1])
    BY DEF IsData
  <2>2. l[2] = <<l[1][1], "back">>
    BY <2>1 DEF DataLine
  <2>3. l[2] = note
    BY <1>11, <2>1
  <2> QED
    BY <2>2, <2>3
<1>13. Says(v) = Says(u)
  <2>1. Says(v) = Says(u) \o <<>>
    BY <1>9, <1>10, <1>11, <1>12, HeardIs DEF Says
  <2> QED
    BY <2>1, SaysIs, CatFacts
<1>14. Follows(v, e, <<Failure>>)
  BY <1>5, <1>8, <1>9 DEF Utters, e
<1>15. u \o ErrorBytes = v \o e
  <2> HIDE DEF a, v
  <2>1. Chains(u, a, e)
    BY <1>2, <1>3, CatChains
  <2> QED
    BY <1>6, <1>7, <2>1 DEF Chains
<1> DEFINE s == v \o e
<1>16. /\ s \in Seq(Atom) /\ Len(s) = Len(v) + 4
       /\ s[Len(v) + 3] = NL /\ s[Len(v) + 4] = NL
  <2> DEFINE n == Len(v)
  <2>1. s \in Seq(Atom) /\ Len(s) = n + Len(e) /\ \A i \in 1..(n + Len(e)) : s[i] = IF i <= n THEN v[i] ELSE e[i - n]
    BY <1>2, <1>8, ConcatProperties
  <2>2. n \in Nat
    BY <1>8
  <2> HIDE DEF n, s
  <2>3. Len(s) = n + 4 /\ \A i \in 1..(n + 4) : s[i] = IF i <= n THEN v[i] ELSE e[i - n]
    BY <1>2, <2>1
  <2>4. n + 3 \in 1..(n + 4) /\ ~(n + 3 <= n) /\ (n + 3) - n = 3
    BY <2>2
  <2>5. n + 4 \in 1..(n + 4) /\ ~(n + 4 <= n) /\ (n + 4) - n = 4
    BY <2>2
  <2> QED
    BY <1>2, <2>1, <2>3, <2>4, <2>5 DEF n
<1>17. CutOf(s) = Len(s)
  <2> DEFINE n == Len(v) + 3
  <2>1. n \in Nat /\ Len(s) = n + 1 /\ n \in 1..(Len(s) - 1) /\ s[n] = NL /\ s[n + 1] = NL
    BY <1>8, <1>16
  <2> HIDE DEF n, s
  <2>2. n \in Breaks(s) /\ Breaks(s) \subseteq Nat
    BY <2>1 DEF Breaks
  <2>3. \A y \in Breaks(s) : y <= n
    BY <2>1 DEF Breaks
  <2>4. Max(Breaks(s)) = n
    BY <2>2, <2>3, MaxIs
  <2> QED
    BY <2>1, <2>2, <2>4 DEF CutOf
<1>18. ErrorBytes \in Seq(Atom)
  BY <1>2, <1>3, <1>6, CatFacts
<1> HIDE DEF s, v
<1>19. Len(s) \in Nat
  BY <1>8, <1>16
<1> QED
  BY <1>13, <1>14, <1>15, <1>17, <1>18, <1>19 DEF s, Follows

(* An error in the midst of the answer: the last event that has come whole,*)
(* but for its blank line, counts.                                         *)
LEMMA ConvertsError ==
  ASSUME WellEnded, NEW m, NEW r, Fits4(m, 0, r), Untold(m), oll.buf = Span(m, 0, r)
  PROVE  Converted(ErrorBytes) = Failed(IF r = 3 THEN m + 1 ELSE m, <<>>)
<1> DEFINE u == Span(m, 0, r)
           s == u \o ErrorBytes
           hs == Taken(ErrorBytes)
           b == <<>>
           n == m + 1
           F == Failure
<1>1. answer \in Seq(EventType) /\ Len(answer) \in Nat /\ F \in Nat
  BY StopIs DEF WellEnded
<1>2. m \in Nat /\ n \in Nat /\ r \in 0..3 /\ (r = 3 => n <= Len(answer))
  BY <1>1 DEF Fits4
<1>3. u \in Seq(Atom) /\ Says(u) = IF r = 3 THEN <<n>> ELSE <<>>
  <2>1. LET x == Span(m, 0, r) IN x \in Seq(Atom) /\ Says(x) = (IF r = 3 THEN <<m + 1>> ELSE <<>>)
    BY <1>1, PartSays
  <2> QED
    BY <2>1
<1> HIDE DEF u, F, n
<1>4. /\ ErrorBytes \in Seq(Atom) /\ Len(s) \in Nat /\ CutOf(s) = Len(s)
      /\ Says(s) = Says(u) \o <<F>>
  BY <1>1, <1>3, ErrorSays DEF F
<1>5. s \in Seq(Atom)
  BY <1>3, <1>4, CatFacts
<1>6. Buffer(ErrorBytes) = s
  BY DEF Buffer, u
<1> HIDE DEF s
<1>7. SubSeq(s, 1, Len(s)) = s
  BY <1>5, SubSeqFull
<1>8. hs = Says(u) \o <<F>>
  BY <1>4, <1>6, <1>7 DEF Taken
<1>9. LeftOver(ErrorBytes) = b
  <2>1. SubSeq(s, Len(s) + 1, Len(s)) = <<>>
    <3> DEFINE k == Len(s)
    <3>1. k \in Nat /\ k + 1 > k
      BY <1>4
    <3> HIDE DEF k
    <3> QED
      BY <1>5, <3>1, SubSeqEmpty DEF k
  <2> QED
    BY <1>4, <1>6, <2>1 DEF LeftOver
<1>10. State(b, oll.heard, oll.over, lines) = ToldBy(m, b)
  BY UntoldIs
<1> HIDE DEF hs, b
<1>11. CASE r = 3
  <2> DEFINE f == [k \in 0..2 |-> IF k = 0 THEN ToldBy(m, b) ELSE IF k = 1 THEN ToldBy(n, b) ELSE Failed(n, b)]
  <2>1. hs = <<n, F>>
    <3>1. <<n>> \in Seq(Nat) /\ Append(<<n>>, F) = <<n, F>>
      BY <1>1, <1>2, PairIs
    <3>2. <<n>> \o <<F>> = Append(<<n>>, F)
      BY <1>1, <3>1, AppendIsConcat
    <3> QED
      BY <1>3, <1>8, <1>11, <3>1, <3>2
  <2>2. Len(hs) = 2 /\ hs[1] = n /\ hs[2] = F
    BY <2>1
  <2>3. f[0] = ToldBy(m, b) /\ f[1] = ToldBy(n, b) /\ f[2] = Failed(n, b)
    OBVIOUS
  <2>4. Hears(ToldBy(m, b), n) = ToldBy(n, b)
    BY <1>2, <1>11, HearsNext DEF n
  <2>5. Hears(ToldBy(n, b), F) = Failed(n, b)
    BY HearsFailure DEF F
  <2> HIDE DEF f
  <2>6. \A k \in 1..2 : f[k] = Hears(f[k - 1], hs[k])
    <3>1. \A k \in 1..2 : (k = 1 /\ k - 1 = 0) \/ (k = 2 /\ k - 1 = 1)
      OBVIOUS
    <3> QED
      BY <2>2, <2>3, <2>4, <2>5, <3>1
  <2>7. /\ Len(Taken(ErrorBytes)) \in Nat /\ f[0] = State(LeftOver(ErrorBytes), oll.heard, oll.over, lines)
        /\ \A i \in 1..Len(Taken(ErrorBytes)) : f[i] = Hears(f[i - 1], Taken(ErrorBytes)[i])
    BY <1>9, <1>10, <2>2, <2>3, <2>6 DEF hs
  <2>8. Converted(ErrorBytes) = f[Len(Taken(ErrorBytes))]
    BY <2>7, ConvertedIs
  <2> QED
    BY <1>11, <2>2, <2>3, <2>8 DEF hs, b, n
<1>12. CASE r # 3
  <2> DEFINE f == [k \in 0..1 |-> IF k = 0 THEN ToldBy(m, b) ELSE Failed(m, b)]
  <2>1. hs = <<F>>
    <3>1. <<F>> \in Seq(Nat)
      BY <1>1
    <3> QED
      BY <1>3, <1>8, <1>12, <3>1, CatFacts
  <2>2. Len(hs) = 1 /\ hs[1] = F
    BY <2>1
  <2>3. f[0] = ToldBy(m, b) /\ f[1] = Failed(m, b)
    OBVIOUS
  <2>5. Hears(ToldBy(m, b), F) = Failed(m, b)
    BY HearsFailure DEF F
  <2> HIDE DEF f
  <2>6. \A k \in 1..1 : f[k] = Hears(f[k - 1], hs[k])
    <3>1. \A k \in 1..1 : k = 1 /\ k - 1 = 0
      OBVIOUS
    <3> QED
      BY <2>2, <2>3, <2>5, <3>1
  <2>7. /\ Len(Taken(ErrorBytes)) \in Nat /\ f[0] = State(LeftOver(ErrorBytes), oll.heard, oll.over, lines)
        /\ \A i \in 1..Len(Taken(ErrorBytes)) : f[i] = Hears(f[i - 1], Taken(ErrorBytes)[i])
    BY <1>9, <1>10, <2>2, <2>3, <2>6 DEF hs
  <2>8. Converted(ErrorBytes) = f[Len(Taken(ErrorBytes))]
    BY <2>7, ConvertedIs
  <2> QED
    BY <1>12, <2>2, <2>3, <2>8 DEF hs, b
<1> QED
  BY <1>11, <1>12

LEMMA EventsFixed ==
  ASSUME answer' = answer
  PROVE  \A i : Event(i)' = Event(i)
  BY DEF Event

LEMMA AccumulatedFixed ==
  ASSUME answer' = answer, NEW heard
  PROVE  Accumulated(heard)' = Accumulated(heard)
<1>1. \A i : Event(i)' = Event(i)
  BY EventsFixed
<1>2. NextIndex(heard)' = NextIndex(heard)
  BY <1>1 DEF NextIndex
<1> QED
  BY <1>1, <1>2 DEF Accumulated

LEMMA DoneLineFixed ==
  ASSUME answer' = answer, via' = via, NEW heard
  PROVE  DoneLine(heard)' = DoneLine(heard)
<1>1. \A i : Event(i)' = Event(i)
  BY EventsFixed
<1>2. Accumulated(heard)' = Accumulated(heard)
  BY AccumulatedFixed
<1> QED
  BY <1>1, <1>2 DEF DoneLine

LEMMA PartsFixed ==
  ASSUME answer' = answer
  PROVE  TextEvents' = TextEvents /\ Failure' = Failure /\ Stop' = Stop /\ ErrorLine' = ErrorLine
         /\ \A m : PartsOf(m)' = PartsOf(m)
<1>1. \A i : Event(i)' = Event(i)
  BY EventsFixed
<1>2. TextEvents' = TextEvents
  BY <1>1 DEF TextEvents
<1>3. Failure' = Failure
  BY DEF Failure
<1>4. Stop' = Stop
  BY <1>3 DEF Stop, Errors, IsDone
<1>5. \A m : PartsOf(m)' = PartsOf(m)
  BY <1>2 DEF PartsOf, TextOf
<1> QED
  BY <1>2, <1>3, <1>4, <1>5 DEF ErrorLine

LEMMA ToldFixed ==
  ASSUME answer' = answer, via' = via
  PROVE  EndLine' = EndLine /\ \A m, b : ToldBy(m, b)' = ToldBy(m, b) /\ Failed(m, b)' = Failed(m, b)
<1>1. Stop' = Stop /\ ErrorLine' = ErrorLine /\ \A m : PartsOf(m)' = PartsOf(m)
  BY PartsFixed
<1>2. \A i : Event(i)' = Event(i)
  BY EventsFixed
<1>3. EndLine' = EndLine
  <2>1. \A h : DoneLine(h)' = DoneLine(h)
    BY DoneLineFixed
  <2> QED
    BY <1>1, <1>2, <2>1 DEF EndLine
<1>4. \A m, b : ToldBy(m, b)' = ToldBy(m, b)
  BY <1>1, <1>2, <1>3 DEF ToldBy
<1>5. \A m, b : Failed(m, b)' = Failed(m, b)
  BY <1>1, <1>4 DEF Failed
<1> QED
  BY <1>3, <1>4, <1>5

(* Where an Ollama client stands: m events and r atoms have come, ...      *)
Stands(m, r, x, l, o, ls) ==
  /\ Fits4(m, 0, r) /\ x = 4*m + r
  /\ l \in {"open", "ended", "broken", "gone", "left"}
  /\ l \in {"open", "gone"} =>
       m < Stop /\ o.buf = Span(m, 0, r) /\ State(o.buf, o.heard, o.over, ls) = ToldBy(m, o.buf)
  /\ l = "left" => Stop <= Len(answer) /\ ls = ToldBy(Stop, <<>>).lines
  /\ l = "ended" => Len(answer) < Stop /\ ls = Append(PartsOf(Len(answer)), DoneLine(UpTo(Len(answer))))
  /\ l = "broken" => m < Stop /\ ls = Failed(IF r = 3 THEN m + 1 ELSE m, <<>>).lines

OllamaInv ==
  /\ WellEnded
  /\ Ollama => \E m \in Nat, r \in 0..3 : Stands(m, r, at, link, oll, lines)

LEMMA OllamaFixed ==
  ASSUME answer' = answer, via' = via, WellEnded,
         Ollama => \E m \in Nat, r \in 0..3 : Stands(m, r, at', link', oll', lines')
  PROVE  OllamaInv'
<1>1. WellEnded' /\ (Ollama' <=> Ollama)
  BY DEF WellEnded, Ollama
<1>2. ASSUME NEW m, NEW r, Stands(m, r, at', link', oll', lines')
      PROVE  Stands(m, r, at, link, oll, lines)'
  <2>1. Fits4(m, 0, r)' = Fits4(m, 0, r) /\ Span(m, 0, r)' = Span(m, 0, r)
    <3>1. Wire' = Wire
      BY DEF Wire
    <3> QED
      BY <3>1 DEF Fits4, Span
  <2>2. Stop' = Stop /\ \A k : PartsOf(k)' = PartsOf(k)
    BY PartsFixed
  <2>3. \A k, b : ToldBy(k, b)' = ToldBy(k, b) /\ Failed(k, b)' = Failed(k, b)
    BY ToldFixed
  <2>4. \A h : DoneLine(h)' = DoneLine(h)
    BY DoneLineFixed
  <2> QED
    BY <1>2, <2>1, <2>2, <2>3, <2>4 DEF Stands
<1> QED
  BY <1>1, <1>2 DEF OllamaInv

LEMMA OllamaInitially == RelayInit => OllamaInv
<1> SUFFICES ASSUME RelayInit PROVE OllamaInv
  OBVIOUS
<1>1. answer \in Answer /\ at = 0 /\ link = "open" /\ lines = <<>>
      /\ oll = [buf |-> <<>>, heard |-> <<>>, over |-> "no"]
  BY DEF RelayInit
<1>2. WellEnded
  BY <1>1, RelayAssumption, AnswersEnd DEF WellEnded
<1>3. Len(answer) \in Nat /\ 0 < Stop
  BY <1>2, StopIs
<1>4. Fits4(0, 0, 0) /\ 4*0 + 0 = 0 /\ 0 \in Nat /\ 0 \in 0..3
  BY <1>3 DEF Fits4
<1>5. Span(0, 0, 0) = <<>>
  <2>1. 4*0 + 1 = 1 /\ 4*0 + 4*0 + 0 = 0
    OBVIOUS
  <2>2. SubSeq(Wire, 1, 0) = <<>>
    BY SubSeqEmpty
  <2> QED
    BY <2>1, <2>2 DEF Span
<1>6. ToldBy(0, <<>>) = State(<<>>, <<>>, "no", <<>>)
  BY <1>3, UpToIs, PartsGrow DEF ToldBy
<1>7. Stands(0, 0, at, link, oll, lines)
  BY <1>1, <1>3, <1>4, <1>5, <1>6 DEF Stands
<1> QED
  BY <1>2, <1>4, <1>7 DEF OllamaInv

(* A chunk: the residue of the event that had begun, more events, and the  *)
(* beginning of another.                                                   *)
Reaches(m, r, n) ==
  \E d \in Nat, q \in 0..3 :
    /\ Fits4(m, d, q) /\ Fits4(m + d, 0, q) /\ m + d \in Nat /\ at + n = 4*(m + d) + q
    /\ Span(m, 0, r) \o SubSeq(Wire, at + 1, at + n) = Span(m, d, q)

LEMMA ChunkSpans ==
  ASSUME WellEnded, NEW m, NEW r, Fits4(m, 0, r), at = 4*m + r, NEW n \in Nat, at + n <= Len(Wire)
  PROVE  Reaches(m, r, n)
<1>1. answer \in Seq(EventType)
  BY DEF WellEnded
<1>2. Wire \in Seq(Atom) /\ Len(Wire) = 4 * Len(answer) /\ Len(answer) \in Nat
  BY <1>1, WireAt
<1>3. m \in Nat /\ r \in 0..3
  BY DEF Fits4
<1>4. r + n \in Nat
  BY <1>3
<1>5. PICK d \in Nat, q \in 0..3 : r + n = 4*d + q
  BY <1>4, Quarters
<1>6. at + n = 4*m + 4*d + q
  BY <1>3, <1>5
<1>7. Fits4(m, d, q) /\ Fits4(m + d, 0, q) /\ m + d \in Nat /\ at + n = 4*(m + d) + q
  BY <1>2, <1>3, <1>6 DEF Fits4
<1> DEFINE w == Wire
           a == 4*m + 1
           b == 4*m + r
           c == at + n
<1>8. a \in 1..(Len(w) + 1) /\ b \in (a - 1)..Len(w) /\ c \in b..Len(w)
  BY <1>2, <1>3
<1>9. SubSeq(w, a, b) = Span(m, 0, r) /\ SubSeq(w, a, c) = Span(m, d, q)
  <2>1. 4*m + 4*0 + r = b
    BY <1>3
  <2> QED
    BY <1>6, <2>1 DEF Span
<1> HIDE DEF w, a, c
<1>10. SubSeq(w, a, b) \o SubSeq(w, b + 1, c) = SubSeq(w, a, c)
  BY <1>2, <1>8, ConcatAdjacentSubSeq DEF w
<1> QED
  BY <1>7, <1>9, <1>10 DEF Reaches, w, c

LEMMA RelaysKeepsOllama == OllamaInv /\ Relays => OllamaInv'
<1> SUFFICES ASSUME OllamaInv, Relays PROVE OllamaInv'
  OBVIOUS
<1>1. answer' = answer /\ via' = via /\ link = "open" /\ WellEnded
  BY DEF Relays, OllamaInv
<1>2. ASSUME Ollama
      PROVE  \E m \in Nat, r \in 0..3 : Stands(m, r, at', link', oll', lines')
  <2>1. via # "plain" /\ via # "reconcile"
    BY <1>2 DEF Ollama
  <2>2. PICK n \in 1..MaxChunk :
          LET chunk == SubSeq(Wire, at + 1, at + n)
              o == Converted(chunk)
          IN  /\ at + n <= Len(Wire) /\ at' = at + n
              /\ oll' = Locals(o) /\ lines' = o.lines
              /\ link' = IF o.over = "error" \/ (o.over = "done" /\ o.buf = <<>>) THEN "left" ELSE link
    BY <2>1 DEF Relays
  <2>3. n \in Nat
    BY RelayAssumption
  <2>4. PICK m \in Nat, r \in 0..3 : Stands(m, r, at, link, oll, lines)
    BY <1>2 DEF OllamaInv
  <2>5. Fits4(m, 0, r) /\ at = 4*m + r /\ oll.buf = Span(m, 0, r) /\ Untold(m)
    BY <1>1, <2>4 DEF Stands, Untold
  <2>6. PICK d \in Nat, q \in 0..3 :
           /\ Fits4(m, d, q) /\ Fits4(m + d, 0, q) /\ m + d \in Nat /\ at + n = 4*(m + d) + q
           /\ Span(m, 0, r) \o SubSeq(Wire, at + 1, at + n) = Span(m, d, q)
    <3>1. at + n <= Len(Wire)
      BY <2>2
    <3>2. Reaches(m, r, n)
      BY <1>1, <2>3, <2>5, <3>1, ChunkSpans
    <3> QED
      BY <3>2 DEF Reaches
  <2> DEFINE chunk == SubSeq(Wire, at + 1, at + n)
             k == m + d
             b == Span(k, 0, q)
             o == ToldBy(k, b)
  <2>7. Converted(chunk) = o
    <3> HIDE DEF chunk
    <3>1. oll.buf \o chunk = Span(m, d, q)
      BY <2>5, <2>6 DEF chunk
    <3> QED
      BY <1>1, <2>5, <2>6, <3>1, Converts
  <2>8. /\ oll' = Locals(o) /\ lines' = o.lines /\ at' = 4*k + q
        /\ link' = IF o.over = "error" \/ (o.over = "done" /\ o.buf = <<>>) THEN "left" ELSE link
    BY <2>2, <2>6, <2>7
  <2>9. Fits4(k, 0, q) /\ k \in Nat
    BY <2>6
  <2>10. /\ Len(answer) \in Nat /\ Stop \in Nat /\ Event(Stop).kind \in {"error", "done"}
         /\ Event(Stop).kind = "done" => Stop = Len(answer)
    BY <1>1, StopIs
  <2> HIDE DEF k, b, o, chunk
  <2>11. CASE k < Stop
    <3>1. o = State(b, UpTo(k), "no", PartsOf(k))
      BY <2>11 DEF o, ToldBy
    <3>2. oll' = [buf |-> b, heard |-> UpTo(k), over |-> "no"] /\ lines' = PartsOf(k) /\ link' = "open"
      BY <1>1, <2>8, <3>1 DEF State, Locals
    <3>3. State(oll'.buf, oll'.heard, oll'.over, lines') = ToldBy(k, oll'.buf) /\ oll'.buf = Span(k, 0, q)
      BY <3>1, <3>2 DEF o, b
    <3>4. Stands(k, q, at', link', oll', lines')
      BY <2>8, <2>9, <2>11, <3>2, <3>3 DEF Stands
    <3> QED
      BY <2>9, <3>4
  <2>12. CASE ~(k < Stop)
    <3>1. o = State(b, UpTo(Stop - 1), Event(Stop).kind, Append(PartsOf(Stop - 1), EndLine))
      BY <2>12 DEF o, ToldBy
    <3>2. ~(Stop < Stop) /\ k <= Len(answer) /\ Stop <= Len(answer)
      BY <2>9, <2>10, <2>12 DEF Fits4
    <3>3. ToldBy(Stop, <<>>).lines = Append(PartsOf(Stop - 1), EndLine)
      BY <3>2 DEF ToldBy, State
    <3>4. Event(Stop).kind = "done" => b = <<>>
      <4> SUFFICES ASSUME Event(Stop).kind = "done" PROVE b = <<>>
        OBVIOUS
      <4>1. k = Len(answer) /\ q = 0
        BY <2>9, <2>10, <2>12, <3>2 DEF Fits4
      <4>2. answer \in Seq(EventType) /\ Fits4(k, 0, 0)
        BY <1>1, <2>9, <4>1 DEF WellEnded
      <4>3. Span(k, 0, 0) \in Seq(Atom) /\ Len(Span(k, 0, 0)) = 0
        BY <4>2, SpanIs
      <4> QED
        BY <4>1, <4>3, EmptySeq DEF b
    <3>5. link' = "left" /\ lines' = Append(PartsOf(Stop - 1), EndLine)
      BY <2>8, <2>10, <3>1, <3>4 DEF State
    <3>6. Stands(k, q, at', link', oll', lines')
      BY <2>8, <2>9, <3>2, <3>3, <3>5 DEF Stands
    <3> QED
      BY <2>9, <3>6
  <2> QED
    BY <2>11, <2>12
<1> QED
  BY <1>1, <1>2, OllamaFixed

LEMMA EndKeepsOllama == OllamaInv /\ UpstreamEnds => OllamaInv'
<1> SUFFICES ASSUME OllamaInv, UpstreamEnds PROVE OllamaInv'
  OBVIOUS
<1>1. /\ answer' = answer /\ via' = via /\ link = "open" /\ link' = "ended" /\ WellEnded
      /\ at = Len(Wire) /\ at' = at
  BY DEF UpstreamEnds, OllamaInv
<1>2. ASSUME Ollama
      PROVE  \E m \in Nat, r \in 0..3 : Stands(m, r, at', link', oll', lines')
  <2>1. via # "plain" /\ via # "reconcile"
    BY <1>2 DEF Ollama
  <2>2. lines' = LET o == Converted(<<>>) IN IF o.over = "no" THEN Append(o.lines, DoneLine(o.heard)) ELSE o.lines
    BY <2>1 DEF UpstreamEnds, Closes
  <2>3. PICK m \in Nat, r \in 0..3 : Stands(m, r, at, link, oll, lines)
    BY <1>2 DEF OllamaInv
  <2>4. Fits4(m, 0, r) /\ at = 4*m + r /\ oll.buf = Span(m, 0, r) /\ Untold(m) /\ m < Stop
    BY <1>1, <2>3 DEF Stands, Untold
  <2>5. answer \in Seq(EventType)
    BY <1>1 DEF WellEnded
  <2>6. m = Len(answer) /\ m + 0 = m
    <3>1. Len(Wire) = 4 * Len(answer) /\ Len(answer) \in Nat
      BY <2>5, WireAt
    <3>2. 4*m + r = 4 * Len(answer)
      BY <1>1, <2>4, <3>1
    <3> QED
      BY <3>1, <3>2
  <2>7. oll.buf \o <<>> = Span(m, 0, r)
    BY <2>4, <2>5, SpanIs, CatFacts
  <2> DEFINE b == Span(m + 0, 0, r)
  <2>8. Converted(<<>>) = ToldBy(m + 0, b)
    BY <1>1, <2>4, <2>7, Converts
  <2> HIDE DEF b
  <2>9. Converted(<<>>) = State(b, UpTo(m), "no", PartsOf(m))
    BY <2>4, <2>6, <2>8 DEF ToldBy
  <2>10. lines' = Append(PartsOf(m), DoneLine(UpTo(m)))
    BY <2>2, <2>9 DEF State
  <2>11. Stands(m, r, at', link', oll', lines')
    BY <1>1, <2>4, <2>6, <2>10 DEF Stands
  <2> QED
    BY <2>11
<1> QED
  BY <1>1, <1>2, OllamaFixed

LEMMA BreakKeepsOllama == OllamaInv /\ BreaksOff => OllamaInv'
<1> SUFFICES ASSUME OllamaInv, BreaksOff PROVE OllamaInv'
  OBVIOUS
<1>1. /\ answer' = answer /\ via' = via /\ link = "open" /\ link' = "broken" /\ WellEnded
      /\ at' = at
  BY DEF BreaksOff, OllamaInv
<1>2. ASSUME Ollama
      PROVE  \E m \in Nat, r \in 0..3 : Stands(m, r, at', link', oll', lines')
  <2>1. via # "plain" /\ via # "reconcile"
    BY <1>2 DEF Ollama
  <2>2. lines' = LET o == Converted(ErrorBytes) IN IF o.over = "no" THEN Append(o.lines, DoneLine(o.heard)) ELSE o.lines
    BY <2>1 DEF BreaksOff, Closes
  <2>3. PICK m \in Nat, r \in 0..3 : Stands(m, r, at, link, oll, lines)
    BY <1>2 DEF OllamaInv
  <2>4. Fits4(m, 0, r) /\ at = 4*m + r /\ oll.buf = Span(m, 0, r) /\ Untold(m) /\ m < Stop
    BY <1>1, <2>3 DEF Stands, Untold
  <2> DEFINE k == IF r = 3 THEN m + 1 ELSE m
  <2>5. Converted(ErrorBytes) = Failed(k, <<>>)
    BY <1>1, <2>4, ConvertsError
  <2> HIDE DEF k
  <2>6. Failed(k, <<>>).over = "error"
    BY DEF Failed, State
  <2>7. lines' = Failed(k, <<>>).lines
    BY <2>2, <2>5, <2>6
  <2>8. Stands(m, r, at', link', oll', lines')
    BY <1>1, <2>4, <2>7 DEF Stands, k
  <2> QED
    BY <2>8
<1> QED
  BY <1>1, <1>2, OllamaFixed

LEMMA OthersKeepOllama == OllamaInv /\ (ClientLeaves \/ UNCHANGED relayVars) => OllamaInv'
<1> SUFFICES ASSUME OllamaInv, ClientLeaves \/ UNCHANGED relayVars PROVE OllamaInv'
  OBVIOUS
<1>1. /\ answer' = answer /\ via' = via /\ WellEnded
      /\ at' = at /\ oll' = oll /\ lines' = lines
      /\ link' = link \/ (link = "open" /\ link' = "gone")
  BY DEF ClientLeaves, relayVars, OllamaInv
<1>2. ASSUME Ollama
      PROVE  \E m \in Nat, r \in 0..3 : Stands(m, r, at', link', oll', lines')
  <2>1. PICK m \in Nat, r \in 0..3 : Stands(m, r, at, link, oll, lines)
    BY <1>2 DEF OllamaInv
  <2>2. Stands(m, r, at', link', oll', lines')
    BY <1>1, <2>1 DEF Stands
  <2> QED
    BY <2>2
<1> QED
  BY <1>1, <1>2, OllamaFixed

THEOREM OllamaInvAlways == RelaySpec => []OllamaInv
<1>1. OllamaInv /\ [RelayNext]_relayVars => OllamaInv'
  BY RelaysKeepsOllama, EndKeepsOllama, BreakKeepsOllama, OthersKeepOllama DEF RelayNext
<1> QED
  BY <1>1, OllamaInitially, PTL DEF RelaySpec

LEMMA OnlyAll ==
  ASSUME NEW A, NEW T, A \subseteq T, NEW s \in Seq(A)
  PROVE  Only(s, T) = s
<1> DEFINE K == {t \in Seq(A) : Only(t, T) = t}
<1>1. Selects(A, T)
  BY OnlyIs
<1>2. <<>> \in K
  BY <1>1, EmptySeq DEF Selects
<1>3. ASSUME NEW t \in Seq(A), NEW x \in A, t \in K
      PROVE  Append(t, x) \in K
  <2>1. Append(t, x) \in Seq(A) /\ x \in T
    BY AppendProperties
  <2>2. Only(Append(t, x), T) = Append(Only(t, T), x)
    BY <1>1, <2>1 DEF Selects
  <2> QED
    BY <1>3, <2>1, <2>2
<1>4. Seq(A) \subseteq K
  <2> HIDE DEF K
  <2> QED
    BY <1>2, <1>3, SeqSetInduction
<1> QED
  BY <1>4

(* The pieces among the lines, and the events they are of.                 *)
PartsIn(ls) == Only(ls, {l \in ToSet(ls) : l.kind = "part"})
Ofs(ps)     == [k \in DOMAIN ps |-> ps[k].of]
EndLast(ls) == \A k \in DOMAIN ls : ls[k].kind # "part" => k = Len(ls)

LEMMA PartsLook ==
  ASSUME NEW k \in Nat
  PROVE  /\ PartsOf(k) \in Seq(Line) /\ \A j \in 1..Len(PartsOf(k)) : PartsOf(k)[j].kind = "part"
         /\ Ofs(PartsOf(k)) = TextOf(k) /\ Len(PartsOf(k)) = Len(TextOf(k)) /\ TextOf(k) \in Seq(Nat)
<1> DEFINE p == PartsOf(k)
           t == TextOf(k)
<1>1. p \in Seq(Line) /\ t \in Seq(Nat)
  BY PartsGrow
<1>2. DOMAIN p = DOMAIN t /\ \A j \in DOMAIN t : p[j] = PartLine[t[j]]
  BY DEF PartsOf, Image
<1>3. DOMAIN p = 1..Len(p) /\ DOMAIN t = 1..Len(t) /\ Len(p) \in Nat /\ Len(t) \in Nat
  BY <1>1, LenProperties
<1>4. \A j \in DOMAIN t : t[j] \in Nat
  BY <1>1, <1>3, ElementOfSeq
<1>5. \A i \in Nat : PartLine[i].kind = "part" /\ PartLine[i].of = i
  BY DEF PartLine, NdLine
<1> HIDE DEF p, t
<1>6. \A j \in DOMAIN t : p[j].kind = "part" /\ p[j].of = t[j]
  BY <1>2, <1>4, <1>5
<1>7. Len(p) = Len(t)
  <2> DEFINE a == Len(p)
             b == Len(t)
  <2>1. a \in Nat /\ b \in Nat /\ 1..a = 1..b
    BY <1>2, <1>3
  <2> HIDE DEF a, b
  <2>2. (a < b => b \in 1..a) /\ (b < a => a \in 1..b)
    <3>1. (a < b => b \in 1..b) /\ (b < a => a \in 1..a)
      BY <2>1
    <3> QED
      BY <2>1, <3>1
  <2>3. a = b
    BY <2>1, <2>2
  <2> QED
    BY <2>3 DEF a, b
<1>8. Ofs(p) = t
  <2>1. t = [j \in DOMAIN t |-> t[j]]
    BY <1>1
  <2> QED
    BY <1>2, <1>6, <2>1 DEF Ofs
<1> QED
  BY <1>1, <1>2, <1>3, <1>6, <1>7, <1>8 DEF p, t

LEMMA PartsAlone ==
  ASSUME NEW k \in Nat, NEW T, \A j \in 1..Len(PartsOf(k)) : PartsOf(k)[j] \in T
  PROVE  Only(PartsOf(k), T) = PartsOf(k)
<1> DEFINE p == PartsOf(k)
           A == {p[j] : j \in 1..Len(p)}
<1>1. p \in Seq(Line)
  BY PartsGrow
<1>2. A \subseteq T
  OBVIOUS
<1> HIDE DEF p
<1>3. p \in Seq(A)
  BY <1>1, LenProperties
<1> QED
  BY <1>2, <1>3, OnlyAll DEF p

LEMMA NothingEnds ==
  ASSUME NEW k \in Nat, NEW ls, ls = PartsOf(k)
  PROVE  PartsIn(ls) = PartsOf(k) /\ EndLast(ls)
<1>1. /\ ls \in Seq(Line) /\ \A j \in 1..Len(PartsOf(k)) : PartsOf(k)[j].kind = "part"
  BY PartsLook
<1>2. DOMAIN ls = 1..Len(ls)
  BY <1>1, LenProperties
<1>3. \A j \in 1..Len(PartsOf(k)) : PartsOf(k)[j] \in {l \in ToSet(ls) : l.kind = "part"}
  BY <1>1, <1>2 DEF ToSet
<1> QED
  BY <1>1, <1>2, <1>3, PartsAlone DEF PartsIn, EndLast

(* A line that ends the answer, and a second one.                          *)
LEMMA OneEnds ==
  ASSUME NEW k \in Nat, NEW x, x.kind # "part", NEW ls, ls = Append(PartsOf(k), x)
  PROVE  PartsIn(ls) = PartsOf(k) /\ EndLast(ls) /\ ls # <<>> /\ Last(ls) = x
<1> DEFINE p == PartsOf(k)
           A == Line \cup {x}
           n == Len(p)
           T == {l \in ToSet(ls) : l.kind = "part"}
<1>1. p \in Seq(Line) /\ n \in Nat /\ \A j \in 1..n : p[j].kind = "part"
  BY PartsLook, LenProperties
<1>2. p \in Seq(A) /\ x \in A
  <2>1. \A j \in 1..n : p[j] \in Line
    BY <1>1, ElementOfSeq
  <2> QED
    BY <1>1, <2>1
<1> HIDE DEF p, A
<1>3. ls \in Seq(A) /\ Len(ls) = n + 1 /\ ls[n + 1] = x /\ \A j \in 1..n : ls[j] = p[j]
  BY <1>2, AppendProperties DEF p
<1> HIDE DEF n
<1>4. DOMAIN ls = 1..(n + 1)
  BY <1>3, LenProperties
<1>5. \A j \in 1..n : j \in 1..(n + 1)
  BY <1>1
<1>6. \A j \in 1..n : p[j] \in T
  BY <1>1, <1>3, <1>4, <1>5 DEF ToSet, n
<1>7. x \notin T
  OBVIOUS
<1> HIDE DEF T
<1>8. Only(p, T) = p
  BY <1>6, PartsAlone DEF p, n
<1>9. Only(ls, T) = p
  <2>1. Selects(A, T)
    BY OnlyIs
  <2>2. ls = Append(p, x)
    BY DEF p
  <2> QED
    BY <1>2, <1>7, <1>8, <2>1, <2>2 DEF Selects
<1>10. EndLast(ls)
  <2>1. \A j \in 1..(n + 1) : j \in 1..n \/ j = n + 1
    BY <1>1
  <2> QED
    BY <1>1, <1>3, <1>4, <2>1 DEF EndLast, n
<1>11. ls # <<>> /\ Last(ls) = x
  <2>1. n + 1 # 0
    BY <1>1 DEF n
  <2> QED
    BY <1>3, <2>1, EmptySeq DEF Last
<1> QED
  BY <1>9, <1>10, <1>11 DEF PartsIn, T, p

EndsIn(ls, k, y) == PartsIn(ls) = PartsOf(k) /\ ls # <<>> /\ Last(ls) = y

LEMMA TwoEnd ==
  ASSUME NEW k \in Nat, NEW x, x.kind # "part", NEW y, y.kind # "part"
  PROVE  EndsIn(Append(Append(PartsOf(k), x), y), k, y)
<1> DEFINE p == PartsOf(k)
           a == Append(p, x)
           ls == Append(a, y)
           A == Line \cup {x, y}
           n == Len(p)
           T == {l \in ToSet(ls) : l.kind = "part"}
<1>1. p \in Seq(Line) /\ n \in Nat /\ \A j \in 1..n : p[j].kind = "part"
  BY PartsLook, LenProperties
<1>2. p \in Seq(A) /\ x \in A /\ y \in A
  <2>1. \A j \in 1..n : p[j] \in Line
    BY <1>1, ElementOfSeq
  <2> QED
    BY <1>1, <2>1
<1>3. ls = Append(a, y)
  OBVIOUS
<1> HIDE DEF p, A
<1>4. a \in Seq(A) /\ Len(a) = n + 1 /\ \A j \in 1..n : a[j] = p[j]
  BY <1>2, AppendProperties
<1> HIDE DEF n, a, ls
<1>5. ls \in Seq(A) /\ Len(ls) = Len(a) + 1 /\ ls[Len(a) + 1] = y /\ \A j \in 1..Len(a) : ls[j] = a[j]
  BY <1>2, <1>3, <1>4, AppendProperties
<1>6. n \in Nat /\ Len(ls) = (n + 1) + 1 /\ ls[Len(ls)] = y /\ \A j \in 1..n : ls[j] = p[j] /\ j \in 1..Len(ls)
  <2>1. n \in Nat
    BY <1>1 DEF n
  <2>2. \A j \in 1..n : j \in 1..(n + 1) /\ j \in 1..((n + 1) + 1)
    BY <2>1
  <2> QED
    BY <1>4, <1>5, <2>1, <2>2
<1>7. DOMAIN ls = 1..Len(ls)
  BY <1>5, LenProperties
<1>8. \A j \in 1..n : p[j] \in T
  BY <1>1, <1>6, <1>7 DEF ToSet, n
<1>9. x \notin T /\ y \notin T
  OBVIOUS
<1> HIDE DEF T
<1>10. Only(p, T) = p
  BY <1>8, PartsAlone DEF p, n
<1>11. Only(ls, T) = p
  <2>1. Selects(A, T)
    BY OnlyIs
  <2>2. Only(a, T) = p
    BY <1>2, <1>9, <1>10, <2>1 DEF Selects, a
  <2> QED
    BY <1>2, <1>3, <1>4, <1>9, <2>1, <2>2 DEF Selects
<1>12. ls # <<>> /\ Last(ls) = y
  <2>1. (n + 1) + 1 # 0
    BY <1>6
  <2> QED
    BY <1>5, <1>6, <2>1, EmptySeq DEF Last
<1> QED
  BY <1>11, <1>12 DEF EndsIn, PartsIn, T, p, ls, a

Failing == link = "broken" \/ Errors # {}
Undone  == {i \in DOMAIN answer : answer[i].kind # "done"}
ToldOf  == Only(IF link \in {"ended", "left"} THEN All ELSE Came, TextEvents)

LEMMA TextsAre ==
  ASSUME WellEnded
  PROVE  TextEvents = {i \in DOMAIN answer : answer[i].kind = "text"} /\ All = UpTo(Len(answer))
<1>1. answer \in Seq(EventType) /\ Len(answer) \in Nat /\ DOMAIN answer = 1..Len(answer)
  BY LenProperties DEF WellEnded
<1>2. TextEvents = {i \in DOMAIN answer : answer[i].kind = "text"}
  BY <1>1 DEF TextEvents, Event
<1>3. All = UpTo(Len(answer))
  BY <1>1 DEF All, Places, UpTo
<1> QED
  BY <1>2, <1>3

LEMMA NoMoreText ==
  ASSUME WellEnded, NEW k \in Nat, Stop - 1 <= k, k <= Len(answer)
  PROVE  TextOf(k) = TextOf(Stop - 1)
<1> DEFINE N == Len(answer)
           a == Stop - 1
           S == {j \in Nat : a + j <= N => TextOf(a + j) = TextOf(a)}
<1>1. N \in Nat /\ a \in Nat /\ Stop = a + 1
  BY StopIs
<1>2. \A i \in (a + 1)..N : Event(i).kind # "text"
  <2>1. Event(Stop).kind \in {"error", "done"} /\ \A i \in (Stop + 1)..N : Event(i).kind = "done"
    BY StopIs
  <2>2. \A i \in (a + 1)..N : i = Stop \/ i \in (Stop + 1)..N
    BY <1>1
  <2> QED
    BY <2>1, <2>2
<1> HIDE DEF N, a
<1>3. 0 \in S
  <2>1. a + 0 = a
    BY <1>1
  <2> QED
    BY <2>1
<1>4. ASSUME NEW j \in Nat, j \in S
      PROVE  j + 1 \in S
  <2> SUFFICES ASSUME a + (j + 1) <= N PROVE TextOf(a + (j + 1)) = TextOf(a)
    OBVIOUS
  <2> DEFINE n == a + j
  <2>1. n \in Nat /\ a + (j + 1) = n + 1 /\ n <= N /\ n + 1 \in (a + 1)..N
    BY <1>1
  <2>2. TextOf(n) = TextOf(a)
    BY <1>4, <2>1
  <2> HIDE DEF n
  <2>3. n + 1 \notin TextEvents
    BY <1>2, <2>1 DEF TextEvents
  <2>4. TextOf(n + 1) = TextOf(n)
    BY <2>1, <2>3, PartsGrow
  <2> QED
    BY <2>1, <2>2, <2>4
<1>5. Nat \subseteq S
  <2> HIDE DEF S
  <2> QED
    BY <1>3, <1>4, NumbersInduction
<1>6. k - a \in Nat /\ a + (k - a) = k /\ a <= k
  BY <1>1
<1>7. TextOf(a + (k - a)) = TextOf(a)
  <2>1. k - a \in S /\ a + (k - a) <= N
    BY <1>5, <1>6 DEF N
  <2> QED
    BY <2>1
<1> QED
  BY <1>6, <1>7 DEF a

LEMMA PrefixFollows ==
  ASSUME NEW s \in Seq(Nat)
  PROVE  IsPrefix(s, s) /\ \A x \in Nat : IsPrefix(s, Append(s, x))
<1>1. Len(s) \in Nat
  BY LenProperties
<1>2. IsPrefix(s, s)
  BY <1>1 DEF IsPrefix
<1>3. ASSUME NEW x \in Nat
      PROVE  IsPrefix(s, Append(s, x))
  <2> DEFINE t == Append(s, x)
             n == Len(s)
             u == SubSeq(t, 1, n)
  <2>1. t \in Seq(Nat) /\ Len(t) = n + 1 /\ \A i \in 1..n : t[i] = s[i]
    BY AppendProperties
  <2> HIDE DEF t, n
  <2>2. n \in Nat /\ \A i \in 1..n : t[i] \in Nat
    BY <1>1, <2>1, ElementOfSeq DEF n
  <2>3. u \in Seq(Nat) /\ Len(u) = n /\ \A i \in 1..n : u[i] = t[i]
    <3>1. /\ u \in Seq(Nat) /\ Len(u) = (IF 1 <= n THEN n - 1 + 1 ELSE 0)
          /\ \A i \in 1..n - 1 + 1 : u[i] = t[1 + i - 1]
      BY <2>2, SubSeqProperties
    <3>2. n - 1 + 1 = n /\ \A i \in 1..n : 1 + i - 1 = i
      BY <2>2
    <3> HIDE DEF u
    <3> QED
      BY <2>2, <3>1, <3>2
  <2> HIDE DEF u
  <2>4. u = s
    BY <2>1, <2>3, SeqEqual DEF n
  <2>5. SubSeq(s, 1, n) = s
    BY SubSeqFull DEF n
  <2> QED
    BY <1>1, <2>1, <2>2, <2>4, <2>5 DEF IsPrefix, u, t, n
<1> QED
  BY <1>2, <1>3

(* What has come holds the pieces that were sent, and at most one more.    *)
LEMMA PiecesCome ==
  ASSUME WellEnded, NEW m, NEW r, Fits4(m, 0, r), at = 4*m + r
  PROVE  /\ Only(Came, TextEvents) = TextOf(IF r = 3 THEN m + 1 ELSE m)
         /\ IsPrefix(TextOf(m), Only(Came, TextEvents))
<1>1. answer \in Seq(EventType) /\ m \in Nat
  BY DEF WellEnded, Fits4
<1>2. Came = UpTo(IF r = 3 THEN m + 1 ELSE m)
  BY <1>1, SentIs
<1>3. Only(Came, TextEvents) = TextOf(IF r = 3 THEN m + 1 ELSE m)
  BY <1>2 DEF TextOf
<1>4. TextOf(m) \in Seq(Nat) /\ m + 1 \in Nat
      /\ TextOf(m + 1) \in {TextOf(m), Append(TextOf(m), m + 1)}
  <2>1. TextOf(m) \in Seq(Nat) /\ TextOf(m + 1) = IF m + 1 \in TextEvents THEN Append(TextOf(m), m + 1) ELSE TextOf(m)
    BY <1>1, PartsGrow, Zenon
  <2>2. m + 1 \in Nat
    BY <1>1
  <2> QED
    BY <2>1, <2>2
<1>5. IsPrefix(TextOf(m), TextOf(m)) /\ IsPrefix(TextOf(m), TextOf(m + 1))
  BY <1>4, PrefixFollows
<1> QED
  BY <1>3, <1>5

LEMMA EndLinesAre ==
  ASSUME WellEnded
  PROVE  /\ \A h : DoneLine(h).kind = "done"
         /\ ErrorLine.kind = "error"
         /\ EndLine.kind = Event(Stop).kind /\ EndLine.kind \in {"done", "error"}
<1>1. \A h : DoneLine(h).kind = "done"
  BY DEF DoneLine, NdLine
<1>2. Event(Stop).kind \in {"error", "done"}
  BY StopIs
<1> QED
  BY <1>1, <1>2 DEF EndLine, ErrorLine, NdLine

(* All of it was there: the last line is the one after all but [DONE].     *)
LEMMA DoneLineIs ==
  ASSUME WellEnded
  PROVE  /\ Stop <= Len(answer) /\ Errors = {} => EndLine = DoneLine(Only(All, Undone))
         /\ Len(answer) < Stop => DoneLine(UpTo(Len(answer))) = DoneLine(Only(All, Undone)) /\ Errors = {}
         /\ Stop <= Len(answer) /\ Errors # {} => EndLine.kind = "error"
<1> DEFINE N == Len(answer)
<1>1. /\ N \in Nat /\ Stop \in 1..(N + 1) /\ All = UpTo(N)
      /\ \A i \in 1..N : Event(i) = answer[i]
      /\ \A i \in 1..(Stop - 1) : Event(i).kind \notin {"error", "done"}
      /\ Event(Stop).kind \in {"error", "done"}
      /\ Event(Stop).kind = "done" => Stop = N
  BY StopIs, TextsAre
<1>2. DOMAIN answer = 1..N
  BY LenProperties DEF WellEnded
<1>3. \A i \in 1..(Stop - 1) : i \in 1..N /\ i \in Undone
  <2>1. \A i \in 1..(Stop - 1) : i \in 1..N
    BY <1>1
  <2> QED
    BY <1>1, <1>2, <2>1 DEF Undone
<1>4. Selects(Nat, Undone)
  BY OnlyIs
<1>5. ASSUME NEW k \in Nat, k <= Stop - 1
      PROVE  Only(UpTo(k), Undone) = UpTo(k)
  <2>1. UpTo(k) \in Seq(1..k)
    BY DEF UpTo
  <2>2. 1..k \subseteq Undone
    <3>1. \A i \in 1..k : i \in 1..(Stop - 1)
      BY <1>1, <1>5
    <3> QED
      BY <1>3, <3>1
  <2> QED
    BY <2>1, <2>2, OnlyAll
<1>6. ASSUME Stop <= N, Errors = {}
      PROVE  EndLine = DoneLine(Only(All, Undone))
  <2>1. Stop \in 1..N
    BY <1>1, <1>6
  <2>2. Event(Stop).kind # "error"
    BY <1>1, <1>2, <1>6, <2>1 DEF Errors
  <2>3. Event(Stop).kind = "done" /\ Stop = N
    BY <1>1, <2>2
  <2> DEFINE k == Stop - 1
  <2>4. k \in Nat /\ k + 1 = N /\ k <= Stop - 1
    BY <1>1, <2>3
  <2>5. N \notin Undone
    BY <1>1, <2>1, <2>3 DEF Undone
  <2>6. EndLine = DoneLine(UpTo(k))
    BY <2>3 DEF EndLine
  <2> HIDE DEF k
  <2>7. UpTo(k) \in Seq(Nat) /\ UpTo(k + 1) = Append(UpTo(k), k + 1)
    BY <2>4, UpToIs
  <2>8. All = Append(UpTo(k), N)
    BY <1>1, <2>4, <2>7
  <2>9. Only(All, Undone) = Only(UpTo(k), Undone)
    BY <1>1, <1>4, <2>5, <2>7, <2>8 DEF Selects
  <2>10. Only(UpTo(k), Undone) = UpTo(k)
    BY <1>5, <2>4
  <2> QED
    BY <2>6, <2>9, <2>10
<1>7. ASSUME N < Stop
      PROVE  DoneLine(UpTo(N)) = DoneLine(Only(All, Undone)) /\ Errors = {}
  <2>1. Only(UpTo(N), Undone) = UpTo(N)
    BY <1>1, <1>5, <1>7
  <2>2. \A i \in 1..N : i \in 1..(Stop - 1)
    BY <1>1, <1>7
  <2>3. Errors = {}
    BY <1>1, <1>2, <2>2 DEF Errors
  <2> QED
    BY <1>1, <2>1, <2>3
<1>8. ASSUME Errors # {}
      PROVE  EndLine.kind = "error"
  <2>1. Stop \in Errors
    BY <1>8 DEF Stop
  <2>2. Stop \in 1..N /\ answer[Stop].kind = "error"
    BY <1>2, <2>1 DEF Errors
  <2>3. Event(Stop).kind = "error"
    BY <1>1, <2>2
  <2> QED
    BY <2>3, EndLinesAre
<1> QED
  BY <1>6, <1>7, <1>8 DEF N

LEMMA EndsOnceFrom ==
  ASSUME WellEnded, NEW k \in Nat, PartsIn(lines) = PartsOf(k),
         (link = "broken" /\ at = Len(Wire) - 1) \/ EndLast(lines),
         IsPrefix(TextOf(k), ToldOf),
         link \in {"ended", "left"} => TextOf(k) = ToldOf,
         link \in {"ended", "left", "broken"} =>
           /\ lines # <<>>
           /\ IF Failing THEN Last(lines).kind = "error" ELSE Last(lines) = DoneLine(Only(All, Undone))
  PROVE  OllamaEndsOnce
<1>1. Ofs(PartsIn(lines)) = TextOf(k) /\ Len(PartsIn(lines)) = Len(TextOf(k))
  BY PartsLook
<1>2. IsPrefix(Ofs(PartsIn(lines)), ToldOf) /\ (link \in {"ended", "left"} => Len(PartsIn(lines)) = Len(ToldOf))
  BY <1>1
<1>3. ToldOf = Only(IF link \in {"ended", "left"} THEN All ELSE Came, {i \in DOMAIN answer : answer[i].kind = "text"})
  BY TextsAre DEF ToldOf
<1>4. (link = "broken" /\ at = Len(Wire) - 1) \/ \A i \in DOMAIN lines : lines[i].kind # "part" => i = Len(lines)
  BY DEF EndLast
<1>5. link \in {"ended", "left", "broken"} =>
        /\ lines # <<>>
        /\ IF Failing THEN Last(lines).kind = "error" ELSE Last(lines) = DoneLine(Only(All, Undone))
  OBVIOUS
<1>6. Failing <=> (link = "broken" \/ \E i \in DOMAIN answer : answer[i].kind = "error")
  BY DEF Failing, Errors
<1> QED
  BY <1>2, <1>3, <1>4, <1>5, <1>6, Zenon DEF OllamaEndsOnce, PartsIn, Ofs, Undone
(* OllamaEndsOnce: stream_response sends every piece in order and then one *)
(* line that ends the answer, however the bytes were cut and however the   *)
(* stream ends.                                                            *)
THEOREM OllamaEndsOnceAlways == RelaySpec => []OllamaEndsOnce
<1>1. OllamaInv => OllamaEndsOnce
  <2> SUFFICES ASSUME OllamaInv, Ollama PROVE OllamaEndsOnce
    BY DEF OllamaEndsOnce
  <2>1. WellEnded
    BY DEF OllamaInv
  <2>2. PICK m \in Nat, r \in 0..3 : Stands(m, r, at, link, oll, lines)
    BY DEF OllamaInv
  <2>3. Fits4(m, 0, r) /\ at = 4*m + r /\ link \in {"open", "ended", "broken", "gone", "left"}
    BY <2>2 DEF Stands
  <2> DEFINE N == Len(answer)
             k == IF r = 3 THEN m + 1 ELSE m
  <2>4. Only(Came, TextEvents) = TextOf(k) /\ IsPrefix(TextOf(m), Only(Came, TextEvents))
    BY <2>1, <2>3, PiecesCome
  <2>5. N \in Nat /\ Stop \in 1..(N + 1) /\ k \in Nat /\ k <= N /\ (Stop - 1) \in Nat
    <3>1. Stop \in 1..(N + 1) /\ N \in Nat
      BY <2>1, StopIs
    <3> QED
      BY <2>3, <3>1 DEF Fits4
  <2>6. \A j \in Nat : IsPrefix(TextOf(j), TextOf(j))
    BY PartsGrow, PrefixFollows
  <2>7. Only(All, TextEvents) = TextOf(N)
    BY <2>1, TextsAre DEF TextOf
  <2>8. /\ \A h : DoneLine(h).kind = "done"
        /\ ErrorLine.kind = "error"
        /\ EndLine.kind = Event(Stop).kind /\ EndLine.kind \in {"done", "error"}
    BY <2>1, EndLinesAre
  <2> HIDE DEF k, N
  <2>9. CASE link \in {"open", "gone"}
    <3>1. m < Stop /\ State(oll.buf, oll.heard, oll.over, lines) = ToldBy(m, oll.buf)
      BY <2>2, <2>9 DEF Stands
    <3>2. lines = PartsOf(m)
      BY <3>1 DEF ToldBy, State
    <3>3. PartsIn(lines) = PartsOf(m) /\ EndLast(lines)
      BY <3>2, NothingEnds
    <3>4. ToldOf = Only(Came, TextEvents)
      BY <2>9 DEF ToldOf
    <3> QED
      BY <2>1, <2>4, <2>9, <3>3, <3>4, EndsOnceFrom
  <2>10. CASE link = "left"
    <3> DEFINE a == Stop - 1
    <3>1. Stop <= N /\ lines = Append(PartsOf(a), EndLine)
      <4>1. Stop <= N /\ lines = ToldBy(Stop, <<>>).lines /\ ~(Stop < Stop)
        BY <2>2, <2>5, <2>10 DEF Stands, N
      <4> QED
        BY <4>1 DEF ToldBy, State
    <3>2. a \in Nat /\ a <= N
      BY <2>5
    <3>3. TextOf(N) = TextOf(a)
      BY <2>1, <2>5, <3>2, NoMoreText DEF N
    <3> HIDE DEF a
    <3>4. PartsIn(lines) = PartsOf(a) /\ EndLast(lines) /\ lines # <<>> /\ Last(lines) = EndLine
      BY <2>8, <3>1, <3>2, OneEnds
    <3>5. ToldOf = TextOf(a)
      BY <2>7, <2>10, <3>3 DEF ToldOf
    <3>6. IF Failing THEN Last(lines).kind = "error" ELSE Last(lines) = DoneLine(Only(All, Undone))
      BY <2>1, <2>10, <3>1, <3>4, DoneLineIs DEF Failing, N
    <3> QED
      BY <2>1, <2>6, <2>10, <3>2, <3>4, <3>5, <3>6, EndsOnceFrom
  <2>11. CASE link = "ended"
    <3>1. N < Stop /\ lines = Append(PartsOf(N), DoneLine(UpTo(N)))
      BY <2>2, <2>11 DEF Stands, N
    <3>2. PartsIn(lines) = PartsOf(N) /\ EndLast(lines) /\ lines # <<>> /\ Last(lines) = DoneLine(UpTo(N))
      BY <2>5, <2>8, <3>1, OneEnds
    <3>3. ToldOf = TextOf(N)
      BY <2>7, <2>11 DEF ToldOf
    <3>4. IF Failing THEN Last(lines).kind = "error" ELSE Last(lines) = DoneLine(Only(All, Undone))
      BY <2>1, <2>11, <3>1, <3>2, DoneLineIs DEF Failing, N
    <3> QED
      BY <2>1, <2>5, <2>6, <2>11, <3>2, <3>3, <3>4, EndsOnceFrom
  <2>12. CASE link = "broken"
    <3>1. m < Stop /\ lines = Failed(k, <<>>).lines
      BY <2>2, <2>12 DEF Stands, k
    <3>2. ToldOf = TextOf(k) /\ IsPrefix(TextOf(k), TextOf(k)) /\ Failing
      BY <2>4, <2>5, <2>6, <2>12 DEF ToldOf, Failing
    <3>3. CASE k < Stop
      <4>1. lines = Append(PartsOf(k), ErrorLine)
        BY <3>1, <3>3 DEF Failed, ToldBy, State
      <4>2. PartsIn(lines) = PartsOf(k) /\ EndLast(lines) /\ lines # <<>> /\ Last(lines) = ErrorLine
        BY <2>5, <2>8, <4>1, OneEnds
      <4> QED
        BY <2>1, <2>5, <2>8, <2>12, <3>2, <4>2, EndsOnceFrom
    <3>4. CASE ~(k < Stop)
      <4> DEFINE a == Stop - 1
      <4>1. r = 3 /\ m = a /\ k = Stop /\ a \in Nat /\ a <= N
        BY <2>3, <2>5, <3>1, <3>4 DEF k
      <4>2. IsPrefix(TextOf(a), ToldOf)
        BY <2>4, <3>2, <4>1
      <4> HIDE DEF a
      <4>3. ToldBy(k, <<>>) = State(<<>>, UpTo(a), Event(Stop).kind, Append(PartsOf(a), EndLine))
        BY <3>4 DEF ToldBy, a
      <4>4. CASE Event(Stop).kind = "error"
        <5>1. lines = Append(PartsOf(a), EndLine)
          BY <3>1, <4>3, <4>4 DEF Failed, State
        <5>2. PartsIn(lines) = PartsOf(a) /\ EndLast(lines) /\ lines # <<>> /\ Last(lines) = EndLine
          BY <2>8, <4>1, <5>1, OneEnds
        <5> QED
          BY <2>1, <2>8, <2>12, <3>2, <4>1, <4>2, <4>4, <5>2, EndsOnceFrom
      <4>5. CASE Event(Stop).kind # "error"
        <5>1. lines = Append(Append(PartsOf(a), EndLine), ErrorLine)
          BY <3>1, <4>3, <4>5 DEF Failed, State
        <5>2. PartsIn(lines) = PartsOf(a) /\ lines # <<>> /\ Last(lines) = ErrorLine
          <6>1. EndLine.kind # "part" /\ ErrorLine.kind # "part" /\ a \in Nat
            BY <2>8, <4>1
          <6>2. EndsIn(Append(Append(PartsOf(a), EndLine), ErrorLine), a, ErrorLine)
            BY <6>1, TwoEnd
          <6> QED
            BY <5>1, <6>2 DEF EndsIn
        <5>3. at = Len(Wire) - 1
          <6>1. Stop = N
            BY <2>1, <4>5, StopIs DEF N
          <6>2. Len(Wire) = 4 * N
            BY <2>1, WireAt DEF WellEnded, N
          <6> QED
            BY <2>3, <2>5, <4>1, <6>1, <6>2 DEF a
        <5> QED
          BY <2>1, <2>8, <2>12, <3>2, <4>1, <4>2, <5>2, <5>3, EndsOnceFrom
      <4> QED
        BY <4>4, <4>5
    <3> QED
      BY <3>3, <3>4
  <2> QED
    BY <2>3, <2>9, <2>10, <2>11, <2>12
<1> QED
  BY <1>1, OllamaInvAlways, PTL

--------------------------------------------------------------------------------
(* The recovered calls                                                     *)

(* A loop over the members of a sequence.                                  *)
Loops(f, g, b, s) == f[0] = b /\ \A i \in 1..Len(s) : f[i] = g[<<f[i - 1], s[i]>>]

LEMMA LoopRuns ==
  ASSUME NEW A, NEW B, NEW g \in [B \X A -> B], NEW b \in B, NEW s \in Seq(A)
  PROVE  \E f \in [0..Len(s) -> B] : Loops(f, g, b, s)
<1> DEFINE n == Len(s)
           F == [q \in Nat \X B |-> IF q[1] \in 1..n THEN g[<<q[2], s[q[1]]>>] ELSE q[2]]
<1>1. n \in Nat /\ \A i \in 1..n : s[i] \in A
  BY LenProperties, ElementOfSeq
<1>2. \A p \in B, x \in A : g[<<p, x>>] \in B
  OBVIOUS
<1> HIDE DEF n
<1>3. ASSUME NEW i \in 1..n, NEW p \in B
      PROVE  F[<<i, p>>] = g[<<p, s[i]>>]
  <2>1. <<i, p>> \in Nat \X B /\ <<i, p>>[1] = i /\ <<i, p>>[2] = p
    BY <1>1
  <2> QED
    BY <2>1
<1>4. F \in [Nat \X B -> B]
  <2>1. \A q \in Nat \X B : q[1] \in Nat /\ q[2] \in B
    OBVIOUS
  <2>2. ASSUME NEW q \in Nat \X B
        PROVE  (IF q[1] \in 1..n THEN g[<<q[2], s[q[1]]>>] ELSE q[2]) \in B
    BY <1>1, <1>2, <2>1
  <2> QED
    BY <2>2
<1> HIDE DEF F
<1>5. PICK f \in [0..n -> B] : IsRun(f, F, b, n)
  BY <1>1, <1>4, RunExists
<1>6. ASSUME NEW i \in 1..n
      PROVE  f[i] = g[<<f[i - 1], s[i]>>]
  <2>1. i - 1 \in 0..n
    BY <1>1
  <2>2. f[i - 1] \in B /\ f[i] = F[<<i, f[i - 1]>>]
    BY <1>5, <2>1 DEF IsRun
  <2> QED
    BY <1>3, <2>2
<1> QED
  BY <1>5, <1>6 DEF Loops, IsRun, n

(* Two functions that start alike and go on alike are alike.               *)
LEMMA StepByStep ==
  ASSUME NEW n \in Nat, NEW f, NEW h, f[0] = h[0],
         \A i \in 1..n : f[i - 1] = h[i - 1] => f[i] = h[i]
  PROVE  \A i \in 0..n : f[i] = h[i]
<1> DEFINE S == {k \in Nat : k <= n => f[k] = h[k]}
<1>1. 0 \in S
  OBVIOUS
<1>2. ASSUME NEW k \in Nat, k \in S
      PROVE  k + 1 \in S
  <2>1. ASSUME k + 1 <= n
        PROVE  f[k + 1] = h[k + 1]
    <3>1. k + 1 \in 1..n /\ (k + 1) - 1 = k /\ k <= n
      BY <2>1
    <3> QED
      BY <1>2, <3>1
  <2> QED
    BY <2>1
<1>3. Nat \subseteq S
  <2> HIDE DEF S
  <2> QED
    BY <1>1, <1>2, NumbersInduction
<1> QED
  BY <1>3

LEMMA LoopIsOne ==
  ASSUME NEW A, NEW s \in Seq(A), NEW f, NEW h, NEW g, NEW b, Loops(f, g, b, s), Loops(h, g, b, s)
  PROVE  f[Len(s)] = h[Len(s)]
<1>1. Len(s) \in Nat
  BY LenProperties
<1>2. ASSUME NEW i \in 1..Len(s), f[i - 1] = h[i - 1]
      PROVE  f[i] = h[i]
  <2>1. f[i] = g[<<f[i - 1], s[i]>>] /\ h[i] = g[<<h[i - 1], s[i]>>]
    BY DEF Loops
  <2> QED
    BY <1>2, <2>1
<1>3. f[0] = h[0]
  BY DEF Loops
<1>4. \A i \in 0..Len(s) : f[i] = h[i]
  BY <1>1, <1>2, <1>3, StepByStep
<1> QED
  BY <1>1, <1>4

(* What a loop ends with.                                                  *)
LoopEnd(g, B, b, s) == (CHOOSE f \in [0..Len(s) -> B] : Loops(f, g, b, s))[Len(s)]

Folds(g, A, B, b) ==
  /\ LoopEnd(g, B, b, <<>>) = b
  /\ \A s \in Seq(A) : LoopEnd(g, B, b, s) \in B
  /\ \A s \in Seq(A) : \E f \in [0..Len(s) -> B] : Loops(f, g, b, s) /\ f[Len(s)] = LoopEnd(g, B, b, s)
  /\ \A s \in Seq(A), x \in A : LoopEnd(g, B, b, Append(s, x)) = g[<<LoopEnd(g, B, b, s), x>>]

LEMMA FoldsExist ==
  ASSUME NEW A, NEW B, NEW g \in [B \X A -> B], NEW b \in B
  PROVE  Folds(g, A, B, b)
<1>1. ASSUME NEW s \in Seq(A)
      PROVE  \E f \in [0..Len(s) -> B] : Loops(f, g, b, s) /\ f[Len(s)] = LoopEnd(g, B, b, s)
  <2> DEFINE f == CHOOSE f \in [0..Len(s) -> B] : Loops(f, g, b, s)
  <2>1. f \in [0..Len(s) -> B] /\ Loops(f, g, b, s)
    BY LoopRuns
  <2> QED
    BY <2>1 DEF LoopEnd
<1>2. ASSUME NEW s \in Seq(A)
      PROVE  LoopEnd(g, B, b, s) \in B
  <2>1. PICK f \in [0..Len(s) -> B] : Loops(f, g, b, s) /\ f[Len(s)] = LoopEnd(g, B, b, s)
    BY <1>1
  <2>2. Len(s) \in 0..Len(s)
    BY LenProperties
  <2> QED
    BY <2>1, <2>2
<1>3. LoopEnd(g, B, b, <<>>) = b
  <2>1. <<>> \in Seq(A) /\ Len(<<>>) = 0
    BY EmptySeq
  <2>2. PICK f \in [0..Len(<<>>) -> B] : Loops(f, g, b, <<>>) /\ f[Len(<<>>)] = LoopEnd(g, B, b, <<>>)
    BY <1>1, <2>1
  <2> QED
    BY <2>1, <2>2 DEF Loops
<1>4. ASSUME NEW s \in Seq(A), NEW x \in A
      PROVE  LoopEnd(g, B, b, Append(s, x)) = g[<<LoopEnd(g, B, b, s), x>>]
  <2> DEFINE n == Len(s)
             long == Append(s, x)
  <2>1. /\ long \in Seq(A) /\ Len(long) = n + 1 /\ n \in Nat
        /\ \A i \in 1..n : long[i] = s[i]
        /\ long[n + 1] = x
    BY AppendProperties, LenProperties
  <2> HIDE DEF long
  <2>2. PICK f \in [0..Len(long) -> B] : Loops(f, g, b, long) /\ f[Len(long)] = LoopEnd(g, B, b, long)
    BY <1>1, <2>1
  <2>3. PICK h \in [0..n -> B] : Loops(h, g, b, s) /\ h[n] = LoopEnd(g, B, b, s)
    BY <1>1
  <2>4. Loops(f, g, b, s)
    <3>1. \A i \in 1..n : i \in 1..Len(long)
      BY <2>1
    <3> QED
      BY <2>1, <2>2, <3>1 DEF Loops
  <2>5. f[n] = h[n]
    BY <2>3, <2>4, LoopIsOne
  <2>6. n + 1 \in 1..Len(long) /\ (n + 1) - 1 = n
    BY <2>1
  <2>7. f[n + 1] = g[<<f[n], x>>]
    BY <2>1, <2>2, <2>6 DEF Loops
  <2>8. LoopEnd(g, B, b, long) = g[<<LoopEnd(g, B, b, s), x>>]
    BY <2>1, <2>2, <2>3, <2>5, <2>7
  <2> QED
    BY <2>8 DEF long
<1> QED
  BY <1>1, <1>2, <1>3, <1>4 DEF Folds

(* Filters                                                                 *)
LEMMA OnlyOnly ==
  ASSUME NEW A, NEW T, NEW U, U \subseteq T, NEW s \in Seq(A)
  PROVE  Only(Only(s, T), U) = Only(s, U)
<1> DEFINE K == {t \in Seq(A) : Only(Only(t, T), U) = Only(t, U)}
<1>1. Selects(A, T) /\ Selects(A, U)
  BY OnlyIs
<1>2. <<>> \in K
  BY <1>1, EmptySeq DEF Selects
<1>3. ASSUME NEW t \in Seq(A), NEW x \in A, t \in K
      PROVE  Append(t, x) \in K
  <2>1. Append(t, x) \in Seq(A) /\ Only(t, T) \in Seq(A)
    BY <1>1, AppendProperties DEF Selects
  <2>2. Only(Append(t, x), U) = IF x \in U THEN Append(Only(t, U), x) ELSE Only(t, U)
    BY <1>1 DEF Selects
  <2>3. CASE x \in T
    <3>1. Only(Append(t, x), T) = Append(Only(t, T), x)
      BY <1>1, <2>3 DEF Selects
    <3>2. Only(Append(Only(t, T), x), U) = IF x \in U THEN Append(Only(t, U), x) ELSE Only(t, U)
      BY <1>1, <1>3, <2>1 DEF Selects
    <3> QED
      BY <2>1, <2>2, <3>1, <3>2
  <2>4. CASE x \notin T
    <3>1. Only(Append(t, x), T) = Only(t, T)
      BY <1>1, <2>4 DEF Selects
    <3>2. x \notin U
      BY <2>4
    <3> QED
      BY <1>3, <2>1, <2>2, <3>1, <3>2
  <2> QED
    BY <2>3, <2>4
<1>4. Seq(A) \subseteq K
  <2> HIDE DEF K
  <2> QED
    BY <1>2, <1>3, SeqSetInduction
<1> QED
  BY <1>4

LEMMA OnlySame ==
  ASSUME NEW A, NEW T, NEW U, \A x \in A : x \in T <=> x \in U, NEW s \in Seq(A)
  PROVE  Only(s, T) = Only(s, U)
<1>1. \A k \in DOMAIN s : s[k] \in A
  BY LenProperties, ElementOfSeq
<1>2. [k \in DOMAIN s |-> IF s[k] \in T THEN <<s[k]>> ELSE <<>>]
        = [k \in DOMAIN s |-> IF s[k] \in U THEN <<s[k]>> ELSE <<>>]
  BY <1>1
<1> QED
  BY <1>2 DEF Only

LEMMA OnlyNone ==
  ASSUME NEW A, NEW T, NEW s \in Seq(A), \A i \in 1..Len(s) : s[i] \notin T
  PROVE  Only(s, T) = <<>>
<1> DEFINE K == {t \in Seq(A) : (\A i \in 1..Len(t) : t[i] \notin T) => Only(t, T) = <<>>}
<1>1. Selects(A, T)
  BY OnlyIs
<1>2. <<>> \in K
  BY <1>1, EmptySeq DEF Selects
<1>3. ASSUME NEW t \in Seq(A), NEW x \in A, t \in K
      PROVE  Append(t, x) \in K
  <2> DEFINE long == Append(t, x)
  <2>1. /\ long \in Seq(A) /\ Len(long) = Len(t) + 1 /\ Len(t) \in Nat
        /\ \A i \in 1..Len(t) : long[i] = t[i]
        /\ long[Len(t) + 1] = x
    BY AppendProperties, LenProperties
  <2>2. Only(long, T) = IF x \in T THEN Append(Only(t, T), x) ELSE Only(t, T)
    BY <1>1 DEF Selects
  <2> HIDE DEF long
  <2>3. ASSUME \A i \in 1..Len(long) : long[i] \notin T
        PROVE  Only(long, T) = <<>>
    <3>1. x \notin T /\ \A i \in 1..Len(t) : t[i] \notin T
      BY <2>1, <2>3
    <3> QED
      BY <1>3, <2>2, <3>1
  <2> QED
    BY <2>1, <2>3 DEF long
<1>4. Seq(A) \subseteq K
  <2> HIDE DEF K
  <2> QED
    BY <1>2, <1>3, SeqSetInduction
<1> QED
  BY <1>4

(* Without the first of T.                                                 *)
PlacesOf(s, T) == {i \in DOMAIN s : s[i] \in T}

LEMMA FirstPlaceIs ==
  ASSUME NEW A, NEW s \in Seq(A), NEW T, PlacesOf(s, T) # {}
  PROVE  LET i == Min(PlacesOf(s, T)) IN
         /\ i \in 1..Len(s) /\ s[i] \in T /\ s[i] \in A
         /\ RemoveAt(s, i) \in Seq(A)
         /\ Only(s, T) = <<s[i]>> \o Only(RemoveAt(s, i), T)
         /\ \A U : s[i] \notin U => Only(RemoveAt(s, i), U) = Only(s, U)
<1> DEFINE S == PlacesOf(s, T)
           i == Min(S)
           p == SubSeq(s, 1, i - 1)
           q == SubSeq(s, i + 1, Len(s))
           x == s[i]
<1>1. Len(s) \in Nat /\ DOMAIN s = 1..Len(s) /\ \A k \in 1..Len(s) : s[k] \in A
  BY LenProperties, ElementOfSeq
<1>2. i \in S /\ \A y \in S : i <= y
  <2>1. S \subseteq Nat
    BY <1>1 DEF PlacesOf
  <2> HIDE DEF S
  <2>2. \E z \in S : \A y \in S : z <= y
    <3>1. S # {}
      BY DEF S
    <3> QED
      BY <2>1, <3>1, LeastExists
  <2>3. i = CHOOSE z \in S : \A y \in S : z <= y
    BY DEF Min
  <2> QED
    BY <2>2, <2>3
<1>3. i \in 1..Len(s) /\ x \in T /\ x \in A
  BY <1>1, <1>2 DEF PlacesOf
<1>4. \A k \in 1..(i - 1) : s[k] \notin T
  <2> SUFFICES ASSUME NEW k \in 1..(i - 1), s[k] \in T PROVE FALSE
    OBVIOUS
  <2> HIDE DEF i, S
  <2>1. k \in 1..Len(s) /\ k < i /\ ~(i <= k)
    BY <1>1, <1>3
  <2>2. k \in S
    BY <1>1, <2>1 DEF S, PlacesOf
  <2> QED
    BY <1>2, <2>1, <2>2
<1> HIDE DEF i, S
<1>5. p \in Seq(A) /\ Len(p) = i - 1 /\ \A k \in 1..(i - 1) : p[k] = s[k]
  <2>1. \A k \in 1..(i - 1) : s[k] \in A
    BY <1>1, <1>3
  <2>2. 1 \in Int /\ i - 1 \in Int /\ i - 1 \in Nat
    BY <1>1, <1>3
  <2>3. p \in Seq(A)
    BY <2>1, <2>2, SubSeqProperties
  <2> QED
    BY <1>1, <1>3, <2>2, <2>3, SubSeqProperties
<1>6. q \in Seq(A)
  <2>1. \A k \in (i + 1)..Len(s) : s[k] \in A
    BY <1>1, <1>3
  <2>2. i + 1 \in Int /\ Len(s) \in Int
    BY <1>1, <1>3
  <2> QED
    BY <2>1, <2>2, SubSeqProperties
<1>7. s = (p \o <<x>>) \o q
  <2>1. SubSeq(s, 1, i - 1) \o SubSeq(s, i, Len(s)) = SubSeq(s, 1, Len(s))
    <3>1. 1 \in 1..Len(s) + 1 /\ i - 1 \in 1 - 1..Len(s) /\ Len(s) \in i - 1..Len(s)
      BY <1>1, <1>3
    <3>2. (i - 1) + 1 = i
      BY <1>1, <1>3
    <3>3. SubSeq(s, 1, i - 1) \o SubSeq(s, (i - 1) + 1, Len(s)) = SubSeq(s, 1, Len(s))
      BY <3>1, ConcatAdjacentSubSeq
    <3> QED
      BY <3>2, <3>3
  <2>2. SubSeq(s, i, i) \o SubSeq(s, i + 1, Len(s)) = SubSeq(s, i, Len(s))
    <3>1. i \in 1..Len(s) + 1 /\ i \in i - 1..Len(s) /\ Len(s) \in i..Len(s)
      BY <1>1, <1>3
    <3> QED
      BY <3>1, ConcatAdjacentSubSeq
  <2>3. SubSeq(s, i, i) = <<x>>
    <3> DEFINE r == SubSeq(s, i, i)
    <3>1. i \in Int /\ i + 1 - 1 = i /\ i - i + 1 = 1 /\ i <= i /\ \A k \in i..i : s[k] \in A
      BY <1>1, <1>3
    <3>2. r \in Seq(A) /\ Len(r) = 1 /\ r[1] = x
      BY <3>1, SubSeqProperties
    <3> HIDE DEF r
    <3>3. r = <<x>>
      BY <1>3, <3>2
    <3> QED
      BY <3>3 DEF r
  <2>4. SubSeq(s, 1, Len(s)) = s
    BY SubSeqFull
  <2>5. <<x>> \in Seq(A)
    BY <1>3
  <2>6. Chains(p, <<x>>, q)
    BY <1>5, <1>6, <2>5, CatChains
  <2> HIDE DEF p, q, x
  <2>7. SubSeq(s, 1, i - 1) = p /\ SubSeq(s, i + 1, Len(s)) = q
    BY DEF p, q
  <2>8. p \o (<<x>> \o q) = s
    BY <2>1, <2>2, <2>3, <2>4, <2>7
  <2> QED
    BY <2>6, <2>8 DEF Chains
<1>8. RemoveAt(s, i) = p \o q /\ p \o q \in Seq(A) /\ <<x>> \in Seq(A) /\ p \o <<x>> \in Seq(A)
  BY <1>3, <1>5, <1>6, CatFacts DEF RemoveAt
<1> HIDE DEF p, q, x
<1>9. \A U : /\ Only(s, U) = Only(p, U) \o Only(<<x>>, U) \o Only(q, U)
             /\ Only(p \o q, U) = Only(p, U) \o Only(q, U)
             /\ Only(<<x>>, U) = IF x \in U THEN <<x>> ELSE <<>>
             /\ Only(p, U) \in Seq(A) /\ Only(q, U) \in Seq(A)
  <2> TAKE U
  <2>1. Selects(A, U)
    BY OnlyIs
  <2>2. Only(s, U) = Only(p \o <<x>>, U) \o Only(q, U)
    BY <1>6, <1>7, <1>8, <2>1 DEF Selects
  <2>3. Only(p \o <<x>>, U) = Only(p, U) \o Only(<<x>>, U)
    BY <1>5, <1>8, <2>1 DEF Selects
  <2>4. Only(<<x>>, U) = IF x \in U THEN <<x>> ELSE <<>>
    <3>1. <<x>> = Append(<<>>, x) /\ <<>> \in Seq(A)
      BY <1>3 DEF x
    <3>2. Only(Append(<<>>, x), U) = IF x \in U THEN Append(<<>>, x) ELSE <<>>
      BY <1>3, <2>1, <3>1 DEF Selects
    <3> QED
      BY <3>1, <3>2
  <2> QED
    BY <1>5, <1>6, <2>1, <2>2, <2>3, <2>4 DEF Selects
<1>10. Only(p, T) = <<>>
  <2>1. \A k \in 1..Len(p) : p[k] \notin T
    BY <1>4, <1>5
  <2> QED
    BY <1>5, <2>1, OnlyNone
<1>11. Only(s, T) = <<x>> \o Only(RemoveAt(s, i), T)
  <2>1. Only(s, T) = <<>> \o <<x>> \o Only(q, T) /\ Only(p \o q, T) = <<>> \o Only(q, T) /\ Only(q, T) \in Seq(A)
    BY <1>3, <1>9, <1>10
  <2>2. <<>> \o <<x>> = <<x>> /\ <<>> \o Only(q, T) = Only(q, T)
    BY <1>8, <2>1, CatFacts
  <2> QED
    BY <1>8, <2>1, <2>2
<1>12. ASSUME NEW U, x \notin U
       PROVE  Only(RemoveAt(s, i), U) = Only(s, U)
  <2>1. Only(s, U) = Only(p, U) \o <<>> \o Only(q, U) /\ Only(p \o q, U) = Only(p, U) \o Only(q, U)
        /\ Only(p, U) \in Seq(A)
    BY <1>9, <1>12
  <2>2. Only(p, U) \o <<>> = Only(p, U)
    BY <2>1, CatFacts
  <2> QED
    BY <1>8, <2>1, <2>2
<1> QED
  BY <1>3, <1>8, <1>11, <1>12 DEF i, S, x

(* _merge_arguments, as a loop over the refused calls r with the blocks b. *)
Merging == [left : Seq(Written), calls : Seq(Written)]
NoneMerged(b) == [left |-> b, calls |-> <<>>]
MergeStep == [p \in Merging \X Written |-> Merged(p[1], p[2])]
Done(r, b) ==
  LET done[k \in 0..Len(r)] == IF k = 0 THEN [left |-> b, calls |-> <<>>] ELSE Merged(done[k - 1], r[k])
  IN  done[Len(r)]

LEMMA MergedIs ==
  ASSUME NEW acc \in Merging, NEW x \in Written
  PROVE  LET S == PlacesOf(acc.left, Named(x.name)) IN
         /\ Merged(acc, x) \in Merging
         /\ x.args # 0 \/ S = {} =>
              Merged(acc, x).left = acc.left /\ Merged(acc, x).calls = Append(acc.calls, x)
         /\ x.args = 0 /\ S # {} =>
              /\ Merged(acc, x).left = RemoveAt(acc.left, Min(S))
              /\ Merged(acc, x).calls = Append(acc.calls, acc.left[Min(S)])
<1> DEFINE S == PlacesOf(acc.left, Named(x.name))
<1>1. acc.left \in Seq(Written) /\ acc.calls \in Seq(Written) /\ acc = [left |-> acc.left, calls |-> acc.calls]
  BY DEF Merging
<1>2. S = {i \in DOMAIN acc.left : acc.left[i].name = x.name}
  <2>1. \A i \in DOMAIN acc.left : acc.left[i] \in Written
    BY <1>1, LenProperties, ElementOfSeq
  <2> QED
    BY <2>1 DEF PlacesOf, Named
<1>3. CASE x.args # 0 \/ S = {}
  <2>1. Merged(acc, x) = [acc EXCEPT !.calls = Append(acc.calls, x)]
    BY <1>2, <1>3 DEF Merged
  <2>2. Merged(acc, x) = [left |-> acc.left, calls |-> Append(acc.calls, x)]
    BY <1>1, <2>1
  <2>3. Append(acc.calls, x) \in Seq(Written)
    BY <1>1, AppendProperties
  <2> QED
    BY <1>1, <1>3, <2>2, <2>3 DEF Merging
<1>4. CASE x.args = 0 /\ S # {}
  <2> DEFINE y == acc.left[Min(S)]
             rest == RemoveAt(acc.left, Min(S))
  <2>1. Merged(acc, x) = [left |-> rest, calls |-> Append(acc.calls, y)]
    BY <1>2, <1>4 DEF Merged
  <2>2. y \in Written /\ rest \in Seq(Written)
    BY <1>1, <1>4, FirstPlaceIs
  <2> HIDE DEF y, rest
  <2>3. Append(acc.calls, y) \in Seq(Written)
    BY <1>1, <2>2, AppendProperties
  <2>4. Merged(acc, x).left = rest /\ Merged(acc, x).calls = Append(acc.calls, y)
    BY <2>1
  <2> QED
    BY <1>4, <2>1, <2>2, <2>3, <2>4 DEF Merging, y, rest
<1> QED
  BY <1>3, <1>4 DEF S

LEMMA DoneIs ==
  ASSUME NEW b \in Seq(Written)
  PROVE  /\ Done(<<>>, b) = NoneMerged(b)
         /\ \A r \in Seq(Written) : Done(r, b) \in Merging
         /\ \A r \in Seq(Written), x \in Written : Done(Append(r, x), b) = Merged(Done(r, b), x)
<1> DEFINE a == NoneMerged(b)
           g == MergeStep
<1>1. a \in Merging /\ g \in [Merging \X Written -> Merging]
  <2>1. \A p \in Merging \X Written : p[1] \in Merging /\ p[2] \in Written
    OBVIOUS
  <2>2. \A p \in Merging \X Written : Merged(p[1], p[2]) \in Merging
    BY <2>1, MergedIs
  <2>3. g \in [Merging \X Written -> Merging]
    BY <2>2 DEF MergeStep
  <2> QED
    BY <2>3, EmptySeq DEF Merging, NoneMerged
<1>2. \A acc \in Merging, x \in Written : g[<<acc, x>>] = Merged(acc, x)
  <2> SUFFICES ASSUME NEW acc \in Merging, NEW x \in Written PROVE g[<<acc, x>>] = Merged(acc, x)
    OBVIOUS
  <2>1. <<acc, x>> \in Merging \X Written /\ <<acc, x>>[1] = acc /\ <<acc, x>>[2] = x
    OBVIOUS
  <2> QED
    BY <2>1 DEF MergeStep
<1> HIDE DEF g
<1>3. Folds(g, Written, Merging, a)
  BY <1>1, FoldsExist
<1>4. ASSUME NEW r \in Seq(Written)
      PROVE  Done(r, b) = LoopEnd(g, Merging, a, r)
  <2> DEFINE n == Len(r)
             Is(h) == h = [i \in 0..n |-> IF i = 0 THEN a ELSE Merged(h[i - 1], r[i])]
             chosen == CHOOSE h : Is(h)
  <2>1. n \in Nat /\ \A i \in 1..n : r[i] \in Written
    BY LenProperties, ElementOfSeq
  <2>2. PICK f \in [0..n -> Merging] : Loops(f, g, a, r) /\ f[n] = LoopEnd(g, Merging, a, r)
    BY <1>3 DEF Folds
  <2>3. ASSUME NEW i \in 1..n
        PROVE  f[i] = Merged(f[i - 1], r[i])
    <3>1. i - 1 \in 0..n
      BY <2>1
    <3>2. f[i - 1] \in Merging /\ f[i] = g[<<f[i - 1], r[i]>>]
      BY <2>2, <3>1 DEF Loops
    <3> QED
      BY <1>2, <2>1, <3>2
  <2>4. Is(f)
    <3>1. \A i \in 0..n : i = 0 \/ i \in 1..n
      OBVIOUS
    <3>2. \A i \in 0..n : f[i] = IF i = 0 THEN a ELSE Merged(f[i - 1], r[i])
      BY <2>2, <2>3, <3>1 DEF Loops
    <3> QED
      BY <2>2, <3>2
  <2>5. Is(chosen)
    BY <2>4
  <2>6. Done(r, b) = chosen[n]
    BY DEF Done, NoneMerged
  <2> HIDE DEF chosen
  <2>7. chosen[0] = f[0]
    <3>1. 0 \in 0..n
      BY <2>1
    <3> QED
      BY <2>4, <2>5, <3>1
  <2>8. ASSUME NEW i \in 1..n, chosen[i - 1] = f[i - 1]
        PROVE  chosen[i] = f[i]
    <3>1. i \in 0..n /\ i # 0
      OBVIOUS
    <3>2. chosen[i] = Merged(chosen[i - 1], r[i])
      BY <2>5, <3>1
    <3> QED
      BY <2>3, <2>8, <3>2
  <2>9. \A i \in 0..n : chosen[i] = f[i]
    <3> HIDE DEF Is
    <3> QED
      BY <2>1, <2>7, <2>8, StepByStep
  <2> QED
    BY <2>1, <2>2, <2>6, <2>9
<1>5. Done(<<>>, b) = a
  BY <1>3, <1>4, EmptySeq DEF Folds
<1>6. \A r \in Seq(Written) : Done(r, b) \in Merging
  BY <1>3, <1>4 DEF Folds
<1>7. ASSUME NEW r \in Seq(Written), NEW x \in Written
      PROVE  Done(Append(r, x), b) = Merged(Done(r, b), x)
  <2>1. Append(r, x) \in Seq(Written)
    BY AppendProperties
  <2>2. Done(Append(r, x), b) = g[<<Done(r, b), x>>]
    BY <1>3, <1>4, <2>1 DEF Folds
  <2> QED
    BY <1>2, <1>6, <2>2
<1> QED
  BY <1>5, <1>6, <1>7 DEF a

(* What is left of the blocks of a name: those behind as many as were      *)
(* asked for.  And what the calls have come to.                            *)
OwnCall(r, k, b) == [name |-> r[k].name, args |-> OwnArgs(r, k, b)]
Paired(calls, r, b) == Len(calls) = Len(r) /\ \A k \in 1..Len(r) : calls[k] = OwnCall(r, k, b)
Behind(s, n) == SubSeq(s, n + 1, Len(s))
IsLeft(left, r, b) ==
  \A name \in Name : Only(left, Named(name)) = Behind(Only(b, Named(name)), Len(Only(r, Bare(name))))

LEMMA BehindIs ==
  ASSUME NEW A, NEW s \in Seq(A), NEW n \in Nat
  PROVE  /\ Behind(s, 0) = s
         /\ Behind(s, n) = <<>> <=> n + 1 \notin DOMAIN s
         /\ \A x, t : t \in Seq(A) /\ x \in A /\ Behind(s, n) = <<x>> \o t => x = s[n + 1] /\ t = Behind(s, n + 1)
<1>1. Len(s) \in Nat /\ DOMAIN s = 1..Len(s) /\ \A k \in 1..Len(s) : s[k] \in A
  BY LenProperties, ElementOfSeq
<1>2. Behind(s, 0) = s
  BY SubSeqFull DEF Behind
<1>3. ASSUME NEW m \in Nat
      PROVE  /\ Behind(s, m) \in Seq(A)
             /\ Len(Behind(s, m)) = IF m + 1 <= Len(s) THEN Len(s) - m ELSE 0
             /\ \A k \in 1..(Len(s) - m) : Behind(s, m)[k] = s[m + k]
  <2>1. m + 1 \in Int /\ Len(s) \in Int /\ \A k \in (m + 1)..Len(s) : s[k] \in A
    BY <1>1
  <2>2. Len(s) - (m + 1) + 1 = Len(s) - m /\ \A k \in 1..(Len(s) - m) : (m + 1) + k - 1 = m + k
    BY <1>1
  <2> QED
    BY <2>1, <2>2, SubSeqProperties DEF Behind
<1> DEFINE t1 == Behind(s, n)
           t2 == Behind(s, n + 1)
<1>4. /\ t1 \in Seq(A) /\ Len(t1) = IF n + 1 <= Len(s) THEN Len(s) - n ELSE 0
      /\ \A k \in 1..(Len(s) - n) : t1[k] = s[n + k]
  BY <1>3
<1>5. /\ t2 \in Seq(A) /\ Len(t2) = IF n + 2 <= Len(s) THEN Len(s) - (n + 1) ELSE 0
      /\ \A k \in 1..(Len(s) - (n + 1)) : t2[k] = s[(n + 1) + k]
  <2>1. n + 1 \in Nat /\ (n + 1) + 1 = n + 2
    OBVIOUS
  <2> QED
    BY <1>3, <2>1
<1> DEFINE m == Len(s)
<1> HIDE DEF t1, t2
<1>6. t1 = <<>> <=> n + 1 \notin DOMAIN s
  <2>1. t1 = <<>> <=> Len(t1) = 0
    BY <1>4, EmptySeq
  <2>2. m \in Nat /\ DOMAIN s = 1..m /\ Len(t1) = IF n + 1 <= m THEN m - n ELSE 0
    BY <1>1, <1>4
  <2> HIDE DEF m
  <2>3. n + 1 <= m <=> n + 1 \in DOMAIN s
    BY <2>2
  <2>4. n + 1 <= m => m - n # 0
    BY <2>2
  <2> QED
    BY <2>1, <2>2, <2>3, <2>4
<1>7. ASSUME NEW x \in A, NEW t \in Seq(A), t1 = <<x>> \o t
      PROVE  x = s[n + 1] /\ t = t2
  <2>1. Len(t) \in Nat /\ Len(t1) = Len(t) + 1 /\ t1[1] = x /\ \A k \in 1..Len(t) : t1[k + 1] = t[k]
    <3> DEFINE one == <<x>>
    <3>1. one \in Seq(A) /\ Len(one) = 1 /\ one[1] = x /\ Len(t) \in Nat
      BY LenProperties
    <3> HIDE DEF one
    <3>2. /\ Len(one \o t) = Len(one) + Len(t)
          /\ \A k \in 1..(Len(one) + Len(t)) : (one \o t)[k] = IF k <= Len(one) THEN one[k] ELSE t[k - Len(one)]
      BY <3>1, ConcatProperties
    <3>3. 1 \in 1..(1 + Len(t)) /\ \A k \in 1..Len(t) : k + 1 \in 1..(1 + Len(t)) /\ ~(k + 1 <= 1) /\ (k + 1) - 1 = k
      BY <3>1
    <3>4. t1 = one \o t
      BY <1>7 DEF one
    <3> QED
      BY <3>1, <3>2, <3>3, <3>4
  <2>2. n + 1 <= Len(s) /\ Len(t) = Len(s) - (n + 1)
    <3>1. m \in Nat /\ Len(t1) = IF n + 1 <= m THEN m - n ELSE 0
      BY <1>1, <1>4
    <3> HIDE DEF m
    <3>2. n + 1 <= m /\ Len(t) = m - (n + 1)
      BY <2>1, <3>1
    <3> QED
      BY <3>2 DEF m
  <2>3. x = s[n + 1]
    <3>1. 1 \in 1..(Len(s) - n) /\ n + 1 = n + 1
      BY <1>1, <2>2
    <3> QED
      BY <1>4, <2>1, <3>1
  <2>4. Len(t2) = Len(t)
    <3>1. m \in Nat /\ Len(t2) = (IF n + 2 <= m THEN m - (n + 1) ELSE 0) /\ n + 1 <= m /\ Len(t) = m - (n + 1)
      BY <1>1, <1>5, <2>2
    <3> HIDE DEF m
    <3> QED
      BY <3>1
  <2>5. ASSUME NEW k \in 1..Len(t)
        PROVE  t[k] = t2[k]
    <3>1. k + 1 \in 1..(Len(s) - n) /\ k \in 1..(Len(s) - (n + 1)) /\ n + (k + 1) = (n + 1) + k
      BY <1>1, <2>1, <2>2
    <3>2. t1[k + 1] = s[(n + 1) + k] /\ t2[k] = s[(n + 1) + k]
      BY <1>4, <1>5, <3>1
    <3> QED
      BY <2>1, <3>2
  <2>6. t = t2
    BY <1>5, <2>4, <2>5, SeqEqual
  <2> QED
    BY <2>3, <2>6
<1> QED
  BY <1>2, <1>6, <1>7 DEF t1, t2

LEMMA OwnCallIs ==
  ASSUME NEW r \in Seq(Written), NEW x \in Written, NEW b \in Seq(Written)
  PROVE  LET long  == Append(r, x)
             found == Only(b, Named(x.name))
             place == Len(Only(long, Bare(x.name)))
         IN
         /\ \A k \in 1..Len(r) : OwnCall(long, k, b) = OwnCall(r, k, b)
         /\ OwnCall(long, Len(r) + 1, b) =
              [name |-> x.name,
               args |-> IF x.args # 0 THEN x.args ELSE IF place \in DOMAIN found THEN found[place].args ELSE 0]
<1> DEFINE n == Len(r)
           long == Append(r, x)
<1>1. /\ long \in Seq(Written) /\ Len(long) = n + 1 /\ n \in Nat
      /\ \A i \in 1..n : long[i] = r[i]
      /\ long[n + 1] = x
  BY AppendProperties, LenProperties
<1>2. \A i \in 1..n : r[i] \in Written
  BY ElementOfSeq, LenProperties
<1> HIDE DEF long
<1>3. ASSUME NEW k \in 1..n
      PROVE  OwnCall(long, k, b) = OwnCall(r, k, b)
  <2> DEFINE p == SubSeq(long, 1, k)
             q == SubSeq(r, 1, k)
  <2>1. 1 \in Int /\ k \in Int /\ k \in Nat /\ k - 1 + 1 = k
        /\ \A i \in 1..k : i \in 1..n /\ 1 + i - 1 = i /\ r[i] \in Written /\ long[i] \in Written
    BY <1>1, <1>2
  <2>2. p \in Seq(Written) /\ Len(p) = k /\ \A i \in 1..k : p[i] = long[i]
    BY <2>1, SubSeqProperties
  <2>3. q \in Seq(Written) /\ Len(q) = k /\ \A i \in 1..k : q[i] = r[i]
    BY <2>1, SubSeqProperties
  <2> HIDE DEF p, q
  <2>4. \A i \in 1..k : p[i] = q[i]
    BY <1>1, <2>1, <2>2, <2>3
  <2>5. p = q
    BY <2>2, <2>3, <2>4, SeqEqual
  <2>6. long[k] = r[k]
    BY <1>1
  <2> QED
    BY <2>5, <2>6 DEF OwnCall, OwnArgs, p, q
<1>4. SubSeq(long, 1, n + 1) = long
  BY <1>1, SubSeqFull
<1>5. OwnCall(long, n + 1, b) =
        [name |-> x.name,
         args |-> IF x.args # 0 THEN x.args
                  ELSE IF Len(Only(long, Bare(x.name))) \in DOMAIN Only(b, Named(x.name))
                       THEN Only(b, Named(x.name))[Len(Only(long, Bare(x.name)))].args ELSE 0]
  BY <1>1, <1>4 DEF OwnCall, OwnArgs
<1> QED
  BY <1>3, <1>5 DEF long

LEMMA PairsGrow ==
  ASSUME NEW c \in Seq(Written), NEW r \in Seq(Written), NEW x \in Written, NEW y \in Written,
         NEW b \in Seq(Written)
  PROVE  Paired(Append(c, y), Append(r, x), b)
           <=> Paired(c, r, b) /\ y = OwnCall(Append(r, x), Len(r) + 1, b)
<1> DEFINE n == Len(r)
           long == Append(r, x)
           lc == Append(c, y)
           w == OwnCall(long, n + 1, b)
<1>1. /\ Len(long) = n + 1 /\ n \in Nat /\ Len(lc) = Len(c) + 1 /\ Len(c) \in Nat
      /\ \A i \in 1..Len(c) : lc[i] = c[i]
      /\ lc[Len(c) + 1] = y
  BY AppendProperties, LenProperties
<1>2. \A k \in 1..n : OwnCall(long, k, b) = OwnCall(r, k, b)
  BY OwnCallIs
<1> HIDE DEF long, lc, w
<1>3. ASSUME Paired(lc, long, b)
      PROVE  Paired(c, r, b) /\ y = w
  <2>1. Len(c) = n
    BY <1>1, <1>3 DEF Paired
  <2>2. \A k \in 1..n : k \in 1..(n + 1)
    BY <1>1
  <2>3. \A k \in 1..n : c[k] = OwnCall(r, k, b)
    BY <1>1, <1>2, <1>3, <2>1, <2>2 DEF Paired
  <2>4. n + 1 \in 1..Len(long)
    BY <1>1
  <2>5. y = w
    <3>1. lc[n + 1] = OwnCall(long, n + 1, b)
      BY <1>3, <2>4 DEF Paired
    <3>2. lc[n + 1] = y
      BY <1>1, <2>1
    <3> QED
      BY <3>1, <3>2 DEF w
  <2> QED
    BY <2>1, <2>3, <2>5 DEF Paired
<1>4. ASSUME Paired(c, r, b), y = w
      PROVE  Paired(lc, long, b)
  <2>1. Len(c) = n /\ Len(lc) = Len(long)
    BY <1>1, <1>4 DEF Paired
  <2>2. ASSUME NEW k \in 1..Len(long)
        PROVE  lc[k] = OwnCall(long, k, b)
    <3>1. k \in 1..n \/ k = n + 1
      BY <1>1
    <3>2. CASE k \in 1..n
      BY <1>1, <1>2, <1>4, <2>1, <3>2 DEF Paired
    <3>3. CASE k = n + 1
      <4>1. lc[k] = y
        BY <1>1, <2>1, <3>3
      <4>2. w = OwnCall(long, k, b)
        BY <3>3 DEF w
      <4> QED
        BY <1>4, <4>1, <4>2
    <3> QED
      BY <3>1, <3>2, <3>3
  <2> QED
    BY <2>1, <2>2 DEF Paired
<1>5. Paired(lc, long, b) <=> Paired(c, r, b) /\ y = w
  BY <1>3, <1>4
<1> QED
  BY <1>5 DEF lc, long, w

(* Each bare call has the block that is its turn.                          *)
LEMMA DonePairs ==
  ASSUME NEW b \in Seq(Written)
  PROVE  \A r \in Seq(Written) : Paired(Done(r, b).calls, r, b) /\ IsLeft(Done(r, b).left, r, b)
<1> DEFINE T == {r \in Seq(Written) : Paired(Done(r, b).calls, r, b) /\ IsLeft(Done(r, b).left, r, b)}
           Found(name) == Only(b, Named(name))
<1>1. \A U : Selects(Written, U)
  BY OnlyIs
<1>2. \A name : Found(name) \in Seq(Written)
  BY <1>1 DEF Selects
<1>3. <<>> \in T
  <2>1. Done(<<>>, b).calls = <<>> /\ Done(<<>>, b).left = b
    BY DoneIs DEF NoneMerged
  <2>2. \A U : Only(<<>>, U) = <<>>
    BY <1>1 DEF Selects
  <2>3. \A name : Found(name) = Behind(Found(name), 0)
    BY <1>2, BehindIs
  <2>4. Len(<<>>) = 0 /\ <<>> \in Seq(Written) /\ 1..0 = {}
    BY EmptySeq
  <2>5. Paired(<<>>, <<>>, b)
    BY <2>4 DEF Paired
  <2>6. IsLeft(b, <<>>, b)
    BY <2>2, <2>3, <2>4 DEF IsLeft
  <2> QED
    BY <2>1, <2>4, <2>5, <2>6
<1>4. ASSUME NEW r \in Seq(Written), NEW x \in Written, r \in T
      PROVE  Append(r, x) \in T
  <2> DEFINE long == Append(r, x)
             acc == Done(r, b)
             next == Done(long, b)
             S == PlacesOf(acc.left, Named(x.name))
             found == Found(x.name)
             a == Len(Only(r, Bare(x.name)))
             own == IF x.args # 0 THEN x.args ELSE IF a + 1 \in DOMAIN found THEN found[a + 1].args ELSE 0
  <2>1. /\ acc \in Merging /\ acc.left \in Seq(Written) /\ acc.calls \in Seq(Written)
        /\ long \in Seq(Written) /\ next = Merged(acc, x)
    BY DoneIs, AppendProperties DEF Merging
  <2>2. Paired(acc.calls, r, b) /\ IsLeft(acc.left, r, b)
    BY <1>4
  <2>3. x.name \in Name /\ x.args \in Nat /\ a \in Nat /\ x = [name |-> x.name, args |-> x.args]
    <3>1. Only(r, Bare(x.name)) \in Seq(Written)
      BY <1>1 DEF Selects
    <3> QED
      BY <3>1, LenProperties DEF Written
  <2>4. ASSUME NEW name \in Name
        PROVE  Len(Only(long, Bare(name))) = IF x.args = 0 /\ x.name = name THEN a + 1 ELSE Len(Only(r, Bare(name)))
    <3>1. Only(long, Bare(name)) = IF x \in Bare(name) THEN Append(Only(r, Bare(name)), x) ELSE Only(r, Bare(name))
      BY <1>1 DEF Selects
    <3>2. x \in Bare(name) <=> x.args = 0 /\ x.name = name
      BY DEF Bare, Named
    <3>3. Only(r, Bare(name)) \in Seq(Written)
      BY <1>1 DEF Selects
    <3>4. Len(Append(Only(r, Bare(name)), x)) = Len(Only(r, Bare(name))) + 1
      BY <3>3, AppendProperties
    <3> QED
      BY <3>1, <3>2, <3>4
  <2>5. OwnCall(long, Len(r) + 1, b) = [name |-> x.name, args |-> own]
    <3>1. x.args = 0 => Len(Only(long, Bare(x.name))) = a + 1
      BY <2>3, <2>4
    <3>2. OwnCall(long, Len(r) + 1, b) =
            [name |-> x.name,
             args |-> IF x.args # 0 THEN x.args
                      ELSE IF Len(Only(long, Bare(x.name))) \in DOMAIN found
                           THEN found[Len(Only(long, Bare(x.name)))].args ELSE 0]
      BY OwnCallIs
    <3> HIDE DEF a, long, found
    <3> QED
      BY <3>1, <3>2
  <2>6. Only(acc.left, Named(x.name)) = Behind(found, a) /\ found \in Seq(Written)
    BY <1>2, <2>2, <2>3 DEF IsLeft
  <2>7. \A y \in Written :
          next.calls = Append(acc.calls, y) /\ y = [name |-> x.name, args |-> own] => Paired(next.calls, long, b)
    BY <2>1, <2>2, <2>5, PairsGrow
  <2>8. CASE x.args # 0
    <3>1. next.left = acc.left /\ next.calls = Append(acc.calls, x)
      BY <2>1, <2>8, MergedIs
    <3>2. x = [name |-> x.name, args |-> own]
      BY <2>3, <2>8
    <3>3. Paired(next.calls, long, b)
      BY <2>7, <3>1, <3>2
    <3>4. IsLeft(next.left, long, b)
      BY <2>2, <2>4, <2>8, <3>1 DEF IsLeft
    <3> QED
      BY <2>1, <3>3, <3>4
  <2>9. CASE x.args = 0 /\ S = {}
    <3>1. next.left = acc.left /\ next.calls = Append(acc.calls, x)
      BY <2>1, <2>9, MergedIs
    <3>2. Only(acc.left, Named(x.name)) = <<>>
      <4>1. \A i \in 1..Len(acc.left) : acc.left[i] \notin Named(x.name)
        BY <2>1, <2>9, LenProperties DEF PlacesOf
      <4> QED
        BY <2>1, <4>1, OnlyNone
    <3>3. a + 1 \notin DOMAIN found
      BY <2>3, <2>6, <3>2, BehindIs
    <3>4. Behind(found, a + 1) = <<>>
      <4>1. DOMAIN found = 1..Len(found) /\ Len(found) \in Nat
        BY <2>6, LenProperties
      <4>2. a + 1 \in Nat /\ (a + 1) + 1 \notin DOMAIN found
        BY <2>3, <3>3, <4>1
      <4> QED
        BY <2>6, <4>2, BehindIs
    <3>5. x = [name |-> x.name, args |-> own]
      BY <2>3, <2>9, <3>3
    <3>6. Paired(next.calls, long, b)
      BY <2>7, <3>1, <3>5
    <3>7. IsLeft(next.left, long, b)
      <4>1. ASSUME NEW name \in Name
            PROVE  Only(next.left, Named(name)) = Behind(Found(name), Len(Only(long, Bare(name))))
        <5>1. CASE name = x.name
          <6>1. Len(Only(long, Bare(name))) = a + 1
            BY <2>4, <2>9, <5>1
          <6> QED
            BY <3>1, <3>2, <3>4, <5>1, <6>1
        <5>2. CASE name # x.name
          BY <2>2, <2>4, <3>1, <5>2 DEF IsLeft
        <5> QED
          BY <5>1, <5>2
      <4> QED
        BY <4>1 DEF IsLeft
    <3> QED
      BY <2>1, <3>6, <3>7
  <2>10. CASE x.args = 0 /\ S # {}
    <3> DEFINE y == acc.left[Min(S)]
               rest == RemoveAt(acc.left, Min(S))
    <3> HIDE DEF acc, next
    <3>1. next.left = rest /\ next.calls = Append(acc.calls, y)
      <4>1. Merged(acc, x).left = rest /\ Merged(acc, x).calls = Append(acc.calls, y)
        BY <2>1, <2>10, MergedIs
      <4> QED
        BY <2>1, <4>1
    <3>2. /\ y \in Named(x.name) /\ y \in Written /\ rest \in Seq(Written)
          /\ Only(acc.left, Named(x.name)) = <<y>> \o Only(rest, Named(x.name))
          /\ \A U : y \notin U => Only(rest, U) = Only(acc.left, U)
      <4> DEFINE i == Min(S)
                 t == acc.left
                 N == Named(x.name)
      <4>1. t \in Seq(Written) /\ S # {} /\ S = PlacesOf(t, N)
        BY <2>1, <2>10
      <4> HIDE DEF t, N, S
      <4>2. /\ t[i] \in N /\ t[i] \in Written /\ RemoveAt(t, i) \in Seq(Written)
            /\ Only(t, N) = <<t[i]>> \o Only(RemoveAt(t, i), N)
            /\ \A U : t[i] \notin U => Only(RemoveAt(t, i), U) = Only(t, U)
        BY <4>1, FirstPlaceIs
      <4> QED
        BY <4>2 DEF t, N
    <3> HIDE DEF y, rest, next, long, S, acc, found, a
    <3>3. Only(rest, Named(x.name)) \in Seq(Written)
      BY <1>1, <3>2 DEF Selects
    <3>4. Behind(found, a) = <<y>> \o Only(rest, Named(x.name))
      BY <2>6, <3>2
    <3>5. y = found[a + 1] /\ Only(rest, Named(x.name)) = Behind(found, a + 1)
      <4> DEFINE t == Only(rest, Named(x.name))
      <4>1. \A z, u : u \in Seq(Written) /\ z \in Written /\ Behind(found, a) = <<z>> \o u
                       => z = found[a + 1] /\ u = Behind(found, a + 1)
        BY <2>3, <2>6, BehindIs
      <4> HIDE DEF t
      <4>2. t \in Seq(Written) /\ y \in Written /\ Behind(found, a) = <<y>> \o t
        BY <3>2, <3>3, <3>4 DEF t
      <4>3. y = found[a + 1] /\ t = Behind(found, a + 1)
        BY <4>1, <4>2
      <4> QED
        BY <4>3 DEF t
    <3>6. a + 1 \in DOMAIN found
      <4>1. Behind(found, a) # <<>>
        <5>1. <<y>> \o Only(rest, Named(x.name)) # <<>>
          BY <3>2, <3>3
        <5> QED
          BY <3>4, <5>1
      <4> QED
        BY <2>3, <2>6, <4>1, BehindIs
    <3>7. y = [name |-> x.name, args |-> own]
      <4>1. y.name = x.name /\ y = [name |-> y.name, args |-> y.args]
        BY <3>2 DEF Named, Written
      <4>2. own = y.args
        BY <2>10, <3>5, <3>6
      <4> QED
        BY <4>1, <4>2
    <3>8. Paired(next.calls, long, b)
      BY <2>7, <3>1, <3>2, <3>7
    <3>9. IsLeft(next.left, long, b)
      <4>1. ASSUME NEW name \in Name
            PROVE  Only(next.left, Named(name)) = Behind(Found(name), Len(Only(long, Bare(name))))
        <5>1. CASE name = x.name
          <6>1. Len(Only(long, Bare(name))) = a + 1
            BY <2>4, <2>10, <5>1
          <6> QED
            BY <3>1, <3>5, <5>1, <6>1 DEF found
        <5>2. CASE name # x.name
          <6>1. y \notin Named(name)
            BY <3>2, <5>2 DEF Named
          <6> QED
            BY <2>2, <2>4, <3>1, <3>2, <5>2, <6>1 DEF IsLeft
        <5> QED
          BY <5>1, <5>2
      <4> QED
        BY <4>1 DEF IsLeft
    <3> QED
      BY <2>1, <3>8, <3>9 DEF next, long
  <2> QED
    BY <2>8, <2>9, <2>10
<1>5. Seq(Written) \subseteq T
  <2> HIDE DEF T
  <2> QED
    BY <1>3, <1>4, SeqSetInduction
<1> QED
  BY <1>5

(* The calls that mean a tool are paired among themselves.                 *)
LEMMA MeantPairs ==
  ASSUME NEW b \in Seq(Written)
  PROVE  \A r, c \in Seq(Written) : Paired(c, r, b) => Paired(Only(c, ForSomeTool), Only(r, ForSomeTool), b)
<1> DEFINE F == ForSomeTool
           T == {r \in Seq(Written) : \A c \in Seq(Written) : Paired(c, r, b) => Paired(Only(c, F), Only(r, F), b)}
<1>1. \A U : Selects(Written, U)
  BY OnlyIs
<1>2. \A x, y \in Written : x.name = y.name => (x \in F <=> y \in F)
  BY DEF ForSomeTool, IsMeant
<1> HIDE DEF F
<1>3. <<>> \in T
  <2>1. ASSUME NEW c \in Seq(Written), Paired(c, <<>>, b)
        PROVE  Paired(Only(c, F), Only(<<>>, F), b)
    <3>1. c = <<>>
      BY <2>1, EmptySeq DEF Paired
    <3>2. Only(<<>>, F) = <<>>
      BY <1>1 DEF Selects
    <3> QED
      BY <2>1, <3>1, <3>2
  <2> QED
    BY <2>1, EmptySeq
<1>4. ASSUME NEW r \in Seq(Written), NEW x \in Written, r \in T
      PROVE  Append(r, x) \in T
  <2> DEFINE long == Append(r, x)
  <2>1. ASSUME NEW c \in Seq(Written), Paired(c, long, b)
        PROVE  Paired(Only(c, F), Only(long, F), b)
    <3>1. PICK d \in Seq(Written), y \in Written : c = Append(d, y)
      <4>1. Len(c) = Len(r) + 1 /\ Len(r) \in Nat
        BY <2>1, AppendProperties, LenProperties DEF Paired
      <4>2. c # <<>>
        BY <4>1, EmptySeq
      <4> QED
        BY <4>2, SequenceEmptyOrAppend
    <3>2. Paired(d, r, b) /\ y = OwnCall(long, Len(r) + 1, b)
      BY <2>1, <3>1, PairsGrow
    <3>3. Paired(Only(d, F), Only(r, F), b)
      BY <1>4, <3>2
    <3> DEFINE found == Only(b, Named(x.name))
               place == Len(Only(long, Bare(x.name)))
               own == IF x.args # 0 THEN x.args ELSE IF place \in DOMAIN found THEN found[place].args ELSE 0
               m == Only(r, F)
    <3>4. y = [name |-> x.name, args |-> own]
      BY <3>2, OwnCallIs
    <3>5. y.name = x.name
      BY <3>4
    <3>6. Only(c, F) = (IF y \in F THEN Append(Only(d, F), y) ELSE Only(d, F))
          /\ Only(long, F) = (IF x \in F THEN Append(m, x) ELSE m)
          /\ Only(d, F) \in Seq(Written) /\ m \in Seq(Written) /\ long \in Seq(Written)
      BY <1>1, <3>1, AppendProperties DEF Selects
    <3>7. CASE x \notin F
      BY <1>2, <3>3, <3>5, <3>6, <3>7
    <3>8. CASE x \in F
      <4>1. Bare(x.name) \subseteq F
        <5>1. \A z \in Bare(x.name) : z \in Written /\ z.name = x.name
          BY DEF Bare, Named
        <5> QED
          BY <1>2, <3>8, <5>1
      <4>2. Only(Only(long, F), Bare(x.name)) = Only(long, Bare(x.name))
        <5>1. long \in Seq(Written)
          BY AppendProperties
        <5> HIDE DEF long
        <5> QED
          BY <4>1, <5>1, OnlyOnly
      <4>3. Only(long, F) = Append(m, x) /\ Only(c, F) = Append(Only(d, F), y)
        BY <1>2, <3>5, <3>6, <3>8
      <4>4. Len(Only(Append(m, x), Bare(x.name))) = place
        BY <4>2, <4>3
      <4>5. OwnCall(Append(m, x), Len(m) + 1, b) =
              [name |-> x.name,
               args |-> IF x.args # 0 THEN x.args
                        ELSE IF Len(Only(Append(m, x), Bare(x.name))) \in DOMAIN found
                             THEN found[Len(Only(Append(m, x), Bare(x.name)))].args ELSE 0]
        BY <3>6, OwnCallIs
      <4> HIDE DEF place, found, m
      <4>6. y = OwnCall(Append(m, x), Len(m) + 1, b)
        BY <3>4, <4>4, <4>5
      <4>7. Paired(Append(Only(d, F), y), Append(m, x), b)
        BY <3>3, <3>6, <4>6, PairsGrow DEF m
      <4> QED
        BY <4>3, <4>7
    <3> QED
      BY <3>7, <3>8
  <2>2. long \in Seq(Written)
    BY AppendProperties
  <2> QED
    BY <2>1, <2>2
<1>5. Seq(Written) \subseteq T
  <2> HIDE DEF T
  <2> QED
    BY <1>3, <1>4, SeqSetInduction
<1> QED
  BY <1>5 DEF F

--------------------------------------------------------------------------------
(* The calls of an answer                                                  *)

LEMMA EventIs ==
  ASSUME answer \in Seq(EventType)
  PROVE  \A i \in Nat : /\ Event(i).blocks \in Seq(Written) /\ Event(i).refused \in Seq(Written)
                        /\ Event(i).index \in Nat /\ Event(i).tool \in (UNION Toolbox) \cup {NoTool}
<1> SUFFICES ASSUME NEW i \in Nat
             PROVE  /\ Event(i).blocks \in Seq(Written) /\ Event(i).refused \in Seq(Written)
                    /\ Event(i).index \in Nat /\ Event(i).tool \in (UNION Toolbox) \cup {NoTool}
  OBVIOUS
<1>1. CASE i \in DOMAIN answer
  <2>1. Event(i) = answer[i] /\ answer[i] \in EventType
    BY <1>1, ElementOfSeq, LenProperties DEF Event
  <2> QED
    BY <2>1 DEF EventType
<1>2. CASE i \notin DOMAIN answer
  <2>1. Event(i) = [kind |-> "error", blocks |-> <<>>, index |-> 0, tool |-> NoTool, refused |-> <<>>, usage |-> "none"]
    BY <1>2 DEF Event
  <2>2. Event(i).blocks = <<>> /\ Event(i).refused = <<>> /\ Event(i).index = 0 /\ Event(i).tool = NoTool
    BY <2>1
  <2>3. Event(i).blocks \in Seq(Written) /\ Event(i).refused \in Seq(Written)
    <3>1. <<>> \in Seq(Written)
      BY EmptySeq
    <3> QED
      BY <2>2, <3>1, Zenon
  <2>4. Event(i).index \in Nat /\ Event(i).tool \in (UNION Toolbox) \cup {NoTool}
    <3>1. 0 \in Nat /\ NoTool \in (UNION Toolbox) \cup {NoTool}
      OBVIOUS
    <3> QED
      BY <2>2, <3>1, Zenon
  <2> QED
    BY <2>3, <2>4
<1> QED
  BY <1>1, <1>2

BlocksIn  == [i \in Nat |-> Event(i).blocks]
RefusedIn == [i \in Nat |-> Rejected(i)]

LEMMA RejectedIs ==
  ASSUME answer \in Seq(EventType), NEW i \in Nat
  PROVE  Rejected(i) \in Seq(Written) /\ (Event(i).refused = <<>> => Rejected(i) = <<>>)
<1> DEFINE all == Event(i).refused
           B == Seq(Written)
           kept == [k \in DOMAIN all |-> IF \E j \in 1..(k - 1) : all[j] = all[k] THEN <<>> ELSE <<all[k]>>]
<1>1. all \in Seq(Written)
  BY EventIs
<1>2. DOMAIN all = 1..Len(all) /\ Len(all) \in Nat /\ \A k \in 1..Len(all) : all[k] \in Written
  BY <1>1, LenProperties, ElementOfSeq
<1>3. \A k \in 1..Len(all) : <<all[k]>> \in B /\ <<>> \in B
  <2> SUFFICES ASSUME NEW k \in 1..Len(all) PROVE <<all[k]>> \in B /\ <<>> \in B
    OBVIOUS
  <2> DEFINE w == all[k]
  <2>1. w \in Written
    BY <1>2
  <2> HIDE DEF w
  <2>2. <<w>> \in Seq(Written)
    BY <2>1
  <2> QED
    BY <2>2, EmptySeq DEF w
<1>4. kept \in Seq(B)
  <2> HIDE DEF B
  <2>1. kept \in [1..Len(all) -> B]
    BY <1>2, <1>3
  <2> HIDE DEF kept
  <2> QED
    BY <1>2, <2>1
<1>5. Rejected(i) = FlattenSeq(kept)
  BY DEF Rejected
<1>6. FlattenSeq(kept) \in Seq(Written)
  BY <1>4, FlatIs
<1>7. ASSUME all = <<>>
      PROVE  FlattenSeq(kept) = <<>>
  <2>1. kept = <<>>
    BY <1>7
  <2> QED
    BY <2>1, FlatIs
<1> QED
  BY <1>5, <1>6, <1>7

LEMMA CallsCome ==
  ASSUME answer \in Seq(EventType)
  PROVE  /\ BlocksIn \in [Nat -> Seq(Written)] /\ RefusedIn \in [Nat -> Seq(Written)]
         /\ \A s \in Seq(Nat) : TextCalls(s) = Through(BlocksIn, s) /\ RejectedIn(s) = Through(RefusedIn, s)
         /\ \A s \in Seq(Nat) : TextCalls(s) \in Seq(Written) /\ RejectedIn(s) \in Seq(Written)
<1>1. BlocksIn \in [Nat -> Seq(Written)] /\ RefusedIn \in [Nat -> Seq(Written)]
  <2>1. \A i \in Nat : Event(i).blocks \in Seq(Written) /\ Rejected(i) \in Seq(Written)
    BY EventIs, RejectedIs
  <2> QED
    BY <2>1 DEF BlocksIn, RefusedIn
<1>2. ASSUME NEW s \in Seq(Nat)
      PROVE  TextCalls(s) = Through(BlocksIn, s) /\ RejectedIn(s) = Through(RefusedIn, s)
  <2>1. \A k \in DOMAIN s : s[k] \in Nat
    BY LenProperties, ElementOfSeq
  <2>2. [k \in DOMAIN s |-> Event(s[k]).blocks] = Image(BlocksIn, s)
    BY <2>1 DEF Image, BlocksIn
  <2>3. [k \in DOMAIN s |-> Rejected(s[k])] = Image(RefusedIn, s)
    BY <2>1 DEF Image, RefusedIn
  <2> QED
    BY <2>2, <2>3 DEF TextCalls, RejectedIn, Through
<1>3. JoinsThrough(BlocksIn, Nat, Written) /\ JoinsThrough(RefusedIn, Nat, Written)
  BY <1>1, ThroughIs
<1> QED
  BY <1>1, <1>2, <1>3 DEF JoinsThrough

(* Only events that are held back have refused calls.                      *)
LEMMA HeldRefuse ==
  ASSUME answer \in Seq(EventType)
  PROVE  \A s \in Seq(Nat) : RejectedIn(Only(s, HeldBack)) = RejectedIn(s)
<1> DEFINE H == HeldBack
           R(s) == Through(RefusedIn, s)
           T == {s \in Seq(Nat) : R(Only(s, H)) = R(s)}
<1>1. Selects(Nat, H)
  BY OnlyIs
<1>2. JoinsThrough(RefusedIn, Nat, Written)
  BY CallsCome, ThroughIs
<1>3. \A i \in Nat : i \notin H => RefusedIn[i] = <<>>
  BY RejectedIs DEF HeldBack, EndsStream, RefusedIn
<1> HIDE DEF H
<1>4. <<>> \in T
  BY <1>1, EmptySeq DEF Selects
<1>5. ASSUME NEW s \in Seq(Nat), NEW x \in Nat, s \in T
      PROVE  Append(s, x) \in T
  <2>1. Append(s, x) \in Seq(Nat) /\ Only(s, H) \in Seq(Nat)
    BY <1>1, AppendProperties DEF Selects
  <2>2. R(Append(s, x)) = R(s) \o RefusedIn[x] /\ R(s) \in Seq(Written)
    BY <1>2 DEF JoinsThrough
  <2>3. CASE x \in H
    <3>1. Only(Append(s, x), H) = Append(Only(s, H), x)
      BY <1>1, <2>3 DEF Selects
    <3>2. R(Append(Only(s, H), x)) = R(Only(s, H)) \o RefusedIn[x]
      BY <1>2, <2>1 DEF JoinsThrough
    <3> QED
      BY <1>5, <2>1, <2>2, <3>1, <3>2
  <2>4. CASE x \notin H
    <3>1. Only(Append(s, x), H) = Only(s, H)
      BY <1>1, <2>4 DEF Selects
    <3>2. RefusedIn[x] = <<>> /\ R(s) \o <<>> = R(s)
      BY <1>3, <2>2, <2>4, CatFacts
    <3> QED
      BY <1>5, <2>1, <2>2, <3>1, <3>2
  <2> QED
    BY <2>3, <2>4
<1>6. Seq(Nat) \subseteq T
  <2> HIDE DEF T
  <2> QED
    BY <1>4, <1>5, SeqSetInduction
<1>7. \A s \in Seq(Nat) : Only(s, H) \in Seq(Nat)
  BY <1>1 DEF Selects
<1> QED
  BY <1>6, <1>7, CallsCome DEF H

(* What the calls come to, and those of them that mean a tool.             *)
AskedFor  == IF RejectedIn(All) = <<>> THEN TextCalls(All) ELSE RejectedIn(All)
Recovered == Only(Calls(All, All), ForSomeTool)

LEMMA CallsAre ==
  ASSUME answer \in Seq(EventType), NEW held \in Seq(Nat), RejectedIn(held) = RejectedIn(All)
  PROVE  /\ Calls(All, held) = Calls(All, All) /\ Calls(All, All) \in Seq(Written) /\ AskedFor \in Seq(Written)
         /\ RejectedIn(All) = <<>> => Calls(All, All) = AskedFor
         /\ RejectedIn(All) # <<>> => Paired(Calls(All, All), AskedFor, TextCalls(All))
<1> DEFINE r == RejectedIn(All)
           b == TextCalls(All)
<1>1. All \in Seq(Nat)
  BY WireSays
<1>2. r \in Seq(Written) /\ b \in Seq(Written)
  BY <1>1, CallsCome
<1>3. \A h : Calls(All, h) = IF RejectedIn(h) = <<>> THEN b ELSE Done(RejectedIn(h), b).calls
  BY DEF Calls, Done
<1>4. AskedFor = IF r = <<>> THEN b ELSE r
  BY DEF AskedFor
<1> HIDE DEF r, b
<1>5. Calls(All, held) = (IF r = <<>> THEN b ELSE Done(r, b).calls) /\ Calls(All, All) = Calls(All, held)
  BY <1>3 DEF r
<1>6. Done(r, b).calls \in Seq(Written) /\ Paired(Done(r, b).calls, r, b)
  BY <1>2, DoneIs, DonePairs DEF Merging
<1>7. CASE r = <<>>
  BY <1>2, <1>4, <1>5, <1>7 DEF r
<1>8. CASE r # <<>>
  BY <1>2, <1>4, <1>5, <1>6, <1>8 DEF r, b
<1> QED
  BY <1>7, <1>8

LEMMA RecoveredAre ==
  ASSUME answer \in Seq(EventType)
  PROVE  LET meant == Only(AskedFor, ForSomeTool) IN
         /\ Recovered \in Seq(Written) /\ meant \in Seq(Written) /\ Len(Recovered) = Len(meant)
         /\ \A k \in 1..Len(meant) :
              /\ Recovered[k].name = meant[k].name
              /\ Recovered[k].args = IF RejectedIn(All) = <<>> THEN meant[k].args
                                     ELSE OwnArgs(meant, k, TextCalls(All))
<1> DEFINE c == Calls(All, All)
           b == TextCalls(All)
           meant == Only(AskedFor, ForSomeTool)
<1>1. All \in Seq(Nat) /\ b \in Seq(Written)
  BY WireSays, CallsCome
<1>2. c \in Seq(Written) /\ AskedFor \in Seq(Written)
  BY <1>1, CallsAre
<1>3. Recovered \in Seq(Written) /\ meant \in Seq(Written)
  <2>1. Selects(Written, ForSomeTool)
    BY OnlyIs
  <2> QED
    BY <1>2, <2>1 DEF Selects, Recovered
<1>4. CASE RejectedIn(All) = <<>>
  <2>1. Recovered = meant
    BY <1>1, <1>4, CallsAre DEF Recovered
  <2> QED
    BY <1>3, <1>4, <2>1
<1>5. CASE RejectedIn(All) # <<>>
  <2>1. Paired(c, AskedFor, b)
    BY <1>1, <1>5, CallsAre
  <2>2. Paired(Recovered, meant, b)
    BY <1>1, <1>2, <2>1, MeantPairs DEF Recovered
  <2> HIDE DEF meant, b
  <2>3. Len(Recovered) = Len(meant) /\ \A k \in 1..Len(meant) : Recovered[k] = OwnCall(meant, k, b)
    BY <2>2 DEF Paired
  <2>4. ASSUME NEW k \in 1..Len(meant)
        PROVE  Recovered[k].name = meant[k].name /\ Recovered[k].args = OwnArgs(meant, k, b)
    <3>1. Recovered[k] = [name |-> meant[k].name, args |-> OwnArgs(meant, k, b)]
      BY <2>3 DEF OwnCall
    <3> QED
      BY <3>1
  <2> QED
    BY <1>3, <1>5, <2>3, <2>4 DEF meant, b
<1> QED
  BY <1>4, <1>5

(* match_name                                                              *)
LEMMA MeantIs ==
  ASSUME IsFiniteSet(tools), NEW name
  PROVE  Meant(name) \subseteq tools /\ (Meant(name) # {} => \E t : Meant(name) = {t})
<1>1. ASSUME NEW S
      PROVE  Single(S \cap tools) \subseteq tools
             /\ (Single(S \cap tools) # {} => \E t : S \cap tools = {t} /\ Single(S \cap tools) = {t})
  <2>1. IsFiniteSet(S \cap tools)
    BY FS_Subset
  <2>2. Cardinality(S \cap tools) = 1 => \E t : S \cap tools = {t}
    BY <2>1, FS_Singleton
  <2> QED
    BY <2>2 DEF Single
<1> DEFINE exact == Fits[name].exact \cap tools
           fits  == Fits[name].affix \cap tools
           close == Fits[name].close \cap tools
<1>2. Meant(name) = IF Single(exact) # {} THEN exact ELSE IF fits # {} THEN Single(fits) ELSE Single(close)
  BY DEF Meant
<1>3. /\ Single(exact) # {} => \E t : exact = {t}
      /\ Single(fits) \subseteq tools /\ (Single(fits) # {} => \E t : Single(fits) = {t})
      /\ Single(close) \subseteq tools /\ (Single(close) # {} => \E t : Single(close) = {t})
      /\ exact \subseteq tools
  <2>1. Single(exact) # {} => \E t : exact = {t}
    BY <1>1
  <2>2. Single(fits) \subseteq tools /\ (Single(fits) # {} => \E t : Single(fits) = {t})
    BY <1>1
  <2>3. Single(close) \subseteq tools /\ (Single(close) # {} => \E t : Single(close) = {t})
    BY <1>1
  <2> QED
    BY <2>1, <2>2, <2>3
<1> HIDE DEF exact, fits, close
<1> QED
  BY <1>2, <1>3

LEMMA NextIndexIs ==
  ASSUME answer \in Seq(EventType), NEW heard \in Seq(Nat)
  PROVE  /\ NextIndex(heard) \in Nat
         /\ \A k \in DOMAIN heard : Event(heard[k]).kind = "call" => Event(heard[k]).index < NextIndex(heard)
<1> DEFINE K == {j \in DOMAIN heard : Event(heard[j]).kind = "call"}
           S == {0} \cup {Event(heard[k]).index + 1 : k \in K}
           n == Len(heard)
<1>1. DOMAIN heard = 1..n /\ n \in Nat /\ \A k \in 1..n : heard[k] \in Nat
  BY LenProperties, ElementOfSeq
<1>2. \A k \in 1..n : Event(heard[k]).index \in Nat
  BY <1>1, EventIs
<1>3. S \subseteq Nat
  BY <1>1, <1>2
<1>4. \E m \in Nat : \A k \in 1..n : Event(heard[k]).index + 1 <= m
  <2> DEFINE I(k) == Event(heard[k]).index
             T == {p \in Nat : p <= n => \E m \in Nat : \A k \in 1..p : I(k) + 1 <= m}
  <2>1. 0 \in T
    <3>1. \A k \in 1..0 : I(k) + 1 <= 0
      OBVIOUS
    <3> QED
      BY <3>1
  <2>2. ASSUME NEW p \in Nat, p \in T
        PROVE  p + 1 \in T
    <3>1. ASSUME p + 1 <= n
          PROVE  \E m \in Nat : \A k \in 1..(p + 1) : I(k) + 1 <= m
      <4>1. PICK m \in Nat : \A k \in 1..p : I(k) + 1 <= m
        BY <1>1, <2>2, <3>1
      <4>2. I(p + 1) \in Nat /\ \A k \in 1..p : I(k) \in Nat
        BY <1>1, <1>2, <3>1
      <4> HIDE DEF I
      <4>3. m + I(p + 1) + 1 \in Nat
        BY <4>2
      <4>4. ASSUME NEW k \in 1..(p + 1)
            PROVE  I(k) + 1 <= m + I(p + 1) + 1
        <5>1. CASE k = p + 1
          BY <4>2, <5>1
        <5>2. CASE k # p + 1
          <6>1. k \in 1..p
            BY <5>2
          <6> QED
            BY <4>1, <4>2, <6>1
        <5> QED
          BY <5>1, <5>2
      <4> QED
        BY <4>3, <4>4
    <3> QED
      BY <3>1
  <2>3. Nat \subseteq T
    <3> HIDE DEF T
    <3> QED
      BY <2>1, <2>2, NumbersInduction
  <2>4. n \in T /\ n <= n
    <3> HIDE DEF T, n
    <3> QED
      BY <1>1, <2>3
  <2> QED
    BY <2>4
<1>5. PICK m \in Nat : \A k \in 1..n : Event(heard[k]).index + 1 <= m
  BY <1>4
<1>6. \A y \in S : y <= m
  BY <1>1, <1>5
<1>7. NextIndex(heard) = Max(S)
  BY DEF NextIndex
<1>8. \A k \in K : Event(heard[k]).index + 1 \in S
  OBVIOUS
<1>9. 0 \in S
  OBVIOUS
<1> HIDE DEF S
<1>10. \E x \in S : \A y \in S : y <= x
  <2> DEFINE D == {m - y : y \in S}
  <2>1. D \in SUBSET Nat /\ D # {}
    <3>1. \A y \in S : m - y \in Nat
      BY <1>3, <1>6
    <3> QED
      BY <1>9, <3>1
  <2>2. PICK d \in D : \A e \in D : d <= e
    <3> HIDE DEF D
    <3> QED
      BY <2>1, LeastExists
  <2>3. PICK x \in S : d = m - x
    BY <2>2
  <2>4. ASSUME NEW y \in S
        PROVE  y <= x
    <3>1. m - x <= m - y /\ x \in Nat /\ y \in Nat
      BY <1>3, <2>2, <2>3
    <3> QED
      BY <3>1
  <2> QED
    BY <2>4
<1>11. PICK x \in S : \A y \in S : y <= x
  BY <1>10
<1>12. NextIndex(heard) = x
  BY <1>3, <1>7, <1>11, MaxIs
<1>13. ASSUME NEW k \in DOMAIN heard, Event(heard[k]).kind = "call"
       PROVE  Event(heard[k]).index < NextIndex(heard)
  <2>1. k \in K /\ Event(heard[k]).index \in Nat
    BY <1>1, <1>2, <1>13
  <2>2. Event(heard[k]).index + 1 <= x /\ x \in Nat
    BY <1>3, <1>8, <1>11, <2>1
  <2> QED
    BY <1>12, <2>1, <2>2
<1> QED
  BY <1>3, <1>12, <1>13

(* apply_reconcile, as a loop over the calls; what it adds are those of    *)
(* the recovered ones that are the first for their tool.                   *)
Executed == {answer[i].tool : i \in DOMAIN answer}
JsonCall == [tool : {ToolOf(c) : c \in Written}, args : Nat]
JsonAdds(sofar, call) ==
  IF IsMeant(call) /\ ToolOf(call) \notin Executed /\ \A k \in DOMAIN sofar : sofar[k].tool # ToolOf(call)
  THEN Append(sofar, [tool |-> ToolOf(call), args |-> call.args]) ELSE sofar
JsonStep == [p \in Seq(JsonCall) \X Written |-> JsonAdds(p[1], p[2])]
JsonOf(c) ==
  LET out[k \in 0..Len(c)] == IF k = 0 THEN <<>> ELSE JsonAdds(out[k - 1], c[k])
  IN  out[Len(c)]

LEMMA JsonOfIs ==
  /\ JsonOf(<<>>) = <<>>
  /\ \A c \in Seq(Written), x \in Written : JsonOf(Append(c, x)) = JsonAdds(JsonOf(c), x)
<1> DEFINE B == Seq(JsonCall)
           g == JsonStep
<1>1. \A sofar \in B, x \in Written : JsonAdds(sofar, x) \in B
  <2> SUFFICES ASSUME NEW sofar \in B, NEW x \in Written PROVE JsonAdds(sofar, x) \in B
    OBVIOUS
  <2> DEFINE y == [tool |-> ToolOf(x), args |-> x.args]
  <2>1. y \in JsonCall
    BY DEF JsonCall, Written
  <2> HIDE DEF y
  <2>2. Append(sofar, y) \in B
    BY <2>1, AppendProperties
  <2> QED
    BY <2>2 DEF JsonAdds, y
<1>2. g \in [B \X Written -> B] /\ \A sofar \in B, x \in Written : g[<<sofar, x>>] = JsonAdds(sofar, x)
  <2> HIDE DEF B
  <2>1. g = [p \in B \X Written |-> JsonAdds(p[1], p[2])]
    BY DEF JsonStep, B
  <2>2. \A p \in B \X Written : p[1] \in B /\ p[2] \in Written
    OBVIOUS
  <2>3. \A p \in B \X Written : JsonAdds(p[1], p[2]) \in B
    BY <1>1, <2>2
  <2>4. g \in [B \X Written -> B]
    BY <2>1, <2>3
  <2>5. ASSUME NEW sofar \in B, NEW x \in Written
        PROVE  g[<<sofar, x>>] = JsonAdds(sofar, x)
    <3>1. <<sofar, x>> \in B \X Written /\ <<sofar, x>>[1] = sofar /\ <<sofar, x>>[2] = x
      OBVIOUS
    <3> QED
      BY <2>1, <3>1
  <2> QED
    BY <2>4, <2>5
<1> HIDE DEF g
<1>3. <<>> \in B
  BY EmptySeq
<1> HIDE DEF B
<1>4. Folds(g, Written, B, <<>>)
  BY <1>2, <1>3, FoldsExist
<1>5. ASSUME NEW c \in Seq(Written)
      PROVE  JsonOf(c) = LoopEnd(g, B, <<>>, c)
  <2> DEFINE n == Len(c)
             Is(h) == h = [i \in 0..n |-> IF i = 0 THEN <<>> ELSE JsonAdds(h[i - 1], c[i])]
             chosen == CHOOSE h : Is(h)
  <2>1. n \in Nat /\ \A i \in 1..n : c[i] \in Written
    BY LenProperties, ElementOfSeq
  <2>2. PICK f \in [0..n -> B] : Loops(f, g, <<>>, c) /\ f[n] = LoopEnd(g, B, <<>>, c)
    BY <1>4 DEF Folds
  <2>3. ASSUME NEW i \in 1..n
        PROVE  f[i] = JsonAdds(f[i - 1], c[i])
    <3>1. i - 1 \in 0..n
      BY <2>1
    <3>2. f[i - 1] \in B /\ f[i] = g[<<f[i - 1], c[i]>>]
      BY <2>2, <3>1 DEF Loops
    <3> QED
      BY <1>2, <2>1, <3>2
  <2>4. Is(f)
    <3>1. \A i \in 0..n : i = 0 \/ i \in 1..n
      OBVIOUS
    <3>2. \A i \in 0..n : f[i] = IF i = 0 THEN <<>> ELSE JsonAdds(f[i - 1], c[i])
      BY <2>2, <2>3, <3>1 DEF Loops
    <3> QED
      BY <2>2, <3>2
  <2>5. Is(chosen)
    BY <2>4
  <2>6. JsonOf(c) = chosen[n]
    BY DEF JsonOf
  <2> HIDE DEF chosen
  <2>7. chosen[0] = f[0]
    <3>1. 0 \in 0..n
      BY <2>1
    <3> QED
      BY <2>4, <2>5, <3>1
  <2>8. ASSUME NEW i \in 1..n, chosen[i - 1] = f[i - 1]
        PROVE  chosen[i] = f[i]
    <3>1. i \in 0..n /\ i # 0
      OBVIOUS
    <3>2. chosen[i] = JsonAdds(chosen[i - 1], c[i])
      BY <2>5, <3>1
    <3> QED
      BY <2>3, <2>8, <3>2
  <2>9. \A i \in 0..n : chosen[i] = f[i]
    <3> HIDE DEF Is
    <3> QED
      BY <2>1, <2>7, <2>8, StepByStep
  <2> QED
    BY <2>1, <2>2, <2>6, <2>9
<1>6. JsonOf(<<>>) = <<>>
  BY <1>4, <1>5, EmptySeq DEF Folds
<1>7. ASSUME NEW c \in Seq(Written), NEW x \in Written
      PROVE  JsonOf(Append(c, x)) = JsonAdds(JsonOf(c), x)
  <2>1. Append(c, x) \in Seq(Written)
    BY AppendProperties
  <2>2. JsonOf(Append(c, x)) = g[<<JsonOf(c), x>>] /\ JsonOf(c) \in B
    BY <1>4, <1>5, <2>1 DEF Folds
  <2> QED
    BY <1>2, <2>2
<1> QED
  BY <1>6, <1>7

FirstsOf(m) == {k \in DOMAIN m : /\ ToolOf(m[k]) \notin Executed
                                 /\ \A j \in 1..(k - 1) : ToolOf(m[j]) # ToolOf(m[k])}
Once(m) == Only(Places(m), FirstsOf(m))
CallAt(m) == [i \in DOMAIN m |-> [tool |-> ToolOf(m[i]), args |-> m[i].args]]
Json(m) == Image(CallAt(m), Once(m))
IsFirst(m, x) == ToolOf(x) \notin Executed /\ \A j \in 1..Len(m) : ToolOf(m[j]) # ToolOf(x)

LEMMA WiderSeq ==
  ASSUME NEW A, NEW B, A \subseteq B, NEW s \in Seq(A)
  PROVE  s \in Seq(B)
<1>1. Len(s) \in Nat /\ s = [k \in 1..Len(s) |-> s[k]] /\ \A k \in 1..Len(s) : s[k] \in A
  BY LenProperties, ElementOfSeq
<1>2. \A k \in 1..Len(s) : s[k] \in B
  BY <1>1
<1>3. [k \in 1..Len(s) |-> s[k]] \in [1..Len(s) -> B]
  BY <1>2
<1>4. s \in [1..Len(s) -> B]
  BY <1>1, <1>3, Zenon
<1>5. \E n \in Nat : s \in [1..n -> B]
  BY <1>1, <1>4, Zenon
<1>6. Seq(B) = UNION {[1..n -> B] : n \in Nat}
  BY SeqDef, Zenon
<1> QED
  BY <1>5, <1>6, Zenon

LEMMA JsonGrows ==
  /\ Json(<<>>) = <<>> /\ \A m \in Seq(Written) : Json(m) \in Seq(JsonCall)
  /\ \A m \in Seq(Written), x \in Written :
       Json(Append(m, x)) = IF IsFirst(m, x) THEN Append(Json(m), [tool |-> ToolOf(x), args |-> x.args])
                            ELSE Json(m)
<1>1. ASSUME NEW m \in Seq(Written)
      PROVE  /\ Len(m) \in Nat /\ DOMAIN m = 1..Len(m) /\ \A i \in 1..Len(m) : m[i] \in Written
             /\ Places(m) \in Seq(1..Len(m)) /\ Once(m) \in Seq(1..Len(m))
             /\ CallAt(m) \in [1..Len(m) -> JsonCall]
  <2>1. Len(m) \in Nat /\ DOMAIN m = 1..Len(m) /\ \A i \in 1..Len(m) : m[i] \in Written
    BY LenProperties, ElementOfSeq
  <2>2. Places(m) \in Seq(1..Len(m))
    BY <2>1 DEF Places
  <2>3. Once(m) \in Seq(1..Len(m))
    <3>1. Selects(1..Len(m), FirstsOf(m))
      BY OnlyIs
    <3> QED
      BY <2>2, <3>1 DEF Selects, Once
  <2>4. \A i \in 1..Len(m) : [tool |-> ToolOf(m[i]), args |-> m[i].args] \in JsonCall
    BY <2>1 DEF JsonCall, Written
  <2>5. CallAt(m) \in [1..Len(m) -> JsonCall]
    BY <2>1, <2>4 DEF CallAt
  <2> QED
    BY <2>1, <2>2, <2>3, <2>5
<1>2. ASSUME NEW m \in Seq(Written)
      PROVE  Json(m) \in Seq(JsonCall)
  <2>1. Maps(CallAt(m), 1..Len(m), JsonCall)
    BY <1>1, ImageIs
  <2> QED
    BY <1>1, <2>1 DEF Maps, Json
<1>3. Json(<<>>) = <<>>
  <2>1. Places(<<>>) = <<>>
    BY DEF Places
  <2>2. Once(<<>>) = <<>>
    BY <2>1, OnlyIs DEF Once, Selects
  <2> QED
    BY <2>2 DEF Json, Image
<1>4. ASSUME NEW m \in Seq(Written), NEW x \in Written
      PROVE  Json(Append(m, x)) = IF IsFirst(m, x) THEN Append(Json(m), [tool |-> ToolOf(x), args |-> x.args])
                                  ELSE Json(m)
  <2> DEFINE n == Len(m)
             long == Append(m, x)
             y == [tool |-> ToolOf(x), args |-> x.args]
             A == 1..(n + 1)
  <2>1. /\ long \in Seq(Written) /\ Len(long) = n + 1 /\ n \in Nat
        /\ \A i \in 1..n : long[i] = m[i]
        /\ long[n + 1] = x
    BY AppendProperties, LenProperties
  <2> HIDE DEF long
  <2>2. /\ DOMAIN m = 1..n /\ DOMAIN long = 1..(n + 1) /\ \A i \in 1..n : m[i] \in Written
        /\ Places(m) \in Seq(1..n) /\ Once(m) \in Seq(1..n) /\ CallAt(long) \in [A -> JsonCall]
    BY <1>1, <2>1
  <2>3. Places(long) = Append(Places(m), n + 1)
    <3> DEFINE p == Places(long)
               u == Places(m)
               q == Append(u, n + 1)
    <3>1. p \in Seq(A) /\ Len(p) = n + 1 /\ \A i \in 1..(n + 1) : p[i] = i
      BY <2>1, <2>2 DEF Places
    <3>2. u \in Seq(A) /\ Len(u) = n /\ (\A i \in 1..n : u[i] = i) /\ n + 1 \in A
      BY <2>1, <2>2 DEF Places
    <3> HIDE DEF p, u
    <3>3. /\ q \in Seq(A) /\ Len(q) = n + 1 /\ q[n + 1] = n + 1
          /\ \A i \in 1..n : q[i] = u[i]
      BY <3>2, AppendProperties
    <3> HIDE DEF q
    <3>4. ASSUME NEW i \in 1..(n + 1)
          PROVE  p[i] = q[i]
      <4>1. i \in 1..n \/ i = n + 1
        BY <2>1
      <4> QED
        BY <3>1, <3>2, <3>3, <4>1
    <3>5. p = q
      BY <3>1, <3>3, <3>4, SeqEqual
    <3> QED
      BY <3>5 DEF p, q, u
  <2>4. \A i \in 1..n : i \in FirstsOf(long) <=> i \in FirstsOf(m)
    <3> SUFFICES ASSUME NEW i \in 1..n PROVE i \in FirstsOf(long) <=> i \in FirstsOf(m)
      OBVIOUS
    <3>1. long[i] = m[i] /\ i \in DOMAIN long /\ i \in DOMAIN m /\ \A j \in 1..(i - 1) : long[j] = m[j]
      BY <2>1, <2>2
    <3> QED
      BY <3>1 DEF FirstsOf
  <2>5. n + 1 \in FirstsOf(long) <=> IsFirst(m, x)
    <3>1. n + 1 \in DOMAIN long /\ (n + 1) - 1 = n
      BY <2>1, <2>2
    <3>2. \A j \in 1..n : ToolOf(long[j]) = ToolOf(m[j])
      BY <2>1
    <3> QED
      BY <2>1, <3>1, <3>2 DEF FirstsOf, IsFirst
  <2>6. Once(long) = IF IsFirst(m, x) THEN Append(Once(m), n + 1) ELSE Once(m)
    <3>1. Places(m) \in Seq(A)
      BY <2>1, <2>2 DEF Places
    <3>2. Only(Places(m), FirstsOf(long)) = Only(Places(m), FirstsOf(m))
      <4> DEFINE I == 1..n
                 T == FirstsOf(long)
                 U == FirstsOf(m)
                 p == Places(m)
      <4>1. p \in Seq(I) /\ \A i \in I : i \in T <=> i \in U
        BY <2>2, <2>4
      <4> HIDE DEF I, T, U, p
      <4>2. Only(p, T) = Only(p, U)
        BY <4>1, OnlySame
      <4> QED
        BY <4>2 DEF T, U, p
    <3>3. n + 1 \in A
      BY <2>1
    <3>4. Only(Append(Places(m), n + 1), FirstsOf(long)) =
            IF n + 1 \in FirstsOf(long) THEN Append(Only(Places(m), FirstsOf(long)), n + 1)
            ELSE Only(Places(m), FirstsOf(long))
      <4>1. Selects(A, FirstsOf(long))
        BY OnlyIs
      <4> HIDE DEF A
      <4> QED
        BY <3>1, <3>3, <4>1 DEF Selects
    <3> QED
      BY <2>3, <2>5, <3>2, <3>4 DEF Once
  <2>7. Image(CallAt(long), Once(m)) = Json(m)
    <3>1. \A k \in DOMAIN Once(m) : Once(m)[k] \in 1..n
      BY <2>2, LenProperties, ElementOfSeq
    <3>2. \A i \in 1..n : CallAt(long)[i] = CallAt(m)[i]
      BY <2>1, <2>2 DEF CallAt
    <3> QED
      BY <3>1, <3>2 DEF Image, Json
  <2>8. Once(m) \in Seq(A) /\ n + 1 \in A
    <3> DEFINE I == 1..n
               u == Once(m)
    <3>1. I \subseteq A /\ n + 1 \in A /\ u \in Seq(I)
      BY <2>1, <2>2
    <3> HIDE DEF A, I, u
    <3>2. u \in Seq(A)
      BY <3>1, WiderSeq
    <3> QED
      BY <3>1, <3>2 DEF u
  <2>9. Image(CallAt(long), Append(Once(m), n + 1)) = Append(Image(CallAt(long), Once(m)), CallAt(long)[n + 1])
    <3> HIDE DEF A
    <3>1. Maps(CallAt(long), A, JsonCall)
      BY <2>2, ImageIs
    <3> QED
      BY <2>8, <3>1 DEF Maps
  <2>10. CallAt(long)[n + 1] = y
    BY <2>1, <2>2 DEF CallAt
  <2>11. Json(long) = IF IsFirst(m, x) THEN Append(Json(m), y) ELSE Json(m)
    BY <2>6, <2>7, <2>9, <2>10 DEF Json
  <2> QED
    BY <2>11 DEF long
<1> QED
  BY <1>2, <1>3, <1>4

(* A tool that is in neither list is in neither.                           *)
SameTools(m) ==
  \A t : t \notin Executed =>
    ((\E k \in DOMAIN Json(m) : Json(m)[k].tool = t) <=> (\E j \in 1..Len(m) : ToolOf(m[j]) = t))

LEMMA JsonTools == \A m \in Seq(Written) : SameTools(m)
<1> DEFINE T == {m \in Seq(Written) : SameTools(m)}
<1>1. <<>> \in T
  <2>1. Json(<<>>) = <<>> /\ DOMAIN <<>> = {} /\ Len(<<>>) = 0 /\ <<>> \in Seq(Written)
    BY JsonGrows, EmptySeq
  <2>2. 1..0 = {}
    OBVIOUS
  <2> QED
    BY <2>1, <2>2 DEF SameTools
<1>2. ASSUME NEW m \in Seq(Written), NEW x \in Written, m \in T
      PROVE  Append(m, x) \in T
  <2> DEFINE n == Len(m)
             long == Append(m, x)
             y == [tool |-> ToolOf(x), args |-> x.args]
             j0 == Json(m)
             j1 == Json(long)
  <2>1. /\ long \in Seq(Written) /\ Len(long) = n + 1 /\ n \in Nat
        /\ \A i \in 1..n : long[i] = m[i]
        /\ long[n + 1] = x
    BY AppendProperties, LenProperties
  <2>2. j1 = (IF IsFirst(m, x) THEN Append(j0, y) ELSE j0) /\ j0 \in Seq(JsonCall) /\ y \in JsonCall
    <3>1. y \in JsonCall
      BY DEF JsonCall, Written
    <3> QED
      BY <3>1, JsonGrows
  <2> HIDE DEF long, j0, j1
  <2>3. /\ Len(Append(j0, y)) = Len(j0) + 1 /\ DOMAIN Append(j0, y) = 1..(Len(j0) + 1)
        /\ Append(j0, y)[Len(j0) + 1] = y /\ Len(j0) \in Nat /\ DOMAIN j0 = 1..Len(j0)
        /\ \A k \in 1..Len(j0) : Append(j0, y)[k] = j0[k]
    BY <2>2, AppendProperties, LenProperties
  <2>4. y.tool = ToolOf(x)
    OBVIOUS
  <2>5. ASSUME NEW t, t \notin Executed
        PROVE  (\E k \in DOMAIN j1 : j1[k].tool = t) <=> (\E j \in 1..(n + 1) : ToolOf(long[j]) = t)
    <3> DEFINE In(s) == \E k \in DOMAIN s : s[k].tool = t
               Seen == \E j \in 1..n : ToolOf(m[j]) = t
    <3>1. In(j0) <=> Seen
      BY <1>2, <2>5 DEF SameTools, j0
    <3>2. (\E j \in 1..(n + 1) : ToolOf(long[j]) = t) <=> Seen \/ ToolOf(x) = t
      <4>1. ASSUME NEW j \in 1..(n + 1), ToolOf(long[j]) = t
            PROVE  Seen \/ ToolOf(x) = t
        <5>1. j \in 1..n \/ j = n + 1
          BY <2>1
        <5> QED
          BY <2>1, <4>1, <5>1
      <4>2. ASSUME NEW j \in 1..n, ToolOf(m[j]) = t
            PROVE  j \in 1..(n + 1) /\ ToolOf(long[j]) = t
        BY <2>1, <4>2
      <4>3. n + 1 \in 1..(n + 1)
        BY <2>1
      <4> QED
        BY <2>1, <4>1, <4>2, <4>3
    <3>3. In(Append(j0, y)) <=> In(j0) \/ ToolOf(x) = t
      <4> DEFINE s == Append(j0, y)
                 l == Len(j0)
      <4>1. l \in Nat /\ DOMAIN s = 1..(l + 1) /\ DOMAIN j0 = 1..l /\ s[l + 1] = y /\ \A k \in 1..l : s[k] = j0[k]
        BY <2>3
      <4> HIDE DEF s, l, y
      <4>2. ASSUME NEW k \in DOMAIN s, s[k].tool = t
            PROVE  In(j0) \/ ToolOf(x) = t
        <5>1. k \in 1..l \/ k = l + 1
          BY <4>1
        <5> QED
          BY <2>4, <4>1, <4>2, <5>1
      <4>3. ASSUME NEW k \in DOMAIN j0, j0[k].tool = t
            PROVE  k \in DOMAIN s /\ s[k].tool = t
        BY <4>1, <4>3
      <4>4. l + 1 \in DOMAIN s
        BY <4>1
      <4>5. In(s) <=> In(j0) \/ ToolOf(x) = t
        BY <2>4, <4>1, <4>2, <4>3, <4>4
      <4> QED
        BY <4>5 DEF s
    <3>4. ~IsFirst(m, x) /\ ToolOf(x) = t => Seen
      BY <2>5 DEF IsFirst
    <3> HIDE DEF In, Seen
    <3>5. In(j1) <=> Seen \/ ToolOf(x) = t
      BY <2>2, <3>1, <3>3, <3>4
    <3> QED
      BY <3>2, <3>5 DEF In
  <2>6. SameTools(long)
    BY <2>1, <2>5 DEF SameTools, j1
  <2> QED
    BY <2>1, <2>6 DEF long
<1>3. Seq(Written) \subseteq T
  <2> HIDE DEF T
  <2> QED
    BY <1>1, <1>2, SeqSetInduction
<1> QED
  BY <1>3

LEMMA JsonIs == \A c \in Seq(Written) : JsonOf(c) = Json(Only(c, ForSomeTool))
<1> DEFINE F == ForSomeTool
           T == {c \in Seq(Written) : JsonOf(c) = Json(Only(c, F))}
<1>1. Selects(Written, F)
  BY OnlyIs
<1>2. \A x \in Written : x \in F <=> IsMeant(x)
  BY DEF ForSomeTool
<1> HIDE DEF F
<1>3. <<>> \in T
  BY <1>1, JsonOfIs, JsonGrows, EmptySeq DEF Selects
<1>4. ASSUME NEW c \in Seq(Written), NEW x \in Written, c \in T
      PROVE  Append(c, x) \in T
  <2> DEFINE m == Only(c, F)
             y == [tool |-> ToolOf(x), args |-> x.args]
  <2>1. m \in Seq(Written) /\ Append(c, x) \in Seq(Written)
        /\ Only(Append(c, x), F) = IF x \in F THEN Append(m, x) ELSE m
    BY <1>1, AppendProperties DEF Selects
  <2>2. JsonOf(Append(c, x)) = JsonAdds(Json(m), x)
    BY <1>4, JsonOfIs
  <2> HIDE DEF m
  <2>3. CASE x \notin F
    BY <1>2, <2>1, <2>2, <2>3 DEF JsonAdds
  <2>4. CASE x \in F
    <3>1. Json(Append(m, x)) = IF IsFirst(m, x) THEN Append(Json(m), y) ELSE Json(m)
      BY <2>1, JsonGrows
    <3>2. ToolOf(x) \notin Executed =>
            ((\A k \in DOMAIN Json(m) : Json(m)[k].tool # ToolOf(x)) <=> (\A j \in 1..Len(m) : ToolOf(m[j]) # ToolOf(x)))
      BY <2>1, JsonTools DEF SameTools
    <3>3. JsonAdds(Json(m), x) = IF IsFirst(m, x) THEN Append(Json(m), y) ELSE Json(m)
      <4>1. IsMeant(x)
        BY <1>2, <2>4
      <4> QED
        BY <3>2, <4>1 DEF JsonAdds, IsFirst
    <3>4. Only(Append(c, x), F) = Append(m, x)
      BY <2>1, <2>4
    <3> QED
      BY <2>1, <2>2, <3>1, <3>3, <3>4
  <2> QED
    BY <2>3, <2>4
<1>5. Seq(Written) \subseteq T
  <2> HIDE DEF T
  <2> QED
    BY <1>3, <1>4, SeqSetInduction
<1> QED
  BY <1>5 DEF F

--------------------------------------------------------------------------------
(* The calls, step by step                                                 *)

CallsInv ==
  /\ RelayInv /\ tools \in Toolbox
  /\ via = "reconcile" /\ link = "ended" => added = DeltaCalls(All, All)

(* Which of the events were held back makes no difference to the calls.    *)
LEMMA HeldOrAll ==
  ASSUME answer \in Seq(EventType)
  PROVE  DeltaCalls(All, Only(All, HeldBack)) = DeltaCalls(All, All)
<1> DEFINE held == Only(All, HeldBack)
<1>1. All \in Seq(Nat)
  BY WireSays
<1>2. held \in Seq(Nat)
  <2>1. Selects(Nat, HeldBack)
    BY OnlyIs
  <2> QED
    BY <1>1, <2>1 DEF Selects
<1>3. RejectedIn(held) = RejectedIn(All)
  BY <1>1, HeldRefuse
<1> HIDE DEF held
<1>4. Calls(All, held) = Calls(All, All)
  BY <1>2, <1>3, CallsAre
<1>5. DeltaCalls(All, held) = DeltaCalls(All, All)
  BY <1>4 DEF DeltaCalls
<1> QED
  BY <1>5 DEF held

LEMMA CallsFixed ==
  ASSUME answer' = answer, tools' = tools
  PROVE  DeltaCalls(All, All)' = DeltaCalls(All, All)
<1>1. \A i : Event(i)' = Event(i)
  BY EventsFixed
<1>2. \A i : Rejected(i)' = Rejected(i)
  BY <1>1 DEF Rejected
<1>3. \A h : RejectedIn(h)' = RejectedIn(h) /\ TextCalls(h)' = TextCalls(h) /\ NextIndex(h)' = NextIndex(h)
  BY <1>1, <1>2 DEF RejectedIn, TextCalls, NextIndex
<1>4. \A g, h : Calls(g, h)' = Calls(g, h)
  <2> SUFFICES ASSUME NEW g, NEW h PROVE Calls(g, h)' = Calls(g, h)
    OBVIOUS
  <2> DEFINE CallsOf(r, b) == IF r = <<>> THEN b ELSE Done(r, b).calls
  <2>1. Calls(g, h) = CallsOf(RejectedIn(h), TextCalls(g))
    BY DEF Calls, Done
  <2>2. Calls(g, h)' = CallsOf(RejectedIn(h)', TextCalls(g)')
    BY DEF Calls, Done
  <2> QED
    BY <1>3, <2>1, <2>2
<1>5. \A name : Meant(name)' = Meant(name)
  BY DEF Meant
<1>6. ForSomeTool' = ForSomeTool /\ \A call : ToolOf(call)' = ToolOf(call)
  BY <1>5 DEF ForSomeTool, IsMeant, ToolOf
<1>7. \A g, h : DeltaCalls(g, h)' = DeltaCalls(g, h)
  BY <1>3, <1>4, <1>6 DEF DeltaCalls
<1>8. All' = All
  BY AnswerFixes DEF Fixed
<1> QED
  BY <1>7, <1>8

LEMMA CallsInvInitially == RelayInit => CallsInv
<1> SUFFICES ASSUME RelayInit PROVE CallsInv
  OBVIOUS
<1>1. RelayInv
  BY RelayInvInitially
<1>2. tools \in Toolbox /\ link = "open"
  BY DEF RelayInit
<1> QED
  BY <1>1, <1>2 DEF CallsInv

LEMMA StepKeepsCalls == CallsInv /\ [RelayNext]_relayVars => CallsInv'
<1> SUFFICES ASSUME CallsInv, [RelayNext]_relayVars PROVE CallsInv'
  OBVIOUS
<1>1. RelayInv'
  BY RelaysKeepsInv, EndKeepsInv, StopsKeepInv DEF CallsInv, RelayNext
<1>2. answer' = answer /\ tools' = tools /\ via' = via
  BY DEF RelayNext, Relays, UpstreamEnds, BreaksOff, ClientLeaves, relayVars
<1>3. DeltaCalls(All, All)' = DeltaCalls(All, All)
  BY <1>2, CallsFixed
<1>4. ASSUME via' = "reconcile", link' = "ended"
      PROVE  added' = DeltaCalls(All, All)'
  <2>1. CASE UpstreamEnds
    BY <1>2, <1>3, <1>4, <2>1, EndFlushes, HeldOrAll DEF CallsInv, RelayInv
  <2>2. CASE ~UpstreamEnds
    <3>1. link' = link /\ added' = added
      BY <1>2, <1>4, <2>2 DEF RelayNext, Relays, BreaksOff, ClientLeaves, relayVars, Ollama
    <3> QED
      BY <1>2, <1>3, <1>4, <3>1 DEF CallsInv
  <2> QED
    BY <2>1, <2>2
<1> QED
  BY <1>1, <1>2, <1>4 DEF CallsInv

(* At the end of a stream the added calls are those of the whole answer.   *)
THEOREM CallsInvAlways == RelaySpec => []CallsInv
  BY CallsInvInitially, StepKeepsCalls, PTL DEF RelaySpec

LEMMA OnlyOfThem ==
  ASSUME NEW A, NEW T
  PROVE  \A s \in Seq(A) : Only(s, T) \in Seq(A \cap T)
<1> DEFINE K == {s \in Seq(A) : Only(s, T) \in Seq(A \cap T)}
<1>1. Selects(A, T)
  BY OnlyIs
<1>2. <<>> \in K
  BY <1>1, EmptySeq DEF Selects
<1>3. ASSUME NEW s \in Seq(A), NEW x \in A, s \in K
      PROVE  Append(s, x) \in K
  <2>1. Append(s, x) \in Seq(A)
    BY AppendProperties
  <2>2. Only(Append(s, x), T) = IF x \in T THEN Append(Only(s, T), x) ELSE Only(s, T)
    BY <1>1 DEF Selects
  <2>3. x \in T => Append(Only(s, T), x) \in Seq(A \cap T)
    <3> DEFINE u == Only(s, T)
               B == A \cap T
    <3>1. u \in Seq(B)
      BY <1>3
    <3>2. x \in T => x \in B
      OBVIOUS
    <3> HIDE DEF u, B
    <3>3. x \in B => Append(u, x) \in Seq(B)
      BY <3>1, AppendProperties
    <3>4. x \in T => Append(u, x) \in Seq(B)
      BY <3>2, <3>3
    <3> QED
      BY <3>4 DEF u, B
  <2>4. Only(Append(s, x), T) \in Seq(A \cap T)
    BY <1>3, <2>2, <2>3
  <2> QED
    BY <2>1, <2>4
<1>4. Seq(A) \subseteq K
  <2> HIDE DEF K
  <2> QED
    BY <1>2, <1>3, SeqSetInduction
<1> QED
  BY <1>4

(* What is added, call by call.                                            *)
AddedCall(k) == [index |-> NextIndex(All) + k - 1, tool |-> ToolOf(Recovered[k]),
                 name |-> Recovered[k].name, args |-> Recovered[k].args]

LEMMA AddedIs ==
  ASSUME CallsInv, via = "reconcile", link = "ended"
  PROVE  /\ Recovered \in Seq(Written) /\ DOMAIN Recovered = 1..Len(Recovered) /\ Len(Recovered) \in Nat
         /\ DOMAIN added = 1..Len(Recovered)
         /\ \A k \in 1..Len(Recovered) :
              /\ added[k].index = NextIndex(All) + k - 1 /\ added[k].tool = ToolOf(Recovered[k])
              /\ added[k].name = Recovered[k].name /\ added[k].args = Recovered[k].args
<1>1. Recovered \in Seq(Written)
  BY RecoveredAre DEF CallsInv, RelayInv
<1>2. DOMAIN Recovered = 1..Len(Recovered) /\ Len(Recovered) \in Nat
  BY <1>1, LenProperties
<1>3. added = [k \in DOMAIN Recovered |-> AddedCall(k)]
  <2>1. DeltaCalls(All, All) = [k \in DOMAIN Recovered |-> AddedCall(k)]
    BY DEF DeltaCalls, Recovered, AddedCall
  <2> QED
    BY <2>1 DEF CallsInv
<1>4. ASSUME NEW k \in 1..Len(Recovered)
      PROVE  /\ added[k].index = NextIndex(All) + k - 1 /\ added[k].tool = ToolOf(Recovered[k])
             /\ added[k].name = Recovered[k].name /\ added[k].args = Recovered[k].args
  <2>1. added[k] = AddedCall(k)
    BY <1>2, <1>3
  <2> QED
    BY <2>1 DEF AddedCall
<1> QED
  BY <1>1, <1>2, <1>3, <1>4

LEMMA ToolsAreMeant ==
  ASSUME CallsInv
  PROVE  /\ \A k \in 1..Len(Recovered) : {ToolOf(Recovered[k])} = Meant(Recovered[k].name)
         /\ tools = {} => Recovered = <<>>
<1>1. Calls(All, All) \in Seq(Written)
  <2>1. answer \in Seq(EventType) /\ All \in Seq(Nat)
    BY WireSays DEF CallsInv, RelayInv
  <2> QED
    BY <2>1, CallsAre
<1>2. IsFiniteSet(tools)
  BY RelayAssumption DEF CallsInv
<1>3. Recovered \in Seq(Written \cap ForSomeTool)
  BY <1>1, OnlyOfThem DEF Recovered
<1>4. \A k \in 1..Len(Recovered) : Recovered[k] \in Written \cap ForSomeTool
  <2> DEFINE B == Written \cap ForSomeTool
             c == Recovered
  <2>1. c \in Seq(B)
    BY <1>3
  <2> HIDE DEF B, c
  <2>2. \A k \in 1..Len(c) : c[k] \in B
    BY <2>1, ElementOfSeq
  <2> QED
    BY <2>2 DEF B, c
<1>5. ASSUME NEW k \in 1..Len(Recovered)
      PROVE  {ToolOf(Recovered[k])} = Meant(Recovered[k].name)
  <2> DEFINE call == Recovered[k]
  <2>1. Meant(call.name) # {}
    BY <1>4 DEF ForSomeTool, IsMeant
  <2>2. PICK t : Meant(call.name) = {t}
    BY <1>2, <2>1, MeantIs
  <2>3. ToolOf(call) = t
    BY <2>2 DEF ToolOf
  <2> QED
    BY <2>2, <2>3
<1>6. ASSUME tools = {}
      PROVE  Recovered = <<>>
  <2>1. ForSomeTool = {}
    BY <1>2, <1>6, MeantIs DEF ForSomeTool, IsMeant
  <2>2. \A i \in 1..Len(Calls(All, All)) : Calls(All, All)[i] \notin ForSomeTool
    BY <2>1
  <2> QED
    BY <1>1, <2>2, OnlyNone DEF Recovered
<1> QED
  BY <1>5, <1>6

LEMMA JsonCallsAre ==
  ASSUME CallsInv
  PROVE  JsonCalls = Json(Recovered)
<1>1. Calls(All, All) \in Seq(Written)
  <2>1. answer \in Seq(EventType) /\ All \in Seq(Nat)
    BY WireSays DEF CallsInv, RelayInv
  <2> QED
    BY <2>1, CallsAre
<1>2. JsonCalls = IF tools = {} THEN <<>> ELSE JsonOf(Calls(All, All))
  BY DEF JsonCalls, JsonOf, JsonAdds, Executed, All, Places
<1>3. JsonOf(Calls(All, All)) = Json(Recovered)
  BY <1>1, JsonIs DEF Recovered
<1>4. tools = {} => Json(Recovered) = <<>>
  BY ToolsAreMeant, JsonGrows
<1> QED
  BY <1>2, <1>3, <1>4

LEMMA RecoveredFrom ==
  ASSUME CallsInv, via = "reconcile", link = "ended"
  PROVE  CallsAreRecovered
<1> DEFINE blocks  == TextCalls(All)
           refused == RejectedIn(All)
           meant   == Only(IF refused = <<>> THEN blocks ELSE refused, ForSomeTool)
           first   == {k \in DOMAIN added : /\ \A i \in DOMAIN answer : answer[i].tool # added[k].tool
                                            /\ \A j \in 1..(k - 1) : added[j].tool # added[k].tool}
           once    == Only(Places(added), first)
           n       == Len(Recovered)
           Named1(k) == /\ added[k].name = meant[k].name /\ {added[k].tool} = Meant(meant[k].name)
                        /\ added[k].args = IF refused = <<>> THEN meant[k].args ELSE OwnArgs(meant, k, blocks)
           Placed(k) == /\ \A i \in DOMAIN answer : answer[i].kind = "call" => answer[i].index # added[k].index
                        /\ \A j \in 1..(k - 1) : added[j].index < added[k].index
<1>1. answer \in Seq(EventType) /\ All \in Seq(Nat) /\ DOMAIN All = DOMAIN answer
  BY WireSays DEF CallsInv, RelayInv, All, Places
<1>2. /\ Recovered \in Seq(Written) /\ DOMAIN Recovered = 1..n /\ n \in Nat /\ DOMAIN added = 1..n
      /\ \A k \in 1..n : /\ added[k].index = NextIndex(All) + k - 1 /\ added[k].tool = ToolOf(Recovered[k])
                         /\ added[k].name = Recovered[k].name /\ added[k].args = Recovered[k].args
  BY AddedIs
<1>3. /\ meant \in Seq(Written) /\ n = Len(meant)
      /\ \A k \in 1..n : /\ Recovered[k].name = meant[k].name
                         /\ Recovered[k].args = IF refused = <<>> THEN meant[k].args ELSE OwnArgs(meant, k, blocks)
  <2>1. meant = Only(AskedFor, ForSomeTool)
    BY DEF AskedFor
  <2> HIDE DEF meant
  <2> QED
    BY <1>1, <2>1, RecoveredAre
<1>4. DOMAIN added = DOMAIN meant
  BY <1>2, <1>3, LenProperties
<1>5. ASSUME NEW k \in DOMAIN added
      PROVE  Named1(k)
  <2>1. k \in 1..n
    BY <1>2
  <2>2. {ToolOf(Recovered[k])} = Meant(Recovered[k].name)
    BY <2>1, ToolsAreMeant
  <2> HIDE DEF meant, refused, blocks
  <2> QED
    BY <1>2, <1>3, <2>1, <2>2
<1>6. ASSUME NEW k \in DOMAIN added
      PROVE  Placed(k)
  <2>1. k \in 1..n /\ NextIndex(All) \in Nat /\ added[k].index = NextIndex(All) + k - 1
    BY <1>1, <1>2, NextIndexIs
  <2>2. ASSUME NEW i \in DOMAIN answer, answer[i].kind = "call"
        PROVE  answer[i].index # added[k].index
    <3>1. All[i] = i /\ Event(i) = answer[i] /\ i \in Nat /\ i \in DOMAIN All
      BY <1>1, LenProperties DEF All, Places, Event
    <3>2. answer[i].index < NextIndex(All) /\ answer[i].index \in Nat
      BY <1>1, <2>2, <3>1, NextIndexIs, EventIs
    <3> QED
      BY <1>2, <2>1, <3>2
  <2>3. ASSUME NEW j \in 1..(k - 1)
        PROVE  added[j].index < added[k].index
    <3>1. j \in 1..n /\ j < k
      BY <1>2, <2>1
    <3>2. added[j].index = NextIndex(All) + j - 1
      BY <1>2, <3>1
    <3> QED
      BY <2>1, <3>1, <3>2
  <2> QED
    BY <2>2, <2>3
<1>7. first = FirstsOf(Recovered)
  <2>1. ASSUME NEW k \in 1..n
        PROVE  k \in first <=> k \in FirstsOf(Recovered)
    <3>1. \A j \in 1..(k - 1) : added[j].tool = ToolOf(Recovered[j])
      <4>1. \A j \in 1..(k - 1) : j \in 1..n
        BY <1>2
      <4> QED
        BY <1>2, <4>1
    <3> QED
      BY <1>2, <3>1 DEF FirstsOf, Executed
  <2> QED
    BY <1>2, <2>1 DEF FirstsOf
<1>8. once = Once(Recovered)
  <2>1. Places(added) = Places(Recovered)
    BY <1>2 DEF Places
  <2> QED
    BY <1>7, <2>1 DEF Once
<1>9. \A k \in DOMAIN once : once[k] \in 1..n
  <2> DEFINE I == 1..n
             p == Places(added)
  <2>1. p \in Seq(I)
    BY <1>2 DEF Places
  <2>2. Selects(I, first)
    BY OnlyIs
  <2> HIDE DEF I, p, first
  <2>3. Only(p, first) \in Seq(I)
    BY <2>1, <2>2 DEF Selects
  <2>4. \A k \in DOMAIN Only(p, first) : Only(p, first)[k] \in I
    BY <2>3, LenProperties, ElementOfSeq
  <2> QED
    BY <2>4 DEF I, p
<1>10. JsonCalls = [k \in DOMAIN once |-> [tool |-> added[once[k]].tool, args |-> added[once[k]].args]]
  <2>1. JsonCalls = [k \in DOMAIN once |-> CallAt(Recovered)[once[k]]]
    BY <1>8, JsonCallsAre DEF Json, Image
  <2> HIDE DEF once
  <2>2. \A k \in DOMAIN once : CallAt(Recovered)[once[k]] = [tool |-> added[once[k]].tool, args |-> added[once[k]].args]
    BY <1>2, <1>9 DEF CallAt
  <2> QED
    BY <2>1, <2>2
<1> HIDE DEF meant, refused, blocks, once, first, n
<1>11. DOMAIN added = DOMAIN meant /\ \A k \in DOMAIN added : Named1(k) /\ Placed(k)
  BY <1>4, <1>5, <1>6
<1> QED
  BY <1>10, <1>11 DEF CallsAreRecovered, meant, refused, blocks, once, first

(* CallsAreRecovered: at the end of every stream, however it was cut, the  *)
(* calls StreamReconciler adds and those apply_reconcile would add to the  *)
(* same answer are the ones the model meant: the names it wrote in vain    *)
(* that mean one tool, in order, each with its own arguments or those of   *)
(* its turn, at new indices.                                               *)
THEOREM CallsAreRecoveredAlways == RelaySpec => []CallsAreRecovered
<1>1. CallsInv => CallsAreRecovered
  BY RecoveredFrom DEF CallsAreRecovered
<1> QED
  BY <1>1, CallsInvAlways, PTL

--------------------------------------------------------------------------------
(* The types                                                               *)

LEMMA LastTyped == \A s \in Seq(Nat) : LastOf(s) \in Nat
<1> SUFFICES ASSUME NEW s \in Seq(Nat) PROVE LastOf(s) \in Nat
  OBVIOUS
<1>1. CASE s = <<>>
  BY <1>1 DEF LastOf
<1>2. CASE s # <<>>
  <2>1. Len(s) \in Nat /\ Len(s) # 0 /\ Len(s) \in 1..Len(s)
    BY <1>2, LenProperties, EmptySeq
  <2>2. s[Len(s)] \in Nat
    BY <2>1, ElementOfSeq
  <2> QED
    BY <1>2, <2>2 DEF LastOf, Last
<1> QED
  BY <1>1, <1>2

MeterTyped ==
  /\ meter \in [buf : Words, usage : Nat, out : Nat]
  /\ tally \in Seq([usage : Nat, out : Nat])

LEMMA RelayInvTypes == RelayInv => MeterTyped
<1> SUFFICES ASSUME RelayInv PROVE MeterTyped
  OBVIOUS
<1> DEFINE heard == Says(Sent)
           R == [usage : Nat, out : Nat]
<1>1. Sent \in Seq(Atom)
  <2>1. at + 0 = at /\ 0 \in Nat /\ at <= Len(Wire)
    <3>1. Wire \in Seq(Atom)
      BY WireSays DEF RelayInv
    <3> QED
      BY <3>1, LenProperties DEF RelayInv
  <2> QED
    BY <2>1, ChunkExtends
<1>2. Residue(Sent) \in Words /\ heard \in Seq(Nat)
  BY <1>1, LinesAre, SaysIs, AtomsAre
<1>3. Only(heard, WithUsage) \in Seq(Nat) /\ Only(heard, Talk) \in Seq(Nat)
  <2>1. Selects(Nat, WithUsage) /\ Selects(Nat, Talk)
    BY OnlyIs
  <2> QED
    BY <1>2, <2>1 DEF Selects
<1>4. LastOf(Only(heard, WithUsage)) \in Nat /\ Len(Only(heard, Talk)) \in Nat
  BY <1>3, LastTyped, LenProperties
<1>5. meter \in [buf : Words, usage : Nat, out : Nat]
  BY <1>2, <1>4 DEF RelayInv, Counted
<1>6. Recorded(meter) \in R
  BY <1>5 DEF Recorded
<1>7. tally \in Seq(R)
  <2> DEFINE w == Recorded(meter)
  <2>1. tally = <<w>> \/ tally = <<>>
    BY DEF RelayInv
  <2>2. w \in R
    BY <1>6
  <2> HIDE DEF w, R
  <2>3. <<w>> \in Seq(R) /\ <<>> \in Seq(R)
    BY <2>2
  <2> QED
    BY <2>1, <2>3, Zenon
<1> QED
  BY <1>5, <1>7 DEF MeterTyped

(* The calls of a delta                                                    *)
LEMMA DeltasTyped ==
  ASSUME answer \in Seq(EventType), tools \in Toolbox, NEW heard \in Seq(Nat), NEW held \in Seq(Nat)
  PROVE  DeltaCalls(heard, held) \in Deltas
<1> DEFINE r == RejectedIn(held)
           b == TextCalls(heard)
           c == Calls(heard, held)
           d == Only(c, ForSomeTool)
           n == Len(d)
           D == [index : Nat, tool : UNION Toolbox, name : Name, args : Nat]
           delta == [k \in DOMAIN d |-> [index |-> NextIndex(heard) + k - 1, tool |-> ToolOf(d[k]),
                                         name |-> d[k].name, args |-> d[k].args]]
<1>1. r \in Seq(Written) /\ b \in Seq(Written)
  BY CallsCome
<1>2. c = IF r = <<>> THEN b ELSE Done(r, b).calls
  BY DEF Calls, Done
<1>3. c \in Seq(Written)
  <2>1. Done(r, b).calls \in Seq(Written)
    <3> HIDE DEF r, b
    <3> QED
      BY <1>1, DoneIs DEF Merging
  <2> QED
    BY <1>1, <1>2, <2>1
<1>4. d \in Seq(Written \cap ForSomeTool)
  BY <1>3, OnlyOfThem
<1>5. DOMAIN d = 1..n /\ n \in Nat /\ \A k \in 1..n : d[k] \in Written \cap ForSomeTool
  <2> DEFINE B == Written \cap ForSomeTool
  <2>1. d \in Seq(B)
    BY <1>4
  <2> HIDE DEF B, d
  <2> QED
    BY <2>1, LenProperties, ElementOfSeq DEF B
<1>6. NextIndex(heard) \in Nat
  BY NextIndexIs
<1>7. \A k \in 1..n : NextIndex(heard) + k - 1 \in Nat
  BY <1>5, <1>6
<1>8. \A k \in 1..n : ToolOf(d[k]) \in UNION Toolbox
  <2> SUFFICES ASSUME NEW k \in 1..n PROVE ToolOf(d[k]) \in UNION Toolbox
    OBVIOUS
  <2>1. Meant(d[k].name) # {}
    BY <1>5 DEF ForSomeTool, IsMeant
  <2>2. IsFiniteSet(tools)
    BY RelayAssumption
  <2>3. Meant(d[k].name) \subseteq tools
    BY <2>2, MeantIs
  <2>4. ToolOf(d[k]) \in Meant(d[k].name)
    BY <2>1 DEF ToolOf
  <2> QED
    BY <2>3, <2>4
<1>9. \A k \in 1..n : d[k].name \in Name /\ d[k].args \in Nat
  BY <1>5 DEF Written
<1>10. DeltaCalls(heard, held) = delta
  BY DEF DeltaCalls
<1>11. delta \in [1..n -> D]
  <2> HIDE DEF d, n
  <2> QED
    BY <1>5, <1>7, <1>8, <1>9
<1> HIDE DEF delta, D, n
<1>12. delta \in Seq(D)
  BY <1>5, <1>11
<1> QED
  BY <1>10, <1>12 DEF Deltas, D

(* The lines of the Ollama stream                                          *)
NdLines == [kind : {"part", "done", "error"}, of : Nat, calls : Pieces, finish : Nat, usage : Nat]

LEMMA AccumulatedTyped ==
  ASSUME answer \in Seq(EventType), NEW heard \in Seq(Nat)
  PROVE  Accumulated(heard) \in Pieces
<1> DEFINE Of(n)    == Only(heard, {i \in Nat : Event(i).kind = "call" /\ Event(i).index = n})
           NamedOf(n) == Only(Of(n), {i \in Nat : Event(i).tool # NoTool})
           HasName  == {n \in Nat : NamedOf(n) # <<>>}
           slots    == [k \in 1..NextIndex(heard) |-> k - 1]
           sorted   == Only(slots, HasName)
           P        == [tool : (UNION Toolbox) \cup {NoTool}, pieces : Seq(Nat)]
           all      == [k \in DOMAIN sorted |-> [tool |-> Event(Last(NamedOf(sorted[k]))).tool, pieces |-> Of(sorted[k])]]
<1>1. Accumulated(heard) = all
  BY DEF Accumulated
<1>2. \A n : Of(n) \in Seq(Nat) /\ NamedOf(n) \in Seq(Nat)
  <2> SUFFICES ASSUME NEW n PROVE Of(n) \in Seq(Nat) /\ NamedOf(n) \in Seq(Nat)
    OBVIOUS
  <2> DEFINE S == {i \in Nat : Event(i).kind = "call" /\ Event(i).index = n}
             T == {i \in Nat : Event(i).tool # NoTool}
  <2>1. Selects(Nat, S) /\ Selects(Nat, T)
    BY OnlyIs
  <2> HIDE DEF S, T
  <2>2. Only(heard, S) \in Seq(Nat)
    BY <2>1 DEF Selects
  <2>3. Only(Only(heard, S), T) \in Seq(Nat)
    BY <2>1, <2>2 DEF Selects
  <2> QED
    BY <2>2, <2>3 DEF S, T
<1>3. slots \in Seq(Nat)
  <2>1. NextIndex(heard) \in Nat
    BY NextIndexIs
  <2>2. \A k \in 1..NextIndex(heard) : k - 1 \in Nat
    BY <2>1
  <2> QED
    BY <2>1, <2>2
<1> HIDE DEF slots, NamedOf, Of
<1>4. sorted \in Seq(Nat \cap HasName)
  <2> HIDE DEF HasName
  <2> QED
    BY <1>3, OnlyOfThem
<1>5. DOMAIN sorted = 1..Len(sorted) /\ Len(sorted) \in Nat /\ \A k \in 1..Len(sorted) : sorted[k] \in Nat \cap HasName
  <2> DEFINE B == Nat \cap HasName
  <2>1. sorted \in Seq(B)
    BY <1>4
  <2> HIDE DEF B, sorted
  <2> QED
    BY <2>1, LenProperties, ElementOfSeq DEF B
<1>6. \A k \in 1..Len(sorted) : Event(Last(NamedOf(sorted[k]))).tool \in (UNION Toolbox) \cup {NoTool}
  <2> SUFFICES ASSUME NEW k \in 1..Len(sorted)
               PROVE  Event(Last(NamedOf(sorted[k]))).tool \in (UNION Toolbox) \cup {NoTool}
    OBVIOUS
  <2> DEFINE s == NamedOf(sorted[k])
  <2>1. s \in Seq(Nat) /\ s # <<>>
    BY <1>2, <1>5
  <2> HIDE DEF s
  <2>2. LastOf(s) \in Nat /\ LastOf(s) = Last(s)
    BY <2>1, LastTyped DEF LastOf
  <2>3. Event(Last(s)).tool \in (UNION Toolbox) \cup {NoTool}
    BY <2>2, EventIs
  <2> QED
    BY <2>3 DEF s
<1>7. all \in [1..Len(sorted) -> P]
  <2> HIDE DEF sorted
  <2> QED
    BY <1>2, <1>5, <1>6
<1> HIDE DEF all, P, sorted
<1>8. all \in Seq(P)
  <2> DEFINE n == Len(sorted)
  <2>1. n \in Nat /\ all \in [1..n -> P]
    BY <1>5, <1>7
  <2> HIDE DEF n
  <2> QED
    BY <2>1
<1> QED
  BY <1>1, <1>8 DEF Pieces, P

LEMMA DoneLineTyped ==
  ASSUME answer \in Seq(EventType), NEW heard \in Seq(Nat)
  PROVE  DoneLine(heard) \in NdLines
<1> DEFINE F == {i \in Nat : Event(i).kind = "final"}
           U == {i \in Nat : Event(i).usage # "none"}
           calls == IF via = "generate" THEN <<>> ELSE Accumulated(heard)
<1>1. calls \in Pieces
  <2>1. <<>> \in Pieces
    BY EmptySeq DEF Pieces
  <2>2. Accumulated(heard) \in Pieces
    BY AccumulatedTyped
  <2> QED
    BY <2>1, <2>2
<1>2. \A T : LastOf(Only(heard, T)) \in Nat
  <2> SUFFICES ASSUME NEW T PROVE LastOf(Only(heard, T)) \in Nat
    OBVIOUS
  <2>1. Selects(Nat, T)
    BY OnlyIs
  <2>2. Only(heard, T) \in Seq(Nat)
    BY <2>1 DEF Selects
  <2> QED
    BY <2>2, LastTyped
<1>3. DoneLine(heard) = NdLine("done", 0, calls, LastOf(Only(heard, F)), LastOf(Only(heard, U)))
  BY DEF DoneLine
<1>4. LastOf(Only(heard, F)) \in Nat /\ LastOf(Only(heard, U)) \in Nat
  BY <1>2
<1> HIDE DEF calls, F, U
<1> QED
  BY <1>1, <1>3, <1>4 DEF NdLine, NdLines

LocalsTyped(o) == o.buf \in Words /\ o.heard \in Seq(Nat) /\ o.over \in {"no", "done", "error"}

LEMMA ToldTyped ==
  ASSUME WellEnded, NEW m \in Nat, NEW b \in Words
  PROVE  /\ LocalsTyped(ToldBy(m, b)) /\ ToldBy(m, b).lines \in Seq(NdLines)
         /\ LocalsTyped(Failed(m, b)) /\ Failed(m, b).lines \in Seq(NdLines)
<1>1. /\ answer \in Seq(EventType) /\ Len(answer) \in Nat /\ Stop \in Nat /\ Stop - 1 \in Nat /\ Failure \in Nat
      /\ Event(Stop).kind \in {"error", "done"}
  BY StopIs DEF WellEnded
<1>2. \A k \in Nat : UpTo(k) \in Seq(Nat) /\ PartsOf(k) \in Seq(NdLines)
  <2>1. \A k \in Nat : UpTo(k) \in Seq(Nat) /\ PartsOf(k) \in Seq(Line)
    BY UpToIs, PartsGrow
  <2>2. Line \subseteq NdLines
    <3>1. <<>> \in Pieces
      BY EmptySeq DEF Pieces
    <3> HIDE DEF Pieces
    <3>2. \A i \in Nat : PartLine[i] \in NdLines
      BY <3>1 DEF PartLine, NdLine, NdLines
    <3> QED
      BY <3>2 DEF Line
  <2> QED
    BY <2>1, <2>2, WiderSeq
<1>3. ErrorLine \in NdLines /\ EndLine \in NdLines
  <2>1. <<>> \in Pieces
    BY EmptySeq DEF Pieces
  <2>2. DoneLine(UpTo(Stop - 1)) \in NdLines
    BY <1>1, <1>2, DoneLineTyped
  <2>3. ErrorLine \in NdLines /\ NdLine("error", Stop, <<>>, 0, 0) \in NdLines
    BY <1>1, <2>1 DEF ErrorLine, NdLine, NdLines
  <2> QED
    BY <2>2, <2>3 DEF EndLine
<1>4. LocalsTyped(ToldBy(m, b)) /\ ToldBy(m, b).lines \in Seq(NdLines)
  <2>1. CASE m < Stop
    <3>1. ToldBy(m, b) = State(b, UpTo(m), "no", PartsOf(m))
      BY <2>1 DEF ToldBy
    <3> QED
      BY <1>2, <3>1 DEF LocalsTyped, State
  <2>2. CASE ~(m < Stop)
    <3> DEFINE ls == Append(PartsOf(Stop - 1), EndLine)
    <3>1. ToldBy(m, b) = State(b, UpTo(Stop - 1), Event(Stop).kind, ls)
      BY <2>2 DEF ToldBy
    <3>2. ls \in Seq(NdLines)
      BY <1>1, <1>2, <1>3, AppendProperties
    <3> HIDE DEF ls
    <3>3. /\ ToldBy(m, b).buf = b /\ ToldBy(m, b).heard = UpTo(Stop - 1)
          /\ ToldBy(m, b).over = Event(Stop).kind /\ ToldBy(m, b).lines = ls
      BY <3>1 DEF State
    <3>4. UpTo(Stop - 1) \in Seq(Nat)
      BY <1>1, <1>2
    <3> QED
      BY <1>1, <3>2, <3>3, <3>4 DEF LocalsTyped
  <2> QED
    BY <2>1, <2>2
<1>5. LocalsTyped(Failed(m, b)) /\ Failed(m, b).lines \in Seq(NdLines)
  <2>1. CASE ToldBy(m, b).over = "error"
    BY <1>4, <2>1 DEF Failed
  <2>2. CASE ToldBy(m, b).over # "error"
    <3> DEFINE ls == Append(ToldBy(m, b).lines, ErrorLine)
    <3>1. Failed(m, b) = State(b, ToldBy(m, b).heard, "error", ls)
      BY <2>2 DEF Failed
    <3>2. ls \in Seq(NdLines)
      BY <1>3, <1>4, AppendProperties
    <3> HIDE DEF ls
    <3> QED
      BY <1>4, <3>1, <3>2 DEF LocalsTyped, State
  <2> QED
    BY <2>1, <2>2
<1> QED
  BY <1>4, <1>5

(* Whatever has come of an open stream, what is made of it is well typed.  *)
LEMMA ConvertsChunk ==
  ASSUME OllamaInv, Ollama, link = "open", NEW n \in Nat, at + n <= Len(Wire)
  PROVE  LET o == Converted(SubSeq(Wire, at + 1, at + n)) IN LocalsTyped(o) /\ o.lines \in Seq(NdLines)
<1>1. WellEnded
  BY DEF OllamaInv
<1>2. PICK m \in Nat, r \in 0..3 : Stands(m, r, at, link, oll, lines)
  BY DEF OllamaInv
<1>3. Fits4(m, 0, r) /\ at = 4*m + r /\ oll.buf = Span(m, 0, r) /\ Untold(m)
  BY <1>2 DEF Stands, Untold
<1>4. PICK d \in Nat, q \in 0..3 :
         /\ Fits4(m, d, q) /\ Fits4(m + d, 0, q) /\ m + d \in Nat
         /\ Span(m, 0, r) \o SubSeq(Wire, at + 1, at + n) = Span(m, d, q)
  <2>1. Reaches(m, r, n)
    BY <1>1, <1>3, ChunkSpans
  <2> QED
    BY <2>1 DEF Reaches
<1> DEFINE chunk == SubSeq(Wire, at + 1, at + n)
           b == Span(m + d, 0, q)
<1>5. Converted(chunk) = ToldBy(m + d, b)
  <2> HIDE DEF chunk
  <2>1. oll.buf \o chunk = Span(m, d, q)
    BY <1>3, <1>4 DEF chunk
  <2> QED
    BY <1>1, <1>3, <1>4, <2>1, Converts
<1>6. b \in Words
  <2>1. answer \in Seq(EventType)
    BY <1>1 DEF WellEnded
  <2> QED
    BY <1>4, <2>1, SpanIs, AtomsAre
<1> HIDE DEF chunk, b
<1>7. LocalsTyped(ToldBy(m + d, b)) /\ ToldBy(m + d, b).lines \in Seq(NdLines)
  BY <1>1, <1>4, <1>6, ToldTyped
<1> QED
  BY <1>5, <1>7 DEF chunk

LEMMA ConvertsBreak ==
  ASSUME OllamaInv, Ollama, link = "open"
  PROVE  LET o == Converted(ErrorBytes) IN LocalsTyped(o) /\ o.lines \in Seq(NdLines)
<1>1. WellEnded
  BY DEF OllamaInv
<1>2. PICK m \in Nat, r \in 0..3 : Stands(m, r, at, link, oll, lines)
  BY DEF OllamaInv
<1>3. Fits4(m, 0, r) /\ oll.buf = Span(m, 0, r) /\ Untold(m)
  BY <1>2 DEF Stands, Untold
<1> DEFINE k == IF r = 3 THEN m + 1 ELSE m
<1>4. Converted(ErrorBytes) = Failed(k, <<>>)
  BY <1>1, <1>3, ConvertsError
<1>5. k \in Nat /\ <<>> \in Words
  BY AtomsAre, EmptySeq
<1> HIDE DEF k
<1>6. LocalsTyped(Failed(k, <<>>)) /\ Failed(k, <<>>).lines \in Seq(NdLines)
  BY <1>1, <1>5, ToldTyped
<1> QED
  BY <1>4, <1>6

(* What RelayInv says nothing about.                                       *)
RestTyped ==
  /\ rec.residual \in Words /\ rec.heard \in Seq(Nat) /\ rec.tail \in Seq(Nat)
  /\ added \in Deltas /\ LocalsTyped(oll) /\ relayed \in Words /\ lines \in Seq(NdLines)

TypeInv == CallsInv /\ OllamaInv /\ RestTyped

LEMMA RestTypedInitially == RelayInit => RestTyped
<1> SUFFICES ASSUME RelayInit PROVE RestTyped
  OBVIOUS
<1>1. <<>> \in Words /\ <<>> \in Deltas /\ <<>> \in Seq(NdLines) /\ <<>> \in Seq(Nat)
  BY EmptySeq, AtomsAre DEF Deltas
<1>2. rec = [residual |-> <<>>, heard |-> <<>>, tail |-> <<>>] /\ oll = [buf |-> <<>>, heard |-> <<>>, over |-> "no"]
  BY DEF RelayInit
<1>3. added = <<>> /\ relayed = <<>> /\ lines = <<>>
  BY DEF RelayInit
<1> HIDE DEF NdLines
<1> QED
  BY <1>1, <1>2, <1>3 DEF RestTyped, LocalsTyped

LEMMA KnowsTyped ==
  ASSUME NEW r, NEW s \in Seq(Atom), Knows(r, s, HeldBack)
  PROVE  r.residual \in Words /\ r.heard \in Seq(Nat) /\ r.tail \in Seq(Nat)
<1>1. Residue(s) \in Words /\ Says(s) \in Seq(Nat)
  BY LinesAre, SaysIs, AtomsAre
<1>2. Only(Says(s), HeldBack) \in Seq(Nat)
  <2>1. Selects(Nat, HeldBack)
    BY OnlyIs
  <2> QED
    BY <1>1, <2>1 DEF Selects
<1> QED
  BY <1>1, <1>2 DEF Knows

(* The reconciler, while the stream is open.                               *)
LEMMA FedTyped ==
  ASSUME RelayInv, via = "reconcile", link = "open", NEW c \in Seq(Atom)
  PROVE  /\ Fed(rec, c).residual \in Words /\ Fed(rec, c).heard \in Seq(Nat) /\ Fed(rec, c).tail \in Seq(Nat)
         /\ relayed \o PassedOn(rec, c) \in Words
<1>1. Sent \in Seq(Atom)
  <2>1. Wire \in Seq(Atom) /\ Len(Wire) \in Nat /\ at \in 0..Len(Wire)
    BY WireSays, LenProperties DEF RelayInv
  <2>2. at + 0 <= Len(Wire) /\ 0 \in Nat
    BY <2>1
  <2> QED
    BY <2>2, ChunkExtends
<1>2. Knows(rec, Sent, HeldBack) /\ relayed \in Seq(Atom) /\ Residue(relayed) = <<>>
  BY DEF RelayInv, Kept
<1>3. Knows(Fed(rec, c), Sent \o c, HeldBack) /\ Sent \o c \in Seq(Atom)
  BY <1>1, <1>2, ReconcilerFeeds, CatFacts
<1>4. PassedOn(rec, c) \in Seq(Atom)
  BY <1>1, <1>2, ReconcilerPasses
<1>5. relayed \o PassedOn(rec, c) \in Words
  BY <1>2, <1>4, CatFacts, AtomsAre
<1> QED
  BY <1>3, <1>5, KnowsTyped

LEMMA FlushTyped ==
  ASSUME RelayInv, tools \in Toolbox, via = "reconcile", link = "open", NEW bytes \in Seq(Atom), Flushes(rec, bytes)
  PROVE  /\ rec'.residual \in Words /\ rec'.heard \in Seq(Nat) /\ rec'.tail \in Seq(Nat)
         /\ added' \in Deltas /\ relayed' \in Words
<1> DEFINE end  == IF Residue(rec.residual \o bytes) = <<>> THEN bytes ELSE Append(bytes, NL)
           last == Fed(rec, end)
           front == relayed \o PassedOn(rec, end)
           back == Synthesized(last.heard, last.tail)
<1>1. /\ relayed' = front \o back
      /\ added' = DeltaCalls(last.heard, last.tail)
      /\ rec' = [last EXCEPT !.tail = <<>>]
  BY DEF Flushes
<1>2. end \in Seq(Atom)
  <2>1. NL \in Atom
    BY AtomsAre
  <2> QED
    BY <2>1, AppendProperties
<1>3. last.residual \in Words /\ last.heard \in Seq(Nat) /\ last.tail \in Seq(Nat) /\ front \in Words
  <2> HIDE DEF end
  <2> QED
    BY <1>2, FedTyped
<1>4. last = [residual |-> last.residual, heard |-> last.heard, tail |-> last.tail]
  BY DEF Fed
<1> HIDE DEF end, last, front
<1>5. rec'.residual \in Words /\ rec'.heard \in Seq(Nat) /\ rec'.tail \in Seq(Nat)
  <2>1. rec' = [residual |-> last.residual, heard |-> last.heard, tail |-> <<>>]
    BY <1>1, <1>4
  <2> QED
    BY <1>3, <2>1, EmptySeq
<1>6. added' \in Deltas
  <2>1. answer \in Seq(EventType)
    BY DEF RelayInv
  <2> QED
    BY <1>1, <1>3, <2>1, DeltasTyped
<1>7. back \in Seq(Atom)
  <2>1. Len(answer) \in Nat
    BY LenProperties DEF RelayInv
  <2>2. <<>> \in Seq(Atom) /\ Residue(<<>>) = <<>>
    BY LinesAre, EmptySeq
  <2> QED
    BY <1>3, <2>1, <2>2, EndIsSent
<1> HIDE DEF back
<1>8. relayed' \in Words
  BY <1>1, <1>3, <1>7, CatFacts, AtomsAre
<1> QED
  BY <1>5, <1>6, <1>8

LEMMA ClosesTyped ==
  ASSUME TypeInv, link = "open", NEW bytes \in Seq(Atom), Closes(bytes), via' = via,
         Ollama => LocalsTyped(Converted(bytes)) /\ Converted(bytes).lines \in Seq(NdLines)
  PROVE  RestTyped'
<1>1. RestTyped /\ RelayInv /\ tools \in Toolbox /\ answer \in Seq(EventType)
  BY DEF TypeInv, CallsInv, RelayInv
<1>2. CASE via = "plain"
  <2>1. relayed' = relayed \o bytes /\ UNCHANGED <<rec, added, oll, lines>>
    BY <1>2 DEF Closes, Ollama
  <2>2. relayed \o bytes \in Words
    BY <1>1, CatFacts, AtomsAre DEF RestTyped
  <2> QED
    BY <1>1, <2>1, <2>2 DEF RestTyped, LocalsTyped
<1>3. CASE via = "reconcile"
  <2>1. Flushes(rec, bytes) /\ UNCHANGED <<oll, lines>>
    BY <1>3 DEF Closes, Ollama
  <2>2. /\ rec'.residual \in Words /\ rec'.heard \in Seq(Nat) /\ rec'.tail \in Seq(Nat)
        /\ added' \in Deltas /\ relayed' \in Words
    BY <1>1, <1>3, <2>1, FlushTyped
  <2> QED
    BY <1>1, <2>1, <2>2 DEF RestTyped, LocalsTyped
<1>4. CASE Ollama
  <2> DEFINE o == Converted(bytes)
  <2>1. /\ oll' = Locals(o) /\ UNCHANGED <<rec, added, relayed>>
        /\ lines' = IF o.over = "no" THEN Append(o.lines, DoneLine(o.heard)) ELSE o.lines
    BY <1>4 DEF Closes, Ollama
  <2>2. LocalsTyped(o) /\ o.lines \in Seq(NdLines)
    BY <1>4
  <2> HIDE DEF o
  <2>3. lines' \in Seq(NdLines)
    <3>1. DoneLine(o.heard) \in NdLines
      BY <1>1, <2>2, DoneLineTyped DEF LocalsTyped
    <3> HIDE DEF NdLines
    <3>2. Append(o.lines, DoneLine(o.heard)) \in Seq(NdLines)
      BY <2>2, <3>1, AppendProperties
    <3> QED
      BY <2>1, <2>2, <3>2
  <2>4. oll'.buf = o.buf /\ oll'.heard = o.heard /\ oll'.over = o.over
    BY <2>1 DEF Locals
  <2> QED
    BY <1>1, <2>1, <2>2, <2>3, <2>4 DEF RestTyped, LocalsTyped
<1> QED
  BY <1>1, <1>2, <1>3, <1>4 DEF RelayInv, Ollama

LEMMA RelaysTyped == TypeInv /\ Relays => RestTyped'
<1> SUFFICES ASSUME TypeInv, Relays PROVE RestTyped'
  OBVIOUS
<1>1. RestTyped /\ RelayInv /\ link = "open" /\ added' = added
  BY DEF TypeInv, CallsInv, Relays
<1>2. PICK n \in 1..MaxChunk :
        LET chunk == SubSeq(Wire, at + 1, at + n) IN
        /\ at + n <= Len(Wire)
        /\ \/ /\ via = "plain"
              /\ relayed' = relayed \o chunk
              /\ UNCHANGED <<link, rec, oll, lines>>
           \/ /\ via = "reconcile"
              /\ rec' = Fed(rec, chunk) /\ relayed' = relayed \o PassedOn(rec, chunk)
              /\ UNCHANGED <<link, oll, lines>>
           \/ /\ Ollama
              /\ oll' = Locals(Converted(chunk)) /\ lines' = Converted(chunk).lines
              /\ UNCHANGED <<rec, relayed>>
  BY DEF Relays
<1> DEFINE chunk == SubSeq(Wire, at + 1, at + n)
<1>3. n \in Nat /\ at + n <= Len(Wire)
  BY <1>2, RelayAssumption
<1>4. chunk \in Seq(Atom)
  BY <1>1, <1>3, ChunkExtends
<1>5. Ollama => LocalsTyped(Converted(chunk)) /\ Converted(chunk).lines \in Seq(NdLines)
  BY <1>1, <1>3, ConvertsChunk DEF TypeInv
<1>6. \/ via = "plain" /\ relayed' = relayed \o chunk /\ UNCHANGED <<rec, oll, lines>>
      \/ via = "reconcile" /\ rec' = Fed(rec, chunk) /\ relayed' = relayed \o PassedOn(rec, chunk) /\ UNCHANGED <<oll, lines>>
      \/ Ollama /\ oll' = Locals(Converted(chunk)) /\ lines' = Converted(chunk).lines /\ UNCHANGED <<rec, relayed>>
  BY <1>2
<1> HIDE DEF chunk
<1>7. CASE via = "plain" /\ relayed' = relayed \o chunk /\ UNCHANGED <<rec, oll, lines>>
  <2>1. relayed \o chunk \in Words
    BY <1>1, <1>4, CatFacts, AtomsAre DEF RestTyped
  <2> QED
    BY <1>1, <1>7, <2>1 DEF RestTyped, LocalsTyped
<1>8. CASE via = "reconcile" /\ rec' = Fed(rec, chunk) /\ relayed' = relayed \o PassedOn(rec, chunk) /\ UNCHANGED <<oll, lines>>
  <2>1. /\ Fed(rec, chunk).residual \in Words /\ Fed(rec, chunk).heard \in Seq(Nat) /\ Fed(rec, chunk).tail \in Seq(Nat)
        /\ relayed \o PassedOn(rec, chunk) \in Words
    BY <1>1, <1>4, <1>8, FedTyped
  <2> QED
    BY <1>1, <1>8, <2>1 DEF RestTyped, LocalsTyped
<1>9. CASE Ollama /\ oll' = Locals(Converted(chunk)) /\ lines' = Converted(chunk).lines /\ UNCHANGED <<rec, relayed>>
  <2> DEFINE o == Converted(chunk)
  <2>1. LocalsTyped(o) /\ o.lines \in Seq(NdLines) /\ oll' = Locals(o) /\ lines' = o.lines
    BY <1>5, <1>9
  <2> HIDE DEF o
  <2>2. oll'.buf = o.buf /\ oll'.heard = o.heard /\ oll'.over = o.over
    BY <2>1 DEF Locals
  <2> QED
    BY <1>1, <1>9, <2>1, <2>2 DEF RestTyped, LocalsTyped
<1> QED
  BY <1>6, <1>7, <1>8, <1>9

LEMMA EndTyped == TypeInv /\ UpstreamEnds => RestTyped'
<1> SUFFICES ASSUME TypeInv, UpstreamEnds PROVE RestTyped'
  OBVIOUS
<1>1. link = "open" /\ via' = via /\ Closes(<<>>) /\ at = Len(Wire)
  BY DEF UpstreamEnds
<1>2. Len(Wire) \in Nat
  BY WireSays, LenProperties DEF TypeInv, CallsInv, RelayInv
<1>3. Ollama => LocalsTyped(Converted(<<>>)) /\ Converted(<<>>).lines \in Seq(NdLines)
  <2> DEFINE lo == at + 1
             hi == at + 0
  <2>1. hi <= Len(Wire) /\ 0 \in Nat /\ lo \in Int /\ hi \in Int /\ lo > hi
    BY <1>1, <1>2
  <2>2. SubSeq(Wire, lo, hi) = <<>>
    <3> HIDE DEF lo, hi
    <3> QED
      BY <2>1, SubSeqEmpty
  <2> QED
    BY <1>1, <2>1, <2>2, ConvertsChunk DEF TypeInv
<1> QED
  BY <1>1, <1>3, ClosesTyped, EmptySeq

LEMMA BreakTyped == TypeInv /\ BreaksOff => RestTyped'
<1> SUFFICES ASSUME TypeInv, BreaksOff PROVE RestTyped'
  OBVIOUS
<1>1. link = "open" /\ via' = via /\ Closes(ErrorBytes)
  BY DEF BreaksOff
<1>2. ErrorBytes \in Seq(Atom)
  <2>1. Failure \in Nat
    BY LenProperties DEF Failure, TypeInv, CallsInv, RelayInv
  <2> QED
    BY <2>1, ErrorSays, EmptySeq
<1>3. Ollama => LocalsTyped(Converted(ErrorBytes)) /\ Converted(ErrorBytes).lines \in Seq(NdLines)
  BY <1>1, ConvertsBreak DEF TypeInv
<1> QED
  BY <1>1, <1>2, <1>3, ClosesTyped

LEMMA StepKeepsTypes == TypeInv /\ [RelayNext]_relayVars => TypeInv'
<1> SUFFICES ASSUME TypeInv, [RelayNext]_relayVars PROVE TypeInv'
  OBVIOUS
<1>1. CallsInv'
  BY StepKeepsCalls DEF TypeInv
<1>2. OllamaInv'
  BY RelaysKeepsOllama, EndKeepsOllama, BreakKeepsOllama, OthersKeepOllama DEF TypeInv, RelayNext
<1>3. RestTyped'
  <2>1. CASE ClientLeaves \/ UNCHANGED relayVars
    BY <2>1 DEF TypeInv, RestTyped, LocalsTyped, ClientLeaves, relayVars
  <2> QED
    BY <2>1, RelaysTyped, EndTyped, BreakTyped DEF RelayNext
<1> QED
  BY <1>1, <1>2, <1>3 DEF TypeInv

(* RelayTypeOK: the locals of the meter, the reconciler and                *)
(* stream_response, and what the clients have, are of their kinds, for     *)
(* every answer and every way to cut it.                                   *)
THEOREM RelayTypeCorrect == RelaySpec => []RelayTypeOK
<1>1. RelayInit => TypeInv
  BY CallsInvInitially, OllamaInitially, RestTypedInitially DEF TypeInv
<1>2. TypeInv => RelayTypeOK
  BY RelayInvTypes DEF TypeInv, CallsInv, RelayInv, RestTyped, LocalsTyped, MeterTyped, RelayTypeOK, NdLines
<1> QED
  BY <1>1, <1>2, StepKeepsTypes, PTL DEF RelaySpec
================================================================================
