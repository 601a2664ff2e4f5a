---------------------------- MODULE Exl3StreamProofs ----------------------------
(***************************************************************************)
(* The text splitter of the exl3 backend, for all texts and all ways to    *)
(* cut them into pieces.                                                   *)
(***************************************************************************)
EXTENDS Exl3Stream, Integers, SequenceTheorems, WellFoundedInduction, TLAPS

--------------------------------------------------------------------------------
(* Numbers                                                                 *)

LEMMA SmallestExists ==
  ASSUME NEW T \in SUBSET Nat, T # {}
  PROVE  \E x \in T : \A y \in T : x <= y
<1> DEFINE R == OpToRel(<, Nat)
<1>1. IsWellFoundedOn(R, Nat)
  BY NatLessThanWellFounded
<1>2. \A x, y \in Nat : <<y, x>> \in R <=> y < x
  BY DEF OpToRel
<1> HIDE DEF R
<1>3. PICK x \in T : \A y \in T : ~(<<y, x>> \in R)
  BY <1>1, WFMin
<1>4. ASSUME NEW y \in T
      PROVE  x <= y
  <2>1. ~(y < x)
    BY <1>2, <1>3, <1>4
  <2> QED
    BY <2>1
<1> QED
  BY <1>4

LEMMA NatSetInduction ==
  ASSUME NEW S, 0 \in S, \A n \in Nat : n \in S => n + 1 \in S
  PROVE  Nat \subseteq S
<1> SUFFICES ASSUME Nat \ S # {} PROVE FALSE
  OBVIOUS
<1>1. PICK x \in Nat \ S : \A y \in Nat \ S : x <= y
  BY SmallestExists
<1>2. x # 0 /\ x - 1 \in Nat
  BY <1>1
<1>3. x - 1 \in S
  BY <1>1, <1>2
<1>4. (x - 1) + 1 \in S
  BY <1>2, <1>3
<1> QED
  BY <1>1, <1>4

LEMMA MinIsSmallest ==
  ASSUME NEW T \in SUBSET Nat, T # {}
  PROVE  Min(T) \in T /\ \A y \in T : Min(T) <= y
  BY SmallestExists DEF Min

LEMMA MinIsOnly ==
  ASSUME NEW T \in SUBSET Nat, NEW x \in T, \A y \in T : x <= y
  PROVE  Min(T) = x
<1>1. Min(T) \in T /\ \A y \in T : Min(T) <= y
  BY MinIsSmallest
<1>2. Min(T) <= x /\ x <= Min(T) /\ x \in Nat /\ Min(T) \in Nat
  BY <1>1
<1> QED
  BY <1>2

LEMMA MaxIsLargest ==
  ASSUME NEW T \in SUBSET Nat, T # {}, NEW bound \in Nat, \A x \in T : x <= bound
  PROVE  Max(T) \in T /\ \A x \in T : Max(T) >= x
<1> DEFINE U == {bound - x : x \in T}
<1>1. U \in SUBSET Nat /\ U # {}
  <2>1. \A x \in T : bound - x \in Nat
    OBVIOUS
  <2> QED
    BY <2>1, Zenon
<1>2. PICK d \in U : \A e \in U : d <= e
  <2> HIDE DEF U
  <2> QED
    BY <1>1, SmallestExists
<1>3. PICK x \in T : d = bound - x
  OBVIOUS
<1>4. \A y \in T : x >= y
  <2>1. ASSUME NEW y \in T
        PROVE  x >= y
    <3>1. d <= bound - y
      BY <1>2
    <3> QED
      BY <3>1, <1>3
  <2> QED
    BY <2>1
<1> QED
  BY <1>4, Zenon DEF Max

(* A loop that stays in a set, step by step.                               *)
IsLoop(f, F, b, n) == f[0] = b /\ \A i \in 1..n : f[i] = F[f[i - 1]]

LEMMA LoopExists ==
  ASSUME NEW B, NEW F \in [B -> B], NEW b \in B, NEW n \in Nat
  PROVE  \E f \in [0..n -> B] : IsLoop(f, F, b, n)
<1> DEFINE Is(f, k) == IsLoop(f, F, b, k)
           S == {k \in Nat : \E f \in [0..k -> B] : Is(f, k)}
<1>1. 0 \in S
  <2> DEFINE f == [i \in 0..0 |-> b]
  <2>1. f \in [0..0 -> B] /\ f[0] = b
    OBVIOUS
  <2>2. 1..0 = {}
    OBVIOUS
  <2> HIDE DEF f
  <2>3. Is(f, 0)
    BY <2>1, <2>2 DEF IsLoop
  <2> QED
    BY <2>1, <2>3
<1>2. ASSUME NEW k \in Nat, k \in S
      PROVE  k + 1 \in S
  <2>1. PICK f \in [0..k -> B] : Is(f, k)
    BY <1>2
  <2> DEFINE g == [i \in 0..(k + 1) |-> IF i = k + 1 THEN F[f[k]] ELSE f[i]]
  <2>2. g \in [0..(k + 1) -> B]
    <3>1. k \in 0..k /\ \A i \in 0..(k + 1) : i = k + 1 \/ i \in 0..k
      OBVIOUS
    <3> QED
      BY <2>1, <3>1
  <2>3. g[0] = b
    BY <2>1 DEF IsLoop
  <2>4. ASSUME NEW i \in 1..(k + 1)
        PROVE  g[i] = F[g[i - 1]]
    <3>1. CASE i = k + 1
      <4>1. i \in 0..(k + 1) /\ i - 1 = k /\ k \in 0..(k + 1) /\ k # k + 1
        BY <3>1
      <4> QED
        BY <3>1, <4>1
    <3>2. CASE i # k + 1
      <4>1. i \in 1..k /\ i \in 0..(k + 1) /\ i - 1 \in 0..(k + 1) /\ i - 1 # k + 1
        BY <3>2
      <4>2. f[i] = F[f[i - 1]]
        BY <2>1, <4>1 DEF IsLoop
      <4>3. g[i] = f[i] /\ g[i - 1] = f[i - 1]
        BY <3>2, <4>1
      <4> QED
        BY <4>2, <4>3
    <3> QED
      BY <3>1, <3>2
  <2> HIDE DEF g
  <2>5. Is(g, k + 1)
    BY <2>3, <2>4 DEF IsLoop
  <2> QED
    BY <2>2, <2>5
<1>3. Nat \subseteq S
  <2> HIDE DEF S
  <2> QED
    BY <1>1, <1>2, NatSetInduction
<1> QED
  BY <1>3

--------------------------------------------------------------------------------
(* Pieces of text                                                          *)

LEMMA CatIs ==
  ASSUME NEW s \in Piece, NEW t \in Piece
  PROVE  /\ s \o t \in Piece /\ Len(s \o t) = Len(s) + Len(t)
         /\ Len(s) \in Nat /\ Len(t) \in Nat
         /\ \A i \in 1..Len(s) : (s \o t)[i] = s[i]
         /\ \A i \in 1..Len(t) : (s \o t)[Len(s) + i] = t[i]
  BY DEF Piece

LEMMA SubIs ==
  ASSUME NEW s \in Piece, NEW m \in 1..(Len(s) + 1), NEW n \in 0..Len(s), m <= n + 1
  PROVE  /\ SubSeq(s, m, n) \in Piece /\ Len(SubSeq(s, m, n)) = n + 1 - m
         /\ \A i \in 1..(n + 1 - m) : SubSeq(s, m, n)[i] = s[m + i - 1]
<1>1. \A i \in m..n : s[i] \in Symbol
  BY DEF Piece
<1>2. SubSeq(s, m, n) \in Seq(Symbol)
  BY <1>1 DEF Piece
<1> QED
  BY <1>2 DEF Piece

LEMMA SamePiece ==
  ASSUME NEW s \in Piece, NEW t \in Piece, Len(s) = Len(t), \A i \in 1..Len(s) : s[i] = t[i]
  PROVE  s = t
  BY SeqEqual DEF Piece

LEMMA EmptyIs ==
  /\ <<>> \in Piece /\ Len(<<>>) = 0
  /\ \A s \in Piece : s \o <<>> = s /\ <<>> \o s = s /\ (Len(s) = 0 => s = <<>>)
  BY DEF Piece

LEMMA CatAssoc ==
  ASSUME NEW a \in Piece, NEW b \in Piece, NEW c \in Piece
  PROVE  (a \o b) \o c = a \o (b \o c)
  BY DEF Piece

(* Ends of a text, and of two texts joined.                                *)
LEMMA TextSplits ==
  ASSUME NEW s \in Piece, NEW k \in 0..Len(s)
  PROVE  /\ SubSeq(s, 1, k) \in Piece /\ Len(SubSeq(s, 1, k)) = k
         /\ SubSeq(s, k + 1, Len(s)) \in Piece /\ Len(SubSeq(s, k + 1, Len(s))) = Len(s) - k
         /\ s = SubSeq(s, 1, k) \o SubSeq(s, k + 1, Len(s))
<1>1. Len(s) \in Nat
  BY DEF Piece
<1>2. /\ k + 1 \in 1..(Len(s) + 1) /\ Len(s) \in 0..Len(s) /\ k + 1 <= Len(s) + 1
      /\ 1 \in 1..(Len(s) + 1) /\ 1 <= k + 1 /\ k \in 0..Len(s)
      /\ 1 \in 1..Len(s) + 1 /\ k \in (1 - 1)..Len(s) /\ Len(s) \in k..Len(s)
  BY <1>1
<1>3. SubSeq(s, 1, k) \in Piece /\ Len(SubSeq(s, 1, k)) = k + 1 - 1
  BY <1>2, SubIs
<1>4. SubSeq(s, k + 1, Len(s)) \in Piece /\ Len(SubSeq(s, k + 1, Len(s))) = Len(s) + 1 - (k + 1)
  BY <1>2, SubIs
<1>5. SubSeq(s, 1, k) \o SubSeq(s, k + 1, Len(s)) = SubSeq(s, 1, Len(s))
  BY <1>2, ConcatAdjacentSubSeq DEF Piece
<1>6. SubSeq(s, 1, Len(s)) = s
  BY SubSeqFull DEF Piece
<1>7. k + 1 - 1 = k /\ Len(s) + 1 - (k + 1) = Len(s) - k
  BY <1>1
<1> DEFINE a == SubSeq(s, 1, k)
           b == SubSeq(s, k + 1, Len(s))
<1> HIDE DEF a, b
<1>8. a \in Piece /\ Len(a) = k /\ b \in Piece /\ Len(b) = Len(s) - k
  BY <1>3, <1>4, <1>7 DEF a, b
<1>9. s = a \o b
  BY <1>5, <1>6 DEF a, b
<1> QED
  BY <1>8, <1>9 DEF a, b

LEMMA JoinedFront ==
  ASSUME NEW p \in Piece, NEW d \in Piece, NEW k \in 0..Len(d)
  PROVE  SubSeq(p \o d, 1, Len(p) + k) = p \o SubSeq(d, 1, k)
<1> DEFINE u == p \o d
           b == SubSeq(d, 1, k)
           a == SubSeq(u, 1, Len(p) + k)
<1>1. /\ u \in Piece /\ Len(u) = Len(p) + Len(d) /\ Len(p) \in Nat /\ Len(d) \in Nat
      /\ \A i \in 1..Len(p) : u[i] = p[i]
      /\ \A i \in 1..Len(d) : u[Len(p) + i] = d[i]
  BY CatIs
<1>2. b \in Piece /\ Len(b) = k /\ \A i \in 1..k : b[i] = d[i]
  <2>1. 1 \in 1..(Len(d) + 1) /\ 1 <= k + 1 /\ k + 1 - 1 = k
    BY <1>1
  <2>2. /\ b \in Piece /\ Len(b) = k + 1 - 1
        /\ \A i \in 1..(k + 1 - 1) : b[i] = d[1 + i - 1]
    BY <2>1, SubIs
  <2>3. \A i \in 1..k : 1 + i - 1 = i
    OBVIOUS
  <2> QED
    BY <2>1, <2>2, <2>3
<1>3. a \in Piece /\ Len(a) = Len(p) + k /\ \A i \in 1..(Len(p) + k) : a[i] = u[i]
  <2>1. /\ 1 \in 1..(Len(u) + 1) /\ Len(p) + k \in 0..Len(u) /\ 1 <= Len(p) + k + 1
        /\ Len(p) + k + 1 - 1 = Len(p) + k
    BY <1>1
  <2> HIDE DEF u
  <2>2. /\ a \in Piece /\ Len(a) = Len(p) + k + 1 - 1
        /\ \A i \in 1..(Len(p) + k + 1 - 1) : a[i] = u[1 + i - 1]
    BY <1>1, <2>1, SubIs
  <2>3. \A i \in 1..(Len(p) + k) : 1 + i - 1 = i
    BY <1>1
  <2> QED
    BY <2>1, <2>2, <2>3
<1> HIDE DEF u, a, b
<1>4. /\ p \o b \in Piece /\ Len(p \o b) = Len(p) + Len(b)
      /\ \A i \in 1..Len(p) : (p \o b)[i] = p[i]
      /\ \A i \in 1..Len(b) : (p \o b)[Len(p) + i] = b[i]
  BY <1>2, CatIs
<1>5. ASSUME NEW i \in 1..Len(a)
      PROVE  a[i] = (p \o b)[i]
  <2>1. a[i] = u[i]
    BY <1>3
  <2>2. CASE i <= Len(p)
    BY <2>1, <2>2, <1>1, <1>4
  <2>3. CASE ~(i <= Len(p))
    <3>1. PICK j \in 1..k : i = Len(p) + j
      <4>1. i - Len(p) \in 1..k /\ i = Len(p) + (i - Len(p))
        BY <1>1, <1>3, <2>3
      <4> QED
        BY <4>1
    <3>2. j \in 1..Len(d) /\ j \in 1..Len(b)
      BY <1>1, <1>2
    <3> QED
      BY <2>1, <3>1, <3>2, <1>1, <1>2, <1>4
  <2> QED
    BY <2>2, <2>3
<1>6. Len(a) = Len(p \o b)
  BY <1>2, <1>3, <1>4
<1> QED
  BY <1>3, <1>4, <1>5, <1>6, SamePiece DEF a, b, u

LEMMA JoinedBack ==
  ASSUME NEW p \in Piece, NEW d \in Piece, NEW m \in 1..(Len(d) + 1)
  PROVE  SubSeq(p \o d, Len(p) + m, Len(p \o d)) = SubSeq(d, m, Len(d))
<1>1. Len(p \o d) = Len(p) + Len(d) /\ Len(p) \in Nat /\ Len(d) \in Nat
  BY CatIs
<1>2. CASE m = Len(d) + 1
  <2>1. Len(p \o d) < Len(p) + m /\ Len(d) < m /\ Len(p) + m \in Int /\ Len(p \o d) \in Int
    BY <1>1, <1>2
  <2>2. SubSeq(p \o d, Len(p) + m, Len(p \o d)) = <<>>
    BY <2>1, SubSeqEmpty
  <2>3. SubSeq(d, m, Len(d)) = <<>>
    BY <1>1, <2>1, SubSeqEmpty
  <2> QED
    BY <2>2, <2>3
<1>3. CASE m # Len(d) + 1
  <2>1. /\ Len(p) + m \in (Len(p) + 1)..(Len(p) + Len(d))
        /\ Len(p) + Len(d) \in (Len(p) + 1)..(Len(p) + Len(d))
        /\ Len(p) + m - Len(p) = m /\ Len(p) + Len(d) - Len(p) = Len(d)
    BY <1>1, <1>3
  <2>2. SubSeq(p \o d, Len(p) + m, Len(p) + Len(d)) = SubSeq(d, Len(p) + m - Len(p), Len(p) + Len(d) - Len(p))
    BY <2>1, SubSeqOfConcat2 DEF Piece
  <2> QED
    BY <1>1, <2>1, <2>2
<1> QED
  BY <1>2, <1>3

LEMMA JoinedTail ==
  ASSUME NEW s \in Piece, NEW t \in Piece, NEW k \in 0..Len(s)
  PROVE  SubSeq(s \o t, k + 1, Len(s \o t)) = SubSeq(s, k + 1, Len(s)) \o t
<1> DEFINE a == SubSeq(s, 1, k)
           b == SubSeq(s, k + 1, Len(s))
<1>1. a \in Piece /\ Len(a) = k /\ b \in Piece /\ s = a \o b
  BY TextSplits
<1> HIDE DEF a, b
<1>2. s \o t = a \o (b \o t)
  <2>1. (a \o b) \o t = a \o (b \o t)
    BY <1>1, CatAssoc
  <2> QED
    BY <1>1, <2>1, Zenon
<1>3. b \o t \in Piece /\ Len(b \o t) \in Nat
  <2>1. b \o t \in Piece
    BY <1>1, CatIs
  <2> QED
    BY <2>1 DEF Piece
<1>4. SubSeq(a \o (b \o t), Len(a) + 1, Len(a \o (b \o t))) = SubSeq(b \o t, 1, Len(b \o t))
  <2> DEFINE d == b \o t
  <2>1. d \in Piece /\ 1 \in 1..(Len(d) + 1)
    BY <1>3
  <2> HIDE DEF d
  <2>2. SubSeq(a \o d, Len(a) + 1, Len(a \o d)) = SubSeq(d, 1, Len(d))
    BY <1>1, <2>1, JoinedBack
  <2> QED
    BY <2>2 DEF d
<1>5. SubSeq(b \o t, 1, Len(b \o t)) = b \o t
  BY <1>3, SubSeqFull DEF Piece
<1> QED
  BY <1>1, <1>2, <1>4, <1>5 DEF b

--------------------------------------------------------------------------------
(* Tags                                                                    *)

Tag == {tag \in Piece : Len(tag) = 2}

LEMMA TagsAre == ThinkOpen \in Tag /\ ThinkClose \in Tag /\ ToolOpen \in Tag /\ ToolClose \in Tag
  BY DEF Tag, Piece, Symbol, ThinkOpen, ThinkClose, ToolOpen, ToolClose

LEMMA AtIs ==
  ASSUME NEW s \in Piece, NEW tag \in Tag
  PROVE  At(s, tag) = {i \in 1..(Len(s) - 1) : s[i] = tag[1] /\ s[i + 1] = tag[2]}
<1>1. ASSUME NEW i \in 1..(Len(s) - 1)
      PROVE  SubSeq(s, i, i + 1) = tag <=> s[i] = tag[1] /\ s[i + 1] = tag[2]
  <2>1. i \in 1..(Len(s) + 1) /\ i + 1 \in 0..Len(s) /\ i <= (i + 1) + 1 /\ Len(s) \in Nat
    BY DEF Piece
  <2>2. /\ SubSeq(s, i, i + 1) \in Piece /\ Len(SubSeq(s, i, i + 1)) = 2
        /\ SubSeq(s, i, i + 1)[1] = s[i] /\ SubSeq(s, i, i + 1)[2] = s[i + 1]
    <3>1. /\ SubSeq(s, i, i + 1) \in Piece /\ Len(SubSeq(s, i, i + 1)) = (i + 1) + 1 - i
          /\ \A j \in 1..((i + 1) + 1 - i) : SubSeq(s, i, i + 1)[j] = s[i + j - 1]
      BY <2>1, SubIs
    <3>2. (i + 1) + 1 - i = 2 /\ i + 1 - 1 = i /\ i + 2 - 1 = i + 1
      BY <2>1
    <3> QED
      BY <3>1, <3>2
  <2>3. tag \in Piece /\ Len(tag) = 2
    BY DEF Tag
  <2>4. 1..2 = {1, 2}
    OBVIOUS
  <2> QED
    BY <2>2, <2>3, <2>4, SamePiece
<1> QED
  BY <1>1 DEF At

(* The first occurrence, and what lies on both sides of it.                *)
LEMMA FirstIs ==
  ASSUME NEW s \in Piece, NEW tag \in Tag, Has(s, tag)
  PROVE  /\ First(s, tag) \in At(s, tag) /\ \A i \in At(s, tag) : First(s, tag) <= i
         /\ First(s, tag) \in 1..(Len(s) - 1) /\ Len(s) \in Nat
         /\ Before(s, tag) \in Piece /\ Len(Before(s, tag)) = First(s, tag) - 1
         /\ After(s, tag) \in Piece /\ Len(After(s, tag)) = Len(s) - First(s, tag) - 1
<1>1. At(s, tag) \in SUBSET Nat /\ At(s, tag) # {}
  BY DEF At, Has
<1>2. First(s, tag) \in At(s, tag) /\ \A i \in At(s, tag) : First(s, tag) <= i
  BY <1>1, MinIsSmallest DEF First
<1>3. First(s, tag) \in 1..(Len(s) - 1) /\ Len(s) \in Nat
  BY <1>2 DEF At, Piece
<1>4. Before(s, tag) \in Piece /\ Len(Before(s, tag)) = (First(s, tag) - 1) + 1 - 1
  <2>1. First(s, tag) - 1 \in 0..Len(s) /\ 1 \in 1..(Len(s) + 1) /\ 1 <= First(s, tag) - 1 + 1
    BY <1>3
  <2> QED
    BY <2>1, SubIs DEF Before
<1>5. After(s, tag) \in Piece /\ Len(After(s, tag)) = Len(s) + 1 - (First(s, tag) + 2)
  <2>1. Len(s) \in 0..Len(s) /\ First(s, tag) + 2 \in 1..(Len(s) + 1) /\ First(s, tag) + 2 <= Len(s) + 1
    BY <1>3
  <2> QED
    BY <2>1, SubIs DEF After
<1> QED
  BY <1>2, <1>3, <1>4, <1>5

LEMMA FirstIsAt ==
  ASSUME NEW s \in Piece, NEW tag \in Tag, NEW f \in At(s, tag), \A i \in At(s, tag) : f <= i
  PROVE  Has(s, tag) /\ First(s, tag) = f
<1>1. At(s, tag) \in SUBSET Nat
  BY DEF At
<1> QED
  BY <1>1, MinIsOnly DEF Has, First

From(s, tag) == SubSeq(s, First(s, tag), Len(s))

(* What is found in a text is found in a longer one.                       *)
LEMMA FoundStays ==
  ASSUME NEW s \in Piece, NEW t \in Piece, NEW tag \in Tag, Has(s, tag)
  PROVE  /\ Has(s \o t, tag) /\ First(s \o t, tag) = First(s, tag)
         /\ Before(s \o t, tag) = Before(s, tag)
         /\ After(s \o t, tag) = After(s, tag) \o t
         /\ From(s \o t, tag) = From(s, tag) \o t
<1> DEFINE f == First(s, tag)
           u == s \o t
<1>1. /\ f \in At(s, tag) /\ \A i \in At(s, tag) : f <= i
      /\ f \in 1..(Len(s) - 1) /\ Len(s) \in Nat /\ After(s, tag) \in Piece /\ Before(s, tag) \in Piece
  BY FirstIs
<1>2. /\ u \in Piece /\ Len(u) = Len(s) + Len(t) /\ Len(t) \in Nat
      /\ \A i \in 1..Len(s) : u[i] = s[i]
  BY CatIs
<1> HIDE DEF u, f
<1>3. f \in At(u, tag)
  <2>1. f \in 1..(Len(u) - 1) /\ f \in 1..Len(s) /\ f + 1 \in 1..Len(s)
    BY <1>1, <1>2
  <2>2. s[f] = tag[1] /\ s[f + 1] = tag[2]
    BY <1>1, AtIs
  <2>3. u[f] = tag[1] /\ u[f + 1] = tag[2]
    BY <2>1, <2>2, <1>2
  <2> QED
    BY <2>1, <2>3, <1>2, AtIs
<1>4. ASSUME NEW i \in At(u, tag)
      PROVE  f <= i
  <2>1. i \in 1..(Len(u) - 1) /\ u[i] = tag[1] /\ u[i + 1] = tag[2]
    BY <1>2, AtIs
  <2>2. CASE i < Len(s)
    <3>1. i \in 1..(Len(s) - 1) /\ i \in 1..Len(s) /\ i + 1 \in 1..Len(s)
      BY <1>1, <2>1, <2>2
    <3>2. i \in At(s, tag)
      BY <3>1, <2>1, <1>2, AtIs
    <3> QED
      BY <3>2, <1>1
  <2>3. CASE ~(i < Len(s))
    BY <2>1, <2>3, <1>1
  <2> QED
    BY <2>2, <2>3
<1>5. Has(u, tag) /\ First(u, tag) = f
  BY <1>2, <1>3, <1>4, FirstIsAt
<1>6. SubSeq(u, 1, f - 1) = SubSeq(s, 1, f - 1)
  <2>1. CASE f = 1
    BY <2>1, SubSeqEmpty
  <2>2. CASE f # 1
    <3>1. 1 \in 1..Len(s) /\ f - 1 \in 1..Len(s)
      BY <2>2, <1>1
    <3> QED
      BY <3>1, SubSeqOfConcat1 DEF u, Piece
  <2> QED
    BY <2>1, <2>2
<1>7. SubSeq(u, f + 2, Len(u)) = SubSeq(s, f + 2, Len(s)) \o t
  <2>1. f + 1 \in 0..Len(s) /\ (f + 1) + 1 = f + 2
    BY <1>1
  <2>2. SubSeq(u, (f + 1) + 1, Len(u)) = SubSeq(s, (f + 1) + 1, Len(s)) \o t
    BY <2>1, JoinedTail DEF u
  <2> QED
    BY <2>1, <2>2
<1>8. SubSeq(u, f, Len(u)) = SubSeq(s, f, Len(s)) \o t
  <2>1. f - 1 \in 0..Len(s) /\ (f - 1) + 1 = f
    BY <1>1
  <2>2. SubSeq(u, (f - 1) + 1, Len(u)) = SubSeq(s, (f - 1) + 1, Len(s)) \o t
    BY <2>1, JoinedTail DEF u
  <2> QED
    BY <2>1, <2>2
<1> QED
  BY <1>5, <1>6, <1>7, <1>8 DEF u, f, Before, After, From

(* A tag that does not begin in the first of two texts is one of the other.*)
LEMMA FoundBehind ==
  ASSUME NEW p \in Piece, NEW d \in Piece, NEW tag \in Tag,
         \A i \in At(p \o d, tag) : i > Len(p)
  PROVE  /\ Has(p \o d, tag) <=> Has(d, tag)
         /\ Has(d, tag) => /\ Before(p \o d, tag) = p \o Before(d, tag)
                           /\ After(p \o d, tag) = After(d, tag)
                           /\ From(p \o d, tag) = From(d, tag)
<1> DEFINE u == p \o d
<1>1. /\ u \in Piece /\ Len(u) = Len(p) + Len(d) /\ Len(p) \in Nat /\ Len(d) \in Nat
      /\ \A i \in 1..Len(d) : u[Len(p) + i] = d[i]
  BY CatIs
<1> HIDE DEF u
<1>2. ASSUME NEW i \in At(d, tag)
      PROVE  Len(p) + i \in At(u, tag)
  <2>1. i \in 1..(Len(d) - 1) /\ d[i] = tag[1] /\ d[i + 1] = tag[2]
    BY AtIs
  <2>2. /\ Len(p) + i \in 1..(Len(u) - 1) /\ i \in 1..Len(d) /\ i + 1 \in 1..Len(d)
        /\ (Len(p) + i) + 1 = Len(p) + (i + 1)
    BY <1>1, <2>1
  <2>3. u[Len(p) + i] = d[i] /\ u[Len(p) + (i + 1)] = d[i + 1]
    BY <1>1, <2>2
  <2>4. u[Len(p) + i] = tag[1] /\ u[(Len(p) + i) + 1] = tag[2]
    BY <2>1, <2>2, <2>3
  <2>5. At(u, tag) = {j \in 1..(Len(u) - 1) : u[j] = tag[1] /\ u[j + 1] = tag[2]}
    BY <1>1, AtIs
  <2> QED
    BY <2>2, <2>4, <2>5
<1>3. ASSUME NEW i \in At(u, tag)
      PROVE  \E j \in At(d, tag) : i = Len(p) + j
  <2>1. i \in 1..(Len(u) - 1) /\ u[i] = tag[1] /\ u[i + 1] = tag[2] /\ i > Len(p)
    BY <1>1, AtIs DEF u
  <2>2. PICK j \in 1..(Len(d) - 1) : i = Len(p) + j
    <3>1. i - Len(p) \in 1..(Len(d) - 1) /\ i = Len(p) + (i - Len(p))
      BY <1>1, <2>1
    <3> QED
      BY <3>1
  <2>3. j \in 1..Len(d) /\ j + 1 \in 1..Len(d) /\ i + 1 = Len(p) + (j + 1)
    BY <1>1, <2>2
  <2>4. u[Len(p) + j] = d[j] /\ u[Len(p) + (j + 1)] = d[j + 1]
    BY <1>1, <2>3
  <2> QED
    BY <2>1, <2>2, <2>3, <2>4, AtIs
<1>4. Has(u, tag) <=> Has(d, tag)
  BY <1>2, <1>3 DEF Has
<1>5. ASSUME Has(d, tag)
      PROVE  /\ First(u, tag) = Len(p) + First(d, tag)
             /\ Before(u, tag) = p \o Before(d, tag)
             /\ After(u, tag) = After(d, tag)
             /\ From(u, tag) = From(d, tag)
  <2> DEFINE f == First(d, tag)
  <2>1. f \in At(d, tag) /\ (\A i \in At(d, tag) : f <= i) /\ f \in 1..(Len(d) - 1)
    BY <1>5, FirstIs
  <2> HIDE DEF f
  <2>2. \A i \in At(u, tag) : Len(p) + f <= i
    <3>1. ASSUME NEW i \in At(u, tag)
          PROVE  Len(p) + f <= i
      <4>1. PICK j \in At(d, tag) : i = Len(p) + j
        BY <1>3
      <4>2. f <= j /\ j \in Nat
        BY <2>1, <4>1 DEF At
      <4> QED
        BY <1>1, <2>1, <4>1, <4>2
    <3> QED
      BY <3>1
  <2>3. First(u, tag) = Len(p) + f
    BY <1>1, <1>2, <2>1, <2>2, FirstIsAt
  <2>4. /\ Len(p) + f - 1 = Len(p) + (f - 1) /\ f - 1 \in 0..Len(d)
        /\ (Len(p) + f) + 2 = Len(p) + (f + 2) /\ f + 2 \in 1..(Len(d) + 1) /\ f \in 1..(Len(d) + 1)
    BY <1>1, <2>1
  <2>5. SubSeq(u, 1, Len(p) + (f - 1)) = p \o SubSeq(d, 1, f - 1)
    BY <2>4, JoinedFront DEF u
  <2>6. SubSeq(u, Len(p) + (f + 2), Len(u)) = SubSeq(d, f + 2, Len(d))
    BY <2>4, JoinedBack DEF u
  <2>7. SubSeq(u, Len(p) + f, Len(u)) = SubSeq(d, f, Len(d))
    BY <2>4, JoinedBack DEF u
  <2>8. Before(u, tag) = p \o Before(d, tag)
    <3>1. First(u, tag) - 1 = Len(p) + (f - 1)
      BY <2>3, <2>4
    <3>2. SubSeq(u, 1, First(u, tag) - 1) = p \o SubSeq(d, 1, f - 1)
      BY <3>1, <2>5
    <3> QED
      BY <3>2 DEF f, Before
  <2>9. After(u, tag) = After(d, tag)
    BY <2>3, <2>4, <2>6 DEF f, After
  <2>10. From(u, tag) = From(d, tag)
    BY <2>3, <2>7 DEF f, From
  <2> QED
    BY <2>3, <2>8, <2>9, <2>10 DEF f
<1> QED
  BY <1>4, <1>5 DEF u

(* What is held back, and why nothing is missed by it.                     *)
LEMMA HeldIs ==
  ASSUME NEW s \in Piece, NEW tag \in Tag
  PROVE  /\ SentPart(s, tag) \in Piece /\ HeldPart(s, tag) \in Piece
         /\ s = SentPart(s, tag) \o HeldPart(s, tag)
         /\ Len(HeldPart(s, tag)) = Held(s, tag) /\ Held(s, tag) \in {0, 1}
         /\ Len(SentPart(s, tag)) = Len(s) - Held(s, tag) /\ Len(s) \in Nat
         /\ Held(s, tag) = 0 => Len(s) = 0 \/ s[Len(s)] # tag[1]
         /\ Held(s, tag) = 1 => Len(s) > 0 /\ s[Len(s)] = tag[1]
<1>1. Len(s) \in Nat /\ Head(tag) = tag[1]
  BY DEF Piece, Tag
<1>2. Held(s, tag) \in {0, 1}
  BY DEF Held
<1>3. /\ Held(s, tag) = 0 => Len(s) = 0 \/ s[Len(s)] # tag[1]
      /\ Held(s, tag) = 1 => Len(s) > 0 /\ s[Len(s)] = tag[1]
  BY <1>1, EmptyIs DEF Held, Last
<1>4. Len(s) - Held(s, tag) \in 0..Len(s)
  BY <1>1, <1>2, <1>3
<1> DEFINE k == Len(s) - Held(s, tag)
<1>5. /\ SubSeq(s, 1, k) \in Piece /\ Len(SubSeq(s, 1, k)) = k
      /\ SubSeq(s, k + 1, Len(s)) \in Piece /\ Len(SubSeq(s, k + 1, Len(s))) = Len(s) - k
      /\ s = SubSeq(s, 1, k) \o SubSeq(s, k + 1, Len(s))
  <2> HIDE DEF k
  <2> QED
    BY <1>4, TextSplits DEF k
<1>6. Len(s) - k = Held(s, tag)
  BY <1>1, <1>2
<1> QED
  BY <1>1, <1>2, <1>3, <1>5, <1>6 DEF SentPart, HeldPart

(* A text in which the tag does not occur, and what comes after it: the    *)
(* part that is held back is enough to go on with.                         *)
LEMMA Resume ==
  ASSUME NEW s \in Piece, NEW t \in Piece, NEW tag \in Tag, ~Has(s, tag)
  PROVE  LET data == HeldPart(s, tag) \o t IN
         /\ data \in Piece /\ SentPart(s, tag) \in Piece
         /\ Has(s \o t, tag) <=> Has(data, tag)
         /\ Has(data, tag) => /\ Before(s \o t, tag) = SentPart(s, tag) \o Before(data, tag)
                              /\ After(s \o t, tag) = After(data, tag)
                              /\ From(s \o t, tag) = From(data, tag)
         /\ SentPart(s \o t, tag) = SentPart(s, tag) \o SentPart(data, tag)
         /\ HeldPart(s \o t, tag) = HeldPart(data, tag)
<1> DEFINE p == SentPart(s, tag)
           h == HeldPart(s, tag)
           k == Held(s, tag)
           data == h \o t
           u == p \o data
<1>1. /\ p \in Piece /\ h \in Piece /\ s = p \o h
      /\ Len(h) = k /\ k \in {0, 1} /\ Len(p) = Len(s) - k /\ Len(s) \in Nat
      /\ k = 0 => Len(s) = 0 \/ s[Len(s)] # tag[1]
      /\ k = 1 => Len(s) > 0 /\ s[Len(s)] = tag[1]
  BY HeldIs
<1> HIDE DEF p, h, k
<1>2. /\ data \in Piece /\ Len(data) = Len(h) + Len(t) /\ Len(t) \in Nat
      /\ \A i \in 1..Len(h) : data[i] = h[i]
      /\ \A i \in 1..Len(t) : data[Len(h) + i] = t[i]
  BY <1>1, CatIs
<1>3. s \o t = u
  BY <1>1, CatAssoc
<1>4. /\ s \o t \in Piece /\ Len(s \o t) = Len(s) + Len(t)
      /\ \A i \in 1..Len(s) : (s \o t)[i] = s[i]
  BY CatIs
<1> HIDE DEF data
<1>5. u \in Piece /\ Len(u) = Len(p) + Len(data) /\ \A i \in 1..Len(data) : u[Len(p) + i] = data[i]
  BY <1>1, <1>2, CatIs
<1> HIDE DEF u
<1>6. ASSUME NEW i \in At(u, tag)
      PROVE  i > Len(p)
  <2>1. i \in 1..(Len(u) - 1) /\ u[i] = tag[1] /\ u[i + 1] = tag[2]
    BY <1>5, AtIs
  <2>2. CASE i < Len(s)
    <3>1. i \in 1..(Len(s) - 1) /\ i \in 1..Len(s) /\ i + 1 \in 1..Len(s)
      BY <1>1, <2>1, <2>2
    <3>2. s[i] = tag[1] /\ s[i + 1] = tag[2]
      BY <3>1, <2>1, <1>3, <1>4
    <3>3. i \in At(s, tag)
      BY <3>1, <3>2, AtIs
    <3> QED
      BY <3>3 DEF Has
  <2>3. CASE i = Len(s)
    <3>1. i \in 1..Len(s) /\ Len(s) # 0
      BY <1>1, <2>1, <2>3
    <3>2. s[Len(s)] = tag[1]
      BY <3>1, <2>1, <2>3, <1>3, <1>4
    <3>3. k = 1
      BY <3>1, <3>2, <1>1
    <3> QED
      BY <3>1, <3>3, <2>3, <1>1
  <2>4. CASE i > Len(s)
    BY <2>1, <2>4, <1>1
  <2> QED
    BY <2>1, <2>2, <2>3, <2>4, <1>1
<1>7. /\ Has(u, tag) <=> Has(data, tag)
      /\ Has(data, tag) => /\ Before(u, tag) = p \o Before(data, tag)
                           /\ After(u, tag) = After(data, tag)
                           /\ From(u, tag) = From(data, tag)
  BY <1>1, <1>2, <1>6, FoundBehind DEF u
<1>8. Held(u, tag) = Held(data, tag) /\ Held(data, tag) \in 0..Len(data)
  <2>1. \A x \in Piece : Held(x, tag) = IF Len(x) # 0 /\ x[Len(x)] = tag[1] THEN 1 ELSE 0
    <3>1. ASSUME NEW x \in Piece
          PROVE  Held(x, tag) = IF Len(x) # 0 /\ x[Len(x)] = tag[1] THEN 1 ELSE 0
      <4>1. /\ Held(x, tag) \in {0, 1} /\ Len(x) \in Nat
            /\ Held(x, tag) = 0 => Len(x) = 0 \/ x[Len(x)] # tag[1]
            /\ Held(x, tag) = 1 => Len(x) > 0 /\ x[Len(x)] = tag[1]
        BY HeldIs
      <4> QED
        BY <4>1
    <3> QED
      BY <3>1
  <2>2. CASE Len(data) # 0
    <3>1. Len(u) # 0 /\ Len(data) \in 1..Len(data) /\ Len(u) = Len(p) + Len(data)
      BY <2>2, <1>1, <1>2, <1>5
    <3>2. u[Len(u)] = data[Len(data)]
      BY <3>1, <1>5
    <3>3. Held(u, tag) = IF u[Len(u)] = tag[1] THEN 1 ELSE 0
      BY <3>1, <2>1, <1>5
    <3>4. Held(data, tag) = IF data[Len(data)] = tag[1] THEN 1 ELSE 0
      BY <2>2, <2>1, <1>2
    <3> QED
      BY <3>1, <3>2, <3>3, <3>4
  <2>3. CASE Len(data) = 0
    <3>1. Len(h) = 0 /\ Len(t) = 0 /\ k = 0 /\ Len(p) = Len(s)
      BY <2>3, <1>1, <1>2
    <3>2. Len(u) = Len(s) /\ (Len(s) # 0 => u[Len(u)] = s[Len(s)])
      BY <3>1, <1>1, <1>3, <1>4
    <3>3. Held(u, tag) = 0
      BY <3>1, <3>2, <2>1, <1>1, <1>5
    <3> QED
      BY <3>3, <2>1, <2>3, <1>2
  <2> QED
    BY <2>2, <2>3
<1>9. SentPart(u, tag) = p \o SentPart(data, tag)
  <2> DEFINE e == Len(data) - Held(data, tag)
  <2>1. e \in 0..Len(data) /\ Len(u) - Held(u, tag) = Len(p) + e
    <3>1. Len(p) \in Nat /\ Len(data) \in Nat /\ Len(u) = Len(p) + Len(data)
      BY <1>1, <1>2, <1>5
    <3> QED
      BY <3>1, <1>8
  <2> HIDE DEF e
  <2>2. SubSeq(u, 1, Len(p) + e) = p \o SubSeq(data, 1, e)
    BY <1>1, <1>2, <2>1, JoinedFront DEF u
  <2>3. SubSeq(u, 1, Len(u) - Held(u, tag)) = p \o SubSeq(data, 1, e)
    BY <2>1, <2>2
  <2> QED
    BY <2>3 DEF SentPart, e
<1>10. HeldPart(u, tag) = HeldPart(data, tag)
  <2> DEFINE m == Len(data) - Held(data, tag) + 1
  <2>1. m \in 1..(Len(data) + 1) /\ Len(u) - Held(u, tag) + 1 = Len(p) + m
    <3>1. Len(p) \in Nat /\ Len(data) \in Nat /\ Len(u) = Len(p) + Len(data)
      BY <1>1, <1>2, <1>5
    <3> QED
      BY <3>1, <1>8
  <2> HIDE DEF m
  <2>2. SubSeq(u, Len(p) + m, Len(u)) = SubSeq(data, m, Len(data))
    BY <1>1, <1>2, <2>1, JoinedBack DEF u
  <2>3. SubSeq(u, Len(u) - Held(u, tag) + 1, Len(u)) = SubSeq(data, m, Len(data))
    BY <2>1, <2>2
  <2> QED
    BY <2>3 DEF HeldPart, m
<1> QED
  BY <1>1, <1>2, <1>3, <1>7, <1>9, <1>10 DEF p, h, data

--------------------------------------------------------------------------------
(* Line ends                                                               *)

(* LStrip takes the first k symbols away.                                  *)
Leading(s, k) ==
  /\ k \in 0..Len(s) /\ \A i \in 1..k : s[i] = "nl"
  /\ k < Len(s) => s[k + 1] # "nl"

LEMMA LStripIs ==
  ASSUME NEW s \in Piece
  PROVE  /\ \E k \in 0..Len(s) : Leading(s, k)
         /\ \A k \in 0..Len(s) : Leading(s, k) => LStrip(s) = SubSeq(s, k + 1, Len(s))
<1>1. Len(s) \in Nat /\ DOMAIN s = 1..Len(s)
  BY DEF Piece
<1>2. Inked(s) \in SUBSET Nat /\ Inked(s) = {i \in 1..Len(s) : s[i] # "nl"}
  BY <1>1 DEF Inked
<1>3. \E k \in 0..Len(s) : Leading(s, k)
  <2>1. CASE Inked(s) = {}
    <3>1. Leading(s, Len(s)) /\ Len(s) \in 0..Len(s)
      BY <1>1, <1>2, <2>1 DEF Leading
    <3> QED
      BY <3>1
  <2>2. CASE Inked(s) # {}
    <3> DEFINE m == Min(Inked(s))
    <3>1. m \in Inked(s) /\ \A y \in Inked(s) : m <= y
      BY <1>2, <2>2, MinIsSmallest
    <3> HIDE DEF m
    <3>2. m \in 1..Len(s) /\ s[m] # "nl" /\ m - 1 \in 0..Len(s) /\ m - 1 < Len(s) /\ (m - 1) + 1 = m
      BY <3>1, <1>2
    <3>3. ASSUME NEW i \in 1..(m - 1)
          PROVE  s[i] = "nl"
      <4>1. i \in 1..Len(s) /\ ~(m <= i)
        BY <3>2
      <4> QED
        BY <3>1, <4>1, <1>2
    <3>4. Leading(s, m - 1)
      BY <3>2, <3>3 DEF Leading
    <3> QED
      BY <3>2, <3>4
  <2> QED
    BY <2>1, <2>2
<1>4. ASSUME NEW k \in 0..Len(s), Leading(s, k)
      PROVE  LStrip(s) = SubSeq(s, k + 1, Len(s))
  <2>1. CASE k = Len(s)
    <3>1. Inked(s) = {}
      BY <1>2, <1>4, <2>1 DEF Leading
    <3>2. SubSeq(s, k + 1, Len(s)) = <<>>
      BY <1>1, <2>1, SubSeqEmpty
    <3> QED
      BY <3>1, <3>2 DEF LStrip
  <2>2. CASE k # Len(s)
    <3>1. k < Len(s)
      <4>1. Len(s) \in Nat
        BY DEF Piece
      <4> QED
        BY <4>1, <2>2
    <3>2. k + 1 \in 1..Len(s) /\ s[k + 1] # "nl"
      BY <1>1, <1>4, <3>1 DEF Leading
    <3>3. k + 1 \in Inked(s)
      BY <3>2, <1>2
    <3>4. ASSUME NEW y \in Inked(s)
          PROVE  k + 1 <= y
      <4>1. y \in 1..Len(s) /\ s[y] # "nl"
        BY <1>2
      <4>2. y \notin 1..k
        BY <4>1, <1>4 DEF Leading
      <4> QED
        BY <4>1, <4>2
    <3>5. Min(Inked(s)) = k + 1
      BY <1>2, <3>3, <3>4, MinIsOnly
    <3> QED
      BY <3>3, <3>5 DEF LStrip
  <2> QED
    BY <2>1, <2>2
<1> QED
  BY <1>3, <1>4

LEMMA LStripType ==
  ASSUME NEW s \in Piece
  PROVE  LStrip(s) \in Piece /\ (LStrip(s) # <<>> => LStrip(s)[1] # "nl")
<1>1. PICK k \in 0..Len(s) : Leading(s, k)
  BY LStripIs
<1>2. LStrip(s) = SubSeq(s, k + 1, Len(s))
  BY <1>1, LStripIs
<1>3. LStrip(s) \in Piece /\ Len(LStrip(s)) = Len(s) - k /\ Len(s) \in Nat
  BY <1>2, TextSplits, CatIs
<1>4. ASSUME k < Len(s)
      PROVE  LStrip(s)[1] # "nl"
  <2>1. /\ k + 1 \in 1..(Len(s) + 1) /\ Len(s) \in 0..Len(s) /\ k + 1 <= Len(s) + 1
        /\ 1 \in 1..(Len(s) + 1 - (k + 1)) /\ (k + 1) + 1 - 1 = k + 1
    BY <1>3, <1>4
  <2>2. SubSeq(s, k + 1, Len(s))[1] = s[(k + 1) + 1 - 1]
    BY <2>1, SubIs
  <2> QED
    BY <2>1, <2>2, <1>1, <1>2, <1>4 DEF Leading
<1>5. CASE ~(k < Len(s))
  <2>1. Len(LStrip(s)) = 0
    BY <1>3, <1>5
  <2> QED
    BY <1>3, <2>1, EmptyIs
<1> QED
  BY <1>3, <1>4, <1>5

(* Only the line ends at the very beginning of a text go.                  *)
LEMMA LStripOfJoined ==
  ASSUME NEW s \in Piece, NEW t \in Piece
  PROVE  LStrip(s \o t) = IF LStrip(s) = <<>> THEN LStrip(t) ELSE LStrip(s) \o t
<1> DEFINE u == s \o t
<1>1. PICK k \in 0..Len(s) : Leading(s, k)
  BY LStripIs
<1>2. LStrip(s) = SubSeq(s, k + 1, Len(s))
  BY <1>1, LStripIs
<1>3. /\ u \in Piece /\ Len(u) = Len(s) + Len(t) /\ Len(s) \in Nat /\ Len(t) \in Nat
      /\ \A i \in 1..Len(s) : u[i] = s[i]
      /\ \A i \in 1..Len(t) : u[Len(s) + i] = t[i]
  BY CatIs
<1> HIDE DEF u
<1>4. CASE k = Len(s)
  <2>1. LStrip(s) = <<>>
    BY <1>2, <1>3, <1>4, SubSeqEmpty
  <2>2. PICK j \in 0..Len(t) : Leading(t, j)
    BY LStripIs
  <2>3. LStrip(t) = SubSeq(t, j + 1, Len(t))
    BY <2>2, LStripIs
  <2>4. Len(s) + j \in 0..Len(u) /\ j + 1 \in 1..(Len(t) + 1) /\ (Len(s) + j) + 1 = Len(s) + (j + 1)
    BY <1>3
  <2>5. ASSUME NEW i \in 1..(Len(s) + j)
        PROVE  u[i] = "nl"
    <3>1. CASE i <= Len(s)
      BY <3>1, <1>1, <1>3, <1>4 DEF Leading
    <3>2. CASE ~(i <= Len(s))
      <4>1. PICK n \in 1..j : i = Len(s) + n
        <5>1. i - Len(s) \in 1..j /\ i = Len(s) + (i - Len(s))
          BY <1>3, <3>2
        <5> QED
          BY <5>1
      <4>2. n \in 1..Len(t) /\ t[n] = "nl"
        BY <1>3, <2>2, <4>1 DEF Leading
      <4> QED
        BY <1>3, <4>1, <4>2
    <3> QED
      BY <3>1, <3>2
  <2>6. ASSUME Len(s) + j < Len(u)
        PROVE  u[(Len(s) + j) + 1] # "nl"
    <3>1. j < Len(t) /\ j + 1 \in 1..Len(t)
      BY <1>3, <2>6
    <3>2. t[j + 1] # "nl"
      BY <3>1, <2>2 DEF Leading
    <3> QED
      BY <3>1, <3>2, <2>4, <1>3
  <2>7. Leading(u, Len(s) + j)
    BY <2>4, <2>5, <2>6 DEF Leading
  <2>8. LStrip(u) = SubSeq(u, Len(s) + (j + 1), Len(u))
    BY <2>4, <2>7, <1>3, LStripIs
  <2>9. SubSeq(u, Len(s) + (j + 1), Len(u)) = SubSeq(t, j + 1, Len(t))
    BY <2>4, JoinedBack DEF u
  <2> QED
    BY <2>1, <2>3, <2>8, <2>9 DEF u
<1>5. CASE k # Len(s)
  <2>1. k + 1 \in 1..Len(s) /\ k < Len(s) /\ k \in 0..Len(u)
    BY <1>3, <1>5
  <2>2. Len(LStrip(s)) # 0
    <3>1. Len(LStrip(s)) = Len(s) - k
      BY <1>2, TextSplits
    <3> QED
      BY <3>1, <2>1, <1>3
  <2>3. LStrip(s) # <<>>
    BY <2>2, EmptyIs
  <2>4. Leading(u, k)
    <3>1. \A i \in 1..k : u[i] = "nl"
      BY <1>1, <1>3 DEF Leading
    <3>2. u[k + 1] # "nl"
      BY <1>1, <1>3, <2>1 DEF Leading
    <3> QED
      BY <2>1, <3>1, <3>2 DEF Leading
  <2>5. LStrip(u) = SubSeq(u, k + 1, Len(u))
    BY <2>1, <2>4, <1>3, LStripIs
  <2>6. SubSeq(u, k + 1, Len(u)) = SubSeq(s, k + 1, Len(s)) \o t
    BY JoinedTail DEF u
  <2> QED
    BY <1>2, <2>3, <2>5, <2>6 DEF u
<1> QED
  BY <1>4, <1>5

LEMMA LStripTwice ==
  ASSUME NEW s \in Piece
  PROVE  LStrip(LStrip(s)) = LStrip(s)
<1> DEFINE t == LStrip(s)
<1>1. t \in Piece /\ (t # <<>> => t[1] # "nl") /\ Len(t) \in Nat
  BY LStripType, CatIs
<1> HIDE DEF t
<1>2. Leading(t, 0) /\ 0 \in 0..Len(t) /\ 0 + 1 = 1
  <2>1. 0 < Len(t) => t # <<>>
    BY EmptyIs
  <2> QED
    BY <1>1, <2>1 DEF Leading
<1>3. LStrip(t) = SubSeq(t, 1, Len(t))
  BY <1>1, <1>2, LStripIs
<1>4. SubSeq(t, 1, Len(t)) = t
  BY <1>1, SubSeqFull DEF Piece
<1> QED
  BY <1>3, <1>4 DEF t

LEMMA StripType ==
  ASSUME NEW s \in Piece
  PROVE  Strip(s) \in Piece
<1> DEFINE t == LStrip(s)
<1>1. t \in Piece
  BY LStripType
<1> HIDE DEF t
<1>2. RStrip(t) \in Piece
  <2>1. Len(t) \in Nat /\ DOMAIN t = 1..Len(t)
    BY <1>1 DEF Piece
  <2>2. CASE Inked(t) = {}
    BY <2>2, EmptyIs DEF RStrip
  <2>3. CASE Inked(t) # {}
    <3>1. Inked(t) \in SUBSET Nat /\ \A i \in Inked(t) : i <= Len(t)
      BY <2>1 DEF Inked
    <3>2. Max(Inked(t)) \in Inked(t)
      BY <2>1, <2>3, <3>1, MaxIsLargest
    <3>3. Max(Inked(t)) \in 0..Len(t)
      BY <2>1, <3>2 DEF Inked
    <3> QED
      BY <1>1, <2>3, <3>3, TextSplits DEF RStrip
  <2> QED
    BY <2>2, <2>3
<1> QED
  BY <1>2 DEF Strip, t

--------------------------------------------------------------------------------
(* The loop of feed_tools                                                  *)

Buffers == [buf : Piece, calls : Seq(Piece)]

Settled(b) == ~Has(b.buf, ToolOpen) /\ ~Has(b.buf, ToolClose)

OpensFirst(s) == Has(s, ToolOpen) /\ (Has(s, ToolClose) => First(s, ToolOpen) < First(s, ToolClose))

(* What a round does to the buffer, and what it adds to the calls.         *)
Left(s) == IF OpensFirst(s) THEN After(s, ToolOpen)
           ELSE IF ~Has(s, ToolClose) THEN s ELSE After(s, ToolClose)
Found(s) == IF ~OpensFirst(s) /\ Has(s, ToolClose) /\ Parses(Strip(Before(s, ToolClose)))
            THEN <<Strip(Before(s, ToolClose))>> ELSE <<>>

LEMMA RoundIs ==
  ASSUME NEW b \in Buffers
  PROVE  /\ Round(b) \in Buffers
         /\ Round(b).buf = Left(b.buf) /\ Round(b).calls = b.calls \o Found(b.buf)
         /\ Found(b.buf) \in Seq(Piece)
         /\ Settled(b) => Round(b) = b
         /\ ~Settled(b) => Len(Round(b).buf) < Len(b.buf)
<1> DEFINE s == b.buf
<1>1. s \in Piece /\ b.calls \in Seq(Piece) /\ Len(s) \in Nat /\ b = [buf |-> s, calls |-> b.calls]
  BY DEF Buffers, Piece
<1> HIDE DEF s
<1>2. CASE OpensFirst(s)
  <2>1. Has(s, ToolOpen)
    BY <1>2 DEF OpensFirst
  <2>2. After(s, ToolOpen) \in Piece /\ Len(After(s, ToolOpen)) < Len(s)
    <3>1. /\ After(s, ToolOpen) \in Piece /\ Len(After(s, ToolOpen)) = Len(s) - First(s, ToolOpen) - 1
          /\ First(s, ToolOpen) \in 1..(Len(s) - 1)
      BY <1>1, <2>1, FirstIs, TagsAre
    <3> QED
      BY <1>1, <3>1
  <2>3. Round(b) = [b EXCEPT !.buf = After(@, ToolOpen)]
    BY <1>2 DEF Round, OpensFirst, s
  <2>4. Round(b) = [buf |-> After(s, ToolOpen), calls |-> b.calls]
    BY <1>1, <2>3 DEF s
  <2>5. Left(s) = After(s, ToolOpen) /\ Found(s) = <<>>
    BY <1>2 DEF Left, Found
  <2>6. ~Settled(b)
    BY <2>1 DEF Settled, s
  <2>7. b.calls \o <<>> = b.calls /\ <<>> \in Seq(Piece)
    BY <1>1
  <2> QED
    BY <1>1, <2>2, <2>4, <2>5, <2>6, <2>7 DEF Buffers, s
<1>3. CASE ~OpensFirst(s) /\ ~Has(s, ToolClose)
  <2>1. ~Has(s, ToolOpen)
    BY <1>3 DEF OpensFirst
  <2>2. Round(b) = b /\ Settled(b)
    BY <1>3, <2>1 DEF Round, Settled, s
  <2>3. Left(s) = s /\ Found(s) = <<>>
    BY <1>3 DEF Left, Found
  <2>4. b.calls \o <<>> = b.calls /\ <<>> \in Seq(Piece)
    BY <1>1
  <2> QED
    BY <1>1, <2>2, <2>3, <2>4 DEF s
<1>4. CASE ~OpensFirst(s) /\ Has(s, ToolClose)
  <2> DEFINE payload == Strip(Before(s, ToolClose))
             rest == After(s, ToolClose)
             calls == IF Parses(payload) THEN Append(b.calls, payload) ELSE b.calls
  <2>1. /\ Before(s, ToolClose) \in Piece /\ rest \in Piece /\ Len(rest) = Len(s) - First(s, ToolClose) - 1
        /\ First(s, ToolClose) \in 1..(Len(s) - 1)
    BY <1>1, <1>4, FirstIs, TagsAre
  <2>2. payload \in Piece
    BY <2>1, StripType
  <2>3. Round(b) = [buf |-> rest, calls |-> calls]
    BY <1>4 DEF Round, OpensFirst, s
  <2>4. Left(s) = rest /\ Found(s) = IF Parses(payload) THEN <<payload>> ELSE <<>>
    BY <1>4 DEF Left, Found
  <2>5. ~Settled(b)
    BY <1>4 DEF Settled, s
  <2> HIDE DEF payload, rest
  <2>6. calls = b.calls \o Found(s) /\ calls \in Seq(Piece) /\ Found(s) \in Seq(Piece)
    <3>1. CASE Parses(payload)
      <4>1. Append(b.calls, payload) = b.calls \o <<payload>>
        BY <1>1, <2>2, AppendIsConcat
      <4> QED
        BY <1>1, <2>2, <2>4, <3>1, <4>1
    <3>2. CASE ~Parses(payload)
      BY <1>1, <2>4, <3>2
    <3> QED
      BY <3>1, <3>2
  <2>7. Len(rest) < Len(s)
    BY <1>1, <2>1
  <2> HIDE DEF calls
  <2> QED
    BY <1>1, <2>1, <2>3, <2>4, <2>5, <2>6, <2>7 DEF Buffers, s
<1> QED
  BY <1>2, <1>3, <1>4

LEMMA EmptySettled ==
  ASSUME NEW b \in Buffers, Len(b.buf) = 0
  PROVE  Settled(b)
<1>1. b.buf \in Piece
  BY DEF Buffers
<1>2. 1..(Len(b.buf) - 1) = {}
  OBVIOUS
<1>3. \A tag \in Tag : At(b.buf, tag) = {}
  BY <1>2 DEF At
<1> QED
  BY <1>3, TagsAre DEF Settled, Has

LEMMA RoundsAre ==
  ASSUME NEW b \in Buffers
  PROVE  /\ Len(b.buf) \in Nat
         /\ Rounds(b) \in [0..Len(b.buf) -> Buffers] /\ Rounds(b)[0] = b
         /\ \A i \in 1..Len(b.buf) : Rounds(b)[i] = Round(Rounds(b)[i - 1])
<1> DEFINE n == Len(b.buf)
           F == [c \in Buffers |-> Round(c)]
           s == Rounds(b)
<1>1. n \in Nat
  BY DEF Buffers, Piece
<1>2. F \in [Buffers -> Buffers]
  BY RoundIs
<1> HIDE DEF F, n
<1>3. PICK f \in [0..n -> Buffers] : IsLoop(f, F, b, n)
  BY <1>1, <1>2, LoopExists
<1>4. ASSUME NEW i \in 1..n
      PROVE  f[i] = Round(f[i - 1])
  <2>1. i - 1 \in 0..n
    BY <1>1
  <2>2. f[i - 1] \in Buffers
    BY <2>1
  <2>3. F[f[i - 1]] = Round(f[i - 1])
    BY <2>2 DEF F
  <2> QED
    BY <1>3, <2>3 DEF IsLoop
<1>5. f = [i \in 0..n |-> IF i = 0 THEN b ELSE Round(f[i - 1])]
  <2>1. ASSUME NEW i \in 0..n
        PROVE  f[i] = IF i = 0 THEN b ELSE Round(f[i - 1])
    <3>1. i = 0 \/ i \in 1..n
      BY <1>1
    <3> QED
      BY <3>1, <1>3, <1>4 DEF IsLoop
  <2> QED
    BY <2>1
<1>6. s = [i \in 0..n |-> IF i = 0 THEN b ELSE Round(s[i - 1])]
  BY <1>5, Zenon DEF Rounds, n
<1> HIDE DEF s
<1>7. \A i \in 0..n : s[i] = IF i = 0 THEN b ELSE Round(s[i - 1])
  BY <1>6, Zenon
<1>8. s[0] = b /\ \A i \in 1..n : s[i] = Round(s[i - 1])
  <2>1. 0 \in 0..n /\ \A i \in 1..n : i \in 0..n /\ i # 0
    BY <1>1
  <2> QED
    BY <1>7, <2>1
<1> DEFINE S == {i \in Nat : i <= n => s[i] \in Buffers}
<1>9. 0 \in S
  BY <1>8
<1>10. ASSUME NEW i \in Nat, i \in S
       PROVE  i + 1 \in S
  <2>1. ASSUME i + 1 <= n
        PROVE  s[i + 1] \in Buffers
    <3>1. i + 1 \in 1..n /\ (i + 1) - 1 = i /\ i <= n
      BY <1>1, <2>1
    <3>2. s[i + 1] = Round(s[i])
      BY <1>8, <3>1
    <3> QED
      BY <3>1, <3>2, <1>10, RoundIs
  <2> QED
    BY <2>1
<1>11. Nat \subseteq S
  <2> HIDE DEF S
  <2> QED
    BY <1>9, <1>10, NatSetInduction
<1>12. \A i \in 0..n : s[i] \in Buffers
  BY <1>11
<1>13. s \in [0..n -> Buffers]
  <2>1. DOMAIN s = 0..n /\ s = [i \in 0..n |-> s[i]]
    BY <1>6
  <2> QED
    BY <2>1, <1>12
<1> QED
  BY <1>1, <1>8, <1>13 DEF s, n

(* What the loop ends with.                                                *)
Final(b) == Rounds(b)[Len(b.buf)]

LEMMA FinalIsSettled ==
  ASSUME NEW b \in Buffers
  PROVE  Final(b) \in Buffers /\ Settled(Final(b))
<1> DEFINE n == Len(b.buf)
           f == Rounds(b)
<1>1. /\ n \in Nat /\ f \in [0..n -> Buffers] /\ f[0] = b
      /\ \A i \in 1..n : f[i] = Round(f[i - 1])
  BY RoundsAre
<1>2. n = Len(b.buf)
  OBVIOUS
<1> HIDE DEF n, f
<1> DEFINE S == {i \in Nat : i <= n => Settled(f[i]) \/ Len(f[i].buf) + i <= n}
<1>3. 0 \in S
  BY <1>1, <1>2
<1>4. ASSUME NEW i \in Nat, i \in S
      PROVE  i + 1 \in S
  <2>1. ASSUME i + 1 <= n
        PROVE  Settled(f[i + 1]) \/ Len(f[i + 1].buf) + (i + 1) <= n
    <3>1. i + 1 \in 1..n /\ (i + 1) - 1 = i /\ i <= n /\ i \in 0..n
      BY <1>1, <2>1
    <3>2. f[i + 1] = Round(f[i]) /\ f[i] \in Buffers
      BY <1>1, <3>1
    <3>3. CASE Settled(f[i])
      BY <3>2, <3>3, RoundIs
    <3>4. CASE ~Settled(f[i])
      <4>1. Len(f[i].buf) + i <= n
        BY <1>4, <3>1, <3>4
      <4>2. Len(f[i + 1].buf) < Len(f[i].buf) /\ f[i + 1] \in Buffers
        BY <3>2, <3>4, RoundIs
      <4>3. Len(f[i + 1].buf) \in Nat /\ Len(f[i].buf) \in Nat
        BY <3>2, <4>2 DEF Buffers, Piece
      <4>4. \A x, y \in Nat : x + i <= n /\ y < x => y + (i + 1) <= n
        BY <1>1
      <4> QED
        BY <4>1, <4>2, <4>3, <4>4
    <3> QED
      BY <3>3, <3>4
  <2>2. i + 1 \in Nat
    OBVIOUS
  <2> QED
    BY <2>1, <2>2, Zenon
<1>5. Nat \subseteq S
  <2> HIDE DEF S
  <2> QED
    BY <1>3, <1>4, NatSetInduction
<1>6. Settled(f[n]) \/ Len(f[n].buf) + n <= n
  BY <1>1, <1>5
<1>7. f[n] \in Buffers
  BY <1>1
<1>8. Settled(f[n])
  <2>1. CASE Len(f[n].buf) + n <= n
    <3>1. Len(f[n].buf) \in Nat
      BY <1>7 DEF Buffers, Piece
    <3>2. Len(f[n].buf) = 0
      BY <1>1, <2>1, <3>1
    <3> QED
      BY <1>7, <3>2, EmptySettled
  <2> QED
    BY <1>6, <2>1
<1> QED
  BY <1>7, <1>8 DEF Final, f, n

(* A settled buffer stays, from any round on.                              *)
LEMMA RoundsStay ==
  ASSUME NEW b \in Buffers, NEW m \in 0..Len(b.buf), Settled(Rounds(b)[m])
  PROVE  Final(b) = Rounds(b)[m]
<1> DEFINE n == Len(b.buf)
           f == Rounds(b)
<1>1. /\ n \in Nat /\ f \in [0..n -> Buffers] /\ f[0] = b
      /\ \A i \in 1..n : f[i] = Round(f[i - 1])
  BY RoundsAre
<1>2. m \in 0..n /\ Settled(f[m]) /\ f[m] \in Buffers
  BY <1>1
<1> HIDE DEF n, f
<1> DEFINE S == {i \in Nat : m + i <= n => f[m + i] = f[m]}
<1>3. 0 \in S
  BY <1>2
<1>4. ASSUME NEW i \in Nat, i \in S
      PROVE  i + 1 \in S
  <2>1. ASSUME m + (i + 1) <= n
        PROVE  f[m + (i + 1)] = f[m]
    <3>1. m + (i + 1) \in 1..n /\ (m + (i + 1)) - 1 = m + i /\ m + i <= n
      BY <1>1, <1>2, <2>1
    <3>2. f[m + (i + 1)] = Round(f[m + i])
      BY <1>1, <3>1
    <3>3. f[m + i] = f[m]
      BY <1>4, <3>1
    <3> QED
      BY <3>2, <3>3, <1>2, RoundIs
  <2> QED
    BY <2>1
<1>5. Nat \subseteq S
  <2> HIDE DEF S
  <2> QED
    BY <1>3, <1>4, NatSetInduction
<1>6. n - m \in Nat /\ m + (n - m) = n
  BY <1>1, <1>2
<1>7. f[n] = f[m]
  <2>1. m + (n - m) <= n
    BY <1>1, <1>6
  <2>2. f[m + (n - m)] = f[m]
    BY <1>5, <1>6, <2>1
  <2> QED
    BY <1>6, <2>2
<1> QED
  BY <1>7 DEF Final, f, n

LEMMA FinalOfSettled ==
  ASSUME NEW b \in Buffers, Settled(b)
  PROVE  Final(b) = b
<1>1. Len(b.buf) \in Nat /\ Rounds(b)[0] = b
  BY RoundsAre
<1>2. 0 \in 0..Len(b.buf)
  BY <1>1
<1> QED
  BY <1>1, <1>2, RoundsStay

LEMMA FinalOfRound ==
  ASSUME NEW b \in Buffers
  PROVE  Final(b) = Final(Round(b))
<1>1. CASE Settled(b)
  BY <1>1, RoundIs
<1>2. CASE ~Settled(b)
  <2> DEFINE c == Round(b)
             n == Len(b.buf)
             m == Len(c.buf)
             f == Rounds(b)
             g == Rounds(c)
  <2>1. c \in Buffers /\ m < n
    BY <1>2, RoundIs
  <2>2. /\ n \in Nat /\ f \in [0..n -> Buffers] /\ f[0] = b
        /\ \A i \in 1..n : f[i] = Round(f[i - 1])
    BY RoundsAre
  <2> HIDE DEF c
  <2>3. /\ m \in Nat /\ g \in [0..m -> Buffers] /\ g[0] = c
        /\ \A i \in 1..m : g[i] = Round(g[i - 1])
    BY <2>1, RoundsAre
  <2> HIDE DEF n, m, f, g
  <2> DEFINE S == {i \in Nat : i <= m => f[i + 1] = g[i]}
  <2>4. 0 \in S
    <3>1. 0 + 1 \in 1..n /\ (0 + 1) - 1 = 0
      BY <2>1, <2>2, <2>3
    <3>2. f[0 + 1] = Round(b)
      BY <2>2, <3>1
    <3> QED
      BY <2>3, <3>2 DEF c
  <2>5. ASSUME NEW i \in Nat, i \in S
        PROVE  i + 1 \in S
    <3>1. ASSUME i + 1 <= m
          PROVE  f[(i + 1) + 1] = g[i + 1]
      <4>1. /\ i + 1 \in 1..m /\ (i + 1) - 1 = i /\ i <= m
            /\ (i + 1) + 1 \in 1..n /\ ((i + 1) + 1) - 1 = i + 1
        BY <2>1, <2>2, <2>3, <3>1
      <4>2. g[i + 1] = Round(g[i])
        BY <2>3, <4>1
      <4>3. f[(i + 1) + 1] = Round(f[i + 1])
        BY <2>2, <4>1
      <4>4. f[i + 1] = g[i]
        BY <2>5, <4>1
      <4> QED
        BY <4>2, <4>3, <4>4
    <3> QED
      BY <3>1
  <2>6. Nat \subseteq S
    <3> HIDE DEF S
    <3> QED
      BY <2>4, <2>5, NatSetInduction
  <2>7. f[m + 1] = g[m]
    BY <2>3, <2>6
  <2>8. m + 1 \in 0..n
    BY <2>1, <2>2, <2>3
  <2>9. g[m] = Final(c)
    BY DEF Final, g, m
  <2>10. Settled(Final(c))
    BY <2>1, FinalIsSettled
  <2>11. Settled(Rounds(b)[m + 1]) /\ m + 1 \in 0..Len(b.buf)
    BY <2>7, <2>8, <2>9, <2>10 DEF f, n
  <2>12. Final(b) = Rounds(b)[m + 1]
    BY <2>11, RoundsStay
  <2> QED
    BY <2>7, <2>9, <2>12 DEF f, c
<1> QED
  BY <1>1, <1>2

(* More text after a buffer changes nothing of the rounds before.          *)
More(b, t) == [buf |-> b.buf \o t, calls |-> b.calls]

LEMMA NewIsBehind ==
  ASSUME NEW s \in Piece, NEW t \in Piece, NEW tag \in Tag, ~Has(s, tag), Has(s \o t, tag)
  PROVE  First(s \o t, tag) >= Len(s)
<1> DEFINE u == s \o t
           f == First(u, tag)
<1>1. u \in Piece /\ Len(s) \in Nat /\ \A i \in 1..Len(s) : u[i] = s[i]
  BY CatIs
<1> HIDE DEF u
<1>2. f \in At(u, tag) /\ f \in 1..(Len(u) - 1)
  BY <1>1, FirstIs DEF u
<1> HIDE DEF f
<1>3. u[f] = tag[1] /\ u[f + 1] = tag[2]
  BY <1>1, <1>2, AtIs
<1>4. ASSUME f < Len(s)
      PROVE  FALSE
  <2>1. f \in 1..(Len(s) - 1) /\ f \in 1..Len(s) /\ f + 1 \in 1..Len(s)
    BY <1>1, <1>2, <1>4
  <2>2. s[f] = tag[1] /\ s[f + 1] = tag[2]
    BY <1>1, <1>3, <2>1
  <2>3. f \in At(s, tag)
    BY <2>1, <2>2, AtIs
  <2> QED
    BY <2>3 DEF Has
<1> QED
  BY <1>1, <1>2, <1>4 DEF f, u

LEMMA OpensFirstStays ==
  ASSUME NEW s \in Piece, NEW t \in Piece, Has(s, ToolOpen) \/ Has(s, ToolClose)
  PROVE  OpensFirst(s \o t) <=> OpensFirst(s)
<1>1. s \o t \in Piece /\ Len(s) \in Nat
  BY CatIs
<1>2. \A tag \in Tag : Has(s, tag) =>
        /\ Has(s \o t, tag) /\ First(s \o t, tag) = First(s, tag) /\ First(s, tag) \in Nat
        /\ First(s, tag) < Len(s)
  <2>1. ASSUME NEW tag \in Tag, Has(s, tag)
        PROVE  /\ Has(s \o t, tag) /\ First(s \o t, tag) = First(s, tag) /\ First(s, tag) \in Nat
               /\ First(s, tag) < Len(s)
    <3>1. Has(s \o t, tag) /\ First(s \o t, tag) = First(s, tag)
      BY <2>1, FoundStays
    <3>2. First(s, tag) \in 1..(Len(s) - 1)
      BY <2>1, FirstIs
    <3> QED
      BY <3>1, <3>2, <1>1
  <2> QED
    BY <2>1
<1>3. \A tag \in Tag : ~Has(s, tag) /\ Has(s \o t, tag) =>
        First(s \o t, tag) \in Nat /\ First(s \o t, tag) >= Len(s)
  <2>1. ASSUME NEW tag \in Tag, ~Has(s, tag), Has(s \o t, tag)
        PROVE  First(s \o t, tag) \in Nat /\ First(s \o t, tag) >= Len(s)
    <3>1. First(s \o t, tag) \in 1..(Len(s \o t) - 1)
      BY <1>1, <2>1, FirstIs
    <3> QED
      BY <2>1, <3>1, NewIsBehind
  <2> QED
    BY <2>1
<1>4. /\ ToolOpen \in Tag /\ ToolClose \in Tag
  BY TagsAre
<1> DEFINE so == First(s, ToolOpen)
           sc == First(s, ToolClose)
           uo == First(s \o t, ToolOpen)
           uc == First(s \o t, ToolClose)
<1>5. CASE Has(s, ToolOpen) /\ Has(s, ToolClose)
  BY <1>2, <1>4, <1>5 DEF OpensFirst
<1>6. CASE Has(s, ToolOpen) /\ ~Has(s, ToolClose)
  <2>1. Has(s \o t, ToolOpen) /\ uo \in Nat /\ uo < Len(s)
    BY <1>2, <1>4, <1>6
  <2>2. Has(s \o t, ToolClose) => uc \in Nat /\ uc >= Len(s)
    BY <1>3, <1>4, <1>6
  <2>3. Has(s \o t, ToolClose) => uo < uc
    BY <1>1, <2>1, <2>2
  <2> QED
    BY <1>6, <2>1, <2>3 DEF OpensFirst
<1>7. CASE ~Has(s, ToolOpen) /\ Has(s, ToolClose)
  <2>1. Has(s \o t, ToolClose) /\ uc \in Nat /\ uc < Len(s)
    BY <1>2, <1>4, <1>7
  <2>2. Has(s \o t, ToolOpen) => uo \in Nat /\ uo >= Len(s)
    BY <1>3, <1>4, <1>7
  <2>3. Has(s \o t, ToolOpen) => ~(uo < uc)
    BY <1>1, <2>1, <2>2
  <2> QED
    BY <1>7, <2>1, <2>3 DEF OpensFirst
<1> QED
  BY <1>5, <1>6, <1>7

LEMMA RoundOfMore ==
  ASSUME NEW b \in Buffers, NEW t \in Piece, ~Settled(b)
  PROVE  More(b, t) \in Buffers /\ Round(More(b, t)) = More(Round(b), t)
<1> DEFINE s == b.buf
           u == s \o t
           m == More(b, t)
<1>1. s \in Piece /\ u \in Piece /\ m \in Buffers /\ m.buf = u /\ m.calls = b.calls
  BY CatIs DEF More, Buffers
<1>2. Has(s, ToolOpen) \/ Has(s, ToolClose)
  BY DEF Settled
<1>3. OpensFirst(u) <=> OpensFirst(s)
  BY <1>1, <1>2, OpensFirstStays
<1>4. Left(u) = Left(s) \o t /\ Found(u) = Found(s)
  <2>1. CASE OpensFirst(s)
    <3>1. Has(s, ToolOpen)
      BY <2>1 DEF OpensFirst
    <3>2. After(u, ToolOpen) = After(s, ToolOpen) \o t
      BY <1>1, <3>1, TagsAre, FoundStays
    <3> QED
      BY <1>3, <2>1, <3>2 DEF Left, Found
  <2>2. CASE ~OpensFirst(s)
    <3>1. Has(s, ToolClose)
      BY <1>2, <2>2 DEF OpensFirst
    <3>2. /\ Has(u, ToolClose) /\ After(u, ToolClose) = After(s, ToolClose) \o t
          /\ Before(u, ToolClose) = Before(s, ToolClose)
      BY <1>1, <3>1, TagsAre, FoundStays
    <3> HIDE DEF u, s
    <3> QED
      BY <1>3, <2>2, <3>1, <3>2 DEF Left, Found
  <2> QED
    BY <2>1, <2>2
<1>5. Round(b) \in Buffers /\ Round(b).buf = Left(s) /\ Round(b).calls = b.calls \o Found(s)
  BY RoundIs
<1>6. Round(m) \in Buffers /\ Round(m).buf = Left(u) /\ Round(m).calls = b.calls \o Found(u)
  BY <1>1, RoundIs
<1> HIDE DEF m, s, u
<1>7. Round(m) = [buf |-> Round(m).buf, calls |-> Round(m).calls]
  BY <1>6 DEF Buffers
<1>8. Round(m) = [buf |-> Left(s) \o t, calls |-> b.calls \o Found(s)]
  BY <1>4, <1>6, <1>7
<1> QED
  BY <1>1, <1>5, <1>8 DEF More, m

LEMMA FinalOfMore ==
  ASSUME NEW b \in Buffers, NEW t \in Piece
  PROVE  Final(More(b, t)) = Final(More(Final(b), t))
<1> DEFINE S == {n \in Nat : \A c \in Buffers :
                   Len(c.buf) <= n => Final(More(c, t)) = Final(More(Final(c), t))}
<1>1. ASSUME NEW c \in Buffers, Settled(c)
      PROVE  Final(More(c, t)) = Final(More(Final(c), t))
  BY <1>1, FinalOfSettled
<1>2. 0 \in S
  <2>1. ASSUME NEW c \in Buffers, Len(c.buf) <= 0
        PROVE  Settled(c)
    <3>1. Len(c.buf) \in Nat
      BY DEF Buffers, Piece
    <3>2. Len(c.buf) = 0
      BY <2>1, <3>1
    <3> QED
      BY <3>2, EmptySettled
  <2> QED
    BY <1>1, <2>1
<1>3. ASSUME NEW n \in Nat, n \in S
      PROVE  n + 1 \in S
  <2>1. ASSUME NEW c \in Buffers, Len(c.buf) <= n + 1, ~Settled(c)
        PROVE  Final(More(c, t)) = Final(More(Final(c), t))
    <3>1. Round(c) \in Buffers /\ Len(Round(c).buf) < Len(c.buf)
      BY <2>1, RoundIs
    <3>2. Len(c.buf) \in Nat /\ Len(Round(c).buf) \in Nat
      BY <3>1 DEF Buffers, Piece
    <3>3. Len(Round(c).buf) <= n
      BY <2>1, <3>1, <3>2
    <3>4. Final(More(Round(c), t)) = Final(More(Final(Round(c)), t))
      BY <1>3, <3>1, <3>3
    <3>5. More(c, t) \in Buffers /\ Round(More(c, t)) = More(Round(c), t)
      BY <2>1, RoundOfMore
    <3>6. Final(More(c, t)) = Final(More(Round(c), t))
      BY <3>5, FinalOfRound
    <3>7. Final(c) = Final(Round(c))
      BY FinalOfRound
    <3> QED
      BY <3>4, <3>6, <3>7
  <2>2. n + 1 \in Nat
    OBVIOUS
  <2> QED
    BY <1>1, <2>1, <2>2
<1>4. Nat \subseteq S
  <2> HIDE DEF S
  <2> QED
    BY <1>2, <1>3, NatSetInduction
<1>5. Len(b.buf) \in Nat
  BY DEF Buffers, Piece
<1>6. Len(b.buf) \in S /\ Len(b.buf) <= Len(b.buf)
  BY <1>4, <1>5
<1> QED
  BY <1>6

--------------------------------------------------------------------------------
(* The locals of sse                                                       *)

LEMMA BufferIs ==
  ASSUME NEW p \in Piece, NEW c \in Seq(Piece)
  PROVE  [buf |-> p, calls |-> c] \in Buffers
  BY DEF Buffers

LEMMA FeedToolsIs ==
  ASSUME NEW s \in SseLocals, NEW t \in Piece
  PROVE  LET u == FeedTools(s, t)
             b == Final(More([buf |-> s.buf, calls |-> s.out.calls], t))
         IN  /\ u \in SseLocals
             /\ u.phase = s.phase /\ u.mode = s.mode /\ u.carry = s.carry
             /\ u.thinkSeen = s.thinkSeen /\ u.stripLead = s.stripLead /\ u.buf = b.buf
             /\ u.out.reasoning = s.out.reasoning /\ u.out.content = s.out.content
             /\ u.out.calls = b.calls /\ u.out.finish = s.out.finish
<1> DEFINE m == More([buf |-> s.buf, calls |-> s.out.calls], t)
           b == Final(m)
           u == FeedTools(s, t)
<1>1. m = [buf |-> s.buf \o t, calls |-> s.out.calls] /\ m.buf = s.buf \o t
  BY DEF More
<1>2. s.buf \in Piece /\ s.out.calls \in Seq(Piece) /\ s.out \in Output
  BY DEF SseLocals, Output
<1>3. m \in Buffers
  <2>1. s.buf \o t \in Piece
    BY <1>2, CatIs
  <2> QED
    BY <1>1, <1>2, <2>1, BufferIs
<1>4. b \in Buffers
  BY <1>3, FinalIsSettled
<1>5. u = [s EXCEPT !.buf = b.buf, !.out.calls = b.calls]
  BY <1>1 DEF FeedTools, Final
<1> HIDE DEF b, u, m
<1>6. u = [s EXCEPT !.buf = b.buf, !.out = [s.out EXCEPT !.calls = b.calls]]
  BY <1>5
<1>7. b.buf \in Piece /\ b.calls \in Seq(Piece)
  BY <1>4 DEF Buffers
<1>8. [s.out EXCEPT !.calls = b.calls] \in Output
  BY <1>2, <1>7 DEF Output
<1>9. u \in SseLocals
  BY <1>6, <1>7, <1>8 DEF SseLocals
<1>10. /\ u.phase = s.phase /\ u.mode = s.mode /\ u.carry = s.carry
       /\ u.thinkSeen = s.thinkSeen /\ u.stripLead = s.stripLead /\ u.buf = b.buf
       /\ u.out = [s.out EXCEPT !.calls = b.calls]
  BY <1>6 DEF SseLocals
<1>11. /\ u.out.reasoning = s.out.reasoning /\ u.out.content = s.out.content
       /\ u.out.calls = b.calls /\ u.out.finish = s.out.finish
  BY <1>2, <1>10 DEF Output
<1> QED
  BY <1>9, <1>10, <1>11 DEF b, u, m

(* When the content x has come, in whatever pieces: strip says whether the *)
(* line ends at its beginning go.                                          *)
Shown(x, strip) == IF strip THEN LStrip(x) ELSE x
Drained(p, c) == Final([buf |-> p, calls |-> c])
ToolPart(y) == Drained(From(y, ToolOpen), <<>>)

ContentSeen(s, x, strip) ==
  LET y == Shown(x, strip) IN
  /\ s.phase = "content" /\ s.out.finish = "none"
  /\ ~Has(y, ToolOpen) =>
       /\ s.mode = "content" /\ s.carry = HeldPart(y, ToolOpen) /\ s.buf = <<>>
       /\ s.stripLead = (strip /\ y = <<>>)
       /\ s.out.content = SentPart(y, ToolOpen) /\ s.out.calls = <<>>
  /\ Has(y, ToolOpen) =>
       /\ s.mode = "tools" /\ s.buf = ToolPart(y).buf
       /\ s.out.content = Before(y, ToolOpen) /\ s.out.calls = ToolPart(y).calls

LEMMA ShownIs ==
  ASSUME NEW x \in Piece, NEW t \in Piece, NEW strip \in BOOLEAN
  PROVE  /\ Shown(x, strip) \in Piece /\ Shown(x \o t, strip) \in Piece
         /\ Shown(x \o t, strip) =
              IF strip /\ Shown(x, strip) = <<>> THEN LStrip(t) ELSE Shown(x, strip) \o t
<1>1. x \o t \in Piece
  BY CatIs
<1>2. LStrip(x) \in Piece /\ LStrip(x \o t) \in Piece
  BY <1>1, LStripType
<1>3. LStrip(x \o t) = IF LStrip(x) = <<>> THEN LStrip(t) ELSE LStrip(x) \o t
  BY LStripOfJoined
<1> QED
  BY <1>1, <1>2, <1>3 DEF Shown

LEMMA NothingFound ==
  ASSUME NEW tag \in Tag
  PROVE  ~Has(<<>>, tag) /\ SentPart(<<>>, tag) = <<>> /\ HeldPart(<<>>, tag) = <<>>
<1>1. <<>> \in Piece /\ Len(<<>>) = 0
  BY EmptyIs
<1>2. 1..(0 - 1) = {}
  OBVIOUS
<1>3. At(<<>>, tag) = {}
  BY <1>1, <1>2, AtIs
<1>4. Held(<<>>, tag) = 0
  BY DEF Held
<1>5. /\ SentPart(<<>>, tag) \in Piece /\ HeldPart(<<>>, tag) \in Piece
      /\ Len(HeldPart(<<>>, tag)) = 0 /\ Len(SentPart(<<>>, tag)) = 0
  <2>1. 0 - 0 = 0
    OBVIOUS
  <2> QED
    BY <1>1, <1>4, <2>1, HeldIs
<1> QED
  BY <1>3, <1>5, EmptyIs DEF Has

(* feed_content: u is s after data, which has something to show.           *)
Took(u, s, data) ==
  /\ u \in SseLocals /\ u.phase = s.phase
  /\ u.out.reasoning = s.out.reasoning /\ u.out.finish = s.out.finish
  /\ ~Has(data, ToolOpen) =>
       /\ u.mode = "content" /\ u.carry = HeldPart(data, ToolOpen) /\ u.buf = s.buf
       /\ ~u.stripLead /\ u.out.content = s.out.content \o SentPart(data, ToolOpen)
       /\ u.out.calls = s.out.calls
  /\ Has(data, ToolOpen) =>
       /\ u.mode = "tools" /\ u.buf = Drained(From(data, ToolOpen), s.out.calls).buf
       /\ u.out.calls = Drained(From(data, ToolOpen), s.out.calls).calls
       /\ u.out.content = s.out.content \o Before(data, ToolOpen)

LEMMA FeedContentIs ==
  ASSUME NEW s \in SseLocals, NEW t \in Piece, s.mode = "content",
         NEW data \in Piece, data = IF s.stripLead THEN LStrip(s.carry \o t) ELSE s.carry \o t,
         ~(s.stripLead /\ data = <<>>)
  PROVE  Took(FeedContent(s, t), s, data)
<1> DEFINE u == FeedContent(s, t)
           s1 == [s EXCEPT !.stripLead = FALSE]
<1>1. s.out \in Output /\ s.out.content \in Piece /\ s.mode # "tools"
  BY DEF SseLocals, Output
<1>2. CASE ~Has(data, ToolOpen)
  <2> DEFINE p == SentPart(data, ToolOpen)
             h == HeldPart(data, ToolOpen)
  <2>1. p \in Piece /\ h \in Piece /\ s.out.content \o p \in Piece
    BY <1>1, HeldIs, TagsAre, CatIs
  <2>2. u = [Say(s1, p) EXCEPT !.carry = h]
    BY <1>1, <1>2 DEF FeedContent
  <2> HIDE DEF p, h, u
  <2>3. u = [s EXCEPT !.stripLead = FALSE, !.out = [s.out EXCEPT !.content = s.out.content \o p], !.carry = h]
    BY <2>2 DEF Say, SseLocals
  <2>4. [s.out EXCEPT !.content = s.out.content \o p] \in Output
    BY <1>1, <2>1 DEF Output
  <2>5. u \in SseLocals
    BY <2>1, <2>3, <2>4 DEF SseLocals
  <2>6. /\ u.phase = s.phase /\ u.mode = s.mode /\ u.carry = h /\ u.buf = s.buf /\ u.stripLead = FALSE
        /\ u.out = [s.out EXCEPT !.content = s.out.content \o p]
    BY <2>3 DEF SseLocals
  <2>7. /\ u.out.reasoning = s.out.reasoning /\ u.out.finish = s.out.finish
        /\ u.out.content = s.out.content \o p /\ u.out.calls = s.out.calls
    BY <1>1, <2>6 DEF Output
  <2> QED
    BY <1>1, <1>2, <2>5, <2>6, <2>7 DEF p, h, u, Took
<1>3. CASE Has(data, ToolOpen)
  <2> DEFINE p == Before(data, ToolOpen)
             f == From(data, ToolOpen)
             v == [Say(s1, p) EXCEPT !.mode = "tools", !.buf = f]
  <2>1. p \in Piece /\ s.out.content \o p \in Piece
    BY <1>1, <1>3, FirstIs, TagsAre, CatIs
  <2>2. f \in Piece
    <3>1. /\ First(data, ToolOpen) \in 1..(Len(data) + 1) /\ Len(data) \in 0..Len(data)
          /\ First(data, ToolOpen) <= Len(data) + 1
      <4>1. First(data, ToolOpen) \in 1..(Len(data) - 1) /\ Len(data) \in Nat
        BY <1>3, FirstIs, TagsAre
      <4> QED
        BY <4>1
    <3> QED
      BY <3>1, SubIs DEF From
  <2>3. u = FeedTools(v, <<>>)
    BY <1>1, <1>3 DEF FeedContent, From
  <2> HIDE DEF p, f, u
  <2>4. v = [s EXCEPT !.stripLead = FALSE, !.out = [s.out EXCEPT !.content = s.out.content \o p],
                      !.mode = "tools", !.buf = f]
    BY DEF Say, SseLocals
  <2> HIDE DEF v
  <2>5. [s.out EXCEPT !.content = s.out.content \o p] \in Output
    BY <1>1, <2>1 DEF Output
  <2>6. v \in SseLocals
    BY <2>2, <2>4, <2>5 DEF SseLocals
  <2>7. /\ v.phase = s.phase /\ v.mode = "tools" /\ v.buf = f
        /\ v.out = [s.out EXCEPT !.content = s.out.content \o p]
    BY <2>4 DEF SseLocals
  <2>8. /\ v.out.reasoning = s.out.reasoning /\ v.out.finish = s.out.finish
        /\ v.out.content = s.out.content \o p /\ v.out.calls = s.out.calls
    BY <1>1, <2>7 DEF Output
  <2> DEFINE b == Final(More([buf |-> v.buf, calls |-> v.out.calls], <<>>))
  <2>9. /\ u \in SseLocals /\ u.phase = v.phase /\ u.mode = v.mode /\ u.buf = b.buf
        /\ u.out.reasoning = v.out.reasoning /\ u.out.content = v.out.content
        /\ u.out.calls = b.calls /\ u.out.finish = v.out.finish
    BY <2>3, <2>6, EmptyIs, FeedToolsIs
  <2>10. More([buf |-> v.buf, calls |-> v.out.calls], <<>>) = [buf |-> f, calls |-> s.out.calls]
    <3>1. f \o <<>> = f
      BY <2>2, EmptyIs
    <3> QED
      BY <2>7, <2>8, <3>1 DEF More
  <2>11. b = Final([buf |-> f, calls |-> s.out.calls])
    BY <2>10
  <2> HIDE DEF b
  <2> QED
    BY <1>3, <2>7, <2>8, <2>9, <2>11 DEF u, p, f, Drained, Took
<1> QED
  BY <1>2, <1>3

LEMMA FromIs ==
  ASSUME NEW s \in Piece, NEW tag \in Tag, Has(s, tag)
  PROVE  From(s, tag) \in Piece
<1>1. First(s, tag) \in 1..(Len(s) - 1) /\ Len(s) \in Nat
  BY FirstIs
<1>2. First(s, tag) \in 1..(Len(s) + 1) /\ Len(s) \in 0..Len(s) /\ First(s, tag) <= Len(s) + 1
  BY <1>1
<1> QED
  BY <1>2, SubIs DEF From

(* One more piece of content.                                              *)
LEMMA ContentStep ==
  ASSUME NEW s \in SseLocals, NEW x \in Piece, NEW t \in Piece, NEW strip \in BOOLEAN,
         ContentSeen(s, x, strip)
  PROVE  LET u == FeedContent(s, t) IN
         /\ u \in SseLocals /\ ContentSeen(u, x \o t, strip)
         /\ u.out.reasoning = s.out.reasoning
<1> DEFINE y == Shown(x, strip)
           z == Shown(x \o t, strip)
           u == FeedContent(s, t)
<1>1. /\ y \in Piece /\ z \in Piece
      /\ z = IF strip /\ y = <<>> THEN LStrip(t) ELSE y \o t
  BY ShownIs
<1>2. /\ s.phase = "content" /\ s.out.finish = "none"
      /\ ~Has(y, ToolOpen) =>
           /\ s.mode = "content" /\ s.carry = HeldPart(y, ToolOpen) /\ s.buf = <<>>
           /\ s.stripLead = (strip /\ y = <<>>)
           /\ s.out.content = SentPart(y, ToolOpen) /\ s.out.calls = <<>>
      /\ Has(y, ToolOpen) =>
           /\ s.mode = "tools" /\ s.buf = ToolPart(y).buf
           /\ s.out.content = Before(y, ToolOpen) /\ s.out.calls = ToolPart(y).calls
  BY DEF ContentSeen
<1>3. ToolOpen \in Tag
  BY TagsAre
<1> HIDE DEF y, z, u
<1>4. CASE Has(y, ToolOpen)
  <2>1. y # <<>>
    BY <1>3, <1>4, NothingFound
  <2>2. z = y \o t
    BY <1>1, <2>1
  <2>3. /\ Has(z, ToolOpen) /\ Before(z, ToolOpen) = Before(y, ToolOpen)
        /\ From(z, ToolOpen) = From(y, ToolOpen) \o t
    <3>1. /\ Has(y \o t, ToolOpen) /\ Before(y \o t, ToolOpen) = Before(y, ToolOpen)
          /\ From(y \o t, ToolOpen) = From(y, ToolOpen) \o t
      BY <1>1, <1>3, <1>4, FoundStays
    <3> QED
      BY <2>2, <3>1
  <2> DEFINE c == [buf |-> From(y, ToolOpen), calls |-> <<>>]
  <2>4. c \in Buffers
    <3>1. From(y, ToolOpen) \in Piece /\ <<>> \in Seq(Piece)
      BY <1>1, <1>3, <1>4, FromIs
    <3> QED
      BY <3>1, BufferIs
  <2>5. Final(c) \in Buffers /\ ToolPart(y) = Final(c)
    BY <2>4, FinalIsSettled DEF ToolPart, Drained
  <2>6. [buf |-> s.buf, calls |-> s.out.calls] = Final(c)
    <3>1. Final(c) = [buf |-> Final(c).buf, calls |-> Final(c).calls]
      BY <2>5 DEF Buffers
    <3> QED
      BY <1>2, <1>4, <2>5, <3>1
  <2>7. ToolPart(z) = Final(More(c, t))
    BY <2>3 DEF ToolPart, Drained, More
  <2>8. ToolPart(z) = Final(More([buf |-> s.buf, calls |-> s.out.calls], t))
    BY <2>4, <2>6, <2>7, FinalOfMore
  <2>9. s.mode = "tools"
    BY <1>2, <1>4
  <2>10. u = FeedTools(s, t)
    BY <2>9 DEF FeedContent, u
  <2>11. /\ u \in SseLocals /\ u.phase = s.phase /\ u.mode = s.mode /\ u.buf = ToolPart(z).buf
         /\ u.out.reasoning = s.out.reasoning /\ u.out.content = s.out.content
         /\ u.out.calls = ToolPart(z).calls /\ u.out.finish = s.out.finish
    BY <2>8, <2>10, FeedToolsIs
  <2>12. ContentSeen(u, x \o t, strip)
    BY <1>2, <1>4, <2>3, <2>11 DEF ContentSeen, z
  <2> QED
    BY <2>11, <2>12 DEF u
<1>5. CASE ~Has(y, ToolOpen) /\ s.stripLead /\ LStrip(s.carry \o t) = <<>>
  <2>1. strip /\ y = <<>> /\ s.mode = "content"
    BY <1>2, <1>5
  <2>2. s.carry = <<>>
    BY <1>2, <1>3, <1>5, <2>1, NothingFound
  <2>3. s.carry \o t = t
    BY <2>2, EmptyIs
  <2>4. z = <<>> /\ z = y
    BY <1>1, <1>5, <2>1, <2>3
  <2>5. u = s
    BY <1>5, <2>1 DEF FeedContent, u
  <2>6. ContentSeen(u, x \o t, strip)
    BY <2>4, <2>5 DEF ContentSeen, y, z
  <2> QED
    BY <2>5, <2>6 DEF u
<1>6. CASE ~Has(y, ToolOpen) /\ ~(s.stripLead /\ LStrip(s.carry \o t) = <<>>)
  <2> DEFINE data == IF s.stripLead THEN LStrip(s.carry \o t) ELSE s.carry \o t
             more == IF s.stripLead THEN LStrip(t) ELSE t
  <2>1. /\ s.mode = "content" /\ s.carry = HeldPart(y, ToolOpen) /\ s.buf = <<>>
        /\ s.stripLead = (strip /\ y = <<>>)
        /\ s.out.content = SentPart(y, ToolOpen) /\ s.out.calls = <<>>
    BY <1>2, <1>6
  <2>2. more \in Piece /\ z = y \o more /\ data = HeldPart(y, ToolOpen) \o more
    <3>1. CASE s.stripLead
      <4>1. strip /\ y = <<>> /\ HeldPart(y, ToolOpen) = <<>>
        BY <1>3, <2>1, <3>1, NothingFound
      <4>2. LStrip(t) \in Piece
        BY LStripType
      <4>3. s.carry \o t = t /\ <<>> \o LStrip(t) = LStrip(t)
        BY <2>1, <4>1, <4>2, EmptyIs
      <4> QED
        BY <1>1, <3>1, <4>1, <4>2, <4>3
    <3>2. CASE ~s.stripLead
      BY <1>1, <2>1, <3>2
    <3> QED
      BY <3>1, <3>2
  <2>3. data = IF s.stripLead THEN LStrip(s.carry \o t) ELSE s.carry \o t
    OBVIOUS
  <2>4. ~(s.stripLead /\ data = <<>>)
    BY <1>6
  <2> HIDE DEF data, more
  <2>5. /\ data \in Piece /\ SentPart(y, ToolOpen) \in Piece
        /\ Has(z, ToolOpen) <=> Has(data, ToolOpen)
        /\ Has(data, ToolOpen) => /\ Before(z, ToolOpen) = SentPart(y, ToolOpen) \o Before(data, ToolOpen)
                                  /\ From(z, ToolOpen) = From(data, ToolOpen)
        /\ SentPart(z, ToolOpen) = SentPart(y, ToolOpen) \o SentPart(data, ToolOpen)
        /\ HeldPart(z, ToolOpen) = HeldPart(data, ToolOpen)
    <3> DEFINE e == HeldPart(y, ToolOpen) \o more
               w == y \o more
    <3>1. /\ e \in Piece /\ SentPart(y, ToolOpen) \in Piece
          /\ Has(w, ToolOpen) <=> Has(e, ToolOpen)
          /\ Has(e, ToolOpen) => /\ Before(w, ToolOpen) = SentPart(y, ToolOpen) \o Before(e, ToolOpen)
                                 /\ From(w, ToolOpen) = From(e, ToolOpen)
          /\ SentPart(w, ToolOpen) = SentPart(y, ToolOpen) \o SentPart(e, ToolOpen)
          /\ HeldPart(w, ToolOpen) = HeldPart(e, ToolOpen)
      BY <1>1, <1>3, <1>6, <2>2, Resume
    <3>2. e = data /\ w = z
      BY <2>2
    <3> HIDE DEF e, w
    <3> QED
      BY <3>1, <3>2
  <2>6. Took(u, s, data)
    BY <2>1, <2>3, <2>4, <2>5, FeedContentIs DEF u
  <2>7. CASE Has(z, ToolOpen)
    <3>1. /\ u.mode = "tools" /\ u.buf = ToolPart(z).buf /\ u.out.calls = ToolPart(z).calls
          /\ u.out.content = Before(z, ToolOpen)
      BY <2>1, <2>5, <2>6, <2>7 DEF ToolPart, Took
    <3> QED
      BY <1>2, <2>6, <2>7, <3>1 DEF ContentSeen, z, u, Took
  <2>8. CASE ~Has(z, ToolOpen)
    <3>1. ~(strip /\ z = <<>>)
      <4>1. ASSUME strip, z = <<>> PROVE FALSE
        <5>1. y = <<>>
          <6>1. more \in Piece /\ y \o more = <<>>
            BY <2>2, <4>1
          <6> QED
            BY <1>1, <6>1, ConcatEqualIffEmpty DEF Piece
        <5>2. s.stripLead
          BY <2>1, <4>1, <5>1
        <5>3. data = <<>>
          <6>1. HeldPart(y, ToolOpen) = <<>> /\ <<>> \o more = more /\ y \o more = more
            BY <1>3, <2>2, <5>1, NothingFound, EmptyIs
          <6> QED
            BY <2>2, <4>1, <6>1
        <5> QED
          BY <2>4, <5>2, <5>3
      <4> QED
        BY <4>1
    <3>2. /\ u.mode = "content" /\ u.carry = HeldPart(z, ToolOpen) /\ u.buf = <<>>
          /\ ~u.stripLead /\ u.out.content = SentPart(z, ToolOpen) /\ u.out.calls = <<>>
      BY <2>1, <2>5, <2>6, <2>8 DEF Took
    <3>3. u.stripLead = (strip /\ z = <<>>)
      BY <2>6, <3>1, <3>2 DEF SseLocals, Took
    <3> QED
      BY <1>2, <2>6, <2>8, <3>2, <3>3 DEF ContentSeen, z, u, Took
  <2> QED
    BY <2>7, <2>8
<1> QED
  BY <1>4, <1>5, <1>6


LEMMA FeedContentType ==
  ASSUME NEW s \in SseLocals, NEW t \in Piece
  PROVE  FeedContent(s, t) \in SseLocals
<1> DEFINE data == IF s.stripLead THEN LStrip(s.carry \o t) ELSE s.carry \o t
<1>1. data \in Piece
  <2>1. s.carry \o t \in Piece
    BY CatIs DEF SseLocals
  <2> QED
    BY <2>1, LStripType
<1>2. s.mode \in {"content", "tools"}
  BY DEF SseLocals
<1>3. CASE s.mode = "tools"
  BY <1>3, FeedToolsIs DEF FeedContent
<1>4. CASE s.mode = "content" /\ s.stripLead /\ data = <<>>
  BY <1>4 DEF FeedContent
<1>5. CASE s.mode = "content" /\ ~(s.stripLead /\ data = <<>>)
  <2>1. data = IF s.stripLead THEN LStrip(s.carry \o t) ELSE s.carry \o t
    OBVIOUS
  <2> HIDE DEF data
  <2>2. Took(FeedContent(s, t), s, data)
    BY <1>1, <1>5, <2>1, FeedContentIs
  <2> QED
    BY <2>2 DEF Took
<1> QED
  BY <1>2, <1>3, <1>4, <1>5

--------------------------------------------------------------------------------
(* The reasoning                                                           *)

LEMMA PrefixIs ==
  ASSUME NEW s \in Piece, NEW tag \in Tag
  PROVE  IsPrefix(tag, s) <=> Len(s) >= 2 /\ s[1] = tag[1] /\ s[2] = tag[2]
<1>1. tag \in Piece /\ Len(tag) = 2 /\ Len(s) \in Nat
  BY DEF Tag, Piece
<1>2. SubSeq(tag, 1, Len(tag)) = tag
  BY <1>1, SubSeqFull DEF Piece
<1>3. IsPrefix(tag, s) <=> 2 <= Len(s) /\ tag = SubSeq(s, 1, 2)
  BY <1>1, <1>2 DEF IsPrefix
<1>4. ASSUME 2 <= Len(s) PROVE tag = SubSeq(s, 1, 2) <=> s[1] = tag[1] /\ s[2] = tag[2]
  <2>1. /\ SubSeq(s, 1, 2) \in Piece /\ Len(SubSeq(s, 1, 2)) = 2
        /\ \A i \in 1..2 : SubSeq(s, 1, 2)[i] = s[i]
    <3>1. 1 \in 1..(Len(s) + 1) /\ 2 \in 0..Len(s) /\ 1 <= 2 + 1 /\ 2 + 1 - 1 = 2
          /\ \A i \in 1..2 : 1 + i - 1 = i
      BY <1>1, <1>4
    <3>2. /\ SubSeq(s, 1, 2) \in Piece /\ Len(SubSeq(s, 1, 2)) = 2 + 1 - 1
          /\ \A i \in 1..(2 + 1 - 1) : SubSeq(s, 1, 2)[i] = s[1 + i - 1]
      BY <3>1, SubIs
    <3> QED
      BY <3>1, <3>2
  <2> DEFINE p == SubSeq(s, 1, 2)
  <2> HIDE DEF p
  <2>2. p \in Piece /\ Len(p) = 2 /\ p[1] = s[1] /\ p[2] = s[2]
    BY <2>1 DEF p
  <2>3. ASSUME s[1] = tag[1], s[2] = tag[2] PROVE tag = p
    <3>1. \A i \in 1..2 : tag[i] = p[i]
      <4>1. \A i \in 1..2 : i = 1 \/ i = 2
        OBVIOUS
      <4> QED
        BY <2>2, <2>3, <4>1
    <3> QED
      BY <1>1, <2>2, <3>1, SamePiece
  <2> QED
    BY <2>2, <2>3 DEF p
<1> QED
  BY <1>1, <1>3, <1>4

(* A beginning stays the beginning.                                        *)
LEMMA PrefixStays ==
  ASSUME NEW s \in Piece, NEW t \in Piece, NEW tag \in Tag, IsPrefix(tag, LStrip(s))
  PROVE  IsPrefix(tag, LStrip(s \o t))
<1> DEFINE a == LStrip(s)
<1>1. a \in Piece
  BY LStripType
<1>2. Len(a) >= 2 /\ a[1] = tag[1] /\ a[2] = tag[2] /\ Len(a) \in Nat
  BY <1>1, PrefixIs DEF Piece
<1>3. a # <<>>
  BY <1>2, EmptyIs
<1>4. LStrip(s \o t) = a \o t
  BY <1>3, LStripOfJoined
<1>5. /\ a \o t \in Piece /\ Len(a \o t) = Len(a) + Len(t) /\ Len(t) \in Nat
      /\ \A i \in 1..Len(a) : (a \o t)[i] = a[i]
  BY <1>1, CatIs
<1>6. Len(a \o t) >= 2 /\ (a \o t)[1] = tag[1] /\ (a \o t)[2] = tag[2]
  BY <1>2, <1>5
<1>7. IsPrefix(tag, a \o t)
  BY <1>5, <1>6, PrefixIs
<1> QED
  BY <1>4, <1>7

LEMMA SkipType ==
  ASSUME NEW s \in Piece, NEW beginning \in BOOLEAN
  PROVE  SkipOpen(s, beginning) \in Piece
<1> DEFINE a == LStrip(s)
<1>1. a \in Piece /\ Len(a) \in Nat
  BY LStripType DEF Piece
<1>2. ASSUME IsPrefix(ThinkOpen, a) PROVE SubSeq(a, 3, Len(a)) \in Piece
  <2>1. Len(a) >= 2
    BY <1>1, <1>2, PrefixIs, TagsAre
  <2>2. 3 \in 1..(Len(a) + 1) /\ Len(a) \in 0..Len(a) /\ 3 <= Len(a) + 1
    BY <1>1, <2>1
  <2> QED
    BY <1>1, <2>2, SubIs
<1> QED
  BY <1>2 DEF SkipOpen

(* feed_think: u is s after data, which does not close the block; v is s   *)
(* after the closing tag in data, before what follows it.                  *)
Mused(u, s, data) ==
  /\ u \in SseLocals /\ u.phase = s.phase /\ u.mode = s.mode /\ u.buf = s.buf
  /\ u.carry = HeldPart(data, ThinkClose) /\ u.stripLead = s.stripLead
  /\ u.thinkSeen = (s.thinkSeen \/ SentPart(data, ThinkClose) # <<>>)
  /\ u.out.reasoning = s.out.reasoning \o SentPart(data, ThinkClose)
  /\ u.out.content = s.out.content /\ u.out.calls = s.out.calls /\ u.out.finish = s.out.finish
Concluded(v, s, data) ==
  /\ v \in SseLocals /\ v.phase = "content" /\ v.mode = s.mode /\ v.buf = s.buf /\ v.carry = <<>>
  /\ v.stripLead = s.stripLead
  /\ v.out.reasoning = s.out.reasoning \o Before(data, ThinkClose)
  /\ v.out.content = s.out.content /\ v.out.calls = s.out.calls /\ v.out.finish = s.out.finish

LEMMA FeedThinkIs ==
  ASSUME NEW s \in SseLocals, NEW t \in Piece
  PROVE  LET data == SkipOpen(s.carry \o t, ~s.thinkSeen) IN
         /\ data \in Piece
         /\ ~Has(data, ThinkClose) => Mused(FeedThink(s, t), s, data)
         /\ Has(data, ThinkClose) => \E v : /\ Concluded(v, s, data)
                                            /\ FeedThink(s, t) = FeedContent(v, LStrip(After(data, ThinkClose)))
<1> DEFINE data == SkipOpen(s.carry \o t, ~s.thinkSeen)
<1>1. data \in Piece
  <2>1. s.carry \o t \in Piece
    BY CatIs DEF SseLocals
  <2>2. (~s.thinkSeen) \in BOOLEAN
    OBVIOUS
  <2> QED
    BY <2>1, <2>2, SkipType
<1>2. s.out \in Output /\ s.out.reasoning \in Piece
  BY DEF SseLocals, Output
<1>0. data = SkipOpen(s.carry \o t, ~s.thinkSeen)
  OBVIOUS
<1> HIDE DEF data
<1>3. ASSUME ~Has(data, ThinkClose) PROVE Mused(FeedThink(s, t), s, data)
  <2> DEFINE p == SentPart(data, ThinkClose)
             h == HeldPart(data, ThinkClose)
             u == FeedThink(s, t)
  <2>1. p \in Piece /\ h \in Piece /\ s.out.reasoning \o p \in Piece
    BY <1>1, <1>2, HeldIs, TagsAre, CatIs
  <2>2. u = [Reason(s, p) EXCEPT !.carry = h, !.thinkSeen = @ \/ p # <<>>]
    BY <1>0, <1>3 DEF FeedThink
  <2> HIDE DEF p, h, u
  <2>3. u = [s EXCEPT !.out = [s.out EXCEPT !.reasoning = s.out.reasoning \o p], !.carry = h,
                      !.thinkSeen = s.thinkSeen \/ p # <<>>]
    BY <2>2 DEF Reason, SseLocals
  <2>4. [s.out EXCEPT !.reasoning = s.out.reasoning \o p] \in Output
    BY <1>2, <2>1 DEF Output
  <2>5. u \in SseLocals
    BY <2>1, <2>3, <2>4 DEF SseLocals
  <2>6. /\ u.phase = s.phase /\ u.mode = s.mode /\ u.carry = h /\ u.buf = s.buf /\ u.stripLead = s.stripLead
        /\ u.thinkSeen = (s.thinkSeen \/ p # <<>>)
        /\ u.out = [s.out EXCEPT !.reasoning = s.out.reasoning \o p]
    BY <2>3 DEF SseLocals
  <2>7. /\ u.out.reasoning = s.out.reasoning \o p /\ u.out.finish = s.out.finish
        /\ u.out.content = s.out.content /\ u.out.calls = s.out.calls
    BY <1>2, <2>6 DEF Output
  <2> QED
    BY <2>5, <2>6, <2>7 DEF p, h, u, Mused
<1>4. ASSUME Has(data, ThinkClose)
      PROVE  \E v : Concluded(v, s, data) /\ FeedThink(s, t) = FeedContent(v, LStrip(After(data, ThinkClose)))
  <2> DEFINE p == Before(data, ThinkClose)
             v == [Reason(s, p) EXCEPT !.carry = <<>>, !.phase = "content"]
  <2>1. p \in Piece /\ s.out.reasoning \o p \in Piece
    BY <1>1, <1>2, <1>4, FirstIs, TagsAre, CatIs
  <2>2. FeedThink(s, t) = FeedContent(v, LStrip(After(data, ThinkClose)))
    BY <1>0, <1>4 DEF FeedThink
  <2> HIDE DEF p
  <2>3. v = [s EXCEPT !.out = [s.out EXCEPT !.reasoning = s.out.reasoning \o p], !.carry = <<>>,
                      !.phase = "content"]
    BY DEF Reason, SseLocals
  <2> HIDE DEF v
  <2>4. [s.out EXCEPT !.reasoning = s.out.reasoning \o p] \in Output
    BY <1>2, <2>1 DEF Output
  <2>5. v \in SseLocals
    BY <2>3, <2>4, EmptyIs DEF SseLocals
  <2>6. /\ v.phase = "content" /\ v.mode = s.mode /\ v.carry = <<>> /\ v.buf = s.buf
        /\ v.stripLead = s.stripLead /\ v.out = [s.out EXCEPT !.reasoning = s.out.reasoning \o p]
    BY <2>3 DEF SseLocals
  <2>7. /\ v.out.reasoning = s.out.reasoning \o p /\ v.out.finish = s.out.finish
        /\ v.out.content = s.out.content /\ v.out.calls = s.out.calls
    BY <1>2, <2>6 DEF Output
  <2> QED
    BY <2>2, <2>5, <2>6, <2>7 DEF p, Concluded
<1> QED
  BY <1>1, <1>3, <1>4 DEF data

LEMMA FeedType ==
  ASSUME NEW s \in SseLocals, NEW t \in Piece
  PROVE  Feed(s, t) \in SseLocals
<1> DEFINE data == SkipOpen(s.carry \o t, ~s.thinkSeen)
<1>1. data \in Piece
  BY FeedThinkIs
<1>2. FeedContent(s, t) \in SseLocals
  BY FeedContentType
<1>3. CASE ~Has(data, ThinkClose)
  <2>1. FeedThink(s, t) \in SseLocals
    BY <1>3, FeedThinkIs DEF Mused
  <2> QED
    BY <1>2, <2>1 DEF Feed
<1>4. CASE Has(data, ThinkClose)
  <2>1. PICK v \in SseLocals : FeedThink(s, t) = FeedContent(v, LStrip(After(data, ThinkClose)))
    BY <1>4, FeedThinkIs DEF Concluded
  <2>2. LStrip(After(data, ThinkClose)) \in Piece
    BY <1>1, <1>4, FirstIs, LStripType, TagsAre
  <2>3. FeedThink(s, t) \in SseLocals
    BY <2>1, <2>2, FeedContentType
  <2> QED
    BY <1>2, <2>3 DEF Feed
<1> QED
  BY <1>3, <1>4


(* While only reasoning has come.                                          *)
ThinkSeen(s, x) ==
  /\ s.phase = "think" /\ s.mode = "content" /\ s.buf = <<>> /\ s.stripLead = TRUE
  /\ s.carry = HeldPart(x, ThinkClose) /\ s.thinkSeen = (SentPart(x, ThinkClose) # <<>>)
  /\ s.out.reasoning = SentPart(x, ThinkClose) /\ s.out.content = <<>>
  /\ s.out.calls = <<>> /\ s.out.finish = "none"

(* Where sse is when the text x has come, however it was cut: this says    *)
(* all of s that the rest of the answer depends on.                        *)
Consumed(s, x, think) ==
  IF ~think THEN ContentSeen(s, x, FALSE) /\ s.out.reasoning = <<>>
  ELSE IF ~Has(x, ThinkClose) THEN ThinkSeen(s, x)
  ELSE ContentSeen(s, After(x, ThinkClose), TRUE) /\ s.out.reasoning = Before(x, ThinkClose)

Unopened(x) == ~IsPrefix(ThinkOpen, LStrip(x))

LEMMA NothingShown ==
  ASSUME NEW s, NEW strip \in BOOLEAN, s.phase = "content", s.out.finish = "none",
         s.mode = "content", s.carry = <<>>, s.buf = <<>>, s.stripLead = strip,
         s.out.content = <<>>, s.out.calls = <<>>
  PROVE  ContentSeen(s, <<>>, strip)
<1>1. LStrip(<<>>) = <<>>
  BY DEF LStrip, Inked
<1>2. Shown(<<>>, strip) = <<>>
  BY <1>1 DEF Shown
<1>3. ~Has(<<>>, ToolOpen) /\ SentPart(<<>>, ToolOpen) = <<>> /\ HeldPart(<<>>, ToolOpen) = <<>>
  BY NothingFound, TagsAre
<1>4. strip = (strip /\ <<>> = <<>>)
  OBVIOUS
<1> QED
  BY <1>2, <1>3, <1>4 DEF ContentSeen

LEMMA ThinkStep ==
  ASSUME NEW s \in SseLocals, NEW x \in Piece, NEW t \in Piece, ~Has(x, ThinkClose),
         ThinkSeen(s, x), Unopened(x \o t)
  PROVE  FeedThink(s, t) \in SseLocals /\ Consumed(FeedThink(s, t), x \o t, TRUE)
<1> DEFINE data == HeldPart(x, ThinkClose) \o t
           u == FeedThink(s, t)
           z == x \o t
<1>1. ThinkClose \in Tag
  BY TagsAre
<1>2. /\ data \in Piece /\ SentPart(x, ThinkClose) \in Piece
      /\ Has(z, ThinkClose) <=> Has(data, ThinkClose)
      /\ Has(data, ThinkClose) => /\ Before(z, ThinkClose) = SentPart(x, ThinkClose) \o Before(data, ThinkClose)
                                  /\ After(z, ThinkClose) = After(data, ThinkClose)
      /\ SentPart(z, ThinkClose) = SentPart(x, ThinkClose) \o SentPart(data, ThinkClose)
      /\ HeldPart(z, ThinkClose) = HeldPart(data, ThinkClose)
  BY <1>1, Resume
<1>3. /\ s.phase = "think" /\ s.mode = "content" /\ s.buf = <<>> /\ s.stripLead = TRUE
      /\ s.carry = HeldPart(x, ThinkClose) /\ s.thinkSeen = (SentPart(x, ThinkClose) # <<>>)
      /\ s.out.reasoning = SentPart(x, ThinkClose) /\ s.out.content = <<>>
      /\ s.out.calls = <<>> /\ s.out.finish = "none"
  BY DEF ThinkSeen
<1>4. SkipOpen(s.carry \o t, ~s.thinkSeen) = data
  <2>1. CASE s.thinkSeen
    BY <1>3, <2>1 DEF SkipOpen
  <2>2. CASE ~s.thinkSeen
    <3>1. x = <<>> \o HeldPart(x, ThinkClose) /\ HeldPart(x, ThinkClose) \in Piece
      BY <1>1, <1>3, <2>2, HeldIs
    <3>2. x = HeldPart(x, ThinkClose)
      BY <3>1, EmptyIs
    <3>3. data = z /\ s.carry \o t = z
      BY <1>3, <3>2
    <3> HIDE DEF data, z
    <3>4. ~IsPrefix(ThinkOpen, LStrip(z))
      BY DEF Unopened, z
    <3> QED
      BY <3>3, <3>4 DEF SkipOpen
  <2> QED
    BY <2>1, <2>2
<1> HIDE DEF data, u, z
<1>a. /\ ~Has(data, ThinkClose) => Mused(u, s, data)
      /\ Has(data, ThinkClose) => \E v : Concluded(v, s, data) /\ u = FeedContent(v, LStrip(After(data, ThinkClose)))
  BY <1>4, FeedThinkIs DEF u
<1>5. CASE ~Has(data, ThinkClose)
  <2>1. /\ u \in SseLocals /\ u.phase = s.phase /\ u.mode = s.mode /\ u.buf = s.buf
        /\ u.carry = HeldPart(data, ThinkClose) /\ u.stripLead = s.stripLead
        /\ u.thinkSeen = (s.thinkSeen \/ SentPart(data, ThinkClose) # <<>>)
        /\ u.out.reasoning = s.out.reasoning \o SentPart(data, ThinkClose)
        /\ u.out.content = s.out.content /\ u.out.calls = s.out.calls /\ u.out.finish = s.out.finish
    BY <1>5, <1>a DEF Mused
  <2>2. SentPart(z, ThinkClose) = <<>> <=> SentPart(x, ThinkClose) = <<>> /\ SentPart(data, ThinkClose) = <<>>
    <3>1. SentPart(data, ThinkClose) \in Piece
      BY <1>1, <1>2, HeldIs
    <3> QED
      BY <1>2, <3>1, ConcatEqualIffEmpty DEF Piece
  <2>3. u.thinkSeen = (SentPart(z, ThinkClose) # <<>>)
    BY <1>3, <2>1, <2>2
  <2>4. ThinkSeen(u, z)
    BY <1>2, <1>3, <2>1, <2>3 DEF ThinkSeen
  <2> QED
    BY <1>2, <1>5, <2>1, <2>4 DEF Consumed, u, z
<1>6. CASE Has(data, ThinkClose)
  <2> DEFINE a == After(data, ThinkClose)
  <2>1. PICK v \in SseLocals :
          /\ u = FeedContent(v, LStrip(a))
          /\ v.phase = "content" /\ v.mode = s.mode /\ v.buf = s.buf /\ v.carry = <<>>
          /\ v.stripLead = s.stripLead
          /\ v.out.reasoning = s.out.reasoning \o Before(data, ThinkClose)
          /\ v.out.content = s.out.content /\ v.out.calls = s.out.calls /\ v.out.finish = s.out.finish
    BY <1>6, <1>a DEF Concluded, a
  <2>2. a \in Piece
    BY <1>1, <1>2, <1>6, FirstIs
  <2> HIDE DEF a
  <2>3. LStrip(a) \in Piece /\ LStrip(LStrip(a)) = LStrip(a) /\ <<>> \o LStrip(a) = LStrip(a)
    BY <2>2, LStripType, LStripTwice, EmptyIs
  <2>4. ContentSeen(v, <<>>, TRUE)
    BY <1>3, <2>1, NothingShown
  <2>5. u \in SseLocals /\ ContentSeen(u, LStrip(a), TRUE) /\ u.out.reasoning = v.out.reasoning
    <3> DEFINE l == LStrip(a)
    <3>1. l \in Piece /\ <<>> \o l = l /\ <<>> \in Piece
      BY <2>3, EmptyIs
    <3>2. u = FeedContent(v, l)
      BY <2>1
    <3> HIDE DEF l
    <3>3. u \in SseLocals /\ ContentSeen(u, <<>> \o l, TRUE) /\ u.out.reasoning = v.out.reasoning
      BY <2>4, <3>1, <3>2, ContentStep
    <3> QED
      BY <3>1, <3>3 DEF l
  <2>6. Shown(LStrip(a), TRUE) = Shown(a, TRUE)
    BY <2>3 DEF Shown
  <2>7. ContentSeen(u, a, TRUE)
    BY <2>5, <2>6 DEF ContentSeen
  <2>8. u.out.reasoning = Before(z, ThinkClose)
    BY <1>2, <1>3, <1>6, <2>1, <2>5
  <2> QED
    BY <1>2, <1>6, <2>5, <2>7, <2>8 DEF Consumed, u, z, a
<1> QED
  BY <1>5, <1>6

(* One more piece of text.                                                 *)
LEMMA FeedStep ==
  ASSUME NEW s \in SseLocals, NEW x \in Piece, NEW t \in Piece, NEW think \in BOOLEAN,
         Consumed(s, x, think), think => Unopened(x \o t)
  PROVE  Consumed(Feed(s, t), x \o t, think)
<1>1. CASE ~think
  <2>1. s.phase = "content" /\ ContentSeen(s, x, FALSE) /\ s.out.reasoning = <<>>
    BY <1>1 DEF Consumed, ContentSeen
  <2>2. ContentSeen(FeedContent(s, t), x \o t, FALSE) /\ FeedContent(s, t).out.reasoning = <<>>
    BY <2>1, ContentStep
  <2>3. Feed(s, t) = FeedContent(s, t)
    BY <2>1 DEF Feed
  <2> QED
    BY <1>1, <2>2, <2>3 DEF Consumed
<1>2. CASE think /\ ~Has(x, ThinkClose)
  <2>1. ThinkSeen(s, x)
    BY <1>2 DEF Consumed
  <2>2. Feed(s, t) = FeedThink(s, t)
    BY <2>1 DEF Feed, ThinkSeen
  <2>3. Consumed(FeedThink(s, t), x \o t, TRUE)
    BY <1>2, <2>1, ThinkStep
  <2> QED
    BY <1>2, <2>2, <2>3
<1>3. CASE think /\ Has(x, ThinkClose)
  <2> DEFINE a == After(x, ThinkClose)
  <2>1. s.phase = "content" /\ ContentSeen(s, a, TRUE) /\ s.out.reasoning = Before(x, ThinkClose)
    BY <1>3 DEF Consumed, ContentSeen
  <2>2. a \in Piece
    BY <1>3, FirstIs, TagsAre
  <2>3. /\ Has(x \o t, ThinkClose) /\ Before(x \o t, ThinkClose) = Before(x, ThinkClose)
        /\ After(x \o t, ThinkClose) = a \o t
    BY <1>3, FoundStays, TagsAre
  <2> HIDE DEF a
  <2>4. ContentSeen(FeedContent(s, t), a \o t, TRUE) /\ FeedContent(s, t).out.reasoning = s.out.reasoning
    BY <2>1, <2>2, ContentStep
  <2>5. Feed(s, t) = FeedContent(s, t)
    BY <2>1 DEF Feed
  <2> QED
    BY <1>3, <2>1, <2>3, <2>4, <2>5 DEF Consumed
<1> QED
  BY <1>1, <1>2, <1>3


--------------------------------------------------------------------------------
(* The end of the text                                                     *)

Told(s, length) ==
  [reasoning |-> IF s.phase = "think" THEN s.out.reasoning \o s.carry ELSE s.out.reasoning,
   content |-> IF s.phase = "think" THEN s.out.content
               ELSE IF s.mode = "content" THEN s.out.content \o s.carry
               ELSE IF s.out.calls = <<>> THEN s.out.content \o Strip(s.buf) ELSE s.out.content,
   calls |-> s.out.calls, finish |-> FinishReason(length, s.out.calls)]

LEMMA OutputIs ==
  ASSUME NEW o \in Output, NEW r \in Piece, NEW f
  PROVE  /\ [o EXCEPT !.reasoning = r, !.finish = f]
              = [reasoning |-> r, content |-> o.content, calls |-> o.calls, finish |-> f]
         /\ [o EXCEPT !.content = r, !.finish = f]
              = [reasoning |-> o.reasoning, content |-> r, calls |-> o.calls, finish |-> f]
<1> DEFINE u == [o EXCEPT !.reasoning = r, !.finish = f]
           v == [o EXCEPT !.content = r, !.finish = f]
<1>1. DOMAIN u = {"reasoning", "content", "calls", "finish"} /\ DOMAIN v = DOMAIN u
  BY DEF Output
<1>2. u = [i \in DOMAIN u |-> u[i]] /\ v = [i \in DOMAIN v |-> v[i]]
  OBVIOUS
<1>3. /\ u.reasoning = r /\ u.content = o.content /\ u.calls = o.calls /\ u.finish = f
      /\ v.reasoning = o.reasoning /\ v.content = r /\ v.calls = o.calls /\ v.finish = f
  BY DEF Output
<1> HIDE DEF u, v
<1>4. u = [reasoning |-> r, content |-> o.content, calls |-> o.calls, finish |-> f]
  BY <1>1, <1>2, <1>3
<1>5. v = [reasoning |-> o.reasoning, content |-> r, calls |-> o.calls, finish |-> f]
  BY <1>1, <1>2, <1>3
<1> QED
  BY <1>4, <1>5 DEF u, v

LEMMA FlushedIs ==
  ASSUME NEW s \in SseLocals, NEW length \in BOOLEAN
  PROVE  Flushed(s, length) \in SseLocals /\ Flushed(s, length).out = Told(s, length)
<1> DEFINE fin == FinishReason(length, s.out.calls)
           o == Told(s, length)
           u == Flushed(s, length)
<1>1. /\ s.out \in Output /\ s.out.reasoning \in Piece /\ s.out.content \in Piece
      /\ s.out.calls \in Seq(Piece) /\ s.carry \in Piece /\ s.buf \in Piece
  BY DEF SseLocals, Output
<1>2. /\ s.out.reasoning \o s.carry \in Piece /\ s.out.content \o s.carry \in Piece
      /\ s.out.content \o Strip(s.buf) \in Piece
  BY <1>1, StripType, CatIs
<1>3. fin \in {"length", "tool_calls", "stop"}
  BY DEF FinishReason
<1>4. o.reasoning \in Piece /\ o.content \in Piece
  BY <1>1, <1>2 DEF Told
<1>5. o \in Output
  BY <1>1, <1>3, <1>4 DEF Told, Output
<1>6. u = [s EXCEPT !.out = o]
  <2>1. CASE s.phase = "think"
    <3>0. o = [reasoning |-> s.out.reasoning \o s.carry, content |-> s.out.content,
               calls |-> s.out.calls, finish |-> fin]
      BY <2>1 DEF Told
    <3>1. u = [[s EXCEPT !.out.reasoning = s.out.reasoning \o s.carry] EXCEPT !.out.finish = fin]
      BY <2>1 DEF Flushed, Reason
    <3> HIDE DEF fin, u, o
    <3>2. u = [s EXCEPT !.out = [s.out EXCEPT !.reasoning = s.out.reasoning \o s.carry, !.finish = fin]]
      BY <3>1 DEF SseLocals
    <3>3. [s.out EXCEPT !.reasoning = s.out.reasoning \o s.carry, !.finish = fin] = o
      BY <1>1, <1>2, <3>0, OutputIs
    <3> QED
      BY <3>2, <3>3
  <2>2. CASE s.phase # "think" /\ s.mode = "content"
    <3>0. o = [reasoning |-> s.out.reasoning, content |-> s.out.content \o s.carry,
               calls |-> s.out.calls, finish |-> fin]
      BY <2>2 DEF Told
    <3>1. u = [[s EXCEPT !.out.content = s.out.content \o s.carry] EXCEPT !.out.finish = fin]
      BY <2>2 DEF Flushed, Say
    <3> HIDE DEF fin, u, o
    <3>2. u = [s EXCEPT !.out = [s.out EXCEPT !.content = s.out.content \o s.carry, !.finish = fin]]
      BY <3>1 DEF SseLocals
    <3>3. [s.out EXCEPT !.content = s.out.content \o s.carry, !.finish = fin] = o
      BY <1>1, <1>2, <3>0, OutputIs
    <3> QED
      BY <3>2, <3>3
  <2>3. CASE s.phase # "think" /\ s.mode # "content" /\ s.out.calls = <<>>
    <3>0. o = [reasoning |-> s.out.reasoning, content |-> s.out.content \o Strip(s.buf),
               calls |-> s.out.calls, finish |-> fin]
      BY <2>3 DEF Told
    <3>1. u = [[s EXCEPT !.out.content = s.out.content \o Strip(s.buf)] EXCEPT !.out.finish = fin]
      BY <2>3 DEF Flushed, Say
    <3> HIDE DEF fin, u, o
    <3>2. u = [s EXCEPT !.out = [s.out EXCEPT !.content = s.out.content \o Strip(s.buf), !.finish = fin]]
      BY <3>1 DEF SseLocals
    <3>3. [s.out EXCEPT !.content = s.out.content \o Strip(s.buf), !.finish = fin] = o
      BY <1>1, <1>2, <3>0, OutputIs
    <3> QED
      BY <3>2, <3>3
  <2>4. CASE s.phase # "think" /\ s.mode # "content" /\ s.out.calls # <<>>
    <3>1. u = [s EXCEPT !.out.finish = fin]
      BY <2>4 DEF Flushed
    <3> HIDE DEF fin, u, o
    <3>2. u = [s EXCEPT !.out = [s.out EXCEPT !.finish = fin]]
      BY <3>1 DEF SseLocals
    <3>3. [s.out EXCEPT !.finish = fin] = o
      BY <1>1, <2>4 DEF Output, Told, o, fin
    <3> QED
      BY <3>2, <3>3
  <2> QED
    BY <2>1, <2>2, <2>3, <2>4
<1> HIDE DEF u, o
<1>7. u \in SseLocals /\ u.out = o
  BY <1>5, <1>6 DEF SseLocals
<1> QED
  BY <1>7 DEF u, o

(* What the client has in the end: a function of the text alone.           *)
ContentOf(x, think) ==
  IF ~think THEN x ELSE IF Has(x, ThinkClose) THEN LStrip(After(x, ThinkClose)) ELSE <<>>

AnswerTo(x, think, length) ==
  LET y     == ContentOf(x, think)
      calls == IF Has(y, ToolOpen) THEN ToolPart(y).calls ELSE <<>>
  IN  [reasoning |-> IF ~think THEN <<>> ELSE IF Has(x, ThinkClose) THEN Before(x, ThinkClose) ELSE x,
       content |-> IF ~Has(y, ToolOpen) THEN y
                   ELSE IF calls # <<>> THEN Before(y, ToolOpen)
                   ELSE Before(y, ToolOpen) \o Strip(ToolPart(y).buf),
       calls |-> calls, finish |-> FinishReason(length, calls)]

LEMMA ContentTold ==
  ASSUME NEW s \in SseLocals, NEW x \in Piece, NEW strip \in BOOLEAN, NEW length \in BOOLEAN,
         ContentSeen(s, x, strip)
  PROVE  LET y     == Shown(x, strip)
             calls == IF Has(y, ToolOpen) THEN ToolPart(y).calls ELSE <<>>
             o     == Told(s, length)
         IN  /\ o.reasoning = s.out.reasoning /\ o.calls = calls /\ o.finish = FinishReason(length, calls)
             /\ o.content = IF ~Has(y, ToolOpen) THEN y
                            ELSE IF calls # <<>> THEN Before(y, ToolOpen)
                            ELSE Before(y, ToolOpen) \o Strip(ToolPart(y).buf)
<1> DEFINE y == Shown(x, strip)
<1>1. y \in Piece
  BY LStripType DEF Shown
<1>2. /\ s.phase = "content"
      /\ ~Has(y, ToolOpen) =>
           /\ s.mode = "content" /\ s.carry = HeldPart(y, ToolOpen)
           /\ s.out.content = SentPart(y, ToolOpen) /\ s.out.calls = <<>>
      /\ Has(y, ToolOpen) =>
           /\ s.mode = "tools" /\ s.buf = ToolPart(y).buf
           /\ s.out.content = Before(y, ToolOpen) /\ s.out.calls = ToolPart(y).calls
  BY DEF ContentSeen
<1> HIDE DEF y
<1>3. y = SentPart(y, ToolOpen) \o HeldPart(y, ToolOpen)
  BY <1>1, HeldIs, TagsAre
<1>4. CASE ~Has(y, ToolOpen)
  BY <1>2, <1>3, <1>4 DEF Told, y
<1>5. CASE Has(y, ToolOpen)
  BY <1>2, <1>5 DEF Told, y
<1> QED
  BY <1>4, <1>5

LEMMA AnswerIs ==
  ASSUME NEW s \in SseLocals, NEW x \in Piece, NEW length \in BOOLEAN, NEW think \in BOOLEAN,
         Consumed(s, x, think)
  PROVE  Flushed(s, length).out = AnswerTo(x, think, length)
<1> DEFINE y == ContentOf(x, think)
           o == Told(s, length)
           a == AnswerTo(x, think, length)
<1>1. Flushed(s, length).out = o
  BY FlushedIs
<1>2. o = [reasoning |-> o.reasoning, content |-> o.content, calls |-> o.calls, finish |-> o.finish]
  BY DEF Told
<1>3. a = [reasoning |-> a.reasoning, content |-> a.content, calls |-> a.calls, finish |-> a.finish]
  BY DEF AnswerTo
<1>4. CASE ~think
  <2>1. Shown(x, FALSE) = y /\ ContentSeen(s, x, FALSE) /\ s.out.reasoning = <<>>
    BY <1>4 DEF Shown, ContentOf, Consumed
  <2>2. /\ o.reasoning = a.reasoning /\ o.content = a.content /\ o.calls = a.calls /\ o.finish = a.finish
    <3> HIDE DEF o
    <3>1. LET calls == IF Has(Shown(x, FALSE), ToolOpen) THEN ToolPart(Shown(x, FALSE)).calls ELSE <<>>
          IN  /\ o.reasoning = s.out.reasoning /\ o.calls = calls /\ o.finish = FinishReason(length, calls)
              /\ o.content = IF ~Has(Shown(x, FALSE), ToolOpen) THEN Shown(x, FALSE)
                             ELSE IF calls # <<>> THEN Before(Shown(x, FALSE), ToolOpen)
                             ELSE Before(Shown(x, FALSE), ToolOpen) \o Strip(ToolPart(Shown(x, FALSE)).buf)
      BY <2>1, ContentTold DEF o
    <3> QED
      BY <1>4, <2>1, <3>1 DEF AnswerTo
  <2> HIDE DEF o, a
  <2> QED
    BY <1>1, <1>2, <1>3, <2>2 DEF a
<1>5. CASE think /\ Has(x, ThinkClose)
  <2> DEFINE z == After(x, ThinkClose)
  <2>1. Shown(z, TRUE) = y /\ ContentSeen(s, z, TRUE) /\ s.out.reasoning = Before(x, ThinkClose)
    BY <1>5 DEF Shown, ContentOf, Consumed
  <2>2. z \in Piece
    BY <1>5, FirstIs, TagsAre
  <2>3. /\ o.reasoning = a.reasoning /\ o.content = a.content /\ o.calls = a.calls /\ o.finish = a.finish
    <3> HIDE DEF o, z
    <3>1. LET calls == IF Has(Shown(z, TRUE), ToolOpen) THEN ToolPart(Shown(z, TRUE)).calls ELSE <<>>
          IN  /\ o.reasoning = s.out.reasoning /\ o.calls = calls /\ o.finish = FinishReason(length, calls)
              /\ o.content = IF ~Has(Shown(z, TRUE), ToolOpen) THEN Shown(z, TRUE)
                             ELSE IF calls # <<>> THEN Before(Shown(z, TRUE), ToolOpen)
                             ELSE Before(Shown(z, TRUE), ToolOpen) \o Strip(ToolPart(Shown(z, TRUE)).buf)
      BY <2>1, <2>2, ContentTold DEF o
    <3> QED
      BY <1>5, <2>1, <3>1 DEF AnswerTo
  <2> HIDE DEF o, a
  <2> QED
    BY <1>1, <1>2, <1>3, <2>3 DEF a
<1>6. CASE think /\ ~Has(x, ThinkClose)
  <2>1. y = <<>> /\ ~Has(y, ToolOpen)
    BY <1>6, NothingFound, TagsAre DEF ContentOf
  <2>2. ThinkSeen(s, x)
    BY <1>6 DEF Consumed
  <2>3. x = SentPart(x, ThinkClose) \o HeldPart(x, ThinkClose)
    BY HeldIs, TagsAre
  <2>4. /\ o.reasoning = x /\ o.content = <<>> /\ o.calls = <<>> /\ o.finish = FinishReason(length, <<>>)
    BY <2>2, <2>3 DEF ThinkSeen, Told
  <2>5. /\ a.reasoning = x /\ a.content = <<>> /\ a.calls = <<>> /\ a.finish = FinishReason(length, <<>>)
    BY <1>6, <2>1 DEF AnswerTo
  <2> HIDE DEF o, a
  <2> QED
    BY <1>1, <1>2, <1>3, <2>4, <2>5 DEF a
<1> QED
  BY <1>4, <1>5, <1>6


--------------------------------------------------------------------------------
(* The invariant of the stream                                             *)

LEMMA FreshIs ==
  ASSUME thinking \in BOOLEAN
  PROVE  Fresh \in SseLocals /\ Consumed(Fresh, <<>>, thinking)
<1>1. Nothing \in Output /\ /\ Nothing.reasoning = <<>> /\ Nothing.content = <<>>
                            /\ Nothing.calls = <<>> /\ Nothing.finish = "none"
  BY EmptyIs DEF Nothing, Output
<1>2. /\ Fresh \in SseLocals /\ Fresh.mode = "content" /\ Fresh.carry = <<>> /\ Fresh.buf = <<>>
      /\ Fresh.thinkSeen = FALSE /\ Fresh.stripLead = thinking /\ Fresh.out = Nothing
      /\ Fresh.phase = IF thinking THEN "think" ELSE "content"
  BY <1>1, EmptyIs DEF Fresh, SseLocals
<1> DEFINE s == Fresh
<1> HIDE DEF s
<1>3. /\ s \in SseLocals /\ s.mode = "content" /\ s.carry = <<>> /\ s.buf = <<>>
      /\ s.thinkSeen = FALSE /\ s.stripLead = thinking
      /\ s.phase = IF thinking THEN "think" ELSE "content"
      /\ s.out.reasoning = <<>> /\ s.out.content = <<>> /\ s.out.calls = <<>> /\ s.out.finish = "none"
  BY <1>1, <1>2 DEF s
<1>4. CASE thinking
  <2>1. /\ ~Has(<<>>, ThinkClose) /\ SentPart(<<>>, ThinkClose) = <<>>
        /\ HeldPart(<<>>, ThinkClose) = <<>>
    BY NothingFound, TagsAre
  <2>2. ThinkSeen(s, <<>>)
    BY <1>3, <1>4, <2>1 DEF ThinkSeen
  <2> QED
    BY <1>3, <1>4, <2>1, <2>2 DEF Consumed, s
<1>5. CASE ~thinking
  <2>1. ContentSeen(s, <<>>, FALSE)
    BY <1>3, <1>5, NothingShown
  <2> QED
    BY <1>3, <1>5, <2>1 DEF Consumed, s
<1> QED
  BY <1>4, <1>5

LEMMA PieceTaken ==
  ASSUME NEW s \in Piece, NEW m \in 0..Len(s), NEW n \in m..Len(s)
  PROVE  /\ SubSeq(s, 1, m) \in Piece /\ SubSeq(s, m + 1, n) \in Piece /\ SubSeq(s, 1, n) \in Piece
         /\ SubSeq(s, 1, m) \o SubSeq(s, m + 1, n) = SubSeq(s, 1, n)
<1>1. Len(s) \in Nat
  BY DEF Piece
<1>2. /\ 1 \in 1..(Len(s) + 1) /\ m \in 0..Len(s) /\ n \in 0..Len(s) /\ m + 1 \in 1..(Len(s) + 1)
      /\ 1 <= m + 1 /\ 1 <= n + 1 /\ m + 1 <= n + 1
      /\ 1 \in 1..Len(s) + 1 /\ m \in (1 - 1)..Len(s) /\ n \in m..Len(s)
  BY <1>1
<1>3. SubSeq(s, 1, m) \in Piece /\ SubSeq(s, m + 1, n) \in Piece /\ SubSeq(s, 1, n) \in Piece
  BY <1>2, SubIs
<1>4. SubSeq(s, 1, m) \o SubSeq(s, m + 1, n) = SubSeq(s, 1, n)
  BY <1>2, ConcatAdjacentSubSeq DEF Piece
<1> QED
  BY <1>3, <1>4

(* No thinking block with an opening tag of its own: the beginning of the  *)
(* text has none if the text has none.                                     *)
NoOwnTag == thinking => Unopened(text)

LEMMA BeginningUnopened ==
  ASSUME NEW s \in Piece, NEW n \in 0..Len(s), Unopened(s)
  PROVE  Unopened(SubSeq(s, 1, n))
<1> DEFINE a == SubSeq(s, 1, n)
           b == SubSeq(s, n + 1, Len(s))
<1>1. a \in Piece /\ b \in Piece /\ s = a \o b
  BY TextSplits
<1> HIDE DEF a, b
<1>2. IsPrefix(ThinkOpen, LStrip(a)) => IsPrefix(ThinkOpen, LStrip(s))
  BY <1>1, PrefixStays, TagsAre
<1> QED
  BY <1>2 DEF Unopened, a

(* What the stream is like while the job runs, and what it has said when   *)
(* the job is over.                                                        *)
ExlInv ==
  /\ ExlTypeOK
  /\ job = "running" /\ NoOwnTag => Consumed(st, SubSeq(text, 1, fed), thinking)
  /\ job = "finished" /\ NoOwnTag => \E length \in BOOLEAN : st.out = AnswerTo(text, thinking, length)

LEMMA ExlInvInitially == ExlInit => ExlInv
<1> SUFFICES ASSUME ExlInit PROVE ExlInv
  OBVIOUS
<1>1. thinking \in BOOLEAN /\ text \in Piece /\ fed = 0 /\ st = Fresh /\ job = "running"
  BY ExlAssumption DEF ExlInit
<1>2. Fresh \in SseLocals /\ Consumed(Fresh, <<>>, thinking)
  BY <1>1, FreshIs
<1>3. Len(text) \in Nat /\ 0 \in 0..Len(text)
  BY <1>1 DEF Piece
<1>4. SubSeq(text, 1, fed) = <<>>
  BY <1>1, SubSeqEmpty
<1> QED
  BY <1>1, <1>2, <1>3, <1>4 DEF ExlInv, ExlTypeOK

LEMMA ExlInvKept == ExlInv /\ [ExlNext]_exlVars => ExlInv'
<1> SUFFICES ASSUME ExlInv, [ExlNext]_exlVars PROVE ExlInv'
  OBVIOUS
<1>1. /\ thinking \in BOOLEAN /\ text \in Piece /\ fed \in 0..Len(text) /\ st \in SseLocals
      /\ job \in {"running", "finished", "cancelled"} /\ Len(text) \in Nat
  BY DEF ExlInv, ExlTypeOK, Piece
<1>2. CASE Generates
  <2>1. PICK n \in 1..MaxPiece : /\ fed + n <= Len(text) /\ fed' = fed + n
                                 /\ st' = Feed(st, SubSeq(text, fed + 1, fed + n))
    BY <1>2 DEF Generates
  <2>2. job = "running" /\ UNCHANGED <<thinking, text, job>>
    BY <1>2 DEF Generates
  <2>3. fed + n \in fed..Len(text) /\ fed + n \in 0..Len(text)
    BY <1>1, <2>1, ExlAssumption
  <2> DEFINE x == SubSeq(text, 1, fed)
             t == SubSeq(text, fed + 1, fed + n)
  <2>4. x \in Piece /\ t \in Piece /\ x \o t = SubSeq(text, 1, fed + n)
    BY <1>1, <2>3, PieceTaken
  <2> HIDE DEF x, t
  <2>5. st' \in SseLocals
    BY <1>1, <2>1, <2>4, FeedType DEF t
  <2>6. ExlTypeOK'
    BY <1>1, <2>1, <2>2, <2>3, <2>5 DEF ExlTypeOK
  <2>7. ASSUME NoOwnTag PROVE Consumed(st', SubSeq(text, 1, fed + n), thinking)
    <3>1. Consumed(st, x, thinking)
      BY <2>2, <2>7 DEF ExlInv, x
    <3>2. thinking => Unopened(x \o t)
      BY <1>1, <2>3, <2>4, <2>7, BeginningUnopened DEF NoOwnTag
    <3>3. Consumed(Feed(st, t), x \o t, thinking)
      BY <1>1, <2>4, <3>1, <3>2, FeedStep
    <3> QED
      BY <2>1, <2>4, <3>3 DEF t
  <2>8. NoOwnTag' <=> NoOwnTag
    BY <2>2 DEF NoOwnTag
  <2>9. Consumed(st', SubSeq(text, 1, fed + n), thinking) => Consumed(st, SubSeq(text, 1, fed), thinking)'
    BY <2>1, <2>2
  <2> QED
    BY <2>2, <2>6, <2>7, <2>8, <2>9 DEF ExlInv
<1>3. CASE Finishes
  <2>1. PICK length \in BOOLEAN : st' = Flushed(st, length)
    BY <1>3 DEF Finishes
  <2>2. /\ job = "running" /\ fed = Len(text) /\ job' = "finished" /\ UNCHANGED <<thinking, text, fed>>
    BY <1>3 DEF Finishes
  <2>3. st' \in SseLocals
    BY <1>1, <2>1, FlushedIs
  <2>4. ExlTypeOK'
    BY <1>1, <2>2, <2>3 DEF ExlTypeOK
  <2>5. ASSUME NoOwnTag PROVE st'.out = AnswerTo(text, thinking, length)
    <3>1. SubSeq(text, 1, fed) = text
      BY <1>1, <2>2, SubSeqFull DEF Piece
    <3>2. Consumed(st, text, thinking)
      BY <2>2, <2>5, <3>1 DEF ExlInv
    <3>3. Flushed(st, length).out = AnswerTo(text, thinking, length)
      BY <1>1, <3>2, AnswerIs
    <3> QED
      BY <2>1, <3>3
  <2>7. NoOwnTag' <=> NoOwnTag
    BY <2>2 DEF NoOwnTag
  <2>8. NoOwnTag => (\E l \in BOOLEAN : st.out = AnswerTo(text, thinking, l))'
    BY <2>2, <2>5
  <2> QED
    BY <2>2, <2>4, <2>7, <2>8 DEF ExlInv
<1>4. CASE Raises
  <2>1. /\ st' = [st EXCEPT !.out.finish = "error"] /\ job' = "cancelled" /\ UNCHANGED <<thinking, text, fed>>
    BY <1>4 DEF Raises
  <2>2. st.out \in Output
    BY <1>1 DEF SseLocals
  <2>3. [st.out EXCEPT !.finish = "error"] \in Output
    BY <2>2 DEF Output
  <2>4. st' = [st EXCEPT !.out = [st.out EXCEPT !.finish = "error"]]
    BY <2>1
  <2>5. st' \in SseLocals
    BY <1>1, <2>3, <2>4 DEF SseLocals
  <2> QED
    BY <1>1, <2>1, <2>5 DEF ExlInv, ExlTypeOK
<1>5. CASE UNCHANGED exlVars
  BY <1>5 DEF exlVars, ExlInv, ExlTypeOK, NoOwnTag
<1> QED
  BY <1>2, <1>3, <1>4, <1>5 DEF ExlNext

LEMMA ExlInvAlways == ExlSpec => []ExlInv
  BY ExlInvInitially, ExlInvKept, PTL DEF ExlSpec

(* Every local of sse keeps its kind, whatever text arrives in whatever    *)
(* pieces, and whenever the generator raises.                              *)
THEOREM ExlTypeCorrect == ExlSpec => []ExlTypeOK
<1>1. ExlInv => ExlTypeOK
  BY DEF ExlInv
<1> QED
  BY <1>1, ExlInvAlways, PTL

(* For texts of any length over the symbols and pieces of any size: what   *)
(* a client has at the end of the stream is what it would have, had the    *)
(* text come in one piece.                                                 *)
THEOREM ChunkingIsInvisibleAlways == ExlSpec => []ChunkingIsInvisible
<1>1. ExlInv => ChunkingIsInvisible
  <2> SUFFICES ASSUME ExlInv, job = "finished", NoOwnTag
               PROVE  st.out = Flushed(Feed(Fresh, text), st.out.finish = "length").out
    BY DEF ChunkingIsInvisible, NoOwnTag, Unopened
  <2>1. thinking \in BOOLEAN /\ text \in Piece
    BY DEF ExlInv, ExlTypeOK
  <2>2. PICK length \in BOOLEAN : st.out = AnswerTo(text, thinking, length)
    BY DEF ExlInv
  <2>3. (st.out.finish = "length") = length
    BY <2>2 DEF AnswerTo, FinishReason
  <2>4. Fresh \in SseLocals /\ Consumed(Fresh, <<>>, thinking) /\ <<>> \in Piece /\ <<>> \o text = text
    BY <2>1, FreshIs, EmptyIs
  <2>5. Feed(Fresh, text) \in SseLocals
    BY <2>1, <2>4, FeedType
  <2>6. Consumed(Feed(Fresh, text), text, thinking)
    <3>1. thinking => Unopened(<<>> \o text)
      BY <2>4 DEF NoOwnTag
    <3>2. Consumed(Feed(Fresh, text), <<>> \o text, thinking)
      BY <2>1, <2>4, <3>1, FeedStep
    <3> QED
      BY <2>4, <3>2
  <2>7. Flushed(Feed(Fresh, text), length).out = AnswerTo(text, thinking, length)
    BY <2>1, <2>5, <2>6, AnswerIs
  <2> QED
    BY <2>2, <2>3, <2>7
<1> QED
  BY <1>1, ExlInvAlways, PTL


--------------------------------------------------------------------------------
(* Line ends around a text                                                 *)

Blank(s) == \A i \in 1..Len(s) : s[i] = "nl"

LEMMA InkedIs ==
  ASSUME NEW s \in Piece
  PROVE  /\ Len(s) \in Nat /\ Inked(s) = {i \in 1..Len(s) : s[i] # "nl"}
         /\ Inked(s) = {} <=> Blank(s)
         /\ Inked(s) # {} => /\ Max(Inked(s)) \in Inked(s) /\ Max(Inked(s)) \in 1..Len(s)
                             /\ \A i \in Inked(s) : Max(Inked(s)) >= i
<1>1. Len(s) \in Nat /\ DOMAIN s = 1..Len(s)
  BY DEF Piece
<1>2. Inked(s) = {i \in 1..Len(s) : s[i] # "nl"}
  BY <1>1 DEF Inked
<1>3. Inked(s) \in SUBSET Nat /\ \A i \in Inked(s) : i <= Len(s)
  BY <1>1, <1>2
<1>4. Inked(s) # {} => Max(Inked(s)) \in Inked(s) /\ \A i \in Inked(s) : Max(Inked(s)) >= i
  BY <1>1, <1>3, MaxIsLargest
<1> QED
  BY <1>1, <1>2, <1>4 DEF Blank

LEMMA RStripSplits ==
  ASSUME NEW s \in Piece
  PROVE  \E b \in Piece : Blank(b) /\ RStrip(s) \in Piece /\ s = RStrip(s) \o b
<1>1. CASE Inked(s) = {}
  <2>1. RStrip(s) = <<>> /\ Blank(s)
    BY <1>1, InkedIs DEF RStrip
  <2> QED
    BY <2>1, EmptyIs
<1>2. CASE Inked(s) # {}
  <2> DEFINE m == Max(Inked(s))
             b == SubSeq(s, m + 1, Len(s))
  <2>1. /\ Len(s) \in Nat /\ m \in 1..Len(s) /\ m \in 0..Len(s)
        /\ \A i \in 1..Len(s) : i > m => s[i] = "nl"
    <3>1. /\ Len(s) \in Nat /\ Inked(s) = {i \in 1..Len(s) : s[i] # "nl"}
          /\ m \in 1..Len(s) /\ \A i \in Inked(s) : m >= i
      BY <1>2, InkedIs
    <3> HIDE DEF m
    <3> QED
      BY <3>1
  <2>2. RStrip(s) = SubSeq(s, 1, m)
    BY <1>2 DEF RStrip
  <2> HIDE DEF m
  <2>3. SubSeq(s, 1, m) \in Piece /\ b \in Piece /\ Len(b) = Len(s) - m /\ s = SubSeq(s, 1, m) \o b
    BY <2>1, TextSplits
  <2>4. Blank(b)
    <3>1. ASSUME NEW i \in 1..Len(b) PROVE b[i] = "nl"
      <4>1. m + 1 \in 1..(Len(s) + 1) /\ Len(s) \in 0..Len(s) /\ m + 1 <= Len(s) + 1
            /\ Len(s) + 1 - (m + 1) = Len(s) - m
        BY <2>1
      <4>2. i \in 1..(Len(s) + 1 - (m + 1)) /\ m + 1 + i - 1 \in 1..Len(s) /\ m + 1 + i - 1 > m
        BY <2>1, <2>3, <4>1
      <4>3. b[i] = s[m + 1 + i - 1]
        BY <4>1, <4>2, SubIs
      <4> QED
        BY <2>1, <4>2, <4>3
    <3> QED
      BY <3>1 DEF Blank
  <2> QED
    BY <2>2, <2>3, <2>4
<1> QED
  BY <1>1, <1>2

LEMMA RStripPadded ==
  ASSUME NEW s \in Piece, NEW b \in Piece, Blank(b)
  PROVE  RStrip(s \o b) = RStrip(s)
<1> DEFINE u == s \o b
<1>1. /\ u \in Piece /\ Len(u) = Len(s) + Len(b) /\ Len(s) \in Nat /\ Len(b) \in Nat
      /\ \A i \in 1..Len(s) : u[i] = s[i]
      /\ \A i \in 1..Len(b) : u[Len(s) + i] = b[i]
  BY CatIs
<1> HIDE DEF u
<1>2. ASSUME NEW i \in 1..Len(u), i \notin 1..Len(s) PROVE u[i] = "nl"
  <2>1. i - Len(s) \in 1..Len(b) /\ Len(s) + (i - Len(s)) = i
    BY <1>1, <1>2
  <2>2. u[Len(s) + (i - Len(s))] = b[i - Len(s)]
    BY <1>1, <2>1
  <2> QED
    BY <2>1, <2>2 DEF Blank
<1>3. \A i \in 1..Len(s) : i \in 1..Len(u)
  BY <1>1
<1>4. Inked(u) = Inked(s)
  <2>1. Inked(u) = {i \in 1..Len(u) : u[i] # "nl"} /\ Inked(s) = {i \in 1..Len(s) : s[i] # "nl"}
    BY <1>1, InkedIs
  <2> QED
    BY <1>1, <1>2, <1>3, <2>1
<1>5. CASE Inked(s) = {}
  BY <1>4, <1>5 DEF RStrip, u
<1>6. CASE Inked(s) # {}
  <2> DEFINE m == Max(Inked(s))
  <2>1. m \in 1..Len(s)
    BY <1>6, InkedIs
  <2>2. RStrip(u) = SubSeq(u, 1, m) /\ RStrip(s) = SubSeq(s, 1, m)
    BY <1>4, <1>6 DEF RStrip
  <2> HIDE DEF m
  <2>3. SubSeq(s \o b, 1, m) = SubSeq(s, 1, m)
    <3>1. s \in Seq(Symbol) /\ b \in Seq(Symbol) /\ 1 \in 1..Len(s) /\ m \in 1..Len(s)
      BY <1>1, <2>1 DEF Piece
    <3> QED
      BY <3>1, SubSeqOfConcat1
  <2> QED
    BY <2>2, <2>3 DEF u
<1> QED
  BY <1>5, <1>6

LEMMA BlankStripped ==
  ASSUME NEW s \in Piece
  PROVE  (Blank(s) <=> LStrip(s) = <<>>) /\ (Blank(s) <=> Strip(s) = <<>>)
<1>1. ASSUME Blank(s) PROVE LStrip(s) = <<>> /\ Strip(s) = <<>>
  <2>1. LStrip(s) = <<>>
    BY <1>1, InkedIs DEF LStrip
  <2>2. Inked(<<>>) = {}
    BY DEF Inked
  <2> QED
    BY <2>1, <2>2 DEF Strip, RStrip
<1>2. ASSUME LStrip(s) = <<>> PROVE Blank(s)
  <2>1. PICK k \in 0..Len(s) : Leading(s, k)
    BY LStripIs
  <2>2. LStrip(s) = SubSeq(s, k + 1, Len(s))
    BY <2>1, LStripIs
  <2>3. Len(SubSeq(s, k + 1, Len(s))) = Len(s) - k
    BY TextSplits
  <2>4. Len(s) \in Nat /\ Len(s) - k = 0
    BY <1>2, <2>2, <2>3, EmptyIs, CatIs
  <2>5. k = Len(s)
    BY <2>4
  <2> QED
    BY <2>1, <2>5 DEF Blank, Leading
<1>3. ASSUME Strip(s) = <<>>, LStrip(s) # <<>> PROVE FALSE
  <2> DEFINE t == LStrip(s)
  <2>1. t \in Piece /\ t[1] # "nl"
    BY <1>3, LStripType
  <2>2. RStrip(t) = <<>> /\ t # <<>>
    BY <1>3 DEF Strip
  <2> HIDE DEF t
  <2>3. PICK b \in Piece : Blank(b) /\ t = RStrip(t) \o b
    BY <2>1, RStripSplits
  <2>4. t = b
    BY <2>2, <2>3, EmptyIs
  <2>5. Len(t) \in Nat /\ Len(t) # 0
    BY <2>1, <2>2, EmptyIs, CatIs
  <2>6. 1 \in 1..Len(t)
    BY <2>5
  <2> QED
    BY <2>1, <2>3, <2>4, <2>6 DEF Blank
<1> QED
  BY <1>1, <1>2, <1>3

LEMMA StripPadded ==
  ASSUME NEW s \in Piece, NEW b \in Piece, Blank(b)
  PROVE  Strip(s \o b) = Strip(s)
<1>1. LStrip(s \o b) = IF LStrip(s) = <<>> THEN LStrip(b) ELSE LStrip(s) \o b
  BY LStripOfJoined
<1>2. LStrip(b) = <<>> /\ LStrip(s) \in Piece
  BY BlankStripped, LStripType
<1>3. RStrip(LStrip(s) \o b) = RStrip(LStrip(s))
  BY <1>2, RStripPadded
<1> QED
  BY <1>1, <1>2, <1>3 DEF Strip

LEMMA StripTwice ==
  ASSUME NEW s \in Piece
  PROVE  Strip(Strip(s)) = Strip(s)
<1> DEFINE t == LStrip(s)
<1>1. t \in Piece /\ LStrip(t) = t /\ RStrip(t) = Strip(s)
  BY LStripType, LStripTwice DEF Strip
<1> HIDE DEF t
<1>2. PICK b \in Piece : Blank(b) /\ RStrip(t) \in Piece /\ t = RStrip(t) \o b
  BY <1>1, RStripSplits
<1>3. Strip(RStrip(t) \o b) = Strip(RStrip(t))
  BY <1>2, StripPadded
<1>4. Strip(t) = RStrip(t)
  BY <1>1 DEF Strip
<1>5. Strip(t) = Strip(RStrip(t))
  BY <1>2, <1>3
<1> QED
  BY <1>1, <1>4, <1>5

LEMMA BlankJoined ==
  ASSUME NEW a \in Piece, NEW b \in Piece, Blank(a), Blank(b)
  PROVE  Blank(a \o b) /\ a \o b \in Piece
<1>1. a \o b \in Piece
  BY CatIs
<1>2. Strip(a \o b) = Strip(a) /\ Strip(a) = <<>>
  BY StripPadded, BlankStripped
<1> QED
  BY <1>1, <1>2, BlankStripped


--------------------------------------------------------------------------------
(* The blocks of the whole text                                            *)

BlockStates == [rest : Piece, outside : Piece, calls : Seq(Piece)]
Start(s) == [rest |-> s, outside |-> <<>>, calls |-> <<>>]

LEMMA CallIs ==
  ASSUME NEW s \in Piece, HasCall(s)
  PROVE  /\ Has(s, ToolOpen) /\ Has(After(s, ToolOpen), ToolClose)
         /\ Before(s, ToolOpen) \in Piece /\ After(s, ToolOpen) \in Piece /\ CallBlock(s) \in Piece
         /\ PastCall(s) \in Piece /\ Strip(CallBlock(s)) \in Piece /\ Len(PastCall(s)) < Len(s)
         /\ Len(PastCall(s)) \in Nat /\ Len(s) \in Nat
<1> DEFINE a == After(s, ToolOpen)
<1>1. Has(s, ToolOpen) /\ Has(a, ToolClose)
  BY DEF HasCall
<1>2. /\ a \in Piece /\ Before(s, ToolOpen) \in Piece /\ Len(a) = Len(s) - First(s, ToolOpen) - 1
      /\ First(s, ToolOpen) \in 1..(Len(s) - 1) /\ Len(s) \in Nat
  BY <1>1, FirstIs, TagsAre
<1> HIDE DEF a
<1>3. /\ Before(a, ToolClose) \in Piece /\ After(a, ToolClose) \in Piece
      /\ Len(After(a, ToolClose)) = Len(a) - First(a, ToolClose) - 1
      /\ First(a, ToolClose) \in 1..(Len(a) - 1) /\ Len(a) \in Nat
  BY <1>1, <1>2, FirstIs, TagsAre
<1>4. Strip(Before(a, ToolClose)) \in Piece
  BY <1>3, StripType
<1>5. Len(After(a, ToolClose)) < Len(s) /\ Len(After(a, ToolClose)) \in Nat
  BY <1>2, <1>3
<1> QED
  BY <1>1, <1>2, <1>3, <1>4, <1>5 DEF CallBlock, PastCall, a

LEMMA NextBlockIs ==
  ASSUME NEW w \in BlockStates
  PROVE  /\ NextBlock(w) \in BlockStates
         /\ ~HasCall(w.rest) => NextBlock(w) = w
         /\ HasCall(w.rest) =>
              /\ NextBlock(w).rest = PastCall(w.rest)
              /\ NextBlock(w).outside = w.outside \o Before(w.rest, ToolOpen)
              /\ NextBlock(w).calls = IF Parses(Strip(CallBlock(w.rest)))
                                      THEN Append(w.calls, Strip(CallBlock(w.rest))) ELSE w.calls
<1>1. w.rest \in Piece /\ w.outside \in Piece /\ w.calls \in Seq(Piece)
  BY DEF BlockStates
<1>2. CASE ~HasCall(w.rest)
  BY <1>2 DEF NextBlock
<1>3. CASE HasCall(w.rest)
  <2> DEFINE calls == IF Parses(Strip(CallBlock(w.rest)))
                      THEN Append(w.calls, Strip(CallBlock(w.rest))) ELSE w.calls
             outside == w.outside \o Before(w.rest, ToolOpen)
  <2>1. NextBlock(w) = [rest |-> PastCall(w.rest), outside |-> outside, calls |-> calls]
    BY <1>3 DEF NextBlock
  <2>2. PastCall(w.rest) \in Piece /\ Before(w.rest, ToolOpen) \in Piece /\ Strip(CallBlock(w.rest)) \in Piece
    BY <1>1, <1>3, CallIs
  <2>3. outside \in Piece
    BY <1>1, <2>2, CatIs
  <2>4. calls \in Seq(Piece)
    BY <1>1, <2>2
  <2> HIDE DEF calls, outside
  <2>5. NextBlock(w) \in BlockStates /\ NextBlock(w).rest = PastCall(w.rest)
        /\ NextBlock(w).outside = outside /\ NextBlock(w).calls = calls
    BY <2>1, <2>2, <2>3, <2>4 DEF BlockStates
  <2> QED
    BY <1>3, <2>5 DEF calls, outside
<1> QED
  BY <1>2, <1>3

LEMMA BlocksAre ==
  ASSUME NEW t \in Piece
  PROVE  /\ Len(t) \in Nat
         /\ Blocks(t) \in [0..Len(t) -> BlockStates] /\ Blocks(t)[0] = Start(t)
         /\ \A i \in 1..Len(t) : Blocks(t)[i] = NextBlock(Blocks(t)[i - 1])
<1> DEFINE n == Len(t)
           F == [c \in BlockStates |-> NextBlock(c)]
           s == Blocks(t)
           b == Start(t)
<1>1. n \in Nat
  BY DEF Piece
<1>2. F \in [BlockStates -> BlockStates] /\ b \in BlockStates
  <2>1. F \in [BlockStates -> BlockStates]
    BY NextBlockIs
  <2>2. <<>> \in Piece /\ <<>> \in Seq(Piece)
    BY EmptyIs
  <2>3. b \in BlockStates
    BY <2>2 DEF Start, BlockStates
  <2> QED
    BY <2>1, <2>3
<1> HIDE DEF F, n
<1>3. PICK f \in [0..n -> BlockStates] : IsLoop(f, F, b, n)
  <2> HIDE DEF b
  <2> QED
    BY <1>1, <1>2, LoopExists
<1>4. ASSUME NEW i \in 1..n
      PROVE  f[i] = NextBlock(f[i - 1])
  <2>1. i - 1 \in 0..n
    BY <1>1
  <2>2. f[i - 1] \in BlockStates
    BY <2>1
  <2>3. F[f[i - 1]] = NextBlock(f[i - 1])
    BY <2>2 DEF F
  <2> HIDE DEF b
  <2> QED
    BY <1>3, <2>3 DEF IsLoop
<1>5. f = [i \in 0..n |-> IF i = 0 THEN b ELSE NextBlock(f[i - 1])]
  <2> HIDE DEF b
  <2>1. ASSUME NEW i \in 0..n
        PROVE  f[i] = IF i = 0 THEN b ELSE NextBlock(f[i - 1])
    <3>1. i = 0 \/ i \in 1..n
      BY <1>1
    <3> QED
      BY <3>1, <1>3, <1>4 DEF IsLoop
  <2> QED
    BY <2>1
<1>6. s = [i \in 0..n |-> IF i = 0 THEN b ELSE NextBlock(s[i - 1])]
  BY <1>5, Zenon DEF Blocks, Start, n
<1> HIDE DEF s, b
<1>7. \A i \in 0..n : s[i] = IF i = 0 THEN b ELSE NextBlock(s[i - 1])
  BY <1>6, Zenon
<1>8. s[0] = b /\ \A i \in 1..n : s[i] = NextBlock(s[i - 1])
  <2>1. 0 \in 0..n /\ \A i \in 1..n : i \in 0..n /\ i # 0
    BY <1>1
  <2> QED
    BY <1>7, <2>1
<1> DEFINE S == {i \in Nat : i <= n => s[i] \in BlockStates}
<1>9. 0 \in S
  BY <1>2, <1>8
<1>10. ASSUME NEW i \in Nat, i \in S
       PROVE  i + 1 \in S
  <2>1. ASSUME i + 1 <= n
        PROVE  s[i + 1] \in BlockStates
    <3>1. i + 1 \in 1..n /\ (i + 1) - 1 = i /\ i <= n
      BY <1>1, <2>1
    <3>2. s[i + 1] = NextBlock(s[i])
      BY <1>8, <3>1
    <3> QED
      BY <3>1, <3>2, <1>10, NextBlockIs
  <2> QED
    BY <2>1
<1>11. Nat \subseteq S
  <2> HIDE DEF S
  <2> QED
    BY <1>9, <1>10, NatSetInduction
<1>12. \A i \in 0..n : s[i] \in BlockStates
  BY <1>11
<1>13. s \in [0..n -> BlockStates]
  <2>1. DOMAIN s = 0..n /\ s = [i \in 0..n |-> s[i]]
    BY <1>6
  <2> QED
    BY <2>1, <1>12
<1> QED
  BY <1>1, <1>8, <1>13 DEF s, n, b

(* After the last block there is none, and where there is none nothing     *)
(* changes any more.                                                       *)
LEMMA BlocksEnd ==
  ASSUME NEW t \in Piece
  PROVE  /\ ~HasCall(Blocks(t)[Len(t)].rest)
         /\ ~HasCall(t) => Blocks(t)[Len(t)] = Start(t)
<1> DEFINE n == Len(t)
           f == Blocks(t)
<1>1. /\ n \in Nat /\ f \in [0..n -> BlockStates] /\ f[0] = Start(t)
      /\ \A i \in 1..n : f[i] = NextBlock(f[i - 1])
  BY BlocksAre
<1>2. n = Len(t) /\ Start(t).rest = t
  BY DEF Start
<1> HIDE DEF n, f
<1> DEFINE S == {i \in Nat : i <= n => /\ HasCall(f[i].rest) => Len(f[i].rest) + i <= n
                                       /\ ~HasCall(t) => f[i] = Start(t)}
<1>3. 0 \in S
  BY <1>1, <1>2
<1>4. ASSUME NEW i \in Nat, i \in S
      PROVE  i + 1 \in S
  <2>1. ASSUME i + 1 <= n
        PROVE  /\ HasCall(f[i + 1].rest) => Len(f[i + 1].rest) + (i + 1) <= n
               /\ ~HasCall(t) => f[i + 1] = Start(t)
    <3>1. i + 1 \in 1..n /\ (i + 1) - 1 = i /\ i <= n /\ i \in 0..n
      BY <1>1, <2>1
    <3>2. f[i + 1] = NextBlock(f[i]) /\ f[i] \in BlockStates
      BY <1>1, <3>1
    <3>3. CASE ~HasCall(f[i].rest)
      <4>1. f[i + 1] = f[i]
        BY <3>2, <3>3, NextBlockIs
      <4> QED
        BY <1>4, <3>1, <3>3, <4>1
    <3>4. CASE HasCall(f[i].rest)
      <4>1. Len(f[i].rest) + i <= n
        BY <1>4, <3>1, <3>4
      <4>2. f[i + 1].rest = PastCall(f[i].rest) /\ f[i].rest \in Piece
        BY <3>2, <3>4, NextBlockIs DEF BlockStates
      <4>3. /\ Len(f[i + 1].rest) < Len(f[i].rest)
            /\ Len(f[i + 1].rest) \in Nat /\ Len(f[i].rest) \in Nat
        BY <3>4, <4>2, CallIs
      <4>4. \A x, y \in Nat : x + i <= n /\ y < x => y + (i + 1) <= n
        BY <1>1
      <4>5. HasCall(t)
        BY <1>2, <1>4, <3>1, <3>4
      <4> QED
        BY <4>1, <4>3, <4>4, <4>5
    <3> QED
      BY <3>3, <3>4
  <2>2. i + 1 \in Nat
    OBVIOUS
  <2> QED
    BY <2>1, <2>2, Zenon
<1>5. Nat \subseteq S
  <2> HIDE DEF S
  <2> QED
    BY <1>3, <1>4, NatSetInduction
<1>6. /\ HasCall(f[n].rest) => Len(f[n].rest) + n <= n
      /\ ~HasCall(t) => f[n] = Start(t)
  BY <1>1, <1>5
<1>7. ~HasCall(f[n].rest)
  <2>1. SUFFICES ASSUME HasCall(f[n].rest) PROVE FALSE
    OBVIOUS
  <2>2. f[n].rest \in Piece
    BY <1>1 DEF BlockStates
  <2>3. Len(PastCall(f[n].rest)) < Len(f[n].rest) /\ Len(PastCall(f[n].rest)) \in Nat /\ Len(f[n].rest) \in Nat
    BY <2>1, <2>2, CallIs
  <2> QED
    BY <1>1, <1>6, <2>1, <2>3
<1> QED
  BY <1>6, <1>7 DEF f, n


--------------------------------------------------------------------------------
(* The stream and the whole text                                           *)

LEMMA SymbolsOfTags ==
  /\ ToolOpen[1] = "<t" /\ ToolOpen[2] = "ool>" /\ ToolClose[1] = "</" /\ ToolClose[2] = "tool>"
  /\ ThinkOpen[1] = "<t" /\ ThinkOpen[2] = "hink>"
  BY DEF ToolOpen, ToolClose, ThinkOpen

LEMMA BeforeIs ==
  ASSUME NEW s \in Piece, NEW tag \in Tag, Has(s, tag)
  PROVE  /\ Before(s, tag) \in Piece /\ Len(Before(s, tag)) = First(s, tag) - 1
         /\ \A i \in 1..(First(s, tag) - 1) : Before(s, tag)[i] = s[i]
<1> DEFINE f == First(s, tag)
<1>1. f \in 1..(Len(s) - 1) /\ Len(s) \in Nat
  BY FirstIs
<1> HIDE DEF f
<1>2. /\ 1 \in 1..(Len(s) + 1) /\ f - 1 \in 0..Len(s) /\ 1 <= (f - 1) + 1 /\ (f - 1) + 1 - 1 = f - 1
      /\ \A i \in 1..(f - 1) : 1 + i - 1 = i
  BY <1>1
<1>3. /\ SubSeq(s, 1, f - 1) \in Piece /\ Len(SubSeq(s, 1, f - 1)) = (f - 1) + 1 - 1
      /\ \A i \in 1..((f - 1) + 1 - 1) : SubSeq(s, 1, f - 1)[i] = s[1 + i - 1]
  BY <1>2, SubIs
<1> QED
  BY <1>2, <1>3 DEF Before, f

LEMMA FoundAt ==
  ASSUME NEW s \in Piece, NEW tag \in Tag, Has(s, tag)
  PROVE  /\ First(s, tag) \in 1..(Len(s) - 1) /\ Len(s) \in Nat
         /\ s[First(s, tag)] = tag[1] /\ s[First(s, tag) + 1] = tag[2]
<1>1. First(s, tag) \in At(s, tag) /\ Len(s) \in Nat
  BY FirstIs
<1>2. At(s, tag) = {i \in 1..(Len(s) - 1) : s[i] = tag[1] /\ s[i + 1] = tag[2]}
  BY AtIs
<1> QED
  BY <1>1, <1>2

(* A tag is no line end.                                                   *)
LEMMA BlankHasNothing ==
  ASSUME NEW s \in Piece, Blank(s)
  PROVE  ~Has(s, ToolOpen) /\ ~Has(s, ToolClose)
<1>1. ASSUME NEW tag \in Tag, tag[1] # "nl", Has(s, tag) PROVE FALSE
  <2>1. First(s, tag) \in 1..Len(s) /\ s[First(s, tag)] = tag[1]
    BY <1>1, FoundAt
  <2> QED
    BY <1>1, <2>1 DEF Blank
<1> QED
  BY <1>1, TagsAre, SymbolsOfTags

LEMMA OpensAfterBlank ==
  ASSUME NEW s \in Piece, Has(s, ToolOpen), Blank(Before(s, ToolOpen))
  PROVE  OpensFirst(s)
<1> DEFINE o == First(s, ToolOpen)
           c == First(s, ToolClose)
<1>1. SUFFICES ASSUME Has(s, ToolClose), ~(o < c) PROVE FALSE
  BY DEF OpensFirst
<1>2. o \in 1..(Len(s) - 1) /\ c \in 1..(Len(s) - 1) /\ s[o] = "<t" /\ s[c] = "</" /\ Len(s) \in Nat
  BY <1>1, FoundAt, TagsAre, SymbolsOfTags
<1>3. /\ Len(Before(s, ToolOpen)) = o - 1
      /\ \A i \in 1..(o - 1) : Before(s, ToolOpen)[i] = s[i]
  BY BeforeIs, TagsAre
<1> HIDE DEF o, c
<1>4. c # o
  BY <1>2
<1>5. c \in 1..(o - 1)
  BY <1>1, <1>2, <1>4
<1>6. s[c] = "nl"
  BY <1>3, <1>5 DEF Blank
<1> QED
  BY <1>2, <1>6

LEMMA FromOpens ==
  ASSUME NEW s \in Piece, Has(s, ToolOpen)
  PROVE  /\ From(s, ToolOpen) \in Piece /\ OpensFirst(From(s, ToolOpen))
         /\ After(From(s, ToolOpen), ToolOpen) = After(s, ToolOpen)
<1> DEFINE f == First(s, ToolOpen)
           p == SubSeq(s, 1, f - 1)
           u == From(s, ToolOpen)
<1>1. /\ f \in 1..(Len(s) - 1) /\ Len(s) \in Nat /\ s[f] = ToolOpen[1] /\ s[f + 1] = ToolOpen[2]
  BY FoundAt, TagsAre
<1>2. u = SubSeq(s, f, Len(s)) /\ After(s, ToolOpen) = SubSeq(s, f + 2, Len(s))
  BY DEF From, After
<1> HIDE DEF f, u
<1>3. p \in Piece /\ Len(p) = f - 1 /\ u \in Piece /\ Len(u) = Len(s) - (f - 1) /\ s = p \o u
  <2>1. f - 1 \in 0..Len(s) /\ (f - 1) + 1 = f
    BY <1>1
  <2>2. /\ p \in Piece /\ Len(p) = f - 1 /\ SubSeq(s, (f - 1) + 1, Len(s)) \in Piece
        /\ Len(SubSeq(s, (f - 1) + 1, Len(s))) = Len(s) - (f - 1)
        /\ s = p \o SubSeq(s, (f - 1) + 1, Len(s))
    BY <2>1, TextSplits
  <2> QED
    BY <1>2, <2>1, <2>2
<1> HIDE DEF p
<1>4. \A i \in 1..Len(u) : s[Len(p) + i] = u[i]
  BY <1>3, CatIs
<1>5. u[1] = ToolOpen[1] /\ u[2] = ToolOpen[2] /\ 1 \in 1..(Len(u) - 1) /\ 3 \in 1..(Len(u) + 1) /\ Len(u) \in Nat
  <2>1. 1 \in 1..Len(u) /\ 2 \in 1..Len(u) /\ Len(p) + 1 = f /\ Len(p) + 2 = f + 1
    BY <1>1, <1>3
  <2>2. s[Len(p) + 1] = u[1] /\ s[Len(p) + 2] = u[2]
    BY <1>4, <2>1
  <2>3. 1 \in 1..(Len(u) - 1) /\ 3 \in 1..(Len(u) + 1) /\ Len(u) \in Nat
    BY <1>1, <1>3
  <2> QED
    BY <1>1, <2>1, <2>2, <2>3
<1>6. 1 \in At(u, ToolOpen) /\ \A i \in At(u, ToolOpen) : 1 <= i
  <2>1. At(u, ToolOpen) = {i \in 1..(Len(u) - 1) : u[i] = ToolOpen[1] /\ u[i + 1] = ToolOpen[2]}
    BY <1>3, AtIs, TagsAre
  <2>2. 1 + 1 = 2
    OBVIOUS
  <2> QED
    BY <1>5, <2>1, <2>2
<1>7. Has(u, ToolOpen) /\ First(u, ToolOpen) = 1
  BY <1>3, <1>6, FirstIsAt, TagsAre
<1>8. OpensFirst(u)
  <2>1. Len(Before(u, ToolOpen)) = 1 - 1
    BY <1>3, <1>7, BeforeIs, TagsAre
  <2>2. Blank(Before(u, ToolOpen))
    BY <2>1 DEF Blank
  <2> QED
    BY <1>3, <1>7, <2>2, OpensAfterBlank
<1>9. After(u, ToolOpen) = After(s, ToolOpen)
  <2>1. After(u, ToolOpen) = SubSeq(u, 3, Len(u))
    <3>1. 1 + 2 = 3
      OBVIOUS
    <3> QED
      BY <1>7, <3>1 DEF After
  <2>2. SubSeq(p \o u, Len(p) + 3, Len(p \o u)) = SubSeq(u, 3, Len(u))
    BY <1>3, <1>5, JoinedBack
  <2>3. Len(p) + 3 = f + 2
    BY <1>1, <1>3
  <2>4. SubSeq(s, f + 2, Len(s)) = SubSeq(u, 3, Len(u))
    BY <1>3, <2>2, <2>3
  <2> QED
    BY <1>2, <2>1, <2>4
<1> QED
  BY <1>3, <1>8, <1>9 DEF u

(* An opening tag that comes first is skipped.                             *)
LEMMA OpeningSkipped ==
  ASSUME NEW s \in Piece, NEW c \in Seq(Piece), OpensFirst(s)
  PROVE  Drained(s, c) = Drained(After(s, ToolOpen), c)
<1> DEFINE b == [buf |-> s, calls |-> c]
<1>1. b \in Buffers
  BY BufferIs
<1>2. Round(b) = [buf |-> After(s, ToolOpen), calls |-> c]
  <2>1. Round(b) = [b EXCEPT !.buf = After(@, ToolOpen)]
    BY DEF Round, OpensFirst
  <2> QED
    BY <2>1
<1>3. Final(b) = Final(Round(b))
  BY <1>1, FinalOfRound
<1> QED
  BY <1>2, <1>3 DEF Drained

(* Two rounds read a block that is closed and opened once: it is a call.   *)
LEMMA BlockIsRead ==
  ASSUME NEW s \in Piece, NEW c \in Seq(Piece), HasCall(s),
         ~Has(CallBlock(s), ToolOpen), Parses(Strip(CallBlock(s)))
  PROVE  Drained(After(s, ToolOpen), c) = Drained(PastCall(s), Append(c, Strip(CallBlock(s))))
<1> DEFINE a == After(s, ToolOpen)
           o == First(a, ToolOpen)
           k == First(a, ToolClose)
           b == [buf |-> a, calls |-> c]
<1>1. a \in Piece /\ Has(a, ToolClose) /\ Strip(CallBlock(s)) \in Piece /\ PastCall(s) \in Piece
  BY CallIs
<1>2. CallBlock(s) = Before(a, ToolClose) /\ PastCall(s) = After(a, ToolClose)
  BY DEF CallBlock, PastCall
<1> HIDE DEF a
<1>3. ~OpensFirst(a)
  <2>1. SUFFICES ASSUME Has(a, ToolOpen), o < k PROVE FALSE
    BY <1>1 DEF OpensFirst
  <2>2. /\ o \in 1..(Len(a) - 1) /\ k \in 1..(Len(a) - 1) /\ Len(a) \in Nat
        /\ a[o] = ToolOpen[1] /\ a[o + 1] = ToolOpen[2] /\ a[k] = ToolClose[1]
    BY <1>1, <2>1, FoundAt, TagsAre
  <2> DEFINE d == Before(a, ToolClose)
  <2>3. d \in Piece /\ Len(d) = k - 1 /\ \A i \in 1..(k - 1) : d[i] = a[i]
    BY <1>1, BeforeIs, TagsAre
  <2> HIDE DEF o, k, d
  <2>4. o + 1 # k
    BY <2>2, SymbolsOfTags
  <2>5. o \in 1..(k - 1) /\ o + 1 \in 1..(k - 1) /\ o \in 1..(Len(d) - 1)
    BY <2>1, <2>2, <2>3, <2>4
  <2>6. o \in At(d, ToolOpen)
    <3>1. At(d, ToolOpen) = {i \in 1..(Len(d) - 1) : d[i] = ToolOpen[1] /\ d[i + 1] = ToolOpen[2]}
      BY <2>3, AtIs, TagsAre
    <3>2. d[o] = ToolOpen[1] /\ d[o + 1] = ToolOpen[2]
      BY <2>2, <2>3, <2>5
    <3> QED
      BY <2>5, <3>1, <3>2
  <2> QED
    BY <1>2, <2>6 DEF Has, d
<1>4. b \in Buffers
  BY <1>1, BufferIs
<1>5. Round(b) = [buf |-> PastCall(s), calls |-> Append(c, Strip(CallBlock(s)))]
  BY <1>1, <1>2, <1>3 DEF Round, OpensFirst
<1>6. Final(b) = Final(Round(b))
  BY <1>4, FinalOfRound
<1> QED
  BY <1>5, <1>6 DEF Drained, a


(* w, some blocks of y: the stream has found their calls, and only line    *)
(* ends were between them.                                                 *)
Agrees(w, y) ==
  /\ ToolPart(y) = Drained(w.rest, w.calls) /\ w.calls # <<>>
  /\ \E b \in Piece : Blank(b) /\ w.outside = Before(y, ToolOpen) \o b

LEMMA FirstBlockAgrees ==
  ASSUME NEW y \in Piece, HasCall(y), ~Has(CallBlock(y), ToolOpen), Parses(Strip(CallBlock(y)))
  PROVE  Agrees(NextBlock(Start(y)), y)
<1> DEFINE w == NextBlock(Start(y))
           call == Strip(CallBlock(y))
<1>1. Start(y) \in BlockStates /\ Start(y).rest = y /\ Start(y).outside = <<>> /\ Start(y).calls = <<>>
  <2>1. <<>> \in Piece /\ <<>> \in Seq(Piece)
    BY EmptyIs
  <2> QED
    BY <2>1 DEF Start, BlockStates
<1>2. /\ w.rest = PastCall(y) /\ w.outside = <<>> \o Before(y, ToolOpen)
      /\ w.calls = Append(<<>>, call)
  BY <1>1, NextBlockIs
<1>3. Has(y, ToolOpen) /\ Before(y, ToolOpen) \in Piece /\ call \in Piece /\ After(y, ToolOpen) \in Piece
  BY CallIs
<1> HIDE DEF w, call
<1>4. ToolPart(y) = Drained(After(y, ToolOpen), <<>>)
  <2>1. /\ From(y, ToolOpen) \in Piece /\ OpensFirst(From(y, ToolOpen))
        /\ After(From(y, ToolOpen), ToolOpen) = After(y, ToolOpen)
    BY <1>3, FromOpens
  <2>2. <<>> \in Seq(Piece)
    OBVIOUS
  <2>3. Drained(From(y, ToolOpen), <<>>) = Drained(After(From(y, ToolOpen), ToolOpen), <<>>)
    BY <2>1, <2>2, OpeningSkipped
  <2> QED
    BY <2>1, <2>3 DEF ToolPart
<1>5. Drained(After(y, ToolOpen), <<>>) = Drained(PastCall(y), Append(<<>>, call))
  <2>1. <<>> \in Seq(Piece)
    OBVIOUS
  <2> QED
    BY <2>1, BlockIsRead DEF call
<1>6. w.calls # <<>>
  <2>1. Append(<<>>, call) # <<>>
    OBVIOUS
  <2> QED
    BY <1>2, <2>1
<1>7. \E b \in Piece : Blank(b) /\ w.outside = Before(y, ToolOpen) \o b
  <2>1. <<>> \in Piece /\ Blank(<<>>) /\ w.outside = Before(y, ToolOpen) \o <<>>
    BY <1>2, <1>3, EmptyIs DEF Blank
  <2> QED
    BY <2>1
<1> QED
  BY <1>2, <1>4, <1>5, <1>6, <1>7 DEF Agrees, w

LEMMA NextBlockAgrees ==
  ASSUME NEW y \in Piece, NEW w \in BlockStates, Has(y, ToolOpen), Agrees(w, y),
         HasCall(w.rest) => /\ ~Has(CallBlock(w.rest), ToolOpen) /\ Parses(Strip(CallBlock(w.rest)))
                            /\ Strip(Before(w.rest, ToolOpen)) = <<>>
  PROVE  Agrees(NextBlock(w), y)
<1>1. CASE ~HasCall(w.rest)
  BY <1>1, NextBlockIs
<1>2. CASE HasCall(w.rest)
  <2> DEFINE u == NextBlock(w)
             r == w.rest
             c == w.calls
             call == Strip(CallBlock(r))
             p == Before(r, ToolOpen)
  <2>1. r \in Piece /\ c \in Seq(Piece)
    BY DEF BlockStates
  <2>2. u.rest = PastCall(r) /\ u.outside = w.outside \o p /\ u.calls = Append(c, call)
    BY <1>2, NextBlockIs
  <2> HIDE DEF u, c
  <2>3. Has(r, ToolOpen) /\ p \in Piece /\ call \in Piece /\ After(r, ToolOpen) \in Piece
    BY <1>2, <2>1, CallIs
  <2>4. Blank(p)
    BY <1>2, <2>3, BlankStripped
  <2>5. OpensFirst(r)
    BY <2>1, <2>3, <2>4, OpensAfterBlank
  <2>6. Drained(r, c) = Drained(After(r, ToolOpen), c)
    BY <2>1, <2>5, OpeningSkipped
  <2>7. Drained(After(r, ToolOpen), c) = Drained(PastCall(r), Append(c, call))
    BY <1>2, <2>1, BlockIsRead
  <2>8. ToolPart(y) = Drained(r, c)
    BY DEF Agrees, c
  <2>9. u.calls # <<>>
    <3>1. Append(c, call) # <<>>
      BY <2>1, <2>3
    <3> QED
      BY <2>2, <3>1
  <2>10. \E b \in Piece : Blank(b) /\ u.outside = Before(y, ToolOpen) \o b
    <3>1. PICK b \in Piece : Blank(b) /\ w.outside = Before(y, ToolOpen) \o b
      BY DEF Agrees
    <3> HIDE DEF p
    <3>2. Blank(b \o p) /\ b \o p \in Piece
      BY <2>3, <2>4, <3>1, BlankJoined
    <3>3. Before(y, ToolOpen) \in Piece
      BY BeforeIs, TagsAre
    <3>4. (Before(y, ToolOpen) \o b) \o p = Before(y, ToolOpen) \o (b \o p)
      BY <2>3, <3>1, <3>3, CatAssoc
    <3>5. u.outside = Before(y, ToolOpen) \o (b \o p)
      BY <2>2, <3>1, <3>4
    <3> QED
      BY <3>2, <3>5
  <2> QED
    BY <2>2, <2>6, <2>7, <2>8, <2>9, <2>10 DEF Agrees, u
<1> QED
  BY <1>1, <1>2

(* All the blocks of a well-formed content.                                *)
LEMMA BlocksAgree ==
  ASSUME NEW y \in Piece, Has(y, ToolOpen), WellFormed(y)
  PROVE  LET w == Blocks(y)[Len(y)] IN
         /\ w \in BlockStates /\ ToolPart(y).calls = w.calls /\ w.calls # <<>>
         /\ Strip(w.outside \o w.rest) = Strip(Before(y, ToolOpen))
<1> DEFINE n == Len(y)
           f == Blocks(y)
<1>1. /\ n \in Nat /\ f \in [0..n -> BlockStates] /\ f[0] = Start(y)
      /\ \A i \in 1..n : f[i] = NextBlock(f[i - 1])
  BY BlocksAre
<1>2. /\ ~HasCall(f[n].rest)
      /\ ~HasCall(y) => f[n] = Start(y)
  BY BlocksEnd
<1>3. /\ \A i \in 0..n : HasCall(f[i].rest) =>
           /\ ~Has(CallBlock(f[i].rest), ToolOpen) /\ Parses(Strip(CallBlock(f[i].rest)))
           /\ i > 0 => Strip(Before(f[i].rest, ToolOpen)) = <<>>
      /\ Strip(f[n].rest) = <<>>
  BY DEF WellFormed
<1> HIDE DEF f
<1>4. n > 1
  <2>1. First(y, ToolOpen) \in 1..(Len(y) - 1)
    BY FoundAt, TagsAre
  <2> QED
    BY <1>1, <2>1
<1> HIDE DEF n
<1>5. HasCall(y)
  <2>1. SUFFICES ASSUME ~HasCall(y) PROVE FALSE
    OBVIOUS
  <2>2. Strip(y) = <<>>
    BY <1>2, <1>3, <2>1 DEF Start
  <2> QED
    BY <2>2, BlankStripped, BlankHasNothing
<1> DEFINE S == {i \in Nat : i + 1 <= n => Agrees(f[i + 1], y)}
<1>6. 0 \in S
  <2>1. 0 \in 0..n /\ 1 \in 1..n /\ 1 - 1 = 0 /\ 0 + 1 = 1
    BY <1>1, <1>4
  <2>2. f[1] = NextBlock(Start(y))
    BY <1>1, <2>1
  <2>3. ~Has(CallBlock(y), ToolOpen) /\ Parses(Strip(CallBlock(y)))
    BY <1>1, <1>3, <1>5, <2>1 DEF Start
  <2>4. Agrees(f[1], y)
    BY <1>5, <2>2, <2>3, FirstBlockAgrees
  <2> QED
    BY <2>1, <2>4
<1>7. ASSUME NEW i \in Nat, i \in S
      PROVE  i + 1 \in S
  <2>1. ASSUME (i + 1) + 1 <= n
        PROVE  Agrees(f[(i + 1) + 1], y)
    <3>1. /\ (i + 1) + 1 \in 1..n /\ ((i + 1) + 1) - 1 = i + 1 /\ i + 1 <= n /\ i + 1 \in 0..n
          /\ i + 1 > 0
      BY <1>1, <2>1
    <3>2. f[(i + 1) + 1] = NextBlock(f[i + 1]) /\ f[i + 1] \in BlockStates
      BY <1>1, <3>1
    <3>3. Agrees(f[i + 1], y)
      BY <1>7, <3>1
    <3>4. HasCall(f[i + 1].rest) =>
            /\ ~Has(CallBlock(f[i + 1].rest), ToolOpen) /\ Parses(Strip(CallBlock(f[i + 1].rest)))
            /\ Strip(Before(f[i + 1].rest, ToolOpen)) = <<>>
      BY <1>3, <3>1
    <3> QED
      BY <3>2, <3>3, <3>4, NextBlockAgrees
  <2>2. i + 1 \in Nat
    OBVIOUS
  <2> QED
    BY <2>1, <2>2, Zenon
<1>8. Nat \subseteq S
  <2> HIDE DEF S
  <2> QED
    BY <1>6, <1>7, NatSetInduction
<1>9. Agrees(f[n], y)
  <2>1. n - 1 \in Nat /\ (n - 1) + 1 = n /\ n <= n
    BY <1>1, <1>4
  <2>2. n - 1 \in S
    BY <1>8, <2>1
  <2>3. (n - 1) + 1 <= n => Agrees(f[(n - 1) + 1], y)
    BY <2>2
  <2> QED
    BY <2>1, <2>3
<1> DEFINE w == f[n]
<1>10. w \in BlockStates /\ w.rest \in Piece /\ w.calls \in Seq(Piece) /\ w.outside \in Piece
  BY <1>1 DEF BlockStates
<1>11. /\ ToolPart(y) = Drained(w.rest, w.calls) /\ w.calls # <<>>
       /\ Blank(w.rest)
  BY <1>3, <1>9, <1>10, BlankStripped DEF Agrees
<1>12. PICK b \in Piece : Blank(b) /\ w.outside = Before(y, ToolOpen) \o b
  BY <1>9 DEF Agrees
<1> HIDE DEF w
<1>13. ToolPart(y).calls = w.calls
  <2> DEFINE d == [buf |-> w.rest, calls |-> w.calls]
  <2>1. d \in Buffers
    BY <1>10, BufferIs
  <2>2. Settled(d)
    BY <1>10, <1>11, BlankHasNothing DEF Settled
  <2>3. Final(d) = d
    BY <2>1, <2>2, FinalOfSettled
  <2> QED
    BY <1>11, <2>3 DEF Drained
<1>14. Strip(w.outside \o w.rest) = Strip(Before(y, ToolOpen))
  <2>1. Before(y, ToolOpen) \in Piece
    BY BeforeIs, TagsAre
  <2>2. Strip(w.outside \o w.rest) = Strip(w.outside)
    BY <1>10, <1>11, StripPadded
  <2>3. Strip(Before(y, ToolOpen) \o b) = Strip(Before(y, ToolOpen))
    BY <1>12, <2>1, StripPadded
  <2> QED
    BY <1>12, <2>2, <2>3
<1> QED
  BY <1>10, <1>11, <1>13, <1>14 DEF w, f, n


LEMMA OwnTagIsFound ==
  ASSUME NEW s \in Piece, IsPrefix(ThinkOpen, LStrip(s))
  PROVE  Has(s, ThinkOpen)
<1> DEFINE a == LStrip(s)
<1>1. a \in Piece /\ Len(a) \in Nat
  BY LStripType DEF Piece
<1>2. Len(a) >= 2 /\ a[1] = ThinkOpen[1] /\ a[2] = ThinkOpen[2]
  BY <1>1, PrefixIs, TagsAre
<1>3. PICK k \in 0..Len(s) : Leading(s, k)
  BY LStripIs
<1>4. a = SubSeq(s, k + 1, Len(s))
  BY <1>3, LStripIs
<1>5. Len(SubSeq(s, k + 1, Len(s))) = Len(s) - k /\ Len(s) \in Nat
  BY TextSplits, CatIs
<1> HIDE DEF a
<1>6. s[k + 1] = ThinkOpen[1] /\ s[(k + 1) + 1] = ThinkOpen[2] /\ k + 1 \in 1..(Len(s) - 1)
  <2>1. /\ k + 1 \in 1..(Len(s) + 1) /\ Len(s) \in 0..Len(s) /\ k + 1 <= Len(s) + 1
        /\ 1 \in 1..(Len(s) + 1 - (k + 1)) /\ 2 \in 1..(Len(s) + 1 - (k + 1))
        /\ (k + 1) + 1 - 1 = k + 1 /\ (k + 1) + 2 - 1 = (k + 1) + 1 /\ k + 1 \in 1..(Len(s) - 1)
    BY <1>1, <1>2, <1>4, <1>5
  <2>2. \A i \in 1..(Len(s) + 1 - (k + 1)) : SubSeq(s, k + 1, Len(s))[i] = s[(k + 1) + i - 1]
    BY <2>1, SubIs
  <2>3. a[1] = s[(k + 1) + 1 - 1] /\ a[2] = s[(k + 1) + 2 - 1]
    BY <1>4, <2>1, <2>2
  <2> QED
    BY <1>2, <2>1, <2>3
<1>7. k + 1 \in At(s, ThinkOpen)
  <2>1. At(s, ThinkOpen) = {i \in 1..(Len(s) - 1) : s[i] = ThinkOpen[1] /\ s[i + 1] = ThinkOpen[2]}
    BY AtIs, TagsAre
  <2> QED
    BY <1>6, <2>1
<1> QED
  BY <1>7 DEF Has

(* The answer that is not streamed, from the same reasoning and content.   *)
LEMMA WholeIs ==
  ASSUME NEW s \in Piece, thinking \in BOOLEAN, thinking => Unopened(s), NEW length \in BOOLEAN
  PROVE  /\ WholeContent(s) = ContentOf(s, thinking) /\ ContentOf(s, thinking) \in Piece
         /\ Strip(WholeReasoning(s)) = Strip(AnswerTo(s, thinking, length).reasoning)
<1>1. thinking => Opened(s) = s
  BY DEF Opened, SkipOpen, Unopened
<1>2. WholeContent(s) = ContentOf(s, thinking)
  BY <1>1 DEF WholeContent, ContentOf
<1>3. ASSUME Has(s, ThinkClose)
      PROVE  /\ Before(s, ThinkClose) \in Piece /\ LStrip(After(s, ThinkClose)) \in Piece
             /\ Strip(Strip(Before(s, ThinkClose))) = Strip(Before(s, ThinkClose))
  BY <1>3, FirstIs, LStripType, StripTwice, TagsAre
<1>4. ContentOf(s, thinking) \in Piece
  BY <1>3, EmptyIs DEF ContentOf
<1>5. AnswerTo(s, thinking, length).reasoning =
        IF ~thinking THEN <<>> ELSE IF Has(s, ThinkClose) THEN Before(s, ThinkClose) ELSE s
  BY DEF AnswerTo
<1>6. WholeReasoning(s) =
        IF ~thinking THEN <<>> ELSE IF Has(s, ThinkClose) THEN Strip(Before(s, ThinkClose)) ELSE s
  BY <1>1 DEF WholeReasoning
<1> QED
  BY <1>2, <1>3, <1>4, <1>5, <1>6

LEMMA AnswerAgrees ==
  ASSUME NEW s \in Piece, thinking \in BOOLEAN, thinking => Unopened(s), NEW length \in BOOLEAN,
         WellFormed(WholeContent(s))
  PROVE  LET a == AnswerTo(s, thinking, length)
             w == Whole(s, length)
         IN  /\ Strip(a.reasoning) = Strip(w.reasoning) /\ Strip(a.content) = Strip(w.content)
             /\ a.calls = w.calls /\ a.finish = w.finish
<1> DEFINE y == WholeContent(s)
           b == Blocks(y)[Len(y)]
           a == AnswerTo(s, thinking, length)
           w == Whole(s, length)
<1>1. y = ContentOf(s, thinking) /\ y \in Piece /\ Strip(WholeReasoning(s)) = Strip(a.reasoning)
  BY WholeIs
<1>2. /\ w.reasoning = WholeReasoning(s) /\ w.calls = b.calls /\ w.finish = FinishReason(length, b.calls)
      /\ w.content = IF b.calls = <<>> THEN y ELSE Strip(b.outside \o b.rest)
  BY DEF Whole
<1>3. LET calls == IF Has(y, ToolOpen) THEN ToolPart(y).calls ELSE <<>> IN
      /\ a.calls = calls /\ a.finish = FinishReason(length, calls)
      /\ a.content = IF ~Has(y, ToolOpen) THEN y
                     ELSE IF calls # <<>> THEN Before(y, ToolOpen)
                     ELSE Before(y, ToolOpen) \o Strip(ToolPart(y).buf)
  BY <1>1 DEF AnswerTo
<1>4. WellFormed(y)
  OBVIOUS
<1> HIDE DEF y, a, w
<1>5. CASE ~Has(y, ToolOpen)
  <2>1. ~HasCall(y)
    BY <1>5 DEF HasCall
  <2>2. b = Start(y)
    BY <1>1, <2>1, BlocksEnd
  <2>3. b.calls = <<>>
    BY <2>2 DEF Start
  <2> HIDE DEF b
  <2> QED
    BY <1>1, <1>2, <1>3, <1>5, <2>3 DEF a, w
<1>6. CASE Has(y, ToolOpen)
  <2>1. /\ b \in BlockStates /\ ToolPart(y).calls = b.calls /\ b.calls # <<>>
        /\ Strip(b.outside \o b.rest) = Strip(Before(y, ToolOpen))
    BY <1>1, <1>4, <1>6, BlocksAgree
  <2>2. b.outside \in Piece /\ b.rest \in Piece
    BY <2>1 DEF BlockStates
  <2> HIDE DEF b
  <2>3. b.outside \o b.rest \in Piece
    BY <2>2, CatIs
  <2>4. Strip(Strip(b.outside \o b.rest)) = Strip(b.outside \o b.rest)
    BY <2>3, StripTwice
  <2> QED
    BY <1>1, <1>2, <1>3, <1>6, <2>1, <2>4 DEF a, w
<1> QED
  BY <1>5, <1>6

(* For texts of any length and pieces of any size, with any number of      *)
(* well-formed calls: a client that streams ends with the reasoning, the   *)
(* content, the calls and the finish_reason of the answer in one piece.    *)
THEOREM StreamAgreesWithWholeAlways == ExlSpec => []StreamAgreesWithWhole
<1>1. ExlInv => StreamAgreesWithWhole
  <2> DEFINE length == st.out.finish = "length"
             whole == Whole(text, length)
  <2> SUFFICES ASSUME ExlInv, job = "finished", ~(thinking /\ Has(text, ThinkOpen)),
                      WellFormed(WholeContent(text))
               PROVE  /\ Strip(st.out.reasoning) = Strip(whole.reasoning)
                      /\ Strip(st.out.content) = Strip(whole.content)
                      /\ st.out.calls = whole.calls /\ st.out.finish = whole.finish
    BY DEF StreamAgreesWithWhole
  <2>1. thinking \in BOOLEAN /\ text \in Piece
    BY DEF ExlInv, ExlTypeOK
  <2>2. thinking => Unopened(text)
    BY <2>1, OwnTagIsFound DEF Unopened
  <2>3. PICK l \in BOOLEAN : st.out = AnswerTo(text, thinking, l)
    BY <2>2 DEF ExlInv, NoOwnTag
  <2>4. length = l
    BY <2>3 DEF AnswerTo, FinishReason
  <2> HIDE DEF length
  <2>5. LET a == AnswerTo(text, thinking, l)
            w == Whole(text, l)
        IN  /\ Strip(a.reasoning) = Strip(w.reasoning) /\ Strip(a.content) = Strip(w.content)
            /\ a.calls = w.calls /\ a.finish = w.finish
    BY <2>1, <2>2, AnswerAgrees
  <2> QED
    BY <2>3, <2>4, <2>5
<1> QED
  BY <1>1, ExlInvAlways, PTL

================================================================================
