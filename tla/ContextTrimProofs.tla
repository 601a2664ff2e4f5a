--------------------------- MODULE ContextTrimProofs ---------------------------
(***************************************************************************)
(* However often a conversation is trimmed, both its ends are kept: proved *)
(* for all conversations, sizes and numbers of attempts.                   *)
(***************************************************************************)
EXTENDS ContextTrim, SequenceTheorems, FiniteSetTheorems, WellFoundedInduction, TLAPS

--------------------------------------------------------------------------------
(* Least and greatest numbers                                              *)

(* A set of numbers that is not empty has a least one. *)
LEMMA NatHasMin ==
  ASSUME NEW T \in SUBSET Nat, T # {}
  PROVE  \E x \in T : \A y \in T : x <= y
<1> DEFINE R == OpToRel(<, Nat)
<1>1. IsWellFoundedOn(R, Nat)
  BY NatLessThanWellFounded
<1>2. \A x, y \in Nat : <<y, x>> \in R <=> y < x
  BY DEF OpToRel
<1> HIDE DEF R
<1>3. PICK x \in T : \A y \in T : ~(<<y, x>> \in R)
  BY <1>1, WFMin
<1>4. ASSUME NEW y \in T
      PROVE  x <= y
  <2>1. ~(y < x)
    BY <1>2, <1>3, <1>4
  <2> QED
    BY <2>1
<1> QED
  BY <1>4

(* Induction: a set that has 0, and with n also n + 1, has every number.   *)
LEMMA SetInduction ==
  ASSUME NEW S, 0 \in S, \A n \in Nat : n \in S => n + 1 \in S
  PROVE  Nat \subseteq S
<1> DEFINE T == Nat \ S
<1> SUFFICES ASSUME T # {} PROVE FALSE
  OBVIOUS
<1>1. PICK x \in T : \A y \in T : x <= y
  <2>1. T \in SUBSET Nat
    OBVIOUS
  <2> HIDE DEF T
  <2> QED
    BY <2>1, NatHasMin
<1>2. x \in Nat /\ x # 0 /\ x \notin S
  OBVIOUS
<1>3. x - 1 \in Nat /\ (x - 1) + 1 = x
  BY <1>2
<1>4. x - 1 \notin T
  BY <1>1, <1>2
<1> QED
  BY <1>2, <1>3, <1>4

LEMMA MinIsIn ==
  ASSUME NEW S \in SUBSET Nat, S # {}
  PROVE  Min(S) \in S
<1>1. PICK x \in S : \A y \in S : x =< y
  BY NatHasMin
<1> QED
  BY <1>1, Zenon DEF Min

(* A bounded one has a greatest: the bound minus the least distance to it. *)
LEMMA MaxIsIn ==
  ASSUME NEW S \in SUBSET Nat, S # {}, NEW bound \in Nat, \A x \in S : x <= bound
  PROVE  Max(S) \in S /\ \A x \in S : Max(S) >= x
<1> DEFINE T == {bound - x : x \in S}
<1>1. T \in SUBSET Nat /\ T # {}
  <2>1. \A x \in S : bound - x \in Nat
    OBVIOUS
  <2> QED
    BY <2>1, Zenon
<1>2. PICK d \in T : \A e \in T : d <= e
  <2> HIDE DEF T
  <2> QED
    BY <1>1, NatHasMin
<1>3. PICK x \in S : d = bound - x
  OBVIOUS
<1>4. \A y \in S : x >= y
  <2>1. ASSUME NEW y \in S
        PROVE  x >= y
    <3>1. d <= bound - y
      BY <1>2
    <3> QED
      BY <3>1, <1>3
  <2> QED
    BY <2>1
<1> QED
  BY <1>4, Zenon DEF Max

--------------------------------------------------------------------------------
(* trim_messages                                                           *)

(* The leading block: system messages, not the whole conversation, and no  *)
(* longer block is.                                                        *)
LEMMA HeadIs ==
  ASSUME NEW m \in Seq(Message)
  PROVE  /\ KeepHead(m) \in 0..Len(m)
         /\ \A i \in 1..KeepHead(m) : m[i].role = "system"
         /\ \A h \in 0..(Len(m) - 1) : (\A i \in 1..h : m[i].role = "system") => h <= KeepHead(m)
<1> DEFINE heads == {h \in 0..(Len(m) - 1) : \A i \in 1..h : m[i].role = "system"}
           S == {0} \cup heads
<1>1. Len(m) \in Nat
  OBVIOUS
<1>2. S \in SUBSET Nat /\ S # {} /\ \A x \in S : x <= Len(m)
  BY <1>1
<1>3. KeepHead(m) = Max(S)
  BY DEF KeepHead
<1>4. Max(S) \in S /\ \A x \in S : Max(S) >= x
  <2> HIDE DEF S
  <2> QED
    BY <1>1, <1>2, MaxIsIn
<1>5. \A i \in 1..KeepHead(m) : m[i].role = "system"
  BY <1>3, <1>4
<1>6. ASSUME NEW h \in 0..(Len(m) - 1), \A i \in 1..h : m[i].role = "system"
      PROVE  h <= KeepHead(m)
  <2>1. h \in S
    BY <1>6
  <2> QED
    BY <2>1, <1>2, <1>3, <1>4
<1> QED
  BY <1>1, <1>2, <1>3, <1>4, <1>5, <1>6

(* What is cut is cut behind a group: enough of it, or all there is.       *)
LEMMA CutIsACut ==
  ASSUME NEW m \in Seq(Message), Cuts(m) # {}, NEW needed
  PROVE  /\ CutAt(m, needed) \in Cuts(m)
         /\ Dropped(m, CutAt(m, needed)) >= needed \/ \A k \in Cuts(m) : CutAt(m, needed) >= k
<1> DEFINE enough == {k \in Cuts(m) : Dropped(m, k) >= needed}
<1>1. Len(m) \in Nat /\ KeepHead(m) \in Nat
  BY HeadIs
<1>2. Cuts(m) \in SUBSET Nat /\ \A k \in Cuts(m) : k <= Len(m)
  BY <1>1 DEF Cuts
<1>3. CASE enough # {}
  <2>1. CutAt(m, needed) = Min(enough)
    BY <1>3 DEF CutAt
  <2>2. Min(enough) \in enough
    <3>1. enough \in SUBSET Nat
      BY <1>2
    <3> HIDE DEF enough
    <3> QED
      BY <1>3, <3>1, MinIsIn
  <2> QED
    BY <2>1, <2>2
<1>4. CASE enough = {}
  <2>1. CutAt(m, needed) = Max(Cuts(m))
    BY <1>4 DEF CutAt
  <2>2. Max(Cuts(m)) \in Cuts(m) /\ \A k \in Cuts(m) : Max(Cuts(m)) >= k
    BY <1>1, <1>2, MaxIsIn
  <2> QED
    BY <2>1, <2>2
<1> QED
  BY <1>3, <1>4

LEMMA CutIs ==
  ASSUME NEW m \in Seq(Message), NEW c \in Cuts(m)
  PROVE  c \in (KeepHead(m) + 1)..(Len(m) - 1) /\ StartsGroup(m, c + 1)
BY DEF Cuts

(* The trimmed conversation, message by message. *)
LEMMA TrimmedIs ==
  ASSUME NEW m \in Seq(Message), NEW c \in Cuts(m)
  PROVE  LET t == Trimmed(m, c)
             h == KeepHead(m)
         IN  /\ t \in Seq(Message)
             /\ Len(t) = h + 1 + Len(m) - c
             /\ \A i \in 1..h : t[i] = m[i]
             /\ t[h + 1] = Marker
             /\ \A j \in 1..(Len(m) - c) : t[h + 1 + j] = m[c + j]
<1> DEFINE h == KeepHead(m)
           front == SubSeq(m, 1, h)
           back == SubSeq(m, c + 1, Len(m))
<1>1. Len(m) \in Nat /\ h \in 0..Len(m) /\ c \in (h + 1)..(Len(m) - 1)
  BY HeadIs, CutIs
<1>2. Marker \in Message
  BY TrimAssumption DEF Marker, Message, Role
<1> HIDE DEF h
<1>3. /\ front \in Seq(Message) /\ Len(front) = h
      /\ \A i \in 1..h : front[i] = m[i]
  BY <1>1
<1>4. /\ back \in Seq(Message) /\ Len(back) = Len(m) - c
      /\ \A j \in 1..(Len(m) - c) : back[j] = m[c + j]
  BY <1>1
<1>5. Trimmed(m, c) = front \o <<Marker>> \o back
  BY DEF Trimmed, h
<1> HIDE DEF front, back
<1> DEFINE fm == front \o <<Marker>>
<1>6. /\ fm \in Seq(Message) /\ Len(fm) = h + 1
      /\ \A i \in 1..h : fm[i] = m[i]
      /\ fm[h + 1] = Marker
  BY <1>1, <1>2, <1>3
<1>7. Trimmed(m, c) = fm \o back
  BY <1>5
<1> HIDE DEF fm
<1>8. /\ fm \o back \in Seq(Message) /\ Len(fm \o back) = (h + 1) + (Len(m) - c)
      /\ \A i \in 1..((h + 1) + (Len(m) - c)) :
           (fm \o back)[i] = IF i <= h + 1 THEN fm[i] ELSE back[i - (h + 1)]
  <2>1. /\ fm \o back \in Seq(Message) /\ Len(fm \o back) = Len(fm) + Len(back)
        /\ \A i \in 1..(Len(fm) + Len(back)) :
             (fm \o back)[i] = IF i <= Len(fm) THEN fm[i] ELSE back[i - Len(fm)]
    BY <1>4, <1>6, ConcatProperties
  <2> QED
    BY <1>4, <1>6, <2>1
<1>9. ASSUME NEW i \in 1..(h + 1)
      PROVE  Trimmed(m, c)[i] = fm[i]
  <2>1. i \in 1..((h + 1) + (Len(m) - c)) /\ i <= h + 1
    BY <1>1
  <2> QED
    BY <1>7, <1>8, <2>1
<1>10. ASSUME NEW j \in 1..(Len(m) - c)
       PROVE  Trimmed(m, c)[h + 1 + j] = m[c + j]
  <2>1. /\ h + 1 + j \in 1..((h + 1) + (Len(m) - c))
        /\ ~(h + 1 + j <= h + 1) /\ (h + 1 + j) - (h + 1) = j
    BY <1>1
  <2> QED
    BY <1>4, <1>7, <1>8, <2>1
<1>11. Len(Trimmed(m, c)) = h + 1 + Len(m) - c
  BY <1>1, <1>7, <1>8
<1>12. \A i \in 1..h : Trimmed(m, c)[i] = m[i]
  BY <1>1, <1>6, <1>9
<1>13. Trimmed(m, c)[h + 1] = Marker
  BY <1>1, <1>6, <1>9
<1>14. Trimmed(m, c) \in Seq(Message)
  BY <1>7, <1>8
<1> QED
  BY <1>10, <1>11, <1>12, <1>13, <1>14, Zenon DEF h

--------------------------------------------------------------------------------
(* Both ends                                                               *)

(* KeepsEnds once something was cut, message by message: b is what is    *)
(* left of o after n trims, with the last marker at p and what follows it  *)
(* taken from behind k.                                                    *)
Shape(b, o, n, p, k, markers) ==
  /\ p \in (KeepHead(o) + 1)..(Len(b) - 1)
  /\ k \in (KeepHead(o) + 1)..(Len(o) - 1)
  /\ markers \in SUBSET ((KeepHead(o) + 1)..p)
  /\ p <= k /\ p \in markers /\ Cardinality(markers) = n
  /\ \A i \in 1..KeepHead(o) : b[i] = o[i]
  /\ \A i \in (KeepHead(o) + 1)..p :
       IF i \in markers THEN b[i] = Marker
       ELSE b[i].role = "system" /\ \E j \in (KeepHead(o) + 1)..k : b[i] = o[j]
  /\ Len(b) - p = Len(o) - k
  /\ \A j \in 1..(Len(b) - p) : b[p + j] = o[k + j]
  /\ StartsGroup(o, k + 1)

(* Two runs of messages are equal if they are, message by message. *)
LEMMA TailsMatch ==
  ASSUME NEW b \in Seq(Message), NEW o \in Seq(Message), NEW p \in 0..Len(b), NEW k \in 0..Len(o)
  PROVE  SubSeq(b, p + 1, Len(b)) = SubSeq(o, k + 1, Len(o))
           <=> /\ Len(b) - p = Len(o) - k
               /\ \A j \in 1..(Len(b) - p) : b[p + j] = o[k + j]
<1> DEFINE B == SubSeq(b, p + 1, Len(b))
           O == SubSeq(o, k + 1, Len(o))
<1>1. /\ B \in Seq(Message) /\ Len(B) = Len(b) - p
      /\ \A j \in 1..(Len(b) - p) : B[j] = b[p + j]
  OBVIOUS
<1>2. /\ O \in Seq(Message) /\ Len(O) = Len(o) - k
      /\ \A j \in 1..(Len(o) - k) : O[j] = o[k + j]
  OBVIOUS
<1> HIDE DEF B, O
<1>3. ASSUME B = O
      PROVE  Len(b) - p = Len(o) - k /\ \A j \in 1..(Len(b) - p) : b[p + j] = o[k + j]
  BY <1>1, <1>2, <1>3
<1>4. ASSUME Len(b) - p = Len(o) - k, \A j \in 1..(Len(b) - p) : b[p + j] = o[k + j]
      PROVE  B = O
  <2>1. Len(B) = Len(O) /\ \A j \in 1..Len(B) : B[j] = O[j]
    BY <1>1, <1>2, <1>4
  <2> QED
    BY <1>1, <1>2, <2>1, SeqEqual
<1> QED
  BY <1>3, <1>4 DEF B, O

LEMMA HeadsMatch ==
  ASSUME NEW b \in Seq(Message), NEW o \in Seq(Message), NEW h \in Nat, h <= Len(b), h <= Len(o)
  PROVE  SubSeq(b, 1, h) = SubSeq(o, 1, h) <=> \A i \in 1..h : b[i] = o[i]
<1> DEFINE B == SubSeq(b, 1, h)
           O == SubSeq(o, 1, h)
<1>1. B \in Seq(Message) /\ Len(B) = h /\ \A i \in 1..h : B[i] = b[i]
  OBVIOUS
<1>2. O \in Seq(Message) /\ Len(O) = h /\ \A i \in 1..h : O[i] = o[i]
  OBVIOUS
<1> HIDE DEF B, O
<1>3. ASSUME \A i \in 1..h : b[i] = o[i]
      PROVE  B = O
  <2>1. Len(B) = Len(O) /\ \A i \in 1..Len(B) : B[i] = O[i]
    BY <1>1, <1>2, <1>3
  <2> QED
    BY <1>1, <1>2, <2>1, SeqEqual
<1> QED
  BY <1>1, <1>2, <1>3 DEF B, O

(* Shape is KeepsEnds. *)
LEMMA EndsAreShape ==
  ASSUME NEW b \in Seq(Message), NEW o \in Seq(Message), NEW n
  PROVE  KeepsEnds(b, o, n) <=> \/ n = 0 /\ b = o
                                \/ \E p, k, markers : Shape(b, o, n, p, k, markers)
<1> DEFINE head == KeepHead(o)
           size == Len(o)
           Ends(p, k, markers) ==
             /\ p <= k /\ p \in markers /\ Cardinality(markers) = n
             /\ SubSeq(b, 1, head) = SubSeq(o, 1, head)
             /\ \A i \in (head + 1)..p :
                  IF i \in markers THEN b[i] = Marker
                  ELSE b[i].role = "system" /\ \E j \in (head + 1)..k : b[i] = o[j]
             /\ SubSeq(b, p + 1, Len(b)) = SubSeq(o, k + 1, size)
             /\ StartsGroup(o, k + 1)
<1>1. head \in Nat /\ head <= size /\ size \in Nat /\ Len(b) \in Nat
  BY HeadIs
<1>2. ASSUME NEW p \in (head + 1)..(Len(b) - 1), NEW k \in (head + 1)..(size - 1),
             NEW markers \in SUBSET ((head + 1)..p)
      PROVE  Ends(p, k, markers) <=> Shape(b, o, n, p, k, markers)
  <2>1. p \in 0..Len(b) /\ k \in 0..size /\ head <= Len(b)
    BY <1>1
  <2>2. SubSeq(b, 1, head) = SubSeq(o, 1, head)
          <=> \A i \in 1..head : b[i] = o[i]
    BY <1>1, <2>1, HeadsMatch
  <2>3. SubSeq(b, p + 1, Len(b)) = SubSeq(o, k + 1, size)
          <=> /\ Len(b) - p = size - k
              /\ \A j \in 1..(Len(b) - p) : b[p + j] = o[k + j]
    BY <2>1, TailsMatch
  <2> QED
    BY <2>2, <2>3, Zenon DEF Shape
<1>3. KeepsEnds(b, o, n) <=> \/ n = 0 /\ b = o
                      \/ \E p \in (head + 1)..(Len(b) - 1), k \in (head + 1)..(size - 1) :
                           \E markers \in SUBSET ((head + 1)..p) : Ends(p, k, markers)
  BY Zenon DEF KeepsEnds
<1>4. ASSUME NEW p, NEW k, NEW markers, Shape(b, o, n, p, k, markers)
      PROVE  /\ p \in (head + 1)..(Len(b) - 1) /\ k \in (head + 1)..(size - 1)
             /\ markers \in SUBSET ((head + 1)..p)
  BY <1>4, Zenon DEF Shape
<1> HIDE DEF head, size, Ends
<1> QED
  BY <1>2, <1>3, <1>4, Zenon

(* The first trim. *)
LEMMA FirstTrim ==
  ASSUME NEW o \in Seq(Message), NEW c \in Cuts(o)
  PROVE  Shape(Trimmed(o, c), o, 1, KeepHead(o) + 1, c, {KeepHead(o) + 1})
<1> DEFINE t == Trimmed(o, c)
           h == KeepHead(o)
<1>1. Len(o) \in Nat /\ h \in 0..Len(o) /\ c \in (h + 1)..(Len(o) - 1) /\ StartsGroup(o, c + 1)
  BY HeadIs, CutIs
<1>2. /\ Len(t) = h + 1 + Len(o) - c
      /\ \A i \in 1..h : t[i] = o[i]
      /\ t[h + 1] = Marker
      /\ \A j \in 1..(Len(o) - c) : t[h + 1 + j] = o[c + j]
  BY TrimmedIs
<1>3. Cardinality({h + 1}) = 1
  BY FS_Singleton
<1> HIDE DEF t, h
<1>4. /\ h + 1 \in (h + 1)..(Len(t) - 1) /\ c \in (h + 1)..(Len(o) - 1)
      /\ {h + 1} \in SUBSET ((h + 1)..(h + 1)) /\ h + 1 <= c
      /\ Len(t) - (h + 1) = Len(o) - c
  BY <1>1, <1>2
<1>5. \A i \in (h + 1)..(h + 1) : i = h + 1
  BY <1>1
<1> QED
  BY <1>1, <1>2, <1>3, <1>4, <1>5 DEF Shape, t, h

(* What was put in front by earlier trims is part of the leading block of  *)
(* what is left.                                                           *)
LEMMA MarkersLead ==
  ASSUME NEW b \in Seq(Message), NEW o \in Seq(Message), NEW n, NEW p, NEW k, NEW markers,
         Shape(b, o, n, p, k, markers)
  PROVE  p <= KeepHead(b)
<1>1. KeepHead(o) \in 0..Len(o) /\ \A i \in 1..KeepHead(o) : o[i].role = "system"
  BY HeadIs
<1>2. p \in (KeepHead(o) + 1)..(Len(b) - 1) /\ Len(b) \in Nat
  BY DEF Shape
<1>3. ASSUME NEW i \in 1..p
      PROVE  b[i].role = "system"
  <2>1. CASE i \in 1..KeepHead(o)
    BY <1>1, <2>1 DEF Shape
  <2>2. CASE i \in (KeepHead(o) + 1)..p
    BY <2>2 DEF Shape, Marker
  <2> QED
    BY <1>1, <1>2, <1>3, <2>1, <2>2
<1>4. p \in 0..(Len(b) - 1)
  BY <1>1, <1>2
<1> QED
  BY <1>3, <1>4, HeadIs

(* A group of what is left begins where one of the original does. *)
LEMMA GroupsCarryOver ==
  ASSUME NEW b \in Seq(Message), NEW o \in Seq(Message), NEW p \in Nat, NEW k \in Nat,
         p < Len(b), k < Len(o), Len(b) - p = Len(o) - k,
         \A j \in 1..(Len(b) - p) : b[p + j] = o[k + j],
         StartsGroup(o, k + 1),
         NEW d \in Nat, d < Len(b) - p, StartsGroup(b, p + d + 1)
  PROVE  StartsGroup(o, k + d + 1)
<1>1. Len(b) \in Nat /\ Len(o) \in Nat
  OBVIOUS
<1> SUFFICES ASSUME o[k + d + 1].role = "tool",
                    NEW j \in 1..(k + d), o[j].role = "call",
                    \A i \in (j + 1)..(k + d + 1) : o[i].role = "tool"
             PROVE  FALSE
  BY <1>1 DEF StartsGroup
<1>2. CASE j <= k
  <2>1. o[k + 1].role = "tool"
    BY <1>2
  <2>2. j \in 1..((k + 1) - 1) /\ \A i \in (j + 1)..(k + 1) : o[i].role = "tool"
    BY <1>2
  <2> QED
    BY <2>1, <2>2 DEF StartsGroup
<1>3. CASE j > k
  <2> DEFINE jj == p + (j - k)
  <2>1. b[p + (d + 1)] = o[k + (d + 1)]
    <3>1. d + 1 \in 1..(Len(b) - p)
      BY <1>1
    <3> QED
      BY <3>1
  <2>2. jj \in 1..((p + d + 1) - 1)
    BY <1>3
  <2>3. b[jj] = o[k + (j - k)] /\ k + (j - k) = j
    <3>1. j - k \in 1..(Len(b) - p) /\ k + (j - k) = j
      BY <1>1, <1>3
    <3>2. b[p + (j - k)] = o[k + (j - k)]
      BY <3>1
    <3> QED
      BY <3>1, <3>2
  <2>4. ASSUME NEW i \in (jj + 1)..(p + d + 1)
        PROVE  b[i].role = "tool"
    <3>1. i - p \in 1..(Len(b) - p)
      BY <1>1, <1>3
    <3>2. b[p + (i - p)] = o[k + (i - p)]
      BY <3>1
    <3>3. p + (i - p) = i /\ k + (i - p) \in (j + 1)..(k + d + 1)
      BY <1>3
    <3> QED
      BY <3>2, <3>3
  <2>5. p + d + 1 = p + (d + 1) /\ k + d + 1 = k + (d + 1)
    OBVIOUS
  <2> HIDE DEF jj
  <2> QED
    BY <2>1, <2>2, <2>3, <2>4, <2>5 DEF StartsGroup
<1> QED
  BY <1>2, <1>3

(* Each later trim. *)
LEMMA NextTrim ==
  ASSUME NEW b \in Seq(Message), NEW o \in Seq(Message), NEW n \in Nat, NEW p, NEW k, NEW markers,
         Shape(b, o, n, p, k, markers), NEW c \in Cuts(b)
  PROVE  Shape(Trimmed(b, c), o, n + 1, KeepHead(b) + 1, k + (c - p), markers \cup {KeepHead(b) + 1})
<1> DEFINE t == Trimmed(b, c)
           H == KeepHead(o)
           h == KeepHead(b)
           p2 == h + 1
           k2 == k + (c - p)
           markers2 == markers \cup {p2}
<1>1. /\ Len(b) \in Nat /\ Len(o) \in Nat /\ H \in 0..Len(o) /\ h \in 0..Len(b)
      /\ c \in (h + 1)..(Len(b) - 1) /\ StartsGroup(b, c + 1)
  BY HeadIs, CutIs
<1>2. /\ p \in (H + 1)..(Len(b) - 1) /\ k \in (H + 1)..(Len(o) - 1)
      /\ markers \in SUBSET ((H + 1)..p) /\ p <= k /\ Cardinality(markers) = n
      /\ Len(b) - p = Len(o) - k
  BY DEF Shape
<1>3. p <= h
  BY MarkersLead
<1>4. /\ \A i \in 1..H : b[i] = o[i]
      /\ \A i \in (H + 1)..p :
           IF i \in markers THEN b[i] = Marker
           ELSE b[i].role = "system" /\ \E j \in (H + 1)..k : b[i] = o[j]
      /\ \A j \in 1..(Len(b) - p) : b[p + j] = o[k + j]
      /\ StartsGroup(o, k + 1)
  BY DEF Shape
<1>5. /\ Len(t) = h + 1 + Len(b) - c
      /\ \A i \in 1..h : t[i] = b[i]
      /\ t[h + 1] = Marker
      /\ \A j \in 1..(Len(b) - c) : t[h + 1 + j] = b[c + j]
  BY TrimmedIs
<1>6. \A i \in 1..h : b[i].role = "system"
  BY HeadIs
<1> HIDE DEF t, H, h
<1>7. /\ p2 \in (H + 1)..(Len(t) - 1) /\ k2 \in (H + 1)..(Len(o) - 1) /\ p2 <= k2
      /\ Len(t) - p2 = Len(o) - k2 /\ Len(t) - p2 = Len(b) - c
  <2>1. Len(t) = h + 1 + Len(b) - c
    BY <1>5
  <2>2. /\ h \in Int /\ H \in Int /\ p \in Int /\ k \in Int /\ c \in Int
        /\ Len(b) \in Int /\ Len(o) \in Int
        /\ H + 1 <= p /\ p <= k /\ p <= h /\ h + 1 <= c /\ c <= Len(b) - 1
        /\ Len(b) - p = Len(o) - k
    BY <1>1, <1>2, <1>3
  <2> QED
    BY <2>1, <2>2
<1>8. /\ markers2 \in SUBSET ((H + 1)..p2) /\ p2 \in markers2
      /\ Cardinality(markers2) = n + 1
  <2>1. p2 \notin markers
    BY <1>1, <1>2, <1>3
  <2>2. IsFiniteSet(markers)
    <3>1. IsFiniteSet((H + 1)..p)
      BY <1>1, <1>2, FS_Interval
    <3> QED
      BY <1>2, <3>1, FS_Subset
  <2>3. Cardinality(markers2) = n + 1
    BY <1>2, <2>1, <2>2, FS_AddElement
  <2>4. markers2 \in SUBSET ((H + 1)..p2)
    BY <1>1, <1>2, <1>3
  <2> QED
    BY <2>3, <2>4
<1>9. ASSUME NEW i \in 1..H
      PROVE  t[i] = o[i]
  BY <1>1, <1>2, <1>3, <1>4, <1>5
<1>10. ASSUME NEW i \in (H + 1)..p2
       PROVE  IF i \in markers2 THEN t[i] = Marker
              ELSE t[i].role = "system" /\ \E j \in (H + 1)..k2 : t[i] = o[j]
  <2>1. CASE i = p2
    BY <1>5, <2>1
  <2>2. CASE i \in (H + 1)..p
    <3>1. t[i] = b[i] /\ i # p2
      <4>1. i \in 1..h /\ i # p2
        <5>1. H \in Int /\ h \in Int /\ p \in Int /\ p <= h /\ 0 <= H
          BY <1>1, <1>2, <1>3
        <5> QED
          BY <5>1, <2>2
      <4> QED
        BY <4>1, <1>5
    <3>2. k <= k2
      BY <1>1, <1>2, <1>3
    <3>3. \A j \in (H + 1)..k : j \in (H + 1)..k2
      <4>1. H \in Int /\ k \in Int /\ k2 \in Int
        BY <1>1, <1>2
      <4> HIDE DEF k2
      <4> QED
        BY <4>1, <3>2
    <3> HIDE DEF k2, p2
    <3> QED
      BY <1>4, <2>2, <3>1, <3>3
  <2>3. CASE i \in (p + 1)..h
    <3>1. t[i] = b[i] /\ b[i].role = "system"
      BY <1>1, <1>2, <1>5, <1>6, <2>3
    <3>2. i \notin markers2
      BY <1>1, <1>2, <2>3
    <3>3. b[p + (i - p)] = o[k + (i - p)] /\ p + (i - p) = i
      BY <1>1, <1>2, <1>4, <2>3
    <3>4. k + (i - p) \in (H + 1)..k2
      BY <1>1, <1>2, <2>3
    <3> HIDE DEF markers2, k2
    <3> QED
      BY <3>1, <3>2, <3>3, <3>4
  <2> QED
    BY <1>1, <1>2, <1>3, <2>1, <2>2, <2>3
<1>11. ASSUME NEW j \in 1..(Len(t) - p2)
       PROVE  t[p2 + j] = o[k2 + j]
  <2>1. j \in 1..(Len(b) - c) /\ (c - p) + j \in 1..(Len(b) - p)
    <3>1. j \in 1..(Len(b) - c)
      BY <1>7
    <3>2. p \in Int /\ p <= c /\ c \in Int /\ Len(b) \in Int
      BY <1>1, <1>2, <1>3
    <3> QED
      BY <3>1, <3>2
  <2>2. t[h + 1 + j] = b[c + j] /\ b[p + ((c - p) + j)] = o[k + ((c - p) + j)]
    BY <1>4, <1>5, <2>1
  <2>3. p + ((c - p) + j) = c + j /\ k + ((c - p) + j) = k2 + j
    BY <1>1, <1>2
  <2> QED
    BY <2>2, <2>3
<1>12. StartsGroup(o, k2 + 1)
  <2> DEFINE d == c - p
  <2>1. d \in Nat /\ d < Len(b) - p /\ p + d + 1 = c + 1 /\ k + d + 1 = k2 + 1
    BY <1>1, <1>2, <1>3
  <2>2. p \in Nat /\ k \in Nat /\ p < Len(b) /\ k < Len(o)
    BY <1>1, <1>2
  <2> HIDE DEF d, k2
  <2>3. StartsGroup(b, p + d + 1)
    BY <1>1, <2>1
  <2>4. StartsGroup(o, k + d + 1)
    BY <1>2, <1>4, <2>1, <2>2, <2>3, GroupsCarryOver
  <2> QED
    BY <2>1, <2>4
<1> HIDE DEF p2, k2, markers2
<1>13. Shape(t, o, n + 1, p2, k2, markers2)
  BY <1>7, <1>8, <1>9, <1>10, <1>11, <1>12 DEF Shape, H
<1> QED
  BY <1>13 DEF t, p2, k2, markers2, h

--------------------------------------------------------------------------------
(* The sizes of messages                                                   *)

(* Sums adds up.                                                           *)
IsSum(f, v, n) == f = [i \in 0..n |-> IF i = 0 THEN 0 ELSE f[i - 1] + v[i]]

LEMMA SumExists ==
  ASSUME NEW v, NEW n \in Nat, \A i \in 1..n : v[i] \in Nat
  PROVE  \E f : IsSum(f, v, n) /\ f \in [0..n -> Nat]
<1> DEFINE S == {k \in Nat : k <= n => \E f : IsSum(f, v, k) /\ f \in [0..k -> Nat]}
<1>1. 0 \in S
  <2> DEFINE f == [i \in 0..0 |-> 0]
  <2>1. f \in [0..0 -> Nat] /\ IsSum(f, v, 0)
    BY DEF IsSum
  <2> QED
    BY <2>1
<1>2. ASSUME NEW k \in Nat, k \in S
      PROVE  k + 1 \in S
  <2> SUFFICES ASSUME k + 1 <= n
               PROVE  \E f : IsSum(f, v, k + 1) /\ f \in [0..(k + 1) -> Nat]
    OBVIOUS
  <2>1. PICK f : IsSum(f, v, k) /\ f \in [0..k -> Nat]
    BY <1>2
  <2> DEFINE g == [i \in 0..(k + 1) |-> IF i = k + 1 THEN f[k] + v[i] ELSE f[i]]
  <2>2. g \in [0..(k + 1) -> Nat]
    BY <2>1
  <2>3. ASSUME NEW i \in 0..(k + 1)
        PROVE  g[i] = IF i = 0 THEN 0 ELSE g[i - 1] + v[i]
    <3>1. CASE i = k + 1
      BY <3>1
    <3>2. CASE i \in 0..k
      <4>1. f[i] = IF i = 0 THEN 0 ELSE f[i - 1] + v[i]
        BY <2>1, <3>2 DEF IsSum
      <4>2. i # 0 => g[i - 1] = f[i - 1]
        BY <3>2
      <4>3. g[i] = f[i]
        BY <3>2
      <4> HIDE DEF g
      <4> QED
        BY <4>1, <4>2, <4>3
    <3> QED
      BY <3>1, <3>2
  <2> HIDE DEF g
  <2>4. IsSum(g, v, k + 1)
    BY <2>2, <2>3 DEF IsSum
  <2> QED
    BY <2>2, <2>4
<1>3. Nat \subseteq S
  <2> HIDE DEF S
  <2> QED
    BY <1>1, <1>2, SetInduction
<1> QED
  BY <1>3

LEMMA SumsAddUp ==
  ASSUME NEW m \in Seq(Message), NEW size \in {"est", "real"}
  PROVE  /\ Sums(m, size) \in [0..Len(m) -> Nat]
         /\ Sums(m, size)[0] = 0
         /\ \A i \in 1..Len(m) : Sums(m, size)[i] = Sums(m, size)[i - 1] + m[i][size]
<1> DEFINE v == [i \in 1..Len(m) |-> m[i][size]]
           s == Sums(m, size)
<1>1. \A i \in 1..Len(m) : v[i] \in Nat /\ v[i] = m[i][size]
  <2>1. ASSUME NEW i \in 1..Len(m)
        PROVE  m[i][size] \in Nat
    <3>1. m[i] \in Message
      OBVIOUS
    <3>2. m[i]["est"] \in Nat /\ m[i]["real"] \in Nat
      BY <3>1 DEF Message
    <3> HIDE DEF v
    <3> QED
      BY <3>2
  <2> QED
    BY <2>1
<1>2. Len(m) \in Nat
  OBVIOUS
<1> HIDE DEF v
<1>3. PICK f : IsSum(f, v, Len(m)) /\ f \in [0..Len(m) -> Nat]
  BY <1>1, <1>2, SumExists
<1>4. f = [n \in 0..Len(m) |-> IF n = 0 THEN 0 ELSE f[n - 1] + m[n][size]]
  <2>1. ASSUME NEW n \in 0..Len(m)
        PROVE  f[n] = IF n = 0 THEN 0 ELSE f[n - 1] + m[n][size]
    <3>1. f[n] = IF n = 0 THEN 0 ELSE f[n - 1] + v[n]
      BY <1>3 DEF IsSum
    <3>2. n # 0 => v[n] = m[n][size]
      BY <1>1, <1>2
    <3> QED
      BY <3>1, <3>2, Zenon
  <2> QED
    BY <1>3, <2>1
<1>5. s = [n \in 0..Len(m) |-> IF n = 0 THEN 0 ELSE s[n - 1] + m[n][size]]
  BY <1>4, Zenon DEF Sums
<1> HIDE DEF s
<1>6. \A n \in 0..Len(m) : s[n] = IF n = 0 THEN 0 ELSE s[n - 1] + m[n][size]
  BY <1>5, Zenon
<1> DEFINE S == {n \in Nat : n <= Len(m) => s[n] \in Nat}
<1>7. 0 \in S
  BY <1>2, <1>6
<1>8. ASSUME NEW n \in Nat, n \in S
      PROVE  n + 1 \in S
  <2>1. ASSUME n + 1 <= Len(m)
        PROVE  s[n + 1] \in Nat
    <3>1. s[n + 1] = s[n] + m[n + 1][size]
      BY <1>2, <1>6, <2>1
    <3>2. m[n + 1][size] \in Nat
      BY <1>1, <2>1
    <3> QED
      BY <1>8, <2>1, <3>1, <3>2
  <2> QED
    BY <2>1
<1>9. Nat \subseteq S
  <2> HIDE DEF S
  <2> QED
    BY <1>7, <1>8, SetInduction
<1>10. \A n \in 0..Len(m) : s[n] \in Nat
  BY <1>9
<1>11. s \in [0..Len(m) -> Nat]
  <2>1. s = [n \in 0..Len(m) |-> s[n]]
    BY <1>5
  <2> QED
    BY <1>10, <2>1
<1> QED
  BY <1>2, <1>6, <1>11 DEF s

(* Runs of equal messages have equal sizes.                                *)
SameRun(a, p, b, k, n) ==
  /\ p + n <= Len(a) /\ k + n <= Len(b)
  /\ \A j \in 1..n : a[p + j] = b[k + j]

LEMMA SumsOfRuns ==
  ASSUME NEW a \in Seq(Message), NEW b \in Seq(Message),
         NEW p \in Nat, NEW k \in Nat, NEW n \in Nat, SameRun(a, p, b, k, n)
  PROVE  Sums(a, "real")[p + n] - Sums(a, "real")[p] = Sums(b, "real")[k + n] - Sums(b, "real")[k]
<1> DEFINE A == Sums(a, "real")
           B == Sums(b, "real")
           S == {j \in Nat : j <= n => A[p + j] - A[p] = B[k + j] - B[k]}
<1>1. Len(a) \in Nat /\ Len(b) \in Nat
  OBVIOUS
<1>0. /\ p + n <= Len(a) /\ k + n <= Len(b)
      /\ \A j \in 1..n : a[p + j] = b[k + j]
  BY DEF SameRun
<1>2. /\ \A i \in 0..Len(a) : A[i] \in Nat
      /\ \A i \in 1..Len(a) : A[i] = A[i - 1] + a[i].real
      /\ \A i \in 0..Len(b) : B[i] \in Nat
      /\ \A i \in 1..Len(b) : B[i] = B[i - 1] + b[i].real
  BY SumsAddUp
<1> HIDE DEF A, B
<1>3. 0 \in S
  <2>1. p + 0 = p /\ k + 0 = k /\ p \in 0..Len(a) /\ k \in 0..Len(b)
    BY <1>0, <1>1
  <2>2. A[p] \in Nat /\ B[k] \in Nat
    BY <1>2, <2>1, Zenon
  <2>3. A[p + 0] - A[p] = B[k + 0] - B[k]
    BY <2>1, <2>2
  <2> QED
    BY <2>3
<1>4. ASSUME NEW j \in Nat, j \in S
      PROVE  j + 1 \in S
  <2> SUFFICES ASSUME j + 1 <= n
               PROVE  A[p + (j + 1)] - A[p] = B[k + (j + 1)] - B[k]
    OBVIOUS
  <2>1. A[p + j] - A[p] = B[k + j] - B[k]
    BY <1>4
  <2>2. a[p + (j + 1)] = b[k + (j + 1)]
    BY <1>0
  <2>3. /\ p + (j + 1) \in 1..Len(a) /\ (p + (j + 1)) - 1 = p + j
        /\ k + (j + 1) \in 1..Len(b) /\ (k + (j + 1)) - 1 = k + j
        /\ p \in 0..Len(a) /\ k \in 0..Len(b)
        /\ p + j \in 0..Len(a) /\ k + j \in 0..Len(b)
        /\ p + (j + 1) \in 0..Len(a) /\ k + (j + 1) \in 0..Len(b)
    BY <1>0, <1>1
  <2> DEFINE x  == a[p + (j + 1)].real
             a1 == A[p + (j + 1)]
             a0 == A[p + j]
             b1 == B[k + (j + 1)]
             b0 == B[k + j]
             az == A[p]
             bz == B[k]
  <2>4. a1 = a0 + x /\ b1 = b0 + x
    BY <1>2, <2>2, <2>3
  <2>5. A[p] \in Nat /\ B[k] \in Nat /\ a0 \in Nat /\ b0 \in Nat /\ a1 \in Nat /\ b1 \in Nat
    BY <1>2, <2>3, Zenon
  <2>6. x \in Int
    <3>1. a[p + (j + 1)] \in Message
      BY <2>3
    <3> QED
      BY <3>1 DEF Message
  <2>7. a0 - az = b0 - bz
    BY <2>1
  <2>8. az \in Int /\ bz \in Int /\ a0 \in Int /\ b0 \in Int
    BY <2>5
  <2> HIDE DEF x, a1, a0, b1, b0, az, bz
  <2>9. (a0 + x) - az = (b0 + x) - bz
    BY <2>6, <2>7, <2>8
  <2>10. a1 - az = b1 - bz
    BY <2>4, <2>9, Zenon
  <2> QED
    BY <2>10, Zenon DEF a1, b1, az, bz
<1>5. Nat \subseteq S
  <2> HIDE DEF S
  <2> QED
    BY <1>3, <1>4, SetInduction
<1> QED
  BY <1>5 DEF A, B

(* If no message is estimated too low, no run of them is.                  *)
LEMMA SumsAreEstimated ==
  ASSUME NEW m \in Seq(Message), \A i \in DOMAIN m : m[i].est >= m[i].real,
         NEW p \in Nat, NEW n \in Nat, p + n <= Len(m)
  PROVE  Sums(m, "real")[p + n] - Sums(m, "real")[p] <= Sums(m, "est")[p + n] - Sums(m, "est")[p]
<1> DEFINE R == Sums(m, "real")
           E == Sums(m, "est")
           S == {j \in Nat : j <= n => R[p + j] - R[p] <= E[p + j] - E[p]}
<1>1. Len(m) \in Nat /\ DOMAIN m = 1..Len(m)
  OBVIOUS
<1>2. /\ \A i \in 0..Len(m) : R[i] \in Nat /\ E[i] \in Nat
      /\ \A i \in 1..Len(m) : R[i] = R[i - 1] + m[i].real
      /\ \A i \in 1..Len(m) : E[i] = E[i - 1] + m[i].est
  BY SumsAddUp
<1> HIDE DEF R, E
<1>3. 0 \in S
  <2>1. p + 0 = p /\ p \in 0..Len(m)
    BY <1>1
  <2>2. R[p] \in Nat /\ E[p] \in Nat
    BY <1>2, <2>1, Zenon
  <2>3. R[p + 0] - R[p] <= E[p + 0] - E[p]
    BY <2>1, <2>2
  <2> QED
    BY <2>3
<1>4. ASSUME NEW j \in Nat, j \in S
      PROVE  j + 1 \in S
  <2> SUFFICES ASSUME j + 1 <= n
               PROVE  R[p + (j + 1)] - R[p] <= E[p + (j + 1)] - E[p]
    OBVIOUS
  <2>1. R[p + j] - R[p] <= E[p + j] - E[p]
    BY <1>4
  <2>2. /\ p + (j + 1) \in 1..Len(m) /\ (p + (j + 1)) - 1 = p + j
        /\ p \in 0..Len(m) /\ p + j \in 0..Len(m) /\ p + (j + 1) \in 0..Len(m)
    BY <1>1
  <2> DEFINE msg == m[p + (j + 1)]
             r1  == R[p + (j + 1)]
             r0  == R[p + j]
             e1  == E[p + (j + 1)]
             e0  == E[p + j]
             rz  == R[p]
             ez  == E[p]
  <2>3. r1 = r0 + msg.real /\ e1 = e0 + msg.est
    BY <1>2, <2>2
  <2>4. R[p] \in Nat /\ E[p] \in Nat /\ r0 \in Nat /\ e0 \in Nat
    BY <1>2, <2>2, Zenon
  <2>5. msg \in Message /\ msg.est >= msg.real
    BY <1>1, <2>2
  <2>6. r0 - rz <= e0 - ez
    BY <2>1
  <2>7. rz \in Int /\ ez \in Int /\ r0 \in Int /\ e0 \in Int
    BY <2>4
  <2> HIDE DEF msg, r1, r0, e1, e0, rz, ez
  <2>8. msg.real \in Int /\ msg.est \in Int
    BY <2>5 DEF Message
  <2>9. (r0 + msg.real) - rz <= (e0 + msg.est) - ez
    BY <2>5, <2>6, <2>7, <2>8
  <2>10. r1 - rz <= e1 - ez
    BY <2>3, <2>9, Zenon
  <2> QED
    BY <2>10, Zenon DEF r1, e1, rz, ez
<1>5. Nat \subseteq S
  <2> HIDE DEF S
  <2> QED
    BY <1>3, <1>4, SetInduction
<1> QED
  BY <1>5 DEF R, E

(* The prompt of a trimmed conversation: the leading block, the marker, and*)
(* what follows the cut.                                                   *)
LEMMA TrimmedSize ==
  ASSUME NEW m \in Seq(Message), NEW c \in Cuts(m)
  PROVE  PromptTokens(Trimmed(m, c))
           = Sums(m, "real")[KeepHead(m)] + MarkerSize.real
             + (Sums(m, "real")[Len(m)] - Sums(m, "real")[c])
<1> DEFINE t == Trimmed(m, c)
           h == KeepHead(m)
           R == Sums(m, "real")
           T == Sums(t, "real")
<1>1. Len(m) \in Nat /\ h \in 0..Len(m) /\ c \in (h + 1)..(Len(m) - 1)
  BY HeadIs, CutIs
<1>2. /\ t \in Seq(Message)
      /\ Len(t) = h + 1 + Len(m) - c
      /\ \A i \in 1..h : t[i] = m[i]
      /\ t[h + 1] = Marker
      /\ \A j \in 1..(Len(m) - c) : t[h + 1 + j] = m[c + j]
  BY TrimmedIs
<1> HIDE DEF t, h
<1>3. /\ R[0] = 0 /\ T[0] = 0
      /\ \A i \in 0..Len(m) : R[i] \in Nat
      /\ \A i \in 0..Len(t) : T[i] \in Nat
      /\ \A i \in 1..Len(t) : T[i] = T[i - 1] + t[i].real
  BY <1>2, SumsAddUp
<1>run. ASSUME NEW p \in Nat, NEW k \in Nat, NEW n \in Nat, p + n <= Len(t), k + n <= Len(m),
               \A j \in 1..n : t[p + j] = m[k + j]
        PROVE  T[p + n] - T[p] = R[k + n] - R[k]
  <2>1. SameRun(t, p, m, k, n)
    BY <1>run DEF SameRun
  <2>2. t \in Seq(Message)
    BY <1>2
  <2> QED
    BY <2>1, <2>2, SumsOfRuns
<1> HIDE DEF R, T
<1>4. T[0 + h] - T[0] = R[0 + h] - R[0]
  <2>1. 0 + h <= Len(t) /\ 0 + h <= Len(m) /\ h \in Nat
    BY <1>1, <1>2
  <2>2. \A j \in 1..h : t[0 + j] = m[0 + j]
    BY <1>1, <1>2
  <2> QED
    BY <2>1, <2>2, <1>run
<1>5. T[h + 1] = T[h] + MarkerSize.real
  <2>1. h + 1 \in 1..Len(t) /\ (h + 1) - 1 = h
    BY <1>1, <1>2
  <2>2. t[h + 1].real = MarkerSize.real
    BY <1>2 DEF Marker
  <2> QED
    BY <1>3, <2>1, <2>2
<1>6. T[(h + 1) + (Len(m) - c)] - T[h + 1] = R[c + (Len(m) - c)] - R[c]
  <2>1. /\ h + 1 \in Nat /\ c \in Nat /\ Len(m) - c \in Nat
        /\ (h + 1) + (Len(m) - c) <= Len(t) /\ c + (Len(m) - c) <= Len(m)
    BY <1>1, <1>2
  <2>2. \A j \in 1..(Len(m) - c) : t[(h + 1) + j] = m[c + j]
    BY <1>2
  <2> QED
    BY <2>1, <2>2, <1>run
<1>7. PromptTokens(t) = T[(h + 1) + (Len(m) - c)]
  <2>1. Len(t) = (h + 1) + (Len(m) - c)
    BY <1>1, <1>2
  <2> QED
    BY <2>1 DEF PromptTokens, Total, T
<1>8. /\ T[0 + h] = T[h] /\ R[0 + h] = R[h] /\ R[c + (Len(m) - c)] = R[Len(m)]
  BY <1>1
<1>9. /\ T[h] \in Int /\ T[h + 1] \in Int /\ R[h] \in Int /\ R[Len(m)] \in Int /\ R[c] \in Int
      /\ T[(h + 1) + (Len(m) - c)] \in Int /\ MarkerSize.real \in Int
  <2>1. /\ h \in 0..Len(t) /\ h + 1 \in 0..Len(t) /\ (h + 1) + (Len(m) - c) \in 0..Len(t)
        /\ h \in 0..Len(m) /\ c \in 0..Len(m) /\ Len(m) \in 0..Len(m)
    BY <1>1, <1>2
  <2> QED
    BY <1>3, <2>1, TrimAssumption
<1> HIDE DEF R, T
<1> QED
  BY <1>3, <1>4, <1>5, <1>6, <1>7, <1>8, <1>9 DEF t, h, R

(* One trim makes room, or leaves nothing to drop: what is left of the     *)
(* last cut would have been cut, too.                                      *)
LEMMA TrimMakesRoom ==
  ASSUME TrimTypeOK, Retries, \A i \in DOMAIN body : body[i].est >= body[i].real
  PROVE  \/ PromptTokens(body') + Margin <= Context + MarkerSize.real
         \/ Cuts(body') = {}
<1> DEFINE h == KeepHead(body)
           R == Sums(body, "real")
           E == Sums(body, "est")
           L == Len(body)
<1>1. body \in Seq(Message) /\ L \in Nat /\ asked \in Nat /\ h \in 0..L
  BY TrimAssumption, HeadIs DEF TrimTypeOK
<1>2. Context \in Int /\ MarkerSize.real \in Int
  BY TrimAssumption
<1>3. Margin \in Int
  <2> DEFINE other == IF asked > 0 THEN asked ELSE DefaultMargin
  <2>1. other \in Nat /\ MarginFloor \in Nat
    BY <1>1, TrimAssumption
  <2> HIDE DEF other
  <2>2. Max({MarginFloor, other}) \in {MarginFloor, other}
    <3>1. {MarginFloor, other} \in SUBSET Nat /\ {MarginFloor, other} # {}
      BY <2>1
    <3>2. MarginFloor + other \in Nat /\ \A x \in {MarginFloor, other} : x <= MarginFloor + other
      BY <2>1
    <3> QED
      BY <3>1, <3>2, MaxIsIn
  <2>3. Margin \in {MarginFloor, other}
    BY <2>2 DEF Margin, other
  <2> QED
    BY <2>1, <2>3
<1>4. PICK n \in Needed(body) : body' = Trimmed(body, CutAt(body, n))
  BY DEF Retries
<1> DEFINE c == CutAt(body, n)
<1>5. /\ c \in Cuts(body)
      /\ Dropped(body, c) >= n \/ \A k \in Cuts(body) : c >= k
  BY <1>1, CutIsACut DEF Retries, CanTrim
<1> HIDE DEF c
<1>6. c \in (h + 1)..(L - 1) /\ StartsGroup(body, c + 1)
  BY <1>1, <1>5, CutIs
<1>7. body' = Trimmed(body, c)
  BY <1>4 DEF c
<1>8. \A i \in 0..L : R[i] \in Nat /\ E[i] \in Nat
  BY <1>1, SumsAddUp
<1>9. CASE Dropped(body, c) >= n
  <2>1. Dropped(body, c) = E[c] - E[h]
    BY DEF Dropped
  <2>2. n \in Int /\ n >= E[L] + Margin - Context
    <3> DEFINE count == Max({PromptTokens(body), Total(body, "est")})
    <3>1. PromptTokens(body) = R[L] /\ Total(body, "est") = E[L]
      BY DEF PromptTokens, Total
    <3>2. R[L] \in Nat /\ E[L] \in Nat
      BY <1>1, <1>8
    <3>3. count \in {R[L], E[L]} /\ count >= E[L]
      <4> HIDE DEF R, E
      <4>1. {R[L], E[L]} \in SUBSET Nat /\ {R[L], E[L]} # {}
        BY <3>2
      <4>2. R[L] + E[L] \in Nat /\ \A x \in {R[L], E[L]} : x <= R[L] + E[L]
        BY <3>2
      <4>3. Max({R[L], E[L]}) \in {R[L], E[L]} /\ \A x \in {R[L], E[L]} : Max({R[L], E[L]}) >= x
        BY <4>1, <4>2, MaxIsIn
      <4> QED
        BY <3>1, <4>3
    <3>4. n = count + Margin - Context
      BY <1>4 DEF Needed, ExcessOf
    <3> HIDE DEF count, R, E
    <3> QED
      BY <1>2, <1>3, <3>2, <3>3, <3>4
  <2>3. PromptTokens(body') = R[h] + MarkerSize.real + (R[L] - R[c])
    BY <1>1, <1>5, <1>7, TrimmedSize
  <2>4. R[0 + h] - R[0] <= E[0 + h] - E[0]
    <3>1. 0 + h <= Len(body) /\ h \in Nat
      BY <1>1
    <3> QED
      BY <1>1, <3>1, SumsAreEstimated
  <2>5. R[c + (L - c)] - R[c] <= E[c + (L - c)] - E[c]
    <3>1. c \in Nat /\ L - c \in Nat /\ c + (L - c) <= Len(body)
      BY <1>1, <1>6
    <3> QED
      BY <1>1, <3>1, SumsAreEstimated
  <2>6. R[0] = 0 /\ E[0] = 0
    BY <1>1, SumsAddUp
  <2>7. 0 + h = h /\ c + (L - c) = L
    BY <1>1, <1>6
  <2>8. /\ R[h] \in Int /\ R[L] \in Int /\ R[c] \in Int
        /\ E[h] \in Int /\ E[L] \in Int /\ E[c] \in Int /\ n \in Int
    <3>1. h \in 0..L /\ L \in 0..L /\ c \in 0..L
      BY <1>1, <1>6
    <3> QED
      BY <1>8, <2>2, <3>1
  <2> HIDE DEF R, E, h, L
  <2> QED
    BY <1>2, <1>3, <1>9, <2>1, <2>2, <2>3, <2>4, <2>5, <2>6, <2>7, <2>8
<1>10. CASE \A k \in Cuts(body) : c >= k
  <2> DEFINE t == Trimmed(body, c)
  <2> SUFFICES ASSUME NEW k \in Cuts(t) PROVE FALSE
    BY <1>7
  <2>1. /\ t \in Seq(Message)
        /\ Len(t) = h + 1 + L - c
        /\ \A i \in 1..h : t[i] = body[i]
        /\ t[h + 1] = Marker
        /\ \A j \in 1..(L - c) : t[h + 1 + j] = body[c + j]
    BY <1>1, <1>5, TrimmedIs
  <2> HIDE DEF t
  <2>2. k \in (KeepHead(t) + 1)..(Len(t) - 1) /\ StartsGroup(t, k + 1) /\ KeepHead(t) \in Nat
    BY <2>1, CutIs, HeadIs
  <2>3. h + 1 <= KeepHead(t)
    <3>1. \A i \in 1..h : body[i].role = "system"
      BY <1>1, HeadIs
    <3>2. ASSUME NEW i \in 1..(h + 1)
          PROVE  t[i].role = "system"
      <4>1. CASE i = h + 1
        BY <2>1, <4>1 DEF Marker
      <4>2. CASE i \in 1..h
        BY <2>1, <3>1, <4>2
      <4> QED
        BY <1>1, <4>1, <4>2
    <3>3. h + 1 \in 0..(Len(t) - 1)
      BY <1>1, <1>6, <2>1
    <3> HIDE DEF h
    <3> QED
      BY <2>1, <3>2, <3>3, HeadIs
  <2> DEFINE d == k - (h + 1)
  <2>4. /\ d \in Nat /\ d > 0 /\ h + 1 \in Nat /\ c \in Nat
        /\ h + 1 < Len(t) /\ c < L /\ Len(t) - (h + 1) = L - c
        /\ d < Len(t) - (h + 1) /\ (h + 1) + d + 1 = k + 1
    <3>1. /\ h \in Nat /\ L \in Nat /\ c \in Int /\ h + 1 <= c /\ c <= L - 1 /\ k \in Int
          /\ h + 1 <= k - 1 /\ k <= Len(t) - 1 /\ Len(t) = h + 1 + L - c
      BY <1>1, <1>6, <2>1, <2>2, <2>3
    <3> HIDE DEF h, L
    <3> QED
      BY <3>1
  <2> HIDE DEF d
  <2>5. \A j \in 1..(Len(t) - (h + 1)) : t[(h + 1) + j] = body[c + j]
    BY <2>1, <2>4
  <2>6. StartsGroup(t, (h + 1) + d + 1)
    BY <2>2, <2>4
  <2>7. StartsGroup(body, c + d + 1)
    <3> HIDE DEF h
    <3> QED
      BY <1>1, <1>6, <2>1, <2>4, <2>5, <2>6, GroupsCarryOver
  <2>8. c + d \in (h + 1)..(L - 1)
    BY <1>1, <1>6, <2>4
  <2>9. c + d \in Cuts(body)
    BY <2>7, <2>8 DEF Cuts
  <2> QED
    BY <1>10, <2>4, <2>9
<1> QED
  BY <1>5, <1>9, <1>10

--------------------------------------------------------------------------------
(* The theorems                                                            *)

TrimInv == TrimTypeOK /\ EndsAreKept

LEMMA TrimInvInit == TrimInit => TrimInv
<1> SUFFICES ASSUME TrimInit PROVE TrimInv
  OBVIOUS
<1>1. TrimTypeOK
  BY TrimAssumption DEF TrimInit, TrimTypeOK
<1>2. Trims = 0 /\ body = original
  BY DEF TrimInit, Trims
<1> QED
  BY <1>1, <1>2, EndsAreShape DEF TrimInv, TrimTypeOK, EndsAreKept

LEMMA TrimInvStep == TrimInv /\ [TrimNext]_trimVars => TrimInv'
<1> SUFFICES ASSUME TrimInv, [TrimNext]_trimVars PROVE TrimInv'
  OBVIOUS
<1>1. /\ asked \in Asked /\ original \in Seq(Message) /\ body \in Seq(Message)
      /\ attempt \in 0..Attempts /\ outcome \in {"none", "answer", "overflow", "error"}
      /\ Attempts \in Nat \ {0}
  BY TrimAssumption DEF TrimInv, TrimTypeOK
<1>2. \/ Trims = 0 /\ body = original
      \/ \E p, k, markers : Shape(body, original, Trims, p, k, markers)
  BY <1>1, EndsAreShape DEF TrimInv, EndsAreKept
<1>3. ASSUME TrimTypeOK', UNCHANGED <<original, body>>, Trims' = Trims
      PROVE  TrimInv'
  <2>1. EndsAreKept'
    <3>1. KeepsEnds(body', original', Trims')
      BY <1>3 DEF TrimInv, EndsAreKept
    <3> QED
      BY <3>1 DEF EndsAreKept
  <2> QED
    BY <1>3, <2>1 DEF TrimInv
<1>4. CASE Answered
  BY <1>1, <1>3, <1>4 DEF Answered, TrimTypeOK, Trims
<1>5. CASE GivesUp
  BY <1>1, <1>3, <1>5 DEF GivesUp, TrimTypeOK, Trims
<1>6. CASE Fails
  BY <1>1, <1>3, <1>6 DEF Fails, TrimTypeOK, Trims
<1>7. CASE UNCHANGED trimVars
  BY <1>1, <1>3, <1>7 DEF trimVars, TrimTypeOK, Trims
<1>8. CASE Retries
  <2>1. PICK c \in Cuts(body) : body' = Trimmed(body, c)
    <3>1. Cuts(body) # {} /\ \E n \in Needed(body) : body' = Trimmed(body, CutAt(body, n))
      BY <1>8 DEF Retries, CanTrim
    <3> QED
      BY <1>1, <3>1, CutIsACut
  <2>2. /\ outcome = "none" /\ outcome' = "none" /\ original' = original
        /\ attempt < Attempts - 1 /\ attempt' = attempt + 1
        /\ asked' = asked
    BY <1>8 DEF Retries
  <2>3. body' \in Seq(Message)
    BY <1>1, <2>1, TrimmedIs
  <2>4. TrimTypeOK'
    BY <1>1, <2>2, <2>3 DEF TrimTypeOK
  <2>5. Trims \in Nat /\ Trims' = Trims + 1
    BY <1>1, <2>2 DEF Trims
  <2>6. \E p, k, markers : Shape(body', original, Trims + 1, p, k, markers)
    <3>1. CASE Trims = 0 /\ body = original
      <4>1. Shape(body', original, 1, KeepHead(original) + 1, c, {KeepHead(original) + 1})
        BY <1>1, <2>1, <3>1, FirstTrim
      <4>2. Trims + 1 = 1
        BY <3>1
      <4> QED
        BY <4>1, <4>2
    <3>2. CASE \E p, k, markers : Shape(body, original, Trims, p, k, markers)
      <4>1. PICK p, k, markers : Shape(body, original, Trims, p, k, markers)
        BY <3>2
      <4>2. Shape(body', original, Trims + 1, KeepHead(body) + 1, k + (c - p),
                  markers \cup {KeepHead(body) + 1})
        BY <1>1, <2>1, <2>5, <4>1, NextTrim
      <4> QED
        BY <4>2
    <3> QED
      BY <1>2, <3>1, <3>2
  <2>7. EndsAreKept'
    <3>1. \E p, k, markers : Shape(body', original', Trims', p, k, markers)
      BY <2>2, <2>5, <2>6
    <3>2. KeepsEnds(body', original', Trims')
      BY <1>1, <2>2, <2>3, <3>1, EndsAreShape
    <3> QED
      BY <3>2 DEF EndsAreKept
  <2> QED
    BY <2>4, <2>7 DEF TrimInv
<1> QED
  BY <1>4, <1>5, <1>6, <1>7, <1>8 DEF TrimNext

(* The bodies that are sent are conversations, and no more attempts are    *)
(* made than _TRIM_ATTEMPTS.                                               *)
THEOREM TrimTypeCorrect == TrimSpec => []TrimTypeOK
<1>1. TrimInv => TrimTypeOK
  BY DEF TrimInv
<1> QED
  BY <1>1, TrimInvInit, TrimInvStep, PTL DEF TrimSpec

(* After any number of trims the conversation still begins with the        *)
(* original's leading system block and ends with an unbroken run of its    *)
(* newest messages, with one marker per trim between them, and no tool     *)
(* result is kept without its call.                                        *)
THEOREM EndsAreKeptAlways == TrimSpec => []EndsAreKept
<1>1. TrimInv => EndsAreKept
  BY DEF TrimInv
<1> QED
  BY <1>1, TrimInvInit, TrimInvStep, PTL DEF TrimSpec

(* A retry is worth its call: if the estimate of no message is too low, the*)
(* prompt that is sent next exceeds what was aimed at by the marker at     *)
(* most, or nothing that may be dropped is left.                           *)
THEOREM TrimIsEnoughAlways == TrimSpec => TrimIsEnough
<1>1. TrimInv /\ [TrimNext]_trimVars =>
        [body' # body /\ (\A i \in DOMAIN body : body[i].est >= body[i].real) =>
           \/ PromptTokens(body') + Margin <= Context + MarkerSize.real
           \/ Cuts(body') = {}]_trimVars
  <2> SUFFICES ASSUME TrimInv, TrimNext, body' # body,
                      \A i \in DOMAIN body : body[i].est >= body[i].real
               PROVE  \/ PromptTokens(body') + Margin <= Context + MarkerSize.real
                      \/ Cuts(body') = {}
    OBVIOUS
  <2>1. Retries
    BY DEF TrimNext, Answered, GivesUp, Fails
  <2> QED
    BY <2>1, TrimMakesRoom DEF TrimInv
<1> QED
  BY <1>1, TrimInvInit, TrimInvStep, PTL DEF TrimSpec, TrimIsEnough
================================================================================
