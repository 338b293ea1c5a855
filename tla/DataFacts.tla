----------------------------- MODULE DataFacts -----------------------------
(***************************************************************************)
(* Facts about numbers and sequences that several proofs use.              *)
(***************************************************************************)
EXTENDS Integers, Sequences, WellFoundedInduction, TLAPS

(* A non-empty set of naturals has a least element.                        *)
LEMMA LeastNatural ==
  ASSUME NEW T \in SUBSET Nat, T # {}
  PROVE  \E x \in T : \A y \in T : x <= y
<1> DEFINE R == OpToRel(<, Nat)
<1>0. IsWellFoundedOn(R, Nat)
  BY NatLessThanWellFounded
<1> HIDE DEF R
<1>1. PICK x \in T : \A y \in T : ~(<<y, x>> \in R)
  BY <1>0, WFMin
<1>2. ASSUME NEW y \in T PROVE x <= y
  <2>1. x \in Nat /\ y \in Nat /\ (y < x => <<y, x>> \in R)
    BY DEF R, OpToRel
  <2> QED BY <1>1, <2>1
<1> QED BY <1>2

(* A function on 1 .. n is a sequence.                                     *)
LEMMA FunctionIsSeq ==
  ASSUME NEW S, NEW n \in Nat, NEW f \in [1 .. n -> S]
  PROVE  f \in Seq(S) /\ Len(f) = n
OBVIOUS

(* Sequences with the same elements are the same.                          *)
LEMMA SameElements ==
  ASSUME NEW S, NEW s \in Seq(S), NEW t \in Seq(S),
         Len(s) = Len(t), \A i \in 1 .. Len(s) : s[i] = t[i]
  PROVE  s = t
OBVIOUS

(* What Append returns.                                                    *)
LEMMA AppendFacts ==
  ASSUME NEW S, NEW s \in Seq(S), NEW e \in S
  PROVE  /\ Append(s, e) \in Seq(S)
         /\ Len(Append(s, e)) = Len(s) + 1
         /\ Append(s, e)[Len(s) + 1] = e
         /\ \A i \in 1 .. Len(s) : Append(s, e)[i] = s[i]
  OBVIOUS

(* A sequence with another one behind it, element by element.              *)
LEMMA ConcatIs ==
  ASSUME NEW S, NEW a \in Seq(S), NEW b \in Seq(S)
  PROVE  /\ a \o b \in Seq(S) /\ Len(a \o b) = Len(a) + Len(b)
         /\ \A i \in 1 .. Len(a) + Len(b) :
              (a \o b)[i] = IF i <= Len(a) THEN a[i] ELSE b[i - Len(a)]
  OBVIOUS

(* The same, read from each of the two.                                    *)
LEMMA ConcatFacts ==
  ASSUME NEW S, NEW a \in Seq(S), NEW b \in Seq(S)
  PROVE  /\ a \o b \in Seq(S) /\ Len(a \o b) = Len(a) + Len(b)
         /\ Len(a) \in Nat /\ Len(b) \in Nat
         /\ \A i \in 1 .. Len(a) : a[i] \in S /\ (a \o b)[i] = a[i]
         /\ \A i \in 1 .. Len(b) : b[i] \in S /\ (a \o b)[Len(a) + i] = b[i]
<1>1. /\ a \o b \in Seq(S) /\ Len(a \o b) = Len(a) + Len(b)
      /\ \A i \in 1 .. Len(a) + Len(b) :
           (a \o b)[i] = IF i <= Len(a) THEN a[i] ELSE b[i - Len(a)]
  BY ConcatIs
<1>2. /\ Len(a) \in Nat /\ Len(b) \in Nat
      /\ \A i \in 1 .. Len(a) : a[i] \in S
      /\ \A i \in 1 .. Len(b) : b[i] \in S
  OBVIOUS
<1> DEFINE c == a \o b
<1>3. \A i \in 1 .. Len(a) + Len(b) : c[i] = IF i <= Len(a) THEN a[i] ELSE b[i - Len(a)]
  BY <1>1
<1> HIDE DEF c
<1>4. \A i \in 1 .. Len(a) : c[i] = a[i]
  BY <1>2, <1>3
<1>5. ASSUME NEW i \in 1 .. Len(b) PROVE c[Len(a) + i] = b[i]
  <2>1. Len(a) + i \in 1 .. Len(a) + Len(b) /\ ~(Len(a) + i <= Len(a)) /\ (Len(a) + i) - Len(a) = i
    BY <1>2
  <2> QED
    BY <1>3, <2>1
<1> QED
  BY <1>1, <1>2, <1>4, <1>5 DEF c

(* Removing one element: the elements behind the place move down by one.   *)
LEMMA RemoveAtFacts ==
  ASSUME NEW S, NEW s \in Seq(S), NEW p \in 1 .. Len(s)
  PROVE  LET t == SubSeq(s, 1, p - 1) \o SubSeq(s, p + 1, Len(s))
         IN /\ t \in Seq(S)
            /\ Len(t) = Len(s) - 1
            /\ \A i \in 1 .. Len(s) - 1 : t[i] = IF i < p THEN s[i] ELSE s[i + 1]
<1> DEFINE a == SubSeq(s, 1, p - 1)
           b == SubSeq(s, p + 1, Len(s))
<1>1. /\ a \in Seq(S) /\ Len(a) = p - 1
      /\ \A i \in 1 .. p - 1 : a[i] = s[i]
  OBVIOUS
<1>2. /\ b \in Seq(S) /\ Len(b) = Len(s) - p
      /\ \A i \in 1 .. Len(s) - p : b[i] = s[p + i]
  OBVIOUS
<1> HIDE DEF a, b
<1>4. /\ a \o b \in Seq(S) /\ Len(a \o b) = Len(a) + Len(b)
      /\ \A i \in 1 .. Len(a) + Len(b) :
           (a \o b)[i] = IF i <= Len(a) THEN a[i] ELSE b[i - Len(a)]
  BY <1>1, <1>2, ConcatIs
<1>5. ASSUME NEW i \in 1 .. Len(s) - 1
      PROVE  (a \o b)[i] = IF i < p THEN s[i] ELSE s[i + 1]
  <2>1. CASE i < p
    BY <1>1, <1>2, <1>4, <2>1
  <2>2. CASE i >= p
    <3>1. (a \o b)[i] = b[i - (p - 1)]
      BY <1>1, <1>2, <1>4, <2>2
    <3>2. i - (p - 1) \in 1 .. Len(s) - p /\ p + (i - (p - 1)) = i + 1
      BY <2>2
    <3>3. b[i - (p - 1)] = s[i + 1]
      BY <1>2, <3>2
    <3> QED
      BY <2>2, <3>1, <3>3
  <2>3. i < p \/ i >= p
    OBVIOUS
  <2> QED
    BY <2>1, <2>2, <2>3
<1>6. /\ a \o b \in Seq(S) /\ Len(a \o b) = Len(s) - 1
      /\ \A i \in 1 .. Len(s) - 1 : (a \o b)[i] = IF i < p THEN s[i] ELSE s[i + 1]
  BY <1>1, <1>2, <1>4, <1>5
<1> QED
  BY <1>6, Zenon DEF a, b

(* A sequence without its last element, and that element.                  *)
LEMMA FrontFacts ==
  ASSUME NEW S, NEW s \in Seq(S), s # << >>
  PROVE  LET t == SubSeq(s, 1, Len(s) - 1)
         IN /\ Len(s) \in Nat \ {0}
            /\ t \in Seq(S) /\ Len(t) = Len(s) - 1
            /\ \A i \in 1 .. Len(s) - 1 : t[i] = s[i]
            /\ s[Len(s)] \in S
<1>1. Len(s) \in Nat \ {0}
  OBVIOUS
<1>2. s[Len(s)] \in S
  BY <1>1
<1> DEFINE n == Len(s) - 1
           f == SubSeq(s, 1, n)
<1>3. n \in Nat /\ \A i \in 1 .. n : s[i] \in S
  BY <1>1
<1> HIDE DEF n
<1>4. /\ f \in Seq(S) /\ Len(f) = (IF 1 <= n THEN n - 1 + 1 ELSE 0)
      /\ \A i \in 1 .. n - 1 + 1 : f[i] = s[1 + i - 1]
  BY <1>3
<1> HIDE DEF f
<1>5. Len(f) = n /\ \A i \in 1 .. n : f[i] = s[i]
  BY <1>3, <1>4
<1> QED
  BY <1>1, <1>2, <1>4, <1>5 DEF f, n

-----------------------------------------------------------------------------
(* Wrapping an index at most once, as the audit ring and the pipe do.      *)
LEMMA WrapBelow ==
  ASSUME NEW a \in Nat, NEW c \in Nat \ {0}, a < c
  PROVE  a % c = a
OBVIOUS

(* An index that passed the end once comes back by one capacity.           *)
LEMMA WrapAbove ==
  ASSUME NEW a \in Nat, NEW c \in Nat \ {0}, c <= a, a < 2 * c
  PROVE  a % c = a - c
OBVIOUS

(* Index i of a ring that starts at h, spelled without %.                  *)
LEMMA WrapSlot ==
  ASSUME NEW c \in Nat \ {0}, NEW h \in 0 .. c - 1, NEW i \in 0 .. c
  PROVE  /\ (h + i) % c = IF h + i < c THEN h + i ELSE h + i - c
         /\ (h + i) % c \in 0 .. c - 1
<1>1. CASE h + i < c
  BY <1>1, WrapBelow
<1>2. CASE ~(h + i < c)
  <2>0. h + i \in Nat /\ c <= h + i /\ h + i < 2 * c
    BY <1>2
  <2>1. (h + i) % c = h + i - c
    BY <2>0, WrapAbove
  <2> QED
    BY <1>2, <2>1
<1> QED
  BY <1>1, <1>2

(* Different positions of the ring are different slots.                    *)
LEMMA WrapDistinct ==
  ASSUME NEW c \in Nat \ {0}, NEW h \in 0 .. c - 1,
         NEW i \in 0 .. c - 1, NEW j \in 0 .. c - 1, i # j
  PROVE  (h + i) % c # (h + j) % c
<1>1. (h + i) % c = IF h + i < c THEN h + i ELSE h + i - c
  BY WrapSlot, i \in 0 .. c
<1>2. (h + j) % c = IF h + j < c THEN h + j ELSE h + j - c
  BY WrapSlot, j \in 0 .. c
<1> QED
  BY <1>1, <1>2

(* After the head moved by one, position i is what was position i + 1, and *)
(* the last position is the slot the head left.                            *)
LEMMA WrapAdvance ==
  ASSUME NEW c \in Nat \ {0}, NEW h \in 0 .. c - 1, NEW i \in 0 .. c - 1
  PROVE  (((h + 1) % c) + i) % c = IF i = c - 1 THEN h ELSE (h + (i + 1)) % c
<1> DEFINE g == (h + 1) % c
<1>1. /\ g = IF h + 1 < c THEN h + 1 ELSE h + 1 - c
      /\ g \in 0 .. c - 1
  BY WrapSlot, 1 \in 0 .. c
<1>2. (g + i) % c = IF g + i < c THEN g + i ELSE g + i - c
  <2> HIDE DEF g
  <2>1. g \in 0 .. c - 1 /\ i \in 0 .. c
    BY <1>1
  <2> QED BY <2>1, WrapSlot
<1>3. (h + (i + 1)) % c = IF h + (i + 1) < c THEN h + (i + 1) ELSE h + (i + 1) - c
  BY WrapSlot, i + 1 \in 0 .. c
<1> HIDE DEF g
<1>4. (g + i) % c = IF i = c - 1 THEN h ELSE (h + (i + 1)) % c
  BY <1>1, <1>2, <1>3
<1> QED
  BY <1>4 DEF g

(* The distance of two counters that wrap.                                 *)
LEMMA WrapDiff ==
  ASSUME NEW c \in Nat \ {0}, NEW x \in 0 .. c - 1, NEW y \in 0 .. c - 1
  PROVE  (x - y) % c = IF y <= x THEN x - y ELSE x - y + c
  OBVIOUS

=============================================================================
