------------------------ MODULE AddressSpacesProofs ------------------------
(***************************************************************************)
(* Proofs about AddressSpaces: every frame has one owner or is free, and   *)
(* every live process finds in its memory what it put there, for any       *)
(* number of processes, any programs and any size of the machine.          *)
(***************************************************************************)
EXTENDS AddressSpaces, DataFacts, FiniteSetTheorems

(* The provers a leaf is tried with, unless it names one.                   *)
USE SMTT(30), ZenonT(30)

-----------------------------------------------------------------------------
(* What two sequences hold, one behind the other.                          *)
LEMMA ConcatRange ==
  ASSUME NEW S, NEW a \in Seq(S), NEW b \in Seq(S)
  PROVE  /\ Range(a \o b) = Range(a) \cup Range(b)
         /\ IsInjective(a \o b) <=> /\ IsInjective(a) /\ IsInjective(b)
                                    /\ Range(a) \cap Range(b) = {}
<1>1. /\ a \o b \in Seq(S) /\ Len(a \o b) = Len(a) + Len(b)
      /\ Len(a) \in Nat /\ Len(b) \in Nat
      /\ \A i \in 1 .. Len(a) : a[i] \in S /\ (a \o b)[i] = a[i]
      /\ \A i \in 1 .. Len(b) : b[i] \in S /\ (a \o b)[Len(a) + i] = b[i]
  BY ConcatFacts
<1> DEFINE c == a \o b
           m == Len(a)
           n == Len(b)
<1>2. DOMAIN a = 1 .. m /\ DOMAIN b = 1 .. n /\ DOMAIN c = 1 .. m + n /\ m \in Nat /\ n \in Nat
  BY <1>1
<1>3. \A i \in 1 .. m : c[i] = a[i]
  BY <1>1
<1>4. \A i \in 1 .. n : c[m + i] = b[i]
  BY <1>1
<1> HIDE DEF c, m, n
<1>5. \A i \in 1 .. m + n : i \in 1 .. m \/ (i - m \in 1 .. n /\ m + (i - m) = i)
  BY <1>2
<1>6. \A i \in 1 .. m : i \in 1 .. m + n
  BY <1>2
<1>7. \A i \in 1 .. n : m + i \in 1 .. m + n
  BY <1>2
<1>8. \A i \in 1 .. m + n : \/ i \in 1 .. m /\ c[i] = a[i]
                            \/ i - m \in 1 .. n /\ c[i] = b[i - m]
  BY <1>3, <1>4, <1>5
<1>9. Range(c) = Range(a) \cup Range(b)
  <2>1. ASSUME NEW x \in Range(c) PROVE x \in Range(a) \cup Range(b)
    <3>1. PICK i \in 1 .. m + n : x = c[i]
      BY <1>2, <2>1 DEF Range
    <3> QED
      BY <1>2, <1>8, <3>1, Zenon DEF Range
  <2>2. ASSUME NEW x \in Range(a) PROVE x \in Range(c)
    BY <1>2, <1>3, <1>6, <2>2 DEF Range
  <2>3. ASSUME NEW x \in Range(b) PROVE x \in Range(c)
    <3>1. PICK i \in 1 .. n : x = b[i]
      BY <1>2, <2>3 DEF Range
    <3>2. x = c[m + i] /\ m + i \in 1 .. m + n
      BY <1>4, <1>7, <3>1
    <3> QED
      BY <1>2, <3>2 DEF Range
  <2> QED
    BY <2>1, <2>2, <2>3
<1>10. ASSUME IsInjective(c)
       PROVE  IsInjective(a) /\ IsInjective(b) /\ Range(a) \cap Range(b) = {}
  <2>1. \A i, j \in 1 .. m + n : c[i] = c[j] => i = j
    BY <1>2, <1>10 DEF IsInjective
  <2>2. ASSUME NEW i \in 1 .. m, NEW j \in 1 .. m, a[i] = a[j] PROVE i = j
    BY <1>3, <1>6, <2>1, <2>2
  <2>3. ASSUME NEW i \in 1 .. n, NEW j \in 1 .. n, b[i] = b[j] PROVE i = j
    <3>1. c[m + i] = c[m + j] /\ m + i \in 1 .. m + n /\ m + j \in 1 .. m + n
      BY <1>4, <1>7, <2>3
    <3>2. m + i = m + j
      BY <2>1, <3>1
    <3> QED
      BY <1>2, <3>2
  <2>4. ASSUME NEW i \in 1 .. m, NEW j \in 1 .. n, a[i] = b[j] PROVE FALSE
    <3>1. c[i] = c[m + j] /\ i \in 1 .. m + n /\ m + j \in 1 .. m + n
      BY <1>3, <1>4, <1>6, <1>7, <2>4
    <3>2. i = m + j
      BY <2>1, <3>1
    <3> QED
      BY <1>2, <3>2
  <2> QED
    BY <1>2, <2>2, <2>3, <2>4 DEF IsInjective, Range
<1>11. ASSUME IsInjective(a), IsInjective(b), Range(a) \cap Range(b) = {}
       PROVE  IsInjective(c)
  <2>1. SUFFICES ASSUME NEW i \in 1 .. m + n, NEW j \in 1 .. m + n, c[i] = c[j]
                 PROVE  i = j
    BY <1>2 DEF IsInjective
  <2>2. /\ \A x, y \in 1 .. m : a[x] = a[y] => x = y
        /\ \A x, y \in 1 .. n : b[x] = b[y] => x = y
    BY <1>2, <1>11 DEF IsInjective
  <2>5. \A x \in 1 .. m, y \in 1 .. n : a[x] # b[y]
    BY <1>2, <1>11, Zenon DEF Range
  <2>3. \/ i \in 1 .. m /\ j \in 1 .. m /\ a[i] = a[j]
        \/ i - m \in 1 .. n /\ j - m \in 1 .. n /\ b[i - m] = b[j - m]
    BY <1>8, <2>1, <2>5
  <2>4. i = j \/ i - m = j - m
    BY <2>2, <2>3
  <2> QED
    BY <1>2, <2>4
<1> QED
  BY <1>9, <1>10, <1>11 DEF c

-----------------------------------------------------------------------------
(***************************************************************************)
(* The places of pages and tables among the allocations.                   *)
(***************************************************************************)
LEMMA TablesBeforeFacts ==
  ASSUME NEW pages \in Seq(Nat)
  PROVE  /\ TablesBefore(pages, 1) = 0
         /\ \A j \in 1 .. Len(pages) + 1 : TablesBefore(pages, j) \in Nat
         /\ \A j \in 1 .. Len(pages) : TablesBefore(pages, j + 1) =
              TablesBefore(pages, j) + (IF NewTable(pages, j) THEN 1 ELSE 0)
         /\ \A i, j \in 1 .. Len(pages) + 1 :
              i <= j => TablesBefore(pages, i) <= TablesBefore(pages, j)
<1> DEFINE T(j) == {i \in 1 .. j - 1 : NewTable(pages, i)}
<1>0. \A j : TablesBefore(pages, j) = Cardinality(T(j))
  BY DEF TablesBefore
<1>1. ASSUME NEW j \in 1 .. Len(pages) + 1
      PROVE  IsFiniteSet(T(j)) /\ Cardinality(T(j)) \in Nat
  <2>1. IsFiniteSet(1 .. j - 1)
    BY FS_Interval, j \in Int, 1 \in Int
  <2> QED
    BY <2>1, FS_Subset, FS_CardinalityType
<1>2. T(1) = {}
  OBVIOUS
<1>3. ASSUME NEW j \in 1 .. Len(pages)
      PROVE  Cardinality(T(j + 1)) = Cardinality(T(j)) + (IF NewTable(pages, j) THEN 1 ELSE 0)
  <2>1. j \in 1 .. Len(pages) + 1 /\ j \notin 1 .. j - 1 /\ 1 .. (j + 1) - 1 = (1 .. j - 1) \cup {j}
    OBVIOUS
  <2>2. T(j + 1) = IF NewTable(pages, j) THEN T(j) \cup {j} ELSE T(j)
    BY <2>1
  <2>3. IsFiniteSet(T(j)) /\ Cardinality(T(j)) \in Nat /\ j \notin T(j)
    BY <1>1, <2>1
  <2> HIDE DEF T
  <2>4. Cardinality(T(j) \cup {j}) = Cardinality(T(j)) + 1
    BY <2>3, FS_AddElement, Zenon
  <2> QED
    BY <2>2, <2>3, <2>4
<1>4. ASSUME NEW i \in 1 .. Len(pages) + 1, NEW j \in 1 .. Len(pages) + 1, i <= j
      PROVE  Cardinality(T(i)) <= Cardinality(T(j))
  <2>1. T(i) \in SUBSET T(j)
    BY <1>4
  <2>2. IsFiniteSet(T(j))
    BY <1>1
  <2> HIDE DEF T
  <2> QED
    BY <2>1, <2>2, FS_Subset
<1> HIDE DEF T
<1> QED
  BY <1>0, <1>1, <1>2, <1>3, <1>4, FS_EmptySet

(* A page follows the pages before it and their tables.                    *)
LEMMA PageAtFacts ==
  ASSUME NEW pages \in Seq(Nat)
  PROVE  /\ PageAt(pages, 1) = 3
         /\ \A j \in 1 .. Len(pages) + 1 : PageAt(pages, j) \in Nat
         /\ \A j \in 1 .. Len(pages) : PageAt(pages, j + 1) =
              PageAt(pages, j) + (IF NewTable(pages, j) THEN 2 ELSE 1)
         /\ \A i, j \in 1 .. Len(pages) + 1 : i < j =>
              PageAt(pages, i) + (IF NewTable(pages, i) THEN 2 ELSE 1) <= PageAt(pages, j)
         /\ Needed(pages) \in Nat
         /\ Needed(pages) - Len(pages) = 2 + TablesBefore(pages, Len(pages) + 1)
<1> DEFINE t(j) == TablesBefore(pages, j)
           P(j) == PageAt(pages, j)
           n == Len(pages)
<1>0. \A j : P(j) = 2 + j + t(j)
  BY DEF PageAt
<1>1. /\ t(1) = 0
      /\ \A j \in 1 .. n + 1 : t(j) \in Nat
      /\ \A j \in 1 .. n : t(j + 1) = t(j) + (IF NewTable(pages, j) THEN 1 ELSE 0)
      /\ \A i, j \in 1 .. n + 1 : i <= j => t(i) <= t(j)
  BY TablesBeforeFacts
<1>2. n \in Nat /\ Needed(pages) = P(n + 1) - 1
  BY DEF Needed
<1> HIDE DEF t, P, n
<1>3. P(1) = 3
  BY <1>0, <1>1
<1>4. \A j \in 1 .. n + 1 : P(j) \in Nat
  BY <1>0, <1>1
<1>5. ASSUME NEW j \in 1 .. n
      PROVE  P(j + 1) = P(j) + (IF NewTable(pages, j) THEN 2 ELSE 1)
  <2>1. j \in 1 .. n + 1 /\ t(j) \in Nat
    BY <1>1, <1>2
  <2>2. P(j) = 2 + j + t(j) /\ P(j + 1) = 2 + (j + 1) + t(j + 1)
    BY <1>0
  <2>3. t(j + 1) = t(j) + (IF NewTable(pages, j) THEN 1 ELSE 0)
    BY <1>1
  <2> QED
    BY <2>1, <2>2, <2>3
<1>6. ASSUME NEW i \in 1 .. n + 1, NEW j \in 1 .. n + 1, i < j
      PROVE  P(i) + (IF NewTable(pages, i) THEN 2 ELSE 1) <= P(j)
  <2>1. i \in 1 .. n /\ i + 1 \in 1 .. n + 1 /\ i + 1 <= j /\ i \in Nat /\ j \in Nat
    BY <1>2, <1>6
  <2>2. t(i) + (IF NewTable(pages, i) THEN 1 ELSE 0) <= t(j) /\ t(i) \in Nat /\ t(j) \in Nat
    BY <1>1, <2>1
  <2> QED
    BY <1>0, <2>1, <2>2, SMTT(30)
<1>7. Needed(pages) \in Nat /\ Needed(pages) - n = 2 + t(n + 1)
  <2>1. n + 1 \in 1 .. n + 1 /\ t(n + 1) \in Nat /\ P(n + 1) = 2 + (n + 1) + t(n + 1)
    BY <1>0, <1>1, <1>2
  <2> QED
    BY <1>2, <2>1
<1> QED
  BY <1>3, <1>4, <1>5, <1>6, <1>7 DEF t, P, n

(* The k-th table has a page that created it, and only that one.           *)
LEMMA TableAtFacts ==
  ASSUME NEW pages \in Seq(Nat)
  PROVE  /\ \A k \in 3 .. Needed(pages) - Len(pages) : \E j \in DOMAIN pages :
              /\ NewTable(pages, j) /\ TablesBefore(pages, j) = k - 3
              /\ TableAt(pages, k) = PageAt(pages, j) + 1
         /\ \A j \in DOMAIN pages : NewTable(pages, j) =>
              /\ TablesBefore(pages, j) + 3 \in 3 .. Needed(pages) - Len(pages)
              /\ TableAt(pages, TablesBefore(pages, j) + 3) = PageAt(pages, j) + 1
<1> DEFINE t(j) == TablesBefore(pages, j)
           New(j) == NewTable(pages, j)
           n == Len(pages)
           last == Needed(pages) - Len(pages)
<1>1. /\ t(1) = 0
      /\ \A j \in 1 .. n + 1 : t(j) \in Nat
      /\ \A j \in 1 .. n : t(j + 1) = t(j) + (IF New(j) THEN 1 ELSE 0)
      /\ \A i, j \in 1 .. n + 1 : i <= j => t(i) <= t(j)
  BY TablesBeforeFacts
<1>2. n \in Nat /\ DOMAIN pages = 1 .. n /\ last = 2 + t(n + 1)
  BY PageAtFacts
<1>3. \A j \in 1 .. n : PageAt(pages, j) \in Nat
  BY PageAtFacts
<1>4. \A k \in Nat : k > 2 => TableAt(pages, k) =
        1 + PageAt(pages, CHOOSE j \in DOMAIN pages : New(j) /\ t(j) = k - 3)
  BY DEF TableAt
<1> HIDE DEF t, New, n, last
<1>5. ASSUME NEW k \in 3 .. last
      PROVE  \E j \in DOMAIN pages : New(j) /\ t(j) = k - 3
  <2> DEFINE U == {j \in 1 .. n + 1 : t(j) > k - 3}
  <2>1. n + 1 \in U /\ U \in SUBSET Nat
    BY <1>1, <1>2
  <2>2. PICK j \in U : \A i \in U : j <= i
    BY <2>1, LeastNatural, Zenon
  <2>3. j \in 1 .. n + 1 /\ t(j) > k - 3 /\ t(j) \in Nat
    BY <1>1
  <2>4. j # 1 /\ j - 1 \in 1 .. n /\ j - 1 \in 1 .. n + 1 /\ (j - 1) + 1 = j
    BY <1>1, <1>2, <2>3
  <2>5. ~(t(j - 1) > k - 3) /\ t(j - 1) \in Nat
    BY <1>1, <2>2, <2>4
  <2>6. t(j) = t(j - 1) + (IF New(j - 1) THEN 1 ELSE 0)
    BY <1>1, <2>4
  <2>7. New(j - 1) /\ t(j - 1) = k - 3
    BY <2>3, <2>5, <2>6
  <2> QED
    BY <1>2, <2>4, <2>7, Zenon
<1>6. ASSUME NEW k \in 3 .. last
      PROVE  \E j \in DOMAIN pages : New(j) /\ t(j) = k - 3 /\ TableAt(pages, k) = PageAt(pages, j) + 1
  <2> DEFINE j == CHOOSE j \in DOMAIN pages : New(j) /\ t(j) = k - 3
  <2>1. j \in DOMAIN pages /\ New(j) /\ t(j) = k - 3
    BY <1>5
  <2>0. k \in Nat /\ k > 2
    OBVIOUS
  <2>2. TableAt(pages, k) = 1 + PageAt(pages, j)
    BY <1>4, <2>0, Zenon
  <2> HIDE DEF j
  <2>3. PageAt(pages, j) \in Nat
    BY <1>2, <1>3, <2>1
  <2>4. TableAt(pages, k) = PageAt(pages, j) + 1
    BY <2>2, <2>3
  <2> QED
    BY <2>1, <2>4
<1>7. ASSUME NEW i \in 1 .. n, NEW j \in 1 .. n, New(i), New(j), t(i) = t(j) PROVE i = j
  <2>1. ASSUME NEW x \in 1 .. n, NEW y \in 1 .. n, x < y, New(x) PROVE t(x) < t(y)
    <3>1. x + 1 <= y /\ x + 1 \in 1 .. n + 1 /\ y \in 1 .. n + 1 /\ x \in 1 .. n + 1
      BY <1>2, <2>1
    <3>2. t(x + 1) <= t(y) /\ t(x + 1) = t(x) + 1 /\ t(x) \in Nat /\ t(y) \in Nat
      BY <1>1, <2>1, <3>1
    <3> QED
      BY <3>2
  <2>2. i \in Nat /\ j \in Nat /\ t(i) \in Nat
    BY <1>1, <1>2
  <2> QED
    BY <1>7, <2>1, <2>2
<1>8. ASSUME NEW j \in DOMAIN pages, New(j)
      PROVE  t(j) + 3 \in 3 .. last /\ TableAt(pages, t(j) + 3) = PageAt(pages, j) + 1
  <2>1. j \in 1 .. n /\ j \in 1 .. n + 1 /\ j + 1 \in 1 .. n + 1 /\ n + 1 \in 1 .. n + 1 /\ j + 1 <= n + 1
    BY <1>2
  <2>2. t(j + 1) <= t(n + 1) /\ t(j + 1) = t(j) + 1 /\ t(j) \in Nat /\ t(n + 1) \in Nat
    BY <1>1, <1>8, <2>1
  <2>3. t(j) + 3 \in 3 .. last /\ (t(j) + 3) - 3 = t(j)
    BY <1>2, <2>2, SMTT(30)
  <2>4. PICK i \in DOMAIN pages : New(i) /\ t(i) = (t(j) + 3) - 3 /\ TableAt(pages, t(j) + 3) = PageAt(pages, i) + 1
    BY <1>6, <2>3
  <2>5. i = j
    BY <1>2, <1>7, <1>8, <2>1, <2>3, <2>4
  <2> QED
    BY <2>3, <2>4, <2>5
<1> QED
  BY <1>6, <1>8 DEF t, New, n, last

(* The tables and the pages take the allocations apart: each allocation is *)
(* for exactly one of them.                                                *)
LEMMA Places ==
  ASSUME NEW pages \in Seq(Nat)
  PROVE  LET N == Needed(pages)
             n == Len(pages)
         IN  /\ N \in Nat /\ N - n \in Nat
             /\ \A k \in 1 .. N - n : TableAt(pages, k) \in 1 .. N
             /\ \A j \in 1 .. n : PageAt(pages, j) \in 1 .. N
             /\ \A k, l \in 1 .. N - n : TableAt(pages, k) = TableAt(pages, l) => k = l
             /\ \A i, j \in 1 .. n : PageAt(pages, i) = PageAt(pages, j) => i = j
             /\ \A k \in 1 .. N - n, j \in 1 .. n : TableAt(pages, k) # PageAt(pages, j)
             /\ \A i \in 1 .. N : \/ \E k \in 1 .. N - n : TableAt(pages, k) = i
                                  \/ \E j \in 1 .. n : PageAt(pages, j) = i
<1> DEFINE N == Needed(pages)
           n == Len(pages)
           P(j) == PageAt(pages, j)
           New(j) == NewTable(pages, j)
           A(k) == TableAt(pages, k)
           t(j) == TablesBefore(pages, j)
           w(j) == IF New(j) THEN 2 ELSE 1
<1>1. /\ P(1) = 3
      /\ \A j \in 1 .. n + 1 : P(j) \in Nat
      /\ \A j \in 1 .. n : P(j + 1) = P(j) + w(j)
      /\ \A i, j \in 1 .. n + 1 : i < j => P(i) + w(i) <= P(j)
      /\ N \in Nat
      /\ N - n = 2 + t(n + 1)
  BY PageAtFacts
<1>2. n \in Nat /\ DOMAIN pages = 1 .. n /\ N = P(n + 1) - 1
  BY DEF Needed
<1>3. t(n + 1) \in Nat
  BY TablesBeforeFacts, <1>2
<1>4. /\ \A k \in 3 .. N - n : \E j \in 1 .. n : New(j) /\ t(j) = k - 3 /\ A(k) = P(j) + 1
      /\ \A j \in 1 .. n : New(j) => t(j) + 3 \in 3 .. N - n /\ A(t(j) + 3) = P(j) + 1
  BY TableAtFacts, <1>2
<1>5. A(1) = 1 /\ A(2) = 2
  BY DEF TableAt
<1>15. \A j : (New(j) /\ w(j) = 2) \/ (~New(j) /\ w(j) = 1)
  OBVIOUS
<1> HIDE DEF N, n, P, New, A, t, w
<1>6. ASSUME NEW i \in 1 .. n, NEW j \in 1 .. n, i < j
      PROVE  P(i) + w(i) <= P(j)
  <2>1. i \in 1 .. n + 1 /\ j \in 1 .. n + 1
    BY <1>2
  <2> QED
    BY <1>1, <1>6, <2>1
<1>7. ASSUME NEW j \in 1 .. n
      PROVE  P(j) \in Nat /\ 3 <= P(j) /\ P(j) + w(j) <= N + 1
  <2>1. j \in 1 .. n + 1 /\ n + 1 \in 1 .. n + 1 /\ 1 \in 1 .. n + 1 /\ j < n + 1 /\ j \in Nat
    BY <1>2
  <2>2. P(j) \in Nat /\ P(1) \in Nat /\ P(n + 1) \in Nat
    BY <1>1, <2>1
  <2>3. P(j) + w(j) <= P(n + 1)
    BY <1>1, <2>1
  <2>4. j = 1 \/ P(1) + w(1) <= P(j)
    BY <1>1, <2>1
  <2>5. 3 <= P(j)
    BY <1>1, <1>15, <2>2, <2>4
  <2> QED
    BY <1>1, <1>2, <2>2, <2>3, <2>5
<1>8. \A j \in 1 .. n : P(j) \in 1 .. N /\ P(j) \in Nat /\ 3 <= P(j)
  <2> SUFFICES ASSUME NEW j \in 1 .. n PROVE P(j) \in 1 .. N /\ P(j) \in Nat /\ 3 <= P(j)
    OBVIOUS
  <2>1. P(j) \in Nat /\ 3 <= P(j) /\ P(j) + w(j) <= N + 1 /\ (w(j) = 2 \/ w(j) = 1)
    BY <1>7, <1>15
  <2> QED
    BY <1>1, <2>1
<1>9. ASSUME NEW i \in 1 .. n, NEW j \in 1 .. n, P(i) = P(j) PROVE i = j
  <2>1. i \in Nat /\ j \in Nat /\ P(i) \in Nat /\ P(j) \in Nat
    BY <1>2, <1>8
  <2>2. ~(i < j) /\ ~(j < i)
    BY <1>6, <1>9, <1>15, <2>1
  <2> QED
    BY <2>1, <2>2
<1>10. ASSUME NEW k \in 1 .. N - n
       PROVE  /\ A(k) \in 1 .. N /\ A(k) \in Nat
              /\ \/ (k = 1 \/ k = 2) /\ A(k) = k
                 \/ k \in 3 .. N - n /\ A(k) > 3
  <2>1. CASE k \in 3 .. N - n
    <3>1. PICK j \in 1 .. n : New(j) /\ A(k) = P(j) + 1
      BY <1>4, <2>1
    <3>2. P(j) \in Nat /\ 3 <= P(j) /\ P(j) + 2 <= N + 1
      BY <1>7, <1>15, <3>1
    <3> QED
      BY <1>1, <2>1, <3>1, <3>2
  <2>2. CASE k = 1 \/ k = 2
    <3>1. N >= 2 /\ N \in Nat
      BY <1>1, <1>2, <1>3
    <3>2. CASE k = 1
      BY <1>5, <3>1, <3>2
    <3>3. CASE k = 2
      BY <1>5, <3>1, <3>3
    <3> QED
      BY <2>2, <3>2, <3>3
  <2>3. N - n \in Nat
    BY <1>1, <1>3
  <2> QED
    BY <2>1, <2>2, <2>3
<1>11. ASSUME NEW k \in 1 .. N - n, NEW l \in 1 .. N - n, A(k) = A(l) PROVE k = l
  <2>1. CASE k \in 3 .. N - n /\ l \in 3 .. N - n
    <3>1. PICK i \in 1 .. n : t(i) = k - 3 /\ A(k) = P(i) + 1
      BY <1>4, <2>1
    <3>2. PICK j \in 1 .. n : t(j) = l - 3 /\ A(l) = P(j) + 1
      BY <1>4, <2>1
    <3>5. P(i) \in Nat /\ P(j) \in Nat /\ P(i) + 1 = P(j) + 1
      BY <1>8, <1>11, <3>1, <3>2, Zenon
    <3>3. P(i) = P(j)
      BY <3>5
    <3>4. i = j
      BY <1>9, <3>3
    <3> QED
      BY <2>1, <3>1, <3>2, <3>4
  <2> QED
    BY <1>10, <1>11, <2>1
<1>12. ASSUME NEW k \in 1 .. N - n, NEW j \in 1 .. n PROVE A(k) # P(j)
  <2>1. P(j) \in Nat /\ 3 <= P(j)
    BY <1>8
  <2>2. CASE k = 1 \/ k = 2
    BY <1>5, <2>1, <2>2
  <2>3. CASE k \in 3 .. N - n
    <3>1. PICK i \in 1 .. n : New(i) /\ A(k) = P(i) + 1
      BY <1>4, <2>3
    <3>2. P(i) \in Nat /\ i \in Nat /\ j \in Nat
      BY <1>2, <1>8
    <3>3. i < j => P(i) + 2 <= P(j)
      BY <1>6, <1>15, <3>1
    <3>4. j < i => P(j) + 1 <= P(i)
      <4>1. SUFFICES ASSUME j < i PROVE P(j) + 1 <= P(i)
        OBVIOUS
      <4>2. P(j) + w(j) <= P(i)
        BY <1>6, <4>1
      <4> QED
        BY <1>15, <2>1, <3>2, <4>2
    <3>5. i = j \/ i < j \/ j < i
      BY <3>2
    <3> QED
      BY <2>1, <3>1, <3>2, <3>3, <3>4, <3>5
  <2> QED
    BY <1>10, <2>2, <2>3
<1>13. ASSUME NEW i \in 1 .. N
       PROVE  \/ \E k \in 1 .. N - n : A(k) = i
              \/ \E j \in 1 .. n : P(j) = i
  <2>1. CASE i <= 2
    <3>1. 1 \in 1 .. N - n /\ 2 \in 1 .. N - n /\ (i = 1 \/ i = 2)
      BY <1>1, <1>3, <2>1
    <3> QED
      BY <1>5, <3>1
  <2>2. CASE i >= 3
    <3> DEFINE U == {j \in 1 .. n + 1 : P(j) > i}
    <3>1. n + 1 \in U /\ U \in SUBSET Nat
      BY <1>1, <1>2
    <3>2. PICK j \in U : \A x \in U : j <= x
      BY <3>1, LeastNatural, Zenon
    <3>3. j \in 1 .. n + 1 /\ P(j) > i
      OBVIOUS
    <3>4. j # 1 /\ j - 1 \in 1 .. n /\ j - 1 \in 1 .. n + 1 /\ (j - 1) + 1 = j
      BY <1>1, <1>2, <2>2, <3>3
    <3>5. ~(P(j - 1) > i) /\ P(j - 1) \in Nat
      BY <1>1, <3>2, <3>4
    <3>6. P(j) = P(j - 1) + w(j - 1)
      BY <1>1, <3>4
    <3>7. P(j - 1) = i \/ (New(j - 1) /\ i = P(j - 1) + 1)
      BY <1>15, <3>3, <3>5, <3>6
    <3>8. CASE New(j - 1) /\ i = P(j - 1) + 1
      <4>1. t(j - 1) + 3 \in 3 .. N - n /\ A(t(j - 1) + 3) = i
        BY <1>4, <3>4, <3>8
      <4>2. t(j - 1) + 3 \in 1 .. N - n
        BY <4>1
      <4> QED
        BY <4>1, <4>2
    <3> QED
      BY <3>4, <3>7, <3>8
  <2> QED
    BY <2>1, <2>2
<1>14. N - n \in Nat
  BY <1>1, <1>3
<1>16. /\ N \in Nat /\ N - n \in Nat
       /\ \A k \in 1 .. N - n : A(k) \in 1 .. N
       /\ \A j \in 1 .. n : P(j) \in 1 .. N
  BY <1>1, <1>8, <1>10, <1>14
<1> QED
  BY <1>9, <1>11, <1>12, <1>13, <1>16 DEF N, n, P, A

-----------------------------------------------------------------------------
(* Address spaces as values.                                               *)
PageTables == UNION {[D -> Frames] : D \in SUBSET Nat}
Spaces == [tables : Seq(Frames), pte : PageTables, areas : Seq([vpn : Nat, ppn : Frames])]

(* The pages and frames of the areas of an address space, and all of it    *)
(* that is dropped.                                                        *)
LEMMA SpaceParts ==
  ASSUME NEW ms \in Spaces
  PROVE  /\ ms.tables \in Seq(Frames) /\ ms.areas \in Seq([vpn : Nat, ppn : Frames])
         /\ Pages(ms) \in Seq(Nat) /\ Len(Pages(ms)) = Len(ms.areas)
         /\ AreaFrames(ms) \in Seq(Frames) /\ Len(AreaFrames(ms)) = Len(ms.areas)
         /\ \A j \in 1 .. Len(ms.areas) : /\ Pages(ms)[j] = ms.areas[j].vpn
                                          /\ AreaFrames(ms)[j] = ms.areas[j].ppn
         /\ Dropped(ms) \in Seq(Frames)
         /\ Range(Dropped(ms)) = Range(ms.tables) \cup Range(AreaFrames(ms))
         /\ IsInjective(Dropped(ms)) <=>
              /\ IsInjective(ms.tables) /\ IsInjective(AreaFrames(ms))
              /\ Range(ms.tables) \cap Range(AreaFrames(ms)) = {}
<1>1. ms.tables \in Seq(Frames) /\ ms.areas \in Seq([vpn : Nat, ppn : Frames])
  BY DEF Spaces
<1> DEFINE as == ms.areas
           n == Len(as)
<1>2. n \in Nat /\ DOMAIN as = 1 .. n /\ \A j \in 1 .. n : as[j].vpn \in Nat /\ as[j].ppn \in Frames
  <2> DEFINE R == [vpn : Nat, ppn : Frames]
  <2>1. \A r \in R : r.vpn \in Nat /\ r.ppn \in Frames
    OBVIOUS
  <2> HIDE DEF R
  <2>2. as \in Seq(R)
    BY <1>1 DEF R
  <2>3. n \in Nat /\ DOMAIN as = 1 .. n /\ \A j \in 1 .. n : as[j] \in R
    BY <2>2
  <2> QED
    BY <2>1, <2>3
<1>3. Pages(ms) = [j \in 1 .. n |-> as[j].vpn] /\ AreaFrames(ms) = [j \in 1 .. n |-> as[j].ppn]
  BY <1>2 DEF Pages, AreaFrames
<1> HIDE DEF as, n
<1>4. /\ Pages(ms) \in Seq(Nat) /\ Len(Pages(ms)) = n
      /\ AreaFrames(ms) \in Seq(Frames) /\ Len(AreaFrames(ms)) = n
      /\ \A j \in 1 .. n : Pages(ms)[j] = as[j].vpn /\ AreaFrames(ms)[j] = as[j].ppn
  <2>1. Pages(ms) \in [1 .. n -> Nat] /\ AreaFrames(ms) \in [1 .. n -> Frames]
    BY <1>2, <1>3, Zenon
  <2>2. \A j \in 1 .. n : Pages(ms)[j] = as[j].vpn /\ AreaFrames(ms)[j] = as[j].ppn
    BY <1>3
  <2> QED
    BY <1>2, <2>1, <2>2, FunctionIsSeq, Zenon
<1>5. Dropped(ms) = ms.tables \o AreaFrames(ms)
  BY DEF Dropped
<1>6. /\ Dropped(ms) \in Seq(Frames)
      /\ Range(Dropped(ms)) = Range(ms.tables) \cup Range(AreaFrames(ms))
      /\ IsInjective(Dropped(ms)) <=>
           /\ IsInjective(ms.tables) /\ IsInjective(AreaFrames(ms))
           /\ Range(ms.tables) \cap Range(AreaFrames(ms)) = {}
  BY <1>1, <1>4, <1>5, ConcatRange, ConcatFacts
<1> QED
  BY <1>1, <1>4, <1>6 DEF as, n

(* The new address space owns exactly the frames allocated for it, each    *)
(* once, and its entries lead to the frames of its areas.                  *)
LEMMA SpaceFacts ==
  ASSUME NEW pages \in Seq(Nat), IsInjective(pages),
         NEW fs \in Seq(Frames), IsInjective(fs), Needed(pages) <= Len(fs)
  PROVE  LET new == Space(pages, fs)
         IN  /\ new \in Spaces
             /\ IsInjective(Dropped(new))
             /\ Range(Dropped(new)) = {fs[i] : i \in 1 .. Needed(pages)}
             /\ Pages(new) = pages
             /\ DOMAIN new.pte = Range(pages)
             /\ \A j \in 1 .. Len(new.areas) : new.pte[new.areas[j].vpn] = new.areas[j].ppn
<1> DEFINE new == Space(pages, fs)
           N == Needed(pages)
           n == Len(pages)
           A(k) == TableAt(pages, k)
           P(j) == PageAt(pages, j)
           at(v) == CHOOSE j \in DOMAIN pages : pages[j] = v
<1>1. /\ N \in Nat /\ N - n \in Nat
      /\ \A k \in 1 .. N - n : A(k) \in 1 .. N
      /\ \A j \in 1 .. n : P(j) \in 1 .. N
      /\ \A k, l \in 1 .. N - n : A(k) = A(l) => k = l
      /\ \A i, j \in 1 .. n : P(i) = P(j) => i = j
      /\ \A k \in 1 .. N - n, j \in 1 .. n : A(k) # P(j)
      /\ \A i \in 1 .. N : \/ \E k \in 1 .. N - n : A(k) = i
                           \/ \E j \in 1 .. n : P(j) = i
  BY Places, Zenon
<1>2. n \in Nat /\ DOMAIN pages = 1 .. n /\ \A j \in 1 .. n : pages[j] \in Nat
  OBVIOUS
<1>3. \A i \in 1 .. N : fs[i] \in Frames /\ i \in DOMAIN fs
  BY <1>1
<1>4. \A i, j \in 1 .. N : fs[i] = fs[j] => i = j
  BY <1>3 DEF IsInjective
<1>5. /\ new.tables = [k \in 1 .. N - n |-> fs[A(k)]]
      /\ new.pte = [v \in Range(pages) |-> fs[P(at(v))]]
      /\ new.areas = [j \in 1 .. n |-> [vpn |-> pages[j], ppn |-> fs[P(j)]]]
      /\ new = [tables |-> new.tables, pte |-> new.pte, areas |-> new.areas]
  BY <1>2 DEF Space
<1>6. ASSUME NEW j \in 1 .. n PROVE at(pages[j]) = j
  <2>1. at(pages[j]) \in DOMAIN pages /\ pages[at(pages[j])] = pages[j]
    BY <1>2, Zenon
  <2> QED
    BY <1>2, <2>1 DEF IsInjective
<1> HIDE DEF new, N, n, A, P, at
<1>7. new.tables \in Seq(Frames)
  <2>1. \A k \in 1 .. N - n : fs[A(k)] \in Frames
    BY <1>1, <1>3
  <2>2. new.tables \in [1 .. N - n -> Frames]
    BY <1>5, <2>1
  <2> QED
    BY <1>1, <2>2, FunctionIsSeq
<1>8. new.areas \in Seq([vpn : Nat, ppn : Frames]) /\ Len(new.areas) = n
  <2>1. \A j \in 1 .. n : [vpn |-> pages[j], ppn |-> fs[P(j)]] \in [vpn : Nat, ppn : Frames]
    BY <1>1, <1>2, <1>3
  <2>2. new.areas \in [1 .. n -> [vpn : Nat, ppn : Frames]]
    BY <1>5, <2>1
  <2> QED
    BY <1>2, <2>2, FunctionIsSeq, Zenon
<1>9. Range(pages) \in SUBSET Nat /\ \A v \in Range(pages) : \E j \in 1 .. n : v = pages[j]
  BY <1>2 DEF Range
<1>10. new.pte \in [Range(pages) -> Frames]
  <2>1. ASSUME NEW v \in Range(pages) PROVE fs[P(at(v))] \in Frames
    <3>1. PICK j \in 1 .. n : v = pages[j]
      BY <1>9
    <3>2. at(v) = j /\ P(j) \in 1 .. N
      BY <1>1, <1>6, <3>1
    <3> QED
      BY <1>3, <3>2
  <2> QED
    BY <1>5, <2>1
<1>11. new \in Spaces
  <2>1. new.pte \in PageTables
    BY <1>9, <1>10 DEF PageTables
  <2> QED
    BY <1>5, <1>7, <1>8, <2>1, Zenon DEF Spaces
<1>12. \A j \in 1 .. n : new.areas[j].vpn = pages[j] /\ new.areas[j].ppn = fs[P(j)]
  BY <1>5
<1>13. Pages(new) = pages
  <2>1. Pages(new) \in Seq(Nat) /\ Len(Pages(new)) = n /\ \A j \in 1 .. n : Pages(new)[j] = pages[j]
    BY <1>8, <1>11, <1>12, SpaceParts
  <2> QED
    BY <2>1, SameElements DEF n
<1>14. DOMAIN new.pte = Range(pages)
  BY <1>10
<1>15. ASSUME NEW j \in 1 .. Len(new.areas) PROVE new.pte[new.areas[j].vpn] = new.areas[j].ppn
  <2>1. j \in 1 .. n /\ new.areas[j].vpn = pages[j] /\ new.areas[j].ppn = fs[P(j)]
    BY <1>8, <1>12
  <2>2. pages[j] \in Range(pages)
    BY <1>2, <2>1 DEF Range
  <2>3. new.pte[pages[j]] = fs[P(at(pages[j]))]
    BY <1>5, <2>2
  <2> QED
    BY <1>6, <2>1, <2>3
<1> DEFINE ts == new.tables
           af == AreaFrames(new)
<1>16. /\ DOMAIN ts = 1 .. N - n /\ \A k \in 1 .. N - n : ts[k] = fs[A(k)]
       /\ DOMAIN af = 1 .. n /\ \A j \in 1 .. n : af[j] = fs[P(j)]
  <2>1. af \in Seq(Frames) /\ Len(af) = n /\ \A j \in 1 .. n : af[j] = fs[P(j)]
    BY <1>8, <1>11, <1>12, SpaceParts, Zenon
  <2> QED
    BY <1>5, <2>1
<1>17. IsInjective(ts) /\ IsInjective(af) /\ Range(ts) \cap Range(af) = {}
  <2> HIDE DEF ts, af
  <2>1. ASSUME NEW k \in 1 .. N - n, NEW l \in 1 .. N - n, ts[k] = ts[l] PROVE k = l
    <3>1. fs[A(k)] = fs[A(l)] /\ A(k) \in 1 .. N /\ A(l) \in 1 .. N
      BY <1>1, <1>16, <2>1, Zenon
    <3>2. A(k) = A(l)
      BY <1>4, <3>1, Zenon
    <3> QED
      BY <1>1, <3>2, Zenon
  <2>2. ASSUME NEW i \in 1 .. n, NEW j \in 1 .. n, af[i] = af[j] PROVE i = j
    <3>1. fs[P(i)] = fs[P(j)] /\ P(i) \in 1 .. N /\ P(j) \in 1 .. N
      BY <1>1, <1>16, <2>2, Zenon
    <3>2. P(i) = P(j)
      BY <1>4, <3>1, Zenon
    <3> QED
      BY <1>1, <3>2, Zenon
  <2>3. ASSUME NEW k \in 1 .. N - n, NEW j \in 1 .. n PROVE ts[k] # af[j]
    <3>1. A(k) \in 1 .. N /\ P(j) \in 1 .. N /\ A(k) # P(j)
      BY <1>1
    <3>2. ts[k] = fs[A(k)] /\ af[j] = fs[P(j)]
      BY <1>16
    <3> QED
      BY <1>4, <3>1, <3>2
  <2> QED
    BY <1>16, <2>1, <2>2, <2>3 DEF IsInjective, Range
<1>18. Range(ts) \cup Range(af) = {fs[i] : i \in 1 .. N}
  <2> HIDE DEF ts, af
  <2>1. ASSUME NEW x \in Range(ts) \cup Range(af) PROVE x \in {fs[i] : i \in 1 .. N}
    <3>1. (\E k \in 1 .. N - n : x = fs[A(k)]) \/ (\E j \in 1 .. n : x = fs[P(j)])
      BY <1>16 DEF Range
    <3> QED
      BY <1>1, <3>1
  <2>2. ASSUME NEW i \in 1 .. N PROVE fs[i] \in Range(ts) \cup Range(af)
    <3>1. (\E k \in 1 .. N - n : A(k) = i) \/ (\E j \in 1 .. n : P(j) = i)
      BY <1>1, Zenon
    <3> QED
      BY <1>16, <3>1 DEF Range
  <2> QED
    BY <2>1, <2>2
<1>19. IsInjective(Dropped(new)) /\ Range(Dropped(new)) = {fs[i] : i \in 1 .. N}
  BY <1>11, <1>17, <1>18, SpaceParts, Zenon
<1> QED
  BY <1>11, <1>13, <1>14, <1>15, <1>19 DEF new, N

-----------------------------------------------------------------------------
(* The allocator: the frames handed out and those that stay make up what   *)
(* was returned and what is new, and no frame is in both.                  *)
LEMMA AllocFacts ==
  ASSUME frame_recycled \in Seq(Frames), IsInjective(frame_recycled),
         frame_current \in Nat \ {0}, frame_current <= MEMORY_END, MEMORY_END \in Nat,
         Range(frame_recycled) \subseteq 1 .. frame_current - 1,
         NEW n \in Nat, n <= Available, NEW freed, Allocate(n, freed)
  PROVE  LET fs == frame_alloc(n)
         IN  /\ fs \in Seq(Frames) /\ Len(fs) = n /\ IsInjective(fs)
             /\ frame_current' \in Nat /\ frame_current <= frame_current'
             /\ frame_current' <= MEMORY_END
             /\ \E rest \in Seq(Frames) :
                  /\ frame_recycled' = rest \o freed
                  /\ IsInjective(rest)
                  /\ Range(rest) \cap Range(fs) = {}
                  /\ Range(rest) \cup Range(fs) =
                       Range(frame_recycled) \cup (frame_current .. frame_current' - 1)
<1> DEFINE r == frame_recycled
           c == frame_current
           m == Len(r)
           fs == frame_alloc(n)
           popped == IF n < m THEN n ELSE m
           k == m - popped
           rest == SubSeq(r, 1, k)
           d == frame_current'
<1>1. m \in Nat /\ DOMAIN r = 1 .. m /\ \A i \in 1 .. m : r[i] \in Frames
  OBVIOUS
<1>2. popped \in Nat /\ k \in 0 .. m /\ popped = m - k /\ d = c + n - popped
      /\ (popped = n \/ (popped = m /\ m <= n)) /\ n <= m + MEMORY_END - c
  <2>1. d = c + n - popped /\ n <= m + MEMORY_END - c
    BY DEF Allocate, Available
  <2>2. \/ popped = n /\ n < m
        \/ popped = m /\ ~(n < m)
    OBVIOUS
  <2>3. k = m - popped
    OBVIOUS
  <2> HIDE DEF r, m, popped, k, c, d
  <2>4. m \in Nat
    BY <1>1
  <2>5. popped \in Nat /\ popped <= m /\ (popped = n \/ (popped = m /\ m <= n))
    BY <2>2, <2>4
  <2>6. k \in 0 .. m /\ popped = m - k
    BY <2>3, <2>4, <2>5
  <2> QED
    BY <2>1, <2>5, <2>6
<1>3. rest \in Seq(Frames) /\ Len(rest) = k /\ \A i \in 1 .. k : rest[i] = r[i]
  <2> HIDE DEF r, m, popped, k
  <2>1. k \in Nat /\ \A i \in 1 .. k : r[i] \in Frames
    BY <1>1, <1>2
  <2>2. /\ rest \in Seq(Frames) /\ Len(rest) = (IF 1 <= k THEN k - 1 + 1 ELSE 0)
        /\ \A i \in 1 .. k - 1 + 1 : rest[i] = r[1 + i - 1]
    BY <2>1
  <2> HIDE DEF rest
  <2> QED
    BY <2>1, <2>2
<1>4. frame_recycled' = rest \o freed
  BY DEF Allocate
<1>5. /\ fs = [j \in 1 .. n |-> IF j <= m THEN r[m - j + 1] ELSE c + j - m - 1]
      /\ DOMAIN fs = 1 .. n
  BY DEF frame_alloc
<1>6. \A i \in 1 .. m : r[i] \in 1 .. c - 1
  BY <1>1 DEF Range
<1>7. \A i, j \in 1 .. m : r[i] = r[j] => i = j
  BY <1>1 DEF IsInjective
<1>8. c \in Nat /\ c >= 1 /\ c <= MEMORY_END /\ MEMORY_END \in Nat
  OBVIOUS
<1> HIDE DEF r, c, m, fs, popped, k, rest, d
<1>9. d \in Nat /\ c <= d /\ d <= MEMORY_END
  BY <1>1, <1>2, <1>8
<1>10. ASSUME NEW j \in 1 .. n
       PROVE  \/ j <= m /\ m - j + 1 \in 1 .. m /\ m - j + 1 > k /\ fs[j] = r[m - j + 1]
              \/ j > m /\ popped = m /\ fs[j] = c + j - m - 1 /\ fs[j] \in c .. d - 1
  <2>1. CASE j <= m
    <3>1. fs[j] = r[m - j + 1]
      BY <1>5, <2>1
    <3>2. m - j + 1 \in 1 .. m /\ m - j + 1 > k
      BY <1>1, <1>2, <2>1
    <3> QED
      BY <2>1, <3>1, <3>2
  <2>2. CASE j > m
    <3>1. fs[j] = c + j - m - 1
      BY <1>1, <1>5, <2>2
    <3>2. popped = m /\ c + j - m - 1 \in c .. d - 1
      BY <1>1, <1>2, <1>8, <2>2
    <3> QED
      BY <2>2, <3>1, <3>2
  <2> QED
    BY <1>1, <2>1, <2>2
<1>11. \A j \in 1 .. n : fs[j] \in Frames
  <2>1. \A x \in c .. d - 1 : x \in Frames
    BY <1>8, <1>9 DEF Frames
  <2> QED
    BY <1>1, <1>10, <2>1
<1>12. fs \in Seq(Frames) /\ Len(fs) = n
  <2>1. fs \in [1 .. n -> Frames]
    BY <1>5, <1>11
  <2> QED
    BY <2>1, FunctionIsSeq
<1>13. IsInjective(fs)
  <2>1. SUFFICES ASSUME NEW i \in 1 .. n, NEW j \in 1 .. n, fs[i] = fs[j] PROVE i = j
    BY <1>5 DEF IsInjective
  <2>2. CASE i <= m /\ j <= m
    <3>1. m - i + 1 = m - j + 1
      BY <1>1, <1>7, <1>10, <2>1, <2>2
    <3> QED
      BY <1>1, <3>1
  <2>3. CASE i > m /\ j > m
    <3>1. c + i - m - 1 = c + j - m - 1
      BY <1>1, <1>10, <2>1, <2>3
    <3> QED
      BY <1>1, <1>8, <3>1
  <2>4. CASE i <= m /\ j > m
    <3>1. fs[i] \in 1 .. c - 1 /\ fs[j] \in c .. d - 1
      BY <1>1, <1>6, <1>10, <2>4
    <3> QED
      BY <1>8, <1>9, <2>1, <3>1
  <2>5. CASE i > m /\ j <= m
    <3>1. fs[j] \in 1 .. c - 1 /\ fs[i] \in c .. d - 1
      BY <1>1, <1>6, <1>10, <2>5
    <3> QED
      BY <1>8, <1>9, <2>1, <3>1
  <2>6. (i <= m \/ i > m) /\ (j <= m \/ j > m)
    BY <1>1
  <2> QED
    BY <2>2, <2>3, <2>4, <2>5, <2>6
<1>14. DOMAIN rest = 1 .. k /\ k \in Nat /\ \A i \in 1 .. k : i \in 1 .. m /\ i <= k
  BY <1>1, <1>2, <1>3
<1>15. IsInjective(rest)
  BY <1>3, <1>7, <1>14 DEF IsInjective
<1>16. ASSUME NEW i \in 1 .. k, NEW j \in 1 .. n PROVE rest[i] # fs[j]
  <2>1. rest[i] = r[i] /\ i \in 1 .. m /\ i <= k
    BY <1>3, <1>14
  <2>2. CASE j <= m
    <3>1. m - j + 1 \in 1 .. m /\ m - j + 1 > k /\ fs[j] = r[m - j + 1]
      BY <1>1, <1>10, <2>2
    <3>2. i # m - j + 1
      BY <1>1, <1>14, <2>1, <3>1
    <3> QED
      BY <1>7, <2>1, <3>1, <3>2
  <2>3. CASE j > m
    <3>1. fs[j] \in c .. d - 1 /\ r[i] \in 1 .. c - 1
      BY <1>1, <1>6, <1>10, <2>1, <2>3
    <3> QED
      BY <1>8, <1>9, <2>1, <3>1
  <2> QED
    BY <1>1, <2>2, <2>3
<1>17. Range(rest) \cap Range(fs) = {}
  BY <1>5, <1>14, <1>16 DEF Range
<1>18. ASSUME NEW x \in Range(r) \cup (c .. d - 1) PROVE x \in Range(rest) \cup Range(fs)
  <2>1. CASE x \in Range(r)
    <3>1. PICK i \in 1 .. m : x = r[i]
      BY <1>1, <2>1 DEF Range
    <3>2. CASE i <= k
      <4>1. i \in 1 .. k
        BY <1>14, <3>2
      <4> QED
        BY <1>3, <1>14, <3>1, <4>1, Zenon DEF Range
    <3>3. CASE ~(i <= k)
      <4>1. m - i + 1 \in 1 .. n /\ m - i + 1 <= m /\ m - (m - i + 1) + 1 = i
        BY <1>1, <1>2, <3>3
      <4>2. fs[m - i + 1] = r[i]
        BY <1>1, <1>10, <4>1
      <4> QED
        BY <1>5, <3>1, <4>1, <4>2 DEF Range
    <3> QED
      BY <3>2, <3>3
  <2>2. CASE x \in c .. d - 1
    <3>1. popped = m
      BY <1>1, <1>2, <1>8, <2>2
    <3>2. x - c + m + 1 \in 1 .. n /\ x - c + m + 1 > m /\ c + (x - c + m + 1) - m - 1 = x
      BY <1>1, <1>2, <1>8, <2>2, <3>1
    <3>3. fs[x - c + m + 1] = x
      BY <1>1, <1>10, <3>2
    <3> QED
      BY <1>5, <3>2, <3>3 DEF Range
  <2> QED
    BY <2>1, <2>2
<1>19. ASSUME NEW x \in Range(rest) \cup Range(fs) PROVE x \in Range(r) \cup (c .. d - 1)
  <2>1. CASE x \in Range(rest)
    BY <1>1, <1>3, <1>14, <2>1, Zenon DEF Range
  <2>2. CASE x \in Range(fs)
    <3>1. PICK j \in 1 .. n : x = fs[j]
      BY <1>5, <2>2 DEF Range
    <3> QED
      BY <1>1, <1>10, <3>1, Zenon DEF Range
  <2> QED
    BY <2>1, <2>2
<1>20. Range(rest) \cup Range(fs) = Range(r) \cup (c .. d - 1)
  BY <1>18, <1>19
<1>21. \E s \in Seq(Frames) : /\ frame_recycled' = s \o freed
                              /\ IsInjective(s)
                              /\ Range(s) \cap Range(fs) = {}
                              /\ Range(s) \cup Range(fs) = Range(r) \cup (c .. d - 1)
  BY <1>3, <1>4, <1>15, <1>17, <1>20, Zenon
<1> QED
  BY <1>9, <1>12, <1>13, <1>21, Zenon DEF r, c, fs, d

(* The pages of cs have entries, which lead to different frames.           *)
Apart(ms, cs) ==
  /\ \A v \in DOMAIN cs : ms.pte[v] \in Frames
  /\ \A v, w \in DOMAIN cs : ms.pte[v] = ms.pte[w] => v = w

(* What is in the frames once the pages of cs are written.                 *)
IsPut(put, contents, ms, cs) ==
  /\ DOMAIN put = Frames
  /\ \A v \in DOMAIN cs : put[ms.pte[v]] = cs[v]
  /\ \A f \in Frames : (\A v \in DOMAIN cs : ms.pte[v] # f) => put[f] = contents[f]

(* Writing through the entries: a page written has its new contents, and   *)
(* no other frame changes.                                                 *)
LEMMA PutFacts ==
  ASSUME NEW contents, NEW ms, NEW cs, Apart(ms, cs)
  PROVE  IsPut(Put(contents, ms, cs), contents, ms, cs)
<1> DEFINE put == Put(contents, ms, cs)
           D == DOMAIN cs
           e(v) == ms.pte[v]
<1>1. /\ DOMAIN put = Frames
      /\ \A f \in Frames : put[f] = IF \E v \in D : e(v) = f
                                    THEN cs[CHOOSE v \in D : e(v) = f]
                                    ELSE contents[f]
  BY DEF Put
<1>2. /\ \A v \in D : e(v) \in Frames
      /\ \A v, w \in D : e(v) = e(w) => v = w
  BY DEF Apart
<1>3. ASSUME NEW v \in D PROVE put[e(v)] = cs[v]
  <2>1. (CHOOSE w \in D : e(w) = e(v)) = v
    BY <1>2
  <2> QED
    BY <1>1, <1>2, <2>1
<1>4. ASSUME NEW f \in Frames, \A v \in D : e(v) # f PROVE put[f] = contents[f]
  BY <1>1, <1>4
<1> QED
  BY <1>1, <1>3, <1>4 DEF IsPut

(* Entries that lead to the frames of the areas are as distinct as those.  *)
LEMMA EntriesFacts ==
  ASSUME NEW ms \in Spaces, IsInjective(Dropped(ms)),
         DOMAIN ms.pte = Range(Pages(ms)),
         \A j \in 1 .. Len(ms.areas) : ms.pte[ms.areas[j].vpn] = ms.areas[j].ppn
  PROVE  /\ \A v \in DOMAIN ms.pte : /\ ms.pte[v] \in Frames
                                     /\ ms.pte[v] \in Range(AreaFrames(ms))
                                     /\ ms.pte[v] \in Range(Dropped(ms))
         /\ \A v, w \in DOMAIN ms.pte : ms.pte[v] = ms.pte[w] => v = w
<1> DEFINE n == Len(ms.areas)
           pg == Pages(ms)
           af == AreaFrames(ms)
           e(v) == ms.pte[v]
<1>1. /\ pg \in Seq(Nat) /\ Len(pg) = n /\ af \in Seq(Frames) /\ Len(af) = n
      /\ \A j \in 1 .. n : pg[j] = ms.areas[j].vpn /\ af[j] = ms.areas[j].ppn
      /\ Range(af) \subseteq Range(Dropped(ms)) /\ IsInjective(af)
  BY SpaceParts
<1>2. \A j \in 1 .. n : e(pg[j]) = af[j]
  BY <1>1
<1>3. DOMAIN ms.pte = Range(pg)
  OBVIOUS
<1> HIDE DEF n, pg, af, e
<1>4. \A v \in Range(pg) : \E j \in 1 .. n : v = pg[j] /\ e(v) = af[j]
  <2>1. DOMAIN pg = 1 .. n
    BY <1>1
  <2> QED
    BY <1>2, <2>1 DEF Range
<1>5. DOMAIN af = 1 .. n /\ \A j \in 1 .. n : af[j] \in Frames /\ af[j] \in Range(af)
  <2>1. DOMAIN af = 1 .. n /\ \A j \in 1 .. n : af[j] \in Frames
    BY <1>1
  <2> QED
    BY <2>1 DEF Range
<1>6. \A v \in Range(pg) : e(v) \in Frames /\ e(v) \in Range(af) /\ e(v) \in Range(Dropped(ms))
  BY <1>1, <1>4, <1>5
<1>7. ASSUME NEW v \in Range(pg), NEW w \in Range(pg), e(v) = e(w) PROVE v = w
  <2>1. PICK i \in 1 .. n : v = pg[i] /\ e(v) = af[i]
    BY <1>4
  <2>2. PICK j \in 1 .. n : w = pg[j] /\ e(w) = af[j]
    BY <1>4
  <2>3. i = j
    BY <1>1, <1>5, <1>7, <2>1, <2>2, ZenonT(40) DEF IsInjective
  <2> QED
    BY <2>1, <2>2, <2>3
<1> QED
  BY <1>3, <1>6, <1>7 DEF af, pg, e

-----------------------------------------------------------------------------
(* The pages of a program are distinct, the trap context is one of them    *)
(* and there is one below it.                                              *)
LEMMA ElfFacts ==
  ASSUME NEW n \in ImageSizes
  PROVE  /\ n \in Nat /\ TRAP_CONTEXT \in Nat
         /\ ElfPages(n) \in Seq(Nat) /\ IsInjective(ElfPages(n))
         /\ TRAP_CONTEXT \in Range(ElfPages(n))
         /\ \E v \in Range(ElfPages(n)) : v < TRAP_CONTEXT
<1> DEFINE a == [j \in 1 .. n |-> j - 1]
           b == [j \in 1 .. USER_STACK |-> n + j]
           c == <<TRAP_CONTEXT>>
<1>1. n \in Nat /\ n > 0 /\ USER_STACK \in Nat /\ n + 1 + USER_STACK < TRAP_CONTEXT
      /\ TRAP_CONTEXT \in Int
  BY SpacesAssumption DEF TRAP_CONTEXT
<1>2. TRAP_CONTEXT \in Nat
  BY <1>1
<1>3. a \in Seq(Nat) /\ IsInjective(a) /\ Range(a) = 0 .. n - 1
  <2>1. a \in [1 .. n -> Nat]
    BY <1>1
  <2>2. IsInjective(a)
    BY <1>1 DEF IsInjective
  <2>3. \A x \in 0 .. n - 1 : x + 1 \in 1 .. n /\ a[x + 1] = x
    BY <1>1
  <2>4. \A x \in 0 .. n - 1 : x \in Range(a)
    BY <2>3, Zenon DEF Range
  <2>5. \A j \in 1 .. n : a[j] \in 0 .. n - 1
    BY <1>1
  <2>6. \A x \in Range(a) : x \in 0 .. n - 1
    BY <2>5 DEF Range
  <2> QED
    BY <1>1, <2>1, <2>2, <2>4, <2>6, FunctionIsSeq, Zenon
<1>4. b \in Seq(Nat) /\ IsInjective(b) /\ Range(b) \subseteq n + 1 .. n + USER_STACK
  <2>1. b \in [1 .. USER_STACK -> Nat]
    BY <1>1
  <2>2. IsInjective(b)
    BY <1>1 DEF IsInjective
  <2>3. \A j \in 1 .. USER_STACK : b[j] \in n + 1 .. n + USER_STACK
    BY <1>1
  <2>4. \A x \in Range(b) : x \in n + 1 .. n + USER_STACK
    BY <2>3 DEF Range
  <2> QED
    BY <1>1, <2>1, <2>2, <2>4, FunctionIsSeq
<1>5. c \in Seq(Nat) /\ IsInjective(c) /\ Range(c) = {TRAP_CONTEXT}
  BY <1>2 DEF IsInjective, Range
<1>6. ElfPages(n) = (a \o b) \o c
  BY DEF ElfPages
<1> HIDE DEF a, b, c
<1>7. a \o b \in Seq(Nat) /\ Range(a \o b) = Range(a) \cup Range(b)
      /\ (IsInjective(a \o b) <=> (IsInjective(a) /\ IsInjective(b) /\ Range(a) \cap Range(b) = {}))
  BY <1>3, <1>4, ConcatRange, ConcatFacts, Zenon
<1>8. IsInjective(a \o b)
  BY <1>1, <1>3, <1>4, <1>7
<1>9. (a \o b) \o c \in Seq(Nat) /\ Range((a \o b) \o c) = Range(a \o b) \cup Range(c)
      /\ (IsInjective((a \o b) \o c) <=>
            (IsInjective(a \o b) /\ IsInjective(c) /\ Range(a \o b) \cap Range(c) = {}))
  BY <1>5, <1>7, ConcatRange, ConcatFacts, ZenonT(40)
<1>10. TRAP_CONTEXT \notin Range(a \o b) /\ 0 \in Range(a)
  BY <1>1, <1>3, <1>4, <1>7
<1>11. 0 \in Range((a \o b) \o c) /\ TRAP_CONTEXT \in Range((a \o b) \o c) /\ 0 < TRAP_CONTEXT
  BY <1>1, <1>2, <1>5, <1>7, <1>9, <1>10
<1>12. IsInjective((a \o b) \o c)
  BY <1>5, <1>8, <1>9, <1>10
<1> QED
  BY <1>1, <1>2, <1>6, <1>9, <1>11, <1>12

-----------------------------------------------------------------------------
(***************************************************************************)
(* The inductive invariant: types, what FramesExact and PrivateMemory say, *)
(* that the pages of a live process are distinct and include its trap      *)
(* context and a page below it, and that a free slot owns nothing.         *)
(***************************************************************************)
TypeOK ==
  /\ frame_current \in Nat \ {0} /\ frame_recycled \in Seq(Frames)
  /\ DOMAIN mem = Frames
  /\ memory_set \in [Procs -> Spaces]
  /\ DOMAIN trap_cx_ppn = Procs
  /\ kernel_stack \in [Procs -> Seq(Frames)]
  /\ status \in [Procs -> {"free", "live", "zombie"}]
  /\ DOMAIN expected = Procs

Paged(ms) ==
  /\ IsInjective(Pages(ms)) /\ TRAP_CONTEXT \in Range(Pages(ms))
  /\ \E v \in Range(Pages(ms)) : v < TRAP_CONTEXT

Sees(p) ==
  /\ DOMAIN memory_set[p].pte = Range(Pages(memory_set[p]))
  /\ \A a \in Range(memory_set[p].areas) : translate(p, a.vpn) = a.ppn
  /\ trap_cx_ppn[p] = translate(p, TRAP_CONTEXT)
  /\ [vpn \in DOMAIN memory_set[p].pte |-> mem[translate(p, vpn)]] = expected[p]

Settled(p) ==
  /\ status[p] = "live" => Paged(memory_set[p]) /\ Sees(p)
  /\ status[p] = "free" => Range(Owned(p)) = {}

IInv == TypeOK /\ FramesExact /\ \A p \in Procs : Settled(p)

(* The clauses of FramesExact, in the forms the steps use.                 *)
LEMMA FramesFacts ==
  ASSUME IInv
  PROVE  /\ IsInjective(frame_recycled)
         /\ Range(frame_recycled) \subseteq 1 .. frame_current - 1
         /\ frame_current <= MEMORY_END /\ MEMORY_END \in Nat
         /\ \A p \in Procs :
              /\ Owned(p) \in Seq(Frames)
              /\ IsInjective(Dropped(memory_set[p])) /\ IsInjective(kernel_stack[p])
              /\ Range(Dropped(memory_set[p])) \cap Range(kernel_stack[p]) = {}
              /\ Range(Owned(p)) = Range(Dropped(memory_set[p])) \cup Range(kernel_stack[p])
              /\ Range(Owned(p)) \subseteq 1 .. frame_current - 1
              /\ Range(Owned(p)) \cap Range(frame_recycled) = {}
<1>1. FramesExact /\ TypeOK
  BY DEF IInv
<1>2. ASSUME NEW p \in Procs
      PROVE  /\ Owned(p) \in Seq(Frames)
             /\ IsInjective(Dropped(memory_set[p])) /\ IsInjective(kernel_stack[p])
             /\ Range(Dropped(memory_set[p])) \cap Range(kernel_stack[p]) = {}
             /\ Range(Owned(p)) = Range(Dropped(memory_set[p])) \cup Range(kernel_stack[p])
  <2>1. memory_set[p] \in Spaces /\ kernel_stack[p] \in Seq(Frames)
    BY <1>1 DEF TypeOK
  <2>2. Dropped(memory_set[p]) \in Seq(Frames)
    BY <2>1, SpaceParts
  <2>3. Owned(p) = Dropped(memory_set[p]) \o kernel_stack[p] /\ IsInjective(Owned(p))
    BY <1>1 DEF Owned, FramesExact
  <2> QED
    BY <2>1, <2>2, <2>3, ConcatRange, ConcatFacts
<1>3. \A p \in Procs : /\ Range(Owned(p)) \subseteq 1 .. frame_current - 1
                       /\ Range(Owned(p)) \cap Range(frame_recycled) = {}
  <2>1. Range(frame_recycled) \cup UNION {Range(Owned(p)) : p \in Procs} = 1 .. frame_current - 1
    BY <1>1 DEF FramesExact
  <2>2. \A p \in Procs : Range(Owned(p)) \cap Range(frame_recycled) = {}
    BY <1>1 DEF FramesExact
  <2> QED
    BY <2>1, <2>2, Zenon
<1>4. /\ IsInjective(frame_recycled) /\ frame_current <= MEMORY_END /\ MEMORY_END \in Nat
      /\ Range(frame_recycled) \subseteq 1 .. frame_current - 1
  BY <1>1, SpacesAssumption DEF FramesExact
<1> QED
  BY <1>2, <1>3, <1>4, Zenon

(* A step that changes what one process owns keeps FramesExact when the    *)
(* process and the allocator together have what they had and what is new.  *)
LEMMA FramesStep ==
  ASSUME IInv, NEW p \in Procs,
         \A q \in Procs \ {p} : Range(Owned(q)') = Range(Owned(q)) /\ IsInjective(Owned(q)'),
         IsInjective(Owned(p)'), IsInjective(frame_recycled'),
         Range(Owned(p)') \cap Range(frame_recycled') = {},
         Range(Owned(p)') \cup Range(frame_recycled') =
           Range(Owned(p)) \cup Range(frame_recycled) \cup (frame_current .. frame_current' - 1),
         frame_current' \in Nat, frame_current <= frame_current', frame_current' <= MEMORY_END
  PROVE  FramesExact'
<1> DEFINE O(q) == Range(Owned(q))
           N(q) == Range(Owned(q)')
           R == Range(frame_recycled)
           S == Range(frame_recycled')
           c == frame_current
           d == frame_current'
<1>1. /\ \A q \in Procs : O(q) \subseteq 1 .. c - 1 /\ O(q) \cap R = {}
      /\ R \subseteq 1 .. c - 1
  BY FramesFacts
<1>2. /\ \A x, y \in Procs : x # y => O(x) \cap O(y) = {}
      /\ R \cup UNION {O(q) : q \in Procs} = 1 .. c - 1
  BY DEF IInv, FramesExact
<1>3. /\ \A q \in Procs \ {p} : N(q) = O(q)
      /\ N(p) \cap S = {}
      /\ N(p) \cup S = O(p) \cup R \cup (c .. d - 1)
  OBVIOUS
<1>4. c \in Nat /\ c > 0 /\ d \in Nat /\ c <= d /\ d <= MEMORY_END
  BY DEF IInv, TypeOK
<1>5. \A q \in Procs : IsInjective(Owned(q)')
  OBVIOUS
<1> HIDE DEF O, N, R, S, c, d
<1>6. ASSUME NEW q \in Procs \ {p} PROVE N(q) \cap (N(p) \cup S) = {}
  <2>1. N(q) = O(q) /\ O(q) \cap O(p) = {} /\ O(q) \cap R = {} /\ O(q) \subseteq 1 .. c - 1
    BY <1>1, <1>2, <1>3
  <2>2. \A f \in 1 .. c - 1 : f \notin c .. d - 1
    BY <1>4
  <2> QED
    BY <1>3, <2>1, <2>2
<1>7. \A x, y \in Procs : x # y => N(x) \cap N(y) = {}
  <2> SUFFICES ASSUME NEW x \in Procs, NEW y \in Procs, x # y PROVE N(x) \cap N(y) = {}
    OBVIOUS
  <2>1. CASE x = p
    BY <1>6, <2>1
  <2>2. CASE y = p
    BY <1>6, <2>2
  <2>3. CASE x # p /\ y # p
    BY <1>2, <1>3, <2>3
  <2> QED
    BY <2>1, <2>2, <2>3
<1>8. \A q \in Procs : N(q) \cap S = {}
  BY <1>3, <1>6
<1>9. S \cup UNION {N(q) : q \in Procs} = 1 .. d - 1
  <2>0. \A f : f \in 1 .. d - 1 <=> f \in 1 .. c - 1 \/ f \in c .. d - 1
    BY <1>4
  <2>1. ASSUME NEW f \in 1 .. d - 1 PROVE f \in S \cup UNION {N(q) : q \in Procs}
    <3>1. f \in O(p) \/ f \in R \/ f \in c .. d - 1 \/ \E q \in Procs \ {p} : f \in O(q)
      BY <1>2, <2>0
    <3>2. CASE \E q \in Procs \ {p} : f \in O(q)
      BY <1>3, <3>2
    <3>3. CASE f \in O(p) \cup R \cup (c .. d - 1)
      <4>1. f \in N(p) \/ f \in S
        BY <1>3, <3>3
      <4> QED
        BY <4>1
    <3> QED
      BY <3>1, <3>2, <3>3
  <2>2. ASSUME NEW f \in S \cup UNION {N(q) : q \in Procs} PROVE f \in 1 .. d - 1
    <3>1. f \in N(p) \/ f \in S \/ \E q \in Procs \ {p} : f \in N(q)
      OBVIOUS
    <3>2. f \in 1 .. c - 1 \/ f \in c .. d - 1
      BY <1>1, <1>3, <3>1
    <3> QED
      BY <2>0, <3>2
  <2> QED
    BY <2>1, <2>2
<1> QED
  BY <1>4, <1>5, <1>7, <1>8, <1>9 DEF FramesExact, N, S, d

-----------------------------------------------------------------------------
(* What holds of a live process.                                           *)
LEMMA LiveFacts ==
  ASSUME IInv, NEW p \in Procs, status[p] = "live"
  PROVE  LET ms == memory_set[p]
         IN  /\ ms \in Spaces /\ Pages(ms) \in Seq(Nat) /\ Paged(ms)
             /\ DOMAIN ms.pte = Range(Pages(ms)) /\ TRAP_CONTEXT \in DOMAIN ms.pte
             /\ \A j \in 1 .. Len(ms.areas) : ms.pte[ms.areas[j].vpn] = ms.areas[j].ppn
             /\ \A v \in DOMAIN ms.pte : ms.pte[v] \in Frames /\ ms.pte[v] \in Range(Owned(p))
             /\ \A v, w \in DOMAIN ms.pte : ms.pte[v] = ms.pte[w] => v = w
             /\ trap_cx_ppn[p] = ms.pte[TRAP_CONTEXT]
             /\ expected[p] = [v \in DOMAIN ms.pte |-> mem[ms.pte[v]]]
<1> DEFINE ms == memory_set[p]
<1>1. Paged(ms) /\ Sees(p) /\ ms \in Spaces
  BY DEF IInv, Settled, TypeOK
<1>2. /\ DOMAIN ms.pte = Range(Pages(ms))
      /\ \A a \in Range(ms.areas) : ms.pte[a.vpn] = a.ppn
      /\ trap_cx_ppn[p] = ms.pte[TRAP_CONTEXT]
      /\ expected[p] = [v \in DOMAIN ms.pte |-> mem[ms.pte[v]]]
  BY <1>1 DEF Sees, translate
<1>3. TRAP_CONTEXT \in DOMAIN ms.pte
  BY <1>1, <1>2 DEF Paged
<1>4. /\ IsInjective(Dropped(ms))
      /\ Range(Owned(p)) = Range(Dropped(ms)) \cup Range(kernel_stack[p])
  BY FramesFacts
<1> HIDE DEF ms
<1>5. ms.areas \in Seq([vpn : Nat, ppn : Frames]) /\ Pages(ms) \in Seq(Nat)
  BY <1>1, SpaceParts, Zenon
<1>6. \A j \in 1 .. Len(ms.areas) : ms.pte[ms.areas[j].vpn] = ms.areas[j].ppn
  <2>1. \A j \in 1 .. Len(ms.areas) : ms.areas[j] \in Range(ms.areas)
    BY <1>5 DEF Range
  <2> QED
    BY <1>2, <2>1
<1>7. /\ \A v \in DOMAIN ms.pte : ms.pte[v] \in Frames /\ ms.pte[v] \in Range(Dropped(ms))
      /\ \A v, w \in DOMAIN ms.pte : ms.pte[v] = ms.pte[w] => v = w
  BY <1>1, <1>2, <1>4, <1>6, EntriesFacts
<1>8. \A v \in DOMAIN ms.pte : ms.pte[v] \in Frames /\ ms.pte[v] \in Range(Owned(p))
  BY <1>4, <1>7
<1> QED
  BY <1>1, <1>2, <1>3, <1>5, <1>6, <1>7, <1>8 DEF ms

(* A process whose frames a step leaves alone sees what it saw.            *)
LEMMA SettledStays ==
  ASSUME IInv, NEW q \in Procs,
         memory_set'[q] = memory_set[q], kernel_stack'[q] = kernel_stack[q],
         trap_cx_ppn'[q] = trap_cx_ppn[q], expected'[q] = expected[q],
         status'[q] = status[q],
         status[q] = "live" => \A f \in Range(Owned(q)) : mem'[f] = mem[f]
  PROVE  Settled(q)' /\ Owned(q)' = Owned(q)
<1>1. Owned(q)' = Owned(q)
  BY Zenon DEF Owned
<1>2. ASSUME status[q] = "live" PROVE Sees(q)' /\ Paged(memory_set'[q])
  <2> DEFINE ms == memory_set[q]
  <2>1. /\ Paged(ms)
        /\ \A v \in DOMAIN ms.pte : ms.pte[v] \in Range(Owned(q))
        /\ expected[q] = [v \in DOMAIN ms.pte |-> mem[ms.pte[v]]]
    BY <1>2, LiveFacts
  <2>2. [v \in DOMAIN ms.pte |-> mem[ms.pte[v]]] = [v \in DOMAIN ms.pte |-> mem'[ms.pte[v]]]
    BY <1>2, <2>1
  <2>3. Sees(q)
    BY <1>2 DEF IInv, Settled
  <2> QED
    BY <2>1, <2>2, <2>3, Zenon DEF Sees, translate
<1>3. ASSUME status[q] = "free" PROVE Range(Owned(q)) = {}
  BY <1>3 DEF IInv, Settled
<1> QED
  BY <1>1, <1>2, <1>3 DEF Settled

(* A process with a new address space sees what was put into it.           *)
LEMMA SeesNew ==
  ASSUME NEW p \in Procs, NEW ms \in Spaces, NEW e,
         memory_set'[p] = ms, trap_cx_ppn'[p] = ms.pte[TRAP_CONTEXT], expected'[p] = e,
         DOMAIN ms.pte = Range(Pages(ms)),
         \A j \in 1 .. Len(ms.areas) : ms.pte[ms.areas[j].vpn] = ms.areas[j].ppn,
         e = [v \in Range(Pages(ms)) |-> e[v]],
         \A v \in DOMAIN ms.pte : mem'[ms.pte[v]] = e[v]
  PROVE  Sees(p)'
<1>1. ms.areas \in Seq([vpn : Nat, ppn : Frames])
  BY SpaceParts, Zenon
<1>2. \A a \in Range(ms.areas) : ms.pte[a.vpn] = a.ppn
  <2>1. DOMAIN ms.areas = 1 .. Len(ms.areas)
    BY <1>1
  <2> QED
    BY <2>1 DEF Range
<1>3. [v \in DOMAIN ms.pte |-> mem'[ms.pte[v]]] = e
  OBVIOUS
<1> QED
  BY <1>2, <1>3 DEF Sees, translate

(* A step that leaves the memory alone, as running out of it does.         *)
LEMMA StutterStep ==
  ASSUME IInv, UNCHANGED <<frame_current, frame_recycled, mem, memory_set, trap_cx_ppn,
                           kernel_stack, status, expected>>
  PROVE  IInv'
<1>1. TypeOK' /\ FramesExact'
  BY DEF IInv, TypeOK, FramesExact, Owned
<1>2. \A p \in Procs : Settled(p)'
  <2> SUFFICES ASSUME NEW p \in Procs PROVE Settled(p)'
    OBVIOUS
  <2> QED
    BY SettledStays
<1> QED
  BY <1>1, <1>2 DEF IInv

(* Frames just allocated are nobody's.                                     *)
LEMMA FreshFacts ==
  ASSUME IInv, NEW n \in Nat, n <= Available, NEW freed, Allocate(n, freed)
  PROVE  LET fs == frame_alloc(n)
         IN  /\ fs \in Seq(Frames) /\ Len(fs) = n /\ IsInjective(fs)
             /\ frame_current' \in Nat /\ frame_current <= frame_current'
             /\ frame_current' <= MEMORY_END
             /\ \A q \in Procs : Range(fs) \cap Range(Owned(q)) = {}
             /\ \E rest \in Seq(Frames) :
                  /\ frame_recycled' = rest \o freed
                  /\ IsInjective(rest)
                  /\ Range(rest) \cap Range(fs) = {}
                  /\ Range(rest) \cup Range(fs) =
                       Range(frame_recycled) \cup (frame_current .. frame_current' - 1)
                  /\ \A q \in Procs : Range(rest) \cap Range(Owned(q)) = {}
<1> DEFINE fs == frame_alloc(n)
           R == Range(frame_recycled)
           c == frame_current
           d == frame_current'
<1>1. /\ frame_recycled \in Seq(Frames) /\ c \in Nat \ {0} /\ IsInjective(frame_recycled)
      /\ c <= MEMORY_END /\ MEMORY_END \in Nat /\ R \subseteq 1 .. c - 1
  BY FramesFacts DEF IInv, TypeOK
<1>2. \A q \in Procs : Range(Owned(q)) \subseteq 1 .. c - 1 /\ Range(Owned(q)) \cap R = {}
  BY FramesFacts
<1>3. /\ fs \in Seq(Frames) /\ Len(fs) = n /\ IsInjective(fs)
      /\ d \in Nat /\ c <= d /\ d <= MEMORY_END
      /\ \E rest \in Seq(Frames) :
           /\ frame_recycled' = rest \o freed
           /\ IsInjective(rest)
           /\ Range(rest) \cap Range(fs) = {}
           /\ Range(rest) \cup Range(fs) = R \cup (c .. d - 1)
  BY <1>1, AllocFacts, Zenon
<1>4. PICK rest \in Seq(Frames) : /\ frame_recycled' = rest \o freed
                                  /\ IsInjective(rest)
                                  /\ Range(rest) \cap Range(fs) = {}
                                  /\ Range(rest) \cup Range(fs) = R \cup (c .. d - 1)
  BY <1>3, Zenon
<1>5. \A q \in Procs : Range(Owned(q)) \cap (R \cup (c .. d - 1)) = {}
  <2>0. c \in Nat /\ d \in Nat
    BY <1>1, <1>3
  <2> HIDE DEF R, c, d
  <2>1. \A f \in 1 .. c - 1 : f \notin c .. d - 1
    BY <2>0
  <2> QED
    BY <1>2, <2>1
<1> HIDE DEF R, c, d, fs
<1>6. \A q \in Procs : Range(fs) \cap Range(Owned(q)) = {} /\ Range(rest) \cap Range(Owned(q)) = {}
  BY <1>4, <1>5
<1> QED
  BY <1>3, <1>4, <1>6, Zenon DEF R, c, d, fs

(* The contents of the frames of a new address space: what is written into *)
(* them, and zeros elsewhere; all other frames keep theirs.                *)
LEMMA BuiltFacts ==
  ASSUME IInv, NEW pages \in Seq(Nat), IsInjective(pages),
         NEW fs \in Seq(Frames), IsInjective(fs), Needed(pages) <= Len(fs),
         NEW cs, DOMAIN cs \subseteq Range(pages)
  PROVE  LET new == Space(pages, fs)
             built_mem == Put(Cleared(fs), new, cs)
         IN  /\ DOMAIN built_mem = Frames
             /\ \A v \in Range(pages) : /\ new.pte[v] \in Frames /\ new.pte[v] \in Range(fs)
                                        /\ built_mem[new.pte[v]] =
                                             IF v \in DOMAIN cs THEN cs[v] ELSE "zero"
             /\ \A v, w \in Range(pages) : new.pte[v] = new.pte[w] => v = w
             /\ \A f \in Frames : f \notin Range(fs) => built_mem[f] = mem[f]
<1> DEFINE new == Space(pages, fs)
           put == Put(Cleared(fs), new, cs)
           e(v) == new.pte[v]
<1>1. /\ new \in Spaces /\ IsInjective(Dropped(new))
      /\ Range(Dropped(new)) = {fs[i] : i \in 1 .. Needed(pages)}
      /\ Pages(new) = pages /\ DOMAIN new.pte = Range(pages)
      /\ \A j \in 1 .. Len(new.areas) : new.pte[new.areas[j].vpn] = new.areas[j].ppn
  BY SpaceFacts
<1>2. /\ \A v \in DOMAIN new.pte : /\ new.pte[v] \in Frames
                                   /\ new.pte[v] \in Range(Dropped(new))
      /\ \A v, w \in DOMAIN new.pte : new.pte[v] = new.pte[w] => v = w
  <2> HIDE DEF new
  <2> QED
    BY <1>1, EntriesFacts
<1>3. \A x \in Range(Dropped(new)) : x \in Range(fs)
  <2>1. Needed(pages) \in Nat
    BY PageAtFacts
  <2>2. \A i \in 1 .. Needed(pages) : i \in DOMAIN fs
    BY <2>1
  <2> QED
    BY <1>1, <2>2, Zenon DEF Range
<1>4. /\ DOMAIN put = Frames
      /\ \A v \in DOMAIN cs : put[e(v)] = cs[v]
      /\ \A f \in Frames : (\A v \in DOMAIN cs : e(v) # f) => put[f] = Cleared(fs)[f]
  <2>1. \A v \in DOMAIN cs : new.pte[v] \in Frames
    BY <1>1, <1>2
  <2>2. \A v, w \in DOMAIN cs : new.pte[v] = new.pte[w] => v = w
    BY <1>1, <1>2
  <2> HIDE DEF new
  <2>3. Apart(new, cs)
    BY <2>1, <2>2, Zenon DEF Apart
  <2>4. IsPut(Put(Cleared(fs), new, cs), Cleared(fs), new, cs)
    BY <2>3, PutFacts, Zenon
  <2> QED
    BY <2>4, Zenon DEF IsPut
<1>5. \A f \in Frames : Cleared(fs)[f] = IF f \in Range(fs) THEN "zero" ELSE mem[f]
  BY DEF Cleared
<1>6. /\ \A v \in Range(pages) : e(v) \in Frames /\ e(v) \in Range(fs)
      /\ \A v, w \in Range(pages) : e(v) = e(w) => v = w
  BY <1>1, <1>2, <1>3
<1>7. \A v \in DOMAIN cs : v \in Range(pages)
  OBVIOUS
<1> HIDE DEF put, e, new
<1>8. ASSUME NEW v \in Range(pages)
      PROVE  put[e(v)] = IF v \in DOMAIN cs THEN cs[v] ELSE "zero"
  <2>1. CASE v \in DOMAIN cs
    BY <1>4, <2>1
  <2>2. CASE v \notin DOMAIN cs
    <3>1. \A w \in DOMAIN cs : e(w) # e(v)
      BY <1>6, <1>7, <2>2
    <3> QED
      BY <1>4, <1>5, <1>6, <2>2, <3>1
  <2> QED
    BY <2>1, <2>2
<1>9. ASSUME NEW f \in Frames, f \notin Range(fs) PROVE put[f] = mem[f]
  <2>1. \A v \in DOMAIN cs : e(v) # f
    BY <1>6, <1>7, <1>9
  <2> QED
    BY <1>4, <1>5, <1>9, <2>1
<1> QED
  BY <1>4, <1>6, <1>8, <1>9 DEF put, e, new

-----------------------------------------------------------------------------
(* exec: the new address space takes fresh frames, the old one's go back.  *)
LEMMA ExecStep ==
  ASSUME IInv, NEW p \in Procs, NEW n \in ImageSizes, exec(p, n)
  PROVE  IInv'
<1> DEFINE pages == ElfPages(n)
           N == Needed(pages)
           fs == frame_alloc(N)
           new == Space(pages, fs)
           old == memory_set[p]
<1>1. CASE N > Available
  <2>1. OutOfMemory
    BY <1>1 DEF exec
  <2> QED
    BY <2>1, StutterStep DEF OutOfMemory
<1>2. CASE ~(N > Available)
  <2>1. /\ status[p] = "live" /\ Allocate(N, Dropped(old))
        /\ mem' = Put(Cleared(fs), new, Written(n))
        /\ memory_set' = [memory_set EXCEPT ![p] = new]
        /\ trap_cx_ppn' = [trap_cx_ppn EXCEPT ![p] = new.pte[TRAP_CONTEXT]]
        /\ expected' = [expected EXCEPT ![p] = ElfContents(n)]
        /\ kernel_stack' = kernel_stack /\ status' = status
    BY <1>2 DEF exec, ReplacedBy
  <2>2. TypeOK
    BY DEF IInv
  <2>3. /\ pages \in Seq(Nat) /\ IsInjective(pages) /\ TRAP_CONTEXT \in Range(pages)
        /\ \E v \in Range(pages) : v < TRAP_CONTEXT
        /\ n \in Nat /\ TRAP_CONTEXT \in Nat
    BY ElfFacts
  <2>4. N \in Nat
    BY <2>3, PageAtFacts
  <2>5. N <= Available
    <3>1. Available \in Int
      <4>1. frame_current \in Nat /\ frame_recycled \in Seq(Frames)
        BY <2>2, Zenon DEF TypeOK
      <4>2. MEMORY_END \in Nat
        BY FramesFacts
      <4> QED
        BY <4>1, <4>2 DEF Available
    <3> QED
      BY <1>2, <2>4, <3>1
  <2> HIDE DEF pages, N
  <2>6. /\ fs \in Seq(Frames) /\ Len(fs) = N /\ IsInjective(fs)
        /\ frame_current' \in Nat /\ frame_current <= frame_current'
        /\ frame_current' <= MEMORY_END
        /\ \A q \in Procs : Range(fs) \cap Range(Owned(q)) = {}
        /\ \E rest \in Seq(Frames) :
             /\ frame_recycled' = rest \o Dropped(old)
             /\ IsInjective(rest)
             /\ Range(rest) \cap Range(fs) = {}
             /\ Range(rest) \cup Range(fs) =
                  Range(frame_recycled) \cup (frame_current .. frame_current' - 1)
             /\ \A q \in Procs : Range(rest) \cap Range(Owned(q)) = {}
    BY <2>1, <2>4, <2>5, FreshFacts, Zenon
  <2> HIDE DEF fs
  <2>7. PICK rest \in Seq(Frames) :
          /\ frame_recycled' = rest \o Dropped(old)
          /\ IsInjective(rest)
          /\ Range(rest) \cap Range(fs) = {}
          /\ Range(rest) \cup Range(fs) =
               Range(frame_recycled) \cup (frame_current .. frame_current' - 1)
          /\ \A q \in Procs : Range(rest) \cap Range(Owned(q)) = {}
    BY <2>6, Zenon
  <2>a. fs \in Seq(Frames) /\ Len(fs) = N /\ IsInjective(fs)
    BY <2>6, Zenon
  <2>b. frame_current' \in Nat /\ frame_current <= frame_current' /\ frame_current' <= MEMORY_END
    BY <2>6, Zenon
  <2>c. \A q \in Procs : Range(fs) \cap Range(Owned(q)) = {}
    BY <2>6, Zenon
  <2>d. pages \in Seq(Nat) /\ IsInjective(pages) /\ TRAP_CONTEXT \in Range(pages)
    BY <2>3, Zenon
  <2>8. N <= Len(fs) /\ Range(fs) = {fs[i] : i \in 1 .. N}
    <3>1. DOMAIN fs = 1 .. N /\ N <= N
      BY <2>4, <2>a
    <3> QED
      BY <2>a, <3>1 DEF Range
  <2>9. /\ new \in Spaces /\ IsInjective(Dropped(new)) /\ Range(Dropped(new)) = Range(fs)
        /\ Pages(new) = pages /\ DOMAIN new.pte = Range(pages)
        /\ \A j \in 1 .. Len(new.areas) : new.pte[new.areas[j].vpn] = new.areas[j].ppn
    <3>1. Needed(pages) <= Len(fs) /\ Range(fs) = {fs[i] : i \in 1 .. Needed(pages)}
      BY <2>8 DEF N
    <3> QED
      BY <2>a, <2>d, <3>1, SpaceFacts, Zenon
  <2>10. /\ DOMAIN Written(n) = {v \in Range(pages) : v < n \/ v = TRAP_CONTEXT}
         /\ ElfContents(n) = [v \in Range(pages) |-> ElfContents(n)[v]]
         /\ \A v \in Range(pages) : ElfContents(n)[v] =
              IF v \in DOMAIN Written(n) THEN Written(n)[v] ELSE "zero"
    BY DEF Written, ElfContents, pages
  <2>11. /\ DOMAIN mem' = Frames
         /\ \A v \in Range(pages) : /\ new.pte[v] \in Frames /\ new.pte[v] \in Range(fs)
                                    /\ mem'[new.pte[v]] =
                                         IF v \in DOMAIN Written(n) THEN Written(n)[v] ELSE "zero"
         /\ \A f \in Frames : f \notin Range(fs) => mem'[f] = mem[f]
    <3> DEFINE cs == Written(n)
               put == Put(Cleared(fs), new, cs)
    <3>1. DOMAIN cs \subseteq Range(pages)
      BY <2>10
    <3> HIDE DEF cs
    <3>2. Needed(pages) <= Len(fs)
      BY <2>8 DEF N
    <3>3. /\ DOMAIN put = Frames
          /\ \A v \in Range(pages) : /\ new.pte[v] \in Frames /\ new.pte[v] \in Range(fs)
                                     /\ put[new.pte[v]] = IF v \in DOMAIN cs THEN cs[v] ELSE "zero"
          /\ \A v, w \in Range(pages) : new.pte[v] = new.pte[w] => v = w
          /\ \A f \in Frames : f \notin Range(fs) => put[f] = mem[f]
      BY <2>a, <2>d, <3>1, <3>2, BuiltFacts, ZenonT(40)
    <3> HIDE DEF put
    <3> QED
      BY <2>1, <3>3 DEF put, cs
  <2> HIDE DEF new
  <2>12. TypeOK'
    <3>1. /\ old \in Spaces /\ Dropped(old) \in Seq(Frames)
      BY <2>2, SpaceParts DEF TypeOK
    <3>2. frame_recycled' \in Seq(Frames)
      BY <2>7, <3>1, ConcatFacts, Zenon
    <3>3. frame_current' \in Nat \ {0}
      <4>1. frame_current \in Nat \ {0}
        BY <2>2, Zenon DEF TypeOK
      <4> QED
        BY <2>b, <4>1
    <3>4. memory_set' \in [Procs -> Spaces]
      BY <2>1, <2>2, <2>9, Zenon DEF TypeOK
    <3> QED
      BY <2>1, <2>2, <2>11, <3>2, <3>3, <3>4, Zenon DEF TypeOK
  <2>13. /\ memory_set'[p] = new /\ trap_cx_ppn'[p] = new.pte[TRAP_CONTEXT]
         /\ expected'[p] = ElfContents(n)
         /\ \A q \in Procs \ {p} : /\ memory_set'[q] = memory_set[q]
                                   /\ trap_cx_ppn'[q] = trap_cx_ppn[q]
                                   /\ expected'[q] = expected[q]
    BY <2>1, <2>2, Zenon DEF TypeOK
  <2>14. \A q \in Procs \ {p} : Settled(q)' /\ Owned(q)' = Owned(q)
    <3> SUFFICES ASSUME NEW q \in Procs \ {p} PROVE Settled(q)' /\ Owned(q)' = Owned(q)
      OBVIOUS
    <3>1. Owned(q) \in Seq(Frames)
      BY FramesFacts
    <3>2. \A f \in Range(Owned(q)) : f \in Frames
      BY <3>1 DEF Range
    <3>3. \A f \in Range(Owned(q)) : mem'[f] = mem[f]
      BY <2>c, <2>11, <3>2, Zenon
    <3> QED
      BY <2>1, <2>13, <3>3, SettledStays, Zenon
  <2>15. Settled(p)'
    <3>1. \A v \in DOMAIN new.pte : mem'[new.pte[v]] = ElfContents(n)[v]
      BY <2>9, <2>10, <2>11, Zenon
    <3>2. Sees(p)'
      <4> DEFINE E == ElfContents(n)
      <4> HIDE DEF E
      <4>1. /\ new \in Spaces /\ memory_set'[p] = new /\ trap_cx_ppn'[p] = new.pte[TRAP_CONTEXT]
            /\ expected'[p] = E
            /\ \A j \in 1 .. Len(new.areas) : new.pte[new.areas[j].vpn] = new.areas[j].ppn
        BY <2>9, <2>13, Zenon DEF E
      <4>2. DOMAIN new.pte = Range(Pages(new))
        BY <2>9, Zenon
      <4>3. Pages(new) = pages
        BY <2>9, Zenon
      <4>4. E = [v \in Range(Pages(new)) |-> E[v]]
        BY <2>10, <4>3 DEF E
      <4>5. \A v \in DOMAIN new.pte : mem'[new.pte[v]] = E[v]
        BY <3>1 DEF E
      <4> QED
        BY <4>1, <4>2, <4>4, <4>5, SeesNew, SMTT(30)
    <3>3. Paged(new)
      BY <2>3, <2>9, Zenon DEF Paged
    <3> QED
      BY <2>1, <2>13, <3>2, <3>3, Zenon DEF Settled
  <2>16. FramesExact'
    <3> DEFINE ks == kernel_stack[p]
    <3>1. /\ old \in Spaces /\ Dropped(old) \in Seq(Frames) /\ ks \in Seq(Frames)
          /\ Dropped(new) \in Seq(Frames)
      BY <2>2, <2>9, SpaceParts, Zenon DEF TypeOK
    <3>2. /\ IsInjective(Dropped(old)) /\ IsInjective(ks)
          /\ Range(Dropped(old)) \cap Range(ks) = {}
          /\ Range(Owned(p)) = Range(Dropped(old)) \cup Range(ks)
          /\ Range(Owned(p)) \cap Range(frame_recycled) = {}
      BY FramesFacts, Zenon
    <3>3. Owned(p)' = Dropped(new) \o ks
      BY <2>1, <2>13, Zenon DEF Owned
    <3> HIDE DEF ks, old
    <3>4. Range(Owned(p)') = Range(fs) \cup Range(ks) /\ IsInjective(Owned(p)')
      <4>1. Range(fs) \cap Range(ks) = {}
        BY <2>c, <3>2, Zenon
      <4> DEFINE D == Dropped(new)
      <4>2. D \in Seq(Frames) /\ ks \in Seq(Frames) /\ IsInjective(D) /\ IsInjective(ks) /\ Range(D) = Range(fs)
        BY <2>9, <3>1, <3>2, Zenon
      <4>3. Owned(p)' = D \o ks
        BY <3>3
      <4> HIDE DEF D
      <4>4. /\ Range(D \o ks) = Range(D) \cup Range(ks)
            /\ IsInjective(D \o ks) <=> /\ IsInjective(D) /\ IsInjective(ks)
                                        /\ Range(D) \cap Range(ks) = {}
        BY <4>2, ConcatRange
      <4> QED
        BY <4>1, <4>2, <4>3, <4>4
    <3>5. /\ Range(frame_recycled') = Range(rest) \cup Range(Dropped(old))
          /\ IsInjective(frame_recycled')
      <4>1. Range(rest) \cap Range(Dropped(old)) = {}
        BY <2>7, <3>2, Zenon
      <4> DEFINE D == Dropped(old)
      <4>2. D \in Seq(Frames) /\ IsInjective(D) /\ IsInjective(rest)
        BY <2>7, <3>1, <3>2, Zenon
      <4>3. frame_recycled' = rest \o D
        BY <2>7, Zenon
      <4> HIDE DEF D
      <4>4. /\ Range(rest \o D) = Range(rest) \cup Range(D)
            /\ IsInjective(rest \o D) <=> /\ IsInjective(rest) /\ IsInjective(D)
                                          /\ Range(rest) \cap Range(D) = {}
        BY <4>2, ConcatRange
      <4> QED
        BY <4>1, <4>2, <4>3, <4>4 DEF D
    <3>6. Range(Owned(p)') \cap Range(frame_recycled') = {}
      BY <2>6, <2>7, <3>2, <3>4, <3>5, Zenon
    <3>7. Range(Owned(p)') \cup Range(frame_recycled') =
            Range(Owned(p)) \cup Range(frame_recycled) \cup (frame_current .. frame_current' - 1)
      BY <2>7, <3>2, <3>4, <3>5, Zenon
    <3>8. \A q \in Procs \ {p} : Range(Owned(q)') = Range(Owned(q)) /\ IsInjective(Owned(q)')
      BY <2>14 DEF IInv, FramesExact
    <3> QED
      BY <2>6, <3>4, <3>5, <3>6, <3>7, <3>8, FramesStep, ZenonT(40)
  <2> QED
    BY <2>12, <2>14, <2>15, <2>16, Zenon DEF IInv
<1> QED
  BY <1>1, <1>2

(* fork: the child takes fresh frames and finds its parent's pages there;  *)
(* of the parent's own only the trap context is written.                   *)
LEMMA ForkStep ==
  ASSUME IInv, NEW p \in Procs, NEW child \in Procs, fork(p, child)
  PROVE  IInv'
<1> DEFINE ms == memory_set[p]
           pages == Pages(ms)
           N == Needed(pages)
           M == N + KERNEL_STACK
           fs == frame_alloc(M)
           new == Space(pages, fs)
           cs == [vpn \in Range(pages) |-> mem[translate(p, vpn)]]
           copied == Put(Cleared(fs), new, cs)
           ks == [j \in 1 .. KERNEL_STACK |-> fs[N + j]]
<1>1. CASE M > Available
  <2>1. OutOfMemory
    BY <1>1 DEF fork
  <2> QED
    BY <2>1, StutterStep DEF OutOfMemory
<1>2. CASE ~(M > Available)
  <2>1. /\ status[p] = "live" /\ status[child] = "free"
        /\ Allocate(M, << >>)
        /\ mem' = [copied EXCEPT ![new.pte[TRAP_CONTEXT]] = "child",
                                 ![trap_cx_ppn[p]] = "parent"]
        /\ memory_set' = [memory_set EXCEPT ![child] = new]
        /\ trap_cx_ppn' = [trap_cx_ppn EXCEPT ![child] = new.pte[TRAP_CONTEXT]]
        /\ kernel_stack' = [kernel_stack EXCEPT ![child] = ks]
        /\ status' = [status EXCEPT ![child] = "live"]
        /\ expected' = [expected EXCEPT
              ![child] = [expected[p] EXCEPT ![TRAP_CONTEXT] = "child"],
              ![p] = [@ EXCEPT ![TRAP_CONTEXT] = "parent"]]
    BY <1>2 DEF fork
  <2>2. TypeOK /\ p # child
    BY <2>1, Zenon DEF IInv
  <2>3. /\ ms \in Spaces /\ pages \in Seq(Nat) /\ Paged(ms)
        /\ DOMAIN ms.pte = Range(pages) /\ TRAP_CONTEXT \in Range(pages)
        /\ \A j \in 1 .. Len(ms.areas) : ms.pte[ms.areas[j].vpn] = ms.areas[j].ppn
        /\ \A v \in Range(pages) : ms.pte[v] \in Frames /\ ms.pte[v] \in Range(Owned(p))
        /\ \A v, w \in Range(pages) : ms.pte[v] = ms.pte[w] => v = w
        /\ trap_cx_ppn[p] = ms.pte[TRAP_CONTEXT]
        /\ expected[p] = [v \in Range(pages) |-> mem[ms.pte[v]]]
    BY <2>1, LiveFacts, ZenonT(40)
  <2>4. IsInjective(pages)
    BY <2>3 DEF Paged
  <2>5. N \in Nat /\ KERNEL_STACK \in Nat /\ M \in Nat
    <3>1. pages \in Seq(Nat)
      BY <2>3, Zenon
    <3>2. N \in Nat
      BY <3>1, PageAtFacts, Zenon
    <3>3. KERNEL_STACK \in Nat
      BY SpacesAssumption, Zenon
    <3> HIDE DEF N
    <3> QED
      BY <3>2, <3>3
  <2>6. M <= Available
    <3>1. Available \in Int
      <4>1. frame_current \in Nat /\ frame_recycled \in Seq(Frames)
        BY <2>2, Zenon DEF TypeOK
      <4>2. MEMORY_END \in Nat
        BY FramesFacts
      <4> QED
        BY <4>1, <4>2 DEF Available
    <3> QED
      BY <1>2, <2>5, <3>1
  <2>7. DOMAIN cs = Range(pages) /\ \A v \in Range(pages) : cs[v] = expected[p][v]
    BY <2>3 DEF translate
  <2> HIDE DEF ms, pages, N, M, cs
  <2>8. /\ fs \in Seq(Frames) /\ Len(fs) = M /\ IsInjective(fs)
        /\ frame_current' \in Nat /\ frame_current <= frame_current'
        /\ frame_current' <= MEMORY_END
        /\ \A q \in Procs : Range(fs) \cap Range(Owned(q)) = {}
        /\ \E rest \in Seq(Frames) :
             /\ frame_recycled' = rest \o << >>
             /\ IsInjective(rest)
             /\ Range(rest) \cap Range(fs) = {}
             /\ Range(rest) \cup Range(fs) =
                  Range(frame_recycled) \cup (frame_current .. frame_current' - 1)
             /\ \A q \in Procs : Range(rest) \cap Range(Owned(q)) = {}
    BY <2>1, <2>5, <2>6, FreshFacts, Zenon
  <2> HIDE DEF fs
  <2>a. fs \in Seq(Frames) /\ Len(fs) = M /\ IsInjective(fs)
    BY <2>8, Zenon
  <2>b. frame_current' \in Nat /\ frame_current <= frame_current' /\ frame_current' <= MEMORY_END
    BY <2>8, Zenon
  <2>c. \A q \in Procs : Range(fs) \cap Range(Owned(q)) = {}
    BY <2>8, Zenon
  <2>d. pages \in Seq(Nat) /\ IsInjective(pages)
    BY <2>3, <2>4, Zenon
  <2>9. PICK rest \in Seq(Frames) :
          /\ frame_recycled' = rest \o << >>
          /\ IsInjective(rest)
          /\ Range(rest) \cap Range(fs) = {}
          /\ Range(rest) \cup Range(fs) =
               Range(frame_recycled) \cup (frame_current .. frame_current' - 1)
    BY <2>8
  <2>10. frame_recycled' = rest
    BY <2>9
  <2>11. Needed(pages) <= Len(fs)
    BY <2>5, <2>a DEF N, M
  <2>12. /\ new \in Spaces /\ IsInjective(Dropped(new))
         /\ Range(Dropped(new)) = {fs[i] : i \in 1 .. N}
         /\ Pages(new) = pages /\ DOMAIN new.pte = Range(pages)
         /\ \A j \in 1 .. Len(new.areas) : new.pte[new.areas[j].vpn] = new.areas[j].ppn
    BY <2>a, <2>d, <2>11, SpaceFacts, Zenon DEF N
  <2>13. /\ DOMAIN copied = Frames
         /\ \A v \in Range(pages) : /\ new.pte[v] \in Frames /\ new.pte[v] \in Range(fs)
                                    /\ copied[new.pte[v]] =
                                         IF v \in DOMAIN cs THEN cs[v] ELSE "zero"
         /\ \A v, w \in Range(pages) : new.pte[v] = new.pte[w] => v = w
         /\ \A f \in Frames : f \notin Range(fs) => copied[f] = mem[f]
    <3>1. DOMAIN cs \subseteq Range(pages)
      BY <2>7
    <3> QED
      BY <2>a, <2>d, <2>11, <3>1, BuiltFacts, Zenon
  <2> HIDE DEF copied, new
  <2>14. /\ DOMAIN mem' = Frames
         /\ \A f \in Frames : mem'[f] = IF f = trap_cx_ppn[p] THEN "parent"
                                        ELSE IF f = new.pte[TRAP_CONTEXT] THEN "child"
                                        ELSE copied[f]
    BY <2>1, <2>13
  <2>15. /\ memory_set'[child] = new /\ trap_cx_ppn'[child] = new.pte[TRAP_CONTEXT]
         /\ kernel_stack'[child] = ks /\ status'[child] = "live"
         /\ expected'[child] = [expected[p] EXCEPT ![TRAP_CONTEXT] = "child"]
         /\ expected'[p] = [expected[p] EXCEPT ![TRAP_CONTEXT] = "parent"]
         /\ \A q \in Procs \ {child} : /\ memory_set'[q] = memory_set[q]
                                       /\ trap_cx_ppn'[q] = trap_cx_ppn[q]
                                       /\ kernel_stack'[q] = kernel_stack[q]
                                       /\ status'[q] = status[q]
         /\ \A q \in Procs \ {child, p} : expected'[q] = expected[q]
    BY <2>1, <2>2, Zenon DEF TypeOK
  <2>16. \A q \in Procs : Owned(q) \in Seq(Frames) /\ \A f \in Range(Owned(q)) : f \in Frames
    <3>1. \A q \in Procs : Owned(q) \in Seq(Frames)
      BY FramesFacts
    <3> QED
      BY <3>1 DEF Range
  <2>17. trap_cx_ppn[p] \in Range(Owned(p)) /\ new.pte[TRAP_CONTEXT] \in Range(fs)
    BY <2>3, <2>13
  <2>18. \A q \in Procs \ {child, p} : Settled(q)'
    <3> SUFFICES ASSUME NEW q \in Procs \ {child, p} PROVE Settled(q)'
      OBVIOUS
    <3>1. Range(Owned(q)) \cap Range(Owned(p)) = {} /\ Range(fs) \cap Range(Owned(q)) = {}
      BY <2>8 DEF IInv, FramesExact
    <3>2. \A f \in Range(Owned(q)) : mem'[f] = mem[f]
      BY <2>13, <2>14, <2>16, <2>17, <3>1, ZenonT(40)
    <3> QED
      BY <2>15, <3>2, SettledStays
  <2>19. Settled(p)'
    <3> DEFINE e == [expected[p] EXCEPT ![TRAP_CONTEXT] = "parent"]
    <3>1. /\ e = [v \in Range(pages) |-> e[v]]
          /\ \A v \in Range(pages) : e[v] = IF v = TRAP_CONTEXT THEN "parent" ELSE mem[ms.pte[v]]
      BY <2>3
    <3>2. ASSUME NEW v \in Range(pages) PROVE mem'[ms.pte[v]] = e[v]
      <4>1. ms.pte[v] \in Frames /\ ms.pte[v] \notin Range(fs)
        BY <2>3, <2>8, Zenon
      <4>2. copied[ms.pte[v]] = mem[ms.pte[v]] /\ ms.pte[v] # new.pte[TRAP_CONTEXT]
        BY <2>13, <2>17, <4>1, Zenon
      <4>3. ms.pte[v] = trap_cx_ppn[p] <=> v = TRAP_CONTEXT
        BY <2>3, Zenon
      <4> HIDE DEF e
      <4> QED
        BY <2>14, <3>1, <4>1, <4>2, <4>3, ZenonT(40)
    <3> HIDE DEF e
    <3>3. memory_set'[p] = ms /\ trap_cx_ppn'[p] = ms.pte[TRAP_CONTEXT] /\ expected'[p] = e
      BY <2>2, <2>3, <2>15, ZenonT(40) DEF ms, e
    <3>4. DOMAIN ms.pte = Range(Pages(ms)) /\ Range(Pages(ms)) = Range(pages)
      BY <2>3 DEF pages
    <3>7. /\ ms \in Spaces /\ e = [v \in Range(Pages(ms)) |-> e[v]]
          /\ \A j \in 1 .. Len(ms.areas) : ms.pte[ms.areas[j].vpn] = ms.areas[j].ppn
          /\ \A v \in DOMAIN ms.pte : mem'[ms.pte[v]] = e[v]
      BY <2>3, <3>1, <3>2, <3>4, ZenonT(40)
    <3>5. Sees(p)'
      <4>1. DOMAIN ms.pte = Range(Pages(ms))
        BY <3>4, Zenon
      <4> QED
        BY <3>3, <3>7, <4>1, SeesNew, SMTT(30)
    <3>6. status'[p] = "live" /\ Paged(memory_set'[p])
      BY <2>1, <2>2, <2>3, <2>15, <3>3, ZenonT(40)
    <3> QED
      BY <3>5, <3>6, Zenon DEF Settled
  <2>20. Settled(child)'
    <3> DEFINE e == [expected[p] EXCEPT ![TRAP_CONTEXT] = "child"]
    <3>1. /\ e = [v \in Range(pages) |-> e[v]]
          /\ \A v \in Range(pages) : e[v] = IF v = TRAP_CONTEXT THEN "child" ELSE cs[v]
      BY <2>3, <2>7, Zenon
    <3> HIDE DEF e
    <3>2. ASSUME NEW v \in Range(pages) PROVE mem'[new.pte[v]] = e[v]
      <4>1. new.pte[v] \in Frames /\ new.pte[v] \in Range(fs) /\ copied[new.pte[v]] = cs[v]
        BY <2>7, <2>13
      <4>2. new.pte[v] # trap_cx_ppn[p]
        BY <2>8, <2>17, <4>1, ZenonT(40)
      <4>3. new.pte[v] = new.pte[TRAP_CONTEXT] <=> v = TRAP_CONTEXT
        BY <2>3, <2>13, Zenon
      <4> QED
        BY <2>14, <3>1, <4>1, <4>2, <4>3, ZenonT(40)
    <3>3. memory_set'[child] = new /\ trap_cx_ppn'[child] = new.pte[TRAP_CONTEXT]
          /\ expected'[child] = e
      BY <2>15, Zenon DEF e
    <3>4. Sees(child)'
      <4>1. /\ new \in Spaces /\ Pages(new) = pages
            /\ \A j \in 1 .. Len(new.areas) : new.pte[new.areas[j].vpn] = new.areas[j].ppn
        BY <2>12, Zenon
      <4>2. DOMAIN new.pte = Range(pages)
        BY <2>12, Zenon
      <4>3. DOMAIN new.pte = Range(Pages(new)) /\ e = [v \in Range(Pages(new)) |-> e[v]]
        BY <3>1, <4>1, <4>2
      <4>4. \A v \in DOMAIN new.pte : mem'[new.pte[v]] = e[v]
        BY <3>2, <4>2
      <4> QED
        BY <3>3, <4>1, <4>3, <4>4, SeesNew, SMTT(30)
    <3>5. Paged(new)
      BY <2>3, <2>12, Zenon DEF Paged, pages
    <3> QED
      BY <2>15, <3>3, <3>4, <3>5, ZenonT(40) DEF Settled
  <2>21. ks \in Seq(Frames) /\ DOMAIN ks = 1 .. KERNEL_STACK
         /\ \A j \in 1 .. KERNEL_STACK : ks[j] = fs[N + j] /\ N + j \in 1 .. M /\ N + j \notin 1 .. N
    <3>1. \A j \in 1 .. KERNEL_STACK : N + j \in 1 .. M /\ N + j \notin 1 .. N
      BY <2>5 DEF M
    <3>2. \A i \in 1 .. M : fs[i] \in Frames
      BY <2>8
    <3>3. ks \in [1 .. KERNEL_STACK -> Frames]
      BY <3>1, <3>2
    <3> QED
      BY <2>5, <3>1, <3>3, FunctionIsSeq, ZenonT(40)
  <2>22. TypeOK'
    <3>1. frame_current' \in Nat \ {0}
      <4>1. frame_current \in Nat \ {0}
        BY <2>2, Zenon DEF TypeOK
      <4> QED
        BY <2>b, <4>1
    <3>2. memory_set' \in [Procs -> Spaces]
      BY <2>1, <2>2, <2>12, Zenon DEF TypeOK
    <3>3. kernel_stack' \in [Procs -> Seq(Frames)]
      <4> HIDE DEF ks
      <4> QED
        BY <2>1, <2>2, <2>21, Zenon DEF TypeOK
    <3>4. DOMAIN trap_cx_ppn' = Procs /\ DOMAIN expected' = Procs
          /\ status' \in [Procs -> {"free", "live", "zombie"}]
      BY <2>1, <2>2, Zenon DEF TypeOK
    <3> QED
      BY <2>10, <2>14, <3>1, <3>2, <3>3, <3>4 DEF TypeOK
  <2>23. FramesExact'
    <3>1. Owned(child)' = Dropped(new) \o ks /\ Dropped(new) \in Seq(Frames)
      BY <2>12, <2>15, SpaceParts DEF Owned
    <3>2. DOMAIN fs = 1 .. M /\ \A i, j \in 1 .. M : fs[i] = fs[j] => i = j
      <4>1. DOMAIN fs = 1 .. M
        BY <2>8
      <4> QED
        BY <2>8, <4>1, Zenon DEF IsInjective
    <3>3. IsInjective(ks)
      <4>1. \A i, j \in 1 .. KERNEL_STACK : N + i = N + j => i = j
        BY <2>5
      <4> HIDE DEF ks
      <4> QED
        BY <2>21, <3>2, <4>1 DEF IsInjective
    <3>4. /\ \A i \in 1 .. N : i \in 1 .. M
          /\ \A i \in 1 .. M : i \in 1 .. N \/ (i - N \in 1 .. KERNEL_STACK /\ N + (i - N) = i)
      BY <2>5 DEF M
    <3> HIDE DEF ks
    <3>5. Range(Dropped(new)) \cap Range(ks) = {}
      <4>1. \A i \in 1 .. N, j \in 1 .. KERNEL_STACK : fs[i] # ks[j]
        BY <2>21, <3>2, <3>4
      <4>2. Range(Dropped(new)) = {fs[i] : i \in 1 .. N}
        BY <2>12, Zenon
      <4>3. \A x \in Range(ks) : \E j \in 1 .. KERNEL_STACK : x = ks[j]
        BY <2>21 DEF Range
      <4> QED
        BY <4>1, <4>2, <4>3
    <3>6. Range(Dropped(new)) \cup Range(ks) = Range(fs)
      <4>1. ASSUME NEW x \in Range(fs) PROVE x \in Range(Dropped(new)) \cup Range(ks)
        <5>1. PICK i \in 1 .. M : x = fs[i]
          BY <3>2 DEF Range
        <5>2. i \in 1 .. N \/ (i - N \in 1 .. KERNEL_STACK /\ x = ks[i - N])
          BY <2>21, <3>4, <5>1
        <5> QED
          BY <2>12, <2>21, <5>1, <5>2, ZenonT(40) DEF Range
      <4>2. ASSUME NEW x \in Range(Dropped(new)) \cup Range(ks) PROVE x \in Range(fs)
        <5>1. \E i \in 1 .. M : x = fs[i]
          <6>1. CASE x \in Range(Dropped(new))
            BY <2>12, <3>4, <6>1, Zenon
          <6>2. CASE x \in Range(ks)
            BY <2>21, <6>2, Zenon DEF Range
          <6> QED
            BY <6>1, <6>2
        <5> QED
          BY <3>2, <5>1 DEF Range
      <4> QED
        BY <4>1, <4>2, Zenon
    <3>7. Range(Owned(child)') = Range(fs) /\ IsInjective(Owned(child)')
      <4>1. ks \in Seq(Frames) /\ IsInjective(Dropped(new))
        BY <2>12, <2>21
      <4> DEFINE D == Dropped(new)
      <4>2. D \in Seq(Frames)
        BY <3>1
      <4> HIDE DEF D
      <4>3. /\ Range(D \o ks) = Range(D) \cup Range(ks)
            /\ IsInjective(D \o ks) <=> /\ IsInjective(D) /\ IsInjective(ks)
                                        /\ Range(D) \cap Range(ks) = {}
        BY <4>1, <4>2, ConcatRange, Zenon
      <4> QED
        BY <3>1, <3>3, <3>5, <3>6, <4>1, <4>3, ZenonT(40) DEF D
    <3>8. Range(Owned(child)) = {}
      BY <2>1 DEF IInv, Settled
    <3>9. Range(Owned(child)') \cap Range(frame_recycled') = {}
      BY <2>9, <2>10, <3>7, Zenon
    <3>10. Range(Owned(child)') \cup Range(frame_recycled') =
            Range(Owned(child)) \cup Range(frame_recycled) \cup (frame_current .. frame_current' - 1)
      BY <2>9, <2>10, <3>7, <3>8, Zenon
    <3>11. \A q \in Procs \ {child} : Range(Owned(q)') = Range(Owned(q)) /\ IsInjective(Owned(q)')
      <4>1. \A q \in Procs \ {child} : Owned(q)' = Owned(q)
        BY <2>15, Zenon DEF Owned
      <4> QED
        BY <4>1, Zenon DEF IInv, FramesExact
    <3> QED
      BY <2>8, <2>9, <2>10, <3>7, <3>9, <3>10, <3>11, FramesStep, ZenonT(40)
  <2> QED
    BY <2>18, <2>19, <2>20, <2>22, <2>23, ZenonT(40) DEF IInv
<1> QED
  BY <1>1, <1>2

(* Frames that go back without an allocation lie on top of the others.     *)
LEMMA ReturnFacts ==
  ASSUME frame_recycled \in Seq(Frames), frame_current \in Nat \ {0},
         NEW freed, Allocate(0, freed)
  PROVE  frame_recycled' = frame_recycled \o freed /\ frame_current' = frame_current
<1> DEFINE m == Len(frame_recycled)
           popped == IF 0 < m THEN 0 ELSE m
<1>1. m \in Nat
  OBVIOUS
<1>2. popped = 0
  <2> HIDE DEF m
  <2> QED
    BY <1>1
<1>3. /\ frame_recycled' = SubSeq(frame_recycled, 1, m - popped) \o freed
      /\ frame_current' = frame_current + 0 - popped
  BY Zenon DEF Allocate
<1>4. SubSeq(frame_recycled, 1, m) = frame_recycled
  OBVIOUS
<1> HIDE DEF popped
<1>5. m - popped = m /\ frame_current + 0 - popped = frame_current
  <2> HIDE DEF m
  <2> QED
    BY <1>1, <1>2
<1> QED
  BY <1>3, <1>4, <1>5, Zenon

(* exit: the frames of the areas go back; what is left is not looked at.   *)
LEMMA ExitStep ==
  ASSUME IInv, NEW p \in Procs, exit(p)
  PROVE  IInv'
<1> DEFINE ms == memory_set[p]
           af == AreaFrames(ms)
           new == [ms EXCEPT !.areas = << >>]
<1>1. /\ status[p] = "live" /\ Allocate(0, af)
      /\ memory_set' = [memory_set EXCEPT ![p] = new]
      /\ status' = [status EXCEPT ![p] = "zombie"]
      /\ UNCHANGED <<mem, trap_cx_ppn, kernel_stack, expected>>
  BY DEF exit
<1>2. TypeOK /\ ms \in Spaces /\ kernel_stack[p] \in Seq(Frames)
  BY DEF IInv, TypeOK
<1>3. /\ frame_recycled' = frame_recycled \o af /\ frame_current' = frame_current
  BY <1>1, <1>2, ReturnFacts DEF TypeOK
<1>4. /\ ms.tables \in Seq(Frames) /\ af \in Seq(Frames)
      /\ Range(Dropped(ms)) = Range(ms.tables) \cup Range(af)
      /\ IsInjective(Dropped(ms)) <=> /\ IsInjective(ms.tables) /\ IsInjective(af)
                                      /\ Range(ms.tables) \cap Range(af) = {}
  BY <1>2, SpaceParts
<1>5. new \in Spaces /\ new.tables = ms.tables /\ new.areas = << >>
  <2>1. ms \in [tables : Seq(Frames), pte : PageTables, areas : Seq([vpn : Nat, ppn : Frames])]
    BY <1>2 DEF Spaces
  <2>2. new = [tables |-> ms.tables, pte |-> ms.pte, areas |-> << >>]
    BY <2>1
  <2>3. ms.tables \in Seq(Frames) /\ ms.pte \in PageTables
    BY <2>1
  <2> HIDE DEF new, ms
  <2> QED
    <3>1. << >> \in Seq([vpn : Nat, ppn : Frames])
      OBVIOUS
    <3>2. [tables |-> ms.tables, pte |-> ms.pte, areas |-> << >>] \in Spaces
      BY <2>3, <3>1 DEF Spaces
    <3> QED
      BY <2>2, <3>2
<1>6. Dropped(new) = ms.tables
  <2>1. AreaFrames(new) = << >>
    BY <1>5 DEF AreaFrames
  <2> HIDE DEF new, ms
  <2> QED
    BY <1>4, <1>5, <2>1 DEF Dropped
<1> HIDE DEF ms, af, new
<1>7. /\ memory_set'[p] = new /\ status'[p] = "zombie"
      /\ \A q \in Procs \ {p} : memory_set'[q] = memory_set[q] /\ status'[q] = status[q]
  BY <1>1, <1>2 DEF TypeOK
<1>8. TypeOK'
  <2>1. frame_recycled' \in Seq(Frames)
    BY <1>2, <1>3, <1>4, ConcatFacts, Zenon DEF TypeOK
  <2>2. memory_set' \in [Procs -> Spaces] /\ status' \in [Procs -> {"free", "live", "zombie"}]
    BY <1>1, <1>2, <1>5 DEF TypeOK
  <2> QED
    BY <1>1, <1>2, <1>3, <2>1, <2>2, Zenon DEF TypeOK
<1>9. \A q \in Procs \ {p} : Settled(q)' /\ Owned(q)' = Owned(q)
  <2> SUFFICES ASSUME NEW q \in Procs \ {p} PROVE Settled(q)' /\ Owned(q)' = Owned(q)
    OBVIOUS
  <2> QED
    BY <1>1, <1>7, SettledStays
<1>10. Settled(p)'
  BY <1>7 DEF Settled
<1>11. FramesExact'
  <2> DEFINE ks == kernel_stack[p]
             ts == ms.tables
  <2>1. /\ IsInjective(Dropped(ms)) /\ IsInjective(ks)
        /\ Range(Dropped(ms)) \cap Range(ks) = {}
        /\ Range(Owned(p)) = Range(Dropped(ms)) \cup Range(ks)
        /\ Range(Owned(p)) \cap Range(frame_recycled) = {}
        /\ IsInjective(frame_recycled) /\ frame_current <= MEMORY_END
    BY FramesFacts DEF ms
  <2>2. Owned(p)' = ts \o ks
    BY <1>1, <1>6, <1>7, Zenon DEF Owned
  <2>3. frame_recycled \in Seq(Frames) /\ frame_current \in Nat /\ ts \in Seq(Frames) /\ ks \in Seq(Frames)
    BY <1>2, <1>4 DEF TypeOK
  <2> HIDE DEF ks, ts
  <2>4. /\ IsInjective(ts) /\ IsInjective(af) /\ Range(ts) \cap Range(af) = {}
        /\ Range(Dropped(ms)) = Range(ts) \cup Range(af)
    BY <1>4, <2>1 DEF ts
  <2>5. Range(Owned(p)') = Range(ts) \cup Range(ks) /\ IsInjective(Owned(p)')
    BY <2>1, <2>2, <2>3, <2>4, ConcatRange
  <2>6. Range(frame_recycled') = Range(frame_recycled) \cup Range(af) /\ IsInjective(frame_recycled')
    <3>1. Range(frame_recycled) \cap Range(af) = {}
      BY <2>1, <2>4
    <3> QED
      <4>1. frame_recycled \in Seq(Frames) /\ af \in Seq(Frames)
        BY <1>4, <2>3, Zenon
      <4>2. IsInjective(frame_recycled) /\ IsInjective(af)
        BY <2>1, <2>4, Zenon
      <4>3. frame_recycled' = frame_recycled \o af
        BY <1>3, Zenon
      <4> QED
        BY <3>1, <4>1, <4>2, <4>3, ConcatRange
  <2>7. Range(Owned(p)') \cap Range(frame_recycled') = {}
    BY <2>1, <2>4, <2>5, <2>6, Zenon
  <2>8. frame_current .. frame_current' - 1 = {}
    BY <1>3, <2>3
  <2>9. Range(Owned(p)') \cup Range(frame_recycled') =
          Range(Owned(p)) \cup Range(frame_recycled) \cup (frame_current .. frame_current' - 1)
    BY <2>1, <2>4, <2>5, <2>6, <2>8, Zenon
  <2>10. \A q \in Procs \ {p} : Range(Owned(q)') = Range(Owned(q)) /\ IsInjective(Owned(q)')
    BY <1>9 DEF IInv, FramesExact
  <2>11. frame_current' \in Nat /\ frame_current <= frame_current' /\ frame_current' <= MEMORY_END
    BY <1>3, <2>1, <2>3
  <2> QED
    BY <2>5, <2>6, <2>7, <2>9, <2>10, <2>11, FramesStep, Zenon
<1> QED
  BY <1>8, <1>9, <1>10, <1>11 DEF IInv

(* The control block is dropped: everything the process owned goes back.   *)
LEMMA ReapStep ==
  ASSUME IInv, NEW p \in Procs, reap(p)
  PROVE  IInv'
<1> DEFINE ms == memory_set[p]
           ks == kernel_stack[p]
           D == Dropped(ms)
<1>1. /\ Allocate(0, ks \o D)
      /\ memory_set' = [memory_set EXCEPT ![p] = NoSpace]
      /\ trap_cx_ppn' = [trap_cx_ppn EXCEPT ![p] = 0]
      /\ kernel_stack' = [kernel_stack EXCEPT ![p] = << >>]
      /\ status' = [status EXCEPT ![p] = "free"]
      /\ expected' = [expected EXCEPT ![p] = None]
      /\ UNCHANGED mem
  BY DEF reap
<1>2. TypeOK /\ ms \in Spaces /\ ks \in Seq(Frames) /\ D \in Seq(Frames)
  BY SpaceParts DEF IInv, TypeOK
<1> HIDE DEF D, ms
<1>3. ks \o D \in Seq(Frames)
  BY <1>2, ConcatFacts
<1>4. /\ frame_recycled' = frame_recycled \o (ks \o D) /\ frame_current' = frame_current
  BY <1>1, <1>2, ReturnFacts, Zenon DEF TypeOK
<1>5. NoSpace \in Spaces /\ Dropped(NoSpace) = << >>
  <2>1. None \in [{} -> Frames]
    BY DEF None
  <2>2. None \in PageTables
    BY <2>1 DEF PageTables
  <2>3. NoSpace.tables = << >> /\ NoSpace.areas = << >>
    BY DEF NoSpace
  <2>4. AreaFrames(NoSpace) = << >>
    BY <2>3 DEF AreaFrames
  <2> QED
    BY <2>2, <2>3, <2>4 DEF Spaces, NoSpace, Dropped
<1>6. /\ memory_set'[p] = NoSpace /\ kernel_stack'[p] = << >> /\ status'[p] = "free"
      /\ \A q \in Procs \ {p} : /\ memory_set'[q] = memory_set[q]
                                /\ kernel_stack'[q] = kernel_stack[q]
                                /\ trap_cx_ppn'[q] = trap_cx_ppn[q]
                                /\ expected'[q] = expected[q]
                                /\ status'[q] = status[q]
  BY <1>1, <1>2 DEF TypeOK
<1>7. TypeOK'
  <2>1. frame_recycled' \in Seq(Frames)
    BY <1>2, <1>3, <1>4, ConcatFacts DEF TypeOK
  <2>2. memory_set' \in [Procs -> Spaces] /\ status' \in [Procs -> {"free", "live", "zombie"}]
        /\ kernel_stack' \in [Procs -> Seq(Frames)]
    BY <1>1, <1>2, <1>5 DEF TypeOK
  <2>3. DOMAIN trap_cx_ppn' = Procs /\ DOMAIN expected' = Procs
    BY <1>1, <1>2 DEF TypeOK
  <2> QED
    BY <1>1, <1>2, <1>4, <2>1, <2>2, <2>3 DEF TypeOK
<1>8. Range(Owned(p)') = {} /\ IsInjective(Owned(p)')
  <2>1. Owned(p)' = << >>
    BY <1>5, <1>6 DEF Owned
  <2> QED
    BY <2>1 DEF Range, IsInjective
<1>9. \A q \in Procs \ {p} : Settled(q)' /\ Owned(q)' = Owned(q)
  <2> SUFFICES ASSUME NEW q \in Procs \ {p} PROVE Settled(q)' /\ Owned(q)' = Owned(q)
    OBVIOUS
  <2> QED
    BY <1>1, <1>6, SettledStays
<1>10. Settled(p)'
  BY <1>6, <1>8 DEF Settled
<1>11. FramesExact'
  <2>1. /\ IsInjective(D) /\ IsInjective(ks) /\ Range(D) \cap Range(ks) = {}
        /\ Range(Owned(p)) = Range(D) \cup Range(ks)
        /\ Range(Owned(p)) \cap Range(frame_recycled) = {}
        /\ IsInjective(frame_recycled) /\ frame_current <= MEMORY_END
    BY FramesFacts DEF ms, D
  <2>2. frame_recycled \in Seq(Frames) /\ frame_current \in Nat
    BY <1>2 DEF TypeOK
  <2> HIDE DEF ks
  <2> DEFINE back == ks \o D
  <2>3. Range(back) = Range(Owned(p)) /\ IsInjective(back) /\ back \in Seq(Frames)
    BY <1>2, <1>3, <2>1, ConcatRange
  <2> HIDE DEF back
  <2>4. frame_recycled' = frame_recycled \o back
    BY <1>4 DEF back
  <2>5. /\ Range(frame_recycled') = Range(frame_recycled) \cup Range(back)
        /\ IsInjective(frame_recycled')
    BY <2>1, <2>2, <2>3, <2>4, ConcatRange
  <2>6. frame_current .. frame_current' - 1 = {}
    BY <1>4, <2>2
  <2>7. Range(Owned(p)') \cup Range(frame_recycled') =
          Range(Owned(p)) \cup Range(frame_recycled) \cup (frame_current .. frame_current' - 1)
    BY <1>8, <2>3, <2>5, <2>6
  <2>8. Range(Owned(p)') \cap Range(frame_recycled') = {}
    BY <1>8
  <2>9. \A q \in Procs \ {p} : Range(Owned(q)') = Range(Owned(q)) /\ IsInjective(Owned(q)')
    BY <1>9 DEF IInv, FramesExact
  <2>10. frame_current' \in Nat /\ frame_current <= frame_current' /\ frame_current' <= MEMORY_END
    BY <1>4, <2>1, <2>2
  <2> QED
    BY <1>8, <2>5, <2>7, <2>8, <2>9, <2>10, FramesStep, ZenonT(40)
<1> QED
  BY <1>7, <1>9, <1>10, <1>11 DEF IInv

(* A store changes one page of one process, and its owner expects it.      *)
LEMMA StoreStep ==
  ASSUME IInv, NEW p \in Procs, store(p)
  PROVE  IInv'
<1> DEFINE ms == memory_set[p]
           below == {v \in DOMAIN ms.pte : v < TRAP_CONTEXT}
           vpn == CHOOSE v \in below : \A w \in below : w <= v
<1>1. /\ status[p] = "live"
      /\ mem' = [mem EXCEPT ![ms.pte[vpn]] = "stored"]
      /\ expected' = [expected EXCEPT ![p][vpn] = "stored"]
      /\ UNCHANGED <<frame_current, frame_recycled, memory_set, trap_cx_ppn,
                     kernel_stack, status>>
  BY Zenon DEF store, translate
<1>2. /\ ms \in Spaces /\ Pages(ms) \in Seq(Nat) /\ Paged(ms)
      /\ DOMAIN ms.pte = Range(Pages(ms))
      /\ \A j \in 1 .. Len(ms.areas) : ms.pte[ms.areas[j].vpn] = ms.areas[j].ppn
      /\ \A v \in DOMAIN ms.pte : ms.pte[v] \in Frames /\ ms.pte[v] \in Range(Owned(p))
      /\ \A v, w \in DOMAIN ms.pte : ms.pte[v] = ms.pte[w] => v = w
      /\ trap_cx_ppn[p] = ms.pte[TRAP_CONTEXT]
      /\ expected[p] = [v \in DOMAIN ms.pte |-> mem[ms.pte[v]]]
  BY <1>1, LiveFacts, Zenon
<1>3. vpn \in DOMAIN ms.pte
  <2>1. below \in SUBSET Nat /\ below # {}
    <3>1. Range(Pages(ms)) \subseteq Nat
      <4>1. Pages(ms) \in Seq(Nat)
        BY <1>2, Zenon
      <4> QED
        BY <4>1 DEF Range
    <3> QED
      <4>1. DOMAIN ms.pte = Range(Pages(ms)) /\ Paged(ms)
        BY <1>2, Zenon
      <4>2. \E v \in DOMAIN ms.pte : v < TRAP_CONTEXT
        BY <4>1 DEF Paged
      <4> QED
        BY <3>1, <4>1, <4>2
  <2> DEFINE T == {TRAP_CONTEXT - v : v \in below}
  <2>2. TRAP_CONTEXT \in Int /\ \A v \in below : v \in Nat /\ v < TRAP_CONTEXT
    BY <2>1, SpacesAssumption DEF TRAP_CONTEXT
  <2> HIDE DEF below
  <2>3. T \in SUBSET Nat /\ T # {}
    BY <2>1, <2>2
  <2>4. PICK x \in T : \A y \in T : x <= y
    BY <2>3, LeastNatural, Zenon
  <2>5. PICK v \in below : x = TRAP_CONTEXT - v
    BY <2>4
  <2>6. \A w \in below : w <= v
    <3> SUFFICES ASSUME NEW w \in below PROVE w <= v
      OBVIOUS
    <3>1. TRAP_CONTEXT - v <= TRAP_CONTEXT - w
      BY <2>4, <2>5
    <3> QED
      BY <2>2, <3>1
  <2>7. vpn \in below
    BY <2>6
  <2> QED
    BY <2>7 DEF below
<1> HIDE DEF vpn
<1>4. TypeOK
  BY DEF IInv
<1>5. /\ DOMAIN mem' = Frames
      /\ \A f \in Frames : mem'[f] = IF f = ms.pte[vpn] THEN "stored" ELSE mem[f]
  BY <1>1, <1>4 DEF TypeOK
<1> DEFINE e == [expected[p] EXCEPT ![vpn] = "stored"]
<1>6. /\ expected'[p] = e /\ DOMAIN expected' = Procs
      /\ \A q \in Procs \ {p} : expected'[q] = expected[q]
  BY <1>1, <1>4 DEF TypeOK
<1>7. TypeOK' /\ FramesExact'
  <2>1. TypeOK'
    BY <1>1, <1>4, <1>5, <1>6 DEF TypeOK
  <2>2. FramesExact'
    BY <1>1, ZenonT(40) DEF IInv, FramesExact, Owned
  <2> QED
    BY <2>1, <2>2
<1>8. \A q \in Procs \ {p} : Settled(q)'
  <2> SUFFICES ASSUME NEW q \in Procs \ {p} PROVE Settled(q)'
    OBVIOUS
  <2>1. Range(Owned(q)) \cap Range(Owned(p)) = {}
    BY DEF IInv, FramesExact
  <2>2. Owned(q) \in Seq(Frames)
    BY FramesFacts
  <2>3. \A f \in Range(Owned(q)) : f \in Frames
    BY <2>2 DEF Range
  <2>4. \A f \in Range(Owned(q)) : mem'[f] = mem[f]
    <3>1. ms.pte[vpn] \in Range(Owned(p))
      BY <1>2, <1>3, Zenon
    <3> QED
      BY <1>5, <2>1, <2>3, <3>1, Zenon
  <2> QED
    BY <1>1, <1>6, <2>4, SettledStays
<1>9. Settled(p)'
  <2>1. /\ e = [v \in Range(Pages(ms)) |-> e[v]]
        /\ \A v \in DOMAIN ms.pte : e[v] = IF v = vpn THEN "stored" ELSE mem[ms.pte[v]]
    BY <1>2, Zenon
  <2> HIDE DEF e
  <2>2. \A v \in DOMAIN ms.pte : mem'[ms.pte[v]] = e[v]
    <3> SUFFICES ASSUME NEW v \in DOMAIN ms.pte PROVE mem'[ms.pte[v]] = e[v]
      OBVIOUS
    <3>1. ms.pte[v] \in Frames /\ (ms.pte[v] = ms.pte[vpn] <=> v = vpn)
      BY <1>2, <1>3, Zenon
    <3>2. mem'[ms.pte[v]] = IF ms.pte[v] = ms.pte[vpn] THEN "stored" ELSE mem[ms.pte[v]]
      BY <1>5, <3>1, Zenon
    <3>3. e[v] = IF v = vpn THEN "stored" ELSE mem[ms.pte[v]]
      BY <2>1, ZenonT(40)
    <3> QED
      BY <3>1, <3>2, <3>3
  <2>3. memory_set'[p] = ms /\ trap_cx_ppn'[p] = ms.pte[TRAP_CONTEXT] /\ expected'[p] = e
    BY <1>1, <1>2, <1>6
  <2> HIDE DEF ms
  <2>4. Sees(p)'
    <3>1. /\ ms \in Spaces /\ DOMAIN ms.pte = Range(Pages(ms))
          /\ \A j \in 1 .. Len(ms.areas) : ms.pte[ms.areas[j].vpn] = ms.areas[j].ppn
      BY <1>2, Zenon
    <3>2. e = [v \in Range(Pages(ms)) |-> e[v]]
      BY <2>1, Zenon
    <3> QED
      BY <2>2, <2>3, <3>1, <3>2, SeesNew, SMTT(30)
  <2> QED
    BY <1>1, <1>2, <2>3, <2>4 DEF Settled
<1> QED
  BY <1>7, <1>8, <1>9 DEF IInv

-----------------------------------------------------------------------------
(* The machine as it boots.                                                *)
LEMMA InitStep ==
  ASSUME Init
  PROVE  IInv
<1> DEFINE n == InitImage
           pages == InitPages
           N == Needed(pages)
           K == KERNEL_STACK
           fs == [j \in 1 .. N |-> j]
           new == InitSpace
           ks == [j \in 1 .. K |-> N + j]
           zero == [f \in Frames |-> "zero"]
<1>1. n \in ImageSizes
  <2>1. PICK x \in ImageSizes : \A y \in ImageSizes : x <= y
    BY SpacesAssumption, LeastNatural
  <2> QED
    BY <2>1 DEF InitImage
<1>2. pages = ElfPages(n) /\ new = Space(pages, fs)
  BY DEF InitPages, InitSpace
<1>3. /\ frame_current = 1 + N + K /\ frame_recycled = << >>
      /\ mem = Put(zero, new, Written(n))
      /\ memory_set = [p \in Procs |-> IF p = FirstProc THEN new ELSE NoSpace]
      /\ trap_cx_ppn = [p \in Procs |-> IF p = FirstProc THEN new.pte[TRAP_CONTEXT] ELSE 0]
      /\ kernel_stack = [p \in Procs |-> IF p = FirstProc THEN ks ELSE << >>]
      /\ status = [p \in Procs |-> IF p = FirstProc THEN "live" ELSE "free"]
      /\ expected = [p \in Procs |-> IF p = FirstProc THEN ElfContents(n) ELSE None]
  BY DEF Init
<1> HIDE DEF n, pages, new
<1>4. /\ pages \in Seq(Nat) /\ IsInjective(pages) /\ TRAP_CONTEXT \in Range(pages)
      /\ \E v \in Range(pages) : v < TRAP_CONTEXT
      /\ n \in Nat /\ TRAP_CONTEXT \in Nat
  BY <1>1, <1>2, ElfFacts
<1>5. N \in Nat /\ K \in Nat /\ MEMORY_END \in Nat /\ N + K < MEMORY_END
  BY <1>4, PageAtFacts, SpacesAssumption, BootAssumption, Zenon DEF pages
<1> HIDE DEF N, K
<1>6. fs \in Seq(Frames) /\ Len(fs) = N /\ IsInjective(fs)
  <2>1. fs \in [1 .. N -> Frames]
    BY <1>5 DEF Frames
  <2>2. fs \in Seq(Frames) /\ Len(fs) = N
    BY <1>5, <2>1, FunctionIsSeq
  <2> QED
    BY <2>2, Zenon DEF IsInjective
<1>7. ks \in Seq(Frames) /\ IsInjective(ks)
  <2>1. \A j \in 1 .. K : N + j \in Frames
    BY <1>5 DEF Frames
  <2>2. ks \in [1 .. K -> Frames]
    BY <2>1
  <2>3. IsInjective(ks)
    BY <1>5 DEF IsInjective
  <2> QED
    BY <1>5, <2>2, <2>3, FunctionIsSeq, Zenon
<1>8. /\ \A x : x \in Range(ks) <=> x \in N + 1 .. N + K
      /\ {fs[i] : i \in 1 .. N} = 1 .. N
  <2>1. ASSUME NEW x \in N + 1 .. N + K PROVE x \in Range(ks)
    <3>1. x - N \in 1 .. K /\ N + (x - N) = x
      BY <1>5
    <3>2. ks[x - N] = x
      BY <3>1
    <3> QED
      BY <3>1, <3>2 DEF Range
  <2>2. ASSUME NEW x \in Range(ks) PROVE x \in N + 1 .. N + K
    <3>1. PICK j \in 1 .. K : x = N + j
      BY DEF Range
    <3> QED
      BY <1>5, <3>1
  <2> QED
    BY <2>1, <2>2
<1> HIDE DEF fs, ks
<1>9. Needed(pages) <= Len(fs)
  BY <1>5, <1>6 DEF N
<1>10. /\ new \in Spaces /\ IsInjective(Dropped(new)) /\ Range(Dropped(new)) = 1 .. N
       /\ Pages(new) = pages /\ DOMAIN new.pte = Range(pages)
       /\ \A j \in 1 .. Len(new.areas) : new.pte[new.areas[j].vpn] = new.areas[j].ppn
  BY <1>2, <1>4, <1>6, <1>8, <1>9, SpaceFacts, ZenonT(40) DEF N
<1>11. /\ \A v \in Range(pages) : new.pte[v] \in Frames
       /\ \A v, w \in Range(pages) : new.pte[v] = new.pte[w] => v = w
  BY <1>10, EntriesFacts
<1>12. /\ DOMAIN Written(n) = {v \in Range(pages) : v < n \/ v = TRAP_CONTEXT}
       /\ ElfContents(n) = [v \in Range(pages) |-> ElfContents(n)[v]]
       /\ \A v \in Range(pages) : ElfContents(n)[v] =
            IF v \in DOMAIN Written(n) THEN Written(n)[v] ELSE "zero"
  BY <1>2 DEF Written, ElfContents
<1>13. DOMAIN mem = Frames /\ \A v \in Range(pages) : mem[new.pte[v]] = ElfContents(n)[v]
  <2> DEFINE cs == Written(n)
  <2>1. \A v \in DOMAIN cs : v \in Range(pages)
    BY <1>12
  <2>2. /\ \A v \in DOMAIN cs : new.pte[v] \in Frames
        /\ \A v, w \in DOMAIN cs : new.pte[v] = new.pte[w] => v = w
    BY <1>11, <2>1
  <2> HIDE DEF cs, zero
  <2>3. /\ DOMAIN mem = Frames
        /\ \A v \in DOMAIN cs : mem[new.pte[v]] = cs[v]
        /\ \A f \in Frames : (\A v \in DOMAIN cs : new.pte[v] # f) => mem[f] = zero[f]
    <3>1. Apart(new, cs)
      BY <2>2, Zenon DEF Apart
    <3>2. IsPut(Put(zero, new, cs), zero, new, cs)
      BY <3>1, PutFacts, Zenon
    <3>3. mem = Put(zero, new, cs)
      BY <1>3 DEF cs
    <3> QED
      BY <3>2, <3>3, Zenon DEF IsPut
  <2>4. ASSUME NEW v \in Range(pages), v \notin DOMAIN cs PROVE mem[new.pte[v]] = "zero"
    <3>1. \A w \in DOMAIN cs : new.pte[w] # new.pte[v]
      BY <1>11, <2>1, <2>4
    <3>2. mem[new.pte[v]] = zero[new.pte[v]]
      BY <1>11, <2>3, <3>1
    <3> QED
      BY <1>11, <3>2 DEF zero
  <2>5. \A v \in Range(pages) : ElfContents(n)[v] = IF v \in DOMAIN cs THEN cs[v] ELSE "zero"
    BY <1>12 DEF cs
  <2> QED
    BY <2>3, <2>4, <2>5
<1>14. NoSpace \in Spaces /\ Dropped(NoSpace) = << >>
  <2>1. None \in [{} -> Frames]
    BY DEF None
  <2>2. None \in PageTables
    BY <2>1, Zenon DEF PageTables
  <2>3. NoSpace.tables = << >> /\ NoSpace.areas = << >>
    BY DEF NoSpace
  <2>4. AreaFrames(NoSpace) = << >>
    BY <2>3 DEF AreaFrames
  <2> QED
    BY <2>2, <2>3, <2>4 DEF Spaces, NoSpace, Dropped
<1> HIDE DEF zero
<1>15. TypeOK
  <2>1. frame_current \in Nat \ {0} /\ frame_recycled \in Seq(Frames)
    BY <1>3, <1>5
  <2>2. memory_set \in [Procs -> Spaces] /\ kernel_stack \in [Procs -> Seq(Frames)]
    <3>1. << >> \in Seq(Frames)
      OBVIOUS
    <3>2. new \in Spaces /\ NoSpace \in Spaces /\ ks \in Seq(Frames)
      BY <1>7, <1>10, <1>14, Zenon
    <3>3. memory_set \in [Procs -> Spaces]
      BY <1>3, <3>2, SMTT(30)
    <3>4. kernel_stack \in [Procs -> Seq(Frames)]
      BY <1>3, <3>1, <3>2, SMTT(30)
    <3> QED
      BY <3>3, <3>4
  <2>3. /\ DOMAIN trap_cx_ppn = Procs /\ DOMAIN expected = Procs
        /\ status \in [Procs -> {"free", "live", "zombie"}]
    BY <1>3
  <2> QED
    BY <1>13, <2>1, <2>2, <2>3 DEF TypeOK
<1>16. FirstProc \in Procs
  BY SpacesAssumption
<1>17. Owned(FirstProc) = Dropped(new) \o ks
  BY <1>3, <1>16 DEF Owned
<1>18. \A p \in Procs \ {FirstProc} : Owned(p) = << >>
  BY <1>3, <1>14 DEF Owned
<1>19. \A p \in Procs \ {FirstProc} : Range(Owned(p)) = {} /\ IsInjective(Owned(p))
  <2>1. Range(<< >>) = {} /\ IsInjective(<< >>)
    BY DEF Range, IsInjective
  <2> QED
    BY <1>18, <2>1
<1>20. IsInjective(Owned(FirstProc)) /\ Range(Owned(FirstProc)) = 1 .. N + K
  <2>1. Dropped(new) \in Seq(Frames)
    BY <1>10, SpaceParts
  <2>2. Range(Dropped(new)) \cap Range(ks) = {}
    BY <1>5, <1>8, <1>10
  <2>3. \A x : x \in 1 .. N + K <=> x \in 1 .. N \/ x \in N + 1 .. N + K
    BY <1>5
  <2>4. 1 .. N + K = Range(Dropped(new)) \cup Range(ks)
    BY <1>8, <1>10, <2>3, Zenon
  <2> DEFINE D == Dropped(new)
  <2>5. D \in Seq(Frames) /\ IsInjective(D)
    BY <1>10, <2>1
  <2> HIDE DEF D
  <2>6. /\ Range(D \o ks) = Range(D) \cup Range(ks)
        /\ IsInjective(D \o ks) <=> /\ IsInjective(D) /\ IsInjective(ks)
                                    /\ Range(D) \cap Range(ks) = {}
    BY <1>7, <2>5, ConcatRange
  <2> QED
    BY <1>7, <1>17, <2>2, <2>4, <2>5, <2>6, ZenonT(40) DEF D
<1>21. FramesExact
  <2>1. Range(frame_recycled) = {} /\ IsInjective(frame_recycled)
    BY <1>3 DEF Range, IsInjective
  <2>2. frame_current <= MEMORY_END /\ 1 .. frame_current - 1 = 1 .. N + K
    BY <1>3, <1>5
  <2>3. UNION {Range(Owned(p)) : p \in Procs} = 1 .. N + K
    BY <1>16, <1>19, <1>20, Zenon
  <2>4. \A p \in Procs : \A q \in Procs \ {p} : Range(Owned(p)) \cap Range(Owned(q)) = {}
    BY <1>19
  <2> QED
    BY <1>19, <1>20, <2>1, <2>2, <2>3, <2>4, ZenonT(40) DEF FramesExact
<1>22. Settled(FirstProc)
  <2> DEFINE e == ElfContents(n)
  <2>1. /\ memory_set[FirstProc] = new /\ trap_cx_ppn[FirstProc] = new.pte[TRAP_CONTEXT]
        /\ expected[FirstProc] = e /\ status[FirstProc] = "live"
    BY <1>3, <1>16
  <2>2. Paged(new)
    BY <1>4, <1>10 DEF Paged
  <2>3. \A a \in Range(new.areas) : new.pte[a.vpn] = a.ppn
    <3>1. new.areas \in Seq([vpn : Nat, ppn : Frames])
      BY <1>10, SpaceParts, Zenon
    <3>2. DOMAIN new.areas = 1 .. Len(new.areas)
      BY <3>1
    <3> QED
      BY <1>10, <3>2 DEF Range
  <2> HIDE DEF e
  <2>4. [v \in DOMAIN new.pte |-> mem[new.pte[v]]] = e
    BY <1>10, <1>12, <1>13 DEF e
  <2> QED
    BY <1>10, <2>1, <2>2, <2>3, <2>4 DEF Settled, Sees, translate
<1>23. \A p \in Procs \ {FirstProc} : Settled(p)
  BY <1>3, <1>19 DEF Settled
<1> QED
  BY <1>15, <1>21, <1>22, <1>23 DEF IInv

(* Every step keeps the inductive invariant.                               *)
THEOREM SpacesInductive == Spec => []IInv
<1>1. Init => IInv
  BY InitStep
<1>2. IInv /\ [Next]_vars => IInv'
  <2> SUFFICES ASSUME IInv, [Next]_vars PROVE IInv'
    OBVIOUS
  <2>1. ASSUME NEW p \in Procs, NEW n \in ImageSizes, exec(p, n) PROVE IInv'
    BY <2>1, ExecStep
  <2>2. ASSUME NEW p \in Procs, NEW child \in Procs, fork(p, child) PROVE IInv'
    BY <2>2, ForkStep
  <2>3. ASSUME NEW p \in Procs, exit(p) PROVE IInv'
    BY <2>3, ExitStep
  <2>4. ASSUME NEW p \in Procs, reap(p) PROVE IInv'
    BY <2>4, ReapStep
  <2>5. ASSUME NEW p \in Procs, store(p) PROVE IInv'
    BY <2>5, StoreStep
  <2>6. CASE UNCHANGED vars
    BY <2>6, StutterStep DEF vars
  <2> QED
    BY <2>1, <2>2, <2>3, <2>4, <2>5, <2>6 DEF Next
<1> QED
  BY <1>1, <1>2, PTL DEF Spec

(***************************************************************************)
(* FramesExact always holds: in whatever order processes fork, exec, exit  *)
(* and are freed, every frame the allocator ever handed out has one owner  *)
(* or has been returned, once.                                             *)
(***************************************************************************)
THEOREM FramesAlwaysExact == Spec => []FramesExact
<1>1. IInv => FramesExact
  BY DEF IInv
<1> QED
  BY <1>1, SpacesInductive, PTL

(***************************************************************************)
(* PrivateMemory always holds: a live process finds in every page what it  *)
(* or, at the fork, its parent put there, and zeros elsewhere, whoever     *)
(* owned the frame before.                                                 *)
(***************************************************************************)
THEOREM MemoryAlwaysPrivate == Spec => []PrivateMemory
<1>1. IInv => PrivateMemory
  BY DEF IInv, Settled, Sees, PrivateMemory
<1> QED
  BY <1>1, SpacesInductive, PTL

=============================================================================
