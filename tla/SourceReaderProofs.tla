---------------------------- MODULE SourceReaderProofs ----------------------------
(***************************************************************************)
(* What the streaming reader delivers, for any workbook, any number of     *)
(* rows and strings, and any spellings and accepted values.                *)
(*                                                                         *)
(* The argument has four parts.  Merging the sorted spans of a column      *)
(* keeps what they cover together, by induction over the spans, and the    *)
(* last merged span that begins above a cell then tells whether one of     *)
(* the rectangles holds it.  In a workbook that can be read, the first     *)
(* pass and the decision about the candidates ask together for the strings *)
(* the answer depends on: a row is active by a literal, or by one of the   *)
(* strings that were loaded first.  With some of the strings a value is    *)
(* the right one or a bad one, so what the second pass accepts is what is  *)
(* meant, whatever the workbook.  And where the second pass stops, the     *)
(* workbook cannot be read, as with the strings that are used every value  *)
(* it asks for is the right one.                                           *)
(*                                                                         *)
(* The invariant says of every phase what has been found out so far: what  *)
(* the first pass has of the sheets before, which strings there are, and   *)
(* that the rows gone over are in their places, can be read, and have been *)
(* delivered under distinct identities.                                    *)
(***************************************************************************)
EXTENDS SourceReader, FiniteSetTheorems, SequenceTheorems, TLAPS

-----------------------------------------------------------------------------
(* Numbers.                                                                *)

\* A set of naturals has a least one: the segments below its members are finite sets,
\* and among those one is contained in no other.
LEMMA LeastNat ==
    ASSUME NEW T, T \subseteq Nat, T # {}
    PROVE  \E x \in T : \A y \in T : x <= y
  <1> DEFINE starts == {1..n : n \in T}
  <1>1. starts \subseteq FiniteSubsetsOf(Nat)
    <2>1. \A n \in T : 1..n \in SUBSET Nat /\ IsFiniteSet(1..n)
      BY FS_Interval
    <2> QED
      BY <2>1 DEF FiniteSubsetsOf
  <1>2. starts # {}
    OBVIOUS
  <1>3. IsWellFoundedOn(StrictSubsetOrdering(Nat), FiniteSubsetsOf(Nat))
    BY FS_StrictSubsetOrderingWellFounded
  <1> HIDE DEF starts
  <1>4. PICK s \in starts : \A t \in starts : <<t, s>> \notin StrictSubsetOrdering(Nat)
    BY <1>1, <1>2, <1>3, WFMin
  <1>5. PICK x \in T : s = 1..x
    BY DEF starts
  <1>6. ASSUME NEW y \in T, ~(x <= y)
        PROVE  FALSE
    <2>1. 1..y \in starts
      BY DEF starts
    <2>2. x \in 1..x /\ x \notin 1..y
      BY <1>6
    <2>3. 1..y \subseteq 1..x /\ 1..y # 1..x
      BY <2>2, <1>6
    <2>4. <<1..y, 1..x>> \in StrictSubsetOrdering(Nat)
      BY <2>3 DEF StrictSubsetOrdering
    <2> QED
      BY <2>1, <2>4, <1>4, <1>5
  <1> QED
    BY <1>6

\* Induction, with the set of the numbers for which it is so far known: the least
\* number outside of it would have one before it that is in.
LEMMA Induct ==
    ASSUME NEW T, 0 \in T, \A n \in Nat : n \in T => n + 1 \in T
    PROVE  Nat \subseteq T
  <1> DEFINE bad == Nat \ T
  <1>1. SUFFICES ASSUME bad # {} PROVE FALSE
    OBVIOUS
  <1>2. PICK x \in bad : \A y \in bad : x <= y
    BY <1>1, LeastNat
  <1>3. x - 1 \in Nat /\ x - 1 \in T
    BY <1>2
  <1> QED
    BY <1>2, <1>3

\* The greatest of some numbers up to n.
LEMMA GreatestOf ==
    ASSUME NEW n \in Nat, NEW T \in SUBSET (1..n), T # {}
    PROVE  Max(T) \in T /\ \A x \in T : x <= Max(T)
  <1> DEFINE below == {n - x : x \in T}
  <1>1. below \subseteq Nat /\ below # {}
    <2>1. \A x \in T : n - x \in Nat
      OBVIOUS
    <2>2. \E x \in T : n - x \in below
      OBVIOUS
    <2> QED
      BY <2>1, <2>2
  <1>2. PICK b \in below : \A y \in below : b <= y
    BY <1>1, LeastNat
  <1>3. \E m \in T : \A x \in T : m >= x
    <2>1. PICK m \in T : b = n - m
      OBVIOUS
    <2>2. \A x \in T : n - x \in below
      OBVIOUS
    <2> HIDE DEF below
    <2> QED
      BY <1>2, <2>1, <2>2
  <1>4. Max(T) \in T /\ \A x \in T : Max(T) >= x
    BY <1>3 DEF Max
  <1> QED
    BY <1>4

\* The greater of two.
LEMMA GreaterOf ==
    ASSUME NEW a \in Nat, NEW b \in Nat
    PROVE  Max({a, b}) = IF a >= b THEN a ELSE b
  <1>1. \E m \in {a, b} : \A x \in {a, b} : m >= x
    OBVIOUS
  <1>2. Max({a, b}) \in {a, b} /\ \A x \in {a, b} : Max({a, b}) >= x
    BY <1>1 DEF Max
  <1> QED
    BY <1>2

-----------------------------------------------------------------------------
(* Coverage: spans in order, joined, and what they tell of a cell.         *)

\* Spans as the first pass finds them.
AreSpans(S) ==
    /\ IsFiniteSet(S)
    /\ \A s \in S : s \in Nat \X Nat /\ s[1] <= s[2]

\* Sorted has every span once, none before one that begins above it.
LEMMA SortedInOrder ==
    ASSUME NEW S, AreSpans(S)
    PROVE  /\ Cardinality(S) \in Nat
           /\ \A i \in 1..Cardinality(S) : Sorted(S)[i] \in S
           /\ \A s \in S : \E i \in 1..Cardinality(S) : Sorted(S)[i] = s
           /\ \A i, j \in 1..Cardinality(S) : i < j => Sorted(S)[i][1] <= Sorted(S)[j][1]
  <1> DEFINE n == Cardinality(S)
             Before(s) == {t \in S : Earlier(t, s)}
             places == [s \in S |-> Cardinality(Before(s)) + 1]
  <1>1. n \in Nat /\ IsFiniteSet(S)
    BY FS_CardinalityType DEF AreSpans
  <1>2. ASSUME NEW s \in S
        PROVE  /\ IsFiniteSet(Before(s)) /\ Cardinality(Before(s)) \in Nat
               /\ Cardinality(Before(s)) <= n - 1
    <2>1. Before(s) \in SUBSET S /\ s \notin Before(s)
      BY DEF Earlier, AreSpans
    <2> HIDE DEF Before
    <2>2. /\ IsFiniteSet(Before(s)) /\ Cardinality(Before(s)) <= n
          /\ n = Cardinality(Before(s)) => S = Before(s)
      BY <1>1, <2>1, FS_Subset
    <2>3. Cardinality(Before(s)) \in Nat
      BY <2>2, FS_CardinalityType
    <2> QED
      BY <1>1, <2>1, <2>2, <2>3
  <1>3. ASSUME NEW a \in S, NEW b \in S, Earlier(a, b)
        PROVE  Cardinality(Before(a)) < Cardinality(Before(b))
    <2>1. Before(a) \in SUBSET Before(b) /\ a \in Before(b) /\ a \notin Before(a)
      BY <1>3 DEF Earlier, AreSpans
    <2> HIDE DEF Before
    <2>2. /\ Cardinality(Before(a)) <= Cardinality(Before(b))
          /\ Cardinality(Before(b)) = Cardinality(Before(a)) => Before(b) = Before(a)
      BY <1>2, <2>1, FS_Subset
    <2> QED
      BY <1>2, <2>1, <2>2
  <1>4. ASSUME NEW a \in S, NEW b \in S
        PROVE  a = b \/ Earlier(a, b) \/ Earlier(b, a)
    BY DEF Earlier, AreSpans
  <1>5. \A a, b \in S : Cardinality(Before(a)) = Cardinality(Before(b)) => a = b
    <2> HIDE DEF Before
    <2>1. SUFFICES ASSUME NEW a \in S, NEW b \in S,
                          Cardinality(Before(a)) = Cardinality(Before(b))
                   PROVE  a = b
      OBVIOUS
    <2> QED
      BY <1>2, <1>3, <1>4, <2>1
  <1>6. places \in Injection(S, 1..n)
    <2> HIDE DEF Before
    <2>1. places \in [S -> 1..n]
      BY <1>1, <1>2
    <2>2. \A a, b \in S : places[a] = places[b] => a = b
      BY <1>2, <1>5
    <2> QED
      BY <2>1, <2>2 DEF Injection, IsInjective
  <1>7. IsFiniteSet(1..n) /\ Cardinality(1..n) = n
    BY <1>1, FS_Interval
  <1>8. \A i \in 1..n : \E s \in S : places[s] = i
    <2> HIDE DEF places, Before
    <2>1. places \in Surjection(S, 1..n)
      BY <1>6, <1>7, FS_Injection
    <2> QED
      BY <2>1 DEF Surjection
  <1>9. ASSUME NEW i \in 1..n
        PROVE  Sorted(S)[i] \in S /\ Cardinality(Before(Sorted(S)[i])) = i - 1
    <2>1. Sorted(S)[i] = CHOOSE s \in S : Cardinality(Before(s)) = i - 1
      BY DEF Sorted
    <2>2. \E s \in S : Cardinality(Before(s)) = i - 1
      <3> HIDE DEF Before
      <3> QED
        BY <1>2, <1>8
    <2> HIDE DEF Before
    <2> QED
      BY <2>1, <2>2
  <1>10. ASSUME NEW s \in S
         PROVE  \E i \in 1..n : Sorted(S)[i] = s
    <2> HIDE DEF Before
    <2>1. Cardinality(Before(s)) + 1 \in 1..n
      BY <1>1, <1>2
    <2> QED
      BY <1>2, <1>5, <1>9, <2>1
  <1>11. ASSUME NEW i \in 1..n, NEW j \in 1..n, i < j
         PROVE  Sorted(S)[i][1] <= Sorted(S)[j][1]
    <2>1. ~Earlier(Sorted(S)[j], Sorted(S)[i])
      <3> HIDE DEF Before
      <3> QED
        BY <1>3, <1>9, <1>11
    <2>2. Sorted(S)[i] \in Nat \X Nat /\ Sorted(S)[j] \in Nat \X Nat
      <3> HIDE DEF Before
      <3> QED
        BY <1>9 DEF AreSpans
    <2> QED
      BY <2>1, <2>2 DEF Earlier
  <1> QED
    BY <1>1, <1>9, <1>10, <1>11

\* The first n spans of s are joined into m.
JoinsTo(s, n, m) ==
    /\ m \in Seq(Nat \X Nat)
    /\ \A k \in 1..Len(m) : m[k][1] <= m[k][2]
    /\ \A k, l \in 1..Len(m) : k < l => m[k][2] < m[l][1]
    /\ \A num \in Nat : (\E k \in 1..Len(m) : m[k][1] <= num /\ num <= m[k][2])
                        <=> (\E i \in 1..n : s[i][1] <= num /\ num <= s[i][2])
    /\ m = <<>> <=> n = 0
    /\ n > 0 => m[Len(m)][1] <= s[n][1]

\* The first n of a sequence.
LEMMA FrontOf ==
    ASSUME NEW S, NEW m \in Seq(S), NEW n \in Nat, n <= Len(m)
    PROVE  /\ SubSeq(m, 1, n) \in Seq(S) /\ Len(SubSeq(m, 1, n)) = n
           /\ \A i \in 1..n : SubSeq(m, 1, n)[i] = m[i]
  <1>1. \A i \in 1..n : m[i] \in S
    OBVIOUS
  <1>2. /\ SubSeq(m, 1, n) \in Seq(S)
        /\ Len(SubSeq(m, 1, n)) = IF 1 <= n THEN n - 1 + 1 ELSE 0
        /\ \A i \in 1..(n - 1 + 1) : SubSeq(m, 1, n)[i] = m[1 + i - 1]
    BY <1>1, SubSeqProperties
  <1>3. n - 1 + 1 = n /\ (~(1 <= n) => n = 0)
    OBVIOUS
  <1>4. \A i \in 1..n : SubSeq(m, 1, n)[i] = m[i]
    <2>1. \A i \in 1..n : 1 + i - 1 = i
      OBVIOUS
    <2> QED
      BY <1>2, <1>3, <2>1
  <1> QED
    BY <1>2, <1>3, <1>4

\* One more span joined: the column is covered where it was, and where the span is.
LEMMA JoinKeeps ==
    ASSUME NEW s, NEW n \in Nat, NEW m, JoinsTo(s, n, m),
           \A i \in 1..(n + 1) : s[i] \in Nat \X Nat /\ s[i][1] <= s[i][2],
           n > 0 => s[n][1] <= s[n + 1][1]
    PROVE  JoinsTo(s, n + 1, Join(m, s[n + 1]))
  <1> DEFINE t == s[n + 1]
             j == Join(m, t)
  <1>1. /\ m \in Seq(Nat \X Nat) /\ Len(m) \in Nat
        /\ \A k \in 1..Len(m) : m[k] \in Nat \X Nat /\ m[k][1] \in Nat /\ m[k][2] \in Nat
        /\ t \in Nat \X Nat /\ t[1] \in Nat /\ t[2] \in Nat /\ t[1] <= t[2]
    BY DEF JoinsTo
  <1>2. \A num \in Nat : (\E i \in 1..(n + 1) : s[i][1] <= num /\ num <= s[i][2])
                         <=> \/ \E i \in 1..n : s[i][1] <= num /\ num <= s[i][2]
                             \/ t[1] <= num /\ num <= t[2]
    OBVIOUS
  <1>3. CASE m = <<>> \/ t[1] > m[Len(m)][2] + 1
    <2>1. j = Append(m, t)
      BY <1>3 DEF Join, Last
    <2>2. /\ j \in Seq(Nat \X Nat) /\ Len(j) = Len(m) + 1
          /\ \A k \in 1..Len(m) : j[k] = m[k]
          /\ j[Len(j)] = t
      BY <1>1, <2>1
    <2> HIDE DEF j, t
    <2>a. 1..Len(j) = 1..Len(m) \cup {Len(j)}
      BY <1>1, <2>2
    <2>3. \A k \in 1..Len(j) : j[k][1] <= j[k][2]
      <3>1. \A k \in 1..Len(m) : j[k][1] <= j[k][2]
        BY <2>2 DEF JoinsTo
      <3> QED
        BY <1>1, <2>2, <2>a, <3>1 DEF t
    <2>4. \A k \in 1..Len(m) : m[k][2] < t[1]
      <3>1. SUFFICES ASSUME NEW k \in 1..Len(m) PROVE m[k][2] < t[1]
        OBVIOUS
      <3>2. m # <<>> /\ Len(m) \in 1..Len(m) /\ (k = Len(m) \/ k < Len(m))
        BY <1>1
      <3>3. k < Len(m) => m[k][2] < m[Len(m)][1]
        BY <3>2 DEF JoinsTo
      <3>4. m[Len(m)][1] <= m[Len(m)][2]
        BY <3>2 DEF JoinsTo
      <3> QED
        BY <1>1, <1>3, <3>2, <3>3, <3>4
    <2>5. \A k, l \in 1..Len(j) : k < l => j[k][2] < j[l][1]
      <3>1. SUFFICES ASSUME NEW k \in 1..Len(j), NEW l \in 1..Len(j), k < l
                     PROVE  j[k][2] < j[l][1]
        OBVIOUS
      <3>2. k \in 1..Len(m) /\ j[k] = m[k] /\ (l = Len(j) \/ l \in 1..Len(m))
        <4>1. Len(m) \in Nat /\ Len(j) = Len(m) + 1
          BY <1>1, <2>2
        <4>2. k \in 1..Len(m) /\ (l = Len(j) \/ l \in 1..Len(m))
          BY <3>1, <4>1
        <4> QED
          BY <2>2, <4>2
      <3>3. CASE l = Len(j)
        BY <2>2, <2>4, <3>2, <3>3
      <3>4. CASE l \in 1..Len(m)
        BY <2>2, <3>1, <3>2, <3>4 DEF JoinsTo
      <3> QED
        BY <3>2, <3>3, <3>4
    <2>6. \A num \in Nat : (\E k \in 1..Len(j) : j[k][1] <= num /\ num <= j[k][2])
                           <=> \/ \E k \in 1..Len(m) : m[k][1] <= num /\ num <= m[k][2]
                               \/ t[1] <= num /\ num <= t[2]
      BY <2>2, <2>a
    <2>7. \A num \in Nat : (\E k \in 1..Len(j) : j[k][1] <= num /\ num <= j[k][2])
                           <=> (\E i \in 1..(n + 1) : s[i][1] <= num /\ num <= s[i][2])
      BY <1>2, <2>6 DEF JoinsTo
    <2>8. j # <<>> /\ n + 1 > 0 /\ n + 1 # 0
      BY <1>1, <2>2
    <2>9. j[Len(j)][1] <= s[n + 1][1]
      BY <1>1, <2>2 DEF t
    <2> QED
      BY <2>2, <2>3, <2>5, <2>7, <2>8, <2>9 DEF JoinsTo, j, t
  <1>4. CASE ~(m = <<>> \/ t[1] > m[Len(m)][2] + 1)
    <2> DEFINE last == m[Len(m)]
               span == <<last[1], Max({last[2], t[2]})>>
    <2>1. j = Append(SubSeq(m, 1, Len(m) - 1), span)
      BY <1>4 DEF Join, Last, Front
    <2>2. Len(m) > 0 /\ Len(m) \in 1..Len(m) /\ last \in Nat \X Nat /\ n > 0
      BY <1>1, <1>4 DEF JoinsTo
    <2>3. last[1] \in Nat /\ last[2] \in Nat /\ last[1] <= last[2]
      BY <1>1, <2>2 DEF JoinsTo
    <2>4. /\ Max({last[2], t[2]}) \in Nat
          /\ Max({last[2], t[2]}) = IF last[2] >= t[2] THEN last[2] ELSE t[2]
      <3> HIDE DEF last, t
      <3> QED
        BY <1>1, <2>3, GreaterOf
    <2>5. /\ j \in Seq(Nat \X Nat) /\ Len(j) = Len(m)
          /\ \A k \in 1..(Len(m) - 1) : j[k] = m[k]
          /\ j[Len(m)] = span
      <3> HIDE DEF last, t, j
      <3>1. span \in Nat \X Nat
        BY <2>3, <2>4
      <3>2. /\ SubSeq(m, 1, Len(m) - 1) \in Seq(Nat \X Nat)
            /\ Len(SubSeq(m, 1, Len(m) - 1)) = Len(m) - 1
            /\ \A k \in 1..(Len(m) - 1) : SubSeq(m, 1, Len(m) - 1)[k] = m[k]
        <4>1. Len(m) \in Nat /\ Len(m) > 0
          BY <1>1, <2>2
        <4>2. Len(m) - 1 \in Nat /\ Len(m) - 1 <= Len(m) /\ m \in Seq(Nat \X Nat)
          BY <1>1, <4>1
        <4> QED
          BY <4>2, FrontOf
      <3> DEFINE front == SubSeq(m, 1, Len(m) - 1)
      <3>3. j = Append(front, span)
        BY <2>1
      <3> HIDE DEF span, front
      <3>4. Len(m) \in Nat /\ Len(front) = Len(m) - 1 /\ front \in Seq(Nat \X Nat)
        BY <1>1, <3>2 DEF front
      <3>5. /\ j \in Seq(Nat \X Nat) /\ Len(j) = Len(m) /\ j[Len(m)] = span
            /\ \A k \in 1..(Len(m) - 1) : j[k] = front[k]
        BY <3>1, <3>3, <3>4
      <3> QED
        BY <3>2, <3>5 DEF front
    <2>6. span[1] = last[1] /\ span[2] = IF last[2] >= t[2] THEN last[2] ELSE t[2]
      BY <2>4
    <2>7. last[1] <= t[1] /\ t[1] <= last[2] + 1
      <3>1. last[1] <= s[n][1]
        BY <2>2 DEF JoinsTo
      <3>2. s[n][1] <= t[1] /\ s[n] \in Nat \X Nat
        BY <2>2
      <3> HIDE DEF last, t
      <3>3. ~(t[1] > last[2] + 1)
        BY <1>4 DEF last
      <3> QED
        BY <1>1, <2>3, <3>1, <3>2, <3>3
    <2> HIDE DEF j, t, last, span
    <2>8. \A k \in 1..Len(j) : j[k][1] <= j[k][2]
      <3>1. SUFFICES ASSUME NEW k \in 1..Len(j) PROVE j[k][1] <= j[k][2]
        OBVIOUS
      <3>2. CASE k = Len(m)
        BY <1>1, <2>3, <2>5, <2>6, <3>2
      <3>3. CASE k # Len(m)
        <4>1. k \in 1..(Len(m) - 1) /\ k \in 1..Len(m)
          BY <1>1, <2>5, <3>3
        <4> QED
          BY <2>5, <4>1 DEF JoinsTo
      <3> QED
        BY <3>2, <3>3
    <2>9. \A k, l \in 1..Len(j) : k < l => j[k][2] < j[l][1]
      <3>1. SUFFICES ASSUME NEW k \in 1..Len(j), NEW l \in 1..Len(j), k < l
                     PROVE  j[k][2] < j[l][1]
        OBVIOUS
      <3>2. /\ k \in 1..(Len(m) - 1) /\ j[k] = m[k] /\ m[k][2] < m[l][1]
            /\ l = Len(m) \/ l \in 1..(Len(m) - 1)
        <4>1. Len(m) \in Nat /\ Len(j) = Len(m)
          BY <1>1, <2>5
        <4>2. k \in 1..(Len(m) - 1) /\ (l = Len(m) \/ l \in 1..(Len(m) - 1))
          BY <3>1, <4>1
        <4>3. k \in 1..Len(m) /\ l \in 1..Len(m)
          BY <2>5
        <4> QED
          BY <2>5, <3>1, <4>2, <4>3 DEF JoinsTo
      <3> QED
        BY <2>5, <2>6, <3>2 DEF last
    <2>10. \A num \in Nat : (\E k \in 1..Len(j) : j[k][1] <= num /\ num <= j[k][2])
                           <=> \/ \E k \in 1..Len(m) : m[k][1] <= num /\ num <= m[k][2]
                               \/ t[1] <= num /\ num <= t[2]
      <3>1. SUFFICES ASSUME NEW num \in Nat
                     PROVE (\E k \in 1..Len(j) : j[k][1] <= num /\ num <= j[k][2])
                           <=> \/ \E k \in 1..Len(m) : m[k][1] <= num /\ num <= m[k][2]
                               \/ t[1] <= num /\ num <= t[2]
        OBVIOUS
      <3>2. 1..Len(m) = 1..(Len(m) - 1) \cup {Len(m)}
        BY <1>1, <2>2
      <3>3. (span[1] <= num /\ num <= span[2])
            <=> \/ last[1] <= num /\ num <= last[2]
                \/ t[1] <= num /\ num <= t[2]
        BY <1>1, <2>3, <2>6, <2>7
      <3>4. (\E k \in 1..Len(j) : j[k][1] <= num /\ num <= j[k][2])
            <=> \/ \E k \in 1..(Len(m) - 1) : m[k][1] <= num /\ num <= m[k][2]
                \/ span[1] <= num /\ num <= span[2]
        BY <2>5, <3>2
      <3>5. (\E k \in 1..Len(m) : m[k][1] <= num /\ num <= m[k][2])
            <=> \/ \E k \in 1..(Len(m) - 1) : m[k][1] <= num /\ num <= m[k][2]
                \/ last[1] <= num /\ num <= last[2]
        BY <3>2 DEF last
      <3> QED
        BY <3>3, <3>4, <3>5
    <2>11. \A num \in Nat : (\E k \in 1..Len(j) : j[k][1] <= num /\ num <= j[k][2])
                           <=> (\E i \in 1..(n + 1) : s[i][1] <= num /\ num <= s[i][2])
      BY <1>2, <2>10 DEF JoinsTo
    <2>12. j # <<>> /\ n + 1 > 0 /\ n + 1 # 0
      BY <1>1, <2>2, <2>5
    <2>13. j[Len(j)][1] <= s[n + 1][1]
      BY <1>1, <2>5, <2>6, <2>7 DEF t
    <2> QED
      BY <2>5, <2>8, <2>9, <2>11, <2>12, <2>13 DEF JoinsTo, j, t
  <1> QED
    BY <1>3, <1>4

\* What Merged recurs over.
Joining(s, f) ==
    f = [n \in 0..Len(s) |-> IF n = 0 THEN <<>> ELSE Join(f[n - 1], s[n])]

\* There is a function that joins span after span.
LEMMA JoiningExists ==
    ASSUME NEW s, Len(s) \in Nat
    PROVE  \E f : Joining(s, f)
  <1> DEFINE Up(n, f) == f = [k \in 0..n |-> IF k = 0 THEN <<>> ELSE Join(f[k - 1], s[k])]
             T == {n \in Nat : \E f : Up(n, f)}
  <1>1. 0 \in T
    <2> DEFINE g == [k \in 0..0 |-> <<>>]
    <2>1. Up(0, g)
      OBVIOUS
    <2> QED
      BY <2>1
  <1>2. ASSUME NEW n \in Nat, n \in T
        PROVE  n + 1 \in T
    <2>1. PICK f : Up(n, f)
      BY <1>2
    <2> DEFINE g == [k \in 0..(n + 1) |-> IF k <= n THEN f[k] ELSE Join(f[n], s[n + 1])]
    <2>2. \A k \in 0..(n + 1) : g[k] = IF k = 0 THEN <<>> ELSE Join(g[k - 1], s[k])
      <3>1. SUFFICES ASSUME NEW k \in 0..(n + 1)
                     PROVE  g[k] = IF k = 0 THEN <<>> ELSE Join(g[k - 1], s[k])
        OBVIOUS
      <3>2. CASE k <= n
        <4>1. k \in 0..n /\ g[k] = f[k] /\ (k # 0 => k - 1 \in 0..(n + 1) /\ g[k - 1] = f[k - 1])
          BY <3>2
        <4>2. f[k] = IF k = 0 THEN <<>> ELSE Join(f[k - 1], s[k])
          BY <2>1, <4>1
        <4> QED
          BY <4>1, <4>2
      <3>3. CASE k = n + 1
        <4>1. k # 0 /\ k - 1 = n /\ n \in 0..(n + 1) /\ ~(k <= n)
          BY <3>3
        <4>2. g[k] = Join(f[n], s[n + 1]) /\ g[n] = f[n]
          BY <3>3, <4>1
        <4> QED
          BY <3>3, <4>1, <4>2
      <3> QED
        BY <3>2, <3>3
    <2>3. g = [k \in 0..(n + 1) |-> IF k = 0 THEN <<>> ELSE Join(g[k - 1], s[k])]
      <3>1. g = [k \in 0..(n + 1) |-> g[k]]
        OBVIOUS
      <3> HIDE DEF g
      <3> QED
        BY <2>2, <3>1
    <2> HIDE DEF g
    <2>4. Up(n + 1, g) /\ n + 1 \in Nat
      BY <2>3
    <2> QED
      BY <2>4
  <1>3. Len(s) \in T
    <2> HIDE DEF T
    <2> QED
      BY <1>1, <1>2, Induct
  <1> QED
    BY <1>3 DEF Joining

\* Merged is what such a function has for all the spans.
LEMMA MergedIs ==
    ASSUME NEW arrays, NEW col, Len(Sorted(Spans(arrays, col))) \in Nat
    PROVE  \E f : /\ Joining(Sorted(Spans(arrays, col)), f)
                  /\ Merged(arrays, col) = f[Len(Sorted(Spans(arrays, col)))]
  <1> DEFINE s == Sorted(Spans(arrays, col))
             f == CHOOSE g : g = [n \in 0..Len(s) |->
                                    IF n = 0 THEN <<>> ELSE Join(g[n - 1], s[n])]
  <1>1. Joining(s, f)
    <2>1. \E g : g = [n \in 0..Len(s) |-> IF n = 0 THEN <<>> ELSE Join(g[n - 1], s[n])]
      <3> HIDE DEF s
      <3> QED
        BY JoiningExists DEF Joining, s
    <2> HIDE DEF s
    <2> QED
      BY <2>1 DEF Joining
  <1>2. Merged(arrays, col) = f[Len(s)]
    BY DEF Merged
  <1> HIDE DEF f, s
  <1> QED
    BY <1>1, <1>2 DEF s

\* The values of a function on a finite set are finitely many.
LEMMA ImageFinite ==
    ASSUME NEW D, IsFiniteSet(D), NEW f, DOMAIN f = D
    PROVE  IsFiniteSet({f[x] : x \in D})
  <1> DEFINE T == {f[x] : x \in D}
             g == [x \in D |-> f[x]]
  <1>1. g \in [D -> T] /\ \A t \in T : \E x \in D : g[x] = t
    OBVIOUS
  <1>2. g \in Surjection(D, T)
    <2> HIDE DEF g, T
    <2> QED
      BY <1>1 DEF Surjection
  <1> HIDE DEF g, T
  <1>3. IsFiniteSet(T)
    BY <1>2, FS_Surjection
  <1> QED
    BY <1>3 DEF T

\* A sequence, with its length and its places.
LEMMA Listed ==
    ASSUME NEW s, s \in Seq(Range(s))
    PROVE  Len(s) \in Nat /\ DOMAIN s = 1..Len(s) /\ (Len(s) = 0 => s = <<>>)
  OBVIOUS

\* The rows of a sheet, in their order.
AreRows(sheetRows) ==
    /\ Len(sheetRows) \in Nat /\ DOMAIN sheetRows = 1..Len(sheetRows)
    /\ Len(sheetRows) = 0 => sheetRows = <<>>
    /\ \A i \in DOMAIN sheetRows : IsRow(sheetRows[i])

\* A sheet has finitely many formulas over a range, and each is a cell.
LEMMA ArraysFinite ==
    ASSUME NEW sheetRows, AreRows(sheetRows)
    PROVE  IsFiniteSet(Arrays(sheetRows)) /\ \A c \in Arrays(sheetRows) : IsCell(c)
  <1> DEFINE D == {j \in DOMAIN sheetRows : sheetRows[j].num # None}
             f == [i \in D |-> Range(sheetRows[i].cells)]
  <1>1. IsFiniteSet(D)
    <2>1. IsFiniteSet(1..Len(sheetRows))
      BY FS_Interval DEF AreRows
    <2>2. D \in SUBSET (1..Len(sheetRows))
      BY DEF AreRows
    <2> QED
      BY <2>1, <2>2, FS_Subset
  <1>2. \A i \in D : IsFiniteSet(Range(sheetRows[i].cells))
    <2>1. SUFFICES ASSUME NEW i \in D PROVE IsFiniteSet(Range(sheetRows[i].cells))
      OBVIOUS
    <2>2. IsRow(sheetRows[i])
      BY <2>1 DEF AreRows
    <2> DEFINE cs == sheetRows[i].cells
    <2>3. Len(cs) \in Nat /\ DOMAIN cs = 1..Len(cs)
      <3>1. cs \in Seq(Range(cs))
        BY <2>2 DEF IsRow
      <3> HIDE DEF cs
      <3> QED
        BY <3>1, Listed
    <2> HIDE DEF cs
    <2>4. IsFiniteSet(1..Len(cs))
      BY <2>3, FS_Interval
    <2>5. IsFiniteSet({cs[x] : x \in DOMAIN cs})
      BY <2>3, <2>4, ImageFinite
    <2> QED
      BY <2>5 DEF Range, cs
  <1>3. IsFiniteSet({f[i] : i \in D})
    <2>1. DOMAIN f = D
      OBVIOUS
    <2> HIDE DEF f, D
    <2> QED
      BY <1>1, <2>1, ImageFinite
  <1>4. \A T \in {f[i] : i \in D} : IsFiniteSet(T)
    BY <1>2
  <1>5. Cells(sheetRows) = UNION {f[i] : i \in D}
    BY DEF Cells
  <1>6. IsFiniteSet(Cells(sheetRows))
    <2> HIDE DEF f, D
    <2> QED
      BY <1>3, <1>4, <1>5, FS_UNION
  <1>7. \A c \in Cells(sheetRows) : IsCell(c)
    <2>1. \A row : IsRow(row) => \A c \in Range(row.cells) : IsCell(c)
      BY DEF IsRow, Range
    <2> QED
      BY <2>1 DEF Cells, AreRows
  <1>8. Arrays(sheetRows) \in SUBSET Cells(sheetRows)
    BY DEF Arrays
  <1> QED
    BY <1>6, <1>7, <1>8, FS_Subset

\* What they cover of a column are finitely many spans.
LEMMA SpansFinite ==
    ASSUME NEW arrays, IsFiniteSet(arrays), \A c \in arrays : IsCell(c) /\ Fits(c), NEW col
    PROVE  AreSpans(Spans(arrays, col))
  <1> DEFINE D == {d \in arrays : d.covers.left <= col /\ col <= d.covers.right}
             f == [c \in D |-> <<c.covers.top, c.covers.bottom>>]
  <1>1. IsFiniteSet(D)
    BY FS_Subset
  <1>2. DOMAIN f = D
    OBVIOUS
  <1>3. IsFiniteSet({f[c] : c \in D})
    <2> HIDE DEF f, D
    <2> QED
      BY <1>1, <1>2, ImageFinite
  <1>4. Spans(arrays, col) = {f[c] : c \in D}
    BY DEF Spans
  <1>5. \A c \in D : f[c] \in Nat \X Nat /\ f[c][1] <= f[c][2]
    <2>1. SUFFICES ASSUME NEW c \in D PROVE f[c] \in Nat \X Nat /\ f[c][1] <= f[c][2]
      OBVIOUS
    <2>2. /\ c.covers.top \in Nat /\ c.covers.bottom \in Nat /\ c.row \in Nat
          /\ c.covers.top <= c.row /\ c.row <= c.covers.bottom
      BY DEF IsCell, Fits
    <2>3. f[c] = <<c.covers.top, c.covers.bottom>>
      OBVIOUS
    <2> HIDE DEF f
    <2> QED
      BY <2>2, <2>3
  <1> HIDE DEF f, D
  <1> QED
    BY <1>3, <1>4, <1>5 DEF AreSpans

\* The spans merged cover a column where one of the spans does.
LEMMA MergedJoins ==
    ASSUME NEW arrays, NEW col, AreSpans(Spans(arrays, col))
    PROVE  JoinsTo(Sorted(Spans(arrays, col)), Cardinality(Spans(arrays, col)),
                   Merged(arrays, col))
  <1> DEFINE S == Spans(arrays, col)
             s == Sorted(S)
             N == Cardinality(S)
  <1>1. /\ N \in Nat
        /\ \A i \in 1..N : s[i] \in S
        /\ \A i, j \in 1..N : i < j => s[i][1] <= s[j][1]
    BY SortedInOrder
  <1>2. \A i \in 1..N : s[i] \in Nat \X Nat /\ s[i][1] <= s[i][2]
    BY <1>1 DEF AreSpans
  <1>3. Len(s) = N
    <2>1. DOMAIN s = 1..N /\ s \in [1..N -> S]
      <3> HIDE DEF N, S
      <3>1. s = [i \in 1..Cardinality(S) |->
                   CHOOSE e \in S : Cardinality({t \in S : Earlier(t, e)}) = i - 1]
        BY DEF Sorted
      <3>2. s = [i \in 1..N |-> s[i]]
        BY <3>1 DEF N
      <3> HIDE DEF s
      <3> QED
        BY <1>1, <3>2
    <2> HIDE DEF s, N, S
    <2>2. s \in Seq(S)
      BY <1>1, <2>1
    <2> QED
      BY <1>1, <2>1, <2>2
  <1>4. PICK f : Joining(s, f) /\ Merged(arrays, col) = f[N]
    <2>1. Len(Sorted(Spans(arrays, col))) \in Nat
      BY <1>1, <1>3
    <2> QED
      BY <1>3, <2>1, MergedIs
  <1> HIDE DEF S, s, N
  <1> DEFINE T == {n \in Nat : n <= N => JoinsTo(s, n, f[n])}
  <1>5. 0 \in T
    <2>1. f[0] = <<>>
      BY <1>1, <1>3, <1>4 DEF Joining
    <2>2. JoinsTo(s, 0, <<>>)
      BY DEF JoinsTo
    <2> QED
      BY <2>1, <2>2
  <1>6. ASSUME NEW n \in Nat, n \in T
        PROVE  n + 1 \in T
    <2>1. SUFFICES ASSUME n + 1 <= N PROVE JoinsTo(s, n + 1, f[n + 1])
      OBVIOUS
    <2>2. n + 1 \in 0..Len(s) /\ n + 1 # 0 /\ n + 1 - 1 = n
      BY <1>1, <1>3, <2>1
    <2>3. f[n + 1] = Join(f[n], s[n + 1])
      BY <1>4, <2>2 DEF Joining
    <2>4. JoinsTo(s, n, f[n])
      BY <1>1, <1>6, <2>1
    <2>5. \A i \in 1..(n + 1) : s[i] \in Nat \X Nat /\ s[i][1] <= s[i][2]
      BY <1>1, <1>2, <2>1
    <2>6. n > 0 => s[n][1] <= s[n + 1][1]
      BY <1>1, <2>1
    <2> QED
      BY <2>3, <2>4, <2>5, <2>6, JoinKeeps
  <1>7. N \in T
    <2> HIDE DEF T
    <2> QED
      BY <1>1, <1>5, <1>6, Induct
  <1> QED
    BY <1>1, <1>4, <1>7 DEF N, S, s

\* Of the spans a column is left with, the last that begins above tells whether
\* one of them holds the row.
LEMMA LastAboveDecides ==
    ASSUME NEW s, NEW n, NEW cov, NEW col, JoinsTo(s, n, cov[col]), NEW num \in Nat
    PROVE  Covered(cov, col, num) <=> \E i \in 1..n : s[i][1] <= num /\ num <= s[i][2]
  <1> DEFINE m == cov[col]
             above == {i \in DOMAIN m : m[i][1] <= num}
  <1>1. /\ m \in Seq(Nat \X Nat) /\ Len(m) \in Nat /\ DOMAIN m = 1..Len(m)
        /\ \A k \in 1..Len(m) : m[k][1] \in Nat /\ m[k][2] \in Nat
    BY DEF JoinsTo
  <1>2. Covered(cov, col, num) <=> above # {} /\ num <= m[Max(above)][2]
    BY DEF Covered
  <1>3. (\E k \in 1..Len(m) : m[k][1] <= num /\ num <= m[k][2])
        <=> (\E i \in 1..n : s[i][1] <= num /\ num <= s[i][2])
    BY DEF JoinsTo
  <1>4. \A k, l \in 1..Len(m) : k < l => m[k][2] < m[l][1]
    BY DEF JoinsTo
  <1>5. above \in SUBSET (1..Len(m)) /\ \A k \in 1..Len(m) : k \in above <=> m[k][1] <= num
    BY <1>1
  <1> HIDE DEF above, m
  <1>6. ASSUME Covered(cov, col, num)
        PROVE  \E k \in 1..Len(m) : m[k][1] <= num /\ num <= m[k][2]
    <2>1. Max(above) \in above
      BY <1>1, <1>2, <1>5, <1>6, GreatestOf
    <2> QED
      BY <1>2, <1>5, <1>6, <2>1
  <1>7. ASSUME NEW k \in 1..Len(m), m[k][1] <= num, num <= m[k][2]
        PROVE  Covered(cov, col, num)
    <2>1. k \in above
      BY <1>5, <1>7
    <2>2. Max(above) \in above /\ k <= Max(above)
      BY <1>1, <1>5, <2>1, GreatestOf
    <2>3. Max(above) \in 1..Len(m) /\ m[Max(above)][1] <= num
      BY <1>5, <2>2
    <2>4. ~(k < Max(above))
      BY <1>1, <1>4, <1>7, <2>3
    <2>5. k = Max(above)
      BY <1>1, <2>2, <2>3, <2>4
    <2> QED
      BY <1>2, <1>7, <2>1, <2>5
  <1> QED
    BY <1>3, <1>6, <1>7

\* Some rectangle of the sheet holds the cell.
Beneath(sheetRows, col, num) ==
    \E c \in Arrays(sheetRows) :
        /\ c.covers.left <= col /\ col <= c.covers.right
        /\ c.covers.top <= num /\ num <= c.covers.bottom

\* _is_cell_covered on the merged spans tells whether one of the rectangles holds the
\* cell.
LEMMA CoveredIsBeneath ==
    ASSUME NEW sheetRows, AreRows(sheetRows), \A c \in Arrays(sheetRows) : Fits(c),
           NEW sheet, NEW col \in Retained(sheet), NEW num \in Nat
    PROVE  Covered(CoverOf(sheet, sheetRows), col, num) <=> Beneath(sheetRows, col, num)
  <1> DEFINE A == Arrays(sheetRows)
             S == Spans(A, col)
             cov == CoverOf(sheet, sheetRows)
  <1>1. IsFiniteSet(A) /\ \A c \in A : IsCell(c)
    BY ArraysFinite
  <1>2. AreSpans(S)
    <2> HIDE DEF S
    <2>1. \A c \in A : IsCell(c) /\ Fits(c)
      BY <1>1
    <2> HIDE DEF A
    <2> QED
      BY <1>1, <2>1, SpansFinite DEF S
  <1>3. cov[col] = Merged(A, col)
    BY DEF CoverOf
  <1> HIDE DEF A, cov
  <1>4. JoinsTo(Sorted(S), Cardinality(S), cov[col])
    BY <1>2, <1>3, MergedJoins
  <1>5. Covered(cov, col, num)
        <=> \E i \in 1..Cardinality(S) : Sorted(S)[i][1] <= num /\ num <= Sorted(S)[i][2]
    <2> HIDE DEF S
    <2> QED
      BY <1>4, LastAboveDecides
  <1>6. (\E i \in 1..Cardinality(S) : Sorted(S)[i][1] <= num /\ num <= Sorted(S)[i][2])
        <=> \E s \in S : s[1] <= num /\ num <= s[2]
    <2> HIDE DEF S
    <2>1. /\ \A i \in 1..Cardinality(S) : Sorted(S)[i] \in S
          /\ \A s \in S : \E i \in 1..Cardinality(S) : Sorted(S)[i] = s
      BY <1>2, SortedInOrder
    <2> QED
      BY <2>1
  <1>7. (\E s \in S : s[1] <= num /\ num <= s[2]) <=> Beneath(sheetRows, col, num)
    <2>1. ASSUME NEW s \in S, s[1] <= num, num <= s[2]
          PROVE  Beneath(sheetRows, col, num)
      <3>1. PICK c \in A : /\ c.covers.left <= col /\ col <= c.covers.right
                           /\ s = <<c.covers.top, c.covers.bottom>>
        BY DEF Spans
      <3> QED
        BY <2>1, <3>1 DEF Beneath, A
    <2>2. ASSUME Beneath(sheetRows, col, num)
          PROVE  \E s \in S : s[1] <= num /\ num <= s[2]
      <3>1. PICK c \in A : /\ c.covers.left <= col /\ col <= c.covers.right
                           /\ c.covers.top <= num /\ num <= c.covers.bottom
        BY <2>2 DEF Beneath, A
      <3>2. <<c.covers.top, c.covers.bottom>> \in S
        BY <3>1 DEF Spans
      <3> QED
        BY <3>1, <3>2
    <2> HIDE DEF S
    <2> QED
      BY <2>1, <2>2
  <1> QED
    BY <1>5, <1>6, <1>7 DEF cov

-----------------------------------------------------------------------------
(* The contract.                                                           *)

\* The approved sheets are the sheets of the contract, each once.
LEMMA TheSheets ==
    /\ Len(ApprovedSheets) = 4 /\ DOMAIN ApprovedSheets = 1..4
    /\ \A k \in 1..4 : ApprovedSheets[k] \in Sheet
    /\ \A sheet \in Sheet : \E k \in 1..4 : ApprovedSheets[k] = sheet
    /\ \A k, l \in 1..4 : ApprovedSheets[k] = ApprovedSheets[l] => k = l
  <1>1. Sheet = {"buySell", "receipts", "inventory", "parties"}
    BY DEF Sheet, Contract
  <1>2. /\ ApprovedSheets[1] = "buySell" /\ ApprovedSheets[2] = "receipts"
        /\ ApprovedSheets[3] = "inventory" /\ ApprovedSheets[4] = "parties"
        /\ Len(ApprovedSheets) = 4 /\ DOMAIN ApprovedSheets = 1..4
    BY DEF ApprovedSheets
  <1>3. 1..4 = {1, 2, 3, 4}
    OBVIOUS
  <1> QED
    BY <1>1, <1>2, <1>3

\* A date is never what makes a row active, and every column has a kind.
SheetKinds(sheet, c) ==
    /\ \A i \in DOMAIN c.raw :
         /\ c.raw[i].kind \in {"text", "date", "integer", "decimal"}
         /\ c.raw[i].kind = "date" => c.raw[i].at = 2 /\ sheet # "parties"
    /\ \A i \in DOMAIN c.activity : c.activity[i] = 2 => sheet = "parties"
    /\ Len(c.activity) \in Nat /\ DOMAIN c.activity = 1..Len(c.activity)

\* All four contracts keep to that.
LEMMA RawKinds ==
    ASSUME NEW sheet \in Sheet
    PROVE  SheetKinds(sheet, Contract[sheet])
  <1>1. Sheet = {"buySell", "receipts", "inventory", "parties"}
    BY DEF Sheet, Contract
  <1>2. SheetKinds("buySell", BuySell)
    BY DEF SheetKinds, BuySell, Raw, Unheaded
  <1>3. SheetKinds("receipts", ReceiptsPayments)
    BY DEF SheetKinds, ReceiptsPayments, Raw, Unheaded
  <1>4. SheetKinds("inventory", InventoryMovements)
    BY DEF SheetKinds, InventoryMovements, Raw, Unheaded
  <1>5. SheetKinds("parties", BusinessParties)
    BY DEF SheetKinds, BusinessParties, Raw, Unheaded
  <1>6. /\ Contract["buySell"] = BuySell /\ Contract["receipts"] = ReceiptsPayments
        /\ Contract["inventory"] = InventoryMovements /\ Contract["parties"] = BusinessParties
    BY DEF Contract
  <1> QED
    BY <1>1, <1>2, <1>3, <1>4, <1>5, <1>6

\* What the columns of a contract have to do with each other.
LEMMA TheColumns ==
    ASSUME NEW sheet \in Sheet
    PROVE  /\ ActivityColumns(sheet) \subseteq RawColumns(sheet)
           /\ RawColumns(sheet) \subseteq Retained(sheet)
           /\ Headed(sheet) \subseteq Retained(sheet)
           /\ Contract[sheet].id \in Retained(sheet)
           /\ Contract[sheet].id \notin RawColumns(sheet)
           /\ \A col \in RawColumns(sheet) :
                KindAt(sheet, col) \in {"text", "date", "integer", "decimal"}
           /\ \A col \in ActivityColumns(sheet) : KindAt(sheet, col) \notin {"id", "date"}
  <1>1. WellFormed(Contract[sheet])
    BY ContractAssumption
  <1>2. /\ ActivityColumns(sheet) \subseteq RawColumns(sheet)
        /\ Contract[sheet].id \notin RawColumns(sheet)
    BY <1>1 DEF WellFormed, ActivityColumns, RawColumns
  <1>3. ASSUME NEW col \in RawColumns(sheet)
        PROVE  \E i \in DOMAIN Contract[sheet].raw :
                 /\ KindAt(sheet, col) = Contract[sheet].raw[i].kind
                 /\ Contract[sheet].raw[i].at = col
    <2> DEFINE raws == {Contract[sheet].raw[i] : i \in DOMAIN Contract[sheet].raw}
    <2>1. \E c \in raws : c.at = col
      BY DEF RawColumns
    <2>2. ColumnAt(sheet, col) = CHOOSE c \in raws : c.at = col
      BY DEF ColumnAt
    <2> HIDE DEF raws
    <2>3. ColumnAt(sheet, col) \in raws /\ ColumnAt(sheet, col).at = col
      BY <2>1, <2>2
    <2>4. KindAt(sheet, col) = ColumnAt(sheet, col).kind
      BY <1>2 DEF KindAt
    <2> QED
      BY <2>3, <2>4 DEF raws
  <1>4. \A col \in RawColumns(sheet) :
          /\ KindAt(sheet, col) \in {"text", "date", "integer", "decimal"}
          /\ KindAt(sheet, col) = "date" => col = 2 /\ sheet # "parties"
    BY <1>3, RawKinds DEF SheetKinds
  <1>5. \A col \in ActivityColumns(sheet) : col = 2 => sheet = "parties"
    BY RawKinds DEF ActivityColumns, SheetKinds
  <1>6. /\ RawColumns(sheet) \subseteq Retained(sheet)
        /\ Headed(sheet) \subseteq Retained(sheet)
        /\ Contract[sheet].id \in Retained(sheet)
    BY DEF Retained, Headed
  <1> QED
    BY <1>2, <1>4, <1>5, <1>6

-----------------------------------------------------------------------------
(* Values, with all the strings and with some.                             *)

\* The types of a cell, and the kinds it is decoded for.
Types == {"s", "text", "number", "other"}
Kinds == {"text", "date", "integer", "decimal", "id", "header"}

\* What a cell of a known type is decoded to.
LEMMA Decoded ==
    ASSUME NEW c, c.type \in Types, NEW kind \in Kinds, NEW known
    PROVE  /\ c.type = "s" => Decode(c, kind, known) =
                IF c.value \in DOMAIN known THEN <<"text", known[c.value]>> ELSE Bad
           /\ c.type = "other" => Decode(c, kind, known) = Bad
           /\ c.type \in {"text", "number"} /\ c.value = "broken"
              => Decode(c, kind, known) = Bad
           /\ c.type \in {"text", "number"} /\ c.value = None
              => Decode(c, kind, known) = Nothing
           /\ c.type = "text" /\ c.value \notin {None, "broken"}
              => Decode(c, kind, known) = <<"text", c.value>>
           /\ c.type = "number" /\ c.value \notin {None, "broken"}
              => Decode(c, kind, known) =
                   IF kind \in {"id", "date"} THEN Bad
                   ELSE <<IF kind = "text" THEN "text" ELSE "number", c.value>>
  <1>1. None # "broken"
    BY ReaderAssumption
  <1>2. CASE c.type = "s"
    BY <1>2 DEF Decode
  <1>3. CASE c.type = "other"
    BY <1>3 DEF Decode
  <1>4. CASE c.type = "text"
    BY <1>1, <1>4 DEF Decode
  <1>5. CASE c.type = "number"
    BY <1>1, <1>5 DEF Decode
  <1> QED
    BY <1>2, <1>3, <1>4, <1>5 DEF Types

\* Strings that are all among the known ones.
Within(some, known) ==
    DOMAIN some \subseteq DOMAIN known /\ \A i \in DOMAIN some : some[i] = known[i]

\* With fewer strings a cell is decoded to the same, or to nothing that is accepted.
LEMMA DecodedWithin ==
    ASSUME NEW c, c.type \in Types, NEW kind \in Kinds, NEW some, NEW known, Within(some, known)
    PROVE  /\ Decode(c, kind, some) # Bad => Decode(c, kind, some) = Decode(c, kind, known)
           /\ (c.type = "s" => c.value \in DOMAIN some)
              => Decode(c, kind, some) = Decode(c, kind, known)
  <1>1. CASE c.type = "s"
    BY <1>1, Decoded DEF Within
  <1>2. CASE c.type # "s"
    BY <1>2, Decoded DEF Types
  <1> QED
    BY <1>1, <1>2

\* One cell per column.
OneEach(row) ==
    \A i, j \in DOMAIN row.cells : row.cells[i].col = row.cells[j].col => i = j

\* What the abstract read makes of a cell with these strings at hand.
Seen(sheet, row, col, known) ==
    ValueAt(sheet, row, col, Under(sheet, col, row.num), known)

\* The literal at place i, under no formula.
Plainly(sheet, row, i) ==
    /\ i \in DOMAIN row.cells /\ row.cells[i].formula = "no"
    /\ ~Under(sheet, row.cells[i].col, row.num)

\* A column that is kept has a kind.
LEMMA KindsKnown ==
    ASSUME NEW sheet \in Sheet, NEW col \in Retained(sheet)
    PROVE  KindAt(sheet, col) \in Kinds
  <1>1. CASE col \in RawColumns(sheet)
    BY <1>1, TheColumns DEF Kinds
  <1>2. CASE col = Contract[sheet].id
    BY <1>2 DEF KindAt, Kinds
  <1> QED
    BY <1>1, <1>2 DEF Retained

\* With fewer strings a value is the same or bad, and the same if its own string is
\* among them.
LEMMA SeenWithin ==
    ASSUME NEW sheet \in Sheet, NEW col \in Retained(sheet), NEW row, IsRow(row),
           NEW some, NEW known, Within(some, known)
    PROVE  /\ Seen(sheet, row, col, some) # Bad
              => Seen(sheet, row, col, some) = Seen(sheet, row, col, known)
           /\ (\A i \in DOMAIN row.cells :
                 row.cells[i].col = col /\ row.cells[i].type = "s" /\ Plainly(sheet, row, i)
                 => row.cells[i].value \in DOMAIN some)
              => Seen(sheet, row, col, some) = Seen(sheet, row, col, known)
  <1> DEFINE none == \/ At(row, col) = {} \/ \E c \in At(row, col) : c.formula # "no"
                     \/ Under(sheet, col, row.num)
             c == CHOOSE d \in At(row, col) : TRUE
             kind == KindAt(sheet, col)
  <1>1. CASE none
    BY <1>1 DEF Seen, ValueAt
  <1>2. CASE ~none
    <2>1. /\ Seen(sheet, row, col, some) = Decode(c, kind, some)
          /\ Seen(sheet, row, col, known) = Decode(c, kind, known)
      BY <1>2 DEF Seen, ValueAt
    <2>2. c \in At(row, col)
      BY <1>2
    <2>3. PICK i \in DOMAIN row.cells : c = row.cells[i] /\ c.col = col
      BY <2>2 DEF At, Range
    <2>4. c.type \in Types
      BY <2>3 DEF IsRow, IsCell, Types
    <2>5. kind \in Kinds
      BY KindsKnown
    <2>6. Plainly(sheet, row, i)
      BY <1>2, <2>2, <2>3 DEF Plainly
    <2> HIDE DEF c, kind, none
    <2>7. /\ Decode(c, kind, some) # Bad => Decode(c, kind, some) = Decode(c, kind, known)
          /\ (c.type = "s" => c.value \in DOMAIN some)
             => Decode(c, kind, some) = Decode(c, kind, known)
      BY <2>4, <2>5, DecodedWithin
    <2> QED
      BY <2>1, <2>3, <2>6, <2>7
  <1> QED
    BY <1>1, <1>2

\* In a row with one cell per column, the literal at a place is all its column has.
LEMMA AtPlace ==
    ASSUME NEW sheet, NEW row, OneEach(row), NEW i, Plainly(sheet, row, i)
    PROVE  At(row, row.cells[i].col) = {row.cells[i]}
  BY DEF OneEach, Plainly, At, Range

\* What is seen of it is what it is decoded to.
LEMMA SeenAtPlace ==
    ASSUME NEW sheet, NEW row, OneEach(row), NEW i, Plainly(sheet, row, i), NEW known
    PROVE  Seen(sheet, row, row.cells[i].col, known)
           = Decode(row.cells[i], KindAt(sheet, row.cells[i].col), known)
  <1> DEFINE c == row.cells[i]
             x == Under(sheet, row.cells[i].col, row.num)
  <1>1. At(row, c.col) = {c}
    BY AtPlace
  <1>2. c.formula = "no" /\ ~x
    BY DEF Plainly
  <1>3. Seen(sheet, row, c.col, known) = ValueAt(sheet, row, c.col, x, known)
    BY DEF Seen
  <1> HIDE DEF c, x
  <1>4. (CHOOSE d \in At(row, c.col) : TRUE) = c
    BY <1>1
  <1>5. ValueAt(sheet, row, c.col, x, known) = Decode(c, KindAt(sheet, c.col), known)
    BY <1>1, <1>2, <1>4 DEF ValueAt
  <1> QED
    BY <1>3, <1>5 DEF c

\* Values are told apart by what they begin with.
LEMMA TextIsNotBad ==
    /\ \A x : <<"text", x>> # Bad /\ <<"text", x>> # Nothing
    /\ \A x : <<"number", x>> # Bad /\ <<"number", x>> # Nothing
    /\ Bad # Nothing /\ Bad[1] = "bad" /\ Nothing[1] = "none"
    /\ ~Acts(Bad) /\ ~Acts(Nothing)
  <1>1. \A x, y : <<x, y>>[1] = x /\ <<x, y>>[2] = y
    OBVIOUS
  <1> QED
    BY <1>1 DEF Bad, Nothing, Acts

\* What is there and is no formula is a literal in its place.
LEMMA SeenFrom ==
    ASSUME NEW sheet, NEW row, OneEach(row), NEW col, NEW known,
           Seen(sheet, row, col, known) # Nothing
    PROVE  \E i \in DOMAIN row.cells : Plainly(sheet, row, i) /\ row.cells[i].col = col
  <1>1. /\ At(row, col) # {} /\ \A c \in At(row, col) : c.formula = "no"
        /\ ~Under(sheet, col, row.num)
    BY DEF Seen, ValueAt
  <1> QED
    BY <1>1 DEF At, Range, Plainly

-----------------------------------------------------------------------------
(* A workbook that can be read: what the first pass finds in it, which strings it *)
(* takes, and that both loads bring them.                                  *)

\* Every sheet has its part, and that part its rows.
Opened ==
    /\ workbook \in Workbook
    /\ \A sheet \in Sheet : parts[sheet] \in DOMAIN workbook.sheets

\* What the first pass finds to be covered in a sheet.
Cover(sheet) == CoverOf(sheet, RowsOf(sheet))

\* The rows of a sheet of such a workbook.
LEMMA RowsTyped ==
    ASSUME Opened, NEW sheet \in Sheet
    PROVE  /\ AreRows(RowsOf(sheet))
           /\ \A row \in Range(RowsOf(sheet)) : IsRow(row)
  <1>1. IsWorkbook(workbook)
    BY ReaderAssumption DEF Opened
  <1>2. AreRows(RowsOf(sheet))
    <2>1. /\ RowsOf(sheet) \in Seq(Range(RowsOf(sheet)))
          /\ \A i \in DOMAIN RowsOf(sheet) : IsRow(RowsOf(sheet)[i])
      BY <1>1 DEF Opened, IsWorkbook, RowsOf
    <2> QED
      BY <2>1, Listed DEF AreRows
  <1> QED
    BY <1>2 DEF AreRows, Range

\* A cell is covered for the second pass if it is under a formula.
LEMMA CoverIsUnder ==
    ASSUME Opened, NEW sheet \in Sheet, \A c \in Arrays(RowsOf(sheet)) : Fits(c),
           NEW col \in Retained(sheet), NEW num \in Nat
    PROVE  Covered(Cover(sheet), col, num) <=> Under(sheet, col, num)
  <1>1. Covered(Cover(sheet), col, num) <=> Beneath(RowsOf(sheet), col, num)
    BY RowsTyped, CoveredIsBeneath DEF Cover
  <1> QED
    BY <1>1 DEF Beneath, Under

\* A row as a regular sheet has it.
InOrder(row) ==
    /\ IsRow(row) /\ row.num \in Nat /\ row.num >= 1 /\ row.num # None
    /\ OneEach(row)
    /\ \A i \in DOMAIN row.cells : row.cells[i].row = row.num

\* The rows of a regular sheet are in order, and the header is the first.
LEMMA RegularRows ==
    ASSUME Opened, NEW sheet \in Sheet, Regular(sheet), NEW row \in Range(RowsOf(sheet))
    PROVE  InOrder(row) /\ (row.num = 1 => row = RowsOf(sheet)[1])
  <1>1. PICK i \in DOMAIN RowsOf(sheet) : row = RowsOf(sheet)[i]
    BY DEF Range
  <1>2. /\ row.num # None
        /\ \A j \in DOMAIN RowsOf(sheet) : row.num = RowsOf(sheet)[j].num => i = j
        /\ \A c \in Range(row.cells) : c.row = row.num
        /\ OneEach(row)
    BY <1>1 DEF Regular, OneEach
  <1>3. IsRow(row)
    BY RowsTyped
  <1>4. row.num \in Nat /\ row.num >= 1
    BY <1>2, <1>3 DEF IsRow
  <1>5. \A j \in DOMAIN row.cells : row.cells[j].row = row.num
    BY <1>2 DEF Range
  <1>6. 1 \in DOMAIN RowsOf(sheet) /\ RowsOf(sheet)[1].num = 1
    <2>1. RowsOf(sheet)[1].num = 1
      BY DEF Regular
    <2>2. DOMAIN RowsOf(sheet) = 1..Len(RowsOf(sheet)) /\ Len(RowsOf(sheet)) \in Nat
      BY RowsTyped DEF AreRows
    <2> QED
      BY <1>1, <2>1, <2>2
  <1> QED
    BY <1>1, <1>2, <1>3, <1>4, <1>5, <1>6 DEF InOrder

\* The literals the first pass looks at are those under no formula.
LEMMA LiteralsArePlain ==
    ASSUME Opened, NEW sheet \in Sheet, Regular(sheet), NEW row \in Range(RowsOf(sheet)),
           NEW cols, cols \subseteq Retained(sheet), NEW i
    PROVE  i \in Literals(row, cols, Cover(sheet))
           <=> Plainly(sheet, row, i) /\ row.cells[i].col \in cols
  <1>1. InOrder(row)
    BY RegularRows
  <1>2. \A c \in Arrays(RowsOf(sheet)) : Fits(c)
    BY DEF Regular
  <1>3. \A col \in cols : Covered(Cover(sheet), col, row.num) <=> Under(sheet, col, row.num)
    BY <1>1, <1>2, CoverIsUnder DEF InOrder
  <1> QED
    BY <1>1, <1>3 DEF Literals, Plainly, InOrder

\* A string is used where a literal that is read has its index.
LEMMA UsedIs ==
    ASSUME NEW v
    PROVE  v \in Used <=> \E sheet \in Sheet : \E row \in Range(RowsOf(sheet)) :
             \E i \in DOMAIN row.cells :
               /\ Plainly(sheet, row, i) /\ row.cells[i].type = "s"
               /\ row.cells[i].col \in Reads(sheet, row) /\ row.cells[i].value = v
  <1>1. ASSUME v \in Used
        PROVE  \E sheet \in Sheet : \E row \in Range(RowsOf(sheet)) :
                 \E i \in DOMAIN row.cells :
                   /\ Plainly(sheet, row, i) /\ row.cells[i].type = "s"
                   /\ row.cells[i].col \in Reads(sheet, row) /\ row.cells[i].value = v
    <2>1. PICK a \in UNION {{sheet} \X Range(RowsOf(sheet)) : sheet \in Sheet} :
            v \in {c.value : c \in {d \in Range(a[2].cells) :
                /\ d.type = "s" /\ d.formula = "no"
                /\ d.col \in Reads(a[1], a[2])
                /\ ~Under(a[1], d.col, a[2].num)}}
      BY <1>1 DEF Used
    <2>a. PICK sheet \in Sheet : a \in {sheet} \X Range(RowsOf(sheet))
      BY <2>1
    <2>2. PICK row \in Range(RowsOf(sheet)) : a = <<sheet, row>>
      BY <2>a
    <2>3. a[1] = sheet /\ a[2] = row
      BY <2>2
    <2>4. PICK d \in Range(row.cells) :
            /\ d.type = "s" /\ d.formula = "no" /\ d.col \in Reads(sheet, row)
            /\ ~Under(sheet, d.col, row.num) /\ d.value = v
      BY <2>1, <2>3
    <2>5. PICK i \in DOMAIN row.cells : d = row.cells[i]
      BY <2>4 DEF Range
    <2> QED
      BY <2>2, <2>4, <2>5 DEF Plainly
  <1>2. ASSUME NEW sheet \in Sheet, NEW row \in Range(RowsOf(sheet)),
               NEW i \in DOMAIN row.cells,
               Plainly(sheet, row, i), row.cells[i].type = "s",
               row.cells[i].col \in Reads(sheet, row), row.cells[i].value = v
        PROVE  v \in Used
    <2> DEFINE a == <<sheet, row>>
    <2>1. a \in UNION {{s} \X Range(RowsOf(s)) : s \in Sheet} /\ a[1] = sheet /\ a[2] = row
      <3>1. a \in {sheet} \X Range(RowsOf(sheet))
        OBVIOUS
      <3> QED
        BY <3>1
    <2> HIDE DEF a
    <2>2. row.cells[i] \in Range(row.cells)
      BY DEF Range
    <2>3. v \in {c.value : c \in {d \in Range(a[2].cells) :
                /\ d.type = "s" /\ d.formula = "no"
                /\ d.col \in Reads(a[1], a[2])
                /\ ~Under(a[1], d.col, a[2].num)}}
      BY <1>2, <2>1, <2>2 DEF Plainly
    <2> QED
      BY <2>1, <2>3 DEF Used
  <1> QED
    BY <1>1, <1>2

\* What a workbook that can be read has in the cells that are looked at.
LEMMA Legible ==
    ASSUME Opened, IsReadable, NEW sheet \in Sheet, NEW row \in Range(RowsOf(sheet)),
           NEW i, Plainly(sheet, row, i), row.cells[i].col \in Reads(sheet, row)
    PROVE  /\ row.cells[i].type = "s" => row.cells[i].value \in DOMAIN Known
           /\ row.cells[i].type \in {"text", "number"} => row.cells[i].value # "broken"
           /\ row.num # 1 => Meant(sheet, row, row.cells[i].col) # Bad
  <1> DEFINE c == row.cells[i]
             col == c.col
  <1>1. Regular(sheet) /\ \A r \in DataRows(sheet) : Readable(sheet, r)
    BY DEF IsReadable
  <1>2. InOrder(row) /\ (row.num = 1 => row = RowsOf(sheet)[1])
    BY <1>1, RegularRows
  <1>3. c.type \in Types /\ At(row, col) = {c}
    <2>1. c.type \in Types
      BY <1>2 DEF InOrder, IsRow, IsCell, Types, Plainly
    <2>2. OneEach(row)
      BY <1>2 DEF InOrder
    <2>3. At(row, row.cells[i].col) = {row.cells[i]}
      BY <2>2, AtPlace
    <2> QED
      BY <2>1, <2>3
  <1>4. ASSUME NEW kind \in Kinds, Decode(c, kind, Known) # Bad
        PROVE  /\ c.type = "s" => c.value \in DOMAIN Known
               /\ c.type \in {"text", "number"} => c.value # "broken"
    <2> HIDE DEF c
    <2> QED
      BY <1>3, <1>4, Decoded
  <1>5. CASE row.num = 1
    <2>1. col \in Headed(sheet)
      BY <1>5 DEF Reads
    <2>2. HeaderHolds(sheet, row, col, Under(sheet, col, 1), Known)
      BY <1>1, <1>2, <1>5, <2>1 DEF Regular
    <2>3. Decode(c, "header", Known) # Bad
      <3>1. PICK d \in At(row, col) : Decode(d, "header", Known) = <<"text", HeaderText(sheet, col)>>
        BY <2>2 DEF HeaderHolds
      <3>2. d = c
        BY <1>3, <3>1
      <3> QED
        BY <3>1, <3>2, TextIsNotBad
    <2> QED
      BY <1>4, <1>5, <2>3 DEF Kinds
  <1>6. CASE row.num # 1
    <2>1. Readable(sheet, row)
      BY <1>1, <1>6 DEF DataRows
    <2>2. col \in Retained(sheet)
      BY <1>6, TheColumns DEF Reads
    <2>3. Meant(sheet, row, col) # Bad
      <3>1. CASE ~IsActiveRow(sheet, row)
        BY <1>6, <2>1, <3>1 DEF Readable, Reads
      <3>2. CASE IsActiveRow(sheet, row) /\ col \in RawColumns(sheet)
        <4>1. Accepted(sheet, col, Meant(sheet, row, col))
          BY <2>1, <3>2 DEF Readable
        <4>2. ~Accepted(sheet, col, Bad)
          <5>1. KindAt(sheet, col) \in {"text", "date", "integer", "decimal"}
            BY <3>2, TheColumns
          <5>2. Bad[1] = "bad" /\ Bad # Nothing
            BY TextIsNotBad
          <5>3. KindAt(sheet, col) # "text" => Bad \notin Valid[KindAt(sheet, col)]
            BY <5>1, <5>2, ReaderAssumption
          <5> QED
            BY <5>2, <5>3 DEF Accepted
        <4> QED
          BY <4>1, <4>2
      <3>3. CASE IsActiveRow(sheet, row) /\ col = Contract[sheet].id
        BY <2>1, <3>3, TextIsNotBad DEF Readable
      <3>4. col \in RawColumns(sheet) \/ col = Contract[sheet].id
        BY <2>2 DEF Retained
      <3> HIDE DEF col
      <3> QED
        BY <3>1, <3>2, <3>3, <3>4
    <2>4. Meant(sheet, row, col) = Decode(c, KindAt(sheet, col), Known)
      <3>0. OneEach(row)
        BY <1>2 DEF InOrder
      <3>1. Seen(sheet, row, row.cells[i].col, Known)
            = Decode(row.cells[i], KindAt(sheet, row.cells[i].col), Known)
        BY <3>0, SeenAtPlace
      <3> QED
        BY <3>1 DEF Meant, Seen
    <2>5. KindAt(sheet, col) \in Kinds
      BY <2>2, KindsKnown
    <2> HIDE DEF c, col
    <2> QED
      BY <1>4, <1>6, <2>3, <2>4, <2>5 DEF c, col
  <1> QED
    BY <1>5, <1>6

\* A value that acts is a text or a number.
LEMMA ActsIs ==
    /\ \A x : Acts(<<"text", x>>) <=> x \notin Blank
    /\ \A x : Acts(<<"number", x>>)
  <1>1. \A x, y : <<x, y>>[1] = x /\ <<x, y>>[2] = y
    OBVIOUS
  <1> QED
    BY <1>1 DEF Acts

\* What an activity column of a sound row says, by the cell it has.
LEMMA ActsAt ==
    ASSUME Opened, IsReadable, NEW sheet \in Sheet, NEW row \in Range(RowsOf(sheet)),
           row.num # 1, NEW i, Plainly(sheet, row, i),
           row.cells[i].col \in ActivityColumns(sheet)
    PROVE  Acts(Meant(sheet, row, row.cells[i].col)) <=>
             \/ Tells(row.cells[i])
             \/ row.cells[i].type = "s" /\ Known[row.cells[i].value] \notin Blank
  <1> DEFINE c == row.cells[i]
             kind == KindAt(sheet, row.cells[i].col)
  <1>1. InOrder(row) /\ OneEach(row)
    BY RegularRows DEF IsReadable, InOrder
  <1>2. IsCell(c) /\ c.type \in Types
    BY <1>1 DEF InOrder, IsRow, IsCell, Types, Plainly
  <1>3. kind \in {"text", "date", "integer", "decimal"} /\ kind \notin {"id", "date"}
    BY TheColumns
  <1>4. Meant(sheet, row, c.col) = Decode(c, kind, Known)
    BY <1>1, SeenAtPlace DEF Meant, Seen
  <1>5. c.col \in Reads(sheet, row)
    BY TheColumns DEF Reads
  <1>6. /\ c.type = "s" => c.value \in DOMAIN Known
        /\ c.type \in {"text", "number"} => c.value # "broken"
    BY <1>5, Legible
  <1>7. c.type = "number" => c.value \notin Blank
    BY <1>2 DEF IsCell, Blank
  <1> HIDE DEF c, kind
  <1>8. kind \in Kinds
    BY <1>3 DEF Kinds
  <1>9. CASE c.type = "s"
    <2>1. Decode(c, kind, Known) = <<"text", Known[c.value]>>
      BY <1>2, <1>6, <1>8, <1>9, Decoded
    <2>2. ~Tells(c)
      BY <1>9 DEF Tells
    <2> QED
      BY <1>4, <1>9, <2>1, <2>2, ActsIs DEF c
  <1>10. CASE c.type = "other"
    <2>1. Decode(c, kind, Known) = Bad
      BY <1>2, <1>8, <1>10, Decoded
    <2>2. ~Tells(c)
      BY <1>10 DEF Tells
    <2> QED
      BY <1>4, <1>10, <2>1, <2>2, TextIsNotBad DEF c
  <1>11. CASE c.type = "text"
    <2>1. CASE c.value = None
      <3>1. Decode(c, kind, Known) = Nothing
        BY <1>2, <1>8, <1>11, <2>1, Decoded
      <3>2. ~Tells(c)
        BY <1>11, <2>1 DEF Tells
      <3> QED
        BY <1>4, <1>11, <3>1, <3>2, TextIsNotBad DEF c
    <2>2. CASE c.value # None
      <3>1. Decode(c, kind, Known) = <<"text", c.value>>
        BY <1>2, <1>6, <1>8, <1>11, <2>2, Decoded
      <3>2. Tells(c) <=> c.value \notin Blank
        BY <1>11, <2>2 DEF Tells
      <3> QED
        BY <1>4, <1>11, <3>1, <3>2, ActsIs DEF c
    <2> QED
      BY <2>1, <2>2
  <1>12. CASE c.type = "number"
    <2>1. CASE c.value = None
      <3>1. Decode(c, kind, Known) = Nothing
        BY <1>2, <1>8, <1>12, <2>1, Decoded
      <3>2. ~Tells(c)
        BY <1>12, <2>1 DEF Tells
      <3> QED
        BY <1>4, <1>12, <3>1, <3>2, TextIsNotBad DEF c
    <2>2. CASE c.value # None
      <3>1. Decode(c, kind, Known) = <<IF kind = "text" THEN "text" ELSE "number", c.value>>
        BY <1>2, <1>3, <1>6, <1>8, <1>12, <2>2, Decoded
      <3>2. Tells(c)
        BY <1>6, <1>12, <2>2 DEF Tells
      <3>3. Acts(Decode(c, kind, Known))
        <4>1. CASE kind = "text"
          BY <1>7, <1>12, <3>1, <4>1, ActsIs
        <4>2. CASE kind # "text"
          BY <3>1, <4>2, ActsIs
        <4> QED
          BY <4>1, <4>2
      <3> QED
        BY <1>4, <1>12, <3>2, <3>3 DEF c
    <2> QED
      BY <2>1, <2>2
  <1> QED
    BY <1>2, <1>9, <1>10, <1>11, <1>12 DEF Types

\* A row is active by a literal or by one of the strings of its activity cells.
LEMMA ActiveIs ==
    ASSUME Opened, IsReadable, NEW sheet \in Sheet, NEW row \in Range(RowsOf(sheet)),
           row.num # 1
    PROVE  IsActiveRow(sheet, row) <=>
             \/ ActsLiterally(sheet, row, Cover(sheet))
             \/ \E i \in Shared(row, ActivityCells(sheet, row, Cover(sheet))) :
                  Known[row.cells[i].value] \notin Blank
  <1>1. Regular(sheet) /\ OneEach(row)
    BY RegularRows DEF IsReadable, InOrder
  <1>2. ActivityColumns(sheet) \subseteq Retained(sheet)
    BY TheColumns
  <1>3. \A i : i \in ActivityCells(sheet, row, Cover(sheet))
               <=> Plainly(sheet, row, i) /\ row.cells[i].col \in ActivityColumns(sheet)
    BY <1>1, <1>2, LiteralsArePlain DEF ActivityCells
  <1>4. ASSUME IsActiveRow(sheet, row)
        PROVE  \/ ActsLiterally(sheet, row, Cover(sheet))
               \/ \E i \in Shared(row, ActivityCells(sheet, row, Cover(sheet))) :
                    Known[row.cells[i].value] \notin Blank
    <2>1. PICK col \in ActivityColumns(sheet) : Acts(Meant(sheet, row, col))
      BY <1>4 DEF IsActiveRow
    <2>2. Seen(sheet, row, col, Known) # Nothing
      BY <2>1, TextIsNotBad DEF Seen, Meant
    <2>3. PICK i \in DOMAIN row.cells : Plainly(sheet, row, i) /\ row.cells[i].col = col
      BY <1>1, <2>2, SeenFrom
    <2>4. \/ Tells(row.cells[i])
          \/ row.cells[i].type = "s" /\ Known[row.cells[i].value] \notin Blank
      BY <2>1, <2>3, ActsAt
    <2>5. i \in ActivityCells(sheet, row, Cover(sheet))
      BY <1>3, <2>3
    <2> QED
      BY <2>4, <2>5 DEF ActsLiterally, Shared
  <1>5. ASSUME NEW i \in ActivityCells(sheet, row, Cover(sheet)),
               \/ Tells(row.cells[i])
               \/ row.cells[i].type = "s" /\ Known[row.cells[i].value] \notin Blank
        PROVE  IsActiveRow(sheet, row)
    <2>1. Plainly(sheet, row, i) /\ row.cells[i].col \in ActivityColumns(sheet)
      BY <1>3
    <2>2. Acts(Meant(sheet, row, row.cells[i].col))
      BY <1>5, <2>1, ActsAt
    <2> QED
      BY <2>1, <2>2 DEF IsActiveRow
  <1>6. ASSUME ActsLiterally(sheet, row, Cover(sheet))
        PROVE  IsActiveRow(sheet, row)
    BY <1>5, <1>6 DEF ActsLiterally
  <1>7. ASSUME NEW i \in Shared(row, ActivityCells(sheet, row, Cover(sheet))),
               Known[row.cells[i].value] \notin Blank
        PROVE  IsActiveRow(sheet, row)
    BY <1>5, <1>7 DEF Shared
  <1> QED
    BY <1>4, <1>6, <1>7

\* What the first pass asks for and leaves open, of a sheet and of all of them.
WantedOf(sheet) == UNION {Needs(sheet, row, Cover(sheet)) : row \in Range(RowsOf(sheet))}
AllWanted == UNION {WantedOf(sheet) : sheet \in Sheet}
OffersOf(sheet) == CandidatesOf(sheet, RowsOf(sheet), Cover(sheet))
AllOffers == UNION {OffersOf(sheet) : sheet \in Sheet}

\* The strings there are, none of them damaged, if there is a table to read.
LEMMA KnownIs ==
    /\ \A v \in DOMAIN Known :
         /\ ~Unreadable({}) /\ HasTable /\ v \in DOMAIN workbook.strings
         /\ workbook.strings[v] # "broken" /\ Known[v] = workbook.strings[v]
    /\ ~Unreadable({}) /\ HasTable =>
         \A v \in DOMAIN workbook.strings :
           workbook.strings[v] # "broken" =>
             v \in DOMAIN Known /\ Known[v] = workbook.strings[v]
  <1>1. CASE Unreadable({}) \/ ~HasTable
    <2>1. Known = <<>>
      BY <1>1 DEF Known
    <2>2. DOMAIN Known = {}
      BY <2>1
    <2> QED
      BY <1>1, <2>2
  <1>2. CASE ~(Unreadable({}) \/ ~HasTable)
    <2>1. Known = [i \in {j \in DOMAIN workbook.strings : workbook.strings[j] # "broken"} |->
                     workbook.strings[i]]
      BY <1>2 DEF Known
    <2> QED
      BY <1>2, <2>1
  <1> QED
    BY <1>1, <1>2

\* Strings that are known can be loaded.
LEMMA KnownCanBeLoaded ==
    ASSUME NEW V, V \subseteq DOMAIN Known, V # {}
    PROVE  ~Unreadable(V)
  BY KnownIs DEF Unreadable

\* The literals of a row that are strings, by their indices.
LEMMA IndicesAre ==
    ASSUME NEW row, NEW cols, NEW cov, NEW v
    PROVE  v \in Indices(row, Literals(row, cols, cov)) <=>
             \E i \in Literals(row, cols, cov) : row.cells[i].type = "s" /\ row.cells[i].value = v
  BY DEF Indices, Shared

\* An activity column is among those read of any row but the header.
LEMMA ReadsOf ==
    ASSUME NEW sheet \in Sheet, NEW row
    PROVE  /\ Reads(sheet, row) \subseteq Retained(sheet)
           /\ row.num = 1 => Reads(sheet, row) = Headed(sheet)
           /\ row.num # 1 => ActivityColumns(sheet) \subseteq Reads(sheet, row)
           /\ row.num # 1 /\ IsActiveRow(sheet, row) => Reads(sheet, row) = Retained(sheet)
           /\ row.num # 1 /\ ~IsActiveRow(sheet, row)
              => Reads(sheet, row) = ActivityColumns(sheet)
  BY TheColumns DEF Reads

\* What the indices of some columns of a row are, if they are read.
LEMMA ReadIndices ==
    ASSUME Opened, IsReadable, NEW sheet \in Sheet, NEW row \in Range(RowsOf(sheet)),
           NEW cols, cols \subseteq Reads(sheet, row)
    PROVE  Indices(row, Literals(row, cols, Cover(sheet))) \subseteq Used
  <1>1. Regular(sheet) /\ cols \subseteq Retained(sheet)
    BY ReadsOf DEF IsReadable
  <1>2. \A i : i \in Literals(row, cols, Cover(sheet))
               <=> Plainly(sheet, row, i) /\ row.cells[i].col \in cols
    BY <1>1, LiteralsArePlain
  <1>3. SUFFICES ASSUME NEW v \in Indices(row, Literals(row, cols, Cover(sheet)))
                 PROVE  v \in Used
    OBVIOUS
  <1>4. PICK i \in Literals(row, cols, Cover(sheet)) :
          row.cells[i].type = "s" /\ row.cells[i].value = v
    BY <1>3, IndicesAre
  <1>5. Plainly(sheet, row, i) /\ row.cells[i].col \in Reads(sheet, row)
        /\ i \in DOMAIN row.cells
    BY <1>2 DEF Plainly
  <1> QED
    BY <1>4, <1>5, UsedIs

\* The first pass asks for no string in vain.
LEMMA WantedIsUsed ==
    ASSUME Opened, IsReadable, NEW sheet \in Sheet
    PROVE  WantedOf(sheet) \subseteq Used
  <1>1. SUFFICES ASSUME NEW row \in Range(RowsOf(sheet))
                 PROVE  Needs(sheet, row, Cover(sheet)) \subseteq Used
    BY DEF WantedOf
  <1> DEFINE cov == Cover(sheet)
  <1>2. ASSUME HeaderRow(row) PROVE Indices(row, HeaderCells(sheet, row, cov)) \subseteq Used
    <2>1. Headed(sheet) \subseteq Reads(sheet, row)
      BY <1>2, ReadsOf DEF HeaderRow
    <2> QED
      BY <2>1, ReadIndices DEF HeaderCells
  <1>3. ASSUME Examined(row) PROVE Indices(row, ActivityCells(sheet, row, cov)) \subseteq Used
    <2>1. row.num # 1
      BY <1>3 DEF Examined
    <2>2. ActivityColumns(sheet) \subseteq Reads(sheet, row)
      BY <2>1, ReadsOf
    <2> QED
      BY <2>2, ReadIndices DEF ActivityCells
  <1>4. ASSUME Examined(row), ActsLiterally(sheet, row, cov)
        PROVE  Indices(row, SecondaryCells(sheet, row, cov)) \subseteq Used
    <2>1. row.num # 1
      BY <1>4 DEF Examined
    <2>2. IsActiveRow(sheet, row)
      BY <1>4, <2>1, ActiveIs
    <2>3. Retained(sheet) \ ActivityColumns(sheet) \subseteq Reads(sheet, row)
      BY <2>1, <2>2, ReadsOf
    <2> QED
      BY <2>3, ReadIndices DEF SecondaryCells
  <1> QED
    BY <1>2, <1>3, <1>4 DEF Needs

\* The strings that are used are there and sound.
LEMMA UsedIsKnown ==
    ASSUME Opened, IsReadable
    PROVE  Used \subseteq DOMAIN Known /\ "broken" \notin Used
  <1>1. SUFFICES ASSUME NEW v \in Used PROVE v \in DOMAIN Known /\ v # "broken"
    OBVIOUS
  <1>2. \E sheet \in Sheet : \E row \in Range(RowsOf(sheet)) : \E i \in DOMAIN row.cells :
               /\ Plainly(sheet, row, i) /\ row.cells[i].type = "s"
               /\ row.cells[i].col \in Reads(sheet, row) /\ row.cells[i].value = v
    BY <1>1, UsedIs
  <1>3. v \in DOMAIN Known
    BY <1>2, Legible
  <1>4. "broken" \notin DOMAIN workbook.strings
    BY ReaderAssumption DEF Opened, IsWorkbook
  <1> QED
    BY <1>3, <1>4, KnownIs

\* Nothing in a sheet that can be read stops the first pass.
LEMMA DiscoverySucceeds ==
    ASSUME Opened, IsReadable, NEW sheet \in Sheet
    PROVE  /\ parts[sheet] \notin workbook.package.broken
           /\ \A c \in Arrays(RowsOf(sheet)) : Fits(c)
           /\ \A row \in Range(RowsOf(sheet)) : ~FaultIn(sheet, row, Cover(sheet))
  <1>1. Regular(sheet)
    BY DEF IsReadable
  <1>2. SUFFICES ASSUME NEW row \in Range(RowsOf(sheet)), FaultIn(sheet, row, Cover(sheet))
                 PROVE  FALSE
    BY <1>1 DEF Regular
  <1> DEFINE cov == Cover(sheet)
  <1>3. "broken" \notin Used
    BY UsedIsKnown
  <1>4. ~(HeaderRow(row) /\ "broken" \in Indices(row, HeaderCells(sheet, row, cov)))
    <2>1. SUFFICES ASSUME HeaderRow(row)
                   PROVE  Indices(row, HeaderCells(sheet, row, cov)) \subseteq Used
      BY <1>3
    <2>2. Headed(sheet) \subseteq Reads(sheet, row)
      BY <2>1, ReadsOf DEF HeaderRow
    <2> QED
      BY <2>2, ReadIndices DEF HeaderCells
  <1>5. Examined(row) => row.num # 1 /\ ActivityColumns(sheet) \subseteq Reads(sheet, row)
    BY ReadsOf DEF Examined
  <1>6. ASSUME Examined(row), NEW i \in ActivityCells(sheet, row, cov),
               row.cells[i].type \in {"s", "text"}, row.cells[i].value = "broken"
        PROVE  FALSE
    <2>1. Plainly(sheet, row, i) /\ row.cells[i].col \in ActivityColumns(sheet)
      BY <1>1, <1>6, TheColumns, LiteralsArePlain DEF ActivityCells
    <2>2. /\ row.cells[i].type = "s" => row.cells[i].value \in DOMAIN Known
          /\ row.cells[i].type \in {"text", "number"} => row.cells[i].value # "broken"
      BY <1>5, <1>6, <2>1, Legible
    <2>3. "broken" \notin DOMAIN workbook.strings
      BY ReaderAssumption DEF Opened, IsWorkbook
    <2> QED
      BY <1>6, <2>2, <2>3, KnownIs
  <1>7. ASSUME Examined(row), ActsLiterally(sheet, row, cov)
        PROVE  "broken" \notin Indices(row, SecondaryCells(sheet, row, cov))
    <2>1. IsActiveRow(sheet, row)
      BY <1>5, <1>7, ActiveIs
    <2>2. Retained(sheet) \ ActivityColumns(sheet) \subseteq Reads(sheet, row)
      BY <1>5, <1>7, <2>1, ReadsOf
    <2>3. Indices(row, SecondaryCells(sheet, row, cov)) \subseteq Used
      BY <2>2, ReadIndices DEF SecondaryCells
    <2> QED
      BY <1>3, <2>3
  <1> QED
    BY <1>2, <1>4, <1>6, <1>7 DEF FaultIn

\* A row with a candidate, and the candidate it has.
LEMMA OffersAre ==
    ASSUME NEW cand
    PROVE  cand \in AllOffers <=>
             \E sheet \in Sheet : \E row \in Range(RowsOf(sheet)) :
               IsCandidate(sheet, row, Cover(sheet)) /\ cand = Candidate(sheet, row, Cover(sheet))
  BY DEF AllOffers, OffersOf, CandidatesOf

\* The strings of a candidate's activity cells are there after the first load.
LEMMA ActivityLoaded ==
    ASSUME Opened, IsReadable, NEW sheet \in Sheet, NEW row \in Range(RowsOf(sheet)),
           Examined(row), strings = Load(AllWanted),
           NEW i \in Shared(row, ActivityCells(sheet, row, Cover(sheet)))
    PROVE  /\ row.cells[i].value \in DOMAIN strings
           /\ strings[row.cells[i].value] = Known[row.cells[i].value]
  <1> DEFINE v == row.cells[i].value
  <1>1. v \in Indices(row, ActivityCells(sheet, row, Cover(sheet)))
    BY DEF Indices
  <1>2. v \in AllWanted
    <2>1. v \in Needs(sheet, row, Cover(sheet))
      BY <1>1 DEF Needs
    <2> HIDE DEF v
    <2>2. v \in WantedOf(sheet)
      BY <2>1 DEF WantedOf
    <2> QED
      BY <2>2 DEF AllWanted
  <1>3. v \in DOMAIN Known
    <2>1. v \in Used
      <3>1. v \in WantedOf(sheet)
        <4>1. v \in Needs(sheet, row, Cover(sheet))
          BY <1>1 DEF Needs
        <4> HIDE DEF v
        <4> QED
          BY <4>1 DEF WantedOf
      <3> QED
        BY <3>1, WantedIsUsed
    <2> QED
      BY <2>1, UsedIsKnown
  <1> HIDE DEF v
  <1>4. v \in DOMAIN workbook.strings /\ Known[v] = workbook.strings[v]
    BY <1>3, KnownIs
  <1> QED
    BY <1>2, <1>4 DEF Load, v

\* The decision about a candidate is the right one.
LEMMA Decision ==
    ASSUME Opened, IsReadable, NEW sheet \in Sheet, NEW row \in Range(RowsOf(sheet)),
           IsCandidate(sheet, row, Cover(sheet)), strings = Load(AllWanted)
    PROVE  /\ row.num # 1
           /\ ~OutOfRange(Candidate(sheet, row, Cover(sheet)))
           /\ IsActive(Candidate(sheet, row, Cover(sheet))) <=> IsActiveRow(sheet, row)
           /\ IsActiveRow(sheet, row) => Candidate(sheet, row, Cover(sheet)).sec \subseteq Used
  <1> DEFINE cov == Cover(sheet)
             cand == Candidate(sheet, row, cov)
             places == Shared(row, ActivityCells(sheet, row, cov))
  <1>1. Examined(row) /\ row.num # 1 /\ ~ActsLiterally(sheet, row, cov)
    BY DEF IsCandidate, Examined
  <1>2. /\ cand.act = [i \in places |-> row.cells[i].value]
        /\ cand.sec = Indices(row, SecondaryCells(sheet, row, cov))
    BY DEF Candidate
  <1>3. \A i \in places : row.cells[i].value \in DOMAIN strings
                          /\ strings[row.cells[i].value] = Known[row.cells[i].value]
    BY <1>1, ActivityLoaded
  <1>4. places \subseteq Nat
    <2>1. Len(row.cells) \in Nat /\ DOMAIN row.cells = 1..Len(row.cells)
      BY RowsTyped, Listed DEF IsRow
    <2> QED
      BY <2>1 DEF Shared, ActivityCells, Literals
  <1>5. DOMAIN cand.act = places /\ \A i \in places : cand.act[i] = row.cells[i].value
    BY <1>2
  <1>6. IsActiveRow(sheet, row) <=> \E i \in places : Known[row.cells[i].value] \notin Blank
    BY <1>1, ActiveIs
  <1> HIDE DEF places, cand
  <1>7. ~OutOfRange(cand)
    BY <1>3, <1>5 DEF OutOfRange
  <1>8. ASSUME IsActive(cand) PROVE IsActiveRow(sheet, row)
    BY <1>3, <1>5, <1>6, <1>8 DEF IsActive
  <1>9. ASSUME IsActiveRow(sheet, row) PROVE IsActive(cand)
    <2> DEFINE T == {i \in places : Known[row.cells[i].value] \notin Blank}
    <2>1. T \subseteq Nat /\ T # {}
      BY <1>4, <1>6, <1>9
    <2> HIDE DEF T
    <2>2. PICK i \in T : \A j \in T : i <= j
      BY <2>1, LeastNat
    <2>3. Looked(cand, i)
      <3>1. SUFFICES ASSUME NEW j \in places, j < i
                     PROVE  cand.act[j] \in DOMAIN strings /\ strings[cand.act[j]] \in Blank
        BY <1>5 DEF Looked
      <3>2. i \in Nat /\ j \in Nat
        BY <1>4, <2>1
      <3>3. j \notin T
        BY <2>2, <3>1, <3>2
      <3> QED
        BY <1>3, <1>5, <3>3 DEF T
    <2> QED
      BY <1>3, <1>5, <2>3 DEF IsActive, T
  <1>10. ASSUME IsActiveRow(sheet, row) PROVE cand.sec \subseteq Used
    <2>1. Retained(sheet) \ ActivityColumns(sheet) \subseteq Reads(sheet, row)
      BY <1>1, <1>10, ReadsOf
    <2>2. Indices(row, Literals(row, Retained(sheet) \ ActivityColumns(sheet), Cover(sheet)))
          \subseteq Used
      BY <2>1, ReadIndices
    <2> QED
      BY <1>2, <2>2 DEF SecondaryCells
  <1> QED
    BY <1>1, <1>7, <1>8, <1>9, <1>10 DEF cand

\* No candidate stops the second load.
LEMMA DecisionSucceeds ==
    ASSUME Opened, IsReadable, candidates = AllOffers, strings = Load(AllWanted)
    PROVE  ~DecisionFails /\ More \subseteq Used
  <1>1. ASSUME NEW cand \in candidates
        PROVE  ~OutOfRange(cand) /\ (IsActive(cand) => cand.sec \subseteq Used)
    <2>1. PICK sheet \in Sheet : \E row \in Range(RowsOf(sheet)) :
            IsCandidate(sheet, row, Cover(sheet)) /\ cand = Candidate(sheet, row, Cover(sheet))
      BY OffersAre
    <2>2. PICK row \in Range(RowsOf(sheet)) :
            IsCandidate(sheet, row, Cover(sheet)) /\ cand = Candidate(sheet, row, Cover(sheet))
      BY <2>1
    <2> QED
      BY <2>2, Decision
  <1>2. \A cand \in Chosen : cand.sec \subseteq Used
    BY <1>1 DEF Chosen
  <1>3. More \subseteq Used
    BY <1>2 DEF More
  <1>4. "broken" \notin Used /\ Used \subseteq DOMAIN Known
    BY UsedIsKnown
  <1>5. More # {} => ~Unreadable(More)
    <2>1. More \subseteq DOMAIN Known
      BY <1>3, <1>4
    <2> HIDE DEF More
    <2> QED
      BY <2>1, KnownCanBeLoaded
  <1> QED
    BY <1>1, <1>2, <1>3, <1>4, <1>5 DEF DecisionFails

\* What both loads bring is all that is used.
LEMMA UsedIsLoaded ==
    ASSUME Opened, IsReadable, candidates = AllOffers, strings = Load(AllWanted)
    PROVE  Used \subseteq DOMAIN strings \cup DOMAIN Load(More)
  <1>1. SUFFICES ASSUME NEW v \in Used PROVE v \in DOMAIN strings \/ v \in DOMAIN Load(More)
    OBVIOUS
  <1>2. PICK sheet \in Sheet : \E row \in Range(RowsOf(sheet)) : \E i \in DOMAIN row.cells :
               /\ Plainly(sheet, row, i) /\ row.cells[i].type = "s"
               /\ row.cells[i].col \in Reads(sheet, row) /\ row.cells[i].value = v
    BY <1>1, UsedIs
  <1>3. PICK row \in Range(RowsOf(sheet)) : \E i \in DOMAIN row.cells :
               /\ Plainly(sheet, row, i) /\ row.cells[i].type = "s"
               /\ row.cells[i].col \in Reads(sheet, row) /\ row.cells[i].value = v
    BY <1>2
  <1>4. PICK i \in DOMAIN row.cells :
               /\ Plainly(sheet, row, i) /\ row.cells[i].type = "s"
               /\ row.cells[i].col \in Reads(sheet, row) /\ row.cells[i].value = v
    BY <1>3
  <1> DEFINE cov == Cover(sheet)
  <1>5. v \in DOMAIN Known
    BY <1>1, UsedIsKnown
  <1>6. HasTable /\ v \in DOMAIN workbook.strings
    BY <1>5, KnownIs
  <1>7. v \in AllWanted => v \in DOMAIN strings
    BY <1>6 DEF Load
  <1>8. v \in Needs(sheet, row, cov) => v \in AllWanted
    <2>1. Needs(sheet, row, cov) \subseteq WantedOf(sheet)
      BY DEF WantedOf
    <2> QED
      BY <2>1 DEF AllWanted
  <1>9. Regular(sheet) /\ InOrder(row)
    BY RegularRows DEF IsReadable
  <1>10. \A cols : cols \subseteq Retained(sheet) /\ row.cells[i].col \in cols
           => v \in Indices(row, Literals(row, cols, cov))
    <2>1. SUFFICES ASSUME NEW cols, cols \subseteq Retained(sheet), row.cells[i].col \in cols
                   PROVE  v \in Indices(row, Literals(row, cols, cov))
      OBVIOUS
    <2>2. i \in Literals(row, cols, cov)
      BY <1>4, <1>9, <2>1, LiteralsArePlain
    <2> QED
      BY <1>4, <2>2, IndicesAre
  <1>11. CASE row.num = 1
    <2>1. HeaderRow(row)
      BY <1>6, <1>11 DEF HeaderRow
    <2>2. row.cells[i].col \in Headed(sheet)
      BY <1>4, <1>11, ReadsOf
    <2>3. v \in Indices(row, HeaderCells(sheet, row, cov))
      BY <1>10, <2>2, TheColumns DEF HeaderCells
    <2> QED
      BY <1>7, <1>8, <2>1, <2>3 DEF Needs
  <1>12. CASE row.num # 1
    <2>1. Examined(row)
      <3>1. i \in Shared(row, DOMAIN row.cells)
        BY <1>4 DEF Shared
      <3>2. row.num # None /\ row.num >= 2
        BY <1>9, <1>12 DEF InOrder
      <3> QED
        BY <1>6, <3>1, <3>2 DEF Examined
    <2>2. CASE row.cells[i].col \in ActivityColumns(sheet)
      <3>1. v \in Indices(row, ActivityCells(sheet, row, cov))
        BY <1>10, <2>2, TheColumns DEF ActivityCells
      <3> QED
        BY <1>7, <1>8, <2>1, <3>1 DEF Needs
    <2>3. CASE row.cells[i].col \notin ActivityColumns(sheet)
      <3>1. IsActiveRow(sheet, row)
        BY <1>4, <1>12, <2>3, ReadsOf
      <3>2. row.cells[i].col \in Retained(sheet) \ ActivityColumns(sheet)
        BY <1>4, <2>3, ReadsOf
      <3>3. v \in Indices(row, SecondaryCells(sheet, row, cov))
        BY <1>10, <3>2 DEF SecondaryCells
      <3>4. CASE ActsLiterally(sheet, row, cov)
        BY <1>7, <1>8, <2>1, <3>3, <3>4 DEF Needs
      <3>5. CASE ~ActsLiterally(sheet, row, cov)
        <4> DEFINE cand == Candidate(sheet, row, cov)
        <4>1. Shared(row, ActivityCells(sheet, row, cov)) # {}
          BY <1>12, <3>1, <3>5, ActiveIs
        <4>2. IsCandidate(sheet, row, cov)
          BY <2>1, <3>5, <4>1 DEF IsCandidate
        <4>3. cand \in candidates
          BY <4>2, OffersAre
        <4>4. IsActive(cand)
          BY <3>1, <4>2, Decision
        <4>5. v \in cand.sec
          BY <3>3 DEF Candidate
        <4> HIDE DEF cand
        <4>a. cand \in Chosen
          BY <4>3, <4>4 DEF Chosen
        <4>b. v \in UNION {c.sec : c \in Chosen}
          BY <4>5, <4>a
        <4>6. v \in DOMAIN strings \/ v \in More
          BY <4>b DEF More
        <4> HIDE DEF More
        <4>7. v \in More => v \in DOMAIN Load(More)
          BY <1>6 DEF Load
        <4> QED
          BY <4>6, <4>7
      <3> QED
        BY <3>4, <3>5
    <2> QED
      BY <2>2, <2>3
  <1> QED
    BY <1>11, <1>12

-----------------------------------------------------------------------------
(* The invariant.                                                          *)

\* The sheets up to the n-th.
First(n) == {ApprovedSheets[k] : k \in 1..n}

\* The first pass has gone over the sheet.
Fitting(sheet) ==
    parts[sheet] \notin workbook.package.broken /\ \A c \in Arrays(RowsOf(sheet)) : Fits(c)

\* A row that is delivered, and what is delivered of it.
Gives(sheet, i) == RowsOf(sheet)[i].num # 1 /\ IsActiveRow(sheet, RowsOf(sheet)[i])
IdAt(sheet, i) == IdOf(sheet, RowsOf(sheet)[i])
\* What the abstract read delivers of a row, of the first rows of a sheet, of all.
Delivery(sheet, row) ==
    ReadAs(sheet, row.num, IdOf(sheet, row), [col \in RawColumns(sheet) |-> Meant(sheet, row, col)])
Delivered(sheet, n) ==
    {Delivery(sheet, RowsOf(sheet)[i]) : i \in {j \in 1..n : Gives(sheet, j)}}
AllOf(sheet) == Delivered(sheet, Len(RowsOf(sheet)))

\* What the second pass has found out about a row it has gone over.
Checked(sheet, i) ==
    LET row == RowsOf(sheet)[i]
    IN  /\ row.num # None /\ row.num <= LastRow
        /\ \A j \in 1..(i - 1) : RowsOf(sheet)[j].num # row.num
        /\ \A c \in Range(row.cells) : c.row = row.num
        /\ OneEach(row)
        /\ row.num = 1 <=> i = 1
        /\ row.num = 1 => \A col \in Headed(sheet) :
             HeaderHolds(sheet, row, col, Under(sheet, col, 1), Known)
        /\ row.num # 1 => Readable(sheet, row)

\* No two of the first rows of a sheet deliver the same identity.
Distinct(sheet, n) ==
    \A i, j \in 1..n : Gives(sheet, i) /\ Gives(sheet, j) /\ IdAt(sheet, i) = IdAt(sheet, j)
                       => i = j

\* What the second pass has found out about a sheet it has gone over.
SheetRead(sheet) ==
    /\ Len(RowsOf(sheet)) >= 1
    /\ \A i \in 1..Len(RowsOf(sheet)) : Checked(sheet, i)
    /\ Distinct(sheet, Len(RowsOf(sheet)))

\* No row of one sheet has the identity of a row of another.
Apart(n) ==
    \A k, l \in 1..n : \A r \in AllOf(ApprovedSheets[k]), q \in AllOf(ApprovedSheets[l]) :
        r.id = q.id => k = l

\* The invariant.  The package is resolved and every sheet has its part;
Later == {"discover", "strings", "decide", "rows", "done"}

OpenInv ==
    /\ workbook \in Workbook
    /\ pc = "package" => parts = <<>>
    /\ pc \in Later =>
         /\ Resolves(workbook.package)
         /\ DOMAIN parts = Sheet
         /\ \A sheet \in Sheet : parts[sheet] \in PartsOf(workbook.package, sheet)

\* What the first pass makes of the sheets, and how many it is done with.
Covers == [k \in 1..4 |-> Cover(ApprovedSheets[k])]
Gone == IF pc = "discover" THEN at - 1 ELSE 4

\* what the first pass has found is what there is to find in the sheets before;
DiscoverInv ==
    pc \in Later =>
      /\ cover = [k \in 1..Gone |-> Covers[k]]
      /\ wanted = UNION {WantedOf(sheet) : sheet \in First(Gone)}
      /\ candidates = UNION {OffersOf(sheet) : sheet \in First(Gone)}
      /\ \A sheet \in First(Gone) : Fitting(sheet)

\* the strings are those of the table, and the ones that are used if the workbook can
\* be read;
StringsInv ==
    /\ pc = "decide" => strings = Load(wanted) /\ (wanted # {} => ~Unreadable(wanted))
    /\ pc \in {"rows", "done"} =>
         Within(strings, Known) /\ (IsReadable => DOMAIN strings = Used)

\* the rows before have been checked, and delivered as they are meant;
RowsInv ==
    pc = "rows" =>
      /\ line <= Len(RowsNow) + 1
      /\ headed <=> line > 1
      /\ \A i \in 1..(line - 1) : Checked(SheetNow, i)
      /\ Distinct(SheetNow, line - 1)
      /\ Range(rows) = Delivered(SheetNow, line - 1)
      /\ \A k \in 1..(at - 1) : SheetRead(ApprovedSheets[k])
      /\ Apart(at - 1)
      /\ result = UNION {AllOf(sheet) : sheet \in First(at - 1)}

\* nothing is there before its time;
FreshInv ==
    /\ pc = "package" => cover = <<>> /\ wanted = {} /\ candidates = {}
    /\ pc \in {"package", "discover", "strings"} => strings = <<>>
    /\ pc \in {"package", "discover", "strings", "decide"} =>
         line = 1 /\ headed = FALSE /\ rows = <<>> /\ result = {}
    /\ pc \in {"package", "strings", "decide"} => at = 1

\* every variable has its type;
Shape ==
    /\ pc \in Later \cup {"package", "refused"}
    /\ at \in 1..4 /\ line \in Nat \ {0} /\ headed \in BOOLEAN
    /\ Len(cover) \in 0..4
    /\ DOMAIN strings \subseteq DOMAIN workbook.strings
    /\ rows \in Seq(Range(rows)) /\ \A r \in Range(rows) : r.sheet = SheetNow
    /\ \A r \in result : r.sheet \in Sheet /\ r.id \in Range(IdentityOf)

\* and the end is the right one.
EndInv ==
    /\ pc = "done" => IsReadable /\ result = Answer
    /\ pc = "refused" /\ parts # <<>> => ~IsReadable

Inv == OpenInv /\ DiscoverInv /\ StringsInv /\ RowsInv /\ FreshInv /\ Shape /\ EndInv

\* The workbook and what its sheets are taken from stay as they are.
Steady == workbook' = workbook /\ parts' = parts

\* Every judgement of the abstract read is one about the workbook and the parts.
LEMMA SteadyRead ==
    ASSUME Steady
    PROVE  /\ Known' = Known /\ HasTable' = HasTable
           /\ \A sheet : RowsOf(sheet)' = RowsOf(sheet)
           /\ \A sheet, col, num : Under(sheet, col, num)' = Under(sheet, col, num)
           /\ \A sheet, row, col : Meant(sheet, row, col)' = Meant(sheet, row, col)
           /\ \A sheet, row : IsActiveRow(sheet, row)' = IsActiveRow(sheet, row)
           /\ \A sheet, row : Readable(sheet, row)' = Readable(sheet, row)
           /\ \A sheet, row : IdOf(sheet, row)' = IdOf(sheet, row)
  <1>1. HasTable' = HasTable /\ Unreadable({})' = Unreadable({})
    BY DEF Steady, HasTable, Table, Unreadable
  <1>2. Known' = Known
    BY <1>1 DEF Steady, Known
  <1>3. \A sheet : RowsOf(sheet)' = RowsOf(sheet)
    BY DEF Steady, RowsOf
  <1>4. \A sheet, col, num : Under(sheet, col, num)' = Under(sheet, col, num)
    BY <1>3 DEF Under
  <1>5. \A sheet, row, col : Meant(sheet, row, col)' = Meant(sheet, row, col)
    BY <1>2, <1>4 DEF Meant
  <1>6. \A sheet, row : IsActiveRow(sheet, row)' = IsActiveRow(sheet, row)
    BY <1>5 DEF IsActiveRow
  <1>7. \A sheet, row : Readable(sheet, row)' = Readable(sheet, row)
    BY <1>5, <1>6 DEF Readable
  <1>8. \A sheet, row : IdOf(sheet, row)' = IdOf(sheet, row)
    BY <1>5 DEF IdOf
  <1> QED
    BY <1>1, <1>2, <1>3, <1>4, <1>5, <1>6, <1>7, <1>8

\* The answer, as deliveries.
Handed == {Delivery(a[1], a[2]) : a \in ActiveRows}

AnswerIsHanded == Answer = Handed

\* The answer is what the abstract read delivers of the active rows.
LEMMA AnswerIs == AnswerIsHanded
  BY DEF AnswerIsHanded, Answer, Handed, Delivery

\* So are whether it can be read, the answer, and the strings it takes;
LEMMA SteadyAnswer ==
    ASSUME Steady
    PROVE  /\ IsReadable' = IsReadable /\ Answer' = Answer /\ Used' = Used
           /\ ActiveRows' = ActiveRows
  <1>1. \A sheet : DataRows(sheet)' = DataRows(sheet)
    BY SteadyRead DEF DataRows
  <1>2. \A sheet : Regular(sheet)' = Regular(sheet)
    BY SteadyRead DEF Regular, Steady
  <1>3. ActiveRows' = ActiveRows
    BY <1>1, SteadyRead DEF ActiveRows
  <1>4. IsReadable' = IsReadable
    BY <1>1, <1>2, <1>3, SteadyRead DEF IsReadable
  <1>5. Answer' = Answer
    <2>1. \A sheet, row : Delivery(sheet, row)' = Delivery(sheet, row)
      BY SteadyRead DEF Delivery
    <2>2. Handed' = Handed
      BY <1>3, <2>1 DEF Handed
    <2>3. Answer' = Handed'
      <3>1. AnswerIsHanded'
        BY AnswerIs, PTL
      <3> QED
        BY <3>1 DEF AnswerIsHanded
    <2> QED
      BY <2>2, <2>3, AnswerIs DEF AnswerIsHanded
  <1>6. \A sheet, row : Reads(sheet, row)' = Reads(sheet, row)
    BY SteadyRead DEF Reads
  <1>7. Used' = Used
    BY <1>6, SteadyRead DEF Used
  <1> QED
    BY <1>3, <1>4, <1>5, <1>7

\* what the first pass finds in a sheet,
LEMMA SteadySheets ==
    ASSUME Steady
    PROVE  /\ \A sheet : Cover(sheet)' = Cover(sheet)
           /\ \A sheet : WantedOf(sheet)' = WantedOf(sheet)
           /\ \A sheet : OffersOf(sheet)' = OffersOf(sheet)
           /\ \A sheet : Fitting(sheet)' = Fitting(sheet)
  <1>1. \A sheet : Cover(sheet)' = Cover(sheet)
    BY SteadyRead DEF Cover
  <1>2. \A row : Examined(row)' = Examined(row) /\ HeaderRow(row)' = HeaderRow(row)
    BY SteadyRead DEF Examined, HeaderRow
  <1>3. \A sheet, row, cov : Needs(sheet, row, cov)' = Needs(sheet, row, cov)
    BY <1>2 DEF Needs
  <1>4. \A sheet : WantedOf(sheet)' = WantedOf(sheet)
    BY <1>1, <1>3, SteadyRead DEF WantedOf
  <1>5. \A sheet, row, cov : IsCandidate(sheet, row, cov)' = IsCandidate(sheet, row, cov)
    BY <1>2 DEF IsCandidate
  <1>6. \A sheet, sheetRows, cov :
          CandidatesOf(sheet, sheetRows, cov)' = CandidatesOf(sheet, sheetRows, cov)
    BY <1>5 DEF CandidatesOf
  <1>7. \A sheet : OffersOf(sheet)' = OffersOf(sheet)
    BY <1>1, <1>6, SteadyRead DEF OffersOf
  <1>8. \A sheet : Fitting(sheet)' = Fitting(sheet)
    BY SteadyRead DEF Fitting, Steady
  <1> QED
    BY <1>1, <1>4, <1>7, <1>8

\* or in all;
LEMMA SteadyCovers ==
    ASSUME Steady
    PROVE  Covers' = Covers
  BY SteadySheets DEF Covers

\* and what the second pass finds out about rows and sheets.
LEMMA SteadyProgress ==
    ASSUME Steady
    PROVE  /\ \A sheet, i : Gives(sheet, i)' = Gives(sheet, i)
           /\ \A sheet, i : Checked(sheet, i)' = Checked(sheet, i)
           /\ \A sheet, n : Delivered(sheet, n)' = Delivered(sheet, n)
           /\ \A sheet, n : Distinct(sheet, n)' = Distinct(sheet, n)
           /\ \A sheet : AllOf(sheet)' = AllOf(sheet)
           /\ \A sheet : SheetRead(sheet)' = SheetRead(sheet)
           /\ \A n : Apart(n)' = Apart(n)
  <1>1. \A sheet, i : Gives(sheet, i)' = Gives(sheet, i)
    BY SteadyRead DEF Gives
  <1>2. \A sheet, i : IdAt(sheet, i)' = IdAt(sheet, i)
    BY SteadyRead DEF IdAt
  <1>3. \A sheet, i : Checked(sheet, i)' = Checked(sheet, i)
    BY SteadyRead DEF Checked
  <1>4. \A sheet, row : Delivery(sheet, row)' = Delivery(sheet, row)
    BY SteadyRead DEF Delivery
  <1>5. \A sheet, n : Delivered(sheet, n)' = Delivered(sheet, n)
    BY <1>1, <1>4, SteadyRead DEF Delivered
  <1>6. \A sheet, n : Distinct(sheet, n)' = Distinct(sheet, n)
    BY <1>1, <1>2 DEF Distinct
  <1>7. \A sheet : AllOf(sheet)' = AllOf(sheet)
    BY <1>5, SteadyRead DEF AllOf
  <1>8. \A sheet : SheetRead(sheet)' = SheetRead(sheet)
    BY <1>3, <1>6, SteadyRead DEF SheetRead
  <1>9. \A n : Apart(n)' = Apart(n)
    BY <1>7 DEF Apart
  <1> QED
    BY <1>1, <1>3, <1>5, <1>6, <1>7, <1>8, <1>9

-----------------------------------------------------------------------------
(* The package and the first pass.                                         *)

\* The first n values of a function as a sequence, and one more.
LEMMA AppendOne ==
    ASSUME NEW h, NEW n \in Nat, NEW g, g = [k \in 1..n |-> h[k]]
    PROVE  Len(g) = n /\ Append(g, h[n + 1]) = [k \in 1..(n + 1) |-> h[k]]
  <1> DEFINE S == {h[k] : k \in 1..(n + 1)}
  <1>1. g \in Seq(S) /\ Len(g) = n /\ h[n + 1] \in S
    <2>1. g \in [1..n -> S]
      OBVIOUS
    <2>2. DOMAIN g = 1..n
      OBVIOUS
    <2>3. h[n + 1] \in S
      OBVIOUS
    <2> HIDE DEF S
    <2>4. g \in Seq(S)
      BY <2>1
    <2> QED
      BY <2>2, <2>3, <2>4
  <1> HIDE DEF S
  <1>2. /\ Append(g, h[n + 1]) \in Seq(S) /\ Len(Append(g, h[n + 1])) = n + 1
        /\ \A k \in 1..n : Append(g, h[n + 1])[k] = g[k]
        /\ Append(g, h[n + 1])[n + 1] = h[n + 1]
    BY <1>1
  <1>3. \A k \in 1..(n + 1) : Append(g, h[n + 1])[k] = h[k]
    BY <1>2
  <1>4. DOMAIN Append(g, h[n + 1]) = 1..(n + 1)
    BY <1>2
  <1>5. Append(g, h[n + 1]) = [k \in 1..(n + 1) |-> Append(g, h[n + 1])[k]]
    BY <1>2, <1>4
  <1> QED
    BY <1>1, <1>3, <1>5

\* The sheets up to one of them.
LEMMA FirstIs ==
    /\ First(0) = {} /\ First(4) = Sheet
    /\ \A n \in 1..4 : First(n) = First(n - 1) \cup {ApprovedSheets[n]}
    /\ \A n \in 0..4 : First(n) \subseteq Sheet
    /\ \A n \in 1..4 : ApprovedSheets[n] \notin First(n - 1)
  <1>1. First(0) = {}
    BY DEF First
  <1>2. First(4) = Sheet /\ \A n \in 0..4 : First(n) \subseteq Sheet
    BY TheSheets DEF First
  <1>3. \A n \in 1..4 : First(n) = First(n - 1) \cup {ApprovedSheets[n]}
    BY DEF First
  <1>4. \A n \in 1..4 : ApprovedSheets[n] \notin First(n - 1)
    BY TheSheets DEF First
  <1> QED
    BY <1>1, <1>2, <1>3, <1>4

\* Once the package is resolved, every sheet has its part and that part its rows.
LEMMA OpenedBy ==
    ASSUME OpenInv, pc \in Later
    PROVE  Opened
  <1>1. SUFFICES ASSUME NEW sheet \in Sheet PROVE parts[sheet] \in DOMAIN workbook.sheets
    BY DEF Opened, OpenInv
  <1>2. parts[sheet] \in PartsOf(workbook.package, sheet)
    BY DEF OpenInv
  <1>3. Is(workbook.package, parts[sheet], "sheet")
    BY <1>2 DEF PartsOf
  <1>4. IsWorkbook(workbook)
    BY ReaderAssumption DEF OpenInv
  <1> QED
    BY <1>3, <1>4 DEF Is, IsWorkbook

\* The part a sheet is read from is the only one its declaration can mean.
LEMMA NoOtherPart ==
    ASSUME OpenInv, pc \in Later
    PROVE  Unambiguous
  <1> DEFINE p == workbook.package
  <1>1. SUFFICES ASSUME NEW sheet \in Sheet
                 PROVE  {r.target : r \in {q \in Range(p.rels) :
                               [name |-> sheet, id |-> q.id] \in Range(p.declared)}}
                        = {parts[sheet]}
    BY DEF Unambiguous
  <1>2. /\ UniqueIds(p.rels)
        /\ \A i, j \in DOMAIN p.declared : p.declared[i].name = p.declared[j].name => i = j
    BY DEF OpenInv, Resolves
  <1>3. PICK i \in DOMAIN p.rels :
          /\ parts[sheet] = p.rels[i].target
          /\ [name |-> sheet, id |-> p.rels[i].id] \in Range(p.declared)
    <2>1. parts[sheet] \in PartsOf(p, sheet)
      BY DEF OpenInv
    <2> QED
      BY <2>1 DEF PartsOf
  <1> HIDE DEF p
  <1>4. ASSUME NEW j \in DOMAIN p.rels,
               [name |-> sheet, id |-> p.rels[j].id] \in Range(p.declared)
        PROVE  j = i
    <2>1. PICK k \in DOMAIN p.declared : p.declared[k] = [name |-> sheet, id |-> p.rels[i].id]
      BY <1>3 DEF Range
    <2>2. PICK l \in DOMAIN p.declared : p.declared[l] = [name |-> sheet, id |-> p.rels[j].id]
      BY <1>4 DEF Range
    <2>3. p.declared[k].name = p.declared[l].name
      BY <2>1, <2>2
    <2>4. k = l
      BY <1>2, <2>3
    <2>5. p.declared[k].id = p.rels[i].id /\ p.declared[l].id = p.rels[j].id
      BY <2>1, <2>2
    <2>6. p.rels[i].id = p.rels[j].id
      BY <2>4, <2>5
    <2> QED
      BY <1>2, <2>6 DEF UniqueIds
  <1>5. {q \in Range(p.rels) : [name |-> sheet, id |-> q.id] \in Range(p.declared)}
        = {p.rels[i]}
    BY <1>3, <1>4 DEF Range
  <1> QED
    BY <1>3, <1>5

\* The invariant holds in the beginning.
LEMMA InvInit ==
    ASSUME Init
    PROVE  Inv
  <1>1. /\ workbook \in Workbook /\ pc = "package" /\ parts = <<>> /\ at = 1
        /\ cover = <<>> /\ wanted = {} /\ candidates = {} /\ strings = <<>>
        /\ line = 1 /\ headed = FALSE /\ rows = <<>> /\ result = {}
    BY DEF Init
  <1>2. pc \notin Later
    BY <1>1 DEF Later
  <1>3. OpenInv /\ DiscoverInv /\ StringsInv /\ RowsInv /\ FreshInv /\ EndInv
    BY <1>1, <1>2 DEF OpenInv, DiscoverInv, StringsInv, RowsInv, FreshInv, EndInv
  <1>4. Shape
    <2>1. Len(<<>>) = 0 /\ DOMAIN <<>> = {} /\ Range(<<>>) = {} /\ <<>> \in Seq({})
      BY DEF Range
    <2>2. pc \in Later \cup {"package", "refused"} /\ at \in 1..4 /\ line \in Nat \ {0}
      BY <1>1
    <2>a. headed \in BOOLEAN
      BY <1>1, Zenon
    <2>3. Len(cover) \in 0..4 /\ DOMAIN strings \subseteq DOMAIN workbook.strings
      BY <1>1, <2>1
    <2>4. rows \in Seq(Range(rows)) /\ Range(rows) = {}
      BY <1>1, <2>1
    <2> QED
      BY <1>1, <2>a, <2>2, <2>3, <2>4 DEF Shape
  <1> QED
    BY <1>3, <1>4 DEF Inv

\* A refusal keeps what was there, and must be right.
LEMMA InvRefuse ==
    ASSUME Inv, Refuse, parts # <<>> => ~IsReadable
    PROVE  Inv'
  <1>1. /\ pc' = "refused" /\ pc' \notin Later
        /\ UNCHANGED <<workbook, parts, at, cover, wanted, candidates, strings, line,
                       headed, rows, result>>
    BY DEF Refuse, Later
  <1>2. Steady
    BY <1>1 DEF Steady
  <1>3. OpenInv' /\ DiscoverInv' /\ StringsInv' /\ RowsInv' /\ FreshInv'
    BY <1>1 DEF Inv, OpenInv, DiscoverInv, StringsInv, RowsInv, FreshInv
  <1>4. Shape'
    <2>1. SheetNow' = SheetNow
      BY <1>1 DEF SheetNow
    <2> QED
      BY <1>1, <2>1 DEF Inv, Shape
  <1>5. EndInv'
    BY <1>1, <1>2, SteadyAnswer DEF EndInv
  <1> QED
    BY <1>3, <1>4, <1>5 DEF Inv

\* The package resolved: every sheet has its part, and nothing else has been done.
LEMMA InvOpenPackage ==
    ASSUME Inv, OpenPackage
    PROVE  Inv'
  <1>1. /\ pc = "package" /\ pc' = "discover" /\ Resolves(workbook.package)
        /\ parts' = [sheet \in Sheet |-> CHOOSE n \in PartsOf(workbook.package, sheet) : TRUE]
        /\ UNCHANGED <<workbook, at, cover, wanted, candidates, strings, line, headed,
                   rows, result>>
    BY DEF OpenPackage
  <1>2. OpenInv'
    <2>1. \A sheet \in Sheet : PartsOf(workbook.package, sheet) # {}
      BY <1>1 DEF Resolves
    <2>2. \A sheet \in Sheet : parts'[sheet] \in PartsOf(workbook.package, sheet)
      BY <1>1, <2>1
    <2> QED
      BY <1>1, <2>2 DEF Inv, OpenInv
  <1>3. DiscoverInv'
    <2>1. Gone' = 0 /\ cover' = <<>> /\ wanted' = {} /\ candidates' = {}
      BY <1>1 DEF Inv, FreshInv, Gone
    <2>2. First(0) = {}
      BY FirstIs
    <2>3. (<<>> = [k \in 1..0 |-> Covers[k]])'
      OBVIOUS
    <2>4. (cover = [k \in 1..Gone |-> Covers[k]])'
      BY <2>1, <2>3
    <2> QED
      BY <2>1, <2>2, <2>4 DEF DiscoverInv
  <1>4. StringsInv' /\ RowsInv' /\ FreshInv'
    BY <1>1 DEF Inv, StringsInv, RowsInv, FreshInv
  <1>5. Shape'
    <2>1. SheetNow' = SheetNow
      BY <1>1 DEF SheetNow
    <2> QED
      BY <1>1, <2>1 DEF Inv, Shape, Later
  <1>6. EndInv'
    BY <1>1 DEF EndInv
  <1> QED
    BY <1>2, <1>3, <1>4, <1>5, <1>6 DEF Inv

\* One more sheet gone over by the first pass.
LEMMA InvDiscover ==
    ASSUME Inv, Discover
    PROVE  Inv'
  <1> DEFINE cov == CoverOf(SheetNow, RowsNow)
  <1>1. /\ pc = "discover" /\ ~DiscoveryFails
        /\ cover' = Append(cover, cov)
        /\ wanted' = wanted \cup UNION {Needs(SheetNow, row, cov) : row \in Range(RowsNow)}
        /\ candidates' = candidates \cup CandidatesOf(SheetNow, RowsNow, cov)
        /\ \/ at = 4 /\ pc' = "strings" /\ at' = 1
           \/ at # 4 /\ pc' = "discover" /\ at' = at + 1
        /\ UNCHANGED <<workbook, parts, strings, line, headed, rows, result>>
    BY TheSheets DEF Discover
  <1>2. Steady /\ pc \in Later
    BY <1>1 DEF Steady, Later
  <1>3. at \in 1..4 /\ at - 1 \in 0..3 /\ Gone = at - 1 /\ Gone' = at
    BY <1>1 DEF Inv, Shape, Gone
  <1>4. SheetNow \in Sheet /\ RowsNow = RowsOf(SheetNow) /\ Covers[at] = cov
        /\ First(at) = First(at - 1) \cup {SheetNow} /\ SheetNow \notin First(at - 1)
    BY <1>3, TheSheets, FirstIs DEF SheetNow, RowsNow, RowsOf, Covers, Cover
  <1>5. cover' = [k \in 1..at |-> Covers[k]] /\ Len(cover') = at
    <2>1. cover = [k \in 1..(at - 1) |-> Covers[k]]
      BY <1>2, <1>3 DEF Inv, DiscoverInv
    <2>2. Append(cover, Covers[(at - 1) + 1]) = [k \in 1..((at - 1) + 1) |-> Covers[k]]
      BY <1>3, <2>1, AppendOne
    <2>3. (at - 1) + 1 = at
      BY <1>3
    <2>4. cover' = [k \in 1..at |-> Covers[k]]
      BY <1>1, <1>4, <2>2, <2>3
    <2> HIDE DEF cov
    <2> QED
      BY <1>3, <2>4, AppendOne
  <1>6. DiscoverInv'
    <2>1. /\ \A sheet : WantedOf(sheet)' = WantedOf(sheet)
          /\ \A sheet : OffersOf(sheet)' = OffersOf(sheet)
          /\ \A sheet : Fitting(sheet)' = Fitting(sheet)
          /\ Covers' = Covers
      BY <1>2, SteadySheets, SteadyCovers
    <2>2. /\ wanted = UNION {WantedOf(sheet) : sheet \in First(at - 1)}
          /\ candidates = UNION {OffersOf(sheet) : sheet \in First(at - 1)}
          /\ \A sheet \in First(at - 1) : Fitting(sheet)
      BY <1>2, <1>3 DEF Inv, DiscoverInv
    <2>3. wanted' = wanted \cup WantedOf(SheetNow)
      BY <1>1, <1>4 DEF WantedOf, Cover
    <2>4. candidates' = candidates \cup OffersOf(SheetNow)
      BY <1>1, <1>4 DEF OffersOf, Cover
    <2>5. Fitting(SheetNow)
      BY <1>1, <1>4 DEF DiscoveryFails, Fitting, Broken, SheetNow
    <2>6. wanted' = UNION {WantedOf(sheet) : sheet \in First(at)}
      BY <1>4, <2>2, <2>3
    <2>7. candidates' = UNION {OffersOf(sheet) : sheet \in First(at)}
      BY <1>4, <2>2, <2>4
    <2>8. \A sheet \in First(at) : Fitting(sheet)
      BY <1>4, <2>2, <2>5
    <2>9. (cover = [k \in 1..Gone |-> Covers[k]])'
      BY <1>3, <1>5, <2>1
    <2>10. (wanted = UNION {WantedOf(sheet) : sheet \in First(Gone)})'
      BY <1>3, <2>1, <2>6
    <2>11. (candidates = UNION {OffersOf(sheet) : sheet \in First(Gone)})'
      BY <1>3, <2>1, <2>7
    <2>12. (\A sheet \in First(Gone) : Fitting(sheet))'
      BY <1>3, <2>1, <2>8
    <2> QED
      BY <2>9, <2>10, <2>11, <2>12 DEF DiscoverInv
  <1> HIDE DEF cov
  <1>7. OpenInv'
    BY <1>1 DEF Inv, OpenInv, Later
  <1>8. StringsInv' /\ RowsInv' /\ FreshInv' /\ EndInv'
    BY <1>1 DEF Inv, StringsInv, RowsInv, FreshInv, EndInv
  <1>9. Shape'
    <2>1. rows' = <<>> /\ result' = {}
      BY <1>1 DEF Inv, FreshInv
    <2>2. (rows \in Seq(Range(rows)) /\ Range(rows) = {})'
      BY <2>1 DEF Range
    <2>3. at' \in 1..4 /\ pc' \in Later
      BY <1>1, <1>3 DEF Later
    <2>4. Len(cover') \in 0..4
      BY <1>3, <1>5
    <2> QED
      BY <1>1, <2>1, <2>2, <2>3, <2>4 DEF Inv, Shape
  <1> QED
    BY <1>6, <1>7, <1>8, <1>9 DEF Inv

\* The first pass refuses no workbook that can be read.
LEMMA DiscoveryRefusesRightly ==
    ASSUME Inv, DiscoveryRefuses
    PROVE  ~IsReadable
  <1>1. SUFFICES ASSUME IsReadable PROVE FALSE
    OBVIOUS
  <1>2. pc = "discover" /\ DiscoveryFails
    BY DEF DiscoveryRefuses
  <1>3. Opened
    BY <1>2, OpenedBy DEF Inv, Later
  <1>4. at \in 1..4
    BY DEF Inv, Shape
  <1>5. SheetNow \in Sheet /\ RowsNow = RowsOf(SheetNow)
    BY <1>4, TheSheets DEF SheetNow, RowsNow, RowsOf
  <1>6. /\ parts[SheetNow] \notin workbook.package.broken
        /\ \A c \in Arrays(RowsOf(SheetNow)) : Fits(c)
        /\ \A row \in Range(RowsOf(SheetNow)) : ~FaultIn(SheetNow, row, Cover(SheetNow))
    BY <1>1, <1>3, <1>5, DiscoverySucceeds
  <1> QED
    BY <1>2, <1>5, <1>6 DEF DiscoveryFails, Broken, Cover

\* All that the first pass has found when it is over.
LEMMA Discovered ==
    ASSUME Inv, pc \in {"strings", "decide", "rows", "done"}
    PROVE  /\ Opened /\ cover = Covers /\ wanted = AllWanted /\ candidates = AllOffers
           /\ \A sheet \in Sheet : Fitting(sheet)
  <1>1. pc \in Later /\ Gone = 4
    BY DEF Later, Gone
  <1>2. Opened
    BY <1>1, OpenedBy DEF Inv
  <1>3. cover = [k \in 1..4 |-> Covers[k]]
    BY <1>1 DEF Inv, DiscoverInv
  <1>4. Covers = [k \in 1..4 |-> Covers[k]]
    BY DEF Covers
  <1> QED
    BY <1>1, <1>2, <1>3, <1>4, FirstIs DEF Inv, DiscoverInv, AllWanted, AllOffers

\* After the first pass its findings stay.
LEMMA SteadyDiscover ==
    ASSUME Inv, Steady, pc \in {"strings", "decide", "rows", "done"},
           pc' \in {"strings", "decide", "rows", "done"},
           UNCHANGED <<cover, wanted, candidates>>
    PROVE  DiscoverInv' /\ OpenInv'
  <1>1. pc \in Later /\ Gone = 4 /\ Gone' = 4
    BY DEF Later, Gone
  <1>2. /\ \A sheet : WantedOf(sheet)' = WantedOf(sheet)
        /\ \A sheet : OffersOf(sheet)' = OffersOf(sheet)
        /\ \A sheet : Fitting(sheet)' = Fitting(sheet)
        /\ Covers' = Covers
    BY SteadySheets, SteadyCovers
  <1>3. DiscoverInv'
    BY <1>1, <1>2 DEF Inv, DiscoverInv
  <1>4. OpenInv'
    BY <1>1 DEF Inv, OpenInv, Steady, Later
  <1> QED
    BY <1>3, <1>4

\* The first load brings what the first pass wants.
LEMMA InvLoadStrings ==
    ASSUME Inv, LoadStrings
    PROVE  Inv'
  <1>1. /\ pc = "strings" /\ pc' = "decide" /\ (wanted # {} => ~Unreadable(wanted))
        /\ strings' = Load(wanted)
        /\ UNCHANGED <<workbook, parts, at, cover, wanted, candidates, line, headed, rows,
                   result>>
    BY DEF LoadStrings
  <1>2. Steady
    BY <1>1 DEF Steady
  <1>3. DiscoverInv' /\ OpenInv'
    BY <1>1, <1>2, SteadyDiscover
  <1>4. StringsInv'
    <2>1. (strings = Load(wanted))'
      BY <1>1 DEF Load
    <2>2. (wanted # {} => ~Unreadable(wanted))'
      BY <1>1 DEF Unreadable, Table
    <2> QED
      BY <1>1, <2>1, <2>2 DEF StringsInv
  <1>5. RowsInv' /\ FreshInv' /\ EndInv'
    BY <1>1 DEF Inv, RowsInv, FreshInv, EndInv
  <1>6. Shape'
    <2>1. SheetNow' = SheetNow
      BY <1>1 DEF SheetNow
    <2>2. DOMAIN strings' \subseteq DOMAIN workbook'.strings
      BY <1>1 DEF Load
    <2> QED
      BY <1>1, <2>1, <2>2 DEF Inv, Shape, Later
  <1> QED
    BY <1>3, <1>4, <1>5, <1>6 DEF Inv

\* It refuses no workbook that can be read.
LEMMA StringsRefusedRightly ==
    ASSUME Inv, StringsRefused
    PROVE  ~IsReadable
  <1>1. SUFFICES ASSUME IsReadable PROVE FALSE
    OBVIOUS
  <1>2. pc = "strings" /\ wanted # {} /\ Unreadable(wanted)
    BY DEF StringsRefused
  <1>3. Opened /\ wanted = AllWanted
    BY <1>2, Discovered
  <1>4. wanted \subseteq DOMAIN Known
    BY <1>1, <1>3, WantedIsUsed, UsedIsKnown DEF AllWanted
  <1> QED
    BY <1>2, <1>4, KnownCanBeLoaded

\* Only rows of a workbook with a table have a need of strings.
LEMMA NeedsATable ==
    /\ AllWanted # {} => HasTable
    /\ AllOffers # {} => HasTable
  <1>1. \A sheet, row, cov : Needs(sheet, row, cov) # {} => HasTable
    BY DEF Needs, HeaderRow, Examined
  <1>2. AllOffers # {} => HasTable
    BY OffersAre DEF IsCandidate, Examined
  <1> QED
    BY <1>1, <1>2 DEF AllWanted, WantedOf

\* What is loaded is sound, whatever the workbook.
LEMMA LoadedIsKnown ==
    ASSUME NEW V, V # {} => HasTable /\ ~Unreadable(V)
    PROVE  Within(Load(V), Known)
  <1>1. CASE V = {}
    <2>1. DOMAIN Load(V) = {}
      BY <1>1 DEF Load
    <2> QED
      BY <2>1 DEF Within
  <1>2. CASE V # {}
    <2>1. ~Unreadable({}) /\ HasTable
      BY <1>2 DEF Unreadable
    <2>2. \A i \in V \cap DOMAIN workbook.strings :
            i \in DOMAIN Known /\ Known[i] = workbook.strings[i]
      BY <1>2, <2>1, KnownIs DEF Unreadable
    <2> QED
      BY <2>2 DEF Within, Load
  <1> QED
    BY <1>1, <1>2

\* The second load brings the rest of what is used.
LEMMA InvLoadMore ==
    ASSUME Inv, LoadMore
    PROVE  Inv'
  <1> DEFINE more == Load(More)
  <1>1. /\ pc = "decide" /\ pc' = "rows" /\ ~DecisionFails
        /\ strings' = [i \in DOMAIN strings \cup DOMAIN more |->
                         IF i \in DOMAIN strings THEN strings[i] ELSE more[i]]
        /\ UNCHANGED <<workbook, parts, at, cover, wanted, candidates, line, headed, rows,
                       result>>
    BY DEF LoadMore
  <1>2. Steady
    BY <1>1 DEF Steady
  <1>3. DiscoverInv' /\ OpenInv'
    BY <1>1, <1>2, SteadyDiscover
  <1>4. Opened /\ wanted = AllWanted /\ candidates = AllOffers
    BY <1>1, Discovered
  <1>5. strings = Load(wanted) /\ (wanted # {} => ~Unreadable(wanted))
    BY <1>1 DEF Inv, StringsInv
  <1>6. Within(strings, Known)
    BY <1>4, <1>5, NeedsATable, LoadedIsKnown
  <1>7. Within(more, Known)
    <2>1. More # {} => ~Unreadable(More)
      BY <1>1 DEF DecisionFails
    <2>2. More # {} => HasTable
      <3>1. ASSUME More # {} PROVE AllOffers # {}
        BY <1>4, <3>1 DEF More, Chosen
      <3> QED
        BY <3>1, NeedsATable
    <2> QED
      BY <2>1, <2>2, LoadedIsKnown
  <1>8. ASSUME IsReadable PROVE DOMAIN strings' = Used
    <2>1. Used \subseteq DOMAIN strings \cup DOMAIN more
      BY <1>4, <1>5, <1>8, UsedIsLoaded
    <2>2. DOMAIN strings \subseteq Used
      <3>1. AllWanted \subseteq Used
        BY <1>4, <1>8, WantedIsUsed DEF AllWanted
      <3> QED
        BY <1>4, <1>5, <3>1 DEF Load
    <2>3. DOMAIN more \subseteq Used
      <3>1. More \subseteq Used
        BY <1>4, <1>5, <1>8, DecisionSucceeds
      <3> QED
        BY <3>1 DEF Load
    <2> HIDE DEF more
    <2> QED
      BY <1>1, <2>1, <2>2, <2>3
  <1>a. DOMAIN more \subseteq DOMAIN workbook.strings
    BY DEF Load
  <1> HIDE DEF more
  <1>9. StringsInv'
    <2>1. Known' = Known /\ Used' = Used /\ IsReadable' = IsReadable
      BY <1>2, SteadyRead, SteadyAnswer
    <2>2. Within(strings', Known)
      BY <1>1, <1>6, <1>7 DEF Within
    <2>3. (Within(strings, Known))'
      BY <2>1, <2>2 DEF Within
    <2>4. (IsReadable => DOMAIN strings = Used)'
      BY <1>8, <2>1
    <2> QED
      BY <1>1, <2>3, <2>4 DEF StringsInv
  <1>10. at = 1 /\ line = 1 /\ ~headed /\ rows = <<>> /\ result = {}
    BY <1>1 DEF Inv, FreshInv
  <1>11. RowsInv'
    <2>1. SheetNow \in Sheet /\ RowsNow = RowsOf(SheetNow)
      BY <1>10, TheSheets DEF SheetNow, RowsNow, RowsOf
    <2>2. Len(RowsNow) \in Nat
      BY <1>4, <2>1, RowsTyped DEF AreRows
    <2>3. RowsNow' = RowsNow /\ SheetNow' = SheetNow
      BY <1>1 DEF RowsNow, SheetNow
    <2>4. 1..(line' - 1) = {} /\ 1..(at' - 1) = {} /\ at' - 1 = 0
      BY <1>1, <1>10
    <2>5. /\ (\A i \in 1..(line - 1) : Checked(SheetNow, i))'
          /\ (\A k \in 1..(at - 1) : SheetRead(ApprovedSheets[k]))'
      BY <2>4
    <2>7. Distinct(SheetNow, line - 1)'
      BY <2>4 DEF Distinct
    <2>8. Apart(at - 1)'
      BY <2>4 DEF Apart
    <2>9. (Range(rows) = Delivered(SheetNow, line - 1))'
      <3>1. (Delivered(SheetNow, line - 1) = {})'
        BY <2>4 DEF Delivered
      <3>2. rows' = <<>>
        BY <1>1, <1>10
      <3>3. Range(rows') = {}
        BY <3>2 DEF Range
      <3> QED
        BY <3>1, <3>3
    <2>10. (result = UNION {AllOf(sheet) : sheet \in First(at - 1)})'
      <3>1. (First(at - 1) = {})'
        BY <2>4, FirstIs
      <3>2. result' = {}
        BY <1>1, <1>10
      <3> QED
        BY <3>1, <3>2
    <2>6. (headed <=> line > 1)' /\ line' <= Len(RowsNow') + 1
      BY <1>1, <1>10, <2>2, <2>3
    <2> QED
      BY <2>5, <2>6, <2>7, <2>8, <2>9, <2>10 DEF RowsInv
  <1>12. FreshInv' /\ EndInv'
    BY <1>1 DEF FreshInv, EndInv
  <1>13. Shape'
    <2>1. SheetNow' = SheetNow
      BY <1>1 DEF SheetNow
    <2>2. DOMAIN strings' \subseteq DOMAIN workbook'.strings
      BY <1>1, <1>a DEF Inv, Shape
    <2> QED
      BY <1>1, <2>1, <2>2 DEF Inv, Shape, Later
  <1> QED
    BY <1>3, <1>9, <1>11, <1>12, <1>13 DEF Inv

\* It refuses no workbook that can be read.
LEMMA DecisionRefusesRightly ==
    ASSUME Inv, DecisionRefuses
    PROVE  ~IsReadable
  <1>1. pc = "decide" /\ DecisionFails
    BY DEF DecisionRefuses
  <1>2. Opened /\ wanted = AllWanted /\ candidates = AllOffers
    BY <1>1, Discovered
  <1>3. strings = Load(wanted)
    BY <1>1 DEF Inv, StringsInv
  <1> QED
    BY <1>1, <1>2, <1>3, DecisionSucceeds

-----------------------------------------------------------------------------
(* The second pass.                                                        *)

\* A bad value is accepted in no column.
LEMMA AcceptedIsNotBad ==
    ASSUME NEW sheet \in Sheet, NEW col \in RawColumns(sheet)
    PROVE  ~Accepted(sheet, col, Bad)
  <1>1. KindAt(sheet, col) \in {"text", "date", "integer", "decimal"}
    BY TheColumns
  <1>2. Bad[1] = "bad" /\ Bad # Nothing
    BY TextIsNotBad
  <1>3. KindAt(sheet, col) # "text" => Bad \notin Valid[KindAt(sheet, col)]
    BY <1>1, <1>2, ReaderAssumption
  <1> QED
    BY <1>2, <1>3 DEF Accepted

\* A decoded text is a pair.
LEMMA DecodedText ==
    ASSUME NEW c, c.type \in Types, NEW kind \in Kinds, NEW known,
           Decode(c, kind, known)[1] = "text"
    PROVE  Decode(c, kind, known) = <<"text", Decode(c, kind, known)[2]>>
  <1>1. \A x, y : <<x, y>>[1] = x /\ <<x, y>>[2] = y
    OBVIOUS
  <1>2. Decode(c, kind, known) \notin {Bad, Nothing}
    BY TextIsNotBad
  <1>3. CASE c.type = "s"
    BY <1>1, <1>2, <1>3, Decoded
  <1>4. CASE c.type = "other"
    BY <1>2, <1>4, Decoded
  <1>5. CASE c.type = "text"
    BY <1>1, <1>2, <1>5, Decoded
  <1>6. CASE c.type = "number"
    BY <1>1, <1>2, <1>6, Decoded
  <1> QED
    BY <1>3, <1>4, <1>5, <1>6 DEF Types

\* A text that is seen is a pair.
LEMMA SeenText ==
    ASSUME NEW sheet \in Sheet, NEW col \in Retained(sheet), NEW row, IsRow(row), NEW known,
           Seen(sheet, row, col, known)[1] = "text"
    PROVE  Seen(sheet, row, col, known) = <<"text", Seen(sheet, row, col, known)[2]>>
  <1> DEFINE c == CHOOSE d \in At(row, col) : TRUE
             kind == KindAt(sheet, col)
  <1>1. Seen(sheet, row, col, known) # Nothing
    BY TextIsNotBad
  <1>2. At(row, col) # {} /\ Seen(sheet, row, col, known) = Decode(c, kind, known)
    BY <1>1 DEF Seen, ValueAt
  <1>3. c \in At(row, col)
    BY <1>2
  <1>4. c.type \in Types
    BY <1>3 DEF At, Range, IsRow, IsCell, Types
  <1>5. kind \in Kinds
    BY KindsKnown
  <1> HIDE DEF c, kind
  <1> QED
    BY <1>2, <1>4, <1>5, DecodedText

\* Where the second pass is, and what it knows.
LEMMA RowsBegun ==
    ASSUME Inv, pc = "rows"
    PROVE  /\ Opened /\ at \in 1..4 /\ SheetNow \in Sheet /\ RowsNow = RowsOf(SheetNow)
           /\ AreRows(RowsNow) /\ cover[at] = Cover(SheetNow)
           /\ Fitting(SheetNow)
           /\ Within(strings, Known) /\ (IsReadable => DOMAIN strings = Used)
           /\ line \in Nat \ {0} /\ line <= Len(RowsNow) + 1
  <1>1. /\ Opened /\ cover = Covers /\ \A sheet \in Sheet : Fitting(sheet)
    BY Discovered
  <1>2. at \in 1..4 /\ line \in Nat \ {0}
    BY DEF Inv, Shape
  <1>3. SheetNow \in Sheet /\ RowsNow = RowsOf(SheetNow)
    BY <1>2, TheSheets DEF SheetNow, RowsNow, RowsOf
  <1>4. cover[at] = Cover(SheetNow)
    BY <1>1, <1>2 DEF Covers, SheetNow
  <1>5. AreRows(RowsNow)
    BY <1>1, <1>3, RowsTyped
  <1>6. line <= Len(RowsNow) + 1
    BY DEF Inv, RowsInv
  <1>7. Within(strings, Known) /\ (IsReadable => DOMAIN strings = Used)
    BY DEF Inv, StringsInv
  <1> QED
    BY <1>1, <1>2, <1>3, <1>4, <1>5, <1>6, <1>7

\* The row the second pass is at.
LEMMA RowNow ==
    ASSUME Inv, Reading
    PROVE  /\ pc = "rows" /\ line \in 1..Len(RowsNow) /\ Len(RowsNow) \in Nat
           /\ Row = RowsOf(SheetNow)[line] /\ Row \in Range(RowsOf(SheetNow)) /\ IsRow(Row)
  <1>1. pc = "rows" /\ line \in DOMAIN RowsNow
    BY DEF Reading
  <1>2. AreRows(RowsNow) /\ RowsNow = RowsOf(SheetNow)
    BY <1>1, RowsBegun
  <1> QED
    BY <1>1, <1>2 DEF AreRows, Row, Range

\* What the second pass makes of a value is what the abstract read makes of it with
\* the strings loaded.
LEMMA ValueIs ==
    ASSUME Inv, Reading, Row.num \in Nat, NEW col \in Retained(SheetNow)
    PROVE  /\ Covered(cover[at], col, Row.num) <=> Under(SheetNow, col, Row.num)
           /\ Value(col) = Seen(SheetNow, Row, col, strings)
           /\ Value(col) # Bad => Value(col) = Meant(SheetNow, Row, col)
           /\ IsReadable /\ col \in Reads(SheetNow, Row) => Value(col) = Meant(SheetNow, Row, col)
  <1>1. /\ pc = "rows" /\ Row \in Range(RowsOf(SheetNow)) /\ IsRow(Row)
    BY RowNow
  <1>2. /\ Opened /\ SheetNow \in Sheet /\ cover[at] = Cover(SheetNow) /\ Fitting(SheetNow)
        /\ Within(strings, Known) /\ (IsReadable => DOMAIN strings = Used)
    BY <1>1, RowsBegun
  <1>3. Covered(cover[at], col, Row.num) <=> Under(SheetNow, col, Row.num)
    <2>1. \A c \in Arrays(RowsOf(SheetNow)) : Fits(c)
      BY <1>2 DEF Fitting
    <2> QED
      BY <1>2, <2>1, CoverIsUnder
  <1>4. Value(col) = Seen(SheetNow, Row, col, strings)
    BY <1>3 DEF Value, Seen, ValueAt
  <1>5. Seen(SheetNow, Row, col, strings) # Bad
        => Seen(SheetNow, Row, col, strings) = Seen(SheetNow, Row, col, Known)
    BY <1>1, <1>2, SeenWithin
  <1>6. ASSUME IsReadable, col \in Reads(SheetNow, Row)
        PROVE  Seen(SheetNow, Row, col, strings) = Seen(SheetNow, Row, col, Known)
    <2>1. ASSUME NEW i \in DOMAIN Row.cells, Row.cells[i].col = col, Row.cells[i].type = "s",
                 Plainly(SheetNow, Row, i)
          PROVE  Row.cells[i].value \in DOMAIN strings
      <3>1. Row.cells[i].col \in Reads(SheetNow, Row)
        BY <1>6, <2>1
      <3> QED
        BY <1>1, <1>2, <1>6, <2>1, <3>1, UsedIs
    <2> QED
      BY <1>1, <1>2, <2>1, SeenWithin
  <1>7. Meant(SheetNow, Row, col) = Seen(SheetNow, Row, col, Known)
    BY DEF Meant, Seen
  <1> QED
    BY <1>3, <1>4, <1>5, <1>6, <1>7

\* A header holds with the strings loaded if it holds with all of them.
LEMMA HeaderIs ==
    ASSUME Inv, Reading, Row.num = 1, NEW col \in Headed(SheetNow)
    PROVE  /\ HeaderHolds(SheetNow, Row, col, Covered(cover[at], col, 1), strings)
              => HeaderHolds(SheetNow, Row, col, Under(SheetNow, col, 1), Known)
           /\ IsReadable /\ HeaderHolds(SheetNow, Row, col, Under(SheetNow, col, 1), Known)
              => HeaderHolds(SheetNow, Row, col, Covered(cover[at], col, 1), strings)
  <1>1. /\ pc = "rows" /\ Row \in Range(RowsOf(SheetNow)) /\ IsRow(Row)
    BY RowNow
  <1>2. /\ Opened /\ SheetNow \in Sheet
        /\ Within(strings, Known) /\ (IsReadable => DOMAIN strings = Used)
    BY <1>1, RowsBegun
  <1>3. col \in Retained(SheetNow) /\ col \in Reads(SheetNow, Row)
    BY <1>2, TheColumns, ReadsOf
  <1>4. Covered(cover[at], col, 1) <=> Under(SheetNow, col, 1)
    BY <1>3, ValueIs
  <1>5. \A c \in At(Row, col) : c.type \in Types
    BY <1>1 DEF At, Range, IsRow, IsCell, Types
  <1>6. ASSUME NEW c \in At(Row, col), Decode(c, "header", strings) # Bad
        PROVE  Decode(c, "header", strings) = Decode(c, "header", Known)
    BY <1>2, <1>5, <1>6, DecodedWithin DEF Kinds
  <1>7. ASSUME IsReadable, NEW c \in At(Row, col), c.formula = "no", ~Under(SheetNow, col, 1)
        PROVE  Decode(c, "header", strings) = Decode(c, "header", Known)
    <2>1. PICK i \in DOMAIN Row.cells : c = Row.cells[i] /\ c.col = col
      BY DEF At, Range
    <2>2. Plainly(SheetNow, Row, i)
      BY <1>7, <2>1 DEF Plainly
    <2>3. c.type = "s" => c.value \in DOMAIN strings
      BY <1>1, <1>2, <1>3, <1>7, <2>1, <2>2, UsedIs
    <2> QED
      BY <1>2, <1>5, <2>3, DecodedWithin DEF Kinds
  <1>8. <<"text", HeaderText(SheetNow, col)>> # Bad
    BY TextIsNotBad
  <1> QED
    BY <1>4, <1>6, <1>7, <1>8 DEF HeaderHolds

\* The number of a row that has its place.
LEMMA PlacedRow ==
    ASSUME Inv, Reading, Placed
    PROVE  /\ Row.num \in Nat /\ Row.num # None /\ Row.num <= LastRow /\ OneEach(Row)
           /\ \A c \in Range(Row.cells) : c.row = Row.num
           /\ \A j \in 1..(line - 1) : RowsOf(SheetNow)[j].num # Row.num
  <1>1. IsRow(Row) /\ RowsNow = RowsOf(SheetNow)
    BY RowNow, RowsBegun
  <1> QED
    BY <1>1 DEF Placed, IsRow, OneEach

\* The search for activity goes over all the columns if none acts.
LEMMA SearchedAll ==
    ASSUME NEW col \in ActivityColumns(SheetNow), SheetNow \in Sheet, ~Undecided, ~Active
    PROVE  Value(col) # Bad /\ ~Acts(Value(col))
  <1> DEFINE act == Contract[SheetNow].activity
             good(j) == Value(act[j]) # Bad /\ ~Acts(Value(act[j]))
             T == {n \in Nat : \A j \in 1..n : j \in DOMAIN act => good(j)}
  <1>1. Len(act) \in Nat /\ DOMAIN act = 1..Len(act)
    BY RawKinds DEF SheetKinds
  <1>2. \A i \in DOMAIN act : Until(i) => good(i)
    BY DEF Undecided, Active, Sought
  <1>3. 0 \in T
    OBVIOUS
  <1>4. ASSUME NEW n \in Nat, n \in T PROVE n + 1 \in T
    <2>1. \A j \in 1..n : j \in DOMAIN act => good(j)
      BY <1>4
    <2>2. n + 1 \in DOMAIN act => good(n + 1)
      <3>1. SUFFICES ASSUME n + 1 \in DOMAIN act PROVE Until(n + 1)
        BY <1>2
      <3>2. \A j \in 1..((n + 1) - 1) : j \in DOMAIN act
        BY <1>1, <3>1
      <3>3. \A j \in 1..((n + 1) - 1) : good(j)
        BY <2>1, <3>2
      <3> QED
        BY <3>3 DEF Until
    <2> HIDE DEF good
    <2>3. \A j \in 1..(n + 1) : j \in 1..n \/ j = n + 1
      OBVIOUS
    <2> QED
      BY <2>1, <2>2, <2>3
  <1>5. Len(act) \in T
    <2> HIDE DEF T
    <2> QED
      BY <1>1, <1>3, <1>4, Induct
  <1>6. PICK i \in DOMAIN act : col = act[i]
    BY DEF ActivityColumns
  <1> QED
    BY <1>1, <1>5, <1>6

\* A row that is skipped is passive, and can be read.
LEMMA PassiveIs ==
    ASSUME Inv, Reading, IsPassive
    PROVE  ~IsActiveRow(SheetNow, Row) /\ Readable(SheetNow, Row)
  <1>1. pc = "rows" /\ SheetNow \in Sheet
    BY RowNow, RowsBegun
  <1>2. Placed /\ ~Undecided /\ ~Active
    BY DEF IsPassive
  <1>3. Row.num \in Nat
    BY <1>2, PlacedRow
  <1>4. \A col \in ActivityColumns(SheetNow) :
          /\ Meant(SheetNow, Row, col) # Bad /\ ~Acts(Meant(SheetNow, Row, col))
    <2>1. SUFFICES ASSUME NEW col \in ActivityColumns(SheetNow)
                   PROVE  Meant(SheetNow, Row, col) # Bad /\ ~Acts(Meant(SheetNow, Row, col))
      OBVIOUS
    <2>2. Value(col) # Bad /\ ~Acts(Value(col))
      BY <1>1, <1>2, SearchedAll
    <2>3. col \in Retained(SheetNow)
      BY <1>1, TheColumns
    <2> QED
      BY <1>3, <2>2, <2>3, ValueIs
  <1> QED
    BY <1>4 DEF IsActiveRow, Readable

\* A row that is read is active, can be read, and is delivered as it is meant.
LEMMA CompleteIs ==
    ASSUME Inv, Reading, IsComplete
    PROVE  /\ IsActiveRow(SheetNow, Row) /\ Readable(SheetNow, Row)
           /\ New = Delivery(SheetNow, Row) /\ Identity = IdOf(SheetNow, Row)
           /\ Identity \in Range(IdentityOf)
  <1>1. pc = "rows" /\ SheetNow \in Sheet /\ IsRow(Row)
    BY RowNow, RowsBegun
  <1>2. /\ Placed /\ Active /\ Identified
        /\ \A col \in RawColumns(SheetNow) : Accepted(SheetNow, col, Value(col))
    BY DEF IsComplete
  <1>3. Row.num \in Nat
    BY <1>2, PlacedRow
  <1>4. IsActiveRow(SheetNow, Row)
    <2>1. PICK i \in DOMAIN Contract[SheetNow].activity :
            Acts(Value(Contract[SheetNow].activity[i]))
      BY <1>2 DEF Active, Sought
    <2> DEFINE col == Contract[SheetNow].activity[i]
    <2>2. col \in ActivityColumns(SheetNow)
      BY DEF ActivityColumns
    <2> HIDE DEF col
    <2>3. Value(col) # Bad
      BY <2>1, TextIsNotBad DEF col
    <2>4. col \in Retained(SheetNow)
      BY <1>1, <2>2, TheColumns
    <2>5. Value(col) = Meant(SheetNow, Row, col)
      BY <1>3, <2>3, <2>4, ValueIs
    <2>6. Acts(Meant(SheetNow, Row, col))
      BY <2>1, <2>5 DEF col
    <2> QED
      BY <2>2, <2>6 DEF IsActiveRow
  <1>5. \A col \in RawColumns(SheetNow) : Value(col) = Meant(SheetNow, Row, col)
    <2>1. SUFFICES ASSUME NEW col \in RawColumns(SheetNow)
                   PROVE  Value(col) = Meant(SheetNow, Row, col)
      OBVIOUS
    <2>2. Value(col) # Bad
      BY <1>1, <1>2, AcceptedIsNotBad
    <2>3. col \in Retained(SheetNow)
      BY <1>1, TheColumns
    <2> QED
      BY <1>3, <2>2, <2>3, ValueIs
  <1> DEFINE id == Contract[SheetNow].id
  <1>6. id \in Retained(SheetNow)
    BY <1>1, TheColumns
  <1>7. Value(id)[1] = "text" /\ Value(id)[2] \in DOMAIN IdentityOf
    BY <1>2 DEF Identified
  <1>8. Value(id) = Meant(SheetNow, Row, id)
    <2> HIDE DEF id
    <2>1. Value(id) # Bad
      BY <1>7, TextIsNotBad
    <2> QED
      BY <1>3, <1>6, <2>1, ValueIs
  <1>9. Value(id) = <<"text", Value(id)[2]>>
    <2> HIDE DEF id
    <2>1. Value(id) = Seen(SheetNow, Row, id, strings)
      BY <1>3, <1>6, ValueIs
    <2> QED
      BY <1>1, <1>6, <1>7, <2>1, SeenText
  <1>10. Readable(SheetNow, Row)
    <2>1. \A col \in RawColumns(SheetNow) : Accepted(SheetNow, col, Meant(SheetNow, Row, col))
      BY <1>2, <1>5
    <2>2. \E spelling \in DOMAIN IdentityOf : Meant(SheetNow, Row, id) = <<"text", spelling>>
      BY <1>7, <1>8, <1>9
    <2> QED
      BY <1>4, <2>1, <2>2 DEF Readable
  <1>11. Identity = IdOf(SheetNow, Row)
    BY <1>8 DEF Identity, IdOf
  <1>12. New = Delivery(SheetNow, Row)
    BY <1>5, <1>11 DEF New, Delivery
  <1>13. Identity \in Range(IdentityOf)
    BY <1>7 DEF Identity, Range
  <1> QED
    BY <1>4, <1>10, <1>11, <1>12, <1>13

\* A row gone over has been checked.
LEMMA RowIsChecked ==
    ASSUME Inv, Reading, IsHeader \/ IsPassive \/ IsComplete
    PROVE  Checked(SheetNow, line)
  <1>1. /\ pc = "rows" /\ line \in 1..Len(RowsNow) /\ Len(RowsNow) \in Nat
        /\ Row = RowsOf(SheetNow)[line]
    BY RowNow
  <1>2. Placed
    BY DEF IsHeader, IsPassive, IsComplete
  <1>3. /\ Row.num \in Nat /\ Row.num # None /\ Row.num <= LastRow /\ OneEach(Row)
        /\ \A c \in Range(Row.cells) : c.row = Row.num
        /\ \A j \in 1..(line - 1) : RowsOf(SheetNow)[j].num # Row.num
    BY <1>2, PlacedRow
  <1>4. (headed <=> line > 1) /\ \A i \in 1..(line - 1) : Checked(SheetNow, i)
    BY <1>1 DEF Inv, RowsInv
  <1>5. Row.num = 1 <=> line = 1
    <2>1. ASSUME Row.num = 1, line # 1 PROVE FALSE
      <3>1. 1 \in 1..(line - 1)
        BY <1>1, <2>1
      <3>2. RowsOf(SheetNow)[1].num = 1
        BY <1>4, <3>1 DEF Checked
      <3> QED
        BY <1>3, <2>1, <3>1, <3>2
    <2>2. ASSUME Row.num # 1 PROVE line # 1
      <3>1. headed
        BY <2>2 DEF IsHeader, IsPassive, IsComplete
      <3> QED
        BY <1>1, <1>4, <3>1
    <2> QED
      BY <2>1, <2>2
  <1>6. Row.num = 1 => \A col \in Headed(SheetNow) :
          HeaderHolds(SheetNow, Row, col, Under(SheetNow, col, 1), Known)
    <2>1. SUFFICES ASSUME Row.num = 1, NEW col \in Headed(SheetNow)
                   PROVE  HeaderHolds(SheetNow, Row, col, Under(SheetNow, col, 1), Known)
      OBVIOUS
    <2>2. HeaderHolds(SheetNow, Row, col, Covered(cover[at], col, 1), strings)
      BY <2>1 DEF IsHeader, IsPassive, IsComplete
    <2> QED
      BY <2>1, <2>2, HeaderIs
  <1>7. Row.num # 1 => Readable(SheetNow, Row)
    BY PassiveIs, CompleteIs DEF IsHeader
  <1> QED
    BY <1>1, <1>3, <1>5, <1>6, <1>7 DEF Checked

\* What one more row adds.
LEMMA DeliveredNext ==
    ASSUME NEW sheet, NEW n \in Nat
    PROVE  Delivered(sheet, n + 1) = Delivered(sheet, n) \cup
             (IF Gives(sheet, n + 1) THEN {Delivery(sheet, RowsOf(sheet)[n + 1])} ELSE {})
  <1>1. \A i : i \in 1..(n + 1) <=> i \in 1..n \/ i = n + 1
    OBVIOUS
  <1> QED
    BY <1>1 DEF Delivered

\* What is delivered says where it is from.
LEMMA DeliveryHas ==
    ASSUME NEW sheet, NEW row
    PROVE  /\ Delivery(sheet, row).sheet = sheet /\ Delivery(sheet, row).num = row.num
           /\ Delivery(sheet, row).id = IdOf(sheet, row)
  BY DEF Delivery, ReadAs

\* One more row of the sheet gone over.
LEMMA InvRow ==
    ASSUME Inv, Reading, Checked(SheetNow, line), Distinct(SheetNow, line), headed',
           line' = line + 1, UNCHANGED UnchangedByRow, headed' \in BOOLEAN,
           rows' \in Seq(Range(rows')), Range(rows') = Delivered(SheetNow, line)
    PROVE  Inv'
  <1>1. /\ pc = "rows" /\ line \in 1..Len(RowsNow) /\ Len(RowsNow) \in Nat
    BY RowNow
  <1>2. UNCHANGED <<workbook, pc, parts, at, cover, wanted, candidates, strings, result>>
    BY DEF UnchangedByRow
  <1>3. Steady /\ SheetNow' = SheetNow /\ RowsNow' = RowsNow
    BY <1>2 DEF Steady, SheetNow, RowsNow
  <1>4. DiscoverInv' /\ OpenInv'
    BY <1>1, <1>2, <1>3, SteadyDiscover
  <1>5. StringsInv'
    <2>1. Known' = Known /\ Used' = Used /\ IsReadable' = IsReadable
      BY <1>3, SteadyRead, SteadyAnswer
    <2> QED
      BY <1>1, <1>2, <2>1 DEF Inv, StringsInv, Within
  <1>6. /\ line <= Len(RowsNow) + 1
        /\ \A i \in 1..(line - 1) : Checked(SheetNow, i)
        /\ \A k \in 1..(at - 1) : SheetRead(ApprovedSheets[k])
        /\ Apart(at - 1)
        /\ result = UNION {AllOf(sheet) : sheet \in First(at - 1)}
    BY <1>1 DEF Inv, RowsInv
  <1>7. RowsInv'
    <2>1. line' - 1 = line /\ line' <= Len(RowsNow') + 1 /\ line' > 1
      BY <1>1, <1>3
    <2>2. /\ \A sheet, i : Checked(sheet, i)' = Checked(sheet, i)
          /\ \A sheet, n : Delivered(sheet, n)' = Delivered(sheet, n)
          /\ \A sheet, n : Distinct(sheet, n)' = Distinct(sheet, n)
          /\ \A sheet : AllOf(sheet)' = AllOf(sheet)
          /\ \A sheet : SheetRead(sheet)' = SheetRead(sheet)
          /\ \A n : Apart(n)' = Apart(n)
      BY <1>3, SteadyProgress
    <2>3. \A i \in 1..line : Checked(SheetNow, i)
      BY <1>1, <1>6
    <2>4. (\A i \in 1..(line - 1) : Checked(SheetNow, i))'
      BY <1>3, <2>1, <2>2, <2>3
    <2>5. Distinct(SheetNow, line - 1)'
      BY <1>3, <2>1, <2>2
    <2>6. (Range(rows) = Delivered(SheetNow, line - 1))'
      BY <1>3, <2>1, <2>2
    <2>7. (\A k \in 1..(at - 1) : SheetRead(ApprovedSheets[k]))'
      BY <1>2, <1>6, <2>2
    <2>8. Apart(at - 1)'
      BY <1>2, <1>6, <2>2
    <2>9. (result = UNION {AllOf(sheet) : sheet \in First(at - 1)})'
      BY <1>2, <1>6, <2>2
    <2>10. (headed <=> line > 1)'
      BY <2>1
    <2> QED
      BY <2>1, <2>4, <2>5, <2>6, <2>7, <2>8, <2>9, <2>10 DEF RowsInv
  <1>8. FreshInv' /\ EndInv'
    BY <1>1, <1>2 DEF FreshInv, EndInv
  <1>9. Shape'
    <2>1. \A r \in Range(rows') : r.sheet = SheetNow'
      BY <1>3, DeliveryHas DEF Delivered
    <2>2. line' \in Nat \ {0}
      BY <1>1
    <2> QED
      BY <1>2, <2>1, <2>2 DEF Inv, Shape
  <1> QED
    BY <1>4, <1>5, <1>7, <1>8, <1>9 DEF Inv

\* A row that gives nothing adds nothing.
LEMMA NothingAdded ==
    ASSUME Inv, Reading, ~Gives(SheetNow, line)
    PROVE  /\ Distinct(SheetNow, line)
           /\ Range(rows) = Delivered(SheetNow, line) /\ rows \in Seq(Range(rows))
  <1>1. pc = "rows" /\ line \in Nat \ {0}
    BY RowNow, RowsBegun
  <1>2. Distinct(SheetNow, line - 1) /\ Range(rows) = Delivered(SheetNow, line - 1)
        /\ rows \in Seq(Range(rows))
    BY <1>1 DEF Inv, RowsInv, Shape
  <1>3. line - 1 \in Nat /\ (line - 1) + 1 = line
    BY <1>1
  <1>4. Delivered(SheetNow, line) = Delivered(SheetNow, line - 1)
    <2>1. Delivered(SheetNow, (line - 1) + 1) = Delivered(SheetNow, line - 1) \cup
             (IF Gives(SheetNow, (line - 1) + 1)
              THEN {Delivery(SheetNow, RowsOf(SheetNow)[(line - 1) + 1])} ELSE {})
      BY <1>3, DeliveredNext
    <2>2. ~Gives(SheetNow, (line - 1) + 1)
      BY <1>3
    <2> QED
      BY <1>3, <2>1, <2>2
  <1>5. \A i \in 1..line : i \in 1..(line - 1) \/ i = line
    BY <1>1
  <1> QED
    BY <1>2, <1>4, <1>5 DEF Distinct

\* The header read.
LEMMA InvReadHeader ==
    ASSUME Inv, ReadHeader
    PROVE  Inv'
  <1>1. /\ Reading /\ IsHeader /\ headed' = TRUE /\ line' = line + 1
        /\ UNCHANGED UnchangedByRow /\ rows' = rows
    BY DEF ReadHeader
  <1>2. Row.num = 1 /\ Row = RowsOf(SheetNow)[line]
    BY <1>1, RowNow DEF IsHeader
  <1>3. ~Gives(SheetNow, line)
    BY <1>2 DEF Gives
  <1>4. Checked(SheetNow, line)
    BY <1>1, RowIsChecked
  <1>5. headed' /\ headed' \in BOOLEAN
    BY <1>1, Zenon
  <1>6. /\ Distinct(SheetNow, line)
        /\ Range(rows) = Delivered(SheetNow, line) /\ rows \in Seq(Range(rows))
    BY <1>1, <1>3, NothingAdded
  <1>7. Range(rows') = Delivered(SheetNow, line) /\ rows' \in Seq(Range(rows'))
    BY <1>1, <1>6
  <1> QED
    BY <1>1, <1>4, <1>5, <1>6, <1>7, InvRow

\* A passive row skipped.
LEMMA InvSkipRow ==
    ASSUME Inv, SkipRow
    PROVE  Inv'
  <1>1. /\ Reading /\ IsPassive /\ headed' = headed /\ line' = line + 1
        /\ UNCHANGED UnchangedByRow /\ rows' = rows
    BY DEF SkipRow
  <1>2. ~IsActiveRow(SheetNow, Row) /\ Row = RowsOf(SheetNow)[line]
    BY <1>1, RowNow, PassiveIs
  <1>3. ~Gives(SheetNow, line)
    BY <1>2 DEF Gives
  <1>4. Checked(SheetNow, line)
    BY <1>1, RowIsChecked
  <1>5. headed' /\ headed' \in BOOLEAN
    <2>1. headed /\ headed \in BOOLEAN
      BY <1>1 DEF IsPassive, Inv, Shape
    <2> QED
      BY <1>1, <2>1, Zenon
  <1>6. /\ Distinct(SheetNow, line)
        /\ Range(rows) = Delivered(SheetNow, line) /\ rows \in Seq(Range(rows))
    BY <1>1, <1>3, NothingAdded
  <1>7. Range(rows') = Delivered(SheetNow, line) /\ rows' \in Seq(Range(rows'))
    BY <1>1, <1>6
  <1> QED
    BY <1>1, <1>4, <1>5, <1>6, <1>7, InvRow

\* What one more element adds to a sequence.
LEMMA AppendedRange ==
    ASSUME NEW s, s \in Seq(Range(s)), NEW e
    PROVE  Range(Append(s, e)) = Range(s) \cup {e} /\ Append(s, e) \in Seq(Range(Append(s, e)))
  <1> DEFINE S == Range(s) \cup {e}
             t == Append(s, e)
  <1>1. Len(s) \in Nat /\ DOMAIN s = 1..Len(s)
    BY Listed
  <1>2. s \in Seq(S) /\ e \in S
    <2>1. Range(s) \subseteq S
      OBVIOUS
    <2>2. e \in S
      OBVIOUS
    <2> HIDE DEF S
    <2> QED
      BY <2>1, <2>2
  <1> HIDE DEF S
  <1>3. /\ t \in Seq(S) /\ DOMAIN t = 1..(Len(s) + 1)
        /\ \A i \in 1..Len(s) : t[i] = s[i]
        /\ t[Len(s) + 1] = e
    BY <1>1, <1>2
  <1> HIDE DEF t
  <1>4. \A i \in 1..(Len(s) + 1) : i \in 1..Len(s) \/ i = Len(s) + 1
    BY <1>1
  <1>5. Range(t) = Range(s) \cup {e}
    <2>1. \A x \in Range(t) : x \in Range(s) \cup {e}
      BY <1>1, <1>3, <1>4 DEF Range
    <2>2. \A x \in Range(s) : x \in Range(t)
      BY <1>1, <1>3, <1>4 DEF Range
    <2>3. e \in Range(t)
      BY <1>1, <1>3 DEF Range
    <2> QED
      BY <2>1, <2>2, <2>3
  <1> QED
    BY <1>3, <1>5 DEF S, t

\* An active row read: its identity is new in the sheet.
LEMMA InvReadRow ==
    ASSUME Inv, ReadRow
    PROVE  Inv'
  <1>1. /\ Reading /\ IsComplete /\ headed' = headed /\ line' = line + 1
        /\ UNCHANGED UnchangedByRow /\ rows' = Append(rows, New)
    BY DEF ReadRow
  <1>2. /\ pc = "rows" /\ Row = RowsOf(SheetNow)[line] /\ line \in Nat \ {0}
    BY <1>1, RowNow, RowsBegun
  <1>3. /\ IsActiveRow(SheetNow, Row) /\ New = Delivery(SheetNow, Row)
        /\ Identity = IdOf(SheetNow, Row) /\ Row.num # 1
    BY <1>1, CompleteIs DEF IsComplete
  <1>4. Gives(SheetNow, line)
    BY <1>2, <1>3 DEF Gives
  <1>5. Checked(SheetNow, line)
    BY <1>1, RowIsChecked
  <1>6. headed' /\ headed' \in BOOLEAN
    <2>1. headed /\ headed \in BOOLEAN
      BY <1>1 DEF IsComplete, Inv, Shape
    <2> QED
      BY <1>1, <2>1, Zenon
  <1>7. Distinct(SheetNow, line - 1) /\ Range(rows) = Delivered(SheetNow, line - 1)
        /\ rows \in Seq(Range(rows))
    BY <1>2 DEF Inv, RowsInv, Shape
  <1>8. line - 1 \in Nat /\ (line - 1) + 1 = line
    BY <1>2
  <1>9. Range(rows') = Delivered(SheetNow, line) /\ rows' \in Seq(Range(rows'))
    <2>1. Delivered(SheetNow, line) = Delivered(SheetNow, line - 1) \cup {New}
      BY <1>2, <1>3, <1>4, <1>8, DeliveredNext
    <2>2. Range(Append(rows, New)) = Range(rows) \cup {New}
          /\ Append(rows, New) \in Seq(Range(Append(rows, New)))
      BY <1>7, AppendedRange
    <2> QED
      BY <1>1, <1>7, <2>1, <2>2
  <1>10. Distinct(SheetNow, line)
    <2>1. ASSUME NEW j \in 1..(line - 1), Gives(SheetNow, j)
          PROVE  IdAt(SheetNow, j) # IdAt(SheetNow, line)
      <3>1. Delivery(SheetNow, RowsOf(SheetNow)[j]) \in Range(rows)
        BY <1>7, <2>1 DEF Delivered
      <3>2. PICK i \in DOMAIN rows : rows[i] = Delivery(SheetNow, RowsOf(SheetNow)[j])
        BY <3>1 DEF Range
      <3>3. rows[i].id = IdAt(SheetNow, j)
        BY <3>2, DeliveryHas DEF IdAt
      <3>4. rows[i].id # Identity
        BY <1>1, <3>2 DEF IsComplete
      <3> QED
        BY <1>2, <1>3, <3>3, <3>4 DEF IdAt
    <2>2. \A i \in 1..line : i \in 1..(line - 1) \/ i = line
      BY <1>2
    <2> QED
      BY <1>7, <2>1, <2>2 DEF Distinct
  <1> QED
    BY <1>1, <1>5, <1>6, <1>9, <1>10, InvRow

\* The active rows, sheet by sheet.
LEMMA ActiveRowsAre ==
    /\ \A sheet \in Sheet : \A row \in Range(RowsOf(sheet)) :
         row.num # 1 /\ IsActiveRow(sheet, row) => <<sheet, row>> \in ActiveRows
    /\ \A a \in ActiveRows : \E sheet \in Sheet : \E row \in Range(RowsOf(sheet)) :
         row.num # 1 /\ IsActiveRow(sheet, row) /\ a = <<sheet, row>>
  <1>1. ASSUME NEW sheet \in Sheet, NEW row \in Range(RowsOf(sheet)),
               row.num # 1, IsActiveRow(sheet, row)
        PROVE  <<sheet, row>> \in ActiveRows
    <2>1. <<sheet, row>> \in {sheet} \X DataRows(sheet)
      BY <1>1 DEF DataRows
    <2>2. <<sheet, row>> \in UNION {{s} \X DataRows(s) : s \in Sheet}
      BY <2>1
    <2>3. <<sheet, row>>[1] = sheet /\ <<sheet, row>>[2] = row
      OBVIOUS
    <2> QED
      BY <1>1, <2>2, <2>3 DEF ActiveRows
  <1>2. ASSUME NEW a \in ActiveRows
        PROVE  \E sheet \in Sheet : \E row \in Range(RowsOf(sheet)) :
                 row.num # 1 /\ IsActiveRow(sheet, row) /\ a = <<sheet, row>>
    <2>1. a \in UNION {{s} \X DataRows(s) : s \in Sheet} /\ IsActiveRow(a[1], a[2])
      BY DEF ActiveRows
    <2>2. PICK sheet \in Sheet : a \in {sheet} \X DataRows(sheet)
      BY <2>1
    <2>3. PICK row \in DataRows(sheet) : a = <<sheet, row>>
      BY <2>2
    <2>4. a[1] = sheet /\ a[2] = row
      BY <2>3
    <2>5. row \in Range(RowsOf(sheet)) /\ row.num # 1
      BY DEF DataRows
    <2> QED
      BY <2>1, <2>3, <2>4, <2>5
  <1> QED
    BY <1>1, <1>2

\* Two rows of a workbook that can be read do not share an identity.
LEMMA NoIdTwice ==
    ASSUME IsReadable, NEW s \in Sheet, NEW t \in Sheet,
           NEW q \in Range(RowsOf(s)), NEW r \in Range(RowsOf(t)),
           q.num # 1, IsActiveRow(s, q), r.num # 1, IsActiveRow(t, r), IdOf(s, q) = IdOf(t, r)
    PROVE  s = t /\ q = r
  <1> DEFINE a == <<s, q>>
             b == <<t, r>>
  <1>1. a \in ActiveRows /\ b \in ActiveRows
    BY ActiveRowsAre
  <1>2. a[1] = s /\ a[2] = q /\ b[1] = t /\ b[2] = r
    OBVIOUS
  <1> HIDE DEF a, b
  <1>3. a = b
    BY <1>1, <1>2 DEF IsReadable
  <1> QED
    BY <1>2, <1>3

\* A row of a workbook that can be read is not refused.
LEMMA RowRefusedRightly ==
    ASSUME Inv, RefuseRow
    PROVE  ~IsReadable
  <1>1. SUFFICES ASSUME IsReadable PROVE FALSE
    OBVIOUS
  <1>2. Reading /\ ~IsHeader /\ ~IsPassive /\ ~IsComplete
    BY DEF RefuseRow
  <1>3. /\ pc = "rows" /\ line \in 1..Len(RowsNow) /\ Len(RowsNow) \in Nat
        /\ Row = RowsOf(SheetNow)[line] /\ Row \in Range(RowsOf(SheetNow)) /\ IsRow(Row)
    BY <1>2, RowNow
  <1>4. /\ Opened /\ SheetNow \in Sheet /\ RowsNow = RowsOf(SheetNow) /\ AreRows(RowsNow)
    BY <1>3, RowsBegun
  <1>5. Regular(SheetNow) /\ \A row \in DataRows(SheetNow) : Readable(SheetNow, row)
    BY <1>1, <1>4 DEF IsReadable
  <1>6. InOrder(Row) /\ Row.num <= LastRow
    <2>1. line \in DOMAIN RowsOf(SheetNow)
      BY <1>3, <1>4 DEF AreRows
    <2> QED
      BY <1>3, <1>4, <1>5, <2>1, RegularRows DEF Regular
  <1>7. DOMAIN RowsNow = 1..Len(RowsNow)
    BY <1>4 DEF AreRows
  <1>8. \A i \in 1..Len(RowsNow) : RowsNow[i].num = Row.num => i = line
    BY <1>3, <1>4, <1>5, <1>7 DEF Regular
  <1>9. Placed
    <2>1. \A i \in 1..(line - 1) : RowsNow[i].num # Row.num
      BY <1>3, <1>8
    <2>2. \A c \in Range(Row.cells) : c.row = Row.num
      BY <1>6 DEF InOrder, Range
    <2> QED
      BY <1>6, <2>1, <2>2 DEF Placed, InOrder, OneEach
  <1>10. Row.num \in Nat
    BY <1>6 DEF InOrder
  <1>11. (headed <=> line > 1) /\ Range(rows) = Delivered(SheetNow, line - 1)
    BY <1>3 DEF Inv, RowsInv
  <1>12. CASE Row.num = 1
    <2>1. Row = RowsOf(SheetNow)[1]
      BY <1>3, <1>4, <1>5, <1>12, RegularRows
    <2>2. \A col \in Headed(SheetNow) :
            HeaderHolds(SheetNow, Row, col, Under(SheetNow, col, 1), Known)
      BY <1>5, <2>1 DEF Regular
    <2>3. \A col \in Headed(SheetNow) :
            HeaderHolds(SheetNow, Row, col, Covered(cover[at], col, 1), strings)
      BY <1>1, <1>2, <1>12, <2>2, HeaderIs
    <2>4. IsHeader
      BY <1>9, <1>12, <2>3 DEF IsHeader
    <2> QED
      BY <1>2, <2>4
  <1>13. CASE Row.num # 1
    <2>1. headed
      <3>1. RowsOf(SheetNow)[1].num = 1
        BY <1>5 DEF Regular
      <3>2. line # 1
        BY <1>3, <1>13, <3>1
      <3>3. line > 1
        BY <1>3, <3>2
      <3> QED
        BY <1>11, <3>3
    <2>2. Readable(SheetNow, Row)
      BY <1>3, <1>5, <1>13 DEF DataRows
    <2>3. \A col \in Reads(SheetNow, Row) : Value(col) = Meant(SheetNow, Row, col)
      BY <1>1, <1>2, <1>4, <1>10, ReadsOf, ValueIs
    <2>4. \A col \in ActivityColumns(SheetNow) : Value(col) = Meant(SheetNow, Row, col)
      BY <1>4, <1>13, <2>3, ReadsOf
    <2>5. \A i \in DOMAIN Contract[SheetNow].activity :
            Contract[SheetNow].activity[i] \in ActivityColumns(SheetNow)
      BY DEF ActivityColumns
    <2>6. CASE ~IsActiveRow(SheetNow, Row)
      <3>1. \A col \in ActivityColumns(SheetNow) : Value(col) # Bad /\ ~Acts(Value(col))
        BY <2>2, <2>4, <2>6 DEF Readable, IsActiveRow
      <3>2. ~Undecided /\ ~Active
        BY <2>5, <3>1 DEF Undecided, Active, Sought
      <3> QED
        BY <1>2, <1>9, <1>13, <2>1, <3>2 DEF IsPassive
    <2>7. CASE IsActiveRow(SheetNow, Row)
      <3>1. \A col \in Retained(SheetNow) : Value(col) = Meant(SheetNow, Row, col)
        BY <1>4, <1>13, <2>3, <2>7, ReadsOf
      <3>2. RawColumns(SheetNow) \subseteq Retained(SheetNow)
            /\ ActivityColumns(SheetNow) \subseteq RawColumns(SheetNow)
            /\ Contract[SheetNow].id \in Retained(SheetNow)
        BY <1>4, TheColumns
      <3>3. \A col \in RawColumns(SheetNow) : Accepted(SheetNow, col, Value(col))
        BY <2>2, <2>7, <3>1, <3>2 DEF Readable
      <3>4. Active
        <4> DEFINE act == Contract[SheetNow].activity
                   T == {i \in DOMAIN act : Acts(Value(act[i]))}
        <4>1. T \subseteq Nat
          BY <1>4, RawKinds DEF SheetKinds
        <4>2. T # {}
          <5>1. PICK col \in ActivityColumns(SheetNow) : Acts(Meant(SheetNow, Row, col))
            BY <2>7 DEF IsActiveRow
          <5>2. PICK i \in DOMAIN act : act[i] = col
            BY DEF ActivityColumns
          <5>3. Acts(Value(act[i]))
            BY <2>4, <5>1, <5>2
          <5> QED
            BY <5>3
        <4> HIDE DEF T
        <4>3. PICK i \in T : \A j \in T : i <= j
          BY <4>1, <4>2, LeastNat
        <4>4. i \in DOMAIN act /\ Acts(Value(act[i]))
          BY DEF T
        <4>5. Until(i)
          <5>1. SUFFICES ASSUME NEW j \in 1..(i - 1)
                         PROVE  Value(act[j]) # Bad /\ ~Acts(Value(act[j]))
            BY DEF Until
          <5>2. DOMAIN act = 1..Len(act) /\ Len(act) \in Nat
            BY <1>4, RawKinds DEF SheetKinds
          <5>3. j \in DOMAIN act /\ j < i
            BY <4>4, <5>2
          <5>4. j \notin T
            BY <4>1, <4>3, <5>3
          <5>5. act[j] \in RawColumns(SheetNow)
            BY <2>5, <3>2, <5>3
          <5> HIDE DEF act
          <5>6. Value(act[j]) # Bad
            BY <1>4, <3>3, <5>5, AcceptedIsNotBad
          <5> QED
            BY <5>3, <5>4, <5>6 DEF T
        <4>6. Value(act[i]) \in Sought
          BY <4>4, <4>5 DEF Sought
        <4> QED
          BY <4>4, <4>6 DEF Active
      <3>5. Identified /\ Identity = IdOf(SheetNow, Row)
        <4> DEFINE id == Contract[SheetNow].id
        <4>1. PICK spelling \in DOMAIN IdentityOf :
                Meant(SheetNow, Row, id) = <<"text", spelling>>
          BY <2>2, <2>7 DEF Readable
        <4>2. Value(id) = Meant(SheetNow, Row, id)
          BY <3>1, <3>2
        <4>3. <<"text", spelling>>[1] = "text" /\ <<"text", spelling>>[2] = spelling
          OBVIOUS
        <4>4. Value(id)[1] = "text" /\ Value(id)[2] \in DOMAIN IdentityOf
          BY <4>1, <4>2, <4>3
        <4> QED
          BY <4>2, <4>4 DEF Identified, Identity, IdOf
      <3>6. \A i \in DOMAIN rows : rows[i].id # Identity
        <4>1. SUFFICES ASSUME NEW i \in DOMAIN rows, rows[i].id = Identity PROVE FALSE
          OBVIOUS
        <4>2. rows[i] \in Delivered(SheetNow, line - 1)
          BY <1>11 DEF Range
        <4>3. PICK j \in 1..(line - 1) :
                Gives(SheetNow, j) /\ rows[i] = Delivery(SheetNow, RowsOf(SheetNow)[j])
          BY <4>2 DEF Delivered
        <4> DEFINE r == RowsOf(SheetNow)[j]
        <4>4. j \in 1..Len(RowsNow) /\ j # line
          BY <1>3
        <4>5. r \in Range(RowsOf(SheetNow)) /\ r.num # Row.num
          BY <1>4, <1>7, <1>8, <4>4 DEF Range
        <4>6. IdOf(SheetNow, r) = IdOf(SheetNow, Row)
          BY <3>5, <4>1, <4>3, DeliveryHas
        <4>7. r.num # 1 /\ IsActiveRow(SheetNow, r)
          BY <4>3 DEF Gives
        <4> HIDE DEF r
        <4>8. r = Row
          BY <1>1, <1>3, <1>4, <1>13, <2>7, <4>5, <4>6, <4>7, NoIdTwice
        <4> QED
          BY <4>5, <4>8
      <3>7. IsComplete
        BY <1>9, <1>13, <2>1, <3>3, <3>4, <3>5, <3>6 DEF IsComplete
      <3> QED
        BY <1>2, <3>7
    <2> QED
      BY <2>6, <2>7
  <1> QED
    BY <1>12, <1>13

\* What is delivered of a row that has been checked.
LEMMA DeliveredTyped ==
    ASSUME NEW sheet \in Sheet, NEW n \in Nat, \A i \in 1..n : Checked(sheet, i),
           NEW r \in Delivered(sheet, n)
    PROVE  r.sheet \in Sheet /\ r.id \in Range(IdentityOf)
  <1>1. PICK i \in 1..n : Gives(sheet, i) /\ r = Delivery(sheet, RowsOf(sheet)[i])
    BY DEF Delivered
  <1> DEFINE row == RowsOf(sheet)[i]
  <1>2. r.sheet = sheet /\ r.id = IdOf(sheet, row)
    BY <1>1, DeliveryHas
  <1>3. row.num # 1 /\ IsActiveRow(sheet, row)
    BY <1>1 DEF Gives
  <1>4. Readable(sheet, row)
    BY <1>3 DEF Checked
  <1> HIDE DEF row
  <1>5. PICK spelling \in DOMAIN IdentityOf :
          Meant(sheet, row, Contract[sheet].id) = <<"text", spelling>>
    BY <1>3, <1>4 DEF Readable
  <1>6. <<"text", spelling>>[2] = spelling
    OBVIOUS
  <1>7. IdOf(sheet, row) = IdentityOf[spelling]
    BY <1>5, <1>6 DEF IdOf
  <1> QED
    BY <1>2, <1>7 DEF Range

\* Sheets that have all been read make a workbook that can be read, and what was
\* delivered of them is the answer.
LEMMA AllRead ==
    ASSUME Opened, \A sheet \in Sheet : SheetRead(sheet) /\ Fitting(sheet), Apart(4)
    PROVE  IsReadable /\ UNION {AllOf(sheet) : sheet \in Sheet} = Answer
  <1>1. ASSUME NEW sheet \in Sheet
        PROVE  Regular(sheet) /\ \A row \in DataRows(sheet) : Readable(sheet, row)
    <2> DEFINE here == RowsOf(sheet)
    <2>1. Len(here) \in Nat /\ DOMAIN here = 1..Len(here)
      BY RowsTyped DEF AreRows
    <2>2. Len(here) >= 1 /\ \A i \in 1..Len(here) : Checked(sheet, i)
      BY DEF SheetRead
    <2>3. here # <<>> /\ here[1].num = 1
      <3>1. 1 \in DOMAIN here
        BY <2>1, <2>2
      <3>2. here[1].num = 1
        BY <2>1, <2>2, <3>1 DEF Checked
      <3> QED
        BY <3>1, <3>2
    <2>4. ASSUME NEW i \in DOMAIN here
          PROVE  /\ here[i].num # None /\ here[i].num <= LastRow
                 /\ \A j \in DOMAIN here : here[i].num = here[j].num => i = j
                 /\ \A c \in Range(here[i].cells) : c.row = here[i].num
                 /\ \A j, k \in DOMAIN here[i].cells :
                      here[i].cells[j].col = here[i].cells[k].col => j = k
      <3>1. Checked(sheet, i)
        BY <2>1, <2>2
      <3>2. ASSUME NEW j \in DOMAIN here, here[i].num = here[j].num PROVE i = j
        <4>1. Checked(sheet, j)
          BY <2>1, <2>2
        <4>2. ~(i < j) /\ ~(j < i)
          BY <2>1, <3>1, <3>2, <4>1 DEF Checked
        <4> QED
          BY <2>1, <4>2
      <3> QED
        BY <3>1, <3>2 DEF Checked, OneEach
    <2>5. \A col \in Headed(sheet) : HeaderHolds(sheet, here[1], col, Under(sheet, col, 1), Known)
      BY <2>1, <2>2, <2>3 DEF Checked
    <2>6. Regular(sheet)
      <3> HIDE DEF here
      <3>1. parts[sheet] \notin workbook.package.broken /\ \A c \in Arrays(here) : Fits(c)
        BY DEF Fitting, here
      <3> QED
        BY <2>3, <2>4, <2>5, <3>1 DEF Regular, here
    <2>7. \A row \in DataRows(sheet) : Readable(sheet, row)
      BY <2>1, <2>2 DEF DataRows, Range, Checked
    <2> QED
      BY <2>6, <2>7
  <1>2. \A sheet \in Sheet : \A row \in Range(RowsOf(sheet)) : row.num # 1 /\ IsActiveRow(sheet, row)
          => \E i \in 1..Len(RowsOf(sheet)) : row = RowsOf(sheet)[i] /\ Gives(sheet, i)
    BY RowsTyped DEF AreRows, Range, Gives
  <1>3. ASSUME NEW s \in Sheet, NEW t \in Sheet,
               NEW i \in 1..Len(RowsOf(s)), NEW j \in 1..Len(RowsOf(t)),
               Gives(s, i), Gives(t, j), IdAt(s, i) = IdAt(t, j)
        PROVE  s = t /\ i = j
    <2>1. PICK k \in 1..4 : ApprovedSheets[k] = s
      BY TheSheets
    <2>2. PICK l \in 1..4 : ApprovedSheets[l] = t
      BY TheSheets
    <2>3. Delivery(s, RowsOf(s)[i]) \in AllOf(s) /\ Delivery(t, RowsOf(t)[j]) \in AllOf(t)
      BY <1>3 DEF AllOf, Delivered
    <2>4. Delivery(s, RowsOf(s)[i]).id = Delivery(t, RowsOf(t)[j]).id
      BY <1>3, DeliveryHas DEF IdAt
    <2>5. s = t
      BY <2>1, <2>2, <2>3, <2>4 DEF Apart
    <2> QED
      BY <1>3, <2>5 DEF SheetRead, Distinct
  <1>4. ASSUME NEW a \in ActiveRows, NEW b \in ActiveRows, IdOf(a[1], a[2]) = IdOf(b[1], b[2])
        PROVE  a = b
    <2>1. PICK s \in Sheet : \E row \in Range(RowsOf(s)) :
            row.num # 1 /\ IsActiveRow(s, row) /\ a = <<s, row>>
      BY ActiveRowsAre
    <2>2. PICK i \in 1..Len(RowsOf(s)) : Gives(s, i) /\ a = <<s, RowsOf(s)[i]>>
      BY <1>2, <2>1
    <2>3. PICK t \in Sheet : \E row \in Range(RowsOf(t)) :
            row.num # 1 /\ IsActiveRow(t, row) /\ b = <<t, row>>
      BY ActiveRowsAre
    <2>4. PICK j \in 1..Len(RowsOf(t)) : Gives(t, j) /\ b = <<t, RowsOf(t)[j]>>
      BY <1>2, <2>3
    <2>5. a[1] = s /\ a[2] = RowsOf(s)[i] /\ b[1] = t /\ b[2] = RowsOf(t)[j]
      BY <2>2, <2>4
    <2>6. IdAt(s, i) = IdAt(t, j)
      BY <1>4, <2>5 DEF IdAt
    <2>7. s = t /\ i = j
      BY <1>3, <2>2, <2>4, <2>6
    <2> QED
      BY <2>2, <2>4, <2>7
  <1>5. IsReadable
    BY <1>1, <1>4 DEF IsReadable
  <1>6. UNION {AllOf(sheet) : sheet \in Sheet} = Handed
    <2>1. ASSUME NEW a \in ActiveRows
          PROVE  Delivery(a[1], a[2]) \in UNION {AllOf(sheet) : sheet \in Sheet}
      <3>1. PICK s \in Sheet : \E row \in Range(RowsOf(s)) :
              row.num # 1 /\ IsActiveRow(s, row) /\ a = <<s, row>>
        BY ActiveRowsAre
      <3>2. PICK i \in 1..Len(RowsOf(s)) : Gives(s, i) /\ a = <<s, RowsOf(s)[i]>>
        BY <1>2, <3>1
      <3>3. a[1] = s /\ a[2] = RowsOf(s)[i]
        BY <3>2
      <3>4. Delivery(s, RowsOf(s)[i]) \in AllOf(s)
        BY <3>2 DEF AllOf, Delivered
      <3> QED
        BY <3>3, <3>4
    <2>2. ASSUME NEW s \in Sheet, NEW r \in AllOf(s) PROVE r \in Handed
      <3>1. PICK i \in 1..Len(RowsOf(s)) : Gives(s, i) /\ r = Delivery(s, RowsOf(s)[i])
        BY DEF AllOf, Delivered
      <3> DEFINE row == RowsOf(s)[i]
      <3>2. row \in Range(RowsOf(s))
        BY RowsTyped DEF AreRows, Range
      <3>3. row.num # 1 /\ IsActiveRow(s, row)
        BY <3>1 DEF Gives
      <3>4. <<s, row>> \in ActiveRows /\ <<s, row>>[1] = s /\ <<s, row>>[2] = row
        BY <3>2, <3>3, ActiveRowsAre
      <3>5. r = Delivery(<<s, row>>[1], <<s, row>>[2])
        BY <3>1
      <3> QED
        BY <3>4, <3>5 DEF Handed
    <2> QED
      BY <2>1, <2>2 DEF Handed
  <1> QED
    BY <1>5, <1>6, AnswerIs DEF AnswerIsHanded

\* A sheet that has come to its end.
LEMMA SheetEnded ==
    ASSUME Inv, pc = "rows", line \notin DOMAIN RowsNow
    PROVE  /\ line = Len(RowsOf(SheetNow)) + 1 /\ Len(RowsOf(SheetNow)) \in Nat
           /\ Range(rows) = AllOf(SheetNow)
           /\ headed => SheetRead(SheetNow)
           /\ ~headed => RowsOf(SheetNow) = <<>>
  <1>1. /\ SheetNow \in Sheet /\ RowsNow = RowsOf(SheetNow) /\ AreRows(RowsNow)
        /\ line \in Nat \ {0} /\ line <= Len(RowsNow) + 1
    BY RowsBegun
  <1>2. Len(RowsNow) \in Nat /\ DOMAIN RowsNow = 1..Len(RowsNow)
        /\ (Len(RowsNow) = 0 => RowsNow = <<>>)
    BY <1>1 DEF AreRows
  <1>3. line = Len(RowsNow) + 1 /\ line - 1 = Len(RowsNow)
    BY <1>1, <1>2
  <1>4. /\ headed <=> line > 1
        /\ \A i \in 1..(line - 1) : Checked(SheetNow, i)
        /\ Distinct(SheetNow, line - 1)
        /\ Range(rows) = Delivered(SheetNow, line - 1)
    BY DEF Inv, RowsInv
  <1>5. headed => Len(RowsNow) >= 1
    BY <1>2, <1>3, <1>4
  <1>6. ~headed => RowsNow = <<>>
    <2>1. ASSUME ~headed PROVE Len(RowsNow) = 0
      BY <1>2, <1>3, <1>4, <2>1
    <2> QED
      BY <1>2, <2>1
  <1> QED
    BY <1>1, <1>2, <1>3, <1>4, <1>5, <1>6 DEF AllOf, SheetRead

\* No sheet of a workbook that can be read is refused at its end.
LEMMA SheetRefusedRightly ==
    ASSUME Inv, RefuseSheet
    PROVE  ~IsReadable
  <1>1. SUFFICES ASSUME IsReadable PROVE FALSE
    OBVIOUS
  <1>2. pc = "rows" /\ line \notin DOMAIN RowsNow /\ SheetFails
    BY DEF RefuseSheet
  <1>3. Opened /\ at \in 1..4 /\ SheetNow \in Sheet
    BY <1>2, RowsBegun
  <1>4. headed
    <2>1. RowsOf(SheetNow) # <<>>
      BY <1>1, <1>3 DEF IsReadable, Regular
    <2> QED
      BY <1>2, <2>1, SheetEnded
  <1>5. PICK r \in Range(rows), q \in result : r.id = q.id
    BY <1>2, <1>4 DEF SheetFails
  <1>6. /\ r \in AllOf(SheetNow)
        /\ result = UNION {AllOf(sheet) : sheet \in First(at - 1)}
    BY <1>2, SheetEnded DEF Inv, RowsInv
  <1>7. PICK t \in First(at - 1) : q \in AllOf(t)
    BY <1>6
  <1>8. t \in Sheet /\ t # SheetNow
    <2>1. at - 1 \in 0..4
      BY <1>3
    <2> QED
      BY <1>3, <2>1, FirstIs DEF SheetNow
  <1>9. \A s \in Sheet : \A x \in AllOf(s) : \E row \in Range(RowsOf(s)) :
          row.num # 1 /\ IsActiveRow(s, row) /\ x.id = IdOf(s, row)
    <2>1. SUFFICES ASSUME NEW s \in Sheet, NEW x \in AllOf(s)
                   PROVE  \E row \in Range(RowsOf(s)) :
                            row.num # 1 /\ IsActiveRow(s, row) /\ x.id = IdOf(s, row)
      OBVIOUS
    <2>2. PICK i \in 1..Len(RowsOf(s)) : Gives(s, i) /\ x = Delivery(s, RowsOf(s)[i])
      BY DEF AllOf, Delivered
    <2>3. RowsOf(s)[i] \in Range(RowsOf(s))
      BY <1>3, RowsTyped DEF AreRows, Range
    <2> QED
      BY <2>2, <2>3, DeliveryHas DEF Gives
  <1>10. PICK b \in Range(RowsOf(SheetNow)) :
           b.num # 1 /\ IsActiveRow(SheetNow, b) /\ r.id = IdOf(SheetNow, b)
    BY <1>3, <1>6, <1>9
  <1>11. PICK c \in Range(RowsOf(t)) : c.num # 1 /\ IsActiveRow(t, c) /\ q.id = IdOf(t, c)
    BY <1>7, <1>8, <1>9
  <1>12. SheetNow = t
    BY <1>1, <1>3, <1>5, <1>8, <1>10, <1>11, NoIdTwice
  <1> QED
    BY <1>8, <1>12

\* A sheet at its end joins those before; after the last the answer is complete.
LEMMA InvEndSheet ==
    ASSUME Inv, EndSheet
    PROVE  Inv'
  <1>1. /\ pc = "rows" /\ line \notin DOMAIN RowsNow /\ ~SheetFails
        /\ result' = result \cup Range(rows)
        /\ line' = 1 /\ headed' = FALSE /\ rows' = <<>>
        /\ \/ at = 4 /\ pc' = "done" /\ at' = at
           \/ at # 4 /\ pc' = "rows" /\ at' = at + 1
        /\ UNCHANGED <<workbook, parts, cover, wanted, candidates, strings>>
    BY TheSheets DEF EndSheet
  <1>2. headed /\ \A r \in Range(rows), q \in result : r.id # q.id
    BY <1>1 DEF SheetFails
  <1>3. Range(rows) = AllOf(SheetNow) /\ SheetRead(SheetNow)
    BY <1>1, <1>2, SheetEnded
  <1>4. /\ Opened /\ at \in 1..4 /\ SheetNow \in Sheet
        /\ \A sheet \in Sheet : Fitting(sheet)
    BY <1>1, RowsBegun, Discovered
  <1>5. /\ \A k \in 1..(at - 1) : SheetRead(ApprovedSheets[k])
        /\ Apart(at - 1)
        /\ result = UNION {AllOf(sheet) : sheet \in First(at - 1)}
    BY <1>1 DEF Inv, RowsInv
  <1>6. Steady
    BY <1>1 DEF Steady
  <1>7. DiscoverInv' /\ OpenInv'
    BY <1>1, <1>6, SteadyDiscover
  <1>8. StringsInv'
    <2>1. Known' = Known /\ Used' = Used /\ IsReadable' = IsReadable
      BY <1>6, SteadyRead, SteadyAnswer
    <2> QED
      BY <1>1, <2>1 DEF Inv, StringsInv, Within
  \* What is known once this sheet is done, too.
  <1>9. \A k \in 1..at : SheetRead(ApprovedSheets[k])
    <2>1. \A k \in 1..at : k \in 1..(at - 1) \/ k = at
      BY <1>4
    <2> QED
      BY <1>3, <1>5, <2>1 DEF SheetNow
  <1>10. result' = UNION {AllOf(sheet) : sheet \in First(at)}
    <2>1. First(at) = First(at - 1) \cup {SheetNow}
      BY <1>4, FirstIs DEF SheetNow
    <2> QED
      BY <1>1, <1>3, <1>5, <2>1
  <1>11. Apart(at)
    <2>1. ASSUME NEW k \in 1..(at - 1), NEW r \in AllOf(ApprovedSheets[at]),
                 NEW q \in AllOf(ApprovedSheets[k])
          PROVE  r.id # q.id
      <3>1. ApprovedSheets[k] \in First(at - 1)
        BY DEF First
      <3>2. q \in result
        BY <1>5, <3>1
      <3>3. r \in Range(rows)
        BY <1>3 DEF SheetNow
      <3> QED
        BY <1>2, <3>2, <3>3
    <2>2. \A k \in 1..at : k \in 1..(at - 1) \/ k = at
      BY <1>4
    <2> QED
      BY <1>5, <2>1, <2>2 DEF Apart
  <1>12. /\ \A sheet, i : Checked(sheet, i)' = Checked(sheet, i)
         /\ \A sheet : AllOf(sheet)' = AllOf(sheet)
         /\ \A sheet : SheetRead(sheet)' = SheetRead(sheet)
         /\ \A n : Apart(n)' = Apart(n)
    BY <1>6, SteadyProgress
  <1>13. RowsInv'
    <2>1. SUFFICES ASSUME pc' = "rows" PROVE RowsInv'
      BY DEF RowsInv
    <2>2. at # 4 /\ at' = at + 1 /\ at' \in 1..4 /\ at' - 1 = at
      BY <1>1, <1>4, <2>1
    <2>3. 1..(line' - 1) = {}
      BY <1>1
    <2>5. Len(RowsNow') \in Nat
      <3>1. RowsNow' = RowsOf(ApprovedSheets[at'])
        BY <1>1 DEF RowsNow, SheetNow, RowsOf
      <3>2. ApprovedSheets[at'] \in Sheet
        BY <2>2, TheSheets
      <3> QED
        BY <1>4, <3>1, <3>2, RowsTyped DEF AreRows
    <2>6. line' <= Len(RowsNow') + 1
      BY <1>1, <2>5
    <2>7. (headed <=> line > 1)'
      BY <1>1
    <2>8. (\A i \in 1..(line - 1) : Checked(SheetNow, i))'
      BY <2>3
    <2>9. Distinct(SheetNow, line - 1)'
      BY <2>3 DEF Distinct
    <2>10. (Range(rows) = Delivered(SheetNow, line - 1))'
      <3>1. (Delivered(SheetNow, line - 1) = {})'
        BY <2>3 DEF Delivered
      <3>2. Range(rows') = {}
        BY <1>1 DEF Range
      <3> QED
        BY <3>1, <3>2
    <2>11. (\A k \in 1..(at - 1) : SheetRead(ApprovedSheets[k]))'
      BY <1>9, <1>12, <2>2
    <2>12. Apart(at - 1)'
      BY <1>11, <1>12, <2>2
    <2>13. (result = UNION {AllOf(sheet) : sheet \in First(at - 1)})'
      BY <1>10, <1>12, <2>2
    <2> QED
      BY <2>6, <2>7, <2>8, <2>9, <2>10, <2>11, <2>12, <2>13 DEF RowsInv
  <1>14. FreshInv'
    BY <1>1 DEF FreshInv
  <1>15. EndInv'
    <2>1. SUFFICES ASSUME pc' = "done" PROVE (IsReadable /\ result = Answer)'
      BY <1>1 DEF EndInv
    <2>2. at = 4
      BY <1>1, <2>1
    <2>3. \A sheet \in Sheet : SheetRead(sheet)
      BY <1>9, <2>2, TheSheets
    <2>4. IsReadable /\ UNION {AllOf(sheet) : sheet \in Sheet} = Answer
      BY <1>4, <1>11, <2>2, <2>3, AllRead
    <2>5. result' = Answer
      BY <1>10, <2>2, <2>4, FirstIs
    <2> QED
      BY <1>6, <2>4, <2>5, SteadyAnswer
  <1>16. Shape'
    <2>1. pc' \in Later /\ at' \in 1..4 /\ line' \in Nat \ {0}
      BY <1>1, <1>4 DEF Later
    <2>2. headed' \in BOOLEAN
      BY <1>1, Zenon
    <2>3. (rows \in Seq(Range(rows)) /\ Range(rows) = {})'
      BY <1>1 DEF Range
    <2>4. \A r \in result' : r.sheet \in Sheet /\ r.id \in Range(IdentityOf)
      <3>1. \A r \in AllOf(SheetNow) : r.sheet \in Sheet /\ r.id \in Range(IdentityOf)
        <4>1. Len(RowsOf(SheetNow)) \in Nat
          BY <1>1, SheetEnded
        <4>2. \A i \in 1..Len(RowsOf(SheetNow)) : Checked(SheetNow, i)
          BY <1>3 DEF SheetRead
        <4> QED
          BY <1>4, <4>1, <4>2, DeliveredTyped DEF AllOf
      <3>2. \A r \in result : r.sheet \in Sheet /\ r.id \in Range(IdentityOf)
        BY DEF Inv, Shape
      <3> QED
        BY <1>1, <1>3, <3>1, <3>2
    <2> QED
      BY <1>1, <2>1, <2>2, <2>3, <2>4 DEF Inv, Shape
  <1> QED
    BY <1>7, <1>8, <1>13, <1>14, <1>15, <1>16 DEF Inv

-----------------------------------------------------------------------------
(* The theorems.                                                           *)

\* Every step keeps the invariant.
LEMMA InvNext ==
    ASSUME Inv, [Next]_vars
    PROVE  Inv'
  <1>1. CASE OpenPackage
    BY <1>1, InvOpenPackage
  <1>2. CASE RefusePackage
    <2>1. Refuse /\ parts = <<>>
      BY <1>2 DEF RefusePackage, Inv, OpenInv
    <2> QED
      BY <2>1, InvRefuse
  <1>3. CASE Discover
    BY <1>3, InvDiscover
  <1>4. CASE DiscoveryRefuses
    BY <1>4, DiscoveryRefusesRightly, InvRefuse DEF DiscoveryRefuses
  <1>5. CASE LoadStrings
    BY <1>5, InvLoadStrings
  <1>6. CASE StringsRefused
    BY <1>6, StringsRefusedRightly, InvRefuse DEF StringsRefused
  <1>7. CASE LoadMore
    BY <1>7, InvLoadMore
  <1>8. CASE DecisionRefuses
    BY <1>8, DecisionRefusesRightly, InvRefuse DEF DecisionRefuses
  <1>9. CASE ReadHeader
    BY <1>9, InvReadHeader
  <1>10. CASE SkipRow
    BY <1>10, InvSkipRow
  <1>11. CASE ReadRow
    BY <1>11, InvReadRow
  <1>12. CASE RefuseRow
    BY <1>12, RowRefusedRightly, InvRefuse DEF RefuseRow
  <1>13. CASE EndSheet
    BY <1>13, InvEndSheet
  <1>14. CASE RefuseSheet
    BY <1>14, SheetRefusedRightly, InvRefuse DEF RefuseSheet
  <1>15. CASE UNCHANGED vars
    <2>1. Steady /\ UNCHANGED <<pc, at, cover, wanted, candidates, strings, line, headed,
                                rows, result>>
      BY <1>15 DEF vars, Steady
    <2>2. Known' = Known /\ Used' = Used /\ IsReadable' = IsReadable /\ Answer' = Answer
      BY <2>1, SteadyRead, SteadyAnswer
    <2>3. /\ \A sheet : WantedOf(sheet)' = WantedOf(sheet)
          /\ \A sheet : OffersOf(sheet)' = OffersOf(sheet)
          /\ \A sheet : Fitting(sheet)' = Fitting(sheet)
          /\ Covers' = Covers
      BY <2>1, SteadySheets, SteadyCovers
    <2>4. /\ \A sheet, i : Checked(sheet, i)' = Checked(sheet, i)
          /\ \A sheet, n : Delivered(sheet, n)' = Delivered(sheet, n)
          /\ \A sheet, n : Distinct(sheet, n)' = Distinct(sheet, n)
          /\ \A sheet : AllOf(sheet)' = AllOf(sheet)
          /\ \A sheet : SheetRead(sheet)' = SheetRead(sheet)
          /\ \A n : Apart(n)' = Apart(n)
      BY <2>1, SteadyProgress
    <2>5. SheetNow' = SheetNow /\ RowsNow' = RowsNow /\ Gone' = Gone
      BY <2>1 DEF SheetNow, RowsNow, Gone, Steady
    <2>6. OpenInv'
      BY <2>1 DEF Inv, OpenInv, Steady
    <2>7. DiscoverInv'
      BY <2>1, <2>3, <2>5 DEF Inv, DiscoverInv
    <2>8. StringsInv'
      <3>1. Load(wanted)' = Load(wanted) /\ Unreadable(wanted)' = Unreadable(wanted)
        BY <2>1 DEF Load, Unreadable, Table, Steady
      <3>2. Within(strings, Known)' = Within(strings, Known)
        BY <2>1, <2>2 DEF Within
      <3> QED
        BY <2>1, <2>2, <3>1, <3>2 DEF Inv, StringsInv
    <2>9. RowsInv'
      BY <2>1, <2>4, <2>5 DEF Inv, RowsInv
    <2>10. FreshInv' /\ EndInv'
      BY <2>1, <2>2 DEF Inv, FreshInv, EndInv, Steady
    <2>11. Shape'
      BY <2>1, <2>5 DEF Inv, Shape, Steady
    <2> QED
      BY <2>6, <2>7, <2>8, <2>9, <2>10, <2>11 DEF Inv
  <1>16. CASE Ended
    BY <1>15, <1>16 DEF Ended
  <1> QED
    BY <1>1, <1>2, <1>3, <1>4, <1>5, <1>6, <1>7, <1>8, <1>9, <1>10, <1>11, <1>12, <1>13,
       <1>14, <1>15, <1>16 DEF Next

\* It holds always.
LEMMA InvAlways == Spec => []Inv
  <1>1. Init => Inv
    BY InvInit
  <1>2. Inv /\ [Next]_vars => Inv'
    BY InvNext
  <1> QED
    BY <1>1, <1>2, PTL DEF Spec

\* TypeOK: the reader keeps its variables well typed, stays within its sheets,
\* and delivers rows of the approved sheets with the identity their cell spells.
THEOREM ReaderTypeCorrect == Spec => []TypeOK
  <1>1. ASSUME Inv PROVE TypeOK
    <2>1. pc \in {"package", "discover", "strings", "decide", "rows", "done", "refused"}
      BY <1>1 DEF Inv, Shape, Later
    <2>2. pc \notin {"package", "refused"} => DOMAIN parts = Sheet
      BY <1>1, <2>1 DEF Inv, OpenInv, Later
    <2>3. at \in DOMAIN ApprovedSheets /\ Len(cover) <= Len(ApprovedSheets)
      <3>1. at \in 1..4 /\ Len(cover) \in 0..4
        BY <1>1 DEF Inv, Shape
      <3>2. DOMAIN ApprovedSheets = 1..4 /\ Len(ApprovedSheets) = 4
        BY TheSheets
      <3>3. Len(cover) <= 4
        <4>1. \A n \in 0..4 : n <= 4
          OBVIOUS
        <4> QED
          BY <3>1, <4>1
      <3> QED
        BY <3>1, <3>2, <3>3
    <2>4. pc \in {"strings", "decide", "rows", "done"} => Len(cover) = Len(ApprovedSheets)
      <3>1. SUFFICES ASSUME pc \in {"strings", "decide", "rows", "done"}
                     PROVE  Len(cover) = 4
        BY TheSheets
      <3>2. cover = [k \in 1..4 |-> Covers[k]]
        BY <1>1, <3>1 DEF Inv, DiscoverInv, Later, Gone
      <3> QED
        BY <3>2, AppendOne
    <2>5. line \in Nat \ {0} /\ headed \in BOOLEAN /\ DOMAIN strings \subseteq DOMAIN workbook.strings
      BY <1>1 DEF Inv, Shape
    <2>6. \A i \in DOMAIN rows : rows[i].sheet = ApprovedSheets[at]
      BY <1>1 DEF Inv, Shape, Range, SheetNow
    <2>7. \A r \in result : r.sheet \in Sheet /\ r.id \in Range(IdentityOf)
      BY <1>1 DEF Inv, Shape
    <2> QED
      BY <2>1, <2>2, <2>3, <2>4, <2>5, <2>6, <2>7 DEF TypeOK
  <1> QED
    BY <1>1, InvAlways, PTL

\* ReadAgrees: for every workbook the two passes of _read_xlsx_from_zip, with their
\* partial maps of strings and merged spans, come to the end exactly if the workbook
\* can be read, and deliver what the read of the whole workbook in one go says.
THEOREM ReaderReadsWhatIsMeant == Spec => []ReadAgrees
  <1>1. ASSUME Inv PROVE ReadAgrees
    <2>1. pc = "done" => Unambiguous
      BY <1>1, NoOtherPart DEF Inv, Later
    <2> QED
      BY <1>1, <2>1 DEF Inv, EndInv, ReadAgrees
  <1> QED
    BY <1>1, InvAlways, PTL

\* OnlyNeededStrings: of a workbook that can be read, the two loads bring the strings
\* the answer depends on, and no other.
THEOREM ReaderLoadsWhatIsUsed == Spec => []OnlyNeededStrings
  <1>1. Inv => OnlyNeededStrings
    BY DEF Inv, StringsInv, OnlyNeededStrings
  <1> QED
    BY <1>1, InvAlways, PTL
================================================================================
