------------------------------- MODULE SeqLemmas -------------------------------
(***************************************************************************)
(* Facts that several proofs use: of a queue and the history of what went  *)
(* through it, of parts of sequences, of numbers, and of induction over an *)
(* interval, from the least element of a set of numbers.                   *)
(***************************************************************************)
EXTENDS Fifo, SequenceTheorems, FiniteSetTheorems, TLAPS

\* A queue and its history grow together.
LEMMA SuffixAppend ==
  ASSUME NEW S, NEW q \in Seq(S), NEW h \in Seq(S), NEW m \in S, SuffixOf(q, h)
  PROVE  SuffixOf(Append(q, m), Append(h, m))
<1> DEFINE n == Len(q)
           a == Len(h)
           Q == Append(q, m)
           H == Append(h, m)
<1>1. n \in Nat /\ a \in Nat /\ n <= a
  BY LenProperties DEF SuffixOf
<1>2. Len(Q) = n + 1 /\ (\A i \in 1..n : Q[i] = q[i]) /\ Q[n + 1] = m
  BY AppendProperties
<1>3. Len(H) = a + 1 /\ (\A i \in 1..a : H[i] = h[i]) /\ H[a + 1] = m
  BY AppendProperties
<1>4. \A i \in 1..n : q[i] = h[a - n + i]
  BY DEF SuffixOf
<1> HIDE DEF n, a, Q, H
<1>5. ASSUME NEW i \in 1..(n + 1) PROVE Q[i] = H[(a + 1) - (n + 1) + i]
  <2>1. (a + 1) - (n + 1) + i = a - n + i
    BY <1>1
  <2>2. CASE i = n + 1
    BY <2>1, <2>2, <1>1, <1>2, <1>3
  <2>3. CASE i \in 1..n
    <3>1. a - n + i \in 1..a
      BY <2>3, <1>1
    <3>2. QED
      BY <3>1, <2>1, <2>3, <1>2, <1>3, <1>4
  <2>4. QED
    BY <2>2, <2>3, <1>1
<1>6. n + 1 <= a + 1
  BY <1>1
<1>7. QED
  BY <1>2, <1>3, <1>5, <1>6 DEF SuffixOf, Q, H

\* Taking the head of a queue leaves the rest of the history.
LEMMA SuffixTail ==
  ASSUME NEW S, NEW q \in Seq(S), NEW h \in Seq(S), q # <<>>, SuffixOf(q, h)
  PROVE  /\ SuffixOf(Tail(q), h)
         /\ Len(Tail(q)) + 1 = Len(q)
         /\ Head(q) = h[Len(h) - Len(Tail(q))]
         /\ Len(h) - Len(Tail(q)) \in 1..Len(h)
<1> DEFINE n == Len(q)
           a == Len(h)
           T == Tail(q)
<1>1. n \in Nat \ {0} /\ a \in Nat /\ n <= a
  BY LenProperties, EmptySeq DEF SuffixOf
<1>2. Len(T) = n - 1 /\ (\A i \in 1..Len(T) : T[i] = q[i + 1])
  BY HeadTailProperties
<1>3. \A i \in 1..n : q[i] = h[a - n + i]
  BY DEF SuffixOf
<1>4. Head(q) = q[1]
  OBVIOUS
<1> HIDE DEF n, a, T
<1>5. ASSUME NEW i \in 1..(n - 1) PROVE T[i] = h[a - (n - 1) + i]
  <2>1. i + 1 \in 1..n /\ a - (n - 1) + i = a - n + (i + 1)
    BY <1>1
  <2>2. QED
    BY <2>1, <1>2, <1>3
<1>6. Head(q) = h[a - (n - 1)]
  <2>1. 1 \in 1..n /\ a - (n - 1) = a - n + 1
    BY <1>1
  <2>2. QED
    BY <2>1, <1>3, <1>4
<1>7. n - 1 <= a /\ (n - 1) + 1 = n /\ a - (n - 1) \in 1..a
  BY <1>1
<1>8. QED
  BY <1>2, <1>5, <1>6, <1>7 DEF SuffixOf, n, a, T

\* A prefix stays one when the longer sequence grows ...
LEMMA PrefixGrow ==
  ASSUME NEW S, NEW s \in Seq(S), NEW t \in Seq(S), NEW m \in S, PrefixOf(s, t)
  PROVE  PrefixOf(s, Append(t, m))
<1>1. Len(s) \in Nat /\ Len(t) \in Nat /\ Len(s) <= Len(t)
  BY LenProperties DEF PrefixOf
<1>2. /\ Len(Append(t, m)) = Len(t) + 1
      /\ \A i \in 1..Len(t) : Append(t, m)[i] = t[i]
  BY AppendProperties
<1>3. QED
  BY <1>1, <1>2 DEF PrefixOf

\* ... and when it takes the next element of it.
LEMMA PrefixExtend ==
  ASSUME NEW S, NEW s \in Seq(S), NEW t \in Seq(S), PrefixOf(s, t), Len(s) < Len(t)
  PROVE  PrefixOf(Append(s, t[Len(s) + 1]), t)
<1> DEFINE n == Len(s)
           m == t[n + 1]
           N == Append(s, m)
<1>1. n \in Nat /\ Len(t) \in Nat /\ n + 1 \in 1..Len(t)
  BY LenProperties
<1>2. m \in S
  BY <1>1, ElementOfSeq
<1>3. Len(N) = n + 1 /\ (\A i \in 1..n : N[i] = s[i]) /\ N[n + 1] = m
  BY <1>2, AppendProperties
<1>4. \A i \in 1..n : s[i] = t[i]
  BY DEF PrefixOf
<1> HIDE DEF n, N
<1>5. ASSUME NEW i \in 1..(n + 1) PROVE N[i] = t[i]
  <2>1. i \in 1..n \/ i = n + 1
    BY <1>1
  <2>2. QED
    BY <2>1, <1>3, <1>4
<1>6. QED
  BY <1>1, <1>3, <1>5 DEF PrefixOf, N, n

(* ------------------------ Elements of a queue -------------------------- *)

\* The elements of a queue are those put in it and not yet taken.
LEMMA ElemsEmpty == Elems(<<>>) = {}
BY DEF Elems

LEMMA ElemsOne == ASSUME NEW x PROVE Elems(<<x>>) = {x}
BY DEF Elems

LEMMA ElemsAppend ==
  ASSUME NEW T, NEW q \in Seq(T), NEW m \in T
  PROVE  Elems(Append(q, m)) = Elems(q) \cup {m}
<1> DEFINE n == Len(q)
           A == Append(q, m)
<1>1. n \in Nat /\ DOMAIN q = 1..n
  BY LenProperties
<1>2. A \in Seq(T) /\ Len(A) = n + 1 /\ (\A i \in 1..n : A[i] = q[i]) /\ A[n + 1] = m
  BY AppendProperties
<1>3. DOMAIN A = 1..(n + 1)
  BY <1>2, LenProperties
<1> HIDE DEF n, A
<1>4. 1..(n + 1) = 1..n \cup {n + 1} /\ n + 1 \notin 1..n
  BY <1>1
<1>5. Elems(q) = {q[i] : i \in 1..n} /\ Elems(A) = {A[i] : i \in 1..(n + 1)}
  BY <1>1, <1>3 DEF Elems
<1>6. ASSUME NEW x \in Elems(A) PROVE x \in Elems(q) \cup {m}
  BY <1>2, <1>4, <1>5
<1>7. ASSUME NEW x \in Elems(q) \cup {m} PROVE x \in Elems(A)
  BY <1>2, <1>4, <1>5
<1>8. QED
  BY <1>6, <1>7 DEF A

LEMMA ElemsTail ==
  ASSUME NEW T, NEW q \in Seq(T), q # <<>>
  PROVE  Elems(q) = Elems(Tail(q)) \cup {Head(q)}
<1> DEFINE n == Len(q)
           L == Tail(q)
<1>1. n \in Nat \ {0} /\ DOMAIN q = 1..n
  BY LenProperties, EmptySeq
<1>2. L \in Seq(T) /\ Len(L) = n - 1 /\ \A i \in 1..(n - 1) : L[i] = q[i + 1]
  BY HeadTailProperties
<1>3. DOMAIN L = 1..(n - 1)
  BY <1>2, LenProperties
<1>4. Head(q) = q[1]
  OBVIOUS
<1> HIDE DEF n, L
<1>5. Elems(q) = {q[i] : i \in 1..n} /\ Elems(L) = {L[i] : i \in 1..(n - 1)}
  BY <1>1, <1>3 DEF Elems
<1>6. ASSUME NEW x \in Elems(q) PROVE x \in Elems(L) \cup {Head(q)}
  <2>1. PICK i \in 1..n : x = q[i]
    BY <1>5
  <2>2. CASE i = 1
    BY <1>4, <2>1, <2>2
  <2>3. CASE i # 1
    <3>1. i - 1 \in 1..(n - 1) /\ (i - 1) + 1 = i
      BY <1>1, <2>3
    <3>2. QED
      BY <1>2, <1>5, <2>1, <3>1
  <2>4. QED
    BY <2>2, <2>3
<1>7. ASSUME NEW x \in Elems(L) \cup {Head(q)} PROVE x \in Elems(q)
  <2>1. 1 \in 1..n /\ \A i \in 1..(n - 1) : i + 1 \in 1..n
    BY <1>1
  <2>2. QED
    BY <1>2, <1>4, <1>5, <2>1
<1>8. QED
  BY <1>6, <1>7 DEF L

LEMMA ElemsType ==
  ASSUME NEW T, NEW q \in Seq(T)
  PROVE  Elems(q) \subseteq T
BY LenProperties DEF Elems

(* --------------------- Counting elements of a kind --------------------- *)

\* One for a member of S, none for anything else.
In(x, S) == IF x \in S THEN 1 ELSE 0

\* A count is a number, zero exactly when no element is of the kind.
LEMMA CountType ==
  ASSUME NEW T, NEW q \in Seq(T), NEW S
  PROVE  /\ Count(q, S) \in Nat
         /\ Count(q, S) = 0 <=> \A x \in Elems(q) : x \notin S
<1> DEFINE P == {i \in DOMAIN q : q[i] \in S}
<1>1. DOMAIN q = 1..Len(q) /\ Len(q) \in Nat
  BY LenProperties
<1>2. IsFiniteSet(1..Len(q))
  BY <1>1, FS_Interval
<1>3. IsFiniteSet(P)
  BY <1>1, <1>2, FS_Subset
<1>4. Count(q, S) = Cardinality(P)
  BY DEF Count
<1>5. Cardinality(P) \in Nat
  BY <1>3, FS_CardinalityType
<1>6. Cardinality(P) = 0 <=> P = {}
  BY <1>3, FS_EmptySet
<1>7. P = {} <=> \A x \in Elems(q) : x \notin S
  BY <1>1 DEF Elems
<1>8. QED
  BY <1>4, <1>5, <1>6, <1>7

\* The empty queue holds nothing.
LEMMA CountEmpty ==
  ASSUME NEW S PROVE Count(<<>>, S) = 0
<1>1. {i \in DOMAIN <<>> : <<>>[i] \in S} = {}
  OBVIOUS
<1>2. QED
  BY <1>1, FS_EmptySet DEF Count

\* A queue of one element.
LEMMA CountOne ==
  ASSUME NEW S, NEW x PROVE Count(<<x>>, S) = In(x, S)
<1>1. {i \in DOMAIN <<x>> : <<x>>[i] \in S} = IF x \in S THEN {1} ELSE {}
  OBVIOUS
<1>2. QED
  BY <1>1, FS_EmptySet, FS_Singleton DEF Count, In

\* What is put in a queue is counted ...
LEMMA CountAppend ==
  ASSUME NEW T, NEW q \in Seq(T), NEW m \in T, NEW S
  PROVE  Count(Append(q, m), S) = Count(q, S) + In(m, S)
<1> DEFINE n == Len(q)
           A == Append(q, m)
           P == {i \in 1..n : q[i] \in S}
           R == {i \in 1..(n + 1) : A[i] \in S}
<1>1. n \in Nat /\ DOMAIN q = 1..n
  BY LenProperties
<1>2. /\ A \in Seq(T) /\ Len(A) = n + 1
      /\ \A i \in 1..n : A[i] = q[i]
      /\ A[n + 1] = m
  BY AppendProperties
<1>3. DOMAIN A = 1..(n + 1)
  BY <1>2, LenProperties
<1>4. Count(q, S) = Cardinality(P) /\ Count(A, S) = Cardinality(R)
  BY <1>1, <1>3 DEF Count
<1>5. IsFiniteSet(P) /\ Cardinality(P) \in Nat
  <2>1. IsFiniteSet(1..n)
    BY <1>1, FS_Interval
  <2>2. QED
    BY <2>1, FS_Subset, FS_CardinalityType
<1>6. n + 1 \notin P
  BY <1>1
<1> HIDE DEF A
<1>7. R = IF m \in S THEN P \cup {n + 1} ELSE P
  BY <1>1, <1>2
<1> HIDE DEF P, R, n
<1>8. Cardinality(R) = Cardinality(P) + In(m, S)
  <2>1. Cardinality(P \cup {n + 1}) = Cardinality(P) + 1
    BY <1>5, <1>6, FS_AddElement
  <2>2. QED
    BY <2>1, <1>5, <1>7 DEF In
<1>9. QED
  BY <1>4, <1>8 DEF A

\* ... until it is taken.
LEMMA CountTail ==
  ASSUME NEW T, NEW q \in Seq(T), q # <<>>, NEW S
  PROVE  /\ Count(Tail(q), S) = Count(q, S) - In(Head(q), S)
         /\ Count(Tail(q), S) \in Nat
<1> DEFINE n == Len(q)
           L == Tail(q)
           P == {i \in 1..(n - 1) : L[i] \in S}
           M == {i \in 2..n : q[i] \in S}
           R == {i \in 1..n : q[i] \in S}
           f == [i \in P |-> i + 1]
<1>1. n \in Nat \ {0} /\ DOMAIN q = 1..n
  BY LenProperties, EmptySeq
<1>2. /\ L \in Seq(T) /\ Len(L) = n - 1
      /\ \A i \in 1..(n - 1) : L[i] = q[i + 1]
  BY HeadTailProperties
<1>3. DOMAIN L = 1..(n - 1)
  BY <1>2, LenProperties
<1>4. Head(q) = q[1]
  OBVIOUS
<1>5. Count(L, S) = Cardinality(P) /\ Count(q, S) = Cardinality(R)
  BY <1>1, <1>3 DEF Count
<1> HIDE DEF n, L
<1>6. IsFiniteSet(P) /\ Cardinality(P) \in Nat
  <2>1. IsFiniteSet(1..(n - 1))
    BY <1>1, FS_Interval
  <2>2. QED
    BY <2>1, FS_Subset, FS_CardinalityType
<1>7. f \in [P -> M]
  BY <1>1, <1>2
<1>8. \A i, j \in P : f[i] = f[j] => i = j
  BY <1>1
<1>9. \A j \in M : \E i \in P : f[i] = j
  <2>1. SUFFICES ASSUME NEW j \in M PROVE j - 1 \in P /\ f[j - 1] = j
    OBVIOUS
  <2>2. j - 1 \in 1..(n - 1) /\ (j - 1) + 1 = j
    BY <1>1
  <2>3. QED
    BY <2>2, <1>2
<1>10. f \in Bijection(P, M)
  BY <1>7, <1>8, <1>9 DEF Bijection, Injection, Surjection, IsInjective, f
<1>11. IsFiniteSet(M) /\ Cardinality(M) = Cardinality(P)
  BY <1>6, <1>10, FS_Bijection DEF ExistsBijection
<1>12. R = (IF Head(q) \in S THEN M \cup {1} ELSE M) /\ 1 \notin M
  BY <1>1, <1>4
<1> HIDE DEF P, M, R, f
<1>13. Cardinality(R) = Cardinality(M) + In(Head(q), S)
  <2>1. Cardinality(M \cup {1}) = Cardinality(M) + 1
    BY <1>11, <1>12, FS_AddElement
  <2>2. QED
    BY <2>1, <1>6, <1>11, <1>12 DEF In
<1>14. In(Head(q), S) \in {0, 1}
  BY DEF In
<1>15. QED
  BY <1>5, <1>6, <1>11, <1>13, <1>14 DEF L

(* ----------------------- Parts of a queue, two more -------------------- *)

\* What a broken connection still delivers is an initial part of the queue:
\* it holds nothing new, and no element more often.
LEMMA CutQueue ==
  ASSUME NEW T, NEW q \in Seq(T), NEW k \in 0..Len(q)
  PROVE  /\ SubSeq(q, 1, k) \in Seq(T)
         /\ Elems(SubSeq(q, 1, k)) \subseteq Elems(q)
         /\ \A S : Count(SubSeq(q, 1, k), S) <= Count(q, S)
<1> DEFINE n == Len(q)
           C == SubSeq(q, 1, k)
<1>1. n \in Nat /\ DOMAIN q = 1..n /\ k \in Nat /\ k <= n
  BY LenProperties
<1>2. \A i \in 1..k : q[i] \in T
  BY <1>1, ElementOfSeq
<1>3. C \in Seq(T) /\ Len(C) = (IF 1 <= k THEN k - 1 + 1 ELSE 0)
      /\ \A i \in 1..(k - 1 + 1) : C[i] = q[1 + i - 1]
  BY <1>1, <1>2, SubSeqProperties
<1>4. Len(C) = k /\ \A i \in 1..k : C[i] = q[i]
  BY <1>1, <1>3
<1>5. DOMAIN C = 1..k
  BY <1>3, <1>4, LenProperties
<1> HIDE DEF n, C
<1>6. Elems(C) \subseteq Elems(q)
  BY <1>1, <1>4, <1>5 DEF Elems
<1>7. ASSUME NEW S PROVE Count(C, S) <= Count(q, S)
  <2> DEFINE P == {i \in DOMAIN C : C[i] \in S}
             R == {i \in DOMAIN q : q[i] \in S}
  <2>1. P \subseteq R
    BY <1>1, <1>4, <1>5
  <2>2. IsFiniteSet(1..n)
    BY <1>1, FS_Interval
  <2>3. IsFiniteSet(R)
    BY <1>1, <2>2, FS_Subset
  <2>4. Cardinality(P) <= Cardinality(R)
    BY <2>1, <2>3, FS_Subset
  <2>5. QED
    BY <2>4 DEF Count
<1>8. QED
  BY <1>3, <1>6, <1>7 DEF C

\* Two elements put in a queue at once.
LEMMA AppendTwo ==
  ASSUME NEW T, NEW q \in Seq(T), NEW a \in T, NEW b \in T
  PROVE  q \o <<a, b>> = Append(Append(q, a), b)
<1>1. /\ <<a>> \in Seq(T) /\ Len(<<a>>) = 1 /\ <<a>>[1] = a
      /\ <<b>> \in Seq(T) /\ Len(<<b>>) = 1 /\ <<b>>[1] = b
      /\ <<a, b>> \in Seq(T) /\ Len(<<a, b>>) = 2
      /\ <<a, b>>[1] = a /\ <<a, b>>[2] = b
  OBVIOUS
<1>2. Append(q, a) = q \o <<a>> /\ Append(q, a) \in Seq(T)
  BY AppendIsConcat, AppendProperties
<1>3. Append(Append(q, a), b) = (q \o <<a>>) \o <<b>>
  BY <1>2, AppendIsConcat
<1>4. (q \o <<a>>) \o <<b>> = q \o (<<a>> \o <<b>>)
  BY <1>1, ConcatAssociative
<1>5. <<a>> \o <<b>> = <<a, b>>
  <2> DEFINE c == <<a>> \o <<b>>
             d == <<a, b>>
  <2>1. c \in Seq(T) /\ Len(c) = 2 /\ c[1] = a /\ c[2] = b
    BY <1>1, ConcatProperties
  <2>2. d \in Seq(T) /\ Len(d) = 2 /\ d[1] = a /\ d[2] = b
    BY <1>1
  <2> HIDE DEF c, d
  <2>3. \A i \in 1..Len(c) : c[i] = d[i]
    BY <2>1, <2>2
  <2>4. c = d
    BY <2>1, <2>2, <2>3, SeqEqual
  <2>5. QED
    BY <2>4 DEF c, d
<1>6. QED
  BY <1>3, <1>4, <1>5

(* -------------------- A queue after what was taken --------------------- *)

\* What was taken is followed by what is in the queue: a new element comes
\* last, ...
LEMMA TakenAppend ==
  ASSUME NEW T, NEW h \in Seq(T), NEW q \in Seq(T), NEW m \in T
  PROVE  h \o Append(q, m) = Append(h \o q, m)
<1>1. <<m>> \in Seq(T)
  OBVIOUS
<1>2. Append(q, m) = q \o <<m>>
  BY AppendIsConcat
<1>3. h \o q \in Seq(T)
  BY ConcatProperties
<1>4. Append(h \o q, m) = (h \o q) \o <<m>>
  BY <1>3, AppendIsConcat
<1>5. QED
  BY <1>1, <1>2, <1>4, ConcatAssociative

\* ... taking the head changes nothing, ...
LEMMA TakenTail ==
  ASSUME NEW T, NEW h \in Seq(T), NEW q \in Seq(T), q # <<>>
  PROVE  Append(h, Head(q)) \o Tail(q) = h \o q
<1> DEFINE c == Append(h, Head(q)) \o Tail(q)
           d == h \o q
           a == Append(h, Head(q))
           n == Len(h)
<1>1. n \in Nat /\ Len(q) \in Nat /\ Len(q) > 0 /\ Head(q) = q[1] /\ Head(q) \in T
  BY LenProperties, EmptySeq, HeadTailProperties
<1>2. /\ Tail(q) \in Seq(T) /\ Len(Tail(q)) = Len(q) - 1
      /\ \A i \in 1..(Len(q) - 1) : Tail(q)[i] = q[i + 1]
  BY HeadTailProperties
<1>3. /\ a \in Seq(T) /\ Len(a) = n + 1 /\ a[n + 1] = q[1]
      /\ \A i \in 1..n : a[i] = h[i]
  BY <1>1, AppendProperties
<1> HIDE DEF a
<1>4. /\ c \in Seq(T) /\ Len(c) = n + Len(q)
      /\ \A i \in 1..(n + Len(q)) : c[i] = IF i <= n + 1 THEN a[i] ELSE Tail(q)[i - (n + 1)]
  BY <1>1, <1>2, <1>3, ConcatProperties DEF a
<1>5. /\ d \in Seq(T) /\ Len(d) = n + Len(q)
      /\ \A i \in 1..(n + Len(q)) : d[i] = IF i <= n THEN h[i] ELSE q[i - n]
  BY ConcatProperties
<1> HIDE DEF c, d, n
<1>6. ASSUME NEW i \in 1..(n + Len(q)) PROVE c[i] = d[i]
  <2>1. CASE i <= n
    BY <1>1, <1>3, <1>4, <1>5, <2>1
  <2>2. CASE i = n + 1
    BY <1>1, <1>3, <1>4, <1>5, <2>2
  <2>3. CASE i > n + 1
    <3>1. c[i] = Tail(q)[i - (n + 1)] /\ d[i] = q[i - n] /\ i - (n + 1) \in 1..(Len(q) - 1)
      BY <1>1, <1>4, <1>5, <2>3
    <3>2. Tail(q)[i - (n + 1)] = q[(i - (n + 1)) + 1] /\ (i - (n + 1)) + 1 = i - n
      BY <1>1, <1>2, <3>1
    <3>3. QED
      BY <3>1, <3>2
  <2>4. QED
    BY <1>1, <2>1, <2>2, <2>3
<1>7. c = d
  BY <1>4, <1>5, <1>6, SeqEqual
<1>8. QED
  BY <1>7 DEF c, d, a

\* ... and what was taken comes first.
LEMMA TakenFirst ==
  ASSUME NEW T, NEW h \in Seq(T), NEW q \in Seq(T)
  PROVE  /\ h \o q \in Seq(T)
         /\ PrefixOf(h, h \o q)
BY ConcatProperties, LenProperties DEF PrefixOf

\* A set of natural numbers that is not empty has a least element: what the
\* proofs by induction below rest on.
LEMMA LeastElement ==
  ASSUME NEW N \in SUBSET Nat, N # {}
  PROVE  \E m \in N : \A k \in N : m <= k
<1> DEFINE F == {1..n : n \in N}
<1>1. IsWellFoundedOn(StrictSubsetOrdering(Nat), FiniteSubsetsOf(Nat))
  BY FS_StrictSubsetOrderingWellFounded
<1>2. F \subseteq FiniteSubsetsOf(Nat) /\ F # {}
  <2>1. \A n \in N : 1..n \in SUBSET Nat /\ IsFiniteSet(1..n)
    BY FS_Interval
  <2>2. QED
    BY <2>1 DEF FiniteSubsetsOf
<1>3. \E x \in F : \A y \in F : ~ (<<y, x>> \in StrictSubsetOrdering(Nat))
  <2> HIDE DEF F
  <2>1. QED
    BY <1>1, <1>2, WFMin
<1>4. PICK m \in N : \A k \in N : ~ (<<1..k, 1..m>> \in StrictSubsetOrdering(Nat))
  BY <1>3
<1>5. ASSUME NEW k \in N, k < m PROVE FALSE
  <2>1. 1..k \in SUBSET Nat /\ 1..m \in SUBSET Nat /\ 1..k \subseteq 1..m
    BY <1>5
  <2>2. m \in 1..m /\ m \notin 1..k
    BY <1>5
  <2>3. <<1..k, 1..m>> \in StrictSubsetOrdering(Nat)
    BY <2>1, <2>2 DEF StrictSubsetOrdering
  <2>4. QED
    BY <1>4, <1>5, <2>3
<1>6. QED
  BY <1>5

\* A set of numbers that has lo and with every number below hi the next one
\* has all from lo to hi: induction over an interval.
LEMMA IntervalInduction ==
  ASSUME NEW lo \in Nat, NEW hi \in Nat, NEW P, lo \in P,
         \A i \in lo..hi : i \in P /\ i < hi => i + 1 \in P
  PROVE  \A i \in lo..hi : i \in P
<1> SUFFICES ASSUME NEW j \in lo..hi, j \notin P PROVE FALSE
  OBVIOUS
<1> DEFINE N == {i \in Nat : i \in lo..hi /\ i \notin P}
<1>1. N \in SUBSET Nat /\ N # {}
  OBVIOUS
<1>2. PICK m \in N : \A k \in N : m <= k
  <2> HIDE DEF N
  <2>1. QED
    BY <1>1, LeastElement
<1>3. m # lo /\ m \in lo..hi /\ m \notin P /\ m - 1 \in lo..hi /\ m - 1 < hi
  BY <1>2
<1>4. m - 1 \in P
  BY <1>2, <1>3
<1>5. m - 1 + 1 = m
  BY <1>3
<1>6. QED
  BY <1>3, <1>4, <1>5

\* f is defined over an interval by its first value and by steps from one value
\* to the next, which stay in V.
StepsIn(step, lo, hi, V) == \A i \in lo..hi, v \in V : step[<<i, v>>] \in V
Recursive(f, step, lo, hi, V, first) ==
  /\ f \in [lo..hi -> V]
  /\ f[lo] = first /\ \A i \in lo..hi : i # lo => f[i] = step[<<i, f[i-1]>>]

\* There is such a function.
LEMMA RecursionExists ==
  ASSUME NEW lo \in Nat, NEW hi \in Nat, lo <= hi, NEW V, NEW first \in V,
         NEW step, StepsIn(step, lo, hi, V)
  PROVE  \E f : Recursive(f, step, lo, hi, V, first)
<1>0. \A i \in lo..hi, v \in V : step[<<i, v>>] \in V
  BY DEF StepsIn
<1> DEFINE Good(f, n) == f[lo] = first /\ \A i \in lo..n : i # lo => f[i] = step[<<i, f[i-1]>>]
           P == {n \in Nat : \E f \in [lo..n -> V] : Good(f, n)}
<1>1. lo \in P
  <2>1. [i \in lo..lo |-> first] \in [lo..lo -> V]
    OBVIOUS
  <2>2. Good([i \in lo..lo |-> first], lo)
    OBVIOUS
  <2>3. QED
    BY <2>1, <2>2
<1>2. ASSUME NEW n \in lo..hi, n \in P, n < hi PROVE n + 1 \in P
  <2>1. PICK f \in [lo..n -> V] : Good(f, n)
    BY <1>2
  <2>2. n \in Nat /\ lo <= n /\ n + 1 \in lo..hi
    BY <1>2
  <2> DEFINE next == step[<<n + 1, f[n]>>]
             g == [i \in lo..(n+1) |-> IF i = n + 1 THEN next ELSE f[i]]
  <2>3. next \in V
    <3>1. f[n] \in V
      BY <2>2
    <3>2. QED
      BY <3>1, <2>2, <1>0
  <2>4. g \in [lo..(n+1) -> V]
    <3> HIDE DEF next
    <3>1. QED
      BY <2>2, <2>3
  <2>5. ASSUME NEW i \in lo..(n+1), i # lo PROVE g[i] = step[<<i, g[i-1]>>]
    <3>1. i - 1 \in lo..n /\ g[i-1] = f[i-1]
      BY <2>2, <2>5
    <3>2. CASE i = n + 1
      <4>1. g[i] = next /\ i - 1 = n
        BY <3>2, <2>2
      <4>2. QED
        BY <4>1, <3>1, <3>2
    <3>3. CASE i # n + 1
      <4>1. i \in lo..n /\ g[i] = f[i]
        BY <3>3, <2>2
      <4>2. QED
        BY <4>1, <3>1, <2>1, <2>5
    <3>4. QED
      BY <3>2, <3>3
  <2>6. g[lo] = first
    BY <2>1, <2>2
  <2>7. Good(g, n + 1)
    BY <2>5, <2>6
  <2> HIDE DEF g
  <2>8. QED
    BY <2>2, <2>4, <2>7
<1>3. hi \in P
  <2> HIDE DEF P
  <2>1. \A i \in lo..hi : i \in P /\ i < hi => i + 1 \in P
    BY <1>2
  <2>2. \A i \in lo..hi : i \in P
    BY <1>1, <2>1, IntervalInduction
  <2>3. QED
    BY <2>2
<1>4. QED
  BY <1>3 DEF Recursive

\* A loop: from a state of S that is not done a step leads to another one with
\* fewer steps to go.  g has the result of the state it ends in.
LoopEnds(S, step, done, size, bound) ==
  \A s \in S : size[s] \in 0..bound /\ (s \notin done => step[s] \in S /\ size[step[s]] < size[s])
ResultOf(g, S, V, step, done, result) ==
  g \in [S -> V] /\ \A s \in S : g[s] = IF s \in done THEN result[s] ELSE g[step[s]]

\* There is such a function.
LEMMA LoopExists ==
  ASSUME NEW S, NEW V, NEW step, NEW done, NEW result \in [S -> V], NEW size, NEW bound \in Nat,
         LoopEnds(S, step, done, size, bound)
  PROVE  \E g : ResultOf(g, S, V, step, done, result)
<1> DEFINE Good(g, n) == \A s \in S : size[s] < n => g[s] = IF s \in done THEN result[s] ELSE g[step[s]]
           P == {n \in Nat : \E g \in [S -> V] : Good(g, n)}
<1>0. \A s \in S : size[s] \in Nat /\ size[s] <= bound
                   /\ (s \notin done => step[s] \in S /\ size[step[s]] < size[s])
  BY DEF LoopEnds
<1>1. 0 \in P
  <2>1. Good(result, 0)
    BY <1>0
  <2>2. QED
    BY <2>1
<1>2. ASSUME NEW n \in 0..(bound+1), n \in P, n < bound + 1 PROVE n + 1 \in P
  <2>1. PICK f \in [S -> V] : Good(f, n)
    BY <1>2
  <2> DEFINE g == [s \in S |-> IF size[s] < n THEN f[s]
                               ELSE IF s \in done THEN result[s] ELSE f[step[s]]]
  <2>2. g \in [S -> V]
    BY <1>0
  <2>3. ASSUME NEW s \in S, size[s] < n + 1
        PROVE  g[s] = IF s \in done THEN result[s] ELSE g[step[s]]
    <3>1. CASE s \in done
      BY <2>1, <3>1
    <3>2. CASE s \notin done
      <4>1. step[s] \in S /\ size[step[s]] < n /\ g[step[s]] = f[step[s]]
        <5>1. step[s] \in S /\ size[step[s]] < size[s] /\ size[s] \in Nat /\ size[step[s]] \in Nat
          BY <1>0, <3>2
        <5>2. n \in Nat
          BY <1>2
        <5>3. QED
          BY <5>1, <5>2, <2>3
      <4>2. CASE size[s] < n
        BY <4>1, <4>2, <2>1, <3>2
      <4>3. CASE ~(size[s] < n)
        BY <4>1, <4>3, <3>2
      <4>4. QED
        BY <4>2, <4>3
    <3>3. QED
      BY <3>1, <3>2
  <2>4. Good(g, n + 1)
    BY <2>3
  <2> HIDE DEF g
  <2>5. QED
    BY <1>2, <2>2, <2>4
<1>3. bound + 1 \in P
  <2> HIDE DEF P
  <2>1. \A i \in 0..(bound+1) : i \in P /\ i < bound + 1 => i + 1 \in P
    BY <1>2
  <2>2. \A i \in 0..(bound+1) : i \in P
    BY <1>1, <2>1, IntervalInduction
  <2>3. QED
    BY <2>2
<1>4. PICK g \in [S -> V] : Good(g, bound + 1)
  BY <1>3
<1>5. \A s \in S : size[s] < bound + 1
  BY <1>0
<1>6. QED
  BY <1>4, <1>5 DEF ResultOf

(* ------------------------------ Arithmetic ----------------------------- *)

\* A product of positive numbers is one, and at least as large as each.
LEMMA Product ==
  ASSUME NEW a \in Nat, NEW b \in Nat, a >= 1, b >= 1
  PROVE  a * b \in Nat /\ a * b >= 1 /\ a * b >= a /\ a * b >= b
<1>1. a * b \in Nat
  OBVIOUS
<1>2. a * b >= a
  OBVIOUS
<1>3. a * b >= b
  OBVIOUS
<1>4. QED
  BY <1>1, <1>2

\* Quotient and remainder are unique.
LEMMA DivModIs ==
  ASSUME NEW d \in Nat, d >= 1, NEW q \in Nat, NEW r \in Nat, r < d, NEW n \in Nat, n = d * q + r
  PROVE  n \div d = q /\ n % d = r
<1> DEFINE a == n \div d
           b == n % d
<1>1. a \in Nat /\ b \in Nat /\ b < d /\ n = d * a + b
  OBVIOUS
<1> HIDE DEF a, b
<1>2. ASSUME a < q PROVE FALSE
  <2>1. d * (a + 1) <= d * q /\ d * (a + 1) = d * a + d
    BY <1>1, <1>2
  <2>2. d * a \in Nat /\ d * q \in Nat
    BY <1>1
  <2>3. QED
    BY <1>1, <2>1, <2>2
<1>3. ASSUME q < a PROVE FALSE
  <2>1. d * (q + 1) <= d * a /\ d * (q + 1) = d * q + d
    BY <1>1, <1>3
  <2>2. d * a \in Nat /\ d * q \in Nat
    BY <1>1
  <2>3. QED
    BY <1>1, <2>1, <2>2
<1>4. a = q
  BY <1>1, <1>2, <1>3
<1>5. d * a \in Nat
  BY <1>1
<1>6. b = r
  BY <1>1, <1>4, <1>5
<1>7. QED
  BY <1>4, <1>6 DEF a, b

\* What division gives.
LEMMA Division ==
  ASSUME NEW n \in Nat, NEW d \in Nat, d >= 1
  PROVE  n \div d \in Nat /\ n % d \in Nat /\ n % d < d /\ n = d * (n \div d) + (n % d)
  OBVIOUS

\* Products of natural numbers.
LEMMA ProductNat ==
  ASSUME NEW a \in Nat, NEW b \in Nat
  PROVE  a * b \in Nat /\ (a >= 1 /\ b >= 1 => a * b >= 1)
  OBVIOUS

LEMMA TimesOver ==
  ASSUME NEW a \in Nat, NEW b \in Nat, NEW c \in Nat
  PROVE  a * (b + c) = a * b + a * c /\ a * (b * c) = (a * b) * c /\ a * b = b * a
  OBVIOUS

\* A number is read digit by digit: dividing by p and then by base is dividing
\* by their product.
LEMMA DigitsDivide ==
  ASSUME NEW v \in Nat, NEW p \in Nat, p >= 1, NEW base \in Nat, base >= 1
  PROVE  v \div (p * base) = (v \div p) \div base
<1> DEFINE u == v \div p
           r == v % p
           a == u \div base
           b == u % base
<1>1. u \in Nat /\ r \in Nat /\ r < p /\ v = p * u + r
  BY Division
<1> HIDE DEF u, r
<1>2. a \in Nat /\ b \in Nat /\ b < base /\ u = base * a + b
  BY <1>1, Division
<1> HIDE DEF a, b
<1>3. v \div (p * base) = a
  <2>1. p * b \in Nat /\ base * a \in Nat /\ p * (base * a) \in Nat /\ (p * base) * a \in Nat
    <3>1. p * b \in Nat /\ base * a \in Nat /\ p * base \in Nat
      BY <1>2, ProductNat
    <3>2. QED
      BY <1>2, <3>1, ProductNat
  <2>2. p * (base * a + b) = p * (base * a) + p * b /\ p * (base * a) = (p * base) * a
    BY <1>2, <2>1, TimesOver
  <2>3. v = (p * base) * a + (p * b + r)
    BY <1>1, <1>2, <2>1, <2>2
  <2>4. p * b + r < p * base
    <3>1. p * (b + 1) <= p * base
      BY <1>2
    <3>2. p * (b + 1) = p * b + p
      BY <1>2
    <3>3. p * base \in Nat
      BY ProductNat
    <3>4. QED
      BY <1>1, <2>1, <3>1, <3>2, <3>3
  <2>5. p * base \in Nat /\ p * base >= 1 /\ p * b + r \in Nat
    BY <1>1, <2>1, ProductNat
  <2> DEFINE both == p * base
             rest == p * b + r
  <2>6. both \in Nat /\ both >= 1 /\ rest \in Nat /\ rest < both /\ v = both * a + rest
    BY <2>3, <2>4, <2>5
  <2> HIDE DEF both, rest
  <2>7. v \div both = a
    BY <1>2, <2>6, DivModIs
  <2>8. QED
    BY <2>7 DEF both
<1>4. QED
  BY <1>3 DEF u, a

\* The remainders add up to that of the product.
LEMMA DigitsAdd ==
  ASSUME NEW u \in Nat, NEW q \in Nat, q >= 1, NEW base \in Nat, base >= 1
  PROVE  ((u \div base) % q) * base + (u % base) = u % (q * base)
<1> DEFINE a == u \div base
           b == u % base
           c == a \div q
           d == a % q
<1>1. a \in Nat /\ b \in Nat /\ b < base /\ u = base * a + b
  BY Division
<1> HIDE DEF a, b
<1>2. c \in Nat /\ d \in Nat /\ d < q /\ a = q * c + d
  BY <1>1, Division
<1> HIDE DEF c, d
<1>3. u % (q * base) = d * base + b
  <2>1. q * c \in Nat /\ base * d \in Nat /\ q * base \in Nat /\ q * base >= 1 /\ (q * base) * c \in Nat
    <3>1. q * c \in Nat /\ base * d \in Nat /\ q * base \in Nat /\ q * base >= 1
      BY <1>2, ProductNat
    <3>2. QED
      BY <1>2, <3>1, ProductNat
  <2>2. base * (q * c + d) = base * (q * c) + base * d /\ base * (q * c) = (base * q) * c
        /\ base * q = q * base /\ d * base = base * d
    BY <1>2, <2>1, TimesOver
  <2>3. u = (q * base) * c + (d * base + b)
    BY <1>1, <1>2, <2>1, <2>2
  <2>4. d * base + b < q * base
    <3>1. base * (d + 1) <= base * q
      BY <1>2
    <3>2. base * (d + 1) = base * d + base
      BY <1>2
    <3>3. QED
      BY <1>1, <2>1, <2>2, <3>1, <3>2
  <2>5. d * base + b \in Nat
    BY <1>1, <2>1, <2>2
  <2> DEFINE both == q * base
             rest == d * base + b
  <2>6. both \in Nat /\ both >= 1 /\ rest \in Nat /\ rest < both /\ u = both * c + rest
    BY <2>1, <2>3, <2>4, <2>5
  <2> HIDE DEF both, rest
  <2>7. u % both = rest
    <3>1. c \in Nat /\ u \in Nat
      BY <1>2
    <3>2. QED
      BY <2>6, <3>1, DivModIs
  <2>8. QED
    BY <2>7 DEF both, rest
<1>4. QED
  BY <1>3 DEF a, b, d

\* A remainder after one turn.
LEMMA OneTurn ==
  ASSUME NEW d \in Nat, NEW r \in Nat, r < d
  PROVE  (d + r) % d = r
<1>1. d * 1 = d /\ d >= 1 /\ d + r \in Nat
  OBVIOUS
<1>2. QED
  BY <1>1, DivModIs

(* ------------------------- Parts of sequences --------------------------- *)

\* A part of a sequence, element by element.
LEMMA PartIs ==
  ASSUME NEW T, NEW s \in Seq(T), NEW b \in Seq(T), NEW k \in Nat, k + Len(b) <= Len(s),
         \A i \in 1..Len(b) : s[k + i] = b[i]
  PROVE  SubSeq(s, k + 1, k + Len(b)) = b
<1> DEFINE m == Len(b)
           c == SubSeq(s, k + 1, k + m)
<1>1. m \in Nat /\ Len(s) \in Nat
  BY LenProperties
<1>2. c \in Seq(T) /\ Len(c) = m /\ \A i \in 1..m : c[i] = s[k + i]
  <2>1. k + 1 \in 1..(Len(s) + 1) /\ k + m \in (k + 1 - 1)..Len(s) /\ k + m - (k + 1) + 1 = m
    BY <1>1
  <2>2. c \in Seq(T) /\ Len(c) = k + m - (k + 1) + 1
        /\ \A i \in 1..(k + m - (k + 1) + 1) : c[i] = s[k + 1 + i - 1]
    BY <2>1, SubSeqProperties
  <2>3. \A i \in 1..m : k + 1 + i - 1 = k + i
    BY <1>1
  <2>4. QED
    BY <2>1, <2>2, <2>3
<1> HIDE DEF c
<1>3. \A i \in 1..m : c[i] = b[i]
  BY <1>2
<1>4. c = b
  BY <1>1, <1>2, <1>3, SeqEqual
<1>5. QED
  BY <1>4 DEF c
=============================================================================
