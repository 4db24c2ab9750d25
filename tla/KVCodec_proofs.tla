--------------------------- MODULE KVCodec_proofs ---------------------------
(***************************************************************************)
(* For any keys, patterns, writers and any room in the channel: behind     *)
(* codecs that keep their promise for each key (Faithful), callers find    *)
(* what was written under their keys, lists are complete or refused, and   *)
(* readers get what they are due, in order.                                *)
(***************************************************************************)
EXTENDS KVCodec, SequenceTheorems, FiniteSetTheorems, WellFoundedInduction, TLAPS

-----------------------------------------------------------------------------
(* Sequences that are passed on from one channel to the next. *)

LEMMA SeqOfMore ==
    ASSUME NEW S, NEW T, S \subseteq T
    PROVE  Seq(S) \subseteq Seq(T)
BY SeqMonotonic

LEMMA HeadAndTail ==
    ASSUME NEW T, NEW s \in Seq(T), s # <<>>
    PROVE  s = <<Head(s)>> \o Tail(s)
<1> DEFINE t == Tail(s)
           u == <<Head(s)>> \o t
<1>1. /\ Head(s) \in T /\ t \in Seq(T)
      /\ Len(s) \in Nat \ {0} /\ Len(t) = Len(s) - 1
      /\ \A i \in 1 .. Len(t) : t[i] = s[i + 1]
      /\ Head(s) = s[1]
    BY HeadTailProperties
<1>2. /\ u \in Seq(T) /\ Len(u) = 1 + Len(t)
      /\ u[1] = s[1] /\ \A i \in 2 .. Len(u) : u[i] = t[i - 1]
    <2> HIDE DEF t
    <2>1. <<Head(s)>> \in Seq(T) /\ Len(<<Head(s)>>) = 1 /\ <<Head(s)>>[1] = s[1]
        BY <1>1
    <2> QED
        BY <1>1, <2>1, ConcatProperties
<1> HIDE DEF t, u
<1>3. Len(u) = Len(s) /\ \A i \in 1 .. Len(u) : u[i] = s[i]
    BY <1>1, <1>2
<1> QED
    BY <1>2, <1>3, SeqEqual DEF t, u

\* The first of one sequence becomes the last of the one before it.
LEMMA HeadMovesOver ==
    ASSUME NEW T, NEW r \in Seq(T), NEW s \in Seq(T), s # <<>>
    PROVE  r \o s = (r \o <<Head(s)>>) \o Tail(s)
<1>1. Head(s) \in T /\ Tail(s) \in Seq(T) /\ <<Head(s)>> \in Seq(T)
    BY HeadTailProperties
<1>2. s = <<Head(s)>> \o Tail(s)
    BY HeadAndTail
<1> DEFINE h == <<Head(s)>>
           t == Tail(s)
<1> HIDE DEF h, t
<1>3. (r \o h) \o t = r \o (h \o t)
    BY <1>1, ConcatAssociative DEF h, t
<1> QED
    BY <1>2, <1>3 DEF h, t

LEMMA PrefixOfConcat ==
    ASSUME NEW T, NEW r \in Seq(T), NEW s \in Seq(T)
    PROVE  IsPrefix(r, r \o s)
<1> DEFINE u == r \o s
           n == Len(r)
<1>1. u \in Seq(T) /\ n \in Nat /\ Len(u) >= n /\ \A i \in 1 .. n : u[i] = r[i]
    <2>1. Len(r) \in Nat /\ Len(s) \in Nat
        OBVIOUS
    <2> HIDE DEF u
    <2>2. u \in Seq(T) /\ Len(u) = Len(r) + Len(s)
          /\ \A i \in 1 .. Len(r) + Len(s) : u[i] = IF i <= Len(r) THEN r[i] ELSE s[i - Len(r)]
        BY ConcatProperties DEF u
    <2> QED
        BY <2>1, <2>2
<1> HIDE DEF u
<1>2. SubSeq(r, 1, n) = SubSeq(u, 1, n)
    BY <1>1
<1> QED
    BY <1>1, <1>2 DEF IsPrefix, u

-----------------------------------------------------------------------------
(* Revisions in order. *)

Less == {p \in Nat \X Nat : p[1] < p[2]}

\* A set of numbers has a least one.
LEMMA LeastOfNat ==
    ASSUME NEW T, T \subseteq Nat, T # {}
    PROVE  \E x \in T : \A y \in T : x <= y
<1>1. IsWellFoundedOn(Less, Nat)
    BY NatLessThanWellFounded DEF OpToRel, Less
<1>2. PICK x \in T : \A y \in T : ~ (<<y, x>> \in Less)
    BY <1>1, WFMin
<1>3. \A y \in T : ~ (y < x)
    BY <1>2 DEF Less
<1> QED
    BY <1>3

\* A sequence of all the elements of a set, each once, the least first.
Enumerates(s, S) ==
    /\ s \in Seq(Nat)
    /\ \A m, n \in 1 .. Len(s) : m < n => s[m] < s[n]
    /\ \A n \in 1 .. Len(s) : s[n] \in S
    /\ \A x \in S : \E n \in 1 .. Len(s) : s[n] = x

\* There is at most one such sequence: two agree up to any place.
LEMMA EnumerationsAgree ==
    ASSUME NEW S, NEW s, NEW t, Enumerates(s, S), Enumerates(t, S)
    PROVE  \A n \in 1 .. Len(s) : n <= Len(t) /\ s[n] = t[n]
<1> DEFINE Off == {n \in 1 .. Len(s) : ~(n <= Len(t) /\ s[n] = t[n])}
<1> SUFFICES ASSUME Off # {} PROVE FALSE
    OBVIOUS
<1>0. /\ s \in Seq(Nat) /\ t \in Seq(Nat)
      /\ Len(s) \in Nat /\ Len(t) \in Nat
      /\ \A n \in 1 .. Len(s) : s[n] \in Nat
      /\ \A n \in 1 .. Len(t) : t[n] \in Nat
    <2> HIDE DEF Off
    <2>1. s \in Seq(Nat) /\ t \in Seq(Nat)
        BY DEF Enumerates
    <2> QED
        BY <2>1, ElementOfSeq, LenProperties
<1>1. PICK n \in Off : \A m \in Off : n <= m
    <2>1. Off \subseteq Nat
        BY <1>0
    <2> HIDE DEF Off
    <2> QED
        BY <2>1, LeastOfNat
<1>2. \A m \in 1 .. n - 1 : m <= Len(t) /\ s[m] = t[m]
    <2> SUFFICES ASSUME NEW m \in 1 .. n - 1 PROVE m \notin Off
        BY <1>0, <1>1
    <2>1. n \in Nat /\ m \in Nat /\ m < n
        BY <1>0, <1>1
    <2> QED
        BY <1>1, <2>1
<1>3. PICK j \in 1 .. Len(t) : t[j] = s[n]
    BY <1>1 DEF Enumerates
<1>4. j >= n
    <2> SUFFICES ASSUME j < n PROVE FALSE
        BY <1>0, <1>1
    <2>1. s[j] = s[n] /\ j \in 1 .. Len(s) /\ n \in 1 .. Len(s)
        BY <1>0, <1>1, <1>2, <1>3
    <2>2. s[j] < s[n]
        BY <2>1 DEF Enumerates
    <2> QED
        BY <1>0, <2>1, <2>2
<1>5. n \in 1 .. Len(t) /\ t[n] # s[n]
    BY <1>0, <1>1, <1>4
<1>6. t[n] < s[n]
    <2>1. j # n
        BY <1>3, <1>5
    <2> QED
        BY <1>0, <1>3, <1>4, <1>5, <2>1 DEF Enumerates
<1>7. PICK k \in 1 .. Len(s) : s[k] = t[n]
    BY <1>5 DEF Enumerates
<1>8. k < n
    <2> SUFFICES ASSUME n <= k PROVE FALSE
        BY <1>0, <1>1
    <2>1. n < k => s[n] < s[k]
        BY <1>1 DEF Enumerates
    <2> QED
        BY <1>0, <1>1, <1>5, <1>6, <1>7, <2>1
<1>9. t[k] = t[n] /\ k \in 1 .. Len(t)
    BY <1>0, <1>1, <1>2, <1>7, <1>8
<1>10. t[k] < t[n]
    BY <1>5, <1>8, <1>9 DEF Enumerates
<1> QED
    BY <1>0, <1>5, <1>9, <1>10

LEMMA EnumerationUnique ==
    ASSUME NEW S, NEW s, NEW t, Enumerates(s, S), Enumerates(t, S)
    PROVE  s = t
<1>1. /\ s \in Seq(Nat) /\ t \in Seq(Nat)
      /\ Len(s) \in Nat /\ Len(t) \in Nat
    BY DEF Enumerates
<1>2. Len(s) <= Len(t)
    <2>1. CASE Len(s) = 0
        BY <1>1, <2>1
    <2>2. CASE Len(s) # 0
        <3>1. Len(s) \in 1 .. Len(s)
            BY <1>1, <2>2
        <3> QED
            BY <3>1, EnumerationsAgree
    <2> QED
        BY <2>1, <2>2
<1>3. Len(t) <= Len(s)
    <2>1. CASE Len(t) = 0
        BY <1>1, <2>1
    <2>2. CASE Len(t) # 0
        <3>1. Len(t) \in 1 .. Len(t)
            BY <1>1, <2>2
        <3> QED
            BY <3>1, EnumerationsAgree
    <2> QED
        BY <2>1, <2>2
<1>4. \A n \in 1 .. Len(s) : s[n] = t[n]
    BY EnumerationsAgree
<1> QED
    BY <1>1, <1>2, <1>3, <1>4, SeqEqual

\* Its length is the number of elements.
LEMMA EnumerationLength ==
    ASSUME NEW S, NEW s, Enumerates(s, S)
    PROVE  IsFiniteSet(S) /\ Len(s) = Cardinality(S)
<1> DEFINE I == 1 .. Len(s)
<1>1. s \in [I -> S] /\ Len(s) \in Nat /\ \A n \in I : s[n] \in Nat
    BY DEF Enumerates
<1>2. IsFiniteSet(I) /\ Cardinality(I) = Len(s)
    <2>1. \A n \in Nat : IsFiniteSet(1 .. n) /\ Cardinality(1 .. n) = n
        BY FS_Interval
    <2> QED
        BY <1>1, <2>1
<1>3. \A m, n \in I : s[m] = s[n] => m = n
    <2> SUFFICES ASSUME NEW m \in I, NEW n \in I, s[m] = s[n] PROVE m = n
        OBVIOUS
    <2>1. m < n => s[m] < s[n]
        BY DEF Enumerates
    <2>2. n < m => s[n] < s[m]
        BY DEF Enumerates
    <2> QED
        BY <1>1, <2>1, <2>2
<1>4. \A x \in S : \E n \in I : s[n] = x
    BY DEF Enumerates
<1> HIDE DEF I
<1>5. s \in Surjection(I, S)
    BY <1>1, <1>4 DEF Surjection
<1>6. s \in Injection(I, S)
    BY <1>1, <1>3 DEF Injection, IsInjective
<1>7. IsFiniteSet(S) /\ (Cardinality(S) = Cardinality(I) <=> s \in Injection(I, S))
    BY <1>2, <1>5, FS_Surjection
<1> QED
    BY <1>2, <1>6, <1>7

\* As many increasing elements as there are enumerate them all.
LEMMA EnumerationByLength ==
    ASSUME NEW S, S \subseteq Nat, IsFiniteSet(S), NEW s \in [1 .. Cardinality(S) -> S],
           \A m, n \in DOMAIN s : m < n => s[m] < s[n]
    PROVE  Enumerates(s, S)
<1> DEFINE N == Cardinality(S)
           I == 1 .. N
<1>1. N \in Nat /\ s \in [I -> S] /\ DOMAIN s = I
    BY FS_CardinalityType
<1>2. IsFiniteSet(I) /\ Cardinality(I) = N
    <2>1. \A n \in Nat : IsFiniteSet(1 .. n) /\ Cardinality(1 .. n) = n
        BY FS_Interval
    <2> QED
        BY <1>1, <2>1
<1>3. s \in Seq(Nat) /\ Len(s) = N
    <2> HIDE DEF N
    <2>1. s \in [1 .. N -> Nat]
        BY <1>1
    <2> QED
        BY <1>1, <2>1
<1>4. \A m, n \in I : s[m] = s[n] => m = n
    <2> SUFFICES ASSUME NEW m \in I, NEW n \in I, s[m] = s[n] PROVE m = n
        OBVIOUS
    <2>0. m \in Nat /\ n \in Nat
        OBVIOUS
    <2>1. (m < n => s[m] < s[n]) /\ (n < m => s[n] < s[m])
        BY <1>1
    <2> HIDE DEF I, N
    <2>2. s[m] \in S /\ s[n] \in S
        BY <1>1
    <2>3. s[m] \in Nat /\ s[n] \in Nat
        BY <2>2
    <2> QED
        BY <2>0, <2>1, <2>3
<1> HIDE DEF I, N
<1>5. s \in Injection(I, S)
    BY <1>1, <1>4 DEF Injection, IsInjective
<1>6. s \in Surjection(I, S)
    BY <1>2, <1>5, FS_Injection DEF N
<1>7. \A x \in S : \E n \in I : s[n] = x
    BY <1>6 DEF Surjection
<1> QED
    BY <1>1, <1>3, <1>7 DEF Enumerates, I

\* What is enumerated at all is enumerated by InOrder, and by nothing else.
LEMMA InOrderIs ==
    ASSUME NEW S, NEW s, Enumerates(s, S)
    PROVE  InOrder(S) = s
<1> DEFINE Increasing(t) == \A m, n \in DOMAIN t : m < n => t[m] < t[n]
<1>1. IsFiniteSet(S) /\ Len(s) = Cardinality(S) /\ S \subseteq Nat
    BY EnumerationLength DEF Enumerates
<1>2. s \in [1 .. Cardinality(S) -> S] /\ Increasing(s)
    BY <1>1 DEF Enumerates
<1>3. InOrder(S) \in [1 .. Cardinality(S) -> S] /\ Increasing(InOrder(S))
    BY <1>2 DEF InOrder
<1>4. Enumerates(InOrder(S), S)
    BY <1>1, <1>3, EnumerationByLength
<1> QED
    BY <1>4, EnumerationUnique
\* A greater element goes to the end, a lesser one to the front.
LEMMA EnumerationGrows ==
    ASSUME NEW S, NEW s, Enumerates(s, S), NEW m \in Nat, \A x \in S : x < m
    PROVE  Enumerates(Append(s, m), S \cup {m})
<1> DEFINE t == Append(s, m)
           N == Len(s)
<1>1. s \in Seq(Nat) /\ N \in Nat
    BY DEF Enumerates
<1>2. t \in Seq(Nat) /\ Len(t) = N + 1 /\ t[N + 1] = m /\ \A n \in 1 .. N : t[n] = s[n]
    BY <1>1, AppendProperties
<1> HIDE DEF t
<1>3. \A n \in 1 .. N : s[n] \in S /\ s[n] \in Nat /\ s[n] < m
    BY <1>1 DEF Enumerates
<1>4. ASSUME NEW j \in 1 .. Len(t), NEW k \in 1 .. Len(t), j < k PROVE t[j] < t[k]
    <2>1. j \in 1 .. N
        BY <1>1, <1>2, <1>4
    <2>2. CASE k = N + 1
        BY <1>2, <1>3, <2>1, <2>2
    <2>3. CASE k # N + 1
        <3>1. k \in 1 .. N
            BY <1>1, <1>2, <2>3
        <3>2. s[j] < s[k]
            BY <1>4, <2>1, <3>1 DEF Enumerates
        <3> QED
            BY <1>2, <2>1, <3>1, <3>2
    <2> QED
        BY <2>2, <2>3
<1>5. \A n \in 1 .. Len(t) : t[n] \in S \cup {m}
    <2> SUFFICES ASSUME NEW n \in 1 .. Len(t) PROVE t[n] \in S \cup {m}
        OBVIOUS
    <2>1. n \in 1 .. N \/ n = N + 1
        BY <1>1, <1>2
    <2> QED
        BY <1>2, <1>3, <2>1
<1>6. \A x \in S \cup {m} : \E n \in 1 .. Len(t) : t[n] = x
    <2>1. N + 1 \in 1 .. Len(t)
        BY <1>1, <1>2
    <2>2. ASSUME NEW x \in S PROVE \E n \in 1 .. Len(t) : t[n] = x
        <3>1. PICK n \in 1 .. N : s[n] = x
            BY DEF Enumerates
        <3>2. n \in 1 .. Len(t)
            BY <1>1, <1>2
        <3> QED
            BY <1>2, <3>1, <3>2
    <2> QED
        BY <1>2, <2>1, <2>2
<1>7. Enumerates(t, S \cup {m})
    BY <1>2, <1>4, <1>5, <1>6 DEF Enumerates
<1> QED
    BY <1>7 DEF t

LEMMA EnumerationSplits ==
    ASSUME NEW S, NEW s, Enumerates(s, S), s # <<>>
    PROVE  /\ Head(s) \in S
           /\ \A x \in S \ {Head(s)} : Head(s) < x
           /\ Enumerates(Tail(s), S \ {Head(s)})
<1> DEFINE t == Tail(s)
           h == Head(s)
           N == Len(s)
<1>1. s \in Seq(Nat) /\ N \in Nat
    BY DEF Enumerates
<1>2. /\ N \in Nat \ {0} /\ h = s[1]
      /\ t \in Seq(Nat) /\ Len(t) = N - 1 /\ \A n \in 1 .. Len(t) : t[n] = s[n + 1]
    <2> HIDE DEF t, h
    <2>1. N # 0
        BY <1>1, EmptySeq
    <2> QED
        BY <1>1, <2>1, HeadTailProperties DEF t, h
<1> HIDE DEF t, h
<1>3. 1 \in 1 .. N
    BY <1>2
<1>4. h \in S
    BY <1>2, <1>3 DEF Enumerates
<1>5. ASSUME NEW n \in 1 .. Len(t)
      PROVE  n + 1 \in 1 .. N /\ t[n] = s[n + 1] /\ t[n] \in S /\ h < t[n]
    <2>1. n + 1 \in 1 .. N /\ 1 < n + 1
        BY <1>2
    <2>2. s[n + 1] \in S /\ s[1] < s[n + 1]
        BY <1>3, <2>1 DEF Enumerates
    <2> QED
        BY <1>2, <2>1, <2>2
<1>6. ASSUME NEW x \in S \ {h} PROVE \E n \in 1 .. Len(t) : t[n] = x
    <2>1. PICK k \in 1 .. N : s[k] = x
        BY DEF Enumerates
    <2>2. k # 1
        BY <1>2, <2>1
    <2>3. k - 1 \in 1 .. Len(t) /\ (k - 1) + 1 = k
        BY <1>2, <2>2
    <2> QED
        BY <1>2, <2>1, <2>3
<1>7. \A x \in S \ {h} : h < x
    BY <1>5, <1>6
<1>8. ASSUME NEW j \in 1 .. Len(t), NEW k \in 1 .. Len(t), j < k PROVE t[j] < t[k]
    <2>1. j + 1 \in 1 .. N /\ k + 1 \in 1 .. N /\ j + 1 < k + 1
        BY <1>2, <1>8
    <2>2. s[j + 1] < s[k + 1]
        BY <2>1 DEF Enumerates
    <2> QED
        BY <1>2, <2>2
<1>9. \A n \in 1 .. Len(t) : t[n] \in S \ {h}
    <2> SUFFICES ASSUME NEW n \in 1 .. Len(t) PROVE t[n] \in S \ {h}
        OBVIOUS
    <2>1. t[n] \in Nat /\ h \in Nat
        BY <1>1, <1>2, <1>3, ElementOfSeq
    <2> QED
        BY <1>5, <2>1
<1>10. Enumerates(t, S \ {h})
    BY <1>2, <1>6, <1>8, <1>9 DEF Enumerates
<1> QED
    BY <1>4, <1>7, <1>10 DEF t, h

LEMMA EnumerationOfNothing ==
    ASSUME NEW s
    PROVE  Enumerates(s, {}) <=> s = <<>>
<1>1. Enumerates(<<>>, {})
    BY DEF Enumerates
<1>2. ASSUME Enumerates(s, {}) PROVE s = <<>>
    BY <1>1, <1>2, EnumerationUnique
<1> QED
    BY <1>1, <1>2

\* Revisions up to any one can be enumerated.
LEMMA EnumerationExists ==
    ASSUME NEW n \in Nat, NEW S, S \subseteq 1 .. n
    PROVE  \E s : Enumerates(s, S)
<1> DEFINE Bad == {k \in Nat : \E T : T \subseteq 1 .. k /\ ~ \E s : Enumerates(s, T)}
<1> SUFFICES ASSUME Bad # {} PROVE FALSE
    OBVIOUS
<1>1. PICK k \in Bad : \A j \in Bad : k <= j
    <2>1. Bad \subseteq Nat
        OBVIOUS
    <2> HIDE DEF Bad
    <2> QED
        BY <2>1, LeastOfNat
<1>2. PICK T : T \subseteq 1 .. k /\ ~ \E s : Enumerates(s, T)
    OBVIOUS
<1>3. T # {}
    BY <1>2, EnumerationOfNothing
<1>4. k \in Nat \ {0}
    <2>1. k \in Nat
        OBVIOUS
    <2> HIDE DEF Bad
    <2>2. PICK x \in T : x \in 1 .. k
        BY <1>2, <1>3
    <2> QED
        BY <2>1, <2>2
<1>5. k - 1 \notin Bad
    BY <1>1, <1>4
<1>6. T \ {k} \subseteq 1 .. (k - 1)
    BY <1>2, <1>4
<1>7. PICK t : Enumerates(t, T \ {k})
    BY <1>4, <1>5, <1>6
<1>8. k \in T
    <2> SUFFICES ASSUME k \notin T PROVE FALSE
        OBVIOUS
    <2>1. T \ {k} = T
        OBVIOUS
    <2> QED
        BY <1>2, <1>7, <2>1
<1>9. \A x \in T \ {k} : x < k
    BY <1>4, <1>6
<1>10. Enumerates(Append(t, k), (T \ {k}) \cup {k})
    BY <1>4, <1>7, <1>9, EnumerationGrows
<1>11. (T \ {k}) \cup {k} = T
    BY <1>8
<1> QED
    BY <1>2, <1>10, <1>11

\* What InOrder is for sets of revisions.
LEMMA InOrderEnumerates ==
    ASSUME NEW n \in Nat, NEW S, S \subseteq 1 .. n
    PROVE  Enumerates(InOrder(S), S)
<1>1. PICK s : Enumerates(s, S)
    BY EnumerationExists
<1> QED
    BY <1>1, InOrderIs

LEMMA InOrderEmpty == InOrder({}) = <<>>
<1>1. Enumerates(<<>>, {})
    BY EnumerationOfNothing
<1> QED
    BY <1>1, InOrderIs

LEMMA InOrderType ==
    ASSUME NEW n \in Nat, NEW S, S \subseteq 1 .. n
    PROVE  InOrder(S) \in Seq(1 .. n)
<1>1. Enumerates(InOrder(S), S)
    BY InOrderEnumerates
<1> DEFINE s == InOrder(S)
<1> HIDE DEF s
<1>2. s \in Seq(Nat) /\ Len(s) \in Nat /\ \A m \in 1 .. Len(s) : s[m] \in 1 .. n
    BY <1>1 DEF Enumerates, s
<1> QED
    BY <1>2 DEF s

LEMMA InOrderAppend ==
    ASSUME NEW n \in Nat, NEW S, S \subseteq 1 .. n
    PROVE  InOrder(S \cup {n + 1}) = Append(InOrder(S), n + 1)
<1>1. Enumerates(InOrder(S), S)
    BY InOrderEnumerates
<1>2. n + 1 \in Nat /\ \A x \in S : x < n + 1
    OBVIOUS
<1>3. Enumerates(Append(InOrder(S), n + 1), S \cup {n + 1})
    BY <1>1, <1>2, EnumerationGrows
<1> QED
    BY <1>3, InOrderIs

LEMMA InOrderSplits ==
    ASSUME NEW n \in Nat, NEW S, S \subseteq 1 .. n, InOrder(S) # <<>>
    PROVE  /\ Head(InOrder(S)) \in S
           /\ \A x \in S \ {Head(InOrder(S))} : Head(InOrder(S)) < x
           /\ Tail(InOrder(S)) = InOrder(S \ {Head(InOrder(S))})
<1>1. Enumerates(InOrder(S), S)
    BY InOrderEnumerates
<1> DEFINE s == InOrder(S)
<1> HIDE DEF s
<1>2. /\ Head(s) \in S
      /\ \A x \in S \ {Head(s)} : Head(s) < x
      /\ Enumerates(Tail(s), S \ {Head(s)})
    BY <1>1, EnumerationSplits DEF s
<1>3. Tail(s) = InOrder(S \ {Head(s)})
    BY <1>2, InOrderIs
<1> QED
    BY <1>2, <1>3 DEF s

\* The least first.
LEMMA InOrderLeast ==
    ASSUME NEW n \in Nat, NEW S, S \subseteq 1 .. n, NEW h \in S, \A x \in S \ {h} : h < x
    PROVE  InOrder(S) = <<h>> \o InOrder(S \ {h})
<1>1. InOrder(S) # <<>>
    <2>1. Enumerates(InOrder(S), S)
        BY InOrderEnumerates
    <2> QED
        BY <2>1, EnumerationOfNothing DEF Enumerates
<1> DEFINE s == InOrder(S)
           g == Head(s)
<1>2. g \in S /\ (\A x \in S \ {g} : g < x) /\ Tail(s) = InOrder(S \ {g})
    BY <1>1, InOrderSplits
<1>3. s \in Seq(1 .. n) /\ s # <<>>
    BY <1>1, InOrderType
<1>4. g = h
    <2> HIDE DEF g
    <2>1. g \in Nat /\ h \in Nat
        BY <1>2
    <2>2. g # h => g < h /\ h < g
        BY <1>2
    <2> QED
        BY <2>1, <2>2
<1> HIDE DEF s
<1>5. s = <<Head(s)>> \o Tail(s)
    BY <1>3, HeadAndTail
<1> QED
    BY <1>2, <1>4, <1>5 DEF s

-----------------------------------------------------------------------------
(* The greatest revision. *)

LEMMA MaxIs ==
    ASSUME NEW n \in Nat, NEW S, S \subseteq 1 .. n, S # {}
    PROVE  Max(S) \in S /\ \A x \in S : Max(S) >= x
<1>1. IsFiniteSet(S)
    BY EnumerationExists, EnumerationLength
<1> DEFINE T == {k \in 0 .. n : \A x \in S : x <= k}
<1>2. n \in T /\ T \subseteq Nat
    OBVIOUS
<1>3. PICK k \in T : \A j \in T : k <= j
    <2> HIDE DEF T
    <2> QED
        BY <1>2, LeastOfNat
<1>4. k \in S
    <2> SUFFICES ASSUME k \notin S PROVE FALSE
        OBVIOUS
    <2>1. PICK x \in S : TRUE
        OBVIOUS
    <2>2. k \in Nat /\ k # 0
        BY <2>1
    <2>3. \A y \in S : y <= k - 1
        BY <2>2
    <2>4. k - 1 \in T
        BY <2>2, <2>3
    <2> QED
        BY <1>3, <2>2, <2>4
<1> QED
    BY <1>4 DEF Max
-----------------------------------------------------------------------------
(* What the steps do to the bucket and to its reader. *)

\* What a write stores, and what of it a watcher is sent.
Stores(e) ==
    /\ Len(log) < MaxWrites
    /\ log' = Append(log, e)
    /\ below' = IF reader = "watch" /\ ~stopped /\ MatchesOne(patterns, e.key)
                THEN Append(below, Len(log) + 1) ELSE below
    /\ UNCHANGED <<codec, reader, filters, patterns, since, stopped, pump, held, out, received>>

LEMMA WritingStores ==
    ASSUME Writing
    PROVE  \E e \in Entries(codec) : Stores(e)
<1>1. ASSUME NEW key \in Keys, NEW op \in Writes,
             Write(EncodeKey(codec, key), key, op, ValueOf(codec, op))
      PROVE  \E e \in Entries(codec) : Stores(e)
    <2> DEFINE e == [key |-> EncodeKey(codec, key), by |-> key, op |-> op,
                     value |-> ValueOf(codec, op)]
    <2>1. e \in Entries(codec)
        BY DEF Entries
    <2>2. e.key = EncodeKey(codec, key)
        OBVIOUS
    <2>3. Stores(e)
        BY <1>1, <2>2 DEF Write, Stores
    <2> QED
        BY <2>1, <2>3
<1>2. ASSUME NEW key \in ForeignKeys, Foreign(key)
      PROVE  \E e \in Entries(codec) : Stores(e)
    <2> DEFINE e == [key |-> key, by |-> <<>>, op |-> "put", value |-> <<>>]
    <2>1. e \in Entries(codec)
        BY DEF Entries
    <2>2. Stores(e)
        BY <1>2 DEF Foreign, Write, Stores
    <2> QED
        BY <2>1, <2>2
<1>3. {"put", "delete", "purge"} \subseteq Writes
    BY DEF Writes
<1>4. ASSUME NEW key \in Keys, Put(key) PROVE \E e \in Entries(codec) : Stores(e)
    BY <1>1, <1>3, <1>4 DEF Put
<1>5. ASSUME NEW key \in Keys, Delete(key) PROVE \E e \in Entries(codec) : Stores(e)
    BY <1>1, <1>3, <1>5 DEF Delete
<1>6. ASSUME NEW key \in Keys, Purge(key) PROVE \E e \in Entries(codec) : Stores(e)
    BY <1>1, <1>3, <1>6 DEF Purge
<1>7. \A key \in Keys :
          /\ Create(key) => Put(key)
          /\ \A i \in DOMAIN log : Update(key, i) => Put(key)
    BY DEF Create, Update
<1> QED
    BY <1>2, <1>4, <1>5, <1>6, <1>7 DEF Writing

\* What the bucket below is asked, for what a reader asked.
Asked(fs, ps) ==
    \/ fs \in Filters /\ Kept(codec, fs) /\ ps = Patterns(codec, fs)
    \/ fs = Everything /\ ps = Everything

Reading ==
    \/ \E fs \in Filters : Refuse(fs)
    \/ \E fs, ps : Asked(fs, ps) /\ (StartWatch(fs, ps) \/ StartList(fs, ps))

LEMMA StepsAre ==
    ASSUME Next
    PROVE  \/ \E e \in Entries(codec) : Stores(e)
           \/ Reading
           \/ Stop \/ PumpReads \/ PumpSends \/ PumpEnds \/ CallerReads
<1>1. ASSUME NEW fs \in Filters, WatchFiltered(fs) \/ ListKeysFiltered(fs) PROVE Reading
    BY <1>1, Zenon DEF WatchFiltered, ListKeysFiltered, Reading, Asked
<1>2. WatchAll \/ ListKeys => Reading
    BY Zenon DEF WatchAll, ListKeys, Reading, Asked
<1> QED
    BY <1>1, <1>2, WritingStores DEF Next

-----------------------------------------------------------------------------
(* Type correctness. *)

LEMMA InitialAre ==
    ASSUME NEW ps, log \in Seq(Entries(codec))
    PROVE  Len(log) \in Nat /\ Initial(ps) \subseteq 1 .. Len(log)
BY DEF Initial

LEMMA TypeInit == Init => TypeOK
<1> SUFFICES ASSUME Init PROVE TypeOK
    OBVIOUS
<1>1. log = <<>> /\ Len(log) = 0 /\ 0 <= MaxWrites /\ 0 <= Buffer
    BY KVCodecAssumption DEF Init
<1>2. log \in Seq(Entries(codec)) /\ {below, out, received} \subseteq Seq(0 .. Len(log))
    BY DEF Init
<1>3. Len(out) <= Buffer /\ since \in 0 .. Len(log) /\ held \in 0 .. Len(log)
    BY <1>1 DEF Init
<1> QED
    BY <1>1, <1>2, <1>3 DEF Init, TypeOK

LEMMA TypeStep == TypeOK /\ [Next]_vars => TypeOK'
<1> SUFFICES ASSUME TypeOK, [Next]_vars PROVE TypeOK'
    OBVIOUS
<1> DEFINE N == Len(log)
<1>1. /\ log \in Seq(Entries(codec)) /\ N \in Nat /\ N <= MaxWrites
      /\ below \in Seq(0 .. N) /\ out \in Seq(0 .. N) /\ received \in Seq(0 .. N)
      /\ held \in 0 .. N /\ since \in 0 .. N
      /\ Buffer \in Nat \ {0} /\ MaxWrites \in Nat
    BY KVCodecAssumption DEF TypeOK
<1>2. CASE UNCHANGED vars
    BY <1>2 DEF TypeOK, vars, watcher
<1>3. ASSUME NEW e \in Entries(codec), Stores(e) PROVE TypeOK'
    <2>1. /\ log' \in Seq(Entries(codec)) /\ Len(log') = N + 1
        BY <1>1, <1>3 DEF Stores
    <2>2. N + 1 <= MaxWrites
        BY <1>1, <1>3 DEF Stores
    <2>3. 0 .. N \subseteq 0 .. N + 1 /\ N + 1 \in 0 .. N + 1
        BY <1>1
    <2> HIDE DEF N
    <2>4. Seq(0 .. N) \subseteq Seq(0 .. N + 1)
        BY <2>3, SeqOfMore
    <2>5. below' \in Seq(0 .. N + 1)
        <3>1. below \in Seq(0 .. N + 1)
            BY <1>1, <2>4
        <3>2. below' = below \/ below' = Append(below, N + 1)
            BY <1>3 DEF Stores, N
        <3> QED
            BY <2>3, <3>1, <3>2
    <2>6. {below', out', received'} \subseteq Seq(0 .. N + 1)
        BY <1>1, <1>3, <2>4, <2>5 DEF Stores
    <2>7. held' \in 0 .. N + 1 /\ since' \in 0 .. N + 1
        BY <1>1, <1>3, <2>3 DEF Stores
    <2> QED
        BY <1>3, <2>1, <2>2, <2>6, <2>7 DEF Stores, TypeOK
<1>4. ASSUME NEW fs, Refuse(fs) PROVE TypeOK'
    BY <1>4 DEF Refuse, TypeOK
<1>5. ASSUME NEW S, S \subseteq 1 .. N
      PROVE  InOrder(S) \in Seq(0 .. N)
    <2>1. InOrder(S) \in Seq(1 .. N)
        BY <1>1, <1>5, InOrderType
    <2>2. 1 .. N \subseteq 0 .. N
        BY <1>1
    <2> HIDE DEF N
    <2>3. Seq(1 .. N) \subseteq Seq(0 .. N)
        BY <2>2, SeqOfMore
    <2> QED
        BY <2>1, <2>3
<1>6. ASSUME NEW fs, NEW ps, StartWatch(fs, ps) PROVE TypeOK'
    <2>1. InOrder(Initial(ps)) \in Seq(0 .. N)
        BY <1>1, <1>5, InitialAre
    <2>2. below' \in Seq(0 .. N)
        BY <1>1, <1>6, <2>1 DEF StartWatch
    <2> QED
        BY <1>1, <1>6, <2>2 DEF StartWatch, TypeOK
<1>7. ASSUME NEW fs, NEW ps, StartList(fs, ps) PROVE TypeOK'
    <2>1. {i \in Initial(ps) : Live(i)} \subseteq 1 .. N
        BY <1>1, InitialAre
    <2>2. below' \in Seq(0 .. N)
        BY <1>5, <1>7, <2>1 DEF StartList
    <2> QED
        BY <1>1, <1>7, <2>2 DEF StartList, TypeOK
<1>8. CASE Stop
    BY <1>8 DEF Stop, TypeOK
<1>9. CASE PumpReads
    <2>1. Head(below) \in 0 .. N /\ Tail(below) \in Seq(0 .. N)
        BY <1>1, <1>9, HeadTailProperties DEF PumpReads
    <2>2. held' \in 0 .. N /\ below' \in Seq(0 .. N)
        BY <1>1, <1>9, <2>1 DEF PumpReads
    <2> QED
        BY <1>9, <2>2 DEF PumpReads, TypeOK
<1>10. CASE PumpSends
    <2> HIDE DEF N
    <2>0. Append(out, held) \in Seq(0 .. N) /\ Append(received, held) \in Seq(0 .. N)
        BY <1>1, AppendProperties
    <2>1. out' \in Seq(0 .. N) /\ received' \in Seq(0 .. N)
        BY <1>1, <1>10, <2>0 DEF PumpSends
    <2>2. Len(out') <= Buffer
        <3>1. CASE out' = out
            BY <1>10, <3>1 DEF TypeOK
        <3>2. CASE out' = Append(out, held) /\ Len(out) < Buffer
            <4>1. Len(out') = Len(out) + 1 /\ Len(out) \in Nat
                BY <1>1, <3>2, AppendProperties, LenProperties
            <4> QED
                BY <1>1, <3>2, <4>1
        <3> QED
            BY <1>10, <3>1, <3>2 DEF PumpSends
    <2> QED
        BY <1>10, <2>1, <2>2 DEF PumpSends, TypeOK, N
<1>11. CASE PumpEnds
    BY <1>11 DEF PumpEnds, TypeOK
<1>12. CASE CallerReads
    <2> HIDE DEF N
    <2>1. out' \in Seq(0 .. N) /\ received' \in Seq(0 .. N) /\ Len(out') <= Len(out)
        BY <1>1, <1>12, HeadTailProperties DEF CallerReads
    <2>2. Len(out') <= Buffer
        BY <1>1, <2>1 DEF TypeOK
    <2> QED
        BY <1>12, <2>1, <2>2 DEF CallerReads, TypeOK, N
<1> QED
    BY <1>2, <1>3, <1>4, <1>6, <1>7, <1>8, <1>9, <1>10, <1>11, <1>12, StepsAre DEF Reading

(* Every variable of the bucket and of its reader has a value of its type, *)
(* and no channel holds anything but revisions and the mark.               *)
THEOREM KVTypeCorrect == Spec => []TypeOK
<1>1. Init => TypeOK
    BY TypeInit
<1>2. TypeOK /\ [Next]_vars => TypeOK'
    BY TypeStep
<1> QED
    BY <1>1, <1>2, PTL DEF Spec
-----------------------------------------------------------------------------
(* What faithful codecs make of the entries of a bucket. *)

LEMMA EntriesAreStored ==
    ASSUME TypeOK
    PROVE  /\ Len(log) \in Nat /\ DOMAIN log = 1 .. Len(log)
           /\ \A i \in DOMAIN log : log[i] \in Entries(codec)
<1>1. log \in Seq(Entries(codec))
    BY DEF TypeOK
<1> QED
    BY <1>1

LEMMA FaithfulSays ==
    ASSUME Faithful(codec)
    PROVE  /\ \A d, e \in Entries(codec) :
                /\ d.key = e.key <=> Meant(codec, d) = Meant(codec, e)
                /\ d.key = e.key => (d.by = <<>> <=> e.by = <<>>)
           /\ \A e \in Entries(codec) :
                /\ DecodeKey(codec, e.key).ok <=> Readable(codec, e)
                /\ Readable(codec, e) =>
                       Name(codec, DecodeKey(codec, e.key).key) = Meant(codec, e)
                /\ e.by # <<>> => ValueRead(codec, e.value) = <<>>
BY Zenon DEF Faithful

\* The entries under a caller's key are those that were written under that key.
LEMMA StoredUnderKey ==
    ASSUME TypeOK, Faithful(codec), NEW key \in Keys, NEW i \in DOMAIN log
    PROVE  log[i].key = EncodeKey(codec, key)
               <=> log[i].by # <<>> /\ Meant(codec, log[i]) = Name(codec, key)
<1> DEFINE e == [key |-> EncodeKey(codec, key), by |-> key, op |-> "put",
                 value |-> ValueOf(codec, "put")]
<1>1. e \in Entries(codec) /\ log[i] \in Entries(codec)
    BY EntriesAreStored DEF Entries, Writes
<1>2. e.key = EncodeKey(codec, key) /\ e.by = key /\ e.by # <<>>
    BY KVCodecAssumption
<1>3. Meant(codec, e) = Name(codec, key)
    BY <1>2 DEF Meant
<1> HIDE DEF e
<1>4. /\ log[i].key = e.key <=> Meant(codec, log[i]) = Meant(codec, e)
      /\ log[i].key = e.key => (log[i].by = <<>> <=> e.by = <<>>)
    BY <1>1, FaithfulSays
<1> QED
    BY <1>2, <1>3, <1>4

LEMMA FaithfulGets ==
    ASSUME TypeOK, Faithful(codec)
    PROVE  GetsItsKey
<1> SUFFICES ASSUME NEW key \in Keys
    PROVE  LET mine == {i \in DOMAIN log : /\ log[i].by # <<>>
                                          /\ Meant(codec, log[i]) = Name(codec, key)}
               purges == {i \in mine : log[i].op = "purge"}
           IN  /\ Get(key) = IF mine = {} \/ log[Max(mine)].op # "put" THEN 0 ELSE Max(mine)
               /\ {i \in DOMAIN log : GetRevision(key, i)} =
                      {i \in mine : log[i].op = "put" /\ \A p \in purges : i > p}
               /\ History(key) = {i \in mine : \A p \in purges : i >= p}
    BY DEF GetsItsKey
<1> DEFINE enc == EncodeKey(codec, key)
           mine == {i \in DOMAIN log : /\ log[i].by # <<>>
                                       /\ Meant(codec, log[i]) = Name(codec, key)}
           purges == {i \in mine : log[i].op = "purge"}
<1>1. Len(log) \in Nat /\ mine \subseteq 1 .. Len(log) /\ purges \subseteq 1 .. Len(log)
    BY EntriesAreStored
<1>2. \A i \in DOMAIN log : log[i].key = enc <=> i \in mine
    BY StoredUnderKey
<1>3. {i \in DOMAIN log : log[i].key = enc} = mine
    BY <1>2
<1>4. purges = {i \in DOMAIN log : log[i].key = enc /\ log[i].op = "purge"}
    BY <1>2
<1>5. LastOf(enc) = Last0(mine)
    BY <1>3 DEF LastOf
<1>7. History(key) = {i \in mine : i >= Last0(purges)}
    <2>1. History(key) = {i \in DOMAIN log : log[i].key = enc /\ i >= Last0(purges)}
        BY <1>4 DEF History
    <2> QED
        BY <1>2, <2>1
<1>8. mine \subseteq DOMAIN log /\ \A p \in purges : log[p].op = "purge"
    OBVIOUS
<1> HIDE DEF mine, purges, enc
<1>9. ASSUME NEW i \in mine
      PROVE  i >= Last0(purges) <=> \A p \in purges : i >= p
    <2>1. i \in Nat /\ purges \subseteq Nat
        BY <1>1
    <2>2. CASE purges = {}
        BY <2>1, <2>2 DEF Last0
    <2>3. CASE purges # {}
        <3>1. Max(purges) \in purges /\ \A p \in purges : Max(purges) >= p
            BY <1>1, <2>3, MaxIs
        <3>2. Last0(purges) = Max(purges)
            BY <2>3 DEF Last0
        <3> DEFINE m == Max(purges)
        <3> HIDE DEF m
        <3>3. m \in Nat /\ m \in purges /\ (\A p \in purges : m >= p) /\ Last0(purges) = m
            BY <2>1, <3>1, <3>2 DEF m
        <3> QED
            BY <2>1, <3>3
    <2> QED
        BY <2>2, <2>3
<1>10. Get(key) = IF mine = {} \/ log[Max(mine)].op # "put" THEN 0 ELSE Max(mine)
    <2>1. CASE mine = {}
        <3>1. LastOf(enc) = 0
            BY <1>5, <2>1 DEF Last0
        <3>2. ~Found(key)
            BY <3>1 DEF Found, enc
        <3> QED
            BY <2>1, <3>2 DEF Get
    <2>2. CASE mine # {}
        <3>1. Max(mine) \in mine
            BY <1>1, <2>2, MaxIs
        <3>2. LastOf(enc) = Max(mine)
            BY <1>5, <2>2 DEF Last0
        <3>3. Max(mine) # 0 /\ log[Max(mine)].key = enc
            BY <1>1, <1>2, <1>8, <3>1
        <3>4. Found(key) <=> log[Max(mine)].op = "put"
            BY <3>2, <3>3 DEF Found, Live, enc
        <3> QED
            BY <2>2, <3>2, <3>4 DEF Get, enc
    <2> QED
        BY <2>1, <2>2
<1>11. History(key) = {i \in mine : \A p \in purges : i >= p}
    BY <1>7, <1>9
<1>12. {i \in DOMAIN log : GetRevision(key, i)} =
           {i \in mine : log[i].op = "put" /\ \A p \in purges : i > p}
    <2>1. \A i \in DOMAIN log : GetRevision(key, i) <=>
              i \in mine /\ log[i].op = "put" /\ \A p \in purges : i >= p
        BY <1>8, <1>11 DEF GetRevision
    <2>2. ASSUME NEW i \in mine, log[i].op = "put"
          PROVE  (\A p \in purges : i >= p) <=> (\A p \in purges : i > p)
        <3>1. \A p \in purges : p # i /\ p \in Nat /\ i \in Nat
            BY <1>1, <1>8, <2>2
        <3> QED
            BY <3>1
    <2> QED
        BY <1>8, <2>1, <2>2
<1> QED
    BY <1>12, <1>10, <1>11 DEF mine, purges

LEMMA FaithfulLists ==
    ASSUME TypeOK, Faithful(codec)
    PROVE  KeysAllOrNone
<1> DEFINE live == {i \in DOMAIN log : Live(i)}
           named(i) == DecodeKey(codec, log[i].key)
           decoded == {named(i) : i \in live}
<1>1. KeyList = IF \E k \in decoded : ~k.ok THEN Undecodable
                ELSE [ok |-> TRUE, keys |-> {k.key : k \in decoded}]
    BY DEF KeyList
<1>2. ASSUME NEW i \in live
      PROVE  /\ log[i] \in Entries(codec)
             /\ named(i).ok <=> Readable(codec, log[i])
             /\ Readable(codec, log[i]) => Name(codec, named(i).key) = Meant(codec, log[i])
    BY EntriesAreStored, FaithfulSays
<1>3. (\E k \in decoded : ~k.ok) <=> ~ \A i \in live : Readable(codec, log[i])
    BY <1>2
<1>4. IsFiniteSet(live)
    <2>1. Len(log) \in Nat /\ live \subseteq 1 .. Len(log)
        BY EntriesAreStored
    <2> HIDE DEF live
    <2> QED
        BY <2>1, InOrderEnumerates, EnumerationLength
<1>5. ASSUME NEW i \in live, NEW j \in live, log[i].key = log[j].key
      PROVE  i = j
    BY <1>5 DEF Live
<1>6. CASE \E i \in live : ~Readable(codec, log[i])
    <2>1. KeyList = Undecodable
        BY <1>1, <1>3, <1>6
    <2>2. ~KeyList.ok
        BY <2>1 DEF Undecodable
    <2> QED
        BY <1>6, <2>2 DEF KeysAllOrNone
<1>7. CASE \A i \in live : Readable(codec, log[i])
    <2> DEFINE keys == {k.key : k \in decoded}
    <2>1. KeyList.ok /\ KeyList.keys = keys
        BY <1>1, <1>3, <1>7
    <2>2. {Name(codec, k) : k \in keys} = {Meant(codec, log[i]) : i \in live}
        <3>1. keys = {named(i).key : i \in live}
            OBVIOUS
        <3>2. \A i \in live : Name(codec, named(i).key) = Meant(codec, log[i])
            BY <1>2, <1>7
        <3> HIDE DEF keys, live
        <3> QED
            BY <3>1, <3>2
    <2>3. ASSUME NEW i \in live, NEW j \in live, named(i).key = named(j).key
          PROVE  i = j
        <3>1. Meant(codec, log[i]) = Meant(codec, log[j])
            BY <1>2, <1>7, <2>3
        <3>2. log[i].key = log[j].key
            BY <1>2, <3>1, FaithfulSays
        <3> QED
            BY <1>5, <3>2
    <2> DEFINE f == [i \in live |-> named(i).key]
    <2>4. f \in [live -> keys] /\ \A i \in live : f[i] = named(i).key
        OBVIOUS
    <2>5. \A k \in keys : \E i \in live : f[i] = k
        OBVIOUS
    <2> HIDE DEF live, keys, f, named
    <2>6. f \in Surjection(live, keys)
        BY <2>4, <2>5 DEF Surjection
    <2>7. f \in Injection(live, keys)
        BY <2>3, <2>4 DEF Injection, IsInjective
    <2>8. Cardinality(keys) = Cardinality(live)
        BY <1>4, <2>6, <2>7, FS_Surjection
    <2> QED
        BY <1>7, <2>1, <2>2, <2>8 DEF KeysAllOrNone, live
<1> QED
    BY <1>6, <1>7
-----------------------------------------------------------------------------
(* What a reader has got, what is under way to it, and what it is due. *)

LEMMA FaithfulMatches ==
    ASSUME Faithful(codec), NEW e \in Entries(codec), NEW fs, NEW ps, Asked(fs, ps)
    PROVE  MatchesOne(ps, e.key) <=> Wanted(codec, fs, e)
<1> DEFINE asked == {[filters |-> gs, patterns |-> Patterns(codec, gs)] :
                         gs \in {gs \in Filters : Kept(codec, gs)}}
                        \cup {[filters |-> Everything, patterns |-> Everything]}
           a == [filters |-> fs, patterns |-> ps]
<1>1. a \in asked
    BY DEF Asked
<1>2. \A b \in asked : MatchesOne(b.patterns, e.key) <=> Wanted(codec, b.filters, e)
    BY Zenon DEF Faithful
<1> HIDE DEF asked
<1> QED
    BY <1>1, <1>2

\* The last entry under its key is the last that means the same.
LEMMA LastIsLastAt ==
    ASSUME TypeOK, Faithful(codec), NEW i \in DOMAIN log
    PROVE  LastOf(log[i].key) = i <=> LastAt(i, Len(log))
<1> DEFINE S == {j \in DOMAIN log : log[j].key = log[i].key}
           n == Len(log)
<1>1. n \in Nat /\ DOMAIN log = 1 .. n /\ \A j \in DOMAIN log : log[j] \in Entries(codec)
    BY EntriesAreStored
<1>2. \A j \in DOMAIN log :
          j \in S <=> Meant(codec, log[j]) = Meant(codec, log[i])
    BY <1>1, FaithfulSays
<1>3. S \subseteq 1 .. n /\ i \in S
    BY <1>1
<1>4. LastOf(log[i].key) = Max(S)
    BY <1>3 DEF LastOf, Last0
<1> HIDE DEF S
<1>5. Max(S) \in S /\ \A j \in S : Max(S) >= j
    BY <1>1, <1>3, MaxIs
<1> DEFINE m == Max(S)
<1>6. m \in S /\ (\A j \in S : m >= j) /\ LastOf(log[i].key) = m
    BY <1>4, <1>5
<1> HIDE DEF m, n
<1>7. LastAt(i, n) <=> \A j \in (i + 1) .. n : j \notin S
    <2>1. \A j \in (i + 1) .. n : j \in DOMAIN log
        BY <1>1
    <2> QED
        BY <1>2, <2>1 DEF LastAt
<1>8. i \in Nat /\ m \in Nat /\ S \subseteq 1 .. n
    BY <1>1, <1>3, <1>6
<1>9. m = i <=> \A j \in (i + 1) .. n : j \notin S
    BY <1>1, <1>3, <1>6, <1>8
<1> QED
    BY <1>6, <1>7, <1>9 DEF n

LEMMA DueType ==
    ASSUME TypeOK
    PROVE  /\ Len(log) \in Nat /\ since \in 0 .. Len(log)
           /\ Before \subseteq 1 .. Len(log) /\ After \subseteq 1 .. Len(log)
           /\ Listed \subseteq 1 .. Len(log)
           /\ Due \in Seq(Nat)
<1>1. Len(log) \in Nat /\ since \in 0 .. Len(log)
    BY EntriesAreStored DEF TypeOK
<1>2. /\ Before \subseteq 1 .. Len(log) /\ After \subseteq 1 .. Len(log)
      /\ Listed \subseteq 1 .. Len(log)
    BY <1>1 DEF Before, After, Listed
<1>3. \A S : S \subseteq 1 .. Len(log) => InOrder(S) \in Seq(Nat)
    BY <1>1, InOrderEnumerates DEF Enumerates
<1>4. InOrder(Listed) \in Seq(Nat) /\ InOrder(Before) \in Seq(Nat) /\ InOrder(After) \in Seq(Nat)
    BY <1>2, <1>3
<1>5. <<0>> \in Seq(Nat)
    OBVIOUS
<1>6. (InOrder(Before) \o <<0>>) \o InOrder(After) \in Seq(Nat)
    BY <1>4, <1>5, ConcatProperties
<1> QED
    BY <1>1, <1>2, <1>4, <1>6 DEF Due

LEMMA DueStays ==
    ASSUME UNCHANGED <<codec, log, filters, reader, since>>
    PROVE  Due' = Due
BY DEF Due, Listed, Before, After, Wants, LastAt

LEMMA DueOnWrite ==
    ASSUME TypeOK, NEW e \in Entries(codec), Stores(e)
    PROVE  /\ reader = "list" => Due' = Due
           /\ reader = "watch" =>
                  Due' = IF Wanted(codec, filters, e) THEN Due \o <<Len(log) + 1>> ELSE Due
<1> DEFINE n == Len(log)
<1>1. /\ n \in Nat /\ since \in 0 .. n /\ DOMAIN log = 1 .. n
      /\ log \in Seq(Entries(codec))
    BY EntriesAreStored DEF TypeOK
<1>2. /\ Len(log') = n + 1 /\ log'[n + 1] = e /\ \A i \in 1 .. n : log'[i] = log[i]
      /\ UNCHANGED <<codec, reader, filters, since>>
    BY <1>1, AppendProperties DEF Stores
<1> HIDE DEF n
<1>3. \A i \in 1 .. since : i \in 1 .. n /\ log'[i] = log[i] /\ (LastAt(i, since))' = LastAt(i, since)
    <2> SUFFICES ASSUME NEW i \in 1 .. since
                 PROVE  i \in 1 .. n /\ log'[i] = log[i] /\ (LastAt(i, since))' = LastAt(i, since)
        OBVIOUS
    <2>1. i \in 1 .. n /\ \A j \in (i + 1) .. since : j \in 1 .. n
        BY <1>1
    <2> QED
        BY <1>2, <2>1 DEF LastAt
<1>4. Before' = Before
    BY <1>2, <1>3 DEF Before, Wants
<1>5. Listed' = Listed
    <2>1. \A i \in Before : i \in 1 .. since
        BY DEF Before
    <2> QED
        BY <1>2, <1>3, <1>4, <2>1 DEF Listed
<1>6. After' = IF Wanted(codec, filters, e) THEN After \cup {n + 1} ELSE After
    <2>1. (since + 1) .. (n + 1) = ((since + 1) .. n) \cup {n + 1}
        BY <1>1
    <2>2. \A i \in (since + 1) .. n : i \in 1 .. n
        BY <1>1
    <2>3. After' = {i \in (since + 1) .. (n + 1) : Wanted(codec, filters, log'[i])}
        BY <1>2 DEF After, Wants
    <2>4. After = {i \in (since + 1) .. n : Wanted(codec, filters, log[i])}
        BY DEF After, Wants, n
    <2> QED
        BY <1>2, <2>1, <2>2, <2>3, <2>4
<1>7. CASE reader = "list"
    BY <1>2, <1>5, <1>7 DEF Due
<1>8. CASE reader = "watch" /\ ~Wanted(codec, filters, e)
    BY <1>2, <1>4, <1>6, <1>8 DEF Due
<1>9. CASE reader = "watch" /\ Wanted(codec, filters, e)
    <2> DEFINE b == InOrder(Before) \o <<0>>
               a == InOrder(After)
    <2>1. b \in Seq(Nat) /\ a \in Seq(Nat)
        <3>1. InOrder(Before) \in Seq(Nat) /\ a \in Seq(Nat)
            BY DueType, InOrderEnumerates DEF Enumerates
        <3>2. <<0>> \in Seq(Nat)
            OBVIOUS
        <3> QED
            BY <3>1, <3>2, ConcatProperties
    <2>2. InOrder(After \cup {n + 1}) = Append(a, n + 1)
        BY DueType, InOrderAppend DEF n
    <2>3. Due = b \o a
        BY <1>9 DEF Due
    <2>4. Due' = b \o Append(a, n + 1)
        BY <1>2, <1>4, <1>6, <1>9, <2>2 DEF Due
    <2> DEFINE m == n + 1
               h == <<m>>
    <2> HIDE DEF a, b, m
    <2>5. m \in Nat /\ h \in Seq(Nat)
        BY <1>1 DEF m
    <2>7. Append(a, m) = a \o h
        BY <2>1, <2>5, AppendIsConcat
    <2> DEFINE T == Nat
    <2>0. b \in Seq(T) /\ a \in Seq(T) /\ h \in Seq(T)
        BY <2>1, <2>5
    <2> HIDE DEF h, T
    <2>9. (b \o a) \o h = b \o (a \o h)
        BY <2>0, ConcatAssociative
    <2>10. Due' = Due \o h
        BY <2>3, <2>4, <2>7, <2>9 DEF m
    <2> QED
        BY <1>9, <2>10 DEF h, m, n
<1> QED
    BY <1>7, <1>8, <1>9 DEF n
Holding == IF pump = "sending" THEN <<held>> ELSE <<>>

Flowing == received \o out \o Holding \o below

\* After Stop, a watcher is sent nothing more of what it would have been due.
WatchFlow ==
    \E rest \in Seq(Nat) : Flowing \o rest = Due /\ (~stopped => rest = <<>>)

Decoded(S) == {i \in S : DecodeKey(codec, log[i].key).ok}

\* A lister skips what it cannot decode.
ListFlow ==
    /\ stopped /\ out = <<>>
    /\ \E S \in SUBSET (1 .. Len(log)) :
           below = InOrder(S) /\ received \o Holding \o InOrder(Decoded(S)) = Due

Flow ==
    /\ reader \in {"none", "refused"} =>
           ~stopped /\ below = <<>> /\ out = <<>> /\ received = <<>>
    /\ reader = "watch" => Asked(filters, patterns) /\ WatchFlow
    /\ reader = "list" => ListFlow

LEMMA FlowType ==
    ASSUME TypeOK, NEW T, T = Nat
    PROVE  /\ received \in Seq(T) /\ out \in Seq(T) /\ Holding \in Seq(T)
           /\ below \in Seq(T) /\ held \in T
           /\ received \o out \in Seq(T)
           /\ received \o out \o Holding \in Seq(T)
           /\ Flowing \in Seq(T)
<1> DEFINE R == 0 .. Len(log)
<1>1. R \subseteq T /\ {below, out, received} \subseteq Seq(R) /\ held \in R
    BY EntriesAreStored DEF TypeOK
<1> HIDE DEF R
<1>2. /\ received \in Seq(T) /\ out \in Seq(T) /\ below \in Seq(T) /\ held \in T
    BY <1>1, SeqOfMore
<1>3. Holding \in Seq(T)
    BY <1>2 DEF Holding
<1>4. received \o out \in Seq(T)
    BY <1>2, ConcatProperties
<1>5. received \o out \o Holding \in Seq(T)
    BY <1>3, <1>4, ConcatProperties
<1>6. Flowing \in Seq(T)
    BY <1>2, <1>5, ConcatProperties DEF Flowing
<1> QED
    BY <1>2, <1>3, <1>4, <1>5, <1>6

\* Of a watcher's steps, none loses, doubles or overtakes anything.
LEMMA WatcherPassesOn ==
    ASSUME TypeOK, reader = "watch",
           Stop \/ PumpReads \/ PumpSends \/ PumpEnds \/ CallerReads
    PROVE  Flowing' = Flowing
<1>0. PICK T : T = Nat
    OBVIOUS
<1>1. /\ received \in Seq(T) /\ out \in Seq(T) /\ Holding \in Seq(T)
      /\ below \in Seq(T) /\ held \in T
      /\ received \o out \in Seq(T)
    BY <1>0, FlowType
<1>2. CASE Stop
    BY <1>2 DEF Stop, Flowing, Holding
<1>3. CASE PumpEnds
    BY <1>3 DEF PumpEnds, Flowing, Holding
<1>4. CASE PumpReads
    <2> DEFINE A == received \o out
               h == <<Head(below)>>
               t == Tail(below)
    <2>1. Holding = <<>> /\ Holding' = h /\ below' = t
          /\ received' = received /\ out' = out /\ below # <<>>
        BY <1>4 DEF PumpReads, Holding
    <2>2. A \o below = (A \o h) \o t
        BY <1>1, <2>1, HeadMovesOver
    <2>3. A \o <<>> = A
        BY <1>1, ConcatEmptySeq
    <2>4. Flowing = A \o below
        BY <2>1, <2>3 DEF Flowing
    <2>5. Flowing' = (A \o h) \o t
        BY <2>1 DEF Flowing
    <2> QED
        BY <2>2, <2>4, <2>5
<1>5. CASE PumpSends
    <2> DEFINE h == <<held>>
    <2>1. /\ Holding = h /\ Holding' = <<>> /\ out' = Append(out, held)
          /\ received' = received /\ below' = below
        BY <1>5 DEF PumpSends, Holding
    <2>2. out' = out \o h /\ h \in Seq(T)
        BY <1>1, <2>1, AppendIsConcat
    <2> HIDE DEF h
    <2>3. received \o (out \o h) = (received \o out) \o h
        <3>1. received \in Seq(T) /\ out \in Seq(T) /\ h \in Seq(T)
            BY <1>1, <2>2
        <3> QED
            BY <3>1, ConcatAssociative
    <2>4. (received \o out) \o h \in Seq(T)
        BY <1>1, <2>2, ConcatProperties
    <2>5. ((received \o out) \o h) \o <<>> = (received \o out) \o h
        BY <2>4, ConcatEmptySeq
    <2> QED
        BY <2>1, <2>2, <2>3, <2>5 DEF Flowing
<1>6. CASE CallerReads
    <2> DEFINE h == <<Head(out)>>
               t == Tail(out)
    <2>1. /\ Holding' = Holding /\ below' = below /\ out' = t
          /\ received' = Append(received, Head(out)) /\ out # <<>>
        BY <1>6 DEF CallerReads, Holding
    <2>2. Head(out) \in T
        BY <1>1, <2>1, HeadTailProperties
    <2>3. received' = received \o h
        BY <1>1, <2>1, <2>2, AppendIsConcat
    <2>4. received \o out = (received \o h) \o t
        BY <1>1, <2>1, HeadMovesOver
    <2> HIDE DEF h, t
    <2> QED
        BY <2>1, <2>3, <2>4 DEF Flowing
<1> QED
    BY <1>2, <1>3, <1>4, <1>5, <1>6

LEMMA WatchFlowSteps ==
    ASSUME TypeOK, reader = "watch", WatchFlow,
           Stop \/ PumpReads \/ PumpSends \/ PumpEnds \/ CallerReads
    PROVE  WatchFlow'
<1>1. Flowing' = Flowing
    BY WatcherPassesOn
<1>2. UNCHANGED <<codec, log, filters, reader, since>> /\ (~stopped' => ~stopped)
    BY DEF Stop, PumpReads, PumpSends, PumpEnds, CallerReads
<1>3. Due' = Due
    BY <1>2, DueStays
<1> QED
    BY <1>1, <1>2, <1>3 DEF WatchFlow

LEMMA WatchFlowOnWrite ==
    ASSUME TypeOK, Faithful(codec), reader = "watch", Asked(filters, patterns), WatchFlow,
           NEW e \in Entries(codec), Stores(e)
    PROVE  WatchFlow'
<1>0. PICK T : T = Nat
    OBVIOUS
<1> DEFINE m == Len(log) + 1
           h == <<m>>
<1>1. m \in T /\ h \in Seq(T)
    BY <1>0, EntriesAreStored
<1>2. Due' = IF Wanted(codec, filters, e) THEN Due \o h ELSE Due
    BY DueOnWrite
<1>3. MatchesOne(patterns, e.key) <=> Wanted(codec, filters, e)
    BY FaithfulMatches
<1>4. /\ received \o out \o Holding \in Seq(T) /\ below \in Seq(T)
      /\ Flowing \in Seq(T)
    BY <1>0, FlowType
<1>5. Append(below, m) = below \o h
    BY <1>1, <1>4, AppendIsConcat
<1>6. UNCHANGED <<reader, received, out, pump, held, stopped>> /\ Holding' = Holding
    BY DEF Stores, Holding
<1>7. below' = IF ~stopped /\ Wanted(codec, filters, e) THEN below \o h ELSE below
    BY <1>3, <1>5 DEF Stores
<1>8. PICK rest \in Seq(T) : Flowing \o rest = Due /\ (~stopped => rest = <<>>)
    BY <1>0 DEF WatchFlow
<1> HIDE DEF h, m
<1>9. CASE ~Wanted(codec, filters, e)
    <2>1. Flowing' = Flowing /\ Due' = Due
        BY <1>2, <1>6, <1>7, <1>9 DEF Flowing
    <2> QED
        BY <1>0, <1>6, <1>8, <2>1 DEF WatchFlow
<1>10. CASE Wanted(codec, filters, e) /\ ~stopped
    <2>1. Flowing' = (received \o out \o Holding) \o (below \o h)
        BY <1>6, <1>7, <1>10 DEF Flowing
    <2> DEFINE A == received \o out \o Holding
    <2>2. Flowing = A \o below
        BY DEF Flowing
    <2>3. A \in Seq(T)
        BY <1>4
    <2> HIDE DEF A
    <2>4. A \o (below \o h) = (A \o below) \o h
        <3>1. A \in Seq(T) /\ below \in Seq(T) /\ h \in Seq(T)
            BY <1>1, <1>4, <2>3
        <3> QED
            BY <3>1, ConcatAssociative
    <2>5. Flowing' = Flowing \o h
        BY <2>1, <2>2, <2>4 DEF A
    <2>6. Flowing \o <<>> = Flowing
        BY <1>4, ConcatEmptySeq
    <2>7. Due' = Flowing \o h
        BY <1>2, <1>8, <1>10, <2>6
    <2>8. Flowing \o h \in Seq(T)
        BY <1>1, <1>4, ConcatProperties
    <2>9. (Flowing \o h) \o <<>> = Flowing \o h /\ <<>> \in Seq(Nat)
        BY <2>8, ConcatEmptySeq
    <2> QED
        BY <2>5, <2>7, <2>9 DEF WatchFlow
<1>11. CASE Wanted(codec, filters, e) /\ stopped
    <2>1. Flowing' = Flowing
        BY <1>6, <1>7, <1>11 DEF Flowing
    <2>2. Due' = (Flowing \o rest) \o h
        BY <1>2, <1>8, <1>11
    <2>3. (Flowing \o rest) \o h = Flowing \o (rest \o h)
        <3>1. Flowing \in Seq(T) /\ rest \in Seq(T) /\ h \in Seq(T)
            BY <1>1, <1>4
        <3> QED
            BY <3>1, ConcatAssociative
    <2>4. rest \o h \in Seq(T)
        BY <1>1, <1>8, ConcatProperties
    <2> QED
        BY <1>0, <1>6, <1>11, <2>1, <2>2, <2>3, <2>4 DEF WatchFlow
<1> QED
    BY <1>9, <1>10, <1>11
LEMMA DecodedType ==
    ASSUME TypeOK, NEW S, S \subseteq 1 .. Len(log)
    PROVE  /\ Decoded(S) \subseteq 1 .. Len(log)
           /\ InOrder(S) \in Seq(Nat) /\ InOrder(Decoded(S)) \in Seq(Nat)
<1>1. Len(log) \in Nat /\ Decoded(S) \subseteq 1 .. Len(log)
    BY EntriesAreStored DEF Decoded
<1> QED
    BY <1>1, InOrderEnumerates DEF Enumerates

LEMMA ListFlowSteps ==
    ASSUME TypeOK, reader = "list", ListFlow,
           Stop \/ PumpReads \/ PumpSends \/ PumpEnds \/ CallerReads
    PROVE  ListFlow'
<1>0. PICK T : T = Nat
    OBVIOUS
<1>1. Len(log) \in Nat /\ received \in Seq(T) /\ held \in T
    BY <1>0, EntriesAreStored, FlowType
<1>2. PICK S \in SUBSET (1 .. Len(log)) :
          below = InOrder(S) /\ received \o Holding \o InOrder(Decoded(S)) = Due
    BY DEF ListFlow
<1>3. UNCHANGED <<codec, log, filters, reader, since, stopped>>
    BY DEF Stop, PumpReads, PumpSends, PumpEnds, CallerReads, ListFlow
<1>4. Due' = Due /\ \A Q : (Decoded(Q))' = Decoded(Q)
    BY <1>3, DueStays DEF Decoded
<1>5. ~Stop /\ ~CallerReads
    BY DEF Stop, CallerReads, ListFlow
<1>6. CASE PumpEnds
    <2>1. UNCHANGED <<out, below, received>> /\ Holding' = Holding
        BY <1>6 DEF PumpEnds, Holding
    <2> QED
        BY <1>2, <1>3, <1>4, <2>1 DEF ListFlow
<1>7. CASE PumpReads
    <2> DEFINE x == Head(below)
    <2>1. /\ below # <<>> /\ below' = Tail(below) /\ Holding = <<>>
          /\ UNCHANGED <<out, received>>
        BY <1>7 DEF PumpReads, Holding
    <2>2. x \in S /\ (\A y \in S \ {x} : x < y) /\ Tail(below) = InOrder(S \ {x})
        BY <1>1, <1>2, <2>1, InOrderSplits
    <2>3. S \ {x} \in SUBSET (1 .. Len(log)) /\ below' = InOrder(S \ {x})
        BY <2>1, <2>2
    <2>4. Holding' = IF DecodeKey(codec, log[x].key).ok THEN <<x>> ELSE <<>>
        BY <1>7 DEF PumpReads, Holding
    <2> HIDE DEF x
    <2>5. received \o Holding' \o InOrder(Decoded(S \ {x})) = Due
        <3>1. CASE ~DecodeKey(codec, log[x].key).ok
            <4>1. Decoded(S \ {x}) = Decoded(S)
                BY <3>1 DEF Decoded
            <4> QED
                BY <1>2, <2>1, <2>4, <3>1, <4>1
        <3>2. CASE DecodeKey(codec, log[x].key).ok
            <4> DEFINE h == <<x>>
                       D == InOrder(Decoded(S \ {x}))
            <4>1. Decoded(S \ {x}) = Decoded(S) \ {x} /\ x \in Decoded(S)
                BY <2>2, <3>2 DEF Decoded
            <4>2. \A y \in Decoded(S) \ {x} : x < y
                BY <2>2 DEF Decoded
            <4>3. Decoded(S) \subseteq 1 .. Len(log)
                BY DecodedType
            <4>4. InOrder(Decoded(S)) = h \o D
                BY <1>1, <4>1, <4>2, <4>3, InOrderLeast
            <4>5. D \in Seq(T)
                BY <1>0, <2>3, DecodedType
            <4>6. x \in T
                BY <1>0, <2>2
            <4>7. h \in Seq(T)
                BY <4>6
            <4> HIDE DEF h, D
            <4>8. received \o (h \o D) = (received \o h) \o D
                <5>1. received \in Seq(T) /\ h \in Seq(T) /\ D \in Seq(T)
                    BY <1>1, <4>5, <4>7
                <5> QED
                    BY <5>1, ConcatAssociative
            <4>9. received \o Holding = received
                BY <1>1, <2>1, ConcatEmptySeq
            <4> QED
                BY <1>2, <2>4, <3>2, <4>4, <4>8, <4>9 DEF h, D
        <3> QED
            BY <3>1, <3>2
    <2> QED
        BY <1>3, <1>4, <2>1, <2>3, <2>5 DEF ListFlow
<1>8. CASE PumpSends
    <2> DEFINE h == <<held>>
    <2>1. /\ Holding = h /\ Holding' = <<>> /\ received' = Append(received, held)
          /\ UNCHANGED <<out, below>>
        BY <1>8 DEF PumpSends, Holding
    <2>2. received' = received \o h /\ h \in Seq(T)
        BY <1>1, <2>1, AppendIsConcat
    <2> HIDE DEF h
    <2>3. received \o h \in Seq(T)
        BY <1>1, <2>2, ConcatProperties
    <2>4. (received \o h) \o <<>> = received \o h
        BY <2>3, ConcatEmptySeq
    <2>5. received' \o Holding' \o InOrder(Decoded(S)) = Due
        BY <1>2, <2>1, <2>2, <2>4
    <2> QED
        BY <1>2, <1>3, <1>4, <2>1, <2>5 DEF ListFlow
<1> QED
    BY <1>5, <1>6, <1>7, <1>8

LEMMA ListFlowOnWrite ==
    ASSUME TypeOK, reader = "list", ListFlow, NEW e \in Entries(codec), Stores(e)
    PROVE  ListFlow'
<1> DEFINE n == Len(log)
<1>1. PICK S \in SUBSET (1 .. n) :
          below = InOrder(S) /\ received \o Holding \o InOrder(Decoded(S)) = Due
    BY DEF ListFlow
<1>2. n \in Nat /\ log \in Seq(Entries(codec))
    BY EntriesAreStored DEF TypeOK
<1>3. Len(log') = n + 1 /\ \A i \in 1 .. n : log'[i] = log[i]
    BY <1>2, AppendProperties DEF Stores
<1> HIDE DEF n
<1>4. UNCHANGED <<codec, stopped, out, below, received>> /\ Holding' = Holding /\ Due' = Due
    BY DueOnWrite DEF Stores, Holding
<1>5. Decoded(S)' = Decoded(S)
    BY <1>1, <1>3, <1>4 DEF Decoded
<1>6. S \in SUBSET (1 .. Len(log'))
    BY <1>1, <1>2, <1>3
<1> QED
    BY <1>1, <1>4, <1>5, <1>6 DEF ListFlow

LEMMA WatchStarts ==
    ASSUME TypeOK, Faithful(codec), Flow, NEW fs, NEW ps, Asked(fs, ps), StartWatch(fs, ps)
    PROVE  Flow'
<1>0. PICK T : T = Nat
    OBVIOUS
<1> DEFINE n == Len(log)
<1>1. /\ n \in Nat /\ DOMAIN log = 1 .. n /\ \A i \in DOMAIN log : log[i] \in Entries(codec)
      /\ Initial(ps) \subseteq 1 .. n
    BY EntriesAreStored, InitialAre DEF TypeOK
<1>2. /\ UNCHANGED <<codec, log, out, received>> /\ since' = n
      /\ reader' = "watch" /\ filters' = fs /\ patterns' = ps
      /\ out = <<>> /\ received = <<>> /\ Holding' = <<>>
      /\ below' = Append(InOrder(Initial(ps)), 0)
    BY DEF StartWatch, Flow, Holding
<1>3. \A i \in 1 .. n : i \in Initial(ps) <=> LastAt(i, n) /\ Wanted(codec, fs, log[i])
    BY <1>1, LastIsLastAt, FaithfulMatches DEF Initial
<1>4. Before' = Initial(ps)
    <2>1. Before' = {i \in 1 .. n : LastAt(i, n) /\ Wanted(codec, fs, log[i])}
        BY <1>2 DEF Before, LastAt, Wants
    <2> QED
        BY <1>1, <1>3, <2>1
<1>5. After' = {}
    <2>1. (n + 1) .. n = {}
        BY <1>1
    <2> QED
        BY <1>2, <2>1 DEF After
<1> DEFINE b == InOrder(Initial(ps))
           m == <<0>>
<1>6. b \in Seq(T) /\ 0 \in T /\ m \in Seq(T)
    BY <1>0, <1>1, InOrderEnumerates DEF Enumerates
<1>7. below' = b \o m
    BY <1>2, <1>6, AppendIsConcat
<1>8. Due' = (b \o m) \o <<>>
    BY <1>2, <1>4, <1>5, InOrderEmpty DEF Due
<1>9. Flowing' = ((<<>> \o <<>>) \o <<>>) \o (b \o m)
    BY <1>2, <1>7 DEF Flowing
<1> HIDE DEF b, m
<1>10. b \o m \in Seq(T)
    BY <1>6, ConcatProperties
<1>11. /\ (b \o m) \o <<>> = b \o m /\ <<>> \o (b \o m) = b \o m
    BY <1>10, ConcatEmptySeq
<1>12. (<<>> \o <<>>) \o <<>> = <<>>
    OBVIOUS
<1>13. Flowing' \o <<>> = Due' /\ <<>> \in Seq(Nat)
    BY <1>8, <1>9, <1>11, <1>12
<1>14. WatchFlow'
    BY <1>13 DEF WatchFlow
<1>15. Asked(filters, patterns)'
    BY <1>2 DEF Asked
<1> QED
    BY <1>2, <1>14, <1>15 DEF Flow

LEMMA ListStarts ==
    ASSUME TypeOK, Faithful(codec), Flow, NEW fs, NEW ps, Asked(fs, ps), StartList(fs, ps)
    PROVE  Flow'
<1> DEFINE n == Len(log)
           S == {i \in Initial(ps) : Live(i)}
<1>1. /\ n \in Nat /\ DOMAIN log = 1 .. n /\ \A i \in DOMAIN log : log[i] \in Entries(codec)
      /\ Initial(ps) \subseteq 1 .. n
    BY EntriesAreStored, InitialAre DEF TypeOK
<1>2. /\ UNCHANGED <<codec, log, out, received>> /\ since' = n
      /\ reader' = "list" /\ filters' = fs /\ patterns' = ps
      /\ out = <<>> /\ received = <<>> /\ Holding' = <<>>
      /\ below' = InOrder(S) /\ stopped'
    BY DEF StartList, Flow, Holding
<1>3. \A i \in 1 .. n : i \in Initial(ps) <=> LastAt(i, n) /\ Wanted(codec, fs, log[i])
    BY <1>1, LastIsLastAt, FaithfulMatches DEF Initial
<1>4. \A i \in Initial(ps) : Live(i) <=> log[i].op = "put"
    BY DEF Initial, Live
<1>5. \A i \in 1 .. n : DecodeKey(codec, log[i].key).ok <=> Readable(codec, log[i])
    BY <1>1, FaithfulSays
<1>6. Before' = Initial(ps)
    <2>1. Before' = {i \in 1 .. n : LastAt(i, n) /\ Wanted(codec, fs, log[i])}
        BY <1>2 DEF Before, LastAt, Wants
    <2> QED
        BY <1>1, <1>3, <2>1
<1>7. Listed' = Decoded(S)
    <2>1. Listed' = {i \in Initial(ps) : log[i].op = "put" /\ Readable(codec, log[i])}
        BY <1>2, <1>6 DEF Listed
    <2> QED
        BY <1>1, <1>4, <1>5, <2>1 DEF Decoded
<1>8. Due' = InOrder(Decoded(S))
    BY <1>2, <1>7 DEF Due
<1>9. S \in SUBSET (1 .. n)
    BY <1>1
<1> HIDE DEF S
<1>10. InOrder(Decoded(S)) \in Seq(Nat)
    BY <1>9, DecodedType
<1>11. <<>> \o InOrder(Decoded(S)) = InOrder(Decoded(S))
    BY <1>10, ConcatEmptySeq
<1>12. received' \o Holding' \o InOrder(Decoded(S)) = Due'
    <2>1. received' \o Holding' = <<>>
        BY <1>2
    <2> QED
        BY <1>8, <1>11, <2>1
<1>13. PICK Q \in SUBSET (1 .. n) : Q = S
    BY <1>9
<1>14. Decoded(Q)' = Decoded(Q)
    BY <1>2 DEF Decoded
<1>15. /\ Q \in SUBSET (1 .. Len(log')) /\ below' = InOrder(Q)
       /\ received' \o Holding' \o InOrder(Decoded(Q)') = Due'
       /\ stopped' /\ out' = <<>>
    BY <1>2, <1>12, <1>13, <1>14
<1>16. ListFlow'
    BY <1>15 DEF ListFlow
<1> QED
    BY <1>2, <1>16 DEF Flow

-----------------------------------------------------------------------------
(* The theorems about faithful codecs. *)

\* The inductive invariant: what TypeOK says, and that what the reader has got,
\* what is under way to it and what it will not be sent make up what it is due.
KVInv == TypeOK /\ Flow

LEMMA KVInvInit == Init => KVInv
<1> SUFFICES ASSUME Init PROVE KVInv
    OBVIOUS
<1>1. Flow
    BY DEF Init, Flow
<1> QED
    BY <1>1, TypeInit DEF KVInv

LEMMA KVInvStep ==
    ASSUME AllFaithful
    PROVE  KVInv /\ [Next]_vars => KVInv'
<1> SUFFICES ASSUME KVInv, [Next]_vars PROVE KVInv'
    OBVIOUS
<1>1. TypeOK /\ Flow /\ Faithful(codec)
    BY DEF KVInv, TypeOK, AllFaithful
<1>2. TypeOK'
    BY <1>1, TypeStep
<1>3. reader \in {"none", "refused", "watch", "list"}
    BY <1>1 DEF TypeOK
<1>4. CASE UNCHANGED vars
    <2>1. Due' = Due /\ Flowing' = Flowing /\ Holding' = Holding
        BY <1>4, DueStays DEF vars, watcher, Flowing, Holding
    <2>2. UNCHANGED <<codec, log, reader, filters, patterns, below, stopped, out, received>>
        BY <1>4 DEF vars, watcher
    <2>3. \A S : Decoded(S)' = Decoded(S)
        BY <2>2 DEF Decoded
    <2>4. WatchFlow' <=> WatchFlow
        BY <2>1, <2>2 DEF WatchFlow
    <2>5. ListFlow' <=> ListFlow
        BY <2>1, <2>2, <2>3 DEF ListFlow
    <2>6. Asked(filters, patterns)' <=> Asked(filters, patterns)
        BY <2>2 DEF Asked
    <2>7. Flow'
        BY <1>1, <2>2, <2>4, <2>5, <2>6 DEF Flow
    <2> QED
        BY <1>2, <2>7 DEF KVInv
<1>5. ASSUME NEW e \in Entries(codec), Stores(e) PROVE Flow'
    <2>1. UNCHANGED <<codec, reader, filters, patterns, stopped, out, received>>
        BY <1>5 DEF Stores
    <2>2. CASE reader \in {"none", "refused"}
        <3>1. below' = below
            BY <1>5, <2>2 DEF Stores
        <3> QED
            BY <1>1, <2>1, <2>2, <3>1 DEF Flow
    <2>3. CASE reader = "watch"
        <3>1. Asked(filters, patterns) /\ WatchFlow
            BY <1>1, <2>3 DEF Flow
        <3>2. WatchFlow'
            BY <1>1, <1>5, <2>3, <3>1, WatchFlowOnWrite
        <3>3. Asked(filters, patterns)'
            BY <2>1, <3>1 DEF Asked
        <3> QED
            BY <2>1, <2>3, <3>2, <3>3 DEF Flow
    <2>4. CASE reader = "list"
        <3>1. ListFlow'
            BY <1>1, <1>5, <2>4, ListFlowOnWrite DEF Flow
        <3> QED
            BY <2>1, <2>4, <3>1 DEF Flow
    <2> QED
        BY <1>3, <2>2, <2>3, <2>4
<1>6. ASSUME Reading PROVE Flow'
    <2>1. ASSUME NEW fs, Refuse(fs) PROVE Flow'
        BY <1>1, <2>1 DEF Refuse, Flow
    <2>2. ASSUME NEW fs, NEW ps, Asked(fs, ps), StartWatch(fs, ps) PROVE Flow'
        BY <1>1, <2>2, WatchStarts
    <2>3. ASSUME NEW fs, NEW ps, Asked(fs, ps), StartList(fs, ps) PROVE Flow'
        BY <1>1, <2>3, ListStarts
    <2> QED
        BY <1>6, <2>1, <2>2, <2>3 DEF Reading
<1>7. ASSUME Stop \/ PumpReads \/ PumpSends \/ PumpEnds \/ CallerReads PROVE Flow'
    <2>1. UNCHANGED <<codec, reader, filters, patterns>>
        BY <1>7 DEF Stop, PumpReads, PumpSends, PumpEnds, CallerReads
    <2>2. reader \notin {"none", "refused"}
        <3>1. pump \in {"reading", "sending"} => reader \notin {"none", "refused"}
            BY <1>1 DEF TypeOK
        <3>2. out # <<>> => reader \notin {"none", "refused"}
            BY <1>1 DEF Flow
        <3> QED
            BY <1>7, <3>1, <3>2 DEF Stop, PumpReads, PumpSends, PumpEnds, CallerReads
    <2>3. CASE reader = "watch"
        <3>1. Asked(filters, patterns) /\ WatchFlow
            BY <1>1, <2>3 DEF Flow
        <3>2. WatchFlow'
            BY <1>1, <1>7, <2>3, <3>1, WatchFlowSteps
        <3>3. Asked(filters, patterns)'
            BY <2>1, <3>1 DEF Asked
        <3> QED
            BY <2>1, <2>3, <3>2, <3>3 DEF Flow
    <2>4. CASE reader = "list"
        <3>1. ListFlow'
            BY <1>1, <1>7, <2>4, ListFlowSteps DEF Flow
        <3> QED
            BY <2>1, <2>4, <3>1 DEF Flow
    <2> QED
        BY <1>3, <2>2, <2>3, <2>4
<1> QED
    BY <1>2, <1>4, <1>5, <1>6, <1>7, StepsAre DEF KVInv

LEMMA KVInvHolds ==
    ASSUME AllFaithful
    PROVE  Spec => []KVInv
<1>1. Init => KVInv
    BY KVInvInit
<1>2. KVInv /\ [Next]_vars => KVInv'
    BY KVInvStep
<1> QED
    BY <1>1, <1>2, PTL DEF Spec

LEMMA ReadersGetTheirs ==
    ASSUME KVInv, Faithful(codec)
    PROVE  ReaderGetsItsKeys
<1> SUFFICES ASSUME reader \in {"watch", "list"}
    PROVE  /\ IsPrefix(received, Due)
           /\ \A i \in ToSet(received) \ {0} :
                /\ Readable(codec, log[i]) => Name(codec, EntryKey(i)) = Meant(codec, log[i])
                /\ log[i].by # <<>> => EntryValue(i) = <<>>
    BY DEF ReaderGetsItsKeys
<1>0. PICK T : T = Nat
    OBVIOUS
<1>1. TypeOK /\ Flow
    BY DEF KVInv
<1>2. /\ received \in Seq(T) /\ out \in Seq(T) /\ Holding \in Seq(T) /\ below \in Seq(T)
      /\ received \o out \in Seq(T) /\ received \o out \o Holding \in Seq(T)
    BY <1>0, <1>1, FlowType
<1>3. IsPrefix(received, Due)
    <2>1. \A s \in Seq(T) : IsPrefix(received, received \o s)
        BY <1>2, PrefixOfConcat
    <2>2. CASE reader = "watch"
        <3>1. PICK rest \in Seq(T) : Flowing \o rest = Due
            BY <1>0, <1>1, <2>2 DEF Flow, WatchFlow
        <3> DEFINE hb == Holding \o below
                   ohb == out \o hb
                   all == ohb \o rest
        <3>2. hb \in Seq(T) /\ ohb \in Seq(T) /\ all \in Seq(T)
            <4>1. hb \in Seq(T)
                BY <1>2, ConcatProperties
            <4>2. ohb \in Seq(T)
                BY <1>2, <4>1, ConcatProperties
            <4> QED
                BY <3>1, <4>1, <4>2, ConcatProperties
        <3> DEFINE h == Holding
                   ro == received \o out
        <3>3. /\ h \in Seq(T) /\ ro \in Seq(T)
            BY <1>2
        <3> HIDE DEF h, ro
        <3>4. (ro \o h) \o below = ro \o (h \o below)
            <4>1. ro \in Seq(T) /\ h \in Seq(T) /\ below \in Seq(T)
                BY <1>2, <3>3
            <4> QED
                BY <4>1, ConcatAssociative
        <3> HIDE DEF hb
        <3>5. (received \o out) \o hb = received \o (out \o hb)
            <4>1. received \in Seq(T) /\ out \in Seq(T) /\ hb \in Seq(T)
                BY <1>2, <3>2
            <4> QED
                BY <4>1, ConcatAssociative
        <3> HIDE DEF ohb
        <3>6. (received \o ohb) \o rest = received \o (ohb \o rest)
            <4>1. received \in Seq(T) /\ ohb \in Seq(T) /\ rest \in Seq(T)
                BY <1>2, <3>1, <3>2
            <4> QED
                BY <4>1, ConcatAssociative
        <3>7. Flowing = received \o ohb
            BY <3>4, <3>5 DEF Flowing, h, ro, hb, ohb
        <3>8. Due = received \o all
            BY <3>1, <3>6, <3>7
        <3> HIDE DEF all
        <3> QED
            BY <2>1, <3>2, <3>8
    <2>3. CASE reader = "list"
        <3>1. PICK S \in SUBSET (1 .. Len(log)) :
                  received \o Holding \o InOrder(Decoded(S)) = Due
            BY <1>1, <2>3 DEF Flow, ListFlow
        <3> DEFINE D == InOrder(Decoded(S))
                   all == Holding \o D
        <3>2. D \in Seq(T)
            BY <1>0, <1>1, <3>1, DecodedType
        <3> HIDE DEF D
        <3>3. all \in Seq(T)
            BY <1>2, <3>2, ConcatProperties
        <3> DEFINE h == Holding
        <3>4. h \in Seq(T)
            BY <1>2
        <3> HIDE DEF h
        <3>5. (received \o h) \o D = received \o (h \o D)
            <4>1. received \in Seq(T) /\ h \in Seq(T) /\ D \in Seq(T)
                BY <1>2, <3>2, <3>4
            <4> QED
                BY <4>1, ConcatAssociative
        <3>6. Due = received \o all
            BY <3>1, <3>5 DEF h, D
        <3> HIDE DEF all
        <3> QED
            BY <2>1, <3>3, <3>6
    <2> QED
        BY <2>2, <2>3
<1>4. ASSUME NEW i \in ToSet(received) \ {0}
      PROVE  /\ Readable(codec, log[i]) => Name(codec, EntryKey(i)) = Meant(codec, log[i])
             /\ log[i].by # <<>> => EntryValue(i) = <<>>
    <2>1. i \in 0 .. Len(log)
        <3>1. received \in Seq(0 .. Len(log))
            BY <1>1 DEF TypeOK
        <3> DEFINE R == 0 .. Len(log)
        <3> HIDE DEF R
        <3>2. \A n \in DOMAIN received : received[n] \in R
            BY <3>1 DEF R
        <3> QED
            BY <3>2 DEF ToSet, R
    <2>2. log[i] \in Entries(codec)
        BY <1>1, <2>1, EntriesAreStored
    <2>3. Readable(codec, log[i]) => Name(codec, EntryKey(i)) = Meant(codec, log[i])
        BY <2>2, FaithfulSays DEF EntryKey
    <2>4. log[i].by # <<>> => EntryValue(i) = <<>>
        BY <2>2, FaithfulSays DEF EntryValue
    <2> QED
        BY <2>3, <2>4
<1> QED
    BY <1>3, <1>4

(* Behind faithful codecs, a caller finds under a key what was written     *)
(* last under that key or another notation of it, and its history, and     *)
(* never what was written under a different one.                           *)
THEOREM KeysAreKeptApart ==
    ASSUME AllFaithful
    PROVE  Spec => []GetsItsKey
<1>1. TypeOK => GetsItsKey
    BY FaithfulGets DEF TypeOK, AllFaithful
<1> QED
    BY <1>1, KVTypeCorrect, PTL

(* Behind faithful codecs, Keys lists every key that has a value, each     *)
(* once, a caller's by its own name (and another client's that happens to  *)
(* be decodable by the name it decodes to), or fails because of one that   *)
(* the codec cannot decode.                                                *)
THEOREM KeysAreAllListed ==
    ASSUME AllFaithful
    PROVE  Spec => []KeysAllOrNone
<1>1. TypeOK => KeysAllOrNone
    BY FaithfulLists DEF TypeOK, AllFaithful
<1> QED
    BY <1>1, KVTypeCorrect, PTL

(* Behind faithful codecs, what a watcher or a lister has received is at   *)
(* every moment the beginning of what it is due, with the keys and values  *)
(* that were written; no buffer is too small, no Stop and no write changes *)
(* that.                                                                   *)
THEOREM ReadersGetTheirKeys ==
    ASSUME AllFaithful
    PROVE  Spec => []ReaderGetsItsKeys
<1>1. KVInv => ReaderGetsItsKeys
    <2> SUFFICES ASSUME KVInv PROVE ReaderGetsItsKeys
        OBVIOUS
    <2>1. Faithful(codec)
        BY DEF KVInv, TypeOK, AllFaithful
    <2> QED
        BY <2>1, ReadersGetTheirs
<1> QED
    BY <1>1, KVInvHolds, PTL
=============================================================================
