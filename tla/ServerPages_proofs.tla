------------------------- MODULE ServerPages_proofs -------------------------
(***************************************************************************)
(* For any offsets, page sizes and number of items, and however the list   *)
(* changes within its order: an item is given twice only if it was pushed  *)
(* towards the end, and one that was counted at first is skipped only if   *)
(* it left, or moved within the list.                                      *)
(***************************************************************************)
EXTENDS ServerPages, SequenceTheorems, FiniteSetTheorems, TLAPS

Types ==
    /\ endpoint \in {"connz", "subsz", "jsz"} /\ order \in Orders[endpoint]
    /\ ping \in BOOLEAN /\ broken \in BOOLEAN
    /\ opts \in [offset : Nat, limit : Nat \ {0}, accounts : BOOLEAN]
    /\ items \in Seq(Nat) /\ initial \in Seq(Nat) /\ given \in Seq(Nat)
    /\ came \in 0 .. MaxItems /\ offset \in Nat
    /\ pc \in {"first", "next", "ended"} /\ why \in {"done", "refused", "stopped", "failed"}

\* Everything is an item that came, and what left is not in the list.
Known ==
    /\ \A i \in 1 .. Len(items) : items[i] \in 1 .. came /\ items[i] \notin left
    /\ \A i \in 1 .. Len(initial) : initial[i] \in 1 .. came
    /\ \A i \in 1 .. Len(given) : given[i] \in 1 .. came
    /\ left \subseteq 1 .. came
    /\ offset = opts.offset + Len(given)

\* No item has two places in the list.
Single(s) == \A i, j \in 1 .. Len(s) : s[i] = s[j] => i = j

\* What was given and has not been pushed lies before the offset.
Behind ==
    \A g \in 1 .. Len(given), i \in 1 .. Len(items) :
        given[g] = items[i] => given[g] \in pushed \/ i <= offset

Once ==
    \A g, h \in 1 .. Len(given) : g < h /\ given[g] = given[h] => given[g] \in pushed

\* An item of the first list is where it was, unless it left, or moved.
Kept ==
    pc # "first" => \A k \in 1 .. Len(initial) :
        \/ initial[k] \in left \cup pulled
        \/ \E j \in 1 .. Len(items) :
              /\ k <= j /\ items[j] = initial[k]
              /\ initial[k] \in pushed \/ j = k

WasGiven(item) == \E g \in 1 .. Len(given) : given[g] = item

\* What the offset has passed was given.
Covered ==
    pc # "first" => \A k \in 1 .. Len(initial), j \in 1 .. Len(items) :
        opts.offset < k /\ items[j] = initial[k] /\ j <= offset =>
            initial[k] \in pulled \/ WasGiven(initial[k])

\* The loop that ends by itself has passed all there is, or, after a ping, as
\* many as there were.
Passed ==
    pc = "ended" /\ why = "done" /\ opts.accounts =>
        Len(items) <= offset \/ (ping /\ Len(initial) <= offset)

\* How far a list can change in its order.
Ordered ==
    /\ order = "atEnd" => pushed = {}
    /\ order # "shifting" /\ left = {} => pulled = {}

Fresh == pc = "first" =>
    initial = <<>> /\ given = <<>> /\ left = {} /\ pushed = {} /\ pulled = {}

IInv ==
    /\ Types /\ Known /\ Single(items) /\ Behind /\ Once
    /\ Kept /\ Covered /\ Passed /\ Ordered /\ Fresh
-----------------------------------------------------------------------------
(* Pages and places.                                                       *)

\* A page is the list's items after the offset, at most as many as were asked
\* for, and empty only at the end of the list, if nothing was asked for, or if
\* the server answers with an error.
LEMMA PageKnown ==
    ASSUME Types
    PROVE  /\ Answer(offset) \in Seq(Nat)
           /\ \A i \in 1 .. Len(Answer(offset)) :
                 offset + i <= Len(items) /\ Answer(offset)[i] = items[offset + i]
           /\ opts.accounts /\ ~broken /\ Answer(offset) = <<>> => Len(items) <= offset
<1> DEFINE last == Least(offset + opts.limit, Len(items))
<1>1. /\ offset \in Nat /\ opts.limit \in Nat \ {0} /\ Len(items) \in Nat
      /\ \A i \in 1 .. Len(items) : items[i] \in Nat
    BY LenProperties, ElementOfSeq DEF Types
<1>2. last \in Nat /\ last <= Len(items) /\ last <= offset + opts.limit
      /\ (last = Len(items) \/ last = offset + opts.limit)
    BY <1>1 DEF Least
<1> HIDE DEF last
<1>3. CASE opts.accounts /\ ~broken
    <2>1. Answer(offset) = SubSeq(items, offset + 1, last)
        BY <1>3 DEF Answer, last
    <2>2. /\ SubSeq(items, offset + 1, last) \in Seq(Nat)
          /\ Len(SubSeq(items, offset + 1, last)) =
                IF offset + 1 <= last THEN last - (offset + 1) + 1 ELSE 0
          /\ \A i \in 1 .. last - (offset + 1) + 1 :
                SubSeq(items, offset + 1, last)[i] = items[offset + 1 + i - 1]
        <3>1. \A i \in offset + 1 .. last : items[i] \in Nat
            BY <1>1, <1>2
        <3>2. offset + 1 \in Int /\ last \in Int
            BY <1>1, <1>2
        <3> QED
            BY <3>1, <3>2, SubSeqProperties
    <2>3. \A i \in 1 .. Len(Answer(offset)) :
              offset + i <= Len(items) /\ Answer(offset)[i] = items[offset + i]
        BY <1>1, <1>2, <2>1, <2>2
    <2>4. Answer(offset) = <<>> => Len(items) <= offset
        <3> SUFFICES ASSUME Answer(offset) = <<>> PROVE Len(items) <= offset
            OBVIOUS
        <3>1. Len(SubSeq(items, offset + 1, last)) = 0
            BY <2>1, EmptySeq
        <3>2. ~(offset + 1 <= last)
            BY <1>1, <1>2, <2>2, <3>1
        <3> QED
            BY <1>1, <1>2, <3>2
    <2> QED
        BY <2>1, <2>2, <2>3, <2>4
<1>4. CASE ~(opts.accounts /\ ~broken)
    BY <1>4, EmptySeq DEF Answer
<1> QED
    BY <1>3, <1>4

\* Different items have different places only if there are enough.
LEMMA Places ==
    ASSUME NEW a \in Nat, NEW b \in Nat, NEW f \in [1 .. a -> 1 .. b],
           \A m, n \in 1 .. a : f[m] = f[n] => m = n
    PROVE  a <= b
<1> SUFFICES ASSUME b < a PROVE FALSE
    OBVIOUS
<1>1. /\ IsFiniteSet(1 .. a) /\ Cardinality(1 .. a) = a
      /\ IsFiniteSet(1 .. b) /\ Cardinality(1 .. b) = b
    <2>1. 1 \in Int /\ a \in Int /\ b \in Int
        OBVIOUS
    <2>2. /\ IsFiniteSet(1 .. a) /\ Cardinality(1 .. a) = IF 1 > a THEN 0 ELSE a - 1 + 1
          /\ IsFiniteSet(1 .. b) /\ Cardinality(1 .. b) = IF 1 > b THEN 0 ELSE b - 1 + 1
        BY <2>1, FS_Interval
    <2> QED
        BY <2>2
<1>2. \E m, n \in 1 .. a : m # n /\ f[m] = f[n]
    <2>1. Cardinality(1 .. b) < Cardinality(1 .. a)
        BY <1>1
    <2> QED
        BY <1>1, <2>1, FS_PigeonHole
<1> QED
    BY <1>2

\* What handing a page over does to what was given.
LEMMA PageHanded ==
    ASSUME IInv, UNCHANGED <<asked, system>>, Hand(Answer(offset)),
           offset' = offset + Len(Answer(offset))
    PROVE  /\ offset' \in Nat /\ offset <= offset'
           /\ given' \in Seq(Nat)
           /\ \A i \in 1 .. Len(given') : given'[i] \in 1 .. came'
           /\ offset' = opts'.offset + Len(given')
           /\ Behind' /\ Once'
           /\ \A g \in 1 .. Len(given) : g \in 1 .. Len(given') /\ given'[g] = given[g]
           /\ \A k \in 1 .. Len(items) : offset < k /\ k <= offset' =>
                 \E g \in 1 .. Len(given') : given'[g] = items[k]
<1> DEFINE page == Answer(offset)
<1>1. /\ page \in Seq(Nat)
      /\ \A i \in 1 .. Len(page) : offset + i <= Len(items) /\ page[i] = items[offset + i]
    BY PageKnown DEF IInv
<1>2. given' = given \o page /\ offset' = offset + Len(page)
    BY DEF Hand
<1>3. /\ given \in Seq(Nat) /\ items \in Seq(Nat) /\ offset \in Nat
      /\ Len(given) \in Nat /\ Len(items) \in Nat
      /\ \A i \in 1 .. Len(given) : given[i] \in Nat
      /\ \A i \in 1 .. Len(items) : items[i] \in Nat
      /\ opts.offset \in Nat
    BY LenProperties, ElementOfSeq DEF IInv, Types
<1> HIDE DEF page
<1>4. Len(page) \in Nat
    BY <1>1, LenProperties
<1>5. /\ given' \in Seq(Nat) /\ Len(given') = Len(given) + Len(page)
      /\ \A i \in 1 .. Len(given) : given'[i] = given[i]
      /\ \A i \in 1 .. Len(page) : given'[Len(given) + i] = items[offset + i]
    <2>1. /\ given \o page \in Seq(Nat) /\ Len(given \o page) = Len(given) + Len(page)
          /\ \A i \in 1 .. Len(given) + Len(page) : (given \o page)[i] =
                 IF i <= Len(given) THEN given[i] ELSE page[i - Len(given)]
        BY <1>1, <1>3, ConcatProperties
    <2>2. \A i \in 1 .. Len(given) : (given \o page)[i] = given[i]
        BY <1>3, <1>4, <2>1
    <2>3. \A i \in 1 .. Len(page) : (given \o page)[Len(given) + i] = page[i]
        BY <1>3, <1>4, <2>1
    <2> QED
        BY <1>1, <1>2, <2>1, <2>2, <2>3
<1>6. \A g \in 1 .. Len(given') :
          \/ g \in 1 .. Len(given)
          \/ \E i \in 1 .. Len(page) : g = Len(given) + i
    <2> SUFFICES ASSUME NEW g \in 1 .. Len(given'), g \notin 1 .. Len(given)
                 PROVE  g - Len(given) \in 1 .. Len(page) /\ g = Len(given) + (g - Len(given))
        OBVIOUS
    <2> QED
        BY <1>3, <1>4, <1>5
<1>7. /\ items' = items /\ came' = came /\ left' = left /\ opts' = opts
      /\ pushed' = pushed
    BY DEF system, asked
<1>8. \A i \in 1 .. Len(page) : offset + i \in 1 .. Len(items)
    BY <1>1, <1>3, <1>4
<1>9. \A i \in 1 .. Len(given') : given'[i] \in 1 .. came'
    BY <1>5, <1>6, <1>7, <1>8 DEF IInv, Known
<1>10. Once'
    <2> SUFFICES ASSUME NEW g \in 1 .. Len(given'), NEW h \in 1 .. Len(given'), g < h,
                        given'[g] = given'[h], given'[g] \notin pushed
                 PROVE  FALSE
        BY <1>7 DEF Once
    <2>1. CASE h \in 1 .. Len(given)
        <3>1. g \in 1 .. Len(given)
            BY <1>3, <2>1
        <3> QED
            BY <1>5, <2>1, <3>1 DEF IInv, Once
    <2>2. CASE h \notin 1 .. Len(given)
        <3>1. PICK j \in 1 .. Len(page) : h = Len(given) + j
            BY <1>6, <2>2
        <3>2. given'[h] = items[offset + j]
            BY <1>5, <3>1
        <3>3. CASE g \in 1 .. Len(given)
            <4>1. offset + j <= offset
                BY <1>5, <1>8, <3>2, <3>3 DEF IInv, Behind
            <4> QED
                BY <1>3, <1>4, <4>1
        <3>4. CASE g \notin 1 .. Len(given)
            <4>1. PICK i \in 1 .. Len(page) : g = Len(given) + i
                BY <1>6, <3>4
            <4>2. offset + i = offset + j
                BY <1>5, <1>8, <3>2, <4>1 DEF IInv, Single
            <4> QED
                BY <1>3, <1>4, <3>1, <4>1, <4>2
        <3> QED
            BY <3>3, <3>4
    <2> QED
        BY <2>1, <2>2
<1>11. Behind'
    <2> SUFFICES ASSUME NEW g \in 1 .. Len(given'), NEW k \in 1 .. Len(items),
                        given'[g] = items[k], given'[g] \notin pushed
                 PROVE  k <= offset'
        BY <1>7 DEF Behind
    <2>1. CASE g \in 1 .. Len(given)
        <3>1. k <= offset
            BY <1>5, <2>1 DEF IInv, Behind
        <3> QED
            BY <1>2, <1>3, <1>4, <3>1
    <2>2. CASE g \notin 1 .. Len(given)
        <3>1. PICK i \in 1 .. Len(page) : g = Len(given) + i
            BY <1>6, <2>2
        <3>2. k = offset + i
            BY <1>5, <1>8, <3>1 DEF IInv, Single
        <3> QED
            BY <1>2, <1>3, <1>4, <3>2
    <2> QED
        BY <2>1, <2>2
<1>12. \A k \in 1 .. Len(items) : offset < k /\ k <= offset' =>
           \E g \in 1 .. Len(given') : given'[g] = items[k]
    <2> SUFFICES ASSUME NEW k \in 1 .. Len(items), offset < k, k <= offset'
                 PROVE  \E g \in 1 .. Len(given') : given'[g] = items[k]
        OBVIOUS
    <2>1. k - offset \in 1 .. Len(page) /\ offset + (k - offset) = k
        <3>1. k \in Int /\ offset < k /\ k <= offset + Len(page)
            BY <1>2, <1>3
        <3>2. offset \in Nat /\ Len(page) \in Nat
            BY <1>3, <1>4
        <3> QED
            BY <3>1, <3>2
    <2>2. Len(given) + (k - offset) \in 1 .. Len(given')
        BY <1>3, <1>4, <1>5, <2>1
    <2> QED
        BY <1>5, <2>1, <2>2
<1>13. offset' = opts'.offset + Len(given')
    BY <1>2, <1>3, <1>4, <1>5, <1>7 DEF IInv, Known
<1>14. /\ offset' \in Nat /\ offset <= offset'
       /\ \A g \in 1 .. Len(given) : g \in 1 .. Len(given')
    BY <1>2, <1>3, <1>4, <1>5
<1> QED
    BY <1>5, <1>9, <1>10, <1>11, <1>12, <1>13, <1>14
-----------------------------------------------------------------------------
(* The steps of the iterator.                                              *)

\* A page is handed over, and the loop goes on, is left, or has passed the end.
LEMMA PageStep ==
    ASSUME IInv, UNCHANGED <<asked, system>>, pc # "ended", pc' \in {"next", "ended"},
           Hand(Answer(offset)), offset' = offset + Len(Answer(offset)), Begin,
           why' \in {"done", "refused", "stopped", "failed"},
           pc' = "ended" /\ why' = "done" /\ opts.accounts => Len(items) <= offset'
    PROVE  IInv'
<1>1. /\ offset' \in Nat /\ offset <= offset' /\ given' \in Seq(Nat)
      /\ \A i \in 1 .. Len(given') : given'[i] \in 1 .. came'
      /\ offset' = opts'.offset + Len(given')
      /\ Behind' /\ Once'
      /\ \A g \in 1 .. Len(given) : g \in 1 .. Len(given') /\ given'[g] = given[g]
      /\ \A k \in 1 .. Len(items) : offset < k /\ k <= offset' =>
            \E g \in 1 .. Len(given') : given'[g] = items[k]
    BY PageHanded
<1>2. /\ items' = items /\ came' = came /\ left' = left /\ pushed' = pushed
      /\ pulled' = pulled /\ broken' = broken
      /\ endpoint' = endpoint /\ order' = order /\ ping' = ping /\ opts' = opts
    BY DEF system, asked
<1>3. <<>> \in Seq(Nat) /\ Len(<<>>) = 0
    BY EmptySeq
<1>4. \/ pc # "first" /\ initial' = initial
      \/ pc = "first" /\ initial' = <<>>
      \/ pc = "first" /\ initial' = items
    BY DEF Begin
<1>5. /\ Len(items) \in Nat /\ Len(initial) \in Nat /\ offset \in Nat
      /\ opts.offset \in Nat /\ Len(given) \in Nat
    <2>1. items \in Seq(Nat) /\ initial \in Seq(Nat) /\ given \in Seq(Nat)
        BY DEF IInv, Types
    <2> QED
        BY <2>1, LenProperties DEF IInv, Types
<1>6. initial' \in Seq(Nat)
    BY <1>3, <1>4 DEF IInv, Types
<1>7. Types'
    BY <1>1, <1>2, <1>6 DEF IInv, Types
<1>8. Known'
    <2>1. \A k \in 1 .. Len(initial') : initial'[k] \in 1 .. came
        BY <1>3, <1>4 DEF IInv, Known
    <2> QED
        BY <1>1, <1>2, <2>1 DEF IInv, Known
<1>9. Single(items)' /\ Ordered'
    BY <1>2 DEF IInv, Single, Ordered
<1>10. Kept'
    <2>1. CASE pc # "first"
        BY <1>2, <1>4, <2>1 DEF IInv, Kept
    <2>2. CASE initial' = <<>>
        BY <1>3, <2>2 DEF Kept
    <2>3. CASE initial' = items
        <3>1. \A k \in 1 .. Len(items) : k <= k
            BY <1>5
        <3> QED
            BY <1>2, <2>3, <3>1 DEF Kept
    <2> QED
        BY <1>4, <2>1, <2>2, <2>3
<1>11. Covered'
    <2> SUFFICES ASSUME NEW k \in 1 .. Len(initial'), NEW j \in 1 .. Len(items),
                        opts.offset < k, items[j] = initial'[k], j <= offset',
                        initial'[k] \notin pulled
                 PROVE  \E g \in 1 .. Len(given') : given'[g] = initial'[k]
        BY <1>2 DEF Covered, WasGiven
    <2>1. CASE offset < j
        BY <1>1, <2>1
    <2>2. CASE j <= offset
        <3>1. CASE pc # "first"
            <4>1. WasGiven(initial[k]) /\ initial' = initial
                BY <1>4, <2>2, <3>1 DEF IInv, Covered
            <4> QED
                BY <1>1, <4>1 DEF WasGiven
        <3>2. CASE pc = "first"
            <4>1. offset = opts.offset
                BY <1>3, <1>5, <3>2 DEF IInv, Fresh, Known
            <4>2. initial' = items /\ k \in 1 .. Len(items)
                BY <1>3, <1>4, <3>2
            <4>3. j = k
                BY <4>2 DEF IInv, Single
            <4> QED
                BY <1>5, <2>2, <4>1, <4>2, <4>3
        <3> QED
            BY <3>1, <3>2
    <2> QED
        BY <1>5, <2>1, <2>2
<1>12. Passed'
    BY <1>2 DEF Passed
<1>13. Fresh'
    BY DEF Fresh
<1> QED
    BY <1>1, <1>7, <1>8, <1>9, <1>10, <1>11, <1>12, <1>13 DEF IInv

\* The loop ends without another page, which it does by itself only if it has as
\* many as there were, or gives no pages.
LEMMA EndStep ==
    ASSUME IInv, UNCHANGED <<asked, system, offset, given>>, pc # "ended", pc' = "ended",
           initial' = initial \/ Begin,
           why' \in {"done", "refused", "stopped", "failed"},
           why' = "done" /\ opts.accounts =>
               ping /\ initial' = initial /\ Len(initial) <= offset
    PROVE  IInv'
<1>1. /\ items' = items /\ came' = came /\ left' = left /\ pushed' = pushed
      /\ pulled' = pulled /\ broken' = broken /\ given' = given
      /\ endpoint' = endpoint /\ order' = order /\ ping' = ping /\ opts' = opts
      /\ offset' = offset
    BY DEF system, asked
<1>2. <<>> \in Seq(Nat) /\ Len(<<>>) = 0
    BY EmptySeq
<1>3. \/ pc # "first" /\ initial' = initial
      \/ pc = "first" /\ initial' = <<>>
      \/ pc = "first" /\ initial' = items
    BY DEF Begin, IInv, Fresh
<1>4. /\ initial \in Seq(Nat) /\ items \in Seq(Nat) /\ Len(items) \in Nat /\ offset \in Nat
      /\ opts.offset \in Nat
    BY LenProperties DEF IInv, Types
<1>5. Types'
    BY <1>1, <1>2, <1>3, <1>4 DEF IInv, Types
<1>6. Known'
    <2>1. \A k \in 1 .. Len(initial') : initial'[k] \in 1 .. came
        BY <1>2, <1>3 DEF IInv, Known
    <2> QED
        BY <1>1, <2>1 DEF IInv, Known
<1>7. Single(items)' /\ Behind' /\ Once' /\ Ordered'
    BY <1>1 DEF IInv, Single, Behind, Once, Ordered
<1>8. Kept'
    <2>1. CASE pc # "first"
        BY <1>1, <1>3, <2>1 DEF IInv, Kept
    <2>2. CASE initial' = <<>>
        BY <1>2, <2>2 DEF Kept
    <2>3. CASE initial' = items
        <3>1. \A k \in 1 .. Len(items) : k <= k
            BY <1>4
        <3> QED
            BY <1>1, <2>3, <3>1 DEF Kept
    <2> QED
        BY <1>3, <2>1, <2>2, <2>3
<1>9. Covered'
    <2>1. CASE pc # "first"
        BY <1>1, <1>3, <2>1 DEF IInv, Covered, WasGiven
    <2>2. CASE initial' = <<>>
        BY <1>2, <2>2 DEF Covered
    <2>3. CASE pc = "first" /\ initial' = items
        <3>1. offset = opts.offset
            BY <1>2, <1>4, <2>3 DEF IInv, Fresh, Known
        <3>2. \A k, j \in 1 .. Len(items) : items[j] = items[k] => j = k
            BY DEF IInv, Single
        <3>3. \A k \in 1 .. Len(items) : ~(opts.offset < k /\ k <= offset)
            BY <1>4, <3>1
        <3> QED
            BY <1>1, <2>3, <3>2, <3>3 DEF Covered
    <2> QED
        BY <1>3, <2>1, <2>2, <2>3
<1>10. Passed'
    BY <1>1 DEF Passed
<1> QED
    BY <1>5, <1>6, <1>7, <1>8, <1>9, <1>10 DEF IInv, Fresh
-----------------------------------------------------------------------------
(* The steps of the server.                                                *)

\* Every item but the last of the new list is one of the old list.
Grown(old, new) ==
    \A i \in 1 .. Len(new) : i < Len(new) => \E m \in 1 .. Len(old) : new[i] = old[m]

\* In a list that grows at its end, nothing is pushed.
LEMMA NonePushed ==
    ASSUME NEW old \in Seq(Nat), NEW new \in Seq(Nat),
           Single(new), Grown(old, new), SameOrder(old, new)
    PROVE  \A i \in 1 .. Len(old), j \in 1 .. Len(new) : i < j => old[i] # new[j]
<1>1. /\ Len(old) \in Nat /\ Len(new) \in Nat
      /\ DOMAIN old = 1 .. Len(old) /\ DOMAIN new = 1 .. Len(new)
    BY LenProperties
<1>2. SUFFICES ASSUME NEW i \in 1 .. Len(old), NEW j \in 1 .. Len(new),
                      i < j, old[i] = new[j]
               PROVE  FALSE
    OBVIOUS
<1>3. i \in Nat /\ j \in Nat /\ j <= Len(new)
    BY <1>1
<1>4. ASSUME NEW m \in 1 .. j PROVE \E n \in 1 .. i : new[m] = old[n]
    <2>1. CASE m = j
        <3>1. i \in 1 .. i
            BY <1>1
        <3> QED
            BY <1>2, <2>1, <3>1
    <2>2. CASE m # j
        <3>1. m \in 1 .. Len(new) /\ m < j /\ m < Len(new)
            BY <1>1, <1>3, <2>2
        <3>2. PICK n \in 1 .. Len(old) : new[m] = old[n]
            BY <3>1 DEF Grown
        <3>3. i < n => j < m
            BY <1>1, <1>2, <3>1, <3>2 DEF SameOrder
        <3>4. n \in 1 .. i
            BY <1>1, <1>3, <3>1, <3>3
        <3> QED
            BY <3>2, <3>4
    <2> QED
        BY <2>1, <2>2
<1>5. \A m, n \in 1 .. j : new[m] = new[n] => m = n
    <2>1. \A m \in 1 .. j : m \in 1 .. Len(new)
        BY <1>1, <1>3
    <2> QED
        BY <2>1 DEF Single
<1> DEFINE f == [m \in 1 .. j |-> CHOOSE n \in 1 .. i : new[m] = old[n]]
<1>6. \A m \in 1 .. j : f[m] \in 1 .. i /\ new[m] = old[f[m]]
    BY <1>4
<1>7. f \in [1 .. j -> 1 .. i]
    BY <1>6
<1> HIDE DEF f
<1>8. \A m, n \in 1 .. j : f[m] = f[n] => m = n
    BY <1>5, <1>6
<1>9. j <= i
    BY <1>3, <1>7, <1>8, Places
<1> QED
    BY <1>2, <1>3, <1>9

\* Nothing is pulled in a list that keeps its order and all its items.
LEMMA NonePulled ==
    ASSUME NEW old \in Seq(Nat), NEW new \in Seq(Nat), Single(old), SameOrder(old, new),
           ToSet(old) \subseteq ToSet(new)
    PROVE  \A i \in 1 .. Len(new), j \in 1 .. Len(old) : i < j => new[i] # old[j]
<1>1. /\ Len(old) \in Nat /\ Len(new) \in Nat
      /\ DOMAIN old = 1 .. Len(old) /\ DOMAIN new = 1 .. Len(new)
    BY LenProperties
<1>2. SUFFICES ASSUME NEW i \in 1 .. Len(new), NEW j \in 1 .. Len(old),
                      i < j, new[i] = old[j]
               PROVE  FALSE
    OBVIOUS
<1>3. i \in Nat /\ j \in Nat /\ j <= Len(old)
    BY <1>1
<1>4. ASSUME NEW m \in 1 .. j PROVE \E n \in 1 .. i : old[m] = new[n]
    <2>1. CASE m = j
        <3>1. i \in 1 .. i
            BY <1>1
        <3> QED
            BY <1>2, <2>1, <3>1
    <2>2. CASE m # j
        <3>1. m \in 1 .. Len(old) /\ m < j
            BY <1>1, <1>3, <2>2
        <3>2. PICK n \in 1 .. Len(new) : old[m] = new[n]
            BY <1>1, <3>1 DEF ToSet
        <3>3. n < i
            BY <1>1, <1>2, <3>1, <3>2 DEF SameOrder
        <3>4. n \in 1 .. i
            BY <1>1, <1>3, <3>3
        <3> QED
            BY <3>2, <3>4
    <2> QED
        BY <2>1, <2>2
<1>5. \A m, n \in 1 .. j : old[m] = old[n] => m = n
    <2>1. \A m \in 1 .. j : m \in 1 .. Len(old)
        BY <1>1, <1>3
    <2> QED
        BY <2>1 DEF Single
<1> DEFINE f == [m \in 1 .. j |-> CHOOSE n \in 1 .. i : old[m] = new[n]]
<1>6. \A m \in 1 .. j : f[m] \in 1 .. i /\ old[m] = new[f[m]]
    BY <1>4
<1>7. f \in [1 .. j -> 1 .. i]
    BY <1>6
<1> HIDE DEF f
<1>8. \A m, n \in 1 .. j : f[m] = f[n] => m = n
    BY <1>5, <1>6
<1>9. j <= i
    BY <1>3, <1>7, <1>8, Places
<1> QED
    BY <1>2, <1>3, <1>9

\* The list changes in its order.
LEMMA RelistStep == ASSUME IInv, NEW new \in Lists, Relist(new) PROVE IInv'
<1>1. /\ pc # "ended" /\ items' = new /\ IsInjective(new)
      /\ ToSet(new) \subseteq ToSet(items) \cup {came + 1}
      /\ order # "shifting" => SameOrder(items, new)
      /\ order = "atEnd" => \A i \in DOMAIN new : i < Len(new) => new[i] # came + 1
      /\ came' = IF came + 1 \in ToSet(new) THEN came + 1 ELSE came
      /\ UNCHANGED <<asked, broken, initial, offset, pc, why, given>>
    BY DEF Relist
<1>2. IF pc = "first" THEN UNCHANGED <<left, pushed, pulled>>
      ELSE /\ left' = left \cup (ToSet(items) \ ToSet(new))
           /\ pushed' = pushed \cup Moved(items, new)
           /\ pulled' = pulled \cup Moved(new, items)
    BY DEF Relist
<1>3. /\ MaxItems \in Nat /\ came \in Nat
      /\ items \in Seq(Nat) /\ Len(items) \in Nat /\ DOMAIN items = 1 .. Len(items)
      /\ offset \in Nat /\ Len(initial) \in Nat
    BY ServerPagesAssumption, LenProperties DEF IInv, Types
<1>4. PICK n \in 0 .. MaxItems : new \in [1 .. n -> 1 .. MaxItems]
    BY DEF Lists
<1>5. /\ new \in Seq(Nat) /\ DOMAIN new = 1 .. Len(new) /\ Len(new) \in Nat
      /\ \A i \in 1 .. Len(new) : new[i] \in 1 .. MaxItems
    <2>1. new \in Seq(1 .. MaxItems) /\ new \in Seq(Nat)
        BY <1>3, <1>4
    <2> QED
        BY <2>1, LenProperties, ElementOfSeq
<1>6. \A i, j \in 1 .. Len(new) : new[i] = new[j] => i = j
    BY <1>1, <1>5 DEF IsInjective
<1>7. \A i \in 1 .. Len(new) :
          new[i] = came + 1 \/ \E m \in 1 .. Len(items) : new[i] = items[m]
    BY <1>1, <1>3, <1>5 DEF ToSet
<1>8. \A i \in 1 .. Len(new) : new[i] \in 1 .. came =>
          \E m \in 1 .. Len(items) : new[i] = items[m]
    BY <1>3, <1>7
<1>9. /\ came' \in 0 .. MaxItems /\ 1 .. came \subseteq 1 .. came'
      /\ \A i \in 1 .. Len(new) : new[i] = came + 1 => came' = came + 1
    <2>1. came \in 0 .. MaxItems /\ ToSet(new) \subseteq 1 .. MaxItems
          /\ \A i \in 1 .. Len(new) : new[i] \in ToSet(new)
        BY <1>5 DEF IInv, Types, ToSet
    <2> QED
        BY <1>1, <1>3, <2>1
<1>10. /\ \A x \in left' : x \in left \/ x \notin ToSet(new)
       /\ \A x \in left' : x \in left \/ x \in ToSet(items)
       /\ left \subseteq left' /\ pushed \subseteq pushed' /\ pulled \subseteq pulled'
    BY <1>2
<1>11. \A i \in 1 .. Len(items) : items[i] \in 1 .. came /\ items[i] \notin left
    BY DEF IInv, Known
<1>12. Types'
    BY <1>1, <1>5, <1>9 DEF IInv, Types, asked
<1>13. Known'
    <2>1. ASSUME NEW i \in 1 .. Len(new) PROVE new[i] \in 1 .. came'
        <3>1. CASE new[i] = came + 1
            BY <1>3, <1>9, <3>1
        <3>2. CASE \E m \in 1 .. Len(items) : new[i] = items[m]
            BY <1>9, <1>11, <3>2
        <3> QED
            BY <1>7, <3>1, <3>2
    <2>2. \A i \in 1 .. Len(new) : new[i] \notin left
        BY <1>3, <1>7, <1>11 DEF IInv, Known
    <2>3. \A i \in 1 .. Len(new) : new[i] \in ToSet(new)
        BY <1>5 DEF ToSet
    <2>4. left' \subseteq 1 .. came'
        <3>1. ToSet(items) \subseteq 1 .. came
            BY <1>3, <1>11 DEF ToSet
        <3> QED
            BY <1>9, <1>10, <3>1 DEF IInv, Known
    <2>5. /\ \A i \in 1 .. Len(initial) : initial[i] \in 1 .. came'
          /\ \A i \in 1 .. Len(given) : given[i] \in 1 .. came'
          /\ offset = opts.offset + Len(given)
        BY <1>9 DEF IInv, Known
    <2> QED
        BY <1>1, <1>10, <2>1, <2>2, <2>3, <2>4, <2>5 DEF Known, asked
<1>14. Single(new) /\ Single(items)'
    BY <1>1, <1>6 DEF Single
\* Where an item of both lists has moved, it is in one of the two sets.
<1>15. ASSUME pc # "first", NEW i \in 1 .. Len(items), NEW j \in 1 .. Len(new),
              items[i] = new[j]
       PROVE  (i < j => items[i] \in pushed') /\ (j < i => items[i] \in pulled')
    <2>1. items[i] \in 1 .. MaxItems
        BY <1>5, <1>15
    <2> QED
        BY <1>2, <1>3, <1>5, <1>15, <2>1 DEF Moved
<1>16. Behind'
    <2> SUFFICES ASSUME NEW g \in 1 .. Len(given), NEW j \in 1 .. Len(new),
                        given[g] = new[j], given[g] \notin pushed'
                 PROVE  j <= offset
        BY <1>1 DEF Behind
    <2>1. pc # "first"
        BY EmptySeq DEF IInv, Fresh
    <2>2. given[g] \in 1 .. came
        BY DEF IInv, Known
    <2>3. PICK i \in 1 .. Len(items) : new[j] = items[i]
        BY <1>8, <2>2
    <2>4. i <= offset
        BY <1>10, <2>3 DEF IInv, Behind
    <2>5. ~(i < j)
        BY <1>15, <2>1, <2>3
    <2> QED
        BY <1>3, <1>5, <2>4, <2>5
<1>17. Once'
    BY <1>1, <1>10 DEF IInv, Once
<1>18. Kept'
    <2> SUFFICES ASSUME pc # "first", NEW k \in 1 .. Len(initial),
                        initial[k] \notin left', initial[k] \notin pulled'
                 PROVE  \E j \in 1 .. Len(new) : /\ k <= j /\ new[j] = initial[k]
                                                 /\ initial[k] \in pushed' \/ j = k
        BY <1>1 DEF Kept
    <2>1. PICK i \in 1 .. Len(items) : /\ k <= i /\ items[i] = initial[k]
                                       /\ initial[k] \in pushed \/ i = k
        BY <1>10 DEF IInv, Kept
    <2>2. initial[k] \in ToSet(new)
        BY <1>2, <1>3, <2>1 DEF ToSet
    <2>3. PICK j \in 1 .. Len(new) : new[j] = initial[k]
        BY <1>5, <2>2 DEF ToSet
    <2>4. ~(j < i) /\ (i < j => initial[k] \in pushed')
        BY <1>15, <2>1, <2>3
    <2>5. k <= j /\ (i = j \/ i < j)
        BY <1>3, <1>5, <2>1, <2>4
    <2>6. initial[k] \in pushed' \/ j = k
        BY <1>10, <2>1, <2>4, <2>5
    <2> QED
        BY <2>3, <2>5, <2>6
<1>19. Covered'
    <2> SUFFICES ASSUME pc # "first", NEW k \in 1 .. Len(initial), NEW j \in 1 .. Len(new),
                        opts.offset < k, new[j] = initial[k], j <= offset,
                        initial[k] \notin pulled'
                 PROVE  WasGiven(initial[k])
        BY <1>1 DEF Covered, WasGiven, asked
    <2>1. initial[k] \in 1 .. came
        BY DEF IInv, Known
    <2>2. PICK i \in 1 .. Len(items) : new[j] = items[i]
        BY <1>8, <2>1
    <2>3. ~(j < i)
        BY <1>15, <2>2
    <2>4. i <= offset
        BY <1>3, <1>5, <2>3
    <2> QED
        BY <1>10, <2>2, <2>4 DEF IInv, Covered
<1>20. Ordered'
    <2>1. CASE pc = "first"
        BY <1>1, <1>2, <2>1 DEF IInv, Ordered, asked
    <2>2. CASE pc # "first"
        <3>1. ASSUME order = "atEnd" PROVE pushed' = {}
            <4>1. pushed = {}
                BY <3>1 DEF IInv, Ordered
            <4>2. SameOrder(items, new)
                BY <1>1, <3>1
            <4>3. \A i \in 1 .. Len(new) : i < Len(new) => new[i] # came + 1
                BY <1>1, <1>5, <3>1
            <4>4. ASSUME NEW x \in Moved(items, new) PROVE FALSE
                <5>1. \E i \in 1 .. Len(items), j \in 1 .. Len(new) :
                          i < j /\ items[i] = new[j]
                    BY <1>3, <1>5 DEF Moved
                <5>2. Grown(items, new)
                    BY <1>7, <4>3 DEF Grown
                <5>3. \A i \in 1 .. Len(items), j \in 1 .. Len(new) :
                          i < j => items[i] # new[j]
                    BY <1>3, <1>5, <1>14, <4>2, <5>2, NonePushed
                <5> QED
                    BY <5>1, <5>3
            <4> QED
                BY <1>2, <2>2, <4>1, <4>4
        <3>2. ASSUME order # "shifting", left' = {} PROVE pulled' = {}
            <4>1. left = {} /\ pulled = {}
                BY <1>10, <3>2 DEF IInv, Ordered
            <4>2. SameOrder(items, new)
                BY <1>1, <3>2
            <4>3. ToSet(items) \subseteq ToSet(new)
                BY <1>2, <2>2, <3>2
            <4>4. Single(items)
                BY DEF IInv
            <4>5. ASSUME NEW x \in Moved(new, items) PROVE FALSE
                <5>1. \E i \in 1 .. Len(new), j \in 1 .. Len(items) :
                          i < j /\ new[i] = items[j]
                    BY <1>3, <1>5 DEF Moved
                <5>2. \A i \in 1 .. Len(new), j \in 1 .. Len(items) :
                          i < j => new[i] # items[j]
                    BY <1>3, <1>5, <4>2, <4>3, <4>4, NonePulled
                <5> QED
                    BY <5>1, <5>2
            <4> QED
                BY <1>2, <2>2, <4>1, <4>5
        <3> QED
            BY <1>1, <3>1, <3>2 DEF Ordered, asked
    <2> QED
        BY <2>1, <2>2
<1>21. Passed' /\ Fresh'
    BY <1>1, <1>2 DEF IInv, Passed, Fresh
<1> QED
    BY <1>12, <1>13, <1>14, <1>16, <1>17, <1>18, <1>19, <1>20, <1>21 DEF IInv

\* The server begins or ceases to answer with an error.
LEMMA TurnStep == ASSUME IInv, Turn PROVE IInv'
<1>1. /\ UNCHANGED <<endpoint, order, ping, opts, items, came, left, pushed, pulled>>
      /\ UNCHANGED <<initial, offset, pc, why, given>> /\ broken' = ~broken
    BY DEF Turn, asked
<1>2. Types'
    BY <1>1 DEF IInv, Types
<1>3. Known' /\ Single(items)' /\ Behind' /\ Once'
    BY <1>1 DEF IInv, Known, Single, Behind, Once
<1>4. Kept' /\ Covered'
    BY <1>1 DEF IInv, Kept, Covered, WasGiven
<1>5. Passed' /\ Ordered' /\ Fresh'
    BY <1>1 DEF IInv, Passed, Ordered, Fresh
<1> QED
    BY <1>2, <1>3, <1>4, <1>5 DEF IInv
-----------------------------------------------------------------------------
\* A step of the iterator is one of the two kinds.
LEMMA IterateStep == ASSUME IInv, Iterate PROVE IInv'
<1>1. ASSUME NextOfServer PROVE IInv'
    <2>1. /\ pc' \in {"next", "ended"} /\ why' \in {"done", "refused", "stopped", "failed"}
          /\ pc' = "ended" /\ why' = "done" =>
                ~broken /\ (offset' >= Len(items) \/ Answer(offset) = <<>>)
        BY <1>1 DEF NextOfServer, End, Verdict, IInv, Types
    <2>2. pc' = "ended" /\ why' = "done" /\ opts.accounts => Len(items) <= offset'
        <3>1. /\ offset \in Nat /\ Answer(offset) \in Seq(Nat) /\ Len(items) \in Nat
              /\ opts.accounts /\ ~broken /\ Answer(offset) = <<>> => Len(items) <= offset
            BY PageKnown, LenProperties DEF IInv, Types
        <3>2. Len(Answer(offset)) \in Nat
            BY <3>1, LenProperties
        <3>3. offset' = offset + Len(Answer(offset))
            BY <1>1 DEF NextOfServer
        <3> QED
            BY <2>1, <3>1, <3>2, <3>3
    <2>3. /\ UNCHANGED <<asked, system>> /\ pc # "ended" /\ Hand(Answer(offset))
          /\ offset' = offset + Len(Answer(offset)) /\ Begin
        BY <1>1 DEF NextOfServer
    <2> QED
        BY <2>1, <2>2, <2>3, PageStep
<1>2. ASSUME FirstOfPing PROVE IInv'
    <2>1. /\ UNCHANGED <<asked, system>> /\ pc # "ended" /\ Hand(Answer(offset))
          /\ offset' = offset + Len(Answer(offset)) /\ Begin
          /\ pc' \in {"next", "ended"} /\ why' \in {"done", "refused", "stopped", "failed"}
          /\ ~(pc' = "ended" /\ why' = "done")
        BY <1>2 DEF FirstOfPing, End, IInv, Types
    <2> QED
        BY <2>1, PageStep
<1>3. ASSUME NextOfPing PROVE IInv'
    <2>1. pc = "next" /\ ping /\ UNCHANGED <<asked, system, initial>>
        BY <1>3 DEF NextOfPing
    <2>2. CASE offset >= Len(initial) /\ End("done") /\ UNCHANGED <<offset, given>>
        <3>1. offset \in Nat /\ Len(initial) \in Nat
            BY LenProperties DEF IInv, Types
        <3>2. /\ Len(initial) <= offset /\ pc' = "ended" /\ why' = "done"
              /\ UNCHANGED <<asked, system, offset, given>>
            BY <2>1, <2>2, <3>1 DEF End
        <3> QED
            BY <2>1, <3>2, EndStep
    <2>3. CASE /\ Hand(Answer(offset)) /\ offset' = offset + Len(Answer(offset))
               /\ End("stopped") \/ UNCHANGED <<pc, why>>
        <3>1. /\ pc' \in {"next", "ended"} /\ why' \in {"done", "refused", "stopped", "failed"}
              /\ ~(pc' = "ended" /\ why' = "done") /\ Begin
            BY <2>1, <2>3 DEF Begin, End, IInv, Types
        <3> QED
            BY <2>1, <2>3, <3>1, PageStep
    <2> QED
        BY <1>3, <2>2, <2>3 DEF NextOfPing
<1>4. ASSUME OnlyAnswer, ~opts.accounts PROVE IInv'
    <2>1. /\ UNCHANGED <<asked, system, offset, given>> /\ pc # "ended" /\ pc' = "ended"
          /\ Begin /\ why' \in {"done", "refused", "stopped", "failed"}
        BY <1>4 DEF OnlyAnswer, End, Verdict
    <2> QED
        BY <1>4, <2>1, EndStep
<1> QED
    BY <1>1, <1>2, <1>3, <1>4
       DEF Iterate, AllConnz, AllServerSubsz, AllJsz, AllConnzPing, AllServerSubszPing,
           AllJszPing

LEMMA Inductive == IInv /\ [Next]_vars => IInv'
<1> SUFFICES ASSUME IInv, [Next]_vars PROVE IInv'
    OBVIOUS
<1>1. CASE RequestFails
    <2>1. /\ UNCHANGED <<asked, system, offset, given>> /\ pc # "ended" /\ pc' = "ended"
          /\ initial' = initial /\ why' = "failed"
        BY <1>1 DEF RequestFails, End
    <2> QED
        BY <2>1, EndStep
<1>2. CASE UNCHANGED vars
    <2>1. /\ UNCHANGED <<endpoint, order, ping, opts, items, came, left, pushed, pulled>>
          /\ UNCHANGED <<broken, initial, offset, pc, why, given>>
        BY <1>2 DEF vars, asked, system
    <2>2. Types' /\ Known' /\ Single(items)'
        BY <2>1 DEF IInv, Types, Known, Single
    <2>3. Behind' /\ Once' /\ Kept'
        BY <2>1 DEF IInv, Behind, Once, Kept
    <2>4. Covered' /\ Passed' /\ Ordered' /\ Fresh'
        BY <2>1 DEF IInv, Covered, WasGiven, Passed, Ordered, Fresh
    <2> QED
        BY <2>2, <2>3, <2>4 DEF IInv
<1> QED
    BY <1>1, <1>2, IterateStep, RelistStep, TurnStep DEF Next

LEMMA Start == Init => IInv
<1> SUFFICES ASSUME Init PROVE IInv
    OBVIOUS
<1>1. /\ came \in 0 .. MaxItems /\ came \in Nat /\ items = [i \in 1 .. came |-> i]
      /\ opts.offset \in Nat /\ offset = opts.offset /\ initial = <<>> /\ given = <<>>
      /\ left = {} /\ pushed = {} /\ pulled = {} /\ pc = "first" /\ why = "done"
    <2>1. /\ came \in 0 .. MaxItems /\ items = [i \in 1 .. came |-> i]
          /\ opts \in [offset : Offsets, limit : Limits, accounts : BOOLEAN]
          /\ offset = opts.offset /\ initial = <<>> /\ given = <<>>
          /\ left = {} /\ pushed = {} /\ pulled = {} /\ pc = "first" /\ why = "done"
        BY DEF Init
    <2>2. came \in Nat /\ opts.offset \in Nat
        BY <2>1, ServerPagesAssumption
    <2> QED
        BY <2>1, <2>2
<1>2. items \in Seq(Nat) /\ Len(items) = came /\ \A i \in 1 .. came : items[i] = i
    <2>1. items \in [1 .. came -> Nat]
        BY <1>1
    <2> QED
        BY <1>1, <2>1
<1>3. <<>> \in Seq(Nat) /\ Len(<<>>) = 0
    BY EmptySeq
<1>4. Types
    BY <1>1, <1>2, <1>3, ServerPagesAssumption DEF Init, Types
<1>5. Known
    BY <1>1, <1>2, <1>3 DEF Known
<1>6. Single(items)
    BY <1>1, <1>2 DEF Single
<1>7. Behind /\ Once
    BY <1>1, <1>3 DEF Behind, Once
<1> QED
    BY <1>1, <1>4, <1>5, <1>6, <1>7 DEF IInv, Kept, Covered, Passed, Ordered, Fresh
-----------------------------------------------------------------------------
\* The inductive invariant holds of every run of an iterator.
THEOREM PagesInvariant == Spec => []IInv
BY Start, Inductive, PTL DEF Spec

\* TypeOK: the variables' types, and the offset that no page takes beyond what
\* was given (the paging loops of connz.go, subsz_server.go and jsz_server.go).
THEOREM PagesTypeCorrect == Spec => []TypeOK
<1>1. IInv => TypeOK
    <2> SUFFICES ASSUME IInv PROVE TypeOK
        OBVIOUS
    <2>1. /\ DOMAIN items = 1 .. Len(items) /\ DOMAIN initial = 1 .. Len(initial)
          /\ DOMAIN given = 1 .. Len(given)
        BY LenProperties DEF IInv, Types
    <2>2. /\ ToSet(items) \cup ToSet(initial) \cup ToSet(given) \subseteq 1 .. came
          /\ left \subseteq 1 .. came /\ left \cap ToSet(items) = {}
        BY <2>1 DEF IInv, Known, ToSet
    <2> QED
        BY <2>2 DEF IInv, Types, Known, TypeOK
<1> QED
    BY <1>1, PagesInvariant, PTL

\* An item is given twice only if something came or moved in front of it between
\* two pages, and never if the list grows at its end only.
THEOREM GivenOnce == Spec => []NoneTwice
<1>1. IInv => NoneTwice
    <2> SUFFICES ASSUME IInv, NEW i \in DOMAIN given, NEW j \in DOMAIN given,
                        i < j, given[i] = given[j]
                 PROVE  order # "atEnd" /\ given[i] \in pushed
        BY DEF NoneTwice
    <2>1. DOMAIN given = 1 .. Len(given)
        BY LenProperties DEF IInv, Types
    <2>2. given[i] \in pushed
        BY <2>1 DEF IInv, Once
    <2> QED
        BY <2>2 DEF IInv, Ordered
<1> QED
    BY <1>1, PagesInvariant, PTL

\* What the first answer counted behind the caller's offset is given, but for
\* what left, what was pulled past the offset, which in a list whose items do not
\* change places takes that one left, and, after a ping, what was pushed.
THEOREM SkippedIfMoved == Spec => []SkippedOnlyIfMoved
<1>1. IInv => SkippedOnlyIfMoved
    <2> SUFFICES ASSUME IInv, pc = "ended", why = "done", opts.accounts,
                        NEW k \in (opts.offset + 1) .. Len(initial),
                        initial[k] \notin ToSet(given), initial[k] \notin left
                 PROVE  \/ initial[k] \in pulled /\ (order # "shifting" => left # {})
                        \/ initial[k] \in pushed /\ ping
        BY DEF SkippedOnlyIfMoved
    <2>1. /\ opts.offset \in Nat /\ offset \in Nat /\ Len(initial) \in Nat
          /\ Len(items) \in Nat /\ DOMAIN given = 1 .. Len(given)
        BY LenProperties DEF IInv, Types
    <2>2. k \in 1 .. Len(initial) /\ opts.offset < k
        BY <2>1
    <2>3. ~WasGiven(initial[k])
        BY <2>1 DEF WasGiven, ToSet
    <2>4. CASE initial[k] \in pulled
        <3>1. pulled # {}
            BY <2>4
        <3> QED
            BY <2>4, <3>1 DEF IInv, Ordered
    <2>5. CASE initial[k] \notin pulled
        <3>1. PICK j \in 1 .. Len(items) : /\ k <= j /\ items[j] = initial[k]
                                           /\ initial[k] \in pushed \/ j = k
            BY <2>2, <2>5 DEF IInv, Kept
        <3>2. ~(j <= offset)
            BY <2>2, <2>3, <2>5, <3>1 DEF IInv, Covered
        <3>3. ~(Len(items) <= offset)
            BY <2>1, <3>2
        <3>4. ping /\ Len(initial) <= offset
            BY <3>3 DEF IInv, Passed
        <3>5. j # k
            BY <2>1, <2>2, <3>2, <3>4
        <3> QED
            BY <3>1, <3>4, <3>5
    <2> QED
        BY <2>4, <2>5
<1> QED
    BY <1>1, PagesInvariant, PTL
=============================================================================
