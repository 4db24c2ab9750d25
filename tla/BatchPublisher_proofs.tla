----------------------- MODULE BatchPublisher_proofs ------------------------
(***************************************************************************)
(* Proofs about BatchPublisher, for any number of batches, messages,       *)
(* slices and faults: what each of the safety properties of the module     *)
(* says, and that it implements AtomicBatch.                               *)
(***************************************************************************)
EXTENDS BatchPublisher, SequenceTheorems, FiniteSetTheorems, TLAPS

Answers == [kind : {"none", "ok", "error", "ack"}, size : Nat]

Types ==
    /\ header \in [Messages -> {"nil", "plain", "commit"}]
    /\ sequence \in [Batches -> Nat]
    /\ closed \in [Batches -> BOOLEAN]
    /\ pc \in [Batches -> {"idle", "ack", "commit"}]
    /\ rest \in [Batches -> Seq(Messages)]
    /\ staged \in [Batches -> Seq(Messages)]
    /\ stored \in [Batches -> Seq(Messages)]
    /\ given \in [Batches -> Seq(Messages)]
    /\ wire \in [Batches -> Seq(Requests)]
    /\ answer \in [Batches -> Answers]
    /\ commits \in [Batches -> SUBSET Nat]
    /\ stale \subseteq Publishers
    /\ outcome \in [Batches -> {"none", "acked", "refused", "unknown"}]
    /\ faults \in 0..MaxFaults

\* What a batch is given stays within its bound, or is part of a slice.
Bounded(b) ==
    /\ b \in Publishers => rest[b] = <<>> /\ commits[b] \subseteq 1..(MaxSize + 1)
    /\ b \in Calls => \E s \in Slices :
        Len(given[b]) + Len(rest[b]) = Len(s) /\ commits[b] \subseteq DOMAIN s

\* Messages travel in the order of their sequences, ahead of what the server
\* has, and only those that commit the batch have the header.
Placed(b, k) ==
    /\ wire[b][k].seq \in 1..Len(given[b])
    /\ wire[b][k].message = given[b][wire[b][k].seq]
    /\ Len(staged[b]) < wire[b][k].seq
    /\ Len(stored[b]) < wire[b][k].seq
    /\ \A j \in 1..Len(wire[b]) : j < k => wire[b][j].seq < wire[b][k].seq
    /\ ~wire[b][k].commit => wire[b][k].seq \notin commits[b]
    /\ wire[b][k].commit /\ b \notin stale => wire[b][k].seq \in commits[b]

InOrder(b) == \A k \in 1..Len(wire[b]) : Placed(b, k)

\* The server has a beginning of what was given, without a commit within.
Prefixes(b) ==
    /\ Len(staged[b]) <= Len(given[b])
    /\ Len(stored[b]) <= Len(given[b])
    /\ \A i \in 1..Len(staged[b]) : staged[b][i] = given[b][i] /\ i \notin commits[b]
    /\ \A i \in 1..Len(stored[b]) : stored[b][i] = given[b][i]
    /\ \A i \in 1..Len(stored[b]) : i < Len(stored[b]) => i \notin commits[b]
    /\ stored[b] # <<>> /\ b \notin stale => Len(stored[b]) \in commits[b]
    /\ staged[b] = <<>> \/ stored[b] = <<>>

\* Only the last message sent can have an answer under way, and only while the
\* call that sent it waits.
Asked(b) ==
    /\ \A k \in 1..Len(wire[b]) :
        wire[b][k].reply =>
            /\ k = Len(wire[b]) /\ pc[b] # "idle" /\ answer[b] = None
            /\ wire[b][k].seq = Len(given[b])
            /\ pc[b] = "commit" => wire[b][k].commit
    /\ answer[b] # None => pc[b] # "idle" /\ wire[b] = <<>>
    /\ pc[b] = "commit" => Len(given[b]) \in commits[b]
    /\ pc[b] = "commit" /\ answer[b] # None =>
        \/ answer[b] = Acks(Len(given[b]))
        \/ answer[b] = Err /\ Len(stored[b]) < Len(given[b])
    /\ \/ answer[b] \in {None, Ok, Err}
       \/ answer[b] = Acks(Len(stored[b])) /\ stored[b] # <<>>

Told(b) ==
    /\ sequence[b] = Len(given[b])
    /\ commits[b] \subseteq 1..Len(given[b])
    /\ closed[b] => pc[b] = "idle"
    /\ outcome[b] = "acked" =>
        closed[b] /\ Len(stored[b]) = Len(given[b]) /\ stored[b] # <<>>
    /\ outcome[b] = "refused" =>
        /\ closed[b] /\ wire[b] = <<>>
        /\ Len(stored[b]) < Len(given[b]) /\ Len(given[b]) \in commits[b]

BatchOK(b) == Bounded(b) /\ InOrder(b) /\ Prefixes(b) /\ Asked(b) /\ Told(b)

IInv == Types /\ \A b \in Batches : BatchOK(b)

-----------------------------------------------------------------------------
(* Initially, and in the batches that a step is not about.                 *)

\* Each constant of an answer is one.
LEMMA AnswersKnown ==
    /\ {None, Ok, Err} \subseteq Answers
    /\ \A n \in Nat : Acks(n) \in Answers
BY DEF Answers, None, Ok, Err, Acks

\* NewBatchPublisher, and a PublishMsgBatch that is called.
LEMMA InitSound == Init => IInv
<1> SUFFICES ASSUME Init PROVE IInv
    OBVIOUS
<1>1. /\ None \in Answers /\ MaxFaults \in Nat
      /\ \A s \in Slices : s \in Seq(Messages) /\ s # <<>>
      /\ Publishers \cap Calls = {}
    BY AnswersKnown, BatchAssumption
<1>2. \A b \in Batches : rest[b] \in Seq(Messages)
    BY <1>1, EmptySeq DEF Init
<1>3. Types
    BY <1>1, <1>2, EmptySeq DEF Init, Types
<1>4. ASSUME NEW b \in Batches PROVE BatchOK(b)
    <2>1. b \in Publishers => rest[b] = <<>>
        BY DEF Init
    <2>2. b \in Calls => rest[b] \in Slices
        BY <1>1 DEF Init
    <2>3. Bounded(b)
        BY <1>1, <2>1, <2>2, EmptySeq DEF Init, Bounded
    <2> QED
        BY <2>3 DEF Init, BatchOK, InOrder, Prefixes, Asked, Told, None, Ok, Err, Acks
<1> QED
    BY <1>3, <1>4 DEF IInv

\* A step changes nothing of b but what its caller waits for and was told.
Untouched(b) ==
    /\ rest'[b] = rest[b] /\ commits'[b] = commits[b] /\ given'[b] = given[b]
    /\ wire'[b] = wire[b] /\ staged'[b] = staged[b] /\ stored'[b] = stored[b]
    /\ sequence'[b] = sequence[b]
    /\ b \in stale' <=> b \in stale

Same(b) ==
    /\ Untouched(b)
    /\ pc'[b] = pc[b] /\ answer'[b] = answer[b]
    /\ closed'[b] = closed[b] /\ outcome'[b] = outcome[b]

\* What such a step keeps.
LEMMA UntouchedSound ==
    ASSUME NEW b \in Batches, BatchOK(b), Untouched(b)
    PROVE Bounded(b)' /\ InOrder(b)' /\ Prefixes(b)'
<1>1. Bounded(b)'
    BY DEF BatchOK, Bounded, Untouched
<1>2. ASSUME NEW k \in 1..Len(wire[b]) PROVE Placed(b, k)'
    BY DEF BatchOK, InOrder, Placed, Untouched
<1>3. Prefixes(b)'
    BY DEF BatchOK, Prefixes, Untouched
<1> QED
    BY <1>1, <1>2, <1>3 DEF InOrder, Untouched

\* A batch that a step is not about.
LEMMA SameSound ==
    ASSUME NEW b \in Batches, BatchOK(b), Same(b)
    PROVE BatchOK(b)'
<1>1. Bounded(b)' /\ InOrder(b)' /\ Prefixes(b)'
    BY UntouchedSound DEF Same
<1>2. Asked(b)' /\ Told(b)'
    BY DEF BatchOK, Asked, Told, Same, Untouched
<1> QED
    BY <1>1, <1>2 DEF BatchOK

\* It is enough to look at the batch a step is about.
LEMMA OneBatch ==
    ASSUME IInv, NEW b \in Batches, \A c \in Batches \ {b} : Same(c),
           Types', BatchOK(b)'
    PROVE IInv'
<1>1. ASSUME NEW c \in Batches PROVE BatchOK(c)'
    <2>1. CASE c = b
        BY <2>1
    <2>2. CASE c # b
        BY <2>2, SameSound DEF IInv
    <2> QED
        BY <2>1, <2>2
<1> QED
    BY <1>1 DEF IInv

-----------------------------------------------------------------------------
(* What a batch is given.                                                  *)

\* A message more leaves what the server has as it was: the message is not
\* among it, nor is a commit that it asks for.
LEMMA GivenPrefixes ==
    ASSUME NEW b \in Batches, NEW m \in Messages, Types, BatchOK(b),
           given'[b] = Append(given[b], m),
           staged'[b] = staged[b], stored'[b] = stored[b],
           \/ commits'[b] = commits[b]
           \/ commits'[b] = commits[b] \cup {Len(given[b]) + 1},
           b \in stale => b \in stale'
    PROVE Prefixes(b)' /\ commits'[b] \subseteq 1..Len(given'[b])
<1>1. /\ given[b] \in Seq(Messages) /\ staged[b] \in Seq(Messages)
      /\ stored[b] \in Seq(Messages) /\ commits[b] \subseteq Nat
    BY DEF Types
<1>2. /\ Len(given'[b]) = Len(given[b]) + 1
      /\ \A i \in 1..Len(given[b]) : given'[b][i] = given[b][i]
      /\ Len(given[b]) \in Nat /\ Len(staged[b]) \in Nat /\ Len(stored[b]) \in Nat
    BY <1>1, AppendProperties, LenProperties
<1>3. Prefixes(b) /\ commits[b] \subseteq 1..Len(given[b])
    BY DEF BatchOK, Told
<1>4. \A i \in 1..Len(given[b]) : i \in commits'[b] <=> i \in commits[b]
    BY <1>2
<1>5. Len(staged[b]) <= Len(given[b]) /\ Len(stored[b]) <= Len(given[b])
    BY <1>3 DEF Prefixes
<1>6. /\ \A i \in 1..Len(staged[b]) : i \in 1..Len(given[b])
      /\ \A i \in 1..Len(stored[b]) : i \in 1..Len(given[b])
    BY <1>2, <1>5
<1>7. stored[b] # <<>> => Len(stored[b]) \in 1..Len(given[b])
    BY <1>1, <1>2, <1>5, EmptySeq
<1> QED
    BY <1>2, <1>3, <1>4, <1>5, <1>6, <1>7 DEF Prefixes

\* A message that is sent is the last, with the next sequence.
LEMMA SentInOrder ==
    ASSUME NEW b \in Batches, NEW m \in Messages, NEW r \in Requests,
           Types, BatchOK(b),
           r.seq = sequence[b] + 1, r.message = m,
           given'[b] = Append(given[b], m), wire'[b] = Append(wire[b], r),
           staged'[b] = staged[b], stored'[b] = stored[b],
           \/ ~r.commit /\ commits'[b] = commits[b]
           \/ r.commit /\ commits'[b] = commits[b] \cup {Len(given[b]) + 1}
           \/ r.commit /\ commits'[b] = commits[b] /\ b \in stale',
           b \in stale => b \in stale'
    PROVE InOrder(b)'
<1>1. /\ given[b] \in Seq(Messages) /\ wire[b] \in Seq(Requests)
      /\ sequence[b] = Len(given[b]) /\ sequence[b] \in Nat
      /\ commits[b] \subseteq 1..Len(given[b])
    BY DEF Types, BatchOK, Told
<1>2. /\ Len(given'[b]) = Len(given[b]) + 1
      /\ \A i \in 1..Len(given[b]) : given'[b][i] = given[b][i]
      /\ given'[b][Len(given[b]) + 1] = m
    BY <1>1, AppendProperties
<1>3. /\ Len(wire'[b]) = Len(wire[b]) + 1 /\ Len(wire[b]) \in Nat
      /\ \A i \in 1..Len(wire[b]) : wire'[b][i] = wire[b][i]
      /\ wire'[b][Len(wire[b]) + 1] = r
    BY <1>1, AppendProperties, LenProperties
<1>4. /\ Len(staged[b]) <= Len(given[b]) /\ Len(stored[b]) <= Len(given[b])
      /\ Len(staged[b]) \in Nat /\ Len(stored[b]) \in Nat
    BY LenProperties DEF Types, BatchOK, Prefixes
<1>5. \A k \in 1..Len(wire[b]) : wire[b][k].seq \in 1..Len(given[b])
    BY DEF BatchOK, InOrder, Placed
<1>6. ASSUME NEW k \in 1..Len(wire[b]) PROVE Placed(b, k)'
    <2>1. wire'[b][k] = wire[b][k]
        BY <1>3
    <2>2. \A j \in 1..Len(wire'[b]) : j < k => j \in 1..Len(wire[b]) /\ wire'[b][j] = wire[b][j]
        BY <1>3
    <2>3. wire[b][k].seq \in 1..Len(given[b])
        BY <1>5
    <2>4. wire[b][k].seq \in commits'[b] <=> wire[b][k].seq \in commits[b]
        BY <1>1, <2>3
    <2>5. Placed(b, k)
        BY DEF BatchOK, InOrder
    <2>6. /\ wire[b][k].seq \in 1..Len(given'[b])
          /\ wire[b][k].message = given'[b][wire[b][k].seq]
        BY <1>1, <1>2, <2>3, <2>5 DEF Placed
    <2>7. \A j \in 1..Len(wire'[b]) : j < k => wire'[b][j].seq < wire[b][k].seq
        BY <2>2, <2>5 DEF Placed
    <2> QED
        BY <2>1, <2>4, <2>5, <2>6, <2>7 DEF Placed
<1>7. ASSUME NEW n \in Nat, n = Len(wire[b]) + 1 PROVE Placed(b, n)'
    <2>1. /\ wire'[b][n] = r /\ r.seq = Len(given[b]) + 1
        BY <1>1, <1>3, <1>7
    <2>2. \A j \in 1..Len(wire'[b]) : j < n => wire'[b][j].seq \in 1..Len(given[b])
        BY <1>3, <1>5, <1>7
    <2>3. \A j \in 1..Len(wire'[b]) : j < n => wire'[b][j].seq < wire'[b][n].seq
        BY <1>1, <2>1, <2>2
    <2>4. /\ ~r.commit => Len(given[b]) + 1 \notin commits'[b]
          /\ r.commit /\ b \notin stale' => Len(given[b]) + 1 \in commits'[b]
        BY <1>1
    <2>5. r.seq \in 1..Len(given'[b]) /\ r.message = given'[b][r.seq]
        BY <1>1, <1>2, <2>1
    <2>6. Len(staged'[b]) < r.seq /\ Len(stored'[b]) < r.seq
        BY <1>1, <1>4, <2>1
    <2> QED
        BY <2>1, <2>3, <2>4, <2>5, <2>6 DEF Placed
<1>8. \A k \in 1..Len(wire'[b]) :
         k \in 1..Len(wire[b]) \/ (k \in Nat /\ k = Len(wire[b]) + 1)
    BY <1>3
<1> QED
    BY <1>6, <1>7, <1>8 DEF InOrder

\* A message that is not sent leaves the others where they are.
LEMMA RefusedInOrder ==
    ASSUME NEW b \in Batches, NEW m \in Messages, Types, BatchOK(b),
           given'[b] = Append(given[b], m), wire'[b] = wire[b],
           staged'[b] = staged[b], stored'[b] = stored[b],
           \/ commits'[b] = commits[b]
           \/ commits'[b] = commits[b] \cup {Len(given[b]) + 1},
           b \in stale => b \in stale'
    PROVE InOrder(b)'
<1>1. /\ Len(given'[b]) = Len(given[b]) + 1 /\ Len(given[b]) \in Nat
      /\ \A i \in 1..Len(given[b]) : given'[b][i] = given[b][i]
    BY AppendProperties, LenProperties DEF Types
<1>2. InOrder(b) /\ commits[b] \subseteq 1..Len(given[b])
    BY DEF BatchOK, Told
<1>3. \A i \in 1..Len(given[b]) : i \in commits'[b] <=> i \in commits[b]
    BY <1>1
<1> QED
    BY <1>1, <1>2, <1>3 DEF InOrder, Placed
-----------------------------------------------------------------------------
(* What a step of the client preserves.                                    *)

\* The rest of AddMsg, or of a turn of PublishMsgBatch.
LEMMA AckArrivesSound ==
    ASSUME IInv, NEW b \in Batches, AckArrives(b)
    PROVE IInv'
<1>1. Types'
    BY AnswersKnown DEF IInv, Types, AckArrives, server, said
<1>2. \A c \in Batches \ {b} : Same(c)
    BY DEF AckArrives, IInv, Types, Same, Untouched, server, said
<1>3. Untouched(b)
    BY DEF AckArrives, Untouched, server, said
<1>4. /\ pc'[b] = "idle" /\ answer'[b] = None /\ outcome'[b] = outcome[b]
      /\ ~closed[b] /\ answer[b] # None /\ wire[b] = <<>>
    BY DEF AckArrives, IInv, Types, BatchOK, Asked, Told, said
<1>5. Asked(b)' /\ Told(b)'
    BY <1>3, <1>4 DEF Untouched, IInv, BatchOK, Asked, Told
<1>6. BatchOK(b)'
    BY <1>3, <1>5, UntouchedSound DEF IInv, BatchOK
<1> QED
    BY <1>1, <1>2, <1>6, OneBatch

\* The rest of CommitMsg, or of the last turn of PublishMsgBatch.
LEMMA CommitArrivesSound ==
    ASSUME IInv, NEW b \in Batches, CommitArrives(b)
    PROVE IInv'
<1>1. Types'
    BY AnswersKnown DEF IInv, Types, CommitArrives, server, said
<1>2. \A c \in Batches \ {b} : Same(c)
    BY DEF CommitArrives, IInv, Types, Same, Untouched, server, said
<1>3. Untouched(b)
    BY DEF CommitArrives, Untouched, server, said
<1>4. /\ pc'[b] = "idle" /\ answer'[b] = None /\ closed'[b]
      /\ outcome'[b] = IF Accepted(b) THEN "acked" ELSE "refused"
    BY DEF CommitArrives, IInv, Types
<1>5. /\ BatchOK(b) /\ pc[b] = "commit" /\ answer[b] # None
      /\ wire[b] = <<>> /\ Len(given[b]) \in commits[b] /\ sequence[b] = Len(given[b])
    BY DEF CommitArrives, IInv, BatchOK, Asked, Told
<1>6. CASE Accepted(b)
    <2>1. answer[b] = Acks(Len(stored[b])) /\ stored[b] # <<>>
        BY <1>5, <1>6 DEF BatchOK, Asked, Accepted, Acks, None, Ok, Err
    <2>2. Len(stored[b]) = Len(given[b])
        BY <1>5, <1>6, <2>1 DEF Accepted, Acks
    <2> QED
        BY <1>1, <1>2, <1>3, <1>4, <1>5, <1>6, <2>1, <2>2, UntouchedSound, OneBatch
        DEF BatchOK, Asked, Told, Untouched
<1>7. CASE ~Accepted(b)
    <2>1. Len(stored[b]) < Len(given[b])
        BY <1>5, <1>7 DEF BatchOK, Asked, Accepted
    <2> QED
        BY <1>1, <1>2, <1>3, <1>4, <1>5, <1>7, <2>1, UntouchedSound, OneBatch
        DEF BatchOK, Asked, Told, Untouched
<1> QED
    BY <1>6, <1>7

\* A call that ends before it has sent anything.
LEMMA ClosedSound ==
    ASSUME IInv, NEW b \in Batches, Discard(b) \/ PublishPanics(b)
    PROVE IInv'
<1>1. Types'
    BY DEF IInv, Types, Discard, PublishPanics, server, said
<1>2. \A c \in Batches \ {b} : Same(c)
    BY DEF Discard, PublishPanics, IInv, Types, Same, Untouched, server, said
<1>3. Untouched(b)
    BY DEF Discard, PublishPanics, Untouched, server, said
<1>4. /\ pc[b] = "idle" /\ pc'[b] = pc[b] /\ answer'[b] = answer[b] /\ closed'[b]
      /\ outcome'[b] = outcome[b] /\ ~closed[b]
    BY DEF Discard, PublishPanics, Open, IInv, Types, said
<1>5. Asked(b)' /\ Told(b)'
    BY <1>3, <1>4 DEF IInv, BatchOK, Asked, Told, Untouched
<1> QED
    BY <1>1, <1>2, <1>3, <1>5, UntouchedSound, OneBatch DEF IInv, BatchOK

\* The caller never gets the answer.
LEMMA LoseAnswerSound ==
    ASSUME IInv, NEW b \in Batches, LoseAnswer(b)
    PROVE IInv'
<1>1. Types'
    BY AnswersKnown, BatchAssumption DEF IInv, Types, LoseAnswer, Fault, local, server, said
<1>2. \A c \in Batches \ {b} : Same(c)
    BY DEF LoseAnswer, IInv, Types, Same, Untouched, local, server, said
<1>3. Untouched(b)
    BY DEF LoseAnswer, Untouched, local, server, said
<1>4. /\ pc'[b] = pc[b] /\ answer[b] # None /\ answer'[b] = None
      /\ closed'[b] = closed[b] /\ outcome'[b] = outcome[b]
    BY DEF LoseAnswer, IInv, Types, local, said
<1>5. Asked(b)' /\ Told(b)'
    BY <1>3, <1>4 DEF IInv, BatchOK, Asked, Told, Untouched
<1> QED
    BY <1>1, <1>2, <1>3, <1>5, UntouchedSound, OneBatch DEF IInv, BatchOK

\* Requests that nobody waits for any more are the same requests.
LEMMA ForgetSound ==
    ASSUME Types, NEW b \in Batches, wire' = Forget(b)
    PROVE /\ wire' \in [Batches -> Seq(Requests)]
          /\ \A c \in Batches \ {b} : wire'[c] = wire[c]
          /\ Len(wire'[b]) = Len(wire[b])
          /\ \A k \in 1..Len(wire[b]) :
                /\ wire'[b][k].seq = wire[b][k].seq
                /\ wire'[b][k].message = wire[b][k].message
                /\ wire'[b][k].commit = wire[b][k].commit
                /\ wire'[b][k].reply = FALSE
<1> DEFINE forgotten == [k \in 1..Len(wire[b]) |-> [wire[b][k] EXCEPT !.reply = FALSE]]
<1>1. wire[b] \in Seq(Requests) /\ wire \in [Batches -> Seq(Requests)]
    BY DEF Types
<1>2. Len(wire[b]) \in Nat /\ DOMAIN wire[b] = 1..Len(wire[b])
    BY <1>1, LenProperties
<1>3. \A k \in 1..Len(wire[b]) : wire[b][k] \in Requests
    BY <1>1, ElementOfSeq
<1>4. \A k \in 1..Len(wire[b]) : forgotten[k] \in Requests
    BY <1>3 DEF Requests
<1>5. forgotten \in Seq(Requests) /\ Len(forgotten) = Len(wire[b])
    <2>1. forgotten \in [1..Len(wire[b]) -> Requests]
        BY <1>4
    <2>2. forgotten \in UNION {[1..n -> Requests] : n \in Nat}
        BY <1>2, <2>1
    <2>3. Len(forgotten) = Len(wire[b])
        BY <1>2
    <2> QED
        BY <2>2, <2>3, SeqDef
<1>6. wire' = [wire EXCEPT ![b] = forgotten]
    BY <1>2 DEF Forget
<1>7. wire'[b] = forgotten
    BY <1>1, <1>6
<1>8. \A k \in 1..Len(wire[b]) :
        /\ forgotten[k].seq = wire[b][k].seq
        /\ forgotten[k].message = wire[b][k].message
        /\ forgotten[k].commit = wire[b][k].commit
        /\ forgotten[k].reply = FALSE
    BY <1>3 DEF Requests
<1> HIDE DEF forgotten
<1> QED
    BY <1>1, <1>5, <1>6, <1>7, <1>8

\* The caller gives up; the batch of a publisher stays open.
LEMMA TimeoutSound ==
    ASSUME IInv, NEW b \in Batches, Timeout(b)
    PROVE IInv'
<1>1. Types /\ BatchOK(b) /\ wire' = Forget(b)
    BY DEF IInv, Timeout
<1>2. Types'
    <2>1. closed' \in [Batches -> BOOLEAN]
        <3>1. closed \in [Batches -> BOOLEAN] /\ closed' = [closed EXCEPT ![b] = b \in Calls]
            BY <1>1 DEF Types, Timeout
        <3>2. (b \in Calls) \in BOOLEAN
            OBVIOUS
        <3> QED
            BY <3>1, <3>2, Zenon
    <2>2. outcome' \in [Batches -> {"none", "acked", "refused", "unknown"}]
        BY <1>1 DEF Types, Timeout
    <2>3. pc' \in [Batches -> {"idle", "ack", "commit"}]
        BY <1>1 DEF Types, Timeout
    <2>4. wire' \in [Batches -> Seq(Requests)]
        BY <1>1, ForgetSound
    <2> QED
        BY <1>1, <2>1, <2>2, <2>3, <2>4 DEF Types, Timeout, server
<1>3. \A c \in Batches \ {b} : Same(c)
    BY <1>1, ForgetSound DEF Timeout, Types, Same, Untouched, server
<1>4. /\ rest'[b] = rest[b] /\ commits'[b] = commits[b] /\ given'[b] = given[b]
      /\ staged'[b] = staged[b] /\ stored'[b] = stored[b] /\ sequence'[b] = sequence[b]
      /\ b \in stale' <=> b \in stale
      /\ pc'[b] = "idle" /\ answer'[b] = None
    BY <1>1 DEF Timeout, Types, server
<1>5. outcome'[b] \in {outcome[b], "unknown"} /\ outcome[b] \notin {"acked", "refused"}
    BY <1>1 DEF Timeout, Types, BatchOK, Told
<1>6. ASSUME NEW k \in 1..Len(wire[b]) PROVE Placed(b, k)'
    <2>1. Placed(b, k)
        BY <1>1 DEF BatchOK, InOrder
    <2>2. /\ Len(wire'[b]) = Len(wire[b])
          /\ \A j \in 1..Len(wire[b]) : wire'[b][j].seq = wire[b][j].seq
          /\ wire'[b][k].message = wire[b][k].message
          /\ wire'[b][k].commit = wire[b][k].commit
        BY <1>1, ForgetSound
    <2> QED
        BY <1>4, <2>1, <2>2 DEF Placed
<1>7. InOrder(b)'
    <2>1. Len(wire'[b]) = Len(wire[b])
        BY <1>1, ForgetSound
    <2> QED
        BY <1>6, <2>1 DEF InOrder
<1>8. Bounded(b)' /\ Prefixes(b)'
    <2>1. Bounded(b)'
        BY <1>1, <1>4 DEF BatchOK, Bounded
    <2>2. Prefixes(b)'
        BY <1>1, <1>4 DEF BatchOK, Prefixes
    <2> QED
        BY <2>1, <2>2
<1>9. \A k \in 1..Len(wire'[b]) : wire'[b][k].reply = FALSE
    BY <1>1, ForgetSound
<1>10. Asked(b)' /\ Told(b)'
    BY <1>1, <1>4, <1>5, <1>9 DEF BatchOK, Asked, Told
<1> QED
    BY <1>2, <1>3, <1>7, <1>8, <1>10, OneBatch DEF BatchOK

-----------------------------------------------------------------------------
(* What a step of the connection or the server preserves.                  *)

\* The server forgets what it staged.
LEMMA AbandonSound ==
    ASSUME IInv, NEW b \in Batches, Abandon(b)
    PROVE IInv'
<1>1. Types /\ BatchOK(b)
    BY DEF IInv
<1>2. Types'
    BY <1>1, EmptySeq, BatchAssumption DEF Types, Abandon, Fault, local, said
<1>3. \A c \in Batches \ {b} : Same(c)
    BY <1>1 DEF Abandon, Types, Same, Untouched, local, said
<1>4. /\ rest'[b] = rest[b] /\ commits'[b] = commits[b] /\ given'[b] = given[b]
      /\ stored'[b] = stored[b] /\ sequence'[b] = sequence[b] /\ wire'[b] = wire[b]
      /\ b \in stale' <=> b \in stale
      /\ pc'[b] = pc[b] /\ answer'[b] = answer[b] /\ closed'[b] = closed[b]
      /\ outcome'[b] = outcome[b] /\ staged'[b] = <<>>
    BY <1>1 DEF Abandon, Types, local, said
<1>5. Len(staged'[b]) = 0 /\ Len(staged[b]) \in Nat /\ Len(given[b]) \in Nat
    BY <1>1, <1>4, LenProperties DEF Types
<1>6. ASSUME NEW k \in 1..Len(wire[b]) PROVE Placed(b, k)'
    BY <1>1, <1>4, <1>5 DEF BatchOK, InOrder, Placed
<1>7. InOrder(b)' /\ Bounded(b)'
    BY <1>1, <1>4, <1>6 DEF BatchOK, Bounded, InOrder
<1>8. Prefixes(b)'
    BY <1>1, <1>4, <1>5 DEF BatchOK, Prefixes
<1>9. Asked(b)' /\ Told(b)'
    BY <1>1, <1>4 DEF BatchOK, Asked, Told
<1> QED
    BY <1>2, <1>3, <1>7, <1>8, <1>9, OneBatch DEF BatchOK

\* The request that arrives, or is lost, is the first.
LEMMA DropSound ==
    ASSUME Types, NEW b \in Batches, wire[b] # <<>>, Drop(b)
    PROVE /\ wire' \in [Batches -> Seq(Requests)]
          /\ \A c \in Batches \ {b} : wire'[c] = wire[c]
          /\ wire[b] \in Seq(Requests) /\ Len(wire[b]) \in Nat /\ Len(wire[b]) > 0
          /\ Len(wire'[b]) = Len(wire[b]) - 1
          /\ \A k \in 1..Len(wire'[b]) : wire'[b][k] = wire[b][k + 1]
          /\ Head(wire[b]) = wire[b][1] /\ Head(wire[b]) \in Requests
<1>1. wire[b] \in Seq(Requests) /\ wire \in [Batches -> Seq(Requests)]
    BY DEF Types
<1>2. wire'[b] = Tail(wire[b]) /\ \A c \in Batches \ {b} : wire'[c] = wire[c]
    BY <1>1 DEF Drop
<1>3. /\ Tail(wire[b]) \in Seq(Requests) /\ Len(Tail(wire[b])) = Len(wire[b]) - 1
      /\ \A k \in 1..Len(Tail(wire[b])) : Tail(wire[b])[k] = wire[b][k + 1]
      /\ Head(wire[b]) \in Requests
    BY <1>1, HeadTailProperties
<1>4. Head(wire[b]) = wire[b][1] /\ Len(wire[b]) \in Nat /\ Len(wire[b]) > 0
    BY <1>1, LenProperties, EmptySeq
<1>5. wire' \in [Batches -> Seq(Requests)]
    BY <1>1, <1>3 DEF Drop
<1> QED
    BY <1>1, <1>2, <1>3, <1>4, <1>5

\* The rest travels on, if it is ahead of what the server has then.
LEMMA DropInOrder ==
    ASSUME Types, NEW b \in Batches, BatchOK(b), wire[b] # <<>>, Drop(b),
           given'[b] = given[b], commits'[b] = commits[b],
           b \in stale' <=> b \in stale,
           \A k \in 2..Len(wire[b]) : /\ Len(staged'[b]) < wire[b][k].seq
                                      /\ Len(stored'[b]) < wire[b][k].seq
    PROVE InOrder(b)'
<1>1. /\ Len(wire[b]) \in Nat /\ Len(wire'[b]) = Len(wire[b]) - 1
      /\ \A k \in 1..Len(wire'[b]) : wire'[b][k] = wire[b][k + 1]
    BY DropSound
<1>2. ASSUME NEW k \in 1..Len(wire'[b]) PROVE Placed(b, k)'
    <2>1. wire'[b][k] = wire[b][k + 1] /\ k + 1 \in 2..Len(wire[b])
        BY <1>1
    <2>2. Placed(b, k + 1)
        BY <1>1, <2>1 DEF BatchOK, InOrder
    <2>3. \A j \in 1..Len(wire'[b]) : j < k => wire'[b][j].seq < wire'[b][k].seq
        <3>1. TAKE j \in 1..Len(wire'[b])
        <3>2. /\ wire'[b][j] = wire[b][j + 1] /\ j + 1 \in 1..Len(wire[b])
              /\ j < k => j + 1 < k + 1
            BY <1>1
        <3> QED
            BY <2>1, <2>2, <3>2 DEF Placed
    <2> QED
        BY <2>1, <2>2, <2>3 DEF Placed
<1> QED
    BY <1>2 DEF InOrder

\* Its answer, if its caller waits for one, is what the call is to get.
LEMMA DropAsked ==
    ASSUME Types, NEW b \in Batches, BatchOK(b), wire[b] # <<>>, Drop(b),
           given'[b] = given[b], commits'[b] = commits[b], pc'[b] = pc[b],
           \/ answer'[b] = None
           \/ /\ Head(wire[b]).reply
              /\ pc[b] = "commit" =>
                    \/ answer'[b] = Acks(Len(given[b]))
                    \/ answer'[b] = Err /\ Len(stored'[b]) < Len(given[b])
              /\ \/ answer'[b] \in {None, Ok, Err}
                 \/ answer'[b] = Acks(Len(stored'[b])) /\ stored'[b] # <<>>
    PROVE Asked(b)'
<1>1. /\ Len(wire[b]) \in Nat /\ Len(wire'[b]) = Len(wire[b]) - 1
      /\ \A k \in 1..Len(wire'[b]) : wire'[b][k] = wire[b][k + 1]
      /\ wire' \in [Batches -> Seq(Requests)] /\ Len(wire[b]) > 0
      /\ Head(wire[b]) = wire[b][1]
    BY DropSound
<1>2. Asked(b)
    BY DEF BatchOK
<1>3. pc[b] = "commit" => Len(given[b]) \in commits[b]
    BY <1>2 DEF Asked
<1>4. CASE Head(wire[b]).reply
    <2>1. Len(wire[b]) = 1 /\ pc[b] # "idle"
        <3>1. 1 \in 1..Len(wire[b]) /\ wire[b][1].reply
            BY <1>1, <1>4
        <3> QED
            BY <1>2, <3>1 DEF Asked
    <2>2. Len(wire'[b]) = 0 /\ wire'[b] = <<>>
        BY <1>1, <2>1, EmptySeq
    <2> QED
        BY <1>3, <2>1, <2>2 DEF Asked
<1>5. CASE ~Head(wire[b]).reply
    <2>1. answer'[b] = None /\ answer[b] = None
        BY <1>2, <1>5 DEF Asked
    <2>2. ASSUME NEW k \in 1..Len(wire'[b]), wire'[b][k].reply
          PROVE /\ k = Len(wire'[b]) /\ pc'[b] # "idle" /\ answer'[b] = None
                /\ wire'[b][k].seq = Len(given'[b])
                /\ pc'[b] = "commit" => wire'[b][k].commit
        <3>1. wire'[b][k] = wire[b][k + 1] /\ k + 1 \in 1..Len(wire[b])
            BY <1>1
        <3> QED
            BY <1>1, <1>2, <2>1, <2>2, <3>1 DEF Asked
    <2> QED
        BY <1>3, <2>1, <2>2 DEF Asked
<1> QED
    BY <1>4, <1>5

\* The server never gets the request: the next one leaves a gap.
LEMMA LoseRequestSound ==
    ASSUME IInv, NEW b \in Batches, LoseRequest(b)
    PROVE IInv'
<1>1. Types /\ BatchOK(b) /\ wire[b] # <<>> /\ Drop(b)
    BY DEF IInv, LoseRequest
<1>2. Types'
    BY <1>1, DropSound, BatchAssumption DEF Types, LoseRequest, Fault, local, server, said
<1>3. \A c \in Batches \ {b} : Same(c)
    BY <1>1, DropSound DEF LoseRequest, Same, Untouched, local, server, said
<1>4. /\ rest' = rest /\ commits' = commits /\ given' = given
      /\ staged' = staged /\ stored' = stored /\ sequence' = sequence
      /\ stale' = stale /\ pc' = pc /\ answer' = answer /\ closed' = closed
      /\ outcome' = outcome
    BY DEF LoseRequest, local, server, said
<1>5. answer[b] = None /\ Len(wire[b]) \in Nat
    BY <1>1, LenProperties DEF BatchOK, Asked, Types
<1>6. \A k \in 2..Len(wire[b]) : Placed(b, k)
    BY <1>1, <1>5 DEF BatchOK, InOrder
<1>7. InOrder(b)'
    BY <1>1, <1>4, <1>6, DropInOrder DEF Placed
<1>8. Asked(b)'
    BY <1>1, <1>4, <1>5, DropAsked
<1>9. Bounded(b)' /\ Prefixes(b)'
    BY <1>1, <1>4 DEF BatchOK, Bounded, Prefixes
<1>10. outcome[b] # "refused"
    BY <1>1 DEF BatchOK, Told
<1>11. Told(b)'
    BY <1>1, <1>4, <1>10 DEF BatchOK, Told
<1> QED
    BY <1>2, <1>3, <1>7, <1>8, <1>9, <1>11, OneBatch DEF BatchOK

\* What is left of the wire after the first request of it has arrived.
LEMMA AheadOfFirst ==
    ASSUME Types, NEW b \in Batches, BatchOK(b), wire[b] # <<>>
    PROVE /\ Placed(b, 1) /\ Head(wire[b]) = wire[b][1] /\ answer[b] = None
          /\ \A k \in 2..Len(wire[b]) : Placed(b, k) /\ wire[b][1].seq < wire[b][k].seq
          /\ Len(staged[b]) \in Nat /\ Len(stored[b]) \in Nat /\ Len(given[b]) \in Nat
          /\ Head(wire[b]) \in Requests
          /\ outcome[b] \notin {"acked", "refused"}
<1>1. wire[b] \in Seq(Requests) /\ Len(wire[b]) \in Nat /\ Len(wire[b]) > 0
    BY LenProperties, EmptySeq DEF Types
<1>2. Head(wire[b]) = wire[b][1] /\ Head(wire[b]) \in Requests
    BY <1>1, HeadTailProperties
<1>3. 1 \in 1..Len(wire[b]) /\ \A k \in 2..Len(wire[b]) : k \in 1..Len(wire[b]) /\ 1 < k
    BY <1>1
<1>4. Placed(b, 1) /\ \A k \in 2..Len(wire[b]) : Placed(b, k)
    BY <1>3 DEF BatchOK, InOrder
<1>5. \A k \in 2..Len(wire[b]) : wire[b][1].seq < wire[b][k].seq
    BY <1>3, <1>4 DEF Placed
<1>6. Len(staged[b]) \in Nat /\ Len(stored[b]) \in Nat /\ Len(given[b]) \in Nat
    BY LenProperties DEF Types
<1>7. answer[b] = None /\ outcome[b] # "refused"
    BY DEF BatchOK, Asked, Told
<1>8. outcome[b] # "acked"
    BY <1>4, <1>6 DEF BatchOK, Told, Placed
<1> QED
    BY <1>2, <1>4, <1>5, <1>6, <1>7, <1>8

\* The server ends the batch.
LEMMA RejectSound ==
    ASSUME IInv, NEW b \in Batches, Reject(b)
    PROVE IInv'
<1>1. Types /\ BatchOK(b) /\ wire[b] # <<>> /\ Drop(b)
    BY DEF IInv, Reject
<1>2. /\ rest' = rest /\ commits' = commits /\ given' = given
      /\ stored' = stored /\ sequence' = sequence
      /\ stale' = stale /\ pc' = pc /\ closed' = closed
      /\ outcome' = outcome /\ header' = header
      /\ staged' = [staged EXCEPT ![b] = <<>>]
      /\ answer' = IF Head(wire[b]).reply THEN [answer EXCEPT ![b] = Err] ELSE answer
    BY DEF Reject, Reply, local, said
<1>3. staged'[b] = <<>> /\ Len(staged'[b]) = 0
    BY <1>1, <1>2, EmptySeq DEF Types
<1>4. /\ Head(wire[b]).reply => answer'[b] = Err
      /\ ~Head(wire[b]).reply => answer'[b] = None
    BY <1>1, <1>2, AheadOfFirst DEF Types
<1>5. Types'
    <2>1. faults' \in 0..MaxFaults
        BY <1>1, BatchAssumption DEF Reject, Fault, Types
    <2>2. staged' \in [Batches -> Seq(Messages)] /\ answer' \in [Batches -> Answers]
        BY <1>1, <1>2, EmptySeq, AnswersKnown DEF Types
    <2>3. wire' \in [Batches -> Seq(Requests)]
        BY <1>1, DropSound
    <2> QED
        BY <1>1, <1>2, <2>1, <2>2, <2>3 DEF Types
<1>6. \A c \in Batches \ {b} : Same(c)
    BY <1>1, <1>2, DropSound DEF Types, Same, Untouched
<1>7. InOrder(b)'
    <2>1. \A k \in 2..Len(wire[b]) : /\ Len(staged'[b]) < wire[b][k].seq
                                     /\ Len(stored'[b]) < wire[b][k].seq
        BY <1>1, <1>2, <1>3, AheadOfFirst DEF Placed
    <2> QED
        BY <1>1, <1>2, <2>1, DropInOrder
<1>8. Asked(b)'
    <2>1. Head(wire[b]).reply => Len(stored[b]) < Len(given[b])
        BY <1>1, AheadOfFirst DEF Placed
    <2> QED
        BY <1>1, <1>2, <1>4, <2>1, DropAsked
<1>9. Bounded(b)' /\ Told(b)'
    BY <1>1, <1>2, AheadOfFirst DEF BatchOK, Bounded, Told
<1>10. Prefixes(b)'
    BY <1>1, <1>2, <1>3, AheadOfFirst DEF BatchOK, Prefixes
<1> QED
    BY <1>5, <1>6, <1>7, <1>8, <1>9, <1>10, OneBatch DEF BatchOK

\* A message that continues the batch: the server has a longer beginning of it.
LEMMA ContinuedSound ==
    ASSUME Types, NEW b \in Batches, BatchOK(b), wire[b] # <<>>,
           Head(wire[b]).seq = Len(staged[b]) + 1
    PROVE /\ Append(staged[b], Head(wire[b]).message) \in Seq(Messages)
          /\ Len(Append(staged[b], Head(wire[b]).message)) = Head(wire[b]).seq
          /\ \A i \in 1..Head(wire[b]).seq :
                Append(staged[b], Head(wire[b]).message)[i] = given[b][i]
          /\ \A i \in 1..Head(wire[b]).seq : i < Head(wire[b]).seq => i \notin commits[b]
          /\ Head(wire[b]).seq \in 1..Len(given[b])
          /\ stored[b] = <<>>
<1> DEFINE r == Head(wire[b])
<1>1. /\ r \in Requests /\ Placed(b, 1) /\ r = wire[b][1]
      /\ Len(staged[b]) \in Nat /\ Len(stored[b]) \in Nat /\ Len(given[b]) \in Nat
    BY AheadOfFirst
<1>2. staged[b] \in Seq(Messages) /\ stored[b] \in Seq(Messages)
    BY DEF Types
<1>3. r.message \in Messages /\ r.seq \in 1..Len(given[b])
      /\ r.message = given[b][r.seq] /\ Len(stored[b]) < r.seq
    BY <1>1 DEF Requests, Placed
<1>4. r.seq = Len(staged[b]) + 1
    OBVIOUS
<1> HIDE DEF r
<1>5. /\ Append(staged[b], r.message) \in Seq(Messages)
      /\ Len(Append(staged[b], r.message)) = r.seq
      /\ \A i \in 1..Len(staged[b]) : Append(staged[b], r.message)[i] = staged[b][i]
      /\ Append(staged[b], r.message)[r.seq] = r.message
    BY <1>2, <1>3, <1>4, AppendProperties
<1>6. \A i \in 1..r.seq : i \in 1..Len(staged[b]) \/ i = r.seq
    BY <1>1, <1>4
<1>7. \A i \in 1..r.seq : Append(staged[b], r.message)[i] = given[b][i]
    BY <1>3, <1>5, <1>6 DEF BatchOK, Prefixes
<1>8. \A i \in 1..r.seq : i < r.seq => i \notin commits[b]
    BY <1>3, <1>6 DEF BatchOK, Prefixes
<1>9. stored[b] = <<>>
    <2>1. CASE staged[b] = <<>>
        BY <1>1, <1>2, <1>3, <1>4, <2>1, EmptySeq
    <2>2. CASE staged[b] # <<>>
        BY <2>2 DEF BatchOK, Prefixes
    <2> QED
        BY <2>1, <2>2
<1> QED
    BY <1>3, <1>5, <1>7, <1>8, <1>9 DEF r

\* The server stages the message, or stores the batch with it.
LEMMA AcceptSound ==
    ASSUME IInv, NEW b \in Batches, Accept(b)
    PROVE IInv'
<1> DEFINE r == Head(wire[b])
           batch == Append(staged[b], r.message)
<1>1. Types /\ BatchOK(b) /\ wire[b] # <<>> /\ Drop(b)
    BY DEF IInv, Accept
<1>2. /\ batch \in Seq(Messages) /\ Len(batch) = r.seq
      /\ \A i \in 1..r.seq : batch[i] = given[b][i]
      /\ \A i \in 1..r.seq : i < r.seq => i \notin commits[b]
      /\ r.seq \in 1..Len(given[b]) /\ stored[b] = <<>>
    <2>1. r.seq = Len(staged[b]) + 1
        <3>1. Len(batch) = Len(staged[b]) + 1
            BY <1>1, AheadOfFirst, AppendProperties DEF Types, Requests
        <3> QED
            BY <3>1 DEF Accept
    <2> QED
        BY <1>1, <2>1, ContinuedSound
<1>3. /\ rest' = rest /\ commits' = commits /\ given' = given /\ sequence' = sequence
      /\ stale' = stale /\ pc' = pc /\ closed' = closed
      /\ outcome' = outcome /\ header' = header /\ faults' = faults
      /\ staged' = [staged EXCEPT ![b] = IF r.commit THEN <<>> ELSE batch]
      /\ stored' = [stored EXCEPT ![b] = IF r.commit THEN batch ELSE @]
      /\ answer' = IF r.reply
                   THEN [answer EXCEPT ![b] = IF r.commit THEN Acks(r.seq) ELSE Ok]
                   ELSE answer
    BY DEF Accept, Reply, local, said
<1>4. /\ r \in Requests /\ Placed(b, 1) /\ r = wire[b][1] /\ answer[b] = None
      /\ \A k \in 2..Len(wire[b]) : r.seq < wire[b][k].seq
      /\ outcome[b] \notin {"acked", "refused"} /\ Len(given[b]) \in Nat
    BY <1>1, AheadOfFirst
<1> HIDE DEF r, batch
<1>5. /\ staged'[b] = IF r.commit THEN <<>> ELSE batch
      /\ stored'[b] = IF r.commit THEN batch ELSE <<>>
      /\ answer'[b] = IF r.reply THEN IF r.commit THEN Acks(r.seq) ELSE Ok ELSE None
      /\ Len(staged'[b]) = IF r.commit THEN 0 ELSE r.seq
      /\ Len(stored'[b]) = IF r.commit THEN r.seq ELSE 0
    BY <1>1, <1>2, <1>3, <1>4, EmptySeq DEF Types
<1>6. Types'
    <2>1. staged' \in [Batches -> Seq(Messages)] /\ stored' \in [Batches -> Seq(Messages)]
        BY <1>1, <1>2, <1>3, EmptySeq DEF Types
    <2>2. answer' \in [Batches -> Answers]
        BY <1>1, <1>2, <1>3, <1>4, AnswersKnown DEF Types
    <2>3. wire' \in [Batches -> Seq(Requests)]
        BY <1>1, DropSound
    <2> QED
        BY <1>1, <1>3, <2>1, <2>2, <2>3 DEF Types
<1>7. \A c \in Batches \ {b} : Same(c)
    BY <1>1, <1>3, DropSound DEF Types, Same, Untouched
<1>8. InOrder(b)'
    <2>1. \A k \in 2..Len(wire[b]) : /\ Len(staged'[b]) < wire[b][k].seq
                                     /\ Len(stored'[b]) < wire[b][k].seq
        <3>1. TAKE k \in 2..Len(wire[b])
        <3>2. r.seq < wire[b][k].seq /\ r.seq > 0
            BY <1>2, <1>4
        <3>3. Placed(b, k)
            BY <1>1, AheadOfFirst
        <3> QED
            BY <1>2, <1>4, <1>5, <3>2, <3>3 DEF Placed
    <2> QED
        BY <1>1, <1>3, <2>1, DropInOrder
<1>9. Asked(b)'
    <2>1. r.reply => r.seq = Len(given[b]) /\ (pc[b] = "commit" => r.commit)
        <3>1. 1 \in 1..Len(wire[b])
            BY <1>1, DropSound
        <3> QED
            BY <1>1, <1>4, <3>1 DEF BatchOK, Asked
    <2>2. r.commit => stored'[b] # <<>>
        BY <1>2, <1>5, EmptySeq
    <2>3. CASE r.reply
        BY <1>1, <1>3, <1>5, <2>1, <2>2, <2>3, DropAsked DEF r
    <2>4. CASE ~r.reply
        BY <1>1, <1>3, <1>5, <2>4, DropAsked
    <2> QED
        BY <2>3, <2>4
<1>10. Prefixes(b)'
    <2>1. CASE r.commit
        <3>1. b \notin stale => r.seq \in commits[b]
            BY <1>4, <2>1 DEF Placed
        <3> QED
            BY <1>2, <1>3, <1>4, <1>5, <2>1, <3>1 DEF Prefixes
    <2>2. CASE ~r.commit
        <3>1. r.seq \notin commits[b]
            BY <1>4, <2>2 DEF Placed
        <3>2. \A i \in 1..r.seq : i \notin commits[b]
            BY <1>2, <3>1
        <3> QED
            BY <1>2, <1>3, <1>4, <1>5, <2>2, <3>2 DEF Prefixes
    <2> QED
        BY <2>1, <2>2
<1>11. Bounded(b)' /\ Told(b)'
    BY <1>1, <1>3, <1>4 DEF BatchOK, Bounded, Told
<1> QED
    BY <1>6, <1>7, <1>8, <1>9, <1>10, <1>11, OneBatch DEF BatchOK

-----------------------------------------------------------------------------
(* What is given to a batch.                                               *)

\* A message is sent: its caller waits if it asks for an answer.
LEMMA SentSound ==
    ASSUME NEW b \in Batches, NEW m \in Messages, NEW r \in Requests,
           Types, BatchOK(b), Open(b),
           r.seq = sequence[b] + 1, r.message = m,
           given'[b] = Append(given[b], m), wire'[b] = Append(wire[b], r),
           sequence'[b] = sequence[b] + 1,
           staged'[b] = staged[b], stored'[b] = stored[b],
           answer'[b] = answer[b], outcome'[b] = outcome[b], closed'[b] = closed[b],
           \/ ~r.commit /\ commits'[b] = commits[b]
           \/ r.commit /\ commits'[b] = commits[b] \cup {Len(given[b]) + 1}
           \/ r.commit /\ commits'[b] = commits[b] /\ b \in stale',
           b \in stale => b \in stale',
           r.reply <=> pc'[b] # "idle",
           pc'[b] = "commit" => r.commit /\ Len(given[b]) + 1 \in commits'[b]
    PROVE InOrder(b)' /\ Prefixes(b)' /\ Asked(b)' /\ Told(b)'
<1>1. InOrder(b)' /\ Prefixes(b)' /\ commits'[b] \subseteq 1..Len(given'[b])
    BY SentInOrder, GivenPrefixes
<1>2. /\ Len(given'[b]) = Len(given[b]) + 1 /\ Len(given[b]) \in Nat
      /\ Len(wire'[b]) = Len(wire[b]) + 1 /\ Len(wire[b]) \in Nat
      /\ \A k \in 1..Len(wire[b]) : wire'[b][k] = wire[b][k]
      /\ wire'[b][Len(wire[b]) + 1] = r
    BY AppendProperties, LenProperties DEF Types
<1>3. /\ answer[b] = None /\ ~closed[b] /\ outcome[b] \notin {"acked", "refused"}
      /\ \A k \in 1..Len(wire[b]) : ~wire[b][k].reply
      /\ sequence[b] = Len(given[b])
    BY DEF Open, BatchOK, Asked, Told
<1>4. ASSUME NEW k \in 1..Len(wire'[b]), wire'[b][k].reply
      PROVE k = Len(wire[b]) + 1 /\ wire'[b][k] = r
    <2>1. k \in 1..Len(wire[b]) \/ k = Len(wire[b]) + 1
        BY <1>2
    <2> QED
        BY <1>2, <1>3, <1>4, <2>1
<1>5. Asked(b)'
    BY <1>2, <1>3, <1>4 DEF Asked, None
<1>6. Told(b)'
    BY <1>1, <1>2, <1>3 DEF Told
<1> QED
    BY <1>1, <1>5, <1>6

\* A message is refused: it has its sequence all the same.
LEMMA RefusedSound ==
    ASSUME NEW b \in Batches, NEW m \in Messages, Types, BatchOK(b), Open(b),
           given'[b] = Append(given[b], m), wire'[b] = wire[b],
           sequence'[b] = sequence[b] + 1,
           staged'[b] = staged[b], stored'[b] = stored[b],
           answer'[b] = answer[b], outcome'[b] = outcome[b], pc'[b] = pc[b],
           \/ commits'[b] = commits[b]
           \/ commits'[b] = commits[b] \cup {Len(given[b]) + 1},
           b \in stale => b \in stale'
    PROVE InOrder(b)' /\ Prefixes(b)' /\ Asked(b)' /\ Told(b)'
<1>1. InOrder(b)' /\ Prefixes(b)' /\ commits'[b] \subseteq 1..Len(given'[b])
    BY RefusedInOrder, GivenPrefixes
<1>2. Len(given'[b]) = Len(given[b]) + 1
    BY AppendProperties DEF Types
<1>3. /\ pc[b] = "idle" /\ answer[b] = None /\ outcome[b] \notin {"acked", "refused"}
      /\ \A k \in 1..Len(wire[b]) : ~wire[b][k].reply
      /\ sequence[b] = Len(given[b])
    BY DEF Open, BatchOK, Asked, Told
<1>4. Asked(b)'
    BY <1>3 DEF Asked
<1>5. Told(b)'
    BY <1>1, <1>2, <1>3 DEF Told
<1> QED
    BY <1>1, <1>4, <1>5

\* What taking a message changes, sent or not.
LEMMA TakeSound ==
    ASSUME Types, NEW b \in Batches, NEW m \in Messages, Take(b, m)
    PROVE /\ given' \in [Batches -> Seq(Messages)] /\ sequence' \in [Batches -> Nat]
          /\ given'[b] = Append(given[b], m) /\ sequence'[b] = sequence[b] + 1
          /\ \A c \in Batches \ {b} : given'[c] = given[c] /\ sequence'[c] = sequence[c]
<1>1. Append(given[b], m) \in Seq(Messages)
    BY AppendProperties DEF Types
<1> QED
    BY <1>1 DEF Take, Types

\* What sending it changes.
LEMMA SendSound ==
    ASSUME Types, NEW b \in Batches, NEW m \in Messages,
           NEW commit \in BOOLEAN, NEW reply \in BOOLEAN, Send(b, m, commit, reply)
    PROVE /\ wire' \in [Batches -> Seq(Requests)]
          /\ \A c \in Batches \ {b} : wire'[c] = wire[c]
          /\ \E r \in Requests :
                /\ wire'[b] = Append(wire[b], r)
                /\ r.seq = sequence[b] + 1 /\ r.message = m
                /\ r.commit <=> commit
                /\ r.reply <=> reply
          /\ faults' = faults
<1> DEFINE r == [seq |-> sequence[b] + 1, message |-> m, commit |-> commit, reply |-> reply]
<1>1. r \in Requests /\ r.seq = sequence[b] + 1 /\ r.message = m
      /\ r.commit = commit /\ r.reply = reply
    BY DEF Requests, Types
<1>2. wire' = [wire EXCEPT ![b] = Append(@, r)] /\ faults' = faults
    BY DEF Send
<1> HIDE DEF r
<1>3. Append(wire[b], r) \in Seq(Requests)
    BY <1>1, AppendProperties DEF Types
<1> QED
    BY <1>1, <1>2, <1>3 DEF Types

\* What a refusal leaves.
LEMMA RefuseSound ==
    ASSUME Types, Refuse
    PROVE wire' = wire /\ faults' \in 0..MaxFaults
BY BatchAssumption DEF Types, Refuse, Fault

\* AddMsg, up to its wait.
LEMMA AddMsgSound ==
    ASSUME IInv, NEW b \in Publishers, NEW m \in Messages, AddMsg(b, m)
    PROVE IInv'
<1> DEFINE commit == header[m] = "commit"
           reply == NeedsAck(sequence[b] + 1)
<1>1. /\ Types /\ BatchOK(b) /\ Open(b) /\ Take(b, m) /\ b \in Batches
      /\ commit \in BOOLEAN /\ reply \in BOOLEAN
    BY DEF IInv, AddMsg, Batches, NeedsAck
<1>2. /\ closed' = closed /\ rest' = rest /\ answer' = answer /\ staged' = staged
      /\ stored' = stored /\ commits' = commits /\ outcome' = outcome
      /\ header' \in [Messages -> {"nil", "plain", "commit"}]
      /\ stale' = IF commit THEN stale \cup {b} ELSE stale
    BY <1>1 DEF AddMsg, server, Types
<1>3. stale' \subseteq Publishers /\ (b \in stale => b \in stale') /\ (commit => b \in stale')
      /\ \A c \in Batches \ {b} : c \in stale' <=> c \in stale
    BY <1>1, <1>2 DEF Types
<1>4. \/ /\ Send(b, m, commit, reply)
         /\ pc' = [pc EXCEPT ![b] = IF reply THEN "ack" ELSE "idle"]
      \/ Refuse /\ pc' = pc
    BY DEF AddMsg
<1> HIDE DEF commit, reply
<1>5. Bounded(b)'
    BY <1>1, <1>2, BatchAssumption DEF BatchOK, Bounded
<1>6. CASE Send(b, m, commit, reply) /\ pc' = [pc EXCEPT ![b] = IF reply THEN "ack" ELSE "idle"]
    <2>1. PICK r \in Requests :
            /\ wire'[b] = Append(wire[b], r) /\ r.seq = sequence[b] + 1 /\ r.message = m
            /\ r.commit <=> commit
            /\ r.reply <=> reply
        BY <1>1, <1>6, SendSound
    <2>2. pc' \in [Batches -> {"idle", "ack", "commit"}]
          /\ pc'[b] = IF reply THEN "ack" ELSE "idle"
        BY <1>1, <1>6 DEF Types
    <2>3. /\ wire' \in [Batches -> Seq(Requests)] /\ faults' = faults
          /\ \A c \in Batches \ {b} : wire'[c] = wire[c]
        BY <1>1, <1>6, SendSound
    <2>4. Types'
        BY <1>1, <1>2, <1>3, <2>2, <2>3, TakeSound DEF Types
    <2>5. \A c \in Batches \ {b} : Same(c)
        BY <1>1, <1>2, <1>3, <1>6, <2>3, TakeSound DEF Types, Same, Untouched
    <2>6. InOrder(b)' /\ Prefixes(b)' /\ Asked(b)' /\ Told(b)'
        BY <1>1, <1>2, <1>3, <2>1, <2>2, TakeSound, SentSound
    <2> QED
        BY <1>1, <1>5, <2>4, <2>5, <2>6, OneBatch DEF BatchOK
<1>7. CASE Refuse /\ pc' = pc
    <2>1. Types'
        BY <1>1, <1>2, <1>3, <1>7, RefuseSound, TakeSound DEF Types
    <2>2. \A c \in Batches \ {b} : Same(c)
        BY <1>1, <1>2, <1>3, <1>7, RefuseSound, TakeSound DEF Same, Untouched
    <2>3. InOrder(b)' /\ Prefixes(b)' /\ Asked(b)' /\ Told(b)'
        BY <1>1, <1>2, <1>3, <1>7, RefuseSound, TakeSound, RefusedSound
    <2> QED
        BY <1>1, <1>5, <2>1, <2>2, <2>3, OneBatch DEF BatchOK
<1> QED
    BY <1>4, <1>6, <1>7

\* CommitMsg, up to its wait.
LEMMA CommitMsgSound ==
    ASSUME IInv, NEW b \in Publishers, NEW m \in Messages, CommitMsg(b, m)
    PROVE IInv'
<1>1. /\ Types /\ BatchOK(b) /\ Open(b) /\ Take(b, m) /\ b \in Batches
      /\ Asking(b)
    BY DEF IInv, CommitMsg, Batches
<1>2. /\ closed' = closed /\ rest' = rest /\ answer' = answer /\ staged' = staged
      /\ stored' = stored /\ stale' = stale /\ outcome' = outcome
      /\ header' \in [Messages -> {"nil", "plain", "commit"}]
    BY <1>1 DEF CommitMsg, server, Types
<1>3. Len(given[b]) \in Nat /\ sequence[b] = Len(given[b])
    BY <1>1, LenProperties DEF Types, BatchOK, Told
<1>4. /\ commits' \in [Batches -> SUBSET Nat]
      /\ commits'[b] = commits[b] \cup {Len(given[b]) + 1}
      /\ \A c \in Batches \ {b} : commits'[c] = commits[c]
    BY <1>1, <1>3 DEF Asking, Types
<1>5. \/ Send(b, m, TRUE, TRUE) /\ pc' = [pc EXCEPT ![b] = "commit"]
      \/ Refuse /\ pc' = pc
    BY DEF CommitMsg
<1>6. Bounded(b)'
    <2>1. rest[b] = <<>> /\ commits[b] \subseteq 1..(MaxSize + 1) /\ b \notin Calls
        BY <1>1, BatchAssumption DEF BatchOK, Bounded
    <2>2. Len(given[b]) + 1 \in 1..(MaxSize + 1)
        BY <1>3, BatchAssumption DEF CommitMsg
    <2> QED
        BY <1>2, <1>4, <2>1, <2>2 DEF Bounded
<1>7. CASE Send(b, m, TRUE, TRUE) /\ pc' = [pc EXCEPT ![b] = "commit"]
    <2>1. PICK r \in Requests :
            /\ wire'[b] = Append(wire[b], r) /\ r.seq = sequence[b] + 1 /\ r.message = m
            /\ r.commit /\ r.reply
        <3>1. PICK yes \in BOOLEAN : yes = TRUE /\ Send(b, m, yes, yes)
            BY <1>7
        <3>2. Types /\ b \in Batches /\ Send(b, m, yes, yes)
            BY <1>1, <3>1
        <3>3. PICK r \in Requests :
                /\ wire'[b] = Append(wire[b], r) /\ r.seq = sequence[b] + 1 /\ r.message = m
                /\ r.commit <=> yes
                /\ r.reply <=> yes
            BY ONLY <3>2, SendSound, m \in Messages, yes \in BOOLEAN
        <3> QED
            BY <3>1, <3>3
    <2>2. pc' \in [Batches -> {"idle", "ack", "commit"}] /\ pc'[b] = "commit"
        BY <1>1, <1>7 DEF Types
    <2>3. /\ wire' \in [Batches -> Seq(Requests)] /\ faults' = faults
          /\ \A c \in Batches \ {b} : wire'[c] = wire[c]
        BY <1>1, <1>7, SendSound, TRUE \in BOOLEAN
    <2>4. Types'
        BY <1>1, <1>2, <1>4, <2>2, <2>3, TakeSound DEF Types
    <2>5. \A c \in Batches \ {b} : Same(c)
        BY <1>1, <1>2, <1>4, <1>7, <2>3, TakeSound DEF Types, Same, Untouched
    <2>6. InOrder(b)' /\ Prefixes(b)' /\ Asked(b)' /\ Told(b)'
        BY <1>1, <1>2, <1>4, <2>1, <2>2, TakeSound, SentSound
    <2> QED
        BY <1>1, <1>6, <2>4, <2>5, <2>6, OneBatch DEF BatchOK
<1>8. CASE Refuse /\ pc' = pc
    <2>1. Types'
        BY <1>1, <1>2, <1>4, <1>8, RefuseSound, TakeSound DEF Types
    <2>2. \A c \in Batches \ {b} : Same(c)
        BY <1>1, <1>2, <1>4, <1>8, RefuseSound, TakeSound DEF Same, Untouched
    <2>3. InOrder(b)' /\ Prefixes(b)' /\ Asked(b)' /\ Told(b)'
        BY <1>1, <1>2, <1>4, <1>8, RefuseSound, TakeSound, RefusedSound
    <2> QED
        BY <1>1, <1>6, <2>1, <2>2, <2>3, OneBatch DEF BatchOK
<1> QED
    BY <1>5, <1>7, <1>8

\* A message of a slice is the next of its batch, and one less to come.
LEMMA PublishNextBounded ==
    ASSUME Types, NEW b \in Batches, BatchOK(b), rest[b] # <<>>,
           given'[b] = Append(given[b], Head(rest[b])), rest'[b] = Tail(rest[b]),
           \/ commits'[b] = commits[b]
           \/ commits'[b] = commits[b] \cup {Len(given[b]) + 1}
    PROVE Bounded(b)' /\ b \in Calls
<1>1. b \in Calls /\ b \notin Publishers
    BY BatchAssumption DEF BatchOK, Bounded, Batches
<1>2. PICK s \in Slices : Len(given[b]) + Len(rest[b]) = Len(s) /\ commits[b] \subseteq DOMAIN s
    BY <1>1 DEF BatchOK, Bounded
<1>3. /\ Head(rest[b]) \in Messages /\ Len(rest'[b]) = Len(rest[b]) - 1
      /\ Len(rest[b]) \in Nat /\ Len(rest[b]) # 0 /\ Len(given[b]) \in Nat
    BY HeadTailProperties, LenProperties, EmptySeq DEF Types
<1>4. Len(given'[b]) = Len(given[b]) + 1
    BY <1>3, AppendProperties DEF Types
<1>5. DOMAIN s = 1..Len(s) /\ Len(s) \in Nat
    BY BatchAssumption, LenProperties
<1>6. Len(given'[b]) + Len(rest'[b]) = Len(s) /\ Len(given[b]) + 1 \in 1..Len(s)
    <2>1. \A g, n, l \in Nat : g + n = l /\ n # 0 => g + 1 + (n - 1) = l /\ g + 1 \in 1..l
        OBVIOUS
    <2>2. Len(given[b]) + 1 + (Len(rest[b]) - 1) = Len(s) /\ Len(given[b]) + 1 \in 1..Len(s)
        BY <1>2, <1>3, <1>5, <2>1
    <2> QED
        BY <1>3, <1>4, <2>2
<1>7. Len(given[b]) + 1 \in DOMAIN s
    BY <1>5, <1>6
<1> QED
    BY <1>1, <1>2, <1>6, <1>7 DEF Bounded

\* A turn of PublishMsgBatch, up to its wait.
LEMMA PublishNextSound ==
    ASSUME IInv, NEW b \in Batches, PublishNext(b)
    PROVE IInv'
<1> DEFINE m == Head(rest[b])
           last == Len(rest[b]) = 1
           reply == last \/ NeedsAck(sequence[b] + 1)
<1>1. /\ Types /\ BatchOK(b) /\ Open(b) /\ Take(b, m) /\ rest[b] # <<>>
      /\ last \in BOOLEAN /\ reply \in BOOLEAN
    BY DEF IInv, PublishNext
<1>2. m \in Messages /\ Tail(rest[b]) \in Seq(Messages)
    BY <1>1, HeadTailProperties DEF Types
<1>3. /\ rest' = [rest EXCEPT ![b] = Tail(@)] /\ answer' = answer /\ staged' = staged
      /\ stored' = stored /\ stale' = stale /\ outcome' = outcome
      /\ header' \in [Messages -> {"nil", "plain", "commit"}]
    BY <1>1 DEF PublishNext, server, Types
<1>4. /\ rest' \in [Batches -> Seq(Messages)] /\ rest'[b] = Tail(rest[b])
      /\ \A c \in Batches \ {b} : rest'[c] = rest[c]
    BY <1>1, <1>2, <1>3 DEF Types
<1>5. IF last THEN Asking(b) ELSE commits' = commits
    BY DEF PublishNext
<1>6. Len(given[b]) \in Nat
    BY <1>1, LenProperties DEF Types
<1>7. /\ commits' \in [Batches -> SUBSET Nat]
      /\ last => commits'[b] = commits[b] \cup {Len(given[b]) + 1}
      /\ ~last => commits'[b] = commits[b]
      /\ \A c \in Batches \ {b} : commits'[c] = commits[c]
    <2> HIDE DEF last
    <2>1. CASE last
        <3>1. Asking(b)
            BY <1>5, <2>1
        <3> QED
            BY <1>1, <1>6, <2>1, <3>1 DEF Asking, Types
    <2>2. CASE ~last
        BY <1>1, <1>5, <2>2 DEF Types
    <2> QED
        BY <2>1, <2>2
<1>8. \/ /\ Send(b, m, last, reply)
         /\ pc' = [pc EXCEPT ![b] = IF last THEN "commit"
                       ELSE IF NeedsAck(sequence[b] + 1) THEN "ack" ELSE "idle"]
         /\ closed' = closed
      \/ /\ Refuse
         /\ closed' = [closed EXCEPT ![b] = TRUE]
         /\ pc' = pc
    BY DEF PublishNext
<1>9. /\ given'[b] = Append(given[b], m) /\ sequence'[b] = sequence[b] + 1
      /\ given' \in [Batches -> Seq(Messages)] /\ sequence' \in [Batches -> Nat]
      /\ \A c \in Batches \ {b} : given'[c] = given[c] /\ sequence'[c] = sequence[c]
    BY <1>1, <1>2, TakeSound
<1>10. Bounded(b)'
    BY <1>1, <1>4, <1>7, <1>9, PublishNextBounded
<1>11. CASE /\ Send(b, m, last, reply)
            /\ pc' = [pc EXCEPT ![b] = IF last THEN "commit"
                          ELSE IF NeedsAck(sequence[b] + 1) THEN "ack" ELSE "idle"]
            /\ closed' = closed
    <2>1. /\ pc' \in [Batches -> {"idle", "ack", "commit"}]
          /\ \A c \in Batches \ {b} : pc'[c] = pc[c]
          /\ reply <=> pc'[b] # "idle"
          /\ pc'[b] = "commit" => last
        BY <1>1, <1>11 DEF Types
    <2> HIDE DEF m, last, reply
    <2>2. PICK r \in Requests :
            /\ wire'[b] = Append(wire[b], r) /\ r.seq = sequence[b] + 1 /\ r.message = m
            /\ r.commit <=> last
            /\ r.reply <=> reply
        BY <1>1, <1>2, <1>11, SendSound
    <2>3. /\ wire' \in [Batches -> Seq(Requests)] /\ faults' = faults
          /\ \A c \in Batches \ {b} : wire'[c] = wire[c]
        BY <1>1, <1>2, <1>11, SendSound
    <2>4. Types'
        BY <1>1, <1>3, <1>4, <1>7, <1>9, <1>11, <2>1, <2>3 DEF Types
    <2>5. \A c \in Batches \ {b} : Same(c)
        BY <1>3, <1>4, <1>7, <1>9, <1>11, <2>1, <2>3 DEF Same, Untouched
    <2>6. InOrder(b)' /\ Prefixes(b)' /\ Asked(b)' /\ Told(b)'
        <3>1. /\ given'[b] = Append(given[b], m) /\ sequence'[b] = sequence[b] + 1
              /\ staged'[b] = staged[b] /\ stored'[b] = stored[b]
              /\ answer'[b] = answer[b] /\ outcome'[b] = outcome[b]
              /\ closed'[b] = closed[b] /\ (b \in stale => b \in stale')
            BY <1>3, <1>9, <1>11
        <3>2. /\ \/ ~r.commit /\ commits'[b] = commits[b]
                 \/ r.commit /\ commits'[b] = commits[b] \cup {Len(given[b]) + 1}
              /\ r.reply <=> pc'[b] # "idle"
              /\ pc'[b] = "commit" => r.commit /\ Len(given[b]) + 1 \in commits'[b]
            BY <1>7, <2>1, <2>2
        <3> QED
            BY <1>1, <1>2, <2>2, <3>1, <3>2, SentSound
    <2> QED
        BY <1>1, <1>10, <2>4, <2>5, <2>6, OneBatch DEF BatchOK
<1>12. CASE Refuse /\ closed' = [closed EXCEPT ![b] = TRUE] /\ pc' = pc
    <2> HIDE DEF m, last, reply
    <2>1. Types'
        BY <1>1, <1>3, <1>4, <1>7, <1>9, <1>12, RefuseSound DEF Types
    <2>2. \A c \in Batches \ {b} : Same(c)
        BY <1>1, <1>3, <1>4, <1>7, <1>9, <1>12, RefuseSound DEF Types, Same, Untouched
    <2>3. InOrder(b)' /\ Prefixes(b)' /\ Asked(b)' /\ Told(b)'
        BY <1>1, <1>2, <1>3, <1>7, <1>9, <1>12, RefuseSound, RefusedSound
    <2> QED
        BY <1>1, <1>10, <2>1, <2>2, <2>3, OneBatch DEF BatchOK
<1> QED
    BY <1>8, <1>11, <1>12

-----------------------------------------------------------------------------
(* The invariant and what follows from it.                                 *)

\* Every step preserves it.
LEMMA NextSound == ASSUME IInv, [Next]_vars PROVE IInv'
<1>1. CASE Next
    <2>1. PICK b \in Batches :
            \/ b \in Publishers /\ \E m \in Messages : AddMsg(b, m) \/ CommitMsg(b, m)
            \/ AckArrives(b) \/ CommitArrives(b) \/ Timeout(b) \/ Discard(b)
            \/ PublishNext(b) \/ PublishPanics(b)
            \/ LoseRequest(b) \/ LoseAnswer(b) \/ Accept(b) \/ Reject(b) \/ Abandon(b)
        BY <1>1 DEF Next
    <2>2. CASE b \in Publishers /\ \E m \in Messages : AddMsg(b, m) \/ CommitMsg(b, m)
        BY <2>2, AddMsgSound, CommitMsgSound
    <2>3. CASE AckArrives(b) \/ CommitArrives(b) \/ Timeout(b)
        BY <2>3, AckArrivesSound, CommitArrivesSound, TimeoutSound
    <2>4. CASE Discard(b) \/ PublishPanics(b)
        BY <2>4, ClosedSound
    <2>5. CASE PublishNext(b)
        BY <2>5, PublishNextSound
    <2>6. CASE LoseRequest(b) \/ LoseAnswer(b)
        BY <2>6, LoseRequestSound, LoseAnswerSound
    <2>7. CASE Accept(b) \/ Reject(b) \/ Abandon(b)
        BY <2>7, AcceptSound, RejectSound, AbandonSound
    <2> QED
        BY <2>1, <2>2, <2>3, <2>4, <2>5, <2>6, <2>7
<1>2. CASE UNCHANGED vars
    <2>1. Types'
        BY <1>2 DEF IInv, Types, vars, local, server, said
    <2>2. \A c \in Batches : Same(c)
        BY <1>2 DEF Same, Untouched, vars, local, server, said
    <2> QED
        BY <2>1, <2>2, SameSound DEF IInv
<1> QED
    BY <1>1, <1>2

(* At any time, for every batch, of publishers and of calls.               *)
THEOREM BatchInvariant == Spec => []IInv
BY InitSound, NextSound, PTL DEF Spec

(* Every variable has a value of its type, sequences count what was given, *)
(* and a batch the server stages is not stored.                            *)
THEOREM BatchTypeCorrect == Spec => []TypeOK
<1>1. IInv => TypeOK
    <2> SUFFICES ASSUME IInv PROVE TypeOK
        OBVIOUS
    <2>1. Types /\ \A b \in Batches : BatchOK(b)
        BY DEF IInv
    <2>2. ASSUME NEW b \in Batches
          PROVE commits[b] \in SUBSET (1..(MaxSize + 1) \cup UNION {DOMAIN s : s \in Slices})
        BY <2>1 DEF BatchOK, Bounded, Batches
    <2>3. commits \in [Batches -> SUBSET (1..(MaxSize + 1) \cup UNION {DOMAIN s : s \in Slices})]
        <3>1. commits \in [Batches -> SUBSET Nat]
            BY <2>1 DEF Types
        <3> QED
            BY <2>2, <3>1
    <2>4. ASSUME NEW b \in Batches
          PROVE answer[b] \in {None, Ok, Err} \cup {Acks(n) : n \in 1..sequence[b]}
        <3>1. stored[b] # <<>> => Len(stored[b]) \in 1..sequence[b]
            BY <2>1, LenProperties, EmptySeq DEF Types, BatchOK, Prefixes, Told
        <3> QED
            BY <2>1, <3>1 DEF BatchOK, Asked
    <2>5. ASSUME NEW b \in Batches
          PROVE /\ {rest[b], staged[b], stored[b], given[b]} \subseteq Seq(Messages)
                /\ wire[b] \in Seq(Requests)
                /\ sequence[b] = Len(given[b])
                /\ closed[b] => pc[b] = "idle"
                /\ staged[b] = <<>> \/ stored[b] = <<>>
        BY <2>1 DEF Types, BatchOK, Told, Prefixes
    <2> QED
        BY <2>1, <2>3, <2>4, <2>5 DEF TypeOK, Types
<1> QED
    BY <1>1, BatchInvariant, PTL

(* What is stored of a batch ends with a message that commits it.          *)
THEOREM OnlyCommittedIsStored == Spec => []StoredUponCommit
<1>1. IInv => StoredUponCommit
    BY DEF IInv, BatchOK, Prefixes, StoredUponCommit
<1> QED
    BY <1>1, BatchInvariant, PTL

(* A refused commit, the first of its batch, means that nothing is stored. *)
THEOREM RefusalsAreTrue == Spec => []CommitTells
<1>1. IInv => CommitTells
    <2> SUFFICES ASSUME IInv, NEW b \in Batches, b \notin stale,
                        outcome[b] = "refused", Cardinality(commits[b]) = 1
                 PROVE stored[b] = <<>>
        BY DEF CommitTells
    <2>1. Types /\ Prefixes(b) /\ Told(b)
        BY DEF IInv, BatchOK
    <2>2. /\ commits[b] \subseteq 1..Len(given[b]) /\ Len(given[b]) \in Nat
          /\ Len(given[b]) \in commits[b] /\ Len(stored[b]) < Len(given[b])
        BY <2>1, LenProperties DEF Told, Types
    <2>3. PICK n : commits[b] = {n}
        <3>1. IsFiniteSet(1..Len(given[b]))
            BY <2>2, FS_Interval
        <3>2. IsFiniteSet(commits[b])
            BY <2>2, <3>1, FS_Subset
        <3> QED
            BY <3>2, FS_Singleton
    <2>4. commits[b] = {Len(given[b])}
        BY <2>2, <2>3
    <2>5. Len(stored[b]) # Len(given[b])
        BY <2>1, <2>2, LenProperties DEF Types
    <2> QED
        BY <2>1, <2>4, <2>5 DEF Prefixes
<1> QED
    BY <1>1, BatchInvariant, PTL

(* A commit after one without an answer is never acknowledged.             *)
THEOREM NoSecondCommit == Spec => []CommitIsNotRetried
<1>1. IInv => CommitIsNotRetried
    <2> SUFFICES ASSUME IInv, NEW b \in Batches, Cardinality(commits[b]) > 1,
                        outcome[b] = "acked"
                 PROVE FALSE
        BY DEF CommitIsNotRetried
    <2>1. Types /\ Prefixes(b) /\ Told(b)
        BY DEF IInv, BatchOK
    <2>2. /\ Len(stored[b]) = Len(given[b]) /\ Len(given[b]) \in Nat
          /\ commits[b] \subseteq 1..Len(given[b])
          /\ \A i \in 1..Len(stored[b]) : i < Len(stored[b]) => i \notin commits[b]
        BY <2>1, LenProperties DEF Told, Prefixes, Types
    <2>3. commits[b] \subseteq {Len(given[b])}
        BY <2>2
    <2>4. Cardinality({Len(given[b])}) = 1 /\ IsFiniteSet({Len(given[b])})
        BY FS_Singleton
    <2>5. Cardinality(commits[b]) <= 1 /\ Cardinality(commits[b]) \in Nat
        BY <2>3, <2>4, FS_Subset, FS_CardinalityType
    <2> QED
        BY <2>5
<1> QED
    BY <1>1, BatchInvariant, PTL

-----------------------------------------------------------------------------
(* It implements AtomicBatch.                                              *)

\* What is stored of a batch when a message completes it.
LEMMA StoreRefines ==
    ASSUME IInv, NEW b \in Batches, Accept(b)
    PROVE [Atomic!Next]_(Atomic!vars)
<1> DEFINE r == Head(wire[b])
           batch == Append(staged[b], r.message)
<1>1. Types /\ BatchOK(b) /\ wire[b] # <<>>
    BY DEF IInv, Accept
<1>2. UNCHANGED <<given, commits, stale, outcome>>
    BY DEF Accept, said
<1>3. CASE ~r.commit
    <2>1. stored' = [stored EXCEPT ![b] = stored[b]]
        BY <1>3 DEF Accept
    <2>2. stored' = stored
        BY <1>1, <2>1 DEF Types
    <2> QED
        BY <1>2, <2>2 DEF Atomic!vars
<1>4. CASE r.commit
    <2>1. r.seq = Len(staged[b]) + 1
        <3>1. Len(batch) = Len(staged[b]) + 1
            BY <1>1, AheadOfFirst, AppendProperties DEF Types, Requests
        <3> QED
            BY <3>1 DEF Accept
    <2>2. /\ batch \in Seq(Messages) /\ Len(batch) = r.seq
          /\ \A i \in 1..r.seq : batch[i] = given[b][i]
          /\ r.seq \in 1..Len(given[b]) /\ stored[b] = <<>>
        BY <1>1, <2>1, ContinuedSound
    <2>3. stored' = [stored EXCEPT ![b] = batch]
        BY <1>4 DEF Accept
    <2> HIDE DEF r, batch
    <2>4. given[b] \in Seq(Messages) /\ Len(given[b]) \in Nat
        BY <1>1, LenProperties DEF Types
    <2>5. batch = SubSeq(given[b], 1, r.seq)
        <3>1. /\ SubSeq(given[b], 1, r.seq) \in Seq(Messages)
              /\ Len(SubSeq(given[b], 1, r.seq)) = r.seq
              /\ \A i \in 1..r.seq : SubSeq(given[b], 1, r.seq)[i] = given[b][i]
            BY <2>2, <2>4, SubSeqProperties
        <3> QED
            BY <2>2, <3>1, SeqEqual
    <2>6. stored' = [stored EXCEPT ![b] = SubSeq(given[b], 1, r.seq)]
        BY <2>3, <2>5
    <2>7. r.seq \in commits[b] \/ b \in stale
        <3>1. r = wire[b][1] /\ Placed(b, 1)
            BY <1>1, AheadOfFirst DEF r, BatchOK, InOrder
        <3> QED
            BY <1>4, <3>1 DEF Placed
    <2>8. Atomic!Store(b)
        BY <1>2, <2>2, <2>6, <2>7 DEF Atomic!Store
    <2> QED
        BY <2>8 DEF Atomic!Next
<1> QED
    BY <1>3, <1>4

\* A message given to a batch, which nobody has been told is stored.
LEMMA GiveRefines ==
    ASSUME IInv, NEW b \in Batches, NEW m \in Messages, Open(b), Take(b, m),
           stored' = stored, outcome' = outcome,
           commits' = commits \/ Asking(b),
           stale' = stale \/ stale' = stale \cup {b}
    PROVE Atomic!Next
<1>1. outcome[b] # "acked"
    BY DEF Open, IInv, BatchOK, Told
<1>2. Atomic!Give(b, m)
    BY <1>1 DEF Atomic!Give, Take, Asking
<1> QED
    BY <1>2 DEF Atomic!Next

\* The caller is told, and what is stored is all that was given.
LEMMA AcknowledgeRefines ==
    ASSUME IInv, NEW b \in Batches, CommitArrives(b)
    PROVE [Atomic!Next]_(Atomic!vars)
<1>1. IInv' /\ Types
    BY CommitArrivesSound DEF IInv
<1>2. /\ UNCHANGED <<given, commits, stale, stored>>
      /\ outcome' = [outcome EXCEPT ![b] = IF Accepted(b) THEN "acked" ELSE "refused"]
    BY DEF CommitArrives, server
<1>3. outcome[b] # "acked"
    BY DEF CommitArrives, IInv, BatchOK, Told
<1>4. CASE Accepted(b)
    <2>1. outcome'[b] = "acked"
        BY <1>1, <1>2, <1>4 DEF Types
    <2>2. Len(stored[b]) = Len(given[b]) /\ stored[b] # <<>>
        BY <1>1, <1>2, <2>1 DEF IInv, BatchOK, Told
    <2>3. stored[b] \in Seq(Messages) /\ given[b] \in Seq(Messages)
        BY <1>1 DEF Types
    <2>4. \A i \in 1..Len(stored[b]) : stored[b][i] = given[b][i]
        BY DEF IInv, BatchOK, Prefixes
    <2>5. stored[b] = given[b]
        BY <2>2, <2>3, <2>4, SeqEqual
    <2>6. {c \in Batches : outcome'[c] = "acked"} = {c \in Batches : outcome[c] = "acked"} \cup {b}
        BY <1>1, <1>2, <2>1 DEF Types
    <2>7. Atomic!Acknowledge(b)
        BY <1>2, <2>2, <2>5, <2>6 DEF Atomic!Acknowledge
    <2> QED
        BY <2>7 DEF Atomic!Next
<1>5. CASE ~Accepted(b)
    <2>1. {c \in Batches : outcome'[c] = "acked"} = {c \in Batches : outcome[c] = "acked"}
        BY <1>1, <1>2, <1>3, <1>5 DEF Types
    <2> QED
        BY <1>2, <2>1 DEF Atomic!vars
<1> QED
    BY <1>4, <1>5

\* The other steps change nothing of what is given, stored or acknowledged.
LEMMA OthersRefine ==
    ASSUME IInv, NEW b \in Batches,
           \/ AckArrives(b) \/ Timeout(b) \/ Discard(b) \/ PublishPanics(b)
           \/ LoseRequest(b) \/ LoseAnswer(b) \/ Reject(b) \/ Abandon(b)
    PROVE UNCHANGED Atomic!vars
<1>1. UNCHANGED <<given, commits, stale, stored>>
    BY DEF AckArrives, Timeout, Discard, PublishPanics, LoseRequest, LoseAnswer, Reject,
           Abandon, server, said
<1>2. CASE outcome' = outcome
    BY <1>1, <1>2 DEF Atomic!vars
<1>3. CASE Timeout(b)
    <2>1. outcome[b] # "acked" /\ outcome \in [Batches -> {"none", "acked", "refused", "unknown"}]
        BY <1>3 DEF Timeout, IInv, Types, BatchOK, Told
    <2>2. outcome' = [outcome EXCEPT ![b] = "unknown"] \/ outcome' = outcome
        BY <1>3 DEF Timeout
    <2>3. {c \in Batches : outcome'[c] = "acked"} = {c \in Batches : outcome[c] = "acked"}
        BY <2>1, <2>2
    <2> QED
        BY <1>1, <2>3 DEF Atomic!vars
<1> QED
    BY <1>2, <1>3 DEF AckArrives, Discard, PublishPanics, LoseRequest, LoseAnswer, Reject,
                      Abandon, said

(* Both ways of publishing a batch are atomic.                             *)
THEOREM BatchesAreAtomic == Spec => ImplementsAtomicBatch
<1>1. Init => Atomic!Init
    BY DEF Init, Atomic!Init
<1>2. IInv /\ [Next]_vars => [Atomic!Next]_(Atomic!vars)
    <2> SUFFICES ASSUME IInv, [Next]_vars PROVE [Atomic!Next]_(Atomic!vars)
        OBVIOUS
    <2>1. CASE UNCHANGED vars
        BY <2>1 DEF vars, server, said, Atomic!vars
    <2>2. CASE Next
        <3>1. PICK b \in Batches :
                \/ b \in Publishers /\ \E m \in Messages : AddMsg(b, m) \/ CommitMsg(b, m)
                \/ AckArrives(b) \/ CommitArrives(b) \/ Timeout(b) \/ Discard(b)
                \/ PublishNext(b) \/ PublishPanics(b)
                \/ LoseRequest(b) \/ LoseAnswer(b) \/ Accept(b) \/ Reject(b) \/ Abandon(b)
            BY <2>2 DEF Next
        <3>2. ASSUME NEW m \in Messages, AddMsg(b, m) \/ CommitMsg(b, m) PROVE Atomic!Next
            BY <3>2, GiveRefines DEF AddMsg, CommitMsg, server
        <3>3. CASE PublishNext(b)
            <4>1. Head(rest[b]) \in Messages
                BY <3>3, HeadTailProperties DEF PublishNext, IInv, Types
            <4> QED
                BY <3>3, <4>1, GiveRefines DEF PublishNext, server
        <3> QED
            BY <3>1, <3>2, <3>3, AcknowledgeRefines, StoreRefines, OthersRefine
    <2> QED
        BY <2>1, <2>2
<1> QED
    BY <1>1, <1>2, BatchInvariant, PTL DEF Spec, ImplementsAtomicBatch, Atomic!Spec
=============================================================================
