------------------------ MODULE FastPublisher_proofs ------------------------
(***************************************************************************)
(* For any ack frequency and limit, any number of messages, losses and     *)
(* faults: the types of the state, that what is acknowledged is stored,    *)
(* that an Add leaves fewer messages unacknowledged than its limit, that   *)
(* one that stalls times out only when its pings were lost too, and that   *)
(* the publisher and the server together keep the log of AckedLog.         *)
(***************************************************************************)
EXTENDS FastPublisher, FiniteSetTheorems, SequenceTheorems, TLAPS

Requests == [op : {"start", "add", "ping", "commit", "eob"}, seq : Nat]
Answers  == [type : {"ack", "gap"} \cup Response, seq : Nat, msgs : Nat]

\* The publisher's fields and its goroutine's local state.
CallerTypes ==
    /\ gapOk \in BOOLEAN /\ closed \in BOOLEAN /\ subject \in BOOLEAN
    /\ ackSub \in BOOLEAN /\ blocked \in BOOLEAN
    /\ pc \in Waiting \cup {"idle"}
    /\ sequence \in 0 .. MaxSequence
    /\ stallCh \in {"nil", "empty", "full"}
    /\ commitCh \in {"nil", "empty"} \cup Response
    /\ pings \in 0 .. MaxPings
    /\ outcome \in {"none", "added", "refused", "failed", "timeout"} \cup Response

\* What the handler keeps, the server, and the connection.
OtherTypes ==
    /\ ackSequence \in Nat /\ flow \in 1 .. Flow
    /\ firstAckCh \in BOOLEAN /\ firstAck \in Nat
    /\ batch \in {"none", "open", "ended"}
    /\ last \in Nat /\ acked \in Nat /\ every \in 1 .. Flow
    /\ persisted \subseteq Nat
    /\ lost \in 0 .. MaxLost /\ faults \in 0 .. MaxFaults
    /\ toServer \in Seq(Requests) /\ toClient \in Seq(Answers)

\* Where the caller waits, and what it knows there.
CallerOK ==
    /\ pc = "first" => sequence = 1
    /\ pc \in {"stalled", "committing"} => sequence > 0
    /\ pc \in {"commit", "eob"} => sequence < MaxSequence
    /\ pc = "ending" => outcome # "added"

\* The acknowledged, the server's and the publisher's sequences, in that order.
Ordered ==
    /\ ackSequence <= last /\ acked <= last /\ last <= sequence
    /\ firstAck <= sequence
    /\ firstAck # 0 => ackSequence > 0
    /\ batch = "none" => last = 0

\* Without gaps, an open batch is stored without a hole.
Stored ==
    /\ persisted \subseteq 1 .. last
    /\ ~gapOk /\ batch = "open" => 1 .. last \subseteq persisted
    /\ ~gapOk => 1 .. ackSequence \subseteq persisted

\* Requests travel in the order of their sequences, ahead of the server's.
RequestsOK ==
    \A k \in 1 .. Len(toServer) :
        /\ toServer[k].seq \in 1 .. sequence
        /\ last <= toServer[k].seq
        /\ \A j \in 1 .. Len(toServer) :
              j < k => toServer[j].seq <= toServer[k].seq

\* So do acks, behind it; each is true when it was sent, and stays so.
AckOK(k) ==
    toClient[k].type = "ack" =>
        /\ toClient[k].msgs \in 1 .. Flow
        /\ toClient[k].seq \in 1 .. last
        /\ ackSequence <= toClient[k].seq
        /\ \A j \in 1 .. Len(toClient) :
              j < k /\ toClient[j].type = "ack" => toClient[j].seq <= toClient[k].seq
        /\ ~gapOk => 1 .. toClient[k].seq \subseteq persisted

AnswersOK ==
    /\ \A k \in 1 .. Len(toClient) : AckOK(k)
    /\ ~ackSub => toClient = <<>>
    /\ blocked => toClient # <<>> /\ toClient[1].type \in Response

Types == CallerTypes /\ OtherTypes

IInv == /\ Types /\ CallerOK /\ Ordered /\ Stored /\ RequestsOK /\ AnswersOK
        /\ OutstandingBounded
-----------------------------------------------------------------------------
(* What the steps have in common.                                          *)

\* A frequency the server announces allows no more than the one asked for.
LEMMA LimitKnown ==
    ASSUME NEW f \in 1 .. Flow
    PROVE  /\ f * MaxOutstandingAcks \in Nat \ {0}
           /\ Flow * MaxOutstandingAcks \in Nat \ {0}
           /\ f * MaxOutstandingAcks <= Flow * MaxOutstandingAcks
BY FastAssumption

\* The messages of both directions are of their types.
LEMMA MessagesKnown ==
    /\ \A s \in Nat : \A o \in {"start", "add", "ping", "commit", "eob"} :
          [op |-> o, seq |-> s] \in Requests
    /\ GapMsg \in Answers /\ GapMsg.type = "gap"
    /\ \A r \in Response : EndMsg(r) \in Answers /\ EndMsg(r).type = r
    /\ \A s, n \in Nat : /\ AckMsg(s, n) \in Answers /\ AckMsg(s, n).type = "ack"
                         /\ AckMsg(s, n).seq = s /\ AckMsg(s, n).msgs = n
BY DEF Requests, Answers, Response, GapMsg, EndMsg, AckMsg

\* Fault counts within its bound, and no run without faults has had one.
LEMMA FaultCounts ==
    ASSUME Types, NEW kind, Fault(kind)
    PROVE  faults' \in 0 .. MaxFaults /\ faults' # 0 /\ lost' = lost
BY FastAssumption DEF Types, OtherTypes, Fault

\* A step of the caller leaves the order and the storage as they are.
LEMMA ServerKept ==
    ASSUME Types, Ordered, Stored, UNCHANGED <<gapOk, handler, server>>,
           sequence' \in Nat, sequence <= sequence'
    PROVE  Ordered' /\ Stored'
BY DEF Types, CallerTypes, OtherTypes, Ordered, Stored, handler, server

\* What is under way to the server does not mind that the publisher goes on,
LEMMA RequestsKept ==
    ASSUME Types, RequestsOK, UNCHANGED <<toServer, last>>,
           sequence' \in Nat, sequence <= sequence'
    PROVE  RequestsOK'
<1>1. sequence \in Nat /\ toServer' = toServer /\ last' = last
    BY FastAssumption DEF Types, CallerTypes
<1>2. 1 .. sequence \subseteq 1 .. sequence'
    BY <1>1
<1> QED
    BY <1>1, <1>2 DEF RequestsOK

\* nor that it sends its highest sequence.
LEMMA RequestSent ==
    ASSUME Types, Ordered, RequestsOK, last' = last,
           sequence' \in Nat \ {0}, sequence <= sequence',
           NEW op \in {"start", "add", "ping", "commit", "eob"},
           toServer' = Append(toServer, [op |-> op, seq |-> sequence'])
    PROVE  RequestsOK' /\ toServer' \in Seq(Requests)
<1> DEFINE new == [op |-> op, seq |-> sequence']
<1>1. new \in Requests /\ new.seq = sequence'
    BY MessagesKnown
<1>2. toServer \in Seq(Requests) /\ last \in Nat /\ last <= sequence'
    BY DEF Types, CallerTypes, OtherTypes, Ordered
<1>3. /\ toServer' \in Seq(Requests)
      /\ Len(toServer') = Len(toServer) + 1
      /\ \A k \in 1 .. Len(toServer) : toServer'[k] = toServer[k]
      /\ toServer'[Len(toServer) + 1] = new
    BY <1>1, <1>2, AppendProperties
<1>4. \A k \in 1 .. Len(toServer) : toServer[k].seq \in 1 .. sequence
    BY DEF RequestsOK
<1> HIDE DEF new
<1>5. ASSUME NEW k \in 1 .. Len(toServer')
      PROVE  /\ toServer'[k].seq \in 1 .. sequence'
             /\ last' <= toServer'[k].seq
             /\ \A j \in 1 .. Len(toServer') :
                   j < k => toServer'[j].seq <= toServer'[k].seq
    <2>1. CASE k = Len(toServer) + 1
        <3>1. \A j \in 1 .. Len(toServer') : j < k => j \in 1 .. Len(toServer)
            BY <1>2, <1>3, <2>1, LenProperties
        <3> QED
            BY <1>1, <1>2, <1>3, <1>4, <2>1, <3>1 DEF Types, CallerTypes
    <2>2. CASE k # Len(toServer) + 1
        <3>1. k \in 1 .. Len(toServer)
            BY <1>2, <1>3, <2>2, LenProperties
        <3>2. \A j \in 1 .. Len(toServer') : j < k => j \in 1 .. Len(toServer)
            BY <1>2, <1>3, <3>1, LenProperties
        <3> QED
            BY <1>3, <1>4, <3>1, <3>2 DEF RequestsOK, Types, CallerTypes
    <2> QED
        BY <2>1, <2>2
<1> QED
    BY <1>3, <1>5 DEF RequestsOK

\* The first request leaves; the server is at most where it leads.
LEMMA RequestTaken ==
    ASSUME Types, RequestsOK, toServer # <<>>, toServer' = Tail(toServer),
           last' \in Nat, last' <= Head(toServer).seq, sequence' = sequence
    PROVE  RequestsOK' /\ toServer' \in Seq(Requests)
<1>1. toServer \in Seq(Requests) /\ Len(toServer) \in Nat
    BY LenProperties DEF Types, OtherTypes
<1>2. /\ Len(toServer') = Len(toServer) - 1
      /\ toServer' \in Seq(Requests)
      /\ \A k \in 1 .. Len(toServer') :
            toServer'[k] = toServer[k + 1] /\ k + 1 \in 1 .. Len(toServer)
      /\ Head(toServer) = toServer[1] /\ 1 \in 1 .. Len(toServer)
    BY <1>1, HeadTailProperties, EmptySeq
<1>3. \A k \in 1 .. Len(toServer) : toServer[k].seq \in Nat
    BY FastAssumption DEF RequestsOK, Types, CallerTypes
<1> QED
    BY <1>1, <1>2, <1>3 DEF RequestsOK

\* Answers stay in order when the subscription does,
LEMMA AnswersKept ==
    ASSUME Types, AnswersOK, ackSub => ackSub',
           UNCHANGED <<gapOk, blocked, toClient, ackSequence, last, persisted>>
    PROVE  AnswersOK'
BY DEF AnswersOK, AckOK

\* and are gone with it.
LEMMA AnswersDropped ==
    ASSUME Unsubscribe, ~blocked'
    PROVE  AnswersOK' /\ toClient' \in Seq(Answers)
BY EmptySeq DEF Unsubscribe, AnswersOK

\* The first answer leaves; the publisher is at most where it leads.
LEMMA AnswerTaken ==
    ASSUME Types, AnswersOK, toClient # <<>>, toClient' = Tail(toClient), ~blocked',
           \/ ackSequence' = ackSequence
           \/ Head(toClient).type = "ack" /\ ackSequence' = Head(toClient).seq,
           UNCHANGED <<gapOk, ackSub, last, persisted>>
    PROVE  AnswersOK' /\ toClient' \in Seq(Answers)
<1>1. toClient \in Seq(Answers) /\ Len(toClient) \in Nat
    BY LenProperties DEF Types, OtherTypes
<1>2. /\ Len(toClient') = Len(toClient) - 1
      /\ toClient' \in Seq(Answers)
      /\ \A k \in 1 .. Len(toClient') :
            toClient'[k] = toClient[k + 1] /\ k + 1 \in 1 .. Len(toClient)
      /\ Head(toClient) = toClient[1] /\ 1 \in 1 .. Len(toClient)
    BY <1>1, HeadTailProperties, EmptySeq
<1>3. ASSUME NEW k \in 1 .. Len(toClient'), toClient'[k].type = "ack"
      PROVE  AckOK(k)'
    <2>1. k + 1 \in 1 .. Len(toClient) /\ toClient[k + 1].type = "ack" /\ AckOK(k + 1)
        BY <1>2, <1>3 DEF AnswersOK
    <2>2. ackSequence' <= toClient'[k].seq
        BY <1>2, <2>1 DEF AckOK
    <2>3. \A j \in 1 .. Len(toClient') :
              j < k /\ toClient'[j].type = "ack" => toClient'[j].seq <= toClient'[k].seq
        BY <1>2, <2>1 DEF AckOK
    <2> QED
        BY <1>2, <2>1, <2>2, <2>3 DEF AckOK
<1> QED
    BY <1>2, <1>3 DEF AnswersOK, AckOK

\* What the server answers: at most one ack, after whatever else it says.
AnswerOK(reply) ==
    reply.type = "ack" =>
        /\ reply.msgs \in 1 .. Flow
        /\ reply.seq \in 1 .. last' /\ last <= reply.seq
        /\ ~gapOk => 1 .. reply.seq \subseteq persisted'

RepliesOK(replies) ==
    /\ replies \in Seq(Answers)
    /\ \A k \in 1 .. Len(replies) : AnswerOK(replies[k])
    /\ \A j, k \in 1 .. Len(replies) : j < k => replies[j].type # "ack"

\* Answers that are true join the others.
LEMMA AnswersSent ==
    ASSUME Types, Ordered, AnswersOK, last' \in Nat, last <= last',
           persisted \subseteq persisted',
           UNCHANGED <<gapOk, ackSub, blocked, ackSequence>>,
           NEW replies, RepliesOK(replies), Answer(replies)
    PROVE  AnswersOK' /\ toClient' \in Seq(Answers)
<1>1. CASE ~ackSub
    BY <1>1 DEF Answer, AnswersOK, Types, OtherTypes, AckOK
<1>2. CASE ackSub
    <2>1. /\ toClient \in Seq(Answers) /\ replies \in Seq(Answers)
          /\ Len(toClient) \in Nat /\ Len(replies) \in Nat
        BY LenProperties DEF Types, OtherTypes, RepliesOK
    <2>2. toClient' = toClient \o replies
        BY <1>2 DEF Answer
    <2>3. /\ toClient' \in Seq(Answers)
          /\ Len(toClient') = Len(toClient) + Len(replies)
          /\ \A k \in 1 .. Len(toClient) : toClient'[k] = toClient[k]
          /\ \A k \in Len(toClient) + 1 .. Len(toClient') :
                /\ toClient'[k] = replies[k - Len(toClient)]
                /\ k - Len(toClient) \in 1 .. Len(replies)
        BY <2>1, <2>2, ConcatProperties
    <2>4. ASSUME NEW k \in 1 .. Len(toClient)
          PROVE  AckOK(k)'
        <3>1. AckOK(k) /\ k \in 1 .. Len(toClient')
            BY <2>1, <2>3 DEF AnswersOK
        <3>2. \A j \in 1 .. Len(toClient') : j < k => j \in 1 .. Len(toClient)
            BY <2>1, <2>3
        <3>3. 1 .. last \subseteq 1 .. last'
            BY DEF Types, OtherTypes
        <3>4. toClient'[k] = toClient[k]
            BY <2>3
        <3>5. \A j \in 1 .. Len(toClient') :
                  j < k /\ toClient'[j].type = "ack" /\ toClient'[k].type = "ack"
                      => toClient'[j].seq <= toClient'[k].seq
            BY <2>3, <3>1, <3>2, <3>4 DEF AckOK
        <3> QED
            BY <3>1, <3>3, <3>4, <3>5 DEF AckOK
    <2>5. ASSUME NEW k \in Len(toClient) + 1 .. Len(toClient'),
                 toClient'[k].type = "ack"
          PROVE  AckOK(k)'
        <3>1. /\ AnswerOK(toClient'[k])
              /\ \A j \in Len(toClient) + 1 .. Len(toClient') :
                    j < k => toClient'[j].type # "ack"
            <4>1. AnswerOK(toClient'[k])
                BY <2>3 DEF RepliesOK
            <4>2. ASSUME NEW j \in Len(toClient) + 1 .. Len(toClient'), j < k
                  PROVE  toClient'[j].type # "ack"
                <5>1. j - Len(toClient) < k - Len(toClient)
                    BY <2>1, <4>2
                <5> QED
                    BY <2>3, <5>1 DEF RepliesOK
            <4> QED
                BY <4>1, <4>2
        <3>2. toClient'[k].seq \in Nat /\ last <= toClient'[k].seq
            BY <2>5, <3>1 DEF AnswerOK, Types, OtherTypes
        <3>3. \A j \in 1 .. Len(toClient) :
                  toClient[j].type = "ack" =>
                      toClient[j].seq \in Nat /\ toClient[j].seq <= last
            BY DEF AnswersOK, AckOK, Types, OtherTypes
        <3>4. \A j \in 1 .. Len(toClient') :
                  j < k /\ toClient'[j].type = "ack" => j \in 1 .. Len(toClient)
            BY <2>1, <2>3, <3>1
        <3>5. \A j \in 1 .. Len(toClient') :
                  j < k /\ toClient'[j].type = "ack"
                      => toClient'[j].seq <= toClient'[k].seq
            <4> SUFFICES ASSUME NEW j \in 1 .. Len(toClient'),
                                j < k, toClient'[j].type = "ack"
                         PROVE  toClient'[j].seq <= toClient'[k].seq
                OBVIOUS
            <4>1. j \in 1 .. Len(toClient) /\ toClient'[j] = toClient[j]
                BY <2>3, <3>4
            <4>2. toClient[j].seq \in Nat /\ toClient[j].seq <= last
                BY <3>3, <4>1
            <4> QED
                BY <3>2, <4>1, <4>2 DEF Types, OtherTypes
        <3>6. ackSequence' <= toClient'[k].seq
            BY <3>2 DEF Ordered, Types, OtherTypes
        <3> QED
            BY <2>5, <3>1, <3>5, <3>6 DEF AnswerOK, AckOK
    <2>6. blocked' => toClient' # <<>> /\ toClient'[1].type \in Response
        <3> SUFFICES ASSUME blocked'
                     PROVE  toClient' # <<>> /\ toClient'[1].type \in Response
            OBVIOUS
        <3>1. toClient # <<>> /\ toClient[1].type \in Response
            BY DEF AnswersOK
        <3>2. 1 \in 1 .. Len(toClient) /\ Len(toClient') # 0
            BY <2>1, <2>3, <3>1, EmptySeq
        <3> QED
            BY <2>3, <3>1, <3>2, EmptySeq
    <2>7. \A k \in 1 .. Len(toClient') : AckOK(k)'
        <3> SUFFICES ASSUME NEW k \in 1 .. Len(toClient') PROVE AckOK(k)'
            OBVIOUS
        <3>1. CASE k \in 1 .. Len(toClient)
            BY <2>4, <3>1
        <3>2. CASE k \notin 1 .. Len(toClient)
            <4>1. k \in Len(toClient) + 1 .. Len(toClient')
                BY <2>1, <2>3, <3>2
            <4> QED
                BY <2>5, <4>1 DEF AckOK
        <3> QED
            BY <3>1, <3>2
    <2> QED
        BY <1>2, <2>3, <2>6, <2>7 DEF AnswersOK
<1> QED
    BY <1>1, <1>2

\* A step that sends and takes nothing, of a goroutine that keeps its sequence.
LEMMA QuietStep ==
    ASSUME IInv, faults' \in 0 .. MaxFaults, lost' = lost,
           UNCHANGED <<gapOk, sequence, ackSub, blocked, toServer, toClient,
                       handler, server>>
    PROVE  OtherTypes' /\ Ordered' /\ Stored' /\ RequestsOK' /\ AnswersOK'
<1>1. OtherTypes'
    BY DEF IInv, Types, OtherTypes, handler, server
<1>2. sequence \in Nat
    BY FastAssumption DEF IInv, Types, CallerTypes
<1>3. Ordered' /\ Stored'
    BY <1>2, ServerKept DEF IInv
<1>4. RequestsOK'
    BY <1>2, RequestsKept DEF IInv, server
<1>5. AnswersOK'
    BY AnswersKept DEF IInv, handler, server
<1> QED
    BY <1>1, <1>3, <1>4, <1>5

-----------------------------------------------------------------------------
(* The invariant.                                                          *)

\* NewFastPublisher: nothing is sent, and nothing of the batch known.
LEMMA InitSound == Init => IInv
<1> SUFFICES ASSUME Init PROVE IInv
    OBVIOUS
<1>0. /\ Flow \in Nat \ {0} /\ MaxSequence \in Nat /\ MaxPings \in Nat
      /\ MaxLost \in Nat /\ MaxFaults \in Nat
    BY FastAssumption
<1>1. CallerTypes
    <2>1. gapOk \in BOOLEAN
        BY FastAssumption, Zenon DEF Init
    <2>2. /\ closed \in BOOLEAN /\ subject \in BOOLEAN
          /\ ackSub \in BOOLEAN /\ blocked \in BOOLEAN
        BY DEF Init
    <2>3. sequence \in 0 .. MaxSequence /\ pings \in 0 .. MaxPings
        BY <1>0 DEF Init
    <2> QED
        BY <2>1, <2>2, <2>3 DEF Init, CallerTypes
<1>2. OtherTypes
    <2>1. toServer \in Seq(Requests) /\ toClient \in Seq(Answers)
        BY EmptySeq DEF Init
    <2>2. flow \in 1 .. Flow /\ every \in 1 .. Flow
        BY <1>0 DEF Init
    <2>3. lost \in 0 .. MaxLost /\ faults \in 0 .. MaxFaults
        BY <1>0 DEF Init
    <2> QED
        BY <2>1, <2>2, <2>3 DEF Init, OtherTypes
<1>3. CallerOK /\ Ordered /\ Stored
    BY DEF Init, CallerOK, Ordered, Stored
<1>4. RequestsOK /\ AnswersOK
    BY EmptySeq DEF Init, RequestsOK, AnswersOK
<1> QED
    BY <1>1, <1>2, <1>3, <1>4 DEF IInv, Types, Init, OutstandingBounded

\* Add and AddMsg: the first message, the others, and the ends of their waits.
LEMMA AddSound == IInv /\ (Refused \/ Add) => IInv'
<1> SUFFICES ASSUME IInv, Refused \/ Add PROVE IInv'
    OBVIOUS
<1> USE FastAssumption
<1>0. /\ sequence \in Nat /\ ackSequence \in Nat /\ flow \in 1 .. Flow
      /\ faults \in 0 .. MaxFaults /\ lost \in 0 .. MaxLost
    BY DEF IInv, Types, CallerTypes, OtherTypes
<1>1. CASE Refused
    <2>1. OtherTypes' /\ Ordered' /\ Stored' /\ RequestsOK' /\ AnswersOK'
        BY <1>0, <1>1, QuietStep DEF Refused, world
    <2>2. CallerTypes' /\ CallerOK' /\ OutstandingBounded'
        BY <1>1 DEF Refused, Return, IInv, Types, CallerTypes, CallerOK,
                    OutstandingBounded
    <2> QED
        BY <2>1, <2>2 DEF IInv, Types
<1>2. CASE AddFirst
    <2>1. /\ sequence = 0 /\ sequence' = 1 /\ 1 <= MaxSequence
          /\ ackSub => ackSub'
          /\ UNCHANGED <<gapOk, ackSequence, flow, subject, firstAck, commitCh,
                         blocked, pings, toClient, server>>
        BY <1>2 DEF AddFirst
    <2>2. /\ faults' \in 0 .. MaxFaults /\ lost' = lost
          /\ toServer' = Append(toServer, [op |-> "start", seq |-> sequence'])
             \/ toServer' = toServer
          /\ pc' = "first" \/ (pc' = "idle" /\ outcome' = "failed")
          /\ outcome' \in {outcome, "failed"}
          /\ closed' \in BOOLEAN /\ ackSub' \in BOOLEAN /\ firstAckCh' \in BOOLEAN
          /\ stallCh' \in {"nil", "empty", "full"}
        BY <1>0, <1>2, FaultCounts
           DEF AddFirst, Send, Return, world, IInv, Types, CallerTypes, OtherTypes
    <2>3. CallerTypes' /\ CallerOK' /\ OutstandingBounded'
        BY <2>1, <2>2 DEF IInv, Types, CallerTypes, CallerOK, OutstandingBounded,
                          Waiting
    <2>4. Ordered' /\ Stored'
        BY <1>0, <2>1 DEF IInv, Types, OtherTypes, Ordered, Stored, server
    <2>5. RequestsOK' /\ toServer' \in Seq(Requests)
        <3>1. CASE toServer' = toServer
            BY <1>0, <2>1, <3>1, RequestsKept
               DEF IInv, Types, OtherTypes, server
        <3>2. CASE toServer' = Append(toServer, [op |-> "start", seq |-> sequence'])
            BY <1>0, <2>1, <3>2, RequestSent DEF IInv, server
        <3> QED
            BY <2>2, <3>1, <3>2
    <2>6. AnswersOK'
        BY <2>1, AnswersKept DEF IInv, server
    <2>7. OtherTypes'
        BY <2>1, <2>2, <2>5 DEF IInv, Types, OtherTypes, server
    <2> QED
        BY <2>3, <2>4, <2>5, <2>6, <2>7 DEF IInv, Types
<1>3. CASE FirstAcked
    <2>1. OtherTypes' /\ Ordered' /\ Stored' /\ RequestsOK' /\ AnswersOK'
        BY <1>0, <1>3, QuietStep DEF FirstAcked, world
    <2>2. CallerTypes' /\ CallerOK'
        BY <1>3 DEF FirstAcked, Return, IInv, Types, CallerTypes, CallerOK
    <2>3. sequence = 1 /\ ackSequence > 0
        BY <1>3 DEF FirstAcked, IInv, CallerOK, Ordered
    <2>4. Flow * MaxOutstandingAcks \in Nat \ {0}
        BY <1>0, LimitKnown
    <2>5. OutstandingBounded'
        BY <1>0, <1>3, <2>3, <2>4 DEF FirstAcked, handler, OutstandingBounded
    <2> QED
        BY <2>1, <2>2, <2>5 DEF IInv, Types
<1>4. CASE AddNext
    <2>1. /\ sequence' = sequence + 1 /\ sequence' \in 0 .. MaxSequence
          /\ sequence > 0
          /\ UNCHANGED <<gapOk, closed, subject, ackSub, stallCh, commitCh, blocked,
                         toClient, handler, server>>
        BY <1>0, <1>4 DEF AddNext
    <2>2. /\ faults' \in 0 .. MaxFaults /\ lost' = lost
          /\ toServer' = Append(toServer, [op |-> "add", seq |-> sequence'])
             \/ toServer' = toServer
          /\ \/ pc' = "stalled" /\ outcome' = outcome
             \/ /\ pc' = "idle" /\ outcome' = "added"
                /\ ~waitForAck(ackSequence, flow, sequence')
             \/ pc' = "idle" /\ outcome' = "failed"
          /\ pings' \in {0, pings}
        BY <1>0, <1>4, FaultCounts DEF AddNext, Send, Return, world, IInv
    <2>3. CallerTypes' /\ CallerOK'
        BY <2>1, <2>2 DEF IInv, Types, CallerTypes, CallerOK, Waiting
    <2>4. OutstandingBounded'
        <3>1. /\ flow * MaxOutstandingAcks \in Nat
              /\ Flow * MaxOutstandingAcks \in Nat
              /\ flow * MaxOutstandingAcks <= Flow * MaxOutstandingAcks
            BY <1>0, LimitKnown
        <3> QED
            BY <1>0, <2>1, <2>2, <3>1
               DEF handler, waitForAck, OutstandingBounded
    <2>5. Ordered' /\ Stored'
        BY <1>0, <2>1, ServerKept DEF IInv
    <2>6. RequestsOK' /\ toServer' \in Seq(Requests)
        <3>1. CASE toServer' = toServer
            BY <1>0, <2>1, <3>1, RequestsKept
               DEF IInv, Types, OtherTypes, server
        <3>2. CASE toServer' = Append(toServer, [op |-> "add", seq |-> sequence'])
            BY <1>0, <2>1, <3>2, RequestSent DEF IInv, server
        <3> QED
            BY <2>2, <3>1, <3>2
    <2>7. AnswersOK'
        BY <2>1, AnswersKept DEF IInv, handler, server
    <2>8. OtherTypes'
        BY <2>1, <2>2, <2>6 DEF IInv, Types, OtherTypes, handler, server
    <2> QED
        BY <2>3, <2>4, <2>5, <2>6, <2>7, <2>8 DEF IInv, Types
<1>5. CASE StallSignal
    <2>1. OtherTypes' /\ Ordered' /\ Stored' /\ RequestsOK' /\ AnswersOK'
        BY <1>0, <1>5, QuietStep DEF StallSignal, world
    <2>2. CallerTypes' /\ CallerOK'
        BY <1>5 DEF StallSignal, Return, IInv, Types, CallerTypes, CallerOK
    <2>3. /\ flow * MaxOutstandingAcks \in Nat
          /\ Flow * MaxOutstandingAcks \in Nat
          /\ flow * MaxOutstandingAcks <= Flow * MaxOutstandingAcks
        BY <1>0, LimitKnown
    <2>4. OutstandingBounded'
        BY <1>0, <1>5, <2>3
           DEF StallSignal, Return, handler, waitForAck, OutstandingBounded
    <2> QED
        BY <2>1, <2>2, <2>4 DEF IInv, Types
<1> QED
    BY <1>1, <1>2, <1>3, <1>4, <1>5 DEF Add

\* The ends of a stalled Add, of a first one and of a wait for the commit that
\* are errors.
LEMMA FailureSound == IInv /\ (Timeout \/ StallPingFails \/ CommitFails) => IInv'
<1> SUFFICES ASSUME IInv, Timeout \/ StallPingFails \/ CommitFails PROVE IInv'
    OBVIOUS
<1> USE FastAssumption
<1>0. faults \in 0 .. MaxFaults /\ sequence \in Nat
    BY DEF IInv, Types, CallerTypes, OtherTypes
<1>1. CASE FirstTimeout
    <2>1. /\ pc = "first" /\ pc' = "idle" /\ outcome' = "timeout" /\ closed' = TRUE
          /\ Unsubscribe /\ ~blocked /\ firstAckCh' = FALSE
          /\ UNCHANGED <<gapOk, sequence, ackSequence, flow, subject, firstAck,
                         stallCh, commitCh, blocked, pings, toServer, server, world>>
        BY <1>1 DEF FirstTimeout, Return
    <2>2. AnswersOK' /\ toClient' \in Seq(Answers)
        BY <2>1, AnswersDropped
    <2>3. CallerTypes' /\ CallerOK' /\ OutstandingBounded'
        BY <2>1 DEF Unsubscribe, IInv, Types, CallerTypes, CallerOK,
                    OutstandingBounded, Waiting
    <2>4. Ordered' /\ Stored'
        BY <2>1 DEF server, IInv, Ordered, Stored
    <2>5. RequestsOK'
        BY <1>0, <2>1, RequestsKept DEF IInv, server
    <2>6. OtherTypes'
        BY <2>1, <2>2 DEF IInv, Types, OtherTypes, server, world
    <2> QED
        BY <2>2, <2>3, <2>4, <2>5, <2>6 DEF IInv, Types
<1>2. ASSUME StallTimeout \/ StallPingFails
      PROVE  IInv'
    <2>1. /\ pc' = "idle" /\ outcome' \in {"timeout", "failed"} /\ closed' = TRUE
          /\ faults' \in 0 .. MaxFaults /\ lost' = lost
          /\ UNCHANGED <<gapOk, sequence, subject, ackSub, stallCh, commitCh,
                         blocked, pings, toServer, toClient, handler, server>>
        BY <1>0, <1>2, FaultCounts
           DEF StallTimeout, StallPingFails, StallFails, PingFails, Return, world,
               IInv
    <2>2. OtherTypes' /\ Ordered' /\ Stored' /\ RequestsOK' /\ AnswersOK'
        BY <2>1, QuietStep
    <2>3. CallerTypes' /\ CallerOK' /\ OutstandingBounded'
        BY <2>1 DEF IInv, Types, CallerTypes, CallerOK, OutstandingBounded
    <2> QED
        BY <2>2, <2>3 DEF IInv, Types
<1>3. ASSUME CommitTimeout \/ CommitFails
      PROVE  IInv'
    <2>1. /\ pc' = "ending" /\ outcome' \in {"timeout", "failed"}
          /\ faults' \in 0 .. MaxFaults /\ lost' = lost
          /\ UNCHANGED <<gapOk, sequence, closed, subject, ackSub, stallCh, commitCh,
                         blocked, pings, toServer, toClient, handler, server>>
        BY <1>0, <1>3, FaultCounts
           DEF CommitTimeout, CommitFails, GiveUp, PingFails, world, IInv
    <2>2. OtherTypes' /\ Ordered' /\ Stored' /\ RequestsOK' /\ AnswersOK'
        BY <2>1, QuietStep
    <2>3. CallerTypes' /\ CallerOK' /\ OutstandingBounded'
        BY <2>1 DEF IInv, Types, CallerTypes, CallerOK, OutstandingBounded, Waiting
    <2> QED
        BY <2>2, <2>3 DEF IInv, Types
<1> QED
    BY <1>1, <1>2, <1>3 DEF Timeout

\* Commit, CommitMsg and Close, and the pings of both waits.
LEMMA CommitSound == IInv /\ (Commit \/ Ping) => IInv'
<1> SUFFICES ASSUME IInv, Commit \/ Ping PROVE IInv'
    OBVIOUS
<1> USE FastAssumption
<1>0. faults \in 0 .. MaxFaults /\ sequence \in Nat
    BY DEF IInv, Types, CallerTypes, OtherTypes
<1>1. ASSUME NEW operation \in {"commit", "eob"}, CheckOpen(operation)
      PROVE  IInv'
    <2>1. OtherTypes' /\ Ordered' /\ Stored' /\ RequestsOK' /\ AnswersOK'
        BY <1>0, <1>1, QuietStep DEF CheckOpen, world
    <2>2. CallerTypes' /\ CallerOK' /\ OutstandingBounded'
        BY <1>1 DEF CheckOpen, IInv, Types, CallerTypes, CallerOK,
                    OutstandingBounded, Waiting
    <2> QED
        BY <2>1, <2>2 DEF IInv, Types
<1>2. ASSUME NEW operation \in {"commit", "eob"}, PublishCommit(operation)
      PROVE  IInv'
    <2>1. /\ sequence' = sequence + 1 /\ sequence' \in 0 .. MaxSequence
          /\ commitCh' \in {commitCh, "empty"}
          /\ UNCHANGED <<gapOk, closed, subject, stallCh, blocked, toClient, handler,
                         server>>
        BY <1>0, <1>2 DEF PublishCommit, IInv, CallerOK
    <2>2. /\ faults' \in 0 .. MaxFaults /\ lost' = lost
          /\ ackSub => ackSub'
          /\ ackSub' \in BOOLEAN
          /\ toServer' = Append(toServer, [op |-> operation, seq |-> sequence'])
             \/ toServer' = toServer
          /\ \/ pc' = "committing" /\ outcome' = outcome
             \/ pc' = "idle" /\ outcome' = "failed"
          /\ pings' \in {0, pings}
        BY <1>0, <1>2, FaultCounts
           DEF PublishCommit, Send, Return, world, IInv, Types, CallerTypes
    <2>3. CallerTypes' /\ CallerOK' /\ OutstandingBounded'
        BY <1>0, <2>1, <2>2 DEF IInv, Types, CallerTypes, CallerOK, Waiting,
                                OutstandingBounded
    <2>4. Ordered' /\ Stored'
        BY <1>0, <2>1, ServerKept DEF IInv
    <2>5. RequestsOK' /\ toServer' \in Seq(Requests)
        <3>1. CASE toServer' = toServer
            BY <1>0, <2>1, <3>1, RequestsKept
               DEF IInv, Types, OtherTypes, server
        <3>2. CASE toServer' = Append(toServer, [op |-> operation, seq |-> sequence'])
            BY <1>0, <2>1, <3>2, RequestSent DEF IInv, server
        <3> QED
            BY <2>2, <3>1, <3>2
    <2>6. AnswersOK'
        BY <2>1, <2>2, AnswersKept DEF IInv, handler, server
    <2>7. OtherTypes'
        BY <2>1, <2>2, <2>5 DEF IInv, Types, OtherTypes, handler, server
    <2> QED
        BY <2>3, <2>4, <2>5, <2>6, <2>7 DEF IInv, Types
<1>3. CASE Committed
    <2>1. /\ pc' = "ending" /\ outcome' = commitCh /\ commitCh \in Response
          /\ blocked' = FALSE
          /\ UNCHANGED <<gapOk, sequence, closed, subject, stallCh, pings, toServer,
                         handler, server, world>>
        BY <1>3 DEF Committed
    <2>2. /\ AnswersOK' /\ toClient' \in Seq(Answers) /\ ackSub' \in BOOLEAN
          /\ commitCh' \in {"empty"} \cup Response
        <3>1. CASE blocked
            <4>1. Unsubscribe /\ commitCh' = Head(toClient).type
                BY <1>3, <3>1 DEF Committed
            <4>2. toClient \in Seq(Answers) /\ toClient # <<>>
                  /\ toClient[1].type \in Response
                BY <3>1 DEF IInv, Types, OtherTypes, AnswersOK
            <4>3. Head(toClient) = toClient[1]
                BY <4>2
            <4> QED
                BY <2>1, <4>1, <4>2, <4>3, AnswersDropped DEF Unsubscribe
        <3>2. CASE ~blocked
            <4>1. commitCh' = "empty" /\ UNCHANGED <<ackSub, toClient>>
                BY <1>3, <3>2 DEF Committed
            <4>2. blocked' = blocked
                BY <2>1, <3>2 DEF IInv, Types, CallerTypes
            <4> QED
                BY <2>1, <4>1, <4>2, AnswersKept
                   DEF IInv, Types, CallerTypes, OtherTypes, handler, server
        <3> QED
            BY <3>1, <3>2
    <2>3. CallerTypes' /\ CallerOK' /\ OutstandingBounded'
        BY <2>1, <2>2 DEF IInv, Types, CallerTypes, CallerOK, Waiting,
                          OutstandingBounded, Response
    <2>4. Ordered' /\ Stored'
        BY <1>0, <2>1, ServerKept DEF IInv
    <2>5. RequestsOK'
        BY <1>0, <2>1, RequestsKept DEF IInv, server
    <2>6. OtherTypes'
        BY <2>1, <2>2 DEF IInv, Types, OtherTypes, handler, server, world
    <2> QED
        BY <2>2, <2>3, <2>4, <2>5, <2>6 DEF IInv, Types
<1>4. CASE EndCommit
    <2>1. /\ pc = "ending" /\ pc' = "idle" /\ closed' = TRUE
          /\ Unsubscribe /\ ~blocked
          /\ UNCHANGED <<gapOk, sequence, subject, stallCh, commitCh, blocked, pings,
                         outcome, toServer, handler, server, world>>
        BY <1>4 DEF EndCommit
    <2>2. AnswersOK' /\ toClient' \in Seq(Answers)
        BY <2>1, AnswersDropped
    <2>3. CallerTypes' /\ CallerOK' /\ OutstandingBounded'
        BY <2>1 DEF Unsubscribe, IInv, Types, CallerTypes, CallerOK,
                    OutstandingBounded
    <2>4. Ordered' /\ Stored'
        BY <1>0, <2>1, ServerKept DEF IInv
    <2>5. RequestsOK'
        BY <1>0, <2>1, RequestsKept DEF IInv, server
    <2>6. OtherTypes'
        BY <2>1, <2>2 DEF IInv, Types, OtherTypes, handler, server, world
    <2> QED
        BY <2>2, <2>3, <2>4, <2>5, <2>6 DEF IInv, Types
<1>5. CASE Ping
    <2>1. /\ pc \in {"stalled", "committing"} /\ sequence > 0
          /\ pings < MaxPings /\ pings' = pings + 1
          /\ toServer' = Append(toServer, [op |-> "ping", seq |-> sequence])
          /\ UNCHANGED <<gapOk, pc, sequence, closed, subject, ackSub, stallCh,
                         commitCh, blocked, outcome, toClient, handler, server, world>>
        BY <1>5 DEF Ping, sendPing, IInv, CallerOK
    <2>2. RequestsOK' /\ toServer' \in Seq(Requests)
        BY <1>0, <2>1, RequestSent DEF IInv, server
    <2>3. Ordered' /\ Stored'
        BY <1>0, <2>1, ServerKept DEF IInv
    <2>4. AnswersOK'
        BY <2>1, AnswersKept DEF IInv, handler, server
    <2>5. CallerTypes' /\ CallerOK' /\ OutstandingBounded'
        BY <2>1 DEF IInv, Types, CallerTypes, CallerOK, OutstandingBounded, handler
    <2>6. OtherTypes'
        BY <2>1, <2>2 DEF IInv, Types, OtherTypes, handler, server, world
    <2> QED
        BY <2>2, <2>3, <2>4, <2>5, <2>6 DEF IInv, Types
<1> QED
    BY <1>1, <1>2, <1>3, <1>4, <1>5 DEF Commit

\* ackMsgHandler: an ack never takes the publisher back.
LEMMA HandlerSound == IInv /\ ackMsgHandler => IInv'
<1> SUFFICES ASSUME IInv, ackMsgHandler PROVE IInv'
    OBVIOUS
<1> DEFINE msg == Head(toClient)
<1>0. /\ sequence \in Nat /\ ackSequence \in Nat /\ last \in Nat /\ last <= sequence
      /\ MaxSequence \in Nat
    BY FastAssumption DEF IInv, Types, CallerTypes, OtherTypes, Ordered
<1>1. /\ toClient # <<>> /\ ~blocked
      /\ UNCHANGED <<gapOk, pc, sequence, subject, pings, outcome, toServer, server,
                     world>>
    BY DEF ackMsgHandler
<1>2. toClient \in Seq(Answers) /\ msg = toClient[1] /\ 1 \in 1 .. Len(toClient)
    BY <1>1, LenProperties, EmptySeq DEF IInv, Types, OtherTypes
<1>3. AckOK(1)
    BY <1>2 DEF IInv, AnswersOK
<1>4. RequestsOK'
    BY <1>0, <1>1, RequestsKept DEF IInv, server
<1>5. CallerOK'
    BY <1>1 DEF IInv, CallerOK
<1> HIDE DEF msg
<1>6. ASSUME msg.type = "ack", FlowAck(msg), toClient' = Tail(toClient),
             UNCHANGED <<closed, commitCh, ackSub, blocked>>
      PROVE  IInv'
    <2>1. /\ ackSequence' = msg.seq /\ flow' = msg.msgs
          /\ \/ firstAck' = msg.seq /\ firstAckCh' = FALSE
             \/ UNCHANGED <<firstAck, firstAckCh>>
          /\ stallCh' \in {stallCh, "full"}
        BY <1>6 DEF FlowAck
    <2>2. /\ msg.msgs \in 1 .. Flow
          /\ msg.seq \in 1 .. last /\ ackSequence <= msg.seq
          /\ ~gapOk => 1 .. msg.seq \subseteq persisted
        BY <1>2, <1>3, <1>6 DEF AckOK
    <2>3. AnswersOK' /\ toClient' \in Seq(Answers)
        BY <1>1, <1>6, <2>1, AnswerTaken DEF IInv, server, msg
    <2>4. Ordered'
        BY <1>0, <1>1, <2>1, <2>2 DEF IInv, Ordered, server
    <2>5. Stored'
        BY <1>1, <2>1, <2>2 DEF IInv, Stored, server
    <2>6. CallerTypes'
        BY <1>1, <1>6, <2>1 DEF IInv, Types, CallerTypes
    <2>7. OtherTypes'
        <3>1. /\ ackSequence' \in Nat /\ flow' \in 1 .. Flow
              /\ firstAck' \in Nat /\ firstAckCh' \in BOOLEAN
            <4>1. msg.seq \in Nat /\ firstAck \in Nat /\ firstAckCh \in BOOLEAN
                BY <1>0, <2>2 DEF IInv, Types, OtherTypes
            <4> QED
                BY <2>1, <2>2, <4>1
        <3>2. UNCHANGED <<batch, last, acked, every, persisted, lost, faults, toServer>>
            BY <1>1 DEF server, world
        <3> QED
            BY <2>3, <3>1, <3>2 DEF IInv, Types, OtherTypes
    <2>8. OutstandingBounded'
        <3>1. Flow * MaxOutstandingAcks \in Nat
            BY FastAssumption
        <3>2. msg.seq \in Nat
            BY <1>0, <2>2
        <3> QED
            BY <1>0, <1>1, <2>1, <2>2, <3>1, <3>2 DEF IInv, OutstandingBounded, world
    <2> QED
        BY <1>4, <1>5, <2>3, <2>4, <2>5, <2>6, <2>7, <2>8 DEF IInv, Types
<1>7. ASSUME toClient' = Tail(toClient),
             UNCHANGED <<closed, commitCh, ackSub, blocked, stallCh, handler>>
      PROVE  IInv'
    <2>1. AnswersOK' /\ toClient' \in Seq(Answers)
        BY <1>1, <1>7, AnswerTaken DEF IInv, server, handler
    <2>2. Ordered' /\ Stored'
        BY <1>0, <1>1, <1>7, ServerKept DEF IInv
    <2>3. CallerTypes' /\ OutstandingBounded'
        BY <1>1, <1>7 DEF IInv, Types, CallerTypes, OutstandingBounded, handler, world
    <2>4. OtherTypes'
        BY <1>1, <1>7, <2>1 DEF IInv, Types, OtherTypes, server, handler, world
    <2> QED
        BY <1>4, <1>5, <2>1, <2>2, <2>3, <2>4 DEF IInv, Types
<1>8. ASSUME msg.type \in Response, EndOfBatch(msg.type), UNCHANGED <<stallCh, handler>>
      PROVE  IInv'
    <2>1. Ordered' /\ Stored'
        BY <1>0, <1>1, <1>8, ServerKept DEF IInv
    <2>2. /\ AnswersOK' /\ toClient' \in Seq(Answers) /\ ackSub' \in BOOLEAN
          /\ blocked' \in BOOLEAN
          /\ commitCh' \in {"nil", "empty"} \cup Response
        <3>1. CASE commitCh \in Response
            <4>1. blocked' = TRUE /\ UNCHANGED <<commitCh, ackSub, toClient>>
                BY <1>8, <3>1 DEF EndOfBatch
            <4>2. AnswersOK'
                BY <1>1, <1>2, <1>8, <4>1
                   DEF IInv, AnswersOK, AckOK, server, handler
            <4> QED
                BY <3>1, <4>1, <4>2 DEF IInv, Types, CallerTypes, OtherTypes
        <3>2. CASE commitCh \notin Response
            <4>1. /\ Unsubscribe /\ blocked' = blocked
                  /\ commitCh' \in {"nil", msg.type}
                BY <1>8, <3>2 DEF EndOfBatch
            <4>2. ~blocked' /\ blocked' \in BOOLEAN
                BY <1>1, <4>1 DEF IInv, Types, CallerTypes
            <4>3. AnswersOK' /\ toClient' \in Seq(Answers)
                BY <4>1, <4>2, AnswersDropped
            <4> QED
                BY <1>8, <4>1, <4>2, <4>3 DEF Unsubscribe
        <3> QED
            BY <3>1, <3>2
    <2>3. CallerTypes' /\ OutstandingBounded'
        BY <1>1, <1>8, <2>2 DEF EndOfBatch, IInv, Types, CallerTypes,
                                OutstandingBounded, handler, world
    <2>4. OtherTypes'
        BY <1>1, <1>8, <2>2 DEF IInv, Types, OtherTypes, server, handler, world
    <2> QED
        BY <1>4, <1>5, <2>1, <2>2, <2>3, <2>4 DEF IInv, Types
<1> QED
    BY <1>6, <1>7, <1>8 DEF ackMsgHandler, handler, msg

\* A message lost is one less, in either direction.
LEMMA LoseSound == IInv /\ Lose => IInv'
<1> SUFFICES ASSUME IInv, Lose PROVE IInv'
    OBVIOUS
<1>0. sequence \in Nat /\ MaxLost \in Nat /\ MaxSequence \in Nat
    BY FastAssumption DEF IInv, Types, CallerTypes
<1>1. /\ lost' = lost + 1 /\ lost < MaxLost
      /\ UNCHANGED <<gapOk, pc, sequence, closed, subject, ackSub, stallCh, commitCh,
                     blocked, pings, outcome, handler, server, faults>>
    BY DEF Lose
<1>2. Ordered' /\ Stored'
    BY <1>0, <1>1, ServerKept DEF IInv
<1>3. CallerTypes' /\ CallerOK' /\ OutstandingBounded'
    BY <1>1 DEF IInv, Types, CallerTypes, CallerOK, OutstandingBounded, handler
<1>4. /\ RequestsOK' /\ toServer' \in Seq(Requests)
      /\ AnswersOK' /\ toClient' \in Seq(Answers)
    <2>1. CASE toServer # <<>> /\ toServer' = Tail(toServer) /\ UNCHANGED toClient
        <3>1. last \in Nat /\ last <= Head(toServer).seq
            <4>1. toServer \in Seq(Requests) /\ last \in Nat
                BY DEF IInv, Types, OtherTypes
            <4>2. Head(toServer) = toServer[1] /\ 1 \in 1 .. Len(toServer)
                BY <2>1, <4>1, LenProperties, EmptySeq
            <4> QED
                BY <4>1, <4>2 DEF IInv, RequestsOK
        <3>2. RequestsOK' /\ toServer' \in Seq(Requests)
            BY <1>1, <2>1, <3>1, RequestTaken DEF IInv, server
        <3>3. AnswersOK'
            BY <1>1, <2>1, AnswersKept DEF IInv, handler, server
        <3> QED
            BY <2>1, <3>2, <3>3 DEF IInv, Types, OtherTypes
    <2>2. CASE /\ toClient # <<>> /\ ~blocked
               /\ toClient' = Tail(toClient) /\ UNCHANGED toServer
        <3>1. AnswersOK' /\ toClient' \in Seq(Answers)
            BY <1>1, <2>2, AnswerTaken DEF IInv, handler, server
        <3>2. RequestsOK'
            BY <1>0, <1>1, <2>2, RequestsKept DEF IInv, server
        <3> QED
            BY <2>2, <3>1, <3>2 DEF IInv, Types, OtherTypes
    <2> QED
        BY <2>1, <2>2 DEF Lose
<1>5. OtherTypes'
    BY <1>0, <1>1, <1>4 DEF IInv, Types, OtherTypes, handler, server
<1> QED
    BY <1>2, <1>3, <1>4, <1>5 DEF IInv, Types

\* The server's answers to one message: a notice of what is missing, if anything
\* is, and what it has to say then.
Notices == {<<>>, <<GapMsg>>}

\* A notice alone says nothing of the sequences, and neither does the end of the
\* batch after it; a true ack may follow it.
LEMMA RepliesKnown ==
    ASSUME NEW notice \in Notices
    PROVE  /\ RepliesOK(notice)
           /\ \A reply \in Answers : AnswerOK(reply) => RepliesOK(notice \o <<reply>>)
<1>1. GapMsg \in Answers /\ GapMsg.type = "gap"
    BY MessagesKnown
<1> HIDE DEF GapMsg
<1>2. notice = <<>> \/ notice = <<GapMsg>>
    BY DEF Notices
<1>3. notice \in Seq(Answers) /\ Len(notice) \in {0, 1}
      /\ \A k \in 1 .. Len(notice) : notice[k] = GapMsg
    <2>1. CASE notice = <<>>
        <3>1. <<>> \in Seq(Answers) /\ Len(<<>>) = 0
            BY EmptySeq
        <3> QED
            BY <2>1, <3>1
    <2>2. CASE notice = <<GapMsg>>
        <3>1. <<GapMsg>> \in Seq(Answers) /\ Len(<<GapMsg>>) = 1 /\ <<GapMsg>>[1] = GapMsg
            BY <1>1
        <3> QED
            BY <2>2, <3>1
    <2> QED
        BY <1>2, <2>1, <2>2
<1>4. RepliesOK(notice)
    BY <1>1, <1>3 DEF RepliesOK, AnswerOK
<1>5. ASSUME NEW reply \in Answers, AnswerOK(reply)
      PROVE  RepliesOK(notice \o <<reply>>)
    <2> DEFINE replies == notice \o <<reply>>
    <2>1. /\ replies \in Seq(Answers) /\ Len(replies) = Len(notice) + 1
          /\ replies[Len(notice) + 1] = reply
          /\ \A k \in 1 .. Len(notice) : replies[k] = GapMsg
        BY <1>3
    <2> HIDE DEF replies
    <2>2. \A k \in 1 .. Len(replies) : k \in 1 .. Len(notice) \/ k = Len(notice) + 1
        BY <1>3, <2>1
    <2>3. \A k \in 1 .. Len(replies) : AnswerOK(replies[k])
        BY <1>1, <1>5, <2>1, <2>2 DEF AnswerOK
    <2>4. \A j, k \in 1 .. Len(replies) : j < k => replies[j].type # "ack"
        BY <1>1, <1>3, <2>1, <2>2
    <2>5. RepliesOK(replies)
        BY <2>1, <2>3, <2>4 DEF RepliesOK
    <2> QED
        BY <2>5 DEF replies
<1> QED
    BY <1>4, <1>5

\* The end of a batch, and an ack of what the server has come to.
LEMMA EndsKnown ==
    ASSUME NEW response \in Response, NEW notice \in Notices
    PROVE  RepliesOK(notice \o <<EndMsg(response)>>)
<1>1. EndMsg(response) \in Answers /\ AnswerOK(EndMsg(response))
    BY MessagesKnown DEF AnswerOK, Response
<1> QED
    BY <1>1, RepliesKnown

LEMMA AcksKnown ==
    ASSUME last \in Nat, last' \in Nat \ {0}, last <= last',
           ~gapOk => 1 .. last' \subseteq persisted',
           NEW msgs \in 1 .. Flow, Flow \in Nat, NEW notice \in Notices
    PROVE  RepliesOK(notice \o <<AckMsg(last', msgs)>>)
<1>1. AckMsg(last', msgs) \in Answers /\ AnswerOK(AckMsg(last', msgs))
    BY MessagesKnown DEF AnswerOK
<1> QED
    BY <1>1, RepliesKnown

\* What the server has come to with a message it takes, and what it answers.
Served(seq) ==
    /\ last' \in {last, seq}
    /\ batch' \in {"open", "ended"}
    /\ acked' \in Nat /\ acked' <= last' /\ every' \in 1 .. Flow
    /\ persisted \subseteq persisted' /\ persisted' \subseteq 1 .. last'
    /\ ~gapOk /\ batch' = "open" => 1 .. last' \subseteq persisted'
    /\ faults' \in 0 .. MaxFaults /\ (faults' = 0 => faults = 0)
    /\ \E replies : RepliesOK(replies) /\ Answer(replies)

\* A message of an open batch is the next one, or ends a batch without gaps.
LEMMA TakeSound ==
    ASSUME IInv, batch = "open", NEW op, NEW seq \in 1 .. sequence, last <= seq,
           Take(op, seq), UNCHANGED <<gapOk, faults>>
    PROVE  Served(seq)
<1>0. /\ sequence \in Nat /\ last \in Nat /\ seq \in Nat \ {0}
      /\ Flow \in Nat /\ acked \in Nat /\ acked <= last /\ every \in 1 .. Flow
      /\ persisted \subseteq 1 .. last
      /\ ~gapOk => 1 .. last \subseteq persisted
      /\ faults' \in 0 .. MaxFaults /\ faults' = faults
    BY FastAssumption DEF IInv, Types, CallerTypes, OtherTypes, Ordered, Stored
<1> DEFINE missing == seq > IF op = "ping" THEN last ELSE last + 1
           notice  == IF missing THEN <<GapMsg>> ELSE <<>>
<1>1. notice \in Notices
    BY DEF Notices
<1>2. CASE missing /\ ~gapOk
    <2>1. End("failed", notice) /\ UNCHANGED <<last, persisted>>
        BY <1>2 DEF Take
    <2>2. RepliesOK(notice \o <<EndMsg("failed")>>)
        BY <1>1, EndsKnown DEF Response
    <2> HIDE DEF notice
    <2> QED
        BY <1>0, <2>1, <2>2 DEF End, Served
<1>3. CASE ~(missing /\ ~gapOk)
    <2>1. /\ last' = seq
          /\ persisted' = IF op \in {"add", "commit"}
                          THEN persisted \cup {seq} ELSE persisted
          /\ \/ op \in {"commit", "eob"} /\ End("committed", notice)
             \/ /\ op \in {"add", "ping"}
                /\ SendAck(seq, notice)
                /\ UNCHANGED batch
             \/ /\ op = "add" /\ seq < acked + every
                /\ Answer(notice)
                /\ UNCHANGED <<batch, acked, every>>
        BY <1>3 DEF Take
    <2>2. /\ persisted \subseteq persisted' /\ persisted' \subseteq 1 .. last'
          /\ last' \in Nat \ {0} /\ last <= last'
        BY <1>0, <2>1
    <2>3. ~gapOk /\ op \in {"add", "ping"} => 1 .. last' \subseteq persisted'
        <3> SUFFICES ASSUME ~gapOk, op \in {"add", "ping"}
                     PROVE  1 .. last' \subseteq persisted'
            OBVIOUS
        <3>1. CASE op = "ping"
            <4>1. last' = last
                BY <1>0, <1>3, <2>1, <3>1
            <4> QED
                BY <1>0, <2>2, <4>1
        <3>2. CASE op = "add"
            <4>1. seq <= last + 1 /\ persisted' = persisted \cup {seq}
                BY <1>0, <1>3, <2>1, <3>2
            <4>2. 1 .. seq \subseteq (1 .. last) \cup {seq}
                BY <1>0, <4>1
            <4> QED
                BY <1>0, <2>1, <4>1, <4>2
        <3> QED
            BY <3>1, <3>2
    <2> HIDE DEF notice
    <2>4. CASE op \in {"commit", "eob"} /\ End("committed", notice)
        <3>1. RepliesOK(notice \o <<EndMsg("committed")>>)
            BY <1>1, EndsKnown DEF Response
        <3> QED
            BY <1>0, <2>1, <2>2, <2>4, <3>1 DEF End, Served
    <2>5. CASE op \in {"add", "ping"} /\ SendAck(seq, notice) /\ UNCHANGED batch
        <3>1. every' \in 1 .. Flow /\ acked' = last'
            BY <2>1, <2>5 DEF SendAck
        <3>2. RepliesOK(notice \o <<AckMsg(last', every')>>)
            BY <1>0, <1>1, <2>2, <2>3, <2>5, <3>1, AcksKnown
        <3>3. Answer(notice \o <<AckMsg(last', every')>>)
            BY <2>1, <2>5 DEF SendAck
        <3> QED
            BY <1>0, <2>1, <2>2, <2>3, <2>5, <3>1, <3>2, <3>3 DEF Served
    <2>6. CASE op = "add" /\ Answer(notice) /\ UNCHANGED <<batch, acked, every>>
        <3>1. RepliesOK(notice)
            BY <1>1, RepliesKnown
        <3> QED
            BY <1>0, <2>1, <2>2, <2>3, <2>6, <3>1 DEF Served
    <2> QED
        BY <2>1, <2>4, <2>5, <2>6
<1> QED
    BY <1>2, <1>3

\* A message that opens a batch is its first; any other is refused.
LEMMA OpenSound ==
    ASSUME IInv, batch # "open", NEW op, NEW seq \in 1 .. sequence, last <= seq,
           Open(op, seq), UNCHANGED gapOk
    PROVE  Served(seq) \/ (Served(1) /\ last = 0)
<1>0. /\ last \in Nat /\ seq \in Nat \ {0} /\ Flow \in Nat
      /\ acked \in Nat /\ acked <= last /\ every \in 1 .. Flow
      /\ persisted \subseteq 1 .. last
      /\ batch = "none" => last = 0
      /\ faults \in 0 .. MaxFaults /\ MaxFaults \in Nat
      /\ batch \in {"none", "ended"}
    BY FastAssumption DEF IInv, Types, CallerTypes, OtherTypes, Ordered, Stored
<1>1. <<>> \in Notices
    BY DEF Notices
<1>2. ASSUME NEW response \in Response, End(response, <<>>)
      PROVE  \E replies : RepliesOK(replies) /\ Answer(replies)
    <2>1. Answer(<<>> \o <<EndMsg(response)>>)
        BY <1>2 DEF End
    <2> QED
        BY <1>1, <2>1, EndsKnown
<1>3. CASE op = "start" /\ batch = "none" /\ batch' = "open"
           /\ last' = 1 /\ persisted' = {1} /\ SendAck(1, <<>>) /\ UNCHANGED faults
    <2>1. every' \in 1 .. Flow /\ acked' = 1
        BY <1>3 DEF SendAck
    <2>2. /\ last = 0 /\ last' \in Nat \ {0} /\ last <= last'
          /\ 1 .. last' \subseteq persisted'
          /\ persisted \subseteq persisted' /\ persisted' \subseteq 1 .. last'
        BY <1>0, <1>3
    <2>3. RepliesOK(<<>> \o <<AckMsg(last', every')>>)
        BY <1>0, <1>1, <2>1, <2>2, AcksKnown
    <2>4. Answer(<<>> \o <<AckMsg(last', every')>>)
        BY <1>3 DEF SendAck
    <2> QED
        BY <1>0, <1>3, <2>1, <2>2, <2>3, <2>4 DEF Served
<1>4. CASE /\ op = "commit" /\ seq = 1 /\ batch = "none"
           /\ last' = 1 /\ persisted' = {1} /\ End("committed", <<>>)
           /\ UNCHANGED faults
    <2>1. \E replies : RepliesOK(replies) /\ Answer(replies)
        BY <1>2, <1>4 DEF Response
    <2>2. batch' = "ended" /\ UNCHANGED <<acked, every>>
        BY <1>4 DEF End
    <2>3. /\ last = 0 /\ acked' <= last'
          /\ persisted \subseteq persisted' /\ persisted' \subseteq 1 .. last'
        BY <1>0, <1>4, <2>2
    <2> QED
        BY <1>0, <1>4, <2>1, <2>2, <2>3 DEF Served
<1>5. CASE /\ End("failed", <<>>) /\ UNCHANGED <<last, persisted>>
           /\ \/ UNCHANGED faults
              \/ faults < MaxFaults /\ faults' = faults + 1
    <2>1. \E replies : RepliesOK(replies) /\ Answer(replies)
        BY <1>2, <1>5 DEF Response
    <2>2. batch' = "ended" /\ UNCHANGED <<acked, every>>
        BY <1>5 DEF End
    <2>3. faults' \in 0 .. MaxFaults /\ (faults' = 0 => faults = 0)
        BY <1>0, <1>5
    <2>4. last' = last /\ persisted' = persisted
        BY <1>5
    <2> QED
        BY <1>0, <2>1, <2>2, <2>3, <2>4 DEF Served
<1> QED
    BY <1>3, <1>4, <1>5 DEF Open

\* Whatever the server makes of the first message under way: it is not before
\* what the server has come to, nor after what the publisher has.
LEMMA ServeSound == IInv /\ Serve => IInv'
<1> SUFFICES ASSUME IInv, Serve PROVE IInv'
    OBVIOUS
<1> DEFINE msg == Head(toServer)
<1>1. /\ toServer # <<>> /\ toServer' = Tail(toServer)
      /\ IF batch = "open" THEN Take(msg.op, msg.seq) /\ UNCHANGED faults
                           ELSE Open(msg.op, msg.seq)
      /\ UNCHANGED <<gapOk, pc, sequence, closed, subject, ackSub, stallCh,
                     commitCh, blocked, pings, outcome, handler, lost>>
    BY DEF Serve
<1>2. /\ sequence \in Nat /\ last \in Nat /\ ackSequence \in Nat
      /\ toServer \in Seq(Requests)
    BY FastAssumption DEF IInv, Types, CallerTypes, OtherTypes
<1>3. Head(toServer) = toServer[1] /\ 1 \in 1 .. Len(toServer)
    BY <1>1, <1>2, LenProperties, EmptySeq
<1>4. msg.seq \in 1 .. sequence /\ last <= msg.seq
    BY <1>3 DEF IInv, RequestsOK
<1>5. PICK seq \in 1 .. sequence : last <= seq /\ seq <= msg.seq /\ Served(seq)
    <2>1. CASE batch = "open"
        BY <1>1, <1>2, <1>4, <2>1, TakeSound
    <2>2. CASE batch # "open"
        <3>1. Served(msg.seq) \/ (Served(1) /\ last = 0)
            BY <1>1, <1>2, <1>4, <2>2, OpenSound
        <3> QED
            BY <1>2, <1>4, <3>1
    <2> QED
        BY <2>1, <2>2
<1>6. last' \in Nat /\ last <= last' /\ last' <= msg.seq /\ last' <= sequence
    BY <1>2, <1>4, <1>5 DEF Served
<1>7. RequestsOK' /\ toServer' \in Seq(Requests)
    BY <1>1, <1>6, RequestTaken DEF IInv
<1>8. AnswersOK' /\ toClient' \in Seq(Answers)
    <2>1. PICK replies : RepliesOK(replies) /\ Answer(replies)
        BY <1>5 DEF Served
    <2> QED
        BY <1>1, <1>5, <1>6, <2>1, AnswersSent DEF IInv, handler, Served
<1>9. Ordered'
    BY <1>1, <1>2, <1>5, <1>6 DEF IInv, Ordered, handler, Served
<1>10. Stored'
    BY <1>1, <1>5 DEF IInv, Stored, handler, Served
<1>11. CallerTypes' /\ CallerOK' /\ OutstandingBounded'
    BY <1>1, <1>5 DEF IInv, Types, CallerTypes, CallerOK, OutstandingBounded, handler,
                      Served
<1>12. OtherTypes'
    <2>1. persisted' \subseteq Nat
        BY <1>5, <1>6 DEF Served
    <2> QED
        BY <1>1, <1>5, <1>6, <1>7, <1>8, <2>1
           DEF IInv, Types, OtherTypes, handler, Served
<1> QED
    BY <1>7, <1>8, <1>9, <1>10, <1>11, <1>12 DEF IInv, Types

\* Every step keeps the invariant.
LEMMA StepSound == IInv /\ [Next]_vars => IInv'
<1> SUFFICES ASSUME IInv, [Next]_vars PROVE IInv'
    OBVIOUS
<1>1. CASE UNCHANGED vars
    <2>1. /\ UNCHANGED <<gapOk, pc, sequence, closed, subject, ackSub, stallCh,
                         commitCh, blocked, pings, outcome, toServer, toClient,
                         handler, server>>
          /\ faults' = faults /\ lost' = lost
        BY <1>1 DEF vars, world
    <2>2. OtherTypes' /\ Ordered' /\ Stored' /\ RequestsOK' /\ AnswersOK'
        BY <2>1, QuietStep DEF IInv, Types, OtherTypes
    <2>3. CallerTypes' /\ CallerOK' /\ OutstandingBounded'
        BY <2>1 DEF IInv, Types, CallerTypes, CallerOK, OutstandingBounded, handler
    <2> QED
        BY <2>2, <2>3 DEF IInv, Types
<1> QED
    BY <1>1, AddSound, FailureSound, CommitSound, HandlerSound, ServeSound, LoseSound
       DEF Next

-----------------------------------------------------------------------------
(* How a stalled Add comes to go on.                                       *)

\* The requests of a sequence.
AtSeq(s, n) == {k \in 1 .. Len(s) : s[k].seq = n}

\* The acks that a publisher which has sent n can go on with, and with all that
\* follow.
Enough(reply, n) == reply.type = "ack" => ~waitForAck(reply.seq, reply.msgs, n)

Helpful(s, n) ==
    {k \in 1 .. Len(s) :
        s[k].type = "ack" /\ \A j \in 1 .. Len(s) : k <= j => Enough(s[j], n)}

\* The first message of a batch is alone on its way, and nothing was answered
\* before.  Whoever waits for its ack has had none.
Begun ==
    /\ sequence = 0 => batch = "none" /\ toClient = <<>>
    /\ firstAckCh => pc = "first" /\ firstAck = 0
    /\ \A k \in 1 .. Len(toServer) : toServer[k].op = "start" =>
          /\ k = 1 /\ batch = "none" /\ toClient = <<>> /\ firstAck = 0
          /\ pc = "first" \/ closed
          /\ stallCh # "nil" /\ (ackSub \/ closed)

\* Where the server has an open batch, the publisher has its channels.
Opened ==
    /\ batch = "open" => stallCh # "nil" /\ (ackSub \/ closed)
    /\ \A k \in 1 .. Len(toClient) :
          /\ toClient[k].type = "ack" => stallCh # "nil"
          /\ toClient[k].type \in Response => batch = "ended"
    /\ pc = "stalled" /\ closed => batch = "ended"

\* The publisher knows the server's latest ack, or that is the last one on its
\* way, or something was lost.
Informed ==
    batch = "open" /\ ~closed =>
        \/ lost > 0
        \/ /\ ackSequence = acked /\ flow = every
           /\ \A k \in 1 .. Len(toClient) : toClient[k].type # "ack"
        \/ \E k \in 1 .. Len(toClient) :
              /\ toClient[k].type = "ack"
              /\ toClient[k].seq = acked /\ toClient[k].msgs = every
              /\ \A j \in 1 .. Len(toClient) : k < j => toClient[j].type # "ack"

\* What would let the publisher go on has been signalled.
Signalled ==
    pc = "stalled" /\ ~waitForAck(ackSequence, flow, sequence) => stallCh = "full"

\* Until the server has come to the message that stalls, that message and all
\* pings of the wait are on their way.
Asking ==
    pc = "stalled" =>
        \A k \in 1 .. Len(toServer) :
            toServer[k].op # "ping" \/ toServer[k].seq < sequence =>
                /\ Cardinality(AtSeq(toServer, sequence)) = pings + 1
                /\ \A j \in 1 .. Len(toServer) : j < k => toServer[j].seq < sequence

\* Nothing that is known or on its way makes the publisher wait.
Settled ==
    /\ ~waitForAck(ackSequence, flow, sequence)
    /\ \A k \in 1 .. Len(toClient) : Enough(toClient[k], sequence)

\* Each ping, and the message that stalls, is on its way, or has an ack on its
\* way that helps, or was lost with it.
Recovers ==
    pc = "stalled" /\ batch = "open" =>
        \/ Settled
        \/ lost + Cardinality(AtSeq(toServer, sequence))
                + Cardinality(Helpful(toClient, sequence)) > pings

Recovery == Begun /\ Opened /\ Informed /\ Signalled /\ Asking /\ Recovers

-----------------------------------------------------------------------------
(* Counting what is on its way.                                            *)

\* Without its first element a sequence has as many places of a kind, one place
\* earlier, or one less.
LEMMA Shifted ==
    ASSUME NEW n \in Nat \ {0}, NEW S \in SUBSET (1 .. n),
           NEW T, T = {k \in 1 .. n - 1 : k + 1 \in S}
    PROVE  /\ IsFiniteSet(S) /\ Cardinality(S) \in Nat
           /\ IsFiniteSet(T) /\ Cardinality(T) \in Nat
           /\ Cardinality(S) = Cardinality(T) + IF 1 \in S THEN 1 ELSE 0
<1>1. IsFiniteSet(1 .. n)
    BY FS_Interval
<1>2. IsFiniteSet(S)
    BY <1>1, FS_Subset
<1>3. /\ IsFiniteSet(S \ {1})
      /\ Cardinality(S \ {1}) = IF 1 \in S THEN Cardinality(S) - 1 ELSE Cardinality(S)
    BY <1>2, FS_RemoveElement
<1>4. Cardinality(S) \in Nat
    BY <1>2, FS_CardinalityType
<1> DEFINE f == [k \in S \ {1} |-> k - 1]
<1>5. f \in Bijection(S \ {1}, T)
    <2>1. f \in [S \ {1} -> T]
        <3> SUFFICES ASSUME NEW k \in S \ {1} PROVE k - 1 \in T
            OBVIOUS
        <3> QED
            OBVIOUS
    <2>2. \A k, j \in S \ {1} : f[k] = f[j] => k = j
        OBVIOUS
    <2>3. \A k \in T : k + 1 \in S \ {1} /\ f[k + 1] = k
        OBVIOUS
    <2> QED
        BY <2>1, <2>2, <2>3 DEF Bijection, Injection, IsInjective, Surjection
<1>6. IsFiniteSet(T) /\ Cardinality(T) = Cardinality(S \ {1})
    BY <1>3, <1>5, FS_Bijection DEF ExistsBijection
<1>7. Cardinality(T) \in Nat
    BY <1>6, FS_CardinalityType
<1> QED
    BY <1>2, <1>3, <1>4, <1>6, <1>7

\* The requests of a sequence can be counted.
LEMMA CountKnown ==
    ASSUME NEW s \in Seq(Requests), NEW n \in Nat
    PROVE  IsFiniteSet(AtSeq(s, n)) /\ Cardinality(AtSeq(s, n)) \in Nat
<1>1. IsFiniteSet(1 .. Len(s)) /\ AtSeq(s, n) \in SUBSET (1 .. Len(s))
    BY LenProperties, FS_Interval DEF AtSeq
<1> QED
    BY <1>1, FS_Subset, FS_CardinalityType

\* A request more.
LEMMA CountSent ==
    ASSUME NEW s \in Seq(Requests), NEW r \in Requests, NEW n \in Nat
    PROVE  /\ Cardinality(AtSeq(s, n)) \in Nat
           /\ Cardinality(AtSeq(Append(s, r), n)) =
                 Cardinality(AtSeq(s, n)) + IF r.seq = n THEN 1 ELSE 0
<1>1. Len(s) \in Nat /\ Len(s) + 1 \notin AtSeq(s, n)
    BY LenProperties DEF AtSeq
<1>2. IsFiniteSet(AtSeq(s, n)) /\ Cardinality(AtSeq(s, n)) \in Nat
    BY CountKnown
<1>3. /\ Len(Append(s, r)) = Len(s) + 1 /\ Append(s, r)[Len(s) + 1] = r
      /\ \A i \in 1 .. Len(s) : Append(s, r)[i] = s[i]
    BY AppendProperties
<1>4. AtSeq(Append(s, r), n) =
        IF r.seq = n THEN AtSeq(s, n) \cup {Len(s) + 1} ELSE AtSeq(s, n)
    <2>1. 1 .. Len(s) + 1 = 1 .. Len(s) \cup {Len(s) + 1}
        BY <1>1
    <2>2. AtSeq(Append(s, r), n) =
            {i \in 1 .. Len(s) \cup {Len(s) + 1} : Append(s, r)[i].seq = n}
        BY <1>3, <2>1 DEF AtSeq
    <2> QED
        BY <1>3, <2>2 DEF AtSeq
<1>5. Cardinality(AtSeq(s, n) \cup {Len(s) + 1}) = Cardinality(AtSeq(s, n)) + 1
    BY <1>1, <1>2, FS_AddElement
<1> QED
    BY <1>2, <1>4, <1>5

\* A request less.
LEMMA CountTaken ==
    ASSUME NEW s \in Seq(Requests), s # <<>>, NEW n \in Nat
    PROVE  /\ Cardinality(AtSeq(Tail(s), n)) \in Nat
           /\ Cardinality(AtSeq(s, n)) =
                 Cardinality(AtSeq(Tail(s), n)) + IF Head(s).seq = n THEN 1 ELSE 0
<1>1. Len(s) \in Nat \ {0} /\ Head(s) = s[1]
    BY LenProperties, EmptySeq
<1>2. /\ Len(Tail(s)) = Len(s) - 1
      /\ \A k \in 1 .. Len(s) - 1 : Tail(s)[k] = s[k + 1] /\ k + 1 \in 1 .. Len(s)
    BY <1>1, HeadTailProperties
<1>3. AtSeq(Tail(s), n) = {k \in 1 .. Len(s) - 1 : k + 1 \in AtSeq(s, n)}
    BY <1>2 DEF AtSeq
<1>4. AtSeq(s, n) \in SUBSET (1 .. Len(s)) /\ (1 \in AtSeq(s, n) <=> s[1].seq = n)
    BY <1>1 DEF AtSeq
<1> QED
    BY <1>1, <1>3, <1>4, Shifted

\* The acks that help can be counted.
LEMMA HelpKnown ==
    ASSUME NEW s \in Seq(Answers), NEW n \in Nat
    PROVE  IsFiniteSet(Helpful(s, n)) /\ Cardinality(Helpful(s, n)) \in Nat
<1>1. IsFiniteSet(1 .. Len(s)) /\ Helpful(s, n) \in SUBSET (1 .. Len(s))
    BY LenProperties, FS_Interval DEF Helpful
<1> QED
    BY <1>1, FS_Subset, FS_CardinalityType

\* An answer less: if it helps, then so do all acks after it.
LEMMA HelpTaken ==
    ASSUME NEW s \in Seq(Answers), s # <<>>, NEW n \in Nat
    PROVE  /\ Cardinality(Helpful(s, n)) \in Nat
           /\ Cardinality(Helpful(Tail(s), n)) \in Nat
           /\ \/ Cardinality(Helpful(s, n)) = Cardinality(Helpful(Tail(s), n))
              \/ /\ Cardinality(Helpful(s, n)) = Cardinality(Helpful(Tail(s), n)) + 1
                 /\ Head(s).type = "ack"
                 /\ \A k \in 1 .. Len(s) : Enough(s[k], n)
<1>1. Len(s) \in Nat \ {0} /\ Head(s) = s[1]
    BY LenProperties, EmptySeq
<1>2. /\ Len(Tail(s)) = Len(s) - 1
      /\ \A k \in 1 .. Len(s) - 1 : Tail(s)[k] = s[k + 1] /\ k + 1 \in 1 .. Len(s)
    BY <1>1, HeadTailProperties
<1>3. Helpful(Tail(s), n) = {k \in 1 .. Len(s) - 1 : k + 1 \in Helpful(s, n)}
    <2> SUFFICES ASSUME NEW k \in 1 .. Len(s) - 1
                 PROVE  k \in Helpful(Tail(s), n) <=> k + 1 \in Helpful(s, n)
        BY <1>2 DEF Helpful
    <2>1. Tail(s)[k] = s[k + 1] /\ k + 1 \in 1 .. Len(s)
        BY <1>2
    <2>2. ASSUME \A j \in 1 .. Len(s) : k + 1 <= j => Enough(s[j], n)
          PROVE  \A j \in 1 .. Len(Tail(s)) : k <= j => Enough(Tail(s)[j], n)
        BY <1>2, <2>2
    <2>3. ASSUME \A j \in 1 .. Len(Tail(s)) : k <= j => Enough(Tail(s)[j], n)
          PROVE  \A j \in 1 .. Len(s) : k + 1 <= j => Enough(s[j], n)
        <3> SUFFICES ASSUME NEW j \in 1 .. Len(s), k + 1 <= j PROVE Enough(s[j], n)
            OBVIOUS
        <3>1. j - 1 \in 1 .. Len(s) - 1 /\ k <= j - 1 /\ (j - 1) + 1 = j
            BY <1>1
        <3>2. Enough(Tail(s)[j - 1], n) /\ Tail(s)[j - 1] = s[(j - 1) + 1]
            BY <1>2, <2>3, <3>1
        <3> QED
            BY <3>1, <3>2
    <2> QED
        BY <1>2, <2>1, <2>2, <2>3 DEF Helpful
<1>4. /\ Helpful(s, n) \in SUBSET (1 .. Len(s))
      /\ 1 \in Helpful(s, n) => s[1].type = "ack" /\ \A k \in 1 .. Len(s) : Enough(s[k], n)
    BY <1>1 DEF Helpful
<1> DEFINE S == Helpful(s, n)
           T == Helpful(Tail(s), n)
<1>5. /\ Cardinality(S) \in Nat /\ Cardinality(T) \in Nat
      /\ Cardinality(S) = Cardinality(T) + IF 1 \in S THEN 1 ELSE 0
    <2> HIDE DEF S, T
    <2>1. S \in SUBSET (1 .. Len(s)) /\ T = {k \in 1 .. Len(s) - 1 : k + 1 \in S}
        BY <1>3, <1>4 DEF S, T
    <2>2. PICK m \in Nat \ {0} : m = Len(s)
        BY <1>1
    <2>3. S \in SUBSET (1 .. m) /\ T = {k \in 1 .. m - 1 : k + 1 \in S}
        BY <2>1, <2>2
    <2> QED
        BY <2>3, Shifted
<1> QED
    <2> HIDE DEF S, T
    <2>1. CASE 1 \in S
        <3>1. s[1].type = "ack" /\ \A k \in 1 .. Len(s) : Enough(s[k], n)
            BY <1>4, <2>1 DEF S
        <3> QED
            BY <1>1, <1>5, <2>1, <3>1 DEF S, T
    <2>2. CASE 1 \notin S
        BY <1>5, <2>2 DEF S, T
    <2> QED
        BY <2>1, <2>2

\* Answers more, none of which makes the publisher wait: what helps still does,
\* and an ack at their end helps.
LEMMA HelpSent ==
    ASSUME NEW s \in Seq(Answers), NEW r \in Seq(Answers), NEW n \in Nat,
           \A k \in 1 .. Len(r) : Enough(r[k], n)
    PROVE  /\ Cardinality(Helpful(s, n)) \in Nat
           /\ Cardinality(Helpful(s \o r, n)) \in Nat
           /\ Cardinality(Helpful(s \o r, n)) >=
                 Cardinality(Helpful(s, n))
                     + IF r # <<>> /\ r[Len(r)].type = "ack" THEN 1 ELSE 0
<1> DEFINE t == s \o r
<1>1. /\ Len(s) \in Nat /\ Len(r) \in Nat
      /\ Len(t) = Len(s) + Len(r)
      /\ \A k \in 1 .. Len(s) : t[k] = s[k]
      /\ \A k \in Len(s) + 1 .. Len(t) :
            t[k] = r[k - Len(s)] /\ k - Len(s) \in 1 .. Len(r)
    BY LenProperties, ConcatProperties
<1> HIDE DEF t
<1>2. Helpful(s, n) \subseteq Helpful(t, n)
    <2> SUFFICES ASSUME NEW k \in Helpful(s, n) PROVE k \in Helpful(t, n)
        OBVIOUS
    <2>1. /\ k \in 1 .. Len(s) /\ s[k].type = "ack"
          /\ \A j \in 1 .. Len(s) : k <= j => Enough(s[j], n)
        BY DEF Helpful
    <2>2. ASSUME NEW j \in 1 .. Len(t), k <= j PROVE Enough(t[j], n)
        <3>1. CASE j \in 1 .. Len(s)
            BY <1>1, <2>1, <2>2, <3>1
        <3>2. CASE j \notin 1 .. Len(s)
            <4>1. j \in Len(s) + 1 .. Len(t)
                BY <1>1, <3>2
            <4> QED
                BY <1>1, <4>1
        <3> QED
            BY <3>1, <3>2
    <2>3. k \in 1 .. Len(t) /\ t[k].type = "ack"
        BY <1>1, <2>1
    <2> QED
        BY <2>2, <2>3 DEF Helpful
<1>3. /\ IsFiniteSet(Helpful(s, n)) /\ Cardinality(Helpful(s, n)) \in Nat
      /\ IsFiniteSet(Helpful(t, n)) /\ Cardinality(Helpful(t, n)) \in Nat
    <2>1. t \in Seq(Answers)
        BY ConcatProperties DEF t
    <2> QED
        BY <2>1, HelpKnown
<1>4. Cardinality(Helpful(s, n)) <= Cardinality(Helpful(t, n))
    BY <1>2, <1>3, FS_Subset
<1>5. CASE r # <<>> /\ r[Len(r)].type = "ack"
    <2>1. Len(r) # 0
        BY <1>5, EmptySeq
    <2>2. /\ Len(t) \in Len(s) + 1 .. Len(t) /\ Len(t) - Len(s) = Len(r)
          /\ Len(t) \in 1 .. Len(t)
        BY <1>1, <2>1
    <2>3. t[Len(t)] = r[Len(r)] /\ Enough(r[Len(r)], n)
        BY <1>1, <2>1, <2>2
    <2>4. \A j \in 1 .. Len(t) : Len(t) <= j => j = Len(t)
        BY <1>1
    <2>5. Len(t) \in Helpful(t, n) /\ Len(t) \notin Helpful(s, n)
        BY <1>1, <1>5, <2>1, <2>2, <2>3, <2>4 DEF Helpful
    <2> DEFINE more == Helpful(s, n) \cup {Len(t)}
    <2>6. more \in SUBSET Helpful(t, n)
        BY <1>2, <2>5
    <2>7. Cardinality(more) = Cardinality(Helpful(s, n)) + 1
        BY <1>3, <2>5, FS_AddElement
    <2>8. Cardinality(more) <= Cardinality(Helpful(t, n))
        BY <1>3, <2>6, FS_Subset
    <2> QED
        BY <1>3, <1>5, <2>7, <2>8 DEF t
<1> QED
    BY <1>3, <1>4, <1>5 DEF t

-----------------------------------------------------------------------------
(* The steps.                                                              *)

LEMMA InitRecovers == Init => Recovery
<1> SUFFICES ASSUME Init PROVE Recovery
    OBVIOUS
<1>1. Len(toServer) = 0 /\ Len(toClient) = 0
    BY EmptySeq DEF Init
<1> QED
    BY <1>1 DEF Init, Recovery, Begun, Opened, Informed, Signalled, Asking, Recovers

\* A step that sends and takes nothing, of a goroutine that keeps its sequence.
LEMMA QuietRecovers ==
    ASSUME IInv, Recovery, Signalled',
           UNCHANGED <<sequence, ackSub, toServer, toClient, handler, server, lost>>,
           closed => closed',
           stallCh' = "nil" => stallCh = "nil",
           firstAckCh => pc' = "first",
           pc = "first" => pc' = "first" \/ closed' \/ firstAck # 0,
           pc' = "stalled" => /\ pc = "stalled" /\ pings' = pings
                              /\ closed' => closed \/ batch = "ended"
    PROVE  Recovery'
<1>1. /\ UNCHANGED <<sequence, ackSub, toServer, toClient, ackSequence, flow,
                     firstAckCh, firstAck, batch, acked, every, lost>>
    BY DEF handler, server
<1>2. Begun'
    BY <1>1 DEF Recovery, Begun
<1>3. Opened'
    BY <1>1 DEF Recovery, Opened
<1>4. Informed'
    BY <1>1 DEF Recovery, Informed
<1>5. Asking'
    BY <1>1 DEF Recovery, Asking
<1>6. Recovers'
    <2>1. Settled => Settled'
        BY <1>1 DEF Settled
    <2> QED
        BY <1>1, <2>1 DEF Recovery, Recovers
<1> QED
    BY <1>2, <1>3, <1>4, <1>5, <1>6 DEF Recovery

\* The subscription ends, and the batch with it, on one side or the other.
LEMMA DroppedRecovers ==
    ASSUME IInv, Recovery, Unsubscribe, Signalled', Asking',
           UNCHANGED <<sequence, toServer, firstAck, server, stallCh>>,
           closed => closed', closed' \/ batch = "ended",
           firstAckCh' => firstAckCh /\ pc' = "first",
           pc' = "stalled" => batch = "ended"
    PROVE  Recovery'
<1>1. /\ UNCHANGED <<sequence, toServer, firstAck, batch, stallCh>>
      /\ toClient' = <<>> /\ Len(toClient') = 0
    BY EmptySeq DEF server, Unsubscribe
<1>2. Begun'
    BY <1>1 DEF Recovery, Begun
<1>3. Opened' /\ Informed' /\ Recovers'
    BY <1>1 DEF Recovery, Opened, Informed, Recovers
<1> QED
    BY <1>2, <1>3 DEF Recovery

\* Add and AddMsg.
LEMMA AddRecovers == IInv /\ Recovery /\ (Refused \/ Add) => Recovery'
<1> SUFFICES ASSUME IInv, Recovery, Refused \/ Add PROVE Recovery'
    OBVIOUS
<1>0. /\ sequence \in Nat /\ MaxSequence \in Nat
      /\ toServer \in Seq(Requests) /\ Len(toServer) \in Nat
      /\ firstAckCh \in BOOLEAN /\ firstAck \in Nat /\ closed \in BOOLEAN
      /\ lost \in Nat
    BY FastAssumption, LenProperties DEF IInv, Types, CallerTypes, OtherTypes
<1>1. CASE Refused
    <2>1. pc = "idle" /\ pc' = "idle"
        BY <1>1 DEF Refused, Return
    <2>2. UNCHANGED <<sequence, closed, ackSub, stallCh, toServer, toClient,
                      handler, server, lost>>
        BY <1>1 DEF Refused, world
    <2>3. ~firstAckCh
        BY <2>1 DEF Recovery, Begun
    <2>4. Signalled'
        BY <2>1 DEF Signalled
    <2> QED
        BY <2>1, <2>2, <2>3, <2>4, QuietRecovers
<1>2. CASE AddFirst
    <2>1. /\ sequence = 0 /\ sequence' = 1 /\ pc = "idle" /\ closed = FALSE
          /\ UNCHANGED <<firstAck, toClient, batch>>
        BY <1>0, <1>2 DEF AddFirst, server
    <2>2. /\ pc' = "first" \/ (pc' = "idle" /\ firstAckCh' = firstAckCh)
          /\ \/ /\ toServer' = Append(toServer, [op |-> "start", seq |-> sequence'])
                /\ pc' = "first" /\ stallCh' = "empty" /\ ackSub' = TRUE
             \/ toServer' = toServer
        BY <1>2 DEF AddFirst, Send, Return
    <2>3. /\ batch = "none" /\ toClient = <<>> /\ Len(toClient) = 0 /\ firstAck = 0
          /\ Len(toServer) = 0
        <3>1. batch = "none" /\ toClient = <<>> /\ firstAck = 0
            BY <1>0, <2>1 DEF Recovery, Begun, IInv, Ordered
        <3>2. \A k \in 1 .. Len(toServer) : toServer[k].seq \in 1 .. 0
            BY <2>1 DEF IInv, RequestsOK
        <3> QED
            BY <1>0, <3>1, <3>2, EmptySeq
    <2>4. Begun'
        <3>1. firstAckCh' => pc' = "first"
            BY <2>1, <2>2 DEF Recovery, Begun
        <3>2. CASE toServer' = toServer
            BY <2>1, <2>3, <3>1, <3>2 DEF Begun
        <3>3. CASE /\ toServer' = Append(toServer, [op |-> "start", seq |-> sequence'])
                   /\ pc' = "first" /\ stallCh' = "empty" /\ ackSub' = TRUE
            <4>1. Len(toServer') = 1
                <5>1. [op |-> "start", seq |-> sequence'] \in Requests
                    BY <2>1, MessagesKnown
                <5> QED
                    BY <1>0, <2>3, <3>3, <5>1, AppendProperties
            <4> QED
                BY <2>1, <2>3, <3>1, <3>3, <4>1 DEF Begun
        <3> QED
            BY <2>2, <3>2, <3>3
    <2> QED
        BY <2>1, <2>2, <2>3, <2>4
           DEF Recovery, Opened, Informed, Signalled, Asking, Recovers
<1>3. CASE FirstAcked
    <2>1. pc = "first" /\ pc' = "idle" /\ firstAck # 0
        BY <1>3 DEF FirstAcked, Return
    <2>2. UNCHANGED <<sequence, closed, ackSub, stallCh, toServer, toClient,
                      handler, server, lost>>
        BY <1>3 DEF FirstAcked, world
    <2>3. ~firstAckCh
        BY <2>1 DEF Recovery, Begun
    <2>4. Signalled'
        BY <2>1 DEF Signalled
    <2> QED
        BY <2>1, <2>2, <2>3, <2>4, QuietRecovers
<1>4. CASE AddNext
    <2>1. /\ pc = "idle" /\ ~closed /\ sequence' = sequence + 1 /\ sequence # 0
          /\ UNCHANGED <<closed, ackSub, stallCh, toClient, handler, server>>
          /\ lost' = lost
        BY <1>0, <1>4 DEF AddNext, Fault, world
    <2>2. UNCHANGED <<ackSequence, flow, firstAckCh, firstAck, batch, acked, every>>
        BY <2>1 DEF handler, server
    <2>3. \/ /\ toServer' = Append(toServer, [op |-> "add", seq |-> sequence'])
             /\ pc' = "stalled" => pings' = 0 /\ waitForAck(ackSequence, flow, sequence')
             /\ pc' \in {"stalled", "idle"}
          \/ toServer' = toServer /\ pc' = "idle"
        BY <1>4 DEF AddNext, Send, Return
    <2>4. ~firstAckCh /\ \A k \in 1 .. Len(toServer) : toServer[k].op # "start"
        BY <2>1 DEF Recovery, Begun
    <2>5. Opened' /\ Informed' /\ Signalled'
        <3>1. pc' = "stalled" => ~closed' /\ waitForAck(ackSequence', flow', sequence')
            BY <2>1, <2>2, <2>3
        <3> QED
            BY <2>1, <2>2, <2>3, <3>1 DEF Recovery, Opened, Informed, Signalled
    <2>6. CASE toServer' = toServer /\ pc' = "idle"
        <3>1. Begun' /\ Asking' /\ Recovers'
            BY <1>0, <2>1, <2>2, <2>4, <2>6 DEF Recovery, Begun, Asking, Recovers
        <3> QED
            BY <2>5, <3>1 DEF Recovery
    <2>7. CASE /\ toServer' = Append(toServer, [op |-> "add", seq |-> sequence'])
               /\ pc' = "stalled" => pings' = 0
               /\ pc' \in {"stalled", "idle"}
        <3> DEFINE new == [op |-> "add", seq |-> sequence']
        <3>1. new \in Requests /\ new.seq = sequence' /\ new.op = "add"
            <4>1. sequence' \in Nat
                BY <1>0, <2>1
            <4> QED
                BY <4>1, MessagesKnown
        <3> HIDE DEF new
        <3>2. toServer' = Append(toServer, new)
            BY <2>7 DEF new
        <3>3. /\ Len(toServer') = Len(toServer) + 1
              /\ \A k \in 1 .. Len(toServer) : toServer'[k] = toServer[k]
              /\ toServer'[Len(toServer) + 1] = new
            BY <1>0, <3>1, <3>2, AppendProperties
        <3>4. \A k \in 1 .. Len(toServer') :
                  k \in 1 .. Len(toServer) \/ k = Len(toServer) + 1
            BY <1>0, <3>3
        <3>5. Begun'
            <4>1. \A k \in 1 .. Len(toServer') : toServer'[k].op # "start"
                BY <2>4, <3>1, <3>3, <3>4
            <4> QED
                BY <1>0, <2>1, <2>2, <2>4, <4>1 DEF Begun
        <3>6. \A k \in 1 .. Len(toServer) :
                  toServer[k].seq \in Nat /\ toServer[k].seq < sequence'
            BY <1>0, <2>1 DEF IInv, RequestsOK
        <3>7. Cardinality(AtSeq(toServer', sequence')) = 1
            <4>1. \A k \in 1 .. Len(toServer) : toServer[k].seq # sequence'
                BY <1>0, <2>1, <3>6
            <4>2. AtSeq(toServer', sequence') = {Len(toServer) + 1}
                BY <1>0, <3>1, <3>3, <3>4, <4>1 DEF AtSeq
            <4> QED
                BY <4>2, FS_Singleton
        <3>8. Asking'
            <4>1. ASSUME pc' = "stalled", NEW k \in 1 .. Len(toServer'),
                         toServer'[k].op # "ping" \/ toServer'[k].seq < sequence',
                         NEW j \in 1 .. Len(toServer'), j < k
                  PROVE  toServer'[j].seq < sequence'
                <5>1. j \in 1 .. Len(toServer)
                    BY <1>0, <3>3, <4>1
                <5> QED
                    BY <3>3, <3>6, <5>1
            <4>2. pc' = "stalled" => Cardinality(AtSeq(toServer', sequence')) = pings' + 1
                BY <2>7, <3>7
            <4> QED
                BY <4>1, <4>2 DEF Asking
        <3>9. Recovers'
            <4>1. Cardinality(Helpful(toClient', sequence')) \in Nat
                <5>1. toClient' \in Seq(Answers) /\ sequence' \in Nat
                    BY <1>0, <2>1 DEF IInv, Types, OtherTypes
                <5> QED
                    BY <5>1, HelpKnown
            <4> QED
                BY <1>0, <2>1, <2>7, <3>7, <4>1 DEF Recovers
        <3> QED
            BY <2>5, <3>5, <3>8, <3>9 DEF Recovery
    <2> QED
        BY <2>3, <2>6, <2>7
<1>5. CASE StallSignal
    <2>1. /\ pc = "stalled" /\ stallCh' = "empty"
          /\ \/ waitForAck(ackSequence, flow, sequence) /\ pc' = pc
             \/ pc' = "idle"
          /\ UNCHANGED <<sequence, closed, ackSub, pings, toServer, toClient,
                         handler, server, lost>>
        BY <1>5 DEF StallSignal, Return, world
    <2>2. ~firstAckCh
        BY <2>1 DEF Recovery, Begun
    <2>3. Signalled'
        BY <2>1 DEF Signalled, handler
    <2> QED
        BY <2>1, <2>2, <2>3, QuietRecovers
<1> QED
    BY <1>1, <1>2, <1>3, <1>4, <1>5 DEF Add

\* The ends of the waits that are errors, and Commit, CommitMsg and Close.
LEMMA FailureRecovers ==
    IInv /\ Recovery /\ (Timeout \/ StallPingFails \/ CommitFails) => Recovery'
<1> SUFFICES ASSUME IInv, Recovery, Timeout \/ StallPingFails \/ CommitFails
             PROVE  Recovery'
    OBVIOUS
<1>1. CASE FirstTimeout
    <2>1. /\ pc = "first" /\ pc' = "idle" /\ closed' = TRUE /\ Unsubscribe
          /\ firstAckCh' = FALSE
          /\ UNCHANGED <<sequence, toServer, firstAck, server, stallCh>>
        BY <1>1 DEF FirstTimeout, Return
    <2>2. Signalled' /\ Asking'
        BY <2>1 DEF Signalled, Asking
    <2> QED
        BY <2>1, <2>2, DroppedRecovers
<1>2. ASSUME StallTimeout \/ StallPingFails \/ CommitTimeout \/ CommitFails
      PROVE  Recovery'
    <2>1. /\ pc \in {"stalled", "committing"} /\ pc' \in {"idle", "ending"}
          /\ closed => closed'
          /\ UNCHANGED <<sequence, ackSub, stallCh, toServer, toClient, handler,
                         server, lost>>
        BY <1>2 DEF StallTimeout, StallPingFails, StallFails, CommitTimeout,
                    CommitFails, GiveUp, PingFails, Fault, Return, world
    <2>2. ~firstAckCh /\ Signalled'
        BY <2>1 DEF Recovery, Begun, Signalled
    <2> QED
        BY <2>1, <2>2, QuietRecovers
<1> QED
    BY <1>1, <1>2 DEF Timeout

LEMMA CommitRecovers == IInv /\ Recovery /\ Commit => Recovery'
<1> SUFFICES ASSUME IInv, Recovery, Commit PROVE Recovery'
    OBVIOUS
<1>0. /\ sequence \in Nat /\ toServer \in Seq(Requests) /\ Len(toServer) \in Nat
      /\ toClient \in Seq(Answers) /\ blocked \in BOOLEAN
    BY FastAssumption, LenProperties DEF IInv, Types, CallerTypes, OtherTypes
<1>1. ASSUME NEW operation \in {"commit", "eob"}, CheckOpen(operation)
      PROVE  Recovery'
    <2>1. /\ pc = "idle" /\ pc' = operation
          /\ UNCHANGED <<sequence, closed, ackSub, stallCh, toServer, toClient,
                         handler, server, lost>>
        BY <1>1 DEF CheckOpen, world
    <2>2. ~firstAckCh /\ Signalled'
        BY <1>1, <2>1 DEF Recovery, Begun, Signalled
    <2> QED
        BY <1>1, <2>1, <2>2, QuietRecovers
<1>2. ASSUME NEW operation \in {"commit", "eob"}, PublishCommit(operation)
      PROVE  Recovery'
    <2>1. /\ pc = operation /\ sequence' = sequence + 1
          /\ UNCHANGED <<closed, stallCh, toClient, handler, server>>
        BY <1>2 DEF PublishCommit
    <2>2. /\ pc' \in {"committing", "idle"} /\ lost' = lost
          /\ ackSub => ackSub'
          /\ \/ toServer' = Append(toServer, [op |-> operation, seq |-> sequence'])
             \/ toServer' = toServer
        BY <1>2 DEF PublishCommit, Send, Return, Fault, world
    <2>3. UNCHANGED <<ackSequence, flow, firstAckCh, firstAck, batch, acked, every>>
        BY <2>1 DEF handler, server
    <2>4. ~firstAckCh
        BY <1>2, <2>1 DEF Recovery, Begun
    <2>5. \A k \in 1 .. Len(toServer') : toServer'[k].op = "start" =>
              k \in 1 .. Len(toServer) /\ toServer'[k] = toServer[k]
        <3>1. CASE toServer' = toServer
            BY <3>1
        <3>2. CASE toServer' = Append(toServer, [op |-> operation, seq |-> sequence'])
            <4> DEFINE new == [op |-> operation, seq |-> sequence']
            <4>1. sequence' \in Nat
                BY <1>0, <2>1
            <4>2. new \in Requests /\ new.op # "start"
                BY <1>2, <4>1, MessagesKnown
            <4> HIDE DEF new
            <4>3. toServer' = Append(toServer, new)
                BY <3>2 DEF new
            <4>4. /\ Len(toServer') = Len(toServer) + 1
                  /\ \A k \in 1 .. Len(toServer) : toServer'[k] = toServer[k]
                  /\ toServer'[Len(toServer) + 1] = new
                BY <1>0, <4>2, <4>3, AppendProperties
            <4>5. \A k \in 1 .. Len(toServer') :
                      k \in 1 .. Len(toServer) \/ k = Len(toServer) + 1
                BY <1>0, <4>4
            <4> QED
                BY <4>2, <4>4, <4>5
        <3> QED
            BY <2>2, <3>1, <3>2
    <2>6. Begun'
        BY <1>0, <1>2, <2>1, <2>2, <2>3, <2>4, <2>5 DEF Recovery, Begun
    <2> QED
        BY <2>1, <2>2, <2>3, <2>6
           DEF Recovery, Opened, Informed, Signalled, Asking, Recovers
<1>3. CASE Committed
    <2>1. /\ pc = "committing" /\ pc' = "ending"
          /\ UNCHANGED <<sequence, closed, stallCh, toServer, handler, server, lost>>
        BY <1>3 DEF Committed, world
    <2>2. ~firstAckCh /\ Signalled' /\ Asking'
        BY <2>1 DEF Recovery, Begun, Signalled, Asking
    <2>3. CASE blocked
        <3>1. Unsubscribe
            BY <1>3, <2>3 DEF Committed
        <3>2. batch = "ended"
            <4>1. toClient # <<>> /\ toClient[1].type \in Response
                BY <2>3 DEF IInv, AnswersOK
            <4>2. 1 \in 1 .. Len(toClient)
                BY <1>0, <4>1, LenProperties, EmptySeq
            <4> QED
                BY <4>1, <4>2 DEF Recovery, Opened
        <3>3. firstAckCh' = firstAckCh /\ firstAck' = firstAck
            BY <2>1 DEF handler
        <3> QED
            BY <2>1, <2>2, <3>1, <3>2, <3>3, DroppedRecovers
    <2>4. CASE ~blocked
        <3>1. UNCHANGED <<ackSub, toClient>>
            BY <1>3, <2>4 DEF Committed
        <3> QED
            BY <2>1, <2>2, <3>1, QuietRecovers
    <2> QED
        BY <1>0, <2>3, <2>4
<1>4. CASE EndCommit
    <2>1. /\ pc = "ending" /\ pc' = "idle" /\ closed' = TRUE /\ Unsubscribe
          /\ UNCHANGED <<sequence, stallCh, toServer, handler, server>>
        BY <1>4 DEF EndCommit
    <2>2. ~firstAckCh /\ Signalled' /\ Asking'
        BY <2>1 DEF Recovery, Begun, Signalled, Asking
    <2>3. firstAckCh' = firstAckCh /\ firstAck' = firstAck
        BY <2>1 DEF handler
    <2> QED
        BY <2>1, <2>2, <2>3, DroppedRecovers
<1> QED
    BY <1>1, <1>2, <1>3, <1>4 DEF Commit

\* A ping is one more to be answered.
LEMMA PingRecovers == IInv /\ Recovery /\ Ping => Recovery'
<1> SUFFICES ASSUME IInv, Recovery, Ping PROVE Recovery'
    OBVIOUS
<1> DEFINE new == [op |-> "ping", seq |-> sequence]
<1>0. /\ sequence \in Nat /\ pings \in Nat /\ lost \in Nat
      /\ toServer \in Seq(Requests) /\ Len(toServer) \in Nat
      /\ toClient \in Seq(Answers)
    BY FastAssumption, LenProperties DEF IInv, Types, CallerTypes, OtherTypes
<1>1. /\ pc \in {"stalled", "committing"}
      /\ pings' = pings + 1
      /\ toServer' = Append(toServer, new)
      /\ UNCHANGED <<pc, sequence, closed, ackSub, stallCh, toClient, handler,
                     server, lost>>
    BY DEF Ping, sendPing, world
<1>2. UNCHANGED <<ackSequence, flow, firstAckCh, firstAck, batch, acked, every>>
    BY <1>1 DEF handler, server
<1>3. new \in Requests /\ new.op = "ping" /\ new.seq = sequence
    BY <1>0, MessagesKnown
<1> HIDE DEF new
<1>4. /\ Len(toServer') = Len(toServer) + 1
      /\ \A k \in 1 .. Len(toServer) : toServer'[k] = toServer[k]
      /\ toServer'[Len(toServer) + 1] = new
    BY <1>0, <1>1, <1>3, AppendProperties
<1>5. \A k \in 1 .. Len(toServer') : k \in 1 .. Len(toServer) \/ k = Len(toServer) + 1
    BY <1>0, <1>4
<1>6. /\ Cardinality(AtSeq(toServer, sequence)) \in Nat
      /\ Cardinality(AtSeq(toServer', sequence)) =
            Cardinality(AtSeq(toServer, sequence)) + 1
    BY <1>0, <1>1, <1>3, CountSent
<1>7. Begun'
    BY <1>1, <1>2, <1>3, <1>4, <1>5 DEF Recovery, Begun
<1>8. Opened' /\ Informed' /\ Signalled'
    BY <1>1, <1>2 DEF Recovery, Opened, Informed, Signalled
<1>9. Asking'
    <2> SUFFICES ASSUME pc = "stalled", NEW k \in 1 .. Len(toServer'),
                        toServer'[k].op # "ping" \/ toServer'[k].seq < sequence
                 PROVE  /\ Cardinality(AtSeq(toServer', sequence)) = pings' + 1
                        /\ \A j \in 1 .. Len(toServer') :
                              j < k => toServer'[j].seq < sequence
        BY <1>1 DEF Asking
    <2>1. k \in 1 .. Len(toServer) /\ toServer'[k] = toServer[k]
        BY <1>0, <1>3, <1>4, <1>5
    <2>2. /\ Cardinality(AtSeq(toServer, sequence)) = pings + 1
          /\ \A j \in 1 .. Len(toServer) : j < k => toServer[j].seq < sequence
        BY <2>1 DEF Recovery, Asking
    <2>3. \A j \in 1 .. Len(toServer') : j < k => j \in 1 .. Len(toServer)
        BY <1>0, <1>4, <2>1
    <2> QED
        BY <1>0, <1>1, <1>4, <1>6, <2>2, <2>3
<1>10. Recovers'
    <2>1. Settled => Settled'
        BY <1>1, <1>2 DEF Settled
    <2>2. Cardinality(Helpful(toClient, sequence)) \in Nat
        BY <1>0, HelpKnown
    <2> SUFFICES ASSUME pc = "stalled", batch = "open", ~Settled
                 PROVE  lost + Cardinality(AtSeq(toServer', sequence))
                             + Cardinality(Helpful(toClient, sequence)) > pings'
        BY <1>1, <1>2, <2>1 DEF Recovers
    <2>3. lost + Cardinality(AtSeq(toServer, sequence))
               + Cardinality(Helpful(toClient, sequence)) > pings
        BY DEF Recovery, Recovers
    <2> DEFINE asks == Cardinality(AtSeq(toServer, sequence))
               helps == Cardinality(Helpful(toClient, sequence))
    <2>4. /\ asks \in Nat /\ helps \in Nat /\ pings \in Nat /\ lost \in Nat
          /\ pings' = pings + 1 /\ lost + asks + helps > pings
          /\ Cardinality(AtSeq(toServer', sequence)) = asks + 1
        BY <1>0, <1>1, <1>6, <2>2, <2>3
    <2> HIDE DEF asks, helps
    <2>5. lost + (asks + 1) + helps > pings'
        BY <2>4
    <2> QED
        BY <2>4, <2>5 DEF helps
<1> QED
    BY <1>7, <1>8, <1>9, <1>10 DEF Recovery

\* The first request leaves: whoever asks again has asked for what the others
\* are about.
LEMMA RequestGone ==
    ASSUME IInv, Begun, Asking, toServer # <<>>, toServer' = Tail(toServer),
           UNCHANGED <<pc, sequence, pings>>
    PROVE  /\ \A k \in 1 .. Len(toServer') : toServer'[k].op # "start"
           /\ Asking'
           /\ Cardinality(AtSeq(toServer', sequence)) \in Nat
           /\ Cardinality(AtSeq(toServer, sequence)) =
                 Cardinality(AtSeq(toServer', sequence))
                     + IF Head(toServer).seq = sequence THEN 1 ELSE 0
<1>0. toServer \in Seq(Requests) /\ sequence \in Nat
    BY FastAssumption DEF IInv, Types, CallerTypes, OtherTypes
<1>1. Len(toServer) \in Nat \ {0} /\ Head(toServer) = toServer[1]
    BY <1>0, LenProperties, EmptySeq
<1>2. /\ Len(toServer') = Len(toServer) - 1
      /\ \A k \in 1 .. Len(toServer') :
            toServer'[k] = toServer[k + 1] /\ k + 1 \in 1 .. Len(toServer) /\ k + 1 # 1
    BY <1>0, <1>1, HeadTailProperties
<1>3. /\ Cardinality(AtSeq(toServer', sequence)) \in Nat
      /\ Cardinality(AtSeq(toServer, sequence)) =
            Cardinality(AtSeq(toServer', sequence))
                + IF Head(toServer).seq = sequence THEN 1 ELSE 0
    BY <1>0, CountTaken
<1>4. \A k \in 1 .. Len(toServer') : toServer'[k].op # "start"
    BY <1>2 DEF Begun
<1>5. Asking'
    <2> SUFFICES ASSUME pc = "stalled", NEW k \in 1 .. Len(toServer'),
                        toServer'[k].op # "ping" \/ toServer'[k].seq < sequence
                 PROVE  /\ Cardinality(AtSeq(toServer', sequence)) = pings + 1
                        /\ \A j \in 1 .. Len(toServer') :
                              j < k => toServer'[j].seq < sequence
        BY DEF Asking
    <2>1. /\ Cardinality(AtSeq(toServer, sequence)) = pings + 1
          /\ \A j \in 1 .. Len(toServer) : j < k + 1 => toServer[j].seq < sequence
        BY <1>2 DEF Asking
    <2>2. Head(toServer).seq < sequence /\ Head(toServer).seq \in Nat
        <3>1. 1 \in 1 .. Len(toServer) /\ 1 < k + 1
            BY <1>1
        <3>2. toServer[1].seq \in Nat
            BY <1>0, <3>1 DEF IInv, RequestsOK
        <3> QED
            BY <1>1, <2>1, <3>1, <3>2
    <2>3. \A j \in 1 .. Len(toServer') : j < k => toServer'[j].seq < sequence
        BY <1>2, <2>1
    <2> QED
        BY <1>0, <1>3, <2>1, <2>2, <2>3
<1> QED
    BY <1>3, <1>4, <1>5

\* The first answer leaves.
LEMMA AnswerGone ==
    ASSUME IInv, toClient # <<>>, toClient' = Tail(toClient)
    PROVE  /\ toClient' \in Seq(Answers)
           /\ Head(toClient) = toClient[1] /\ Len(toClient) \in Nat \ {0}
           /\ Len(toClient') = Len(toClient) - 1
           /\ \A k \in 1 .. Len(toClient') :
                 toClient'[k] = toClient[k + 1] /\ k + 1 \in 1 .. Len(toClient)
           /\ \A k \in 1 .. Len(toClient) : k # 1 =>
                 toClient[k] = toClient'[k - 1] /\ k - 1 \in 1 .. Len(toClient')
<1>0. toClient \in Seq(Answers)
    BY DEF IInv, Types, OtherTypes
<1>1. Len(toClient) \in Nat \ {0} /\ Head(toClient) = toClient[1]
    BY <1>0, LenProperties, EmptySeq
<1>2. /\ toClient' \in Seq(Answers)
      /\ Len(toClient') = Len(toClient) - 1
      /\ \A k \in 1 .. Len(toClient') :
            toClient'[k] = toClient[k + 1] /\ k + 1 \in 1 .. Len(toClient)
    BY <1>0, <1>1, HeadTailProperties
<1>3. ASSUME NEW k \in 1 .. Len(toClient), k # 1
      PROVE  toClient[k] = toClient'[k - 1] /\ k - 1 \in 1 .. Len(toClient')
    <2>1. k - 1 \in 1 .. Len(toClient') /\ (k - 1) + 1 = k
        BY <1>1, <1>2, <1>3
    <2>2. toClient'[k - 1] = toClient[(k - 1) + 1]
        BY <1>2, <2>1
    <2> QED
        BY <2>1, <2>2
<1> QED
    BY <1>1, <1>2, <1>3

\* A message lost takes at most one answer with it, or one request.
LEMMA LoseRecovers == IInv /\ Recovery /\ Lose => Recovery'
<1> SUFFICES ASSUME IInv, Recovery, Lose PROVE Recovery'
    OBVIOUS
<1>0. sequence \in Nat /\ pings \in Nat /\ lost \in Nat /\ toClient \in Seq(Answers)
      /\ toServer \in Seq(Requests)
    BY FastAssumption DEF IInv, Types, CallerTypes, OtherTypes
<1>1. /\ lost' = lost + 1
      /\ UNCHANGED <<pc, sequence, closed, ackSub, stallCh, pings, handler, server>>
    BY DEF Lose
<1>2. UNCHANGED <<ackSequence, flow, firstAckCh, firstAck, batch, acked, every>>
    BY <1>1 DEF handler, server
<1>3. Informed' /\ Signalled'
    BY <1>0, <1>1, <1>2 DEF Recovery, Informed, Signalled
<1>4. Cardinality(AtSeq(toServer, sequence)) \in Nat
      /\ Cardinality(Helpful(toClient, sequence)) \in Nat
    BY <1>0, CountKnown, HelpKnown
<1>5. CASE toServer # <<>> /\ toServer' = Tail(toServer) /\ UNCHANGED toClient
    <2>1. /\ \A k \in 1 .. Len(toServer') : toServer'[k].op # "start"
          /\ Asking'
          /\ Cardinality(AtSeq(toServer', sequence)) \in Nat
          /\ Cardinality(AtSeq(toServer', sequence)) + 1 >=
                Cardinality(AtSeq(toServer, sequence))
        BY <1>1, <1>5, RequestGone DEF Recovery
    <2>2. Begun' /\ Opened'
        BY <1>1, <1>2, <1>5, <2>1 DEF Recovery, Begun, Opened
    <2>3. Recovers'
        <3> SUFFICES ASSUME pc = "stalled", batch = "open", ~Settled
                     PROVE  lost' + Cardinality(AtSeq(toServer', sequence))
                                  + Cardinality(Helpful(toClient, sequence)) > pings
            BY <1>1, <1>2, <1>5 DEF Recovers, Settled
        <3>1. lost + Cardinality(AtSeq(toServer, sequence))
                   + Cardinality(Helpful(toClient, sequence)) > pings
            BY DEF Recovery, Recovers
        <3> DEFINE asks == Cardinality(AtSeq(toServer, sequence))
                   left == Cardinality(AtSeq(toServer', sequence))
                   helps == Cardinality(Helpful(toClient, sequence))
        <3>2. /\ asks \in Nat /\ left \in Nat /\ helps \in Nat /\ pings \in Nat
              /\ lost \in Nat /\ lost' = lost + 1
              /\ left + 1 >= asks /\ lost + asks + helps > pings
            BY <1>0, <1>1, <1>4, <2>1, <3>1
        <3> HIDE DEF asks, left, helps
        <3>3. lost' + left + helps > pings
            BY <3>2
        <3> QED
            BY <3>3 DEF left, helps
    <2> QED
        BY <1>3, <2>1, <2>2, <2>3 DEF Recovery
<1>6. CASE toClient # <<>> /\ toClient' = Tail(toClient) /\ UNCHANGED toServer
    <2>1. /\ Len(toClient') = Len(toClient) - 1 /\ Len(toClient) \in Nat \ {0}
          /\ \A k \in 1 .. Len(toClient') :
                toClient'[k] = toClient[k + 1] /\ k + 1 \in 1 .. Len(toClient)
        BY <1>6, AnswerGone
    <2>2. Begun' /\ Opened' /\ Asking'
        BY <1>1, <1>2, <1>6, <2>1 DEF Recovery, Begun, Opened, Asking
    <2>3. Recovers'
        <3>1. Settled => Settled'
            BY <1>1, <1>2, <2>1 DEF Settled
        <3> SUFFICES ASSUME pc = "stalled", batch = "open", ~Settled
                     PROVE  lost' + Cardinality(AtSeq(toServer, sequence))
                                  + Cardinality(Helpful(toClient', sequence)) > pings
            BY <1>1, <1>2, <1>6, <3>1 DEF Recovers
        <3>2. lost + Cardinality(AtSeq(toServer, sequence))
                   + Cardinality(Helpful(toClient, sequence)) > pings
            BY DEF Recovery, Recovers
        <3>3. /\ Cardinality(Helpful(toClient', sequence)) \in Nat
              /\ Cardinality(Helpful(toClient', sequence)) + 1 >=
                    Cardinality(Helpful(toClient, sequence))
            <4> DEFINE helps == Cardinality(Helpful(toClient, sequence))
                       left == Cardinality(Helpful(toClient', sequence))
            <4>1. left \in Nat /\ helps \in Nat /\ (helps = left \/ helps = left + 1)
                BY <1>0, <1>6, HelpTaken
            <4> HIDE DEF helps, left
            <4>2. left \in Nat /\ left + 1 >= helps
                BY <4>1
            <4> QED
                BY <4>2 DEF helps, left
        <3> DEFINE asks == Cardinality(AtSeq(toServer, sequence))
                   helps == Cardinality(Helpful(toClient, sequence))
                   left == Cardinality(Helpful(toClient', sequence))
        <3>4. /\ asks \in Nat /\ left \in Nat /\ helps \in Nat /\ pings \in Nat
              /\ lost \in Nat /\ lost' = lost + 1
              /\ left + 1 >= helps /\ lost + asks + helps > pings
            BY <1>0, <1>1, <1>4, <3>2, <3>3
        <3> HIDE DEF asks, left, helps
        <3>5. lost' + asks + left > pings
            BY <3>4
        <3> QED
            BY <3>5 DEF asks, left
    <2> QED
        BY <1>3, <2>2, <2>3 DEF Recovery
<1> QED
    BY <1>5, <1>6 DEF Lose

\* ackMsgHandler: an ack that helps settles it, together with those after it.
LEMMA HandlerRecovers == IInv /\ Recovery /\ ackMsgHandler => Recovery'
<1> SUFFICES ASSUME IInv, Recovery, ackMsgHandler PROVE Recovery'
    OBVIOUS
<1> DEFINE msg == Head(toClient)
<1>0. /\ sequence \in Nat /\ toClient \in Seq(Answers) /\ firstAckCh \in BOOLEAN
      /\ stallCh \in {"nil", "empty", "full"} /\ closed \in BOOLEAN
    BY FastAssumption DEF IInv, Types, CallerTypes, OtherTypes
<1>1. /\ toClient # <<>> /\ ~blocked
      /\ UNCHANGED <<pc, sequence, pings, toServer, batch, acked, every, lost>>
    BY DEF ackMsgHandler, server, world
<1>2. /\ \A k \in 1 .. Len(toServer) : toServer[k].op # "start"
      /\ sequence # 0
    BY <1>1 DEF Recovery, Begun
<1>3. msg = toClient[1] /\ 1 \in 1 .. Len(toClient)
    BY <1>0, <1>1, LenProperties, EmptySeq
<1>4. Asking'
    BY <1>1 DEF Recovery, Asking
<1> HIDE DEF msg
<1>5. ASSUME toClient' = Tail(toClient), UNCHANGED <<closed, ackSub>>,
             stallCh' = "nil" => stallCh = "nil",
             firstAckCh' => firstAckCh /\ firstAck' = firstAck
      PROVE  /\ Begun' /\ Opened'
             /\ Settled /\ (UNCHANGED <<ackSequence, flow>>) => Settled'
             /\ Len(toClient) \in Nat \ {0} /\ Len(toClient') = Len(toClient) - 1
             /\ \A k \in 1 .. Len(toClient') :
                   toClient'[k] = toClient[k + 1] /\ k + 1 \in 1 .. Len(toClient)
             /\ \A k \in 1 .. Len(toClient) : k # 1 =>
                   toClient[k] = toClient'[k - 1] /\ k - 1 \in 1 .. Len(toClient')
    <2>1. /\ Len(toClient) \in Nat \ {0} /\ Len(toClient') = Len(toClient) - 1
          /\ \A k \in 1 .. Len(toClient') :
                toClient'[k] = toClient[k + 1] /\ k + 1 \in 1 .. Len(toClient)
          /\ \A k \in 1 .. Len(toClient) : k # 1 =>
                toClient[k] = toClient'[k - 1] /\ k - 1 \in 1 .. Len(toClient')
        BY <1>1, <1>5, AnswerGone
    <2>2. Begun'
        BY <1>1, <1>2, <1>5 DEF Recovery, Begun
    <2>3. Opened'
        BY <1>1, <1>5, <2>1 DEF Recovery, Opened
    <2>4. Settled /\ (UNCHANGED <<ackSequence, flow>>) => Settled'
        BY <1>1, <2>1 DEF Settled
    <2> QED
        BY <2>1, <2>2, <2>3, <2>4
<1>6. ASSUME msg.type = "ack", FlowAck(msg), toClient' = Tail(toClient),
             UNCHANGED <<closed, commitCh, ackSub, blocked>>
      PROVE  Recovery'
    <2>1. /\ ackSequence' = msg.seq /\ flow' = msg.msgs
          /\ firstAckCh' = FALSE
          /\ stallCh # "nil"
          /\ ~firstAckCh => stallCh' = "full"
          /\ firstAckCh => stallCh' = stallCh
        BY <1>0, <1>3, <1>6 DEF FlowAck, Recovery, Opened
    <2>2. /\ Begun' /\ Opened'
          /\ Len(toClient) \in Nat \ {0} /\ Len(toClient') = Len(toClient) - 1
          /\ \A k \in 1 .. Len(toClient') :
                toClient'[k] = toClient[k + 1] /\ k + 1 \in 1 .. Len(toClient)
          /\ \A k \in 1 .. Len(toClient) : k # 1 =>
                toClient[k] = toClient'[k - 1] /\ k - 1 \in 1 .. Len(toClient')
        BY <1>0, <1>5, <1>6, <2>1
    <2>3. Signalled'
        BY <1>1, <2>1 DEF Signalled, Recovery, Begun
    <2>4. Informed'
        <3> SUFFICES ASSUME batch = "open", ~closed, ~(lost > 0)
                     PROVE  \/ /\ ackSequence' = acked /\ flow' = every
                               /\ \A k \in 1 .. Len(toClient') : toClient'[k].type # "ack"
                            \/ \E k \in 1 .. Len(toClient') :
                                  /\ toClient'[k].type = "ack"
                                  /\ toClient'[k].seq = acked
                                  /\ toClient'[k].msgs = every
                                  /\ \A j \in 1 .. Len(toClient') :
                                        k < j => toClient'[j].type # "ack"
            BY <1>1, <1>6 DEF Informed
        <3>1. PICK k \in 1 .. Len(toClient) :
                  /\ toClient[k].type = "ack"
                  /\ toClient[k].seq = acked /\ toClient[k].msgs = every
                  /\ \A j \in 1 .. Len(toClient) : k < j => toClient[j].type # "ack"
            BY <1>3, <1>6 DEF Recovery, Informed
        <3>2. CASE k = 1
            <4>1. \A j \in 1 .. Len(toClient') : 1 < j + 1
                OBVIOUS
            <4>2. \A j \in 1 .. Len(toClient') : toClient'[j].type # "ack"
                BY <2>2, <3>1, <3>2, <4>1
            <4> QED
                BY <1>3, <2>1, <3>1, <3>2, <4>2
        <3>3. CASE k # 1
            <4>1. toClient[k] = toClient'[k - 1] /\ k - 1 \in 1 .. Len(toClient')
                BY <2>2, <3>3
            <4>2. \A j \in 1 .. Len(toClient') : k - 1 < j => k < j + 1
                OBVIOUS
            <4>3. \A j \in 1 .. Len(toClient') : k - 1 < j => toClient'[j].type # "ack"
                BY <2>2, <3>1, <4>2
            <4> QED
                BY <3>1, <4>1, <4>3
        <3> QED
            BY <3>2, <3>3
    <2>5. Recovers'
        <3> SUFFICES ASSUME pc = "stalled", batch = "open", ~Settled'
                     PROVE  lost + Cardinality(AtSeq(toServer, sequence))
                                 + Cardinality(Helpful(toClient', sequence)) > pings
            BY <1>1 DEF Recovers
        <3>1. ~\A k \in 1 .. Len(toClient) : Enough(toClient[k], sequence)
            <4> SUFFICES ASSUME \A k \in 1 .. Len(toClient) : Enough(toClient[k], sequence)
                         PROVE  Settled'
                OBVIOUS
            <4>1. \A k \in 1 .. Len(toClient') : Enough(toClient'[k], sequence)
                BY <2>2
            <4>2. ~waitForAck(msg.seq, msg.msgs, sequence)
                BY <1>3, <1>6 DEF Enough
            <4> QED
                BY <1>1, <2>1, <4>1, <4>2 DEF Settled
        <3>2. lost + Cardinality(AtSeq(toServer, sequence))
                   + Cardinality(Helpful(toClient, sequence)) > pings
            BY <3>1 DEF Recovery, Recovers, Settled
        <3>3. Cardinality(Helpful(toClient, sequence)) =
                  Cardinality(Helpful(toClient', sequence))
            BY <1>0, <1>1, <1>6, <3>1, HelpTaken
        <3> QED
            BY <3>2, <3>3
    <2> QED
        BY <1>4, <2>2, <2>3, <2>4, <2>5 DEF Recovery
<1>7. ASSUME msg.type = "gap", toClient' = Tail(toClient),
             UNCHANGED <<closed, commitCh, ackSub, blocked, stallCh, handler>>
      PROVE  Recovery'
    <2>1. UNCHANGED <<ackSequence, flow, firstAckCh, firstAck>>
        BY <1>7 DEF handler
    <2>2. /\ Begun' /\ Opened' /\ (Settled => Settled')
          /\ Len(toClient) \in Nat \ {0} /\ Len(toClient') = Len(toClient) - 1
          /\ \A k \in 1 .. Len(toClient') :
                toClient'[k] = toClient[k + 1] /\ k + 1 \in 1 .. Len(toClient)
          /\ \A k \in 1 .. Len(toClient) : k # 1 =>
                toClient[k] = toClient'[k - 1] /\ k - 1 \in 1 .. Len(toClient')
        BY <1>5, <1>7, <2>1
    <2>3. Signalled'
        BY <1>1, <1>7, <2>1 DEF Recovery, Signalled
    <2>4. Informed'
        <3> SUFFICES ASSUME batch = "open", ~closed, ~(lost > 0)
                     PROVE  \/ /\ ackSequence = acked /\ flow = every
                               /\ \A k \in 1 .. Len(toClient') : toClient'[k].type # "ack"
                            \/ \E k \in 1 .. Len(toClient') :
                                  /\ toClient'[k].type = "ack"
                                  /\ toClient'[k].seq = acked
                                  /\ toClient'[k].msgs = every
                                  /\ \A j \in 1 .. Len(toClient') :
                                        k < j => toClient'[j].type # "ack"
            BY <1>1, <1>7, <2>1 DEF Informed
        <3>1. CASE /\ ackSequence = acked /\ flow = every
                   /\ \A k \in 1 .. Len(toClient) : toClient[k].type # "ack"
            BY <2>2, <3>1
        <3>2. CASE \E k \in 1 .. Len(toClient) :
                      /\ toClient[k].type = "ack"
                      /\ toClient[k].seq = acked /\ toClient[k].msgs = every
                      /\ \A j \in 1 .. Len(toClient) : k < j => toClient[j].type # "ack"
            <4>1. PICK k \in 1 .. Len(toClient) :
                      /\ toClient[k].type = "ack"
                      /\ toClient[k].seq = acked /\ toClient[k].msgs = every
                      /\ \A j \in 1 .. Len(toClient) : k < j => toClient[j].type # "ack"
                BY <3>2
            <4>2. k # 1
                BY <1>3, <1>7, <4>1
            <4>3. toClient[k] = toClient'[k - 1] /\ k - 1 \in 1 .. Len(toClient')
                BY <2>2, <4>2
            <4>4. \A j \in 1 .. Len(toClient') : k - 1 < j => k < j + 1
                OBVIOUS
            <4>5. \A j \in 1 .. Len(toClient') : k - 1 < j => toClient'[j].type # "ack"
                BY <2>2, <4>1, <4>4
            <4> QED
                BY <4>1, <4>3, <4>5
        <3> QED
            BY <3>1, <3>2 DEF Recovery, Informed
    <2>5. Recovers'
        <3> SUFFICES ASSUME pc = "stalled", batch = "open", ~Settled
                     PROVE  lost + Cardinality(AtSeq(toServer, sequence))
                                 + Cardinality(Helpful(toClient', sequence)) > pings
            BY <1>1, <2>2 DEF Recovers
        <3>1. lost + Cardinality(AtSeq(toServer, sequence))
                   + Cardinality(Helpful(toClient, sequence)) > pings
            BY DEF Recovery, Recovers
        <3>2. Cardinality(Helpful(toClient, sequence)) =
                  Cardinality(Helpful(toClient', sequence))
            BY <1>0, <1>1, <1>7, HelpTaken DEF msg
        <3> QED
            BY <3>1, <3>2
    <2> QED
        BY <1>4, <2>2, <2>3, <2>4, <2>5 DEF Recovery
<1>8. ASSUME msg.type \in Response, EndOfBatch(msg.type), UNCHANGED <<stallCh, handler>>
      PROVE  Recovery'
    <2>1. batch = "ended" /\ closed' = TRUE
        BY <1>3, <1>8 DEF Recovery, Opened, EndOfBatch
    <2>2. UNCHANGED <<ackSequence, flow, firstAckCh, firstAck>>
        BY <1>8 DEF handler
    <2>3. Signalled'
        BY <1>1, <1>8, <2>2 DEF Recovery, Signalled
    <2>4. firstAckCh' => firstAckCh /\ pc' = "first"
        BY <1>1, <2>2 DEF Recovery, Begun
    <2>5. UNCHANGED server
        BY DEF ackMsgHandler
    <2>6. CASE commitCh \in Response
        <3>1. UNCHANGED <<ackSub, toClient>>
            BY <1>8, <2>6 DEF EndOfBatch
        <3> QED
            BY <1>1, <1>8, <2>1, <2>2, <2>3, <2>4, <2>5, <3>1, QuietRecovers
    <2>7. CASE commitCh \notin Response
        <3>1. Unsubscribe
            BY <1>8, <2>7 DEF EndOfBatch
        <3> QED
            BY <1>1, <1>4, <1>8, <2>1, <2>2, <2>3, <2>4, <2>5, <3>1, DroppedRecovers
    <2> QED
        BY <2>6, <2>7
<1> QED
    BY <1>6, <1>7, <1>8 DEF ackMsgHandler, handler, msg

\* What the server makes of one message: it ends the batch, acknowledges what it
\* has come to, or says nothing of it.
Replied(msg, replies) ==
    /\ replies \in Seq(Answers) /\ Answer(replies)
    /\ \A k \in 1 .. Len(replies) : replies[k].type = "ack" => k = Len(replies)
    /\ \/ batch' = "ended" /\ \A k \in 1 .. Len(replies) : replies[k].type # "ack"
       \/ /\ batch' = "open"
          /\ \/ batch = "open" /\ acked' = msg.seq
             \/ batch = "none" /\ msg.op = "start"
          /\ acked' \in Nat /\ every' \in 1 .. Flow
          /\ replies # <<>> /\ replies[Len(replies)] = AckMsg(acked', every')
          /\ \A k \in 1 .. Len(replies) : replies[k].type \notin Response
       \/ /\ batch = "open" /\ UNCHANGED <<batch, acked, every>>
          /\ msg.op = "add" /\ msg.seq < acked + every
          /\ \A k \in 1 .. Len(replies) : replies[k].type = "gap"

\* A notice, and what follows it.
LEMMA NoticeKnown ==
    ASSUME NEW notice \in Notices
    PROVE  /\ notice \in Seq(Answers)
           /\ \A k \in 1 .. Len(notice) : notice[k].type = "gap"
           /\ \A reply \in Answers :
                 LET replies == notice \o <<reply>>
                 IN  /\ replies \in Seq(Answers) /\ replies # <<>>
                     /\ replies[Len(replies)] = reply
                     /\ \A k \in 1 .. Len(replies) :
                           replies[k].type = "gap" \/ (k = Len(replies) /\ replies[k] = reply)
<1>1. GapMsg \in Answers /\ GapMsg.type = "gap"
    BY MessagesKnown
<1> HIDE DEF GapMsg
<1>2. notice \in Seq(Answers) /\ Len(notice) \in {0, 1}
      /\ \A k \in 1 .. Len(notice) : notice[k] = GapMsg
    <2>1. CASE notice = <<>>
        <3>1. <<>> \in Seq(Answers) /\ Len(<<>>) = 0
            BY EmptySeq
        <3> QED
            BY <2>1, <3>1
    <2>2. CASE notice = <<GapMsg>>
        <3>1. <<GapMsg>> \in Seq(Answers) /\ Len(<<GapMsg>>) = 1 /\ <<GapMsg>>[1] = GapMsg
            BY <1>1
        <3> QED
            BY <2>2, <3>1
    <2> QED
        BY <2>1, <2>2 DEF Notices
<1>3. ASSUME NEW reply \in Answers
      PROVE  LET replies == notice \o <<reply>>
             IN  /\ replies \in Seq(Answers) /\ replies # <<>>
                 /\ replies[Len(replies)] = reply
                 /\ \A k \in 1 .. Len(replies) :
                       replies[k].type = "gap" \/ (k = Len(replies) /\ replies[k] = reply)
    <2> DEFINE replies == notice \o <<reply>>
    <2>1. /\ replies \in Seq(Answers) /\ Len(replies) = Len(notice) + 1
          /\ replies[Len(notice) + 1] = reply
          /\ \A k \in 1 .. Len(notice) : replies[k] = GapMsg
        BY <1>2
    <2> HIDE DEF replies
    <2>2. \A k \in 1 .. Len(replies) : k \in 1 .. Len(notice) \/ k = Len(notice) + 1
        BY <1>2, <2>1
    <2>3. replies # <<>>
        BY <1>2, <2>1, EmptySeq
    <2>4. /\ replies[Len(replies)] = reply
          /\ \A k \in 1 .. Len(replies) :
                replies[k].type = "gap" \/ (k = Len(replies) /\ replies[k] = reply)
        BY <1>1, <2>1, <2>2
    <2> QED
        BY <2>1, <2>3, <2>4 DEF replies
<1> QED
    BY <1>1, <1>2, <1>3

\* The end of a batch, after a notice or alone.
LEMMA EndReplied ==
    ASSUME NEW response \in Response, NEW notice \in Notices, NEW msg,
           End(response, notice)
    PROVE  \E replies : Replied(msg, replies)
<1> DEFINE replies == notice \o <<EndMsg(response)>>
<1>1. EndMsg(response) \in Answers /\ EndMsg(response).type # "ack"
    BY MessagesKnown DEF Response
<1>2. /\ replies \in Seq(Answers)
      /\ \A k \in 1 .. Len(replies) :
            replies[k].type = "gap" \/ replies[k] = EndMsg(response)
    BY <1>1, NoticeKnown
<1>3. Answer(replies) /\ batch' = "ended"
    BY DEF End
<1> HIDE DEF replies
<1>4. Replied(msg, replies)
    BY <1>1, <1>2, <1>3 DEF Replied
<1> QED
    BY <1>4

\* A flow ack, likewise.
LEMMA AckReplied ==
    ASSUME NEW seq \in Nat, NEW notice \in Notices, NEW msg,
           SendAck(seq, notice), batch' = "open", Flow \in Nat,
           \/ batch = "open" /\ seq = msg.seq
           \/ batch = "none" /\ msg.op = "start"
    PROVE  \E replies : Replied(msg, replies)
<1> DEFINE replies == notice \o <<AckMsg(seq, every')>>
<1>1. acked' = seq /\ every' \in 1 .. Flow /\ Answer(replies)
    BY DEF SendAck
<1>2. AckMsg(seq, every') \in Answers /\ AckMsg(seq, every').type = "ack"
    BY <1>1, MessagesKnown
<1>3. /\ replies \in Seq(Answers) /\ replies # <<>>
      /\ replies[Len(replies)] = AckMsg(seq, every')
      /\ \A k \in 1 .. Len(replies) :
            \/ replies[k].type = "gap"
            \/ k = Len(replies) /\ replies[k] = AckMsg(seq, every')
    BY <1>2, NoticeKnown
<1> HIDE DEF replies
<1>4. Replied(msg, replies)
    BY <1>1, <1>2, <1>3 DEF Replied, Response
<1> QED
    BY <1>4

LEMMA ServeReplied ==
    ASSUME IInv, Serve
    PROVE  \E replies : Replied(Head(toServer), replies)
<1> DEFINE msg == Head(toServer)
<1>0. toServer \in Seq(Requests) /\ Flow \in Nat /\ batch \in {"none", "open", "ended"}
    BY FastAssumption DEF IInv, Types, OtherTypes
<1>1. /\ toServer # <<>>
      /\ IF batch = "open" THEN Take(msg.op, msg.seq) /\ UNCHANGED faults
                           ELSE Open(msg.op, msg.seq)
    BY DEF Serve
<1>2. msg.seq \in Nat
    <2>1. msg \in Requests
        BY <1>0, <1>1, HeadTailProperties
    <2> QED
        BY <2>1 DEF Requests
<1> HIDE DEF msg
<1>3. CASE batch = "open"
    <2> DEFINE missing == msg.seq > IF msg.op = "ping" THEN last ELSE last + 1
               notice  == IF missing THEN <<GapMsg>> ELSE <<>>
    <2>1. notice \in Notices
        BY DEF Notices
    <2>2. \/ End("failed", notice) \/ End("committed", notice)
          \/ SendAck(msg.seq, notice) /\ UNCHANGED batch
          \/ /\ msg.op = "add" /\ msg.seq < acked + every
             /\ Answer(notice)
             /\ UNCHANGED <<batch, acked, every>>
        BY <1>1, <1>3 DEF Take
    <2> HIDE DEF notice
    <2>3. CASE End("failed", notice) \/ End("committed", notice)
        BY <2>1, <2>3, EndReplied DEF Response, msg
    <2>4. CASE SendAck(msg.seq, notice) /\ UNCHANGED batch
        BY <1>0, <1>2, <1>3, <2>1, <2>4, AckReplied DEF msg
    <2>5. CASE /\ msg.op = "add" /\ msg.seq < acked + every
               /\ Answer(notice)
               /\ UNCHANGED <<batch, acked, every>>
        <3>1. notice \in Seq(Answers) /\ \A k \in 1 .. Len(notice) : notice[k].type = "gap"
            BY <2>1, NoticeKnown
        <3>2. Replied(msg, notice)
            BY <1>3, <2>5, <3>1 DEF Replied
        <3> QED
            BY <3>2 DEF msg
    <2> QED
        BY <2>2, <2>3, <2>4, <2>5
<1>4. CASE batch # "open"
    <2>1. <<>> \in Notices
        BY DEF Notices
    <2>2. \/ End("failed", <<>>) \/ End("committed", <<>>)
          \/ /\ msg.op = "start" /\ batch = "none" /\ batch' = "open"
             /\ SendAck(1, <<>>)
        BY <1>1, <1>4 DEF Open
    <2>3. CASE End("failed", <<>>) \/ End("committed", <<>>)
        BY <2>1, <2>3, EndReplied DEF Response, msg
    <2>4. CASE /\ msg.op = "start" /\ batch = "none" /\ batch' = "open"
               /\ SendAck(1, <<>>)
        BY <1>0, <2>1, <2>4, AckReplied DEF msg
    <2> QED
        BY <2>2, <2>3, <2>4
<1> QED
    BY <1>3, <1>4

\* Where an answer stands that joins the others.
LEMMA AnswersJoined ==
    ASSUME IInv, NEW replies \in Seq(Answers), Answer(replies)
    PROVE  /\ \A k \in 1 .. Len(toClient') :
                 \/ k \in 1 .. Len(toClient) /\ toClient'[k] = toClient[k]
                 \/ \E i \in 1 .. Len(replies) :
                       k = Len(toClient) + i /\ toClient'[k] = replies[i]
           /\ ackSub =>
                 /\ toClient' = toClient \o replies
                 /\ Len(toClient') = Len(toClient) + Len(replies)
                 /\ \A k \in 1 .. Len(toClient) :
                       k \in 1 .. Len(toClient') /\ toClient'[k] = toClient[k]
                 /\ \A i \in 1 .. Len(replies) :
                       /\ Len(toClient) + i \in 1 .. Len(toClient')
                       /\ toClient'[Len(toClient) + i] = replies[i]
           /\ Len(toClient) \in Nat /\ Len(replies) \in Nat
<1>0. /\ toClient \in Seq(Answers) /\ ackSub \in BOOLEAN
      /\ Len(toClient) \in Nat /\ Len(replies) \in Nat
    BY LenProperties DEF IInv, Types, CallerTypes, OtherTypes
<1>1. CASE ~ackSub
    BY <1>0, <1>1 DEF Answer
<1>2. CASE ackSub
    <2>1. toClient' = toClient \o replies
        BY <1>2 DEF Answer
    <2>2. /\ Len(toClient') = Len(toClient) + Len(replies)
          /\ \A k \in 1 .. Len(toClient) : toClient'[k] = toClient[k]
          /\ \A k \in Len(toClient) + 1 .. Len(toClient') :
                /\ toClient'[k] = replies[k - Len(toClient)]
                /\ k - Len(toClient) \in 1 .. Len(replies)
        BY <1>0, <2>1, ConcatProperties
    <2>3. ASSUME NEW k \in 1 .. Len(toClient')
          PROVE  \/ k \in 1 .. Len(toClient) /\ toClient'[k] = toClient[k]
                 \/ \E i \in 1 .. Len(replies) :
                       k = Len(toClient) + i /\ toClient'[k] = replies[i]
        <3>1. CASE k \in 1 .. Len(toClient)
            BY <2>2, <3>1
        <3>2. CASE k \notin 1 .. Len(toClient)
            <4>1. /\ k \in Len(toClient) + 1 .. Len(toClient')
                  /\ k = Len(toClient) + (k - Len(toClient))
                BY <1>0, <2>2, <3>2
            <4> QED
                BY <2>2, <4>1
        <3> QED
            BY <3>1, <3>2
    <2>4. ASSUME NEW i \in 1 .. Len(replies)
          PROVE  /\ Len(toClient) + i \in 1 .. Len(toClient')
                 /\ toClient'[Len(toClient) + i] = replies[i]
        <3>1. /\ Len(toClient) + i \in Len(toClient) + 1 .. Len(toClient')
              /\ Len(toClient) + i \in 1 .. Len(toClient')
              /\ (Len(toClient) + i) - Len(toClient) = i
            BY <1>0, <2>2
        <3>2. toClient'[Len(toClient) + i] = replies[(Len(toClient) + i) - Len(toClient)]
            BY <2>2, <3>1
        <3> QED
            BY <3>1, <3>2
    <2>5. \A k \in 1 .. Len(toClient) : k \in 1 .. Len(toClient')
        BY <1>0, <2>2
    <2> QED
        BY <1>0, <1>2, <2>1, <2>2, <2>3, <2>4, <2>5
<1> QED
    BY <1>0, <1>1, <1>2

\* The server comes to a request: with the one that stalls, or one of its pings,
\* it answers with an ack that helps, or says that what it said before does.
LEMMA ServeRecovers == IInv /\ Recovery /\ Serve => Recovery'
<1> SUFFICES ASSUME IInv, Recovery, Serve PROVE Recovery'
    OBVIOUS
<1> DEFINE msg == Head(toServer)
<1>0. /\ sequence \in Nat /\ pings \in Nat /\ lost \in Nat
      /\ acked \in Nat /\ every \in 1 .. Flow
      /\ toServer \in Seq(Requests) /\ toClient \in Seq(Answers)
      /\ closed \in BOOLEAN /\ ackSub \in BOOLEAN
      /\ batch \in {"none", "open", "ended"}
    BY FastAssumption DEF IInv, Types, CallerTypes, OtherTypes
<1>1. /\ toServer # <<>> /\ toServer' = Tail(toServer)
      /\ UNCHANGED <<pc, sequence, closed, ackSub, stallCh, pings, ackSequence, flow,
                     firstAckCh, firstAck, lost>>
    BY DEF Serve, handler
<1>2. msg = toServer[1] /\ 1 \in 1 .. Len(toServer)
    BY <1>0, <1>1, LenProperties, EmptySeq
<1>3. msg.seq \in 1 .. sequence
    BY <1>2 DEF IInv, RequestsOK
<1>4. PICK replies : Replied(msg, replies)
    BY ServeReplied
<1> HIDE DEF msg
<1>5. replies \in Seq(Answers) /\ Answer(replies)
    BY <1>4 DEF Replied
<1>6. /\ \A k \in 1 .. Len(toServer') : toServer'[k].op # "start"
      /\ Asking'
      /\ Cardinality(AtSeq(toServer', sequence)) \in Nat
      /\ Cardinality(AtSeq(toServer, sequence)) =
            Cardinality(AtSeq(toServer', sequence)) + IF msg.seq = sequence THEN 1 ELSE 0
    BY <1>1, RequestGone DEF Recovery, msg
<1>7. sequence # 0
    BY <1>0, <1>3
<1>8. Begun'
    BY <1>1, <1>6, <1>7 DEF Recovery, Begun
<1>9. \/ batch' = "ended"
      \/ batch' = "open" /\ batch = "open"
      \/ /\ batch' = "open" /\ batch = "none" /\ msg.op = "start"
    BY <1>4 DEF Replied
<1>10. batch' = "open" => stallCh # "nil" /\ (ackSub \/ closed)
    BY <1>2, <1>9 DEF Recovery, Begun, Opened
<1>11. pc = "stalled" /\ batch' = "open" => batch = "open" /\ ~closed /\ ackSub
    <2>1. batch = "open" => (pc = "stalled" => ~closed) /\ (ackSub \/ closed)
        BY DEF Recovery, Opened
    <2>2. msg.op = "start" /\ batch = "none" => ~(pc = "stalled")
        BY <1>2 DEF Recovery, Begun, Opened
    <2> QED
        BY <1>9, <2>1, <2>2
<1>12. Opened'
    <2>1. ASSUME NEW k \in 1 .. Len(toClient')
          PROVE  /\ toClient'[k].type = "ack" => stallCh # "nil"
                 /\ toClient'[k].type \in Response => batch' = "ended"
        <3>1. CASE k \in 1 .. Len(toClient) /\ toClient'[k] = toClient[k]
            BY <1>9, <3>1 DEF Recovery, Opened
        <3>2. CASE \E i \in 1 .. Len(replies) : toClient'[k] = replies[i]
            <4>1. PICK i \in 1 .. Len(replies) : toClient'[k] = replies[i]
                BY <3>2
            <4>2. replies[i].type = "ack" => batch' = "open"
                BY <1>4 DEF Replied
            <4>3. replies[i].type \in Response => batch' = "ended"
                BY <1>4 DEF Replied, Response
            <4> QED
                BY <1>10, <4>1, <4>2, <4>3
        <3> QED
            BY <1>5, <3>1, <3>2, AnswersJoined
    <2>2. pc = "stalled" /\ closed => batch' = "ended"
        BY <1>9, <1>11
    <2> QED
        BY <1>1, <1>10, <2>1, <2>2 DEF Opened
<1>13. Signalled'
    BY <1>1 DEF Recovery, Signalled
<1>14. ackSub =>
          /\ toClient' = toClient \o replies
          /\ Len(toClient') = Len(toClient) + Len(replies)
          /\ \A k \in 1 .. Len(toClient) :
                k \in 1 .. Len(toClient') /\ toClient'[k] = toClient[k]
          /\ \A i \in 1 .. Len(replies) :
                /\ Len(toClient) + i \in 1 .. Len(toClient')
                /\ toClient'[Len(toClient) + i] = replies[i]
    BY <1>5, AnswersJoined
<1>15. /\ \A k \in 1 .. Len(toClient') :
             \/ k \in 1 .. Len(toClient) /\ toClient'[k] = toClient[k]
             \/ \E i \in 1 .. Len(replies) :
                   k = Len(toClient) + i /\ toClient'[k] = replies[i]
       /\ Len(toClient) \in Nat /\ Len(replies) \in Nat
    BY <1>5, AnswersJoined
<1>16. Informed'
    <2> SUFFICES ASSUME batch' = "open", ~closed, ~(lost > 0)
                 PROVE  \/ /\ ackSequence = acked' /\ flow = every'
                           /\ \A k \in 1 .. Len(toClient') : toClient'[k].type # "ack"
                        \/ \E k \in 1 .. Len(toClient') :
                              /\ toClient'[k].type = "ack"
                              /\ toClient'[k].seq = acked' /\ toClient'[k].msgs = every'
                              /\ \A j \in 1 .. Len(toClient') :
                                    k < j => toClient'[j].type # "ack"
        BY <1>1 DEF Informed
    <2>0. ackSub
        BY <1>10
    <2>1. CASE replies # <<>> /\ replies[Len(replies)] = AckMsg(acked', every')
               /\ acked' \in Nat /\ every' \in 1 .. Flow
        <3>1. Len(replies) \in 1 .. Len(replies)
            BY <1>5, <1>15, <2>1, EmptySeq
        <3>2. /\ Len(toClient) + Len(replies) \in 1 .. Len(toClient')
              /\ toClient'[Len(toClient) + Len(replies)] = AckMsg(acked', every')
            BY <1>14, <2>0, <2>1, <3>1
        <3>3. \A j \in 1 .. Len(toClient') : ~(Len(toClient) + Len(replies) < j)
            BY <1>14, <1>15, <2>0
        <3> QED
            BY <3>2, <3>3 DEF AckMsg
    <2>2. CASE /\ batch = "open" /\ UNCHANGED <<acked, every>>
               /\ \A k \in 1 .. Len(replies) : replies[k].type = "gap"
        <3>1. CASE /\ ackSequence = acked /\ flow = every
                   /\ \A k \in 1 .. Len(toClient) : toClient[k].type # "ack"
            BY <1>15, <2>2, <3>1
        <3>2. CASE \E k \in 1 .. Len(toClient) :
                      /\ toClient[k].type = "ack"
                      /\ toClient[k].seq = acked /\ toClient[k].msgs = every
                      /\ \A j \in 1 .. Len(toClient) : k < j => toClient[j].type # "ack"
            <4>1. PICK k \in 1 .. Len(toClient) :
                      /\ toClient[k].type = "ack"
                      /\ toClient[k].seq = acked /\ toClient[k].msgs = every
                      /\ \A j \in 1 .. Len(toClient) : k < j => toClient[j].type # "ack"
                BY <3>2
            <4>2. k \in 1 .. Len(toClient') /\ toClient'[k] = toClient[k]
                BY <1>14, <2>0
            <4>3. \A j \in 1 .. Len(toClient') : k < j => toClient'[j].type # "ack"
                BY <1>15, <2>2, <4>1
            <4> QED
                BY <2>2, <4>1, <4>2, <4>3
        <3> QED
            BY <2>2, <3>1, <3>2 DEF Recovery, Informed
    <2> QED
        BY <1>4, <2>1, <2>2 DEF Replied
<1>17. Recovers'
    <2> SUFFICES ASSUME pc = "stalled", batch' = "open", ~Settled'
                 PROVE  lost + Cardinality(AtSeq(toServer', sequence))
                             + Cardinality(Helpful(toClient', sequence)) > pings
        BY <1>1 DEF Recovers
    <2>0. batch = "open" /\ ~closed /\ ackSub
        BY <1>11
    <2>1. /\ toClient' = toClient \o replies
          /\ \A k \in 1 .. Len(toClient) :
                k \in 1 .. Len(toClient') /\ toClient'[k] = toClient[k]
        BY <1>14, <2>0
    <2>2. toClient' \in Seq(Answers)
        BY <1>0, <1>5, <2>1, ConcatProperties
    <2>3. IsFiniteSet(Helpful(toClient', sequence))
          /\ Cardinality(Helpful(toClient', sequence)) \in Nat
        BY <1>0, <2>2, HelpKnown
    <2>4. \/ /\ acked' = msg.seq /\ every' \in 1 .. Flow
             /\ replies # <<>> /\ replies[Len(replies)] = AckMsg(acked', every')
          \/ /\ msg.op = "add" /\ msg.seq < acked + every
             /\ \A k \in 1 .. Len(replies) : replies[k].type = "gap"
        BY <1>4, <2>0 DEF Replied
    <2> DEFINE asks == Cardinality(AtSeq(toServer, sequence))
               left == Cardinality(AtSeq(toServer', sequence))
               helps == Cardinality(Helpful(toClient, sequence))
               more == Cardinality(Helpful(toClient', sequence))
    <2>5. left \in Nat /\ asks = left + IF msg.seq = sequence THEN 1 ELSE 0
        BY <1>6
    <2>6. msg.op # "ping" \/ msg.seq < sequence => asks = pings + 1
        BY <1>2 DEF Recovery, Asking
    <2>7. more \in Nat
        BY <2>3
    <2> HIDE DEF asks, left, helps, more
    <2> SUFFICES lost + left + more > pings
        BY DEF left, more
    <2>8. CASE msg.seq < sequence
        BY <1>0, <1>3, <2>5, <2>6, <2>7, <2>8
    <2>9. CASE /\ msg.seq = sequence
               /\ acked' = msg.seq /\ every' \in 1 .. Flow
               /\ replies # <<>> /\ replies[Len(replies)] = AckMsg(acked', every')
        <3>1. AckMsg(acked', every').type = "ack"
            BY DEF AckMsg
        <3>2. \A k \in 1 .. Len(replies) : Enough(replies[k], sequence)
            <4> SUFFICES ASSUME NEW k \in 1 .. Len(replies), replies[k].type = "ack"
                         PROVE  ~waitForAck(replies[k].seq, replies[k].msgs, sequence)
                BY DEF Enough
            <4>1. replies[k] = AckMsg(sequence, every')
                BY <1>4, <2>9 DEF Replied
            <4>2. every' * MaxOutstandingAcks \in Nat \ {0}
                BY <2>9, LimitKnown
            <4> QED
                BY <1>0, <4>1, <4>2 DEF waitForAck, AckMsg
        <3>3. helps \in Nat /\ more >= helps + 1
            <4>1. replies # <<>> /\ replies[Len(replies)].type = "ack"
                BY <2>9, <3>1
            <4> QED
                BY <1>0, <1>5, <2>1, <3>2, <4>1, HelpSent DEF helps, more
        <3>4. ~Settled
            <4> SUFFICES ASSUME Settled PROVE Settled'
                OBVIOUS
            <4>1. \A k \in 1 .. Len(toClient') : Enough(toClient'[k], sequence)
                BY <1>15, <3>2 DEF Settled
            <4> QED
                BY <1>1, <4>1 DEF Settled
        <3>5. lost + asks + helps > pings
            BY <2>0, <3>4 DEF Recovery, Recovers, asks, helps
        <3> QED
            BY <1>0, <2>5, <2>7, <2>9, <3>3, <3>5
    <2>10. CASE /\ msg.seq = sequence
                /\ msg.op = "add" /\ msg.seq < acked + every
                /\ \A k \in 1 .. Len(replies) : replies[k].type = "gap"
        <3>1. left = pings
            BY <1>0, <2>5, <2>6, <2>10
        <3>2. ~waitForAck(acked, every, sequence)
            <4>1. every * MaxOutstandingAcks \in Nat /\ every <= every * MaxOutstandingAcks
                <5>1. every \in Nat /\ MaxOutstandingAcks \in Nat \ {0}
                    BY <1>0, FastAssumption
                <5> QED
                    BY <5>1
            <4>2. every \in Nat
                BY <1>0, FastAssumption
            <4> QED
                BY <1>0, <2>10, <4>1, <4>2 DEF waitForAck
        <3>3. CASE lost > 0
            BY <1>0, <2>7, <3>1, <3>3
        <3>4. CASE /\ ackSequence = acked /\ flow = every
                   /\ \A k \in 1 .. Len(toClient) : toClient[k].type # "ack"
            <4>1. \A k \in 1 .. Len(toClient') : Enough(toClient'[k], sequence)
                BY <1>15, <2>10, <3>4 DEF Enough
            <4> QED
                BY <1>1, <3>2, <3>4, <4>1 DEF Settled
        <3>5. CASE \E k \in 1 .. Len(toClient) :
                      /\ toClient[k].type = "ack"
                      /\ toClient[k].seq = acked /\ toClient[k].msgs = every
                      /\ \A j \in 1 .. Len(toClient) : k < j => toClient[j].type # "ack"
            <4>1. PICK k \in 1 .. Len(toClient) :
                      /\ toClient[k].type = "ack"
                      /\ toClient[k].seq = acked /\ toClient[k].msgs = every
                      /\ \A j \in 1 .. Len(toClient) : k < j => toClient[j].type # "ack"
                BY <3>5
            <4>2. ASSUME NEW j \in 1 .. Len(toClient'), k <= j
                  PROVE  Enough(toClient'[j], sequence)
                <5>1. CASE j \in 1 .. Len(toClient) /\ toClient'[j] = toClient[j]
                    <6>1. k < j \/ k = j
                        BY <4>2
                    <6> QED
                        BY <3>2, <4>1, <5>1, <6>1 DEF Enough
                <5>2. CASE \E i \in 1 .. Len(replies) : toClient'[j] = replies[i]
                    BY <2>10, <5>2 DEF Enough
                <5> QED
                    BY <1>15, <5>1, <5>2
            <4>3. k \in Helpful(toClient', sequence)
                BY <2>1, <4>1, <4>2 DEF Helpful
            <4>4. more # 0
                BY <2>3, <4>3, FS_EmptySet DEF more
            <4> QED
                BY <1>0, <2>7, <3>1, <4>4
        <3> QED
            BY <2>0, <3>3, <3>4, <3>5 DEF Recovery, Informed
    <2> QED
        BY <1>0, <1>3, <2>4, <2>8, <2>9, <2>10
<1> QED
    BY <1>6, <1>8, <1>12, <1>13, <1>16, <1>17 DEF Recovery

\* Every step keeps it.
LEMMA StepRecovers == IInv /\ Recovery /\ [Next]_vars => Recovery'
<1> SUFFICES ASSUME IInv, Recovery, [Next]_vars PROVE Recovery'
    OBVIOUS
<1>1. CASE UNCHANGED vars
    <2>1. /\ UNCHANGED <<pc, sequence, closed, ackSub, stallCh, pings, toServer,
                         toClient, handler, server, lost>>
        BY <1>1 DEF vars, world
    <2>2. UNCHANGED <<ackSequence, flow, firstAckCh, firstAck>>
        BY <2>1 DEF handler
    <2>3. Signalled' /\ (firstAckCh => pc = "first")
        BY <2>1, <2>2 DEF Recovery, Signalled, Begun
    <2> QED
        BY <2>1, <2>3, QuietRecovers
<1> QED
    BY <1>1, AddRecovers, FailureRecovers, CommitRecovers, PingRecovers,
       HandlerRecovers, ServeRecovers, LoseRecovers DEF Next

\* What may have happened to a stalled Add that times out.
LEMMA StallTimesOut ==
    IInv /\ Recovery /\ StallTimeout =>
        \/ toServer # <<>> \/ toClient # <<>> \/ stallCh = "full"
        \/ lost > MaxPings
        \/ batch # "open"
<1> SUFFICES ASSUME IInv, Recovery, StallTimeout,
                    toServer = <<>>, toClient = <<>>, stallCh # "full", batch = "open"
             PROVE  lost > MaxPings
    OBVIOUS
<1>0. sequence \in Nat /\ lost \in Nat /\ MaxPings \in Nat
    BY FastAssumption DEF IInv, Types, CallerTypes, OtherTypes
<1>1. pc = "stalled" /\ pings = MaxPings
    BY DEF StallTimeout
<1>2. ~Settled
    BY <1>1 DEF Recovery, Signalled, Settled
<1>3. Len(toServer) = 0 /\ Len(toClient) = 0
    BY EmptySeq
<1>4. AtSeq(toServer, sequence) = {} /\ Helpful(toClient, sequence) = {}
    BY <1>3 DEF AtSeq, Helpful
<1>5. /\ Cardinality(AtSeq(toServer, sequence)) = 0
      /\ Cardinality(Helpful(toClient, sequence)) = 0
    BY <1>4, FS_EmptySet
<1>6. lost + 0 + 0 > pings
    BY <1>1, <1>2, <1>5 DEF Recovery, Recovers
<1> QED
    BY <1>0, <1>1, <1>6

-----------------------------------------------------------------------------
(* What the stream holds of the messages: AckedLog.                        *)

\* A message that is stored is newer than what the server has come to, and than
\* all that is ahead of it.
Newer ==
    \A k \in 1 .. Len(toServer) : toServer[k].op # "ping" =>
        /\ last < toServer[k].seq
        /\ \A j \in 1 .. Len(toServer) : j < k => toServer[j].seq < toServer[k].seq

\* A commit under way is the last message.
CommitIsLast ==
    \A k \in 1 .. Len(toServer) :
        toServer[k].op \in {"commit", "eob"} => toServer[k].seq = sequence /\ Final

\* The batch is over, on both sides, and all that was added is stored.
Sealed ==
    /\ Final /\ batch = "ended"
    /\ gapOk \/ 1 .. sequence - 1 \subseteq persisted

\* The server's word that the batch is committed is with the caller, or near.
Said ==
    \/ outcome = "committed" \/ commitCh = "committed"
    \/ \E k \in 1 .. Len(toClient) : toClient[k].type = "committed"

LogOK == Newer /\ CommitIsLast /\ (Said => Sealed)

\* A step of the abstract log, or none.
Logged == [Log!Next]_(Log!vars)

LEMMA InitLogged == Init => LogOK /\ Log!Init
<1> SUFFICES ASSUME Init PROVE LogOK /\ Log!Init
    OBVIOUS
<1>1. Len(toServer) = 0 /\ Len(toClient) = 0
    BY EmptySeq DEF Init
<1>2. LogOK
    BY <1>1 DEF Init, LogOK, Newer, CommitIsLast, Said
<1>3. gapOk \in BOOLEAN /\ Final = FALSE
    BY FastAssumption DEF Init, Final
<1>4. (batch = "ended") = FALSE /\ (outcome = "committed") = FALSE
    BY DEF Init
<1>5. Log!Init
    BY <1>3, <1>4 DEF Init, Log!Init
<1> QED
    BY <1>2, <1>5

\* What the two have in common is told by what the caller has sent and stored.
LEMMA LogUnchanged ==
    ASSUME UNCHANGED <<gapOk, sequence, ackSequence, batch, persisted>>,
           Final' = Final, (outcome' = "committed") = (outcome = "committed")
    PROVE  Logged
BY DEF Logged, Log!vars

\* A step that sends and stores nothing: the caller may have ended, and may have
\* been told something.
LEMMA QuietLogged ==
    ASSUME IInv, LogOK, UNCHANGED <<gapOk, sequence, toServer, ackSequence, server>>,
           Final => Final', Said' => Said,
           outcome' = outcome \/ Final \/ outcome' # "committed"
    PROVE  LogOK' /\ Logged
<1>1. UNCHANGED <<batch, last, persisted>>
    BY DEF server
<1>2. Newer' /\ CommitIsLast'
    BY <1>1 DEF LogOK, Newer, CommitIsLast
<1>3. Sealed => Sealed'
    BY <1>1 DEF Sealed
<1>4. LogOK'
    BY <1>2, <1>3 DEF LogOK
<1>5. Final \in BOOLEAN /\ Final' \in BOOLEAN
    BY DEF Final
<1>6. CASE ~Final
    <2>1. outcome # "committed" /\ outcome' # "committed"
        BY <1>6 DEF LogOK, Said, Sealed
    <2>2. (outcome' = "committed") = (outcome = "committed")
        BY <2>1
    <2>3. CASE ~Final'
        <3>1. Final' = Final
            BY <1>5, <1>6, <2>3
        <3> QED
            BY <1>1, <1>4, <2>2, <3>1, LogUnchanged
    <2>4. CASE Final'
        <3>1. Final' = TRUE
            BY <1>5, <2>4
        <3>2. Log!GiveUp
            BY <1>1, <2>2, <3>1 DEF Log!GiveUp
        <3> QED
            BY <1>4, <3>2 DEF Logged, Log!Next
    <2> QED
        BY <2>3, <2>4
<1>7. CASE Final
    <2>1. Final' = Final
        BY <1>5, <1>7
    <2>2. CASE outcome' = "committed"
        <3>1. Sealed
            BY <2>2 DEF LogOK, Said
        <3>2. (outcome' = "committed") = TRUE /\ Final /\ batch = "ended"
            BY <2>2, <3>1 DEF Sealed
        <3>3. Log!Whole(sequence - 1)
            BY <3>1 DEF Sealed, Log!Whole
        <3>4. Log!Report
            BY <1>1, <2>1, <3>2, <3>3 DEF Log!Report
        <3> QED
            BY <1>4, <3>4 DEF Logged, Log!Next
    <2>3. CASE outcome' # "committed"
        <3>1. (outcome' = "committed") = FALSE
            BY <2>3
        <3>2. Log!Refuse
            BY <1>1, <2>1, <3>1 DEF Log!Refuse
        <3> QED
            BY <1>4, <3>2 DEF Logged, Log!Next
    <2> QED
        BY <2>2, <2>3
<1> QED
    BY <1>4, <1>6, <1>7

\* A request more: a ping, or a message with a sequence of its own.
LEMMA NewerSent ==
    ASSUME IInv, Newer, last' = last,
           NEW op \in {"start", "add", "ping", "commit", "eob"},
           \/ op = "ping" /\ sequence' = sequence
           \/ sequence' = sequence + 1,
           toServer' = Append(toServer, [op |-> op, seq |-> sequence'])
    PROVE  /\ Newer'
           /\ \A k \in 1 .. Len(toServer') :
                 \/ k \in 1 .. Len(toServer) /\ toServer'[k] = toServer[k]
                 \/ toServer'[k] = [op |-> op, seq |-> sequence']
<1> DEFINE new == [op |-> op, seq |-> sequence']
<1>0. /\ sequence \in Nat /\ sequence' \in Nat /\ last \in Nat /\ last <= sequence
      /\ toServer \in Seq(Requests) /\ Len(toServer) \in Nat
    BY FastAssumption, LenProperties
       DEF IInv, Types, CallerTypes, OtherTypes, Ordered
<1>1. new \in Requests /\ new.seq = sequence' /\ new.op = op
    BY <1>0, MessagesKnown
<1> HIDE DEF new
<1>2. toServer' = Append(toServer, new)
    BY DEF new
<1>3. /\ Len(toServer') = Len(toServer) + 1
      /\ \A k \in 1 .. Len(toServer) : toServer'[k] = toServer[k]
      /\ toServer'[Len(toServer) + 1] = new
    BY <1>0, <1>1, <1>2, AppendProperties
<1>4. \A k \in 1 .. Len(toServer') : k \in 1 .. Len(toServer) \/ k = Len(toServer) + 1
    BY <1>0, <1>3
<1>5. \A k \in 1 .. Len(toServer) : toServer[k].seq \in Nat /\ toServer[k].seq <= sequence
    BY <1>0 DEF IInv, RequestsOK
<1>6. Newer'
    <2> SUFFICES ASSUME NEW k \in 1 .. Len(toServer'), toServer'[k].op # "ping"
                 PROVE  /\ last < toServer'[k].seq
                        /\ \A j \in 1 .. Len(toServer') :
                              j < k => toServer'[j].seq < toServer'[k].seq
        BY DEF Newer
    <2>1. \A j \in 1 .. Len(toServer') : j < k => j \in 1 .. Len(toServer)
        BY <1>0, <1>3
    <2>2. CASE k \in 1 .. Len(toServer)
        BY <1>3, <2>1, <2>2 DEF Newer
    <2>3. CASE k = Len(toServer) + 1
        <3>1. sequence' = sequence + 1 /\ toServer'[k].seq = sequence'
            BY <1>1, <1>3, <2>3
        <3> QED
            BY <1>0, <1>3, <1>5, <2>1, <3>1
    <2> QED
        BY <1>4, <2>2, <2>3
<1> QED
    BY <1>3, <1>4, <1>6 DEF new

\* The caller sends a message, which may be its last.
LEMMA SendLogged ==
    ASSUME IInv, LogOK, ~Final, sequence' = sequence + 1,
           UNCHANGED <<gapOk, toClient, ackSequence, server>>,
           outcome' = outcome \/ outcome' # "committed",
           commitCh' = commitCh \/ commitCh' # "committed",
           \/ toServer' = toServer
           \/ \E op \in {"start", "add", "commit", "eob"} :
                 /\ toServer' = Append(toServer, [op |-> op, seq |-> sequence'])
                 /\ op \in {"commit", "eob"} => Final'
    PROVE  LogOK' /\ Logged
<1>1. UNCHANGED <<batch, last, persisted>>
    BY DEF server
<1>2. ~Said /\ ~Said' /\ \A k \in 1 .. Len(toServer) : toServer[k].op \notin {"commit", "eob"}
    BY DEF LogOK, Said, Sealed, CommitIsLast
<1>3. Newer' /\ CommitIsLast'
    <2>1. CASE toServer' = toServer
        BY <1>1, <1>2, <2>1 DEF LogOK, Newer, CommitIsLast
    <2>2. ASSUME NEW op \in {"start", "add", "commit", "eob"},
                 toServer' = Append(toServer, [op |-> op, seq |-> sequence']),
                 op \in {"commit", "eob"} => Final'
          PROVE  Newer' /\ CommitIsLast'
        <3>1. /\ Newer'
              /\ \A k \in 1 .. Len(toServer') :
                    \/ k \in 1 .. Len(toServer) /\ toServer'[k] = toServer[k]
                    \/ toServer'[k] = [op |-> op, seq |-> sequence']
            BY <1>1, <2>2, NewerSent DEF LogOK
        <3>2. CommitIsLast'
            BY <1>2, <2>2, <3>1 DEF CommitIsLast
        <3> QED
            BY <3>1, <3>2
    <2> QED
        BY <2>1, <2>2
<1>4. LogOK'
    BY <1>2, <1>3 DEF LogOK
<1>5. (outcome' = "committed") = (outcome = "committed") /\ Final' \in BOOLEAN
    BY <1>2 DEF Said, Final
<1>6. Log!Send
    BY <1>1, <1>5 DEF Log!Send
<1> QED
    BY <1>4, <1>6 DEF Logged, Log!Next


\* Add and AddMsg, the ends of the waits that are errors, and Commit.
LEMMA AddLogged == IInv /\ LogOK /\ (Refused \/ Add) => LogOK' /\ Logged
<1> SUFFICES ASSUME IInv, LogOK, Refused \/ Add PROVE LogOK' /\ Logged
    OBVIOUS
<1>0. sequence \in Nat
    BY FastAssumption DEF IInv, Types, CallerTypes
<1>1. CASE Refused
    <2>1. /\ pc = "idle" /\ pc' = "idle" /\ outcome' = "refused"
          /\ UNCHANGED <<gapOk, sequence, closed, commitCh, toServer, toClient,
                         ackSequence, server>>
        BY <1>1 DEF Refused, Return, handler
    <2>2. (Final => Final') /\ (Said' => Said)
        BY <2>1 DEF Final, Said
    <2> QED
        BY <2>1, <2>2, QuietLogged
<1>2. CASE FirstAcked \/ StallSignal
    <2>1. /\ pc \in {"first", "stalled"}
          /\ outcome' = outcome \/ outcome' = "added"
          /\ UNCHANGED <<gapOk, sequence, closed, commitCh, toServer, toClient,
                         ackSequence, server>>
        BY <1>2 DEF FirstAcked, StallSignal, Return, handler
    <2>2. ~Final /\ (Said' => Said)
        BY <2>1 DEF Final, Said
    <2> QED
        BY <2>1, <2>2, QuietLogged
<1>3. CASE AddFirst
    <2>1. /\ pc = "idle" /\ ~closed /\ sequence' = sequence + 1
          /\ UNCHANGED <<gapOk, toClient, ackSequence, server, commitCh>>
          /\ outcome' = outcome \/ outcome' = "failed"
          /\ \/ toServer' = toServer
             \/ toServer' = Append(toServer, [op |-> "start", seq |-> sequence'])
        BY <1>0, <1>3 DEF AddFirst, Send, Return
    <2>2. ~Final
        BY <2>1 DEF Final
    <2> QED
        BY <2>1, <2>2, SendLogged
<1>4. CASE AddNext
    <2>1. /\ pc = "idle" /\ ~closed /\ sequence' = sequence + 1
          /\ UNCHANGED <<gapOk, toClient, ackSequence, server, commitCh>>
          /\ outcome' = outcome \/ outcome' \in {"added", "failed"}
          /\ \/ toServer' = toServer
             \/ toServer' = Append(toServer, [op |-> "add", seq |-> sequence'])
        BY <1>4 DEF AddNext, Send, Return, handler
    <2>2. ~Final
        BY <2>1 DEF Final
    <2> QED
        BY <2>1, <2>2, SendLogged
<1> QED
    BY <1>1, <1>2, <1>3, <1>4 DEF Add

LEMMA FailureLogged ==
    IInv /\ LogOK /\ (Timeout \/ StallPingFails \/ CommitFails) => LogOK' /\ Logged
<1> SUFFICES ASSUME IInv, LogOK, Timeout \/ StallPingFails \/ CommitFails
             PROVE  LogOK' /\ Logged
    OBVIOUS
<1>1. CASE FirstTimeout
    <2>1. /\ pc = "first" /\ outcome' = "timeout" /\ toClient' = <<>>
          /\ UNCHANGED <<gapOk, sequence, commitCh, toServer, ackSequence, server>>
        BY <1>1 DEF FirstTimeout, Return, Unsubscribe
    <2>2. Len(toClient') = 0
        BY <2>1, EmptySeq
    <2>3. ~Final /\ (Said' => Said)
        BY <2>1, <2>2 DEF Final, Said
    <2> QED
        BY <2>1, <2>3, QuietLogged
<1>2. ASSUME StallTimeout \/ StallPingFails \/ CommitTimeout \/ CommitFails
      PROVE  LogOK' /\ Logged
    <2>1. /\ \/ pc = "stalled"
             \/ pc = "committing" /\ pc' = "ending"
          /\ outcome' \in {"timeout", "failed"}
          /\ UNCHANGED <<gapOk, sequence, commitCh, toServer, toClient, ackSequence,
                         server>>
        BY <1>2 DEF StallTimeout, StallPingFails, StallFails, CommitTimeout,
                    CommitFails, GiveUp, Return, handler
    <2>2. (Final => Final') /\ (Said' => Said)
        BY <2>1 DEF Final, Said
    <2> QED
        BY <2>1, <2>2, QuietLogged
<1> QED
    BY <1>1, <1>2 DEF Timeout

LEMMA CommitLogged == IInv /\ LogOK /\ Commit => LogOK' /\ Logged
<1> SUFFICES ASSUME IInv, LogOK, Commit PROVE LogOK' /\ Logged
    OBVIOUS
<1>0. toClient \in Seq(Answers) /\ blocked \in BOOLEAN
    BY DEF IInv, Types, CallerTypes, OtherTypes
<1>1. ASSUME NEW operation \in {"commit", "eob"}, CheckOpen(operation)
      PROVE  LogOK' /\ Logged
    <2>1. /\ pc = "idle" /\ ~closed
          /\ UNCHANGED <<gapOk, sequence, commitCh, outcome, toServer, toClient,
                         ackSequence, server>>
        BY <1>1 DEF CheckOpen, handler
    <2>2. ~Final /\ (Said' => Said)
        BY <2>1 DEF Final, Said
    <2> QED
        BY <2>1, <2>2, QuietLogged
<1>2. ASSUME NEW operation \in {"commit", "eob"}, PublishCommit(operation)
      PROVE  LogOK' /\ Logged
    <2>1. /\ pc = operation /\ sequence' = sequence + 1
          /\ UNCHANGED <<gapOk, toClient, ackSequence, server>>
          /\ outcome' = outcome \/ outcome' = "failed"
          /\ commitCh' = commitCh \/ commitCh' = "empty"
          /\ \/ toServer' = toServer
             \/ /\ toServer' = Append(toServer, [op |-> operation, seq |-> sequence'])
                /\ pc' = "committing"
        BY <1>2 DEF PublishCommit, Send, Return, handler
    <2>2. ~Final
        BY <1>2, <2>1 DEF Final
    <2>3. pc' = "committing" => Final'
        BY DEF Final
    <2> QED
        BY <1>2, <2>1, <2>2, <2>3, SendLogged
<1>3. CASE Committed
    <2>1. /\ pc = "committing" /\ pc' = "ending" /\ outcome' = commitCh
          /\ UNCHANGED <<gapOk, sequence, toServer, ackSequence, server>>
        BY <1>3 DEF Committed, handler
    <2>2. Final /\ Final'
        BY <2>1 DEF Final
    <2>3. Said' => Said
        <3>1. CASE blocked
            <4>1. commitCh' = Head(toClient).type /\ toClient' = <<>>
                BY <1>3, <3>1 DEF Committed, Unsubscribe
            <4>2. Head(toClient) = toClient[1] /\ 1 \in 1 .. Len(toClient)
                <5>1. toClient # <<>>
                    BY <3>1 DEF IInv, AnswersOK
                <5> QED
                    BY <1>0, <5>1, LenProperties, EmptySeq
            <4>3. Len(toClient') = 0
                BY <4>1, EmptySeq
            <4> QED
                BY <2>1, <4>1, <4>2, <4>3 DEF Said
        <3>2. CASE ~blocked
            <4>1. commitCh' = "empty" /\ toClient' = toClient
                BY <1>3, <3>2 DEF Committed
            <4> QED
                BY <2>1, <4>1 DEF Said
        <3> QED
            BY <1>0, <3>1, <3>2
    <2> QED
        BY <2>1, <2>2, <2>3, QuietLogged
<1>4. CASE EndCommit
    <2>1. /\ pc' = "idle" /\ closed' = TRUE /\ toClient' = <<>>
          /\ UNCHANGED <<gapOk, sequence, commitCh, outcome, toServer, ackSequence, server>>
        BY <1>4 DEF EndCommit, Unsubscribe, handler
    <2>2. Len(toClient') = 0
        BY <2>1, EmptySeq
    <2>3. Final' /\ (Said' => Said)
        BY <2>1, <2>2 DEF Final, Said
    <2> QED
        BY <2>1, <2>3, QuietLogged
<1> QED
    BY <1>1, <1>2, <1>3, <1>4 DEF Commit

\* A ping repeats the sequence of the last message.
LEMMA PingLogged == IInv /\ LogOK /\ Ping => LogOK' /\ Logged
<1> SUFFICES ASSUME IInv, LogOK, Ping PROVE LogOK' /\ Logged
    OBVIOUS
<1>1. /\ UNCHANGED <<gapOk, pc, sequence, closed, commitCh, outcome, toClient,
                     ackSequence, batch, last, persisted>>
      /\ toServer' = Append(toServer, [op |-> "ping", seq |-> sequence'])
    BY DEF Ping, sendPing, handler, server
<1>2. /\ Newer'
      /\ \A k \in 1 .. Len(toServer') :
            \/ k \in 1 .. Len(toServer) /\ toServer'[k] = toServer[k]
            \/ toServer'[k] = [op |-> "ping", seq |-> sequence']
    BY <1>1, NewerSent DEF LogOK
<1>3. Final' = Final
    BY <1>1 DEF Final
<1>4. CommitIsLast'
    BY <1>1, <1>2, <1>3 DEF LogOK, CommitIsLast
<1>5. Said' => Sealed'
    BY <1>1, <1>3 DEF LogOK, Said, Sealed
<1>6. (outcome' = "committed") = (outcome = "committed")
    BY <1>1
<1>7. Logged
    BY <1>1, <1>3, <1>6, LogUnchanged
<1> QED
    BY <1>2, <1>4, <1>5, <1>7 DEF LogOK

\* ackMsgHandler: an ack is true and is not taken back; the end of the batch may
\* be that of the caller, too.
LEMMA HandlerLogged == IInv /\ LogOK /\ ackMsgHandler => LogOK' /\ Logged
<1> SUFFICES ASSUME IInv, LogOK, ackMsgHandler PROVE LogOK' /\ Logged
    OBVIOUS
<1> DEFINE msg == Head(toClient)
<1>0. /\ toClient \in Seq(Answers) /\ sequence \in Nat /\ last \in Nat
      /\ ackSequence \in Nat /\ closed \in BOOLEAN
    BY FastAssumption DEF IInv, Types, CallerTypes, OtherTypes
<1>1. /\ toClient # <<>>
      /\ UNCHANGED <<gapOk, pc, sequence, outcome, toServer, server>>
    BY DEF ackMsgHandler
<1>2. /\ msg = toClient[1] /\ 1 \in 1 .. Len(toClient)
      /\ toClient' = Tail(toClient) =>
            \A k \in 1 .. Len(toClient') :
                toClient'[k] = toClient[k + 1] /\ k + 1 \in 1 .. Len(toClient)
    BY <1>0, <1>1, AnswerGone, LenProperties, EmptySeq
<1> HIDE DEF msg
<1>3. ASSUME msg.type = "ack", ackSequence' = msg.seq, toClient' = Tail(toClient),
             UNCHANGED <<closed, commitCh>>
      PROVE  LogOK' /\ Logged
    <2>1. UNCHANGED <<batch, last, persisted>>
        BY <1>1 DEF server
    <2>2. Final' = Final
        BY <1>1, <1>3 DEF Final
    <2>3. LogOK'
        <3>1. Said' => Said
            BY <1>1, <1>2, <1>3 DEF Said
        <3> QED
            BY <1>1, <2>1, <2>2, <3>1 DEF LogOK, Newer, CommitIsLast, Sealed
    <2>4. /\ msg.seq \in 1 .. last /\ ackSequence <= msg.seq
          /\ ~gapOk => 1 .. msg.seq \subseteq persisted
        BY <1>2, <1>3 DEF IInv, AnswersOK, AckOK
    <2>5. msg.seq \in 1 .. sequence
        BY <1>0, <2>4 DEF IInv, Ordered
    <2>6. Log!Acknowledge(msg.seq)
        <3>1. Log!Whole(msg.seq)
            BY <2>4 DEF Log!Whole
        <3>2. (outcome' = "committed") = (outcome = "committed")
            BY <1>1
        <3> QED
            BY <1>1, <1>3, <2>1, <2>2, <2>4, <3>1, <3>2 DEF Log!Acknowledge
    <2>7. Logged
        BY <2>5, <2>6 DEF Logged, Log!Next
    <2> QED
        BY <2>3, <2>7
<1>4. ASSUME msg.type = "gap", ackSequence' = ackSequence, toClient' = Tail(toClient),
             UNCHANGED <<closed, commitCh>>
      PROVE  LogOK' /\ Logged
    <2>1. (Final => Final') /\ (Said' => Said)
        BY <1>1, <1>2, <1>4 DEF Final, Said
    <2> QED
        BY <1>1, <1>4, <2>1, QuietLogged
<1>5. ASSUME EndOfBatch(msg.type), ackSequence' = ackSequence
      PROVE  LogOK' /\ Logged
    <2>1. closed' = TRUE
        BY <1>5 DEF EndOfBatch
    <2>2. /\ commitCh' = commitCh \/ commitCh' = "nil" \/ commitCh' = msg.type
          /\ toClient' = toClient \/ (toClient' = <<>>)
        BY <1>5 DEF EndOfBatch, Unsubscribe
    <2>3. Final => Final'
        BY <1>1, <2>1 DEF Final
    <2>4. Said' => Said
        <3>1. toClient' = <<>> => Len(toClient') = 0
            BY EmptySeq
        <3> QED
            BY <1>1, <1>2, <2>2, <3>1 DEF Said
    <2> QED
        BY <1>1, <1>5, <2>3, <2>4, QuietLogged
<1> QED
    BY <1>3, <1>4, <1>5 DEF ackMsgHandler, FlowAck, handler, msg

\* A request leaves, and the server is at most where it led.
LEMMA NewerTaken ==
    ASSUME IInv, Newer, CommitIsLast, toServer # <<>>, toServer' = Tail(toServer),
           UNCHANGED <<pc, closed, sequence>>,
           last' = last \/ (last' \in Nat /\ last' <= Head(toServer).seq)
    PROVE  Newer' /\ CommitIsLast' /\ Final' = Final
<1>0. toServer \in Seq(Requests) /\ sequence \in Nat /\ last \in Nat
    BY FastAssumption DEF IInv, Types, CallerTypes, OtherTypes
<1>1. Len(toServer) \in Nat \ {0} /\ Head(toServer) = toServer[1]
    BY <1>0, LenProperties, EmptySeq
<1>2. /\ Len(toServer') = Len(toServer) - 1
      /\ \A k \in 1 .. Len(toServer') :
            toServer'[k] = toServer[k + 1] /\ k + 1 \in 1 .. Len(toServer) /\ 1 < k + 1
    BY <1>0, <1>1, HeadTailProperties
<1>3. \A k \in 1 .. Len(toServer) : toServer[k].seq \in Nat
    BY <1>0 DEF IInv, RequestsOK
<1>4. Final' = Final
    BY DEF Final
<1>5. CommitIsLast'
    BY <1>2, <1>4 DEF CommitIsLast
<1>6. Newer'
    <2> SUFFICES ASSUME NEW k \in 1 .. Len(toServer'), toServer'[k].op # "ping"
                 PROVE  /\ last' < toServer'[k].seq
                        /\ \A j \in 1 .. Len(toServer') :
                              j < k => toServer'[j].seq < toServer'[k].seq
        BY DEF Newer
    <2>1. /\ last < toServer[k + 1].seq
          /\ \A j \in 1 .. Len(toServer) : j < k + 1 => toServer[j].seq < toServer[k + 1].seq
        BY <1>2 DEF Newer
    <2>2. toServer[1].seq < toServer[k + 1].seq /\ 1 \in 1 .. Len(toServer)
        BY <1>1, <1>2, <2>1
    <2>3. last' < toServer[k + 1].seq
        BY <1>0, <1>1, <1>2, <1>3, <2>1, <2>2
    <2>4. \A j \in 1 .. Len(toServer') : j < k => j + 1 < k + 1
        OBVIOUS
    <2> QED
        BY <1>2, <2>1, <2>3, <2>4
<1> QED
    BY <1>4, <1>5, <1>6

\* A message lost is neither stored nor told.
LEMMA LoseLogged == IInv /\ LogOK /\ Lose => LogOK' /\ Logged
<1> SUFFICES ASSUME IInv, LogOK, Lose PROVE LogOK' /\ Logged
    OBVIOUS
<1>1. UNCHANGED <<gapOk, pc, sequence, closed, commitCh, outcome, ackSequence,
                  batch, last, persisted, server>>
    BY DEF Lose, handler, server
<1>2. CASE toServer # <<>> /\ toServer' = Tail(toServer) /\ UNCHANGED toClient
    <2>1. Newer' /\ CommitIsLast' /\ Final' = Final
        BY <1>1, <1>2, NewerTaken DEF LogOK
    <2>2. LogOK'
        BY <1>1, <1>2, <2>1 DEF LogOK, Said, Sealed
    <2>3. (outcome' = "committed") = (outcome = "committed")
        BY <1>1
    <2> QED
        BY <1>1, <2>1, <2>2, <2>3, LogUnchanged
<1>3. CASE toClient # <<>> /\ toClient' = Tail(toClient) /\ UNCHANGED toServer
    <2>1. \A k \in 1 .. Len(toClient') :
              toClient'[k] = toClient[k + 1] /\ k + 1 \in 1 .. Len(toClient)
        BY <1>3, AnswerGone
    <2>2. (Final => Final') /\ (Said' => Said)
        BY <1>1, <2>1 DEF Final, Said
    <2> QED
        BY <1>1, <1>3, <2>2, QuietLogged
<1> QED
    BY <1>2, <1>3 DEF Lose


\* What the server does to the log with one message: nothing, or store one that
\* is newer than all it has, and next after them if gaps end the batch.
Kept == persisted' = persisted /\ (batch = "ended" => batch' = "ended")

StoredNext(n) ==
    /\ batch # "ended" /\ n \in 1 .. sequence
    /\ persisted' = persisted \cup {n} /\ persisted \subseteq 1 .. n - 1
    /\ gapOk \/ 1 .. n - 1 \subseteq persisted

\* What it answers: that the batch is committed only if it is.
Truthful(replies) ==
    /\ replies \in Seq(Answers) /\ Answer(replies)
    /\ \A k \in 1 .. Len(replies) : replies[k].type = "committed" => Sealed'

\* An answer after a notice.
LEMMA EndTruthful ==
    ASSUME NEW response \in Response, NEW notice \in Notices, End(response, notice),
           response = "committed" => Sealed'
    PROVE  \E replies : Truthful(replies)
<1> DEFINE replies == notice \o <<EndMsg(response)>>
<1>1. EndMsg(response) \in Answers /\ EndMsg(response).type = response
    BY MessagesKnown
<1>2. /\ replies \in Seq(Answers)
      /\ \A k \in 1 .. Len(replies) :
            replies[k].type = "gap" \/ replies[k] = EndMsg(response)
    BY <1>1, NoticeKnown
<1>3. Answer(replies)
    BY DEF End
<1> HIDE DEF replies
<1>4. Truthful(replies)
    BY <1>1, <1>2, <1>3 DEF Truthful
<1> QED
    BY <1>4

LEMMA AckTruthful ==
    ASSUME NEW seq \in Nat, NEW notice \in Notices, SendAck(seq, notice), Flow \in Nat
    PROVE  \E replies : Truthful(replies)
<1> DEFINE replies == notice \o <<AckMsg(seq, every')>>
<1>1. every' \in 1 .. Flow /\ Answer(replies)
    BY DEF SendAck
<1>2. AckMsg(seq, every') \in Answers /\ AckMsg(seq, every').type = "ack"
    BY <1>1, MessagesKnown
<1>3. /\ replies \in Seq(Answers)
      /\ \A k \in 1 .. Len(replies) :
            replies[k].type = "gap" \/ replies[k] = AckMsg(seq, every')
    BY <1>2, NoticeKnown
<1> HIDE DEF replies
<1>4. Truthful(replies)
    BY <1>1, <1>2, <1>3 DEF Truthful
<1> QED
    BY <1>4

\* What the server may make of its next message, on the way to the caller.
ServedLog(seq) ==
    /\ last' = last \/ (last' \in Nat /\ last' <= seq)
    /\ Kept \/ \E n \in 1 .. sequence : StoredNext(n)
    /\ \E replies : Truthful(replies)

LEMMA TakeLogged ==
    ASSUME IInv, batch = "open", NEW op, NEW seq \in 1 .. sequence, Take(op, seq),
           op # "ping" => last < seq,
           op \in {"commit", "eob"} => seq = sequence /\ Final,
           UNCHANGED <<gapOk, pc, closed, sequence>>
    PROVE  ServedLog(seq)
<1>0. /\ sequence \in Nat /\ last \in Nat /\ seq \in Nat \ {0} /\ Flow \in Nat
      /\ gapOk \in BOOLEAN
      /\ persisted \subseteq 1 .. last
      /\ ~gapOk => 1 .. last \subseteq persisted
    BY FastAssumption DEF IInv, Types, CallerTypes, OtherTypes, Stored
<1> DEFINE missing == seq > IF op = "ping" THEN last ELSE last + 1
           notice  == IF missing THEN <<GapMsg>> ELSE <<>>
<1>1. notice \in Notices
    BY DEF Notices
<1>2. CASE missing /\ ~gapOk
    <2>1. End("failed", notice) /\ UNCHANGED <<last, persisted>>
        BY <1>2 DEF Take
    <2> HIDE DEF notice
    <2>2. \E replies : Truthful(replies)
        BY <1>1, <2>1, EndTruthful DEF Response
    <2> QED
        BY <2>1, <2>2 DEF ServedLog, Kept, End
<1>3. CASE ~(missing /\ ~gapOk)
    <2>1. /\ last' = seq
          /\ persisted' = IF op \in {"add", "commit"}
                          THEN persisted \cup {seq} ELSE persisted
          /\ \/ op \in {"commit", "eob"} /\ End("committed", notice)
             \/ op \in {"add", "ping"} /\ SendAck(seq, notice)
             \/ op = "add" /\ Answer(notice)
        BY <1>3 DEF Take
    <2>2. op # "ping" => /\ 1 .. last \subseteq 1 .. seq - 1
                         /\ gapOk \/ 1 .. seq - 1 \subseteq 1 .. last
        BY <1>0, <1>3
    <2> HIDE DEF notice
    <2>3. Kept \/ StoredNext(seq)
        <3>1. CASE op \in {"add", "commit"}
            <4>1. persisted' = persisted \cup {seq} /\ persisted \subseteq 1 .. seq - 1
                BY <1>0, <2>1, <2>2, <3>1
            <4>2. gapOk \/ 1 .. seq - 1 \subseteq persisted
                BY <1>0, <2>2, <3>1
            <4> QED
                BY <4>1, <4>2 DEF StoredNext
        <3>2. CASE op \notin {"add", "commit"}
            BY <2>1, <3>2 DEF Kept
        <3> QED
            BY <3>1, <3>2
    <2>4. \E replies : Truthful(replies)
        <3>1. CASE op \in {"commit", "eob"} /\ End("committed", notice)
            <4>1. Final' /\ batch' = "ended" /\ seq = sequence
                BY <3>1 DEF End, Final
            <4>2. gapOk \/ 1 .. seq - 1 \subseteq persisted'
                BY <1>0, <2>1, <2>2, <3>1
            <4>3. Sealed'
                BY <4>1, <4>2 DEF Sealed
            <4> QED
                BY <1>1, <3>1, <4>3, EndTruthful DEF Response
        <3>2. CASE SendAck(seq, notice)
            BY <1>0, <1>1, <3>2, AckTruthful
        <3>3. CASE Answer(notice)
            <4>1. notice \in Seq(Answers) /\ \A k \in 1 .. Len(notice) : notice[k].type = "gap"
                BY <1>1, NoticeKnown
            <4>2. Truthful(notice)
                BY <3>3, <4>1 DEF Truthful
            <4> QED
                BY <4>2
        <3> QED
            BY <2>1, <3>1, <3>2, <3>3
    <2> QED
        BY <1>0, <2>1, <2>3, <2>4 DEF ServedLog
<1> QED
    BY <1>2, <1>3

LEMMA OpenLogged ==
    ASSUME IInv, batch # "open", NEW op, NEW seq \in 1 .. sequence, Open(op, seq),
           op \in {"commit", "eob"} => seq = sequence /\ Final,
           UNCHANGED <<gapOk, pc, closed, sequence>>
    PROVE  ServedLog(seq)
<1>0. /\ sequence \in Nat /\ last \in Nat /\ seq \in Nat \ {0} /\ Flow \in Nat
      /\ persisted \subseteq 1 .. last
      /\ batch = "none" => last = 0
    BY FastAssumption DEF IInv, Types, CallerTypes, OtherTypes, Ordered, Stored
<1>1. <<>> \in Notices
    BY DEF Notices
<1>2. ASSUME batch = "none", last' = 1, persisted' = {1}
      PROVE  StoredNext(1) /\ 1 \in 1 .. sequence /\ 1 <= seq
    <2>1. persisted = {} /\ 1 .. 1 - 1 = {}
        BY <1>0, <1>2
    <2> QED
        BY <1>0, <1>2, <2>1 DEF StoredNext
<1>3. CASE op = "start" /\ batch = "none" /\ last' = 1 /\ persisted' = {1} /\ SendAck(1, <<>>)
    BY <1>0, <1>1, <1>2, <1>3, AckTruthful DEF ServedLog
<1>4. CASE /\ op = "commit" /\ seq = 1 /\ batch = "none"
           /\ last' = 1 /\ persisted' = {1} /\ End("committed", <<>>)
    <2>1. Final' /\ batch' = "ended" /\ sequence' - 1 = 0
        BY <1>4 DEF End, Final
    <2>2. Sealed'
        BY <2>1 DEF Sealed
    <2>3. \E replies : Truthful(replies)
        BY <1>1, <1>4, <2>2, EndTruthful DEF Response
    <2> QED
        BY <1>0, <1>2, <1>4, <2>3 DEF ServedLog
<1>5. CASE End("failed", <<>>) /\ UNCHANGED <<last, persisted>>
    <2>1. \E replies : Truthful(replies)
        BY <1>1, <1>5, EndTruthful DEF Response
    <2> QED
        BY <1>5, <2>1 DEF ServedLog, Kept, End
<1> QED
    BY <1>3, <1>4, <1>5 DEF Open

LEMMA ServeLogged == IInv /\ LogOK /\ Serve => LogOK' /\ Logged
<1> SUFFICES ASSUME IInv, LogOK, Serve PROVE LogOK' /\ Logged
    OBVIOUS
<1> DEFINE msg == Head(toServer)
<1>0. toServer \in Seq(Requests) /\ sequence \in Nat
    BY FastAssumption DEF IInv, Types, CallerTypes, OtherTypes
<1>1. /\ toServer # <<>> /\ toServer' = Tail(toServer)
      /\ IF batch = "open" THEN Take(msg.op, msg.seq) ELSE Open(msg.op, msg.seq)
      /\ UNCHANGED <<gapOk, pc, sequence, closed, commitCh, outcome, ackSequence>>
    BY DEF Serve, handler
<1>2. msg = toServer[1] /\ 1 \in 1 .. Len(toServer)
    BY <1>0, <1>1, LenProperties, EmptySeq
<1>3. /\ msg.seq \in 1 .. sequence
      /\ msg.op # "ping" => last < msg.seq
      /\ msg.op \in {"commit", "eob"} => msg.seq = sequence /\ Final
    BY <1>2 DEF IInv, RequestsOK, LogOK, Newer, CommitIsLast
<1> HIDE DEF msg
<1>4. ServedLog(msg.seq)
    BY <1>1, <1>3, TakeLogged, OpenLogged
<1>5. Newer' /\ CommitIsLast' /\ Final' = Final
    BY <1>1, <1>4, NewerTaken DEF LogOK, ServedLog, msg
<1>6. Sealed => Sealed'
    BY <1>1, <1>4, <1>5 DEF Sealed, ServedLog, Kept, StoredNext
<1>7. Said' => Sealed'
    <2>1. PICK replies : Truthful(replies)
        BY <1>4 DEF ServedLog
    <2>2. \A k \in 1 .. Len(toClient') :
              \/ k \in 1 .. Len(toClient) /\ toClient'[k] = toClient[k]
              \/ \E i \in 1 .. Len(replies) : toClient'[k] = replies[i]
        BY <2>1, AnswersJoined DEF Truthful
    <2>3. Said' => Said \/ Sealed'
        BY <1>1, <2>1, <2>2 DEF Said, Truthful
    <2> QED
        BY <1>6, <2>3 DEF LogOK
<1>8. (outcome' = "committed") = (outcome = "committed")
    BY <1>1
<1>9. Logged
    <2>1. CASE Kept /\ batch = "ended"
        <3>1. (batch' = "ended") = (batch = "ended") /\ persisted' = persisted
            BY <2>1 DEF Kept
        <3> QED
            BY <1>1, <1>5, <1>8, <3>1 DEF Logged, Log!vars
    <2>2. CASE Kept /\ batch # "ended"
        <3>1. CASE batch' = "ended"
            <4>1. (batch' = "ended") = TRUE
                BY <3>1
            <4>2. Log!End
                BY <1>1, <1>5, <1>8, <2>2, <4>1 DEF Log!End, Kept
            <4> QED
                BY <4>2 DEF Logged, Log!Next
        <3>2. CASE batch' # "ended"
            <4>1. (batch' = "ended") = (batch = "ended")
                BY <2>2, <3>2
            <4> QED
                BY <1>1, <1>5, <1>8, <2>2, <4>1 DEF Logged, Log!vars, Kept
        <3> QED
            BY <3>1, <3>2
    <2>3. ASSUME NEW n \in 1 .. sequence, StoredNext(n) PROVE Logged
        <3>1. Log!Whole(n - 1) /\ (batch' = "ended") \in BOOLEAN
            BY <2>3 DEF StoredNext, Log!Whole
        <3>2. Log!Store(n)
            BY <1>1, <1>5, <1>8, <2>3, <3>1 DEF Log!Store, StoredNext
        <3> QED
            BY <3>2 DEF Logged, Log!Next
    <2> QED
        BY <1>4, <2>1, <2>2, <2>3 DEF ServedLog
<1> QED
    BY <1>5, <1>7, <1>9 DEF LogOK

\* Every step is one of the log, or none.
LEMMA StepLogged == IInv /\ LogOK /\ [Next]_vars => LogOK' /\ Logged
<1> SUFFICES ASSUME IInv, LogOK, [Next]_vars PROVE LogOK' /\ Logged
    OBVIOUS
<1>1. CASE UNCHANGED vars
    <2>1. UNCHANGED <<gapOk, pc, sequence, closed, commitCh, outcome, toServer,
                      toClient, ackSequence, server>>
        BY <1>1 DEF vars, handler
    <2>2. (Final => Final') /\ (Said' => Said)
        BY <2>1 DEF Final, Said
    <2> QED
        BY <2>1, <2>2, QuietLogged
<1> QED
    BY <1>1, AddLogged, FailureLogged, CommitLogged, PingLogged, HandlerLogged,
       ServeLogged, LoseLogged DEF Next

-----------------------------------------------------------------------------
(* The theorems.                                                           *)

\* In every behaviour, for any flow, limit and bounds: requests and acks travel
\* in the order of their sequences, the server is between what is acknowledged
\* and what is sent, and an open batch without gaps is stored without a hole.
THEOREM FastInvariant == Spec => []IInv
BY InitSound, StepSound, PTL DEF Spec

\* The type invariant of FastPublisher.
THEOREM FastTypeCorrect == Spec => []TypeOK
<1>1. IInv => TypeOK
    <2> SUFFICES ASSUME IInv PROVE TypeOK
        OBVIOUS
    <2>1. {gapOk, closed, subject, ackSub, firstAckCh, blocked} \subseteq BOOLEAN
        BY Zenon DEF IInv, Types, CallerTypes, OtherTypes
    <2>2. {ackSequence, firstAck, last, acked} \subseteq 0 .. sequence
        BY FastAssumption DEF IInv, Types, CallerTypes, OtherTypes, Ordered
    <2>3. \A k \in 1 .. Len(toServer) : toServer[k].seq \in 1 .. sequence
        BY DEF IInv, RequestsOK
    <2>4. {flow, every} \subseteq 1 .. Flow
        BY DEF IInv, Types, OtherTypes
    <2> QED
        BY <2>1, <2>2, <2>3, <2>4
           DEF IInv, Types, CallerTypes, OtherTypes, Stored, AnswersOK, TypeOK
<1> QED
    BY <1>1, FastInvariant, PTL

\* What an Add returns as AckSequence is true: without gaps, all messages up to
\* it are stored, whatever is lost and however many calls fail.
THEOREM AcknowledgedIsStored == Spec => []AckedArePersisted
<1>1. IInv => AckedArePersisted
    BY DEF IInv, Stored, AckedArePersisted
<1> QED
    BY <1>1, FastInvariant, PTL

\* An Add that returns leaves fewer messages unacknowledged than the limit it
\* was given, whatever the flow the server asked for meanwhile.
THEOREM AddsAreBounded == Spec => []OutstandingBounded
<1>1. IInv => OutstandingBounded
    BY DEF IInv
<1> QED
    BY <1>1, FastInvariant, PTL

\* In every behaviour what stalls an Add is accounted for: each ping of the wait
\* and the message that stalls are on their way, or have an ack on its way with
\* which the Add goes on, or were lost.
THEOREM RecoveryInvariant == Spec => []Recovery
<1>1. Init => IInv /\ Recovery
    BY InitSound, InitRecovers
<1>2. IInv /\ Recovery /\ [Next]_vars => (IInv /\ Recovery)'
    BY StepSound, StepRecovers
<1>3. Spec => [](IInv /\ Recovery)
    BY <1>1, <1>2, PTL DEF Spec
<1> QED
    BY <1>3, PTL

\* "Periodic pings to recover lost acks": a stalled Add that times out with
\* nothing on its way has lost an ack and every ping, or their answers, unless
\* the server has no such batch, whatever flow it asks for.
THEOREM StalledAddsRecover == Spec => StallsRecover
<1> DEFINE Excused == \/ toServer # <<>> \/ toClient # <<>> \/ stallCh = "full"
                      \/ lost > MaxPings
                      \/ batch # "open"
<1>1. IInv /\ Recovery /\ [Next]_vars => [StallTimeout => Excused]_vars
    BY StallTimesOut
<1> HIDE DEF Excused
<1>2. Spec => [][StallTimeout => Excused]_vars
    BY <1>1, FastInvariant, RecoveryInvariant, PTL DEF Spec
<1> QED
    BY <1>2 DEF StallsRecover, Excused

\* A fast batch is a log of what the caller gave it: stored in order and once,
\* nothing after its end, acknowledged truthfully, and whole when its commit is
\* reported. Every step of the publisher, the server and the connection is a step
\* of AckedLog, or none.
THEOREM PublisherKeepsLog == Spec => ImplementsAckedLog
<1>1. Init => IInv /\ LogOK /\ Log!Init
    BY InitSound, InitLogged
<1>2. IInv /\ LogOK /\ [Next]_vars => (IInv /\ LogOK)' /\ [Log!Next]_(Log!vars)
    BY StepSound, StepLogged DEF Logged
<1> QED
    BY <1>1, <1>2, PTL DEF Spec, ImplementsAckedLog, Log!Spec
=============================================================================
