---------------------------- MODULE FastPublisher ----------------------------
(***************************************************************************)
(* jetstreamext's FastPublisher: one goroutine calls Add, Commit and Close *)
(* (the documentation allows only one), the subscription's goroutine runs  *)
(* ackMsgHandler, and fp.mu serialises what they do between two waits.     *)
(*                                                                         *)
(* The server, and the two directions of the connection, are modelled from *)
(* what the publisher sends and from what its comments say of the answers. *)
(* Messages keep their order; any of them may be lost.                     *)
(***************************************************************************)
EXTENDS Integers, Sequences, FiniteSets

CONSTANTS
    Flow,               \* opts.flow, the ack frequency asked for
    MaxOutstandingAcks, \* opts.maxOutstandingAcks
    ContinueOnGap,      \* the values of opts.continueOnGap to consider
    MaxPings,           \* pings of one wait: ackTimeout / 3 apart, so two
    Faults,             \* the calls that may fail
    MaxSequence,        \* bound on fp.sequence
    MaxLost,            \* bound on lost messages, both directions together
    MaxFaults           \* bound on failed calls

ASSUME FastAssumption ==
    /\ Flow \in Nat \ {0} /\ MaxOutstandingAcks \in Nat \ {0}
    /\ ContinueOnGap \subseteq BOOLEAN
    /\ Faults \subseteq {"subscribe", "publish", "ping", "cancel", "reject"}
    /\ MaxPings \in Nat /\ MaxSequence \in Nat
    /\ MaxLost \in Nat /\ MaxFaults \in Nat

VARIABLES
    gapOk,       \* opts.continueOnGap
    pc,          \* where the caller's goroutine is
    sequence, ackSequence, flow, closed,
    subject,     \* batchSubject is set
    ackSub,      \* ackSub is not nil
    firstAckCh,  \* fp.firstAckCh is not nil
    firstAck,    \* what the first Add finds in that channel, or 0
    stallCh,     \* "nil", "empty" or "full"
    commitCh,    \* "nil", "empty", or the response it holds
    blocked,     \* ackMsgHandler waits for room in commitCh, holding fp.mu
    pings,       \* pings sent during the present wait
    outcome,     \* what the last call returned
    toServer, toClient,
    batch,       \* the server's batch: "none", "open" or "ended"
    last,        \* the sequence the server has come to
    acked,       \* the sequence of its latest flow ack
    every,       \* the ack frequency it announced last
    persisted,   \* the sequences it has stored
    lost,        \* messages lost so far
    faults       \* calls failed so far

handler == <<ackSequence, flow, firstAckCh, firstAck>>
server  == <<batch, last, acked, every, persisted>>
world   == <<lost, faults>>
vars == <<gapOk, pc, sequence, closed, subject, ackSub, stallCh, commitCh,
          blocked, pings, outcome, toServer, toClient, handler, server, world>>

Response == {"committed", "failed"}

Init ==
    /\ gapOk \in ContinueOnGap
    /\ pc = "idle"
    /\ sequence = 0 /\ ackSequence = 0 /\ flow = Flow /\ closed = FALSE
    /\ subject = FALSE /\ ackSub = FALSE
    /\ firstAckCh = FALSE /\ firstAck = 0
    /\ stallCh = "nil" /\ commitCh = "nil"
    /\ blocked = FALSE /\ pings = 0 /\ outcome = "none"
    /\ toServer = <<>> /\ toClient = <<>>
    /\ batch = "none" /\ last = 0 /\ acked = 0 /\ every = Flow
    /\ persisted = {}
    /\ lost = 0 /\ faults = 0

Fault(kind) ==
    /\ kind \in Faults
    /\ faults < MaxFaults
    /\ faults' = faults + 1
    /\ UNCHANGED lost

Send(op) == toServer' = Append(toServer, [op |-> op, seq |-> sequence'])

Return(result) == pc' = "idle" /\ outcome' = result

\* Unsubscribe: whatever the subscription has not handed over is dropped.  (A
\* message whose handler waits for fp.mu by then is dropped here, too.)
Unsubscribe == ackSub' = FALSE /\ toClient' = <<>>

-----------------------------------------------------------------------------
(* Add and AddMsg.                                                         *)

\* Mutant of waitForAck: the test of the older code, one message too late.
waitForAckLate(ack, fl, seq) == ack + fl * MaxOutstandingAcks < seq

waitForAck(ack, fl, seq) == ack + fl * MaxOutstandingAcks <= seq

\* ErrBatchClosed, or ErrEmptyBatch of a Close.
Refused ==
    /\ pc = "idle" /\ ~blocked
    /\ closed \/ sequence = 0
    /\ Return("refused")
    /\ UNCHANGED <<gapOk, sequence, closed, subject, ackSub, stallCh, commitCh,
                   blocked, pings, toServer, toClient, handler, server, world>>

\* The first message starts the batch, once the subscription is made.  A
\* Subscribe that fails leaves the batch open, with its sequence at 1.
AddFirst ==
    /\ pc = "idle" /\ ~blocked /\ ~closed
    /\ sequence = 0 /\ sequence < MaxSequence
    /\ sequence' = 1
    /\ \/ /\ ackSub' = TRUE /\ firstAckCh' = TRUE /\ stallCh' = "empty"
          /\ Send("start")
          /\ pc' = "first"
          /\ UNCHANGED <<closed, outcome, world>>
       \/ /\ Fault("subscribe")
          /\ Return("failed")
          /\ UNCHANGED <<closed, ackSub, firstAckCh, stallCh, toServer>>
       \/ /\ Fault("publish")
          /\ closed' = TRUE /\ stallCh' = "empty"
          /\ Return("failed")
          /\ UNCHANGED <<ackSub, firstAckCh, toServer>>
    /\ UNCHANGED <<gapOk, ackSequence, flow, subject, firstAck, commitCh,
                   blocked, pings, toClient, server>>

\* The first ack is in the channel.
FirstAcked ==
    /\ pc = "first" /\ ~blocked
    /\ firstAck # 0
    /\ subject' = TRUE
    /\ Return("added")
    /\ UNCHANGED <<gapOk, sequence, closed, ackSub, stallCh, commitCh, blocked,
                   pings, toServer, toClient, handler, server, world>>

\* It is not, when ackTimeout has passed.
FirstTimeout ==
    /\ pc = "first" /\ ~blocked
    /\ firstAckCh' = FALSE
    /\ closed' = TRUE
    /\ Unsubscribe
    /\ Return("timeout")
    /\ UNCHANGED <<gapOk, sequence, ackSequence, flow, subject, firstAck,
                   stallCh, commitCh, blocked, pings, toServer, server, world>>

\* Every other message is published at once, and the call stalls when too many
\* are unacknowledged.  A message that is not published keeps its sequence.
AddNext ==
    /\ pc = "idle" /\ ~blocked /\ ~closed
    /\ sequence \in 1 .. MaxSequence - 1
    /\ sequence' = sequence + 1
    /\ \/ /\ Send("add")
          /\ IF waitForAck(ackSequence, flow, sequence')
             THEN pc' = "stalled" /\ pings' = 0 /\ UNCHANGED outcome
             ELSE Return("added") /\ UNCHANGED pings
          /\ UNCHANGED world
       \/ /\ Fault("publish")
          /\ Return("failed")
          /\ UNCHANGED <<pings, toServer>>
    /\ UNCHANGED <<gapOk, closed, subject, ackSub, stallCh, commitCh, blocked,
                   toClient, handler, server>>

\* waitForStall takes the signal and looks again: the ack may have slowed the
\* publisher down, or be an old one.
StallSignal ==
    /\ pc = "stalled" /\ ~blocked
    /\ stallCh = "full"
    /\ stallCh' = "empty"
    /\ IF waitForAck(ackSequence, flow, sequence)
       THEN UNCHANGED <<pc, outcome>>
       ELSE Return("added")
    /\ UNCHANGED <<gapOk, sequence, closed, subject, ackSub, commitCh, blocked,
                   pings, toServer, toClient, handler, server, world>>

\* Any other end of waitForStall closes the batch, and keeps the subscription.
StallFails(result) ==
    /\ closed' = TRUE
    /\ Return(result)
    /\ UNCHANGED <<gapOk, sequence, subject, ackSub, stallCh, commitCh, blocked,
                   pings, toServer, toClient, handler, server>>

\* The deadline, three ping intervals after the stall began: not chosen by the
\* select before the pings that were due by then.
StallTimeout ==
    /\ pc = "stalled" /\ ~blocked
    /\ pings = MaxPings
    /\ StallFails("timeout")
    /\ UNCHANGED world

\* Mutant of sendPing: the timer is not armed again.
sendPingOnce ==
    /\ subject
    /\ pings = 0 /\ pings' = MaxPings
    /\ toServer' = Append(toServer, [op |-> "ping", seq |-> sequence])

\* Mutant of sendPing: the ping takes a sequence of its own.
sendPingNext ==
    /\ subject
    /\ pings < MaxPings
    /\ pings' = pings + 1
    /\ toServer' = Append(toServer, [op |-> "ping", seq |-> sequence + 1])

\* sendPing asks for the latest flow ack, with the highest sequence sent.
sendPing ==
    /\ subject
    /\ pings < MaxPings
    /\ pings' = pings + 1
    /\ toServer' = Append(toServer, [op |-> "ping", seq |-> sequence])

\* Without a subject, which only the first ack sets, the ping is refused.
PingFails ==
    \/ ~subject /\ UNCHANGED world
    \/ Fault("ping")

Ping ==
    /\ pc \in {"stalled", "committing"} /\ ~blocked
    /\ sendPing
    /\ UNCHANGED <<gapOk, pc, sequence, closed, subject, ackSub, stallCh,
                   commitCh, blocked, outcome, toClient, handler, server, world>>

StallPingFails ==
    /\ pc = "stalled" /\ ~blocked
    /\ PingFails
    /\ StallFails("failed")

-----------------------------------------------------------------------------
(* Commit, CommitMsg and Close.                                            *)

\* The check of CommitMsg and Close.  They release fp.mu before commit takes
\* it again.
CheckOpen(operation) ==
    /\ pc = "idle" /\ ~blocked /\ ~closed
    /\ operation = "eob" => sequence # 0
    /\ sequence < MaxSequence
    /\ pc' = operation
    /\ UNCHANGED <<gapOk, sequence, closed, subject, ackSub, stallCh, commitCh,
                   blocked, pings, outcome, toServer, toClient, handler, server,
                   world>>

\* commit, up to its wait.  Its failures leave the batch open.
PublishCommit(operation) ==
    /\ pc = operation /\ ~blocked
    /\ sequence' = sequence + 1
    /\ commitCh' = IF commitCh = "nil" THEN "empty" ELSE commitCh
    /\ \/ /\ operation = "eob" => subject
          /\ ackSub' = TRUE
          /\ Send(operation)
          /\ pc' = "committing" /\ pings' = 0
          /\ UNCHANGED <<outcome, world>>
       \/ /\ ~ackSub /\ Fault("subscribe")
          /\ Return("failed")
          /\ UNCHANGED <<ackSub, pings, toServer>>
       \/ /\ \/ operation = "eob" /\ ~subject /\ UNCHANGED world
             \/ Fault("publish")
          /\ ackSub' = TRUE
          /\ Return("failed")
          /\ UNCHANGED <<pings, toServer>>
    /\ UNCHANGED <<gapOk, closed, subject, stallCh, blocked, toClient, handler,
                   server>>

\* The response is read without fp.mu, which lets a handler that was blocked go
\* on with its own.
Committed ==
    /\ pc = "committing"
    /\ commitCh \in Response
    /\ pc' = "ending" /\ outcome' = commitCh
    /\ commitCh' = IF blocked THEN Head(toClient).type ELSE "empty"
    /\ blocked' = FALSE
    /\ IF blocked THEN Unsubscribe ELSE UNCHANGED <<ackSub, toClient>>
    /\ UNCHANGED <<gapOk, sequence, closed, subject, stallCh, pings, toServer,
                   handler, server, world>>

\* The wait ends without a response.
GiveUp(result) ==
    /\ pc = "committing"
    /\ pc' = "ending" /\ outcome' = result
    /\ UNCHANGED <<gapOk, sequence, closed, subject, ackSub, stallCh, commitCh,
                   blocked, pings, toServer, toClient, handler, server>>

\* Mutant of CommitTimeout: a wait for the commit ack has no deadline.
CommitTimeoutNever == FALSE /\ UNCHANGED vars

CommitTimeout ==
    /\ pings = MaxPings
    /\ GiveUp("timeout")
    /\ UNCHANGED world

\* A ping that cannot be sent ends the wait too (sendPing takes fp.mu), and so
\* does the context.
CommitFails ==
    /\ (~blocked /\ PingFails) \/ Fault("cancel")
    /\ GiveUp("failed")

\* Every end of the wait closes the batch, which takes fp.mu again.
EndCommit ==
    /\ pc = "ending" /\ ~blocked
    /\ pc' = "idle"
    /\ closed' = TRUE
    /\ Unsubscribe
    /\ UNCHANGED <<gapOk, sequence, subject, stallCh, commitCh, blocked, pings,
                   outcome, toServer, handler, server, world>>

-----------------------------------------------------------------------------
(* ackMsgHandler.  A gap is only reported to the error handler.            *)

\* Mutant of FlowAck: everything sent counts as acknowledged.
FlowAckAll(ack) ==
    /\ ackSequence' = sequence
    /\ flow' = ack.msgs
    /\ IF firstAckCh
       THEN /\ firstAck' = ack.seq /\ firstAckCh' = FALSE
            /\ UNCHANGED stallCh
       ELSE /\ stallCh' = IF stallCh = "empty" THEN "full" ELSE stallCh
            /\ UNCHANGED <<firstAck, firstAckCh>>

\* A flow ack goes to the first Add, or signals whoever is stalled.
FlowAck(ack) ==
    /\ ackSequence' = ack.seq
    /\ flow' = ack.msgs
    /\ IF firstAckCh
       THEN /\ firstAck' = ack.seq /\ firstAckCh' = FALSE
            /\ UNCHANGED stallCh
       ELSE /\ stallCh' = IF stallCh = "empty" THEN "full" ELSE stallCh
            /\ UNCHANGED <<firstAck, firstAckCh>>

\* A response without a type ends the batch; the send to commitCh blocks when
\* the channel is full.
EndOfBatch(response) ==
    /\ closed' = TRUE
    /\ IF commitCh \in Response
       THEN /\ blocked' = TRUE
            /\ UNCHANGED <<commitCh, ackSub, toClient>>
       ELSE /\ commitCh' = IF commitCh = "nil" THEN "nil" ELSE response
            /\ Unsubscribe
            /\ UNCHANGED blocked

ackMsgHandler ==
    /\ toClient # <<>> /\ ~blocked
    /\ LET msg == Head(toClient)
       IN  \/ /\ msg.type = "ack"
              /\ FlowAck(msg)
              /\ toClient' = Tail(toClient)
              /\ UNCHANGED <<closed, commitCh, ackSub, blocked>>
           \/ /\ msg.type = "gap"
              /\ toClient' = Tail(toClient)
              /\ UNCHANGED <<closed, commitCh, ackSub, blocked, stallCh,
                             ackSequence, flow, firstAck, firstAckCh>>
           \/ /\ msg.type \in Response
              /\ EndOfBatch(msg.type)
              /\ UNCHANGED <<stallCh, handler>>
    /\ UNCHANGED <<gapOk, pc, sequence, subject, pings, outcome, toServer, server,
                   world>>

-----------------------------------------------------------------------------
(* The server and the connection.                                          *)

AckMsg(seq, msgs) == [type |-> "ack", seq |-> seq, msgs |-> msgs]
GapMsg           == [type |-> "gap", seq |-> 0, msgs |-> 0]
EndMsg(response) == [type |-> response, seq |-> 0, msgs |-> 0]

\* Without a subscription an answer goes nowhere.
Answer(replies) ==
    toClient' = IF ackSub THEN toClient \o replies ELSE toClient

End(response, before) ==
    /\ batch' = "ended"
    /\ Answer(before \o <<EndMsg(response)>>)
    /\ UNCHANGED <<acked, every>>

\* A flow ack announces the frequency of the next ones, never a lower one than
\* was asked for.
SendAck(seq, before) ==
    /\ acked' = seq
    /\ every' \in 1 .. Flow
    /\ Answer(before \o <<AckMsg(seq, every')>>)

\* A message of a batch that is open.  It must be the next one; a ping carries
\* the sequence of the message before it.
Take(op, seq) ==
    LET missing == seq > IF op = "ping" THEN last ELSE last + 1
        notice  == IF missing THEN <<GapMsg>> ELSE <<>>
        stop    == missing /\ ~gapOk
    IN  IF stop
        THEN /\ End("failed", notice)
             /\ UNCHANGED <<last, persisted>>
        ELSE /\ last' = seq
             /\ persisted' = IF op \in {"add", "commit"}
                             THEN persisted \cup {seq} ELSE persisted
             /\ \/ op \in {"commit", "eob"} /\ End("committed", notice)
                \/ /\ op \in {"add", "ping"}
                   /\ SendAck(seq, notice)
                   /\ UNCHANGED batch
                \/ /\ op = "add" /\ seq < acked + every
                   /\ Answer(notice)
                   /\ UNCHANGED <<batch, acked, every>>

\* A message that opens a batch, or belongs to none.
Open(op, seq) ==
    \/ /\ op = "start" /\ batch = "none"
       /\ batch' = "open" /\ last' = 1 /\ persisted' = {1}
       /\ SendAck(1, <<>>)
       /\ UNCHANGED faults
    \/ /\ op = "commit" /\ seq = 1 /\ batch = "none"
       /\ last' = 1 /\ persisted' = {1}
       /\ End("committed", <<>>)
       /\ UNCHANGED faults
    \/ /\ op # "start" /\ (op # "commit" \/ seq # 1 \/ batch # "none")
       /\ End("failed", <<>>)
       /\ UNCHANGED <<last, persisted, faults>>
    \/ /\ op = "start" /\ "reject" \in Faults /\ faults < MaxFaults
       /\ faults' = faults + 1
       /\ End("failed", <<>>)
       /\ UNCHANGED <<last, persisted>>

Serve ==
    /\ toServer # <<>>
    /\ toServer' = Tail(toServer)
    /\ LET msg == Head(toServer)
       IN  IF batch = "open"
           THEN Take(msg.op, msg.seq) /\ UNCHANGED faults
           ELSE Open(msg.op, msg.seq)
    /\ UNCHANGED <<gapOk, pc, sequence, closed, subject, ackSub, stallCh,
                   commitCh, blocked, pings, outcome, handler, lost>>

Lose ==
    /\ lost < MaxLost
    /\ lost' = lost + 1
    /\ \/ toServer # <<>> /\ toServer' = Tail(toServer) /\ UNCHANGED toClient
       \/ /\ toClient # <<>> /\ ~blocked
          /\ toClient' = Tail(toClient)
          /\ UNCHANGED toServer
    /\ UNCHANGED <<gapOk, pc, sequence, closed, subject, ackSub, stallCh,
                   commitCh, blocked, pings, outcome, handler, server, faults>>

Add == AddFirst \/ FirstAcked \/ AddNext \/ StallSignal
Timeout == FirstTimeout \/ StallTimeout \/ CommitTimeout

Commit ==
    \/ \E operation \in {"commit", "eob"} :
          CheckOpen(operation) \/ PublishCommit(operation)
    \/ Committed \/ EndCommit

Next ==
    \/ Refused \/ Add \/ Commit \/ Ping \/ Timeout
    \/ StallPingFails \/ CommitFails
    \/ ackMsgHandler \/ Serve \/ Lose

\* Timers fire and the goroutines run; nothing is asked of the server.
Fairness ==
    /\ WF_vars(Ping) /\ WF_vars(Timeout)
    /\ WF_vars(FirstAcked) /\ WF_vars(StallSignal) /\ WF_vars(Committed)
    /\ WF_vars(EndCommit)
    /\ WF_vars(StallPingFails) /\ WF_vars(CommitFails)
    /\ \A operation \in {"commit", "eob"} : WF_vars(PublishCommit(operation))
    /\ WF_vars(ackMsgHandler)

Spec == Init /\ [][Next]_vars /\ Fairness

-----------------------------------------------------------------------------
Waiting == {"first", "stalled", "commit", "eob", "committing", "ending"}

\* Type invariant: the publisher's fields, the channels, the server's batch;
\* among the rest, nothing waits for delivery without a subscription and no
\* number runs ahead of fp.sequence.
TypeOK ==
    /\ {gapOk, closed, subject, ackSub, firstAckCh, blocked} \subseteq BOOLEAN
    /\ pc \in Waiting \cup {"idle"}
    /\ sequence \in 0 .. MaxSequence
    /\ {ackSequence, firstAck, last, acked} \subseteq 0 .. sequence
    /\ {flow, every} \subseteq 1 .. Flow
    /\ stallCh \in {"nil", "empty", "full"}
    /\ commitCh \in {"nil", "empty"} \cup Response
    /\ pings \in 0 .. MaxPings
    /\ outcome \in {"none", "added", "refused", "failed", "timeout"} \cup Response
    /\ \A k \in 1 .. Len(toServer) : toServer[k].seq \in 1 .. sequence
    /\ ~ackSub => toClient = <<>>
    /\ batch \in {"none", "open", "ended"}
    /\ persisted \subseteq 1 .. last
    /\ lost \in 0 .. MaxLost /\ faults \in 0 .. MaxFaults

\* "If gap: fail is used this means all messages below and including this
\* sequence were persisted": what an Add returns as AckSequence is true.
\* ImplementsAckedLog says so of every step.
AckedArePersisted == ~gapOk => 1 .. ackSequence \subseteq persisted

\* "When this limit is reached, Add/AddMsg will block until acks are received":
\* when an Add has returned, fewer messages than the limit are unacknowledged,
\* whatever the flow was when they were sent, if none failed to be published.
OutstandingBounded ==
    pc = "idle" /\ outcome = "added" /\ faults = 0
        => sequence - ackSequence < Flow * MaxOutstandingAcks

\* "Periodic pings to recover lost acks": an Add that is stalled times out only
\* when an ack and both pings, or their answers, were lost, when something is
\* still on its way after ackTimeout, or when the server has no such batch.
StallsRecover ==
    [][StallTimeout =>
          \/ toServer # <<>> \/ toClient # <<>> \/ stallCh = "full"
          \/ lost > MaxPings
          \/ batch # "open"]_vars

\* Whether the caller has sent its last message: it is in a commit, or finds the
\* batch closed.
Final == pc \in {"committing", "ending"} \/ (pc = "idle" /\ closed)

\* "FastPublisher persists messages as they are added to the batch, and the
\* commit is used to signal the end of the batch": whatever is lost or fails, the
\* stream holds what was sent in order, once and up to the end of the batch,
\* acknowledgements are true and stay so, and a commit is reported, without
\* gaps, only when all that was added is stored.
Log == INSTANCE AckedLog WITH
    gaps <- gapOk, sent <- sequence, final <- Final, stored <- persisted,
    ended <- batch = "ended", acked <- ackSequence,
    reported <- outcome = "committed"

ImplementsAckedLog == Log!Spec

\* Every call returns: "the old code would hang forever ... now we wait for the
\* commit and include pings and a deadline as well".
CallsReturn == pc \in Waiting ~> pc = "idle"

\* A Commit or Close that follows one that could not be published: its channel
\* may already hold what ended the batch.
CommitRetried == pc \in {"commit", "eob"} /\ commitCh # "nil"

\* Every call returns, deadlines or not, unless a commit is tried again.
CallsReturnOnce == [](~CommitRetried) => CallsReturn
=============================================================================
