--------------------------- MODULE BatchPublisher ---------------------------
(***************************************************************************)
(* Atomic batches: BatchPublisher, which publishes as its caller adds      *)
(* messages, and PublishMsgBatch, which publishes a slice of them.  Both   *)
(* write into the headers of the caller's messages, which the caller may   *)
(* use again for another batch.                                            *)
(*                                                                         *)
(* A publisher holds b.mu during a call, the wait for an answer included,  *)
(* so its calls come one after another.  Every publisher is the batch of   *)
(* its id.                                                                 *)
(***************************************************************************)
EXTENDS Naturals, Sequences, FiniteSets

CONSTANTS
    Publishers, \* the BatchPublishers
    Calls,      \* the calls of PublishMsgBatch
    Slices,     \* what they may be called with: sequences of messages
    Messages,   \* the *nats.Msg
    AckFirst,   \* BatchFlowControl
    AckEvery,
    MaxSize,    \* bound on the messages of a publisher
    Faults,     \* what may go wrong
    MaxFaults   \* bound on how often

Batches == Publishers \cup Calls

ASSUME BatchAssumption ==
    /\ Publishers \cap Calls = {}
    /\ Slices \subseteq Seq(Messages) \ {<<>>}
    /\ AckFirst \in BOOLEAN /\ AckEvery \in Nat /\ MaxSize \in Nat
    /\ Faults \subseteq {"publish", "request", "answer", "reject", "abandon"}
    /\ MaxFaults \in Nat

VARIABLES
    header,   \* per message: "nil", "plain", or "commit" if it has the commit header
    sequence, \* per batch: b.sequence, or the index in the slice
    closed,   \* per batch: b.closed, or PublishMsgBatch has returned
    rest,     \* per batch: the messages PublishMsgBatch has yet to publish
    pc,       \* per batch: what the call in progress waits for
    wire,     \* per batch: its messages on their way to the server
    answer,   \* per batch: the server's answer to the request it waits for
    staged,   \* per batch: what the server keeps of it until its commit
    stored,   \* per batch: what the stream holds of it
    given,    \* per batch: the messages it was given, in order
    commits,  \* per batch: which messages its caller asked to commit it with
    stale,    \* the batches given a message that had the commit header already
    outcome,  \* per batch: how its last commit ended
    faults    \* how many faults there have been

local  == <<header, sequence, closed, rest, pc>>
server == <<staged, stored>>
said   == <<given, commits, stale, outcome>>
vars   == <<local, wire, answer, server, said, faults>>

None == [kind |-> "none", size |-> 0]
Ok   == [kind |-> "ok", size |-> 0]
Err  == [kind |-> "error", size |-> 0]
Acks(n) == [kind |-> "ack", size |-> n]

Requests ==
    [seq : Nat, message : Messages, commit : BOOLEAN, reply : BOOLEAN]

Init ==
    /\ header \in [Messages -> {"nil", "plain"}]
    /\ sequence = [b \in Batches |-> 0]
    /\ closed = [b \in Batches |-> FALSE]
    /\ rest \in [Batches -> Slices \cup {<<>>}]
    /\ \A b \in Batches : rest[b] = <<>> <=> b \in Publishers
    /\ pc = [b \in Batches |-> "idle"]
    /\ wire = [b \in Batches |-> <<>>]
    /\ answer = [b \in Batches |-> None]
    /\ staged = [b \in Batches |-> <<>>]
    /\ stored = staged
    /\ given = staged
    /\ commits = [b \in Batches |-> {}]
    /\ stale = {}
    /\ outcome = [b \in Batches |-> "none"]
    /\ faults = 0

Fault(f) == f \in Faults /\ faults < MaxFaults /\ faults' = faults + 1

-----------------------------------------------------------------------------
(* The client. *)

NeedsAck(n) == (AckFirst /\ n = 1) \/ (AckEvery > 0 /\ n % AckEvery = 0)

\* A message takes the next sequence of its batch, whatever becomes of it.
Take(b, m) ==
    /\ sequence' = [sequence EXCEPT ![b] = @ + 1]
    /\ given' = [given EXCEPT ![b] = Append(@, m)]

\* m is sent with the commit header or without, as a request or not.
Send(b, m, commit, reply) ==
    /\ wire' = [wire EXCEPT ![b] = Append(@, [seq |-> sequence[b] + 1,
                    message |-> m, commit |-> commit, reply |-> reply])]
    /\ UNCHANGED faults

\* The connection refuses m: a publish and a request both fail at once.
Refuse == Fault("publish") /\ UNCHANGED wire

Open(b) == pc[b] = "idle" /\ ~closed[b]

\* AddMsg keeps the headers a message comes with.
AddMsg(b, m) ==
    /\ Open(b) /\ sequence[b] < MaxSize
    /\ Take(b, m)
    /\ header' = [header EXCEPT ![m] = IF @ = "nil" THEN "plain" ELSE @]
    /\ stale' = IF header[m] = "commit" THEN stale \cup {b} ELSE stale
    /\ \/ /\ Send(b, m, header[m] = "commit", NeedsAck(sequence[b] + 1))
          /\ pc' = [pc EXCEPT ![b] = IF NeedsAck(sequence[b] + 1) THEN "ack" ELSE "idle"]
       \/ Refuse /\ UNCHANGED pc
    /\ UNCHANGED <<closed, rest, answer, server, commits, outcome>>

\* AddMsg returns its answer; PublishMsgBatch goes on unless it is an error.
AckArrives(b) ==
    /\ pc[b] = "ack" /\ answer[b] # None
    /\ pc' = [pc EXCEPT ![b] = "idle"]
    /\ answer' = [answer EXCEPT ![b] = None]
    /\ closed' = [closed EXCEPT ![b] = @ \/ (b \in Calls /\ answer[b] = Err)]
    /\ UNCHANGED <<header, sequence, rest, wire, server, said, faults>>

Asking(b) == commits' = [commits EXCEPT ![b] = @ \cup {Len(given[b]) + 1}]

\* CommitMsg leaves the batch open when it cannot publish.
CommitMsg(b, m) ==
    /\ Open(b) /\ sequence[b] <= MaxSize
    /\ Take(b, m)
    /\ header' = [header EXCEPT ![m] = "commit"]
    /\ Asking(b)
    /\ \/ Send(b, m, TRUE, TRUE) /\ pc' = [pc EXCEPT ![b] = "commit"]
       \/ Refuse /\ UNCHANGED pc
    /\ UNCHANGED <<closed, rest, answer, server, stale, outcome>>

\* Mutant: the size of the batch without the message that commits it.
AcceptedShort(b) == answer[b] = Acks(sequence[b] - 1)

\* An answer other than an acknowledgement of the whole batch is an error.
Accepted(b) == answer[b] = Acks(sequence[b])

CommitArrives(b) ==
    /\ pc[b] = "commit" /\ answer[b] # None
    /\ pc' = [pc EXCEPT ![b] = "idle"]
    /\ answer' = [answer EXCEPT ![b] = None]
    /\ closed' = [closed EXCEPT ![b] = TRUE]
    /\ outcome' = [outcome EXCEPT ![b] = IF Accepted(b) THEN "acked" ELSE "refused"]
    /\ UNCHANGED <<header, sequence, rest, wire, server, given, commits, stale, faults>>

\* Nobody listens any more to the answers of the requests sent so far.
Forget(b) ==
    [wire EXCEPT ![b] = [k \in DOMAIN @ |-> [@[k] EXCEPT !.reply = FALSE]]]

\* Mutant: a commit that got no answer gives its sequence back.
TimeoutGivesBack(b) ==
    /\ pc[b] # "idle" /\ answer[b] = None
    /\ pc' = [pc EXCEPT ![b] = "idle"]
    /\ wire' = Forget(b)
    /\ closed' = [closed EXCEPT ![b] = b \in Calls]
    /\ outcome' = IF pc[b] = "commit" THEN [outcome EXCEPT ![b] = "unknown"] ELSE outcome
    /\ sequence' = IF pc[b] = "commit" THEN [sequence EXCEPT ![b] = @ - 1] ELSE sequence
    /\ UNCHANGED <<header, rest, answer, server, given, commits, stale, faults>>

\* The answer is late: the call returns an error, and a publisher stays open.
Timeout(b) ==
    /\ pc[b] # "idle" /\ answer[b] = None
    /\ pc' = [pc EXCEPT ![b] = "idle"]
    /\ wire' = Forget(b)
    /\ closed' = [closed EXCEPT ![b] = b \in Calls]
    /\ outcome' = IF pc[b] = "commit" THEN [outcome EXCEPT ![b] = "unknown"] ELSE outcome
    /\ UNCHANGED <<header, sequence, rest, answer, server, given, commits, stale, faults>>

\* Mutant: without the lock, during a call.
DiscardUnlocked(b) ==
    /\ b \in Publishers /\ ~closed[b]
    /\ closed' = [closed EXCEPT ![b] = TRUE]
    /\ UNCHANGED <<header, sequence, rest, pc, wire, answer, server, said, faults>>

Discard(b) ==
    /\ b \in Publishers /\ Open(b)
    /\ closed' = [closed EXCEPT ![b] = TRUE]
    /\ UNCHANGED <<header, sequence, rest, pc, wire, answer, server, said, faults>>

\* Mutant: the commit header of an earlier use is kept.
PublishNextKeepingHeader(b) ==
    LET m    == Head(rest[b])
        last == Len(rest[b]) = 1
    IN  /\ Open(b) /\ rest[b] # <<>> /\ header[m] # "nil"
        /\ Take(b, m)
        /\ rest' = [rest EXCEPT ![b] = Tail(@)]
        /\ header' = [header EXCEPT ![m] = IF last THEN "commit" ELSE @]
        /\ IF last THEN Asking(b) ELSE UNCHANGED commits
        /\ Send(b, m, last \/ header[m] = "commit", last \/ NeedsAck(sequence[b] + 1))
        /\ pc' = [pc EXCEPT ![b] = IF last THEN "commit"
                      ELSE IF NeedsAck(sequence[b] + 1) THEN "ack" ELSE "idle"]
        /\ UNCHANGED <<closed, answer, server, stale, outcome>>

\* PublishMsgBatch removes the commit header from all messages but the last.
PublishNext(b) ==
    LET m    == Head(rest[b])
        last == Len(rest[b]) = 1
    IN  /\ Open(b) /\ rest[b] # <<>> /\ header[m] # "nil"
        /\ Take(b, m)
        /\ rest' = [rest EXCEPT ![b] = Tail(@)]
        /\ header' = [header EXCEPT ![m] = IF last THEN "commit" ELSE "plain"]
        /\ IF last THEN Asking(b) ELSE UNCHANGED commits
        /\ \/ /\ Send(b, m, last, last \/ NeedsAck(sequence[b] + 1))
              /\ pc' = [pc EXCEPT ![b] = IF last THEN "commit"
                            ELSE IF NeedsAck(sequence[b] + 1) THEN "ack" ELSE "idle"]
              /\ UNCHANGED closed
           \/ /\ Refuse
              /\ closed' = [closed EXCEPT ![b] = TRUE]
              /\ UNCHANGED pc
        /\ UNCHANGED <<answer, server, stale, outcome>>

\* A header that is nil cannot be written to: the call panics.
PublishPanics(b) ==
    /\ Open(b) /\ rest[b] # <<>> /\ header[Head(rest[b])] = "nil"
    /\ closed' = [closed EXCEPT ![b] = TRUE]
    /\ UNCHANGED <<header, sequence, rest, pc, wire, answer, server, said, faults>>

-----------------------------------------------------------------------------
(* The connection and the server. *)

Reply(b, r, a) == answer' = IF r.reply THEN [answer EXCEPT ![b] = a] ELSE answer

Drop(b) == wire' = [wire EXCEPT ![b] = Tail(@)]

\* A request is lost on its way; so may be the answer to one.
LoseRequest(b) ==
    /\ wire[b] # <<>> /\ Fault("request")
    /\ Drop(b)
    /\ UNCHANGED <<local, answer, server, said>>

LoseAnswer(b) ==
    /\ answer[b] # None /\ Fault("answer")
    /\ answer' = [answer EXCEPT ![b] = None]
    /\ UNCHANGED <<local, wire, server, said>>

\* The message continues its batch: it is kept, or completes the batch.
Accept(b) ==
    LET r == Head(wire[b])
        batch == Append(staged[b], r.message)
    IN  /\ wire[b] # <<>> /\ r.seq = Len(batch)
        /\ Drop(b)
        /\ staged' = [staged EXCEPT ![b] = IF r.commit THEN <<>> ELSE batch]
        /\ stored' = [stored EXCEPT ![b] = IF r.commit THEN batch ELSE @]
        /\ Reply(b, r, IF r.commit THEN Acks(r.seq) ELSE Ok)
        /\ UNCHANGED <<local, said, faults>>

\* It does not continue its batch, or a check on it fails: the batch is gone.
Reject(b) ==
    LET r == Head(wire[b]) IN
    /\ wire[b] # <<>>
    /\ \/ r.seq # Len(staged[b]) + 1 /\ UNCHANGED faults
       \/ r.seq = Len(staged[b]) + 1 /\ Fault("reject")
    /\ Drop(b)
    /\ staged' = [staged EXCEPT ![b] = <<>>]
    /\ Reply(b, r, Err)
    /\ UNCHANGED <<local, stored, said>>

\* The server gives up a batch that nothing was added to for a while.
Abandon(b) ==
    /\ staged[b] # <<>> /\ Fault("abandon")
    /\ staged' = [staged EXCEPT ![b] = <<>>]
    /\ UNCHANGED <<local, wire, answer, stored, said>>

-----------------------------------------------------------------------------
Next ==
    \E b \in Batches :
        \/ b \in Publishers /\ \E m \in Messages : AddMsg(b, m) \/ CommitMsg(b, m)
        \/ AckArrives(b) \/ CommitArrives(b) \/ Timeout(b) \/ Discard(b)
        \/ PublishNext(b) \/ PublishPanics(b)
        \/ LoseRequest(b) \/ LoseAnswer(b) \/ Accept(b) \/ Reject(b) \/ Abandon(b)

Spec == Init /\ [][Next]_vars

-----------------------------------------------------------------------------
(* Every variable has a value of its type; a waiting call is of an open    *)
(* batch, a staged batch is not stored, and sequences count what is given. *)
TypeOK ==
    /\ header \in [Messages -> {"nil", "plain", "commit"}]
    /\ closed \in [Batches -> BOOLEAN]
    /\ pc \in [Batches -> {"idle", "ack", "commit"}]
    /\ commits \in [Batches -> SUBSET (1..(MaxSize + 1) \cup UNION {DOMAIN s : s \in Slices})]
    /\ stale \subseteq Publishers
    /\ outcome \in [Batches -> {"none", "acked", "refused", "unknown"}]
    /\ faults \in 0..MaxFaults
    /\ \A b \in Batches :
        /\ {rest[b], staged[b], stored[b], given[b]} \subseteq Seq(Messages)
        /\ wire[b] \in Seq(Requests)
        /\ answer[b] \in {None, Ok, Err} \cup {Acks(n) : n \in 1..sequence[b]}
        /\ sequence[b] = Len(given[b])
        /\ closed[b] => pc[b] = "idle"
        /\ staged[b] = <<>> \/ stored[b] = <<>>

(* What is stored of a batch ends with a message its caller committed it   *)
(* with: nothing that is only added reaches the stream ("persisted upon    *)
(* commit"), provided the caller adds no message that another commit has   *)
(* left its header in.  ImplementsAtomicBatch says so of the step.         *)
StoredUponCommit ==
    \A b \in Batches \ stale :
        stored[b] # <<>> => Len(stored[b]) \in commits[b]

(* What the first commit returns is true if it is an answer: an error      *)
(* means that nothing of the batch is stored.                              *)
CommitTells ==
    \A b \in Batches \ stale :
        outcome[b] = "refused" /\ Cardinality(commits[b]) = 1 => stored[b] = <<>>

(* After a commit without an answer no other commit of the batch succeeds, *)
(* whatever became of the first: it cannot be tried again, and it cannot   *)
(* store the batch twice.                                                  *)
CommitIsNotRetried ==
    \A b \in Batches : Cardinality(commits[b]) > 1 => outcome[b] # "acked"

(* Both ways of publishing are atomic, with anything lost, late or refused *)
(* at any point: what is stored is what was given up to a commit, and an   *)
(* acknowledgement means that all of it is.                                *)
Atomic == INSTANCE AtomicBatch WITH
    acked <- {b \in Batches : outcome[b] = "acked"}

ImplementsAtomicBatch == Atomic!Spec
=============================================================================
