---------------------------- MODULE AtomicBatch -----------------------------
(***************************************************************************)
(* What an atomic batch promises: what is stored of a batch is stored at   *)
(* once and only once, it is what the batch was given up to a message its  *)
(* caller committed it with, without a gap and in order; and a caller who  *)
(* gets an acknowledgement has given nothing that is not stored.  A batch  *)
(* that is given a message with another's commit header may end with that. *)
(***************************************************************************)
EXTENDS Naturals, Sequences

CONSTANTS
    Batches, \* the batches
    Messages \* the messages

VARIABLES
    given,   \* per batch: the messages it was given, in order
    commits, \* per batch: the places of those it was to be committed with
    stale,   \* the batches that were given a message with a commit header
    stored,  \* per batch: what the stream holds of it
    acked    \* the batches whose caller has the acknowledgement

vars == <<given, commits, stale, stored, acked>>

Init ==
    /\ given = [b \in Batches |-> <<>>]
    /\ commits = [b \in Batches |-> {}]
    /\ stale = {}
    /\ stored = given
    /\ acked = {}

\* A batch that is acknowledged is complete.
Give(b, m) ==
    /\ b \notin acked
    /\ given' = [given EXCEPT ![b] = Append(@, m)]
    /\ \/ commits' = commits
       \/ commits' = [commits EXCEPT ![b] = @ \cup {Len(given[b]) + 1}]
    /\ stale' = stale \/ stale' = stale \cup {b}
    /\ UNCHANGED <<stored, acked>>

Store(b) ==
    /\ stored[b] = <<>>
    /\ \E n \in 1..Len(given[b]) :
        /\ n \in commits[b] \/ b \in stale
        /\ stored' = [stored EXCEPT ![b] = SubSeq(given[b], 1, n)]
    /\ UNCHANGED <<given, commits, stale, acked>>

Acknowledge(b) ==
    /\ given[b] # <<>> /\ stored[b] = given[b]
    /\ acked' = acked \cup {b}
    /\ UNCHANGED <<given, commits, stale, stored>>

Next ==
    \E b \in Batches :
        \/ \E m \in Messages : Give(b, m)
        \/ Store(b)
        \/ Acknowledge(b)

Spec == Init /\ [][Next]_vars
=============================================================================
