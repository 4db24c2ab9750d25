------------------------------ MODULE AckedLog ------------------------------
(***************************************************************************)
(* What a fast publisher promises of its messages, which are numbers: they *)
(* are stored as they are sent, in order and once, without a hole if gaps  *)
(* end the batch; nothing is stored after the end of the batch, and        *)
(* nothing sent after the publisher's last message; an acknowledgement is  *)
(* never taken back and true; and a commit that is reported has stored     *)
(* all that was sent before it.                                            *)
(***************************************************************************)
EXTENDS Naturals

VARIABLES
    gaps,    \* whether the batch goes on after a gap
    sent,    \* the number of messages sent
    final,   \* the publisher sends no more
    stored,  \* the messages that the stream holds
    ended,   \* the batch is over at the server
    acked,   \* the last message that was acknowledged to the publisher
    reported \* the caller has been told that the batch is committed

vars == <<gaps, sent, final, stored, ended, acked, reported>>

Init ==
    /\ gaps \in BOOLEAN
    /\ sent = 0 /\ final = FALSE
    /\ stored = {} /\ ended = FALSE
    /\ acked = 0 /\ reported = FALSE

Whole(n) == gaps \/ 1 .. n \subseteq stored

\* The last message is sent by the step that makes it the last.
Send ==
    /\ ~final
    /\ sent' = sent + 1
    /\ final' \in BOOLEAN
    /\ UNCHANGED <<gaps, stored, ended, acked, reported>>

GiveUp ==
    /\ final' = TRUE
    /\ UNCHANGED <<gaps, sent, stored, ended, acked, reported>>

Store(n) ==
    /\ ~ended
    /\ stored \subseteq 1 .. n - 1 /\ Whole(n - 1)
    /\ stored' = stored \cup {n}
    /\ ended' \in BOOLEAN
    /\ UNCHANGED <<gaps, sent, final, acked, reported>>

End ==
    /\ ended' = TRUE
    /\ UNCHANGED <<gaps, sent, final, stored, acked, reported>>

Acknowledge(n) ==
    /\ acked <= n /\ Whole(n)
    /\ acked' = n
    /\ UNCHANGED <<gaps, sent, final, stored, ended, reported>>

Report ==
    /\ final /\ ended /\ Whole(sent - 1)
    /\ reported' = TRUE
    /\ UNCHANGED <<gaps, sent, final, stored, ended, acked>>

\* A later call is told that the batch is over, and no more.
Refuse ==
    /\ reported' = FALSE
    /\ UNCHANGED <<gaps, sent, final, stored, ended, acked>>

Next ==
    \/ Send \/ GiveUp
    \/ \E n \in 1 .. sent : Store(n) \/ Acknowledge(n)
    \/ End \/ Report \/ Refuse

Spec == Init /\ [][Next]_vars
=============================================================================
