---------------------------- MODULE ConsumerGroup ----------------------------
(***************************************************************************)
(* What an elastic consumer group promises, whoever runs, dies or is late: *)
(* a member is served the partitions that a valid configuration gave it,   *)
(* and none that another member is being served; a message is with one     *)
(* member at most, which has its partition; and it leaves the stream when  *)
(* that member acknowledges it, or with the group.                         *)
(***************************************************************************)
EXTENDS Naturals, Sequences

CONSTANTS
    Configs,      \* the configurations that may be stored
    ValidConfigs, \* those that an instance accepts
    Members,      \* the names of the members
    Assigned,     \* per configuration and member: its partitions
    Messages,     \* what the stream holds to begin with
    Partition,    \* the partition of a message
    Deleted       \* the delete marker

VARIABLES
    log,    \* the entries of the group's key, in order
    open,   \* whether the group's stream exists
    stored, \* the messages in it
    share,  \* per member: the partitions it is being served
    held    \* per member: the messages it was handed and has not acknowledged

vars == <<log, open, stored, share, held>>

Latest == log[Len(log)]

None == [m \in Members |-> {}]

Init ==
    /\ log \in {<<c>> : c \in Configs}
    /\ open = TRUE
    /\ stored = Messages
    /\ share = None /\ held = None

\* A deleted group may be created again when its stream is gone.
Change(config) ==
    /\ Latest = Deleted => ~open
    /\ log' = Append(log, config)
    /\ open' = TRUE
    /\ UNCHANGED <<stored, share, held>>

Delete ==
    /\ Latest # Deleted
    /\ log' = Append(log, Deleted)
    /\ UNCHANGED <<open, stored, share, held>>

Close ==
    /\ Latest = Deleted
    /\ open' = FALSE
    /\ stored' = {}
    /\ share' = None /\ held' = None
    /\ UNCHANGED log

\* A member may be late: the configuration need not be the latest.
Join(m) ==
    /\ open /\ share[m] = {}
    /\ \E k \in 1 .. Len(log) :
          /\ log[k] \in ValidConfigs
          /\ share' = [share EXCEPT ![m] = Assigned[log[k]][m]]
    /\ \A other \in Members \ {m} : share'[m] \cap share[other] = {}
    /\ UNCHANGED <<log, open, stored, held>>

Leave(m) ==
    /\ share' = [share EXCEPT ![m] = {}]
    /\ held' = [held EXCEPT ![m] = {}]
    /\ UNCHANGED <<log, open, stored>>

Hand(m, msg) ==
    /\ msg \in stored /\ Partition[msg] \in share[m]
    /\ \A other \in Members : msg \notin held[other]
    /\ held' = [held EXCEPT ![m] = @ \cup {msg}]
    /\ UNCHANGED <<log, open, stored, share>>

TakeBack(m, msg) ==
    /\ held' = [held EXCEPT ![m] = @ \ {msg}]
    /\ UNCHANGED <<log, open, stored, share>>

Acknowledge(m, msg) ==
    /\ msg \in held[m]
    /\ held' = [held EXCEPT ![m] = @ \ {msg}]
    /\ stored' = stored \ {msg}
    /\ UNCHANGED <<log, open, share>>

Next ==
    \/ \E config \in Configs : Change(config)
    \/ Delete \/ Close
    \/ \E m \in Members :
          \/ Join(m) \/ Leave(m)
          \/ \E msg \in Messages :
                Hand(m, msg) \/ TakeBack(m, msg) \/ Acknowledge(m, msg)

Spec == Init /\ [][Next]_vars
=============================================================================
