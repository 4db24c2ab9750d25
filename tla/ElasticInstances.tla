-------------------------- MODULE ElasticInstances --------------------------
(***************************************************************************)
(* The consuming side of an elastic consumer group: the instances of its   *)
(* members, each with the goroutine of instanceRoutine, the server's       *)
(* consumers on the group's work queue stream, and the messages in it.     *)
(*                                                                         *)
(* An instance reads the group's configurations from a KV watcher, in      *)
(* order.  Between two of its calls to the server anything else may        *)
(* happen: that is what the values of pc name.                             *)
(***************************************************************************)
EXTENDS PartitionFilters

CONSTANTS
    Instances,  \* the processes that called ElasticConsume
    Member,     \* the member name each of them was started with
    Configs,    \* the configurations an administrator may store
    Messages,   \* what the stream holds to begin with
    Partition,  \* the partition number in the subject of a message
    Deleted,    \* the delete marker of the configuration's key
    Nothing,    \* no consumer, no message, no pinned instance
    Gone,       \* the pin of a consume context that has stopped
    Faults,     \* what may go wrong, or be done to an instance
    MaxFaults,  \* bound on how many of them there are
    MaxEvents   \* bound on faults and entries of the key, the first included

\* The server's consumers.
Consumer == [filters : SUBSET Nat, pin : Instances \cup {Nothing, Gone},
             pending : SUBSET Messages]

ASSUME InstancesAssumption ==
    /\ Member \in [Instances -> Int]
    /\ \A c \in Configs :
          /\ c.max \in Nat
          /\ c = [max |-> c.max, filters |-> c.filters,
                  members |-> c.members, mappings |-> c.mappings]
    /\ Partition \in [Messages -> Nat]
    /\ Deleted \notin Configs
    /\ {Nothing, Gone} \cap (Instances \cup Messages) = {} /\ Nothing # Gone
    /\ Nothing \notin Consumer
    /\ Faults \subseteq {"info", "delete", "create", "consume", "watch", "stop",
                         "crash", "stepdown", "ackwait", "disconnect"}
    /\ MaxFaults \in Nat /\ MaxEvents \in Nat \ {0}

Members == {Member[i] : i \in Instances}

VARIABLES
    log,       \* the entries written to the group's key, in order
    stream,    \* whether the group's stream exists
    consumers, \* per member: the server's consumer, or Nothing
    stored,    \* the messages of the stream that no one has acknowledged
    pc,        \* per instance: where its goroutine is
    view,      \* per instance: instance.Config
    position,  \* per instance: how far its watcher has read the log
    consumer,  \* per instance: instance.consumer is not nil
    attached,  \* per instance: its consume context still pulls messages
    aware,     \* per instance: currentPinnedID is the server's current pin
    current,   \* per instance: the message its consume context is handling
    running,   \* per instance: the messages its callbacks are still handling
    faults     \* how many faults there have been

server == <<log, stream, consumers, stored>>
local  == <<pc, view, position, consumer, attached, aware, current, running>>
vars   == <<server, local, faults>>

Latest == log[Len(log)]

\* The partitions of each member under each configuration, and the valid
\* configurations: constants, which TLC evaluates once.
Assigned == [c \in Configs |-> [m \in Members |-> PartitionsOf(c, m)]]

ValidConfigs == {c \in Configs : validateConfig(c)}

Filters(config, i) == Assigned[config][Member[i]]

Peers(name) == {i \in Instances : Member[i] = name}

NewConsumer(filters) == [filters |-> filters, pin |-> Nothing, pending |-> {}]

Init ==
    /\ log \in {<<c>> : c \in Configs}
    /\ stream = TRUE
    /\ consumers = [m \in Members |-> Nothing]
    /\ stored = Messages
    /\ pc = [i \in Instances |-> "down"]
    /\ view = [i \in Instances |-> Deleted]
    /\ position = [i \in Instances |-> 0]
    /\ consumer = [i \in Instances |-> FALSE]
    /\ attached = [i \in Instances |-> FALSE]
    /\ aware = [i \in Instances |-> FALSE]
    /\ current = [i \in Instances |-> Nothing]
    /\ running = [i \in Instances |-> {}]
    /\ faults = 0

\* A behaviour with more changes has fewer faults.
WithinBound == Len(log) + faults < MaxEvents

Fault(kind) ==
    /\ kind \in Faults
    /\ faults < MaxFaults /\ WithinBound
    /\ faults' = faults + 1

Goto(i, label) == pc' = [pc EXCEPT ![i] = label]

-----------------------------------------------------------------------------
(* The server.                                                             *)

\* A consumer goes away: its pending messages are to be delivered again, and
\* whoever was pulling from it is told and gives up.
Remove(m) ==
    /\ consumers' = [consumers EXCEPT ![m] = Nothing]
    /\ attached' = [i \in Instances |-> attached[i] /\ Member[i] # m]
    /\ aware' = [i \in Instances |-> aware[i] /\ Member[i] # m]
    /\ current' = [i \in Instances |->
                     IF Member[i] = m THEN Nothing ELSE current[i]]

\* On a work queue the filters of two consumers must not overlap (10100).
Unique(m, filters) ==
    \A other \in Members \ {m} :
        consumers[other] # Nothing =>
            consumers[other].filters \cap filters = {}

\* Mutant of CanCreate: the consumer that is there is taken, whatever its filters.
CanCreateAny(m, filters) ==
    /\ stream
    /\ consumers[m] = Nothing => Unique(m, filters)

\* CreateConsumer is idempotent for an identical configuration.
CanCreate(m, filters) ==
    /\ stream
    /\ IF consumers[m] = Nothing THEN Unique(m, filters)
                                 ELSE consumers[m].filters = filters

\* InactiveThreshold: nobody has pulled from the consumer for AckWait.  (An
\* instance does not need AckWait to get from creating it to the first pull.)
Expire(m) ==
    /\ consumers[m] # Nothing
    /\ \A i \in Peers(m) : ~attached[i] /\ pc[i] # "consume"
    /\ Remove(m)
    /\ UNCHANGED <<log, stream, stored, pc, view, position, consumer, running,
                   faults>>

\* The clients that pull are cut off from the server for longer than that: the
\* consumer goes, and so do their contexts once they are back and find it gone.
\* Nobody tells the goroutine.
Disconnect(m) ==
    /\ consumers[m] # Nothing
    /\ \E i \in Peers(m) : attached[i]
    /\ Fault("disconnect")
    /\ Remove(m)
    /\ UNCHANGED <<log, stream, stored, pc, view, position, consumer, running>>

\* The first pull of an unpinned consumer pins the instance it comes from.
Pin(i) ==
    LET m == Member[i]
    IN  /\ attached[i] /\ consumers[m] # Nothing
        /\ consumers[m].pin = Nothing
        /\ consumers' = [consumers EXCEPT ![m].pin = i]
        /\ UNCHANGED <<log, stream, stored, local, faults>>

\* The pin is lost: its TTL passes because the pinned instance has stopped
\* pulling, or ElasticMemberStepDown was called.
Unpin(m) ==
    /\ consumers[m] # Nothing
    /\ consumers[m].pin # Nothing
    /\ consumers' = [consumers EXCEPT ![m].pin = Nothing]
    /\ aware' = [i \in Instances |-> aware[i] /\ Member[i] # m]
    /\ UNCHANGED <<log, stream, stored, pc, view, position, consumer, attached,
                   current, running>>

PinExpires(m) ==
    /\ consumers[m] # Nothing /\ consumers[m].pin = Gone
    /\ Unpin(m)
    /\ UNCHANGED faults

StepDown(m) == Unpin(m) /\ Fault("stepdown")

\* consumerConsumeContext.Stop(), or the death of the process: the pin stays
\* with the context that is gone, and its callback may still be running.
Detach(i) ==
    LET m == Member[i]
    IN  /\ attached' = [attached EXCEPT ![i] = FALSE]
        /\ current' = [current EXCEPT ![i] = Nothing]
        /\ consumers' = [consumers EXCEPT ![m] =
                            IF @ # Nothing /\ attached[i] /\ @.pin = i
                            THEN [@ EXCEPT !.pin = Gone] ELSE @]

\* A message nobody has goes to the pinned instance, and consumerCallback
\* notes the pinned id that comes with it before it runs the user's callback.
Deliver(i, msg) ==
    LET m == Member[i]
    IN  /\ attached[i] /\ consumers[m] # Nothing /\ current[i] = Nothing
        /\ consumers[m].pin = i
        /\ msg \in stored /\ Partition[msg] \in consumers[m].filters
        /\ msg \notin consumers[m].pending
        /\ consumers' = [consumers EXCEPT ![m].pending = @ \cup {msg}]
        /\ aware' = [aware EXCEPT ![i] = TRUE]
        /\ current' = [current EXCEPT ![i] = msg]
        /\ running' = [running EXCEPT ![i] = @ \cup {msg}]
        /\ UNCHANGED <<log, stream, stored, pc, view, position, consumer,
                       attached, faults>>

\* AckWait passes before the callback acknowledges.
Redeliver(m, msg) ==
    /\ consumers[m] # Nothing
    /\ msg \in consumers[m].pending
    /\ Fault("ackwait")
    /\ consumers' = [consumers EXCEPT ![m].pending = @ \ {msg}]
    /\ UNCHANGED <<log, stream, stored, local>>

\* Mutant of Finish: an acknowledgement that does not count leaves the context
\* on its message.
FinishOnlyPending(i, msg) ==
    LET m == Member[i]
    IN  /\ msg \in running[i]
        /\ running' = [running EXCEPT ![i] = @ \ {msg}]
        /\ IF consumers[m] # Nothing /\ msg \in consumers[m].pending
           THEN /\ consumers' = [consumers EXCEPT ![m].pending = @ \ {msg}]
                /\ stored' = stored \ {msg}
                /\ current' = [current EXCEPT ![i] = IF @ = msg THEN Nothing ELSE @]
           ELSE UNCHANGED <<consumers, stored, current>>
        /\ UNCHANGED <<log, stream, pc, view, position, consumer, attached,
                       aware, faults>>

\* The callback acknowledges and returns.  The acknowledgement counts only
\* while a consumer of that name has the message pending.
Finish(i, msg) ==
    LET m == Member[i]
        counts == consumers[m] # Nothing /\ msg \in consumers[m].pending
    IN  /\ msg \in running[i]
        /\ running' = [running EXCEPT ![i] = @ \ {msg}]
        /\ current' = [current EXCEPT ![i] = IF @ = msg THEN Nothing ELSE @]
        /\ IF counts
           THEN /\ consumers' = [consumers EXCEPT ![m].pending = @ \ {msg}]
                /\ stored' = stored \ {msg}
           ELSE UNCHANGED <<consumers, stored>>
        /\ UNCHANGED <<log, stream, pc, view, position, consumer, attached,
                       aware, faults>>

-----------------------------------------------------------------------------
(* The administrator.                                                      *)

\* A new configuration is stored; a deleted group is created again with its
\* stream, once the old stream is gone.
ChangeConfig(config) ==
    /\ WithinBound
    /\ Latest = Deleted => ~stream
    /\ log' = Append(log, config)
    /\ stream' = TRUE
    /\ UNCHANGED <<consumers, stored, local, faults>>

\* DeleteElastic: first the key, then the stream with all that is in it.
DeleteConfig ==
    /\ WithinBound
    /\ Latest # Deleted
    /\ log' = Append(log, Deleted)
    /\ UNCHANGED <<stream, consumers, stored, local, faults>>

DropStream ==
    /\ Latest = Deleted /\ stream
    /\ stream' = FALSE
    /\ stored' = {}
    /\ consumers' = [m \in Members |-> Nothing]
    /\ attached' = [i \in Instances |-> FALSE]
    /\ aware' = [i \in Instances |-> FALSE]
    /\ current' = [i \in Instances |-> Nothing]
    /\ UNCHANGED <<log, pc, view, position, consumer, running, faults>>

-----------------------------------------------------------------------------
(* The instance.                                                           *)

\* ElasticConsume reads the configuration, and fails without one.  It may be
\* called again once an instance is done.
Start(i) ==
    /\ pc[i] \in {"down", "done"}
    /\ stream /\ Latest \in ValidConfigs
    /\ view' = [view EXCEPT ![i] = Latest]
    /\ aware' = [aware EXCEPT ![i] = FALSE]
    /\ Goto(i, "watch")
    /\ UNCHANGED <<server, position, consumer, attached, current, running,
                   faults>>

\* The watcher begins with the value the key has by now; only a member of the
\* configuration that was read joins at once.
Watch(i) ==
    /\ pc[i] = "watch"
    /\ position' = [position EXCEPT ![i] = Len(log) - 1]
    /\ Goto(i, IF IsInMembership(view[i], Member[i]) THEN "join" ELSE "loop")
    /\ UNCHANGED <<server, view, consumer, attached, aware, current, running,
                   faults>>

\* stopConsuming, and what the goroutine does next.
StopConsuming(i, next) ==
    /\ Detach(i)
    /\ consumer' = [consumer EXCEPT ![i] = FALSE]
    /\ Goto(i, next)

\* What the goroutine does about a configuration it receives.
MustStop(config, i) ==
    config \in ValidConfigs =>
        config.max # view[i].max \/ config.filters # view[i].filters

\* The lists are compared in order, and AddMembers writes its members in any.
Reordered(config) == Cardinality(config.members) > 1

Unchanged(config, i) ==
    /\ consumer[i]
    /\ config.members = view[i].members
    /\ config.mappings = view[i].mappings

\* Mutant of Receive: delete markers are passed over.
ReceiveIgnoringDeletes(i) ==
    /\ pc[i] = "loop"
    /\ position[i] < Len(log)
    /\ position' = [position EXCEPT ![i] = @ + 1]
    /\ LET config == log[position[i] + 1]
       IN  \/ /\ config # Deleted /\ MustStop(config, i)
              /\ StopConsuming(i, "done")
              /\ UNCHANGED view
           \/ /\ config = Deleted \/ (~MustStop(config, i) /\ Unchanged(config, i))
              /\ UNCHANGED <<consumers, pc, view, consumer, attached, current>>
           \/ /\ config # Deleted
              /\ ~MustStop(config, i)
              /\ ~Unchanged(config, i) \/ Reordered(config)
              /\ view' = [view EXCEPT ![i].members = config.members,
                                      ![i].mappings = config.mappings]
              /\ Goto(i, IF consumer[i] THEN "info" ELSE "backoff")
              /\ UNCHANGED <<consumers, consumer, attached, current>>
    /\ UNCHANGED <<log, stream, stored, aware, running, faults>>

\* The watcher's next entry arrives.
Receive(i) ==
    /\ pc[i] = "loop"
    /\ position[i] < Len(log)
    /\ position' = [position EXCEPT ![i] = @ + 1]
    /\ LET config == log[position[i] + 1]
       IN  \/ /\ MustStop(config, i)
              /\ StopConsuming(i, "done")
              /\ UNCHANGED view
           \/ /\ ~MustStop(config, i) /\ Unchanged(config, i)
              /\ UNCHANGED <<consumers, pc, view, consumer, attached, current>>
           \/ /\ ~MustStop(config, i)
              /\ ~Unchanged(config, i) \/ Reordered(config)
              /\ view' = [view EXCEPT ![i].members = config.members,
                                      ![i].mappings = config.mappings]
              /\ Goto(i, IF consumer[i] THEN "info" ELSE "backoff")
              /\ UNCHANGED <<consumers, consumer, attached, current>>
    /\ UNCHANGED <<log, stream, stored, aware, running, faults>>

\* processMembershipChange: consumer.Info tells whether this instance is the
\* pinned one, and an error counts as no; then it stops consuming.
Info(i) ==
    /\ pc[i] = "info"
    /\ \/ /\ StopConsuming(i, IF aware[i] THEN "delete" ELSE "backoff")
          /\ UNCHANGED faults
       \/ /\ Fault("info")
          /\ StopConsuming(i, "backoff")
    /\ UNCHANGED <<log, stream, stored, view, position, aware, running>>

\* Only who was pinned deletes the consumer; the others wait a moment.
DeleteOwn(i) ==
    /\ pc[i] = "delete"
    /\ Goto(i, "join")
    /\ \/ /\ Remove(Member[i])
          /\ UNCHANGED faults
       \/ /\ Fault("delete")
          /\ UNCHANGED <<consumers, attached, aware, current>>
    /\ UNCHANGED <<log, stream, stored, view, position, consumer, running>>

Backoff(i) ==
    /\ pc[i] = "backoff"
    /\ Goto(i, "join")
    /\ UNCHANGED <<server, view, position, consumer, attached, aware, current,
                   running, faults>>

\* Mutant of Create: the filters are those of the whole group.
CreateForGroup(i) ==
    LET m == Member[i]
        filters == 0 .. view[i].max - 1
    IN  /\ CanCreate(m, filters)
        /\ consumers' = IF consumers[m] = Nothing
                        THEN [consumers EXCEPT ![m] = NewConsumer(filters)]
                        ELSE consumers
        /\ consumer' = [consumer EXCEPT ![i] = TRUE]
        /\ Goto(i, "consume")

\* CreateConsumer succeeds: only now does the instance have a consumer.
Create(i) ==
    LET m == Member[i]
    IN  /\ CanCreate(m, Filters(view[i], i))
        /\ consumers' = IF consumers[m] = Nothing
                        THEN [consumers EXCEPT ![m] = NewConsumer(Filters(view[i], i))]
                        ELSE consumers
        /\ consumer' = [consumer EXCEPT ![i] = TRUE]
        /\ Goto(i, "consume")

\* Mutant of GiveUp: instance.consumer keeps what it was.
GiveUpKeeping(i) ==
    /\ consumer' = [consumer EXCEPT ![i] = TRUE]
    /\ Goto(i, "loop")
    /\ UNCHANGED consumers

\* It does not, and the goroutine goes back to its loop with a nil consumer.
GiveUp(i) ==
    /\ consumer' = [consumer EXCEPT ![i] = FALSE]
    /\ Goto(i, "loop")
    /\ UNCHANGED consumers

\* joinMemberConsumer and the first call of tryCreateConsumer.
Join(i) ==
    LET m == Member[i]
        filters == Filters(view[i], i)
    IN  /\ pc[i] = "join"
        /\ \/ /\ filters = {}
              /\ Goto(i, "loop")
              /\ UNCHANGED <<consumers, consumer, faults>>
           \/ /\ filters # {}
              /\ Create(i)
              /\ UNCHANGED faults
           \/ /\ filters # {}
              /\ stream /\ consumers[m] # Nothing /\ ~CanCreate(m, filters)
              /\ Goto(i, "replace")
              /\ UNCHANGED <<consumers, consumer, faults>>
           \/ /\ filters # {}
              /\ ~stream \/ consumers[m] = Nothing
              /\ ~CanCreate(m, filters)
              /\ GiveUp(i)
              /\ UNCHANGED faults
           \/ /\ filters # {}
              /\ Fault("create")
              /\ GiveUp(i)
        /\ UNCHANGED <<log, stream, stored, view, position, attached, aware,
                       current, running>>

\* ErrConsumerExists: delete what is there, whoever uses it; if someone else
\* has deleted it the call fails, as it may for any other reason.
Replace(i) ==
    LET m == Member[i]
    IN  /\ pc[i] = "replace"
        /\ \/ /\ consumers[m] # Nothing
              /\ Remove(m)
              /\ Goto(i, "recreate")
              /\ UNCHANGED <<consumer, faults>>
           \/ /\ IF consumers[m] = Nothing THEN UNCHANGED faults
                                          ELSE Fault("delete")
              /\ GiveUp(i)
              /\ UNCHANGED <<attached, aware, current>>
        /\ UNCHANGED <<log, stream, stored, view, position, running>>

\* The second call of tryCreateConsumer: "will try again later" if it fails.
Recreate(i) ==
    /\ pc[i] = "recreate"
    /\ \/ /\ Create(i)
          /\ UNCHANGED faults
       \/ /\ IF CanCreate(Member[i], Filters(view[i], i)) THEN Fault("create")
                                                         ELSE UNCHANGED faults
          /\ GiveUp(i)
    /\ UNCHANGED <<log, stream, stored, view, position, attached, aware, current,
                   running>>

\* startConsuming.  It pulls by the consumer's name, whatever has become of
\* the consumer since; a Consume that fails is logged, and the consumer kept.
Consume(i) ==
    /\ pc[i] = "consume"
    /\ Goto(i, "loop")
    /\ \/ /\ attached' = [attached EXCEPT ![i] = TRUE]
          /\ UNCHANGED faults
       \/ /\ Fault("consume")
          /\ UNCHANGED attached
    /\ UNCHANGED <<server, view, position, consumer, aware, current, running>>

\* Mutant of Retry: the instance tries again though it has a consumer.
RetryAlways(i) ==
    /\ pc[i] = "loop"
    /\ IsInMembership(view[i], Member[i])
    /\ Filters(view[i], i) # {}
    /\ Goto(i, "join")
    /\ UNCHANGED <<server, view, position, consumer, attached, aware, current,
                   running, faults>>

\* AckWait and half a second pass with nothing received (what is in the log
\* may be on its way): an instance without a consumer tries again if it is in
\* the membership.
Retry(i) ==
    /\ pc[i] = "loop"
    /\ ~consumer[i]
    /\ IsInMembership(view[i], Member[i])
    /\ Filters(view[i], i) # {}
    /\ Goto(i, "join")
    /\ UNCHANGED <<server, view, position, consumer, attached, aware, current,
                   running, faults>>

\* The watcher is closed under the goroutine: that ends it too.
WatcherCloses(i) ==
    /\ pc[i] = "loop"
    /\ Fault("watch")
    /\ StopConsuming(i, "done")
    /\ UNCHANGED <<log, stream, stored, view, position, aware, running>>

\* Stop cancels the context of the goroutine.
Stop(i) ==
    /\ pc[i] = "loop"
    /\ Fault("stop")
    /\ StopConsuming(i, "done")
    /\ UNCHANGED <<log, stream, stored, view, position, aware, running>>

\* The process dies at any point, with its callbacks.
Crash(i) ==
    /\ pc[i] \notin {"down", "done"}
    /\ Fault("crash")
    /\ StopConsuming(i, "done")
    /\ running' = [running EXCEPT ![i] = {}]
    /\ aware' = [aware EXCEPT ![i] = FALSE]
    /\ UNCHANGED <<log, stream, stored, view, position>>

Routine(i) ==
    \/ Watch(i) \/ Info(i) \/ DeleteOwn(i) \/ Backoff(i) \/ Join(i)
    \/ Replace(i) \/ Recreate(i) \/ Consume(i)

Next ==
    \/ \E m \in Members :
          \/ Expire(m) \/ Disconnect(m) \/ PinExpires(m) \/ StepDown(m)
          \/ \E msg \in Messages : Redeliver(m, msg)
    \/ \E i \in Instances :
          \/ Start(i) \/ Receive(i) \/ Routine(i) \/ Retry(i)
          \/ WatcherCloses(i) \/ Stop(i) \/ Crash(i) \/ Pin(i)
          \/ \E msg \in Messages : Deliver(i, msg) \/ Finish(i, msg)
    \/ \E config \in Configs : ChangeConfig(config)
    \/ DeleteConfig
    \/ DropStream

\* The server's timers and pulls go on, callbacks return, goroutines run,
\* entries arrive however often the retry timer fires, and that timer is armed
\* again and again.
Fairness ==
    /\ \A m \in Members : WF_vars(Expire(m)) /\ WF_vars(PinExpires(m))
    /\ \A i \in Instances :
          /\ WF_vars(Routine(i)) /\ WF_vars(Retry(i))
          /\ SF_vars(Receive(i)) /\ WF_vars(Pin(i))
          /\ \A msg \in Messages :
                SF_vars(Deliver(i, msg)) /\ WF_vars(Finish(i, msg))
    /\ WF_vars(DropStream)

Spec == Init /\ [][Next]_vars /\ Fairness

-----------------------------------------------------------------------------
Labels == {"down", "done", "watch", "loop", "info", "delete", "backoff",
           "join", "replace", "recreate", "consume"}

LogOK ==
    /\ log \in Seq(Configs \cup {Deleted}) /\ Len(log) \in Nat \ {0}
    /\ stream \in BOOLEAN
    /\ faults \in 0 .. MaxFaults
    /\ Len(log) + faults <= MaxEvents

ConsumersOK ==
    /\ stored \subseteq Messages
    /\ consumers \in [Members -> Consumer \cup {Nothing}]
    /\ \A m \in Members : consumers[m] # Nothing =>
          /\ consumers[m].pin \in Peers(m) \cup {Nothing, Gone}
          /\ consumers[m].pending \subseteq stored

InstancesOK ==
    /\ pc \in [Instances -> Labels]
    /\ view \in [Instances -> Configs \cup {Deleted}]
    /\ position \in [Instances -> Nat]
    /\ \A i \in Instances : position[i] <= Len(log)
    /\ consumer \in [Instances -> BOOLEAN]
    /\ attached \in [Instances -> BOOLEAN]
    /\ aware \in [Instances -> BOOLEAN]
    /\ current \in [Instances -> Messages \cup {Nothing}]
    /\ running \in [Instances -> SUBSET Messages]
    /\ \A i \in Instances : current[i] \in running[i] \cup {Nothing}

\* Type invariant of the server's and the instances' state: among the rest, a
\* watcher never reads past the log, what is pending is in the stream, and a
\* context handles only a message that one of its callbacks still has.
TypeOK == LogOK /\ ConsumersOK /\ InstancesOK

\* An instance that is consuming consumes exactly the partitions its view of
\* the membership gives it ("we need to verify that the consumer is created
\* with the correct filters"): no stale consumer is ever taken over.
ConsumesItsPartitions ==
    \A i \in Instances :
        attached[i] /\ pc[i] = "loop" /\ consumers[Member[i]] # Nothing =>
            consumers[Member[i]].filters = Filters(view[i], i)

\* A consume context that pulls is one that stopConsuming can stop: it acts only
\* when instance.consumer is not nil, and joinMemberConsumer overwrites that
\* field with the result of a call that may fail.
ContextsCanBeStopped == \A i \in Instances : attached[i] => consumer[i]

\* What the server's consumers serve and have handed to each member.
Share == [m \in Members |->
             IF consumers[m] = Nothing THEN {} ELSE consumers[m].filters]
Held  == [m \in Members |->
             IF consumers[m] = Nothing THEN {} ELSE consumers[m].pending]

\* "The library takes care of the partitioning and the mapping of the partitions
\* between the members of the group": however late instances are, and whatever
\* fails, a member is served what a stored configuration gives it and nobody else
\* has, and a message leaves the stream only by the acknowledgement of the one
\* member that has it.
Promise == INSTANCE ConsumerGroup WITH open <- stream, share <- Share, held <- Held

ImplementsConsumerGroup == Promise!Spec

Live(i) == pc[i] \notin {"down", "done"}

\* A member that the latest configuration gives partitions to, and that has an
\* instance, has one that consumes them.
Served(m) ==
    (\E i \in Peers(m) : Live(i)) /\ Latest # Deleted /\ Assigned[Latest][m] # {}
        => \E i \in Peers(m) :
              /\ attached[i] /\ consumers[m] # Nothing
              /\ consumers[m].filters = Assigned[Latest][m]

\* "We want it to always be trying to self-correct if it's not currently
\* joined": once the changes stop, every member comes to be served.
Converges == <>[](\A m \in Members : Served(m))

\* The instance has a consumer and no context that pulls from it: the retry,
\* which asks only whether instance.consumer is nil, passes it over.
Stranded(i) == pc[i] = "loop" /\ consumer[i] /\ ~attached[i]

\* With one instance per member, only a Consume that returns an error, or a client
\* cut off until its consumer has expired, strands an instance (or the deletion
\* of the whole group, which is about to stop it).
OnlyLossesStrand ==
    [][\A i \in Instances : ~Stranded(i) /\ Stranded(i)' =>
          pc[i] = "consume" \/ Disconnect(Member[i]) \/ DropStream]_vars

\* That is as far as the self-correction goes: whatever else happens, and
\* whenever, once the changes stop every member comes to be served that has no
\* stranded instance.
SelfCorrects ==
    /\ OnlyLossesStrand
    /\ <>[](\A m \in Members : Served(m) \/ \E i \in Peers(m) : Stranded(i))

\* Once the group is deleted for good, every instance comes to stop, and none
\* pulls messages any more.
DeletionStopsAll ==
    <>[](Latest = Deleted)
        => <>[](\A i \in Instances : ~Live(i) /\ ~attached[i])

\* No two callbacks have messages of one partition: "in no way more than one
\* message for a particular key can be consumed at the same time".
OnePerPartition ==
    \A i, j \in Instances :
        \A a \in running[i], b \in running[j] :
            Partition[a] = Partition[b] => i = j /\ a = b
=============================================================================
