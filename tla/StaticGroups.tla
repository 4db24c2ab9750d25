---------------------------- MODULE StaticGroups ----------------------------
(***************************************************************************)
(* Static consumer groups: administrators that create and delete groups,   *)
(* and the instances that consume from them.  Every group of a stream has  *)
(* its key in the KV bucket, and one durable consumer per member on the    *)
(* stream itself, which all groups share.                                  *)
(*                                                                         *)
(* A static group does not change.  An instance only waits for its key to  *)
(* be deleted, or to hold something else than what it has read, and then   *)
(* stops for good, deleting its member's consumer.                         *)
(*                                                                         *)
(* A name is a sequence of the parts that dashes separate.                 *)
(***************************************************************************)
EXTENDS PartitionFilters

CONSTANTS
    Admins,     \* the callers of CreateStatic and DeleteStatic
    Instances,  \* the processes that call StaticConsume
    Group,      \* the group each of them names
    Member,     \* and the member
    Configs,    \* the configurations the administrators may ask for
    Deleted,    \* the delete marker of a key
    Nothing,    \* no consumer
    Faults,     \* what may go wrong
    MaxChanges, \* bound on the entries of a key
    MaxFaults   \* bound on how many faults there are

ASSUME StaticAssumption ==
    /\ DOMAIN Group = Instances /\ DOMAIN Member = Instances
    /\ \A c \in Configs : c.max \in Nat
    /\ Deleted \notin Configs
    /\ Faults \subseteq {"create", "consume", "delete", "list", "watch", "crash"}
    /\ MaxChanges \in Nat /\ MaxFaults \in Nat

Groups == {Group[i] : i \in Instances}

\* composeStaticConsumerName
Durable(i) == Group[i] \o <<Member[i]>>

Durables == {Durable(i) : i \in Instances}

\* strings.HasPrefix(name, group + "-")
HasPrefix(name, group) ==
    Len(name) > Len(group) /\ SubSeq(name, 1, Len(group)) = group

VARIABLES
    log,       \* per group: the entries written to its key, in order
    consumers, \* per durable name: the filters of the consumer, or Nothing
    task,      \* per administrator: the call it is in
    pc,        \* per instance: where its goroutine is
    view,      \* per instance: instance.Config
    position,  \* per instance: how far its watcher has read the log
    consumer,  \* per instance: instance.consumer is not nil
    attached,  \* per instance: its consume context still pulls messages
    faults     \* how many faults there have been

server == <<log, consumers>>
local  == <<pc, view, position, consumer, attached>>
vars   == <<server, task, local, faults>>

\* What kv.Get finds: a delete marker is as good as no entry.
Latest(group) == IF log[group] = <<>> THEN Deleted
                                      ELSE log[group][Len(log[group])]

\* A group without filters takes every subject of its partitions.
StaticFilters(config, name) ==
    LET Generate(filter) ==
            {<<e.partition, e.subject>> :
                e \in GeneratePartitionFilters(config.members, config.max,
                                               config.mappings, name, filter)}
    IN  IF config.filters # <<>>
        THEN UNION {Generate(config.filters[k]) : k \in 1 .. Len(config.filters)}
        ELSE Generate(AllSubjects)

validateStaticConfig(config) ==
    /\ config.max >= 1
    /\ config.members = {} \/ config.mappings = <<>>
    /\ config.mappings # <<>> => ValidMappings(config.mappings, config.max)

\* Constants, which TLC evaluates once.
ValidConfigs == {c \in Configs : validateStaticConfig(c)}
Assigned == [c \in Configs, m \in {Member[i] : i \in Instances} |->
                StaticFilters(c, m)]

NoTask == [step |-> "idle", group |-> <<>>, config |-> Deleted, names |-> {}]

Init ==
    /\ log = [g \in Groups |-> <<>>]
    /\ consumers = [n \in Durables |-> Nothing]
    /\ task = [a \in Admins |-> NoTask]
    /\ pc = [i \in Instances |-> "down"]
    /\ view = [i \in Instances |-> Deleted]
    /\ position = [i \in Instances |-> 0]
    /\ consumer = [i \in Instances |-> FALSE]
    /\ attached = [i \in Instances |-> FALSE]
    /\ faults = 0

Fault(kind) ==
    /\ kind \in Faults
    /\ faults < MaxFaults
    /\ faults' = faults + 1

Goto(i, label) == pc' = [pc EXCEPT ![i] = label]

Write(group, value) ==
    /\ Len(log[group]) < MaxChanges
    /\ log' = [log EXCEPT ![group] = Append(@, value)]

\* A consumer goes away, and whoever was pulling from it is told and gives up.
Remove(name) ==
    /\ consumers' = [consumers EXCEPT ![name] = Nothing]
    /\ attached' = [i \in Instances |-> attached[i] /\ Durable(i) # name]

-----------------------------------------------------------------------------
(* The administrators.                                                     *)

\* CreateStatic finds no entry, and is going to write one.  (If there is one it
\* only compares.)
CreateGet(a, group, config) ==
    /\ task[a].step = "idle"
    /\ config \in ValidConfigs
    /\ Latest(group) = Deleted
    /\ task' = [task EXCEPT ![a] = [step |-> "put", group |-> group,
                                    config |-> config, names |-> {}]]
    /\ UNCHANGED <<server, local, faults>>

\* kv.Put, over whatever has been written since.
CreatePut(a) ==
    /\ task[a].step = "put"
    /\ Write(task[a].group, task[a].config)
    /\ task' = [task EXCEPT ![a] = NoTask]
    /\ UNCHANGED <<consumers, local, faults>>

\* DeleteStatic: the key first,
DeleteKey(a, group) ==
    /\ task[a].step = "idle"
    /\ Write(group, Deleted)
    /\ task' = [task EXCEPT ![a] = [step |-> "list", group |-> group,
                                    config |-> Deleted, names |-> {}]]
    /\ UNCHANGED <<consumers, local, faults>>

\* then the consumers the stream has with the group's prefix.  They come in pages,
\* while consumers are deleted, and an error ends the listing without a word:
\* either way some may be missing.
ListConsumers(a) ==
    LET found == {n \in Durables : consumers[n] # Nothing
                                    /\ HasPrefix(n, task[a].group)}
    IN  /\ task[a].step = "list"
        /\ \E names \in SUBSET found :
              /\ task' = [task EXCEPT ![a].step = "clean", ![a].names = names]
              /\ IF names = found THEN UNCHANGED faults ELSE Fault("list")
        /\ UNCHANGED <<server, local>>

\* Mutant of DeleteNext: the deletion is left to the instances.
DeleteNextNever(a) ==
    /\ task[a].step = "clean"
    /\ \E n \in task[a].names :
          task' = [task EXCEPT ![a].names = @ \ {n}]
    /\ UNCHANGED <<server, local, faults>>

\* They are deleted one by one; an error is noted and the next one is tried.
DeleteNext(a) ==
    /\ task[a].step = "clean"
    /\ \E n \in task[a].names :
          /\ task' = [task EXCEPT ![a].names = @ \ {n}]
          /\ \/ Remove(n) /\ UNCHANGED faults
             \/ Fault("delete") /\ UNCHANGED <<consumers, attached>>
    /\ UNCHANGED <<log, pc, view, position, consumer>>

DeleteReturns(a) ==
    /\ task[a].step = "clean"
    /\ task[a].names = {}
    /\ task' = [task EXCEPT ![a] = NoTask]
    /\ UNCHANGED <<server, local, faults>>

\* The process of an administrator dies between two of its calls.
Abandon(a) ==
    /\ task[a].step # "idle"
    /\ Fault("crash")
    /\ task' = [task EXCEPT ![a] = NoTask]
    /\ UNCHANGED <<server, local>>

-----------------------------------------------------------------------------
(* The instance.                                                           *)

\* StaticConsume reads the configuration, and fails without one.  It may be
\* called again once an instance is done.
Start(i) ==
    /\ pc[i] \in {"down", "done"}
    /\ Latest(Group[i]) \in ValidConfigs
    /\ view' = [view EXCEPT ![i] = Latest(Group[i])]
    /\ Goto(i, "watch")
    /\ UNCHANGED <<server, task, position, consumer, attached, faults>>

\* Mutant of Watch: the membership is not looked at.
WatchUnchecked(i) ==
    /\ pc[i] = "watch"
    /\ position' = [position EXCEPT ![i] = Len(log[Group[i]]) - 1]
    /\ Goto(i, "join")
    /\ UNCHANGED <<server, task, view, consumer, attached, faults>>

\* The watcher begins with the value the key has by now; a name that is not in
\* the membership that was read is refused.
Watch(i) ==
    /\ pc[i] = "watch"
    /\ position' = [position EXCEPT ![i] = Len(log[Group[i]]) - 1]
    /\ Goto(i, IF IsInMembership(view[i], Member[i]) THEN "join" ELSE "done")
    /\ UNCHANGED <<server, task, view, consumer, attached, faults>>

\* Mutant of Join: the consumer that is there is taken, whatever its filters.
JoinAny(i) ==
    LET name    == Durable(i)
        filters == Assigned[view[i], Member[i]]
    IN  /\ pc[i] = "join"
        /\ consumers' = IF filters # {} /\ consumers[name] = Nothing
                        THEN [consumers EXCEPT ![name] = filters]
                        ELSE consumers
        /\ consumer' = [consumer EXCEPT ![i] = filters # {}]
        /\ Goto(i, IF filters = {} THEN "loop" ELSE "consume")
        /\ UNCHANGED <<log, task, view, position, attached, faults>>

\* joinMemberConsumerStatic: CreateConsumer is idempotent for an identical
\* configuration, and any error makes StaticConsume fail.  A member without
\* partitions has nothing to create.
Join(i) ==
    LET name    == Durable(i)
        filters == Assigned[view[i], Member[i]]
    IN  /\ pc[i] = "join"
        /\ \/ /\ filters = {}
              /\ Goto(i, "loop")
              /\ UNCHANGED <<consumers, consumer, faults>>
           \/ /\ filters # {} /\ consumers[name] \in {Nothing, filters}
              /\ consumers' = [consumers EXCEPT ![name] = filters]
              /\ consumer' = [consumer EXCEPT ![i] = TRUE]
              /\ Goto(i, "consume")
              /\ UNCHANGED faults
           \/ /\ filters # {} /\ consumers[name] \notin {Nothing, filters}
              /\ Goto(i, "done")
              /\ UNCHANGED <<consumers, consumer, faults>>
           \/ /\ filters # {} /\ Fault("create")
              /\ Goto(i, "done")
              /\ UNCHANGED <<consumers, consumer>>
        /\ UNCHANGED <<log, task, view, position, attached>>

\* startConsuming: a Consume that fails is logged, and nothing else.
Consume(i) ==
    /\ pc[i] = "consume"
    /\ Goto(i, "loop")
    /\ \/ /\ attached' = [attached EXCEPT ![i] = TRUE]
          /\ UNCHANGED faults
       \/ /\ Fault("consume")
          /\ UNCHANGED attached
    /\ UNCHANGED <<server, task, view, position, consumer>>

\* stopConsuming, and what the goroutine does next.
StopConsuming(i, next) ==
    /\ attached' = [attached EXCEPT ![i] = FALSE]
    /\ consumer' = [consumer EXCEPT ![i] = FALSE]
    /\ Goto(i, next)

\* Mutant of Receive: only a delete marker ends the instance.
ReceiveDeletes(i) ==
    /\ pc[i] = "loop"
    /\ position[i] < Len(log[Group[i]])
    /\ position' = [position EXCEPT ![i] = @ + 1]
    /\ IF log[Group[i]][position[i] + 1] # Deleted
       THEN UNCHANGED <<pc, consumer, attached>>
       ELSE StopConsuming(i, "delete")
    /\ UNCHANGED <<server, task, view, faults>>

\* The watcher's next entry: the one that was read is passed over, any other
\* ends the instance.
Receive(i) ==
    /\ pc[i] = "loop"
    /\ position[i] < Len(log[Group[i]])
    /\ position' = [position EXCEPT ![i] = @ + 1]
    /\ IF log[Group[i]][position[i] + 1] = view[i]
       THEN UNCHANGED <<pc, consumer, attached>>
       ELSE StopConsuming(i, "delete")
    /\ UNCHANGED <<server, task, view, faults>>

\* stopAndDeleteMemberConsumer: the member's consumer is deleted, whoever uses
\* it by now.
DeleteOwn(i) ==
    /\ pc[i] = "delete"
    /\ Goto(i, "done")
    /\ \/ Remove(Durable(i)) /\ UNCHANGED faults
       \/ Fault("delete") /\ UNCHANGED <<consumers, attached>>
    /\ UNCHANGED <<log, task, view, position, consumer>>

\* The watcher is closed under the goroutine, which does not mind: nothing but
\* Stop reaches it any more.
WatcherCloses(i) ==
    /\ pc[i] = "loop"
    /\ Fault("watch")
    /\ Goto(i, "blind")
    /\ UNCHANGED <<server, task, view, position, consumer, attached>>

\* Stop cancels the context of the goroutine, which leaves the consumer alone.
Stop(i) ==
    /\ pc[i] \in {"loop", "blind"}
    /\ StopConsuming(i, "done")
    /\ UNCHANGED <<server, task, view, position, faults>>

\* The process dies at any point.
Crash(i) ==
    /\ pc[i] \notin {"down", "done"}
    /\ Fault("crash")
    /\ StopConsuming(i, "done")
    /\ UNCHANGED <<server, task, view, position>>

Routine(i) == Watch(i) \/ Join(i) \/ Consume(i) \/ DeleteOwn(i)

Administer(a) ==
    CreatePut(a) \/ ListConsumers(a) \/ DeleteNext(a) \/ DeleteReturns(a)

Next ==
    \/ \E a \in Admins :
          \/ Administer(a) \/ Abandon(a)
          \/ \E group \in Groups :
                \/ DeleteKey(a, group)
                \/ \E config \in Configs : CreateGet(a, group, config)
    \/ \E i \in Instances :
          \/ Start(i) \/ Routine(i) \/ Receive(i)
          \/ WatcherCloses(i) \/ Stop(i) \/ Crash(i)

\* Calls to the server return, entries arrive and goroutines run.
Fairness ==
    /\ \A a \in Admins : WF_vars(Administer(a))
    /\ \A i \in Instances : WF_vars(Routine(i)) /\ WF_vars(Receive(i))

Spec == Init /\ [][Next]_vars /\ Fairness

-----------------------------------------------------------------------------
Labels == {"down", "done", "watch", "join", "consume", "loop", "blind", "delete"}

\* Type invariant: among the rest, a watcher never reads past the log of its
\* group, and whoever is in the loop is a member of the configuration it read.
TypeOK ==
    /\ \A g \in Groups : log[g] \in Seq(Configs \cup {Deleted})
                         /\ Len(log[g]) <= MaxChanges
    /\ DOMAIN consumers = Durables
    /\ \A a \in Admins :
          /\ task[a].step \in {"idle", "put", "list", "clean"}
          /\ task[a].config \in Configs \cup {Deleted}
          /\ task[a].names \subseteq Durables
    /\ pc \in [Instances -> Labels]
    /\ view \in [Instances -> ValidConfigs \cup {Deleted}]
    /\ \A i \in Instances :
          /\ position[i] \in 0 .. Len(log[Group[i]])
          /\ pc[i] \in {"join", "consume", "loop", "blind"} =>
                IsInMembership(view[i], Member[i])
    /\ {consumer, attached} \subseteq [Instances -> BOOLEAN]
    /\ faults \in 0 .. MaxFaults

\* An instance never pulls from a consumer that was made for another
\* configuration of the group, although the durable name stays the same when a
\* group is deleted and created anew with its instances running.
ConsumesItsPartitions ==
    \A i \in Instances :
        attached[i] /\ consumers[Durable(i)] # Nothing =>
            consumers[Durable(i)] = Assigned[view[i], Member[i]]

Live(i) == pc[i] \notin {"down", "done"}

\* "Any change to the consumer group's config in the KV bucket will cause all
\* the member instances for all members of the group to stop consuming": an
\* instance does not go on with a configuration that is no longer the stored
\* one, unless its watcher was closed.
Settles ==
    <>[](\A i \in Instances :
            Live(i) /\ pc[i] # "blind" => view[i] = Latest(Group[i]))

\* The group is deleted, and DeleteStatic has listed its consumers.
Listed(group) ==
    /\ Latest(group) = Deleted
    /\ \A a \in Admins : task[a].step = "list" => task[a].group # group

\* The instance was about to create its consumer when they had been listed for
\* the last time, and is done without having read the delete marker.
Overlooked(j) ==
    /\ <>(pc[j] = "join" /\ []Listed(Group[j]))
    /\ <>[](pc[j] = "done" /\ position[j] < Len(log[Group[j]]))

\* Who deletes what, when a group is deleted for good and no call fails:
\* DeleteStatic the consumers that are there, the ones of instances stopped
\* before included, and an instance that reads the delete marker its own.  Only
\* one that creates its consumer after DeleteStatic has listed them, and is
\* stopped before it reads the marker, leaves it behind.
DeletionCleansUp ==
    [](faults = 0) =>
        \A i \in Instances :
            <>[](Latest(Group[i]) = Deleted)
                => \/ <>[](consumers[Durable(i)] = Nothing)
                   \/ \E j \in Instances : Durable(j) = Durable(i) /\ Overlooked(j)

\* "Consumption stops either when some error is encountered, ... the consumer
\* group's config gets deleted, or you invoke Stop()", and Done() tells: an
\* instance that has stopped pulling messages comes to be done.
StoppedMeansDone ==
    \A i \in Instances :
        pc[i] = "loop" /\ consumer[i] /\ ~attached[i] ~> ~Live(i)

\* DeleteStatic deletes "the consumers for the consumer group", not those of
\* another group of the stream.
DeletesOnlyItsGroup ==
    [][\A a \in Admins, i \in Instances :
          DeleteNext(a) /\ attached[i] /\ ~attached'[i] =>
              Group[i] = task[a].group]_vars
=============================================================================
