----------------------- MODULE ElasticInstances_proofs -----------------------
(***************************************************************************)
(* For any number of instances, members, configurations and messages: the  *)
(* types of the state, that every context that pulls can be stopped, that  *)
(* an instance alone of its member pulls its own partitions, and that the  *)
(* instances together keep what ConsumerGroup promises.                    *)
(***************************************************************************)
EXTENDS ElasticInstances, SequenceTheorems, TLAPS

\* Whoever runs has read a valid configuration of the group.
ViewsValid ==
    \A i \in Instances :
        pc[i] \notin {"down", "done"} => view[i] \in ValidConfigs

\* Where the goroutine is while it has a consumer, and while it pulls.
Joined ==
    \A i \in Instances :
        /\ consumer[i] => pc[i] \in {"consume", "loop", "info"}
        /\ pc[i] = "consume" => consumer[i]
        /\ attached[i] => consumer[i] /\ pc[i] \in {"loop", "info"}

\* No partition is in the filters of two consumers, and what is pending on a
\* consumer is of its partitions.
Separate ==
    \A m \in Members : consumers[m] # Nothing =>
        /\ \A msg \in consumers[m].pending : Partition[msg] \in consumers[m].filters
        /\ \A other \in Members \ {m} : consumers[other] # Nothing =>
              consumers[m].filters \cap consumers[other].filters = {}

\* A member with one instance: what that instance has made is what it needs.
OwnConsumer ==
    \A i \in Instances :
        /\ consumer[i] /\ pc[i] \in {"consume", "loop"}
        /\ consumers[Member[i]] # Nothing
        => consumers[Member[i]].filters = Filters(view[i], i)

IInv == TypeOK /\ ViewsValid /\ Joined /\ Separate

-----------------------------------------------------------------------------
\* The filters of a valid configuration name partitions of the group.
LEMMA PartitionsAreNumbers ==
    ASSUME NEW config \in Configs, validateConfig(config), NEW name
    PROVE  PartitionsOf(config, name) \subseteq Nat
<1>1. config.max \in Nat
    BY InstancesAssumption
<1>2. ASSUME NEW subject
      PROVE  \A e \in GeneratePartitionFilters(config.members, config.max,
                           config.mappings, name, subject) : e.partition \in Nat
    <2>1. CASE config.members # {}
        BY <1>1, <2>1 DEF GeneratePartitionFilters, BalancedPartitions
    <2>2. CASE config.members = {} /\ config.mappings = <<>>
        BY <2>2 DEF GeneratePartitionFilters, MappingSlots
    <2>3. CASE config.members = {} /\ config.mappings # <<>>
        <3>1. \A s \in MappingSlots(config.mappings) :
                  PartitionAt(config.mappings, s) \in 0 .. config.max - 1
            BY <2>3 DEF validateConfig, ValidMappings
        <3> QED
            BY <1>1, <2>3, <3>1 DEF GeneratePartitionFilters
    <2> QED
        BY <2>1, <2>2, <2>3
<1>3. \A e \in ElasticGetPartitionFilters(config, name) : e.partition \in Nat
    BY <1>2 DEF ElasticGetPartitionFilters
<1> QED
    BY <1>3 DEF PartitionsOf

\* The filters an instance that runs asks for.
LEMMA FiltersAreNumbers ==
    ASSUME ViewsValid, NEW i \in Instances, pc[i] \notin {"down", "done"}
    PROVE  Filters(view[i], i) \in SUBSET Nat
<1>1. view[i] \in Configs /\ validateConfig(view[i])
    BY DEF ViewsValid, ValidConfigs
<1>2. Member[i] \in Members
    BY DEF Members
<1>3. Filters(view[i], i) = PartitionsOf(view[i], Member[i])
    BY <1>1, <1>2 DEF Filters, Assigned
<1> QED
    BY <1>1, <1>3, PartitionsAreNumbers

\* A configuration with the members and mappings of another that it otherwise
\* agrees with is the other.
LEMMA ViewReplaced ==
    ASSUME NEW v \in Configs, NEW c \in Configs, c.max = v.max, c.filters = v.filters
    PROVE  [v EXCEPT !.members = c.members, !.mappings = c.mappings] = c
<1>1. /\ c = [max |-> c.max, filters |-> c.filters,
              members |-> c.members, mappings |-> c.mappings]
      /\ v = [max |-> v.max, filters |-> v.filters,
              members |-> v.members, mappings |-> v.mappings]
    BY InstancesAssumption
<1> QED
    BY <1>1

\* A new view that is put together from the old one and an entry is that entry.
LEMMA ViewReceived ==
    ASSUME IInv, NEW i \in Instances, pc[i] = "loop", NEW config, ~MustStop(config, i),
           NEW next, next = [view EXCEPT ![i].members = config.members,
                                         ![i].mappings = config.mappings]
    PROVE  next[i] = config
<1>1. /\ config \in ValidConfigs
      /\ config.max = view[i].max /\ config.filters = view[i].filters
    BY DEF MustStop
<1>2. config \in Configs /\ view[i] \in Configs
    BY <1>1 DEF IInv, ViewsValid, ValidConfigs
<1>3. next[i] = [view[i] EXCEPT !.members = config.members,
                                !.mappings = config.mappings]
    BY DEF IInv, TypeOK, InstancesOK
<1>4. [view[i] EXCEPT !.members = config.members, !.mappings = config.mappings] = config
    BY <1>1, <1>2, ViewReplaced, Zenon
<1> QED
    BY <1>3, <1>4

-----------------------------------------------------------------------------
(* What the steps do to the server's consumers.                            *)

\* Nothing.
LEMMA UnchangedSound ==
    ASSUME ConsumersOK, Separate, UNCHANGED <<consumers, stored>>
    PROVE  ConsumersOK' /\ Separate'
BY DEF ConsumersOK, Separate

\* A consumer is deleted.
LEMMA RemovedSound ==
    ASSUME ConsumersOK, Separate, NEW m \in Members,
           consumers' = [consumers EXCEPT ![m] = Nothing], UNCHANGED stored
    PROVE  ConsumersOK' /\ Separate'
BY DEF ConsumersOK, Separate

\* An instance is pinned, or the pin is lost.
LEMMA PinnedSound ==
    ASSUME ConsumersOK, Separate, NEW m \in Members, consumers[m] # Nothing,
           NEW p \in Peers(m) \cup {Nothing, Gone},
           consumers' = [consumers EXCEPT ![m].pin = p], UNCHANGED stored
    PROVE  ConsumersOK' /\ Separate'
<1>1. consumers[m] \in Consumer /\ p \in Instances \cup {Nothing, Gone}
    BY DEF ConsumersOK, Peers
<1>2. /\ consumers'[m] \in Consumer
      /\ consumers'[m].pin = p
      /\ consumers'[m].filters = consumers[m].filters
      /\ consumers'[m].pending = consumers[m].pending
    BY <1>1 DEF ConsumersOK, Consumer
<1>3. \A other \in Members \ {m} : consumers'[other] = consumers[other]
    BY DEF ConsumersOK
<1>4. ConsumersOK'
    BY <1>2, <1>3 DEF ConsumersOK
<1>5. Separate'
    BY <1>2, <1>3 DEF Separate
<1> QED
    BY <1>4, <1>5

\* Messages become pending on a consumer, or are no longer.
LEMMA PendingSound ==
    ASSUME ConsumersOK, Separate, NEW m \in Members, consumers[m] # Nothing,
           NEW P \in SUBSET Messages, stored' \subseteq Messages,
           consumers' = [consumers EXCEPT ![m].pending = P],
           P \subseteq stored',
           \A msg \in P : Partition[msg] \in consumers[m].filters,
           \A other \in Members \ {m} :
              consumers[other] # Nothing => consumers[other].pending \subseteq stored'
    PROVE  ConsumersOK' /\ Separate'
<1>1. consumers[m] \in Consumer
    BY DEF ConsumersOK
<1>2. /\ consumers'[m] \in Consumer
      /\ consumers'[m].pin = consumers[m].pin
      /\ consumers'[m].filters = consumers[m].filters
      /\ consumers'[m].pending = P
    BY <1>1 DEF ConsumersOK, Consumer
<1>3. \A other \in Members \ {m} : consumers'[other] = consumers[other]
    BY DEF ConsumersOK
<1>4. ConsumersOK'
    BY <1>2, <1>3 DEF ConsumersOK
<1>5. Separate'
    BY <1>2, <1>3 DEF Separate
<1> QED
    BY <1>4, <1>5

\* A consumer is created with filters that no other has.
LEMMA CreatedSound ==
    ASSUME ConsumersOK, Separate, NEW m \in Members,
           NEW filters \in SUBSET Nat, Unique(m, filters),
           consumers' = [consumers EXCEPT ![m] = NewConsumer(filters)],
           UNCHANGED stored
    PROVE  ConsumersOK' /\ Separate'
<1>1. /\ consumers'[m] \in Consumer
      /\ consumers'[m].pin = Nothing
      /\ consumers'[m].filters = filters
      /\ consumers'[m].pending = {}
    BY DEF ConsumersOK, Consumer, NewConsumer
<1>2. \A other \in Members \ {m} : consumers'[other] = consumers[other]
    BY DEF ConsumersOK
<1>3. ConsumersOK'
    BY <1>1, <1>2 DEF ConsumersOK
<1>4. Separate'
    BY <1>1, <1>2 DEF Separate, Unique
<1> QED
    BY <1>3, <1>4

\* CreateConsumer: a new consumer, or the one that is there.
LEMMA CreateSound ==
    ASSUME ConsumersOK, Separate, ViewsValid, NEW i \in Instances,
           pc[i] \notin {"down", "done"}, Create(i), UNCHANGED stored
    PROVE  ConsumersOK' /\ Separate'
<1> DEFINE filters == Filters(view[i], i)
<1>1. filters \in SUBSET Nat /\ Member[i] \in Members
    BY FiltersAreNumbers DEF Members
<1>2. CASE consumers[Member[i]] = Nothing
    <2>1. /\ Unique(Member[i], filters)
          /\ consumers' = [consumers EXCEPT ![Member[i]] = NewConsumer(filters)]
        BY <1>2 DEF Create, CanCreate
    <2> HIDE DEF filters
    <2> QED
        BY <1>1, <2>1, CreatedSound
<1>3. CASE consumers[Member[i]] # Nothing
    BY <1>3, UnchangedSound DEF Create
<1> QED
    BY <1>2, <1>3

\* A context stops or dies.
LEMMA DetachSound ==
    ASSUME ConsumersOK, Separate, NEW i \in Instances, Detach(i), UNCHANGED stored
    PROVE  ConsumersOK' /\ Separate'
<1> DEFINE m == Member[i]
<1>0. m \in Members
    BY DEF Members
<1>1. CASE consumers[m] # Nothing /\ attached[i] /\ consumers[m].pin = i
    <2>1. consumers' = [consumers EXCEPT ![m].pin = Gone]
        BY <1>0, <1>1 DEF Detach
    <2> QED
        BY <1>0, <1>1, <2>1, PinnedSound
<1>2. CASE ~(consumers[m] # Nothing /\ attached[i] /\ consumers[m].pin = i)
    <2>1. consumers' = consumers
        BY <1>0, <1>2 DEF Detach, ConsumersOK
    <2> QED
        BY <2>1, UnchangedSound
<1> QED
    BY <1>1, <1>2

-----------------------------------------------------------------------------
\* Every step preserves the invariant.
LEMMA StepPreserves == IInv /\ [Next]_vars => IInv'
<1> SUFFICES ASSUME IInv, [Next]_vars PROVE IInv'
    OBVIOUS
<1> USE InstancesAssumption
<1> USE DEF IInv, TypeOK
<1>0. \A i \in Instances : Member[i] \in Members
    BY DEF Members
<1>1. ASSUME NEW m \in Members, Expire(m) \/ Disconnect(m) PROVE IInv'
    <2>0. /\ Remove(m)
          /\ UNCHANGED <<log, stream, stored, pc, view, position, consumer, running>>
        BY <1>1 DEF Expire, Disconnect
    <2>1. LogOK'
        BY <1>1, <2>0 DEF LogOK, Expire, Disconnect, Fault, WithinBound
    <2>2. ConsumersOK' /\ Separate'
        BY <2>0, RemovedSound DEF Remove
    <2>3. InstancesOK'
        BY <1>0, <2>0 DEF InstancesOK, LogOK, Labels, Remove
    <2>4. ViewsValid'
        BY <2>0 DEF ViewsValid
    <2>5. Joined'
        BY <2>0 DEF InstancesOK, Joined, Remove
    <2> QED
        BY <2>1, <2>2, <2>3, <2>4, <2>5 DEF TypeOK
<1>2. ASSUME NEW m \in Members, PinExpires(m) PROVE IInv'
    <2>1. LogOK'
        BY <1>2 DEF LogOK, PinExpires, Unpin
    <2>2. ConsumersOK' /\ Separate'
        BY <1>0, <1>2, PinnedSound DEF PinExpires, server, local, Unpin, Peers
    <2>3. InstancesOK'
        BY <1>0, <1>2 DEF InstancesOK, LogOK, Labels, PinExpires, Unpin
    <2>4. ViewsValid'
        BY <1>2 DEF InstancesOK, ViewsValid, Labels, PinExpires, Unpin
    <2>5. Joined'
        BY <1>2 DEF InstancesOK, Joined, Labels, PinExpires, Unpin
    <2> QED
        BY <2>1, <2>2, <2>3, <2>4, <2>5 DEF TypeOK
<1>3. ASSUME NEW m \in Members, StepDown(m) PROVE IInv'
    <2>1. LogOK'
        BY <1>3 DEF LogOK, StepDown, Fault, WithinBound, Unpin
    <2>2. ConsumersOK' /\ Separate'
        BY <1>0, <1>3, PinnedSound DEF StepDown, server, local, Unpin, Peers
    <2>3. InstancesOK'
        BY <1>0, <1>3 DEF InstancesOK, LogOK, Labels, StepDown, Fault,
           WithinBound, Unpin
    <2>4. ViewsValid'
        BY <1>3 DEF InstancesOK, ViewsValid, Labels, StepDown, Fault,
           WithinBound, Unpin
    <2>5. Joined'
        BY <1>3 DEF InstancesOK, Joined, Labels, StepDown, Fault, WithinBound,
           Unpin
    <2> QED
        BY <2>1, <2>2, <2>3, <2>4, <2>5 DEF TypeOK
<1>4. ASSUME NEW m \in Members, NEW msg \in Messages, Redeliver(m, msg) PROVE IInv'
    <2>1. LogOK'
        BY <1>4 DEF LogOK, Redeliver, local, Fault, WithinBound
    <2>2. ConsumersOK' /\ Separate'
        <3> DEFINE P == consumers[m].pending \ {msg}
        <3>1. /\ consumers[m] # Nothing
              /\ consumers' = [consumers EXCEPT ![m].pending = P]
            BY <1>4 DEF Redeliver
        <3>2. /\ P \subseteq stored /\ P \subseteq Messages
              /\ \A a \in P : Partition[a] \in consumers[m].filters
            BY <1>4 DEF Redeliver, ConsumersOK, Separate
        <3>3. stored' = stored /\ stored \subseteq Messages
            BY <1>4 DEF Redeliver, server, ConsumersOK
        <3>4. \A other \in Members \ {m} :
                consumers[other] # Nothing => consumers[other].pending \subseteq stored'
            BY <3>3 DEF ConsumersOK
        <3> HIDE DEF P
        <3> QED
            BY <3>1, <3>2, <3>3, <3>4, PendingSound
    <2>3. InstancesOK'
        BY <1>0, <1>4 DEF InstancesOK, LogOK, Labels, Redeliver, local, Fault,
           WithinBound
    <2>4. ViewsValid'
        BY <1>4 DEF InstancesOK, ViewsValid, Labels, Redeliver, local, Fault,
           WithinBound
    <2>5. Joined'
        BY <1>4 DEF InstancesOK, Joined, Labels, Redeliver, local, Fault,
           WithinBound
    <2> QED
        BY <2>1, <2>2, <2>3, <2>4, <2>5 DEF TypeOK
<1>5. ASSUME NEW i \in Instances, Start(i) PROVE IInv'
    <2>1. LogOK'
        BY <1>5 DEF LogOK, Start, server, Goto
    <2>2. ConsumersOK' /\ Separate'
        BY <1>0, <1>5, UnchangedSound DEF Start, server, local
    <2>3. InstancesOK'
        BY <1>0, <1>5 DEF InstancesOK, LogOK, Labels, Start, server, local, Goto,
                          ValidConfigs
    <2>4. ViewsValid'
        BY <1>5 DEF InstancesOK, ViewsValid, Labels, Start, server, Goto
    <2>5. Joined'
        BY <1>5 DEF InstancesOK, Joined, Labels, Start, server, Goto
    <2> QED
        BY <2>1, <2>2, <2>3, <2>4, <2>5 DEF TypeOK
<1>6. ASSUME NEW i \in Instances, Receive(i) PROVE IInv'
    <2> DEFINE config == log[position[i] + 1]
    <2>0. /\ pc[i] = "loop" /\ UNCHANGED <<log, stream, stored, faults, aware, running>>
          /\ position[i] < Len(log)
          /\ position' = [position EXCEPT ![i] = @ + 1]
        BY <1>6 DEF Receive
    <2>1. LogOK'
        BY <2>0 DEF LogOK
    <2>2. CASE MustStop(config, i) /\ StopConsuming(i, "done") /\ UNCHANGED view
        <3>1. ConsumersOK' /\ Separate'
            BY <2>0, <2>2, DetachSound DEF StopConsuming
        <3>2. InstancesOK'
            BY <2>0, <2>2 DEF InstancesOK, LogOK, Labels, StopConsuming, Detach,
               Goto
        <3>3. ViewsValid' /\ Joined'
            BY <2>0, <2>2 DEF InstancesOK, ViewsValid, Joined, StopConsuming,
               Detach, Goto
        <3> QED
            BY <2>1, <3>1, <3>2, <3>3
    <2>3. CASE UNCHANGED <<consumers, pc, view, consumer, attached, current>>
        <3>1. ConsumersOK' /\ Separate'
            BY <2>0, <2>3, UnchangedSound
        <3>2. InstancesOK'
            BY <2>0, <2>3 DEF InstancesOK, LogOK
        <3>3. ViewsValid' /\ Joined'
            BY <2>3 DEF ViewsValid, Joined
        <3> QED
            BY <2>1, <3>1, <3>2, <3>3
    <2>4. CASE /\ ~MustStop(config, i)
               /\ view' = [view EXCEPT ![i].members = config.members,
                                       ![i].mappings = config.mappings]
               /\ Goto(i, IF consumer[i] THEN "info" ELSE "backoff")
               /\ UNCHANGED <<consumers, consumer, attached, current>>
        <3>1. ConsumersOK' /\ Separate'
            BY <2>0, <2>4, UnchangedSound
        <3>2. config \in ValidConfigs /\ view'[i] = config
            <4>1. config \in ValidConfigs
                BY <2>4 DEF MustStop
            <4> HIDE DEF config
            <4>2. view'[i] = config
                BY <2>0, <2>4, ViewReceived
            <4> QED
                BY <4>1, <4>2
        <3>3. view' \in [Instances -> Configs \cup {Deleted}]
            <4>1. view' = [view EXCEPT ![i] = view'[i]]
                BY <2>4 DEF InstancesOK
            <4> QED
                BY <3>2, <4>1 DEF InstancesOK, ValidConfigs
        <3>4. InstancesOK'
            <4>1. pc' \in [Instances -> Labels]
                BY <2>4 DEF InstancesOK, Labels, Goto
            <4>2. /\ position' \in [Instances -> Nat]
                  /\ \A j \in Instances : position'[j] <= Len(log')
                <5> HIDE DEF config
                <5> QED
                    BY <2>0 DEF InstancesOK, LogOK
            <4> HIDE DEF config
            <4> QED
                BY <2>0, <2>4, <3>3, <4>1, <4>2 DEF InstancesOK
        <3>5. ViewsValid'
            <4>1. \A j \in Instances \ {i} : view'[j] = view[j] /\ pc'[j] = pc[j]
                BY <2>4 DEF InstancesOK, Goto
            <4> QED
                BY <3>2, <4>1 DEF ViewsValid
        <3>6. Joined'
            BY <2>0, <2>4 DEF InstancesOK, Joined, Goto
        <3> QED
            BY <2>1, <3>1, <3>4, <3>5, <3>6
    <2> QED
        BY <1>6, <2>2, <2>3, <2>4 DEF Receive
<1>7. ASSUME NEW i \in Instances, Watch(i) PROVE IInv'
    <2>1. LogOK'
        BY <1>7 DEF LogOK, Watch, server, Goto
    <2>2. ConsumersOK' /\ Separate'
        BY <1>0, <1>7, UnchangedSound DEF Watch, server, local
    <2>3. InstancesOK'
        BY <1>0, <1>7 DEF InstancesOK, LogOK, Labels, Watch, server, Goto
    <2>4. ViewsValid'
        BY <1>7 DEF InstancesOK, ViewsValid, Labels, Watch, server, Goto
    <2>5. Joined'
        BY <1>7 DEF InstancesOK, Joined, Labels, Watch, server, Goto
    <2> QED
        BY <2>1, <2>2, <2>3, <2>4, <2>5 DEF TypeOK
<1>8. ASSUME NEW i \in Instances, Info(i) PROVE IInv'
    <2>1. LogOK'
        BY <1>8 DEF LogOK, Info, Fault, WithinBound, Goto, StopConsuming, Detach
    <2>2. ConsumersOK' /\ Separate'
        BY <1>0, <1>8, DetachSound DEF Info, server, local, StopConsuming
    <2>3. InstancesOK'
        BY <1>0, <1>8 DEF InstancesOK, LogOK, Labels, Info, Fault, WithinBound,
           Goto, StopConsuming, Detach
    <2>4. ViewsValid'
        BY <1>8 DEF InstancesOK, ViewsValid, Labels, Info, Fault, WithinBound,
           Goto, StopConsuming, Detach
    <2>5. Joined'
        <3>1. PICK next \in {"delete", "backoff"} : StopConsuming(i, next)
            BY <1>8 DEF Info
        <3> QED
            BY <3>1 DEF InstancesOK, Joined, Goto, StopConsuming, Detach
    <2> QED
        BY <2>1, <2>2, <2>3, <2>4, <2>5 DEF TypeOK
<1>9. ASSUME NEW i \in Instances, DeleteOwn(i) PROVE IInv'
    <2>1. LogOK'
        BY <1>9 DEF LogOK, DeleteOwn, Fault, WithinBound, Goto, Remove
    <2>2. ConsumersOK' /\ Separate'
        <3>1. CASE Remove(Member[i])
            BY <1>0, <1>9, <3>1, RemovedSound DEF DeleteOwn, Remove
        <3>2. CASE UNCHANGED consumers
            BY <1>9, <3>2, UnchangedSound DEF DeleteOwn
        <3> QED
            BY <1>9, <3>1, <3>2 DEF DeleteOwn
    <2>3. InstancesOK'
        <3>0. /\ Goto(i, "join")
              /\ UNCHANGED <<log, view, position, consumer, running>>
            BY <1>9 DEF DeleteOwn
        <3>1. CASE Remove(Member[i])
            BY <3>0, <3>1 DEF InstancesOK, Labels, Goto, Remove
        <3>2. CASE UNCHANGED <<attached, aware, current>>
            BY <3>0, <3>2 DEF InstancesOK, Labels, Goto
        <3> QED
            BY <1>9, <3>1, <3>2 DEF DeleteOwn
    <2>4. ViewsValid'
        BY <1>9 DEF InstancesOK, ViewsValid, Labels, DeleteOwn, Fault,
           WithinBound, Goto, Remove
    <2>5. Joined'
        BY <1>9 DEF InstancesOK, Joined, Labels, DeleteOwn, Fault, WithinBound,
           Goto, Remove
    <2> QED
        BY <2>1, <2>2, <2>3, <2>4, <2>5 DEF TypeOK
<1>10. ASSUME NEW i \in Instances, Backoff(i) PROVE IInv'
    <2>1. LogOK'
        BY <1>10 DEF LogOK, Backoff, server, Goto
    <2>2. ConsumersOK' /\ Separate'
        BY <1>0, <1>10, UnchangedSound DEF Backoff, server, local
    <2>3. InstancesOK'
        BY <1>0, <1>10 DEF InstancesOK, LogOK, Labels, Backoff, server, Goto
    <2>4. ViewsValid'
        BY <1>10 DEF InstancesOK, ViewsValid, Labels, Backoff, server, Goto
    <2>5. Joined'
        BY <1>10 DEF InstancesOK, Joined, Labels, Backoff, server, Goto
    <2> QED
        BY <2>1, <2>2, <2>3, <2>4, <2>5 DEF TypeOK
<1>11. ASSUME NEW i \in Instances, Join(i) PROVE IInv'
    <2>1. LogOK'
        BY <1>11 DEF LogOK, Join, Fault, WithinBound, Goto, Create, GiveUp
    <2>2. ConsumersOK' /\ Separate'
        <3>1. CASE Create(i)
            BY <1>11, <3>1, CreateSound DEF Join
        <3>2. CASE UNCHANGED consumers
            BY <1>11, <3>2, UnchangedSound DEF Join
        <3> QED
            BY <1>11, <3>1, <3>2 DEF Join, GiveUp
    <2>3. InstancesOK'
        BY <1>0, <1>11 DEF InstancesOK, LogOK, Labels, Join, Fault, WithinBound,
           Goto, Create, GiveUp
    <2>4. ViewsValid'
        BY <1>11 DEF InstancesOK, ViewsValid, Labels, Join, Fault, WithinBound,
           Goto, Create, GiveUp
    <2>5. Joined'
        <3>1. pc[i] = "join" /\ UNCHANGED attached
            BY <1>11 DEF Join
        <3>2. ~attached[i]
            BY <3>1 DEF Joined
        <3>3. CASE Create(i)
            BY <3>1, <3>2, <3>3 DEF InstancesOK, Joined, Create, Goto
        <3>4. CASE GiveUp(i)
            BY <3>1, <3>2, <3>4 DEF InstancesOK, Joined, GiveUp, Goto
        <3>5. CASE (Goto(i, "loop") \/ Goto(i, "replace")) /\ UNCHANGED consumer
            BY <3>1, <3>2, <3>5 DEF InstancesOK, Joined, Goto
        <3> QED
            BY <1>11, <3>3, <3>4, <3>5 DEF Join
    <2> QED
        BY <2>1, <2>2, <2>3, <2>4, <2>5 DEF TypeOK
<1>12. ASSUME NEW i \in Instances, Replace(i) PROVE IInv'
    <2>0. pc[i] = "replace" /\ UNCHANGED <<log, stream, stored, view, position, running>>
        BY <1>12 DEF Replace
    <2>1. LogOK' /\ ViewsValid'
        <3>1. LogOK'
            BY <1>12 DEF LogOK, Replace, Fault, WithinBound
        <3>2. ViewsValid'
            BY <2>0, <1>12 DEF InstancesOK, ViewsValid, Replace, GiveUp, Goto
        <3> QED
            BY <3>1, <3>2
    <2>2. CASE Remove(Member[i]) /\ Goto(i, "recreate") /\ UNCHANGED consumer
        <3>1. ConsumersOK' /\ Separate'
            BY <1>0, <2>0, <2>2, RemovedSound DEF Remove
        <3>2. InstancesOK'
            BY <2>0, <2>2 DEF InstancesOK, LogOK, Labels, Remove, Goto
        <3>3. Joined'
            BY <2>0, <2>2 DEF InstancesOK, Joined, Remove, Goto
        <3> QED
            BY <2>1, <3>1, <3>2, <3>3
    <2>3. CASE GiveUp(i) /\ UNCHANGED <<attached, aware, current>>
        <3>1. ConsumersOK' /\ Separate'
            BY <2>0, <2>3, UnchangedSound DEF GiveUp
        <3>2. InstancesOK'
            BY <2>0, <2>3 DEF InstancesOK, LogOK, Labels, GiveUp, Goto
        <3>3. Joined'
            BY <2>0, <2>3 DEF InstancesOK, Joined, GiveUp, Goto
        <3> QED
            BY <2>1, <3>1, <3>2, <3>3
    <2> QED
        BY <1>12, <2>2, <2>3 DEF Replace
<1>13. ASSUME NEW i \in Instances, Recreate(i) PROVE IInv'
    <2>1. LogOK'
        BY <1>13 DEF LogOK, Recreate, Goto, Create, GiveUp, Fault, WithinBound
    <2>2. ConsumersOK' /\ Separate'
        <3>1. CASE Create(i)
            BY <1>13, <3>1, CreateSound DEF Recreate
        <3>2. CASE UNCHANGED consumers
            BY <1>13, <3>2, UnchangedSound DEF Recreate
        <3> QED
            BY <1>13, <3>1, <3>2 DEF Recreate, GiveUp
    <2>3. InstancesOK'
        BY <1>0, <1>13 DEF InstancesOK, LogOK, Labels, Recreate, Goto, Create,
           GiveUp
    <2>4. ViewsValid'
        BY <1>13 DEF InstancesOK, ViewsValid, Labels, Recreate, Goto, Create,
           GiveUp
    <2>5. Joined'
        BY <1>13 DEF InstancesOK, Joined, Labels, Recreate, Goto, Create, GiveUp
    <2> QED
        BY <2>1, <2>2, <2>3, <2>4, <2>5 DEF TypeOK
<1>14. ASSUME NEW i \in Instances, Consume(i) PROVE IInv'
    <2>1. LogOK'
        BY <1>14 DEF LogOK, Consume, server, Fault, WithinBound, Goto
    <2>2. ConsumersOK' /\ Separate'
        BY <1>0, <1>14, UnchangedSound DEF Consume, server, local
    <2>3. InstancesOK'
        BY <1>0, <1>14 DEF InstancesOK, LogOK, Labels, Consume, server, Fault,
           WithinBound, Goto
    <2>4. ViewsValid'
        BY <1>14 DEF InstancesOK, ViewsValid, Labels, Consume, server, Fault,
           WithinBound, Goto
    <2>5. Joined'
        BY <1>14 DEF InstancesOK, Joined, Labels, Consume, server, Fault,
           WithinBound, Goto
    <2> QED
        BY <2>1, <2>2, <2>3, <2>4, <2>5 DEF TypeOK
<1>15. ASSUME NEW i \in Instances, Retry(i) PROVE IInv'
    <2>1. LogOK'
        BY <1>15 DEF LogOK, Retry, server, Goto
    <2>2. ConsumersOK' /\ Separate'
        BY <1>0, <1>15, UnchangedSound DEF Retry, server, local
    <2>3. InstancesOK'
        BY <1>0, <1>15 DEF InstancesOK, LogOK, Labels, Retry, server, Goto
    <2>4. ViewsValid'
        BY <1>15 DEF InstancesOK, ViewsValid, Labels, Retry, server, Goto
    <2>5. Joined'
        BY <1>15 DEF InstancesOK, Joined, Labels, Retry, server, Goto
    <2> QED
        BY <2>1, <2>2, <2>3, <2>4, <2>5 DEF TypeOK
<1>16. ASSUME NEW i \in Instances, WatcherCloses(i) PROVE IInv'
    <2>1. LogOK'
        BY <1>16 DEF LogOK, WatcherCloses, Fault, WithinBound, Goto,
           StopConsuming, Detach
    <2>2. ConsumersOK' /\ Separate'
        BY <1>0, <1>16, DetachSound DEF WatcherCloses, server, local,
           StopConsuming
    <2>3. InstancesOK'
        BY <1>0, <1>16 DEF InstancesOK, LogOK, Labels, WatcherCloses, Fault,
           WithinBound, Goto, StopConsuming, Detach
    <2>4. ViewsValid'
        BY <1>16 DEF InstancesOK, ViewsValid, Labels, WatcherCloses, Fault,
           WithinBound, Goto, StopConsuming, Detach
    <2>5. Joined'
        BY <1>16 DEF InstancesOK, Joined, Labels, WatcherCloses, Fault,
           WithinBound, Goto, StopConsuming, Detach
    <2> QED
        BY <2>1, <2>2, <2>3, <2>4, <2>5 DEF TypeOK
<1>17. ASSUME NEW i \in Instances, Stop(i) PROVE IInv'
    <2>1. LogOK'
        BY <1>17 DEF LogOK, Stop, Fault, WithinBound, Goto, StopConsuming,
           Detach
    <2>2. ConsumersOK' /\ Separate'
        BY <1>0, <1>17, DetachSound DEF Stop, server, local, StopConsuming
    <2>3. InstancesOK'
        BY <1>0, <1>17 DEF InstancesOK, LogOK, Labels, Stop, Fault, WithinBound,
           Goto, StopConsuming, Detach
    <2>4. ViewsValid'
        BY <1>17 DEF InstancesOK, ViewsValid, Labels, Stop, Fault, WithinBound,
           Goto, StopConsuming, Detach
    <2>5. Joined'
        BY <1>17 DEF InstancesOK, Joined, Labels, Stop, Fault, WithinBound,
           Goto, StopConsuming, Detach
    <2> QED
        BY <2>1, <2>2, <2>3, <2>4, <2>5 DEF TypeOK
<1>18. ASSUME NEW i \in Instances, Crash(i) PROVE IInv'
    <2>1. LogOK'
        BY <1>18 DEF LogOK, Crash, Fault, WithinBound, Goto, StopConsuming,
           Detach
    <2>2. ConsumersOK' /\ Separate'
        BY <1>0, <1>18, DetachSound DEF Crash, server, local, StopConsuming
    <2>3. InstancesOK'
        BY <1>0, <1>18 DEF InstancesOK, LogOK, Labels, Crash, Fault,
           WithinBound, Goto, StopConsuming, Detach
    <2>4. ViewsValid'
        BY <1>18 DEF InstancesOK, ViewsValid, Labels, Crash, Fault, WithinBound,
           Goto, StopConsuming, Detach
    <2>5. Joined'
        BY <1>18 DEF InstancesOK, Joined, Labels, Crash, Fault, WithinBound,
           Goto, StopConsuming, Detach
    <2> QED
        BY <2>1, <2>2, <2>3, <2>4, <2>5 DEF TypeOK
<1>19. ASSUME NEW i \in Instances, Pin(i) PROVE IInv'
    <2>1. LogOK'
        BY <1>19 DEF LogOK, Pin, local
    <2>2. ConsumersOK' /\ Separate'
        BY <1>0, <1>19, PinnedSound DEF Pin, server, local, Peers
    <2>3. InstancesOK'
        BY <1>0, <1>19 DEF InstancesOK, LogOK, Labels, Pin, local
    <2>4. ViewsValid'
        BY <1>19 DEF InstancesOK, ViewsValid, Labels, Pin, local
    <2>5. Joined'
        BY <1>19 DEF InstancesOK, Joined, Labels, Pin, local
    <2> QED
        BY <2>1, <2>2, <2>3, <2>4, <2>5 DEF TypeOK
<1>20. ASSUME NEW i \in Instances, NEW msg \in Messages, Deliver(i, msg) PROVE IInv'
    <2>1. LogOK'
        BY <1>20 DEF LogOK, Deliver
    <2>2. ConsumersOK' /\ Separate'
        <3> DEFINE m == Member[i]
                   P == consumers[m].pending \cup {msg}
        <3>1. /\ consumers[m] # Nothing /\ m \in Members
              /\ consumers' = [consumers EXCEPT ![m].pending = P]
              /\ msg \in stored /\ Partition[msg] \in consumers[m].filters
              /\ stored' = stored
            BY <1>0, <1>20 DEF Deliver
        <3>2. /\ P \subseteq stored /\ P \subseteq Messages
              /\ \A a \in P : Partition[a] \in consumers[m].filters
            BY <3>1 DEF ConsumersOK, Separate
        <3>3. /\ stored' \subseteq Messages
              /\ \A other \in Members \ {m} :
                   consumers[other] # Nothing => consumers[other].pending \subseteq stored'
            BY <3>1 DEF ConsumersOK
        <3> QED
            BY <3>1, <3>2, <3>3, PendingSound
    <2>3. InstancesOK'
        BY <1>0, <1>20 DEF InstancesOK, LogOK, Labels, Deliver
    <2>4. ViewsValid'
        BY <1>20 DEF InstancesOK, ViewsValid, Labels, Deliver
    <2>5. Joined'
        BY <1>20 DEF InstancesOK, Joined, Labels, Deliver
    <2> QED
        BY <2>1, <2>2, <2>3, <2>4, <2>5 DEF TypeOK
<1>21. ASSUME NEW i \in Instances, NEW msg \in Messages, Finish(i, msg) PROVE IInv'
    <2>1. LogOK'
        BY <1>21 DEF LogOK, Finish
    <2>2. ConsumersOK' /\ Separate'
        <3> DEFINE m == Member[i]
                   P == consumers[m].pending \ {msg}
        <3>0. m \in Members
            BY <1>0
        <3>1. CASE consumers[m] # Nothing /\ msg \in consumers[m].pending
            <4>1. /\ consumers' = [consumers EXCEPT ![m].pending = P]
                  /\ stored' = stored \ {msg}
                BY <1>21, <3>1 DEF Finish
            <4>2. /\ P \subseteq stored' /\ P \subseteq Messages /\ stored' \subseteq Messages
                  /\ \A a \in P : Partition[a] \in consumers[m].filters
                BY <3>0, <3>1, <4>1 DEF ConsumersOK, Separate
            <4>3. ASSUME NEW other \in Members \ {m}, consumers[other] # Nothing
                  PROVE  consumers[other].pending \subseteq stored'
                <5>1. Partition[msg] \in consumers[m].filters
                    BY <3>0, <3>1 DEF Separate
                <5>2. msg \notin consumers[other].pending
                    BY <3>0, <3>1, <4>3, <5>1 DEF Separate
                <5> QED
                    BY <4>1, <4>3, <5>2 DEF ConsumersOK
            <4>4. \A other \in Members \ {m} :
                    consumers[other] # Nothing => consumers[other].pending \subseteq stored'
                BY <4>3
            <4> HIDE DEF P
            <4> QED
                BY <3>0, <3>1, <4>1, <4>2, <4>4, PendingSound
        <3>2. CASE ~(consumers[m] # Nothing /\ msg \in consumers[m].pending)
            BY <1>21, <3>2, UnchangedSound DEF Finish
        <3> QED
            BY <3>1, <3>2
    <2>3. InstancesOK'
        BY <1>0, <1>21 DEF InstancesOK, LogOK, Labels, Finish
    <2>4. ViewsValid'
        BY <1>21 DEF InstancesOK, ViewsValid, Labels, Finish
    <2>5. Joined'
        BY <1>21 DEF InstancesOK, Joined, Labels, Finish
    <2> QED
        BY <2>1, <2>2, <2>3, <2>4, <2>5 DEF TypeOK
<1>22. ASSUME NEW config \in Configs, ChangeConfig(config) PROVE IInv'
    <2>1. LogOK'
        BY <1>22 DEF LogOK, ChangeConfig, local, WithinBound
    <2>2. ConsumersOK' /\ Separate'
        BY <1>0, <1>22, UnchangedSound DEF ChangeConfig, server, local
    <2>3. InstancesOK'
        BY <1>0, <1>22 DEF InstancesOK, LogOK, Labels, ChangeConfig, local,
           WithinBound
    <2>4. ViewsValid'
        BY <1>22 DEF InstancesOK, ViewsValid, Labels, ChangeConfig, local,
           WithinBound
    <2>5. Joined'
        BY <1>22 DEF InstancesOK, Joined, Labels, ChangeConfig, local,
           WithinBound
    <2> QED
        BY <2>1, <2>2, <2>3, <2>4, <2>5 DEF TypeOK
<1>23. ASSUME DeleteConfig PROVE IInv'
    <2>1. LogOK'
        BY <1>23 DEF LogOK, DeleteConfig, local, WithinBound
    <2>2. ConsumersOK' /\ Separate'
        BY <1>0, <1>23, UnchangedSound DEF DeleteConfig, server, local
    <2>3. InstancesOK'
        BY <1>0, <1>23 DEF InstancesOK, LogOK, Labels, DeleteConfig, local,
           WithinBound
    <2>4. ViewsValid'
        BY <1>23 DEF InstancesOK, ViewsValid, Labels, DeleteConfig, local,
           WithinBound
    <2>5. Joined'
        BY <1>23 DEF InstancesOK, Joined, Labels, DeleteConfig, local,
           WithinBound
    <2> QED
        BY <2>1, <2>2, <2>3, <2>4, <2>5 DEF TypeOK
<1>24. ASSUME DropStream PROVE IInv'
    <2>1. LogOK'
        BY <1>24 DEF LogOK, DropStream
    <2>2. ConsumersOK' /\ Separate'
        BY <1>24 DEF DropStream, ConsumersOK, Separate
    <2>3. InstancesOK'
        BY <1>0, <1>24 DEF InstancesOK, LogOK, Labels, DropStream
    <2>4. ViewsValid'
        BY <1>24 DEF InstancesOK, ViewsValid, Labels, DropStream
    <2>5. Joined'
        BY <1>24 DEF InstancesOK, Joined, Labels, DropStream
    <2> QED
        BY <2>1, <2>2, <2>3, <2>4, <2>5 DEF TypeOK
<1>25. ASSUME UNCHANGED vars PROVE IInv'
    BY <1>25, UnchangedSound DEF vars, server, local, TypeOK, LogOK,
       InstancesOK, ViewsValid, Joined
<1> QED
    BY <1>1, <1>2, <1>3, <1>4, <1>5, <1>6, <1>7, <1>8, <1>9, <1>10, <1>11,
       <1>12, <1>13, <1>14, <1>15, <1>16, <1>17, <1>18, <1>19, <1>20, <1>21,
       <1>22, <1>23, <1>24, <1>25 DEF Next, Routine

\* The invariant that carries the results below.
THEOREM InstancesInvariant == Spec => []IInv
<1>1. Init => IInv
    <2> SUFFICES ASSUME Init PROVE IInv
        OBVIOUS
    <2>1. LogOK
        <3>1. PICK c \in Configs : log = <<c>>
            BY DEF Init
        <3>2. log \in Seq(Configs \cup {Deleted}) /\ Len(log) = 1
            BY <3>1
        <3>3. stream \in BOOLEAN /\ faults = 0
            BY DEF Init
        <3> QED
            BY <3>2, <3>3, InstancesAssumption DEF LogOK
    <2>2. ConsumersOK /\ Separate
        BY DEF Init, ConsumersOK, Separate
    <2>3. InstancesOK /\ ViewsValid /\ Joined
        BY DEF Init, InstancesOK, ViewsValid, Joined, Labels
    <2> QED
        BY <2>1, <2>2, <2>3 DEF IInv, TypeOK
<1> QED
    BY <1>1, StepPreserves, PTL DEF Spec

\* The types of the server's and the instances' state.
THEOREM InstancesTypeCorrect == Spec => []TypeOK
<1>1. IInv => TypeOK
    BY DEF IInv
<1> QED
    BY <1>1, InstancesInvariant, PTL

\* No context goes on pulling that stopConsuming does not stop, whatever call
\* fails and however the instances of a member interfere.
THEOREM EveryContextCanBeStopped == Spec => []ContextsCanBeStopped
<1>1. IInv => ContextsCanBeStopped
    BY DEF IInv, Joined, ContextsCanBeStopped
<1> QED
    BY <1>1, InstancesInvariant, PTL

-----------------------------------------------------------------------------
(* A member with one instance.                                             *)

OneInstanceEach ==
    \A i, j \in Instances : Member[i] = Member[j] => i = j

\* Every step keeps an instance with the consumer it has made.
LEMMA OwnStep ==
    ASSUME OneInstanceEach, IInv, OwnConsumer, [Next]_vars
    PROVE  OwnConsumer'
<1> SUFFICES ASSUME NEW k \in Instances, consumer'[k], pc'[k] \in {"consume", "loop"},
                    consumers'[Member[k]] # Nothing
             PROVE  consumers'[Member[k]].filters = Filters(view'[k], k)
    BY DEF OwnConsumer, Filters
<1> DEFINE Goal == consumers'[Member[k]].filters = Filters(view'[k], k)
<1> USE DEF IInv, TypeOK
<1>0. /\ \A i \in Instances : Member[i] \in Members /\ (Member[i] = Member[k] => i = k)
      /\ consumers[Member[k]] # Nothing => consumers[Member[k]] \in Consumer
    BY DEF Members, OneInstanceEach, ConsumersOK
<1>1. ASSUME NEW m \in Members, Expire(m) \/ Disconnect(m) PROVE Goal
    BY <1>0, <1>1 DEF OwnConsumer, Joined, InstancesOK, ConsumersOK, Consumer,
       Expire, Disconnect, Remove
<1>2. ASSUME NEW m \in Members, PinExpires(m) PROVE Goal
    BY <1>0, <1>2 DEF OwnConsumer, Joined, InstancesOK, ConsumersOK, Consumer,
       PinExpires, Unpin, Peers
<1>3. ASSUME NEW m \in Members, StepDown(m) PROVE Goal
    BY <1>0, <1>3 DEF OwnConsumer, Joined, InstancesOK, ConsumersOK, Consumer,
       StepDown, Unpin, Peers
<1>4. ASSUME NEW m \in Members, NEW msg \in Messages, Redeliver(m, msg) PROVE Goal
    BY <1>0, <1>4 DEF OwnConsumer, Joined, InstancesOK, ConsumersOK, Consumer,
       local, Redeliver
<1>5. ASSUME NEW i \in Instances, Start(i) PROVE Goal
    BY <1>0, <1>5 DEF OwnConsumer, Joined, InstancesOK, ConsumersOK, Consumer,
       server, Goto, Start
<1>6. ASSUME NEW i \in Instances, Receive(i) PROVE Goal
    <2>1. CASE i = k
        BY <1>0, <1>6, <2>1 DEF OwnConsumer, InstancesOK, ConsumersOK, Goto, Receive,
           StopConsuming
    <2>2. CASE i # k
        <3>1. consumers'[Member[k]] = consumers[Member[k]]
            BY <1>0, <1>6, <2>2 DEF ConsumersOK, Receive, StopConsuming, Detach
        <3>2. pc'[k] = pc[k] /\ consumer'[k] = consumer[k] /\ view'[k] = view[k]
            BY <1>6, <2>2 DEF InstancesOK, Receive, StopConsuming, Goto
        <3> QED
            BY <3>1, <3>2 DEF OwnConsumer, Filters
    <2> QED
        BY <2>1, <2>2
<1>7. ASSUME NEW i \in Instances, Watch(i) PROVE Goal
    BY <1>0, <1>7 DEF OwnConsumer, Joined, InstancesOK, ConsumersOK, Consumer,
       server, Goto, Watch
<1>8. ASSUME NEW i \in Instances, Info(i) PROVE Goal
    BY <1>0, <1>8 DEF OwnConsumer, Joined, InstancesOK, ConsumersOK, Consumer,
       Goto, Info, StopConsuming, Detach
<1>9. ASSUME NEW i \in Instances, DeleteOwn(i) PROVE Goal
    BY <1>0, <1>9 DEF OwnConsumer, Joined, InstancesOK, ConsumersOK, Consumer,
       Goto, DeleteOwn, Remove
<1>10. ASSUME NEW i \in Instances, Backoff(i) PROVE Goal
    BY <1>0, <1>10 DEF OwnConsumer, Joined, InstancesOK, ConsumersOK, Consumer,
       server, Goto, Backoff
<1>11. ASSUME NEW i \in Instances, Join(i) PROVE Goal
    BY <1>0, <1>11 DEF OwnConsumer, Joined, InstancesOK, ConsumersOK, Consumer,
       Goto, Join, Create, GiveUp, CanCreate, NewConsumer
<1>12. ASSUME NEW i \in Instances, Replace(i) PROVE Goal
    BY <1>0, <1>12 DEF OwnConsumer, Joined, InstancesOK, ConsumersOK, Consumer,
       Goto, Replace, Remove, GiveUp
<1>13. ASSUME NEW i \in Instances, Recreate(i) PROVE Goal
    <2>1. CASE i = k
        <3>1. CASE consumers[Member[k]] = Nothing
            BY <1>0, <1>13, <2>1, <3>1 DEF ConsumersOK, Recreate, Create, GiveUp,
                                           NewConsumer, InstancesOK
        <3>2. CASE consumers[Member[k]] # Nothing
            BY <1>0, <1>13, <2>1, <3>2 DEF Recreate, Create, GiveUp, CanCreate,
               InstancesOK
        <3> QED
            BY <3>1, <3>2
    <2>2. CASE i # k
        <3>1. consumers'[Member[k]] = consumers[Member[k]]
            BY <1>0, <1>13, <2>2 DEF ConsumersOK, Recreate, Create, GiveUp
        <3>2. pc'[k] = pc[k] /\ consumer'[k] = consumer[k] /\ view'[k] = view[k]
            BY <1>13, <2>2 DEF InstancesOK, Recreate, Create, GiveUp, Goto
        <3> QED
            BY <3>1, <3>2 DEF OwnConsumer, Filters
    <2> QED
        BY <2>1, <2>2
<1>14. ASSUME NEW i \in Instances, Consume(i) PROVE Goal
    BY <1>0, <1>14 DEF OwnConsumer, Joined, InstancesOK, ConsumersOK, Consumer,
       server, Goto, Consume
<1>15. ASSUME NEW i \in Instances, Retry(i) PROVE Goal
    BY <1>0, <1>15 DEF OwnConsumer, Joined, InstancesOK, ConsumersOK, Consumer,
       server, Goto, Retry
<1>16. ASSUME NEW i \in Instances, WatcherCloses(i) PROVE Goal
    BY <1>0, <1>16 DEF OwnConsumer, Joined, InstancesOK, ConsumersOK, Consumer,
       Goto, WatcherCloses, StopConsuming, Detach
<1>17. ASSUME NEW i \in Instances, Stop(i) PROVE Goal
    BY <1>0, <1>17 DEF OwnConsumer, Joined, InstancesOK, ConsumersOK, Consumer,
       Goto, Stop, StopConsuming, Detach
<1>18. ASSUME NEW i \in Instances, Crash(i) PROVE Goal
    BY <1>0, <1>18 DEF OwnConsumer, Joined, InstancesOK, ConsumersOK, Consumer,
       Goto, Crash, StopConsuming, Detach
<1>19. ASSUME NEW i \in Instances, Pin(i) PROVE Goal
    BY <1>0, <1>19 DEF OwnConsumer, Joined, InstancesOK, ConsumersOK, Consumer,
       local, Pin, Peers
<1>20. ASSUME NEW i \in Instances, NEW msg \in Messages, Deliver(i, msg) PROVE Goal
    BY <1>0, <1>20 DEF OwnConsumer, Joined, InstancesOK, ConsumersOK, Consumer,
       Deliver
<1>21. ASSUME NEW i \in Instances, NEW msg \in Messages, Finish(i, msg) PROVE Goal
    <2>1. /\ consumers[Member[k]] # Nothing
          /\ consumers'[Member[k]].filters = consumers[Member[k]].filters
        <3>1. CASE UNCHANGED consumers
            BY <3>1
        <3>2. CASE /\ consumers[Member[i]] # Nothing
                   /\ consumers' = [consumers EXCEPT ![Member[i]].pending = @ \ {msg}]
            BY <1>0, <3>2 DEF ConsumersOK, Consumer
        <3> QED
            BY <1>21, <3>1, <3>2 DEF Finish
    <2> QED
        BY <1>21, <2>1 DEF OwnConsumer, Filters, Finish
<1>22. ASSUME NEW config \in Configs, ChangeConfig(config) PROVE Goal
    BY <1>0, <1>22 DEF OwnConsumer, Joined, InstancesOK, ConsumersOK, Consumer,
       local, ChangeConfig
<1>23. ASSUME DeleteConfig PROVE Goal
    BY <1>0, <1>23 DEF OwnConsumer, Joined, InstancesOK, ConsumersOK, Consumer,
       local, DeleteConfig
<1>24. ASSUME DropStream PROVE Goal
    BY <1>0, <1>24 DEF OwnConsumer, Joined, InstancesOK, ConsumersOK, Consumer,
       DropStream
<1>25. ASSUME UNCHANGED vars PROVE Goal
    BY <1>25 DEF vars, server, local, OwnConsumer
<1> QED
    BY <1>1, <1>2, <1>3, <1>4, <1>5, <1>6, <1>7, <1>8, <1>9, <1>10, <1>11,
       <1>12, <1>13, <1>14, <1>15, <1>16, <1>17, <1>18, <1>19, <1>20, <1>21,
       <1>22, <1>23, <1>24, <1>25 DEF Next, Routine

\* When every member has one instance, an instance never pulls from a consumer
\* made for another view of the membership than its own.
THEOREM AloneConsumesItsPartitions ==
    ASSUME OneInstanceEach
    PROVE  Spec => []ConsumesItsPartitions
<1>1. Init => OwnConsumer
    BY DEF Init, OwnConsumer
<1>2. IInv /\ OwnConsumer /\ [Next]_vars => OwnConsumer'
    BY OwnStep
<1>3. IInv /\ OwnConsumer => ConsumesItsPartitions
    BY DEF IInv, Joined, OwnConsumer, ConsumesItsPartitions
<1> QED
    BY <1>1, <1>2, <1>3, InstancesInvariant, PTL DEF Spec

\* The steps that leave an instance with a consumer and no context.
LEMMA StrandingStep ==
    ASSUME OneInstanceEach, IInv, [Next]_vars, NEW k \in Instances,
           ~Stranded(k), Stranded(k)'
    PROVE  pc[k] = "consume" \/ Disconnect(Member[k]) \/ DropStream
<1> SUFFICES ASSUME pc[k] # "consume", ~Disconnect(Member[k]), ~DropStream PROVE FALSE
    OBVIOUS
<1> USE DEF IInv, TypeOK
<1>0. \A i \in Instances : Member[i] = Member[k] => i = k
    BY DEF OneInstanceEach
<1>1. ~(pc'[k] = pc[k] /\ consumer'[k] = consumer[k] /\ attached'[k] = attached[k])
    BY DEF Stranded
<1>2. pc'[k] = "loop" /\ consumer'[k] /\ ~attached'[k]
    BY DEF Stranded
<1>3. ASSUME NEW m \in Members, Expire(m) PROVE FALSE
    BY <1>0, <1>1, <1>3 DEF Expire, Remove, Peers, InstancesOK
<1>4. ASSUME NEW m \in Members, Disconnect(m) PROVE FALSE
    BY <1>0, <1>1, <1>4 DEF Disconnect, Remove, Peers, InstancesOK
<1>5. ASSUME NEW m \in Members, Unpin(m) PROVE FALSE
    BY <1>1, <1>5 DEF Unpin
<1>6. ASSUME NEW m \in Members, NEW msg \in Messages, Redeliver(m, msg) PROVE FALSE
    BY <1>1, <1>6 DEF Redeliver, local
<1>7. ASSUME NEW i \in Instances, Start(i) \/ Watch(i) \/ Backoff(i) \/ Retry(i)
      PROVE  FALSE
    BY <1>1, <1>2, <1>7 DEF Start, Watch, Backoff, Retry, Goto, InstancesOK, Joined
<1>8. ASSUME NEW i \in Instances, NEW next \in Labels, StopConsuming(i, next) PROVE FALSE
    BY <1>1, <1>2, <1>8 DEF StopConsuming, Detach, Goto, InstancesOK
<1>9. ASSUME NEW i \in Instances, Receive(i) PROVE FALSE
    <2>1. CASE StopConsuming(i, "done")
        BY <1>8, <2>1 DEF Labels
    <2>2. CASE /\ UNCHANGED <<consumer, attached>>
               /\ pc[i] = "loop" /\ (pc' = pc \/ Goto(i, "info") \/ Goto(i, "backoff"))
        BY <1>1, <1>2, <2>2 DEF Goto, InstancesOK
    <2> QED
        BY <1>9, <2>1, <2>2 DEF Receive
<1>10. ASSUME NEW i \in Instances,
              Info(i) \/ WatcherCloses(i) \/ Stop(i) \/ Crash(i)
       PROVE  FALSE
    BY <1>8, <1>10 DEF Info, WatcherCloses, Stop, Crash, Labels
<1>11. ASSUME NEW i \in Instances, DeleteOwn(i) PROVE FALSE
    BY <1>0, <1>1, <1>2, <1>11 DEF DeleteOwn, Remove, Goto, InstancesOK, Joined
<1>12. ASSUME NEW i \in Instances, Join(i) PROVE FALSE
    BY <1>1, <1>2, <1>12 DEF Join, Create, GiveUp, Goto, InstancesOK, Joined
<1>13. ASSUME NEW i \in Instances, Replace(i) PROVE FALSE
    <2>1. CASE Remove(Member[i]) /\ Goto(i, "recreate") /\ UNCHANGED consumer
        BY <1>0, <1>1, <1>2, <2>1 DEF Remove, Goto, InstancesOK
    <2>2. CASE pc[i] = "replace" /\ GiveUp(i) /\ UNCHANGED attached
        BY <1>1, <1>2, <2>2 DEF GiveUp, Goto, InstancesOK
    <2> QED
        BY <1>13, <2>1, <2>2 DEF Replace
<1>14. ASSUME NEW i \in Instances, Recreate(i) PROVE FALSE
    BY <1>1, <1>2, <1>14 DEF Recreate, Create, GiveUp, Goto, InstancesOK, Joined
<1>15. ASSUME NEW i \in Instances, Consume(i) PROVE FALSE
    BY <1>1, <1>15 DEF Consume, Goto, InstancesOK
<1>16. ASSUME NEW i \in Instances,
              Pin(i) \/ \E msg \in Messages : Deliver(i, msg) \/ Finish(i, msg)
       PROVE  FALSE
    BY <1>1, <1>16 DEF Pin, Deliver, Finish, local
<1>17. ASSUME \/ \E config \in Configs : ChangeConfig(config)
              \/ DeleteConfig \/ UNCHANGED vars
       PROVE  FALSE
    BY <1>1, <1>17 DEF ChangeConfig, DeleteConfig, vars, local
<1> QED
    BY <1>3, <1>4, <1>5, <1>6, <1>7, <1>9, <1>10, <1>11, <1>12, <1>13, <1>14, <1>15,
       <1>16, <1>17 DEF Next, Routine, PinExpires, StepDown

\* When every member has one instance, no call that fails, no crash and no change
\* strands one but a failed Consume, a client cut off for long, and the deletion of
\* the group.
THEOREM AloneStrandedByLossOnly ==
    ASSUME OneInstanceEach
    PROVE  Spec => OnlyLossesStrand
<1>1. IInv /\ [Next]_vars =>
          [\A i \in Instances : ~Stranded(i) /\ Stranded(i)' =>
              pc[i] = "consume" \/ Disconnect(Member[i]) \/ DropStream]_vars
    BY StrandingStep
<1> QED
    BY <1>1, InstancesInvariant, PTL DEF Spec, OnlyLossesStrand

-----------------------------------------------------------------------------
(* The group implements ConsumerGroup.                                     *)

\* Whoever runs goes by a configuration that was stored, though maybe not the
\* latest.
Sourced ==
    \A i \in Instances :
        pc[i] \notin {"down", "done"} => \E k \in 1 .. Len(log) : view[i] = log[k]

\* A step of the abstract group, or none.
Promised == [Promise!Next]_(Promise!vars)

\* Every step keeps what the instances go by among what was stored.
LEMMA StepSourced == IInv /\ Sourced /\ [Next]_vars => Sourced'
<1> SUFFICES ASSUME IInv, Sourced, [Next]_vars PROVE Sourced'
    OBVIOUS
<1> USE DEF IInv, TypeOK
<1>0. log \in Seq(Configs \cup {Deleted}) /\ Len(log) \in Nat \ {0}
    BY DEF LogOK
<1>1. /\ Len(log') \in Nat /\ Len(log) <= Len(log')
      /\ \A k \in 1 .. Len(log) : log'[k] = log[k]
    <2>1. CASE log' = log
        BY <1>0, <2>1
    <2>2. ASSUME NEW entry \in Configs \cup {Deleted}, log' = Append(log, entry)
          PROVE  /\ Len(log') \in Nat /\ Len(log) <= Len(log')
                 /\ \A k \in 1 .. Len(log) : log'[k] = log[k]
        BY <1>0, <2>2, AppendProperties
    <2>3. log' = log \/ \E entry \in Configs \cup {Deleted} : log' = Append(log, entry)
        <3>1. ASSUME NEW m \in Members,
                     \/ Expire(m) \/ Disconnect(m) \/ PinExpires(m) \/ StepDown(m)
                     \/ \E msg \in Messages : Redeliver(m, msg)
              PROVE  log' = log
            BY <3>1 DEF Expire, Disconnect, PinExpires, StepDown, Unpin, Redeliver
        <3>2. ASSUME NEW i \in Instances,
                     \/ Start(i) \/ Receive(i) \/ Routine(i) \/ Retry(i)
                     \/ WatcherCloses(i) \/ Stop(i) \/ Crash(i) \/ Pin(i)
                     \/ \E msg \in Messages : Deliver(i, msg) \/ Finish(i, msg)
              PROVE  log' = log
            BY <3>2 DEF server, Start, Receive, Routine, Watch, Info, DeleteOwn, Backoff,
                        Join, Replace, Recreate, Consume, Retry, WatcherCloses, Stop,
                        Crash, Pin, Deliver, Finish
        <3>3. DropStream \/ UNCHANGED vars => log' = log
            BY DEF DropStream, vars, server
        <3>4. (\E config \in Configs : ChangeConfig(config)) \/ DeleteConfig
                => \E entry \in Configs \cup {Deleted} : log' = Append(log, entry)
            BY DEF ChangeConfig, DeleteConfig
        <3> QED
            BY <3>1, <3>2, <3>3, <3>4 DEF Next
    <2> QED
        BY <2>1, <2>2, <2>3
<1>2. ASSUME NEW i \in Instances, pc'[i] \notin {"down", "done"},
             pc[i] \notin {"down", "done"}, view'[i] = view[i]
      PROVE  \E k \in 1 .. Len(log') : view'[i] = log'[k]
    <2>1. PICK k \in 1 .. Len(log) : view[i] = log[k]
        BY <1>2 DEF Sourced
    <2>2. k \in 1 .. Len(log') /\ log'[k] = log[k]
        BY <1>0, <1>1
    <2> QED
        BY <1>2, <2>1, <2>2
<1>3. ASSUME NEW i \in Instances, NEW k \in 1 .. Len(log), view'[i] = log[k]
      PROVE  \E n \in 1 .. Len(log') : view'[i] = log'[n]
    <2>1. k \in 1 .. Len(log') /\ log'[k] = log[k]
        BY <1>0, <1>1
    <2> QED
        BY <1>3, <2>1
<1>4. \A i \in Instances : pc'[i] \notin {"down", "done"} =>
          \/ pc[i] \notin {"down", "done"} /\ view'[i] = view[i]
          \/ \E k \in 1 .. Len(log) : view'[i] = log[k]
    <2>1. ASSUME NEW j \in Instances, Start(j)
          PROVE  \A i \in Instances : pc'[i] \notin {"down", "done"} =>
                    \/ pc[i] \notin {"down", "done"} /\ view'[i] = view[i]
                    \/ \E k \in 1 .. Len(log) : view'[i] = log[k]
        <3>1. view'[j] = log[Len(log)] /\ Len(log) \in 1 .. Len(log)
            BY <1>0, <2>1 DEF Start, Latest, InstancesOK
        <3>2. \A i \in Instances \ {j} : view'[i] = view[i] /\ pc'[i] = pc[i]
            BY <2>1 DEF Start, Goto, InstancesOK
        <3> QED
            BY <3>1, <3>2
    <2>2. ASSUME NEW j \in Instances, Receive(j)
          PROVE  \A i \in Instances : pc'[i] \notin {"down", "done"} =>
                    \/ pc[i] \notin {"down", "done"} /\ view'[i] = view[i]
                    \/ \E k \in 1 .. Len(log) : view'[i] = log[k]
        <3>1. pc[j] = "loop" /\ position[j] + 1 \in 1 .. Len(log)
            BY <1>0, <2>2 DEF Receive, InstancesOK
        <3>2. view' = view \/ view'[j] = log[position[j] + 1]
            BY <2>2, <3>1, ViewReceived DEF Receive
        <3>3. \A i \in Instances \ {j} : view'[i] = view[i] /\ pc'[i] = pc[i]
            BY <2>2 DEF Receive, StopConsuming, Goto, InstancesOK
        <3> QED
            BY <3>1, <3>2, <3>3
    <2>3. ASSUME view' = view, pc' = pc \/ \E j \in Instances, next \in Labels :
                    pc[j] \notin {"down", "done"} /\ Goto(j, next)
          PROVE  \A i \in Instances : pc'[i] \notin {"down", "done"} =>
                    pc[i] \notin {"down", "done"} /\ view'[i] = view[i]
        BY <2>3 DEF Goto, InstancesOK
    <2>4. \/ \E j \in Instances : Start(j) \/ Receive(j)
          \/ view' = view /\ pc' = pc
          \/ /\ view' = view
             /\ \E j \in Instances : Routine(j) \/ Retry(j) \/ WatcherCloses(j)
                                     \/ Stop(j) \/ Crash(j)
        <3>1. ASSUME NEW m \in Members,
                     \/ Expire(m) \/ Disconnect(m) \/ PinExpires(m) \/ StepDown(m)
                     \/ \E msg \in Messages : Redeliver(m, msg)
              PROVE  view' = view /\ pc' = pc
            BY <3>1 DEF Expire, Disconnect, PinExpires, StepDown, Unpin, Redeliver, local
        <3>2. ASSUME NEW i \in Instances,
                     Routine(i) \/ Retry(i) \/ WatcherCloses(i) \/ Stop(i) \/ Crash(i)
              PROVE  view' = view
            BY <3>2 DEF Routine, Watch, Info, DeleteOwn, Backoff, Join, Replace, Recreate,
                        Consume, Retry, WatcherCloses, Stop, Crash
        <3>3. ASSUME NEW i \in Instances,
                     Pin(i) \/ \E msg \in Messages : Deliver(i, msg) \/ Finish(i, msg)
              PROVE  view' = view /\ pc' = pc
            BY <3>3 DEF Pin, Deliver, Finish, local
        <3>4. ASSUME \/ \E config \in Configs : ChangeConfig(config)
                     \/ DeleteConfig \/ DropStream \/ UNCHANGED vars
              PROVE  view' = view /\ pc' = pc
            BY <3>4 DEF ChangeConfig, DeleteConfig, DropStream, vars, local
        <3>5. CASE \E m \in Members : \/ Expire(m) \/ Disconnect(m) \/ PinExpires(m) \/ StepDown(m)
                                     \/ \E msg \in Messages : Redeliver(m, msg)
            BY <3>1, <3>5, Zenon
        <3>6. CASE \E i \in Instances :
                      \/ Start(i) \/ Receive(i) \/ Routine(i) \/ Retry(i)
                      \/ WatcherCloses(i) \/ Stop(i) \/ Crash(i) \/ Pin(i)
                      \/ \E msg \in Messages : Deliver(i, msg) \/ Finish(i, msg)
            BY <3>2, <3>3, <3>6, Zenon
        <3> QED
            BY <3>4, <3>5, <3>6 DEF Next
    <2>5. ASSUME NEW j \in Instances,
                 Routine(j) \/ Retry(j) \/ WatcherCloses(j) \/ Stop(j) \/ Crash(j)
          PROVE  pc[j] \notin {"down", "done"}
                 /\ (pc' = pc \/ \E next \in Labels : Goto(j, next))
        BY <2>5 DEF Routine, Watch, Info, DeleteOwn, Backoff, Join, Replace, Recreate,
               Consume, Retry, WatcherCloses, Stop, Crash, StopConsuming, Create, GiveUp,
               Labels
    <2> QED
        BY <2>1, <2>2, <2>3, <2>4, <2>5
<1> QED
    BY <1>2, <1>3, <1>4 DEF Sourced

-----------------------------------------------------------------------------
(* What the steps do to what is promised.                                  *)

\* The consumers are left alone.
LEMMA PromiseKept ==
    ASSUME UNCHANGED <<log, stream, stored, consumers>>
    PROVE  Promised
BY DEF Promised, Promise!vars, Share, Held

\* A consumer is deleted: its member leaves.
LEMMA PromiseRemoved ==
    ASSUME ConsumersOK, NEW m \in Members,
           consumers' = [consumers EXCEPT ![m] = Nothing],
           UNCHANGED <<log, stream, stored>>
    PROVE  Promised
<1>1. /\ Share' = [Share EXCEPT ![m] = {}]
      /\ Held' = [Held EXCEPT ![m] = {}]
    BY DEF ConsumersOK, Share, Held
<1>2. Promise!Leave(m)
    BY <1>1 DEF Promise!Leave
<1> QED
    BY <1>2 DEF Promised, Promise!Next

\* A pin shows in neither the partitions nor the messages of a member.
LEMMA PromisePinned ==
    ASSUME ConsumersOK, NEW m \in Members, consumers[m] # Nothing,
           NEW p \in Instances \cup {Nothing, Gone},
           consumers' = [consumers EXCEPT ![m].pin = p],
           UNCHANGED <<log, stream, stored>>
    PROVE  Promised
<1>1. consumers[m] \in Consumer
    BY DEF ConsumersOK
<1>2. /\ consumers'[m] \in Consumer
      /\ consumers'[m].filters = consumers[m].filters
      /\ consumers'[m].pending = consumers[m].pending
    BY <1>1 DEF ConsumersOK, Consumer
<1>3. \A other \in Members \ {m} : consumers'[other] = consumers[other]
    BY DEF ConsumersOK
<1>4. Share' = Share /\ Held' = Held
    BY <1>2, <1>3, InstancesAssumption DEF Share, Held
<1> QED
    BY <1>4 DEF Promised, Promise!vars

\* What is pending on a consumer is what its member holds.
LEMMA PendingIsHeld ==
    ASSUME ConsumersOK, NEW m \in Members, consumers[m] # Nothing,
           NEW P \in SUBSET Messages,
           consumers' = [consumers EXCEPT ![m].pending = P]
    PROVE  Share' = Share /\ Held' = [Held EXCEPT ![m] = P]
<1>1. consumers[m] \in Consumer
    BY DEF ConsumersOK
<1>2. /\ consumers'[m] \in Consumer
      /\ consumers'[m].filters = consumers[m].filters
      /\ consumers'[m].pending = P
    BY <1>1 DEF ConsumersOK, Consumer
<1>3. \A other \in Members \ {m} : consumers'[other] = consumers[other]
    BY DEF ConsumersOK
<1>4. Share' = Share
    BY <1>2, <1>3, InstancesAssumption DEF Share
<1>5. Held'[m] = P /\ \A other \in Members \ {m} : Held'[other] = Held[other]
    BY <1>2, <1>3, InstancesAssumption DEF Held
<1>6. /\ Held = [n \in Members |-> Held[n]]
      /\ Held' = [n \in Members |-> Held'[n]]
    BY DEF Held
<1>7. Held' = [Held EXCEPT ![m] = P]
    BY <1>5, <1>6
<1> QED
    BY <1>4, <1>7

\* A consumer is created for what the view of the instance gives its member.
LEMMA PromiseCreated ==
    ASSUME IInv, Sourced, IInv', NEW i \in Instances, pc[i] \notin {"down", "done"},
           Create(i), UNCHANGED <<log, stream, stored>>
    PROVE  Promised
<1> DEFINE m == Member[i]
           filters == Filters(view[i], i)
<1>0. ConsumersOK /\ ConsumersOK' /\ Separate' /\ m \in Members
    BY DEF IInv, TypeOK, Members
<1>1. CASE consumers[m] # Nothing
    BY <1>1, PromiseKept DEF Create
<1>2. CASE consumers[m] = Nothing
    <2>1. /\ stream /\ Unique(m, filters)
          /\ consumers' = [consumers EXCEPT ![m] = NewConsumer(filters)]
        BY <1>2 DEF Create, CanCreate
    <2>2. PICK k \in 1 .. Len(log) : view[i] = log[k]
        BY DEF Sourced
    <2>3. log[k] \in ValidConfigs /\ filters = Assigned[log[k]][m]
        BY <2>2 DEF IInv, ViewsValid, Filters
    <2> HIDE DEF filters, m
    <2>4. /\ consumers'[m] = NewConsumer(filters)
          /\ \A other \in Members \ {m} : consumers'[other] = consumers[other]
        BY <1>0, <2>1 DEF ConsumersOK
    <2>5. consumers'[m] # Nothing
        <3>1. filters \in SUBSET Nat
            BY FiltersAreNumbers DEF IInv, filters
        <3>2. NewConsumer(filters) \in Consumer
            BY <3>1 DEF NewConsumer, Consumer
        <3> QED
            BY <2>4, <3>2, InstancesAssumption
    <2>6. Share' = [Share EXCEPT ![m] = filters] /\ Share[m] = {}
        <3>1. Share'[m] = filters /\ \A other \in Members \ {m} : Share'[other] = Share[other]
            BY <1>0, <2>4, <2>5 DEF Share, NewConsumer
        <3> QED
            BY <1>0, <1>2, <3>1 DEF Share
    <2>7. Held' = Held
        BY <1>0, <1>2, <2>4, <2>5 DEF Held, NewConsumer
    <2>8. \A other \in Members \ {m} : Share'[m] \cap Share[other] = {}
        BY <1>0, <2>1, <2>6 DEF Share, Unique
    <2>9. Promise!Join(m)
        BY <2>1, <2>2, <2>3, <2>6, <2>7, <2>8 DEF Promise!Join
    <2> QED
        BY <1>0, <2>9 DEF Promised, Promise!Next
<1> QED
    BY <1>1, <1>2

\* A context stops or dies: what is pending stays with its member.
LEMMA PromiseDetached ==
    ASSUME IInv, NEW i \in Instances, Detach(i), UNCHANGED <<log, stream, stored>>
    PROVE  Promised
<1> DEFINE m == Member[i]
<1>0. m \in Members /\ ConsumersOK
    BY DEF Members, IInv, TypeOK
<1>1. CASE consumers[m] # Nothing /\ attached[i] /\ consumers[m].pin = i
    <2>1. consumers' = [consumers EXCEPT ![m].pin = Gone]
        BY <1>0, <1>1 DEF Detach
    <2> QED
        BY <1>0, <1>1, <2>1, PromisePinned
<1>2. CASE ~(consumers[m] # Nothing /\ attached[i] /\ consumers[m].pin = i)
    <2>1. consumers' = consumers
        BY <1>0, <1>2 DEF Detach, ConsumersOK
    <2> QED
        BY <2>1, PromiseKept
<1> QED
    BY <1>1, <1>2

\* A message is handed to a member that has its partition, and nobody has it.
LEMMA PromiseDelivered ==
    ASSUME IInv, NEW i \in Instances, NEW msg \in Messages, Deliver(i, msg)
    PROVE  Promised
<1> DEFINE m == Member[i]
           P == consumers[m].pending \cup {msg}
<1>0. m \in Members /\ ConsumersOK /\ Separate
    BY DEF Members, IInv, TypeOK
<1>1. /\ consumers[m] # Nothing
      /\ msg \in stored /\ Partition[msg] \in consumers[m].filters
      /\ msg \notin consumers[m].pending
      /\ consumers' = [consumers EXCEPT ![m].pending = P]
      /\ UNCHANGED <<log, stream, stored>>
    BY DEF Deliver
<1>2. consumers[m].pending \in SUBSET Messages
    BY <1>0, <1>1 DEF ConsumersOK, Consumer
<1>3. Share' = Share /\ Held' = [Held EXCEPT ![m] = P]
    <2>1. P \in SUBSET Messages
        BY <1>2
    <2> HIDE DEF P, m
    <2> QED
        BY <1>0, <1>1, <2>1, PendingIsHeld
<1>4. Share[m] = consumers[m].filters /\ Held[m] = consumers[m].pending
    BY <1>0, <1>1 DEF Share, Held
<1>5. \A other \in Members : msg \notin Held[other]
    BY <1>0, <1>1 DEF Held, Separate
<1>6. Promise!Hand(m, msg)
    <2> HIDE DEF m
    <2> QED
        BY <1>0, <1>1, <1>3, <1>4, <1>5 DEF Promise!Hand
<1> QED
    BY <1>0, <1>6 DEF Promised, Promise!Next

\* The server takes a message back.
LEMMA PromiseRedelivered ==
    ASSUME IInv, NEW m \in Members, NEW msg \in Messages, Redeliver(m, msg)
    PROVE  Promised
<1> DEFINE P == consumers[m].pending \ {msg}
<1>0. ConsumersOK
    BY DEF IInv, TypeOK
<1>1. /\ consumers[m] # Nothing
      /\ consumers' = [consumers EXCEPT ![m].pending = P]
      /\ UNCHANGED <<log, stream, stored>>
    BY DEF Redeliver
<1>2. P \in SUBSET Messages
    BY <1>0, <1>1 DEF ConsumersOK, Consumer
<1>3. Share' = Share /\ Held' = [Held EXCEPT ![m] = P]
    <2> HIDE DEF P
    <2> QED
        BY <1>0, <1>1, <1>2, PendingIsHeld
<1>4. Held[m] = consumers[m].pending
    BY <1>1 DEF Held
<1>5. Promise!TakeBack(m, msg)
    BY <1>1, <1>3, <1>4 DEF Promise!TakeBack
<1> QED
    BY <1>5 DEF Promised, Promise!Next

\* A message leaves the stream when the member that has it acknowledges it.
LEMMA PromiseFinished ==
    ASSUME IInv, NEW i \in Instances, NEW msg \in Messages, Finish(i, msg)
    PROVE  Promised
<1> DEFINE m == Member[i]
           P == consumers[m].pending \ {msg}
<1>0. m \in Members /\ ConsumersOK
    BY DEF Members, IInv, TypeOK
<1>1. UNCHANGED <<log, stream>>
    BY DEF Finish
<1>2. CASE consumers[m] # Nothing /\ msg \in consumers[m].pending
    <2>1. /\ consumers' = [consumers EXCEPT ![m].pending = P]
          /\ stored' = stored \ {msg}
        BY <1>2 DEF Finish
    <2>2. P \in SUBSET Messages
        BY <1>0, <1>2 DEF ConsumersOK, Consumer
    <2>3. Share' = Share /\ Held' = [Held EXCEPT ![m] = P]
        <3> HIDE DEF P, m
        <3> QED
            BY <1>0, <1>2, <2>1, <2>2, PendingIsHeld
    <2>4. Held[m] = consumers[m].pending
        BY <1>0, <1>2 DEF Held
    <2>5. Promise!Acknowledge(m, msg)
        <3> HIDE DEF m
        <3> QED
            BY <1>1, <1>2, <2>1, <2>3, <2>4 DEF Promise!Acknowledge, P
    <2> QED
        BY <1>0, <2>5 DEF Promised, Promise!Next
<1>3. CASE ~(consumers[m] # Nothing /\ msg \in consumers[m].pending)
    <2>1. UNCHANGED <<consumers, stored>>
        BY <1>3 DEF Finish
    <2> QED
        BY <1>1, <2>1, PromiseKept
<1> QED
    BY <1>2, <1>3

\* Every step of the instances is one of the group, or none.
LEMMA StepPromised == IInv /\ IInv' /\ Sourced /\ [Next]_vars => Promised
<1> SUFFICES ASSUME IInv, IInv', Sourced, [Next]_vars PROVE Promised
    OBVIOUS
<1>0. /\ \A i \in Instances : Member[i] \in Members
      /\ ConsumersOK
    BY DEF Members, IInv, TypeOK
<1>1. ASSUME NEW m \in Members, Expire(m) \/ Disconnect(m) PROVE Promised
    BY <1>0, <1>1, PromiseRemoved DEF Expire, Disconnect, Remove
<1>2. ASSUME NEW m \in Members, Unpin(m) PROVE Promised
    BY <1>0, <1>2, PromisePinned DEF Unpin
<1>3. ASSUME NEW i \in Instances, Pin(i) PROVE Promised
    BY <1>0, <1>3, PromisePinned DEF Pin
<1>4. ASSUME NEW i \in Instances, Start(i) \/ Watch(i) \/ Backoff(i) \/ Consume(i) \/ Retry(i)
      PROVE  Promised
    BY <1>4, PromiseKept DEF Start, Watch, Backoff, Consume, Retry, server
<1>5. ASSUME NEW i \in Instances,
             Info(i) \/ WatcherCloses(i) \/ Stop(i) \/ Crash(i)
      PROVE  Promised
    BY <1>5, PromiseDetached DEF Info, WatcherCloses, Stop, Crash, StopConsuming
<1>6. ASSUME NEW i \in Instances, Receive(i) PROVE Promised
    <2>1. UNCHANGED <<log, stream, stored>> /\ (Detach(i) \/ UNCHANGED consumers)
        BY <1>6 DEF Receive, StopConsuming
    <2> QED
        BY <2>1, PromiseKept, PromiseDetached
<1>7. ASSUME NEW i \in Instances, DeleteOwn(i) PROVE Promised
    <2>1. /\ UNCHANGED <<log, stream, stored>>
          /\ \/ consumers' = [consumers EXCEPT ![Member[i]] = Nothing]
             \/ UNCHANGED consumers
        BY <1>7 DEF DeleteOwn, Remove
    <2> QED
        BY <1>0, <2>1, PromiseKept, PromiseRemoved
<1>8. ASSUME NEW i \in Instances, Join(i) PROVE Promised
    <2>1. /\ pc[i] \notin {"down", "done"} /\ UNCHANGED <<log, stream, stored>>
          /\ Create(i) \/ UNCHANGED consumers
        BY <1>8 DEF Join, GiveUp
    <2> QED
        BY <2>1, PromiseKept, PromiseCreated
<1>9. ASSUME NEW i \in Instances, Recreate(i) PROVE Promised
    <2>1. /\ pc[i] \notin {"down", "done"} /\ UNCHANGED <<log, stream, stored>>
          /\ Create(i) \/ UNCHANGED consumers
        BY <1>9 DEF Recreate, GiveUp
    <2> QED
        BY <2>1, PromiseKept, PromiseCreated
<1>10. ASSUME NEW i \in Instances, Replace(i) PROVE Promised
    <2>1. /\ UNCHANGED <<log, stream, stored>>
          /\ \/ consumers' = [consumers EXCEPT ![Member[i]] = Nothing]
             \/ UNCHANGED consumers
        BY <1>10 DEF Replace, Remove, GiveUp
    <2> QED
        BY <1>0, <2>1, PromiseKept, PromiseRemoved
<1>11. ASSUME NEW config \in Configs, ChangeConfig(config) PROVE Promised
    <2>1. Promise!Change(config)
        BY <1>11 DEF ChangeConfig, Latest, Promise!Change, Promise!Latest, Share, Held
    <2> QED
        BY <2>1 DEF Promised, Promise!Next
<1>12. CASE DeleteConfig
    <2>1. Promise!Delete
        BY <1>12 DEF DeleteConfig, Latest, Promise!Delete, Promise!Latest, Share, Held
    <2> QED
        BY <2>1 DEF Promised, Promise!Next
<1>13. CASE DropStream
    <2>1. Share' = Promise!None /\ Held' = Promise!None
        BY <1>13 DEF DropStream, Share, Held, Promise!None
    <2>2. Promise!Close
        BY <1>13, <2>1 DEF DropStream, Latest, Promise!Close, Promise!Latest
    <2> QED
        BY <2>2 DEF Promised, Promise!Next
<1>14. CASE UNCHANGED vars
    BY <1>14, PromiseKept DEF vars, server
<1> QED
    BY <1>1, <1>2, <1>3, <1>4, <1>5, <1>6, <1>7, <1>8, <1>9, <1>10, <1>11, <1>12,
       <1>13, <1>14, PromiseDelivered, PromiseFinished, PromiseRedelivered
       DEF Next, Routine, PinExpires, StepDown

\* However many instances there are, and whichever of them is late, fails or dies,
\* the group keeps what ConsumerGroup promises: its messages go to one member at a
\* time, the one whom a stored configuration gives their partition.
THEOREM GroupKeepsPromise == Spec => ImplementsConsumerGroup
<1>1. Init => Sourced /\ Promise!Init
    <2> SUFFICES ASSUME Init PROVE Sourced /\ Promise!Init
        OBVIOUS
    <2>1. Sourced
        BY DEF Init, Sourced
    <2>2. Share = Promise!None /\ Held = Promise!None
        BY DEF Init, Share, Held, Promise!None
    <2>3. Promise!Init
        BY <2>2 DEF Init, Promise!Init
    <2> QED
        BY <2>1, <2>3
<1>2. IInv /\ IInv' /\ Sourced /\ [Next]_vars
        => Sourced' /\ [Promise!Next]_(Promise!vars)
    BY StepSourced, StepPromised DEF Promised
<1> QED
    BY <1>1, <1>2, InstancesInvariant, PTL DEF Spec, ImplementsConsumerGroup, Promise!Spec
=============================================================================
