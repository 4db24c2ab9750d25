------------------------- MODULE StaticGroups_proofs -------------------------
(***************************************************************************)
(* For any number of administrators, groups, instances and configurations: *)
(* the types of the state, and that an instance alone of its member pulls  *)
(* from a consumer of its own configuration only.                          *)
(***************************************************************************)
EXTENDS StaticGroups, SequenceTheorems, TLAPS

Entries == Configs \cup {Deleted}

\* An administrator in a call is about a group.
TaskOK(t) ==
    /\ t \in [step : {"idle", "put", "list", "clean"},
              group : Groups \cup {<<>>}, config : Entries,
              names : SUBSET Durables]
    /\ t.step # "idle" => t.group \in Groups

ServerOK ==
    /\ log \in [Groups -> Seq(Entries)]
    /\ \A g \in Groups : Len(log[g]) <= MaxChanges
    /\ DOMAIN consumers = Durables
    /\ consumers = [n \in Durables |-> consumers[n]]

TasksOK ==
    /\ task = [a \in Admins |-> task[a]]
    /\ \A a \in Admins : TaskOK(task[a])

LocalOK ==
    /\ pc \in [Instances -> Labels]
    /\ view \in [Instances -> ValidConfigs \cup {Deleted}]
    /\ position \in [Instances -> Nat]
    /\ consumer \in [Instances -> BOOLEAN]
    /\ attached \in [Instances -> BOOLEAN]

\* Whoever has been started found an entry, which the key keeps a successor of;
\* and nobody pulls but in the loop, a member of what it has read.
InstanceOK(i) ==
    /\ position[i] <= Len(log[Group[i]])
    /\ pc[i] # "down" => log[Group[i]] # <<>>
    /\ pc[i] \in {"join", "consume", "loop", "blind"} =>
          IsInMembership(view[i], Member[i])
    /\ attached[i] => pc[i] \in {"loop", "blind"}

FaultsOK == faults \in 0 .. MaxFaults

IInv ==
    /\ ServerOK /\ TasksOK /\ LocalOK /\ FaultsOK
    /\ \A i \in Instances : InstanceOK(i)

\* No two instances make the same consumer.
OneInstanceEach == \A i, j \in Instances : Durable(i) = Durable(j) => i = j

\* What an instance has made, and is about to pull from or pulls from, is of its
\* own configuration as long as it is there.
OwnConsumer ==
    \A i \in Instances :
        pc[i] = "consume" \/ attached[i] =>
            consumers[Durable(i)] \in {Nothing, Assigned[view[i], Member[i]]}

-----------------------------------------------------------------------------
(* What the steps have in common.                                          *)

\* The names and the idle task are of their types.
LEMMA NamesKnown ==
    /\ TaskOK(NoTask)
    /\ \A i \in Instances : Group[i] \in Groups /\ Durable(i) \in Durables
    /\ ValidConfigs \subseteq Configs
    /\ MaxFaults \in Nat
BY StaticAssumption DEF TaskOK, NoTask, Entries, Groups, Durables, ValidConfigs

\* Fault counts within its bound.
LEMMA FaultCounts ==
    ASSUME FaultsOK, NEW kind, Fault(kind)
    PROVE  FaultsOK'
BY NamesKnown DEF FaultsOK, Fault

\* An entry more in a key: every log only grows.
LEMMA WriteSound ==
    ASSUME IInv, NEW group \in Groups, NEW value \in Entries, Write(group, value),
           UNCHANGED <<consumers, local>>
    PROVE  ServerOK' /\ \A i \in Instances : InstanceOK(i)'
<1>1. /\ log[group] \in Seq(Entries)
      /\ Append(log[group], value) \in Seq(Entries)
      /\ Len(Append(log[group], value)) = Len(log[group]) + 1
      /\ Append(log[group], value) # <<>>
    <2>1. log[group] \in Seq(Entries)
        BY DEF IInv, ServerOK
    <2> QED
        BY <2>1, AppendProperties
<1>2. ServerOK'
    <2>1. log' \in [Groups -> Seq(Entries)]
        BY <1>1 DEF IInv, ServerOK, Write
    <2>2. \A g \in Groups : Len(log'[g]) <= MaxChanges
        BY <1>1, StaticAssumption DEF IInv, ServerOK, Write
    <2> QED
        BY <2>1, <2>2 DEF IInv, ServerOK
<1>3. \A g \in Groups :
          /\ Len(log[g]) <= Len(log'[g]) /\ Len(log'[g]) \in Nat
          /\ log[g] # <<>> => log'[g] # <<>>
    <2> SUFFICES ASSUME NEW g \in Groups
                 PROVE  /\ Len(log[g]) <= Len(log'[g]) /\ Len(log'[g]) \in Nat
                        /\ log[g] # <<>> => log'[g] # <<>>
        OBVIOUS
    <2>1. log[g] \in Seq(Entries) /\ Len(log[g]) \in Nat
        BY DEF IInv, ServerOK
    <2>2. CASE g = group
        BY <1>1, <2>1, <2>2 DEF IInv, ServerOK, Write
    <2>3. CASE g # group
        BY <2>1, <2>3 DEF IInv, ServerOK, Write
    <2> QED
        BY <2>2, <2>3
<1>4. ASSUME NEW i \in Instances PROVE InstanceOK(i)'
    <2>1. Group[i] \in Groups /\ position[i] \in Nat /\ Len(log[Group[i]]) \in Nat
        BY NamesKnown DEF IInv, LocalOK, ServerOK
    <2> QED
        BY <1>3, <2>1 DEF IInv, InstanceOK, local
<1> QED
    BY <1>2, <1>4

\* A consumer less: nobody pulls who did not before.
LEMMA RemoveSound ==
    ASSUME IInv, NEW name \in Durables, Remove(name),
           UNCHANGED <<log, view, position, consumer>>,
           pc' = pc \/ \E i \in Instances :
               pc[i] = "delete" /\ pc' = [pc EXCEPT ![i] = "done"]
    PROVE  ServerOK' /\ LocalOK' /\ \A i \in Instances : InstanceOK(i)'
<1>1. ServerOK'
    BY DEF IInv, ServerOK, Remove
<1>2. LocalOK'
    BY DEF IInv, LocalOK, Remove, Labels
<1>3. \A i \in Instances : InstanceOK(i)'
    BY DEF IInv, LocalOK, InstanceOK, Remove
<1> QED
    BY <1>1, <1>2, <1>3

-----------------------------------------------------------------------------
(* The invariant.                                                          *)

\* Nothing is written, made or started yet.
LEMMA InitSound == Init => IInv
<1> SUFFICES ASSUME Init PROVE IInv
    OBVIOUS
<1>1. ServerOK
    BY StaticAssumption, EmptySeq DEF Init, ServerOK
<1>2. TasksOK
    BY NamesKnown DEF Init, TasksOK
<1>3. LocalOK
    BY DEF Init, LocalOK, Labels
<1>4. \A i \in Instances : InstanceOK(i)
    BY NamesKnown, EmptySeq DEF Init, InstanceOK
<1> QED
    BY <1>1, <1>2, <1>3, <1>4, NamesKnown DEF IInv, Init, FaultsOK

\* CreateStatic and DeleteStatic, each step of which may be the last.
LEMMA AdministrationSound ==
    ASSUME IInv, NEW a \in Admins,
           \/ Administer(a) \/ Abandon(a)
           \/ \E group \in Groups :
                 \/ DeleteKey(a, group)
                 \/ \E config \in Configs : CreateGet(a, group, config)
    PROVE  IInv'
<1> USE NamesKnown
<1>1. ASSUME NEW group \in Groups, NEW config \in Configs,
             CreateGet(a, group, config)
      PROVE  IInv'
    <2>1. TasksOK'
        BY <1>1 DEF CreateGet, IInv, TasksOK, TaskOK, Entries
    <2> QED
        BY <1>1, <2>1 DEF CreateGet, IInv, server, local, ServerOK, LocalOK,
                          InstanceOK, FaultsOK
<1>2. CASE CreatePut(a)
    <2>1. task[a].group \in Groups /\ task[a].config \in Entries
        BY <1>2 DEF CreatePut, IInv, TasksOK, TaskOK
    <2>2. ServerOK' /\ \A i \in Instances : InstanceOK(i)'
        BY <1>2, <2>1, WriteSound DEF CreatePut
    <2>3. TasksOK'
        BY <1>2 DEF CreatePut, IInv, TasksOK
    <2> QED
        BY <1>2, <2>2, <2>3 DEF CreatePut, IInv, local, LocalOK, FaultsOK
<1>3. ASSUME NEW group \in Groups, DeleteKey(a, group)
      PROVE  IInv'
    <2>1. ServerOK' /\ \A i \in Instances : InstanceOK(i)'
        BY <1>3, WriteSound DEF DeleteKey, Entries
    <2>2. TasksOK'
        BY <1>3 DEF DeleteKey, IInv, TasksOK, TaskOK, Entries
    <2> QED
        BY <1>3, <2>1, <2>2 DEF DeleteKey, IInv, local, LocalOK, FaultsOK
<1>4. CASE ListConsumers(a)
    <2>1. /\ \E names \in SUBSET Durables :
                task' = [task EXCEPT ![a].step = "clean", ![a].names = names]
          /\ Fault("list") \/ UNCHANGED faults
          /\ UNCHANGED <<server, local>>
        <3>1. PICK found : \E names \in SUBSET found :
                  /\ found = {n \in Durables : consumers[n] # Nothing
                                               /\ HasPrefix(n, task[a].group)}
                  /\ task' = [task EXCEPT ![a].step = "clean", ![a].names = names]
                  /\ IF names = found THEN UNCHANGED faults ELSE Fault("list")
                  /\ UNCHANGED <<server, local>>
            BY <1>4, Zenon DEF ListConsumers
        <3>2. PICK names \in SUBSET found :
                  /\ task' = [task EXCEPT ![a].step = "clean", ![a].names = names]
                  /\ IF names = found THEN UNCHANGED faults ELSE Fault("list")
                  /\ UNCHANGED <<server, local>>
            BY <3>1, Zenon
        <3>3. names \in SUBSET Durables
            BY <3>1, <3>2
        <3>4. Fault("list") \/ UNCHANGED faults
            BY <3>2, Zenon
        <3> QED
            BY <3>2, <3>3, <3>4, Zenon
    <2>2. TasksOK'
        <3>1. PICK names \in SUBSET Durables :
                  task' = [task EXCEPT ![a].step = "clean", ![a].names = names]
            BY <2>1
        <3>2. TaskOK([task[a] EXCEPT !.step = "clean", !.names = names])
            BY <1>4 DEF ListConsumers, IInv, TasksOK, TaskOK
        <3>3. task' = [task EXCEPT ![a] = [task[a] EXCEPT !.step = "clean",
                                                          !.names = names]]
            BY <3>1 DEF IInv, TasksOK
        <3> QED
            BY <3>2, <3>3 DEF IInv, TasksOK
    <2>3. FaultsOK'
        <3>1. CASE Fault("list")
            BY <3>1, FaultCounts DEF IInv
        <3>2. CASE UNCHANGED faults
            BY <3>2 DEF IInv, FaultsOK
        <3> QED
            BY <2>1, <3>1, <3>2
    <2> QED
        BY <2>1, <2>2, <2>3 DEF IInv, server, local, ServerOK, LocalOK, InstanceOK
<1>5. CASE DeleteNext(a)
    <2>1. PICK n \in task[a].names :
              /\ task' = [task EXCEPT ![a].names = @ \ {n}]
              /\ \/ Remove(n) /\ UNCHANGED faults
                 \/ Fault("delete") /\ UNCHANGED <<consumers, attached>>
        BY <1>5 DEF DeleteNext
    <2>2. n \in Durables
        BY DEF IInv, TasksOK, TaskOK
    <2>3. TasksOK'
        BY <2>1 DEF IInv, TasksOK, TaskOK
    <2>4. UNCHANGED <<log, pc, view, position, consumer>>
        BY <1>5 DEF DeleteNext
    <2>5. CASE Remove(n) /\ UNCHANGED faults
        <3>1. ServerOK' /\ LocalOK' /\ \A i \in Instances : InstanceOK(i)'
            BY <2>2, <2>4, <2>5, RemoveSound
        <3> QED
            BY <2>3, <2>5, <3>1 DEF IInv, FaultsOK
    <2>6. CASE Fault("delete") /\ UNCHANGED <<consumers, attached>>
        BY <2>3, <2>4, <2>6, FaultCounts DEF IInv, ServerOK, LocalOK, InstanceOK
    <2> QED
        BY <2>1, <2>5, <2>6
<1>6. CASE DeleteReturns(a)
    <2>1. TasksOK'
        BY <1>6 DEF DeleteReturns, IInv, TasksOK
    <2> QED
        BY <1>6, <2>1 DEF DeleteReturns, IInv, server, local, ServerOK, LocalOK,
                          InstanceOK, FaultsOK
<1>7. CASE Abandon(a)
    <2>1. TasksOK'
        BY <1>7 DEF Abandon, IInv, TasksOK
    <2> QED
        BY <1>7, <2>1, FaultCounts DEF Abandon, IInv, server, local, ServerOK,
                                       LocalOK, InstanceOK
<1> QED
    BY <1>1, <1>2, <1>3, <1>4, <1>5, <1>6, <1>7 DEF Administer

\* The life of an instance, which never writes to the bucket.
LEMMA InstanceSound ==
    ASSUME IInv, NEW i \in Instances,
           \/ Start(i) \/ Routine(i) \/ Receive(i)
           \/ WatcherCloses(i) \/ Stop(i) \/ Crash(i)
    PROVE  IInv'
<1> USE NamesKnown
<1>0. /\ log[Group[i]] \in Seq(Entries) /\ Len(log[Group[i]]) \in Nat
      /\ log[Group[i]] # <<>> => Len(log[Group[i]]) > 0
      /\ Durable(i) \in Durables
    BY DEF IInv, ServerOK
<1>1. CASE Start(i)
    <2>1. log[Group[i]] # <<>>
        BY <1>1, StaticAssumption DEF Start, Latest, ValidConfigs
    <2>2. LocalOK'
        BY <1>1 DEF Start, Goto, IInv, LocalOK, Labels
    <2>3. \A j \in Instances : InstanceOK(j)'
        BY <1>1, <2>1 DEF Start, Goto, server, IInv, LocalOK, InstanceOK
    <2> QED
        BY <1>1, <2>2, <2>3 DEF Start, server, IInv, ServerOK, TasksOK, FaultsOK
<1>2. CASE Watch(i)
    <2>1. Len(log[Group[i]]) > 0
        BY <1>0, <1>2 DEF Watch, IInv, InstanceOK
    <2>2. LocalOK'
        BY <1>0, <1>2, <2>1 DEF Watch, Goto, IInv, LocalOK, Labels
    <2>3. \A j \in Instances : InstanceOK(j)'
        BY <1>0, <1>2, <2>1 DEF Watch, Goto, server, IInv, LocalOK, InstanceOK
    <2> QED
        BY <1>2, <2>2, <2>3 DEF Watch, server, IInv, ServerOK, TasksOK, FaultsOK
<1>3. CASE Join(i)
    <2> DEFINE filters == Assigned[view[i], Member[i]]
    <2>1. /\ pc[i] = "join"
          /\ \/ consumers' = consumers
             \/ consumers' = [consumers EXCEPT ![Durable(i)] = filters]
          /\ \/ consumer' = consumer
             \/ consumer' = [consumer EXCEPT ![i] = TRUE]
          /\ \E next \in {"loop", "consume", "done"} : Goto(i, next)
          /\ UNCHANGED faults \/ Fault("create")
          /\ UNCHANGED <<log, task, view, position, attached>>
        BY <1>3 DEF Join
    <2>2. ServerOK'
        BY <1>0, <2>1 DEF IInv, ServerOK
    <2>3. LocalOK'
        BY <2>1 DEF IInv, LocalOK, Goto, Labels
    <2>4. \A j \in Instances : InstanceOK(j)'
        BY <2>1 DEF IInv, LocalOK, InstanceOK, Goto
    <2>5. FaultsOK'
        BY <2>1, FaultCounts DEF IInv, FaultsOK
    <2> QED
        BY <2>1, <2>2, <2>3, <2>4, <2>5 DEF IInv, TasksOK
<1>4. CASE Consume(i)
    <2>1. LocalOK'
        BY <1>4 DEF Consume, Goto, IInv, LocalOK, Labels
    <2>2. \A j \in Instances : InstanceOK(j)'
        BY <1>4 DEF Consume, Goto, server, IInv, LocalOK, InstanceOK
    <2>3. FaultsOK'
        BY <1>4, FaultCounts DEF Consume, IInv, FaultsOK
    <2> QED
        BY <1>4, <2>1, <2>2, <2>3 DEF Consume, server, IInv, ServerOK, TasksOK
<1>5. CASE DeleteOwn(i)
    <2>1. /\ pc[i] = "delete" /\ pc' = [pc EXCEPT ![i] = "done"]
          /\ UNCHANGED <<log, task, view, position, consumer>>
        BY <1>5 DEF DeleteOwn, Goto
    <2>2. CASE Remove(Durable(i)) /\ UNCHANGED faults
        <3>1. ServerOK' /\ LocalOK' /\ \A j \in Instances : InstanceOK(j)'
            BY <1>0, <2>1, <2>2, RemoveSound
        <3> QED
            BY <2>1, <2>2, <3>1 DEF IInv, TasksOK, FaultsOK
    <2>3. CASE Fault("delete") /\ UNCHANGED <<consumers, attached>>
        <3>1. LocalOK'
            BY <2>1, <2>3 DEF IInv, LocalOK, Labels
        <3>2. \A j \in Instances : InstanceOK(j)'
            BY <2>1, <2>3 DEF IInv, LocalOK, InstanceOK
        <3> QED
            BY <2>1, <2>3, <3>1, <3>2, FaultCounts DEF IInv, ServerOK, TasksOK
    <2> QED
        BY <1>5, <2>2, <2>3 DEF DeleteOwn
<1>6. CASE Receive(i)
    <2>1. LocalOK'
        <3>1. /\ position' = [position EXCEPT ![i] = @ + 1]
              /\ view' = view
              /\ \/ UNCHANGED <<pc, consumer, attached>>
                 \/ StopConsuming(i, "delete")
            BY <1>6 DEF Receive
        <3>2. position' \in [Instances -> Nat]
            BY <3>1 DEF IInv, LocalOK
        <3>3. CASE UNCHANGED <<pc, consumer, attached>>
            BY <3>1, <3>2, <3>3 DEF IInv, LocalOK
        <3>4. CASE StopConsuming(i, "delete")
            BY <3>1, <3>2, <3>4 DEF StopConsuming, Goto, IInv, LocalOK, Labels
        <3> QED
            BY <3>1, <3>3, <3>4
    <2>2. \A j \in Instances : InstanceOK(j)'
        BY <1>0, <1>6 DEF Receive, StopConsuming, Goto, server, IInv, LocalOK,
                          InstanceOK
    <2> QED
        BY <1>6, <2>1, <2>2 DEF Receive, server, IInv, ServerOK, TasksOK, FaultsOK
<1>7. CASE WatcherCloses(i)
    <2>1. LocalOK'
        BY <1>7 DEF WatcherCloses, Goto, IInv, LocalOK, Labels
    <2>2. \A j \in Instances : InstanceOK(j)'
        BY <1>7 DEF WatcherCloses, Goto, server, IInv, LocalOK, InstanceOK
    <2> QED
        BY <1>7, <2>1, <2>2, FaultCounts DEF WatcherCloses, server, IInv, ServerOK,
                                             TasksOK
<1>8. CASE Stop(i) \/ Crash(i)
    <2>1. /\ StopConsuming(i, "done") /\ pc[i] # "down"
          /\ Fault("crash") \/ UNCHANGED faults
          /\ UNCHANGED <<server, task, view, position>>
        BY <1>8 DEF Stop, Crash
    <2>2. LocalOK'
        BY <2>1 DEF StopConsuming, Goto, IInv, LocalOK, Labels
    <2>3. \A j \in Instances : InstanceOK(j)'
        BY <2>1 DEF StopConsuming, Goto, server, IInv, LocalOK, InstanceOK
    <2>4. FaultsOK'
        <3>1. CASE Fault("crash")
            BY <3>1, FaultCounts DEF IInv
        <3>2. CASE UNCHANGED faults
            BY <3>2 DEF IInv, FaultsOK
        <3> QED
            BY <2>1, <3>1, <3>2
    <2> QED
        BY <2>1, <2>2, <2>3, <2>4 DEF server, IInv, ServerOK, TasksOK
<1> QED
    BY <1>1, <1>2, <1>3, <1>4, <1>5, <1>6, <1>7, <1>8 DEF Routine

\* Every step keeps the invariant.
LEMMA StepSound == IInv /\ [Next]_vars => IInv'
<1> SUFFICES ASSUME IInv, [Next]_vars PROVE IInv'
    OBVIOUS
<1>1. CASE UNCHANGED vars
    BY <1>1 DEF vars, server, local, IInv, ServerOK, TasksOK, LocalOK, FaultsOK,
                InstanceOK
<1> QED
    BY <1>1, AdministrationSound, InstanceSound DEF Next

\* The invariant's parts are what TypeOK says.
LEMMA InvariantTypes == IInv => TypeOK
<1> SUFFICES ASSUME IInv PROVE TypeOK
    OBVIOUS
<1>1. \A g \in Groups : log[g] \in Seq(Configs \cup {Deleted})
                        /\ Len(log[g]) <= MaxChanges
    BY DEF IInv, ServerOK, Entries
<1>2. \A a \in Admins :
          /\ task[a].step \in {"idle", "put", "list", "clean"}
          /\ task[a].config \in Configs \cup {Deleted}
          /\ task[a].names \subseteq Durables
    BY DEF IInv, TasksOK, TaskOK, Entries
<1>3. \A i \in Instances :
          /\ position[i] \in 0 .. Len(log[Group[i]])
          /\ pc[i] \in {"join", "consume", "loop", "blind"} =>
                IsInMembership(view[i], Member[i])
    <2> TAKE i \in Instances
    <2>1. Len(log[Group[i]]) \in Nat
        BY NamesKnown DEF IInv, ServerOK
    <2> QED
        BY <2>1 DEF IInv, LocalOK, InstanceOK
<1> QED
    BY <1>1, <1>2, <1>3 DEF IInv, ServerOK, LocalOK, FaultsOK, TypeOK

\* In every behaviour, for any number of administrators, groups and instances:
\* logs that only grow, an administrator in a call is about a group, and nobody
\* pulls but in the loop, a member of what it has read.
THEOREM StaticInvariant == Spec => []IInv
BY InitSound, StepSound, PTL DEF Spec

\* The type invariant of StaticGroups.
THEOREM StaticTypeCorrect == Spec => []TypeOK
BY StaticInvariant, InvariantTypes, PTL

-----------------------------------------------------------------------------
(* Whose consumers the instances pull from.                                *)

\* A consumer that goes away is of no configuration; the other steps leave the
\* consumers, and what the instance has read of its own, alone.
LEMMA KeepsOwn ==
    ASSUME OwnConsumer, view' = view,
           \A n \in Durables : consumers'[n] \in {Nothing, consumers[n]},
           \A i \in Instances :
               pc'[i] = "consume" \/ attached'[i] => pc[i] = "consume" \/ attached[i]
    PROVE  OwnConsumer'
BY NamesKnown DEF OwnConsumer

\* An instance that starts pulls from nothing, and one that joins has made what
\* it needs, or found it; another that has made it would be of the same member.
LEMMA OwnStep ==
    ASSUME OneInstanceEach, IInv, OwnConsumer, [Next]_vars
    PROVE  OwnConsumer'
<1> USE NamesKnown
<1>1. CASE UNCHANGED vars
    BY <1>1, KeepsOwn DEF vars, server, local
<1>2. ASSUME NEW a \in Admins,
             \/ Administer(a) \/ Abandon(a)
             \/ \E group \in Groups :
                   \/ DeleteKey(a, group)
                   \/ \E config \in Configs : CreateGet(a, group, config)
      PROVE  OwnConsumer'
    <2>1. CASE DeleteNext(a)
        <3>1. PICK n \in task[a].names :
                  Remove(n) \/ UNCHANGED <<consumers, attached>>
            BY <2>1 DEF DeleteNext
        <3>2. UNCHANGED <<pc, view>>
            BY <2>1 DEF DeleteNext
        <3> QED
            BY <3>1, <3>2, KeepsOwn DEF Remove, IInv, ServerOK
    <2>2. CASE ~DeleteNext(a)
        <3>1. UNCHANGED <<consumers, local>>
            BY <1>2, <2>2 DEF Administer, CreatePut, ListConsumers, DeleteReturns,
                              Abandon, DeleteKey, CreateGet, server
        <3> QED
            BY <3>1, KeepsOwn DEF local
    <2> QED
        BY <2>1, <2>2
<1>3. ASSUME NEW i \in Instances, Start(i)
      PROVE  OwnConsumer'
    <2>1. /\ pc[i] \in {"down", "done"} /\ pc' = [pc EXCEPT ![i] = "watch"]
          /\ view' = [view EXCEPT ![i] = Latest(Group[i])]
          /\ UNCHANGED <<consumers, attached>>
        BY <1>3 DEF Start, Goto, server
    <2>2. ~attached[i]
        BY <2>1 DEF IInv, InstanceOK
    <2> QED
        BY <2>1, <2>2 DEF OwnConsumer, IInv, LocalOK
<1>4. ASSUME NEW i \in Instances, Join(i)
      PROVE  OwnConsumer'
    <2> DEFINE filters == Assigned[view[i], Member[i]]
    <2>1. /\ pc[i] = "join"
          /\ UNCHANGED <<view, attached>>
          /\ \/ consumers' = consumers /\ \E next \in {"loop", "done"} : Goto(i, next)
             \/ /\ consumers' = [consumers EXCEPT ![Durable(i)] = filters]
                /\ Goto(i, "consume")
        BY <1>4 DEF Join
    <2>2. CASE consumers' = consumers /\ \E next \in {"loop", "done"} : Goto(i, next)
        BY <2>1, <2>2, KeepsOwn DEF Goto, IInv, LocalOK
    <2>3. CASE /\ consumers' = [consumers EXCEPT ![Durable(i)] = filters]
               /\ Goto(i, "consume")
        <3>1. ASSUME NEW j \in Instances, pc'[j] = "consume" \/ attached'[j]
              PROVE  consumers'[Durable(j)] \in {Nothing, Assigned[view'[j], Member[j]]}
            <4>1. CASE j = i
                BY <2>1, <2>3, <4>1 DEF IInv, ServerOK
            <4>2. CASE j # i
                <5>1. Durable(j) # Durable(i)
                    BY <4>2 DEF OneInstanceEach
                <5>2. consumers'[Durable(j)] = consumers[Durable(j)]
                    BY <2>3, <5>1 DEF IInv, ServerOK
                <5> QED
                    BY <2>1, <2>3, <3>1, <4>2, <5>2 DEF Goto, IInv, LocalOK, OwnConsumer
            <4> QED
                BY <4>1, <4>2
        <3> QED
            BY <3>1 DEF OwnConsumer, Durable
    <2> QED
        BY <2>1, <2>2, <2>3
<1>5. ASSUME NEW i \in Instances, Watch(i) \/ Consume(i) \/ DeleteOwn(i)
      PROVE  OwnConsumer'
    <2>1. CASE Watch(i)
        BY <2>1, KeepsOwn DEF Watch, Goto, server, IInv, LocalOK
    <2>2. CASE Consume(i)
        BY <2>2, KeepsOwn DEF Consume, Goto, server, IInv, LocalOK
    <2>3. CASE DeleteOwn(i)
        BY <2>3, KeepsOwn DEF DeleteOwn, Goto, Remove, IInv, ServerOK, LocalOK
    <2> QED
        BY <1>5, <2>1, <2>2, <2>3
<1>6. ASSUME NEW i \in Instances,
             Receive(i) \/ WatcherCloses(i) \/ Stop(i) \/ Crash(i)
      PROVE  OwnConsumer'
    <2>1. /\ UNCHANGED <<consumers, view>>
          /\ \/ UNCHANGED <<pc, attached>>
             \/ \E next \in Labels \ {"consume"} : StopConsuming(i, next)
             \/ Goto(i, "blind") /\ UNCHANGED attached
        BY <1>6 DEF Receive, WatcherCloses, Stop, Crash, server, Labels
    <2> QED
        BY <2>1, KeepsOwn DEF StopConsuming, Goto, IInv, LocalOK
<1> QED
    BY <1>1, <1>2, <1>3, <1>4, <1>5, <1>6 DEF Next, Routine

\* Where no two instances name the same durable consumer, an instance never
\* pulls from a consumer made for another configuration of the group, however
\* often the group is deleted and created anew and whatever call fails.
THEOREM AloneConsumesItsPartitions ==
    ASSUME OneInstanceEach
    PROVE  Spec => []ConsumesItsPartitions
<1>1. Init => OwnConsumer
    BY DEF Init, OwnConsumer
<1>2. IInv /\ OwnConsumer /\ [Next]_vars => OwnConsumer'
    BY OwnStep
<1>3. OwnConsumer => ConsumesItsPartitions
    BY DEF OwnConsumer, ConsumesItsPartitions
<1> QED
    BY <1>1, <1>2, <1>3, StaticInvariant, PTL DEF Spec
=============================================================================
