-------------------------- MODULE PartitionFilters --------------------------
(***************************************************************************)
(* The pure part of pcgroups: which partitions of a consumer group belong  *)
(* to which member (GeneratePartitionFilters, ElasticGetPartitionFilters)  *)
(* and which configurations the library accepts (validateConfig).          *)
(*                                                                         *)
(* Member names are numbers, ordered as Go orders the strings.  A member   *)
(* list is a set: GeneratePartitionFilters de-duplicates and sorts it      *)
(* before anything else, so neither order nor repetition is observable.    *)
(* Mappings stay sequences, because validateConfig is about repetition.    *)
(***************************************************************************)
EXTENDS Integers, Sequences, FiniteSets

\* The filter that stands for every subject.
AllSubjects == ">"

\* How many members take part: the sorted list is cut to maxMembers entries.
NumMembers(members, maxMembers) ==
    IF Cardinality(members) > maxMembers THEN maxMembers
                                         ELSE Cardinality(members)

\* Position of a name in the sorted, de-duplicated list, from 0.
Rank(members, name) == Cardinality({m \in members : m < name})

\* Mutant of OwnerIndex: the boundary between blocks and remainder is one off.
OwnerIndexLateRemainder(i, n, maxMembers) ==
    LET numPer == maxMembers \div n
    IN  IF i <= n * numPer THEN (i \div numPer) % (n + 1)
                           ELSE (i - n * numPer) % n

\* Mutant of OwnerIndex: everything left over goes to the first member.
OwnerIndexGreedy(i, n, maxMembers) ==
    LET numPer == maxMembers \div n
    IN  IF i < n * numPer THEN (i \div numPer) % n ELSE 0

\* Position of the member that owns partition i when n members share them:
\* equal blocks first, the remainder dealt one by one from the first member.
OwnerIndex(i, n, maxMembers) ==
    LET numPer == maxMembers \div n
    IN  IF i < n * numPer THEN (i \div numPer) % n
                          ELSE (i - n * numPer) % n

\* The partitions of a member in a group without mappings.  Members beyond
\* the cut have a rank that no OwnerIndex reaches.
BalancedPartitions(members, maxMembers, name) ==
    {i \in 0 .. maxMembers - 1 :
        /\ name \in members
        /\ OwnerIndex(i, NumMembers(members, maxMembers), maxMembers)
             = Rank(members, name)}

\* Positions <<j, k>> of a list of mappings: the k-th partition number of the
\* j-th mapping.
MappingSlots(mappings) ==
    UNION {{j} \X (1 .. Len(mappings[j].partitions)) : j \in 1 .. Len(mappings)}

PartitionAt(mappings, slot) == mappings[slot[1]].partitions[slot[2]]

\* The filters one call returns, one entry per append: "slot" tells two equal
\* strings of the slice apart.  With mappings the subject filter is not used.
GeneratePartitionFilters(members, maxMembers, mappings, name, filter) ==
    IF members # {}
    THEN {[slot |-> <<0, i>>, partition |-> i, subject |-> filter] :
              i \in BalancedPartitions(members, maxMembers, name)}
    ELSE {[slot |-> s, partition |-> PartitionAt(mappings, s),
           subject |-> AllSubjects] :
              s \in {t \in MappingSlots(mappings) :
                        mappings[t[1]].member = name}}

\* The whole list for a member: one call per partitioning filter, or one call
\* with the catch-all filter when the group has none.
ElasticGetPartitionFilters(config, name) ==
    LET Call(k, subject) ==
            {[call |-> k, slot |-> e.slot,
              partition |-> e.partition, subject |-> e.subject] :
                e \in GeneratePartitionFilters(config.members, config.max,
                          config.mappings, name, subject)}
    IN  IF config.filters # <<>>
        THEN UNION {Call(k, config.filters[k].subject) :
                        k \in 1 .. Len(config.filters)}
        ELSE Call(0, AllSubjects)

\* The partitions a member consumes from.
PartitionsOf(config, name) ==
    {e.partition : e \in ElasticGetPartitionFilters(config, name)}

IsInMembership(config, name) ==
    \/ name \in config.members
    \/ \E j \in 1 .. Len(config.mappings) : config.mappings[j].member = name

-----------------------------------------------------------------------------
\* A partitioning filter keeps what validateConfig looks at: its number of
\* star tokens, whether it ends with >, and the wildcard indexes to partition on.
ValidFilter(f) ==
    /\ f.wildcards > 0 \/ f.full
    /\ Len(f.partitioning) <= f.wildcards
    /\ \A a, b \in 1 .. Len(f.partitioning) :
          f.partitioning[a] = f.partitioning[b] => a = b
    /\ \A a \in 1 .. Len(f.partitioning) : f.partitioning[a] \in 1 .. f.wildcards

\* Mutant of ValidMappings: the count of partitions used is not compared.
ValidMappingsUncounted(mappings, maxMembers) ==
    LET slots == MappingSlots(mappings)
    IN  /\ Len(mappings) <= maxMembers
        /\ \A a, b \in 1 .. Len(mappings) :
              mappings[a].member = mappings[b].member => a = b
        /\ \A s, t \in slots :
              PartitionAt(mappings, s) = PartitionAt(mappings, t) => s = t
        /\ \A s \in slots : PartitionAt(mappings, s) \in 0 .. maxMembers - 1

ValidMappings(mappings, maxMembers) ==
    LET slots == MappingSlots(mappings)
    IN  /\ Len(mappings) <= maxMembers
        /\ \A a, b \in 1 .. Len(mappings) :
              mappings[a].member = mappings[b].member => a = b
        /\ \A s, t \in slots :
              PartitionAt(mappings, s) = PartitionAt(mappings, t) => s = t
        /\ \A s \in slots : PartitionAt(mappings, s) \in 0 .. maxMembers - 1
        /\ Cardinality({PartitionAt(mappings, s) : s \in slots}) = maxMembers

validateConfig(config) ==
    /\ config.max >= 1
    /\ \A k \in 1 .. Len(config.filters) : ValidFilter(config.filters[k])
    /\ config.members = {} \/ config.mappings = <<>>
    /\ config.mappings # <<>> => ValidMappings(config.mappings, config.max)

\* The members a group of this configuration can hand partitions to.
Owners(config) ==
    config.members \cup
        {config.mappings[j].member : j \in 1 .. Len(config.mappings)}
=============================================================================
