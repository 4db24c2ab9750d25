------------------------- MODULE ElasticAdmin_proofs -------------------------
(***************************************************************************)
(* For any number of clients, names, shapes and mappings: the stored       *)
(* configuration stays valid, and the membership operations are atomic.    *)
(* What is stored gives each partition one owner, and members share within *)
(* one of each other; and which mappings are accepted.                     *)
(***************************************************************************)
EXTENDS ElasticAdmin, FiniteSetTheorems, TLAPS

\* What a client is about to write has been derived from a valid configuration.
DraftsValid ==
    \A c \in Clients :
        pc[c] \in {"put", "update", "stream"} =>
            draft[c] # NoConfig /\ validateConfig(draft[c])

\* A revision check that would succeed proves that nothing has changed since
\* the read: the draft is the operation applied to what is stored now.
UpdatesCurrent ==
    \A c \in Clients :
        pc[c] = "update" =>
            /\ base[c] <= entry.rev
            /\ base[c] = entry.rev =>
                  /\ entry.config # NoConfig
                  /\ draft[c] = Apply(call[c].operation, call[c].names, entry.config)

IInv == TypeOK /\ StoredConfigValid /\ DraftsValid /\ UpdatesCurrent

-----------------------------------------------------------------------------
\* Adding or dropping names keeps a configuration without mappings valid.
LEMMA ApplyValid ==
    ASSUME NEW config \in Configs, validateConfig(config), config.mappings = <<>>,
           NEW operation, NEW names \in SUBSET Names
    PROVE  /\ Apply(operation, names, config) \in Configs
           /\ validateConfig(Apply(operation, names, config))
<1> DEFINE new == Apply(operation, names, config)
<1>1. /\ new.max = config.max
      /\ new.filters = config.filters
      /\ new.mappings = <<>>
    BY DEF Apply, Configs
<1>2. new \in Configs
    BY DEF Apply, Configs
<1> HIDE DEF new
<1>3. validateConfig(new)
    BY <1>1 DEF validateConfig
<1> QED
    BY <1>2, <1>3 DEF new

\* So does dropping the mappings.
LEMMA UnmapValid ==
    ASSUME NEW config \in Configs, validateConfig(config)
    PROVE  /\ [config EXCEPT !.mappings = <<>>] \in Configs
           /\ validateConfig([config EXCEPT !.mappings = <<>>])
<1> DEFINE new == [config EXCEPT !.mappings = <<>>]
<1>1. /\ new.max = config.max
      /\ new.filters = config.filters
      /\ new.mappings = <<>>
    BY DEF Configs
<1>2. new \in Configs
    BY DEF Configs
<1> HIDE DEF new
<1>3. validateConfig(new)
    BY <1>1 DEF validateConfig
<1> QED
    BY <1>2, <1>3 DEF new

\* A new group is a configuration.
LEMMA EmptyGroupTyped ==
    ASSUME NEW s \in Shapes
    PROVE  EmptyGroup(s) \in Configs
BY AdminAssumption DEF EmptyGroup, Configs

\* The value that stands for "no entry" is not a configuration.
LEMMA NoConfigNotConfig == NoConfig \notin Configs
BY AdminAssumption DEF Configs

\* Starting a call that leaves the entry alone.
LEMMA EnterPreserves ==
    ASSUME IInv, NEW c \in Clients, NEW names \in SUBSET Names,
           NEW operation \in {"none", "create", "delete", "add", "drop", "map", "unmap"},
           NEW next \in {"put", "update", "stream"},
           NEW config \in Configs, validateConfig(config),
           Enter(c, operation, names, next, config, entry.rev),
           next = "update" => /\ entry.config # NoConfig
                              /\ config = Apply(operation, names, entry.config)
    PROVE  IInv'
<1> USE DEF IInv, Enter
<1>1. TypeOK'
    BY DEF TypeOK
<1>2. StoredConfigValid'
    BY DEF StoredConfigValid
<1>3. DraftsValid'
    BY NoConfigNotConfig DEF TypeOK, DraftsValid
<1>4. UpdatesCurrent'
    BY DEF TypeOK, UpdatesCurrent
<1> QED
    BY <1>1, <1>2, <1>3, <1>4

\* Returning from a call, when the entry stays as it is.
LEMMA LeavePreserves ==
    ASSUME IInv, NEW c \in Clients, Leave(c), UNCHANGED entry,
           stream' \in [max : Nat, filters : {s.filters : s \in Shapes}] \cup {NoStream}
    PROVE  IInv'
<1> USE DEF IInv, Leave
<1>1. TypeOK'
    BY DEF TypeOK, NoCall
<1>2. StoredConfigValid'
    BY DEF StoredConfigValid
<1>3. DraftsValid'
    BY DEF TypeOK, DraftsValid
<1>4. UpdatesCurrent'
    BY DEF TypeOK, UpdatesCurrent
<1> QED
    BY <1>1, <1>2, <1>3, <1>4

\* Writing a draft takes a new revision, so every other revision check that
\* was going to succeed now fails.
LEMMA WritePreserves ==
    ASSUME IInv, NEW c \in Clients, pc[c] \in {"put", "update"},
           entry' = [rev |-> entry.rev + 1, config |-> draft[c]],
           \/ Leave(c)
           \/ /\ pc' = [pc EXCEPT ![c] = "stream"]
              /\ UNCHANGED <<call, draft, base>>,
           UNCHANGED stream
    PROVE  IInv'
<1> USE DEF IInv, Leave
<1>0. draft[c] \in Configs /\ validateConfig(draft[c])
    BY DEF TypeOK, DraftsValid
<1>1. TypeOK'
    <2>1. entry' \in [rev : Nat, config : Configs \cup {NoConfig}]
        BY <1>0 DEF TypeOK
    <2>2. CASE Leave(c)
        BY <2>1, <2>2 DEF TypeOK, NoCall
    <2>3. CASE pc' = [pc EXCEPT ![c] = "stream"] /\ UNCHANGED <<call, draft, base>>
        BY <2>1, <2>3 DEF TypeOK
    <2> QED
        BY <2>2, <2>3
<1>2. StoredConfigValid'
    BY <1>0 DEF StoredConfigValid
<1>3. DraftsValid'
    BY <1>0 DEF TypeOK, DraftsValid
<1>4. UpdatesCurrent'
    <2> SUFFICES ASSUME NEW d \in Clients, pc'[d] = "update"
                 PROVE  base'[d] < entry'.rev
        BY <1>1 DEF UpdatesCurrent, TypeOK
    <2>1. d # c /\ pc[d] = "update" /\ base'[d] = base[d]
        BY DEF TypeOK
    <2> QED
        BY <2>1 DEF UpdatesCurrent, TypeOK
<1> QED
    BY <1>1, <1>2, <1>3, <1>4

-----------------------------------------------------------------------------
\* No operation of any client breaks the invariant.
LEMMA StepPreserves ==
    ASSUME IInv, [Next]_vars
    PROVE  IInv'
<1>0. /\ entry.config # NoConfig => entry.config \in Configs
      /\ stream \in [max : Nat, filters : {s.filters : s \in Shapes}] \cup {NoStream}
    BY DEF IInv, TypeOK
<1>1. ASSUME NEW c \in Clients, NEW s \in Shapes, CreateGet(c, s) PROVE IInv'
    <2>1. CASE entry.config = NoConfig
        BY <1>1, <2>1, EmptyGroupTyped, EnterPreserves DEF CreateGet
    <2>2. CASE entry.config # NoConfig
        BY <1>0, <1>1, <2>2, EnterPreserves DEF CreateGet, IInv, StoredConfigValid
    <2> QED
        BY <2>1, <2>2
<1>2. ASSUME NEW c \in Clients, CreateStream(c) PROVE IInv'
    <2>1. ShapeOf(draft[c]) \in [max : Nat, filters : {s.filters : s \in Shapes}]
        BY <1>2 DEF CreateStream, IInv, TypeOK, DraftsValid, ShapeOf, Configs
    <2> QED
        BY <1>0, <1>2, <2>1, LeavePreserves DEF CreateStream
<1>3. ASSUME NEW c \in Clients, DeleteGroup(c) PROVE IInv'
    <2> USE <1>3 DEF DeleteGroup, IInv
    <2>1. TypeOK'
        BY DEF TypeOK
    <2>2. StoredConfigValid'
        BY DEF StoredConfigValid
    <2>3. DraftsValid'
        BY DEF TypeOK, DraftsValid
    <2>4. UpdatesCurrent'
        BY DEF TypeOK, UpdatesCurrent
    <2> QED
        BY <2>1, <2>2, <2>3, <2>4
<1>4. ASSUME NEW c \in Clients, DeleteStream(c) PROVE IInv'
    BY <1>4, LeavePreserves DEF DeleteStream
<1>5. ASSUME NEW c \in Clients, NEW operation \in {"add", "drop"},
             NEW names \in SUBSET Names, ChangeMembers(c, operation, names)
      PROVE  IInv'
    <2>1. /\ Apply(operation, names, entry.config) \in Configs
          /\ validateConfig(Apply(operation, names, entry.config))
        BY <1>0, <1>5, ApplyValid DEF ChangeMembers, ConfigReadable
    <2> QED
        BY <1>5, <2>1, EnterPreserves DEF ChangeMembers, ConfigReadable
<1>6. ASSUME NEW c \in Clients, Update(c) PROVE IInv'
    <2>1. CASE entry.rev = base[c]
        BY <1>6, <2>1, WritePreserves DEF Update
    <2>2. CASE entry.rev # base[c]
        BY <1>0, <1>6, <2>2, LeavePreserves DEF Update
    <2> QED
        BY <2>1, <2>2
<1>7. ASSUME NEW c \in Clients, NEW mappings \in MappingLists,
             SetMemberMappings(c, mappings)
      PROVE  IInv'
    <2> DEFINE config == [entry.config EXCEPT !.members = {}, !.mappings = mappings]
    <2>1. entry.config \in Configs
        BY <1>0, <1>7 DEF SetMemberMappings, ConfigReadable
    <2>2. config \in Configs
        BY <2>1 DEF Configs
    <2>3. validateConfig(config)
        BY <1>7 DEF SetMemberMappings
    <2>4. Enter(c, "map", {}, "put", config, entry.rev)
        BY <1>7 DEF SetMemberMappings
    <2> HIDE DEF config
    <2> QED
        BY <2>2, <2>3, <2>4, EnterPreserves
<1>8. ASSUME NEW c \in Clients, DeleteMemberMappings(c) PROVE IInv'
    <2>1. entry.config \in Configs /\ validateConfig(entry.config)
        BY <1>0, <1>8 DEF DeleteMemberMappings, ConfigReadable
    <2> DEFINE config == [entry.config EXCEPT !.mappings = <<>>]
    <2>2. config \in Configs /\ validateConfig(config)
        BY <2>1, UnmapValid
    <2>3. Enter(c, "unmap", {}, "put", config, entry.rev)
        BY <1>8 DEF DeleteMemberMappings
    <2> HIDE DEF config
    <2> QED
        BY <2>2, <2>3, EnterPreserves
<1>9. ASSUME NEW c \in Clients, Put(c) PROVE IInv'
    BY <1>9, WritePreserves DEF Put
<1>10. ASSUME NEW c \in Clients, Crash(c) PROVE IInv'
    BY <1>0, <1>10, LeavePreserves DEF Crash
<1>11. ASSUME UNCHANGED vars PROVE IInv'
    BY <1>11 DEF vars, IInv, TypeOK, StoredConfigValid, DraftsValid, UpdatesCurrent
<1> QED
    BY <1>1, <1>2, <1>3, <1>4, <1>5, <1>6, <1>7, <1>8, <1>9, <1>10, <1>11 DEF Next

\* The invariant that carries the results below.
THEOREM AdminInvariant == Spec => []IInv
<1>1. Init => IInv
    BY DEF Init, IInv, TypeOK, StoredConfigValid, DraftsValid, UpdatesCurrent, NoCall
<1>2. IInv /\ [Next]_vars => IInv'
    BY StepPreserves
<1> QED
    BY <1>1, <1>2, PTL DEF Spec

\* The types of the client's variables and of what is stored.
THEOREM AdminTypeCorrect == Spec => []TypeOK
<1>1. IInv => TypeOK
    BY DEF IInv
<1> QED
    BY <1>1, AdminInvariant, PTL

\* However the administrative operations interleave, crash or race, the stored
\* configuration passes validateConfig.
THEOREM StoredConfigAlwaysValid == Spec => []StoredConfigValid
<1>1. IInv => StoredConfigValid
    BY DEF IInv
<1> QED
    BY <1>1, AdminInvariant, PTL

\* AddMembers and DeleteMembers never lose another client's change: when the
\* write goes through, it is the operation applied to what is stored.
THEOREM MembershipUpdatesAtomic == Spec => MembershipUpdateIsAtomic
<1> DEFINE A == \A c \in Clients :
                  pc[c] = "update" /\ entry'.rev # entry.rev /\ pc'[c] = "idle" =>
                      /\ entry.config # NoConfig
                      /\ entry'.config = Apply(call[c].operation, call[c].names,
                                               entry.config)
<1>1. IInv /\ [Next]_vars => [A]_vars
    <2> SUFFICES ASSUME IInv, Next, NEW c \in Clients, pc[c] = "update",
                        entry'.rev # entry.rev, pc'[c] = "idle"
                 PROVE  /\ entry.config # NoConfig
                        /\ entry'.config = Apply(call[c].operation, call[c].names,
                                                 entry.config)
        OBVIOUS
    <2>0. pc \in [Clients -> {"idle", "put", "update", "stream", "drop"}]
        BY DEF IInv, TypeOK
    <2>1. CASE Update(c)
        BY <2>1 DEF Update, IInv, UpdatesCurrent
    <2>2. ASSUME NEW d \in Clients, Update(d), ~Update(c) PROVE FALSE
        BY <2>0, <2>2 DEF Update, Leave
    <2>3. ASSUME NEW d \in Clients, DeleteGroup(d) PROVE FALSE
        BY <2>0, <2>3 DEF DeleteGroup
    <2>4. ASSUME NEW d \in Clients, Put(d) PROVE FALSE
        BY <2>0, <2>4 DEF Put, Leave
    <2>5. ASSUME UNCHANGED entry PROVE FALSE
        BY <2>5
    <2> QED
        BY <2>1, <2>2, <2>3, <2>4, <2>5
        DEF Next, CreateGet, CreateStream, DeleteStream, ChangeMembers,
            SetMemberMappings, DeleteMemberMappings, Crash, Enter
<1> QED
    BY <1>1, AdminInvariant, PTL DEF Spec, MembershipUpdateIsAtomic

-----------------------------------------------------------------------------
(* Who owns a partition of a configuration. *)

\* The rank of a member is an index into the sorted list of members.
LEMMA RankInRange ==
    ASSUME NEW S \in SUBSET Int, IsFiniteSet(S), NEW m \in S
    PROVE  Rank(S, m) \in 0 .. Cardinality(S) - 1
<1> DEFINE below == {x \in S : x < m}
<1>1. IsFiniteSet(S \ {m}) /\ Cardinality(S \ {m}) = Cardinality(S) - 1
    BY FS_RemoveElement
<1>2. below \in SUBSET (S \ {m})
    OBVIOUS
<1>3. IsFiniteSet(below) /\ Cardinality(below) <= Cardinality(S) - 1
    BY <1>1, <1>2, FS_Subset
<1>4. Cardinality(below) \in Nat /\ Cardinality(S) \in Nat
    BY <1>3, FS_CardinalityType
<1> QED
    BY <1>3, <1>4 DEF Rank

\* Sorting is strict: a smaller name comes earlier.
LEMMA RankMonotone ==
    ASSUME NEW S \in SUBSET Int, IsFiniteSet(S), NEW a \in S, NEW b \in S, a < b
    PROVE  Rank(S, a) < Rank(S, b)
<1> DEFINE belowA == {x \in S : x < a}
           belowB == {x \in S : x < b}
<1>1. IsFiniteSet(belowA) /\ IsFiniteSet(belowB)
    <2>1. belowA \in SUBSET S /\ belowB \in SUBSET S
        OBVIOUS
    <2> QED
        BY <2>1, FS_Subset
<1>2. IsFiniteSet(belowA \cup {a}) /\ Cardinality(belowA \cup {a}) = Cardinality(belowA) + 1
    <2>1. a \notin belowA
        OBVIOUS
    <2> QED
        BY <1>1, <2>1, FS_AddElement
<1>3. belowA \cup {a} \in SUBSET belowB
    <2>1. \A x \in S : x < a => x < b
        OBVIOUS
    <2> QED
        BY <2>1
<1>4. Cardinality(belowA \cup {a}) <= Cardinality(belowB)
    BY <1>1, <1>3, FS_Subset
<1>5. Cardinality(belowA) \in Nat /\ Cardinality(belowB) \in Nat
    BY <1>1, FS_CardinalityType
<1> QED
    BY <1>2, <1>4, <1>5 DEF Rank

\* Two members never share a place in the list.
LEMMA RankInjective ==
    ASSUME NEW S \in SUBSET Int, IsFiniteSet(S), NEW a \in S, NEW b \in S,
           Rank(S, a) = Rank(S, b)
    PROVE  a = b
<1>1. Rank(S, a) \in Int /\ Rank(S, b) \in Int
    BY RankInRange, FS_CardinalityType
<1>2. ~(a < b)
    BY <1>1, RankMonotone
<1>3. ~(b < a)
    BY <1>1, RankMonotone
<1> QED
    BY <1>2, <1>3

\* Every index of the list is the rank of a member.
LEMMA RankOnto ==
    ASSUME NEW S \in SUBSET Int, IsFiniteSet(S), NEW k \in 0 .. Cardinality(S) - 1
    PROVE  \E m \in S : Rank(S, m) = k
<1> DEFINE T == 0 .. Cardinality(S) - 1
           f == [m \in S |-> Rank(S, m)]
<1>1. Cardinality(S) \in Nat
    BY FS_CardinalityType
<1>2. IsFiniteSet(T) /\ Cardinality(T) = Cardinality(S)
    BY <1>1, FS_Interval
<1>3. f \in Injection(S, T)
    <2>1. f \in [S -> T]
        BY RankInRange
    <2>2. \A a, b \in S : f[a] = f[b] => a = b
        BY RankInjective
    <2> HIDE DEF f
    <2> QED
        BY <2>1, <2>2 DEF Injection, IsInjective
<1> HIDE DEF f
<1>4. f \in Surjection(S, T)
    BY <1>2, <1>3, FS_Injection
<1>5. \E m \in S : f[m] = k
    BY <1>4 DEF Surjection
<1> QED
    BY <1>5 DEF f

\* GeneratePartitionFilters always lands inside the list: members[memberIndex]
\* is never out of range, and numPer is never zero once the list is cut.
LEMMA OwnerIndexInRange ==
    ASSUME NEW maxMembers \in Nat, NEW n \in 1 .. maxMembers,
           NEW i \in 0 .. maxMembers - 1
    PROVE  OwnerIndex(i, n, maxMembers) \in 0 .. n - 1
<1> DEFINE numPer == maxMembers \div n
<1>1. numPer \in Nat /\ numPer >= 1
    OBVIOUS
<1>2. i \div numPer \in Int
    BY <1>1
<1>3. (i \div numPer) % n \in 0 .. n - 1
    <2> HIDE DEF numPer
    <2> DEFINE q == i \div numPer
    <2> HIDE DEF q
    <2>1. q \in Int
        BY <1>2 DEF q
    <2>2. q % n \in 0 .. n - 1
        BY <2>1
    <2> QED
        BY <2>2 DEF q
<1>4. (i - n * numPer) % n \in 0 .. n - 1
    <2> HIDE DEF numPer
    <2> DEFINE q == i - n * numPer
    <2>1. q \in Int
        BY <1>1
    <2> HIDE DEF q
    <2>2. q % n \in 0 .. n - 1
        BY <2>1
    <2> QED
        BY <2>2 DEF q
<1> HIDE DEF numPer
<1>5. CASE i < n * numPer
    BY <1>3, <1>5 DEF OwnerIndex, numPer
<1>6. CASE ~(i < n * numPer)
    BY <1>4, <1>6 DEF OwnerIndex, numPer
<1> QED
    BY <1>5, <1>6

\* The balanced distribution gives every partition to exactly one member.
THEOREM BalancedHasOneOwner ==
    ASSUME NEW S \in SUBSET Int, IsFiniteSet(S), S # {},
           NEW maxMembers \in Nat \ {0}, NEW p \in 0 .. maxMembers - 1
    PROVE  \E m \in S :
             /\ p \in BalancedPartitions(S, maxMembers, m)
             /\ \A other \in S \ {m} : p \notin BalancedPartitions(S, maxMembers, other)
<1> DEFINE n == NumMembers(S, maxMembers)
<1>1. Cardinality(S) \in Nat /\ Cardinality(S) # 0
    BY FS_CardinalityType, FS_EmptySet
<1>2. n \in 1 .. maxMembers /\ n <= Cardinality(S)
    BY <1>1 DEF NumMembers
<1> HIDE DEF n
<1>3. OwnerIndex(p, n, maxMembers) \in 0 .. Cardinality(S) - 1
    <2>1. OwnerIndex(p, n, maxMembers) \in 0 .. n - 1
        BY <1>2, OwnerIndexInRange
    <2> QED
        BY <1>1, <1>2, <2>1
<1>4. PICK m \in S : Rank(S, m) = OwnerIndex(p, n, maxMembers)
    BY <1>3, RankOnto
<1>5. p \in BalancedPartitions(S, maxMembers, m)
    BY <1>4 DEF BalancedPartitions, n
<1>6. ASSUME NEW other \in S \ {m}, p \in BalancedPartitions(S, maxMembers, other)
      PROVE  FALSE
    <2>1. Rank(S, other) = OwnerIndex(p, n, maxMembers)
        BY <1>6 DEF BalancedPartitions, n
    <2>2. other = m
        BY <1>4, <2>1, RankInjective
    <2> QED
        BY <2>2
<1> QED
    BY <1>5, <1>6
-----------------------------------------------------------------------------
\* A list of mappings that validateConfig accepts uses every partition.
LEMMA MappingsCoverPartitions ==
    ASSUME NEW maxMembers \in Nat, NEW mappings, ValidMappings(mappings, maxMembers),
           NEW p \in 0 .. maxMembers - 1
    PROVE  \E s \in MappingSlots(mappings) : PartitionAt(mappings, s) = p
<1> DEFINE used == {PartitionAt(mappings, s) : s \in MappingSlots(mappings)}
           all  == 0 .. maxMembers - 1
<1>1. used \in SUBSET all /\ Cardinality(used) = maxMembers
    BY DEF ValidMappings
<1>2. IsFiniteSet(all) /\ Cardinality(all) = maxMembers
    BY FS_Interval
<1> HIDE DEF all
<1>3. used = all
    BY <1>1, <1>2, FS_Subset
<1>4. p \in used
    BY <1>3 DEF all
<1> QED
    BY <1>4

\* Without mappings a member's partitions are those of the balanced
\* distribution, whatever the partitioning filters of the group.
LEMMA PartitionsOfBalanced ==
    ASSUME NEW cfg, cfg.members # {}, cfg.filters \in Seq(FilterType), NEW name
    PROVE  PartitionsOf(cfg, name) = BalancedPartitions(cfg.members, cfg.max, name)
<1> DEFINE own == BalancedPartitions(cfg.members, cfg.max, name)
           Entries(subject) == GeneratePartitionFilters(cfg.members, cfg.max,
                                   cfg.mappings, name, subject)
           Call(k, subject) == {[call |-> k, slot |-> e.slot,
                                 partition |-> e.partition, subject |-> e.subject] :
                                     e \in Entries(subject)}
<1>1. \A subject : Entries(subject) =
          {[slot |-> <<0, i>>, partition |-> i, subject |-> subject] : i \in own}
    BY DEF GeneratePartitionFilters
<1> HIDE DEF own, Entries
<1>2. \A k, subject : {e.partition : e \in Call(k, subject)} = own
    <2> TAKE k, subject
    <2>1. \A e \in Call(k, subject) : e.partition \in own
        BY <1>1
    <2>2. ASSUME NEW i \in own
          PROVE  \E e \in Call(k, subject) : e.partition = i
        <3> DEFINE e0 == [slot |-> <<0, i>>, partition |-> i, subject |-> subject]
        <3>1. e0 \in Entries(subject)
            BY <1>1
        <3>2. [call |-> k, slot |-> e0.slot, partition |-> e0.partition,
               subject |-> e0.subject] \in Call(k, subject)
            BY <3>1
        <3> QED
            BY <3>2
    <2> QED
        BY <2>1, <2>2
<1> HIDE DEF Call
<1>3. CASE cfg.filters = <<>>
    <2>1. ElasticGetPartitionFilters(cfg, name) = Call(0, AllSubjects)
        BY <1>3 DEF ElasticGetPartitionFilters, Call, Entries
    <2> QED
        BY <1>2, <2>1 DEF PartitionsOf, own
<1>4. CASE cfg.filters # <<>>
    <2> DEFINE K == 1 .. Len(cfg.filters)
    <2>1. ElasticGetPartitionFilters(cfg, name) =
              UNION {Call(k, cfg.filters[k].subject) : k \in K}
        BY <1>4 DEF ElasticGetPartitionFilters, Call, Entries
    <2>2. 1 \in K
        BY <1>4
    <2> HIDE DEF K
    <2>3. PartitionsOf(cfg, name) = own
        BY <1>2, <2>1, <2>2 DEF PartitionsOf
    <2> QED
        BY <2>3 DEF own
<1> QED
    BY <1>3, <1>4

\* With mappings they are the numbers listed for the member.
LEMMA PartitionsOfMapped ==
    ASSUME NEW cfg, cfg.members = {}, cfg.filters \in Seq(FilterType), NEW name
    PROVE  PartitionsOf(cfg, name) =
             {PartitionAt(cfg.mappings, s) :
                 s \in {t \in MappingSlots(cfg.mappings) :
                           cfg.mappings[t[1]].member = name}}
<1> DEFINE slots == {t \in MappingSlots(cfg.mappings) : cfg.mappings[t[1]].member = name}
           own == {PartitionAt(cfg.mappings, s) : s \in slots}
           Entries(subject) == GeneratePartitionFilters(cfg.members, cfg.max,
                                   cfg.mappings, name, subject)
           Call(k, subject) == {[call |-> k, slot |-> e.slot,
                                 partition |-> e.partition, subject |-> e.subject] :
                                     e \in Entries(subject)}
<1>1. \A subject : Entries(subject) =
          {[slot |-> s, partition |-> PartitionAt(cfg.mappings, s),
            subject |-> AllSubjects] : s \in slots}
    BY DEF GeneratePartitionFilters
<1> HIDE DEF slots, Entries
<1>2. \A k, subject : {e.partition : e \in Call(k, subject)} = own
    <2> TAKE k, subject
    <2>1. \A e \in Call(k, subject) : e.partition \in own
        BY <1>1
    <2>2. ASSUME NEW s \in slots
          PROVE  \E e \in Call(k, subject) : e.partition = PartitionAt(cfg.mappings, s)
        <3> DEFINE e0 == [slot |-> s, partition |-> PartitionAt(cfg.mappings, s),
                          subject |-> AllSubjects]
        <3>1. e0 \in Entries(subject)
            BY <1>1
        <3>2. [call |-> k, slot |-> e0.slot, partition |-> e0.partition,
               subject |-> e0.subject] \in Call(k, subject)
            BY <3>1
        <3> QED
            BY <3>2
    <2> QED
        BY <2>1, <2>2
<1> HIDE DEF Call, own
<1>3. PartitionsOf(cfg, name) = own
    <2>1. CASE cfg.filters = <<>>
        <3>1. ElasticGetPartitionFilters(cfg, name) = Call(0, AllSubjects)
            BY <2>1 DEF ElasticGetPartitionFilters, Call, Entries
        <3> QED
            BY <1>2, <3>1 DEF PartitionsOf
    <2>2. CASE cfg.filters # <<>>
        <3> DEFINE K == 1 .. Len(cfg.filters)
        <3>1. ElasticGetPartitionFilters(cfg, name) =
                  UNION {Call(k, cfg.filters[k].subject) : k \in K}
            BY <2>2 DEF ElasticGetPartitionFilters, Call, Entries
        <3>2. 1 \in K
            BY <2>2
        <3> HIDE DEF K
        <3> QED
            BY <1>2, <3>1, <3>2 DEF PartitionsOf
    <2> QED
        BY <2>1, <2>2
<1> QED
    BY <1>3 DEF own, slots

\* The parts of a configuration are what the types of the code make them.
LEMMA ConfigTyped ==
    ASSUME NEW config \in Configs
    PROVE  /\ config.max \in Nat
           /\ config.filters \in Seq(FilterType)
           /\ config.members \in SUBSET Names
           /\ config.mappings \in Seq(MappingType)
<1>1. <<>> \in Seq(MappingType)
    OBVIOUS
<1>2. MappingLists \cup {<<>>} \subseteq Seq(MappingType)
    BY <1>1, AdminAssumption
<1>3. \A fs \in {s.filters : s \in Shapes} : fs \in Seq(FilterType)
    BY AdminAssumption
<1> QED
    BY <1>2, <1>3 DEF Configs

\* Every configuration validateConfig accepts gives each partition one owner.
LEMMA ValidConfigHasOneOwner ==
    ASSUME NEW config \in Configs, validateConfig(config), Owners(config) # {},
           NEW p \in 0 .. config.max - 1
    PROVE  \E m \in Owners(config) :
              /\ p \in PartitionsOf(config, m)
              /\ \A other \in Owners(config) \ {m} : p \notin PartitionsOf(config, other)
<1>1. /\ config.max \in Nat \ {0}
      /\ config.filters \in Seq(FilterType)
      /\ config.members \in SUBSET Names
      /\ config.mappings \in Seq(MappingType)
    BY ConfigTyped DEF validateConfig
<1>2. CASE config.members # {}
    <2>1. Owners(config) = config.members
        BY <1>1, <1>2 DEF validateConfig, Owners
    <2>2. config.members \in SUBSET Int /\ IsFiniteSet(config.members)
        BY <1>1, AdminAssumption, FS_Subset
    <2>3. \A name : PartitionsOf(config, name)
                      = BalancedPartitions(config.members, config.max, name)
        BY <1>1, <1>2, PartitionsOfBalanced
    <2>4. \E m \in config.members :
             /\ p \in BalancedPartitions(config.members, config.max, m)
             /\ \A other \in config.members \ {m} :
                   p \notin BalancedPartitions(config.members, config.max, other)
        BY <1>1, <1>2, <2>2, BalancedHasOneOwner
    <2> QED
        BY <2>1, <2>3, <2>4
<1>3. CASE config.members = {}
    <2>1. config.mappings # <<>>
        BY <1>1, <1>3 DEF Owners
    <2>2. ValidMappings(config.mappings, config.max)
        BY <2>1 DEF validateConfig
    <2>3. PICK s \in MappingSlots(config.mappings) : PartitionAt(config.mappings, s) = p
        BY <1>1, <2>2, MappingsCoverPartitions
    <2> DEFINE m == config.mappings[s[1]].member
    <2>4. \A name : PartitionsOf(config, name) =
             {PartitionAt(config.mappings, t) :
                 t \in {u \in MappingSlots(config.mappings) :
                           config.mappings[u[1]].member = name}}
        BY <1>1, <1>3, PartitionsOfMapped
    <2>5. m \in Owners(config)
        <3>1. s[1] \in 1 .. Len(config.mappings)
            BY <2>3 DEF MappingSlots
        <3> QED
            BY <3>1 DEF Owners
    <2>6. p \in PartitionsOf(config, m)
        BY <2>3, <2>4
    <2>7. ASSUME NEW other \in Owners(config) \ {m}, p \in PartitionsOf(config, other)
          PROVE  FALSE
        <3>1. PICK t \in MappingSlots(config.mappings) :
                 /\ config.mappings[t[1]].member = other
                 /\ PartitionAt(config.mappings, t) = p
            BY <2>4, <2>7
        <3>2. s = t
            BY <2>2, <2>3, <3>1 DEF ValidMappings
        <3> QED
            BY <3>1, <3>2
    <2> QED
        BY <2>5, <2>6, <2>7
<1> QED
    BY <1>2, <1>3

\* Whatever the interleaving of the operations, each partition of the stored
\* group has exactly one owner if it names anybody (GeneratePartitionFilters).
THEOREM OneOwner == Spec => []EveryPartitionHasOneOwner
<1>1. IInv => EveryPartitionHasOneOwner
    <2> SUFFICES ASSUME IInv, entry.config # NoConfig, Owners(entry.config) # {},
                        NEW p \in 0 .. entry.config.max - 1
                 PROVE  \E m \in Owners(entry.config) :
                           /\ p \in PartitionsOf(entry.config, m)
                           /\ \A other \in Owners(entry.config) \ {m} :
                                 p \notin PartitionsOf(entry.config, other)
        BY DEF EveryPartitionHasOneOwner
    <2>1. entry.config \in Configs /\ validateConfig(entry.config)
        BY DEF IInv, TypeOK, StoredConfigValid
    <2> QED
        BY <2>1, ValidConfigHasOneOwner
<1> QED
    BY <1>1, AdminInvariant, PTL

-----------------------------------------------------------------------------
(* The balance: the arithmetic of equal blocks and of a rest.              *)

\* Products keep the order.
LEMMA Product ==
    ASSUME NEW a \in Nat, NEW b \in Nat, NEW q \in Nat, a <= b
    PROVE  a * q \in Nat /\ b * q \in Nat /\ a * q <= b * q
<1>1. (b - a) * q >= 0 /\ b * q = a * q + (b - a) * q
    OBVIOUS
<1> QED
    BY <1>1

\* A quotient is the number of whole blocks.
LEMMA Quotient ==
    ASSUME NEW i \in Nat, NEW q \in Nat \ {0}
    PROVE  /\ i \div q \in Nat
           /\ (i \div q) * q <= i /\ i < (i \div q) * q + q
OBVIOUS

\* A number less than the modulus is its own rest.
LEMMA Rest ==
    ASSUME NEW x \in Nat, NEW n \in Nat, x < n
    PROVE  x % n = x
OBVIOUS

\* The numbers with a given quotient are a block.
LEMMA Block ==
    ASSUME NEW i \in Nat, NEW q \in Nat \ {0}, NEW r \in Nat
    PROVE  i \div q = r <=> r * q <= i /\ i < r * q + q
<1> DEFINE d == i \div q
<1>1. d \in Nat /\ d * q <= i /\ i < d * q + q
    BY Quotient
<1> HIDE DEF d
<1>2. CASE d = r
    BY <1>1, <1>2 DEF d
<1>3. CASE d < r
    <2>1. (d + 1) * q <= r * q /\ (d + 1) * q = d * q + q
        BY <1>1, <1>3, Product
    <2> QED
        BY <1>1, <1>3, <2>1, Product DEF d
<1>4. CASE r < d
    <2>1. (r + 1) * q <= d * q /\ (r + 1) * q = r * q + q
        BY <1>1, <1>4, Product
    <2> QED
        BY <1>1, <1>4, <2>1, Product DEF d
<1> QED
    BY <1>1, <1>2, <1>3, <1>4

\* A member's share is a block of equal length for each, and one of the rest.
LEMMA ShareKnown ==
    ASSUME NEW S \in SUBSET Int, IsFiniteSet(S), S # {}, NEW maxMembers \in Nat \ {0},
           NEW m \in S
    PROVE  LET n == NumMembers(S, maxMembers)
               q == maxMembers \div n
               share == BalancedPartitions(S, maxMembers, m)
           IN  /\ n \in Nat /\ q \in Nat \ {0} /\ IsFiniteSet(share)
               /\ Rank(S, m) < n => Cardinality(share) \in {q, q + 1}
               /\ Rank(S, m) >= n => share = {}
<1> DEFINE n == NumMembers(S, maxMembers)
           q == maxMembers \div n
           share == BalancedPartitions(S, maxMembers, m)
           r == Rank(S, m)
           P == n * q
<1>1. Cardinality(S) \in Nat /\ Cardinality(S) # 0
    BY FS_CardinalityType, FS_EmptySet
<1>2. n \in 1 .. maxMembers
    BY <1>1 DEF NumMembers
<1>3. r \in Nat
    BY <1>1, RankInRange
<1>4. share = {i \in 0 .. maxMembers - 1 : OwnerIndex(i, n, maxMembers) = r}
    BY DEF BalancedPartitions
<1> HIDE DEF n, r, share
<1>5. q \in Nat \ {0} /\ P \in Nat /\ P <= maxMembers /\ maxMembers < P + n
    <2>1. /\ n \in Nat \ {0}
          /\ q \in Nat /\ q * n <= maxMembers /\ maxMembers < q * n + n
        BY <1>2, Quotient
    <2> HIDE DEF q
    <2>2. q # 0
        BY <1>2, <2>1
    <2>3. P = q * n /\ P \in Nat
        BY <2>1, Product
    <2> HIDE DEF P
    <2> QED
        BY <2>1, <2>2, <2>3
<1>6. \A i \in 0 .. maxMembers - 1 :
          OwnerIndex(i, n, maxMembers) = IF i < P THEN i \div q ELSE i - P
    <2> SUFFICES ASSUME NEW i \in 0 .. maxMembers - 1
                 PROVE  OwnerIndex(i, n, maxMembers) = IF i < P THEN i \div q ELSE i - P
        OBVIOUS
    <2>1. OwnerIndex(i, n, maxMembers) = IF i < P THEN (i \div q) % n ELSE (i - P) % n
        BY DEF OwnerIndex
    <2> HIDE DEF q
    <2>2. ASSUME i < P PROVE (i \div q) % n = i \div q
        <3>1. i \div q \in Nat /\ (i \div q) * q <= i
            BY <1>5, Quotient
        <3> DEFINE d == i \div q
        <3> HIDE DEF d
        <3>2. d \in Nat /\ d * q <= i
            BY <3>1 DEF d
        <3>3. d < n
            <4>1. n <= d => n * q <= d * q
                BY <1>2, <1>5, <3>2, Product
            <4> QED
                BY <1>2, <1>5, <2>2, <3>2, <4>1, Product
        <3> QED
            BY <1>2, <3>2, <3>3, Rest DEF d
    <2>3. ASSUME ~(i < P) PROVE (i - P) % n = i - P
        <3> HIDE DEF P
        <3>1. i - P \in Nat /\ i - P < n
            BY <1>2, <1>5, <2>3
        <3> QED
            BY <1>2, <3>1, Rest
    <2> QED
        BY <2>1, <2>2, <2>3
<1>7. \A i \in 0 .. maxMembers - 1 :
          i \in share <=> \/ i < P /\ r * q <= i /\ i < r * q + q
                          \/ ~(i < P) /\ i = P + r
    <2> SUFFICES ASSUME NEW i \in 0 .. maxMembers - 1
                 PROVE  i \in share <=> \/ i < P /\ r * q <= i /\ i < r * q + q
                                        \/ ~(i < P) /\ i = P + r
        OBVIOUS
    <2>1. i \in share <=> (IF i < P THEN i \div q ELSE i - P) = r
        BY <1>4, <1>6
    <2> HIDE DEF q
    <2>2. i \div q = r <=> r * q <= i /\ i < r * q + q
        BY <1>3, <1>5, Block
    <2> HIDE DEF P
    <2> QED
        BY <1>3, <1>5, <2>1, <2>2
<1> HIDE DEF q
<1>8. ASSUME r < n
      PROVE  IsFiniteSet(share) /\ Cardinality(share) \in {q, q + 1}
    <2> DEFINE a == r * q
               block == a .. (a + q - 1)
    <2>1. a \in Nat /\ a + q <= P
        <3>1. (r + 1) * q <= n * q /\ (r + 1) * q = r * q + q /\ r * q \in Nat
            BY <1>2, <1>3, <1>5, <1>8, Product
        <3> QED
            BY <3>1
    <2>2. \A i \in 0 .. maxMembers - 1 :
              i \in share <=> (i < P /\ a <= i /\ i < a + q) \/ (~(i < P) /\ i = P + r)
        BY <1>7
    <2> HIDE DEF a, P
    <2>3. share = IF P + r < maxMembers THEN block \cup {P + r} ELSE block
        <3>1. share \subseteq 0 .. maxMembers - 1
            BY <1>4
        <3>2. \A i \in share : i \in IF P + r < maxMembers THEN block \cup {P + r} ELSE block
            BY <1>3, <1>5, <2>1, <2>2, <3>1
        <3>3. \A i \in block : i \in share
            BY <1>3, <1>5, <2>1, <2>2
        <3>4. P + r < maxMembers => P + r \in share
            BY <1>3, <1>5, <2>1, <2>2
        <3> QED
            BY <3>2, <3>3, <3>4
    <2>4. IsFiniteSet(block) /\ Cardinality(block) = q
        BY <1>5, <2>1, FS_Interval
    <2>5. P + r \notin block
        BY <1>3, <1>5, <2>1
    <2> HIDE DEF block
    <2>6. IsFiniteSet(block \cup {P + r}) /\ Cardinality(block \cup {P + r}) = q + 1
        BY <2>4, <2>5, FS_AddElement
    <2> QED
        BY <2>3, <2>4, <2>6
<1>9. ASSUME r >= n
      PROVE  share = {}
    <2> DEFINE a == r * q
    <2>1. a \in Nat /\ P <= a
        BY <1>2, <1>3, <1>5, <1>9, Product
    <2>2. \A i \in 0 .. maxMembers - 1 :
              i \in share <=> (i < P /\ a <= i /\ i < a + q) \/ (~(i < P) /\ i = P + r)
        BY <1>7
    <2> HIDE DEF a, P
    <2>3. \A i \in 0 .. maxMembers - 1 : i \notin share
        BY <1>2, <1>3, <1>5, <1>9, <2>1, <2>2
    <2> QED
        BY <1>4, <2>3
<1>10. IsFiniteSet(share)
    <2>1. r < n \/ r >= n
        BY <1>2, <1>3
    <2> QED
        BY <1>8, <1>9, <2>1, FS_EmptySet
<1> QED
    BY <1>2, <1>5, <1>8, <1>9, <1>10 DEF n, q, share, r

\* As many members take part as the list is cut to, and they share evenly.
LEMMA EvenShares ==
    ASSUME NEW S \in SUBSET Int, IsFiniteSet(S), S # {}, NEW maxMembers \in Nat \ {0}
    PROVE  LET Share(m) == Cardinality(BalancedPartitions(S, maxMembers, m))
               active == {m \in S : Share(m) > 0}
           IN  /\ \A a, b \in active : Share(a) <= Share(b) + 1
               /\ Cardinality(active) = NumMembers(S, maxMembers)
<1> DEFINE Share(m) == Cardinality(BalancedPartitions(S, maxMembers, m))
           active == {m \in S : Share(m) > 0}
           n == NumMembers(S, maxMembers)
           q == maxMembers \div n
<1>1. /\ n \in Nat
      /\ \A m \in S : /\ q \in Nat \ {0} /\ Rank(S, m) \in Nat
                      /\ Rank(S, m) < n => Share(m) \in {q, q + 1}
                      /\ Rank(S, m) >= n => Share(m) = 0
    <2>1. ASSUME NEW m \in S
          PROVE  /\ n \in Nat /\ q \in Nat \ {0} /\ Rank(S, m) \in Nat
                 /\ Rank(S, m) < n => Share(m) \in {q, q + 1}
                 /\ Rank(S, m) >= n => Share(m) = 0
        <3>1. Rank(S, m) \in Nat
            BY RankInRange, FS_CardinalityType
        <3>2. Rank(S, m) >= n => BalancedPartitions(S, maxMembers, m) = {}
            BY ShareKnown
        <3> QED
            BY <3>1, <3>2, ShareKnown, FS_EmptySet
    <2> QED
        BY <2>1
<1>2. n <= Cardinality(S) /\ Cardinality(S) \in Nat
    BY FS_CardinalityType DEF NumMembers
<1> HIDE DEF n, q, Share
<1>3. \A m \in S : m \in active <=> Rank(S, m) < n
    <2> SUFFICES ASSUME NEW m \in S PROVE Share(m) > 0 <=> Rank(S, m) < n
        OBVIOUS
    <2> DEFINE r == Rank(S, m)
               s == Share(m)
    <2>1. /\ n \in Nat /\ q \in Nat \ {0} /\ r \in Nat
          /\ r < n => s \in {q, q + 1}
          /\ r >= n => s = 0
        BY <1>1
    <2> HIDE DEF r, s
    <2>2. s > 0 <=> r < n
        BY <2>1
    <2> QED
        BY <2>2 DEF r, s
<1>4. ASSUME NEW a \in active, NEW b \in active
      PROVE  Share(a) <= Share(b) + 1
    <2>1. q \in Nat /\ Share(a) \in {q, q + 1} /\ Share(b) \in {q, q + 1}
        BY <1>1, <1>3
    <2> QED
        BY <2>1
<1> DEFINE T == 0 .. n - 1
           f == [m \in active |-> Rank(S, m)]
<1>5. IsFiniteSet(T) /\ Cardinality(T) = n
    BY <1>1, FS_Interval
<1>6. f \in [active -> T]
    <2>1. \A m \in active : Rank(S, m) \in T
        BY <1>1, <1>3
    <2> HIDE DEF active, T
    <2> QED
        BY <2>1
<1>7. f \in Injection(active, T)
    <2>1. \A a, b \in active : f[a] = f[b] => a = b
        BY RankInjective, <1>3
    <2> HIDE DEF f, active
    <2> QED
        BY <1>6, <2>1 DEF Injection, IsInjective
<1>8. f \in Surjection(active, T)
    <2>1. ASSUME NEW k \in T PROVE \E m \in active : f[m] = k
        <3>1. k \in 0 .. Cardinality(S) - 1
            BY <1>1, <1>2
        <3>2. PICK m \in S : Rank(S, m) = k
            BY <3>1, RankOnto
        <3>3. m \in active
            BY <1>1, <1>3, <3>2
        <3> QED
            BY <3>2, <3>3
    <2> HIDE DEF f, active
    <2> QED
        BY <1>6, <2>1 DEF Surjection
<1>9. Cardinality(active) = n
    <2> HIDE DEF f, active, T
    <2> QED
        BY <1>5, <1>7, <1>8, FS_Injection
<1> QED
    BY <1>4, <1>9 DEF Share, n

\* The members that take part have shares within one of each other, and all take
\* part unless there are more than partitions (GeneratePartitionFilters).
THEOREM Balanced == Spec => []BalancedWithinOne
<1>1. IInv => BalancedWithinOne
    <2> DEFINE config == entry.config
               S == config.members
               max == config.max
    <2> SUFFICES ASSUME IInv, config # NoConfig, S # {}
                 PROVE  LET Share(m) == Cardinality(PartitionsOf(config, m))
                            active == {m \in S : Share(m) > 0}
                        IN  /\ \A a, b \in active : Share(a) <= Share(b) + 1
                            /\ Cardinality(active) = NumMembers(S, max)
        BY DEF BalancedWithinOne
    <2>1. config \in Configs /\ validateConfig(config)
        BY DEF IInv, TypeOK, StoredConfigValid
    <2>2. /\ max \in Nat \ {0} /\ config.filters \in Seq(FilterType)
          /\ S \in SUBSET Int /\ IsFiniteSet(S)
        <3>1. max \in Nat \ {0} /\ config.filters \in Seq(FilterType)
            BY <2>1, ConfigTyped DEF validateConfig
        <3>2. S \in SUBSET Names
            BY <2>1, ConfigTyped
        <3> QED
            BY <3>1, <3>2, AdminAssumption, FS_Subset
    <2>3. \A m : PartitionsOf(config, m) = BalancedPartitions(S, max, m)
        BY <2>2, PartitionsOfBalanced
    <2> HIDE DEF S, max
    <2>4. LET Share(m) == Cardinality(BalancedPartitions(S, max, m))
              active == {m \in S : Share(m) > 0}
          IN  /\ \A a, b \in active : Share(a) <= Share(b) + 1
              /\ Cardinality(active) = NumMembers(S, max)
        BY <2>2, EvenShares
    <2> QED
        BY <2>3, <2>4
<1> QED
    BY <1>1, AdminInvariant, PTL

-----------------------------------------------------------------------------
(* The mappings, and what counting their slots and members tells.          *)

\* A list of mappings has finitely many slots.
LEMMA SlotsFinite ==
    ASSUME NEW mappings \in Seq(MappingType)
    PROVE  IsFiniteSet(MappingSlots(mappings))
<1> DEFINE N == Len(mappings)
           Row(j) == {j} \X (1 .. Len(mappings[j].partitions))
           rows == {Row(j) : j \in 1 .. N}
           f == [j \in 1 .. N |-> Row(j)]
<1>1. IsFiniteSet(1 .. N)
    <2>1. N \in Nat
        OBVIOUS
    <2> QED
        BY <2>1, FS_Interval
<1>2. ASSUME NEW j \in 1 .. N PROVE IsFiniteSet(Row(j))
    <2> DEFINE L == Len(mappings[j].partitions)
    <2>1. mappings[j] \in MappingType
        OBVIOUS
    <2>2. mappings[j].partitions \in Seq(Int)
        BY <2>1 DEF MappingType
    <2>3. L \in Nat
        BY <2>2
    <2>4. Row(j) = {j} \X (1 .. L)
        OBVIOUS
    <2> HIDE DEF L, Row
    <2>5. IsFiniteSet(1 .. L)
        <3>1. L \in Int /\ 1 \in Int
            BY <2>3
        <3> QED
            BY <3>1, FS_Interval
    <2>6. IsFiniteSet({j})
        BY FS_Singleton
    <2>7. IsFiniteSet({j} \X (1 .. L))
        BY <2>5, <2>6, FS_Product
    <2> QED
        BY <2>4, <2>7
<1> HIDE DEF Row
<1>3. f \in Surjection(1 .. N, rows)
    <2>1. f \in [1 .. N -> rows] /\ \A t \in rows : \E j \in 1 .. N : f[j] = t
        OBVIOUS
    <2> HIDE DEF f, rows
    <2> QED
        BY <2>1 DEF Surjection
<1>4. IsFiniteSet(rows)
    <2> HIDE DEF f, rows
    <2> QED
        BY <1>1, <1>3, FS_Surjection
<1>5. \A T \in rows : IsFiniteSet(T)
    BY <1>2
<1>6. MappingSlots(mappings) = UNION rows
    BY DEF MappingSlots, Row
<1> HIDE DEF rows
<1> QED
    BY <1>4, <1>5, <1>6, FS_UNION

\* Mappings are accepted exactly if they are a function from the partitions.
LEMMA AcceptedIffFunction ==
    ASSUME NEW mappings \in Seq(MappingType),
           NEW maxMembers \in Nat
    PROVE  LET slots == MappingSlots(mappings)
               all == 0 .. maxMembers - 1
           IN  /\ \A s, t \in slots :
                     PartitionAt(mappings, s) = PartitionAt(mappings, t) => s = t
               /\ \A s \in slots : PartitionAt(mappings, s) \in all
               /\ Cardinality({PartitionAt(mappings, s) : s \in slots}) = maxMembers
               <=>
               /\ \A p \in all :
                     Cardinality({s \in slots : PartitionAt(mappings, s) = p}) = 1
               /\ Cardinality(slots) = maxMembers
<1> DEFINE slots == MappingSlots(mappings)
           all == 0 .. maxMembers - 1
           At(s) == PartitionAt(mappings, s)
           used == {At(s) : s \in slots}
           Assigned(p) == {s \in slots : At(s) = p}
<1>1. IsFiniteSet(slots) /\ IsFiniteSet(all) /\ Cardinality(all) = maxMembers
    <2>1. IsFiniteSet(slots)
        BY SlotsFinite
    <2>2. IsFiniteSet(all) /\ Cardinality(all) = maxMembers
        BY FS_Interval
    <2> QED
        BY <2>1, <2>2
<1> HIDE DEF slots, all, At
<1>2. ASSUME \A s, t \in slots : At(s) = At(t) => s = t, \A s \in slots : At(s) \in all,
             Cardinality(used) = maxMembers
      PROVE  /\ \A p \in all : Cardinality(Assigned(p)) = 1
             /\ Cardinality(slots) = maxMembers
    <2> DEFINE f == [s \in slots |-> At(s)]
    <2>1. used \in SUBSET all
        BY <1>2
    <2>2. used = all
        <3> HIDE DEF used
        <3> QED
            BY <1>1, <1>2, <2>1, FS_Subset
    <2>3. ASSUME NEW p \in all PROVE Cardinality(Assigned(p)) = 1
        <3>1. PICK s \in slots : At(s) = p
            BY <2>2
        <3>2. Assigned(p) = {s}
            BY <1>2, <3>1
        <3> QED
            BY <3>2, FS_Singleton
    <2>4. f \in [slots -> all]
        BY <1>2
    <2>5. f \in Injection(slots, all) /\ f \in Surjection(slots, all)
        <3>1. /\ \A s, t \in slots : f[s] = f[t] => s = t
              /\ \A p \in all : \E s \in slots : f[s] = p
            BY <1>2, <2>2
        <3> HIDE DEF f
        <3> QED
            BY <2>4, <3>1 DEF Injection, IsInjective, Surjection
    <2>6. Cardinality(slots) = maxMembers
        <3> HIDE DEF f
        <3> QED
            BY <1>1, <2>5, FS_Injection
    <2> QED
        BY <2>3, <2>6
<1>3. ASSUME \A p \in all : Cardinality(Assigned(p)) = 1, Cardinality(slots) = maxMembers
      PROVE  /\ \A s, t \in slots : At(s) = At(t) => s = t
             /\ \A s \in slots : At(s) \in all
             /\ Cardinality(used) = maxMembers
    <2>1. ASSUME NEW p \in all PROVE \E s : Assigned(p) = {s}
        <3>1. IsFiniteSet(Assigned(p))
            <4>1. Assigned(p) \in SUBSET slots
                OBVIOUS
            <4> QED
                BY <1>1, <4>1, FS_Subset
        <3> HIDE DEF Assigned
        <3> QED
            BY <1>3, <3>1, FS_Singleton
    <2> DEFINE inside == {s \in slots : At(s) \in all}
               f == [s \in inside |-> At(s)]
    <2>2. \A s, t \in inside : At(s) = At(t) => s = t
        <3> SUFFICES ASSUME NEW s \in inside, NEW t \in inside, At(s) = At(t)
                     PROVE  s = t
            OBVIOUS
        <3>1. s \in Assigned(At(s)) /\ t \in Assigned(At(s)) /\ At(s) \in all
            OBVIOUS
        <3> HIDE DEF Assigned
        <3> QED
            BY <2>1, <3>1
    <2>3. f \in [inside -> all]
        OBVIOUS
    <2>4. \A p \in all : \E s \in inside : At(s) = p
        <3> SUFFICES ASSUME NEW p \in all PROVE \E s \in inside : At(s) = p
            OBVIOUS
        <3>1. PICK s : Assigned(p) = {s}
            BY <2>1
        <3>2. s \in Assigned(p)
            BY <3>1
        <3> QED
            BY <3>2
    <2>5. f \in Injection(inside, all) /\ f \in Surjection(inside, all)
        <3>1. /\ \A s, t \in inside : f[s] = f[t] => s = t
              /\ \A p \in all : \E s \in inside : f[s] = p
            BY <2>2, <2>4
        <3> HIDE DEF f, inside
        <3> QED
            BY <2>3, <3>1 DEF Injection, IsInjective, Surjection
    <2>6. inside = slots
        <3>1. inside \in SUBSET slots
            OBVIOUS
        <3> HIDE DEF f, inside
        <3>2. Cardinality(inside) = Cardinality(slots)
            BY <1>1, <1>3, <2>5, FS_Injection
        <3> QED
            BY <1>1, <3>1, <3>2, FS_Subset
    <2>7. used = all
        BY <2>4, <2>6
    <2> QED
        BY <1>1, <2>2, <2>6, <2>7
<1> QED
    BY <1>2, <1>3 DEF slots, all, At

\* The members of a list of mappings are distinct exactly if there are as many
\* as there are mappings.
LEMMA NamedOnce ==
    ASSUME NEW mappings \in Seq(MappingType)
    PROVE  LET J == 1 .. Len(mappings)
           IN  (\A a, b \in J : mappings[a].member = mappings[b].member => a = b)
               <=> Cardinality({mappings[j].member : j \in J}) = Len(mappings)
<1> DEFINE J == 1 .. Len(mappings)
           names == {mappings[j].member : j \in J}
           f == [j \in J |-> mappings[j].member]
<1>1. IsFiniteSet(J) /\ Cardinality(J) = Len(mappings)
    <2>1. ASSUME NEW n \in Nat PROVE IsFiniteSet(1 .. n) /\ Cardinality(1 .. n) = n
        BY FS_Interval
    <2>2. Len(mappings) \in Nat
        OBVIOUS
    <2> QED
        BY <2>1, <2>2
<1> HIDE DEF J
<1>2. f \in [J -> names] /\ \A m \in names : \E j \in J : f[j] = m
    OBVIOUS
<1>3. (\A a, b \in J : mappings[a].member = mappings[b].member => a = b)
          <=> (\A a, b \in J : f[a] = f[b] => a = b)
    OBVIOUS
<1> HIDE DEF f, names
<1>4. f \in Surjection(J, names)
    BY <1>2 DEF Surjection
<1>5. Cardinality(names) = Cardinality(J) <=> f \in Injection(J, names)
    BY <1>1, <1>4, FS_Surjection
<1>6. f \in Injection(J, names) <=> \A a, b \in J : f[a] = f[b] => a = b
    BY <1>2 DEF Injection, IsInjective
<1> QED
    BY <1>1, <1>3, <1>5, <1>6 DEF J, names

\* SetMemberMappings accepts exactly the mappings that give each partition to one
\* place of one member (validateConfig), whatever is stored when it is called.
THEOREM AcceptedMappingsAreTotal == Spec => []MappingsAcceptedIffTotal
<1>1. IInv => MappingsAcceptedIffTotal
    <2> SUFFICES ASSUME IInv, entry.config # NoConfig,
                        NEW mappings \in MappingLists \ {<<>>}
                 PROVE  validateConfig([entry.config EXCEPT !.members = {},
                                                            !.mappings = mappings])
                            <=> Total(mappings, entry.config.max)
        BY DEF MappingsAcceptedIffTotal
    <2> DEFINE new == [entry.config EXCEPT !.members = {}, !.mappings = mappings]
               max == entry.config.max
    <2>1. entry.config \in Configs /\ validateConfig(entry.config)
        BY DEF IInv, TypeOK, StoredConfigValid
    <2>2. /\ new.max = max /\ new.filters = entry.config.filters
          /\ new.members = {} /\ new.mappings = mappings
        BY <2>1 DEF Configs
    <2> HIDE DEF new
    <2>3. validateConfig(new) <=> ValidMappings(mappings, max)
        BY <2>1, <2>2 DEF validateConfig
    <2>4. max \in Nat /\ mappings \in Seq(MappingType)
        BY <2>1, ConfigTyped, AdminAssumption
    <2>5. ValidMappings(mappings, max) <=> Total(mappings, max)
        <3> HIDE DEF max
        <3> QED
            BY <2>4, AcceptedIffFunction, NamedOnce DEF ValidMappings, Total
    <2> QED
        BY <2>3, <2>5 DEF new
<1> QED
    BY <1>1, AdminInvariant, PTL
=============================================================================
