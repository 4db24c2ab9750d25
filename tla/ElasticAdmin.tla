---------------------------- MODULE ElasticAdmin ----------------------------
(***************************************************************************)
(* The administrative operations on one elastic consumer group, called by  *)
(* several clients at once (cg tools, operators, applications).  The group *)
(* is an entry of a KV bucket and a work queue stream, and no operation    *)
(* changes them in one step: it reads the entry, works on its copy, and    *)
(* writes.  AddMembers and DeleteMembers write with the revision they      *)
(* read (kv.Update); the others overwrite whatever is there (kv.Put).      *)
(***************************************************************************)
EXTENDS PartitionFilters

CONSTANTS
    Clients,      \* the callers
    Names,        \* member names, ordered as in PartitionFilters
    Shapes,       \* the fixed part of a group: [max, filters]
    MappingLists, \* the arguments of SetMemberMappings, valid or not
    NoConfig,     \* no entry in the bucket, or a delete marker
    NoStream,     \* the group's stream does not exist
    MaxRevision   \* bound: no operation starts once the bucket is past it

\* The types of the callers' partitioning filters and mappings.
FilterType == [subject : STRING, wildcards : Nat, full : BOOLEAN,
               partitioning : Seq(Int)]
MappingType == [member : Names, partitions : Seq(Int)]

ASSUME AdminAssumption ==
    /\ Names \subseteq Int
    /\ IsFiniteSet(Names)
    /\ MaxRevision \in Nat
    /\ \A s \in Shapes : s.max \in Nat /\ s.filters \in Seq(FilterType)
    /\ MappingLists \subseteq Seq(MappingType)
    /\ NoConfig \notin [max : Nat, filters : {s.filters : s \in Shapes},
                        members : SUBSET Names,
                        mappings : MappingLists \cup {<<>>}]

VARIABLES
    entry,  \* the bucket's entry: its revision and the configuration it holds
    stream, \* the shape the work queue stream was created with
    pc,     \* where each client is between two calls to the server
    call,   \* the operation a client is in, with the names it was given
    draft,  \* the configuration the client is about to write
    base    \* the revision the client read

vars == <<entry, stream, pc, call, draft, base>>

EmptyGroup(s) ==
    [max |-> s.max, filters |-> s.filters, members |-> {}, mappings |-> <<>>]

ShapeOf(config) == [max |-> config.max, filters |-> config.filters]

\* What each membership operation makes of a configuration.
Apply(operation, names, config) ==
    IF operation = "add" THEN [config EXCEPT !.members = @ \cup names]
                         ELSE [config EXCEPT !.members = @ \ names]

NoCall == [operation |-> "none", names |-> {}]

Init ==
    /\ entry = [rev |-> 0, config |-> NoConfig]
    /\ stream = NoStream
    /\ pc = [c \in Clients |-> "idle"]
    /\ call = [c \in Clients |-> NoCall]
    /\ draft = [c \in Clients |-> NoConfig]
    /\ base = [c \in Clients |-> 0]

Enter(c, operation, names, next, config, rev) ==
    /\ pc[c] = "idle"
    /\ entry.rev < MaxRevision
    /\ pc' = [pc EXCEPT ![c] = next]
    /\ call' = [call EXCEPT ![c] = [operation |-> operation, names |-> names]]
    /\ draft' = [draft EXCEPT ![c] = config]
    /\ base' = [base EXCEPT ![c] = rev]
    /\ UNCHANGED <<entry, stream>>

\* The call returns, and its local variables are gone.
Leave(c) ==
    /\ pc' = [pc EXCEPT ![c] = "idle"]
    /\ call' = [call EXCEPT ![c] = NoCall]
    /\ draft' = [draft EXCEPT ![c] = NoConfig]
    /\ base' = [base EXCEPT ![c] = 0]

\* getElasticConsumerGroupConfig succeeds.
ConfigReadable == entry.config # NoConfig /\ validateConfig(entry.config)

-----------------------------------------------------------------------------
\* CreateElastic: read the entry; a missing one is written next, one that
\* matches goes on to the stream, and one that does not is refused.
CreateGet(c, s) ==
    /\ validateConfig(EmptyGroup(s))
    /\ \/ /\ entry.config = NoConfig
          /\ Enter(c, "create", {}, "put", EmptyGroup(s), entry.rev)
       \/ /\ entry.config # NoConfig
          /\ ShapeOf(entry.config) = s
          /\ Enter(c, "create", {}, "stream", entry.config, entry.rev)

\* Mutant of CreateStream: the stored configuration is taken for the shape.
CreateStreamFromConfig(c) ==
    /\ pc[c] = "stream"
    /\ stream' = IF stream = NoStream THEN draft[c] ELSE stream
    /\ Leave(c)
    /\ UNCHANGED entry

\* CreateStream succeeds if there is none or an identical one, and otherwise
\* returns an error; either way the call ends.
CreateStream(c) ==
    /\ pc[c] = "stream"
    /\ stream' = IF stream = NoStream THEN ShapeOf(draft[c]) ELSE stream
    /\ Leave(c)
    /\ UNCHANGED entry

\* DeleteElastic: the entry first (a delete marker takes a revision, also when
\* there was nothing), then the stream.
DeleteGroup(c) ==
    /\ pc[c] = "idle"
    /\ entry.rev < MaxRevision
    /\ entry' = [rev |-> entry.rev + 1, config |-> NoConfig]
    /\ pc' = [pc EXCEPT ![c] = "drop"]
    /\ call' = [call EXCEPT ![c] = [operation |-> "delete", names |-> {}]]
    /\ UNCHANGED <<stream, draft, base>>

DeleteStream(c) ==
    /\ pc[c] = "drop"
    /\ stream' = NoStream
    /\ Leave(c)
    /\ UNCHANGED entry

\* AddMembers and DeleteMembers: refused while the group uses mappings.
ChangeMembers(c, operation, names) ==
    /\ names # {}
    /\ ConfigReadable
    /\ entry.config.mappings = <<>>
    /\ Enter(c, operation, names, "update",
             Apply(operation, names, entry.config), entry.rev)

\* Mutant of Update: the write does not depend on the revision that was read.
UpdateUnchecked(c) ==
    /\ pc[c] = "update"
    /\ entry' = [rev |-> entry.rev + 1, config |-> draft[c]]
    /\ Leave(c)
    /\ UNCHANGED stream

\* kv.Update: only if the entry still has the revision the client read.
Update(c) ==
    /\ pc[c] = "update"
    /\ entry' = IF entry.rev = base[c]
                THEN [rev |-> entry.rev + 1, config |-> draft[c]]
                ELSE entry
    /\ Leave(c)
    /\ UNCHANGED stream

\* Mutant of SetMemberMappings: the member list is left in place.
SetMemberMappingsKeepMembers(c, mappings) ==
    LET config == [entry.config EXCEPT !.mappings = mappings]
    IN  /\ mappings # <<>>
        /\ ConfigReadable
        /\ Enter(c, "map", {}, "put", config, entry.rev)

\* SetMemberMappings: mappings replace the member list; the new configuration
\* is validated before it is written.
SetMemberMappings(c, mappings) ==
    LET config == [entry.config EXCEPT !.members = {}, !.mappings = mappings]
    IN  /\ mappings # <<>>
        /\ ConfigReadable
        /\ validateConfig(config)
        /\ Enter(c, "map", {}, "put", config, entry.rev)

DeleteMemberMappings(c) ==
    /\ ConfigReadable
    /\ Enter(c, "unmap", {}, "put",
             [entry.config EXCEPT !.mappings = <<>>], entry.rev)

\* kv.Put: over whatever is stored.  CreateElastic goes on to the stream.
Put(c) ==
    /\ pc[c] = "put"
    /\ entry' = [rev |-> entry.rev + 1, config |-> draft[c]]
    /\ \/ /\ call[c].operation = "create"
          /\ pc' = [pc EXCEPT ![c] = "stream"]
          /\ UNCHANGED <<call, draft, base>>
       \/ /\ call[c].operation # "create"
          /\ Leave(c)
    /\ UNCHANGED stream

\* The process dies, or a call to the server fails, between two steps.
Crash(c) ==
    /\ pc[c] # "idle"
    /\ Leave(c)
    /\ UNCHANGED <<entry, stream>>

Next ==
    \E c \in Clients :
        \/ \E s \in Shapes : CreateGet(c, s)
        \/ CreateStream(c)
        \/ DeleteGroup(c)
        \/ DeleteStream(c)
        \/ \E operation \in {"add", "drop"}, names \in SUBSET Names :
              ChangeMembers(c, operation, names)
        \/ Update(c)
        \/ \E mappings \in MappingLists : SetMemberMappings(c, mappings)
        \/ DeleteMemberMappings(c)
        \/ Put(c)
        \/ Crash(c)

Spec == Init /\ [][Next]_vars

-----------------------------------------------------------------------------
Configs == [max : Nat, filters : {s.filters : s \in Shapes},
            members : SUBSET Names, mappings : MappingLists \cup {<<>>}]

\* Type invariant: the entry and the drafts are configurations of the group, and
\* the stream has one of its shapes.
TypeOK ==
    /\ entry \in [rev : Nat, config : Configs \cup {NoConfig}]
    /\ stream \in [max : Nat, filters : {s.filters : s \in Shapes}] \cup {NoStream}
    /\ pc \in [Clients -> {"idle", "put", "update", "stream", "drop"}]
    /\ call \in [Clients -> [operation : {"none", "create", "delete", "add",
                                          "drop", "map", "unmap"},
                             names : SUBSET Names]]
    /\ draft \in [Clients -> Configs \cup {NoConfig}]
    /\ base \in [Clients -> Nat]

\* Whatever the interleaving of the operations, the entry every member reads
\* passes validateConfig: it never holds members and mappings together, and
\* the mappings always cover the partitions of the group they are stored in.
StoredConfigValid ==
    entry.config # NoConfig => validateConfig(entry.config)

\* Every partition of a group that names anybody belongs to exactly one member,
\* in both distributions and whichever operations led to what is stored: no
\* message is without a consumer and none has two (GeneratePartitionFilters
\* together with the validation of what is written).
EveryPartitionHasOneOwner ==
    LET config == entry.config
    IN  config # NoConfig /\ Owners(config) # {} =>
            \A p \in 0 .. config.max - 1 :
                \E m \in Owners(config) :
                    /\ p \in PartitionsOf(config, m)
                    /\ \A other \in Owners(config) \ {m} :
                          p \notin PartitionsOf(config, other)

\* "the partitions are evenly distributed between the members": two members
\* that take part never differ by more than one partition, and every member
\* takes part unless there are more members than partitions.
BalancedWithinOne ==
    LET config   == entry.config
        Share(m) == Cardinality(PartitionsOf(config, m))
        active   == {m \in config.members : Share(m) > 0}
    IN  config # NoConfig /\ config.members # {} =>
            /\ \A a, b \in active : Share(a) <= Share(b) + 1
            /\ Cardinality(active) = NumMembers(config.members, config.max)

\* A list of mappings gives each partition of a group to one place of one
\* member, names no member twice, and has nothing else.
Total(mappings, max) ==
    LET slots == MappingSlots(mappings)
        Assigned(p) == {s \in slots : PartitionAt(mappings, s) = p}
        names == {mappings[j].member : j \in 1 .. Len(mappings)}
    IN  /\ \A p \in 0 .. max - 1 : Cardinality(Assigned(p)) = 1
        /\ Cardinality(slots) = max
        /\ Cardinality(names) = Len(mappings)
        /\ Len(mappings) <= max

\* Whatever is stored, SetMemberMappings finds valid exactly the mappings that
\* are a function from the partitions of the group to members named once.
MappingsAcceptedIffTotal ==
    entry.config # NoConfig =>
        \A mappings \in MappingLists \ {<<>>} :
            validateConfig([entry.config EXCEPT !.members = {}, !.mappings = mappings])
                <=> Total(mappings, entry.config.max)

\* "generates the partition filters for a particular member of a consumer
\* group, according to the provided max number of members, filter and the
\* membership": two calls with different filters have no filter in common.
FilterListHasNoDuplicates ==
    entry.config # NoConfig =>
        \A m \in Names :
            \A e, f \in ElasticGetPartitionFilters(entry.config, m) :
                e.partition = f.partition /\ e.subject = f.subject => e = f

\* AddMembers and DeleteMembers are atomic: an update that goes through turns
\* the configuration stored at that moment, not the one read earlier, into
\* that configuration with the names added or dropped.
MembershipUpdateIsAtomic ==
    [][\A c \in Clients :
          pc[c] = "update" /\ entry'.rev # entry.rev /\ pc'[c] = "idle" =>
              /\ entry.config # NoConfig
              /\ entry'.config = Apply(call[c].operation, call[c].names,
                                       entry.config)]_vars
=============================================================================
