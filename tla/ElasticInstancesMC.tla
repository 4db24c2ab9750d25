------------------------- MODULE ElasticInstancesMC -------------------------
(***************************************************************************)
(* Constant values for ElasticInstances: a group of two partitions whose   *)
(* members 1 and 2 come and go.                                            *)
(***************************************************************************)
EXTENDS ElasticInstances, TLC

Group(names) ==
    [max |-> 2, filters |-> <<>>, members |-> names, mappings |-> <<>>]

\* The same group with its partitions swapped by mappings.
Swapped ==
    [max |-> 2, filters |-> <<>>, members |-> {},
     mappings |-> << [member |-> 1, partitions |-> <<1>>],
                     [member |-> 2, partitions |-> <<0>>] >>]

\* A configuration of another group that took this one's name.
Recreated == [Group({1, 2}) EXCEPT !.max = 1]

\* One instance per member; one of two instances of member 1 is a standby.
OneEach == 1 :> 1 @@ 2 :> 2
WithStandby == 1 :> 1 @@ 2 :> 1

Growing == {Group({1}), Group({1, 2})}
Shifting == {Group({1}), Group({1, 2}), Swapped}
AllConfigs == {Group({1}), Group({1, 2}), Swapped, Recreated}

MessagePartition == [msg \in Messages |-> msg]
=============================================================================
