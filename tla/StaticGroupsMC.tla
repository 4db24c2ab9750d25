--------------------------- MODULE StaticGroupsMC ---------------------------
(***************************************************************************)
(* Constant values for StaticGroups: a group of two partitions, with two   *)
(* members, with one, or mapped to two the other way round.                *)
(***************************************************************************)
EXTENDS StaticGroups, TLC

Balanced == [max |-> 2, filters |-> <<>>, members |-> {1, 2}, mappings |-> <<>>]

Swapped ==
    [max |-> 2, filters |-> <<>>, members |-> {},
     mappings |-> << [member |-> 1, partitions |-> <<1>>],
                     [member |-> 2, partitions |-> <<0>>] >>]

Alone == [max |-> 2, filters |-> <<>>, members |-> {1}, mappings |-> <<>>]

One == {Balanced}
Two == {Swapped, Alone}

\* One group, whose two members have an instance each, or one of them two.
OneGroup    == 1 :> <<"cg">> @@ 2 :> <<"cg">>
OneEach     == 1 :> 1 @@ 2 :> 2
WithStandby == 1 :> 1 @@ 2 :> 1

\* Two groups, cg and cg-a.
TwoGroups == 1 :> <<"cg">> @@ 2 :> <<"cg", "a">>
=============================================================================
