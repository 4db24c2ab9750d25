--------------------------- MODULE ElasticAdminMC ---------------------------
(***************************************************************************)
(* Constant values for ElasticAdmin.  For the clients that race: groups of *)
(* one or two partitions, a valid list of mappings for each, and one that  *)
(* covers only half of a group of two.  For the distribution: groups of    *)
(* every size up to seven, some with a partitioning filter, and all lists  *)
(* of up to two mappings of up to two numbers, one too low and one too     *)
(* high for most groups among them.                                        *)
(***************************************************************************)
EXTENDS ElasticAdmin

ShapesMC == {[max |-> n, filters |-> <<>>] : n \in {1, 2}}

MappingListsMC ==
    { <<[member |-> 1, partitions |-> <<0>>]>>,
      <<[member |-> 1, partitions |-> <<0>>], [member |-> 2, partitions |-> <<1>>]>> }

Filter(subject) == [subject |-> subject, wildcards |-> 1, full |-> FALSE,
                    partitioning |-> <<1>>]

SizesMC == {[max |-> n, filters |-> <<>>] : n \in 0 .. 7} \cup
               {[max |-> 2, filters |-> <<Filter("orders.*"), Filter("returns.*")>>],
                [max |-> 5, filters |-> <<Filter("orders.*")>>]}

Numbers == {<<>>} \cup {<<p>> : p \in -1 .. 2} \cup {<<p, q>> : p, q \in -1 .. 2}

AllMappingsMC ==
    LET Mapped(name) == {[member |-> name, partitions |-> ps] : ps \in Numbers}
    IN  {<<m>> : m \in Mapped(1)} \cup
            {<<m, n>> : m \in Mapped(1), n \in Mapped(1) \cup Mapped(2)}
=============================================================================
