----------------------------- MODULE KVCodecMC ------------------------------
(* Keys that differ only by their separators or a leading slash, and every *)
(* kind of codec, chained in both orders; for each of them TLC evaluates    *)
(* what the theorems assume of codecs.                                      *)
EXTENDS KVCodec

A == Symbol("a")
B == Symbol("b")

MCKeys == {<<A>>, <<Slash, A>>, <<A, Dot, B>>, <<A, Slash, B>>}

\* One that is not base64, and one that is, by chance.
MCForeignKeys == {<<Symbol("z")>>, <<Made("base64", <<Symbol("junk")>>)>>}

MCFilters == {<< <<A, Dot, Star>>, <<Slash, Rest>> >>, << <<A>> >>}

Codec(codecs, chain, values) == [codecs |-> codecs, chain |-> chain, values |-> values]

MCCodecs ==
    {Codec(<<"noop">>, FALSE, <<"base64">>), Codec(<<"path">>, FALSE, <<"noop">>),
     Codec(<<"base64">>, FALSE, <<"base64">>), Codec(<<"sealed">>, FALSE, <<"sealed">>),
     Codec(<<"path", "base64">>, TRUE, <<"path", "base64", "sealed">>),
     Codec(<<"base64", "path">>, TRUE, <<"base64">>),
     Codec(<<"path", "sealed">>, TRUE, <<"sealed", "base64">>)}

ASSUME CodecsAreFaithful == AllFaithful
=============================================================================
