------------------------------ MODULE KeyCodecs -----------------------------
(***************************************************************************)
(* The key codecs.  A key is a sequence of symbols; a symbol stands for a  *)
(* run of characters that no codec tells apart, or for what a codec made   *)
(* of a sequence of symbols: "base64" of one token, "sealed" of a whole    *)
(* key by a custom codec that knows no filters.  What stands for base64 of *)
(* something is any token that decodes to it, whoever wrote the token: the *)
(* codec takes every token of its alphabet and of a length that can be.    *)
(*                                                                         *)
(* A codec is [codecs |-> a sequence of names, chain |-> whether it is a   *)
(* KeyChainCodec, values |-> the names of the value codecs]; an unchained  *)
(* one has one name.  A stored value is the layers of encoding it has.     *)
(***************************************************************************)
EXTENDS Naturals, SequencesExt

Symbol(name) == [name |-> name, of |-> <<>>]
Made(name, symbols) == [name |-> name, of |-> symbols]

Dot == Symbol(".")
Slash == Symbol("/")
Root == Symbol("_root_")
Star == Symbol("*")
Rest == Symbol(">")

Encoded(key) == [ok |-> TRUE, key |-> key]
Undecodable == [ok |-> FALSE, key |-> <<>>]

\* strings.Split and strings.Join with "."
Tokens(key) ==
    FoldLeft(LAMBDA ts, x : IF x = Dot THEN Append(ts, <<>>)
                            ELSE [ts EXCEPT ![Len(ts)] = Append(@, x)],
             << <<>> >>, key)
Join(tokens) == FoldLeft(LAMBDA key, t : key \o <<Dot>> \o t, Head(tokens), Tail(tokens))

-----------------------------------------------------------------------------
PathEncode(key) ==
    LET rooted == IF key # <<>> /\ Head(key) = Slash
                  THEN IF Len(key) = 1 THEN <<Root>> ELSE <<Root, Dot>> \o Tail(key)
                  ELSE key
        trimmed == IF rooted # <<>> /\ Last(rooted) = Slash THEN Front(rooted) ELSE rooted
    IN  ReplaceAll(trimmed, Slash, Dot)

PathDecode(key) ==
    IF key = <<Root>> THEN <<Slash>>
    ELSE IF IsPrefix(<<Root, Dot>>, key)
         THEN <<Slash>> \o ReplaceAll(SubSeq(key, 3, Len(key)), Dot, Slash)
         ELSE ReplaceAll(key, Dot, Slash)

Base64Token(token) == IF token = <<>> THEN <<>> ELSE <<Made("base64", token)>>

Base64Encode(key) == LET ts == Tokens(key) IN Join([i \in DOMAIN ts |-> Base64Token(ts[i])])

Base64Decode(key) ==
    LET ts == Tokens(key)
        Decodable(t) == t = <<>> \/ (Len(t) = 1 /\ t[1].name = "base64")
    IN  IF \A i \in DOMAIN ts : Decodable(ts[i])
        THEN Encoded(Join([i \in DOMAIN ts |-> IF ts[i] = <<>> THEN <<>> ELSE ts[i][1].of]))
        ELSE Undecodable

Base64Filter(filter) ==
    LET ts == Tokens(filter)
    IN  Join([i \in DOMAIN ts |-> IF ts[i] \in {<<Star>>, <<Rest>>} THEN ts[i]
                                  ELSE Base64Token(ts[i])])

\* A codec of the caller's own, without EncodeFilter.
SealedDecode(key) ==
    IF Len(key) = 1 /\ key[1].name = "sealed" THEN Encoded(key[1].of) ELSE Undecodable

-----------------------------------------------------------------------------
EncodeWith(name, key) ==
    CASE name = "noop" -> key
      [] name = "path" -> PathEncode(key)
      [] name = "base64" -> Base64Encode(key)
      [] name = "sealed" -> <<Made("sealed", key)>>

DecodeWith(name, key) ==
    CASE name = "noop" -> Encoded(key)
      [] name = "path" -> Encoded(PathDecode(key))
      [] name = "base64" -> Base64Decode(key)
      [] name = "sealed" -> SealedDecode(key)

FilterWith(name, filter) ==
    CASE name = "noop" -> filter
      [] name = "path" -> PathEncode(filter)
      [] name = "base64" -> Base64Filter(filter)

\* KeyChainCodec.EncodeKey: in order.
EncodeKey(codec, key) == FoldLeft(LAMBDA k, name : EncodeWith(name, k), key, codec.codecs)

\* KeyChainCodec.DecodeKey: in the opposite order, up to the first that fails.
DecodeKey(codec, key) ==
    FoldLeft(LAMBDA k, name : IF k.ok THEN DecodeWith(name, k.key) ELSE k,
             Encoded(key), Reverse(codec.codecs))

Filterable(codec) == "sealed" \notin ToSet(codec.codecs)

HasWildcard(filter) == {Star, Rest} \cap ToSet(filter) # {}

\* What WatchFiltered and ListKeysFiltered ask for.  A chain refuses a filter
\* if one of its codecs cannot; another codec that cannot encodes it as a key.
EncodeFilter(codec, filter) ==
    IF Filterable(codec)
    THEN Encoded(FoldLeft(LAMBDA f, name : FilterWith(name, f), filter, codec.codecs))
    ELSE IF codec.chain \/ HasWildcard(filter) THEN Undecodable
    ELSE Encoded(EncodeKey(codec, filter))

-----------------------------------------------------------------------------
\* Only "base64" and "sealed" change a value.
Layer(name) == IF name \in {"noop", "path"} THEN <<>> ELSE <<name>>

EncodeValue(codec) == FoldLeft(LAMBDA v, name : v \o Layer(name), <<>>, codec.values)

\* ValueChainCodec.DecodeValue: each codec takes off its own layer.
DecodeValue(codec, value) ==
    FoldLeft(LAMBDA v, name : IF v.ok /\ IsSuffix(Layer(name), v.key)
                              THEN Encoded(SubSeq(v.key, 1, Len(v.key) - Len(Layer(name))))
                              ELSE Undecodable,
             Encoded(value), Reverse(codec.values))
=============================================================================
