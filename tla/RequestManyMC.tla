--------------------------- MODULE RequestManyMC ----------------------------
(* Calls of every layer with the options that layer can be given.          *)
EXTENDS RequestMany

Opt(name, value) == [name |-> name, value |-> value]

OptionLists ==
    {<<>>, <<Opt("seq", 2)>>, <<Opt("time", 1)>>, <<Opt("seq", 0), Opt("time", 1)>>,
     <<Opt("seq", 2), Opt("time", 1)>>, <<Opt("time", 1), Opt("seq", 2)>>,
     <<Opt("size", 0)>>, <<Opt("size", 3), Opt("seq", 1)>>}

Shape(layer, bounded, stall, sentinel, max, options, subjects) ==
    [layer |-> layer, bounded |-> bounded, stall |-> stall, sentinel |-> sentinel,
     max |-> max, options |-> options, subjects |-> subjects]

MCCalls ==
    {Shape("many", b, st, se, m, <<>>, TRUE) :
        b \in BOOLEAN, st \in BOOLEAN, se \in BOOLEAN, m \in {-1, 0, 1, 2}}
    \cup {Shape("ping", TRUE, TRUE, FALSE, m, <<>>, TRUE) : m \in {-1, 2}}
    \cup {Shape("batch", TRUE, FALSE, FALSE, -1, o, TRUE) : o \in OptionLists}
    \cup {Shape("last", FALSE, FALSE, FALSE, -1, o, su) :
            o \in OptionLists, su \in BOOLEAN}
    \cup {Shape("counters", b, FALSE, FALSE, -1, <<>>, TRUE) : b \in BOOLEAN}
=============================================================================
