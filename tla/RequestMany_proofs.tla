------------------------- MODULE RequestMany_proofs -------------------------
(***************************************************************************)
(* For any calls, and any number of options, answers and loops: that a     *)
(* request asks for what its options say, that no more messages are given  *)
(* than were asked for, that nothing is given to a caller who has left its *)
(* loop, and that a batch which ends without a word is whole.              *)
(***************************************************************************)
EXTENDS RequestMany, SequenceTheorems, FiniteSetTheorems, WellFoundedInduction, TLAPS

Option == [name : {"seq", "time", "size"}, value : Nat]
Requests == [ok : BOOLEAN, seq : Nat, time : BOOLEAN]

Yields == [range : Nat, what : Kinds \cup {"error"}, goes : BOOLEAN]

Before == {"called", "failed", "ready"}
After  == {"ended", "panicked"}

Types ==
    /\ call \in Calls
    /\ pc \in Before \cup Looping \cup After
    /\ ctx \in {"open", "live", "expired", "canceled"}
    /\ sub \in {"none", "open", "closed", "lost"}
    /\ first \in BOOLEAN
    /\ range \in Nat /\ watching \subseteq 1 .. range
    /\ sent \in Seq(Kinds) /\ read \in Nat /\ read <= Len(sent)
    /\ yields \in Seq(Yields)

\* Before the first loop nothing is read, given or closed.
Fresh ==
    /\ range = 0 <=> pc \in Before
    /\ range = 0 => yields = <<>> /\ read = 0 /\ sub # "closed"

\* During the first loop only the end of the context closes the subscription,
\* and only a wait that was asked for is a stall.
Open ==
    /\ sub = "closed" /\ range = 1 /\ pc \in Looping => ctx \in {"expired", "canceled"}
    /\ pc = "stall" => call.stall

\* During the first loop a direct get gives one thing for each answer it reads.
InStep == call.layer \in Direct /\ range = 1 /\ pc \in Looping => Len(yields) = read

\* The loops follow each other, and in each of them the caller is told nothing
\* after it has left, nor after an error that it is not GetMultiple's to skip.
Told ==
    /\ \A i \in 1 .. Len(yields) : yields[i].range \in 1 .. range
    /\ \A i, j \in 1 .. Len(yields) : i < j =>
          /\ yields[i].range <= yields[j].range
          /\ yields[i].range = yields[j].range =>
                yields[i].goes /\ (yields[i].what = "error" => call.layer = "counters")

\* A loop that goes on after an error, or after its caller has left it, is
\* GetMultiple's at a counter that does not parse.
SkipsOnly(y) == y.what = "error" \/ ~y.goes => y.what = "error" /\ call.layer = "counters"

Going ==
    pc \in Looping =>
        \A i \in 1 .. Len(yields) : yields[i].range = range => SkipsOnly(yields[i])

Panics == pc = "panicked" => yields # <<>> /\ call.layer = "counters"
                              /\ Last(yields).what = "error"

Talks == Types /\ Fresh /\ Open /\ InStep /\ Told /\ Going /\ Panics

\* The bounds of the answers and the loops, and a loop leaves no subscription.
Bounds ==
    /\ range <= MaxRanges /\ Len(sent) <= MaxAnswers
    /\ pc \in After => sub # "open"

\* The request is the one that the call's options make, all of them accepted.
Asks ==
    /\ request \in Requests
    /\ pc = "called" => request = NoOptions
    /\ pc \notin {"called", "failed"} =>
          request = Applied(call.layer, call.options) /\ request.ok

GivenIn(s) == {i \in 1 .. Len(s) : s[i].what # "error"}

\* While the subscription is open there is a message to wait for, and the count
\* is what the loops together have left of the number asked for.
Counted ==
    /\ count = -1 \/ (call.max > 0 /\ count \in 0 .. call.max)
    /\ call.max > 0 =>
          /\ Cardinality(GivenIn(yields)) <= call.max
          /\ sub = "open" /\ pc \notin {"called", "failed"} =>
                count >= 1 /\ Cardinality(GivenIn(yields)) + count = call.max

IInv == Talks /\ Bounds /\ Asks /\ Counted
-----------------------------------------------------------------------------
(* The options.  An option may be refused for what those before it asked,  *)
(* so the proofs go by the smallest number of options that do otherwise.   *)

Less == {p \in Nat \X Nat : p[1] < p[2]}

\* A set of numbers has a least one.
LEMMA LeastOfNat ==
    ASSUME NEW T, T \subseteq Nat, T # {}
    PROVE  \E x \in T : \A y \in T : x <= y
<1>1. IsWellFoundedOn(Less, Nat)
    BY NatLessThanWellFounded DEF OpToRel, Less
<1>2. PICK x \in T : \A y \in T : ~ (<<y, x>> \in Less)
    BY <1>1, WFMin
<1>3. \A y \in T : ~ (y < x)
    BY <1>2 DEF Less
<1> QED
    BY <1>3

\* The request after an option is the one before it with the option applied.
LEMMA InOrderKnown ==
    ASSUME NEW layer, NEW options \in Seq(Option)
    PROVE  /\ InOrder(layer, options)[0] = NoOptions
           /\ \A i \in 1 .. Len(options) :
                 InOrder(layer, options)[i] =
                     Apply(layer, InOrder(layer, options)[i - 1], options[i])
<1> DEFINE N == Len(options)
           Rest(f, i) == IF i = 0 THEN NoOptions ELSE Apply(layer, f[i - 1], options[i])
           Goes(f, n) == f = [i \in 0 .. n |-> Rest(f, i)]
           T == {n \in 0 .. N : ~ \E f : Goes(f, n)}
<1>1. N \in Nat
    BY LenProperties
<1> HIDE DEF N
<1>2. Goes([i \in 0 .. 0 |-> NoOptions], 0)
    OBVIOUS
<1>3. ASSUME NEW n \in 1 .. N, NEW f, Goes(f, n - 1)
      PROVE  \E g : Goes(g, n)
    <2> DEFINE g == [i \in 0 .. n |-> IF i = n THEN Rest(f, n) ELSE f[i]]
    <2>1. \A i \in 0 .. n - 1 : f[i] = Rest(f, i)
        BY <1>3
    <2>2. \A i \in 0 .. n : g[i] = Rest(g, i)
        <3> SUFFICES ASSUME NEW i \in 0 .. n PROVE g[i] = Rest(g, i)
            OBVIOUS
        <3>1. i # 0 => g[i - 1] = f[i - 1]
            BY <1>1
        <3>2. Rest(g, i) = Rest(f, i)
            BY <3>1
        <3> HIDE DEF Rest
        <3>3. CASE i = n
            BY <3>2, <3>3
        <3>4. CASE i # n
            BY <1>1, <2>1, <3>2, <3>4
        <3> QED
            BY <3>3, <3>4
    <2> HIDE DEF Rest
    <2>3. Goes(g, n)
        BY <2>2
    <2> QED
        BY <2>3
<1> HIDE DEF Goes
<1>4. \A n \in 0 .. N : \E f : Goes(f, n)
    <2> SUFFICES ASSUME T # {} PROVE FALSE
        OBVIOUS
    <2>1. T \subseteq Nat
        BY <1>1
    <2>2. PICK n \in T : \A m \in T : n <= m
        BY <2>1, LeastOfNat
    <2>3. n # 0
        BY <1>2
    <2>4. n - 1 \in 0 .. N /\ n - 1 \notin T /\ n \in 1 .. N
        BY <1>1, <2>2, <2>3
    <2>5. PICK f : Goes(f, n - 1)
        BY <2>4
    <2> QED
        BY <1>3, <2>2, <2>4, <2>5
<1>5. \E f : Goes(f, N)
    BY <1>1, <1>4
<1>6. InOrder(layer, options) = CHOOSE f : Goes(f, N)
    BY DEF InOrder, Goes, N
<1>7. Goes(InOrder(layer, options), N)
    BY <1>5, <1>6
<1> QED
    BY <1>1, <1>7 DEF Goes, N

\* What was asked for: the request of these options, unless one was refused.
LastSeq(options, n, j) ==
    options[j].name = "seq" /\ \A k \in 1 .. n : j < k => options[k].name # "seq"

AsAsked(layer, options, n, req) ==
    /\ req \in Requests
    /\ req.ok =>
        /\ ~(req.seq # 0 /\ req.time)
        /\ req.time <=> \E j \in 1 .. n : options[j].name = "time"
        /\ \A j \in 1 .. n : LastSeq(options, n, j) =>
              req.seq = options[j].value /\ (layer = "batch" => req.seq # 0)

\* One more option leaves the request as asked.
LEMMA ApplyAsAsked ==
    ASSUME NEW layer, NEW options \in Seq(Option), NEW n \in 1 .. Len(options),
           NEW req, AsAsked(layer, options, n - 1, req)
    PROVE  AsAsked(layer, options, n, Apply(layer, req, options[n]))
<1> DEFINE o == options[n]
           next == Apply(layer, req, o)
<1>0. /\ Len(options) \in Nat
      /\ \A j \in 1 .. Len(options) : /\ options[j] \in Option
                                      /\ options[j].name \in {"seq", "time", "size"}
                                      /\ options[j].value \in Nat
    <2>1. \A j \in 1 .. Len(options) : options[j] \in Option
        BY ElementOfSeq
    <2> QED
        BY <2>1, LenProperties DEF Option
<1>1. /\ req \in Requests /\ req.ok \in BOOLEAN /\ req.seq \in Nat /\ req.time \in BOOLEAN
    BY DEF AsAsked, Requests
<1>2. next \in Requests
    BY <1>0, <1>1 DEF Apply, Requests
<1>3. next.ok =>
        /\ req.ok /\ ~Refused(layer, req, o)
        /\ next.seq = IF o.name = "seq" THEN o.value ELSE req.seq
        /\ next.time <=> req.time \/ o.name = "time"
    BY <1>1 DEF Apply, Requests
<1> HIDE DEF next
<1>4. ASSUME next.ok
      PROVE  /\ ~(next.seq # 0 /\ next.time)
             /\ next.time <=> \E j \in 1 .. n : options[j].name = "time"
             /\ \A j \in 1 .. n : LastSeq(options, n, j) =>
                   next.seq = options[j].value /\ (layer = "batch" => next.seq # 0)
    <2>1. ~(next.seq # 0 /\ next.time)
        BY <1>3, <1>4 DEF AsAsked, Refused
    <2>2. 1 .. n = 1 .. n - 1 \cup {n} /\ n \in Nat /\ n - 1 \in Nat
        BY <1>0
    <2>3. next.time <=> \E j \in 1 .. n : options[j].name = "time"
        BY <1>3, <1>4, <2>2 DEF AsAsked
    <2>4. ASSUME NEW j \in 1 .. n, LastSeq(options, n, j)
          PROVE  next.seq = options[j].value /\ (layer = "batch" => next.seq # 0)
        <3>1. CASE j = n
            BY <1>3, <1>4, <2>4, <3>1 DEF LastSeq, Refused
        <3>2. CASE j # n
            <4>1. j \in 1 .. n - 1 /\ j < n
                BY <2>2, <3>2
            <4>2. o.name # "seq" /\ LastSeq(options, n - 1, j)
                BY <2>2, <2>4, <4>1 DEF LastSeq
            <4> QED
                BY <1>3, <1>4, <4>1, <4>2 DEF AsAsked
        <3> QED
            BY <3>1, <3>2
    <2> QED
        BY <2>1, <2>3, <2>4
<1> QED
    BY <1>2, <1>4 DEF AsAsked, next

\* All options together do what was asked.
LEMMA AppliedAsAsked ==
    ASSUME NEW layer, NEW options \in Seq(Option)
    PROVE  LET req == Applied(layer, options) IN
           /\ AsAsked(layer, options, Len(options), req)
           /\ layer = "batch" => req.seq # 0 \/ req.time
<1> DEFINE N == Len(options)
           upTo == InOrder(layer, options)
           T == {n \in 0 .. N : ~ AsAsked(layer, options, n, upTo[n])}
<1>1. N \in Nat
    BY LenProperties
<1>2. upTo[0] = NoOptions
    BY InOrderKnown
<1>3. \A i \in 1 .. N : upTo[i] = Apply(layer, upTo[i - 1], options[i])
    BY InOrderKnown
<1> HIDE DEF N, upTo
<1>4. AsAsked(layer, options, 0, upTo[0])
    <2>1. NoOptions \in Requests /\ NoOptions.seq = 0 /\ ~NoOptions.time
        BY DEF NoOptions, Requests
    <2>2. \A j \in 1 .. 0 : FALSE
        OBVIOUS
    <2> QED
        BY <1>2, <2>1, <2>2 DEF AsAsked
<1>5. \A n \in 0 .. N : AsAsked(layer, options, n, upTo[n])
    <2> SUFFICES ASSUME T # {} PROVE FALSE
        OBVIOUS
    <2>1. T \subseteq Nat
        BY <1>1
    <2>2. PICK n \in T : \A m \in T : n <= m
        BY <2>1, LeastOfNat
    <2>3. n # 0
        BY <1>4, <2>2
    <2>4. n - 1 \in 0 .. N /\ n - 1 \notin T /\ n \in 1 .. N
        BY <1>1, <2>2, <2>3
    <2>5. AsAsked(layer, options, n - 1, upTo[n - 1])
        BY <2>4
    <2> QED
        BY <1>3, <2>2, <2>4, <2>5, ApplyAsAsked DEF N
<1>6. AsAsked(layer, options, N, upTo[N])
    BY <1>1, <1>5
<1> DEFINE req == Applied(layer, options)
<1>7. req = IF layer = "batch" /\ upTo[N].seq = 0 /\ ~upTo[N].time
            THEN [upTo[N] EXCEPT !.seq = 1] ELSE upTo[N]
    BY DEF Applied, upTo, N
<1>8. CASE layer = "batch" /\ upTo[N].seq = 0 /\ ~upTo[N].time
    <2>1. upTo[N] \in Requests
        BY <1>6 DEF AsAsked
    <2>2. req \in Requests /\ req.ok = upTo[N].ok /\ req.seq = 1 /\ req.time = upTo[N].time
        BY <1>7, <1>8, <2>1 DEF Requests
    <2> HIDE DEF req
    <2>3. AsAsked(layer, options, N, req)
        BY <1>6, <1>8, <2>2 DEF AsAsked
    <2> QED
        BY <2>2, <2>3 DEF req, N
<1>9. CASE ~(layer = "batch" /\ upTo[N].seq = 0 /\ ~upTo[N].time)
    <2>1. req = upTo[N]
        BY <1>7, <1>9
    <2> HIDE DEF req
    <2>2. AsAsked(layer, options, N, req) /\ (layer = "batch" => req.seq # 0 \/ req.time)
        BY <1>6, <1>9, <2>1
    <2> QED
        BY <2>2 DEF req, N
<1> QED
    BY <1>8, <1>9
-----------------------------------------------------------------------------
(* What a step of a loop can do.                                           *)

\* It waits, ends, or panics, with nothing more for the caller;
Waits ==
    /\ pc' \in Waiting /\ (pc' = "stall" => call.stall)
    /\ read' = read /\ UNCHANGED <<yields, count, inbox>>

Ends == Leave("ended") /\ UNCHANGED <<yields, count>> /\ read' \in {read, read + 1}

Panic ==
    /\ Leave("panicked") /\ Stopped
    /\ UNCHANGED <<yields, count>> /\ read' \in {read, read + 1}

\* What is told counts, unless it is an error or the caller leaves.
Counts(y) ==
    \/ y.what = "error" /\ count' = count
    \/ /\ y.what # "error" /\ sub = "open"
       /\ count' = IF y.goes /\ count > 0 THEN count - 1 ELSE count
       /\ pc' = "next" => y.goes /\ count # 1

\* or tells a caller that has not left, and goes on unless that was the last.
Tells ==
    /\ ~Stopped
    /\ \E y \in Yields :
        /\ y.range = range /\ yields' = Append(yields, y) /\ Counts(y)
        /\ \/ Leave("ended") /\ read' \in {read, read + 1}
           \/ GoOn /\ read' = read + 1 /\ SkipsOnly(y)

LoopStep ==
    /\ pc \in Looping
    /\ Waits \/ Ends \/ Panic \/ Tells
    /\ first' \in BOOLEAN /\ read' <= Len(sent)
    /\ UNCHANGED <<call, request, range, sent>>

\* What is told is a yield of this loop.
LEMMA TellKnown ==
    ASSUME range \in Nat, NEW what \in Kinds \cup {"error"}, NEW goes \in BOOLEAN,
           Tell(what, goes)
    PROVE  \E y \in Yields : /\ y.range = range /\ y.what = what /\ y.goes = goes
                             /\ yields' = Append(yields, y)
<1> DEFINE y == [range |-> range, what |-> what, goes |-> goes]
<1>1. y \in Yields /\ y.range = range /\ y.what = what /\ y.goes = goes
    BY DEF Yields
<1>2. yields' = Append(yields, y)
    BY DEF Tell
<1> QED
    BY <1>1, <1>2

\* The error that ends a loop, which nobody hears who has left it.
LEMMA FailKnown ==
    ASSUME range \in Nat, Fail, count' = count, read' \in {read, read + 1}
    PROVE  Panic \/ Tells
<1>1. CASE Stopped
    BY <1>1 DEF Fail, Panic
<1>2. CASE ~Stopped
    <2>1. Leave("ended") /\ \E goes \in BOOLEAN : Tell("error", goes)
        BY <1>2 DEF Fail
    <2> QED
        BY <1>2, <2>1, TellKnown DEF Tells, Counts
<1> QED
    BY <1>1, <1>2

\* Every step of a loop does one of these.
LEMMA LoopKnown ==
    ASSUME Talks, Loop
    PROVE  LoopStep
<1>0. /\ range \in Nat /\ read \in Nat /\ Len(sent) \in Nat /\ read <= Len(sent)
      /\ sent \in Seq(Kinds) /\ first \in BOOLEAN
    BY LenProperties DEF Talks, Types
<1>1. CASE CallNext
    <2>1. /\ pc = "next" /\ first' = FALSE /\ read' = read
          /\ UNCHANGED <<call, request, count, range, sent>>
          /\ \/ Leave("ended") /\ UNCHANGED yields
             \/ Fail
             \/ /\ pc' = IF Stall THEN "stall" ELSE "context"
                /\ UNCHANGED <<inbox, yields>>
        BY <1>1 DEF CallNext
    <2>2. Waits \/ Ends \/ Panic \/ Tells
        BY <1>0, <2>1, FailKnown DEF Waits, Ends, Stall, Waiting
    <2> QED
        BY <1>0, <2>1, <2>2 DEF LoopStep, Looping
<1>2. CASE WaitEnds
    <2>1. /\ pc \in Waiting /\ read' = read
          /\ UNCHANGED <<call, request, count, first, range, sent>>
          /\ \/ Leave("ended") /\ UNCHANGED yields
             \/ Fail
        BY <1>2 DEF WaitEnds, Waiting
    <2>2. Ends \/ Panic \/ Tells
        BY <1>0, <2>1, FailKnown DEF Ends
    <2> QED
        BY <1>0, <2>1, <2>2 DEF LoopStep, Looping
<1>3. CASE Receive
    <2> DEFINE k == sent[read + 1]
    <2>1. /\ pc \in Waiting /\ sub = "open" /\ read < Len(sent) /\ read' = read + 1
          /\ UNCHANGED <<call, request, first, range, sent>>
          /\ \/ Leave("ended") /\ UNCHANGED <<yields, count>>
             \/ ReadError(k)
             \/ SkipEntry(k)
             \/ \E goes \in BOOLEAN : TakeEntry(k, goes)
        BY <1>3 DEF Receive
    <2>2. k \in Kinds
        BY <1>0, <2>1
    <2> HIDE DEF k
    <2>3. ASSUME ReadError(k) PROVE Panic \/ Tells
        BY <1>0, <2>1, <2>3, FailKnown DEF ReadError
    <2>4. ASSUME SkipEntry(k) PROVE Panic \/ Tells
        <3>1. CASE Stopped
            BY <2>1, <2>4, <3>1 DEF SkipEntry, Panic
        <3>2. CASE ~Stopped
            <4>1. /\ call.layer = "counters" /\ GoOn /\ count' = count
                  /\ \E goes \in BOOLEAN : Tell("error", goes)
                BY <2>4, <3>2 DEF SkipEntry, Unparsable
            <4> QED
                BY <1>0, <2>1, <3>2, <4>1, TellKnown DEF Tells, Counts, SkipsOnly
        <3> QED
            BY <3>1, <3>2
    <2>5. ASSUME NEW goes \in BOOLEAN, TakeEntry(k, goes)
          PROVE  Panic \/ Tells
        <3>1. CASE Stopped
            BY <2>1, <2>5, <3>1 DEF TakeEntry, Panic
        <3>2. CASE ~Stopped
            <4>1. /\ Tell(k, goes)
                  /\ count' = IF goes /\ count > 0 THEN count - 1 ELSE count
                  /\ Leave("ended") \/ (goes /\ count # 1 /\ GoOn)
                BY <2>5, <3>2 DEF TakeEntry
            <4>2. k # "error" /\ (Leave("ended") => pc' # "next")
                BY <2>2 DEF Kinds, Leave
            <4>3. PICK y \in Yields : /\ y.range = range /\ y.what = k /\ y.goes = goes
                                      /\ yields' = Append(yields, y)
                BY <1>0, <2>2, <4>1, TellKnown
            <4> QED
                BY <2>1, <3>2, <4>1, <4>2, <4>3 DEF Tells, Counts, SkipsOnly
        <3> QED
            BY <3>1, <3>2
    <2>6. Ends \/ Panic \/ Tells
        <3>1. CASE Leave("ended") /\ UNCHANGED <<yields, count>>
            BY <2>1, <3>1 DEF Ends
        <3> QED
            BY <2>1, <2>3, <2>4, <2>5, <3>1
    <2> QED
        BY <1>0, <2>1, <2>6 DEF LoopStep, Looping
<1> QED
    BY <1>1, <1>2, <1>3 DEF Loop

-----------------------------------------------------------------------------
(* The invariant.                                                          *)

\* Nothing is called yet.
LEMMA InitSound == Init => Talks
<1> SUFFICES ASSUME Init PROVE Talks
    OBVIOUS
<1>1. Types
    BY EmptySeq DEF Init, Types, Before
<1>2. Told /\ Going
    BY EmptySeq DEF Init, Told, Going, Looping, Waiting
<1> QED
    BY <1>1, <1>2 DEF Init, Talks, Fresh, Open, InStep, Panics, Before, Looping, Waiting

\* The subscription and the context, when a loop is left.
LEMMA LeaveKnown ==
    ASSUME Types, NEW p \in After, Leave(p)
    PROVE  /\ pc' = p /\ pc' \notin Looping /\ pc' \notin Before /\ watching' = watching
           /\ ctx' \in {"open", "live", "expired", "canceled"}
           /\ sub' \in {"none", "open", "closed", "lost"}
BY DEF Types, After, Before, Looping, Waiting, Leave

\* A loop goes on, and its caller is told one thing more or nothing.
LEMMA LoopSound ==
    ASSUME Talks, LoopStep
    PROVE  Talks'
<1>0. /\ pc \in Looping /\ pc \notin Before /\ range # 0 /\ range \in Nat
      /\ UNCHANGED <<call, range, sent>> /\ first' \in BOOLEAN
      /\ read \in Nat /\ read' <= Len(sent) /\ Len(sent) \in Nat
      /\ yields \in Seq(Yields) /\ Len(yields) \in Nat
    BY LenProperties DEF LoopStep, Talks, Types, Fresh, Before, Looping, Waiting
<1>1. CASE Waits
    <2>1. pc' \in Looping /\ pc' \notin Before /\ pc' # "panicked"
        BY <1>1 DEF Waits, Looping, Waiting, Before
    <2>2. Types' /\ Fresh' /\ Open' /\ InStep'
        BY <1>0, <1>1, <2>1 DEF Waits, inbox, Talks, Types, Fresh, Open, InStep
    <2>3. Told' /\ Going' /\ Panics'
        BY <1>0, <1>1, <2>1 DEF Waits, inbox, Talks, Told, Going, SkipsOnly, Panics
    <2> QED
        BY <2>2, <2>3 DEF Talks
<1>2. CASE Ends \/ Panic
    <2>1. /\ pc' \in After /\ Leave(pc') /\ yields' = yields
          /\ read' \in {read, read + 1}
          /\ pc' = "panicked" => Stopped
        BY <1>2 DEF Ends, Panic, Leave, After
    <2>2. /\ pc' \notin Looping /\ pc' \notin Before /\ watching' = watching
          /\ ctx' \in {"open", "live", "expired", "canceled"}
          /\ sub' \in {"none", "open", "closed", "lost"}
        BY <2>1, LeaveKnown DEF Talks
    <2>3. Types'
        BY <1>0, <2>1, <2>2 DEF Talks, Types
    <2>4. Fresh' /\ Open' /\ InStep' /\ Going'
        BY <1>0, <2>1, <2>2 DEF Fresh, Open, InStep, Going, Looping, Waiting
    <2>5. Told'
        BY <1>0, <2>1 DEF Talks, Told
    <2>6. Panics'
        <3> SUFFICES ASSUME pc' = "panicked" PROVE Panics'
            BY DEF Panics
        <3>1. yields # <<>> /\ Last(yields).range = range /\ ~Last(yields).goes
            BY <2>1 DEF Stopped
        <3>2. Len(yields) \in 1 .. Len(yields)
            BY <1>0, <3>1, EmptySeq
        <3>3. SkipsOnly(Last(yields))
            BY <1>0, <3>1, <3>2 DEF Talks, Going, Last
        <3> QED
            BY <1>0, <2>1, <3>1, <3>3 DEF SkipsOnly, Panics, Last
    <2> QED
        BY <2>3, <2>4, <2>5, <2>6 DEF Talks
<1>3. CASE Tells
    <2>1. PICK y \in Yields :
              /\ y.range = range /\ yields' = Append(yields, y)
              /\ \/ Leave("ended") /\ read' \in {read, read + 1}
                 \/ GoOn /\ read' = read + 1 /\ SkipsOnly(y)
        BY <1>3 DEF Tells
    <2>2. /\ yields' \in Seq(Yields) /\ Len(yields') = Len(yields) + 1
          /\ yields'[Len(yields) + 1] = y
          /\ \A i \in 1 .. Len(yields) : yields'[i] = yields[i]
          /\ \A i \in 1 .. Len(yields') : i \in 1 .. Len(yields) \/ i = Len(yields) + 1
        BY <1>0, <2>1, AppendProperties
    <2>3. /\ pc' \in {"ended", "next"} /\ pc' \notin Before
          /\ watching' = watching
          /\ ctx' \in {"open", "live", "expired", "canceled"}
          /\ sub' \in {"none", "open", "closed", "lost"}
          /\ read' \in {read, read + 1}
          /\ pc' = "next" => /\ SkipsOnly(y) /\ read' = read + 1
                             /\ UNCHANGED <<sub, ctx>>
        <3>1. CASE Leave("ended") /\ read' \in {read, read + 1}
            <4>1. pc' = "ended"
                BY <3>1 DEF Leave
            <4> QED
                BY <3>1, <4>1, LeaveKnown DEF Talks, After
        <3>2. CASE GoOn /\ read' = read + 1 /\ SkipsOnly(y)
            BY <3>2 DEF GoOn, inbox, Before, Talks, Types
        <3> QED
            BY <2>1, <3>1, <3>2
    <2>4. Types'
        BY <1>0, <2>2, <2>3 DEF Talks, Types, Looping, After
    <2>5. Fresh' /\ Open' /\ Panics'
        BY <1>0, <2>3 DEF Talks, Fresh, Open, Panics, Looping, Waiting
    <2>6. InStep'
        BY <1>0, <2>2, <2>3 DEF Talks, InStep, Looping, Waiting
    <2>7. Going'
        <3> SUFFICES ASSUME pc' \in Looping, NEW i \in 1 .. Len(yields'),
                            yields'[i].range = range
                     PROVE  SkipsOnly(yields'[i])
            BY <1>0 DEF Going, SkipsOnly
        <3>1. pc' = "next"
            BY <2>3 DEF Looping, Waiting
        <3>2. CASE i \in 1 .. Len(yields)
            <4>1. SkipsOnly(yields[i])
                BY <1>0, <2>2, <3>2 DEF Talks, Going
            <4> QED
                BY <1>0, <2>2, <3>2, <4>1 DEF SkipsOnly
        <3>3. CASE i = Len(yields) + 1
            BY <1>0, <2>2, <2>3, <3>1, <3>3 DEF SkipsOnly
        <3> QED
            BY <2>2, <3>2, <3>3
    <2>8. Told'
        <3>1. ASSUME NEW i \in 1 .. Len(yields')
              PROVE  yields'[i].range \in 1 .. range'
            BY <1>0, <2>1, <2>2, <3>1 DEF Talks, Told
        <3>2. ASSUME NEW i \in 1 .. Len(yields'), NEW j \in 1 .. Len(yields'), i < j
              PROVE  /\ yields'[i].range <= yields'[j].range
                     /\ yields'[i].range = yields'[j].range =>
                           /\ yields'[i].goes
                           /\ yields'[i].what = "error" => call.layer = "counters"
            <4>1. i \in 1 .. Len(yields)
                BY <1>0, <2>2, <3>2
            <4>2. CASE j \in 1 .. Len(yields)
                BY <2>2, <3>2, <4>1, <4>2 DEF Talks, Told
            <4>3. CASE j = Len(yields) + 1
                <5>1. yields[i].range \in 1 .. range /\ yields'[j].range = range
                    BY <2>1, <2>2, <4>1, <4>3 DEF Talks, Told
                <5>2. ASSUME yields[i].range = range
                      PROVE  /\ yields[i].goes
                             /\ yields[i].what = "error" => call.layer = "counters"
                    <6>1. SkipsOnly(yields[i])
                        BY <1>0, <4>1, <5>2 DEF Talks, Going
                    <6>2. Last(yields).range = range /\ Len(yields) \in 1 .. Len(yields)
                        <7>1. Len(yields) \in 1 .. Len(yields)
                            BY <1>0, <4>1
                        <7>2. yields[Len(yields)].range \in 1 .. range
                            BY <7>1 DEF Talks, Told
                        <7>3. CASE i = Len(yields)
                            BY <5>2, <7>1, <7>3 DEF Last
                        <7>4. CASE i < Len(yields)
                            <8>1. yields[i].range <= yields[Len(yields)].range
                                BY <4>1, <7>1, <7>4 DEF Talks, Told
                            <8> QED
                                BY <1>0, <5>2, <7>1, <7>2, <8>1 DEF Last
                        <7> QED
                            BY <1>0, <4>1, <7>3, <7>4
                    <6>3. Last(yields).goes
                        BY <1>0, <1>3, <6>2, EmptySeq DEF Tells, Stopped
                    <6>4. yields[i].goes
                        <7>1. CASE i = Len(yields)
                            BY <6>3, <7>1 DEF Last
                        <7>2. CASE i < Len(yields)
                            BY <4>1, <5>2, <6>2, <7>2 DEF Talks, Told, Last
                        <7> QED
                            BY <1>0, <4>1, <7>1, <7>2
                    <6> QED
                        BY <6>1, <6>4 DEF SkipsOnly
                <5> QED
                    BY <1>0, <2>2, <4>1, <5>1, <5>2
            <4> QED
                BY <2>2, <4>2, <4>3
        <3> QED
            BY <1>0, <3>1, <3>2 DEF Told
    <2> QED
        BY <2>4, <2>5, <2>6, <2>7, <2>8 DEF Talks
<1> QED
    BY <1>1, <1>2, <1>3 DEF LoopStep

\* The call, its loops, and the goroutines that watch their contexts.
LEMMA OtherSound ==
    ASSUME Talks,
           \/ CallFails \/ PublishFails \/ Request \/ StartLoop
           \/ Watcher \/ (\E k \in Kinds : Answer(k))
           \/ Expire \/ Cancel \/ Disconnect
    PROVE  Talks'
<1>0. /\ range \in Nat /\ read \in Nat /\ Len(sent) \in Nat /\ read <= Len(sent)
      /\ sent \in Seq(Kinds) /\ yields \in Seq(Yields)
      /\ ctx \in {"open", "live", "expired", "canceled"}
    BY LenProperties DEF Talks, Types
<1>1. CASE CallFails \/ PublishFails \/ Request
    <2>1. /\ pc = "called" /\ pc' \in {"failed", "ready"}
          /\ ctx' \in {"open", "live", "expired", "canceled"} /\ sub' \in {sub, "open"}
          /\ UNCHANGED <<call, watching, first, range, sent, read, yields>>
        BY <1>0, <1>1 DEF CallFails, PublishFails, Request, inbox
    <2>2. Types' /\ Fresh'
        BY <1>0, <2>1 DEF Talks, Types, Fresh, Before
    <2>3. Open' /\ InStep' /\ Told' /\ Going' /\ Panics'
        BY <2>1 DEF Talks, Open, InStep, Told, Going, Panics, Looping, Waiting
    <2> QED
        BY <2>2, <2>3 DEF Talks
<1>2. CASE StartLoop
    <2>1. /\ pc \in {"ready", "ended"} /\ pc' = "next" /\ first' = TRUE
          /\ range' = range + 1 /\ watching' = watching \cup {range + 1}
          /\ UNCHANGED <<call, ctx, sub, sent, read, yields>>
        BY <1>2 DEF StartLoop
    <2>2. Types' /\ Fresh'
        BY <1>0, <2>1 DEF Talks, Types, Fresh, Before, Looping
    <2>3. Open' /\ InStep'
        BY <1>0, <2>1, EmptySeq DEF Talks, Fresh, Open, InStep, Looping
    <2>4. Told'
        BY <1>0, <2>1 DEF Talks, Told
    <2>5. Going' /\ Panics'
        BY <1>0, <2>1 DEF Talks, Told, Going, Panics
    <2> QED
        BY <2>2, <2>3, <2>4, <2>5 DEF Talks
<1>3. CASE Watcher
    <2>1. /\ watching' \subseteq watching
          /\ \/ sub' = sub
             \/ ctx \in {"expired", "canceled"} /\ sub' = "closed" /\ watching # {}
          /\ UNCHANGED <<call, pc, ctx, first, range, sent, read, yields>>
        <3>1. PICK r \in 1 .. MaxRanges : Watch(r)
            BY <1>3 DEF Watcher
        <3> QED
            BY <3>1 DEF Watch
    <2>2. Types' /\ Fresh'
        <3>1. watching \subseteq 1 .. range
            BY DEF Talks, Types
        <3>2. watching # {} => range # 0
            <4>1. range = 0 => 1 .. range = {}
                BY <1>0
            <4> QED
                BY <3>1, <4>1
        <3>3. watching' \subseteq 1 .. range /\ sub' \in {sub, "closed"}
            BY <2>1, <3>1
        <3>4. Types'
            BY <2>1, <3>3 DEF Talks, Types
        <3> QED
            BY <2>1, <3>2, <3>4 DEF Talks, Fresh
    <2>3. Open' /\ InStep' /\ Told' /\ Going' /\ Panics'
        BY <2>1 DEF Talks, Open, InStep, Told, Going, SkipsOnly, Panics
    <2> QED
        BY <2>2, <2>3 DEF Talks
<1>4. ASSUME NEW k \in Kinds, Answer(k)
      PROVE  Talks'
    <2>1. /\ sent' \in {sent, Append(sent, k)}
          /\ UNCHANGED <<call, pc, ctx, sub, watching, first, range, read, yields>>
        BY <1>4 DEF Answer, inbox
    <2>2. sent' \in Seq(Kinds) /\ Len(sent) <= Len(sent') /\ Len(sent') \in Nat
        BY <1>0, <2>1, AppendProperties
    <2>3. Types'
        BY <1>0, <2>1, <2>2 DEF Talks, Types
    <2>4. Fresh' /\ Open' /\ InStep' /\ Told' /\ Going' /\ Panics'
        BY <2>1 DEF Talks, Fresh, Open, InStep, Told, Going, SkipsOnly, Panics
    <2> QED
        BY <2>3, <2>4 DEF Talks
<1>5. CASE Expire \/ Cancel \/ Disconnect
    <2>1. /\ ctx' \in {ctx, "expired", "canceled"}
          /\ ctx \in {"expired", "canceled"} => ctx' = ctx
          /\ sub' \in {sub, "lost"}
          /\ UNCHANGED <<call, pc, watching, first, range, sent, read, yields>>
        BY <1>5 DEF Expire, Cancel, Disconnect
    <2>2. Types' /\ Fresh' /\ Open'
        BY <1>0, <2>1 DEF Talks, Types, Fresh, Open
    <2>3. InStep' /\ Told' /\ Going' /\ Panics'
        BY <2>1 DEF Talks, InStep, Told, Going, SkipsOnly, Panics
    <2> QED
        BY <2>2, <2>3 DEF Talks
<1> QED
    BY <1>1, <1>2, <1>3, <1>4, <1>5

\* Every step keeps the invariant.
LEMMA StepSound == Talks /\ [Next]_vars => Talks'
<1> SUFFICES ASSUME Talks, [Next]_vars PROVE Talks'
    OBVIOUS
<1>1. CASE UNCHANGED vars
    BY <1>1 DEF vars, Talks, Types, Fresh, Open, InStep, Told, Going, SkipsOnly, Panics
<1>2. CASE Loop
    BY <1>2, LoopKnown, LoopSound
<1> QED
    BY <1>1, <1>2, OtherSound DEF Next

-----------------------------------------------------------------------------
(* The request and the count.                                              *)

\* One more yield is one more message, unless it is an error.
LEMMA GivenMore ==
    ASSUME NEW s \in Seq(Yields), NEW y \in Yields
    PROVE  /\ Cardinality(GivenIn(s)) \in Nat
           /\ Cardinality(GivenIn(Append(s, y))) =
                 Cardinality(GivenIn(s)) + IF y.what = "error" THEN 0 ELSE 1
<1>1. Len(s) \in Nat /\ Len(s) + 1 \notin GivenIn(s)
    BY LenProperties DEF GivenIn
<1>2. IsFiniteSet(GivenIn(s)) /\ Cardinality(GivenIn(s)) \in Nat
    <2>1. IsFiniteSet(1 .. Len(s)) /\ GivenIn(s) \in SUBSET (1 .. Len(s))
        BY <1>1, FS_Interval DEF GivenIn
    <2> QED
        BY <2>1, FS_Subset, FS_CardinalityType
<1>3. /\ Len(Append(s, y)) = Len(s) + 1 /\ Append(s, y)[Len(s) + 1] = y
      /\ \A i \in 1 .. Len(s) : Append(s, y)[i] = s[i]
    BY AppendProperties
<1>4. GivenIn(Append(s, y)) =
        IF y.what = "error" THEN GivenIn(s) ELSE GivenIn(s) \cup {Len(s) + 1}
    <2>1. 1 .. Len(s) + 1 = 1 .. Len(s) \cup {Len(s) + 1}
        BY <1>1
    <2>2. GivenIn(Append(s, y)) =
            {i \in 1 .. Len(s) \cup {Len(s) + 1} : Append(s, y)[i].what # "error"}
        BY <1>3, <2>1 DEF GivenIn
    <2> QED
        BY <1>3, <2>2 DEF GivenIn
<1>5. Cardinality(GivenIn(s) \cup {Len(s) + 1}) = Cardinality(GivenIn(s)) + 1
    BY <1>1, <1>2, FS_AddElement
<1> QED
    BY <1>2, <1>4, <1>5

\* The calls' options and counts.
LEMMA CallKnown ==
    ASSUME call \in Calls
    PROVE  /\ call.options \in Seq(Option) /\ call.max \in Int /\ call.max >= -1
           /\ AsAsked(call.layer, call.options, Len(call.options),
                      Applied(call.layer, call.options))
BY AppliedAsAsked, RequestManyAssumption DEF Option

LEMMA InitCounted == Init => Bounds /\ Asks /\ Counted
<1> SUFFICES ASSUME Init PROVE Bounds /\ Asks /\ Counted
    OBVIOUS
<1>1. Bounds /\ Asks
    BY RequestManyAssumption, EmptySeq
       DEF Init, Bounds, Asks, Requests, NoOptions, After
<1>2. GivenIn(<<>>) = {}
    BY EmptySeq DEF GivenIn
<1>3. Cardinality(GivenIn(yields)) = 0
    BY <1>2, FS_EmptySet DEF Init
<1>4. Counted
    BY <1>3, CallKnown DEF Init, Counted
<1> QED
    BY <1>1, <1>4

LEMMA LoopCounted ==
    ASSUME IInv, LoopStep
    PROVE  (Bounds /\ Asks /\ Counted)'
<1>0. /\ pc \in Looping /\ pc \notin {"called", "failed"} /\ yields \in Seq(Yields)
      /\ UNCHANGED <<call, request, range, sent>>
      /\ call.max \in Int /\ count \in Int
    <2>1. call.max \in Int
        BY CallKnown DEF IInv, Talks, Types
    <2> QED
        BY <2>1 DEF LoopStep, IInv, Talks, Types, Counted, Looping, Waiting
<1>1. ASSUME NEW p \in After, Leave(p)
      PROVE  pc' = p /\ sub' # "open" /\ pc' # "called"
    BY <1>1 DEF Leave, After
<1>2. Asks' /\ Bounds'
    <2>1. /\ pc' # "called"
          /\ pc' \in After => sub' # "open"
        BY <1>1 DEF LoopStep, Waits, Ends, Panic, Tells, GoOn, Waiting, After
    <2>2. Asks'
        BY <1>0, <2>1 DEF IInv, Asks
    <2>3. Bounds'
        BY <1>0, <2>1 DEF IInv, Bounds
    <2> QED
        BY <2>2, <2>3
<1>3. CASE Waits \/ Ends \/ Panic
    <2>1. /\ UNCHANGED <<yields, count>>
          /\ sub' = "open" => sub = "open"
        BY <1>1, <1>3 DEF Waits, Ends, Panic, inbox, After
    <2>2. Counted'
        BY <1>0, <2>1 DEF IInv, Counted
    <2> QED
        BY <1>2, <2>2
<1>4. CASE Tells
    <2> DEFINE n == Cardinality(GivenIn(yields))
    <2>1. PICK y \in Yields :
              /\ yields' = Append(yields, y) /\ Counts(y)
              /\ Leave("ended") \/ GoOn
        BY <1>4 DEF Tells
    <2>2. n \in Nat /\ Cardinality(GivenIn(yields')) = n + IF y.what = "error" THEN 0 ELSE 1
        BY <1>0, <2>1, GivenMore
    <2>3. sub' = "open" => sub = "open" /\ pc' = "next"
        BY <1>1, <2>1 DEF GoOn, inbox, After
    <2>4. /\ count = -1 \/ (call.max > 0 /\ count \in 0 .. call.max)
          /\ call.max > 0 => /\ n <= call.max
                             /\ sub = "open" => count >= 1 /\ n + count = call.max
        BY <1>0 DEF IInv, Counted
    <2> DEFINE m == Cardinality(GivenIn(yields'))
    <2>5. m \in Nat /\ m = n + IF y.what = "error" THEN 0 ELSE 1
        BY <2>2
    <2> HIDE DEF n, m
    <2>6. /\ count' = -1 \/ (call.max > 0 /\ count' \in 0 .. call.max)
          /\ call.max > 0 => /\ m <= call.max
                             /\ sub' = "open" => count' >= 1 /\ m + count' = call.max
        <3>1. CASE y.what = "error"
            <4>1. count' = count /\ m = n
                BY <2>1, <2>2, <2>5, <3>1 DEF Counts
            <4> QED
                BY <2>3, <2>4, <4>1
        <3>2. CASE y.what # "error"
            <4>1. /\ m = n + 1 /\ sub = "open"
                  /\ count' = IF y.goes /\ count > 0 THEN count - 1 ELSE count
                  /\ sub' = "open" => y.goes /\ count # 1
                BY <2>1, <2>3, <2>5, <3>2 DEF Counts
            <4> QED
                BY <1>0, <2>2, <2>4, <4>1
        <3> QED
            BY <3>1, <3>2
    <2>7. Counted'
        BY <1>0, <2>6 DEF Counted, m
    <2> QED
        BY <1>2, <2>7
<1> QED
    BY <1>3, <1>4 DEF LoopStep

LEMMA OtherCounted ==
    ASSUME IInv,
           \/ CallFails \/ PublishFails \/ Request \/ StartLoop
           \/ Watcher \/ (\E k \in Kinds : Answer(k))
           \/ Expire \/ Cancel \/ Disconnect
    PROVE  (Bounds /\ Asks /\ Counted)'
<1> DEFINE n == Cardinality(GivenIn(yields))
           applied == Applied(call.layer, call.options)
<1>0. /\ call.max \in Int /\ call.max >= -1 /\ applied \in Requests
      /\ yields \in Seq(Yields) /\ sent \in Seq(Kinds) /\ range \in Nat
    BY CallKnown DEF IInv, Talks, Types, AsAsked
<1>1. CASE CallFails \/ PublishFails \/ Request
    <2>1. pc = "called" /\ yields = <<>> /\ UNCHANGED <<call, range, sent, yields>>
        BY <1>1 DEF CallFails, PublishFails, Request, IInv, Talks, Fresh, Before
    <2>2. /\ pc' \in {"failed", "ready"} /\ request' \in Requests
          /\ count' = count \/ (count' = call.max /\ call.max # 0)
          /\ pc' = "ready" => /\ request' = applied /\ applied.ok
                              /\ count' = call.max /\ call.max # 0
        <3>1. [NoOptions EXCEPT !.ok = FALSE] \in Requests
            BY DEF NoOptions, Requests
        <3> HIDE DEF applied
        <3>2. CASE CallFails
            BY <3>1, <3>2 DEF CallFails
        <3>3. CASE PublishFails
            BY <1>0, <3>3 DEF PublishFails, applied
        <3>4. CASE Request
            BY <1>0, <3>4 DEF Request, Accepts, applied
        <3> QED
            BY <1>1, <3>2, <3>3, <3>4
    <2>3. Bounds' /\ Asks'
        BY <2>1, <2>2 DEF IInv, Bounds, Asks, After
    <2>4. n = 0
        <3>1. GivenIn(<<>>) = {}
            BY EmptySeq DEF GivenIn
        <3> QED
            BY <2>1, <3>1, FS_EmptySet
    <2>5. n = 0 /\ Cardinality(GivenIn(yields')) = 0
        BY <2>1, <2>4
    <2> HIDE DEF n
    <2>6. Counted'
        BY <1>0, <2>1, <2>2, <2>5 DEF IInv, Counted
    <2> QED
        BY <2>3, <2>6
<1>2. CASE StartLoop
    <2>1. /\ pc \in {"ready", "ended"} /\ pc' = "next" /\ range' = range + 1
          /\ UNCHANGED <<call, request, count, sub, sent, yields>>
          /\ pc = "ended" => range < MaxRanges
        BY <1>2 DEF StartLoop
    <2>2. range' <= MaxRanges
        <3>1. pc = "ready" => range = 0
            BY DEF IInv, Talks, Fresh, Before
        <3> QED
            BY <1>0, <2>1, <3>1, RequestManyAssumption
    <2>3. Bounds' /\ Asks'
        BY <2>1, <2>2 DEF IInv, Bounds, Asks, After
    <2>4. Counted'
        BY <2>1 DEF IInv, Counted
    <2> QED
        BY <2>3, <2>4
<1>3. CASE Watcher \/ Expire \/ Cancel \/ Disconnect
    <2>1. /\ UNCHANGED <<call, request, pc, count, range, sent, yields>>
          /\ sub' = "open" => sub = "open"
        BY <1>3 DEF Watcher, Watch, Expire, Cancel, Disconnect
    <2>2. Bounds' /\ Asks'
        BY <2>1 DEF IInv, Bounds, Asks
    <2>3. Counted'
        BY <2>1 DEF IInv, Counted
    <2> QED
        BY <2>2, <2>3
<1>4. ASSUME NEW k \in Kinds, Answer(k)
      PROVE  (Bounds /\ Asks /\ Counted)'
    <2>1. /\ UNCHANGED <<call, request, pc, count, sub, range, yields>>
          /\ Len(sent) < MaxAnswers /\ sent' \in {sent, Append(sent, k)}
        BY <1>4 DEF Answer, inbox
    <2>2. Len(sent) \in Nat /\ Len(sent') <= Len(sent) + 1
        BY <1>0, <2>1, AppendProperties, LenProperties
    <2>3. Len(sent') <= MaxAnswers
        <3>1. Len(sent') \in Nat
            BY <1>0, <2>1, AppendProperties, LenProperties
        <3> QED
            BY <2>1, <2>2, <3>1, RequestManyAssumption
    <2>4. Bounds' /\ Asks'
        BY <2>1, <2>3 DEF IInv, Bounds, Asks
    <2>5. Counted'
        BY <2>1 DEF IInv, Counted
    <2> QED
        BY <2>4, <2>5
<1> QED
    BY <1>1, <1>2, <1>3, <1>4

\* Every step keeps the request, the count and the bounds.
LEMMA StepCounted == IInv /\ [Next]_vars => IInv'
<1> SUFFICES ASSUME IInv, [Next]_vars PROVE (Bounds /\ Asks /\ Counted)'
    BY StepSound DEF IInv
<1>1. CASE UNCHANGED vars
    BY <1>1 DEF vars, IInv, Bounds, Asks, Counted
<1>2. CASE Loop
    BY <1>2, LoopKnown, LoopCounted DEF IInv
<1> QED
    BY <1>1, <1>2, OtherCounted DEF Next

-----------------------------------------------------------------------------
(* The theorems.                                                           *)

\* In every behaviour, for any calls and bounds: what a caller is told, loop
\* after loop, and how its first loop keeps pace with the answers.
THEOREM RequestInvariant == Spec => []IInv
<1>1. Init => IInv
    BY InitSound, InitCounted DEF IInv
<1> QED
    BY <1>1, StepCounted, PTL DEF Spec

\* TypeOK: the variables' types, the bounds, and that a loop which is over has
\* left no subscription (the deferred function of requestMany).
THEOREM RequestTypeCorrect == Spec => []TypeOK
<1>1. IInv => TypeOK
    <2> SUFFICES ASSUME IInv PROVE TypeOK
        OBVIOUS
    <2>1. call.max \in Int /\ Len(sent) \in Nat /\ DOMAIN yields = 1 .. Len(yields)
        BY CallKnown, LenProperties DEF IInv, Talks, Types
    <2>2. count \in -1 .. call.max \cup {-1}
        BY <2>1 DEF IInv, Counted
    <2>3. \A y \in ToSet(yields) :
              y.range \in 1 .. range /\ y.what \in Kinds \cup {"error"} /\ y.goes \in BOOLEAN
        <3>1. \A i \in 1 .. Len(yields) : yields[i] \in Yields
            BY ElementOfSeq DEF IInv, Talks, Types
        <3> QED
            BY <2>1, <3>1 DEF ToSet, Yields, IInv, Talks, Told
    <2>4. range \in 0 .. MaxRanges /\ read \in 0 .. Len(sent)
        BY <2>1, RequestManyAssumption DEF IInv, Talks, Types, Bounds
    <2> QED
        BY <2>2, <2>3, <2>4
           DEF IInv, Talks, Types, Bounds, Asks, Requests, Before, After, TypeOK
<1> QED
    BY <1>1, RequestInvariant, PTL

\* All loops over one request together give no more messages than it asked for.
THEOREM CountIsKept == Spec => []AtMostCount
<1>1. IInv => AtMostCount
    <2> SUFFICES ASSUME IInv PROVE AtMostCount
        OBVIOUS
    <2>1. DOMAIN yields = 1 .. Len(yields)
        BY LenProperties DEF IInv, Talks, Types
    <2> QED
        BY <2>1 DEF IInv, Counted, GivenIn, AtMostCount
<1> QED
    BY <1>1, RequestInvariant, PTL

\* A direct get asks for the start, or the end, that its options name last.
THEOREM AsksAsTold == Spec => []StartsWhereAsked
<1>1. IInv => StartsWhereAsked
    <2> SUFFICES ASSUME IInv, pc \notin {"called", "failed"}
                 PROVE  StartsWhereAsked
        BY DEF StartsWhereAsked
    <2> DEFINE N == Len(call.options)
    <2>1. /\ AsAsked(call.layer, call.options, N, request) /\ request.ok
          /\ call.layer = "batch" => request.seq # 0 \/ request.time
          /\ DOMAIN call.options = 1 .. N
        BY CallKnown, AppliedAsAsked, LenProperties DEF IInv, Talks, Types, Asks
    <2> HIDE DEF N
    <2> QED
        BY <2>1 DEF AsAsked, LastSeq, StartsWhereAsked
<1> QED
    BY <1>1, RequestInvariant, PTL

\* A caller is given nothing after it left a loop and nothing after an error,
\* unless GetMultiple skips a counter, which also is all that can panic.
THEOREM NothingFollowsStop == Spec => []NothingAfterStop
<1>1. Talks => NothingAfterStop
    <2> SUFFICES ASSUME Talks PROVE NothingAfterStop
        OBVIOUS
    <2>1. DOMAIN yields = 1 .. Len(yields)
        BY LenProperties DEF Talks, Types
    <2> QED
        BY <2>1 DEF Talks, Told, Panics, NothingAfterStop
<1> QED
    BY <1>1, RequestInvariant, PTL DEF IInv

\* Outside a loop's own steps no loop ends; one of a direct get that ends
\* without a word, its context still live, was told so by the server.
LEMMA EndKnown ==
    ASSUME Talks, [Next]_vars, call.layer \in Direct, range = 1, ctx = "live",
           pc \in Looping, pc' = "ended", yields' = yields
    PROVE  sent[read'] = "end" /\ Len(yields') = read' - 1
<1>0. /\ ~call.stall /\ ~call.sentinel
      /\ sub # "closed" /\ Len(yields) = read
      /\ pc # "stall"
      /\ read \in Nat /\ yields \in Seq(Yields)
    BY RequestManyAssumption DEF Talks, Types, Open, InStep
<1>1. ~\E what, goes : Tell(what, goes)
    <2> SUFFICES ASSUME NEW what, NEW goes, Tell(what, goes) PROVE FALSE
        OBVIOUS
    <2> DEFINE y == [range |-> range, what |-> what, goes |-> goes]
    <2>1. Append(yields, y) = yields
        BY DEF Tell
    <2>2. Len(Append(yields, y)) = Len(yields) + 1 /\ Len(yields) \in Nat
        BY <1>0
    <2> QED
        BY <2>1, <2>2
<1>2. ~Fail
    BY <1>1 DEF Fail, Leave
<1>3. CASE Loop
    <2>1. ~CallNext
        BY <1>0, <1>2 DEF CallNext, Stall
    <2>2. ~WaitEnds
        BY <1>0, <1>2 DEF WaitEnds
    <2>3. Receive
        BY <1>3, <2>1, <2>2 DEF Loop
    <2> DEFINE k == sent[read + 1]
    <2>4. Sentinel(k) /\ read' = read + 1
        <3>1. ~ReadError(k)
            BY <1>2 DEF ReadError
        <3>2. ~SkipEntry(k)
            BY <1>1 DEF SkipEntry, Leave
        <3>3. \A goes \in BOOLEAN : ~TakeEntry(k, goes)
            BY <1>1 DEF TakeEntry, Leave
        <3> QED
            BY <2>3, <3>1, <3>2, <3>3 DEF Receive
    <2>5. k = "end"
        BY <1>0, <2>4 DEF Sentinel
    <2> QED
        BY <1>0, <2>4, <2>5
<1>4. CASE ~Loop
    <2>1. pc # "called" /\ pc # "ready" /\ pc # "ended"
        BY DEF Looping, Waiting
    <2>2. pc' = pc
        BY <1>4, <2>1 DEF Next, vars, CallFails, PublishFails, Request, StartLoop,
                          Watcher, Watch, Answer, Expire, Cancel, Disconnect
    <2> QED
        BY <2>1, <2>2
<1> QED
    BY <1>3, <1>4

\* A batch that ends without a word before its context is done is whole, however
\* the answers and the connection fare.
THEOREM SilentEndIsWhole == Spec => EndsAtEnd
<1>1. IInv /\ [Next]_vars =>
        [ /\ call.layer \in Direct /\ range = 1 /\ ctx = "live"
          /\ pc \in Looping /\ pc' = "ended" /\ yields' = yields
          => sent[read'] = "end" /\ Len(yields') = read' - 1 ]_vars
    BY EndKnown DEF IInv
<1> QED
    BY <1>1, RequestInvariant, PTL DEF Spec, EndsAtEnd
=============================================================================
