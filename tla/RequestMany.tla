---------------------------- MODULE RequestMany -----------------------------
(***************************************************************************)
(* One request with many answers, and what is built on it:                 *)
(*   "many"      natsext.RequestMany and RequestManyMsg                    *)
(*   "batch"     jetstreamext.GetBatch                                     *)
(*   "last"      jetstreamext.GetLastMsgsFor                               *)
(*   "counters"  Counter.GetMultiple, which ranges over GetLastMsgsFor     *)
(*   "ping"      System.pingServers                                        *)
(* The first four return an iterator, which the caller may range over more *)
(* than once; a goroutine per range watches the context.                   *)
(*                                                                         *)
(* An answer is a member of Kinds: "data"; "empty", a message without a    *)
(* payload; "odd", a payload that does not parse; "end", the 204 that ends *)
(* a batch; "none", a 404; "bad", a message without the headers of a       *)
(* stream message; "nobody", the 503 that there are no responders.         *)
(***************************************************************************)
EXTENDS Integers, Sequences, FiniteSets, SequencesExt

CONSTANTS
    Calls,      \* what may be called: records with the fields of Init
    MaxAnswers, \* bound on the answers to the request
    MaxRanges   \* bound on the loops over one iterator

Kinds == {"data", "empty", "odd", "end", "none", "bad", "nobody"}
Direct == {"batch", "last", "counters"}

\* A direct get asks RequestMany for its own sentinel, and for nothing else.
ASSUME RequestManyAssumption ==
    /\ \A c \in Calls :
          /\ c.layer \in Direct \cup {"many", "ping"}
          /\ c.layer \in Direct => ~c.stall /\ ~c.sentinel
          /\ c.max \in Int /\ c.max >= -1
          /\ c.options \in Seq([name : {"seq", "time", "size"}, value : Nat])
    /\ MaxAnswers \in Nat /\ MaxRanges \in Nat \ {0}

VARIABLES
    call,     \* the call: its layer, its options and its context
    request,  \* the direct get request that its options make
    pc,       \* "called", "failed", "ready", "next", "stall", "context", "ended", "panicked"
    count,    \* reqOpts.count, which all ranges share
    ctx,      \* "open" without a deadline, "live" with one, "expired", "canceled"
    sub,      \* the subscription: "none", "open", "closed", "lost"
    first,    \* the next wait is the first of its range
    range,    \* how many loops there were
    watching, \* the loops whose goroutine waits
    sent,     \* the answers that reached the inbox
    read,     \* how many of them were read
    yields    \* what the caller was given, in which loop, and whether it went on

vars == <<call, request, pc, count, ctx, sub, first, range, watching, sent, read, yields>>
inbox == <<sub, ctx, watching>>

Waiting == {"stall", "context"}
Looping == {"next"} \cup Waiting

-----------------------------------------------------------------------------
(* The options of GetBatch and GetLastMsgsFor: "seq", "time" and "size". *)

NoOptions == [ok |-> TRUE, seq |-> 0, time |-> FALSE]

\* Mutant: a sequence is taken although there is a start time.
RefusedUnlessTime(layer, req, o) ==
    \/ o.name = "seq" /\ layer = "batch" /\ o.value = 0
    \/ o.name = "time" /\ req.seq # 0
    \/ o.name = "size" /\ o.value = 0

Refused(layer, req, o) ==
    \/ o.name = "seq" /\ (req.time \/ (layer = "batch" /\ o.value = 0))
    \/ o.name = "time" /\ req.seq # 0
    \/ o.name = "size" /\ o.value = 0

Apply(layer, req, o) ==
    IF ~req.ok \/ Refused(layer, req, o) THEN [req EXCEPT !.ok = FALSE]
    ELSE [req EXCEPT !.seq = IF o.name = "seq" THEN o.value ELSE @,
                     !.time = @ \/ o.name = "time"]

\* The options are applied in order, up to the first that is refused.
InOrder(layer, options) ==
    LET upTo[i \in 0..Len(options)] ==
            IF i = 0 THEN NoOptions ELSE Apply(layer, upTo[i - 1], options[i])
    IN  upTo

\* Without an option that says otherwise a batch starts at the first message.
Applied(layer, options) ==
    LET req == InOrder(layer, options)[Len(options)]
    IN  IF layer = "batch" /\ req.seq = 0 /\ ~req.time
        THEN [req EXCEPT !.seq = 1] ELSE req

-----------------------------------------------------------------------------
Init ==
    /\ call \in Calls
    /\ request = NoOptions
    /\ pc = "called"
    /\ count = -1
    /\ ctx = IF call.bounded THEN "live" ELSE "open"
    /\ sub = "none"
    /\ first = TRUE
    /\ range = 0
    /\ watching = {}
    /\ sent = <<>>
    /\ read = 0
    /\ yields = <<>>

Accepts == call.max # 0 /\ call.subjects /\ Applied(call.layer, call.options).ok

CallFails ==
    /\ pc = "called" /\ ~Accepts
    /\ pc' = "failed"
    /\ request' = [NoOptions EXCEPT !.ok = FALSE]
    /\ UNCHANGED <<count, inbox, first, range, sent, read, yields, call>>

\* The subscription is made before the request, and stays if that fails.
PublishFails ==
    /\ pc = "called" /\ Accepts
    /\ pc' = "failed"
    /\ sub' = "open"
    /\ request' = Applied(call.layer, call.options)
    /\ UNCHANGED <<call, count, ctx, watching, first, range, sent, read, yields>>

\* Mutant: a context without a deadline is used as it is.
RequestWithoutDeadline ==
    /\ pc = "called" /\ Accepts
    /\ pc' = "ready"
    /\ sub' = "open"
    /\ request' = Applied(call.layer, call.options)
    /\ count' = call.max
    /\ UNCHANGED <<call, ctx, watching, first, range, sent, read, yields>>

\* The request is sent; its context gets a deadline if it has none.
Request ==
    /\ pc = "called" /\ Accepts
    /\ pc' = "ready"
    /\ sub' = "open"
    /\ request' = Applied(call.layer, call.options)
    /\ count' = call.max
    /\ ctx' = IF ctx = "open" THEN "live" ELSE ctx
    /\ UNCHANGED <<call, watching, first, range, sent, read, yields>>

\* GetMultiple asks again for each loop, and pingServers loops once.
StartLoop ==
    /\ \/ pc = "ready"
       \/ pc = "ended" /\ range < MaxRanges /\ call.layer \notin {"counters", "ping"}
    /\ pc' = "next"
    /\ first' = TRUE
    /\ range' = range + 1
    /\ watching' = watching \cup {range + 1}
    /\ UNCHANGED <<call, request, count, ctx, sub, sent, read, yields>>

-----------------------------------------------------------------------------
(* A loop. *)

\* Mutant: a loop that ends leaves the subscription.
LeaveSubscribed(p) ==
    /\ pc' = p
    /\ ctx' = IF ~call.bounded /\ ctx = "live" THEN "canceled" ELSE ctx
    /\ UNCHANGED <<sub, watching>>

\* The deferred function: a deadline of RequestMany's own is given up.
Leave(p) ==
    /\ pc' = p
    /\ sub' = IF sub = "open" THEN "closed" ELSE sub
    /\ ctx' = IF ~call.bounded /\ ctx = "live" THEN "canceled" ELSE ctx
    /\ UNCHANGED watching

GoOn == pc' = "next" /\ UNCHANGED inbox

\* pingServers goes on unless there is an error; another caller may stop.
Tell(what, goes) ==
    /\ call.layer = "ping" => goes = (what # "error")
    /\ yields' = Append(yields, [range |-> range, what |-> what, goes |-> goes])

\* The caller has left the loop already.
Stopped == yields # <<>> /\ Last(yields).range = range /\ ~Last(yields).goes

\* The loop ends with an error, or panics if the caller has left it.
Fail ==
    IF Stopped THEN Leave("panicked") /\ UNCHANGED yields
    ELSE Leave("ended") /\ \E goes \in BOOLEAN : Tell("error", goes)

Stall == call.stall /\ ~first

\* One wait: with the stall time after the first, otherwise with the context.
CallNext ==
    /\ pc = "next"
    /\ first' = FALSE
    /\ \/ ~Stall /\ ctx = "expired" /\ Leave("ended") /\ UNCHANGED yields
       \/ ~Stall /\ ctx = "canceled" /\ Fail
       \/ /\ Stall \/ ctx \in {"open", "live"}
          /\ \/ sub = "closed" /\ Leave("ended") /\ UNCHANGED yields
             \/ sub = "lost" /\ Fail
             \/ /\ sub = "open"
                /\ pc' = IF Stall THEN "stall" ELSE "context"
                /\ UNCHANGED <<inbox, yields>>
    /\ UNCHANGED <<call, request, count, range, sent, read>>

\* While it waits, the context ends, the stall time passes without an answer,
\* or the subscription is closed.
WaitEnds ==
    /\ \/ pc = "context" /\ ctx = "expired" /\ Leave("ended") /\ UNCHANGED yields
       \/ pc = "context" /\ ctx = "canceled" /\ Fail
       \/ pc = "stall" /\ read = Len(sent) /\ Leave("ended") /\ UNCHANGED yields
       \/ pc \in Waiting /\ sub = "closed" /\ Leave("ended") /\ UNCHANGED yields
       \/ pc \in Waiting /\ sub = "lost" /\ Fail
    /\ UNCHANGED <<call, request, count, first, range, sent, read>>

\* Mutant: any message without a payload ends a batch, as with DefaultSentinel.
SentinelOnEmpty(k) ==
    \/ call.layer \in Direct /\ k \in {"end", "empty"}
    \/ call.sentinel /\ k \in {"empty", "end", "none"}

\* eobSentinel for a batch; DefaultSentinel where the caller asks for it.
Sentinel(k) ==
    \/ call.layer \in Direct /\ k = "end"
    \/ call.sentinel /\ k \in {"empty", "end", "none"}

\* convertDirectGetMsgResponseToMsg refuses it.
Unconvertible(k) == call.layer \in Direct /\ k \in {"none", "bad"}

\* GetMultiple cannot parse the value.
Unparsable(k) == call.layer = "counters" /\ k \in {"empty", "odd"}

\* NextMsg fails for want of responders, and getDirect stops at an answer
\* that is not a stream message.
ReadError(k) ==
    /\ k = "nobody" \/ Unconvertible(k)
    /\ Fail
    /\ UNCHANGED count

\* GetMultiple goes on whatever its caller wants.
SkipEntry(k) ==
    /\ Unparsable(k)
    /\ IF Stopped THEN Leave("panicked") /\ UNCHANGED yields
       ELSE GoOn /\ \E goes \in BOOLEAN : Tell("error", goes)
    /\ UNCHANGED count

\* Mutant: a caller that leaves the loop is not heeded.
TakeEntryHeedless(k, goes) ==
    /\ k # "nobody" /\ ~Sentinel(k) /\ ~Unconvertible(k) /\ ~Unparsable(k)
    /\ IF Stopped THEN Leave("panicked") /\ UNCHANGED <<yields, count>>
       ELSE /\ Tell(k, goes)
            /\ count' = IF count > 0 THEN count - 1 ELSE count
            /\ IF count = 1 THEN Leave("ended") ELSE GoOn

\* The caller is given the answer, and it counts if the caller goes on.
TakeEntry(k, goes) ==
    /\ k # "nobody" /\ ~Sentinel(k) /\ ~Unconvertible(k) /\ ~Unparsable(k)
    /\ IF Stopped THEN Leave("panicked") /\ UNCHANGED <<yields, count>>
       ELSE /\ Tell(k, goes)
            /\ count' = IF goes /\ count > 0 THEN count - 1 ELSE count
            /\ IF ~goes \/ count = 1 THEN Leave("ended") ELSE GoOn

Receive ==
    /\ pc \in Waiting /\ sub = "open" /\ read < Len(sent)
    /\ read' = read + 1
    /\ LET k == sent[read + 1] IN
        \/ k # "nobody" /\ Sentinel(k) /\ Leave("ended") /\ UNCHANGED <<yields, count>>
        \/ ReadError(k)
        \/ SkipEntry(k)
        \/ \E goes \in BOOLEAN : TakeEntry(k, goes)
    /\ UNCHANGED <<call, request, first, range, sent>>

-----------------------------------------------------------------------------
(* The environment. *)

\* The servers answer, in time or not; some answers are the last.
Answer(k) ==
    /\ pc \notin {"called", "failed"} /\ Len(sent) < MaxAnswers
    /\ k \in {"odd", "end", "none", "bad"} => call.layer \in Direct
    /\ k = "nobody" => sent = <<>>
    /\ sent # <<>> => Last(sent) \notin {"end", "none", "nobody"}
    /\ sent' = IF sub = "open" THEN Append(sent, k) ELSE sent
    /\ UNCHANGED <<call, request, pc, count, inbox, first, range, read, yields>>

Expire ==
    /\ ctx = "live" /\ pc # "called"
    /\ ctx' = "expired"
    /\ UNCHANGED <<call, request, pc, count, sub, first, range, watching, sent, read, yields>>

Cancel ==
    /\ ctx \in {"open", "live"} /\ pc # "called"
    /\ ctx' = "canceled"
    /\ UNCHANGED <<call, request, pc, count, sub, first, range, watching, sent, read, yields>>

\* The connection is closed.
Disconnect ==
    /\ sub = "open"
    /\ sub' = "lost"
    /\ UNCHANGED <<call, request, pc, count, ctx, first, range, watching, sent, read, yields>>

\* The goroutine of loop r: the context is done, or the loop is over.
Watch(r) ==
    /\ r \in watching
    /\ \/ /\ ctx \in {"expired", "canceled"}
          /\ sub' = IF sub = "open" THEN "closed" ELSE sub
       \/ /\ r < range \/ pc \notin Looping
          /\ UNCHANGED sub
    /\ watching' = watching \ {r}
    /\ UNCHANGED <<call, request, pc, count, ctx, first, range, sent, read, yields>>

Watcher == \E r \in 1..MaxRanges : Watch(r)
Loop == CallNext \/ WaitEnds \/ Receive

Next ==
    \/ CallFails \/ PublishFails \/ Request \/ StartLoop
    \/ Loop \/ Watcher
    \/ \E k \in Kinds : Answer(k)
    \/ Expire \/ Cancel \/ Disconnect

(* A loop, whose body returns, and its goroutine go on, and a deadline     *)
(* passes.  Nobody has to answer, to cancel or to start a loop.            *)
Fairness == WF_vars(Loop) /\ WF_vars(Watcher) /\ WF_vars(Expire)

Spec == Init /\ [][Next]_vars /\ Fairness

-----------------------------------------------------------------------------
(* Every variable has a value of its type, and after a loop no             *)
(* subscription is left.                                                   *)
TypeOK ==
    /\ call \in Calls
    /\ request \in [ok : BOOLEAN, seq : Nat, time : BOOLEAN]
    /\ pc \in Looping \cup {"called", "failed", "ready", "ended", "panicked"}
    /\ count \in -1..call.max \cup {-1}
    /\ ctx \in {"open", "live", "expired", "canceled"}
    /\ sub \in {"none", "open", "closed", "lost"}
    /\ first \in BOOLEAN
    /\ range \in 0..MaxRanges
    /\ watching \subseteq 1..range
    /\ sent \in Seq(Kinds) /\ Len(sent) <= MaxAnswers
    /\ read \in 0..Len(sent)
    /\ \A y \in ToSet(yields) :
        y.range \in 1..range /\ y.what \in Kinds \cup {"error"} /\ y.goes \in BOOLEAN
    /\ pc \in {"ended", "panicked"} => sub # "open"

(* All loops together give the caller no more messages than it asked for,  *)
(* however often it leaves one and starts another.                         *)
AtMostCount ==
    call.max > 0 =>
        Cardinality({i \in DOMAIN yields : yields[i].what # "error"}) <= call.max

(* A caller is given nothing after it left the loop, whichever way the     *)
(* layers below would go on, and nothing after an error.  Only GetMultiple *)
(* does so: it skips a counter it cannot parse, and panics if the caller   *)
(* has left the loop at an earlier one.                                    *)
NothingAfterStop ==
    /\ pc = "panicked" => call.layer = "counters" /\ Last(yields).what = "error"
    /\ \A i, j \in DOMAIN yields :
        /\ i < j /\ yields[i].range = yields[j].range
        => yields[i].goes /\ (yields[i].what = "error" => call.layer = "counters")

(* A direct get asks for one starting point or one end, the last that its  *)
(* options name.  (An end at sequence 0 is accepted too, and says nothing: *)
(* it is left out of the request, like a sequence that is not given.)      *)
StartsWhereAsked ==
    LET options == call.options
        LastSeq(i) == /\ options[i].name = "seq"
                      /\ \A j \in DOMAIN options : i < j => options[j].name # "seq"
    IN  pc \notin {"called", "failed"} /\ call.layer \in Direct =>
            /\ ~(request.seq # 0 /\ request.time)
            /\ call.layer = "batch" => request.seq # 0 \/ request.time
            /\ request.time <=> \E i \in DOMAIN options : options[i].name = "time"
            /\ \A i \in DOMAIN options : LastSeq(i) => request.seq = options[i].value

(* A batch that ends without a word before its context is done is whole:   *)
(* the server said that it ended, and all before that was given.           *)
EndsAtEnd ==
    [][ /\ call.layer \in Direct /\ range = 1 /\ ctx = "live"
        /\ pc \in Looping /\ pc' = "ended" /\ yields' = yields
        => sent[read'] = "end" /\ Len(yields') = read' - 1 ]_vars

(* Every loop ends, with no subscription and no goroutine left, also if    *)
(* the caller's context has no deadline and nobody answers.                *)
LoopsEnd ==
    pc \in Looping ~> (pc \notin Looping /\ watching = {} /\ sub # "open")
=============================================================================
