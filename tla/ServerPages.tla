---------------------------- MODULE ServerPages -----------------------------
(***************************************************************************)
(* The iterators of the system client that ask a server for page after     *)
(* page: AllConnz, AllServerSubsz and AllJsz, which ask one server by its  *)
(* id, and AllConnzPing, AllServerSubszPing and AllJszPing, whose first    *)
(* page is the server's answer to a ping (RequestMany).                    *)
(*                                                                         *)
(* The server's items (connections, subscriptions or accounts) come and go *)
(* between the requests, and it lists them in an order that depends on the *)
(* endpoint and, for connections, on the sort that the caller asks for:    *)
(*   "atEnd"     a new item is the last one (ByCid);                       *)
(*   "inPlace"   a new item comes anywhere (accounts, by their names);     *)
(*   "shifting"  the others change places as well (every other sort, and   *)
(*               subscriptions, whose order the server leaves open).       *)
(***************************************************************************)
EXTENDS Naturals, Sequences, FiniteSets, Functions, SequencesExt

CONSTANTS
    Offsets, \* the offsets a caller may start at
    Limits,  \* the page sizes
    MaxItems \* bound on the items there ever are

ASSUME ServerPagesAssumption ==
    Offsets \subseteq Nat /\ Limits \subseteq Nat \ {0} /\ MaxItems \in Nat

VARIABLES
    endpoint, \* "connz", "subsz" or "jsz"
    order,    \* the order of the server's list
    ping,     \* whether the first page comes from a ping
    opts,     \* the options of the caller: offset, limit, and accounts for jsz
    items,    \* what the server has, in the order in which it lists it
    came,     \* how many items there have been
    left,     \* the items that are gone since the first page
    pushed,   \* those that have moved towards the end of the list since then
    pulled,   \* those that have moved towards its beginning
    broken,   \* the server's answers have their Error set, and no data
    initial,  \* the items that the first answer counted
    offset,   \* currentOpts.Offset
    pc,       \* "first", "next", "ended"
    why,      \* why it ended: "done", "refused" by an answer with its Error set,
              \* "stopped" by the caller, "failed"
    given     \* the items of the pages the caller was given

asked  == <<endpoint, order, ping, opts>>
system == <<items, came, left, pushed, pulled, broken>>
vars   == <<asked, system, initial, offset, pc, why, given>>

Orders ==
    [connz |-> {"atEnd", "shifting"}, subsz |-> {"shifting"}, jsz |-> {"inPlace"}]

Init ==
    /\ endpoint \in {"connz", "subsz", "jsz"}
    /\ order \in Orders[endpoint]
    /\ ping \in BOOLEAN
    /\ opts \in [offset : Offsets, limit : Limits, accounts : BOOLEAN]
    /\ endpoint # "jsz" => opts.accounts
    /\ came \in 0..MaxItems
    /\ items = [i \in 1..came |-> i]
    /\ left = {} /\ pushed = {} /\ pulled = {}
    /\ broken \in BOOLEAN
    /\ initial = <<>>
    /\ offset = opts.offset
    /\ pc = "first"
    /\ why = "done"
    /\ given = <<>>

-----------------------------------------------------------------------------
(* The client. *)

Least(m, n) == IF m < n THEN m ELSE n

\* The items of the server's answer: a part of the list, as far as it reaches.
Answer(n) ==
    IF opts.accounts /\ ~broken THEN SubSeq(items, n + 1, Least(n + opts.limit, Len(items)))
    ELSE <<>>

End(reason) == pc' = "ended" /\ why' = reason

\* The caller has the page, and may leave the loop.
Hand(page) == given' = given \o page

\* An answer with its Error set counts nothing.
Begin == initial' = IF pc # "first" THEN initial ELSE IF broken THEN <<>> ELSE items

\* What the end of a loop by this answer is worth: nobody looks at its Error.
Verdict == IF broken THEN "refused" ELSE "done"

\* The request fails or gets no answer.
RequestFails ==
    /\ pc # "ended"
    /\ End("failed")
    /\ UNCHANGED <<asked, system, initial, offset, given>>

\* Mutant: the number of all items is the one of the first page.
NextOfServerByFirst ==
    LET page == Answer(offset)
        total == IF pc = "first" THEN Len(items) ELSE Len(initial)
    IN  /\ ~ping /\ pc # "ended"
        /\ Begin /\ Hand(page)
        /\ offset' = offset + Len(page)
        /\ \/ End("stopped")
           \/ IF broken \/ offset' >= total THEN End(Verdict) ELSE pc' = "next" /\ UNCHANGED why
        /\ UNCHANGED <<asked, system>>

\* Mutant: the loop ends when one item is missing.
NextOfServerShort ==
    LET page == Answer(offset) IN
    /\ ~ping /\ pc # "ended"
    /\ Begin /\ Hand(page)
    /\ offset' = offset + Len(page)
    /\ \/ End("stopped")
       \/ IF offset' + 1 >= Len(items) \/ page = <<>> THEN End(Verdict)
          ELSE pc' = "next" /\ UNCHANGED why
    /\ UNCHANGED <<asked, system>>

\* Mutant: the offset grows by the size that was asked for.
NextOfServerByLimit ==
    LET page == Answer(offset) IN
    /\ ~ping /\ pc # "ended"
    /\ Begin /\ Hand(page)
    /\ offset' = offset + opts.limit
    /\ \/ End("stopped")
       \/ IF offset' >= Len(items) \/ page = <<>> THEN End(Verdict)
          ELSE pc' = "next" /\ UNCHANGED why
    /\ UNCHANGED <<asked, system>>

\* A page of one server: it is the last if it reaches the total that came with
\* it, or is empty, as that of an answer with its Error set is.
NextOfServer ==
    LET page == Answer(offset) IN
    /\ ~ping /\ pc # "ended"
    /\ Begin /\ Hand(page)
    /\ offset' = offset + Len(page)
    /\ \/ End("stopped")
       \/ IF offset' >= Len(items) \/ page = <<>> THEN End(Verdict)
          ELSE pc' = "next" /\ UNCHANGED why
    /\ UNCHANGED <<asked, system>>

\* The page that came with the ping.
FirstOfPing ==
    LET page == Answer(offset) IN
    /\ ping /\ pc = "first"
    /\ Begin /\ Hand(page)
    /\ offset' = offset + Len(page)
    /\ End("stopped") \/ (pc' = "next" /\ UNCHANGED why)
    /\ UNCHANGED <<asked, system>>

\* Mutant: the next page begins one too early.
NextOfPingOverlaps ==
    LET page == Answer(offset - 1) IN
    /\ ping /\ pc = "next"
    /\ \/ offset >= Len(initial) /\ End("done") /\ UNCHANGED <<offset, given>>
       \/ /\ offset < Len(initial)
          /\ Hand(page)
          /\ offset' = offset + Len(page)
          /\ End("stopped") \/ UNCHANGED <<pc, why>>
    /\ UNCHANGED <<asked, system, initial>>

\* The next page after a ping, up to the total that came with the first one;
\* after an empty page, or one with its Error set, the same is asked again.
NextOfPing ==
    LET page == Answer(offset) IN
    /\ ping /\ pc = "next"
    /\ \/ offset >= Len(initial) /\ End("done") /\ UNCHANGED <<offset, given>>
       \/ /\ offset < Len(initial)
          /\ Hand(page)
          /\ offset' = offset + Len(page)
          /\ End("stopped") \/ UNCHANGED <<pc, why>>
    /\ UNCHANGED <<asked, system, initial>>

AllConnz == endpoint = "connz" /\ NextOfServer
AllServerSubsz == endpoint = "subsz" /\ NextOfServer
AllConnzPing == endpoint = "connz" /\ (FirstOfPing \/ NextOfPing)
AllServerSubszPing == endpoint = "subsz" /\ (FirstOfPing \/ NextOfPing)

\* Without details of the accounts there is one answer, and no more pages.
OnlyAnswer ==
    /\ pc # "ended"
    /\ Begin
    /\ End(Verdict) \/ End("stopped")
    /\ UNCHANGED <<asked, system, offset, given>>

AllJsz == endpoint = "jsz" /\ IF opts.accounts THEN NextOfServer ELSE ~ping /\ OnlyAnswer
AllJszPing ==
    endpoint = "jsz" /\ IF opts.accounts THEN FirstOfPing \/ NextOfPing ELSE ping /\ OnlyAnswer

-----------------------------------------------------------------------------
(* The server. *)

Lists == UNION {[1..n -> 1..MaxItems] : n \in 0..MaxItems}

\* What stands further back in the list `to` than in the list `from`.
Moved(from, to) ==
    {x \in 1..MaxItems :
        \E i \in DOMAIN from, j \in DOMAIN to : i < j /\ from[i] = x /\ to[j] = x}

SameOrder(old, new) ==
    \A i, j \in DOMAIN old, k, l \in DOMAIN new :
        new[k] = old[i] /\ new[l] = old[j] /\ i < j => k < l

\* Items go, one may come, and the list is what its order makes of it.
Relist(new) ==
    /\ pc # "ended"
    /\ new # items /\ IsInjective(new)
    /\ ToSet(new) \subseteq ToSet(items) \cup {came + 1}
    /\ order # "shifting" => SameOrder(items, new)
    /\ order = "atEnd" => \A i \in DOMAIN new : i < Len(new) => new[i] # came + 1
    /\ items' = new
    /\ came' = IF came + 1 \in ToSet(new) THEN came + 1 ELSE came
    /\ IF pc = "first" THEN UNCHANGED <<left, pushed, pulled>>
       ELSE /\ left' = left \cup (ToSet(items) \ ToSet(new))
            /\ pushed' = pushed \cup Moved(items, new)
            /\ pulled' = pulled \cup Moved(new, items)
    /\ UNCHANGED <<asked, broken, initial, offset, pc, why, given>>

\* The server begins or ceases to answer with an error.
Turn ==
    /\ pc # "ended"
    /\ broken' = ~broken
    /\ UNCHANGED <<asked, items, came, left, pushed, pulled, initial, offset, pc, why, given>>

Iterate ==
    \/ AllConnz \/ AllServerSubsz \/ AllJsz
    \/ AllConnzPing \/ AllServerSubszPing \/ AllJszPing

Next ==
    \/ Iterate \/ RequestFails
    \/ Turn \/ \E new \in Lists : Relist(new)

(* Every request is answered or fails, and the caller goes on with its     *)
(* loop; it need not leave it.                                             *)
GoOn == Iterate /\ why' # "stopped"

Spec == Init /\ [][Next]_vars /\ WF_vars(GoOn)

-----------------------------------------------------------------------------
(* Every variable has a value of its type; the offset is where the caller  *)
(* started, plus what it was given, and no page passes the list's end.     *)
TypeOK ==
    /\ endpoint \in {"connz", "subsz", "jsz"} /\ order \in Orders[endpoint]
    /\ ping \in BOOLEAN /\ broken \in BOOLEAN
    /\ pc \in {"first", "next", "ended"} /\ why \in {"done", "refused", "stopped", "failed"}
    /\ came \in 0..MaxItems
    /\ ToSet(items) \cup left \cup ToSet(initial) \cup ToSet(given) \subseteq 1..came
    /\ left \cap ToSet(items) = {}
    /\ offset = opts.offset + Len(given)

(* An item is given twice only if something came or moved in front of it   *)
(* between two pages, never if the list grows at its end only.             *)
NoneTwice ==
    \A i, j \in DOMAIN given :
        i < j /\ given[i] = given[j] => order # "atEnd" /\ given[i] \in pushed

(* A loop that ends by itself has given every item behind the caller's     *)
(* offset that its first answer counted, but                               *)
(*   - those that have left,                                               *)
(*   - those that have moved towards the beginning meanwhile, which where  *)
(*     no two change places takes that some item has left,                 *)
(*   - after a ping, those that have moved towards the end: the loop goes  *)
(*     no further than the total of the first answer.                      *)
(* A loop that an answer with its Error set has ended promises nothing.    *)
SkippedOnlyIfMoved ==
    pc = "ended" /\ why = "done" /\ opts.accounts =>
        \A k \in (opts.offset + 1)..Len(initial) :
            \/ initial[k] \in ToSet(given) \cup left
            \/ initial[k] \in pulled /\ (order # "shifting" => left # {})
            \/ initial[k] \in pushed /\ ping

(* A loop over one server's pages ends however its items change, and       *)
(* whatever it answers. One that began with a ping goes on until it has as *)
(* many as there were at first, and after an answer with an error it asks  *)
(* again: it is sure to end only if no item goes, and the server gets      *)
(* over its error.                                                         *)
PagesEnd ==
    (ping => <>[]~broken) => (pc # "ended" ~> (pc = "ended" \/ (ping /\ left # {})))
=============================================================================
