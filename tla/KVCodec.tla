------------------------------ MODULE KVCodec -------------------------------
(***************************************************************************)
(* A key-value bucket behind codecs (kvcodec.New): clients that write, read *)
(* and list keys through it, and one reader of changes: a watcher, whose   *)
(* goroutine copies the entries of the watcher below into a channel, or a  *)
(* lister, whose goroutine decodes the keys of the lister below.           *)
(*                                                                         *)
(* Every write has a value of its own.  A bucket may also be written by    *)
(* clients that use no codec.                                              *)
(***************************************************************************)
EXTENDS Naturals, FiniteSets, KeyCodecs

CONSTANTS
    Codecs,      \* the codecs a bucket may have: as in KeyCodecs
    Keys,        \* what callers use as keys
    Filters,     \* what they watch: sequences of patterns
    ForeignKeys, \* the keys of clients without a codec, some of which look encoded
    Buffer,      \* the room in the channel of a watcher (256)
    MaxWrites    \* bound on the writes

ASSUME KVCodecAssumption ==
    /\ \A c \in Codecs : c.chain \/ Len(c.codecs) = 1
    /\ <<>> \notin Keys
    /\ Buffer \in Nat \ {0} /\ MaxWrites \in Nat

VARIABLES
    codec,    \* the codec of the bucket
    log,      \* the bucket: its writes, by revision
    reader,   \* "none", "refused", "watch" or "list"
    filters,  \* what the reader asked for
    patterns, \* the same as the bucket below is asked
    since,    \* the revision at which it started
    below,    \* the channel of the watcher or lister below
    stopped,  \* Stop was called: below is closed, as it is at the end of a list
    pump,     \* the goroutine: "off", "reading", "sending", "done"
    held,     \* what it sends
    out,      \* the channel it sends to
    received  \* what the caller got

watcher == <<reader, filters, patterns, since, below, stopped, pump, held, out, received>>
vars == <<codec, log, watcher>>

Writes == {"put", "delete", "purge"}

\* A delete or purge marker has no value.
ValueOf(c, op) == IF op = "put" THEN EncodeValue(c) ELSE <<>>

\* What is stored of a write, and the key its writer used ("by", which nobody
\* reads below); a writer without a codec has none.
Entries(c) ==
    {[key |-> EncodeKey(c, key), by |-> key, op |-> op, value |-> ValueOf(c, op)] :
        key \in Keys, op \in Writes}
    \cup {[key |-> key, by |-> <<>>, op |-> "put", value |-> <<>>] : key \in ForeignKeys}

Init ==
    /\ codec \in Codecs
    /\ log = <<>>
    /\ reader = "none"
    /\ filters = <<>> /\ patterns = <<>>
    /\ since = 0
    /\ below = <<>>
    /\ stopped = FALSE
    /\ pump = "off"
    /\ held = 0
    /\ out = <<>>
    /\ received = <<>>

-----------------------------------------------------------------------------
(* The bucket below: subjects, the last entry of a key, what matches. *)

Last0(S) == IF S = {} THEN 0 ELSE Max(S)

LastOf(key) == Last0({i \in DOMAIN log : log[i].key = key})

Live(i) == log[i].op = "put" /\ LastOf(log[i].key) = i

\* The tokens of a key match those of a pattern.
Matches(pattern, key) ==
    LET ps == Tokens(pattern)
        ks == Tokens(key)
        Fits(i) == ps[i] \in {ks[i], <<Star>>}
    IN  IF Last(ps) = <<Rest>>
        THEN Len(ks) >= Len(ps) /\ \A i \in 1..(Len(ps) - 1) : Fits(i)
        ELSE Len(ks) = Len(ps) /\ \A i \in DOMAIN ps : Fits(i)

MatchesOne(ps, key) == \E p \in ToSet(ps) : Matches(p, key)

\* A write reaches a watcher that is there.
Write(key, by, op, value) ==
    /\ Len(log) < MaxWrites
    /\ log' = Append(log, [key |-> key, by |-> by, op |-> op, value |-> value])
    /\ below' = IF reader = "watch" /\ ~stopped /\ MatchesOne(patterns, key)
                THEN Append(below, Len(log) + 1) ELSE below
    /\ UNCHANGED <<codec, reader, filters, patterns, since, stopped, pump, held, out, received>>

Foreign(key) == Write(key, <<>>, "put", <<>>)

-----------------------------------------------------------------------------
(* Writing and reading through the codec. *)

Put(key) == Write(EncodeKey(codec, key), key, "put", ValueOf(codec, "put"))

\* Mutant: the key is not encoded.
DeleteAsItIs(key) == Write(key, key, "delete", ValueOf(codec, "delete"))

Delete(key) == Write(EncodeKey(codec, key), key, "delete", ValueOf(codec, "delete"))

Purge(key) == Write(EncodeKey(codec, key), key, "purge", ValueOf(codec, "purge"))

Found(key) == LET i == LastOf(EncodeKey(codec, key)) IN i # 0 /\ Live(i)

Create(key) == ~Found(key) /\ Put(key)

Update(key, revision) == LastOf(EncodeKey(codec, key)) = revision /\ revision # 0 /\ Put(key)

Get(key) == IF Found(key) THEN LastOf(EncodeKey(codec, key)) ELSE 0

\* The revisions of a key since its last purge (the bucket's limit on them is
\* not reached).
History(key) ==
    LET enc == EncodeKey(codec, key)
        purged == Last0({i \in DOMAIN log : log[i].key = enc /\ log[i].op = "purge"})
    IN  {i \in DOMAIN log : log[i].key = enc /\ i >= purged}

\* A marker is not found, nor is what was purged.
GetRevision(key, i) == i \in History(key) /\ log[i].op = "put"

\* Mutant: a key that cannot be decoded is skipped, as a lister does.
KeyListSkipping ==
    LET decoded == {DecodeKey(codec, log[i].key) : i \in {i \in DOMAIN log : Live(i)}}
    IN  [ok |-> TRUE, keys |-> {k.key : k \in {k \in decoded : k.ok}}]

\* Keys: one that cannot be decoded fails them all.
KeyList ==
    LET live == {i \in DOMAIN log : Live(i)}
        decoded == {DecodeKey(codec, log[i].key) : i \in live}
    IN  IF \E k \in decoded : ~k.ok THEN Undecodable
        ELSE [ok |-> TRUE, keys |-> {k.key : k \in decoded}]

\* The key and the value of an entry that a watcher gives: as they are stored
\* if they cannot be decoded.
EntryKey(i) ==
    LET k == DecodeKey(codec, log[i].key) IN IF k.ok THEN k.key ELSE log[i].key

ValueRead(c, value) ==
    LET v == DecodeValue(c, value) IN IF v.ok THEN v.key ELSE value

EntryValue(i) == ValueRead(codec, log[i].value)

-----------------------------------------------------------------------------
(* Watching and listing. *)

\* Revisions, the oldest first.
InOrder(S) ==
    CHOOSE s \in [1..Cardinality(S) -> S] : \A m, n \in DOMAIN s : m < n => s[m] < s[n]

\* The last entries of the keys that match.
Initial(ps) == {i \in DOMAIN log : LastOf(log[i].key) = i /\ MatchesOne(ps, log[i].key)}

\* The watcher below has the initial entries and then a mark (0).
StartWatch(fs, ps) ==
    /\ reader = "none"
    /\ reader' = "watch"
    /\ filters' = fs /\ patterns' = ps
    /\ since' = Len(log)
    /\ below' = Append(InOrder(Initial(ps)), 0)
    /\ pump' = "reading"
    /\ UNCHANGED <<codec, log, stopped, held, out, received>>

\* The lister below has the keys there are, and then ends.
StartList(fs, ps) ==
    /\ reader = "none"
    /\ reader' = "list"
    /\ filters' = fs /\ patterns' = ps
    /\ since' = Len(log)
    /\ below' = InOrder({i \in Initial(ps) : Live(i)})
    /\ stopped' = TRUE
    /\ pump' = "reading"
    /\ UNCHANGED <<codec, log, held, out, received>>

Patterns(c, fs) == [i \in DOMAIN fs |-> EncodeFilter(c, fs[i]).key]

Kept(c, fs) == \A f \in ToSet(fs) : EncodeFilter(c, f).ok

Refuse(fs) ==
    /\ reader = "none" /\ ~Kept(codec, fs)
    /\ reader' = "refused"
    /\ filters' = fs
    /\ UNCHANGED <<codec, log, patterns, since, below, stopped, pump, held, out, received>>

\* Mutant: the patterns are not encoded.
WatchAsItIs(fs) ==
    Refuse(fs) \/ (Kept(codec, fs) /\ StartWatch(fs, fs))

WatchFiltered(fs) ==
    Refuse(fs) \/ (Kept(codec, fs) /\ StartWatch(fs, Patterns(codec, fs)))

ListKeysFiltered(fs) ==
    Refuse(fs) \/ (Kept(codec, fs) /\ StartList(fs, Patterns(codec, fs)))

\* The bucket below is asked for everything.
Everything == << <<Rest>> >>
WatchAll == StartWatch(Everything, Everything)
ListKeys == StartList(Everything, Everything)

\* Stop is passed on: the channel below is closed, and the rest of it is read.
Stop ==
    /\ reader = "watch" /\ ~stopped
    /\ stopped' = TRUE
    /\ UNCHANGED <<codec, log, reader, filters, patterns, since, below, pump, held, out, received>>

\* Mutant: a lister ends at a key that cannot be decoded.
PumpReadsOrGivesUp ==
    /\ pump = "reading" /\ below # <<>>
    /\ below' = Tail(below)
    /\ IF reader = "list" /\ ~DecodeKey(codec, log[Head(below)].key).ok
       THEN pump' = "done" /\ UNCHANGED held
       ELSE pump' = "sending" /\ held' = Head(below)
    /\ UNCHANGED <<codec, log, reader, filters, patterns, since, stopped, out, received>>

\* A lister skips a key that cannot be decoded.
PumpReads ==
    /\ pump = "reading" /\ below # <<>>
    /\ below' = Tail(below)
    /\ IF reader = "list" /\ ~DecodeKey(codec, log[Head(below)].key).ok
       THEN UNCHANGED <<pump, held>>
       ELSE pump' = "sending" /\ held' = Head(below)
    /\ UNCHANGED <<codec, log, reader, filters, patterns, since, stopped, out, received>>

\* Mutant: the channel of a watcher is never full.
PumpSendsUnbounded ==
    /\ pump = "sending"
    /\ pump' = "reading"
    /\ IF reader = "list" THEN received' = Append(received, held) /\ UNCHANGED out
       ELSE out' = Append(out, held) /\ UNCHANGED received
    /\ UNCHANGED <<codec, log, reader, filters, patterns, since, below, stopped, held>>

\* A lister has no buffer: it hands the key over.
PumpSends ==
    /\ pump = "sending"
    /\ pump' = "reading"
    /\ IF reader = "list" THEN received' = Append(received, held) /\ UNCHANGED out
       ELSE Len(out) < Buffer /\ out' = Append(out, held) /\ UNCHANGED received
    /\ UNCHANGED <<codec, log, reader, filters, patterns, since, below, stopped, held>>

PumpEnds ==
    /\ pump = "reading" /\ below = <<>> /\ stopped
    /\ pump' = "done"
    /\ UNCHANGED <<codec, log, reader, filters, patterns, since, below, stopped, held, out, received>>

CallerReads ==
    /\ out # <<>>
    /\ out' = Tail(out)
    /\ received' = Append(received, Head(out))
    /\ UNCHANGED <<codec, log, reader, filters, patterns, since, below, stopped, pump, held>>

-----------------------------------------------------------------------------
Writing ==
    \/ \E key \in Keys :
        \/ Put(key) \/ Delete(key) \/ Purge(key) \/ Create(key)
        \/ \E i \in DOMAIN log : Update(key, i)
    \/ \E key \in ForeignKeys : Foreign(key)

Next ==
    \/ Writing
    \/ \E fs \in Filters : WatchFiltered(fs) \/ ListKeysFiltered(fs)
    \/ WatchAll \/ ListKeys
    \/ Stop
    \/ PumpReads \/ PumpSends \/ PumpEnds \/ CallerReads

(* The goroutine is scheduled, and the caller reads until its channel is   *)
(* closed, as the README has it; nobody has to write or to stop.           *)
Fairness ==
    WF_vars(PumpReads) /\ WF_vars(PumpSends) /\ WF_vars(PumpEnds) /\ WF_vars(CallerReads)

Spec == Init /\ [][Next]_vars /\ Fairness

-----------------------------------------------------------------------------
(* What keys and patterns mean to a caller. *)

\* With the path codec first, a key is a path, whichever separator it has.
Path(key) ==
    LET rooted == key # <<>> /\ Head(key) = Slash
        body == IF rooted THEN Tail(key) ELSE key
        trimmed == IF body # <<>> /\ Last(body) = Slash THEN Front(body) ELSE body
    IN  [rooted |-> rooted, names |-> ReplaceAll(trimmed, Slash, Dot)]

Name(c, key) ==
    IF c.codecs[1] = "path" THEN Path(key) ELSE [rooted |-> FALSE, names |-> key]

\* The path codec after another one takes the dots between encoded tokens for
\* its own.
Mistaken(c, key) == c.codecs = <<"base64", "path">> /\ Dot \in ToSet(key)

\* Every token of a key is base64 by chance, and no codec is there that asks for
\* more.
Lookalike(c, key) ==
    /\ "base64" \in ToSet(c.codecs) /\ "sealed" \notin ToSet(c.codecs)
    /\ \A token \in ToSet(Tokens(key)) : Len(token) = 1 /\ token[1].name = "base64"
    /\ ~Mistaken(c, key)

\* A key that only looks encoded is taken for what it decodes to, a key that
\* nobody wrote.
Meant(c, e) ==
    Name(c, IF e.by # <<>> THEN e.by
            ELSE IF Lookalike(c, e.key) THEN DecodeKey(c, e.key).key ELSE e.key)

\* The bucket's own codec made the key, or takes any key, or this one for its own.
Readable(c, e) ==
    IF e.by # <<>> THEN ~Mistaken(c, e.by)
    ELSE ToSet(c.codecs) \subseteq {"noop", "path"} \/ Lookalike(c, e.key)

\* A wildcard at the start of a pattern stands for a leading slash, too.
Segments(name) == IF name.rooted THEN <<Root, Dot>> \o name.names ELSE name.names

Wanted(c, fs, e) ==
    \E f \in ToSet(fs) : Matches(Segments(Name(c, f)), Segments(Meant(c, e)))

\* What a codec owes to its callers, for the keys and filters they use: keys are
\* stored apart exactly if they mean different things, and apart from those of
\* others (who do not write what the codec makes of a caller's key); it decodes
\* all keys it made, and of the others those it takes for its own, each to what it
\* means; a pattern matches what is stored exactly if it matches what was meant;
\* and values come back.
Faithful(c) ==
    LET asked == {[filters |-> fs, patterns |-> Patterns(c, fs)] :
                      fs \in {fs \in Filters : Kept(c, fs)}}
                     \cup {[filters |-> Everything, patterns |-> Everything]}
    IN  /\ \A d, e \in Entries(c) :
              /\ d.key = e.key <=> Meant(c, d) = Meant(c, e)
              /\ d.key = e.key => (d.by = <<>> <=> e.by = <<>>)
        /\ \A e \in Entries(c) :
              /\ DecodeKey(c, e.key).ok <=> Readable(c, e)
              /\ Readable(c, e) => Name(c, DecodeKey(c, e.key).key) = Meant(c, e)
              /\ e.by # <<>> => ValueRead(c, e.value) = <<>>
              /\ \A a \in asked : MatchesOne(a.patterns, e.key) <=> Wanted(c, a.filters, e)

AllFaithful == \A c \in Codecs : Faithful(c)

-----------------------------------------------------------------------------
LastAt(i, n) == \A j \in (i + 1)..n : Meant(codec, log[j]) # Meant(codec, log[i])

Wants(i) == Wanted(codec, filters, log[i])

Before == {i \in 1..since : LastAt(i, since) /\ Wants(i)}
After == {i \in (since + 1)..Len(log) : Wants(i)}
Listed == {i \in Before : log[i].op = "put" /\ Readable(codec, log[i])}

\* What a reader is to get: the last entry of every key when it started, the
\* mark, and all entries written since; or the keys there were when it started.
Due ==
    IF reader = "list" THEN InOrder(Listed)
    ELSE InOrder(Before) \o <<0>> \o InOrder(After)

(* Every variable has a value of its type, and the channels hold only      *)
(* revisions or the mark.                                                  *)
TypeOK ==
    /\ codec \in Codecs
    /\ log \in Seq(Entries(codec)) /\ Len(log) <= MaxWrites
    /\ reader \in {"none", "refused", "watch", "list"}
    /\ since \in 0..Len(log)
    /\ {below, out, received} \subseteq Seq(0..Len(log)) /\ held \in 0..Len(log)
    /\ stopped \in BOOLEAN
    /\ pump \in {"off", "reading", "sending", "done"}
    /\ Len(out) <= Buffer
    /\ pump = "off" <=> reader \in {"none", "refused"}

(* A caller finds under a key what was written last under that key, or     *)
(* under another notation of the same path, and never what was written     *)
(* under a different one; its history is that of the key.                  *)
GetsItsKey ==
    \A key \in Keys :
        LET mine == {i \in DOMAIN log : log[i].by # <<>> /\ Meant(codec, log[i]) = Name(codec, key)}
            purges == {i \in mine : log[i].op = "purge"}
        IN  /\ Get(key) = IF mine = {} \/ log[Max(mine)].op # "put" THEN 0 ELSE Max(mine)
            /\ {i \in DOMAIN log : GetRevision(key, i)} =
                   {i \in mine : log[i].op = "put" /\ \A p \in purges : i > p}
            /\ History(key) = {i \in mine : \A p \in purges : i >= p}

(* Keys lists every key that has a value, each once, a caller's by its own *)
(* name and another client's, if it happens to be base64, by a name that   *)
(* nobody wrote; and a single key that the codec cannot decode, another    *)
(* client's or one of its own that it mistakes, makes Keys list none.      *)
KeysAllOrNone ==
    LET live == {i \in DOMAIN log : Live(i)}
    IN  /\ KeyList.ok <=> \A i \in live : Readable(codec, log[i])
        /\ KeyList.ok =>
            /\ {Name(codec, k) : k \in KeyList.keys} = {Meant(codec, log[i]) : i \in live}
            /\ Cardinality(KeyList.keys) = Cardinality(live)

(* A reader gets the entries whose keys match its patterns as the caller   *)
(* reads them, in order, each once, with their own keys and the values     *)
(* that were written, not what is stored of them (and with the keys of     *)
(* other clients as Keys lists them); patterns that the codec cannot keep  *)
(* are refused instead of matching something else.                         *)
ReaderGetsItsKeys ==
    reader \in {"watch", "list"} =>
        /\ IsPrefix(received, Due)
        /\ \A i \in ToSet(received) \ {0} :
            /\ Readable(codec, log[i]) => Name(codec, EntryKey(i)) = Meant(codec, log[i])
            /\ log[i].by # <<>> => EntryValue(i) = <<>>

(* Whatever waits for the goroutine reaches the caller, also after Stop;   *)
(* a list is then complete, a watcher has all there is, and after Stop, or *)
(* at the end of a list, the goroutine ends.                               *)
ReaderCompletes ==
    pump # "off" ~>
        /\ below = <<>> /\ out = <<>>
        /\ pump = IF stopped THEN "done" ELSE "reading"
        /\ reader = "list" \/ ~stopped => received = Due
=============================================================================
