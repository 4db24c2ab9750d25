# A verification development for orbit.go

orbit.go is a set of client-side extensions of the NATS Go client.  This
directory holds TLA+ models of the parts of it that coordinate several
processes or goroutines, TLC runs that check them on small instances, and
theorems about them checked by TLAPS.  Paths are relative to the repository's
root (`pcgroups/...` and so on); line numbers are in `PROJECT.json`, whose
"map" ties every definition that models code to the lines it stands for.

## 1. The system

| Part | State it keeps | Operations | Talks to |
|---|---|---|---|
| `pcgroups`: partition assignment (`stream_consumer_group.go`, `validateConfig`) | none | `GeneratePartitionFilters`, `ElasticGetPartitionFilters`, `IsInMembership`, `validateConfig` | used by everything else in pcgroups |
| `pcgroups`: elastic administration | an entry of the KV bucket `elastic-consumer-groups`, and a work queue stream per group | `CreateElastic`, `DeleteElastic`, `AddMembers`, `DeleteMembers`, `SetMemberMappings`, `DeleteMemberMappings` | the KV bucket, the stream API |
| `pcgroups`: elastic instances | `instance.Config`, `consumer`, `consumerConsumeContext`, `currentPinnedID` in each process; consumers, pins and pending messages in the server | `ElasticConsume`, `instanceRoutine`, `processMembershipChange`, `joinMemberConsumer`, `startConsuming`, `stopConsuming`, `consumerCallback`, `Stop`, `ElasticMemberStepDown` | reads the bucket through a watcher, creates and deletes consumers, pulls messages |
| `pcgroups`: static groups | an entry of the bucket `static-consumer-groups`, one durable consumer per member on the source stream | `CreateStatic`, `DeleteStatic`, `StaticConsume`, its `instanceRoutine`, `stopAndDeleteMemberConsumer`, `Stop` | as above; the stream is shared by all groups on it |
| `jetstreamext`: FastPublisher | sequence, acked sequence, flow, three channels, a subscription, `closed`, all under `fp.mu` | `Add`, `AddMsg`, `Commit`, `CommitMsg`, `Close`, `waitForStall`, `sendPing`, `ackMsgHandler` | one goroutine of the caller, one of the subscription, the server |
| `jetstreamext`: BatchPublisher, `PublishMsgBatch` | sequence, `closed`; the headers of the caller's messages | `Add`, `AddMsg`, `Commit`, `CommitMsg`, `Discard`, `PublishMsgBatch` | requests to the server, which stages the batch |
| `jetstreamext`: direct get | none between calls | `GetBatch`, `GetLastMsgsFor`, their options | ranges over RequestMany |
| `natsext`: RequestMany | a subscription, a count, a stall time, a goroutine per loop that watches the context | `RequestMany`, `RequestManyMsg` | an inbox subscription, ranged over by an iterator |
| `counters` | none | `Add`, `Load`, `Get`, `GetMultiple` | the above; `GetMultiple` ranges over `GetLastMsgsFor` |
| `kvcodec` | codec, one pump goroutine per watcher or lister | `Put`, `Get`, `Watch`, `ListKeys`, ... | the wrapped KV |
| `natssysclient` | options of the current page in the paging iterators | `Varz`, `Connz`, ..., their `Ping` forms, `AllConnz`, `AllJsz`, ... | one server by id, or all by RequestMany |
| `natscontext`, the `cg` command, the message wrapper of pcgroups | none | a file read; a command line; delegation | |

What makes them hard:

* **Elastic groups** are a distributed protocol without a leader.  The members'
  processes learn of a membership change at different times, and the work queue
  refuses a consumer whose partitions overlap another's, so joining is a loop of
  delete, create, fail and retry over a shared name.  Several instances of a member
  use one consumer, and only the one the server pinned may delete it.  Correct:
  nobody ever pulls from a consumer made for other partitions than its own view
  gives it; once the changes stop every member with a live instance is served, as
  far as the retry goes (section 3 says where it does not); a deleted group stops
  every instance; one partition's messages are handled one at a time.
* **Administration** is read, modify, write against a bucket, by several
  clients.  Correct: what is stored is valid, and an update is not computed from
  something older than what it replaces.
* **Static groups** share a stream, and their durable consumers keep their names
  when a group is deleted and created otherwise.  Correct: no stale consumer is
  taken over, all instances of an older configuration stop, deletion leaves
  nothing behind and touches no other group.
* **FastPublisher** publishes without waiting, and stalls when too many messages
  are unacknowledged; acknowledgements may be lost and pings ask for them again.
  Correct: an acknowledged message is stored, the bound on outstanding messages
  holds, lost acks are recovered from, every call returns.
* **Atomic batches** go wrong in the middle: a message is refused, an answer is
  lost or late, the server gives the batch up, and a message carries the headers
  of an earlier use.  Correct: what is stored is the whole batch as it was given
  at its commit, once, and the caller is told the truth.
* **RequestMany** ends in six ways (count, sentinel, stall, deadline, cancelled
  context, connection) that race with one another and with the goroutine that
  unsubscribes; three more layers sit on top.  Correct: a loop ends, gives what
  came and nothing after it was left, and leaves no subscription.
* **The KV codecs** are chains that must be undone in the opposite order, with
  patterns that must be encoded as the keys are, behind a goroutine with a
  bounded channel.  Correct: a reader sees the keys and values that were written,
  all of them, in order.
* **The pages of the system client** are offsets into a list that changes, in an
  order that the server keeps, or shuffles.  Correct: nothing twice unless it was
  pushed back, nothing skipped unless it or something before it moved, and an end.

The hazards this code is exposed to, each at its line, with the properties that
cover it or the reason none does, are listed in `PROJECT.json`.

## 2. Modules

```
PartitionFilters
      ^  ^  ^
      |  |  +-- ElasticAdmin      <-- ElasticAdminMC
      |  |             ^----------- ElasticAdmin_proofs
      |  +----- ElasticInstances  <-- ElasticInstancesMC
      |                ^----------- ElasticInstances_proofs
      +-------- StaticGroups      <-- StaticGroupsMC
                       ^----------- StaticGroups_proofs
ConsumerGroup <-(refined by)-- ElasticInstances
AckedLog     <-(refined by)-- FastPublisher  <-- FastPublisher_proofs
AtomicBatch  <-(refined by)-- BatchPublisher <-- BatchPublisherMC
                                     ^---------- BatchPublisher_proofs
RequestMany  <-- RequestManyMC
     ^---------- RequestMany_proofs
KeyCodecs    <-- KVCodec      <-- KVCodecMC
                    ^------------ KVCodec_proofs
ServerPages  <-- ServerPages_proofs
```

### PartitionFilters

Operators only: who owns partition *i* of a group.  Member names are numbers,
ordered as the Go code sorts strings; a member list is a set, since the code
sorts and de-duplicates it first.  Mappings are sequences, because
`validateConfig` is about their repetitions.  The result of
`GeneratePartitionFilters` keeps one element per `append`, so that a list with
repetitions is distinguishable from one without.  A filter `"<n>.<subject>"` is
a pair of partition number and subject.

Its properties are stated in ElasticAdmin, of the configuration that is stored.

### ElasticAdmin

One bucket entry with its revision, one stream, and any number of clients.  An
operation is two or three actions, split where it calls the server: the read,
the write (`Put` overwrites, `Update` compares the revision), and for
`CreateElastic` the stream.  `Crash` ends a client between two calls.  A write
whose revision is stale fails and the call returns an error.  The module also
says what the stored configuration is worth to the members who read it: who owns
each partition, how evenly, and which mappings `SetMemberMappings` lets in.

### ElasticInstances

| Model | Code |
|---|---|
| `log`, `position[i]` | the revisions of the key, and how far instance *i*'s watcher has delivered them |
| `consumers[m]` | the server's consumer of member *m*: filters, pinned instance, pending messages |
| `pc[i]` | where the goroutine of `instanceRoutine` is between two server calls |
| `view`, `consumer`, `attached`, `aware` | `instance.Config`; `instance.consumer != nil`; the consume context still pulls; `currentPinnedID` equals the server's pin |
| `Start`, `Watch` | `ElasticConsume` up to the goroutine, then its first steps |
| `Receive` | the watcher case of the select |
| `Info`, `DeleteOwn`, `Backoff` | `processMembershipChange` |
| `Join`, `Replace`, `Recreate`, `Consume` | `joinMemberConsumer`, `tryCreateConsumer` twice, `startConsuming` |
| `Retry` | the timer case, `AckWait` + 500 ms |
| `Deliver`, `Finish` | `consumerCallback` and the user's callback with its acknowledgement |
| `Pin`, `PinExpires`, `StepDown`, `Redeliver` | the server's pinned client policy, `ElasticMemberStepDown`, `AckWait` |
| `Expire`, `Disconnect` | `InactiveThreshold`, when no instance pulls, and when those that pull are cut off for longer than it |

Decisions a reader should know of:

* The server is outside this repository and is modelled from the configuration
  the code gives it and the errors it handles: creation is idempotent for an
  identical configuration, `ErrConsumerExists` for a different one, error 10100
  for overlapping filters on a work queue.
* A consume context whose consumer is deleted ends; one that starts after the
  deletion pulls by name, and works again as soon as a consumer of that name
  exists.
* `Expire` (inactivity) cannot hit between the creation of a consumer and the
  first pull by the instance that has created it: that would take `AckWait`.
* A call to the server either has its effect or fails.  One that has its effect and
  whose answer is lost is not told apart: a `DeleteConsumer` of that kind leaves
  what a `Recreate` that fails leaves, and a `CreateConsumer` leaves a consumer
  that the next attempt finds identical, or replaces.
* `ConsumerGroup` is what users of a group may rely on, without instances, pins or
  watchers: a member joins with the partitions that some stored valid
  configuration gives it, if nobody else is being served one of them; a message of
  its partitions is handed to it if no member has it; and a message leaves the
  stream by the acknowledgement of the member that has it, or with the stream.
  `Share` and `Held` (the filters and the pending messages of the consumers) are
  the refinement mapping, and `ImplementsConsumerGroup` the property.  It does not
  say that the configuration is the latest: instances are late.
* The code compares member lists in order, and two stored lists of the same
  members may be ordered differently.  The model keeps sets, so an entry with two
  or more members may compare as changed (`Reordered`); this is more behaviour
  than the code has for an entry that is literally the one in the view.
* A group's size, partitioning filters and buffer limits are one fixed part: any
  change of it stops the instance, which `MustStop` says of size and filters.
* Every instance of a member is started with the same consumer template.
* Two callbacks of one instance for the same message count as one.
* The watcher delivers the entries in order.  One that reconnects may skip an
  entry that has been overwritten; that is not modelled.

### StaticGroups

Several groups on a stream, each with its key.  Administrators run `CreateStatic`
(`CreateGet`, `CreatePut`) and `DeleteStatic` (`DeleteKey`, `ListConsumers`,
`DeleteNext` for each name found, `DeleteReturns`), and may die anywhere
(`Abandon`).  An instance reads, watches, joins, consumes, and then only waits for
an entry that differs from what it read (`Receive`), whereupon it deletes its
member's consumer (`DeleteOwn`), or for `Stop`, an ordinary call, which leaves the
consumer alone.  The listing of `DeleteStatic` comes in pages and its error is not
looked at, so `ListConsumers` may miss consumers (fault "list").  A name is the
sequence of its parts between dashes, so that `strings.HasPrefix(name, group+"-")`
is a prefix of sequences.  After `WatcherCloses` an instance is "blind": the receive
from the closed channel yields nothing and no later change reaches it.  The code
that delivers and pins is that of elastic groups and is not modelled twice.

### FastPublisher and AckedLog

`pc` says where the caller's goroutine is: idle, waiting for the first ack,
stalled, between `CommitMsg`'s check and `commit`'s lock, waiting for the commit
ack, or on its way out of `commit`.  Every action is a stretch of code under
`fp.mu`, or a choice of one case of a select.  The channels are what they can
hold: `stallCh` nil, empty or full; `commitCh` nil, empty or with a response;
`blocked` is the handler waiting for room in `commitCh` while it holds `fp.mu`,
which every action that takes the lock requires to be false.  Two pings fit a
wait, since the ping interval is a third of the ack timeout; the third tick is
the timeout.

The server is modelled from the comments and the tests: it answers the first message
and then every so many (a number of its choice, at most the frequency asked for),
answers a ping with its last sequence, reports a gap and with `gap: fail` ends the
batch, answers `committed` or `failed` at its end, and `failed` to a message of no
batch.  Either direction may lose messages and keeps their order.  Two
simplifications: `Unsubscribe` drops whatever the handler has not begun with, where
in the code a message that is dispatched and waits for `fp.mu` is still handled; and
the timeout of a stall comes after all its pings, where the select
(`fastpublish.go:226-244`) may take the deadline with fewer if both are ready, so
that `StallsRecover` counts on the scheduler not to be that late.  Message options,
malformed answers and per-message flow errors only reach headers or the error
handler and are left out.

`AckedLog` is what a caller may rely on ("FastPublisher persists messages as they
are added to the batch, and the commit is used to signal the end of the batch",
`jetstreamext/README.md`): a log that holds the messages in the order in which
they were sent, each once, without a hole unless gaps are allowed, and nothing
after its end; acknowledgements that are true and never taken back; no message
after the publisher's last; and a commit that is reported only when the batch is
over and all that was added before it is stored.  `ImplementsAckedLog` is its
specification as a property of `FastPublisher`:

| Step of FastPublisher | Step of AckedLog |
|---|---|
| `AddFirst`, `AddNext`, `PublishCommit`, and calls that fail after taking a sequence | `Send` |
| `Serve` of a message that is stored | `Store`, with the end of the batch if it commits |
| `Serve` of a gap, of a refused start, of the end without a message | `End` |
| the handler, for an ack | `Acknowledge` |
| `Committed`, with the server's word | `Report` |
| `Refused` | `Refuse`: the caller is told that the batch is closed |
| a call that times out or fails while it waits; the end of the batch, told to a publisher that is in no call | `GiveUp` |

Every other step is a stutter.

### BatchPublisher and AtomicBatch

A batch is a `BatchPublisher`, whose caller adds messages in any order, or a call
of `PublishMsgBatch` on a slice.  Both work on the caller's own `*nats.Msg`: a
message is an identity with a header that is nil, plain, or has the commit
header, and messages are shared between batches, because `PublishMsgBatch`
removes the commit header and `AddMsg` does not.

| Model | Code |
|---|---|
| `sequence`, `closed`, `pc` | the fields of the publisher, or the loop of `PublishMsgBatch`; what the call under `b.mu` waits for |
| `AddMsg`, `CommitMsg`, `Discard` | the methods, up to the wait for an answer |
| `PublishNext`, `PublishPanics` | one turn of the loop of `PublishMsgBatch`; the write to a nil header |
| `AckArrives`, `CommitArrives`, `Timeout` | the rest of the call, by how the wait ends |
| `Refuse` | a publish or request that fails at once |
| `wire`, `answer`, `staged`, `stored`; `Accept`, `Reject`, `Abandon`, `Lose...` | the connection and the server |
| `given`, `commits`, `stale`, `outcome` | what the caller did and was told; no code reads them |

The server is modelled from what the code sends and accepts: it stages messages
whose sequence continues the batch, stores the batch with the message that
commits it, drops it on a gap or when a check on a message fails, and may abandon
it.  Message options are headers the server checks, and its refusal is modelled.

`AtomicBatch` is what a caller may rely on: what is stored of a batch is a
beginning of what it was given, up to a message it was committed with, stored in
one step and only once, and an acknowledged batch is stored whole.  A batch that
was given a message with another commit's header (`stale`) may be stored up to
that message instead.  `BatchPublisher` instantiates it
(`INSTANCE AtomicBatch WITH acked <- ...`) and `ImplementsAtomicBatch` is its
specification as a property.

### RequestMany

One request and the loops over its iterator.  `call.layer` says who made it:
`RequestMany` itself, `GetBatch`, `GetLastMsgsFor`, `GetMultiple` (which ranges
over `GetLastMsgsFor`), or `pingServers`; the layers differ in their options,
in their sentinel, and in what they do with an answer they cannot use.

| Model | Code |
|---|---|
| `Applied`, `InOrder`, `Refused` | the options of `GetBatch` and `GetLastMsgsFor`, in the order given |
| `CallFails`, `PublishFails`, `Request` | the call, up to the iterator it returns |
| `StartLoop`, `watching`, `Watch` | the start of a range over the iterator and its goroutine |
| `CallNext`, `WaitEnds`, `Receive` | `NextMsg` or `NextMsgWithContext`: its checks, its ends, a message |
| `Leave` | the deferred unsubscription and cancellation |
| `TakeEntry`, `SkipEntry`, `ReadError`, `Fail` | the body of the loop, in all layers, with the caller's choice to go on or leave |
| `Answer`, `Expire`, `Cancel`, `Disconnect` | the servers, the context, the connection |

Each layer calls `yield` of the one below, so that a caller who leaves a
`GetMultiple` loop leaves it only if every layer passes that on; where one does
not, the run time panics (`"panicked"`).

### KeyCodecs and KVCodec

A key is a sequence of symbols: letters that are never looked into, the
separators, wildcards, and symbols that a codec has made of others (one for a
base64 token, one for a codec of the caller's own).  A base64 symbol stands for any
token that decodes to what it holds, whoever wrote it: the decoder takes every
token of its alphabet and of a possible length (`base64_codec.go:45`), a plain
word such as `name` included.
`PathEncode` and `PathDecode` are translated symbol by symbol, since what they
do to slashes and dots is the point.  Values are the sequence of layers put
around them.

`KVCodec` writes and deletes keys through the codec, or under a key of another
writer (`Foreign`; one of them is not base64, one is by chance), gets and lists
keys, and has one reader: `Watch`, `WatchFiltered`, `ListKeys` and so on, with the
goroutine behind it (`pump`: it reads, decodes, sends and closes) and the channel of
`Buffer` places (256 in the code).  An entry of the bucket is what is stored, and
the key its writer used, which only the properties read.  The markers of `Delete`
and `Purge` have no value, and `Get` and `GetRevision` do not find them, nor what
was purged.  Left out: a writer without a codec who writes exactly what the codec
makes of a caller's key, and limits of the history.

`Faithful(c)` is what a codec owes to its callers, key by key and pattern by
pattern: two keys are stored alike exactly if they mean the same (with the path
codec, `a/b` and `a.b` do), what can be decoded means what was written, a pattern
matches what is stored exactly if it matches what was meant, and values come back.
The module's other properties are about the bucket and its reader.

### ServerPages

The six iterators `AllConnz`, `AllServerSubsz`, `AllJsz` and their `Ping` forms,
against a server whose list changes between the requests.

| Model | Code |
|---|---|
| `opts`, `offset`, `initial`, `given` | the caller's options; `currentOpts.Offset`; the list that the first answer's total counts; the pages handed to the caller |
| `NextOfServer` | one turn of `AllConnz`, `AllServerSubsz`, `AllJsz`: the page, the caller's choice to go on, the comparison with the total that came with the page |
| `FirstOfPing`, `NextOfPing` | the page that came with the ping; one turn of the `Ping` forms: the comparison with the first page's total, then the page |
| `OnlyAnswer` | `AllJsz` and `AllJszPing` without account details |
| `order`, `Relist` | the order of the server's list, and how it may change within that order |
| `broken`, `Turn` | whether the server answers with `Error` set |
| `left`, `pushed`, `pulled` | what left, moved back, or moved forward since the first page; no code reads them |

An item is known by when it came.  `order` says what the server does with its list:
it grows at its end only (`ByCid`, the one ascending sort, `connz.go:109-111`); a
new item comes anywhere, and the others keep their places (accounts, ordered by
name); or everything may change places (every other sort of connections, and
subscriptions, whose order nothing in the code fixes).  `Relist` replaces the list
by any other that the order allows, with at most one new item.

An answer with `Error` set (`connz.go:31`, and the same field in
`subsz_server.go` and `jsz_server.go`) has no items
and a total of zero, and the iterators do not look at `Error`: `broken` is that, and
`why = "refused"` is what the loop's end by such an answer is called here.

## 3. Runs

| Run | Question | Result |
|---|---|---|
| `filters` | Does each partition of a stored group have one owner, evenly, and are exactly the total mappings accepted? | holds |
| `admin` | Two clients, any operations, dying anywhere: is the stored configuration valid, are updates atomic? | holds |
| `instances` | One instance per member, three configurations, a failure, a disconnection or a crash anywhere: does everyone that is not stranded come to consume what it should, never anything else, what strands an instance, and is the group's promise kept? | holds |
| `instances_peers` | Two instances of one member, delivery, step down, stop, crash, a recreated group: can every context that pulls be stopped? | holds |
| `instances_standby` | Does a standby take over after its peer replaced the consumer and crashed? | **violated** |
| `static` | Are stale consumers never taken over, do older instances stop, and who cleans up what after a deletion, with instances stopped at any time? | holds |
| `fast` | Are acks true, is the bound kept, do pings recover, is the stream the log that was promised, do calls return? | holds |
| `fast_hang` | Does every call return, a repeated `Commit` included? | **violated** |
| `batch` | With requests and answers refused, lost or late, and messages used twice: is a batch stored whole and once, and is the caller told the truth? | holds |
| `gather` | What does a loop over the answers give in each layer, does it stop where it is left, and does it end? | holds |
| `kv` | Do the codecs and chains of codecs keep their promise for each key, and do callers and readers see the keys and values that were written, all of them, and of other clients' keys those that can be decoded? | holds |
| `pages` | Items come, go and change places between the pages, and answers may be errors: what is skipped, what is given twice, when does the loop end? | holds |

What the violated ones show, with the comment or document line each
contradicts, is under "findings" in `PROJECT.json`.  In short: a standby with a
dead consume context and a non-nil `consumer` field, which the retry does not
look at; and `ackMsgHandler` blocking on `commitCh` with `fp.mu` held.

### Stated, and not true of the code

Some more properties are kept in the modules although the configurations named here
do not check them, because the code does not have them.  Each is violated when it
is added to that configuration.

* `FilterListHasNoDuplicates` (an invariant for `ElasticAdmin_filters.cfg`): with
  mappings and two partitioning filters, the member's filters are appended once
  per partitioning filter.
* `OnePerPartition` (an invariant for `ElasticInstances.cfg`): a consumer is deleted
  while a callback runs, and its message is delivered to the new owner before the
  callback ends; `pcgroups/README.md:26` says "in no way more than one message for a
  particular key can be consumed at the same time".
* `StoppedMeansDone` (a property for `StaticGroups.cfg`): an instance late in
  handling a deletion deletes the durable consumer that its successor in the
  recreated group uses, and the successor neither consumes nor ends.
* `DeletesOnlyItsGroup` (a property for `StaticGroups.cfg` with
  `Group <- TwoGroups`): `DeleteStatic` of `cg` deletes the
  consumers of `cg-a`, whose names have the prefix `cg-`.
* `Converges` (a property for `ElasticInstances.cfg`): the comment at
  `elastic_stream_consumer_group.go:219` says that an instance is "always ... trying
  to self-correct if it's not currently joined", but the retry looks only at
  `instance.consumer`.  An instance whose `Consume` returned an error (770-774), or
  that was cut off until its consumer had expired, keeps that field, pulls nothing
  and is passed over until the membership changes, also without a peer.
  `SelfCorrects` is what is left: with one instance per member these two, and the
  deletion of the group, are all that strands an instance, and every member without
  a stranded instance comes to be served.
* `DeletionCleansUp` without its second disjunct (a property for
  `StaticGroups.cfg`): an instance reads the configuration, `DeleteStatic` deletes
  the key and lists the consumers, the instance creates its durable consumer, and is
  stopped (`static_stream_consumer_group.go:189-193`) before it reads the delete
  marker.  The consumer stays.  No call has failed.  `Overlooked` names exactly this.

### Other observations

Behaviour that the models have, that no property above calls wrong, and that a
reader of the code should know of:

* RequestMany: a publish that fails, and an iterator that is never ranged over,
  leave the subscription (`requestmany.go:125`).  A cancelled context ends a loop
  with an error, or silently when the goroutine unsubscribes first or the stall
  time is in use.  A direct get cut off by the deadline or by the stall time ends
  like one that is complete: `Nats-Num-Pending` is not looked at.
* `GetMultiple` calls `yield` after it returned false where a value does not
  parse, which panics (`counters.go:207`).
* FastPublisher: nothing is ever sent to `initialErrCh` (`fastpublish.go:341`), so a
  first message that the server refuses is reported as a timeout, after the whole
  `ackTimeout`, though the doc of `Add` suggests otherwise.
* BatchPublisher: a message whose publish fails has taken its sequence, so no
  later `Commit` of that batch can succeed; `Commit` after an unanswered `Commit`
  never succeeds either, though the first may have been stored, and `IsClosed`
  stays false.  `AddMsg` of a message that was used to commit another batch
  commits this one.  `PublishMsgBatch` panics on a message without headers.
* KV codecs: base64 followed by path makes keys with dots undecodable; one such
  key fails `Keys`, a lister skips it, a watcher gives it as it is stored.  The
  path codec gives `a.b` and `a/b` one key.  A caller who stops reading a
  watcher's channel leaves its goroutine blocked (`kv.go:382`).
* A client that writes to the bucket without the codec, under a key that happens to
  be base64, makes `Keys`, listers and watchers give a key that nobody wrote
  (`base64_codec.go:45`).
* Direct get: `UpToSeq(0)` is accepted and has no effect, since the field is left out
  of the request when it is zero (`getbatch.go:51`).
* Static groups: the error of the consumers' listing is not looked at
  (`static_stream_consumer_group.go:288`), so `DeleteStatic` may leave consumers
  and return nil.
* Pages: an item is skipped when one before it leaves between two pages, or when it
  moves towards the beginning past the offset; it is given twice when something
  comes in front of it, which every sort of connections but `ByCid` lets happen
  without anything leaving.  A loop that began with a ping stops at the first
  page's total, so it skips what was pushed past it; and it asks for empty pages
  for ever once the list is shorter than it was at first.  An answer with `Error`
  set ends a loop over one server's pages as if all had been given
  (`connz.go:241-245`), and makes a loop that began with a ping ask again at once.

### Bounds, and why they are enough

* `filters`: up to 7 partitions and 5 members covers members that divide the
  partitions, that do not, and more members than partitions; lists of up to two
  mappings of up to two of the numbers -1 to 2 cover each way of being invalid for
  groups of one to four.  `MaxRevision = 2` creates a group and changes it once,
  which reaches every set of members.  All three properties are proved for all sizes.
* `admin`: two clients are enough for every read-write race; `MaxRevision = 4`
  lets a group be created, changed by both, and deleted or recreated.
  `MaxRevision` stops new operations, not those under way.
* `instances`: two members are the smallest membership in which partitions move.
  `MaxEvents = 3` counts the entries of the key, the first included, and the faults
  together: two changes (or a change and the deletion), the second while the first
  is being handled, or one change and one fault at any point: a failed call of
  `processMembershipChange`, `joinMemberConsumer` or `startConsuming`, a
  disconnection or a crash.  A `Stop` and a watcher that closes are in
  `instances_peers`, as a step down and a slow callback are.  `Shifting` has one
  member, both, and both with their partitions swapped, which is the case in which
  neither consumer can be created before the other is deleted.
* `instances_peers`: two instances of one member, with the same bound, which
  leaves room for a group deleted and created with another size; one message
  suffices for pending, redelivered, acknowledged late.
* `static`: four entries are created, deleted, created otherwise, deleted.  One
  administrator and one fault, and any number of stops; two administrators with
  three entries hold too but take several minutes.
* `fast`: four messages with flow 2 and one outstanding ack stall, go on and
  stall again; three losses are one more than the pings that recover; `MaxPings`
  is 2 by the code's ratio of ticker and timeout.
* `batch`: one publisher and one `PublishMsgBatch` that share two messages is the
  least in which a header passes from one batch to the other; slices of one, two
  and the same message twice; up to two messages and a commit, and another
  commit; two faults of any kind, so that a commit may fail, be tried again, and
  fail again.
* `gather`: three answers are data, more data and an end of any kind; two loops
  share the count; calls cover each layer, each option and each conflict, with a
  stall time and without, with a deadline and without.
* `kv`: four keys that differ only by separators or a leading slash, in seven codecs
  (each kind, and chains in both orders), two foreign keys (one that base64 decodes,
  one that it does not), two writes, and a channel of one place, so that the
  goroutine blocks.
* `pages`: three items, in every list that they can make, are the least in which
  two change places while a third is on the page before; pages of one and two,
  offsets at the start, within and at the end.

`CHECK_DEADLOCK FALSE` stands in every configuration: callers may stop calling,
and the bounds end behaviours.  Waiting forever is what the liveness properties
and `CallsReturn` are about.

### Fairness

* Instances: goroutines run and calls to the server return (`WF` of `Routine`),
  timers fire (`WF` of `Retry`, `Expire`, `PinExpires`), a stored entry arrives
  in spite of the retry timer (`SF` of `Receive`: the select takes each ready case
  with positive probability), an attached context pulls (`WF` of `Pin`) and a
  waiting message comes in spite of other deliveries (`SF` of `Deliver`),
  callbacks return (`WF` of `Finish`), a begun deletion reaches the stream.
  Administrators, starts, stops, crashes and faults have none.
* Static groups: calls return, entries arrive, goroutines run.  `CreateStatic` and
  `DeleteStatic`, once begun, go on.
* FastPublisher: the goroutines and the timers run, calls once begun go on.  The
  server and the connection owe nothing.
* RequestMany: a loop goes on while its body returns, its goroutine runs, and a
  deadline passes (`WF` of `Loop`, `Watcher`, `Expire`).  Nobody needs to answer.
* KVCodec: the goroutine reads, sends and ends, and the caller reads the channel
  (`WF` of each), as `kvcodec/README.md` asks.
* ServerPages: requests are answered or fail, and the caller goes on (`WF` of
  `GoOn`); that the caller leaves the loop is not assumed.
* BatchPublisher has safety properties only, and no fairness.

`SelfCorrects` and `Converges` are stated for what the latest entry says once the
entries stop changing, which the bound on entries makes every behaviour do.

### Preconditions in the properties

* `Settles` leaves out "blind" instances, which the code does not stop.
* `DeletionCleansUp` assumes that no call failed and nobody crashed: a failed
  delete is noted and not tried again, and a listing that fails not even noted.
  `Stop` is no failure: instances may be stopped at any time, and only an instance
  that is `Overlooked` leaves its consumer behind.
* `OutstandingBounded` assumes that no message failed to be published; one that
  failed keeps its sequence although it was not sent.
* `CallsReturnOnce` leaves out a `Commit` repeated after one that could not be
  published, because `fast_hang` shows that case hanging.
* `ImplementsAckedLog` promises a log without holes, and acknowledgements true of
  all that is before them, to batches that end at a gap (`gap: fail`, as the comment
  on `AckSequence` has it), and to no others.  A reported commit covers what was
  added before it; whether the message that commits is stored too depends on the
  call (`Close` sends none).
* `SelfCorrects` in `instances` is about one instance per member, and leaves out the
  members whose instance is stranded; `instances_standby` asks for `Converges` with a
  standby and a crash, and its answer is no.
* `ImplementsAtomicBatch` and `CommitTells` leave out, as to where a batch ends and
  what a refusal means, the batches that were given a message which had the commit
  header already (`stale`).  `StoredUponCommit`, the first half of that as an
  invariant, follows from the refinement: no configuration names it, and it has a
  theorem (`OnlyCommittedIsStored`).
* `NothingAfterStop` says that only `GetMultiple` may panic; `EndsAtEnd` is about
  the first loop before its deadline.
* `KeysAllOrNone` and `ReaderGetsItsKeys` go by what a key means: what its writer
  used, or, for a key of another client that base64 takes for its own, what it decodes
  to.  `ReaderCompletes` assumes that the channel is read.
* `NoneTwice` and `SkippedOnlyIfMoved` name what must have moved for an item to be
  given twice or skipped, and for which orders of the list it can have; a loop that
  an answer with its `Error` set has ended is left out of the second.
* `PagesEnd` is about every loop over one server's pages, and about the loops that
  began with a ping if no item has left and the server gets over its error.

## 4. Proofs

**ElasticAdmin_proofs.**  The inductive invariant is

```
IInv == TypeOK /\ StoredConfigValid /\ DraftsValid /\ UpdatesCurrent
```

`StoredConfigValid` alone is not inductive: a write stores a draft, so drafts
must be valid while the call lasts (`DraftsValid`); and a draft of `AddMembers`
or `DeleteMembers` must be the operation applied to what is stored if the
revision is still the one that was read (`UpdatesCurrent`), which also gives
`MembershipUpdateIsAtomic`.  `AdminAssumption` says that names are finitely many
numbers, that shapes, partitioning filters and mappings have the types of the
code, and that `NoConfig` is no configuration.  Theorems: `AdminInvariant`,
`AdminTypeCorrect`, `StoredConfigAlwaysValid`, `MembershipUpdatesAtomic`, for any
number of clients, names and shapes, and with no bound that matters
(`MaxRevision` is any number).

What is valid is worth something to the members: `OneOwner`, `Balanced` and
`AcceptedMappingsAreTotal` are theorems of the same specification, about whatever
is stored at any time, and rest on theorems about the operators of
PartitionFilters.  `BalancedHasOneOwner`: for every number of
partitions and every finite set of members, `OwnerIndex` is below the number of
members that take part, ranks are a bijection from those members to the indices
(proved from the cardinality of initial segments), hence every partition has
exactly one owner.  With mappings, `ValidMappings` says that the partition numbers
are pairwise distinct, in range and as many as the partitions, so they are all of
them.

`Balanced` says that the shares of the members that take part differ by at most
one, and that as many take part as the partitions allow.  With *q* the quotient
and *r* the remainder of partitions and members, the member of rank *k* owns one
block of *q* partitions and, if *k < r*, one of the last *r* partitions
(`ShareKnown`, by a bijection of the block with `0 .. q - 1`), so a share is *q*
or *q + 1*.  `AcceptedMappingsAreTotal` is the other half of validation:
`SetMemberMappings` accepts a list of mappings if and only if it names no member
twice, gives every partition to exactly one place, and has no more places than
partitions.  A list of as many places as partitions is a function onto the
partitions exactly when it repeats none, which is the pigeonhole principle
(`AcceptedIffFunction`).

**ElasticInstances_proofs.**  The inductive invariant is

```
IInv == TypeOK /\ ViewsValid /\ Joined /\ Separate
```

`Joined` says where the goroutine is while it has a consumer and while its context
pulls; `ContextsCanBeStopped` follows from it, and is not inductive alone because
nothing in it keeps `joinMemberConsumer` from running while a context pulls.
`TypeOK` says that pending messages are in the stream, and needs `Separate` (no
partition in the filters of two consumers, pending messages are of the consumer's
partitions): otherwise an acknowledgement through one consumer could remove a
message pending on another.  `ViewsValid` is what makes a new view, put together
from an older view and an entry, equal to that entry.  What steps do to the server's
consumers is stated once, in lemmas (`RemovedSound`, `PinnedSound`, `PendingSound`,
`CreatedSound`, `DetachSound`).  Theorems, for any number of instances, members,
configurations and messages: `InstancesInvariant`, `InstancesTypeCorrect`,
`EveryContextCanBeStopped`, the refinement `GroupKeepsPromise`, and, when every
member has one instance, `AloneConsumesItsPartitions` and `AloneStrandedByLossOnly`.
The hypothesis of the first of these two is needed: a context that starts after a
peer deleted the consumer pulls from whatever consumer of that name comes next.
That of the other is, too: a peer that replaces the consumer strands an instance.
`AloneStrandedByLossOnly` is the safety half of `SelfCorrects` and goes through the
steps one by one (`StrandingStep`): whatever takes a consumer away from an instance
that is in its loop either tells it so, or is one of the two losses or the end of
the group.  `InstancesAssumption` says that a configuration is a record of four
fields with a size in `Nat`, that partitions are numbers, and that the marker values
differ from the others and from consumers.

`GroupKeepsPromise` maps the creation of a consumer to `Join`, its deletion and
expiry to `Leave`, `Deliver`, `Redeliver` and an acknowledgement that counts to
`Hand`, `TakeBack` and `Acknowledge`, the administrator's steps to `Change`,
`Delete` and `Close`, and all the rest to a stutter, since neither pins nor what
instances know show in it.  `Join` needs `Sourced`, a second invariant: whoever
runs goes by a configuration that was stored (`ViewReceived`, and that the
log only grows).  `Hand` needs `Separate`: a message that is pending elsewhere is of
the partitions of another consumer.

**BatchPublisher_proofs.**  The inductive invariant says of each batch

```
BatchOK(b) == Bounded(b) /\ InOrder(b) /\ Prefixes(b) /\ Asked(b) /\ Told(b)
```

`InOrder`: requests on their way have growing sequences, all beyond what the
server staged or stored, and only those the caller commits with (or, for a
`stale` batch, a message with a leftover header) have the commit flag.
`Prefixes`: what is staged or stored is a beginning of what was given, with no
commit before its end; both are never non-empty at once, since the next message
accepted would then have sequence 1.  `Asked`: at most the last request has an
answer under way, and the answer to a commit is true of what is stored.  `Told`:
what the caller was told.  None of the four properties is inductive alone, since
each depends on what is still on the wire.  Steps are treated one by one; what is
common to them (a message given, sent or refused; a request taken from the wire)
is stated once.  Theorems, for any number of publishers, calls, messages and
slices, any flow control and any number of faults: `BatchInvariant`,
`BatchTypeCorrect`, `OnlyCommittedIsStored`, `RefusalsAreTrue`, `NoSecondCommit`,
and the refinement `BatchesAreAtomic`: `CommitArrives` maps to `Acknowledge`,
`Accept` of a commit to `Store`, `AddMsg`, `CommitMsg` and `PublishNext` to
`Give`, and every other step to a stutter.  `BatchAssumption` says that
publishers and calls are distinct, slices are not empty (an empty one is an error
before anything happens), and the bounds are natural numbers.

**StaticGroups_proofs.**  The inductive invariant `IInv` says that logs only hold
entries that may be written, that an administrator in a call is about a group,
that whoever has been started found an entry (so the watcher has a value to begin
with), and that nobody pulls but in the loop.  `StaticInvariant` and
`StaticTypeCorrect` hold for any number of administrators, groups, instances and
configurations.  `AloneConsumesItsPartitions` needs `OwnConsumer` besides: from
its creation on, an instance's consumer is its own configuration's or gone, which
is not inductive without `IInv` because a view that changed while a context pulls
would break it.  The hypothesis `OneInstanceEach` (no two instances name the same
durable consumer) is needed: with two instances of a member, one that has created
the consumer, and has not yet called `Consume`, may find there what its peer
created after the group was deleted and created otherwise.  TLC finds that
behaviour when `Member` of the run `static` is `WithStandby`.

**FastPublisher_proofs.**  The inductive invariant is

```
IInv == Types /\ CallerOK /\ Ordered /\ Stored /\ RequestsOK /\ AnswersOK
        /\ OutstandingBounded
```

`Ordered`: what is acknowledged is not beyond what the server has come to, nor
that beyond what was sent.  `RequestsOK` and `AnswersOK` say the same of what is
still under way, in both directions: sequences never fall, requests are ahead of
the server and acks behind it, and each ack is true when it arrives.  Without
them an ack could take `ackSequence` back, which would break
`OutstandingBounded`, or ahead, which would break `AckedArePersisted`.  `Stored`:
an open batch without gaps has no hole.  `CallerOK` is what the caller knows at
each wait, for example that only the first message is out while it waits for the
first ack.  Theorems, for any flow, limit, number of messages, losses and faults:
`FastInvariant`, `FastTypeCorrect`, `AcknowledgedIsStored`, `AddsAreBounded`.  The
last rests on `LimitKnown`: the flow the server announces is never above the one
that was asked for, so the limit at the time of sending is never above the first.

`StalledAddsRecover` needs a second invariant on top of it,

```
Recovery == Begun /\ Opened /\ Informed /\ Signalled /\ Asking /\ Recovers
```

`Recovers` is an account of a wait on an open batch: either nothing that is known
or on its way makes the publisher wait (`Settled`), or the losses, the requests on
their way with the sequence that stalls, and the acks on their way with which, and
with all that follow, the publisher goes on, are together more than the pings sent.
Each ping and the message itself is one of the three.  Losing one moves it to the
losses, and serving it turns a request into an ack, which is where the rest comes
in.  The server may pass over the message that stalls without an ack, when it has
not yet come to as many as it announced; then the ack before is enough, and
`Informed` says that it is known, on its way, or lost.  `Asking`: until the server
comes to that message, none of the pings has been answered, so an older request
that is lost or answered by an ack of no use costs nothing.  `Signalled`: an ack
with which the publisher can go on has left its signal in `stallCh`, so the select
has another choice than the timeout.  `Opened` and `Begun` rule out an ack that
finds no channel, or goes to the first `Add` instead.  At a timeout with nothing on
its way both counts are zero, and more was lost than there were pings.  The counts
are cardinalities of places in the two directions of the connection; what a message
more or less does to them is in `CountSent`, `CountTaken`, `HelpSent` and
`HelpTaken`.

That the publisher keeps the log of AckedLog (`PublisherKeepsLog`) is proved step
by step, with a third invariant on top of the first:

```
LogOK == Newer /\ CommitIsLast /\ (Said => Sealed)
```

`Newer`: a request on its way is newer than what the server has come to and than
all that is ahead of it, so nothing is stored twice or out of order (`Ordered`
allows equality, for pings).  `CommitIsLast`: a commit on its way is the last
message, and the publisher sends no more.  `Said => Sealed`: wherever the server's
`committed` is (on its way, in `commitCh`, or with the caller), the batch is over
on both sides and without a hole.  The last one is why `Committed` maps to
`Report`: at the time of the call nothing of the publisher tells what is stored.
The steps that send and store nothing are treated together (`QuietLogged`).
`AckedArePersisted` follows from the log's steps, so no configuration names it; it
has its own theorem, since it is what the comment on `AckSequence` says.

**RequestMany_proofs.**  The inductive invariant is

```
IInv == Talks /\ Bounds /\ Asks /\ Counted
```

`Talks` keeps, over all loops, that the caller's yields follow each other in the
order of the loops and that within a loop only the last one may be the caller's
leave (`Told`), that a loop still going after an error or a leave is
`GetMultiple`'s (`Going`), and, for the first loop of a direct get, that there is
one yield for each answer read (`InStep`) and that only the end of the context can
have closed the subscription (`Open`).  `Counted` relates what was given to
`reqOpts.count`, which all loops share: while the subscription is open, the count
is positive and what is given and what is left add up to what was asked for.
`AtMostCount` alone says nothing of the count, and an invariant without "the
subscription is open" is false: the count reaches zero with the message that ends
the last loop, and a loop begun after it must find the subscription closed.
`LoopKnown` says once what a step of a loop can do: wait, end, panic, or tell the
caller one thing more.

`Asks` says which request was sent.  `AppliedAsAsked` is about the options alone:
if none is refused, the request has the sequence of the last option that gives
one, and a start time exactly if an option gives one, and never both; a batch with
neither starts at 1.  The options are applied one after another, so `InOrder` is a
recursive function; that it is what its definition says, and that it does what
`ApplyAsAsked` states, is shown by the smallest number of options that do
otherwise (`LeastOfNat`).

Theorems, for any calls, options, answers and loops: `RequestInvariant`,
`RequestTypeCorrect`, `CountIsKept`, `AsksAsTold`, `NothingFollowsStop`,
`SilentEndIsWhole`.  `RequestManyAssumption` says that a direct get asks for no
stall time and for no sentinel but its own, as `getDirect` does
(`src/jetstreamext/getbatch.go:219`), that a number of messages is at least -1
(the value of "no limit", `src/natsext/requestmany.go:101`), and that an option is
one of the three kinds with a natural number.

**ServerPages_proofs.**  The inductive invariant is

```
IInv == Types /\ Known /\ Single(items) /\ Behind /\ Once /\ Kept /\ Covered
        /\ Passed /\ Ordered /\ Fresh
```

`Behind`: what was given and is still in the list lies before the offset, unless it
was pushed back; that is why a page, which begins at the offset, gives nothing twice
that was not (`Once`), and `NoneTwice` alone does not say it.  `Kept` and `Covered`
are about the items that the first answer counted: each is where it was, or has
left, or has moved, and then is further back only if it was pushed; and what the
offset has passed was given, unless it was pulled.  `Passed`: a loop that ended by
itself, and not by an error, has passed the whole list, or after a ping as many
places as it had at first.  `Ordered` is what the order of the list adds: nothing is
pushed in a list that grows at its end, and, where no two items change places,
nothing is pulled before something has left.  The second needs that a list in
which all the earlier items are there, in the same order, has each of them at its
place or further back, which is the pigeonhole principle again (`Places`).  A step of
the server is one lemma for all its orders (`RelistStep`), and so is a page for all
iterators (`PageStep`).  Theorems, for any offsets and page sizes and any number of
items, in each order of the list: `PagesInvariant`, `PagesTypeCorrect`, `GivenOnce`,
`SkippedIfMoved`.

**KVCodec_proofs.**  `KVTypeCorrect` needs nothing of the codecs.  The other
theorems assume that every codec is faithful (`AllFaithful`), the part of the
argument that is about what folds over codecs and symbols compute; `KVCodecMC`
states it of the seven codecs of `kv`, and TLC evaluates it.  From it follows, for
any keys, patterns, writers, number of writes and room in the channel:

* `KeysAreKeptApart` and `KeysAreAllListed` follow from the types alone: the
  entries stored under a key are those whose writers meant it, their greatest
  revision is what `Get` gives, and decoding is a bijection from the keys that have
  a value to the list.  A foreign key that is base64 by chance counts among them, with
  what it decodes to as its meaning; so the list may have names that nobody wrote,
  which is what the theorem says of it.
* `ReadersGetTheirKeys` needs an invariant of its own,

```
KVInv == TypeOK /\ Flow
```

  `ReaderGetsItsKeys` says that what was received is the beginning of what is due,
  which is not inductive: nothing in it keeps the channels from holding something
  else.  `Flow` says what they hold.  For a watcher, what it received, what is in
  the channel, what the goroutine holds and what is in the channel below make up,
  in this order, what is due, but for a rest that is empty unless `Stop` was
  called.  For a lister, the same with the keys below it that can be decoded.  No
  step of the goroutine or the caller changes that sequence
  (`WatcherPassesOn`); a write makes it longer exactly when it makes longer what is
  due.  What is due is given by sets of revisions and `InOrder`, which a `CHOOSE`
  defines: that sets of revisions have exactly one enumeration
  (`EnumerationExists`, `EnumerationUnique`), and what becomes of it when the least
  element goes or a greater one comes (`InOrderLeast`, `InOrderAppend`), is proved
  first.

**Only model-checked.** Liveness (the second half of `SelfCorrects`,
`DeletionStopsAll`, `Settles`, `DeletionCleansUp`, `CallsReturnOnce`, `LoopsEnd`,
`ReaderCompletes`, `PagesEnd`) is beyond the prover.  So is that the codecs are
faithful: the encodings are folds over the codecs of a chain and the symbols of a
key, and what a fold computes for every key is an induction over data.  TLC
evaluates it for the keys, patterns and codecs of `kv`, as an assumption of
`KVCodecMC`; a mistake in an encoding, a chain undone in the wrong order or a
pattern encoded otherwise than its keys makes it false.

The library's induction theorems take an operator as a parameter and cannot be
used.  Where a proof needs induction over numbers it is by the least
counterexample, from `WFMin` of the library's well-founded relations.

## 5. Not modelled, and why

* The listing and inspection functions of pcgroups, the `cg` command line and the
  message wrapper: they change nothing, or pass on to the operations above.
* `natssysclient` but for the iterators over pages and `pingServers`: one request
  and its decoded answer per function, mostly declarations of the answers'
  fields.
* `natscontext`: reading a file into connection options.
* `counters` but for `GetMultiple`: `Add`, `Load` and `Get` are one call to the
  server each, whose arithmetic is the server's; `GetCounter` checks a stream's
  configuration.
* `kvcodec`: `Bucket`, `Status` and `PurgeDeletes`, which pass on to the bucket
  below; what base64 does to the letters of a token.

## 6. Plan

A watcher that reconnects and skips entries, in ElasticInstances: what is left of
the invariants when a view may come from any later entry.
