# TLA+ models of the ABC protocol SDK for Go

The repository is an SDK for two roles that talk over NATS: an *agent* (it runs
turns of conversations, calls tools, consumes a mailbox) and an *extension* (it
serves tools, hooks, variables and configuration). Both run as any number of
processes ("replicas"); whatever they share lives in JetStream streams, key-value
buckets and object buckets. Each module here models one protocol between such
processes, at the grain of the requests that the code makes: a request is applied
by the server in a step, its answer is taken in another one if the code does
something in between, and other processes, goroutines, crashes and time come in
between.

`PROJECT.json` lists the runs, the properties with a mutant each that breaks it,
the source lines behind every definition, the hazards and the theorems.

## 1. The system

| part | state | operations | talks to |
|---|---|---|---|
| session lease (`agent/lease.go`) | one KV key per session in `abc-session-state`; run context, `lost` channel | ClaimSession, RenewSession, ReleaseSession, IsSessionRunning, WithSessionLease | KV bucket |
| tool calls and interrupts (`agent/agent.go`, `extension/extension.go`) | per replica: `inflight` registry, receive loops; queue groups | CallTool, Interrupt, InterruptSession; pumpTool, handleToolCall, serveInterrupt, Serve, Close | request/reply, queue groups |
| mailbox and dead letters (`agent/agent.go`, `transport/nats`) | two streams with a durable consumer each; `nakCount` per loop | PublishMailbox, ConsumeMailbox, ConsumeDLQ, RequeueDLQ; ack, nak, term | JetStream |
| configuration (`agent/config.go`, `extension/config.go`) | authority's maps, KV bucket `cfg`, `ConfigStore` of each replica | SetConfig, DropSessionConfig, recover; serveConfig, applyConfigSet, applyConfigKV | KV bucket and watch, request/reply |
| file store (`protocol/file.go`) | durable object bucket; metadata and dedup index in one KV bucket | Put, Get, Stat, BySha, Delete | KV, objects |
| presence and discovery (`agent/agent.go`, `extension/extension.go`) | KV bucket `abc-presence` with a TTL, `manifestCache` | startPresence, serveDiscovery, Close; Discover, ensurePresence | KV bucket and watch, broadcast |
| variables (`agent/agent.go`, `extension/extension.go`, `extension/config.go`) | KV bucket `vars`, resolvers, a loop per variable | ResolveVariable, SetVariable, SetSessionVariable, DeleteSessionVariables; serveVariables | KV, request/reply, queue groups |
| hooks (`agent/agent.go`, `extension/extension.go`) | handlers and schemas, a loop per hook | CallHook, PublishEventHook; serveCallHooks, serveEventHooks, validateHookSchema | request/reply, queue groups |
| lifecycle events (`agent/agent.go`, `extension/extension.go`, `events/lifecycle.go`) | none of their own | PublishLifecycleEvent, serveLifecycle; LifecyclePublish, LifecycleConsume | publish, queue groups |
| stream topology and replay (`transport/nats`) | configurations of three streams, retained events | ConnectWithOptions, ensureStreams; PublishSessionEvent, Replay | JetStream |
| embedded server (`natsrun/natsrun.go`) | a process and its directory | Start, precreateMemoryStream, Stop | JetStream |
| envelope and identity (`transport/nats`, `identity/identity.go`) | a shared secret | buildEnvelope, decode, signMsg, verifyMsg | every message |
| naming (`protocol/protocol.go`) | none | subjects, tenant keys, EscapeKVSegment, subjectMatch | used by all |
| manifest files, translations, S3 objects, generated types | see `components` in PROJECT.json | | |

What is hard about it:

* Every operation on shared state is several requests, with no transaction around
  them: a lease is claimed, renewed and deleted by separate requests, a
  configuration value is written three times, a file put is three requests, a
  dead letter is a copy followed by a term.
* Goroutines: the lease's renewer next to the run, a goroutine per tool call next
  to the interrupt loop, a watch goroutine next to a request loop.
* Queue groups: a call and the interrupt that is meant to abort it are routed to a
  replica independently.
* Serial loops: each subscription of a replica has one loop, and what it delivers is
  ordered with nothing that the other loops do: the deletion of a session's variables
  overtakes, or is overtaken by, the resolvers that write them.
* Several processes repair the same streams at once, each with a look and a change.
* Crashes, lost answers, late redeliveries, time-outs: the code relies on TTLs,
  at-least-once delivery and heartbeats to get over them.

What makes each part correct: at most one replica runs a session's turn, and a
replica that lost the lease stops; an interrupt aborts all that it covers and
nothing else; a message that left the mailbox was handled or is a dead letter; at
rest a replica has the bucket's configuration, never a value whose rejection was
reported; metadata never precedes bytes, and the index can be followed; an agent
knows the extensions that are present, and forgets the others; a session's variables
go with it and are nobody else's; a hook's handler sees what its schema describes; who
is connected finds the streams as it wants them; a replay has every event.

## 2. The modules

**SessionLease** (`agent/lease.go`, KVCreate/KVCas/KVDelete/KVGet). A caller is two
threads: `pc` is where `WithSessionLease` is (idle, claimed, fn, release, check),
`renewer` is where the goroutine is. `key` is the KV entry with its revision;
`tick`/`timer` are the `time.Ticker` with its channel of capacity 1. Time is an action
`Clock`; `lag` counts how long a caller has left work undone, and `Slack` bounds it.
`Clock` cannot pass it: a caller that would be later than `Slack` is out of the instance.
The field `key.by` (who deleted it) is auxiliary. `IsSessionRunning` is false also when its
read of the bucket fails, as KVGet takes any failure for a missing key.
**ExclusiveRun** is the abstract promise ("runs fn while holding the session's
exclusive cross-replica lease"): a set of running replicas, entered when empty.
SessionLease implements it with `running <- {r : pc[r] = "fn"}`, under `Timely`
(`Slack < Period /\ Period + 2 * Slack < TTL`).

**ToolCalls**. Per call: what the caller sees and how far the call got; per
replica: the registry `inflight`, the functions taken out of it and not yet called
(`aborting`: `cancelInflight` takes them under the lock and calls them after it), the
receive loops that are alive. `Covers`, `Tracked` and `Untracked` are the map operations
with their keys (tenant, session, call id), so that two calls under one id share an
entry; a call without a session is not registered at all. `Reply` is the one publish of the
answer; its error is discarded, and the answer is then `unsent`. `BadMessage` ends a receive loop, as `natsSub.Next` does when it rejects a
message, while the queue subscription keeps taking messages.

**Mailbox**. The two streams as a state per message (none, ready, out, delayed, gone, or
expired: both have a MaxAge of 24 hours); a `ConsumeMailbox` loop with its message, its
verdict and its nak counts; readers of the dead letters that accept, put back or requeue.
`TermCopy` and `TermDrop` are the two requests of `Term`. A loop ends when nothing is ready
for two seconds (`IdleExit`) or at a message that it cannot decode. Who created a durable
deletes it when he closes his subscription: `CloseMailbox`, `CloseDLQ` and one outcome of
`RequeueAck` make every message that has not expired ready again (`Anew`). `closed`, `taken`
and `failures` are auxiliary; `failures` counts per consumer process, and `MaxFailures`
bounds it, above what the properties ask of it. The malformed-letter branch of `ConsumeDLQ`
is not there: such a message cannot be parked by this code.

**ConfigSync**. One key of one extension: agent memory, bucket (a log of which the last
entry is retained), request queue, watch and store of each replica. It extends **KVKeys**:
what `configKVKey` makes of a tenant, an extension, a session and a name, byte by byte where
names are escaped, and what `applyConfigKV` reads from it; the name of an item is the sequence of the parts between its
dots, since nothing escapes or forbids them. Values are stored in an envelope with their
revision; `Decoded` is what the two readers make of it, which is the envelope itself and no
revision if the value is JSON's null. One agent call is
`SetConfig`, `Persist`, `Send`, then `Acked`, `RolledBack` or `Expire` (the time-out). A
replica has two goroutines, the watch (`ApplyConfigKV`) and the request loop
(`ApplyConfigSet`, then `OnConfigChange`, whose answer may come after the caller has stopped
waiting, or may not be sent). `upset` is auxiliary: which of the events happened
that the code does not make up for; `"read"` in it says that an agent could not read the
bucket and took the key for missing, `"null"` that it could not read back the revision of a
null.

**FileStore**. Three requests per put, three per delete, two per get; a content is its
hash, so bytes, metadata and index are functions to contents or codes. `careless` is
auxiliary: it becomes true when a put and a delete of one code overlap, a code is put
with a second content while it has one, the deletion of an index entry fails, or a
Delete cannot read the metadata.

**Presence**. Replicas put, refresh (`Beat`, `BeatApplied`) and delete the key they share;
an agent has a cache with two writers, the watch goroutine (`Apply`) and `Discover`
(`Look`, `Answer`, `Collect`). The key expires without an event to the watches: the bucket
is created with a TTL and without delete markers. `excused` is auxiliary. One `Discover` at
a time per agent is modelled.

**Subjects** and **Wire** (pure, used by the two modules below). A subject is the sequence of
its tokens; `Matches` and `Overlap` are what the server means by a filter, `subjectMatch` is
what the client makes of it, in its one pass. A message is its subject, its envelope and
its two headers: `Sent` is what a bus does with a payload, `Received` what another bus makes
of it, with another secret or none perhaps. A signature is the secret with the text
that was signed, so equal signatures are what the HMAC promises.

**Streams**. A process connects (`Connect`), and for one stream after the other looks (`Info`)
and changes (`Add`, `Update`), or dies or loses an answer between the two. `streams` is the
configuration of each, `Layout` what a server may have been left with. The embedded server
starts and stops (`Start`, `Precreate`, `Stop`); in Memory mode clients can connect between
`Start` and the last `Precreate`, which is when the streams are made. Who is connected
publishes a session's events, which expire oldest first, and replays them: one look at
every stream for one that takes the channel, with `subjectMatch`, then one message at a
time, until half a second goes by without one (`ReplayEnd`), also with messages pending. The
consumer of a replay wants acks and gets none, so the server delivers to it again what it
has delivered (`ReplayAgain`, which `MaxAgain` bounds). `since`, `promised`, `expired` and
the fields `due`, `blind`, `cut` and `again` of `reader` are auxiliary.

**Sessions** (with **HookSchema**). An agent creates a session, deletes it and creates it
again under its name; its lives are numbered, and the value of a session's variable is the
number of the life that it was computed in. `inbox` and `task` are what each loop of each
replica (lifecycle, one per variable, one per hook) has received and is at.
`ResolveVariable` is two reads (`Lookup`), a request (`Ask`) and a time-out. A request has a
number that no other one has; it stands for the subject that its answer is sent to. A
resolver is `Resolve`, `Store`, `Answer`; the deletion of a session's variables is one
`DeleteVariable` each. `CallHook`, `Call` and `Event` use `validateHookSchema`, by way of
`ValidUnder`, a recursive function from a value to the schemas that it is valid under, which
`Conforms` restates along paths. A schema's `foreign` keywords have a Go value of another type
than decoding JSON gives, and are passed over. `WellFormed` is a schema that says only what
the code looks at, and `Enforced` one whose valid values conform. An answer may never be
sent; the caller of a hook is then `forsaken`, which he does not know: the step is auxiliary,
he goes on waiting. `disturbed` and `handled` are auxiliary too:
which lives ended with a write of theirs under way, a failing deletion or a death, and which
messages a handler was called for.

Each `MC<Module>` names the constants of the instances, MCMailbox and MCStreams some constraints as well.

Abstractions that hold everywhere: payloads, names, errors and wording are values of
small sets; what a tool returns, the OnInterrupt callback, progress messages and
logging are left out; a KV request is one atomic step of the server.

## 3. The runs

| run | shows | bounds and why they are enough |
|---|---|---|
| LeaseExclusive | TypeOK, MutualExclusion, RunningIsVisible, HeldUntilExpiry, RunsExclusively (refinement) | 2 replicas, TTL 6, Period 2 (TTL/3 as in the code), Slack 1: a renewal may come late, be refused or lose its answer, crash and expiry happen, a second claim follows, reads fail. Six revisions: no more are remembered at once |
| LeaseLosses | LostForGood, LostRunStops, OrphanExpires | TTL = Period = Slack = 1: every renewal may be too late, so leases are lost all the time |
| LeaseStaleRelease | *violation* of HeldUntilExpiry | Slack above the TTL: the late release deletes another replica's lease |
| ToolsInterrupt | TypeOK, CancelScope, Abortable, NoLeak, SignalAborts | 1 replica (calls and interrupts of two replicas share nothing), 2 calls of one session and one of its tenant without a session, 3 signals (the session, its tenant, the same session name of another tenant), stops, deaths, bad messages |
| ToolsLive | AbortedIsAnswered | 2 replicas, one id for two calls (a call made again), answers that are not sent, stops and deaths; fairness |
| MailboxSafe | TypeOK, NothingLost, LettersKept | 2 consumers, 2 readers, all faults: crashes, late redeliveries, lost acks, failing copies, expiry, deleted durables. A message whose handler may say anything and the id that it gets when it is requeued, or a malformed message alone. When the requeued message is there, one consumer at a time is at work (constraint `Scenes`): two at a time meet on the first message |
| MailboxPoison | PoisonBounded, ParkedForCause, PoisonParked, EventuallyClosed | 2 consumers that share the durable and end when nothing is ready, redeliveries after AckWait while one is at work, expiry, a poison, a malformed and an undecodable message; maxNaks = 2, so that the two may fail 4 times on one message, and `MaxFailures` = 3 counts past the limit of each |
| ConfigConverges | TypeOK, KeyIsReadBack, Converges, RejectedIsGone, RevisionsGrow | 1 agent, 2 replicas, 2 sets of an item of type json (a value, a rejected one, null), both scopes, both ack modes, all faults. Keys: names of sessions up to 3 bytes (an escape is 3 bytes long) out of 8, among them the equals sign, digits of both cases, a dot, zero and 255; names of items with and without a dot |
| FilesAny | TypeOK, MetaHasBytes, IndexIsSound | 3 clients, 2 codes, 2 contents, failures anywhere: two clients on one code and a third on the other with the same content |
| PresenceCache | TypeOK, KnowsThePresent, ForgetsTheAbsent, SiblingsRecover | 2 replicas of an extension, 4 starts, an agent, all faults; extensions do not share keys, one is enough for a property of one |
| StreamsReady | Ready, FailsForCause, ReplaysAll | 2 processes, 3 connects, 2 events, an embedded server that starts twice or one of 5 layouts (none, the legacy one, one half migrated by hand, a stray filter, two swapped filters). One delivery is made again in a replay (`MaxAgain`): each such step is the same. Both processes want the MaxAge that the layouts and the server have, or one wants another: then they connect only, since nothing that is published or replayed depends on it; and one replays at a time, since a replay changes nothing that the other sees (the constraints of the run) |
| SessionLife | CleanedUp, NoInheritance, HandledConforms, CallsAreHeld | 2 replicas, a client, 3 variables of which 2 of the session; each behaviour keeps to one of four scenes: 2 lives and 2 resolutions of a variable, 1 life and 2 resolutions of two variables, 1 life with one resolution and one use of a hook, 3 uses of the hooks. What the scenes leave apart touches other loops and other state. Schemas are at most three levels deep |

The violation: `lease.go:105` releases with a plain delete, not a compare-and-delete. A
replica that comes back from `fn` after its lease has expired deletes the lease of its
successor, and a third replica may claim. The timing condition `Timely` excludes it.

Deadlock is checked in the lease, file and presence runs. Calls, messages, connects and
lives of the other instances are used up, so those may stop. The properties of StreamsReady
and SessionLife are of safety and assume no fairness: what a receive loop that ended
leaves undone cannot be promised (see 5).

### Fairness

* Lease: the server answers, a goroutine that can run does, time passes, and `fn`
  returns once its context is done. Nothing makes `fn` return before, and nobody has
  to claim. `Clock` gets strong fairness because it is disabled while somebody is at the
  limit of his slack.
* Tools: the goroutines run; a tool returns once its context is done. Callers,
  interrupts, stops and bad messages are free.
* Mailbox: a consumer with a message goes on, and its handler returns; the server
  redelivers, and a message that is ready while loops run is fetched, by one consumer or
  another, the stream being a queue. Nothing keeps a loop from ending when nothing is ready,
  so the two liveness properties hold as long as a loop is left, which is what the code gives.
* Presence: the ticker beats, puts get through now and then, and the watch delivers before
  the keys of a live replica expire, now and then.

## 4. The proofs

TLAPS proves these for every value of the constants, from the named assumptions of the
modules (types of the constants, `NoX \notin X`, bounds in `Nat`). What a theorem assumes
beyond that stands in its statement, and here. Every safety property of the runs is proved.

* **SessionLease_proofs.** `TypeCorrect`. `LostForGoodHolds`: whatever the delays, from `KeyOK`
  (revisions held by replicas are not fresh ones; the key's revision belongs to one
  replica). `VisibleHolds` is about the reads that succeed. `ExclusiveHolds`, `VisibleHolds`, `HeldHolds` and `Implements` (the refinement) assume
  `Timely`. MutualExclusion is far from inductive: that a replica inside fn owns a live
  key follows from the age of the key, the timer, the tick, and the lag adding up to less
  than the TTL at every point of the renewer's cycle. `IInv` = `KeyOK` and, per replica,
  `Local(r)`, which bounds the key's age for every value of `pc` and `renewer`.
* **ToolCalls_proofs.** `ToolTypeCorrect`; `NoLeakHolds` for any ids, by `Routed` (what is
  received is on a replica that exists) and `RegistryOK` (what is registered is running or
  has just returned, on that replica). `AbortableHolds` and `SignalAbortsHolds` assume
  `DistinctKeys`: with one id for two calls they are false. They are about calls of a session;
  those without one are in no registry. `CancelScopeHolds`, for any ids,
  by `InScope`: what an interrupt loop has taken out of the registry, and what is aborted,
  is in the scope of an interrupt that was sent. It assumes that every interrupt names a
  tenant, as Interrupt and InterruptSession do when they are given one; one without a tenant
  covers them all.
* **Mailbox_proofs.** `MailboxTypeCorrect`; `NothingLostHolds` under every fault, by
  `CopiedFirst` (a loop that is about to terminate a message has copied it, or its copy
  failed); `LettersKeptHolds` likewise. Both say what is lost before it expires: nothing. What
  expires may have seen no handler. `ParkedForCauseHolds`, by `LettersStored` and `Counted` (a
  loop's nak count is at most the failures of that consumer process, a crash sets both to
  zero), assumes that the count in `failures` reaches the limit (`MaxFailures >= Limit`).
  `PoisonBoundedHolds` assumes that no answer to the server is lost and nobody deletes the
  durable: then a message that a consumer has given up does not come back to it. By
  `Tallied(j, m)`: as long as consumer j may fail on m again, its failures of m are at most
  what it has counted, and the limit is the most that it counts; when it has reached that, it
  parks m, and m leaves the mailbox before j comes back for another.
* **FileStore_proofs.** `FilesTypeCorrect`, `MetaHasBytesHolds` (by `Base`: what a client is
  about to write metadata for has bytes), `IndexIsSoundHolds` by `Sound` = `Base` and, until
  somebody is careless, `KeptApart` (nobody puts what another deletes), `InOrder` (each
  client has made the requests before its current one) and `Followed` (the index entries
  lead to their contents).
* **Presence_proofs.** `PresenceTypeCorrect`, `KnowsThePresentHolds`,
  `ForgetsTheAbsentHolds`, for any number of replicas, agents and extensions and under all
  faults, by `Follows` = `Base` and `InStep`: the cache becomes what the key is once the
  events that the watch has yet to deliver are applied, whatever the broadcast's answers put
  there in between, but for the excuses.
* **ConfigSync_proofs.** `ConfigTypeCorrect` for any number of agents: a revision counts calls of
  SetConfig, and none counts twice. The other three are about one agent, with any number of
  replicas, sets and faults: two agents draw the same revision from the same bucket, and
  reach bucket and replica in different orders (see 5). `RevisionsGrowHolds` by `Newest`
  (the last entry has the newest revision since the last deletion, and what the agent is
  about to write is newer); `RejectedIsGoneHolds` by `TakenBack` (after a call that reported a
  rejection the bucket has the deletion, and a replica that has read it keeps a rejected
  value only while OnConfigChange looks at it; `LogIsInBucket`: a deletion is written
  whenever there is something to delete); `ConvergesHolds` by `InLevel`: while a request is under
  way the bucket has its value and one replica at most has the request (`OneCall`), and a
  watch that has delivered everything leaves the bucket's value, or a rejection that the
  agent will hear of (`Level`). Nulls are excepted from it and from `RevisionsGrowHolds` (see
  5), not from the other two. Of the keys: `EscapeIsReadBack`, for every text of bytes of
  any length, by induction over the text from its end: the reader that has come to where the
  escape of byte k begins reads the rest of the text. `KeyIsReadBackHolds` is its consequence
  for the keys of items without a dot in their names (which have bytes that the bucket takes,
  `KVKeysAssumption`). `KeysAreApart`: two items share a key only if one is global, the other a
  session's, and one of the two names has a dot. It is about tenants and ids of extensions
  that are one text between dots.
* **Streams_proofs.** `ReadyHolds` and `FailsForCauseHolds` for any number of processes,
  layouts and restarts of the server, by `Topology`: a process has brought the streams
  before the one it is at into the layout that it wants, and nobody takes them out of it
  (`Progress`), since what a stream has comes from the layout that the server was left with
  or from what processes want (`Origin`), and a process changes only what was there
  (`Asked`). `ReplaysAllHolds` by `Records` = `StoreInv` (a stream keeps its events in order
  and each once), `PromisedInv` (an acknowledged event is in the stream that a reader would
  look in, or has expired) and `ReaderInv` (what it must return, a reader has got or has yet
  to come to; before what it has got it has left nothing out, `NoHole`; it is in order unless
  a delivery was made again). Channels are sequences of strings. What the streams' filters mean rests on
  two theorems about the operators of Subjects, for any tokens: `SubjectMatchAgrees` (the
  client's one pass decides as the server does, for every filter whose only `>` is last) and
  `OverlapIsShared` (two filters overlap exactly if one subject matches both).
* **Sessions_proofs.** For any number of replicas, clients, variables, lives, requests and
  hooks, under all faults, if the agent and the replicas have an identity with one secret
  (`OneSecret`). `CleanedUpHolds`, `NoInheritanceHolds` and `CallsAreHeldHolds` (which excepts a call
  whose answer could not be sent) by `SessionsInv`, whose three parts are inductive together only: `Formed` (types, and that a
  loop has messages of its subscription only), `Swept` (where a value of a life that is over
  can still come from) and `CallInv` (for every stage of a call, what excuses the value that
  it will have). `HandledConformsHolds` adds `Handling`, and assumes that the two schemas
  are `Enforced`. Which are is said by `WellFormedIsEnforced`: if all schemas are `WellFormed`,
  what validateHookSchema lets through is as its schema says, however many levels down;
  `WellFormed` includes that every keyword has the Go type that the code asserts. Some
  schemas that are not `WellFormed` are not enforced (see 5). The induction is over the depth
  of a value: `Nested(depth)` says that fields are less deep than what they are fields of, as
  in everything that is decoded from a finite text. `WellFormedHooksConform` puts the
  two together, with a condition on the schemas in place of one on schemas and arguments.

Checked by TLC only: liveness (LostRunStops, OrphanExpires, AbortedIsAnswered, PoisonParked,
EventuallyClosed, SiblingsRecover), which needs fairness and ENABLED. No module declares a
RECURSIVE operator. The recursive functions (the escape of KVKeys, `ValidUnder` of
HookSchema) are shown to exist and to satisfy their equations by induction over the naturals
in the form of `SetInduction`, which speaks of a set of naturals and not of a predicate: the
provers cannot instantiate the library's theorems about predicates. It follows from
the library's well-foundedness of `<`.

## 5. What the code does that its comments do not say

Besides the violation above, met while modelling. Each follows from the modules with the
faults or the second actor named here.

* Lease: one failed renewal request gives the lease up (`lease.go:94`), although the
  comment at `lease.go:85` speaks of surviving "single-renew hiccups". The renewer outlives
  the release, so a turn that ended well may return `context.Canceled` (`lease.go:108`). A
  failed read makes IsSessionRunning say that nobody runs (`lease.go:63-66`).
* Tools: a call without a session is not registered (`extension.go:496`) and no interrupt
  aborts it, and an interrupt reaches one replica of a queue group, while `agent.go:208` says
  "ALL in-flight work (broadcast)". The errors of publishing an answer are discarded
  (`extension.go:538`, `626`): a result that cannot be marshalled (`nats.go:372-376`) leaves
  the callers of CallTool and CallHook, which have no time-out, waiting for ever. Of two calls
  under one id the first to end takes the registration of both. One rejected message
  ends a receive loop for good (`nats.go:420`).
* Mailbox: the error of the dead-letter copy is ignored (`nats.go:488`); nak counts are per
  loop, so two consumers may fail on a poison message 2 * maxNaks times before it is parked; an undecodable
  message ends the loop without being skipped (`nats.go:476`); two idle seconds end the loop
  (`nats.go:471`), also while a nak waits for its delay. Both streams have a MaxAge of 24
  hours (`nats.go:98-113`), after which a message is dropped without a handler and without a
  dead letter, and a dead letter without a reader. The subscription that created a durable
  deletes it when it is closed (`agent.go:424`, in the library), so that acked messages that
  have not expired come again; RequeueDLQ does so to the letter that it has just requeued.
* Configuration: an agent that dies between bucket and request, two agents on one key, a
  replica started before the bucket exists, a request served late by another replica, each
  leave a replica with a value that is not the bucket's. The deletion of a session's key
  has two parts for `applyConfigKV` and is ignored (`extension/config.go:316`), so
  `DropSessionConfig` does not remove the override from running replicas. A value set while no
  replica is up is never shown to OnConfigChange. A rejection deletes the old value too,
  and the next revision starts at 1 again; so does a session key's after a restart. A null,
  which an item of type json may have, is stored as `{"r":n,"v":null}`, and both readers take
  that for a bare value of old (`agent/config.go:119`, `extension/config.go:333`): a
  replica's value is then the envelope, and a restarted agent starts again at revision 0.
* `KVGet` reports a failed read as a missing key (`nats.go:635-650`). A `Delete` may then
  leave the index entry, and a restarted agent may start its revisions over.
* Files: the comment at `file.go:98-99` says that the order of the requests leaves "never a
  dangling index pointing at missing metadata"; a Delete of the same code between the last
  two requests of a Put leaves one (`file.go:117`). A code put again with another content
  leaves the first content's index entry; `Delete` ignores the failure of its index request;
  `Get` may return bytes of one put and metadata of another.
* Presence: `agent.go:112` says that "puts and TTL expiries both arrive"; a bucket created
  without delete markers tells no watch of an expiry, so a crashed extension stays in
  the cache. The watch ends with the context of the first Discover, and there is
  no other. When KvWatch fails, `presenceOnce` is replaced inside its own `Do`, "to allow a
  later retry" (`agent.go:118`); `Do` unlocks the new, unlocked mutex on its way out, which
  Go makes a fatal error: a Discover before any extension has created the bucket ends the
  agent's process.
* Variables and lifecycle: an extension that declares no lifecycle kind, or has no
  OnLifecycle, never deletes its sessions' variables (`extension.go:673`). A resolver or a
  handler of "created" that is at work during the deletion leaves its value behind, and a
  session created again under the name finds it; a deletion that is handled late deletes
  what the next life has written. A renamed session's variables stay under its old name.
* Receive loops: one message that cannot be verified or decoded ends a loop for good
  (`nats.go:419-426`), while the subscription stays in its queue group and takes its share:
  `CallHook`, which has no time-out, then waits for ever. There is one loop per hook and per
  variable, so a slow handler delays the calls of all sessions.
* Durable lifecycle events (`events/lifecycle.go`): no stream takes `abc.<tenant>.session.lifecycle.>`,
  so LifecyclePublish with Inbox and LifecycleConsume get an error. If a stream did,
  LifecycleConsume would filter with a session's token where subjects have the kind, and
  `decodeLifecyclePayload` would make an empty event of what the transport delivers, which
  is acked without a handler.
* Hooks: an enum compares what values print as, so 1 is "1" (`extension.go:141-153`); `required`
  and `properties` are ignored in a schema without type object; other types than string,
  number, boolean and object accept everything; a keyword whose Go value is not of the type
  that decoding JSON gives, `required` as a `[]string` say, is ignored (`extension.go:121`, `130`, `142`).
* Identity: a payload of nil is signed as the empty text and verified as `null`, so it is
  rejected. The broadcast skips what it cannot verify; Replay does not verify.
* Streams: "drift is repaired, not fatal" (`nats.go:70`), but two streams with each other's
  filters are not repaired: narrowing the first overlaps the second. Two first connects with
  different MaxAge make one of them fail; once a stream exists, a client's MaxAge is
  ignored. The embedded server creates the streams in Memory mode only, so clients that
  reconnect by themselves to a new one in another mode find none. A failing StreamInfo makes
  Replay return nothing without an error. Events that the legacy layout stored are in
  the mailbox's stream and are not replayed once the events have their own. `waitReady` is
  content with whatever listens on a fixed port. `natsrun.go:37` calls Memory the default, but
  a Config without Storage gets no streams in memory (`natsrun.go:131`).
* Replay: its consumer has to ack and never does (`nats.go:693-698`), so a replay that takes
  longer than AckWait (30 s) gets messages again, behind later ones; it ends at any 500 ms
  without a message (`nats.go:699-702`), with messages pending or not, and says nothing of it;
  so it also ends where the consumer has as many messages without an ack as it may.
* Keys: a global item whose name has one dot is read as a session's, and with more dots, or
  if the item is a session's, it is not read at all (`agent/config.go:303`, `KVKeys!StoredUnder`). A
  session's name is safe, as it is escaped. An extension's id with a dot overlaps the keys
  of another.

## 6. Not modelled, and the plan

Not modelled: the S3 object store (the same interface as the object bucket), manifest files
and translations (parsing and lookup in one pass, without state, which unit tests reach),
the two request helpers of files over the agent, generated types, and the conformance
programs, which are tests. Of the configuration: `validateConfigValue` (a rejection is one
whatever its cause), `ConfigStore.Get`, and the bare entries that versions before 0.2 left. Of the lifecycle events: `forked` and `renamed`,
which `serveLifecycle` only hands on, and `events/lifecycle.go` (see 5). Of the embedded
server: finding the binary, ports and signals. Data races on Go maps (`agent/config.go:31`,
`agent/agent.go:252`) have no outcome that a model could choose from. The SDK itself never
runs a mailbox handler under a session lease, so the two are not composed.

Order of the work, most important first:

1. *done* SessionLease, ExclusiveRun and their proofs: exclusion is what the agent rests on.
2. *done* ToolCalls, Mailbox, FileStore and their proofs.
3. *done* ConfigSync and Presence, and their proofs.
4. *done* Sessions: variables, lifecycle events and hooks, and the proofs.
5. *done* Streams, with Subjects and Wire, and the proofs; KVKeys with ConfigSync.
6. What can be said of configuration with several agents.
