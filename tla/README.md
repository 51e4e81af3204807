# A verification project for mojang-api

`mojang-api` is an HTTP service in front of Mojang's username and profile
endpoints. Handlers resolve names through a coalescing cache; what misses the
cache is grouped into batches of at most ten names, and the batches in flight
are bounded. This directory holds TLA+ models of that program, the TLC runs that
check them on small instances, and proofs by TLAPS for every value of the
constants.

    tlc -workers 2 -config MCBatchProcessor.cfg MCBatchProcessor
    tlapm UuidLookup_proofs.tla

## The system

| component | source | its state | its operations |
|---|---|---|---|
| batch processor | `src/src/batch.rs` | the mpsc channel, the vector `pending`, the batch that waits for a permit, the semaphore, the `JoinSet`, one oneshot per lookup | send, receive, tick, spawn, process, answer or reject, close, drain, join, abort |
| UUID lookup | `BatchLookup::lookup` in `batch.rs` | one future per request | look up, claim, load, follow, cancel |
| caches | `src/src/cache.rs` | entries with their times to live, the waiters of the loads under way | `get_or_try_insert_*`, expiry, `clear` |
| rate limiter | `src/src/rate_limit.rs` | a fixed window per client in locked shards, the last cleanup of each shard | the middleware: read the clock, lock, clean up, decide |
| status reporter | `src/src/reporter.rs` | the last snapshot whose report succeeded | tick, snapshot, post, shut down |
| metrics | `src/src/metrics.rs` | twelve atomic counters | add, snapshot, difference |
| Mojang client | `src/src/mojang.rs` | the HTTP client with its list of proxies, one drawn for each request | post names, get a profile, read a bounded body |
| HTTP handlers | `src/src/app.rs`, `validation.rs`, `error.rs`, `types.rs` | none of their own | uuid, skin, health, docs |
| process lifecycle | `src/src/main.rs` | which parts run | start, signal, the deadlines of the shutdown |
| configuration | `src/src/config.rs`, `load_proxy_list` in `mojang.rs` | none | read the environment, a `.env` file and the proxy list |

How they interact: a request passes the rate limiter (a shared structure behind
mutexes) and reaches a handler. The handler awaits `BatchLookup::lookup`, which
runs inside the cache's entry for the name. The call that leads for a name sends
one `PendingLookup` over the bounded channel and awaits its oneshot. The loop
`run_batch_processor` owns the receiving end; it hands whole batches to tasks,
each with a permit of the semaphore, and each task awaits one Mojang call and
then answers its oneshots. All of them add to the shared counters, which the
reporter's task reads every five minutes. The skin handler does without batches: the
request that leads for a uuid calls Mojang itself, through the second cache.
`main` stops the HTTP server (with a deadline), then the reporter, then the
processor (a oneshot, then a deadline, then `abort`).

### What is hard here, and what makes each part correct

* **Batch processor.** Five parties act in any order: callers that send or leave,
  the loop, the ticker, the tasks and the shutdown. The loop awaits a permit with
  a whole batch in its hands; the channel is closed while senders wait for a
  slot; a task may panic; the drain may be cut off at its deadline. Correct means:
  no lookup is lost, kept in two places or left waiting for something that is
  gone, permits add up, memory stays bounded while Mojang is slow, and a shutdown
  that is not cut off answers everything that was accepted.
* **UUID lookup and caches.** The load runs *in the future of the request that
  leads*, so a closed connection takes it away from everybody who follows. A
  caller that missed the cache may claim its waiter after another call has
  finished loading; entries expire, are evicted or cleared while loads are under
  way. Correct means: the waiter and its leader determine each other, a value is
  loaded once per life of its entry, nobody gets a value that was out of time when
  they asked, a result belongs to the name that was asked for, every call ends.
* **Rate limiter.** The clock is read before the lock, so a decision may be made
  with a `now` older than the state; cleanups are triggered by other clients.
  Correct means: bounded admissions in any span of about one window, nobody denied
  for the traffic of others, a `Retry-After` that can be relied on, and no client
  kept in memory long after it was last seen.
* **Reporter.** Reports fail, or succeed without the reporter knowing, while the
  counters move. Correct means: a failed report discards nothing and nothing is
  reported twice without a reason.
* **Mojang client.** A body may announce any length or none and come in any chunks.
  Correct means: no more than the limit in memory, and one error counted for each
  call that failed, however many profiles of its answer are invalid. Its answers
  name profiles in any order and case, and its calls die with the tasks that made
  them: a lookup must be answered with what was said of its own name.
* **Skin lookup.** As for names, but the call to Mojang dies with its request.
  Correct means: at most one call per uuid, and counters that add up.
* **Lifecycle.** The order of the shutdowns and what still runs after a deadline.
  Correct means: a shutdown in time costs nobody an answer, and it always ends.
* **Start.** Three sources of settings that override each other, and a file written
  by hand. Correct means: the documented one wins, a broken line or a broken setting
  that is not in use costs nothing, and each proxy has one share.

The hazards, each at its line and with the properties that watch it, are listed in
`PROJECT.json` under `hazards`.

## The modules

| module | models | instance |
|---|---|---|
| `BatchProcessor` | `batch.rs` from the `mpsc::Sender` to the oneshots | `MCBatchProcessor` |
| `CoalescingCache` | the loads of one cache of `cache.rs` with Moka's coalescing loader | through the next |
| `CacheLifetime` | that cache in time: expiry, eviction, `clear` | `MCCacheLifetime` |
| `UuidLookup` | the handler `lookup_uuid` with `BatchLookup::lookup`: the composition of `CoalescingCache` and `BatchProcessor`, with the validation and the counters | `MCUuidLookup` |
| `NameResolution` | the abstract specification that `UuidLookup` and `SkinLookup` implement | |
| `RateLimiter` | `rate_limit.rs` | `MCRateLimiter` |
| `MojangClient` | `mojang.rs` without its proxy list | through the next two |
| `BatchUpstream` | `process_batch` with `lookup_names`: the composition of `BatchProcessor` and `MojangClient` | `MCBatchUpstream` |
| `SkinLookup` | the handler `lookup_skin`: the composition of `CoalescingCache` and `MojangClient` | `MCSkinLookup` |
| `Reporter` | `reporter.rs` over two counters of `metrics.rs` | `MCReporter` |
| `Startup` | the start of `main.rs`, `config.rs` and the proxy list | `MCStartup` |
| `Lifecycle` | serving and stopping in `main.rs`: the composition of `BatchProcessor`, `Reporter` and the connections | `MCLifecycle` |

A module `X_proofs` holds the theorems about `X`; `CacheLifetime_proofs` holds those
of `CoalescingCache`, too, and `Process_proofs` those of `Startup`, `RateLimiter` and
`Lifecycle`: how the process starts, whom it admits and how it stops. For that the three
have different names for what a module usually calls `Spec` (`StartSpec`, `Spec` and
`LifecycleSpec`).

Definitions that begin with a comment *Seeded fault* are never part of a
specification. Each is a definition of the code with a plausible bug in it; the
`mutants` of `PROJECT.json` put it in the place of the real one and show that a
property notices.

### BatchProcessor

State: `response[l]` is the oneshot of lookup `l` as both its halves see it;
`queue`, `pending` and `permits` are the channel, the vector and the semaphore;
`held` is the batch inside `spawn_batch` while it awaits a permit; `ready` and
`calling` are the tasks before and during their call to Mojang; `loop` is the
program counter of `run_batch_processor`; `batches` and `usernames` are the two
counters `record_batch` updates.

| action | code |
|---|---|
| `Send`, `SendRefused`, `Abandon` | `sender.send(..).await`, its error, and the dropped `receiver` of `BatchLookup::lookup` |
| `Receive`, `Tick`, `Close` | the three branches of the biased `select!` that change something |
| `Drained`, `Stop` | the end of the drain loop and of the join loop |
| `Spawn` | `spawn_batch` once `acquire_owned` returns |
| `ProcessBatch`, `Resolve`, `Reject` | `process_batch` up to its await, and after it with either result |
| `Panic`, `Cancel` | a task that ends with a `JoinError`, or with the dropped `JoinSet` |
| `Shutdown`, `Abort` | `BatchProcessor::shutdown`: the signal, and the deadline |

Abstractions, and why they lose nothing the properties ask about:

* Sending is one step. Tokio grants a slot and pushes the message separately, but
  nobody can observe the slot in between except as a channel that is full a moment
  longer.
* `recv()` yields `None` in the select only when all senders are gone. The
  `BatchProcessor` keeps a sender of its own until after it has sent the shutdown
  signal, and the biased select looks at the signal first, so that branch is never
  taken while the processor is in use.
* The semaphore is never closed, so the rejection of a batch in `spawn_batch`
  cannot happen; `reject_responses` is modelled where it does happen.
* The polls of a biased `select!` are one step. The branches read different
  objects, so a step of another party between two polls has the same effect as
  that step before or after the select. `Receive` and `Tick` require `~shutdown`,
  and `Tick` an empty channel, because they are polled in this order.
* `pending` and the batches are sets: nothing reads their order.
* `join_next` of finished tasks only logs. Its one effect, a panicked task, is the
  history variable `panicked`.
* `Abort` drops the loop's state at once. Its tasks are cancelled one by one,
  asynchronously, and one that gets to answer first still answers.
* The counters are not capped: each lookup is sent once, so the state space is
  finite.

### CoalescingCache and CacheLifetime

`CoalescingCache` is Moka's `or_try_insert_with`, external code, as `cache.rs`
relies on it: look into the cache (`Get`), publish a waiter or follow the one that
is there (`Claim`), look again as a leader (`Recheck`), run the load and insert
its value before the followers read it (`Loaded`, `LoadFailed`, `Follow`), and
withdraw the waiter of a leader whose future is dropped (`Cancel`). The `CacheLoad`
of `cache.rs`, with its flag that only the caller whose load ran sees, is `loaded`.
`Expire` removes any entries. Moka panics a caller that has followed two hundred
dropped leaders; the instances have fewer callers than that.

`CacheLifetime` extends it by a clock. `Insert` is a load that ends, with the
`ttl_for` its value gets; `Tick` removes what becomes due, for Moka returns nothing
that is past its time; `Evict` removes an entry for want of room, any entry, one
just inserted included, because Moka's choice depends on weights and frequencies that
nothing else reads; `Clear` is one cache of `CacheManager::clear`, which does not
touch what is loading. `gone` remembers what a call found out of time or cleared as it
began. `NeverStale` allows such a value only if somebody has loaded it anew: so a load
that was under way at a clear may put its value back afterwards, and nothing else may.

### UuidLookup

`UuidLookup` instantiates cache and processor and adds the future that joins them: the
miss counted at the first poll of the load, the send, the oneshot, the mapping of
`SendError` and `RecvError` to `UpstreamError::Transport`, and the hit counted for
every value that this call did not load. A request leads at most once until it
sends, so a request and the lookup it sends share one identity. `Refuse` is the
answer to a name that `is_valid_minecraft_username` rejects, which is counted as a
request and nothing else. What a path says is reduced to its letters without their
case (`lookup` lowers them before anything else reads them), its length, and whether
every character is allowed.

`NameResolution` is what a handler may rely on, without cache, channel or batches:
a request ends with a value Mojang has reported for its own name, or with an error
that some call has met (a transport error also after a shutdown or a panic).

### RateLimiter

A request reads the clock (`Arrive`) and decides later, under the lock of its shard
(`Check`); other requests decide in between. `Check` is the whole of
`RateLimiter::check` and of the headers that depend on it. Time is a counter with
`Second` ticks in a second, so that rounding down to whole seconds is visible.
`MaxLag` bounds how far the clock moves between the two steps of one request; the
assumption `MaxLag < Window` says that no handler is suspended between two lines
of straight code for a whole window. Without lag `FixedWindow` is the exact
statement that the windows of a client do not overlap. With lag they may, by
`MaxLag`, and a request may be counted in a window that began `MaxLag` after its clock:
three windows can then touch one window's time, so that `QuotaPerSpan` promises two
limits in a span of `Window - 2 * MaxLag` only. `ClientOf` is the key of a request: how
its header spells the address does not matter, and requests without one share a client.

Windows of clients that never return go with the next cleanup of their shard.
`ForgottenInTime` says how long that may take: once a request that came two windows
after a window began has been decided in its shard, the window is gone, whatever the
phase of the cleanups.

### Reporter

Two counters, which `record_batch` updates one after the other, stand for the
twelve counters of the program; a snapshot reads them in two steps, so that a report may catch them between
the two. The reporter starts before the server accepts a request, hence from a
snapshot of zeros. `AnswerLost` is a report Discord accepts although the reporter
sees a failure. The last window before a shutdown is not reported: the loop breaks
at the signal without sending. `EventuallyReported` says so.

### MojangClient and SkinLookup

A call of the client is one `lookup_names` or `lookup_skin`. Between two of its awaits
it is one action: `Begin`, `ReceiveHead`, `Chunk`, `End`, and `Break` for the errors
of `send` and `chunk`, the total timeout among them. `Drop` is the dropped future.
Sizes are counted in units of which the limit holds two. What a body holds is known
when it has ended: something malformed, or up to two profiles or properties, of which
only the parts that decide the result are kept. An announced length is that of an
uncompressed body with a length header; in all other cases it is `Unknown`.

`SkinLookup` starts the call at the first poll of the load, in the same poll that
counts the miss, and drops it with the request. A request that `parse_minecraft_uuid`
rejects is counted and refused (`Refuse`); the compact and the dashed form of a uuid are
one key. It implements the same `NameResolution` as `UuidLookup`, with uuids for names
and skins for uuids.

### BatchUpstream

The call of a batch is known by the lookups that are still awaited when it starts.
`ProcessBatch` begins it, each `Upstream` step moves the network on, and the poll in
which `lookup_names` returns is also the one that answers the batch (`Resolve`) or
rejects it. What a response holds is a sequence of profiles, each with a name, whether
Mojang writes it in upper case, and a uuid: in any order, repeated, or of names nobody
asked for. `Collected` is the map that `process_batch` makes of it, one `Insert` after the other. A panic, or the abort
of the `JoinSet`, drops the call with its task.

### Startup

A text stands for the value of a setting or for a part of a proxy line; what it parses to
is given by constants (`PortOf`, `HostOf`, `Webhooks`), as parsing itself is the standard
library's and `url`'s; so is what `set_username` and `set_password` percent-encode a part
of a login to (`EncodingOf`), so that `@` and `%40` make one proxy. `Environment` is what
is left after `dotenvy`, `LoadConfig` the choice of `config.rs`, `LoadProxyList` the fold
over the lines that `Enter`s each proxy once, and each step of `main` that may fail ends
in `FailWith`, which takes the tasks with it. `NewClient` also fails when reqwest cannot
build a client.

A setting that is not Unicode counts as unset in `Config::from_env`, for
`env::var(..).ok()` makes no difference; only the path of the proxy list may be garbled.
There the rustdoc of `from_env` disagrees: it promises an error "when a configured port,
`DISCORD_WEBHOOK`, or a built-in endpoint is invalid" (`src/src/config.rs:53`), and a
value that is not Unicode is neither a port nor a URL. The code serves on the next port,
or without its reporter, and says nothing. The model does what the code does (`Readable`),
but `ServesAsConfigured` makes no claim for such an environment: it is about those whose
parsed settings are `Legible`, because the documentation does not support what happens in
the others, and a property that calls it right would hide the disagreement. Any other
invalid value of the port in use or of the webhook does end the start, which is part of
`ServesAsConfigured`.

### Lifecycle

`phase` is where `main` stands. The connections are axum's tasks: the server only
waits for them, so `HttpDeadline` leaves them running until `Exit` drops the runtime.
A connection that has not noticed the signal may still begin a request, which allows
more than axum does. The reporter's counters are those of the processor: `Reporter` is
instantiated with the two counters of `BatchProcessor` in the place of its own, and
starts stopped when no webhook is configured. The start of the process is in `Startup`;
`clear`, after which nothing is read, is in `CacheLifetime`.

## The runs

| run | instance | distinct states | it shows |
|---|---|---|---|
| `batch_processor` | 5 lookups of 2 names, batches of 2, a channel of 1, 2 in flight | 740 000 | the safety of the processor |
| `batch_processor_live` | 3 lookups, batches of 2, a channel of 1, 1 in flight | 21 000 | every caller is answered, every shutdown ends |
| `cache_lifetime` | 3 callers of one key and 1 of another, 3 ticks, lives of 2 and 1 | 1 860 000 | waiters, shared loads, no repeated loads, nothing stale |
| `uuid_lookup` | 2 requests for one name, 1 for another, 1 in flight | 405 000 | the composition is safe and implements `NameResolution` |
| `uuid_lookup_live` | 2 requests for one name, 1 with a bad name | 21 000 | every request ends |
| `shared_in_flight` | 2 requests for one name, 2 in flight | violation | the promise of `src/README.md:109` fails once a leader is cancelled |
| `rate_limiter` | 5 requests of one client, 1 of another, limit 2, window 3, lag 1, 6 ticks | 196 000 | the quota, its windows, what is forgotten, and the retry time |
| `batch_upstream` | 3 lookups of 2 names, batches of 2, 2 in flight, 2 profiles a response | 596 000 | a call per batch, the right answer to each lookup, bounded bodies, errors counted once |
| `skin_lookup` | 2 requests for one uuid, 1 for another, 1 malformed | 105 000 | one call per uuid, counters, implements `NameResolution` |
| `lifecycle` | 2 connections, batches of 2, a channel of 1, 1 in flight | 154 000 | nobody pays for a shutdown in time, every shutdown exits |
| `reporter` | 3 batches of 1 or 2 names, 2 lost answers | 87 000 | nothing discarded, nothing repeated, all reported |
| `startup` | 4 settings in 2 places, proxy files of up to 3 lines of 11 kinds | 2 940 000 | the documented setting wins, the proxies are those of the file |

**The finding.** `src/README.md:109` says that concurrent requests for a name share
one in-flight lookup. They do as long as the request that leads stays. When its
connection closes after its batch was posted, the call to Mojang goes on, the
requests that followed start over, and one of them causes a second Mojang request
for the same name while the first is still in flight. What does hold is
`NoDuplicateNameInCall` (no single call carries a name twice) and
`AskedAgainForAReason` (a second call has an expiry, a failure or a departed
leader to explain it). For skins the promise does hold (`OneCallPerUuid`), as there
the call dies with its leader.

**Bounds.** Five lookups over batches of two are two full batches and a remainder:
both permits can be taken while a third batch is held, the vector is partly full
and the channel has a lookup that waits, which is every place at once. The real
limits (10 names, 1024 slots, 16 batches in flight) change no guard, and the
safety properties of this module are proved for all of them. Three requests give
the composition a leader, a follower that starts over, and a request of another
name in the same batch. Three ticks over lives of two and one let an entry of either
kind expire while another call loads, follows or holds an older value. Five requests
against a limit of two exceed twice the limit, which is the bound of `QuotaPerSpan`, and
the clock runs for two windows. Two profiles are enough for an answer in another order,
in another case, with a repeated name and with a stranger. Three lines put a duplicate
before or after a broken line. `MaxTime`, `MaxLag`, `MaxRepeats` and `MaxProfiles` are
the only bounds. Symmetry is used in four runs without liveness properties,
over lookups of one name, callers of one key, requests of one client and requests for
one uuid.

**Deadlock.** Every configuration sets `CHECK_DEADLOCK FALSE`: a processor that has
shut down and finitely many requests that have ended do rest, as the program does.
That nothing rests too early is what the liveness properties say.

**Fairness.** Tokio polls every task that has been woken, so each party whose next
step is enabled is weakly fair: the loop, the tasks, the requests' futures, the
reporter. The interval never stops, so a tick comes. A call to Mojang ends because
the HTTP client has a total timeout of 15 seconds. Nothing is assumed of callers
(who need not send, stay or leave), of panics, of the shutdown or of its deadline.
`batch_processor_live` therefore shows that the drain ends without the deadline.
`lifecycle`, on the other hand, lets the two deadlines of the shutdown fire and asks
nothing of callers, Mojang or the processor: it shows that no wait of `main` is without
an end.
`EventuallyReported` alone adds strong fairness of `Delivered`: a Discord that is
tried for ever accepts some day.

## What is proved

| module | theorem | property |
|---|---|---|
| `BatchProcessor_proofs` | `TypeCorrect`, `OnePlaceHolds`, `PermitAccountingHolds`, `BatchBoundHolds`, `NobodyStrandedHolds`, `NothingLostHolds`, `DrainAnswersAllHolds`, `BacklogBoundHolds` | the invariants of the run `batch_processor` |
| | `UnsettledCorrect` | whatever still holds the sender of a lookup has not used it |
| `CacheLifetime_proofs` | `WaiterIsLeaderHolds`, `LoadedOnceHolds`, `NeverStaleHolds` | the invariants of `cache_lifetime` |
| | `TimedImplementsCoalescing` | `TimedSpec => Spec` |
| `UuidLookup_proofs` | `ImplementsNameResolutionHolds` | the whole handler implements `NameResolution` |
| | `NoDuplicateNameInCallHolds`, `OpenLookupIsLoadingHolds`, `AskedAgainForAReasonHolds`, `MetricsAgreeHolds` | the invariants of `uuid_lookup` |
| | `ImplementsCache`, `ImplementsProcessor` | it runs cache and processor by their own steps only |
| `SkinLookup_proofs` | `ImplementsNameResolutionHolds`, `OneCallPerUuidHolds`, `MetricsAgreeHolds` | the refinement and the invariants of `skin_lookup` |
| | `ImplementsCache`, `ImplementsClient` | it runs cache and client by their own steps only |
| `BatchUpstream_proofs` | `OneCallPerBatchHolds`, `AnswersAreMojangsHolds`, `BodyBoundedHolds`, `ErrorsAreFailedCallsHolds` | the invariants of `batch_upstream` |
| | `ImplementsClient`, `ImplementsProcessor` | it runs client and processor by their own steps only |
| `MojangClient_proofs` | `BodyBoundedHolds`, `ErrorsAreFailedCallsHolds` | the same of the client alone |
| `Process_proofs` | `ServesAsConfiguredHolds`, `ProxiesAreTheFileHolds` | the invariants of `startup` |
| | `DrainedIsServedHolds` | the invariant of `lifecycle` |
| | `ImplementsProcessor`, `ProcessorKeepsPromises` | in the whole process the processor takes its own steps only and keeps its invariants |
| | `QuotaPerSpanHolds`, `FixedWindowHolds`, `DeniedForAReasonHolds`, `ForgottenInTimeHolds`, `RetryHonouredHolds` | the invariants of `rate_limiter` |
| `Reporter_proofs` | `TypeCorrect`, `NothingDiscardedHolds`, `NothingRepeatedHolds` | the invariants of `reporter` |

They hold for every value of the constants that the named assumptions of the modules
allow: finite sets of lookups, callers and requests, positive limits and times, results
that are told apart from the words a model uses for itself, a `MaxLag` below the window.
Nothing else is assumed, but for one hypothesis: `RetryHonouredHolds` asks that
`LagIsShort`, which says for a window of whole seconds, as the program has, that a
handler lags by at most a second. TLC evaluates each assumption on the instances above,
where `LagIsShort` holds as well.

**The batch processor.** None of the properties is inductive alone. The inductive
invariant is built in layers, each of which may use those below it:

1. `Shape`: types that need no counting, and the finiteness of the batches. (`TypeOK`
   bounds `permits` by `MaxInFlight`, which follows only from the accounting.)
2. `Placed`: `OnePlace` with `Fresh`, that a lookup not sent yet is nowhere, and no
   task empty. Without `Fresh` a `Send` could put a lookup into the channel a second time.
3. `PermitAccounting`: it needs `OnePlace`, for a batch that joined `ready` or
   `calling` as an equal set would count once and hold two permits.
4. `BatchBound`: what `Collect` hands over has at most `Size` names.
5. `Unsettled`: a lookup in the channel, in the loop or in a task is open or closed,
   but has no answer yet.
6. `Shelter`: `NobodyStranded` and `NothingLost` with `Phase`, that the places the
   loop has left behind are empty: after the drain nothing is in the channel or the
   vector, after the join no task is left, after an abort nothing is in the loop.
   `DrainAnswersAll` is a consequence.
7. `Capacity`: the channel within its capacity and `held` nonempty only while
   `pending` is empty, which gives `BacklogBound`.

**The caches.** `Loads` is inductive: a follower has a leader for its own key that once
led, and while a call loads nobody else makes an entry of its key. `Counted` adds that
every load made an entry which is there or has disappeared, whence `LoadedOnce`. The steps
of `CacheLifetime` are steps of `CoalescingCache`, so both hold in time as well, and
under them `Lifetime` is inductive: every entry was made by some call that has not found
it gone, and is due at that call's end plus the promised time. A last part states once,
for both handlers, what a call can end with given what the loads end with (`StepTrue`).

**The compositions.** A proof about a composed module instantiates the proof modules of
its components and shows that each step of the whole is a step of each component or leaves
it alone. The components' theorems then hold of the whole, and carry the invariants
that relate them: in `UuidLookup` that an open oneshot belongs to a request that loads
(`OpenIsLoading`), that everything cached or returned was said of its name
(`CacheIsTrue`), and that everything in a oneshot was, too (`OneshotsAreTrue`); in
`SkinLookup` that a running call belongs to a request that loads (`ActiveIsLoading`) and
that its result is true (`ResultsAreTrue`); in `BatchUpstream` that every batch collects
lookups (`Collects`). With them each step of a handler is shown to be a step of
`NameResolution` or to leave it alone.

In `BatchUpstream` the step in which a call returns is a `Resolve` or a `Reject` of the
processor, and the map it resolves with is the fold of `Insert` over the profiles
(`CollectedSteps`), in which a name has what its last profile says of it
(`CollectedSays`). A step of the network ends its call exactly when that has a result
(`ProgressEnds`), so that the calls under way are the tasks that wait for one; that they
were counted once needs `OnePlace`, as two tasks never make the same call.

The figures are the sizes of sets. In `UuidLookup`, `Charged` bounds how often a
name was asked, and `usernames`, by the number of lookups that are in a call or beyond one
(`Called`): a batch adds lookups that no other call has, by `OnePlace` of the processor.
`SentAsLed` says what became of a request from what became of its lookup, and `Tallied`
what each counter counts; misses have a lower and an upper bound, for the state forgets
whether a request that left had begun to load. With `Counted` of the cache the two
invariants follow. In `SkinLookup`, where a call remembers it, `Agreed` counts exactly.

**The rate limiter.** `Shape` is `TypeOK` with the clocks of undecided requests at most
`MaxLag` behind; `Fresh` bounds the ages of windows and cleanups, which gives
`ForgottenInTime`; `Windows` relates the windows in the log to the current ones and to
each other, which gives `FixedWindow`; `Groups` says that each window admits a limit at
most and denies only when it has; `Ordered` says that the windows of a client come
one after the other in the log and that a second more than `reset` outlasts the window it
was said of, which gives `RetryHonoured`. `QuotaPerSpan` follows since no span touches three windows.

**The reporter and the client.** `Reported` says that what Discord has accepted is
exactly the last window as long as no answer is lost; the other two follow. The client's
`Inv` relates the errors to the calls that have failed, and bounds each body by what was
announced and what has come.

**The process.** `Configured` says after each step of `main` what it has made of the
settings; that these are the settings of the documentation follows from two facts about
the environment (`ReadableIsSet`, `PortTextIsFirst`). `LoadProxyListLoads` says what the
fold over the lines of a list of any length makes of them: at each line the proxies
entered so far are those of the lines before it, each once. `Served` is inductive for the
shutdown: until the reporter has stopped nobody tells the processor to, so that it accepts
what it is sent; once the server has drained, no connection is left to send or to wait; and
only who waits can lose an answer. `ProcessorKeepsPromises` is the theorem of the processor
alone, used of the whole.

**Folds.** The library's `FoldLeft` is a recursive function on sets of positions, and its
induction theorems take an operator, which no installed prover can instantiate.
`MojangClient_proofs` therefore states both for sets and functions: `UpTo` is induction up
to a number, for a set instead of a predicate, and `FoldExists` says that a fold with a
given step exists. `CollectedSteps` and `LoadProxyListSteps` turn each of the two folds of
the models into a function from positions to what has been made so far.

**Only model-checked.** Every invariant and every refinement that a run checks is proved.
Liveness is outside this prover's reach, as is `ENABLED`: `EveryLookupAnswered`,
`EveryRequestEnds`, `ShutdownEnds` (of the processor and of the reporter), `ShutdownExits`
and `EventuallyReported` are checked by TLC on the instances above, and so is the one
violation.

## What is not modelled

* Which proxy and which endpoint a request draws: nothing depends on it.
* Weights, capacities and the admission policy of Moka: `Evict` may take any entry.
  `validate_ttl` and the other checks of constructors are assumptions on the constants.
* The errors of the client before a request is recorded (`mojang.rs:170`, `176`, `208`).
  They cannot occur: a list of strings serialises, `new` refuses an empty list of
  endpoints (`mojang.rs:67`), and a hex uuid joins any URL.
* The split of a batch into names and oneshots and its later `zip` (`batch.rs:283`,
  `305`). `Resolve` answers each lookup by its own name, which is right because both
  vectors come from one `unzip` and neither is touched in between; no property could
  notice another pairing. What is checked is the rest of the way: what the map says of
  a name, and which request is given the answer of which lookup.
* What a start should do with a port or a webhook that is not Unicode: see Startup.
* What reads after `clear()`: it is the last call of `main`, so that `Clear` of
  `CacheLifetime` covers a caller of the cache that this program does not have.
* The order inside a batch, and the finished tasks in the `JoinSet`: nothing reads them.
  The loop joins finished tasks only when it has nothing else to do (`batch.rs:224`), so
  that under steady load their results pile up. The model keeps running tasks only and
  has nothing to say about that memory.
* The table that maps errors to responses, headers with constant values, routing,
  OpenAPI, JSON, the text of reports: layout and declarations that keep no state.
* Of the metrics, the uptime and the period of a report, which only go into its text.

## What is left

1. A liveness run of `SkinLookup`, and three requests in `Lifecycle`.
2. `Lifecycle` over `UuidLookup` in the place of its requests, so that a shutdown meets
   followers as well as leaders.
