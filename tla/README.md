# Verification of base-service

TLA+ models of base-service, a set of Java libraries shared by the services of
one organisation (a local cache kept in step over nsq, a notification library
over nsq, a distributed scheduler, a configuration service over ZooKeeper,
counters over redis, user-activity collection over kafka, a hystrix wrapper,
clients for redis and memcached) and of the scripts of its web console, which
make up most of the repository's own lines: a module loader, a form plugin, a
test runner and the scripts of single pages.

Modelled are the cache and the notification library, down to the single access to
shared memory where threads race, and the scripts, down to the single callback.

## Inventory

| Part (source) | State | Operations | Works with | What is hard | What makes it correct |
|---|---|---|---|---|---|
| **LruCache** (`smc-local-cache/.../cache/LruCache.java`) | hash table with striped locks, two doubly linked lists (seen once, seen often) under `_lruLock`, sizes, a 30-bit LRU counter, hit counts | get, put, putIfNew, compareAndPut, remove, clear, removeTail, removeLongestTail, iterators | under TimedCache, the counters' and the configuration's caches | lock-free reads, three kinds of locks, sizes read without a lock, eviction by one thread for all | lists and table agree, no item is lost, a get is linearizable, a value is informed once, operations end, the capacity |
| **TimedCache** (`.../TimedCache.java`, `CacheGroup.java`) | an LruCache of entries with a check time and an interval; groups with a refresh time | put, get, remove, expireInterval, refreshing a group | LruCache | a test and a removal in two steps; time in milliseconds | an expired or refreshed entry is not returned, a fresh one is |
| **TimedCacheFactory** (`.../TimedCacheFactory.java`) | the registry of caches, one cache per host and name, the topic | put, get, remove with a message, the listener, RemoveCallBack | TimedCache; nsq through the notify library | messages late, twice, lost; reads and callbacks that race changes; entries renewed without a test | an outdated item does not stay |
| **nsq connection** (`smc-notify/.../com/nsq/Connection.java`, `netty/NSQHandler.java`) | two queues of capacity 1, the channel, the last heartbeat | commandAndWait, command, incoming, heartbeat, close | producers, the executor of the client, nsqd | answers without identity, timeouts at both ends | a caller is told what happened to its own message |
| **nsq client and pool** (`AbstractNSQClient.java`, `Connections.java`, `NSQProducer.getConn`, `NSQConsumer.java`) | the connections per address, the timer, two monitors | start, connect, createConnection, cleanup, getConn, disconnected, close | lookup service, connections | timer, callers, I/O thread and closer | the pool size, no forgotten connection, reconnection, no deadlock |
| **Consumers** (`com/nsq/Consumers.java`, `com/smc/notify/SmcNSQConsumer.java`, `NSQMessage.java`) | listeners and consumers per topic | register (of a topic, or of a queue group), the message callback, finished, requeue | nsqd's channels, executors, listeners | redelivery, slow and failing listeners, registration during a callback | a message is not lost, a queue group consumes it once, resends are bounded, every message is finished |
| **Batching producer** (`NSQProducer.java`, `Batch.java`) | a concurrent map of batches, each a list of messages with its bytes | produceBatch, flushBatches, configureBatch, sendBatch | produceMulti | check-then-act on the map; a request that fails after it was stored | a message is sent once at most, and otherwise reported, a request is bounded |
| **Lookup, frames, codec** (`com/nsq/lookup`, `com/nsq/netty`, `com/nsq/frames`) | the decoder's state | lookup over HTTP, decode, encode | connection | partial frames | what is decoded is what was encoded |
| **Notify factories** (`com/smc/notify/SmcNSQFactory.java`, `Notify.java`) | maps of producers and consumers by name | get or create | the client | containsKey, then put | one client per name |
| **PriorityUpdateQueue, SafeBox** (`com/nsq/oss`) | a heap with an index; a box of one value | push, pop, update, remove; put, take | round robin of connections | removal inside a heap; one notify for two conditions | heap order; nobody sleeps beside a full or an empty box |
| **Scheduler** (`smc-schedule/.../service`) | quartz jobs, ZooKeeper nodes per job | add, pause, start, modify, remove, execute | discovery, quartz, ZooKeeper | removal and addition in two steps, several servers | a job is neither lost nor run twice |
| **Discovery** (`smc-schedule/.../util/DiscoveryUtil.java`) | registered servers, a polling counter | register, choose a server | ZooKeeper | sessions that end; counter overflow | a chosen server is alive and in range |
| **Configuration** (`smc-configuration/.../SmcConfiguration.java`) | a cached map of properties, node listeners | get, set, remove, reload | ZooKeeper | a map published before it is filled, late events | the map follows the nodes |
| **Counters** (`smc-counter/.../Counters.java`) | redis counters, a local cache of 30 seconds | incr, decr, reset, get | redis, LruCache | stale counts | a count is at most 30 seconds old |
| **Lively** (`smc-lively`) | kafka offsets, batches being stored | read, store, commit | kafka, the store | a commit for batches of other threads | no record is lost by a crash |
| **Hystrix wrapper** (`smc-hystrix`), **redis** (`smc-redis`) and **memcached** (`smc-memcached`) clients | connection pools of libraries | delegation, default value | third-party libraries | returning a borrowed connection on every path | a connection is returned once |
| **Web server** (`smc-base-server/src/main/java`) | sessions | pages over the services above | all of them | - | - |
| **RequireJS loader** (`webapp/js/require.js`, the same file in `fuelux/lib`) | registry of modules, `defined`, `waitCount`, `waitAry`, the global queue, scripts being loaded, the 50 ms timer | require, define, the calls of Module (enable, check, emit, ...), load and error events, checkLoaded, path fallbacks, shims | the browser's script loading; every page | one script answers for another, cycles, late events of an abandoned url, exceptions in a handler | a factory runs once, after what it needs; every require is answered, once |
| **Form plugin** (`webapp/jquery/jquery.form.js`) | per submit a hidden iframe dressed up as a request; `$.active`; the clicked button | ajaxSubmit, doSubmit, cb, checkState, timeout, abort, formToArray, clearForm, resetForm | jQuery's events and Deferred, the browser's form submission | load events, poll, timeout and abort compete to answer | one answer per submit, final; the server gets what was validated |
| **QUnit runner** (`webapp/fuelux/lib/qunit/qunit.js`) | queue of steps, semaphore, `blocking`, `autorun`, the current test, totals | test, asyncTest, stop, start, process, done, timeouts, filters | timers and callbacks of the tests | callbacks, timeouts and the 13 ms timers in any order, nested process | totals and verdicts are just, tests do not mix, done comes last, a run ends |
| **QUnit equiv, jsDump, diff** (the same file) | stacks of parents | compare, dump, diff | the runner's reports | cycles, repeated words | equality of shapes; a dump tells its value; a diff restores both texts |
| **Marathon page** (`webapp/marathon/js/marathon.js`) | collection of apps, views, filter | scale, suspend, destroy, create, filter, lightbox | Backbone; the server | answers late, out of order or errors | the page shows the collection, and in the end the server's state |
| **Log window** (`webapp/js/LogWebSocket.js`) | lines shown, line count | open, message, close | web socket | the line limit | the log in order; at the limit a fresh start |
| **Loading cover** (`webapp/js/panelLoading.plugin.js`) | container, overlay, info panel, class | start, stop, toggle | jQuery animations | a start during a fade | nothing is left behind, nothing of the page is taken away |
| **Paged data source** (`webapp/fuelux/sample/datasource.js`) | the options object shared with the grid | data: search, filter, sort, page | datagrid | a delay during which the options change | the page shown is the one asked for |
| **Almond loader** (`webapp/fuelux/lib/almond.js`) | `waiting`, `defining`, `defined` | define, require, requirejs | - | cycles, exceptions, delayed calls | a module gets what it needs or the caller an exception |

PROJECT.json lists these parts under "components", and under "hazards" the lines
where something can go wrong that a test would hardly reach.

## Modules

### Cache and notification library

| Module | Models | Correspondence |
|---|---|---|
| `LruCache` | LruCache.java, pointer by pointer | `entries`, `nextHash`, `prevLru`, `nextLru`, `head1` ... are the fields. Each section under `_lruLock` is one action (`linkNewItem`, `promote`, `moveToHead2`, `removeLruItem`), as no other access takes two steps under it; each read outside a lock is an action; a bucket lock is held across actions. `pc` says where a thread is in the eight operations. |
| `LruCacheHistory` | the same, with history | `window`: what the key of a running get has held since its call; `owed`: values stored and not yet informed. |
| `Connection` | Connection.java as a producer uses it | One action per queue operation of commandAndWait; a queue of capacity 1 is a value or `NONE`; a timed `offer` or `poll` may always give up. `incoming` and `offerResponse` are the executor's two steps. nsqd (external) answers in order. |
| `NsqClient` | AbstractNSQClient, Connections, getConn, NSQConsumer.createConnection | `client` and `monitor` are the two monitors. Methods of Connections that keep their monitor for one step only ask that it is free; Connections.close keeps it across steps. The network (external) refuses and drops. |
| `Consumers` | Consumers.java and SmcNSQConsumer.java | One record per started NSQConsumer, its executor's queue and the callback under way; nsqd (external) keeps a copy per group, its attempts and its holder. `found` is the set a callback iterates over: a registration that changes it makes the iterator throw. `Queues` are the groups of registerQuene, the others those of registerTopic, to which every listener subscribes; `since` (history) has the members a message was sent to. |
| `Batches` | NSQProducer's batches, Batch.java | One action per step on the map and per synchronized method of Batch. Sizes count units of 50,000 bytes. A request may fail when nsqd has stored it already; `sent` has what it stored. |
| `CacheSync` | TimedCacheFactory with needSync, for one key | Per host a reading thread, a changing thread and the consumer's thread; `life` is how long an entry is still valid, and `renew` starts it again; the topic (external) holds, per host, the messages still to handle, and `returns` how often each came back. `lost`, `dropped` and `late` are history. Assumed: one factory per topic, hosts with different identifications, keys that are strings without an @. |

### Scripts of the web console

A browser runs one handler at a time, so an action is a handler, or one call inside
a handler where handlers call each other back and forth (`RequireJs`, `QUnit`: a
stack of calls; events wait until it is empty).

| Module | Models | Correspondence |
|---|---|---|
| `ModuleNames` | normalize, trimDots, toUrl, packages and maps of require.js | a name is the sequence of its segments |
| `Amd` | the abstract specification: what a module loader promises | `Run(m)`: a factory runs once, after its dependencies; `Call(r)`: so does the callback of a require; `Fail`: something is reported as failed. A dependency that leads back to the module, or one that can never be complete, may be missing. |
| `RequireJs` | require.js | `registry`, `defined`, `waitCount`, `waitAry`, `inCheckLoaded`, ... are the variables of newContext; `mods` holds the Module objects, `stack` the calls under way. `INSTANCE Amd WITH` maps the defined modules and the callbacks run; that `Amd!Spec` is implemented is the property `LoaderPromise`. |
| `FormFields` | fieldValue, formToArray, $.param, clearFields, resetForm | the fields of a form and what is sent of them; of a file, the file or a text |
| `FormUpload` | ajaxSubmit and what it starts | a record per submit: where it is, its timers, listeners, the document in the frame, and the answers the page has been given |
| `QUnit` | the runner | `queue` has the steps of the tests; `depth` counts the process() loops under way; `semaphore`, `blocking`, `autorun` are the fields of config |
| `Equiv`, `JsDump`, `TextDiff` | QUnit.equiv, jsDump, diff | operators over a small heap (cyclic values included) and sequences of words |
| `Marathon`, `LogWindow`, `PanelLoading`, `GridData`, `Almond` | one script each | one action per handler, animation end or answer of the server (external) |
| `Scripts` | the choice of one of the small scripts | they run on different pages and share nothing, so one run explores each alone |

`MC...` modules give constants such as the hash function, the sizes of messages, a
page of modules or a heap of values; `MCMessaging` also chooses which of `Connection`,
`Batches`, `Consumers` and `CacheSync` a behaviour is about. `...Proofs` modules have the theorems.

Definitions keep the names of the methods they model. A definition named
`...Mutant`, or for a variant of the one beside it (`isFullLate`,
`removeLoadStuffAll`, `dependencyNoCycles`, ...) and used by no specification, is a
faulty version of it, a dropped guard or an off-by-one, with which the property named
under "mutants" in PROJECT.json must fail.

## Runs

The number of operations is bounded in every model, so a behaviour ends when
they are used up: all runs say `CHECK_DEADLOCK FALSE`, and that nobody waits for
ever is stated by liveness properties instead.

| Run | Shows | Instance, and why it is enough |
|---|---|---|
| `lru_sequential` | `CapacityRespected`: between operations the cache holds at most its capacity; `EvictOnlyWhenFull`: a put takes out another key only from a full cache | 1 thread, all 8 operations, 6 calls, 3 keys (2 in one bucket), capacity 2. Six calls fill the cache, promote, move within the second list and evict from either list; the counter rolls over at 5. |
| `lru_concurrent` | `LruListsOk`; `TableConsistent` (no item is lost in a cycle, table and lists agree, one item per key); `GetIsLinearizable`; `InformedOnce` | 2 threads, 4 calls of get, put, remove, clear. Two puts, and two calls that race on them, meet every pair of critical sections; an item can be hit while it is removed, replaced, evicted or cleared. |
| `lru_liveness` | `OperationsEnd`: the eviction loop makes progress, no lock is kept, every walk is finite | 2 fair threads, 4 calls, capacity 1, so that every put evicts. |
| `nsq_client` | `ConnectionsOk` (types, the pool size is never exceeded, no open connection is forgotten); `Reconnects` | timer, 2 producers, I/O thread, closer; pool of 2; 2 faults; 4 channels: one may be refused, dropped before it is attached, or silent, while another thread connects. |
| `messaging` | Connection: `ReportsTheTruth` (produce() says what the server did with the caller's own message), `OneRequestInFlight`. | 3 callers, 3 commands, a heartbeat: one caller times out, one waits for the queue, one comes later. |
| | Batches: `ExactlyOnce` (a message waits in one place until it is answered and is stored once at most), `BatchBounded`, `FlushFindsAll`. | 2 threads, 4 messages of 0 to 3 units, 2 flushes or configurations; both limits (2 messages, 3 units) are met and exceeded; each request may fail before or after it is stored. |
| | Consumers: `DeliveryOk` (types; `NothingLost`: a copy is finished only when every subscribed listener, or one listener of a queue group, has accepted it, or its resends are used up; `ResendBound`). | a group of subscribers and a queue group, 2 listeners, 2 registrations (in one group or in two, before or during a callback), retry -1, 0 or 1, 2 failures or timeouts; up to 4 deliveries, which cuts nothing off: with 7 there are as many states. |
| | CacheSync: `CachesOk` (types; `Coherent`: an outdated item that stays has one of the causes named). | 2 hosts, none or one of them with a RemoveCallBack, which may fail; 2 changes or deletions, which reordering needs; 1 resend, so that it is used up; entries that live for 1 tick and are renewed at any time. Larger instances pass too: with both hosts having a RemoveCallBack (1.1 million states more), and with a fault (a message not sent, sent twice or skipped; 7.2 million); the theorem covers any number. Together 1.4 million states. |
| `messaging_ends` | `AllFinished`: every message in a channel is finished some day; `EventuallyCoherent`: an outdated item expires for good, unless some host renews it again and again | Consumers as above with 1 failure and 3 deliveries. CacheSync with 2 hosts, 1 change, 1 fault, entries that live for 2 ticks: the faults are what leaves an item outdated. Fair: none, one or both have a RemoveCallBack, and `McFairInit` leaves out the second of the two ways in which one host has a RemoveCallBack, as a liveness property allows no symmetry set. 180,000 states. |
| `consumers_group` (violation) | `GroupOnce`: a queue group consumes a message once, as its documentation says. Both listeners consume the first message. | one queue group, 2 listeners, no failures |
| `require_loader` | `BookkeepingExact` (types; waitCount counts the modules that wait); `AnswerExclusive`: a require is answered by its callback or its errback; `OneModulePerScript`; `LoaderPromise`: RequireJs implements Amd; `AllCalled`: every require is answered | 4 modules: a package whose main module and another of its modules need each other, by relative names; one with two places, the first of which may fail or be late; a shim on top of it; a factory that throws; a require nested in a factory. 2 requires, browsers with and without interactive scripts, 1 expiry of the timeout. 153,000 states. |
| `form_upload` | `OneAnswer`; `DeferredAgrees`; `RequestsCounted` (types; the activity indicator is on while a request is pending); `SentAsValidated`: the server gets what the page validated; `ErrorIsFinal`; `UploadEnds` | 2 submits of one form of 7 fields, in 4 combinations of options (iframe, file, clicked button, keep-alive, frame of the page, forceSync, clear and reset, abort), 2 browsers, 1 edit between the submits. 260,000 states. Two submits are what sharing the form, the button and `$.active` needs. |
| `qunit` | `ReportJust` (types; totals are the sums of the tests'; a test passes only for a reason); `RunsInOrder` (one test at a time; those that failed last time first); `DoneMeansAll`; `AllFinish` | 5 tests: two callbacks, a leaked global, one callback, an exception, one registered when the page is loaded; with and without failures stored by an earlier run; timeouts race callbacks, and process() yields once. 315,000 states. |
| `scripts` | `MarathonShown` (types; the views are the collection, the filter is exact, without errors and overtaking the page agrees with the server); `PanelBalanced`, `PanelRestored`; `AlmondGiven`, `AlmondFails`; `WindowsShow` (types; the log is shown in order up to its limit, the grid shows the page asked for); `ReportsValues` (equiv is equality of shape, jsDump is faithful, diff restores both texts and keeps as much as it can) | marathon: 2 names, 3 inputs, answers in any order, errors; log: limit 2, 5 messages; panel: 4 calls, with and without contents; grid: 5 items, 3 pages, 4 requests; almond: 3 defines with cycles and a missing module, 2 requires; 35 values with cycles; texts of up to 4 of 3 words. 456,000 states. |
| `scripts_log` (violation) | `LogCleared`: at the limit the log window starts anew, as the comment in appendTextArea says. It stands still. | as `scripts` |

The types of LruCache, Connection and Batches are proved and so are not in a run.
Symmetry is used for threads, values, callers, listeners and hosts in the runs without
a liveness property; no definition tells their members apart. `messaging` explores its
four models one at a time, since they share no variable (`MCMessaging`): each is
the surroundings of another, and nsqd and the topic are part of each. Their threads,
listeners and hosts bear the same two names there, so that one exchange serves them all. `MCRequireJs` also
assumes, and TLC checks, that `trimDots` agrees with the meaning of "." and ".." for
all names of up to 6 segments that never climb above their root, and that the run's
page satisfies the hypotheses of the theorems about the loader.

### Fairness

- `LruCache`: weak fairness of each thread inside an operation (a thread is not
  suspended for ever; a bucket lock that stays free is obtained). No fairness
  for starting operations.
- `NsqClient`: weak fairness of each thread within a method, and strong fairness
  of entering a monitor for the timer, the I/O thread and the closer: Java hands a
  monitor over in no order, and a thread that contends for it again and again is
  assumed to get it. The timer fires every LOOKUP_PERIOD, and two minutes pass.
- `Consumers`: executors run what they are given; nsqd sends what is queued and
  requeues what has timed out. Listeners fail at most `MaxFailures` times.
- `CacheSync`: one weak fairness per host: calls that have begun go on, messages are
  handled, time passes. None of these can be starved by the others of its host,
  as each can happen only a bounded number of times between two changes or renewals.
  Nothing is assumed about evictions, nor that an entry is not renewed: the property
  says that only a host that renews again and again can keep an outdated item valid.
- `RequireJs`: weak fairness of the calls inside a handler and of the timer; strong
  fairness of the page's requires and of the events of scripts, because they are
  enabled only between handlers and the timer's handler comes again and again. A
  script that is never delivered is the timeout's business.
- `FormUpload`: the 10 ms timer, the timeout where one is set, and the answers of
  $.ajax and of the keep-alive request come. Load events of the frame need not.
- `QUnit`: the runner's own steps and timers and its timeout. A test's callbacks need
  not come.
- `Scripts`: animations end. Answers of servers and input of users need not come.

## Proofs

Checked by TLAPS, for every value of the constants that satisfies the named
assumption of the module.

`LruCacheProofs` (from `LruCacheAssumption`):

- `TypeCorrect`: `Spec => []TypeOK`. `TypeOK` needs `LocalsOk`, what a thread
  knows of its locals at each label (`item` is an item where it is followed, `num`
  a bucket inside clear()).
- `LruListsCorrect`: `Spec /\ []NoOverflow => []LruListsOk`: both lists are well
  formed, hold exactly the items with their hit count, and the sizes count them,
  for any number of threads, keys, buckets and calls. `NoOverflow` (no item is hit
  Integer.MAX_VALUE times) is needed: see below. `LruListsOk` is not inductive: a
  list beside a cycle satisfies the local conditions, and unlinking its only proper
  item would leave a non-empty set without a head. The invariant `ListsInv` asks
  for a ranking of the items whose successor relation is `_nextLru`; the lemmas
  `ListPush`, `ListUnlink` and `ListFrame` say what linking and unlinking do to a
  ranked list, and one lemma per critical section applies them. `FreshInv` says
  that an item that was never allocated is in no list, and so can be linked. The
  asserts of LruCache.java in the sections under `_lruLock` are cases of it.
- `TableIsConsistent`: `Listening => (Spec /\ []NoOverflow => []TableConsistent)`.
  `Listening` says that the listeners are enabled or clear() is not called; with
  clear() and without listeners the property is false (6 below). `HashInv` gives every
  bucket the set of its items, ranked as the lists are (`Linked`), and says where an
  item with a hit count is: in its chain, detached by a clear() that still walks it, or
  in a put that has not linked it yet. Whoever writes a chain holds its lock (`Guards`),
  so the writers of the other threads are elsewhere (`Others`, `Apart`). That what is
  *reached* by following pointers is the ranked set (`ReachList`) is an induction along
  the list; it is done by positions, with the least counterexample of a bounded set.
- `CapacityIsRespected`, `EvictsOnlyWhenFull`: for one thread (with two both are false,
  4 and 5 below) and any capacity. `Sized` says what the thread knows at each place of a
  put: the size it read is current, it evicts only while the cache is full, and it
  inserts only when there is room. A list without a tail is empty (`NoTail`, from
  `ListsInv`), so the eviction loop cannot end in a full cache without a victim.
- `GetsAreLinearizable`: `Listening => (HSpec /\ []NoOverflow => []GetIsLinearizable)`.
  get() follows `_nextHash` without a lock, through items that are being unlinked and
  chains that are detached. The invariant `WalkInv` speaks of sets of items that no
  pointer leaves (`Closed`). `Sees`: *some* such set holds everything the get can still
  meet, and each item in it with the get's key has a value the key held since the call,
  which makes a hit right. `Ahead`: *every* such set that holds the get's position
  also holds the item of its key, unless the key was absent since the call, which makes
  a miss right. `ClosedAfter` and `ClosedBefore` carry such sets over the three
  ways in which a step changes pointers (`ChainStep`). `PointInv` says that no pointer
  leads to an item that was not yet linked.
- `ListenersInformedOnce`: with `EnableListeners` and finitely many threads,
  `HSpec /\ []NoOverflow => []InformedOnce`. Which items still have to be informed
  (`Kept`) is read off their hit counts and the threads about to link or unlink them
  (`LiveFacts`), or they are in the list of one clear() (`HoldInv`); every step is of one
  of seven kinds by what it does to that set (`Classes`, `KeptStep`). `Owing` is the
  account: what was stored of a value and not informed is the number of such items that
  hold it and of threads on their way to removeEvent() with it.

`NsqProofs` (from `ConnectionAssumption` and `NsqClientAssumption`):

- `TypeCorrect`: `ConnSpec => []ConnTypeOK`, with `LockInv` for the labels.
- `RequestsIsALock`: `ConnSpec => []OneRequestInFlight`.
- `AnswersBelong`: `Identified /\ ConnSpec => []ReportsTheTruth`. Answers carry no
  identity, so the argument is about everything under way: `requests` is empty only
  when no command and no answer is under way (`OneThingInv`), because a command
  that times out *leaves its request in the queue*, and nobody can write after it.
  Hence all that is under way is one command, or its one answer, and it belongs to
  the command in `requests`; `FreshInv` (no command is used twice) and `TruthInv`
  (an answer says what was stored) carry it to the outcome. What looks like a
  forgotten `requests.poll()` after a timeout is what makes the class correct: with
  the request taken out (`closeMutant`) the property fails. `Identified` says that
  the answer to IDENTIFY has come before the first command; without it the property
  fails (see below).
- `ConnectionsAccounted`: `Spec => []ConnectionsOk`. connect() computes once how many
  connections are missing; the invariant says that nobody else is inside connect()
  (`Exclusive`) and that what is listed, being created and still to create is at most
  the pool size (`Pool`), as the list can only shrink meanwhile. For the second half:
  whoever removes a connection does so when its channel is closed (`Closed`), and
  close()'s copy of the list still has every open connection (`Closing`).

`MessagingProofs` (from `ConsumersAssumption` and `CacheSyncAssumption`):

- `MessagesDelivered`: `Spec => []DeliveryOk`. For `NothingLost`: a callback still has
  every listener to run that was subscribed in time and has not accepted (`Covered`), and the attempt it was
  given is not later than nsqd's count (`Sent`), so that one with `attempts > retry`
  finishes a copy that has been sent more than `retry` times. `ResendBound` compares a
  counter of nsqd with the retries of consumers that may have answered long ago. The
  invariant therefore asks for the *set* of attempts that were requeued (`Resends`): as
  many as nsqd counts, each within the retry of some consumer, none of them pending.
  No attempt is pending twice (`Distinct`), so REQ adds a new one, and the latest of n
  attempts is at least the n-th.
- `CachesAgree`: `SyncSpec => []CachesOk`. `Coherent` speaks of states in which nothing
  is under way. `Tracked` says where the message about the *last* change is while an item
  it makes outdated is cached: about to be sent, not sent, waiting, being handled, given
  up after its resends or by a callback that found no listener, or overtaken by the
  host's own remove(). `ThreadsInv` ties the threads' locals to it: a message that is
  being handled stays until the listener returns.

`BatchesProofs` (from `BatchesAssumption`):

- `BatchesTyped`: `BatchSpec => []BatchTypeOK`; with `CreatedInv`, that the Batch objects suffice.
- `EveryMessageOnce`: `BatchSpec => []ExactlyOnce`. The number of places of a message says
  nothing about where it goes: the invariant (`Located`) gives two functions from
  messages, the kind of place and which one, and each action moves messages by changing
  them; a message that is done is recorded as stored, reported or refused, in one request
  at most, and waits nowhere. That the batch it waits in is not forgotten is `FlushInv`. `ControlInv` says that a list is empty when a batch is moved into it.
- `NothingLeftBehind`: `BatchSpec => []FlushFindsAll`, by `FlushInv`, the same for each batch
  at every label.
- `RequestsBounded`: `BatchSpec => []BatchBounded`. A batch may pass its limits by what the
  threads have added that have not looked yet whether it is full (`Ready`, `BoundInv`):
  one message each, as nobody adds another before it has looked. The bytes are a sum
  over a finite set; what adding a message does to it is proved from the equations of
  the sum by a least counterexample.
  `BatchesAssumption` has finitely many threads, and `ServerMax` of at least two units
  (the code's 1,024,768 bytes are about twenty).

`FormUploadProofs` (from `UploadAssumption`):

- `UploadAnsweredOnce`, `PromiseAgrees`: `Spec => []OneAnswer`, `Spec => []DeferredAgrees`.
  Submits are independent here, and `Well` says for each: while it is open nothing has
  been answered, and all answers but those of the page's own abort close it for good.
- `ErrorsAreFinal`: `Spec => ErrorIsFinal`, an action property, from the same invariant.
- `ActiveCounts`: `Spec => []RequestsCounted`. `CountInv` compares `$.active` with the
  size of the set of requests under way (`Holding`): each decrement belongs to one that
  leaves the set.
- `SentIsValidated`: `Spec => []SentAsValidated`. Between validation and submission the
  form is the page's, so the invariant (`SentInv`) is about what the browser *would*
  send: from the form and the button as they are now, an upload that nobody has
  disturbed sends what formToArray took (`Reads`), though its own steps enable fields,
  add hidden ones and take them away; one that waits for its keep-alive request sends no
  more than that, as the list of fields to enable again is gone by then. Of
  `UploadAssumption` it needs that a file field
  has at most one file in a browser without the file API. The proof found a case
  that the property did not allow for: a click of a second submit changes `form.clk`
  (jquery.form.js:408) while the first still waits for closeKeepAlive, and the first
  then sends the second one's button. It counts as a disturbance now (`touched`).

`PagesProofs` (from `PanelAssumption`, `QUnitAssumption` and `MarathonAssumption`):

- `PanelStaysBalanced`: `PanelSpec => []PanelBalanced`. Containers are a sequence,
  overlays are told apart by their call, so the invariant says that a call has at most
  one overlay (`OneEach`). A panel without contents needs an argument of its own: when
  nothing is in the outermost container it is the only one, and stays; the next load
  wraps it with the rest, so that never two are left over.
- `TestsRunInOrder`: `Spec => []RunsInOrder` and `DoneIsTheEnd`: `Spec => DoneMeansAll`,
  for any tests and bodies, extra start() calls, callbacks of an earlier test and
  timeouts included. The steps still to be done are spread over `config.queue` and the
  synchronize() calls under way, so the invariant (`QueueInv`) is about the one list
  that they make up: queue, then what each frame of the stack adds to it, given by a
  sequence of partial lists instead of a recursion (`Unwinds`). In that list the steps
  of a test are in order and are those that its phase leaves to be done; until the end
  of the run (`autorun`) no other test comes between them; tests that failed in the run
  before come first (`ListOk`). The rest says that a call with `last` is the outermost
  one (`StackOk`), that what is registered has been queued (`LoadInv`), that a test
  appears in the order once it is set up (`OrderInv`), and that the current test is the
  one whose callbacks or timeout the runner waits for (`WaitInv`).
- `TotalsAreExact`: `Spec => []StatsExact`, for any tests and bodies. The totals are sums
  over the finished tests; what a step does to such a sum is proved from its equations,
  by a least counterexample as for the bytes of a batch (`SumsAgree`, `TotalAdd`).
- `ReportIsJust`: `Orderly => (Spec => []ReportJust)`. The hypothesis is about what the
  tests do: each stop() has a callback that calls start() once, and at most one test is
  registered after load, or none leaks a global variable. It cannot be dropped: start()
  called too often is ignored silently (qunit.js:368) but lets the queue go on before
  the other callbacks have come, and tests registered after the end of the run may
  overlap and see each other's globals. The run's tests satisfy it (an `ASSUME` of
  `MCQUnit`). The invariant (`JustInv`) was checked with TLC on small instances of both
  kinds, one late test with leaks and three without, before it was proved. Until the
  queue is restarted under a waiting test, by a timeout or because it died (`early`), the
  semaphore is the number of callbacks to come, all of the current test (`WaitsFor`); what `window` has and
  `pollution` has not is the global of the test that leaked it (`WindowOk`); and the
  assertions kept with a test tell, phase by phase, what it has done so far (`Told`), so
  that a finished test has failed exactly when it did something wrong.
- `PageShowsApps`: `MarathonSpec => []MarathonShown`. That the page agrees with the
  server is said for the moments when nothing is under way; the invariant (`AgreeInv`)
  extends it to the others: the latest request on an app that the server has not
  handled, or else the server, says what the page shows of the app, and a scale
  reaches an app that runs by then (`Present`), since the server ignores it otherwise.
  It is kept as long as nothing happened that the page does not cope with (`excuses`: a
  request that failed or overtook another, a name used twice, a page used before its
  list came). The rest says that views and models of the
  collection correspond (`ViewsInv`), that the filter hides what it should of the views
  it knows (`FilterInv`), and that requests are numbered in the order they are sent
  (`SentInv`). The assumption adds that the server runs finitely many apps.

`RequireJsProofs` (from `RequireAssumption` and `NamesAssumption`), for pages that are
configured well: no two modules have a place in common and what is found at a place of
a module is its source (`OwnPlaces`); for `LoaderBookkeeping`, no path has more than one
fallback (`TwoPlaces`). Both are operators of `RequireJs`, and an `ASSUME` of
`MCRequireJs` says that the run's page satisfies them. Names, packages, maps, shims,
dependencies, cycles, browsers, the order of events and their number are arbitrary.

- `LoaderBookkeeping`: `Spec => []BookkeepingExact`. The invariant `WaitInv` says which
  modules waitCount counts (`Awaited`: in waitAry, not defined), that none is there twice,
  and that an initialized Module is registered or defined. The last part is what could go
  wrong: removeWaiting (594-607) unregisters a module that moves to its fallback, and if
  it were initialized by then it would later be counted down a second time. That it
  is not is `LoadInv`.
- `LoaderLoads`: `Spec => [](TypeInv /\ FlagInv /\ LoadInv)`. Outside IE 6-8, as long as a
  module has not moved, there is one Module of its name and one script for it, which is
  first a script of the page and then the call that its load or error event makes
  (`Token`); until that event has come and found it the Module is not initialized.
  `FlagInv` says that define() is under way only for a module with the flag `defining`,
  once for each.
- `OneScriptEach`: `Spec => []OneModulePerScript`, from the places that `TypeInv` gives
  Modules and scripts.

  `TypeInv` is not just types. That what the queue of define holds belongs to the script
  whose load event is handled (`QueueInv`), and that a Module is found under its name
  (`RegInv`), is needed to type what the calls are given. Each of the 42 actions
  (calls and events) is shown once to keep `TypeInv` and to be one of 26 kinds of
  steps (`Did`), which say what happens to the Modules, the registry, the scripts and the
  stack, and the invariants after `TypeInv` are proved from these. How the calls under
  way move is said in one form for all steps (`Came`).

`RequireCallsProofs` (from the same assumptions, on top of `RequireJsProofs`):

- `LoaderCallbacks`: `OwnPlaces /\ TwoPlaces => (Spec => CallbacksInTime)`. A step that
  changes `called` is the step `Call` of `Amd`, the half of `LoaderPromise` that the page
  sees: the callback of a require runs once at
  most, and every module it asked for has run by then, also when modules fail, move to
  their fallback, come late, or are forced to run in the middle of a cycle. The code
  decides by counting: check() goes on when depCount is 0. `CountInv` says that depCount of
  a Module of require is the number of its dependencies that it has not heard of, up to
  where the loop of enable() has got, that each of the others has run, and that whoever
  is still going to tell it has not done so (`Listens`, `Past`): defineDep would
  otherwise count a dependency that enable() has not come to yet, which is added later.
  `RanInv` says that what is defined has run, which for a script without define() is
  before its load event. `OnceInv` follows the callback from the call of require over init
  to its Module and says that no other has it, and that it has not been called before
  the Module is defined, except by the define() under way. For the factories of modules
  the same is not true, and `Amd` does not promise it: in a cycle one of them comes first.

Only model-checked: all liveness properties and what needs fairness or ENABLED; of
`RequireJs`, `AnswerExclusive` and the step `Run` of the refinement of `Amd`
(`LoaderPromise`; the step `Call` is proved), which depend on what findCycle answers, a
recursion over the graph of modules; and the invariants of
`Almond` and of the other small scripts (`AlmondGiven`, `WindowsShow`, `ReportsValues`),
which are about recursive operators. Induction over data in general is out of the prover's
reach; for one particular set (the positions of a list, the messages of a batch) the least
counterexample, given by the well-foundedness of the natural numbers, takes its place in
the proofs above.

## What does not hold

Seen by changing the constants or the property of a run:

1. `ReportsTheTruth` with `Identified = FALSE` in `messaging.cfg`:
   createConnection sends IDENTIFY and does not wait; the answer can be taken for the
   result of the first produce().
2. `Reconnects` with `IsConsumer = TRUE` in `nsq_client.cfg`: NSQConsumer.createConnection
   dereferences the null of a refused connection; the exception ends the timer's thread.
3. `ConnectEnds` in `nsq_client.cfg`: close() takes the monitor of Connections and then
   the client's, connect() the other way round, and both wait for ever.
4. `CapacityRespected` with two threads (`Threads = {t1, t2}` in
   `lru_sequential.cfg`, operation put only): both pass removeLru before either inserts.
5. `EvictOnlyWhenFull` with two threads, operations put, get, remove and 5 calls:
   `_size1` and `_size2` are read apart, and an item promoted in between counts twice.
6. `OperationsEnd` with `EnableListeners = FALSE`, one thread, put and clear: clear()
   empties the table but not the lists (LruCache.java:190), and the next put on a
   full cache loops for ever in removeLru.
7. `LruListsOk` with `MaxInt = 3`: an overflowing hit count is negative, which means
   deleted, while the item stays linked.

Named as exceptions by properties that hold otherwise:

8. `NothingLost`: the callback reads the HashMap LISTENER_LIST without the lock
   (Consumers.java:132). A resize for another topic may hide the listeners, and the
   message is finished unconsumed (`missed`).
9. `ResendBound`: retry = 0 resends for ever, like the documented -1
   (Consumers.java:108 and 136).
10. `FlushFindsAll`, `ExactlyOnce`: a message added to a batch that a flush or a
    configuration has just taken out is neither sent nor reported (`overtaken`,
    NSQProducer.java:111). batchError may be told of a request that nsqd has stored: its
    answer did not come in time, or batchSuccess threw inside the try (77-83).
11. `BatchBounded`: the byte limit is tested after the message is added (Batch.java:67),
    so a message of more than 50k takes a request over nsqd's limit, in spite of
    "subtract 50k so we dont accidentally go over the limit".
12. `Coherent`: a read that began before a change puts the old item back after the
    message was handled (`late`); the same happens to a RemoveCallBack; with a
    RemoveCallBack a deleted item stays (TimedCacheFactory.java:392); a produce()
    that fails is only logged (`lost`); and a message is given up when the RemoveCallBack
    has failed at each of its 5 resends (405-411), or when the callback of 8 finds no
    listener (`dropped`). The item is then outdated until it expires.
13. `EventuallyCoherent`: `get(key, interval)` and `expireInterval` renew an entry without
    asking whether it is valid (TimedCache.java:124-144), an expired one too; who
    keeps using them keeps an outdated item.

Stated by the documentation, and violated in a run of its own (PROJECT.json, "findings"):

14. `GroupOnce` (`consumers_group`): listeners are kept per topic and every callback runs
    all of them, so two listeners of a queue group each consume a message, although
    "组内只能消费一次" (Consumers.java:97).
15. `LogCleared` (`scripts_log`): at the limit `el` is used before it is looked up
    (LogWebSocket.js:42 and 46); the exception ends the handler, and the window stands
    still, although "达到最大行数，清楚历史记录" (40).

In the models of the scripts, where the properties allow for it:

- **require.js**: with a second fallback waitCount can be wrong (`BookkeepingExact` for a
  page without `TwoPlaces`: a module `c` with a dependency and three places). The script
  of the first place comes late and calls define for `c` while the second is being asked;
  when that one fails, removeWaiting takes the module out of the registry and of the
  count, and it is counted down again when its dependency comes and it is defined. When a
  timeout moves a module to its second place, `needCycleCheck` stays set (736-742): a
  cycle can be broken while that place is still loading, and the callback is followed by
  an errback. After a load timeout that throws, `inCheckLoaded` stays true (761-766) and
  nothing is checked again. The late script of an abandoned url creates a module of its
  own, so a factory can run twice; its late error event fails the new attempt. A require
  of a module that has failed before is never answered. An errback is called once per
  module that fails. The failure of a shim's dependency is not told to whom requires the
  shim. takeGlobalQueue inserts before the last entry (548); a second anonymous define of
  a script is dropped (1534); `exports` makes a module defined before its factory has run
  (579).
- **jquery.form.js**: abort and timeout never decrement `$.active`; a veto by beforeSend
  decrements it without ajaxStop, an abort in beforeSend leaks it. A second abort calls
  error and complete again; an abort before doSubmit does not keep the form from being
  submitted; the page's abort never rejects the promise. The form's enctype stays
  multipart. Values are read when the form is submitted, 10 ms after they were validated.
  A clicked image that beforeSubmit has disabled is not enabled again; with closeKeepAlive
  the list of elements is dropped before it is used (244), and what beforeSubmit
  disabled is not sent (`StaysDisabled`); a file that beforeSubmit disabled is not seen
  (208), and goes as text, or through $.ajax (`FilesAsText`); the load listener of a frame given by the page is never
  attached (530-537); the branches on `timedOut` cannot be reached.
- **qunit.js**: done() skips entries while it clears the stored failures (1136-1141). A
  start() too many, and a start() or an assertion after the timeout, count for the next
  test. With autorun, a nested process can interleave two tests: of two tests queued
  together after done(), the globals that one leaks may count as the other's. equiv is
  asymmetric when only its first value is cyclic. diff loses words deleted at the front when the text
  begins with a kept word.
- **panelLoading**: a start during a fade loses the class; a toggle during a fade stops;
  a panel without contents can keep an empty container, as unwrapping the contents of
  nothing does nothing (36-38).
- **marathon.js**: failed and overtaken requests are not rolled back; the late answer of a
  start overwrites a later scale; an app added before the list has come leaves a stale
  view; the filter does not know apps that come later, nor is a text typed before the list
  has come applied to it.
- **datasource.js**: the page can pass either end when the arrows are clicked faster than
  the delay; a count of 0 starts at 1.
- **almond.js**: an exception leaves `defining` set and `waiting` removed: a later require
  of the module silently gets nothing.

Seen while reading, and in no property: compareAndPut(v, k, v) on a
key that holds v stores and answers false (LruCache.java:336); keys that are not strings are never removed on other hosts
(TimedCacheFactory.java:379; the model assumes strings); marathon's Cancel button
is a submit button (index.html:58) and `dismiss` is not bound (marathon.js:614);
QUnit.diff throws on words such as "constructor".

## Not modelled

- LruCache's iterators and its hit and miss statistics; interrupted threads; RDY flow
  control and the shutdown hooks; several nsqd addresses, the lookup service and the
  choice between connections; conversion of payloads and the bytes of frames (input and
  output). Topics, keys and messages are alike, so one topic or key stands for all,
  except where they share a table. TimedCache's groups and their refresh times: its entries,
  their expiry and renewal are in `CacheSync`. The setters of a batch's limits and callback,
  which `Batches` takes as constants; removeAll and the registry of TimedCacheFactory.
- Scheduler, discovery, configuration, counters, lively, hystrix, redis and memcached:
  each is a thin layer over a library (quartz, Curator, kafka, hystrix, jedis) that is
  not in the repository, and what could go wrong is in the library's order of events.
  Places to be careful with: modifySchedule removes a job and then adds it, so that a
  failure in between loses it; a job is scheduled and only then paused; DiscoveryUtil's
  polling counter wraps to a value without an absolute value; SmcConfiguration publishes
  its map before it is filled; KafkaConsumer (line 98) commits the offsets of all
  partitions while other threads' batches are not stored; TimedCache.get (line 107)
  removes a key after an unlocked test, and a group refreshed in the millisecond of its
  creation keeps its entries (line 91).
- require.js: loader plugins, configure called again, undef called by a page, web
  workers. jquery.form.js: parsing of responses, upload progress, ajaxForm's bindings.
  qunit.js: the HTML report. marathon.js: markup, validation messages, shortcuts.
- json2.js, md5, cookies and the minified or generated files: text encodings without
  control of their own, or no readable source; `fuelux/sample/data.js`: a table of data.

## What is worth adding

A small model of ZooKeeper (nodes, watches, sessions that end) with Configuration and
Scheduler over it; an abstract map that LruCache implements for one thread; of the refinement
of `Amd`, that the factory of a module runs once.
