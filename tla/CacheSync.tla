----------------------------- MODULE CacheSync ------------------------------
(***************************************************************************)
(* com.smc.local.cache.TimedCacheFactory with needSync, for one key: each  *)
(* host caches what it read from a database; a host that changes the       *)
(* database calls remove(key), which sends a delete message to all hosts   *)
(* through nsq and drops the key locally; a host that receives the message *)
(* drops the key too, or overwrites it through the RemoveCallBack.         *)
(*                                                                         *)
(* The topic is external (Consumers, NsqClient): a message reaches every   *)
(* host, late, in any order, and perhaps twice, and is given up where the  *)
(* listener has failed too often or was not found.  Assumed are one        *)
(* factory for the topic, hosts with different identifications, and keys   *)
(* that survive the message (strings without an @).                        *)
(***************************************************************************)
EXTENDS Naturals

CONSTANTS
  Hosts,
  NoItem,
  MaxResends,     \* the resends the listener is registered with (5)
  Interval,       \* how long an entry stays valid, in ticks of time
  MaxWrites,      \* bound: changes of the database
  MaxFaults       \* bound: calls of produce() that fail, messages sent twice or skipped

Values == 0 .. MaxWrites
Writes == 1 .. MaxWrites

ASSUME CacheSyncAssumption ==
  /\ {MaxWrites, MaxFaults} \subseteq Nat /\ {MaxResends, Interval} \subseteq Nat \ {0}
  /\ NoItem \notin Values

VARIABLES
  db,          \* the item in the database, NoItem when deleted
  writes,      \* changes made
  callBack,    \* per host: has the constructor been given a RemoveCallBack
  cache,       \* per host: the cached item, or NoItem
  life,        \* per host: how long the entry is still valid
  topic,       \* per host: messages to handle, by the number of their write
  returns,     \* per host and message: how often it came back
  sender,      \* per message: the host that sent it
  reader, loaded,    \* per host: the thread that reads through the cache
  writer, item,      \* per host: the thread that changes the item
  consumer, fetched, current, \* per host: the executor of the topic's consumer
  faults,
  lost,        \* history: the message about the last change was not sent
  dropped,     \* history: hosts for which it was finished, but not handled
  late         \* history: hosts whose item was outdated when it was put

database == <<db, writes, callBack, sender>>
entries == <<cache, life, late>>
readers == <<reader, loaded>>
writers == <<writer, item>>
consumerVars == <<consumer, fetched, current>>
topicVars == <<topic, returns, dropped, faults>>
syncVars == <<database, entries, readers, writers, consumerVars, topicVars, lost>>

SyncInit ==
  /\ db = 0 /\ writes = 0
  /\ callBack \in [Hosts -> BOOLEAN]
  /\ cache = [h \in Hosts |-> NoItem] /\ life = [h \in Hosts |-> 0] /\ late = {}
  /\ topic = [h \in Hosts |-> {}] /\ dropped = {}
  /\ returns = [h \in Hosts |-> [w \in Writes |-> 0]]
  /\ sender = [w \in Writes |-> NoItem]
  /\ reader = [h \in Hosts |-> "idle"] /\ loaded = [h \in Hosts |-> NoItem]
  /\ writer = [h \in Hosts |-> "idle"] /\ item = [h \in Hosts |-> NoItem]
  /\ consumer = [h \in Hosts |-> "idle"] /\ fetched = [h \in Hosts |-> NoItem]
  /\ current = [h \in Hosts |-> NoItem]
  /\ lost = FALSE /\ faults = 0

-----------------------------------------------------------------------------
(***************************************************************************)
(* The entries of TimedCache: put, and what get(key) does with an entry    *)
(* that is no longer valid.                                                *)
(***************************************************************************)
put(h, v) ==
  /\ cache' = [cache EXCEPT ![h] = v]
  /\ life' = [life EXCEPT ![h] = IF v = NoItem THEN 0 ELSE Interval]
  /\ late' = IF v \in {NoItem, db} THEN late \ {h} ELSE late \cup {h}

isValid(h) == cache[h] # NoItem /\ life[h] > 0

(* Time passes                                                             *)
ageMutant(h) ==
  /\ life[h] > 1 /\ life' = [life EXCEPT ![h] = @ - 1]
  /\ UNCHANGED <<cache, late, database, readers, writers, consumerVars, topicVars, lost>>

age(h) ==
  /\ isValid(h)
  /\ life' = [life EXCEPT ![h] = @ - 1]
  /\ UNCHANGED <<cache, late, database, readers, writers, consumerVars, topicVars, lost>>

(* The LRU list is full                                                    *)
evict(h) ==
  /\ cache[h] # NoItem
  /\ put(h, NoItem)
  /\ UNCHANGED <<database, readers, writers, consumerVars, topicVars, lost>>

(* get(key, interval) and expireInterval: no test whether the entry is     *)
(* still valid                                                             *)
renew(h) ==
  /\ cache[h] # NoItem
  /\ life' = [life EXCEPT ![h] = Interval]
  /\ UNCHANGED <<cache, late, database, readers, writers, consumerVars, topicVars, lost>>

(* Reading through the cache, as the class comment of TimedCache shows it  *)
readThrough(h) ==
  /\ reader[h] = "idle" /\ ~isValid(h)
  /\ put(h, NoItem)
  /\ reader' = [reader EXCEPT ![h] = "put"]
  /\ loaded' = [loaded EXCEPT ![h] = db]
  /\ UNCHANGED <<database, writers, consumerVars, topicVars, lost>>

putLoaded(h) ==
  /\ reader[h] = "put"
  /\ put(h, loaded[h])
  /\ reader' = [reader EXCEPT ![h] = "idle"]
  /\ loaded' = [loaded EXCEPT ![h] = NoItem]
  /\ UNCHANGED <<database, writers, consumerVars, topicVars, lost>>

-----------------------------------------------------------------------------
(* The application changes the database, then calls remove(key)            *)
change(h) ==
  /\ writer[h] = "idle" /\ writes < MaxWrites
  /\ writes' = writes + 1
  /\ sender' = [sender EXCEPT ![writes + 1] = h]
  /\ db' \in {writes + 1, NoItem}
  /\ writer' = [writer EXCEPT ![h] = "produce"]
  /\ item' = [item EXCEPT ![h] = writes + 1]
  /\ lost' = FALSE /\ dropped' = {}
  /\ UNCHANGED <<callBack, entries, readers, consumerVars, topic, returns, faults>>

Fault == faults < MaxFaults /\ faults' = faults + 1

(* remove, first half: an exception of produce() is only logged            *)
produceDelete(h) ==
  /\ writer[h] = "produce"
  /\ \/ topic' = [x \in Hosts |-> topic[x] \cup {item[h]}] /\ UNCHANGED <<lost, faults>>
     \/ Fault /\ lost' = (lost \/ item[h] = writes) /\ UNCHANGED topic
  /\ writer' = [writer EXCEPT ![h] = "remove"]
  /\ item' = [item EXCEPT ![h] = NoItem]
  /\ UNCHANGED <<database, entries, readers, consumerVars, returns, dropped>>

(* remove, second half                                                     *)
remove(h) ==
  /\ writer[h] = "remove"
  /\ put(h, NoItem)
  /\ writer' = [writer EXCEPT ![h] = IF callBack[h] /\ cache[h] # NoItem THEN "item" ELSE "idle"]
  /\ UNCHANGED <<database, readers, item, consumerVars, topicVars, lost>>

(* The exception of a getItem that fails goes to the caller                *)
getItem(h) ==
  /\ writer[h] = "item"
  /\ \/ item' = [item EXCEPT ![h] = db] /\ writer' = [writer EXCEPT ![h] = "back"]
     \/ writer' = [writer EXCEPT ![h] = "idle"] /\ UNCHANGED item
  /\ UNCHANGED <<database, entries, readers, consumerVars, topicVars, lost>>

putBack(h) ==
  /\ writer[h] = "back"
  /\ put(h, item[h])
  /\ item' = [item EXCEPT ![h] = NoItem]
  /\ writer' = [writer EXCEPT ![h] = "idle"]
  /\ UNCHANGED <<database, readers, consumerVars, topicVars, lost>>

-----------------------------------------------------------------------------
(* What becomes of a message that was sent to h: it is finished, or sent   *)
(* once more                                                               *)
Finish(h, w) ==
  /\ topic' = [topic EXCEPT ![h] = @ \ {w}]
  /\ returns' = [returns EXCEPT ![h][w] = 0]

Drop(h, w) ==
  /\ Finish(h, w)
  /\ dropped' = IF w = writes THEN dropped \cup {h} ELSE dropped

Again(h, w) == returns' = [returns EXCEPT ![h][w] = @ + 1] /\ UNCHANGED topic

(* The listener has returned true: the message is finished, unless nsqd    *)
(* has sent it again in the meantime                                       *)
acknowledged(h, w) ==
  /\ \/ Finish(h, w) /\ UNCHANGED faults
     \/ Again(h, w) /\ Fault
  /\ UNCHANGED dropped

(* It has returned false: Consumers requeues the message, and finishes it  *)
(* once the resends are used up.                                           *)
sendAgain(h, w) ==
  /\ \/ returns[h][w] + 1 > MaxResends /\ Drop(h, w)
     \/ returns[h][w] + 1 <= MaxResends /\ Again(h, w) /\ UNCHANGED dropped
  /\ UNCHANGED faults

(* Consumers' callback has found no listener (its unlocked map)            *)
skip(h, w) ==
  /\ consumer[h] = "idle" /\ w \in topic[h]
  /\ Drop(h, w) /\ Fault
  /\ UNCHANGED <<database, entries, readers, writers, consumerVars, lost>>

(* startConsumer's listener: the message carries the host and the key.     *)
(* With a RemoveCallBack it asks for a valid entry with get(key), which    *)
(* drops an expired one.                                                   *)
isOwnMutant(h, w) == sender[w] # h
isOwn(h, w) == sender[w] = h

excuteDelete(h, w) ==
  /\ consumer[h] = "idle" /\ w \in topic[h]
  /\ \/ /\ isOwn(h, w)
        /\ acknowledged(h, w)
        /\ UNCHANGED <<entries, consumer, current>>
     \/ /\ ~isOwn(h, w) /\ ~(callBack[h] /\ isValid(h))
        /\ put(h, NoItem)
        /\ acknowledged(h, w)
        /\ UNCHANGED <<consumer, current>>
     \/ /\ ~isOwn(h, w) /\ callBack[h] /\ isValid(h)
        /\ consumer' = [consumer EXCEPT ![h] = "item"]
        /\ current' = [current EXCEPT ![h] = w]
        /\ UNCHANGED <<entries, topicVars>>
  /\ UNCHANGED <<database, readers, writers, fetched, lost>>

(* ... getItem, whose exception makes the listener return false ...        *)
fetch(h) ==
  /\ consumer[h] = "item"
  /\ \/ /\ fetched' = [fetched EXCEPT ![h] = db]
        /\ consumer' = [consumer EXCEPT ![h] = "put"]
        /\ UNCHANGED <<current, topicVars>>
     \/ /\ sendAgain(h, current[h])
        /\ consumer' = [consumer EXCEPT ![h] = "idle"]
        /\ current' = [current EXCEPT ![h] = NoItem]
        /\ UNCHANGED fetched
  /\ UNCHANGED <<database, entries, readers, writers, lost>>

(* ... and put, unless the item is null                                    *)
overwrite(h) ==
  /\ consumer[h] = "put"
  /\ \/ fetched[h] # NoItem /\ put(h, fetched[h])
     \/ fetched[h] = NoItem /\ UNCHANGED entries
  /\ acknowledged(h, current[h])
  /\ consumer' = [consumer EXCEPT ![h] = "idle"]
  /\ fetched' = [fetched EXCEPT ![h] = NoItem]
  /\ current' = [current EXCEPT ![h] = NoItem]
  /\ UNCHANGED <<database, readers, writers, lost>>

Writer(h) == produceDelete(h) \/ remove(h) \/ getItem(h) \/ putBack(h)
Consumer(h) == (\E w \in Writes : excuteDelete(h, w) \/ skip(h, w)) \/ fetch(h) \/ overwrite(h)

SyncNext == \E h \in Hosts :
  \/ readThrough(h) \/ putLoaded(h) \/ age(h) \/ renew(h) \/ evict(h)
  \/ change(h) \/ Writer(h) \/ Consumer(h)

SyncSpec == SyncInit /\ [][SyncNext]_syncVars

(* On every host something goes on as long as something is left to do: a   *)
(* thread that has begun, a message to handle, or time, until every entry  *)
(* has expired.  Nothing is assumed about one of them going before another,*)
(* nor that an entry that is renewed ever expires, or is evicted.          *)
Fairness ==
  \A h \in Hosts : WF_syncVars(putLoaded(h) \/ Writer(h) \/ Consumer(h) \/ age(h))

SyncFairSpec == SyncSpec /\ Fairness

-----------------------------------------------------------------------------
(* Every variable has its type, and every message names its sender.        *)
SyncTypeOK ==
  /\ db \in Values \cup {NoItem} /\ writes \in 0 .. MaxWrites
  /\ callBack \in [Hosts -> BOOLEAN]
  /\ cache \in [Hosts -> Values \cup {NoItem}] /\ late \subseteq Hosts
  /\ life \in [Hosts -> 0 .. Interval]
  /\ topic \in [Hosts -> SUBSET (1 .. writes)]
  /\ returns \in [Hosts -> [Writes -> Nat]]
  /\ lost \in BOOLEAN /\ dropped \subseteq Hosts /\ faults \in 0 .. MaxFaults
  /\ sender \in [Writes -> Hosts \cup {NoItem}]
  /\ \A h \in Hosts : \A w \in topic[h] : sender[w] \in Hosts
  /\ reader \in [Hosts -> {"idle", "put"}]
  /\ writer \in [Hosts -> {"idle", "produce", "remove", "item", "back"}]
  /\ consumer \in [Hosts -> {"idle", "item", "put"}]
  /\ loaded \in [Hosts -> Values \cup {NoItem}]
  /\ item \in [Hosts -> Values \cup {NoItem}]
  /\ fetched \in [Hosts -> Values \cup {NoItem}]
  /\ current \in [Hosts -> Writes \cup {NoItem}]
  /\ \A h \in Hosts : writer[h] = "produce" => item[h] \in Writes

Stale(h) == cache[h] \notin {NoItem, db}

Busy(h) == writer[h] # "idle" \/ consumer[h] # "idle" \/ reader[h] # "idle"

(* The cache is cleared "in a synchronized way by listening to the topic": *)
(* an item that becomes outdated while it is cached is gone when no call   *)
(* and no message is under way, whatever the order in which messages and   *)
(* changes of several hosts are handled.  The exceptions are flaws of the  *)
(* code: the message about the last change was not sent (lost), or it was  *)
(* given up because the RemoveCallBack failed at every resend or the       *)
(* callback found no listener (dropped); the item was outdated already     *)
(* when it was put (late); or the RemoveCallBack found that it has been    *)
(* deleted.                                                                *)
Coherent ==
  \A h \in Hosts : Stale(h) =>
    \/ topic[h] # {} \/ \E x \in Hosts : Busy(x)
    \/ lost \/ h \in dropped
    \/ h \in late
    \/ callBack[h] /\ db = NoItem

(* Every message names its sender, and every outdated item has one of the  *)
(* causes Coherent names.                                                  *)
CachesOk == SyncTypeOK /\ Coherent

(* No outdated item is given out for ever, whatever messages are lost and  *)
(* however reads and callbacks interleave: it has expired, for good, once  *)
(* the database no longer changes.  The exception is a flaw of the code:   *)
(* get(key, interval) and expireInterval renew an entry that is outdated,  *)
(* even one that has expired, and some host does so again and again.       *)
EventuallyCoherent ==
  \/ <>[](\A h \in Hosts : Stale(h) => ~isValid(h))
  \/ \E h \in Hosts : []<><<renew(h)>>_syncVars

=============================================================================
