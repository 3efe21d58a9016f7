------------------------------ MODULE LruCache ------------------------------
(***************************************************************************)
(* com.smc.local.cache.LruCache: a hash table whose chains are read        *)
(* without a lock and written under striped bucket locks, and two doubly   *)
(* linked LRU lists (seen once, seen more than once) kept under _lruLock.  *)
(*                                                                         *)
(* Every critical section of _lruLock is one action, because no other      *)
(* access to the lists takes a lock; the reads that the code makes outside *)
(* any lock (sizes, tails, chain pointers, counters) are actions of their  *)
(* own.  A bucket lock is held across actions and is a variable.           *)
(***************************************************************************)
EXTENDS Integers, FiniteSets

CONSTANTS
  Threads,          \* callers of the cache
  Keys,             \* keys
  Values,           \* values (objects compared by identity)
  NULL,             \* Java's null
  Capacity,         \* _capacity
  NumBuckets,       \* _entries.length
  Stripe,           \* buckets per lock (8 in the code: hash >> 3)
  Hash,             \* bucket of a key: (hashCode & 0x7fffffff) % _prime
  CounterModulus,   \* _lruCounter rolls over here (0x3fffffff + 1 in the code)
  MaxInt,           \* Integer.MAX_VALUE, where _hitCount overflows
  EnableListeners,  \* _isEnableListeners
  Ops,              \* the operations the callers use
  MaxOps            \* bound: operations started in a behaviour

Buckets == 0 .. (NumBuckets - 1)
getLock(b) == b \div Stripe
Locks == {getLock(b) : b \in Buckets}

AllOps == {"get", "put", "putIfNew", "compareAndPut", "remove", "clear",
           "removeTail", "removeLongestTail"}

(* One item per operation is enough: only a put creates one, and an item   *)
(* is never reused.                                                        *)
Items == 1 .. MaxOps

capacity1 == Capacity \div 2
lruTimeout == IF Capacity > 32 THEN Capacity \div 32 ELSE 1

ASSUME LruCacheAssumption ==
  /\ Capacity \in Nat \ {0}
  /\ NumBuckets \in Nat \ {0}
  /\ Stripe \in Nat \ {0}
  /\ Hash \in [Keys -> Buckets]
  /\ CounterModulus \in Nat \ {0}
  /\ MaxInt \in Nat /\ MaxInt > 1
  /\ EnableListeners \in BOOLEAN
  /\ Ops \subseteq AllOps
  /\ MaxOps \in Nat
  /\ NULL \notin Items /\ NULL \notin Values /\ NULL \notin Keys
  /\ NULL \notin Threads

VARIABLES
  entries, nextHash,               \* the hash table
  key, value,                      \* the fields of a CacheItem
  hitCount, itemCounter, prevLru, nextLru,
  size1, head1, tail1,             \* the list of items seen once
  size2, head2, tail2,             \* the list of items seen more than once
  lruCounter,
  isLruTailRemove,
  lock,                            \* holder of each bucket lock
  pc, call, item, num, oldValue,   \* per thread: where it is, the call, locals
  listeners,                       \* per thread: what clear() has collected
  ops                              \* operations started so far

lruVars == <<hitCount, itemCounter, prevLru, nextLru, size1, head1, tail1,
             size2, head2, tail2, lruCounter>>
hashVars == <<entries, nextHash, key, value>>
vars == <<hashVars, lruVars, isLruTailRemove, lock, pc, call, item, num, oldValue,
          listeners, ops>>

Null(S) == S \cup {NULL}

(* Where a thread can be: in removeLru and its loop (rl1 .. lp2), reading  *)
(* a tail (tl0 .. lt3), in remove (rm, un, re), in compareAndPut (pl .. pe),*)
(* in updateLru (uc, ud, ui), in get (gs .. gr), in clear (c1 .. ce)       *)
Labels == {"idle", "rl1", "rl2", "cas", "lp1", "lp2",
           "tl0", "tl1", "tl2", "tl3", "lt1", "lt2", "lt3", "rm", "un", "re",
           "pl", "pk", "pv", "pe", "uc", "ud", "ui", "gs", "gt", "gr",
           "c1", "c2", "cb", "ci", "ce"}

Calls ==
  [op : {"get", "remove"}, key : Keys, val : {NULL}, test : {NULL}]
    \cup [op : {"put", "putIfNew"}, key : Keys, val : Values, test : {NULL}]
    \cup [op : {"compareAndPut"}, key : Keys, val : Values, test : Null(Values)]
    \cup [op : {"clear", "removeTail", "removeLongestTail"},
          key : {NULL}, val : {NULL}, test : {NULL}]

(***************************************************************************)
(* What is reached through a pointer, as a set; the chain of a bucket is   *)
(* what is reached through _nextHash.                                      *)
(***************************************************************************)
Reach(first, next) ==
  LET walk[n \in 0 .. MaxOps] ==
        IF n = 0 THEN first
        ELSE LET x == walk[n - 1] IN IF x = NULL THEN NULL ELSE next[x]
  IN Items \cap {walk[n] : n \in 0 .. MaxOps}

Chain(b) == Reach(entries[b], nextHash)

Matching(k) == {x \in Chain(Hash[k]) : key[x] = k}

(* The search loops of compareAndPut and remove, made under the bucket lock *)
Find(k) == IF Matching(k) = {} THEN NULL ELSE CHOOSE x \in Matching(k) : TRUE

(* What a get that runs alone returns                                      *)
Current(k) == IF Matching(k) = {} THEN NULL ELSE value[Find(k)]

(***************************************************************************)
(* Pieces of the pointer code: an assignment guarded by "if (x != null)",  *)
(* the counter that rolls over, the increment that overflows.              *)
(***************************************************************************)
Assign(f, x, v) == IF x = NULL THEN f ELSE [f EXCEPT ![x] = v]
Tick == (lruCounter + 1) % CounterModulus
Increment(n) == IF n = MaxInt THEN -MaxInt - 1 ELSE n + 1

(***************************************************************************)
(* The three critical sections of _lruLock.                                *)
(***************************************************************************)
linkNewItem(x) ==
  /\ lruCounter' = Tick
  /\ hitCount' = [hitCount EXCEPT ![x] = 1]
  /\ itemCounter' = [itemCounter EXCEPT ![x] = -(lruTimeout + 16)]
  /\ size1' = size1 + 1
  /\ nextLru' = [nextLru EXCEPT ![x] = head1]
  /\ prevLru' = Assign(prevLru, head1, x)
  /\ head1' = x
  /\ tail1' = IF tail1 = NULL THEN x ELSE tail1
  /\ UNCHANGED <<size2, head2, tail2>>

(* An item deleted before the update is promoted all the same              *)
promoteMutant(x) ==
  /\ hitCount[x] <= 1
  /\ hitCount' = [hitCount EXCEPT ![x] = 2]
  /\ nextLru' = [nextLru EXCEPT ![x] = head2]
  /\ prevLru' = Assign(prevLru, head2, x)
  /\ head2' = x
  /\ tail2' = IF head2 = NULL THEN x ELSE tail2
  /\ size2' = size2 + 1
  /\ UNCHANGED <<head1, tail1, size1>>

promote(x) ==
  LET p == prevLru[x]
      n == nextLru[x] IN
  /\ hitCount[x] = 1
  /\ hitCount' = [hitCount EXCEPT ![x] = 2]
  /\ nextLru' = Assign([nextLru EXCEPT ![x] = head2], p, n)
  /\ prevLru' = Assign(Assign([prevLru EXCEPT ![x] = NULL], n, p), head2, x)
  /\ head1' = IF p = NULL THEN n ELSE head1
  /\ tail1' = IF n = NULL THEN p ELSE tail1
  /\ head2' = x
  /\ tail2' = IF head2 = NULL THEN x ELSE tail2
  /\ size1' = size1 - 1
  /\ size2' = size2 + 1

moveToHead2(x) ==
  LET p == prevLru[x]
      n == nextLru[x] IN
  /\ hitCount[x] > 1
  /\ hitCount' = [hitCount EXCEPT ![x] = Increment(hitCount[x])]
  /\ IF x = head2
     THEN UNCHANGED <<nextLru, prevLru, head2, tail2>>
     ELSE /\ nextLru' = Assign([nextLru EXCEPT ![x] = head2], p, n)
          /\ prevLru' = Assign(Assign([prevLru EXCEPT ![x] = NULL], head2, x),
                               n, p)
          /\ head2' = x
          /\ tail2' = IF n = NULL THEN p ELSE tail2
  /\ UNCHANGED <<head1, tail1, size1, size2>>

updateLruImpl(x) ==
  /\ lruCounter' = Tick
  /\ itemCounter' = [itemCounter EXCEPT ![x] = Tick]
  /\ \/ promote(x)
     \/ moveToHead2(x)
     \/ /\ hitCount[x] <= 0            \* item deleted before update
        /\ UNCHANGED <<hitCount, nextLru, prevLru, head1, tail1, head2, tail2,
                       size1, size2>>

removeLruItem(x) ==
  LET p == prevLru[x]
      n == nextLru[x]
      h == hitCount[x] IN
  /\ lruCounter' = Tick
  /\ hitCount' = [hitCount EXCEPT ![x] = -1]
  /\ prevLru' = IF h <= 0 THEN [prevLru EXCEPT ![x] = NULL]
                ELSE Assign([prevLru EXCEPT ![x] = NULL], n, p)
  /\ nextLru' = IF h <= 0 THEN [nextLru EXCEPT ![x] = NULL]
                ELSE Assign([nextLru EXCEPT ![x] = NULL], p, n)
  /\ size1' = IF h = 1 THEN size1 - 1 ELSE size1
  /\ head1' = IF h = 1 /\ p = NULL THEN n ELSE head1
  /\ tail1' = IF h = 1 /\ n = NULL THEN p ELSE tail1
  /\ size2' = IF h > 1 THEN size2 - 1 ELSE size2
  /\ head2' = IF h > 1 /\ p = NULL THEN n ELSE head2
  /\ tail2' = IF h > 1 /\ n = NULL THEN p ELSE tail2
  /\ UNCHANGED itemCounter

-----------------------------------------------------------------------------
(***************************************************************************)
(* Control.  Goto moves a thread, Jump moves it and keeps all its locals,  *)
(* Load and Count assign one of them, Return ends its operation.           *)
(***************************************************************************)
NoCall == [op |-> "none", key |-> NULL, val |-> NULL, test |-> NULL]

At(t, l) == pc[t] = l
Goto(t, l) == pc' = [pc EXCEPT ![t] = l]
Jump(t, l) == Goto(t, l) /\ UNCHANGED <<call, item, num, oldValue>>
Load(t, l, x) == Goto(t, l) /\ item' = [item EXCEPT ![t] = x]
                            /\ UNCHANGED <<call, num, oldValue>>
Count(t, l, n) == Goto(t, l) /\ num' = [num EXCEPT ![t] = n]
                             /\ UNCHANGED <<call, item, oldValue>>
Return(t) ==
  /\ Goto(t, "idle")
  /\ call' = [call EXCEPT ![t] = NoCall]
  /\ item' = [item EXCEPT ![t] = NULL]
  /\ num' = [num EXCEPT ![t] = 0]
  /\ oldValue' = [oldValue EXCEPT ![t] = NULL]

Putting(t) == call[t].op \in {"put", "putIfNew", "compareAndPut"}
isCompare(t) == call[t].op \in {"putIfNew", "compareAndPut"}

FreeMutant(b) == TRUE
Free(b) == lock[getLock(b)] = NULL
Acquire(t, b) == lock' = [lock EXCEPT ![getLock(b)] = t]
Release(b) == lock' = [lock EXCEPT ![getLock(b)] = NULL]

Entry(op) == CASE op = "get" -> "gs"
               [] op \in {"put", "putIfNew", "compareAndPut"} -> "rl1"
               [] op = "remove" -> "rm"
               [] op = "clear" -> "c1"
               [] op = "removeTail" -> "tl0"
               [] op = "removeLongestTail" -> "lt1"

Start(t) ==
  /\ At(t, "idle")
  /\ ops < MaxOps
  /\ \E c \in Calls :
       /\ c.op \in Ops
       /\ call' = [call EXCEPT ![t] = c]
       /\ Goto(t, Entry(c.op))
  /\ ops' = ops + 1
  /\ UNCHANGED <<hashVars, lruVars, isLruTailRemove, lock, item, num, oldValue,
                 listeners>>

-----------------------------------------------------------------------------
(***************************************************************************)
(* removeLru: both sizes are read without _lruLock, one after the other;   *)
(* only the thread that wins the compareAndSet evicts.                     *)
(***************************************************************************)
readSize1(t) ==
  /\ \/ At(t, "rl1") /\ Count(t, "rl2", size1)
     \/ At(t, "lp1") /\ Count(t, "lp2", size1)
  /\ UNCHANGED <<hashVars, lruVars, isLruTailRemove, lock, listeners, ops>>

isFullLate(t) == Capacity < num[t] + size2
isFullEarly(t) == Capacity - 1 <= num[t] + size2
isFull(t) == Capacity <= num[t] + size2

removeLru(t) ==
  /\ At(t, "rl2")
  /\ Jump(t, IF isFull(t) THEN "cas" ELSE "pl")
  /\ UNCHANGED <<hashVars, lruVars, isLruTailRemove, lock, listeners, ops>>

compareAndSet(t) ==
  /\ At(t, "cas")
  /\ isLruTailRemove' = TRUE
  /\ Jump(t, IF isLruTailRemove THEN "pl" ELSE "lp1")
  /\ UNCHANGED <<hashVars, lruVars, lock, listeners, ops>>

(* The loop of removeLru ends and the finally block resets the flag        *)
EndOfLoop(t) == Jump(t, "pl") /\ isLruTailRemove' = FALSE

removeLruLoop(t) ==
  /\ At(t, "lp2")
  /\ \/ isFull(t) /\ Jump(t, "tl0") /\ UNCHANGED isLruTailRemove
     \/ ~isFull(t) /\ EndOfLoop(t)
  /\ UNCHANGED <<hashVars, lruVars, lock, listeners, ops>>

(***************************************************************************)
(* removeTail and removeLongestTail: the tails are read without _lruLock,  *)
(* then the key of the one chosen is removed.                              *)
(***************************************************************************)
removeTail(t) ==
  /\ \/ /\ At(t, "tl0")
        /\ Jump(t, IF capacity1 <= size1 THEN "tl1" ELSE "tl2")
        /\ UNCHANGED isLruTailRemove
     \/ /\ At(t, "tl1")
        /\ IF tail1 # NULL THEN Load(t, "rm", tail1) ELSE Jump(t, "tl2")
        /\ UNCHANGED isLruTailRemove
     \/ /\ At(t, "tl2")
        /\ IF tail2 # NULL THEN Load(t, "rm", tail2) ELSE Jump(t, "tl3")
        /\ UNCHANGED isLruTailRemove
     \/ /\ At(t, "tl3") /\ tail1 # NULL
        /\ Load(t, "rm", tail1)
        /\ UNCHANGED isLruTailRemove
     \/ /\ At(t, "tl3") /\ tail1 = NULL           \* return false
        /\ \/ Putting(t) /\ EndOfLoop(t)
           \/ ~Putting(t) /\ Return(t) /\ UNCHANGED isLruTailRemove
  /\ UNCHANGED <<hashVars, lruVars, lock, listeners, ops>>

(* num holds _size1, then which of the two lists is read                   *)
removeLongestTail(t) ==
  LET tail == IF num[t] = 1 THEN tail1 ELSE tail2 IN
  /\ \/ /\ At(t, "lt1")
        /\ Count(t, "lt2", size1)
     \/ /\ At(t, "lt2")
        /\ Count(t, "lt3", IF num[t] <= size2 THEN 2 ELSE 1)
     \/ /\ At(t, "lt3") /\ tail # NULL
        /\ Load(t, "rm", tail)
     \/ /\ At(t, "lt3") /\ tail = NULL
        /\ Return(t)
  /\ UNCHANGED <<hashVars, lruVars, isLruTailRemove, lock, listeners, ops>>

-----------------------------------------------------------------------------
(***************************************************************************)
(* remove(key): under the bucket lock, out of the LRU list, then out of    *)
(* the chain; the listener is informed after the lock is released.         *)
(***************************************************************************)
(* The key remove() works on: its argument, or the key of the tail read    *)
RemoveKey(t) == IF call[t].op = "remove" THEN call[t].key ELSE key[item[t]]

(* After remove(): back into the loop of removeLru, or to the caller       *)
AfterRemove(t) ==
  \/ /\ Putting(t)
     /\ Goto(t, "lp1")
     /\ item' = [item EXCEPT ![t] = NULL]
     /\ oldValue' = [oldValue EXCEPT ![t] = NULL]
     /\ UNCHANGED <<call, num>>
  \/ ~Putting(t) /\ Return(t)

remove(t) ==
  LET k == RemoveKey(t)
      x == Find(k) IN
  /\ At(t, "rm")
  /\ Free(Hash[k])
  /\ \/ /\ x = NULL
        /\ AfterRemove(t)
        /\ UNCHANGED <<lruVars, lock>>
     \/ /\ x # NULL
        /\ removeLruItem(x)
        /\ Acquire(t, Hash[k])
        /\ Load(t, "un", x)
  /\ UNCHANGED <<hashVars, isLruTailRemove, listeners, ops>>

(* _nextHash once the predecessor of x in its chain, if any, points past   *)
(* x; x keeps its own pointer, for the get that is standing on it          *)
bypassMutant(b, x) ==
  [y \in Items |-> IF y = x THEN NULL
                   ELSE IF y \in Chain(b) /\ nextHash[y] = x THEN nextHash[x]
                   ELSE nextHash[y]]

bypass(b, x) ==
  [y \in Items |-> IF y \in Chain(b) /\ nextHash[y] = x THEN nextHash[x]
                   ELSE nextHash[y]]

unlinkHash(t) ==
  LET x == item[t]
      b == Hash[key[x]] IN
  /\ At(t, "un")
  /\ entries' = IF entries[b] = x THEN [entries EXCEPT ![b] = nextHash[x]] ELSE entries
  /\ nextHash' = bypass(b, x)
  /\ oldValue' = [oldValue EXCEPT ![t] = value[x]]
  /\ Release(b)
  /\ Goto(t, "re")
  /\ UNCHANGED <<key, value, lruVars, isLruTailRemove, call, item, num,
                 listeners, ops>>

(* The value removed, or replaced by a put, is informed outside every lock *)
removeEvent(t) ==
  /\ \/ At(t, "re") /\ AfterRemove(t)
     \/ At(t, "pe") /\ Return(t)
  /\ UNCHANGED <<hashVars, lruVars, isLruTailRemove, lock, listeners, ops>>

-----------------------------------------------------------------------------
(***************************************************************************)
(* compareAndPut (put, putIfNew and the public compareAndPut), after       *)
(* removeLru(): under the bucket lock, either a matching item gets the     *)
(* value, or a new item enters the LRU list and then the chain.            *)
(***************************************************************************)
Fresh == {x \in Items : key[x] = NULL}
NewItem == CHOOSE y \in Fresh : TRUE

compareAndPut(t) ==
  LET k == call[t].key
      x == Find(k) IN
  /\ At(t, "pl")
  /\ Free(Hash[k])
  /\ \/ /\ x # NULL                          \* matching item gets replaced
        /\ Acquire(t, Hash[k])
        /\ Load(t, "uc", x)
        /\ UNCHANGED <<lruVars, key, value>>
     \/ /\ x = NULL /\ isCompare(t) /\ call[t].test # NULL
        /\ Return(t)
        /\ UNCHANGED <<lruVars, key, value, lock>>
     \/ /\ x = NULL /\ (isCompare(t) => call[t].test = NULL)
        /\ Fresh # {}
        /\ Acquire(t, Hash[k])
        /\ Load(t, "pk", NewItem)
        /\ key' = [key EXCEPT ![NewItem] = k]
        /\ value' = [value EXCEPT ![NewItem] = call[t].val]
        /\ linkNewItem(NewItem)
  /\ UNCHANGED <<entries, nextHash, isLruTailRemove, listeners, ops>>

linkHash(t) ==
  LET x == item[t]
      b == Hash[key[x]] IN
  /\ At(t, "pk")
  /\ nextHash' = [nextHash EXCEPT ![x] = entries[b]]
  /\ entries' = [entries EXCEPT ![b] = x]
  /\ Release(b)
  /\ Return(t)
  /\ UNCHANGED <<key, value, lruVars, isLruTailRemove, listeners, ops>>

(* oldValue after "if (value == oldValue) oldValue = null"                 *)
Replaced(t) == IF call[t].val = value[item[t]] THEN NULL ELSE value[item[t]]
Mismatch(t) == isCompare(t) /\ call[t].test # value[item[t]]
(* The second test of isCompare is made on the nulled oldValue             *)
LateMismatch(t) == isCompare(t) /\ call[t].test # Replaced(t)

(* The value of the matching item is compared and replaced; the lock is    *)
(* released and the replaced value, if any, is informed by removeEvent.    *)
replaceValue(t) ==
  LET x == item[t] IN
  /\ At(t, "pv")
  /\ Release(Hash[key[x]])
  /\ \/ /\ Mismatch(t)
        /\ Return(t)
        /\ UNCHANGED value
     \/ /\ ~Mismatch(t)
        /\ value' = [value EXCEPT ![x] = call[t].val]
        /\ IF LateMismatch(t) \/ Replaced(t) = NULL
           THEN Return(t)
           ELSE /\ Goto(t, "pe")
                /\ oldValue' = [oldValue EXCEPT ![t] = Replaced(t)]
                /\ UNCHANGED <<call, item, num>>
  /\ UNCHANGED <<entries, nextHash, key, lruVars, isLruTailRemove, listeners, ops>>

(***************************************************************************)
(* updateLru: the two counters are read without a lock; the update under   *)
(* _lruLock may find that the item has been moved or removed meanwhile.    *)
(***************************************************************************)
Delta(t) == (num[t] - itemCounter[item[t]]) % CounterModulus

(* Where updateLru returns to                                              *)
AfterUpdate(t) == IF Putting(t) THEN "pv" ELSE "gr"

updateLru(t) ==
  /\ \/ /\ At(t, "uc")
        /\ Count(t, "ud", lruCounter)
     \/ /\ At(t, "ud")
        /\ Jump(t, IF lruTimeout < Delta(t) THEN "ui" ELSE AfterUpdate(t))
  /\ UNCHANGED <<hashVars, lruVars, isLruTailRemove, lock, listeners, ops>>

updateLruLocked(t) ==
  /\ At(t, "ui")
  /\ updateLruImpl(item[t])
  /\ Jump(t, AfterUpdate(t))
  /\ UNCHANGED <<hashVars, isLruTailRemove, lock, listeners, ops>>

(***************************************************************************)
(* get: the chain is walked without a lock; the value is read last.        *)
(***************************************************************************)
getFirst(t) ==
  /\ At(t, "gs")
  /\ Load(t, "gt", entries[Hash[call[t].key]])
  /\ UNCHANGED <<hashVars, lruVars, isLruTailRemove, lock, listeners, ops>>

getWalk(t) ==
  LET x == item[t] IN
  /\ At(t, "gt")
  /\ \/ x = NULL /\ Return(t)
     \/ x # NULL /\ key[x] = call[t].key /\ Jump(t, "uc")
     \/ x # NULL /\ key[x] # call[t].key /\ Load(t, "gt", nextHash[x])
  /\ UNCHANGED <<hashVars, lruVars, isLruTailRemove, lock, listeners, ops>>

(* What a get about to return gives its caller                             *)
GetResult(t) == IF item[t] = NULL THEN NULL ELSE value[item[t]]

getReturn(t) ==
  /\ At(t, "gr")
  /\ Return(t)
  /\ UNCHANGED <<hashVars, lruVars, isLruTailRemove, lock, listeners, ops>>

-----------------------------------------------------------------------------
(***************************************************************************)
(* clear: nothing to do when both sizes read as 0; otherwise bucket after  *)
(* bucket, from the last one down, each under its lock.                    *)
(***************************************************************************)
BeginClear(t) == Count(t, "cb", NumBuckets - 1)

clear(t) ==
  /\ \/ At(t, "c1") /\ size1 = 0 /\ Jump(t, "c2")
     \/ At(t, "c1") /\ size1 # 0 /\ BeginClear(t)
     \/ At(t, "c2") /\ size2 = 0 /\ Return(t)
     \/ At(t, "c2") /\ size2 # 0 /\ BeginClear(t)
  /\ UNCHANGED <<hashVars, lruVars, isLruTailRemove, lock, listeners, ops>>

(* The bucket keeps the items clear() is about to remove from the lists    *)
clearBucket(t) ==
  LET i == num[t] IN
  /\ At(t, "cb")
  /\ Free(i)
  /\ Acquire(t, i)
  /\ Load(t, "ci", entries[i])
  /\ entries' = [entries EXCEPT ![i] = NULL]
  /\ UNCHANGED <<nextHash, key, value, lruVars, isLruTailRemove, listeners, ops>>

(* One turn of the loop over the items of the bucket, or its end           *)
clearItem(t) ==
  LET x == item[t] IN
  /\ At(t, "ci")
  /\ \/ /\ EnableListeners /\ x # NULL
        /\ removeLruItem(x)
        /\ listeners' = [listeners EXCEPT ![t] = @ \cup {x}]
        /\ Load(t, "ci", nextHash[x])
        /\ UNCHANGED lock
     \/ /\ ~EnableListeners \/ x = NULL
        /\ Release(num[t])
        /\ num' = [num EXCEPT ![t] = num[t] - 1]
        /\ Goto(t, IF num[t] = 0 THEN "ce" ELSE "cb")
        /\ UNCHANGED <<lruVars, listeners, call, item, oldValue>>
  /\ UNCHANGED <<hashVars, isLruTailRemove, ops>>

clearEvents(t) ==
  /\ At(t, "ce")
  /\ listeners' = [listeners EXCEPT ![t] = {}]
  /\ Return(t)
  /\ UNCHANGED <<hashVars, lruVars, isLruTailRemove, lock, ops>>

-----------------------------------------------------------------------------
Init ==
  /\ entries = [b \in Buckets |-> NULL]
  /\ nextHash = [x \in Items |-> NULL]
  /\ key = [x \in Items |-> NULL]
  /\ value = [x \in Items |-> NULL]
  /\ hitCount = [x \in Items |-> 0]
  /\ itemCounter = [x \in Items |-> 0]
  /\ prevLru = [x \in Items |-> NULL]
  /\ nextLru = [x \in Items |-> NULL]
  /\ size1 = 0 /\ head1 = NULL /\ tail1 = NULL
  /\ size2 = 0 /\ head2 = NULL /\ tail2 = NULL
  /\ lruCounter = 0
  /\ isLruTailRemove = FALSE
  /\ lock = [l \in Locks |-> NULL]
  /\ pc = [t \in Threads |-> "idle"]
  /\ call = [t \in Threads |-> NoCall]
  /\ item = [t \in Threads |-> NULL]
  /\ num = [t \in Threads |-> 0]
  /\ oldValue = [t \in Threads |-> NULL]
  /\ listeners = [t \in Threads |-> {}]
  /\ ops = 0

(* A thread inside an operation                                            *)
Continue(t) ==
  \/ readSize1(t) \/ removeLru(t) \/ compareAndSet(t) \/ removeLruLoop(t)
  \/ removeTail(t) \/ removeLongestTail(t)
  \/ remove(t) \/ unlinkHash(t) \/ removeEvent(t)
  \/ compareAndPut(t) \/ linkHash(t) \/ replaceValue(t)
  \/ updateLru(t) \/ updateLruLocked(t)
  \/ getFirst(t) \/ getWalk(t) \/ getReturn(t)
  \/ clear(t) \/ clearBucket(t) \/ clearItem(t) \/ clearEvents(t)

Next == \E t \in Threads : Start(t) \/ Continue(t)

Spec == Init /\ [][Next]_vars

(* A thread inside an operation is never suspended for ever                *)
FairSpec == Spec /\ \A t \in Threads : WF_vars(Continue(t))

-----------------------------------------------------------------------------
(***************************************************************************)
(* Properties                                                              *)
(***************************************************************************)
List1 == {x \in Items : hitCount[x] = 1}
List2 == {x \in Items : hitCount[x] > 1}

(* Every variable has its type; in particular the LRU counter stays within *)
(* its 30 bits when it rolls over.                                         *)
TypeOK ==
  /\ entries \in [Buckets -> Null(Items)]
  /\ nextHash \in [Items -> Null(Items)]
  /\ key \in [Items -> Null(Keys)]
  /\ value \in [Items -> Null(Values)]
  /\ hitCount \in [Items -> Int]
  /\ itemCounter \in [Items -> Int]
  /\ prevLru \in [Items -> Null(Items)]
  /\ nextLru \in [Items -> Null(Items)]
  /\ size1 \in Int /\ size2 \in Int
  /\ {head1, tail1, head2, tail2} \subseteq Null(Items)
  /\ lruCounter \in 0 .. (CounterModulus - 1)
  /\ isLruTailRemove \in BOOLEAN
  /\ lock \in [Locks -> Null(Threads)]
  /\ pc \in [Threads -> Labels]
  /\ call \in [Threads -> Calls \cup {NoCall}]
  /\ item \in [Threads -> Null(Items)]
  /\ num \in [Threads -> Int]
  /\ oldValue \in [Threads -> Null(Values)]
  /\ listeners \in [Threads -> SUBSET Items]
  /\ ops \in 0 .. MaxOps

(* One doubly linked list over the items S, from head h to tail e: the     *)
(* ends are exactly the items without a neighbour on that side, and the    *)
(* neighbours of an item are items of the same list that point back.       *)
ListOk(S, h, e, prv, nxt) ==
  /\ h \in Null(S) /\ e \in Null(S)
  /\ (h = NULL) <=> (S = {})
  /\ (e = NULL) <=> (S = {})
  /\ \A x \in S :
       /\ prv[x] \in Null(S) /\ nxt[x] \in Null(S)
       /\ (prv[x] = NULL) <=> (x = h)
       /\ (nxt[x] = NULL) <=> (x = e)
       /\ nxt[x] # NULL => prv[nxt[x]] = x
       /\ prv[x] # NULL => nxt[prv[x]] = x

(* Both LRU lists are well formed, hold exactly the live items, and the    *)
(* sizes count them, whatever the threads that move and remove items do.   *)
(* Every assert of LruCache (lines 426, 433, 440, 466, 618-644) is a case  *)
(* of this, and line 458 never follows a null pointer.                     *)
LruListsOk ==
  /\ ListOk(List1, head1, tail1, prevLru, nextLru)
  /\ ListOk(List2, head2, tail2, prevLru, nextLru)
  /\ size1 = Cardinality(List1)
  /\ size2 = Cardinality(List2)

(* Following _nextLru from a head meets every item of the list: no item is *)
(* lost in a cycle of its own, where neither eviction nor iteration would  *)
(* ever find it.                                                           *)
NoLostItem == Reach(head1, nextLru) = List1 /\ Reach(head2, nextLru) = List2

(* An item is in an LRU list exactly when it is in its chain, except in    *)
(* the window in which a thread holding the bucket lock has done one half  *)
(* of an insertion, a removal or a clear.  Otherwise an entry could never  *)
(* be evicted, or an eviction would find nothing to remove.                *)
HashAgreesWithLru ==
  \A x \in Items :
    hitCount[x] > 0 <=>
      \/ /\ \E b \in Buckets : x \in Chain(b)
         /\ ~\E t \in Threads : At(t, "un") /\ item[t] = x
      \/ \E t \in Threads : At(t, "pk") /\ item[t] = x
      \/ \E t \in Threads : At(t, "ci") /\ x \in Reach(item[t], nextHash)

(* A key has at most one item, and it is in the bucket its hash names:     *)
(* compareAndPut searches and inserts under one hold of the bucket lock.   *)
OneItemPerKey ==
  \A b \in Buckets : \A x, y \in Chain(b) :
    Hash[key[x]] = b /\ (key[x] = key[y] => x = y)

(* The table and the lists hold the same items, each once: none is lost in *)
(* a cycle, none is in one and not in the other, none has a key twice,     *)
(* whatever the threads interleave inside put, remove and clear.           *)
TableConsistent == NoLostItem /\ HashAgreesWithLru /\ OneItemPerKey

(* _capacity, "maximum allowed entries": the cache holds no more between   *)
(* operations.                                                             *)
CapacityRespected ==
  (\A t \in Threads : At(t, "idle")) => size1 + size2 <= Capacity

(* "If the cache is full, remove the LRU item": a put takes another key    *)
(* out of the cache only if the cache is full, that is if at least         *)
(* Capacity - 1 items are left when the victim has left its LRU list.      *)
EvictOnlyWhenFull ==
  [][\A t \in Threads :
       At(t, "un") /\ pc'[t] = "re" /\ Putting(t) => Capacity - 1 <= size1 + size2]_vars

(* Every operation ends: the eviction loop of removeLru makes progress,    *)
(* nobody waits for ever for a bucket lock, and the chain a get walks is   *)
(* finite although it is being changed.                                    *)
OperationsEnd == \A t \in Threads : ~At(t, "idle") ~> At(t, "idle")

=============================================================================
