--------------------------- MODULE LruCacheProofs ---------------------------
EXTENDS LruCacheHistory, FiniteSetTheorems, NaturalsInduction, TLAPS

(***************************************************************************)
(* Proofs about LruCache, for any numbers of threads, keys, buckets, locks *)
(* and operations.  TypeInv types every variable and says which item each  *)
(* place of the code may stand on.  ListsInv ranks the items of both LRU   *)
(* lists; FreshInv keeps the items not yet made out of them.  HashInv      *)
(* says where every item of the table is: in the chain of its key's        *)
(* bucket, in the hands of a clear() that detached it, or in those of a    *)
(* put that has not linked it yet, the writer holding that bucket's lock   *)
(* in each case.  Sized bounds the sizes of a cache with one thread.       *)
(* PointInv and WalkInv say what a get without a lock still has ahead of   *)
(* it: sets of items that no pointer leaves.  HoldInv and Owing count, for *)
(* every value, the items and threads that still have to inform of it.     *)
(***************************************************************************)
USE LruCacheAssumption

-----------------------------------------------------------------------------
(***************************************************************************)
(* Doubly linked lists.  ListOk alone is not inductive: a list of one item *)
(* beside a cycle satisfies all of it but the emptiness of the rest, and   *)
(* loses its head with that item.  The strengthening is a ranking of the   *)
(* items for which _nextLru is the successor.                              *)
(***************************************************************************)
Ranked(S, h, e, prv, nxt, rank) ==
  /\ h \in Null(S) /\ e \in Null(S)
  /\ S # {} => h \in S /\ e \in S
  /\ \A x \in S : rank[h] <= rank[x] /\ rank[x] <= rank[e]
  /\ \A x, y \in S : rank[x] = rank[y] => x = y
  /\ \A x \in S : x = e => nxt[x] = NULL
  /\ \A x \in S : x # e => nxt[x] \in S /\ prv[nxt[x]] = x /\ rank[x] < rank[nxt[x]]
  /\ \A x, y \in S : x # e => rank[y] <= rank[x] \/ rank[nxt[x]] <= rank[y]
  /\ \A x \in S : x = h => prv[x] = NULL
  /\ \A x \in S : x # h => prv[x] \in S /\ nxt[prv[x]] = x

IsList(S, h, e, prv, nxt) ==
  \E rank \in [Items -> Int] : Ranked(S, h, e, prv, nxt, rank)

(* A ranked list is well formed in the sense of ListOk.                    *)
LEMMA RankedListOk ==
  ASSUME NEW S \in SUBSET Items, NEW h, NEW e, NEW prv, NEW nxt,
         IsList(S, h, e, prv, nxt)
  PROVE  ListOk(S, h, e, prv, nxt)
<1> PICK rank \in [Items -> Int] : Ranked(S, h, e, prv, nxt, rank)
  BY DEF IsList
<1>1. NULL \notin S
  OBVIOUS
<1>2. \A x \in S : (prv[x] = NULL <=> x = h) /\ (nxt[x] = NULL <=> x = e)
  BY <1>1 DEF Ranked
<1>3. (h = NULL <=> S = {}) /\ (e = NULL <=> S = {})
  BY <1>1 DEF Ranked, Null
<1>4. \A x \in S : /\ prv[x] \in Null(S) /\ nxt[x] \in Null(S)
                   /\ nxt[x] # NULL => prv[nxt[x]] = x
                   /\ prv[x] # NULL => nxt[prv[x]] = x
  BY <1>1 DEF Ranked, Null
<1>5. h \in Null(S) /\ e \in Null(S)
  BY DEF Ranked
<1> QED BY <1>2, <1>3, <1>4, <1>5 DEF ListOk

(* A list does not depend on the pointers of items outside it.             *)
LEMMA ListFrame ==
  ASSUME NEW S, NEW h, NEW e, NEW prv, NEW nxt, NEW prv2, NEW nxt2,
         IsList(S, h, e, prv, nxt),
         \A x \in S : prv2[x] = prv[x] /\ nxt2[x] = nxt[x]
  PROVE  IsList(S, h, e, prv2, nxt2)
BY DEF IsList, Ranked, Null

(* Linking an item in front of a list, as compareAndPut and updateLruImpl  *)
(* do, gives a list with that item as head.                                *)
LEMMA ListPush ==
  ASSUME NEW S \in SUBSET Items, NEW h, NEW e, NEW x \in Items \ S,
         NEW prv \in [Items -> Null(Items)], NEW nxt \in [Items -> Null(Items)],
         IsList(S, h, e, prv, nxt), prv[x] = NULL
  PROVE  IsList(S \cup {x}, x, IF h = NULL THEN x ELSE e,
                Assign(prv, h, x), [nxt EXCEPT ![x] = h])
<1> PICK rank \in [Items -> Int] : Ranked(S, h, e, prv, nxt, rank)
  BY DEF IsList
<1> DEFINE rank2 == [rank EXCEPT ![x] = IF h = NULL THEN 0 ELSE rank[h] - 1]
           prv2 == Assign(prv, h, x)
           nxt2 == [nxt EXCEPT ![x] = h]
           e2 == IF h = NULL THEN x ELSE e
<1>1. CASE h = NULL
  <2>1. S = {}
    BY <1>1 DEF Ranked, Items
  <2>2. Ranked(S \cup {x}, x, e2, prv2, nxt2, rank2)
    BY <1>1, <2>1 DEF Ranked, Null, Assign
  <2>3. rank2 \in [Items -> Int]
    BY <1>1
  <2> QED BY <2>2, <2>3 DEF IsList
<1>2. CASE h # NULL
  <2>1. h \in S /\ e \in S
    BY <1>2 DEF Ranked, Null
  <2>2. rank2 \in [Items -> Int] /\ rank2[x] = rank[h] - 1
    BY <1>2, <2>1
  <2>3. \A y \in S : rank2[y] = rank[y] /\ nxt2[y] = nxt[y]
    OBVIOUS
  <2>4. \A y \in S : prv2[y] = IF y = h THEN x ELSE prv[y]
    BY <1>2, <2>1 DEF Assign
  <2>5. prv2[x] = NULL /\ nxt2[x] = h /\ e2 = e
    BY <1>2, <2>1 DEF Assign
  <2>6. Ranked(S \cup {x}, x, e2, prv2, nxt2, rank2)
    <3> HIDE DEF prv2, nxt2, e2, rank2
    <3>1. \A y \in S \cup {x} : rank2[x] <= rank2[y] /\ rank2[y] <= rank2[e2]
      BY <2>1, <2>2, <2>3, <2>5 DEF Ranked
    <3>2. \A y, z \in S \cup {x} : rank2[y] = rank2[z] => y = z
      BY <2>1, <2>2, <2>3 DEF Ranked
    <3>3. \A y \in S \cup {x} : y = e2 => nxt2[y] = NULL
      BY <2>1, <2>3, <2>5 DEF Ranked
    <3>4. \A y \in S \cup {x} : y # e2 => nxt2[y] \in S \cup {x}
                /\ prv2[nxt2[y]] = y /\ rank2[y] < rank2[nxt2[y]]
      <4>1. ASSUME NEW y \in S, y # e2
            PROVE nxt2[y] \in S /\ prv2[nxt2[y]] = y /\ rank2[y] < rank2[nxt2[y]]
        <5>1. nxt[y] \in S /\ prv[nxt[y]] = y /\ rank[y] < rank[nxt[y]]
          BY <4>1, <2>5 DEF Ranked
        <5>2. nxt[y] # h
          BY <5>1, <2>1 DEF Ranked
        <5> QED BY <5>1, <5>2, <2>3, <2>4
      <4>2. nxt2[x] \in S /\ prv2[nxt2[x]] = x /\ rank2[x] < rank2[nxt2[x]]
        BY <2>1, <2>2, <2>3, <2>4, <2>5
      <4> QED BY <4>1, <4>2
    <3>5. \A y, z \in S \cup {x} : y # e2 => rank2[z] <= rank2[y] \/ rank2[nxt2[y]] <= rank2[z]
      BY <2>1, <2>2, <2>3, <2>5 DEF Ranked
    <3>6. \A y \in S \cup {x} : y # x => prv2[y] \in S \cup {x} /\ nxt2[prv2[y]] = y
      BY <2>1, <2>3, <2>4, <2>5 DEF Ranked
    <3> QED BY <3>1, <3>2, <3>3, <3>4, <3>5, <3>6, <2>1, <2>5 DEF Ranked, Null
  <2> QED BY <2>2, <2>6 DEF IsList
<1> QED BY <1>1, <1>2

(* Unlinking an item from its neighbours, as removeLruItem and             *)
(* updateLruImpl do, leaves a list of the others.                          *)
LEMMA ListUnlink ==
  ASSUME NEW S \in SUBSET Items, NEW h, NEW e, NEW x \in S,
         NEW prv \in [Items -> Null(Items)], NEW nxt \in [Items -> Null(Items)],
         IsList(S, h, e, prv, nxt)
  PROVE  IsList(S \ {x}, IF prv[x] = NULL THEN nxt[x] ELSE h,
                IF nxt[x] = NULL THEN prv[x] ELSE e,
                Assign(prv, nxt[x], prv[x]), Assign(nxt, prv[x], nxt[x]))
<1> PICK rank \in [Items -> Int] : Ranked(S, h, e, prv, nxt, rank)
  BY DEF IsList
<1> DEFINE p == prv[x]
           n == nxt[x]
           h2 == IF p = NULL THEN n ELSE h
           e2 == IF n = NULL THEN p ELSE e
           prv2 == Assign(prv, n, p)
           nxt2 == Assign(nxt, p, n)
<1>0. NULL \notin S /\ h \in S /\ e \in S
  BY DEF Ranked
<1>1. /\ p = NULL <=> x = h
      /\ n = NULL <=> x = e
      /\ p # NULL => p \in S \ {x} /\ nxt[p] = x /\ rank[p] < rank[x]
      /\ n # NULL => n \in S \ {x} /\ prv[n] = x /\ rank[x] < rank[n]
  BY <1>0 DEF Ranked
<1>2. \A y \in S \ {x} : prv2[y] = IF y = n THEN p ELSE prv[y]
  BY <1>0, <1>1 DEF Assign
<1>3. \A y \in S \ {x} : nxt2[y] = IF y = p THEN n ELSE nxt[y]
  BY <1>0, <1>1 DEF Assign
<1>4. h2 \in Null(S \ {x}) /\ e2 \in Null(S \ {x})
  BY <1>0, <1>1 DEF Null
<1>5. S \ {x} # {} => h2 \in S \ {x} /\ e2 \in S \ {x}
  BY <1>0, <1>1 DEF Ranked
<1> HIDE DEF h2, e2, prv2, nxt2, p, n
<1>6. \A y \in S \ {x} : rank[h2] <= rank[y] /\ rank[y] <= rank[e2]
  BY <1>0, <1>1, <1>5 DEF Ranked, h2, e2, n, p
<1>7. \A y \in S \ {x} : y = e2 => nxt2[y] = NULL
  BY <1>0, <1>1, <1>3 DEF Ranked, e2
<1>8. \A y \in S \ {x} : y = h2 => prv2[y] = NULL
  BY <1>0, <1>1, <1>2 DEF Ranked, h2
<1>9. \A y \in S \ {x} : y # e2 => nxt2[y] \in S \ {x} /\ prv2[nxt2[y]] = y /\ rank[y] < rank[nxt2[y]]
  <2> SUFFICES ASSUME NEW y \in S \ {x}, y # e2
               PROVE nxt2[y] \in S \ {x} /\ prv2[nxt2[y]] = y /\ rank[y] < rank[nxt2[y]]
    OBVIOUS
  <2>1. CASE y = p
    <3>1. n # NULL
      BY <2>1, <1>0, <1>1 DEF e2
    <3> QED BY <3>1, <2>1, <1>0, <1>1, <1>2, <1>3
  <2>2. CASE y # p
    <3>1. y # e
      BY <2>2, <1>0, <1>1 DEF e2
    <3>2. nxt[y] \in S /\ prv[nxt[y]] = y /\ rank[y] < rank[nxt[y]]
      BY <3>1 DEF Ranked
    <3>3. nxt[y] # x
      BY <3>2, <2>2 DEF p
    <3>4. nxt[y] # n
      BY <3>2, <1>0, <1>1
    <3> QED BY <3>2, <3>3, <3>4, <2>2, <1>2, <1>3
  <2> QED BY <2>1, <2>2
<1>10. \A y, z \in S \ {x} : y # e2 => rank[z] <= rank[y] \/ rank[nxt2[y]] <= rank[z]
  <2> SUFFICES ASSUME NEW y \in S \ {x}, NEW z \in S \ {x}, y # e2
               PROVE rank[z] <= rank[y] \/ rank[nxt2[y]] <= rank[z]
    OBVIOUS
  <2>1. CASE y = p
    <3>1. n # NULL
      BY <2>1, <1>0, <1>1 DEF e2
    <3>2. rank[z] <= rank[p] \/ rank[x] <= rank[z]
      BY <2>1, <1>0, <1>1 DEF Ranked
    <3>3. rank[z] <= rank[x] \/ rank[n] <= rank[z]
      BY <3>1, <1>1 DEF Ranked, n
    <3>4. rank[z] # rank[x]
      BY DEF Ranked
    <3> QED BY <3>1, <3>2, <3>3, <3>4, <2>1, <1>0, <1>1, <1>3
  <2>2. CASE y # p
    <3>1. y # e
      BY <2>2, <1>0, <1>1 DEF e2
    <3> QED BY <3>1, <2>2, <1>3 DEF Ranked
  <2> QED BY <2>1, <2>2
<1>11. \A y \in S \ {x} : y # h2 => prv2[y] \in S \ {x} /\ nxt2[prv2[y]] = y
  <2> SUFFICES ASSUME NEW y \in S \ {x}, y # h2
               PROVE prv2[y] \in S \ {x} /\ nxt2[prv2[y]] = y
    OBVIOUS
  <2>1. CASE y = n
    <3>1. p # NULL
      BY <2>1, <1>0, <1>1 DEF h2
    <3> QED BY <3>1, <2>1, <1>0, <1>1, <1>2, <1>3
  <2>2. CASE y # n
    <3>1. y # h
      BY <2>2, <1>0, <1>1 DEF h2
    <3>2. prv[y] \in S /\ nxt[prv[y]] = y
      BY <3>1 DEF Ranked
    <3>3. prv[y] # x /\ prv[y] # p
      BY <3>2, <2>2, <1>0, <1>1 DEF n
    <3> QED BY <3>2, <3>3, <2>2, <1>2, <1>3
  <2> QED BY <2>1, <2>2
<1>12. \A y, z \in S \ {x} : rank[y] = rank[z] => y = z
  BY DEF Ranked
<1>13. Ranked(S \ {x}, h2, e2, prv2, nxt2, rank)
  BY <1>4, <1>5, <1>6, <1>7, <1>8, <1>9, <1>10, <1>11, <1>12 DEF Ranked
<1> QED BY <1>13 DEF IsList, h2, e2, prv2, nxt2, p, n

-----------------------------------------------------------------------------
(***************************************************************************)
(* Type correctness                                                        *)
(***************************************************************************)

(* What each thread knows of its locals at each point of its operation     *)
LocalsOk ==
  \A t \in Threads :
    /\ pc[t] \in {"un", "pk", "pv", "uc", "ud", "ui", "gr"} => item[t] \in Items
    /\ pc[t] = "pk" => key[item[t]] \in Keys
    /\ pc[t] = "gs" => call[t].key \in Keys
    /\ pc[t] \in {"rl1", "rl2", "cas", "lp1", "lp2", "pl"} => Putting(t)
    /\ pc[t] \in {"cb", "ci"} => num[t] \in Buckets

TypeInv == TypeOK /\ LocalsOk

(* The fields of a call                                                    *)
LEMMA CallFields ==
  ASSUME NEW c \in Calls \cup {NoCall}
  PROVE  /\ c.key \in Null(Keys) /\ c.val \in Null(Values)
         /\ c.op \in {"put", "putIfNew", "compareAndPut"} => c.key \in Keys /\ c.val \in Values
         /\ c.op \in {"get", "remove"} => c.key \in Keys
BY DEF Calls, NoCall, Null

(* The search under the bucket lock finds an item or nothing.              *)
LEMMA FindType == ASSUME NEW k PROVE Find(k) \in Null(Items)
BY DEF Find, Matching, Chain, Reach, Null

(* A put that inserts takes an item nobody has used.                       *)
LEMMA NewItemType == Fresh # {} => NewItem \in Fresh /\ NewItem \in Items
BY DEF NewItem, Fresh

(* The counters stay within the modulus.                                   *)
LEMMA TickType ==
  ASSUME lruCounter \in 0 .. (CounterModulus - 1)
  PROVE  Tick \in 0 .. (CounterModulus - 1)
BY DEF Tick

(* The LRU timeout is a number.                                            *)
LEMMA TimeoutType == lruTimeout \in Int
BY DEF lruTimeout

(* A guarded assignment keeps a pointer field a pointer field.             *)
LEMMA AssignType ==
  ASSUME NEW f \in [Items -> Null(Items)], NEW x \in Null(Items), NEW v \in Null(Items)
  PROVE  Assign(f, x, v) \in [Items -> Null(Items)]
BY DEF Assign, Null

LruTypeOK ==
  /\ hitCount \in [Items -> Int]
  /\ itemCounter \in [Items -> Int]
  /\ prevLru \in [Items -> Null(Items)]
  /\ nextLru \in [Items -> Null(Items)]
  /\ size1 \in Int /\ size2 \in Int
  /\ head1 \in Null(Items) /\ tail1 \in Null(Items)
  /\ head2 \in Null(Items) /\ tail2 \in Null(Items)
  /\ lruCounter \in 0 .. (CounterModulus - 1)

(* The critical sections of _lruLock preserve the types.                   *)
LEMMA LruTypes ==
  ASSUME LruTypeOK, NEW x \in Items,
         linkNewItem(x) \/ updateLruImpl(x) \/ removeLruItem(x)
  PROVE  LruTypeOK'
<1> USE DEF LruTypeOK
<1>0. Tick \in 0 .. (CounterModulus - 1) /\ Tick \in Int
  BY TickType
<1>1. CASE linkNewItem(x)
  <2>1. x \in Null(Items)
    BY DEF Null
  <2>2. prevLru' \in [Items -> Null(Items)]
    BY <1>1, <2>1, AssignType DEF linkNewItem
  <2>3. lruCounter' \in 0 .. (CounterModulus - 1) /\ size1' \in Int /\ size2' \in Int
    BY <1>0, <1>1 DEF linkNewItem
  <2>4. hitCount' \in [Items -> Int] /\ itemCounter' \in [Items -> Int]
    BY <1>1, TimeoutType DEF linkNewItem
  <2>5. nextLru' \in [Items -> Null(Items)]
    BY <1>1 DEF linkNewItem
  <2>6. head1' \in Null(Items) /\ tail1' \in Null(Items)
        /\ head2' \in Null(Items) /\ tail2' \in Null(Items)
    BY <1>1, <2>1 DEF linkNewItem
  <2> QED BY <2>2, <2>3, <2>4, <2>5, <2>6
<1>2. CASE updateLruImpl(x)
  <2> DEFINE p == prevLru[x]
             n == nextLru[x]
  <2>0. x \in Null(Items) /\ NULL \in Null(Items) /\ p \in Null(Items) /\ n \in Null(Items)
    BY DEF Null
  <2>4. lruCounter' \in 0 .. (CounterModulus - 1) /\ itemCounter' \in [Items -> Int]
    BY <1>0, <1>2 DEF updateLruImpl
  <2>1. CASE promote(x)
    <3>1. [nextLru EXCEPT ![x] = head2] \in [Items -> Null(Items)]
      OBVIOUS
    <3>2. nextLru' \in [Items -> Null(Items)]
      BY <2>0, <2>1, <3>1, AssignType DEF promote
    <3>3. [prevLru EXCEPT ![x] = NULL] \in [Items -> Null(Items)]
      BY <2>0
    <3>4. Assign([prevLru EXCEPT ![x] = NULL], n, p) \in [Items -> Null(Items)]
      BY <2>0, <3>3, AssignType
    <3>5. prevLru' \in [Items -> Null(Items)]
      BY <2>0, <2>1, <3>4, AssignType DEF promote
    <3>6. hitCount' \in [Items -> Int] /\ size1' \in Int /\ size2' \in Int
      BY <2>1 DEF promote
    <3>7. head1' \in Null(Items) /\ tail1' \in Null(Items)
          /\ head2' \in Null(Items) /\ tail2' \in Null(Items)
      BY <2>0, <2>1 DEF promote
    <3> QED BY <2>4, <3>2, <3>5, <3>6, <3>7
  <2>2. CASE moveToHead2(x)
    <3>1. hitCount' \in [Items -> Int]
      BY <2>2 DEF moveToHead2, Increment
    <3>2. CASE x = head2
      BY <2>4, <2>2, <3>1, <3>2 DEF moveToHead2
    <3>3. CASE x # head2
      <4>1. [nextLru EXCEPT ![x] = head2] \in [Items -> Null(Items)]
        OBVIOUS
      <4>2. nextLru' \in [Items -> Null(Items)]
        <5>1. nextLru' = Assign([nextLru EXCEPT ![x] = head2], p, n)
          BY <2>2, <3>3 DEF moveToHead2
        <5> QED BY <2>0, <4>1, <5>1, AssignType
      <4>3. [prevLru EXCEPT ![x] = NULL] \in [Items -> Null(Items)]
        BY <2>0
      <4>4. Assign([prevLru EXCEPT ![x] = NULL], head2, x) \in [Items -> Null(Items)]
        BY <2>0, <4>3, AssignType
      <4>5. prevLru' \in [Items -> Null(Items)]
        <5>1. prevLru' = Assign(Assign([prevLru EXCEPT ![x] = NULL], head2, x), n, p)
          BY <2>2, <3>3 DEF moveToHead2
        <5> QED BY <2>0, <4>4, <5>1, AssignType
      <4>6. head2' \in Null(Items) /\ tail2' \in Null(Items)
        BY <2>0, <2>2, <3>3 DEF moveToHead2
      <4>7. UNCHANGED <<head1, tail1, size1, size2>>
        BY <2>2 DEF moveToHead2
      <4> QED BY <2>4, <3>1, <4>2, <4>5, <4>6, <4>7
    <3> QED BY <3>2, <3>3
  <2>3. CASE hitCount[x] <= 0 /\ UNCHANGED <<hitCount, nextLru, prevLru, head1, tail1,
                                            head2, tail2, size1, size2>>
    BY <2>3, <2>4
  <2> QED BY <1>2, <2>1, <2>2, <2>3 DEF updateLruImpl
<1>3. CASE removeLruItem(x)
  <2>0. NULL \in Null(Items) /\ prevLru[x] \in Null(Items) /\ nextLru[x] \in Null(Items)
    BY DEF Null
  <2>1. [prevLru EXCEPT ![x] = NULL] \in [Items -> Null(Items)]
        /\ [nextLru EXCEPT ![x] = NULL] \in [Items -> Null(Items)]
    BY <2>0
  <2>2. prevLru' \in [Items -> Null(Items)]
    BY <1>3, <2>0, <2>1, AssignType DEF removeLruItem
  <2>3. nextLru' \in [Items -> Null(Items)]
    BY <1>3, <2>0, <2>1, AssignType DEF removeLruItem
  <2>4. lruCounter' \in 0 .. (CounterModulus - 1) /\ itemCounter' = itemCounter
    BY <1>0, <1>3 DEF removeLruItem
  <2>5. hitCount' \in [Items -> Int] /\ size1' \in Int /\ size2' \in Int
    BY <1>3 DEF removeLruItem
  <2>6. head1' \in Null(Items) /\ tail1' \in Null(Items)
        /\ head2' \in Null(Items) /\ tail2' \in Null(Items)
    BY <1>3, <2>0 DEF removeLruItem
  <2> QED BY <2>2, <2>3, <2>4, <2>5, <2>6
<1> QED BY <1>1, <1>2, <1>3


(* The variables outside the LRU lists                                     *)
RestTypeOK ==
  /\ entries \in [Buckets -> Null(Items)]
  /\ nextHash \in [Items -> Null(Items)]
  /\ key \in [Items -> Null(Keys)]
  /\ value \in [Items -> Null(Values)]
  /\ isLruTailRemove \in BOOLEAN
  /\ lock \in [Locks -> Null(Threads)]
  /\ pc \in [Threads -> Labels]
  /\ call \in [Threads -> Calls \cup {NoCall}]
  /\ item \in [Threads -> Null(Items)]
  /\ num \in [Threads -> Int]
  /\ oldValue \in [Threads -> Null(Values)]
  /\ listeners \in [Threads -> SUBSET Items]
  /\ ops \in 0 .. MaxOps

(* TypeOK in two halves: the LRU lists, and the rest.                      *)
LEMMA TypeSplit == TypeOK <=> LruTypeOK /\ RestTypeOK
BY DEF TypeOK, LruTypeOK, RestTypeOK

(* Types and locals are preserved by every step.                           *)
LEMMA TypeStep == TypeInv /\ [Next]_vars => TypeInv'
<1> SUFFICES ASSUME TypeInv, [Next]_vars PROVE TypeInv'
  OBVIOUS
<1>0. LruTypeOK /\ RestTypeOK /\ LocalsOk
  BY TypeSplit DEF TypeInv
<1> SUFFICES LruTypeOK' /\ RestTypeOK' /\ LocalsOk'
  BY TypeSplit, PTL DEF TypeInv, TypeOK, LruTypeOK, RestTypeOK
<1>a. NULL \in Null(Items) /\ NULL \in Null(Values) /\ NoCall \in Calls \cup {NoCall}
      /\ NULL \in Null(Threads)
  BY DEF Null
<1> USE DEF hashVars, At, Goto
<1>1. ASSUME NEW t \in Threads, Start(t)
      PROVE  LruTypeOK' /\ RestTypeOK' /\ LocalsOk'
  <2> PICK c \in Calls : call' = [call EXCEPT ![t] = c] /\ pc' = [pc EXCEPT ![t] = Entry(c.op)]
    BY <1>1 DEF Start
  <2>1. Entry(c.op) \in {"gs", "rl1", "rm", "c1", "tl0", "lt1"}
        /\ (Entry(c.op) = "gs" => c.key \in Keys)
        /\ (Entry(c.op) = "rl1" => c.op \in {"put", "putIfNew", "compareAndPut"})
    BY DEF Entry, Calls
  <2>2. RestTypeOK'
    BY <1>0, <1>1, <2>1 DEF Start, RestTypeOK, Labels
  <2>3. LocalsOk'
    BY <1>0, <1>1, <2>1 DEF Start, RestTypeOK, LocalsOk, Putting
  <2> QED BY <1>0, <1>1, <2>2, <2>3 DEF Start, LruTypeOK, lruVars
<1>2. ASSUME NEW t \in Threads, readSize1(t)
      PROVE  LruTypeOK' /\ RestTypeOK' /\ LocalsOk'
  <2>1. LruTypeOK'
    BY <1>0, <1>2 DEF readSize1, LruTypeOK, lruVars
  <2>2. RestTypeOK'
    BY <1>0, <1>a, <1>2 DEF Count, readSize1, RestTypeOK, LruTypeOK, LocalsOk, Labels, Jump, Load, Return
  <2>3. LocalsOk'
    BY <1>0, <1>a, <1>2 DEF Count, readSize1, RestTypeOK, LruTypeOK, LocalsOk, Putting, Null, Jump, Load, Return
  <2> QED BY <2>1, <2>2, <2>3
<1>3. ASSUME NEW t \in Threads, removeLru(t)
      PROVE  LruTypeOK' /\ RestTypeOK' /\ LocalsOk'
  <2>1. LruTypeOK'
    BY <1>0, <1>3 DEF removeLru, LruTypeOK, lruVars
  <2>2. RestTypeOK'
    BY <1>0, <1>a, <1>3 DEF removeLru, RestTypeOK, LruTypeOK, LocalsOk, Labels, Jump, Load, Return, isFull
  <2>3. LocalsOk'
    BY <1>0, <1>a, <1>3 DEF removeLru, RestTypeOK, LruTypeOK, LocalsOk, Putting, Null, Jump, Load, Return, isFull
  <2> QED BY <2>1, <2>2, <2>3
<1>4. ASSUME NEW t \in Threads, compareAndSet(t)
      PROVE  LruTypeOK' /\ RestTypeOK' /\ LocalsOk'
  <2>1. LruTypeOK'
    BY <1>0, <1>4 DEF compareAndSet, LruTypeOK, lruVars
  <2>2. RestTypeOK'
    BY <1>0, <1>a, <1>4 DEF compareAndSet, RestTypeOK, LruTypeOK, LocalsOk, Labels, Jump, Load, Return
  <2>3. LocalsOk'
    BY <1>0, <1>a, <1>4 DEF compareAndSet, RestTypeOK, LruTypeOK, LocalsOk, Putting, Null, Jump, Load, Return
  <2> QED BY <2>1, <2>2, <2>3
<1>5. ASSUME NEW t \in Threads, removeLruLoop(t)
      PROVE  LruTypeOK' /\ RestTypeOK' /\ LocalsOk'
  <2>1. LruTypeOK'
    BY <1>0, <1>5 DEF removeLruLoop, LruTypeOK, lruVars
  <2>2. RestTypeOK'
    <3>1. UNCHANGED <<hashVars, lock, listeners, ops>>
      BY <1>5 DEF removeLruLoop
    <3>2. CASE Jump(t, "tl0") /\ UNCHANGED isLruTailRemove
      BY <1>0, <3>1, <3>2 DEF RestTypeOK, Labels, Jump
    <3>3. CASE EndOfLoop(t)
      <4>1. isLruTailRemove' \in BOOLEAN
        BY <3>3, Zenon DEF EndOfLoop
      <4> QED BY <1>0, <3>1, <3>3, <4>1 DEF RestTypeOK, Labels, Jump, EndOfLoop
    <3> QED BY <1>5, <3>2, <3>3 DEF removeLruLoop
  <2>3. LocalsOk'
    BY <1>0, <1>a, <1>5 DEF removeLruLoop, RestTypeOK, LruTypeOK, LocalsOk, Putting, Null, Jump, Load, Return, isFull, EndOfLoop
  <2> QED BY <2>1, <2>2, <2>3
<1>6. ASSUME NEW t \in Threads, removeTail(t)
      PROVE  LruTypeOK' /\ RestTypeOK' /\ LocalsOk'
  <2>1. LruTypeOK'
    BY <1>0, <1>6 DEF removeTail, LruTypeOK, lruVars
  <2>2. RestTypeOK'
    <3>1. /\ UNCHANGED <<hashVars, lock, listeners, ops>>
          /\ \/ Load(t, "rm", tail1) /\ UNCHANGED isLruTailRemove
             \/ Load(t, "rm", tail2) /\ UNCHANGED isLruTailRemove
             \/ (Jump(t, "tl1") \/ Jump(t, "tl2") \/ Jump(t, "tl3")) /\ UNCHANGED isLruTailRemove
             \/ EndOfLoop(t)
             \/ Return(t) /\ UNCHANGED isLruTailRemove
      BY <1>6 DEF removeTail
    <3>2. CASE Load(t, "rm", tail1) /\ UNCHANGED isLruTailRemove
      BY <1>0, <3>1, <3>2 DEF RestTypeOK, LruTypeOK, Labels, Load
    <3>3. CASE Load(t, "rm", tail2) /\ UNCHANGED isLruTailRemove
      BY <1>0, <3>1, <3>3 DEF RestTypeOK, LruTypeOK, Labels, Load
    <3>4. CASE (Jump(t, "tl1") \/ Jump(t, "tl2") \/ Jump(t, "tl3")) /\ UNCHANGED isLruTailRemove
      BY <1>0, <3>1, <3>4 DEF RestTypeOK, Labels, Jump
    <3>5. CASE EndOfLoop(t)
      BY <1>0, <3>1, <3>5 DEF RestTypeOK, Labels, Jump, EndOfLoop
    <3>6. CASE Return(t) /\ UNCHANGED isLruTailRemove
      BY <1>0, <1>a, <3>1, <3>6 DEF RestTypeOK, Labels, Return
    <3> QED BY <3>1, <3>2, <3>3, <3>4, <3>5, <3>6
  <2>3. LocalsOk'
    BY <1>0, <1>a, <1>6 DEF removeTail, RestTypeOK, LruTypeOK, LocalsOk, Putting, Null, Jump, Load, Return, EndOfLoop
  <2> QED BY <2>1, <2>2, <2>3
<1>7. ASSUME NEW t \in Threads, removeLongestTail(t)
      PROVE  LruTypeOK' /\ RestTypeOK' /\ LocalsOk'
  <2>1. LruTypeOK'
    BY <1>0, <1>7 DEF removeLongestTail, LruTypeOK, lruVars
  <2>2. RestTypeOK'
    BY <1>0, <1>a, <1>7 DEF Count, removeLongestTail, RestTypeOK, LruTypeOK, LocalsOk, Labels, Jump, Load, Return
  <2>3. LocalsOk'
    BY <1>0, <1>a, <1>7 DEF Count, removeLongestTail, RestTypeOK, LruTypeOK, LocalsOk, Putting, Null, Jump, Load, Return
  <2> QED BY <2>1, <2>2, <2>3
<1>8. ASSUME NEW t \in Threads, remove(t)
      PROVE  LruTypeOK' /\ RestTypeOK' /\ LocalsOk'
  <2> DEFINE k == RemoveKey(t)
             x == Find(k)
  <2>0. x \in Null(Items)
    BY FindType
  <2> HIDE DEF x, k
  <2>1. CASE x = NULL
    <3>1. LruTypeOK'
      BY <1>0, <1>8, <2>1 DEF remove, LruTypeOK, lruVars, x, k
    <3>2. AfterRemove(t) /\ UNCHANGED <<lock, hashVars, isLruTailRemove, listeners, ops>>
      BY <1>8, <2>1 DEF remove, x, k
    <3>3. RestTypeOK'
      BY <1>0, <1>a, <3>2 DEF RestTypeOK, Labels, AfterRemove, Return
    <3>4. LocalsOk'
      BY <1>0, <1>a, <3>2 DEF RestTypeOK, LocalsOk, Putting, AfterRemove, Return
    <3> QED BY <3>1, <3>3, <3>4
  <2>2. CASE x # NULL
    <3>0. x \in Items
      BY <2>0, <2>2 DEF Null
    <3>1. /\ removeLruItem(x) /\ Acquire(t, Hash[k]) /\ Load(t, "un", x)
          /\ UNCHANGED <<hashVars, isLruTailRemove, listeners, ops>>
      BY <1>8, <2>2 DEF remove, x, k
    <3>2. LruTypeOK'
      BY <1>0, <3>0, <3>1, LruTypes
    <3>3. RestTypeOK'
      BY <1>0, <2>0, <3>1 DEF RestTypeOK, Labels, Load, Acquire, Null
    <3>4. LocalsOk'
      BY <1>0, <3>0, <3>1 DEF RestTypeOK, LocalsOk, Putting, Load
    <3> QED BY <3>2, <3>3, <3>4
  <2> QED BY <2>1, <2>2
<1>9. ASSUME NEW t \in Threads, unlinkHash(t)
      PROVE  LruTypeOK' /\ RestTypeOK' /\ LocalsOk'
  <2>1. LruTypeOK'
    BY <1>0, <1>9 DEF unlinkHash, LruTypeOK, lruVars
  <2>2. RestTypeOK'
    <3>0. item[t] \in Items
      BY <1>0, <1>9 DEF unlinkHash, LocalsOk
    <3>1. entries' \in [Buckets -> Null(Items)] /\ nextHash' \in [Items -> Null(Items)]
      BY <1>0, <1>9, <3>0 DEF unlinkHash, bypass, RestTypeOK, Null
    <3>2. lock' \in [Locks -> Null(Threads)] /\ pc' \in [Threads -> Labels]
          /\ oldValue' \in [Threads -> Null(Values)]
      BY <1>0, <1>a, <1>9, <3>0 DEF unlinkHash, RestTypeOK, Labels, Release
    <3> QED BY <1>0, <1>9, <3>1, <3>2 DEF unlinkHash, RestTypeOK
  <2>3. LocalsOk'
    BY <1>0, <1>a, <1>9 DEF unlinkHash, RestTypeOK, LruTypeOK, LocalsOk, Putting, Null, Jump, Load, Return, Release
  <2> QED BY <2>1, <2>2, <2>3
<1>10. ASSUME NEW t \in Threads, removeEvent(t)
      PROVE  LruTypeOK' /\ RestTypeOK' /\ LocalsOk'
  <2>1. LruTypeOK'
    BY <1>0, <1>10 DEF removeEvent, LruTypeOK, lruVars
  <2>2. RestTypeOK'
    <3>1. UNCHANGED <<hashVars, isLruTailRemove, lock, listeners, ops>>
      BY <1>10 DEF removeEvent
    <3>2. CASE Return(t)
      BY <1>0, <1>a, <3>1, <3>2 DEF RestTypeOK, Labels, Return
    <3>3. CASE AfterRemove(t) /\ ~Return(t)
      BY <1>0, <1>a, <3>1, <3>3 DEF RestTypeOK, Labels, AfterRemove
    <3> QED BY <1>10, <3>2, <3>3 DEF removeEvent
  <2>3. LocalsOk'
    BY <1>0, <1>a, <1>10 DEF removeEvent, RestTypeOK, LruTypeOK, LocalsOk, Putting, Null, Jump, Load, Return, AfterRemove
  <2> QED BY <2>1, <2>2, <2>3
<1>11. ASSUME NEW t \in Threads, compareAndPut(t)
      PROVE  LruTypeOK' /\ RestTypeOK' /\ LocalsOk'
  <2> DEFINE k == call[t].key
             x == Find(k)
  <2>0. x \in Null(Items)
    BY FindType
  <2>a. k \in Keys /\ call[t].val \in Values
    BY <1>0, <1>11, CallFields DEF compareAndPut, RestTypeOK, LocalsOk, Putting
  <2> HIDE DEF x
  <2>1. CASE x # NULL
    <3>0. x \in Items
      BY <2>0, <2>1 DEF Null
    <3>1. /\ Acquire(t, Hash[k]) /\ Load(t, "uc", x)
          /\ UNCHANGED <<lruVars, hashVars, isLruTailRemove, listeners, ops>>
      BY <1>11, <2>1 DEF compareAndPut, x
    <3>2. LruTypeOK'
      BY <1>0, <3>1 DEF LruTypeOK, lruVars
    <3>3. RestTypeOK'
      BY <1>0, <2>0, <3>1 DEF RestTypeOK, Labels, Load, Acquire, Null
    <3>4. LocalsOk'
      BY <1>0, <3>0, <3>1 DEF RestTypeOK, LocalsOk, Putting, Load
    <3> QED BY <3>2, <3>3, <3>4
  <2>2. CASE x = NULL /\ isCompare(t) /\ call[t].test # NULL
    <3>1. Return(t) /\ UNCHANGED <<lruVars, hashVars, lock, isLruTailRemove, listeners, ops>>
      BY <1>11, <2>2 DEF compareAndPut, x
    <3>2. LruTypeOK'
      BY <1>0, <3>1 DEF LruTypeOK, lruVars
    <3>3. RestTypeOK' /\ LocalsOk'
      BY <1>0, <1>a, <3>1 DEF RestTypeOK, Labels, Return, LocalsOk, Putting
    <3> QED BY <3>2, <3>3
  <2>3. CASE x = NULL /\ (isCompare(t) => call[t].test = NULL)
    <3>1. /\ Fresh # {} /\ Acquire(t, Hash[k]) /\ Load(t, "pk", NewItem)
          /\ key' = [key EXCEPT ![NewItem] = k]
          /\ value' = [value EXCEPT ![NewItem] = call[t].val]
          /\ linkNewItem(NewItem)
          /\ UNCHANGED <<entries, nextHash, isLruTailRemove, listeners, ops>>
      BY <1>11, <2>3 DEF compareAndPut, x
    <3>2. NewItem \in Items
      BY <3>1, NewItemType
    <3>3. LruTypeOK'
      BY <1>0, <3>1, <3>2, LruTypes
    <3>4. RestTypeOK'
      BY <1>0, <2>a, <3>1, <3>2 DEF RestTypeOK, Labels, Load, Acquire, Null
    <3>5. LocalsOk'
      BY <1>0, <2>a, <3>1, <3>2 DEF RestTypeOK, LocalsOk, Putting, Load
    <3> QED BY <3>3, <3>4, <3>5
  <2> QED BY <2>1, <2>2, <2>3
<1>12. ASSUME NEW t \in Threads, linkHash(t)
      PROVE  LruTypeOK' /\ RestTypeOK' /\ LocalsOk'
  <2>1. LruTypeOK'
    BY <1>0, <1>12 DEF linkHash, LruTypeOK, lruVars
  <2>2. RestTypeOK'
    <3>0. item[t] \in Items
      BY <1>0, <1>12 DEF linkHash, LocalsOk
    <3>1. Hash[key[item[t]]] \in Buckets
      BY <1>0, <1>12 DEF linkHash, LocalsOk
    <3>2. nextHash' \in [Items -> Null(Items)]
      BY <1>0, <1>12, <3>0, <3>1 DEF linkHash, RestTypeOK, LocalsOk
    <3>3. entries' \in [Buckets -> Null(Items)]
      BY <1>0, <1>12, <3>0 DEF linkHash, RestTypeOK, Null
    <3>4. lock' \in [Locks -> Null(Threads)]
      BY <1>0, <1>a, <1>12 DEF linkHash, RestTypeOK, Release
    <3> QED BY <1>0, <1>a, <1>12, <3>2, <3>3, <3>4 DEF linkHash, RestTypeOK, Labels, Return
  <2>3. LocalsOk'
    BY <1>0, <1>a, <1>12 DEF linkHash, RestTypeOK, LruTypeOK, LocalsOk, Putting, Null, Jump, Load, Return, Release
  <2> QED BY <2>1, <2>2, <2>3
<1>13. ASSUME NEW t \in Threads, replaceValue(t)
      PROVE  LruTypeOK' /\ RestTypeOK' /\ LocalsOk'
  <2>1. LruTypeOK'
    BY <1>0, <1>13 DEF replaceValue, LruTypeOK, lruVars
  <2>2. RestTypeOK'
    <3>0. item[t] \in Items /\ call[t].val \in Null(Values) /\ Replaced(t) \in Null(Values)
      BY <1>0, <1>a, <1>13, CallFields DEF replaceValue, LocalsOk, RestTypeOK, Replaced
    <3>1. lock' \in [Locks -> Null(Threads)]
      BY <1>0, <1>a, <1>13 DEF replaceValue, RestTypeOK, Release
    <3>2. value' \in [Items -> Null(Values)]
      BY <1>0, <1>13, <3>0 DEF replaceValue, RestTypeOK
    <3>3. \/ Return(t)
          \/ /\ pc' = [pc EXCEPT ![t] = "pe"]
             /\ oldValue' = [oldValue EXCEPT ![t] = Replaced(t)]
             /\ UNCHANGED <<call, item, num>>
      BY <1>13 DEF replaceValue
    <3>4. UNCHANGED <<entries, nextHash, key, isLruTailRemove, listeners, ops>>
      BY <1>13 DEF replaceValue
    <3> QED BY <1>0, <1>a, <3>0, <3>1, <3>2, <3>3, <3>4 DEF RestTypeOK, Labels, Return
  <2>3. LocalsOk'
    BY <1>0, <1>a, <1>13, CallFields DEF replaceValue, RestTypeOK, LruTypeOK, LocalsOk, Putting, Null, Jump, Load, Return, Release, Replaced, Mismatch
  <2> QED BY <2>1, <2>2, <2>3
<1>14. ASSUME NEW t \in Threads, updateLru(t)
      PROVE  LruTypeOK' /\ RestTypeOK' /\ LocalsOk'
  <2>1. LruTypeOK'
    BY <1>0, <1>14 DEF updateLru, LruTypeOK, lruVars
  <2>2. RestTypeOK'
    BY <1>0, <1>a, <1>14 DEF Count, updateLru, RestTypeOK, LruTypeOK, LocalsOk, Labels, Jump, Load, Return, AfterUpdate
  <2>3. LocalsOk'
    BY <1>0, <1>a, <1>14 DEF Count, updateLru, RestTypeOK, LruTypeOK, LocalsOk, Putting, Null, Jump, Load, Return, AfterUpdate
  <2> QED BY <2>1, <2>2, <2>3
<1>15. ASSUME NEW t \in Threads, updateLruLocked(t)
      PROVE  LruTypeOK' /\ RestTypeOK' /\ LocalsOk'
  <2>0. item[t] \in Items
    BY <1>0, <1>15 DEF updateLruLocked, LocalsOk
  <2>1. LruTypeOK'
    BY <1>0, <1>15, <2>0, LruTypes DEF updateLruLocked
  <2>2. RestTypeOK' /\ LocalsOk'
    BY <1>0, <1>15, <2>0 DEF updateLruLocked, RestTypeOK, LocalsOk, Labels, Putting, Jump, AfterUpdate
  <2> QED BY <2>1, <2>2
<1>16. ASSUME NEW t \in Threads, getFirst(t)
      PROVE  LruTypeOK' /\ RestTypeOK' /\ LocalsOk'
  <2>1. LruTypeOK'
    BY <1>0, <1>16 DEF getFirst, LruTypeOK, lruVars
  <2>2. RestTypeOK'
    BY <1>0, <1>a, <1>16 DEF getFirst, RestTypeOK, LruTypeOK, LocalsOk, Labels, Jump, Load, Return
  <2>3. LocalsOk'
    BY <1>0, <1>a, <1>16 DEF getFirst, RestTypeOK, LruTypeOK, LocalsOk, Putting, Null, Jump, Load, Return
  <2> QED BY <2>1, <2>2, <2>3
<1>17. ASSUME NEW t \in Threads, getWalk(t)
      PROVE  LruTypeOK' /\ RestTypeOK' /\ LocalsOk'
  <2>1. LruTypeOK'
    BY <1>0, <1>17 DEF getWalk, LruTypeOK, lruVars
  <2>2. RestTypeOK'
    <3>1. UNCHANGED <<hashVars, isLruTailRemove, lock, listeners, ops>>
      BY <1>17 DEF getWalk
    <3>2. CASE item[t] = NULL
      BY <1>0, <1>a, <1>17, <3>1, <3>2 DEF getWalk, RestTypeOK, Labels, Return
    <3>3. CASE item[t] # NULL /\ Jump(t, "uc")
      BY <1>0, <1>17, <3>1, <3>3 DEF RestTypeOK, Labels, Jump
    <3>4. CASE item[t] # NULL /\ Load(t, "gt", nextHash[item[t]])
      BY <1>0, <1>17, <3>1, <3>4 DEF RestTypeOK, Labels, Load, Null
    <3> QED BY <1>17, <3>2, <3>3, <3>4 DEF getWalk
  <2>3. LocalsOk'
    BY <1>0, <1>a, <1>17 DEF getWalk, RestTypeOK, LruTypeOK, LocalsOk, Putting, Null, Jump, Load, Return
  <2> QED BY <2>1, <2>2, <2>3
<1>18. ASSUME NEW t \in Threads, getReturn(t)
      PROVE  LruTypeOK' /\ RestTypeOK' /\ LocalsOk'
  <2>1. LruTypeOK'
    BY <1>0, <1>18 DEF getReturn, LruTypeOK, lruVars
  <2>2. RestTypeOK'
    BY <1>0, <1>a, <1>18 DEF getReturn, RestTypeOK, LruTypeOK, LocalsOk, Labels, Jump, Load, Return
  <2>3. LocalsOk'
    BY <1>0, <1>a, <1>18 DEF getReturn, RestTypeOK, LruTypeOK, LocalsOk, Putting, Null, Jump, Load, Return
  <2> QED BY <2>1, <2>2, <2>3
<1>19. ASSUME NEW t \in Threads, clear(t)
      PROVE  LruTypeOK' /\ RestTypeOK' /\ LocalsOk'
  <2>1. LruTypeOK'
    BY <1>0, <1>19 DEF clear, LruTypeOK, lruVars
  <2>2. RestTypeOK'
    <3>1. UNCHANGED <<hashVars, isLruTailRemove, lock, listeners, ops>>
      BY <1>19 DEF clear
    <3>2. CASE Jump(t, "c2")
      BY <1>0, <3>1, <3>2 DEF RestTypeOK, Labels, Jump
    <3>3. CASE Return(t)
      BY <1>0, <1>a, <3>1, <3>3 DEF RestTypeOK, Labels, Return
    <3>4. CASE BeginClear(t)
      BY <1>0, <3>1, <3>4 DEF Count, RestTypeOK, Labels, BeginClear
    <3> QED BY <1>19, <3>2, <3>3, <3>4 DEF clear
  <2>3. LocalsOk'
    <3>1. NumBuckets - 1 \in Buckets
      BY DEF Buckets
    <3>2. CASE Jump(t, "c2")
      BY <1>0, <1>19, <3>2 DEF clear, RestTypeOK, LocalsOk, Putting, Jump
    <3>3. CASE Return(t)
      BY <1>0, <1>19, <3>3 DEF clear, RestTypeOK, LocalsOk, Putting, Return
    <3>4. CASE BeginClear(t)
      BY <1>0, <1>19, <3>1, <3>4 DEF Count, clear, RestTypeOK, LocalsOk, Putting, BeginClear
    <3> QED BY <1>19, <3>2, <3>3, <3>4 DEF clear
  <2> QED BY <2>1, <2>2, <2>3
<1>20. ASSUME NEW t \in Threads, clearBucket(t)
      PROVE  LruTypeOK' /\ RestTypeOK' /\ LocalsOk'
  <2>1. LruTypeOK'
    BY <1>0, <1>20 DEF clearBucket, LruTypeOK, lruVars
  <2>2. RestTypeOK'
    <3>1. num[t] \in Buckets
      BY <1>0, <1>20 DEF clearBucket, LocalsOk
    <3>2. lock' \in [Locks -> Null(Threads)]
      BY <1>0, <1>20 DEF clearBucket, RestTypeOK, Acquire, Null
    <3>3. entries' \in [Buckets -> Null(Items)] /\ item' \in [Threads -> Null(Items)]
      BY <1>0, <1>a, <1>20, <3>1 DEF clearBucket, RestTypeOK, Load
    <3> QED BY <1>0, <1>20, <3>2, <3>3 DEF clearBucket, RestTypeOK, Labels, Load
  <2>3. LocalsOk'
    BY <1>0, <1>a, <1>20 DEF clearBucket, RestTypeOK, LruTypeOK, LocalsOk, Putting, Null, Jump, Load, Return, Acquire
  <2> QED BY <2>1, <2>2, <2>3
<1>21. ASSUME NEW t \in Threads, clearItem(t)
      PROVE  LruTypeOK' /\ RestTypeOK' /\ LocalsOk'
  <2> DEFINE x == item[t]
  <2>1. CASE EnableListeners /\ x # NULL
    <3>0. x \in Items
      BY <1>0, <2>1 DEF RestTypeOK, Null
    <3>1. /\ removeLruItem(x) /\ listeners' = [listeners EXCEPT ![t] = @ \cup {x}]
          /\ Load(t, "ci", nextHash[x])
          /\ UNCHANGED <<lock, hashVars, isLruTailRemove, ops>> /\ At(t, "ci")
      BY <1>21, <2>1 DEF clearItem
    <3>2. LruTypeOK'
      BY <1>0, <3>0, <3>1, LruTypes
    <3>3. RestTypeOK' /\ LocalsOk'
      BY <1>0, <3>0, <3>1 DEF RestTypeOK, LocalsOk, Labels, Putting, Load
    <3> QED BY <3>2, <3>3
  <2>2. CASE ~EnableListeners \/ x = NULL
    <3>1. /\ Release(num[t]) /\ num' = [num EXCEPT ![t] = num[t] - 1]
          /\ pc' = [pc EXCEPT ![t] = IF num[t] = 0 THEN "ce" ELSE "cb"]
          /\ UNCHANGED <<lruVars, listeners, call, item, oldValue>>
          /\ UNCHANGED <<hashVars, isLruTailRemove, ops>> /\ At(t, "ci")
      BY <1>21, <2>2 DEF clearItem
    <3>2. LruTypeOK'
      BY <1>0, <3>1 DEF LruTypeOK, lruVars
    <3>3. RestTypeOK'
      <4>1. lock' \in [Locks -> Null(Threads)]
        BY <1>0, <1>a, <3>1 DEF RestTypeOK, Release
      <4>2. num' \in [Threads -> Int] /\ pc' \in [Threads -> Labels]
        BY <1>0, <3>1 DEF RestTypeOK, Labels
      <4> QED BY <1>0, <3>1, <4>1, <4>2 DEF RestTypeOK
    <3>4. num[t] \in Buckets /\ (num[t] # 0 => num[t] - 1 \in Buckets)
      BY <1>0, <3>1 DEF LocalsOk, Buckets
    <3>5. LocalsOk'
      BY <1>0, <3>1, <3>4 DEF RestTypeOK, LocalsOk, Putting
    <3> QED BY <3>2, <3>3, <3>5
  <2> QED BY <2>1, <2>2
<1>22. ASSUME NEW t \in Threads, clearEvents(t)
      PROVE  LruTypeOK' /\ RestTypeOK' /\ LocalsOk'
  <2>1. LruTypeOK'
    BY <1>0, <1>22 DEF clearEvents, LruTypeOK, lruVars
  <2>2. RestTypeOK'
    BY <1>0, <1>a, <1>22 DEF clearEvents, RestTypeOK, LruTypeOK, LocalsOk, Labels, Jump, Load, Return
  <2>3. LocalsOk'
    BY <1>0, <1>a, <1>22 DEF clearEvents, RestTypeOK, LruTypeOK, LocalsOk, Putting, Null, Jump, Load, Return
  <2> QED BY <2>1, <2>2, <2>3
<1>23. CASE UNCHANGED vars
  BY <1>0, <1>23 DEF vars, lruVars, LruTypeOK, RestTypeOK, LocalsOk, Putting
<1> QED BY <1>1, <1>2, <1>3, <1>4, <1>5, <1>6, <1>7, <1>8, <1>9, <1>10, <1>11, <1>12, <1>13, <1>14, <1>15, <1>16, <1>17, <1>18, <1>19, <1>20, <1>21, <1>22, <1>23 DEF Next, Continue

(* The initial state has the types.                                        *)
LEMMA TypeInitial == Init => TypeInv
<1> SUFFICES ASSUME Init PROVE TypeInv
  OBVIOUS
<1>1. LruTypeOK
  BY DEF Init, LruTypeOK, Null
<1>2. RestTypeOK
  <2>1. pc \in [Threads -> Labels] /\ call \in [Threads -> Calls \cup {NoCall}]
    BY DEF Init, Labels
  <2>2. /\ entries \in [Buckets -> Null(Items)] /\ nextHash \in [Items -> Null(Items)]
        /\ key \in [Items -> Null(Keys)] /\ value \in [Items -> Null(Values)]
        /\ item \in [Threads -> Null(Items)] /\ oldValue \in [Threads -> Null(Values)]
        /\ lock \in [Locks -> Null(Threads)]
    BY DEF Init, Null
  <2>3. num \in [Threads -> Int] /\ ops \in 0 .. MaxOps
    BY DEF Init
  <2>4. isLruTailRemove \in BOOLEAN
    BY Zenon DEF Init
  <2>5. listeners \in [Threads -> SUBSET Items]
    BY DEF Init
  <2> QED BY <2>1, <2>2, <2>3, <2>4, <2>5 DEF RestTypeOK
<1>3. LocalsOk
  BY DEF Init, LocalsOk
<1> QED BY <1>1, <1>2, <1>3, TypeSplit DEF TypeInv

(* Every variable of LruCache keeps its type, for any number of threads,   *)
(* keys, buckets and operations.                                           *)
THEOREM TypeCorrect == Spec => []TypeOK
<1>1. TypeInv => TypeOK
  BY DEF TypeInv
<1> QED BY <1>1, TypeInitial, TypeStep, PTL DEF Spec

-----------------------------------------------------------------------------
(***************************************************************************)
(* The LRU lists.  The inductive invariant: both lists are ranked, the     *)
(* sizes count them, and an item that has not been allocated is in neither *)
(* and has no predecessor.                                                 *)
(***************************************************************************)
ListsInv ==
  /\ IsList(List1, head1, tail1, prevLru, nextLru)
  /\ IsList(List2, head2, tail2, prevLru, nextLru)
  /\ size1 = Cardinality(List1)
  /\ size2 = Cardinality(List2)

FreshInv == \A x \in Items : key[x] = NULL => hitCount[x] <= 0 /\ prevLru[x] = NULL

(* No item is hit Integer.MAX_VALUE times.                                 *)
NoOverflow == \A x \in Items : hitCount[x] < MaxInt

(* Adding an item to a set of items, or taking one away, moves the         *)
(* cardinality by one.                                                     *)
LEMMA ItemCount ==
  ASSUME NEW S \in SUBSET Items, NEW x \in Items
  PROVE  /\ x \notin S => Cardinality(S \cup {x}) = Cardinality(S) + 1
         /\ x \in S => Cardinality(S \ {x}) = Cardinality(S) - 1
         /\ Cardinality(S) \in Nat
<1>1. IsFiniteSet(Items)
  BY FS_Interval DEF Items
<1>2. IsFiniteSet(S)
  BY <1>1, FS_Subset
<1> QED BY <1>2, FS_AddElement, FS_RemoveElement, FS_CardinalityType

(* Where the neighbours of an item of a list can be                        *)
LEMMA Neighbours ==
  ASSUME NEW S \in SUBSET Items, NEW h, NEW e, NEW prv, NEW nxt,
         IsList(S, h, e, prv, nxt)
  PROVE  /\ h \in Null(S) /\ e \in Null(S)
         /\ h = NULL <=> e = NULL
         /\ h = NULL <=> S = {}
         /\ \A x \in S : /\ prv[x] \in Null(S) /\ nxt[x] \in Null(S)
                         /\ prv[x] = NULL <=> x = h
                         /\ prv[x] # x /\ nxt[x] # x
<1>1. ListOk(S, h, e, prv, nxt)
  BY RankedListOk
<1>2. \A x \in S : prv[x] # x /\ nxt[x] # x
  BY DEF IsList, Ranked
<1> QED BY <1>1, <1>2 DEF ListOk

(* linkNewItem puts the new item at the head of the first list.            *)
LEMMA LinkStep ==
  ASSUME LruTypeOK, ListsInv, NEW x \in Items, hitCount[x] <= 0, prevLru[x] = NULL,
         linkNewItem(x)
  PROVE  ListsInv'
<1>1. /\ hitCount' = [hitCount EXCEPT ![x] = 1]
      /\ size1' = size1 + 1
      /\ nextLru' = [nextLru EXCEPT ![x] = head1]
      /\ prevLru' = Assign(prevLru, head1, x)
      /\ head1' = x
      /\ tail1' = IF tail1 = NULL THEN x ELSE tail1
      /\ size2' = size2 /\ head2' = head2 /\ tail2' = tail2
  BY DEF linkNewItem
<1>2. List1 \in SUBSET Items /\ List2 \in SUBSET Items /\ x \notin List1 /\ x \notin List2
      /\ List1 \cap List2 = {}
  BY DEF List1, List2, LruTypeOK
<1>3. List1' = List1 \cup {x} /\ List2' = List2
  BY <1>1 DEF List1, List2, LruTypeOK
<1>4. head1 = NULL <=> tail1 = NULL
  BY <1>2, Neighbours DEF ListsInv
<1>5. IsList(List1', head1', tail1', prevLru', nextLru')
  <2>1. IsList(List1 \cup {x}, x, IF head1 = NULL THEN x ELSE tail1, prevLru', nextLru')
    BY <1>1, <1>2, ListPush DEF ListsInv, LruTypeOK
  <2> QED BY <2>1, <1>1, <1>3, <1>4
<1>6. IsList(List2', head2', tail2', prevLru', nextLru')
  <2>1. head1 \in Null(List1)
    BY <1>2, Neighbours DEF ListsInv
  <2>2. \A y \in List2 : prevLru'[y] = prevLru[y] /\ nextLru'[y] = nextLru[y]
    BY <1>1, <1>2, <2>1 DEF Assign, Null, LruTypeOK
  <2>3. IsList(List2, head2, tail2, prevLru', nextLru')
    BY <2>2, ListFrame DEF ListsInv
  <2> QED BY <2>3, <1>1, <1>3
<1>7. size1' = Cardinality(List1') /\ size2' = Cardinality(List2')
  BY <1>1, <1>2, <1>3, ItemCount DEF ListsInv
<1> QED BY <1>5, <1>6, <1>7 DEF ListsInv

(* promote moves an item from the first list to the head of the second.    *)
LEMMA PromoteStep ==
  ASSUME LruTypeOK, ListsInv, NEW x \in Items, promote(x)
  PROVE  ListsInv'
<1> DEFINE p == prevLru[x]
           n == nextLru[x]
           prvA == Assign(prevLru, n, p)
           nxtA == Assign(nextLru, p, n)
           prvB == [prvA EXCEPT ![x] = NULL]
           prvC == Assign(prvB, head2, x)
           nxtC == [nxtA EXCEPT ![x] = head2]
<1>1. /\ hitCount[x] = 1
      /\ hitCount' = [hitCount EXCEPT ![x] = 2]
      /\ nextLru' = Assign([nextLru EXCEPT ![x] = head2], p, n)
      /\ prevLru' = Assign(Assign([prevLru EXCEPT ![x] = NULL], n, p), head2, x)
      /\ head1' = IF p = NULL THEN n ELSE head1
      /\ tail1' = IF n = NULL THEN p ELSE tail1
      /\ head2' = x
      /\ tail2' = IF head2 = NULL THEN x ELSE tail2
      /\ size1' = size1 - 1
      /\ size2' = size2 + 1
  BY DEF promote
<1>2. List1 \in SUBSET Items /\ List2 \in SUBSET Items /\ x \in List1 /\ x \notin List2
      /\ List1 \cap List2 = {}
  BY <1>1 DEF List1, List2, LruTypeOK
<1>3. List1' = List1 \ {x} /\ List2' = List2 \cup {x}
  BY <1>1 DEF List1, List2, LruTypeOK
<1>4. p \in Null(List1 \ {x}) /\ n \in Null(List1 \ {x}) /\ head2 \in Null(List2)
  <2>1. p \in Null(List1) /\ n \in Null(List1) /\ p # x /\ n # x /\ head2 \in Null(List2)
    BY <1>2, Neighbours DEF ListsInv
  <2> QED BY <2>1 DEF Null
<1>5. p \in Null(Items) /\ n \in Null(Items) /\ head2 \in Null(Items)
  BY <1>2, <1>4 DEF Null
<1>6. prvA \in [Items -> Null(Items)] /\ nxtA \in [Items -> Null(Items)]
  BY <1>5, AssignType DEF LruTypeOK
<1>7. IsList(List1 \ {x}, head1', tail1', prvA, nxtA)
  BY <1>1, <1>2, ListUnlink DEF ListsInv, LruTypeOK
<1>8. /\ prvB \in [Items -> Null(Items)] /\ prvB[x] = NULL
      /\ \A y \in Items \ {x} : prvB[y] = prvA[y]
  BY <1>6 DEF Null
<1>9. IsList(List2, head2, tail2, prvB, nxtA)
  <2>1. \A y \in List2 : prvB[y] = prevLru[y] /\ nxtA[y] = nextLru[y]
    BY <1>2, <1>4, <1>8 DEF Assign, Null, LruTypeOK
  <2> HIDE DEF prvB, nxtA
  <2> QED BY <2>1, ListFrame DEF ListsInv
<1>10. IsList(List2 \cup {x}, x, IF head2 = NULL THEN x ELSE tail2, prvC, nxtC)
  <2> HIDE DEF prvB, nxtA
  <2> QED BY <1>2, <1>6, <1>8, <1>9, ListPush
<1>11. \A y \in List1 \ {x} : prevLru'[y] = prvA[y] /\ nextLru'[y] = nxtA[y]
  BY <1>1, <1>2, <1>4, <1>5 DEF Assign, Null, LruTypeOK
<1>12. \A y \in List2 \cup {x} : prevLru'[y] = prvC[y] /\ nextLru'[y] = nxtC[y]
  <2>1. \A y \in List2 \cup {x} : nextLru'[y] = nxtC[y]
    BY <1>1, <1>2, <1>4, <1>5 DEF Assign, Null, LruTypeOK
  <2>2. \A y \in List2 : prevLru'[y] = prvC[y]
    BY <1>1, <1>2, <1>4, <1>5 DEF Assign, Null, LruTypeOK
  <2>3. prevLru'[x] = NULL
    BY <1>1, <1>2, <1>4, <1>5 DEF Assign, Null, LruTypeOK
  <2>4. prvC[x] = NULL
    BY <1>2, <1>4, <1>8 DEF Assign, Null
  <2> QED BY <2>1, <2>2, <2>3, <2>4
<1>13. IsList(List1', head1', tail1', prevLru', nextLru')
  BY <1>3, <1>7, <1>11, ListFrame
<1>14. IsList(List2', head2', tail2', prevLru', nextLru')
  <2>1. IsList(List2 \cup {x}, x, tail2', prvC, nxtC)
    BY <1>1, <1>10
  <2> HIDE DEF prvC, nxtC
  <2>2. IsList(List2 \cup {x}, x, tail2', prevLru', nextLru')
    BY <2>1, <1>12, ListFrame
  <2> QED BY <2>2, <1>1, <1>3
<1>15. size1' = Cardinality(List1') /\ size2' = Cardinality(List2')
  BY <1>1, <1>2, <1>3, ItemCount DEF ListsInv
<1> QED BY <1>13, <1>14, <1>15 DEF ListsInv

(* moveToHead2 moves an item of the second list to its head.               *)
LEMMA MoveStep ==
  ASSUME LruTypeOK, ListsInv, NEW x \in Items, hitCount[x] < MaxInt, moveToHead2(x)
  PROVE  ListsInv'
<1> DEFINE p == prevLru[x]
           n == nextLru[x]
           prvA == Assign(prevLru, n, p)
           nxtA == Assign(nextLru, p, n)
           prvB == [prvA EXCEPT ![x] = NULL]
           prvC == Assign(prvB, head2, x)
           nxtC == [nxtA EXCEPT ![x] = head2]
<1>1. /\ hitCount[x] > 1
      /\ hitCount' = [hitCount EXCEPT ![x] = hitCount[x] + 1]
      /\ head1' = head1 /\ tail1' = tail1 /\ size1' = size1 /\ size2' = size2
  <2>1. hitCount[x] # MaxInt
    BY DEF LruTypeOK
  <2> QED BY <2>1 DEF moveToHead2, Increment
<1>2. List1 \in SUBSET Items /\ List2 \in SUBSET Items /\ x \in List2 /\ x \notin List1
      /\ List1 \cap List2 = {}
  BY <1>1 DEF List1, List2, LruTypeOK
<1>3. List1' = List1 /\ List2' = List2
  BY <1>1 DEF List1, List2, LruTypeOK
<1>4. size1' = Cardinality(List1') /\ size2' = Cardinality(List2')
  BY <1>1, <1>3 DEF ListsInv
<1>5. CASE x = head2
  <2>1. nextLru' = nextLru /\ prevLru' = prevLru /\ head2' = head2 /\ tail2' = tail2
    BY <1>5 DEF moveToHead2
  <2> QED BY <2>1, <1>1, <1>3, <1>4 DEF ListsInv
<1>6. CASE x # head2
  <2>1. /\ nextLru' = Assign([nextLru EXCEPT ![x] = head2], p, n)
        /\ prevLru' = Assign(Assign([prevLru EXCEPT ![x] = NULL], head2, x), n, p)
        /\ head2' = x
        /\ tail2' = IF n = NULL THEN p ELSE tail2
    BY <1>6 DEF moveToHead2
  <2>2. p \in List2 \ {x} /\ n \in Null(List2 \ {x}) /\ head2 \in List2 \ {x} /\ n # head2
    <3>1. /\ p \in Null(List2 \ {x}) /\ n \in Null(List2 \ {x})
          /\ p # NULL /\ head2 \in Null(List2) /\ head2 # NULL
      <4>1. /\ p \in Null(List2) /\ n \in Null(List2) /\ p # x /\ n # x
            /\ p = NULL <=> x = head2
            /\ head2 \in Null(List2) /\ (head2 = NULL <=> List2 = {})
        BY <1>2, Neighbours DEF ListsInv
      <4> QED BY <4>1, <1>2, <1>6 DEF Null
    <3>2. ListOk(List2, head2, tail2, prevLru, nextLru)
      BY <1>2, RankedListOk DEF ListsInv
    <3>3. n # head2
      BY <3>1, <3>2, <1>2 DEF ListOk, Null
    <3> QED BY <3>1, <3>3, <1>6 DEF Null
  <2>3. p \in Null(Items) /\ n \in Null(Items) /\ head2 \in Items /\ p \in Items /\ p # NULL
    BY <1>2, <2>2 DEF Null
  <2>4. prvA \in [Items -> Null(Items)] /\ nxtA \in [Items -> Null(Items)]
    BY <2>3, AssignType DEF LruTypeOK
  <2>5. IsList(List2 \ {x}, head2, tail2', prvA, nxtA)
    <3>1. IsList(List2 \ {x}, IF p = NULL THEN n ELSE head2, IF n = NULL THEN p ELSE tail2, prvA, nxtA)
      BY <1>2, ListUnlink DEF ListsInv, LruTypeOK
    <3> QED BY <3>1, <2>1, <2>3
  <2>6. /\ prvB \in [Items -> Null(Items)] /\ prvB[x] = NULL
        /\ \A y \in Items \ {x} : prvB[y] = prvA[y]
    BY <2>4 DEF Null
  <2>7. IsList(List2 \ {x}, head2, tail2', prvB, nxtA)
    <3>1. \A y \in List2 \ {x} : prvB[y] = prvA[y]
      BY <1>2, <2>6
    <3> HIDE DEF prvB, prvA, nxtA
    <3> QED BY <3>1, <2>5, ListFrame
  <2>8. IsList(List2, x, tail2', prvC, nxtC)
    <3>1. (List2 \ {x}) \cup {x} = List2 /\ List2 \ {x} \in SUBSET Items /\ x \in Items \ (List2 \ {x})
      BY <1>2
    <3>2. head2 # NULL
      BY <2>3
    <3> HIDE DEF prvB, nxtA
    <3>3. IsList((List2 \ {x}) \cup {x}, x, IF head2 = NULL THEN x ELSE tail2', prvC, nxtC)
      BY <3>1, <2>4, <2>6, <2>7, ListPush
    <3> QED BY <3>1, <3>2, <3>3
  <2>9. \A y \in List2 : prevLru'[y] = prvC[y] /\ nextLru'[y] = nxtC[y]
    <3>1. \A y \in List2 : nextLru'[y] = nxtC[y]
      BY <1>2, <2>1, <2>2, <2>3 DEF Assign, Null, LruTypeOK
    <3>2. \A y \in List2 \ {x} : prevLru'[y] = prvC[y]
      BY <1>2, <2>1, <2>2, <2>3 DEF Assign, Null, LruTypeOK
    <3>3. prevLru'[x] = NULL
      BY <2>1, <2>2, <2>3 DEF Assign, Null, LruTypeOK
    <3>4. prvC[x] = NULL
      BY <2>2, <2>3, <2>6 DEF Assign, Null
    <3> QED BY <3>1, <3>2, <3>3, <3>4
  <2>10. IsList(List2', head2', tail2', prevLru', nextLru')
    <3> HIDE DEF prvC, nxtC
    <3>1. IsList(List2, x, tail2', prevLru', nextLru')
      BY <2>8, <2>9, ListFrame
    <3> QED BY <3>1, <1>3, <2>1
  <2>11. \A y \in List1 : prevLru'[y] = prevLru[y] /\ nextLru'[y] = nextLru[y]
    BY <1>2, <2>1, <2>2, <2>3 DEF Assign, Null, LruTypeOK
  <2>12. IsList(List1', head1', tail1', prevLru', nextLru')
    <3>1. IsList(List1, head1, tail1, prevLru', nextLru')
      BY <2>11, ListFrame DEF ListsInv
    <3> QED BY <3>1, <1>1, <1>3
  <2> QED BY <1>4, <2>10, <2>12 DEF ListsInv
<1> QED BY <1>5, <1>6

(* removeLruItem takes an item out of the list it is in, if any.           *)
LEMMA RemoveStep ==
  ASSUME LruTypeOK, ListsInv, NEW x \in Items, removeLruItem(x)
  PROVE  ListsInv'
<1> DEFINE p == prevLru[x]
           n == nextLru[x]
           h == hitCount[x]
           prvA == Assign(prevLru, n, p)
           nxtA == Assign(nextLru, p, n)
<1>1. /\ hitCount' = [hitCount EXCEPT ![x] = -1]
      /\ prevLru' = IF h <= 0 THEN [prevLru EXCEPT ![x] = NULL]
                    ELSE Assign([prevLru EXCEPT ![x] = NULL], n, p)
      /\ nextLru' = IF h <= 0 THEN [nextLru EXCEPT ![x] = NULL]
                    ELSE Assign([nextLru EXCEPT ![x] = NULL], p, n)
      /\ size1' = IF h = 1 THEN size1 - 1 ELSE size1
      /\ head1' = IF h = 1 /\ p = NULL THEN n ELSE head1
      /\ tail1' = IF h = 1 /\ n = NULL THEN p ELSE tail1
      /\ size2' = IF h > 1 THEN size2 - 1 ELSE size2
      /\ head2' = IF h > 1 /\ p = NULL THEN n ELSE head2
      /\ tail2' = IF h > 1 /\ n = NULL THEN p ELSE tail2
  BY DEF removeLruItem
<1>2. List1 \in SUBSET Items /\ List2 \in SUBSET Items /\ List1 \cap List2 = {} /\ h \in Int
  BY DEF List1, List2, LruTypeOK
<1>3. List1' = List1 \ {x} /\ List2' = List2 \ {x}
  BY <1>1 DEF List1, List2, LruTypeOK
<1>4. CASE h <= 0
  <2>1. x \notin List1 /\ x \notin List2
    BY <1>4, <1>2 DEF List1, List2
  <2>2. \A y \in List1 \cup List2 : prevLru'[y] = prevLru[y] /\ nextLru'[y] = nextLru[y]
    BY <1>1, <1>2, <1>4, <2>1 DEF LruTypeOK
  <2>3. List1' = List1 /\ List2' = List2
    BY <1>3, <2>1
  <2>4. /\ head1' = head1 /\ tail1' = tail1 /\ size1' = size1
        /\ head2' = head2 /\ tail2' = tail2 /\ size2' = size2
    BY <1>1, <1>2, <1>4
  <2>5. IsList(List1, head1, tail1, prevLru', nextLru') /\ IsList(List2, head2, tail2, prevLru', nextLru')
    BY <2>2, ListFrame DEF ListsInv
  <2> QED BY <2>3, <2>4, <2>5 DEF ListsInv
<1>5. CASE h = 1
  <2>1. x \in List1 /\ x \notin List2
    BY <1>5, <1>2 DEF List1, List2
  <2>2. p \in Null(List1 \ {x}) /\ n \in Null(List1 \ {x})
    <3>1. p \in Null(List1) /\ n \in Null(List1) /\ p # x /\ n # x
      BY <1>2, <2>1, Neighbours DEF ListsInv
    <3> QED BY <3>1 DEF Null
  <2>3. /\ prevLru' = Assign([prevLru EXCEPT ![x] = NULL], n, p)
        /\ nextLru' = Assign([nextLru EXCEPT ![x] = NULL], p, n)
        /\ size1' = size1 - 1 /\ size2' = size2 /\ head2' = head2 /\ tail2' = tail2
        /\ head1' = IF p = NULL THEN n ELSE head1
        /\ tail1' = IF n = NULL THEN p ELSE tail1
    BY <1>1, <1>5
  <2>4. \A y \in List1 \ {x} : prevLru'[y] = prvA[y] /\ nextLru'[y] = nxtA[y]
    BY <1>2, <2>2, <2>3 DEF Assign, Null, LruTypeOK
  <2>5. \A y \in List2 : prevLru'[y] = prevLru[y] /\ nextLru'[y] = nextLru[y]
    BY <1>2, <2>1, <2>2, <2>3 DEF Assign, Null, LruTypeOK
  <2>6. IsList(List1 \ {x}, head1', tail1', prvA, nxtA)
    BY <1>2, <2>1, <2>3, ListUnlink DEF ListsInv, LruTypeOK
  <2>7. IsList(List1', head1', tail1', prevLru', nextLru')
    BY <1>3, <2>4, <2>6, ListFrame
  <2>8. IsList(List2', head2', tail2', prevLru', nextLru')
    <3>1. IsList(List2, head2, tail2, prevLru', nextLru')
      BY <2>5, ListFrame DEF ListsInv
    <3>2. List2' = List2
      BY <1>3, <2>1
    <3> QED BY <3>1, <3>2, <2>3
  <2>9. size1' = Cardinality(List1') /\ size2' = Cardinality(List2')
    <3>1. List2' = List2
      BY <1>3, <2>1
    <3> QED BY <3>1, <1>2, <1>3, <2>1, <2>3, ItemCount DEF ListsInv
  <2> QED BY <2>7, <2>8, <2>9 DEF ListsInv
<1>6. CASE h > 1
  <2>1. x \in List2 /\ x \notin List1
    BY <1>6, <1>2 DEF List1, List2
  <2>2. p \in Null(List2 \ {x}) /\ n \in Null(List2 \ {x})
    <3>1. p \in Null(List2) /\ n \in Null(List2) /\ p # x /\ n # x
      BY <1>2, <2>1, Neighbours DEF ListsInv
    <3> QED BY <3>1 DEF Null
  <2>3. /\ prevLru' = Assign([prevLru EXCEPT ![x] = NULL], n, p)
        /\ nextLru' = Assign([nextLru EXCEPT ![x] = NULL], p, n)
        /\ size2' = size2 - 1 /\ size1' = size1 /\ head1' = head1 /\ tail1' = tail1
        /\ head2' = IF p = NULL THEN n ELSE head2
        /\ tail2' = IF n = NULL THEN p ELSE tail2
    BY <1>1, <1>2, <1>6
  <2>4. \A y \in List2 \ {x} : prevLru'[y] = prvA[y] /\ nextLru'[y] = nxtA[y]
    BY <1>2, <2>2, <2>3 DEF Assign, Null, LruTypeOK
  <2>5. \A y \in List1 : prevLru'[y] = prevLru[y] /\ nextLru'[y] = nextLru[y]
    BY <1>2, <2>1, <2>2, <2>3 DEF Assign, Null, LruTypeOK
  <2>6. IsList(List2 \ {x}, head2', tail2', prvA, nxtA)
    BY <1>2, <2>1, <2>3, ListUnlink DEF ListsInv, LruTypeOK
  <2>7. IsList(List2', head2', tail2', prevLru', nextLru')
    BY <1>3, <2>4, <2>6, ListFrame
  <2>8. IsList(List1', head1', tail1', prevLru', nextLru')
    <3>1. IsList(List1, head1, tail1, prevLru', nextLru')
      BY <2>5, ListFrame DEF ListsInv
    <3>2. List1' = List1
      BY <1>3, <2>1
    <3> QED BY <3>1, <3>2, <2>3
  <2>9. size1' = Cardinality(List1') /\ size2' = Cardinality(List2')
    <3>1. List1' = List1
      BY <1>3, <2>1
    <3> QED BY <3>1, <1>2, <1>3, <2>1, <2>3, ItemCount DEF ListsInv
  <2> QED BY <2>7, <2>8, <2>9 DEF ListsInv
<1> QED BY <1>2, <1>4, <1>5, <1>6

(* A critical section of _lruLock leaves the unallocated items alone: the  *)
(* pointers it assigns belong to items of the lists.                       *)
LEMMA FreshStep ==
  ASSUME LruTypeOK, ListsInv, FreshInv, NEW x \in Items, key' = key,
         \/ promote(x)
         \/ moveToHead2(x)
         \/ removeLruItem(x)
  PROVE  FreshInv'
<1>1. List1 \in SUBSET Items /\ List2 \in SUBSET Items
  BY DEF List1, List2
<1>2. \A y \in List1 \cup List2 : key[y] # NULL
  BY DEF FreshInv, List1, List2, LruTypeOK
<1>3. /\ head1 \in Null(List1) /\ head2 \in Null(List2)
      /\ \A y \in List1 : prevLru[y] \in Null(List1) /\ nextLru[y] \in Null(List1)
      /\ \A y \in List2 : prevLru[y] \in Null(List2) /\ nextLru[y] \in Null(List2)
  BY <1>1, Neighbours DEF ListsInv
<1> SUFFICES ASSUME NEW y \in Items, key[y] = NULL
             PROVE  hitCount'[y] <= 0 /\ prevLru'[y] = NULL
  BY DEF FreshInv
<1>4. hitCount[y] <= 0 /\ prevLru[y] = NULL
  BY DEF FreshInv
<1>5. y \notin List1 /\ y \notin List2 /\ y # NULL
  BY <1>2
<1>6. CASE promote(x)
  <2>1. x \in List1 /\ x # y
    BY <1>2, <1>6 DEF promote, List1
  <2>2. nextLru[x] # y /\ head2 # y
    BY <2>1, <1>3, <1>5 DEF Null
  <2>3. hitCount'[y] = hitCount[y] /\ prevLru'[y] = prevLru[y]
    BY <1>6, <2>1, <2>2 DEF promote, Assign, LruTypeOK
  <2> QED BY <2>3, <1>4
<1>7. CASE moveToHead2(x)
  <2>1. x \in List2 /\ x # y
    BY <1>2, <1>7 DEF moveToHead2, List2
  <2>2. nextLru[x] # y /\ head2 # y
    BY <2>1, <1>3, <1>5 DEF Null
  <2>3. hitCount'[y] = hitCount[y]
    BY <1>7, <2>1 DEF moveToHead2, LruTypeOK
  <2>4. prevLru'[y] = prevLru[y]
    BY <1>7, <2>1, <2>2 DEF moveToHead2, Assign, LruTypeOK
  <2> QED BY <2>3, <2>4, <1>4
<1>8. CASE removeLruItem(x)
  <2>1. hitCount'[y] <= 0
    BY <1>8, <1>4 DEF removeLruItem, LruTypeOK
  <2>2. hitCount[x] \in Int /\ (hitCount[x] <= 0 \/ x \in List1 \/ x \in List2)
    BY DEF List1, List2, LruTypeOK
  <2>3. CASE hitCount[x] <= 0
    BY <1>8, <1>4, <2>1, <2>3 DEF removeLruItem, LruTypeOK
  <2>4. CASE ~(hitCount[x] <= 0)
    <3>1. x # y /\ nextLru[x] # y
      BY <2>2, <2>4, <1>3, <1>5 DEF Null
    <3>2. prevLru' = Assign([prevLru EXCEPT ![x] = NULL], nextLru[x], prevLru[x])
      BY <1>8, <2>4 DEF removeLruItem
    <3>3. prevLru'[y] = prevLru[y]
      BY <3>1, <3>2 DEF Assign, LruTypeOK
    <3> QED BY <3>3, <2>1, <1>4
  <2> QED BY <2>3, <2>4
<1> QED BY <1>6, <1>7, <1>8

(* linkNewItem allocates one item, which has a key from then on.           *)
LEMMA FreshLink ==
  ASSUME LruTypeOK, ListsInv, FreshInv, NEW x \in Items, NEW k \in Keys,
         key \in [Items -> Null(Keys)], key' = [key EXCEPT ![x] = k], linkNewItem(x)
  PROVE  FreshInv'
<1>1. List1 \in SUBSET Items
  BY DEF List1
<1>2. \A y \in List1 : key[y] # NULL
  BY DEF FreshInv, List1, LruTypeOK
<1>3. head1 \in Null(List1)
  BY <1>1, Neighbours DEF ListsInv
<1> SUFFICES ASSUME NEW y \in Items, key'[y] = NULL
             PROVE  hitCount'[y] <= 0 /\ prevLru'[y] = NULL
  BY DEF FreshInv
<1>4. x # y /\ key[y] = NULL
  OBVIOUS
<1>5. head1 # y
  BY <1>2, <1>3, <1>4 DEF Null
<1>6. hitCount'[y] = hitCount[y] /\ prevLru'[y] = prevLru[y]
  BY <1>4, <1>5 DEF linkNewItem, Assign, LruTypeOK
<1> QED BY <1>4, <1>6 DEF FreshInv

LruInv == ListsInv /\ FreshInv

(* The list invariant is preserved by every step in which no hit count     *)
(* overflows.                                                              *)
LEMMA LruInvStep == TypeInv /\ LruInv /\ NoOverflow /\ [Next]_vars => LruInv'
<1> SUFFICES ASSUME TypeInv, ListsInv, FreshInv, NoOverflow, [Next]_vars
             PROVE  ListsInv' /\ FreshInv'
  BY DEF LruInv
<1>0. LruTypeOK /\ RestTypeOK /\ LocalsOk
  BY TypeSplit DEF TypeInv
<1>1. ASSUME UNCHANGED <<lruVars, key>> PROVE ListsInv' /\ FreshInv'
  BY <1>1 DEF lruVars, ListsInv, FreshInv, List1, List2
<1>2. ASSUME NEW x \in Items, removeLruItem(x), UNCHANGED key
      PROVE  ListsInv' /\ FreshInv'
  BY <1>0, <1>2, RemoveStep, FreshStep
<1>3. ASSUME NEW t \in Threads, remove(t) PROVE ListsInv' /\ FreshInv'
  <2> DEFINE x == Find(RemoveKey(t))
  <2>1. CASE x = NULL
    BY <1>1, <1>3, <2>1 DEF remove, hashVars
  <2>2. CASE x # NULL
    <3>1. x \in Items /\ removeLruItem(x) /\ key' = key
      BY <1>3, <2>2, FindType DEF remove, hashVars, Null
    <3> QED BY <3>1, <1>2
  <2> QED BY <2>1, <2>2
<1>4. ASSUME NEW t \in Threads, clearItem(t) PROVE ListsInv' /\ FreshInv'
  <2>1. CASE UNCHANGED lruVars
    BY <1>1, <1>4, <2>1 DEF clearItem, hashVars
  <2>2. CASE ~UNCHANGED lruVars
    <3>1. item[t] \in Items /\ removeLruItem(item[t]) /\ key' = key
      BY <1>0, <1>4, <2>2 DEF clearItem, hashVars, RestTypeOK, Null
    <3> QED BY <3>1, <1>2
  <2> QED BY <2>1, <2>2
<1>5. ASSUME NEW t \in Threads, updateLruLocked(t) PROVE ListsInv' /\ FreshInv'
  <2> DEFINE x == item[t]
  <2>1. x \in Items /\ updateLruImpl(x) /\ key' = key
    BY <1>0, <1>5 DEF updateLruLocked, hashVars, LocalsOk, At
  <2>2. CASE promote(x)
    BY <1>0, <2>1, <2>2, PromoteStep, FreshStep
  <2>3. CASE moveToHead2(x)
    <3>1. hitCount[x] < MaxInt
      BY <2>1 DEF NoOverflow
    <3> QED BY <1>0, <2>1, <2>3, <3>1, MoveStep, FreshStep
  <2>4. CASE UNCHANGED <<hitCount, nextLru, prevLru, head1, tail1, head2, tail2, size1, size2>>
    BY <2>1, <2>4 DEF ListsInv, FreshInv, List1, List2
  <2> QED BY <2>1, <2>2, <2>3, <2>4 DEF updateLruImpl
<1>6. ASSUME NEW t \in Threads, compareAndPut(t) PROVE ListsInv' /\ FreshInv'
  <2>1. CASE UNCHANGED <<lruVars, key>>
    BY <1>1, <2>1
  <2>2. CASE ~UNCHANGED <<lruVars, key>>
    <3> DEFINE x == NewItem
    <3>1. /\ Fresh # {} /\ At(t, "pl")
          /\ key' = [key EXCEPT ![x] = call[t].key] /\ linkNewItem(x)
      BY <1>6, <2>2 DEF compareAndPut
    <3>2. x \in Items /\ key[x] = NULL
      BY <3>1, NewItemType DEF Fresh
    <3>3. call[t].key \in Keys
      BY <1>0, <3>1, CallFields DEF LocalsOk, Putting, At, RestTypeOK
    <3>4. hitCount[x] <= 0 /\ prevLru[x] = NULL /\ key \in [Items -> Null(Keys)]
      BY <1>0, <3>2 DEF FreshInv, RestTypeOK
    <3> QED BY <1>0, <3>1, <3>2, <3>3, <3>4, LinkStep, FreshLink
  <2> QED BY <2>1, <2>2
<1>7. CASE UNCHANGED vars
  BY <1>1, <1>7 DEF vars, hashVars
<1>8. ASSUME NEW t \in Threads, Start(t) PROVE ListsInv' /\ FreshInv'
  BY <1>1, <1>8 DEF Start, hashVars
<1>9. ASSUME NEW t \in Threads,
             \/ readSize1(t) \/ removeLru(t) \/ compareAndSet(t) \/ removeLruLoop(t)
             \/ removeTail(t) \/ removeLongestTail(t)
      PROVE  ListsInv' /\ FreshInv'
  BY <1>1, <1>9 DEF readSize1, removeLru, compareAndSet, removeLruLoop, removeTail,
                    removeLongestTail, hashVars
<1>10. ASSUME NEW t \in Threads,
              \/ unlinkHash(t) \/ removeEvent(t) \/ linkHash(t) \/ replaceValue(t)
              \/ updateLru(t) \/ getFirst(t) \/ getWalk(t) \/ getReturn(t)
              \/ clear(t) \/ clearBucket(t) \/ clearEvents(t)
       PROVE  ListsInv' /\ FreshInv'
  BY <1>1, <1>10 DEF unlinkHash, removeEvent, linkHash, replaceValue, updateLru, getFirst,
                     getWalk, getReturn, clear, clearBucket, clearEvents, hashVars
<1> QED BY <1>3, <1>4, <1>5, <1>6, <1>7, <1>8, <1>9, <1>10 DEF Next, Continue

(* A new cache is empty.                                                   *)
LEMMA LruStart == Init => LruInv
<1> SUFFICES ASSUME Init PROVE LruInv
  OBVIOUS
<1>1. List1 = {} /\ List2 = {} /\ FreshInv
  BY DEF Init, List1, List2, FreshInv
<1>2. Cardinality({}) = 0
  BY FS_EmptySet
<1>3. IsList({}, NULL, NULL, prevLru, nextLru)
  <2>1. Ranked({}, NULL, NULL, prevLru, nextLru, [x \in Items |-> 0])
    BY DEF Ranked, Null
  <2>2. [x \in Items |-> 0] \in [Items -> Int]
    OBVIOUS
  <2> QED
    BY <2>1, <2>2 DEF IsList
<1> QED
  BY <1>1, <1>2, <1>3 DEF Init, LruInv, ListsInv

(* Both LRU lists stay well formed doubly linked lists of exactly the live *)
(* items, with the right sizes, for any number of threads, keys, buckets   *)
(* and operations, as long as no item is hit Integer.MAX_VALUE times.      *)
THEOREM LruListsCorrect == Spec /\ []NoOverflow => []LruListsOk
<1>1. Init => LruInv
  BY LruStart
<1>2. LruInv => LruListsOk
  <2> SUFFICES ASSUME LruInv PROVE LruListsOk
    OBVIOUS
  <2>1. List1 \in SUBSET Items /\ List2 \in SUBSET Items
    BY DEF List1, List2
  <2> QED BY <2>1, RankedListOk DEF LruInv, ListsInv, LruListsOk
<1>3. Spec => []TypeInv
  BY TypeInitial, TypeStep, PTL DEF Spec
<1> QED BY <1>1, <1>2, <1>3, LruInvStep, PTL DEF Spec

-----------------------------------------------------------------------------
(***************************************************************************)
(* Reach.  The walk along a list meets the items in the order of their     *)
(* positions, so it meets all of them, in at most MaxOps steps, and then   *)
(* NULL.                                                                   *)
(***************************************************************************)
Walk(h, nxt, w) ==
  w = [n \in 0 .. MaxOps |->
         IF n = 0 THEN h
         ELSE LET x == w[n - 1] IN IF x = NULL THEN NULL ELSE nxt[x]]

(* Reach collects what a walk of MaxOps steps meets.                       *)
LEMMA ReachWalk ==
  ASSUME NEW h, NEW nxt, NEW v, Walk(h, nxt, v)
  PROVE  \E w : Walk(h, nxt, w) /\ Reach(h, nxt) = Items \cap {w[n] : n \in 0 .. MaxOps}
<1> DEFINE w == CHOOSE w : Walk(h, nxt, w)
<1>1. Walk(h, nxt, w)
  OBVIOUS
<1>2. Reach(h, nxt) = Items \cap {w[n] : n \in 0 .. MaxOps}
  BY DEF Reach, Walk
<1> HIDE DEF w
<1> QED
  BY <1>1, <1>2

(* A walk that stands on an item goes on to its successor.                 *)
LEMMA WalkStep ==
  ASSUME NEW h, NEW nxt, NEW w, Walk(h, nxt, w), NEW n \in 0 .. MaxOps
  PROVE  w[n] = IF n = 0 THEN h ELSE IF w[n - 1] = NULL THEN NULL ELSE nxt[w[n - 1]]
BY DEF Walk

(* There is one walk                                                       *)
LEMMA WalksAgree ==
  ASSUME NEW h, NEW nxt, NEW v, NEW w, Walk(h, nxt, v), Walk(h, nxt, w)
  PROVE  \A n \in 0 .. MaxOps : v[n] = w[n]
<1> DEFINE Bad == {n \in 0 .. MaxOps : v[n] # w[n]}
<1> SUFFICES ASSUME Bad # {} PROVE FALSE
  OBVIOUS
<1>1. PICK n \in Bad : \A m \in Bad : ~ (<< m, n >> \in OpToRel(<, Nat))
  <2>1. Bad \subseteq Nat
    OBVIOUS
  <2> HIDE DEF Bad
  <2> QED
    BY <2>1, NatLessThanWellFounded, WFMin
<1>2. n \in 0 .. MaxOps /\ v[n] # w[n]
  OBVIOUS
<1>3. /\ v[n] = IF n = 0 THEN h ELSE IF v[n - 1] = NULL THEN NULL ELSE nxt[v[n - 1]]
      /\ w[n] = IF n = 0 THEN h ELSE IF w[n - 1] = NULL THEN NULL ELSE nxt[w[n - 1]]
  BY <1>2, WalkStep
<1>4. n # 0
  BY <1>2, <1>3
<1>5. n - 1 \in 0 .. MaxOps /\ << n - 1, n >> \in OpToRel(<, Nat)
  BY <1>2, <1>4 DEF OpToRel
<1>6. v[n - 1] = w[n - 1]
  BY <1>1, <1>5
<1> QED
  BY <1>2, <1>3, <1>4, <1>6

(* How many items of a ranked list come before x                           *)
Before(S, rank, x) == {y \in S : rank[y] < rank[x]}
Position(S, rank, x) == Cardinality(Before(S, rank, x))

(* The successor of an item stands one position behind it, and no          *)
(* position exceeds the number of operations.                              *)
LEMMA Positions ==
  ASSUME NEW S \in SUBSET Items, NEW h, NEW e, NEW prv, NEW nxt,
         NEW rank \in [Items -> Int], Ranked(S, h, e, prv, nxt, rank)
  PROVE  /\ \A x \in S : Position(S, rank, x) \in 0 .. MaxOps
         /\ \A x \in S : Position(S, rank, x) = 0 <=> x = h
         /\ \A x \in S : x # e => Position(S, rank, nxt[x]) = Position(S, rank, x) + 1
<1>1. IsFiniteSet(Items) /\ Cardinality(Items) = MaxOps
  BY FS_Interval DEF Items
<1>2. ASSUME NEW x \in S PROVE /\ Before(S, rank, x) \subseteq Items
                               /\ IsFiniteSet(Before(S, rank, x))
                               /\ Position(S, rank, x) \in 0 .. MaxOps
  <2>1. Before(S, rank, x) \subseteq Items
    BY DEF Before
  <2> QED
    BY <1>1, <2>1, FS_Subset, FS_CardinalityType DEF Position
<1>3. ASSUME NEW x \in S, x = h PROVE Position(S, rank, x) = 0
  <2>1. Before(S, rank, x) = {}
    <3>1. \A y \in S : ~ (rank[y] < rank[x])
      BY <1>3 DEF Ranked
    <3> QED
      BY <3>1 DEF Before
  <2> QED
    BY <2>1, FS_EmptySet DEF Position
<1>4. ASSUME NEW x \in S, x # h PROVE Position(S, rank, x) # 0
  <2>1. h \in S /\ h \in Before(S, rank, x)
    BY <1>4 DEF Ranked, Before
  <2> QED
    BY <1>2, <2>1, FS_EmptySet DEF Position
<1>5. ASSUME NEW x \in S, x # e
      PROVE  Position(S, rank, nxt[x]) = Position(S, rank, x) + 1
  <2>1. nxt[x] \in S /\ rank[x] < rank[nxt[x]]
    BY <1>5 DEF Ranked
  <2>2. \A y \in S : rank[y] < rank[nxt[x]] <=> rank[y] < rank[x] \/ y = x
    <3> SUFFICES ASSUME NEW y \in S
                 PROVE  rank[y] < rank[nxt[x]] <=> rank[y] < rank[x] \/ y = x
      OBVIOUS
    <3>1. rank[y] <= rank[x] \/ rank[nxt[x]] <= rank[y]
      BY <1>5 DEF Ranked
    <3>2. rank[y] = rank[x] => y = x
      BY DEF Ranked
    <3>3. rank[x] \in Int /\ rank[y] \in Int /\ rank[nxt[x]] \in Int
      BY <2>1
    <3> QED
      BY <2>1, <3>1, <3>2, <3>3
  <2>3. Before(S, rank, nxt[x]) = Before(S, rank, x) \cup {x}
    BY <2>2 DEF Before
  <2>4. x \notin Before(S, rank, x)
    BY DEF Before
  <2> QED
    BY <1>2, <2>3, <2>4, FS_AddElement DEF Position
<1> QED
  BY <1>2, <1>3, <1>4, <1>5

(* Following the pointers from the head of a ranked list meets exactly     *)
(* the items of the list.                                                  *)
LEMMA ReachList ==
  ASSUME NEW S \in SUBSET Items, NEW h, NEW e, NEW prv, NEW nxt, IsList(S, h, e, prv, nxt)
  PROVE  Reach(h, nxt) = S
<1>1. PICK rank \in [Items -> Int] : Ranked(S, h, e, prv, nxt, rank)
  BY DEF IsList
<1> DEFINE pos(x) == Position(S, rank, x)
           v == [n \in 0 .. MaxOps |->
                   IF \E x \in S : pos(x) = n THEN CHOOSE x \in S : pos(x) = n ELSE NULL]
<1>2. /\ \A x \in S : pos(x) \in 0 .. MaxOps
      /\ \A x \in S : pos(x) = 0 <=> x = h
      /\ \A x \in S : x # e => pos(nxt[x]) = pos(x) + 1
  BY <1>1, Positions
<1>3. NULL \notin S /\ h \in Null(S)
  BY <1>1 DEF Ranked
<1>4. \A x, y \in S : pos(x) = pos(y) => x = y
  <2> SUFFICES ASSUME NEW x \in S, NEW y \in S, rank[x] < rank[y] PROVE pos(x) # pos(y)
    <3>1. \A x, y \in S : rank[x] # rank[y] \/ x = y
      BY <1>1 DEF Ranked
    <3>2. \A x, y \in S : rank[x] < rank[y] \/ rank[y] < rank[x] \/ rank[x] = rank[y]
      OBVIOUS
    <3> HIDE DEF pos
    <3> QED
      BY <3>1, <3>2
  <2>1. /\ Before(S, rank, x) \cup {x} \subseteq Before(S, rank, y)
        /\ x \notin Before(S, rank, x) /\ Before(S, rank, y) \subseteq Items
    BY DEF Before
  <2>2. IsFiniteSet(Before(S, rank, y)) /\ IsFiniteSet(Before(S, rank, x))
    <3>1. IsFiniteSet(Items)
      BY FS_Interval DEF Items
    <3> QED
      BY <2>1, <3>1, FS_Subset
  <2>3. pos(x) + 1 <= pos(y)
    <3>1. Cardinality(Before(S, rank, x) \cup {x}) <= Cardinality(Before(S, rank, y))
      BY <2>1, <2>2, FS_Subset
    <3>2. Cardinality(Before(S, rank, x) \cup {x}) = Cardinality(Before(S, rank, x)) + 1
      BY <2>1, <2>2, FS_AddElement
    <3> QED
      BY <3>1, <3>2 DEF Position
  <2> QED
    BY <1>2, <2>3
<1>5. \A x \in S : v[pos(x)] = x
  <2> HIDE DEF pos
  <2> QED
    BY <1>2, <1>4
<1>6. \A n \in 0 .. MaxOps : v[n] \in Null(S) /\ (v[n] # NULL => pos(v[n]) = n)
  <2> HIDE DEF pos
  <2> QED
    BY <1>3 DEF Null
<1> HIDE DEF v, pos
<1>7. ASSUME NEW n \in 0 .. MaxOps, n # 0
      PROVE  v[n] = IF v[n - 1] = NULL THEN NULL ELSE nxt[v[n - 1]]
  <2>0. n - 1 \in 0 .. MaxOps
    BY <1>7
  <2>1. CASE v[n] # NULL
    <3>1. v[n] \in S /\ pos(v[n]) = n /\ v[n] # h
      BY <1>2, <1>6, <1>7, <2>1 DEF Null
    <3>2. prv[v[n]] \in S /\ nxt[prv[v[n]]] = v[n] /\ prv[v[n]] # e
      BY <1>1, <1>3, <2>1, <3>1 DEF Ranked
    <3>3. pos(v[n]) = pos(prv[v[n]]) + 1 /\ pos(prv[v[n]]) \in 0 .. MaxOps
      BY <1>2, <3>2
    <3>4. pos(prv[v[n]]) = n - 1
      BY <3>1, <3>3
    <3>5. v[n - 1] = prv[v[n]]
      BY <1>5, <3>2, <3>4
    <3> QED
      BY <1>3, <3>2, <3>5
  <2>2. CASE v[n] = NULL /\ v[n - 1] # NULL
    <3>1. v[n - 1] \in S /\ pos(v[n - 1]) = n - 1
      BY <1>6, <2>0, <2>2 DEF Null
    <3>2. CASE v[n - 1] = e
      BY <1>1, <2>2, <3>1, <3>2 DEF Ranked
    <3>3. CASE v[n - 1] # e
      <4>1. nxt[v[n - 1]] \in S
        BY <1>1, <3>1, <3>3 DEF Ranked
      <4>2. pos(nxt[v[n - 1]]) = n
        BY <1>2, <1>7, <3>1, <3>3
      <4>3. v[n] = nxt[v[n - 1]]
        BY <1>5, <4>1, <4>2
      <4> QED
        BY <1>3, <2>2, <4>1, <4>3
    <3> QED
      BY <3>2, <3>3
  <2> QED
    BY <2>1, <2>2
<1>8. v[0] = h
  <2>1. CASE h = NULL
    <3>1. S = {}
      BY <1>1, <1>3, <2>1 DEF Ranked
    <3> QED
      BY <1>6, <2>1, <3>1 DEF Null
  <2>2. CASE h # NULL
    BY <1>2, <1>3, <1>5, <2>2 DEF Null
  <2> QED
    BY <2>1, <2>2
<1>9. Walk(h, nxt, v)
  <2>1. v = [n \in 0 .. MaxOps |-> v[n]]
    BY DEF v
  <2>2. \A n \in 0 .. MaxOps :
          v[n] = IF n = 0 THEN h ELSE LET x == v[n - 1] IN IF x = NULL THEN NULL ELSE nxt[x]
    BY <1>7, <1>8
  <2> QED
    BY <2>1, <2>2 DEF Walk
<1>10. PICK w : Walk(h, nxt, w) /\ Reach(h, nxt) = Items \cap {w[n] : n \in 0 .. MaxOps}
  BY <1>9, ReachWalk
<1>11. \A n \in 0 .. MaxOps : w[n] = v[n]
  BY <1>9, <1>10, WalksAgree
<1>12. \A x \in S : x \in Reach(h, nxt)
  BY <1>2, <1>5, <1>10, <1>11
<1>13. \A x \in Reach(h, nxt) : x \in S
  <2> SUFFICES ASSUME NEW x \in Reach(h, nxt) PROVE x \in S
    OBVIOUS
  <2>1. PICK n \in 0 .. MaxOps : x = w[n]
    BY <1>10
  <2>2. x \in Items /\ x = v[n] /\ NULL \notin Items
    BY <1>10, <1>11, <2>1
  <2> QED
    BY <1>6, <2>2 DEF Null
<1> QED
  BY <1>12, <1>13

-----------------------------------------------------------------------------
(***************************************************************************)
(* The chains of the hash table.  They are singly linked: the predecessors *)
(* a doubly linked list has are supplied by the proof.                     *)
(***************************************************************************)
Linked(S, h, nxt) ==
  \E prv \in [Items -> Null(Items)] : \E e : IsList(S, h, e, prv, nxt)

(* Following a chain from its head meets exactly its items.                *)
LEMMA LinkedReach ==
  ASSUME NEW S \in SUBSET Items, NEW h, NEW nxt, Linked(S, h, nxt)
  PROVE  Reach(h, nxt) = S /\ h \in Null(S) /\ (h = NULL => S = {})
<1>1. PICK prv \in [Items -> Null(Items)] : \E e : IsList(S, h, e, prv, nxt)
  BY DEF Linked
<1>2. PICK e : IsList(S, h, e, prv, nxt)
  BY <1>1
<1> QED
  BY <1>2, ReachList, Neighbours

(* An empty chain.                                                         *)
LEMMA LinkedEmpty == ASSUME NEW nxt PROVE Linked({}, NULL, nxt)
<1>1. PICK prv \in [Items -> Null(Items)] : TRUE
  <2>1. [x \in Items |-> NULL] \in [Items -> Null(Items)]
    BY DEF Null
  <2> QED
    BY <2>1
<1>2. [x \in Items |-> 0] \in [Items -> Int]
  OBVIOUS
<1>3. Ranked({}, NULL, NULL, prv, nxt, [x \in Items |-> 0])
  BY DEF Ranked, Null
<1>4. IsList({}, NULL, NULL, prv, nxt)
  BY <1>2, <1>3 DEF IsList
<1> QED
  BY <1>4 DEF Linked

(* A chain does not depend on the pointers of items outside it.            *)
LEMMA LinkedFrame ==
  ASSUME NEW S, NEW h, NEW nxt, Linked(S, h, nxt), NEW nxt2, \A x \in S : nxt2[x] = nxt[x]
  PROVE  Linked(S, h, nxt2)
<1>1. PICK prv \in [Items -> Null(Items)] : \E e : IsList(S, h, e, prv, nxt)
  BY DEF Linked
<1>2. PICK e : IsList(S, h, e, prv, nxt)
  BY <1>1
<1>3. IsList(S, h, e, prv, nxt2)
  BY <1>2, ListFrame
<1> QED
  BY <1>3 DEF Linked

(* linkHash: an item put in front of a chain.                              *)
LEMMA LinkedPush ==
  ASSUME NEW S \in SUBSET Items, NEW h, NEW x \in Items \ S,
         NEW nxt \in [Items -> Null(Items)], Linked(S, h, nxt)
  PROVE  Linked(S \cup {x}, x, [nxt EXCEPT ![x] = h])
<1>1. PICK prv \in [Items -> Null(Items)] : \E e : IsList(S, h, e, prv, nxt)
  BY DEF Linked
<1>2. PICK e : IsList(S, h, e, prv, nxt)
  BY <1>1
<1>3. PICK p : p = [prv EXCEPT ![x] = NULL]
  OBVIOUS
<1>4. p \in [Items -> Null(Items)] /\ p[x] = NULL /\ \A y \in S : p[y] = prv[y]
  BY <1>3 DEF Null
<1>5. IsList(S, h, e, p, nxt)
  BY <1>2, <1>4, ListFrame
<1>6. IsList(S \cup {x}, x, IF h = NULL THEN x ELSE e, Assign(p, h, x), [nxt EXCEPT ![x] = h])
  BY <1>4, <1>5, ListPush
<1>7. Assign(p, h, x) \in [Items -> Null(Items)]
  <2>1. h \in Null(Items) /\ x \in Null(Items)
    BY LinkedReach DEF Null
  <2> QED
    BY <1>4, <2>1, AssignType
<1> QED
  BY <1>6, <1>7 DEF Linked

(* Following the pointer of an item past another, as remove() does         *)
LEMMA LinkedBypass ==
  ASSUME NEW S \in SUBSET Items, NEW h, NEW x \in S,
         NEW nxt \in [Items -> Null(Items)], Linked(S, h, nxt),
         NEW nxt2, \A y \in S : nxt2[y] = IF nxt[y] = x THEN nxt[x] ELSE nxt[y]
  PROVE  Linked(S \ {x}, IF h = x THEN nxt[x] ELSE h, nxt2)
<1>1. PICK prv \in [Items -> Null(Items)] : \E e : IsList(S, h, e, prv, nxt)
  BY DEF Linked
<1>2. PICK e : IsList(S, h, e, prv, nxt)
  BY <1>1
<1>3. PICK p, n, h2, e2, prv2, nxt3 :
        /\ p = prv[x] /\ n = nxt[x]
        /\ h2 = IF p = NULL THEN n ELSE h
        /\ e2 = IF n = NULL THEN p ELSE e
        /\ prv2 = Assign(prv, n, p) /\ nxt3 = Assign(nxt, p, n)
  OBVIOUS
<1>4. IsList(S \ {x}, h2, e2, prv2, nxt3)
  BY <1>2, <1>3, ListUnlink
<1>5. prv2 \in [Items -> Null(Items)]
  BY <1>3, AssignType
<1>6. p \in Null(S) /\ (p = NULL <=> x = h) /\ p # x
  BY <1>2, <1>3, Neighbours
<1>7. ListOk(S, h, e, prv, nxt)
  BY <1>2, RankedListOk
<1>8. \A y \in S : nxt[y] = x <=> y = p
  BY <1>3, <1>6, <1>7 DEF ListOk, Null
<1>9. \A y \in S \ {x} : nxt2[y] = nxt3[y]
  BY <1>3, <1>6, <1>8 DEF Assign, Null
<1>10. IsList(S \ {x}, h2, e2, prv2, nxt2)
  BY <1>4, <1>9, ListFrame
<1>11. h2 = IF h = x THEN nxt[x] ELSE h
  BY <1>3, <1>6
<1> QED
  BY <1>5, <1>10, <1>11 DEF Linked

(* The rest of a chain behind its first item, as clear() walks it          *)
LEMMA LinkedRest ==
  ASSUME NEW S \in SUBSET Items, NEW h, h # NULL,
         NEW nxt \in [Items -> Null(Items)], Linked(S, h, nxt)
  PROVE  h \in S /\ Linked(S \ {h}, nxt[h], nxt)
<1>1. h \in S
  BY LinkedReach DEF Null
<1>2. PICK nxt2 : nxt2 = [y \in S |-> IF nxt[y] = h THEN nxt[h] ELSE nxt[y]]
  OBVIOUS
<1>3. Linked(S \ {h}, nxt[h], nxt2)
  <2>1. \A y \in S : nxt2[y] = IF nxt[y] = h THEN nxt[h] ELSE nxt[y]
    BY <1>2
  <2>2. Linked(S \ {h}, IF h = h THEN nxt[h] ELSE h, nxt2)
    BY <1>1, <2>1, LinkedBypass
  <2> QED
    BY <2>2
<1>4. \A y \in S : nxt[y] # h
  <2>1. PICK prv \in [Items -> Null(Items)] : \E e : IsList(S, h, e, prv, nxt)
    BY DEF Linked
  <2>2. PICK e : IsList(S, h, e, prv, nxt)
    BY <2>1
  <2>3. ListOk(S, h, e, prv, nxt)
    BY <2>2, RankedListOk
  <2> QED
    BY <1>1, <2>3 DEF ListOk
<1>5. \A y \in S \ {h} : nxt[y] = nxt2[y]
  BY <1>2, <1>4
<1> QED
  BY <1>1, <1>3, <1>5, LinkedFrame

-----------------------------------------------------------------------------
(***************************************************************************)
(* The hash table.  chain gives the items of every bucket and det those a  *)
(* clear() has detached: both are functions of the state, named so that a  *)
(* step can be said to move an item from one to the other.                 *)
(***************************************************************************)
Held(t, b) == lock[getLock(b)] = t

(* The items of every bucket                                               *)
Chains(chain) ==
  /\ chain \in [Buckets -> SUBSET Items]
  /\ \A b \in Buckets :
       /\ Linked(chain[b], entries[b], nextHash)
       /\ \A x \in chain[b] : key[x] \in Keys /\ Hash[key[x]] = b
       /\ \A x, y \in chain[b] : key[x] = key[y] => x = y

(* What the clear() of t has detached from its bucket and not yet removed  *)
Detaches(t, chain, D) ==
  IF pc[t] = "ci"
  THEN /\ Linked(D, item[t], nextHash) /\ Held(t, num[t])
       /\ \A x \in D : key[x] \in Keys /\ Hash[key[x]] = num[t] /\ x \notin chain[num[t]]
  ELSE D = {}

Writing(t) ==
  pc[t] \in {"un", "pk", "pv"} \/ (pc[t] \in {"uc", "ud", "ui"} /\ Putting(t))

(* Between its search and its last change a writer has the bucket's lock   *)
Guards(t, chain) ==
  /\ Writing(t) => key[item[t]] \in Keys /\ Held(t, Hash[key[item[t]]])
  /\ pc[t] = "un" => item[t] \in chain[Hash[key[item[t]]]]
  /\ pc[t] = "pk" => \A y \in chain[Hash[key[item[t]]]] : key[y] # key[item[t]]
  /\ pc[t] = "rm" => call[t].op = "remove" \/ (item[t] \in Items /\ key[item[t]] \in Keys)
  /\ pc[t] \in {"gs", "gt", "gr"} => ~Putting(t)
  /\ pc[t] \in {"c1", "c2", "cb", "ci", "ce"} => "clear" \in Ops

Members(chain, det) ==
  \A x \in Items :
    hitCount[x] > 0 <=>
      \/ /\ \E b \in Buckets : x \in chain[b]
         /\ ~\E t \in Threads : pc[t] = "un" /\ item[t] = x
      \/ \E t \in Threads : pc[t] = "pk" /\ item[t] = x
      \/ \E t \in Threads : x \in det[t]

Placed(chain, det) ==
  /\ Chains(chain) /\ det \in [Threads -> SUBSET Items]
  /\ \A t \in Threads : Detaches(t, chain, det[t]) /\ Guards(t, chain)
  /\ Members(chain, det)

HashInv == \E chain, det : Placed(chain, det)

(* Every bucket has a lock.                                                *)
LEMMA LockTypes == \A b \in Buckets : getLock(b) \in Locks
BY DEF Locks

(* A thread that does not move keeps what it has                           *)
LEMMA OtherKeeps ==
  ASSUME RestTypeOK, NEW u \in Threads, NEW chain, NEW chain2, NEW D \in SUBSET Items,
         Chains(chain), Detaches(u, chain, D), Guards(u, chain),
         pc'[u] = pc[u], call'[u] = call[u], item'[u] = item[u], num'[u] = num[u],
         pc[u] \in {"un", "pk", "pv", "uc", "ud", "ui"} => item[u] \in Items,
         pc[u] = "ci" => num[u] \in Buckets,
         \A x \in Items : key[x] \in Keys => key'[x] = key[x],
         \A x \in D : nextHash'[x] = nextHash[x],
         \A b \in Buckets : lock[getLock(b)] = u => lock'[getLock(b)] = u /\ chain2[b] = chain[b]
  PROVE  Detaches(u, chain2, D)' /\ Guards(u, chain2)'
<1>1. Detaches(u, chain2, D)'
  <2>1. CASE pc[u] = "ci"
    <3>1. Linked(D, item[u], nextHash) /\ lock[getLock(num[u])] = u /\ num[u] \in Buckets
      BY <2>1 DEF Detaches, Held
    <3>2. Linked(D, item[u], nextHash')
      BY <3>1, LinkedFrame
    <3>3. lock'[getLock(num[u])] = u /\ chain2[num[u]] = chain[num[u]]
      BY <3>1
    <3>4. \A x \in D : key'[x] \in Keys /\ Hash[key'[x]] = num[u] /\ x \notin chain2[num[u]]
      BY <2>1, <3>3 DEF Detaches
    <3> QED
      BY <2>1, <3>2, <3>3, <3>4 DEF Detaches, Held
  <2>2. CASE pc[u] # "ci"
    BY <2>2 DEF Detaches
  <2> QED
    BY <2>1, <2>2
<1>2. Guards(u, chain2)'
  <2>0. (Putting(u)' <=> Putting(u)) /\ (Writing(u)' <=> Writing(u))
    BY DEF Putting, Writing
  <2>1. CASE Writing(u)
    <3>1. /\ key[item[u]] \in Keys /\ lock[getLock(Hash[key[item[u]]])] = u
          /\ item[u] \in Items /\ key'[item[u]] = key[item[u]]
          /\ Hash[key[item[u]]] \in Buckets
      BY <2>1 DEF Guards, Held, Writing
    <3>2. /\ lock'[getLock(Hash[key[item[u]]])] = u
          /\ chain2[Hash[key[item[u]]]] = chain[Hash[key[item[u]]]]
      BY <3>1
    <3>3. \A y \in chain[Hash[key[item[u]]]] : key'[y] = key[y]
      BY <3>1 DEF Chains
    <3>4. /\ pc[u] = "un" => item[u] \in chain[Hash[key[item[u]]]]
          /\ pc[u] = "pk" => \A y \in chain[Hash[key[item[u]]]] : key[y] # key[item[u]]
          /\ pc[u] \in {"gs", "gt", "gr"} => ~Putting(u)
          /\ pc[u] \in {"c1", "c2", "cb", "ci", "ce"} => "clear" \in Ops
          /\ pc[u] # "rm"
      BY <2>1 DEF Guards, Writing
    <3> QED
      BY <2>0, <3>1, <3>2, <3>3, <3>4 DEF Guards, Held
  <2>2. CASE ~Writing(u)
    BY <2>0, <2>2 DEF Guards, Writing
  <2> QED
    BY <2>1, <2>2
<1> QED
  BY <1>1, <1>2

(* What other threads have is not touched by a step of t                   *)
Alone(t) ==
  \A u \in Threads \ {t} :
    /\ pc'[u] = pc[u] /\ call'[u] = call[u] /\ item'[u] = item[u] /\ num'[u] = num[u]
    /\ \A b \in Buckets : lock[getLock(b)] = u => lock'[getLock(b)] = u

(* t moves without a change of the table: it neither enters nor leaves the *)
(* middle of a change, and has the lock where it needs it                  *)
LEMMA QuietMove ==
  ASSUME RestTypeOK, LocalsOk, NEW t \in Threads, NEW chain, NEW det, Placed(chain, det),
         UNCHANGED << entries, nextHash, key >>, Alone(t),
         \A x \in Items : hitCount'[x] > 0 <=> hitCount[x] > 0,
         pc[t] \notin {"un", "pk"}, det[t] = {}, pc'[t] \notin {"un", "pk", "ci"},
         Guards(t, chain)'
  PROVE  Placed(chain, det)'
<1>1. Chains(chain)'
  BY DEF Placed, Chains
<1>2. ASSUME NEW u \in Threads PROVE Detaches(u, chain, det[u])' /\ Guards(u, chain)'
  <2>1. CASE u = t
    BY <2>1 DEF Detaches
  <2>2. CASE u # t
    <3>1. /\ pc[u] \in {"un", "pk", "pv", "uc", "ud", "ui"} => item[u] \in Items
          /\ pc[u] = "ci" => num[u] \in Buckets
      BY DEF LocalsOk
    <3>2. /\ Chains(chain) /\ Detaches(u, chain, det[u]) /\ Guards(u, chain)
          /\ det[u] \in SUBSET Items
      BY DEF Placed
    <3>3. /\ pc'[u] = pc[u] /\ call'[u] = call[u] /\ item'[u] = item[u] /\ num'[u] = num[u]
          /\ \A b \in Buckets : lock[getLock(b)] = u => lock'[getLock(b)] = u
      BY <2>2 DEF Alone
    <3> QED
      BY <3>1, <3>2, <3>3, OtherKeeps
  <2> QED
    BY <2>1, <2>2
<1>3. Members(chain, det)'
  <2>1. \A u \in Threads : /\ pc'[u] = "un" <=> pc[u] = "un"
                           /\ pc'[u] = "pk" <=> pc[u] = "pk"
                           /\ pc[u] \in {"un", "pk"} => item'[u] = item[u]
    BY DEF Alone
  <2>2. Members(chain, det)
    BY DEF Placed
  <2> SUFFICES ASSUME NEW x \in Items
               PROVE  hitCount'[x] > 0 <=>
                        \/ /\ \E b \in Buckets : x \in chain[b]
                           /\ ~\E u \in Threads : pc'[u] = "un" /\ item'[u] = x
                        \/ \E u \in Threads : pc'[u] = "pk" /\ item'[u] = x
                        \/ \E u \in Threads : x \in det[u]
    BY DEF Members
  <2>3. (\E u \in Threads : pc'[u] = "un" /\ item'[u] = x)
          <=> (\E u \in Threads : pc[u] = "un" /\ item[u] = x)
    BY <2>1
  <2>4. (\E u \in Threads : pc'[u] = "pk" /\ item'[u] = x)
          <=> (\E u \in Threads : pc[u] = "pk" /\ item[u] = x)
    BY <2>1
  <2> QED
    BY <2>2, <2>3, <2>4 DEF Members
<1> QED
  BY <1>1, <1>2, <1>3 DEF Placed

(* Where an item can be at a time                                          *)
LEMMA Apart ==
  ASSUME RestTypeOK, LocalsOk, NEW chain, NEW det, Placed(chain, det), NEW x \in Items
  PROVE  /\ \A t \in Threads : pc[t] = "pk" /\ item[t] = x
              => (\A b \in Buckets : x \notin chain[b]) /\ (\A u \in Threads : x \notin det[u])
         /\ \A t \in Threads : x \in det[t]
              => (\A b \in Buckets : x \notin chain[b]) /\ (\A u \in Threads : x \in det[u] => u = t)
<1>1. ASSUME NEW t \in Threads, x \in det[t]
      PROVE  /\ pc[t] = "ci" /\ Hash[key[x]] = num[t] /\ num[t] \in Buckets /\ key[x] \in Keys
             /\ lock[getLock(num[t])] = t /\ x \notin chain[num[t]]
  BY <1>1 DEF Placed, Detaches, LocalsOk, Held
<1>2. ASSUME NEW b \in Buckets, x \in chain[b] PROVE key[x] \in Keys /\ Hash[key[x]] = b
  BY <1>2 DEF Placed, Chains
<1>3. ASSUME NEW t \in Threads, pc[t] = "pk", item[t] = x
      PROVE  /\ key[x] \in Keys /\ Hash[key[x]] \in Buckets /\ x \notin chain[Hash[key[x]]]
             /\ lock[getLock(Hash[key[x]])] = t
  BY <1>3 DEF Placed, Guards, Writing, Held
<1> QED
  BY <1>1, <1>2, <1>3

(* t has or takes the lock of the one bucket b it changes: the others keep *)
(* what they have                                                          *)
LEMMA Others ==
  ASSUME RestTypeOK, LocalsOk, NEW t \in Threads, NEW chain, NEW det, Placed(chain, det),
         Alone(t), NEW b \in Buckets, lock[getLock(b)] \in {NULL, t},
         NEW chain2, \A c \in Buckets \ {b} : chain2[c] = chain[c],
         NEW det2, \A u \in Threads \ {t} : det2[u] = det[u],
         \A x \in Items : key[x] \in Keys => key'[x] = key[x],
         \A u \in Threads \ {t} : \A x \in det[u] : nextHash'[x] = nextHash[x]
  PROVE  \A u \in Threads \ {t} : Detaches(u, chain2, det2[u])' /\ Guards(u, chain2)'
<1> SUFFICES ASSUME NEW u \in Threads \ {t}
             PROVE  Detaches(u, chain2, det2[u])' /\ Guards(u, chain2)'
  OBVIOUS
<1>1. /\ pc[u] \in {"un", "pk", "pv", "uc", "ud", "ui"} => item[u] \in Items
      /\ pc[u] = "ci" => num[u] \in Buckets
  BY DEF LocalsOk
<1>2. /\ Chains(chain) /\ Detaches(u, chain, det[u]) /\ Guards(u, chain)
      /\ det[u] \in SUBSET Items
  BY DEF Placed
<1>3. /\ pc'[u] = pc[u] /\ call'[u] = call[u] /\ item'[u] = item[u] /\ num'[u] = num[u]
      /\ \A c \in Buckets : lock[getLock(c)] = u => lock'[getLock(c)] = u /\ chain2[c] = chain[c]
  BY DEF Alone
<1>4. Detaches(u, chain2, det[u])' /\ Guards(u, chain2)'
  BY <1>1, <1>2, <1>3, OtherKeeps
<1>5. PICK D : D = det[u] /\ D = det2[u]
  OBVIOUS
<1> QED
  BY <1>4, <1>5

(* Taking a free lock, and releasing one's own, leaves the others theirs   *)
KeepLocks(t) ==
  \A u \in Threads \ {t} : \A c \in Buckets : lock[getLock(c)] = u => lock'[getLock(c)] = u

(* A lock that is taken was free or its taker's; the other locks stay.     *)
LEMMA Acquired ==
  ASSUME RestTypeOK, NEW t \in Threads, NEW b \in Buckets, Free(b), Acquire(t, b)
  PROVE  KeepLocks(t) /\ lock'[getLock(b)] = t /\ lock[getLock(b)] \in {NULL, t}
BY LockTypes DEF RestTypeOK, Free, Acquire, KeepLocks

(* A lock that is released was its holder's; the other locks stay.         *)
LEMMA Released ==
  ASSUME RestTypeOK, NEW t \in Threads, NEW b \in Buckets, lock[getLock(b)] = t, Release(b)
  PROVE  KeepLocks(t) /\ lock[getLock(b)] \in {NULL, t}
BY LockTypes DEF RestTypeOK, Release, KeepLocks

(* The chains of the model are those of the invariant                      *)
LEMMA ChainIs ==
  ASSUME NEW chain, Chains(chain)
  PROVE  \A b \in Buckets : Chain(b) = chain[b] /\ entries[b] \in Null(chain[b])
                            /\ (entries[b] = NULL => chain[b] = {})
<1> SUFFICES ASSUME NEW b \in Buckets
             PROVE  Chain(b) = chain[b] /\ entries[b] \in Null(chain[b])
                    /\ (entries[b] = NULL => chain[b] = {})
  OBVIOUS
<1>1. chain[b] \in SUBSET Items /\ Linked(chain[b], entries[b], nextHash)
  BY DEF Chains
<1> QED
  BY <1>1, LinkedReach DEF Chain

(* The search of a key finds the item of its bucket with that key, or      *)
(* nothing.                                                                *)
LEMMA FindIs ==
  ASSUME NEW chain, Chains(chain), NEW k \in Keys
  PROVE  /\ Find(k) = NULL => \A y \in chain[Hash[k]] : key[y] # k
         /\ Find(k) # NULL => /\ Find(k) \in Items /\ Find(k) \in chain[Hash[k]]
                              /\ key[Find(k)] = k
<1>1. Hash[k] \in Buckets
  OBVIOUS
<1>2. Matching(k) = {x \in chain[Hash[k]] : key[x] = k}
  BY <1>1, ChainIs DEF Matching
<1>3. chain[Hash[k]] \subseteq Items
  BY <1>1 DEF Chains
<1>4. CASE Matching(k) = {}
  BY <1>2, <1>4 DEF Find
<1>5. CASE Matching(k) # {}
  <2>1. Find(k) \in Matching(k)
    BY <1>5 DEF Find
  <2> QED
    BY <1>2, <1>3, <2>1
<1> QED
  BY <1>4, <1>5

(* remove() found the item: it takes it from its LRU list and is about to  *)
(* unlink it.                                                              *)
LEMMA RemoveMoves ==
  ASSUME RestTypeOK, LruTypeOK, LocalsOk, NEW t \in Threads, NEW chain, NEW det, Placed(chain, det),
         NEW k, k = RemoveKey(t), NEW x, x = Find(k), x # NULL, remove(t)
  PROVE  Placed(chain, det)'
<1>1. k \in Keys
  <2>1. pc[t] = "rm"
    BY DEF remove, At
  <2>2. call[t].op = "remove" => call[t].key \in Keys
    BY CallFields DEF RestTypeOK
  <2>3. call[t].op = "remove" \/ (item[t] \in Items /\ key[item[t]] \in Keys)
    BY <2>1 DEF Placed, Guards
  <2> QED
    BY <2>2, <2>3 DEF RemoveKey
<1>2. /\ x \in Items /\ x \in chain[Hash[k]] /\ key[x] = k /\ Hash[k] \in Buckets
  BY <1>1, FindIs DEF Placed
<1>a. PICK b \in Buckets : b = Hash[k]
  BY <1>2
<1>3. /\ Free(b) /\ Acquire(t, b) /\ removeLruItem(x) /\ Load(t, "un", x)
      /\ UNCHANGED << entries, nextHash, key >> /\ pc[t] = "rm"
  BY <1>a DEF remove, hashVars, At
<1>b. KeepLocks(t) /\ lock'[getLock(b)] = t /\ lock[getLock(b)] \in {NULL, t}
  BY <1>3, Acquired
<1>4. /\ pc'[t] = "un" /\ item'[t] = x /\ hitCount' = [hitCount EXCEPT ![x] = -1]
  BY <1>2, <1>3 DEF Load, Goto, RestTypeOK, removeLruItem
<1>5. Alone(t)
  BY <1>3, <1>b DEF Alone, KeepLocks, Load, Goto, RestTypeOK
<1>6. det[t] = {}
  BY <1>3 DEF Placed, Detaches
<1>7. Chains(chain)'
  BY <1>3 DEF Placed, Chains
<1>8. \A u \in Threads \ {t} : Detaches(u, chain, det[u])' /\ Guards(u, chain)'
  <2>1. \A y \in Items : key[y] \in Keys => key'[y] = key[y]
    BY <1>3
  <2>2. \A u \in Threads \ {t} : \A y \in det[u] : nextHash'[y] = nextHash[y]
    BY <1>3
  <2> QED
    BY <1>5, <1>b, <2>1, <2>2, Others
<1>9. Detaches(t, chain, det[t])' /\ Guards(t, chain)'
  BY <1>1, <1>2, <1>3, <1>4, <1>6, <1>a, <1>b DEF Detaches, Guards, Writing, Held
<1>10. Members(chain, det)'
  <2>1. Members(chain, det)
    BY DEF Placed
  <2>2. \A u \in Threads \ {t} : pc'[u] = pc[u] /\ item'[u] = item[u]
    BY <1>5 DEF Alone
  <2> SUFFICES ASSUME NEW y \in Items
               PROVE  hitCount'[y] > 0 <=>
                        \/ /\ \E c \in Buckets : y \in chain[c]
                           /\ ~\E u \in Threads : pc'[u] = "un" /\ item'[u] = y
                        \/ \E u \in Threads : pc'[u] = "pk" /\ item'[u] = y
                        \/ \E u \in Threads : y \in det[u]
    BY DEF Members
  <2>3. CASE y = x
    <3>1. /\ \A u \in Threads : pc'[u] = "pk" => item'[u] # x
          /\ \A u \in Threads : x \notin det[u]
      BY <1>2, <1>4, <2>2, Apart
    <3>2. ~(hitCount'[x] > 0)
      BY <1>2, <1>4 DEF LruTypeOK
    <3> QED
      BY <1>4, <2>3, <3>1, <3>2
  <2>4. CASE y # x
    <3>1. hitCount'[y] = hitCount[y]
      BY <1>4, <2>4 DEF LruTypeOK
    <3>2. (\E u \in Threads : pc'[u] = "un" /\ item'[u] = y)
            <=> (\E u \in Threads : pc[u] = "un" /\ item[u] = y)
      BY <1>3, <1>4, <2>2, <2>4
    <3>3. (\E u \in Threads : pc'[u] = "pk" /\ item'[u] = y)
            <=> (\E u \in Threads : pc[u] = "pk" /\ item[u] = y)
      BY <1>3, <1>4, <2>2, <2>4
    <3> QED
      BY <2>1, <3>1, <3>2, <3>3 DEF Members
  <2> QED
    BY <2>3, <2>4
<1> QED
  BY <1>7, <1>8, <1>9, <1>10 DEF Placed

(* unlinkHash takes the item of a removal out of its chain.                *)
LEMMA UnlinkMoves ==
  ASSUME RestTypeOK, LruTypeOK, LocalsOk, NEW t \in Threads, NEW chain, NEW det, Placed(chain, det),
         unlinkHash(t)
  PROVE  \E chain2 : /\ chain2 = [chain EXCEPT ![Hash[key[item[t]]]] = @ \ {item[t]}]
                       /\ Placed(chain2, det)'
<1>1. PICK x, k, b : x = item[t] /\ k = key[x] /\ b = Hash[k]
  OBVIOUS
<1>2. /\ pc[t] = "un" /\ x \in Items /\ k \in Keys /\ lock[getLock(b)] = t /\ x \in chain[b]
  BY <1>1 DEF unlinkHash, At, Placed, Guards, Writing, Held, LocalsOk
<1>3. b \in Buckets
  BY <1>1, <1>2
<1>4. /\ entries' = IF entries[b] = x THEN [entries EXCEPT ![b] = nextHash[x]] ELSE entries
      /\ nextHash' = bypass(b, x) /\ Release(b) /\ pc' = [pc EXCEPT ![t] = "re"]
      /\ UNCHANGED << key, hitCount, call, item, num >>
  BY <1>1 DEF unlinkHash, lruVars, Goto
<1>5. KeepLocks(t) /\ lock[getLock(b)] \in {NULL, t}
  BY <1>2, <1>3, <1>4, Released
<1>6. Alone(t)
  BY <1>4, <1>5 DEF Alone, KeepLocks, RestTypeOK
<1>7. PICK chain2 : chain2 = [chain EXCEPT ![b] = chain[b] \ {x}]
  OBVIOUS
<1>8. /\ Chains(chain) /\ chain \in [Buckets -> SUBSET Items]
  BY DEF Placed, Chains
<1>9. /\ chain2[b] = chain[b] \ {x} /\ \A c \in Buckets \ {b} : chain2[c] = chain[c]
      /\ chain2 \in [Buckets -> SUBSET Items]
  BY <1>3, <1>7, <1>8
<1>10. /\ \A y \in Items \ chain[b] : nextHash'[y] = nextHash[y]
       /\ \A y \in chain[b] : nextHash'[y] = IF nextHash[y] = x THEN nextHash[x] ELSE nextHash[y]
  <2>1. Chain(b) = chain[b] /\ chain[b] \subseteq Items
    BY <1>3, <1>8, ChainIs
  <2> QED
    BY <1>4, <2>1 DEF bypass
<1>11. det[t] = {}
  BY <1>2 DEF Placed, Detaches
<1>12. Chains(chain2)'
  <2>1. ASSUME NEW c \in Buckets PROVE Linked(chain2[c], entries'[c], nextHash')
    <3>1. Linked(chain[c], entries[c], nextHash) /\ chain[c] \in SUBSET Items
      BY DEF Placed, Chains
    <3>2. CASE c = b
      <4>1. PICK h, nxt, nxt2 : h = entries[b] /\ nxt = nextHash /\ nxt2 = nextHash'
        OBVIOUS
      <4>2. Linked(chain[b] \ {x}, IF h = x THEN nxt[x] ELSE h, nxt2)
        <5>1. nxt \in [Items -> Null(Items)] /\ Linked(chain[b], h, nxt) /\ chain[b] \in SUBSET Items
          BY <3>1, <3>2, <4>1 DEF RestTypeOK
        <5>2. \A y \in chain[b] : nxt2[y] = IF nxt[y] = x THEN nxt[x] ELSE nxt[y]
          BY <1>10, <4>1
        <5> QED
          BY <1>2, <5>1, <5>2, LinkedBypass
      <4>3. entries'[b] = IF h = x THEN nxt[x] ELSE h
        BY <1>3, <1>4, <4>1 DEF RestTypeOK
      <4> QED
        BY <1>9, <3>2, <4>1, <4>2, <4>3
    <3>3. CASE c # b
      <4>1. \A y \in chain[c] : nextHash'[y] = nextHash[y]
        <5>1. \A y \in chain[c] : y \in Items /\ y \notin chain[b]
          BY <1>3, <3>3 DEF Placed, Chains
        <5> QED
          BY <1>10, <5>1
      <4>2. entries'[c] = entries[c]
        BY <1>4, <3>3 DEF RestTypeOK
      <4>3. Linked(chain[c], entries[c], nextHash')
        BY <3>1, <4>1, LinkedFrame
      <4> QED
        BY <1>9, <3>3, <4>2, <4>3
    <3> QED
      BY <3>2, <3>3
  <2>2. \A c \in Buckets : /\ \A y \in chain2[c] : key'[y] \in Keys /\ Hash[key'[y]] = c
                           /\ \A y, z \in chain2[c] : key'[y] = key'[z] => y = z
    <3>1. \A c \in Buckets : chain2[c] \subseteq chain[c]
      BY <1>9
    <3> QED
      BY <1>4, <3>1 DEF Placed, Chains
  <2> QED
    BY <1>9, <2>1, <2>2 DEF Chains
<1>13. \A u \in Threads \ {t} : Detaches(u, chain2, det[u])' /\ Guards(u, chain2)'
  <2>1. \A y \in Items : key[y] \in Keys => key'[y] = key[y]
    BY <1>4
  <2>2. \A u \in Threads \ {t} : \A y \in det[u] : nextHash'[y] = nextHash[y]
    <3>1. \A u \in Threads : \A y \in det[u] : y \in Items /\ y \notin chain[b]
      BY <1>3, Apart DEF Placed
    <3> QED
      BY <1>10, <3>1
  <2> QED
    BY <1>3, <1>5, <1>6, <1>9, <2>1, <2>2, Others
<1>14. Detaches(t, chain2, det[t])' /\ Guards(t, chain2)'
  <2>1. pc'[t] = "re"
    BY <1>4 DEF RestTypeOK
  <2> QED
    BY <1>11, <2>1 DEF Detaches, Guards, Writing
<1>15. Members(chain2, det)'
  <2>1. Members(chain, det)
    BY DEF Placed
  <2>2. \A u \in Threads \ {t} : pc'[u] = pc[u] /\ item'[u] = item[u]
    BY <1>6 DEF Alone
  <2>3. pc'[t] = "re"
    BY <1>4 DEF RestTypeOK
  <2> SUFFICES ASSUME NEW y \in Items
               PROVE  hitCount'[y] > 0 <=>
                        \/ /\ \E c \in Buckets : y \in chain2[c]
                           /\ ~\E u \in Threads : pc'[u] = "un" /\ item'[u] = y
                        \/ \E u \in Threads : pc'[u] = "pk" /\ item'[u] = y
                        \/ \E u \in Threads : y \in det[u]
    BY DEF Members
  <2>4. (\E u \in Threads : pc'[u] = "pk" /\ item'[u] = y)
            <=> (\E u \in Threads : pc[u] = "pk" /\ item[u] = y)
    BY <1>2, <2>2, <2>3
  <2>5. CASE y = x
    <3>1. /\ \A u \in Threads : pc[u] = "pk" => item[u] # x
          /\ \A u \in Threads : x \notin det[u]
      BY <1>2, <1>3, Apart
    <3>2. ~(hitCount[x] > 0)
      BY <1>1, <1>2, <2>1, <3>1 DEF Members
    <3>3. \A c \in Buckets : x \notin chain2[c]
      BY <1>1, <1>3, <1>9 DEF Placed, Chains
    <3> QED
      BY <1>4, <2>4, <2>5, <3>1, <3>2, <3>3
  <2>6. CASE y # x
    <3>1. (\E c \in Buckets : y \in chain2[c]) <=> (\E c \in Buckets : y \in chain[c])
      BY <1>3, <1>9, <2>6
    <3>2. (\E u \in Threads : pc'[u] = "un" /\ item'[u] = y)
            <=> (\E u \in Threads : pc[u] = "un" /\ item[u] = y)
      BY <1>1, <1>2, <2>2, <2>3, <2>6
    <3> QED
      BY <1>4, <2>1, <2>4, <3>1, <3>2 DEF Members
  <2> QED
    BY <2>5, <2>6
<1> QED
  BY <1>1, <1>7, <1>12, <1>13, <1>14, <1>15 DEF Placed

(* A put that found nothing has made a new item                            *)
LEMMA InsertMoves ==
  ASSUME RestTypeOK, LruTypeOK, LocalsOk, NEW t \in Threads, NEW chain, NEW det, Placed(chain, det),
         compareAndPut(t), Find(call[t].key) = NULL, pc'[t] = "pk"
  PROVE  Placed(chain, det)'
<1>1. PICK k, b, x : k = call[t].key /\ b = Hash[k] /\ x = NewItem
  OBVIOUS
<1>2. pc[t] = "pl" /\ k \in Keys
  BY <1>1, CallFields DEF compareAndPut, At, LocalsOk, Putting, RestTypeOK
<1>3. b \in Buckets
  BY <1>1, <1>2
<1>4. /\ Free(b) /\ Acquire(t, b) /\ Fresh # {} /\ Load(t, "pk", x) /\ linkNewItem(x)
      /\ key' = [key EXCEPT ![x] = k] /\ UNCHANGED << entries, nextHash >>
  BY <1>1 DEF compareAndPut, Return, Goto, RestTypeOK
<1>5. x \in Items /\ key[x] = NULL
  BY <1>1, <1>4, NewItemType DEF Fresh
<1>6. /\ pc'[t] = "pk" /\ item'[t] = x /\ hitCount' = [hitCount EXCEPT ![x] = 1]
      /\ key'[x] = k /\ \A y \in Items \ {x} : key'[y] = key[y]
  BY <1>4, <1>5 DEF Load, Goto, RestTypeOK, linkNewItem
<1>7. KeepLocks(t) /\ lock'[getLock(b)] = t /\ lock[getLock(b)] \in {NULL, t}
  BY <1>3, <1>4, Acquired
<1>8. Alone(t)
  BY <1>4, <1>7 DEF Alone, KeepLocks, Load, Goto, RestTypeOK
<1>9. \A y \in Items : key[y] \in Keys => key'[y] = key[y]
  BY <1>5, <1>6
<1>10. det[t] = {}
  BY <1>2 DEF Placed, Detaches
<1>11. \A c \in Buckets : chain[c] \subseteq Items /\ \A y \in chain[c] : key[y] \in Keys
  BY DEF Placed, Chains
<1>12. Chains(chain)'
  <2>1. \A c \in Buckets : /\ \A y \in chain[c] : key'[y] \in Keys /\ Hash[key'[y]] = c
                           /\ \A y, z \in chain[c] : key'[y] = key'[z] => y = z
    BY <1>9, <1>11 DEF Placed, Chains
  <2> QED
    BY <1>4, <2>1 DEF Placed, Chains
<1>13. \A u \in Threads \ {t} : Detaches(u, chain, det[u])' /\ Guards(u, chain)'
  <2>1. \A u \in Threads \ {t} : \A y \in det[u] : nextHash'[y] = nextHash[y]
    BY <1>4
  <2> QED
    BY <1>3, <1>7, <1>8, <1>9, <2>1, Others
<1>14. Detaches(t, chain, det[t])' /\ Guards(t, chain)'
  <2>1. \A y \in chain[b] : key'[y] # k
    BY <1>1, <1>2, <1>3, <1>9, <1>11, FindIs DEF Placed
  <2> QED
    BY <1>1, <1>2, <1>6, <1>7, <1>10, <2>1 DEF Detaches, Guards, Writing, Held
<1>15. Members(chain, det)'
  <2>1. Members(chain, det)
    BY DEF Placed
  <2>2. \A u \in Threads \ {t} : pc'[u] = pc[u] /\ item'[u] = item[u]
    BY <1>8 DEF Alone
  <2> SUFFICES ASSUME NEW y \in Items
               PROVE  hitCount'[y] > 0 <=>
                        \/ /\ \E c \in Buckets : y \in chain[c]
                           /\ ~\E u \in Threads : pc'[u] = "un" /\ item'[u] = y
                        \/ \E u \in Threads : pc'[u] = "pk" /\ item'[u] = y
                        \/ \E u \in Threads : y \in det[u]
    BY DEF Members
  <2>3. CASE y = x
    BY <1>6, <2>3 DEF LruTypeOK
  <2>4. CASE y # x
    <3>1. hitCount'[y] = hitCount[y]
      BY <1>6, <2>4 DEF LruTypeOK
    <3>2. (\E u \in Threads : pc'[u] = "un" /\ item'[u] = y)
            <=> (\E u \in Threads : pc[u] = "un" /\ item[u] = y)
      BY <1>2, <1>6, <2>2
    <3>3. (\E u \in Threads : pc'[u] = "pk" /\ item'[u] = y)
            <=> (\E u \in Threads : pc[u] = "pk" /\ item[u] = y)
      BY <1>2, <1>6, <2>2, <2>4
    <3> QED
      BY <2>1, <3>1, <3>2, <3>3 DEF Members
  <2> QED
    BY <2>3, <2>4
<1> QED
  BY <1>12, <1>13, <1>14, <1>15 DEF Placed

(* ... and links it in front of its chain                                  *)
LEMMA LinkMoves ==
  ASSUME RestTypeOK, LruTypeOK, LocalsOk, NEW t \in Threads, NEW chain, NEW det, Placed(chain, det),
         linkHash(t)
  PROVE  \E chain2 : /\ chain2 = [chain EXCEPT ![Hash[key[item[t]]]] = @ \cup {item[t]}]
                       /\ Placed(chain2, det)'
<1>1. PICK x, k, b : x = item[t] /\ k = key[x] /\ b = Hash[k]
  OBVIOUS
<1>2. /\ pc[t] = "pk" /\ x \in Items /\ k \in Keys /\ lock[getLock(b)] = t
      /\ \A y \in chain[b] : key[y] # k
  BY <1>1 DEF linkHash, At, Placed, Guards, Writing, Held, LocalsOk
<1>3. b \in Buckets
  BY <1>1, <1>2
<1>4. /\ entries' = [entries EXCEPT ![b] = x] /\ nextHash' = [nextHash EXCEPT ![x] = entries[b]]
      /\ Release(b) /\ Return(t) /\ UNCHANGED << key, hitCount >>
  BY <1>1 DEF linkHash, lruVars
<1>5. KeepLocks(t) /\ lock[getLock(b)] \in {NULL, t}
  BY <1>2, <1>3, <1>4, Released
<1>6. Alone(t) /\ pc'[t] = "idle"
  BY <1>4, <1>5 DEF Alone, KeepLocks, RestTypeOK, Return, Goto
<1>7. PICK chain2 : chain2 = [chain EXCEPT ![b] = chain[b] \cup {x}]
  OBVIOUS
<1>8. /\ Chains(chain) /\ chain \in [Buckets -> SUBSET Items]
  BY DEF Placed, Chains
<1>9. /\ chain2[b] = chain[b] \cup {x} /\ \A c \in Buckets \ {b} : chain2[c] = chain[c]
      /\ chain2 \in [Buckets -> SUBSET Items]
  BY <1>2, <1>3, <1>7, <1>8
<1>10. (\A c \in Buckets : x \notin chain[c]) /\ (\A u \in Threads : x \notin det[u])
  BY <1>1, <1>2, Apart
<1>11. \A y \in Items \ {x} : nextHash'[y] = nextHash[y]
  BY <1>4 DEF RestTypeOK
<1>12. det[t] = {}
  BY <1>2 DEF Placed, Detaches
<1>13. Chains(chain2)'
  <2>1. ASSUME NEW c \in Buckets PROVE Linked(chain2[c], entries'[c], nextHash')
    <3>1. Linked(chain[c], entries[c], nextHash) /\ chain[c] \in SUBSET Items
      BY DEF Placed, Chains
    <3>2. CASE c = b
      <4>1. PICK h, nxt : h = entries[b] /\ nxt = nextHash
        OBVIOUS
      <4>2. Linked(chain[b] \cup {x}, x, [nxt EXCEPT ![x] = h])
        <5>1. nxt \in [Items -> Null(Items)] /\ Linked(chain[b], h, nxt)
              /\ chain[b] \in SUBSET Items /\ x \in Items \ chain[b]
          BY <1>2, <1>3, <1>10, <3>1, <3>2, <4>1 DEF RestTypeOK
        <5> QED
          BY <5>1, LinkedPush
      <4>3. entries'[b] = x
        BY <1>3, <1>4 DEF RestTypeOK
      <4> QED
        BY <1>4, <1>9, <3>2, <4>1, <4>2, <4>3
    <3>3. CASE c # b
      <4>1. \A y \in chain[c] : nextHash'[y] = nextHash[y]
        BY <1>10, <1>11, <3>1
      <4>2. entries'[c] = entries[c]
        BY <1>4, <3>3 DEF RestTypeOK
      <4>3. Linked(chain[c], entries[c], nextHash')
        BY <3>1, <4>1, LinkedFrame
      <4> QED
        BY <1>9, <3>3, <4>2, <4>3
    <3> QED
      BY <3>2, <3>3
  <2>2. ASSUME NEW c \in Buckets
        PROVE  /\ \A y \in chain2[c] : key[y] \in Keys /\ Hash[key[y]] = c
               /\ \A y, z \in chain2[c] : key[y] = key[z] => y = z
    <3>1. /\ \A y \in chain[c] : key[y] \in Keys /\ Hash[key[y]] = c
          /\ \A y, z \in chain[c] : key[y] = key[z] => y = z
      BY DEF Placed, Chains
    <3>2. CASE c = b
      BY <1>1, <1>2, <1>9, <3>1, <3>2
    <3>3. CASE c # b
      BY <1>9, <3>1, <3>3
    <3> QED
      BY <3>2, <3>3
  <2> QED
    BY <1>4, <1>9, <2>1, <2>2 DEF Chains
<1>14. \A u \in Threads \ {t} : Detaches(u, chain2, det[u])' /\ Guards(u, chain2)'
  <2>1. \A y \in Items : key[y] \in Keys => key'[y] = key[y]
    BY <1>4
  <2>2. \A u \in Threads \ {t} : \A y \in det[u] : nextHash'[y] = nextHash[y]
    <3>1. \A u \in Threads : \A y \in det[u] : y \in Items
      BY DEF Placed
    <3> QED
      BY <1>10, <1>11, <3>1
  <2> QED
    BY <1>3, <1>5, <1>6, <1>9, <2>1, <2>2, Others
<1>15. Detaches(t, chain2, det[t])' /\ Guards(t, chain2)'
  BY <1>6, <1>12 DEF Detaches, Guards, Writing
<1>16. Members(chain2, det)'
  <2>1. Members(chain, det)
    BY DEF Placed
  <2>2. \A u \in Threads \ {t} : pc'[u] = pc[u] /\ item'[u] = item[u]
    BY <1>6 DEF Alone
  <2> SUFFICES ASSUME NEW y \in Items
               PROVE  hitCount'[y] > 0 <=>
                        \/ /\ \E c \in Buckets : y \in chain2[c]
                           /\ ~\E u \in Threads : pc'[u] = "un" /\ item'[u] = y
                        \/ \E u \in Threads : pc'[u] = "pk" /\ item'[u] = y
                        \/ \E u \in Threads : y \in det[u]
    BY DEF Members
  <2>3. (\E u \in Threads : pc'[u] = "un" /\ item'[u] = y)
            <=> (\E u \in Threads : pc[u] = "un" /\ item[u] = y)
    BY <1>2, <1>6, <2>2
  <2>4. CASE y = x
    <3>1. hitCount[x] > 0
      BY <1>1, <1>2, <2>1 DEF Members
    <3>2. ~\E u \in Threads : pc[u] = "un" /\ item[u] = x
      <4> SUFFICES ASSUME NEW u \in Threads, pc[u] = "un", item[u] = x PROVE FALSE
        OBVIOUS
      <4> QED
        BY <1>1, <1>3, <1>10 DEF Placed, Guards
    <3> QED
      BY <1>3, <1>4, <1>9, <2>3, <2>4, <3>1, <3>2
  <2>5. CASE y # x
    <3>1. (\E c \in Buckets : y \in chain2[c]) <=> (\E c \in Buckets : y \in chain[c])
      BY <1>3, <1>9, <2>5
    <3>2. (\E u \in Threads : pc'[u] = "pk" /\ item'[u] = y)
            <=> (\E u \in Threads : pc[u] = "pk" /\ item[u] = y)
      BY <1>1, <1>2, <1>6, <2>2, <2>5
    <3> QED
      BY <1>4, <2>1, <2>3, <3>1, <3>2 DEF Members
  <2> QED
    BY <2>4, <2>5
<1> QED
  BY <1>1, <1>7, <1>13, <1>14, <1>15, <1>16 DEF Placed

(* clear() takes the whole chain of a bucket ...                           *)
LEMMA DetachMoves ==
  ASSUME RestTypeOK, LruTypeOK, LocalsOk, NEW t \in Threads, NEW chain, NEW det, Placed(chain, det),
         clearBucket(t)
  PROVE  \E chain2, det2 : /\ chain2 = [chain EXCEPT ![num[t]] = {}]
                             /\ Placed(chain2, det2)'
<1>1. PICK b : b = num[t]
  OBVIOUS
<1>2. pc[t] = "cb" /\ b \in Buckets
  BY <1>1 DEF clearBucket, At, LocalsOk
<1>3. /\ Free(b) /\ Acquire(t, b) /\ Load(t, "ci", entries[b])
      /\ entries' = [entries EXCEPT ![b] = NULL] /\ UNCHANGED << nextHash, key, hitCount >>
  BY <1>1 DEF clearBucket, lruVars
<1>4. KeepLocks(t) /\ lock'[getLock(b)] = t /\ lock[getLock(b)] \in {NULL, t}
  BY <1>2, <1>3, Acquired
<1>5. Alone(t) /\ pc'[t] = "ci" /\ item'[t] = entries[b] /\ num'[t] = b
  BY <1>1, <1>3, <1>4 DEF Alone, KeepLocks, RestTypeOK, Load, Goto
<1>6. PICK chain2, det2 : /\ chain2 = [chain EXCEPT ![b] = {}]
                          /\ det2 = [det EXCEPT ![t] = chain[b]]
  OBVIOUS
<1>7. /\ Chains(chain) /\ chain \in [Buckets -> SUBSET Items] /\ det \in [Threads -> SUBSET Items]
  BY DEF Placed, Chains
<1>8. /\ chain2[b] = {} /\ \A c \in Buckets \ {b} : chain2[c] = chain[c]
      /\ chain2 \in [Buckets -> SUBSET Items]
      /\ det2[t] = chain[b] /\ \A u \in Threads \ {t} : det2[u] = det[u]
      /\ det2 \in [Threads -> SUBSET Items]
  BY <1>2, <1>6, <1>7
<1>9. det[t] = {}
  BY <1>2 DEF Placed, Detaches
<1>10. Chains(chain2)'
  <2>1. ASSUME NEW c \in Buckets PROVE Linked(chain2[c], entries'[c], nextHash')
    <3>1. CASE c = b
      <4>1. entries'[b] = NULL
        BY <1>2, <1>3 DEF RestTypeOK
      <4> QED
        BY <1>8, <3>1, <4>1, LinkedEmpty
    <3>2. CASE c # b
      BY <1>3, <1>8, <3>2 DEF Placed, Chains, RestTypeOK
    <3> QED
      BY <3>1, <3>2
  <2>2. \A c \in Buckets : /\ \A y \in chain2[c] : key'[y] \in Keys /\ Hash[key'[y]] = c
                           /\ \A y, z \in chain2[c] : key'[y] = key'[z] => y = z
    <3>1. \A c \in Buckets : chain2[c] \subseteq chain[c]
      BY <1>8
    <3> QED
      BY <1>3, <3>1 DEF Placed, Chains
  <2> QED
    BY <1>8, <2>1, <2>2 DEF Chains
<1>11. \A u \in Threads \ {t} : Detaches(u, chain2, det2[u])' /\ Guards(u, chain2)'
  <2>1. \A y \in Items : key[y] \in Keys => key'[y] = key[y]
    BY <1>3
  <2>2. \A u \in Threads \ {t} : \A y \in det[u] : nextHash'[y] = nextHash[y]
    BY <1>3
  <2> QED
    BY <1>2, <1>4, <1>5, <1>8, <2>1, <2>2, Others
<1>12. Detaches(t, chain2, det2[t])' /\ Guards(t, chain2)'
  <2>1. Linked(chain[b], entries[b], nextHash)
    BY <1>2 DEF Placed, Chains
  <2>2. \A x \in chain[b] : key[x] \in Keys /\ Hash[key[x]] = b
    BY <1>2 DEF Placed, Chains
  <2>3. "clear" \in Ops
    BY <1>2 DEF Placed, Guards
  <2> QED
    BY <1>3, <1>4, <1>5, <1>8, <2>1, <2>2, <2>3 DEF Detaches, Guards, Writing, Held
<1>13. Members(chain2, det2)'
  <2>1. Members(chain, det)
    BY DEF Placed
  <2>2. \A u \in Threads \ {t} : pc'[u] = pc[u] /\ item'[u] = item[u]
    BY <1>5 DEF Alone
  <2> SUFFICES ASSUME NEW y \in Items
               PROVE  hitCount[y] > 0 <=>
                        \/ /\ \E c \in Buckets : y \in chain2[c]
                           /\ ~\E u \in Threads : pc'[u] = "un" /\ item'[u] = y
                        \/ \E u \in Threads : pc'[u] = "pk" /\ item'[u] = y
                        \/ \E u \in Threads : y \in det2[u]
    BY <1>3 DEF Members
  <2>3. (\E u \in Threads : pc'[u] = "un" /\ item'[u] = y)
            <=> (\E u \in Threads : pc[u] = "un" /\ item[u] = y)
    BY <1>2, <1>5, <2>2
  <2>4. (\E u \in Threads : pc'[u] = "pk" /\ item'[u] = y)
            <=> (\E u \in Threads : pc[u] = "pk" /\ item[u] = y)
    BY <1>2, <1>5, <2>2
  <2>5. CASE y \in chain[b]
    <3>1. ~\E u \in Threads : pc[u] = "un" /\ item[u] = y
      <4> SUFFICES ASSUME NEW u \in Threads, pc[u] = "un", item[u] = y PROVE FALSE
        OBVIOUS
      <4>1. lock[getLock(Hash[key[y]])] = u /\ Hash[key[y]] = b
        BY <1>2, <2>5 DEF Placed, Guards, Writing, Held, Chains
      <4> QED
        BY <1>2, <1>4, <4>1
    <3>2. hitCount[y] > 0
      BY <1>2, <2>1, <2>5, <3>1 DEF Members
    <3> QED
      BY <1>8, <2>5, <3>2
  <2>6. CASE y \notin chain[b]
    <3>1. (\E c \in Buckets : y \in chain2[c]) <=> (\E c \in Buckets : y \in chain[c])
      BY <1>2, <1>8, <2>6
    <3>2. (\E u \in Threads : y \in det2[u]) <=> (\E u \in Threads : y \in det[u])
      BY <1>8, <1>9, <2>6
    <3> QED
      BY <2>1, <2>3, <2>4, <3>1, <3>2 DEF Members
  <2> QED
    BY <2>5, <2>6
<1>14. Placed(chain2, det2)'
  BY <1>8, <1>10, <1>11, <1>12, <1>13 DEF Placed
<1> QED
  BY <1>1, <1>6, <1>14

(* ... and removes its items from their lists, one after the other         *)
LEMMA ClearMoves ==
  ASSUME RestTypeOK, LruTypeOK, LocalsOk, NEW t \in Threads, NEW chain, NEW det, Placed(chain, det),
         clearItem(t), EnableListeners, item[t] # NULL
  PROVE  \E det2 : Placed(chain, det2)'
<1>1. PICK x, b : x = item[t] /\ b = num[t]
  OBVIOUS
<1>2. /\ pc[t] = "ci" /\ b \in Buckets /\ lock[getLock(b)] = t
      /\ Linked(det[t], x, nextHash) /\ det[t] \in SUBSET Items
      /\ \A y \in det[t] : key[y] \in Keys /\ Hash[key[y]] = b /\ y \notin chain[b]
  BY <1>1 DEF clearItem, At, LocalsOk, Placed, Detaches, Held
<1>3. /\ removeLruItem(x) /\ Load(t, "ci", nextHash[x])
      /\ UNCHANGED << entries, nextHash, key, lock >>
  BY <1>1 DEF clearItem, hashVars
<1>4. x \in det[t] /\ Linked(det[t] \ {x}, nextHash[x], nextHash)
  <2>1. PICK nxt : nxt = nextHash
    OBVIOUS
  <2>2. nxt \in [Items -> Null(Items)] /\ Linked(det[t], x, nxt) /\ x # NULL
    BY <1>1, <1>2, <2>1 DEF RestTypeOK
  <2>3. x \in det[t] /\ Linked(det[t] \ {x}, nxt[x], nxt)
    BY <1>2, <2>2, LinkedRest
  <2> QED
    BY <2>1, <2>3
<1>5. /\ Alone(t) /\ pc'[t] = "ci" /\ item'[t] = nextHash[x] /\ num'[t] = b
      /\ hitCount' = [hitCount EXCEPT ![x] = -1]
  BY <1>1, <1>3 DEF Alone, RestTypeOK, Load, Goto, removeLruItem
<1>6. PICK det2 : det2 = [det EXCEPT ![t] = det[t] \ {x}]
  OBVIOUS
<1>7. /\ det2[t] = det[t] \ {x} /\ \A u \in Threads \ {t} : det2[u] = det[u]
      /\ det2 \in [Threads -> SUBSET Items]
  BY <1>6 DEF Placed
<1>8. Chains(chain)'
  BY <1>3 DEF Placed, Chains
<1>9. \A u \in Threads \ {t} : Detaches(u, chain, det2[u])' /\ Guards(u, chain)'
  <2>1. \A y \in Items : key[y] \in Keys => key'[y] = key[y]
    BY <1>3
  <2>2. \A u \in Threads \ {t} : \A y \in det[u] : nextHash'[y] = nextHash[y]
    BY <1>3
  <2> QED
    BY <1>2, <1>5, <1>7, <2>1, <2>2, Others
<1>10. Detaches(t, chain, det2[t])' /\ Guards(t, chain)'
  <2>1. "clear" \in Ops
    BY <1>2 DEF Placed, Guards
  <2> QED
    BY <1>2, <1>3, <1>4, <1>5, <1>7, <2>1 DEF Detaches, Guards, Writing, Held
<1>11. Members(chain, det2)'
  <2>1. Members(chain, det)
    BY DEF Placed
  <2>2. \A u \in Threads \ {t} : pc'[u] = pc[u] /\ item'[u] = item[u]
    BY <1>5 DEF Alone
  <2> SUFFICES ASSUME NEW y \in Items
               PROVE  hitCount'[y] > 0 <=>
                        \/ /\ \E c \in Buckets : y \in chain[c]
                           /\ ~\E u \in Threads : pc'[u] = "un" /\ item'[u] = y
                        \/ \E u \in Threads : pc'[u] = "pk" /\ item'[u] = y
                        \/ \E u \in Threads : y \in det2[u]
    BY DEF Members
  <2>3. (\E u \in Threads : pc'[u] = "un" /\ item'[u] = y)
            <=> (\E u \in Threads : pc[u] = "un" /\ item[u] = y)
    BY <1>2, <1>5, <2>2
  <2>4. (\E u \in Threads : pc'[u] = "pk" /\ item'[u] = y)
            <=> (\E u \in Threads : pc[u] = "pk" /\ item[u] = y)
    BY <1>2, <1>5, <2>2
  <2>5. CASE y = x
    <3>1. /\ \A c \in Buckets : x \notin chain[c]
          /\ \A u \in Threads : x \in det[u] => u = t
          /\ \A u \in Threads : pc[u] = "pk" => item[u] # x
      BY <1>2, <1>4, Apart
    <3>2. \A u \in Threads : x \notin det2[u]
      BY <1>7, <3>1
    <3>3. ~(hitCount'[x] > 0)
      BY <1>2, <1>4, <1>5 DEF LruTypeOK
    <3> QED
      BY <2>4, <2>5, <3>1, <3>2, <3>3
  <2>6. CASE y # x
    <3>1. hitCount'[y] = hitCount[y]
      BY <1>5, <2>6 DEF LruTypeOK
    <3>2. (\E u \in Threads : y \in det2[u]) <=> (\E u \in Threads : y \in det[u])
      BY <1>7, <2>6
    <3> QED
      BY <2>1, <2>3, <2>4, <3>1, <3>2 DEF Members
  <2> QED
    BY <2>5, <2>6
<1> QED
  BY <1>7, <1>8, <1>9, <1>10, <1>11 DEF Placed

-----------------------------------------------------------------------------
(* At these places a thread has nothing to guard                           *)
Harmless == {"idle", "rl1", "rl2", "cas", "lp1", "lp2", "tl0", "tl1", "tl2", "tl3",
             "lt1", "lt2", "lt3", "re", "pl", "pe"}

(* At a harmless place nothing is guarded.                                 *)
LEMMA HarmlessGuards ==
  ASSUME NEW t, NEW chain, pc'[t] \in Harmless
  PROVE  Guards(t, chain)'
BY DEF Harmless, Guards, Writing

(* Jump, Load, Count and Return move only the thread they are about.       *)
LEMMA MovesAlone ==
  ASSUME RestTypeOK, NEW t \in Threads, KeepLocks(t) \/ UNCHANGED lock,
         \/ \E l : Jump(t, l)
         \/ \E l, x : Load(t, l, x)
         \/ \E l, n : Count(t, l, n)
         \/ Return(t)
  PROVE  Alone(t)
BY DEF Alone, KeepLocks, Jump, Load, Count, Return, Goto, RestTypeOK

(* A thread that returns goes to a harmless place.                         *)
LEMMA ReturnHarmless ==
  ASSUME RestTypeOK, NEW t \in Threads, Return(t)
  PROVE  pc'[t] \in Harmless
BY DEF Return, Goto, RestTypeOK, Harmless

(* Nothing of the table changes, nor whether an item is in a list          *)
Quiet ==
  /\ UNCHANGED << entries, nextHash, key, lock >>
  /\ \A x \in Items : hitCount'[x] > 0 <=> hitCount[x] > 0

(* A step that leaves table, lists and locks alone is quiet.               *)
LEMMA QuietIs == ASSUME UNCHANGED << hashVars, lruVars, lock >> PROVE Quiet
BY DEF Quiet, hashVars, lruVars

(* A quiet step to a harmless place keeps the table where it is.           *)
LEMMA QuietStep ==
  ASSUME RestTypeOK, LocalsOk, NEW t \in Threads, NEW chain, NEW det, Placed(chain, det),
         Quiet, Alone(t), pc[t] \notin {"un", "pk", "ci"}, pc'[t] \notin {"un", "pk", "ci"},
         Guards(t, chain)'
  PROVE  Placed(chain, det)'
<1>1. det[t] = {}
  BY DEF Placed, Detaches
<1> QED
  BY <1>1, QuietMove DEF Quiet

(* The same for a step that changes neither table, lists nor locks.        *)
LEMMA EasyStep ==
  ASSUME RestTypeOK, LocalsOk, NEW t \in Threads, NEW chain, NEW det, Placed(chain, det),
         Quiet, Alone(t), pc[t] \notin {"un", "pk", "ci"}, pc'[t] \in Harmless
  PROVE  Placed(chain, det)'
BY HarmlessGuards, QuietStep DEF Harmless

(* The first step of an operation.                                         *)
LEMMA StartMoves ==
  ASSUME RestTypeOK, LocalsOk, NEW t \in Threads, NEW chain, NEW det, Placed(chain, det), Start(t)
  PROVE  Placed(chain, det)'
<1>1. PICK c \in Calls : c.op \in Ops /\ call' = [call EXCEPT ![t] = c] /\ Goto(t, Entry(c.op))
  BY DEF Start
<1>2. /\ pc[t] = "idle" /\ Quiet /\ UNCHANGED << item, num >>
  BY QuietIs DEF Start, At
<1>3. Alone(t) /\ call'[t] = c /\ pc'[t] = Entry(c.op)
  BY <1>1, <1>2 DEF Alone, Quiet, Goto, RestTypeOK
<1>4. c.op \in AllOps
  BY <1>1
<1>5. /\ pc'[t] \in {"gs", "rl1", "rm", "c1", "tl0", "lt1"}
      /\ pc'[t] = "gs" => c.op = "get"
      /\ pc'[t] = "rm" => c.op = "remove"
      /\ pc'[t] = "c1" => c.op = "clear"
  BY <1>3, <1>4 DEF Entry, AllOps
<1>6. Guards(t, chain)'
  BY <1>1, <1>3, <1>5 DEF Guards, Writing, Putting
<1> QED
  BY <1>2, <1>3, <1>5, <1>6, QuietStep

(* The steps of removeLru that only read sizes and take its flag.          *)
LEMMA EvictMoves ==
  ASSUME RestTypeOK, LocalsOk, NEW t \in Threads, NEW chain, NEW det, Placed(chain, det),
         readSize1(t) \/ removeLru(t) \/ compareAndSet(t) \/ removeLruLoop(t)
  PROVE  Placed(chain, det)'
<1>1. Quiet /\ pc[t] \in {"rl1", "rl2", "cas", "lp1", "lp2"}
  BY QuietIs DEF readSize1, removeLru, compareAndSet, removeLruLoop, At
<1>2. (\E l : Jump(t, l) /\ l \in Harmless) \/ (\E l, n : Count(t, l, n) /\ l \in Harmless)
  BY DEF readSize1, removeLru, compareAndSet, removeLruLoop, EndOfLoop, Harmless
<1>3. Alone(t)
  BY <1>1, <1>2, MovesAlone DEF Quiet
<1>4. pc'[t] \in Harmless
  BY <1>2 DEF Jump, Count, Goto, RestTypeOK
<1> QED
  BY <1>1, <1>3, <1>4, EasyStep

(* The tail that removeTail or removeLongestTail reads is an item with a   *)
(* key                                                                     *)
LEMMA TailHasKey ==
  ASSUME RestTypeOK, LruTypeOK, LruInv, NEW x \in {tail1, tail2}, x # NULL
  PROVE  x \in Items /\ key[x] \in Keys
<1>1. List1 \in SUBSET Items /\ List2 \in SUBSET Items
  BY DEF List1, List2
<1>2. tail1 \in Null(List1) /\ tail2 \in Null(List2)
  BY <1>1, Neighbours DEF LruInv, ListsInv
<1>3. x \in Items /\ hitCount[x] > 0
  BY <1>2 DEF Null, List1, List2, LruTypeOK
<1> QED
  BY <1>3 DEF LruInv, FreshInv, RestTypeOK, LruTypeOK, Null

(* removeTail and removeLongestTail choose an item and leave it where it   *)
(* is.                                                                     *)
LEMMA TailMoves ==
  ASSUME RestTypeOK, LruTypeOK, LruInv, LocalsOk, NEW t \in Threads, NEW chain, NEW det,
         Placed(chain, det), removeTail(t) \/ removeLongestTail(t)
  PROVE  Placed(chain, det)'
<1>1. Quiet /\ pc[t] \in {"tl0", "tl1", "tl2", "tl3", "lt1", "lt2", "lt3"}
  BY QuietIs DEF removeTail, removeLongestTail, At
<1>2. \/ \E l : Jump(t, l) /\ l \in Harmless
      \/ \E l, n : Count(t, l, n) /\ l \in Harmless
      \/ Return(t)
      \/ \E x \in {tail1, tail2} : x # NULL /\ Load(t, "rm", x)
  <2>1. CASE removeTail(t)
    BY <2>1 DEF removeTail, EndOfLoop, Harmless
  <2>2. CASE removeLongestTail(t)
    BY <2>2 DEF removeLongestTail, Harmless
  <2> QED
    BY <2>1, <2>2
<1>3. Alone(t)
  BY <1>1, <1>2, MovesAlone DEF Quiet
<1>4. CASE ~\E x \in {tail1, tail2} : x # NULL /\ Load(t, "rm", x)
  <2>1. pc'[t] \in Harmless
    BY <1>2, <1>4, ReturnHarmless DEF Jump, Count, Goto, RestTypeOK
  <2> QED
    BY <1>1, <1>3, <2>1, EasyStep
<1>5. CASE \E x \in {tail1, tail2} : x # NULL /\ Load(t, "rm", x)
  <2>1. PICK x : x \in {tail1, tail2} /\ x # NULL /\ Load(t, "rm", x)
    BY <1>5
  <2>2. x \in Items /\ key[x] \in Keys
    BY <2>1, TailHasKey
  <2>3. pc'[t] = "rm" /\ item'[t] = x /\ key' = key
    BY <1>1, <2>1 DEF Load, Goto, RestTypeOK, Quiet
  <2>4. Guards(t, chain)'
    BY <2>2, <2>3 DEF Guards, Writing
  <2> QED
    BY <1>1, <1>3, <2>3, <2>4, QuietStep
<1> QED
  BY <1>4, <1>5

(* The end of a removal is harmless.                                       *)
LEMMA AfterRemoveMoves ==
  ASSUME RestTypeOK, NEW t \in Threads, AfterRemove(t), UNCHANGED lock
  PROVE  Alone(t) /\ pc'[t] \in Harmless
BY DEF AfterRemove, Alone, Return, Goto, RestTypeOK, Harmless

(* A removal that found nothing, and the listeners of one that did.        *)
LEMMA RemoveNothing ==
  ASSUME RestTypeOK, LocalsOk, NEW t \in Threads, NEW chain, NEW det, Placed(chain, det),
         \/ remove(t) /\ Find(RemoveKey(t)) = NULL
         \/ removeEvent(t)
  PROVE  Placed(chain, det)'
<1>1. Quiet /\ pc[t] \in {"rm", "re", "pe"} /\ UNCHANGED lock
  BY QuietIs DEF remove, removeEvent, At
<1>2. AfterRemove(t) \/ Return(t)
  BY DEF remove, removeEvent
<1>3. Alone(t) /\ pc'[t] \in Harmless
  BY <1>1, <1>2, AfterRemoveMoves, MovesAlone, ReturnHarmless
<1> QED
  BY <1>1, <1>3, EasyStep

(* compareAndPut, with its three outcomes.                                 *)
LEMMA PutMoves ==
  ASSUME RestTypeOK, LruTypeOK, LocalsOk, NEW t \in Threads, NEW chain, NEW det, Placed(chain, det),
         compareAndPut(t)
  PROVE  Placed(chain, det)'
<1>1. PICK k, b, x : k = call[t].key /\ b = Hash[k] /\ x = Find(k)
  OBVIOUS
<1>2. pc[t] = "pl" /\ k \in Keys
  BY <1>1, CallFields DEF compareAndPut, At, LocalsOk, Putting, RestTypeOK
<1>3. b \in Buckets
  BY <1>1, <1>2
<1>4. CASE x # NULL
  <2>1. /\ Free(b) /\ Acquire(t, b) /\ Load(t, "uc", x)
        /\ UNCHANGED << entries, nextHash, key, hitCount >>
    BY <1>1, <1>4 DEF compareAndPut, lruVars
  <2>2. KeepLocks(t) /\ lock'[getLock(b)] = t
    BY <1>3, <2>1, Acquired
  <2>3. Alone(t)
    BY <2>1, <2>2, MovesAlone
  <2>4. pc'[t] = "uc" /\ item'[t] = x
    BY <2>1 DEF Load, Goto, RestTypeOK
  <2>5. key[x] = k
    BY <1>1, <1>2, <1>4, FindIs DEF Placed
  <2>6. Guards(t, chain)'
    BY <1>1, <1>2, <2>1, <2>2, <2>4, <2>5 DEF Guards, Writing, Held
  <2>7. det[t] = {}
    BY <1>2 DEF Placed, Detaches
  <2> QED
    BY <1>2, <2>1, <2>3, <2>4, <2>6, <2>7, QuietMove
<1>5. CASE x = NULL /\ pc'[t] = "pk"
  BY <1>1, <1>5, InsertMoves
<1>6. CASE x = NULL /\ pc'[t] # "pk"
  <2>1. Return(t) /\ UNCHANGED << lruVars, key, lock, entries, nextHash >>
    BY <1>1, <1>6 DEF compareAndPut, Load, Goto, RestTypeOK
  <2>2. Quiet
    BY <2>1 DEF Quiet, lruVars
  <2> QED
    BY <1>2, <2>1, <2>2, MovesAlone, ReturnHarmless, EasyStep
<1> QED
  BY <1>4, <1>5, <1>6

(* replaceValue of a put that found the key.                               *)
LEMMA ReplaceMoves ==
  ASSUME RestTypeOK, LocalsOk, NEW t \in Threads, NEW chain, NEW det, Placed(chain, det),
         replaceValue(t)
  PROVE  Placed(chain, det)'
<1>1. PICK k, b : k = key[item[t]] /\ b = Hash[k]
  OBVIOUS
<1>2. pc[t] = "pv" /\ k \in Keys /\ lock[getLock(b)] = t
  BY <1>1 DEF replaceValue, At, Placed, Guards, Writing, Held
<1>3. b \in Buckets
  BY <1>1, <1>2
<1>4. Release(b) /\ UNCHANGED << entries, nextHash, key, hitCount >>
  BY <1>1 DEF replaceValue, lruVars
<1>5. KeepLocks(t)
  BY <1>2, <1>3, <1>4, Released
<1>6. Return(t) \/ (Goto(t, "pe") /\ UNCHANGED << call, item, num >>)
  BY DEF replaceValue
<1>7. Alone(t) /\ pc'[t] \in Harmless
  BY <1>5, <1>6 DEF Alone, KeepLocks, Return, Goto, RestTypeOK, Harmless
<1>8. det[t] = {}
  BY <1>2 DEF Placed, Detaches
<1>9. Guards(t, chain)' /\ pc'[t] \notin {"un", "pk", "ci"}
  BY <1>7, HarmlessGuards DEF Harmless
<1> QED
  BY <1>2, <1>4, <1>7, <1>8, <1>9, QuietMove

(* The update of the lists keeps items in the lists, unless hitCount       *)
(* overflows                                                               *)
LEMMA UpdateKeeps ==
  ASSUME LruTypeOK, NoOverflow, NEW x \in Items, updateLruImpl(x)
  PROVE  \A y \in Items : hitCount'[y] > 0 <=> hitCount[y] > 0
<1>1. hitCount[x] < MaxInt /\ hitCount[x] \in Int
  BY DEF NoOverflow, LruTypeOK
<1>2. CASE hitCount[x] = 1 /\ hitCount' = [hitCount EXCEPT ![x] = 2]
  BY <1>2 DEF LruTypeOK
<1>3. CASE hitCount[x] > 1 /\ hitCount' = [hitCount EXCEPT ![x] = Increment(hitCount[x])]
  <2>1. Increment(hitCount[x]) = hitCount[x] + 1
    BY <1>1 DEF Increment
  <2> QED
    BY <1>1, <1>3, <2>1 DEF LruTypeOK
<1>4. CASE hitCount' = hitCount
  BY <1>4
<1> QED
  BY <1>2, <1>3, <1>4 DEF updateLruImpl, promote, moveToHead2

(* updateLru moves an item between the lists and never out of them.        *)
LEMMA UpdateMoves ==
  ASSUME RestTypeOK, LruTypeOK, LocalsOk, NoOverflow, NEW t \in Threads, NEW chain, NEW det,
         Placed(chain, det), updateLru(t) \/ updateLruLocked(t)
  PROVE  Placed(chain, det)'
<1>1. pc[t] \in {"uc", "ud", "ui"} /\ item[t] \in Items
  BY DEF updateLru, updateLruLocked, At, LocalsOk
<1>2. Quiet
  <2>1. CASE updateLru(t)
    BY <2>1, QuietIs DEF updateLru
  <2>2. CASE updateLruLocked(t)
    BY <1>1, <2>2, UpdateKeeps DEF updateLruLocked, hashVars, Quiet
  <2> QED
    BY <2>1, <2>2
<1>3. \/ Count(t, "ud", lruCounter) \/ Jump(t, "ui") \/ Jump(t, AfterUpdate(t))
  BY DEF updateLru, updateLruLocked
<1>4. Alone(t)
  BY <1>2, <1>3, MovesAlone DEF Quiet
<1>5. /\ call' = call /\ item' = item
      /\ \/ pc'[t] \in {"ud", "ui"}
         \/ pc'[t] = "pv" /\ Putting(t)
         \/ pc'[t] = "gr" /\ ~Putting(t)
  BY <1>3 DEF Count, Jump, Goto, RestTypeOK, AfterUpdate
<1>6. Putting(t)' <=> Putting(t)
  BY <1>5 DEF Putting
<1>7. Putting(t) => key[item[t]] \in Keys /\ lock[getLock(Hash[key[item[t]]])] = t
  BY <1>1 DEF Placed, Guards, Writing, Held
<1>8. Guards(t, chain)'
  BY <1>2, <1>5, <1>6, <1>7 DEF Guards, Writing, Held, Quiet
<1> QED
  BY <1>1, <1>2, <1>4, <1>5, <1>8, QuietStep

(* get() reads and changes no pointer.                                     *)
LEMMA GetMoves ==
  ASSUME RestTypeOK, LocalsOk, NEW t \in Threads, NEW chain, NEW det, Placed(chain, det),
         getFirst(t) \/ getWalk(t) \/ getReturn(t)
  PROVE  Placed(chain, det)'
<1>1. Quiet /\ pc[t] \in {"gs", "gt", "gr"} /\ ~Putting(t)
  BY QuietIs DEF getFirst, getWalk, getReturn, At, Placed, Guards
<1>2. Return(t) \/ Jump(t, "uc") \/ \E x : Load(t, "gt", x)
  BY DEF getFirst, getWalk, getReturn
<1>3. Alone(t)
  BY <1>1, <1>2, MovesAlone DEF Quiet
<1>4. CASE Return(t)
  BY <1>1, <1>3, <1>4, ReturnHarmless, EasyStep
<1>5. CASE Jump(t, "uc") \/ \E x : Load(t, "gt", x)
  <2>1. pc'[t] \in {"uc", "gt"} /\ call' = call
    BY <1>5 DEF Jump, Load, Goto, RestTypeOK
  <2>2. Guards(t, chain)'
    BY <1>1, <2>1 DEF Guards, Writing, Putting
  <2> QED
    BY <1>1, <1>3, <2>1, <2>2, QuietStep
<1> QED
  BY <1>2, <1>4, <1>5

(* clear() between two buckets.                                            *)
LEMMA ClearOther ==
  ASSUME RestTypeOK, LocalsOk, NEW t \in Threads, NEW chain, NEW det, Placed(chain, det),
         clear(t) \/ clearEvents(t)
  PROVE  Placed(chain, det)'
<1>1. Quiet /\ pc[t] \in {"c1", "c2", "ce"} /\ "clear" \in Ops
  BY QuietIs DEF clear, clearEvents, At, Placed, Guards
<1>2. Return(t) \/ Jump(t, "c2") \/ \E n : Count(t, "cb", n)
  BY DEF clear, clearEvents, BeginClear
<1>3. Alone(t)
  BY <1>1, <1>2, MovesAlone DEF Quiet
<1>4. pc'[t] \in {"idle", "c2", "cb"}
  BY <1>2 DEF Return, Jump, Count, Goto, RestTypeOK
<1>5. Guards(t, chain)'
  BY <1>1, <1>4 DEF Guards, Writing
<1> QED
  BY <1>1, <1>3, <1>4, <1>5, QuietStep

(* clear() is through with the items of a bucket and releases its lock.    *)
LEMMA ClearEnds ==
  ASSUME RestTypeOK, LocalsOk, NEW t \in Threads, NEW chain, NEW det, Placed(chain, det),
         clearItem(t), item[t] = NULL
  PROVE  Placed(chain, det)'
<1>1. PICK b : b = num[t]
  OBVIOUS
<1>2. pc[t] = "ci" /\ b \in Buckets /\ lock[getLock(b)] = t /\ "clear" \in Ops
  BY <1>1 DEF clearItem, At, LocalsOk, Placed, Detaches, Guards, Held
<1>3. /\ Release(b) /\ UNCHANGED << entries, nextHash, key, hitCount, call, item >>
      /\ num' = [num EXCEPT ![t] = num[t] - 1]
      /\ Goto(t, IF num[t] = 0 THEN "ce" ELSE "cb")
  BY <1>1 DEF clearItem, hashVars, lruVars
<1>4. KeepLocks(t)
  BY <1>2, <1>3, Released
<1>5. Alone(t) /\ pc'[t] \in {"ce", "cb"}
  BY <1>3, <1>4 DEF Alone, KeepLocks, Goto, RestTypeOK
<1>6. Guards(t, chain)'
  BY <1>2, <1>5 DEF Guards, Writing
<1>7. det[t] = {}
  <2>1. Linked(det[t], NULL, nextHash) /\ det[t] \in SUBSET Items
    BY <1>2 DEF Placed, Detaches
  <2> QED
    BY <2>1, LinkedReach
<1> QED
  BY <1>2, <1>3, <1>5, <1>6, <1>7, QuietMove

(* clear() empties the lists with the table only when the listeners are    *)
(* enabled, as they are by default                                         *)
Listening == EnableListeners \/ "clear" \notin Ops

(* Every step keeps the table where HashInv says.                          *)
LEMMA HashStep ==
  TypeInv /\ LruInv /\ NoOverflow /\ HashInv /\ Listening /\ [Next]_vars => HashInv'
<1> SUFFICES ASSUME TypeInv, LruInv, NoOverflow, HashInv, Listening, [Next]_vars PROVE HashInv'
  OBVIOUS
<1>0. LruTypeOK /\ RestTypeOK /\ LocalsOk
  BY TypeSplit DEF TypeInv
<1>1. PICK chain, det : Placed(chain, det)
  BY DEF HashInv
<1>2. CASE UNCHANGED vars
  <2>1. Placed(chain, det)'
    BY <1>1, <1>2 DEF vars, hashVars, lruVars, Placed, Chains, Detaches, Guards, Writing,
                      Members, Held, Putting
  <2> QED
    BY <2>1 DEF HashInv
<1>3. ASSUME NEW t \in Threads, Start(t) \/ Continue(t)
      PROVE  \E chain2, det2 : Placed(chain2, det2)'
  <2>1. CASE Start(t)
    BY <1>0, <1>1, <2>1, StartMoves
  <2>2. CASE readSize1(t) \/ removeLru(t) \/ compareAndSet(t) \/ removeLruLoop(t)
    BY <1>0, <1>1, <2>2, EvictMoves
  <2>3. CASE removeTail(t) \/ removeLongestTail(t)
    BY <1>0, <1>1, <2>3, TailMoves
  <2>4. CASE remove(t)
    <3>1. PICK k, x : k = RemoveKey(t) /\ x = Find(k)
      OBVIOUS
    <3>2. CASE x = NULL
      BY <1>0, <1>1, <2>4, <3>1, <3>2, RemoveNothing
    <3>3. CASE x # NULL
      BY <1>0, <1>1, <2>4, <3>1, <3>3, RemoveMoves
    <3> QED
      BY <3>2, <3>3
  <2>5. CASE unlinkHash(t)
    BY <1>0, <1>1, <2>5, UnlinkMoves
  <2>6. CASE removeEvent(t)
    BY <1>0, <1>1, <2>6, RemoveNothing
  <2>7. CASE compareAndPut(t)
    BY <1>0, <1>1, <2>7, PutMoves
  <2>8. CASE linkHash(t)
    BY <1>0, <1>1, <2>8, LinkMoves
  <2>9. CASE replaceValue(t)
    BY <1>0, <1>1, <2>9, ReplaceMoves
  <2>10. CASE updateLru(t) \/ updateLruLocked(t)
    BY <1>0, <1>1, <2>10, UpdateMoves
  <2>11. CASE getFirst(t) \/ getWalk(t) \/ getReturn(t)
    BY <1>0, <1>1, <2>11, GetMoves
  <2>12. CASE clear(t) \/ clearEvents(t)
    BY <1>0, <1>1, <2>12, ClearOther
  <2>13. CASE clearBucket(t)
    BY <1>0, <1>1, <2>13, DetachMoves
  <2>14. CASE clearItem(t)
    <3>1. EnableListeners
      <4>1. "clear" \in Ops
        BY <1>1, <2>14 DEF clearItem, At, Placed, Guards
      <4> QED
        BY <4>1 DEF Listening
    <3>2. CASE item[t] = NULL
      BY <1>0, <1>1, <2>14, <3>2, ClearEnds
    <3>3. CASE item[t] # NULL
      BY <1>0, <1>1, <2>14, <3>1, <3>3, ClearMoves
    <3> QED
      BY <3>2, <3>3
  <2> QED
    BY <1>3, <2>1, <2>2, <2>3, <2>4, <2>5, <2>6, <2>7, <2>8, <2>9, <2>10, <2>11, <2>12,
       <2>13, <2>14 DEF Continue
<1> QED
  BY <1>2, <1>3 DEF Next, HashInv

(* The table of a new cache is empty.                                      *)
LEMMA HashStart == Init => HashInv
<1> SUFFICES ASSUME Init PROVE HashInv
  OBVIOUS
<1>1. PICK chain, det : chain = [b \in Buckets |-> {}] /\ det = [t \in Threads |-> {}]
  OBVIOUS
<1>2. Chains(chain)
  <2>1. \A b \in Buckets : chain[b] = {} /\ entries[b] = NULL
    BY <1>1 DEF Init
  <2>2. chain \in [Buckets -> SUBSET Items]
    BY <1>1
  <2> QED
    BY <2>1, <2>2, LinkedEmpty DEF Chains
<1>3. \A t \in Threads : Detaches(t, chain, det[t]) /\ Guards(t, chain)
  BY <1>1 DEF Init, Detaches, Guards, Writing
<1>4. Members(chain, det)
  BY <1>1 DEF Init, Members
<1> QED
  BY <1>1, <1>2, <1>3, <1>4 DEF Placed, HashInv

(* What the run checks follows from the inductive invariants.              *)
LEMMA TableFollows == TypeInv /\ LruInv /\ HashInv => TableConsistent
<1> SUFFICES ASSUME TypeInv, LruInv, HashInv PROVE TableConsistent
  OBVIOUS
<1>1. PICK chain, det : Placed(chain, det)
  BY DEF HashInv
<1>2. NoLostItem
  <2>1. List1 \in SUBSET Items /\ List2 \in SUBSET Items
    BY DEF List1, List2
  <2> QED
    BY <2>1, ReachList DEF LruInv, ListsInv, NoLostItem
<1>3. \A b \in Buckets : Chain(b) = chain[b]
  BY <1>1, ChainIs DEF Placed
<1>4. \A t \in Threads : IF pc[t] = "ci" THEN Reach(item[t], nextHash) = det[t] ELSE det[t] = {}
  <2> SUFFICES ASSUME NEW t \in Threads
               PROVE  IF pc[t] = "ci" THEN Reach(item[t], nextHash) = det[t] ELSE det[t] = {}
    OBVIOUS
  <2>1. Detaches(t, chain, det[t]) /\ det[t] \in SUBSET Items
    BY <1>1 DEF Placed
  <2> QED
    BY <2>1, LinkedReach DEF Detaches
<1>5. HashAgreesWithLru
  BY <1>1, <1>3, <1>4 DEF Placed, Members, HashAgreesWithLru, At
<1>6. OneItemPerKey
  BY <1>1, <1>3 DEF Placed, Chains, OneItemPerKey
<1> QED
  BY <1>2, <1>5, <1>6 DEF TableConsistent

(* The table and the lists hold the same items, each once (LruCache.java,  *)
(* compareAndPut, remove, clear), for any number of threads, keys, buckets *)
(* and operations, as long as no item is hit Integer.MAX_VALUE times and   *)
(* the listeners are enabled or clear() is not called.                     *)
THEOREM TableIsConsistent ==
  ASSUME Listening PROVE Spec /\ []NoOverflow => []TableConsistent
<1>1. Init => TypeInv /\ LruInv /\ HashInv
  BY TypeInitial, LruStart, HashStart
<1>2. TypeInv /\ LruInv /\ HashInv /\ NoOverflow /\ [Next]_vars
        => (TypeInv /\ LruInv /\ HashInv)'
  BY TypeStep, LruInvStep, HashStep
<1>3. TypeInv /\ LruInv /\ HashInv => TableConsistent
  BY TableFollows
<1> QED
  BY <1>1, <1>2, <1>3, PTL DEF Spec

-----------------------------------------------------------------------------
(***************************************************************************)
(* The capacity, for a cache used by one thread.                           *)
(***************************************************************************)
Total == size1 + size2

Evicting(t) ==
  /\ Putting(t)
  /\ pc[t] \in {"lp1", "lp2", "tl0", "tl1", "tl2", "tl3", "rm", "un", "re"}

(* What a thread that is alone knows of the sizes at each place of a put:  *)
(* the size it read is current, an eviction is under way only while the    *)
(* cache is full, and the new item is made only when it is not.            *)
Sized(t) ==
  /\ Total <= Capacity
  /\ pc[t] \in {"rl2", "lp2"} => num[t] = size1
  /\ pc[t] = "pl" => Total < Capacity
  /\ pc[t] = "tl3" => tail2 = NULL
  /\ pc[t] \in {"lt1", "lt2", "lt3"} => ~Putting(t)
  /\ isLruTailRemove => Evicting(t)
  /\ Putting(t) /\ pc[t] \in {"tl0", "tl1", "tl2", "tl3", "rm"} => Capacity <= Total
  /\ Putting(t) /\ pc[t] = "un" => Capacity - 1 <= Total

(* A list without a tail is empty.                                         *)
LEMMA NoTail ==
  ASSUME LruInv
  PROVE  (tail1 = NULL => size1 = 0) /\ (tail2 = NULL => size2 = 0)
<1>1. List1 \in SUBSET Items /\ List2 \in SUBSET Items
  BY DEF List1, List2
<1>2. ListOk(List1, head1, tail1, prevLru, nextLru) /\ ListOk(List2, head2, tail2, prevLru, nextLru)
  BY <1>1, RankedListOk DEF LruInv, ListsInv
<1> QED
  BY <1>2, FS_EmptySet DEF ListOk, LruInv, ListsInv

(* An operation enters at the place its name says.                         *)
LEMMA EntryOf ==
  ASSUME NEW c \in Calls
  PROVE  Entry(c.op) \in {"gs", "rl1", "rm", "c1", "tl0", "lt1"}
         /\ (Entry(c.op) \in {"rm", "tl0", "lt1"} => c.op \notin {"put", "putIfNew", "compareAndPut"})
BY DEF Calls, Entry

(* Every step of the only thread keeps the sizes within the capacity, or   *)
(* on the way back to it.                                                  *)
LEMMA SizedStep ==
  ASSUME NEW t, Threads = {t}, TypeInv, LruInv, Sized(t), [Next]_vars
  PROVE  Sized(t)'
<1>0. LruTypeOK /\ RestTypeOK /\ LocalsOk /\ t \in Threads
  BY TypeSplit DEF TypeInv
<1>1. CASE UNCHANGED vars
  BY <1>1 DEF vars, lruVars, hashVars, Sized, Total, Evicting, Putting
<1>2. CASE Start(t)
  <2>1. PICK c \in Calls : call' = [call EXCEPT ![t] = c] /\ Goto(t, Entry(c.op))
    BY <1>2 DEF Start
  <2>2. pc'[t] = Entry(c.op) /\ call'[t] = c
    BY <1>0, <2>1 DEF Goto, RestTypeOK
  <2>3. ~isLruTailRemove
    BY <1>2 DEF Start, At, Sized, Evicting
  <2> QED
    BY <1>0, <1>2, <2>2, <2>3, EntryOf DEF Start, lruVars, Sized, Total, Evicting, Putting, LruTypeOK
<1>3. CASE readSize1(t) \/ removeLru(t) \/ compareAndSet(t) \/ removeLruLoop(t)
  BY <1>0, <1>3 DEF readSize1, removeLru, compareAndSet, removeLruLoop, EndOfLoop, Jump, Count,
     Goto, At, isFull, lruVars, Sized, Total, Evicting, Putting, LruTypeOK, RestTypeOK, LocalsOk
<1>4. CASE removeTail(t)
  <2>1. tail1 = NULL /\ tail2 = NULL => Total = 0
    BY <1>0, NoTail DEF Total
  <2>2. UNCHANGED << size1, size2, tail2 >>
    BY <1>4 DEF removeTail, lruVars
  <2>3. pc[t] \in {"tl0", "tl1", "tl2", "tl3"}
    BY <1>4 DEF removeTail, At
  <2>4. CASE Putting(t) /\ call' = call
    <3>1. \/ pc'[t] \in {"rm", "tl1", "tl2"} /\ UNCHANGED isLruTailRemove
          \/ pc'[t] = "tl3" /\ tail2 = NULL /\ UNCHANGED isLruTailRemove
          \/ pc'[t] = "pl" /\ tail1 = NULL /\ pc[t] = "tl3" /\ isLruTailRemove' = FALSE
      BY <1>0, <1>4, <2>4 DEF removeTail, EndOfLoop, Jump, Load, Goto, At, RestTypeOK
    <3> QED
      BY <1>0, <2>1, <2>2, <2>3, <2>4, <3>1 DEF Sized, Total, Evicting, Putting, LruTypeOK
  <2>5. CASE ~Putting(t)
    <3>1. UNCHANGED isLruTailRemove /\ ~Putting(t)'
      BY <1>0, <1>4, <2>5 DEF removeTail, Jump, Load, Return, NoCall, Putting, RestTypeOK
    <3>2. pc'[t] \in {"rm", "tl1", "tl2", "idle"} \/ (pc'[t] = "tl3" /\ tail2 = NULL)
      BY <1>0, <1>4, <2>5 DEF removeTail, Jump, Load, Return, Goto, At, RestTypeOK
    <3> QED
      BY <1>0, <2>2, <2>5, <3>1, <3>2 DEF Sized, Total, Evicting, LruTypeOK
  <2>6. Putting(t) => call' = call
    BY <1>4 DEF removeTail, EndOfLoop, Jump, Load
  <2> QED
    BY <2>4, <2>5, <2>6
<1>4a. CASE removeLongestTail(t)
  <2>1. UNCHANGED << size1, size2, tail2, isLruTailRemove >>
    BY <1>4a DEF removeLongestTail, lruVars
  <2>2. ~isLruTailRemove
    BY <1>4a DEF removeLongestTail, At, Sized, Evicting
  <2>3. pc'[t] \in {"lt2", "lt3", "rm", "idle"} /\ (call'[t] = call[t] \/ call'[t] = NoCall)
         /\ ~Putting(t)
    BY <1>0, <1>4a DEF removeLongestTail, Load, Count, Return, Goto, At, RestTypeOK,
                          Sized
  <2> QED
    BY <1>0, <2>1, <2>2, <2>3 DEF Sized, Total, Evicting, Putting, NoCall, LruTypeOK
<1>5. CASE remove(t)
  BY <1>0, <1>5 DEF remove, AfterRemove, removeLruItem, Jump, Load, Return, NoCall,
     Goto, At, lruVars, Sized, Total, Evicting, Putting, LruTypeOK, RestTypeOK
<1>6. CASE unlinkHash(t) \/ removeEvent(t)
  BY <1>0, <1>6 DEF unlinkHash, removeEvent, AfterRemove, Return, NoCall,
     Goto, At, lruVars, Sized, Total, Evicting, Putting, LruTypeOK, RestTypeOK
<1>7. CASE compareAndPut(t) \/ linkHash(t) \/ replaceValue(t)
  BY <1>0, <1>7 DEF compareAndPut, linkHash, replaceValue, linkNewItem, Jump, Load, Return, NoCall,
     Goto, At, lruVars, Sized, Total, Evicting, Putting, LruTypeOK, RestTypeOK
<1>8. CASE updateLru(t) \/ updateLruLocked(t)
  BY <1>0, <1>8 DEF updateLru, updateLruLocked, AfterUpdate, updateLruImpl, promote, moveToHead2,
     Jump, Count, Goto, At, lruVars, Sized, Total, Evicting, Putting, LruTypeOK, RestTypeOK
<1>9. CASE getFirst(t) \/ getWalk(t) \/ getReturn(t)
  BY <1>0, <1>9 DEF getFirst, getWalk, getReturn, Jump, Load, Return, NoCall,
     Goto, At, lruVars, Sized, Total, Evicting, Putting, LruTypeOK, RestTypeOK
<1>10. CASE clear(t) \/ clearBucket(t) \/ clearItem(t) \/ clearEvents(t)
  BY <1>0, <1>10 DEF clear, clearBucket, clearItem, clearEvents, BeginClear, removeLruItem,
     Jump, Load, Count, Return, NoCall,
     Goto, At, lruVars, Sized, Total, Evicting, Putting, LruTypeOK, RestTypeOK
<1> QED
  BY <1>1, <1>2, <1>3, <1>4, <1>4a, <1>5, <1>6, <1>7, <1>8, <1>9, <1>10 DEF Next, Continue

(* "maximum allowed entries": a cache used by one thread never holds more  *)
(* than its capacity between operations (LruCache.removeLru), as long as   *)
(* no item is hit Integer.MAX_VALUE times.                                 *)
THEOREM CapacityIsRespected ==
  ASSUME NEW t, Threads = {t} PROVE Spec /\ []NoOverflow => []CapacityRespected
<1>1. Init => TypeInv /\ LruInv /\ Sized(t)
  <2>1. Init => Sized(t)
    BY DEF Init, Sized, Total, Evicting
  <2> QED
    BY <2>1, TypeInitial, LruStart
<1>2. TypeInv /\ LruInv /\ Sized(t) /\ NoOverflow /\ [Next]_vars
        => (TypeInv /\ LruInv /\ Sized(t))'
  BY TypeStep, LruInvStep, SizedStep
<1>3. Sized(t) => CapacityRespected
  BY DEF Sized, Total, CapacityRespected
<1> QED
  BY <1>1, <1>2, <1>3, PTL DEF Spec

(* "If the cache is full, remove the LRU item": a put of the one thread    *)
(* that uses the cache evicts another key only when the cache is full.     *)
THEOREM EvictsOnlyWhenFull ==
  ASSUME NEW s, Threads = {s} PROVE Spec /\ []NoOverflow => EvictOnlyWhenFull
<1>1. Init => TypeInv /\ LruInv /\ Sized(s)
  <2>1. Init => Sized(s)
    BY DEF Init, Sized, Total, Evicting
  <2> QED
    BY <2>1, TypeInitial, LruStart
<1>2. TypeInv /\ LruInv /\ Sized(s) /\ NoOverflow /\ [Next]_vars
        => (TypeInv /\ LruInv /\ Sized(s))'
  BY TypeStep, LruInvStep, SizedStep
<1>3. Sized(s)
        => [\A t \in Threads :
              At(t, "un") /\ pc'[t] = "re" /\ Putting(t) => Capacity - 1 <= size1 + size2]_vars
  <2> SUFFICES ASSUME Sized(s), NEW t \in Threads, At(t, "un"), Putting(t)
               PROVE  Capacity - 1 <= size1 + size2
    OBVIOUS
  <2>1. t = s
    OBVIOUS
  <2> QED
    BY <2>1 DEF Sized, Total, At
<1> QED
  BY <1>1, <1>2, <1>3, PTL DEF Spec, EvictOnlyWhenFull, At, Putting

-----------------------------------------------------------------------------
(***************************************************************************)
(* What a reader without a lock may rely on.                               *)
(***************************************************************************)
(* An item that is or was in the table                                     *)
Made(x) == key[x] \in Keys /\ ~\E u \in Threads : pc[u] = "pk" /\ item[u] = x

(* HashInv without its ghosts                                              *)
TableOk ==
  /\ \A b \in Buckets :
       /\ entries[b] \in Null(Chain(b)) /\ Chain(b) \subseteq Items
       /\ \A x \in Chain(b) : /\ Made(x) /\ Hash[key[x]] = b /\ nextHash[x] \in Null(Chain(b))
                              /\ \A y \in Chain(b) : key[x] = key[y] => x = y
  /\ \A t \in Threads :
       /\ Writing(t) => /\ key[item[t]] \in Keys /\ Hash[key[item[t]]] \in Buckets
                        /\ Held(t, Hash[key[item[t]]])
       /\ pc[t] = "un" => item[t] \in Chain(Hash[key[item[t]]])
       /\ pc[t] = "pk" => \A y \in Chain(Hash[key[item[t]]]) : key[y] # key[item[t]]

(* What HashInv says of the table, without its ghosts.                     *)
LEMMA TableFacts == TypeInv /\ HashInv => TableOk
<1> SUFFICES ASSUME TypeInv, HashInv PROVE TableOk
  OBVIOUS
<1>0. RestTypeOK /\ LocalsOk
  BY TypeSplit DEF TypeInv
<1>1. PICK chain, det : Placed(chain, det)
  BY DEF HashInv
<1>2. /\ Chains(chain) /\ chain \in [Buckets -> SUBSET Items]
  BY <1>1 DEF Placed, Chains
<1>3. \A b \in Buckets : Chain(b) = chain[b] /\ entries[b] \in Null(chain[b])
  BY <1>2, ChainIs
<1>4. ASSUME NEW b \in Buckets, NEW x \in chain[b]
      PROVE  /\ key[x] \in Keys /\ Hash[key[x]] = b /\ nextHash[x] \in Null(chain[b])
             /\ \A y \in chain[b] : key[x] = key[y] => x = y
  <2>1. Linked(chain[b], entries[b], nextHash)
    BY <1>2 DEF Chains
  <2>2. PICK prv, e, rank : Ranked(chain[b], entries[b], e, prv, nextHash, rank)
    BY <2>1 DEF Linked, IsList
  <2>3. nextHash[x] \in Null(chain[b])
    BY <2>2 DEF Ranked, Null
  <2> QED
    BY <1>2, <2>3 DEF Chains
<1>5. ASSUME NEW b \in Buckets, NEW x \in chain[b] PROVE Made(x)
  <2>1. x \in Items
    BY <1>2
  <2>2. \A u \in Threads : ~(pc[u] = "pk" /\ item[u] = x)
    BY <1>0, <1>1, <2>1, Apart
  <2> QED
    BY <1>4, <2>2 DEF Made
<1>6. ASSUME NEW t \in Threads
      PROVE  /\ Writing(t) => /\ key[item[t]] \in Keys /\ Hash[key[item[t]]] \in Buckets
                              /\ Held(t, Hash[key[item[t]]])
             /\ pc[t] = "un" => item[t] \in Chain(Hash[key[item[t]]])
             /\ pc[t] = "pk" => \A y \in Chain(Hash[key[item[t]]]) : key[y] # key[item[t]]
  <2>1. Guards(t, chain)
    BY <1>1 DEF Placed
  <2>2. Writing(t) => key[item[t]] \in Keys /\ Hash[key[item[t]]] \in Buckets
    BY <2>1 DEF Guards
  <2>3. pc[t] \in {"un", "pk"} => Chain(Hash[key[item[t]]]) = chain[Hash[key[item[t]]]]
    BY <1>3, <2>2 DEF Writing
  <2> QED
    BY <2>1, <2>2, <2>3 DEF Guards
<1> QED
  BY <1>2, <1>3, <1>4, <1>5, <1>6 DEF TableOk

(* Every step leaves the chains alone, or links, unlinks or detaches       *)
Linking(t) ==
  /\ linkHash(t)
  /\ \A b \in Buckets :
       Chain(b)' = IF b = Hash[key[item[t]]] THEN Chain(b) \cup {item[t]} ELSE Chain(b)
Unlinking(t) ==
  /\ unlinkHash(t)
  /\ \A b \in Buckets :
       Chain(b)' = IF b = Hash[key[item[t]]] THEN Chain(b) \ {item[t]} ELSE Chain(b)
Detaching(t) ==
  /\ clearBucket(t)
  /\ \A b \in Buckets : Chain(b)' = IF b = num[t] THEN {} ELSE Chain(b)

(* The table's pointers change in three ways only.                         *)
LEMMA ChainStep ==
  ASSUME TypeInv, HashInv, NEW t \in Threads, Start(t) \/ Continue(t)
  PROVE  \/ UNCHANGED << entries, nextHash >>
         \/ Linking(t) \/ Unlinking(t) \/ Detaching(t)
<1>0. RestTypeOK /\ LocalsOk /\ LruTypeOK
  BY TypeSplit DEF TypeInv
<1>1. PICK chain, det : Placed(chain, det)
  BY DEF HashInv
<1>2. Chains(chain) /\ chain \in [Buckets -> SUBSET Items]
  BY <1>1 DEF Placed, Chains
<1>3. \A b \in Buckets : Chain(b) = chain[b]
  BY <1>2, ChainIs
<1>4. ASSUME NEW chain2, NEW det2, Placed(chain2, det2)'
      PROVE  \A b \in Buckets : Chain(b)' = chain2[b]
  <2>1. Chains(chain2)'
    BY <1>4 DEF Placed
  <2>2. \A b \in Buckets : chain2[b] \in SUBSET Items /\ Linked(chain2[b], entries'[b], nextHash')
    BY <2>1 DEF Chains
  <2>3. ASSUME NEW b \in Buckets PROVE Reach(entries'[b], nextHash') = chain2[b]
    <3>1. PICK h, nxt : h = entries'[b] /\ nxt = nextHash'
      OBVIOUS
    <3>2. Reach(h, nxt) = chain2[b]
      BY <2>2, <3>1, LinkedReach
    <3> QED
      BY <3>1, <3>2
  <2> QED
    BY <2>3 DEF Chain
<1>5. CASE linkHash(t)
  <2>1. PICK chain2 : /\ chain2 = [chain EXCEPT ![Hash[key[item[t]]]] = @ \cup {item[t]}]
                      /\ Placed(chain2, det)'
    BY <1>0, <1>1, <1>5, LinkMoves
  <2>2. \A b \in Buckets : Chain(b)' = chain2[b]
    BY <1>4, <2>1
  <2> QED
    BY <1>2, <1>3, <1>5, <2>1, <2>2 DEF Linking
<1>6. CASE unlinkHash(t)
  <2>1. PICK chain2 : /\ chain2 = [chain EXCEPT ![Hash[key[item[t]]]] = @ \ {item[t]}]
                      /\ Placed(chain2, det)'
    BY <1>0, <1>1, <1>6, UnlinkMoves
  <2>2. \A b \in Buckets : Chain(b)' = chain2[b]
    BY <1>4, <2>1
  <2> QED
    BY <1>2, <1>3, <1>6, <2>1, <2>2 DEF Unlinking
<1>7. CASE clearBucket(t)
  <2>1. PICK chain2, det2 : /\ chain2 = [chain EXCEPT ![num[t]] = {}]
                            /\ Placed(chain2, det2)'
    BY <1>0, <1>1, <1>7, DetachMoves
  <2>2. \A b \in Buckets : Chain(b)' = chain2[b]
    BY <1>4, <2>1
  <2> QED
    BY <1>2, <1>3, <1>7, <2>1, <2>2 DEF Detaching
<1>8. CASE ~linkHash(t) /\ ~unlinkHash(t) /\ ~clearBucket(t)
  BY <1>8 DEF Start, Continue, hashVars, readSize1, removeLru, compareAndSet, removeLruLoop,
     removeTail, removeLongestTail, remove, removeEvent, compareAndPut, replaceValue, updateLru,
     updateLruLocked, getFirst, getWalk, getReturn, clear, clearItem, clearEvents
<1> QED
  BY <1>5, <1>6, <1>7, <1>8

(* Chains that nobody touched                                              *)
LEMMA SameChains ==
  ASSUME UNCHANGED << entries, nextHash >> PROVE \A b \in Buckets : Chain(b)' = Chain(b)
BY DEF Chain

(* Every step leaves keys and values alone, or makes an item, or replaces  *)
(* the value of one                                                        *)
Making(t) ==
  /\ compareAndPut(t) /\ pc'[t] = "pk" /\ item'[t] = NewItem /\ NewItem \in Fresh
  /\ key' = [key EXCEPT ![NewItem] = call[t].key] /\ call[t].key \in Keys
  /\ value' = [value EXCEPT ![NewItem] = call[t].val] /\ call[t].val \in Values
  /\ UNCHANGED << entries, nextHash, call >>
Replacing(t) ==
  /\ replaceValue(t) /\ UNCHANGED << entries, nextHash, key >>
  /\ value' = [value EXCEPT ![item[t]] = call[t].val] /\ item[t] \in Items

(* Keys and values change in two ways only.                                *)
LEMMA ContentStep ==
  ASSUME TypeInv, NEW t \in Threads, Start(t) \/ Continue(t)
  PROVE  UNCHANGED << key, value >> \/ Making(t) \/ Replacing(t)
<1>0. RestTypeOK /\ LocalsOk
  BY TypeSplit DEF TypeInv
<1>1. CASE compareAndPut(t)
  <2>0. Putting(t) /\ call[t] \in Calls \cup {NoCall}
    BY <1>0, <1>1 DEF compareAndPut, At, LocalsOk, RestTypeOK
  <2>1. CASE UNCHANGED << key, value >>
    BY <2>1
  <2>2. CASE ~UNCHANGED << key, value >>
    <3>1. /\ Fresh # {} /\ Load(t, "pk", NewItem) /\ key' = [key EXCEPT ![NewItem] = call[t].key]
          /\ value' = [value EXCEPT ![NewItem] = call[t].val] /\ UNCHANGED << entries, nextHash >>
      BY <1>1, <2>2 DEF compareAndPut
    <3>2. NewItem \in Fresh
      BY <3>1 DEF NewItem
    <3>3. call[t].key \in Keys /\ call[t].val \in Values
      BY <2>0, CallFields DEF Putting
    <3>4. pc'[t] = "pk" /\ item'[t] = NewItem /\ call' = call
      BY <1>0, <3>1 DEF Load, Goto, RestTypeOK
    <3> QED
      BY <1>1, <3>1, <3>2, <3>3, <3>4 DEF Making
  <2> QED
    BY <2>1, <2>2
<1>2. CASE replaceValue(t)
  BY <1>0, <1>2 DEF replaceValue, Replacing, LocalsOk, At
<1>3. CASE ~compareAndPut(t) /\ ~replaceValue(t)
  BY <1>3 DEF Start, Continue, hashVars, readSize1, removeLru, compareAndSet, removeLruLoop,
     removeTail, removeLongestTail, remove, removeEvent, unlinkHash, linkHash, updateLru,
     updateLruLocked, getFirst, getWalk, getReturn, clear, clearBucket, clearItem, clearEvents
<1> QED
  BY <1>1, <1>2, <1>3

(* A step moves one thread                                                 *)
LEMMA StepAlone ==
  ASSUME TypeInv, NEW t \in Threads, Start(t) \/ Continue(t)
  PROVE  \A u \in Threads \ {t} :
           /\ pc'[u] = pc[u] /\ call'[u] = call[u] /\ item'[u] = item[u]
           /\ oldValue'[u] = oldValue[u] /\ listeners'[u] = listeners[u]
<1>0. RestTypeOK
  BY TypeSplit DEF TypeInv
<1>1. CASE Start(t)
  BY <1>0, <1>1 DEF Start, Goto, RestTypeOK
<1>2. CASE readSize1(t) \/ removeLru(t) \/ compareAndSet(t) \/ removeLruLoop(t)
  BY <1>0, <1>2 DEF readSize1, removeLru, compareAndSet, removeLruLoop, EndOfLoop, Jump, Count,
                    Goto, RestTypeOK
<1>3. CASE removeTail(t) \/ removeLongestTail(t)
  BY <1>0, <1>3 DEF removeTail, removeLongestTail, EndOfLoop, Jump, Load, Count, Return, Goto,
                    RestTypeOK
<1>4. CASE remove(t) \/ unlinkHash(t) \/ removeEvent(t)
  BY <1>0, <1>4 DEF remove, unlinkHash, removeEvent, AfterRemove, Load, Return, Goto, RestTypeOK
<1>5. CASE compareAndPut(t) \/ linkHash(t) \/ replaceValue(t)
  BY <1>0, <1>5 DEF compareAndPut, linkHash, replaceValue, Load, Return, Goto, RestTypeOK
<1>6. CASE updateLru(t) \/ updateLruLocked(t) \/ getFirst(t) \/ getWalk(t) \/ getReturn(t)
  BY <1>0, <1>6 DEF updateLru, updateLruLocked, getFirst, getWalk, getReturn, Jump, Load, Count,
                    Return, Goto, RestTypeOK
<1>7. CASE clear(t) \/ clearBucket(t) \/ clearItem(t) \/ clearEvents(t)
  BY <1>0, <1>7 DEF clear, clearBucket, clearItem, clearEvents, BeginClear, Jump, Load, Count,
                    Return, Goto, RestTypeOK
<1> QED
  BY <1>1, <1>2, <1>3, <1>4, <1>5, <1>6, <1>7 DEF Continue

(* Where a thread stands on an item it reads or changes                    *)
Standing == {"pk", "gs", "gt", "uc", "ud", "ui", "pv", "gr"}

(* ... it got there by one of these steps                                  *)
Arrives(t) ==
  \/ Start(t) /\ pc'[t] = "gs" /\ IsGet(call'[t])
  \/ Making(t)
  \/ /\ UNCHANGED << hashVars, call >>
     /\ \/ /\ compareAndPut(t) /\ pc'[t] = "uc" /\ Putting(t)
           /\ Find(call[t].key) # NULL /\ item'[t] = Find(call[t].key)
        \/ /\ getFirst(t) /\ pc[t] = "gs" /\ pc'[t] = "gt"
           /\ item'[t] = entries[Hash[call[t].key]]
        \/ /\ getWalk(t) /\ pc[t] = "gt" /\ pc'[t] = "uc" /\ item' = item
           /\ item[t] # NULL /\ key[item[t]] = call[t].key
        \/ /\ getWalk(t) /\ pc[t] = "gt" /\ pc'[t] = "gt" /\ item'[t] = nextHash[item[t]]
           /\ item[t] # NULL /\ key[item[t]] # call[t].key
        \/ /\ pc[t] \in {"uc", "ud", "ui"} /\ pc'[t] \in {"ud", "ui", "pv", "gr"} /\ item' = item
           /\ pc'[t] = "pv" => Putting(t)
           /\ pc'[t] = "gr" => ~Putting(t)

(* How a thread comes to a place where it stands on an item.               *)
LEMMA Arrival ==
  ASSUME TypeInv, NEW t \in Threads, Start(t) \/ Continue(t), pc'[t] \in Standing
  PROVE  Arrives(t)
<1>0. RestTypeOK /\ LocalsOk
  BY TypeSplit DEF TypeInv
<1>1. CASE Start(t)
  <2>1. PICK c \in Calls : call' = [call EXCEPT ![t] = c] /\ Goto(t, Entry(c.op))
    BY <1>1 DEF Start
  <2>2. pc'[t] = Entry(c.op) /\ call'[t] = c
    BY <1>0, <2>1 DEF Goto, RestTypeOK
  <2>3. Entry(c.op) \in Standing => Entry(c.op) = "gs" /\ c.op = "get"
    BY DEF Calls, Entry, Standing
  <2> QED
    BY <1>1, <2>2, <2>3 DEF Arrives, IsGet
<1>2. CASE compareAndPut(t)
  <2>0. Putting(t) /\ call[t] \in Calls \cup {NoCall}
    BY <1>0, <1>2 DEF compareAndPut, At, LocalsOk, RestTypeOK
  <2>1. CASE Find(call[t].key) # NULL
    BY <1>0, <1>2, <2>0, <2>1 DEF compareAndPut, Load, Goto, hashVars, RestTypeOK, Arrives
  <2>2. CASE Find(call[t].key) = NULL
    <3>1. pc'[t] = "pk" \/ pc'[t] = "idle"
      BY <1>0, <1>2, <2>2 DEF compareAndPut, Load, Return, Goto, RestTypeOK
    <3>2. pc'[t] = "pk"
      BY <3>1 DEF Standing
    <3>3. /\ Fresh # {} /\ Load(t, "pk", NewItem) /\ key' = [key EXCEPT ![NewItem] = call[t].key]
          /\ value' = [value EXCEPT ![NewItem] = call[t].val] /\ UNCHANGED << entries, nextHash >>
      BY <1>0, <1>2, <2>2, <3>2 DEF compareAndPut, Return, Goto, RestTypeOK
    <3>4. NewItem \in Fresh
      BY <3>3 DEF NewItem
    <3>5. call[t].key \in Keys /\ call[t].val \in Values
      BY <2>0, CallFields DEF Putting
    <3>6. item'[t] = NewItem /\ call' = call
      BY <1>0, <3>3 DEF Load, RestTypeOK
    <3> QED
      BY <1>2, <3>2, <3>3, <3>4, <3>5, <3>6 DEF Making, Arrives
  <2> QED
    BY <2>1, <2>2
<1>3. CASE getFirst(t)
  BY <1>0, <1>3 DEF getFirst, At, Load, Goto, RestTypeOK, Arrives
<1>4. CASE getWalk(t)
  <2>1. item[t] # NULL
    BY <1>0, <1>4 DEF getWalk, Return, Goto, RestTypeOK, Standing
  <2> QED
    BY <1>0, <1>4, <2>1 DEF getWalk, At, Load, Jump, Goto, RestTypeOK, Arrives
<1>5. CASE updateLru(t) \/ updateLruLocked(t)
  BY <1>0, <1>5 DEF updateLru, updateLruLocked, AfterUpdate, At, Count, Jump, Goto, RestTypeOK, Arrives
<1>6. CASE readSize1(t) \/ removeLru(t) \/ compareAndSet(t) \/ removeLruLoop(t)
  BY <1>0, <1>6 DEF readSize1, removeLru, compareAndSet, removeLruLoop, EndOfLoop, Jump, Count,
                    Goto, RestTypeOK, Standing
<1>7. CASE removeTail(t) \/ removeLongestTail(t)
  BY <1>0, <1>7 DEF removeTail, removeLongestTail, EndOfLoop, Jump, Load, Count, Return, Goto,
                    RestTypeOK, Standing
<1>8. CASE remove(t) \/ unlinkHash(t) \/ removeEvent(t)
  BY <1>0, <1>8 DEF remove, unlinkHash, removeEvent, AfterRemove, Load, Return, Goto, RestTypeOK,
                    Standing
<1>9. CASE linkHash(t) \/ replaceValue(t) \/ getReturn(t)
  BY <1>0, <1>9 DEF linkHash, replaceValue, getReturn, Return, Goto, RestTypeOK, Standing
<1>10. CASE clear(t) \/ clearBucket(t) \/ clearItem(t) \/ clearEvents(t)
  BY <1>0, <1>10 DEF clear, clearBucket, clearItem, clearEvents, BeginClear, Jump, Load, Count,
                     Return, Goto, RestTypeOK, Standing
<1> QED
  BY <1>1, <1>2, <1>3, <1>4, <1>5, <1>6, <1>7, <1>8, <1>9, <1>10 DEF Continue

(* An item that is or was in the table stays one, with its key             *)
LEMMA MadeStep ==
  ASSUME TypeInv, NEW t \in Threads, Start(t) \/ Continue(t), NEW x \in Items
  PROVE  /\ key[x] \in Keys => key'[x] = key[x]
         /\ Made(x) => Made(x)'
<1>0. RestTypeOK
  BY TypeSplit DEF TypeInv
<1>1. key[x] \in Keys => key'[x] = key[x] /\ (Making(t) => x # NewItem)
  <2>1. Making(t) => (key[x] \in Keys => x # NewItem)
    BY DEF Making, Fresh
  <2> QED
    BY <1>0, <2>1, ContentStep DEF Making, Replacing, RestTypeOK
<1>2. pc'[t] = "pk" => Making(t)
  BY Arrival DEF Arrives, Standing
<1>3. ASSUME Made(x), NEW u \in Threads PROVE ~(pc'[u] = "pk" /\ item'[u] = x)
  <2>1. CASE u = t
    BY <1>1, <1>2, <1>3, <2>1 DEF Making, Made
  <2>2. CASE u # t
    BY <1>3, <2>2, StepAlone DEF Made
  <2> QED
    BY <2>1, <2>2
<1> QED
  BY <1>1, <1>3 DEF Made

(* Where readers and writers stand: every pointer leads to an item that is *)
(* or was in the table, and a put that found its key keeps that item in    *)
(* its chain, by the bucket's lock, until the value is replaced            *)
PointersMade == \A x \in Items : nextHash[x] # NULL => Made(nextHash[x])
ValuesMade == \A x \in Items : key[x] # NULL => value[x] \in Values
StandsOk(t) ==
  /\ pc[t] = "gt" /\ item[t] # NULL => Made(item[t])
  /\ pc[t] = "pk" => value[item[t]] = call[t].val
  /\ pc[t] \in {"gs", "gt", "gr"} => IsGet(call[t])
  /\ pc[t] \in {"uc", "ud", "ui"} => IsGet(call[t]) \/ Putting(t)
  /\ pc[t] = "pv" => Putting(t)
  /\ pc[t] \in {"uc", "ud", "ui", "pv"} /\ Putting(t) => item[t] \in Chain(Hash[key[item[t]]])
PointInv == PointersMade /\ ValuesMade /\ \A t \in Threads : StandsOk(t)

(* No step leaves a pointer to an item that was never in the table.        *)
LEMMA PointersStep ==
  ASSUME TypeInv, HashInv, PointersMade, NEW t \in Threads, Start(t) \/ Continue(t)
  PROVE  PointersMade'
<1>0. RestTypeOK /\ LocalsOk /\ TableOk
  BY TypeSplit, TableFacts DEF TypeInv
<1> SUFFICES ASSUME NEW x \in Items, nextHash'[x] # NULL
             PROVE  nextHash'[x] \in Items /\ Made(nextHash'[x])
  <2>1. \A y \in Items : Made(y) => Made(y)'
    BY MadeStep
  <2>2. \A y \in Items : nextHash'[y] # NULL => nextHash'[y] \in Items /\ Made(nextHash'[y])
    OBVIOUS
  <2>3. ASSUME NEW y \in Items, nextHash'[y] # NULL PROVE Made(nextHash[y])'
    <3>1. PICK z : z = nextHash'[y]
      OBVIOUS
    <3>2. z \in Items /\ Made(z)
      BY <2>2, <2>3, <3>1
    <3>3. Made(z)'
      BY <2>1, <3>2
    <3> QED
      BY <3>1, <3>3 DEF Made
  <2> QED
    BY <2>3 DEF PointersMade
<1>1. \A y \in Items : nextHash[y] # NULL => nextHash[y] \in Items /\ Made(nextHash[y])
  BY <1>0 DEF PointersMade, RestTypeOK, Null
<1>2. CASE Linking(t)
  <2>1. PICK b : b = Hash[key[item[t]]]
    OBVIOUS
  <2>2. b \in Buckets /\ item[t] \in Items
    BY <1>0, <1>2, <2>1 DEF Linking, linkHash, At, TableOk, Writing, LocalsOk
  <2>3. entries[b] # NULL => entries[b] \in Items /\ Made(entries[b])
    BY <1>0, <2>2 DEF TableOk, Null
  <2>4. nextHash' = [nextHash EXCEPT ![item[t]] = entries[b]]
    BY <1>2, <2>1 DEF Linking, linkHash
  <2> QED
    BY <1>0, <1>1, <2>2, <2>3, <2>4 DEF RestTypeOK
<1>3. CASE Unlinking(t)
  BY <1>0, <1>1, <1>3 DEF Unlinking, unlinkHash, bypass, LocalsOk, At
<1>4. CASE UNCHANGED nextHash
  BY <1>1, <1>4
<1> QED
  BY <1>2, <1>3, <1>4, ChainStep DEF Detaching, clearBucket

(* No step leaves a key without a value.                                   *)
LEMMA ValuesStep ==
  ASSUME TypeInv, PointInv, NEW t \in Threads, Start(t) \/ Continue(t)
  PROVE  ValuesMade'
<1>0. RestTypeOK /\ LocalsOk
  BY TypeSplit DEF TypeInv
<1>1. CASE Making(t)
  BY <1>0, <1>1 DEF Making, PointInv, ValuesMade, RestTypeOK
<1>2. CASE Replacing(t)
  <2>1. Putting(t) /\ call[t] \in Calls \cup {NoCall}
    BY <1>0, <1>2 DEF Replacing, replaceValue, At, PointInv, StandsOk, RestTypeOK
  <2>2. call[t].val \in Values
    BY <2>1, CallFields DEF Putting
  <2> QED
    BY <1>0, <1>2, <2>2 DEF Replacing, PointInv, ValuesMade, RestTypeOK
<1>3. CASE UNCHANGED << key, value >>
  BY <1>3 DEF PointInv, ValuesMade
<1> QED
  BY <1>1, <1>2, <1>3, ContentStep

(* A bucket whose lock another thread holds keeps its chain                *)
LEMMA HeldChain ==
  ASSUME TypeInv, HashInv, NEW t \in Threads, Start(t) \/ Continue(t),
         NEW u \in Threads \ {t}, NEW b \in Buckets, Held(u, b)
  PROVE  Chain(b)' = Chain(b)
<1>0. RestTypeOK /\ LocalsOk /\ TableOk
  BY TypeSplit, TableFacts DEF TypeInv
<1>1. CASE UNCHANGED << entries, nextHash >>
  BY <1>1, SameChains
<1>2. CASE Linking(t)
  <2>1. Held(t, Hash[key[item[t]]])
    BY <1>0, <1>2 DEF Linking, linkHash, At, TableOk, Writing
  <2> QED
    BY <1>2, <2>1 DEF Linking, Held
<1>3. CASE Unlinking(t)
  <2>1. Held(t, Hash[key[item[t]]])
    BY <1>0, <1>3 DEF Unlinking, unlinkHash, At, TableOk, Writing
  <2> QED
    BY <1>3, <2>1 DEF Unlinking, Held
<1>4. CASE Detaching(t)
  <2>1. lock[getLock(num[t])] = NULL
    BY <1>4 DEF Detaching, clearBucket, Free
  <2>2. num[t] # b
    BY <2>1 DEF Held
  <2> QED
    BY <1>4, <2>2 DEF Detaching
<1> QED
  BY <1>1, <1>2, <1>3, <1>4, ChainStep

(* The item whose value a put replaces is in its chain                     *)
LEMMA ReplacedIn ==
  ASSUME TypeInv, PointInv, NEW t \in Threads, Replacing(t)
  PROVE  item[t] \in Chain(Hash[key[item[t]]]) /\ Putting(t)
BY DEF Replacing, replaceValue, At, PointInv, StandsOk

(* What another thread stands on survives a step.                          *)
LEMMA OtherStands ==
  ASSUME TypeInv, HashInv, PointInv, NEW t \in Threads, Start(t) \/ Continue(t),
         NEW u \in Threads \ {t}
  PROVE  StandsOk(u)'
<1>0. RestTypeOK /\ LocalsOk /\ TableOk /\ StandsOk(u)
  BY TypeSplit, TableFacts DEF TypeInv, PointInv
<1>1. pc'[u] = pc[u] /\ call'[u] = call[u] /\ item'[u] = item[u]
  BY StepAlone
<1>2. pc[u] = "gt" /\ item[u] # NULL => Made(item[u])'
  <2> SUFFICES ASSUME pc[u] = "gt", item[u] # NULL PROVE Made(item[u])'
    OBVIOUS
  <2>1. PICK x : x = item[u]
    OBVIOUS
  <2>2. x \in Items /\ Made(x)
    BY <1>0, <2>1 DEF StandsOk, RestTypeOK, Null
  <2>3. Made(x)'
    BY <2>2, MadeStep
  <2> QED
    BY <1>1, <2>1, <2>3 DEF Made
<1>3. ASSUME pc[u] = "pk" PROVE value'[item[u]] = value[item[u]]
  <2>1. item[u] \in Items /\ key[item[u]] \in Keys
    BY <1>0, <1>3 DEF LocalsOk
  <2>2. Making(t) => item[u] # NewItem
    BY <2>1 DEF Making, Fresh
  <2>3. ASSUME Replacing(t) PROVE item[u] # item[t]
    <3>1. item[t] \in Chain(Hash[key[item[t]]]) /\ Putting(t)
      BY <2>3, ReplacedIn
    <3>2. Hash[key[item[t]]] \in Buckets
      BY <1>0, <2>3, <3>1 DEF Replacing, replaceValue, At, TableOk, Writing
    <3>3. Made(item[t])
      BY <1>0, <3>1, <3>2 DEF TableOk
    <3> QED
      BY <1>3, <3>3 DEF Made
  <2> QED
    BY <1>0, <2>1, <2>2, <2>3, ContentStep DEF Making, Replacing, RestTypeOK
<1>4. ASSUME pc[u] \in {"uc", "ud", "ui", "pv"}, Putting(u)
      PROVE  (item[u] \in Chain(Hash[key[item[u]]]))'
  <2>1. PICK x, b : x = item[u] /\ b = Hash[key[x]]
    OBVIOUS
  <2>2. x \in Items /\ key[x] \in Keys /\ b \in Buckets /\ Held(u, b) /\ x \in Chain(b)
    BY <1>0, <1>4, <2>1 DEF LocalsOk, TableOk, Writing, StandsOk
  <2>3. key'[x] = key[x] /\ Chain(b)' = Chain(b)
    BY <2>2, MadeStep, HeldChain
  <2>4. item'[u] = x /\ b = Hash[key'[x]]
    BY <1>1, <2>1, <2>3
  <2> QED
    BY <2>2, <2>3, <2>4 DEF Chain
<1>5. Putting(u)' <=> Putting(u)
  BY <1>1 DEF Putting
<1> QED
  BY <1>0, <1>1, <1>2, <1>3, <1>4, <1>5 DEF StandsOk

(* What a thread comes to stand on.                                        *)
LEMMA OwnStands ==
  ASSUME TypeInv, HashInv, PointInv, NEW t \in Threads, Start(t) \/ Continue(t)
  PROVE  StandsOk(t)'
<1>0. RestTypeOK /\ LocalsOk /\ TableOk /\ StandsOk(t) /\ PointersMade
  BY TypeSplit, TableFacts DEF TypeInv, PointInv
<1>1. CASE pc'[t] \notin Standing
  BY <1>1 DEF StandsOk, Standing
<1>2. CASE pc'[t] \in Standing
  <2>0. Arrives(t)
    BY <1>2, Arrival
  <2>1. CASE Start(t) /\ pc'[t] = "gs" /\ IsGet(call'[t])
    BY <2>1 DEF StandsOk
  <2>2. CASE Making(t)
    <3>1. NewItem \in Items /\ pc'[t] = "pk" /\ value'[item'[t]] = call'[t].val
      BY <1>0, <2>2 DEF Making, Fresh, RestTypeOK
    <3> QED
      BY <3>1 DEF StandsOk
  <2>3. ASSUME UNCHANGED << hashVars, call >>, NEW x \in Items, Made(x), item'[t] = x, pc'[t] = "gt"
        PROVE  Made(item[t])'
    <3>1. Made(x)'
      BY <2>3, MadeStep
    <3> QED
      BY <2>3, <3>1 DEF Made
  <2>4. UNCHANGED hashVars => /\ \A b \in Buckets : Chain(b)' = Chain(b)
                              /\ key' = key
    BY SameChains DEF hashVars
  <2>5. CASE /\ UNCHANGED << hashVars, call >> /\ compareAndPut(t) /\ pc'[t] = "uc" /\ Putting(t)
             /\ Find(call[t].key) # NULL /\ item'[t] = Find(call[t].key)
    <3>1. call[t].key \in Keys
      BY <1>0, <2>5, CallFields DEF Putting, RestTypeOK
    <3>2. Hash[call[t].key] \in Buckets
      BY <3>1
    <3>3. Find(call[t].key) \in Matching(call[t].key)
      BY <2>5 DEF Find
    <3>4. item'[t] \in Chain(Hash[call[t].key]) /\ key[item'[t]] = call[t].key
      BY <2>5, <3>3 DEF Matching
    <3>5. PICK x, b : x = item'[t] /\ b = Hash[call[t].key]
      OBVIOUS
    <3>6. x \in Chain(b)' /\ b = Hash[key'[x]]
      BY <2>4, <2>5, <3>2, <3>4, <3>5
    <3>7. (item[t] \in Chain(Hash[key[item[t]]]))'
      BY <3>5, <3>6 DEF Chain
    <3> QED
      BY <2>5, <3>7 DEF StandsOk, Putting
  <2>6. CASE /\ UNCHANGED << hashVars, call >> /\ getFirst(t) /\ pc[t] = "gs" /\ pc'[t] = "gt"
             /\ item'[t] = entries[Hash[call[t].key]]
    <3>1. Hash[call[t].key] \in Buckets
      BY <1>0, <2>6 DEF LocalsOk
    <3>2. item'[t] # NULL => item'[t] \in Items /\ Made(item'[t])
      BY <1>0, <2>6, <3>1 DEF TableOk, Null
    <3>3. item'[t] # NULL => Made(item[t])'
      BY <2>3, <2>6, <3>2
    <3> QED
      BY <1>0, <2>6, <3>3 DEF StandsOk
  <2>7. CASE /\ UNCHANGED << hashVars, call >> /\ getWalk(t) /\ pc[t] = "gt" /\ pc'[t] = "uc"
             /\ item' = item /\ item[t] # NULL /\ key[item[t]] = call[t].key
    BY <1>0, <2>7 DEF StandsOk, Putting, IsGet
  <2>8. CASE /\ UNCHANGED << hashVars, call >> /\ getWalk(t) /\ pc[t] = "gt" /\ pc'[t] = "gt"
             /\ item'[t] = nextHash[item[t]] /\ item[t] # NULL /\ key[item[t]] # call[t].key
    <3>1. item[t] \in Items
      BY <1>0, <2>8 DEF RestTypeOK, Null
    <3>2. item'[t] # NULL => item'[t] \in Items /\ Made(item'[t])
      BY <1>0, <2>8, <3>1 DEF PointersMade, RestTypeOK, Null
    <3>3. item'[t] # NULL => Made(item[t])'
      BY <2>3, <2>8, <3>2
    <3> QED
      BY <1>0, <2>8, <3>3 DEF StandsOk
  <2>9. CASE /\ UNCHANGED << hashVars, call >>
             /\ pc[t] \in {"uc", "ud", "ui"} /\ pc'[t] \in {"ud", "ui", "pv", "gr"} /\ item' = item
             /\ pc'[t] = "pv" => Putting(t)
             /\ pc'[t] = "gr" => ~Putting(t)
    <3>1. Putting(t) => /\ item[t] \in Chain(Hash[key[item[t]]])
                        /\ Hash[key[item[t]]] \in Buckets
      BY <1>0, <2>9 DEF StandsOk, TableOk, Writing
    <3>2. ASSUME Putting(t) PROVE (item[t] \in Chain(Hash[key[item[t]]]))'
      <4>1. PICK x, b : x = item[t] /\ b = Hash[key[x]]
        OBVIOUS
      <4>2. x \in Chain(b)' /\ x = item'[t] /\ b = Hash[key'[x]]
        BY <2>4, <2>9, <3>1, <3>2, <4>1
      <4> QED
        BY <4>2 DEF Chain
    <3>3. (Putting(t)' <=> Putting(t)) /\ call'[t] = call[t] /\ item'[t] = item[t]
      BY <2>9 DEF Putting
    <3> QED
      BY <1>0, <2>9, <3>2, <3>3 DEF StandsOk
  <2> QED
    BY <2>0, <2>1, <2>2, <2>5, <2>6, <2>7, <2>8, <2>9 DEF Arrives
<1> QED
  BY <1>1, <1>2

(* Every step keeps pointers and readers on items of the table.            *)
LEMMA PointStep ==
  TypeInv /\ HashInv /\ PointInv /\ [Next]_vars => PointInv'
<1> SUFFICES ASSUME TypeInv, HashInv, PointInv, [Next]_vars PROVE PointInv'
  OBVIOUS
<1>1. CASE UNCHANGED vars
  BY <1>1 DEF vars, hashVars, PointInv, PointersMade, ValuesMade, StandsOk, Made, Chain, Putting
<1>2. ASSUME NEW t \in Threads, Start(t) \/ Continue(t) PROVE PointInv'
  <2>1. PointersMade'
    BY <1>2, PointersStep DEF PointInv
  <2>2. ValuesMade'
    BY <1>2, ValuesStep
  <2>3. \A u \in Threads : StandsOk(u)'
    BY <1>2, OtherStands, OwnStands
  <2> QED
    BY <2>1, <2>2, <2>3 DEF PointInv
<1> QED
  BY <1>1, <1>2 DEF Next

(* In a new cache there is nothing to stand on.                            *)
LEMMA PointStart == Init => PointInv
BY DEF Init, PointInv, PointersMade, ValuesMade, StandsOk

(* The search of a key finds the one item with that key                    *)
FindOk ==
  \A k \in Keys :
    /\ Find(k) # NULL => /\ Find(k) \in Items /\ Find(k) \in Chain(Hash[k]) /\ key[Find(k)] = k
                         /\ Current(k) = value[Find(k)]
    /\ Find(k) = NULL => Current(k) = NULL
    /\ \A y \in Chain(Hash[k]) : key[y] = k => y = Find(k)

(* A chain holds one item of a key, and the search finds it.               *)
LEMMA FindFacts == TableOk => FindOk
<1> SUFFICES ASSUME TableOk, NEW k \in Keys
             PROVE  /\ Find(k) # NULL => /\ Find(k) \in Items /\ Find(k) \in Chain(Hash[k])
                                         /\ key[Find(k)] = k /\ Current(k) = value[Find(k)]
                    /\ Find(k) = NULL => Current(k) = NULL
                    /\ \A y \in Chain(Hash[k]) : key[y] = k => y = Find(k)
  BY DEF FindOk
<1>1. Hash[k] \in Buckets
  OBVIOUS
<1>2. Matching(k) \subseteq Items /\ \A x, y \in Matching(k) : x = y
  BY <1>1 DEF Matching, TableOk
<1>3. CASE Matching(k) = {}
  BY <1>3 DEF Find, Current, Matching
<1>4. CASE Matching(k) # {}
  <2>1. Find(k) \in Matching(k)
    BY <1>4 DEF Find
  <2>2. Current(k) = value[Find(k)]
    BY <1>4 DEF Current
  <2>3. Find(k) \in Items /\ Find(k) \in Chain(Hash[k]) /\ key[Find(k)] = k
    BY <1>2, <2>1 DEF Matching
  <2>4. \A y \in Chain(Hash[k]) : key[y] = k => y = Find(k)
    BY <1>2, <2>1 DEF Matching
  <2> QED
    BY <2>2, <2>3, <2>4
<1> QED
  BY <1>3, <1>4

(* What is in a chain after a step was there before, or is being linked    *)
LEMMA ChainsShrink ==
  ASSUME TypeInv, HashInv, NEW t \in Threads, Start(t) \/ Continue(t),
         NEW b \in Buckets, NEW y, y \in Chain(b)'
  PROVE  y \in Chain(b) \/ (Linking(t) /\ y = item[t] /\ b = Hash[key[item[t]]])
<1>1. CASE UNCHANGED << entries, nextHash >>
  BY <1>1, SameChains
<1>2. CASE Linking(t) \/ Unlinking(t) \/ Detaching(t)
  BY <1>2 DEF Linking, Unlinking, Detaching
<1> QED
  BY <1>1, <1>2, ChainStep

(* A key that is there before and after a step has the same item           *)
LEMMA SameFind ==
  ASSUME TypeInv, HashInv, FindOk', NEW t \in Threads, Start(t) \/ Continue(t),
         NEW k \in Keys, Find(k) # NULL, Find(k)' # NULL
  PROVE  Find(k)' = Find(k)
<1>0. RestTypeOK /\ LocalsOk /\ TableOk /\ FindOk
  BY TypeSplit, TableFacts, FindFacts DEF TypeInv
<1>1. PICK y, b : y = Find(k)' /\ b = Hash[k]
  OBVIOUS
<1>2. y \in Items /\ y \in Chain(b)' /\ key'[y] = k /\ b \in Buckets
  BY <1>1 DEF FindOk
<1>3. CASE y \in Chain(b)
  <2>1. key[y] = key'[y]
    BY <1>0, <1>2, <1>3, MadeStep DEF TableOk, Made
  <2> QED
    BY <1>0, <1>1, <1>2, <1>3, <2>1 DEF FindOk
<1>4. CASE Linking(t) /\ y = item[t] /\ b = Hash[key[item[t]]]
  <2>1. pc[t] = "pk" /\ key' = key
    BY <1>4 DEF Linking, linkHash, At
  <2>2. \A x \in Chain(b) : key[x] # k
    BY <1>0, <1>2, <1>4, <2>1 DEF TableOk
  <2> QED
    BY <1>0, <1>1, <2>2 DEF FindOk
<1> QED
  BY <1>2, <1>3, <1>4, ChainsShrink

(* A value that changes is that of an item in the table                    *)
LEMMA ValueStep ==
  ASSUME TypeInv, HashInv, PointInv, NEW t \in Threads, Start(t) \/ Continue(t),
         NEW z \in Items, key[z] \in Keys
  PROVE  value'[z] = value[z] \/ z \in Chain(Hash[key[z]])'
<1>0. RestTypeOK
  BY TypeSplit DEF TypeInv
<1>1. CASE UNCHANGED << key, value >>
  BY <1>1
<1>2. CASE Making(t)
  BY <1>0, <1>2 DEF Making, Fresh, RestTypeOK
<1>3. CASE Replacing(t) /\ z # item[t]
  BY <1>0, <1>3 DEF Replacing, RestTypeOK
<1>4. CASE Replacing(t) /\ z = item[t]
  <2>1. PICK b : b = Hash[key[z]]
    OBVIOUS
  <2>2. z \in Chain(b) /\ b \in Buckets
    BY <1>4, <2>1, ReplacedIn
  <2>3. z \in Chain(b)'
    BY <1>4, <2>2, SameChains DEF Replacing
  <2>4. UNCHANGED key
    BY <1>4 DEF Replacing
  <2> QED
    BY <2>1, <2>3, <2>4 DEF Chain
<1> QED
  BY <1>1, <1>2, <1>3, <1>4, ContentStep

-----------------------------------------------------------------------------
(***************************************************************************)
(* The way of a get along a chain, told by the sets that its pointer and   *)
(* nextHash do not lead out of.                                            *)
(***************************************************************************)
Closed(S, nxt) == \A z \in S : nxt[z] \in Null(S)

(* Everything on a chain is in every closed set its head is in             *)
LEMMA ClosedReach ==
  ASSUME NEW S \in SUBSET Items, NEW C \in SUBSET Items, NEW h, NEW nxt,
         Linked(C, h, nxt), h \in Null(S), Closed(S, nxt)
  PROVE  C \subseteq S
<1>1. PICK prv \in [Items -> Null(Items)] : \E e : IsList(C, h, e, prv, nxt)
  BY DEF Linked
<1>0. PICK e : IsList(C, h, e, prv, nxt)
  BY <1>1
<1>2. PICK rank \in [Items -> Int] : Ranked(C, h, e, prv, nxt, rank)
  BY <1>0 DEF IsList
<1> DEFINE Pos(x) == Position(C, rank, x)
           Bad == {n \in Nat : \E x \in C \ S : Pos(x) = n}
<1>3. /\ \A x \in C : Pos(x) \in Nat
      /\ \A x \in C : Pos(x) = 0 <=> x = h
      /\ \A x \in C : x # e => Pos(nxt[x]) = Pos(x) + 1
  BY <1>2, Positions
<1> SUFFICES ASSUME Bad # {} PROVE FALSE
  BY <1>3
<1>4. PICK n \in Bad : \A m \in Bad : ~ (<< m, n >> \in OpToRel(<, Nat))
  <2>1. Bad \subseteq Nat
    OBVIOUS
  <2> HIDE DEF Bad
  <2> QED
    BY <2>1, NatLessThanWellFounded, WFMin
<1>5. PICK x \in C \ S : Pos(x) = n
  OBVIOUS
<1>6. x # h
  BY <1>5 DEF Null
<1>7. prv[x] \in C /\ nxt[prv[x]] = x
  BY <1>2, <1>5, <1>6 DEF Ranked
<1>8. prv[x] # e
  BY <1>2, <1>5, <1>7 DEF Ranked
<1>9. Pos(x) = Pos(prv[x]) + 1 /\ Pos(prv[x]) \in Nat
  BY <1>3, <1>7, <1>8
<1>10. prv[x] \notin S
  BY <1>5, <1>7 DEF Closed, Null
<1>11. Pos(prv[x]) \in Bad
  BY <1>7, <1>9, <1>10
<1>12. << Pos(prv[x]), n >> \in OpToRel(<, Nat)
  BY <1>5, <1>9 DEF OpToRel
<1> QED
  BY <1>4, <1>11, <1>12

(* What was closed before a step is closed after it                        *)
LEMMA ClosedAfter ==
  ASSUME TypeInv, HashInv, NEW t \in Threads, Start(t) \/ Continue(t),
         NEW S \in SUBSET Items, Closed(S, nextHash), \A z \in S : Made(z)
  PROVE  Closed(S, nextHash')
<1>0. RestTypeOK /\ LocalsOk
  BY TypeSplit DEF TypeInv
<1>1. CASE Linking(t)
  <2>1. pc[t] = "pk" /\ nextHash' = [nextHash EXCEPT ![item[t]] = entries[Hash[key[item[t]]]]]
    BY <1>1 DEF Linking, linkHash, At
  <2>2. item[t] \notin S
    BY <2>1 DEF Made
  <2> QED
    BY <1>0, <2>1, <2>2 DEF Closed, RestTypeOK
<1>2. CASE Unlinking(t)
  <2>1. PICK u, b : u = item[t] /\ b = Hash[key[u]]
    OBVIOUS
  <2>2. u \in Items /\ nextHash' = bypass(b, u)
    BY <1>0, <1>2, <2>1 DEF Unlinking, unlinkHash, At, LocalsOk
  <2>3. ASSUME NEW z \in S PROVE nextHash'[z] \in Null(S)
    <3>1. nextHash'[z] = IF z \in Chain(b) /\ nextHash[z] = u THEN nextHash[u] ELSE nextHash[z]
      BY <2>2 DEF bypass
    <3>2. nextHash[z] = u => u \in S
      BY <2>2 DEF Closed, Null
    <3> QED
      BY <3>1, <3>2 DEF Closed
  <2> QED
    BY <2>3 DEF Closed
<1>3. CASE UNCHANGED nextHash
  BY <1>3
<1> QED
  BY <1>1, <1>2, <1>3, ChainStep DEF Detaching, clearBucket

(* What is closed after a step was so before, but for the item unlinked    *)
ClosedSets(S, x) ==
  \E R \in SUBSET Items : /\ Closed(R, nextHash) /\ x \in Null(R)
                          /\ \A y \in R : y \in S \/ \A b \in Buckets : y \notin Chain(b)'

(* A set that is closed after a step comes from one that was closed before *)
LEMMA ClosedBefore ==
  ASSUME TypeInv, HashInv, PointersMade, NEW t \in Threads, Start(t) \/ Continue(t),
         NEW S \in SUBSET Items, Closed(S, nextHash'), NEW x, x \in Null(S), x # NULL => Made(x)
  PROVE  ClosedSets(S, x)
<1>0. RestTypeOK /\ LocalsOk /\ TableOk
  BY TypeSplit, TableFacts DEF TypeInv
<1>1. CASE Linking(t)
  <2>1. /\ pc[t] = "pk" /\ item[t] \in Items
        /\ nextHash' = [nextHash EXCEPT ![item[t]] = entries[Hash[key[item[t]]]]]
    BY <1>0, <1>1 DEF Linking, linkHash, At, LocalsOk
  <2>2. ~Made(item[t])
    BY <2>1 DEF Made
  <2>3. PICK R : R = S \ {item[t]}
    OBVIOUS
  <2>4. Closed(R, nextHash)
    BY <1>0, <2>1, <2>2, <2>3 DEF Closed, PointersMade, RestTypeOK, Null
  <2>5. x \in Null(R)
    BY <2>2, <2>3 DEF Null
  <2> QED
    BY <2>3, <2>4, <2>5 DEF ClosedSets
<1>2. CASE Unlinking(t)
  <2>1. PICK u, b : u = item[t] /\ b = Hash[key[u]]
    OBVIOUS
  <2>2. /\ u \in Items /\ u \in Chain(b) /\ b \in Buckets /\ nextHash' = bypass(b, u)
        /\ \A c \in Buckets : Chain(c)' = IF c = b THEN Chain(c) \ {u} ELSE Chain(c)
    BY <1>0, <1>2, <2>1 DEF Unlinking, unlinkHash, At, LocalsOk, TableOk, Writing
  <2>3. \A c \in Buckets : u \notin Chain(c)'
    BY <1>0, <2>1, <2>2 DEF TableOk
  <2>4. CASE \E p \in S : p \in Chain(b) /\ nextHash[p] = u
    <3>1. PICK R : R = S \cup {u}
      OBVIOUS
    <3>2. nextHash[u] \in Null(S)
      BY <2>2, <2>4 DEF bypass, Closed
    <3>3. Closed(R, nextHash)
      BY <2>2, <3>1, <3>2 DEF bypass, Closed, Null
    <3> QED
      BY <2>2, <2>3, <3>1, <3>3 DEF ClosedSets, Null
  <2>5. CASE ~\E p \in S : p \in Chain(b) /\ nextHash[p] = u
    <3>1. Closed(S, nextHash)
      BY <2>2, <2>5 DEF bypass, Closed
    <3> QED
      BY <3>1 DEF ClosedSets
  <2> QED
    BY <2>4, <2>5
<1>3. CASE UNCHANGED nextHash
  BY <1>3 DEF ClosedSets
<1> QED
  BY <1>1, <1>2, <1>3, ChainStep DEF Detaching, clearBucket

(* Whatever lies ahead of a get with its key has had a value the key held  *)
(* since the get began ...                                                 *)
Sees(t) ==
  \E S \in SUBSET Items :
    /\ item[t] \in Null(S) /\ Closed(S, nextHash)
    /\ \A z \in S : Made(z) /\ (key[z] = call[t].key => value[z] \in window[t])

(* ... and the item of its key lies ahead, unless the key was absent       *)
Ahead(t) ==
  NULL \notin window[t] =>
    \A S \in SUBSET Items :
      item[t] \in Null(S) /\ Closed(S, nextHash) => Find(call[t].key) \in S

Watches(t) == Current(call[t].key) \in window[t]
Hits(t) == key[item[t]] = call[t].key /\ value[item[t]] \in window[t]

WalkOk(t) ==
  IsGet(call[t]) =>
    /\ Watches(t)
    /\ pc[t] = "gt" => Sees(t) /\ Ahead(t)
    /\ pc[t] \in {"uc", "ud", "ui", "gr"} => Hits(t)

WalkInv == \A t \in Threads : WalkOk(t)

(* A get's window grows with what its key holds                            *)
LEMMA Observed ==
  ASSUME TypeInv', Observe, NEW u \in Threads, IsGet(call'[u])
  PROVE  /\ call'[u].key \in Keys
         /\ Watches(u)'
         /\ \A k : k = call'[u].key /\ IsGet(call[u])
                    => window'[u] = window[u] \cup {Current(k)'}
<1>1. call'[u] \in Calls \cup {NoCall}
  BY DEF TypeInv, TypeOK
<1>2. call'[u].key \in Keys
  BY <1>1, CallFields DEF IsGet
<1>3. PICK k : k = call'[u].key
  OBVIOUS
<1>4. contents'[k] = Current(k)'
  BY <1>2, <1>3 DEF contents
<1>5. window'[u] = (IF IsGet(call[u]) THEN window[u] ELSE {}) \cup {Current(k)'}
  BY <1>3, <1>4 DEF Observe
<1>6. Watches(u)'
  BY <1>3, <1>5 DEF Watches, Current, Find, Matching
<1> QED
  BY <1>2, <1>3, <1>5, <1>6

(* A get that another thread's step goes past                              *)
LEMMA OtherWalks ==
  ASSUME TypeInv, HashInv, PointInv, TypeInv', HashInv', Observe,
         NEW t \in Threads, Start(t) \/ Continue(t), NEW u \in Threads \ {t}, WalkOk(u)
  PROVE  WalkOk(u)'
<1> SUFFICES ASSUME IsGet(call'[u])
             PROVE  /\ Watches(u)'
                    /\ pc'[u] = "gt" => Sees(u)' /\ Ahead(u)'
                    /\ pc'[u] \in {"uc", "ud", "ui", "gr"} => Hits(u)'
  BY DEF WalkOk
<1>0. RestTypeOK /\ LocalsOk /\ TableOk /\ FindOk
  BY TypeSplit, TableFacts, FindFacts DEF TypeInv
<1>1. TableOk'
  BY TableFacts, PTL
<1>2. FindOk'
  BY <1>1, FindFacts, PTL
<1>3. pc'[u] = pc[u] /\ call'[u] = call[u] /\ item'[u] = item[u]
  BY StepAlone
<1>4. PICK k : k = call[u].key
  OBVIOUS
<1>5. k \in Keys /\ Watches(u)' /\ window'[u] = window[u] \cup {Current(k)'}
  BY <1>3, <1>4, Observed
<1>6. /\ Current(k) \in window[u]
      /\ pc[u] = "gt" => Sees(u) /\ Ahead(u)
      /\ pc[u] \in {"uc", "ud", "ui", "gr"} => Hits(u)
  BY <1>3, <1>4 DEF WalkOk, Watches
<1>7. ASSUME NEW z \in Items, key[z] = k, value[z] \in window[u]
      PROVE  key'[z] = k /\ value'[z] \in window'[u]
  <2>1. key'[z] = k /\ Hash[k] \in Buckets
    BY <1>5, <1>7, MadeStep
  <2>2. CASE value'[z] = value[z]
    BY <1>5, <1>7, <2>1, <2>2
  <2>3. CASE z \in Chain(Hash[key[z]])'
    <3>1. z \in Chain(Hash[k])'
      BY <1>7, <2>1, <2>3 DEF Chain
    <3>2. z = Find(k)' /\ z # NULL
      BY <1>2, <1>5, <2>1, <3>1 DEF FindOk
    <3>3. Current(k)' = value'[z]
      BY <1>2, <1>5, <3>2 DEF FindOk
    <3> QED
      BY <1>5, <2>1, <3>3
  <2> QED
    BY <1>5, <1>7, <2>2, <2>3, ValueStep
<1>8. ASSUME pc[u] = "gt" PROVE Sees(u)'
  <2>1. PICK S \in SUBSET Items :
          /\ item[u] \in Null(S) /\ Closed(S, nextHash)
          /\ \A z \in S : Made(z) /\ (key[z] = k => value[z] \in window[u])
    BY <1>4, <1>6, <1>8 DEF Sees
  <2>2. Closed(S, nextHash')
    BY <2>1, ClosedAfter
  <2>3. \A z \in S : Made(z)'
    BY <2>1, MadeStep
  <2>4. \A z \in S : key'[z] = key[z]
    BY <2>1, MadeStep DEF Made
  <2>5. \A z \in S : key'[z] = k => value'[z] \in window'[u]
    BY <1>7, <2>1, <2>4
  <2> QED
    BY <1>3, <1>4, <2>1, <2>2, <2>3, <2>5 DEF Sees
<1>9. ASSUME pc[u] = "gt" PROVE Ahead(u)'
  <2> SUFFICES ASSUME NULL \notin window'[u], NEW S \in SUBSET Items, item'[u] \in Null(S),
                      Closed(S, nextHash')
               PROVE  Find(k)' \in S
    BY <1>3, <1>4 DEF Ahead, Find, Matching
  <2>1. Find(k) # NULL /\ Find(k)' # NULL
    BY <1>0, <1>2, <1>5, <1>6 DEF FindOk
  <2>2. Find(k)' = Find(k)
    BY <1>2, <1>5, <2>1, SameFind
  <2>3. PICK x, y : x = item[u] /\ y = Find(k)
    OBVIOUS
  <2>4. x \in Null(S) /\ (x # NULL => Made(x))
    BY <1>3, <1>9, <2>3 DEF PointInv, StandsOk
  <2>5. ClosedSets(S, x)
    BY <2>4, ClosedBefore DEF PointInv
  <2>6. PICK R \in SUBSET Items :
          /\ Closed(R, nextHash) /\ x \in Null(R)
          /\ \A z \in R : z \in S \/ \A b \in Buckets : z \notin Chain(b)'
    BY <2>5 DEF ClosedSets
  <2>7. y \in R
    BY <1>4, <1>5, <1>6, <1>9, <2>3, <2>6 DEF Ahead
  <2>8. y \in Chain(Hash[k])' /\ Hash[k] \in Buckets
    BY <1>2, <1>5, <2>1, <2>2, <2>3 DEF FindOk
  <2> QED
    BY <2>2, <2>3, <2>6, <2>7, <2>8
<1>10. ASSUME pc[u] \in {"uc", "ud", "ui", "gr"} PROVE Hits(u)'
  <2>1. item[u] \in Items
    BY <1>0, <1>10 DEF LocalsOk
  <2>2. PICK z : z = item[u]
    OBVIOUS
  <2>3. key'[z] = k /\ value'[z] \in window'[u]
    BY <1>4, <1>6, <1>7, <1>10, <2>1, <2>2 DEF Hits
  <2> QED
    BY <1>3, <1>4, <2>2, <2>3 DEF Hits
<1> QED
  BY <1>3, <1>5, <1>8, <1>9, <1>10

(* The table as it was                                                     *)
LEMMA SameTable ==
  ASSUME UNCHANGED hashVars
  PROVE  /\ UNCHANGED << key, value, nextHash, entries >>
         /\ \A k : Find(k)' = Find(k) /\ Current(k)' = Current(k)
BY DEF hashVars, Current, Find, Matching, Chain

(* A get that moves                                                        *)
LEMMA OwnWalks ==
  ASSUME TypeInv, HashInv, PointInv, TypeInv', Observe,
         NEW t \in Threads, Start(t) \/ Continue(t), WalkOk(t)
  PROVE  WalkOk(t)'
<1> SUFFICES ASSUME IsGet(call'[t])
             PROVE  /\ Watches(t)'
                    /\ pc'[t] = "gt" => Sees(t)' /\ Ahead(t)'
                    /\ pc'[t] \in {"uc", "ud", "ui", "gr"} => Hits(t)'
  BY DEF WalkOk
<1>0. RestTypeOK /\ LocalsOk /\ TableOk /\ FindOk
  BY TypeSplit, TableFacts, FindFacts DEF TypeInv
<1>1. PICK k : k = call'[t].key
  OBVIOUS
<1>2. /\ k \in Keys /\ Watches(t)' /\ Hash[k] \in Buckets
      /\ IsGet(call[t]) => window'[t] = window[t] \cup {Current(k)'}
  BY <1>1, Observed
<1>3. CASE pc'[t] \notin {"gt", "uc", "ud", "ui", "gr"}
  BY <1>2, <1>3
<1>4. CASE pc'[t] \in {"gt", "uc", "ud", "ui", "gr"}
  <2>1. UNCHANGED << hashVars, call >> /\ Arrives(t)
    BY <1>4, Arrival DEF Standing, Arrives, Making
  <2>2. /\ UNCHANGED << key, value, nextHash, entries >>
        /\ Find(k)' = Find(k) /\ Current(k)' = Current(k)
    BY <2>1, SameTable
  <2>3. /\ k = call[t].key /\ IsGet(call[t]) /\ Current(k) \in window[t] /\ window'[t] = window[t]
    BY <1>1, <1>2, <2>1, <2>2 DEF WalkOk, Watches
  <2>4. CASE getFirst(t) /\ pc'[t] = "gt" /\ item'[t] = entries[Hash[call[t].key]]
    <3>1. PICK C, b : C = Chain(b) /\ b = Hash[k]
      OBVIOUS
    <3>2. /\ C \in SUBSET Items /\ entries[b] \in Null(C) /\ \A z \in C : Made(z)
          /\ Closed(C, nextHash)
      BY <1>0, <1>2, <3>1 DEF TableOk, Closed
    <3>3. \A z \in C : key[z] = k => value[z] = Current(k)
      BY <1>0, <1>2, <3>1, <3>2 DEF FindOk
    <3>4. Sees(t)'
      <4>1. \A z \in C : Made(z)'
        BY <3>2, MadeStep
      <4>2. item'[t] \in Null(C) /\ Closed(C, nextHash')
        BY <2>2, <2>3, <2>4, <3>1, <3>2
      <4>3. \A z \in C : key'[z] = call'[t].key => value'[z] \in window'[t]
        BY <1>1, <2>2, <2>3, <3>3
      <4> QED
        BY <3>2, <4>1, <4>2, <4>3 DEF Sees
    <3>5. Ahead(t)'
      <4> SUFFICES ASSUME NULL \notin window'[t], NEW S \in SUBSET Items, item'[t] \in Null(S),
                          Closed(S, nextHash')
                   PROVE  Find(k)' \in S
        BY <1>1 DEF Ahead, Find, Matching
      <4>1. PICK chain, det : Placed(chain, det)
        BY DEF HashInv
      <4>2. chain[b] = C /\ Linked(chain[b], entries[b], nextHash)
        BY <1>2, <3>1, <4>1, ChainIs DEF Placed, Chains
      <4>3. entries[b] \in Null(S) /\ Closed(S, nextHash)
        BY <2>2, <2>3, <2>4, <3>1
      <4>4. PICK h, nxt : h = entries[b] /\ nxt = nextHash
        OBVIOUS
      <4>5. Linked(C, h, nxt) /\ h \in Null(S) /\ Closed(S, nxt)
        BY <4>2, <4>3, <4>4
      <4>6. C \subseteq S
        BY <3>2, <4>5, ClosedReach
      <4>7. Find(k) # NULL
        BY <1>0, <1>2, <2>3 DEF FindOk
      <4>8. Find(k) \in C
        BY <1>0, <1>2, <3>1, <4>7 DEF FindOk
      <4> QED
        BY <2>2, <4>6, <4>8
    <3> QED
      BY <1>2, <2>4, <3>4, <3>5
  <2>5. CASE /\ getWalk(t) /\ pc[t] = "gt" /\ item[t] # NULL
    <3>1. Sees(t) /\ Ahead(t)
      BY <2>3, <2>5 DEF WalkOk
    <3>2. PICK S \in SUBSET Items :
            /\ item[t] \in Null(S) /\ Closed(S, nextHash)
            /\ \A z \in S : Made(z) /\ (key[z] = k => value[z] \in window[t])
      BY <2>3, <3>1 DEF Sees
    <3>3. PICK x : x = item[t]
      OBVIOUS
    <3>4. x \in S
      BY <2>5, <3>2, <3>3 DEF Null
    <3>5. CASE pc'[t] = "uc" /\ item' = item /\ key[item[t]] = call[t].key
      <4>1. Hits(t)'
        BY <1>1, <2>2, <2>3, <3>2, <3>3, <3>4, <3>5 DEF Hits
      <4> QED
        BY <1>2, <3>5, <4>1
    <3>6. CASE pc'[t] = "gt" /\ item'[t] = nextHash[item[t]] /\ key[item[t]] # call[t].key
      <4>1. Sees(t)'
        <5>1. \A z \in S : Made(z)'
          BY <3>2, MadeStep
        <5>2. item'[t] \in Null(S) /\ Closed(S, nextHash')
          BY <2>2, <3>2, <3>3, <3>4, <3>6 DEF Closed
        <5>3. \A z \in S : key'[z] = call'[t].key => value'[z] \in window'[t]
          BY <1>1, <2>2, <2>3, <3>2
        <5> QED
          BY <5>1, <5>2, <5>3 DEF Sees
      <4>2. Ahead(t)'
        <5> SUFFICES ASSUME NULL \notin window'[t], NEW R \in SUBSET Items, item'[t] \in Null(R),
                            Closed(R, nextHash')
                     PROVE  Find(k)' \in R
          BY <1>1 DEF Ahead, Find, Matching
        <5>1. PICK Q : Q = R \cup {x}
          OBVIOUS
        <5>2. Q \in SUBSET Items /\ item[t] \in Null(Q) /\ Closed(Q, nextHash)
          BY <2>2, <3>3, <3>4, <3>6, <5>1 DEF Closed, Null
        <5>3. Find(k) \in Q
          BY <2>3, <3>1, <5>2 DEF Ahead
        <5>4. Find(k) # NULL
          BY <1>0, <1>2, <2>3 DEF FindOk
        <5>5. key[Find(k)] = k
          BY <1>0, <1>2, <5>4 DEF FindOk
        <5> QED
          BY <2>2, <2>3, <3>3, <3>6, <5>1, <5>3, <5>5
      <4> QED
        BY <1>2, <3>6, <4>1, <4>2
    <3>7. \/ pc'[t] = "uc" /\ item' = item /\ key[item[t]] = call[t].key
          \/ pc'[t] = "gt" /\ item'[t] = nextHash[item[t]] /\ key[item[t]] # call[t].key
      BY <1>0, <2>5 DEF getWalk, Jump, Load, Goto, RestTypeOK
    <3> QED
      BY <3>5, <3>6, <3>7
  <2>6. CASE /\ pc[t] \in {"uc", "ud", "ui"} /\ pc'[t] \in {"ud", "ui", "pv", "gr"} /\ item' = item
    <3>1. Hits(t)
      BY <2>3, <2>6 DEF WalkOk
    <3>2. Hits(t)'
      BY <1>1, <2>2, <2>3, <2>6, <3>1 DEF Hits
    <3> QED
      BY <1>2, <2>6, <3>2
  <2>7. ~Putting(t)
    BY <2>3 DEF Putting, IsGet
  <2> QED
    BY <1>4, <2>1, <2>4, <2>5, <2>6, <2>7 DEF Arrives, Making
<1> QED
  BY <1>3, <1>4

(* What a step records of the gets that are under way.                     *)
LEMMA HistoryStep ==
  ASSUME HNext
  PROVE  Next /\ \E t \in Threads : (Start(t) \/ Continue(t)) /\ Observe
BY DEF HNext, Next

(* Every step keeps what a get sees and what it watches.                   *)
LEMMA WalkInvStep ==
  TypeInv /\ HashInv /\ PointInv /\ TypeInv' /\ HashInv' /\ WalkInv /\ [HNext]_hvars => WalkInv'
<1> SUFFICES ASSUME TypeInv, HashInv, PointInv, TypeInv', HashInv', WalkInv, [HNext]_hvars
             PROVE  WalkInv'
  OBVIOUS
<1>1. CASE UNCHANGED hvars
  <2>1. UNCHANGED << hashVars, pc, call, item, window >>
    BY <1>1 DEF hvars, vars
  <2> QED
    BY <2>1 DEF hashVars, WalkInv, WalkOk, Watches, Sees, Ahead, Hits, Closed, Made, Current, Find,
                Matching, Chain
<1>2. CASE HNext
  <2>1. PICK t \in Threads : (Start(t) \/ Continue(t)) /\ Observe
    BY <1>2, HistoryStep
  <2>2. ASSUME NEW u \in Threads PROVE WalkOk(u)'
    <3>1. WalkOk(u)
      BY DEF WalkInv
    <3>2. CASE u = t
      BY <2>1, <3>1, <3>2, OwnWalks
    <3>3. CASE u # t
      BY <2>1, <3>1, <3>3, OtherWalks
    <3> QED
      BY <3>2, <3>3
  <2> QED
    BY <2>2 DEF WalkInv
<1> QED
  BY <1>1, <1>2

(* The history is recorded beside the cache and never steers it.           *)
LEMMA HistoryRefines == [HNext]_hvars => [Next]_vars
BY HistoryStep DEF hvars

(* What the run checks follows from what a get sees and watches.           *)
LEMMA WalkFollows == TypeInv /\ PointInv /\ WalkInv => GetIsLinearizable
<1> SUFFICES ASSUME TypeInv, PointInv, WalkInv, NEW t \in Threads
             PROVE  /\ At(t, "gr") /\ IsGet(call[t]) => GetResult(t) \in window[t]
                    /\ At(t, "gt") /\ item[t] = NULL => GetResult(t) \in window[t]
  BY DEF GetIsLinearizable
<1>0. LocalsOk
  BY TypeSplit DEF TypeInv
<1>1. ASSUME At(t, "gr"), IsGet(call[t]) PROVE GetResult(t) \in window[t]
  <2>1. item[t] \in Items /\ Hits(t)
    BY <1>0, <1>1 DEF LocalsOk, At, WalkInv, WalkOk
  <2> QED
    BY <2>1 DEF GetResult, Hits
<1>2. ASSUME At(t, "gt"), item[t] = NULL PROVE GetResult(t) \in window[t]
  <2>1. Ahead(t)
    BY <1>2 DEF At, PointInv, StandsOk, WalkInv, WalkOk
  <2>2. NULL \in window[t]
    <3>1. NULL \in Null({}) /\ Closed({}, nextHash)
      BY DEF Null, Closed
    <3> QED
      BY <1>2, <2>1, <3>1 DEF Ahead
  <2> QED
    BY <1>2, <2>2 DEF GetResult
<1> QED
  BY <1>1, <1>2

(* What a get returns, hit or miss, is what its key held at some moment    *)
(* between the call and the return (LruCache.get, which takes no lock),    *)
(* for any number of threads, keys, buckets and operations, as long as no  *)
(* item is hit Integer.MAX_VALUE times and the listeners are enabled or    *)
(* clear() is not called.                                                  *)
THEOREM GetsAreLinearizable ==
  ASSUME Listening PROVE HSpec /\ []NoOverflow => []GetIsLinearizable
<1> DEFINE I == TypeInv /\ LruInv /\ HashInv /\ PointInv
<1>1. HInit => I /\ WalkInv
  <2>1. HInit => WalkInv
    BY DEF HInit, Init, NoCall, IsGet, WalkInv, WalkOk
  <2> QED
    BY <2>1, TypeInitial, LruStart, HashStart, PointStart DEF HInit
<1>2. I /\ NoOverflow /\ [HNext]_hvars => I'
  BY TypeStep, LruInvStep, HashStep, PointStep, HistoryRefines
<1>3. I /\ WalkInv /\ NoOverflow /\ [HNext]_hvars => WalkInv'
  BY <1>2, WalkInvStep
<1>4. I /\ WalkInv => GetIsLinearizable
  BY WalkFollows
<1> HIDE DEF I
<1> QED
  BY <1>1, <1>2, <1>3, <1>4, PTL DEF HSpec

-----------------------------------------------------------------------------
(***************************************************************************)
(* The listeners.  Which items are in the table, or in the hands of a      *)
(* clear(), is told by their hit count and by the threads that are about   *)
(* to link or to unlink them.                                              *)
(***************************************************************************)
Linker(x) == \E t \in Threads : pc[t] = "pk" /\ item[t] = x
Unlinker(x) == \E t \in Threads : pc[t] = "un" /\ item[t] = x
Live(x) == (hitCount[x] > 0 /\ ~Linker(x)) \/ Unlinker(x)
InTable(x) ==
  \/ \E b \in Buckets : x \in Chain(b)
  \/ \E t \in Threads : pc[t] = "ci" /\ x \in Reach(item[t], nextHash)

(* Where an item is, and what its hit count then is                        *)
LiveOk ==
  /\ \A x \in Items : InTable(x) <=> Live(x)
  /\ \A t \in Threads :
       /\ pc[t] = "pk" => /\ hitCount[item[t]] > 0 /\ ~Unlinker(item[t])
                          /\ \A u \in Threads : pc[u] = "pk" /\ item[u] = item[t] => u = t
       /\ pc[t] = "un" => /\ hitCount[item[t]] <= 0
                          /\ \A u \in Threads : pc[u] = "un" /\ item[u] = item[t] => u = t
       /\ pc[t] = "ci" /\ item[t] # NULL
            => /\ hitCount[item[t]] > 0 /\ key[item[t]] \in Keys
               /\ ~Linker(item[t]) /\ ~Unlinker(item[t])

(* An item is in the table, or detached by a clear(), exactly when its     *)
(* hit count and its writers say so.                                       *)
LEMMA LiveFacts == TypeInv /\ HashInv => LiveOk
<1> SUFFICES ASSUME TypeInv, HashInv PROVE LiveOk
  OBVIOUS
<1>0. RestTypeOK /\ LocalsOk /\ LruTypeOK
  BY TypeSplit DEF TypeInv
<1>1. PICK chain, det : Placed(chain, det)
  BY DEF HashInv
<1>2. /\ Chains(chain) /\ chain \in [Buckets -> SUBSET Items] /\ det \in [Threads -> SUBSET Items]
      /\ Members(chain, det)
  BY <1>1 DEF Placed, Chains
<1>3. \A b \in Buckets : Chain(b) = chain[b]
  BY <1>2, ChainIs
<1>4. ASSUME NEW t \in Threads
      PROVE  /\ pc[t] = "ci" => /\ Reach(item[t], nextHash) = det[t]
                                /\ (item[t] # NULL => item[t] \in det[t])
             /\ pc[t] # "ci" => det[t] = {}
             /\ \A x \in det[t] : key[x] \in Keys
  <2>1. Detaches(t, chain, det[t]) /\ det[t] \in SUBSET Items
    BY <1>1 DEF Placed
  <2>2. CASE pc[t] = "ci"
    <3>1. Linked(det[t], item[t], nextHash)
      BY <2>1, <2>2 DEF Detaches
    <3>2. PICK D, h, nxt : D = det[t] /\ h = item[t] /\ nxt = nextHash
      OBVIOUS
    <3>3. Reach(h, nxt) = D /\ h \in Null(D)
      BY <2>1, <3>1, <3>2, LinkedReach
    <3> QED
      BY <2>1, <2>2, <3>2, <3>3 DEF Detaches, Null
  <2>3. CASE pc[t] # "ci"
    BY <2>1, <2>3 DEF Detaches
  <2> QED
    BY <2>2, <2>3
<1>5. \A x \in Items : InTable(x) <=> (\E b \in Buckets : x \in chain[b]) \/ (\E t \in Threads : x \in det[t])
  BY <1>3, <1>4 DEF InTable
<1>6. \A x \in Items :
        /\ Linker(x) => (\A b \in Buckets : x \notin chain[b]) /\ (\A u \in Threads : x \notin det[u])
        /\ (\E u \in Threads : x \in det[u]) => \A b \in Buckets : x \notin chain[b]
  BY <1>0, <1>1, Apart DEF Linker
<1>7. \A t \in Threads : pc[t] = "un" => \E b \in Buckets : item[t] \in chain[b]
  <2> SUFFICES ASSUME NEW t \in Threads, pc[t] = "un" PROVE \E b \in Buckets : item[t] \in chain[b]
    OBVIOUS
  <2>1. key[item[t]] \in Keys /\ item[t] \in chain[Hash[key[item[t]]]]
    BY <1>1 DEF Placed, Guards, Writing
  <2> QED
    BY <2>1
<1>8. \A x \in Items : hitCount[x] > 0 <=>
        \/ (\E b \in Buckets : x \in chain[b]) /\ ~Unlinker(x)
        \/ Linker(x)
        \/ \E t \in Threads : x \in det[t]
  BY <1>2 DEF Members, Linker, Unlinker
<1>9. \A x \in Items : Unlinker(x) => \E b \in Buckets : x \in chain[b]
  BY <1>7 DEF Unlinker
<1>10. \A x \in Items : InTable(x) <=> Live(x)
  BY <1>5, <1>6, <1>8, <1>9 DEF Live
<1>11. ASSUME NEW t \in Threads, pc[t] \in {"pk", "un"}
       PROVE  /\ item[t] \in Items /\ hitCount[item[t]] \in Int
              /\ \A u \in Threads : pc[u] \in {"pk", "un"} /\ item[u] = item[t] => u = t
  <2>1. \A u \in Threads : pc[u] \in {"pk", "un"} => Held(u, Hash[key[item[u]]])
    BY <1>1 DEF Placed, Guards, Writing
  <2> QED
    BY <1>0, <1>11, <2>1 DEF Held, LocalsOk, LruTypeOK
<1>12. ASSUME NEW t \in Threads, pc[t] = "pk"
       PROVE  /\ hitCount[item[t]] > 0 /\ ~Unlinker(item[t])
              /\ \A u \in Threads : pc[u] = "pk" /\ item[u] = item[t] => u = t
  BY <1>8, <1>11, <1>12 DEF Linker, Unlinker
<1>13. ASSUME NEW t \in Threads, pc[t] = "un"
       PROVE  /\ hitCount[item[t]] <= 0
              /\ \A u \in Threads : pc[u] = "un" /\ item[u] = item[t] => u = t
  <2>1. PICK x : x = item[t]
    OBVIOUS
  <2>2. x \in Items /\ hitCount[x] \in Int /\ Unlinker(x)
    BY <1>11, <1>13, <2>1 DEF Unlinker
  <2>3. ~(hitCount[x] > 0)
    BY <1>6, <1>8, <1>9, <2>2
  <2>4. hitCount[x] <= 0
    BY <2>2, <2>3
  <2> QED
    BY <1>11, <1>13, <2>1, <2>4
<1>14. ASSUME NEW t \in Threads, pc[t] = "ci", item[t] # NULL
       PROVE  /\ hitCount[item[t]] > 0 /\ key[item[t]] \in Keys
              /\ ~Linker(item[t]) /\ ~Unlinker(item[t])
  <2>1. item[t] \in det[t] /\ item[t] \in Items /\ key[item[t]] \in Keys
    BY <1>2, <1>4, <1>14
  <2> QED
    BY <1>6, <1>8, <1>9, <2>1
<1> QED
  BY <1>10, <1>12, <1>13, <1>14 DEF LiveOk

(* What clear() has collected is neither in the table nor in the lists,    *)
(* and one clear() collected it                                            *)
HoldInv ==
  \A t \in Threads : \A x \in listeners[t] :
    /\ hitCount[x] <= 0 /\ key[x] \in Keys /\ ~Unlinker(x)
    /\ \A u \in Threads : x \in listeners[u] => u = t

(* The items whose value still has to be informed                          *)
Kept == {x \in Items : Live(x) \/ \E t \in Threads : x \in listeners[t]}

(* The steps, by what they do to those items                               *)
Calm(t) ==
  /\ \A x \in Items : hitCount'[x] > 0 <=> hitCount[x] > 0
  /\ pc[t] \notin {"pk", "un"} /\ pc'[t] \notin {"pk", "un"} /\ UNCHANGED listeners
Taking(t) ==
  /\ pc[t] = "rm" /\ pc'[t] = "un" /\ UNCHANGED listeners
  /\ item'[t] \in Items /\ hitCount' = [hitCount EXCEPT ![item'[t]] = -1]
  /\ hitCount[item'[t]] > 0 /\ ~Linker(item'[t]) /\ ~Unlinker(item'[t])
Adding(t) ==
  /\ Making(t) /\ pc[t] = "pl" /\ UNCHANGED listeners
  /\ hitCount' = [hitCount EXCEPT ![NewItem] = 1] /\ hitCount[NewItem] <= 0
Joining(t) ==
  /\ linkHash(t) /\ pc[t] = "pk" /\ pc'[t] = "idle" /\ UNCHANGED << hitCount, listeners >>
Leaving(t) ==
  /\ unlinkHash(t) /\ pc[t] = "un" /\ pc'[t] = "re" /\ UNCHANGED << hitCount, listeners >>
Collecting(t) ==
  /\ pc[t] = "ci" /\ pc'[t] = "ci" /\ item[t] \in Items
  /\ hitCount' = [hitCount EXCEPT ![item[t]] = -1]
  /\ listeners' = [listeners EXCEPT ![t] = @ \cup {item[t]}]
Informing(t) ==
  /\ clearEvents(t) /\ pc[t] = "ce" /\ pc'[t] = "idle" /\ UNCHANGED hitCount
  /\ listeners' = [listeners EXCEPT ![t] = {}]

(* remove() finds an item that is in the table and that nobody else is     *)
(* about to unlink: the bucket's lock is free                              *)
LEMMA Takes ==
  ASSUME TypeInv, HashInv, NEW t \in Threads, remove(t), Find(RemoveKey(t)) # NULL
  PROVE  Taking(t)
<1>0. RestTypeOK /\ LocalsOk /\ LruTypeOK /\ TableOk /\ FindOk /\ LiveOk
  BY TypeSplit, TableFacts, FindFacts, LiveFacts DEF TypeInv
<1>1. PICK k, x : k = RemoveKey(t) /\ x = Find(k)
  OBVIOUS
<1>2. /\ pc[t] = "rm" /\ Free(Hash[k]) /\ removeLruItem(x) /\ Load(t, "un", x) /\ UNCHANGED listeners
  BY <1>1 DEF remove, At
<1>3. k \in Keys
  <2>1. PICK chain, det : Placed(chain, det)
    BY DEF HashInv
  <2>2. call[t].op = "remove" \/ (item[t] \in Items /\ key[item[t]] \in Keys)
    BY <1>2, <2>1 DEF Placed, Guards
  <2> QED
    BY <1>0, <1>1, <2>2, CallFields DEF RemoveKey, RestTypeOK
<1>4. x \in Items /\ x \in Chain(Hash[k]) /\ key[x] = k /\ Hash[k] \in Buckets
  BY <1>0, <1>1, <1>3 DEF FindOk
<1>5. ~Unlinker(x) /\ ~Linker(x)
  BY <1>0, <1>2, <1>4 DEF TableOk, Writing, Held, Free, Unlinker, Linker
<1>6. hitCount[x] > 0
  BY <1>0, <1>4, <1>5 DEF LiveOk, InTable, Live
<1>7. pc'[t] = "un" /\ item'[t] = x
  BY <1>0, <1>2 DEF Load, Goto, RestTypeOK
<1> QED
  BY <1>2, <1>4, <1>5, <1>6, <1>7 DEF Taking, removeLruItem

(* Every step is one of those kinds.                                       *)
LEMMA Classes ==
  ASSUME EnableListeners, TypeInv, LruInv, HashInv, NoOverflow,
         NEW t \in Threads, Start(t) \/ Continue(t)
  PROVE  \/ Calm(t) \/ Taking(t) \/ Adding(t) \/ Joining(t) \/ Leaving(t)
         \/ Collecting(t) \/ Informing(t)
<1>0. RestTypeOK /\ LocalsOk /\ LruTypeOK
  BY TypeSplit DEF TypeInv
<1>1. CASE Start(t)
  <2>1. PICK c \in Calls : call' = [call EXCEPT ![t] = c] /\ Goto(t, Entry(c.op))
    BY <1>1 DEF Start
  <2>2. pc'[t] = Entry(c.op)
    BY <1>0, <2>1 DEF Goto, RestTypeOK
  <2> QED
    BY <1>1, <2>2, EntryOf DEF Start, At, lruVars, Calm
<1>2. CASE readSize1(t) \/ removeLru(t) \/ compareAndSet(t) \/ removeLruLoop(t)
  BY <1>0, <1>2 DEF readSize1, removeLru, compareAndSet, removeLruLoop, EndOfLoop, Jump, Count,
                    Goto, At, lruVars, RestTypeOK, Calm
<1>3. CASE removeTail(t) \/ removeLongestTail(t)
  BY <1>0, <1>3 DEF removeTail, removeLongestTail, EndOfLoop, Jump, Load, Count, Return, Goto,
                    At, lruVars, RestTypeOK, Calm
<1>4. CASE remove(t) /\ Find(RemoveKey(t)) # NULL
  BY <1>4, Takes
<1>5. CASE remove(t) /\ Find(RemoveKey(t)) = NULL
  BY <1>0, <1>5 DEF remove, AfterRemove, Return, Goto, At, lruVars, RestTypeOK, Calm
<1>6. CASE unlinkHash(t)
  BY <1>0, <1>6 DEF unlinkHash, Goto, At, lruVars, RestTypeOK, Leaving
<1>7. CASE linkHash(t)
  BY <1>0, <1>7 DEF linkHash, Return, Goto, At, lruVars, RestTypeOK, Joining
<1>8. CASE removeEvent(t) \/ replaceValue(t)
  BY <1>0, <1>8 DEF removeEvent, replaceValue, AfterRemove, Return, Goto, At, lruVars, RestTypeOK,
                    Calm
<1>9. CASE compareAndPut(t)
  <2>1. CASE pc'[t] \in Standing /\ pc'[t] # "uc"
    <3>1. pc'[t] = "pk" /\ pc[t] = "pl" /\ UNCHANGED listeners
      BY <1>0, <1>9, <2>1 DEF compareAndPut, Load, Return, Goto, At, RestTypeOK, Standing
    <3>2. Making(t)
      BY <2>1, <3>1, Arrival DEF Arrives
    <3>3. linkNewItem(NewItem)
      BY <1>0, <1>9, <3>1 DEF compareAndPut, Load, Return, Goto, RestTypeOK
    <3>4. hitCount[NewItem] <= 0
      BY <3>2 DEF Making, Fresh, LruInv, FreshInv
    <3> QED
      BY <3>1, <3>2, <3>3, <3>4 DEF Adding, linkNewItem
  <2>2. CASE pc'[t] \notin Standing \/ pc'[t] = "uc"
    BY <1>0, <1>9, <2>2 DEF compareAndPut, Load, Return, Goto, At, lruVars, RestTypeOK, Standing, Calm
  <2> QED
    BY <2>1, <2>2
<1>10. CASE updateLru(t)
  BY <1>0, <1>10 DEF updateLru, AfterUpdate, Jump, Count, Goto, At, lruVars, RestTypeOK, Calm
<1>11. CASE updateLruLocked(t)
  <2>1. item[t] \in Items /\ updateLruImpl(item[t])
    BY <1>0, <1>11 DEF updateLruLocked, At, LocalsOk
  <2>2. \A y \in Items : hitCount'[y] > 0 <=> hitCount[y] > 0
    BY <1>0, <2>1, UpdateKeeps
  <2> QED
    BY <1>0, <1>11, <2>2 DEF updateLruLocked, AfterUpdate, Jump, Goto, At, RestTypeOK, Calm
<1>12. CASE getFirst(t) \/ getWalk(t) \/ getReturn(t)
  BY <1>0, <1>12 DEF getFirst, getWalk, getReturn, Jump, Load, Return, Goto, At, lruVars, RestTypeOK,
                     Calm
<1>13. CASE clear(t) \/ clearBucket(t)
  BY <1>0, <1>13 DEF clear, clearBucket, BeginClear, Jump, Load, Count, Return, Goto, At, lruVars,
                     RestTypeOK, Calm
<1>14. CASE clearItem(t)
  <2>1. CASE item[t] = NULL
    BY <1>0, <1>14, <2>1 DEF clearItem, Goto, At, lruVars, RestTypeOK, Calm
  <2>2. CASE item[t] # NULL
    BY <1>0, <1>14, <2>2 DEF clearItem, removeLruItem, Load, Goto, At, RestTypeOK, Null, Collecting
  <2> QED
    BY <2>1, <2>2
<1>15. CASE clearEvents(t)
  BY <1>0, <1>15 DEF clearEvents, Return, Goto, At, lruVars, RestTypeOK, Informing
<1> QED
  BY <1>1, <1>2, <1>3, <1>4, <1>5, <1>6, <1>7, <1>8, <1>9, <1>10, <1>11, <1>12, <1>13, <1>14, <1>15
     DEF Continue

(* Who links and who unlinks, after a step of t                            *)
LEMMA Movers ==
  ASSUME TypeInv, NEW t \in Threads, Start(t) \/ Continue(t), NEW x
  PROVE  /\ Linker(x)' <=> \/ \E u \in Threads \ {t} : pc[u] = "pk" /\ item[u] = x
                           \/ pc'[t] = "pk" /\ item'[t] = x
         /\ Unlinker(x)' <=> \/ \E u \in Threads \ {t} : pc[u] = "un" /\ item[u] = x
                             \/ pc'[t] = "un" /\ item'[t] = x
BY StepAlone DEF Linker, Unlinker

(* What a step does to the items still to be informed of                   *)
KeptBy(t) ==
  \/ Joining(t) /\ item[t] \in Items \ Kept /\ Kept' = Kept \cup {item[t]}
  \/ Leaving(t) /\ item[t] \in Kept /\ Kept' = Kept \ {item[t]}
  \/ Informing(t) /\ listeners[t] \subseteq Kept /\ Kept' = Kept \ listeners[t]
  \/ Calm(t) /\ Kept' = Kept
  \/ Adding(t) /\ Kept' = Kept /\ NewItem \notin Kept
  \/ Taking(t) /\ Kept' = Kept
  \/ Collecting(t) /\ Kept' = Kept

(* What each kind of step adds to the items to be informed, or takes from  *)
(* them.                                                                   *)
LEMMA KeptStep ==
  ASSUME EnableListeners, TypeInv, LruInv, HashInv, NoOverflow, HoldInv,
         NEW t \in Threads, Start(t) \/ Continue(t)
  PROVE  KeptBy(t) /\ HoldInv'
<1>0. RestTypeOK /\ LocalsOk /\ LruTypeOK /\ TableOk /\ LiveOk
  BY TypeSplit, TableFacts, LiveFacts DEF TypeInv
<1>1. \A u \in Threads : listeners[u] \subseteq Items /\ (u # t => listeners'[u] = listeners[u])
  BY <1>0, StepAlone DEF RestTypeOK
<1>2. \A x \in Items : key[x] \in Keys => key'[x] = key[x]
  BY MadeStep
<1>3. \A x : /\ Linker(x)' <=> \/ \E u \in Threads \ {t} : pc[u] = "pk" /\ item[u] = x
                               \/ pc'[t] = "pk" /\ item'[t] = x
             /\ Unlinker(x)' <=> \/ \E u \in Threads \ {t} : pc[u] = "un" /\ item[u] = x
                                 \/ pc'[t] = "un" /\ item'[t] = x
  BY Movers
<1>4. \A x : /\ Linker(x) <=> \/ \E u \in Threads \ {t} : pc[u] = "pk" /\ item[u] = x
                              \/ pc[t] = "pk" /\ item[t] = x
             /\ Unlinker(x) <=> \/ \E u \in Threads \ {t} : pc[u] = "un" /\ item[u] = x
                                \/ pc[t] = "un" /\ item[t] = x
  BY DEF Linker, Unlinker
<1>5. \A x \in Items : hitCount[x] \in Int
  BY <1>0 DEF LruTypeOK
<1>6. CASE Calm(t)
  <2>1. \A x \in Items : Live(x)' <=> Live(x)
    BY <1>3, <1>4, <1>6 DEF Calm, Live
  <2>2. Kept' = Kept
    BY <1>6, <2>1 DEF Kept, Calm
  <2>3. \A x \in Items : hitCount[x] <= 0 => hitCount'[x] <= 0
    <3>1. \A x \in Items : hitCount'[x] \in Int
      BY TypeStep DEF TypeInv, TypeOK, Next
    <3> QED
      BY <1>5, <1>6, <3>1 DEF Calm
  <2>4. \A x : Unlinker(x)' => Unlinker(x)
    BY <1>3, <1>4, <1>6 DEF Calm
  <2>5. HoldInv'
    BY <1>1, <1>2, <1>6, <2>3, <2>4 DEF HoldInv, Calm
  <2> QED
    BY <1>6, <2>2, <2>5 DEF KeptBy
<1>7. CASE Taking(t)
  <2>1. PICK y : y = item'[t]
    OBVIOUS
  <2>2. /\ y \in Items /\ hitCount[y] > 0 /\ ~Linker(y) /\ ~Unlinker(y)
        /\ hitCount' = [hitCount EXCEPT ![y] = -1] /\ pc[t] = "rm" /\ pc'[t] = "un"
        /\ UNCHANGED listeners
    BY <1>7, <2>1 DEF Taking
  <2>3. \A x : (Linker(x)' <=> Linker(x)) /\ (Unlinker(x)' <=> Unlinker(x) \/ x = y)
    BY <1>3, <1>4, <2>1, <2>2
  <2>4. \A x \in Items : hitCount'[x] = IF x = y THEN -1 ELSE hitCount[x]
    BY <1>0, <2>2 DEF LruTypeOK
  <2>5. \A x \in Items : Live(x)' <=> Live(x)
    BY <2>2, <2>3, <2>4 DEF Live
  <2>6. Kept' = Kept
    BY <2>2, <2>5 DEF Kept
  <2>7. HoldInv'
    <3> SUFFICES ASSUME NEW u \in Threads, NEW x \in listeners'[u]
                 PROVE  /\ hitCount'[x] <= 0 /\ key'[x] \in Keys /\ ~Unlinker(x)'
                        /\ \A v \in Threads : x \in listeners'[v] => v = u
      BY DEF HoldInv
    <3>1. x \in listeners[u] /\ x \in Items
      BY <1>1, <2>2
    <3>2. x # y
      BY <1>5, <2>2, <3>1 DEF HoldInv
    <3> QED
      BY <1>2, <2>2, <2>3, <2>4, <3>1, <3>2 DEF HoldInv
  <2> QED
    BY <1>7, <2>6, <2>7 DEF KeptBy
<1>8. CASE Adding(t)
  <2>1. PICK y : y = NewItem
    OBVIOUS
  <2>2. /\ y \in Items /\ key[y] = NULL /\ hitCount[y] <= 0 /\ pc[t] = "pl" /\ pc'[t] = "pk"
        /\ item'[t] = y /\ hitCount' = [hitCount EXCEPT ![y] = 1] /\ UNCHANGED listeners
    BY <1>8, <2>1 DEF Adding, Making, Fresh
  <2>3. \A x : (Linker(x)' <=> Linker(x) \/ x = y) /\ (Unlinker(x)' <=> Unlinker(x))
    BY <1>3, <1>4, <2>2
  <2>4. \A x \in Items : hitCount'[x] = IF x = y THEN 1 ELSE hitCount[x]
    BY <1>0, <2>2 DEF LruTypeOK
  <2>5. ~Unlinker(y)
    BY <1>0, <2>2 DEF Unlinker, TableOk, Writing
  <2>6. \A x \in Items : Live(x)' <=> Live(x)
    BY <1>5, <2>2, <2>3, <2>4, <2>5 DEF Live
  <2>7. \A u \in Threads : y \notin listeners[u]
    BY <2>2 DEF HoldInv
  <2>8. Kept' = Kept /\ y \notin Kept
    BY <1>5, <2>2, <2>5, <2>6, <2>7 DEF Kept, Live
  <2>9. HoldInv'
    <3> SUFFICES ASSUME NEW u \in Threads, NEW x \in listeners'[u]
                 PROVE  /\ hitCount'[x] <= 0 /\ key'[x] \in Keys /\ ~Unlinker(x)'
                        /\ \A v \in Threads : x \in listeners'[v] => v = u
      BY DEF HoldInv
    <3>1. x \in listeners[u] /\ x \in Items /\ x # y
      BY <1>1, <2>2, <2>7
    <3> QED
      BY <1>2, <2>2, <2>3, <2>4, <3>1 DEF HoldInv
  <2> QED
    BY <1>8, <2>1, <2>8, <2>9 DEF KeptBy
<1>9. CASE Joining(t)
  <2>1. PICK y : y = item[t]
    OBVIOUS
  <2>2. /\ y \in Items /\ hitCount[y] > 0 /\ ~Unlinker(y) /\ pc[t] = "pk" /\ pc'[t] = "idle"
        /\ UNCHANGED << hitCount, listeners >>
        /\ \A u \in Threads \ {t} : ~(pc[u] = "pk" /\ item[u] = y)
    BY <1>0, <1>9, <2>1 DEF Joining, LocalsOk, LiveOk
  <2>3. \A x : (Linker(x)' <=> Linker(x) /\ x # y) /\ (Unlinker(x)' <=> Unlinker(x))
    BY <1>3, <1>4, <2>1, <2>2
  <2>4. \A x \in Items : Live(x)' <=> Live(x) \/ x = y
    BY <2>2, <2>3 DEF Live
  <2>5. ~Live(y)
    BY <2>1, <2>2 DEF Live, Linker
  <2>6. \A u \in Threads : y \notin listeners[u]
    BY <1>5, <2>2 DEF HoldInv
  <2>7. Kept' = Kept \cup {y} /\ y \notin Kept
    BY <2>2, <2>4, <2>5, <2>6 DEF Kept
  <2>8. HoldInv'
    BY <1>1, <1>2, <2>2, <2>3 DEF HoldInv
  <2> QED
    BY <1>9, <2>1, <2>2, <2>7, <2>8 DEF KeptBy
<1>10. CASE Leaving(t)
  <2>1. PICK y : y = item[t]
    OBVIOUS
  <2>2. /\ y \in Items /\ hitCount[y] <= 0 /\ Unlinker(y) /\ pc[t] = "un" /\ pc'[t] = "re"
        /\ UNCHANGED << hitCount, listeners >>
        /\ \A u \in Threads \ {t} : ~(pc[u] = "un" /\ item[u] = y)
    BY <1>0, <1>10, <2>1 DEF Leaving, LocalsOk, LiveOk, Unlinker
  <2>3. \A x : (Linker(x)' <=> Linker(x)) /\ (Unlinker(x)' <=> Unlinker(x) /\ x # y)
    BY <1>3, <1>4, <2>1, <2>2
  <2>4. \A x \in Items : Live(x)' <=> Live(x) /\ x # y
    BY <1>5, <2>2, <2>3 DEF Live
  <2>5. \A u \in Threads : y \notin listeners[u]
    BY <2>2 DEF HoldInv
  <2>6. Kept' = Kept \ {y} /\ y \in Kept
    BY <2>2, <2>4, <2>5 DEF Kept, Live
  <2>7. HoldInv'
    BY <1>1, <1>2, <2>2, <2>3 DEF HoldInv
  <2> QED
    BY <1>10, <2>1, <2>6, <2>7 DEF KeptBy
<1>11. CASE Collecting(t)
  <2>1. PICK y : y = item[t]
    OBVIOUS
  <2>2. /\ y \in Items /\ y # NULL /\ pc[t] = "ci" /\ pc'[t] = "ci"
        /\ hitCount' = [hitCount EXCEPT ![y] = -1]
        /\ listeners' = [listeners EXCEPT ![t] = @ \cup {y}]
    BY <1>11, <2>1 DEF Collecting
  <2>3. hitCount[y] > 0 /\ key[y] \in Keys /\ ~Linker(y) /\ ~Unlinker(y)
    BY <1>0, <2>1, <2>2 DEF LiveOk
  <2>4. \A x : (Linker(x)' <=> Linker(x)) /\ (Unlinker(x)' <=> Unlinker(x))
    BY <1>3, <1>4, <2>2
  <2>5. \A x \in Items : hitCount'[x] = IF x = y THEN -1 ELSE hitCount[x]
    BY <1>0, <2>2 DEF LruTypeOK
  <2>6. \A x \in Items : Live(x)' <=> Live(x) /\ x # y
    BY <2>3, <2>4, <2>5 DEF Live
  <2>7. listeners'[t] = listeners[t] \cup {y} /\ \A u \in Threads : y \notin listeners[u]
    BY <1>0, <1>5, <2>2, <2>3 DEF HoldInv, RestTypeOK
  <2>8. Live(y)
    BY <2>3 DEF Live
  <2>9. Kept' = Kept
    <3>1. \A x : (\E u \in Threads : x \in listeners'[u])
                   <=> (\E u \in Threads : x \in listeners[u]) \/ x = y
      BY <1>1, <2>7
    <3> QED
      BY <2>6, <2>8, <3>1 DEF Kept
  <2>10. HoldInv'
    <3> SUFFICES ASSUME NEW u \in Threads, NEW x \in listeners'[u]
                 PROVE  /\ hitCount'[x] <= 0 /\ key'[x] \in Keys /\ ~Unlinker(x)'
                        /\ \A v \in Threads : x \in listeners'[v] => v = u
      BY DEF HoldInv
    <3>1. CASE x = y
      BY <1>1, <1>2, <2>2, <2>3, <2>4, <2>5, <2>7, <3>1
    <3>2. CASE x # y
      <4>1. x \in listeners[u] /\ x \in Items
        BY <1>1, <2>7, <3>2
      <4>2. hitCount'[x] <= 0 /\ key'[x] \in Keys /\ ~Unlinker(x)'
        BY <1>2, <2>4, <2>5, <3>2, <4>1 DEF HoldInv
      <4>3. \A v \in Threads : x \in listeners'[v] => v = u
        BY <1>1, <2>7, <3>2, <4>1 DEF HoldInv
      <4> QED
        BY <4>2, <4>3
    <3> QED
      BY <3>1, <3>2
  <2> QED
    BY <1>11, <2>9, <2>10 DEF KeptBy
<1>12. CASE Informing(t)
  <2>1. listeners'[t] = {} /\ UNCHANGED hitCount /\ pc[t] = "ce" /\ pc'[t] = "idle"
    BY <1>0, <1>12 DEF Informing, RestTypeOK
  <2>2. \A x : (Linker(x)' <=> Linker(x)) /\ (Unlinker(x)' <=> Unlinker(x))
    BY <1>3, <1>4, <2>1
  <2>3. \A x \in Items : Live(x)' <=> Live(x)
    BY <2>1, <2>2 DEF Live
  <2>4. \A x \in listeners[t] : x \in Items /\ ~Live(x)
    BY <1>1, <1>5 DEF HoldInv, Live
  <2>5. Kept' = Kept \ listeners[t] /\ listeners[t] \subseteq Kept
    <3>1. \A x : (\E u \in Threads : x \in listeners'[u])
                   <=> (\E u \in Threads : x \in listeners[u]) /\ x \notin listeners[t]
      BY <1>1, <2>1 DEF HoldInv
    <3> QED
      BY <2>3, <2>4, <3>1 DEF Kept
  <2>6. HoldInv'
    BY <1>1, <1>2, <2>1, <2>2 DEF HoldInv
  <2> QED
    BY <1>12, <2>5, <2>6 DEF KeptBy
<1> QED
  BY <1>6, <1>7, <1>8, <1>9, <1>10, <1>11, <1>12, Classes

(* Where values are stored and informed                                    *)
LEMMA EventPlaces ==
  ASSUME TypeInv, NEW t \in Threads, Start(t) \/ Continue(t)
  PROVE  /\ pc[t] \in {"re", "pe"} => removeEvent(t) /\ pc'[t] \in {"lp1", "idle"}
         /\ pc[t] = "pv" => replaceValue(t)
         /\ pc[t] = "pk" => linkHash(t)
         /\ pc[t] = "ce" => clearEvents(t)
         /\ pc'[t] \in {"re", "pe"} => unlinkHash(t) \/ replaceValue(t)
<1>0. RestTypeOK
  BY TypeSplit DEF TypeInv
<1>1. CASE Start(t)
  <2>1. PICK c \in Calls : call' = [call EXCEPT ![t] = c] /\ Goto(t, Entry(c.op))
    BY <1>1 DEF Start
  <2>2. pc'[t] = Entry(c.op)
    BY <1>0, <2>1 DEF Goto, RestTypeOK
  <2> QED
    BY <1>1, <2>2, EntryOf DEF Start, At
<1>2. CASE readSize1(t) \/ removeLru(t) \/ compareAndSet(t) \/ removeLruLoop(t)
  BY <1>0, <1>2 DEF readSize1, removeLru, compareAndSet, removeLruLoop, EndOfLoop, Jump, Count,
                    Goto, At, RestTypeOK
<1>3. CASE removeTail(t) \/ removeLongestTail(t)
  BY <1>0, <1>3 DEF removeTail, removeLongestTail, EndOfLoop, Jump, Load, Count, Return, Goto,
                    At, RestTypeOK
<1>4. CASE remove(t) \/ unlinkHash(t)
  BY <1>0, <1>4 DEF remove, unlinkHash, AfterRemove, Load, Return, Goto, At, RestTypeOK
<1>5. CASE removeEvent(t)
  BY <1>0, <1>5 DEF removeEvent, AfterRemove, Return, Goto, At, RestTypeOK
<1>6. CASE compareAndPut(t) \/ linkHash(t) \/ replaceValue(t)
  BY <1>0, <1>6 DEF compareAndPut, linkHash, replaceValue, Load, Return, Goto, At, RestTypeOK
<1>7. CASE updateLru(t) \/ updateLruLocked(t) \/ getFirst(t) \/ getWalk(t) \/ getReturn(t)
  BY <1>0, <1>7 DEF updateLru, updateLruLocked, AfterUpdate, getFirst, getWalk, getReturn, Jump,
                    Load, Count, Return, Goto, At, RestTypeOK
<1>8. CASE clear(t) \/ clearBucket(t) \/ clearItem(t) \/ clearEvents(t)
  BY <1>0, <1>8 DEF clear, clearBucket, clearItem, clearEvents, BeginClear, Jump, Load, Count,
                    Return, Goto, At, RestTypeOK
<1> QED
  BY <1>1, <1>2, <1>3, <1>4, <1>5, <1>6, <1>7, <1>8 DEF Continue

(* The items and the threads that still have to inform a value             *)
OfValue(v) == {x \in Kept : value[x] = v}
Waiting(v) == {t \in Threads : pc[t] \in {"re", "pe"} /\ oldValue[t] = v}

Owing ==
  /\ owed \in [Values -> Int]
  /\ \A v \in Values : owed[v] = Cardinality(OfValue(v)) + Cardinality(Waiting(v))

(* Adding an element to a finite set, or taking one away                   *)
LEMMA CountOne ==
  ASSUME NEW S, IsFiniteSet(S), NEW x
  PROVE  /\ Cardinality(S) \in Nat
         /\ Cardinality(S \cup {x}) = IF x \in S THEN Cardinality(S) ELSE Cardinality(S) + 1
         /\ Cardinality(S \ {x}) = IF x \in S THEN Cardinality(S) - 1 ELSE Cardinality(S)
BY FS_CardinalityType, FS_AddElement, FS_RemoveElement

(* The sets that are counted are finite.                                   *)
LEMMA FiniteParts ==
  ASSUME IsFiniteSet(Threads), NEW v
  PROVE  /\ IsFiniteSet(OfValue(v)) /\ IsFiniteSet(Waiting(v))
         /\ Cardinality(OfValue(v)) \in Nat /\ Cardinality(Waiting(v)) \in Nat
<1>1. IsFiniteSet(Items)
  BY FS_Interval DEF Items
<1>2. OfValue(v) \subseteq Items /\ Waiting(v) \subseteq Threads
  BY DEF OfValue, Kept, Waiting
<1>3. IsFiniteSet(OfValue(v)) /\ IsFiniteSet(Waiting(v))
  BY <1>1, <1>2, FS_Subset
<1> QED
  BY <1>3, FS_CardinalityType

(* The threads that wait, after a step of t                                *)
LEMMA WaitStep ==
  ASSUME TypeInv, NEW t \in Threads, Start(t) \/ Continue(t), NEW v
  PROVE  Waiting(v)' = IF pc'[t] \in {"re", "pe"} /\ oldValue'[t] = v
                       THEN Waiting(v) \cup {t} ELSE Waiting(v) \ {t}
BY StepAlone DEF Waiting

(* A put that stores a new value replaces and informs the old one          *)
Swapping(t) ==
  /\ Replacing(t) /\ Stores(t) = {call[t].val} /\ call[t].val # value[item[t]]
  /\ pc'[t] = "pe" /\ oldValue'[t] = value[item[t]] /\ item[t] \in Kept
Keeping(t) == Stores(t) = {} /\ UNCHANGED value /\ pc'[t] = "idle"

(* replaceValue stores another value, or the one that was there.           *)
LEMMA ReplaceCases ==
  ASSUME TypeInv, HashInv, PointInv, NEW t \in Threads, replaceValue(t)
  PROVE  Swapping(t) \/ Keeping(t)
<1>0. RestTypeOK /\ LocalsOk /\ TableOk /\ LiveOk
  BY TypeSplit, TableFacts, LiveFacts DEF TypeInv
<1>1. PICK x : x = item[t]
  OBVIOUS
<1>2. /\ pc[t] = "pv" /\ x \in Items /\ Putting(t) /\ x \in Chain(Hash[key[x]])
      /\ key[x] \in Keys /\ Hash[key[x]] \in Buckets
  BY <1>0, <1>1 DEF replaceValue, At, LocalsOk, PointInv, StandsOk, TableOk, Writing
<1>3. x \in Kept
  BY <1>0, <1>2 DEF LiveOk, InTable, Kept
<1>4. value[x] \in Values
  BY <1>2 DEF PointInv, ValuesMade
<1>5. CASE Mismatch(t)
  <2>1. Return(t) /\ UNCHANGED value
    BY <1>5 DEF replaceValue
  <2> QED
    BY <1>0, <1>2, <1>5, <2>1 DEF Keeping, Stores, At, Return, Goto, RestTypeOK
<1>6. CASE ~Mismatch(t) /\ Replaced(t) = NULL
  <2>1. call[t].val = value[x]
    BY <1>1, <1>4, <1>6 DEF Replaced
  <2>2. Return(t) /\ value' = [value EXCEPT ![x] = call[t].val]
    BY <1>1, <1>6 DEF replaceValue
  <2>3. UNCHANGED value
    BY <1>0, <1>2, <2>1, <2>2 DEF RestTypeOK
  <2>4. pc'[t] = "idle"
    BY <1>0, <2>2 DEF Return, Goto, RestTypeOK
  <2> QED
    BY <1>2, <1>6, <2>3, <2>4 DEF Keeping, Stores, At
<1>7. CASE ~Mismatch(t) /\ Replaced(t) # NULL
  <2>1. Replaced(t) = value[x] /\ call[t].val # value[x]
    BY <1>1, <1>7 DEF Replaced
  <2>2. ~LateMismatch(t)
    BY <1>1, <1>7, <2>1 DEF LateMismatch, Mismatch
  <2>3. /\ value' = [value EXCEPT ![x] = call[t].val] /\ Goto(t, "pe")
        /\ oldValue' = [oldValue EXCEPT ![t] = value[x]] /\ UNCHANGED << entries, nextHash, key >>
    BY <1>1, <1>7, <2>1, <2>2 DEF replaceValue
  <2>4. pc'[t] = "pe" /\ oldValue'[t] = value[x]
    BY <1>0, <2>3 DEF Goto, RestTypeOK
  <2>5. Stores(t) = {call[t].val}
    BY <1>2, <1>7 DEF Stores, At
  <2> QED
    BY <1>1, <1>2, <1>3, <2>1, <2>3, <2>4, <2>5 DEF Swapping, Replacing
<1> QED
  BY <1>5, <1>6, <1>7

(* Every step keeps the account of each value.                             *)
LEMMA OweStep ==
  ASSUME EnableListeners, IsFiniteSet(Threads), TypeInv, LruInv, HashInv, NoOverflow, PointInv,
         HoldInv, Owing, NEW t \in Threads,
         (Start(t) /\ UNCHANGED owed) \/ (Continue(t) /\ Account(t))
  PROVE  Owing'
<1>0. RestTypeOK /\ LocalsOk /\ TableOk /\ LiveOk
  BY TypeSplit, TableFacts, LiveFacts DEF TypeInv
<1>1. KeptBy(t)
  BY KeptStep
<1>2. /\ pc[t] \in {"re", "pe"} => removeEvent(t) /\ pc'[t] \in {"lp1", "idle"}
      /\ pc[t] = "pv" => replaceValue(t)
      /\ pc[t] = "pk" => linkHash(t)
      /\ pc[t] = "ce" => clearEvents(t)
      /\ pc'[t] \in {"re", "pe"} => unlinkHash(t) \/ replaceValue(t)
  BY EventPlaces
<1>3. UNCHANGED << key, value >> \/ Making(t) \/ Replacing(t)
  BY ContentStep
<1>4. ASSUME NEW v \in Values
      PROVE  owed'[v] = owed[v] + (IF v \in Stores(t) THEN 1 ELSE 0) - Informs(t, v)
  <2>1. CASE Start(t) /\ UNCHANGED owed
    <3>1. pc[t] = "idle"
      BY <2>1 DEF Start, At
    <3>2. Stores(t) = {} /\ Informs(t, v) = 0
      BY <3>1 DEF Stores, Informs, At
    <3> QED
      BY <2>1, <3>2 DEF Owing
  <2>2. CASE Account(t)
    BY <2>2 DEF Account
  <2> QED
    BY <2>1, <2>2
<1>5. ASSUME NEW v \in Values
      PROVE  owed'[v] = Cardinality(OfValue(v)') + Cardinality(Waiting(v)')
  <2>1. PICK A, W : A = OfValue(v) /\ W = Waiting(v)
    OBVIOUS
  <2>2. /\ IsFiniteSet(A) /\ IsFiniteSet(W) /\ Cardinality(A) \in Nat /\ Cardinality(W) \in Nat
        /\ owed[v] = Cardinality(A) + Cardinality(W)
    BY <2>1, FiniteParts DEF Owing
  <2>3. \A x : /\ Cardinality(A \cup {x}) = IF x \in A THEN Cardinality(A) ELSE Cardinality(A) + 1
               /\ Cardinality(A \ {x}) = IF x \in A THEN Cardinality(A) - 1 ELSE Cardinality(A)
    BY <2>2, CountOne
  <2>4. /\ Cardinality(W \cup {t}) = IF t \in W THEN Cardinality(W) ELSE Cardinality(W) + 1
        /\ Cardinality(W \ {t}) = IF t \in W THEN Cardinality(W) - 1 ELSE Cardinality(W)
    BY <2>2, CountOne
  <2>5. /\ Waiting(v)' = IF pc'[t] \in {"re", "pe"} /\ oldValue'[t] = v
                         THEN W \cup {t} ELSE W \ {t}
        /\ t \in W <=> pc[t] \in {"re", "pe"} /\ oldValue[t] = v
    BY <2>1, WaitStep DEF Waiting
  <2>6. A = {x \in Kept : value[x] = v} /\ OfValue(v)' = {x \in Kept' : value'[x] = v}
    BY <2>1 DEF OfValue
  <2>7. CASE Joining(t) /\ item[t] \in Items \ Kept /\ Kept' = Kept \cup {item[t]}
    <3>1. PICK y : y = item[t]
      OBVIOUS
    <3>2. pc[t] = "pk" /\ pc'[t] = "idle" /\ UNCHANGED value /\ value[y] = call[t].val
      BY <2>7, <3>1 DEF Joining, linkHash, PointInv, StandsOk
    <3>3. Stores(t) = {value[y]} /\ Informs(t, v) = 0
      BY <3>2 DEF Stores, Informs, At
    <3>4. OfValue(v)' = (IF value[y] = v THEN A \cup {y} ELSE A) /\ y \notin A
      BY <2>6, <2>7, <3>1, <3>2
    <3>5. Waiting(v)' = W \ {t} /\ t \notin W
      BY <2>5, <3>2
    <3> QED
      BY <1>4, <2>2, <2>3, <2>4, <3>3, <3>4, <3>5
  <2>8. CASE Leaving(t) /\ item[t] \in Kept /\ Kept' = Kept \ {item[t]}
    <3>1. PICK y : y = item[t]
      OBVIOUS
    <3>2. /\ pc[t] = "un" /\ pc'[t] = "re" /\ UNCHANGED value
          /\ oldValue' = [oldValue EXCEPT ![t] = value[y]]
      BY <2>8, <3>1 DEF Leaving, unlinkHash
    <3>3. oldValue'[t] = value[y]
      BY <1>0, <3>2 DEF RestTypeOK
    <3>4. Stores(t) = {} /\ Informs(t, v) = 0
      BY <3>2 DEF Stores, Informs, At
    <3>5. OfValue(v)' = (IF value[y] = v THEN A \ {y} ELSE A) /\ (y \in A <=> value[y] = v)
      BY <2>6, <2>8, <3>1, <3>2
    <3>6. Waiting(v)' = (IF value[y] = v THEN W \cup {t} ELSE W \ {t}) /\ t \notin W
      BY <2>5, <3>2, <3>3
    <3>7. owed'[v] = owed[v]
      BY <1>4, <2>2, <3>4
    <3>8. CASE value[y] = v
      BY <2>2, <2>3, <2>4, <3>5, <3>6, <3>7, <3>8
    <3>9. CASE value[y] # v
      BY <2>2, <2>4, <3>5, <3>6, <3>7, <3>9
    <3> QED
      BY <3>8, <3>9
  <2>9. CASE Informing(t) /\ listeners[t] \subseteq Kept /\ Kept' = Kept \ listeners[t]
    <3>1. PICK L : L = {x \in listeners[t] : value[x] = v}
      OBVIOUS
    <3>2. pc[t] = "ce" /\ pc'[t] = "idle" /\ UNCHANGED value
      BY <2>9 DEF Informing, clearEvents, hashVars
    <3>3. Stores(t) = {} /\ Informs(t, v) = Cardinality(L)
      BY <3>1, <3>2 DEF Stores, Informs, At
    <3>4. OfValue(v)' = A \ L /\ A \cap L = L
      BY <2>6, <2>9, <3>1, <3>2
    <3>5. Cardinality(A \ L) = Cardinality(A) - Cardinality(L)
      BY <2>2, <3>4, FS_Difference
    <3>6. Waiting(v)' = W \ {t} /\ t \notin W
      BY <2>5, <3>2
    <3>7. Cardinality(L) \in Nat
      BY <2>2, <3>4, FS_CardinalityType, FS_Intersection, FS_Subset
    <3> QED
      BY <1>4, <2>2, <2>4, <3>3, <3>4, <3>5, <3>6, <3>7
  <2>10. CASE replaceValue(t)
    <3>1. pc[t] = "pv" /\ ~unlinkHash(t) /\ ~linkHash(t) /\ ~clearEvents(t)
      BY <2>10 DEF replaceValue, unlinkHash, linkHash, clearEvents, At
    <3>2. Kept' = Kept
      BY <1>1, <3>1 DEF KeptBy, Joining, Leaving, Informing
    <3>3. Informs(t, v) = 0
      BY <3>1 DEF Informs, At
    <3>4. t \notin W
      BY <2>5, <3>1
    <3>5. CASE Keeping(t)
      <4>1. OfValue(v)' = A /\ Waiting(v)' = W \ {t} /\ Stores(t) = {}
        BY <2>5, <2>6, <3>2, <3>5 DEF Keeping
      <4> QED
        BY <1>4, <2>2, <2>4, <3>3, <3>4, <4>1
    <3>6. CASE Swapping(t)
      <4>1. PICK y, n : y = item[t] /\ n = call[t].val
        OBVIOUS
      <4>2. /\ value' = [value EXCEPT ![y] = n] /\ y \in Items /\ y \in Kept
            /\ Stores(t) = {n} /\ n # value[y] /\ pc'[t] = "pe" /\ oldValue'[t] = value[y]
        BY <3>6, <4>1 DEF Swapping, Replacing
      <4>3. \A x \in Items : value'[x] = IF x = y THEN n ELSE value[x]
        BY <1>0, <4>2 DEF RestTypeOK
      <4>4. Kept \subseteq Items
        BY DEF Kept
      <4>5. CASE v = n
        <5>1. OfValue(v)' = A \cup {y} /\ y \notin A /\ Waiting(v)' = W \ {t}
          BY <2>5, <2>6, <3>2, <4>2, <4>3, <4>4, <4>5
        <5> QED
          BY <1>4, <2>2, <2>3, <2>4, <3>3, <3>4, <4>2, <4>5, <5>1
      <4>6. CASE v = value[y]
        <5>1. OfValue(v)' = A \ {y} /\ y \in A /\ Waiting(v)' = W \cup {t}
          BY <2>5, <2>6, <3>2, <4>2, <4>3, <4>4, <4>6
        <5> QED
          BY <1>4, <2>2, <2>3, <2>4, <3>3, <3>4, <4>2, <4>6, <5>1
      <4>7. CASE v # n /\ v # value[y]
        <5>1. OfValue(v)' = A /\ Waiting(v)' = W \ {t}
          BY <2>5, <2>6, <3>2, <4>2, <4>3, <4>4, <4>7
        <5> QED
          BY <1>4, <2>2, <2>4, <3>3, <3>4, <4>2, <4>7, <5>1
      <4> QED
        BY <4>5, <4>6, <4>7
    <3> QED
      BY <2>10, <3>5, <3>6, ReplaceCases
  <2>11. CASE ~replaceValue(t) /\ ~linkHash(t) /\ ~unlinkHash(t) /\ ~clearEvents(t)
    <3>1. Kept' = Kept /\ (Making(t) => NewItem \notin Kept)
      <4>1. Making(t) => pc'[t] = "pk" /\ pc[t] = "pl"
        BY DEF Making, compareAndPut, At
      <4> QED
        BY <1>1, <2>11, <4>1 DEF KeptBy, Joining, Leaving, Informing, Calm, Taking, Collecting
    <3>2. \A x \in Kept : value'[x] = value[x]
      <4>1. ~Replacing(t)
        BY <2>11 DEF Replacing
      <4>2. Kept \subseteq Items
        BY DEF Kept
      <4> QED
        BY <1>0, <1>3, <3>1, <4>1, <4>2 DEF Making, RestTypeOK
    <3>3. OfValue(v)' = A
      BY <2>6, <3>1, <3>2
    <3>4. pc[t] \notin {"pv", "pk", "ce"} /\ pc'[t] \notin {"re", "pe"}
      BY <1>2, <2>11
    <3>5. Stores(t) = {}
      BY <3>4 DEF Stores, At
    <3>6. Informs(t, v) = IF t \in W THEN 1 ELSE 0
      BY <2>5, <3>4 DEF Informs, At
    <3>7. Waiting(v)' = W \ {t}
      BY <2>5, <3>4
    <3> QED
      BY <1>4, <2>2, <2>4, <3>3, <3>5, <3>6, <3>7
  <2>12. CASE linkHash(t) \/ unlinkHash(t) \/ clearEvents(t)
    <3>1. pc[t] \in {"pk", "un", "ce"} /\ (linkHash(t) => pc[t] = "pk")
          /\ (unlinkHash(t) => pc[t] = "un") /\ (clearEvents(t) => pc[t] = "ce")
      BY <2>12 DEF linkHash, unlinkHash, clearEvents, At
    <3>2. CASE linkHash(t) \/ unlinkHash(t)
      BY <1>1, <2>7, <2>8, <3>1, <3>2 DEF KeptBy, Calm, Adding, Taking, Collecting, Informing
    <3>3. CASE clearEvents(t)
      <4>1. CASE Calm(t)
        <5>1. /\ listeners' = listeners /\ listeners'[t] = {}
              /\ pc'[t] = "idle" /\ UNCHANGED << hashVars, lruVars >>
          BY <1>0, <3>3, <4>1 DEF Calm, clearEvents, Return, Goto, RestTypeOK
        <5>2. Informing(t)
          BY <3>1, <3>3, <5>1 DEF Informing, clearEvents, lruVars
        <5>3. listeners[t] \subseteq Kept /\ Kept' = Kept \ listeners[t]
          BY <1>1, <3>1, <3>3, <5>1 DEF KeptBy, Joining, Leaving, Adding, Taking, Collecting
        <5> QED
          BY <2>9, <5>2, <5>3
      <4>2. CASE ~Calm(t)
        BY <1>1, <2>9, <3>1, <3>3, <4>2 DEF KeptBy, Joining, Leaving, Adding, Taking, Collecting
      <4> QED
        BY <4>1, <4>2
    <3> QED
      BY <2>12, <3>2, <3>3
  <2> QED
    BY <2>10, <2>11, <2>12
<1>6. owed' \in [Values -> Int]
  <2>1. CASE Start(t) /\ UNCHANGED owed
    BY <2>1 DEF Owing
  <2>2. CASE Account(t)
    <3>1. \A v \in Values : Informs(t, v) \in Int
      <4> SUFFICES ASSUME NEW v \in Values PROVE Informs(t, v) \in Int
        OBVIOUS
      <4>1. IsFiniteSet(Items)
        BY FS_Interval DEF Items
      <4>2. {x \in listeners[t] : value[x] = v} \subseteq Items
        BY <1>0 DEF RestTypeOK
      <4>3. Cardinality({x \in listeners[t] : value[x] = v}) \in Nat
        BY <4>1, <4>2, FS_Subset, FS_CardinalityType
      <4> QED
        BY <4>3 DEF Informs
    <3> QED
      BY <2>2, <3>1 DEF Account, Owing
  <2> QED
    BY <2>1, <2>2
<1> QED
  BY <1>5, <1>6 DEF Owing

(* Counting by the items themselves is counting by where they are          *)
LEMMA OwingFollows == TypeInv /\ HashInv /\ Owing => InformedOnce
<1> SUFFICES ASSUME TypeInv, HashInv, Owing, NEW v \in Values
             PROVE  owed[v] = Cardinality(Holders(v))
                       + Cardinality({t \in Threads : pc[t] \in {"re", "pe"} /\ oldValue[t] = v})
  BY DEF InformedOnce
<1>1. LiveOk
  BY LiveFacts
<1>2. Holders(v) = OfValue(v)
  BY <1>1 DEF Holders, OfValue, Kept, LiveOk, InTable, At
<1> QED
  BY <1>2 DEF Owing, Waiting

(* "they will be informed when they're removed from the cache": each value *)
(* stored is in the cache, or on its way to removeEvent(), or has been     *)
(* informed, exactly once for each time it was stored (LruCache.put,       *)
(* remove, removeLru, clear), for any finite set of threads and any        *)
(* numbers of keys, values, buckets and operations, when the listeners are *)
(* enabled and no item is hit Integer.MAX_VALUE times.                     *)
THEOREM ListenersInformedOnce ==
  ASSUME EnableListeners, IsFiniteSet(Threads) PROVE HSpec /\ []NoOverflow => []InformedOnce
<1> DEFINE I == TypeInv /\ LruInv /\ HashInv /\ PointInv
<1>1. HInit => I /\ HoldInv /\ Owing
  <2> SUFFICES ASSUME HInit PROVE I /\ HoldInv /\ Owing
    OBVIOUS
  <2>1. HoldInv /\ Kept = {}
    BY DEF HInit, Init, HoldInv, Kept, Live, Unlinker
  <2>2. \A v \in Values : OfValue(v) = {} /\ Waiting(v) = {}
    BY <2>1 DEF OfValue, Waiting, HInit, Init
  <2>3. Owing
    <3>1. Cardinality({}) = 0
      BY FS_EmptySet
    <3>2. owed = [v \in Values |-> 0]
      BY DEF HInit
    <3> QED
      BY <2>2, <3>1, <3>2 DEF Owing
  <2> QED
    BY <2>1, <2>3, TypeInitial, LruStart, HashStart, PointStart DEF HInit
<1>2. I /\ NoOverflow /\ [HNext]_hvars => I'
  BY TypeStep, LruInvStep, HashStep, PointStep, HistoryRefines DEF Listening
<1>3. I /\ HoldInv /\ Owing /\ NoOverflow /\ [HNext]_hvars => (HoldInv /\ Owing)'
  <2> SUFFICES ASSUME I, HoldInv, Owing, NoOverflow, [HNext]_hvars PROVE (HoldInv /\ Owing)'
    OBVIOUS
  <2>1. CASE UNCHANGED hvars
    <3>1. UNCHANGED << hitCount, value, key, pc, item, oldValue, listeners, owed >>
      BY <2>1 DEF hvars, vars, hashVars, lruVars
    <3> QED
      BY <3>1 DEF HoldInv, Owing, OfValue, Waiting, Kept, Live, Linker, Unlinker
  <2>2. CASE HNext
    <3>1. PICK t \in Threads : (Start(t) /\ UNCHANGED owed) \/ (Continue(t) /\ Account(t))
      BY <2>2 DEF HNext
    <3> QED
      BY <3>1, KeptStep, OweStep
  <2> QED
    BY <2>1, <2>2
<1>4. I /\ Owing => InformedOnce
  BY OwingFollows
<1> HIDE DEF I
<1> QED
  BY <1>1, <1>2, <1>3, <1>4, PTL DEF HSpec

=============================================================================
