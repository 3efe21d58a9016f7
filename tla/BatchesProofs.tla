---------------------------- MODULE BatchesProofs ---------------------------
(***************************************************************************)
(* Proofs about Batches, for any number of threads, messages, flushes and  *)
(* configurations.                                                         *)
(*                                                                         *)
(* That a message waits in exactly one place until it is answered is not   *)
(* inductive as it stands: a thread that takes a message over must have    *)
(* none, and a list must be empty when a batch is moved into it            *)
(* (ControlInv).  The place itself is given by two functions from          *)
(* messages, the kind of the place and which one of that kind it is        *)
(* (Located): every action moves messages by changing these functions.     *)
(*                                                                         *)
(* That no message is forgotten needs to know, message by message, who may *)
(* still clear a batch the map no longer has (FlushInv).  The bound on a request needs   *)
(* one on the batches: a batch exceeds its limits by no more messages than *)
(* there are threads which have added to it and not yet looked whether it  *)
(* is full (Ready, BoundInv).  The sum over a set has no induction rule    *)
(* the provers can use: its laws come from a smallest counterexample       *)
(* (MinimalSet, TotalStep).                                                *)
(***************************************************************************)
EXTENDS Batches, FiniteSetTheorems, SequenceTheorems, TLAPS

Putting == {t \in Threads : pc[t] = "put"}

(* Every batch is created by a configuration or for a message, and a       *)
(* message has at most one created: the Batch objects never run out        *)
CreatedInv == IsFiniteSet(Putting) /\ created + Cardinality(Putting) <= next + controls

(* A thread has a message from produceBatch to addMessage, and a list only *)
(* until it is sent                                                        *)
ControlInv == \A t \in Threads :
  /\ msg[t] # NIL <=> pc[t] \in {"put", "get", "add"}
  /\ pc[t] # "send" => list[t] = {}

Kinds == {"new", "thread", "batch", "list", "done"}

(* Where an answer is recorded                                             *)
Recorded(m) == (\E i \in 1 .. Len(sent) : m \in sent[i]) \/ m \in failed \/ m \in refused

(* kind and at say, for every message, where it waits, and it is nowhere   *)
(* else; a message that is done is in one request, and was not refused too *)
Located(kind, at) == \A m \in BatchMessages :
  /\ kind[m] \in Kinds
  /\ kind[m] = "new" <=> m > next
  /\ kind[m] = "thread" => at[m] \in Threads
  /\ kind[m] = "batch" => at[m] \in BatchIds
  /\ kind[m] = "list" => at[m] \in Threads
  /\ \A t \in Threads : msg[t] = m <=> kind[m] = "thread" /\ at[m] = t
  /\ \A b \in BatchIds : m \in messages[b] <=> kind[m] = "batch" /\ at[m] = b
  /\ \A t \in Threads : m \in list[t] <=> kind[m] = "list" /\ at[m] = t
  /\ Recorded(m) <=> kind[m] = "done"
  /\ \A i, j \in 1 .. Len(sent) : m \in sent[i] /\ m \in sent[j] => i = j
  /\ m \in refused => m \notin failed /\ \A i \in 1 .. Len(sent) : m \notin sent[i]

PlaceInv == \E kind, at : Located(kind, at)

(* A message waits in the batch the map knows, or a thread is on its way   *)
(* to clear its batch, or it came after the batch was taken out            *)
FlushInv == \A b \in BatchIds : \A m \in messages[b] :
  \/ batches = b
  \/ m \in overtaken
  \/ \E t \in Threads : pc[t] = "clear" /\ batch[t] = b

(* The threads that have added to b, and not looked yet whether it is full *)
Ready(b) == {t \in Threads : pc[t] = "ready" /\ batch[t] = b}

(* s has less than a batch may have, but for n more messages               *)
Bounded(s, n) == /\ Cardinality(s) + 1 <= maxMessages + n
                 /\ totalBytes(s) < maxBytes + n * MaxSize

BoundInv ==
  /\ \A b \in BatchIds : messages[b] # {} => Bounded(messages[b], Cardinality(Ready(b)))
  /\ \A t \in Threads : list[t] # {} => Bounded(list[t], Cardinality(Threads))
  /\ \A i \in 1 .. Len(sent) : Bounded(sent[i], Cardinality(Threads))

Inv == BatchTypeOK /\ CreatedInv /\ ControlInv /\ PlaceInv /\ FlushInv /\ BoundInv

-----------------------------------------------------------------------------
LEMMA MessagesAre == BatchMessages = 1 .. Len(size) /\ Len(size) \in Nat
BY BatchesAssumption DEF BatchMessages

LEMMA InitInv == BatchInit => Inv
<1> SUFFICES ASSUME BatchInit PROVE Inv
  OBVIOUS
<1>1. BatchTypeOK
  BY BatchesAssumption, MessagesAre DEF BatchInit, BatchTypeOK, Labels
<1>2. CreatedInv
  <2>1. Putting = {}
    BY DEF BatchInit, Putting
  <2> QED
    BY <2>1, FS_EmptySet DEF BatchInit, CreatedInv
<1>3. ControlInv
  BY DEF BatchInit, ControlInv
<1>4. Located([m \in BatchMessages |-> "new"], [m \in BatchMessages |-> NIL])
  BY BatchesAssumption, MessagesAre DEF BatchInit, Located, Kinds, Recorded
<1>5. FlushInv /\ BoundInv
  BY DEF BatchInit, FlushInv, BoundInv
<1> QED
  BY <1>1, <1>2, <1>3, <1>4, <1>5 DEF Inv, PlaceInv

(* How many threads are about to create a batch                            *)
LEMMA PuttingMoves ==
  ASSUME IsFiniteSet(Putting), pc \in [Threads -> Labels],
         NEW t \in Threads, NEW l \in Labels, pc' = [pc EXCEPT ![t] = l]
  PROVE  /\ IsFiniteSet(Putting')
         /\ l = "put" => Cardinality(Putting') <= Cardinality(Putting) + 1
         /\ l # "put" => Cardinality(Putting') <= Cardinality(Putting)
         /\ l # "put" /\ pc[t] = "put" => Cardinality(Putting') = Cardinality(Putting) - 1
         /\ Cardinality(Putting) \in Nat /\ Cardinality(Putting') \in Nat
<1>1. l = "put" => Putting' = Putting \cup {t}
  BY DEF Putting
<1>2. l # "put" => Putting' = Putting \ {t}
  BY DEF Putting
<1>3. pc[t] = "put" <=> t \in Putting
  BY DEF Putting
<1> QED
  BY <1>1, <1>2, <1>3, FS_AddElement, FS_RemoveElement, FS_CardinalityType
-----------------------------------------------------------------------------
(* The message that a sum over s takes out first                           *)
First(s) == CHOOSE m \in s : TRUE

(* f is the function that MapThenSumSet defines over the subsets of s      *)
Sums(f, s) == f = [r \in SUBSET s |->
  IF r = {} THEN 0 ELSE size[First(r)] + f[r \ {First(r)}]]

SumOf(s) == CHOOSE f : Sums(f, s)

LEMMA TotalIsSum == ASSUME NEW s PROVE totalBytes(s) = SumOf(s)[s]
BY DEF totalBytes, MapThenSumSet, MapThenFoldSet, SumOf, Sums, First

LEMMA MinimalSet ==
  ASSUME NEW S, IsFiniteSet(S), NEW Bad, Bad \subseteq SUBSET S, Bad # {}
  PROVE  \E x \in Bad : \A y \in SUBSET x : y # x => y \notin Bad
<1>1. Bad \subseteq FiniteSubsetsOf(S)
  BY FS_Subset DEF FiniteSubsetsOf
<1>2. \E x \in Bad : \A y \in Bad : ~ (<<y, x>> \in StrictSubsetOrdering(S))
  BY <1>1, FS_StrictSubsetOrderingWellFounded, WFMin
<1> QED
  BY <1>2 DEF StrictSubsetOrdering

LEMMA FirstIn == ASSUME NEW s, s # {} PROVE First(s) \in s
BY DEF First

LEMMA SumsStep ==
  ASSUME NEW f, NEW s, Sums(f, s), NEW r \in SUBSET s
  PROVE  f[r] = IF r = {} THEN 0 ELSE size[First(r)] + f[r \ {First(r)}]
BY DEF Sums

LEMMA SumsAgree ==
  ASSUME NEW f, NEW g, NEW s, NEW r, Sums(f, s), Sums(g, r),
         NEW q, IsFiniteSet(q), q \subseteq s, q \subseteq r
  PROVE  f[q] = g[q]
<1> DEFINE Bad == {p \in SUBSET q : f[p] # g[p]}
<1> SUFFICES ASSUME Bad # {} PROVE FALSE
  OBVIOUS
<1>1. PICK x \in Bad : \A y \in SUBSET x : y # x => y \notin Bad
  <2>1. Bad \subseteq SUBSET q
    OBVIOUS
  <2> HIDE DEF Bad
  <2> QED
    BY <2>1, MinimalSet
<1>2. x \subseteq q /\ f[x] # g[x]
  OBVIOUS
<1>3. /\ f[x] = IF x = {} THEN 0 ELSE size[First(x)] + f[x \ {First(x)}]
      /\ g[x] = IF x = {} THEN 0 ELSE size[First(x)] + g[x \ {First(x)}]
  BY <1>2, SumsStep
<1>4. x # {}
  BY <1>2, <1>3
<1>5. x \ {First(x)} \in SUBSET x /\ x \ {First(x)} # x
  BY <1>4, FirstIn
<1>6. f[x \ {First(x)}] = g[x \ {First(x)}]
  BY <1>1, <1>2, <1>5
<1> QED
  BY <1>2, <1>3, <1>4, <1>6

LEMMA SumExists ==
  ASSUME NEW S, IsFiniteSet(S)
  PROVE  Sums(SumOf(S), S)
<1> DEFINE Bad == {p \in SUBSET S : ~ Sums(SumOf(p), p)}
<1>0. Bad = {} => Sums(SumOf(S), S)
  OBVIOUS
<1> SUFFICES ASSUME Bad # {} PROVE FALSE
  BY <1>0
<1>1. PICK x \in Bad : \A y \in SUBSET x : y # x => y \notin Bad
  <2>1. Bad \subseteq SUBSET S
    OBVIOUS
  <2> HIDE DEF Bad
  <2> QED
    BY <2>1, MinimalSet
<1>2. x \subseteq S /\ IsFiniteSet(x) /\ ~ Sums(SumOf(x), x)
  BY FS_Subset
<1>3. \A y \in SUBSET x : y # x => Sums(SumOf(y), y) /\ IsFiniteSet(y)
  BY <1>1, <1>2, FS_Subset
<1> DEFINE f == [r \in SUBSET x |->
             IF r = {} THEN 0 ELSE size[First(r)] + SumOf(r \ {First(r)})[r \ {First(r)}]]
<1>4. ASSUME NEW r \in SUBSET x, r # {}
      PROVE  f[r \ {First(r)}] = SumOf(r \ {First(r)})[r \ {First(r)}]
  <2> DEFINE q == r \ {First(r)}
  <2>1. q \in SUBSET x /\ q # x
    BY <1>4, FirstIn
  <2>2. Sums(SumOf(q), q) /\ q \in SUBSET q /\ IsFiniteSet(q)
    BY <1>3, <2>1
  <2>3. SumOf(q)[q] = IF q = {} THEN 0 ELSE size[First(q)] + SumOf(q)[q \ {First(q)}]
    BY <2>2, SumsStep
  <2>4. f[q] = IF q = {} THEN 0 ELSE size[First(q)] + SumOf(q \ {First(q)})[q \ {First(q)}]
    BY <2>1
  <2>5. ASSUME q # {} PROVE SumOf(q \ {First(q)})[q \ {First(q)}] = SumOf(q)[q \ {First(q)}]
    <3>1. /\ q \ {First(q)} \in SUBSET x /\ q \ {First(q)} # x
      BY <2>1, <2>5, FirstIn
    <3>2. Sums(SumOf(q \ {First(q)}), q \ {First(q)}) /\ IsFiniteSet(q \ {First(q)})
      BY <1>3, <3>1
    <3> HIDE DEF q
    <3> QED
      BY <2>2, <3>2, SumsAgree
  <2> QED
    BY <2>3, <2>4, <2>5
<1>5. Sums(f, x)
  <2>1. \A r \in SUBSET x : f[r] = IF r = {} THEN 0 ELSE size[First(r)] + f[r \ {First(r)}]
    BY <1>4
  <2> HIDE DEF f
  <2>2. f = [r \in SUBSET x |-> f[r]]
    BY DEF f
  <2> QED
    BY <2>1, <2>2 DEF Sums
<1> HIDE DEF f
<1>6. Sums(SumOf(x), x)
  BY <1>5 DEF SumOf
<1> QED
  BY <1>2, <1>6

LEMMA TotalStep ==
  ASSUME NEW S, IsFiniteSet(S)
  PROVE  totalBytes(S) = IF S = {} THEN 0
                         ELSE size[First(S)] + totalBytes(S \ {First(S)})
<1>1. Sums(SumOf(S), S)
  BY SumExists
<1>2. SumOf(S)[S] = IF S = {} THEN 0 ELSE size[First(S)] + SumOf(S)[S \ {First(S)}]
  BY <1>1, SumsStep
<1>3. IsFiniteSet(S \ {First(S)})
  BY FS_RemoveElement
<1>4. Sums(SumOf(S \ {First(S)}), S \ {First(S)})
  BY <1>3, SumExists
<1>5. SumOf(S)[S \ {First(S)}] = SumOf(S \ {First(S)})[S \ {First(S)}]
  BY <1>1, <1>3, <1>4, SumsAgree
<1>6. totalBytes(S) = SumOf(S)[S]
  BY TotalIsSum
<1>7. totalBytes(S \ {First(S)}) = SumOf(S \ {First(S)})[S \ {First(S)}]
  BY TotalIsSum
<1> QED
  BY <1>2, <1>5, <1>6, <1>7

(* The sum does not depend on which message is taken out first             *)
LEMMA TotalWithout ==
  ASSUME NEW S \in SUBSET BatchMessages
  PROVE  /\ totalBytes(S) \in Nat
         /\ \A m \in S : totalBytes(S) = size[m] + totalBytes(S \ {m})
<1> DEFINE Good(s) == /\ totalBytes(s) \in Nat
                      /\ \A m \in s : totalBytes(s) = size[m] + totalBytes(s \ {m})
           Bad == {s \in SUBSET S : ~ Good(s)}
<1>0. IsFiniteSet(S) /\ \A m \in S : size[m] \in Nat
  <2>1. IsFiniteSet(BatchMessages)
    BY FS_Interval, MessagesAre
  <2> QED
    BY <2>1, FS_Subset, BatchesAssumption DEF BatchMessages
<1>a. Bad = {} => Good(S)
  OBVIOUS
<1> SUFFICES ASSUME Bad # {} PROVE FALSE
  BY <1>a
<1>1. PICK x \in Bad : \A y \in SUBSET x : y # x => y \notin Bad
  <2>1. Bad \subseteq SUBSET S
    OBVIOUS
  <2> HIDE DEF Bad
  <2> QED
    BY <1>0, <2>1, MinimalSet
<1>2. x \subseteq S /\ ~ Good(x)
  OBVIOUS
<1>3. ASSUME NEW y, y \subseteq x, y # x
      PROVE  /\ totalBytes(y) \in Nat
             /\ \A m \in y : totalBytes(y) = size[m] + totalBytes(y \ {m})
  BY <1>1, <1>2, <1>3
<1>4. IsFiniteSet(x)
  BY <1>0, <1>2, FS_Subset
<1>5. CASE x = {}
  BY <1>2, <1>4, <1>5, TotalStep
<1>6. CASE x # {}
  <2> DEFINE p == First(x)
  <2>1. p \in x /\ size[p] \in Nat
    BY <1>0, <1>2, <1>6, FirstIn
  <2>2. totalBytes(x) = size[p] + totalBytes(x \ {p})
    BY <1>4, <1>6, TotalStep
  <2> HIDE DEF p
  <2>3. /\ totalBytes(x \ {p}) \in Nat
        /\ \A m \in x \ {p} : totalBytes(x \ {p}) = size[m] + totalBytes((x \ {p}) \ {m})
    BY <1>3, <2>1
  <2>4. totalBytes(x) \in Nat
    BY <2>1, <2>2, <2>3
  <2>5. ASSUME NEW m \in x PROVE totalBytes(x) = size[m] + totalBytes(x \ {m})
    <3>1. CASE m = p
      BY <2>2, <3>1
    <3>2. CASE m # p
      <4>1. totalBytes(x \ {p}) = size[m] + totalBytes((x \ {p}) \ {m})
        BY <2>3, <3>2
      <4>2. totalBytes(x \ {m}) = size[p] + totalBytes((x \ {m}) \ {p})
        BY <1>3, <2>1, <3>2
      <4>3. (x \ {p}) \ {m} = (x \ {m}) \ {p} /\ (x \ {p}) \ {m} \subseteq x /\ (x \ {p}) \ {m} # x
        OBVIOUS
      <4>4. totalBytes((x \ {p}) \ {m}) \in Nat
        BY <1>3, <4>3
      <4>5. size[m] \in Nat
        BY <1>0, <1>2
      <4> QED
        BY <2>1, <2>2, <4>1, <4>2, <4>3, <4>4, <4>5
    <3> QED
      BY <3>1, <3>2
  <2> QED
    BY <1>2, <2>4, <2>5
<1> QED
  BY <1>5, <1>6

LEMMA TotalEmpty == totalBytes({}) = 0
BY FS_EmptySet, TotalStep

LEMMA TotalAdd ==
  ASSUME NEW S \in SUBSET BatchMessages, NEW m \in BatchMessages \ S
  PROVE  totalBytes(S \cup {m}) = totalBytes(S) + size[m]
<1>1. S \cup {m} \in SUBSET BatchMessages /\ (S \cup {m}) \ {m} = S /\ m \in S \cup {m}
  OBVIOUS
<1>2. totalBytes(S) \in Nat /\ size[m] \in Nat
  BY TotalWithout, BatchesAssumption DEF BatchMessages
<1>3. totalBytes(S \cup {m}) = size[m] + totalBytes(S)
  BY <1>1, TotalWithout
<1> QED
  BY <1>2, <1>3

(* A size is at most the largest one                                       *)
LEMMA MaxSizeIs ==
  ASSUME NEW m \in BatchMessages
  PROVE  MaxSize \in Nat /\ size[m] <= MaxSize
<1> DEFINE Bad == {k \in 1 .. Len(size) :
                     ~ \E x \in 1 .. k : \A y \in 1 .. k : size[y] <= size[x]}
<1>0. /\ Len(size) \in Nat /\ BatchMessages = 1 .. Len(size) 
      /\ \A i \in 1 .. Len(size) : size[i] \in Nat
  BY MessagesAre, BatchesAssumption
<1>1. Bad = {}
  <2> SUFFICES ASSUME Bad # {} PROVE FALSE
    OBVIOUS
  <2>1. PICK k \in Bad : \A j \in Bad : ~ (<<j, k>> \in OpToRel(<, Nat))
    <3>1. Bad \subseteq Nat
      BY <1>0
    <3> HIDE DEF Bad
    <3> QED
      BY <3>1, NatLessThanWellFounded, WFMin
  <2>2. k \in 1 .. Len(size) /\ ~ \E x \in 1 .. k : \A y \in 1 .. k : size[y] <= size[x]
    OBVIOUS
  <2>3. \A j \in Nat : j < k => j \notin Bad
    <3>1. k \in Nat
      BY <1>0
    <3> HIDE DEF Bad
    <3> QED
      BY <2>1, <3>1 DEF OpToRel
  <2>4. CASE k = 1
    BY <1>0, <2>2, <2>4
  <2>5. CASE k # 1
    <3>1. k - 1 \in 1 .. Len(size) /\ k - 1 < k /\ k - 1 \in Nat
      BY <1>0, <2>2, <2>5
    <3>a. k - 1 \notin Bad
      <4> HIDE DEF Bad
      <4> QED
        BY <2>2, <2>3, <3>1
    <3>2. PICK x \in 1 .. k - 1 : \A y \in 1 .. k - 1 : size[y] <= size[x]
      BY <3>1, <3>a
    <3> HIDE DEF Bad
    <3>3. /\ \A y \in 1 .. k : y \in 1 .. k - 1 \/ y = k
          /\ 1 .. k - 1 \subseteq 1 .. k /\ k \in 1 .. k
          /\ 1 .. k \subseteq 1 .. Len(size)
      <4>1. PICK n \in Nat : n = Len(size) /\ k \in 1 .. n
        BY <1>0, <2>2
      <4>2. \A y \in 1 .. k : y \in 1 .. k - 1 \/ y = k
        BY <4>1
      <4>3. 1 .. k - 1 \subseteq 1 .. k /\ k \in 1 .. k /\ 1 .. k \subseteq 1 .. n
        BY <4>1
      <4> QED
        BY <4>1, <4>2, <4>3
    <3>4. CASE size[k] <= size[x]
      <4>1. \A y \in 1 .. k : size[y] <= size[x]
        BY <3>2, <3>3, <3>4
      <4> QED
        BY <2>2, <3>3, <4>1
    <3>5. CASE ~ size[k] <= size[x]
      <4>1. ASSUME NEW y \in 1 .. k PROVE size[y] <= size[k]
        <5>1. size[x] \in Nat /\ size[k] \in Nat /\ size[y] \in Nat
          BY <1>0, <3>3
        <5> QED
          BY <3>2, <3>3, <3>5, <5>1
      <4> QED
        BY <2>2, <3>3, <4>1
    <3> QED
      BY <3>4, <3>5
  <2> QED
    BY <2>4, <2>5
<1>2. PICK x \in BatchMessages : \A y \in BatchMessages : size[y] <= size[x]
  <2>1. Len(size) \in 1 .. Len(size)
    BY <1>0
  <2> QED
    BY <1>0, <1>1, <2>1
<1>3. MaxSize \in {size[i] : i \in BatchMessages} /\ \A y \in {size[i] : i \in BatchMessages} : MaxSize >= y
  <2>1. /\ size[x] \in {size[i] : i \in BatchMessages}
        /\ \A y \in {size[i] : i \in BatchMessages} : size[x] >= y
    BY <1>0, <1>2
  <2> QED
    BY <2>1 DEF MaxSize, Max
<1> QED
  BY <1>0, <1>3

-----------------------------------------------------------------------------
(* A batch is moved into a list that is empty                              *)
LEMMA ClearMoves ==
  ASSUME BatchTypeOK, NEW t \in Threads, list[t] = {}, NEW b \in BatchIds, NEW kind, NEW at,
         Located(kind, at), getAndClear(t, b),
         UNCHANGED <<msg, next, sent, failed, refused>>
  PROVE  PlaceInv'
<1>0. PICK k, a :
        /\ k = [m \in BatchMessages |-> IF m \in messages[b] THEN "list" ELSE kind[m]]
        /\ a = [m \in BatchMessages |-> IF m \in messages[b] THEN t ELSE at[m]]
  OBVIOUS
<1>1. /\ messages \in [BatchIds -> SUBSET BatchMessages] /\ list \in [Threads -> SUBSET BatchMessages]
      /\ next \in 0 .. Len(size)
  BY DEF BatchTypeOK
<1>2. /\ messages' = [messages EXCEPT ![b] = {}]
      /\ list' = [list EXCEPT ![t] = messages[b]]
  BY DEF getAndClear
<1>3. \A m \in messages[b] : kind[m] = "batch" /\ at[m] = b /\ m <= next
  BY <1>1, MessagesAre DEF Located
<1>4. ASSUME NEW m \in BatchMessages
      PROVE  /\ k[m] \in Kinds
             /\ k[m] = "new" <=> m > next
             /\ k[m] = "thread" => a[m] \in Threads
             /\ k[m] = "batch" => a[m] \in BatchIds
             /\ k[m] = "list" => a[m] \in Threads
             /\ \A s \in Threads : msg[s] = m <=> k[m] = "thread" /\ a[m] = s
             /\ Recorded(m) <=> k[m] = "done"
             /\ \A i, j \in 1 .. Len(sent) : m \in sent[i] /\ m \in sent[j] => i = j
             /\ m \in refused => m \notin failed /\ \A i \in 1 .. Len(sent) : m \notin sent[i]
  BY <1>0, <1>1, <1>3 DEF Located, Kinds
<1>5. ASSUME NEW m \in BatchMessages, NEW c \in BatchIds
      PROVE  m \in messages'[c] <=> k[m] = "batch" /\ a[m] = c
  BY <1>0, <1>1, <1>2 DEF Located
<1>6. ASSUME NEW m \in BatchMessages, NEW s \in Threads
      PROVE  m \in list'[s] <=> k[m] = "list" /\ a[m] = s
  BY <1>0, <1>1, <1>2 DEF Located
<1>7. Located(k, a)'
  BY <1>4, <1>5, <1>6 DEF Located, Recorded
<1> QED
  BY <1>7 DEF PlaceInv

LEMMA TypePreserved == Inv /\ [BatchNext]_batchVars => BatchTypeOK'
<1> SUFFICES ASSUME Inv, [BatchNext]_batchVars PROVE BatchTypeOK'
  OBVIOUS
<1> USE BatchesAssumption, MessagesAre DEF Inv, BatchTypeOK, At, Goto, Labels
<1>0. CASE UNCHANGED batchVars
  BY <1>0 DEF batchVars, locals, results
<1> SUFFICES ASSUME NEW t \in Threads,
                    \/ produceBatch(t) \/ putIfAbsent(t) \/ get(t) \/ addMessage(t)
                    \/ getAndClearIfReady(t) \/ sendBatch(t)
                    \/ flushBatches(t) \/ configureBatch(t) \/ clearOld(t)
             PROVE  BatchTypeOK'
  BY <1>0 DEF BatchNext
<1>a. 1 .. created \subseteq BatchIds
  BY DEF BatchIds
<1>1. CASE produceBatch(t)
  BY <1>1 DEF produceBatch, results
<1>2. CASE putIfAbsent(t)
  <2>0. IsFiniteSet(Putting) /\ t \in Putting
    BY <1>2 DEF putIfAbsent, CreatedInv, Putting
  <2>1. Cardinality(Putting) \in Nat /\ Cardinality(Putting) # 0
    BY <2>0, FS_CardinalityType, FS_EmptySet
  <2>2. created + 1 \in BatchIds
    BY <2>1 DEF CreatedInv, BatchIds
  <2>3. created' \in BatchIds /\ created' \in Nat /\ batches' \in 1 .. created' \cup {NIL}
    BY <1>2, <2>2 DEF putIfAbsent
  <2>4. batch' \in [Threads -> 1 .. created' \cup {NIL}]
    BY <1>2 DEF putIfAbsent
  <2> QED
    BY <1>2, <2>3, <2>4 DEF putIfAbsent, results
<1>3. CASE get(t)
  <2>1. msg[t] \in BatchMessages
    BY <1>3 DEF get, ControlInv
  <2>2. CASE batches = NIL
    <3>1. refused' \subseteq BatchMessages /\ msg' \in [Threads -> BatchMessages \cup {NIL}]
      BY <1>3, <2>1, <2>2 DEF get
    <3> QED
      BY <1>3, <2>2, <3>1 DEF get
  <2>3. CASE batches # NIL
    <3>1. batch' = [batch EXCEPT ![t] = batches] /\ batches \in 1 .. created
      BY <1>3, <2>3 DEF get
    <3>2. batch' \in [Threads -> 1 .. created \cup {NIL}]
      BY <3>1
    <3> QED
      BY <1>3, <2>3, <3>1, <3>2 DEF get
  <2> QED
    BY <2>2, <2>3
<1>4. CASE addMessage(t)
  <2>1. msg[t] \in BatchMessages /\ batch[t] \in BatchIds
    BY <1>4, <1>a DEF addMessage, ControlInv
  <2>2. messages' \in [BatchIds -> SUBSET BatchMessages]
    BY <1>4, <2>1 DEF addMessage
  <2> QED
    BY <1>4, <2>2 DEF addMessage, results
<1>5. CASE getAndClearIfReady(t)
  <2>1. batch[t] \in BatchIds
    BY <1>5, <1>a DEF getAndClearIfReady
  <2>2. /\ messages' \in [BatchIds -> SUBSET BatchMessages]
        /\ list' \in [Threads -> SUBSET BatchMessages]
    BY <1>5, <2>1 DEF getAndClearIfReady, getAndClear
  <2>3. pc' \in [Threads -> Labels] /\ pc'[t] \in {"send", "idle"}
    BY <1>5 DEF getAndClearIfReady
  <2>4. \A s \in Threads \ {t} : pc'[s] = pc[s] /\ batch'[s] = batch[s]
    BY <1>5 DEF getAndClearIfReady
  <2> QED
    BY <1>5, <2>2, <2>3, <2>4 DEF getAndClearIfReady, results
<1>6. CASE sendBatch(t)
  <2>1. sent' \in Seq(SUBSET BatchMessages)
    <3>1. list[t] \in SUBSET BatchMessages
      OBVIOUS
    <3>2. Append(sent, list[t]) \in Seq(SUBSET BatchMessages)
      BY <3>1, AppendProperties
    <3> QED
      BY <1>6, <3>2 DEF sendBatch
  <2> QED
    BY <1>6, <2>1 DEF sendBatch
<1>7. CASE flushBatches(t)
  BY <1>7 DEF flushBatches, results
<1>8. CASE configureBatch(t)
  <2>1. created + 1 \in BatchIds
    BY <1>8, FS_CardinalityType DEF configureBatch, CreatedInv, BatchIds
  <2>2. 1 .. created \subseteq 1 .. created + 1 /\ created + 1 \in 1 .. created + 1
    OBVIOUS
  <2> QED
    BY <1>8, <2>1, <2>2 DEF configureBatch, results
<1>9. CASE clearOld(t)
  BY <1>9, <1>a DEF clearOld, getAndClear, results
<1> QED
  BY <1>1, <1>2, <1>3, <1>4, <1>5, <1>6, <1>7, <1>8, <1>9

LEMMA CreatedPreserved == Inv /\ [BatchNext]_batchVars => CreatedInv'
<1> SUFFICES ASSUME Inv, [BatchNext]_batchVars PROVE CreatedInv'
  OBVIOUS
<1>0. CASE UNCHANGED batchVars
  BY <1>0 DEF batchVars, locals, results, Inv, CreatedInv, Putting
<1> SUFFICES ASSUME NEW t \in Threads,
                    \/ produceBatch(t) \/ putIfAbsent(t) \/ get(t) \/ addMessage(t)
                    \/ getAndClearIfReady(t) \/ sendBatch(t)
                    \/ flushBatches(t) \/ configureBatch(t) \/ clearOld(t)
             PROVE  CreatedInv'
  BY <1>0 DEF BatchNext
<1>a. /\ created \in Nat /\ next \in Nat /\ controls \in Nat /\ pc \in [Threads -> Labels]
      /\ IsFiniteSet(Putting) /\ created + Cardinality(Putting) <= next + controls
  BY MessagesAre, BatchesAssumption DEF Inv, BatchTypeOK, CreatedInv
<1>b. PICK l \in Labels : pc' = [pc EXCEPT ![t] = l]
  BY DEF produceBatch, putIfAbsent, get, addMessage, getAndClearIfReady, sendBatch,
         flushBatches, configureBatch, clearOld, Goto, Labels
<1>c. /\ IsFiniteSet(Putting')
      /\ l = "put" => Cardinality(Putting') <= Cardinality(Putting) + 1
      /\ l # "put" => Cardinality(Putting') <= Cardinality(Putting)
      /\ l # "put" /\ pc[t] = "put" => Cardinality(Putting') = Cardinality(Putting) - 1
      /\ Cardinality(Putting) \in Nat /\ Cardinality(Putting') \in Nat
  BY <1>a, <1>b, PuttingMoves
<1>1. CASE produceBatch(t)
  BY <1>1, <1>a, <1>c DEF produceBatch, CreatedInv
<1>2. CASE putIfAbsent(t)
  <2>1. l # "put" /\ pc[t] = "put" /\ created' = created + 1 /\ UNCHANGED <<next, controls>>
    BY <1>2, <1>a, <1>b DEF putIfAbsent, At, Goto
  <2> QED
    BY <2>1, <1>a, <1>c DEF CreatedInv
<1>3. CASE configureBatch(t)
  <2>1. l # "put" /\ created' = created + 1 /\ controls' = controls + 1 /\ UNCHANGED next
    BY <1>3, <1>a, <1>b DEF configureBatch, Goto
  <2> QED
    BY <2>1, <1>a, <1>c DEF CreatedInv
<1>4. CASE flushBatches(t)
  <2>1. l # "put" /\ controls' = controls + 1 /\ UNCHANGED <<created, next>>
    BY <1>4, <1>a, <1>b DEF flushBatches, Goto
  <2> QED
    BY <2>1, <1>a, <1>c DEF CreatedInv
<1>5. CASE get(t) \/ addMessage(t) \/ getAndClearIfReady(t) \/ sendBatch(t) \/ clearOld(t)
  <2>1. l # "put" /\ UNCHANGED <<created, next, controls>>
    BY <1>5, <1>a, <1>b DEF get, addMessage, getAndClearIfReady, sendBatch, clearOld, Goto
  <2> QED
    BY <2>1, <1>a, <1>c DEF CreatedInv
<1> QED
  BY <1>1, <1>2, <1>3, <1>4, <1>5

LEMMA ControlPreserved == Inv /\ [BatchNext]_batchVars => ControlInv'
<1> SUFFICES ASSUME Inv, [BatchNext]_batchVars PROVE ControlInv'
  OBVIOUS
<1> USE BatchesAssumption, MessagesAre DEF Inv, BatchTypeOK, ControlInv, At, Goto
<1>0. CASE UNCHANGED batchVars
  BY <1>0 DEF batchVars, locals
<1> SUFFICES ASSUME NEW t \in Threads,
                    \/ produceBatch(t) \/ putIfAbsent(t) \/ get(t) \/ addMessage(t)
                    \/ getAndClearIfReady(t) \/ sendBatch(t)
                    \/ flushBatches(t) \/ configureBatch(t) \/ clearOld(t)
             PROVE  ControlInv'
  BY <1>0 DEF BatchNext
<1>1. CASE produceBatch(t)
  BY <1>1 DEF produceBatch
<1>2. CASE putIfAbsent(t)
  BY <1>2 DEF putIfAbsent
<1>3. CASE get(t)
  BY <1>3, SMTT(20) DEF get
<1>4. CASE addMessage(t)
  BY <1>4 DEF addMessage
<1>5. CASE getAndClearIfReady(t)
  BY <1>5, ZenonT(20) DEF getAndClearIfReady, getAndClear
<1>6. CASE sendBatch(t)
  BY <1>6 DEF sendBatch
<1>7. CASE flushBatches(t)
  BY <1>7 DEF flushBatches
<1>8. CASE configureBatch(t)
  BY <1>8 DEF configureBatch
<1>9. CASE clearOld(t)
  BY <1>9 DEF clearOld, getAndClear
<1> QED
  BY <1>1, <1>2, <1>3, <1>4, <1>5, <1>6, <1>7, <1>8, <1>9

LEMMA PlacePreserved == Inv /\ [BatchNext]_batchVars => PlaceInv'
<1> SUFFICES ASSUME Inv, [BatchNext]_batchVars PROVE PlaceInv'
  OBVIOUS
<1>0. PICK kind, at : Located(kind, at)
  BY DEF Inv, PlaceInv
<1>a. ASSUME UNCHANGED <<msg, messages, list, next, sent, failed, refused>>
      PROVE  PlaceInv'
  <2>1. Located(kind, at)'
    BY <1>0, <1>a DEF Located, Recorded
  <2> QED
    BY <2>1 DEF PlaceInv
<1>b. CASE UNCHANGED batchVars
  BY <1>a, <1>b DEF batchVars, locals, results
<1> SUFFICES ASSUME NEW t \in Threads,
                    \/ produceBatch(t) \/ putIfAbsent(t) \/ get(t) \/ addMessage(t)
                    \/ getAndClearIfReady(t) \/ sendBatch(t)
                    \/ flushBatches(t) \/ configureBatch(t) \/ clearOld(t)
             PROVE  PlaceInv'
  BY <1>b DEF BatchNext
<1>c. /\ messages \in [BatchIds -> SUBSET BatchMessages] /\ list \in [Threads -> SUBSET BatchMessages]
      /\ msg \in [Threads -> BatchMessages \cup {NIL}] /\ NIL \notin BatchMessages
      /\ next \in 0 .. Len(size) /\ BatchMessages = 1 .. Len(size) /\ Len(size) \in Nat
      /\ sent \in Seq(SUBSET BatchMessages)
  BY MessagesAre, BatchesAssumption DEF Inv, BatchTypeOK
<1>d. 1 .. created \subseteq BatchIds /\ batch \in [Threads -> 1 .. created \cup {NIL}]
      /\ (pc[t] \in {"add", "ready", "clear"} => batch[t] # NIL)
  BY BatchesAssumption, MessagesAre DEF Inv, BatchTypeOK, BatchIds
<1>e. /\ msg[t] # NIL <=> pc[t] \in {"put", "get", "add"}
      /\ pc[t] # "send" => list[t] = {}
  BY DEF Inv, ControlInv
<1>1. CASE produceBatch(t)
  <2>1. /\ msg[t] = NIL /\ next' = next + 1 /\ next + 1 \in BatchMessages
        /\ msg' = [msg EXCEPT ![t] = next + 1]
        /\ UNCHANGED <<messages, list, sent, failed, refused>>
    BY <1>1, <1>c, <1>e DEF produceBatch, At, results
  <2>2. PICK k, a : /\ k = [m \in BatchMessages |-> IF m = next + 1 THEN "thread" ELSE kind[m]]
                    /\ a = [m \in BatchMessages |-> IF m = next + 1 THEN t ELSE at[m]]
    OBVIOUS
  <2>3. kind[next + 1] = "new"
    BY <1>0, <1>c, <2>1 DEF Located
  <2>4. ASSUME NEW m \in BatchMessages
        PROVE  /\ k[m] \in Kinds
               /\ k[m] = "thread" => a[m] \in Threads
               /\ k[m] = "batch" => a[m] \in BatchIds
               /\ k[m] = "list" => a[m] \in Threads
               /\ \A b \in BatchIds : m \in messages[b] <=> k[m] = "batch" /\ a[m] = b
               /\ \A s \in Threads : m \in list[s] <=> k[m] = "list" /\ a[m] = s
               /\ Recorded(m) <=> k[m] = "done"
               /\ \A i, j \in 1 .. Len(sent) : m \in sent[i] /\ m \in sent[j] => i = j
               /\ m \in refused => m \notin failed /\ \A i \in 1 .. Len(sent) : m \notin sent[i]
    <3>1. CASE m = next + 1
      <4>1. k[m] = "thread" /\ a[m] = t /\ kind[m] = "new"
        BY <2>2, <2>3, <3>1
      <4> QED
        BY <1>0, <4>1 DEF Located, Kinds
    <3>2. CASE m # next + 1
      <4>1. k[m] = kind[m] /\ a[m] = at[m]
        BY <2>2, <3>2
      <4> QED
        BY <1>0, <4>1 DEF Located
    <3> QED
      BY <3>1, <3>2
  <2>5. ASSUME NEW m \in BatchMessages PROVE k[m] = "new" <=> m > next'
    <3>1. kind[m] = "new" <=> m > next
      BY <1>0 DEF Located
    <3> QED
      BY <1>c, <2>1, <2>2, <3>1
  <2>6. ASSUME NEW m \in BatchMessages, NEW s \in Threads
        PROVE  msg'[s] = m <=> k[m] = "thread" /\ a[m] = s
    BY <1>0, <1>c, <2>1, <2>2, <2>3 DEF Located
  <2>7. Located(k, a)'
    BY <2>1, <2>4, <2>5, <2>6 DEF Located, Recorded
  <2> QED
    BY <2>7 DEF PlaceInv
<1>2. CASE putIfAbsent(t) \/ flushBatches(t) \/ configureBatch(t)
  BY <1>2, <1>a DEF putIfAbsent, flushBatches, configureBatch, results
<1>3. CASE get(t)
  <2>1. CASE batches # NIL
    BY <1>3, <1>a, <2>1 DEF get
  <2>2. CASE batches = NIL
    <3>1. /\ msg[t] \in BatchMessages /\ refused' = refused \cup {msg[t]}
          /\ msg' = [msg EXCEPT ![t] = NIL]
          /\ UNCHANGED <<messages, list, next, sent, failed>>
      BY <1>3, <1>c, <1>e, <2>2 DEF get, At
    <3>2. PICK k : k = [m \in BatchMessages |-> IF m = msg[t] THEN "done" ELSE kind[m]]
      OBVIOUS
    <3>3. kind[msg[t]] = "thread" /\ at[msg[t]] = t /\ ~ Recorded(msg[t])
      BY <1>0, <3>1 DEF Located
    <3>4. ASSUME NEW m \in BatchMessages
          PROVE  /\ k[m] \in Kinds
                 /\ k[m] = "new" <=> m > next
                 /\ k[m] = "thread" => at[m] \in Threads
                 /\ k[m] = "batch" => at[m] \in BatchIds
                 /\ k[m] = "list" => at[m] \in Threads
                 /\ \A b \in BatchIds : m \in messages[b] <=> k[m] = "batch" /\ at[m] = b
                 /\ \A s \in Threads : m \in list[s] <=> k[m] = "list" /\ at[m] = s
                 /\ \A i, j \in 1 .. Len(sent) : m \in sent[i] /\ m \in sent[j] => i = j
      <4>1. CASE m = msg[t]
        BY <1>0, <3>2, <3>3, <4>1 DEF Located, Kinds
      <4>2. CASE m # msg[t]
        BY <1>0, <3>2, <4>2 DEF Located
      <4> QED
        BY <4>1, <4>2
    <3>5. ASSUME NEW m \in BatchMessages, NEW s \in Threads
          PROVE  msg'[s] = m <=> k[m] = "thread" /\ at[m] = s
      BY <1>0, <1>c, <3>1, <3>2, <3>3 DEF Located
    <3>6. ASSUME NEW m \in BatchMessages
          PROVE  /\ Recorded(m)' <=> k[m] = "done"
                 /\ m \in refused' => m \notin failed /\ \A i \in 1 .. Len(sent) : m \notin sent[i]
      <4>1. CASE m = msg[t]
        BY <3>1, <3>2, <3>3, <4>1 DEF Recorded
      <4>2. CASE m # msg[t]
        BY <1>0, <3>1, <3>2, <4>2 DEF Recorded, Located
      <4> QED
        BY <4>1, <4>2
    <3>7. Located(k, at)'
      BY <3>1, <3>4, <3>5, <3>6 DEF Located
    <3> QED
      BY <3>7 DEF PlaceInv
  <2> QED
    BY <2>1, <2>2
<1>4. CASE addMessage(t)
  <2>1. /\ msg[t] \in BatchMessages /\ batch[t] \in BatchIds
        /\ messages' = [messages EXCEPT ![batch[t]] = @ \cup {msg[t]}]
        /\ msg' = [msg EXCEPT ![t] = NIL]
        /\ UNCHANGED <<list, next, sent, failed, refused>>
    BY <1>4, <1>c, <1>d, <1>e DEF addMessage, At, results
  <2>2. PICK k, a : /\ k = [m \in BatchMessages |-> IF m = msg[t] THEN "batch" ELSE kind[m]]
                    /\ a = [m \in BatchMessages |-> IF m = msg[t] THEN batch[t] ELSE at[m]]
    OBVIOUS
  <2>3. kind[msg[t]] = "thread" /\ at[msg[t]] = t
    BY <1>0, <2>1 DEF Located
  <2>4. ASSUME NEW m \in BatchMessages
        PROVE  /\ k[m] \in Kinds
               /\ k[m] = "new" <=> m > next
               /\ k[m] = "thread" => a[m] \in Threads
               /\ k[m] = "batch" => a[m] \in BatchIds
               /\ k[m] = "list" => a[m] \in Threads
               /\ \A s \in Threads : m \in list[s] <=> k[m] = "list" /\ a[m] = s
               /\ Recorded(m) <=> k[m] = "done"
               /\ \A i, j \in 1 .. Len(sent) : m \in sent[i] /\ m \in sent[j] => i = j
               /\ m \in refused => m \notin failed /\ \A i \in 1 .. Len(sent) : m \notin sent[i]
    <3>1. CASE m = msg[t]
      BY <1>0, <2>1, <2>2, <2>3, <3>1 DEF Located, Kinds
    <3>2. CASE m # msg[t]
      BY <1>0, <2>2, <3>2 DEF Located, Kinds
    <3> QED
      BY <3>1, <3>2
  <2>5. ASSUME NEW m \in BatchMessages, NEW s \in Threads
        PROVE  msg'[s] = m <=> k[m] = "thread" /\ a[m] = s
    BY <1>0, <1>c, <2>1, <2>2, <2>3 DEF Located
  <2>6. ASSUME NEW m \in BatchMessages, NEW b \in BatchIds
        PROVE  m \in messages'[b] <=> k[m] = "batch" /\ a[m] = b
    BY <1>0, <1>c, <2>1, <2>2, <2>3 DEF Located
  <2>7. Located(k, a)'
    BY <2>1, <2>4, <2>5, <2>6 DEF Located, Recorded
  <2> QED
    BY <2>7 DEF PlaceInv
<1>6. CASE sendBatch(t)
  <2>1. list' = [list EXCEPT ![t] = {}] /\ UNCHANGED <<messages, msg, next, refused>>
    BY <1>6 DEF sendBatch
  <2>2. CASE list[t] # {} /\ \/ sent' = Append(sent, list[t]) /\ UNCHANGED failed
                             \/ sent' \in {sent, Append(sent, list[t])}
                                  /\ failed' = failed \cup list[t]
    <3>1. PICK k : k = [m \in BatchMessages |-> IF m \in list[t] THEN "done" ELSE kind[m]]
      OBVIOUS
    <3>2. /\ Len(sent) \in Nat /\ Len(sent') \in Nat
          /\ \/ sent' = sent
             \/ Len(sent') = Len(sent) + 1 /\ sent'[Len(sent) + 1] = list[t]
          /\ \A i \in 1 .. Len(sent) : sent'[i] = sent[i]
          /\ 1 .. Len(sent) \subseteq 1 .. Len(sent')
      <4>1. sent' = sent \/ (sent' = Append(sent, list[t]) /\ list[t] \in SUBSET BatchMessages)
        BY <1>c, <2>2
      <4>2. CASE sent' = sent
        BY <1>c, <4>2
      <4>3. CASE sent' = Append(sent, list[t]) /\ list[t] \in SUBSET BatchMessages
        BY <1>c, <4>3, AppendProperties
      <4> QED
        BY <4>1, <4>2, <4>3
    <3>3. \A m \in list[t] : m \in BatchMessages /\ kind[m] = "list" /\ at[m] = t /\ ~ Recorded(m)
      BY <1>0, <1>c DEF Located
    <3>4. ASSUME NEW m \in BatchMessages
          PROVE  /\ k[m] \in Kinds
                 /\ k[m] = "new" <=> m > next
                 /\ k[m] = "thread" => at[m] \in Threads
                 /\ k[m] = "batch" => at[m] \in BatchIds
                 /\ k[m] = "list" => at[m] \in Threads
                 /\ \A s \in Threads : msg[s] = m <=> k[m] = "thread" /\ at[m] = s
                 /\ \A b \in BatchIds : m \in messages[b] <=> k[m] = "batch" /\ at[m] = b
      BY <1>0, <3>1, <3>3 DEF Located, Kinds
    <3>5. ASSUME NEW m \in BatchMessages, NEW s \in Threads
          PROVE  m \in list'[s] <=> k[m] = "list" /\ at[m] = s
      BY <1>0, <1>c, <2>1, <3>1 DEF Located
    <3>6. ASSUME NEW m \in BatchMessages
          PROVE  /\ Recorded(m)' <=> k[m] = "done"
                 /\ \A i, j \in 1 .. Len(sent') : m \in sent'[i] /\ m \in sent'[j] => i = j
                 /\ m \in refused => m \notin failed' /\ \A i \in 1 .. Len(sent') : m \notin sent'[i]
      <4>1. \A i \in 1 .. Len(sent') : i \in 1 .. Len(sent) \/ sent'[i] = list[t]
        BY <3>2
      <4>2. CASE m \in list[t]
        <5>1. /\ k[m] = "done" /\ m \notin refused /\ m \notin failed
              /\ \A i \in 1 .. Len(sent) : m \notin sent'[i]
          BY <3>1, <3>2, <3>3, <4>2 DEF Recorded
        <5>2. \A i \in 1 .. Len(sent') : m \in sent'[i] => i = Len(sent) + 1
          BY <3>2, <5>1
        <5>3. m \in failed' \/ \E i \in 1 .. Len(sent') : m \in sent'[i]
          <6>1. CASE sent' = Append(sent, list[t])
            <7>1. Len(sent) + 1 \in 1 .. Len(sent') /\ sent'[Len(sent) + 1] = list[t]
              BY <1>c, <6>1, AppendProperties
            <7> QED
              BY <4>2, <7>1
          <6>2. CASE failed' = failed \cup list[t]
            BY <4>2, <6>2
          <6> QED
            BY <2>2, <6>1, <6>2
        <5> QED
          BY <2>1, <5>1, <5>2, <5>3 DEF Recorded
      <4>3. CASE m \notin list[t]
        <5>1. \A i \in 1 .. Len(sent') : m \in sent'[i] => i \in 1 .. Len(sent) /\ m \in sent[i]
          BY <3>2, <4>1, <4>3
        <5>2. (m \in failed' <=> m \in failed) /\ k[m] = kind[m]
          BY <2>2, <3>1, <4>3
        <5>3. Recorded(m)' <=> Recorded(m)
          BY <2>1, <3>2, <5>1, <5>2 DEF Recorded
        <5> QED
          BY <1>0, <5>1, <5>2, <5>3 DEF Located
      <4> QED
        BY <4>2, <4>3
    <3>7. Located(k, at)'
      BY <2>1, <3>4, <3>5, <3>6 DEF Located
    <3> QED
      BY <3>7 DEF PlaceInv
  <2>4. CASE list[t] = {} /\ UNCHANGED <<sent, failed>>
    <3>1. list' = list
      BY <1>c, <2>1, <2>4
    <3> QED
      BY <1>a, <2>1, <2>4, <3>1
  <2> QED
    BY <1>6, <2>2, <2>4 DEF sendBatch
<1>5. CASE getAndClearIfReady(t)
  <2>1. list[t] = {} /\ batch[t] \in BatchIds /\ UNCHANGED <<msg, next, sent, failed, refused>>
    BY <1>5, <1>d, <1>e DEF getAndClearIfReady, At, results
  <2>2. CASE getAndClear(t, batch[t])
    BY <1>0, <2>1, <2>2, ClearMoves DEF Inv
  <2>3. CASE UNCHANGED <<messages, list>>
    BY <1>a, <2>1, <2>3
  <2> QED
    BY <1>5, <2>2, <2>3 DEF getAndClearIfReady
<1>9. CASE clearOld(t)
  <2>1. list[t] = {} /\ batch[t] \in BatchIds /\ UNCHANGED <<msg, next, sent, failed, refused>>
    BY <1>9, <1>d, <1>e DEF clearOld, At, results
  <2> QED
    BY <1>0, <1>9, <2>1, ClearMoves DEF clearOld, Inv
<1> QED
  BY <1>1, <1>2, <1>3, <1>4, <1>5, <1>6, <1>9

LEMMA FlushPreserved == Inv /\ [BatchNext]_batchVars => FlushInv'
<1> SUFFICES ASSUME Inv, [BatchNext]_batchVars PROVE FlushInv'
  OBVIOUS
<1> USE DEF FlushInv, At, Goto
<1>a. /\ FlushInv /\ NIL \notin BatchIds /\ batch \in [Threads -> 1 .. created \cup {NIL}]
      /\ messages \in [BatchIds -> SUBSET BatchMessages] /\ pc \in [Threads -> Labels]
  BY BatchesAssumption DEF Inv, BatchTypeOK
<1>0. CASE UNCHANGED batchVars
  BY <1>a, <1>0 DEF batchVars, locals
<1> SUFFICES ASSUME NEW t \in Threads,
                    \/ produceBatch(t) \/ putIfAbsent(t) \/ get(t) \/ addMessage(t)
                    \/ getAndClearIfReady(t) \/ sendBatch(t)
                    \/ flushBatches(t) \/ configureBatch(t) \/ clearOld(t)
             PROVE  FlushInv'
  BY <1>0 DEF BatchNext
<1>1. CASE produceBatch(t)
  BY <1>a, <1>1 DEF produceBatch
<1>2. CASE putIfAbsent(t)
  BY <1>a, <1>2 DEF putIfAbsent
<1>3. CASE get(t)
  BY <1>a, <1>3 DEF get
<1>4. CASE addMessage(t)
  BY <1>a, <1>4 DEF addMessage
<1>5. CASE getAndClearIfReady(t)
  BY <1>a, <1>5 DEF getAndClearIfReady, getAndClear
<1>6. CASE sendBatch(t)
  BY <1>a, <1>6 DEF sendBatch
<1>7. CASE flushBatches(t)
  BY <1>a, <1>7 DEF flushBatches
<1>8. CASE configureBatch(t)
  BY <1>a, <1>8 DEF configureBatch
<1>9. CASE clearOld(t)
  BY <1>a, <1>9 DEF clearOld, getAndClear
<1> QED
  BY <1>1, <1>2, <1>3, <1>4, <1>5, <1>6, <1>7, <1>8, <1>9

-----------------------------------------------------------------------------
LEMMA Product ==
  ASSUME NEW n \in Nat, NEW k \in Nat, NEW p \in Nat
  PROVE  /\ n * p \in Nat /\ (n + 1) * p = n * p + p
         /\ n <= k => n * p <= k * p
<1>1. n * p \in Nat /\ (n + 1) * p = n * p + p
  OBVIOUS
<1>2. ASSUME n <= k PROVE n * p <= k * p
  <2>1. PICK d \in Nat : k = n + d
    BY <1>2
  <2>2. (n + d) * p = n * p + d * p /\ d * p \in Nat
    OBVIOUS
  <2> QED
    BY <1>1, <2>1, <2>2
<1> QED
  BY <1>1, <1>2

LEMMA BoundedNumbers ==
  ASSUME NEW s \in SUBSET BatchMessages
  PROVE  /\ IsFiniteSet(s) /\ Cardinality(s) \in Nat /\ totalBytes(s) \in Nat
         /\ maxMessages \in Nat \ {0} /\ maxBytes \in Nat \ {0}
         /\ s # {} => MaxSize \in Nat
<1>1. IsFiniteSet(BatchMessages)
  BY FS_Interval, MessagesAre
<1>2. IsFiniteSet(s) /\ Cardinality(s) \in Nat
  BY <1>1, FS_Subset, FS_CardinalityType
<1>3. s # {} => MaxSize \in Nat
  BY MaxSizeIs
<1> QED
  BY <1>2, <1>3, TotalWithout, BatchesAssumption DEF maxBytes

LEMMA BoundedMore ==
  ASSUME NEW s \in SUBSET BatchMessages, s # {}, NEW n \in Nat, NEW k \in Nat, n <= k, Bounded(s, n)
  PROVE  Bounded(s, k)
<1>1. n * MaxSize \in Nat /\ k * MaxSize \in Nat /\ n * MaxSize <= k * MaxSize
  BY BoundedNumbers, Product
<1> QED
  BY <1>1, BoundedNumbers DEF Bounded

LEMMA BoundedAdd ==
  ASSUME NEW s \in SUBSET BatchMessages, NEW m \in BatchMessages, NEW n \in Nat,
         s # {} => Bounded(s, n)
  PROVE  Bounded(s \cup {m}, n + 1)
<1>0. MaxSize \in Nat /\ size[m] \in Nat /\ size[m] <= MaxSize
  BY MaxSizeIs, BatchesAssumption DEF BatchMessages
<1>1. CASE m \in s
  <2>1. s \cup {m} = s /\ s # {}
    BY <1>1
  <2> QED
    BY <2>1, BoundedMore
<1>2. CASE m \notin s
  <2>1. totalBytes(s \cup {m}) = totalBytes(s) + size[m]
    BY <1>2, TotalAdd
  <2>2. Cardinality(s \cup {m}) = Cardinality(s) + 1
    BY <1>2, BoundedNumbers, FS_AddElement
  <2>3. n * MaxSize \in Nat /\ (n + 1) * MaxSize = n * MaxSize + MaxSize
    BY <1>0, Product
  <2>4. s = {} => Cardinality(s) = 0 /\ totalBytes(s) = 0
    BY FS_EmptySet, TotalEmpty
  <2>5. Cardinality(s) + 1 <= maxMessages + n /\ totalBytes(s) < maxBytes + n * MaxSize
    BY <2>3, <2>4, BoundedNumbers DEF Bounded
  <2>6. Cardinality(s) + 1 + 1 <= maxMessages + (n + 1)
    BY <2>5, BoundedNumbers
  <2>7. totalBytes(s) + size[m] < maxBytes + (n * MaxSize + MaxSize)
    BY <1>0, <2>3, <2>5, BoundedNumbers
  <2> QED
    BY <2>1, <2>2, <2>3, <2>6, <2>7 DEF Bounded
<1> QED
  BY <1>1, <1>2

LEMMA BoundedNotReady ==
  ASSUME BatchTypeOK, NEW b \in BatchIds, ~ isReady(b), messages[b] # {}, NEW n \in Nat
  PROVE  Bounded(messages[b], n)
<1>1. messages[b] \in SUBSET BatchMessages
  BY DEF BatchTypeOK
<1>2. n * MaxSize \in Nat
  BY <1>1, BoundedNumbers, Product
<1> QED
  BY <1>1, <1>2, BoundedNumbers DEF Bounded, isReady

LEMMA ReadyNumbers ==
  ASSUME NEW b
  PROVE  /\ IsFiniteSet(Ready(b)) /\ Cardinality(Ready(b)) \in Nat
         /\ Cardinality(Threads) \in Nat
         /\ Cardinality(Ready(b)) <= Cardinality(Threads)
<1>1. IsFiniteSet(Threads) /\ Ready(b) \in SUBSET Threads
  BY BatchesAssumption DEF Ready
<1> QED
  BY <1>1, FS_Subset, FS_CardinalityType

(* A batch that is moved into a list keeps its bound                       *)
LEMMA ClearBounded ==
  ASSUME BatchTypeOK, BoundInv, NEW t \in Threads, NEW b \in BatchIds, getAndClear(t, b), sent' = sent,
         \A c \in BatchIds \ {b} : Ready(c)' = Ready(c)
  PROVE  BoundInv'
<1>1. /\ messages \in [BatchIds -> SUBSET BatchMessages] /\ list \in [Threads -> SUBSET BatchMessages]
      /\ messages' = [messages EXCEPT ![b] = {}] /\ list' = [list EXCEPT ![t] = messages[b]]
  BY DEF BatchTypeOK, getAndClear
<1>2. ASSUME NEW c \in BatchIds, messages'[c] # {}
      PROVE  Bounded(messages'[c], Cardinality(Ready(c)'))
  <2>1. c # b /\ messages'[c] = messages[c] /\ Ready(c)' = Ready(c)
    BY <1>1, <1>2
  <2> QED
    BY <1>2, <2>1 DEF BoundInv
<1>3. ASSUME NEW s \in Threads, list'[s] # {}
      PROVE  Bounded(list'[s], Cardinality(Threads))
  <2>1. CASE s = t
    <3>1. list'[s] = messages[b] /\ messages[b] \in SUBSET BatchMessages
      BY <1>1, <2>1
    <3>2. Bounded(messages[b], Cardinality(Ready(b)))
      BY <1>3, <3>1 DEF BoundInv
    <3> QED
      BY <1>3, <3>1, <3>2, ReadyNumbers, BoundedMore
  <2>2. CASE s # t
    BY <1>1, <1>3, <2>2 DEF BoundInv
  <2> QED
    BY <2>1, <2>2
<1>4. \A i \in 1 .. Len(sent') : Bounded(sent'[i], Cardinality(Threads))
  BY DEF BoundInv
<1> QED
  BY <1>2, <1>3, <1>4 DEF BoundInv, Bounded

LEMMA BoundPreserved == Inv /\ [BatchNext]_batchVars => BoundInv'
<1> SUFFICES ASSUME Inv, [BatchNext]_batchVars PROVE BoundInv'
  OBVIOUS
<1>a. /\ BatchTypeOK /\ BoundInv /\ batch \in [Threads -> 1 .. created \cup {NIL}]
      /\ messages \in [BatchIds -> SUBSET BatchMessages] /\ list \in [Threads -> SUBSET BatchMessages]
      /\ pc \in [Threads -> Labels] /\ sent \in Seq(SUBSET BatchMessages)
  BY DEF Inv, BatchTypeOK
<1>b. ASSUME UNCHANGED <<messages, list, sent>>, \A b \in BatchIds : Ready(b)' = Ready(b)
      PROVE  BoundInv'
  BY <1>a, <1>b DEF BoundInv, Bounded
<1>0. CASE UNCHANGED batchVars
  BY <1>b, <1>0 DEF batchVars, locals, results, Ready
<1> SUFFICES ASSUME NEW t \in Threads,
                    \/ produceBatch(t) \/ putIfAbsent(t) \/ get(t) \/ addMessage(t)
                    \/ getAndClearIfReady(t) \/ sendBatch(t)
                    \/ flushBatches(t) \/ configureBatch(t) \/ clearOld(t)
             PROVE  BoundInv'
  BY <1>0 DEF BatchNext
<1>c. 1 .. created \subseteq BatchIds /\ (pc[t] \in {"add", "ready", "clear"} => batch[t] # NIL)
  BY BatchesAssumption, MessagesAre DEF Inv, BatchTypeOK, BatchIds
<1>d. pc[t] = "add" => msg[t] \in BatchMessages
  BY DEF Inv, ControlInv, BatchTypeOK
<1>1. CASE produceBatch(t) \/ putIfAbsent(t) \/ get(t) \/ flushBatches(t) \/ configureBatch(t)
  <2>1. UNCHANGED <<messages, list, sent>>
    BY <1>1 DEF produceBatch, putIfAbsent, get, flushBatches, configureBatch, results
  <2>2. \A b \in BatchIds : Ready(b)' = Ready(b)
    BY <1>1, <1>a DEF produceBatch, putIfAbsent, get, flushBatches, configureBatch, Ready, At, Goto
  <2> QED
    BY <1>b, <2>1, <2>2
<1>4. CASE addMessage(t)
  <2>1. /\ pc[t] = "add" /\ pc' = [pc EXCEPT ![t] = "ready"] /\ batch[t] \in BatchIds
        /\ messages' = [messages EXCEPT ![batch[t]] = @ \cup {msg[t]}] /\ msg[t] \in BatchMessages
        /\ UNCHANGED <<batch, list, sent>>
    BY <1>4, <1>a, <1>c, <1>d DEF addMessage, At, Goto, results
  <2>c. PICK c \in BatchIds : c = batch[t]
    BY <2>1
  <2>2. Ready(c)' = Ready(c) \cup {t} /\ t \notin Ready(c)
    BY <1>a, <2>1, <2>c DEF Ready
  <2>3. Cardinality(Ready(c)') = Cardinality(Ready(c)) + 1
    BY <2>2, ReadyNumbers, FS_AddElement
  <2>4. ASSUME NEW b \in BatchIds, b # c
        PROVE  Ready(b)' = Ready(b) /\ messages'[b] = messages[b]
    BY <1>a, <2>1, <2>c, <2>4 DEF Ready
  <2>5. messages'[c] = messages[c] \cup {msg[t]}
    BY <1>a, <2>1, <2>c
  <2>6. Bounded(messages[c] \cup {msg[t]}, Cardinality(Ready(c)) + 1)
    BY <1>a, <2>1, ReadyNumbers, BoundedAdd DEF BoundInv
  <2>7. ASSUME NEW b \in BatchIds, messages'[b] # {}
        PROVE  Bounded(messages'[b], Cardinality(Ready(b)'))
    <3>1. CASE b = c
      BY <2>3, <2>5, <2>6, <3>1
    <3>2. CASE b # c
      BY <1>a, <2>4, <2>7, <3>2 DEF BoundInv
    <3> QED
      BY <3>1, <3>2
  <2> QED
    BY <1>a, <2>1, <2>7 DEF BoundInv, Bounded
<1>5. CASE getAndClearIfReady(t)
  <2>1. /\ pc[t] = "ready" /\ batch[t] \in BatchIds /\ sent' = sent
        /\ batch' = [batch EXCEPT ![t] = NIL]
        /\ pc' \in [Threads -> Labels] /\ pc'[t] # "ready"
        /\ \A s \in Threads \ {t} : pc'[s] = pc[s]
    BY <1>5, <1>a, <1>c DEF getAndClearIfReady, At, Goto, results, Labels
  <2>2. \A b \in BatchIds \ {batch[t]} : Ready(b)' = Ready(b)
    BY <1>a, <2>1 DEF Ready
  <2>3. CASE getAndClear(t, batch[t])
    BY <1>a, <2>1, <2>2, <2>3, ClearBounded
  <2>4. CASE ~ isReady(batch[t]) /\ UNCHANGED <<messages, list>>
    <3>1. ASSUME NEW b \in BatchIds, messages[b] # {}
          PROVE  Bounded(messages[b], Cardinality(Ready(b)'))
      <4>1. CASE b = batch[t]
        <5>1. IsFiniteSet(Threads) /\ Ready(b)' \in SUBSET Threads
          BY BatchesAssumption DEF Ready
        <5>2. Cardinality(Ready(b)') \in Nat
          BY <5>1, FS_Subset, FS_CardinalityType
        <5> QED
          BY <1>a, <2>4, <3>1, <4>1, <5>2, BoundedNotReady
      <4>2. CASE b # batch[t]
        BY <1>a, <2>2, <3>1, <4>2 DEF BoundInv
      <4> QED
        BY <4>1, <4>2
    <3> QED
      BY <1>a, <2>1, <2>4, <3>1 DEF BoundInv, Bounded
  <2> QED
    BY <1>5, <2>3, <2>4 DEF getAndClearIfReady
<1>6. CASE sendBatch(t)
  <2>1. /\ list' = [list EXCEPT ![t] = {}] /\ messages' = messages
        /\ \A b \in BatchIds : Ready(b)' = Ready(b)
    BY <1>6, <1>a DEF sendBatch, Ready, At, Goto
  <2>2. \A b \in BatchIds : messages'[b] # {} => Bounded(messages'[b], Cardinality(Ready(b)'))
    BY <1>a, <2>1 DEF BoundInv
  <2>3. \A s \in Threads : list'[s] # {} => Bounded(list'[s], Cardinality(Threads))
    BY <1>a, <2>1 DEF BoundInv
  <2>4. ASSUME NEW i \in 1 .. Len(sent') PROVE Bounded(sent'[i], Cardinality(Threads))
    <3>1. CASE sent' = sent
      BY <1>a, <2>4, <3>1 DEF BoundInv
    <3>2. CASE list[t] # {} /\ sent' = Append(sent, list[t])
      <4>1. /\ Len(sent) \in Nat /\ Len(sent') = Len(sent) + 1 /\ sent'[Len(sent) + 1] = list[t]
            /\ \A j \in 1 .. Len(sent) : sent'[j] = sent[j]
        BY <1>a, <3>2, AppendProperties
      <4> QED
        BY <1>a, <2>4, <3>2, <4>1 DEF BoundInv
    <3> QED
      BY <1>6, <3>1, <3>2 DEF sendBatch
  <2> QED
    BY <2>2, <2>3, <2>4 DEF BoundInv, Bounded
<1>9. CASE clearOld(t)
  <2>1. batch[t] \in BatchIds /\ getAndClear(t, batch[t]) /\ sent' = sent
    BY <1>9, <1>a, <1>c DEF clearOld, At, results
  <2>2. \A b \in BatchIds : Ready(b)' = Ready(b)
    BY <1>9, <1>a DEF clearOld, Ready, At, Goto
  <2> QED
    BY <1>a, <2>1, <2>2, ClearBounded
<1> QED
  BY <1>1, <1>4, <1>5, <1>6, <1>9

-----------------------------------------------------------------------------
LEMMA NextInv == Inv /\ [BatchNext]_batchVars => Inv'
BY TypePreserved, CreatedPreserved, ControlPreserved, PlacePreserved,
   FlushPreserved, BoundPreserved DEF Inv

LEMMA InvHolds == BatchSpec => []Inv
<1> QED
  BY InitInv, NextInv, PTL DEF BatchSpec

(* The kind and the place of a message are all that Places(m) has          *)
LEMMA LocatedOnce ==
  ASSUME BatchTypeOK, NEW kind, NEW at, Located(kind, at), NEW m \in 1 .. next
  PROVE  /\ Cardinality(Places(m)) = IF Answered(m) THEN 0 ELSE 1
         /\ Cardinality(Requests(m)) <= 1
         /\ m \in refused => m \notin failed /\ Requests(m) = {}
<1> DEFINE p == <<kind[m], at[m]>>
<1>1. m \in BatchMessages /\ DOMAIN sent = 1 .. Len(sent)
  BY MessagesAre DEF BatchTypeOK
<1>2. /\ kind[m] \in Kinds \ {"new"}
      /\ kind[m] = "thread" => at[m] \in Threads
      /\ kind[m] = "batch" => at[m] \in BatchIds
      /\ kind[m] = "list" => at[m] \in Threads
      /\ \A t \in Threads : msg[t] = m <=> kind[m] = "thread" /\ at[m] = t
      /\ \A b \in BatchIds : m \in messages[b] <=> kind[m] = "batch" /\ at[m] = b
      /\ \A t \in Threads : m \in list[t] <=> kind[m] = "list" /\ at[m] = t
      /\ Recorded(m) <=> kind[m] = "done"
      /\ \A i, j \in 1 .. Len(sent) : m \in sent[i] /\ m \in sent[j] => i = j
      /\ m \in refused => m \notin failed /\ \A i \in 1 .. Len(sent) : m \notin sent[i]
  BY <1>1, MessagesAre DEF Located, BatchTypeOK
<1>3. Answered(m) <=> kind[m] = "done"
  BY <1>1, <1>2 DEF Answered, Requests, Recorded
<1>4. ASSUME kind[m] = "done"
      PROVE  Cardinality(Places(m)) = IF Answered(m) THEN 0 ELSE 1
  <2>1. Places(m) = {}
    BY <1>2, <1>4 DEF Places
  <2> QED
    BY <1>3, <1>4, <2>1, FS_EmptySet
<1>5. ASSUME kind[m] # "done"
      PROVE  Cardinality(Places(m)) = IF Answered(m) THEN 0 ELSE 1
  <2>1. p \in Places(m)
    BY <1>2, <1>5 DEF Places, Kinds
  <2>2. ASSUME NEW q \in Places(m) PROVE q = p
    BY <1>2, <2>2 DEF Places
  <2>3. Places(m) = {p}
    BY <2>1, <2>2
  <2> QED
    BY <1>3, <1>5, <2>3, FS_Singleton
<1>6. Cardinality(Requests(m)) <= 1
  <2>1. CASE Requests(m) = {}
    BY <2>1, FS_EmptySet
  <2>2. CASE Requests(m) # {}
    <3>1. PICK i \in Requests(m) : TRUE
      BY <2>2
    <3>2. ASSUME NEW j \in Requests(m) PROVE j = i
      BY <1>1, <1>2 DEF Requests
    <3>3. Requests(m) = {i}
      BY <3>1, <3>2
    <3> QED
      BY <3>3, FS_Singleton
  <2> QED
    BY <2>1, <2>2
<1>7. m \in refused => m \notin failed /\ Requests(m) = {}
  BY <1>1, <1>2 DEF Requests
<1> QED
  BY <1>4, <1>5, <1>6, <1>7

(* Every variable of the producer keeps its type, and a thread that is to  *)
(* use a batch has one; in particular a Batch object is created for a      *)
(* message or a configuration only.                                        *)
THEOREM BatchesTyped == BatchSpec => []BatchTypeOK
<1>1. Inv => BatchTypeOK
  BY DEF Inv
<1> QED
  BY <1>1, InvHolds, PTL

(* Whatever the number of threads, every message handed to produceBatch    *)
(* waits in exactly one place - with a thread, in a batch the map knows or *)
(* a thread is about to clear, or in the list of one sendBatch - until it  *)
(* is answered, and in none afterwards, and nsqd stores it in at most one  *)
(* request.  Only a message added to a batch already taken out of the map  *)
(* waits where nobody looks.                                               *)
THEOREM EveryMessageOnce == BatchSpec => []ExactlyOnce
<1>1. ASSUME Inv, NEW m \in 1 .. next, NEW b \in BatchIds, m \in messages[b]
      PROVE  Reachable(b) \/ m \in overtaken
  BY <1>1 DEF Inv, FlushInv, Reachable, At
<1>2. Inv => ExactlyOnce
  BY <1>1, LocatedOnce DEF Inv, PlaceInv, ExactlyOnce
<1> QED
  BY <1>2, InvHolds, PTL

(* When no call is under way a flush finds every message that waits, but   *)
(* for those added to a batch already taken out of the map.                *)
THEOREM NothingLeftBehind == BatchSpec => []FlushFindsAll
<1>1. Inv => FlushFindsAll
  BY DEF Inv, FlushInv, FlushFindsAll, At
<1> QED
  BY <1>1, InvHolds, PTL

(* However many threads produce at the same time, a request has at most    *)
(* one message per thread more than maxMessages - 1, and exceeds maxBytes  *)
(* by less than one largest message per thread.                            *)
THEOREM RequestsBounded == BatchSpec => []BatchBounded
<1>1. Inv => BatchBounded
  <2> SUFFICES ASSUME Inv, NEW i \in DOMAIN sent
               PROVE  /\ Cardinality(sent[i]) <= maxMessages + Cardinality(Threads) - 1
                      /\ totalBytes(sent[i]) < maxBytes + Cardinality(Threads) * MaxSize
    BY DEF BatchBounded
  <2>1. sent[i] \in SUBSET BatchMessages /\ i \in 1 .. Len(sent)
    BY DEF Inv, BatchTypeOK
  <2>2. Bounded(sent[i], Cardinality(Threads))
    BY <2>1 DEF Inv, BoundInv
  <2>3. Cardinality(Threads) \in Nat /\ Cardinality(sent[i]) \in Nat /\ maxMessages \in Nat
    BY <2>1, ReadyNumbers, BoundedNumbers
  <2> QED
    BY <2>2, <2>3 DEF Bounded
<1> QED
  BY <1>1, InvHolds, PTL

=============================================================================
