--------------------------- MODULE MessagingProofs ---------------------------
(***************************************************************************)
(* Proofs about the receivers of messages: Consumers, for any number of    *)
(* groups, listeners, messages, registrations, failures and attempts, and  *)
(* CacheSync, for any number of hosts, changes and faults.                 *)
(***************************************************************************)
EXTENDS Consumers, CacheSync, FiniteSetTheorems, SequenceTheorems, TLAPS

(***************************************************************************)
(* Consumers.  The deliveries a consumer still has to answer are numbered: *)
(* 0 is the callback under way, the others wait in its executor.  Each has *)
(* the attempt it was sent with, no attempt is pending twice in a group    *)
(* (Distinct), and so an attempt is requeued once at most: the attempts    *)
(* that were requeued (Resends) are as many as nsqd has counted, and each  *)
(* of them was within some consumer's retry.                               *)
(***************************************************************************)
Pend(k) == {i \in 0 .. Len(executors[k]) : i = 0 => running[k] # NULL}
Msg(k, i) == IF i = 0 THEN running[k].msg ELSE executors[k][i].msg
Att(k, i) == IF i = 0 THEN running[k].attempts ELSE executors[k][i].attempts

Types ==
  /\ listeners \subseteq Listeners
  /\ consumers \in Seq([group : Groups, retry : Retries, listener : Listeners]) /\ Len(consumers) <= MaxConsumers
  /\ executors \in [Ids -> Seq([msg : Messages, attempts : Nat])]
  /\ running \in [Ids -> Callbacks \cup {NULL}]
  /\ copy \in [Groups -> [Messages -> {"none", "queued", "flight", "done"}]]
  /\ attempts \in [Groups -> [Messages -> 0 .. MaxAttempts]]
  /\ resent \in [Groups -> [Messages -> Nat]]
  /\ holder \in [Groups -> [Messages -> Ids \cup {NULL}]]
  /\ failures \in 0 .. MaxFailures
  /\ since \in [Messages -> SUBSET (Groups \X Listeners)]
  /\ ok \in [Groups -> [Messages -> SUBSET Listeners]]

(* What is in flight is held by a consumer of the channel                  *)
Holders == \A g \in Groups, m \in Messages :
  /\ holder[g][m] # NULL =>
       holder[g][m] \in DOMAIN consumers /\ Group(holder[g][m]) = g /\ copy[g][m] = "flight"
  /\ copy[g][m] = "flight" => holder[g][m] # NULL

(* A delivery that waits was sent to a consumer, for a published message   *)
Sent == \A k \in Ids : \A i \in Pend(k) :
  /\ k \in DOMAIN consumers
  /\ Att(k, i) \in 1 .. attempts[Group(k)][Msg(k, i)]
  /\ since[Msg(k, i)] # {}

Distinct == \A k, l \in Ids : \A i \in Pend(k), j \in Pend(l) :
  Group(k) = Group(l) /\ Msg(k, i) = Msg(l, j) /\ Att(k, i) = Att(l, j) => k = l /\ i = j

(* Everyone who was subscribed when m was published                        *)
Audience(m) == {l \in Listeners : \E g \in Groups : <<g, l>> \in since[m]}

(* Listeners stay, and a message has copies only in the groups that had    *)
(* members when it was published                                           *)
Published ==
  /\ \A k \in DOMAIN consumers : consumers[k].listener \in listeners
  /\ \A m \in Messages :
       /\ Audience(m) \subseteq listeners
       /\ \A g \in Groups : copy[g][m] # "none" => Subscribed(g, m) # {}

(* A callback still has every listener to run that has not accepted        *)
Covered == \A k \in Ids : running[k] # NULL =>
  Audience(running[k].msg) \subseteq running[k].todo \cup ok[Group(k)][running[k].msg]

(* Attempt n is within the retry of a consumer of the group                *)
Allowed(g, n) == \E k \in DOMAIN consumers : Group(k) = g /\ (Retry(k) <= 0 \/ n <= Retry(k))

(* S has the attempts that were requeued                                   *)
Requeued(A, g, m) ==
  /\ A \subseteq 1 .. attempts[g][m]
  /\ Cardinality(A) = resent[g][m]
  /\ \A n \in A : Allowed(g, n)
  /\ \A k \in Ids : \A i \in Pend(k) :
       Group(k) = g /\ Msg(k, i) = m => Att(k, i) \notin A

Resends(S) == \A g \in Groups, m \in Messages : Requeued(S[g][m], g, m)

Core == Types /\ Holders /\ Sent /\ Distinct /\ Published /\ Covered
Inv == Core /\ NothingLost /\ \E S : Resends(S)

-----------------------------------------------------------------------------
(* The steps of a callback, by what they do to nsqd                        *)
Fin(k, m) ==
  /\ holder[Group(k)][m] = k
  /\ holder' = [holder EXCEPT ![Group(k)][m] = NULL]
  /\ copy' = [copy EXCEPT ![Group(k)][m] = "done"]
  /\ UNCHANGED <<attempts, resent>>

Req(k, m) ==
  /\ holder[Group(k)][m] = k
  /\ holder' = [holder EXCEPT ![Group(k)][m] = NULL]
  /\ copy' = [copy EXCEPT ![Group(k)][m] = "queued"]
  /\ resent' = [resent EXCEPT ![Group(k)][m] = @ + 1]
  /\ UNCHANGED attempts

Same == UNCHANGED <<copy, attempts, resent, holder>>

Starts(k) ==
  /\ running[k] = NULL /\ executors[k] # <<>>
  /\ executors' = [executors EXCEPT ![k] = Tail(executors[k])]
  /\ running' = [running EXCEPT ![k] =
                  [msg |-> Head(executors[k]).msg, attempts |-> Head(executors[k]).attempts,
                   found |-> listeners, todo |-> listeners]]
  /\ Same
  /\ UNCHANGED <<listeners, consumers, failures, since, ok, missed>>

Skips(k) ==
  /\ running[k] = NULL /\ executors[k] # <<>>
  /\ executors' = [executors EXCEPT ![k] = Tail(executors[k])]
  /\ \/ /\ Fin(k, Head(executors[k]).msg)
        /\ missed' = missed \cup {<<Group(k), Head(executors[k]).msg>>}
     \/ Same /\ UNCHANGED missed
  /\ UNCHANGED <<listeners, consumers, running, failures, since, ok>>

Stops(k) ==
  /\ running[k] # NULL
  /\ running' = [running EXCEPT ![k] = NULL]
  /\ \/ Same
     \/ Fin(k, running[k].msg) /\ (running[k].todo = {} \/ enough(k, running[k].attempts))
     \/ Req(k, running[k].msg) /\ ~enough(k, running[k].attempts)
  /\ failures' = failures \/ (failures < MaxFailures /\ failures' = failures + 1)
  /\ UNCHANGED <<listeners, consumers, executors, since, ok, missed>>

Accepts(k, l) ==
  /\ running[k] # NULL /\ l \in running[k].todo
  /\ running' = [running EXCEPT ![k].todo = @ \ {l}]
  /\ ok' = [ok EXCEPT ![Group(k)][running[k].msg] = @ \cup {l}]
  /\ Same
  /\ UNCHANGED <<listeners, consumers, executors, failures, since, missed>>

LEMMA MessageSteps ==
  ASSUME NEW k \in Ids, message(k)
  PROVE  Starts(k) \/ Skips(k)
BY DEF message, finished, Held, Release, Starts, Skips, Fin, Same, nsqd

LEMMA ExcuteSteps ==
  ASSUME NEW k \in Ids, excute(k)
  PROVE  Stops(k) \/ \E l \in running[k].todo : Accepts(k, l)
BY DEF excute, retryOrDrop, accepted, finished, requeue, Held, Release, Return, Stops, Accepts,
       Fin, Req, Same, nsqd

-----------------------------------------------------------------------------
(* The deliveries that wait stay the same, but those of k move up by d     *)
Moved(k, d) == \A l \in Ids : \A i \in Pend(l)' :
  LET e == IF l = k THEN d ELSE 0 IN
    i + e \in Pend(l) /\ Msg(l, i)' = Msg(l, i + e) /\ Att(l, i)' = Att(l, i + e)

Extends ==
  /\ \A k \in DOMAIN consumers : k \in DOMAIN consumers' /\ consumers'[k] = consumers[k]
  /\ \A m \in Messages : since[m] # {} => since'[m] = since[m]

LEMMA ItemTyped ==
  ASSUME Types, NEW k \in Ids, NEW i \in Pend(k)
  PROVE  Msg(k, i) \in Messages /\ Att(k, i) \in Nat
<1>1. CASE i = 0
  BY <1>1 DEF Types, Pend, Msg, Att, Callbacks
<1>2. CASE i # 0
  <2>1. executors[k] \in Seq([msg : Messages, attempts : Nat])
    BY DEF Types
  <2>2. i \in 1 .. Len(executors[k])
    BY <1>2, <2>1, LenProperties DEF Pend
  <2>3. executors[k][i] \in [msg : Messages, attempts : Nat]
    BY <2>1, <2>2, ElementOfSeq
  <2> QED
    BY <1>2, <2>3 DEF Msg, Att
<1> QED
  BY <1>1, <1>2

LEMMA ConsumerTyped ==
  ASSUME Types
  PROVE  /\ DOMAIN consumers = 1 .. Len(consumers) /\ Len(consumers) \in Nat
         /\ DOMAIN consumers \subseteq Ids
         /\ \A k \in DOMAIN consumers :
              Group(k) \in Groups /\ Retry(k) \in Retries /\ consumers[k].listener \in Listeners
<1>1. consumers \in Seq([group : Groups, retry : Retries, listener : Listeners]) /\ Len(consumers) <= MaxConsumers
  BY DEF Types
<1>2. DOMAIN consumers = 1 .. Len(consumers) /\ Len(consumers) \in Nat
  BY <1>1, LenProperties
<1>3. DOMAIN consumers \subseteq Ids
  BY <1>1, <1>2, ConsumersAssumption DEF Ids
<1>4. \A k \in DOMAIN consumers : consumers[k] \in [group : Groups, retry : Retries, listener : Listeners]
  BY <1>1, <1>2, ElementOfSeq
<1> QED
  BY <1>2, <1>3, <1>4 DEF Group, Retry

LEMMA StillMoved ==
  ASSUME Types, NEW k, UNCHANGED <<executors, running>>
  PROVE  Moved(k, 0)
BY DEF Moved, Pend, Msg, Att, Types

LEMMA TailItems ==
  ASSUME Types, NEW k \in Ids, executors[k] # <<>>,
         executors' = [executors EXCEPT ![k] = Tail(executors[k])]
  PROVE  /\ executors[k] \in Seq([msg : Messages, attempts : Nat])
         /\ Len(executors[k]) \in Nat \ {0} /\ Len(executors'[k]) = Len(executors[k]) - 1
         /\ Head(executors[k]) = executors[k][1]
         /\ \A i \in 1 .. Len(executors'[k]) : executors'[k][i] = executors[k][i + 1]
<1>1. executors[k] \in Seq([msg : Messages, attempts : Nat]) /\ executors'[k] = Tail(executors[k])
  BY DEF Types
<1>2. Len(executors[k]) \in Nat \ {0} /\ Head(executors[k]) = executors[k][1]
  BY <1>1, EmptySeq
<1>3. /\ Len(executors'[k]) = Len(executors[k]) - 1
      /\ \A i \in 1 .. Len(executors'[k]) : executors'[k][i] = executors[k][i + 1]
  BY <1>1, HeadTailProperties
<1> QED
  BY <1>1, <1>2, <1>3

LEMMA StartsMoved ==
  ASSUME Types, NEW k \in Ids, Starts(k)
  PROVE  Moved(k, 1)
<1>1. /\ Len(executors[k]) \in Nat \ {0} /\ Len(executors'[k]) = Len(executors[k]) - 1
      /\ Head(executors[k]) = executors[k][1]
      /\ \A i \in 1 .. Len(executors'[k]) : executors'[k][i] = executors[k][i + 1]
  BY TailItems DEF Starts
<1>2. \A l \in Ids \ {k} : executors'[l] = executors[l] /\ running'[l] = running[l]
  BY DEF Starts, Types
<1>3. running'[k].msg = executors[k][1].msg /\ running'[k].attempts = executors[k][1].attempts
  BY <1>1 DEF Starts, Types
<1>4. ASSUME NEW i \in Pend(k)'
      PROVE  i + 1 \in Pend(k) /\ Msg(k, i)' = Msg(k, i + 1) /\ Att(k, i)' = Att(k, i + 1)
  BY <1>1, <1>3 DEF Pend, Msg, Att
<1>5. ASSUME NEW l \in Ids \ {k}, NEW i \in Pend(l)'
      PROVE  i + 0 \in Pend(l) /\ Msg(l, i)' = Msg(l, i + 0) /\ Att(l, i)' = Att(l, i + 0)
  <2>1. i \in Pend(l) /\ Msg(l, i)' = Msg(l, i) /\ Att(l, i)' = Att(l, i)
    BY <1>2 DEF Pend, Msg, Att
  <2>2. i + 0 = i
    BY DEF Pend
  <2> QED
    BY <2>1, <2>2
<1> QED
  BY <1>4, <1>5 DEF Moved

LEMMA SkipsMoved ==
  ASSUME Types, NEW k \in Ids, Skips(k)
  PROVE  Moved(k, 1)
<1>1. /\ Len(executors[k]) \in Nat \ {0} /\ Len(executors'[k]) = Len(executors[k]) - 1
      /\ \A i \in 1 .. Len(executors'[k]) : executors'[k][i] = executors[k][i + 1]
  BY TailItems DEF Skips
<1>2. /\ \A l \in Ids \ {k} : executors'[l] = executors[l] /\ running'[l] = running[l]
      /\ running'[k] = NULL
  BY DEF Skips, Types
<1>4. ASSUME NEW i \in Pend(k)'
      PROVE  i + 1 \in Pend(k) /\ Msg(k, i)' = Msg(k, i + 1) /\ Att(k, i)' = Att(k, i + 1)
  BY <1>1, <1>2 DEF Pend, Msg, Att
<1>5. ASSUME NEW l \in Ids \ {k}, NEW i \in Pend(l)'
      PROVE  i + 0 \in Pend(l) /\ Msg(l, i)' = Msg(l, i + 0) /\ Att(l, i)' = Att(l, i + 0)
  <2>1. i \in Pend(l) /\ Msg(l, i)' = Msg(l, i) /\ Att(l, i)' = Att(l, i)
    BY <1>2 DEF Pend, Msg, Att
  <2>2. i + 0 = i
    BY DEF Pend
  <2> QED
    BY <2>1, <2>2
<1> QED
  BY <1>4, <1>5 DEF Moved

LEMMA StopsMoved ==
  ASSUME Types, NEW k \in Ids, Stops(k)
  PROVE  Moved(k, 0)
<1>1. executors' = executors /\ running'[k] = NULL
      /\ \A l \in Ids \ {k} : running'[l] = running[l]
  BY DEF Stops, Types
<1>2. ASSUME NEW l \in Ids, NEW i \in Pend(l)'
      PROVE  /\ i + 0 = i /\ i \in Pend(l)
             /\ Msg(l, i)' = Msg(l, i) /\ Att(l, i)' = Att(l, i)
  BY <1>1 DEF Pend, Msg, Att, Types
<1> QED
  BY <1>2 DEF Moved

LEMMA AcceptsMoved ==
  ASSUME Types, NEW k \in Ids, NEW l, Accepts(k, l)
  PROVE  Moved(k, 0)
<1>1. /\ executors' = executors /\ running[k] # NULL
      /\ running'[k].msg = running[k].msg /\ running'[k].attempts = running[k].attempts
      /\ \A j \in Ids \ {k} : running'[j] = running[j]
  BY DEF Accepts, Types, Callbacks
<1>2. ASSUME NEW j \in Ids, NEW i \in Pend(j)'
      PROVE  i \in Pend(j) /\ Msg(j, i)' = Msg(j, i) /\ Att(j, i)' = Att(j, i)
  <2>1. CASE j = k
    BY <1>1, <2>1 DEF Pend, Msg, Att
  <2>2. CASE j # k
    BY <1>1, <2>2 DEF Pend, Msg, Att
  <2> QED
    BY <2>1, <2>2
<1>3. \A j \in Ids : \A i \in Pend(j)' : i + 0 = i
  BY DEF Pend
<1> QED
  BY <1>2, <1>3 DEF Moved

LEMMA SentMoves ==
  ASSUME Core, NEW k \in Ids, NEW d \in {0, 1}, Moved(k, d), Extends, UNCHANGED attempts
  PROVE  Sent' /\ Distinct'
<1>1. ASSUME NEW l \in Ids, NEW i \in Pend(l)'
      PROVE  LET e == IF l = k THEN d ELSE 0 IN
               /\ i + e \in Pend(l) /\ Msg(l, i)' = Msg(l, i + e) /\ Att(l, i)' = Att(l, i + e)
               /\ l \in DOMAIN consumers' /\ Group(l)' = Group(l)
               /\ Att(l, i + e) \in 1 .. attempts[Group(l)][Msg(l, i + e)]
               /\ Msg(l, i + e) \in Messages /\ since'[Msg(l, i + e)] # {}
  <2> DEFINE e == IF l = k THEN d ELSE 0
  <2>1. i + e \in Pend(l) /\ Msg(l, i)' = Msg(l, i + e) /\ Att(l, i)' = Att(l, i + e)
    BY DEF Moved
  <2> HIDE DEF e
  <2>2. /\ l \in DOMAIN consumers /\ since[Msg(l, i + e)] # {}
        /\ Att(l, i + e) \in 1 .. attempts[Group(l)][Msg(l, i + e)]
    BY <2>1 DEF Core, Sent
  <2>3. Msg(l, i + e) \in Messages
    BY <2>1, ItemTyped DEF Core
  <2>4. Group(l)' = Group(l) /\ l \in DOMAIN consumers'
    BY <2>2 DEF Extends, Group
  <2> QED
    BY <2>1, <2>2, <2>3, <2>4 DEF Extends, e
<1>2. Sent'
  BY <1>1 DEF Sent
<1>3. ASSUME NEW l \in Ids, NEW j \in Ids, NEW a \in Pend(l)', NEW b \in Pend(j)',
             Group(l)' = Group(j)', Msg(l, a)' = Msg(j, b)', Att(l, a)' = Att(j, b)'
      PROVE  l = j /\ a = b
  <2> DEFINE e == IF l = k THEN d ELSE 0
             f == IF j = k THEN d ELSE 0
  <2>1. /\ a + e \in Pend(l) /\ b + f \in Pend(j) /\ Group(l) = Group(j)
        /\ Msg(l, a + e) = Msg(j, b + f) /\ Att(l, a + e) = Att(j, b + f)
    BY <1>1, <1>3
  <2>2. l = j /\ a + e = b + f
    BY <2>1 DEF Core, Distinct
  <2>3. a \in Int /\ b \in Int
    BY DEF Pend
  <2> QED
    BY <2>2, <2>3
<1> QED
  BY <1>2, <1>3 DEF Distinct

(* The one to come first in an executor, and the one under way             *)
LEMMA FirstItem ==
  ASSUME Core, NEW k \in Ids
  PROVE  /\ running[k] = NULL /\ executors[k] # <<>> =>
              /\ 1 \in Pend(k) /\ Head(executors[k]).msg = Msg(k, 1)
              /\ Head(executors[k]).attempts = Att(k, 1)
              /\ Head(executors[k]) \in [msg : Messages, attempts : Nat]
              /\ k \in DOMAIN consumers /\ Group(k) \in Groups
         /\ running[k] # NULL =>
              /\ 0 \in Pend(k) /\ running[k].msg = Msg(k, 0)
              /\ running[k].attempts = Att(k, 0) /\ running[k] \in Callbacks
              /\ k \in DOMAIN consumers /\ Group(k) \in Groups
<1>1. executors[k] \in Seq([msg : Messages, attempts : Nat]) /\ Len(executors[k]) \in Nat
  BY LenProperties DEF Core, Types
<1>2. ASSUME executors[k] # <<>>
      PROVE  /\ 1 \in Pend(k) /\ Head(executors[k]) = executors[k][1]
             /\ Head(executors[k]) \in [msg : Messages, attempts : Nat]
  <2>1. Len(executors[k]) >= 1 /\ Head(executors[k]) = executors[k][1]
    BY <1>1, <1>2, EmptySeq
  <2>2. Head(executors[k]) \in [msg : Messages, attempts : Nat]
    BY <1>1, <1>2, HeadTailProperties
  <2>3. 1 \in Pend(k)
    BY <1>1, <2>1 DEF Pend
  <2> QED
    BY <2>1, <2>2, <2>3
<1>3. running[k] # NULL => 0 \in Pend(k) /\ running[k] \in Callbacks
  BY <1>1 DEF Pend, Core, Types
<1>4. \A i \in Pend(k) : k \in DOMAIN consumers /\ Group(k) \in Groups
  BY ConsumerTyped DEF Core, Sent
<1> QED
  BY <1>2, <1>3, <1>4 DEF Msg, Att

(* register appends a consumer                                             *)
LEMMA Registers ==
  ASSUME Types, NEW g \in Groups, NEW l \in Listeners, NEW r \in Retries, register(g, l, r)
  PROVE  /\ Extends /\ Types'
         /\ UNCHANGED <<executors, running, copy, attempts, resent, holder, since, ok, missed>>
         /\ listeners \subseteq listeners'
         /\ \A k \in DOMAIN consumers' :
              k \in DOMAIN consumers \/ consumers'[k].listener \in listeners'
<1>1. /\ consumers' = Append(consumers, [group |-> g, retry |-> r, listener |-> l])
      /\ Len(consumers) < MaxConsumers /\ listeners' = listeners \cup {l}
      /\ UNCHANGED <<executors, running, copy, attempts, resent, holder, failures,
                     since, ok, missed>>
  BY DEF register, nsqd, history
<1>2. /\ consumers' \in Seq([group : Groups, retry : Retries, listener : Listeners])
      /\ Len(consumers') = Len(consumers) + 1 /\ Len(consumers) \in Nat
      /\ \A i \in 1 .. Len(consumers) : consumers'[i] = consumers[i]
      /\ consumers'[Len(consumers) + 1].listener = l
  BY <1>1, AppendProperties, LenProperties DEF Types
<1>3. DOMAIN consumers = 1 .. Len(consumers) /\ DOMAIN consumers' = 1 .. Len(consumers')
  BY <1>2, LenProperties DEF Types
<1>4. Extends
  BY <1>1, <1>2, <1>3 DEF Extends
<1>5. Len(consumers') <= MaxConsumers
  BY <1>1, <1>2, ConsumersAssumption
<1>6. Types'
  BY <1>1, <1>2, <1>5 DEF Types
<1>7. \A k \in DOMAIN consumers' :
        k \in DOMAIN consumers \/ consumers'[k].listener \in listeners'
  BY <1>1, <1>2, <1>3
<1> QED
  BY <1>1, <1>4, <1>6, <1>7

(* FIN and REQ change one copy                                             *)
LEMMA AnswerTyped ==
  ASSUME Types, NEW k \in Ids, NEW m \in Messages, Group(k) \in Groups,
         Fin(k, m) \/ Req(k, m) \/ Same
  PROVE  /\ copy' \in [Groups -> [Messages -> {"none", "queued", "flight", "done"}]]
         /\ holder' \in [Groups -> [Messages -> Ids \cup {NULL}]]
         /\ resent' \in [Groups -> [Messages -> Nat]] /\ attempts' = attempts
         /\ \A g \in Groups, x \in Messages : <<g, x>> # <<Group(k), m>> =>
              copy'[g][x] = copy[g][x] /\ holder'[g][x] = holder[g][x]
              /\ resent'[g][x] = resent[g][x]
<1>1. CASE Same
  BY <1>1 DEF Same, Types
<1>2. CASE Fin(k, m)
  BY <1>2 DEF Fin, Types
<1>3. CASE Req(k, m)
  BY <1>3 DEF Req, Types
<1> QED
  BY <1>1, <1>2, <1>3

-----------------------------------------------------------------------------
(* What an answer keeps: every copy in flight has its holder               *)
LEMMA AnswerKeeps ==
  ASSUME Core, NEW k \in Ids, NEW m \in Messages, Group(k) \in Groups,
         Fin(k, m) \/ Req(k, m) \/ Same, UNCHANGED <<consumers, since, listeners>>
  PROVE  Holders' /\ Published'
<1>1. /\ copy' \in [Groups -> [Messages -> {"none", "queued", "flight", "done"}]]
      /\ holder' \in [Groups -> [Messages -> Ids \cup {NULL}]]
      /\ \A g \in Groups, x \in Messages : <<g, x>> # <<Group(k), m>> =>
           copy'[g][x] = copy[g][x] /\ holder'[g][x] = holder[g][x]
  BY AnswerTyped DEF Core
<1>2. \A j : Group(j)' = Group(j)
  BY DEF Group
<1>3. CASE Same
  BY <1>2, <1>3 DEF Same, Core, Holders, Published, Audience, Subscribed
<1>4. CASE Fin(k, m) \/ Req(k, m)
  <2>1. /\ copy'[Group(k)][m] \in {"done", "queued"} /\ holder'[Group(k)][m] = NULL
        /\ copy[Group(k)][m] = "flight" \/ holder[Group(k)][m] = NULL
    BY <1>4 DEF Fin, Req, Core, Types, Holders
  <2>2. copy[Group(k)][m] = "flight"
    <3>1. holder[Group(k)][m] = k /\ k # NULL
      BY <1>4, ConsumersAssumption DEF Fin, Req
    <3> QED
      BY <2>1, <3>1
  <2>3. Holders'
    <3>1. ASSUME NEW g \in Groups, NEW x \in Messages
          PROVE  /\ holder'[g][x] # NULL =>
                      /\ holder'[g][x] \in DOMAIN consumers /\ Group(holder'[g][x]) = g
                      /\ copy'[g][x] = "flight"
                 /\ copy'[g][x] = "flight" => holder'[g][x] # NULL
      <4>1. CASE g = Group(k) /\ x = m
        BY <2>1, <4>1
      <4>2. CASE <<g, x>> # <<Group(k), m>>
        BY <1>1, <4>2 DEF Core, Holders
      <4> QED
        BY <4>1, <4>2
    <3> QED
      BY <1>2, <3>1 DEF Holders, Group
  <2>4. Published'
    <3>1. ASSUME NEW g \in Groups, NEW x \in Messages, copy'[g][x] # "none"
          PROVE  Subscribed(g, x) # {}
      <4>1. copy[g][x] # "none"
        BY <1>1, <2>2, <3>1
      <4> QED
        BY <4>1 DEF Core, Published
    <3> QED
      BY <3>1 DEF Core, Published, Audience, Subscribed
  <2> QED
    BY <2>3, <2>4
<1> QED
  BY <1>3, <1>4

LEMMA CoreRegister ==
  ASSUME Core, NEW g \in Groups, NEW l \in Listeners, NEW r \in Retries, register(g, l, r)
  PROVE  Core'
<1>1. /\ Extends /\ Types'
      /\ UNCHANGED <<executors, running, copy, attempts, resent, holder, since, ok, missed>>
      /\ listeners \subseteq listeners'
      /\ \A k \in DOMAIN consumers' :
           k \in DOMAIN consumers \/ consumers'[k].listener \in listeners'
  BY Registers DEF Core
<1>2. \A k \in DOMAIN consumers : k \in DOMAIN consumers' /\ Group(k)' = Group(k)
  BY <1>1 DEF Extends, Group
<1>3. ASSUME NEW k \in Ids PROVE Sent' /\ Distinct'
  BY <1>1, StillMoved, SentMoves DEF Core
<1>4. Sent' /\ Distinct'
  BY <1>3 DEF Sent, Distinct
<1>5. Holders'
  BY <1>1, <1>2 DEF Core, Holders, Group
<1>6. Published'
  <2>1. \A k \in DOMAIN consumers' : consumers'[k].listener \in listeners'
    BY <1>1 DEF Core, Published, Extends
  <2> QED
    BY <1>1, <2>1 DEF Core, Published, Audience, Subscribed
<1>7. Covered'
  <2>1. \A k \in Ids : running[k] # NULL => Group(k)' = Group(k)
    BY <1>2, FirstItem DEF Core
  <2> QED
    BY <1>1, <2>1 DEF Core, Covered, Audience
<1> QED
  BY <1>1, <1>4, <1>5, <1>6, <1>7 DEF Core

LEMMA CoreStarts ==
  ASSUME Core, NEW k \in Ids, Starts(k)
  PROVE  Core'
<1>1. /\ Head(executors[k]) \in [msg : Messages, attempts : Nat]
      /\ k \in DOMAIN consumers /\ Group(k) \in Groups
  BY FirstItem DEF Starts
<1>2. Extends /\ Same /\ UNCHANGED <<consumers, since, listeners, ok, failures, attempts>>
  BY DEF Starts, Extends, Same
<1>3. Holders' /\ Published'
  BY <1>1, <1>2, AnswerKeeps
<1>4. Sent' /\ Distinct'
  BY <1>2, StartsMoved, SentMoves DEF Core
<1>5. Types'
  <2>1. executors' \in [Ids -> Seq([msg : Messages, attempts : Nat])]
    <3>1. Tail(executors[k]) \in Seq([msg : Messages, attempts : Nat])
      BY HeadTailProperties DEF Starts, Core, Types
    <3> QED
      BY <3>1 DEF Starts, Core, Types
  <2>2. running' \in [Ids -> Callbacks \cup {NULL}]
    BY <1>1 DEF Starts, Core, Types, Callbacks
  <2> QED
    BY <1>2, <2>1, <2>2 DEF Core, Types, Same
<1>6. Covered'
  <2>1. Audience(running'[k].msg) \subseteq running'[k].todo
    BY <1>1 DEF Starts, Core, Types, Published
  <2>2. \A l \in Ids \ {k} : running'[l] = running[l]
    BY DEF Starts, Core, Types
  <2>3. \A l : Group(l)' = Group(l)
    BY <1>2 DEF Group
  <2> QED
    BY <1>2, <2>1, <2>2, <2>3 DEF Core, Covered, Audience
<1> QED
  BY <1>3, <1>4, <1>5, <1>6 DEF Core

LEMMA CoreSkips ==
  ASSUME Core, NEW k \in Ids, Skips(k)
  PROVE  Core'
<1> DEFINE m == Head(executors[k]).msg
<1>1. m \in Messages /\ k \in DOMAIN consumers /\ Group(k) \in Groups
  BY FirstItem DEF Skips
<1>2. /\ Extends /\ (Fin(k, m) \/ Same)
      /\ UNCHANGED <<consumers, running, since, listeners, ok, failures>>
  BY DEF Skips, Extends
<1>3. Holders' /\ Published'
  BY <1>1, <1>2, AnswerKeeps
<1>4. UNCHANGED attempts
  BY <1>2 DEF Fin, Same
<1>5. Sent' /\ Distinct'
  BY <1>2, <1>4, SkipsMoved, SentMoves DEF Core
<1>6. Types'
  <2>1. executors' \in [Ids -> Seq([msg : Messages, attempts : Nat])]
    <3>1. Tail(executors[k]) \in Seq([msg : Messages, attempts : Nat])
      BY HeadTailProperties DEF Skips, Core, Types
    <3> QED
      BY <3>1 DEF Skips, Core, Types
  <2>2. /\ copy' \in [Groups -> [Messages -> {"none", "queued", "flight", "done"}]]
        /\ holder' \in [Groups -> [Messages -> Ids \cup {NULL}]]
        /\ resent' \in [Groups -> [Messages -> Nat]] /\ attempts' = attempts
    BY <1>1, <1>2, AnswerTyped DEF Core
  <2> QED
    BY <1>2, <2>1, <2>2 DEF Core, Types
<1>7. Covered'
  BY <1>2 DEF Core, Covered, Group, Audience
<1> QED
  BY <1>3, <1>5, <1>6, <1>7 DEF Core

LEMMA CoreStops ==
  ASSUME Core, NEW k \in Ids, Stops(k)
  PROVE  Core'
<1> DEFINE m == running[k].msg
<1>1. m \in Messages /\ k \in DOMAIN consumers /\ Group(k) \in Groups
  BY FirstItem DEF Stops, Callbacks
<1>2. /\ Extends /\ (Fin(k, m) \/ Req(k, m) \/ Same)
      /\ UNCHANGED <<consumers, executors, since, listeners, ok>>
  BY DEF Stops, Extends
<1>3. Holders' /\ Published'
  BY <1>1, <1>2, AnswerKeeps
<1>4. /\ copy' \in [Groups -> [Messages -> {"none", "queued", "flight", "done"}]]
      /\ holder' \in [Groups -> [Messages -> Ids \cup {NULL}]]
      /\ resent' \in [Groups -> [Messages -> Nat]] /\ attempts' = attempts
  BY <1>1, <1>2, AnswerTyped DEF Core
<1>5. Sent' /\ Distinct'
  BY <1>2, <1>4, StopsMoved, SentMoves DEF Core
<1>6. running' \in [Ids -> Callbacks \cup {NULL}] /\ failures' \in 0 .. MaxFailures
  BY ConsumersAssumption DEF Stops, Core, Types
<1>7. Types'
  BY <1>2, <1>4, <1>6 DEF Core, Types
<1>8. Covered'
  <2>1. \A l \in Ids : running'[l] # NULL => running'[l] = running[l]
    BY DEF Stops, Core, Types
  <2> QED
    BY <1>2, <2>1 DEF Core, Covered, Group, Audience
<1> QED
  BY <1>3, <1>5, <1>7, <1>8 DEF Core

LEMMA CoreAccepts ==
  ASSUME Core, NEW k \in Ids, NEW l, Accepts(k, l)
  PROVE  Core'
<1> DEFINE m == running[k].msg
<1>1. /\ m \in Messages /\ k \in DOMAIN consumers /\ Group(k) \in Groups
      /\ running[k] \in Callbacks /\ l \in Listeners
  BY FirstItem DEF Accepts, Callbacks
<1>2. /\ Extends /\ Same
      /\ UNCHANGED <<consumers, executors, since, listeners, failures, attempts>>
  BY DEF Accepts, Extends, Same
<1>3. Holders' /\ Published'
  BY <1>1, <1>2, AnswerKeeps
<1>5. Sent' /\ Distinct'
  BY <1>2, AcceptsMoved, SentMoves DEF Core
<1>6. /\ running' \in [Ids -> Callbacks \cup {NULL}]
      /\ running'[k].msg = m /\ running'[k].todo = running[k].todo \ {l}
      /\ \A j \in Ids \ {k} : running'[j] = running[j]
  BY <1>1 DEF Accepts, Core, Types, Callbacks
<1>7. /\ ok' \in [Groups -> [Messages -> SUBSET Listeners]]
      /\ ok'[Group(k)][m] = ok[Group(k)][m] \cup {l}
      /\ \A g \in Groups, x \in Messages : ok[g][x] \subseteq ok'[g][x]
  BY <1>1 DEF Accepts, Core, Types
<1>8. Types'
  BY <1>2, <1>6, <1>7 DEF Core, Types, Same
<1>9. Covered'
  <2>1. ASSUME NEW j \in Ids \ {k}, running'[j] # NULL
        PROVE  Audience(running'[j].msg) \subseteq running'[j].todo \cup ok'[Group(j)][running'[j].msg]
    <3>1. /\ Audience(running[j].msg) \subseteq running[j].todo \cup ok[Group(j)][running[j].msg]
          /\ running[j].msg \in Messages /\ Group(j) \in Groups
      BY <1>6, <2>1, FirstItem DEF Core, Covered, Callbacks
    <3> QED
      BY <1>6, <1>7, <3>1
  <2>2. Audience(running'[k].msg) \subseteq running'[k].todo \cup ok'[Group(k)][running'[k].msg]
    BY <1>6, <1>7 DEF Accepts, Core, Covered
  <2> QED
    BY <1>2, <2>1, <2>2 DEF Covered, Group, Audience
<1> QED
  BY <1>3, <1>5, <1>8, <1>9 DEF Core

LEMMA CorePublish ==
  ASSUME Core, NEW m \in Messages, publish(m)
  PROVE  Core'
<1>1. /\ since[m] = {} /\ since' = [since EXCEPT ![m] = Members]
      /\ UNCHANGED <<listeners, consumers, executors, running, attempts, resent, holder,
                     failures, ok>>
  BY DEF publish
<1>2. \A g \in Groups : copy[g][m] = "none" /\ holder[g][m] = NULL
  BY <1>1 DEF Core, Published, Subscribed, Holders, Types
<1>3. /\ copy' \in [Groups -> [Messages -> {"none", "queued", "flight", "done"}]]
      /\ \A g \in Groups, x \in Messages : x # m => copy'[g][x] = copy[g][x]
      /\ \A g \in Groups : copy'[g][m] = "none" \/ (copy'[g][m] = "queued" /\ g \in Channels)
  <2>1. copy \in [Groups -> [Messages -> {"none", "queued", "flight", "done"}]]
    BY DEF Core, Types
  <2>2. copy' = [g \in Groups |-> IF g \in Channels THEN [copy[g] EXCEPT ![m] = "queued"]
                                  ELSE copy[g]]
    BY DEF publish
  <2>3. ASSUME NEW g \in Groups
        PROVE  /\ copy'[g] \in [Messages -> {"none", "queued", "flight", "done"}]
               /\ \A x \in Messages : x # m => copy'[g][x] = copy[g][x]
               /\ copy'[g][m] = "none" \/ (copy'[g][m] = "queued" /\ g \in Channels)
    <3>1. copy[g] \in [Messages -> {"none", "queued", "flight", "done"}] /\ copy[g][m] = "none"
      BY <1>2, <2>1
    <3>2. CASE g \in Channels
      <4>1. copy'[g] = [copy[g] EXCEPT ![m] = "queued"]
        BY <2>2, <3>2
      <4> QED
        BY <3>1, <3>2, <4>1
    <3>3. CASE g \notin Channels
      <4>1. copy'[g] = copy[g]
        BY <2>2, <3>3, Zenon
      <4> QED
        BY <3>1, <3>3, <4>1
    <3> QED
      BY <3>2, <3>3
  <2> QED
    BY <2>2, <2>3
<1>10. /\ Members \subseteq Groups \X (Listeners \cap listeners)
       /\ \A g \in Channels : \E l \in Listeners : <<g, l>> \in Members
  <2>1. \A k \in DOMAIN consumers :
          /\ Group(k) \in Groups /\ Group(k) = consumers[k].group
          /\ consumers[k].listener \in Listeners \cap listeners
    <3>1. \A k \in DOMAIN consumers : consumers[k].listener \in listeners
      BY DEF Core, Published
    <3>2. Types
      BY DEF Core
    <3> QED
      BY <3>1, <3>2, ConsumerTyped DEF Group
  <2>2. ASSUME NEW p \in Members
        PROVE  p \in Groups \X (Listeners \cap listeners)
    <3>1. PICK k \in DOMAIN consumers : p = <<consumers[k].group, consumers[k].listener>>
      BY DEF Members
    <3> QED
      BY <2>1, <3>1
  <2>3. ASSUME NEW g \in Channels
        PROVE  \E l \in Listeners : <<g, l>> \in Members
    <3>1. PICK k \in DOMAIN consumers : g = consumers[k].group
      BY DEF Channels
    <3>2. <<g, consumers[k].listener>> \in Members /\ consumers[k].listener \in Listeners
      BY <2>1, <3>1 DEF Members
    <3> QED
      BY <3>2
  <2> QED
    BY <2>2, <2>3
<1>11. since'[m] = Members /\ \A x \in Messages : x # m => since'[x] = since[x]
  BY <1>1 DEF Core, Types
<1>4. Types'
  BY <1>1, <1>3, <1>10 DEF Core, Types
<1>5. Extends
  BY <1>1 DEF Extends, Core, Types
<1>6. Sent' /\ Distinct'
  <2>1. ASSUME NEW k \in Ids PROVE Sent' /\ Distinct'
    BY <1>1, <1>5, StillMoved, SentMoves DEF Core
  <2> QED
    BY <2>1 DEF Sent, Distinct
<1>7. Holders'
  <2>1. ASSUME NEW g \in Groups, NEW x \in Messages
        PROVE  /\ holder[g][x] # NULL =>
                    /\ holder[g][x] \in DOMAIN consumers /\ Group(holder[g][x]) = g
                    /\ copy'[g][x] = "flight"
               /\ copy'[g][x] = "flight" => holder[g][x] # NULL
    BY <1>2, <1>3 DEF Core, Holders
  <2> QED
    BY <1>1, <2>1 DEF Holders, Group
<1>8. Published'
  <2>1. ASSUME NEW x \in Messages
        PROVE  /\ Audience(x)' \subseteq listeners
               /\ \A g \in Groups : copy'[g][x] # "none" => Subscribed(g, x)' # {}
    <3>1. CASE x = m
      <4>1. Audience(x)' \subseteq listeners
        BY <1>10, <1>11, <3>1 DEF Audience
      <4>2. \A g \in Groups : copy'[g][x] # "none" => Subscribed(g, x)' # {}
        BY <1>3, <1>10, <1>11, <3>1 DEF Subscribed
      <4> QED
        BY <4>1, <4>2
    <3>2. CASE x # m
      BY <1>3, <1>11, <3>2 DEF Core, Published, Audience, Subscribed
    <3> QED
      BY <3>1, <3>2
  <2> QED
    BY <1>1, <2>1 DEF Core, Published
<1>9. Covered'
  <2>1. \A k \in Ids : running[k] # NULL =>
          running[k].msg \in Messages /\ since[running[k].msg] # {}
    BY FirstItem DEF Core, Sent, Callbacks
  <2> QED
    BY <1>1, <1>5, <2>1 DEF Core, Covered, Extends, Group, Audience
<1> QED
  BY <1>4, <1>6, <1>7, <1>8, <1>9 DEF Core

LEMMA CoreTimeout ==
  ASSUME Core, NEW g \in Groups, NEW m \in Messages, timeout(g, m)
  PROVE  Core'
<1>1. /\ holder[g][m] # NULL
      /\ copy' = [copy EXCEPT ![g][m] = "queued"] /\ holder' = [holder EXCEPT ![g][m] = NULL]
      /\ failures' = failures \/ (failures < MaxFailures /\ failures' = failures + 1)
      /\ UNCHANGED <<listeners, consumers, executors, running, attempts, resent, since, ok>>
  BY DEF timeout, history
<1>2. copy[g][m] = "flight"
  BY <1>1 DEF Core, Holders
<1>3. /\ copy' \in [Groups -> [Messages -> {"none", "queued", "flight", "done"}]]
      /\ holder' \in [Groups -> [Messages -> Ids \cup {NULL}]]
      /\ copy'[g][m] = "queued" /\ holder'[g][m] = NULL
      /\ \A h \in Groups, x \in Messages : <<h, x>> # <<g, m>> =>
           copy'[h][x] = copy[h][x] /\ holder'[h][x] = holder[h][x]
  BY <1>1 DEF Core, Types
<1>4. failures' \in 0 .. MaxFailures
  BY <1>1, ConsumersAssumption DEF Core, Types
<1>5. Types'
  BY <1>1, <1>3, <1>4 DEF Core, Types
<1>6. Sent' /\ Distinct'
  <2>1. Extends
    BY <1>1 DEF Extends
  <2>2. ASSUME NEW k \in Ids PROVE Sent' /\ Distinct'
    BY <1>1, <2>1, StillMoved, SentMoves DEF Core
  <2> QED
    BY <2>2 DEF Sent, Distinct
<1>7. Holders'
  <2>1. ASSUME NEW h \in Groups, NEW x \in Messages
        PROVE  /\ holder'[h][x] # NULL =>
                    /\ holder'[h][x] \in DOMAIN consumers /\ Group(holder'[h][x]) = h
                    /\ copy'[h][x] = "flight"
               /\ copy'[h][x] = "flight" => holder'[h][x] # NULL
    <3>1. CASE h = g /\ x = m
      BY <1>3, <3>1
    <3>2. CASE <<h, x>> # <<g, m>>
      BY <1>3, <3>2 DEF Core, Holders
    <3> QED
      BY <3>1, <3>2
  <2> QED
    BY <1>1, <2>1 DEF Holders, Group
<1>8. Published'
  <2>1. ASSUME NEW h \in Groups, NEW x \in Messages, copy'[h][x] # "none"
        PROVE  copy[h][x] # "none"
    BY <1>2, <1>3, <2>1
  <2> QED
    BY <1>1, <2>1 DEF Core, Published, Audience, Subscribed
<1>9. Covered'
  BY <1>1 DEF Core, Covered, Group, Audience
<1> QED
  BY <1>5, <1>6, <1>7, <1>8, <1>9 DEF Core

(* A new delivery, with an attempt that none of the others has             *)
Delivered(k, m, g, n, a) ==
  /\ k \in DOMAIN consumers /\ g \in Groups /\ n \in 1 .. MaxAttempts
  /\ copy[g][m] = "queued" /\ since[m] # {}
  /\ copy' = [copy EXCEPT ![g][m] = "flight"]
  /\ holder' = [holder EXCEPT ![g][m] = k]
  /\ attempts' = [attempts EXCEPT ![g][m] = n]
  /\ executors' \in [Ids -> Seq([msg : Messages, attempts : Nat])]
  /\ UNCHANGED <<listeners, consumers, running, resent, failures, since, ok, missed>>
  /\ Msg(k, a)' = m /\ Att(k, a)' = n /\ a \in Nat \ {0} /\ a \notin Pend(k)
  /\ \A l \in Ids : \A i \in Pend(l)' :
       \/ i \in Pend(l) /\ Msg(l, i)' = Msg(l, i) /\ Att(l, i)' = Att(l, i)
       \/ l = k /\ i = a

LEMMA Delivers ==
  ASSUME Core, NEW k \in Ids, NEW m \in Messages, deliver(k, m), NEW g, g = Group(k),
         NEW n, n = attempts[g][m] + 1, NEW a, a = Len(executors[k]) + 1
  PROVE  Delivered(k, m, g, n, a)
<1> DEFINE d == [msg |-> m, attempts |-> n]
<1>1. /\ k \in DOMAIN consumers /\ copy[g][m] = "queued" /\ attempts[g][m] < MaxAttempts
      /\ copy' = [copy EXCEPT ![g][m] = "flight"]
      /\ holder' = [holder EXCEPT ![g][m] = k]
      /\ attempts' = [attempts EXCEPT ![g][m] = @ + 1]
      /\ executors' = [executors EXCEPT ![k] = Append(executors[k], d)]
      /\ UNCHANGED <<listeners, consumers, running, resent, failures, since, ok, missed>>
  BY DEF deliver, history
<1>2. g \in Groups
  BY <1>1, ConsumerTyped DEF Core
<1>3. attempts[g][m] \in 0 .. MaxAttempts /\ n \in 1 .. MaxAttempts
  BY <1>1, <1>2, ConsumersAssumption, SMTT(20) DEF Core, Types
<1>4. attempts' = [attempts EXCEPT ![g][m] = n]
  BY <1>1
<1>5. since[m] # {}
  BY <1>1, <1>2 DEF Core, Published, Subscribed
<1>6. d \in [msg : Messages, attempts : Nat]
  BY <1>3
<1>7. executors[k] \in Seq([msg : Messages, attempts : Nat]) /\ Len(executors[k]) \in Nat
  BY LenProperties DEF Core, Types
<1>8. /\ Append(executors[k], d) \in Seq([msg : Messages, attempts : Nat])
      /\ Len(Append(executors[k], d)) = a
      /\ \A i \in 1 .. Len(executors[k]) : Append(executors[k], d)[i] = executors[k][i]
      /\ Append(executors[k], d)[a] = d
  BY <1>6, <1>7, AppendProperties
<1> HIDE DEF d
<1>9. /\ executors' \in [Ids -> Seq([msg : Messages, attempts : Nat])]
      /\ executors'[k] = Append(executors[k], d)
      /\ \A l \in Ids \ {k} : executors'[l] = executors[l]
  BY <1>1, <1>8 DEF Core, Types
<1>10. Msg(k, a)' = m /\ Att(k, a)' = n
  BY <1>7, <1>8, <1>9 DEF Msg, Att, d
<1>11. a \notin Pend(k) /\ a \in Nat \ {0}
  BY <1>7 DEF Pend
<1>12. ASSUME NEW l \in Ids, NEW i \in Pend(l)', ~(l = k /\ i = a)
       PROVE  i \in Pend(l) /\ Msg(l, i)' = Msg(l, i) /\ Att(l, i)' = Att(l, i)
  <2>1. CASE l # k
    BY <1>1, <1>9, <2>1 DEF Pend, Msg, Att
  <2>2. CASE l = k
    <3>1. i \in 0 .. Len(executors[k])
      BY <1>7, <1>8, <1>9, <1>12, <2>2 DEF Pend
    <3> QED
      BY <1>1, <1>7, <1>8, <1>9, <1>12, <2>2, <3>1 DEF Pend, Msg, Att
  <2> QED
    BY <2>1, <2>2
<1> QED
  BY <1>1, <1>2, <1>3, <1>4, <1>5, <1>9, <1>10, <1>11, <1>12 DEF Delivered

LEMMA CoreDeliver ==
  ASSUME Core, NEW k \in Ids, NEW m \in Messages, deliver(k, m)
  PROVE  Core'
<1>0. PICK g, n, a : g = Group(k) /\ n = attempts[g][m] + 1 /\ a = Len(executors[k]) + 1
  OBVIOUS
<1>1. /\ k \in DOMAIN consumers /\ g \in Groups /\ n \in 1 .. MaxAttempts
      /\ copy[g][m] = "queued" /\ since[m] # {}
      /\ copy' = [copy EXCEPT ![g][m] = "flight"]
      /\ holder' = [holder EXCEPT ![g][m] = k]
      /\ attempts' = [attempts EXCEPT ![g][m] = n]
      /\ executors' \in [Ids -> Seq([msg : Messages, attempts : Nat])]
      /\ UNCHANGED <<listeners, consumers, running, resent, failures, since, ok, missed>>
      /\ Msg(k, a)' = m /\ Att(k, a)' = n /\ a \in Nat \ {0}
      /\ \A l \in Ids : \A i \in Pend(l)' :
           \/ i \in Pend(l) /\ Msg(l, i)' = Msg(l, i) /\ Att(l, i)' = Att(l, i)
           \/ l = k /\ i = a
  <2>1. Delivered(k, m, g, n, a)
    BY <1>0, Delivers
  <2> QED
    BY <2>1 DEF Delivered
<1>2. /\ copy' \in [Groups -> [Messages -> {"none", "queued", "flight", "done"}]]
      /\ holder' \in [Groups -> [Messages -> Ids \cup {NULL}]]
      /\ attempts' \in [Groups -> [Messages -> 0 .. MaxAttempts]]
      /\ copy'[g][m] = "flight" /\ holder'[g][m] = k /\ attempts'[g][m] = n
      /\ \A h \in Groups, x \in Messages : <<h, x>> # <<g, m>> =>
           /\ copy'[h][x] = copy[h][x] /\ holder'[h][x] = holder[h][x]
           /\ attempts'[h][x] = attempts[h][x]
  <2>1. n \in 0 .. MaxAttempts
    BY <1>1
  <2> QED
    BY <1>1, <2>1 DEF Core, Types
<1>3. Types'
  BY <1>1, <1>2 DEF Core, Types
<1>4. Holders'
  <2>1. ASSUME NEW h \in Groups, NEW x \in Messages
        PROVE  /\ holder'[h][x] # NULL =>
                    /\ holder'[h][x] \in DOMAIN consumers /\ Group(holder'[h][x]) = h
                    /\ copy'[h][x] = "flight"
               /\ copy'[h][x] = "flight" => holder'[h][x] # NULL
    <3>1. CASE h = g /\ x = m
      BY <1>0, <1>1, <1>2, <3>1, ConsumersAssumption
    <3>2. CASE <<h, x>> # <<g, m>>
      <4>1. copy'[h][x] = copy[h][x] /\ holder'[h][x] = holder[h][x]
        BY <1>2, <3>2
      <4> QED
        BY <4>1 DEF Core, Holders
    <3> QED
      BY <3>1, <3>2
  <2> QED
    BY <1>1, <2>1 DEF Holders, Group
<1>5. Published'
  <2>1. ASSUME NEW h \in Groups, NEW x \in Messages, copy'[h][x] # "none"
        PROVE  copy[h][x] # "none"
    BY <1>1, <1>2, <2>1
  <2> QED
    BY <1>1, <2>1 DEF Core, Published, Audience, Subscribed
<1>6. Covered'
  BY <1>1 DEF Core, Covered, Group, Audience
<1>7. \A l \in Ids : Group(l)' = Group(l)
  BY <1>1 DEF Group
<1>8. \A h \in Groups, x \in Messages : attempts'[h][x] \in Nat /\ attempts[h][x] \in Nat
                                         /\ attempts[h][x] <= attempts'[h][x]
  <2>1. \A h \in Groups, x \in Messages : attempts[h][x] \in 0 .. MaxAttempts
                                            /\ attempts'[h][x] \in 0 .. MaxAttempts
    BY <1>2 DEF Core, Types
  <2>2. attempts'[g][m] = attempts[g][m] + 1
    BY <1>0, <1>2
  <2> QED
    BY SMTT(30), <1>2, <2>1, <2>2, ConsumersAssumption
<1>9. ASSUME NEW l \in Ids, NEW i \in Pend(l), l \in DOMAIN consumers
      PROVE  /\ Group(l) \in Groups /\ Msg(l, i) \in Messages
             /\ Att(l, i) \in 1 .. attempts[Group(l)][Msg(l, i)]
             /\ since[Msg(l, i)] # {}
             /\ ~(Group(l) = g /\ Msg(l, i) = m /\ Att(l, i) = n)
  <2>1. /\ Group(l) \in Groups /\ Msg(l, i) \in Messages
        /\ Att(l, i) \in 1 .. attempts[Group(l)][Msg(l, i)] /\ since[Msg(l, i)] # {}
    BY <1>9, ConsumerTyped, ItemTyped DEF Core, Sent
  <2>2. attempts[g][m] \in Nat
    BY <1>1, <1>8
  <2> QED
    BY <1>0, <2>1, <2>2
<1>10. \A l \in Ids : \A i \in Pend(l) : l \in DOMAIN consumers
  BY DEF Core, Sent
<1>11. Sent'
  <2>1. ASSUME NEW l \in Ids, NEW i \in Pend(l)'
        PROVE  /\ l \in DOMAIN consumers
               /\ Att(l, i)' \in 1 .. attempts'[Group(l)][Msg(l, i)']
               /\ since[Msg(l, i)'] # {}
    <3>1. CASE i \in Pend(l) /\ Msg(l, i)' = Msg(l, i) /\ Att(l, i)' = Att(l, i)
      BY <1>8, <1>9, <1>10, <3>1
    <3>2. CASE l = k /\ i = a
      <4>1. n \in 1 .. n
        BY <1>1
      <4> QED
        BY <1>0, <1>1, <1>2, <3>2, <4>1
    <3> QED
      BY <1>1, <3>1, <3>2
  <2> QED
    BY <1>1, <1>7, <2>1 DEF Sent
<1>12. Distinct'
  <2>1. ASSUME NEW l \in Ids, NEW j \in Ids, NEW b \in Pend(l)', NEW c \in Pend(j)',
               Group(l) = Group(j), Msg(l, b)' = Msg(j, c)', Att(l, b)' = Att(j, c)'
        PROVE  l = j /\ b = c
    <3>1. CASE /\ b \in Pend(l) /\ Msg(l, b)' = Msg(l, b) /\ Att(l, b)' = Att(l, b)
               /\ c \in Pend(j) /\ Msg(j, c)' = Msg(j, c) /\ Att(j, c)' = Att(j, c)
      BY <2>1, <3>1 DEF Core, Distinct
    <3>2. CASE /\ b \in Pend(l) /\ Msg(l, b)' = Msg(l, b) /\ Att(l, b)' = Att(l, b)
               /\ j = k /\ c = a
      BY <1>0, <1>1, <1>9, <1>10, <2>1, <3>2
    <3>3. CASE /\ l = k /\ b = a
               /\ c \in Pend(j) /\ Msg(j, c)' = Msg(j, c) /\ Att(j, c)' = Att(j, c)
      BY <1>0, <1>1, <1>9, <1>10, <2>1, <3>3
    <3>4. CASE l = k /\ b = a /\ j = k /\ c = a
      BY <3>4
    <3> QED
      BY <1>1, <3>1, <3>2, <3>3, <3>4
  <2> QED
    BY <1>7, <2>1 DEF Distinct
<1> QED
  BY <1>3, <1>4, <1>5, <1>6, <1>11, <1>12 DEF Core

-----------------------------------------------------------------------------
(* What excuses that a copy is finished                                    *)
Excused(g, m) ==
  \/ g \notin Queues /\ Subscribed(g, m) \subseteq ok[g][m]
  \/ g \in Queues /\ Subscribed(g, m) \cap ok[g][m] # {}
  \/ <<g, m>> \in missed
  \/ \E k \in DOMAIN consumers :
       Group(k) = g /\ Retry(k) > 0 /\ attempts[g][m] >= Retry(k) + 1

LEMMA LostIsExcused ==
  NothingLost <=> \A g \in Groups, m \in Messages : copy[g][m] = "done" => Excused(g, m)
BY DEF NothingLost, Excused

(* ... lasts: listeners, attempts and consumers are only added             *)
LEMMA ExcusedLasts ==
  ASSUME Core, Core', Extends, NEW g \in Groups, NEW m \in Messages, copy[g][m] = "done",
         Excused(g, m), ok[g][m] \subseteq ok'[g][m], missed \subseteq missed',
         attempts[g][m] <= attempts'[g][m]
  PROVE  Excused(g, m)'
<1>1. Subscribed(g, m)' = Subscribed(g, m)
  BY DEF Core, Published, Extends, Subscribed
<1>2. CASE \/ g \notin Queues /\ Subscribed(g, m) \subseteq ok[g][m]
           \/ g \in Queues /\ Subscribed(g, m) \cap ok[g][m] # {}
  BY <1>1, <1>2 DEF Excused
<1>3. CASE <<g, m>> \in missed
  BY <1>3 DEF Excused
<1>4. ASSUME NEW k \in DOMAIN consumers, Group(k) = g, Retry(k) > 0,
             attempts[g][m] >= Retry(k) + 1
      PROVE  Excused(g, m)'
  <2>1. k \in DOMAIN consumers' /\ Group(k)' = g /\ Retry(k)' = Retry(k) /\ Retry(k) \in Int
    BY <1>4, ConsumerTyped, ConsumersAssumption DEF Extends, Group, Retry, Core
  <2>2. attempts[g][m] \in Int /\ attempts'[g][m] \in Int
    BY DEF Core, Types
  <2> QED
    BY <1>4, <2>1, <2>2 DEF Excused
<1> QED
  BY <1>2, <1>3, <1>4 DEF Excused

LEMMA LostStops ==
  ASSUME Core, Core', NothingLost, NEW k \in Ids, Stops(k)
  PROVE  NothingLost'
<1> DEFINE m == running[k].msg
<1>1. /\ m \in Messages /\ k \in DOMAIN consumers /\ Group(k) \in Groups
      /\ 0 \in Pend(k) /\ m = Msg(k, 0) /\ running[k].attempts = Att(k, 0)
  BY FirstItem DEF Stops, Callbacks
<1>2. /\ Extends /\ (Fin(k, m) \/ Req(k, m) \/ Same)
      /\ UNCHANGED <<consumers, since, ok, missed>>
  BY DEF Stops, Extends
<1>3. /\ attempts' = attempts
      /\ \A g \in Groups, x \in Messages : <<g, x>> # <<Group(k), m>> => copy'[g][x] = copy[g][x]
  BY <1>1, <1>2, AnswerTyped DEF Core
<1>4. ASSUME NEW g \in Groups, NEW x \in Messages, copy'[g][x] = "done", copy[g][x] = "done"
      PROVE  Excused(g, x)'
  <2>1. attempts[g][x] <= attempts'[g][x]
    BY <1>3 DEF Core, Types
  <2> QED
    BY <1>2, <1>4, <2>1, ExcusedLasts, LostIsExcused
<1>5. ASSUME NEW g \in Groups, NEW x \in Messages, copy'[g][x] = "done", copy[g][x] # "done"
      PROVE  Excused(g, x)'
  <2>1. g = Group(k) /\ x = m
    BY <1>3, <1>5
  <2>2. running[k].todo = {} \/ enough(k, running[k].attempts)
    <3>1. CASE Same
      BY <1>5, <3>1 DEF Same
    <3>2. CASE Req(k, m)
      <4>1. copy'[Group(k)][m] = "queued"
        BY <1>1, <3>2 DEF Req, Core, Types
      <4> QED
        BY <1>5, <2>1, <4>1
    <3>3. CASE Fin(k, m) /\ (running[k].todo = {} \/ enough(k, running[k].attempts))
      BY <3>3
    <3> QED
      BY <3>1, <3>2, <3>3 DEF Stops
  <2>3. CASE running[k].todo = {}
    <3>1. Subscribed(g, m) \subseteq ok[Group(k)][m]
      BY <2>1, <2>3 DEF Stops, Core, Covered, Audience, Subscribed
    <3>2. Fin(k, m)
      <4>1. copy'[Group(k)][m] = "queued" \/ ~Req(k, m)
        BY <1>1 DEF Req, Core, Types
      <4> QED
        BY <1>2, <1>5, <2>1, <4>1 DEF Same
    <3>3. Subscribed(g, m) # {}
      <4>1. copy[g][m] = "flight"
        BY <1>1, <2>1, <3>2, ConsumersAssumption DEF Fin, Core, Holders
      <4> QED
        BY <1>1, <2>1, <4>1 DEF Core, Published
    <3> QED
      BY <1>2, <2>1, <3>1, <3>3 DEF Excused, Subscribed
  <2>4. CASE enough(k, running[k].attempts)
    <3>1. running[k].attempts \in 1 .. attempts[Group(k)][m]
      BY <1>1 DEF Core, Sent
    <3>4. Retry(k) \in Int
      BY <1>1, ConsumerTyped, ConsumersAssumption DEF Core
    <3>5. attempts[Group(k)][m] \in Int
      BY <1>1 DEF Core, Types
    <3>2. Retry(k) > 0 /\ attempts[Group(k)][m] >= Retry(k) + 1
      BY <2>4, <3>1, <3>4, <3>5 DEF enough
    <3>3. Group(k)' = Group(k) /\ Retry(k)' = Retry(k) /\ k \in DOMAIN consumers'
      BY <1>1, <1>2 DEF Group, Retry
    <3> QED
      BY <1>3, <2>1, <3>2, <3>3 DEF Excused
  <2> QED
    BY <2>2, <2>3, <2>4
<1> QED
  BY <1>4, <1>5 DEF NothingLost, Excused

LEMMA LostSkips ==
  ASSUME Core, Core', NothingLost, NEW k \in Ids, Skips(k)
  PROVE  NothingLost'
<1> DEFINE m == Head(executors[k]).msg
<1>1. m \in Messages /\ k \in DOMAIN consumers /\ Group(k) \in Groups
  BY FirstItem DEF Skips
<1>2. /\ Extends /\ UNCHANGED <<consumers, since, ok>> /\ missed \subseteq missed'
      /\ (Fin(k, m) /\ <<Group(k), m>> \in missed') \/ Same
  BY DEF Skips, Extends
<1>3. /\ attempts' = attempts
      /\ \A g \in Groups, x \in Messages : <<g, x>> # <<Group(k), m>> => copy'[g][x] = copy[g][x]
  BY <1>1, <1>2, AnswerTyped DEF Core
<1>4. ASSUME NEW g \in Groups, NEW x \in Messages, copy'[g][x] = "done", copy[g][x] = "done"
      PROVE  Excused(g, x)'
  <2>1. attempts[g][x] <= attempts'[g][x]
    BY <1>3 DEF Core, Types
  <2> QED
    BY <1>2, <1>4, <2>1, ExcusedLasts, LostIsExcused
<1>5. ASSUME NEW g \in Groups, NEW x \in Messages, copy'[g][x] = "done", copy[g][x] # "done"
      PROVE  Excused(g, x)'
  BY <1>2, <1>3, <1>5 DEF Excused, Same
<1> QED
  BY <1>4, <1>5 DEF NothingLost, Excused

(* Every other step finishes no copy                                       *)
LEMMA LostOthers ==
  ASSUME Core, Core', NothingLost, Extends, missed \subseteq missed',
         \A g \in Groups, m \in Messages :
           /\ copy'[g][m] = "done" => copy[g][m] = "done"
           /\ ok[g][m] \subseteq ok'[g][m] /\ attempts[g][m] <= attempts'[g][m]
  PROVE  NothingLost'
<1>1. ASSUME NEW g \in Groups, NEW m \in Messages, copy'[g][m] = "done"
      PROVE  Excused(g, m)'
  BY <1>1, ExcusedLasts, LostIsExcused
<1> QED
  BY <1>1 DEF NothingLost, Excused

-----------------------------------------------------------------------------
(* Attempts up to b                                                        *)
LEMMA UpTo ==
  ASSUME NEW b \in Nat, NEW A, A \subseteq 1 .. b
  PROVE  IsFiniteSet(A) /\ Cardinality(A) \in Nat /\ Cardinality(A) <= b
<1>1. IsFiniteSet(1 .. b) /\ Cardinality(1 .. b) = b
  <2>1. 1 \in Int /\ b \in Int
    OBVIOUS
  <2>2. IsFiniteSet(1 .. b) /\ Cardinality(1 .. b) = IF 1 > b THEN 0 ELSE b - 1 + 1
    BY <2>1, FS_Interval
  <2> QED
    BY <2>2
<1>2. A \in SUBSET (1 .. b)
  OBVIOUS
<1>3. IsFiniteSet(A) /\ Cardinality(A) <= Cardinality(1 .. b)
  BY <1>1, <1>2, FS_Subset
<1> QED
  BY <1>1, <1>3, FS_CardinalityType

LEMMA AddsOne ==
  ASSUME NEW A, NEW n, n \notin A, IsFiniteSet(A)
  PROVE  Cardinality(A \cup {n}) = Cardinality(A) + 1
BY FS_AddElement

(* An attempt that was allowed stays so, and one that waited waits         *)
LEMMA RequeuedKept ==
  ASSUME Core, NEW k, NEW d \in {0, 1}, Moved(k, d), Extends, NEW A,
         NEW g \in Groups, NEW m \in Messages, Requeued(A, g, m),
         attempts'[g][m] = attempts[g][m], resent'[g][m] = resent[g][m]
  PROVE  Requeued(A, g, m)'
<1>1. \A n : Allowed(g, n) => Allowed(g, n)'
  BY DEF Allowed, Extends, Group, Retry
<1>2. ASSUME NEW l \in Ids, NEW i \in Pend(l)', Group(l)' = g, Msg(l, i)' = m
      PROVE  Att(l, i)' \notin A
  <2>1. PICK e : e \in {0, 1} /\ i + e \in Pend(l) /\ Msg(l, i)' = Msg(l, i + e)
                 /\ Att(l, i)' = Att(l, i + e)
    BY DEF Moved
  <2>2. Group(l) = g
    BY <1>2, <2>1 DEF Core, Sent, Extends, Group
  <2> QED
    BY <1>2, <2>1, <2>2 DEF Requeued
<1> QED
  BY <1>1, <1>2 DEF Requeued

LEMMA ResendsKept ==
  ASSUME Core, NEW k, NEW d \in {0, 1}, Moved(k, d), Extends, NEW S, Resends(S),
         UNCHANGED <<attempts, resent>>
  PROVE  Resends(S)'
<1>1. ASSUME NEW g \in Groups, NEW m \in Messages
      PROVE  Requeued(S[g][m], g, m)'
  BY RequeuedKept DEF Resends
<1> QED
  BY <1>1 DEF Resends

(* REQ: the attempt of the callback becomes one of those requeued          *)
LEMMA RequeuedMore ==
  ASSUME Core, NEW k \in Ids, Stops(k), NEW g, g = Group(k), NEW m, m = running[k].msg,
         NEW n, n = running[k].attempts, Req(k, m), ~enough(k, n), NEW A, Requeued(A, g, m)
  PROVE  Requeued(A \cup {n}, g, m)'
<1>1. /\ m \in Messages /\ k \in DOMAIN consumers /\ g \in Groups
      /\ 0 \in Pend(k) /\ m = Msg(k, 0) /\ n = Att(k, 0)
  BY FirstItem DEF Stops, Callbacks
<1>2. /\ attempts'[g][m] = attempts[g][m] /\ consumers' = consumers
      /\ resent'[g][m] = resent[g][m] + 1 /\ executors' = executors
  BY <1>1 DEF Req, Stops, Core, Types
<1>3. n \in 1 .. attempts[g][m] /\ attempts[g][m] \in Nat
  <2>1. attempts[g][m] \in Nat
    BY <1>1, ConsumersAssumption DEF Core, Types
  <2> QED
    BY <1>1, <2>1 DEF Core, Sent
<1>4. n \notin A
  BY <1>1 DEF Requeued
<1>5. Cardinality(A \cup {n}) = resent[g][m] + 1
  BY <1>3, <1>4, UpTo, AddsOne DEF Requeued
<1>6. \A x : Allowed(g, x) => Allowed(g, x)'
  BY <1>2 DEF Allowed, Group, Retry
<1>7. Allowed(g, n)
  <2>1. Retry(k) \in Int
    BY <1>1, ConsumerTyped, ConsumersAssumption DEF Core
  <2> QED
    BY <1>1, <1>3, <2>1 DEF Allowed, enough
<1>8. ASSUME NEW l \in Ids, NEW i \in Pend(l)', Group(l)' = g, Msg(l, i)' = m
      PROVE  Att(l, i)' \notin A \cup {n}
  <2>1. i \in Pend(l) /\ Msg(l, i)' = Msg(l, i) /\ Att(l, i)' = Att(l, i)
    <3>1. /\ i + 0 \in Pend(l) /\ Msg(l, i)' = Msg(l, i + 0)
          /\ Att(l, i)' = Att(l, i + 0)
      BY StopsMoved DEF Moved, Core
    <3>2. i + 0 = i
      BY DEF Pend
    <3> QED
      BY <3>1, <3>2
  <2>2. Group(l) = g
    BY <1>2, <1>8 DEF Group
  <2>3. Att(l, i) \notin A
    BY <1>8, <2>1, <2>2 DEF Requeued
  <2>4. ASSUME Att(l, i) = n PROVE FALSE
    <3>1. l = k /\ i = 0
      BY <1>1, <1>8, <2>1, <2>2, <2>4 DEF Core, Distinct
    <3>2. 0 \notin Pend(k)'
      BY DEF Pend, Stops, Core, Types
    <3> QED
      BY <3>1, <3>2
  <2> QED
    BY <2>1, <2>3, <2>4
<1> QED
  BY <1>2, <1>3, <1>5, <1>6, <1>7, <1>8 DEF Requeued

LEMMA ResendsStops ==
  ASSUME Core, NEW k \in Ids, Stops(k), NEW S, Resends(S)
  PROVE  \E T : Resends(T)'
<1>1. CASE UNCHANGED <<attempts, resent>>
  <2>1. Extends /\ Moved(k, 0)
    BY StopsMoved DEF Stops, Extends, Core
  <2> QED
    BY <1>1, <2>1, ResendsKept
<1>2. CASE Req(k, running[k].msg) /\ ~enough(k, running[k].attempts)
  <2>1. PICK g, m, n : g = Group(k) /\ m = running[k].msg /\ n = running[k].attempts
    OBVIOUS
  <2>2. PICK T : T = [h \in Groups |-> [x \in Messages |->
                       IF h = g /\ x = m THEN S[h][x] \cup {n} ELSE S[h][x]]]
    OBVIOUS
  <2>3. m \in Messages /\ g \in Groups
    BY <2>1, FirstItem DEF Stops, Callbacks
  <2>4. Requeued(S[g][m] \cup {n}, g, m)'
    BY <1>2, <2>1, <2>3, RequeuedMore DEF Resends
  <2>5. ASSUME NEW h \in Groups, NEW x \in Messages
        PROVE  Requeued(T[h][x], h, x)'
    <3>1. CASE h = g /\ x = m
      <4>1. T[h][x] = S[g][m] \cup {n}
        BY <2>2, <2>3, <3>1
      <4> QED
        BY <2>4, <3>1, <4>1
    <3>2. CASE ~(h = g /\ x = m)
      <4>1. T[h][x] = S[h][x]
        BY <2>2, <3>2
      <4>2. /\ attempts'[h][x] = attempts[h][x] /\ resent'[h][x] = resent[h][x]
            /\ Extends /\ Moved(k, 0)
        BY <1>2, <2>1, <2>3, <3>2, StopsMoved DEF Stops, Req, Extends, Core, Types
      <4>3. Requeued(S[h][x], h, x)
        BY DEF Resends
      <4>4. Requeued(S[h][x], h, x)'
        BY <4>2, <4>3, RequeuedKept
      <4> QED
        BY <4>1, <4>4
    <3> QED
      BY <3>1, <3>2
  <2> QED
    BY <2>5 DEF Resends
<1> QED
  BY <1>1, <1>2 DEF Stops, Same, Fin

(* A new delivery has an attempt that was not requeued                     *)
LEMMA ResendsDeliver ==
  ASSUME Core, NEW k \in Ids, NEW m \in Messages, deliver(k, m), NEW S, Resends(S)
  PROVE  Resends(S)'
<1>0. PICK g, n, a : g = Group(k) /\ n = attempts[g][m] + 1 /\ a = Len(executors[k]) + 1
  OBVIOUS
<1>1. Delivered(k, m, g, n, a)
  BY <1>0, Delivers
<1>2. /\ g \in Groups /\ attempts' = [attempts EXCEPT ![g][m] = n]
      /\ UNCHANGED <<consumers, resent>> /\ Msg(k, a)' = m /\ Att(k, a)' = n
      /\ \A l \in Ids : \A i \in Pend(l)' :
           \/ i \in Pend(l) /\ Msg(l, i)' = Msg(l, i) /\ Att(l, i)' = Att(l, i)
           \/ l = k /\ i = a
  BY <1>1 DEF Delivered
<1>3. ASSUME NEW h \in Groups, NEW x \in Messages
      PROVE  Requeued(S[h][x], h, x)'
  <2>1. Requeued(S[h][x], h, x)
    BY DEF Resends
  <2>2. attempts[h][x] \in Nat /\ attempts[g][m] \in Nat
    BY <1>2, ConsumersAssumption DEF Core, Types
  <2>3. S[h][x] \subseteq 1 .. attempts'[h][x]
    <3>1. attempts'[h][x] = attempts[h][x] \/ attempts'[h][x] = attempts[h][x] + 1
      BY <1>0, <1>2 DEF Core, Types
    <3> QED
      BY <2>1, <2>2, <3>1 DEF Requeued
  <2>4. \A y : Allowed(h, y) => Allowed(h, y)'
    BY <1>2 DEF Allowed, Group, Retry
  <2>5. ASSUME NEW l \in Ids, NEW i \in Pend(l)', Group(l)' = h, Msg(l, i)' = x
        PROVE  Att(l, i)' \notin S[h][x]
    <3>1. Group(l) = h
      BY <1>2, <2>5 DEF Group
    <3>2. CASE i \in Pend(l) /\ Msg(l, i)' = Msg(l, i) /\ Att(l, i)' = Att(l, i)
      BY <2>1, <2>5, <3>1, <3>2 DEF Requeued
    <3>3. CASE l = k /\ i = a
      <4>1. h = g /\ x = m /\ Att(l, i)' = attempts[h][x] + 1
        BY <1>0, <1>2, <2>5, <3>1, <3>3
      <4> QED
        BY <2>1, <2>2, <4>1 DEF Requeued
    <3> QED
      BY <1>2, <3>2, <3>3
  <2> QED
    BY <1>2, <2>1, <2>3, <2>4, <2>5 DEF Requeued
<1> QED
  BY <1>3 DEF Resends

-----------------------------------------------------------------------------
LEMMA InvInit == Init => Inv
<1> SUFFICES ASSUME Init PROVE Inv
  OBVIOUS
<1>1. Len(<<>>) = 0 /\ DOMAIN consumers = {}
  BY DEF Init
<1>2. Types
  <2>1. /\ consumers \in Seq([group : Groups, retry : Retries, listener : Listeners])
        /\ executors \in [Ids -> Seq([msg : Messages, attempts : Nat])]
    BY EmptySeq DEF Init
  <2>2. Len(consumers) <= MaxConsumers /\ failures \in 0 .. MaxFailures
        /\ 0 \in 0 .. MaxAttempts
    BY <1>1, ConsumersAssumption DEF Init
  <2> QED
    BY <2>1, <2>2 DEF Init, Types
<1>3. \A k \in Ids : Pend(k) = {}
  BY <1>1 DEF Init, Pend
<1>4. Holders /\ Published /\ Covered /\ NothingLost
  BY <1>1 DEF Init, Holders, Published, Covered, NothingLost, Audience
<1>5. Sent /\ Distinct
  BY <1>3 DEF Sent, Distinct
<1>6. PICK S : S = [g \in Groups |-> [m \in Messages |-> {}]]
  OBVIOUS
<1>7. Cardinality({}) = 0
  BY FS_EmptySet
<1>8. Resends(S)
  BY <1>3, <1>6, <1>7 DEF Resends, Requeued, Init
<1> QED
  BY <1>2, <1>4, <1>5, <1>8 DEF Inv, Core

LEMMA InvNext ==
  ASSUME Inv, [Next]_vars
  PROVE  Inv'
<1>0. PICK S : Resends(S)
  BY DEF Inv
<1>1. Core /\ NothingLost /\ Types
  BY DEF Inv, Core
<1>2. ASSUME NEW g \in Groups, NEW l \in Listeners, NEW r \in Retries, register(g, l, r)
      PROVE  Inv'
  <2>1. /\ Extends /\ Core'
        /\ UNCHANGED <<executors, running, copy, attempts, resent, ok, missed>>
    BY <1>1, <1>2, Registers, CoreRegister
  <2>2. NothingLost'
    <3>1. \A h \in Groups, m \in Messages : attempts[h][m] <= attempts'[h][m]
      BY <1>1, <2>1 DEF Types
    <3> QED
      BY <1>1, <2>1, <3>1, LostOthers
  <2>3. Moved(1, 0)
    BY <1>1, <2>1, StillMoved
  <2>4. Resends(S)'
    BY <1>0, <1>1, <2>1, <2>3, ResendsKept
  <2> QED
    BY <2>1, <2>2, <2>4 DEF Inv
<1>3. ASSUME NEW k \in Ids, Starts(k)
      PROVE  Inv'
  <2>1. /\ Extends /\ Core'
        /\ UNCHANGED <<copy, attempts, resent, ok, missed>>
    BY <1>1, <1>3, CoreStarts DEF Starts, Same, Extends
  <2>2. NothingLost'
    <3>1. \A h \in Groups, m \in Messages : attempts[h][m] <= attempts'[h][m]
      BY <1>1, <2>1 DEF Types
    <3> QED
      BY <1>1, <2>1, <3>1, LostOthers
  <2>3. Moved(k, 1)
    BY <1>1, <1>3, StartsMoved
  <2>4. Resends(S)'
    BY <1>0, <1>1, <2>1, <2>3, ResendsKept
  <2> QED
    BY <2>1, <2>2, <2>4 DEF Inv
<1>4. ASSUME NEW k \in Ids, Skips(k)
      PROVE  Inv'
  <2>1. Extends /\ Core' /\ UNCHANGED <<attempts, resent>>
    BY <1>1, <1>4, CoreSkips DEF Skips, Fin, Same, Extends
  <2>2. NothingLost'
    BY <1>1, <1>4, <2>1, LostSkips
  <2>3. Moved(k, 1)
    BY <1>1, <1>4, SkipsMoved
  <2>4. Resends(S)'
    BY <1>0, <1>1, <2>1, <2>3, ResendsKept
  <2> QED
    BY <2>1, <2>2, <2>4 DEF Inv
<1>5. ASSUME NEW k \in Ids, Stops(k)
      PROVE  Inv'
  <2>1. Core'
    BY <1>1, <1>5, CoreStops
  <2>2. NothingLost'
    BY <1>1, <1>5, <2>1, LostStops
  <2>3. \E T : Resends(T)'
    BY <1>0, <1>1, <1>5, ResendsStops
  <2> QED
    BY <2>1, <2>2, <2>3 DEF Inv
<1>6. ASSUME NEW k \in Ids, NEW l \in running[k].todo, Accepts(k, l)
      PROVE  Inv'
  <2>1. /\ Extends /\ Core'
        /\ UNCHANGED <<copy, attempts, resent, missed>>
    BY <1>1, <1>6, CoreAccepts DEF Accepts, Same, Extends
  <2>2. NothingLost'
    <3>1. \A h \in Groups, m \in Messages :
            attempts[h][m] <= attempts'[h][m] /\ ok[h][m] \subseteq ok'[h][m]
      BY <1>1, <1>6, <2>1 DEF Types, Accepts
    <3> QED
      BY <1>1, <2>1, <3>1, LostOthers
  <2>3. Moved(k, 0)
    BY <1>1, <1>6, AcceptsMoved
  <2>4. Resends(S)'
    BY <1>0, <1>1, <2>1, <2>3, ResendsKept
  <2> QED
    BY <2>1, <2>2, <2>4 DEF Inv
<1>7. ASSUME NEW k \in Ids, NEW m \in Messages, deliver(k, m)
      PROVE  Inv'
  <2>1. Core' /\ Resends(S)'
    BY <1>0, <1>1, <1>7, CoreDeliver, ResendsDeliver
  <2>2. Extends /\ UNCHANGED <<ok, missed>>
    BY <1>7 DEF deliver, Extends, history
  <2>3. \A h \in Groups, x \in Messages :
          attempts[h][x] <= attempts'[h][x] /\ (copy'[h][x] = "done" => copy[h][x] = "done")
    <3>1. PICK g : g = Group(k)
      OBVIOUS
    <3>2. /\ copy' = [copy EXCEPT ![g][m] = "flight"]
          /\ attempts' = [attempts EXCEPT ![g][m] = @ + 1]
      BY <1>7, <3>1 DEF deliver
    <3> QED
      BY <1>1, <3>2, ConsumersAssumption DEF Types
  <2>4. NothingLost'
    BY <1>1, <2>1, <2>2, <2>3, LostOthers
  <2> QED
    BY <2>1, <2>4 DEF Inv
<1>8. ASSUME NEW m \in Messages, publish(m)
      PROVE  Inv'
  <2>1. /\ Core' /\ Extends
        /\ UNCHANGED <<executors, running, attempts, resent, ok, missed>>
    BY <1>1, <1>8, CorePublish DEF publish, Extends, Types
  <2>2. \A g \in Groups, x \in Messages :
          attempts[g][x] <= attempts'[g][x] /\ (copy'[g][x] = "done" => copy[g][x] = "done")
    BY <1>1, <1>8 DEF publish, Types
  <2>3. NothingLost'
    BY <1>1, <2>1, <2>2, LostOthers
  <2>4. Moved(1, 0)
    BY <1>1, <2>1, StillMoved
  <2>5. Resends(S)'
    BY <1>0, <1>1, <2>1, <2>4, ResendsKept
  <2> QED
    BY <2>1, <2>3, <2>5 DEF Inv
<1>9. ASSUME NEW m \in Messages, NEW g \in Groups, timeout(g, m)
      PROVE  Inv'
  <2>1. /\ Core' /\ Extends
        /\ UNCHANGED <<executors, running, attempts, resent, ok, missed>>
    BY <1>1, <1>9, CoreTimeout DEF timeout, history, Extends
  <2>2. \A h \in Groups, x \in Messages :
          attempts[h][x] <= attempts'[h][x] /\ (copy'[h][x] = "done" => copy[h][x] = "done")
    BY <1>1, <1>9 DEF timeout, Types
  <2>3. NothingLost'
    BY <1>1, <2>1, <2>2, LostOthers
  <2>4. Moved(1, 0)
    BY <1>1, <2>1, StillMoved
  <2>5. Resends(S)'
    BY <1>0, <1>1, <2>1, <2>4, ResendsKept
  <2> QED
    BY <2>1, <2>3, <2>5 DEF Inv
<1>10. CASE UNCHANGED vars
  <2>1. /\ UNCHANGED <<listeners, consumers, executors, running, copy, attempts, resent, holder>>
        /\ UNCHANGED <<failures, since, ok, missed>>
    BY <1>10 DEF vars, nsqd, history
  <2>2. Core' /\ NothingLost'
    <3>1. Types'
      BY <1>1, <2>1 DEF Types
    <3>2. Holders' /\ Published' /\ Covered' /\ NothingLost'
      BY <1>1, <2>1 DEF Core, Holders, Published, Covered, NothingLost, Group, Retry,
         Audience, Subscribed
    <3>3. Sent'
      BY <1>1, <2>1 DEF Core, Sent, Pend, Msg, Att, Group
    <3>4. Distinct'
      BY <1>1, <2>1 DEF Core, Distinct, Pend, Msg, Att, Group
    <3> QED
      BY <3>1, <3>2, <3>3, <3>4 DEF Core
  <2>3. Resends(S)'
    BY <1>0, <2>1 DEF Resends, Requeued, Allowed, Pend, Msg, Att, Group, Retry
  <2> QED
    BY <2>2, <2>3 DEF Inv
<1>11. ASSUME NEW k \in Ids, message(k) \/ excute(k)
       PROVE  Inv'
  BY <1>3, <1>4, <1>5, <1>6, <1>11, MessageSteps, ExcuteSteps
<1> QED
  BY <1>2, <1>7, <1>8, <1>9, <1>10, <1>11 DEF Next

(* The attempts requeued are as many as resent, so the latest of them is   *)
(* at least resent, and it was allowed                                     *)
LEMMA InvOk == Inv => DeliveryOk
<1> SUFFICES ASSUME Inv PROVE DeliveryOk
  OBVIOUS
<1>0. PICK S : Resends(S)
  BY DEF Inv
<1>1. Core /\ Types /\ Holders /\ NothingLost
  BY DEF Inv, Core
<1>2. ASSUME NEW g \in Groups, NEW m \in Messages
      PROVE  /\ attempts[g][m] \in Nat /\ attempts[g][m] <= MaxAttempts
             /\ resent[g][m] \in Nat /\ resent[g][m] <= attempts[g][m]
             /\ Requeued(S[g][m], g, m)
  <2>1. attempts[g][m] \in Nat /\ attempts[g][m] <= MaxAttempts
    BY <1>1, ConsumersAssumption DEF Types
  <2>2. Requeued(S[g][m], g, m)
    BY <1>0 DEF Resends
  <2>3. Cardinality(S[g][m]) \in Nat /\ Cardinality(S[g][m]) <= attempts[g][m]
    BY <2>1, <2>2, UpTo DEF Requeued
  <2> QED
    BY <2>1, <2>2, <2>3 DEF Requeued
<1>3. TypeOK
  <2>1. resent \in [Groups -> [Messages -> 0 .. MaxAttempts]]
    <3>1. \A g \in Groups, m \in Messages : resent[g][m] \in 0 .. MaxAttempts
      BY <1>2, ConsumersAssumption
    <3> QED
      BY <1>1, <3>1 DEF Types
  <2>2. \A g \in Groups, m \in Messages :
          copy[g][m] = "flight" <=> holder[g][m] # NULL /\ Group(holder[g][m]) = g
    BY <1>1 DEF Holders
  <2>3. \A k \in Ids : running[k] = NULL \/ running[k] \in Callbacks
    BY <1>1 DEF Types
  <2> QED
    BY <1>1, <2>1, <2>2, <2>3 DEF Types, TypeOK
<1>4. ASSUME NEW g \in Groups, NEW m \in Messages, resent[g][m] > 0
      PROVE  \E k \in DOMAIN consumers :
               Group(k) = g /\ (Retry(k) <= 0 \/ resent[g][m] <= Retry(k))
  <2>1. \E n \in S[g][m] : n >= resent[g][m]
    <3>1. SUFFICES ASSUME \A n \in S[g][m] : ~(n >= resent[g][m]) PROVE FALSE
      OBVIOUS
    <3>2. S[g][m] \subseteq 1 .. resent[g][m] - 1 /\ resent[g][m] - 1 \in Nat
      BY <1>2, <1>4, <3>1 DEF Requeued
    <3>3. Cardinality(S[g][m]) <= resent[g][m] - 1
      BY <3>2, UpTo
    <3> QED
      BY <1>2, <3>3 DEF Requeued
  <2>2. PICK n \in S[g][m] : n >= resent[g][m]
    BY <2>1
  <2>3. Allowed(g, n) /\ n \in Int
    BY <1>2 DEF Requeued
  <2>4. PICK k \in DOMAIN consumers : Group(k) = g /\ (Retry(k) <= 0 \/ n <= Retry(k))
    BY <2>3 DEF Allowed
  <2>5. Retry(k) \in Int
    BY <1>1, ConsumerTyped, ConsumersAssumption
  <2> QED
    BY <1>2, <2>2, <2>3, <2>4, <2>5
<1> QED
  BY <1>1, <1>3, <1>4 DEF DeliveryOk, ResendBound

(* Consumers.register and its callback: whatever listeners, timeouts and   *)
(* registrations do, a message is neither finished before the listeners it *)
(* was sent to have accepted it nor sent again more often than retry says. *)
THEOREM MessagesDelivered == Spec => []DeliveryOk
<1>1. Inv /\ [Next]_vars => Inv'
  BY InvNext
<1> QED
  BY <1>1, InvInit, InvOk, PTL DEF Spec

-----------------------------------------------------------------------------
(***************************************************************************)
(* CacheSync.  Coherent speaks of states in which nothing is under way, so *)
(* it is not inductive: Tracked says where the message about the last      *)
(* change is while an item that it makes outdated is still cached.         *)
(***************************************************************************)
(* The last change is about to be sent, was not sent, waits for the host,  *)
(* is handled by it or was given up, or its own remove() is not done yet   *)
OnItsWay(h) ==
  \/ \E x \in Hosts : writer[x] = "produce" /\ item[x] = writes
  \/ lost \/ h \in dropped
  \/ writes \in topic[h] /\ sender[writes] # h
  \/ sender[writes] = h /\ writer[h] = "remove"
  \/ consumer[h] # "idle" /\ current[h] = writes
  \/ callBack[h] /\ db = NoItem

Tracked == \A h \in Hosts : Stale(h) /\ h \notin late => OnItsWay(h)

(* A writer sends its own message; only the message of another host and a  *)
(* RemoveCallBack make the listener fetch the item, the message stays      *)
(* until it is handled, and for the last change it fetches the latest item *)
ThreadsInv == \A h \in Hosts :
  /\ writer[h] = "produce" => item[h] \in 1 .. writes /\ sender[item[h]] = h
  /\ consumer[h] # "idle" =>
       callBack[h] /\ current[h] \in topic[h] /\ sender[current[h]] # h
  /\ consumer[h] = "put" /\ current[h] = writes => fetched[h] = db

SyncInv == SyncTypeOK /\ ThreadsInv /\ Tracked

-----------------------------------------------------------------------------
LEMMA TypeInit == SyncInit => SyncTypeOK
<1> SUFFICES ASSUME SyncInit PROVE SyncTypeOK
  OBVIOUS
<1>1. callBack \in [Hosts -> BOOLEAN]
  BY Zenon DEF SyncInit
<1>2. /\ life \in [Hosts -> 0 .. Interval]
      /\ returns \in [Hosts -> [Writes -> Nat]]
      /\ db \in Values /\ writes \in 0 .. MaxWrites /\ faults \in 0 .. MaxFaults
  BY CacheSyncAssumption DEF SyncInit, Values
<1>3. /\ cache \in [Hosts -> Values \cup {NoItem}] /\ loaded \in [Hosts -> Values \cup {NoItem}]
      /\ item \in [Hosts -> Values \cup {NoItem}] /\ fetched \in [Hosts -> Values \cup {NoItem}]
      /\ current \in [Hosts -> Writes \cup {NoItem}] /\ sender \in [Writes -> Hosts \cup {NoItem}]
      /\ topic \in [Hosts -> SUBSET (1 .. writes)]
  BY DEF SyncInit
<1>4. lost \in BOOLEAN /\ dropped \subseteq Hosts /\ late \subseteq Hosts
  BY DEF SyncInit
<1>5. /\ reader \in [Hosts -> {"idle", "put"}]
      /\ writer \in [Hosts -> {"idle", "produce", "remove", "item", "back"}]
      /\ consumer \in [Hosts -> {"idle", "item", "put"}]
      /\ \A h \in Hosts : writer[h] # "produce" /\ topic[h] = {}
  BY DEF SyncInit
<1> QED
  BY <1>1, <1>2, <1>3, <1>4, <1>5 DEF SyncTypeOK

LEMMA InitInv == SyncInit => SyncInv
<1>1. SyncInit => ThreadsInv
  BY DEF SyncInit, ThreadsInv
<1>2. SyncInit => Tracked
  BY DEF SyncInit, Tracked, Stale
<1> QED
  BY <1>1, <1>2, TypeInit DEF SyncInv

(* A put leaves the host's item current, or marks it late                  *)
LEMMA PutTracked ==
  ASSUME NEW h \in Hosts, NEW v, cache \in [Hosts -> Values \cup {NoItem}], put(h, v),
         UNCHANGED db
  PROVE  /\ ~(Stale(h)' /\ h \notin late')
         /\ \A x \in Hosts \ {h} : cache'[x] = cache[x] /\ (x \in late' <=> x \in late)
BY DEF put, Stale

(* Whether a host has a RemoveCallBack is settled by its constructor       *)
LEMMA CallBackKept == [SyncNext]_syncVars => callBack' = callBack
<1>1. ASSUME NEW h \in Hosts,
             readThrough(h) \/ putLoaded(h) \/ age(h) \/ renew(h) \/ evict(h) \/ change(h)
      PROVE  callBack' = callBack
  BY <1>1, Zenon DEF readThrough, putLoaded, age, renew, evict, change, database
<1>2. ASSUME NEW h \in Hosts, Writer(h) PROVE callBack' = callBack
  BY <1>2, Zenon DEF Writer, produceDelete, remove, getItem, putBack, database
<1>3. ASSUME NEW h \in Hosts, Consumer(h) PROVE callBack' = callBack
  BY <1>3, Zenon DEF Consumer, excuteDelete, skip, fetch, overwrite, database
<1>4. UNCHANGED syncVars => callBack' = callBack
  BY Zenon DEF syncVars, database
<1> QED
  BY <1>1, <1>2, <1>3, <1>4, Zenon DEF SyncNext

LEMMA TypePreserved == SyncInv /\ [SyncNext]_syncVars => SyncTypeOK'
<1> SUFFICES ASSUME SyncInv, [SyncNext]_syncVars PROVE SyncTypeOK'
  OBVIOUS
<1>a. callBack' = callBack /\ callBack \in [Hosts -> BOOLEAN]
  BY CallBackKept, Zenon DEF SyncInv, SyncTypeOK
<1>b. callBack' \in [Hosts -> BOOLEAN]
  BY <1>a, Zenon
<1> USE CacheSyncAssumption DEF SyncInv, SyncTypeOK, Values, Writes
<1>0. CASE UNCHANGED syncVars
  BY <1>0, <1>b DEF syncVars, database, entries, readers, writers, consumerVars, topicVars
<1> SUFFICES ASSUME NEW h \in Hosts,
                    \/ readThrough(h) \/ putLoaded(h) \/ age(h) \/ renew(h) \/ evict(h) \/ change(h)
                    \/ produceDelete(h) \/ remove(h) \/ getItem(h) \/ putBack(h)
                    \/ (\E w \in Writes : excuteDelete(h, w) \/ skip(h, w)) \/ fetch(h) \/ overwrite(h)
             PROVE  SyncTypeOK'
  BY <1>0 DEF SyncNext, Writer, Consumer
<1>d. ASSUME NEW v \in Values \cup {NoItem}, put(h, v)
      PROVE  /\ cache' \in [Hosts -> Values \cup {NoItem}] /\ late' \subseteq Hosts
             /\ life' \in [Hosts -> 0 .. Interval]
  BY <1>d DEF put
<1>e. ASSUME NEW w \in Writes, UNCHANGED <<writes, sender>>,
             acknowledged(h, w) \/ sendAgain(h, w) \/ (Drop(h, w) /\ Fault)
      PROVE  /\ topic' \in [Hosts -> SUBSET (1 .. writes')]
             /\ \A x \in Hosts : \A y \in topic'[x] : sender'[y] \in Hosts
             /\ returns' \in [Hosts -> [Writes -> Nat]]
             /\ dropped' \subseteq Hosts /\ faults' \in 0 .. MaxFaults
  <2>1. /\ topic' = topic \/ topic' = [topic EXCEPT ![h] = @ \ {w}]
        /\ \/ returns' = [returns EXCEPT ![h][w] = 0]
           \/ returns' = [returns EXCEPT ![h][w] = @ + 1]
    BY <1>e DEF acknowledged, sendAgain, Drop, Finish, Again
  <2>2. /\ topic' \in [Hosts -> SUBSET (1 .. writes')]
        /\ \A x \in Hosts : topic'[x] \subseteq topic[x]
    <3>1. CASE topic' = topic
      BY <1>e, <3>1
    <3>2. CASE topic' = [topic EXCEPT ![h] = topic[h] \ {w}]
      <4>1. topic[h] \ {w} \in SUBSET (1 .. writes)
        OBVIOUS
      <4> QED
        BY <1>e, <3>2, <4>1
    <3> QED
      BY <2>1, <3>1, <3>2
  <2>3. returns' \in [Hosts -> [Writes -> Nat]]
    <3>1. returns[h] \in [Writes -> Nat]
      OBVIOUS
    <3>2. [returns[h] EXCEPT ![w] = 0] \in [Writes -> Nat]
      BY <3>1
    <3>3. [returns[h] EXCEPT ![w] = @ + 1] \in [Writes -> Nat]
      BY SMTT(30), <3>1
    <3> QED
      BY <2>1, <3>2, <3>3
  <2>4. dropped' \subseteq Hosts /\ faults' \in 0 .. MaxFaults
    BY <1>e DEF acknowledged, sendAgain, Drop, Fault
  <2> QED
    BY <1>e, <2>2, <2>3, <2>4
<1>1. CASE readThrough(h)
  <2>1. /\ cache' \in [Hosts -> Values \cup {NoItem}] /\ late' \subseteq Hosts
        /\ life' \in [Hosts -> 0 .. Interval]
    BY <1>1, <1>d DEF readThrough
  <2> QED
    BY <1>1, <1>b, <2>1 DEF readThrough, database, writers, consumerVars, topicVars
<1>2. CASE putLoaded(h)
  BY <1>2, <1>b, <1>d DEF putLoaded, database, writers, consumerVars, topicVars
<1>3. CASE age(h) \/ renew(h) \/ evict(h)
  <2>1. /\ cache' \in [Hosts -> Values \cup {NoItem}] /\ late' \subseteq Hosts
        /\ life' \in [Hosts -> 0 .. Interval]
    <3>1. CASE age(h)
      <4>1. life[h] \in 0 .. Interval /\ life[h] > 0
        BY <3>1 DEF age, isValid
      <4>2. life[h] - 1 \in 0 .. Interval
        BY <4>1
      <4> QED
        BY <3>1, <4>2 DEF age
    <3>2. CASE renew(h)
      BY <3>2 DEF renew
    <3>3. CASE evict(h)
      BY <1>d, <3>3 DEF evict
    <3> QED
      BY <1>3, <3>1, <3>2, <3>3
  <2>2. UNCHANGED <<database, readers, writers, consumerVars, topicVars, lost>>
    BY <1>3 DEF age, renew, evict
  <2> QED
    BY <1>b, <2>1, <2>2 DEF database, readers, writers, consumerVars, topicVars
<1>4. CASE change(h)
  <2>1. /\ writes' = writes + 1 /\ writes' \in Writes /\ db' \in Values \cup {NoItem}
        /\ sender' = [sender EXCEPT ![writes + 1] = h]
        /\ item' = [item EXCEPT ![h] = writes + 1]
    BY <1>4 DEF change
  <2>2. 1 .. writes \subseteq 1 .. writes' /\ writes + 1 \notin 1 .. writes
    BY <2>1
  <2>3. /\ sender' \in [Writes -> Hosts \cup {NoItem}]
        /\ \A x \in Hosts : \A w \in topic[x] : sender'[w] \in Hosts
    <3>1. sender' \in [Writes -> Hosts \cup {NoItem}]
      BY <2>1
    <3>2. ASSUME NEW x \in Hosts, NEW w \in topic[x] PROVE sender'[w] \in Hosts
      <4>1. w \in 1 .. writes /\ sender[w] \in Hosts
        BY <3>2
      <4>2. w \in Writes /\ w # writes + 1
        BY <4>1
      <4>3. sender'[w] = sender[w]
        BY <2>1, <4>2
      <4> QED
        BY <4>1, <4>3
    <3> QED
      BY <3>1, <3>2
  <2>4. /\ item' \in [Hosts -> Values \cup {NoItem}]
        /\ \A x \in Hosts : writer'[x] = "produce" => item'[x] \in Writes
    BY <1>4, <2>1 DEF change
  <2>5. topic' \in [Hosts -> SUBSET (1 .. writes')] /\ UNCHANGED topic
    BY <1>4, <2>2 DEF change
  <2>6. /\ UNCHANGED <<entries, readers, consumerVars, returns, faults>>
        /\ lost' \in BOOLEAN /\ dropped' \subseteq Hosts
        /\ writer' \in [Hosts -> {"idle", "produce", "remove", "item", "back"}]
    BY <1>4 DEF change
  <2> QED
    BY SMTT(30), <1>b, <2>1, <2>3, <2>4, <2>5, <2>6 DEF entries, readers, consumerVars
<1>5. CASE produceDelete(h)
  <2>1. item[h] \in 1 .. writes /\ sender[item[h]] = h
    BY <1>5 DEF produceDelete, ThreadsInv
  <2>2. /\ topic' \in [Hosts -> SUBSET (1 .. writes)]
        /\ \A x \in Hosts : \A w \in topic'[x] : sender[w] \in Hosts
    <3>1. UNCHANGED topic \/ topic' = [x \in Hosts |-> topic[x] \cup {item[h]}]
      BY <1>5, Zenon DEF produceDelete
    <3>2. ASSUME NEW x \in Hosts
          PROVE  /\ topic'[x] \in SUBSET (1 .. writes)
                 /\ \A w \in topic'[x] : sender[w] \in Hosts
      <4>1. topic'[x] = topic[x] \/ topic'[x] = topic[x] \cup {item[h]}
        BY <3>1
      <4>2. topic[x] \in SUBSET (1 .. writes) /\ \A w \in topic[x] : sender[w] \in Hosts
        OBVIOUS
      <4> QED
        BY <2>1, <4>1, <4>2
    <3>3. DOMAIN topic' = Hosts /\ topic' = [x \in Hosts |-> topic'[x]]
      BY <3>1
    <3> QED
      BY <3>2, <3>3
  <2>3. faults' \in 0 .. MaxFaults
    BY <1>5 DEF produceDelete, Fault
  <2>4. lost' \in BOOLEAN
    <3>1. UNCHANGED lost \/ lost' = (lost \/ item[h] = writes)
      BY <1>5 DEF produceDelete
    <3> QED
      BY <3>1, Zenon
  <2>5. /\ writer' \in [Hosts -> {"idle", "produce", "remove", "item", "back"}]
        /\ item' \in [Hosts -> Values \cup {NoItem}]
        /\ \A x \in Hosts : writer'[x] = "produce" => item'[x] \in Writes
        /\ UNCHANGED <<database, entries, readers, consumerVars, returns, dropped>>
    BY <1>5 DEF produceDelete
  <2> QED
    BY <1>b, <2>2, <2>3, <2>4, <2>5 DEF database, entries, readers, consumerVars
<1>6. CASE remove(h)
  <2>1. /\ cache' \in [Hosts -> Values \cup {NoItem}] /\ late' \subseteq Hosts
        /\ life' \in [Hosts -> 0 .. Interval]
    BY <1>6, <1>d DEF remove
  <2>2. writer' \in [Hosts -> {"idle", "produce", "remove", "item", "back"}]
    BY <1>6, Zenon DEF remove
  <2>3. \A x \in Hosts : writer'[x] = "produce" => writer[x] = "produce"
    BY <1>6 DEF remove
  <2> QED
    BY <1>6, <1>b, <2>1, <2>2, <2>3 DEF remove, database, readers, consumerVars, topicVars
<1>7. CASE getItem(h)
  <2>1. /\ writer' \in [Hosts -> {"idle", "produce", "remove", "item", "back"}]
        /\ item' \in [Hosts -> Values \cup {NoItem}]
        /\ \A x \in Hosts : writer'[x] = "produce" => item'[x] \in Writes
    <3>1. /\ UNCHANGED item \/ item' = [item EXCEPT ![h] = db]
          /\ \/ writer' = [writer EXCEPT ![h] = "back"]
             \/ writer' = [writer EXCEPT ![h] = "idle"]
      BY <1>7, Zenon DEF getItem
    <3>2. writer'[h] \in {"back", "idle"}
      BY <3>1
    <3>3. \A x \in Hosts \ {h} : writer'[x] = writer[x] /\ item'[x] = item[x]
      BY <3>1
    <3>4. item' \in [Hosts -> Values \cup {NoItem}]
      <4>1. db \in Values \cup {NoItem} /\ item \in [Hosts -> Values \cup {NoItem}]
        OBVIOUS
      <4>2. [item EXCEPT ![h] = db] \in [Hosts -> Values \cup {NoItem}]
        BY <4>1
      <4> QED
        BY <3>1, <4>1, <4>2
    <3>5. writer' \in [Hosts -> {"idle", "produce", "remove", "item", "back"}]
      BY <3>1
    <3> QED
      BY <3>2, <3>3, <3>4, <3>5
  <2> QED
    BY <1>7, <1>b, <2>1 DEF getItem, database, entries, readers, consumerVars, topicVars
<1>8. CASE putBack(h)
  <2>1. /\ cache' \in [Hosts -> Values \cup {NoItem}] /\ late' \subseteq Hosts
        /\ life' \in [Hosts -> 0 .. Interval]
    BY <1>8, <1>d DEF putBack
  <2>2. /\ writer' \in [Hosts -> {"idle", "produce", "remove", "item", "back"}]
        /\ item' \in [Hosts -> Values \cup {NoItem}]
        /\ \A x \in Hosts : writer'[x] = "produce" => item'[x] \in Writes
    BY <1>8 DEF putBack
  <2> QED
    BY <1>8, <1>b, <2>1, <2>2 DEF putBack, database, readers, consumerVars, topicVars
<1>9. ASSUME NEW w \in Writes, excuteDelete(h, w) PROVE SyncTypeOK'
  <2>1. /\ topic' \in [Hosts -> SUBSET (1 .. writes')]
        /\ \A x \in Hosts : \A y \in topic'[x] : sender'[y] \in Hosts
        /\ returns' \in [Hosts -> [Writes -> Nat]]
        /\ dropped' \subseteq Hosts /\ faults' \in 0 .. MaxFaults
    <3>1. UNCHANGED <<writes, sender>>
      BY <1>9 DEF excuteDelete, database
    <3>2. acknowledged(h, w) \/ UNCHANGED topicVars
      BY <1>9 DEF excuteDelete
    <3> QED
      BY <1>e, <3>1, <3>2 DEF topicVars
  <2>2. /\ cache' \in [Hosts -> Values \cup {NoItem}] /\ late' \subseteq Hosts
        /\ life' \in [Hosts -> 0 .. Interval]
    <3>1. put(h, NoItem) \/ UNCHANGED <<cache, life, late>>
      BY <1>9 DEF excuteDelete, entries
    <3> QED
      BY <1>d, <3>1
  <2>3. /\ consumer' \in [Hosts -> {"idle", "item", "put"}]
        /\ current' \in [Hosts -> Writes \cup {NoItem}]
    <3>1. \/ UNCHANGED <<consumer, current>>
          \/ /\ consumer' = [consumer EXCEPT ![h] = "item"]
             /\ current' = [current EXCEPT ![h] = w]
      BY <1>9, Zenon DEF excuteDelete
    <3>2. [consumer EXCEPT ![h] = "item"] \in [Hosts -> {"idle", "item", "put"}]
      OBVIOUS
    <3>3. [current EXCEPT ![h] = w] \in [Hosts -> Writes \cup {NoItem}]
      OBVIOUS
    <3> QED
      BY <3>1, <3>2, <3>3
  <2> QED
    BY <1>9, <1>b, <2>1, <2>2, <2>3 DEF excuteDelete, database, readers, writers
<1>10. CASE fetch(h)
  <2>1. current[h] \in Writes
    BY <1>10 DEF fetch, ThreadsInv
  <2>2. /\ topic' \in [Hosts -> SUBSET (1 .. writes')]
        /\ \A x \in Hosts : \A y \in topic'[x] : sender'[y] \in Hosts
        /\ returns' \in [Hosts -> [Writes -> Nat]]
        /\ dropped' \subseteq Hosts /\ faults' \in 0 .. MaxFaults
    <3>1. UNCHANGED <<writes, sender>>
      BY <1>10 DEF fetch, database
    <3>2. sendAgain(h, current[h]) \/ UNCHANGED topicVars
      BY <1>10 DEF fetch
    <3> QED
      BY <1>e, <2>1, <3>1, <3>2 DEF topicVars
  <2>3. /\ consumer' \in [Hosts -> {"idle", "item", "put"}]
        /\ fetched' \in [Hosts -> Values \cup {NoItem}]
        /\ current' \in [Hosts -> Writes \cup {NoItem}]
    <3>1. /\ UNCHANGED fetched \/ fetched' = [fetched EXCEPT ![h] = db]
          /\ UNCHANGED current \/ current' = [current EXCEPT ![h] = NoItem]
          /\ \/ consumer' = [consumer EXCEPT ![h] = "put"]
             \/ consumer' = [consumer EXCEPT ![h] = "idle"]
      BY <1>10, Zenon DEF fetch
    <3>2. consumer' \in [Hosts -> {"idle", "item", "put"}]
      BY <3>1
    <3>3. fetched' \in [Hosts -> Values \cup {NoItem}]
      <4>1. db \in Values \cup {NoItem} /\ fetched \in [Hosts -> Values \cup {NoItem}]
        OBVIOUS
      <4>2. [fetched EXCEPT ![h] = db] \in [Hosts -> Values \cup {NoItem}]
        BY <4>1
      <4> QED
        BY <3>1, <4>1, <4>2
    <3>4. current' \in [Hosts -> Writes \cup {NoItem}]
      BY <3>1
    <3> QED
      BY <3>2, <3>3, <3>4
  <2> QED
    BY <1>10, <1>b, <2>2, <2>3 DEF fetch, database, entries, readers, writers
<1>11. CASE overwrite(h)
  <2>a. consumer[h] # "idle"
    BY <1>11 DEF overwrite
  <2>b. current[h] \in topic[h] /\ topic[h] \subseteq 1 .. writes
    BY <2>a DEF ThreadsInv
  <2>c. 1 .. writes \subseteq Writes
    OBVIOUS
  <2>1. current[h] \in Writes
    BY <2>b, <2>c
  <2>2. /\ topic' \in [Hosts -> SUBSET (1 .. writes')]
        /\ \A x \in Hosts : \A y \in topic'[x] : sender'[y] \in Hosts
        /\ returns' \in [Hosts -> [Writes -> Nat]]
        /\ dropped' \subseteq Hosts /\ faults' \in 0 .. MaxFaults
    BY <1>11, <1>e, <2>1 DEF overwrite, database
  <2>3. /\ cache' \in [Hosts -> Values \cup {NoItem}] /\ late' \subseteq Hosts
        /\ life' \in [Hosts -> 0 .. Interval]
    BY <1>11, <1>d DEF overwrite, entries
  <2> QED
    BY <1>11, <1>b, <2>2, <2>3 DEF overwrite, database, readers, writers
<1>12. ASSUME NEW w \in Writes, skip(h, w) PROVE SyncTypeOK'
  <2>1. /\ topic' \in [Hosts -> SUBSET (1 .. writes')]
        /\ \A x \in Hosts : \A y \in topic'[x] : sender'[y] \in Hosts
        /\ returns' \in [Hosts -> [Writes -> Nat]]
        /\ dropped' \subseteq Hosts /\ faults' \in 0 .. MaxFaults
    BY <1>12, <1>e DEF skip, database
  <2> QED
    BY <1>12, <1>b, <2>1 DEF skip, database, entries, readers, writers, consumerVars
<1> QED
  BY <1>1, <1>2, <1>3, <1>4, <1>5, <1>6, <1>7, <1>8, <1>9, <1>10, <1>11, <1>12

LEMMA ThreadsPreserved == SyncInv /\ [SyncNext]_syncVars => ThreadsInv'
<1> SUFFICES ASSUME SyncInv, [SyncNext]_syncVars PROVE ThreadsInv'
  OBVIOUS
<1>a. callBack' = callBack
  BY CallBackKept
<1>0. CASE UNCHANGED syncVars
  BY <1>0 DEF syncVars, database, topicVars, writers, consumerVars, SyncInv, ThreadsInv
<1> SUFFICES ASSUME NEW h \in Hosts,
                    \/ readThrough(h) \/ putLoaded(h) \/ age(h) \/ renew(h) \/ evict(h) \/ change(h)
                    \/ produceDelete(h) \/ remove(h) \/ getItem(h) \/ putBack(h)
                    \/ (\E w \in Writes : excuteDelete(h, w) \/ skip(h, w)) \/ fetch(h) \/ overwrite(h)
             PROVE  ThreadsInv'
  BY <1>0 DEF SyncNext, Writer, Consumer
<1>b. /\ writer \in [Hosts -> {"idle", "produce", "remove", "item", "back"}]
      /\ consumer \in [Hosts -> {"idle", "item", "put"}]
      /\ item \in [Hosts -> Values \cup {NoItem}] /\ current \in [Hosts -> Writes \cup {NoItem}]
      /\ fetched \in [Hosts -> Values \cup {NoItem}]
      /\ sender \in [Writes -> Hosts \cup {NoItem}] /\ writes \in 0 .. MaxWrites
      /\ topic \in [Hosts -> SUBSET (1 .. writes)] /\ MaxWrites \in Nat
      /\ ThreadsInv
  BY CacheSyncAssumption DEF SyncInv, SyncTypeOK
<1>1. CASE readThrough(h) \/ putLoaded(h) \/ age(h) \/ renew(h) \/ evict(h)
  <2>1. UNCHANGED <<database, writers, consumerVars, topicVars>>
    BY <1>1 DEF readThrough, putLoaded, age, renew, evict
  <2> QED
    BY <1>b, <2>1 DEF database, writers, consumerVars, topicVars, ThreadsInv
<1>2. CASE change(h)
  <2>1. /\ writes' = writes + 1 /\ sender' = [sender EXCEPT ![writes + 1] = h]
        /\ item' = [item EXCEPT ![h] = writes + 1]
        /\ writer' = [writer EXCEPT ![h] = "produce"]
        /\ UNCHANGED <<callBack, consumer, current, topic>>
        /\ writes + 1 \in Writes /\ writes' \notin 1 .. writes
    BY <1>2, <1>b DEF change, consumerVars, Writes
  <2>2. \A w \in 1 .. writes : w \in 1 .. writes' /\ sender'[w] = sender[w]
    BY <1>b, <2>1 DEF Writes
  <2>3. writes' \in 1 .. writes' /\ sender'[writes'] = h
    BY <1>b, <2>1
  <2>4. \A x \in Hosts \ {h} : writer'[x] = writer[x] /\ item'[x] = item[x]
    BY <1>b, <2>1
  <2>5. item'[h] = writes'
    BY <1>b, <2>1
  <2>6. ASSUME NEW x \in Hosts, consumer'[x] # "idle"
        PROVE  /\ callBack[x] /\ current'[x] \in topic'[x] /\ sender'[current'[x]] # x
               /\ current'[x] # writes'
    <3>1. /\ callBack[x] /\ current[x] \in topic[x] /\ sender[current[x]] # x
          /\ current[x] \in 1 .. writes
      BY <1>b, <2>1, <2>6 DEF ThreadsInv
    <3> QED
      BY <2>1, <2>2, <3>1
  <2> QED
    BY <1>a, <1>b, <2>1, <2>2, <2>3, <2>4, <2>5, <2>6 DEF ThreadsInv
<1>3. CASE produceDelete(h) \/ remove(h) \/ getItem(h) \/ putBack(h)
  <2>1. /\ \A x \in Hosts \ {h} : writer'[x] = writer[x] /\ item'[x] = item[x]
        /\ writer'[h] # "produce"
        /\ UNCHANGED <<callBack, consumer, current, fetched, db, sender, writes>>
    BY <1>3, <1>b DEF produceDelete, remove, getItem, putBack, database, consumerVars
  <2>2. \A x \in Hosts : topic[x] \subseteq topic'[x]
    BY <1>3, <1>b DEF produceDelete, remove, getItem, putBack, topicVars
  <2> QED
    BY <1>b, <2>1, <2>2 DEF ThreadsInv
<1>4. ASSUME NEW w \in Writes, excuteDelete(h, w) \/ skip(h, w) PROVE ThreadsInv'
  <2>1. /\ UNCHANGED <<writer, item, sender, writes, fetched, db>>
        /\ w \in topic[h] /\ w \in 1 .. writes /\ consumer[h] = "idle"
    BY <1>4, <1>b DEF excuteDelete, skip, database, writers, consumerVars
  <2>2. \/ UNCHANGED <<consumer, current>>
        \/ /\ consumer' = [consumer EXCEPT ![h] = "item"]
           /\ current' = [current EXCEPT ![h] = w]
           /\ callBack[h] /\ sender[w] # h /\ UNCHANGED topic
    BY <1>4, Zenon DEF excuteDelete, skip, isOwn, topicVars, consumerVars
  <2>3. \A x \in Hosts \ {h} : topic'[x] = topic[x]
    BY <1>4, <1>b DEF excuteDelete, skip, acknowledged, Again, Drop, Finish, topicVars
  <2>4. ASSUME NEW x \in Hosts, consumer'[x] # "idle"
        PROVE  /\ callBack[x] /\ current'[x] \in topic'[x] /\ sender[current'[x]] # x
               /\ consumer'[x] = "put" /\ current'[x] = writes => fetched[x] = db
    <3>1. CASE x = h
      BY <1>b, <2>1, <2>2, <2>4, <3>1 DEF ThreadsInv
    <3>2. CASE x # h
      <4>1. consumer'[x] = consumer[x] /\ current'[x] = current[x] /\ topic'[x] = topic[x]
        BY <1>b, <2>2, <2>3, <3>2
      <4> QED
        BY <1>b, <2>4, <4>1 DEF ThreadsInv
    <3> QED
      BY <3>1, <3>2
  <2> QED
    BY <1>a, <1>b, <2>1, <2>4 DEF ThreadsInv
<1>5. CASE fetch(h) \/ overwrite(h)
  <2>1. UNCHANGED <<writer, item, sender, writes, db>>
    BY <1>5 DEF fetch, overwrite, database, writers
  <2>2. ASSUME NEW x \in Hosts, consumer'[x] # "idle"
        PROVE  /\ consumer[x] # "idle" /\ current'[x] = current[x] /\ topic'[x] = topic[x]
               /\ fetched'[x] = db \/ (consumer'[x] = consumer[x] /\ fetched'[x] = fetched[x])
    <3>1. CASE x = h
      <4>1. /\ fetch(h) /\ consumer[h] = "item"
            /\ fetched' = [fetched EXCEPT ![h] = db] /\ UNCHANGED <<current, topic>>
        BY <1>5, <1>b, <2>2, <3>1 DEF fetch, overwrite, topicVars
      <4> QED
        BY <1>b, <3>1, <4>1
    <3>2. CASE x # h
      <4>1. /\ \/ UNCHANGED topic
               \/ topic' = [topic EXCEPT ![h] = @ \ {current[h]}]
            /\ \/ consumer' = [consumer EXCEPT ![h] = "put"]
               \/ consumer' = [consumer EXCEPT ![h] = "idle"]
            /\ UNCHANGED fetched \/ fetched' = [fetched EXCEPT ![h] = db]
                 \/ fetched' = [fetched EXCEPT ![h] = NoItem]
            /\ UNCHANGED current \/ current' = [current EXCEPT ![h] = NoItem]
        BY <1>5 DEF fetch, overwrite, acknowledged, sendAgain, Again, Drop, Finish, topicVars
      <4> QED
        BY <1>b, <2>2, <3>2, <4>1
    <3> QED
      BY <3>1, <3>2
  <2> QED
    BY <1>a, <1>b, <2>1, <2>2 DEF ThreadsInv
<1> QED
  BY <1>1, <1>2, <1>3, <1>4, <1>5

LEMMA TrackedPreserved == SyncInv /\ [SyncNext]_syncVars => Tracked'
<1> SUFFICES ASSUME SyncInv, [SyncNext]_syncVars PROVE Tracked'
  OBVIOUS
<1>a. callBack' = callBack
  BY CallBackKept
<1>0. CASE UNCHANGED syncVars
  BY <1>0 DEF syncVars, database, entries, topicVars, writers, consumerVars, SyncInv, Tracked,
     Stale, OnItsWay
<1> SUFFICES ASSUME NEW h \in Hosts,
                    \/ readThrough(h) \/ putLoaded(h) \/ age(h) \/ renew(h) \/ evict(h) \/ change(h)
                    \/ produceDelete(h) \/ remove(h) \/ getItem(h) \/ putBack(h)
                    \/ (\E w \in Writes : excuteDelete(h, w) \/ skip(h, w)) \/ fetch(h) \/ overwrite(h)
             PROVE  Tracked'
  BY <1>0 DEF SyncNext, Writer, Consumer
<1>b. /\ writer \in [Hosts -> {"idle", "produce", "remove", "item", "back"}]
      /\ consumer \in [Hosts -> {"idle", "item", "put"}]
      /\ item \in [Hosts -> Values \cup {NoItem}] /\ current \in [Hosts -> Writes \cup {NoItem}]
      /\ fetched \in [Hosts -> Values \cup {NoItem}] /\ cache \in [Hosts -> Values \cup {NoItem}]
      /\ sender \in [Writes -> Hosts \cup {NoItem}] /\ writes \in 0 .. MaxWrites
      /\ topic \in [Hosts -> SUBSET (1 .. writes)] /\ MaxWrites \in Nat
      /\ ThreadsInv
  BY CacheSyncAssumption DEF SyncInv, SyncTypeOK
<1> SUFFICES ASSUME NEW x \in Hosts, Stale(x)', x \notin late' PROVE OnItsWay(x)'
  BY DEF Tracked
<1>c. ASSUME UNCHANGED <<cache, late, db>> PROVE OnItsWay(x)
  BY <1>c DEF SyncInv, Tracked, Stale
<1>d. ASSUME NEW v, put(h, v), UNCHANGED db PROVE x # h /\ OnItsWay(x)
  <2>1. x # h /\ cache'[x] = cache[x] /\ x \notin late
    BY <1>b, <1>d, PutTracked
  <2> QED
    BY <1>d, <2>1 DEF SyncInv, Tracked, Stale
<1>1. CASE readThrough(h)
  <2>1. x # h /\ OnItsWay(x)
    BY <1>1, <1>d DEF readThrough, database
  <2> QED
    BY <1>1, <2>1 DEF readThrough, database, writers, consumerVars, topicVars, OnItsWay
<1>2. CASE putLoaded(h)
  <2>1. x # h /\ OnItsWay(x)
    BY <1>2, <1>d DEF putLoaded, database
  <2> QED
    BY <1>2, <2>1 DEF putLoaded, database, writers, consumerVars, topicVars, OnItsWay
<1>3. CASE age(h) \/ renew(h) \/ evict(h)
  <2>1. OnItsWay(x)
    <3>1. UNCHANGED <<cache, late, db>> \/ (put(h, NoItem) /\ UNCHANGED db)
      BY <1>3 DEF age, renew, evict, database
    <3> QED
      BY <1>c, <1>d, <3>1
  <2>2. UNCHANGED <<database, writers, consumerVars, topicVars, lost>>
    BY <1>3 DEF age, renew, evict
  <2> QED
    BY <2>1, <2>2 DEF database, writers, consumerVars, topicVars, OnItsWay
<1>4. CASE change(h)
  <2>1. writer'[h] = "produce" /\ item'[h] = writes'
    BY <1>4, <1>b DEF change
  <2> QED
    BY <2>1 DEF OnItsWay
<1>5. CASE produceDelete(h)
  <2>1. /\ OnItsWay(x)
        /\ UNCHANGED <<db, writes, callBack, sender, consumer, current, fetched>>
    BY <1>5, <1>c DEF produceDelete, database, entries, consumerVars
  <2>2. /\ \A y \in Hosts : topic[y] \subseteq topic'[y]
        /\ dropped' = dropped /\ (lost => lost')
        /\ item[h] = writes => lost' \/ writes \in topic'[x]
    <3>1. CASE UNCHANGED lost /\ topic' = [y \in Hosts |-> topic[y] \cup {item[h]}]
      BY <1>5, <1>b, <3>1 DEF produceDelete
    <3>2. CASE UNCHANGED topic /\ lost' = (lost \/ item[h] = writes)
      <4>1. (lost => lost') /\ (item[h] = writes => lost') /\ dropped' = dropped
        BY <1>5, <3>2, Zenon DEF produceDelete
      <4> QED
        BY <3>2, <4>1
    <3> QED
      BY <1>5, <3>1, <3>2, Zenon DEF produceDelete
  <2>3. writer'[h] = "remove" /\ sender[item[h]] = h
    BY <1>5, <1>b DEF produceDelete, ThreadsInv
  <2>4. \A y \in Hosts \ {h} : writer'[y] = writer[y] /\ item'[y] = item[y]
    BY <1>5, <1>b DEF produceDelete
  <2>5. CASE item[h] = writes
    <3>1. lost' \/ writes \in topic'[x]
      BY <2>2, <2>5
    <3> QED
      BY <2>1, <2>3, <2>5, <3>1 DEF OnItsWay
  <2>6. CASE item[h] # writes
    <3>1. writer[h] = "produce"
      BY <1>5 DEF produceDelete
    <3> QED
      BY <2>1, <2>2, <2>4, <2>6, <3>1 DEF OnItsWay
  <2> QED
    BY <2>5, <2>6
<1>6. CASE remove(h)
  <2>1. x # h /\ OnItsWay(x)
    BY <1>6, <1>d DEF remove, database
  <2>2. /\ \A y \in Hosts \ {h} : writer'[y] = writer[y]
        /\ writer[h] # "produce"
        /\ UNCHANGED <<item, database, topicVars, lost, consumerVars>>
    BY <1>6, <1>b DEF remove
  <2> QED
    BY <2>1, <2>2 DEF OnItsWay, database, topicVars, consumerVars
<1>7. CASE getItem(h)
  <2>1. OnItsWay(x) /\ writer[h] = "item"
    BY <1>7, <1>c DEF getItem, database, entries
  <2>2. /\ \A y \in Hosts \ {h} : writer'[y] = writer[y] /\ item'[y] = item[y]
        /\ UNCHANGED <<database, topicVars, lost, consumerVars>>
    BY <1>7, <1>b DEF getItem
  <2> QED
    BY <2>1, <2>2 DEF OnItsWay, database, topicVars, consumerVars
<1>8. CASE putBack(h)
  <2>1. x # h /\ OnItsWay(x) /\ writer[h] = "back"
    BY <1>8, <1>d DEF putBack, database
  <2>2. /\ \A y \in Hosts \ {h} : writer'[y] = writer[y] /\ item'[y] = item[y]
        /\ UNCHANGED <<database, topicVars, lost, consumerVars>>
    BY <1>8, <1>b DEF putBack
  <2> QED
    BY <2>1, <2>2 DEF OnItsWay, database, topicVars, consumerVars
<1>9. ASSUME NEW w \in Writes, excuteDelete(h, w) PROVE OnItsWay(x)'
  <2>1. /\ UNCHANGED <<db, writes, callBack, sender, lost, writer, item, fetched, dropped>>
        /\ consumer[h] = "idle" /\ w \in topic[h]
    BY <1>9 DEF excuteDelete, database, writers, acknowledged, topicVars
  <2>2. \A y \in Hosts \ {h} : topic'[y] = topic[y] /\ consumer'[y] = consumer[y]
                               /\ current'[y] = current[y]
    BY <1>9, <1>b DEF excuteDelete, acknowledged, Again, Finish, topicVars
  <2>3. OnItsWay(x)
    <3>1. UNCHANGED <<cache, late>> \/ put(h, NoItem)
      BY <1>9, Zenon DEF excuteDelete, entries
    <3> QED
      BY <1>c, <1>d, <2>1, <3>1
  <2>4. CASE x # h
    BY <2>1, <2>2, <2>3, <2>4 DEF OnItsWay
  <2>5. CASE x = h
    <3>1. ~put(h, NoItem)
      BY <1>d, <2>1, <2>5
    <3>2. CASE isOwn(h, w) /\ acknowledged(h, w) /\ UNCHANGED <<consumer, current>>
      <4>1. \A y \in topic[h] : y \in topic'[h] \/ y = w
        BY <1>b, <3>2 DEF acknowledged, Again, Finish
      <4> QED
        BY <2>1, <2>3, <2>5, <3>2, <4>1 DEF OnItsWay, isOwn
    <3>3. CASE /\ consumer' = [consumer EXCEPT ![h] = "item"]
               /\ current' = [current EXCEPT ![h] = w]
               /\ UNCHANGED topicVars
      BY <1>b, <2>1, <2>3, <2>5, <3>3 DEF OnItsWay, topicVars
    <3> QED
      BY <1>9, <3>1, <3>2, <3>3, Zenon DEF excuteDelete
  <2> QED
    BY <2>4, <2>5
<1>10. CASE fetch(h)
  <2>1. /\ OnItsWay(x)
        /\ UNCHANGED <<db, writes, callBack, sender, lost, writer, item>>
        /\ consumer[h] = "item"
        /\ callBack[h] /\ current[h] \in topic[h] /\ sender[current[h]] # h
    BY <1>10, <1>b, <1>c DEF fetch, database, entries, writers, ThreadsInv
  <2>2. CASE fetched' = [fetched EXCEPT ![h] = db] /\ UNCHANGED <<current, topicVars>>
             /\ consumer' = [consumer EXCEPT ![h] = "put"]
    BY <1>b, <2>1, <2>2 DEF OnItsWay, topicVars
  <2>3. CASE /\ sendAgain(h, current[h]) /\ UNCHANGED fetched
             /\ consumer' = [consumer EXCEPT ![h] = "idle"]
             /\ current' = [current EXCEPT ![h] = NoItem]
    <3>1. /\ dropped \subseteq dropped'
          /\ \A y \in Hosts \ {h} : /\ topic'[y] = topic[y]
                                    /\ consumer'[y] = consumer[y] /\ current'[y] = current[y]
      BY <1>b, <2>3 DEF sendAgain, Again, Drop, Finish
    <3>2. CASE x # h
      BY <2>1, <3>1, <3>2 DEF OnItsWay
    <3>3. CASE x = h
      <4>1. CASE Again(h, current[h])
        BY <2>1, <3>1, <3>3, <4>1 DEF OnItsWay, Again
      <4>2. CASE Drop(h, current[h])
        <5>1. /\ \A y \in topic[h] : y \in topic'[h] \/ y = current[h]
              /\ current[h] = writes => h \in dropped'
          BY <1>b, <4>2 DEF Drop, Finish
        <5> QED
          BY <2>1, <3>1, <3>3, <5>1 DEF OnItsWay
      <4> QED
        BY <2>3, <4>1, <4>2 DEF sendAgain
    <3> QED
      BY <3>2, <3>3
  <2> QED
    BY <1>10, <2>2, <2>3 DEF fetch
<1>11. CASE overwrite(h)
  <2>1. /\ UNCHANGED <<db, writes, callBack, sender, lost, writer, item, dropped>>
        /\ consumer[h] = "put" /\ acknowledged(h, current[h]) /\ callBack[h]
    BY <1>11, <1>b DEF overwrite, acknowledged, database, writers, ThreadsInv
  <2>2. \A y \in Hosts \ {h} : /\ topic'[y] = topic[y] /\ consumer'[y] = consumer[y]
                               /\ current'[y] = current[y] /\ fetched'[y] = fetched[y]
    BY <1>11, <1>b DEF overwrite, acknowledged, Again, Finish
  <2>3. CASE fetched[h] # NoItem /\ put(h, fetched[h])
    <3>1. x # h /\ OnItsWay(x)
      BY <1>d, <2>1, <2>3
    <3> QED
      BY <2>1, <2>2, <3>1 DEF OnItsWay
  <2>4. CASE fetched[h] = NoItem /\ UNCHANGED <<cache, late>>
    <3>1. OnItsWay(x)
      BY <1>c, <2>1, <2>4
    <3>2. \A y \in topic[h] : y \in topic'[h] \/ y = current[h]
      BY <1>b, <2>1 DEF acknowledged, Again, Finish
    <3>3. CASE x = h
      <4>1. current[h] = writes => callBack[h] /\ db = NoItem
        BY <1>b, <2>1, <2>4 DEF ThreadsInv
      <4> QED
        BY <2>1, <3>1, <3>2, <3>3, <4>1 DEF OnItsWay
    <3>4. CASE x # h
      BY <2>1, <2>2, <3>1, <3>4 DEF OnItsWay
    <3> QED
      BY <3>3, <3>4
  <2> QED
    BY <1>11, <2>3, <2>4 DEF overwrite, entries
<1>12. ASSUME NEW w \in Writes, skip(h, w) PROVE OnItsWay(x)'
  <2>1. /\ OnItsWay(x)
        /\ UNCHANGED <<db, writes, callBack, sender, lost, writer, item, fetched, consumer, current>>
        /\ Drop(h, w)
    BY <1>12, <1>c DEF skip, database, entries, writers, consumerVars
  <2>2. /\ dropped \subseteq dropped' /\ (w = writes => h \in dropped')
        /\ \A y \in topic[h] : y \in topic'[h] \/ y = w
        /\ \A y \in Hosts \ {h} : topic'[y] = topic[y]
    BY <1>b, <2>1 DEF Drop, Finish
  <2> QED
    BY <2>1, <2>2 DEF OnItsWay
<1> QED
  BY <1>1, <1>2, <1>3, <1>4, <1>5, <1>6, <1>7, <1>8, <1>9, <1>10, <1>11, <1>12

-----------------------------------------------------------------------------
LEMMA InvHolds == SyncSpec => []SyncInv
<1>1. SyncInv /\ [SyncNext]_syncVars => SyncInv'
  BY TypePreserved, ThreadsPreserved, TrackedPreserved DEF SyncInv
<1> QED
  BY <1>1, InitInv, PTL DEF SyncSpec

(* For any number of hosts, changes and faults: an outdated item has one   *)
(* of the causes Coherent names, and every message of the topic names the  *)
(* host that sent it.                                                      *)
THEOREM CachesAgree == SyncSpec => []CachesOk
<1>1. SyncInv => Coherent
  BY DEF SyncInv, Tracked, OnItsWay, Coherent, Busy
<1>2. SyncInv => CachesOk
  BY <1>1 DEF SyncInv, CachesOk
<1> QED
  BY <1>2, InvHolds, PTL

=============================================================================
