----------------------------- MODULE Consumers ------------------------------
(***************************************************************************)
(* com.nsq.Consumers (and com.smc.notify.SmcNSQConsumer, the same code as  *)
(* an object), for one topic: register() adds a listener and starts one    *)
(* more NSQConsumer on the group's channel; each NSQConsumer runs its      *)
(* message callback in its own single-threaded executor, and the callback  *)
(* runs every listener of the topic.                                       *)
(*                                                                         *)
(* nsqd, external: a channel per group holds a copy of each message, sends *)
(* it to one of the consumers of the channel, counts its attempts, and     *)
(* sends it again after REQ or when nothing has come within its timeout.   *)
(***************************************************************************)
EXTENDS Integers, Sequences, FiniteSets

CONSTANTS
  Groups, Listeners, Messages,
  Queues,            \* the groups of registerQuene and register; the others are those of
                     \* registerTopic: one per process, and every listener subscribes
  Retries,           \* the values given for retry
  NULL,
  MaxConsumers,      \* bound: calls of register()
  MaxFailures,       \* bound: failing listeners and slow callbacks
  MaxAttempts        \* bound: how often a copy is sent

Ids == 1 .. MaxConsumers

ASSUME ConsumersAssumption ==
  /\ Queues \subseteq Groups
  /\ Retries \subseteq Int
  /\ {MaxConsumers, MaxFailures, MaxAttempts} \subseteq Nat
  /\ NULL \notin Ids

VARIABLES
  listeners,   \* LISTENER_LIST.get(topic)
  consumers,   \* the NSQConsumers started, in order: group, retry, and who registered
  executors,   \* per consumer: messages waiting in its executor
  running,     \* per consumer: the callback under way, or NULL
  copy,        \* nsqd: the copy of a message in a group's channel
  attempts,    \* nsqd: how often it has been sent
  resent,      \* nsqd: how often it has been sent again because of REQ
  holder,      \* nsqd: the consumer it is in flight to, or NULL
  failures,
  since,       \* history: the members the groups had when it was published
  ok,          \* history: the listeners that returned true for the copy
  missed       \* history: copies finished by a callback that found no listeners

nsqd == <<copy, attempts, resent, holder>>
history == <<since, ok, missed>>
vars == <<listeners, consumers, executors, running, nsqd, failures, history>>

(* A callback iterates over the set of listeners it has found              *)
Callbacks == [msg : Messages, attempts : Nat, found : SUBSET Listeners, todo : SUBSET Listeners]
Members == {<<consumers[i].group, consumers[i].listener>> : i \in DOMAIN consumers}
Channels == {consumers[i].group : i \in DOMAIN consumers}

Init ==
  /\ listeners = {} /\ consumers = <<>>
  /\ executors = [k \in Ids |-> <<>>]
  /\ running = [k \in Ids |-> NULL]
  /\ copy = [g \in Groups |-> [m \in Messages |-> "none"]]
  /\ attempts = [g \in Groups |-> [m \in Messages |-> 0]]
  /\ resent = [g \in Groups |-> [m \in Messages |-> 0]]
  /\ holder = [g \in Groups |-> [m \in Messages |-> NULL]]
  /\ failures = 0
  /\ since = [m \in Messages |-> {}]
  /\ ok = [g \in Groups |-> [m \in Messages |-> {}]]
  /\ missed = {}

Group(k) == consumers[k].group
Retry(k) == consumers[k].retry

-----------------------------------------------------------------------------
(* register: CONSUMER_LIST.contains(topic) looks for a value, so each call *)
(* starts a consumer.                                                      *)
register(g, l, r) ==
  /\ Len(consumers) < MaxConsumers
  /\ listeners' = listeners \cup {l}
  /\ consumers' = Append(consumers, [group |-> g, retry |-> r, listener |-> l])
  /\ UNCHANGED <<executors, running, nsqd, failures, history>>

(* FIN and REQ, which nsqd refuses when the message is not in flight to    *)
(* the consumer any more                                                   *)
Held(k, m) == holder[Group(k)][m] = k
Release(k, m) == holder' = [holder EXCEPT ![Group(k)][m] = NULL]

finished(k, m) ==
  \/ /\ Held(k, m) /\ Release(k, m)
     /\ copy' = [copy EXCEPT ![Group(k)][m] = "done"]
     /\ UNCHANGED <<attempts, resent>>
  \/ ~Held(k, m) /\ UNCHANGED nsqd

requeue(k, m) ==
  \/ /\ Held(k, m) /\ Release(k, m)
     /\ copy' = [copy EXCEPT ![Group(k)][m] = "queued"]
     /\ resent' = [resent EXCEPT ![Group(k)][m] = @ + 1]
     /\ UNCHANGED attempts
  \/ ~Held(k, m) /\ UNCHANGED nsqd

(* The callback begins.  The unsynchronized HashMap may give null while    *)
(* another topic's put resizes it.                                         *)
message(k) ==
  /\ running[k] = NULL /\ executors[k] # <<>>
  /\ executors' = [executors EXCEPT ![k] = Tail(@)]
  /\ LET d == Head(executors[k]) IN
     \/ /\ running' = [running EXCEPT ![k] =
                        [msg |-> d.msg, attempts |-> d.attempts, found |-> listeners,
                         todo |-> listeners]]
        /\ UNCHANGED <<nsqd, missed>>
     \/ /\ finished(k, d.msg)
        /\ missed' = IF Held(k, d.msg) THEN missed \cup {<<Group(k), d.msg>>} ELSE missed
        /\ UNCHANGED running
  /\ UNCHANGED <<listeners, consumers, failures, since, ok>>

Return(k) == running' = [running EXCEPT ![k] = NULL]

(* What the callback does when a listener returns false                    *)
enoughMutant(k, n) == n >= Retry(k) /\ Retry(k) > 0
enough(k, n) == n > Retry(k) /\ Retry(k) > 0

retryOrDrop(k, b) ==
  \/ enough(k, b.attempts) /\ finished(k, b.msg)
  \/ ~enough(k, b.attempts) /\ requeue(k, b.msg)

(* All listeners have accepted                                             *)
acceptedMutant(k, m) == UNCHANGED nsqd
accepted(k, m) == finished(k, m)

(* One turn of the loop: the iterator fails when the set has changed; a    *)
(* listener returns true, returns false or throws.  An exception leaves    *)
(* the callback, and nothing is sent to nsqd.                              *)
excute(k) ==
  /\ running[k] # NULL
  /\ LET b == running[k] IN
     \/ /\ b.todo # {} /\ b.found # listeners
        /\ Return(k)
        /\ UNCHANGED <<nsqd, failures, ok>>
     \/ \E l \in b.todo :
          /\ b.found = listeners
          /\ \/ /\ running' = [running EXCEPT ![k].todo = @ \ {l}]
                /\ ok' = [ok EXCEPT ![Group(k)][b.msg] = @ \cup {l}]
                /\ UNCHANGED <<nsqd, failures>>
             \/ /\ failures < MaxFailures
                /\ failures' = failures + 1
                /\ Return(k)
                /\ retryOrDrop(k, b) \/ UNCHANGED nsqd
                /\ UNCHANGED ok
     \/ /\ b.todo = {}
        /\ Return(k)
        /\ accepted(k, b.msg)
        /\ UNCHANGED <<failures, ok>>
  /\ UNCHANGED <<listeners, consumers, executors, since, missed>>

-----------------------------------------------------------------------------
publish(m) ==
  /\ since[m] = {} /\ Members # {}
  /\ since' = [since EXCEPT ![m] = Members]
  /\ copy' = [g \in Groups |-> IF g \in Channels THEN [copy[g] EXCEPT ![m] = "queued"]
                               ELSE copy[g]]
  /\ UNCHANGED <<listeners, consumers, executors, running, attempts, resent, holder, failures,
                 ok, missed>>

deliver(k, m) ==
  /\ k \in DOMAIN consumers
  /\ LET g == Group(k) IN
     /\ copy[g][m] = "queued" /\ attempts[g][m] < MaxAttempts
     /\ copy' = [copy EXCEPT ![g][m] = "flight"]
     /\ attempts' = [attempts EXCEPT ![g][m] = @ + 1]
     /\ holder' = [holder EXCEPT ![g][m] = k]
     /\ executors' = [executors EXCEPT ![k] =
                      Append(@, [msg |-> m, attempts |-> attempts[g][m] + 1])]
  /\ UNCHANGED <<listeners, consumers, running, resent, failures, history>>

(* A message in flight times out: because its consumer is slow, or because *)
(* its callback has ended without an answer                                *)
Pending(k, m) ==
  \/ running[k] # NULL /\ running[k].msg = m
  \/ \E i \in DOMAIN executors[k] : executors[k][i].msg = m

timeout(g, m) ==
  /\ holder[g][m] # NULL
  /\ \/ Pending(holder[g][m], m) /\ failures < MaxFailures /\ failures' = failures + 1
     \/ ~Pending(holder[g][m], m) /\ UNCHANGED failures
  /\ copy' = [copy EXCEPT ![g][m] = "queued"]
  /\ holder' = [holder EXCEPT ![g][m] = NULL]
  /\ UNCHANGED <<listeners, consumers, executors, running, attempts, resent, history>>

expired(g, m) == timeout(g, m) /\ ~Pending(holder[g][m], m)

Next ==
  \/ \E g \in Groups, l \in Listeners, r \in Retries : register(g, l, r)
  \/ \E k \in Ids : message(k) \/ excute(k) \/ \E m \in Messages : deliver(k, m)
  \/ \E m \in Messages : publish(m) \/ \E g \in Groups : timeout(g, m)

Spec == Init /\ [][Next]_vars

(* The executors run, listeners return, and nsqd sends what is queued and  *)
(* notices what is not answered                                            *)
ConsumersFairness ==
  /\ \A k \in Ids : WF_vars(message(k) \/ excute(k))
  /\ \A m \in Messages : WF_vars(\E k \in Ids : deliver(k, m))
  /\ \A m \in Messages, g \in Groups : WF_vars(expired(g, m))

FairSpec == Spec /\ ConsumersFairness

-----------------------------------------------------------------------------
(* Every variable has its type, and a copy in flight has a holder of its   *)
(* own channel.                                                            *)
TypeOK ==
  /\ listeners \subseteq Listeners
  /\ consumers \in Seq([group : Groups, retry : Retries, listener : Listeners])
  /\ Len(consumers) <= MaxConsumers
  /\ executors \in [Ids -> Seq([msg : Messages, attempts : Nat])]
  /\ \A k \in Ids : running[k] = NULL \/ running[k] \in Callbacks
  /\ copy \in [Groups -> [Messages -> {"none", "queued", "flight", "done"}]]
  /\ attempts \in [Groups -> [Messages -> 0 .. MaxAttempts]]
  /\ resent \in [Groups -> [Messages -> 0 .. MaxAttempts]]
  /\ holder \in [Groups -> [Messages -> Ids \cup {NULL}]]
  /\ \A g \in Groups, m \in Messages :
       copy[g][m] = "flight" <=> holder[g][m] # NULL /\ Group(holder[g][m]) = g
  /\ failures \in 0 .. MaxFailures

(* "Finished processing this message, let nsq know so it doesnt get        *)
(* reprocessed": a copy is finished only when those it is for have         *)
(* accepted it - every listener subscribed when the message was sent, or   *)
(* some listener of the queue group, which consumes it as one -, or after  *)
(* the documented number of resends, although callbacks time out, are cut  *)
(* off by a registration and run for the same message in several consumers.*)
(* One exception is a flaw of the code: an unlocked LISTENER_LIST.get that *)
(* meets a resize finds no listeners.                                      *)
Subscribed(g, m) == {l \in Listeners : <<g, l>> \in since[m]}

NothingLost ==
  \A g \in Groups, m \in Messages : copy[g][m] = "done" =>
    \/ g \notin Queues /\ Subscribed(g, m) \subseteq ok[g][m]
    \/ g \in Queues /\ Subscribed(g, m) \cap ok[g][m] # {}
    \/ <<g, m>> \in missed
    \/ \E k \in DOMAIN consumers :
         Group(k) = g /\ Retry(k) > 0 /\ attempts[g][m] >= Retry(k) + 1

(* "retry: how often the message is sent again after a failure, -1 for     *)
(* ever": listeners that return false have a message sent again at most    *)
(* retry times, the largest retry of the group's consumers.                *)
(* One exception is a flaw of the code: 0 also means for ever.             *)
ResendBound ==
  \A g \in Groups, m \in Messages : resent[g][m] > 0 =>
    \E k \in DOMAIN consumers :
      Group(k) = g /\ (Retry(k) <= 0 \/ resent[g][m] <= Retry(k))

(* What nsqd, the executors and the callbacks know of a message fits       *)
(* together: it is neither finished too early nor sent again too often,    *)
(* whatever listeners, timeouts and registrations do.                      *)
DeliveryOk == TypeOK /\ NothingLost /\ ResendBound

(* The other half of what a queue group promises, "a message can be        *)
(* consumed only once within the group": no two listeners of the group     *)
(* accept the same copy of a message.  The callback runs every listener of *)
(* the topic, so this fails with the first message of a group of two.      *)
GroupOnce ==
  \A g \in Queues, m \in Messages :
    \A l1, l2 \in Subscribed(g, m) \cap ok[g][m] : l1 = l2

(* Every message sent to a channel is finished some day: failures and      *)
(* timeouts requeue it, and it is not left in flight to a callback that    *)
(* has ended.                                                              *)
AllFinished ==
  \A g \in Groups, m \in Messages : copy[g][m] = "queued" ~> copy[g][m] = "done"

=============================================================================
