------------------------------ MODULE Batches -------------------------------
(***************************************************************************)
(* The batching of com.nsq.NSQProducer, for one topic: produceBatch(),     *)
(* flushBatches() and configureBatch() run in any number of threads over   *)
(* the concurrent map batches; each method of com.nsq.Batch is one step    *)
(* (they are synchronized).                                                *)
(*                                                                         *)
(* A message is its index; sizes count units of 50,000 bytes, the margin   *)
(* that maxBytes keeps to the largest request nsqd takes.                  *)
(***************************************************************************)
EXTENDS Naturals, Sequences, FiniteSets, FiniteSetsExt

CONSTANTS
  Threads,
  NIL,
  size,          \* the size of each message, a sequence
  maxMessages,
  ServerMax,     \* the largest request nsqd takes
  MaxControls    \* bound: calls of flushBatches and configureBatch

BatchMessages == DOMAIN size
maxBytes == ServerMax - 1
BatchIds == 1 .. Len(size) + MaxControls

ASSUME BatchesAssumption ==
  /\ size \in Seq(Nat)
  /\ maxMessages \in Nat \ {0} /\ ServerMax \in Nat \ {0, 1} /\ MaxControls \in Nat
  /\ NIL \notin BatchIds /\ NIL \notin BatchMessages /\ IsFiniteSet(Threads)

VARIABLES
  batches,     \* the batch of the topic, or NIL when the map has none
  messages,    \* per Batch object: the messages in it
  created,     \* Batch objects created
  pc, msg, batch, list,   \* per thread: locals
  next,        \* messages handed to produceBatch
  controls,    \* flushes and configurations begun
  sent, failed, refused,  \* requests nsqd has stored; given to batchError; NullPointerException
  overtaken    \* history: messages added to a batch already taken out of the map

locals == <<pc, msg, batch, list>>
results == <<sent, failed, refused>>
batchVars == <<batches, messages, created, locals, next, controls, results, overtaken>>

Labels == {"idle", "put", "get", "add", "ready", "send", "clear"}

BatchInit ==
  /\ batches = NIL
  /\ messages = [b \in BatchIds |-> {}]
  /\ created = 0
  /\ pc = [t \in Threads |-> "idle"]
  /\ msg = [t \in Threads |-> NIL]
  /\ batch = [t \in Threads |-> NIL]
  /\ list = [t \in Threads |-> {}]
  /\ next = 0 /\ controls = 0
  /\ sent = <<>> /\ failed = {} /\ refused = {}
  /\ overtaken = {}

At(t, l) == pc[t] = l
Goto(t, l) == pc' = [pc EXCEPT ![t] = l]
totalBytes(s) == MapThenSumSet(LAMBDA m : size[m], s)

-----------------------------------------------------------------------------
(* produceBatch: containsKey                                               *)
produceBatch(t) ==
  /\ At(t, "idle") /\ next < Len(size)
  /\ next' = next + 1
  /\ msg' = [msg EXCEPT ![t] = next + 1]
  /\ Goto(t, IF batches = NIL THEN "put" ELSE "get")
  /\ UNCHANGED <<batches, messages, created, batch, list, controls, results, overtaken>>

putIfAbsent(t) ==
  /\ At(t, "put")
  /\ created' = created + 1
  /\ batches' = IF batches = NIL THEN created + 1 ELSE batches
  /\ Goto(t, "get")
  /\ UNCHANGED <<messages, msg, batch, list, next, controls, results, overtaken>>

(* get: the topic may have been removed since, and addMessage throws       *)
get(t) ==
  /\ At(t, "get")
  /\ \/ /\ batches # NIL
        /\ batch' = [batch EXCEPT ![t] = batches]
        /\ Goto(t, "add")
        /\ UNCHANGED <<msg, refused>>
     \/ /\ batches = NIL
        /\ refused' = refused \cup {msg[t]}
        /\ msg' = [msg EXCEPT ![t] = NIL]
        /\ Goto(t, "idle")
        /\ UNCHANGED batch
  /\ UNCHANGED <<batches, messages, created, list, next, controls, sent, failed, overtaken>>

addMessage(t) ==
  /\ At(t, "add")
  /\ messages' = [messages EXCEPT ![batch[t]] = @ \cup {msg[t]}]
  /\ overtaken' = IF batches = batch[t] THEN overtaken ELSE overtaken \cup {msg[t]}
  /\ msg' = [msg EXCEPT ![t] = NIL]
  /\ Goto(t, "ready")
  /\ UNCHANGED <<batches, created, batch, list, next, controls, results>>

getAndClearMutant(t, b) ==
  /\ list' = [list EXCEPT ![t] = messages[b]]
  /\ UNCHANGED messages

getAndClear(t, b) ==
  /\ list' = [list EXCEPT ![t] = messages[b]]
  /\ messages' = [messages EXCEPT ![b] = {}]

isReadyMutant(b) ==
  totalBytes(messages[b]) >= maxBytes \/ Cardinality(messages[b]) > maxMessages

isReady(b) == totalBytes(messages[b]) >= maxBytes \/ Cardinality(messages[b]) >= maxMessages

(* getAndClearIfReady: also ready once maxSeconds have passed              *)
getAndClearIfReady(t) ==
  /\ At(t, "ready")
  /\ \/ isReady(batch[t]) /\ getAndClear(t, batch[t]) /\ Goto(t, "send")
     \/ ~isReady(batch[t]) /\ messages[batch[t]] # {}
          /\ getAndClear(t, batch[t]) /\ Goto(t, "send")
     \/ ~isReady(batch[t]) /\ Goto(t, "idle") /\ UNCHANGED <<messages, list>>
  /\ batch' = [batch EXCEPT ![t] = NIL]
  /\ UNCHANGED <<batches, created, msg, next, controls, results, overtaken>>

(* sendBatch: an exception of produceMulti, of which nsqd may have stored  *)
(* the request all the same (no answer in time), or of batchSuccess, which *)
(* the same try block calls, goes to batchError                            *)
sendBatch(t) ==
  /\ At(t, "send")
  /\ \/ list[t] = {} /\ UNCHANGED <<sent, failed>>
     \/ /\ list[t] # {}
        /\ \/ sent' = Append(sent, list[t]) /\ UNCHANGED failed
           \/ sent' \in {sent, Append(sent, list[t])} /\ failed' = failed \cup list[t]
  /\ list' = [list EXCEPT ![t] = {}]
  /\ Goto(t, "idle")
  /\ UNCHANGED <<batches, messages, created, msg, batch, next, controls, refused, overtaken>>

(* flushBatches, the turn of its loop for the topic: remove                *)
flushBatches(t) ==
  /\ At(t, "idle") /\ controls < MaxControls
  /\ controls' = controls + 1
  /\ batches # NIL
  /\ batch' = [batch EXCEPT ![t] = batches]
  /\ batches' = NIL
  /\ Goto(t, "clear")
  /\ UNCHANGED <<messages, created, msg, list, next, results, overtaken>>

configureBatchMutant(t) ==
  /\ At(t, "idle") /\ controls < MaxControls
  /\ controls' = controls + 1
  /\ created' = created + 1
  /\ batches' = created + 1
  /\ UNCHANGED <<messages, locals, next, results, overtaken>>

(* configureBatch: put                                                     *)
configureBatch(t) ==
  /\ At(t, "idle") /\ controls < MaxControls
  /\ controls' = controls + 1
  /\ created' = created + 1
  /\ batches' = created + 1
  /\ batch' = [batch EXCEPT ![t] = batches]
  /\ Goto(t, IF batches = NIL THEN "idle" ELSE "clear")
  /\ UNCHANGED <<messages, msg, list, next, results, overtaken>>

(* ... and what both do with the batch they took out                       *)
clearOld(t) ==
  /\ At(t, "clear")
  /\ getAndClear(t, batch[t])
  /\ batch' = [batch EXCEPT ![t] = NIL]
  /\ Goto(t, "send")
  /\ UNCHANGED <<batches, created, msg, next, controls, results, overtaken>>

BatchNext == \E t \in Threads :
  \/ produceBatch(t) \/ putIfAbsent(t) \/ get(t) \/ addMessage(t)
  \/ getAndClearIfReady(t) \/ sendBatch(t)
  \/ flushBatches(t) \/ configureBatch(t) \/ clearOld(t)

BatchSpec == BatchInit /\ [][BatchNext]_batchVars

-----------------------------------------------------------------------------
(* Every variable has its type, and a thread that is to use a batch has    *)
(* one.                                                                    *)
BatchTypeOK ==
  /\ batches \in 1 .. created \cup {NIL}
  /\ messages \in [BatchIds -> SUBSET BatchMessages]
  /\ created \in Nat /\ (created > 0 => created \in BatchIds)
  /\ pc \in [Threads -> Labels]
  /\ msg \in [Threads -> BatchMessages \cup {NIL}]
  /\ batch \in [Threads -> 1 .. created \cup {NIL}]
  /\ \A t \in Threads : pc[t] \in {"add", "ready", "clear"} => batch[t] # NIL
  /\ list \in [Threads -> SUBSET BatchMessages]
  /\ next \in 0 .. Len(size) /\ controls \in 0 .. MaxControls
  /\ sent \in Seq(SUBSET BatchMessages)
  /\ failed \subseteq BatchMessages /\ refused \subseteq BatchMessages

(* The places a message can wait in                                       *)
Places(m) ==
  {<<"thread", t>> : t \in {t \in Threads : msg[t] = m}}
  \cup {<<"batch", b>> : b \in {b \in BatchIds : m \in messages[b]}}
  \cup {<<"list", t>> : t \in {t \in Threads : m \in list[t]}}

Requests(m) == {i \in DOMAIN sent : m \in sent[i]}
Answered(m) == Requests(m) # {} \/ m \in failed \/ m \in refused

(* The map knows the batch, or a thread is about to clear it               *)
Reachable(b) == batches = b \/ \E t \in Threads : At(t, "clear") /\ batch[t] = b

(* A message handed to produceBatch waits in exactly one place until it is *)
(* answered, and in none afterwards; it is in at most one request stored   *)
(* by nsqd, and not in one if the caller got a NullPointerException; and   *)
(* the batch it waits in is not forgotten.  This holds however producers,  *)
(* flushes and new configurations interleave.  Two flaws of the code are   *)
(* not excluded: batchError may be told of a request that was stored, and  *)
(* a batch is forgotten with the messages added to it after it was taken   *)
(* out of the map (overtaken).                                             *)
ExactlyOnce ==
  \A m \in 1 .. next :
    /\ Cardinality(Places(m)) = IF Answered(m) THEN 0 ELSE 1
    /\ Cardinality(Requests(m)) <= 1
    /\ m \in refused => m \notin failed /\ Requests(m) = {}
    /\ \A b \in BatchIds : m \in messages[b] => Reachable(b) \/ m \in overtaken

MaxSize == Max({size[m] : m \in BatchMessages})

(* "send as a batch after N messages", and "subtract 50k so we dont        *)
(* accidentally go over the limit": a request exceeds maxMessages by at    *)
(* most the messages of the other threads that add at the same time, and   *)
(* maxBytes by less than one message per thread.                           *)
BatchBounded ==
  \A i \in DOMAIN sent :
    /\ Cardinality(sent[i]) <= maxMessages + Cardinality(Threads) - 1
    /\ totalBytes(sent[i]) < maxBytes + Cardinality(Threads) * MaxSize

(* "flushes all batches": when no call is under way, every message that    *)
(* waits does so in the batch the map knows, which a flush finds.  One     *)
(* exception is a flaw of the code: the message of a producer that fetched *)
(* the batch, and adds to it after a flush or a new configuration has      *)
(* taken it out.                                                           *)
FlushFindsAll ==
  (\A t \in Threads : At(t, "idle")) =>
    \A b \in BatchIds : messages[b] \ overtaken # {} => batches = b

=============================================================================
