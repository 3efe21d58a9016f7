----------------------------- MODULE NsqClient ------------------------------
(***************************************************************************)
(* com.nsq.AbstractNSQClient with its Connections: the timer thread that   *)
(* reconnects and cleans up, producer threads in getConn(), the I/O thread *)
(* that reports disconnected channels, and the thread that calls close().  *)
(* Two monitors are involved: the client's and the one of Connections.     *)
(*                                                                         *)
(* One nsqd address is modelled (the loop of connect() treats each alike); *)
(* the network may refuse a connection or drop a channel, MaxDrops times.  *)
(***************************************************************************)
EXTENDS Integers, FiniteSets

CONSTANTS
  Callers,           \* producer threads
  NULL,
  Poolsize,          \* connections wanted (ConnectionAddress.poolsize)
  connectionRetries, \* of NSQProducer
  IsConsumer,        \* the client is an NSQConsumer, not an NSQProducer
  WithClose,         \* some thread calls close()
  MaxDrops,          \* bound: refused connections and dropped channels
  MaxConns           \* bound: channels ever created

Conns == 1 .. MaxConns
Threads == Callers \cup {"timer", "io", "closer"}

ASSUME NsqClientAssumption ==
  /\ Poolsize \in Nat \ {0} /\ connectionRetries \in Nat \ {0}
  /\ {IsConsumer, WithClose} \subseteq BOOLEAN
  /\ MaxDrops \in Nat /\ MaxConns \in Nat /\ Poolsize <= MaxConns
  /\ NULL \notin Threads /\ NULL \notin Conns

VARIABLES
  client,      \* holder of the client's monitor
  monitor,     \* holder of the monitor of Connections, across steps
  list,        \* connectionList
  channel,     \* per connection: "none", "open" or "closed"
  attached,    \* connections whose Connection object is attached to the channel
  events,      \* channels whose disconnection the I/O thread has not seen
  stale,       \* connections without a heartbeat for 2 minutes
  cancelled,   \* the timer has been cancelled
  drops,
  pc, conn, num, todo, tries   \* per thread: locals

netVars == <<channel, attached, events, stale, drops>>
locals == <<conn, num, todo, tries>>
vars == <<client, monitor, list, netVars, cancelled, pc, locals>>

Labels == {"idle", "dead", "size", "create", "attach", "add", "snap", "old", "gone",
           "next", "io", "all", "shut", "out", "closed"}

(* start() has run connect() once: for a producer with or without success, *)
(* for a consumer with success, its failure being an exception of start()  *)
Init ==
  /\ client = NULL /\ monitor = NULL
  /\ list \in {{}, 1 .. Poolsize} /\ (IsConsumer => list # {})
  /\ channel = [x \in Conns |-> IF x \in list THEN "open" ELSE "none"]
  /\ attached = list /\ events = {} /\ stale = {}
  /\ cancelled = FALSE
  /\ drops = 0
  /\ pc = [t \in Threads |-> "idle"]
  /\ conn = [t \in Threads |-> NULL]
  /\ num = [t \in Threads |-> 0]
  /\ todo = [t \in Threads |-> {}]
  /\ tries = [t \in Threads |-> 0]

At(t, l) == pc[t] = l
Goto(t, l) == pc' = [pc EXCEPT ![t] = l]

(* synchronized, on the client and on Connections; both are reentrant      *)
FreeMutant(t) == TRUE
Free(t) == client = NULL
MonitorFree(t) == monitor \in {NULL, t}

-----------------------------------------------------------------------------
(***************************************************************************)
(* connect(), from the timer or from getConn(), with the client's monitor: *)
(* create what is missing, then cleanupOldConnections().                   *)
(***************************************************************************)
timerRun ==
  /\ At("timer", "idle") /\ ~cancelled /\ Free("timer")
  /\ client' = "timer"
  /\ Goto("timer", "size")
  /\ UNCHANGED <<monitor, list, netVars, cancelled, locals>>

connectionSize(t) ==
  /\ At(t, "size") /\ MonitorFree(t)
  /\ num' = [num EXCEPT ![t] = Poolsize - Cardinality(list)]
  /\ Goto(t, "create")
  /\ UNCHANGED <<client, monitor, list, netVars, cancelled, conn, todo, tries>>

New == {x \in Conns : channel[x] = "none"}

(* createConnection: a failed attempt gives null, which addConnection      *)
(* ignores and on which NSQConsumer.createConnection throws: the exception *)
(* leaves connect() and ends the timer's thread.                           *)
createConnection(t) ==
  /\ At(t, "create")
  /\ \/ /\ num[t] > 0 /\ New # {}
        /\ LET x == CHOOSE x \in New : TRUE IN
           /\ channel' = [channel EXCEPT ![x] = "open"]
           /\ conn' = [conn EXCEPT ![t] = x]
        /\ Goto(t, "attach")
        /\ UNCHANGED <<client, num, drops>>
     \/ /\ num[t] > 0 /\ drops < MaxDrops
        /\ drops' = drops + 1
        /\ num' = [num EXCEPT ![t] = num[t] - 1]
        /\ IF IsConsumer
           THEN Goto(t, "dead") /\ client' = NULL
           ELSE UNCHANGED <<pc, client>>
        /\ UNCHANGED <<channel, conn>>
     \/ /\ num[t] <= 0
        /\ Goto(t, "snap")
        /\ UNCHANGED <<client, channel, conn, num, drops>>
  /\ UNCHANGED <<monitor, list, attached, events, stale, cancelled, todo, tries>>

(* new Connection: the channel can be dropped before it is attached        *)
attach(t) ==
  /\ At(t, "attach")
  /\ attached' = attached \cup {conn[t]}
  /\ Goto(t, "add")
  /\ UNCHANGED <<client, monitor, list, channel, events, stale, drops, cancelled, locals>>

addConnection(t) ==
  /\ At(t, "add") /\ MonitorFree(t)
  /\ list' = list \cup {conn[t]}
  /\ num' = [num EXCEPT ![t] = num[t] - 1]
  /\ conn' = [conn EXCEPT ![t] = NULL]
  /\ Goto(t, "create")
  /\ UNCHANGED <<client, monitor, netVars, cancelled, todo, tries>>

cleanupMutant(t) ==
  /\ At(t, "snap") /\ MonitorFree(t)
  /\ Goto(t, "old")
  /\ UNCHANGED <<client, monitor, list, netVars, cancelled, locals>>

(* cleanupOldConnections works on a copy of the list                       *)
cleanupOldConnections(t) ==
  /\ At(t, "snap") /\ MonitorFree(t)
  /\ todo' = [todo EXCEPT ![t] = list \cap stale]
  /\ Goto(t, "old")
  /\ UNCHANGED <<client, monitor, list, netVars, cancelled, conn, num, tries>>

(* Connection.close: the channel is closed, its event goes to the I/O      *)
(* thread                                                                  *)
closeChannel(x) ==
  /\ channel' = [channel EXCEPT ![x] = "closed"]
  /\ events' = IF channel[x] = "open" THEN events \cup {x} ELSE events

(* The end of connect(): the timer waits for its next run, a producer      *)
(* tries again                                                             *)
connected(t) ==
  IF t \in Callers THEN Goto(t, "next") /\ UNCHANGED client
                   ELSE Goto(t, "idle") /\ client' = NULL

closeOld(t) ==
  /\ At(t, "old")
  /\ \/ /\ todo[t] = {}
        /\ connected(t)
        /\ UNCHANGED <<channel, events, conn, todo>>
     \/ \E x \in todo[t] :
          /\ closeChannel(x)
          /\ conn' = [conn EXCEPT ![t] = x]
          /\ todo' = [todo EXCEPT ![t] = @ \ {x}]
          /\ Goto(t, "gone")
          /\ UNCHANGED client
  /\ UNCHANGED <<monitor, list, attached, stale, drops, cancelled, num, tries>>

(* _disconnected and then remove, both of which forget the connection      *)
removeOld(t) ==
  /\ At(t, "gone") /\ MonitorFree(t)
  /\ list' = list \ {conn[t]}
  /\ conn' = [conn EXCEPT ![t] = NULL]
  /\ Goto(t, "old")
  /\ UNCHANGED <<client, monitor, netVars, cancelled, num, todo, tries>>

-----------------------------------------------------------------------------
(***************************************************************************)
(* getConn: synchronized; takes any connection of the list, or sleeps,     *)
(* connects and tries again, after close() too.                            *)
(***************************************************************************)
getConn(t) ==
  /\ At(t, "idle") /\ Free(t) /\ ~IsConsumer
  /\ client' = t
  /\ tries' = [tries EXCEPT ![t] = 0]
  /\ Goto(t, "next")
  /\ UNCHANGED <<monitor, list, netVars, cancelled, conn, num, todo>>

next(t) ==
  /\ At(t, "next") /\ MonitorFree(t)
  /\ \/ /\ list # {} \/ tries[t] = connectionRetries
        /\ client' = NULL
        /\ tries' = [tries EXCEPT ![t] = 0]
        /\ Goto(t, "idle")
     \/ /\ list = {} /\ tries[t] < connectionRetries
        /\ tries' = [tries EXCEPT ![t] = tries[t] + 1]
        /\ Goto(t, "size")
        /\ UNCHANGED client
  /\ UNCHANGED <<monitor, list, netVars, cancelled, conn, num, todo>>

-----------------------------------------------------------------------------
(***************************************************************************)
(* channelDisconnected: a channel without attachment is only logged,       *)
(* otherwise _disconnected() enters both monitors.                         *)
(***************************************************************************)
channelDisconnected(x) ==
  /\ At("io", "idle") /\ x \in events
  /\ \/ /\ x \notin attached
        /\ UNCHANGED <<pc, client, conn>>
     \/ /\ x \in attached /\ Free("io")
        /\ client' = "io"
        /\ conn' = [conn EXCEPT !["io"] = x]
        /\ Goto("io", "io")
  /\ events' = events \ {x}
  /\ UNCHANGED <<monitor, list, channel, attached, stale, drops, cancelled, num, todo, tries>>

disconnected ==
  /\ At("io", "io") /\ MonitorFree("io")
  /\ list' = list \ {conn["io"]}
  /\ conn' = [conn EXCEPT !["io"] = NULL]
  /\ client' = NULL
  /\ Goto("io", "idle")
  /\ UNCHANGED <<monitor, netVars, cancelled, num, todo, tries>>

-----------------------------------------------------------------------------
(***************************************************************************)
(* close() of the client, not synchronized: the timer is cancelled, then   *)
(* Connections.close() keeps its own monitor while each connection is      *)
(* closed and reported to the client.                                      *)
(***************************************************************************)
closeClient ==
  /\ WithClose /\ At("closer", "idle")
  /\ cancelled' = TRUE
  /\ Goto("closer", "all")
  /\ UNCHANGED <<client, monitor, list, netVars, locals>>

closeConnections ==
  /\ At("closer", "all") /\ monitor = NULL
  /\ monitor' = "closer"
  /\ todo' = [todo EXCEPT !["closer"] = list]
  /\ Goto("closer", "shut")
  /\ UNCHANGED <<client, list, netVars, cancelled, conn, num, tries>>

closeEach ==
  /\ At("closer", "shut")
  /\ \/ /\ todo["closer"] = {}
        /\ list' = {}
        /\ monitor' = NULL
        /\ Goto("closer", "closed")
        /\ UNCHANGED <<channel, events, conn, todo>>
     \/ \E x \in todo["closer"] :
          /\ closeChannel(x)
          /\ conn' = [conn EXCEPT !["closer"] = x]
          /\ todo' = [todo EXCEPT !["closer"] = @ \ {x}]
          /\ Goto("closer", "out")
          /\ UNCHANGED <<list, monitor>>
  /\ UNCHANGED <<client, attached, stale, drops, cancelled, num, tries>>

closedOne ==
  /\ At("closer", "out") /\ Free("closer")
  /\ list' = list \ {conn["closer"]}
  /\ conn' = [conn EXCEPT !["closer"] = NULL]
  /\ Goto("closer", "shut")
  /\ UNCHANGED <<client, monitor, netVars, cancelled, num, todo, tries>>

-----------------------------------------------------------------------------
(* The network drops an open channel.  A closed channel gets no heartbeat  *)
(* and is stale after 2 minutes; so is an open one whose peer is silent.   *)
drop(x) ==
  /\ channel[x] = "open" /\ drops < MaxDrops
  /\ drops' = drops + 1
  /\ channel' = [channel EXCEPT ![x] = "closed"]
  /\ events' = events \cup {x}
  /\ UNCHANGED <<client, monitor, list, attached, stale, cancelled, pc, locals>>

expire(x) ==
  /\ channel[x] = "closed" /\ x \notin stale
  /\ stale' = stale \cup {x}
  /\ UNCHANGED <<client, monitor, list, channel, attached, events, drops, cancelled, pc, locals>>

silent(x) ==
  /\ channel[x] = "open" /\ x \in list \ stale /\ drops < MaxDrops
  /\ drops' = drops + 1
  /\ stale' = stale \cup {x}
  /\ UNCHANGED <<client, monitor, list, channel, attached, events, cancelled, pc, locals>>

connect(t) ==
  \/ connectionSize(t) \/ createConnection(t) \/ attach(t) \/ addConnection(t)
  \/ cleanupOldConnections(t) \/ closeOld(t) \/ removeOld(t)

Io == (\E x \in Conns : channelDisconnected(x)) \/ disconnected
Close == closeConnections \/ closeEach \/ closedOne

Next ==
  \/ timerRun \/ connect("timer")
  \/ \E t \in Callers : getConn(t) \/ next(t) \/ connect(t)
  \/ Io
  \/ closeClient \/ Close
  \/ \E x \in Conns : drop(x) \/ expire(x) \/ silent(x)

Spec == Init /\ [][Next]_vars

(* The timer fires every LOOKUP_PERIOD; no thread is suspended for ever,   *)
(* a thread that waits for a monitor gets it when it keeps being free, and *)
(* 2 minutes pass.  Monitors are handed over in no order: strong fairness  *)
(* for the timer and the I/O thread, which would otherwise starve behind   *)
(* the producers.                                                          *)
Fairness ==
  /\ SF_vars(timerRun) /\ WF_vars(connect("timer"))
  /\ \A t \in Callers : WF_vars(next(t) \/ connect(t))
  /\ \A x \in Conns : SF_vars(channelDisconnected(x)) /\ WF_vars(expire(x))
  /\ WF_vars(disconnected)
  /\ SF_vars(closeConnections) /\ WF_vars(closeEach) /\ SF_vars(closedOne)

FairSpec == Spec /\ Fairness

-----------------------------------------------------------------------------
(* Every variable has its type; connect() never finds more connections     *)
(* than the pool size (num is not negative), and a thread that is to       *)
(* register or remove a connection has one.                                *)
TypeOK ==
  /\ {client, monitor} \subseteq Threads \cup {NULL}
  /\ list \cup attached \cup events \cup stale \subseteq Conns
  /\ channel \in [Conns -> {"none", "open", "closed"}]
  /\ cancelled \in BOOLEAN
  /\ drops \in 0 .. MaxDrops
  /\ pc \in [Threads -> Labels]
  /\ conn \in [Threads -> Conns \cup {NULL}]
  /\ \A t \in Threads : pc[t] \in {"attach", "add", "gone", "io", "out"} => conn[t] \in Conns
  /\ num \in [Threads -> 0 .. Poolsize]
  /\ todo \in [Threads -> SUBSET Conns]
  /\ tries \in [Threads -> 0 .. connectionRetries]

Creating(t) == pc[t] \in {"attach", "add"}

(* connect() is "safe to call repeatedly": with the timer, the producers   *)
(* and the I/O thread at work, an address never gets more connections than *)
(* its pool size, those being created included.                            *)
PoolNeverExceeded ==
  Cardinality(list) + Cardinality({t \in Threads : Creating(t)}) <= Poolsize

(* No open connection is forgotten: whatever has been created is in the    *)
(* list, or in the hands of the thread that creates it.                    *)
NoForgottenConnection ==
  \A x \in Conns : channel[x] = "open" =>
    x \in list \/ \E t \in Threads : Creating(t) /\ conn[t] = x

(* The list, the channels and the locals of the threads fit together: the  *)
(* pool keeps its size and no open connection is outside of it, while the  *)
(* timer, the producers, the I/O thread and close() interleave.            *)
ConnectionsOk == TypeOK /\ PoolNeverExceeded /\ NoForgottenConnection

(* "how often to recheck for new nodes (and clean up non responsive        *)
(* nodes)": when the network stops failing, the client is connected again  *)
(* and stays so, unless it is closed.                                      *)
Reconnects == <>[](\/ cancelled
                   \/ Cardinality({x \in list : channel[x] = "open"}) = Poolsize)

(* connect() is "safe to call repeatedly": the timer's run of it ends, so  *)
(* that the client's monitor is not kept for ever.                         *)
ConnectEnds == client = "timer" ~> client # "timer"

=============================================================================
