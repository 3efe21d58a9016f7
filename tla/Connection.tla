----------------------------- MODULE Connection -----------------------------
(***************************************************************************)
(* com.nsq.Connection as a producer uses it: callers of produce() share    *)
(* one connection, commandAndWait() pairs a command with the next answer   *)
(* through two queues of capacity 1, and the single thread of the client's *)
(* executor runs incoming() for the frames the server sends.               *)
(*                                                                         *)
(* nsqd answers each command once and in order, and may send heartbeats;   *)
(* it may be slower than any of the timeouts.                              *)
(***************************************************************************)
EXTENDS Naturals, Sequences

CONSTANTS
  Producers,       \* threads that call produce()
  NONE,
  Identified,    \* TRUE: the answer to IDENTIFY has been received and dropped
  MaxCommands,   \* bound: commands issued
  MaxHeartbeats  \* bound: heartbeats sent

IDENTIFY == 0
NOP == MaxCommands + 1
Commands == 1 .. MaxCommands
Answers == [kind : {"response", "error", "badTopic"}, cmd : Commands \cup {IDENTIFY}]
Heartbeat == [kind |-> "heartbeat", cmd |-> NOP]
Frames == Answers \cup {Heartbeat}

ASSUME ConnectionAssumption ==
  /\ Identified \in BOOLEAN
  /\ MaxCommands \in Nat /\ MaxHeartbeats \in Nat
  /\ NONE \notin Producers /\ NONE \notin Commands /\ NONE \notin Frames

VARIABLES
  open,        \* the channel
  listed,      \* the connection is in the client's Connections
  requests,    \* the queue of capacity 1: a command or NONE
  responses,   \* the queue of capacity 1: a frame or NONE
  executor,    \* the frame incoming() is trying to offer, or NONE
  toServer, toClient,
  heartbeats,  \* heartbeats sent
  stored,      \* per command: did the server store the message
  phase, cmd, frame,   \* per caller: where it is, its command, the frame it got
  outcome,     \* per command: what produce() told its caller
  issued       \* commands issued

callerVars == <<phase, cmd, frame, outcome, issued>>
wireVars == <<open, toServer, toClient, heartbeats, stored>>
connVars == <<listed, requests, responses, executor, callerVars, wireVars>>

Phases == {"idle", "offer", "clear", "write", "wait", "got", "close"}

ConnInit ==
  /\ open = TRUE /\ listed = TRUE
  /\ requests = NONE /\ responses = NONE /\ executor = NONE
  /\ toServer = IF Identified THEN <<>> ELSE <<IDENTIFY>>
  /\ toClient = <<>>
  /\ heartbeats = 0
  /\ stored = {}
  /\ phase = [c \in Producers |-> "idle"]
  /\ cmd = [c \in Producers |-> NONE]
  /\ frame = [c \in Producers |-> NONE]
  /\ outcome = [n \in Commands |-> "none"]
  /\ issued = 0

In(c, l) == phase[c] = l
Move(c, l) == phase' = [phase EXCEPT ![c] = l]
Write(x) == toServer' = IF open THEN Append(toServer, x) ELSE toServer

(* produce() returns, or throws, with result o                             *)
Answer(c, o) ==
  /\ outcome' = [outcome EXCEPT ![cmd[c]] = o]
  /\ cmd' = [cmd EXCEPT ![c] = NONE]
  /\ frame' = [frame EXCEPT ![c] = NONE]
  /\ Move(c, "idle")

-----------------------------------------------------------------------------
(* produce: getConn() finds the connection, commandAndWait begins          *)
produce(c) ==
  /\ In(c, "idle") /\ listed /\ issued < MaxCommands
  /\ issued' = issued + 1
  /\ cmd' = [cmd EXCEPT ![c] = issued + 1]
  /\ Move(c, "offer")
  /\ UNCHANGED <<listed, requests, responses, executor, frame, outcome, wireVars>>

offerRequestMutant(c) ==
  /\ In(c, "offer")
  /\ requests' = cmd[c]
  /\ Move(c, "clear")
  /\ UNCHANGED <<listed, responses, executor, cmd, frame, outcome, issued, wireVars>>

(* requests.offer succeeds, or gives up after 5 seconds                    *)
offerRequest(c) ==
  /\ In(c, "offer")
  /\ \/ requests = NONE /\ requests' = cmd[c] /\ Move(c, "clear")
     \/ requests # NONE /\ Move(c, "close") /\ UNCHANGED requests
  /\ UNCHANGED <<listed, responses, executor, cmd, frame, outcome, issued, wireVars>>

clearResponses(c) ==
  /\ In(c, "clear")
  /\ responses' = NONE
  /\ Move(c, "write")
  /\ UNCHANGED <<listed, requests, executor, cmd, frame, outcome, issued, wireVars>>

(* A write on a closed channel completes at once, with a failure that      *)
(* await() does not look at; a write that does not complete is a timeout.  *)
command(c) ==
  /\ In(c, "write")
  /\ Write(cmd[c])
  /\ \/ Move(c, "wait")
     \/ open /\ Move(c, "close")
  /\ UNCHANGED <<listed, requests, responses, executor, cmd, frame, outcome, issued,
                 open, toClient, heartbeats, stored>>

(* responses.poll: a frame, or nothing for 5 seconds                       *)
pollResponse(c) ==
  /\ In(c, "wait")
  /\ responses' = NONE
  /\ frame' = [frame EXCEPT ![c] = responses]
  /\ Move(c, IF responses = NONE THEN "close" ELSE "got")
  /\ UNCHANGED <<listed, requests, executor, cmd, outcome, issued, wireVars>>

(* requests.poll, and what produce makes of the frame                      *)
returnFrame(c) ==
  /\ In(c, "got")
  /\ requests' = NONE
  /\ \/ frame[c].kind = "response" /\ Answer(c, "ok")
     \/ frame[c].kind = "badTopic" /\ Answer(c, "refused")
     \/ /\ frame[c].kind = "error"
        /\ Move(c, "close")
        /\ UNCHANGED <<cmd, frame, outcome>>
  /\ UNCHANGED <<listed, responses, executor, issued, wireVars>>

closeMutant(c) ==
  /\ In(c, "close")
  /\ open' = FALSE /\ listed' = FALSE
  /\ requests' = NONE
  /\ Answer(c, "disconnected")
  /\ UNCHANGED <<responses, executor, issued, toServer, toClient, heartbeats, stored>>

(* close: the channel is closed and the client forgets the connection;     *)
(* after a timeout the request stays in its queue                          *)
close(c) ==
  /\ In(c, "close")
  /\ open' = FALSE /\ listed' = FALSE
  /\ Answer(c, "disconnected")
  /\ UNCHANGED <<requests, responses, executor, issued, toServer, toClient, heartbeats,
                 stored>>

-----------------------------------------------------------------------------
(* incoming, run by the executor for one frame after the other             *)
incoming ==
  /\ executor = NONE /\ toClient # <<>>
  /\ LET f == Head(toClient) IN
     \/ /\ f.kind = "heartbeat"
        /\ Write(NOP)
        /\ UNCHANGED <<executor, responses>>
     \/ /\ f.kind = "response"
        /\ executor' = IF requests = NONE THEN NONE ELSE f
        /\ UNCHANGED <<responses, toServer>>
     \/ /\ f.kind \in {"error", "badTopic"}         \* add() throws when full
        /\ responses' = IF responses = NONE THEN f ELSE responses
        /\ UNCHANGED <<executor, toServer>>
  /\ toClient' = Tail(toClient)
  /\ UNCHANGED <<listed, requests, callerVars, open, heartbeats, stored>>

(* responses.offer succeeds, or gives up after 20 seconds                  *)
offerResponse ==
  /\ executor # NONE
  /\ responses' = IF responses = NONE THEN executor ELSE responses
  /\ executor' = NONE
  /\ UNCHANGED <<listed, requests, callerVars, wireVars>>

(* nsqd handles one command; nothing reaches a closed channel              *)
serverAnswer ==
  /\ toServer # <<>>
  /\ toServer' = Tail(toServer)
  /\ LET x == Head(toServer) IN
     \/ x = NOP /\ UNCHANGED <<toClient, stored>>
     \/ /\ x # NOP
        /\ \E k \in {"response", "error", "badTopic"} :
             /\ x = IDENTIFY => k = "response"
             /\ stored' = IF k = "response" THEN stored \cup {x} ELSE stored
             /\ toClient' = IF open THEN Append(toClient, [kind |-> k, cmd |-> x])
                            ELSE toClient
  /\ UNCHANGED <<listed, requests, responses, executor, callerVars, open, heartbeats>>

serverHeartbeat ==
  /\ open /\ heartbeats < MaxHeartbeats
  /\ heartbeats' = heartbeats + 1
  /\ toClient' = Append(toClient, Heartbeat)
  /\ UNCHANGED <<listed, requests, responses, executor, callerVars, open, toServer, stored>>

(* A closed channel loses what the server has not read                     *)
serverLoses ==
  /\ ~open /\ toServer # <<>>
  /\ toServer' = <<>>
  /\ UNCHANGED <<listed, requests, responses, executor, callerVars, open, toClient,
                 heartbeats, stored>>

ConnNext ==
  \/ \E c \in Producers :
       \/ produce(c) \/ offerRequest(c) \/ clearResponses(c) \/ command(c)
       \/ pollResponse(c) \/ returnFrame(c) \/ close(c)
  \/ incoming \/ offerResponse \/ serverAnswer \/ serverHeartbeat \/ serverLoses

ConnSpec == ConnInit /\ [][ConnNext]_connVars

-----------------------------------------------------------------------------
(* Every variable has its type, and commandAndWait never returns null.     *)
ConnTypeOK ==
  /\ {open, listed} \subseteq BOOLEAN
  /\ requests \in Commands \cup {NONE}
  /\ responses \in Answers \cup {NONE} /\ executor \in Answers \cup {NONE}
  /\ toServer \in Seq(Commands \cup {IDENTIFY, NOP}) /\ toClient \in Seq(Frames)
  /\ heartbeats \in 0 .. MaxHeartbeats
  /\ stored \subseteq Commands \cup {IDENTIFY}
  /\ phase \in [Producers -> Phases]
  /\ cmd \in [Producers -> Commands \cup {NONE}]
  /\ frame \in [Producers -> Answers \cup {NONE}]
  /\ \A c \in Producers : In(c, "got") => frame[c] # NONE
  /\ outcome \in [Commands -> {"none", "ok", "refused", "disconnected"}]
  /\ issued \in 0 .. MaxCommands

(* "issues a command and waits for the result": what produce() tells its   *)
(* caller is what the server did with that caller's own message, although  *)
(* answers carry no identity and may come after the timeout of the command *)
(* they belong to, while other callers are waiting for the connection.     *)
ReportsTheTruth ==
  \A n \in Commands :
    /\ outcome[n] = "ok" => n \in stored
    /\ outcome[n] = "refused" => n \notin stored

(* requests, a queue of capacity 1, is a lock: at most one caller is       *)
(* between requests.offer and requests.poll, and it finds its own command  *)
(* there.                                                                  *)
OneRequestInFlight ==
  \A c \in Producers :
    phase[c] \in {"clear", "write", "wait", "got"} =>
      /\ requests = cmd[c]
      /\ \A d \in Producers \ {c} : phase[d] \notin {"clear", "write", "wait", "got"}

=============================================================================
