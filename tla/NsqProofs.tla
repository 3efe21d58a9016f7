----------------------------- MODULE NsqProofs ------------------------------
(***************************************************************************)
(* Proofs about the client of nsq: Connection, for any number of           *)
(* producers, commands and heartbeats, and NsqClient, for any number of    *)
(* callers, any pool size and any number of failures.                      *)
(***************************************************************************)
EXTENDS Connection, NsqClient, FiniteSetTheorems, TLAPS

(***************************************************************************)
(* Connection.                                                             *)
(*                                                                         *)
(* The idea: requests is NONE only when no answer is under way.  A command *)
(* that times out leaves its request in the queue, so no command is ever   *)
(* written after it, and the one answer that may still come belongs to     *)
(* nobody.  Hence all that is under way at any time is one command, or the *)
(* one answer to it, and it is the command requests holds.                 *)
(***************************************************************************)
InFlight == {"clear", "write", "wait", "got"}

(* Where the one command, or its answer, may be                            *)
AtServer(i) == i \in 1 .. Len(toServer) /\ toServer[i] # NOP
Coming(i) == i \in 1 .. Len(toClient) /\ toClient[i] # Heartbeat

Quiet ==
  /\ executor = NONE /\ responses = NONE
  /\ \A i : ~AtServer(i) /\ ~Coming(i)

(* requests is a lock, held by the caller whose command it holds           *)
LockInv ==
  /\ \A c \in Producers : phase[c] \in InFlight => requests = cmd[c]
  /\ \A c, d \in Producers : phase[c] \in InFlight /\ phase[d] \in InFlight => c = d
  /\ \A c \in Producers : phase[c] # "idle" => cmd[c] \in Commands
  /\ \A c \in Producers : phase[c] = "got" => frame[c] \in Answers

(* Commands are not used twice                                             *)
FreshInv ==
  /\ \A c \in Producers : cmd[c] # NONE => cmd[c] <= issued
  /\ \A c, d \in Producers : cmd[c] # NONE /\ cmd[c] = cmd[d] => c = d
  /\ requests # NONE => requests <= issued
  /\ \A c \in Producers : phase[c] = "offer" => cmd[c] # requests
  /\ \A n \in Commands : n \in stored => n <= issued
  /\ \A c \in Producers : phase[c] \in {"offer", "clear", "write"} => cmd[c] \notin stored
  /\ \A n \in Commands : outcome[n] = "refused" =>
       /\ n <= issued
       /\ n # requests
       /\ \A c \in Producers : cmd[c] # n
  /\ \A n \in Commands : outcome[n] = "ok" => n <= issued

(* What is under way belongs to the command in requests, and is one thing  *)
OneThingInv ==
  /\ requests = NONE => Quiet
  /\ \A c \in Producers : phase[c] \in {"clear", "write", "got"} => Quiet
  /\ \A i : AtServer(i) => toServer[i] = requests
  /\ \A i : Coming(i) => toClient[i].cmd = requests
  /\ executor # NONE => executor.cmd = requests
  /\ responses # NONE => responses.cmd = requests
  /\ \A i, j : AtServer(i) /\ AtServer(j) => i = j
  /\ \A i, j : Coming(i) /\ Coming(j) => i = j
  /\ \A i, j : ~(AtServer(i) /\ Coming(j))
  /\ \A i : AtServer(i) \/ Coming(i) => executor = NONE /\ responses = NONE
  /\ executor = NONE \/ responses = NONE

(* An answer says whether its command has been stored                      *)
Truthful(f) == f.kind = "response" <=> f.cmd \in stored

TruthInv ==
  /\ \A i : AtServer(i) => toServer[i] \notin stored
  /\ \A i : Coming(i) => Truthful(toClient[i])
  /\ executor # NONE => Truthful(executor)
  /\ responses # NONE => Truthful(responses)
  /\ \A c \in Producers : phase[c] = "got" => frame[c].cmd = cmd[c] /\ Truthful(frame[c])
  /\ ReportsTheTruth

AnswerInv == ConnTypeOK /\ LockInv /\ FreshInv /\ OneThingInv /\ TruthInv

-----------------------------------------------------------------------------
(* What Tail and Append do to a sequence                                   *)
LEMMA TailFacts ==
  ASSUME NEW S, NEW s \in Seq(S), s # <<>>
  PROVE  /\ Tail(s) \in Seq(S) /\ Head(s) \in S /\ Head(s) = s[1]
         /\ Len(s) \in Nat \ {0} /\ Len(Tail(s)) = Len(s) - 1
         /\ \A i \in 1 .. Len(s) - 1 : Tail(s)[i] = s[i + 1]
  OBVIOUS

LEMMA AppendFacts ==
  ASSUME NEW S, NEW s \in Seq(S), NEW x \in S
  PROVE  /\ Append(s, x) \in Seq(S)
         /\ Len(s) \in Nat /\ Len(Append(s, x)) = Len(s) + 1
         /\ \A i \in 1 .. Len(s) : Append(s, x)[i] = s[i]
         /\ Append(s, x)[Len(s) + 1] = x
  OBVIOUS

(* The variables keep their types: one step                                *)
LEMMA TypeStep == ConnTypeOK /\ LockInv /\ [ConnNext]_connVars => ConnTypeOK'
<1> SUFFICES ASSUME ConnTypeOK, LockInv, [ConnNext]_connVars PROVE ConnTypeOK'
  OBVIOUS
<1> USE ConnectionAssumption
<1> USE DEF ConnTypeOK, In, Move, Phases
<1>1. ASSUME NEW c \in Producers, produce(c) PROVE ConnTypeOK'
  BY <1>1 DEF produce, wireVars, Commands
<1>2. ASSUME NEW c \in Producers, offerRequest(c) PROVE ConnTypeOK'
  BY <1>2 DEF offerRequest, wireVars, LockInv
<1>3. ASSUME NEW c \in Producers, clearResponses(c) PROVE ConnTypeOK'
  BY <1>3 DEF clearResponses, wireVars
<1>4. ASSUME NEW c \in Producers, command(c) PROVE ConnTypeOK'
  BY <1>4, AppendFacts DEF command, Write, LockInv
<1>5. ASSUME NEW c \in Producers, pollResponse(c) PROVE ConnTypeOK'
  BY <1>5 DEF pollResponse, wireVars
<1>6. ASSUME NEW c \in Producers, returnFrame(c) PROVE ConnTypeOK'
  BY <1>6 DEF returnFrame, Answer, wireVars
<1>7. ASSUME NEW c \in Producers, close(c) PROVE ConnTypeOK'
  BY <1>7 DEF close, Answer
<1>8. CASE incoming
  <2> DEFINE f == Head(toClient)
  <2>1. f \in Frames /\ toClient' \in Seq(Frames)
    BY <1>8, TailFacts DEF incoming
  <2>2. f.kind # "heartbeat" => f \in Answers
    BY <2>1 DEF Frames, Heartbeat
  <2>3. toServer' \in Seq(Commands \cup {IDENTIFY, NOP})
    <3>1. Append(toServer, NOP) \in Seq(Commands \cup {IDENTIFY, NOP})
      BY AppendFacts
    <3> QED
      BY <1>8, <3>1 DEF incoming, Write
  <2>4. responses' \in Answers \cup {NONE} /\ executor' \in Answers \cup {NONE}
    BY <1>8, <2>2 DEF incoming
  <2> QED
    BY <1>8, <2>1, <2>3, <2>4 DEF incoming, callerVars
<1>9. CASE offerResponse
  BY <1>9 DEF offerResponse, callerVars, wireVars
<1>10. CASE serverAnswer
  <2> DEFINE x == Head(toServer)
  <2>1. x \in Commands \cup {IDENTIFY, NOP} /\ toServer' \in Seq(Commands \cup {IDENTIFY, NOP})
    BY <1>10, TailFacts DEF serverAnswer
  <2>2. CASE x = NOP
    BY <1>10, <2>1, <2>2 DEF serverAnswer, callerVars
  <2>3. CASE x # NOP
    <3>1. PICK k \in {"response", "error", "badTopic"} :
            /\ stored' = IF k = "response" THEN stored \cup {x} ELSE stored
            /\ toClient' = IF open THEN Append(toClient, [kind |-> k, cmd |-> x])
                           ELSE toClient
      BY <1>10, <2>3 DEF serverAnswer
    <3>2. [kind |-> k, cmd |-> x] \in Frames
      BY <2>1, <2>3 DEF Frames, Answers
    <3>3. toClient' \in Seq(Frames) /\ stored' \subseteq Commands \cup {IDENTIFY}
      BY <3>1, <3>2, <2>1, <2>3, AppendFacts
    <3> QED
      BY <1>10, <2>1, <3>3 DEF serverAnswer, callerVars
  <2> QED
    BY <2>2, <2>3
<1>11. CASE serverHeartbeat
  BY <1>11, AppendFacts DEF serverHeartbeat, Frames, callerVars
<1>12. CASE serverLoses
  BY <1>12 DEF serverLoses, callerVars
<1>13. CASE UNCHANGED connVars
  BY <1>13 DEF connVars, callerVars, wireVars
<1> QED
  BY <1>1, <1>2, <1>3, <1>4, <1>5, <1>6, <1>7, <1>8, <1>9, <1>10, <1>11, <1>12, <1>13
  DEF ConnNext

(* requests stays a lock: one step                                         *)
LEMMA LockStep == ConnTypeOK /\ LockInv /\ [ConnNext]_connVars => LockInv'
<1> SUFFICES ASSUME ConnTypeOK, LockInv, [ConnNext]_connVars PROVE LockInv'
  OBVIOUS
<1> USE ConnectionAssumption
<1> USE DEF ConnTypeOK, LockInv, InFlight, In, Move, Phases
<1>1. ASSUME NEW c \in Producers, produce(c) PROVE LockInv'
  BY <1>1 DEF produce, Commands
<1>2. ASSUME NEW c \in Producers, offerRequest(c) PROVE LockInv'
  BY <1>2 DEF offerRequest
<1>3. ASSUME NEW c \in Producers, clearResponses(c) PROVE LockInv'
  BY <1>3 DEF clearResponses
<1>4. ASSUME NEW c \in Producers, command(c) PROVE LockInv'
  BY <1>4 DEF command
<1>5. ASSUME NEW c \in Producers, pollResponse(c) PROVE LockInv'
  BY <1>5 DEF pollResponse
<1>6. ASSUME NEW c \in Producers, returnFrame(c) PROVE LockInv'
  BY <1>6 DEF returnFrame, Answer
<1>7. ASSUME NEW c \in Producers, close(c) PROVE LockInv'
  BY <1>7 DEF close, Answer
<1>8. CASE incoming \/ offerResponse \/ serverAnswer \/ serverHeartbeat \/ serverLoses
  BY <1>8 DEF incoming, offerResponse, serverAnswer, serverHeartbeat, serverLoses, callerVars
<1>9. CASE UNCHANGED connVars
  BY <1>9 DEF connVars, callerVars
<1> QED
  BY <1>1, <1>2, <1>3, <1>4, <1>5, <1>6, <1>7, <1>8, <1>9 DEF ConnNext

(* Commands are not used twice: one step                                   *)
LEMMA FreshStep ==
  ConnTypeOK /\ LockInv /\ FreshInv /\ OneThingInv /\ TruthInv /\ [ConnNext]_connVars => FreshInv'
<1> SUFFICES ASSUME ConnTypeOK, LockInv, FreshInv, OneThingInv, TruthInv, [ConnNext]_connVars
             PROVE  FreshInv'
  OBVIOUS
<1> USE ConnectionAssumption
<1> USE DEF ConnTypeOK, LockInv, FreshInv, InFlight, In, Move, Phases, Commands
<1>1. ASSUME NEW c \in Producers, produce(c) PROVE FreshInv'
  <2>1. /\ issued \in Nat /\ issued' = issued + 1 /\ cmd' = [cmd EXCEPT ![c] = issued + 1]
        /\ phase' = [phase EXCEPT ![c] = "offer"] /\ UNCHANGED <<requests, stored, outcome>>
    BY <1>1 DEF produce, wireVars
  <2>2. \A d \in Producers : IF d = c THEN cmd'[d] = issued + 1 /\ phase'[d] = "offer"
                                      ELSE cmd'[d] = cmd[d] /\ phase'[d] = phase[d]
    BY <2>1
  <2>3. \A d \in Producers : cmd[d] # NONE => cmd[d] \in Nat /\ cmd[d] <= issued
    OBVIOUS
  <2>4. /\ requests # NONE => requests \in Nat /\ requests <= issued
        /\ \A n \in stored \cap Commands : n <= issued
        /\ \A n \in Commands : outcome[n] \in {"ok", "refused"} => n <= issued
    OBVIOUS
  <2>5. issued + 1 # NONE
    BY <1>1 DEF produce
  <2>6. /\ \A d \in Producers : cmd'[d] # NONE => cmd'[d] <= issued'
        /\ \A d, e \in Producers : cmd'[d] # NONE /\ cmd'[d] = cmd'[e] => d = e
    BY <2>1, <2>2, <2>3
  <2>7. \A d \in Producers :
          /\ phase'[d] = "offer" => cmd'[d] # requests
          /\ phase'[d] \in {"offer", "clear", "write"} => cmd'[d] \notin stored
    BY <1>1, <2>1, <2>2, <2>4, <2>5 DEF produce
  <2>8. /\ requests' # NONE => requests' <= issued'
        /\ \A n \in Commands : n \in stored' => n <= issued'
        /\ \A n \in Commands : outcome'[n] \in {"ok", "refused"} => n <= issued'
    BY <2>1, <2>4
  <2>9. \A n \in Commands : outcome'[n] = "refused" => n # requests' /\ \A d \in Producers : cmd'[d] # n
    BY <2>1, <2>2, <2>4
  <2> QED
    BY <2>1, <2>6, <2>7, <2>8, <2>9
<1>2. ASSUME NEW c \in Producers, offerRequest(c) PROVE FreshInv'
  BY <1>2 DEF offerRequest, wireVars
<1>3. ASSUME NEW c \in Producers, clearResponses(c) PROVE FreshInv'
  BY <1>3 DEF clearResponses, wireVars
<1>4. ASSUME NEW c \in Producers, command(c) PROVE FreshInv'
  BY <1>4 DEF command
<1>5. ASSUME NEW c \in Producers, pollResponse(c) PROVE FreshInv'
  BY <1>5 DEF pollResponse, wireVars
<1>6. ASSUME NEW c \in Producers, returnFrame(c) PROVE FreshInv'
  <2>1. /\ \A d \in Producers \ {c} : cmd'[d] = cmd[d] /\ phase'[d] = phase[d]
        /\ cmd'[c] \in {cmd[c], NONE} /\ phase'[c] \in {"idle", "close"}
    BY <1>6 DEF returnFrame, Answer
  <2>2. requests' = NONE /\ issued' = issued /\ stored' = stored
    BY <1>6 DEF returnFrame, wireVars
  <2>3. cmd[c] \in Commands /\ cmd[c] <= issued
    BY <1>6 DEF returnFrame
  <2>4. ASSUME NEW n \in Commands, outcome'[n] # outcome[n]
        PROVE  n = cmd[c] /\ \A d \in Producers : cmd'[d] # n
    BY <1>6, <2>3, <2>4 DEF returnFrame, Answer
  <2>5. ASSUME NEW n \in Commands, outcome'[n] = "refused"
        PROVE  n <= issued /\ \A d \in Producers : cmd'[d] # n
    BY <2>1, <2>3, <2>4, <2>5
  <2>6. \A n \in Commands : outcome'[n] = "ok" => n <= issued
    BY <2>3, <2>4
  <2>7. \A d \in Producers : cmd'[d] # NONE => cmd'[d] = cmd[d] /\ cmd'[d] <= issued
    BY <2>1, <2>3
  <2>8. \A d, e \in Producers : cmd'[d] # NONE /\ cmd'[d] = cmd'[e] => d = e
    BY <2>7
  <2>9. \A d \in Producers : phase'[d] \in {"offer", "clear", "write"} =>
          /\ phase'[d] = phase[d] /\ cmd'[d] = cmd[d]
          /\ cmd'[d] # NONE /\ cmd'[d] \notin stored
    BY <2>1
  <2> QED
    BY <2>2, <2>5, <2>6, <2>7, <2>8, <2>9
<1>7. ASSUME NEW c \in Producers, close(c) PROVE FreshInv'
  BY <1>7 DEF close, Answer
<1>8. CASE incoming
  BY <1>8 DEF incoming, callerVars
<1>9. CASE offerResponse
  BY <1>9 DEF offerResponse, callerVars, wireVars
<1>10. CASE serverAnswer
  <2> DEFINE x == Head(toServer)
  <2>1. CASE x = NOP
    BY <1>10, <2>1 DEF serverAnswer, callerVars
  <2>2. CASE x # NOP
    <3>1. AtServer(1) /\ x = toServer[1]
      BY <1>10, <2>2, TailFacts DEF serverAnswer, AtServer
    <3>2. x = requests /\ requests # NONE
      BY <3>1 DEF OneThingInv, Quiet
    <3>3. \A c \in Producers : phase[c] \in {"offer", "clear", "write"} => cmd[c] # x
      BY <3>1, <3>2 DEF OneThingInv, Quiet
    <3>4. stored' \subseteq stored \cup {x}
      BY <1>10, <2>2 DEF serverAnswer
    <3>5. UNCHANGED <<requests, callerVars>>
      BY <1>10 DEF serverAnswer
    <3> QED
      BY <3>2, <3>3, <3>4, <3>5 DEF callerVars
  <2> QED
    BY <2>1, <2>2
<1>11. CASE serverHeartbeat
  BY <1>11 DEF serverHeartbeat, callerVars
<1>12. CASE serverLoses
  BY <1>12 DEF serverLoses, callerVars
<1>13. CASE UNCHANGED connVars
  BY <1>13 DEF connVars, callerVars, wireVars
<1> QED
  BY <1>1, <1>2, <1>3, <1>4, <1>5, <1>6, <1>7, <1>8, <1>9, <1>10, <1>11, <1>12, <1>13
  DEF ConnNext

-----------------------------------------------------------------------------
(* What a write, and a frame taken or added, change of what is under way   *)
LEMMA ServerWrite ==
  ASSUME ConnTypeOK, NEW x \in Commands \cup {NOP}, Write(x)
  PROVE  /\ \A i : AtServer(i) => AtServer(i)' /\ toServer'[i] = toServer[i]
         /\ \A i : AtServer(i)' =>
              \/ AtServer(i)
              \/ x # NOP /\ i = Len(toServer) + 1 /\ toServer'[i] = x
<1> DEFINE S == Commands \cup {IDENTIFY, NOP}
<1>1. toServer \in Seq(S) /\ x \in S
  BY DEF ConnTypeOK
<1>2. CASE ~open
  BY <1>1, <1>2 DEF Write, AtServer
<1>3. CASE open
  <2>1. toServer' = Append(toServer, x)
    BY <1>3 DEF Write
  <2>2. /\ Len(toServer) \in Nat /\ Len(toServer') = Len(toServer) + 1
        /\ \A i \in 1 .. Len(toServer) : toServer'[i] = toServer[i]
        /\ toServer'[Len(toServer) + 1] = x
    BY <1>1, <2>1, AppendFacts
  <2>3. NOP' = NOP
    BY DEF NOP
  <2> QED
    BY <2>2, <2>3 DEF AtServer
<1> QED
  BY <1>2, <1>3

LEMMA ServerTail ==
  ASSUME ConnTypeOK, toServer # <<>>, toServer' = Tail(toServer)
  PROVE  /\ Head(toServer) = toServer[1] /\ (Head(toServer) # NOP => AtServer(1))
         /\ \A i : AtServer(i)' => /\ i \in Nat \ {0}
                                   /\ AtServer(i + 1) /\ toServer'[i] = toServer[i + 1]
<1>1. toServer \in Seq(Commands \cup {IDENTIFY, NOP})
  BY DEF ConnTypeOK
<1>2. /\ Head(toServer) = toServer[1] /\ Len(toServer) \in Nat \ {0}
      /\ Len(toServer') = Len(toServer) - 1
      /\ \A i \in 1 .. Len(toServer) - 1 : toServer'[i] = toServer[i + 1]
  BY <1>1, TailFacts
<1> QED
  BY <1>2 DEF AtServer

LEMMA ClientTail ==
  ASSUME ConnTypeOK, toClient # <<>>, toClient' = Tail(toClient)
  PROVE  /\ Head(toClient) = toClient[1] /\ Head(toClient) \in Frames
         /\ (Head(toClient) # Heartbeat => Coming(1))
         /\ \A i : Coming(i)' => /\ i \in Nat \ {0}
                                 /\ Coming(i + 1) /\ toClient'[i] = toClient[i + 1]
<1>1. toClient \in Seq(Frames)
  BY DEF ConnTypeOK
<1>2. /\ Head(toClient) = toClient[1] /\ Len(toClient) \in Nat \ {0}
      /\ Head(toClient) \in Frames
      /\ Len(toClient') = Len(toClient) - 1
      /\ \A i \in 1 .. Len(toClient) - 1 : toClient'[i] = toClient[i + 1]
  BY <1>1, TailFacts
<1> QED
  BY <1>2 DEF Coming

LEMMA ClientAppend ==
  ASSUME ConnTypeOK, NEW f \in Frames, toClient' = Append(toClient, f)
  PROVE  /\ \A i : Coming(i) => Coming(i)' /\ toClient'[i] = toClient[i]
         /\ \A i : Coming(i)' =>
              \/ Coming(i)
              \/ f # Heartbeat /\ i = Len(toClient) + 1 /\ toClient'[i] = f
<1>1. toClient \in Seq(Frames)
  BY DEF ConnTypeOK
<1>2. /\ Len(toClient) \in Nat /\ Len(toClient') = Len(toClient) + 1
      /\ \A i \in 1 .. Len(toClient) : toClient'[i] = toClient[i]
      /\ toClient'[Len(toClient) + 1] = f
  BY <1>1, AppendFacts
<1> QED
  BY <1>2 DEF Coming

(* What is under way belongs to the command in requests: one step          *)
LEMMA OneThingStep ==
  ConnTypeOK /\ LockInv /\ FreshInv /\ OneThingInv /\ TruthInv /\ [ConnNext]_connVars => OneThingInv'
<1> SUFFICES ASSUME ConnTypeOK, LockInv, FreshInv, OneThingInv, TruthInv, [ConnNext]_connVars
             PROVE  OneThingInv'
  OBVIOUS
<1> USE ConnectionAssumption
<1>w. UNCHANGED toServer => \A i : AtServer(i)' <=> AtServer(i)
  BY DEF AtServer
<1>c. UNCHANGED toClient => \A i : Coming(i)' <=> Coming(i)
  BY DEF Coming
<1>1. ASSUME NEW c \in Producers, produce(c) PROVE OneThingInv'
  BY <1>1, <1>w, <1>c DEF produce, wireVars, OneThingInv, Quiet, In, Move, ConnTypeOK
<1>2. ASSUME NEW c \in Producers, offerRequest(c) PROVE OneThingInv'
  <2>1. CASE requests = NONE
    <3>1. Quiet /\ Quiet'
      BY <1>2, <2>1, <1>w, <1>c DEF OneThingInv, Quiet, offerRequest, wireVars
    <3> QED
      BY <3>1 DEF OneThingInv, Quiet
  <2>2. CASE requests # NONE
    BY <1>2, <2>2, <1>w, <1>c
    DEF OneThingInv, Quiet, offerRequest, wireVars, In, Move, ConnTypeOK
  <2> QED
    BY <2>1, <2>2
<1>3. ASSUME NEW c \in Producers, clearResponses(c) PROVE OneThingInv'
  <2>1. Quiet /\ Quiet'
    BY <1>3, <1>w, <1>c DEF OneThingInv, Quiet, clearResponses, wireVars, In
  <2> QED
    BY <2>1 DEF OneThingInv, Quiet
<1>4. ASSUME NEW c \in Producers, command(c) PROVE OneThingInv'
  <2>1. Quiet /\ cmd[c] \in Commands /\ requests = cmd[c] /\ requests # NONE
    BY <1>4 DEF command, In, OneThingInv, LockInv, InFlight
  <2>2. \A i : AtServer(i)' => i = Len(toServer) + 1 /\ toServer'[i] = requests
    BY <1>4, <2>1, ServerWrite DEF command, Quiet
  <2>3. \A d \in Producers : phase'[d] \notin {"clear", "write", "got"}
    BY <1>4 DEF command, In, Move, LockInv, InFlight, ConnTypeOK
  <2> QED
    BY <1>4, <2>1, <2>2, <2>3, <1>c DEF command, OneThingInv, Quiet
<1>5. ASSUME NEW c \in Producers, pollResponse(c) PROVE OneThingInv'
  <2>1. requests # NONE /\ \A d \in Producers \ {c} : phase[d] \notin InFlight
    BY <1>5 DEF pollResponse, In, LockInv, InFlight
  <2>2. responses # NONE => Quiet'
    BY <1>5, <1>w, <1>c DEF pollResponse, wireVars, OneThingInv, Quiet
  <2>3. \A d \in Producers : phase'[d] \in {"clear", "write", "got"} => responses # NONE
    BY <1>5, <2>1 DEF pollResponse, Move, ConnTypeOK, InFlight
  <2> QED
    BY <1>5, <2>1, <2>2, <2>3, <1>w, <1>c DEF pollResponse, wireVars, OneThingInv, Quiet
<1>6. ASSUME NEW c \in Producers, returnFrame(c) PROVE OneThingInv'
  <2>1. Quiet /\ Quiet'
    BY <1>6, <1>w, <1>c DEF OneThingInv, Quiet, returnFrame, wireVars, In
  <2> QED
    BY <2>1 DEF OneThingInv, Quiet
<1>7. ASSUME NEW c \in Producers, close(c) PROVE OneThingInv'
  BY <1>7, <1>w, <1>c DEF close, Answer, OneThingInv, Quiet, In, Move, ConnTypeOK
<1>8. CASE incoming
  <2> DEFINE f == Head(toClient)
  <2>1. /\ f = toClient[1] /\ f \in Frames /\ (f # Heartbeat => Coming(1))
        /\ \A i : Coming(i)' => i \in Nat \ {0} /\ Coming(i + 1) /\ toClient'[i] = toClient[i + 1]
    BY <1>8, ClientTail DEF incoming
  <2>2. requests' = requests /\ phase' = phase
    BY <1>8 DEF incoming, callerVars
  <2>3. CASE f = Heartbeat
    <3>1. Write(NOP) /\ UNCHANGED <<executor, responses>>
      BY <1>8, <2>3 DEF incoming, Heartbeat
    <3>2. \A i : AtServer(i)' => AtServer(i) /\ toServer'[i] = toServer[i]
      BY <3>1, ServerWrite
    <3> QED
      BY <2>1, <2>2, <3>1, <3>2 DEF OneThingInv, Quiet
  <2>4. CASE f # Heartbeat
    <3>1. Coming(1) /\ f.cmd = requests /\ requests # NONE /\ f \in Answers
      BY <2>1, <2>4 DEF OneThingInv, Quiet, Frames
    <3>2. executor = NONE /\ responses = NONE /\ \A i : ~AtServer(i) /\ ~Coming(i)'
      BY <2>1, <3>1 DEF OneThingInv
    <3>3. UNCHANGED toServer /\ executor' \in {NONE, f} /\ responses' \in {NONE, f}
          /\ (executor' = NONE \/ responses' = NONE)
      BY <1>8, <3>1, <3>2 DEF incoming, Answers
    <3>4. \A d \in Producers : phase[d] \notin {"clear", "write", "got"}
      BY <3>1 DEF OneThingInv, Quiet
    <3> QED
      BY <2>2, <3>1, <3>2, <3>3, <3>4, <1>w DEF OneThingInv, Quiet
  <2> QED
    BY <2>3, <2>4
<1>9. CASE offerResponse
  BY <1>9, <1>w, <1>c DEF offerResponse, callerVars, wireVars, OneThingInv, Quiet
<1>10. CASE serverAnswer
  <2> DEFINE x == Head(toServer)
  <2>1. /\ x = toServer[1] /\ (x # NOP => AtServer(1))
        /\ \A i : AtServer(i)' => i \in Nat \ {0} /\ AtServer(i + 1) /\ toServer'[i] = toServer[i + 1]
    BY <1>10, ServerTail DEF serverAnswer
  <2>2. UNCHANGED <<requests, responses, executor, phase>>
    BY <1>10 DEF serverAnswer, callerVars
  <2>3. CASE x = NOP
    <3>1. UNCHANGED toClient
      BY <1>10, <2>3 DEF serverAnswer
    <3>2. \A i, j : AtServer(i)' /\ AtServer(j)' => i = j
      BY <2>1 DEF OneThingInv
    <3> QED
      BY <2>1, <2>2, <3>1, <3>2, <1>c DEF OneThingInv, Quiet
  <2>4. CASE x # NOP
    <3>1. AtServer(1) /\ x = requests /\ requests # NONE
      BY <2>1, <2>4 DEF OneThingInv, Quiet
    <3>2. executor = NONE /\ responses = NONE /\ \A i : ~Coming(i) /\ ~AtServer(i)'
      BY <2>1, <3>1 DEF OneThingInv
    <3>3. \A d \in Producers : phase[d] \notin {"clear", "write", "got"}
      BY <3>1 DEF OneThingInv, Quiet
    <3>4. PICK k \in {"response", "error", "badTopic"} :
            toClient' = IF open THEN Append(toClient, [kind |-> k, cmd |-> x]) ELSE toClient
      BY <1>10, <2>4 DEF serverAnswer
    <3>5. [kind |-> k, cmd |-> x] \in Frames
      BY <3>1 DEF Frames, Answers, ConnTypeOK
    <3>6. \A i : Coming(i)' => i = Len(toClient) + 1 /\ toClient'[i].cmd = requests
      BY <3>1, <3>2, <3>4, <3>5, <1>c, ClientAppend
    <3> QED
      BY <2>2, <3>1, <3>2, <3>3, <3>6 DEF OneThingInv, Quiet
  <2> QED
    BY <2>3, <2>4
<1>11. CASE serverHeartbeat
  <2>1. \A i : Coming(i)' => Coming(i) /\ toClient'[i] = toClient[i]
    BY <1>11, ClientAppend DEF serverHeartbeat, Frames
  <2> QED
    BY <1>11, <2>1, <1>w DEF serverHeartbeat, callerVars, OneThingInv, Quiet
<1>12. CASE serverLoses
  <2>1. \A i : ~AtServer(i)'
    BY <1>12 DEF serverLoses, AtServer
  <2> QED
    BY <1>12, <2>1, <1>c DEF serverLoses, callerVars, OneThingInv, Quiet
<1>13. CASE UNCHANGED connVars
  BY <1>13, <1>w, <1>c DEF connVars, callerVars, wireVars, OneThingInv, Quiet
<1> QED
  BY <1>1, <1>2, <1>3, <1>4, <1>5, <1>6, <1>7, <1>8, <1>9, <1>10, <1>11, <1>12, <1>13
  DEF ConnNext

(* Answers stay truthful: one step                                         *)
LEMMA TruthStep ==
  ConnTypeOK /\ LockInv /\ FreshInv /\ OneThingInv /\ TruthInv /\ [ConnNext]_connVars => TruthInv'
<1> SUFFICES ASSUME ConnTypeOK, LockInv, FreshInv, OneThingInv, TruthInv, [ConnNext]_connVars
             PROVE  TruthInv'
  OBVIOUS
<1> USE ConnectionAssumption
<1>w. UNCHANGED toServer => \A i : AtServer(i)' <=> AtServer(i)
  BY DEF AtServer
<1>c. UNCHANGED toClient => \A i : Coming(i)' <=> Coming(i)
  BY DEF Coming
<1>1. ASSUME NEW c \in Producers, produce(c) PROVE TruthInv'
  BY <1>1, <1>w, <1>c
  DEF produce, wireVars, TruthInv, Truthful, ReportsTheTruth, In, Move, ConnTypeOK
<1>2. ASSUME NEW c \in Producers, offerRequest(c) PROVE TruthInv'
  BY <1>2, <1>w, <1>c
  DEF offerRequest, wireVars, TruthInv, Truthful, ReportsTheTruth, In, Move, ConnTypeOK
<1>3. ASSUME NEW c \in Producers, clearResponses(c) PROVE TruthInv'
  BY <1>3, <1>w, <1>c
  DEF clearResponses, wireVars, TruthInv, Truthful, ReportsTheTruth, In, Move, ConnTypeOK
<1>4. ASSUME NEW c \in Producers, command(c) PROVE TruthInv'
  <2>1. cmd[c] \in Commands /\ cmd[c] \notin stored
    BY <1>4 DEF command, In, LockInv, FreshInv
  <2>2. \A i : AtServer(i)' => toServer'[i] \notin stored
    BY <1>4, <2>1, ServerWrite DEF command, TruthInv
  <2> QED
    BY <1>4, <2>2, <1>c
    DEF command, TruthInv, Truthful, ReportsTheTruth, In, Move, ConnTypeOK
<1>5. ASSUME NEW c \in Producers, pollResponse(c) PROVE TruthInv'
  <2>1. responses # NONE => responses.cmd = cmd[c] /\ Truthful(responses)
    BY <1>5 DEF pollResponse, In, LockInv, InFlight, OneThingInv, TruthInv
  <2>2. \A d \in Producers : phase'[d] = "got" => frame'[d].cmd = cmd[d] /\ Truthful(frame'[d])
    BY <1>5, <2>1 DEF pollResponse, In, Move, ConnTypeOK, TruthInv
  <2> QED
    BY <1>5, <2>2, <1>w, <1>c
    DEF pollResponse, wireVars, TruthInv, Truthful, ReportsTheTruth
<1>6. ASSUME NEW c \in Producers, returnFrame(c) PROVE TruthInv'
  <2>1. cmd[c] \in Commands /\ frame[c].cmd = cmd[c] /\ Truthful(frame[c])
    BY <1>6 DEF returnFrame, In, LockInv, TruthInv
  <2>2. \A n \in Commands : outcome'[n] # outcome[n] =>
          /\ n = cmd[c]
          /\ \/ outcome'[n] = "ok" /\ n \in stored
             \/ outcome'[n] = "refused" /\ n \notin stored
    BY <1>6, <2>1 DEF returnFrame, Answer, Truthful, ConnTypeOK
  <2>3. ReportsTheTruth'
    BY <1>6, <2>2 DEF returnFrame, wireVars, ReportsTheTruth, TruthInv
  <2>4. \A d \in Producers : phase'[d] = "got" =>
          phase[d] = "got" /\ cmd'[d] = cmd[d] /\ frame'[d] = frame[d]
    BY <1>6 DEF returnFrame, Answer, Move, In, ConnTypeOK
  <2> QED
    BY <1>6, <2>3, <2>4, <1>w, <1>c DEF returnFrame, wireVars, TruthInv, Truthful
<1>7. ASSUME NEW c \in Producers, close(c) PROVE TruthInv'
  <2>1. ReportsTheTruth'
    BY <1>7 DEF close, Answer, ReportsTheTruth, TruthInv, ConnTypeOK
  <2>2. \A d \in Producers : phase'[d] = "got" =>
          phase[d] = "got" /\ cmd'[d] = cmd[d] /\ frame'[d] = frame[d]
    BY <1>7 DEF close, Answer, Move, In, ConnTypeOK
  <2> QED
    BY <1>7, <2>1, <2>2, <1>w, <1>c DEF close, TruthInv, Truthful
<1>8. CASE incoming
  <2> DEFINE f == Head(toClient)
  <2>1. /\ f = toClient[1] /\ f \in Frames /\ (f # Heartbeat => Coming(1))
        /\ \A i : Coming(i)' => i \in Nat \ {0} /\ Coming(i + 1) /\ toClient'[i] = toClient[i + 1]
    BY <1>8, ClientTail DEF incoming
  <2>2. \A i : AtServer(i)' => AtServer(i) /\ toServer'[i] = toServer[i]
    BY <1>8, <1>w, ServerWrite DEF incoming
  <2>3. f # Heartbeat => Truthful(f)
    BY <2>1 DEF TruthInv
  <2>4. f.kind # "heartbeat" => f # Heartbeat
    BY DEF Heartbeat
  <2>5. (executor' # NONE => Truthful(executor')) /\ (responses' # NONE => Truthful(responses'))
    BY <1>8, <2>3, <2>4 DEF incoming, TruthInv
  <2>6. UNCHANGED <<stored, phase, cmd, frame, outcome>>
    BY <1>8 DEF incoming, callerVars
  <2>7. \A i : Coming(i)' => Truthful(toClient'[i])
    BY <2>1 DEF TruthInv
  <2> QED
    BY <2>2, <2>5, <2>6, <2>7 DEF TruthInv, Truthful, ReportsTheTruth
<1>9. CASE offerResponse
  BY <1>9, <1>w, <1>c
  DEF offerResponse, callerVars, wireVars, TruthInv, Truthful, ReportsTheTruth
<1>10. CASE serverAnswer
  <2> DEFINE x == Head(toServer)
  <2>1. /\ x = toServer[1] /\ (x # NOP => AtServer(1))
        /\ \A i : AtServer(i)' => i \in Nat \ {0} /\ AtServer(i + 1) /\ toServer'[i] = toServer[i + 1]
    BY <1>10, ServerTail DEF serverAnswer
  <2>2. UNCHANGED <<requests, responses, executor, phase, cmd, frame, outcome>>
    BY <1>10 DEF serverAnswer, callerVars
  <2>3. CASE x = NOP
    <3>1. UNCHANGED <<toClient, stored>>
      BY <1>10, <2>3 DEF serverAnswer
    <3> QED
      BY <2>1, <2>2, <3>1, <1>c DEF TruthInv, Truthful, ReportsTheTruth
  <2>4. CASE x # NOP
    <3>1. AtServer(1) /\ x = requests /\ requests # NONE /\ x \notin stored
      BY <2>1, <2>4 DEF OneThingInv, Quiet, TruthInv
    <3>2. executor = NONE /\ responses = NONE /\ \A i : ~Coming(i) /\ ~AtServer(i)'
      BY <2>1, <3>1 DEF OneThingInv
    <3>3. \A d \in Producers : phase[d] # "got"
      BY <3>1 DEF OneThingInv, Quiet
    <3>4. PICK k \in {"response", "error", "badTopic"} :
            /\ stored' = IF k = "response" THEN stored \cup {x} ELSE stored
            /\ toClient' = IF open THEN Append(toClient, [kind |-> k, cmd |-> x])
                           ELSE toClient
      BY <1>10, <2>4 DEF serverAnswer
    <3> DEFINE a == [kind |-> k, cmd |-> x]
    <3>5. a \in Frames
      BY <3>1 DEF Frames, Answers, ConnTypeOK
    <3>6. \A i : Coming(i)' => toClient'[i] = a
      BY <3>2, <3>4, <3>5, <1>c, ClientAppend
    <3>7. a.kind = "response" <=> a.cmd \in stored'
      BY <3>1, <3>4
    <3>8. ReportsTheTruth'
      BY <2>2, <3>1, <3>4 DEF ReportsTheTruth, TruthInv, FreshInv
    <3> QED
      BY <2>2, <3>2, <3>3, <3>6, <3>7, <3>8 DEF TruthInv, Truthful
  <2> QED
    BY <2>3, <2>4
<1>11. CASE serverHeartbeat
  <2>1. \A i : Coming(i)' => Coming(i) /\ toClient'[i] = toClient[i]
    BY <1>11, ClientAppend DEF serverHeartbeat, Frames
  <2> QED
    BY <1>11, <2>1, <1>w
    DEF serverHeartbeat, callerVars, TruthInv, Truthful, ReportsTheTruth
<1>12. CASE serverLoses
  <2>1. \A i : ~AtServer(i)'
    BY <1>12 DEF serverLoses, AtServer
  <2> QED
    BY <1>12, <2>1, <1>c
    DEF serverLoses, callerVars, TruthInv, Truthful, ReportsTheTruth
<1>13. CASE UNCHANGED connVars
  BY <1>13, <1>w, <1>c
  DEF connVars, callerVars, wireVars, TruthInv, Truthful, ReportsTheTruth
<1> QED
  BY <1>1, <1>2, <1>3, <1>4, <1>5, <1>6, <1>7, <1>8, <1>9, <1>10, <1>11, <1>12, <1>13
  DEF ConnNext

-----------------------------------------------------------------------------
(* The initial states                                                      *)
LEMMA InitLock == ConnInit => ConnTypeOK /\ LockInv
<1> SUFFICES ASSUME ConnInit PROVE ConnTypeOK /\ LockInv
  OBVIOUS
<1>1. toServer \in Seq(Commands \cup {IDENTIFY, NOP})
  <2>1. <<IDENTIFY>> \in Seq(Commands \cup {IDENTIFY, NOP})
    OBVIOUS
  <2>2. <<>> \in Seq(Commands \cup {IDENTIFY, NOP})
    OBVIOUS
  <2>3. toServer = <<IDENTIFY>> \/ toServer = <<>>
    BY DEF ConnInit
  <2> QED
    BY <2>1, <2>2, <2>3
<1> QED
  BY <1>1, ConnectionAssumption DEF ConnInit, ConnTypeOK, LockInv, InFlight, Phases, In

LEMMA AnswerInit == Identified /\ ConnInit => AnswerInv
<1> SUFFICES ASSUME Identified, ConnInit PROVE AnswerInv
  OBVIOUS
<1>1. Quiet
  BY DEF ConnInit, Quiet, AtServer, Coming
<1>2. FreshInv
  BY ConnectionAssumption DEF ConnInit, FreshInv, Commands
<1>3. OneThingInv
  BY <1>1 DEF OneThingInv, Quiet
<1>4. TruthInv
  BY <1>1 DEF ConnInit, TruthInv, Quiet, ReportsTheTruth
<1> QED
  BY <1>2, <1>3, <1>4, InitLock DEF AnswerInv

(* Every variable of Connection keeps its type, and commandAndWait never   *)
(* returns null, for any number of callers, commands and heartbeats.       *)
THEOREM TypeCorrect == ConnSpec => []ConnTypeOK
<1>1. ConnTypeOK /\ LockInv /\ [ConnNext]_connVars => (ConnTypeOK /\ LockInv)'
  BY TypeStep, LockStep
<1> QED
  BY <1>1, InitLock, PTL DEF ConnSpec

(* requests, the queue of capacity 1, is a lock that its holder finds      *)
(* unchanged: at most one caller is inside commandAndWait's exchange, even *)
(* after timeouts and closed channels.                                     *)
THEOREM RequestsIsALock == ConnSpec => []OneRequestInFlight
<1>1. ConnTypeOK /\ LockInv /\ [ConnNext]_connVars => (ConnTypeOK /\ LockInv)'
  BY TypeStep, LockStep
<1>2. LockInv => OneRequestInFlight
  BY DEF LockInv, InFlight, OneRequestInFlight
<1> QED
  BY <1>1, <1>2, InitLock, PTL DEF ConnSpec

(* On a connection whose answer to IDENTIFY has come before the first      *)
(* command, produce() tells every caller what the server did with that     *)
(* caller's own message, however late answers are and whoever times out.   *)
THEOREM AnswersBelong == Identified /\ ConnSpec => []ReportsTheTruth
<1>1. AnswerInv /\ [ConnNext]_connVars => AnswerInv'
  BY TypeStep, LockStep, FreshStep, OneThingStep, TruthStep DEF AnswerInv
<1>2. AnswerInv => ReportsTheTruth
  BY DEF AnswerInv, TruthInv
<1> QED
  BY <1>1, <1>2, AnswerInit, PTL DEF ConnSpec

-----------------------------------------------------------------------------
(***************************************************************************)
(* NsqClient.                                                              *)
(*                                                                         *)
(* The size of the pool rests on the client's monitor: connect() computes  *)
(* once how many connections are missing (num), and the list can only      *)
(* shrink until it has created them, because no other thread is inside     *)
(* connect() (Exclusive).  That no open connection is forgotten rests on   *)
(* the threads that remove one: its channel is closed (Closed), also for   *)
(* close(), whose copy of the list has every open connection because       *)
(* nobody can add one without the monitor of Connections (Closing).        *)
(***************************************************************************)
(* TypeOK without the one Boolean variable                                 *)
Types ==
  /\ {client, monitor} \subseteq Threads \cup {NULL}
  /\ list \subseteq Conns /\ attached \subseteq Conns
  /\ events \subseteq Conns /\ stale \subseteq Conns
  /\ channel \in [Conns -> {"none", "open", "closed"}]
  /\ drops \in 0 .. MaxDrops
  /\ pc \in [Threads -> Labels]
  /\ conn \in [Threads -> Conns \cup {NULL}]
  /\ \A t \in Threads : pc[t] \in {"attach", "add", "gone", "io", "out"} => conn[t] \in
          Conns
  /\ num \in [Threads -> 0 .. Poolsize]
  /\ todo \in [Threads -> SUBSET Conns]
  /\ tries \in [Threads -> 0 .. connectionRetries]

Inside == {"size", "create", "attach", "add", "snap", "old", "gone", "next", "io"}

(* Who is inside connect(), getConn() or _disconnected() has the monitor   *)
Exclusive == \A t \in Threads : pc[t] \in Inside => client = t

(* What is missing, and what connect() is still going to create            *)
Pool ==
  /\ IsFiniteSet(list) /\ Cardinality(list) <= Poolsize
  /\ \A t \in Threads : pc[t] \in {"create", "attach", "add"} =>
       num[t] + Cardinality(list) <= Poolsize
  /\ \A t \in Threads : Creating(t) => num[t] > 0

(* A connection that is reported or removed is closed                      *)
Closed ==
  /\ \A x \in events : channel[x] = "closed"
  /\ \A t \in Threads : pc[t] \in {"gone", "io", "out"} => channel[conn[t]] = "closed"

(* The thread in Connections.close() knows every open connection           *)
Closing ==
  pc["closer"] \in {"shut", "out"} =>
    /\ monitor = "closer"
    /\ \A x \in list : x \in todo["closer"] \/ channel[x] = "closed"

Inv == Types /\ Exclusive /\ Pool /\ Closed /\ Closing /\ NoForgottenConnection

-----------------------------------------------------------------------------
LEMMA Members == "timer" \in Threads /\ "io" \in Threads /\ "closer" \in Threads
BY DEF Threads

LEMMA InitInv == Init => Inv
<1> SUFFICES ASSUME Init PROVE Inv
  OBVIOUS
<1>1. list \subseteq Conns
  BY NsqClientAssumption DEF Init, Conns
<1>2. Types
  BY <1>1, NsqClientAssumption DEF Init, Types, Labels
<1>3. Exclusive /\ Closed /\ Closing
  BY Members DEF Init, Exclusive, Closed, Closing, Inside
<1>4. IsFiniteSet(list) /\ Cardinality(list) <= Poolsize
  <2>1. IsFiniteSet({}) /\ Cardinality({}) = 0
    BY FS_EmptySet
  <2>2. IsFiniteSet(1 .. Poolsize) /\ Cardinality(1 .. Poolsize) = Poolsize
    BY FS_Interval, NsqClientAssumption
  <2>3. list = {} \/ list = 1 .. Poolsize
    BY DEF Init
  <2>4. Poolsize \in Nat
    BY NsqClientAssumption
  <2> QED
    BY <2>1, <2>2, <2>3, <2>4
<1>5. Pool
  BY <1>4 DEF Init, Pool, Creating
<1>6. NoForgottenConnection
  BY DEF Init, NoForgottenConnection
<1> QED
  BY <1>2, <1>3, <1>5, <1>6 DEF Inv

(* Any step: by the thread t or about the connection x                     *)
Step(t, x) ==
  \/ timerRun \/ connectionSize(t) \/ createConnection(t) \/ attach(t)
  \/ addConnection(t) \/ cleanupOldConnections(t) \/ closeOld(t) \/ removeOld(t)
  \/ getConn(t) \/ next(t)
  \/ channelDisconnected(x) \/ disconnected
  \/ closeClient \/ closeConnections \/ closeEach \/ closedOne
  \/ drop(x) \/ expire(x) \/ silent(x)

LEMMA SomeStep == Next => \E t \in Threads, x \in Conns : Step(t, x)
<1>1. 1 \in Conns
  BY NsqClientAssumption DEF Conns
<1> QED
  BY <1>1 DEF Next, Step, connect, Io, Close, Threads

(* createConnection gets a channel, is refused, or there are enough        *)
Opens(t, x) ==
  /\ pc[t] = "create" /\ num[t] > 0 /\ channel[x] = "none"
  /\ channel' = [channel EXCEPT ![x] = "open"]
  /\ conn' = [conn EXCEPT ![t] = x]
  /\ pc' = [pc EXCEPT ![t] = "attach"]
  /\ UNCHANGED <<client, monitor, list, attached, events, stale, drops, num, todo, tries>>

Refuses(t) ==
  /\ pc[t] = "create" /\ num[t] > 0 /\ drops < MaxDrops
  /\ drops' = drops + 1
  /\ num' = [num EXCEPT ![t] = num[t] - 1]
  /\ \/ pc' = pc /\ client' = client
     \/ pc' = [pc EXCEPT ![t] = "dead"] /\ client' = NULL
  /\ UNCHANGED <<monitor, list, channel, attached, events, stale, conn, todo, tries>>

Suffices(t) ==
  /\ pc[t] = "create" /\ num[t] <= 0
  /\ pc' = [pc EXCEPT ![t] = "snap"]
  /\ UNCHANGED <<client, monitor, list, channel, attached, events, stale, drops, conn, num,
                 todo, tries>>

LEMMA Creates ==
  ASSUME NEW t \in Threads, createConnection(t)
  PROVE  (\E x \in Conns : Opens(t, x)) \/ Refuses(t) \/ Suffices(t)
<1> DEFINE Got == /\ num[t] > 0 /\ Goto(t, "attach") /\ UNCHANGED <<client, num, drops>>
                  /\ \E x \in New : /\ channel' = [channel EXCEPT ![x] = "open"]
                                    /\ conn' = [conn EXCEPT ![t] = x]
<1>1. CASE Got
  BY <1>1 DEF createConnection, Opens, At, Goto, New
<1>2. CASE ~Got
  BY <1>2 DEF createConnection, Refuses, Suffices, At, Goto
<1> QED
  BY <1>1, <1>2

LEMMA TypesPreserved == Inv /\ [Next]_vars => Types'
<1> SUFFICES ASSUME Inv, [Next]_vars PROVE Types'
  OBVIOUS
<1> USE NsqClientAssumption, Members DEF Inv, Types, At, Goto, Labels
<1>0. CASE UNCHANGED vars
  BY <1>0 DEF vars, netVars, locals
<1> SUFFICES ASSUME NEW t \in Threads, NEW x \in Conns, Step(t, x) PROVE Types'
  BY <1>0, SomeStep
<1>1. CASE timerRun
  BY <1>1 DEF timerRun, netVars, locals
<1>2. CASE connectionSize(t)
  <2>1. Cardinality(list) \in Nat /\ Cardinality(list) <= Poolsize
    BY FS_CardinalityType DEF Pool
  <2> QED
    BY <1>2, <2>1 DEF connectionSize, netVars
<1>3. CASE createConnection(t)
  <2>1. ASSUME NEW y \in Conns, Opens(t, y) PROVE Types'
    BY <2>1 DEF Opens
  <2>2. CASE Refuses(t)
    BY <2>2 DEF Refuses
  <2>3. CASE Suffices(t)
    BY <2>3 DEF Suffices
  <2> QED
    BY <1>3, <2>1, <2>2, <2>3, Creates
<1>4. CASE attach(t)
  BY <1>4 DEF attach, netVars, locals
<1>5. CASE addConnection(t)
  <2>1. conn[t] \in Conns /\ num[t] > 0
    BY <1>5 DEF addConnection, Pool, Creating
  <2> QED
    BY <1>5, <2>1 DEF addConnection, netVars
<1>6. CASE cleanupOldConnections(t)
  BY <1>6 DEF cleanupOldConnections, netVars, locals
<1>7. CASE closeOld(t)
  BY <1>7 DEF closeOld, closeChannel, connected, netVars, locals
<1>8. CASE removeOld(t)
  BY <1>8 DEF removeOld, netVars, locals
<1>9. CASE getConn(t)
  BY <1>9 DEF getConn, netVars, locals
<1>10. CASE next(t)
  BY <1>10 DEF next, netVars, locals
<1>11. CASE channelDisconnected(x)
  BY <1>11 DEF channelDisconnected, netVars, locals
<1>12. CASE disconnected
  BY <1>12 DEF disconnected, netVars, locals
<1>13. CASE closeClient
  BY <1>13 DEF closeClient, netVars, locals
<1>14. CASE closeConnections
  BY <1>14 DEF closeConnections, netVars, locals
<1>15. CASE closeEach
  BY <1>15 DEF closeEach, closeChannel, netVars, locals
<1>16. CASE closedOne
  BY <1>16 DEF closedOne, netVars, locals
<1>17. CASE drop(x)
  BY <1>17 DEF drop, netVars, locals
<1>18. CASE expire(x)
  BY <1>18 DEF expire, netVars, locals
<1>19. CASE silent(x)
  BY <1>19 DEF silent, netVars, locals
<1> QED
  BY <1>1, <1>2, <1>3, <1>4, <1>5, <1>6, <1>7, <1>8, <1>9, <1>10, <1>11, <1>12, <1>13,
     <1>14, <1>15, <1>16, <1>17, <1>18, <1>19 DEF Step

LEMMA ExclusivePreserved == Inv /\ [Next]_vars => Exclusive'
<1> SUFFICES ASSUME Inv, [Next]_vars PROVE Exclusive'
  OBVIOUS
<1> USE NsqClientAssumption, Members DEF Inv, Types, Exclusive, Inside, At, Goto, Free
<1>0. CASE UNCHANGED vars
  BY <1>0 DEF vars, netVars, locals
<1> SUFFICES ASSUME NEW t \in Threads, NEW x \in Conns, Step(t, x) PROVE Exclusive'
  BY <1>0, SomeStep
<1>1. CASE timerRun
  BY <1>1 DEF timerRun, netVars, locals
<1>2. CASE connectionSize(t)
  BY <1>2 DEF connectionSize, netVars, locals
<1>3. CASE createConnection(t)
  BY <1>3 DEF createConnection, netVars, locals
<1>4. CASE attach(t)
  BY <1>4 DEF attach, netVars, locals
<1>5. CASE addConnection(t)
  BY <1>5 DEF addConnection, netVars, locals
<1>6. CASE cleanupOldConnections(t)
  BY <1>6 DEF cleanupOldConnections, netVars, locals
<1>7. CASE closeOld(t)
  BY <1>7 DEF closeOld, closeChannel, connected, netVars, locals
<1>8. CASE removeOld(t)
  BY <1>8 DEF removeOld, netVars, locals
<1>9. CASE getConn(t)
  BY <1>9 DEF getConn, netVars, locals
<1>10. CASE next(t)
  BY <1>10 DEF next, netVars, locals
<1>11. CASE channelDisconnected(x)
  BY <1>11 DEF channelDisconnected, netVars, locals
<1>12. CASE disconnected
  BY <1>12 DEF disconnected, netVars, locals
<1>13. CASE closeClient
  BY <1>13 DEF closeClient, netVars, locals
<1>14. CASE closeConnections
  BY <1>14 DEF closeConnections, netVars, locals
<1>15. CASE closeEach
  BY <1>15 DEF closeEach, closeChannel, netVars, locals
<1>16. CASE closedOne
  BY <1>16 DEF closedOne, netVars, locals
<1>17. CASE drop(x)
  BY <1>17 DEF drop, netVars, locals
<1>18. CASE expire(x)
  BY <1>18 DEF expire, netVars, locals
<1>19. CASE silent(x)
  BY <1>19 DEF silent, netVars, locals
<1> QED
  BY <1>1, <1>2, <1>3, <1>4, <1>5, <1>6, <1>7, <1>8, <1>9, <1>10, <1>11, <1>12, <1>13,
     <1>14, <1>15, <1>16, <1>17, <1>18, <1>19 DEF Step

LEMMA PoolPreserved == Inv /\ [Next]_vars => Pool'
<1> SUFFICES ASSUME Inv, [Next]_vars PROVE Pool'
  OBVIOUS
<1> USE NsqClientAssumption, Members DEF Inv, Types, Exclusive, Inside, At, Goto
<1>0. CASE UNCHANGED vars
  BY <1>0 DEF Pool, Creating, vars, netVars, locals
<1> SUFFICES ASSUME NEW t \in Threads, NEW x \in Conns, Step(t, x) PROVE Pool'
  BY <1>0, SomeStep
<1>a. Poolsize \in Nat /\ IsFiniteSet(list) /\ Cardinality(list) \in Nat
  BY FS_CardinalityType DEF Pool
<1>b. ASSUME list' \subseteq list,
             \A s \in Threads : pc'[s] \in {"create", "attach", "add"} =>
               pc'[s] = pc[s] /\ num'[s] = num[s]
      PROVE  Pool'
  <2>1. IsFiniteSet(list') /\ Cardinality(list') \in Nat
        /\ Cardinality(list') <= Cardinality(list)
    BY <1>a, <1>b, FS_Subset, FS_CardinalityType
  <2> QED
    BY <1>a, <1>b, <2>1 DEF Pool, Creating
<1>1. CASE timerRun
  BY <1>1, <1>b DEF timerRun, netVars, locals
<1>2. CASE connectionSize(t)
  <2>1. list' = list /\ num'[t] = Poolsize - Cardinality(list) /\ num'[t] \in Nat
    BY <1>2, <1>a DEF connectionSize, Pool
  <2>2. \A s \in Threads : pc'[s] \in {"create", "attach", "add"} => s = t /\ pc'[s] =
          "create"
    BY <1>2 DEF connectionSize
  <2> QED
    BY <1>a, <2>1, <2>2 DEF Pool, Creating
<1>3. CASE createConnection(t)
  <2>1. ASSUME NEW y \in Conns, Opens(t, y) PROVE Pool'
    BY <1>a, <2>1 DEF Pool, Creating, Opens
  <2>2. CASE Refuses(t)
    BY <1>a, <2>2 DEF Pool, Creating, Refuses
  <2>3. CASE Suffices(t)
    BY <1>a, <2>3 DEF Pool, Creating, Suffices
  <2> QED
    BY <1>3, <2>1, <2>2, <2>3, Creates
<1>4. CASE attach(t)
  BY <1>4, <1>a DEF attach, locals, Pool, Creating
<1>5. CASE addConnection(t)
  <2>1. /\ list' = list \cup {conn[t]} /\ num' = [num EXCEPT ![t] = num[t] - 1]
        /\ num[t] > 0 /\ num[t] + Cardinality(list) <= Poolsize
    BY <1>5 DEF addConnection, Pool, Creating
  <2>2. IsFiniteSet(list') /\ Cardinality(list') \in {Cardinality(list),
          Cardinality(list) + 1}
    BY <1>a, <2>1, FS_AddElement
  <2>3. \A s \in Threads : pc'[s] \in {"create", "attach", "add"} => s = t /\ pc'[s] =
          "create"
    BY <1>5 DEF addConnection
  <2>4. Cardinality(list') <= Poolsize /\ num'[t] + Cardinality(list') <= Poolsize
    BY <1>a, <2>1, <2>2
  <2> QED
    BY <2>2, <2>3, <2>4 DEF Pool, Creating
<1>6. CASE cleanupOldConnections(t)
  BY <1>6, <1>b DEF cleanupOldConnections, netVars, locals
<1>7. CASE closeOld(t)
  BY <1>7, <1>b DEF closeOld, closeChannel, connected, netVars, locals
<1>8. CASE removeOld(t)
  BY <1>8, <1>b DEF removeOld, netVars, locals
<1>9. CASE getConn(t)
  BY <1>9, <1>b DEF getConn, netVars, locals
<1>10. CASE next(t)
  BY <1>10, <1>b DEF next, netVars, locals
<1>11. CASE channelDisconnected(x)
  BY <1>11, <1>b DEF channelDisconnected, netVars, locals
<1>12. CASE disconnected
  BY <1>12, <1>b DEF disconnected, netVars, locals
<1>13. CASE closeClient
  BY <1>13, <1>b DEF closeClient, netVars, locals
<1>14. CASE closeConnections
  BY <1>14, <1>b DEF closeConnections, netVars, locals
<1>15. CASE closeEach
  BY <1>15, <1>b DEF closeEach, closeChannel, netVars, locals
<1>16. CASE closedOne
  BY <1>16, <1>b DEF closedOne, netVars, locals
<1>17. CASE drop(x)
  BY <1>17, <1>b DEF drop, netVars, locals
<1>18. CASE expire(x)
  BY <1>18, <1>b DEF expire, netVars, locals
<1>19. CASE silent(x)
  BY <1>19, <1>b DEF silent, netVars, locals
<1> QED
  BY <1>1, <1>2, <1>3, <1>4, <1>5, <1>6, <1>7, <1>8, <1>9, <1>10, <1>11, <1>12, <1>13,
     <1>14, <1>15, <1>16, <1>17, <1>18, <1>19 DEF Step

LEMMA ClosedPreserved == Inv /\ [Next]_vars => Closed'
<1> SUFFICES ASSUME Inv, [Next]_vars PROVE Closed'
  OBVIOUS
<1> USE NsqClientAssumption, Members DEF Inv, Types, Closed, At, Goto
<1>0. CASE UNCHANGED vars
  BY <1>0 DEF vars, netVars, locals
<1> SUFFICES ASSUME NEW t \in Threads, NEW x \in Conns, Step(t, x) PROVE Closed'
  BY <1>0, SomeStep
<1>1. CASE timerRun
  BY <1>1 DEF timerRun, netVars, locals
<1>2. CASE connectionSize(t)
  BY <1>2 DEF connectionSize, netVars, locals
<1>3. CASE createConnection(t)
  <2>1. ASSUME NEW y \in Conns, Opens(t, y) PROVE Closed'
    BY <2>1 DEF Opens
  <2>2. CASE Refuses(t)
    BY <2>2 DEF Refuses
  <2>3. CASE Suffices(t)
    BY <2>3 DEF Suffices
  <2> QED
    BY <1>3, <2>1, <2>2, <2>3, Creates
<1>4. CASE attach(t)
  BY <1>4 DEF attach, netVars, locals
<1>5. CASE addConnection(t)
  BY <1>5 DEF addConnection, netVars, locals
<1>6. CASE cleanupOldConnections(t)
  BY <1>6 DEF cleanupOldConnections, netVars, locals
<1>7. CASE closeOld(t)
  BY <1>7 DEF closeOld, closeChannel, connected, netVars, locals
<1>8. CASE removeOld(t)
  BY <1>8 DEF removeOld, netVars, locals
<1>9. CASE getConn(t)
  BY <1>9 DEF getConn, netVars, locals
<1>10. CASE next(t)
  BY <1>10 DEF next, netVars, locals
<1>11. CASE channelDisconnected(x)
  BY <1>11 DEF channelDisconnected, netVars, locals
<1>12. CASE disconnected
  BY <1>12 DEF disconnected, netVars, locals
<1>13. CASE closeClient
  BY <1>13 DEF closeClient, netVars, locals
<1>14. CASE closeConnections
  BY <1>14 DEF closeConnections, netVars, locals
<1>15. CASE closeEach
  BY <1>15 DEF closeEach, closeChannel, netVars, locals
<1>16. CASE closedOne
  BY <1>16 DEF closedOne, netVars, locals
<1>17. CASE drop(x)
  BY <1>17 DEF drop, netVars, locals
<1>18. CASE expire(x)
  BY <1>18 DEF expire, netVars, locals
<1>19. CASE silent(x)
  BY <1>19 DEF silent, netVars, locals
<1> QED
  BY <1>1, <1>2, <1>3, <1>4, <1>5, <1>6, <1>7, <1>8, <1>9, <1>10, <1>11, <1>12, <1>13,
     <1>14, <1>15, <1>16, <1>17, <1>18, <1>19 DEF Step

LEMMA ClosingPreserved == Inv /\ [Next]_vars => Closing'
<1> SUFFICES ASSUME Inv, [Next]_vars PROVE Closing'
  OBVIOUS
<1> USE NsqClientAssumption, Members DEF Inv, Types, Closed, Closing, At, Goto
<1>0. CASE UNCHANGED vars
  BY <1>0 DEF vars, netVars, locals
<1> SUFFICES ASSUME NEW t \in Threads, NEW x \in Conns, Step(t, x) PROVE Closing'
  BY <1>0, SomeStep
<1>1. CASE timerRun
  BY <1>1 DEF timerRun, netVars, locals
<1>2. CASE connectionSize(t)
  BY <1>2 DEF connectionSize, netVars, locals
<1>3. CASE createConnection(t)
  <2>1. ASSUME NEW y \in Conns, Opens(t, y) PROVE Closing'
    BY <2>1 DEF Opens
  <2>2. CASE Refuses(t)
    BY <2>2 DEF Refuses
  <2>3. CASE Suffices(t)
    BY <2>3 DEF Suffices
  <2> QED
    BY <1>3, <2>1, <2>2, <2>3, Creates
<1>4. CASE attach(t)
  BY <1>4 DEF attach, netVars, locals
<1>5. CASE addConnection(t)
  <2>1. CASE t = "closer"
    BY <1>5, <2>1 DEF addConnection, netVars
  <2>2. CASE t # "closer"
    <3>1. monitor # "closer" /\ UNCHANGED monitor /\ pc'["closer"] = pc["closer"]
      BY <1>5, <2>2 DEF addConnection, MonitorFree
    <3> QED
      BY <3>1
  <2> QED
    BY <2>1, <2>2
<1>6. CASE cleanupOldConnections(t)
  BY <1>6 DEF cleanupOldConnections, netVars, locals
<1>7. CASE closeOld(t)
  BY <1>7 DEF closeOld, closeChannel, connected, netVars, locals
<1>8. CASE removeOld(t)
  BY <1>8 DEF removeOld, netVars, locals
<1>9. CASE getConn(t)
  BY <1>9 DEF getConn, netVars, locals
<1>10. CASE next(t)
  BY <1>10 DEF next, netVars, locals
<1>11. CASE channelDisconnected(x)
  BY <1>11 DEF channelDisconnected, netVars, locals
<1>12. CASE disconnected
  BY <1>12 DEF disconnected, netVars, locals
<1>13. CASE closeClient
  BY <1>13 DEF closeClient, netVars, locals
<1>14. CASE closeConnections
  BY <1>14 DEF closeConnections, netVars, locals
<1>15. CASE closeEach
  BY <1>15 DEF closeEach, closeChannel, netVars, locals
<1>16. CASE closedOne
  BY <1>16 DEF closedOne, netVars, locals
<1>17. CASE drop(x)
  BY <1>17 DEF drop, netVars, locals
<1>18. CASE expire(x)
  BY <1>18 DEF expire, netVars, locals
<1>19. CASE silent(x)
  BY <1>19 DEF silent, netVars, locals
<1> QED
  BY <1>1, <1>2, <1>3, <1>4, <1>5, <1>6, <1>7, <1>8, <1>9, <1>10, <1>11, <1>12, <1>13,
     <1>14, <1>15, <1>16, <1>17, <1>18, <1>19 DEF Step

LEMMA OpenPreserved == Inv /\ [Next]_vars => NoForgottenConnection'
<1> SUFFICES ASSUME Inv, [Next]_vars PROVE NoForgottenConnection'
  OBVIOUS
<1> USE NsqClientAssumption, Members DEF Inv, Types, Closed, Closing,
        NoForgottenConnection, Creating, At, Goto
<1>0. CASE UNCHANGED vars
  BY <1>0 DEF vars, netVars, locals
<1> SUFFICES ASSUME NEW t \in Threads, NEW x \in Conns, Step(t, x) PROVE
        NoForgottenConnection'
  BY <1>0, SomeStep
<1>1. CASE timerRun
  BY <1>1 DEF timerRun, netVars, locals
<1>2. CASE connectionSize(t)
  BY <1>2 DEF connectionSize, netVars, locals
<1>3. CASE createConnection(t)
  <2>1. ASSUME NEW y \in Conns, Opens(t, y) PROVE NoForgottenConnection'
    BY <2>1 DEF Opens
  <2>2. CASE Refuses(t)
    BY <2>2 DEF Refuses
  <2>3. CASE Suffices(t)
    BY <2>3 DEF Suffices
  <2> QED
    BY <1>3, <2>1, <2>2, <2>3, Creates
<1>4. CASE attach(t)
  BY <1>4 DEF attach, netVars, locals
<1>5. CASE addConnection(t)
  BY <1>5 DEF addConnection, netVars, locals
<1>6. CASE cleanupOldConnections(t)
  BY <1>6 DEF cleanupOldConnections, netVars, locals
<1>7. CASE closeOld(t)
  BY <1>7 DEF closeOld, closeChannel, connected, netVars, locals
<1>8. CASE removeOld(t)
  BY <1>8 DEF removeOld, netVars, locals
<1>9. CASE getConn(t)
  BY <1>9 DEF getConn, netVars, locals
<1>10. CASE next(t)
  BY <1>10 DEF next, netVars, locals
<1>11. CASE channelDisconnected(x)
  BY <1>11 DEF channelDisconnected, netVars, locals
<1>12. CASE disconnected
  BY <1>12 DEF disconnected, netVars, locals
<1>13. CASE closeClient
  BY <1>13 DEF closeClient, netVars, locals
<1>14. CASE closeConnections
  BY <1>14 DEF closeConnections, netVars, locals
<1>15. CASE closeEach
  BY <1>15 DEF closeEach, closeChannel, netVars, locals
<1>16. CASE closedOne
  BY <1>16 DEF closedOne, netVars, locals
<1>17. CASE drop(x)
  BY <1>17 DEF drop, netVars, locals
<1>18. CASE expire(x)
  BY <1>18 DEF expire, netVars, locals
<1>19. CASE silent(x)
  BY <1>19 DEF silent, netVars, locals
<1> QED
  BY <1>1, <1>2, <1>3, <1>4, <1>5, <1>6, <1>7, <1>8, <1>9, <1>10, <1>11, <1>12, <1>13,
     <1>14, <1>15, <1>16, <1>17, <1>18, <1>19 DEF Step

-----------------------------------------------------------------------------
LEMMA InvHolds == Spec => []Inv
<1>1. Inv /\ [Next]_vars => Inv'
  BY TypesPreserved, ExclusivePreserved, PoolPreserved, ClosedPreserved, ClosingPreserved,
     OpenPreserved DEF Inv
<1> QED
  BY <1>1, InitInv, PTL DEF Spec

CancelledTyped == cancelled \in BOOLEAN

LEMMA CancelledHolds == Spec => []CancelledTyped
<1>1. Init => CancelledTyped
  BY Zenon DEF Init, CancelledTyped
<1>2. CancelledTyped /\ [Next]_vars => CancelledTyped'
  <2>1. ASSUME NEW t \in Threads, NEW x \in Conns, Step(t, x)
        PROVE  cancelled' = cancelled \/ cancelled' = TRUE
    <3>1. CASE closeClient
      BY <3>1, Zenon DEF closeClient
    <3>2. CASE createConnection(t) \/ closeOld(t) \/ next(t) \/ channelDisconnected(x)
      BY <3>2, Zenon DEF createConnection, closeOld, next, channelDisconnected
    <3>3. CASE closeEach
      BY <3>3, Zenon DEF closeEach
    <3>4. CASE ~(\/ closeClient \/ createConnection(t) \/ closeOld(t) \/ next(t)
                 \/ channelDisconnected(x) \/ closeEach)
      BY <2>1, <3>4, Zenon DEF Step, timerRun, connectionSize, attach, addConnection,
         cleanupOldConnections, removeOld, getConn, disconnected, closeConnections,
                 closedOne,
         drop, expire, silent
    <3> QED
      BY <3>1, <3>2, <3>3, <3>4
  <2>2. UNCHANGED vars => cancelled' = cancelled
    BY DEF vars
  <2>3. Next => cancelled' = cancelled \/ cancelled' = TRUE
    BY <2>1, SomeStep
  <2> QED
    BY <2>2, <2>3, Zenon DEF CancelledTyped
<1> QED
  BY <1>1, <1>2, PTL DEF Spec

(* At most one thread creates a connection, and it is one that was missing *)
LEMMA PoolSuffices == Inv => PoolNeverExceeded
<1> SUFFICES ASSUME Inv PROVE PoolNeverExceeded
  OBVIOUS
<1> DEFINE C == {t \in Threads : Creating(t)}
<1>1. Poolsize \in Nat /\ Cardinality(list) \in Nat /\ Cardinality(list) <= Poolsize
  BY NsqClientAssumption, FS_CardinalityType DEF Inv, Pool
<1>2. CASE C = {}
  <2>1. Cardinality(C) = 0
    BY <1>2, FS_EmptySet
  <2> QED
    BY <1>1, <2>1 DEF PoolNeverExceeded
<1>3. ASSUME NEW t \in C PROVE PoolNeverExceeded
  <2>1. C = {t}
    BY DEF Inv, Exclusive, Inside, Creating
  <2>2. Cardinality(C) = 1
    BY <2>1, FS_Singleton
  <2>3. num[t] > 0 /\ num[t] + Cardinality(list) <= Poolsize /\ num[t] \in Nat
    BY NsqClientAssumption DEF Inv, Types, Pool, Creating
  <2> QED
    BY <1>1, <2>2, <2>3 DEF PoolNeverExceeded
<1> QED
  BY <1>2, <1>3

(* For any number of producers, pool size and failures: the address never  *)
(* has more connections than its pool size, those being created included,  *)
(* no open connection is forgotten, and connect() never computes a         *)
(* negative number of missing connections.                                 *)
THEOREM ConnectionsAccounted == Spec => []ConnectionsOk
<1>1. Inv /\ CancelledTyped => ConnectionsOk
  <2>1. Inv /\ CancelledTyped => TypeOK
    BY Zenon DEF Inv, Types, TypeOK, CancelledTyped
  <2> QED
    BY <2>1, PoolSuffices DEF Inv, ConnectionsOk
<1> QED
  BY <1>1, InvHolds, CancelledHolds, PTL

=============================================================================
