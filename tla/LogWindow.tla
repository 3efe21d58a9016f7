----------------------------- MODULE LogWindow -----------------------------
(***************************************************************************)
(* The window that follows a log over a web socket (js/LogWebSocket.js).   *)
(*                                                                         *)
(* Left out: browsers without web sockets, scrolling.  Messages are        *)
(* numbered as they arrive.                                                *)
(***************************************************************************)
EXTENDS Integers, Sequences

CONSTANTS
  max_line,    \* options.max_line
  MaxMessages  \* how many messages the server sends

ASSUME LogAssumption == max_line \in Nat /\ MaxMessages \in Nat

VARIABLES
  socket,              \* "connecting", "open", "closing" or "closed"
  opened,              \* the socket has been open
  logText,             \* the lines of the element
  current_line_count,
  received             \* messages received

logVars == << socket, opened, logText, current_line_count, received >>

\* At the limit the element is used before it is looked up: a TypeError, and
\* nothing is appended or reset, now or later.
appendTextArea(newData) ==
  IF current_line_count > max_line
    THEN UNCHANGED << logText, current_line_count >>
    ELSE /\ logText' = Append(logText, newData)
         /\ current_line_count' = current_line_count + 1

onopen ==
  /\ socket = "connecting"
  /\ socket' = "open" /\ opened' = TRUE
  /\ logText' = << "connect" >>
  /\ UNCHANGED << current_line_count, received >>

\* Messages still come while the socket is closing.
onmessage ==
  /\ socket \in {"open", "closing"} /\ opened /\ received < MaxMessages
  /\ received' = received + 1
  /\ appendTextArea(received')
  /\ UNCHANGED << socket, opened >>

onclose ==
  /\ socket # "closed"
  /\ socket' = "closed"
  /\ appendTextArea("closed")
  /\ UNCHANGED << opened, received >>

\* LogWebSocket.close, called by the page.
closeSocket ==
  /\ socket \in {"connecting", "open"}
  /\ socket' = "closing"
  /\ UNCHANGED << opened, logText, current_line_count, received >>

LogInit ==
  /\ socket = "connecting" /\ opened = FALSE
  /\ logText = << >> /\ current_line_count = 0 /\ received = 0

LogNext == onopen \/ onmessage \/ onclose \/ closeSocket

-----------------------------------------------------------------------------
\* Every variable has its type; the line count stops just past max_line.
LogTypeOK ==
  /\ socket \in {"connecting", "open", "closing", "closed"}
  /\ current_line_count \in 0..(max_line + 1)
  /\ received \in 0..MaxMessages

\* Everything there is to show, in order.
Events ==
  (IF opened THEN << "connect" >> ELSE << >>) \o [i \in 1..received |-> i]
    \o (IF socket = "closed" THEN << "closed" >> ELSE << >>)

\* Up to the limit the window shows what has happened, whole and in order:
\* appendTextArea and onopen lose and repeat no line.  What it does then is
\* LogCleared's matter.
LogPrefix ==
  Len(Events) <= max_line + 1 + (IF opened THEN 1 ELSE 0) => logText = Events

\* What the comment in appendTextArea says: at the limit the history is cleared,
\* and so the window goes on and its last line is the last thing that happened.
LogCleared ==
  Events # << >> =>
    logText # << >> /\ logText[Len(logText)] = Events[Len(Events)]
=============================================================================
