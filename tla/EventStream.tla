----------------------------- MODULE EventStream -----------------------------
(***************************************************************************)
(* What one iteration over a websocket promises the application, from the  *)
(* events of events.py: which event may follow which, whatever the server, *)
(* the network and the application's other threads do.                     *)
(*                                                                         *)
(* Session.tla implements it (the mapping is there).                       *)
(***************************************************************************)

VARIABLES
  event,      \* the last event yielded
  stage,      \* how far the connection is
  upgraded,   \* Ready has been yielded
  handshake   \* a close handshake has begun, on either side, or the client
              \* has given the websocket up

Final == {"connect_fail", "disconnected", "graceful"}
Messages == {"text", "ping", "pong"}
Housekeeping == {"poll", "unresponsive"}
Stages == {"start", "connecting", "open", "ending", "over"}

TypeOK ==
  /\ event \in {"none", "connecting", "connected", "ready", "rejected", "closing",
                "closed", "protocol_error"} \cup Messages \cup Housekeeping \cup Final
  /\ stage \in Stages
  /\ upgraded \in BOOLEAN
  /\ handshake \in BOOLEAN

Init ==
  /\ event = "none"
  /\ stage = "start"
  /\ upgraded = FALSE
  /\ handshake = FALSE

Connecting ==
  /\ stage = "start"
  /\ event' = "connecting"
  /\ stage' = "connecting"
  /\ UNCHANGED <<upgraded, handshake>>

Connected ==
  /\ stage = "connecting"
  /\ event' = "connected"
  /\ stage' = "open"
  /\ UNCHANGED <<upgraded, handshake>>

\* Once, and nothing before it but Connected.
Ready ==
  /\ stage = "open"
  /\ event = "connected"
  /\ ~upgraded
  /\ event' = "ready"
  /\ upgraded' = TRUE
  /\ UNCHANGED <<stage, handshake>>

Rejected ==
  /\ stage = "ending"
  /\ event = "connected"
  /\ ~upgraded
  /\ event' = "rejected"
  /\ UNCHANGED <<stage, upgraded, handshake>>

Message ==
  /\ stage = "open"
  /\ upgraded
  /\ event' \in Messages
  /\ UNCHANGED <<stage, upgraded, handshake>>

\* The server begins the close handshake, the client has not.
Closing ==
  /\ stage = "open"
  /\ upgraded
  /\ ~handshake
  /\ event' = "closing"
  /\ handshake' = TRUE
  /\ UNCHANGED <<stage, upgraded>>

Closed ==
  /\ stage = "open"
  /\ upgraded
  /\ handshake
  /\ event' = "closed"
  /\ stage' = "ending"
  /\ UNCHANGED <<upgraded, handshake>>

ProtocolError ==
  /\ stage = "open"
  /\ event' = "protocol_error"
  /\ stage' = "ending"
  /\ UNCHANGED <<upgraded, handshake>>

Poll ==
  /\ stage \in {"open", "ending"}
  /\ upgraded
  /\ event # "unresponsive"
  /\ event' = "poll"
  /\ UNCHANGED <<stage, upgraded, handshake>>

Unresponsive ==
  /\ stage \in {"open", "ending"}
  /\ upgraded
  /\ event # "unresponsive"
  /\ event' = "unresponsive"
  /\ stage' = "ending"
  /\ UNCHANGED <<upgraded, handshake>>

\* Nothing was ever connected.
ConnectFail ==
  /\ event = "connecting"
  /\ event' = "connect_fail"
  /\ stage' = "over"
  /\ UNCHANGED <<upgraded, handshake>>

\* A graceful end is one somebody asked for.
Disconnected ==
  /\ stage = "ending"
  /\ event \notin {"none", "connecting"}
  /\ \/ event' = "disconnected"
     \/ event' = "graceful" /\ handshake
  /\ stage' = "over"
  /\ UNCHANGED <<upgraded, handshake>>

\* The client begins the close handshake, at any time.
ClientCloses ==
  /\ ~handshake
  /\ handshake' = TRUE
  /\ UNCHANGED <<event, stage, upgraded>>

\* The connection is lost or given up, or the application stops iterating.
Ends ==
  /\ stage \in {"connecting", "open"}
  /\ stage' = "ending"
  /\ handshake' \in {handshake, TRUE}
  /\ UNCHANGED <<event, upgraded>>

Next ==
  \/ Connecting \/ Connected \/ Ready \/ Rejected \/ Message \/ Closing \/ Closed
  \/ ProtocolError \/ Poll \/ Unresponsive \/ ConnectFail \/ Disconnected
  \/ ClientCloses \/ Ends

vars == <<event, stage, upgraded, handshake>>

Spec == Init /\ [][Next]_vars
=============================================================================
