------------------------------ MODULE WebSocket ------------------------------
(***************************************************************************)
(* The calls an application makes on a WebSocket object while a session is *)
(* running, as every thread executes them: WebSocket.close() and the       *)
(* send_* methods (websocket.py), down to WebsocketSession.write()         *)
(* (session.py), which sends one frame under the session's lock.           *)
(*                                                                         *)
(* The state flags closing and closed are plain attributes: the lock does  *)
(* not cover them, so a call reads each of them in a step of its own, and  *)
(* other threads run between two of its steps.  A step that acquires the   *)
(* lock also makes the first read under it, and a step that leaves         *)
(* write() releases the lock: no other thread can tell the difference.     *)
(*                                                                         *)
(* The module is composed with the event loop in Session.tla: the loop is  *)
(* one of the threads, and makes these calls too.                          *)
(***************************************************************************)
EXTENDS Naturals, Sequences

CONSTANTS
  Loop,      \* the thread that iterates over the websocket's events
  Users,     \* the application's other threads
  None       \* no thread: the lock is free

Threads == Users \cup {Loop}

ASSUME ThreadsAssumption == Loop \notin Users /\ None \notin Threads

VARIABLES
  closing,        \* websocket.state.closing
  closed,         \* websocket.state.closed
  sentCloseTime,  \* websocket.state.sent_close_time: "none" for None, else
                  \* "running" or, close_timeout seconds later, "expired"
  hasSock,        \* session._sock is not None
  lock,           \* the thread that holds session._lock, or None
  tcp,            \* the client's socket: "none", "open" or "shut"
  peer,           \* the connection as the operating system sees it: "up",
                  \* "stalled" (the send buffer is full), "fin" or "reset"
  wire,           \* the frames handed to the socket, in order
  pc,             \* where each thread is in its call
  frame           \* the frame each thread is sending

flagVars == <<closing, closed, sentCloseTime>>
callVars == <<pc, frame>>
webSocketVars ==
  <<closing, closed, sentCloseTime, hasSock, lock, tcp, peer, wire, pc, frame>>

Frames == {"request", "data", "ping", "pong", "close"}

Rest == {"idle", "raised"}     \* no call under way; the last one returned or raised
InLock == {"write_closed", "write_closing", "write_sendall"}
CallPCs ==
  Rest \cup InLock \cup
    {"close_closed", "close_closing", "write", "close_flag", "close_time"}

CallsTypeOK ==
  /\ pc \in [Threads -> CallPCs]
  /\ frame \in [Threads -> Frames \cup {"none"}]
  /\ \A t \in Threads : pc[t] \notin Rest => frame[t] \in Frames

WebSocketTypeOK ==
  /\ closing \in BOOLEAN
  /\ closed \in BOOLEAN
  /\ sentCloseTime \in {"none", "running", "expired"}
  /\ hasSock \in BOOLEAN
  /\ lock \in Threads \cup {None}
  /\ tcp \in {"none", "open", "shut"}
  /\ peer \in {"up", "stalled", "fin", "reset"}
  /\ wire \in Seq(Frames)
  /\ CallsTypeOK

\* WebSocket.reset() and WebsocketSession.__init__(), on connect().
WebSocketInit ==
  /\ closing = FALSE
  /\ closed = FALSE
  /\ sentCloseTime = "none"
  /\ hasSock = FALSE
  /\ lock = None
  /\ tcp = "none"
  /\ peer = "up"
  /\ wire = <<>>
  /\ pc = [t \in Threads |-> "idle"]
  /\ frame = [t \in Threads |-> "none"]

-----------------------------------------------------------------------------
Goto(t, p) == pc' = [pc EXCEPT ![t] = p]

StartClose(t) ==
  /\ pc[t] \in Rest
  /\ Goto(t, "close_closed")
  /\ frame' = [frame EXCEPT ![t] = "close"]

StartSend(t, f) ==
  /\ pc[t] \in Rest
  /\ Goto(t, "write")
  /\ frame' = [frame EXCEPT ![t] = f]

\* A call is over: p tells whether it returned or raised.
Return(t, p) ==
  /\ Goto(t, p)
  /\ frame' = [frame EXCEPT ![t] = "none"]

\* write() raised.  _send_close() swallows what write() raises, every other
\* caller passes it on.
WriteRaises(t) ==
  IF frame[t] = "close"
    THEN Goto(t, "close_flag") /\ UNCHANGED frame
    ELSE Return(t, "raised")

WriteReturns(t) ==
  IF frame[t] = "close"
    THEN Goto(t, "close_flag") /\ UNCHANGED frame
    ELSE Return(t, "idle")

(* WebSocket.close(): two reads, the frame, then two writes. *)

CloseTestsClosed(t) ==
  /\ pc[t] = "close_closed"
  /\ IF closed THEN Return(t, "idle")
               ELSE Goto(t, "close_closing") /\ UNCHANGED frame
  /\ UNCHANGED <<flagVars, hasSock, lock, tcp, peer, wire>>

CloseTestsClosing(t) ==
  /\ pc[t] = "close_closing"
  /\ IF closing THEN Return(t, "idle")
                ELSE Goto(t, "write") /\ UNCHANGED frame
  /\ UNCHANGED <<flagVars, hasSock, lock, tcp, peer, wire>>

CloseSetsClosing(t) ==
  /\ pc[t] = "close_flag"
  /\ closing' = TRUE
  /\ Goto(t, "close_time")
  /\ UNCHANGED <<closed, sentCloseTime, hasSock, lock, tcp, peer, wire, frame>>

CloseSetsTime(t) ==
  /\ pc[t] = "close_time"
  /\ sentCloseTime' = "running"
  /\ Return(t, "idle")
  /\ UNCHANGED <<closing, closed, hasSock, lock, tcp, peer, wire>>

(* WebsocketSession.write() *)

WriteUnavailable(t) ==
  /\ pc[t] = "write" /\ lock = None
  /\ ~hasSock
  /\ WriteRaises(t)
  /\ UNCHANGED <<flagVars, hasSock, lock, tcp, peer, wire>>

WriteAcquires(t) ==
  /\ pc[t] = "write" /\ lock = None
  /\ hasSock
  /\ lock' = t
  /\ Goto(t, "write_closed")
  /\ UNCHANGED <<flagVars, hasSock, tcp, peer, wire, frame>>

WriteTestsClosed(t) ==
  /\ pc[t] = "write_closed"
  /\ IF closed THEN lock' = None /\ WriteRaises(t)
               ELSE Goto(t, "write_closing") /\ UNCHANGED <<lock, frame>>
  /\ UNCHANGED <<flagVars, hasSock, tcp, peer, wire>>

\* Mutant: write() does not look at is_closing.
WriteIgnoresClosing(t) ==
  /\ pc[t] = "write_closing"
  /\ Goto(t, "write_sendall")
  /\ UNCHANGED <<flagVars, hasSock, lock, tcp, peer, wire, frame>>

WriteTestsClosing(t) ==
  /\ pc[t] = "write_closing"
  /\ IF closing THEN lock' = None /\ WriteRaises(t)
                ELSE Goto(t, "write_sendall") /\ UNCHANGED <<lock, frame>>
  /\ UNCHANGED <<flagVars, hasSock, tcp, peer, wire>>

\* sendall() blocks while the peer does not read, with the lock held.
Sendall(t) ==
  /\ pc[t] = "write_sendall"
  /\ hasSock /\ tcp = "open" /\ peer \in {"up", "fin"}
  /\ wire' = Append(wire, frame[t])
  /\ lock' = None
  /\ WriteReturns(t)
  /\ UNCHANGED <<flagVars, hasSock, tcp, peer>>

\* Mutant: the lock is not released when sendall() raises.
SendallFailsLocked(t) ==
  /\ pc[t] = "write_sendall"
  /\ ~hasSock \/ tcp # "open" \/ peer \in {"fin", "reset"}
  /\ WriteRaises(t)
  /\ UNCHANGED <<flagVars, hasSock, lock, tcp, peer, wire>>

\* _sock is read again here: None, a closed socket or a broken connection
\* all become a TransportFail.
SendallFails(t) ==
  /\ pc[t] = "write_sendall"
  /\ ~hasSock \/ tcp # "open" \/ peer \in {"fin", "reset"}
  /\ lock' = None
  /\ WriteRaises(t)
  /\ UNCHANGED <<flagVars, hasSock, tcp, peer, wire>>

CallStep(t) ==
  \/ CloseTestsClosed(t)
  \/ CloseTestsClosing(t)
  \/ CloseSetsClosing(t)
  \/ CloseSetsTime(t)
  \/ WriteUnavailable(t)
  \/ WriteAcquires(t)
  \/ WriteTestsClosed(t)
  \/ WriteTestsClosing(t)
  \/ Sendall(t)
  \/ SendallFails(t)
=============================================================================
