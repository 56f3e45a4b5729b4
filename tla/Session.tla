------------------------------- MODULE Session -------------------------------
(***************************************************************************)
(* One run of the event loop: the generator WebsocketSession.run() of      *)
(* session.py with the generator WebSocket.feed() of websocket.py inside   *)
(* it, the application that iterates over the events, its other threads,   *)
(* and the server.                                                         *)
(*                                                                         *)
(* rpc is the program counter of the generator.  At "yield" the generator  *)
(* is suspended with an event in the application's hands; the application  *)
(* may then call the websocket from the loop's thread (HandlerCall), ask   *)
(* for the next event (Resume) or drop the generator (Abandon: break,      *)
(* return or an exception in the handler).  after is where the generator   *)
(* goes next, after a yield or once the socket is closed.  feeding is      *)
(* where feed() is suspended: the message it is delivering.                *)
(*                                                                         *)
(* Time is abstract: a timeout that can have passed is a nondeterministic  *)
(* choice (Poll, automatic pings) or a flag the environment raises         *)
(* (pongLate, sentCloseTime = "expired").  KeepAlive.tla has the clock.    *)
(***************************************************************************)
EXTENDS WebSocket, FiniteSets, SequencesExt

CONSTANTS
  Answers,          \* what the server may answer to the upgrade request
  ServerFrames,     \* what it may send once it has accepted
  MaxServerFrames,  \* bound: frames sent by the server, the answer included
  MaxCalls,         \* bound: calls made by the application on each thread
  MaxPings,         \* bound: automatic pings
  PingTimeout,      \* BOOLEAN: connect() was given a ping_timeout
  CloseTimeout,     \* BOOLEAN: connect() was given a close_timeout
  AutoPong,         \* BOOLEAN: the auto_pong argument of connect()
  PeerMayStall,     \* BOOLEAN: the peer may stop reading
  PeerMayBreak      \* BOOLEAN: the connection may end or break

ASSUME SessionAssumption ==
  /\ Answers \subseteq {"accept", "reject", "critical"}
  /\ ServerFrames \subseteq
       {"text", "ping", "bigping", "pong", "close", "bad", "critical"}
  /\ MaxServerFrames \in Nat /\ MaxCalls \in Nat /\ MaxPings \in Nat
  /\ {PingTimeout, CloseTimeout, AutoPong, PeerMayStall, PeerMayBreak}
       \subseteq BOOLEAN

VARIABLES
  rpc,       \* where WebsocketSession.run() is
  after,     \* where it goes after a yield, or once the socket is closed
  event,     \* the last event yielded
  feeding,   \* where WebSocket.feed() is suspended, "none" when it is not running
  ready,     \* session._ready
  readable,  \* what selector.wait() returned
  pongLate,  \* session_time - _last_pong > ping_timeout
  chan,      \* what the server sent and the client has not read
  buf,       \* what _recv() returned and feed() has not delivered
  answered,  \* what the server answered, "none" before
  served,    \* frames sent by the server
  calls      \* calls made by the application, per thread

loopVars == <<rpc, after, event, feeding, ready, readable, pongLate, buf>>
serverVars == <<answered, served>>
sessionVars == <<rpc, after, event, feeding, ready, readable, pongLate,
                 chan, buf, answered, served, calls>>
vars == <<webSocketVars, sessionVars>>

FromServer ==
  {"accept", "reject", "text", "ping", "bigping", "pong", "close", "bad", "critical"}

\* "graceful" is Disconnected(graceful=True).
Final == {"connect_fail", "disconnected", "graceful"}

Events ==
  {"connecting", "connected", "ready", "rejected", "text", "ping", "pong",
   "closing", "closed", "protocol_error", "poll", "unresponsive"} \cup Final

\* Where a yield returns to: "regular" is _regular() and then feed().
AfterYield == {"connect", "loop", "regular", "auto_ping", "force", "done"}

\* After _close_socket(): the rest of on_disconnect(), the last event, or
\* nothing more ("exit").
ThenOnDisconnect == {"reject", "unwind", "abandon"}
ThenLastEvent == Final

LoopPCs ==
  {"start", "yield", "connect", "request", "requested", "loop", "auto_ping",
   "timeouts", "force", "poll", "recv", "feed", "resume", "ponged",
   "mark_closed", "echoed", "erred", "close_socket", "clear_sock",
   "clear_closing", "set_closed", "done", "abandoned"}

SessionTypeOK ==
  /\ WebSocketTypeOK
  /\ rpc \in LoopPCs
  /\ after \in {"none", "exit"} \cup AfterYield \cup ThenOnDisconnect \cup ThenLastEvent
  /\ rpc = "yield" => after \in AfterYield
  /\ event \in Events \cup {"none"}
  /\ feeding \in {"none", "message", "closed", "closing", "error", "critical", "rejected"}
  /\ ready \in BOOLEAN
  /\ readable \in BOOLEAN
  /\ pongLate \in BOOLEAN
  /\ chan \in Seq(FromServer)
  /\ buf \in Seq(FromServer)
  /\ answered \in {"none"} \cup Answers
  /\ served \in Nat
  /\ calls \in [Threads -> Nat]

Init ==
  /\ WebSocketInit
  /\ rpc = "start"
  /\ after = "none"
  /\ event = "none"
  /\ feeding = "none"
  /\ ready = FALSE
  /\ readable = FALSE
  /\ pongLate = FALSE
  /\ chan = <<>>
  /\ buf = <<>>
  /\ answered = "none"
  /\ served = 0
  /\ calls = [t \in Threads |-> 0]

-----------------------------------------------------------------------------
(* run(): from connect() to the Connected event *)

Yield(e, k) ==
  /\ event' = e
  /\ rpc' = "yield"
  /\ after' = k

\* Leave through _close_socket(), then do k.
CloseSocketThen(k) ==
  /\ rpc' = "close_socket"
  /\ after' = k

\* Mutant: the socket is there before the Connecting event.
StartConnected ==
  /\ rpc = "start"
  /\ Yield("connecting", "connect")
  /\ hasSock' = TRUE
  /\ tcp' = "open"
  /\ UNCHANGED <<flagVars, lock, peer, wire, callVars, feeding, ready, readable, pongLate,
                 chan, buf, serverVars, calls>>

Start ==
  /\ rpc = "start"
  /\ Yield("connecting", "connect")
  /\ UNCHANGED <<webSocketVars, feeding, ready, readable, pongLate,
                 chan, buf, serverVars, calls>>

Connect ==
  /\ rpc = "connect"
  /\ hasSock' = TRUE
  /\ tcp' = "open"
  /\ rpc' = "request"
  /\ UNCHANGED <<flagVars, lock, peer, wire, callVars, after, event, feeding,
                 ready, readable, pongLate, chan, buf, serverVars, calls>>

ConnectFails ==
  /\ rpc = "connect"
  /\ Yield("connect_fail", "done")
  /\ UNCHANGED <<webSocketVars, feeding, ready, readable, pongLate,
                 chan, buf, serverVars, calls>>

SendRequest ==
  /\ rpc = "request"
  /\ StartSend(Loop, "request")
  /\ rpc' = "requested"
  /\ UNCHANGED <<flagVars, hasSock, lock, tcp, peer, wire, after, event, feeding,
                 ready, readable, pongLate, chan, buf, serverVars, calls>>

RequestSent ==
  /\ rpc = "requested"
  /\ pc[Loop] = "idle"
  /\ Yield("connected", "loop")
  /\ UNCHANGED <<webSocketVars, feeding, ready, readable, pongLate,
                 chan, buf, serverVars, calls>>

\* Mutant: ConnectFail without _close_socket().
RequestFailedOpen ==
  /\ rpc = "requested"
  /\ pc[Loop] = "raised"
  /\ Yield("connect_fail", "done")
  /\ UNCHANGED <<webSocketVars, feeding, ready, readable, pongLate,
                 chan, buf, serverVars, calls>>

RequestFailed ==
  /\ rpc = "requested"
  /\ pc[Loop] = "raised"
  /\ CloseSocketThen("connect_fail")
  /\ UNCHANGED <<webSocketVars, event, feeding, ready, readable, pongLate,
                 chan, buf, serverVars, calls>>

-----------------------------------------------------------------------------
(* run(): the loop, and the housekeeping of _regular() *)

Pending == chan # <<>> \/ peer \in {"fin", "reset"}

Select ==
  /\ rpc = "loop"
  /\ ~closed
  /\ readable' = Pending
  /\ rpc' = IF ready THEN "poll" ELSE IF Pending THEN "recv" ELSE "loop"
  /\ UNCHANGED <<webSocketVars, after, event, feeding, ready, pongLate,
                 chan, buf, serverVars, calls>>

LoopEnds ==
  /\ rpc = "loop"
  /\ closed
  /\ CloseSocketThen("graceful")
  /\ UNCHANGED <<webSocketVars, event, feeding, ready, readable, pongLate,
                 chan, buf, serverVars, calls>>

Poll ==
  /\ rpc = "poll"
  /\ \/ Yield("poll", "auto_ping")
     \/ rpc' = "auto_ping" /\ UNCHANGED <<event, after>>
  /\ UNCHANGED <<webSocketVars, feeding, ready, readable, pongLate,
                 chan, buf, serverVars, calls>>

IsPing(f) == f = "ping"

AutoPing ==
  /\ rpc = "auto_ping"
  /\ rpc' = "timeouts"
  /\ \/ Len(SelectSeq(wire, IsPing)) < MaxPings /\ StartSend(Loop, "ping")
     \/ UNCHANGED callVars
  /\ UNCHANGED <<flagVars, hasSock, lock, tcp, peer, wire, after, event, feeding,
                 ready, readable, pongLate, chan, buf, serverVars, calls>>

\* Mutant: a handshake begun by the server is left out.
ExitCaughtAtMessages == feeding \in {"message", "closed", "rejected"}

\* feed() is suspended in its try block: dropping it runs on_disconnect().
\* At the yields of its except clauses nothing catches the GeneratorExit.
FeedCatchesExit == feeding \in {"message", "closed", "closing", "rejected"}

\* An exception leaves the loop, and takes feed() with it if it is running.
LoopRaises ==
  /\ CloseSocketThen(IF FeedCatchesExit THEN "unwind" ELSE "disconnected")
  /\ feeding' = "none"
  /\ buf' = <<>>

AfterRegular ==
  IF feeding # "none" THEN "resume" ELSE IF readable THEN "recv" ELSE "loop"

\* Mutant: _check_close_timeout() is not called.
TimeoutsWithoutClose ==
  /\ rpc = "timeouts"
  /\ pc[Loop] \in Rest
  /\ \/ pongLate /\ Yield("unresponsive", "force")
     \/ ~pongLate /\ rpc' = AfterRegular /\ UNCHANGED <<after, event>>
  /\ UNCHANGED <<webSocketVars, feeding, ready, readable, pongLate,
                 chan, buf, serverVars, calls>>

Timeouts ==
  /\ rpc = "timeouts"
  /\ pc[Loop] \in Rest
  /\ \/ pongLate /\ Yield("unresponsive", "force") /\ UNCHANGED <<feeding, buf>>
     \/ ~pongLate /\ sentCloseTime = "expired" /\ LoopRaises /\ UNCHANGED event
     \/ /\ ~pongLate /\ sentCloseTime # "expired"
        /\ rpc' = AfterRegular
        /\ UNCHANGED <<after, event, feeding, buf>>
  /\ UNCHANGED <<webSocketVars, ready, readable, pongLate, chan, serverVars, calls>>

\* Mutant: Unresponsive is not followed by the exception.
ForceNothing ==
  /\ rpc = "force"
  /\ rpc' = AfterRegular
  /\ UNCHANGED <<webSocketVars, after, event, feeding, ready, readable, pongLate,
                 chan, buf, serverVars, calls>>

ForceDisconnect ==
  /\ rpc = "force"
  /\ LoopRaises
  /\ UNCHANGED <<webSocketVars, event, ready, readable, pongLate,
                 chan, serverVars, calls>>

RecvData ==
  /\ rpc = "recv"
  /\ \E n \in 1..Len(chan) :
       /\ buf' = SubSeq(chan, 1, n)
       /\ chan' = SubSeq(chan, n + 1, Len(chan))
  /\ rpc' = "feed"
  /\ feeding' = "message"
  /\ UNCHANGED <<webSocketVars, after, event, ready, readable, pongLate,
                 serverVars, calls>>

\* Mutant: every end of file is a graceful exit.
RecvEndGraceful ==
  /\ rpc = "recv"
  /\ chan = <<>> /\ peer = "fin"
  /\ CloseSocketThen("graceful")
  /\ UNCHANGED <<webSocketVars, event, feeding, ready, readable, pongLate,
                 chan, buf, serverVars, calls>>

\* Mutant: Disconnected is yielded at once, the socket stays open.
RecvEndOpen ==
  /\ rpc = "recv"
  /\ chan = <<>> /\ peer = "fin"
  /\ Yield("disconnected", "done")
  /\ UNCHANGED <<webSocketVars, feeding, ready, readable, pongLate,
                 chan, buf, serverVars, calls>>

\* Mutant: while closing, the end of file is ignored and only the echo ends the loop.
RecvEndWaits ==
  /\ rpc = "recv"
  /\ chan = <<>> /\ peer = "fin"
  /\ IF closing THEN rpc' = "loop" /\ UNCHANGED after
                ELSE CloseSocketThen("disconnected")
  /\ UNCHANGED <<webSocketVars, event, feeding, ready, readable, pongLate,
                 chan, buf, serverVars, calls>>

\* End of file: a lost connection, unless a close handshake is under way.
RecvEnd ==
  /\ rpc = "recv"
  /\ chan = <<>> /\ peer = "fin"
  /\ CloseSocketThen(IF closing \/ closed THEN "graceful" ELSE "disconnected")
  /\ UNCHANGED <<webSocketVars, event, feeding, ready, readable, pongLate,
                 chan, buf, serverVars, calls>>

RecvFails ==
  /\ rpc = "recv"
  /\ peer = "reset"
  /\ CloseSocketThen("disconnected")
  /\ UNCHANGED <<webSocketVars, event, feeding, ready, readable, pongLate,
                 chan, buf, serverVars, calls>>

-----------------------------------------------------------------------------
(* WebSocket.feed(), and run()'s _on_event() before each event *)

FeedEnds ==
  /\ rpc = "feed"
  /\ buf = <<>>
  /\ feeding' = "none"
  /\ rpc' = "loop"
  /\ UNCHANGED <<webSocketVars, after, event, ready, readable, pongLate,
                 chan, buf, serverVars, calls>>

\* The next message in the buffer is m.
Takes(m) ==
  /\ rpc = "feed"
  /\ buf # <<>>
  /\ Head(buf) = m
  /\ buf' = Tail(buf)

FeedAccept ==
  /\ Takes("accept")
  /\ Yield("ready", "regular")
  /\ ready' = TRUE
  /\ pongLate' = FALSE
  /\ UNCHANGED <<webSocketVars, feeding, readable, chan, serverVars, calls>>

FeedReject ==
  /\ Takes("reject")
  /\ CloseSocketThen("reject")
  /\ UNCHANGED <<webSocketVars, event, feeding, ready, readable, pongLate,
                 chan, serverVars, calls>>

FeedText ==
  /\ Takes("text")
  /\ Yield("text", "regular")
  /\ UNCHANGED <<webSocketVars, feeding, ready, readable, pongLate,
                 chan, serverVars, calls>>

\* The automatic pong is sent before the application sees the Ping.
FeedPing ==
  /\ Takes("ping")
  /\ IF AutoPong
       THEN StartSend(Loop, "pong") /\ rpc' = "ponged" /\ UNCHANGED <<after, event>>
       ELSE Yield("ping", "regular") /\ UNCHANGED callVars
  /\ UNCHANGED <<flagVars, hasSock, lock, tcp, peer, wire, feeding, ready, readable,
                 pongLate, chan, serverVars, calls>>

Ponged ==
  /\ rpc = "ponged"
  /\ pc[Loop] \in Rest
  /\ Yield("ping", "regular")
  /\ UNCHANGED <<webSocketVars, feeding, ready, readable, pongLate,
                 chan, buf, serverVars, calls>>

\* A Ping with more than 125 bytes: send_pong() raises ValueError.
FeedBigPing ==
  /\ rpc = "feed"
  /\ buf # <<>> /\ Head(buf) = "bigping"
  /\ IF AutoPong
       THEN LoopRaises /\ UNCHANGED event
       ELSE Yield("ping", "regular") /\ buf' = Tail(buf) /\ UNCHANGED feeding
  /\ UNCHANGED <<webSocketVars, ready, readable, pongLate, chan, serverVars, calls>>

FeedPong ==
  /\ Takes("pong")
  /\ Yield("pong", "regular")
  /\ pongLate' = FALSE
  /\ UNCHANGED <<webSocketVars, feeding, ready, readable, chan, serverVars, calls>>

\* Mutant: the two branches of _on_close() are swapped.
FeedCloseSwapped ==
  /\ Takes("close")
  /\ feeding' = IF closing THEN "closing" ELSE "closed"
  /\ Yield(IF closing THEN "closing" ELSE "closed", "regular")
  /\ UNCHANGED <<webSocketVars, ready, readable, pongLate, chan, serverVars, calls>>

\* _on_close(): the server's Close is an echo if we are closing.
FeedClose ==
  /\ Takes("close")
  /\ feeding' = IF closing THEN "closed" ELSE "closing"
  /\ Yield(IF closing THEN "closed" ELSE "closing", "regular")
  /\ UNCHANGED <<webSocketVars, ready, readable, pongLate, chan, serverVars, calls>>

FeedBad ==
  /\ Takes("bad")
  /\ feeding' = "error"
  /\ Yield("protocol_error", "regular")
  /\ UNCHANGED <<webSocketVars, ready, readable, pongLate, chan, serverVars, calls>>

FeedCritical ==
  /\ Takes("critical")
  /\ feeding' = "critical"
  /\ Yield("protocol_error", "regular")
  /\ UNCHANGED <<webSocketVars, ready, readable, pongLate, chan, serverVars, calls>>

(* feed() goes on after the application has handled the event. *)

ResumeMessage ==
  /\ rpc = "resume" /\ feeding = "message"
  /\ rpc' = "feed"
  /\ UNCHANGED <<webSocketVars, after, event, feeding, ready, readable, pongLate,
                 chan, buf, serverVars, calls>>

ResumeRejected ==
  /\ rpc = "resume" /\ feeding = "rejected"
  /\ feeding' = "none"
  /\ buf' = <<>>
  /\ rpc' = "loop"
  /\ UNCHANGED <<webSocketVars, after, event, ready, readable, pongLate,
                 chan, serverVars, calls>>

\* Mutant: closed is not set, and feed() goes on.
ResumeClosedOpen ==
  /\ rpc = "resume" /\ feeding = "closed"
  /\ closing' = FALSE
  /\ feeding' = "message"
  /\ rpc' = "feed"
  /\ UNCHANGED <<closed, sentCloseTime, hasSock, lock, tcp, peer, wire, callVars, after,
                 event, ready, readable, pongLate, chan, buf, serverVars, calls>>

ResumeClosed ==
  /\ rpc = "resume" /\ feeding = "closed"
  /\ closing' = FALSE
  /\ rpc' = "mark_closed"
  /\ UNCHANGED <<closed, sentCloseTime, hasSock, lock, tcp, peer, wire, callVars, after,
                 event, feeding, ready, readable, pongLate, chan, buf, serverVars, calls>>

MarkClosed ==
  /\ rpc = "mark_closed"
  /\ closed' = TRUE
  /\ feeding' = "none"
  /\ buf' = <<>>
  /\ rpc' = "loop"
  /\ UNCHANGED <<closing, sentCloseTime, hasSock, lock, tcp, peer, wire, callVars, after,
                 event, ready, readable, pongLate, chan, serverVars, calls>>

\* Mutant: no close() before the forced disconnect.
ResumeWithoutClose ==
  /\ rpc = "resume" /\ feeding \in {"closing", "error"}
  /\ IF feeding = "closing" THEN StartClose(Loop) /\ rpc' = "echoed"
                            ELSE rpc' = "erred" /\ UNCHANGED callVars
  /\ UNCHANGED <<flagVars, hasSock, lock, tcp, peer, wire, after, event, feeding,
                 ready, readable, pongLate, chan, buf, serverVars, calls>>

\* The echo of a Close the server sent first, and the Close after a
\* ProtocolError, are ordinary calls of close().
ResumeWithClose ==
  /\ rpc = "resume" /\ feeding \in {"closing", "error"}
  /\ StartClose(Loop)
  /\ rpc' = IF feeding = "closing" THEN "echoed" ELSE "erred"
  /\ UNCHANGED <<flagVars, hasSock, lock, tcp, peer, wire, after, event, feeding,
                 ready, readable, pongLate, chan, buf, serverVars, calls>>

Echoed ==
  /\ rpc = "echoed"
  /\ pc[Loop] \in Rest
  /\ closing' = TRUE
  /\ feeding' = "message"
  /\ rpc' = "feed"
  /\ UNCHANGED <<closed, sentCloseTime, hasSock, lock, tcp, peer, wire, callVars, after,
                 event, ready, readable, pongLate, chan, buf, serverVars, calls>>

\* force_disconnect() is raised from feed() itself: nothing is suspended.
ProtocolErrorEnds ==
  /\ \/ rpc = "erred" /\ pc[Loop] \in Rest
     \/ rpc = "resume" /\ feeding = "critical"
  /\ LoopRaises
  /\ UNCHANGED <<webSocketVars, event, ready, readable, pongLate,
                 chan, serverVars, calls>>

-----------------------------------------------------------------------------
(* _close_socket() and on_disconnect() *)

\* Mutant: on_disconnect() closes the socket and nothing else.
SocketClosedOnly == Yield(after, "done")

\* What follows _close_socket().
SocketClosed ==
  \/ after \in ThenLastEvent /\ Yield(after, "done")
  \/ after \in ThenOnDisconnect /\ rpc' = "clear_closing" /\ UNCHANGED <<after, event>>
  \/ after = "exit" /\ rpc' = "abandoned" /\ UNCHANGED <<after, event>>

CloseSocketAgain ==
  /\ rpc = "close_socket"
  /\ ~hasSock
  /\ SocketClosed
  /\ UNCHANGED <<webSocketVars, feeding, ready, readable, pongLate,
                 chan, buf, serverVars, calls>>

\* shutdown() raises on a broken connection, and close() is then skipped.
CloseSocket ==
  /\ rpc = "close_socket"
  /\ hasSock
  /\ lock = None
  /\ tcp' = IF peer = "reset" THEN tcp ELSE "shut"
  /\ rpc' = "clear_sock"
  /\ UNCHANGED <<flagVars, hasSock, lock, peer, wire, callVars, after, event, feeding,
                 ready, readable, pongLate, chan, buf, serverVars, calls>>

\* The finally clause: the lock is already released.
ClearSock ==
  /\ rpc = "clear_sock"
  /\ hasSock' = FALSE
  /\ SocketClosed
  /\ UNCHANGED <<flagVars, lock, tcp, peer, wire, callVars, feeding, ready, readable,
                 pongLate, chan, buf, serverVars, calls>>

ClearClosing ==
  /\ rpc = "clear_closing"
  /\ closing' = FALSE
  /\ rpc' = "set_closed"
  /\ UNCHANGED <<closed, sentCloseTime, hasSock, lock, tcp, peer, wire, callVars, after,
                 event, feeding, ready, readable, pongLate, chan, buf, serverVars, calls>>

SetClosed ==
  /\ rpc = "set_closed"
  /\ closed' = TRUE
  /\ \/ /\ after = "reject"
        /\ feeding' = "rejected"
        /\ Yield("rejected", "regular")
     \/ /\ after = "unwind"
        /\ CloseSocketThen("disconnected")
        /\ UNCHANGED <<event, feeding>>
     \/ /\ after = "abandon"
        /\ rpc' = "abandoned"
        /\ UNCHANGED <<event, after, feeding>>
  /\ UNCHANGED <<closing, sentCloseTime, hasSock, lock, tcp, peer, wire, callVars,
                 ready, readable, pongLate, chan, buf, serverVars, calls>>

-----------------------------------------------------------------------------
(* The application *)

\* It asks for the next event.
Resume ==
  /\ rpc = "yield"
  /\ pc[Loop] \in Rest
  /\ rpc' = IF after # "regular" THEN after ELSE IF ready THEN "poll" ELSE "resume"
  /\ UNCHANGED <<webSocketVars, after, event, feeding, ready, readable, pongLate,
                 chan, buf, serverVars, calls>>

\* It drops the generator instead.
Abandon ==
  /\ rpc = "yield" /\ after # "done"
  /\ pc[Loop] \in Rest
  /\ IF FeedCatchesExit
       THEN CloseSocketThen("abandon")
       ELSE rpc' = "abandoned" /\ UNCHANGED after
  /\ feeding' = "none"
  /\ buf' = <<>>
  /\ UNCHANGED <<webSocketVars, event, ready, readable, pongLate,
                 chan, serverVars, calls>>

\* The with block around the loop ends: __exit__() closes the socket.  When the
\* loop has ended by itself there is none.
LeaveWith ==
  /\ rpc = "abandoned"
  /\ pc[Loop] \in Rest
  /\ hasSock
  /\ CloseSocketThen("exit")
  /\ UNCHANGED <<webSocketVars, event, feeding, ready, readable, pongLate,
                 chan, buf, serverVars, calls>>

\* A thread calls close() or sends something: the loop's thread only while
\* the generator is suspended or over.
AppCalls(t) ==
  /\ t = Loop => rpc \in {"yield", "done", "abandoned"}
  /\ calls[t] < MaxCalls
  /\ calls' = [calls EXCEPT ![t] = @ + 1]
  /\ StartClose(t) \/ StartSend(t, "data")
  /\ UNCHANGED <<flagVars, hasSock, lock, tcp, peer, wire, loopVars, chan, serverVars>>

ThreadStep(t) == CallStep(t) /\ UNCHANGED sessionVars

-----------------------------------------------------------------------------
(* The server, the network and the clock *)

ServerAnswers ==
  /\ answered = "none"
  /\ tcp = "open" /\ peer \in {"up", "stalled"}
  /\ Contains(wire, "request")
  /\ served < MaxServerFrames
  /\ \E m \in Answers : answered' = m /\ chan' = Append(chan, m)
  /\ served' = served + 1
  /\ UNCHANGED <<webSocketVars, loopVars, calls>>

ServerSends ==
  /\ answered = "accept"
  /\ tcp = "open" /\ peer \in {"up", "stalled"}
  /\ served < MaxServerFrames
  /\ \E m \in ServerFrames : chan' = Append(chan, m)
  /\ served' = served + 1
  /\ UNCHANGED <<webSocketVars, loopVars, answered, calls>>

\* The peer stops reading, reads again, closes its end, or is lost.
PeerChanges ==
  /\ tcp = "open"
  /\ \/ PeerMayStall /\ peer = "up" /\ peer' = "stalled"
     \/ peer = "stalled" /\ peer' = "up"
     \/ PeerMayBreak /\ peer \in {"up", "stalled"} /\ peer' = "fin"
     \/ PeerMayBreak /\ peer # "reset" /\ peer' = "reset"
  /\ UNCHANGED <<flagVars, hasSock, lock, tcp, wire, callVars, sessionVars>>

CloseTimerExpires ==
  /\ CloseTimeout /\ ready
  /\ sentCloseTime = "running"
  /\ sentCloseTime' = "expired"
  /\ UNCHANGED <<closing, closed, hasSock, lock, tcp, peer, wire, callVars, sessionVars>>

PongTimerExpires ==
  /\ PingTimeout /\ ready
  /\ ~pongLate
  /\ pongLate' = TRUE
  /\ UNCHANGED <<webSocketVars, rpc, after, event, feeding, ready, readable,
                 chan, buf, serverVars, calls>>

-----------------------------------------------------------------------------
RunStep ==
  \/ Start \/ Connect \/ ConnectFails \/ SendRequest \/ RequestSent \/ RequestFailed
  \/ Select \/ LoopEnds \/ Poll \/ AutoPing \/ Timeouts \/ ForceDisconnect
  \/ RecvData \/ RecvEnd \/ RecvFails

FeedStep ==
  \/ FeedEnds \/ FeedAccept \/ FeedReject \/ FeedText \/ FeedPing \/ Ponged
  \/ FeedBigPing \/ FeedPong \/ FeedClose \/ FeedBad \/ FeedCritical
  \/ ResumeMessage \/ ResumeRejected \/ ResumeClosed \/ MarkClosed
  \/ ResumeWithClose \/ Echoed \/ ProtocolErrorEnds

CloseStep ==
  \/ CloseSocketAgain \/ CloseSocket \/ ClearSock \/ ClearClosing \/ SetClosed

LoopStep == RunStep \/ FeedStep \/ CloseStep \/ Resume \/ Abandon

Environment ==
  \/ ServerAnswers \/ ServerSends \/ PeerChanges
  \/ CloseTimerExpires \/ PongTimerExpires

\* The generator is over and every call has returned.  A state without a
\* successor other than these is a deadlock.
Over == rpc \in {"done", "abandoned"}

Terminated ==
  /\ Over
  /\ \A t \in Threads : pc[t] \in Rest
  /\ UNCHANGED vars

Next ==
  \/ LoopStep
  \/ LeaveWith
  \/ Environment
  \/ \E t \in Threads : AppCalls(t) \/ ThreadStep(t)
  \/ Terminated

Spec == Init /\ [][Next]_vars

\* Threads are scheduled, handlers return, clocks advance.  Nothing is
\* assumed of the server or of what the application calls.
Fairness ==
  /\ WF_vars(LoopStep)
  /\ \A t \in Threads : WF_vars(ThreadStep(t))
  /\ WF_vars(CloseTimerExpires)

FairSpec == Spec /\ Fairness

-----------------------------------------------------------------------------
(* Properties that hold with any number of threads *)

\* The lock really excludes: a thread is between the acquisition and the
\* release in write() exactly when it is the lock's owner, so two frames
\* never mix on the wire (session.py, "with self._lock").
OneWriter == \A t \in Threads : pc[t] \in InLock <=> lock = t

\* When the last event reaches the application, the session has let go of
\* its socket and has shut it, unless the connection was broken already
\* (session.py, every path to ConnectFail and Disconnected).
SocketReleased ==
  event \in Final => ~hasSock /\ (tcp # "open" \/ peer = "reset")

\* Nothing is sent once the last event has been yielded, even by a thread
\* that was already inside write() (session.py: _close_socket takes the lock).
QuietAfterEnd == [][(event \in Final) => wire' = wire]_vars

\* Disconnected(graceful=True) is only reported when a close was asked for:
\* the application called close(), the server's Close was handled, or the
\* upgrade was refused (session.py, the else clause of run()).
GracefulWasAsked == event = "graceful" => closing \/ closed

\* The inductive invariant behind the three properties above: the last event
\* is yielded only after _sock was cleared, it stays the last, and between the
\* shutdown and that assignment the socket is already unusable.
EndInv ==
  /\ event \in Final => rpc = "done" \/ (rpc = "yield" /\ after = "done")
  /\ event \in Final => ~hasSock
  /\ ~hasSock \/ rpc = "clear_sock" => tcp # "open" \/ peer = "reset"
  /\ rpc \in {"start", "connect"} \/ (rpc = "yield" /\ after = "connect") => ~hasSock
  /\ rpc \in {"close_socket", "clear_sock"} /\ after = "graceful" => closing \/ closed
  /\ GracefulWasAsked

\* What run() yields is an event stream, see EventStream.tla.
Closes == {"close_socket", "clear_sock", "clear_closing", "set_closed"}

Stage ==
  IF event = "none" THEN "start"
  ELSE IF event \in Final THEN "over"
  ELSE IF \/ rpc \in Closes \cup {"force", "abandoned"}
          \/ rpc = "yield" /\ after = "force"
          \/ feeding \in {"closed", "error", "critical", "rejected"}
          \/ closed
         THEN "ending"
  ELSE IF event = "connecting" THEN "connecting"
  ELSE "open"

Handshake ==
  \/ closing \/ closed
  \/ feeding \in {"closing", "closed"}
  \/ rpc \in Closes /\ after \in ThenOnDisconnect

Promise == INSTANCE EventStream
             WITH stage <- Stage, upgraded <- ready, handshake <- Handshake

EventOrder == Promise!Spec

\* Once a Close has been sent on an upgraded connection the iteration ends, by
\* the echo or by the close timeout, if the peer stops reading no more than for a
\* while: a thread that is inside sendall() then has the lock that _close_socket()
\* waits for (session.py, _check_close_timeout, write).
CloseCompletes ==
  <>[](peer # "stalled") => ((ready /\ sentCloseTime # "none") ~> Over)

\* A connection that ended or broke ends the iteration.
LossIsNoticed == (tcp = "open" /\ peer \in {"fin", "reset"}) ~> Over

\* When the application drops the generator at an event that stands for a
\* message, the socket is shut, whatever other threads are doing
\* (websocket.py, feed's GeneratorExit handler).
DroppedIsShut ==
  /\ rpc = "abandoned"
  /\ event \in {"ready", "rejected", "text", "ping", "pong", "closing", "closed"}
  => tcp # "open" \/ peer = "reset"

(* Properties that hold when only the loop's thread makes calls *)

\* The upgrade request is the first thing sent, and no frame follows a Close
\* frame, so there is at most one of them (websocket.py, close() and is_closing;
\* RFC 6455 5.5.1).
FramesInOrder ==
  /\ wire # <<>> => Head(wire) = "request"
  /\ \A i \in 1..Len(wire) : wire[i] = "close" => i = Len(wire)

Broken == peer \in {"fin", "reset"}

\* The application is told Closed only when a Close was sent as well.
ClosedWasSent == event = "closed" => Contains(wire, "close") \/ Broken

\* After a ProtocolError that is not critical the session does not give up
\* before a Close frame was sent (events.py, ProtocolError).
ErrorSendsClose ==
  rpc = "erred" /\ pc[Loop] \in Rest => Contains(wire, "close") \/ Broken

-----------------------------------------------------------------------------
(* What the documentation says, and the code does not do *)

\* "No further messages may be sent when a websocket is closing"
\* (websocket.py:139): no data follows a Close.
NoDataAfterClose ==
  \A i, j \in 1..Len(wire) : i < j /\ wire[i] = "close" => wire[j] # "data"
=============================================================================
