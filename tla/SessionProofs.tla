---------------------------- MODULE SessionProofs ----------------------------
(***************************************************************************)
(* What holds of Session.tla for every value of its constants: any number  *)
(* of threads, calls and frames.                                           *)
(*                                                                         *)
(* Two orders come from invariants of their own.  The events: Session      *)
(* implements EventStream, because of where run() and feed() are when they *)
(* yield (PlaceInv), and because the server's answer comes first and once  *)
(* (ArrivedInv).  The frames on the wire, if no other thread makes calls:  *)
(* the theorems at the end, from SoloInv.                                  *)
(***************************************************************************)
EXTENDS Session, TLAPS

-----------------------------------------------------------------------------
(* Type correctness *)

\* The initial state has its type.
LEMMA TypeInit == Init => SessionTypeOK
<1> SUFFICES ASSUME Init PROVE SessionTypeOK
    OBVIOUS
<1>1. CallsTypeOK
  BY DEF Init, WebSocketInit, CallsTypeOK, CallPCs, Rest
<1>2. WebSocketTypeOK
  <2>1. wire \in Seq(Frames) /\ lock \in Threads \cup {None}
    BY DEF Init, WebSocketInit
  <2> QED
    BY <1>1, <2>1 DEF Init, WebSocketInit, WebSocketTypeOK
<1>3. chan \in Seq(FromServer) /\ calls \in [Threads -> Nat]
  BY DEF Init
<1> QED
  BY <1>2, <1>3 DEF Init, SessionTypeOK, LoopPCs

\* Ending a call keeps the type.
LEMMA ReturnType ==
  ASSUME CallsTypeOK, NEW t \in Threads, NEW p \in Rest, Return(t, p)
  PROVE  CallsTypeOK'
BY DEF CallsTypeOK, Return, Goto, CallPCs

\* Moving a thread on keeps the type.
LEMMA GotoType ==
  ASSUME CallsTypeOK, NEW t \in Threads, NEW p \in CallPCs, Goto(t, p), UNCHANGED frame,
         pc[t] \notin Rest
  PROVE  CallsTypeOK'
BY DEF CallsTypeOK, Goto

\* Beginning a call keeps the type.
LEMMA StartType ==
  ASSUME CallsTypeOK, NEW t \in Threads, NEW f \in Frames,
         StartClose(t) \/ StartSend(t, f)
  PROVE  CallsTypeOK'
BY DEF CallsTypeOK, StartClose, StartSend, Goto, CallPCs, Frames

\* Leaving write() keeps the type, whether it returns or raises.
LEMMA WriteEndsType ==
  ASSUME CallsTypeOK, NEW t \in Threads, pc[t] \notin Rest,
         WriteRaises(t) \/ WriteReturns(t)
  PROVE  CallsTypeOK'
<1>1. {"idle", "raised"} \subseteq Rest /\ "close_flag" \in CallPCs
  BY DEF CallPCs, Rest
<1>2. CASE frame[t] = "close"
  BY <1>1, <1>2, GotoType DEF WriteRaises, WriteReturns
<1>3. CASE frame[t] # "close"
  BY <1>1, <1>3, ReturnType DEF WriteRaises, WriteReturns
<1> QED
  BY <1>2, <1>3

\* A step of any thread inside a call keeps the type.
LEMMA CallType ==
  ASSUME WebSocketTypeOK, NEW t \in Threads, CallStep(t)
  PROVE  WebSocketTypeOK'
<1> USE DEF flagVars
<1>0. /\ CallsTypeOK
      /\ CallPCs \ Rest = {"close_closed", "close_closing", "close_flag", "close_time",
                          "write", "write_closed", "write_closing", "write_sendall"}
      /\ "idle" \in Rest
  BY DEF WebSocketTypeOK, CallPCs, Rest, InLock
<1>1. CASE CloseTestsClosed(t)
  <2>1. CallsTypeOK'
    BY <1>0, <1>1, ReturnType, GotoType DEF CloseTestsClosed
  <2> QED
    BY <1>1, <2>1 DEF CloseTestsClosed, WebSocketTypeOK
<1>2. CASE CloseTestsClosing(t)
  <2>1. CallsTypeOK'
    BY <1>0, <1>2, ReturnType, GotoType DEF CloseTestsClosing
  <2> QED
    BY <1>2, <2>1 DEF CloseTestsClosing, WebSocketTypeOK
<1>3. CASE CloseSetsClosing(t)
  <2>1. CallsTypeOK'
    BY <1>0, <1>3, GotoType DEF CloseSetsClosing
  <2> QED
    BY <1>3, <2>1 DEF CloseSetsClosing, WebSocketTypeOK
<1>4. CASE CloseSetsTime(t)
  <2>1. CallsTypeOK'
    BY <1>0, <1>4, ReturnType DEF CloseSetsTime
  <2> QED
    BY <1>4, <2>1 DEF CloseSetsTime, WebSocketTypeOK
<1>5. CASE WriteUnavailable(t)
  <2>1. CallsTypeOK'
    BY <1>0, <1>5, WriteEndsType DEF WriteUnavailable
  <2> QED
    BY <1>5, <2>1 DEF WriteUnavailable, WebSocketTypeOK
<1>6. CASE WriteAcquires(t)
  <2>1. CallsTypeOK'
    BY <1>0, <1>6, GotoType DEF WriteAcquires
  <2> QED
    BY <1>6, <2>1 DEF WriteAcquires, WebSocketTypeOK
<1>7. CASE WriteTestsClosed(t)
  <2>1. CallsTypeOK'
    BY <1>0, <1>7, WriteEndsType, GotoType DEF WriteTestsClosed
  <2>2. lock' \in Threads \cup {None}
    BY <1>7 DEF WriteTestsClosed, WebSocketTypeOK
  <2> QED
    BY <1>7, <2>1, <2>2 DEF WriteTestsClosed, WebSocketTypeOK
<1>8. CASE WriteTestsClosing(t)
  <2>1. CallsTypeOK'
    BY <1>0, <1>8, WriteEndsType, GotoType DEF WriteTestsClosing
  <2>2. lock' \in Threads \cup {None}
    BY <1>8 DEF WriteTestsClosing, WebSocketTypeOK
  <2> QED
    BY <1>8, <2>1, <2>2 DEF WriteTestsClosing, WebSocketTypeOK
<1>9. CASE Sendall(t)
  <2>1. CallsTypeOK'
    BY <1>0, <1>9, WriteEndsType DEF Sendall
  <2>2. frame[t] \in Frames
    BY <1>0, <1>9 DEF Sendall, CallsTypeOK
  <2> QED
    BY <1>9, <2>1, <2>2 DEF Sendall, WebSocketTypeOK
<1>10. CASE SendallFails(t)
  <2>1. CallsTypeOK'
    BY <1>0, <1>10, WriteEndsType DEF SendallFails
  <2> QED
    BY <1>10, <2>1 DEF SendallFails, WebSocketTypeOK
<1> QED
  BY <1>1, <1>2, <1>3, <1>4, <1>5, <1>6, <1>7, <1>8, <1>9, <1>10 DEF CallStep

\* What leaves the variables of the calls alone keeps their type.
LEMMA WebSocketSame ==
  ASSUME WebSocketTypeOK, UNCHANGED webSocketVars
  PROVE  WebSocketTypeOK'
BY DEF WebSocketTypeOK, CallsTypeOK, webSocketVars

\* A call that the loop's thread begins, and nothing else of the websocket.
LEMMA WebSocketStarts ==
  ASSUME WebSocketTypeOK, NEW t \in Threads, NEW f \in Frames,
         StartClose(t) \/ StartSend(t, f),
         UNCHANGED <<flagVars, hasSock, lock, tcp, peer, wire>>
  PROVE  WebSocketTypeOK'
<1>1. CallsTypeOK'
  BY StartType DEF WebSocketTypeOK
<1> QED
  BY <1>1 DEF WebSocketTypeOK, flagVars

\* The loop's thread is one of the threads.
LEMMA LoopIsThread == Loop \in Threads
BY DEF Threads

\* The frames that the loop and the application send are frames.
LEMMA FrameKinds == {"request", "data", "ping", "pong", "close"} \subseteq Frames
BY DEF Frames

\* The steps of run() outside of feed() keep the type.
LEMMA RunType ==
  ASSUME SessionTypeOK, RunStep
  PROVE  SessionTypeOK'
<1> USE DEF serverVars, callVars, flagVars, LoopPCs, AfterYield
<1>0. WebSocketTypeOK
  BY DEF SessionTypeOK
<1>1. CASE Start
  BY <1>0, <1>1, WebSocketSame DEF Start, Yield, Events, SessionTypeOK
<1>2. CASE Connect
  <2>1. WebSocketTypeOK'
    BY <1>0, <1>2 DEF Connect, WebSocketTypeOK, CallsTypeOK
  <2> QED
    BY <1>2, <2>1 DEF Connect, SessionTypeOK
<1>3. CASE ConnectFails
  BY <1>0, <1>3, WebSocketSame DEF ConnectFails, Yield, Events, Final, SessionTypeOK
<1>4. CASE SendRequest
  <2>1. WebSocketTypeOK'
    BY <1>0, <1>4, WebSocketStarts, LoopIsThread, FrameKinds DEF SendRequest
  <2> QED
    BY <1>4, <2>1 DEF SendRequest, SessionTypeOK
<1>5. CASE RequestSent
  BY <1>0, <1>5, WebSocketSame DEF RequestSent, Yield, Events, SessionTypeOK
<1>6. CASE RequestFailed
  BY <1>0, <1>6, WebSocketSame
     DEF RequestFailed, CloseSocketThen, ThenLastEvent, Final, SessionTypeOK
<1>7. CASE Select
  BY <1>0, <1>7, WebSocketSame DEF Select, Pending, SessionTypeOK
<1>8. CASE LoopEnds
  BY <1>0, <1>8, WebSocketSame
     DEF LoopEnds, CloseSocketThen, ThenLastEvent, Final, SessionTypeOK
<1>9. CASE Poll
  BY <1>0, <1>9, WebSocketSame DEF Poll, Yield, Events, SessionTypeOK
<1>10. CASE AutoPing
  <2>1. WebSocketTypeOK'
    <3>1. CASE UNCHANGED callVars
      BY <1>0, <1>10, <3>1, WebSocketSame DEF AutoPing, webSocketVars
    <3>2. CASE StartSend(Loop, "ping")
      BY <1>0, <1>10, <3>2, WebSocketStarts, LoopIsThread, FrameKinds DEF AutoPing
    <3> QED
      BY <1>10, <3>1, <3>2 DEF AutoPing
  <2> QED
    BY <1>10, <2>1 DEF AutoPing, SessionTypeOK
<1>11. CASE Timeouts
  <2>1. CASE Yield("unresponsive", "force") /\ UNCHANGED <<feeding, buf>>
    BY <1>0, <1>11, <2>1, WebSocketSame DEF Timeouts, Yield, Events, SessionTypeOK
  <2>2. CASE LoopRaises /\ UNCHANGED event
    BY <1>0, <1>11, <2>2, WebSocketSame
       DEF Timeouts, LoopRaises, CloseSocketThen, ThenLastEvent, ThenOnDisconnect, Final,
           SessionTypeOK
  <2>3. CASE rpc' = AfterRegular /\ UNCHANGED <<after, event, feeding, buf>>
    BY <1>0, <1>11, <2>3, WebSocketSame DEF Timeouts, AfterRegular, SessionTypeOK
  <2> QED
    BY <1>11, <2>1, <2>2, <2>3 DEF Timeouts
<1>12. CASE ForceDisconnect
  BY <1>0, <1>12, WebSocketSame
     DEF ForceDisconnect, LoopRaises, CloseSocketThen, ThenLastEvent, ThenOnDisconnect,
         Final, SessionTypeOK
<1>13. CASE RecvData
  BY <1>0, <1>13, WebSocketSame DEF RecvData, SessionTypeOK
<1>14. CASE RecvEnd
  BY <1>0, <1>14, WebSocketSame
     DEF RecvEnd, CloseSocketThen, ThenLastEvent, Final, SessionTypeOK
<1>15. CASE RecvFails
  BY <1>0, <1>15, WebSocketSame
     DEF RecvFails, CloseSocketThen, ThenLastEvent, Final, SessionTypeOK
<1> QED
  BY <1>1, <1>2, <1>3, <1>4, <1>5, <1>6, <1>7, <1>8, <1>9, <1>10, <1>11, <1>12, <1>13,
     <1>14, <1>15
     DEF RunStep

\* The steps of feed() keep the type.
LEMMA FeedType ==
  ASSUME SessionTypeOK, FeedStep
  PROVE  SessionTypeOK'
<1> USE DEF serverVars, callVars, flagVars, LoopPCs, AfterYield
<1>0. WebSocketTypeOK
  BY DEF SessionTypeOK
<1>1. CASE FeedEnds
  BY <1>0, <1>1, WebSocketSame DEF FeedEnds, SessionTypeOK
<1>2. CASE FeedAccept
  <2>1. ready' \in BOOLEAN /\ pongLate' \in BOOLEAN
    BY <1>2 DEF FeedAccept
  <2>2. buf' \in Seq(FromServer)
    BY <1>2 DEF FeedAccept, Takes, SessionTypeOK
  <2> QED
    BY <1>0, <1>2, <2>1, <2>2, WebSocketSame
       DEF FeedAccept, Takes, Yield, Events, SessionTypeOK
<1>3. CASE FeedReject
  BY <1>0, <1>3, WebSocketSame
     DEF FeedReject, Takes, CloseSocketThen, ThenOnDisconnect, SessionTypeOK
<1>4. CASE FeedText
  BY <1>0, <1>4, WebSocketSame DEF FeedText, Takes, Yield, Events, SessionTypeOK
<1>5. CASE FeedPing
  <2>1. WebSocketTypeOK'
    <3>1. CASE AutoPong
      BY <1>0, <1>5, <3>1, WebSocketStarts, LoopIsThread, FrameKinds DEF FeedPing
    <3>2. CASE ~AutoPong
      BY <1>0, <1>5, <3>2, WebSocketSame DEF FeedPing, webSocketVars
    <3> QED
      BY <3>1, <3>2
  <2> QED
    BY <1>5, <2>1 DEF FeedPing, Takes, Yield, Events, SessionTypeOK
<1>6. CASE Ponged
  BY <1>0, <1>6, WebSocketSame DEF Ponged, Takes, Yield, Events, SessionTypeOK
<1>7. CASE FeedBigPing
  <2>1. CASE AutoPong
    BY <1>0, <1>7, <2>1, WebSocketSame
       DEF FeedBigPing, LoopRaises, CloseSocketThen, ThenLastEvent, ThenOnDisconnect,
           Final, SessionTypeOK
  <2>2. CASE ~AutoPong
    <3>1. buf' \in Seq(FromServer)
      <4>1. buf' = Tail(buf) /\ buf # <<>>
        BY <1>7, <2>2 DEF FeedBigPing
      <4> QED
        BY <4>1 DEF SessionTypeOK
    <3>2. event' \in Events /\ after' = "regular" /\ rpc' = "yield"
      BY <1>7, <2>2 DEF FeedBigPing, Yield, Events
    <3>3. WebSocketTypeOK'
      BY <1>0, <1>7, WebSocketSame DEF FeedBigPing
    <3> QED
      BY <1>7, <2>2, <3>1, <3>2, <3>3 DEF FeedBigPing, SessionTypeOK
  <2> QED
    BY <2>1, <2>2
<1>8. CASE FeedPong
  <2>1. pongLate' \in BOOLEAN
    BY <1>8 DEF FeedPong
  <2>2. buf' \in Seq(FromServer)
    BY <1>8 DEF FeedPong, Takes, SessionTypeOK
  <2>3. WebSocketTypeOK'
    BY <1>0, <1>8, WebSocketSame DEF FeedPong
  <2>4. event' \in Events /\ after' = "regular" /\ rpc' = "yield"
    BY <1>8 DEF FeedPong, Yield, Events
  <2> QED
    BY <1>8, <2>1, <2>2, <2>3, <2>4 DEF FeedPong, SessionTypeOK
<1>9. CASE FeedClose
  BY <1>0, <1>9, WebSocketSame DEF FeedClose, Takes, Yield, Events, SessionTypeOK
<1>10. CASE FeedBad
  BY <1>0, <1>10, WebSocketSame DEF FeedBad, Takes, Yield, Events, SessionTypeOK
<1>11. CASE FeedCritical
  BY <1>0, <1>11, WebSocketSame DEF FeedCritical, Takes, Yield, Events, SessionTypeOK
<1>12. CASE ResumeMessage
  BY <1>0, <1>12, WebSocketSame DEF ResumeMessage, SessionTypeOK
<1>13. CASE ResumeRejected
  BY <1>0, <1>13, WebSocketSame DEF ResumeRejected, SessionTypeOK
<1>14. CASE ResumeClosed
  <2>1. WebSocketTypeOK'
    BY <1>0, <1>14 DEF ResumeClosed, WebSocketTypeOK, CallsTypeOK
  <2> QED
    BY <1>14, <2>1 DEF ResumeClosed, SessionTypeOK
<1>15. CASE MarkClosed
  <2>1. WebSocketTypeOK'
    BY <1>0, <1>15 DEF MarkClosed, WebSocketTypeOK, CallsTypeOK
  <2> QED
    BY <1>15, <2>1 DEF MarkClosed, SessionTypeOK
<1>16. CASE ResumeWithClose
  <2>1. WebSocketTypeOK'
    BY <1>0, <1>16, WebSocketStarts, LoopIsThread, FrameKinds DEF ResumeWithClose
  <2> QED
    BY <1>16, <2>1 DEF ResumeWithClose, SessionTypeOK
<1>17. CASE Echoed
  <2>1. WebSocketTypeOK'
    BY <1>0, <1>17 DEF Echoed, WebSocketTypeOK, CallsTypeOK
  <2> QED
    BY <1>17, <2>1 DEF Echoed, SessionTypeOK
<1>18. CASE ProtocolErrorEnds
  BY <1>0, <1>18, WebSocketSame
     DEF ProtocolErrorEnds, LoopRaises, CloseSocketThen, ThenLastEvent, ThenOnDisconnect,
         Final, SessionTypeOK
<1> QED
  BY <1>1, <1>2, <1>3, <1>4, <1>5, <1>6, <1>7, <1>8, <1>9, <1>10, <1>11, <1>12, <1>13,
     <1>14, <1>15, <1>16, <1>17, <1>18
     DEF FeedStep

\* Closing the socket keeps the type.
LEMMA CloseType ==
  ASSUME SessionTypeOK, CloseStep
  PROVE  SessionTypeOK'
<1> USE DEF serverVars, callVars, flagVars, LoopPCs, AfterYield
<1>0. WebSocketTypeOK
  BY DEF SessionTypeOK
<1>1. CASE CloseSocketAgain
  BY <1>0, <1>1, WebSocketSame
     DEF CloseSocketAgain, SocketClosed, ThenLastEvent, ThenOnDisconnect, Final, Yield,
         Events,
         SessionTypeOK
<1>2. CASE CloseSocket
  <2>1. WebSocketTypeOK'
    BY <1>0, <1>2 DEF CloseSocket, WebSocketTypeOK, CallsTypeOK
  <2> QED
    BY <1>2, <2>1 DEF CloseSocket, SessionTypeOK
<1>3. CASE ClearSock
  <2>1. WebSocketTypeOK'
    BY <1>0, <1>3 DEF ClearSock, WebSocketTypeOK, CallsTypeOK
  <2> QED
    BY <1>3, <2>1
       DEF ClearSock, SocketClosed, ThenLastEvent, ThenOnDisconnect, Final, Yield, Events,
           SessionTypeOK
<1>4. CASE ClearClosing
  <2>1. WebSocketTypeOK'
    BY <1>0, <1>4 DEF ClearClosing, WebSocketTypeOK, CallsTypeOK
  <2> QED
    BY <1>4, <2>1 DEF ClearClosing, SessionTypeOK
<1>5. CASE SetClosed
  <2>1. WebSocketTypeOK'
    BY <1>0, <1>5 DEF SetClosed, WebSocketTypeOK, CallsTypeOK
  <2> QED
    BY <1>5, <2>1
       DEF SetClosed, CloseSocketThen, ThenLastEvent, Final, Yield, Events, SessionTypeOK
<1> QED
  BY <1>1, <1>2, <1>3, <1>4, <1>5 DEF CloseStep

\* What the application does at an event keeps the type.
LEMMA ApplicationType ==
  ASSUME SessionTypeOK, Resume \/ Abandon \/ LeaveWith
  PROVE  SessionTypeOK'
<1> USE DEF serverVars, LoopPCs, AfterYield
<1>0. WebSocketTypeOK
  BY DEF SessionTypeOK
<1>1. CASE Resume
  BY <1>0, <1>1, WebSocketSame DEF Resume, SessionTypeOK, ThenOnDisconnect, ThenLastEvent, Final
<1>2. CASE Abandon
  <2>1. WebSocketTypeOK'
    BY <1>0, <1>2, WebSocketSame DEF Abandon
  <2>2. /\ rpc' \in {"close_socket", "abandoned"}
        /\ after' = "abandon" \/ after' = after
        /\ feeding' = "none" /\ buf' = <<>>
    BY <1>2 DEF Abandon, CloseSocketThen
  <2> QED
    BY <1>2, <2>1, <2>2 DEF Abandon, SessionTypeOK, ThenOnDisconnect
<1>3. CASE LeaveWith
  BY <1>0, <1>3, WebSocketSame DEF LeaveWith, CloseSocketThen, SessionTypeOK
<1> QED
  BY <1>1, <1>2, <1>3

\* A step of another thread keeps the type.
LEMMA ThreadType ==
  ASSUME SessionTypeOK, NEW t \in Threads, AppCalls(t) \/ ThreadStep(t)
  PROVE  SessionTypeOK'
<1>0. WebSocketTypeOK
  BY DEF SessionTypeOK
<1>1. CASE AppCalls(t)
  <2>1. WebSocketTypeOK'
    BY <1>0, <1>1, WebSocketStarts, FrameKinds DEF AppCalls
  <2> QED
    BY <1>1, <2>1 DEF AppCalls, SessionTypeOK, loopVars, serverVars
<1>2. CASE ThreadStep(t)
  <2>1. WebSocketTypeOK'
    BY <1>0, <1>2, CallType DEF ThreadStep
  <2> QED
    BY <1>2, <2>1 DEF ThreadStep, SessionTypeOK, sessionVars
<1> QED
  BY <1>1, <1>2

\* A step of the server, the network or a timer keeps the type.
LEMMA EnvironmentType ==
  ASSUME SessionTypeOK, Environment
  PROVE  SessionTypeOK'
<1> USE SessionAssumption DEF serverVars, loopVars, FromServer
<1>0. WebSocketTypeOK
  BY DEF SessionTypeOK
<1>1. CASE ServerAnswers
  <2>1. PICK m \in Answers : answered' = m /\ chan' = Append(chan, m)
    BY <1>1 DEF ServerAnswers
  <2>2. chan' \in Seq(FromServer)
    BY <2>1 DEF SessionTypeOK
  <2>3. WebSocketTypeOK'
    BY <1>0, <1>1, WebSocketSame DEF ServerAnswers
  <2> QED
    BY <1>1, <2>1, <2>2, <2>3 DEF ServerAnswers, SessionTypeOK
<1>2. CASE ServerSends
  <2>1. chan' \in Seq(FromServer)
    <3>1. PICK m \in ServerFrames : chan' = Append(chan, m)
      BY <1>2 DEF ServerSends
    <3> QED
      BY <3>1 DEF SessionTypeOK
  <2>2. WebSocketTypeOK'
    BY <1>0, <1>2, WebSocketSame DEF ServerSends
  <2> QED
    BY <1>2, <2>1, <2>2 DEF ServerSends, SessionTypeOK
<1>3. CASE PeerChanges
  <2>1. WebSocketTypeOK'
    BY <1>0, <1>3 DEF PeerChanges, WebSocketTypeOK, CallsTypeOK, flagVars, callVars
  <2> QED
    BY <1>3, <2>1 DEF PeerChanges, SessionTypeOK, sessionVars
<1>4. CASE CloseTimerExpires
  <2>1. WebSocketTypeOK'
    BY <1>0, <1>4 DEF CloseTimerExpires, WebSocketTypeOK, CallsTypeOK, callVars
  <2> QED
    BY <1>4, <2>1 DEF CloseTimerExpires, SessionTypeOK, sessionVars
<1>5. CASE PongTimerExpires
  <2>1. pongLate' \in BOOLEAN
    BY <1>5 DEF PongTimerExpires
  <2> QED
    BY <1>0, <1>5, <2>1, WebSocketSame DEF PongTimerExpires, SessionTypeOK
<1> QED
  BY <1>1, <1>2, <1>3, <1>4, <1>5 DEF Environment

\* Every step keeps the type.
LEMMA TypeNext == SessionTypeOK /\ [Next]_vars => SessionTypeOK'
<1> SUFFICES ASSUME SessionTypeOK, [Next]_vars PROVE SessionTypeOK'
    OBVIOUS
<1>1. CASE LoopStep \/ LeaveWith
  BY <1>1, RunType, FeedType, CloseType, ApplicationType DEF LoopStep
<1>2. CASE Environment
  BY <1>2, EnvironmentType
<1>3. CASE \E t \in Threads : AppCalls(t) \/ ThreadStep(t)
  BY <1>3, ThreadType
<1>4. CASE UNCHANGED vars
  BY <1>4, WebSocketSame DEF vars, sessionVars, SessionTypeOK
<1> QED
  BY <1>1, <1>2, <1>3, <1>4 DEF Next, Terminated

\* Every variable keeps its type, for every number of threads and every bound.
THEOREM TypeCorrect == Spec => []SessionTypeOK
<1>1. Init => SessionTypeOK
  BY TypeInit
<1>2. SessionTypeOK /\ [Next]_vars => SessionTypeOK'
  BY TypeNext
<1> QED
  BY <1>1, <1>2, PTL DEF Spec

-----------------------------------------------------------------------------
(* The lock *)

\* Every step keeps the lock's owner the only thread inside write().
LEMMA OneWriterNext ==
  ASSUME SessionTypeOK, OneWriter, [Next]_vars
  PROVE  OneWriter'
<1> USE ThreadsAssumption DEF OneWriter, InLock
<1>0. CallsTypeOK /\ CallsTypeOK' /\ Loop \in Threads
  BY TypeNext, LoopIsThread DEF SessionTypeOK, WebSocketTypeOK
<1>1. CASE UNCHANGED <<lock, pc>>
  BY <1>1
\* A call that begins or makes a step outside the lock.
<1>2. ASSUME NEW t \in Threads, NEW p \in CallPCs \ InLock,
             pc[t] \notin InLock, UNCHANGED lock, Goto(t, p)
      PROVE  OneWriter'
  BY <1>0, <1>2 DEF Goto, CallsTypeOK
<1>3. ASSUME NEW t \in Threads, StartClose(t) \/ \E f : StartSend(t, f), UNCHANGED lock
      PROVE  OneWriter'
  BY <1>2, <1>3 DEF StartClose, StartSend, Rest, CallPCs
\* A step of write() that ends it.
<1>4. ASSUME NEW t \in Threads, pc[t] \in InLock, lock' = None,
             WriteRaises(t) \/ WriteReturns(t)
      PROVE  OneWriter'
  BY <1>0, <1>4 DEF WriteRaises, WriteReturns, Return, Goto, CallsTypeOK
<1>5. ASSUME NEW t \in Threads, pc[t] \in InLock, UNCHANGED lock,
             NEW p \in InLock, Goto(t, p)
      PROVE  OneWriter'
  BY <1>0, <1>5 DEF Goto, CallsTypeOK
<1>6. ASSUME NEW t \in Threads, CallStep(t)
      PROVE  OneWriter'
  <2>1. CASE CloseTestsClosed(t)
    BY <1>2, <2>1 DEF CloseTestsClosed, Return, CallPCs, Rest
  <2>2. CASE CloseTestsClosing(t)
    BY <1>2, <2>2 DEF CloseTestsClosing, Return, CallPCs, Rest
  <2>3. CASE CloseSetsClosing(t)
    BY <1>2, <2>3 DEF CloseSetsClosing, CallPCs
  <2>4. CASE CloseSetsTime(t)
    BY <1>2, <2>4 DEF CloseSetsTime, Return, CallPCs, Rest
  <2>5. CASE WriteUnavailable(t)
    BY <1>2, <2>5 DEF WriteUnavailable, WriteRaises, Return, CallPCs, Rest
  <2>6. CASE WriteAcquires(t)
    BY <1>0, <2>6 DEF WriteAcquires, Goto, CallsTypeOK
  <2>7. CASE WriteTestsClosed(t)
    BY <1>4, <1>5, <2>7 DEF WriteTestsClosed
  <2>8. CASE WriteTestsClosing(t)
    BY <1>4, <1>5, <2>8 DEF WriteTestsClosing
  <2>9. CASE Sendall(t)
    BY <1>4, <2>9 DEF Sendall
  <2>10. CASE SendallFails(t)
    BY <1>4, <2>10 DEF SendallFails
  <2> QED
    BY <1>6, <2>1, <2>2, <2>3, <2>4, <2>5, <2>6, <2>7, <2>8, <2>9, <2>10 DEF CallStep
<1>7. CASE LoopStep \/ LeaveWith
  <2> USE DEF webSocketVars, callVars
  <2>1. CASE RunStep
    BY <1>0, <1>1, <1>3, <2>1
       DEF RunStep, Start, Connect, ConnectFails, SendRequest, RequestSent, RequestFailed,
           Select, LoopEnds, Poll, AutoPing, Timeouts, ForceDisconnect, RecvData, RecvEnd,
           RecvFails
  <2>2. CASE FeedStep
    BY <1>0, <1>1, <1>3, <2>2
       DEF FeedStep, FeedEnds, FeedAccept, FeedReject, FeedText, FeedPing, Ponged,
           FeedBigPing, FeedPong, FeedClose, FeedBad, FeedCritical, ResumeMessage,
           ResumeRejected, ResumeClosed, MarkClosed, ResumeWithClose, Echoed,
           ProtocolErrorEnds
  <2>3. CASE CloseStep
    BY <1>1, <2>3
       DEF CloseStep, CloseSocketAgain, CloseSocket, ClearSock, ClearClosing, SetClosed
  <2>4. CASE Resume \/ Abandon \/ LeaveWith
    BY <1>1, <2>4 DEF Resume, Abandon, LeaveWith
  <2> QED
    BY <1>7, <2>1, <2>2, <2>3, <2>4 DEF LoopStep
<1>8. CASE Environment
  BY <1>1, <1>8
     DEF Environment, ServerAnswers, ServerSends, PeerChanges, CloseTimerExpires,
         PongTimerExpires, webSocketVars, callVars
<1>9. CASE \E t \in Threads : AppCalls(t) \/ ThreadStep(t)
  BY <1>3, <1>6, <1>9 DEF AppCalls, ThreadStep
<1>10. CASE UNCHANGED vars
  BY <1>1, <1>10 DEF vars, webSocketVars
<1> QED
  BY <1>7, <1>8, <1>9, <1>10 DEF Next, Terminated

\* session._lock excludes: one thread at a time is inside write(), so frames
\* of different threads never mix.
THEOREM Exclusion == Spec => []OneWriter
<1>1. Init => OneWriter
  BY ThreadsAssumption DEF Init, WebSocketInit, OneWriter, InLock
<1>2. SessionTypeOK /\ OneWriter /\ [Next]_vars => OneWriter'
  BY OneWriterNext
<1> QED
  BY <1>1, <1>2, TypeCorrect, PTL DEF Spec

-----------------------------------------------------------------------------
(* The end of the iteration *)

\* EndInv holds initially.
LEMMA EndInit == Init => EndInv
BY DEF Init, WebSocketInit, EndInv, Final, GracefulWasAsked

\* What a call can do to the variables EndInv is about: raise closing.
LEMMA CallFrame ==
  ASSUME NEW t, CallStep(t)
  PROVE  /\ UNCHANGED <<hasSock, tcp, peer, closed>>
         /\ closing => closing'
BY DEF CallStep, CloseTestsClosed, CloseTestsClosing, CloseSetsClosing, CloseSetsTime,
       WriteUnavailable, WriteAcquires, WriteTestsClosed, WriteTestsClosing, Sendall,
       SendallFails, flagVars

\* The steps of run() outside of feed() keep EndInv.
LEMMA EndRun ==
  ASSUME SessionTypeOK, EndInv, RunStep
  PROVE  EndInv'
<1> USE DEF EndInv, Final, GracefulWasAsked, webSocketVars, flagVars
<1>1. CASE Start
  BY <1>1 DEF Start, Yield
<1>2. CASE Connect
  BY <1>2 DEF Connect
<1>3. CASE ConnectFails
  BY <1>3 DEF ConnectFails, Yield
<1>4. CASE SendRequest
  BY <1>4 DEF SendRequest
<1>5. CASE RequestSent
  BY <1>5 DEF RequestSent, Yield
<1>6. CASE RequestFailed
  BY <1>6 DEF RequestFailed, CloseSocketThen
<1>7. CASE Select
  BY <1>7 DEF Select
<1>8. CASE LoopEnds
  BY <1>8 DEF LoopEnds, CloseSocketThen
<1>9. CASE Poll
  BY <1>9 DEF Poll, Yield
<1>10. CASE AutoPing
  BY <1>10 DEF AutoPing
<1>11. CASE Timeouts
  BY <1>11 DEF Timeouts, Yield, LoopRaises, CloseSocketThen, AfterRegular
<1>12. CASE ForceDisconnect
  BY <1>12 DEF ForceDisconnect, LoopRaises, CloseSocketThen
<1>13. CASE RecvData
  BY <1>13 DEF RecvData
<1>14. CASE RecvEnd
  BY <1>14 DEF RecvEnd, CloseSocketThen
<1>15. CASE RecvFails
  BY <1>15 DEF RecvFails, CloseSocketThen
<1> QED
  BY <1>1, <1>2, <1>3, <1>4, <1>5, <1>6, <1>7, <1>8, <1>9, <1>10, <1>11, <1>12, <1>13,
     <1>14, <1>15 DEF RunStep

\* The steps of feed() keep EndInv.
LEMMA EndFeed ==
  ASSUME SessionTypeOK, EndInv, FeedStep
  PROVE  EndInv'
<1> USE DEF EndInv, Final, GracefulWasAsked, webSocketVars, flagVars
<1>1. CASE FeedEnds \/ ResumeMessage \/ ResumeRejected \/ ResumeWithClose
  BY <1>1 DEF FeedEnds, ResumeMessage, ResumeRejected, ResumeWithClose
<1>2. CASE FeedAccept \/ FeedText \/ Ponged \/ FeedPong
  BY <1>2 DEF FeedAccept, FeedText, Ponged, FeedPong, Takes, Yield
<1>3. CASE FeedClose \/ FeedBad \/ FeedCritical
  BY <1>3 DEF FeedClose, FeedBad, FeedCritical, Takes, Yield
<1>4. CASE FeedPing
  BY <1>4 DEF FeedPing, Takes, Yield
<1>5. CASE FeedReject
  BY <1>5 DEF FeedReject, Takes, CloseSocketThen
<1>6. CASE FeedBigPing
  BY <1>6 DEF FeedBigPing, LoopRaises, CloseSocketThen, Yield
<1>7. CASE ResumeClosed \/ MarkClosed \/ Echoed
  BY <1>7 DEF ResumeClosed, MarkClosed, Echoed
<1>8. CASE ProtocolErrorEnds
  BY <1>8 DEF ProtocolErrorEnds, LoopRaises, CloseSocketThen
<1> QED
  BY <1>1, <1>2, <1>3, <1>4, <1>5, <1>6, <1>7, <1>8 DEF FeedStep

\* Closing the socket keeps EndInv.
LEMMA EndClose ==
  ASSUME SessionTypeOK, EndInv, CloseStep \/ Resume \/ Abandon \/ LeaveWith
  PROVE  EndInv'
<1> USE DEF EndInv, Final, GracefulWasAsked, webSocketVars, flagVars
<1>1. CASE CloseSocketAgain
  BY <1>1 DEF CloseSocketAgain, SocketClosed, ThenLastEvent, Yield
<1>2. CASE CloseSocket
  BY <1>2 DEF CloseSocket
<1>3. CASE ClearSock
  BY <1>3 DEF ClearSock, SocketClosed, ThenLastEvent, Yield
<1>4. CASE ClearClosing
  BY <1>4 DEF ClearClosing
<1>5. CASE SetClosed
  BY <1>5 DEF SetClosed, Yield, CloseSocketThen
<1>6. CASE Resume
  <2>1. rpc = "yield" /\ after \in AfterYield
    BY <1>6 DEF Resume, SessionTypeOK
  <2> QED
    BY <1>6, <2>1 DEF Resume, AfterYield
<1>7. CASE Abandon
  BY <1>7 DEF Abandon, CloseSocketThen
<1>8. CASE LeaveWith
  BY <1>8 DEF LeaveWith, CloseSocketThen
<1> QED
  BY <1>1, <1>2, <1>3, <1>4, <1>5, <1>6, <1>7, <1>8 DEF CloseStep

\* Every step keeps EndInv.
LEMMA EndNext == SessionTypeOK /\ EndInv /\ [Next]_vars => EndInv'
<1> SUFFICES ASSUME SessionTypeOK, EndInv, [Next]_vars PROVE EndInv'
    OBVIOUS
<1>1. CASE LoopStep \/ LeaveWith
  BY <1>1, EndRun, EndFeed, EndClose DEF LoopStep
<1>2. CASE Environment
  BY <1>2 DEF Environment, ServerAnswers, ServerSends, PeerChanges, CloseTimerExpires,
              PongTimerExpires, EndInv, GracefulWasAsked, webSocketVars, flagVars, loopVars,
              sessionVars
<1>3. ASSUME NEW t \in Threads, AppCalls(t) PROVE EndInv'
  BY <1>3 DEF AppCalls, EndInv, GracefulWasAsked, loopVars, flagVars
<1>4. ASSUME NEW t \in Threads, ThreadStep(t) PROVE EndInv'
  BY <1>4, CallFrame DEF ThreadStep, EndInv, GracefulWasAsked, sessionVars
<1>5. CASE UNCHANGED vars
  BY <1>5 DEF vars, EndInv, GracefulWasAsked, webSocketVars, sessionVars
<1> QED
  BY <1>1, <1>2, <1>3, <1>4, <1>5 DEF Next, Terminated

\* EndInv holds in every reachable state.
LEMMA EndInvariant == Spec => []EndInv
<1>1. Init => EndInv
  BY EndInit
<1>2. SessionTypeOK /\ EndInv /\ [Next]_vars => EndInv'
  BY EndNext
<1> QED
  BY <1>1, <1>2, TypeCorrect, PTL DEF Spec

\* The socket is let go of before the application sees the last event.
THEOREM Released == Spec => []SocketReleased
<1>1. EndInv => SocketReleased
  BY DEF EndInv, SocketReleased
<1> QED
  BY <1>1, EndInvariant, PTL

\* A graceful end was asked for by the application or the server.
THEOREM Graceful == Spec => []GracefulWasAsked
<1>1. EndInv => GracefulWasAsked
  BY DEF EndInv
<1> QED
  BY <1>1, EndInvariant, PTL

\* No thread sends anything after the last event.
THEOREM Quiet == Spec => QuietAfterEnd
<1>1. SessionTypeOK /\ EndInv /\ [Next]_vars => [(event \in Final) => wire' = wire]_vars
  <2> SUFFICES ASSUME EndInv, Next, event \in Final PROVE wire' = wire
    BY DEF vars
  <2>0. ~hasSock /\ rpc \in {"done", "yield"} /\ (rpc = "yield" => after = "done")
    BY DEF EndInv
  <2>1. CASE LoopStep \/ LeaveWith
    BY <2>0, <2>1
       DEF LoopStep, LeaveWith, RunStep, FeedStep, CloseStep, Resume, Abandon, webSocketVars,
           Start, Connect, ConnectFails, SendRequest, RequestSent, RequestFailed,
           Select, LoopEnds, Poll, AutoPing, Timeouts, ForceDisconnect, RecvData, RecvEnd,
           RecvFails, FeedEnds, FeedAccept, FeedReject, FeedText, FeedPing, Ponged,
           FeedBigPing, FeedPong, FeedClose, FeedBad, FeedCritical, ResumeMessage,
           ResumeRejected, ResumeClosed, MarkClosed, ResumeWithClose, Echoed,
           ProtocolErrorEnds, CloseSocketAgain, CloseSocket, ClearSock, ClearClosing,
           SetClosed, Takes
  <2>2. CASE Environment
    BY <2>2 DEF Environment, ServerAnswers, ServerSends, PeerChanges, CloseTimerExpires,
                PongTimerExpires, webSocketVars
  <2>3. ASSUME NEW t \in Threads, AppCalls(t) PROVE wire' = wire
    BY <2>3 DEF AppCalls
  <2>4. ASSUME NEW t \in Threads, CallStep(t) PROVE wire' = wire
    BY <2>0, <2>4
       DEF CallStep, CloseTestsClosed, CloseTestsClosing, CloseSetsClosing, CloseSetsTime,
           WriteUnavailable, WriteAcquires, WriteTestsClosed, WriteTestsClosing, Sendall,
           SendallFails
  <2> QED
    BY <2>1, <2>2, <2>3, <2>4 DEF Next, ThreadStep, Terminated, vars, webSocketVars
<1> QED
  BY <1>1, TypeCorrect, EndInvariant, PTL DEF Spec, QuietAfterEnd

-----------------------------------------------------------------------------
(* The order of the events *)

Suspended(k) == rpc = "yield" /\ after = k

\* Before the loop.
Opening == rpc \in {"connect", "request", "requested"} \/ Suspended("connect")

\* In the loop, between two calls of feed().
Between == rpc \in {"loop", "recv"} \/ Suspended("loop")

\* Where housekeeping is done, or will be next.
Regular ==
  rpc \in {"poll", "auto_ping", "timeouts", "force"} \/ Suspended("auto_ping")
    \/ Suspended("force")

\* An event has been handed out by feed(), which goes on after housekeeping.
Delivered == rpc = "resume" \/ Suspended("regular")

\* Which events, flags and parts of feed() there can be at a place.
PlaceInv ==
  /\ event = "none" <=> rpc = "start"
  /\ Opening => event = "connecting"
  /\ event \in {"none", "connecting"} =>
       /\ feeding = "none" /\ ~closed /\ ~ready
       /\ \/ rpc \in {"start", "abandoned"} \/ Opening
          \/ rpc \in {"close_socket", "clear_sock"} /\ after \in {"connect_fail", "exit"}
  /\ rpc \in {"close_socket", "clear_sock"} /\ after = "connect_fail" =>
       event = "connecting"
  /\ rpc \in {"clear_closing", "set_closed"} => after \in ThenOnDisconnect
  /\ rpc \in Closes /\ after = "reject" => event = "connected" /\ ~ready
  /\ event = "unresponsive" => rpc \in Closes \cup {"force", "abandoned"} \/ Suspended("force")
  /\ Between => feeding = "none"
  /\ rpc \in {"feed", "ponged"} => feeding = "message"
  /\ rpc = "echoed" => feeding = "closing"
  /\ rpc = "erred" => feeding = "error"
  /\ rpc = "mark_closed" => feeding = "closed"
  /\ feeding = "rejected" => closed /\ ~ready
  /\ closed => \/ rpc \in Closes \cup {"loop", "abandoned", "done"} \/ Suspended("done")
               \/ feeding = "rejected" /\ Delivered
  /\ Regular \/ rpc = "ponged" => ready
  /\ feeding \in {"closing", "closed"} \/ (feeding = "message" /\ Delivered) => ready

Answer == {"accept", "reject"}

\* What has been sent and not been taken up: the answer comes first and once.
ArrivedInv ==
  /\ ~closed /\ ~ready /\ (rpc = "start" \/ Opening \/ Between) =>
       /\ buf = <<>>
       /\ answered = "none" => chan = <<>>
       /\ answered # "none" => chan # <<>> /\ chan[1] = answered
       /\ \A i \in 2..Len(chan) : chan[i] \notin Answer
       /\ Between => event = "connected"
  /\ ~ready /\ rpc = "feed" =>
       /\ event = "connected"
       /\ answered # "none" /\ buf # <<>> /\ buf[1] = answered
       /\ \A i \in 2..Len(buf) : buf[i] \notin Answer
       /\ \A i \in 1..Len(chan) : chan[i] \notin Answer
  /\ ready =>
       /\ answered = "accept"
       /\ \A i \in 1..Len(buf) : buf[i] \notin Answer
       /\ \A i \in 1..Len(chan) : chan[i] \notin Answer

OrderInv == PlaceInv /\ ArrivedInv

-----------------------------------------------------------------------------
(* The invariant *)

\* Before run() nothing has been yielded or sent.
LEMMA OrderInit == Init => OrderInv
<1> SUFFICES ASSUME Init PROVE OrderInv
  OBVIOUS
<1>1. PlaceInv
  BY DEF Init, WebSocketInit, PlaceInv, Suspended, Opening, Between, Regular, Delivered,
         Closes
<1>2. ArrivedInv
  BY DEF Init, WebSocketInit, ArrivedInv, Suspended, Opening, Between
<1> QED
  BY <1>1, <1>2 DEF OrderInv

\* The steps of run() outside of feed() keep PlaceInv.
LEMMA PlaceRun ==
  ASSUME SessionTypeOK, OrderInv, RunStep
  PROVE  PlaceInv'
<1> USE DEF OrderInv, PlaceInv, Suspended, Opening, Between, Regular, Delivered, Closes,
            ThenOnDisconnect, webSocketVars, flagVars
<1>1. CASE Start \/ Connect \/ ConnectFails
  BY <1>1 DEF Start, Connect, ConnectFails, Yield
<1>2. CASE SendRequest \/ RequestSent \/ RequestFailed
  BY <1>2 DEF SendRequest, RequestSent, RequestFailed, Yield, CloseSocketThen
<1>3. CASE Select
  BY <1>3 DEF Select
<1>4. CASE LoopEnds
  BY <1>4 DEF LoopEnds, CloseSocketThen
<1>5. CASE Poll
  BY <1>5 DEF Poll, Yield
<1>6. CASE AutoPing
  BY <1>6 DEF AutoPing
<1>7. CASE Timeouts
  BY <1>7 DEF Timeouts, Yield, LoopRaises, CloseSocketThen, AfterRegular
<1>8. CASE ForceDisconnect
  BY <1>8 DEF ForceDisconnect, LoopRaises, CloseSocketThen
<1>9. CASE RecvData
  BY <1>9 DEF RecvData
<1>10. CASE RecvEnd \/ RecvFails
  BY <1>10 DEF RecvEnd, RecvFails, CloseSocketThen
<1> QED
  BY <1>1, <1>2, <1>3, <1>4, <1>5, <1>6, <1>7, <1>8, <1>9, <1>10 DEF RunStep

\* Before Ready feed() is given the answer, and no answer after it.
LEMMA FirstIsAnswer ==
  ASSUME SessionTypeOK, OrderInv, rpc = "feed", buf # <<>>
  PROVE  /\ ready => Head(buf) \notin Answer
         /\ ~ready => Head(buf) \in {"accept", "reject", "critical"} /\ event = "connected"
<1>1. Head(buf) = buf[1] /\ Len(buf) >= 1
  BY DEF SessionTypeOK
<1>2. answered \in {"none", "accept", "reject", "critical"}
  BY SessionAssumption DEF SessionTypeOK
<1> QED
  BY <1>1, <1>2 DEF OrderInv, ArrivedInv

\* The steps of feed() keep PlaceInv.
LEMMA PlaceFeed ==
  ASSUME SessionTypeOK, OrderInv, FeedStep
  PROVE  PlaceInv'
<1> USE DEF OrderInv, PlaceInv, Suspended, Opening, Between, Regular, Delivered, Closes,
            ThenOnDisconnect, webSocketVars, flagVars, Answer
<1>1. CASE FeedEnds \/ ResumeMessage \/ ResumeRejected
  BY <1>1 DEF FeedEnds, ResumeMessage, ResumeRejected
<1>2. CASE FeedAccept
  BY <1>2, FirstIsAnswer DEF FeedAccept, Takes, Yield
<1>3. CASE FeedReject
  BY <1>3, FirstIsAnswer DEF FeedReject, Takes, CloseSocketThen
<1>4. CASE FeedText \/ FeedPong
  BY <1>4, FirstIsAnswer DEF FeedText, FeedPong, Takes, Yield
<1>5. CASE FeedPing
  BY <1>5, FirstIsAnswer DEF FeedPing, Takes, Yield
<1>6. CASE Ponged
  BY <1>6 DEF Ponged, Yield
<1>7. CASE FeedBigPing
  BY <1>7, FirstIsAnswer DEF FeedBigPing, LoopRaises, CloseSocketThen, Yield
<1>8. CASE FeedClose
  BY <1>8, FirstIsAnswer DEF FeedClose, Takes, Yield
<1>9. CASE FeedBad \/ FeedCritical
  BY <1>9 DEF FeedBad, FeedCritical, Takes, Yield
<1>10. CASE ResumeClosed \/ MarkClosed \/ ResumeWithClose \/ Echoed
  BY <1>10 DEF ResumeClosed, MarkClosed, ResumeWithClose, Echoed
<1>11. CASE ProtocolErrorEnds
  BY <1>11 DEF ProtocolErrorEnds, LoopRaises, CloseSocketThen
<1> QED
  BY <1>1, <1>2, <1>3, <1>4, <1>5, <1>6, <1>7, <1>8, <1>9, <1>10, <1>11 DEF FeedStep

\* Closing the socket, and the application, keep PlaceInv.
LEMMA PlaceClose ==
  ASSUME SessionTypeOK, OrderInv, CloseStep \/ Resume \/ Abandon \/ LeaveWith
  PROVE  PlaceInv'
<1> USE DEF OrderInv, PlaceInv, Suspended, Opening, Between, Regular, Delivered, Closes,
            ThenOnDisconnect, webSocketVars, flagVars
<1>1. CASE CloseSocketAgain \/ ClearSock
  BY <1>1 DEF CloseSocketAgain, ClearSock, SocketClosed, ThenLastEvent, Final, Yield
<1>2. CASE CloseSocket \/ ClearClosing
  BY <1>2 DEF CloseSocket, ClearClosing
<1>3. CASE SetClosed
  BY <1>3 DEF SetClosed, Yield, CloseSocketThen
<1>4. CASE Resume
  BY <1>4 DEF Resume, SessionTypeOK, AfterYield
<1>5. CASE Abandon \/ LeaveWith
  BY <1>5 DEF Abandon, LeaveWith, FeedCatchesExit, CloseSocketThen
<1> QED
  BY <1>1, <1>2, <1>3, <1>4, <1>5 DEF CloseStep

\* The places that ArrivedInv speaks of.
Opens == rpc = "start" \/ Opening \/ Between

\* What leaves the places before Ready, and what has arrived, keeps ArrivedInv.
LEMMA ArrivedElsewhere ==
  ASSUME ArrivedInv, UNCHANGED <<ready, answered, chan>>, buf' = buf \/ buf' = <<>>,
         ready \/ closed' \/ ~Opens', ready \/ rpc' # "feed"
  PROVE  ArrivedInv'
BY DEF ArrivedInv, Opens

\* The steps of run() outside of feed() keep ArrivedInv.
LEMMA ArrivedRun ==
  ASSUME SessionTypeOK, OrderInv, RunStep
  PROVE  ArrivedInv'
<1> USE DEF OrderInv, Suspended, Opening, Between, webSocketVars, flagVars, serverVars
<1>1. CASE Start \/ Connect \/ SendRequest \/ RequestSent
  BY <1>1 DEF Start, Connect, SendRequest, RequestSent, Yield, PlaceInv, ArrivedInv
<1>2. CASE Select
  BY <1>2 DEF Select, ArrivedInv
<1>3. CASE ConnectFails \/ RequestFailed \/ LoopEnds \/ RecvEnd \/ RecvFails
  BY <1>3, ArrivedElsewhere
     DEF ConnectFails, RequestFailed, LoopEnds, RecvEnd, RecvFails, Yield, CloseSocketThen,
         Opens
<1>4. CASE Poll \/ AutoPing
  BY <1>4, ArrivedElsewhere DEF Poll, AutoPing, Yield, PlaceInv, Regular
<1>5. CASE Timeouts \/ ForceDisconnect
  BY <1>5, ArrivedElsewhere
     DEF Timeouts, ForceDisconnect, LoopRaises, CloseSocketThen, Yield, PlaceInv, Regular
<1>6. CASE RecvData
  <2>1. PICK n \in 1..Len(chan) : /\ buf' = SubSeq(chan, 1, n)
                                  /\ chan' = SubSeq(chan, n + 1, Len(chan))
    BY <1>6 DEF RecvData
  <2>2. chan \in Seq(FromServer) /\ Len(chan) \in Nat
    BY DEF SessionTypeOK
  <2>3. /\ Len(buf') = n /\ \A i \in 1..n : buf'[i] = chan[i]
        /\ Len(chan') = Len(chan) - n
        /\ \A i \in 1..(Len(chan) - n) : chan'[i] = chan[n + i]
    BY <2>1, <2>2
  <2>4. /\ rpc = "recv" /\ rpc' = "feed"
        /\ UNCHANGED <<closed, ready, answered, event>>
    BY <1>6 DEF RecvData
  <2>5. ~closed
    BY <2>4 DEF PlaceInv, Delivered, Closes
  <2>6. CASE ready
    BY <2>2, <2>3, <2>4, <2>6, SMTT(30) DEF ArrivedInv
  <2>7. CASE ~ready
    <3>1. /\ event = "connected" /\ chan # <<>> /\ answered # "none"
          /\ chan[1] = answered /\ \A i \in 2..Len(chan) : chan[i] \notin Answer
      BY <2>1, <2>2, <2>4, <2>5, <2>7 DEF ArrivedInv
    <3>2. buf' # <<>> /\ buf'[1] = answered'
      BY <2>3, <2>4, <3>1
    <3>3. \A i \in 2..Len(buf') : buf'[i] \notin Answer
      BY <2>2, <2>3, <3>1
    <3>4. \A i \in 1..Len(chan') : chan'[i] \notin Answer
      <4> SUFFICES ASSUME NEW i \in 1..Len(chan') PROVE chan'[i] \notin Answer
        OBVIOUS
      <4>1. chan'[i] = chan[n + i] /\ n + i \in 2..Len(chan)
        BY <2>2, <2>3
      <4> QED
        BY <3>1, <4>1
    <3> QED
      BY <2>4, <2>7, <3>1, <3>2, <3>3, <3>4 DEF ArrivedInv
  <2> QED
    BY <2>6, <2>7
<1> QED
  BY <1>1, <1>2, <1>3, <1>4, <1>5, <1>6 DEF RunStep

\* What is left after the first message.
LEMMA TailArrived ==
  ASSUME NEW s \in Seq(FromServer), s # <<>>,
         \A i \in 2..Len(s) : s[i] \notin Answer
  PROVE  \A i \in 1..Len(Tail(s)) : Tail(s)[i] \notin Answer
<1> SUFFICES ASSUME NEW i \in 1..Len(Tail(s)) PROVE Tail(s)[i] \notin Answer
  OBVIOUS
<1>1. Tail(s)[i] = s[i + 1] /\ i + 1 \in 2..Len(s)
  OBVIOUS
<1> QED
  BY <1>1

\* The steps of feed() keep ArrivedInv.
LEMMA ArrivedFeed ==
  ASSUME SessionTypeOK, OrderInv, FeedStep
  PROVE  ArrivedInv'
<1> USE DEF OrderInv, Suspended, Opening, Between, webSocketVars, flagVars, serverVars
<1>0. buf \in Seq(FromServer)
  BY DEF SessionTypeOK
<1>1. ASSUME NEW m, Takes(m), UNCHANGED <<chan, answered>>,
             ready' => ready \/ m = "accept", rpc' # "feed", ~Opens'
      PROVE  ArrivedInv'
  <2>1. rpc = "feed" /\ buf # <<>> /\ Head(buf) = buf[1] /\ buf[1] = m /\ buf' = Tail(buf)
    BY <1>0, <1>1 DEF Takes
  <2>2. \A i \in 2..Len(buf) : buf[i] \notin Answer
    BY <1>0, <2>1 DEF ArrivedInv
  <2>3. \A i \in 1..Len(buf') : buf'[i] \notin Answer
    BY <1>0, <2>1, <2>2, TailArrived
  <2>4. ready' => answered = "accept" /\ \A i \in 1..Len(chan) : chan[i] \notin Answer
    BY <1>1, <2>1 DEF ArrivedInv
  <2> QED
    BY <1>1, <2>3, <2>4 DEF ArrivedInv, Opens
<1>2. CASE FeedAccept \/ FeedReject \/ FeedText
  BY <1>1, <1>2 DEF FeedAccept, FeedReject, FeedText, Yield, CloseSocketThen, Takes, Opens
<1>3. CASE FeedPing
  BY <1>1, <1>3 DEF FeedPing, Yield, Opens
<1>4. CASE FeedPong \/ FeedClose
  BY <1>1, <1>4 DEF FeedPong, FeedClose, Yield, Opens
<1>5. CASE FeedBad \/ FeedCritical
  BY <1>1, <1>5 DEF FeedBad, FeedCritical, Yield, Opens
<1>6. CASE FeedBigPing
  <2>1. CASE AutoPong
    BY <1>6, <2>1, ArrivedElsewhere DEF FeedBigPing, LoopRaises, CloseSocketThen, Opens
  <2>2. CASE ~AutoPong
    <3>1. Takes("bigping")
      BY <1>6, <2>2 DEF FeedBigPing, Takes
    <3> QED
      BY <1>1, <1>6, <2>2, <3>1 DEF FeedBigPing, Yield, Opens
  <2> QED
    BY <2>1, <2>2
<1>7. CASE Ponged \/ ResumeClosed \/ ResumeWithClose
  BY <1>7, ArrivedElsewhere DEF Ponged, ResumeClosed, ResumeWithClose, Yield, Opens
<1>8. CASE ResumeRejected \/ MarkClosed
  BY <1>8, ArrivedElsewhere DEF ResumeRejected, MarkClosed, Opens, PlaceInv
<1>9. CASE ResumeMessage \/ Echoed
  BY <1>9, ArrivedElsewhere DEF ResumeMessage, Echoed, Opens, PlaceInv, Delivered
<1>10. CASE FeedEnds
  BY <1>10, ArrivedElsewhere DEF FeedEnds, ArrivedInv
<1>11. CASE ProtocolErrorEnds
  BY <1>11, ArrivedElsewhere DEF ProtocolErrorEnds, LoopRaises, CloseSocketThen, Opens
<1> QED
  BY <1>2, <1>3, <1>4, <1>5, <1>6, <1>7, <1>8, <1>9, <1>10, <1>11 DEF FeedStep

\* Closing the socket, and the application, keep ArrivedInv.
LEMMA ArrivedClose ==
  ASSUME SessionTypeOK, OrderInv, CloseStep \/ Resume \/ Abandon \/ LeaveWith
  PROVE  ArrivedInv'
<1> USE DEF OrderInv, Suspended, Opening, Between, Opens, webSocketVars, flagVars, serverVars
<1>1. CASE CloseSocketAgain \/ ClearSock
  BY <1>1, ArrivedElsewhere
     DEF CloseSocketAgain, ClearSock, SocketClosed, Yield
<1>2. CASE CloseSocket \/ ClearClosing
  BY <1>2, ArrivedElsewhere DEF CloseSocket, ClearClosing
<1>3. CASE SetClosed
  BY <1>3, ArrivedElsewhere DEF SetClosed, Yield, CloseSocketThen
<1>4. CASE Resume
  <2>1. rpc = "yield" /\ after \in AfterYield
    BY <1>4 DEF Resume, SessionTypeOK
  <2>2. CASE after \in {"connect", "loop"}
    BY <1>4, <2>1, <2>2 DEF Resume, ArrivedInv
  <2>3. CASE after \notin {"connect", "loop"}
    BY <1>4, <2>1, <2>3, ArrivedElsewhere DEF Resume, AfterYield
  <2> QED
    BY <2>2, <2>3
<1>5. CASE Abandon \/ LeaveWith
  BY <1>5, ArrivedElsewhere DEF Abandon, LeaveWith, CloseSocketThen
<1> QED
  BY <1>1, <1>2, <1>3, <1>4, <1>5 DEF CloseStep

\* The server, the network and the timers keep OrderInv.
LEMMA OrderEnvironment ==
  ASSUME SessionTypeOK, OrderInv, Environment
  PROVE  OrderInv'
<1> USE DEF OrderInv, PlaceInv, Suspended, Opening, Between, Regular, Delivered,
            webSocketVars, flagVars, loopVars, serverVars, sessionVars
<1>0. chan \in Seq(FromServer)
  BY DEF SessionTypeOK
<1>1. PlaceInv'
  BY DEF Environment, ServerAnswers, ServerSends, PeerChanges, CloseTimerExpires,
         PongTimerExpires
<1>2. CASE ServerAnswers
  <2>1. PICK m \in Answers : answered' = m /\ chan' = Append(chan, m)
    BY <1>2 DEF ServerAnswers
  <2>2. answered = "none" /\ m # "none" /\ UNCHANGED loopVars /\ UNCHANGED closed
    BY <1>2, <2>1, SessionAssumption DEF ServerAnswers
  <2>3. ~ready /\ ~(~ready /\ rpc = "feed")
    BY <2>2 DEF ArrivedInv
  <2>4. chan = <<>> => Len(chan') = 1 /\ chan'[1] = m /\ chan' # <<>>
    BY <2>1
  <2> QED
    BY <1>1, <2>1, <2>2, <2>3, <2>4 DEF ArrivedInv
<1>3. CASE ServerSends
  <2>1. PICK m \in ServerFrames : chan' = Append(chan, m)
    BY <1>3 DEF ServerSends
  <2>2. m \notin Answer
    BY SessionAssumption DEF Answer
  <2>3. /\ Len(chan') = Len(chan) + 1 /\ chan' # <<>>
        /\ \A i \in 1..Len(chan) : chan'[i] = chan[i]
        /\ chan'[Len(chan) + 1] = m
    BY <1>0, <2>1
  <2>4. answered = "accept" /\ UNCHANGED loopVars /\ UNCHANGED <<answered, closed>>
    BY <1>3 DEF ServerSends
  <2>5. chan # <<>> => Len(chan) \in Nat /\ Len(chan) >= 1
    BY <1>0
  <2>6. \A i \in 1..Len(chan') : i \in 1..Len(chan) \/ i = Len(chan) + 1
    BY <1>0, <2>3
  <2> QED
    BY <1>0, <1>1, <2>2, <2>3, <2>4, <2>5, <2>6 DEF ArrivedInv
<1>4. CASE PeerChanges \/ CloseTimerExpires \/ PongTimerExpires
  BY <1>1, <1>4 DEF PeerChanges, CloseTimerExpires, PongTimerExpires, ArrivedInv
<1> QED
  BY <1>2, <1>3, <1>4 DEF Environment

\* Every step keeps OrderInv.
LEMMA OrderNext == SessionTypeOK /\ OrderInv /\ [Next]_vars => OrderInv'
<1> SUFFICES ASSUME SessionTypeOK, OrderInv, [Next]_vars PROVE OrderInv'
  OBVIOUS
<1> USE DEF OrderInv, PlaceInv, ArrivedInv, Suspended, Opening, Between, Regular, Delivered
<1>1. CASE LoopStep \/ LeaveWith
  BY <1>1, PlaceRun, PlaceFeed, PlaceClose, ArrivedRun, ArrivedFeed, ArrivedClose
     DEF LoopStep
<1>2. CASE Environment
  BY <1>2, OrderEnvironment
<1>3. ASSUME NEW t \in Threads, AppCalls(t) PROVE OrderInv'
  BY <1>3 DEF AppCalls, loopVars, serverVars, flagVars
<1>4. ASSUME NEW t \in Threads, ThreadStep(t) PROVE OrderInv'
  BY <1>4, CallFrame DEF ThreadStep, sessionVars
<1>5. CASE UNCHANGED vars
  BY <1>5 DEF vars, webSocketVars, sessionVars
<1> QED
  BY <1>1, <1>2, <1>3, <1>4, <1>5 DEF Next, Terminated

\* Hence every reachable state satisfies OrderInv.
LEMMA OrderInvariant == Spec => []OrderInv
<1> QED
  BY OrderInit, OrderNext, TypeCorrect, PTL DEF Spec

-----------------------------------------------------------------------------
(* The steps *)

\* Where feed() takes a message the stage is open.
LEMMA StageInFeed ==
  ASSUME EndInv, OrderInv, rpc \in {"feed", "ponged"}
  PROVE  Stage = "open"
BY DEF EndInv, OrderInv, PlaceInv, Opening, Suspended, Delivered, Stage, Closes, Final

\* The steps of feed().
LEMMA RefinesFeed ==
  ASSUME SessionTypeOK, EndInv, OrderInv, FeedStep
  PROVE  Promise!Next \/ UNCHANGED Promise!vars
<1> USE DEF OrderInv, PlaceInv, Suspended, Delivered, Closes, Final, webSocketVars, flagVars,
            Answer, Stage, Handshake, ThenOnDisconnect
<1>1. CASE FeedAccept
  <2>1. Promise!Ready
    BY <1>1, StageInFeed, FirstIsAnswer DEF FeedAccept, Takes, Yield, Promise!Ready
  <2> QED
    BY <2>1 DEF Promise!Next
<1>2. CASE FeedReject
  <2>1. Promise!Ends
    BY <1>2, StageInFeed, FirstIsAnswer DEF FeedReject, Takes, CloseSocketThen, Promise!Ends
  <2> QED
    BY <2>1 DEF Promise!Next
<1>3. CASE FeedText \/ FeedPong \/ Ponged \/ (FeedPing /\ ~AutoPong) \/ (FeedBigPing /\ ~AutoPong)
  <2>1. Promise!Message
    BY <1>3, StageInFeed, FirstIsAnswer
       DEF FeedText, FeedPong, Ponged, FeedPing, FeedBigPing, Takes, Yield, Promise!Message,
           Promise!Messages
  <2> QED
    BY <2>1 DEF Promise!Next
<1>4. CASE FeedPing /\ AutoPong
  BY <1>4 DEF FeedPing, Takes, Promise!vars
<1>5. CASE FeedBigPing /\ AutoPong
  <2>1. Promise!Ends
    BY <1>5, StageInFeed
       DEF FeedBigPing, LoopRaises, FeedCatchesExit, CloseSocketThen, Promise!Ends
  <2> QED
    BY <2>1 DEF Promise!Next
<1>6. CASE FeedClose
  <2>1. Promise!Closing \/ Promise!Closed
    BY <1>6, StageInFeed, FirstIsAnswer
       DEF FeedClose, Takes, Yield, Promise!Closing, Promise!Closed
  <2> QED
    BY <2>1 DEF Promise!Next
<1>7. CASE FeedBad \/ FeedCritical
  <2>1. Promise!ProtocolError
    BY <1>7, StageInFeed DEF FeedBad, FeedCritical, Takes, Yield, Promise!ProtocolError
  <2> QED
    BY <2>1 DEF Promise!Next
<1>8. CASE FeedEnds \/ ResumeMessage \/ ResumeRejected
  BY <1>8 DEF FeedEnds, ResumeMessage, ResumeRejected, Promise!vars
<1>9. CASE ResumeClosed \/ MarkClosed \/ ResumeWithClose \/ Echoed
  BY <1>9 DEF ResumeClosed, MarkClosed, ResumeWithClose, Echoed, Promise!vars, EndInv
<1>10. CASE ProtocolErrorEnds
  BY <1>10 DEF ProtocolErrorEnds, LoopRaises, FeedCatchesExit, CloseSocketThen, Promise!vars,
               EndInv
<1> QED
  BY <1>1, <1>2, <1>3, <1>4, <1>5, <1>6, <1>7, <1>8, <1>9, <1>10 DEF FeedStep

\* The steps of run() outside of feed().
LEMMA RefinesRun ==
  ASSUME SessionTypeOK, EndInv, OrderInv, RunStep
  PROVE  Promise!Next \/ UNCHANGED Promise!vars
<1> USE DEF OrderInv, PlaceInv, EndInv, Suspended, Opening, Between, Regular, Delivered,
            Closes, Final, webSocketVars, flagVars, Stage, Handshake, ThenOnDisconnect
<1>1. CASE Start
  <2>1. Promise!Connecting
    BY <1>1 DEF Start, Yield, Promise!Connecting
  <2> QED
    BY <2>1 DEF Promise!Next
<1>2. CASE Connect \/ SendRequest \/ Select \/ AutoPing \/ RecvData \/ LoopEnds
  BY <1>2 DEF Connect, SendRequest, Select, AutoPing, RecvData, LoopEnds, CloseSocketThen,
              Promise!vars
<1>3. CASE ConnectFails
  <2>1. Promise!ConnectFail
    BY <1>3 DEF ConnectFails, Yield, Promise!ConnectFail
  <2> QED
    BY <2>1 DEF Promise!Next
<1>4. CASE RequestSent
  <2>1. Promise!Connected
    BY <1>4 DEF RequestSent, Yield, Promise!Connected
  <2> QED
    BY <2>1 DEF Promise!Next
<1>5. CASE RequestFailed \/ RecvEnd \/ RecvFails
  <2>1. Promise!Ends
    BY <1>5 DEF RequestFailed, RecvEnd, RecvFails, CloseSocketThen, Promise!Ends
  <2> QED
    BY <2>1 DEF Promise!Next
<1>6. CASE Poll
  <2>1. Promise!Poll \/ UNCHANGED Promise!vars
    BY <1>6 DEF Poll, Yield, Promise!Poll, Promise!vars
  <2> QED
    BY <2>1 DEF Promise!Next
<1>7. CASE Timeouts \/ ForceDisconnect
  <2>1. rpc \in {"timeouts", "force"} /\ ready /\ event \notin {"none", "connecting"} \cup Final
    BY <1>7 DEF Timeouts, ForceDisconnect
  <2>2. CASE Yield("unresponsive", "force") /\ UNCHANGED <<webSocketVars, feeding, ready>>
             /\ rpc = "timeouts"
    <3>1. Promise!Unresponsive
      BY <2>1, <2>2 DEF Yield, Promise!Unresponsive
    <3> QED
      BY <3>1 DEF Promise!Next
  <2>3. CASE LoopRaises /\ UNCHANGED <<webSocketVars, event, ready>>
    <3>1. /\ Stage' = "ending" /\ Stage \in {"open", "ending"}
          /\ Handshake => Handshake'
      BY <2>1, <2>3 DEF LoopRaises, FeedCatchesExit, CloseSocketThen
    <3>2. Handshake' = Handshake \/ (~Handshake /\ Handshake' = TRUE)
      BY <3>1
    <3> QED
      BY <2>3, <3>1, <3>2 DEF Promise!Next, Promise!Ends, Promise!ClientCloses, Promise!vars
  <2>4. CASE rpc' = AfterRegular /\ rpc = "timeouts"
             /\ UNCHANGED <<webSocketVars, after, event, feeding, ready>>
    BY <2>1, <2>4 DEF AfterRegular, Promise!vars
  <2> QED
    BY <1>7, <2>2, <2>3, <2>4 DEF Timeouts, ForceDisconnect
<1> QED
  BY <1>1, <1>2, <1>3, <1>4, <1>5, <1>6, <1>7 DEF RunStep

\* Closing the socket, and the application.
LEMMA RefinesClose ==
  ASSUME SessionTypeOK, EndInv, OrderInv, CloseStep \/ Resume \/ Abandon \/ LeaveWith
  PROVE  Promise!Next \/ UNCHANGED Promise!vars
<1> USE DEF OrderInv, PlaceInv, EndInv, Suspended, Opening, Delivered,
            Closes, Final, webSocketVars, flagVars, Stage, Handshake, ThenOnDisconnect
<1>1. CASE CloseSocketAgain \/ ClearSock
  <2>1. rpc \in {"close_socket", "clear_sock"} /\ UNCHANGED <<closing, closed, feeding, ready>>
    BY <1>1 DEF CloseSocketAgain, ClearSock
  <2>2. CASE after \in ThenLastEvent /\ Yield(after, "done")
    <3>1. Promise!ConnectFail \/ Promise!Disconnected
      BY <2>1, <2>2 DEF ThenLastEvent, Yield, Promise!ConnectFail, Promise!Disconnected
    <3> QED
      BY <3>1 DEF Promise!Next
  <2>3. CASE \/ after \in ThenOnDisconnect /\ rpc' = "clear_closing" /\ UNCHANGED <<after, event>>
             \/ after = "exit" /\ rpc' = "abandoned" /\ UNCHANGED <<after, event>>
    BY <2>1, <2>3 DEF Promise!vars
  <2> QED
    BY <1>1, <2>2, <2>3 DEF CloseSocketAgain, ClearSock, SocketClosed
<1>2. CASE CloseSocket \/ ClearClosing \/ LeaveWith
  BY <1>2 DEF CloseSocket, ClearClosing, LeaveWith, CloseSocketThen, Promise!vars
<1>3. CASE SetClosed
  <2>1. CASE after = "reject"
    <3>1. Promise!Rejected
      BY <1>3, <2>1 DEF SetClosed, Yield, Promise!Rejected
    <3> QED
      BY <3>1 DEF Promise!Next
  <2>2. CASE after # "reject"
    BY <1>3, <2>2 DEF SetClosed, CloseSocketThen, Promise!vars
  <2> QED
    BY <2>1, <2>2
<1>4. CASE Resume
  BY <1>4 DEF Resume, SessionTypeOK, AfterYield, Promise!vars
<1>5. CASE Abandon
  <2>1. /\ Stage' = "ending" /\ Stage \in {"connecting", "open", "ending"}
        /\ Handshake => Handshake'
        /\ UNCHANGED <<event, ready>>
    BY <1>5 DEF Abandon, FeedCatchesExit, CloseSocketThen
  <2>2. Handshake' = Handshake \/ (~Handshake /\ Handshake' = TRUE)
    BY <2>1
  <2> QED
    BY <2>1, <2>2 DEF Promise!Next, Promise!Ends, Promise!ClientCloses, Promise!vars
<1> QED
  BY <1>1, <1>2, <1>3, <1>4, <1>5 DEF CloseStep

\* Another thread can at most begin the handshake.
LEMMA RefinesCall ==
  ASSUME NEW t \in Threads, ThreadStep(t)
  PROVE  Promise!Next \/ UNCHANGED Promise!vars
<1>1. /\ UNCHANGED <<rpc, after, event, feeding, ready, closed>>
      /\ closing => closing'
  BY CallFrame DEF ThreadStep, sessionVars
<1>2. UNCHANGED <<event, Stage, ready>> /\ (Handshake => Handshake')
  BY <1>1 DEF Stage, Handshake
<1>3. Handshake' = Handshake \/ (~Handshake /\ Handshake' = TRUE)
  BY <1>2 DEF Handshake
<1> QED
  BY <1>2, <1>3 DEF Promise!Next, Promise!ClientCloses, Promise!vars

\* Every step of the session is a step of the event stream or leaves it alone.
LEMMA RefinesNext ==
  SessionTypeOK /\ EndInv /\ OrderInv /\ [Next]_vars => [Promise!Next]_(Promise!vars)
<1> SUFFICES ASSUME SessionTypeOK, EndInv, OrderInv, [Next]_vars
             PROVE  Promise!Next \/ UNCHANGED Promise!vars
  OBVIOUS
<1>1. CASE LoopStep \/ LeaveWith
  BY <1>1, RefinesRun, RefinesFeed, RefinesClose DEF LoopStep
<1>2. CASE Environment
  BY <1>2 DEF Environment, ServerAnswers, ServerSends, PeerChanges, CloseTimerExpires,
              PongTimerExpires, webSocketVars, flagVars, loopVars, sessionVars, Stage,
              Handshake, Promise!vars
<1>3. ASSUME NEW t \in Threads, AppCalls(t) PROVE UNCHANGED Promise!vars
  BY <1>3 DEF AppCalls, loopVars, flagVars, Stage, Handshake, Promise!vars
<1>4. ASSUME NEW t \in Threads, ThreadStep(t)
      PROVE  Promise!Next \/ UNCHANGED Promise!vars
  BY <1>4, RefinesCall
<1>5. CASE UNCHANGED vars
  BY <1>5 DEF vars, webSocketVars, sessionVars, Stage, Handshake, Promise!vars
<1> QED
  BY <1>1, <1>2, <1>3, <1>4, <1>5 DEF Next, Terminated

\* The events of a session are those of an event stream, for any number of threads
\* and whatever the server, the network and the application do (events.py;
\* session.py, run; websocket.py, feed).
THEOREM Ordered == Spec => EventOrder
<1>1. Init => Promise!Init
  BY DEF Init, WebSocketInit, Promise!Init, Stage, Handshake, Closes
<1> QED
  BY <1>1, RefinesNext, TypeCorrect, EndInvariant, OrderInvariant, PTL
     DEF Spec, EventOrder, Promise!Spec

-----------------------------------------------------------------------------
(* A dropped generator *)

\* The events handed out by feed() that stand for something the server sent.
FromFeed == {"ready", "rejected", "text", "ping", "pong", "closing", "closed"}

Shut == tcp # "open" \/ peer = "reset"

\* feed() is suspended where it catches GeneratorExit, and the socket is let go
\* of before anything else is done about it.
DroppedInv ==
  /\ event \in FromFeed /\ rpc = "yield" => FeedCatchesExit
  /\ event \in FromFeed /\ rpc = "abandoned" => Shut
  /\ rpc \in {"clear_closing", "set_closed"} => Shut

\* The steps of run() outside of feed() keep DroppedInv.
LEMMA DroppedRun ==
  ASSUME SessionTypeOK, DroppedInv, RunStep
  PROVE  DroppedInv'
<1> USE DEF DroppedInv, FromFeed, Shut, FeedCatchesExit, webSocketVars, flagVars
<1>1. CASE Start \/ Connect \/ ConnectFails
  BY <1>1 DEF Start, Connect, ConnectFails, Yield
<1>2. CASE SendRequest \/ RequestSent \/ RequestFailed
  BY <1>2 DEF SendRequest, RequestSent, RequestFailed, Yield, CloseSocketThen
<1>3. CASE Select \/ LoopEnds
  BY <1>3 DEF Select, LoopEnds, CloseSocketThen
<1>4. CASE Poll \/ AutoPing
  BY <1>4 DEF Poll, AutoPing, Yield
<1>5. CASE Timeouts
  BY <1>5 DEF Timeouts, Yield, LoopRaises, CloseSocketThen, AfterRegular
<1>6. CASE ForceDisconnect
  BY <1>6 DEF ForceDisconnect, LoopRaises, CloseSocketThen
<1>7. CASE RecvData \/ RecvEnd \/ RecvFails
  BY <1>7 DEF RecvData, RecvEnd, RecvFails, LoopRaises, CloseSocketThen, Yield
<1> QED
  BY <1>1, <1>2, <1>3, <1>4, <1>5, <1>6, <1>7 DEF RunStep

\* The steps of feed() keep DroppedInv.
LEMMA DroppedFeed ==
  ASSUME PlaceInv, DroppedInv, FeedStep
  PROVE  DroppedInv'
<1>0. rpc \in {"feed", "ponged"} => feeding = "message"
  BY DEF PlaceInv
<1> USE DEF DroppedInv, FromFeed, Shut, FeedCatchesExit, webSocketVars, flagVars
<1>1. CASE FeedEnds \/ ResumeMessage \/ ResumeRejected \/ ResumeWithClose
  BY <1>1 DEF FeedEnds, ResumeMessage, ResumeRejected, ResumeWithClose
<1>2. CASE FeedAccept \/ FeedText \/ Ponged \/ FeedPong
  BY <1>0, <1>2 DEF FeedAccept, FeedText, Ponged, FeedPong, Takes, Yield
<1>3. CASE FeedClose \/ FeedBad \/ FeedCritical
  BY <1>3 DEF FeedClose, FeedBad, FeedCritical, Takes, Yield
<1>4. CASE FeedPing \/ FeedBigPing
  BY <1>0, <1>4 DEF FeedPing, FeedBigPing, Takes, Yield, LoopRaises, CloseSocketThen
<1>5. CASE FeedReject
  BY <1>5 DEF FeedReject, Takes, CloseSocketThen
<1>6. CASE ResumeClosed \/ MarkClosed \/ Echoed
  BY <1>6 DEF ResumeClosed, MarkClosed, Echoed
<1>7. CASE ProtocolErrorEnds
  BY <1>7 DEF ProtocolErrorEnds, LoopRaises, CloseSocketThen
<1> QED
  BY <1>1, <1>2, <1>3, <1>4, <1>5, <1>6, <1>7 DEF FeedStep

\* Closing the socket, and the application, keep DroppedInv.
LEMMA DroppedClose ==
  ASSUME SessionTypeOK, EndInv, DroppedInv, CloseStep \/ Resume \/ Abandon \/ LeaveWith
  PROVE  DroppedInv'
<1> USE DEF DroppedInv, FromFeed, Shut, FeedCatchesExit, webSocketVars, flagVars
<1>1. CASE CloseSocketAgain \/ ClearSock
  <2>1. Shut /\ UNCHANGED <<tcp, peer>>
    BY <1>1 DEF CloseSocketAgain, ClearSock, EndInv
  <2> QED
    BY <1>1, <2>1
       DEF CloseSocketAgain, ClearSock, SocketClosed, ThenLastEvent, Final, Yield
<1>2. CASE CloseSocket \/ ClearClosing
  BY <1>2 DEF CloseSocket, ClearClosing
<1>3. CASE SetClosed
  BY <1>3 DEF SetClosed, Yield, CloseSocketThen
<1>4. CASE Resume
  <2>1. rpc = "yield" /\ after \in AfterYield
    BY <1>4 DEF Resume, SessionTypeOK
  <2> QED
    BY <1>4, <2>1 DEF Resume, AfterYield
<1>5. CASE Abandon \/ LeaveWith
  BY <1>5 DEF Abandon, LeaveWith, CloseSocketThen
<1> QED
  BY <1>1, <1>2, <1>3, <1>4, <1>5 DEF CloseStep

\* A generator dropped at what feed() handed out leaves the socket shut, whatever
\* other threads are doing (websocket.py, feed's GeneratorExit handler).
THEOREM Dropped == Spec => []DroppedIsShut
<1>1. Init => DroppedInv
  BY DEF Init, DroppedInv
<1>2. SessionTypeOK /\ EndInv /\ PlaceInv /\ DroppedInv /\ [Next]_vars => DroppedInv'
  <2> SUFFICES ASSUME SessionTypeOK, EndInv, PlaceInv, DroppedInv, [Next]_vars
                  PROVE  DroppedInv'
    OBVIOUS
  <2> USE DEF DroppedInv, Shut, FeedCatchesExit
  <2>1. CASE LoopStep \/ LeaveWith
    BY <2>1, DroppedRun, DroppedFeed, DroppedClose DEF LoopStep
  <2>2. CASE Environment
    BY <2>2 DEF Environment, ServerAnswers, ServerSends, PeerChanges, CloseTimerExpires,
                PongTimerExpires, webSocketVars, flagVars, loopVars, sessionVars
  <2>3. ASSUME NEW t \in Threads, AppCalls(t) PROVE DroppedInv'
    BY <2>3 DEF AppCalls, loopVars, flagVars
  <2>4. ASSUME NEW t \in Threads, ThreadStep(t) PROVE DroppedInv'
    BY <2>4, CallFrame DEF ThreadStep, sessionVars
  <2>5. CASE UNCHANGED vars
    BY <2>5 DEF vars, webSocketVars, sessionVars
  <2> QED
    BY <2>1, <2>2, <2>3, <2>4, <2>5 DEF Next, Terminated
<1>3. DroppedInv => DroppedIsShut
  BY DEF DroppedInv, DroppedIsShut, FromFeed, Shut
<1> QED
  BY <1>1, <1>2, <1>3, TypeCorrect, EndInvariant, OrderInvariant, PTL
     DEF Spec, OrderInv

-----------------------------------------------------------------------------
(* One thread: the order of the frames *)

\* run() has entered its loop and has not left it.
InLoop ==
  \/ Between \/ Regular \/ Delivered
  \/ rpc \in {"feed", "ponged", "mark_closed", "echoed", "erred"}

\* Where a call of the loop's thread can be under way, of what, and what the
\* tests it has passed are still good for: nothing else runs meanwhile.
SoloCallInv ==
  /\ pc[Loop] \notin Rest =>
       \/ rpc \in {"yield", "done", "abandoned"} /\ frame[Loop] \in {"data", "close"}
       \/ rpc = "requested" /\ frame[Loop] = "request"
       \/ rpc \in {"timeouts", "ponged"} /\ frame[Loop] \in {"ping", "pong"}
       \/ rpc \in {"echoed", "erred"} /\ frame[Loop] = "close"
  /\ pc[Loop] \in {"close_closed", "close_closing", "close_flag", "close_time"} =>
       frame[Loop] = "close"
  /\ pc[Loop] = "close_closing" => ~closed
  /\ frame[Loop] = "close" /\ pc[Loop] \in {"write"} \cup InLock => ~closing /\ ~closed
  /\ pc[Loop] \in InLock => hasSock
  /\ pc[Loop] \in {"write_closing", "write_sendall"} => ~closed
  /\ pc[Loop] = "write_sendall" => ~closing

\* Where the session has a socket, and what it is good for.
SoloSocketInv ==
  /\ hasSock /\ rpc # "clear_sock" => tcp = "open"
  /\ InLoop => hasSock \/ closed
  /\ rpc \in {"request", "requested"} => hasSock
  /\ rpc \in {"clear_closing", "set_closed"} => ~hasSock

\* Nothing can be sent before the request.
RequestInv ==
  /\ rpc \in {"start", "connect", "request"} \/ Suspended("connect") => wire = <<>>
  /\ wire = <<>> /\ hasSock => rpc \in {"request", "requested", "close_socket", "clear_sock"}
  /\ rpc = "requested" /\ pc[Loop] = "idle" => wire # <<>> /\ ~closing

CloseSent == Contains(wire, "close")

\* A Close was sent: something keeps write() from sending more.  And whoever
\* says that the session is closing has sent one, if that was possible.
SoloCloseInv ==
  /\ CloseSent => \/ closing \/ closed \/ ~hasSock
                  \/ pc[Loop] = "close_flag" \/ rpc = "mark_closed"
  /\ closing \/ pc[Loop] \in {"close_flag", "close_time"} =>
       \/ CloseSent \/ Broken \/ ~hasSock
       \/ rpc \in {"request", "requested", "close_socket", "clear_sock"}
  /\ rpc \in {"echoed", "erred"} /\ pc[Loop] \in Rest => CloseSent \/ Broken
  /\ ClosedWasSent

SoloInv ==
  SoloCallInv /\ SoloSocketInv /\ RequestInv /\ SoloCloseInv /\ FramesInOrder

\* Nothing is sent and nothing called before run().
LEMMA SoloInit == Init => SoloInv
<1> SUFFICES ASSUME Init PROVE SoloInv
  OBVIOUS
<1>1. ~CloseSent
  BY DEF Init, WebSocketInit, CloseSent, Contains
<1>2. pc[Loop] = "idle" /\ frame[Loop] = "none"
  BY LoopIsThread DEF Init, WebSocketInit
<1> QED
  BY <1>1, <1>2
     DEF Init, WebSocketInit, SoloInv, SoloCallInv, SoloSocketInv, RequestInv, SoloCloseInv,
         FramesInOrder, ClosedWasSent, InLoop, Between, Regular, Delivered, Suspended, InLock,
         Rest

\* What changes no frame on the wire keeps what is said of the frames there.
LEMMA WireSame ==
  ASSUME UNCHANGED wire
  PROVE  /\ CloseSent' <=> CloseSent
         /\ Contains(wire, "close")' <=> CloseSent
         /\ FramesInOrder => FramesInOrder'
         /\ wire = <<>> => ~CloseSent
BY DEF CloseSent, FramesInOrder, Contains

\* The loop's thread begins a call.
LEMMA LoopCalls ==
  ASSUME SessionTypeOK
  PROVE  /\ \A f : StartSend(Loop, f) =>
              pc[Loop] \in Rest /\ pc'[Loop] = "write" /\ frame'[Loop] = f
         /\ StartClose(Loop) =>
              pc[Loop] \in Rest /\ pc'[Loop] = "close_closed" /\ frame'[Loop] = "close"
BY LoopIsThread
   DEF SessionTypeOK, WebSocketTypeOK, CallsTypeOK, StartSend, StartClose, Goto

\* The steps of run() outside of feed() keep SoloInv.
LEMMA SoloRun ==
  ASSUME SessionTypeOK, EndInv, PlaceInv, SoloInv, RunStep
  PROVE  SoloInv'
<1> USE DEF SoloInv, SoloCallInv, SoloSocketInv, RequestInv, SoloCloseInv, ClosedWasSent,
            Broken, InLoop, Between, Regular, Delivered, Suspended, InLock, Rest,
            webSocketVars, flagVars, callVars
<1>1. CASE Start \/ ConnectFails
  BY <1>1, WireSame DEF Start, ConnectFails, Yield, EndInv
<1>2. CASE SendRequest
  BY <1>2, WireSame, LoopCalls DEF SendRequest
<1>3. CASE RequestSent \/ RequestFailed
  BY <1>3, WireSame DEF RequestSent, RequestFailed, Yield, CloseSocketThen
<1>4. CASE Select \/ LoopEnds
  BY <1>4, WireSame DEF Select, LoopEnds, CloseSocketThen
<1>5. CASE Poll
  BY <1>5, WireSame DEF Poll, Yield
<1>6. CASE AutoPing
  BY <1>6, WireSame, LoopCalls DEF AutoPing
<1>7. CASE Timeouts
  BY <1>7, WireSame DEF Timeouts, Yield, LoopRaises, CloseSocketThen, AfterRegular
<1>8. CASE ForceDisconnect
  BY <1>8, WireSame DEF ForceDisconnect, LoopRaises, CloseSocketThen
<1>9. CASE RecvData \/ RecvEnd \/ RecvFails
  BY <1>9, WireSame DEF RecvData, RecvEnd, RecvFails, CloseSocketThen
<1>10. CASE Connect
  BY <1>10, WireSame DEF Connect, EndInv
<1> QED
  BY <1>1, <1>2, <1>3, <1>4, <1>5, <1>6, <1>7, <1>8, <1>9, <1>10 DEF RunStep

\* The steps of feed() keep SoloInv.
LEMMA SoloFeed ==
  ASSUME SessionTypeOK, EndInv, PlaceInv, SoloInv, FeedStep
  PROVE  SoloInv'
<1> USE DEF SoloInv, SoloCallInv, SoloSocketInv, RequestInv, SoloCloseInv, ClosedWasSent,
            Broken, InLoop, Between, Regular, Delivered, Suspended, InLock, Rest,
            webSocketVars, flagVars, callVars
<1>1. CASE FeedEnds \/ ResumeMessage \/ ResumeRejected
  BY <1>1, WireSame DEF FeedEnds, ResumeMessage, ResumeRejected
<1>2. CASE FeedAccept \/ FeedText \/ Ponged \/ FeedPong
  BY <1>2, WireSame DEF FeedAccept, FeedText, Ponged, FeedPong, Takes, Yield
<1>3. CASE FeedBad \/ FeedCritical
  BY <1>3, WireSame DEF FeedBad, FeedCritical, Takes, Yield
<1>4. CASE FeedPing
  BY <1>4, WireSame, LoopCalls DEF FeedPing, Takes, Yield
<1>5. CASE FeedBigPing
  BY <1>5, WireSame DEF FeedBigPing, LoopRaises, CloseSocketThen, Yield
<1>6. CASE FeedReject
  BY <1>6, WireSame DEF FeedReject, Takes, CloseSocketThen
<1>7. CASE FeedClose
  BY <1>7, WireSame DEF FeedClose, Takes, Yield, PlaceInv, Closes
<1>8. CASE ResumeClosed \/ MarkClosed
  BY <1>8, WireSame DEF ResumeClosed, MarkClosed
<1>9. CASE ResumeWithClose
  BY <1>9, WireSame, LoopCalls DEF ResumeWithClose
<1>10. CASE Echoed
  BY <1>10, WireSame DEF Echoed
<1>11. CASE ProtocolErrorEnds
  BY <1>11, WireSame DEF ProtocolErrorEnds, LoopRaises, CloseSocketThen
<1> QED
  BY <1>1, <1>2, <1>3, <1>4, <1>5, <1>6, <1>7, <1>8, <1>9, <1>10, <1>11 DEF FeedStep

\* Closing the socket, and the application, keep SoloInv.
LEMMA SoloClose ==
  ASSUME SessionTypeOK, EndInv, PlaceInv, SoloInv, CloseStep \/ Resume \/ Abandon \/ LeaveWith
  PROVE  SoloInv'
<1> USE DEF SoloInv, SoloCallInv, SoloSocketInv, RequestInv, SoloCloseInv, ClosedWasSent,
            Broken, InLoop, Between, Regular, Delivered, Suspended, InLock, Rest,
            webSocketVars, flagVars, callVars
<1>1. CASE CloseSocketAgain
  BY <1>1, WireSame DEF CloseSocketAgain, SocketClosed, ThenLastEvent, Final, Yield
<1>2. CASE CloseSocket \/ ClearClosing
  BY <1>2, WireSame DEF CloseSocket, ClearClosing
<1>3. CASE ClearSock
  BY <1>3, WireSame DEF ClearSock, SocketClosed, ThenLastEvent, Final, Yield
<1>4. CASE SetClosed
  BY <1>4, WireSame DEF SetClosed, Yield, CloseSocketThen
<1>5. CASE Resume
  BY <1>5, WireSame DEF Resume, SessionTypeOK, AfterYield, EndInv
<1>6. CASE Abandon \/ LeaveWith
  BY <1>6, WireSame DEF Abandon, LeaveWith, CloseSocketThen
<1> QED
  BY <1>1, <1>2, <1>3, <1>4, <1>5, <1>6 DEF CloseStep

\* A Close already on the wire stays there, and the connection stays broken.
LEMMA SentStays ==
  ASSUME SessionTypeOK, NEW f, wire' = Append(wire, f)
  PROVE  /\ CloseSent => CloseSent'
         /\ f = "close" => CloseSent'
         /\ f # "close" => (CloseSent' <=> CloseSent)
         /\ wire' # <<>>
<1>1. wire \in Seq(Frames) /\ Len(wire) \in Nat
  BY DEF SessionTypeOK, WebSocketTypeOK
<1>2. /\ Len(wire') = Len(wire) + 1
      /\ wire'[Len(wire) + 1] = f
      /\ \A i \in 1..Len(wire) : wire'[i] = wire[i]
  BY <1>1
<1> QED
  BY <1>1, <1>2 DEF CloseSent, Contains

\* The order of the frames is kept by a frame that follows no Close, and is the
\* request if it is the first.
LEMMA OrderKept ==
  ASSUME SessionTypeOK, FramesInOrder, ~CloseSent, NEW f, wire' = Append(wire, f),
         wire = <<>> => f = "request"
  PROVE  FramesInOrder'
<1>1. wire \in Seq(Frames) /\ Len(wire) \in Nat
  BY DEF SessionTypeOK, WebSocketTypeOK
<1>2. /\ Len(wire') = Len(wire) + 1
      /\ wire'[Len(wire) + 1] = f
      /\ \A i \in 1..Len(wire) : wire'[i] = wire[i]
  BY <1>1
<1>3. Head(wire') = "request"
  BY <1>1, <1>2 DEF FramesInOrder
<1>4. \A i \in 1..Len(wire') : wire'[i] = "close" => i = Len(wire')
  BY <1>1, <1>2 DEF CloseSent, Contains
<1> QED
  BY <1>3, <1>4 DEF FramesInOrder

\* A step of the loop's thread inside a call keeps SoloInv.
LEMMA SoloStep ==
  ASSUME SessionTypeOK, PlaceInv, SoloInv, ThreadStep(Loop)
  PROVE  SoloInv'
<1> USE DEF SoloInv, SoloCallInv, SoloSocketInv, RequestInv, SoloCloseInv, ClosedWasSent,
            Broken, InLoop, Between, Regular, Delivered, Suspended, InLock, Rest,
            flagVars, sessionVars, Return, Goto, ThreadStep
<1>0. /\ pc \in [Threads -> CallPCs] /\ frame \in [Threads -> Frames \cup {"none"}]
      /\ Loop \in Threads
  BY LoopIsThread DEF SessionTypeOK, WebSocketTypeOK, CallsTypeOK
<1>1. CASE CloseTestsClosed(Loop)
  BY <1>0, <1>1, WireSame DEF CloseTestsClosed, PlaceInv, Closes
<1>2. CASE CloseTestsClosing(Loop)
  BY <1>0, <1>2, WireSame DEF CloseTestsClosing, PlaceInv, Closes
<1>3. CASE CloseSetsClosing(Loop)
  BY <1>0, <1>3, WireSame DEF CloseSetsClosing
<1>4. CASE CloseSetsTime(Loop)
  BY <1>0, <1>4, WireSame DEF CloseSetsTime, PlaceInv, Closes
<1>5. CASE WriteUnavailable(Loop)
  BY <1>0, <1>5, WireSame DEF WriteUnavailable, WriteRaises, PlaceInv, Closes
<1>6. CASE WriteAcquires(Loop)
  BY <1>0, <1>6, WireSame DEF WriteAcquires
<1>7. CASE WriteTestsClosed(Loop)
  BY <1>0, <1>7, WireSame DEF WriteTestsClosed, WriteRaises
<1>8. CASE WriteTestsClosing(Loop)
  BY <1>0, <1>8, WireSame DEF WriteTestsClosing, WriteRaises
<1>9. CASE Sendall(Loop)
  <2>1. pc[Loop] = "write_sendall" /\ hasSock /\ wire' = Append(wire, frame[Loop])
    BY <1>9 DEF Sendall
  <2>2. ~CloseSent /\ ~closing /\ ~closed
    BY <2>1
  <2>3. wire = <<>> => frame[Loop] = "request"
    BY <2>1
  <2>4. FramesInOrder'
    BY <2>1, <2>2, <2>3, OrderKept
  <2>5. /\ frame[Loop] = "close" =>
             CloseSent' /\ pc'[Loop] = "close_flag" /\ frame'[Loop] = "close"
        /\ frame[Loop] # "close" =>
             ~CloseSent' /\ pc'[Loop] = "idle" /\ frame'[Loop] = "none"
        /\ wire' # <<>>
    BY <1>0, <1>9, <2>1, <2>2, SentStays DEF Sendall, WriteReturns
  <2>6. UNCHANGED <<closing, closed, hasSock, tcp, peer, rpc, after, event, feeding>>
    BY <1>9 DEF Sendall
  <2>7. SoloCallInv'
    BY <2>1, <2>2, <2>5, <2>6
  <2>8. SoloSocketInv' /\ RequestInv'
    BY <2>1, <2>2, <2>5, <2>6
  <2>9. SoloCloseInv'
    BY <2>1, <2>2, <2>5, <2>6 DEF CloseSent
  <2> QED
    BY <2>4, <2>7, <2>8, <2>9
<1>10. CASE SendallFails(Loop)
  BY <1>0, <1>10, WireSame DEF SendallFails, WriteRaises
<1> QED
  BY <1>1, <1>2, <1>3, <1>4, <1>5, <1>6, <1>7, <1>8, <1>9, <1>10 DEF ThreadStep, CallStep

\* With no other thread, every step keeps SoloInv.
LEMMA SoloNext ==
  ASSUME Users = {}, SessionTypeOK, EndInv, PlaceInv, SoloInv, [Next]_vars
  PROVE  SoloInv'
<1>0. Threads = {Loop}
  BY DEF Threads
<1>1. CASE LoopStep \/ LeaveWith
  BY <1>1, SoloRun, SoloFeed, SoloClose DEF LoopStep
<1> USE DEF SoloInv, SoloCallInv, SoloSocketInv, RequestInv, SoloCloseInv, ClosedWasSent,
            Broken, InLoop, Between, Regular, Delivered, Suspended, InLock, Rest,
            flagVars, callVars
<1>2. CASE Environment
  BY <1>2, WireSame
     DEF Environment, ServerAnswers, ServerSends, PeerChanges, CloseTimerExpires,
         PongTimerExpires, webSocketVars, loopVars, sessionVars
<1>3. CASE AppCalls(Loop)
  BY <1>3, LoopCalls, WireSame DEF AppCalls, loopVars
<1>4. CASE ThreadStep(Loop)
  BY <1>4, SoloStep
<1>5. CASE UNCHANGED vars
  BY <1>5, WireSame DEF vars, webSocketVars, sessionVars
<1> QED
  BY <1>0, <1>1, <1>2, <1>3, <1>4, <1>5 DEF Next, Terminated

\* Hence every reachable state satisfies SoloInv.
LEMMA SoloInvariant == ASSUME Users = {} PROVE Spec => []SoloInv
<1>1. SessionTypeOK /\ EndInv /\ OrderInv /\ SoloInv /\ [Next]_vars => SoloInv'
  BY SoloNext DEF OrderInv
<1> QED
  BY <1>1, SoloInit, TypeCorrect, EndInvariant, OrderInvariant, PTL DEF Spec

\* When only the loop's thread makes calls, the upgrade request is the first
\* thing sent and no frame follows a Close (websocket.py, close and is_closing).
THEOREM CloseIsLast == ASSUME Users = {} PROVE Spec => []FramesInOrder
<1>1. SoloInv => FramesInOrder
  BY DEF SoloInv
<1> QED
  BY <1>1, SoloInvariant, PTL

\* Then the application is told Closed only when a Close was sent as well, or
\* the connection was lost (websocket.py, _on_close).
THEOREM ClosedAfterSent == ASSUME Users = {} PROVE Spec => []ClosedWasSent
<1>1. SoloInv => ClosedWasSent
  BY DEF SoloInv, SoloCloseInv
<1> QED
  BY <1>1, SoloInvariant, PTL

\* And a ProtocolError is answered by a Close before the session gives up
\* (websocket.py, feed; events.py, ProtocolError).
THEOREM ErrorAnswered == ASSUME Users = {} PROVE Spec => []ErrorSendsClose
<1>1. SoloInv => ErrorSendsClose
  BY DEF SoloInv, SoloCloseInv, ErrorSendsClose, CloseSent
<1> QED
  BY <1>1, SoloInvariant, PTL
===============================================================================
