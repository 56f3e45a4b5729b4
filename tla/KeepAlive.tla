------------------------------- MODULE KeepAlive -------------------------------
(***************************************************************************)
(* The clock of an upgraded connection: WebsocketSession._regular() and    *)
(* the four checks it makes (session.py), from the moment Ready is handed  *)
(* to the application.  Session.tla has the same steps without the time.   *)
(*                                                                         *)
(* now is session_time, in units as small as one likes.  Time passes while *)
(* select waits and while the application handles an event, nowhere else.  *)
(* Every check reads the clock again.                                      *)
(*                                                                         *)
(* One recv() takes any number of messages, and each is handled and is     *)
(* followed by the checks before the next.  So it matters how many come    *)
(* before a pong: that is not for the program to choose, and Backlog       *)
(* bounds it.                                                              *)
(***************************************************************************)
EXTENDS Integers, SequencesExt

CONSTANTS
  PollRate, PingRate, PingTimeout, CloseTimeout,  \* arguments of connect(), 0: disabled
  HandlerMax,  \* bound: how long the application handles one event, less than a poll
  AnswerMax,   \* bound: how long a pong takes to arrive
  Backlog,     \* bound: messages other than pongs that wait when the socket is read
  Servers,     \* subset of BOOLEAN: TRUE for a server that answers every ping
  Horizon      \* bound: when the model stops

ASSUME KeepAliveAssumption ==
  /\ PollRate \in Nat \ {0}
  /\ {PingRate, PingTimeout, CloseTimeout, HandlerMax, AnswerMax, Backlog, Horizon}
       \subseteq Nat
  /\ HandlerMax < PollRate
  /\ Servers \subseteq BOOLEAN

VARIABLES
  now,        \* session_time
  pollStart,  \* session._poll_start
  nextPing,   \* session._next_ping
  lastPong,   \* session._last_pong
  sentClose,  \* state.sent_close_time
  at,         \* where run() is
  back,       \* where the application's handler returns to
  resume,     \* where _regular() returns to: "recv", or "feed" between two messages
  readable,   \* what selector.wait() returned
  buf,        \* how many messages were received and not delivered
  ahead,      \* for each pong that arrived and was not delivered: how many
              \* messages come before it
  pongs,      \* when each pong that is under way arrives
  event,      \* the last event yielded
  pings,      \* when each ping was sent
  heard,      \* how many pongs were received
  responsive  \* the server answers every ping

timers == <<pollStart, nextPing, lastPong, sentClose>>
control == <<at, back, resume>>
network == <<readable, buf, ahead, pongs>>
history == <<event, pings, heard, responsive>>
vars == <<now, pollStart, nextPing, lastPong, sentClose, at, back, resume,
          readable, buf, ahead, pongs, event, pings, heard, responsive>>

Never == -1    \* None

Closing == sentClose # Never

KeepAliveTypeOK ==
  /\ now \in Nat
  /\ pollStart \in Nat \cup {Never}
  /\ nextPing \in Nat
  /\ lastPong \in 0..now
  /\ sentClose \in (0..now) \cup {Never}
  /\ at \in {"select", "poll", "ping", "timeouts", "recv", "feed", "handler", "over"}
  /\ back \in {"poll", "ping", "over"}
  /\ resume \in {"recv", "feed"}
  /\ readable \in BOOLEAN
  /\ buf \in Nat
  /\ ahead \in Seq(Nat)
  /\ pongs \in Seq(Nat)
  /\ event \in {"ready", "poll", "unresponsive", "pong", "text"}
  /\ pings \in Seq(Nat)
  /\ heard \in 0..Len(pings)
  /\ responsive \in Servers

\* _on_ready().  The application may have called close() before.
Init ==
  /\ now = 0
  /\ pollStart = Never
  /\ nextPing = 0
  /\ lastPong = 0
  /\ sentClose \in {Never, 0}
  /\ at = "handler" /\ back = "poll" /\ resume = "feed"
  /\ readable = TRUE
  /\ buf = 0
  /\ ahead = <<>>
  /\ pongs = <<>>
  /\ event = "ready"
  /\ pings = <<>>
  /\ heard = 0
  /\ responsive \in Servers

Yield(e, k) ==
  /\ event' = e
  /\ at' = "handler"
  /\ back' = k

\* The application handles the event, and may call close() meanwhile.
Handle ==
  /\ at = "handler"
  /\ \E d \in 0..HandlerMax :
       /\ now' = now + d
       /\ \/ UNCHANGED sentClose
          \/ ~Closing /\ sentClose' \in now..now'
  /\ at' = back
  /\ UNCHANGED <<pollStart, nextPing, lastPong, back, resume, network, history>>

-----------------------------------------------------------------------------
(* selector.wait() and _recv() *)

PongArrived(t) == pongs # <<>> /\ Head(pongs) <= t

\* It returns as soon as there is something to read, or after poll seconds.
Select ==
  /\ at = "select"
  /\ now < Horizon
  /\ \E d \in 0..PollRate :
       /\ d > 0 => ahead = <<>> /\ ~PongArrived(now + d - 1)
       /\ now' = now + d
       /\ readable' \in BOOLEAN
       /\ ahead # <<>> \/ PongArrived(now') => readable'
       /\ d < PollRate => readable'
  /\ at' = "poll"
  /\ resume' = "recv"
  /\ UNCHANGED <<timers, back, buf, ahead, pongs, history>>

\* They arrive in order.
Arrived == Cardinality({i \in DOMAIN pongs : pongs[i] <= now})

\* Where k pongs can stand among the messages that wait.
Places(k) ==
  {q \in [1..k -> 0..(Backlog + k)] :
     /\ \A i \in 1..k : q[i] < Backlog + i
     /\ \A i, j \in 1..k : i < j => q[i] < q[j]}

\* Mutant: what was received stays in the socket.
RecvKeeps ==
  /\ at = "recv"
  /\ IF readable
       THEN LET k == Len(ahead) + Arrived
            IN  /\ \E q \in Places(k), n \in 0..(Backlog + k) :
                     /\ \A i \in DOMAIN ahead : q[i] = ahead[i]
                     /\ ahead' = q
                     /\ buf' = n
                /\ at' = "feed"
       ELSE at' = "select" /\ UNCHANGED <<buf, ahead>>
  /\ UNCHANGED <<now, timers, back, resume, readable, pongs, history>>

\* The first n messages that wait are received, or only a piece of one (n = 0).
Recv ==
  /\ at = "recv"
  /\ IF readable
       THEN LET k == Len(ahead) + Arrived
            IN  /\ \E q \in Places(k), n \in 0..(Backlog + k) :
                     /\ \A i \in DOMAIN ahead : q[i] = ahead[i]
                     /\ ahead' = q
                     /\ buf' = n
                /\ pongs' = SubSeq(pongs, Arrived + 1, Len(pongs))
                /\ at' = "feed"
       ELSE at' = "select" /\ UNCHANGED <<buf, ahead, pongs>>
  /\ UNCHANGED <<now, timers, back, resume, readable, history>>

PongIsNext == ahead # <<>> /\ Head(ahead) = 0

\* One message less comes before each of these.
Closer(s) == [i \in DOMAIN s |-> s[i] - 1]

\* Mutant: a Pong is not recorded.
FeedForgetsPong ==
  /\ at = "feed"
  /\ resume' = "feed"
  /\ \/ /\ buf = 0
        /\ at' = "select"
        /\ UNCHANGED <<back, buf, ahead, event, lastPong, heard>>
     \/ /\ buf > 0 /\ PongIsNext
        /\ buf' = buf - 1 /\ ahead' = Closer(Tail(ahead))
        /\ Yield("pong", "poll")
        /\ heard' = heard + 1
        /\ UNCHANGED lastPong
     \/ /\ buf > 0 /\ ~PongIsNext
        /\ buf' = buf - 1 /\ ahead' = Closer(ahead)
        /\ Yield("text", "poll")
        /\ UNCHANGED <<lastPong, heard>>
  /\ UNCHANGED <<now, pollStart, nextPing, sentClose, readable, pongs, pings, responsive>>

\* _on_event(), the event, and _regular() once it is handled.
FeedEvent ==
  /\ at = "feed"
  /\ resume' = "feed"
  /\ \/ /\ buf = 0
        /\ at' = "select"
        /\ UNCHANGED <<back, buf, ahead, event, lastPong, heard>>
     \/ /\ buf > 0 /\ PongIsNext
        /\ buf' = buf - 1 /\ ahead' = Closer(Tail(ahead))
        /\ Yield("pong", "poll")
        /\ lastPong' = now /\ heard' = heard + 1
     \/ /\ buf > 0 /\ ~PongIsNext
        /\ buf' = buf - 1 /\ ahead' = Closer(ahead)
        /\ Yield("text", "poll")
        /\ UNCHANGED <<lastPong, heard>>
  /\ UNCHANGED <<now, pollStart, nextPing, sentClose, readable, pongs, pings, responsive>>

-----------------------------------------------------------------------------
(* _regular() *)

\* Mutant: the time of the poll is not when it was made, but when it was due.
CheckPollDrifts ==
  /\ at = "poll"
  /\ \/ /\ pollStart = Never \/ now - pollStart >= PollRate
        /\ pollStart' = pollStart + PollRate
        /\ Yield("poll", "ping")
     \/ /\ pollStart # Never /\ now - pollStart < PollRate
        /\ at' = "ping"
        /\ UNCHANGED <<pollStart, back, event>>
  /\ UNCHANGED <<now, nextPing, lastPong, sentClose, resume, network, pings, heard,
                 responsive>>

CheckPoll ==
  /\ at = "poll"
  /\ \/ /\ pollStart = Never \/ now - pollStart >= PollRate
        /\ pollStart' = now
        /\ Yield("poll", "ping")
     \/ /\ pollStart # Never /\ now - pollStart < PollRate
        /\ at' = "ping"
        /\ UNCHANGED <<pollStart, back, event>>
  /\ UNCHANGED <<now, nextPing, lastPong, sentClose, resume, network, pings, heard,
                 responsive>>

\* Mutant: rounded down, which is not in the future.
NextPingDown(t) == (t \div PingRate) * PingRate

\* Mutant: counted from this ping.
NextPingFromNow(t) == t + PingRate

\* math.ceil(session_time / ping_rate) * ping_rate
NextPing(t) == ((t + PingRate - 1) \div PingRate) * PingRate

\* The server's answer to a ping sent now: pongs arrive in order.
Answer ==
  \E d \in 0..AnswerMax :
    /\ pongs # <<>> => now + d >= Last(pongs)
    /\ pongs' = Append(pongs, now + d)

\* A ping is not sent once close() was called: send_ping() raises.
CheckAutoPing ==
  /\ at = "ping"
  /\ at' = "timeouts"
  /\ \/ /\ PingRate > 0 /\ now > nextPing
        /\ nextPing' = NextPing(now)
        /\ \/ ~Closing /\ pings' = Append(pings, now) /\ Answer
           \/ ~Closing /\ ~responsive /\ pings' = Append(pings, now) /\ UNCHANGED pongs
           \/ Closing /\ UNCHANGED <<pings, pongs>>
     \/ /\ PingRate = 0 \/ now <= nextPing
        /\ UNCHANGED <<nextPing, pings, pongs>>
  /\ UNCHANGED <<now, pollStart, lastPong, sentClose, back, resume, readable, buf, ahead,
                 event, heard, responsive>>

\* Mutant: nothing is late while pings wait for their answers.
PongIsLateUnlessPinged ==
  PingTimeout > 0 /\ now - lastPong > PingTimeout /\ heard = Len(pings)

PongIsLate == PingTimeout > 0 /\ now - lastPong > PingTimeout

\* Mutant: the timeout is counted from the last poll.
CloseIsLateAfterPoll ==
  /\ CloseTimeout > 0 /\ Closing
  /\ now >= pollStart + CloseTimeout

CloseIsLate ==
  /\ CloseTimeout > 0 /\ Closing
  /\ now >= sentClose + CloseTimeout

CheckTimeouts ==
  /\ at = "timeouts"
  /\ \/ PongIsLate /\ Yield("unresponsive", "over")
     \/ ~PongIsLate /\ CloseIsLate /\ at' = "over" /\ UNCHANGED <<back, event>>
     \/ ~PongIsLate /\ ~CloseIsLate /\ at' = resume /\ UNCHANGED <<back, event>>
  /\ UNCHANGED <<now, timers, resume, network, pings, heard,
                 responsive>>

Terminated ==
  /\ at = "over" \/ (at = "select" /\ now >= Horizon)
  /\ UNCHANGED vars

Next ==
  \/ Handle \/ Select \/ Recv \/ FeedEvent
  \/ CheckPoll \/ CheckAutoPing \/ CheckTimeouts
  \/ Terminated

Spec == Init /\ [][Next]_vars

-----------------------------------------------------------------------------
\* Period k is the times over (k - 1) * ping_rate, up to k * ping_rate.
Period(t) == (t + PingRate - 1) \div PingRate

\* At most one automatic ping in each period of ping_rate seconds, however
\* often the loop runs (session.py, _check_auto_ping).
PingsPaced ==
  \A i, j \in DOMAIN pings : i < j => Period(pings[i]) < Period(pings[j])

LastPing == IF pings = <<>> THEN 0 ELSE Last(pings)

\* And the server does not wait much longer than a period for the next one,
\* even when the loop wakes up at the worst times.
PingsPrompt ==
  at # "over" /\ PingRate > 0 /\ ~Closing =>
    now - LastPing < PingRate + PollRate + HandlerMax

\* Poll events keep coming, at less than twice the rate asked for, whatever
\* else keeps the loop awake (session.py, _check_poll and run).
PollsKeepComing ==
  at # "over" /\ pollStart # Never => now - pollStart < 2 * PollRate

(* A server that answers every ping is never called unresponsive, if the timeout
   leaves room for a ping rate, a poll, the answer and the handlers of the messages
   that come before the pong (session.py, _check_ping_timeout and run).  A timeout
   of twice the ping rate, as websocket.py:225 suggests, leaves it only when few
   messages do: with enough of them a server that answered in time is given up. *)
NoFalseTimeout == responsive /\ event = "unresponsive" => Closing

\* A server that falls silent is given up soon after the timeout, whatever
\* else the connection carries (session.py, _check_ping_timeout and run).
SilenceIsNoticed ==
  at # "over" /\ PingTimeout > 0 /\ event # "unresponsive" =>
    now - lastPong <= PingTimeout + PollRate + HandlerMax

\* The close timeout bounds the time from close() to the end of the loop,
\* however much the server sends meanwhile (session.py, _check_close_timeout).
CloseIsBounded ==
  at # "over" /\ CloseTimeout > 0 /\ Closing =>
    now - sentClose < CloseTimeout + PollRate + HandlerMax

=============================================================================
