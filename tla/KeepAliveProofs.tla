---------------------------- MODULE KeepAliveProofs ----------------------------
(***************************************************************************)
(* What holds of KeepAlive.tla for every rate and timeout, for handlers    *)
(* that take less than a poll, for pongs that take any time and any length *)
(* horizon: how far apart polls, pings and the end can be.                 *)
(***************************************************************************)
EXTENDS KeepAlive, FiniteSetTheorems, TLAPS

(* Periods of ping_rate seconds *)

\* A time is not later than the end of its period, which is less than a
\* period away.
LEMMA PeriodEnds ==
  ASSUME NEW P \in Nat \ {0}, NEW t \in Nat
  PROVE  /\ (t + P - 1) \div P \in Nat
         /\ t <= ((t + P - 1) \div P) * P
         /\ ((t + P - 1) \div P) * P < t + P
BY SMTT(30)

\* A time later than the end of period k belongs to a later period.
LEMMA PeriodBegins ==
  ASSUME NEW P \in Nat \ {0}, NEW t \in Nat, NEW k \in Nat, t > k * P
  PROVE  (t + P - 1) \div P > k
BY SMTT(30)

-----------------------------------------------------------------------------
(* The clocks are times, and the loop is somewhere *)

Clocks ==
  /\ now \in Nat
  /\ pollStart \in Nat \cup {Never}
  /\ nextPing \in Nat
  /\ lastPong \in Nat
  /\ sentClose \in Nat \cup {Never}
  /\ at \in {"select", "poll", "ping", "timeouts", "recv", "feed", "handler", "over"}
  /\ back \in {"poll", "ping", "over"}
  /\ resume \in {"recv", "feed"}

\* Where pongs stand among the messages that wait: at most Backlog others come
\* before any of them.
Placed(s) ==
  /\ s \in Seq(Nat)
  /\ \A i \in DOMAIN s : s[i] < Backlog + i
  /\ \A i, j \in DOMAIN s : i < j => s[i] < s[j]

Queues ==
  /\ pings \in Seq(Nat)
  /\ pongs \in Seq(Nat)
  /\ Placed(ahead)
  /\ buf \in Nat /\ buf <= Backlog + Len(ahead)

\* The assumption on the constants, one fact for each.
LEMMA Parameters ==
  /\ PollRate \in Nat /\ PollRate > 0
  /\ PingRate \in Nat /\ PingTimeout \in Nat /\ CloseTimeout \in Nat
  /\ HandlerMax \in Nat /\ HandlerMax < PollRate
  /\ AnswerMax \in Nat /\ Backlog \in Nat
BY KeepAliveAssumption

\* The next ping is never in the past, and less than a period away.
LEMMA NextPingIsATime ==
  ASSUME PingRate > 0, Clocks
  PROVE  /\ NextPing(now) \in Nat
         /\ now <= NextPing(now) /\ NextPing(now) < now + PingRate
<1>1. PingRate \in Nat \ {0} /\ now \in Nat
  BY Parameters DEF Clocks
<1>2. /\ (now + PingRate - 1) \div PingRate \in Nat
      /\ now <= ((now + PingRate - 1) \div PingRate) * PingRate
      /\ ((now + PingRate - 1) \div PingRate) * PingRate < now + PingRate
  BY <1>1, PeriodEnds
<1>3. ((now + PingRate - 1) \div PingRate) * PingRate \in Nat
  BY <1>1, <1>2
<1> QED
  BY <1>2, <1>3 DEF NextPing

\* Every step keeps the clocks times and the loop at its places.
LEMMA ClocksNext == Clocks /\ [Next]_vars => Clocks'
<1> SUFFICES ASSUME Clocks, [Next]_vars PROVE Clocks'
    OBVIOUS
<1> USE Parameters DEF timers, Yield
<1>1. CASE Handle
  BY <1>1 DEF Handle, Clocks
<1>2. CASE Select
  BY <1>2 DEF Select, Clocks
<1>3. CASE Recv
  BY <1>3 DEF Recv, Clocks
<1>4. CASE FeedEvent
  BY <1>4 DEF FeedEvent, Clocks
<1>5. CASE CheckPoll
  BY <1>5 DEF CheckPoll, Clocks
<1>6. CASE CheckAutoPing
  <2>1. nextPing' \in Nat
    <3>1. CASE PingRate > 0 /\ nextPing' = NextPing(now)
      BY <3>1, NextPingIsATime
    <3>2. CASE UNCHANGED nextPing
      BY <3>2 DEF Clocks
    <3> QED
      BY <1>6, <3>1, <3>2 DEF CheckAutoPing
  <2> QED
    BY <1>6, <2>1 DEF CheckAutoPing, Clocks
<1>7. CASE CheckTimeouts
  BY <1>7 DEF CheckTimeouts, Clocks
<1>8. CASE UNCHANGED vars
  BY <1>8 DEF vars, Clocks
<1> QED
  BY <1>1, <1>2, <1>3, <1>4, <1>5, <1>6, <1>7, <1>8 DEF Next, Terminated

\* The clocks are times in every reachable state.
LEMMA ClocksInvariant == Spec => []Clocks
<1>1. Init => Clocks
  BY DEF Init, Clocks, Never
<1> QED
  BY <1>1, ClocksNext, PTL DEF Spec

-----------------------------------------------------------------------------
(* What is under way and what was received *)

\* The pongs that have arrived are the first ones of those under way.
LEMMA ArrivedBound ==
  ASSUME Queues
  PROVE  Arrived \in 0..Len(pongs)
<1> DEFINE S == {i \in DOMAIN pongs : pongs[i] <= now}
<1>1. DOMAIN pongs = 1..Len(pongs) /\ Len(pongs) \in Nat
  BY DEF Queues
<1>2. IsFiniteSet(1..Len(pongs)) /\ Cardinality(1..Len(pongs)) = Len(pongs)
  <2>1. 0 \in Int /\ 1 \in Int /\ Len(pongs) \in Int
    BY <1>1
  <2>2. IF 1 > Len(pongs) THEN Cardinality(1..Len(pongs)) = 0
                          ELSE Cardinality(1..Len(pongs)) = Len(pongs) - 1 + 1
    BY <2>1, FS_Interval
  <2>3. IsFiniteSet(1..Len(pongs))
    BY <2>1, FS_Interval
  <2> QED
    BY <1>1, <2>2, <2>3
<1>3. Cardinality(S) <= Len(pongs) /\ IsFiniteSet(S)
  <2> HIDE DEF S
  <2>1. S \in SUBSET (1..Len(pongs))
    BY <1>1 DEF S
  <2> QED
    BY <1>2, <2>1, FS_Subset
<1>4. Cardinality(S) \in Nat
  BY <1>3, FS_CardinalityType
<1> QED
  BY <1>1, <1>3, <1>4 DEF Arrived

\* What _recv() finds where pongs may stand.
LEMMA PlacesPlaced ==
  ASSUME NEW k \in Nat, NEW q \in Places(k)
  PROVE  Placed(q) /\ Len(q) = k /\ DOMAIN q = 1..k
<1>1. /\ q \in [1..k -> 0..(Backlog + k)]
      /\ \A i \in 1..k : q[i] < Backlog + i
      /\ \A i, j \in 1..k : i < j => q[i] < q[j]
  BY DEF Places
<1>2. q \in Seq(Nat) /\ Len(q) = k /\ DOMAIN q = 1..k
  <2>1. Backlog \in Nat
    BY Parameters
  <2>2. \A i \in 1..k : q[i] \in Nat
    BY <1>1, <2>1
  <2>3. DOMAIN q = 1..k
    BY <1>1
  <2>4. q \in [1..k -> Nat]
    BY <1>1, <2>2, <2>3
  <2> QED
    BY <2>3, <2>4
<1> QED
  BY <1>1, <1>2 DEF Placed

\* Another message is delivered: every pong that waits comes one closer.
LEMMA AllCloser ==
  ASSUME NEW s, Placed(s), s # <<>> => s[1] > 0
  PROVE  /\ Placed(Closer(s)) /\ Len(Closer(s)) = Len(s)
         /\ s # <<>> => Closer(s)[1] = s[1] - 1
<1> DEFINE c == Closer(s)
<1>1. s \in Seq(Nat) /\ DOMAIN s = 1..Len(s) /\ Len(s) \in Nat
  BY DEF Placed
<1>2. DOMAIN c = 1..Len(s) /\ \A i \in 1..Len(s) : c[i] = s[i] - 1
  BY <1>1 DEF Closer
<1>3. ASSUME NEW i \in 1..Len(s) PROVE s[i] \in Nat /\ s[i] > 0 /\ s[i] < Backlog + i
  <2>1. s[i] \in Nat /\ s[1] \in Nat /\ 1 \in 1..Len(s) /\ s # <<>>
    BY <1>1, <1>3
  <2>2. CASE i = 1
    BY <1>1, <2>1, <2>2 DEF Placed
  <2>3. CASE i # 1
    <3>1. 1 < i
      BY <1>1, <1>3, <2>3
    <3>2. s[1] < s[i] /\ s[i] < Backlog + i
      BY <1>1, <1>3, <2>1, <3>1 DEF Placed
    <3> QED
      BY <2>1, <3>2
  <2> QED
    BY <2>2, <2>3
<1>4. \A i \in 1..Len(s) : c[i] \in Nat /\ c[i] < Backlog + i
  BY <1>1, <1>2, <1>3, Parameters
<1>5. ASSUME NEW i \in 1..Len(s), NEW j \in 1..Len(s), i < j PROVE c[i] < c[j]
  <2>1. s[i] < s[j] /\ s[i] \in Nat /\ s[j] \in Nat
    BY <1>1, <1>5 DEF Placed
  <2> QED
    BY <1>2, <2>1
<1>6. c \in Seq(Nat) /\ Len(c) = Len(s)
  <2>1. c = [i \in 1..Len(s) |-> s[i] - 1]
    BY <1>1 DEF Closer
  <2>2. \A i \in 1..Len(s) : s[i] - 1 \in Nat
    BY <1>2, <1>4
  <2> QED
    BY <1>1, <2>1, <2>2
<1>7. s # <<>> => c[1] = s[1] - 1
  <2> SUFFICES ASSUME s # <<>> PROVE 1 \in 1..Len(s)
    BY <1>2
  <2> QED
    BY <1>1
<1>8. Placed(c)
  BY <1>2, <1>4, <1>5, <1>6 DEF Placed
<1> QED
  BY <1>6, <1>7, <1>8

\* A pong is delivered: those behind it come one closer.
LEMMA RestCloser ==
  ASSUME NEW s, Placed(s), s # <<>>, s[1] = 0
  PROVE  Placed(Closer(Tail(s))) /\ Len(Closer(Tail(s))) = Len(s) - 1
<1> DEFINE t == Tail(s)
           c == Closer(t)
<1>1. /\ s \in Seq(Nat) /\ DOMAIN s = 1..Len(s) /\ Len(s) \in Nat \ {0}
      /\ t \in Seq(Nat) /\ Len(t) = Len(s) - 1 /\ DOMAIN t = 1..Len(t)
      /\ \A i \in 1..Len(t) : t[i] = s[i + 1] /\ i + 1 \in 1..Len(s)
  BY DEF Placed
<1>2. DOMAIN c = 1..Len(t) /\ \A i \in 1..Len(t) : c[i] = s[i + 1] - 1
  BY <1>1 DEF Closer
<1>3. \A i \in 1..Len(t) : c[i] \in Nat /\ c[i] < Backlog + i
  <2> SUFFICES ASSUME NEW i \in 1..Len(t) PROVE c[i] \in Nat /\ c[i] < Backlog + i
    OBVIOUS
  <2>1. s[i + 1] \in Nat /\ s[1] < s[i + 1] /\ s[i + 1] < Backlog + (i + 1)
    <3>1. i + 1 \in DOMAIN s /\ 1 \in DOMAIN s /\ 1 < i + 1
      BY <1>1
    <3> QED
      BY <1>1, <3>1 DEF Placed
  <2> QED
    BY <1>2, <2>1, Parameters
<1>4. ASSUME NEW i \in 1..Len(t), NEW j \in 1..Len(t), i < j PROVE c[i] < c[j]
  <2>1. i + 1 \in DOMAIN s /\ j + 1 \in DOMAIN s /\ i + 1 < j + 1
    BY <1>1, <1>4
  <2>2. s[i + 1] < s[j + 1] /\ s[i + 1] \in Nat /\ s[j + 1] \in Nat
    BY <1>1, <2>1 DEF Placed
  <2> QED
    BY <1>2, <2>2
<1>5. c \in Seq(Nat) /\ Len(c) = Len(t)
  <2>1. c = [i \in 1..Len(t) |-> t[i] - 1]
    BY <1>1 DEF Closer
  <2>2. \A i \in 1..Len(t) : t[i] - 1 \in Nat
    BY <1>1, <1>2, <1>3
  <2> HIDE DEF t
  <2> QED
    BY <1>1, <2>1, <2>2
<1>6. Placed(c)
  BY <1>2, <1>3, <1>4, <1>5 DEF Placed
<1> QED
  BY <1>1, <1>5, <1>6

\* What _recv() takes, and what it leaves under way.
LEMMA RecvMoves ==
  ASSUME Queues, Recv, readable
  PROVE  /\ Arrived \in 0..Len(pongs)
         /\ Placed(ahead') /\ Len(ahead') = Len(ahead) + Arrived
         /\ ahead # <<>> => ahead' # <<>> /\ ahead'[1] = ahead[1]
         /\ buf' \in Nat /\ buf' <= Backlog + Len(ahead')
         /\ pongs' \in Seq(Nat) /\ Len(pongs') = Len(pongs) - Arrived
         /\ \A i \in 1..Len(pongs') : pongs'[i] = pongs[Arrived + i]
<1>1. /\ Arrived \in 0..Len(pongs) /\ Len(pongs) \in Nat /\ pongs \in Seq(Nat)
      /\ Len(ahead) \in Nat /\ DOMAIN ahead = 1..Len(ahead)
  BY ArrivedBound DEF Queues, Placed
<1>2. PICK q \in Places(Len(ahead) + Arrived), n \in 0..(Backlog + (Len(ahead) + Arrived)) :
        /\ \A i \in DOMAIN ahead : q[i] = ahead[i]
        /\ ahead' = q /\ buf' = n
  BY DEF Recv
<1>3. Placed(q) /\ Len(q) = Len(ahead) + Arrived /\ DOMAIN q = 1..(Len(ahead) + Arrived)
  BY <1>1, PlacesPlaced
<1>4. ahead # <<>> => q # <<>> /\ q[1] = ahead[1]
  <2> SUFFICES ASSUME ahead # <<>> PROVE q # <<>> /\ q[1] = ahead[1]
    OBVIOUS
  <2>1. 1 \in DOMAIN ahead
    BY <1>1 DEF Queues, Placed
  <2>2. 1 \in DOMAIN q
    BY <1>1, <1>3, <2>1
  <2> QED
    BY <1>2, <2>1, <2>2
<1>5. buf' \in Nat /\ buf' <= Backlog + Len(ahead')
  BY <1>1, <1>2, <1>3, Parameters
<1>6. /\ pongs' = SubSeq(pongs, Arrived + 1, Len(pongs))
      /\ pongs' \in Seq(Nat) /\ Len(pongs') = Len(pongs) - Arrived
      /\ \A i \in 1..Len(pongs') : pongs'[i] = pongs[Arrived + i]
  <2>1. pongs' = SubSeq(pongs, Arrived + 1, Len(pongs))
    BY DEF Recv
  <2>2. pongs' \in Seq(Nat)
    BY <1>1, <2>1
  <2>3. ASSUME NEW a \in 0..Len(pongs)
        PROVE  /\ Len(SubSeq(pongs, a + 1, Len(pongs))) = Len(pongs) - a
               /\ \A i \in 1..(Len(pongs) - a) :
                     SubSeq(pongs, a + 1, Len(pongs))[i] = pongs[a + i]
    BY <1>1
  <2>4. Len(pongs') = Len(pongs) - Arrived
    BY <1>1, <2>1, <2>3
  <2> QED
    BY <1>1, <2>1, <2>2, <2>3, <2>4
<1> QED
  BY <1>1, <1>2, <1>3, <1>4, <1>5, <1>6

\* What feed() delivers: the next pong, or a message before it.
LEMMA FeedMoves ==
  ASSUME Queues, FeedEvent, buf > 0
  PROVE  /\ Placed(ahead') /\ buf' \in Nat /\ buf' = buf - 1
         /\ PongIsNext => ahead # <<>> /\ Len(ahead') = Len(ahead) - 1
         /\ ~PongIsNext => Len(ahead') = Len(ahead)
         /\ ~PongIsNext /\ ahead # <<>> => ahead' # <<>> /\ ahead'[1] = ahead[1] - 1
<1>1. /\ Placed(ahead) /\ ahead \in Seq(Nat) /\ buf \in Nat /\ Len(ahead) \in Nat
      /\ ahead # <<>> => Head(ahead) = ahead[1] /\ ahead[1] \in Nat
  BY DEF Queues, Placed
<1>2. buf' = buf - 1 /\ buf' \in Nat
  BY <1>1 DEF FeedEvent
<1>3. CASE PongIsNext
  <2>1. ahead # <<>> /\ ahead[1] = 0 /\ ahead' = Closer(Tail(ahead))
    BY <1>1, <1>3 DEF FeedEvent, PongIsNext
  <2> QED
    BY <1>1, <1>2, <1>3, <2>1, RestCloser
<1>4. CASE ~PongIsNext
  <2>1. ahead' = Closer(ahead) /\ (ahead # <<>> => ahead[1] > 0)
    BY <1>1, <1>4 DEF FeedEvent, PongIsNext
  <2>2. /\ Placed(ahead') /\ Len(ahead') = Len(ahead)
        /\ ahead # <<>> => ahead'[1] = ahead[1] - 1
    BY <1>1, <2>1, AllCloser
  <2>3. ahead # <<>> => ahead' # <<>>
    BY <1>1, <2>2 DEF Placed
  <2> QED
    BY <1>2, <1>4, <2>2, <2>3
<1> QED
  BY <1>3, <1>4

\* Every step keeps the queues sequences of times and places.
LEMMA QueuesNext == Clocks /\ Queues /\ [Next]_vars => Queues'
<1> SUFFICES ASSUME Clocks, Queues, [Next]_vars PROVE Queues'
    OBVIOUS
<1>1. CASE UNCHANGED <<pings, pongs, buf, ahead>>
  BY <1>1 DEF Queues, Placed
<1>2. CASE Recv
  <2>1. CASE readable
    BY <1>2, <2>1, RecvMoves DEF Recv, Queues, history
  <2>2. CASE ~readable
    BY <1>1, <1>2, <2>2 DEF Recv, history
  <2> QED
    BY <2>1, <2>2
<1>3. CASE FeedEvent
  <2>1. CASE buf = 0
    BY <1>1, <1>3, <2>1 DEF FeedEvent
  <2>2. CASE buf > 0
    <3>1. buf' <= Backlog + Len(ahead')
      BY <1>3, <2>2, FeedMoves, Parameters DEF Queues, Placed
    <3> QED
      BY <1>3, <2>2, <3>1, FeedMoves DEF FeedEvent, Queues
  <2> QED
    BY <2>1, <2>2 DEF Queues
<1>4. CASE CheckAutoPing
  <2>1. pings' \in Seq(Nat)
    <3>1. now \in Nat /\ pings \in Seq(Nat)
      BY DEF Clocks, Queues
    <3>2. Append(pings, now) \in Seq(Nat)
      BY <3>1
    <3>3. pings' = pings \/ pings' = Append(pings, now)
      BY <1>4 DEF CheckAutoPing
    <3> QED
      BY <3>1, <3>2, <3>3
  <2>2. pongs' \in Seq(Nat)
    <3>1. pongs' = pongs \/ \E d \in 0..AnswerMax : pongs' = Append(pongs, now + d)
      BY <1>4 DEF CheckAutoPing, Answer
    <3>2. now \in Nat /\ pongs \in Seq(Nat) /\ AnswerMax \in Nat
      BY Parameters DEF Clocks, Queues
    <3>3. ASSUME NEW d \in 0..AnswerMax PROVE Append(pongs, now + d) \in Seq(Nat)
      <4>1. now + d \in Nat
        BY <3>2
      <4> QED
        BY <3>2, <4>1
    <3> QED
      BY <3>1, <3>2, <3>3
  <2> QED
    BY <1>4, <2>1, <2>2 DEF CheckAutoPing, Queues
<1> QED
  BY <1>1, <1>2, <1>3, <1>4
     DEF Next, Terminated, vars, Handle, Select, CheckPoll, CheckTimeouts, network, history

\* The queues have their types in every reachable state.
LEMMA QueuesInvariant == Spec => []Queues
<1>1. Init => Queues
  BY Parameters DEF Init, Queues, Placed
<1> QED
  BY <1>1, QueuesNext, ClocksInvariant, PTL DEF Spec

-----------------------------------------------------------------------------
\* Where the loop has made all of its checks, where it has not made any since
\* it waited, where it has made that of the poll, and at an event.
Checked == at \in {"recv", "feed", "select"} \/ (at = "handler" /\ back = "poll")
Polled == at = "handler" /\ back = "ping"
Leaving == at = "handler" /\ back = "over"

-----------------------------------------------------------------------------
(* Polls *)

\* The time since the last poll, at each place of the loop.
PollInv ==
  pollStart # Never =>
    /\ Polled => now = pollStart
    /\ at = "poll" => now - pollStart < 2 * PollRate
    /\ at \in {"ping", "timeouts"} \/ Checked \/ Leaving => now - pollStart < PollRate

\* Every step keeps the time since the last poll within PollInv.
LEMMA PollNext == Clocks /\ PollInv /\ [Next]_vars => PollInv'
<1> SUFFICES ASSUME Clocks, PollInv, [Next]_vars PROVE PollInv'
    OBVIOUS
<1> USE Parameters
    DEF Clocks, PollInv, Polled, Checked, Leaving, history, network, timers, Yield
<1>1. CASE Handle
  BY <1>1 DEF Handle
<1>2. CASE Select
  BY <1>2 DEF Select
<1>3. CASE Recv
  BY <1>3 DEF Recv
<1>4. CASE FeedEvent
  BY <1>4 DEF FeedEvent
<1>5. CASE CheckPoll
  BY <1>5 DEF CheckPoll
<1>6. CASE CheckAutoPing
  BY <1>6 DEF CheckAutoPing
<1>7. CASE CheckTimeouts
  BY <1>7 DEF CheckTimeouts
<1>8. CASE UNCHANGED vars
  BY <1>8 DEF vars
<1> QED
  BY <1>1, <1>2, <1>3, <1>4, <1>5, <1>6, <1>7, <1>8 DEF Next, Terminated

\* Polls are less than two poll rates apart (session.py, _check_poll and run),
\* for any rate and any traffic, if no handler takes as long as a poll.
THEOREM Polling == Spec => []PollsKeepComing
<1>1. Init => PollInv
  BY DEF Init, PollInv
<1>2. Clocks /\ PollInv => PollsKeepComing
  BY Parameters
     DEF Clocks, PollInv, PollsKeepComing, Polled, Checked, Leaving
<1> QED
  BY <1>1, <1>2, PollNext, ClocksInvariant, PTL DEF Spec

-----------------------------------------------------------------------------
(* The close timeout *)

\* The time since close(), at each place of the loop.
CloseInv ==
  CloseTimeout > 0 /\ Closing =>
    /\ Checked => now - sentClose < CloseTimeout
    /\ at = "poll" \/ Polled => now - sentClose < CloseTimeout + PollRate
    /\ at \in {"ping", "timeouts"} \/ Leaving =>
         now - sentClose < CloseTimeout + PollRate + HandlerMax

\* Two times in an interval of length h are at most h apart.
LEMMA Within ==
  ASSUME NEW t \in Nat, NEW u \in Nat, NEW c \in Nat, NEW h \in Nat,
         t <= c, u <= t + h
  PROVE  u - c <= h
OBVIOUS

\* A close() made while an event is handled is not older than the handler.
LEMMA CloseInHandler ==
  ASSUME Clocks, Handle, ~UNCHANGED sentClose
  PROVE  sentClose' \in Nat /\ now' \in Nat /\ now' - sentClose' <= HandlerMax
<1>1. PICK d \in 0..HandlerMax : now' = now + d
  BY DEF Handle
<1>2. now \in Nat /\ d \in Nat /\ d <= HandlerMax /\ HandlerMax \in Nat
  BY Parameters DEF Clocks
<1>3. sentClose' \in now..now'
  BY DEF Handle
<1>4. now' \in Nat /\ now' <= now + HandlerMax
  BY <1>1, <1>2
<1>5. sentClose' \in Nat /\ now <= sentClose'
  BY <1>2, <1>3, <1>4
<1>6. now' - sentClose' <= HandlerMax
  BY <1>2, <1>4, <1>5, Within
<1> QED
  BY <1>4, <1>5, <1>6

\* What is no older than a handler is within every bound of CloseInv.
LEMMA CloseIsRecent ==
  ASSUME NEW a \in Int, a <= HandlerMax, CloseTimeout > 0
  PROVE  a < CloseTimeout + PollRate /\ a < CloseTimeout + PollRate + HandlerMax
BY Parameters

\* Every step keeps the time since close() within CloseInv.
LEMMA CloseNext == Clocks /\ CloseInv /\ [Next]_vars => CloseInv'
<1> SUFFICES ASSUME Clocks, CloseInv, [Next]_vars PROVE CloseInv'
    OBVIOUS
<1> USE Parameters
    DEF Clocks, CloseInv, Polled, Checked, Leaving, Closing, Never, history, network, timers, Yield
<1>1. CASE Handle
  <2>1. PICK d \in 0..HandlerMax : now' = now + d
    BY <1>1 DEF Handle
  <2>2. CASE UNCHANGED sentClose
    BY <1>1, <2>1, <2>2 DEF Handle
  <2>3. CASE ~UNCHANGED sentClose
    <3>1. sentClose' \in Nat /\ now' \in Nat /\ now' - sentClose' <= HandlerMax
      BY <1>1, <2>3, CloseInHandler
    <3>2. at' \in {"poll", "ping", "over"}
      BY <1>1 DEF Handle
    <3>3. now' - sentClose' \in Int
      BY <3>1
    <3>4. ASSUME CloseTimeout > 0
          PROVE  /\ now' - sentClose' < CloseTimeout + PollRate
                 /\ now' - sentClose' < CloseTimeout + PollRate + HandlerMax
      BY <3>1, <3>3, <3>4, CloseIsRecent
    <3> QED
      BY <3>2, <3>3, <3>4
  <2> QED
    BY <2>2, <2>3
<1>2. CASE Select
  BY <1>2 DEF Select
<1>3. CASE Recv
  BY <1>3 DEF Recv
<1>4. CASE FeedEvent
  BY <1>4 DEF FeedEvent
<1>5. CASE CheckPoll
  BY <1>5 DEF CheckPoll
<1>6. CASE CheckAutoPing
  BY <1>6 DEF CheckAutoPing
<1>7. CASE CheckTimeouts
  BY <1>7 DEF CheckTimeouts, CloseIsLate
<1>8. CASE UNCHANGED vars
  BY <1>8 DEF vars
<1> QED
  BY <1>1, <1>2, <1>3, <1>4, <1>5, <1>6, <1>7, <1>8 DEF Next, Terminated

\* The close timeout bounds the loop (session.py, _check_close_timeout): no
\* iteration goes on for more than a poll and a handler beyond it.
THEOREM Closes == Spec => []CloseIsBounded
<1>1. Init => CloseInv
  BY DEF Init, CloseInv, Checked, Polled, Leaving, Closing
<1>2. Clocks /\ CloseInv => CloseIsBounded
  BY Parameters
     DEF Clocks, CloseInv, CloseIsBounded, Polled, Checked, Leaving, Closing, Never
<1> QED
  BY <1>1, <1>2, CloseNext, ClocksInvariant, PTL DEF Spec

-----------------------------------------------------------------------------
(* The ping timeout *)

\* The time since the last pong, at each place of the loop.
SilenceInv ==
  /\ event = "unresponsive" => Leaving \/ at = "over"
  /\ PingTimeout > 0 /\ event # "unresponsive" =>
       /\ Checked => now - lastPong <= PingTimeout
       /\ at = "poll" \/ Polled => now - lastPong <= PingTimeout + PollRate
       /\ at \in {"ping", "timeouts"} \/ Leaving =>
            now - lastPong <= PingTimeout + PollRate + HandlerMax

\* Every step keeps the time since the last pong within SilenceInv.
LEMMA SilenceNext == Clocks /\ Queues /\ SilenceInv /\ [Next]_vars => SilenceInv'
<1> SUFFICES ASSUME Clocks, Queues, SilenceInv, [Next]_vars PROVE SilenceInv'
    OBVIOUS
<1> USE Parameters
    DEF Clocks, SilenceInv, Polled, Checked, Leaving, history, network, timers, Yield
<1>1. CASE Handle
  BY <1>1 DEF Handle
<1>2. CASE Select
  BY <1>2 DEF Select
<1>3. CASE Recv
  BY <1>3 DEF Recv
<1>4. CASE FeedEvent
  <2>1. at = "feed" /\ UNCHANGED now
    BY <1>4 DEF FeedEvent
  <2>2. \/ at' = "select" /\ UNCHANGED <<event, lastPong>>
        \/ /\ at' = "handler" /\ back' = "poll" /\ event' # "unresponsive"
           /\ lastPong' \in {now, lastPong}
    BY <1>4 DEF FeedEvent, Queues
  <2> QED
    BY <2>1, <2>2
<1>5. CASE CheckPoll
  BY <1>5 DEF CheckPoll
<1>6. CASE CheckAutoPing
  BY <1>6 DEF CheckAutoPing
<1>7. CASE CheckTimeouts
  BY <1>7 DEF CheckTimeouts, PongIsLate
<1>8. CASE UNCHANGED vars
  BY <1>8 DEF vars
<1> QED
  BY <1>1, <1>2, <1>3, <1>4, <1>5, <1>6, <1>7, <1>8 DEF Next, Terminated

\* A server that falls silent is given up (session.py, _check_ping_timeout),
\* at the latest a poll and a handler after the timeout.
THEOREM GivesUp == Spec => []SilenceIsNoticed
<1>1. Init => SilenceInv
  BY Parameters DEF Init, SilenceInv, Checked, Polled, Leaving
<1>2. Clocks /\ SilenceInv => SilenceIsNoticed
  BY Parameters
     DEF Clocks, SilenceInv, SilenceIsNoticed, Polled, Checked, Leaving
<1> QED
  BY <1>1, <1>2, SilenceNext, ClocksInvariant, QueuesInvariant, PTL DEF Spec

-----------------------------------------------------------------------------
(* Automatic pings *)

\* The time of the last ping, and of the next, at each place of the loop.
PromptInv ==
  PingRate > 0 /\ ~Closing =>
    /\ nextPing < LastPing + PingRate
    /\ at = "timeouts" \/ Checked \/ Leaving => now <= nextPing
    /\ at = "poll" \/ Polled => now <= nextPing + PollRate
    /\ at = "ping" => now <= nextPing + PollRate + HandlerMax

\* The last ping was sent at a time, also if there was none.
LEMMA LastPingIsATime ==
  ASSUME Queues
  PROVE  LastPing \in Nat
BY DEF LastPing, Last, Queues

\* The ping just sent is the last one, and the next is a period away.
LEMMA PromptPing ==
  ASSUME Clocks, Queues, CheckAutoPing, PingRate > 0, ~Closing, now > nextPing
  PROVE  now <= nextPing' /\ nextPing' < LastPing' + PingRate
<1>1. now \in Nat /\ pings \in Seq(Nat)
  BY DEF Clocks, Queues
<1>2. nextPing' = NextPing(now) /\ pings' = Append(pings, now)
  BY <1>1, Parameters DEF CheckAutoPing, Clocks
<1>3. LastPing' = now
  BY <1>1, <1>2 DEF LastPing, Last
<1> QED
  BY <1>2, <1>3, NextPingIsATime

\* Every step keeps the next ping where PromptInv wants it.
LEMMA PromptNext == Clocks /\ Queues /\ PromptInv /\ [Next]_vars => PromptInv'
<1> SUFFICES ASSUME Clocks, Queues, PromptInv, [Next]_vars, PingRate > 0, ~Closing'
             PROVE  PromptInv'
    BY DEF PromptInv
<1>0. LastPing \in Nat
  BY LastPingIsATime
<1> USE Parameters
    DEF Clocks, PromptInv, Polled, Checked, Leaving, Closing, Never, history, network, timers,
        Yield
<1>a. ASSUME UNCHANGED pings PROVE LastPing' = LastPing
  BY <1>a DEF LastPing, Last
<1>1. CASE Handle
  <2>1. LastPing' = LastPing
    BY <1>1, <1>a DEF Handle
  <2>2. ~Closing
    BY <1>1 DEF Handle
  <2> QED
    BY <1>0, <1>1, <2>1, <2>2 DEF Handle
<1>2. CASE Select
  <2>1. LastPing' = LastPing
    BY <1>2, <1>a DEF Select
  <2> QED
    BY <1>0, <1>2, <2>1 DEF Select
<1>3. CASE Recv
  <2>1. LastPing' = LastPing
    BY <1>3, <1>a DEF Recv
  <2> QED
    BY <1>0, <1>3, <2>1 DEF Recv
<1>4. CASE FeedEvent
  <2>1. LastPing' = LastPing
    BY <1>4, <1>a DEF FeedEvent
  <2> QED
    BY <1>0, <1>4, <2>1 DEF FeedEvent
<1>5. CASE CheckPoll
  <2>1. LastPing' = LastPing
    BY <1>5, <1>a DEF CheckPoll
  <2> QED
    BY <1>0, <1>5, <2>1 DEF CheckPoll
<1>6. CASE CheckAutoPing
  <2>1. CASE now > nextPing
    <3>1. ~Closing
      BY <1>6 DEF CheckAutoPing
    <3>2. now <= nextPing' /\ nextPing' < LastPing' + PingRate
      BY <1>6, <2>1, <3>1, PromptPing
    <3> QED
      BY <1>6, <3>2 DEF CheckAutoPing
  <2>2. CASE now <= nextPing
    <3>1. LastPing' = LastPing
      BY <1>6, <1>a, <2>2 DEF CheckAutoPing
    <3> QED
      BY <1>0, <1>6, <2>2, <3>1 DEF CheckAutoPing
  <2> QED
    BY <2>1, <2>2
<1>7. CASE CheckTimeouts
  <2>1. LastPing' = LastPing
    BY <1>7, <1>a DEF CheckTimeouts
  <2> QED
    BY <1>0, <1>7, <2>1 DEF CheckTimeouts
<1>8. CASE UNCHANGED vars
  <2>1. LastPing' = LastPing
    BY <1>8, <1>a DEF vars
  <2> QED
    BY <1>0, <1>8, <2>1 DEF vars
<1> QED
  BY <1>1, <1>2, <1>3, <1>4, <1>5, <1>6, <1>7, <1>8 DEF Next, Terminated

\* A server never waits much longer than a period for a ping (session.py,
\* _check_auto_ping): at worst a poll and a handler longer.
THEOREM Prompt == Spec => []PingsPrompt
<1>1. Init => PromptInv
  BY Parameters
     DEF Init, PromptInv, Checked, Polled, Leaving, LastPing
<1>2. Clocks /\ Queues /\ PromptInv => PingsPrompt
  <2> SUFFICES ASSUME Clocks, Queues, PromptInv PROVE PingsPrompt
      OBVIOUS
  <2>1. LastPing \in Nat
    BY LastPingIsATime
  <2>2. ASSUME at # "over", PingRate > 0, ~Closing
        PROVE  now <= nextPing + PollRate + HandlerMax
    BY <2>2, Parameters DEF Clocks, PromptInv, Polled, Checked, Leaving
  <2>3. ASSUME PingRate > 0, ~Closing
        PROVE  nextPing < LastPing + PingRate
    BY <2>3 DEF PromptInv
  <2> QED
    BY <2>1, <2>2, <2>3, Parameters DEF Clocks, PingsPrompt
<1> QED
  BY <1>1, <1>2, PromptNext, ClocksInvariant, QueuesInvariant, PTL DEF Spec

\* The periods of the pings sent are over when the next ping is due.
PacedInv ==
  /\ PingRate = 0 => pings = <<>>
  /\ \A i \in DOMAIN pings : Period(pings[i]) * PingRate <= nextPing
  /\ PingsPaced

\* Periods are numbered, and a time past the end of one is in a later one.
LEMMA PeriodIsNat ==
  ASSUME PingRate > 0, NEW t \in Nat
  PROVE  /\ Period(t) \in Nat
         /\ \A k \in Nat : t > k * PingRate => Period(t) > k
<1>1. PingRate \in Nat \ {0}
  BY Parameters
<1>2. (t + PingRate - 1) \div PingRate \in Nat
  BY <1>1, PeriodEnds
<1>3. ASSUME NEW k \in Nat, t > k * PingRate
      PROVE  (t + PingRate - 1) \div PingRate > k
  BY <1>1, <1>3, PeriodBegins
<1> QED
  BY <1>2, <1>3 DEF Period

\* A new ping belongs to a later period than every one before it.
LEMMA PacedPing ==
  ASSUME Clocks, Queues, PacedInv, PingRate > 0, now > nextPing,
         nextPing' = NextPing(now), pings' = Append(pings, now)
  PROVE  PacedInv'
<1>1. /\ now \in Nat /\ pings \in Seq(Nat) /\ nextPing \in Nat
      /\ PingRate \in Nat \ {0}
  BY Parameters DEF Clocks, Queues
<1>2. NextPing(now) = Period(now) * PingRate
  BY DEF NextPing, Period
<1>3. now <= nextPing' /\ nextPing' \in Nat
  BY NextPingIsATime
<1>4. /\ DOMAIN pings' = 1..(Len(pings) + 1)
      /\ pings'[Len(pings) + 1] = now
      /\ \A i \in DOMAIN pings : pings'[i] = pings[i]
      /\ DOMAIN pings = 1..Len(pings) /\ Len(pings) \in Nat
  BY <1>1
<1>5. ASSUME NEW i \in DOMAIN pings
      PROVE  /\ Period(pings[i]) * PingRate <= nextPing'
             /\ Period(pings[i]) < Period(now)
  <2>1. pings[i] \in Nat
    BY <1>1, <1>5
  <2>2. Period(pings[i]) \in Nat
    BY <2>1, PeriodIsNat
  <2>3. Period(pings[i]) * PingRate <= nextPing
    BY <1>5 DEF PacedInv
  <2>4. Period(pings[i]) * PingRate \in Nat
    BY <1>1, <2>2
  <2>5. now > Period(pings[i]) * PingRate
    BY <1>1, <2>3, <2>4
  <2>6. Period(now) > Period(pings[i])
    BY <1>1, <2>2, <2>5, PeriodIsNat
  <2>7. Period(now) \in Nat
    BY <1>1, PeriodIsNat
  <2>8. Period(pings[i]) * PingRate <= nextPing'
    BY <1>1, <1>3, <2>4, <2>5
  <2> QED
    BY <2>2, <2>6, <2>7, <2>8
<1>6. ASSUME NEW i \in DOMAIN pings'
      PROVE  Period(pings'[i]) * PingRate <= nextPing'
  <2>1. CASE i \in DOMAIN pings
    BY <1>4, <1>5, <2>1
  <2>2. CASE i = Len(pings) + 1
    <3>1. Period(now) * PingRate \in Nat
      BY <1>2, <1>3
    <3> QED
      BY <1>2, <1>4, <2>2, <3>1
  <2> QED
    BY <1>4, <2>1, <2>2
<1>7. ASSUME NEW i \in DOMAIN pings', NEW j \in DOMAIN pings', i < j
      PROVE  Period(pings'[i]) < Period(pings'[j])
  <2>1. i \in DOMAIN pings
    BY <1>4, <1>7
  <2>2. CASE j \in DOMAIN pings
    BY <1>4, <1>7, <2>1, <2>2 DEF PacedInv, PingsPaced
  <2>3. CASE j = Len(pings) + 1
    BY <1>4, <1>5, <2>1, <2>3
  <2> QED
    BY <1>4, <2>2, <2>3
<1>8. PingsPaced'
  BY <1>7 DEF PingsPaced, Period
<1>9. \A i \in DOMAIN pings' : Period(pings'[i]) * PingRate <= nextPing'
  BY <1>6
<1>10. ~(PingRate = 0)
  BY <1>1
<1> QED
  BY <1>8, <1>9, <1>10 DEF PacedInv, Period

\* Every step keeps the pings in different periods.
LEMMA PacedNext == Clocks /\ Queues /\ PacedInv /\ [Next]_vars => PacedInv'
<1> SUFFICES ASSUME Clocks, Queues, PacedInv, [Next]_vars PROVE PacedInv'
    OBVIOUS
<1>1. CASE UNCHANGED <<pings, nextPing>>
  BY <1>1 DEF PacedInv, PingsPaced, Period
<1>2. CASE CheckAutoPing
  <2>1. CASE PingRate > 0 /\ now > nextPing
    <3>1. nextPing' = NextPing(now) /\ (pings' = pings \/ pings' = Append(pings, now))
      BY <1>2, <2>1, Parameters DEF CheckAutoPing, Clocks
    <3>2. CASE pings' = Append(pings, now)
      BY <2>1, <3>1, <3>2, PacedPing
    <3>3. CASE pings' = pings
      <4>1. nextPing < nextPing' /\ {nextPing, nextPing', PingRate} \subseteq Nat
        BY <2>1, <3>1, NextPingIsATime, Parameters DEF Clocks
      <4>2. ASSUME NEW i \in DOMAIN pings
            PROVE  Period(pings[i]) * PingRate <= nextPing'
        <5>1. Period(pings[i]) \in Nat
          <6>1. pings[i] \in Nat
            BY <4>2 DEF Queues
          <6> QED
            BY <2>1, <6>1, PeriodIsNat
        <5>2. Period(pings[i]) * PingRate \in Nat
          BY <4>1, <5>1
        <5> QED
          BY <4>1, <4>2, <5>2 DEF PacedInv
      <4> QED
        BY <3>3, <4>2 DEF PacedInv, PingsPaced, Period
    <3> QED
      BY <3>1, <3>2, <3>3
  <2>2. CASE ~(PingRate > 0 /\ now > nextPing)
    BY <1>1, <1>2, <2>2 DEF CheckAutoPing
  <2> QED
    BY <2>1, <2>2
<1> QED
  BY <1>1, <1>2 DEF Next, Terminated, vars, Handle, Select, Recv, FeedEvent, CheckPoll,
     CheckTimeouts, timers, history

\* At most one automatic ping in a period (session.py, _check_auto_ping), for
\* any ping rate and however often and irregularly the loop runs.
THEOREM Paced == Spec => []PingsPaced
<1>1. Init => PacedInv
  BY DEF Init, PacedInv, PingsPaced
<1>2. PacedInv => PingsPaced
  BY DEF PacedInv
<1> QED
  BY <1>1, <1>2, PacedNext, ClocksInvariant, QueuesInvariant, PTL DEF Spec

-----------------------------------------------------------------------------
(* Pongs under way *)

\* Pongs are received in the order of their pings, and none is made up: the next
\* one belongs to ping heard + 1, and waits or is under way if it was answered.
AccountInv ==
  /\ lastPong <= now
  /\ heard \in 0..Len(pings)
  /\ at = "recv" => resume = "recv"
  /\ at = "select" \/ (resume = "recv" /\ at # "feed") => buf = 0
  /\ heard + Len(ahead) + Len(pongs) <= Len(pings)
  /\ \A i \in DOMAIN pings : pings[i] <= now
  /\ heard > 0 => pings[heard] <= lastPong
  /\ responsive =>
       /\ heard + Len(ahead) + Len(pongs) = Len(pings)
       /\ \A i \in DOMAIN pongs : pongs[i] <= pings[heard + Len(ahead) + i] + AnswerMax

\* What the lengths are.
LEMMA Lengths ==
  ASSUME Queues
  PROVE  /\ Len(ahead) \in Nat /\ Len(pongs) \in Nat /\ Len(pings) \in Nat
         /\ DOMAIN ahead = 1..Len(ahead) /\ DOMAIN pongs = 1..Len(pongs)
         /\ DOMAIN pings = 1..Len(pings)
         /\ buf \in Nat
BY DEF Queues, Placed

\* Nothing has arrived when none of the pongs is due.
LEMMA NoneArrived ==
  ASSUME Queues, Clocks, Arrived = 0
  PROVE  \A i \in DOMAIN pongs : pongs[i] > now
<1> DEFINE S == {i \in DOMAIN pongs : pongs[i] <= now}
<1>1. DOMAIN pongs = 1..Len(pongs) /\ Len(pongs) \in Nat
  BY Lengths
<1>2. IsFiniteSet(1..Len(pongs))
  <2>1. 1 \in Int /\ Len(pongs) \in Int
    BY <1>1
  <2> QED
    BY <2>1, FS_Interval
<1>3. IsFiniteSet(S)
  <2> HIDE DEF S
  <2>1. S \in SUBSET (1..Len(pongs))
    BY <1>1 DEF S
  <2> QED
    BY <1>2, <2>1, FS_Subset
<1>4. Cardinality(S) = 0
  BY DEF Arrived
<1>5. S = {}
  <2> HIDE DEF S
  <2> QED
    BY <1>3, <1>4, FS_EmptySet
<1>6. \A i \in DOMAIN pongs : pongs[i] \in Nat /\ now \in Nat
  BY DEF Queues, Clocks
<1> QED
  BY <1>5, <1>6

\* Every step keeps the account of the pongs.
LEMMA AccountNext == Clocks /\ Queues /\ AccountInv /\ [Next]_vars => AccountInv'
<1> SUFFICES ASSUME Clocks, Queues, AccountInv, [Next]_vars PROVE AccountInv'
    OBVIOUS
<1>0. now \in Nat /\ lastPong \in Nat /\ pings \in Seq(Nat) /\ pongs \in Seq(Nat)
  BY DEF Clocks, Queues
<1>b. /\ heard \in Nat /\ Len(ahead) \in Nat /\ Len(pongs) \in Nat /\ Len(pings) \in Nat
      /\ heard <= Len(pings) /\ heard + Len(ahead) + Len(pongs) <= Len(pings)
  <2>1. heard \in 0..Len(pings) /\ heard + Len(ahead) + Len(pongs) <= Len(pings)
    BY DEF AccountInv
  <2> QED
    BY <2>1, Lengths
<1>a. ASSUME UNCHANGED <<buf, ahead, pongs, pings, heard, lastPong, responsive>>,
             now' \in Nat, now <= now',
             at' = "recv" => resume' = "recv",
             at' = "select" \/ (resume' = "recv" /\ at' # "feed") => buf = 0
      PROVE  AccountInv'
  <2>2. \A i \in DOMAIN pings : pings[i] \in Nat
    BY <1>0
  <2> QED
    BY <1>0, <1>a, <2>2 DEF AccountInv
<1>1. CASE Handle
  <2>1. now' \in Nat /\ now <= now'
    BY <1>0, <1>1, Parameters DEF Handle
  <2>2. at' \in {"poll", "ping", "over"}
    BY <1>1 DEF Handle, Clocks
  <2> QED
    BY <1>1, <1>a, <2>1, <2>2 DEF Handle, network, history, AccountInv
<1>2. CASE Select
  <2>1. now' \in Nat /\ now <= now'
    BY <1>0, <1>2, Parameters DEF Select
  <2> QED
    BY <1>2, <1>a, <2>1 DEF Select, timers, history, AccountInv
<1>3. CASE Recv
  <2>1. CASE readable
    <3>1. /\ Arrived \in 0..Len(pongs)
          /\ Len(ahead') = Len(ahead) + Arrived
          /\ Len(pongs') = Len(pongs) - Arrived
          /\ \A i \in 1..Len(pongs') : pongs'[i] = pongs[Arrived + i]
      BY <1>3, <2>1, RecvMoves
    <3>2. at' = "feed" /\ UNCHANGED <<now, lastPong, pings, heard, responsive>>
      BY <1>3, <2>1 DEF Recv, timers, history
    <3>4. DOMAIN pongs' = 1..Len(pongs') /\ DOMAIN pongs = 1..Len(pongs) /\ Len(pongs) \in Nat
      BY QueuesNext, Lengths DEF Queues
    <3>5. ASSUME responsive, NEW i \in DOMAIN pongs'
          PROVE  pongs'[i] <= pings[heard + Len(ahead') + i] + AnswerMax
      <4>1. Arrived + i \in DOMAIN pongs /\ pongs'[i] = pongs[Arrived + i]
        BY <3>1, <3>4
      <4>2. heard + Len(ahead) + (Arrived + i) = heard + Len(ahead') + i
        BY <1>b, <3>1, <3>4 DEF AccountInv
      <4>3. pongs[Arrived + i] <= pings[heard + Len(ahead) + (Arrived + i)] + AnswerMax
        BY <3>5, <4>1 DEF AccountInv
      <4> QED
        BY <4>1, <4>2, <4>3
    <3>6. heard + Len(ahead') + Len(pongs') = heard + Len(ahead) + Len(pongs)
      BY <1>b, <3>1
    <3> QED
      BY <3>1, <3>2, <3>5, <3>6 DEF AccountInv
  <2>2. CASE ~readable
    BY <1>0, <1>3, <1>a, <2>2 DEF Recv, timers, history, AccountInv
  <2> QED
    BY <2>1, <2>2
<1>4. CASE FeedEvent
  <2>1. CASE buf = 0
    BY <1>0, <1>4, <1>a, <2>1 DEF FeedEvent
  <2>2. CASE buf > 0
    <3>1. /\ at' = "handler" /\ resume' = "feed"
          /\ UNCHANGED <<now, pongs, pings, responsive>>
      BY <1>4, <2>2 DEF FeedEvent, Yield
    <3>2. CASE PongIsNext
      <4>1. lastPong' = now /\ heard' = heard + 1
        BY <1>4, <2>2, <3>2 DEF FeedEvent
      <4>2. Len(ahead) > 0 /\ Len(ahead') = Len(ahead) - 1
        BY <1>4, <1>b, <2>2, <3>2, FeedMoves DEF Queues, Placed
      <4>3. /\ heard' + Len(ahead') = heard + Len(ahead)
            /\ heard' \in 0..Len(pings) /\ heard' > 0
        BY <1>b, <4>1, <4>2
      <4>4. pings[heard'] <= now
        <5>1. heard' \in DOMAIN pings
          BY <1>b, <4>3, Lengths
        <5> QED
          BY <5>1 DEF AccountInv
      <4> QED
        BY <1>0, <3>1, <4>1, <4>3, <4>4 DEF AccountInv
    <3>3. CASE ~PongIsNext
      <4>1. UNCHANGED <<lastPong, heard>> /\ Len(ahead') = Len(ahead)
        BY <1>4, <2>2, <3>3, FeedMoves DEF FeedEvent
      <4> QED
        BY <3>1, <4>1 DEF AccountInv
    <3> QED
      BY <3>2, <3>3
  <2> QED
    BY <2>1, <2>2, Lengths
<1>5. CASE CheckPoll
  BY <1>0, <1>5, <1>a DEF CheckPoll, Yield, network, AccountInv
<1>6. CASE CheckAutoPing
  <2>1. CASE UNCHANGED <<pings, pongs>>
    BY <1>0, <1>6, <1>a, <2>1 DEF CheckAutoPing, AccountInv
  <2>2. CASE ~UNCHANGED <<pings, pongs>>
    <3>1. /\ pings' = Append(pings, now)
          /\ Answer \/ (~responsive /\ UNCHANGED pongs)
          /\ UNCHANGED <<now, buf, ahead, heard, lastPong, responsive, resume>>
          /\ at = "ping" /\ at' = "timeouts"
      BY <1>6, <2>2 DEF CheckAutoPing
    <3>2. Len(ahead') = Len(ahead) /\ Len(ahead) \in Nat
      BY <3>1, Lengths
    <3>3. /\ Len(pings') = Len(pings) + 1 /\ pings'[Len(pings) + 1] = now
          /\ DOMAIN pings' = 1..(Len(pings) + 1) /\ Len(pings) \in Nat
          /\ \A i \in 1..Len(pings) : pings'[i] = pings[i]
      BY <1>0, <3>1
    <3>4. \A i \in DOMAIN pings' : pings'[i] <= now
      <4>1. now \in Nat /\ DOMAIN pings = 1..Len(pings)
        BY <1>0
      <4>2. \A i \in 1..Len(pings) : pings[i] <= now
        BY <4>1 DEF AccountInv
      <4>3. ASSUME NEW i \in 1..(Len(pings) + 1)
            PROVE  pings'[i] <= now
        <5>1. CASE i = Len(pings) + 1
          BY <5>1, <3>3, <4>1
        <5>2. CASE i # Len(pings) + 1
          <6>1. i \in 1..Len(pings)
            BY <5>2, <3>3
          <6> QED
            BY <6>1, <3>3, <4>2
        <5> QED
          BY <5>1, <5>2
      <4> QED
        BY <3>3, <4>3
    <3>5. heard \in 0..Len(pings) /\ heard \in 0..Len(pings') /\ (heard > 0 => pings'[heard] <= lastPong)
      BY <3>3 DEF AccountInv
    <3>6. CASE Answer
      <4>1. PICK d \in 0..AnswerMax : pongs' = Append(pongs, now + d)
        BY <3>6 DEF Answer
      <4>2. /\ Len(pongs') = Len(pongs) + 1 /\ pongs'[Len(pongs) + 1] = now + d
            /\ DOMAIN pongs' = 1..(Len(pongs) + 1) /\ Len(pongs) \in Nat
            /\ \A i \in 1..Len(pongs) : pongs'[i] = pongs[i]
        BY <1>0, <4>1
      <4>3. heard + Len(ahead) + Len(pongs') <= Len(pings')
        BY <3>2, <3>3, <3>5, <4>2 DEF AccountInv
      <4>4. ASSUME responsive
            PROVE  /\ heard + Len(ahead) + Len(pongs') = Len(pings')
                   /\ \A i \in DOMAIN pongs' : pongs'[i] <= pings'[heard + Len(ahead) + i] + AnswerMax
        <5>1. heard + Len(ahead) + Len(pongs) = Len(pings)
          BY <4>4 DEF AccountInv
        <5>2. heard + Len(ahead) + Len(pongs') = Len(pings')
          BY <3>2, <3>3, <3>5, <4>2, <5>1
        <5>3. ASSUME NEW i \in 1..Len(pongs) PROVE pongs'[i] <= pings'[heard + Len(ahead) + i] + AnswerMax
          <6>1. heard + Len(ahead) + i \in 1..Len(pings)
            BY <3>2, <3>5, <4>2, <5>1
          <6>2. pongs[i] <= pings[heard + Len(ahead) + i] + AnswerMax
            BY <4>4, Lengths DEF AccountInv
          <6> QED
            BY <3>3, <4>2, <6>1, <6>2
        <5>4. pongs'[Len(pongs) + 1] <= pings'[heard + Len(ahead) + (Len(pongs) + 1)] + AnswerMax
          <6>1. heard + Len(ahead) + (Len(pongs) + 1) = Len(pings) + 1
            BY <3>2, <3>5, <4>2, <5>1
          <6>2. now + d <= now + AnswerMax
            BY <1>0, Parameters
          <6> QED
            BY <3>3, <4>2, <6>1, <6>2
        <5>5. ASSUME NEW i \in DOMAIN pongs' PROVE i \in 1..Len(pongs) \/ i = Len(pongs) + 1
          BY <4>2
        <5> QED
          BY <5>2, <5>3, <5>4, <5>5
      <4> QED
        BY <3>1, <3>2, <3>4, <3>5, <4>3, <4>4 DEF AccountInv
    <3>7. CASE ~responsive /\ UNCHANGED pongs
      <4>1. heard + Len(ahead) + Len(pongs) <= Len(pings')
        BY <1>b, <3>2, <3>3
      <4> QED
        BY <3>1, <3>2, <3>4, <3>5, <3>7, <4>1 DEF AccountInv
    <3> QED
      BY <3>1, <3>6, <3>7
  <2> QED
    BY <2>1, <2>2
<1>7. CASE CheckTimeouts
  <2>1. UNCHANGED <<buf, ahead, pongs, pings, heard, lastPong, responsive, now, resume>>
    BY <1>7 DEF CheckTimeouts, timers, network
  <2>2. at = "timeouts" /\ (at' \in {"handler", "over"} \/ at' = resume)
    BY <1>7 DEF CheckTimeouts, Yield
  <2>3. resume \in {"recv", "feed"}
    BY DEF Clocks
  <2> QED
    BY <1>0, <1>a, <2>1, <2>2, <2>3 DEF AccountInv
<1>8. CASE UNCHANGED vars
  BY <1>0, <1>8, <1>a DEF vars, AccountInv
<1> QED
  BY <1>1, <1>2, <1>3, <1>4, <1>5, <1>6, <1>7, <1>8 DEF Next, Terminated

\* The account is right in every reachable state.
LEMMA AccountInvariant == Spec => []AccountInv
<1>1. Init => AccountInv
  BY DEF Init, AccountInv
<1> QED
  BY <1>1, AccountNext, ClocksInvariant, QueuesInvariant, PTL DEF Spec

\* What is left of the type invariant.
Flags ==
  /\ sentClose # Never => sentClose <= now
  /\ readable \in BOOLEAN
  /\ event \in {"ready", "poll", "unresponsive", "pong", "text"}
  /\ responsive \in Servers

\* Every step keeps the flags.
LEMMA FlagsNext == Clocks /\ Queues /\ Flags /\ [Next]_vars => Flags'
<1> SUFFICES ASSUME Clocks, Queues, Flags, [Next]_vars PROVE Flags'
    OBVIOUS
<1> USE Parameters DEF Flags, Clocks, Never, timers, network, history, Yield
<1>1. CASE Handle
  <2>1. CASE UNCHANGED sentClose
    BY <1>1, <2>1 DEF Handle
  <2>2. CASE ~UNCHANGED sentClose
    <3>1. now' \in Nat /\ sentClose' \in now..now'
      BY <1>1, <2>2 DEF Handle
    <3> QED
      BY <1>1, <3>1 DEF Handle
  <2> QED
    BY <2>1, <2>2
<1>2. CASE Select
  <2>1. now' \in Nat /\ now <= now' /\ UNCHANGED <<sentClose, event, responsive>>
    BY <1>2 DEF Select
  <2>2. readable' \in BOOLEAN
    BY <1>2 DEF Select
  <2> QED
    BY <2>1, <2>2
<1>3. CASE Recv
  BY <1>3 DEF Recv
<1>4. CASE FeedEvent
  BY <1>4 DEF FeedEvent
<1>5. CASE CheckPoll
  BY <1>5 DEF CheckPoll
<1>6. CASE CheckAutoPing
  BY <1>6 DEF CheckAutoPing
<1>7. CASE CheckTimeouts
  BY <1>7 DEF CheckTimeouts
<1>8. CASE UNCHANGED vars
  BY <1>8 DEF vars
<1> QED
  BY <1>1, <1>2, <1>3, <1>4, <1>5, <1>6, <1>7, <1>8 DEF Next, Terminated

\* Every variable keeps its type, for any rates and timeouts: in particular no
\* pong is heard for which there was no ping.
THEOREM KeepAliveTyped == Spec => []KeepAliveTypeOK
<1>1. Init => Flags
  <2> SUFFICES ASSUME Init PROVE Flags
    OBVIOUS
  <2>1. sentClose # Never => sentClose <= now
    BY DEF Init, Never
  <2>2. readable \in BOOLEAN
    BY DEF Init
  <2>3. event = "ready" /\ responsive \in Servers
    BY DEF Init
  <2> QED
    BY <2>1, <2>2, <2>3 DEF Flags
<1>2. Clocks /\ Queues /\ AccountInv /\ Flags => KeepAliveTypeOK
  <2> SUFFICES ASSUME Clocks, Queues, AccountInv, Flags PROVE KeepAliveTypeOK
    OBVIOUS
  <2>1. lastPong \in 0..now /\ sentClose \in (0..now) \cup {Never} /\ heard \in 0..Len(pings)
    BY DEF Clocks, AccountInv, Flags
  <2> QED
    BY <2>1 DEF Clocks, Queues, Placed, Flags, KeepAliveTypeOK
<1> QED
  BY <1>1, <1>2, FlagsNext, ClocksInvariant, QueuesInvariant, AccountInvariant, PTL DEF Spec

-----------------------------------------------------------------------------
(* The ping timeout, when the server answers *)

\* The time between two pings, or before the first.
PingGap == PingRate + PollRate + HandlerMax

Before(i) == IF i = 1 THEN 0 ELSE pings[i - 1]

GapInv == PingRate > 0 => \A i \in DOMAIN pings : pings[i] < Before(i) + PingGap

\* Every step keeps the pings apart by no more than that.
LEMMA GapNext ==
  Clocks /\ Queues /\ PromptInv /\ GapInv /\ [Next]_vars => GapInv'
<1> SUFFICES ASSUME Clocks, Queues, PromptInv, GapInv, [Next]_vars, PingRate > 0
             PROVE  \A i \in DOMAIN pings' : pings'[i] < Before(i)' + PingGap
    BY DEF GapInv, PingGap
<1>0. pings \in Seq(Nat) /\ now \in Nat
  BY DEF Clocks, Queues
<1>1. CASE UNCHANGED pings
  BY <1>1 DEF GapInv, Before
<1>2. CASE ~UNCHANGED pings
  <2>1. CheckAutoPing
    BY <1>2 DEF Next, Terminated, vars, Handle, Select, Recv, FeedEvent, CheckPoll,
                CheckTimeouts, history
  <2>2. pings' = Append(pings, now) /\ at = "ping" /\ ~Closing
    BY <1>2, <2>1 DEF CheckAutoPing
  <2>3. now <= nextPing + PollRate + HandlerMax /\ nextPing < LastPing + PingRate
    BY <2>2 DEF PromptInv
  <2>4. LastPing \in Nat /\ nextPing \in Nat
    BY LastPingIsATime DEF Clocks
  <2>5. now < LastPing + PingGap
    BY <1>0, <2>3, <2>4, Parameters DEF PingGap
  <2>6. /\ DOMAIN pings' = 1..(Len(pings) + 1) /\ Len(pings) \in Nat
        /\ pings'[Len(pings) + 1] = now
        /\ \A i \in 1..Len(pings) : pings'[i] = pings[i]
        /\ DOMAIN pings = 1..Len(pings)
    BY <1>0, <2>2
  <2>7. ASSUME NEW i \in 1..Len(pings) PROVE pings'[i] < Before(i)' + PingGap
    <3>1. Before(i)' = Before(i)
      BY <2>6 DEF Before
    <3> QED
      BY <2>6, <3>1 DEF GapInv
  <2>8. ASSUME NEW i, i = Len(pings) + 1 PROVE Before(i)' = LastPing
    <3>1. CASE pings = <<>>
      BY <2>6, <2>8, <3>1 DEF Before, LastPing
    <3>2. CASE pings # <<>>
      <4>1. i # 1 /\ i - 1 = Len(pings) /\ Len(pings) \in 1..Len(pings)
        BY <1>0, <2>6, <2>8, <3>2
      <4>2. pings'[i - 1] = pings[Len(pings)]
        BY <2>6, <4>1
      <4> QED
        BY <3>2, <4>1, <4>2 DEF Before, LastPing, Last
    <3> QED
      BY <3>1, <3>2
  <2>9. ASSUME NEW i, i = Len(pings) + 1 PROVE pings'[i] < Before(i)' + PingGap
    BY <2>5, <2>6, <2>8, <2>9
  <2>10. ASSUME NEW i \in DOMAIN pings' PROVE i \in 1..Len(pings) \/ i = Len(pings) + 1
    BY <2>6
  <2> QED
    BY <2>7, <2>9, <2>10
<1> QED
  BY <1>1, <1>2

(* How many messages are delivered before the pong the loop waits for: where it
   stands, if it has arrived; else, whatever is in hand and as much again as can
   arrive before it. *)
Ahead == IF ahead = <<>> THEN buf + Backlog ELSE ahead[1]

\* A poll may be due: it is not as long as its own handler is the last that ran.
Stale == pollStart = Never \/ now - pollStart > HandlerMax

\* What the event being handled takes, and the poll that may follow it.
Due ==
  IF at = "handler" /\ back = "poll" THEN 2 * HandlerMax
  ELSE IF Polled \/ Stale THEN HandlerMax ELSE 0

(* The time until the pong is delivered, if it is there: each message before it
   costs a handler and a poll's. *)
Delay == 2 * HandlerMax * Ahead + Due
Slowest == 2 * HandlerMax * (2 * Backlog) + 2 * HandlerMax

\* The pong will be delivered in time, counted from when it arrived at the latest or
\* from the pong before it.
OnTime ==
  \/ now + Delay <= pings[heard + 1] + AnswerMax + Slowest
  \/ now + Delay <= lastPong + Slowest

LagInv ==
  /\ Polled => pollStart = now
  /\ responsive /\ heard < Len(pings) /\ at # "over" /\ ~Leaving => OnTime

\* What more messages cost.
LEMMA Costs ==
  ASSUME NEW h \in Nat, NEW m \in Nat, NEW n \in Nat, m <= n
  PROVE  /\ 2 * h * m \in Nat /\ 2 * h * n \in Nat
         /\ 2 * h * m <= 2 * h * n
         /\ m < n => 2 * h * m + 2 * h <= 2 * h * n
<1>1. ASSUME NEW a \in Nat, NEW b \in Nat, NEW c \in Nat, b <= c
      PROVE  a * b \in Nat /\ a * b <= a * c
  BY <1>1, SMTT(30)
<1>2. 2 * h \in Nat
  OBVIOUS
<1>3. 2 * h * m \in Nat /\ 2 * h * n \in Nat /\ 2 * h * m <= 2 * h * n
  BY <1>1, <1>2
<1>4. ASSUME m < n PROVE 2 * h * m + 2 * h <= 2 * h * n
  <2>1. m + 1 \in Nat /\ m + 1 <= n
    BY <1>4
  <2>2. 2 * h * (m + 1) <= 2 * h * n
    BY <1>1, <1>2, <2>1
  <2>3. 2 * h * (m + 1) = 2 * h * m + 2 * h
    BY SMTT(30)
  <2> QED
    BY <2>2, <2>3
<1> QED
  BY <1>3, <1>4

\* How many messages can come before a pong.
LEMMA AheadBound ==
  ASSUME NEW s, Placed(s), NEW b \in Nat, b <= Backlog + Len(s), NEW a,
         a = IF s = <<>> THEN b + Backlog ELSE s[1]
  PROVE  a \in Nat /\ a <= 2 * Backlog /\ (s # <<>> => a <= Backlog)
<1>1. Backlog \in Nat
  BY Parameters
<1>2. CASE s = <<>>
  BY <1>1, <1>2
<1>3. CASE s # <<>>
  <2>1. 1 \in DOMAIN s
    BY <1>3 DEF Placed
  <2>2. s[1] \in Nat /\ s[1] < Backlog + 1
    BY <2>1 DEF Placed
  <2> QED
    BY <1>1, <1>3, <2>2
<1> QED
  BY <1>2, <1>3

\* The delay is never more than the slowest.
LEMMA DelayBound ==
  ASSUME NEW a \in Nat, a <= 2 * Backlog, NEW d \in Nat, d <= 2 * HandlerMax
  PROVE  /\ 2 * HandlerMax * a \in Nat
         /\ 2 * HandlerMax * a + d \in Nat
         /\ 2 * HandlerMax * a + d <= Slowest
         /\ Slowest \in Nat
<1>1. HandlerMax \in Nat /\ 2 * Backlog \in Nat
  BY Parameters
<1>2. /\ 2 * HandlerMax * a \in Nat
      /\ 2 * HandlerMax * (2 * Backlog) \in Nat
      /\ 2 * HandlerMax * a <= 2 * HandlerMax * (2 * Backlog)
  BY <1>1, Costs
<1> QED
  BY <1>1, <1>2 DEF Slowest

\* The pong the loop waits for, not arrived yet, was sent in time.
LEMMA PongIsDue ==
  ASSUME Queues, AccountInv, responsive, heard < Len(pings), ahead = <<>>
  PROVE  pongs # <<>> /\ pongs[1] \in Nat /\ pongs[1] <= pings[heard + 1] + AnswerMax
<1>1. /\ heard \in Nat /\ Len(pongs) \in Nat /\ Len(pings) \in Nat
      /\ DOMAIN pongs = 1..Len(pongs) /\ Len(ahead) = 0
  BY Lengths DEF AccountInv
<1>2. heard + Len(ahead) + Len(pongs) = Len(pings)
  BY DEF AccountInv
<1>3. 1 \in DOMAIN pongs
  BY <1>1, <1>2
<1>4. pongs[1] <= pings[heard + Len(ahead) + 1] + AnswerMax
  BY <1>3 DEF AccountInv
<1>5. heard + Len(ahead) + 1 = heard + 1
  BY <1>1
<1> QED
  BY <1>3, <1>4, <1>5 DEF Queues

\* The numbers that LagInv compares.
LEMMA Lags ==
  ASSUME Clocks, Queues, AccountInv
  PROVE  /\ now \in Nat /\ lastPong \in Nat /\ heard \in Nat /\ Len(pings) \in Nat
         /\ Ahead \in Nat /\ Ahead <= 2 * Backlog
         /\ Due \in Nat /\ Due <= 2 * HandlerMax
         /\ 2 * HandlerMax * Ahead \in Nat
         /\ Delay \in Nat /\ Delay <= Slowest /\ Slowest \in Nat
         /\ heard < Len(pings) => pings[heard + 1] \in Nat
         /\ heard <= Len(pings)
<1>1. heard \in Nat /\ Len(pings) \in Nat /\ heard <= Len(pings)
  <2>1. heard \in 0..Len(pings)
    BY DEF AccountInv
  <2> QED
    BY <2>1, Lengths
<1>2. now \in Nat /\ lastPong \in Nat
  BY DEF Clocks
<1>3. Ahead \in Nat /\ Ahead <= 2 * Backlog
  BY AheadBound DEF Ahead, Queues
<1>4. Due \in Nat /\ Due <= 2 * HandlerMax
  BY Parameters DEF Due
<1>5. /\ 2 * HandlerMax * Ahead \in Nat
      /\ Delay \in Nat /\ Delay <= Slowest /\ Slowest \in Nat
  BY <1>3, <1>4, DelayBound DEF Delay
<1>6. heard < Len(pings) => pings[heard + 1] \in Nat
  <2> SUFFICES ASSUME heard < Len(pings) PROVE pings[heard + 1] \in Nat
    OBVIOUS
  <2>1. heard + 1 \in 1..Len(pings)
    BY <1>1
  <2> QED
    BY <2>1 DEF Queues
<1> QED
  BY <1>1, <1>2, <1>3, <1>4, <1>5, <1>6

\* Sums of two times.
LEMMA Adds ==
  ASSUME NEW n \in Nat, NEW d \in Nat, NEW b \in Nat, NEW c \in Nat, n <= b, d <= c
  PROVE  n + d <= b + c
OBVIOUS

LEMMA NoLater ==
  ASSUME NEW n \in Nat, NEW d \in Nat, NEW m \in Nat, NEW e \in Nat,
         NEW b \in Nat, NEW c \in Nat, n + d <= m + e, m + e <= b + c
  PROVE  n + d <= b + c
OBVIOUS

LEMMA Takes ==
  ASSUME NEW n \in Nat, NEW m \in Nat, NEW p \in Nat, NEW d \in Nat, NEW e \in Nat,
         NEW h \in Nat, m <= n + h, d + h <= e
  PROVE  m + (p + d) <= n + (p + e)
OBVIOUS

\* Every step keeps the loop within that of the pong it waits for.
LEMMA LagNext ==
  Clocks /\ Queues /\ AccountInv /\ LagInv /\ [Next]_vars => LagInv'
<1> SUFFICES ASSUME Clocks, Queues, AccountInv, LagInv, [Next]_vars PROVE LagInv'
    OBVIOUS
<1>0. /\ now \in Nat /\ lastPong \in Nat /\ heard \in Nat /\ Len(pings) \in Nat
      /\ Ahead \in Nat
      /\ Delay \in Nat /\ Slowest \in Nat
      /\ heard < Len(pings) => pings[heard + 1] \in Nat
  BY Lags
<1>q. /\ Ahead' \in Nat /\ (ahead' # <<>> => Ahead' <= Backlog)
      /\ 2 * HandlerMax * Ahead' \in Nat /\ 2 * HandlerMax * Ahead \in Nat
      /\ Delay' \in Nat /\ Delay' <= Slowest
      /\ now' \in Nat
  <2>0. 2 * HandlerMax * Ahead \in Nat
    BY Lags
  <2>1. Clocks' /\ Queues'
    BY ClocksNext, QueuesNext
  <2>2. Placed(ahead') /\ buf' \in Nat /\ buf' <= Backlog + Len(ahead') /\ now' \in Nat
    BY <2>1 DEF Queues, Clocks
  <2>3. Ahead' \in Nat /\ Ahead' <= 2 * Backlog /\ (ahead' # <<>> => Ahead' <= Backlog)
    BY <2>2, AheadBound DEF Ahead
  <2>4. Due' \in Nat /\ Due' <= 2 * HandlerMax
    BY Parameters DEF Due
  <2>5. /\ 2 * HandlerMax * Ahead' \in Nat
        /\ 2 * HandlerMax * Ahead' + Due' \in Nat
        /\ 2 * HandlerMax * Ahead' + Due' <= Slowest
    BY <2>3, <2>4, DelayBound
  <2>6. Delay' = 2 * HandlerMax * Ahead' + Due'
    BY DEF Delay
  <2> QED
    BY <2>0, <2>2, <2>3, <2>5, <2>6
<1>p. /\ Ahead' \in Nat /\ Delay' \in Nat /\ Delay' <= Slowest
      /\ now' \in Nat /\ lastPong' \in Nat
  BY <1>q, ClocksNext DEF Clocks
<1>k. ASSUME heard < Len(pings), OnTime, UNCHANGED <<pings, heard, lastPong>>,
             now' + Delay' <= now + Delay
      PROVE  OnTime'
  <2>1. /\ pings[heard + 1] + AnswerMax \in Nat
        /\ pings'[heard' + 1] = pings[heard + 1]
    BY <1>0, <1>k, Parameters
  <2>2. \/ now + Delay <= pings[heard + 1] + AnswerMax + Slowest
        \/ now + Delay <= lastPong + Slowest
    BY <1>k DEF OnTime
  <2>3. /\ now \in Nat /\ Delay \in Nat /\ now' \in Nat /\ Delay' \in Nat
        /\ Slowest \in Nat /\ lastPong \in Nat /\ now' + Delay' <= now + Delay
    BY <1>0, <1>p, <1>k
  <2>4. CASE now + Delay <= pings[heard + 1] + AnswerMax + Slowest
    <3>1. ASSUME NEW b \in Nat, now + Delay <= b + Slowest
          PROVE  now' + Delay' <= b + Slowest
      BY <2>3, <3>1, NoLater
    <3>2. now' + Delay' <= pings[heard + 1] + AnswerMax + Slowest
      BY <2>1, <2>4, <3>1
    <3> QED
      BY <2>1, <3>2 DEF OnTime, Slowest
  <2>5. CASE now + Delay <= lastPong + Slowest
    <3>1. now' + Delay' <= lastPong + Slowest
      BY <2>3, <2>5, NoLater
    <3> QED
      BY <1>k, <3>1 DEF OnTime, Slowest
  <2> QED
    BY <2>2, <2>4, <2>5
<1>r. ASSUME pings'[heard' + 1] \in Nat, now' <= pings'[heard' + 1] + AnswerMax
      PROVE  OnTime'
  <2>1. now' + Delay' <= pings'[heard' + 1] + AnswerMax + Slowest
    BY <1>0, <1>p, <1>r, Parameters
  <2> QED
    BY <2>1 DEF OnTime, Slowest
<1>s. ASSUME lastPong' = now' PROVE OnTime'
  <2>1. now' + Delay' <= lastPong' + Slowest
    <3>1. now' <= lastPong'
      BY <1>p, <1>s
    <3> QED
      <4>1. /\ now' \in Nat /\ Delay' \in Nat /\ lastPong' \in Nat /\ Slowest \in Nat
            /\ Delay' <= Slowest
        BY <1>0, <1>p
      <4> QED
        BY <3>1, <4>1, Adds
  <2> QED
    BY <2>1 DEF OnTime, Slowest
<1>d. ASSUME UNCHANGED <<now, ahead, buf>>, Due' <= Due PROVE now' + Delay' <= now + Delay
  <2>1. Ahead' = Ahead /\ Due \in Nat /\ Due' \in Nat
    BY <1>d, Parameters DEF Ahead, Due
  <2> QED
    BY <1>0, <1>q, <1>d, <2>1 DEF Delay
<1>t. ASSUME Ahead' = Ahead, now' <= now + HandlerMax,
             Due' \in Nat, Due \in Nat, Due' + HandlerMax <= Due
      PROVE  now' + Delay' <= now + Delay
  <2>1. /\ 2 * HandlerMax * Ahead \in Nat /\ HandlerMax \in Nat
        /\ now \in Nat /\ now' \in Nat
    BY <1>0, <1>q, Parameters
  <2>2. ASSUME NEW p \in Nat PROVE now' + (p + Due') <= now + (p + Due)
    BY <1>t, <2>1, Takes
  <2>3. now' + (2 * HandlerMax * Ahead + Due') <= now + (2 * HandlerMax * Ahead + Due)
    BY <2>1, <2>2
  <2> QED
    BY <1>t, <2>3 DEF Delay
<1>1. CASE Handle
  <2>1. /\ at = "handler" /\ at' = back
        /\ UNCHANGED <<back, buf, ahead, pollStart, pings, heard, responsive, lastPong>>
    BY <1>1 DEF Handle, timers, network, history
  <2>2. Ahead' = Ahead /\ back \in {"poll", "ping", "over"} /\ ~Polled'
    BY <2>1 DEF Ahead, Clocks, Polled
  <2>3. now <= now' /\ now' <= now + HandlerMax
    BY <1>0, <1>1, Parameters DEF Handle
  <2>4. ASSUME back # "over" PROVE now' + Delay' <= now + Delay
    <3>1. CASE back = "poll"
      <4>1. Due = 2 * HandlerMax
        BY <2>1, <3>1 DEF Due
      <4>3. Due' \in {0, HandlerMax}
        <5>1. at' = "poll"
          BY <2>1, <3>1
        <5>2. CASE Stale'
          BY <5>1, <5>2 DEF Due
        <5>3. CASE ~Stale'
          BY <2>2, <5>1, <5>3 DEF Due
        <5> QED
          BY <5>2, <5>3
      <4>2. Due' \in Nat /\ Due \in Nat /\ Due' + HandlerMax <= Due
        <5>1. CASE Due' = 0
          BY <4>1, <5>1, Parameters
        <5>2. CASE Due' = HandlerMax
          BY <4>1, <5>2, Parameters
        <5> QED
          BY <4>3, <5>1, <5>2
      <4> QED
        BY <1>t, <2>2, <2>3, <4>2
    <3>2. CASE back = "ping"
      <4>1. Due = HandlerMax /\ pollStart = now
        BY <2>1, <3>2 DEF Due, Polled, LagInv
      <4>2. ASSUME NEW t \in Nat, t <= now + HandlerMax
            PROVE  now # -1 /\ ~(t - now > HandlerMax)
        BY <1>0, <4>2, Parameters
      <4>3. ~Stale'
        BY <1>p, <2>1, <2>3, <4>1, <4>2 DEF Stale, Never
      <4>4. Due' = 0
        BY <2>1, <2>2, <3>2, <4>3 DEF Due
      <4>5. Due' \in Nat /\ Due \in Nat /\ Due' + HandlerMax <= Due
        BY <4>1, <4>4, Parameters
      <4> QED
        BY <1>t, <2>2, <2>3, <4>5
    <3> QED
      BY <2>2, <2>4, <3>1, <3>2
  <2>5. ASSUME responsive', heard' < Len(pings'), at' # "over" PROVE OnTime'
    <3>1. OnTime
      BY <2>1, <2>5 DEF LagInv, Leaving
    <3> QED
      BY <1>k, <2>1, <2>4, <2>5, <3>1
  <2> QED
    BY <2>2, <2>5 DEF LagInv
<1>2. CASE Select
  <2>1. /\ at = "select" /\ at' = "poll"
        /\ UNCHANGED <<buf, ahead, pollStart, pings, heard, responsive, lastPong, pongs>>
    BY <1>2 DEF Select, timers, history
  <2>2. PICK d \in 0..PollRate :
          /\ d > 0 => ahead = <<>> /\ ~PongArrived(now + d - 1)
          /\ now' = now + d
    BY <1>2 DEF Select
  <2>3. ASSUME responsive, heard < Len(pings) PROVE OnTime'
    <3>1. OnTime /\ ~Polled
      BY <2>1, <2>3 DEF LagInv, Leaving, Polled
    <3>2. CASE d = 0
      <4>1. UNCHANGED <<now, ahead, buf>>
        BY <1>0, <2>1, <2>2, <3>2
      <4>2. Due' <= Due
        <5>1. Due' = Due
          BY <2>1, <4>1 DEF Due, Polled, Stale
        <5> QED
          BY <5>1, Parameters DEF Due
      <4> QED
        BY <1>d, <1>k, <2>1, <2>3, <3>1, <4>1, <4>2
    <3>3. CASE d > 0
      <4>1. pongs # <<>> /\ pongs[1] \in Nat /\ pongs[1] <= pings[heard + 1] + AnswerMax
        BY <2>2, <2>3, <3>3, PongIsDue
      <4>2. ~(pongs[1] <= now + d - 1)
        BY <2>2, <3>3, <4>1 DEF PongArrived, Queues
      <4>3. now' <= pongs[1]
        BY <1>0, <2>2, <3>3, <4>1, <4>2, Parameters
      <4>4. pings'[heard' + 1] = pings[heard + 1] /\ pings[heard + 1] \in Nat
        BY <1>0, <2>1, <2>3
      <4>5. now' <= pings[heard + 1] + AnswerMax
        BY <1>p, <4>1, <4>3, <4>4, Parameters
      <4> QED
        BY <1>r, <4>4, <4>5
    <3> QED
      BY <2>2, <3>2, <3>3, Parameters
  <2> QED
    BY <2>1, <2>3 DEF LagInv, Polled
<1>3. CASE Recv
  <2>1. /\ at = "recv" /\ at' \in {"feed", "select"}
        /\ UNCHANGED <<now, pollStart, pings, heard, responsive, lastPong>>
    BY <1>3 DEF Recv, timers, history
  <2>2. Due' = Due /\ Due \in Nat
    BY <2>1, Parameters DEF Due, Polled, Stale
  <2>3. ASSUME responsive, heard < Len(pings) PROVE OnTime'
    <3>0. OnTime
      BY <2>1, <2>3 DEF LagInv, Leaving
    <3>1. CASE ~readable
      <4>1. UNCHANGED <<ahead, buf>> /\ Due' <= Due
        BY <1>3, <2>2, <3>1 DEF Recv
      <4> QED
        BY <1>d, <1>k, <2>1, <2>3, <3>0, <4>1
    <3>2. CASE readable /\ (ahead # <<>> \/ Arrived > 0)
      <4>1. /\ Arrived \in 0..Len(pongs) /\ Len(ahead') = Len(ahead) + Arrived
            /\ Placed(ahead') /\ Len(ahead) \in Nat
            /\ ahead # <<>> => ahead' # <<>> /\ ahead'[1] = ahead[1]
        BY <1>3, <3>2, RecvMoves, Lengths
      <4>2. Ahead' <= Ahead
        <5>1. CASE ahead # <<>>
          <6>1. Ahead' = Ahead
            BY <4>1, <5>1 DEF Ahead
          <6> QED
            BY <1>0, <6>1
        <5>2. CASE ahead = <<>>
          <6>1. Ahead = buf + Backlog /\ buf \in Nat /\ Backlog \in Nat
            BY <5>2, Lengths, Parameters DEF Ahead
          <6>2. Len(ahead') > 0
            BY <3>2, <4>1, <5>2, Lengths
          <6>3. ahead' # <<>>
            BY <6>2
          <6> QED
            BY <1>q, <6>1, <6>3
        <5> QED
          BY <5>1, <5>2
      <4>3. 2 * HandlerMax * Ahead' <= 2 * HandlerMax * Ahead
        BY <1>0, <1>p, <4>2, Costs, Parameters
      <4>4. now' + Delay' <= now + Delay
        BY <1>0, <1>q, <2>1, <2>2, <4>3 DEF Delay
      <4> QED
        BY <1>k, <2>1, <2>3, <3>0, <4>4
    <3>3. CASE ahead = <<>> /\ Arrived = 0
      <4>1. pongs # <<>> /\ pongs[1] \in Nat /\ pongs[1] <= pings[heard + 1] + AnswerMax
        BY <2>3, <3>3, PongIsDue
      <4>2. pongs[1] > now
        <5>1. 1 \in DOMAIN pongs
          BY <4>1 DEF Queues
        <5> QED
          BY <3>3, <5>1, NoneArrived
      <4>3. pings'[heard' + 1] = pings[heard + 1] /\ pings[heard + 1] \in Nat
        BY <1>0, <2>1, <2>3
      <4>4. now' <= pings[heard + 1] + AnswerMax
        BY <1>0, <2>1, <4>1, <4>2, <4>3, Parameters
      <4> QED
        BY <1>r, <4>3, <4>4
    <3>4. Arrived > 0 \/ Arrived = 0
      BY ArrivedBound, Lengths
    <3> QED
      BY <3>1, <3>2, <3>3, <3>4
  <2> QED
    BY <2>1, <2>3 DEF LagInv, Polled
<1>4. CASE FeedEvent
  <2>1. at = "feed" /\ UNCHANGED <<now, pollStart, pings, responsive>>
    BY <1>4 DEF FeedEvent
  <2>2. CASE buf = 0
    <3>1. at' = "select" /\ UNCHANGED <<buf, ahead, heard, lastPong>>
      BY <1>4, <2>2 DEF FeedEvent
    <3>2. Due' <= Due
      <4>1. Due' = Due
        BY <2>1, <3>1 DEF Due, Polled, Stale
      <4> QED
        BY <4>1, Parameters DEF Due
    <3>3. ASSUME responsive, heard < Len(pings) PROVE OnTime'
      <4>1. OnTime
        BY <2>1, <3>3 DEF LagInv, Leaving
      <4> QED
        BY <1>d, <1>k, <2>1, <3>1, <3>2, <3>3, <4>1
    <3> QED
      BY <2>1, <3>1, <3>3 DEF LagInv, Polled
  <2>3. CASE buf > 0 /\ PongIsNext
    <3>1. lastPong' = now' /\ at' = "handler" /\ back' = "poll"
      BY <1>4, <2>1, <2>3 DEF FeedEvent, Yield
    <3> QED
      BY <1>s, <3>1 DEF LagInv, Polled
  <2>4. CASE buf > 0 /\ ~PongIsNext
    <3>1. /\ at' = "handler" /\ back' = "poll" /\ UNCHANGED <<heard, lastPong>>
      BY <1>4, <2>4 DEF FeedEvent, Yield
    <3>2. Ahead' < Ahead
      <4>1. /\ buf' = buf - 1 /\ buf \in Nat /\ Len(ahead') = Len(ahead)
            /\ ahead # <<>> => ahead' # <<>> /\ ahead'[1] = ahead[1] - 1
        BY <1>4, <2>4, FeedMoves, Lengths
      <4>2. CASE ahead = <<>>
        <5>1. ahead' = <<>>
          <6>1. Placed(ahead')
            BY <1>4, <2>4, FeedMoves
          <6> QED
            BY <4>1, <4>2, <6>1 DEF Placed
        <5>2. Ahead' = buf - 1 + Backlog /\ Ahead = buf + Backlog
          BY <4>1, <4>2, <5>1 DEF Ahead
        <5> QED
          BY <4>1, <5>2, Parameters
      <4>3. CASE ahead # <<>>
        <5>1. Ahead' = Ahead - 1
          BY <4>1, <4>3 DEF Ahead
        <5> QED
          BY <1>0, <5>1
      <4> QED
        BY <4>2, <4>3
    <3>3. 2 * HandlerMax * Ahead' + 2 * HandlerMax <= 2 * HandlerMax * Ahead
      <4>1. ASSUME NEW m \in Nat, NEW n \in Nat, m < n
            PROVE  2 * HandlerMax * m + 2 * HandlerMax <= 2 * HandlerMax * n
        BY <4>1, Costs, Parameters
      <4> QED
        BY <1>0, <1>p, <3>2, <4>1
    <3>4. Due' = 2 * HandlerMax /\ Due \in Nat
      BY <3>1, Parameters DEF Due
    <3>5. now' + Delay' <= now + Delay
      <4>1. ASSUME NEW p \in Nat, NEW q \in Nat, p + 2 * HandlerMax <= q
            PROVE  now + (p + 2 * HandlerMax) <= now + (q + Due)
        BY <1>0, <3>4, <4>1, Parameters
      <4>2. /\ 2 * HandlerMax * Ahead' \in Nat /\ 2 * HandlerMax * Ahead \in Nat
        BY <1>q
      <4>3. now + (2 * HandlerMax * Ahead' + 2 * HandlerMax)
              <= now + (2 * HandlerMax * Ahead + Due)
        BY <3>3, <4>1, <4>2
      <4> QED
        BY <2>1, <3>4, <4>3 DEF Delay
    <3>6. ASSUME responsive, heard < Len(pings) PROVE OnTime'
      <4>1. OnTime
        BY <2>1, <3>6 DEF LagInv, Leaving
      <4> QED
        BY <1>k, <2>1, <3>1, <3>5, <3>6, <4>1
    <3> QED
      BY <2>1, <3>1, <3>6 DEF LagInv, Polled
  <2> QED
    BY <2>2, <2>3, <2>4, Lengths
<1>5. CASE CheckPoll
  <2>1. /\ at = "poll"
        /\ UNCHANGED <<now, buf, ahead, pings, heard, responsive, lastPong>>
    BY <1>5 DEF CheckPoll, network
  <2>2. \/ /\ pollStart = Never \/ now - pollStart >= PollRate
           /\ pollStart' = now /\ at' = "handler" /\ back' = "ping"
        \/ at' = "ping" /\ UNCHANGED pollStart
    BY <1>5 DEF CheckPoll, Yield
  <2>3. Due' <= Due
    <3>1. CASE at' = "ping" /\ UNCHANGED pollStart
      <4>1. Due' = Due
        BY <2>1, <3>1 DEF Due, Polled, Stale
      <4> QED
        BY <4>1, Parameters DEF Due
    <3>2. CASE /\ pollStart = Never \/ now - pollStart >= PollRate
               /\ at' = "handler" /\ back' = "ping"
      <4>1. Stale
        BY <1>0, <3>2, Parameters DEF Stale, Clocks, Never
      <4>2. Due = HandlerMax /\ Due' = HandlerMax
        BY <2>1, <3>2, <4>1 DEF Due, Polled
      <4> QED
        BY <4>2, Parameters
    <3> QED
      BY <2>2, <3>1, <3>2
  <2>4. ASSUME responsive, heard < Len(pings) PROVE OnTime'
    <3>1. OnTime
      BY <2>1, <2>4 DEF LagInv, Leaving
    <3> QED
      BY <1>d, <1>k, <2>1, <2>3, <2>4, <3>1
  <2> QED
    BY <2>1, <2>2, <2>4 DEF LagInv, Polled
<1>6. CASE CheckAutoPing
  <2>1. /\ at = "ping" /\ at' = "timeouts"
        /\ UNCHANGED <<now, buf, ahead, pollStart, heard, responsive, lastPong>>
        /\ UNCHANGED <<pings, pongs>> \/ (pings' = Append(pings, now) /\ ~(UNCHANGED pings))
    <3>1. Append(pings, now) # pings
      BY <1>0 DEF Queues
    <3> QED
      BY <1>6, <3>1 DEF CheckAutoPing
  <2>2. Due' <= Due
    <3>1. Due' = Due
      BY <2>1 DEF Due, Polled, Stale
    <3> QED
      BY <3>1, Parameters DEF Due
  <2>3. now' + Delay' <= now + Delay
    BY <1>d, <2>1, <2>2
  <2>4. ASSUME responsive, heard < Len(pings) PROVE OnTime'
    <3>1. OnTime
      BY <2>1, <2>4 DEF LagInv, Leaving
    <3>2. heard + 1 \in 1..Len(pings)
      BY <1>0, <2>4
    <3>3. pings'[heard' + 1] = pings[heard + 1]
      BY <2>1, <3>2 DEF Queues
    <3>4. pings[heard + 1] \in Nat /\ AnswerMax \in Nat
      BY <1>0, <2>4, Parameters
    <3>5. \/ now + Delay <= pings[heard + 1] + AnswerMax + Slowest
          \/ now + Delay <= lastPong + Slowest
      BY <3>1 DEF OnTime
    <3>6. ASSUME NEW b \in Nat, now + Delay <= b + Slowest
          PROVE  now' + Delay' <= b + Slowest
      <4>1. /\ now \in Nat /\ Delay \in Nat /\ now' \in Nat /\ Delay' \in Nat
            /\ Slowest \in Nat
        BY <1>0, <1>p
      <4> QED
        BY <2>3, <3>6, <4>1, NoLater
    <3>7. pings[heard + 1] + AnswerMax \in Nat /\ lastPong \in Nat
      BY <1>0, <3>4
    <3>8. CASE now + Delay <= pings[heard + 1] + AnswerMax + Slowest
      <4>1. now' + Delay' <= pings[heard + 1] + AnswerMax + Slowest
        BY <3>6, <3>7, <3>8
      <4> QED
        BY <3>3, <4>1 DEF OnTime, Slowest
    <3>9. CASE now + Delay <= lastPong + Slowest
      <4>1. now' + Delay' <= lastPong + Slowest
        BY <3>6, <3>7, <3>9
      <4> QED
        BY <2>1, <4>1 DEF OnTime, Slowest
    <3> QED
      BY <3>5, <3>8, <3>9
  <2>5. ASSUME responsive, heard' < Len(pings'), ~(heard < Len(pings)) PROVE OnTime'
    <3>1. heard <= Len(pings)
      BY Lags
    <3>2. heard = Len(pings) /\ pings' = Append(pings, now)
      BY <1>0, <2>1, <2>5, <3>1
    <3>3. pings'[heard' + 1] = now
      BY <1>0, <2>1, <3>2 DEF Queues
    <3>4. now' <= now + AnswerMax
      BY <1>0, <2>1, Parameters
    <3> QED
      BY <1>0, <1>r, <3>3, <3>4
  <2> QED
    BY <2>1, <2>4, <2>5 DEF LagInv, Polled
<1>7. CASE CheckTimeouts
  <2>1. /\ at = "timeouts"
        /\ at' \in {"recv", "feed", "over"} \/ (at' = "handler" /\ back' = "over")
        /\ UNCHANGED <<now, buf, ahead, pollStart, pings, heard, responsive, lastPong>>
    BY <1>7 DEF CheckTimeouts, Yield, timers, network, Clocks
  <2>2. ASSUME responsive, heard < Len(pings) PROVE OnTime'
    <3>2. Due' <= Due
      <4>1. Due' = Due
        BY <2>1 DEF Due, Polled, Stale
      <4> QED
        BY <4>1, Parameters DEF Due
    <3>3. OnTime
      BY <2>1, <2>2 DEF LagInv, Leaving
    <3> QED
      BY <1>d, <1>k, <2>1, <2>2, <3>2, <3>3
  <2> QED
    BY <2>1, <2>2 DEF LagInv, Polled
<1>8. CASE UNCHANGED vars
  <2>1. UNCHANGED <<now, at, back, pollStart, buf, ahead, pings, heard, responsive, lastPong>>
    BY <1>8 DEF vars
  <2> QED
    BY <2>1 DEF LagInv, Polled, Leaving, OnTime, Delay, Due, Stale, Ahead, Slowest
<1> QED
  BY <1>1, <1>2, <1>3, <1>4, <1>5, <1>6, <1>7, <1>8 DEF Next, Terminated

LEMMA SlowestIs == Slowest + HandlerMax = (4 * Backlog + 3) * HandlerMax
<1>1. Backlog \in Nat /\ HandlerMax \in Nat
  BY Parameters
<1>2. ASSUME NEW b \in Nat, NEW h \in Nat
      PROVE  2 * h * (2 * b) + 2 * h + h = (4 * b + 3) * h
  BY SMTT(30)
<1> QED
  BY <1>1, <1>2 DEF Slowest

\* A server that answers every ping is heard in time.
LEMMA NotLate ==
  ASSUME Clocks, Queues, AccountInv, LagInv, PromptInv, GapInv, at = "timeouts", responsive,
         ~Closing, PingRate > 0,
         PingRate + PollRate + AnswerMax + (4 * Backlog + 3) * HandlerMax <= PingTimeout
  PROVE  ~PongIsLate
<1>0. /\ now \in Nat /\ lastPong \in Nat /\ heard \in Nat /\ Len(pings) \in Nat
      /\ Delay \in Nat /\ Slowest \in Nat /\ heard <= Len(pings)
  BY Lags
<1>1. heard > 0 => pings[heard] \in Nat /\ pings[heard] <= lastPong
  <2> SUFFICES ASSUME heard > 0 PROVE pings[heard] \in Nat /\ pings[heard] <= lastPong
    OBVIOUS
  <2>1. heard \in 1..Len(pings)
    BY <1>0
  <2> QED
    BY <2>1 DEF Queues, AccountInv
<1>4. PingRate + PollRate + AnswerMax + Slowest + HandlerMax <= PingTimeout
  BY <1>0, SlowestIs, Parameters
<1>2. CASE heard < Len(pings)
  <2>1. OnTime
    BY <1>2 DEF LagInv, Leaving
  <2>2. pings[heard + 1] \in Nat /\ heard + 1 \in DOMAIN pings
    <3>1. heard + 1 \in 1..Len(pings)
      BY <1>0, <1>2
    <3> QED
      BY <3>1 DEF Queues
  <2>3. pings[heard + 1] < Before(heard + 1) + PingGap
    BY <2>2 DEF GapInv
  <2>4. Before(heard + 1) \in Nat /\ Before(heard + 1) <= lastPong
    <3>1. CASE heard = 0
      BY <1>0, <3>1 DEF Before
    <3>2. CASE heard > 0
      <4>1. ASSUME NEW i, i = heard + 1 PROVE Before(i) = pings[heard]
        <5>1. i # 1 /\ i - 1 = heard
          BY <1>0, <3>2, <4>1
        <5> QED
          BY <5>1 DEF Before
      <4> QED
        BY <1>1, <3>2, <4>1
    <3> QED
      BY <1>0, <3>1, <3>2
  <2>5. CASE now + Delay <= pings[heard + 1] + AnswerMax + Slowest
    BY <1>0, <1>4, <2>2, <2>3, <2>4, <2>5, Parameters DEF PongIsLate, PingGap
  <2>6. CASE now + Delay <= lastPong + Slowest
    BY <1>0, <1>4, <2>6, Parameters DEF PongIsLate
  <2> QED
    BY <2>1, <2>5, <2>6 DEF OnTime
<1>3. CASE heard = Len(pings)
  <2>1. now <= nextPing /\ nextPing < LastPing + PingRate
    BY DEF PromptInv
  <2>2. LastPing \in Nat /\ LastPing <= lastPong
    <3>1. CASE pings = <<>>
      BY <1>0, <3>1 DEF LastPing
    <3>2. CASE pings # <<>>
      BY <1>0, <1>1, <1>3, <3>2 DEF LastPing, Last, Queues
    <3> QED
      BY <3>1, <3>2
  <2> QED
    BY <1>0, <1>4, <2>1, <2>2, Parameters DEF PongIsLate, Clocks
<1> QED
  BY <1>0, <1>2, <1>3

(* A server that answers every ping is never called unresponsive (session.py,
   _check_ping_timeout; websocket.py:225), if at most Backlog other messages wait
   when the socket is read and the timeout leaves room for a ping rate, a poll, an
   answer and the handlers of those that come before the pong.  The code bounds
   neither: recv() takes up to 64 KB of messages, each is handled and checked after
   (session.py:471-479), and the timeout is what connect() was given. *)
THEOREM HeardInTime ==
  ASSUME PingRate > 0,
         PingRate + PollRate + AnswerMax + (4 * Backlog + 3) * HandlerMax <= PingTimeout
  PROVE  Spec => []NoFalseTimeout
<1>1. Init => PromptInv /\ GapInv /\ LagInv /\ NoFalseTimeout
  <2> SUFFICES ASSUME Init PROVE PromptInv /\ GapInv /\ LagInv /\ NoFalseTimeout
    OBVIOUS
  <2>1. PromptInv
    BY Parameters DEF Init, PromptInv, Checked, Polled, Leaving, LastPing
  <2>2. GapInv /\ NoFalseTimeout
    BY DEF Init, GapInv, NoFalseTimeout
  <2>3. LagInv
    BY DEF Init, LagInv, Polled
  <2> QED
    BY <2>1, <2>2, <2>3
<1>2. /\ Clocks /\ Queues /\ AccountInv /\ LagInv /\ PromptInv /\ GapInv
      /\ NoFalseTimeout /\ [Next]_vars
      => NoFalseTimeout'
  <2> SUFFICES ASSUME Clocks, Queues, AccountInv, LagInv, PromptInv, GapInv, NoFalseTimeout,
                      [Next]_vars, responsive', event' = "unresponsive"
               PROVE  Closing'
    BY DEF NoFalseTimeout
  <2>1. UNCHANGED responsive
    BY DEF Next, Terminated, vars, Handle, Select, Recv, FeedEvent, CheckPoll, CheckAutoPing,
           CheckTimeouts, history
  <2>2. Closing => Closing'
    BY DEF Next, Terminated, vars, Handle, Select, Recv, FeedEvent, CheckPoll, CheckAutoPing,
           CheckTimeouts, timers, Closing, Never, Clocks
  <2>3. CASE event = "unresponsive"
    BY <2>1, <2>2, <2>3 DEF NoFalseTimeout
  <2>4. CASE event # "unresponsive"
    <3>1. CheckTimeouts /\ PongIsLate
      BY <2>4 DEF Next, Terminated, vars, Handle, Select, Recv, FeedEvent, CheckPoll,
         CheckAutoPing, CheckTimeouts, Yield, history
    <3>2. at = "timeouts" /\ UNCHANGED sentClose
      BY <3>1 DEF CheckTimeouts, timers
    <3> QED
      BY <2>1, <3>1, <3>2, NotLate DEF Closing
  <2> QED
    BY <2>3, <2>4
<1> QED
  BY <1>1, <1>2, GapNext, LagNext, PromptNext, AccountInvariant, ClocksInvariant,
     QueuesInvariant, PTL DEF Spec

=============================================================================
