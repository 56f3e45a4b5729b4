------------------------------ MODULE ReuseProofs ------------------------------
(***************************************************************************)
(* EndedIsQuiet for any number of users, calls and connections.            *)
(*                                                                         *)
(* A call that holds an old session may pass every test in write(): what   *)
(* stops it is the socket.  QuietInv says that the socket of a connection  *)
(* that is over is closed, and that the loop works on the last one.        *)
(***************************************************************************)
EXTENDS Reuse, TLAPS

\* The types that the steps need.
QuietType ==
  /\ state \in 0..MaxConnections
  /\ loop \in {"idle", "reset", "connect", "request", "run", "shut", "clear"}
  /\ wire \in [Connections -> Seq({"request", "data", "close"})]
  /\ socket \in [Connections -> BOOLEAN]
  /\ tcp \in [Connections -> {"none", "open", "shut"}]
  /\ ended \in [Connections -> BOOLEAN]
  /\ frame \in [Users -> {"data", "close"}]

\* A connection that is over has no open socket; one that the loop works on, or
\* that is yet to come, is not over; and it has no socket before it connects, and
\* one that is shut when the loop clears it.
QuietInv ==
  /\ QuietType
  /\ \A i \in Connections : ended[i] => tcp[i] # "open"
  /\ \A i \in Connections : i > state => ~ended[i] /\ tcp[i] = "none"
  /\ loop # "idle" => state \in Connections /\ ~ended[state]
  /\ loop \in {"reset", "connect"} => tcp[state] = "none"
  /\ loop = "clear" => tcp[state] = "shut"

LEMMA QuietInit == Init => QuietInv
BY ReuseAssumption DEF Init, QuietInv, QuietType, Connections

LEMMA QuietStep == QuietInv /\ [Next]_vars => QuietInv'
<1> SUFFICES ASSUME QuietInv, [Next]_vars PROVE QuietInv'
  OBVIOUS
<1> USE ReuseAssumption DEF QuietInv, QuietType, Connections
<1> USE DEF flagVars, sessionVars, loopVars, userVars, Put
<1>1. CASE Reset
  BY <1>1 DEF Reset
<1>2. CASE MakeSession
  BY <1>2 DEF MakeSession
<1>3. CASE Connect
  <2>0. /\ loop = "connect"
        /\ UNCHANGED <<wire, state, frame>>
    BY <1>3 DEF Connect
  <2>1. CASE /\ socket' = Put(socket, TRUE) /\ tcp' = Put(tcp, "open")
             /\ loop' = "request"
             /\ UNCHANGED ended
    BY <2>0, <2>1
  <2>2. CASE /\ loop' = "idle" /\ ended' = Put(ended, TRUE)
             /\ UNCHANGED <<socket, tcp>>
    BY <2>0, <2>2
  <2> QED
    BY <1>3, <2>1, <2>2 DEF Connect
<1>4. CASE SendRequest
  <2>0. /\ loop = "request"
        /\ UNCHANGED <<socket, tcp, state, ended, frame>>
    BY <1>4 DEF SendRequest
  <2>1. CASE /\ wire' = Put(wire, Append(wire[state], "request"))
             /\ loop' = "run"
    BY <2>0, <2>1
  <2>2. CASE loop' = "shut" /\ UNCHANGED wire
    BY <2>0, <2>2
  <2> QED
    BY <1>4, <2>1, <2>2 DEF SendRequest
<1>5. CASE LoopCloses
  BY <1>5 DEF LoopCloses
<1>6. CASE LoopEnds
  BY <1>6 DEF LoopEnds
<1>7. CASE Abandon
  BY <1>7 DEF Abandon
<1>8. CASE Shut
  BY <1>8 DEF Shut
<1>9. CASE Clear
  BY <1>9 DEF Clear
<1>10. ASSUME NEW u \in Users, UserStep(u) PROVE QuietInv'
  <2>1. CASE Call(u)
    BY <2>1 DEF Call
  <2>2. CASE Sendall(u)
    <3>0. UNCHANGED <<socket, tcp, loopVars, frame>>
      BY <2>2 DEF Sendall
    <3>1. CASE wire' = [wire EXCEPT ![held[u]] = Append(@, frame[u])]
      <4>1. CASE held[u] \in Connections
        <5>1. Append(wire[held[u]], frame[u]) \in Seq({"request", "data", "close"})
          BY <4>1
        <5>2. wire' \in [Connections -> Seq({"request", "data", "close"})]
          BY <3>1, <5>1
        <5> QED
          BY <3>0, <5>2
      <4>2. CASE held[u] \notin Connections
        <5>1. wire' = wire
          BY <3>1, <4>2
        <5> QED
          BY <3>0, <5>1
      <4> QED
        BY <4>1, <4>2
    <3>2. CASE UNCHANGED wire
      BY <3>0, <3>2
    <3> QED
      BY <2>2, <3>1, <3>2 DEF Sendall
  <2>3. CASE TestFlags(u) \/ ReadSession(u) \/ SetClosing(u)
    BY <2>3 DEF TestFlags, ReadSession, SetClosing
  <2>4. CASE Acquire(u) \/ TestClosed(u) \/ TestClosing(u)
    BY <2>4 DEF Acquire, TestClosed, TestClosing
  <2> QED
    BY <1>10, <2>1, <2>2, <2>3, <2>4 DEF UserStep
<1>11. CASE UNCHANGED vars
  BY <1>11 DEF vars
<1> QED
  BY <1>1, <1>2, <1>3, <1>4, <1>5, <1>6, <1>7, <1>8, <1>9, <1>10, <1>11 DEF Next

\* Whatever appends to a wire does it while the socket is open.
LEMMA OnlyOpenWires ==
  QuietInv /\ [Next]_vars => \A i \in Connections : ended[i] => wire'[i] = wire[i]
<1> SUFFICES ASSUME QuietInv, [Next]_vars, NEW i \in Connections, ended[i]
             PROVE  wire'[i] = wire[i]
  OBVIOUS
<1> USE DEF QuietInv, QuietType
<1>1. CASE SendRequest \/ LoopCloses
  <2>1. i # state
    BY <1>1 DEF SendRequest, LoopCloses
  <2>2. UNCHANGED wire \/ \E f : wire' = [wire EXCEPT ![state] = f]
    BY <1>1 DEF SendRequest, LoopCloses, Put
  <2> QED
    BY <2>1, <2>2
<1>2. ASSUME NEW u \in Users, Sendall(u) PROVE wire'[i] = wire[i]
  <2>1. CASE UNCHANGED wire
    BY <2>1
  <2>2. CASE /\ tcp[held[u]] = "open"
             /\ wire' = [wire EXCEPT ![held[u]] = Append(@, frame[u])]
    <3>1. i # held[u]
      BY <2>2
    <3> QED
      BY <2>2, <3>1
  <2> QED
    BY <1>2, <2>1, <2>2 DEF Sendall
<1>3. CASE UNCHANGED wire
  BY <1>3
<1>4. SendRequest \/ LoopCloses \/ (\E u \in Users : Sendall(u)) \/ UNCHANGED wire
  <2> USE DEF sessionVars
  <2>1. CASE Reset \/ MakeSession \/ Connect \/ LoopEnds \/ Abandon \/ Shut \/ Clear
    BY <2>1 DEF Reset, MakeSession, Connect, LoopEnds, Abandon, Shut, Clear
  <2>2. ASSUME NEW u \in Users, UserStep(u) PROVE Sendall(u) \/ UNCHANGED wire
    BY <2>2 DEF UserStep, Call, TestFlags, ReadSession, Acquire, TestClosed,
                TestClosing, SetClosing
  <2>3. CASE UNCHANGED vars
    BY <2>3 DEF vars
  <2> QED
    BY <2>1, <2>2, <2>3 DEF Next
<1> QED
  BY <1>1, <1>2, <1>3, <1>4

\* A connection that was reported as over sends nothing any more, for any number
\* of threads and of connections that follow it (websocket.py, connect).
THEOREM StaysQuiet == Spec => EndedIsQuiet
<1>1. QuietInv /\ [Next]_vars => [\A i \in Connections : ended[i] => wire'[i] = wire[i]]_vars
  BY OnlyOpenWires
<1> QED
  BY QuietInit, QuietStep, <1>1, PTL DEF Spec, EndedIsQuiet

-----------------------------------------------------------------------------
(* Types and locks *)

UserTypes ==
  /\ pc \in [Users -> {"idle", "test", "session", "acquire", "flag"} \cup InLock]
  /\ frame \in [Users -> {"data", "close"}]
  /\ held \in [Users -> 0..MaxConnections]
  /\ calls \in [Users -> 0..MaxCalls]

SessionTypes ==
  /\ state \in 0..MaxConnections
  /\ session \in [Connections -> BOOLEAN]
  /\ closing \in [Connections -> BOOLEAN] /\ closed \in [Connections -> BOOLEAN]
  /\ socket \in [Connections -> BOOLEAN]
  /\ tcp \in [Connections -> {"none", "open", "shut"}]
  /\ wire \in [Connections -> Seq({"request", "data", "close"})]
  /\ loop \in {"idle", "reset", "connect", "request", "run", "shut", "clear"}
  /\ ended \in [Connections -> BOOLEAN]

\* A lock is held by a thread that is in write() on this very session.
LockInv ==
  /\ lock \in [Connections -> Users \cup {None}]
  /\ \A i \in Connections : lock[i] # None => pc[lock[i]] \in InLock /\ held[lock[i]] = i

\* Of a connection that is yet to come there is nothing.
FreshInv == \A i \in Connections : i > state => wire[i] = <<>> /\ tcp[i] = "none" /\ ~ended[i]

LEMMA TypeParts == ReuseTypeOK <=> UserTypes /\ SessionTypes /\ LockInv /\ FreshInv
BY DEF ReuseTypeOK, UserTypes, SessionTypes, LockInv, FreshInv

\* Every step of a user keeps the types of its variables.
LEMMA UserTyped ==
  ASSUME UserTypes, SessionTypes, NEW u \in Users, UserStep(u)
  PROVE  UserTypes'
<1> USE ReuseAssumption DEF UserTypes, SessionTypes, InLock, Goto, AfterWrite, Release,
                            loopVars, flagVars, sessionVars
<1>1. CASE Call(u)
  <2>1. calls' \in [Users -> 0..MaxCalls]
    BY <1>1 DEF Call
  <2>2. /\ frame' \in [Users -> {"data", "close"}]
        /\ pc' \in [Users -> {"idle", "test", "session", "acquire", "flag"} \cup InLock]
        /\ UNCHANGED held
    BY <1>1 DEF Call
  <2> QED
    BY <2>1, <2>2
<1>2. CASE TestFlags(u)
  BY <1>2 DEF TestFlags
<1>3. CASE ReadSession(u)
  BY <1>3 DEF ReadSession
<1>4. CASE Acquire(u)
  BY <1>4 DEF Acquire
<1>5. CASE TestClosed(u) \/ TestClosing(u)
  BY <1>5 DEF TestClosed, TestClosing
<1>6. CASE Sendall(u)
  BY <1>6 DEF Sendall
<1>7. CASE SetClosing(u)
  BY <1>7 DEF SetClosing
<1> QED
  BY <1>1, <1>2, <1>3, <1>4, <1>5, <1>6, <1>7 DEF UserStep

\* And those of the connections.
LEMMA UserKeepsSessions ==
  ASSUME UserTypes, SessionTypes, FreshInv, NEW u \in Users, UserStep(u)
  PROVE  SessionTypes' /\ FreshInv'
<1> USE ReuseAssumption DEF UserTypes, SessionTypes, FreshInv, Connections,
                            loopVars, flagVars, sessionVars, Put
<1>1. CASE Call(u) \/ TestFlags(u) \/ ReadSession(u)
  BY <1>1 DEF Call, TestFlags, ReadSession
<1>2. CASE Acquire(u) \/ TestClosed(u) \/ TestClosing(u)
  BY <1>2 DEF Acquire, TestClosed, TestClosing
<1>3. CASE Sendall(u)
  <2>0. UNCHANGED <<flagVars, socket, tcp, loopVars>>
    BY <1>3 DEF Sendall
  <2>1. CASE UNCHANGED wire
    BY <2>0, <2>1
  <2>2. CASE /\ tcp[held[u]] = "open"
             /\ wire' = [wire EXCEPT ![held[u]] = Append(@, frame[u])]
    <3>1. CASE held[u] \in Connections
      <4>1. Append(wire[held[u]], frame[u]) \in Seq({"request", "data", "close"})
        BY <3>1
      <4>2. wire' \in [Connections -> Seq({"request", "data", "close"})]
        BY <2>2, <4>1
      <4>3. \A i \in Connections : i > state => wire'[i] = <<>>
        BY <2>2
      <4> QED
        BY <2>0, <4>2, <4>3
    <3>2. CASE held[u] \notin Connections
      <4>1. wire' = wire
        BY <2>2, <3>2
      <4> QED
        BY <2>0, <4>1
    <3> QED
      BY <3>1, <3>2
  <2> QED
    BY <1>3, <2>1, <2>2 DEF Sendall
<1>4. CASE SetClosing(u)
  BY <1>4 DEF SetClosing
<1> QED
  BY <1>1, <1>2, <1>3, <1>4 DEF UserStep

\* Nobody takes a lock that is held, and whoever leaves write() gives it back.
LEMMA UserKeepsLocks ==
  ASSUME UserTypes, LockInv, NEW u \in Users, UserStep(u)
  PROVE  LockInv'
<1> USE ReuseAssumption DEF UserTypes, LockInv, InLock, Goto, AfterWrite, Release,
                            loopVars, flagVars, sessionVars
<1>1. CASE Call(u)
  BY <1>1 DEF Call
<1>2. CASE TestFlags(u)
  BY <1>2 DEF TestFlags
<1>3. CASE ReadSession(u)
  BY <1>3 DEF ReadSession
<1>4. CASE Acquire(u)
  BY <1>4 DEF Acquire
<1>5. CASE TestClosed(u)
  BY <1>5 DEF TestClosed
<1>6. CASE TestClosing(u)
  BY <1>6 DEF TestClosing
<1>7. CASE Sendall(u)
  <2>1. /\ lock' = [lock EXCEPT ![held[u]] = None]
        /\ \E p \in {"flag", "idle"} : pc' = [pc EXCEPT ![u] = p]
        /\ UNCHANGED held
    BY <1>7 DEF Sendall
  <2>2. \A i \in Connections : lock'[i] # None => i # held[u] /\ lock'[i] = lock[i]
    BY <2>1
  <2>3. \A i \in Connections : lock'[i] # None =>
          lock[i] \in Users /\ lock[i] # u /\ pc[lock[i]] \in InLock /\ held[lock[i]] = i
    BY <2>2
  <2>4. \A v \in Users : v # u => pc'[v] = pc[v]
    BY <2>1
  <2>5. lock' \in [Connections -> Users \cup {None}]
    BY <2>1
  <2> QED
    BY <2>1, <2>2, <2>3, <2>4, <2>5
<1>8. CASE SetClosing(u)
  BY <1>8 DEF SetClosing
<1> QED
  BY <1>1, <1>2, <1>3, <1>4, <1>5, <1>6, <1>7, <1>8 DEF UserStep

\* Where only the connection at hand changes, nothing is known of later ones.
LEMMA FreshKept ==
  ASSUME SessionTypes, FreshInv, UNCHANGED state,
         \A i \in Connections : i # state =>
           wire'[i] = wire[i] /\ tcp'[i] = tcp[i] /\ ended'[i] = ended[i]
  PROVE  FreshInv'
<1> SUFFICES ASSUME NEW i \in Connections, i > state
             PROVE  wire'[i] = <<>> /\ tcp'[i] = "none" /\ ~ended'[i]
  BY DEF FreshInv
<1>1. i # state
  BY DEF SessionTypes, Connections
<1> QED
  BY <1>1 DEF FreshInv

\* The loop keeps the types.
LEMMA LoopTyped ==
  ASSUME UserTypes, SessionTypes, LockInv, FreshInv,
         \/ Reset \/ MakeSession \/ Connect \/ SendRequest \/ LoopCloses
         \/ LoopEnds \/ Abandon \/ Shut \/ Clear
  PROVE  UserTypes' /\ SessionTypes' /\ LockInv' /\ FreshInv'
<1> USE ReuseAssumption DEF loopVars, flagVars, sessionVars, userVars, Put
<1>1. UserTypes'
  BY DEF UserTypes, Reset, MakeSession, Connect, SendRequest, LoopCloses, LoopEnds, Abandon,
         Shut, Clear
<1>2. LockInv'
  BY DEF LockInv, Reset, MakeSession, Connect, SendRequest, LoopCloses, LoopEnds, Abandon,
         Shut, Clear
<1> USE DEF SessionTypes, FreshInv, Connections
<1>3. CASE Reset
  <2>1. SessionTypes'
    BY <1>3 DEF Reset
  <2>2. FreshInv'
    BY <1>3 DEF Reset
  <2> QED
    BY <1>1, <1>2, <2>1, <2>2
<1>4. CASE MakeSession
  BY <1>1, <1>2, <1>4 DEF MakeSession
<1>5. CASE Connect
  <2>1. SessionTypes'
    BY <1>5 DEF Connect
  <2>2. FreshInv'
    BY <1>5, FreshKept DEF Connect
  <2> QED
    BY <1>1, <1>2, <2>1, <2>2
<1>6. CASE SendRequest \/ LoopCloses
  <2>1. \/ UNCHANGED wire
        \/ \E f \in {"request", "close"} : wire' = [wire EXCEPT ![state] = Append(wire[state], f)]
    BY <1>6 DEF SendRequest, LoopCloses
  <2>2. state \in Connections => \A f \in {"request", "close"} :
          Append(wire[state], f) \in Seq({"request", "data", "close"})
    OBVIOUS
  <2>3. wire' \in [Connections -> Seq({"request", "data", "close"})]
    BY <2>1, <2>2
  <2>4. \A i \in Connections : i # state => wire'[i] = wire[i]
    BY <2>1
  <2>5. SessionTypes'
    BY <1>6, <2>3 DEF SendRequest, LoopCloses
  <2>6. FreshInv'
    BY <1>6, <2>4, FreshKept DEF SendRequest, LoopCloses
  <2> QED
    BY <1>1, <1>2, <2>5, <2>6
<1>7. CASE LoopEnds
  BY <1>1, <1>2, <1>7 DEF LoopEnds
<1>8. CASE Abandon
  BY <1>1, <1>2, <1>8 DEF Abandon
<1>9. CASE Shut
  <2>1. SessionTypes'
    BY <1>9 DEF Shut
  <2>2. /\ UNCHANGED state
        /\ \A i \in Connections : i # state =>
             wire'[i] = wire[i] /\ tcp'[i] = tcp[i] /\ ended'[i] = ended[i]
    BY <1>9 DEF Shut
  <2>3. FreshInv'
    BY <2>2, FreshKept
  <2> QED
    BY <1>1, <1>2, <2>1, <2>3
<1>10. CASE Clear
  <2>1. SessionTypes'
    BY <1>10 DEF Clear
  <2>2. /\ UNCHANGED state
        /\ \A i \in Connections : i # state =>
             wire'[i] = wire[i] /\ tcp'[i] = tcp[i] /\ ended'[i] = ended[i]
    BY <1>10 DEF Clear
  <2>3. FreshInv'
    BY <2>2, FreshKept
  <2> QED
    BY <1>1, <1>2, <2>1, <2>3
<1> QED
  BY <1>3, <1>4, <1>5, <1>6, <1>7, <1>8, <1>9, <1>10

\* For any number of users and connections: every variable keeps its type, a
\* lock is held by a thread that is in write() on that very session, whichever
\* state the websocket has by then, and nothing is known of a connection that is
\* yet to come (websocket.py, connect; session.py, write).
THEOREM ReuseTyped == Spec => []ReuseTypeOK
<1>1. Init => ReuseTypeOK
  BY ReuseAssumption DEF Init, ReuseTypeOK, Connections
<1>2. ReuseTypeOK /\ [Next]_vars => ReuseTypeOK'
  <2> SUFFICES ASSUME UserTypes, SessionTypes, LockInv, FreshInv, [Next]_vars
               PROVE  UserTypes' /\ SessionTypes' /\ LockInv' /\ FreshInv'
    BY TypeParts DEF ReuseTypeOK, UserTypes, SessionTypes, LockInv, FreshInv
  <2>1. ASSUME NEW u \in Users, UserStep(u)
        PROVE  UserTypes' /\ SessionTypes' /\ LockInv' /\ FreshInv'
    BY <2>1, UserTyped, UserKeepsSessions, UserKeepsLocks
  <2>2. CASE UNCHANGED vars
    BY <2>2 DEF vars, flagVars, sessionVars, loopVars, userVars, UserTypes, SessionTypes,
                LockInv, FreshInv
  <2> QED
    BY <2>1, <2>2, LoopTyped DEF Next
<1> QED
  BY <1>1, <1>2, PTL DEF Spec
=============================================================================
