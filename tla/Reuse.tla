--------------------------------- MODULE Reuse ---------------------------------
(***************************************************************************)
(* connect() called again and again on one WebSocket (websocket.py), as    *)
(* persist() does, while other threads send and close.  Each call makes a  *)
(* new State and a new session; a thread that was under way goes on with   *)
(* the session it read before, but looks at the flags of the state that is *)
(* the websocket's now.                                                    *)
(*                                                                         *)
(* State and session number i are made by call i of connect().  Within one *)
(* connection module Session has more of the loop; here it is what opens a *)
(* socket, sends the request, and ends in one way or another.              *)
(***************************************************************************)
EXTENDS Naturals, Sequences

CONSTANTS
  Users,           \* the threads that call send and close methods
  Loop,            \* the thread that iterates
  None,            \* no thread: a lock is free
  MaxConnections,  \* bound: calls of connect()
  MaxCalls         \* bound: calls of each user on a connection

ASSUME ReuseAssumption ==
  /\ Loop \notin Users /\ None \notin Users \cup {Loop}
  /\ MaxConnections \in Nat /\ MaxCalls \in Nat

Connections == 1..MaxConnections
InLock == {"closed", "closing", "sendall"}

VARIABLES
  state,    \* the websocket's state: how many were made
  session,  \* state.session is set
  closing,  \* state.closing
  closed,   \* state.closed
  socket,   \* session._sock is not None
  tcp,      \* its socket: "none", "open" or "shut"
  lock,     \* session._lock: who holds it, or None
  wire,     \* what was sent on it
  loop,     \* where the loop is
  ended,    \* the last event of the connection was yielded
  pc,       \* where each user is in its call
  frame,    \* what it sends
  held,     \* the session it read
  calls     \* calls it made since the last connect()

flagVars == <<closing, closed>>
sessionVars == <<socket, tcp, lock, wire>>
loopVars == <<state, session, loop, ended>>
userVars == <<pc, frame, held, calls>>
vars == <<flagVars, sessionVars, loopVars, userVars>>

ReuseTypeOK ==
  /\ state \in 0..MaxConnections
  /\ session \in [Connections -> BOOLEAN]
  /\ closing \in [Connections -> BOOLEAN] /\ closed \in [Connections -> BOOLEAN]
  /\ socket \in [Connections -> BOOLEAN]
  /\ tcp \in [Connections -> {"none", "open", "shut"}]
  /\ lock \in [Connections -> Users \cup {None}]
  /\ wire \in [Connections -> Seq({"request", "data", "close"})]
  /\ loop \in {"idle", "reset", "connect", "request", "run", "shut", "clear"}
  /\ ended \in [Connections -> BOOLEAN]
  /\ pc \in [Users -> {"idle", "test", "session", "acquire", "flag"} \cup InLock]
  /\ frame \in [Users -> {"data", "close"}]
  /\ held \in [Users -> 0..MaxConnections]
  /\ calls \in [Users -> 0..MaxCalls]
  /\ \A i \in Connections : lock[i] # None => pc[lock[i]] \in InLock /\ held[lock[i]] = i
  /\ \A i \in Connections : i > state => wire[i] = <<>> /\ tcp[i] = "none" /\ ~ended[i]

Init ==
  /\ state = 0
  /\ session = [i \in Connections |-> FALSE]
  /\ closing = [i \in Connections |-> FALSE]
  /\ closed = [i \in Connections |-> FALSE]
  /\ socket = [i \in Connections |-> FALSE]
  /\ tcp = [i \in Connections |-> "none"]
  /\ lock = [i \in Connections |-> None]
  /\ wire = [i \in Connections |-> <<>>]
  /\ loop = "idle"
  /\ ended = [i \in Connections |-> FALSE]
  /\ pc = [u \in Users |-> "idle"]
  /\ frame = [u \in Users |-> "data"]
  /\ held = [u \in Users |-> 0]
  /\ calls = [u \in Users |-> 0]

Put(f, x) == [f EXCEPT ![state] = x]
Goto(u, p) == pc' = [pc EXCEPT ![u] = p]

-----------------------------------------------------------------------------
(* The loop *)

\* reset(): from here on until the next step there is a state without a session.
Reset ==
  /\ loop = "idle" /\ state < MaxConnections
  /\ state' = state + 1
  /\ loop' = "reset"
  /\ calls' = [u \in Users |-> 0]
  /\ UNCHANGED <<flagVars, sessionVars, session, ended, pc, frame, held>>

MakeSession ==
  /\ loop = "reset"
  /\ session' = Put(session, TRUE)
  /\ loop' = "connect"
  /\ UNCHANGED <<flagVars, sessionVars, state, ended, userVars>>

\* run() has a socket, or it has not: ConnectFail.
Connect ==
  /\ loop = "connect"
  /\ \/ /\ socket' = Put(socket, TRUE) /\ tcp' = Put(tcp, "open")
        /\ loop' = "request"
        /\ UNCHANGED ended
     \/ /\ loop' = "idle" /\ ended' = Put(ended, TRUE)
        /\ UNCHANGED <<socket, tcp>>
  /\ UNCHANGED <<flagVars, lock, wire, state, session, userVars>>

\* Mutant: ConnectFail without closing the socket.
SendRequestFailsOpen ==
  /\ loop = "request" /\ lock[state] = None
  /\ \/ /\ ~closed[state] /\ ~closing[state]
        /\ wire' = Put(wire, Append(wire[state], "request"))
        /\ loop' = "run"
        /\ UNCHANGED ended
     \/ /\ loop' = "idle" /\ ended' = Put(ended, TRUE)
        /\ UNCHANGED wire
  /\ UNCHANGED <<flagVars, socket, tcp, lock, state, session, userVars>>

\* _send_request(): a close() that came before it, or a broken connection, makes
\* write() raise.  The socket is closed, then comes ConnectFail.
SendRequest ==
  /\ loop = "request" /\ lock[state] = None
  /\ \/ /\ ~closed[state] /\ ~closing[state]
        /\ wire' = Put(wire, Append(wire[state], "request"))
        /\ loop' = "run"
     \/ /\ loop' = "shut"
        /\ UNCHANGED wire
  /\ UNCHANGED <<flagVars, socket, tcp, lock, state, session, ended, userVars>>

\* The loop closes: the application in a handler, or in answer to the server.
LoopCloses ==
  /\ loop = "run" /\ lock[state] = None
  /\ ~closed[state] /\ ~closing[state]
  /\ wire' = Put(wire, Append(wire[state], "close"))
  /\ closing' = Put(closing, TRUE)
  /\ UNCHANGED <<closed, socket, tcp, lock, loopVars, userVars>>

\* The loop ends: after a Closed or a Rejected with the flags set, after a
\* failure or a timeout with the flags as they are.
LoopEnds ==
  /\ loop = "run"
  /\ loop' = "shut"
  /\ \/ closing' = Put(closing, FALSE) /\ closed' = Put(closed, TRUE)
     \/ UNCHANGED flagVars
  /\ UNCHANGED <<sessionVars, state, session, ended, userVars>>

\* The application drops the generator, where nothing closes the socket.
Abandon ==
  /\ loop = "run"
  /\ loop' = "idle"
  /\ UNCHANGED <<flagVars, sessionVars, state, session, ended, userVars>>

\* _close_socket(), in the lock.
Shut ==
  /\ loop = "shut" /\ lock[state] = None
  /\ tcp' = Put(tcp, "shut")
  /\ loop' = "clear"
  /\ UNCHANGED <<flagVars, socket, lock, wire, state, session, ended, userVars>>

\* _sock = None after it, and the last event.
Clear ==
  /\ loop = "clear"
  /\ socket' = Put(socket, FALSE)
  /\ ended' = Put(ended, TRUE)
  /\ loop' = "idle"
  /\ UNCHANGED <<flagVars, tcp, lock, wire, state, session, userVars>>

-----------------------------------------------------------------------------
(* The users: state is read anew in every step *)

Call(u) ==
  /\ pc[u] = "idle" /\ state > 0 /\ calls[u] < MaxCalls
  /\ calls' = [calls EXCEPT ![u] = @ + 1]
  /\ \/ frame' = [frame EXCEPT ![u] = "data"] /\ Goto(u, "session")
     \/ frame' = [frame EXCEPT ![u] = "close"] /\ Goto(u, "test")
  /\ UNCHANGED <<flagVars, sessionVars, loopVars, held>>

\* close() tests is_closed and is_closing.
TestFlags(u) ==
  /\ pc[u] = "test"
  /\ Goto(u, IF closed[state] \/ closing[state] THEN "idle" ELSE "session")
  /\ UNCHANGED <<flagVars, sessionVars, loopVars, frame, held, calls>>

\* self.session: None between the two steps of connect(), an AttributeError.
ReadSession(u) ==
  /\ pc[u] = "session"
  /\ IF session[state] THEN Goto(u, "acquire") /\ held' = [held EXCEPT ![u] = state]
     ELSE Goto(u, "idle") /\ UNCHANGED held
  /\ UNCHANGED <<flagVars, sessionVars, loopVars, frame, calls>>

\* What a call does when its frame was sent or could not be: close() goes on
\* either way.
AfterWrite(u) == Goto(u, IF frame[u] = "close" THEN "flag" ELSE "idle")

Release(u) == lock' = [lock EXCEPT ![held[u]] = None] /\ AfterWrite(u)

Acquire(u) ==
  /\ pc[u] = "acquire" /\ lock[held[u]] = None
  /\ IF socket[held[u]] THEN lock' = [lock EXCEPT ![held[u]] = u] /\ Goto(u, "closed")
     ELSE AfterWrite(u) /\ UNCHANGED lock
  /\ UNCHANGED <<flagVars, socket, tcp, wire, loopVars, frame, held, calls>>

TestClosed(u) ==
  /\ pc[u] = "closed"
  /\ IF closed[state] THEN Release(u) ELSE Goto(u, "closing") /\ UNCHANGED lock
  /\ UNCHANGED <<flagVars, socket, tcp, wire, loopVars, frame, held, calls>>

TestClosing(u) ==
  /\ pc[u] = "closing"
  /\ IF closing[state] THEN Release(u) ELSE Goto(u, "sendall") /\ UNCHANGED lock
  /\ UNCHANGED <<flagVars, socket, tcp, wire, loopVars, frame, held, calls>>

\* Mutant: an exception of sendall() leaves the lock held.
SendallKeepsLock(u) ==
  /\ pc[u] = "sendall"
  /\ \/ /\ socket[held[u]] /\ tcp[held[u]] = "open"
        /\ wire' = [wire EXCEPT ![held[u]] = Append(@, frame[u])]
        /\ Release(u)
     \/ AfterWrite(u) /\ UNCHANGED <<wire, lock>>
  /\ UNCHANGED <<flagVars, socket, tcp, loopVars, frame, held, calls>>

\* The connection may also be broken.
Sendall(u) ==
  /\ pc[u] = "sendall"
  /\ \/ /\ socket[held[u]] /\ tcp[held[u]] = "open"
        /\ wire' = [wire EXCEPT ![held[u]] = Append(@, frame[u])]
     \/ UNCHANGED wire
  /\ Release(u)
  /\ UNCHANGED <<flagVars, socket, tcp, loopVars, frame, held, calls>>

\* Of the state that is there by now, which may not have been asked to close.
\* The time that is set next decides nothing here.
SetClosing(u) ==
  /\ pc[u] = "flag"
  /\ closing' = Put(closing, TRUE)
  /\ Goto(u, "idle")
  /\ UNCHANGED <<closed, sessionVars, loopVars, frame, held, calls>>

UserStep(u) ==
  \/ Call(u) \/ TestFlags(u) \/ ReadSession(u) \/ Acquire(u) \/ TestClosed(u)
  \/ TestClosing(u) \/ Sendall(u) \/ SetClosing(u)

Next ==
  \/ Reset \/ MakeSession \/ Connect \/ SendRequest \/ LoopCloses
  \/ LoopEnds \/ Abandon \/ Shut \/ Clear
  \/ \E u \in Users : UserStep(u)

Spec == Init /\ [][Next]_vars

-----------------------------------------------------------------------------
\* A connection that was reported as over stays silent while the next is up: a
\* call that took hold of it before sends nothing any more, although the flags
\* it looks at are those of a state that is neither closing nor closed
\* (websocket.py, connect; session.py, write and _close_socket).
EndedIsQuiet == [][\A i \in Connections : ended[i] => wire'[i] = wire[i]]_vars
=============================================================================
