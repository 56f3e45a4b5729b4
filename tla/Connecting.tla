------------------------------ MODULE Connecting ------------------------------
(***************************************************************************)
(* WebsocketSession._connect() (session.py): the addresses of a host are   *)
(* tried in turn, a proxy is asked for a tunnel and its answer is parsed   *)
(* (proxy.py, parser.py), the socket is wrapped in TLS.                    *)
(*                                                                         *)
(* at is the program counter.  host is whom _connect_sock() connects to:   *)
(* the websocket's server, or the proxy for its scheme.  A socket records  *)
(* whom it reaches, for whom it was wrapped, and its timeout.              *)
(***************************************************************************)
EXTENDS Naturals, Sequences

CONSTANTS
  ProxyChoices,  \* values of the proxies argument: scheme -> "none", "http", "https"
  MaxAddresses,  \* bound: addresses of a host
  RecvSize,      \* how much one recv() returns at most, 1024 in the code
  MaxReply,      \* the max_bytes of the proxy's answer, 16 * 1024 in the code
  Replies        \* what a proxy may answer: a status and a size

ASSUME ConnectingAssumption ==
  /\ ProxyChoices \subseteq [{"http", "https"} -> {"none", "http", "https"}]
  /\ MaxAddresses \in Nat /\ RecvSize \in Nat \ {0} /\ MaxReply \in Nat
  /\ Replies \subseteq [status : Nat, size : Nat \ {0}]

VARIABLES
  secure,   \* the websocket's scheme is wss
  proxies,  \* websocket.proxies
  at,       \* where _connect() is
  host,     \* whom _connect_sock() connects to: "server" or "proxy"
  left,     \* addresses not tried yet
  sock,     \* the socket, or NoSock
  open,     \* sockets created and not closed
  reply,    \* the proxy's answer, or NoReply
  got,      \* how many bytes of it have been received
  ended,    \* the proxy has closed its end
  tunnel    \* the proxy has agreed to connect to the server

argumentVars == <<secure, proxies>>
connectingVars == <<secure, proxies, at, host, left, sock, open, reply, got, ended, tunnel>>

NoSock == [peer |-> "nobody", tls |-> "none", timeout |-> FALSE]
Fresh == [peer |-> "none", tls |-> "none", timeout |-> TRUE]
NoReply == [status |-> 0, size |-> 0]
Hosts == {"server", "proxy"}

ConnectPCs ==
  {"start", "resolve", "address", "wrap", "connect", "ask", "answer", "unblock",
   "connected", "returned", "failed"}

ConnectingInit ==
  /\ secure \in BOOLEAN
  /\ proxies \in ProxyChoices
  /\ at = "start"
  /\ host = "server"
  /\ left = 0
  /\ sock = NoSock
  /\ open = 0
  /\ reply = NoReply
  /\ got = 0
  /\ ended = FALSE
  /\ tunnel = FALSE

\* Mutant: the proxy is looked up by the websocket's own scheme.
ProxyByScheme == IF secure THEN proxies["http"] ELSE proxies["https"]

\* The proxy that _connect() looks up.
Proxy == IF secure THEN proxies["https"] ELSE proxies["http"]

\* The ssl argument of _connect_sock().
WrapsHost == IF host = "proxy" THEN Proxy = "https" ELSE secure

Begin ==
  /\ at = "start"
  /\ host' = IF Proxy = "none" THEN "server" ELSE "proxy"
  /\ at' = "resolve"
  /\ UNCHANGED <<argumentVars, left, sock, open, reply, got, ended, tunnel>>

-----------------------------------------------------------------------------
(* _connect_sock() *)

\* socket.getaddrinfo()
Resolve ==
  /\ at = "resolve"
  /\ \/ left' \in 0..MaxAddresses /\ at' = "address"
     \/ left' = left /\ at' = "failed"
  /\ UNCHANGED <<argumentVars, host, sock, open, reply, got, ended, tunnel>>

NoAddressLeft ==
  /\ at = "address" /\ left = 0
  /\ at' = "failed"
  /\ UNCHANGED <<argumentVars, host, left, sock, open, reply, got, ended, tunnel>>

\* Mutant: a socket that cannot be created ends the loop.
CreateFailsAtOnce ==
  /\ at = "address" /\ left > 0
  /\ left' = left - 1
  /\ at' = "failed"
  /\ UNCHANGED <<argumentVars, host, sock, open, reply, got, ended, tunnel>>

\* socket.socket() raises: the next address may be of another family.
CreateFails ==
  /\ at = "address" /\ left > 0
  /\ left' = left - 1
  /\ UNCHANGED <<argumentVars, at, host, sock, open, reply, got, ended, tunnel>>

Create ==
  /\ at = "address" /\ left > 0
  /\ left' = left - 1
  /\ sock' = Fresh
  /\ open' = open + 1
  /\ at' = IF WrapsHost THEN "wrap" ELSE "connect"
  /\ UNCHANGED <<argumentVars, host, reply, got, ended, tunnel>>

\* A socket that is not connected is wrapped without a handshake; one that is
\* makes it at once.  Wrapping a wrapped socket takes the connection away from
\* the first wrapping: the handshake is made in clear with a proxy that expects
\* TLS, and fails.
Wrap ==
  /\ at = "wrap"
  /\ sock.tls = "none"
  /\ sock' = [sock EXCEPT !.tls = IF tunnel THEN "server" ELSE host]
  /\ at' = IF tunnel THEN "unblock" ELSE "connect"
  /\ UNCHANGED <<argumentVars, host, left, open, reply, got, ended, tunnel>>

\* The name, the certificates' file or the handshake: nothing closes the socket.
WrapFails ==
  /\ at = "wrap"
  /\ at' = "failed"
  /\ UNCHANGED <<argumentVars, host, left, sock, open, reply, got, ended, tunnel>>

ConnectSucceeds ==
  /\ at = "connect"
  /\ sock' = [sock EXCEPT !.peer = host]
  /\ at' = IF host = "proxy" THEN "ask" ELSE "unblock"
  /\ UNCHANGED <<argumentVars, host, left, open, reply, got, ended, tunnel>>

\* Mutant: the socket that did not connect is not closed.
ConnectFailsOpen ==
  /\ at = "connect"
  /\ sock' = NoSock
  /\ at' = "address"
  /\ UNCHANGED <<argumentVars, host, left, open, reply, got, ended, tunnel>>

\* sock.connect(sa) raises, in the TLS handshake perhaps: on to the next address.
ConnectRefused ==
  /\ at = "connect"
  /\ sock' = NoSock
  /\ open' = open - 1
  /\ at' = "address"
  /\ UNCHANGED <<argumentVars, host, left, reply, got, ended, tunnel>>

-----------------------------------------------------------------------------
(* _connect_proxy(): the CONNECT request and its answer *)

Ask ==
  /\ at = "ask"
  /\ at' \in {"answer", "failed"}
  /\ UNCHANGED <<argumentVars, host, left, sock, open, reply, got, ended, tunnel>>

\* The proxy answers, or it never does.
ProxyAnswers ==
  /\ at = "answer" /\ reply = NoReply
  /\ reply' \in Replies
  /\ UNCHANGED <<argumentVars, at, host, left, sock, open, got, ended, tunnel>>

ProxyEnds ==
  /\ at = "answer" /\ ~ended
  /\ ended' = TRUE
  /\ UNCHANGED <<argumentVars, at, host, left, sock, open, reply, got, tunnel>>

\* Mutant: the limit is not checked when the answer is whole.
FedTrusting(r, n) ==
  IF n < r.size THEN (IF n > MaxReply THEN "failed" ELSE "more")
  ELSE IF r.status = 200 THEN "tunnel" ELSE "failed"

\* What ProxyParser.feed() makes of n bytes of a reply r: "more" is wanted, the
\* "tunnel" is there, or ProxyFail was raised.
Fed(r, n) ==
  IF n > MaxReply \/ (n >= r.size /\ r.size > MaxReply) THEN "failed"
  ELSE IF n < r.size THEN "more"
  ELSE IF r.status = 200 THEN "tunnel" ELSE "failed"

RecvReply ==
  /\ at = "answer"
  /\ \E n \in 1..RecvSize :
       /\ got + n <= reply.size
       /\ got' = got + n
  /\ tunnel' = (Fed(reply, got') = "tunnel")
  /\ at' = CASE Fed(reply, got') = "more" -> "answer"
             [] Fed(reply, got') = "failed" -> "failed"
             [] OTHER -> IF secure THEN "wrap" ELSE "unblock"
  /\ UNCHANGED <<argumentVars, host, left, sock, open, reply, ended>>

\* Mutant: the loop reads on when there is nothing more to read.
RecvEofIgnored ==
  /\ at = "answer" /\ ended
  /\ UNCHANGED connectingVars

\* recv() returns nothing: feed(b"") throws ParseEOF, which becomes ProxyFail.
\* A connection that was reset raises there, with the same result.
RecvEof ==
  /\ at = "answer" /\ ended
  /\ at' = "failed"
  /\ UNCHANGED <<argumentVars, host, left, sock, open, reply, got, ended, tunnel>>

\* Thirty seconds without data.
RecvTimesOut ==
  /\ at = "answer" /\ ~ended
  /\ sock.timeout
  /\ at' = "failed"
  /\ UNCHANGED <<argumentVars, host, left, sock, open, reply, got, ended, tunnel>>

\* Mutant: the timeout of the connection attempt stays.
UnblockForgets ==
  /\ at = "unblock"
  /\ at' = "connected"
  /\ UNCHANGED <<argumentVars, host, left, sock, open, reply, got, ended, tunnel>>

\* sock.settimeout(None), and back to run().
Unblock ==
  /\ at = "unblock"
  /\ sock' = [sock EXCEPT !.timeout = FALSE]
  /\ at' = "connected"
  /\ UNCHANGED <<argumentVars, host, left, open, reply, got, ended, tunnel>>

ConnectStep ==
  \/ Begin \/ Resolve \/ NoAddressLeft \/ CreateFails \/ Create
  \/ Wrap \/ WrapFails \/ ConnectSucceeds \/ ConnectRefused
  \/ Ask \/ RecvReply \/ RecvEof \/ RecvTimesOut \/ Unblock

ProxyStep == ProxyAnswers \/ ProxyEnds


-----------------------------------------------------------------------------
ConnectingTypeOK ==
  /\ secure \in BOOLEAN
  /\ proxies \in [{"http", "https"} -> {"none", "http", "https"}]
  /\ at \in ConnectPCs
  /\ host \in Hosts
  /\ left \in Nat
  /\ sock \in [peer : {"nobody", "none"} \cup Hosts, tls : {"none"} \cup Hosts,
               timeout : BOOLEAN]
  /\ open \in Nat
  /\ reply \in Replies \cup {NoReply}
  /\ got \in Nat
  /\ ended \in BOOLEAN /\ tunnel \in BOOLEAN

\* What run() is given reaches the websocket's server, through the proxy for its
\* scheme when there is one and not before that proxy agreed in a whole answer
\* within the limit; it is wrapped for the server if the websocket is secure; and
\* it blocks (session.py, _connect; proxy.py, ProxyParser.parse).
HandsOverServer ==
  at = "connected" =>
    /\ sock.peer = host
    /\ ~sock.timeout
    /\ IF Proxy = "none" THEN host = "server"
       ELSE /\ host = "proxy" /\ tunnel
            /\ reply.status = 200 /\ got = reply.size /\ got <= MaxReply
    /\ secure => sock.tls = "server"
    /\ ~secure => sock.tls = IF Proxy = "https" THEN "proxy" ELSE "none"

\* However many addresses were tried, no socket is open but the one in hand; and
\* without one the attempt is given up only when all have been tried (session.py,
\* the loop of _connect_sock).
AddressesTried ==
  /\ open = (IF sock = NoSock THEN 0 ELSE 1)
  /\ at = "failed" /\ sock = NoSock => left = 0
=============================================================================
