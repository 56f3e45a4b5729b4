------------------------------ MODULE Connection ------------------------------
(***************************************************************************)
(* A connection from the first address that is tried to its frames:        *)
(* Connecting, then Upgrade, then Wire, in the order of run() (session.py) *)
(* and feed() (websocket.py).  What the rest of run() does between these   *)
(* is in module Session.                                                   *)
(***************************************************************************)
EXTENDS Connecting, Upgrade, Wire

CONSTANTS
  Statuses,     \* statuses of the server's response
  HeaderLines,  \* lines of its header
  MaxLines      \* bound: how many lines

ASSUME ConnectionAssumption == HeaderLines \subseteq Line /\ MaxLines \in Nat

VARIABLES
  stage,    \* how far the opening is
  key,      \* state.key
  request,  \* the fields of the request that was sent
  said,     \* what the server did about it: "nothing", "part" of an answer,
            \* "answer" or "end"
  answer    \* its response

openingVars == <<stage, key, request, said, answer>>
vars == <<connectingVars, openingVars, wireVars>>

NoAnswer == [status |-> 0, lines |-> <<>>]

\* A server that accepts the request answers the key in it.
Acceptance(fields) ==
  LET asked == CHOOSE i \in DOMAIN fields : fields[i].name = "sec-websocket-key"
  IN  [status |-> 101,
       lines |-> <<Field("upgrade", <<"websocket">>),
                   Field("sec-websocket-accept", <<Challenge[fields[asked].value[1]]>>)>>]

Init ==
  /\ ConnectingInit /\ WireInit
  /\ stage = "connect"
  /\ key \in Keys
  /\ request = <<>>
  /\ said = "nothing" /\ answer = NoAnswer

Connects ==
  /\ stage = "connect"
  /\ ConnectStep
  /\ UNCHANGED <<openingVars, wireVars>>

ProxyActs ==
  /\ stage = "connect"
  /\ ProxyStep
  /\ UNCHANGED <<openingVars, wireVars>>

CloseSocket == sock' = NoSock /\ open' = open - 1

\* _connect() has returned, and nothing reads again whom it connected to: that is
\* forgotten, so that sockets reached in different ways are one from here on.
ConnectReturns ==
  /\ at' = "returned"
  /\ secure' = FALSE /\ proxies' = [s \in {"http", "https"} |-> "none"]
  /\ host' = "server" /\ left' = 0 /\ tunnel' = FALSE
  /\ reply' = NoReply /\ got' = 0 /\ ended' = FALSE

\* Mutant: ConnectFail with the socket still open.
SendRequestFailsOpen ==
  /\ stage = "connect" /\ at = "connected"
  /\ ConnectReturns
  /\ stage' = "failed"
  /\ UNCHANGED <<sock, open, key, request, said, answer, wireVars>>

\* _send_request(): when it fails the socket is closed, before ConnectFail.
SendRequest ==
  /\ stage = "connect" /\ at = "connected"
  /\ ConnectReturns
  /\ \/ /\ stage' = "response"
        /\ request' = BuildRequest(key)
        /\ sock' = [Fresh EXCEPT !.peer = "server", !.timeout = FALSE]
        /\ UNCHANGED open
     \/ /\ stage' = "failed"
        /\ CloseSocket
        /\ UNCHANGED request
  /\ UNCHANGED <<key, said, answer, wireVars>>

\* Part of a response, which feed() keeps: nothing is yielded, or checked.
ServerStarts ==
  /\ stage = "response" /\ said = "nothing"
  /\ said' = "part"
  /\ UNCHANGED <<connectingVars, stage, key, request, answer, wireVars>>

ServerAnswers ==
  /\ stage = "response" /\ said \in {"nothing", "part"}
  /\ said' = "answer"
  /\ \/ answer' = Acceptance(request)
     \/ \E status \in Statuses, n \in 0..MaxLines :
          \E lines \in [1..n -> HeaderLines] :
            answer' = [status |-> status, lines |-> lines]
  /\ UNCHANGED <<connectingVars, stage, key, request, wireVars>>

ServerEnds ==
  /\ stage = "response" /\ said \in {"nothing", "part"}
  /\ said' = "end"
  /\ UNCHANGED <<connectingVars, stage, key, request, answer, wireVars>>

\* feed() with the response: Ready, or Rejected after on_disconnect().
FeedResponse ==
  /\ stage = "response" /\ said = "answer"
  /\ \/ /\ OnResponse(answer.status, answer.lines, key)
        /\ stage' = "ready"
        /\ UNCHANGED <<sock, open>>
     \/ /\ ~OnResponse(answer.status, answer.lines, key)
        /\ stage' = "rejected"
        /\ CloseSocket
  /\ UNCHANGED <<argumentVars, at, host, left, reply, got, ended, tunnel,
                 key, request, said, answer, wireVars>>

\* recv() returns nothing or raises, before the response.
RecvEnd ==
  /\ stage = "response" /\ said = "end"
  /\ stage' = "failed"
  /\ CloseSocket
  /\ UNCHANGED <<argumentVars, at, host, left, reply, got, ended, tunnel,
                 key, request, said, answer, wireVars>>

\* After Ready nothing reads the request and the response again.
Opens ==
  /\ stage = "ready"
  /\ stage' = "open"
  /\ key' = CHOOSE k \in Keys : TRUE
  /\ request' = <<>> /\ said' = "nothing" /\ answer' = NoAnswer
  /\ UNCHANGED <<connectingVars, wireVars>>

Frames ==
  /\ stage = "open"
  /\ WireStep
  /\ UNCHANGED <<connectingVars, openingVars>>

\* The thread that iterates.
LoopStep == Connects \/ SendRequest \/ FeedResponse \/ RecvEnd

Next == LoopStep \/ ProxyActs \/ ServerStarts \/ ServerAnswers \/ ServerEnds \/ Opens \/ Frames

\* The thread runs; a proxy and a server may never do anything.
Spec == Init /\ [][Next]_vars /\ WF_vars(LoopStep)

-----------------------------------------------------------------------------
ConnectionTypeOK ==
  /\ ConnectingTypeOK /\ WireTypeOK
  /\ stage \in {"connect", "response", "ready", "rejected", "open", "failed"}
  /\ key \in Keys
  /\ request \in {<<>>, BuildRequest(key)}
  /\ said \in {"nothing", "part", "answer", "end"}
  /\ answer.status \in Statuses \cup {0, 101}
  /\ stage \in {"rejected", "failed"} => sock = NoSock /\ open = 0
  /\ stage \in {"response", "ready", "open"} => at = "returned" /\ open = 1

\* A response is accepted exactly when the two headers that the code asks for are
\* there once, with what it compares them with, however the lines are folded and in
\* whatever order; a server that answers the request as it was sent is never
\* rejected (websocket.py, build_request and on_response; response.py).
UpgradeAgreed ==
  /\ stage = "ready" => IsUpgrade(answer.status, answer.lines, key)
  /\ stage = "rejected" =>
       /\ ~IsUpgrade(answer.status, answer.lines, key)
       /\ answer # Acceptance(request)

OpeningOver == at = "failed" \/ stage \in {"ready", "rejected", "open", "failed"}

\* The opening ends one way or another, whatever the proxy does or leaves undone;
\* all that can hold it up is a server that has the request and says nothing, or
\* stops in the middle of its response, for which there is no timeout (session.py,
\* _connect_proxy and run).
OpeningEnds == <>OpeningOver \/ <>[](stage = "response" /\ said \in {"nothing", "part"})
=============================================================================
