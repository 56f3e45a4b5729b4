----------------------------- MODULE MCConnection -----------------------------
(* Boundaries of every encoding, and what a server or a proxy may say. *)
EXTENDS Connection

NoProxies == [http |-> "none", https |-> "none"]
PlainProxy == [http |-> "http", https |-> "none"]
SecureProxies == [http |-> "https", https |-> "http"]
SecureForSecure == [http |-> "none", https |-> "https"]
SomeProxies == {NoProxies, PlainProxy, SecureProxies, SecureForSecure}

SomeReplies ==
  [status : {200}, size : {1, 3, 4, 5, 6}] \cup [status : {407}, size : {3}]

SomeKeys == {"key1", "key2"}
SomeText ==
  {"", Space, Comma, "upgrade", "websocket", "WebSocket", "h2c", "sec-websocket-key",
   "sec-websocket-accept", "sec-websocket-extensions", "deflate", "bad option",
   "key1", "key2", "Hash1", "hash1", "hash2"}
SomeLower ==
  [t \in SomeText |-> CASE t = "WebSocket" -> "websocket" [] t = "Hash1" -> "hash1"
                        [] OTHER -> t]
SomeChallenge == [k \in SomeKeys |-> IF k = "key1" THEN "Hash1" ELSE "hash2"]
SomeCustom == <<Field("upgrade", <<"h2c">>)>>

SomeLines ==
  {Field("upgrade", <<"websocket">>), Field("upgrade", <<Space>>),
   Field("sec-websocket-accept", <<Space, "Hash1">>), Field("sec-websocket-accept", <<>>),
   Field("sec-websocket-extensions", <<"deflate", Comma, "bad option">>),
   Field("", <<"bad option">>), Fold(<<"WebSocket">>), Fold(<<"hash1">>), Blank}

\* The first and the last byte of every range of RFC 3629.
Utf8Boundaries ==
  {127, 128, 143, 144, 159, 160, 191, 192, 193, 194, 223, 224, 225, 236, 237,
   238, 239, 240, 241, 243, 244, 245, 255}

SFrame(op, fin, size) == [op |-> op, fin |-> fin, rsv |-> 0, mask |-> 0, size |-> size]

SomeServerFrames ==
  {SFrame(TEXT, 0, 1), SFrame(TEXT, 1, 3), SFrame(0, 0, 1), SFrame(0, 1, 1),
   SFrame(2, 1, 0), SFrame(2, 1, 125), SFrame(2, 0, 126), SFrame(2, 1, 65535),
   SFrame(2, 1, 65536), SFrame(2, 1, -1),
   SFrame(PING, 1, 0), SFrame(PING, 1, 125), SFrame(PING, 1, 126), SFrame(PING, 0, 0),
   SFrame(CLOSE, 1, 2), SFrame(11, 1, 0),
   [SFrame(2, 1, 1) EXCEPT !.mask = 1], [SFrame(11, 1, 1) EXCEPT !.mask = 1],
   [SFrame(PONG, 1, 0) EXCEPT !.rsv = 4]}

CFrame(op, size) == [op |-> op, rsv |-> 0, size |-> size, status |-> 0]

SomeClientFrames ==
  {CFrame(TEXT, n) : n \in {0, 1, 5, 125, 126, 65535, 65536}}
  \cup {[CFrame(2, 7) EXCEPT !.rsv = 4], CFrame(PING, 125), CFrame(CLOSE, 0)}
  \cup {[CFrame(CLOSE, 2) EXCEPT !.status = 1000], [CFrame(CLOSE, 9) EXCEPT !.status = 4999]}

SomeMasks == {<<0, 255, 90, 17>>, <<128, 1, 2, 3>>}
SomePattern == <<1, 254, 85, 3, 200, 129>>
=============================================================================
