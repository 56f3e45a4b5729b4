-------------------------------- MODULE Upgrade --------------------------------
(***************************************************************************)
(* The upgrade from HTTP: what WebSocket.build_request() asks for, how     *)
(* Response (response.py) reads the header lines of the answer, and which  *)
(* answers WebSocket.on_response() (websocket.py) accepts.                 *)
(*                                                                         *)
(* A header line is a field with a name and a value, a fold that continues *)
(* the field before it, or blank.  A value is a sequence of tokens, Space  *)
(* and Comma among them.                                                   *)
(***************************************************************************)
EXTENDS Naturals, SequencesExt

CONSTANTS
  Text,       \* what names and values consist of
  Lower,      \* str.lower()
  Keys,       \* the values of Sec-WebSocket-Key
  Challenge,  \* the token that answers each of them: base64 of its SHA-1
  Custom      \* the fields added with add_header()

\* What a fold and a repeated field are joined with.
Space == "space"
Comma == "comma"

Line == [kind : {"field", "fold", "blank"}, name : Text, value : Seq(Text)]

ASSUME UpgradeAssumption ==
  /\ {"", Space, Comma, "upgrade", "websocket", "sec-websocket-accept",
      "bad option"} \subseteq Text
  /\ Custom \in Seq(Line)
  /\ Challenge \in [Keys -> Text]
  /\ Lower \in [Text -> Text]
  /\ \A t \in {Space, Comma, "websocket"} : Lower[t] = t
  /\ \A k \in Keys : Lower[Challenge[k]] \notin {Space, Comma}
  /\ \A i \in DOMAIN Custom : Custom[i].name # "sec-websocket-key"

Field(name, value) == [kind |-> "field", name |-> name, value |-> value]
Fold(value) == [kind |-> "fold", name |-> "", value |-> value]
Blank == [kind |-> "blank", name |-> "", value |-> <<>>]

\* Mutant: the key is not the one that the answer is compared with.
BuildRequestStale(key) ==
  Custom \o <<Field("upgrade", <<"websocket">>),
              Field("sec-websocket-key", <<CHOOSE k \in Keys : k # key>>)>>

\* The fields of the request that a server has to look at.
BuildRequest(key) ==
  Custom \o <<Field("upgrade", <<"websocket">>),
              Field("sec-websocket-key", <<key>>)>>

-----------------------------------------------------------------------------
(* Response.__init__(): the current header, and the value of each so far *)

\* Mutant: a field that is repeated replaces the one before.
ParseLineLast(r, line) ==
  CASE line.kind = "blank" -> r
    [] line.kind = "fold" ->
         IF r.header = "" THEN r
         ELSE [r EXCEPT !.headers[r.header] = @ \o <<Space>> \o line.value]
    [] line.kind = "field" ->
         [header |-> line.name,
          headers |-> [n \in DOMAIN r.headers \cup {line.name} |->
                         IF n = line.name THEN line.value ELSE r.headers[n]]]

\* The name of a header may be empty; what folds after that is dropped.
ParseLine(r, line) ==
  LET before(n) == IF n \in DOMAIN r.headers THEN r.headers[n] \o <<Comma>> ELSE <<>>
  IN  CASE line.kind = "blank" -> r
        [] line.kind = "fold" ->
             IF r.header = "" THEN r
             ELSE [r EXCEPT !.headers[r.header] = @ \o <<Space>> \o line.value]
        [] line.kind = "field" ->
             [header |-> line.name,
              headers |-> [n \in DOMAIN r.headers \cup {line.name} |->
                             IF n = line.name THEN before(n) \o line.value
                             ELSE r.headers[n]]]

\* str.strip()
Strip(v) ==
  LET solid == {i \in DOMAIN v : v[i] # Space}
  IN  IF solid = {} THEN <<>> ELSE SubSeq(v, Min(solid), Max(solid))

NoHeaders == [header |-> "", headers |-> [n \in {} |-> <<>>]]

Parsed(lines) ==
  LET after[i \in 0..Len(lines)] ==
        IF i = 0 THEN NoHeaders ELSE ParseLine(after[i - 1], lines[i])
  IN  after[Len(lines)]

Headers(lines) ==
  LET h == Parsed(lines).headers IN [n \in DOMAIN h |-> Strip(h[n])]

\* Response.get(): a header that is missing is an empty value here, which no
\* test accepts either.
Get(lines, name) ==
  LET h == Headers(lines) IN IF name \in DOMAIN h THEN h[name] ELSE <<>>

\* v is this token alone, up to the case of its letters.
Equals(v, token) == \E t \in Text : v = <<t>> /\ Lower[t] = Lower[token]

\* Mutant: the answer is taken on trust.
OnResponseTrusting(status, lines, key) ==
  /\ status = 101
  /\ Equals(Get(lines, "upgrade"), "websocket")
  /\ Get(lines, "sec-websocket-accept") # <<>>

\* The answer is accepted: no HandshakeError is raised.  A list of extensions
\* with options out of range raises one in Deflate.from_options().
OnResponse(status, lines, key) ==
  /\ status = 101
  /\ Equals(Get(lines, "upgrade"), "websocket")
  /\ Equals(Get(lines, "sec-websocket-accept"), Challenge[key])
  /\ ~Contains(Get(lines, "sec-websocket-extensions"), "bad option")

-----------------------------------------------------------------------------
(* What a response says, without the loop over its lines *)

IsField(lines, i, name) == lines[i].kind = "field" /\ lines[i].name = name

\* Line j is the field at i or continues it.
OfField(lines, i, j) ==
  \/ j = i
  \/ i < j /\ lines[j].kind = "fold" /\ \A k \in (i + 1)..j : lines[k].kind # "field"

\* A value is nothing but space, or this token with any space around it.
Silent(v) == \A p \in DOMAIN v : v[p] = Space
Says(v, token) ==
  \E p \in DOMAIN v : v[p] = token /\ \A q \in DOMAIN v \ {p} : v[q] = Space

\* One field has this name, and it or one of its folds says this token.
SaysOnce(lines, name, token) ==
  \E i \in DOMAIN lines :
    /\ \A j \in DOMAIN lines : IsField(lines, j, name) <=> j = i
    /\ \E j \in DOMAIN lines :
         /\ OfField(lines, i, j) /\ Says(lines[j].value, token)
         /\ \A k \in DOMAIN lines \ {j} : OfField(lines, i, k) => Silent(lines[k].value)

\* Some field of this name, or a fold of it, has this token.
Mentions(lines, name, token) ==
  \E i, j \in DOMAIN lines :
    /\ IsField(lines, i, name) /\ OfField(lines, i, j)
    /\ Contains(lines[j].value, token)

\* The same in any case of its letters.
SaysInAnyCase(lines, name, token) ==
  \E t \in Text : Lower[t] = Lower[token] /\ SaysOnce(lines, name, t)

(* The answer that on_response() looks for, said of the lines of the response.  It
   is less than RFC 6455 asks of a client in 4.1: nothing looks at the Connection
   header or at extensions and subprotocols that were not asked for, and the value
   of Sec-WebSocket-Accept may differ in case. *)
IsUpgrade(status, lines, key) ==
  /\ status = 101
  /\ SaysInAnyCase(lines, "upgrade", "websocket")
  /\ SaysInAnyCase(lines, "sec-websocket-accept", Challenge[key])
  /\ ~Mentions(lines, "sec-websocket-extensions", "bad option")
=============================================================================
