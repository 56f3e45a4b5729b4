-------------------------------- MODULE Stream --------------------------------
(***************************************************************************)
(* From bytes to messages: Parser.feed() (parser.py), FrameParser.parse()  *)
(* (frame_parser.py), Frame.validate() (frame.py), WebsocketStream.feed()  *)
(* (stream.py) and Message.build() (message.py), on a connection without   *)
(* permessage-deflate.                                                     *)
(*                                                                         *)
(* The server sends an HTTP response and then frames; the network cuts     *)
(* what it sent into chunks anywhere, and the parser takes a chunk in      *)
(* bites, so a payload is read in pieces the server did not choose.  What  *)
(* the client holds between two bites is the state that can go stale: the  *)
(* UTF-8 validator, _is_text and the list of fragments.                    *)
(*                                                                         *)
(* A byte of the response, a frame's header and a byte of its payload are  *)
(* the units of the stream.  The header is one unit: Parser only gathers   *)
(* its bytes.  A payload is a sequence of bytes of four classes: "a" is a  *)
(* character, "lead" begins one of two bytes, "tail" ends it and "bad" is  *)
(* never valid.                                                            *)
(***************************************************************************)
EXTENDS Naturals, FiniteSets, SequencesExt

CONSTANTS
  Frames,      \* the frames the server may send
  MaxFrames,   \* bound: how many of them
  MaxAhead,    \* bound: how many that the client has not parsed yet
  HeaderSizes, \* the sizes the server's response may have
  MaxHeader,   \* the max_bytes of the response, 16 * 1024 in the code
  ControlMax   \* the largest payload of a control frame, 125 in the RFC

Ops == {"cont", "text", "binary", "close", "ping", "pong", "reserved"}
Bytes == {"a", "lead", "tail", "bad"}

\* huge: the length field is over 2^63 - 1.  rsv: a reserved bit is set.
FrameRecord ==
  [op : Ops, fin : BOOLEAN, rsv : BOOLEAN, mask : BOOLEAN, huge : BOOLEAN, body : Seq(Bytes)]

ASSUME StreamAssumption ==
  /\ Frames \subseteq FrameRecord
  /\ MaxFrames \in Nat /\ MaxAhead \in Nat
  /\ HeaderSizes \subseteq Nat \ {0}
  /\ MaxHeader \in Nat

VARIABLES
  header,     \* the size of the server's response
  sent,       \* the frames the server has sent
  inflight,   \* units sent and not received
  data,       \* units received and not parsed: what is left of the chunk
  stage,      \* what the parser awaits
  got,        \* bytes read of what it awaits
  done,       \* frames parsed
  isText,     \* frame_parser._is_text
  utf8,       \* the state of frame_parser._utf8_validator
  fragments,  \* stream._frames
  messages,   \* the messages yielded
  error       \* "none", or the kind of the error raised

parserVars == <<got, isText, utf8>>
streamVars == <<done, fragments, messages, error>>
vars == <<header, sent, inflight, data, stage, got, done, isText, utf8,
          fragments, messages, error>>

Message == [op : Ops, payload : Seq(Bytes)]

IsControl(f) == f.op \in {"close", "ping", "pong"}
Current == sent[done + 1]

StreamTypeOK ==
  /\ header \in HeaderSizes
  /\ sent \in Seq(Frames)
  /\ inflight \in Nat /\ data \in Nat
  /\ stage \in {"response", "frame", "payload", "complete", "failed"}
  /\ got \in Nat
  /\ stage = "payload" => got < Len(Current.body)
  /\ done \in 0..Len(sent)
  /\ stage \in {"payload", "complete"} => done < Len(sent)
  /\ isText \in BOOLEAN
  /\ utf8 \in {"accept", "more", "reject"}
  /\ fragments \in Seq(Frames)
  /\ messages \in Seq(Message)
  /\ error \in {"none", "protocol", "critical"}
  /\ stage = "failed" <=> error # "none"

Init ==
  /\ header \in HeaderSizes
  /\ sent = <<>>
  /\ inflight = header
  /\ data = 0
  /\ stage = "response"
  /\ got = 0
  /\ done = 0
  /\ isText = FALSE
  /\ utf8 = "accept"
  /\ fragments = <<>>
  /\ messages = <<>>
  /\ error = "none"

ServerSends ==
  /\ Len(sent) < MaxFrames /\ Len(sent) < done + MaxAhead
  /\ \E f \in Frames :
       /\ sent' = Append(sent, f)
       /\ inflight' = inflight + 1 + Len(f.body)
  /\ UNCHANGED <<header, data, stage, parserVars, streamVars>>

\* feed() is called with the next chunk when it is done with the last one.
Feed ==
  /\ data = 0
  /\ stage \in {"response", "frame", "payload"}
  /\ \E n \in 1..inflight : data' = n /\ inflight' = inflight - n
  /\ UNCHANGED <<header, sent, stage, parserVars, streamVars>>

Raise(e) ==
  /\ error' = e
  /\ stage' = "failed"

-----------------------------------------------------------------------------
(* FrameParser.parse(), a bite at a time *)

Bite(n) == IF data < n THEN data ELSE n

\* read_until("\r\n\r\n").  The limit is checked on what has arrived, or on
\* the place of the separator when it has.
ReadResponse ==
  /\ stage = "response" /\ data > 0
  /\ LET n == Bite(header - got)
         read == got + n
     IN  /\ data' = data - n
         /\ \/ /\ read > MaxHeader
               /\ Raise("critical")
               /\ got' = read
            \/ /\ read <= MaxHeader
               /\ stage' = IF read = header THEN "frame" ELSE "response"
               /\ got' = IF read = header THEN 0 ELSE read
               /\ UNCHANGED error
  /\ UNCHANGED <<header, sent, inflight, done, isText, utf8, fragments, messages>>

\* Frame.validate().  It is called before the payload is read: its test of
\* the length of a control frame sees an empty payload.
Validates(f) ==
  /\ ~f.rsv
  /\ f.op # "reserved"
  /\ IsControl(f) => f.fin

ReadFrameHeader ==
  /\ stage = "frame" /\ data > 0
  /\ data' = data - 1
  /\ \/ /\ Current.huge \/ ~Validates(Current)
        /\ Raise("protocol")
        /\ UNCHANGED isText
     \/ /\ ~Current.huge /\ Validates(Current)
        /\ isText' = (isText \/ Current.op = "text")
        /\ stage' = IF Current.body = <<>> THEN "complete" ELSE "payload"
        /\ UNCHANGED error
  /\ UNCHANGED <<header, sent, inflight, got, done, utf8, fragments, messages>>

\* The validator's automaton.
Utf8Step(state, b) ==
  CASE state = "accept" /\ b = "a" -> "accept"
    [] state = "accept" /\ b = "lead" -> "more"
    [] state = "more" /\ b = "tail" -> "accept"
    [] OTHER -> "reject"

\* Where the automaton is after these bytes.
Utf8After(state, bytes) ==
  LET run[i \in 0..Len(bytes)] == IF i = 0 THEN state ELSE Utf8Step(run[i - 1], bytes[i])
  IN  run[Len(bytes)]

\* Only the payload of a text frame, or of a continuation of one, is
\* validated as it arrives.
Validated(f) == f.op = "text" \/ (f.op = "cont" /\ isText)

\* Mutant: the rest of the chunk is taken, past the end of the payload.
ReadTooMuch ==
  /\ stage = "payload" /\ data > 0
  /\ got' = got + data
  /\ data' = 0
  /\ stage' = IF got' = Len(Current.body) THEN "complete" ELSE "payload"
  /\ UNCHANGED <<header, sent, inflight, isText, utf8, streamVars>>

ReadPayload ==
  /\ stage = "payload" /\ data > 0
  /\ LET n == Bite(Len(Current.body) - got)
         bite == SubSeq(Current.body, got + 1, got + n)
         state == IF Validated(Current) THEN Utf8After(utf8, bite) ELSE utf8
     IN  /\ data' = data - n
         /\ utf8' = state
         /\ \/ /\ Validated(Current) /\ state = "reject"
               /\ Raise("critical")
               /\ UNCHANGED got
            \/ /\ ~Validated(Current) \/ state # "reject"
               /\ got' = IF got + n = Len(Current.body) THEN 0 ELSE got + n
               /\ stage' = IF got' = 0 THEN "complete" ELSE "payload"
               /\ UNCHANGED error
  /\ UNCHANGED <<header, sent, inflight, done, isText, fragments, messages>>

-----------------------------------------------------------------------------
(* A frame is complete: ClientFrameParser.on_frame(), WebsocketStream.feed() *)

\* Mutant: the validator is not reset at the end of a message.
OnFrameKeepsState(f) ==
  /\ isText' = (isText /\ ~f.fin)
  /\ UNCHANGED utf8

\* Any final frame clears _is_text, a control frame inside a text too.
OnFrame(f) ==
  /\ isText' = (isText /\ ~f.fin)
  /\ utf8' = IF f.fin /\ f.op \in {"text", "cont"} THEN "accept" ELSE utf8

\* bytes.decode("utf-8")
Decodes(bytes) == Utf8After("accept", bytes) = "accept"

Body(f) == f.body

Built(frames) ==
  [op |-> Head(frames).op,
   payload |-> FlattenSeq([i \in DOMAIN frames |-> Body(frames[i])])]

\* The first two bytes of a Close are its code.
Reason(m) == SubSeq(m.payload, 3, Len(m.payload))

\* The error that Message.build() raises, or "none".
Refusal(m) ==
  CASE m.op = "text" /\ ~Decodes(m.payload) -> "critical"
    [] m.op = "close" /\ Len(m.payload) = 1 -> "protocol"
    [] m.op = "close" /\ Len(m.payload) >= 2 /\ ~Decodes(Reason(m)) -> "critical"
    [] OTHER -> "none"

\* Build the message of these frames and yield it.
Yields(frames) ==
  \/ /\ Refusal(Built(frames)) # "none"
     /\ Raise(Refusal(Built(frames)))
     /\ UNCHANGED <<messages, done>>
  \/ /\ Refusal(Built(frames)) = "none"
     /\ messages' = Append(messages, Built(frames))
     /\ stage' = "frame"
     /\ done' = done + 1
     /\ UNCHANGED error

MaskedFrame ==
  /\ stage = "complete"
  /\ Current.mask
  /\ Raise("protocol")
  /\ UNCHANGED <<header, sent, inflight, data, parserVars, done, fragments, messages>>

ControlFrame ==
  /\ stage = "complete"
  /\ ~Current.mask /\ IsControl(Current)
  /\ OnFrame(Current)
  /\ Yields(<<Current>>)
  /\ UNCHANGED <<header, sent, inflight, data, got, fragments>>

\* Mutant: a new message may begin before the last one is complete.
InPlaceLoose(f) == f.op = "cont" => fragments # <<>>

\* A continuation continues something, and nothing else comes in between.
InPlace(f) == f.op = "cont" <=> fragments # <<>>

OutOfPlace ==
  /\ stage = "complete"
  /\ ~Current.mask /\ ~IsControl(Current)
  /\ ~InPlace(Current)
  /\ OnFrame(Current)
  /\ Raise("protocol")
  /\ UNCHANGED <<header, sent, inflight, data, got, done, fragments, messages>>

Fragment ==
  /\ stage = "complete"
  /\ ~Current.mask /\ ~IsControl(Current) /\ ~Current.fin
  /\ InPlace(Current)
  /\ OnFrame(Current)
  /\ fragments' = Append(fragments, Current)
  /\ stage' = "frame"
  /\ done' = done + 1
  /\ UNCHANGED <<header, sent, inflight, data, got, messages, error>>

\* Mutant: a final frame is a message of its own.
FinalFrameAlone ==
  /\ stage = "complete"
  /\ ~Current.mask /\ ~IsControl(Current) /\ Current.fin
  /\ InPlace(Current)
  /\ OnFrame(Current)
  /\ Yields(<<Current>>)
  /\ fragments' = <<>>
  /\ UNCHANGED <<header, sent, inflight, data, got>>

FinalFrame ==
  /\ stage = "complete"
  /\ ~Current.mask /\ ~IsControl(Current) /\ Current.fin
  /\ InPlace(Current)
  /\ OnFrame(Current)
  /\ Yields(Append(fragments, Current))
  /\ fragments' = <<>>
  /\ UNCHANGED <<header, sent, inflight, data, got>>

-----------------------------------------------------------------------------
\* The server has no more to send and everything was read, or the stream failed.
Terminated ==
  /\ \/ Len(sent) = MaxFrames /\ inflight + data = 0 /\ stage # "complete"
     \/ stage = "failed"
  /\ UNCHANGED vars

Next ==
  \/ ServerSends \/ Feed
  \/ ReadResponse \/ ReadFrameHeader \/ ReadPayload
  \/ MaskedFrame \/ ControlFrame \/ OutOfPlace \/ Fragment \/ FinalFrame
  \/ Terminated

Spec == Init /\ [][Next]_vars

-----------------------------------------------------------------------------
(* What a sequence s of frames means, whatever the chunks: RFC 6455, 5.4,  *)
(* 5.5 and 8.1, in terms of the whole sequence                             *)

IsData(f) == ~IsControl(f)

\* Before frame i of s a message has begun and is not complete.
OpenBefore(s, i) ==
  \E j \in 1..(i - 1) :
    /\ IsData(s[j]) /\ ~s[j].fin
    /\ \A k \in (j + 1)..(i - 1) : IsControl(s[k])

FragmentsAlternate(s) ==
  \A i \in DOMAIN s : IsData(s[i]) => (s[i].op = "cont" <=> OpenBefore(s, i))

EachIsLegal(s) ==
  \A i \in DOMAIN s :
    /\ ~s[i].huge /\ ~s[i].rsv /\ ~s[i].mask
    /\ s[i].op # "reserved"
    /\ IsControl(s[i]) => s[i].fin

TheOnly(S) == CHOOSE x \in S : TRUE

\* The numbers in I, the least first.
InOrder(I) ==
  [k \in 1..Cardinality(I) |-> TheOnly({i \in I : Cardinality({j \in I : j <= i}) = k})]

\* Where the message that frame i belongs to begins.
Begins(s, i) ==
  IF IsControl(s[i]) THEN i
  ELSE TheOnly({j \in 1..i :
                  /\ s[j].op \in {"text", "binary"}
                  /\ \A k \in (j + 1)..i : s[k].op \notin {"text", "binary"}})

\* The frames of the message whose last frame so far is i.
FramesOf(s, i) ==
  LET own == {k \in Begins(s, i)..i : IsControl(s[i]) \/ IsData(s[k])}
  IN  [k \in 1..Cardinality(own) |-> s[InOrder(own)[k]]]

MessageAt(s, i) ==
  [op |-> s[Begins(s, i)].op,
   payload |-> FlattenSeq([k \in DOMAIN FramesOf(s, i) |-> FramesOf(s, i)[k].body])]

MessagesOf(s) ==
  LET ends == {i \in DOMAIN s : s[i].fin}
  IN  [k \in 1..Cardinality(ends) |-> MessageAt(s, InOrder(ends)[k])]

\* UTF-8, without the automaton: a prefix of a text may end in the middle of
\* a character.
Utf8Prefix(b) ==
  \A i \in DOMAIN b :
    /\ b[i] # "bad"
    /\ b[i] = "tail" <=> i > 1 /\ b[i - 1] = "lead"

Utf8Text(b) == Utf8Prefix(b) /\ (b # <<>> => Last(b) # "lead")

MessageIsLegal(m) ==
  /\ m.op = "text" => Utf8Text(m.payload)
  /\ m.op = "close" =>
       Len(m.payload) # 1 /\ Utf8Text(SubSeq(m.payload, 3, Len(m.payload)))

\* The last frame of the message that s leaves open is the last data frame.
OpenText(s) ==
  IF ~OpenBefore(s, Len(s) + 1) THEN <<>>
  ELSE LET i == CHOOSE k \in DOMAIN s :
                  IsData(s[k]) /\ \A l \in (k + 1)..Len(s) : IsControl(s[l])
       IN  IF s[Begins(s, i)].op = "text" THEN MessageAt(s, i).payload ELSE <<>>

FramesAreLegal(s) == EachIsLegal(s) /\ FragmentsAlternate(s)

MessagesAreLegal(s) == \A k \in DOMAIN MessagesOf(s) : MessageIsLegal(MessagesOf(s)[k])

-----------------------------------------------------------------------------
Parsed == SubSeq(sent, 1, done)
UpTo == SubSeq(sent, 1, done + 1)

\* However the stream was cut, what the application gets is what the server
\* meant: every message complete, once, in order, the control frames inside a
\* fragmented message taken out of it (stream.py, WebsocketStream.feed).
Faithful == messages = MessagesOf(Parsed)

\* A server that keeps to the protocol is never refused: when an error is
\* raised, the response is too large or the frames read, the current one
\* included, break a rule (frame_parser.py and message.py, every raise).
NoFalseAlarm ==
  error = "none" \/ header > MaxHeader
    \/ ~FramesAreLegal(UpTo) \/ ~MessagesAreLegal(UpTo) \/ ~Utf8Prefix(OpenText(UpTo))

\* And what breaks a rule is not accepted, the length of a control frame
\* aside (frame.py, validate; stream.py; message.py, from_payload).
AcceptsOnlyLegal ==
  stage \notin {"response", "failed"} =>
    header <= MaxHeader /\ FramesAreLegal(Parsed) /\ MessagesAreLegal(Parsed)

-----------------------------------------------------------------------------
(* What the code's own check says, and the code does not do *)

\* "control frames must be <= 125 bytes in length" (frame.py:130).
ControlFramesAreShort ==
  \A k \in DOMAIN messages :
    IsControl(messages[k]) => Len(messages[k].payload) <= ControlMax
=============================================================================
