--------------------------------- MODULE Wire ---------------------------------
(***************************************************************************)
(* Frames as bytes: what Frame.build() (frame.py) and mask_payload()       *)
(* (mask.py) put on the wire, and how FrameParser.parse() (frame_parser.py)*)
(* reads the server's, without permessage-deflate.                         *)
(*                                                                         *)
(* The parts of a frame are read one after the other, each gathered from   *)
(* as many pieces as the network makes of it.  A payload that is not text  *)
(* is known by its size, and its byte i is Pattern[i].                     *)
(***************************************************************************)
EXTENDS Utf8

CONSTANTS
  ServerFrames,  \* what the server may send
  TextBytes,     \* the bytes of its texts
  ClientFrames,  \* what the client sends of itself
  MaskKeys,      \* what make_masking_key() may return
  Pattern        \* the first bytes of every payload

Opcodes == 0..15
TEXT == 1
CLOSE == 8
PING == 9
PONG == 10

\* size: -1 is a length field that is over 2^63 - 1.
FrameRecord == [op : Opcodes, fin : 0..1, rsv : 0..7, mask : 0..1, size : Int]

\* What two bytes hold.
Short == {n \in Nat : n < 65536}

\* status: of a Close with one.
OutRecord == [op : Opcodes, rsv : {0, 4}, size : Nat, status : Short]

\* No length is over 2^63 - 1, in eight bytes or as the len() of a payload.
Sizeable(f) == ((f.size \div 65536) \div 65536) \div 65536 < 32768

ASSUME WireAssumption ==
  /\ ServerFrames \subseteq FrameRecord
  /\ \A f \in ServerFrames : f.size >= -1 /\ Sizeable(f)
  /\ ClientFrames \subseteq OutRecord
  /\ \A f \in ClientFrames : Sizeable(f)
  /\ TextBytes \subseteq 0..255
  /\ MaskKeys \subseteq [1..4 -> 0..255]
  /\ Pattern \in Seq(0..255)

VARIABLES
  meant,     \* the frame that the server sends, or sent last
  coming,    \* bytes of its header that have not been received
  body,      \* how many bytes of its payload have not
  part,      \* what parse() awaits: "head", "size", "key", "body", or it "raised"
  buffer,    \* what has been gathered of it, or how much of a payload
  length,    \* how much is missing
  frame,     \* the frame being parsed, or parsed last
  isText,    \* frame_parser._is_text
  utf8,      \* the state of frame_parser._utf8_validator
  char,      \* the bytes of the character it is in, or the one it is stuck at
  out,       \* what the client sent last
  outBytes   \* and the bytes it made of it, the payload cut after Len(Pattern)

parseVars == <<part, buffer, length, frame, isText, utf8, char>>
outVars == <<out, outBytes>>
wireVars == <<meant, coming, body, parseVars, outVars>>

NoFrame == [op |-> 0, fin |-> 1, rsv |-> 0, mask |-> 0, size |-> 0]
NoOut == [op |-> 0, rsv |-> 0, size |-> 0, status |-> 0]

WireInit ==
  /\ meant = NoFrame /\ coming = <<>> /\ body = 0
  /\ part = "head" /\ buffer = <<>> /\ length = 2
  /\ frame = NoFrame
  /\ isText = FALSE
  /\ utf8 = Utf8Accept /\ char = <<>>
  /\ out = NoOut /\ outBytes = <<>>

-----------------------------------------------------------------------------
(* Numbers, masks, and what is sent *)

\* struct: a number in n bytes, the high one first.
BigEndian(n, x) ==
  LET byte[i \in 0..(n - 1)] == IF i = 0 THEN x ELSE byte[i - 1] \div 256
  IN  [i \in 1..n |-> byte[n - i] % 256]

Number(bytes) ==
  LET value[i \in 0..Len(bytes)] == IF i = 0 THEN 0 ELSE 256 * value[i - 1] + bytes[i]
  IN  value[Len(bytes)]

\* The exclusive or of two bytes, bit by bit.
Xor(a, b) ==
  LET bit(w) == IF (a \div w) % 2 = (b \div w) % 2 THEN 0 ELSE w
  IN  bit(1) + bit(2) + bit(4) + bit(8) + bit(16) + bit(32) + bit(64) + bit(128)

\* mask_payload(): every fourth byte has the same byte of the key.
MaskPayload(key, data) == [i \in DOMAIN data |-> Xor(data[i], key[1 + ((i - 1) % 4)])]

\* The first n bytes of a payload, as far as they are known.
FirstBytes(n) == SubSeq(Pattern, 1, IF n < Len(Pattern) THEN n ELSE Len(Pattern))

\* Mutant: the status goes where the server does not look for it.
BuildPayloadLow(f) ==
  IF f.op = CLOSE /\ f.size >= 2
  THEN <<f.status % 256, f.status \div 256>> \o FirstBytes(f.size - 2)
  ELSE FirstBytes(f.size)

\* The beginning of a payload; build_close_payload() puts a status before a
\* reason, and makes nothing of a reason without a status.
BuildPayload(f) ==
  IF f.op = CLOSE /\ f.size >= 2
  THEN BigEndian(2, f.status) \o FirstBytes(f.size - 2)
  ELSE FirstBytes(f.size)

\* Mutant: 65536 bytes in two bytes of length.
BuildLate(f, key) ==
  LET sized == IF f.size < 126 THEN <<128 + f.size>>
               ELSE IF f.size <= 65536 THEN <<128 + 126>> \o BigEndian(2, f.size)
               ELSE <<128 + 127>> \o BigEndian(8, f.size)
  IN  <<128 + 16 * f.rsv + f.op>> \o sized \o key \o MaskPayload(key, BuildPayload(f))

\* Frame.build(), for a frame that is final and masked, as to_bytes() makes it.
Build(f, key) ==
  LET sized == IF f.size < 126 THEN <<128 + f.size>>
               ELSE IF f.size < 65536 THEN <<128 + 126>> \o BigEndian(2, f.size)
               ELSE <<128 + 127>> \o BigEndian(8, f.size)
  IN  <<128 + 16 * f.rsv + f.op>> \o sized \o key \o MaskPayload(key, BuildPayload(f))

Send(f) ==
  /\ out' = f
  /\ \E key \in MaskKeys : outBytes' = Build(f, key)

\* Nothing is on the wire either way: what the two sides send does not depend on
\* each other, so they take turns.
Between == coming = <<>> /\ body = 0 /\ part = "head"

\* A call of the application, or of close().
ClientSends ==
  /\ Between /\ out = NoOut
  /\ \E f \in ClientFrames : Send(f)
  /\ UNCHANGED <<meant, coming, body, parseVars>>

-----------------------------------------------------------------------------
(* The server: a length may take more bytes than it has to *)

LengthField(size, bytes) ==
  CASE bytes = 1 -> <<size>>
    [] bytes = 2 -> <<126>> \o BigEndian(2, size)
    [] bytes = 8 -> <<127>> \o (IF size < 0 THEN <<128>> \o BigEndian(7, 0)
                                ELSE BigEndian(8, size))

Fits(size, bytes) ==
  CASE bytes = 1 -> size \in 0..125 [] bytes = 2 -> size \in Short [] bytes = 8 -> TRUE

\* The bytes of a header; a mask would be of zeros.
Header(f, bytes) ==
  LET field == LengthField(f.size, bytes)
  IN  <<128 * f.fin + 16 * f.rsv + f.op, 128 * f.mask + field[1]>>
        \o Tail(field) \o (IF f.mask = 1 THEN <<0, 0, 0, 0>> ELSE <<>>)

ServerReads ==
  /\ out # NoOut
  /\ out' = NoOut /\ outBytes' = <<>>
  /\ UNCHANGED <<meant, coming, body, parseVars>>

ServerSends ==
  /\ Between /\ out = NoOut
  /\ \E f \in ServerFrames, bytes \in {1, 2, 8} :
       /\ Fits(f.size, bytes)
       /\ meant' = f
       /\ coming' = Header(f, bytes)
       /\ body' = IF f.size < 0 THEN 0 ELSE f.size
  /\ UNCHANGED <<parseVars, outVars>>

-----------------------------------------------------------------------------
(* FrameParser.parse() *)

Await(p, n) == part' = p /\ length' = n /\ buffer' = <<>>
Raise == part' = "raised" /\ length' = 0 /\ buffer' = <<>>

IsControl(f) == f.op >= 8
Reserved(op) == op \in 3..7 \cup 11..15
ValidatesText == frame.op = TEXT \/ (frame.op = 0 /\ isText)

\* Mutant: a fragment of a control frame passes.
ValidateLoose(f) == f.rsv = 0 /\ ~Reserved(f.op)

\* Frame.validate(): the payload is still empty, so its length is not tested.
Validate(f) ==
  /\ f.rsv = 0
  /\ ~Reserved(f.op)
  /\ f.fin = 1 \/ ~IsControl(f)

\* on_frame(), which refuses a mask, the message, and the answer to a Ping:
\* send_pong() takes no more than 125 bytes.
OnFrame(f, text, state, read) ==
  LET ends == f.mask = 0 /\ f.fin = 1
      textEnds == ends /\ f.op \in {0, TEXT}
      pongs == f.mask = 0 /\ f.op = PING
  IN  /\ isText' = (text /\ ~ends)
      /\ utf8' = IF textEnds THEN Utf8Accept ELSE state
      /\ char' = IF textEnds THEN <<>> ELSE read
      /\ IF f.mask = 1 \/ (pongs /\ f.size > 125) THEN Raise ELSE Await("head", 2)
      /\ IF pongs /\ f.size <= 125
         THEN Send([op |-> PONG, rsv |-> 0, size |-> f.size, status |-> 0])
         ELSE UNCHANGED outVars

\* The Frame object is made and validated.
HeaderParsed(f) ==
  LET text == isText \/ f.op = TEXT
  IN  \/ /\ ~Validate(f)
         /\ Raise
         /\ UNCHANGED <<isText, utf8, char, outVars>>
      \/ /\ Validate(f) /\ f.size > 0
         /\ Await("body", f.size)
         /\ isText' = text
         /\ UNCHANGED <<utf8, char, outVars>>
      \/ /\ Validate(f) /\ f.size = 0
         /\ OnFrame(f, text, utf8, char)

\* The length is known, and not too large.
Sized(f) ==
  \/ /\ f.mask = 1
     /\ Await("key", 4)
     /\ UNCHANGED <<isText, utf8, char, outVars>>
  \/ /\ f.mask = 0
     /\ HeaderParsed(f)

\* Mutant: a length of 126 is taken as it is.
HeadReadShort(b) ==
  LET size == b[2] % 128
      f == [op |-> b[1] % 16, fin |-> b[1] \div 128, rsv |-> (b[1] \div 16) % 8,
            mask |-> b[2] \div 128, size |-> size]
  IN  /\ frame' = f
      /\ \/ /\ size = 127
            /\ Await("size", 8)
            /\ UNCHANGED <<isText, utf8, char, outVars>>
         \/ size < 127 /\ Sized(f)

\* The first two bytes.
HeadRead(b) ==
  LET size == b[2] % 128
      f == [op |-> b[1] % 16, fin |-> b[1] \div 128, rsv |-> (b[1] \div 16) % 8,
            mask |-> b[2] \div 128, size |-> size]
  IN  /\ frame' = f
      /\ \/ /\ size >= 126
            /\ Await("size", IF size = 126 THEN 2 ELSE 8)
            /\ UNCHANGED <<isText, utf8, char, outVars>>
         \/ size < 126 /\ Sized(f)

\* The two or eight bytes of a longer length: over 2^63 - 1 it is too large.
SizeRead(b) ==
  LET tooLarge == Len(b) = 8 /\ b[1] > 127
      f == [frame EXCEPT !.size = Number(b)]
  IN  \/ /\ tooLarge
         /\ frame' = [frame EXCEPT !.size = -1]
         /\ Raise
         /\ UNCHANGED <<isText, utf8, char, outVars>>
      \/ /\ ~tooLarge
         /\ frame' = f
         /\ Sized(f)

\* Parser.feed() gathers what parse() awaits.
ReadHeader ==
  /\ part \in {"head", "size", "key"}
  /\ \E n \in 1..length :
       LET b == buffer \o SubSeq(coming, 1, n)
       IN  /\ n <= Len(coming)
           /\ coming' = SubSeq(coming, n + 1, Len(coming))
           /\ \/ /\ n < length
                 /\ buffer' = b /\ length' = length - n
                 /\ UNCHANGED <<part, frame, isText, utf8, char, outVars>>
              \/ /\ n = length
                 /\ CASE part = "head" -> HeadRead(b)
                      [] part = "size" -> SizeRead(b)
                      [] part = "key" -> HeaderParsed(frame) /\ UNCHANGED frame
  /\ UNCHANGED <<meant, body>>

\* A piece of a payload that is not validated: all that is missing, or (which
\* stands for every other way to cut it) first a byte.
ReadBody ==
  /\ part = "body" /\ ~ValidatesText
  /\ \E n \in IF length = frame.size THEN {1, length} ELSE {length} :
       /\ n <= body
       /\ body' = body - n
       /\ \/ /\ n < length
             /\ length' = length - n
             /\ UNCHANGED <<part, buffer, isText, utf8, char, outVars>>
          \/ n = length /\ OnFrame(frame, isText, utf8, char)
  /\ UNCHANGED <<meant, coming, frame>>

\* A byte of a text: Utf8Validator.validate().
ReadText ==
  /\ part = "body" /\ ValidatesText
  /\ body > 0
  /\ body' = body - 1
  /\ \E b \in TextBytes :
       LET state == Dfa(utf8, b)
           read == IF IsCharacter(Append(char, b)) THEN <<>> ELSE Append(char, b)
       IN  \/ /\ state = Utf8Reject
              /\ Raise
              /\ utf8' = state /\ char' = read
              /\ UNCHANGED <<isText, outVars>>
           \/ /\ state # Utf8Reject /\ length > 1
              /\ utf8' = state /\ char' = read
              /\ length' = length - 1
              /\ UNCHANGED <<part, buffer, isText, outVars>>
           \/ /\ state # Utf8Reject /\ length = 1
              /\ OnFrame(frame, isText, state, read)
  /\ UNCHANGED <<meant, coming, frame>>

WireStep ==
  \/ ClientSends \/ ServerReads \/ ServerSends
  \/ ReadHeader \/ ReadBody \/ ReadText

-----------------------------------------------------------------------------
WireTypeOK ==
  /\ meant \in ServerFrames \cup {NoFrame}
  /\ coming \in Seq(0..255)
  /\ body \in Nat
  /\ part \in {"head", "size", "key", "body", "raised"}
  /\ buffer \in Seq(0..255)
  /\ length \in Nat
  /\ part \in {"head", "size", "key"} => Len(buffer) + length \in {2, 4, 8}
  /\ frame \in FrameRecord
  /\ isText \in BOOLEAN
  /\ utf8 \in Utf8States
  /\ char \in Seq(TextBytes)
  /\ out \in OutRecord /\ outBytes \in Seq(0..255)

\* RFC 6455, 5.2 and 5.5, but for the length of a control frame.
Legal(f) ==
  /\ f.rsv = 0 /\ f.mask = 0 /\ f.size >= 0
  /\ f.op \in {0, TEXT, 2} \/ (f.op \in {CLOSE, PING, PONG} /\ f.fin = 1)

\* However the network cuts it up and however its length was written, a frame
\* of the server is read to its last byte and as it was meant, so that the next
\* begins where it ends; and only what breaks the protocol raises an error
\* (frame_parser.py, FrameParser.parse).
ServerFrameUnderstood ==
  /\ Between => buffer = <<>> /\ frame = meant /\ Legal(meant)
  /\ coming = <<>> /\ body = 0 => part \in {"head", "raised"}
  /\ part = "raised" =>
       ~Legal(meant) \/ utf8 = Utf8Reject \/ (meant.op = PING /\ meant.size > 125)

\* What a server makes of bytes: where the key is depends on the length.
Understood(bytes) ==
  LET short == bytes[2] % 128
      extra == IF short < 126 THEN 0 ELSE IF short = 126 THEN 2 ELSE 8
      key == SubSeq(bytes, 3 + extra, 6 + extra)
      data == SubSeq(bytes, 7 + extra, Len(bytes))
  IN  [final |-> bytes[1] \div 128, masked |-> bytes[2] \div 128,
       rsv |-> (bytes[1] \div 16) % 8, op |-> bytes[1] % 16,
       size |-> IF extra = 0 THEN short ELSE Number(SubSeq(bytes, 3, 2 + extra)),
       extra |-> extra,
       data |-> [i \in DOMAIN data |-> Xor(data[i], key[1 + ((i + 3) % 4)])]]

\* A server that unmasks a frame finds in it what was sent: the length in the
\* fewest bytes that hold it, the payload, and the status of a Close where it
\* looks for one (frame.py, Frame.build; mask.py).
ClientFrameUnderstood ==
  outBytes # <<>> =>
    LET u == Understood(outBytes)
        status == out.op = CLOSE /\ out.size >= 2
        text == IF status THEN SubSeq(u.data, 3, Len(u.data)) ELSE u.data
    IN  /\ u.final = 1 /\ u.masked = 1 /\ u.rsv = out.rsv /\ u.op = out.op
        /\ u.size = out.size
        /\ u.extra = 2 <=> out.size \in Short /\ out.size > 125
        /\ u.extra = 8 <=> out.size \notin Short
        /\ status => u.data[1] * 256 + u.data[2] = out.status
        /\ IsPrefix(text, Pattern)
        /\ Len(u.data) = out.size \/ Len(text) = Len(Pattern)

\* Between any two bytes of a text the validator accepts where a character
\* ends, and has rejected when no character goes on like that: neither later
\* nor earlier (utf8validator.py, UTF8VALIDATOR_DFA).
Utf8Agrees ==
  /\ utf8 = Utf8Accept <=> char = <<>>
  /\ utf8 = Utf8Reject <=> char # <<>> /\ ~BeginsCharacter(char)
=============================================================================
