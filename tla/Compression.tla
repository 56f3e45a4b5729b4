------------------------------ MODULE Compression ------------------------------
(***************************************************************************)
(* permessage-deflate: the negotiation (WebSocket.process_extensions), the *)
(* two zlib contexts of a Deflate object (compression.py), and the sends   *)
(* of several threads through the one that compresses (websocket.py,       *)
(* send_text and send_binary).                                             *)
(*                                                                         *)
(* A context is what a compressor or a decompressor remembers: the         *)
(* messages that passed through it, oldest first, as far back as its       *)
(* window goes.  Compressed data names the context it refers to, and       *)
(* decompresses into what was put in only with at least that context.      *)
(* write() is one step: WebSocket.tla shows that frames do not mix.        *)
(***************************************************************************)
EXTENDS Integers, SequencesExt

CONSTANTS
  Deflaters,   \* the threads that send compressed messages
  Plain,       \* the threads that send with compress=False
  Responses,   \* what a server may answer: a sequence of extensions
  MaxMessages  \* bound: messages sent, each way

Senders == Deflaters \cup Plain

Absent == 0    \* no such option

\* An extension of the server's answer.  A number of bits is Absent, or
\* negative if it is not an integer.
Extension ==
  [token : {"permessage-deflate", "other"}, serverBits : Int, clientBits : Int,
   serverReset : BOOLEAN, clientReset : BOOLEAN]

ASSUME CompressionAssumption ==
  /\ Responses \subseteq Seq(Extension)
  /\ MaxMessages \in Nat

VARIABLES
  response,      \* the server's Sec-WebSocket-Extensions
  at,            \* "response", "open", "closing", "rejected" or "failed"
  compression,   \* state.compression
  compressor,    \* past: its context; fed: compressed and not flushed
  decompressor,  \* its context
  pc,            \* where each thread is in its call
  frame,         \* the frame each thread is sending
  begun,         \* messages the threads have begun to send
  sent,          \* the messages whose frames were sent, in the order of the wire
  serverContext, \* the context of the server's decompressor
  understood,    \* what the server made of each frame
  serverPast,    \* the messages the server compressed
  produced,      \* messages the server sent
  received,      \* messages delivered to the application
  honest         \* the server has kept to what it answered

setUp == <<response, compression>>
sending == <<compressor, pc, frame, begun>>
arriving == <<sent, serverContext, understood>>
receiving == <<decompressor, serverPast, produced, received, honest>>
vars == <<response, at, compression, compressor, decompressor, pc, frame, begun,
          sent, serverContext, understood, serverPast, produced, received, honest>>

None == [bits |-> 0]
Fresh == [past |-> <<>>, fed |-> <<>>]

Messages == Seq(Nat)
Frame == [rsv1 : BOOLEAN, message : Nat, past : Messages, body : Messages]
NoFrame == [rsv1 |-> FALSE, message |-> 0, past |-> <<>>, body |-> <<>>]

Deflate ==
  [decompressBits : 8..15, compressBits : 8..15, resetDecompress : BOOLEAN,
   resetCompress : BOOLEAN]

CompressionTypeOK ==
  /\ response \in Responses
  /\ at \in {"response", "open", "closing", "rejected", "failed"}
  /\ compression \in Deflate \cup {None}
  /\ compressor \in [past : Messages, fed : Messages]
  /\ decompressor \in Messages
  /\ pc \in [Senders -> {"idle", "compress", "flush", "reset", "write"}]
  /\ frame \in [Senders -> Frame]
  /\ begun \in 0..MaxMessages
  /\ sent \in Messages /\ serverContext \in Messages
  /\ understood \in Seq(Messages)
  /\ serverPast \in Messages
  /\ produced \in 0..MaxMessages
  /\ received \in Messages
  /\ honest \in BOOLEAN

Init ==
  /\ response \in Responses
  /\ at = "response"
  /\ compression = None
  /\ compressor = Fresh
  /\ decompressor = <<>>
  /\ pc = [t \in Senders |-> "idle"]
  /\ frame = [t \in Senders |-> NoFrame]
  /\ begun = 0
  /\ sent = <<>> /\ serverContext = <<>> /\ understood = <<>>
  /\ serverPast = <<>>
  /\ produced = 0
  /\ received = <<>>
  /\ honest = TRUE

-----------------------------------------------------------------------------
(* How far back a context goes, in messages *)

Newest(s, n) == IF Len(s) <= n THEN s ELSE SubSeq(s, Len(s) - n + 1, Len(s))

\* What a decompressor with a window of 2^bits bytes holds.
Held(s, bits) == Newest(s, bits - 7)

\* What a compressor refers to.  zlib has no window of 2^8 bytes to compress
\* with, and asks for 2^9; but it stays 262 bytes short of its window, which
\* keeps it within 2^8.
Window(bits) == IF bits < 9 THEN 9 ELSE bits
Reached(s, bits) == Newest(s, IF bits = 9 THEN 1 ELSE bits - 7)

-----------------------------------------------------------------------------
(* process_extensions() *)

\* get_wbits()
Bits(option) == IF option = Absent THEN 15 ELSE option
Valid(option) == Bits(option) \in 8..15

\* Mutant: the options that reset the contexts are swapped.
FromOptionsSwapped(x) ==
  [decompressBits |-> Bits(x.serverBits), compressBits |-> Bits(x.clientBits),
   resetDecompress |-> x.clientReset, resetCompress |-> x.serverReset]

FromOptions(x) ==
  [decompressBits |-> Bits(x.serverBits), compressBits |-> Bits(x.clientBits),
   resetDecompress |-> x.serverReset, resetCompress |-> x.clientReset]

Asked == {i \in DOMAIN response : response[i].token = "permessage-deflate"}

\* The last of them.
Agreed == response[CHOOSE i \in Asked : \A j \in Asked : j <= i]

\* Mutant: the range of the window is not tested.
OnResponseUntested ==
  /\ at = "response"
  /\ at' = "open"
  /\ compression' = IF Asked = {} THEN None ELSE FromOptions(Agreed)
  /\ UNCHANGED <<response, sending, arriving, receiving>>

\* One extension after another: an option that is not valid rejects the
\* connection, otherwise the last permessage-deflate is in force.
OnResponse ==
  /\ at = "response"
  /\ LET ok == \A i \in Asked : Valid(response[i].serverBits) /\ Valid(response[i].clientBits)
     IN  /\ at' = IF ok THEN "open" ELSE "rejected"
         /\ compression' = IF ok /\ Asked # {} THEN FromOptions(Agreed) ELSE None
  /\ UNCHANGED <<response, sending, arriving, receiving>>

-----------------------------------------------------------------------------
(* send_text() and send_binary(), Deflate.compress(), write() *)

Goto(t, p) == pc' = [pc EXCEPT ![t] = p]

\* A message is its number; plain, it is its own data.
Send(t) ==
  /\ pc[t] = "idle"
  /\ at \in {"open", "closing"}
  /\ begun < MaxMessages
  /\ begun' = begun + 1
  /\ frame' = [frame EXCEPT ![t] =
                 [rsv1 |-> FALSE, message |-> begun', past |-> <<>>, body |-> <<begun'>>]]
  /\ Goto(t, IF t \in Deflaters /\ compression # None THEN "compress" ELSE "write")
  /\ UNCHANGED <<setUp, at, compressor, arriving, receiving>>

\* The compressor object's compress() ...
CompressCall(t) ==
  /\ pc[t] = "compress"
  /\ compressor' = [compressor EXCEPT !.fed = Append(@, frame[t].message)]
  /\ Goto(t, "flush")
  /\ UNCHANGED <<setUp, at, frame, begun, arriving, receiving>>

\* Mutant: the compressor is kept although the server asked for a reset.
FlushAndKeep(t) ==
  /\ pc[t] = "flush"
  /\ frame' = [frame EXCEPT ![t].rsv1 = TRUE, ![t].body = compressor.fed,
                 ![t].past = Reached(compressor.past, Window(compression.compressBits))]
  /\ compressor' = [past |-> compressor.past \o compressor.fed, fed |-> <<>>]
  /\ Goto(t, "write")
  /\ UNCHANGED <<setUp, at, begun, arriving, receiving>>

\* ... and its flush(): other threads run in between, and before write().
Flush(t) ==
  /\ pc[t] = "flush"
  /\ frame' = [frame EXCEPT ![t].rsv1 = TRUE, ![t].body = compressor.fed,
                 ![t].past = Reached(compressor.past, Window(compression.compressBits))]
  /\ compressor' = [past |-> compressor.past \o compressor.fed, fed |-> <<>>]
  /\ Goto(t, IF compression.resetCompress THEN "reset" ELSE "write")
  /\ UNCHANGED <<setUp, at, begun, arriving, receiving>>

ResetCompressor(t) ==
  /\ pc[t] = "reset"
  /\ compressor' = Fresh
  /\ Goto(t, "write")
  /\ UNCHANGED <<setUp, at, frame, begun, arriving, receiving>>

\* What the server does with a frame, by its answer.  It makes nothing of one
\* that refers to more than its decompressor holds.
ServerReceives(f) ==
  LET known == f.rsv1 => IsSuffix(f.past, serverContext)
  IN  /\ understood' = Append(understood, IF known THEN f.body ELSE <<>>)
      /\ serverContext' =
           IF ~f.rsv1 THEN serverContext
           ELSE IF Agreed.clientReset THEN <<>>
           ELSE Held(serverContext \o f.body, Bits(Agreed.clientBits))

\* Once the websocket is closing no frame gets through any more.
Write(t) ==
  /\ pc[t] = "write"
  /\ \/ at = "open" /\ sent' = Append(sent, frame[t].message) /\ ServerReceives(frame[t])
     \/ at # "open" /\ UNCHANGED arriving
  /\ frame' = [frame EXCEPT ![t] = NoFrame]
  /\ Goto(t, "idle")
  /\ UNCHANGED <<setUp, at, compressor, begun, receiving>>

\* close(), or a connection that broke: write() raises from now on.
Close ==
  /\ at = "open"
  /\ at' = "closing"
  /\ UNCHANGED <<setUp, sending, arriving, receiving>>

-----------------------------------------------------------------------------
(* A message from the server, and Message.build() *)

\* Mutant: every message resets the decompressor.
AfterDecompressEmptied(past) == <<>>

\* Deflate.decompress(): the context once the message is added to it.
AfterDecompress(past) ==
  IF compression.resetDecompress THEN <<>> ELSE Held(past, compression.decompressBits)

\* What a server that keeps to its answer refers to.
ServerRefersTo ==
  IF Agreed.serverReset THEN <<>> ELSE Reached(serverPast, Bits(Agreed.serverBits))

ReceivePlain ==
  /\ at \in {"open", "closing"}
  /\ produced < MaxMessages
  /\ produced' = produced + 1
  /\ received' = Append(received, produced')
  /\ UNCHANGED <<setUp, at, sending, arriving, decompressor, serverPast, honest>>

\* Data that refers to anything else raises an error of zlib, which becomes a
\* CriticalProtocolError.
ReceiveCompressed ==
  /\ at \in {"open", "closing"}
  /\ compression # None
  /\ produced < MaxMessages
  /\ produced' = produced + 1
  /\ serverPast' = Append(serverPast, produced')
  /\ \E past \in {ServerRefersTo, Append(decompressor, produced')} :
       /\ honest' = (honest /\ past = ServerRefersTo)
       /\ \/ /\ IsSuffix(past, decompressor)
             /\ received' = Append(received, produced')
             /\ decompressor' = AfterDecompress(Append(decompressor, produced'))
             /\ UNCHANGED at
          \/ /\ ~IsSuffix(past, decompressor)
             /\ at' = "failed"
             /\ UNCHANGED <<received, decompressor>>
  /\ UNCHANGED <<setUp, sending, arriving>>

-----------------------------------------------------------------------------
Terminated ==
  /\ \/ at = "rejected" \/ at = "failed"
     \/ begun = MaxMessages /\ produced = MaxMessages
  /\ \A t \in Senders : pc[t] = "idle"
  /\ UNCHANGED vars

Next ==
  \/ OnResponse
  \/ \E t \in Senders :
       Send(t) \/ CompressCall(t) \/ Flush(t) \/ ResetCompressor(t) \/ Write(t)
  \/ Close
  \/ ReceivePlain \/ ReceiveCompressed
  \/ Terminated

Spec == Init /\ [][Next]_vars

-----------------------------------------------------------------------------
\* Every frame on the wire decompresses, in the order of the wire, into the
\* message of the call that sent it (websocket.py:580, compression.py).
ServerReads == understood = [i \in DOMAIN sent |-> <<sent[i]>>]

\* A server that keeps to its answer is understood, message after message,
\* whichever of them it compresses (compression.py, decompress).
ClientReads == honest => at # "failed" /\ received = [i \in 1..produced |-> i]
=============================================================================
