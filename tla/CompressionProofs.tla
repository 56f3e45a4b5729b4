--------------------------- MODULE CompressionProofs ---------------------------
(***************************************************************************)
(* What holds of Compression.tla for any number of messages, every answer  *)
(* of a server and any number of threads, as long as no two of them        *)
(* compress: each side understands the other.                              *)
(***************************************************************************)
EXTENDS Compression, SequenceTheorems, WellFoundedInduction, TLAPS

(* The newest messages of a sequence *)

\* How many there are, and which.
LEMMA NewestIs ==
  ASSUME NEW s \in Messages, NEW n \in Nat
  PROVE  /\ Newest(s, n) \in Messages
         /\ Len(Newest(s, n)) = IF Len(s) <= n THEN Len(s) ELSE n
         /\ \A i \in 1..Len(Newest(s, n)) :
              Newest(s, n)[i] = s[i + Len(s) - Len(Newest(s, n))]
<1>1. s \in Seq(Nat) /\ Len(s) \in Nat
  BY DEF Messages
<1>2. CASE Len(s) <= n
  BY <1>1, <1>2 DEF Newest, Messages
<1>3. CASE ~(Len(s) <= n)
  <2> DEFINE t == SubSeq(s, Len(s) - n + 1, Len(s))
  <2>1. t \in Seq(Nat) /\ Len(t) = n
    BY <1>1, <1>3
  <2>2. \A i \in 1..n : t[i] = s[i + Len(s) - n]
    <3> SUFFICES ASSUME NEW i \in 1..n PROVE t[i] = s[i + Len(s) - n]
      OBVIOUS
    <3>1. t[i] = s[Len(s) - n + 1 + i - 1]
      <4>1. /\ Len(s) - n + 1 \in Int /\ Len(s) \in Int
            /\ \A j \in (Len(s) - n + 1)..Len(s) : s[j] \in Nat
            /\ i \in 1..(Len(s) - (Len(s) - n + 1) + 1)
        BY <1>1, <1>3
      <4> QED
        BY <4>1, SubSeqProperties
    <3>2. Len(s) - n + 1 + i - 1 = i + Len(s) - n
      BY <1>1
    <3> QED
      BY <3>1, <3>2
  <2>3. Newest(s, n) = t
    BY <1>3 DEF Newest
  <2> HIDE DEF t
  <2> QED
    BY <1>3, <2>1, <2>2, <2>3 DEF Messages
<1> QED
  BY <1>2, <1>3

\* Fewer of them are a suffix of more.
LEMMA NewestSuffix ==
  ASSUME NEW s \in Messages, NEW n \in Nat, NEW k \in Nat, k <= n
  PROVE  IsSuffix(Newest(s, k), Newest(s, n))
<1> DEFINE a == Newest(s, k)
           b == Newest(s, n)
<1>0. Len(s) \in Nat
  BY DEF Messages
<1>1. /\ a \in Seq(Nat) /\ b \in Seq(Nat) /\ Len(a) <= Len(b)
      /\ Len(a) \in Nat /\ Len(b) \in Nat
      /\ \A i \in 1..Len(a) : a[i] = s[i + Len(s) - Len(a)]
      /\ \A i \in 1..Len(b) : b[i] = s[i + Len(s) - Len(b)]
  BY <1>0, NewestIs DEF Messages
<1> HIDE DEF a, b
<1>2. /\ Reverse(a) \in Seq(Nat) /\ Len(Reverse(a)) = Len(a)
      /\ Reverse(b) \in Seq(Nat) /\ Len(Reverse(b)) = Len(b)
  <2>1. ASSUME NEW c \in Seq(Nat) PROVE Reverse(c) \in Seq(Nat) /\ Len(Reverse(c)) = Len(c)
    <3>1. \A i \in 1..Len(c) : c[Len(c) - i + 1] \in Nat
      OBVIOUS
    <3> QED
      BY <3>1 DEF Reverse
  <2> QED
    BY <1>1, <2>1
<1>3. ASSUME NEW i \in 1..Len(a) PROVE Reverse(a)[i] = Reverse(b)[i]
  <2>1. Reverse(a)[i] = a[Len(a) - i + 1] /\ Reverse(b)[i] = b[Len(b) - i + 1]
    BY <1>1 DEF Reverse
  <2>2. /\ Len(a) - i + 1 \in 1..Len(a) /\ Len(b) - i + 1 \in 1..Len(b)
        /\ Len(a) - i + 1 + Len(s) - Len(a) = Len(s) - i + 1
        /\ Len(b) - i + 1 + Len(s) - Len(b) = Len(s) - i + 1
    BY <1>0, <1>1
  <2>3. a[Len(a) - i + 1] = s[Len(s) - i + 1] /\ b[Len(b) - i + 1] = s[Len(s) - i + 1]
    BY <1>1, <2>2, SMTT(30)
  <2> QED
    BY <2>1, <2>3
<1>4. SubSeq(Reverse(a), 1, Len(a)) = SubSeq(Reverse(b), 1, Len(a))
  <2> DEFINE x == SubSeq(Reverse(a), 1, Len(a))
             y == SubSeq(Reverse(b), 1, Len(a))
  <2>1. /\ x \in Seq(Nat) /\ y \in Seq(Nat) /\ Len(x) = Len(a) /\ Len(y) = Len(a)
        /\ \A i \in 1..Len(a) : x[i] = Reverse(a)[i] /\ y[i] = Reverse(b)[i]
    <3>1. ASSUME NEW c \in Seq(Nat), Len(a) <= Len(c)
          PROVE  /\ SubSeq(c, 1, Len(a)) \in Seq(Nat) /\ Len(SubSeq(c, 1, Len(a))) = Len(a)
                 /\ \A i \in 1..Len(a) : SubSeq(c, 1, Len(a))[i] = c[i]
      <4>1. \A i \in 1..Len(a) : c[i] \in Nat
        <5> SUFFICES ASSUME NEW i \in 1..Len(a) PROVE c[i] \in Nat
          OBVIOUS
        <5>1. i \in 1..Len(c)
          BY <1>1, <3>1
        <5> QED
          BY <5>1, ElementOfSeq
      <4>2. 1 \in Int /\ Len(a) \in Int /\ Len(a) - 1 + 1 = Len(a)
        BY <1>1
      <4>3. /\ SubSeq(c, 1, Len(a)) \in Seq(Nat)
            /\ Len(SubSeq(c, 1, Len(a))) = IF 1 <= Len(a) THEN Len(a) - 1 + 1 ELSE 0
            /\ \A i \in 1..(Len(a) - 1 + 1) : SubSeq(c, 1, Len(a))[i] = c[1 + i - 1]
        BY <4>1, <4>2, SubSeqProperties
      <4>4. \A i \in 1..Len(a) : 1 + i - 1 = i
        OBVIOUS
      <4> QED
        BY <1>1, <4>2, <4>3, <4>4
    <3>2. Len(a) <= Len(Reverse(a)) /\ Len(a) <= Len(Reverse(b))
      BY <1>1, <1>2
    <3>3. /\ x \in Seq(Nat) /\ Len(x) = Len(a)
          /\ \A i \in 1..Len(a) : x[i] = Reverse(a)[i]
      BY <1>2, <3>1, <3>2
    <3>4. /\ y \in Seq(Nat) /\ Len(y) = Len(a)
          /\ \A i \in 1..Len(a) : y[i] = Reverse(b)[i]
      BY <1>2, <3>1, <3>2
    <3> QED
      BY <3>3, <3>4
  <2> HIDE DEF x, y
  <2>2. x = y
    BY <1>3, <2>1, SeqEqual
  <2> QED
    BY <2>2 DEF x, y
<1> QED
  BY <1>1, <1>2, <1>4 DEF IsSuffix, IsPrefix, a, b

\* What is older than the newest messages does not matter to what follows.
LEMMA NewestAppend ==
  ASSUME NEW s \in Messages, NEW m \in Nat, NEW n \in Nat, n > 0
  PROVE  Newest(Append(Newest(s, n), m), n) = Newest(Append(s, m), n)
<1> DEFINE a == Newest(s, n)
           x == Newest(Append(a, m), n)
           y == Newest(Append(s, m), n)
<1>0. s \in Seq(Nat) /\ Len(s) \in Nat
  BY DEF Messages
<1>1. /\ a \in Messages /\ Len(a) = IF Len(s) <= n THEN Len(s) ELSE n
      /\ \A i \in 1..Len(a) : a[i] = s[i + Len(s) - Len(a)]
  BY NewestIs
<1> HIDE DEF a
<1>2. a \in Seq(Nat) /\ Len(a) \in Nat
  BY <1>1 DEF Messages
<1>3. /\ Append(a, m) \in Messages /\ Len(Append(a, m)) = Len(a) + 1
      /\ Append(s, m) \in Messages /\ Len(Append(s, m)) = Len(s) + 1
      /\ \A i \in 1..Len(a) : Append(a, m)[i] = a[i]
      /\ \A i \in 1..Len(s) : Append(s, m)[i] = s[i]
      /\ Append(a, m)[Len(a) + 1] = m /\ Append(s, m)[Len(s) + 1] = m
  BY <1>0, <1>2 DEF Messages
<1>n. ASSUME NEW c \in Messages, NEW l, Len(c) = l
      PROVE  /\ Newest(c, n) \in Seq(Nat)
             /\ Len(Newest(c, n)) = IF l <= n THEN l ELSE n
             /\ \A i \in 1..Len(Newest(c, n)) : Newest(c, n)[i] = c[i + l - Len(Newest(c, n))]
  BY <1>n, NewestIs DEF Messages
<1>4. /\ x \in Seq(Nat)
      /\ Len(x) = IF Len(a) + 1 <= n THEN Len(a) + 1 ELSE n
      /\ \A i \in 1..Len(x) : x[i] = Append(a, m)[i + (Len(a) + 1) - Len(x)]
  BY <1>3, <1>n
<1>5. /\ y \in Seq(Nat)
      /\ Len(y) = IF Len(s) + 1 <= n THEN Len(s) + 1 ELSE n
      /\ \A i \in 1..Len(y) : y[i] = Append(s, m)[i + (Len(s) + 1) - Len(y)]
  BY <1>3, <1>n
<1> HIDE DEF x, y
<1>6. Len(x) = Len(y) /\ Len(x) \in Nat /\ Len(x) <= Len(a) + 1 /\ Len(a) <= Len(s)
  BY <1>0, <1>1, <1>2, <1>4, <1>5, SMTT(30)
<1>7. ASSUME NEW i \in 1..Len(x) PROVE x[i] = y[i]
  <2>1. x[i] = Append(a, m)[i + (Len(a) + 1) - Len(x)]
    BY <1>4
  <2>2. y[i] = Append(s, m)[i + (Len(s) + 1) - Len(x)]
    BY <1>5, <1>6
  <2>3. CASE i = Len(x)
    <3>1. i + (Len(a) + 1) - Len(x) = Len(a) + 1 /\ i + (Len(s) + 1) - Len(x) = Len(s) + 1
      BY <1>0, <1>2, <1>6, <2>3
    <3> QED
      BY <1>3, <2>1, <2>2, <3>1
  <2>4. CASE i # Len(x)
    <3> DEFINE j == i + (Len(a) + 1) - Len(x)
    <3>1. j \in 1..Len(a) /\ i + (Len(s) + 1) - Len(x) \in 1..Len(s)
          /\ j + Len(s) - Len(a) = i + (Len(s) + 1) - Len(x)
      BY <1>0, <1>2, <1>6, <2>4
    <3> HIDE DEF j
    <3>2. Append(a, m)[j] = a[j] /\ a[j] = s[i + (Len(s) + 1) - Len(x)]
      BY <1>1, <1>3, <3>1
    <3> QED
      BY <1>3, <2>1, <2>2, <3>1, <3>2 DEF j
  <2> QED
    BY <2>3, <2>4
<1>8. x = y
  BY <1>4, <1>5, <1>6, <1>7, SeqEqual
<1> QED
  BY <1>8 DEF x, y, a

-----------------------------------------------------------------------------
(* The answer that is in force *)

\* If the server answered with permessage-deflate, there is a last such answer.
LEMMA AgreedIs ==
  ASSUME response \in Responses, Asked # {}
  PROVE  \E i \in Asked : Agreed = response[i] /\ response[i] \in Extension
<1>1. response \in Seq(Extension)
  BY CompressionAssumption
<1>2. Asked \subseteq 1..Len(response) /\ Len(response) \in Nat
  BY <1>1 DEF Asked
<1> DEFINE n == Len(response)
           T == {n - i : i \in Asked}
<1>3. T \subseteq Nat /\ T # {}
  <2>1. \A i \in Asked : n - i \in Nat
    BY <1>2
  <2> QED
    BY <2>1
<1>4. PICK x \in T : \A y \in T : ~(<<y, x>> \in OpToRel(<, Nat))
  <2> HIDE DEF T
  <2> QED
    BY <1>3, NatLessThanWellFounded, WFMin
<1>5. \A y \in T : x <= y
  <2> SUFFICES ASSUME NEW y \in T PROVE x <= y
    OBVIOUS
  <2>1. x \in Nat /\ y \in Nat
    BY <1>3
  <2>2. ~(y < x)
    BY <1>4, <2>1 DEF OpToRel
  <2> QED
    BY <2>1, <2>2
<1>6. PICK i \in Asked : x = n - i
  OBVIOUS
<1>7. \A j \in Asked : j <= i
  <2> SUFFICES ASSUME NEW j \in Asked PROVE j <= i
    OBVIOUS
  <2>1. x <= n - j
    BY <1>5
  <2> QED
    BY <1>2, <1>6, <2>1
<1> DEFINE c == CHOOSE k \in Asked : \A j \in Asked : j <= k
<1>8. c \in Asked
  BY <1>7
<1>9. response[c] \in Extension
  <2> HIDE DEF c
  <2>1. c \in 1..Len(response)
    BY <1>2, <1>8
  <2> QED
    BY <1>1, <2>1, ElementOfSeq
<1> QED
  BY <1>8, <1>9 DEF Agreed

-----------------------------------------------------------------------------
(* Types *)

\* Nothing is compressed before the answer, or without it; the options in force
\* are those of the last answer, and valid.
NegotiatedInv ==
  /\ at = "response" =>
       /\ compression = None /\ compressor = Fresh
       /\ \A t \in Senders : pc[t] = "idle"
  /\ compression # None =>
       /\ Agreed \in Extension
       /\ Valid(Agreed.serverBits) /\ Valid(Agreed.clientBits)
       /\ compression = FromOptions(Agreed)

\* Where a thread is says what its frame is.
FrameInv(t) ==
  /\ pc[t] = "idle" => frame[t] = NoFrame
  /\ pc[t] \in {"compress", "flush", "reset"} => t \in Deflaters /\ compression # None
  /\ frame[t].rsv1 => t \in Deflaters /\ compression # None
  /\ pc[t] \in {"compress", "flush"} => ~frame[t].rsv1
  /\ pc[t] = "reset" => frame[t].rsv1 /\ compression.resetCompress

FramesInv == \A t \in Senders : FrameInv(t)

\* The options of a valid answer are those of a Deflate object.
LEMMA Options ==
  ASSUME NEW x \in Extension, Valid(x.serverBits), Valid(x.clientBits)
  PROVE  FromOptions(x) \in Deflate /\ FromOptions(x) # None
<1>1. /\ Bits(x.serverBits) \in 8..15 /\ Bits(x.clientBits) \in 8..15
      /\ x.serverReset \in BOOLEAN /\ x.clientReset \in BOOLEAN
  BY DEF Valid, Extension
<1>2. FromOptions(x) \in Deflate
  BY <1>1 DEF FromOptions, Deflate
<1>3. FromOptions(x) # None
  <2>1. DOMAIN FromOptions(x) # DOMAIN None
    BY DEF FromOptions, None
  <2> QED
    BY <2>1
<1> QED
  BY <1>2, <1>3

\* What is in force, in numbers.
LEMMA InForce ==
  ASSUME NegotiatedInv, compression # None
  PROVE  /\ compression \in Deflate
         /\ compression.compressBits = Bits(Agreed.clientBits)
         /\ compression.decompressBits = Bits(Agreed.serverBits)
         /\ compression.resetCompress = Agreed.clientReset
         /\ compression.resetDecompress = Agreed.serverReset
         /\ compression.compressBits \in 8..15 /\ compression.decompressBits \in 8..15
         /\ compression.resetCompress \in BOOLEAN /\ compression.resetDecompress \in BOOLEAN
<1>1. compression \in Deflate /\ compression = FromOptions(Agreed)
  BY Options DEF NegotiatedInv
<1> QED
  BY <1>1 DEF FromOptions, Deflate

\* Contexts are sequences of messages.
LEMMA ContextTypes ==
  ASSUME NEW s \in Messages, NEW bits \in 8..15
  PROVE  Held(s, bits) \in Messages /\ Reached(s, Window(bits)) \in Messages
         /\ Reached(s, bits) \in Messages
<1>1. bits - 7 \in Nat /\ Window(bits) - 7 \in Nat /\ 1 \in Nat
  BY DEF Window
<1>2. ASSUME NEW n \in Nat PROVE Newest(s, n) \in Messages
  BY NewestIs
<1> QED
  BY <1>1, <1>2 DEF Held, Reached

\* A step of thread t moves no other thread.
LEMMA Moves ==
  ASSUME NEW t \in Senders, NEW p, pc \in [Senders -> {"idle", "compress", "flush", "reset", "write"}],
         Goto(t, p)
  PROVE  pc'[t] = p /\ \A u \in Senders : u # t => pc'[u] = pc[u]
BY DEF Goto

\* What flush() makes of the frame of thread t, and of no other.
LEMMA Flushed ==
  ASSUME CompressionTypeOK, NEW t \in Senders, Flush(t)
  PROVE  /\ frame'[t] = [rsv1 |-> TRUE, message |-> frame[t].message,
                         past |-> Reached(compressor.past, Window(compression.compressBits)),
                         body |-> compressor.fed]
         /\ \A u \in Senders : u # t => frame'[u] = frame[u]
         /\ DOMAIN frame' = Senders
         /\ compressor' = [past |-> compressor.past \o compressor.fed, fed |-> <<>>]
<1>1. frame \in [Senders -> Frame] /\ frame[t] \in Frame
  BY DEF CompressionTypeOK
<1> QED
  BY <1>1 DEF Flush, Frame

\* Every step keeps what was negotiated.
LEMMA NegotiatedNext ==
  CompressionTypeOK /\ NegotiatedInv /\ [Next]_vars => NegotiatedInv'
<1> SUFFICES ASSUME CompressionTypeOK, NegotiatedInv, [Next]_vars PROVE NegotiatedInv'
    OBVIOUS
<1>a. ASSUME UNCHANGED setUp, at' # "response" PROVE NegotiatedInv'
  BY <1>a DEF NegotiatedInv, setUp, Agreed, Asked
<1>1. CASE OnResponse
  <2>1. at' # "response" /\ UNCHANGED response
    BY <1>1 DEF OnResponse
  <2>2. UNCHANGED Agreed
    BY <2>1 DEF Agreed, Asked
  <2>3. CASE compression' = None
    BY <2>1, <2>3 DEF NegotiatedInv
  <2>4. CASE compression' # None
    <3>1. /\ compression' = FromOptions(Agreed) /\ Asked # {}
          /\ \A i \in Asked : Valid(response[i].serverBits) /\ Valid(response[i].clientBits)
      BY <1>1, <2>4 DEF OnResponse
    <3>2. \E i \in Asked : Agreed = response[i] /\ response[i] \in Extension
      BY <3>1, AgreedIs DEF CompressionTypeOK
    <3>3. Agreed \in Extension /\ Valid(Agreed.serverBits) /\ Valid(Agreed.clientBits)
      BY <3>1, <3>2
    <3> QED
      BY <2>1, <2>2, <3>1, <3>3 DEF NegotiatedInv, FromOptions
  <2> QED
    BY <2>3, <2>4
<1>2. ASSUME NEW t \in Senders, Send(t) \/ Write(t) PROVE NegotiatedInv'
  BY <1>2, <1>a DEF Send, Write, NegotiatedInv
<1>3. ASSUME NEW t \in Senders, CompressCall(t) \/ Flush(t) \/ ResetCompressor(t)
      PROVE  NegotiatedInv'
  BY <1>3, <1>a DEF CompressCall, Flush, ResetCompressor, NegotiatedInv
<1>4. CASE Close
  BY <1>4, <1>a DEF Close
<1>5. CASE ReceivePlain
  BY <1>5, <1>a DEF ReceivePlain
<1>6. CASE ReceiveCompressed
  BY <1>6, <1>a DEF ReceiveCompressed
<1>7. CASE UNCHANGED vars
  BY <1>7 DEF vars, NegotiatedInv, Agreed, Asked
<1> QED
  BY <1>1, <1>2, <1>3, <1>4, <1>5, <1>6, <1>7 DEF Next, Terminated

\* Every step keeps the frames what they are for their threads.
LEMMA FramesNext ==
  CompressionTypeOK /\ NegotiatedInv /\ FramesInv /\ [Next]_vars => FramesInv'
<1> SUFFICES ASSUME CompressionTypeOK, NegotiatedInv, FramesInv, [Next]_vars PROVE FramesInv'
    OBVIOUS
<1>0. /\ pc \in [Senders -> {"idle", "compress", "flush", "reset", "write"}]
      /\ frame \in [Senders -> Frame]
  BY DEF CompressionTypeOK
<1>a. ASSUME UNCHANGED <<compression, pc, frame>> PROVE FramesInv'
  BY <1>a DEF FramesInv, FrameInv
<1>b. ASSUME NEW t \in Senders, UNCHANGED compression, FrameInv(t)',
             \A u \in Senders : u # t => pc'[u] = pc[u] /\ frame'[u] = frame[u]
      PROVE  FramesInv'
  <2> SUFFICES ASSUME NEW u \in Senders, u # t PROVE FrameInv(u)'
    BY <1>b DEF FramesInv
  <2>1. FrameInv(u) /\ UNCHANGED <<pc[u], frame[u], compression>>
    BY <1>b DEF FramesInv
  <2> QED
    BY <2>1 DEF FrameInv
<1>1. CASE OnResponse
  <2>1. UNCHANGED <<pc, frame>> /\ \A t \in Senders : pc[t] = "idle"
    BY <1>1 DEF OnResponse, sending, NegotiatedInv
  <2>2. \A t \in Senders : frame[t] = NoFrame
    BY <2>1 DEF FramesInv, FrameInv
  <2> QED
    BY <2>1, <2>2 DEF FramesInv, FrameInv, NoFrame
<1>2. ASSUME NEW t \in Senders, Send(t) PROVE FramesInv'
  <2>1. /\ pc'[t] = IF t \in Deflaters /\ compression # None THEN "compress" ELSE "write"
        /\ \A u \in Senders : u # t => pc'[u] = pc[u]
    BY <1>0, <1>2, Moves DEF Send
  <2>2. frame'[t].rsv1 = FALSE /\ \A u \in Senders : u # t => frame'[u] = frame[u]
    BY <1>0, <1>2 DEF Send
  <2>3. UNCHANGED compression
    BY <1>2 DEF Send, setUp
  <2> QED
    BY <1>b, <2>1, <2>2, <2>3 DEF FrameInv
<1>3. ASSUME NEW t \in Senders, CompressCall(t) PROVE FramesInv'
  <2>1. pc[t] = "compress" /\ pc'[t] = "flush" /\ \A u \in Senders : u # t => pc'[u] = pc[u]
    BY <1>0, <1>3, Moves DEF CompressCall
  <2>2. UNCHANGED <<frame, compression>>
    BY <1>3 DEF CompressCall, setUp
  <2> QED
    BY <1>b, <2>1, <2>2 DEF FrameInv, FramesInv
<1>4. ASSUME NEW t \in Senders, Flush(t) PROVE FramesInv'
  <2>1. /\ pc[t] = "flush" /\ pc'[t] = IF compression.resetCompress THEN "reset" ELSE "write"
        /\ \A u \in Senders : u # t => pc'[u] = pc[u]
    BY <1>0, <1>4, Moves DEF Flush
  <2>2. frame'[t].rsv1 = TRUE /\ \A u \in Senders : u # t => frame'[u] = frame[u]
    <3>1. frame'[t] = [rsv1 |-> TRUE, message |-> frame[t].message,
                       past |-> Reached(compressor.past, Window(compression.compressBits)),
                       body |-> compressor.fed]
      BY <1>4, Flushed
    <3>2. \A u \in Senders : u # t => frame'[u] = frame[u]
      BY <1>4, Flushed
    <3> QED
      BY <3>1, <3>2
  <2>3. UNCHANGED compression
    BY <1>4 DEF Flush, setUp
  <2> QED
    BY <1>b, <2>1, <2>2, <2>3 DEF FrameInv, FramesInv
<1>5. ASSUME NEW t \in Senders, ResetCompressor(t) PROVE FramesInv'
  <2>1. pc[t] = "reset" /\ pc'[t] = "write" /\ \A u \in Senders : u # t => pc'[u] = pc[u]
    BY <1>0, <1>5, Moves DEF ResetCompressor
  <2>2. UNCHANGED <<frame, compression>>
    BY <1>5 DEF ResetCompressor, setUp
  <2> QED
    BY <1>b, <2>1, <2>2 DEF FrameInv, FramesInv
<1>6. ASSUME NEW t \in Senders, Write(t) PROVE FramesInv'
  <2>1. pc'[t] = "idle" /\ \A u \in Senders : u # t => pc'[u] = pc[u]
    BY <1>0, <1>6, Moves DEF Write
  <2>2. frame'[t] = NoFrame /\ \A u \in Senders : u # t => frame'[u] = frame[u]
    BY <1>0, <1>6 DEF Write
  <2>3. UNCHANGED compression
    BY <1>6 DEF Write, setUp
  <2> QED
    BY <1>b, <2>1, <2>2, <2>3 DEF FrameInv, NoFrame
<1>7. CASE Close \/ ReceivePlain \/ ReceiveCompressed \/ UNCHANGED vars
  BY <1>7, <1>a DEF Close, ReceivePlain, ReceiveCompressed, vars, setUp, sending
<1> QED
  BY <1>1, <1>2, <1>3, <1>4, <1>5, <1>6, <1>7 DEF Next, Terminated

\* Every step keeps the types.
LEMMA TypeNext ==
  CompressionTypeOK /\ NegotiatedInv /\ FramesInv /\ [Next]_vars => CompressionTypeOK'
<1> SUFFICES ASSUME CompressionTypeOK, NegotiatedInv, FramesInv, [Next]_vars
             PROVE  CompressionTypeOK'
    OBVIOUS
<1>0. /\ response \in Responses
      /\ at \in {"response", "open", "closing", "rejected", "failed"}
      /\ compression \in Deflate \cup {None}
      /\ compressor \in [past : Messages, fed : Messages] /\ decompressor \in Messages
      /\ pc \in [Senders -> {"idle", "compress", "flush", "reset", "write"}]
      /\ frame \in [Senders -> Frame]
      /\ begun \in 0..MaxMessages
      /\ sent \in Messages /\ serverContext \in Messages /\ understood \in Seq(Messages)
      /\ serverPast \in Messages /\ produced \in 0..MaxMessages
      /\ received \in Messages /\ honest \in BOOLEAN
      /\ MaxMessages \in Nat
  BY CompressionAssumption DEF CompressionTypeOK
<1> DEFINE Setting == /\ response \in Responses
                      /\ at \in {"response", "open", "closing", "rejected", "failed"}
                      /\ compression \in Deflate \cup {None}
           Sent == /\ compressor \in [past : Messages, fed : Messages]
                   /\ pc \in [Senders -> {"idle", "compress", "flush", "reset", "write"}]
                   /\ frame \in [Senders -> Frame]
                   /\ begun \in 0..MaxMessages
           Arrival == /\ sent \in Messages /\ serverContext \in Messages
                      /\ understood \in Seq(Messages)
           Reception == /\ decompressor \in Messages /\ serverPast \in Messages
                        /\ produced \in 0..MaxMessages /\ received \in Messages
                        /\ honest \in BOOLEAN
<1>a. Setting' /\ Sent' /\ Arrival' /\ Reception' => CompressionTypeOK'
  BY DEF CompressionTypeOK
<1>b. UNCHANGED <<setUp, at>> => Setting'
  BY <1>0 DEF setUp
<1>c. UNCHANGED sending => Sent'
  BY <1>0 DEF sending
<1>d. UNCHANGED arriving => Arrival'
  BY <1>0 DEF arriving
<1>e. UNCHANGED receiving => Reception'
  BY <1>0 DEF receiving
<1>f. ASSUME NEW t \in Senders, NEW p \in {"idle", "compress", "flush", "reset", "write"}, Goto(t, p)
      PROVE  pc' \in [Senders -> {"idle", "compress", "flush", "reset", "write"}]
  BY <1>0, <1>f DEF Goto
<1> HIDE DEF Setting, Sent, Arrival, Reception
<1>1. CASE OnResponse
  <2>1. at' \in {"open", "rejected"} /\ UNCHANGED response
    BY <1>1 DEF OnResponse
  <2>2. compression' \in Deflate \cup {None}
    <3>1. CASE compression' = None
      BY <3>1
    <3>2. CASE compression' # None
      <4>1. /\ compression' = FromOptions(Agreed) /\ Asked # {}
            /\ \A i \in Asked : Valid(response[i].serverBits) /\ Valid(response[i].clientBits)
        BY <1>1, <3>2 DEF OnResponse
      <4>2. \E i \in Asked : Agreed = response[i] /\ response[i] \in Extension
        BY <1>0, <4>1, AgreedIs
      <4> QED
        BY <4>1, <4>2, Options
    <3> QED
      BY <3>1, <3>2
  <2>3. Setting'
    BY <1>0, <2>1, <2>2 DEF Setting
  <2> QED
    BY <1>1, <1>a, <1>c, <1>d, <1>e, <2>3 DEF OnResponse
<1>2. ASSUME NEW t \in Senders, Send(t) PROVE CompressionTypeOK'
  <2>1. begun' \in 0..MaxMessages /\ begun' \in Nat
    BY <1>0, <1>2 DEF Send
  <2>2. [rsv1 |-> FALSE, message |-> begun', past |-> <<>>, body |-> <<begun'>>] \in Frame
    BY <2>1 DEF Frame, Messages
  <2>3. frame' \in [Senders -> Frame]
    BY <1>0, <1>2, <2>2 DEF Send
  <2>4. pc' \in [Senders -> {"idle", "compress", "flush", "reset", "write"}]
    BY <1>2, <1>f DEF Send
  <2>5. Sent'
    BY <1>0, <1>2, <2>1, <2>3, <2>4 DEF Sent, Send
  <2> QED
    BY <1>2, <1>a, <1>b, <1>d, <1>e, <2>5 DEF Send
<1>3. ASSUME NEW t \in Senders, CompressCall(t) PROVE CompressionTypeOK'
  <2>1. compressor.fed \in Seq(Nat) /\ frame[t].message \in Nat
    BY <1>0 DEF Frame, Messages
  <2>2. Append(compressor.fed, frame[t].message) \in Messages
    BY <2>1 DEF Messages
  <2>3. compressor' \in [past : Messages, fed : Messages]
    BY <1>0, <1>3, <2>2 DEF CompressCall
  <2>4. pc' \in [Senders -> {"idle", "compress", "flush", "reset", "write"}]
    BY <1>3, <1>f DEF CompressCall
  <2>5. Sent'
    BY <1>0, <1>3, <2>3, <2>4 DEF Sent, CompressCall
  <2> QED
    BY <1>3, <1>a, <1>b, <1>d, <1>e, <2>5 DEF CompressCall
<1>4. ASSUME NEW t \in Senders, Flush(t) PROVE CompressionTypeOK'
  <2>1. /\ frame'[t] = [rsv1 |-> TRUE, message |-> frame[t].message,
                        past |-> Reached(compressor.past, Window(compression.compressBits)),
                        body |-> compressor.fed]
        /\ \A u \in Senders : u # t => frame'[u] = frame[u]
        /\ compressor' = [past |-> compressor.past \o compressor.fed, fed |-> <<>>]
    BY <1>4, Flushed
  <2>2. compression # None
    BY <1>4 DEF Flush, FramesInv, FrameInv
  <2>3. /\ compressor.past \in Messages /\ compressor.fed \in Messages
        /\ frame[t].message \in Nat
        /\ compression.compressBits \in 8..15
    BY <1>0, <2>2, InForce DEF Frame
  <2>4. Reached(compressor.past, Window(compression.compressBits)) \in Messages
    BY <2>3, ContextTypes
  <2>5. frame'[t] \in Frame
    BY <2>1, <2>3, <2>4 DEF Frame
  <2>6. frame' \in [Senders -> Frame]
    <3>1. frame' = [frame EXCEPT ![t] = frame'[t]]
      BY <1>0, <1>4 DEF Flush
    <3> QED
      BY <1>0, <2>5, <3>1
  <2>7. compressor' \in [past : Messages, fed : Messages]
    <3>1. compressor.past \o compressor.fed \in Messages /\ <<>> \in Messages
      BY <2>3 DEF Messages
    <3> QED
      BY <2>1, <3>1
  <2>8. pc' \in [Senders -> {"idle", "compress", "flush", "reset", "write"}]
    BY <1>4, <1>f DEF Flush
  <2>9. Sent'
    BY <1>0, <1>4, <2>6, <2>7, <2>8 DEF Sent, Flush
  <2> QED
    BY <1>4, <1>a, <1>b, <1>d, <1>e, <2>9 DEF Flush
<1>5. ASSUME NEW t \in Senders, ResetCompressor(t) PROVE CompressionTypeOK'
  <2>1. compressor' \in [past : Messages, fed : Messages]
    BY <1>5 DEF ResetCompressor, Fresh, Messages
  <2>2. pc' \in [Senders -> {"idle", "compress", "flush", "reset", "write"}]
    BY <1>5, <1>f DEF ResetCompressor
  <2>3. Sent'
    BY <1>0, <1>5, <2>1, <2>2 DEF Sent, ResetCompressor
  <2> QED
    BY <1>5, <1>a, <1>b, <1>d, <1>e, <2>3 DEF ResetCompressor
<1>6. ASSUME NEW t \in Senders, Write(t) PROVE CompressionTypeOK'
  <2>1. NoFrame \in Frame
    BY DEF NoFrame, Frame, Messages
  <2>2. frame' \in [Senders -> Frame]
    BY <1>0, <1>6, <2>1 DEF Write
  <2>3. pc' \in [Senders -> {"idle", "compress", "flush", "reset", "write"}]
    BY <1>6, <1>f DEF Write
  <2>4. Sent'
    BY <1>0, <1>6, <2>2, <2>3 DEF Sent, Write
  <2>5. Arrival'
    <3>1. CASE UNCHANGED arriving
      BY <1>d, <3>1
    <3>2. CASE sent' = Append(sent, frame[t].message) /\ ServerReceives(frame[t])
      <4>1. /\ frame[t].message \in Nat /\ frame[t].body \in Messages /\ <<>> \in Messages
            /\ sent \in Seq(Nat)
        BY <1>0 DEF Frame, Messages
      <4>2. sent' \in Messages
        BY <3>2, <4>1 DEF Messages
      <4>3. understood' \in Seq(Messages)
        BY <1>0, <3>2, <4>1 DEF ServerReceives
      <4>4. serverContext' \in Messages
        <5>1. CASE frame[t].rsv1
          <6>1. Bits(Agreed.clientBits) \in 8..15
            BY <5>1, InForce DEF FramesInv, FrameInv
          <6>2. serverContext \o frame[t].body \in Messages
            BY <1>0, <4>1 DEF Messages
          <6>3. Held(serverContext \o frame[t].body, Bits(Agreed.clientBits)) \in Messages
            BY <6>1, <6>2, ContextTypes
          <6> QED
            BY <3>2, <4>1, <5>1, <6>3 DEF ServerReceives
        <5>2. CASE ~frame[t].rsv1
          BY <1>0, <3>2, <5>2 DEF ServerReceives
        <5> QED
          BY <5>1, <5>2
      <4> QED
        BY <4>2, <4>3, <4>4 DEF Arrival
    <3> QED
      BY <1>6, <3>1, <3>2 DEF Write
  <2> QED
    BY <1>6, <1>a, <1>b, <1>e, <2>4, <2>5 DEF Write
<1>7. CASE Close
  <2>1. Setting'
    BY <1>0, <1>7 DEF Close, Setting, setUp
  <2> QED
    BY <1>7, <1>a, <1>c, <1>d, <1>e, <2>1 DEF Close
<1>8. CASE ReceivePlain
  <2>1. produced' \in 0..MaxMessages /\ produced' \in Nat
    BY <1>0, <1>8 DEF ReceivePlain
  <2>2. received' \in Messages
    BY <1>0, <1>8, <2>1 DEF ReceivePlain, Messages
  <2>3. Reception'
    BY <1>0, <1>8, <2>1, <2>2 DEF ReceivePlain, Reception
  <2> QED
    BY <1>8, <1>a, <1>b, <1>c, <1>d, <2>3 DEF ReceivePlain
<1>9. CASE ReceiveCompressed
  <2>1. produced' \in 0..MaxMessages /\ produced' \in Nat
    BY <1>0, <1>9 DEF ReceiveCompressed
  <2>2. Append(received, produced') \in Messages /\ Append(serverPast, produced') \in Messages
        /\ Append(decompressor, produced') \in Messages
    BY <1>0, <2>1 DEF Messages
  <2>3. compression.decompressBits \in 8..15
    BY <1>9, InForce DEF ReceiveCompressed
  <2>4. AfterDecompress(Append(decompressor, produced')) \in Messages
    <3>1. Held(Append(decompressor, produced'), compression.decompressBits) \in Messages
      BY <2>2, <2>3, ContextTypes
    <3>2. <<>> \in Messages
      BY DEF Messages
    <3> QED
      BY <3>1, <3>2 DEF AfterDecompress
  <2>5. /\ received' \in Messages /\ decompressor' \in Messages
        /\ at' \in {at, "failed"}
    BY <1>0, <1>9, <2>2, <2>4 DEF ReceiveCompressed
  <2>6. honest' \in BOOLEAN
    BY <1>9 DEF ReceiveCompressed
  <2>7. Reception' /\ Setting'
    BY <1>0, <1>9, <2>1, <2>2, <2>5, <2>6 DEF ReceiveCompressed, Reception, Setting, setUp
  <2> QED
    BY <1>9, <1>a, <1>c, <1>d, <2>7 DEF ReceiveCompressed
<1>10. CASE UNCHANGED vars
  BY <1>10, <1>a, <1>b, <1>c, <1>d, <1>e DEF vars, setUp, sending, arriving, receiving
<1> QED
  BY <1>1, <1>2, <1>3, <1>4, <1>5, <1>6, <1>7, <1>8, <1>9, <1>10 DEF Next, Terminated

\* What every state has: types, the options in force, and a frame for every thread.
Base == CompressionTypeOK /\ NegotiatedInv /\ FramesInv

LEMMA BaseInvariant == Spec => []Base
<1>1. Init => Base
  <2> SUFFICES ASSUME Init PROVE Base
    OBVIOUS
  <2>1. NoFrame \in Frame /\ <<>> \in Messages /\ <<>> \in Seq(Messages)
    BY DEF NoFrame, Frame, Messages
  <2>2. compressor \in [past : Messages, fed : Messages]
    BY <2>1 DEF Init, Fresh
  <2>3. CompressionTypeOK
    BY <2>1, <2>2, CompressionAssumption DEF Init, CompressionTypeOK
  <2>4. NegotiatedInv
    BY DEF Init, NegotiatedInv
  <2>5. FramesInv
    BY DEF Init, FramesInv, FrameInv, NoFrame
  <2> QED
    BY <2>3, <2>4, <2>5 DEF Base
<1>2. Base /\ [Next]_vars => Base'
  BY TypeNext, NegotiatedNext, FramesNext DEF Base
<1> QED
  BY <1>1, <1>2, PTL DEF Spec

\* Every variable keeps its type, for any number of threads and messages and every
\* answer: whatever the server asks for, no options get into a Deflate object that
\* zlib does not take.
THEOREM CompressionTyped == Spec => []CompressionTypeOK
<1>1. Base => CompressionTypeOK
  BY DEF Base
<1> QED
  BY <1>1, BaseInvariant, PTL

-----------------------------------------------------------------------------
(* What the client reads *)

\* The decompressor holds what the server compressed.
ReceiveInv ==
  /\ compression = None => decompressor = <<>> /\ serverPast = <<>>
  /\ at # "failed" =>
       /\ received = [i \in 1..produced |-> i]
       /\ compression # None =>
            decompressor = IF compression.resetDecompress THEN <<>>
                           ELSE Held(serverPast, compression.decompressBits)
  /\ honest => at # "failed"

\* One message more.
LEMMA OneMore ==
  ASSUME NEW n \in Nat
  PROVE  Append([i \in 1..n |-> i], n + 1) = [i \in 1..(n + 1) |-> i]
<1> DEFINE s == [i \in 1..n |-> i]
           u == [i \in 1..(n + 1) |-> i]
<1>1. s \in Seq(Nat) /\ Len(s) = n /\ \A i \in 1..n : s[i] = i
  OBVIOUS
<1>2. u \in Seq(Nat) /\ Len(u) = n + 1 /\ \A i \in 1..(n + 1) : u[i] = i
  OBVIOUS
<1> HIDE DEF s, u
<1>3. /\ Append(s, n + 1) \in Seq(Nat) /\ Len(Append(s, n + 1)) = n + 1
      /\ \A i \in 1..n : Append(s, n + 1)[i] = s[i]
      /\ Append(s, n + 1)[n + 1] = n + 1
  BY <1>1
<1>4. \A i \in 1..(n + 1) : Append(s, n + 1)[i] = u[i]
  BY <1>1, <1>2, <1>3
<1>5. Append(s, n + 1) = u
  BY <1>2, <1>3, <1>4, SeqEqual
<1> QED
  BY <1>5 DEF s, u

\* A window forgets only what is older than it.
LEMMA HeldAppend ==
  ASSUME NEW s \in Messages, NEW m \in Nat, NEW bits \in 8..15
  PROVE  Held(Append(Held(s, bits), m), bits) = Held(Append(s, m), bits)
<1>1. bits - 7 \in Nat /\ bits - 7 > 0
  OBVIOUS
<1> QED
  BY <1>1, NewestAppend DEF Held

\* A compressor never refers to more than a decompressor of its window holds,
\* also when zlib takes 9 bits for 8.
LEMMA ReachedIsHeld ==
  ASSUME NEW s \in Messages, NEW bits \in 8..15
  PROVE  /\ IsSuffix(Reached(s, bits), Held(s, bits))
         /\ IsSuffix(Reached(s, Window(bits)), Held(s, bits))
<1> DEFINE r(b) == IF b = 9 THEN 1 ELSE b - 7
<1>1. /\ bits - 7 \in Nat /\ r(bits) \in Nat /\ r(bits) <= bits - 7
      /\ r(Window(bits)) \in Nat /\ r(Window(bits)) <= bits - 7
  BY DEF Window
<1>2. /\ Reached(s, bits) = Newest(s, r(bits)) /\ Held(s, bits) = Newest(s, bits - 7)
      /\ Reached(s, Window(bits)) = Newest(s, r(Window(bits)))
  BY DEF Reached, Held
<1> HIDE DEF r
<1>3. ASSUME NEW k \in Nat, k <= bits - 7 PROVE IsSuffix(Newest(s, k), Newest(s, bits - 7))
  BY <1>1, <1>3, NewestSuffix
<1> QED
  BY <1>1, <1>2, <1>3

\* Nothing is a suffix of everything.
LEMMA EmptySuffix ==
  ASSUME NEW s \in Messages
  PROVE  IsSuffix(<<>>, s)
<1>1. Len(s) \in Nat /\ Newest(s, 0) \in Messages /\ Len(Newest(s, 0)) = 0
  BY NewestIs DEF Messages
<1>2. Newest(s, 0) = <<>>
  BY <1>1 DEF Messages
<1>3. Newest(s, Len(s)) = s
  BY <1>1 DEF Newest
<1>4. IsSuffix(Newest(s, 0), Newest(s, Len(s)))
  BY <1>1, NewestSuffix
<1> QED
  BY <1>2, <1>3, <1>4

\* An empty context is one in every window.
LEMMA HeldNothing ==
  ASSUME NEW bits \in 8..15
  PROVE  Held(<<>>, bits) = <<>> /\ Reached(<<>>, Window(bits)) = <<>>
<1>1. Len(<<>>) <= bits - 7 /\ Len(<<>>) <= 1 /\ Len(<<>>) <= Window(bits) - 7
  BY DEF Window
<1> QED
  BY <1>1 DEF Held, Reached, Newest

\* What is in force after a step, in numbers.
LEMMA InForceNext ==
  ASSUME NegotiatedInv', compression' # None
  PROVE  compression'.compressBits \in 8..15 /\ compression'.decompressBits \in 8..15
<1>1. /\ Agreed' \in Extension /\ Valid(Agreed'.serverBits) /\ Valid(Agreed'.clientBits)
      /\ compression' = FromOptions(Agreed')
  BY DEF NegotiatedInv, Valid, Bits, FromOptions
<1> QED
  BY <1>1, Options DEF Deflate

\* Every step keeps the two ends of what the server sends together.
LEMMA ReceiveNext == Base /\ ReceiveInv /\ [Next]_vars => ReceiveInv'
<1> SUFFICES ASSUME Base, ReceiveInv, [Next]_vars PROVE ReceiveInv'
    OBVIOUS
<1>0. /\ serverPast \in Messages /\ decompressor \in Messages /\ produced \in Nat
      /\ at \in {"response", "open", "closing", "rejected", "failed"}
  BY CompressionAssumption DEF Base, CompressionTypeOK
<1>a. ASSUME UNCHANGED <<compression, receiving>>, at' = "failed" <=> at = "failed"
      PROVE  ReceiveInv'
  <2>1. UNCHANGED <<compression, decompressor, serverPast, produced, received, honest>>
    BY <1>a DEF receiving
  <2>2. Held(serverPast, compression.decompressBits)'
          = Held(serverPast, compression.decompressBits)
    BY <2>1 DEF Held, Newest
  <2>3. /\ compression' = None => decompressor' = <<>> /\ serverPast' = <<>>
        /\ honest' => at' # "failed"
    BY <1>a, <2>1 DEF ReceiveInv
  <2>4. ASSUME at' # "failed"
        PROVE  /\ received' = [i \in 1..produced' |-> i]
               /\ compression' # None =>
                    decompressor' = IF compression'.resetDecompress THEN <<>>
                                    ELSE Held(serverPast', compression'.decompressBits)
    <3>1. at # "failed"
      BY <1>a, <2>4
    <3>2. /\ received = [i \in 1..produced |-> i]
          /\ compression # None =>
               decompressor = IF compression.resetDecompress THEN <<>>
                              ELSE Held(serverPast, compression.decompressBits)
      BY <3>1 DEF ReceiveInv
    <3> QED
      BY <2>1, <3>2
  <2> QED
    BY <2>2, <2>3, <2>4 DEF ReceiveInv, Held, Newest
<1>1. CASE OnResponse
  <2>1. /\ at' # "failed" /\ at = "response" /\ UNCHANGED receiving
    BY <1>1 DEF OnResponse
  <2>2. /\ compression = None /\ received = [i \in 1..produced |-> i]
        /\ decompressor = <<>> /\ serverPast = <<>>
    BY <2>1 DEF Base, NegotiatedInv, ReceiveInv
  <2>3. compression' # None => compression'.decompressBits \in 8..15
    BY NegotiatedNext, InForceNext DEF Base
  <2> QED
    BY <2>1, <2>2, <2>3, HeldNothing DEF ReceiveInv, receiving
<1>2. ASSUME NEW t \in Senders,
             Send(t) \/ CompressCall(t) \/ Flush(t) \/ ResetCompressor(t) \/ Write(t)
      PROVE  ReceiveInv'
  BY <1>2, <1>a DEF Send, CompressCall, Flush, ResetCompressor, Write, setUp
<1>3. CASE Close
  BY <1>3, <1>a DEF Close, setUp
<1>4. CASE ReceivePlain
  <2>1. /\ produced' = produced + 1 /\ received' = Append(received, produced')
        /\ UNCHANGED <<compression, at, decompressor, serverPast, honest>>
        /\ at # "failed"
    BY <1>4 DEF ReceivePlain, setUp
  <2>2. received' = [i \in 1..produced' |-> i]
    BY <1>0, <2>1, OneMore DEF ReceiveInv
  <2> QED
    BY <2>1, <2>2 DEF ReceiveInv
<1>5. CASE ReceiveCompressed
  <2>1. /\ compression # None /\ produced' = produced + 1 /\ at # "failed"
        /\ serverPast' = Append(serverPast, produced') /\ UNCHANGED compression
    BY <1>5 DEF ReceiveCompressed, setUp
  <2>2. PICK past :
          /\ honest' = (honest /\ past = ServerRefersTo)
          /\ \/ /\ IsSuffix(past, decompressor)
                /\ received' = Append(received, produced')
                /\ decompressor' = AfterDecompress(Append(decompressor, produced'))
                /\ UNCHANGED at
             \/ /\ ~IsSuffix(past, decompressor)
                /\ at' = "failed"
    BY <1>5 DEF ReceiveCompressed
  <2>3. /\ compression.decompressBits = Bits(Agreed.serverBits)
        /\ compression.resetDecompress = Agreed.serverReset
        /\ compression.decompressBits \in 8..15
    BY <2>1, InForce DEF Base
  <2>4. decompressor = IF compression.resetDecompress THEN <<>>
                       ELSE Held(serverPast, compression.decompressBits)
    BY <2>1 DEF ReceiveInv
  <2>5. IsSuffix(ServerRefersTo, decompressor)
    <3>1. CASE compression.resetDecompress
      BY <1>0, <2>3, <3>1, EmptySuffix DEF ServerRefersTo
    <3>2. CASE ~compression.resetDecompress
      BY <1>0, <2>3, <2>4, <3>2, ReachedIsHeld DEF ServerRefersTo
    <3> QED
      BY <3>1, <3>2
  <2>6. CASE IsSuffix(past, decompressor)
    <3>1. /\ received' = Append(received, produced') /\ UNCHANGED at
          /\ decompressor' = AfterDecompress(Append(decompressor, produced'))
      BY <2>2, <2>6
    <3>2. received' = [i \in 1..produced' |-> i]
      BY <1>0, <2>1, <3>1, OneMore DEF ReceiveInv
    <3>3. decompressor' = IF compression.resetDecompress THEN <<>>
                          ELSE Held(serverPast', compression.decompressBits)
      <4>1. CASE compression.resetDecompress
        BY <3>1, <4>1 DEF AfterDecompress
      <4>2. CASE ~compression.resetDecompress
        <5>1. decompressor' = Held(Append(decompressor, produced'), compression.decompressBits)
          BY <3>1, <4>2 DEF AfterDecompress
        <5>2. produced' \in Nat
          BY <1>0, <2>1
        <5>3. decompressor = Held(serverPast, compression.decompressBits)
          BY <2>4, <4>2
        <5>4. ASSUME NEW m \in Nat
              PROVE  Held(Append(Held(serverPast, compression.decompressBits), m),
                          compression.decompressBits)
                       = Held(Append(serverPast, m), compression.decompressBits)
          BY <1>0, <2>3, HeldAppend
        <5> QED
          BY <2>1, <4>2, <5>1, <5>2, <5>3, <5>4
      <4> QED
        BY <4>1, <4>2
    <3> QED
      BY <2>1, <3>1, <3>2, <3>3 DEF ReceiveInv, Held, Newest
  <2>7. CASE ~IsSuffix(past, decompressor)
    <3>1. at' = "failed" /\ ~honest'
      BY <2>2, <2>5, <2>7
    <3> QED
      BY <2>1, <3>1 DEF ReceiveInv
  <2> QED
    BY <2>6, <2>7
<1>6. CASE UNCHANGED vars
  BY <1>6, <1>a DEF vars, receiving
<1> QED
  BY <1>1, <1>2, <1>3, <1>4, <1>5, <1>6 DEF Next, Terminated

\* Every message of a server that keeps to its answer is understood
\* (compression.py, decompress), for every answer, any number of messages and any
\* mixture of compressed and plain ones.
THEOREM Understands == Spec => []ClientReads
<1>1. Init => ReceiveInv
  <2> SUFFICES ASSUME Init PROVE ReceiveInv
    OBVIOUS
  <2>1. [i \in 1..0 |-> i] = <<>>
    OBVIOUS
  <2> QED
    BY <2>1 DEF Init, ReceiveInv
<1>2. ReceiveInv => ClientReads
  BY DEF ReceiveInv, ClientReads
<1> QED
  BY <1>1, <1>2, ReceiveNext, BaseInvariant, PTL DEF Spec

-----------------------------------------------------------------------------
(* What the server reads *)

\* No two threads compress.
OneDeflater == \A t, u \in Deflaters : t = u

\* What was fed to the compressor is flushed by the same call, and a frame
\* carries the message of its call, compressed or not.
FedInv ==
  /\ \A t \in Senders : pc[t] = "flush" => compressor.fed = <<frame[t].message>>
  /\ (\A t \in Senders : pc[t] # "flush") => compressor.fed = <<>>
  /\ \A t \in Senders : pc[t] # "idle" => frame[t].body = <<frame[t].message>>

\* Every step keeps messages and calls together, when no two threads compress.
LEMMA FedNext ==
  ASSUME OneDeflater
  PROVE  Base /\ FedInv /\ [Next]_vars => FedInv'
<1> SUFFICES ASSUME Base, FedInv, [Next]_vars PROVE FedInv'
    OBVIOUS
<1>0. /\ pc \in [Senders -> {"idle", "compress", "flush", "reset", "write"}]
      /\ frame \in [Senders -> Frame]
      /\ compressor \in [past : Messages, fed : Messages]
      /\ CompressionTypeOK
  BY DEF Base, CompressionTypeOK
<1>a. ASSUME UNCHANGED <<compressor, pc, frame>> PROVE FedInv'
  BY <1>a DEF FedInv
\* A thread that is in compress() is alone there.
<1>b. ASSUME NEW t \in Senders, NEW u \in Senders, u # t,
             pc[t] \in {"compress", "flush", "reset"}
      PROVE  pc[u] \notin {"compress", "flush", "reset"} /\ ~frame[u].rsv1
  BY <1>b DEF Base, FramesInv, FrameInv, OneDeflater
<1>1. CASE OnResponse \/ Close \/ ReceivePlain \/ ReceiveCompressed \/ UNCHANGED vars
  BY <1>1, <1>a DEF OnResponse, Close, ReceivePlain, ReceiveCompressed, vars, sending
<1>2. ASSUME NEW t \in Senders, Send(t) PROVE FedInv'
  <2>1. /\ pc[t] = "idle" /\ pc'[t] \in {"compress", "write"}
        /\ \A u \in Senders : u # t => pc'[u] = pc[u]
    BY <1>0, <1>2, Moves DEF Send
  <2>2. /\ frame'[t].body = <<frame'[t].message>>
        /\ \A u \in Senders : u # t => frame'[u] = frame[u]
    BY <1>0, <1>2 DEF Send
  <2>3. UNCHANGED compressor
    BY <1>2 DEF Send
  <2> QED
    BY <2>1, <2>2, <2>3 DEF FedInv
<1>3. ASSUME NEW t \in Senders, CompressCall(t) PROVE FedInv'
  <2>1. pc[t] = "compress" /\ pc'[t] = "flush" /\ \A u \in Senders : u # t => pc'[u] = pc[u]
    BY <1>0, <1>3, Moves DEF CompressCall
  <2>2. \A u \in Senders : u # t => pc[u] # "flush"
    BY <1>b, <2>1
  <2>3. compressor.fed = <<>>
    <3>1. \A u \in Senders : pc[u] # "flush"
      BY <2>1, <2>2
    <3> QED
      BY <3>1 DEF FedInv
  <2>4. compressor'.fed = <<frame[t].message>> /\ UNCHANGED frame
    <3>1. compressor'.fed = Append(compressor.fed, frame[t].message) /\ UNCHANGED frame
      BY <1>0, <1>3 DEF CompressCall
    <3> QED
      BY <2>3, <3>1
  <2> QED
    BY <2>1, <2>2, <2>4 DEF FedInv
<1>4. ASSUME NEW t \in Senders, Flush(t) PROVE FedInv'
  <2>1. /\ pc[t] = "flush" /\ pc'[t] \in {"reset", "write"}
        /\ \A u \in Senders : u # t => pc'[u] = pc[u]
    BY <1>0, <1>4, Moves DEF Flush
  <2>2. /\ frame'[t] = [rsv1 |-> TRUE, message |-> frame[t].message,
                        past |-> Reached(compressor.past, Window(compression.compressBits)),
                        body |-> compressor.fed]
        /\ \A u \in Senders : u # t => frame'[u] = frame[u]
        /\ compressor' = [past |-> compressor.past \o compressor.fed, fed |-> <<>>]
    BY <1>0, <1>4, Flushed
  <2>3. \A u \in Senders : pc'[u] # "flush"
    BY <1>b, <2>1
  <2>4. compressor'.fed = <<>> /\ frame'[t].body = <<frame'[t].message>>
    BY <2>1, <2>2 DEF FedInv
  <2> QED
    BY <2>1, <2>2, <2>3, <2>4 DEF FedInv
<1>5. ASSUME NEW t \in Senders, ResetCompressor(t) PROVE FedInv'
  <2>1. /\ pc[t] = "reset" /\ pc'[t] = "write"
        /\ \A u \in Senders : u # t => pc'[u] = pc[u]
    BY <1>0, <1>5, Moves DEF ResetCompressor
  <2>2. compressor'.fed = <<>> /\ UNCHANGED frame
    BY <1>5 DEF ResetCompressor, Fresh
  <2>3. \A u \in Senders : pc'[u] # "flush"
    BY <1>b, <2>1
  <2> QED
    BY <2>1, <2>2, <2>3 DEF FedInv
<1>6. ASSUME NEW t \in Senders, Write(t) PROVE FedInv'
  <2>1. /\ pc[t] = "write" /\ pc'[t] = "idle"
        /\ \A u \in Senders : u # t => pc'[u] = pc[u]
    BY <1>0, <1>6, Moves DEF Write
  <2>2. /\ UNCHANGED compressor
        /\ \A u \in Senders : u # t => frame'[u] = frame[u]
    BY <1>0, <1>6 DEF Write
  <2> QED
    BY <2>1, <2>2 DEF FedInv
<1> QED
  BY <1>1, <1>2, <1>3, <1>4, <1>5, <1>6 DEF Next, Terminated

\* The server holds what passed through the compressor, but for a message that
\* has not reached the wire.
ContextInv ==
  /\ compression = None => serverContext = <<>>
  /\ at = "open" /\ compression # None =>
       /\ compression.resetCompress =>
            /\ serverContext = <<>>
            /\ (\A t \in Senders : pc[t] # "reset") => compressor.past = <<>>
            /\ \A t \in Senders : frame[t].rsv1 => frame[t].past = <<>>
       /\ ~compression.resetCompress =>
            /\ (\A t \in Senders : ~frame[t].rsv1) =>
                  serverContext = Held(compressor.past, compression.compressBits)
            /\ \A t \in Senders : frame[t].rsv1 =>
                  \E past \in Messages :
                    /\ compressor.past = Append(past, frame[t].message)
                    /\ serverContext = Held(past, compression.compressBits)
                    /\ frame[t].past = Reached(past, Window(compression.compressBits))

\* The server knows what a frame on its way refers to.
LEMMA Known ==
  ASSUME Base, ContextInv, NEW t \in Senders, frame[t].rsv1, at = "open"
  PROVE  IsSuffix(frame[t].past, serverContext)
<1>1. compression # None
  BY DEF Base, FramesInv, FrameInv
<1>2. compression.compressBits \in 8..15 /\ compression.resetCompress \in BOOLEAN
  BY <1>1, InForce DEF Base
<1>3. CASE compression.resetCompress
  <2>1. frame[t].past = <<>> /\ serverContext = <<>> /\ <<>> \in Messages
    BY <1>1, <1>3 DEF ContextInv, Messages
  <2> QED
    BY <2>1, EmptySuffix
<1>4. CASE ~compression.resetCompress
  <2>1. PICK past \in Messages :
          /\ serverContext = Held(past, compression.compressBits)
          /\ frame[t].past = Reached(past, Window(compression.compressBits))
    BY <1>1, <1>4 DEF ContextInv
  <2> QED
    BY <1>2, <2>1, ReachedIsHeld
<1> QED
  BY <1>3, <1>4

\* Every step keeps the two ends of what the client sends together.
LEMMA ContextNext ==
  ASSUME OneDeflater
  PROVE  Base /\ FedInv /\ ContextInv /\ [Next]_vars => ContextInv'
<1> SUFFICES ASSUME Base, FedInv, ContextInv, [Next]_vars PROVE ContextInv'
    OBVIOUS
<1>0. /\ pc \in [Senders -> {"idle", "compress", "flush", "reset", "write"}]
      /\ frame \in [Senders -> Frame]
      /\ compressor \in [past : Messages, fed : Messages]
      /\ compressor.past \in Messages
      /\ CompressionTypeOK /\ NegotiatedInv
  BY DEF Base, CompressionTypeOK
<1>a. ASSUME UNCHANGED <<compression, serverContext, frame>>, compressor'.past = compressor.past,
             at' = "open" => at = "open",
             (\A t \in Senders : pc'[t] # "reset") => \A t \in Senders : pc[t] # "reset"
      PROVE  ContextInv'
  <2>1. /\ compression' = None => serverContext' = <<>>
    BY <1>a DEF ContextInv
  <2>2. ASSUME at' = "open", compression # None, compression.resetCompress
        PROVE  /\ serverContext' = <<>>
               /\ (\A t \in Senders : pc'[t] # "reset") => compressor'.past = <<>>
               /\ \A t \in Senders : frame'[t].rsv1 => frame'[t].past = <<>>
    BY <1>a, <2>2 DEF ContextInv
  <2>3. ASSUME at' = "open", compression # None, ~compression.resetCompress
        PROVE  /\ (\A t \in Senders : ~frame[t].rsv1) =>
                     serverContext' = Held(compressor'.past, compression.compressBits)
               /\ \A t \in Senders : frame[t].rsv1 =>
                     \E past \in Messages :
                       /\ compressor'.past = Append(past, frame[t].message)
                       /\ serverContext' = Held(past, compression.compressBits)
                       /\ frame[t].past = Reached(past, Window(compression.compressBits))
    BY <1>a, <2>3 DEF ContextInv
  <2> QED
    BY <1>a, <2>1, <2>2, <2>3 DEF ContextInv, Held, Reached, Newest, Window
\* A thread that is in compress(), or sends what it compressed, is alone there.
<1>b. ASSUME NEW t \in Senders, NEW u \in Senders, u # t,
             pc[t] \in {"compress", "flush", "reset"} \/ frame[t].rsv1
      PROVE  pc[u] \notin {"compress", "flush", "reset"} /\ ~frame[u].rsv1
  BY <1>b DEF Base, FramesInv, FrameInv, OneDeflater
<1>1. CASE OnResponse
  <2>1. /\ at = "response" /\ UNCHANGED <<serverContext, compressor, pc, frame>>
    BY <1>1 DEF OnResponse, sending, arriving
  <2>2. /\ serverContext = <<>> /\ compressor.past = <<>>
        /\ \A t \in Senders : ~frame[t].rsv1
    BY <1>0, <2>1 DEF ContextInv, Base, NegotiatedInv, FramesInv, FrameInv, NoFrame, Fresh
  <2>3. compression' # None => compression'.compressBits \in 8..15
    BY <1>0, NegotiatedNext, InForceNext
  <2> QED
    BY <2>1, <2>2, <2>3, HeldNothing DEF ContextInv
<1>2. ASSUME NEW t \in Senders, Send(t) PROVE ContextInv'
  <2>1. /\ pc[t] = "idle" /\ \A u \in Senders : u # t => pc'[u] = pc[u]
        /\ pc'[t] \in {"compress", "write"}
    BY <1>0, <1>2, Moves DEF Send
  <2>2. /\ ~frame'[t].rsv1 /\ \A u \in Senders : u # t => frame'[u] = frame[u]
        /\ UNCHANGED <<compression, serverContext, compressor, at>>
    BY <1>0, <1>2 DEF Send, setUp, arriving
  <2>3. ~frame[t].rsv1
    BY <2>1 DEF Base, FramesInv, FrameInv, NoFrame
  <2>4. /\ (\A u \in Senders : ~frame'[u].rsv1) <=> \A u \in Senders : ~frame[u].rsv1
        /\ (\A u \in Senders : pc'[u] # "reset") => \A u \in Senders : pc[u] # "reset"
    BY <2>1, <2>2, <2>3
  <2>5. /\ compression' = None => serverContext' = <<>>
    BY <2>2 DEF ContextInv
  <2>6. ASSUME at = "open", compression # None, compression.resetCompress
        PROVE  /\ serverContext' = <<>>
               /\ (\A u \in Senders : pc'[u] # "reset") => compressor'.past = <<>>
               /\ \A u \in Senders : frame'[u].rsv1 => frame'[u].past = <<>>
    BY <2>2, <2>4, <2>6 DEF ContextInv
  <2>7. ASSUME at = "open", compression # None, ~compression.resetCompress
        PROVE  /\ (\A u \in Senders : ~frame'[u].rsv1) =>
                     serverContext' = Held(compressor'.past, compression.compressBits)
               /\ \A u \in Senders : frame'[u].rsv1 =>
                     \E past \in Messages :
                       /\ compressor'.past = Append(past, frame'[u].message)
                       /\ serverContext' = Held(past, compression.compressBits)
                       /\ frame'[u].past = Reached(past, Window(compression.compressBits))
    BY <2>2, <2>4, <2>7 DEF ContextInv
  <2> QED
    BY <2>2, <2>5, <2>6, <2>7, ZenonT(30) DEF ContextInv, Held, Reached, Newest, Window
<1>3. ASSUME NEW t \in Senders, CompressCall(t) PROVE ContextInv'
  <2>1. pc'[t] = "flush" /\ pc[t] = "compress" /\ \A u \in Senders : u # t => pc'[u] = pc[u]
    BY <1>0, <1>3, Moves DEF CompressCall
  <2>2. /\ UNCHANGED <<compression, serverContext, frame, at>>
        /\ compressor'.past = compressor.past
    BY <1>0, <1>3 DEF CompressCall, setUp, arriving
  <2>3. (\A u \in Senders : pc'[u] # "reset") => \A u \in Senders : pc[u] # "reset"
    BY <2>1
  <2> QED
    BY <1>a, <2>2, <2>3
<1>4. ASSUME NEW t \in Senders, Flush(t) PROVE ContextInv'
  <2>1. /\ pc[t] = "flush" /\ \A u \in Senders : u # t => pc'[u] = pc[u]
        /\ pc'[t] = IF compression.resetCompress THEN "reset" ELSE "write"
    BY <1>0, <1>4, Moves DEF Flush
  <2>2. /\ frame'[t] = [rsv1 |-> TRUE, message |-> frame[t].message,
                        past |-> Reached(compressor.past, Window(compression.compressBits)),
                        body |-> compressor.fed]
        /\ \A u \in Senders : u # t => frame'[u] = frame[u]
        /\ compressor' = [past |-> compressor.past \o compressor.fed, fed |-> <<>>]
    BY <1>0, <1>4, Flushed
  <2>3. UNCHANGED <<compression, serverContext, at>>
    BY <1>4 DEF Flush, setUp, arriving
  <2>4. /\ \A u \in Senders : u # t => pc[u] # "reset" /\ ~frame[u].rsv1
        /\ ~frame[t].rsv1 /\ compression # None
    BY <1>b, <2>1 DEF Base, FramesInv, FrameInv
  <2>5. compression.compressBits \in 8..15
    BY <1>0, <2>4, InForce
  <2>6. compressor'.past = Append(compressor.past, frame'[t].message)
    <3>1. compressor.fed = <<frame[t].message>>
      BY <2>1 DEF FedInv
    <3>2. compressor.past \in Seq(Nat) /\ frame[t].message \in Nat
      BY <1>0 DEF Messages, Frame
    <3>3. compressor.past \o <<frame[t].message>> = Append(compressor.past, frame[t].message)
      BY <3>2
    <3> QED
      BY <2>2, <3>1, <3>3
  <2>7. CASE at = "open" /\ compression.resetCompress
    <3>1. compressor.past = <<>> /\ serverContext = <<>>
      BY <2>1, <2>4, <2>7 DEF ContextInv
    <3>2. frame'[t].past = <<>>
      BY <2>2, <2>5, <3>1, HeldNothing
    <3>3. \A u \in Senders : frame'[u].rsv1 => frame'[u].past = <<>>
      BY <2>2, <2>4, <3>2
    <3> QED
      BY <2>1, <2>3, <2>4, <2>7, <3>1, <3>3 DEF ContextInv
  <2>8. CASE at = "open" /\ ~compression.resetCompress
    <3>1. serverContext = Held(compressor.past, compression.compressBits)
      BY <2>4, <2>8 DEF ContextInv
    <3>2. frame'[t].rsv1 /\ frame'[t].past
            = Reached(compressor.past, Window(compression.compressBits))
      BY <2>2
    <3>3. ASSUME NEW u \in Senders, frame'[u].rsv1
          PROVE  \E past \in Messages :
                   /\ compressor'.past = Append(past, frame'[u].message)
                   /\ serverContext' = Held(past, compression.compressBits)
                   /\ frame'[u].past = Reached(past, Window(compression.compressBits))
      <4>1. u = t
        BY <2>2, <2>4, <3>3
      <4> QED
        BY <1>0, <2>3, <2>6, <3>1, <3>2, <4>1
    <3> QED
      BY <2>3, <2>4, <2>8, <3>2, <3>3 DEF ContextInv, Held, Reached, Newest, Window
  <2>9. CASE at # "open"
    BY <2>3, <2>4, <2>9 DEF ContextInv
  <2> QED
    BY <2>7, <2>8, <2>9
<1>5. ASSUME NEW t \in Senders, ResetCompressor(t) PROVE ContextInv'
  <2>1. pc[t] = "reset"
    BY <1>5 DEF ResetCompressor
  <2>2. /\ compressor'.past = <<>>
        /\ UNCHANGED <<compression, serverContext, frame, at>>
    BY <1>5 DEF ResetCompressor, Fresh, setUp, arriving
  <2>3. compression # None /\ compression.resetCompress
    BY <2>1 DEF Base, FramesInv, FrameInv
  <2> QED
    BY <2>2, <2>3 DEF ContextInv
<1>6. ASSUME NEW t \in Senders, Write(t) PROVE ContextInv'
  <2>1. /\ pc[t] = "write" /\ pc'[t] = "idle" /\ \A u \in Senders : u # t => pc'[u] = pc[u]
    BY <1>0, <1>6, Moves DEF Write
  <2>2. /\ frame'[t] = NoFrame /\ \A u \in Senders : u # t => frame'[u] = frame[u]
        /\ UNCHANGED <<compression, compressor, at>>
    BY <1>0, <1>6 DEF Write, setUp
  <2>3. /\ ~frame'[t].rsv1
        /\ (\A u \in Senders : pc'[u] # "reset") => \A u \in Senders : pc[u] # "reset"
    BY <2>1, <2>2 DEF NoFrame
  <2>4. CASE at # "open"
    <3>1. UNCHANGED serverContext
      BY <1>6, <2>4 DEF Write, arriving
    <3> QED
      BY <2>2, <2>4, <3>1 DEF ContextInv
  <2>5. CASE at = "open" /\ ~frame[t].rsv1
    <3>1. UNCHANGED serverContext
      BY <1>6, <2>5 DEF Write, ServerReceives
    <3>2. (\A u \in Senders : ~frame'[u].rsv1) <=> \A u \in Senders : ~frame[u].rsv1
      BY <2>2, <2>3, <2>5
    <3>3. ASSUME compression # None, compression.resetCompress
          PROVE  /\ serverContext' = <<>>
                 /\ (\A u \in Senders : pc'[u] # "reset") => compressor'.past = <<>>
                 /\ \A u \in Senders : frame'[u].rsv1 => frame'[u].past = <<>>
      BY <2>2, <2>3, <2>5, <3>1, <3>3 DEF ContextInv
    <3>4. ASSUME compression # None, ~compression.resetCompress
          PROVE  /\ (\A u \in Senders : ~frame'[u].rsv1) =>
                       serverContext' = Held(compressor'.past, compression.compressBits)
                 /\ \A u \in Senders : frame'[u].rsv1 =>
                       \E past \in Messages :
                         /\ compressor'.past = Append(past, frame'[u].message)
                         /\ serverContext' = Held(past, compression.compressBits)
                         /\ frame'[u].past = Reached(past, Window(compression.compressBits))
      BY <2>2, <2>3, <2>5, <3>1, <3>2, <3>4, SMTT(30) DEF ContextInv
    <3>5. compression' = None => serverContext' = <<>>
      BY <2>2, <3>1 DEF ContextInv
    <3> QED
      BY <2>2, <3>3, <3>4, <3>5, ZenonT(30) DEF ContextInv, Held, Reached, Newest, Window
  <2>6. CASE at = "open" /\ frame[t].rsv1
    <3>1. IsSuffix(frame[t].past, serverContext)
      BY <2>6, Known
    <3>2. /\ compression # None /\ frame[t].body = <<frame[t].message>>
          /\ \A u \in Senders : u # t => ~frame[u].rsv1
      BY <1>b, <2>1, <2>6 DEF Base, FramesInv, FrameInv, FedInv
    <3>3. /\ compression.compressBits = Bits(Agreed.clientBits)
          /\ compression.resetCompress = Agreed.clientReset
          /\ compression.compressBits \in 8..15
      BY <1>0, <3>2, InForce
    <3>4. serverContext' = IF compression.resetCompress THEN <<>>
                           ELSE Held(serverContext \o frame[t].body, compression.compressBits)
      BY <1>6, <2>6, <3>3 DEF Write, ServerReceives
    <3>5. \A u \in Senders : ~frame'[u].rsv1
      BY <2>2, <2>3, <3>2
    <3>6. CASE compression.resetCompress
      <4>1. serverContext' = <<>>
        BY <3>4, <3>6
      <4>2. (\A u \in Senders : pc'[u] # "reset") => compressor'.past = <<>>
        BY <2>2, <2>3, <2>6, <3>2, <3>6 DEF ContextInv
      <4> QED
        BY <2>2, <3>2, <3>5, <3>6, <4>1, <4>2 DEF ContextInv
    <3>7. CASE ~compression.resetCompress
      <4>1. PICK past \in Messages :
              /\ compressor.past = Append(past, frame[t].message)
              /\ serverContext = Held(past, compression.compressBits)
        BY <2>6, <3>2, <3>7 DEF ContextInv
      <4>2. frame[t].message \in Nat /\ Held(past, compression.compressBits) \in Seq(Nat)
        BY <1>0, <3>3, ContextTypes DEF Frame, Messages
      <4>3. serverContext \o frame[t].body
              = Append(Held(past, compression.compressBits), frame[t].message)
        BY <3>2, <4>1, <4>2
      <4>4. serverContext' = Held(compressor.past, compression.compressBits)
        BY <3>3, <3>4, <3>7, <4>1, <4>2, <4>3, HeldAppend
      <4> QED
        BY <2>2, <3>2, <3>5, <3>7, <4>4 DEF ContextInv, Held, Newest
    <3> QED
      BY <3>6, <3>7
  <2> QED
    BY <2>4, <2>5, <2>6
<1>7. CASE Close \/ ReceivePlain \/ ReceiveCompressed \/ UNCHANGED vars
  <2>1. /\ UNCHANGED <<compression, serverContext, frame, compressor, pc>>
        /\ at' = "open" => at = "open"
    BY <1>7 DEF Close, ReceivePlain, ReceiveCompressed, vars, setUp, sending, arriving
  <2> QED
    BY <1>a, <2>1
<1> QED
  BY <1>1, <1>2, <1>3, <1>4, <1>5, <1>6, <1>7 DEF Next, Terminated

\* One frame more, which the server reads.
LEMMA OneMoreRead ==
  ASSUME ServerReads, NEW m \in Nat, sent \in Messages,
         sent' = Append(sent, m), understood' = Append(understood, <<m>>)
  PROVE  ServerReads'
<1> DEFINE n == Len(sent)
           u == [i \in 1..(n + 1) |-> <<sent'[i]>>]
<1>1. sent \in Seq(Nat) /\ n \in Nat /\ DOMAIN sent = 1..n
  BY DEF Messages
<1>2. /\ DOMAIN sent' = 1..(n + 1) /\ sent'[n + 1] = m /\ sent' \in Seq(Nat)
      /\ \A i \in 1..n : sent'[i] = sent[i]
  BY <1>1
<1>3. /\ understood \in Seq(Messages) /\ Len(understood) = n
      /\ \A i \in 1..n : understood[i] = <<sent[i]>>
  <2>1. understood = [i \in 1..n |-> <<sent[i]>>]
    BY <1>1 DEF ServerReads
  <2>2. \A i \in 1..n : <<sent[i]>> \in Messages
    BY <1>1 DEF Messages
  <2> QED
    BY <1>1, <2>1, <2>2
<1>4. u \in Seq(Messages) /\ Len(u) = n + 1 /\ \A i \in 1..(n + 1) : u[i] = <<sent'[i]>>
  <2>1. \A i \in 1..(n + 1) : <<sent'[i]>> \in Messages
    BY <1>2 DEF Messages
  <2> QED
    BY <1>1, <2>1
<1> HIDE DEF u, n
<1>5. <<m>> \in Messages
  BY DEF Messages
<1>6. /\ understood' \in Seq(Messages) /\ Len(understood') = n + 1
      /\ \A i \in 1..n : understood'[i] = understood[i]
      /\ understood'[n + 1] = <<m>>
  BY <1>1, <1>3, <1>5
<1>7. \A i \in 1..(n + 1) : understood'[i] = u[i]
  <2>1. ASSUME NEW i \in 1..n PROVE understood'[i] = u[i]
    <3>1. i \in 1..(n + 1)
      BY <1>1
    <3>2. understood'[i] = <<sent[i]>> /\ u[i] = <<sent'[i]>> /\ sent'[i] = sent[i]
      BY <1>2, <1>3, <1>4, <1>6, <3>1
    <3> QED
      BY <3>2
  <2>2. understood'[n + 1] = u[n + 1]
    <3>1. n + 1 \in 1..(n + 1)
      BY <1>1
    <3>2. u[n + 1] = <<sent'[n + 1]>>
      BY <1>4, <3>1
    <3> QED
      BY <1>2, <1>6, <3>2
  <2>3. ASSUME NEW i \in 1..(n + 1) PROVE i \in 1..n \/ i = n + 1
    BY <1>1
  <2> QED
    BY <2>1, <2>2, <2>3
<1>8. understood' = u
  BY <1>1, <1>4, <1>6, <1>7, SeqEqual
<1> QED
  BY <1>2, <1>8 DEF ServerReads, u

\* Every frame is read by the server as the message of the call that sent it
\* (websocket.py:580, compression.py), for every answer and any number of messages,
\* when no two threads compress: any number of others may send plain frames in
\* between.  MCCompressRace.cfg shows what two can do.
THEOREM ReadByServer == ASSUME OneDeflater PROVE Spec => []ServerReads
<1>1. Init => FedInv /\ ContextInv /\ ServerReads
  <2> SUFFICES ASSUME Init PROVE FedInv /\ ContextInv /\ ServerReads
    OBVIOUS
  <2>1. FedInv /\ ContextInv
    BY DEF Init, FedInv, ContextInv, Fresh, NoFrame
  <2>2. ServerReads
    BY DEF Init, ServerReads
  <2> QED
    BY <2>1, <2>2
<1>2. Base /\ FedInv /\ ContextInv /\ ServerReads /\ [Next]_vars => ServerReads'
  <2> SUFFICES ASSUME Base, FedInv, ContextInv, ServerReads, [Next]_vars PROVE ServerReads'
    OBVIOUS
  <2>1. CASE UNCHANGED arriving
    BY <2>1 DEF arriving, ServerReads
  <2>2. CASE ~UNCHANGED arriving
    <3>1. PICK t \in Senders : Write(t)
      BY <2>2 DEF Next, Terminated, vars, OnResponse, Send, CompressCall, Flush,
                  ResetCompressor, Close, ReceivePlain, ReceiveCompressed, arriving
    <3>2. /\ at = "open" /\ sent' = Append(sent, frame[t].message)
          /\ ServerReceives(frame[t]) /\ pc[t] = "write"
      BY <2>2, <3>1 DEF Write
    <3>3. frame[t].rsv1 => IsSuffix(frame[t].past, serverContext)
      BY <3>2, Known
    <3>4. frame[t].body = <<frame[t].message>>
      BY <3>2 DEF FedInv
    <3>5. understood' = Append(understood, <<frame[t].message>>)
      BY <3>2, <3>3, <3>4 DEF ServerReceives
    <3>6. frame[t].message \in Nat /\ sent \in Messages
      BY DEF Base, CompressionTypeOK, Frame
    <3> QED
      BY <3>2, <3>5, <3>6, OneMoreRead
  <2> QED
    BY <2>1, <2>2
<1> QED
  BY <1>1, <1>2, FedNext, ContextNext, BaseInvariant, PTL DEF Spec
================================================================================
