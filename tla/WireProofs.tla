------------------------------ MODULE WireProofs ------------------------------
(***************************************************************************)
(* For any frames, masks and texts, and however the network cuts them up:  *)
(* frames are understood by either side and the table of the validator is  *)
(* UTF-8.                                                                  *)
(***************************************************************************)
EXTENDS Wire, SequenceTheorems, WellFoundedInduction, TLAPS

-----------------------------------------------------------------------------
(* The validator *)

\* Bytes by what they can be, which most steps need not know.
Byte == 0..255
Ascii == 0..127
Lead2 == 194..223
Lead3 == 224..239
Lead4 == 240..244
After == 128..191

Continues(b) == b \in After

\* Two bytes that begin a character of three or of four.
Begins3(a, b) ==
  /\ Continues(b)
  /\ a = 224 => b >= 160
  /\ a = 237 => b < 160
Begins4(a, b) ==
  /\ Continues(b)
  /\ a = 240 => b >= 144
  /\ a = 244 => b < 144

\* What the automaton has read of a character, for each state it goes on from.
Shape(state, bytes) ==
  \/ state = 0 /\ bytes = <<>>
  \/ \E a \in Lead2 : state = 2 /\ bytes = <<a>>
  \/ \E a \in Lead3 :
       bytes = <<a>> /\ state = (IF a = 224 THEN 4 ELSE IF a = 237 THEN 5 ELSE 3)
  \/ \E a \in Lead4 :
       bytes = <<a>> /\ state = (IF a = 240 THEN 6 ELSE IF a = 244 THEN 8 ELSE 7)
  \/ \E a \in Lead3, b \in Byte : Begins3(a, b) /\ state = 2 /\ bytes = <<a, b>>
  \/ \E a \in Lead4, b \in Byte : Begins4(a, b) /\ state = 3 /\ bytes = <<a, b>>
  \/ \E a \in Lead4, b \in Byte, c \in Byte :
       Begins4(a, b) /\ Continues(c) /\ state = 2 /\ bytes = <<a, b, c>>

\* How many bytes the first one asks for.
LEMMA SizeIs ==
  /\ \A a \in 0..127 : Size(a) = 1
  /\ \A a \in 128..191 \cup 248..255 : Size(a) = 0
  /\ \A a \in 192..223 : Size(a) = 2
  /\ \A a \in 224..239 : Size(a) = 3
  /\ \A a \in 240..247 : Size(a) = 4
BY DEF Size

\* What their marks leave of them.
LEMMA BitsLeft ==
  /\ \A a \in 192..223 : a % 32 = a - 192
  /\ \A a \in 224..239 : a % 16 = a - 224
  /\ \A a \in 240..247 : a % 8 = a - 240
  /\ \A a \in 0..255 : a % 64 \in 0..63
  /\ \A a \in 128..191 : a % 64 = a - 128
OBVIOUS

\* Which bytes begin a character, by how many it has.
LEMMA BeginsOf1 ==
  ASSUME NEW a \in Byte
  PROVE  /\ BeginsCharacter(<<a>>) <=> a \in Ascii \cup Lead2 \cup Lead3 \cup Lead4
         /\ IsCharacter(<<a>>) <=> a \in Ascii
<1> USE DEF Byte, Ascii, Lead2, Lead3, Lead4
<1>1. BeginsCharacter(<<a>>) <=>
        Size(a) >= 1 /\ HasCodePoint(Size(a), CodePoint(<<a>>, 0), CodePoint(<<a>>, 63))
  BY DEF BeginsCharacter
<1>2. CASE a \in 0..127
  <2>1. Size(a) = 1 /\ CodePoint(<<a>>, 0) = a
    BY <1>2, SizeIs DEF CodePoint
  <2> QED
    BY <1>1, <1>2, <2>1 DEF HasCodePoint, IsCharacter
<1>3. CASE a \in 128..191 \cup 248..255
  <2>1. Size(a) = 0
    BY <1>3, SizeIs
  <2> QED
    BY <1>1, <1>3, <2>1 DEF IsCharacter
<1>4. CASE a \in 192..223
  <2>1. Size(a) = 2 /\ a % 32 = a - 192
    BY <1>4, SizeIs, BitsLeft
  <2>2. CodePoint(<<a>>, 0) = 64 * (a - 192) /\ CodePoint(<<a>>, 63) = 64 * (a - 192) + 63
    BY <2>1 DEF CodePoint
  <2> QED
    BY <1>1, <1>4, <2>1, <2>2 DEF HasCodePoint, IsCharacter
<1>5. CASE a \in 224..239
  <2>1. Size(a) = 3 /\ a % 16 = a - 224
    BY <1>5, SizeIs, BitsLeft
  <2>2. CodePoint(<<a>>, 0) = 4096 * (a - 224) /\ CodePoint(<<a>>, 63) = 4096 * (a - 224) + 4095
    BY <2>1 DEF CodePoint
  <2> QED
    BY <1>1, <1>5, <2>1, <2>2 DEF HasCodePoint, IsCharacter
<1>6. CASE a \in 240..247
  <2>1. Size(a) = 4 /\ a % 8 = a - 240
    BY <1>6, SizeIs, BitsLeft
  <2>2. CodePoint(<<a>>, 0) = 262144 * (a - 240)
        /\ CodePoint(<<a>>, 63) = 262144 * (a - 240) + 262143
    BY <2>1 DEF CodePoint
  <2> QED
    BY <1>1, <1>6, <2>1, <2>2 DEF HasCodePoint, IsCharacter
<1> QED
  BY <1>2, <1>3, <1>4, <1>5, <1>6

LEMMA BeginsOf2 ==
  ASSUME NEW a \in Lead2, NEW b \in Byte
  PROVE  /\ BeginsCharacter(<<a, b>>) <=> Continues(b)
         /\ IsCharacter(<<a, b>>) <=> Continues(b)
<1> USE DEF Lead2, Byte
<1>1. Size(a) = 2 /\ a % 32 = a - 192 /\ b % 64 \in 0..63
  BY SizeIs, BitsLeft
<1>2. BeginsCharacter(<<a, b>>) <=>
        Continues(b) /\ HasCodePoint(2, CodePoint(<<a, b>>, 0), CodePoint(<<a, b>>, 63))
  BY <1>1 DEF BeginsCharacter, Continues, After
<1>3. HasCodePoint(2, CodePoint(<<a, b>>, 0), CodePoint(<<a, b>>, 63))
  <2> DEFINE x == CodePoint(<<a, b>>, 0)
             y == CodePoint(<<a, b>>, 63)
  <2>1. x = 64 * (a % 32) + (b % 64)
    BY <1>1 DEF CodePoint
  <2>2. y = 64 * (a % 32) + (b % 64)
    BY <1>1 DEF CodePoint
  <2> HIDE DEF x, y
  <2>3. x <= 2047 /\ y >= 128
    BY <1>1, <2>1, <2>2
  <2> QED
    BY <2>3 DEF HasCodePoint, x, y
<1> QED
  BY <1>1, <1>2, <1>3 DEF IsCharacter

\* In numbers: from the second byte on it is known whether there is a character.
LEMMA CodePointsOf3 ==
  ASSUME NEW a \in Lead3, NEW b \in After, NEW c \in Byte
  PROVE  /\ Begins3(a, b) <=> HasCodePoint(3, CodePoint(<<a, b>>, 0), CodePoint(<<a, b>>, 63))
         /\ Begins3(a, b) <=>
              HasCodePoint(3, CodePoint(<<a, b, c>>, 0), CodePoint(<<a, b, c>>, 63))
<1> USE DEF Byte, After, Lead3
<1>1. Size(a) = 3 /\ a % 16 = a - 224 /\ b % 64 = b - 128 /\ c % 64 \in 0..63
  BY SizeIs, BitsLeft
<1>2. Begins3(a, b) <=> HasCodePoint(3, CodePoint(<<a, b>>, 0), CodePoint(<<a, b>>, 63))
  <2> DEFINE x == CodePoint(<<a, b>>, 0)
             y == CodePoint(<<a, b>>, 63)
  <2>1. x = 4096 * (a % 16) + 64 * (b % 64) + 0
    BY <1>1 DEF CodePoint
  <2>2. y = 4096 * (a % 16) + 64 * (b % 64) + 63
    BY <1>1 DEF CodePoint
  <2> HIDE DEF x, y
  <2>3. Begins3(a, b) <=> (x <= 55295 /\ y >= 2048) \/ (x <= 65535 /\ y >= 57344)
    BY <1>1, <2>1, <2>2 DEF Begins3, Continues, After
  <2> QED
    BY <2>3 DEF HasCodePoint, x, y
<1>3. Begins3(a, b) <=>
        HasCodePoint(3, CodePoint(<<a, b, c>>, 0), CodePoint(<<a, b, c>>, 63))
  <2> DEFINE x == CodePoint(<<a, b, c>>, 0)
             y == CodePoint(<<a, b, c>>, 63)
  <2>1. x = 4096 * (a % 16) + 64 * (b % 64) + (c % 64)
    BY <1>1 DEF CodePoint
  <2>2. y = 4096 * (a % 16) + 64 * (b % 64) + (c % 64)
    BY <1>1 DEF CodePoint
  <2> HIDE DEF x, y
  <2>3. Begins3(a, b) <=> (x <= 55295 /\ y >= 2048) \/ (x <= 65535 /\ y >= 57344)
    BY <1>1, <2>1, <2>2 DEF Begins3, Continues, After
  <2> QED
    BY <2>3 DEF HasCodePoint, x, y
<1> QED
  BY <1>2, <1>3

LEMMA CodePointsOf4 ==
  ASSUME NEW a \in Lead4, NEW b \in After, NEW c \in Byte, NEW d \in Byte
  PROVE  /\ Begins4(a, b) <=> HasCodePoint(4, CodePoint(<<a, b>>, 0), CodePoint(<<a, b>>, 63))
         /\ Begins4(a, b) <=>
              HasCodePoint(4, CodePoint(<<a, b, c>>, 0), CodePoint(<<a, b, c>>, 63))
         /\ Begins4(a, b) <=>
              HasCodePoint(4, CodePoint(<<a, b, c, d>>, 0), CodePoint(<<a, b, c, d>>, 63))
<1> USE DEF Byte, After, Lead4
<1>1. /\ Size(a) = 4 /\ a % 8 = a - 240 /\ b % 64 = b - 128
      /\ c % 64 \in 0..63 /\ d % 64 \in 0..63
  BY SizeIs, BitsLeft
<1>2. Begins4(a, b) <=> HasCodePoint(4, CodePoint(<<a, b>>, 0), CodePoint(<<a, b>>, 63))
  <2> DEFINE x == CodePoint(<<a, b>>, 0)
             y == CodePoint(<<a, b>>, 63)
  <2>1. x = 262144 * (a % 8) + 4096 * (b % 64) + 64 * 0 + 0
    BY <1>1 DEF CodePoint
  <2>2. y = 262144 * (a % 8) + 4096 * (b % 64) + 64 * 63 + 63
    BY <1>1 DEF CodePoint
  <2> HIDE DEF x, y
  <2>3. Begins4(a, b) <=> x <= 1114111 /\ y >= 65536
    BY <1>1, <2>1, <2>2 DEF Begins4, Continues, After
  <2> QED
    BY <2>3 DEF HasCodePoint, x, y
<1>3. Begins4(a, b) <=>
        HasCodePoint(4, CodePoint(<<a, b, c>>, 0), CodePoint(<<a, b, c>>, 63))
  <2> DEFINE x == CodePoint(<<a, b, c>>, 0)
             y == CodePoint(<<a, b, c>>, 63)
  <2>1. x = 262144 * (a % 8) + 4096 * (b % 64) + 64 * (c % 64) + 0
    BY <1>1 DEF CodePoint
  <2>2. y = 262144 * (a % 8) + 4096 * (b % 64) + 64 * (c % 64) + 63
    BY <1>1 DEF CodePoint
  <2> HIDE DEF x, y
  <2>3. Begins4(a, b) <=> x <= 1114111 /\ y >= 65536
    BY <1>1, <2>1, <2>2 DEF Begins4, Continues, After
  <2> QED
    BY <2>3 DEF HasCodePoint, x, y
<1>4. Begins4(a, b) <=>
        HasCodePoint(4, CodePoint(<<a, b, c, d>>, 0), CodePoint(<<a, b, c, d>>, 63))
  <2> DEFINE x == CodePoint(<<a, b, c, d>>, 0)
             y == CodePoint(<<a, b, c, d>>, 63)
  <2>1. x = 262144 * (a % 8) + 4096 * (b % 64) + 64 * (c % 64) + (d % 64)
    BY <1>1 DEF CodePoint
  <2>2. y = 262144 * (a % 8) + 4096 * (b % 64) + 64 * (c % 64) + (d % 64)
    BY <1>1 DEF CodePoint
  <2> HIDE DEF x, y
  <2>3. Begins4(a, b) <=> x <= 1114111 /\ y >= 65536
    BY <1>1, <2>1, <2>2 DEF Begins4, Continues, After
  <2> QED
    BY <2>3 DEF HasCodePoint, x, y
<1> QED
  BY <1>2, <1>3, <1>4

LEMMA BeginsOf3 ==
  ASSUME NEW a \in Lead3, NEW b \in Byte, NEW c \in Byte
  PROVE  /\ BeginsCharacter(<<a, b>>) <=> Begins3(a, b)
         /\ ~IsCharacter(<<a, b>>)
         /\ BeginsCharacter(<<a, b, c>>) <=> Begins3(a, b) /\ Continues(c)
         /\ IsCharacter(<<a, b, c>>) <=> Begins3(a, b) /\ Continues(c)
<1>1. Size(a) = 3
  BY SizeIs DEF Lead3
<1>2. BeginsCharacter(<<a, b>>) <=>
        Continues(b) /\ HasCodePoint(3, CodePoint(<<a, b>>, 0), CodePoint(<<a, b>>, 63))
  BY <1>1 DEF BeginsCharacter, Continues, After
<1>3. BeginsCharacter(<<a, b, c>>) <=>
        /\ Continues(b) /\ Continues(c)
        /\ HasCodePoint(3, CodePoint(<<a, b, c>>, 0), CodePoint(<<a, b, c>>, 63))
  BY <1>1 DEF BeginsCharacter, Continues, After
<1>4. Continues(b) <=> b \in After
  BY DEF Continues
<1>5. Begins3(a, b) => Continues(b)
  BY DEF Begins3
<1>6. /\ BeginsCharacter(<<a, b>>) <=> Begins3(a, b)
      /\ BeginsCharacter(<<a, b, c>>) <=> Begins3(a, b) /\ Continues(c)
  BY <1>2, <1>3, <1>4, <1>5, CodePointsOf3
<1>7. Len(<<a, b>>) # 3 /\ Len(<<a, b, c>>) = 3 /\ <<a, b>>[1] = a /\ <<a, b, c>>[1] = a
  OBVIOUS
<1> QED
  BY <1>1, <1>6, <1>7 DEF IsCharacter

LEMMA BeginsOf4 ==
  ASSUME NEW a \in Lead4, NEW b \in Byte, NEW c \in Byte, NEW d \in Byte
  PROVE  /\ BeginsCharacter(<<a, b>>) <=> Begins4(a, b)
         /\ ~IsCharacter(<<a, b>>)
         /\ BeginsCharacter(<<a, b, c>>) <=> Begins4(a, b) /\ Continues(c)
         /\ ~IsCharacter(<<a, b, c>>)
         /\ BeginsCharacter(<<a, b, c, d>>) <=> Begins4(a, b) /\ Continues(c) /\ Continues(d)
         /\ IsCharacter(<<a, b, c, d>>) <=> Begins4(a, b) /\ Continues(c) /\ Continues(d)
<1>1. Size(a) = 4
  BY SizeIs DEF Lead4
<1>2. BeginsCharacter(<<a, b>>) <=>
        Continues(b) /\ HasCodePoint(4, CodePoint(<<a, b>>, 0), CodePoint(<<a, b>>, 63))
  BY <1>1 DEF BeginsCharacter, Continues, After
<1>3. BeginsCharacter(<<a, b, c>>) <=>
        /\ Continues(b) /\ Continues(c)
        /\ HasCodePoint(4, CodePoint(<<a, b, c>>, 0), CodePoint(<<a, b, c>>, 63))
  BY <1>1 DEF BeginsCharacter, Continues, After
<1>4. BeginsCharacter(<<a, b, c, d>>) <=>
        /\ Continues(b) /\ Continues(c) /\ Continues(d)
        /\ HasCodePoint(4, CodePoint(<<a, b, c, d>>, 0), CodePoint(<<a, b, c, d>>, 63))
  BY <1>1 DEF BeginsCharacter, Continues, After
<1>5. Continues(b) <=> b \in After
  BY DEF Continues
<1>6. Begins4(a, b) => Continues(b)
  BY DEF Begins4
<1>7. /\ BeginsCharacter(<<a, b>>) <=> Begins4(a, b)
      /\ BeginsCharacter(<<a, b, c>>) <=> Begins4(a, b) /\ Continues(c)
      /\ BeginsCharacter(<<a, b, c, d>>) <=> Begins4(a, b) /\ Continues(c) /\ Continues(d)
  BY <1>2, <1>3, <1>4, <1>5, <1>6, CodePointsOf4
<1>8. /\ Len(<<a, b>>) # 4 /\ Len(<<a, b, c>>) # 4 /\ Len(<<a, b, c, d>>) = 4
      /\ <<a, b>>[1] = a /\ <<a, b, c>>[1] = a /\ <<a, b, c, d>>[1] = a
  OBVIOUS
<1> QED
  BY <1>1, <1>7, <1>8 DEF IsCharacter

-----------------------------------------------------------------------------
(* The automaton *)

LEMMA ClassIs ==
  /\ \A x \in 0..127 : Class(x) = 0
  /\ \A x \in 128..143 : Class(x) = 1
  /\ \A x \in 144..159 : Class(x) = 9
  /\ \A x \in 160..191 : Class(x) = 7
  /\ \A x \in {192, 193} \cup 245..255 : Class(x) = 8
  /\ \A x \in 194..223 : Class(x) = 2
  /\ \A x \in {224} : Class(x) = 10
  /\ \A x \in 225..239 \ {237} : Class(x) = 3
  /\ \A x \in {237} : Class(x) = 4
  /\ \A x \in {240} : Class(x) = 11
  /\ \A x \in 241..243 : Class(x) = 6
  /\ \A x \in {244} : Class(x) = 5
BY DEF Class

\* The row of each state.
DfaRow(x) ==
  /\ Dfa(0, x) = (IF x < 128 THEN 0 ELSE IF x < 194 THEN 1 ELSE IF x < 224 THEN 2
                  ELSE IF x = 224 THEN 4 ELSE IF x = 237 THEN 5 ELSE IF x < 240 THEN 3
                  ELSE IF x = 240 THEN 6 ELSE IF x = 244 THEN 8 ELSE IF x < 244 THEN 7
                  ELSE 1)
  /\ Dfa(2, x) = IF x \in After THEN 0 ELSE 1
  /\ Dfa(3, x) = IF x \in After THEN 2 ELSE 1
  /\ Dfa(4, x) = IF x \in 160..191 THEN 2 ELSE 1
  /\ Dfa(5, x) = IF x \in 128..159 THEN 2 ELSE 1
  /\ Dfa(6, x) = IF x \in 144..191 THEN 3 ELSE 1
  /\ Dfa(7, x) = IF x \in After THEN 3 ELSE 1
  /\ Dfa(8, x) = IF x \in 128..143 THEN 3 ELSE 1

LEMMA DfaIs ==
  ASSUME NEW x \in Byte
  PROVE  DfaRow(x)
<1> USE DEF Byte, After, Utf8Reject
<1>1. CASE x \in 0..127
  <2>1. Class(x) = 0
    BY <1>1, ClassIs
  <2> QED
    BY <1>1, <2>1 DEF Dfa, DfaRow
<1>2. CASE x \in 128..143
  <2>1. Class(x) = 1
    BY <1>2, ClassIs
  <2> QED
    BY <1>2, <2>1 DEF Dfa, DfaRow
<1>3. CASE x \in 144..159
  <2>1. Class(x) = 9
    BY <1>3, ClassIs
  <2> QED
    BY <1>3, <2>1 DEF Dfa, DfaRow
<1>4. CASE x \in 160..191
  <2>1. Class(x) = 7
    BY <1>4, ClassIs
  <2> QED
    BY <1>4, <2>1 DEF Dfa, DfaRow
<1>5. CASE x \in {192, 193} \cup 245..255
  <2>1. Class(x) = 8
    BY <1>5, ClassIs
  <2> QED
    BY <1>5, <2>1 DEF Dfa, DfaRow
<1>6. CASE x \in 194..223
  <2>1. Class(x) = 2
    BY <1>6, ClassIs
  <2> QED
    BY <1>6, <2>1 DEF Dfa, DfaRow
<1>7. CASE x \in {224}
  <2>1. Class(x) = 10
    BY <1>7, ClassIs
  <2> QED
    BY <1>7, <2>1 DEF Dfa, DfaRow
<1>8. CASE x \in 225..239 \ {237}
  <2>1. Class(x) = 3
    BY <1>8, ClassIs
  <2> QED
    BY <1>8, <2>1 DEF Dfa, DfaRow
<1>9. CASE x \in {237}
  <2>1. Class(x) = 4
    BY <1>9, ClassIs
  <2> QED
    BY <1>9, <2>1 DEF Dfa, DfaRow
<1>10. CASE x \in {240}
  <2>1. Class(x) = 11
    BY <1>10, ClassIs
  <2> QED
    BY <1>10, <2>1 DEF Dfa, DfaRow
<1>11. CASE x \in 241..243
  <2>1. Class(x) = 6
    BY <1>11, ClassIs
  <2> QED
    BY <1>11, <2>1 DEF Dfa, DfaRow
<1>12. CASE x \in {244}
  <2>1. Class(x) = 5
    BY <1>12, ClassIs
  <2> QED
    BY <1>12, <2>1 DEF Dfa, DfaRow
<1> QED
  <2> DEFINE one == x \in 0..127 \/ x \in 128..143 \/ x \in 144..159 \/ x \in 160..191
             two == \/ x \in {192, 193} \cup 245..255 \/ x \in 194..223 \/ x \in {224}
                    \/ x \in 225..239 \ {237}
             three == x \in {237} \/ x \in {240} \/ x \in 241..243 \/ x \in {244}
  <2>1. one \/ two \/ three
    OBVIOUS
  <2> HIDE DEF Byte, After
  <2>2. CASE one
    BY <1>1, <1>2, <1>3, <1>4, <2>2, Zenon
  <2>3. CASE two
    BY <1>5, <1>6, <1>7, <1>8, <2>3, Zenon
  <2>4. CASE three
    BY <1>9, <1>10, <1>11, <1>12, <2>4, Zenon
  <2> HIDE DEF one, two, three
  <2> QED
    BY <2>1, <2>2, <2>3, <2>4

\* The same without numbers.
LEMMA DfaRows ==
  ASSUME NEW x \in Byte
  PROVE  /\ x \in Ascii => Dfa(0, x) = 0
         /\ x \in Lead2 => Dfa(0, x) = 2
         /\ x \in Lead3 => Dfa(0, x) = IF x = 224 THEN 4 ELSE IF x = 237 THEN 5 ELSE 3
         /\ x \in Lead4 => Dfa(0, x) = IF x = 240 THEN 6 ELSE IF x = 244 THEN 8 ELSE 7
         /\ x \notin Ascii \cup Lead2 \cup Lead3 \cup Lead4 => Dfa(0, x) = 1
         /\ Dfa(2, x) = IF Continues(x) THEN 0 ELSE 1
         /\ Dfa(3, x) = IF Continues(x) THEN 2 ELSE 1
<1>1. /\ x \in Ascii => Dfa(0, x) = 0
      /\ x \in Lead2 => Dfa(0, x) = 2
  BY DfaIs DEF DfaRow, Byte, Ascii, Lead2
<1>2. /\ x \in Lead3 => Dfa(0, x) = IF x = 224 THEN 4 ELSE IF x = 237 THEN 5 ELSE 3
      /\ x \in Lead4 => Dfa(0, x) = IF x = 240 THEN 6 ELSE IF x = 244 THEN 8 ELSE 7
  BY DfaIs DEF DfaRow, Byte, Lead3, Lead4
<1>3. ASSUME x \notin Ascii \cup Lead2 \cup Lead3 \cup Lead4
      PROVE  Dfa(0, x) = 1
  <2>1. x \in 128..193 \cup 245..255
    BY <1>3 DEF Byte, Ascii, Lead2, Lead3, Lead4
  <2>2. Dfa(0, x) = (IF x < 128 THEN 0 ELSE IF x < 194 THEN 1 ELSE IF x < 224 THEN 2
                     ELSE IF x = 224 THEN 4 ELSE IF x = 237 THEN 5 ELSE IF x < 240 THEN 3
                     ELSE IF x = 240 THEN 6 ELSE IF x = 244 THEN 8 ELSE IF x < 244 THEN 7
                     ELSE 1)
    BY DfaIs DEF DfaRow
  <2> QED
    BY <2>1, <2>2
<1>4. /\ Dfa(2, x) = IF Continues(x) THEN 0 ELSE 1
      /\ Dfa(3, x) = IF Continues(x) THEN 2 ELSE 1
  BY DfaIs DEF DfaRow, Continues
<1> QED
  BY <1>1, <1>2, <1>3, <1>4

LEMMA DfaAfter3 ==
  ASSUME NEW a \in Lead3, NEW x \in Byte
  PROVE  Dfa(IF a = 224 THEN 4 ELSE IF a = 237 THEN 5 ELSE 3, x) =
           IF Begins3(a, x) THEN 2 ELSE 1
BY DfaIs DEF DfaRow, Begins3, Continues, After, Lead3, Byte

LEMMA DfaAfter4 ==
  ASSUME NEW a \in Lead4, NEW x \in Byte
  PROVE  Dfa(IF a = 240 THEN 6 ELSE IF a = 244 THEN 8 ELSE 7, x) =
           IF Begins4(a, x) THEN 3 ELSE 1
BY DfaIs DEF DfaRow, Begins4, Continues, After, Lead4, Byte

Appends(a, b, c, x) ==
  /\ Append(<<>>, x) = <<x>>
  /\ Append(<<a>>, x) = <<a, x>>
  /\ Append(<<a, b>>, x) = <<a, b, x>>
  /\ Append(<<a, b, c>>, x) = <<a, b, c, x>>

LEMMA Appended ==
  ASSUME NEW a \in Byte, NEW b \in Byte, NEW c \in Byte, NEW x \in Byte
  PROVE  Appends(a, b, c, x)
<1>1. ASSUME NEW s \in Seq(Byte), NEW t \in Seq(Byte), Len(t) = Len(s) + 1, t[Len(t)] = x,
             \A i \in 1..Len(s) : t[i] = s[i]
      PROVE  Append(s, x) = t
  <2>1. /\ Append(s, x) \in Seq(Byte) /\ Len(Append(s, x)) = Len(s) + 1
        /\ \A i \in 1..Len(s) : Append(s, x)[i] = s[i]
        /\ Append(s, x)[Len(s) + 1] = x
    BY AppendProperties
  <2>2. \A i \in 1..Len(Append(s, x)) : Append(s, x)[i] = t[i]
    BY <1>1, <2>1
  <2> QED
    BY <1>1, <2>1, <2>2, SeqEqual
<1>2. Append(<<>>, x) = <<x>>
  OBVIOUS
<1>3. Append(<<a>>, x) = <<a, x>>
  <2> DEFINE s == <<a>>
             t == <<a, x>>
  <2>1. /\ s \in Seq(Byte) /\ t \in Seq(Byte) /\ Len(s) = 1 /\ Len(t) = 2
        /\ t[2] = x /\ t[1] = s[1]
    OBVIOUS
  <2> HIDE DEF s, t
  <2>2. /\ Len(t) = Len(s) + 1 /\ t[Len(t)] = x
        /\ \A i \in 1..Len(s) : t[i] = s[i]
    BY <2>1
  <2>3. Append(s, x) = t
    BY <1>1, <2>1, <2>2
  <2> QED
    BY <2>3 DEF s, t
<1>4. Append(<<a, b>>, x) = <<a, b, x>>
  <2> DEFINE s == <<a, b>>
             t == <<a, b, x>>
  <2>1. /\ s \in Seq(Byte) /\ t \in Seq(Byte) /\ Len(s) = 2 /\ Len(t) = 3
        /\ t[3] = x /\ t[1] = s[1] /\ t[2] = s[2]
    OBVIOUS
  <2> HIDE DEF s, t
  <2>2. /\ Len(t) = Len(s) + 1 /\ t[Len(t)] = x
        /\ \A i \in 1..Len(s) : t[i] = s[i]
    BY <2>1
  <2>3. Append(s, x) = t
    BY <1>1, <2>1, <2>2
  <2> QED
    BY <2>3 DEF s, t
<1>5. Append(<<a, b, c>>, x) = <<a, b, c, x>>
  <2> DEFINE s == <<a, b, c>>
             t == <<a, b, c, x>>
  <2>1. /\ s \in Seq(Byte) /\ t \in Seq(Byte) /\ Len(s) = 3 /\ Len(t) = 4
        /\ t[4] = x /\ t[1] = s[1] /\ t[2] = s[2] /\ t[3] = s[3]
    OBVIOUS
  <2> HIDE DEF s, t
  <2>2. /\ Len(t) = Len(s) + 1 /\ t[Len(t)] = x
        /\ \A i \in 1..Len(s) : t[i] = s[i]
    BY <2>1
  <2>3. Append(s, x) = t
    BY <1>1, <2>1, <2>2
  <2> QED
    BY <2>3 DEF s, t
<1> QED
  BY <1>2, <1>3, <1>4, <1>5 DEF Appends

\* A byte more: the automaton rejects it where no character goes on like that,
\* and accepts where one ends.
Judges(next, read) ==
  /\ next = 1 => ~BeginsCharacter(read)
  /\ next # 1 => IF IsCharacter(read) THEN next = 0 ELSE Shape(next, read)

Follows(state, bytes, x) == Judges(Dfa(state, x), Append(bytes, x))

LEMMA FollowsNone ==
  ASSUME NEW x \in Byte
  PROVE  Follows(0, <<>>, x)
<1>1. Append(<<>>, x) = <<x>>
  BY Appended DEF Appends
<1>2. /\ BeginsCharacter(<<x>>) <=> x \in Ascii \cup Lead2 \cup Lead3 \cup Lead4
      /\ IsCharacter(<<x>>) <=> x \in Ascii
  BY BeginsOf1
<1>3. x \in Lead2 \cup Lead3 \cup Lead4 => x \notin Ascii
  BY DEF Ascii, Lead2, Lead3, Lead4
<1>4. CASE x \in Ascii
  BY <1>1, <1>2, <1>4, DfaRows DEF Follows, Judges
<1>5. CASE x \in Lead2 \cup Lead3 \cup Lead4
  <2>1. Shape(Dfa(0, x), <<x>>)
    BY <1>5, DfaRows DEF Shape
  <2>2. Dfa(0, x) # 1
    BY <1>5, DfaRows
  <2> QED
    BY <1>1, <1>2, <1>3, <1>5, <2>1, <2>2 DEF Follows, Judges
<1>6. CASE x \notin Ascii \cup Lead2 \cup Lead3 \cup Lead4
  BY <1>1, <1>2, <1>6, DfaRows DEF Follows, Judges
<1> QED
  BY <1>4, <1>5, <1>6

LEMMA FollowsOne ==
  ASSUME NEW x \in Byte
  PROVE  /\ \A a \in Lead2 : Follows(2, <<a>>, x)
         /\ \A a \in Lead3 :
              Follows(IF a = 224 THEN 4 ELSE IF a = 237 THEN 5 ELSE 3, <<a>>, x)
         /\ \A a \in Lead4 :
              Follows(IF a = 240 THEN 6 ELSE IF a = 244 THEN 8 ELSE 7, <<a>>, x)
<1>1. \A a \in Lead2 \cup Lead3 \cup Lead4 : a \in Byte /\ Append(<<a>>, x) = <<a, x>>
  <2>1. \A a \in Lead2 \cup Lead3 \cup Lead4 : a \in Byte
    BY DEF Byte, Lead2, Lead3, Lead4
  <2> QED
    BY <2>1, Appended DEF Appends
<1>2. ASSUME NEW a \in Lead2 PROVE Follows(2, <<a>>, x)
  <2>1. Append(<<a>>, x) = <<a, x>>
    BY <1>1
  <2>2. Dfa(2, x) = IF Continues(x) THEN 0 ELSE 1
    BY DfaRows
  <2>3. /\ BeginsCharacter(<<a, x>>) <=> Continues(x)
        /\ IsCharacter(<<a, x>>) <=> Continues(x)
    BY BeginsOf2
  <2>4. Judges(Dfa(2, x), <<a, x>>)
    BY <2>2, <2>3 DEF Judges
  <2> QED
    BY <2>1, <2>4, Zenon DEF Follows
<1>3. ASSUME NEW a \in Lead3, NEW state, state = IF a = 224 THEN 4 ELSE IF a = 237 THEN 5 ELSE 3
      PROVE  Follows(state, <<a>>, x)
  <2>1. Dfa(state, x) = IF Begins3(a, x) THEN 2 ELSE 1
    BY <1>3, DfaAfter3
  <2>2. Begins3(a, x) => Shape(2, <<a, x>>)
    BY <1>3 DEF Shape
  <2>3. Append(<<a>>, x) = <<a, x>>
    BY <1>1
  <2>4. /\ BeginsCharacter(<<a, x>>) <=> Begins3(a, x)
        /\ ~IsCharacter(<<a, x>>)
    BY BeginsOf3
  <2>5. Judges(Dfa(state, x), <<a, x>>)
    BY <2>1, <2>2, <2>4 DEF Judges
  <2> QED
    BY <2>3, <2>5, Zenon DEF Follows
<1>4. ASSUME NEW a \in Lead4, NEW state, state = IF a = 240 THEN 6 ELSE IF a = 244 THEN 8 ELSE 7
      PROVE  Follows(state, <<a>>, x)
  <2>1. Dfa(state, x) = IF Begins4(a, x) THEN 3 ELSE 1
    BY <1>4, DfaAfter4
  <2>2. Begins4(a, x) => Shape(3, <<a, x>>)
    BY <1>4 DEF Shape
  <2>3. Append(<<a>>, x) = <<a, x>>
    BY <1>1
  <2>4. /\ BeginsCharacter(<<a, x>>) <=> Begins4(a, x)
        /\ ~IsCharacter(<<a, x>>)
    BY BeginsOf4
  <2>5. Judges(Dfa(state, x), <<a, x>>)
    BY <2>1, <2>2, <2>4 DEF Judges
  <2> QED
    BY <2>3, <2>5, Zenon DEF Follows
<1> QED
  BY <1>2, <1>3, <1>4

LEMMA FollowsMore ==
  ASSUME NEW b \in Byte, NEW c \in Byte, NEW x \in Byte
  PROVE  /\ \A a \in Lead3 : Begins3(a, b) => Follows(2, <<a, b>>, x)
         /\ \A a \in Lead4 : Begins4(a, b) => Follows(3, <<a, b>>, x)
         /\ \A a \in Lead4 : Begins4(a, b) /\ Continues(c) => Follows(2, <<a, b, c>>, x)
<1>1. \A a \in Lead3 \cup Lead4 : a \in Byte
  BY DEF Byte, Lead3, Lead4
<1>2. /\ Dfa(2, x) = IF Continues(x) THEN 0 ELSE 1
      /\ Dfa(3, x) = IF Continues(x) THEN 2 ELSE 1
  BY DfaRows
<1>3. ASSUME NEW a \in Lead3, Begins3(a, b) PROVE Follows(2, <<a, b>>, x)
  <2>1. Append(<<a, b>>, x) = <<a, b, x>>
    <3>1. a \in Byte
      BY <1>1
    <3>2. Appends(a, b, x, x)
      BY <3>1, Appended
    <3> QED
      BY <3>2, Zenon DEF Appends
  <2>2. /\ BeginsCharacter(<<a, b, x>>) <=> Continues(x)
        /\ IsCharacter(<<a, b, x>>) <=> Continues(x)
    BY <1>3, BeginsOf3
  <2>3. Judges(Dfa(2, x), <<a, b, x>>)
    BY <1>2, <2>2 DEF Judges
  <2> QED
    BY <2>1, <2>3, Zenon DEF Follows
<1>4. ASSUME NEW a \in Lead4, Begins4(a, b) PROVE Follows(3, <<a, b>>, x)
  <2>1. Append(<<a, b>>, x) = <<a, b, x>>
    <3>1. a \in Byte
      BY <1>1
    <3>2. Appends(a, b, x, x)
      BY <3>1, Appended
    <3> QED
      BY <3>2, Zenon DEF Appends
  <2>2. Continues(x) => Shape(2, <<a, b, x>>)
    BY <1>4 DEF Shape
  <2>3. /\ BeginsCharacter(<<a, b, x>>) <=> Continues(x)
        /\ ~IsCharacter(<<a, b, x>>)
    BY <1>4, BeginsOf4
  <2>4. Judges(Dfa(3, x), <<a, b, x>>)
    BY <1>2, <2>2, <2>3 DEF Judges
  <2> QED
    BY <2>1, <2>4, Zenon DEF Follows
<1>5. ASSUME NEW a \in Lead4, Begins4(a, b), Continues(c)
      PROVE  Follows(2, <<a, b, c>>, x)
  <2>1. Append(<<a, b, c>>, x) = <<a, b, c, x>>
    <3>1. a \in Byte
      BY <1>1
    <3>2. Appends(a, b, c, x)
      BY <3>1, Appended
    <3> QED
      BY <3>2, Zenon DEF Appends
  <2>2. /\ BeginsCharacter(<<a, b, c, x>>) <=> Continues(x)
        /\ IsCharacter(<<a, b, c, x>>) <=> Continues(x)
    BY <1>5, BeginsOf4
  <2>3. Judges(Dfa(2, x), <<a, b, c, x>>)
    BY <1>2, <2>2 DEF Judges
  <2> QED
    BY <2>1, <2>3, Zenon DEF Follows
<1> QED
  BY <1>3, <1>4, <1>5

LEMMA ByteRead ==
  ASSUME NEW state, NEW bytes, Shape(state, bytes), NEW x \in Byte
  PROVE  Follows(state, bytes, x)
<1>1. \A a \in Lead3, b \in Byte : Begins3(a, b) => Follows(2, <<a, b>>, x)
  BY FollowsMore
<1>2. \A a \in Lead4, b \in Byte : Begins4(a, b) => Follows(3, <<a, b>>, x)
  BY FollowsMore
<1>3. \A a \in Lead4, b \in Byte, c \in Byte :
        Begins4(a, b) /\ Continues(c) => Follows(2, <<a, b, c>>, x)
  BY FollowsMore
<1> QED
  BY <1>1, <1>2, <1>3, FollowsNone, FollowsOne DEF Shape

\* A character that is not at its end has begun.
LEMMA ShapeBegins ==
  ASSUME NEW state, NEW bytes, Shape(state, bytes)
  PROVE  /\ state \in {0} \cup 2..8
         /\ state = 0 <=> bytes = <<>>
         /\ bytes # <<>> => BeginsCharacter(bytes)
<1>1. \A a \in Lead2 \cup Lead3 \cup Lead4 : BeginsCharacter(<<a>>) /\ <<a>> # <<>>
  <2>1. \A a \in Lead2 \cup Lead3 \cup Lead4 : a \in Byte
    BY DEF Byte, Lead2, Lead3, Lead4
  <2> QED
    BY <2>1, BeginsOf1
<1>2. \A a \in Lead3, b \in Byte : Begins3(a, b) => BeginsCharacter(<<a, b>>) /\ <<a, b>> # <<>>
  BY BeginsOf3
<1>3. \A a \in Lead4, b \in Byte : Begins4(a, b) => BeginsCharacter(<<a, b>>) /\ <<a, b>> # <<>>
  BY BeginsOf4
<1>4. \A a \in Lead4, b \in Byte, c \in Byte :
        Begins4(a, b) /\ Continues(c) => BeginsCharacter(<<a, b, c>>) /\ <<a, b, c>> # <<>>
  BY BeginsOf4
<1> QED
  BY <1>1, <1>2, <1>3, <1>4 DEF Shape

-----------------------------------------------------------------------------
(* Numbers *)

\* A set of numbers has a least one: what an induction rests on here.
LEMMA LeastOf ==
  ASSUME NEW T, T \subseteq Nat, T # {}
  PROVE  \E n \in T : \A m \in T : n <= m
<1> DEFINE Below == {p \in Nat \X Nat : p[1] < p[2]}
<1>1. IsWellFoundedOn(Below, Nat)
  BY NatLessThanWellFounded DEF OpToRel
<1>2. \A m, n \in Nat : m < n => <<m, n>> \in Below
  OBVIOUS
<1> HIDE DEF Below
<1>3. PICK n \in T : \A m \in T : <<m, n>> \notin Below
  BY <1>1, WFMin
<1>4. \A m \in T : ~(m < n)
  BY <1>2, <1>3
<1>5. \A m \in T : m \in Nat
  OBVIOUS
<1> QED
  BY <1>4, <1>5

LEMMA UpTo ==
  ASSUME NEW N \in Nat, NEW Holds, 0 \in Holds,
         \A n \in 0..N : n \in Holds /\ n < N => n + 1 \in Holds
  PROVE  \A n \in 0..N : n \in Holds
<1> SUFFICES ASSUME NEW n \in 0..N, n \notin Holds
             PROVE  FALSE
  OBVIOUS
<1> DEFINE T == {k \in 0..N : k \notin Holds}
<1>1. T \subseteq Nat /\ T # {}
  OBVIOUS
<1>2. PICK k \in T : \A m \in T : k <= m
  BY <1>1, LeastOf
<1>3. k \in 0..N /\ k # 0
  OBVIOUS
<1>4. k - 1 \in 0..N /\ k - 1 < N /\ (k - 1) + 1 = k
  BY <1>3
<1>5. k - 1 \in Holds
  <2>1. ~(k <= k - 1)
    BY <1>3
  <2> QED
    BY <1>2, <1>4, <2>1
<1> QED
  BY <1>4, <1>5

\* What a recursive function over 0..N is: each value made of the one before.
Runs(q, N, f, x, S) ==
  /\ q = [i \in 0..N |-> q[i]]
  /\ q[0] = x
  /\ \A i \in 0..N : q[i] \in S
  /\ \A i \in 1..N : q[i] = f[i][q[i - 1]]

LEMMA RunExists ==
  ASSUME NEW N \in Nat, NEW S, NEW x \in S, NEW f,
         \A i \in 1..N : \A s \in S : f[i][s] \in S
  PROVE  \E q : Runs(q, N, f, x, S)
<1> DEFINE Holds == {n \in 0..N : \E q : Runs(q, n, f, x, S)}
<1>1. 0 \in Holds
  <2> DEFINE h == [i \in 0..0 |-> x]
  <2>1. \A i \in 0..0 : i = 0
    OBVIOUS
  <2>2. h[0] = x /\ (\A i \in 0..0 : h[i] \in S) /\ h = [i \in 0..0 |-> h[i]]
    OBVIOUS
  <2>3. 1..0 = {}
    OBVIOUS
  <2> HIDE DEF h
  <2>4. Runs(h, 0, f, x, S)
    BY <2>2, <2>3, Zenon DEF Runs
  <2> QED
    BY <2>4
<1>2. ASSUME NEW n \in 0..N, n \in Holds, n < N
      PROVE  n + 1 \in Holds
  <2>1. PICK q : Runs(q, n, f, x, S)
    BY <1>2
  <2>2. /\ q[0] = x /\ (\A i \in 0..n : q[i] \in S)
        /\ \A i \in 1..n : q[i] = f[i][q[i - 1]]
    BY <2>1 DEF Runs
  <2> DEFINE h == [i \in 0..(n + 1) |-> IF i = n + 1 THEN f[n + 1][q[n]] ELSE q[i]]
  <2>3. n + 1 \in 1..N /\ n \in 0..n /\ 0 \in 0..n
    BY <1>2
  <2>4. f[n + 1][q[n]] \in S
    BY <2>2, <2>3
  <2>5. /\ h[n + 1] = f[n + 1][q[n]] /\ h = [i \in 0..(n + 1) |-> h[i]]
        /\ \A i \in 0..n : h[i] = q[i]
    OBVIOUS
  <2>6. \A i \in 0..(n + 1) : i = n + 1 \/ i \in 0..n
    OBVIOUS
  <2>7. \A i \in 1..(n + 1) : i = n + 1 \/ (i \in 1..n /\ i \in 0..n /\ i - 1 \in 0..n)
    OBVIOUS
  <2>8. (n + 1) - 1 = n
    OBVIOUS
  <2> HIDE DEF h
  <2>9. \A i \in 0..(n + 1) : h[i] \in S
    BY <2>2, <2>4, <2>5, <2>6
  <2>10. \A i \in 1..(n + 1) : h[i] = f[i][h[i - 1]]
    <3> SUFFICES ASSUME NEW i \in 1..(n + 1) PROVE h[i] = f[i][h[i - 1]]
      OBVIOUS
    <3>1. CASE i = n + 1
      <4>1. h[i - 1] = q[n]
        BY <2>3, <2>5, <2>8, <3>1, Zenon
      <4> QED
        BY <2>5, <3>1, <4>1, Zenon
    <3>2. CASE i \in 1..n /\ i \in 0..n /\ i - 1 \in 0..n
      BY <2>2, <2>5, <3>2, Zenon
    <3> QED
      BY <2>7, <3>1, <3>2
  <2>11. h[0] = x
    BY <2>2, <2>3, <2>5
  <2>12. Runs(h, n + 1, f, x, S)
    BY <2>5, <2>9, <2>10, <2>11 DEF Runs
  <2> QED
    BY <2>3, <2>12
<1> HIDE DEF Holds
<1>3. N \in Holds
  BY <1>1, <1>2, UpTo
<1> QED
  BY <1>3 DEF Holds

\* The quotients that struct takes the bytes of a number from.
Divides(q, n, x) == q = [i \in 0..n |-> IF i = 0 THEN x ELSE q[i - 1] \div 256]

LEMMA DividesExists ==
  ASSUME NEW n \in Nat, NEW x \in Nat
  PROVE  \E q : Divides(q, n, x)
<1> DEFINE half == [i \in 1..n |-> [k \in Nat |-> k \div 256]]
<1>1. \A i \in 1..n : \A k \in Nat : half[i][k] = k \div 256 /\ k \div 256 \in Nat
  OBVIOUS
<1> HIDE DEF half
<1>2. PICK q : Runs(q, n, half, x, Nat)
  <2>1. \A i \in 1..n : \A k \in Nat : half[i][k] \in Nat
    BY <1>1
  <2> QED
    BY <2>1, RunExists
<1>3. \A i \in 0..n : i = 0 \/ (i \in 1..n /\ i - 1 \in 0..n /\ i # 0)
  OBVIOUS
<1>4. \A i \in 1..n : q[i] = half[i][q[i - 1]]
  BY <1>2 DEF Runs
<1>5. (\A i \in 0..n : q[i] \in Nat) /\ q = [i \in 0..n |-> q[i]] /\ q[0] = x
  BY <1>2 DEF Runs
<1>6. ASSUME NEW i \in 0..n
      PROVE  q[i] = IF i = 0 THEN x ELSE q[i - 1] \div 256
  <2>1. CASE i = 0
    BY <1>5, <2>1, Zenon
  <2>2. CASE i \in 1..n /\ i - 1 \in 0..n /\ i # 0
    <3>1. q[i - 1] \in Nat
      BY <1>5, <2>2
    <3>2. half[i][q[i - 1]] = q[i - 1] \div 256
      BY <1>1, <2>2, <3>1
    <3> QED
      BY <1>4, <2>2, <3>2, Zenon
  <2> QED
    BY <1>3, <2>1, <2>2
<1>7. Divides(q, n, x)
  BY <1>5, <1>6, Zenon DEF Divides
<1> QED
  BY <1>7

High(k) == k \div 256
Low(k) == k % 256

LEMMA HighLow ==
  ASSUME NEW k \in Nat
  PROVE  High(k) \in Nat /\ Low(k) \in 0..255 /\ k = 256 * High(k) + Low(k)
BY DEF High, Low

\* q: the quotients that the n + 1 bytes of x are taken from.
Spelled(q, n, x) ==
  /\ q[0] = x
  /\ \A i \in 0..n : q[i] \in Nat
  /\ \A i \in 1..n : q[i] = High(q[i - 1])
  /\ BigEndian(n + 1, x) = [i \in 1..(n + 1) |-> Low(q[(n + 1) - i])]

LEMMA BigEndianIs ==
  ASSUME NEW n \in Nat, NEW x \in Nat
  PROVE  \E q : Spelled(q, n, x)
<1> DEFINE run == CHOOSE q : Divides(q, (n + 1) - 1, x)
<1>1. (n + 1) - 1 = n
  OBVIOUS
<1>2. BigEndian(n + 1, x) = [i \in 1..(n + 1) |-> Low(run[(n + 1) - i])]
  BY DEF BigEndian, Divides, Low
<1>3. Divides(run, n, x)
  BY <1>1, DividesExists, Zenon
<1> HIDE DEF run
<1>4. run = [i \in 0..n |-> IF i = 0 THEN x ELSE High(run[i - 1])]
  BY <1>3 DEF Divides, High
<1>5. \A i \in 1..n : i \in 0..n /\ i # 0
  OBVIOUS
<1>6. 0 \in 0..n
  OBVIOUS
<1>7. run[0] = x
  BY <1>4, <1>6, Zenon
<1>8. \A i \in 1..n : run[i] = High(run[i - 1])
  BY <1>4, <1>5, Zenon
<1>9. \A i \in 0..n : run[i] \in Nat
  <2> DEFINE Holds == {i \in 0..n : run[i] \in Nat}
  <2>1. 0 \in Holds
    BY <1>6, <1>7
  <2>2. ASSUME NEW i \in 0..n, i \in Holds, i < n
        PROVE  i + 1 \in Holds
    <3>1. i + 1 \in 1..n /\ i + 1 \in 0..n /\ (i + 1) - 1 = i
      BY <2>2
    <3>2. run[i + 1] = High(run[i])
      BY <1>8, <3>1
    <3>3. run[i + 1] \in Nat
      BY <2>2, <3>2, HighLow
    <3> QED
      BY <3>1, <3>3
  <2> HIDE DEF Holds
  <2>3. \A i \in 0..n : i \in Holds
    BY <2>1, <2>2, UpTo
  <2> QED
    BY <2>3 DEF Holds
<1>10. Spelled(run, n, x)
  BY <1>2, <1>7, <1>8, <1>9 DEF Spelled
<1> QED
  BY <1>10

LEMMA BytesOf ==
  ASSUME NEW n \in Nat, NEW x \in Nat
  PROVE  /\ BigEndian(n + 1, x) \in Seq(0..255)
         /\ Len(BigEndian(n + 1, x)) = n + 1
<1>1. PICK q : Spelled(q, n, x)
  BY BigEndianIs
<1>2. BigEndian(n + 1, x) = [i \in 1..(n + 1) |-> Low(q[(n + 1) - i])]
  BY <1>1 DEF Spelled
<1>3. ASSUME NEW i \in 1..(n + 1)
      PROVE  Low(q[(n + 1) - i]) \in 0..255
  <2>1. (n + 1) - i \in 0..n
    OBVIOUS
  <2>2. q[(n + 1) - i] \in Nat
    BY <1>1, <2>1 DEF Spelled
  <2> QED
    BY <2>2, HighLow
<1> DEFINE byte(i) == Low(q[(n + 1) - i])
<1> HIDE DEF byte
<1>4. BigEndian(n + 1, x) = [i \in 1..(n + 1) |-> byte(i)]
  BY <1>2 DEF byte
<1>5. \A i \in 1..(n + 1) : byte(i) \in 0..255
  BY <1>3 DEF byte
<1>6. n + 1 \in Nat
  OBVIOUS
<1>7. [i \in 1..(n + 1) |-> byte(i)] \in Seq(0..255)
  BY <1>5, <1>6, IsASeq
<1>8. Len([i \in 1..(n + 1) |-> byte(i)]) = n + 1
  BY <1>6
<1> QED
  BY <1>4, <1>7, <1>8

\* The sums that it makes a number of.
Sums(v, bytes) ==
  v = [i \in 0..Len(bytes) |-> IF i = 0 THEN 0 ELSE 256 * v[i - 1] + bytes[i]]

LEMMA SumsExist ==
  ASSUME NEW bytes, Len(bytes) \in Nat, \A i \in 1..Len(bytes) : bytes[i] \in Nat
  PROVE  \E v : Sums(v, bytes)
<1> DEFINE n == Len(bytes)
           add == [i \in 1..n |-> [k \in Nat |-> 256 * k + bytes[i]]]
<1>1. \A i \in 1..n : \A k \in Nat :
        add[i][k] = 256 * k + bytes[i] /\ add[i][k] \in Nat
  OBVIOUS
<1> HIDE DEF add
<1>2. PICK v : Runs(v, n, add, 0, Nat)
  <2>1. \A i \in 1..n : \A k \in Nat : add[i][k] \in Nat
    BY <1>1
  <2> QED
    BY <2>1, RunExists
<1>3. \A i \in 0..n : i = 0 \/ (i \in 1..n /\ i - 1 \in 0..n /\ i # 0)
  OBVIOUS
<1>4. \A i \in 1..n : v[i] = add[i][v[i - 1]]
  BY <1>2 DEF Runs
<1>5. (\A i \in 0..n : v[i] \in Nat) /\ v = [i \in 0..n |-> v[i]] /\ v[0] = 0
  BY <1>2 DEF Runs
<1>6. ASSUME NEW i \in 0..n
      PROVE  v[i] = IF i = 0 THEN 0 ELSE 256 * v[i - 1] + bytes[i]
  <2>1. CASE i = 0
    BY <1>5, <2>1, Zenon
  <2>2. CASE i \in 1..n /\ i - 1 \in 0..n /\ i # 0
    <3>1. v[i - 1] \in Nat
      BY <1>5, <2>2
    <3>2. add[i][v[i - 1]] = 256 * v[i - 1] + bytes[i]
      <4>1. \A k \in Nat : add[i][k] = 256 * k + bytes[i]
        BY <1>1, <2>2
      <4> QED
        BY <3>1, <4>1
    <3> QED
      BY <1>4, <2>2, <3>2, Zenon
  <2> QED
    BY <1>3, <2>1, <2>2
<1>7. v = [i \in 0..n |-> IF i = 0 THEN 0 ELSE 256 * v[i - 1] + bytes[i]]
  <2> DEFINE now(i) == IF i = 0 THEN 0 ELSE 256 * v[i - 1] + bytes[i]
  <2>1. \A i \in 0..n : v[i] = now(i)
    BY <1>6
  <2> HIDE DEF n, now
  <2>2. v = [i \in 0..n |-> now(i)]
    BY <1>5, <2>1, Zenon
  <2> QED
    BY <2>2 DEF now
<1>8. Sums(v, bytes)
  BY <1>7 DEF Sums
<1> QED
  BY <1>8

LEMMA NumberIs ==
  ASSUME NEW bytes, Len(bytes) \in Nat, \A i \in 1..Len(bytes) : bytes[i] \in Nat
  PROVE  \E v : /\ v[0] = 0
                /\ \A i \in 1..Len(bytes) : v[i] = 256 * v[i - 1] + bytes[i]
                /\ Number(bytes) = v[Len(bytes)]
<1> DEFINE run == CHOOSE v : Sums(v, bytes)
<1>1. Number(bytes) = run[Len(bytes)]
  BY DEF Number, Sums
<1>2. Sums(run, bytes)
  BY SumsExist, Zenon
<1> HIDE DEF run
<1>3. run = [i \in 0..Len(bytes) |-> IF i = 0 THEN 0 ELSE 256 * run[i - 1] + bytes[i]]
  BY <1>2 DEF Sums
<1>4. \A i \in 1..Len(bytes) : i \in 0..Len(bytes) /\ i # 0
  OBVIOUS
<1>5. 0 \in 0..Len(bytes)
  OBVIOUS
<1>6. run[0] = 0
  BY <1>3, <1>5, Zenon
<1>7. \A i \in 1..Len(bytes) : run[i] = 256 * run[i - 1] + bytes[i]
  BY <1>3, <1>4, Zenon
<1> QED
  BY <1>1, <1>6, <1>7

LEMMA NumberTyped ==
  ASSUME NEW bytes \in Seq(Byte)
  PROVE  Number(bytes) \in Nat
<1>1. Len(bytes) \in Nat /\ \A i \in 1..Len(bytes) : bytes[i] \in Nat
  <2>1. Len(bytes) \in Nat /\ \A i \in 1..Len(bytes) : bytes[i] \in Byte
    BY LenProperties
  <2>2. \A x \in Byte : x \in Nat
    BY DEF Byte
  <2> QED
    BY <2>1, <2>2
<1>2. PICK v : /\ v[0] = 0
               /\ \A i \in 1..Len(bytes) : v[i] = 256 * v[i - 1] + bytes[i]
               /\ Number(bytes) = v[Len(bytes)]
  BY <1>1, NumberIs
<1> DEFINE n == Len(bytes)
           Holds == {i \in 0..n : v[i] \in Nat}
<1>3. 0 \in Holds
  BY <1>1, <1>2
<1>4. ASSUME NEW i \in 0..n, i \in Holds, i < n
      PROVE  i + 1 \in Holds
  <2>1. i + 1 \in 1..n /\ i + 1 \in 0..n /\ (i + 1) - 1 = i
    BY <1>1, <1>4
  <2>2. v[i] \in Nat /\ bytes[i + 1] \in Nat
    BY <1>1, <1>4, <2>1
  <2>3. v[i + 1] = 256 * v[i] + bytes[i + 1]
    BY <1>2, <2>1
  <2>4. v[i + 1] \in Nat
    BY <2>2, <2>3
  <2> QED
    BY <2>1, <2>4
<1>5. n \in Nat /\ n \in 0..n
  BY <1>1
<1> HIDE DEF Holds
<1>6. n \in Holds
  BY <1>3, <1>4, <1>5, UpTo
<1> QED
  BY <1>2, <1>6 DEF Holds

LEMMA NumberOfTwo ==
  ASSUME NEW a \in 0..255, NEW b \in 0..255
  PROVE  Number(<<a, b>>) = 256 * a + b
<1> DEFINE bytes == <<a, b>>
<1>1. Len(bytes) = 2 /\ bytes[1] = a /\ bytes[2] = b
  OBVIOUS
<1> HIDE DEF bytes
<1>2. \A i \in 1..2 : bytes[i] \in Nat
  <2>1. \A i \in 1..2 : i = 1 \/ i = 2
    OBVIOUS
  <2> QED
    BY <1>1, <2>1
<1>3. PICK v : /\ v[0] = 0 /\ \A i \in 1..2 : v[i] = 256 * v[i - 1] + bytes[i]
               /\ Number(bytes) = v[2]
  <2>1. Len(bytes) \in Nat /\ \A i \in 1..Len(bytes) : bytes[i] \in Nat
    BY <1>1, <1>2
  <2>2. \E v : /\ v[0] = 0
               /\ \A i \in 1..Len(bytes) : v[i] = 256 * v[i - 1] + bytes[i]
               /\ Number(bytes) = v[Len(bytes)]
    BY <2>1, NumberIs, Zenon
  <2>3. Len(bytes) = 2
    BY <1>1
  <2> QED
    BY <2>2, <2>3, Zenon
<1>4. 1 \in 1..2 /\ 2 \in 1..2 /\ 1 - 1 = 0 /\ 2 - 1 = 1
  OBVIOUS
<1>5. v[1] = 256 * v[0] + bytes[1] /\ v[2] = 256 * v[1] + bytes[2]
  BY <1>3, <1>4
<1>6. v[1] = a
  BY <1>1, <1>3, <1>5
<1>7. v[2] = 256 * a + b
  BY <1>1, <1>5, <1>6
<1> QED
  BY <1>3, <1>7 DEF bytes

LEMMA LowIs ==
  ASSUME NEW y \in 0..255
  PROVE  Low(y) = y
BY DEF Low

LEMMA ShortHalves ==
  ASSUME NEW x \in Short
  PROVE  /\ x \in Nat
         /\ High(x) \in 0..255 /\ Low(x) \in 0..255
         /\ High(x) * 256 + Low(x) = x
<1>1. x \in Nat /\ x < 65536
  BY DEF Short
<1>2. High(x) \in Nat /\ High(x) <= 255
  BY <1>1 DEF High
<1>3. Low(x) \in 0..255
  BY <1>1 DEF Low
<1>4. High(x) * 256 + Low(x) = x
  BY <1>1 DEF High, Low
<1>5. High(x) \in 0..255
  BY <1>2
<1> QED
  BY <1>1, <1>3, <1>4, <1>5

LEMMA TwoBytes ==
  ASSUME NEW x \in Short
  PROVE  /\ BigEndian(2, x) = <<High(x), Low(x)>>
         /\ Number(<<High(x), Low(x)>>) = x
<1>1. x \in Nat /\ High(x) \in 0..255 /\ Low(x) \in 0..255 /\ High(x) * 256 + Low(x) = x
  BY ShortHalves
<1>2. PICK q : Spelled(q, 1, x)
  BY <1>1, BigEndianIs
<1>3. Low(q[1]) = High(x) /\ Low(q[0]) = Low(x)
  <2>1. q[0] = x /\ q[1] = High(x)
    BY <1>2 DEF Spelled
  <2> QED
    BY <1>1, <2>1, LowIs
<1>4. BigEndian(2, x) = [i \in 1..2 |-> Low(q[2 - i])]
  BY <1>2 DEF Spelled
<1>5. BigEndian(2, x) = <<Low(q[1]), Low(q[0])>>
  BY <1>4
<1>6. Number(<<High(x), Low(x)>>) = x
  <2>1. Number(<<High(x), Low(x)>>) = 256 * High(x) + Low(x)
    <3>1. High(x) \in 0..255 /\ Low(x) \in 0..255
      BY <1>1
    <3> DEFINE a == High(x)
               b == Low(x)
    <3> HIDE DEF a, b
    <3>2. a \in 0..255 /\ b \in 0..255
      BY <3>1 DEF a, b
    <3>3. Number(<<a, b>>) = 256 * a + b
      BY <3>2, NumberOfTwo, Zenon
    <3> QED
      BY <3>3 DEF a, b
  <2> QED
    BY <1>1, <2>1, SMT
<1> QED
  BY <1>3, <1>5, <1>6

LEMMA Halved ==
  ASSUME NEW k \in Nat
  PROVE  High(High(k)) = k \div 65536 /\ (k < 32768 => High(k) <= 127)
<1>1. High(High(k)) = k \div 65536
  BY DEF High
<1>2. k < 32768 => High(k) <= 127
  BY DEF High
<1> QED
  BY <1>1, <1>2

Wide == {n \in Nat : ((n \div 65536) \div 65536) \div 65536 < 32768}

LEMMA WideHalves ==
  ASSUME NEW x \in Wide, NEW q, Spelled(q, 7, x)
  PROVE  q[7] <= 127
<1>1. x \in Nat /\ ((x \div 65536) \div 65536) \div 65536 < 32768
  BY DEF Wide
<1> DEFINE half(k) == k \div 65536
<1>2. half(half(half(x))) < 32768
  BY <1>1
<1>3. \A k \in Nat : High(High(k)) = half(k) /\ half(k) \in Nat
  BY Halved
<1> HIDE DEF half
<1>4. /\ q[1] = High(q[0]) /\ q[2] = High(q[1]) /\ q[3] = High(q[2])
      /\ q[4] = High(q[3]) /\ q[5] = High(q[4]) /\ q[6] = High(q[5])
      /\ q[7] = High(q[6])
  BY DEF Spelled
<1>5. q[0] = x
  BY DEF Spelled
<1>6. q[6] = half(half(half(x)))
  BY <1>1, <1>3, <1>4, <1>5
<1>7. q[6] \in Nat
  BY <1>1, <1>3, <1>6
<1> QED
  BY <1>2, <1>4, <1>6, <1>7, Halved

LEMMA EightBytes ==
  ASSUME NEW x \in Wide
  PROVE  BigEndian(8, x)[1] <= 127 /\ Number(BigEndian(8, x)) = x
<1> DEFINE bytes == BigEndian(8, x)
<1>1. x \in Nat
  BY DEF Wide
<1>2. PICK q : Spelled(q, 7, x)
  BY <1>1, BigEndianIs
<1>3. bytes = [i \in 1..8 |-> Low(q[8 - i])]
  BY <1>2 DEF Spelled
<1>4. q[7] <= 127
  BY <1>2, WideHalves
<1> HIDE DEF bytes
<1>5. Len(bytes) = 8 /\ \A i \in 1..8 : bytes[i] \in Nat
  <2>1. \A i \in 0..7 : Low(q[i]) \in Nat
    <3> SUFFICES ASSUME NEW i \in 0..7 PROVE Low(q[i]) \in Nat
      OBVIOUS
    <3>1. q[i] \in Nat
      BY <1>2 DEF Spelled
    <3>2. Low(q[i]) \in 0..255
      BY <3>1, HighLow
    <3> QED
      BY <3>2
  <2>2. Len(bytes) = 8 /\ \A i \in 1..8 : bytes[i] = Low(q[8 - i]) /\ 8 - i \in 0..7
    BY <1>3
  <2> QED
    BY <2>1, <2>2
<1>6. PICK v : /\ v[0] = 0 /\ \A i \in 1..8 : v[i] = 256 * v[i - 1] + bytes[i]
               /\ Number(bytes) = v[8]
  <2>1. Len(bytes) \in Nat /\ \A i \in 1..Len(bytes) : bytes[i] \in Nat
    BY <1>5
  <2>2. PICK v : /\ v[0] = 0
                 /\ \A i \in 1..Len(bytes) : v[i] = 256 * v[i - 1] + bytes[i]
                 /\ Number(bytes) = v[Len(bytes)]
    BY <2>1, NumberIs, Zenon
  <2> QED
    BY <1>5, <2>2
<1>7. /\ bytes[1] = Low(q[7]) /\ bytes[2] = Low(q[6]) /\ bytes[3] = Low(q[5])
      /\ bytes[4] = Low(q[4]) /\ bytes[5] = Low(q[3]) /\ bytes[6] = Low(q[2])
      /\ bytes[7] = Low(q[1]) /\ bytes[8] = Low(q[0])
  BY <1>3
<1>8. Low(q[7]) = q[7]
  <2>1. q[7] \in 0..255
    BY <1>2, <1>4 DEF Spelled
  <2> QED
    BY <2>1, LowIs
<1>9. \A i \in 1..7 : q[i - 1] = 256 * q[i] + Low(q[i - 1])
  <2> SUFFICES ASSUME NEW i \in 1..7 PROVE q[i - 1] = 256 * q[i] + Low(q[i - 1])
    OBVIOUS
  <2>1. q[i] = High(q[i - 1]) /\ q[i - 1] \in Nat
    BY <1>2 DEF Spelled
  <2> QED
    BY <2>1, HighLow
<1>10. v[1] = q[7]
  <2>1. q[7] \in Nat
    BY <1>2 DEF Spelled
  <2> QED
    BY <1>6, <1>7, <1>8, <2>1
<1>11. v[2] = q[6]
  BY <1>6, <1>7, <1>9, <1>10
<1>12. v[3] = q[5]
  BY <1>6, <1>7, <1>9, <1>11
<1>13. v[4] = q[4]
  BY <1>6, <1>7, <1>9, <1>12
<1>14. v[5] = q[3]
  BY <1>6, <1>7, <1>9, <1>13
<1>15. v[6] = q[2]
  BY <1>6, <1>7, <1>9, <1>14
<1>16. v[7] = q[1]
  BY <1>6, <1>7, <1>9, <1>15
<1>17. v[8] = q[0]
  BY <1>6, <1>7, <1>9, <1>16
<1>18. q[0] = x
  BY <1>2 DEF Spelled
<1> QED
  BY <1>4, <1>6, <1>7, <1>8, <1>17, <1>18 DEF bytes

-----------------------------------------------------------------------------
(* Masks *)

Bit(a, w) == (a \div w) % 2
Bits(a, b, c, d, e, f, g, h) ==
  a + (2 * b) + (4 * c) + (8 * d) + (16 * e) + (32 * f) + (64 * g) + (128 * h)
Weights == {1, 2, 4, 8, 16, 32, 64, 128}

\* A byte is the sum of its bits, and these are the bits of their sum.
LEMMA BitsOf ==
  ASSUME NEW x \in 0..255
  PROVE  /\ \A w \in Weights : Bit(x, w) \in 0..1
         /\ x = Bits(Bit(x, 1), Bit(x, 2), Bit(x, 4), Bit(x, 8),
                     Bit(x, 16), Bit(x, 32), Bit(x, 64), Bit(x, 128))
<1>1. \A w \in Weights : Bit(x, w) \in 0..1
  BY DEF Bit, Weights
<1>2. x = Bits(Bit(x, 1), Bit(x, 2), Bit(x, 4), Bit(x, 8),
               Bit(x, 16), Bit(x, 32), Bit(x, 64), Bit(x, 128))
  <2>1. x = 2 * (x \div 2) + Bit(x, 1)
    BY DEF Bit
  <2>2. x \div 2 = 2 * (x \div 4) + Bit(x, 2)
    BY DEF Bit
  <2>3. x \div 4 = 2 * (x \div 8) + Bit(x, 4)
    BY DEF Bit
  <2>4. x \div 8 = 2 * (x \div 16) + Bit(x, 8)
    BY DEF Bit
  <2>5. x \div 16 = 2 * (x \div 32) + Bit(x, 16)
    BY DEF Bit
  <2>6. x \div 32 = 2 * (x \div 64) + Bit(x, 32)
    BY DEF Bit
  <2>7. x \div 64 = 2 * (x \div 128) + Bit(x, 64)
    BY DEF Bit
  <2>8. x \div 128 = Bit(x, 128)
    BY DEF Bit
  <2>9. /\ Bit(x, 1) \in Int /\ Bit(x, 2) \in Int /\ Bit(x, 4) \in Int /\ Bit(x, 8) \in Int
        /\ Bit(x, 16) \in Int /\ Bit(x, 32) \in Int /\ Bit(x, 64) \in Int
        /\ Bit(x, 128) \in Int
    BY DEF Bit
  <2> QED
    BY <2>1, <2>2, <2>3, <2>4, <2>5, <2>6, <2>7, <2>8, <2>9 DEF Bits
<1> QED
  BY <1>1, <1>2

LEMMA BitsAre ==
  ASSUME NEW a, NEW b, NEW c, NEW d, NEW e, NEW f, NEW g, NEW h,
         NEW x, x = Bits(a, b, c, d, e, f, g, h),
         a \in 0..1 /\ b \in 0..1 /\ c \in 0..1 /\ d \in 0..1,
         e \in 0..1 /\ f \in 0..1 /\ g \in 0..1 /\ h \in 0..1
  PROVE  /\ x \in 0..255
         /\ Bit(x, 1) = a /\ Bit(x, 2) = b /\ Bit(x, 4) = c /\ Bit(x, 8) = d
         /\ Bit(x, 16) = e /\ Bit(x, 32) = f /\ Bit(x, 64) = g /\ Bit(x, 128) = h
<1>1. x \in 0..255
  BY DEF Bits
<1>2. Bit(x, 1) = a
  BY <1>1 DEF Bit, Bits
<1>3. Bit(x, 2) = b
  BY <1>1 DEF Bit, Bits
<1>4. Bit(x, 4) = c
  BY <1>1 DEF Bit, Bits
<1>5. Bit(x, 8) = d
  BY <1>1 DEF Bit, Bits
<1>6. Bit(x, 16) = e
  BY <1>1 DEF Bit, Bits
<1>7. Bit(x, 32) = f
  BY <1>1 DEF Bit, Bits
<1>8. Bit(x, 64) = g
  BY <1>1 DEF Bit, Bits
<1>9. Bit(x, 128) = h
  BY <1>1 DEF Bit, Bits
<1> QED
  BY <1>1, <1>2, <1>3, <1>4, <1>5, <1>6, <1>7, <1>8, <1>9

Differ(x, y) == IF x = y THEN 0 ELSE 1

LEMMA XorBits ==
  ASSUME NEW a, NEW k
  PROVE  Xor(a, k) = Bits(Differ(Bit(a, 1), Bit(k, 1)), Differ(Bit(a, 2), Bit(k, 2)),
                          Differ(Bit(a, 4), Bit(k, 4)), Differ(Bit(a, 8), Bit(k, 8)),
                          Differ(Bit(a, 16), Bit(k, 16)), Differ(Bit(a, 32), Bit(k, 32)),
                          Differ(Bit(a, 64), Bit(k, 64)), Differ(Bit(a, 128), Bit(k, 128)))
<1> DEFINE bit(w) == IF Bit(a, w) = Bit(k, w) THEN 0 ELSE w
<1>1. Xor(a, k) = bit(1) + bit(2) + bit(4) + bit(8)
                  + bit(16) + bit(32) + bit(64) + bit(128)
  BY Zenon DEF Xor, Bit
<1>2. /\ bit(1) = Differ(Bit(a, 1), Bit(k, 1)) /\ bit(2) = 2 * Differ(Bit(a, 2), Bit(k, 2))
      /\ bit(4) = 4 * Differ(Bit(a, 4), Bit(k, 4)) /\ bit(8) = 8 * Differ(Bit(a, 8), Bit(k, 8))
      /\ bit(16) = 16 * Differ(Bit(a, 16), Bit(k, 16))
      /\ bit(32) = 32 * Differ(Bit(a, 32), Bit(k, 32))
      /\ bit(64) = 64 * Differ(Bit(a, 64), Bit(k, 64))
      /\ bit(128) = 128 * Differ(Bit(a, 128), Bit(k, 128))
  BY DEF Differ
<1> HIDE DEF bit
<1> QED
  BY <1>1, <1>2 DEF Bits

\* What is masked twice is what it was.
LEMMA XorTwice ==
  ASSUME NEW a \in 0..255, NEW k \in 0..255
  PROVE  Xor(a, k) \in 0..255 /\ Xor(Xor(a, k), k) = a
<1> DEFINE x == Xor(a, k)
           differ(w) == Differ(Bit(a, w), Bit(k, w))
<1>1. \A w \in Weights : Bit(a, w) \in 0..1 /\ Bit(k, w) \in 0..1
  BY BitsOf
<1>2. \A w \in Weights : differ(w) \in 0..1
  BY DEF Differ
<1>3. x = Bits(differ(1), differ(2), differ(4), differ(8),
               differ(16), differ(32), differ(64), differ(128))
  BY XorBits
<1>4. \A w \in Weights : Differ(differ(w), Bit(k, w)) = Bit(a, w)
  BY <1>1 DEF Differ
<1>5. Xor(x, k) = Bits(Differ(Bit(x, 1), Bit(k, 1)), Differ(Bit(x, 2), Bit(k, 2)),
                       Differ(Bit(x, 4), Bit(k, 4)), Differ(Bit(x, 8), Bit(k, 8)),
                       Differ(Bit(x, 16), Bit(k, 16)), Differ(Bit(x, 32), Bit(k, 32)),
                       Differ(Bit(x, 64), Bit(k, 64)), Differ(Bit(x, 128), Bit(k, 128)))
  BY XorBits
<1>6. 1 \in Weights /\ 2 \in Weights /\ 4 \in Weights /\ 8 \in Weights
      /\ 16 \in Weights /\ 32 \in Weights /\ 64 \in Weights /\ 128 \in Weights
  BY DEF Weights
<1> HIDE DEF x, differ
<1>7. /\ x \in 0..255
      /\ Bit(x, 1) = differ(1) /\ Bit(x, 2) = differ(2) /\ Bit(x, 4) = differ(4)
      /\ Bit(x, 8) = differ(8) /\ Bit(x, 16) = differ(16) /\ Bit(x, 32) = differ(32)
      /\ Bit(x, 64) = differ(64) /\ Bit(x, 128) = differ(128)
  <2>1. /\ differ(1) \in 0..1 /\ differ(2) \in 0..1 /\ differ(4) \in 0..1
        /\ differ(8) \in 0..1 /\ differ(16) \in 0..1 /\ differ(32) \in 0..1
        /\ differ(64) \in 0..1 /\ differ(128) \in 0..1
    BY <1>2, <1>6, Zenon
  <2> DEFINE A == differ(1)  B == differ(2)  C == differ(4)  D == differ(8)
             E == differ(16) F == differ(32) G == differ(64) H == differ(128)
  <2>2. /\ A \in 0..1 /\ B \in 0..1 /\ C \in 0..1 /\ D \in 0..1
        /\ E \in 0..1 /\ F \in 0..1 /\ G \in 0..1 /\ H \in 0..1
    BY <2>1
  <2>3. x = Bits(A, B, C, D, E, F, G, H)
    BY <1>3
  <2> HIDE DEF A, B, C, D, E, F, G, H
  <2>4. /\ x \in 0..255
        /\ Bit(x, 1) = A /\ Bit(x, 2) = B /\ Bit(x, 4) = C /\ Bit(x, 8) = D
        /\ Bit(x, 16) = E /\ Bit(x, 32) = F /\ Bit(x, 64) = G /\ Bit(x, 128) = H
    BY <2>2, <2>3, BitsAre
  <2> QED
    BY <2>4 DEF A, B, C, D, E, F, G, H
<1>8. Xor(x, k) = Bits(Bit(a, 1), Bit(a, 2), Bit(a, 4), Bit(a, 8),
                       Bit(a, 16), Bit(a, 32), Bit(a, 64), Bit(a, 128))
  BY <1>4, <1>5, <1>6, <1>7
<1>9. Xor(x, k) = a
  BY <1>8, BitsOf
<1> QED
  BY <1>7, <1>9 DEF x

LEMMA Joined ==
  ASSUME NEW S, NEW s \in Seq(S), NEW t \in Seq(S)
  PROVE  /\ s \o t \in Seq(S) /\ Len(s \o t) = Len(s) + Len(t)
         /\ \A i \in 1..Len(s) : (s \o t)[i] = s[i]
         /\ \A i \in 1..Len(t) : (s \o t)[Len(s) + i] = t[i]
<1>1. Len(s) \in Nat /\ Len(t) \in Nat
  BY LenProperties
<1>2. \A i \in 1..(Len(s) + Len(t)) :
        (s \o t)[i] = IF i <= Len(s) THEN s[i] ELSE t[i - Len(s)]
  BY ConcatProperties
<1>3. ASSUME NEW i \in 1..Len(s)
      PROVE  (s \o t)[i] = s[i]
  BY <1>1, <1>2
<1>4. ASSUME NEW i \in 1..Len(t)
      PROVE  (s \o t)[Len(s) + i] = t[i]
  <2>1. Len(s) + i \in 1..(Len(s) + Len(t)) /\ ~(Len(s) + i <= Len(s)) /\ (Len(s) + i) - Len(s) = i
    BY <1>1
  <2> QED
    BY <1>2, <2>1
<1> QED
  BY <1>3, <1>4, ConcatProperties

\* A sequence by what is where in it.
Has(w, m, s) == m + Len(s) <= Len(w) /\ \A i \in 1..Len(s) : w[m + i] = s[i]

IsJoin(u, s, t) ==
  /\ u \in Seq(Byte) /\ Len(u) = Len(s) + Len(t)
  /\ \A i \in 1..Len(s) : u[i] = s[i]
  /\ \A i \in 1..Len(t) : u[Len(s) + i] = t[i]

LEMMA JoinIs ==
  ASSUME NEW s \in Seq(Byte), NEW t \in Seq(Byte)
  PROVE  IsJoin(s \o t, s, t)
BY Joined DEF IsJoin

\* A part that is there is what SubSeq() gives.
LEMMA Cut ==
  ASSUME NEW w \in Seq(Byte), NEW s \in Seq(Byte), NEW m \in Nat, Has(w, m, s)
  PROVE  SubSeq(w, m + 1, m + Len(s)) = s
<1>1. Len(s) \in Nat /\ Len(w) \in Nat /\ m + Len(s) <= Len(w)
  BY LenProperties DEF Has
<1> DEFINE t == SubSeq(w, m + 1, m + Len(s))
<1>2. \A i \in (m + 1)..(m + Len(s)) : w[i] \in Byte
  <2> SUFFICES ASSUME NEW i \in (m + 1)..(m + Len(s)) PROVE w[i] \in Byte
    OBVIOUS
  <2>1. i \in 1..Len(w)
    BY <1>1
  <2> QED
    BY <2>1
<1>3. /\ t \in Seq(Byte) /\ Len(t) = Len(s)
      /\ \A i \in 1..Len(s) : t[i] = w[m + i]
  <2>1. m + 1 \in Int /\ m + Len(s) \in Int
    BY <1>1
  <2>2. /\ t \in Seq(Byte)
        /\ Len(t) = IF m + 1 <= m + Len(s) THEN (m + Len(s)) - (m + 1) + 1 ELSE 0
        /\ \A i \in 1..((m + Len(s)) - (m + 1) + 1) : t[i] = w[(m + 1) + i - 1]
    BY <1>2, <2>1, SubSeqProperties
  <2>3. (m + Len(s)) - (m + 1) + 1 = Len(s)
    BY <1>1
  <2>4. Len(t) = Len(s)
    BY <1>1, <2>2
  <2>5. ASSUME NEW i \in 1..Len(s)
        PROVE  t[i] = w[m + i]
    <3>1. (m + 1) + i - 1 = m + i
      BY <1>1
    <3> QED
      BY <2>2, <2>3, <3>1
  <2> QED
    BY <2>2, <2>4, <2>5
<1>4. \A i \in 1..Len(t) : t[i] = s[i]
  BY <1>3 DEF Has
<1> HIDE DEF t
<1>5. t = s
  BY <1>3, <1>4, SeqEqual
<1> QED
  BY <1>5 DEF t

LEMMA HasBoth ==
  ASSUME NEW s \in Seq(Byte), NEW t \in Seq(Byte)
  PROVE  /\ Has(s \o t, Len(s), t)
         /\ Has(s \o t, 0, s)
         /\ \A x \in Seq(Byte), m \in Nat : Has(s, m, x) => Has(s \o t, m, x)
<1>1. /\ Len(s) \in Nat /\ Len(t) \in Nat /\ Len(s \o t) = Len(s) + Len(t)
      /\ \A i \in 1..Len(s) : (s \o t)[i] = s[i]
      /\ \A i \in 1..Len(t) : (s \o t)[Len(s) + i] = t[i]
  BY Joined, LenProperties
<1>2. Has(s \o t, Len(s), t)
  BY <1>1 DEF Has
<1>3. ASSUME NEW x \in Seq(Byte), NEW m \in Nat, Has(s, m, x)
      PROVE  Has(s \o t, m, x)
  <2>1. Len(x) \in Nat /\ m + Len(x) <= Len(s)
    BY <1>3, LenProperties DEF Has
  <2>2. m + Len(x) <= Len(s \o t)
    BY <1>1, <2>1
  <2>3. ASSUME NEW i \in 1..Len(x)
        PROVE  (s \o t)[m + i] = x[i]
    <3>1. m + i \in 1..Len(s)
      BY <1>1, <2>1
    <3>2. (s \o t)[m + i] = s[m + i]
      BY <1>1, <3>1
    <3> QED
      BY <1>3, <3>2 DEF Has
  <2> QED
    BY <2>2, <2>3 DEF Has
<1>4. Has(s, 0, s)
  BY <1>1 DEF Has
<1> QED
  BY <1>2, <1>3, <1>4

\* What is one byte after another, in four parts.
LaidOut(w, a, sized, key, data) ==
  /\ w \in Seq(Byte) /\ Len(w) = 5 + Len(sized) + Len(data)
  /\ w[1] = a
  /\ Has(w, 1, sized) /\ Has(w, 1 + Len(sized), key) /\ Has(w, 5 + Len(sized), data)

LEMMA Layout ==
  ASSUME NEW a \in Byte, NEW sized \in Seq(Byte), NEW key \in Seq(Byte), Len(key) = 4,
         NEW data \in Seq(Byte), NEW w, w = <<a>> \o sized \o key \o data
  PROVE  LaidOut(w, a, sized, key, data)
<1> DEFINE head == <<a>>
           x == head \o sized
           y == x \o key
<1>1. head \in Seq(Byte) /\ Len(head) = 1 /\ head[1] = a
  OBVIOUS
<1>2. w = y \o data
  OBVIOUS
<1>3. Len(sized) \in Nat /\ Len(data) \in Nat
  BY LenProperties
<1> HIDE DEF head
<1>4. x \in Seq(Byte) /\ Len(x) = 1 + Len(sized)
  <2>1. x \in Seq(Byte) /\ Len(x) = Len(head) + Len(sized)
    BY <1>1, Joined, Zenon
  <2> QED
    BY <1>1, <2>1
<1>5. Has(x, 1, sized) /\ Has(x, 0, head)
  BY <1>1, HasBoth
<1> HIDE DEF x
<1>6. y \in Seq(Byte) /\ Len(y) = 5 + Len(sized)
  <2>1. y \in Seq(Byte) /\ Len(y) = Len(x) + Len(key)
    <3>1. IsJoin(x \o key, x, key)
      BY <1>4, JoinIs
    <3> QED
      BY <3>1 DEF IsJoin
  <2> QED
    BY <1>3, <1>4, <2>1
<1>7. 0 \in Nat /\ 1 \in Nat /\ 1 + Len(sized) \in Nat /\ 1 \in 1..1 /\ 0 + 1 = 1
  BY <1>3
<1>8. Has(y, 1, sized) /\ Has(y, 0, head) /\ Has(y, 1 + Len(sized), key)
  BY <1>1, <1>4, <1>5, <1>7, HasBoth
<1> HIDE DEF y
<1>9. w \in Seq(Byte) /\ Len(w) = 5 + Len(sized) + Len(data)
  <2>1. y \o data \in Seq(Byte) /\ Len(y \o data) = Len(y) + Len(data)
    <3>1. IsJoin(y \o data, y, data)
      BY <1>6, JoinIs
    <3> QED
      BY <3>1 DEF IsJoin
  <2> QED
    BY <1>2, <1>3, <1>6, <2>1
<1>10. /\ Has(w, 1, sized) /\ Has(w, 0, head) /\ Has(w, 1 + Len(sized), key)
       /\ Has(w, 5 + Len(sized), data)
  BY <1>1, <1>2, <1>6, <1>7, <1>8, HasBoth
<1>11. w[1] = a
  BY <1>1, <1>7, <1>10 DEF Has
<1> QED
  BY <1>9, <1>10, <1>11 DEF LaidOut

LEMMA HasWithin ==
  ASSUME NEW w \in Seq(Byte), NEW s \in Seq(Byte), NEW t \in Seq(Byte), NEW m \in Nat,
         NEW n \in Nat, Has(w, m, s), Has(s, n, t)
  PROVE  Has(w, m + n, t)
<1>1. /\ Len(s) \in Nat /\ Len(t) \in Nat /\ Len(w) \in Nat
      /\ m + Len(s) <= Len(w) /\ n + Len(t) <= Len(s)
      /\ \A i \in 1..Len(s) : w[m + i] = s[i]
      /\ \A i \in 1..Len(t) : s[n + i] = t[i]
  BY LenProperties DEF Has
<1>2. m + n + Len(t) <= Len(w)
  BY <1>1
<1>3. ASSUME NEW i \in 1..Len(t)
      PROVE  w[m + n + i] = t[i]
  <2>1. n + i \in 1..Len(s) /\ m + (n + i) = m + n + i
    BY <1>1
  <2>2. w[m + (n + i)] = s[n + i]
    BY <1>1, <2>1
  <2> QED
    BY <1>1, <2>1, <2>2
<1> QED
  BY <1>2, <1>3 DEF Has

-----------------------------------------------------------------------------
(* What the client sends *)

\* The length of a payload: a byte and what extends it.
LengthByte(n) == 128 + (IF n < 126 THEN n ELSE IF n < 65536 THEN 126 ELSE 127)
Extension(n) ==
  IF n < 126 THEN <<>> ELSE IF n < 65536 THEN BigEndian(2, n) ELSE BigEndian(8, n)

\* How many bytes extend it, as a server knows.
Extra(short) == IF short < 126 THEN 0 ELSE IF short = 126 THEN 2 ELSE 8

LEMMA BigEndianTyped ==
  ASSUME NEW x \in Nat
  PROVE  /\ BigEndian(2, x) \in Seq(Byte) /\ Len(BigEndian(2, x)) = 2
         /\ BigEndian(7, x) \in Seq(Byte) /\ Len(BigEndian(7, x)) = 7
         /\ BigEndian(8, x) \in Seq(Byte) /\ Len(BigEndian(8, x)) = 8
<1> DEFINE Good(n) == BigEndian(n + 1, x) \in Seq(Byte) /\ Len(BigEndian(n + 1, x)) = n + 1
<1>1. 1 \in Nat /\ 6 \in Nat /\ 7 \in Nat
  OBVIOUS
<1>2. \A n \in Nat : Good(n)
  BY BytesOf DEF Byte
<1> HIDE DEF Good
<1>3. Good(1) /\ Good(6) /\ Good(7)
  BY <1>1, <1>2
<1> QED
  BY <1>3 DEF Good

\* The byte c and the bytes e after it say n, in no more bytes than it takes.
SaysLength(c, e, n) ==
  /\ c \in Byte /\ c \div 128 = 1
  /\ e \in Seq(Byte) /\ Len(e) = Extra(c % 128)
  /\ n = IF Len(e) = 0 THEN c % 128 ELSE Number(e)
  /\ Len(e) = 2 <=> n \in Short /\ n > 125
  /\ Len(e) = 8 <=> n \notin Short

LEMMA LengthForm ==
  ASSUME NEW n \in Wide
  PROVE  SaysLength(LengthByte(n), Extension(n), n)
<1>1. n \in Nat
  BY DEF Wide
<1>2. CASE n < 126
  <2>1. LengthByte(n) = 128 + n
    BY <1>2 DEF LengthByte
  <2>2. LengthByte(n) \in Byte /\ LengthByte(n) \div 128 = 1 /\ LengthByte(n) % 128 = n
    BY <1>1, <1>2, <2>1 DEF Byte
  <2>3. Extra(LengthByte(n) % 128) = 0
    BY <1>2, <2>2 DEF Extra
  <2>4. Extension(n) = <<>> /\ Extension(n) \in Seq(Byte) /\ Len(Extension(n)) = 0
    BY <1>2 DEF Extension
  <2>5. n \in Short /\ ~(n > 125)
    BY <1>1, <1>2 DEF Short
  <2> QED
    BY <2>2, <2>3, <2>4, <2>5 DEF SaysLength
<1>3. CASE n >= 126 /\ n < 65536
  <2>1. LengthByte(n) = 254
    BY <1>1, <1>3 DEF LengthByte
  <2>2. LengthByte(n) \in Byte /\ LengthByte(n) \div 128 = 1 /\ LengthByte(n) % 128 = 126
    BY <2>1 DEF Byte
  <2>3. Extra(LengthByte(n) % 128) = 2
    BY <2>2 DEF Extra
  <2>4. Extension(n) = BigEndian(2, n)
    BY <1>1, <1>3 DEF Extension
  <2>5. Extension(n) \in Seq(Byte) /\ Len(Extension(n)) = 2
    BY <1>1, <2>4, BigEndianTyped
  <2>6. Number(Extension(n)) = n
    <3>1. n \in Short
      BY <1>1, <1>3 DEF Short
    <3> QED
      BY <2>4, <3>1, TwoBytes
  <2>7. n \in Short /\ n > 125
    BY <1>1, <1>3 DEF Short
  <2> QED
    BY <2>2, <2>3, <2>5, <2>6, <2>7 DEF SaysLength
<1>4. CASE n >= 65536
  <2>1. LengthByte(n) = 255
    BY <1>1, <1>4 DEF LengthByte
  <2>2. LengthByte(n) \in Byte /\ LengthByte(n) \div 128 = 1 /\ LengthByte(n) % 128 = 127
    BY <2>1 DEF Byte
  <2>3. Extra(LengthByte(n) % 128) = 8
    BY <2>2 DEF Extra
  <2>4. Extension(n) = BigEndian(8, n)
    BY <1>1, <1>4 DEF Extension
  <2>5. Extension(n) \in Seq(Byte) /\ Len(Extension(n)) = 8
    BY <1>1, <2>4, BigEndianTyped
  <2>6. Number(Extension(n)) = n
    BY <2>4, EightBytes
  <2>7. n \notin Short
    BY <1>1, <1>4 DEF Short
  <2> QED
    BY <2>2, <2>3, <2>5, <2>6, <2>7 DEF SaysLength
<1> QED
  BY <1>1, <1>2, <1>3, <1>4

LEMMA PatternTyped == Pattern \in Seq(Byte) /\ Len(Pattern) \in Nat
BY WireAssumption, LenProperties DEF WireAssumption, Byte

LEMMA FirstBytesIs ==
  ASSUME NEW n \in Nat
  PROVE  /\ FirstBytes(n) \in Seq(Byte)
         /\ IsPrefix(FirstBytes(n), Pattern)
         /\ Len(FirstBytes(n)) = n \/ Len(FirstBytes(n)) = Len(Pattern)
<1> DEFINE m == IF n < Len(Pattern) THEN n ELSE Len(Pattern)
<1>1. m \in Nat /\ m <= Len(Pattern) /\ (m = n \/ m = Len(Pattern))
  BY PatternTyped
<1>2. FirstBytes(n) = SubSeq(Pattern, 1, m)
  BY DEF FirstBytes
<1> HIDE DEF m
<1>3. \A i \in 1..m : Pattern[i] \in Byte
  <2> SUFFICES ASSUME NEW i \in 1..m PROVE Pattern[i] \in Byte
    OBVIOUS
  <2>1. i \in 1..Len(Pattern)
    BY <1>1, PatternTyped
  <2> QED
    BY <2>1, PatternTyped
<1>4. FirstBytes(n) \in Seq(Byte) /\ Len(FirstBytes(n)) = m
  <2>1. /\ SubSeq(Pattern, 1, m) \in Seq(Byte)
        /\ Len(SubSeq(Pattern, 1, m)) = IF 1 <= m THEN m - 1 + 1 ELSE 0
    BY <1>1, <1>3, SubSeqProperties
  <2> QED
    BY <1>1, <1>2, <2>1
<1>5. SubSeq(FirstBytes(n), 1, m) = FirstBytes(n)
  <2> DEFINE t == FirstBytes(n)
  <2>1. Has(t, 0, t)
    BY <1>1, <1>4 DEF Has
  <2> HIDE DEF t
  <2>2. t \in Seq(Byte) /\ Len(t) = m
    BY <1>4 DEF t
  <2>3. SubSeq(t, 0 + 1, 0 + Len(t)) = t
    BY <2>1, <2>2, Cut
  <2>4. 0 + 1 = 1 /\ 0 + Len(t) = m
    BY <1>1, <2>2
  <2> QED
    BY <2>3, <2>4 DEF t
<1>6. IsPrefix(FirstBytes(n), Pattern)
  BY <1>1, <1>2, <1>4, <1>5 DEF IsPrefix
<1> QED
  BY <1>1, <1>4, <1>6

LEMMA KeyTyped ==
  ASSUME NEW key \in MaskKeys
  PROVE  key \in Seq(Byte) /\ Len(key) = 4 /\ \A i \in 1..4 : key[i] \in 0..255
<1>1. key \in [1..4 -> 0..255]
  BY WireAssumption DEF WireAssumption
<1>2. key = [i \in 1..4 |-> key[i]] /\ \A i \in 1..4 : key[i] \in 0..255
  BY <1>1
<1>3. \A i \in 1..4 : key[i] \in Byte
  BY <1>2 DEF Byte
<1>4. /\ [i \in 1..4 |-> key[i]] \in Seq(Byte)
      /\ Len([i \in 1..4 |-> key[i]]) = 4
  BY <1>3, IsASeq
<1> QED
  BY <1>2, <1>4

LEMMA Masked ==
  ASSUME NEW key \in MaskKeys, NEW data \in Seq(Byte)
  PROVE  /\ MaskPayload(key, data) \in Seq(Byte)
         /\ Len(MaskPayload(key, data)) = Len(data)
         /\ \A i \in 1..Len(data) :
              Xor(MaskPayload(key, data)[i], key[1 + ((i + 3) % 4)]) = data[i]
<1> DEFINE place(i) == 1 + ((i - 1) % 4)
           byte(i) == Xor(data[i], key[place(i)])
           n == Len(data)
<1>1. n \in Nat /\ DOMAIN data = 1..n /\ \A i \in 1..n : data[i] \in Byte
  BY LenProperties
<1>2. MaskPayload(key, data) = [i \in 1..n |-> byte(i)]
  BY <1>1 DEF MaskPayload
<1>3. \A i \in 1..n : place(i) \in 1..4 /\ 1 + ((i + 3) % 4) = place(i)
  <2> SUFFICES ASSUME NEW i \in 1..n PROVE place(i) \in 1..4 /\ 1 + ((i + 3) % 4) = place(i)
    OBVIOUS
  <2>1. i \in Int /\ i >= 1
    BY <1>1
  <2> HIDE DEF n
  <2>2. (i - 1) % 4 \in 0..3
    BY <2>1
  <2>3. (i + 3) % 4 = (i - 1) % 4
    BY <2>1
  <2> QED
    BY <2>2, <2>3
<1> HIDE DEF place
<1>4. \A i \in 1..n : byte(i) \in Byte /\ Xor(byte(i), key[place(i)]) = data[i]
  <2> SUFFICES ASSUME NEW i \in 1..n
               PROVE  byte(i) \in Byte /\ Xor(byte(i), key[place(i)]) = data[i]
    OBVIOUS
  <2>1. data[i] \in 0..255 /\ key[place(i)] \in 0..255
    BY <1>1, <1>3, KeyTyped DEF Byte
  <2> QED
    BY <2>1, XorTwice DEF Byte
<1> HIDE DEF byte
<1>5. /\ [i \in 1..n |-> byte(i)] \in Seq(Byte)
      /\ Len([i \in 1..n |-> byte(i)]) = n
  BY <1>1, <1>4, IsASeq
<1>6. \A i \in 1..n : [j \in 1..n |-> byte(j)][i] = byte(i)
  OBVIOUS
<1> QED
  BY <1>2, <1>3, <1>4, <1>5, <1>6

HasStatus(f) == f.op = CLOSE /\ f.size >= 2

\* What p is of the payload of f: its status where there is one, and as much of
\* the rest as is known.
SaysPayload(p, f) ==
  LET text == IF HasStatus(f) THEN SubSeq(p, 3, Len(p)) ELSE p
  IN  /\ HasStatus(f) => p[1] * 256 + p[2] = f.status
      /\ IsPrefix(text, Pattern)
      /\ Len(p) = f.size \/ Len(text) = Len(Pattern)

LEMMA PayloadIs ==
  ASSUME NEW f \in OutRecord
  PROVE  BuildPayload(f) \in Seq(Byte) /\ SaysPayload(BuildPayload(f), f)
<1>1. f.size \in Nat /\ f.status \in Short
  BY DEF OutRecord
<1>2. CASE ~HasStatus(f)
  <2>1. BuildPayload(f) = FirstBytes(f.size)
    BY <1>2 DEF BuildPayload, HasStatus
  <2> QED
    BY <1>1, <1>2, <2>1, FirstBytesIs DEF SaysPayload
<1>3. CASE HasStatus(f)
  <2> DEFINE a == High(f.status)
             b == Low(f.status)
             text == FirstBytes(f.size - 2)
             status == <<a, b>>
             p == status \o text
  <2>1. f.size - 2 \in Nat
    BY <1>1, <1>3 DEF HasStatus
  <2>2. BuildPayload(f) = BigEndian(2, f.status) \o text
    BY <1>3 DEF BuildPayload, HasStatus
  <2>3. BigEndian(2, f.status) = status
    BY <1>1, TwoBytes
  <2>4. a \in Byte /\ b \in Byte /\ a * 256 + b = f.status
    BY <1>1, ShortHalves DEF Byte
  <2>5. /\ text \in Seq(Byte) /\ IsPrefix(text, Pattern) /\ Len(text) \in Nat
        /\ Len(text) = f.size - 2 \/ Len(text) = Len(Pattern)
    BY <2>1, FirstBytesIs, LenProperties
  <2> HIDE DEF a, b, text
  <2>6. status \in Seq(Byte) /\ Len(status) = 2 /\ status[1] = a /\ status[2] = b
    BY <2>4
  <2> HIDE DEF status
  <2>7. p \in Seq(Byte) /\ Len(p) = 2 + Len(text) /\ p[1] = a /\ p[2] = b
    <3>1. /\ p \in Seq(Byte) /\ Len(p) = Len(status) + Len(text)
          /\ \A i \in 1..Len(status) : p[i] = status[i]
      <4>1. status \in Seq(Byte) /\ text \in Seq(Byte)
        BY <2>5, <2>6
      <4> QED
        BY <4>1, Joined, Zenon
    <3> QED
      BY <2>6, <3>1
  <2>8. SubSeq(p, 3, Len(p)) = text
    <3>1. Has(p, 2, text)
      BY <2>5, <2>6, HasBoth
    <3> HIDE DEF p
    <3>2. SubSeq(p, 2 + 1, 2 + Len(text)) = text
      BY <2>5, <2>7, <3>1, Cut
    <3> QED
      BY <2>7, <3>2
  <2>9. BuildPayload(f) = p
    BY <2>2, <2>3
  <2> HIDE DEF p
  <2>10. Len(p) = f.size \/ Len(text) = Len(Pattern)
    BY <1>1, <2>5, <2>7
  <2> QED
    BY <1>3, <2>4, <2>5, <2>7, <2>8, <2>9, <2>10 DEF SaysPayload
<1> QED
  BY <1>2, <1>3

Fields(f) == 128 + 16 * f.rsv + f.op

LEMMA FieldsOf ==
  ASSUME NEW f \in OutRecord
  PROVE  /\ Fields(f) \in Byte /\ Fields(f) \div 128 = 1
         /\ (Fields(f) \div 16) % 8 = f.rsv /\ Fields(f) % 16 = f.op
<1>1. f.op \in 0..15 /\ f.rsv \in {0, 4}
  BY DEF OutRecord, Opcodes
<1>2. CASE f.rsv = 0
  <2>1. Fields(f) = 128 + f.op
    BY <1>1, <1>2 DEF Fields
  <2> QED
    BY <1>1, <1>2, <2>1 DEF Byte
<1>3. CASE f.rsv = 4
  <2>1. Fields(f) = 192 + f.op
    BY <1>1, <1>3 DEF Fields
  <2> QED
    BY <1>1, <1>3, <2>1 DEF Byte
<1> QED
  BY <1>1, <1>2, <1>3

LEMMA BuildIs ==
  ASSUME NEW f \in OutRecord, f.size \in Wide, NEW key \in MaskKeys
  PROVE  Build(f, key) = <<Fields(f)>> \o (<<LengthByte(f.size)>> \o Extension(f.size))
                           \o key \o MaskPayload(key, BuildPayload(f))
<1> DEFINE n == f.size
           sized == IF n < 126 THEN <<128 + n>>
                    ELSE IF n < 65536 THEN <<128 + 126>> \o BigEndian(2, n)
                    ELSE <<128 + 127>> \o BigEndian(8, n)
<1>1. Build(f, key) = <<Fields(f)>> \o sized \o key \o MaskPayload(key, BuildPayload(f))
  BY DEF Build, Fields
<1>2. sized = <<LengthByte(n)>> \o Extension(n)
  <2>1. n \in Nat
    BY DEF Wide
  <2>2. CASE n < 126
    <3>1. <<128 + n>> \o <<>> = <<128 + n>>
      <4>1. <<128 + n>> \in Seq(Nat)
        BY <2>1
      <4> QED
        BY <4>1, ConcatEmptySeq
    <3> QED
      BY <2>1, <2>2, <3>1 DEF LengthByte, Extension
  <2>3. CASE n >= 126 /\ n < 65536
    BY <2>1, <2>3 DEF LengthByte, Extension
  <2>4. CASE n >= 65536
    BY <2>1, <2>4 DEF LengthByte, Extension
  <2> HIDE DEF sized
  <2>5. n < 126 \/ (n >= 126 /\ n < 65536) \/ n >= 65536
    BY <2>1
  <2> QED
    BY <2>2, <2>3, <2>4, <2>5
<1> HIDE DEF sized
<1> QED
  BY <1>1, <1>2

\* What a server makes of bytes w: a has the fields, e how long data is, n bytes.
ReadAs(w, a, n, e, data) ==
  /\ w \in Seq(Byte)
  /\ Understood(w) = [final |-> a \div 128, masked |-> 1, rsv |-> (a \div 16) % 8,
                      op |-> a % 16, size |-> n, extra |-> Len(e), data |-> data]

\* A server finds every part where it looks for it.
LEMMA UnderstoodIs ==
  ASSUME NEW a \in Byte, NEW c, NEW e, NEW n, SaysLength(c, e, n), NEW key \in MaskKeys,
         NEW data \in Seq(Byte),
         NEW w, w = <<a>> \o (<<c>> \o e) \o key \o MaskPayload(key, data)
  PROVE  ReadAs(w, a, n, e, data)
<1> DEFINE sized == <<c>> \o e
           masked == MaskPayload(key, data)
           m == Len(e)
<1>1. c \in Byte /\ e \in Seq(Byte) /\ m \in Nat
  BY LenProperties DEF SaysLength
<1>2. c \div 128 = 1 /\ Extra(c % 128) = m /\ n = IF m = 0 THEN c % 128 ELSE Number(e)
  BY DEF SaysLength
<1>3. key \in Seq(Byte) /\ Len(key) = 4
  BY KeyTyped
<1>4. /\ masked \in Seq(Byte) /\ Len(masked) = Len(data) /\ Len(data) \in Nat
      /\ DOMAIN data = 1..Len(data) /\ DOMAIN masked = 1..Len(data)
      /\ \A i \in 1..Len(data) : Xor(masked[i], key[1 + ((i + 3) % 4)]) = data[i]
  <2>1. /\ masked \in Seq(Byte) /\ Len(masked) = Len(data)
        /\ \A i \in 1..Len(data) : Xor(masked[i], key[1 + ((i + 3) % 4)]) = data[i]
    BY Masked
  <2> HIDE DEF masked
  <2> QED
    BY <2>1, LenProperties
<1> HIDE DEF masked
<1>5. /\ sized \in Seq(Byte) /\ Len(sized) = 1 + m /\ sized[1] = c
      /\ Has(sized, 1, e)
  <2> DEFINE one == <<c>>
  <2>1. one \in Seq(Byte) /\ Len(one) = 1 /\ one[1] = c /\ 1 \in 1..1
    BY <1>1
  <2> HIDE DEF one
  <2>2. /\ one \o e \in Seq(Byte) /\ Len(one \o e) = Len(one) + Len(e)
        /\ \A i \in 1..Len(one) : (one \o e)[i] = one[i]
    BY <1>1, <2>1, Joined, Zenon
  <2>3. Has(one \o e, Len(one), e)
    BY <1>1, <2>1, HasBoth
  <2> QED
    BY <2>1, <2>2, <2>3 DEF one
<1> HIDE DEF sized
<1>6. w = <<a>> \o sized \o key \o masked
  BY DEF sized, masked
<1>7. /\ w \in Seq(Byte) /\ Len(w) = 5 + Len(sized) + Len(masked) /\ w[1] = a
      /\ Has(w, 1, sized) /\ Has(w, 1 + Len(sized), key) /\ Has(w, 5 + Len(sized), masked)
  <2>1. sized \in Seq(Byte) /\ key \in Seq(Byte) /\ Len(key) = 4 /\ masked \in Seq(Byte)
    BY <1>3, <1>4, <1>5
  <2>2. LaidOut(w, a, sized, key, masked)
    BY <1>6, <2>1, Layout
  <2> QED
    BY <2>2 DEF LaidOut
<1>8. w[2] = c
  <2>1. 1 \in 1..Len(sized) /\ 1 + 1 = 2
    BY <1>1, <1>5
  <2> QED
    BY <1>5, <1>7, <2>1 DEF Has
<1> DEFINE extra == IF w[2] % 128 < 126 THEN 0 ELSE IF w[2] % 128 = 126 THEN 2 ELSE 8
<1>9. extra = m
  BY <1>2, <1>8 DEF Extra
<1>10. SubSeq(w, 3 + m, 6 + m) = key
  <2>1. 2 + m \in Nat /\ 1 + Len(sized) = 2 + m /\ (2 + m) + 1 = 3 + m /\ (2 + m) + 4 = 6 + m
    BY <1>1, <1>5
  <2>2. SubSeq(w, (2 + m) + 1, (2 + m) + Len(key)) = key
    BY <1>3, <1>7, <2>1, Cut
  <2> QED
    BY <1>3, <2>1, <2>2
<1>11. SubSeq(w, 7 + m, Len(w)) = masked
  <2>1. /\ 6 + m \in Nat /\ 5 + Len(sized) = 6 + m /\ (6 + m) + 1 = 7 + m
        /\ Len(w) = (6 + m) + Len(masked)
    BY <1>1, <1>4, <1>5, <1>7
  <2>2. SubSeq(w, (6 + m) + 1, (6 + m) + Len(masked)) = masked
    BY <1>4, <1>7, <2>1, Cut
  <2> QED
    BY <2>1, <2>2
<1>12. SubSeq(w, 3, 2 + m) = e
  <2>1. 1 \in Nat /\ 2 \in Nat /\ 1 + 1 = 2 /\ 2 + 1 = 3
    OBVIOUS
  <2>2. Has(w, 1 + 1, e)
    BY <1>1, <1>5, <1>7, <2>1, HasWithin
  <2>3. SubSeq(w, 2 + 1, 2 + m) = e
    BY <1>1, <1>7, <2>1, <2>2, Cut
  <2> QED
    BY <2>1, <2>3
<1>13. [i \in DOMAIN masked |-> Xor(masked[i], key[1 + ((i + 3) % 4)])] = data
  <2> DEFINE clear(i) == Xor(masked[i], key[1 + ((i + 3) % 4)])
  <2>1. \A i \in 1..Len(data) : clear(i) = data[i]
    BY <1>4
  <2> HIDE DEF clear
  <2>2. [i \in 1..Len(data) |-> clear(i)] = data
    <3>1. data = [i \in 1..Len(data) |-> data[i]]
      BY <1>4, LenProperties
    <3> QED
      BY <2>1, <3>1, Zenon
  <2>3. [i \in DOMAIN masked |-> clear(i)] = data
    BY <1>4, <2>2
  <2> QED
    BY <2>3 DEF clear
<1>14. (IF m = 0 THEN w[2] % 128 ELSE Number(SubSeq(w, 3, 2 + m))) = n
  BY <1>2, <1>8, <1>12
<1> DEFINE extent(x) == IF x = 0 THEN w[2] % 128 ELSE Number(SubSeq(w, 3, 2 + x))
           keyAt(x) == SubSeq(w, 3 + x, 6 + x)
           dataAt(x) == SubSeq(w, 7 + x, Len(w))
           unmask(x, k) == [i \in DOMAIN x |-> Xor(x[i], k[1 + ((i + 3) % 4)])]
           all(final, to, rsv, op, size, more, clear) ==
             [final |-> final, masked |-> to, rsv |-> rsv, op |-> op, size |-> size,
              extra |-> more, data |-> clear]
<1>15. Understood(w) =
         all(w[1] \div 128, w[2] \div 128, (w[1] \div 16) % 8, w[1] % 16,
             extent(extra), extra, unmask(dataAt(extra), keyAt(extra)))
  BY DEF Understood
<1>16. unmask(dataAt(m), keyAt(m)) = data /\ extent(m) = n
  BY <1>10, <1>11, <1>13, <1>14
<1> HIDE DEF extra, m, unmask, all, extent, keyAt, dataAt
<1>17. Understood(w) =
         all(w[1] \div 128, w[2] \div 128, (w[1] \div 16) % 8, w[1] % 16, n, m, data)
  BY <1>9, <1>15, <1>16
<1>18. Understood(w) = all(a \div 128, 1, (a \div 16) % 8, a % 16, n, m, data)
  <2>1. w[1] = a /\ w[2] \div 128 = 1
    BY <1>2, <1>7, <1>8
  <2> QED
    BY <1>17, <2>1, Zenon
<1> QED
  BY <1>7, <1>18 DEF m, all, ReadAs

\* What ClientFrameUnderstood says of the bytes w of a frame f.
ClientUnderstood(f, w) ==
  LET u == Understood(w)
      status == f.op = CLOSE /\ f.size >= 2
      text == IF status THEN SubSeq(u.data, 3, Len(u.data)) ELSE u.data
  IN  /\ u.final = 1 /\ u.masked = 1 /\ u.rsv = f.rsv /\ u.op = f.op
      /\ u.size = f.size
      /\ u.extra = 2 <=> f.size \in Short /\ f.size > 125
      /\ u.extra = 8 <=> f.size \notin Short
      /\ status => u.data[1] * 256 + u.data[2] = f.status
      /\ IsPrefix(text, Pattern)
      /\ Len(u.data) = f.size \/ Len(text) = Len(Pattern)

LEMMA BuildUnderstood ==
  ASSUME NEW f \in OutRecord, Sizeable(f), NEW key \in MaskKeys
  PROVE  Build(f, key) \in Seq(Byte) /\ ClientUnderstood(f, Build(f, key))
<1> DEFINE w == Build(f, key)
           data == BuildPayload(f)
           a == Fields(f)
           c == LengthByte(f.size)
           e == Extension(f.size)
           u == Understood(w)
<1>1. f.size \in Wide
  BY DEF OutRecord, Sizeable, Wide
<1>2. SaysLength(c, e, f.size)
  BY <1>1, LengthForm
<1>3. data \in Seq(Byte) /\ SaysPayload(data, f)
  BY PayloadIs
<1>4. a \in Byte /\ a \div 128 = 1 /\ (a \div 16) % 8 = f.rsv /\ a % 16 = f.op
  BY FieldsOf
<1>5. w = <<a>> \o (<<c>> \o e) \o key \o MaskPayload(key, data)
  BY <1>1, BuildIs
<1> HIDE DEF w, a, c, e, data
<1>6. /\ w \in Seq(Byte)
      /\ u = [final |-> a \div 128, masked |-> 1, rsv |-> (a \div 16) % 8, op |-> a % 16,
              size |-> f.size, extra |-> Len(e), data |-> data]
  <2>1. ReadAs(w, a, f.size, e, data)
    BY <1>2, <1>3, <1>4, <1>5, UnderstoodIs
  <2> QED
    BY <2>1 DEF ReadAs
<1> HIDE DEF u
<1>7. /\ u.final = 1 /\ u.masked = 1 /\ u.rsv = f.rsv /\ u.op = f.op /\ u.size = f.size
      /\ u.extra = Len(e) /\ u.data = data
  <2>1. /\ u.final = a \div 128 /\ u.masked = 1 /\ u.rsv = (a \div 16) % 8 /\ u.op = a % 16
        /\ u.size = f.size /\ u.extra = Len(e) /\ u.data = data
    BY <1>6
  <2> QED
    BY <1>4, <2>1
<1>8. /\ u.extra = 2 <=> f.size \in Short /\ f.size > 125
      /\ u.extra = 8 <=> f.size \notin Short
  BY <1>2, <1>7 DEF SaysLength
<1>9. SaysPayload(u.data, f)
  BY <1>3, <1>7
<1>10. ClientUnderstood(f, w)
  <2> DEFINE text == IF HasStatus(f) THEN SubSeq(u.data, 3, Len(u.data)) ELSE u.data
  <2>1. /\ HasStatus(f) => u.data[1] * 256 + u.data[2] = f.status
        /\ IsPrefix(text, Pattern)
        /\ Len(u.data) = f.size \/ Len(text) = Len(Pattern)
    BY <1>9 DEF SaysPayload
  <2> QED
    BY <1>7, <1>8, <2>1, Zenon DEF ClientUnderstood, HasStatus, u
<1> QED
  BY <1>6, <1>10 DEF w

-----------------------------------------------------------------------------
(* What the server sends, and how it is gathered *)

Slice(h, m, n) == SubSeq(h, m + 1, n)

IsSlice(t, h, m, n) ==
  /\ t \in Seq(Byte) /\ Len(t) = n - m
  /\ \A i \in 1..(n - m) : t[i] = h[m + i]

LEMMA SliceIs ==
  ASSUME NEW h \in Seq(Byte), NEW m \in Nat, NEW n \in Nat, m <= n, n <= Len(h)
  PROVE  IsSlice(Slice(h, m, n), h, m, n)
<1>1. Len(h) \in Nat /\ \A i \in 1..Len(h) : h[i] \in Byte
  BY LenProperties
<1>2. \A i \in (m + 1)..n : h[i] \in Byte
  <2> SUFFICES ASSUME NEW i \in (m + 1)..n PROVE h[i] \in Byte
    OBVIOUS
  <2>1. i \in 1..Len(h)
    BY <1>1
  <2> QED
    BY <1>1, <2>1
<1> DEFINE t == SubSeq(h, m + 1, n)
<1>3. /\ t \in Seq(Byte) /\ Len(t) = IF m + 1 <= n THEN n - (m + 1) + 1 ELSE 0
      /\ \A i \in 1..(n - (m + 1) + 1) : t[i] = h[(m + 1) + i - 1]
  BY <1>2, SubSeqProperties
<1> HIDE DEF t
<1>4. n - (m + 1) + 1 = n - m /\ Len(t) = n - m
  BY <1>3
<1>5. ASSUME NEW i \in 1..(n - m)
      PROVE  t[i] = h[m + i]
  <2>1. (m + 1) + i - 1 = m + i
    OBVIOUS
  <2> QED
    BY <1>3, <1>4, <2>1
<1> QED
  BY <1>3, <1>4, <1>5 DEF Slice, t, IsSlice

\* What is taken off the bytes to come is added to what was gathered.
IsGathered(h, m, at, n) ==
  /\ at + n \in Nat /\ at + n <= Len(h)
  /\ Slice(h, m, at) \o SubSeq(Slice(h, at, Len(h)), 1, n) = Slice(h, m, at + n)
  /\ SubSeq(Slice(h, at, Len(h)), n + 1, Len(Slice(h, at, Len(h)))) = Slice(h, at + n, Len(h))

LEMMA Gathered ==
  ASSUME NEW h \in Seq(Byte), NEW m \in Nat, NEW at \in Nat, m <= at, at <= Len(h),
         NEW n \in Nat, n <= Len(Slice(h, at, Len(h)))
  PROVE  IsGathered(h, m, at, n)
<1> DEFINE rest == Slice(h, at, Len(h))
           taken == Slice(rest, 0, n)
           left == Slice(rest, n, Len(rest))
           had == Slice(h, m, at)
<1>1. Len(h) \in Nat
  BY LenProperties
<1>2. /\ rest \in Seq(Byte) /\ Len(rest) = Len(h) - at
      /\ \A i \in 1..(Len(h) - at) : rest[i] = h[at + i]
  <2>1. Len(h) <= Len(h)
    BY <1>1
  <2>2. IsSlice(rest, h, at, Len(h))
    BY <1>1, <2>1, SliceIs
  <2> HIDE DEF rest
  <2> QED
    BY <2>2 DEF IsSlice
<1> HIDE DEF rest
<1>3. at + n \in Nat /\ at + n <= Len(h) /\ Len(rest) \in Nat /\ n <= Len(rest)
  BY <1>1, <1>2 DEF rest
<1>4. SubSeq(rest, 1, n) = taken
  BY DEF Slice
<1>5. SubSeq(rest, n + 1, Len(rest)) = left
  BY DEF Slice
<1>6. /\ taken \in Seq(Byte) /\ Len(taken) = n
      /\ \A i \in 1..n : taken[i] = h[at + i]
  <2>1. 0 \in Nat /\ 0 <= n /\ n - 0 = n
    OBVIOUS
  <2>2. /\ taken \in Seq(Byte) /\ Len(taken) = n - 0
        /\ \A i \in 1..(n - 0) : taken[i] = rest[0 + i]
    <3>1. IsSlice(taken, rest, 0, n)
      BY <1>2, <1>3, <2>1, SliceIs
    <3> HIDE DEF taken
    <3> QED
      BY <3>1 DEF IsSlice
  <2>3. ASSUME NEW i \in 1..n
        PROVE  taken[i] = h[at + i]
    <3>1. i \in 1..(Len(h) - at) /\ i \in 1..(n - 0) /\ 0 + i = i
      BY <1>1, <1>3
    <3> QED
      BY <1>2, <2>2, <3>1
  <2> QED
    BY <2>1, <2>2, <2>3
<1>7. /\ left \in Seq(Byte) /\ Len(left) = Len(h) - (at + n)
      /\ \A i \in 1..(Len(h) - (at + n)) : left[i] = h[(at + n) + i]
  <2>1. /\ left \in Seq(Byte) /\ Len(left) = Len(rest) - n
        /\ \A i \in 1..(Len(rest) - n) : left[i] = rest[n + i]
    <3>1. Len(rest) <= Len(rest)
      BY <1>3
    <3>2. IsSlice(left, rest, n, Len(rest))
      BY <1>2, <1>3, <3>1, SliceIs
    <3> HIDE DEF left
    <3> QED
      BY <3>2 DEF IsSlice
  <2>2. Len(rest) - n = Len(h) - (at + n)
    BY <1>1, <1>2
  <2>3. ASSUME NEW i \in 1..(Len(h) - (at + n))
        PROVE  left[i] = h[(at + n) + i]
    <3>1. n + i \in 1..(Len(h) - at) /\ at + (n + i) = (at + n) + i
      BY <1>1, <1>3
    <3> QED
      BY <1>2, <2>1, <2>2, <3>1
  <2> QED
    BY <2>1, <2>2, <2>3
<1>8. /\ had \in Seq(Byte) /\ Len(had) = at - m
      /\ \A i \in 1..(at - m) : had[i] = h[m + i]
  <2>1. IsSlice(had, h, m, at)
    BY SliceIs
  <2> HIDE DEF had
  <2> QED
    BY <2>1 DEF IsSlice
<1> HIDE DEF taken, left, had
<1>9. had \o taken = Slice(h, m, at + n)
  <2> DEFINE both == had \o taken
             whole == Slice(h, m, at + n)
  <2>1. /\ both \in Seq(Byte) /\ Len(both) = Len(had) + Len(taken)
        /\ \A i \in 1..Len(had) : both[i] = had[i]
        /\ \A i \in 1..Len(taken) : both[Len(had) + i] = taken[i]
    <3>1. IsJoin(both, had, taken)
      BY <1>6, <1>8, JoinIs
    <3> HIDE DEF both
    <3> QED
      BY <3>1 DEF IsJoin
  <2>2. /\ whole \in Seq(Byte) /\ Len(whole) = (at + n) - m
        /\ \A i \in 1..((at + n) - m) : whole[i] = h[m + i]
    <3>1. m <= at + n
      OBVIOUS
    <3>2. IsSlice(whole, h, m, at + n)
      BY <1>3, <3>1, SliceIs
    <3> HIDE DEF whole
    <3> QED
      BY <3>2 DEF IsSlice
  <2> HIDE DEF both, whole
  <2>3. Len(both) = Len(whole)
    <3>1. Len(both) = (at - m) + n /\ Len(whole) = (at + n) - m
      BY <1>6, <1>8, <2>1, <2>2
    <3> QED
      BY <3>1
  <2>4. ASSUME NEW i \in 1..Len(both)
        PROVE  both[i] = whole[i]
    <3>1. CASE i <= at - m
      <4>1. i \in 1..(at - m) /\ i \in 1..Len(had) /\ i \in 1..((at + n) - m)
        BY <1>8, <2>2, <2>3, <3>1
      <4> QED
        BY <1>8, <2>1, <2>2, <4>1
    <3>2. CASE i > at - m
      <4> DEFINE j == i - (at - m)
      <4>1. /\ j \in 1..n /\ j \in 1..Len(taken) /\ Len(had) + j = i
            /\ i \in 1..((at + n) - m) /\ at + j = m + i
        BY <1>6, <1>8, <2>2, <2>3, <3>2
      <4> HIDE DEF j
      <4>2. both[i] = taken[j] /\ taken[j] = h[at + j]
        BY <1>6, <2>1, <4>1
      <4>3. whole[i] = h[m + i]
        BY <2>2, <4>1
      <4> QED
        BY <4>1, <4>2, <4>3
    <3> QED
      BY <3>1, <3>2
  <2>5. both = whole
    BY <2>1, <2>2, <2>3, <2>4, SeqEqual
  <2> QED
    BY <2>5 DEF both, whole
<1>10. left = Slice(h, at + n, Len(h))
  <2> DEFINE end == Slice(h, at + n, Len(h))
  <2>1. /\ end \in Seq(Byte) /\ Len(end) = Len(h) - (at + n)
        /\ \A i \in 1..(Len(h) - (at + n)) : end[i] = h[(at + n) + i]
    <3>1. Len(h) <= Len(h)
      BY <1>1
    <3>2. IsSlice(end, h, at + n, Len(h))
      BY <1>1, <1>3, <3>1, SliceIs
    <3> HIDE DEF end
    <3> QED
      BY <3>2 DEF IsSlice
  <2> HIDE DEF end
  <2>2. \A i \in 1..Len(left) : left[i] = end[i]
    BY <1>7, <2>1
  <2>3. left = end
    BY <1>7, <2>1, <2>2, SeqEqual
  <2> QED
    BY <2>3 DEF end
<1> QED
  BY <1>3, <1>4, <1>5, <1>9, <1>10 DEF rest, had, IsGathered

IsOneThen(u, k, t) ==
  u \in Seq(Byte) /\ Len(u) = 1 + Len(t) /\ u[1] = k /\ Tail(u) = t

LEMMA OneThen ==
  ASSUME NEW k \in Byte, NEW t \in Seq(Byte)
  PROVE  IsOneThen(<<k>> \o t, k, t)
<1> DEFINE one == <<k>>
           u == one \o t
<1>1. one \in Seq(Byte) /\ Len(one) = 1 /\ one[1] = k /\ 1 \in 1..1 /\ Len(t) \in Nat
  BY LenProperties
<1>2. IsJoin(u, one, t)
  BY <1>1, JoinIs
<1> HIDE DEF u, one
<1>3. u \in Seq(Byte) /\ Len(u) = 1 + Len(t) /\ u[1] = k
  BY <1>1, <1>2 DEF IsJoin
<1>4. u # <<>>
  BY <1>1, <1>3
<1>5. /\ Tail(u) \in Seq(Byte) /\ Len(Tail(u)) = Len(u) - 1
      /\ \A i \in 1..Len(Tail(u)) : Tail(u)[i] = u[i + 1]
  BY <1>3, <1>4, HeadTailProperties
<1>6. Len(Tail(u)) = Len(t)
  BY <1>1, <1>3, <1>5
<1>7. ASSUME NEW i \in 1..Len(Tail(u))
      PROVE  Tail(u)[i] = t[i]
  <2>1. i + 1 = 1 + i /\ i \in 1..Len(t)
    BY <1>1, <1>6
  <2>2. u[1 + i] = t[i]
    BY <1>1, <1>2, <2>1 DEF IsJoin
  <2> QED
    BY <1>5, <2>1, <2>2
<1>8. Tail(u) = t
  BY <1>5, <1>6, <1>7, SeqEqual
<1> QED
  BY <1>3, <1>8 DEF u, one, IsOneThen

\* A header says that there are n bytes to come: too many, and that is -1.
SaysSize(c, e, n) ==
  /\ c \in 0..127 /\ e \in Seq(Byte) /\ Len(e) = Extra(c)
  /\ c < 126 => n = c
  /\ c >= 126 => IF Len(e) = 8 /\ e[1] > 127 THEN n = -1 ELSE n = Number(e) /\ n >= 0

LEMMA FieldIs ==
  ASSUME NEW f \in FrameRecord, f.size >= -1, Sizeable(f), NEW bytes \in {1, 2, 8},
         Fits(f.size, bytes)
  PROVE  \E c, e : /\ SaysSize(c, e, f.size)
                   /\ LengthField(f.size, bytes)[1] = c
                   /\ Tail(LengthField(f.size, bytes)) = e
<1> DEFINE n == f.size
           field == LengthField(n, bytes)
<1>1. n \in Int /\ n >= -1
  BY DEF FrameRecord
<1>2. CASE bytes = 1
  <2>1. field = <<n>> /\ n \in 0..125
    BY <1>2 DEF LengthField, Fits
  <2>2. field[1] = n /\ Tail(field) = <<>>
    BY <2>1
  <2>3. SaysSize(n, <<>>, n)
    <3>1. <<>> \in Seq(Byte) /\ Len(<<>>) = 0
      OBVIOUS
    <3>2. n \in 0..127 /\ n < 126 /\ ~(n >= 126)
      BY <2>1
    <3>3. Extra(n) = 0
      BY <3>2 DEF Extra
    <3> QED
      BY <3>1, <3>2, <3>3, Zenon DEF SaysSize
  <2> QED
    BY <2>2, <2>3
<1>3. CASE bytes = 2
  <2> DEFINE e == BigEndian(2, n)
  <2>1. n \in Short /\ n \in Nat
    BY <1>3 DEF Fits, Short
  <2>2. field = <<126>> \o e
    BY <1>3 DEF LengthField
  <2>3. e \in Seq(Byte) /\ Len(e) = 2 /\ Number(e) = n
    BY <2>1, TwoBytes, BigEndianTyped
  <2> HIDE DEF e
  <2>4. 126 \in Byte
    BY DEF Byte
  <2>5. field[1] = 126 /\ Tail(field) = e
    <3>1. IsOneThen(field, 126, e)
      BY <2>2, <2>3, <2>4, OneThen
    <3> HIDE DEF field
    <3> QED
      BY <3>1 DEF IsOneThen
  <2>6. SaysSize(126, e, n)
    BY <2>1, <2>3 DEF SaysSize, Extra
  <2> QED
    BY <2>5, <2>6
<1>4. CASE bytes = 8
  <2> DEFINE e == IF n < 0 THEN <<128>> \o BigEndian(7, 0) ELSE BigEndian(8, n)
  <2>1. field = <<127>> \o e
    BY <1>4 DEF LengthField
  <2>2. /\ e \in Seq(Byte) /\ Len(e) = 8
        /\ IF e[1] > 127 THEN n = -1 ELSE n = Number(e) /\ n >= 0
    <3>1. CASE n < 0
      <4> DEFINE rest == BigEndian(7, 0)
      <4>1. rest \in Seq(Byte) /\ Len(rest) = 7
        BY BigEndianTyped
      <4>2. 128 \in Byte
        BY DEF Byte
      <4>3. e = <<128>> \o rest
        BY <3>1
      <4> HIDE DEF rest, e
      <4>4. IsOneThen(e, 128, rest)
        BY <4>1, <4>2, <4>3, OneThen
      <4>5. e \in Seq(Byte) /\ Len(e) = 8 /\ e[1] = 128
        BY <4>1, <4>4 DEF IsOneThen
      <4> QED
        BY <1>1, <3>1, <4>5
    <3>2. CASE n >= 0
      <4>1. e = BigEndian(8, n)
        BY <1>1, <3>2
      <4>2. n \in Nat /\ n \in Wide
        BY <1>1, <3>2 DEF Wide, Sizeable
      <4> HIDE DEF e
      <4>3. e \in Seq(Byte) /\ Len(e) = 8
        BY <4>1, <4>2, BigEndianTyped
      <4>4. e[1] <= 127 /\ Number(e) = n
        BY <4>1, <4>2, EightBytes
      <4>5. e[1] \in 0..255
        <5>1. 1 \in 1..Len(e)
          BY <4>3
        <5>2. \A i \in 1..Len(e) : e[i] \in Byte
          BY <4>3, LenProperties
        <5>3. e[1] \in Byte
          BY <5>1, <5>2
        <5> QED
          BY <5>3 DEF Byte
      <4>6. ~(e[1] > 127)
        BY <4>4, <4>5
      <4> QED
        BY <3>2, <4>3, <4>4, <4>6
    <3> QED
      BY <1>1, <3>1, <3>2
  <2> HIDE DEF e
  <2>3. 127 \in Byte
    BY DEF Byte
  <2>4. field[1] = 127 /\ Tail(field) = e
    <3>1. IsOneThen(field, 127, e)
      BY <2>1, <2>2, <2>3, OneThen
    <3> HIDE DEF field
    <3> QED
      BY <3>1 DEF IsOneThen
  <2>5. SaysSize(127, e, n)
    BY <2>2 DEF SaysSize, Extra
  <2> QED
    BY <2>4, <2>5
<1> QED
  BY <1>2, <1>3, <1>4

First(f) == 128 * f.fin + 16 * f.rsv + f.op
Second(f, c) == 128 * f.mask + c

LEMMA FieldsRead ==
  ASSUME NEW f \in FrameRecord, NEW c \in 0..127
  PROVE  /\ First(f) \in Byte /\ First(f) % 16 = f.op /\ First(f) \div 128 = f.fin
         /\ (First(f) \div 16) % 8 = f.rsv
         /\ Second(f, c) \in Byte /\ Second(f, c) % 128 = c /\ Second(f, c) \div 128 = f.mask
<1>1. f.op \in 0..15 /\ f.fin \in 0..1 /\ f.rsv \in 0..7 /\ f.mask \in 0..1
  BY DEF FrameRecord, Opcodes
<1> DEFINE a == First(f)
<1>2. a \in Int /\ a >= 0 /\ a <= 255 /\ a = 128 * f.fin + 16 * f.rsv + f.op
  BY <1>1 DEF First
<1>3. a % 16 = f.op
  BY <1>1, <1>2
<1>4. a \div 128 = f.fin
  BY <1>1, <1>2
<1>5. (a \div 16) % 8 = f.rsv
  <2>1. a \div 16 = 8 * f.fin + f.rsv
    BY <1>1, <1>2
  <2> QED
    BY <1>1, <2>1
<1>6. Second(f, c) \in Byte /\ Second(f, c) % 128 = c /\ Second(f, c) \div 128 = f.mask
  <2> DEFINE b == Second(f, c)
  <2>1. b \in Int /\ b >= 0 /\ b <= 255 /\ b = 128 * f.mask + c
    BY <1>1 DEF Second
  <2>2. c \in Int /\ 0 <= c /\ c <= 127
    OBVIOUS
  <2>3. b % 128 = c /\ b \div 128 = f.mask
    <3>1. CASE f.mask = 0
      <4>1. b = c
        BY <2>1, <2>2, <3>1
      <4> QED
        BY <2>2, <3>1, <4>1
    <3>2. CASE f.mask = 1
      <4>1. b = 128 + c
        BY <2>1, <2>2, <3>2
      <4> QED
        BY <2>2, <3>2, <4>1
    <3> QED
      BY <1>1, <3>1, <3>2
  <2>4. b \in Byte
    BY <2>1 DEF Byte
  <2> QED
    BY <2>3, <2>4
<1>7. a \in Byte
  BY <1>2 DEF Byte
<1> QED
  BY <1>3, <1>4, <1>5, <1>6, <1>7

\* Where the parts of a header h are.
HeaderAs(h, f, c, e) ==
  /\ h \in Seq(Byte)
  /\ Len(h) = 2 + Len(e) + (IF f.mask = 1 THEN 4 ELSE 0)
  /\ h[1] = First(f) /\ h[2] = Second(f, c)
  /\ Has(h, 2, e)

LEMMA HeaderIs ==
  ASSUME NEW f \in FrameRecord, f.size >= -1, Sizeable(f), NEW bytes \in {1, 2, 8},
         Fits(f.size, bytes)
  PROVE  \E c, e : SaysSize(c, e, f.size) /\ HeaderAs(Header(f, bytes), f, c, e)
<1>1. PICK c, e : /\ SaysSize(c, e, f.size)
                  /\ LengthField(f.size, bytes)[1] = c
                  /\ Tail(LengthField(f.size, bytes)) = e
  BY FieldIs
<1> DEFINE h == Header(f, bytes)
           a == First(f)
           b == Second(f, c)
           two == <<a, b>>
           mask == IF f.mask = 1 THEN <<0, 0, 0, 0>> ELSE <<>>
           x == two \o e
<1>2. h = x \o mask
  BY <1>1 DEF Header, First, Second
<1>3. a \in Byte /\ b \in Byte
  BY <1>1, FieldsRead DEF SaysSize
<1>4. e \in Seq(Byte) /\ Len(e) \in Nat
  BY <1>1, LenProperties DEF SaysSize
<1> HIDE DEF a, b
<1>5. two \in Seq(Byte) /\ Len(two) = 2 /\ two[1] = a /\ two[2] = b
  BY <1>3
<1>6. mask \in Seq(Byte) /\ Len(mask) = IF f.mask = 1 THEN 4 ELSE 0
  <2>1. 0 \in Byte
    BY DEF Byte
  <2>2. CASE f.mask = 1
    BY <2>1, <2>2
  <2>3. CASE f.mask # 1
    BY <2>3
  <2> QED
    BY <2>2, <2>3
<1> HIDE DEF two, mask
<1>7. IsJoin(x, two, e)
  BY <1>4, <1>5, JoinIs
<1>8. Has(x, 2, e)
  BY <1>4, <1>5, HasBoth
<1> HIDE DEF x
<1>9. x \in Seq(Byte) /\ Len(x) = 2 + Len(e) /\ x[1] = a /\ x[2] = b
  BY <1>4, <1>5, <1>7 DEF IsJoin
<1>10. IsJoin(x \o mask, x, mask)
  BY <1>6, <1>9, JoinIs
<1>11. Has(h, 2, e)
  <2>1. 2 \in Nat
    OBVIOUS
  <2> QED
    BY <1>2, <1>4, <1>6, <1>8, <1>9, <2>1, HasBoth
<1> HIDE DEF h
<1>12. h \in Seq(Byte) /\ Len(h) = Len(x) + Len(mask) /\ h[1] = a /\ h[2] = b
  <2>1. 1 \in 1..Len(x) /\ 2 \in 1..Len(x)
    BY <1>4, <1>9
  <2> QED
    BY <1>2, <1>9, <1>10, <2>1 DEF IsJoin
<1>13. Len(h) = 2 + Len(e) + (IF f.mask = 1 THEN 4 ELSE 0)
  BY <1>4, <1>6, <1>9, <1>12
<1>14. HeaderAs(h, f, c, e)
  BY <1>11, <1>12, <1>13 DEF HeaderAs, a, b
<1> QED
  BY <1>1, <1>14 DEF h

-----------------------------------------------------------------------------
(* The frame of the server that is being read *)

\* Where the part that is awaited begins in a header, and how long it is.
Start(p, e) == IF p = "head" THEN 0 ELSE IF p = "size" THEN 2 ELSE 2 + Len(e)
Need(p, e) == IF p = "head" THEN 2 ELSE IF p = "size" THEN Len(e) ELSE 4

\* Of the header h, what was gathered of a part is in the buffer and what comes
\* after that is on the wire.
GatheredTo(h, s, at) == buffer = Slice(h, s, at) /\ coming = Slice(h, at, Len(h))

Reading(h, c, e) ==
  /\ SaysSize(c, e, meant.size) /\ HeaderAs(h, meant, c, e)
  /\ body = (IF meant.size < 0 THEN 0 ELSE meant.size)
  /\ part \in {"head", "size", "key"}
  /\ part = "size" => c >= 126 /\ frame = [meant EXCEPT !.size = c]
  /\ part = "key" => meant.mask = 1 /\ meant.size >= 0 /\ frame = meant
  /\ length > 0 /\ Len(buffer) + length = Need(part, e)
  /\ GatheredTo(h, Start(part, e), Start(part, e) + Len(buffer))

AtRest ==
  /\ coming = <<>> /\ body = 0
  /\ part = "head" /\ buffer = <<>> /\ length = 2
  /\ frame = meant /\ Legal(meant)

InBody ==
  /\ coming = <<>> /\ body = length /\ length > 0
  /\ part = "body" /\ frame = meant
  /\ Validate(meant) /\ meant.size > 0

Broken ==
  /\ part = "raised"
  /\ ~Legal(meant) \/ utf8 = Utf8Reject \/ (meant.op = PING /\ meant.size > 125)

ServerInv ==
  /\ meant \in FrameRecord
  /\ AtRest \/ InBody \/ Broken \/ \E h, c, e : Reading(h, c, e)

\* The end of a frame, which is the last byte of what the server sent.
LEMMA FrameEnds ==
  ASSUME meant \in FrameRecord, meant.size >= 0, Validate(meant),
         NEW text, NEW state, NEW read, OnFrame(meant, text, state, read),
         coming' = <<>>, body' = 0, meant' = meant, frame' = meant
  PROVE  AtRest' \/ Broken'
<1>1. meant.op \in 0..15 /\ meant.fin \in 0..1 /\ meant.mask \in 0..1
  BY DEF FrameRecord, Opcodes
<1>2. meant.rsv = 0 /\ ~Reserved(meant.op) /\ (meant.fin = 1 \/ ~IsControl(meant))
  BY DEF Validate
<1>3. meant.op \in {0, 1, 2, 8, 9, 10}
  BY <1>1, <1>2 DEF Reserved
<1>4. CASE meant.mask = 1
  <2>1. part' = "raised"
    BY <1>4 DEF OnFrame, Raise
  <2>2. ~Legal(meant)
    BY <1>4 DEF Legal
  <2> QED
    BY <2>1, <2>2 DEF Broken
<1>5. CASE meant.op = PING /\ meant.size > 125 /\ meant.mask = 0
  <2>1. part' = "raised"
    BY <1>5 DEF OnFrame, Raise
  <2> QED
    BY <1>5, <2>1 DEF Broken
<1>6. CASE ~(meant.op = PING /\ meant.size > 125) /\ meant.mask = 0
  <2>1. part' = "head" /\ buffer' = <<>> /\ length' = 2
    BY <1>6 DEF OnFrame, Await
  <2>2. Legal(meant)
    BY <1>1, <1>2, <1>3, <1>6 DEF Legal, IsControl, TEXT, CLOSE, PING, PONG
  <2> QED
    BY <2>1, <2>2 DEF AtRest
<1> QED
  BY <1>1, <1>4, <1>5, <1>6

LEMMA HeaderEnds ==
  ASSUME meant \in FrameRecord, meant.size >= 0, HeaderParsed(meant),
         coming' = <<>>, body' = meant.size, meant' = meant, frame' = meant
  PROVE  AtRest' \/ InBody' \/ Broken'
<1>1. CASE ~Validate(meant) /\ Raise
  <2>1. ~Legal(meant)
    <3>1. Legal(meant) =>
            /\ meant.rsv = 0
            /\ meant.op \in {0, 1, 2} \/ (meant.op \in {8, 9, 10} /\ meant.fin = 1)
      BY DEF Legal, TEXT, CLOSE, PING, PONG
    <3>2. meant.op \in {0, 1, 2} => ~Reserved(meant.op) /\ ~IsControl(meant)
      BY DEF Reserved, IsControl
    <3>3. meant.op \in {8, 9, 10} => ~Reserved(meant.op)
      BY DEF Reserved
    <3> QED
      BY <1>1, <3>1, <3>2, <3>3 DEF Validate
  <2> QED
    BY <1>1, <2>1 DEF Raise, Broken
<1>2. CASE Validate(meant) /\ meant.size > 0 /\ Await("body", meant.size)
  BY <1>2 DEF Await, InBody
<1>3. CASE /\ Validate(meant) /\ meant.size = 0
           /\ OnFrame(meant, isText \/ meant.op = TEXT, utf8, char)
  BY <1>3, FrameEnds
<1> QED
  BY <1>1, <1>2, <1>3 DEF HeaderParsed

LEMMA SliceEmpty ==
  ASSUME NEW h, NEW m \in Nat
  PROVE  Slice(h, m, m) = <<>>
<1>1. m + 1 \in Int /\ m \in Int /\ m < m + 1
  OBVIOUS
<1> QED
  BY <1>1, SubSeqEmpty DEF Slice

LEMMA SizesRead ==
  ASSUME NEW f \in FrameRecord, NEW c, NEW n
  PROVE  /\ [f EXCEPT !.size = c] =
              [op |-> f.op, fin |-> f.fin, rsv |-> f.rsv, mask |-> f.mask, size |-> c]
         /\ [f EXCEPT !.size = f.size] = f
         /\ [[f EXCEPT !.size = c] EXCEPT !.size = n] = [f EXCEPT !.size = n]
<1>1. f = [op |-> f.op, fin |-> f.fin, rsv |-> f.rsv, mask |-> f.mask, size |-> f.size]
  BY DEF FrameRecord
<1>2. \A x : [f EXCEPT !.size = x] =
               [op |-> f.op, fin |-> f.fin, rsv |-> f.rsv, mask |-> f.mask, size |-> x]
  BY <1>1
<1>3. [[f EXCEPT !.size = c] EXCEPT !.size = n] =
        [op |-> f.op, fin |-> f.fin, rsv |-> f.rsv, mask |-> f.mask, size |-> n]
  BY <1>2
<1> QED
  BY <1>1, <1>2, <1>3

\* The part that begins at m was awaited at once.
LEMMA Awaited ==
  ASSUME NEW h, NEW m \in Nat, buffer' = <<>>, coming' = Slice(h, m, Len(h))
  PROVE  Len(buffer') = 0 /\ GatheredTo(h, m, m + Len(buffer))'
<1>1. Len(buffer') = 0 /\ m + 0 = m
  OBVIOUS
<1>2. buffer' = Slice(h, m, m)
  BY SliceEmpty
<1> QED
  BY <1>1, <1>2 DEF GatheredTo

LEMMA LengthKnown ==
  ASSUME meant \in FrameRecord, meant.size >= 0, Sized(meant),
         NEW h, NEW c, NEW e, SaysSize(c, e, meant.size), HeaderAs(h, meant, c, e),
         coming' = Slice(h, 2 + Len(e), Len(h)), body' = meant.size,
         meant' = meant, frame' = meant
  PROVE  ServerInv'
<1>1. Len(e) \in Nat /\ 2 + Len(e) \in Nat
  BY LenProperties DEF SaysSize
<1>2. CASE meant.mask = 1 /\ Await("key", 4)
  <2>1. part' = "key" /\ length' = 4 /\ buffer' = <<>>
    BY <1>2 DEF Await
  <2>2. Len(buffer') = 0 /\ GatheredTo(h, 2 + Len(e), (2 + Len(e)) + Len(buffer))'
    BY <1>1, <2>1, Awaited
  <2>3. Start("key", e) = 2 + Len(e) /\ Need("key", e) = 4
    BY DEF Start, Need
  <2>4. SaysSize(c, e, meant.size)' /\ HeaderAs(h, meant, c, e)'
    OBVIOUS
  <2>5. (body = (IF meant.size < 0 THEN 0 ELSE meant.size))'
    <3>1. meant.size \in Int /\ ~(meant.size < 0)
      BY DEF FrameRecord
    <3> QED
      BY <3>1
  <2>6. (length > 0 /\ Len(buffer) + length = Need(part, e))'
    BY <2>1, <2>2, <2>3
  <2>7. GatheredTo(h, Start(part, e), Start(part, e) + Len(buffer))'
    BY <2>1, <2>2, <2>3 DEF GatheredTo
  <2>8. (part = "key" => meant.mask = 1 /\ meant.size >= 0 /\ frame = meant)'
    BY <1>2
  <2>9. (part = "size" => c >= 126 /\ frame = [meant EXCEPT !.size = c])'
    BY <2>1
  <2>10. (part \in {"head", "size", "key"})'
    BY <2>1
  <2>11. Reading(h, c, e)'
    BY <2>4, <2>5, <2>6, <2>7, <2>8, <2>9, <2>10 DEF Reading
  <2> QED
    BY <2>11 DEF ServerInv
<1>3. CASE meant.mask = 0 /\ HeaderParsed(meant)
  <2>1. Len(h) = 2 + Len(e)
    BY <1>1, <1>3 DEF HeaderAs
  <2>2. coming' = <<>>
    BY <1>1, <2>1, SliceEmpty
  <2> QED
    BY <1>3, <2>2, HeaderEnds DEF ServerInv
<1> QED
  BY <1>2, <1>3 DEF Sized

\* A piece of a header goes from the wire to the buffer.
Taken(h, s, at, n) ==
  /\ at + n <= Len(h)
  /\ n <= Len(coming)
  /\ buffer \o SubSeq(coming, 1, n) = Slice(h, s, at + n)
  /\ SubSeq(coming, n + 1, Len(coming)) = Slice(h, at + n, Len(h))

LEMMA PieceTaken ==
  ASSUME buffer \in Seq(Byte), length \in Nat, meant \in FrameRecord,
         NEW h, NEW c, NEW e, Reading(h, c, e), NEW n, n \in 1..length
  PROVE  Taken(h, Start(part, e), Start(part, e) + Len(buffer), n)
<1> DEFINE m == Start(part, e)
           at == m + Len(buffer)
<1>1. /\ Len(e) \in Nat /\ Len(buffer) \in Nat /\ m \in Nat /\ n \in Nat
      /\ h \in Seq(Byte) /\ Len(h) \in Nat
  BY LenProperties DEF Reading, SaysSize, HeaderAs, Start
<1>2. /\ GatheredTo(h, m, at) /\ Len(buffer) + length = Need(part, e)
      /\ Len(h) = 2 + Len(e) + (IF meant.mask = 1 THEN 4 ELSE 0)
      /\ part \in {"head", "size", "key"} /\ (part = "key" => meant.mask = 1)
  BY DEF Reading, HeaderAs
<1>3. m + Need(part, e) <= Len(h)
  BY <1>1, <1>2 DEF Start, Need
<1>4. at \in Nat /\ m <= at /\ at + n <= Len(h) /\ at <= Len(h)
  BY <1>1, <1>2, <1>3
<1> HIDE DEF m, at
<1>5. Len(coming) = Len(h) - at
  <2>1. Len(h) <= Len(h)
    BY <1>1
  <2>2. IsSlice(coming, h, at, Len(h))
    BY <1>1, <1>2, <1>4, <2>1, SliceIs DEF GatheredTo
  <2> QED
    BY <2>2 DEF IsSlice
<1>6. n <= Len(coming)
  BY <1>1, <1>4, <1>5
<1>7. /\ buffer \o SubSeq(coming, 1, n) = Slice(h, m, at + n)
      /\ SubSeq(coming, n + 1, Len(coming)) = Slice(h, at + n, Len(h))
  <2>1. coming = Slice(h, at, Len(h)) /\ buffer = Slice(h, m, at)
    BY <1>2 DEF GatheredTo
  <2>2. n <= Len(Slice(h, at, Len(h)))
    BY <1>6, <2>1
  <2>3. /\ Slice(h, m, at) \o SubSeq(Slice(h, at, Len(h)), 1, n) = Slice(h, m, at + n)
        /\ SubSeq(Slice(h, at, Len(h)), n + 1, Len(Slice(h, at, Len(h))))
             = Slice(h, at + n, Len(h))
    <3>1. IsGathered(h, m, at, n)
      BY <1>1, <1>4, <2>2, Gathered
    <3> QED
      BY <3>1 DEF IsGathered
  <2> QED
    BY <2>1, <2>3
<1> QED
  BY <1>4, <1>6, <1>7 DEF Taken, m, at

\* It does not end what is awaited.
LEMMA StillReading ==
  ASSUME buffer \in Seq(Byte), length \in Nat, meant \in FrameRecord,
         NEW h, NEW c, NEW e, Reading(h, c, e), NEW n, n \in 1..length, n < length,
         buffer' = buffer \o SubSeq(coming, 1, n), length' = length - n,
         coming' = SubSeq(coming, n + 1, Len(coming)),
         UNCHANGED <<part, frame, meant, body>>
  PROVE  Reading(h, c, e)'
<1> DEFINE m == Start(part, e)
           at == m + Len(buffer)
<1>1. /\ Len(e) \in Nat /\ Len(buffer) \in Nat /\ m \in Nat /\ n \in Nat
      /\ h \in Seq(Byte) /\ Len(h) \in Nat
  <2>1. e \in Seq(Byte) /\ h \in Seq(Byte)
    BY DEF Reading, SaysSize, HeaderAs
  <2>2. Len(e) \in Nat /\ Len(buffer) \in Nat /\ Len(h) \in Nat
    BY <2>1, LenProperties
  <2>3. m \in Nat
    BY <2>2 DEF Start
  <2>4. n \in Nat
    OBVIOUS
  <2> QED
    BY <2>1, <2>2, <2>3, <2>4
<1>2. at \in Nat /\ at + n \in Nat /\ m <= at + n /\ (at + n) - m = Len(buffer) + n
  BY <1>1
<1>3. /\ at + n <= Len(h) /\ buffer' = Slice(h, m, at + n) /\ coming' = Slice(h, at + n, Len(h))
  BY PieceTaken DEF Taken
<1> HIDE DEF at
<1>4. IsSlice(buffer', h, m, at + n)
  BY <1>1, <1>2, <1>3, SliceIs
<1>5. Len(buffer') = Len(buffer) + n
  BY <1>2, <1>4 DEF IsSlice
<1>6. at + n = m + Len(buffer')
  BY <1>1, <1>5 DEF at
<1>7. GatheredTo(h, Start(part, e), Start(part, e) + Len(buffer))'
  BY <1>3, <1>6 DEF GatheredTo
<1>8. length' > 0 /\ Len(buffer') + length' = Need(part', e)
  <2>1. Len(buffer) + length = Need(part, e) /\ part' = part
    BY DEF Reading
  <2>2. length' > 0 /\ Len(buffer') + length' = Len(buffer) + length
    BY <1>1, <1>5
  <2> QED
    BY <2>1, <2>2
<1>9. /\ SaysSize(c, e, meant.size)' /\ HeaderAs(h, meant, c, e)'
      /\ (body = (IF meant.size < 0 THEN 0 ELSE meant.size))'
      /\ (part \in {"head", "size", "key"})'
      /\ (part = "size" => c >= 126 /\ frame = [meant EXCEPT !.size = c])'
      /\ (part = "key" => meant.mask = 1 /\ meant.size >= 0 /\ frame = meant)'
  BY DEF Reading
<1> QED
  BY <1>7, <1>8, <1>9 DEF Reading

LEMMA HeadDone ==
  ASSUME buffer \in Seq(Byte), length \in Nat, meant \in FrameRecord,
         NEW h, NEW c, NEW e, Reading(h, c, e), part = "head",
         HeadRead(buffer \o SubSeq(coming, 1, length)),
         coming' = SubSeq(coming, length + 1, Len(coming)),
         UNCHANGED <<meant, body>>
  PROVE  ServerInv'
<1> DEFINE b == buffer \o SubSeq(coming, 1, length)
           f == [op |-> b[1] % 16, fin |-> b[1] \div 128, rsv |-> (b[1] \div 16) % 8,
                 mask |-> b[2] \div 128, size |-> b[2] % 128]
<1>1. /\ Len(e) \in Nat /\ Len(buffer) \in Nat /\ h \in Seq(Byte) /\ Len(h) \in Nat
      /\ length > 0 /\ Len(buffer) + length = 2 /\ c \in 0..127 /\ Len(e) = Extra(c)
      /\ Len(h) >= 2 /\ h[1] = First(meant) /\ h[2] = Second(meant, c)
  BY LenProperties DEF Reading, SaysSize, HeaderAs, Need
<1>2. b = Slice(h, 0, 2) /\ coming' = Slice(h, 2, Len(h))
  <2>1. length \in 1..length /\ Start(part, e) = 0 /\ (0 + Len(buffer)) + length = 2
    BY <1>1 DEF Start
  <2>2. Taken(h, Start(part, e), Start(part, e) + Len(buffer), length)
    BY <2>1, PieceTaken
  <2> QED
    BY <2>1, <2>2 DEF Taken
<1>3. b[1] = First(meant) /\ b[2] = Second(meant, c)
  <2>1. 0 <= 2 /\ 2 - 0 = 2 /\ 1 \in 1..2 /\ 2 \in 1..2 /\ 0 + 1 = 1 /\ 0 + 2 = 2
    OBVIOUS
  <2>2. IsSlice(b, h, 0, 2)
    BY <1>1, <1>2, <2>1, SliceIs
  <2> HIDE DEF b
  <2> QED
    BY <1>1, <2>1, <2>2 DEF IsSlice
<1>4. HeadRead(b)
  OBVIOUS
<1> HIDE DEF b
<1>5. f = [meant EXCEPT !.size = c] /\ b[2] % 128 = c
  <2>1. /\ b[1] % 16 = meant.op /\ b[1] \div 128 = meant.fin
        /\ (b[1] \div 16) % 8 = meant.rsv
        /\ b[2] % 128 = c /\ b[2] \div 128 = meant.mask
    <3> DEFINE x == First(meant)
               y == Second(meant, c)
    <3>1. /\ x % 16 = meant.op /\ x \div 128 = meant.fin /\ (x \div 16) % 8 = meant.rsv
          /\ y % 128 = c /\ y \div 128 = meant.mask
      <4>1. meant \in FrameRecord /\ c \in 0..127
        BY <1>1
      <4> QED
        BY <4>1, FieldsRead, Zenon
    <3> HIDE DEF x, y
    <3>2. b[1] = x /\ b[2] = y
      BY <1>3 DEF x, y
    <3> QED
      BY <3>1, <3>2
  <2>2. [meant EXCEPT !.size = c] =
          [op |-> meant.op, fin |-> meant.fin, rsv |-> meant.rsv, mask |-> meant.mask,
           size |-> c]
    BY SizesRead
  <2> QED
    BY <2>1, <2>2
<1>6. /\ frame' = f
      /\ \/ b[2] % 128 >= 126 /\ Await("size", IF b[2] % 128 = 126 THEN 2 ELSE 8)
         \/ b[2] % 128 < 126 /\ Sized(f)
  BY <1>4 DEF HeadRead
<1> HIDE DEF f
<1>7. CASE c >= 126 /\ Await("size", IF c = 126 THEN 2 ELSE 8)
  <2>1. /\ part' = "size" /\ length' = Len(e) /\ buffer' = <<>> /\ length' > 0
        /\ frame' = [meant EXCEPT !.size = c]
    <3>1. Len(e) = IF c = 126 THEN 2 ELSE 8
      BY <1>1, <1>7 DEF Extra
    <3>2. part' = "size" /\ length' = (IF c = 126 THEN 2 ELSE 8) /\ buffer' = <<>>
      BY <1>7 DEF Await
    <3>3. length' = Len(e) /\ length' > 0
      BY <3>1, <3>2
    <3> QED
      BY <1>5, <1>6, <3>2, <3>3
  <2>2. Len(buffer') = 0 /\ GatheredTo(h, 2, 2 + Len(buffer))'
    BY <1>2, <2>1, Awaited
  <2>3. Start("size", e) = 2 /\ Need("size", e) = Len(e)
    BY DEF Start, Need
  <2>4. GatheredTo(h, Start(part, e), Start(part, e) + Len(buffer))'
    BY <2>1, <2>2, <2>3 DEF GatheredTo
  <2>5. /\ SaysSize(c, e, meant.size)' /\ HeaderAs(h, meant, c, e)'
        /\ (body = (IF meant.size < 0 THEN 0 ELSE meant.size))'
    BY DEF Reading
  <2>6. (length > 0 /\ Len(buffer) + length = Need(part, e))'
    BY <1>1, <2>1, <2>2, <2>3
  <2>7. /\ (part \in {"head", "size", "key"})'
        /\ (part = "size" => c >= 126 /\ frame = [meant EXCEPT !.size = c])'
        /\ (part = "key" => meant.mask = 1 /\ meant.size >= 0 /\ frame = meant)'
    BY <1>7, <2>1
  <2>8. Reading(h, c, e)'
    BY <2>4, <2>5, <2>6, <2>7 DEF Reading
  <2> QED
    BY <2>8 DEF ServerInv
<1>8. CASE c < 126 /\ Sized(f)
  <2>1. meant.size = c /\ Len(e) = 0 /\ 2 + 0 = 2
    BY <1>1, <1>8 DEF Reading, SaysSize, Extra
  <2>2. f = meant
    BY <1>5, <2>1, SizesRead
  <2>3. meant.size >= 0 /\ ~(meant.size < 0)
    BY <1>1, <2>1
  <2>4. body' = meant.size
    BY <2>3 DEF Reading
  <2>5. coming' = Slice(h, 2 + Len(e), Len(h))
    BY <1>2, <2>1
  <2>6. SaysSize(c, e, meant.size) /\ HeaderAs(h, meant, c, e)
    BY DEF Reading
  <2> QED
    BY <1>6, <1>8, <2>2, <2>3, <2>4, <2>5, <2>6, LengthKnown
<1> QED
  BY <1>1, <1>5, <1>6, <1>7, <1>8

LEMMA SizeDone ==
  ASSUME buffer \in Seq(Byte), length \in Nat, meant \in FrameRecord,
         NEW h, NEW c, NEW e, Reading(h, c, e), part = "size",
         SizeRead(buffer \o SubSeq(coming, 1, length)),
         coming' = SubSeq(coming, length + 1, Len(coming)),
         UNCHANGED <<meant, body>>
  PROVE  ServerInv'
<1> DEFINE b == buffer \o SubSeq(coming, 1, length)
           large == Len(b) = 8 /\ b[1] > 127
           f == [frame EXCEPT !.size = Number(b)]
<1>1. /\ e \in Seq(Byte) /\ Len(e) \in Nat /\ Len(buffer) \in Nat /\ h \in Seq(Byte)
      /\ length > 0 /\ Len(buffer) + length = Len(e) /\ c >= 126 /\ Has(h, 2, e)
      /\ frame = [meant EXCEPT !.size = c]
  BY LenProperties DEF Reading, SaysSize, HeaderAs, Need
<1>2. b = Slice(h, 2, 2 + Len(e)) /\ coming' = Slice(h, 2 + Len(e), Len(h))
  <2>1. length \in 1..length /\ Start(part, e) = 2 /\ (2 + Len(buffer)) + length = 2 + Len(e)
    BY <1>1 DEF Start
  <2>2. Taken(h, Start(part, e), Start(part, e) + Len(buffer), length)
    BY <2>1, PieceTaken
  <2> QED
    BY <2>1, <2>2 DEF Taken
<1>3. b = e
  <2>1. 2 \in Nat
    OBVIOUS
  <2>2. SubSeq(h, 2 + 1, 2 + Len(e)) = e
    BY <1>1, <2>1, Cut
  <2> QED
    BY <1>2, <2>2 DEF Slice
<1>4. SizeRead(b)
  OBVIOUS
<1> HIDE DEF b
<1>5. (large /\ Raise) \/ (~large /\ frame' = f /\ Sized(f))
  BY <1>4 DEF SizeRead
<1>6. IF large THEN meant.size = -1 ELSE meant.size = Number(e) /\ meant.size >= 0
  BY <1>1, <1>3 DEF Reading, SaysSize
<1> HIDE DEF large
<1>7. CASE large /\ Raise
  <2>1. ~Legal(meant)
    BY <1>6, <1>7 DEF Legal
  <2> QED
    BY <1>7, <2>1 DEF ServerInv, Broken, Raise
<1>8. CASE ~large /\ frame' = f /\ Sized(f)
  <2>1. meant.size = Number(e) /\ meant.size >= 0
    BY <1>6, <1>8
  <2>2. f = meant
    <3>1. f = [[meant EXCEPT !.size = c] EXCEPT !.size = meant.size]
      BY <1>1, <1>3, <2>1
    <3> HIDE DEF f
    <3> QED
      BY <3>1, SizesRead
  <2>3. ~(meant.size < 0)
    BY <2>1 DEF FrameRecord
  <2>4. body' = meant.size
    BY <2>3 DEF Reading
  <2>5. SaysSize(c, e, meant.size) /\ HeaderAs(h, meant, c, e)
    BY DEF Reading
  <2> HIDE DEF f
  <2> QED
    BY <1>2, <1>8, <2>1, <2>2, <2>4, <2>5, LengthKnown
<1> QED
  BY <1>5, <1>7, <1>8

LEMMA KeyDone ==
  ASSUME buffer \in Seq(Byte), length \in Nat, meant \in FrameRecord,
         NEW h, NEW c, NEW e, Reading(h, c, e), part = "key",
         HeaderParsed(frame), frame' = frame,
         coming' = SubSeq(coming, length + 1, Len(coming)),
         UNCHANGED <<meant, body>>
  PROVE  ServerInv'
<1>1. /\ Len(e) \in Nat /\ Len(buffer) \in Nat /\ h \in Seq(Byte) /\ Len(h) \in Nat
      /\ length > 0 /\ Len(buffer) + length = 4 /\ frame = meant
      /\ meant.mask = 1 /\ meant.size >= 0 /\ Len(h) = 2 + Len(e) + 4
  BY LenProperties DEF Reading, SaysSize, HeaderAs, Need
<1>2. coming' = Slice(h, Len(h), Len(h))
  <2>1. /\ length \in 1..length /\ Start(part, e) = 2 + Len(e)
        /\ ((2 + Len(e)) + Len(buffer)) + length = Len(h)
    BY <1>1 DEF Start
  <2>2. Taken(h, Start(part, e), Start(part, e) + Len(buffer), length)
    BY <2>1, PieceTaken
  <2> QED
    BY <2>1, <2>2 DEF Taken
<1>3. coming' = <<>>
  BY <1>1, <1>2, SliceEmpty
<1>4. body' = meant.size
  <2>1. ~(meant.size < 0)
    BY <1>1 DEF FrameRecord
  <2> QED
    BY <2>1 DEF Reading
<1> QED
  BY <1>1, <1>3, <1>4, HeaderEnds DEF ServerInv

LEMMA HeaderStep ==
  ASSUME buffer \in Seq(Byte), length \in Nat, meant \in FrameRecord,
         NEW h, NEW c, NEW e, Reading(h, c, e), ReadHeader
  PROVE  ServerInv'
<1>1. PICK n \in 1..length :
        LET b == buffer \o SubSeq(coming, 1, n)
        IN  /\ coming' = SubSeq(coming, n + 1, Len(coming))
            /\ \/ /\ n < length
                  /\ buffer' = b /\ length' = length - n
                  /\ UNCHANGED <<part, frame>>
               \/ /\ n = length
                  /\ CASE part = "head" -> HeadRead(b)
                       [] part = "size" -> SizeRead(b)
                       [] part = "key" -> HeaderParsed(frame) /\ frame' = frame
  BY DEF ReadHeader
<1>2. UNCHANGED <<meant, body>> /\ part \in {"head", "size", "key"}
  BY DEF ReadHeader
<1>3. CASE n < length /\ buffer' = buffer \o SubSeq(coming, 1, n) /\ length' = length - n
           /\ UNCHANGED <<part, frame>>
  <2>1. Reading(h, c, e)'
    BY <1>1, <1>2, <1>3, StillReading
  <2> QED
    BY <1>2, <2>1 DEF ServerInv
<1>4. CASE n = length /\ part = "head"
  BY <1>1, <1>2, <1>4, HeadDone
<1>5. CASE n = length /\ part = "size"
  BY <1>1, <1>2, <1>5, SizeDone
<1>6. CASE n = length /\ part = "key"
  BY <1>1, <1>2, <1>6, KeyDone
<1> QED
  BY <1>1, <1>2, <1>3, <1>4, <1>5, <1>6

-----------------------------------------------------------------------------
(* What is sent, the types, and the states of the validator *)

Outgoing == out \in OutRecord /\ outBytes \in Seq(0..255) /\ ClientFrameUnderstood

LEMMA Sent ==
  ASSUME NEW f, f \in OutRecord, Sizeable(f), Send(f)
  PROVE  Outgoing'
<1>1. PICK k \in MaskKeys : outBytes' = Build(f, k)
  BY DEF Send
<1>2. out' = f
  BY DEF Send
<1>3. outBytes' \in Seq(Byte) /\ ClientUnderstood(out', outBytes')
  BY <1>1, <1>2, BuildUnderstood
<1>4. ClientFrameUnderstood'
  BY <1>3 DEF ClientFrameUnderstood, ClientUnderstood
<1> QED
  BY <1>2, <1>3, <1>4 DEF Outgoing, Byte

LEMMA PongSent ==
  ASSUME NEW n, n \in Nat, n <= 125,
         Send([op |-> PONG, rsv |-> 0, size |-> n, status |-> 0])
  PROVE  Outgoing'
<1> DEFINE f == [op |-> PONG, rsv |-> 0, size |-> n, status |-> 0]
<1>1. f \in OutRecord
  BY DEF OutRecord, Opcodes, PONG, Short
<1>2. Sizeable(f)
  <2>1. n \div 65536 = 0 /\ 0 \div 65536 = 0 /\ 0 < 32768
    OBVIOUS
  <2> QED
    BY <2>1 DEF Sizeable
<1> HIDE DEF f
<1>3. Send(f)
  BY DEF f
<1> QED
  BY <1>1, <1>2, <1>3, Sent

\* The state of the validator goes with the bytes it is for.
Validated(state, read) ==
  state \in Utf8States /\ read \in Seq(TextBytes) /\ Shape(state, read)

ValidatorInv ==
  IF utf8 = Utf8Reject
  THEN part = "raised" /\ char # <<>> /\ ~BeginsCharacter(char)
  ELSE Shape(utf8, char)

ParserTyped ==
  /\ part \in {"head", "size", "key", "body", "raised"}
  /\ buffer \in Seq(0..255) /\ length \in Nat
  /\ part \in {"head", "size", "key"} => Len(buffer) + length \in {2, 4, 8}
  /\ isText \in BOOLEAN
  /\ utf8 \in Utf8States /\ char \in Seq(TextBytes) /\ ValidatorInv
  /\ Outgoing

LEMMA AwaitTyped ==
  ASSUME NEW p \in {"head", "size", "key"}, NEW n \in {2, 4, 8}, Await(p, n)
  PROVE  /\ part' \in {"head", "size", "key"} /\ buffer' \in Seq(0..255) /\ length' \in Nat
         /\ Len(buffer') + length' \in {2, 4, 8}
<1>1. Len(<<>>) = 0 /\ <<>> \in Seq(0..255) /\ 0 + n = n
  OBVIOUS
<1> QED
  BY <1>1 DEF Await

LEMMA OutgoingKept ==
  ASSUME Outgoing, UNCHANGED outVars
  PROVE  Outgoing'
BY DEF Outgoing, outVars, ClientFrameUnderstood

LEMMA OnFrameTyped ==
  ASSUME Outgoing, NEW f, f \in FrameRecord, f.size >= 0, NEW text, text \in BOOLEAN,
         NEW state, NEW read, Validated(state, read), OnFrame(f, text, state, read)
  PROVE  ParserTyped'
<1>1. isText' \in BOOLEAN
  BY DEF OnFrame
<1>2. utf8' \in Utf8States /\ char' \in Seq(TextBytes) /\ Shape(utf8', char')
  <2>1. \/ utf8' = 0 /\ char' = <<>>
        \/ utf8' = state /\ char' = read
    BY DEF OnFrame, Utf8Accept
  <2>2. 0 \in Utf8States /\ <<>> \in Seq(TextBytes) /\ Shape(0, <<>>)
    BY DEF Utf8States, Shape
  <2> QED
    BY <2>1, <2>2 DEF Validated
<1>3. ValidatorInv'
  <2>1. utf8' # Utf8Reject
    BY <1>2, ShapeBegins DEF Utf8Reject
  <2> QED
    BY <1>2, <2>1 DEF ValidatorInv
<1>4. Outgoing'
  <2>1. f.size \in Nat
    BY DEF FrameRecord
  <2>2. CASE f.size <= 125 /\ Send([op |-> PONG, rsv |-> 0, size |-> f.size, status |-> 0])
    BY <2>1, <2>2, PongSent
  <2>3. CASE UNCHANGED outVars
    BY <2>3, OutgoingKept
  <2> QED
    BY <2>2, <2>3 DEF OnFrame
<1>5. CASE Raise
  BY <1>1, <1>2, <1>3, <1>4, <1>5 DEF Raise, ParserTyped
<1>6. CASE Await("head", 2)
  <2>1. /\ part' \in {"head", "size", "key"} /\ buffer' \in Seq(0..255) /\ length' \in Nat
        /\ Len(buffer') + length' \in {2, 4, 8}
    BY <1>6, AwaitTyped
  <2> QED
    BY <1>1, <1>2, <1>3, <1>4, <2>1 DEF ParserTyped
<1> QED
  BY <1>5, <1>6 DEF OnFrame

LEMMA HeaderParsedTyped ==
  ASSUME ParserTyped, part # "raised", NEW f, f \in FrameRecord, HeaderParsed(f)
  PROVE  ParserTyped'
<1>1. Validated(utf8, char) /\ utf8 # Utf8Reject /\ Outgoing
  BY DEF ParserTyped, Validated, ValidatorInv
<1> DEFINE text == isText \/ f.op = TEXT
<1>2. text \in BOOLEAN
  BY DEF ParserTyped
<1>3. CASE /\ UNCHANGED <<utf8, char, outVars>> /\ isText' \in BOOLEAN
           /\ part' \in {"body", "raised"} /\ buffer' = <<>> /\ length' \in Nat
  <2>1. Outgoing'
    BY <1>1, <1>3, OutgoingKept
  <2>2. ValidatorInv' /\ utf8' \in Utf8States /\ char' \in Seq(TextBytes)
    BY <1>1, <1>3 DEF ParserTyped, ValidatorInv
  <2>3. /\ part' \in {"head", "size", "key", "body", "raised"}
        /\ part' \notin {"head", "size", "key"}
        /\ buffer' \in Seq(0..255)
    BY <1>3
  <2> QED
    BY <1>3, <2>1, <2>2, <2>3, Zenon DEF ParserTyped
<1>4. CASE ~Validate(f) /\ Raise /\ UNCHANGED <<isText, utf8, char, outVars>>
  BY <1>3, <1>4 DEF Raise, ParserTyped
<1>5. CASE /\ Validate(f) /\ f.size > 0 /\ Await("body", f.size) /\ isText' = text
           /\ UNCHANGED <<utf8, char, outVars>>
  <2>1. f.size \in Nat
    BY <1>5 DEF FrameRecord
  <2> QED
    BY <1>2, <1>3, <1>5, <2>1 DEF Await
<1>6. CASE Validate(f) /\ f.size = 0 /\ OnFrame(f, text, utf8, char)
  <2> HIDE DEF text
  <2>1. f.size >= 0
    BY <1>6
  <2> QED
    BY <1>1, <1>2, <1>6, <2>1, OnFrameTyped
<1> QED
  BY <1>4, <1>5, <1>6 DEF HeaderParsed

LEMMA AwaitsMore ==
  ASSUME ParserTyped, part # "raised", UNCHANGED <<isText, utf8, char, outVars>>,
         NEW p \in {"head", "size", "key"}, NEW n \in {2, 4, 8}, Await(p, n)
  PROVE  ParserTyped'
<1>1. Outgoing'
  BY OutgoingKept DEF ParserTyped
<1>2. ValidatorInv'
  BY DEF ParserTyped, ValidatorInv
<1>3. /\ part' \in {"head", "size", "key"} /\ buffer' \in Seq(0..255) /\ length' \in Nat
      /\ Len(buffer') + length' \in {2, 4, 8}
  BY AwaitTyped
<1> QED
  BY <1>1, <1>2, <1>3 DEF ParserTyped

LEMMA SizedTyped ==
  ASSUME ParserTyped, part # "raised", NEW f, f \in FrameRecord, Sized(f)
  PROVE  ParserTyped'
BY AwaitsMore, HeaderParsedTyped DEF Sized

LEMMA HeadReadTyped ==
  ASSUME ParserTyped, part # "raised", NEW b \in Seq(Byte), Len(b) = 2, HeadRead(b)
  PROVE  ParserTyped' /\ frame' \in FrameRecord
<1> DEFINE f == [op |-> b[1] % 16, fin |-> b[1] \div 128, rsv |-> (b[1] \div 16) % 8,
                 mask |-> b[2] \div 128, size |-> b[2] % 128]
<1>1. b[1] \in 0..255 /\ b[2] \in 0..255
  <2>1. 1 \in 1..2 /\ 2 \in 1..2
    OBVIOUS
  <2>2. \A i \in 1..Len(b) : b[i] \in Byte
    BY LenProperties
  <2> QED
    BY <2>1, <2>2 DEF Byte
<1>2. f \in FrameRecord
  <2>1. \A x \in 0..255 : /\ x % 16 \in 0..15 /\ x \div 128 \in 0..1
                          /\ (x \div 16) % 8 \in 0..7 /\ x % 128 \in Int
    OBVIOUS
  <2>2. /\ b[1] % 16 \in 0..15 /\ b[1] \div 128 \in 0..1 /\ (b[1] \div 16) % 8 \in 0..7
        /\ b[2] \div 128 \in 0..1 /\ b[2] % 128 \in Int
    BY <1>1, <2>1, Zenon
  <2> QED
    BY <2>2, Zenon DEF FrameRecord, Opcodes
<1>3. /\ frame' = f
      /\ \/ /\ Await("size", IF b[2] % 128 = 126 THEN 2 ELSE 8)
            /\ UNCHANGED <<isText, utf8, char, outVars>>
         \/ Sized(f)
  BY DEF HeadRead
<1> HIDE DEF f
<1>4. "size" \in {"head", "size", "key"}
      /\ (IF b[2] % 128 = 126 THEN 2 ELSE 8) \in {2, 4, 8}
  OBVIOUS
<1> QED
  BY <1>2, <1>3, <1>4, AwaitsMore, SizedTyped

LEMMA SizeReadTyped ==
  ASSUME ParserTyped, part # "raised", frame \in FrameRecord,
         NEW b \in Seq(Byte), SizeRead(b)
  PROVE  ParserTyped' /\ frame' \in FrameRecord
<1> DEFINE large == Len(b) = 8 /\ b[1] > 127
           f == [frame EXCEPT !.size = Number(b)]
           g == [frame EXCEPT !.size = -1]
<1>1. f \in FrameRecord /\ g \in FrameRecord
  <2>1. \A n \in Int : [frame EXCEPT !.size = n] \in FrameRecord
    BY DEF FrameRecord
  <2> QED
    BY <2>1, NumberTyped
<1>2. \/ frame' = g /\ Raise /\ UNCHANGED <<isText, utf8, char, outVars>>
      \/ frame' = f /\ Sized(f)
  BY DEF SizeRead
<1> HIDE DEF f, g
<1>3. CASE frame' = g /\ Raise /\ UNCHANGED <<isText, utf8, char, outVars>>
  <2>1. Outgoing'
    BY <1>3, OutgoingKept DEF ParserTyped
  <2>2. ValidatorInv'
    BY <1>3 DEF ParserTyped, ValidatorInv
  <2>3. /\ part' \in {"head", "size", "key", "body", "raised"}
        /\ part' \notin {"head", "size", "key"}
        /\ buffer' \in Seq(0..255) /\ length' \in Nat
    BY <1>3 DEF Raise
  <2>4. isText' \in BOOLEAN /\ utf8' \in Utf8States /\ char' \in Seq(TextBytes)
    BY <1>3 DEF ParserTyped
  <2> QED
    BY <1>1, <1>3, <2>1, <2>2, <2>3, <2>4, Zenon DEF ParserTyped
<1>4. CASE frame' = f /\ Sized(f)
  BY <1>1, <1>4, SizedTyped
<1> QED
  BY <1>2, <1>3, <1>4

\* What the state of the parser adds to its types.
LEMMA ReadHeaderTyped ==
  ASSUME ParserTyped, frame \in FrameRecord, coming \in Seq(Byte), ReadHeader,
         part = "head" => Len(buffer) + length = 2
  PROVE  ParserTyped' /\ frame' \in FrameRecord /\ coming' \in Seq(Byte)
<1>1. PICK n \in 1..length :
        LET b == buffer \o SubSeq(coming, 1, n)
        IN  /\ n <= Len(coming)
            /\ coming' = SubSeq(coming, n + 1, Len(coming))
            /\ \/ /\ n < length
                  /\ buffer' = b /\ length' = length - n
                  /\ UNCHANGED <<part, frame, isText, utf8, char, outVars>>
               \/ /\ n = length
                  /\ CASE part = "head" -> HeadRead(b)
                       [] part = "size" -> SizeRead(b)
                       [] part = "key" -> HeaderParsed(frame) /\ UNCHANGED frame
  BY DEF ReadHeader
<1>2. part \in {"head", "size", "key"} /\ part # "raised"
  BY DEF ReadHeader
<1> DEFINE taken == SubSeq(coming, 1, n)
           b == buffer \o taken
<1>3. /\ buffer \in Seq(Byte) /\ Len(buffer) \in Nat /\ Len(coming) \in Nat
      /\ length \in Nat /\ n \in Nat
  BY LenProperties DEF ParserTyped, Byte
<1>4. taken \in Seq(Byte) /\ Len(taken) = n
  <2>1. taken = Slice(coming, 0, n) /\ 0 <= n /\ n - 0 = n
    BY <1>3 DEF Slice
  <2> HIDE DEF taken
  <2>2. IsSlice(taken, coming, 0, n)
    BY <1>1, <1>3, <2>1, SliceIs
  <2> QED
    BY <2>1, <2>2 DEF IsSlice
<1>5. coming' \in Seq(Byte)
  <2>1. IsSlice(coming', coming, n, Len(coming))
    BY <1>1, <1>3, SliceIs DEF Slice
  <2> QED
    BY <2>1 DEF IsSlice
<1> HIDE DEF taken
<1>6. b \in Seq(Byte) /\ Len(b) = Len(buffer) + n
  BY <1>3, <1>4, JoinIs DEF IsJoin
<1>7. \/ /\ n < length
         /\ buffer' = b /\ length' = length - n
         /\ UNCHANGED <<part, frame, isText, utf8, char, outVars>>
      \/ /\ n = length
         /\ CASE part = "head" -> HeadRead(b)
              [] part = "size" -> SizeRead(b)
              [] part = "key" -> HeaderParsed(frame) /\ UNCHANGED frame
  BY <1>1 DEF taken
<1> HIDE DEF b
<1>8. CASE /\ n < length
           /\ buffer' = b /\ length' = length - n
           /\ UNCHANGED <<part, frame, isText, utf8, char, outVars>>
  <2>1. Outgoing'
    BY <1>8, OutgoingKept DEF ParserTyped
  <2>2. ValidatorInv'
    BY <1>8 DEF ParserTyped, ValidatorInv
  <2>3. length' \in Nat /\ Len(buffer') + length' = Len(buffer) + length
    BY <1>3, <1>6, <1>8
  <2>4. Len(buffer) + length \in {2, 4, 8}
    BY <1>2 DEF ParserTyped
  <2>5. buffer' \in Seq(0..255)
    BY <1>6, <1>8 DEF Byte
  <2> QED
    BY <1>5, <1>8, <2>1, <2>2, <2>3, <2>4, <2>5 DEF ParserTyped
<1>9. CASE n = length /\ part = "head"
  <2>1. HeadRead(b) /\ Len(b) = 2
    BY <1>3, <1>6, <1>7, <1>9
  <2> QED
    BY <1>2, <1>5, <1>6, <2>1, HeadReadTyped
<1>10. CASE n = length /\ part = "size"
  <2>1. SizeRead(b)
    BY <1>3, <1>7, <1>10
  <2> QED
    BY <1>2, <1>5, <1>6, <2>1, SizeReadTyped
<1>11. CASE n = length /\ part = "key"
  <2>1. HeaderParsed(frame) /\ frame' = frame
    BY <1>3, <1>7, <1>11
  <2> QED
    BY <1>2, <1>5, <2>1, HeaderParsedTyped
<1> QED
  BY <1>2, <1>7, <1>8, <1>9, <1>10, <1>11

-----------------------------------------------------------------------------
(* Every step *)

WireInv == WireTypeOK /\ ServerInv /\ ValidatorInv /\ ClientFrameUnderstood

LEMMA WireInvMeans ==
  ASSUME WireInv
  PROVE  /\ ParserTyped /\ frame \in FrameRecord /\ coming \in Seq(Byte) /\ body \in Nat
         /\ meant \in ServerFrames \cup {NoFrame}
         /\ part = "body" => InBody
BY DEF WireInv, WireTypeOK, ParserTyped, Outgoing, Byte, ServerInv, AtRest, Broken, Reading

LEMMA WireInvMade ==
  ASSUME ParserTyped', frame' \in FrameRecord, coming' \in Seq(Byte), body' \in Nat,
         meant' \in ServerFrames \cup {NoFrame}, ServerInv'
  PROVE  WireInv'
BY DEF WireInv, WireTypeOK, ParserTyped, Outgoing, Byte

LEMMA BodyStep ==
  ASSUME WireInv, ReadBody
  PROVE  WireInv'
<1>1. /\ part = "body" /\ InBody /\ ParserTyped /\ frame \in FrameRecord
      /\ body = length /\ length \in Nat /\ length > 0 /\ meant = frame
      /\ coming = <<>> /\ meant.size > 0
  BY WireInvMeans DEF ReadBody, InBody, ParserTyped
<1>2. PICK n \in {1, length} :
        /\ body' = body - n
        /\ \/ n < length /\ length' = length - n
              /\ UNCHANGED <<part, buffer, isText, utf8, char, outVars>>
           \/ n = length /\ OnFrame(frame, isText, utf8, char)
  BY DEF ReadBody
<1>3. UNCHANGED <<meant, coming, frame>>
  BY DEF ReadBody
<1>4. CASE n < length /\ length' = length - n
           /\ UNCHANGED <<part, buffer, isText, utf8, char, outVars>>
  <2>1. n = 1 /\ length' > 0 /\ length' \in Nat /\ body' = length'
    BY <1>1, <1>2, <1>4
  <2>2. InBody'
    BY <1>1, <1>3, <1>4, <2>1 DEF InBody
  <2>3. Outgoing'
    BY <1>1, <1>4, OutgoingKept DEF ParserTyped
  <2>4. ParserTyped'
    <3>1. ValidatorInv'
      BY <1>1, <1>4 DEF ParserTyped, ValidatorInv
    <3> QED
      BY <1>1, <1>4, <2>1, <2>3, <3>1 DEF ParserTyped
  <2>5. ServerInv'
    BY <1>1, <1>3, <2>2 DEF ServerInv
  <2> QED
    BY <1>3, <2>1, <2>4, <2>5, WireInvMeans, WireInvMade
<1>5. CASE n = length /\ OnFrame(frame, isText, utf8, char)
  <2>1. body' = 0 /\ coming' = <<>> /\ meant' = meant /\ frame' = meant
    BY <1>1, <1>2, <1>3, <1>5
  <2>2. meant.size >= 0 /\ Validate(meant) /\ meant \in FrameRecord
    BY <1>1 DEF InBody, FrameRecord
  <2>3. AtRest' \/ Broken'
    BY <1>1, <1>5, <2>1, <2>2, FrameEnds
  <2>4. Validated(utf8, char) /\ Outgoing /\ isText \in BOOLEAN
    BY <1>1 DEF ParserTyped, Validated, ValidatorInv
  <2>5. ParserTyped'
    BY <1>1, <1>5, <2>2, <2>4, OnFrameTyped
  <2>6. ServerInv'
    BY <2>1, <2>2, <2>3 DEF ServerInv
  <2> QED
    BY <1>3, <2>1, <2>5, <2>6, WireInvMeans, WireInvMade
<1> QED
  BY <1>2, <1>4, <1>5

LEMMA TextStep ==
  ASSUME WireInv, ReadText
  PROVE  WireInv'
<1>1. /\ part = "body" /\ InBody /\ ParserTyped /\ frame \in FrameRecord
      /\ body = length /\ length \in Nat /\ length > 0 /\ meant = frame
      /\ coming = <<>> /\ meant.size > 0
  BY WireInvMeans DEF ReadText, InBody, ParserTyped
<1>2. /\ UNCHANGED <<meant, coming, frame>>
      /\ body' = body - 1
  BY DEF ReadText
<1>3. PICK b \in TextBytes :
        LET state == Dfa(utf8, b)
            read == IF IsCharacter(Append(char, b)) THEN <<>> ELSE Append(char, b)
        IN  \/ /\ state = Utf8Reject /\ Raise
               /\ utf8' = state /\ char' = read
               /\ UNCHANGED <<isText, outVars>>
            \/ /\ state # Utf8Reject /\ length > 1
               /\ utf8' = state /\ char' = read
               /\ length' = length - 1
               /\ UNCHANGED <<part, buffer, isText, outVars>>
            \/ /\ state # Utf8Reject /\ length = 1
               /\ OnFrame(frame, isText, state, read)
  BY DEF ReadText
<1> DEFINE state == Dfa(utf8, b)
           all == Append(char, b)
           read == IF IsCharacter(all) THEN <<>> ELSE all
<1>4. /\ char \in Seq(TextBytes) /\ isText \in BOOLEAN /\ Outgoing
      /\ Shape(utf8, char)
  BY <1>1 DEF ParserTyped, ValidatorInv
<1>5. Follows(utf8, char, b)
  <2>1. b \in Byte
    BY WireAssumption DEF WireAssumption, Byte
  <2> QED
    BY <1>4, <2>1, ByteRead
<1>6. all \in Seq(TextBytes) /\ all # <<>>
  <2>1. all \in Seq(TextBytes) /\ Len(all) = Len(char) + 1
    BY <1>4, AppendProperties
  <2>2. Len(char) \in Nat
    BY <1>4, LenProperties
  <2>3. Len(<<>>) = 0
    OBVIOUS
  <2> QED
    BY <2>1, <2>2, <2>3
<1>7. /\ state = 1 => ~BeginsCharacter(all)
      /\ state # 1 => IF IsCharacter(all) THEN state = 0 ELSE Shape(state, all)
  BY <1>5 DEF Follows, Judges
<1>8. read \in Seq(TextBytes)
  BY <1>6
<1>9. state = 1 => read # <<>> /\ ~BeginsCharacter(read)
  <2>1. state = 1 => ~IsCharacter(all)
    BY <1>7 DEF IsCharacter
  <2> QED
    BY <1>6, <1>7, <2>1
<1>10. state # 1 => Shape(state, read)
  <2>1. Shape(0, <<>>)
    BY DEF Shape
  <2> QED
    BY <1>7, <2>1
<1>11. state # 1 => Validated(state, read)
  <2>1. state # 1 => state \in Utf8States
    BY <1>10, ShapeBegins DEF Utf8States
  <2> QED
    BY <1>8, <1>10, <2>1 DEF Validated
<1>12. \/ /\ state = 1 /\ Raise
          /\ utf8' = state /\ char' = read
          /\ UNCHANGED <<isText, outVars>>
       \/ /\ state # 1 /\ length > 1
          /\ utf8' = state /\ char' = read
          /\ length' = length - 1
          /\ UNCHANGED <<part, buffer, isText, outVars>>
       \/ /\ state # 1 /\ length = 1
          /\ OnFrame(frame, isText, state, read)
  BY <1>3 DEF Utf8Reject
<1> HIDE DEF state, read, all
<1>13. meant.size >= 0 /\ Validate(meant) /\ meant \in FrameRecord
  BY <1>1 DEF InBody, FrameRecord
<1>14. meant' \in ServerFrames \cup {NoFrame} /\ frame' \in FrameRecord /\ coming' \in Seq(Byte)
       /\ body' \in Nat
  BY <1>1, <1>2, WireInvMeans
<1>15. CASE /\ state = 1 /\ Raise
            /\ utf8' = state /\ char' = read
            /\ UNCHANGED <<isText, outVars>>
  <2>1. part' = "raised" /\ buffer' = <<>> /\ length' = 0
    BY <1>15 DEF Raise
  <2>2. Outgoing'
    BY <1>4, <1>15, OutgoingKept
  <2>3. ValidatorInv'
    BY <1>9, <1>15, <2>1 DEF ValidatorInv, Utf8Reject
  <2>4. utf8' \in Utf8States /\ char' \in Seq(TextBytes) /\ isText' \in BOOLEAN
    BY <1>4, <1>8, <1>15 DEF Utf8States
  <2>5. /\ part' \in {"head", "size", "key", "body", "raised"}
        /\ part' \notin {"head", "size", "key"}
        /\ buffer' \in Seq(0..255) /\ length' \in Nat
    BY <2>1
  <2>6. ParserTyped'
    BY <2>2, <2>3, <2>4, <2>5, Zenon DEF ParserTyped
  <2>7. Broken'
    BY <1>15, <2>1 DEF Broken, Utf8Reject
  <2>8. ServerInv'
    BY <1>2, <1>13, <2>7 DEF ServerInv
  <2> QED
    BY <1>14, <2>6, <2>8, WireInvMade
<1>16. CASE /\ state # 1 /\ length > 1
            /\ utf8' = state /\ char' = read
            /\ length' = length - 1
            /\ UNCHANGED <<part, buffer, isText, outVars>>
  <2>1. length' > 0 /\ length' \in Nat /\ body' = length'
    BY <1>1, <1>2, <1>16
  <2>2. InBody'
    BY <1>1, <1>2, <1>16, <2>1 DEF InBody
  <2>3. Outgoing'
    BY <1>4, <1>16, OutgoingKept
  <2>4. ValidatorInv' /\ utf8' \in Utf8States /\ char' \in Seq(TextBytes)
    BY <1>11, <1>16 DEF Validated, ValidatorInv, Utf8Reject
  <2>5. ParserTyped'
    BY <1>1, <1>16, <2>1, <2>3, <2>4 DEF ParserTyped
  <2>6. ServerInv'
    BY <1>2, <1>13, <2>2 DEF ServerInv
  <2> QED
    BY <1>14, <2>5, <2>6, WireInvMade
<1>17. CASE state # 1 /\ length = 1 /\ OnFrame(frame, isText, state, read)
  <2>1. body' = 0 /\ coming' = <<>> /\ meant' = meant /\ frame' = meant
    BY <1>1, <1>2, <1>17
  <2>2. AtRest' \/ Broken'
    BY <1>1, <1>13, <1>17, <2>1, FrameEnds
  <2>3. ParserTyped'
    BY <1>1, <1>4, <1>11, <1>13, <1>17, OnFrameTyped
  <2>4. ServerInv'
    BY <1>13, <2>1, <2>2 DEF ServerInv
  <2> QED
    BY <1>14, <2>3, <2>4, WireInvMade
<1> QED
  BY <1>12, <1>15, <1>16, <1>17

LEMMA HeaderTaken ==
  ASSUME WireInv, ReadHeader
  PROVE  WireInv'
<1>1. /\ ParserTyped /\ frame \in FrameRecord /\ coming \in Seq(Byte) /\ body \in Nat
      /\ meant \in ServerFrames \cup {NoFrame}
      /\ part \in {"head", "size", "key"} /\ UNCHANGED <<meant, body>>
  BY WireInvMeans DEF ReadHeader
<1>2. buffer \in Seq(Byte) /\ length \in Nat /\ meant \in FrameRecord
  BY <1>1 DEF ParserTyped, Byte, WireInv, ServerInv
<1>3. AtRest \/ \E h, c, e : Reading(h, c, e)
  BY <1>1 DEF WireInv, ServerInv, InBody, Broken
<1>4. CASE AtRest
  <2>1. coming = <<>> /\ length = 2
    BY <1>4 DEF AtRest
  <2>2. PICK n \in 1..length : n <= Len(coming)
    BY DEF ReadHeader
  <2>3. Len(coming) = 0
    BY <2>1
  <2> QED
    BY <2>1, <2>2, <2>3
<1>5. CASE \E h, c, e : Reading(h, c, e)
  <2>1. PICK h, c, e : Reading(h, c, e)
    BY <1>5
  <2>2. ServerInv'
    BY <1>2, <2>1, HeaderStep
  <2>3. part = "head" => Len(buffer) + length = 2
    BY <2>1 DEF Reading, Need
  <2>4. ParserTyped' /\ frame' \in FrameRecord /\ coming' \in Seq(Byte)
    BY <1>1, <2>3, ReadHeaderTyped
  <2> QED
    BY <1>1, <2>2, <2>4, WireInvMade
<1> QED
  BY <1>3, <1>4, <1>5

\* A frame of the server begins.
LEMMA FrameBegins ==
  ASSUME WireInv, ServerSends
  PROVE  WireInv'
<1>1. PICK f \in ServerFrames, bytes \in {1, 2, 8} :
        /\ Fits(f.size, bytes)
        /\ meant' = f
        /\ coming' = Header(f, bytes)
        /\ body' = IF f.size < 0 THEN 0 ELSE f.size
  BY DEF ServerSends
<1>2. f \in FrameRecord /\ f.size >= -1 /\ Sizeable(f) /\ f.size \in Int
  BY WireAssumption DEF WireAssumption, FrameRecord
<1>3. Between /\ UNCHANGED <<parseVars, outVars>>
  BY DEF ServerSends
<1>4. /\ part = "head" /\ buffer = <<>> /\ length = 2
      /\ ParserTyped /\ frame \in FrameRecord
  <2>1. part = "head" /\ coming = <<>> /\ body = 0
    BY <1>3 DEF Between
  <2>2. AtRest \/ \E h, c, e : Reading(h, c, e)
    BY <2>1 DEF WireInv, ServerInv, InBody, Broken
  <2>3. ASSUME NEW h, NEW c, NEW e, Reading(h, c, e)
        PROVE  FALSE
    <3>1. buffer \in Seq(Byte) /\ length \in Nat /\ meant \in FrameRecord
      BY WireInvMeans DEF ParserTyped, Byte, WireInv, ServerInv
    <3>2. 1 \in 1..length
      BY <2>3, <3>1 DEF Reading
    <3>3. Taken(h, Start(part, e), Start(part, e) + Len(buffer), 1)
      BY <2>3, <3>1, <3>2, PieceTaken
    <3>4. 1 <= Len(coming)
      BY <3>3 DEF Taken
    <3> QED
      BY <2>1, <3>4
  <2>4. AtRest
    BY <2>2, <2>3
  <2> QED
    BY <2>4, WireInvMeans DEF AtRest
<1>5. PICK c, e : SaysSize(c, e, f.size) /\ HeaderAs(Header(f, bytes), f, c, e)
  BY <1>1, <1>2, HeaderIs
<1> DEFINE h == Header(f, bytes)
<1>6. h \in Seq(Byte) /\ Len(h) \in Nat /\ coming' = h
  BY <1>1, <1>5, LenProperties DEF HeaderAs
<1>7. SaysSize(c, e, f.size) /\ HeaderAs(h, f, c, e)
  BY <1>5
<1> HIDE DEF h
<1>8. coming' = Slice(h, 0, Len(h))
  <2>1. IsSlice(Slice(h, 0, Len(h)), h, 0, Len(h))
    BY <1>6, SliceIs
  <2>2. /\ Slice(h, 0, Len(h)) \in Seq(Byte) /\ Len(Slice(h, 0, Len(h))) = Len(h)
        /\ \A i \in 1..Len(h) : Slice(h, 0, Len(h))[i] = h[i]
    <3> DEFINE t == Slice(h, 0, Len(h))
    <3>1. IsSlice(t, h, 0, Len(h))
      BY <2>1
    <3> HIDE DEF t
    <3>2. Len(h) - 0 = Len(h) /\ \A i \in 1..Len(h) : 0 + i = i
      BY <1>6
    <3> QED
      BY <3>1, <3>2 DEF IsSlice, t
  <2>3. Slice(h, 0, Len(h)) = h
    BY <1>6, <2>2, SeqEqual
  <2> QED
    BY <1>6, <2>3
<1>9. part' = "head" /\ buffer' = <<>> /\ length' = 2
  BY <1>3, <1>4 DEF parseVars
<1>10. Len(buffer') = 0 /\ GatheredTo(h, 0, 0 + Len(buffer))'
  BY <1>8, <1>9, Awaited
<1>11. Reading(h, c, e)'
  <2>1. Start("head", e) = 0 /\ Need("head", e) = 2
    BY DEF Start, Need
  <2>2. GatheredTo(h, Start(part, e), Start(part, e) + Len(buffer))'
    BY <1>9, <1>10, <2>1 DEF GatheredTo
  <2>3. (length > 0 /\ Len(buffer) + length = Need(part, e))'
    BY <1>9, <1>10, <2>1
  <2>4. /\ SaysSize(c, e, meant.size)' /\ HeaderAs(h, meant, c, e)'
        /\ (body = (IF meant.size < 0 THEN 0 ELSE meant.size))'
    BY <1>1, <1>7
  <2>5. /\ (part \in {"head", "size", "key"})'
        /\ (part = "size" => c >= 126 /\ frame = [meant EXCEPT !.size = c])'
        /\ (part = "key" => meant.mask = 1 /\ meant.size >= 0 /\ frame = meant)'
    BY <1>9
  <2> QED
    BY <2>2, <2>3, <2>4, <2>5 DEF Reading
<1>12. ServerInv'
  BY <1>1, <1>2, <1>11 DEF ServerInv
<1>13. ParserTyped' /\ frame' \in FrameRecord
  <2>1. Outgoing'
    BY <1>3, <1>4, OutgoingKept DEF ParserTyped
  <2>2. ValidatorInv'
    BY <1>3, <1>4 DEF ParserTyped, ValidatorInv, parseVars
  <2> QED
    BY <1>3, <1>4, <2>1, <2>2 DEF ParserTyped, parseVars
<1>14. body' \in Nat /\ meant' \in ServerFrames \cup {NoFrame} /\ coming' \in Seq(Byte)
  BY <1>1, <1>2, <1>6
<1> QED
  BY <1>12, <1>13, <1>14, WireInvMade

LEMMA ServerKept ==
  ASSUME ServerInv, UNCHANGED <<meant, coming, body, parseVars>>
  PROVE  ServerInv'
<1>1. AtRest => AtRest'
  BY DEF AtRest, parseVars
<1>2. InBody => InBody'
  BY DEF InBody, parseVars
<1>3. Broken => Broken'
  BY DEF Broken, parseVars
<1>4. ASSUME NEW h, NEW c, NEW e, Reading(h, c, e)
      PROVE  Reading(h, c, e)'
  BY <1>4 DEF Reading, GatheredTo, parseVars
<1> QED
  BY <1>1, <1>2, <1>3, <1>4 DEF ServerInv

LEMMA ParserKept ==
  ASSUME ParserTyped, UNCHANGED parseVars, Outgoing'
  PROVE  ParserTyped'
<1>1. ValidatorInv'
  BY DEF ParserTyped, ValidatorInv, parseVars
<1> QED
  BY <1>1 DEF ParserTyped, parseVars

LEMMA OnlyOutgoing ==
  ASSUME WireInv, UNCHANGED <<meant, coming, body, parseVars>>, Outgoing'
  PROVE  WireInv'
<1>1. ParserTyped' /\ ServerInv'
  BY WireInvMeans, ParserKept, ServerKept DEF WireInv
<1>2. frame' = frame
  BY DEF parseVars
<1> QED
  BY <1>1, <1>2, WireInvMeans, WireInvMade

LEMMA WireInvKept ==
  ASSUME WireInv, [WireStep]_wireVars
  PROVE  WireInv'
<1>1. CASE ClientSends
  <2>1. PICK f \in ClientFrames : Send(f)
    BY <1>1 DEF ClientSends
  <2>2. f \in OutRecord /\ Sizeable(f)
    BY WireAssumption DEF WireAssumption
  <2>3. Outgoing'
    BY <2>1, <2>2, Sent
  <2> QED
    BY <1>1, <2>3, OnlyOutgoing DEF ClientSends
<1>2. CASE ServerReads
  <2>1. out' = NoOut /\ outBytes' = <<>>
    BY <1>2 DEF ServerReads
  <2>2. NoOut \in OutRecord /\ <<>> \in Seq(0..255)
    BY DEF NoOut, OutRecord, Opcodes, Short
  <2>3. Outgoing'
    BY <2>1, <2>2 DEF Outgoing, ClientFrameUnderstood
  <2> QED
    BY <1>2, <2>3, OnlyOutgoing DEF ServerReads
<1>3. CASE UNCHANGED wireVars
  <2>1. Outgoing'
    BY <1>3, WireInvMeans, OutgoingKept DEF ParserTyped, wireVars
  <2> QED
    BY <1>3, <2>1, OnlyOutgoing DEF wireVars
<1> QED
  BY <1>1, <1>2, <1>3, FrameBegins, HeaderTaken, BodyStep, TextStep DEF WireStep

LEMMA WireInvBegins ==
  ASSUME WireInit
  PROVE  WireInv
<1>1. NoFrame \in FrameRecord /\ NoOut \in OutRecord
  BY DEF NoFrame, FrameRecord, NoOut, OutRecord, Opcodes, Short
<1>2. Legal(NoFrame)
  BY DEF NoFrame, Legal
<1>3. <<>> \in Seq(0..255) /\ <<>> \in Seq(TextBytes) /\ Len(<<>>) = 0
  OBVIOUS
<1>4. Shape(0, <<>>)
  BY DEF Shape
<1>5. ServerInv
  BY <1>1, <1>2 DEF WireInit, ServerInv, AtRest
<1>6. ValidatorInv
  BY <1>4 DEF WireInit, ValidatorInv, Utf8Accept, Utf8Reject
<1>7. ClientFrameUnderstood
  BY DEF WireInit, ClientFrameUnderstood
<1>8. WireTypeOK
  <2>1. Len(buffer) + length \in {2, 4, 8}
    BY <1>3 DEF WireInit
  <2>2. meant \in ServerFrames \cup {NoFrame} /\ frame \in FrameRecord
    BY <1>1 DEF WireInit
  <2>3. coming \in Seq(0..255) /\ buffer \in Seq(0..255) /\ char \in Seq(TextBytes)
    BY <1>3 DEF WireInit
  <2>4. out \in OutRecord /\ outBytes \in Seq(0..255)
    BY <1>1, <1>3 DEF WireInit
  <2>5. body = 0 /\ length = 2 /\ isText = FALSE /\ utf8 = 0
    BY DEF WireInit, Utf8Accept
  <2>6. body \in Nat /\ length \in Nat /\ isText \in BOOLEAN /\ utf8 \in Utf8States
    <3>1. isText \in BOOLEAN
      BY <2>5
    <3>2. body \in Nat /\ length \in Nat /\ utf8 \in Utf8States
      <4> DEFINE u == utf8
      <4>1. u = 0 /\ body = 0 /\ length = 2
        BY <2>5
      <4> QED
        BY <4>1 DEF Utf8States
    <3> QED
      BY <3>1, <3>2
  <2>7. part \in {"head", "size", "key", "body", "raised"}
    BY DEF WireInit
  <2> QED
    BY <2>1, <2>2, <2>3, <2>4, <2>6, <2>7 DEF WireTypeOK
<1> QED
  BY <1>5, <1>6, <1>7, <1>8 DEF WireInv

\* What the invariant says of a state.
LEMMA WireInvSays ==
  ASSUME WireInv
  PROVE  WireTypeOK /\ ServerFrameUnderstood /\ ClientFrameUnderstood /\ Utf8Agrees
<1>1. Utf8Agrees
  <2>1. CASE utf8 = Utf8Reject
    BY <2>1 DEF WireInv, ValidatorInv, Utf8Agrees, Utf8Accept, Utf8Reject
  <2>2. CASE utf8 # Utf8Reject
    <3>1. Shape(utf8, char)
      BY <2>2 DEF WireInv, ValidatorInv
    <3>2. /\ utf8 = 0 <=> char = <<>>
          /\ char # <<>> => BeginsCharacter(char)
      BY <3>1, ShapeBegins
    <3> QED
      BY <2>2, <3>2 DEF Utf8Agrees, Utf8Accept, Utf8Reject
  <2> QED
    BY <2>1, <2>2
<1>2. ServerFrameUnderstood
  <2>1. ASSUME NEW h, NEW c, NEW e, Reading(h, c, e)
        PROVE  coming # <<>> /\ part \notin {"raised", "body"}
    <3>1. buffer \in Seq(Byte) /\ length \in Nat /\ meant \in FrameRecord
      BY WireInvMeans DEF ParserTyped, Byte, WireInv, ServerInv
    <3>2. 1 \in 1..length
      BY <2>1, <3>1 DEF Reading
    <3>3. Taken(h, Start(part, e), Start(part, e) + Len(buffer), 1)
      BY <2>1, <3>1, <3>2, PieceTaken
    <3>4. 1 <= Len(coming)
      BY <3>3 DEF Taken
    <3>5. Len(<<>>) = 0
      OBVIOUS
    <3> QED
      BY <2>1, <3>4, <3>5 DEF Reading
  <2>2. CASE \E h, c, e : Reading(h, c, e)
    BY <2>1, <2>2 DEF ServerFrameUnderstood, Between
  <2>3. CASE AtRest
    BY <2>3 DEF AtRest, ServerFrameUnderstood, Between
  <2>4. CASE InBody
    <3>1. part = "body" /\ body # 0
      <4>1. length \in Nat
        BY WireInvMeans DEF ParserTyped
      <4> QED
        BY <2>4, <4>1 DEF InBody
    <3> QED
      BY <3>1 DEF ServerFrameUnderstood, Between
  <2>5. CASE Broken
    BY <2>5 DEF Broken, ServerFrameUnderstood, Between
  <2> QED
    BY <2>2, <2>3, <2>4, <2>5 DEF WireInv, ServerInv
<1> QED
  BY <1>1, <1>2 DEF WireInv

=============================================================================
