--------------------------------- MODULE Utf8 ---------------------------------
(***************************************************************************)
(* The automaton of utf8validator.py, by classes of bytes, and what UTF-8  *)
(* is: the shortest encodings of the code points but the surrogates.       *)
(***************************************************************************)
EXTENDS Integers, SequencesExt

Utf8Accept == 0
Utf8Reject == 1
Utf8States == 0..8

\* The first 256 entries of UTF8VALIDATOR_DFA.
Class(b) ==
  CASE b \in 0..127                 -> 0
    [] b \in 128..143               -> 1
    [] b \in 144..159               -> 9
    [] b \in 160..191               -> 7
    [] b \in {192, 193} \cup 245..255 -> 8
    [] b \in 194..223               -> 2
    [] b = 224                      -> 10
    [] b \in 225..239 \ {237}       -> 3
    [] b = 237                      -> 4
    [] b = 240                      -> 11
    [] b \in 241..243               -> 6
    [] b = 244                      -> 5

\* Mutant: after 0xe0 any byte that continues a character.
DfaOverlong(state, b) ==
  LET c == Class(b)
  IN  CASE state = 0 -> <<0, 1, 2, 3, 5, 8, 7, 1, 1, 1, 4, 6>>[c + 1]
        [] state = 2 /\ c \in {1, 7, 9} -> 0
        [] state \in {3, 4} /\ c \in {1, 7, 9} -> 2
        [] state = 5 /\ c \in {1, 9}    -> 2
        [] state = 6 /\ c \in {7, 9}    -> 3
        [] state = 7 /\ c \in {1, 7, 9} -> 3
        [] state = 8 /\ c = 1           -> 3
        [] OTHER -> Utf8Reject

\* The rest of the table: a row for each state.
Dfa(state, b) ==
  LET c == Class(b)
  IN  CASE state = 0 -> <<0, 1, 2, 3, 5, 8, 7, 1, 1, 1, 4, 6>>[c + 1]
        [] state = 2 /\ c \in {1, 7, 9} -> 0
        [] state = 3 /\ c \in {1, 7, 9} -> 2
        [] state = 4 /\ c = 7           -> 2
        [] state = 5 /\ c \in {1, 9}    -> 2
        [] state = 6 /\ c \in {7, 9}    -> 3
        [] state = 7 /\ c \in {1, 7, 9} -> 3
        [] state = 8 /\ c = 1           -> 3
        [] OTHER -> Utf8Reject

-----------------------------------------------------------------------------
(* The encoding *)

\* The first byte says how many there are, and has the first bits.
Size(b) ==
  CASE b < 128 -> 1 [] b \in 192..223 -> 2 [] b \in 224..239 -> 3
    [] b \in 240..247 -> 4 [] OTHER -> 0

\* The code point of a character that begins with these bytes, each of those
\* that are missing having these six bits.
CodePoint(bytes, rest) ==
  LET bits(i) == IF i <= Len(bytes) THEN bytes[i] % 64 ELSE rest
      lead == bytes[1]
  IN  CASE Size(lead) = 1 -> lead
        [] Size(lead) = 2 -> 64 * (lead % 32) + bits(2)
        [] Size(lead) = 3 -> 4096 * (lead % 16) + 64 * bits(2) + bits(3)
        [] Size(lead) = 4 -> 262144 * (lead % 8) + 4096 * bits(2) + 64 * bits(3) + bits(4)

\* From low to high there is a code point that takes n bytes.
HasCodePoint(n, low, high) ==
  CASE n = 1 -> low <= 127
    [] n = 2 -> low <= 2047 /\ high >= 128
    [] n = 3 -> (low <= 55295 /\ high >= 2048) \/ (low <= 65535 /\ high >= 57344)
    [] n = 4 -> low <= 1114111 /\ high >= 65536

\* These bytes begin a character, or are all of it.
BeginsCharacter(bytes) ==
  /\ Size(bytes[1]) >= Len(bytes)
  /\ \A i \in 2..Len(bytes) : bytes[i] \in 128..191
  /\ HasCodePoint(Size(bytes[1]), CodePoint(bytes, 0), CodePoint(bytes, 63))

IsCharacter(bytes) == BeginsCharacter(bytes) /\ Len(bytes) = Size(bytes[1])
=============================================================================
