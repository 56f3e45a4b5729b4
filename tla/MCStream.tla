------------------------------- MODULE MCStream -------------------------------
(* The frames of a server that keeps to the protocol, and of others. *)
EXTENDS Stream

Frame(op, fin, body) ==
  [op |-> op, fin |-> fin, rsv |-> FALSE, mask |-> FALSE, huge |-> FALSE, body |-> body]

\* Texts in one frame or more, some with a character cut in two or spoilt.
TextFrames ==
  {Frame("text", TRUE, <<"a", "lead", "tail">>), Frame("text", TRUE, <<"lead">>),
   Frame("text", FALSE, <<>>), Frame("text", FALSE, <<"a", "lead">>),
   Frame("cont", FALSE, <<"tail">>), Frame("cont", TRUE, <<"tail", "a">>),
   Frame("cont", TRUE, <<"bad">>)}

OtherFrames ==
  {Frame("binary", FALSE, <<"bad">>), Frame("binary", TRUE, <<"bad", "tail">>)}

ControlFrames ==
  {Frame("ping", TRUE, <<"bad">>), Frame("close", TRUE, <<>>),
   Frame("close", TRUE, <<"a">>), Frame("close", TRUE, <<"a", "bad", "lead">>)}

BrokenFrames ==
  {Frame("ping", FALSE, <<>>), Frame("reserved", TRUE, <<>>),
   [Frame("text", TRUE, <<"a">>) EXCEPT !.rsv = TRUE],
   [Frame("text", TRUE, <<"a">>) EXCEPT !.mask = TRUE],
   [Frame("binary", TRUE, <<>>) EXCEPT !.huge = TRUE]}

AllFrames == TextFrames \cup OtherFrames \cup ControlFrames \cup BrokenFrames

LongPing == {Frame("ping", TRUE, <<"a", "a", "a">>)}
=============================================================================
