----------------------------- MODULE MCCompression -----------------------------
(* Every combination of the options, among them windows that are too small, too
   large, or no numbers, and an extension the client does not know. *)
EXTENDS Compression

CONSTANTS u1, u2

Options ==
  [token : {"permessage-deflate"}, serverBits : {Absent, 8}, clientBits : {Absent, 8},
   serverReset : BOOLEAN, clientReset : BOOLEAN]

Offer(server, client) ==
  [token |-> "permessage-deflate", serverBits |-> server, clientBits |-> client,
   serverReset |-> FALSE, clientReset |-> FALSE]

Unknown == [Offer(Absent, Absent) EXCEPT !.token = "other"]

AllResponses ==
  {<<>>, <<Unknown>>, <<Offer(9, 10), Unknown>>,
   <<Offer(7, Absent)>>, <<Offer(Absent, 16)>>, <<Offer(-1, Absent)>>}
    \cup {<<x>> : x \in Options}

Defaults == {<<Offer(Absent, Absent)>>}
=============================================================================
