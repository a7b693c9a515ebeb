------------------------------- MODULE MCDemos -------------------------------
(* Instances of the protocol demos for TLC. *)
EXTENDS Demos

CONSTANTS a, b

\* Empty; one payload; two payloads, whose halves are not in the buffer; three
\* payloads, of which the client keeps two and whose halves are too long.
MCFiles == {<<>>, <<a, b, b>>, <<b, a, a, b>>, <<a, b, b, a, b, b, a>>}

\* A client that never has the password, at once, or the second time.
MCAttempts ==
  {[k \in 1..3 |-> k = n] : n \in {0, 1, 2}}

\* Each disturbance alone, or with those it is likely to meet, and all at once.
MCDatagramFaults ==
  {{}, {"lose", "duplicate", "reorder"}, {"delay"}, {"duplicate", "other"}, {"rename"},
   {"lose", "duplicate", "reorder", "delay", "other"}}

MCStreamFaults ==
  {{}, {"merge"}, {"stop"}, {"reset"}, {"delay"}, {"other"}, {"rename"},
   {"merge", "stop", "reset", "delay", "other", "rename"}}

\* Bytes of a packet: 0, 1 and 3 for lengths and types that are nearly right, and the
\* largest with which a length field stays an integer of TLC.
MCByte == {0, 1, 3, 127}
\* One byte, and an identifier of which each byte is different.
MCIds == {1, 16909060}

\* Messages of every length up to two blocks and a half, and one whose number of bits
\* needs both bytes of the length; pieces of less than a block, a block, and more.
MCSizes == 0..20 \cup {33}
MCPieces == {1, 3, 5, 8, 11}

Request(head, length, body) ==
  [head |-> head, length |-> length, body |-> body, wellFormed |-> TRUE]

\* Without a body, with one, with one that fills the buffer, one that does not fit,
\* one that is refused, one that is longer than announced, one shorter, a head that
\* does not fit, and one that cannot be parsed.
MCRequests ==
  {Request(2, -1, 0), Request(2, 1, 1), Request(2, 3, 3), Request(2, 4, 4),
   Request(2, 7, 7), Request(2, 1, 2), Request(2, 2, 1), Request(6, -1, 0),
   [Request(1, -1, 0) EXCEPT !.wellFormed = FALSE]}
=============================================================================
