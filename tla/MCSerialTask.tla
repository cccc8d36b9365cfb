---------------------------- MODULE MCSerialTask ----------------------------
(***************************************************************************)
(* SerialTask with a ring of 4 bytes and messages of 2 digits and a line   *)
(* end: as with 256 bytes and 15, one wipe is one byte more than a number  *)
(* of whole messages.  A failing line delivers a line end, a digit no      *)
(* message has (upper case, while the host sends lower case) or a          *)
(* character the parser ignores.                                           *)
(***************************************************************************)
EXTENDS SerialTask

MCNoise == {CR, 70, 103}

LineBytes == {0, LF} \cup MCNoise \cup {HexChar(m) : m \in 1 .. Messages}

=============================================================================
