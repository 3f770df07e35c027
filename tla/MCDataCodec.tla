---------------------------- MODULE MCDataCodec -----------------------------
(***************************************************************************)
(* The decoder alone, on strings with lengths close to 65536 (252, 255, 3  *)
(* is the length 65532).  MessagePath has it on the messages of a packet.  *)
(***************************************************************************)
EXTENDS DataCodec

Wrapping == UNION {[1 .. m -> {18, 252, 255, 3, 0}] : m \in 0 .. 4}
=============================================================================
