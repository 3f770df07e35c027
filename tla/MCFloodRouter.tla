--------------------------- MODULE MCFloodRouter ----------------------------
(***************************************************************************)
(* A ring of three slots and six pairs, <<0, 0>> among them.  The flag     *)
(* bytes have no hop left, one hop, three hops, and no hop below set high  *)
(* bits (HopStart); 16 is a frame with no payload.                         *)
(***************************************************************************)
EXTENDS FloodRouter

MCNodeIds   == 0 .. 1
MCPacketIds == 0 .. 2
MCFlagBytes == {0, 1, 99, 96}
MCLengths   == {16, 40}
=============================================================================
