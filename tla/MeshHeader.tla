----------------------------- MODULE MeshHeader ------------------------------
(***************************************************************************)
(* Mesh/mesh_packet.c: the 16 bytes in front of every packet.  A 32-bit    *)
(* field is the pair of its 16-bit halves; a buffer is a function from     *)
(* offsets to bytes.                                                       *)
(***************************************************************************)
EXTENDS Integers

Byte    == 0 .. 255
HALF_MAX == 65535
Half    == 0 .. HALF_MAX
Word    == [lo : Half, hi : Half]
Offsets == 0 .. 15

Header == [to : Word, from : Word, id : Word,
           flags : Byte, channel : Byte, next_hop : Byte, relay : Byte]

MESH_BROADCAST_ID == [lo |-> 65535, hi |-> 65535]

\* The little-endian field at offset i.
WordAt(buf, i) == [lo |-> buf[i] + 256 * buf[i + 1],
                   hi |-> buf[i + 2] + 256 * buf[i + 3]]

mesh_header_from_buf(buf) ==
    [to       |-> WordAt(buf, 0),
     from     |-> WordAt(buf, 4),
     id       |-> WordAt(buf, 8),
     flags    |-> buf[12],
     channel  |-> buf[13],
     next_hop |-> buf[14],
     relay    |-> buf[15]]

\* Byte j of a field: (w >> 8j) & 0xFF.
ByteOf(w, j) == CASE j = 0 -> w.lo % 256
                  [] j = 1 -> w.lo \div 256
                  [] j = 2 -> w.hi % 256
                  [] j = 3 -> w.hi \div 256

\* Mutation: the packet id is written high half first.
HeaderSwappedId(h) ==
    [i \in Offsets |->
        CASE i \in 0 .. 3  -> ByteOf(h.to, i)
          [] i \in 4 .. 7  -> ByteOf(h.from, i - 4)
          [] i \in 8 .. 11 -> ByteOf(h.id, (i - 6) % 4)
          [] i = 12 -> h.flags
          [] i = 13 -> h.channel
          [] i = 14 -> h.next_hop
          [] i = 15 -> h.relay]

mesh_header_to_buf(h) ==
    [i \in Offsets |->
        CASE i \in 0 .. 3  -> ByteOf(h.to, i)
          [] i \in 4 .. 7  -> ByteOf(h.from, i - 4)
          [] i \in 8 .. 11 -> ByteOf(h.id, i - 8)
          [] i = 12 -> h.flags
          [] i = 13 -> h.channel
          [] i = 14 -> h.next_hop
          [] i = 15 -> h.relay]
=============================================================================
