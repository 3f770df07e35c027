------------------------------ MODULE FloodOps ------------------------------
(***************************************************************************)
(* The operations of Mesh/flood_router.c as operators on a router, i.e. on *)
(* the two static variables seen_buf and seen_head of that file: a ring of *)
(* SEEN_SIZE (from_id, packet_id) pairs and the slot the next pair is      *)
(* written to.  The bss section is zeroed at boot, so a slot nobody wrote  *)
(* holds the pair <<0, 0>>, which the code cannot tell from a real packet. *)
(*                                                                         *)
(* A header is a record with at least the fields from, id, flags and relay.*)
(***************************************************************************)
EXTENDS Integers

CONSTANT SEEN_SIZE

ASSUME SeenSizeAssumption == SEEN_SIZE \in Nat \ {0}

MESH_HEADER_SIZE == 16

Slots == 0 .. (SEEN_SIZE - 1)

ZeroPair == <<0, 0>>

PairOf(h) == <<h.from, h.id>>

EmptyRouter == [buf |-> [i \in Slots |-> ZeroPair], head |-> 0]

\* Mutation: the head is not taken modulo the size.
FloodSeenNoWrap(r, p) == [buf |-> [r.buf EXCEPT ![r.head] = p], head |-> r.head + 1]
\* Mutation: the head stays where it is.
FloodSeenOneSlot(r, p) == [r EXCEPT !.buf[r.head] = p]
\* Write the pair at the head, whether or not it is in the ring already.
FloodSeen(r, p) ==
    [buf |-> [r.buf EXCEPT ![r.head] = p], head |-> (r.head + 1) % SEEN_SIZE]

\* Mutation: the last slot is not searched.
FloodWasSeenShort(r, p) == \E i \in 0 .. (SEEN_SIZE - 2) : r.buf[i] = p

FloodWasSeen(r, p) == \E i \in Slots : r.buf[i] = p

\* flags & 0x0F
MeshHopLimit(flags) == flags % 16

\* Mutation: seen packets are relayed again.
ForwardSeenToo(r, h, len) ==
    len >= MESH_HEADER_SIZE /\ MeshHopLimit(h.flags) # 0

\* Mutation: the last hop is not taken.
ForwardTwoHops(r, h, len) ==
    /\ len >= MESH_HEADER_SIZE
    /\ ~FloodWasSeen(r, PairOf(h))
    /\ MeshHopLimit(h.flags) > 1

\* Mutation: a packet with no hop left is relayed.
ForwardNoHop(r, h, len) ==
    len >= MESH_HEADER_SIZE /\ ~FloodWasSeen(r, PairOf(h))

\* Reads the ring only: it registers nothing and decrements nothing.
FloodShouldForward(r, h, len) ==
    /\ len >= MESH_HEADER_SIZE
    /\ ~FloodWasSeen(r, PairOf(h))
    /\ MeshHopLimit(h.flags) # 0

\* Mutation: a hop is added.
PrepareHopAdded(h, my_node_id) ==
    [h EXCEPT !.flags = @ + 1, !.relay = my_node_id % 256]

\* One hop less in the low four bits (the high ones are kept), and the low
\* byte of this node's id as the relay.
FloodPrepareForward(h, my_node_id) ==
    LET hop == MeshHopLimit(h.flags)
        left == IF hop > 0 THEN hop - 1 ELSE hop
    IN  [h EXCEPT !.flags = (h.flags - hop) + left, !.relay = my_node_id % 256]
=============================================================================
