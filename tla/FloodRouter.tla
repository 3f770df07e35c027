---------------------------- MODULE FloodRouter -----------------------------
(***************************************************************************)
(* One node's flood router, driven as mesh_mini_loop and send_lora_packet  *)
(* drive it: the loop decides (flood_should_forward), then registers       *)
(* (flood_seen), then relays if it had decided to; an own packet is        *)
(* registered when it is sent.  The calls of one received packet run in    *)
(* the main loop with nothing else touching the ring, except the pong of   *)
(* the same packet; module MeshNetwork has that interleaving.              *)
(*                                                                         *)
(* The history variable since counts, for each pair, the registrations     *)
(* after its latest one, up to SEEN_SIZE; SEEN_SIZE also stands for "not   *)
(* since boot".                                                            *)
(***************************************************************************)
EXTENDS FloodOps, Sequences

CONSTANTS NodeIds,      \* from_id values met on the air
          PacketIds,    \* packet_id values met on the air
          FlagBytes,    \* flags bytes met on the air
          Lengths,      \* frame lengths, as lora_rx_poll returns them
          MyNodeId      \* this node's id

ASSUME IdsAssumption ==
    /\ NodeIds \subseteq Nat
    /\ PacketIds \subseteq Nat
    /\ FlagBytes \subseteq 0 .. 255
    /\ Lengths \subseteq 0 .. 256
    /\ MyNodeId \in NodeIds

VARIABLES router, out, since

vars == <<router, out, since>>

Pairs  == NodeIds \X PacketIds
Header == [from : NodeIds, id : PacketIds, flags : FlagBytes, relay : {0}]
\* A relayed header: what FloodPrepareForward makes of one.
Relayed == [from : NodeIds, id : PacketIds, flags : 0 .. 255, relay : 0 .. 255]

Age(n) == IF n < SEEN_SIZE THEN n + 1 ELSE n

Count(p) == since' = [q \in Pairs |-> IF q = p THEN 0 ELSE Age(since[q])]

Init == /\ router = EmptyRouter
        /\ out = <<>>
        /\ since = [p \in Pairs |-> SEEN_SIZE]

\* mesh_mini_loop returns at once on a frame that has no payload.
Receive(h, len) ==
    /\ len > MESH_HEADER_SIZE
    /\ router' = FloodSeen(router, PairOf(h))
    /\ out' = IF FloodShouldForward(router, h, len)
                THEN <<FloodPrepareForward(h, MyNodeId)>>
                ELSE <<>>
    /\ Count(PairOf(h))

\* send_lora_packet registers the packet it sends.
Originate(id) ==
    /\ router' = FloodSeen(router, <<MyNodeId, id>>)
    /\ out' = <<>>
    /\ Count(<<MyNodeId, id>>)

Reboot ==
    /\ router' = EmptyRouter
    /\ out' = <<>>
    /\ since' = [p \in Pairs |-> SEEN_SIZE]

Next == \/ \E h \in Header, len \in Lengths : Receive(h, len)
        \/ \E id \in PacketIds : Originate(id)
        \/ Reboot

Spec == Init /\ [][Next]_vars

-----------------------------------------------------------------------------
\* The slot that holds the registration a registrations ago.
SlotAt(a) == IF a < router.head
               THEN router.head - 1 - a
               ELSE router.head - 1 - a + SEEN_SIZE

TypeOK ==
    /\ router \in [buf : [Slots -> Pairs \cup {ZeroPair}], head : Slots]
    /\ out = <<>> \/ \E h \in Relayed : out = <<h>>
    /\ since \in [Pairs -> 0 .. SEEN_SIZE]

\* The ring answers exactly "registered among the last SEEN_SIZE": a packet is
\* reported as seen if and only if fewer than SEEN_SIZE registrations (the
\* repeated ones count) came after its own.  The pair <<0, 0>> is left out: at
\* boot the zeroed slots report it as seen though nobody sent it.
RingIsWindow ==
    \A p \in Pairs \ {ZeroPair} :
        FloodWasSeen(router, p) <=> since[p] < SEEN_SIZE

\* A packet goes back on the air only if SEEN_SIZE registrations came after
\* the last time this node met it (or it was never met since boot): no copy
\* that arrives while the packet is among the last SEEN_SIZE is relayed.
NoEarlyRepeat ==
    [][\A h \in Header, len \in Lengths :
          Receive(h, len) /\ out' # <<>> => since[PairOf(h)] = SEEN_SIZE]_vars

\* Conversely, a packet that can hop and was not among the last SEEN_SIZE is
\* relayed, whatever else fills the ring (again <<0, 0>> is the exception).
FreshIsRelayed ==
    [][\A h \in Header, len \in Lengths :
          /\ Receive(h, len)
          /\ PairOf(h) # ZeroPair
          /\ MeshHopLimit(h.flags) # 0
          /\ since[PairOf(h)] = SEEN_SIZE
          => /\ out' # <<>>
             /\ MeshHopLimit(out'[1].flags) = MeshHopLimit(h.flags) - 1
             /\ out'[1].flags \div 16 = h.flags \div 16]_vars

-----------------------------------------------------------------------------
\* The ring implements the window of SeenWindow: age a is found at SlotAt(a).
CanHop(h) == MeshHopLimit(h.flags) # 0
Hopped(h) == FloodPrepareForward(h, MyNodeId)

Window == INSTANCE SeenWindow
    WITH Blank  <- ZeroPair,
         Pair   <- PairOf,
         window <- [a \in Slots |-> router.buf[SlotAt(a)]]

\* Every behaviour of the ring, seen through SlotAt, is one of the window.
ImplementsWindow == Window!Spec
=============================================================================
