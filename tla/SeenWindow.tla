----------------------------- MODULE SeenWindow -----------------------------
(***************************************************************************)
(* What the deduplication of Mesh/flood_router.c promises, without a ring: *)
(* a router remembers the last SEEN_SIZE registrations, window[0] being    *)
(* the latest, and relays a packet when it is in none of them and may      *)
(* still hop.  Every packet received, and every packet the node itself     *)
(* originates, is registered.  out is what the last step put on the air.   *)
(***************************************************************************)
EXTENDS Integers

CONSTANTS SEEN_SIZE,    \* length of the window
          Header,       \* the headers that may be received
          Pairs,        \* the (from, id) pairs
          Blank,        \* what the window holds before the first packet
          Pair(_),      \* the pair of a header
          CanHop(_),    \* a header with hops left
          Hopped(_)     \* the header as it is relayed

VARIABLES window, out

Ages == 0 .. (SEEN_SIZE - 1)

Init == /\ window = [a \in Ages |-> Blank]
        /\ out = <<>>

Known(p) == \E a \in Ages : window[a] = p

Register(p) == window' = [a \in Ages |-> IF a = 0 THEN p ELSE window[a - 1]]

Relay(h) == /\ ~Known(Pair(h))
            /\ CanHop(h)
            /\ Register(Pair(h))
            /\ out' = <<Hopped(h)>>

Ignore(h) == /\ Known(Pair(h)) \/ ~CanHop(h)
             /\ Register(Pair(h))
             /\ out' = <<>>

Originate(p) == /\ Register(p)
                /\ out' = <<>>

Forget == /\ window' = [a \in Ages |-> Blank]
          /\ out' = <<>>

Next == \/ \E h \in Header : Relay(h) \/ Ignore(h)
        \/ \E p \in Pairs : Originate(p)
        \/ Forget

Spec == Init /\ [][Next]_<<window, out>>
=============================================================================
