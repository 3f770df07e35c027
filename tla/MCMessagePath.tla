--------------------------- MODULE MCMessagePath ----------------------------
(***************************************************************************)
(* Two devices and a relay.  Texts up to the limit of the encoder's length *)
(* byte, some of which look like fields; every Data message of up to four  *)
(* bytes over tags of all kinds, lengths and varint continuations.         *)
(***************************************************************************)
EXTENDS MessagePath, TLC

CONSTANTS n1, n2

Two     == {n1, n2}
First   == {n1}
Ids     == (n1 :> [lo |-> 4660, hi |-> 22136]) @@ (n2 :> [lo |-> 2, hi |-> 0])
LongUp  == [lo |-> 65535, hi |-> 258]
Relays  == {770}

Filled(n, b) == [i \in 1 .. n |-> b]
\* The empty text, one that fills a block and looks like fields, the longest,
\* and one that is refused.
MCTexts == {<<>>, Filled(60, 18), Filled(127, 104), Filled(128, 104)}

Strings(alphabet, n) == UNION {[1 .. m -> alphabet] : m \in 1 .. n}

\* Field 1 as varint, field 2 as bytes, field 3 as fixed32 and fixed64, a group.
Short == Strings({8, 18, 29, 25, 19, 0, 2, 130, 255}, 4)
=============================================================================
