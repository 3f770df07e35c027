--------------------------- MODULE MCMeshNetwork ----------------------------
(***************************************************************************)
(* An instance of MeshNetwork: two devices side by side with different     *)
(* ids, until a user gives one of them the id of the other.                *)
(***************************************************************************)
EXTENDS MeshNetwork, TLC

CONSTANTS a, b

Pair2   == {a, b}
HearP2  == (a :> {b}) @@ (b :> {a})
IdsPair == (a :> 1) @@ (b :> 2)
SetOne  == {1}

TextLong  == {"hello", "long"}
LongOnly  == {"long"}
=============================================================================
