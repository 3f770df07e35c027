--------------------------- MODULE MCConfigStore ----------------------------
(***************************************************************************)
(* Two versions are saved over each other; the page is cut to four         *)
(* doublewords, the first, the last and two between.                       *)
(***************************************************************************)
EXTENDS ConfigStore, TLC

CONSTANTS v1, v2

Versions == {v1, v2}
Symmetric == Permutations(Versions)
=============================================================================
