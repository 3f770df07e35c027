---------------------------- MODULE ConfigStore ------------------------------
(***************************************************************************)
(* Config/config_store.c: the configuration in the last flash page,        *)
(* written by config_save doubleword by doubleword and read by config_load *)
(* at boot, with a power loss at any point.                                *)
(*                                                                         *)
(* A version is what a caller saves.  Doubleword i of version v is v: the  *)
(* contents only matter as to where they come from.  Doubleword 0 also     *)
(* holds the magic number, so the page has one if its doubleword 0 was     *)
(* programmed.  The flash is external: a doubleword is programmed at once  *)
(* and only when erased; an erase that fails or is cut by a power loss has *)
(* erased some of the page.                                                *)
(***************************************************************************)
EXTENDS Integers

CONSTANTS Version,      \* the configurations that are saved
          Default,      \* config_set_defaults
          Erased,       \* an erased doubleword
          N_DW,         \* doublewords of magic + device_config_t (8)
          MAX_SAVES     \* bound: calls of config_save

ASSUME StoreAssumption ==
    /\ Default \notin Version /\ Erased \notin Version \cup {Default}
    /\ N_DW \in Nat \ {0} /\ MAX_SAVES \in Nat

Dws == 0 .. N_DW - 1

VARIABLES page,         \* the flash page
          g_config,     \* the doublewords the program runs with
          pc,           \* "off", "run", "erase" or "program"
          src,          \* config_save: the version being written
          i,            \* config_save: the next doubleword
          saves,
          stored,       \* history: what the last save that returned true wrote
          begun         \* history: a save was begun after that one

vars == <<page, g_config, pc, src, i, saves, stored, begun>>

Whole(v) == [d \in Dws |-> v]

\* A new board: the page is erased and the processor about to boot.
Init ==
    /\ page = Whole(Erased)
    /\ g_config = Whole(Default)
    /\ pc = "off"
    /\ src = Default
    /\ i = 0
    /\ saves = 0
    /\ stored = Default
    /\ begun = FALSE

HasMagic(p) == p[0] # Erased

\* config_set_defaults and config_load in mesh_mini_init.
Boot ==
    /\ pc = "off"
    /\ g_config' = IF HasMagic(page) THEN page ELSE Whole(Default)
    /\ pc' = "run"
    /\ UNCHANGED <<page, src, i, saves, stored, begun>>

\* config_save, up to the erase; the flash may refuse to be unlocked.
Save(v) ==
    /\ pc = "run"
    /\ saves < MAX_SAVES
    /\ saves' = saves + 1
    /\ \/ /\ pc' = "erase"
          /\ src' = v
          /\ begun' = TRUE
       \/ UNCHANGED <<pc, src, begun>>
    /\ UNCHANGED <<page, g_config, i, stored>>

PartlyErased == {[d \in Dws |-> IF d \in some THEN Erased ELSE page[d]] :
                    some \in SUBSET Dws}

\* Mutation: the result of the erase is ignored.
EraseUnchecked ==
    /\ pc = "erase"
    /\ page' \in PartlyErased
    /\ pc' = "program" /\ i' = 0
    /\ UNCHANGED <<g_config, src, saves, stored, begun>>

Erase ==
    /\ pc = "erase"
    /\ \/ /\ page' = Whole(Erased)
          /\ pc' = "program" /\ i' = 0
       \/ /\ page' \in PartlyErased
          /\ pc' = "run"
          /\ UNCHANGED i
    /\ UNCHANGED <<g_config, src, saves, stored, begun>>

\* Mutations: the last doubleword is left out; one more is written.
LastDwEarly == N_DW - 2
LastDwLate == N_DW
LastDw == N_DW - 1

\* One turn of the loop; the flash refuses a doubleword that is not erased,
\* and may fail otherwise.  After the last one the save returns true.
Program ==
    /\ pc = "program"
    /\ \/ /\ page[i] = Erased
          /\ page' = [page EXCEPT ![i] = src]
          /\ i' = i + 1
          /\ IF i < LastDw
               THEN UNCHANGED <<pc, stored, begun>>
               ELSE pc' = "run" /\ stored' = src /\ begun' = FALSE
       \/ /\ pc' = "run"
          /\ UNCHANGED <<page, i, stored, begun>>
    /\ UNCHANGED <<g_config, src, saves>>

\* RAM is lost; an erase may be half done.
PowerLoss ==
    /\ pc # "off"
    /\ pc' = "off"
    /\ page' \in IF pc = "erase" THEN PartlyErased ELSE {page}
    /\ g_config' = Whole(Default) /\ src' = Default /\ i' = 0
    /\ UNCHANGED <<saves, stored, begun>>

Next == Boot \/ (\E v \in Version : Save(v)) \/ Erase \/ Program \/ PowerLoss

Spec == Init /\ [][Next]_vars

-----------------------------------------------------------------------------
\* The page holds doublewords that were saved, and config_save writes no
\* doubleword behind those of magic and device_config_t.
TypeOK ==
    /\ page \in [Dws -> Version \cup {Erased}]
    /\ g_config \in [Dws -> Version \cup {Erased, Default}]
    /\ pc \in {"off", "run", "erase", "program"}
    /\ src \in Version \cup {Default}
    /\ i \in 0 .. N_DW
    /\ pc = "program" => i \in Dws
    /\ saves \in 0 .. MAX_SAVES
    /\ stored \in Version \cup {Default}
    /\ begun \in BOOLEAN

\* A save that returned true is in the flash for good: it is what every boot
\* loads until another save erases it, however often the power is lost.
SavedIsKept == ~begun => page = Whole(IF stored = Default THEN Erased ELSE stored)

\* Saves that fail or are cut off, in any number, never leave parts of two
\* configurations in the page: a boot finds one version, perhaps with holes.
OneVersion ==
    \A d, e \in Dws : page[d] # Erased /\ page[e] # Erased => page[d] = page[e]
=============================================================================
