------------------------- MODULE ConfigStore_proofs --------------------------
(***************************************************************************)
(* For every set of configurations and every size of one: the types of     *)
(* ConfigStore, and that a save which returned true survives every power   *)
(* loss while one that did not never mixes two configurations.             *)
(*                                                                         *)
(* SavedIsKept and OneVersion are not inductive by themselves: what makes  *)
(* the step after the last doubleword right is that config_save works on   *)
(* an erased page from the first doubleword on.  InProgress says so.       *)
(***************************************************************************)
EXTENDS ConfigStore, TLAPS

\* A save in progress has been noted, and the page holds what it has written:
\* the doublewords before i, and nothing behind them.
InProgress ==
    /\ pc \in {"erase", "program"} => begun /\ src \in Version
    /\ pc = "program" => page = [d \in Dws |-> IF d < i THEN src ELSE Erased]

IInv == TypeOK /\ InProgress /\ SavedIsKept /\ OneVersion

USE StoreAssumption DEF StoreAssumption

-----------------------------------------------------------------------------
\* What an erase leaves is a page, and has no doubleword the page had not.
LEMMA PartlyErasedLemma ==
    ASSUME TypeOK, NEW p \in PartlyErased
    PROVE  /\ p \in [Dws -> Version \cup {Erased}]
           /\ \A d \in Dws : p[d] = Erased \/ p[d] = page[d]
  BY DEF PartlyErased, TypeOK

LEMMA PartlyErasedOneVersion ==
    ASSUME TypeOK, OneVersion, page' \in PartlyErased
    PROVE  OneVersion'
  <1>1. \A d \in Dws : page'[d] = Erased \/ page'[d] = page[d]
    BY PartlyErasedLemma
  <1>2. QED  BY <1>1 DEF OneVersion

LEMMA InitEstablishes == Init => IInv
  <1> SUFFICES ASSUME Init PROVE IInv
    OBVIOUS
  <1>1. page = Whole(Erased) /\ page = [d \in Dws |-> Erased]
    BY DEF Init, Whole
  <1>2. TypeOK
    <2>1. page \in [Dws -> Version \cup {Erased}]
      BY <1>1
    <2>2. g_config \in [Dws -> Version \cup {Erased, Default}]
      BY DEF Init, Whole
    <2>3. i \in 0 .. N_DW /\ saves \in 0 .. MAX_SAVES
      BY DEF Init
    <2>4. QED  BY <2>1, <2>2, <2>3 DEF Init, TypeOK
  <1>3. InProgress  BY DEF Init, InProgress
  <1>4. SavedIsKept  BY DEF Init, SavedIsKept
  <1>5. OneVersion  BY <1>1 DEF OneVersion
  <1>6. QED  BY <1>2, <1>3, <1>4, <1>5 DEF IInv

\* The type invariant, one step per action.
LEMMA StepKeepsType == IInv /\ [Next]_vars => TypeOK'
  <1> SUFFICES ASSUME IInv, [Next]_vars PROVE TypeOK'
    OBVIOUS
  <1> USE DEF IInv
  <1>1. CASE Boot  BY <1>1 DEF Boot, TypeOK, Whole
  <1>2. CASE \E v \in Version : Save(v)
    <2>1. PICK v \in Version : Save(v)
      BY <1>2
    <2>2. saves' \in 0 .. MAX_SAVES
      BY <2>1 DEF Save, TypeOK
    <2>3. /\ pc' \in {"run", "erase"}
          /\ src' \in Version \cup {Default}
          /\ begun' \in BOOLEAN
      BY <2>1 DEF Save, TypeOK
    <2>4. QED  BY <2>1, <2>2, <2>3 DEF Save, TypeOK
  <1>3. CASE Erase
    <2>1. page' \in [Dws -> Version \cup {Erased}]
      BY <1>3, PartlyErasedLemma DEF Erase, Whole
    <2>2. i' \in 0 .. N_DW /\ (pc' = "program" => i' \in Dws)
      BY <1>3 DEF Erase, TypeOK, Dws
    <2>3. QED  BY <1>3, <2>1, <2>2 DEF Erase, TypeOK
  <1>4. CASE Program
    <2>1. i \in Dws /\ src \in Version
      BY <1>4 DEF Program, TypeOK, InProgress
    <2>2. page' \in [Dws -> Version \cup {Erased}]
      BY <1>4, <2>1 DEF Program, TypeOK
    <2>3. i' \in 0 .. N_DW /\ (pc' = "program" => i' \in Dws)
      BY <1>4, <2>1 DEF Program, TypeOK, Dws, LastDw
    <2>4. QED  BY <1>4, <2>2, <2>3 DEF Program, TypeOK
  <1>5. CASE PowerLoss
    <2>1. page' \in [Dws -> Version \cup {Erased}]
      BY <1>5, PartlyErasedLemma DEF PowerLoss, TypeOK
    <2>2. QED  BY <1>5, <2>1 DEF PowerLoss, TypeOK, Whole
  <1>6. CASE UNCHANGED vars  BY <1>6 DEF vars, TypeOK
  <1>7. QED  BY <1>1, <1>2, <1>3, <1>4, <1>5, <1>6 DEF Next

\* A save starts on an erased page and writes it from the first doubleword on.
LEMMA StepKeepsProgress == IInv /\ [Next]_vars => InProgress'
  <1> SUFFICES ASSUME IInv, [Next]_vars PROVE InProgress'
    OBVIOUS
  <1> USE DEF IInv
  <1>1. CASE Boot  BY <1>1 DEF Boot, InProgress
  <1>2. CASE \E v \in Version : Save(v)
    BY <1>2 DEF Save, InProgress
  <1>3. CASE Erase
    <2>1. CASE pc' = "program"
      <3>1. page' = [d \in Dws |-> Erased] /\ i' = 0 /\ begun' /\ src' \in Version
        BY <1>3, <2>1 DEF Erase, Whole, InProgress
      <3>2. page' = [d \in Dws |-> IF d < i' THEN src' ELSE Erased]
        BY <3>1 DEF Dws
      <3>3. QED  BY <3>1, <3>2 DEF InProgress
    <2>2. CASE pc' = "run"  BY <2>2 DEF InProgress
    <2>3. QED  BY <1>3, <2>1, <2>2 DEF Erase
  <1>4. CASE Program
    <2>1. CASE pc' = "program"
      <3>1. i \in Dws /\ src' = src /\ src \in Version /\ begun /\ begun'
        BY <1>4, <2>1 DEF Program, TypeOK, InProgress
      <3>2. page = [d \in Dws |-> IF d < i THEN src ELSE Erased]
        BY <1>4 DEF Program, InProgress
      <3>3. page' = [page EXCEPT ![i] = src] /\ i' = i + 1
        BY <1>4, <2>1 DEF Program
      <3>4. page' = [d \in Dws |-> IF d < i' THEN src' ELSE Erased]
        BY <3>1, <3>2, <3>3 DEF Dws
      <3>5. QED  BY <3>1, <3>4 DEF InProgress
    <2>2. CASE pc' = "run"  BY <2>2 DEF InProgress
    <2>3. QED  BY <1>4, <2>1, <2>2 DEF Program
  <1>5. CASE PowerLoss  BY <1>5 DEF PowerLoss, InProgress
  <1>6. CASE UNCHANGED vars  BY <1>6 DEF vars, InProgress
  <1>7. QED  BY <1>1, <1>2, <1>3, <1>4, <1>5, <1>6 DEF Next

\* Only the last doubleword ends a save with true, and then all are written.
LEMMA StepKeepsSaved == IInv /\ [Next]_vars => SavedIsKept'
  <1> SUFFICES ASSUME IInv, [Next]_vars PROVE SavedIsKept'
    OBVIOUS
  <1> USE DEF IInv
  <1>1. CASE Boot  BY <1>1 DEF Boot, SavedIsKept, Whole
  <1>2. CASE \E v \in Version : Save(v)
    BY <1>2 DEF Save, SavedIsKept, Whole
  <1>3. CASE Erase
    BY <1>3 DEF Erase, SavedIsKept, InProgress
  <1>4. CASE Program
    <2>1. CASE begun'  BY <2>1 DEF SavedIsKept
    <2>2. CASE ~begun'
      <3>1. begun /\ i \in Dws /\ src \in Version
        BY <1>4 DEF Program, InProgress, TypeOK
      <3>2. page = [d \in Dws |-> IF d < i THEN src ELSE Erased]
        BY <1>4 DEF Program, InProgress
      <3>3. page' = [page EXCEPT ![i] = src] /\ stored' = src /\ ~(i < LastDw)
        BY <1>4, <2>2, <3>1 DEF Program
      <3>4. page' = Whole(src)
        BY <3>1, <3>2, <3>3 DEF Dws, LastDw, Whole
      <3>5. QED  BY <3>1, <3>3, <3>4 DEF SavedIsKept, Whole
    <2>3. QED  BY <2>1, <2>2
  <1>5. CASE PowerLoss
    BY <1>5 DEF PowerLoss, SavedIsKept, InProgress, Whole
  <1>6. CASE UNCHANGED vars  BY <1>6 DEF vars, SavedIsKept, Whole
  <1>7. QED  BY <1>1, <1>2, <1>3, <1>4, <1>5, <1>6 DEF Next

LEMMA StepKeepsOneVersion == IInv /\ [Next]_vars => OneVersion'
  <1> SUFFICES ASSUME IInv, [Next]_vars PROVE OneVersion'
    OBVIOUS
  <1> USE DEF IInv
  <1>1. CASE Boot  BY <1>1 DEF Boot, OneVersion
  <1>2. CASE \E v \in Version : Save(v)
    BY <1>2 DEF Save, OneVersion
  <1>3. CASE Erase
    <2>1. CASE page' = Whole(Erased)  BY <2>1 DEF OneVersion, Whole
    <2>2. CASE page' \in PartlyErased  BY <2>2, PartlyErasedOneVersion
    <2>3. QED  BY <1>3, <2>1, <2>2 DEF Erase
  <1>4. CASE Program
    <2>1. CASE page' = page  BY <2>1 DEF OneVersion
    <2>2. CASE page' = [page EXCEPT ![i] = src]
      <3>1. page = [d \in Dws |-> IF d < i THEN src ELSE Erased]
        BY <1>4 DEF Program, InProgress
      <3>2. \A d \in Dws : page'[d] \in {src, Erased}
        BY <2>2, <3>1
      <3>3. QED  BY <3>2 DEF OneVersion
    <2>3. QED  BY <1>4, <2>1, <2>2 DEF Program
  <1>5. CASE PowerLoss
    <2>1. CASE page' = page  BY <2>1 DEF OneVersion
    <2>2. CASE page' \in PartlyErased  BY <2>2, PartlyErasedOneVersion
    <2>3. QED  BY <1>5, <2>1, <2>2 DEF PowerLoss
  <1>6. CASE UNCHANGED vars  BY <1>6 DEF vars, OneVersion
  <1>7. QED  BY <1>1, <1>2, <1>3, <1>4, <1>5, <1>6 DEF Next

LEMMA Inductive == Spec => []IInv
  <1>1. IInv /\ [Next]_vars => IInv'
    BY StepKeepsType, StepKeepsProgress, StepKeepsSaved, StepKeepsOneVersion
       DEF IInv
  <1>2. QED  BY InitEstablishes, <1>1, PTL DEF Spec

-----------------------------------------------------------------------------
\* The page holds doublewords of configurations that were saved, and the loop
\* of config_save writes none behind the last (config_store.c:79-84).
THEOREM StoreTypeCorrect == Spec => []TypeOK
  <1>1. IInv => TypeOK  BY DEF IInv
  <1>2. QED  BY Inductive, <1>1, PTL

\* Whatever config_save returned true for is what every later boot loads until
\* another save begins (config_store.c:51-89 and config_load).
THEOREM SavedSurvives == Spec => []SavedIsKept
  <1>1. IInv => SavedIsKept  BY DEF IInv
  <1>2. QED  BY Inductive, <1>1, PTL

\* Failed erases, failed doublewords and power losses in any number leave
\* pieces of one configuration at most.
THEOREM NeverMixed == Spec => []OneVersion
  <1>1. IInv => OneVersion  BY DEF IInv
  <1>2. QED  BY Inductive, <1>1, PTL
=============================================================================
