------------------------------- MODULE MCSched -------------------------------
(***************************************************************************)
(* Sched for TLC: pages are interchangeable, so their permutations are     *)
(* symmetries of the safety runs.                                          *)
(***************************************************************************)
EXTENDS SchedInv, FiniteSets, TLC

GarbledMax == 1   \* bound: creations with a lost register at a time

FewGarbled == Cardinality(garbled) <= GarbledMax

PageSymmetry == Permutations(Page)
=============================================================================
