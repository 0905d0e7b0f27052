------------------------------ MODULE MCMalloc ------------------------------
(***************************************************************************)
(* Malloc for TLC: two bucket sizes, so that a page serves either two      *)
(* objects or one; 4-byte pages hold two descriptors.                      *)
(***************************************************************************)
EXTENDS Malloc

MCSizes == <<2, 4>>
=============================================================================
