-------------------------- MODULE MCCaseEscalation --------------------------
(***************************************************************************)
(* Finite instances of CaseEscalation for TLC.  The slots of the           *)
(* background tasks are interchangeable.                                   *)
(***************************************************************************)
EXTENDS CaseEscalation, TLC

Interchangeable == Permutations(Slots)

=============================================================================
