---------------------------- MODULE MCAuditTrail ----------------------------
(***************************************************************************)
(* Instances of AuditTrail for TLC.                                        *)
(***************************************************************************)
EXTENDS AuditTrail

\* Workers are interchangeable, and so are handlers and exceptions.
McSymmetry == Permutations(Worker) \cup Permutations(Desk) \cup Permutations(Item)
=============================================================================
