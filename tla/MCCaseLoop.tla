----------------------------- MODULE MCCaseLoop -----------------------------
(***************************************************************************)
(* Instances of CaseLoop for TLC.                                          *)
(***************************************************************************)
EXTENDS CaseLoop, TLC

\* Runs are interchangeable, and so are the resolves; the keys are not when
\* they differ in owner or in being repeatable.  Safety runs only.
Symmetric == Permutations(Run) \cup Permutations(Desk)
=============================================================================
