----------------------------- MODULE CaseLedger -----------------------------
(***************************************************************************)
(* What casefile.py promises of cross-run identity: a problem is absent,   *)
(* then open, then settled.  A run may open any set of problems nobody has *)
(* raised before, together; a person settles one at a time; nothing takes  *)
(* a case back.                                                            *)
(***************************************************************************)
CONSTANT Key

VARIABLE ledger

TypeOK == ledger \in [Key -> {"absent", "open", "settled"}]

Init == ledger = [k \in Key |-> "absent"]

\* One reconciliation: the new problems it found are opened together.
Open(fresh) ==
  /\ \A k \in fresh : ledger[k] = "absent"
  /\ ledger' = [k \in Key |-> IF k \in fresh THEN "open" ELSE ledger[k]]

\* One resolve.
Settle(k) ==
  /\ ledger[k] = "open"
  /\ ledger' = [ledger EXCEPT ![k] = "settled"]

Next ==
  \/ \E fresh \in SUBSET Key : Open(fresh)
  \/ \E k \in Key : Settle(k)

Spec == Init /\ [][Next]_ledger
=============================================================================
