---------------------------- MODULE MCLeadPending ----------------------------
(* Small instances of LeadPending: messages and hook slots are             *)
(* interchangeable, so the safety runs use their permutations.             *)
EXTENDS LeadPending, TLC

Symmetry == Permutations(Msgs) \cup Permutations(StopHooks)
=============================================================================
