--------------------------- MODULE MCPartyManager ---------------------------
(* Small instances of PartyManager for TLC. *)
EXTENDS PartyManager, TLC

\* Users and generations are only compared for equality.
Symmetry == Permutations(Users) \cup Permutations(Gens)
=============================================================================
