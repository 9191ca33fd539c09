------------------------------- MODULE MCVault -------------------------------
(* Model-checking instance of Vault: two instances of the program that      *)
(* interleave their operations on one vault of at most two records.         *)
EXTENDS Vault, TLC

Symmetry == Permutations(Procs) \cup Permutations(Names)
            \cup Permutations(Secrets) \cup Permutations(Passwords)
=============================================================================
