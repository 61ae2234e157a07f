---------------------------- MODULE MCConfigFile -----------------------------
(* Instances of ConfigFile for TLC. *)
EXTENDS ConfigFile, TLC

\* Processes, inodes and settings are interchangeable: safety runs only.
Symmetry == Permutations(Procs) \cup Permutations(Inodes) \cup Permutations(Items)
=============================================================================
