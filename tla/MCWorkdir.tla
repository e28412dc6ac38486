----------------------------- MODULE MCWorkdir -----------------------------
(* Small instances of Workdir for TLC. *)
EXTENDS Workdir, TLC

Symm == Permutations(Files) \cup Permutations(Contents)
=============================================================================
