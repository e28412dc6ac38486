------------------------------ MODULE MCOpLog ------------------------------
(* Small instances of OpLog for TLC. *)
EXTENDS OpLog, TLC

Symm == Permutations(Changes) \cup Permutations(Procs) \cup Permutations(Secondary)

=============================================================================
