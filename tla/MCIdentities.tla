---- MODULE MCIdentities ----
(* A small instance of Identities for TLC. *)
EXTENDS Identities, TLC

\* "a/b" and "a//b", of which one is the entry's path.
Typed == {<<"a", "b">>, <<"a", "", "b">>}

Symm == Permutations(Names) \union Permutations(Procs)
====
