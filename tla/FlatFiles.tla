------------------------------ MODULE FlatFiles ------------------------------
(***************************************************************************)
(* What the writes to a change's tree through the daemon promise           *)
(* (ARCHITECTURE.md:416-418, tree_edit.rs:1-17): the tree is a set of     *)
(* files by path, and a write or a delete touches the files at and below   *)
(* its path and no others.                                                 *)
(***************************************************************************)
EXTENDS Sequences, SequencesExt

CONSTANTS
  Paths,   \* paths a request may name
  Leaves   \* what a request may write

VARIABLE files  \* from paths to leaves

Below(path) == {q \in DOMAIN files : IsPrefix(path, q)}
Through(path) == {q \in DOMAIN files : IsStrictPrefix(q, path)}

\* A file takes the place of whatever was at its path, but no file becomes a
\* directory.
Put(path, leaf) ==
  /\ Through(path) = {}
  /\ files' = [q \in (DOMAIN files \ Below(path)) \cup {path} |->
                 IF q = path THEN leaf ELSE files[q]]

\* A file, or a directory with all its files.
Delete(path) ==
  files' = [q \in DOMAIN files \ Below(path) |-> files[q]]

Next == \E path \in Paths : Delete(path) \/ \E leaf \in Leaves : Put(path, leaf)

Spec == [][Next]_files
=============================================================================
