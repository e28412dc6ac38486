------------------------------- MODULE Ledger -------------------------------
(***************************************************************************)
(* What the write lock promises: a command that changes refs does it in    *)
(* one step, together with the record of what they were and became.  Once  *)
(* a process has died a command may also change refs that no record tells  *)
(* of: the dying one, or one that finds the log torn.  Each ref is a       *)
(* version number, so that a lost update shows.                            *)
(***************************************************************************)
EXTENDS Integers, Sequences

CONSTANT Refs

VARIABLES val, ops, deaths

Init == val = [r \in Refs |-> 0] /\ ops = << >> /\ deaths = 0

Bumped(S) == [r \in Refs |-> IF r \in S THEN val[r] + 1 ELSE val[r]]

Commit(S) ==
  /\ val' = Bumped(S)
  /\ ops' = Append(ops, [id     |-> Len(ops),
                         before |-> [r \in S |-> val[r]],
                         after  |-> [r \in S |-> val[r] + 1]])
  /\ UNCHANGED deaths

Spoil(S) ==
  /\ val' = Bumped(S)
  /\ deaths' \in {deaths, deaths + 1} \ {0}
  /\ UNCHANGED ops

Next == \E S \in SUBSET Refs : (S # {} /\ Commit(S)) \/ Spoil(S)

Spec == Init /\ [][Next]_<<val, ops, deaths>>

=============================================================================
