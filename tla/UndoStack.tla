----------------------------- MODULE UndoStack -----------------------------
(***************************************************************************)
(* What `tig undo` promises: a repository is a value of its refs and a     *)
(* stack of the values it had before each operation not undone yet.  An    *)
(* operation pushes the old value; undo pops it back, whole.               *)
(*                                                                         *)
(* The stack is a function on the times at which the values were pushed;   *)
(* its top is the entry with the greatest time.                            *)
(***************************************************************************)
EXTENDS Integers

CONSTANTS States, Times, Start

VARIABLES cur, saved

Init == cur = Start /\ saved = [t \in {} |-> Start]

Top(t) == t \in DOMAIN saved /\ \A u \in DOMAIN saved : u <= t

\* An operation at time t, whatever it does to the refs.
Do(t) ==
  /\ \A u \in DOMAIN saved : u < t
  /\ cur' \in States
  /\ saved' = [u \in DOMAIN saved \cup {t} |-> IF u = t THEN cur ELSE saved[u]]

Undo(t) ==
  /\ Top(t)
  /\ cur' = saved[t]
  /\ saved' = [u \in DOMAIN saved \ {t} |-> saved[u]]

Next == \E t \in Times : Do(t) \/ Undo(t)

Spec == Init /\ [][Next]_<<cur, saved>>

=============================================================================
