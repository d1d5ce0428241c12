----------------------------- MODULE MCTurnLoop -----------------------------
(* Instances of TurnLoop for TLC: tasks and commands are model values.     *)
EXTENDS TurnLoop, TLC

Symmetry == Permutations(Task) \cup Permutations(Cmd)
=============================================================================
