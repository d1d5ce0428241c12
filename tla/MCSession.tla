----------------------------- MODULE MCSession -----------------------------
(* Two callers in one process after another.                               *)
EXTENDS Session

CONSTANTS c1, c2

MCCaller == {c1, c2}
=============================================================================
