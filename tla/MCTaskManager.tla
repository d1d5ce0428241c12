--------------------------- MODULE MCTaskManager ---------------------------
(* Instances of TaskManager for TLC; the .cfg files choose the bounds.     *)
EXTENDS TaskManager
=============================================================================
