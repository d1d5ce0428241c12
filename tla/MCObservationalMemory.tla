------------------------ MODULE MCObservationalMemory ------------------------
(* The instances of ObservationalMemory that TLC checks.                   *)
EXTENDS ObservationalMemory
==============================================================================
