--------------------------- MODULE MCMemorySession ---------------------------
(* Instances of MemorySession for TLC: two processes, the first of which   *)
(* has one or two sessions on the path.                                    *)
EXTENDS MemorySession, TLC

CONSTANTS p1, p2, s1, s2, s3

OneEach == s1 :> p1 @@ s2 :> p2
TwoAndOne == s1 :> p1 @@ s2 :> p2 @@ s3 :> p1
=============================================================================
