--------------------------- MODULE StateRegister ---------------------------
(***************************************************************************)
(* What Session promises about state.json: it always holds one whole       *)
(* envelope, a newer one only ever replaces it, and once a write has been  *)
(* acknowledged no crash and no failed write brings an older one back.     *)
(***************************************************************************)
EXTENDS Naturals

VARIABLES
  stored,   (* the version in state.json, 0 before the first write         *)
  acked     (* the newest version whose writer was told it is written      *)

Init == stored = 0 /\ acked = 0

Commit == stored' >= stored /\ UNCHANGED acked

Acknowledge == acked' >= acked /\ acked' <= stored /\ UNCHANGED stored

Next == Commit \/ Acknowledge

Spec == Init /\ [][Next]_<<stored, acked>>
=============================================================================
