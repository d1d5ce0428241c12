-------------------------- MODULE MCConnectedTokens --------------------------
(* Instances of ConnectedTokens for TLC: three processes, one provider and *)
(* a caller of withLock in each.                                           *)
EXTENDS ConnectedTokens

CONSTANTS p1, p2, p3, codex

(* Two processes refresh, the third loses and gains the connection.        *)
Clients == {<<p1, codex, "refresh">>, <<p2, codex, "refresh">>, <<p3, codex, "edit">>}
==============================================================================
