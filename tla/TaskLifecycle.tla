--------------------------- MODULE TaskLifecycle ---------------------------
(***************************************************************************)
(* What the task kernel promises its callers, without scopes, executors,   *)
(* reapers or foreground races (the TaskManager interface and TaskStatus   *)
(* of src/tasks/types.ts): a task starts once, a stop request sticks to    *)
(* it, it ends once, stopped whenever it was asked to stop, and its        *)
(* settlement is published in the order of the endings.  A crash loses     *)
(* exactly the tasks that were running.                                    *)
(***************************************************************************)
EXTENDS Naturals, Sequences

CONSTANT Tasks

VARIABLES
  status,    (* what list() and output() show of a task                    *)
  asked,     (* tasks that were asked to stop                              *)
  published  (* the settlements of this process, oldest first              *)

vars == <<status, asked, published>>

Active == {"running", "scheduled"}
Ended  == {"completed", "failed", "stopped"}

Init ==
  /\ status = [t \in Tasks |-> "none"]
  /\ asked = {}
  /\ published = <<>>

Start(t) ==
  /\ status[t] = "none"
  /\ \E s \in Active : status' = [status EXCEPT ![t] = s]
  /\ UNCHANGED <<asked, published>>

(* A running task ends; only a task that was asked to stop is stopped.     *)
End(t) ==
  /\ status[t] = "running"
  /\ \E s \in Ended : /\ (t \in asked) <=> (s = "stopped")
                      /\ status' = [status EXCEPT ![t] = s]
  /\ published' = Append(published, t)
  /\ UNCHANGED asked

(* A stop request: running tasks remember it, and a schedule, which has    *)
(* nothing to unwind, ends at once.                                        *)
Stop(T) ==
  /\ \A t \in T : status[t] \in Active
  /\ asked' = asked \cup T
  /\ \/ UNCHANGED <<status, published>>
     \/ \E t \in T :
          /\ status[t] = "scheduled"
          /\ status' = [status EXCEPT ![t] = "stopped"]
          /\ published' = Append(published, t)

(* The process dies and its successor recovers.                            *)
Restart ==
  /\ status' = [t \in Tasks |-> IF status[t] = "running" THEN "lost" ELSE status[t]]
  /\ asked' = {}
  /\ published' = <<>>

Next ==
  \/ \E t \in Tasks : Start(t) \/ End(t)
  \/ \E T \in SUBSET Tasks : Stop(T)
  \/ Restart

Spec == Init /\ [][Next]_vars
=============================================================================
