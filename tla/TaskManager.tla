---------------------------- MODULE TaskManager ----------------------------
(***************************************************************************)
(* The task kernel of duet-agent: src/tasks/task-manager.ts together with  *)
(* the two executors the tools hand to it (src/turn-runner/task-tools.ts). *)
(*                                                                         *)
(* A task is a tool call or a subagent running in this process, or a       *)
(* scheduled wake with no executor.  Every task belongs to a scope: the    *)
(* turn's root scope or the scope "task:tN" of the subagent tN.  JavaScript*)
(* runs one callback at a time, so an action is the code between two       *)
(* awaits, and what other callbacks may do meanwhile is another action.    *)
(*                                                                         *)
(* Task tN is the number N, its scope "task:tN" is the same number, and    *)
(* the root scope (and the parent agent that owns it) is Root.             *)
(***************************************************************************)
EXTENDS Integers, Sequences, FiniteSets

CONSTANTS
  MaxTasks,       (* bound: tasks one process lifetime creates             *)
  MaxScopeDepth,  (* MAX_SCOPE_DEPTH in the source, 2                      *)
  MaxRestarts,    (* bound: crashes followed by recover()                  *)
  MaxRequests,    (* bound: task_stop, interruptAll and reapAll calls      *)
  ForegroundModes,(* the ways a call is started: TRUE waits in foreground  *)
  AnyStopTarget   (* TRUE: task_stop may name any task, as the tool allows;*)
                  (* FALSE: agents stop only the tasks of their own scope  *)

ASSUME TaskManagerAssumption ==
  /\ MaxTasks \in Nat
  /\ MaxScopeDepth \in Nat
  /\ MaxRestarts \in Nat
  /\ MaxRequests \in Nat
  /\ ForegroundModes \subseteq BOOLEAN
  /\ AnyStopTarget \in BOOLEAN

Root   == 0
None   == -1
Tasks  == 1 .. MaxTasks
Scopes == 0 .. MaxTasks

Live     == {"running", "scheduled"}
Terminal == {"completed", "failed", "stopped", "lost"}
Kinds    == {"tool", "subagent", "scheduled"}
Reasons  == {"task_stop", "scope", "interrupt"}

VARIABLES
  nextTask,     (* nextTaskNumber                                          *)
  kind,         (* descriptor.kind, "none" before start                    *)
  owner,        (* descriptor.ownerScopeId                                 *)
  status,       (* descriptor.status, "none" before start                  *)
  settlement,   (* record.settlement's status, "none" until settle()       *)
  reason,       (* record.stopReason; set together with abort()            *)
  run,          (* where the executor's promise stands                     *)
  scope,        (* scopes: "absent", "open" or "closed"                    *)
  parent,       (* ScopeRecord.parentScopeId, None for a root scope        *)
  depth,        (* ScopeRecord.depth                                       *)
  closeCur,     (* closeScope of task t: the scope it is stopping          *)
  closeTodo,    (* ... the descendant scopes it has still to visit         *)
  closeWait,    (* ... the tasks its current Promise.all waits for         *)
  closeOut,     (* ... how the subagent's prompt ended                     *)
  race,         (* raceForeground of the tool call that started the task   *)
  stopping,     (* the task whose stop() an agent's task_stop awaits       *)
  reapers,      (* tasks with a registered reaper                          *)
  settlements,  (* the FIFO nextSettled() pulls from                       *)
  settleLog,    (* history: every settlement of this process, in order     *)
  host,         (* the runner: "idle" or awaiting interruptAll / reapAll   *)
  barrier,      (* ... the tasks it waits for                              *)
  requests,     (* stop requests so far (bounds the model)                 *)
  restarts      (* crashes so far                                          *)

recordVars == <<nextTask, kind, owner>>
statusVars == <<status, settlement, settlements, settleLog>>
scopeVars  == <<scope, parent, depth>>
closeVars  == <<closeCur, closeTodo, closeWait, closeOut>>
callVars   == <<race, stopping>>
hostVars   == <<host, barrier, requests, restarts>>
vars == <<recordVars, statusVars, reason, run, scopeVars, closeVars, callVars,
          reapers, hostVars>>

-----------------------------------------------------------------------------
(* State functions                                                         *)

Pending(t)    == status[t] \in Live
Settled(t)    == settlement[t] # "none"
Aborted(t)    == reason[t] # "none"
PendingTasks  == {t \in Tasks : Pending(t)}
OwnedBy(s)    == {t \in Tasks : Pending(t) /\ owner[t] = s}

(* isDescendantOf: MAX_SCOPE_DEPTH keeps parent chains this short.         *)
IsDescendant(d, s) ==
  \/ parent[d] = s
  \/ parent[d] # None /\ parent[parent[d]] = s

Descendants(s) ==
  {d \in Scopes : d # s /\ scope[d] # "absent" /\ IsDescendant(d, s)}

Deepest(S) == {d \in S : \A e \in S : depth[d] >= depth[e]}

(* An agent is the parent agent (Root) or a subagent inside its prompt.    *)
AgentLive(a) == a # Root => run[a] = "live" /\ kind[a] = "subagent"

AgentAborted(a) == a # Root /\ Aborted(a)

(* Foreground tool calls whose raceForeground has not returned.            *)
InForeground(a) ==
  {t \in Tasks : owner[t] = a /\ race[t] \in {"racing", "elapsed"}}

-----------------------------------------------------------------------------
Init ==
  /\ nextTask = 1
  /\ kind = [t \in Tasks |-> "none"]
  /\ owner = [t \in Tasks |-> None]
  /\ status = [t \in Tasks |-> "none"]
  /\ settlement = [t \in Tasks |-> "none"]
  /\ reason = [t \in Tasks |-> "none"]
  /\ run = [t \in Tasks |-> "none"]
  /\ scope = [s \in Scopes |-> "absent"]
  /\ parent = [s \in Scopes |-> None]
  /\ depth = [s \in Scopes |-> 0]
  /\ closeCur = [t \in Tasks |-> None]
  /\ closeTodo = [t \in Tasks |-> {}]
  /\ closeWait = [t \in Tasks |-> {}]
  /\ closeOut = [t \in Tasks |-> "none"]
  /\ race = [t \in Tasks |-> "none"]
  /\ stopping = [a \in Scopes |-> None]
  /\ reapers = {}
  /\ settlements = <<>>
  /\ settleLog = <<>>
  /\ host = "idle"
  /\ barrier = {}
  /\ requests = 0
  /\ restarts = 0

-----------------------------------------------------------------------------
(* registerScope for the owner a start() names: an absent scope becomes a  *)
(* root scope, a closed one makes start() throw before it allocates an id. *)
RegisterOwner(s) ==
  /\ scope[s] # "closed"
  /\ scope' = [scope EXCEPT ![s] = "open"]
  /\ UNCHANGED <<parent, depth>>

(* createRecord and the synchronous part of start().                       *)
CreateRecord(s, k) ==
  /\ nextTask \in Tasks
  /\ RegisterOwner(s)
  /\ nextTask' = nextTask + 1
  /\ kind' = [kind EXCEPT ![nextTask] = k]
  /\ owner' = [owner EXCEPT ![nextTask] = s]
  /\ status' = [status EXCEPT ![nextTask] = IF k = "scheduled" THEN "scheduled"
                                                              ELSE "running"]
  /\ run' = [run EXCEPT ![nextTask] = IF k = "scheduled" THEN "none" ELSE "queued"]
  /\ UNCHANGED <<settlement, settlements, settleLog, reason, closeVars, stopping,
                 reapers, hostVars>>

(* wrapBackgroundable's bash: refuses to start once its agent is aborted;  *)
(* sequential, so no other call of the batch is outstanding.               *)
StartTool(a, foreground) ==
  /\ AgentLive(a) /\ ~AgentAborted(a)
  /\ stopping[a] = None /\ InForeground(a) = {}
  /\ CreateRecord(a, "tool")
  /\ race' = [race EXCEPT ![nextTask] = IF foreground THEN "racing" ELSE "none"]

(* spawn_agent: no abort check, and parallel with other spawns of the batch.*)
Spawn(a, foreground) ==
  /\ AgentLive(a)
  /\ stopping[a] = None
  /\ \A t \in InForeground(a) : kind[t] = "subagent"
  /\ CreateRecord(a, "subagent")
  /\ race' = [race EXCEPT ![nextTask] = IF foreground THEN "racing" ELSE "none"]

(* The runner schedules a wake in the root scope; it cancels the one it    *)
(* has before it schedules another.                                        *)
Schedule ==
  /\ \A t \in Tasks : status[t] # "scheduled"
  /\ CreateRecord(Root, "scheduled")
  /\ UNCHANGED race

-----------------------------------------------------------------------------
(* The synchronous part of stop(id, why) for every task of T: the first    *)
(* reason stays, executors are aborted, a scheduled task settles at once.  *)
StopNow(T, why) ==
  LET stopped   == {t \in T : Pending(t)}
      scheduled == {t \in stopped : status[t] = "scheduled"}
  IN
  /\ reason' = [t \in Tasks |->
                  IF t \in stopped /\ ~Aborted(t) THEN why ELSE reason[t]]
  /\ IF scheduled = {}
       THEN UNCHANGED statusVars
       ELSE LET t == CHOOSE x \in scheduled : TRUE IN
            /\ status' = [status EXCEPT ![t] = "stopped"]
            /\ settlement' = [settlement EXCEPT ![t] = "stopped"]
            /\ settlements' = Append(settlements, t)
            /\ settleLog' = Append(settleLog, t)

(* Every stop request the outside makes is counted, to bound the model.    *)
Request ==
  /\ requests < MaxRequests
  /\ requests' = requests + 1

(* task_stop: terminal and unknown ids return without effect.  The call    *)
(* then awaits record.finished and ignores its own abort signal.           *)
TaskStop(a, t) ==
  /\ AgentLive(a)
  /\ stopping[a] = None /\ InForeground(a) = {}
  /\ Pending(t)
  /\ AnyStopTarget \/ owner[t] = a
  /\ Request
  /\ StopNow({t}, "task_stop")
  /\ stopping' = [stopping EXCEPT ![a] = t]
  /\ UNCHANGED <<recordVars, run, scopeVars, closeVars, race, reapers, host, barrier,
                 restarts>>

TaskStopReturns(a) ==
  /\ stopping[a] # None
  /\ Settled(stopping[a])
  /\ stopping' = [stopping EXCEPT ![a] = None]
  /\ UNCHANGED <<recordVars, statusVars, reason, run, scopeVars, closeVars, race,
                 reapers, hostVars>>

-----------------------------------------------------------------------------
(* Executors.  spec.execute runs in a microtask after start().             *)

BeginTool(t) ==
  /\ run[t] = "queued" /\ kind[t] = "tool"
  /\ run' = [run EXCEPT ![t] = "live"]
  /\ reapers' = reapers \cup {t}
  /\ UNCHANGED <<recordVars, statusVars, reason, scopeVars, closeVars, callVars,
                 hostVars>>

(* Mutant: the finally block forgets to unregister the reaper.             *)
EndToolKeepsReaper(t, out) ==
  /\ run[t] = "live" /\ kind[t] = "tool"
  /\ run' = [run EXCEPT ![t] = out]
  /\ UNCHANGED <<recordVars, statusVars, reason, scopeVars, closeVars, callVars,
                 reapers, hostVars>>

(* The command ends by itself or because its process group was killed;     *)
(* the finally block unregisters the reaper.                               *)
EndTool(t, out) ==
  /\ run[t] = "live" /\ kind[t] = "tool"
  /\ run' = [run EXCEPT ![t] = out]
  /\ reapers' = reapers \ {t}
  /\ UNCHANGED <<recordVars, statusVars, reason, scopeVars, closeVars, callVars,
                 hostVars>>

(* openScope(task:t, owner) is the first thing a spawn does.               *)
CanOpenScope(t) ==
  /\ scope[owner[t]] = "open"
  /\ depth[owner[t]] + 1 <= MaxScopeDepth

BeginSubagent(t) ==
  /\ run[t] = "queued" /\ kind[t] = "subagent"
  /\ IF CanOpenScope(t)
       THEN /\ scope' = [scope EXCEPT ![t] = "open"]
            /\ parent' = [parent EXCEPT ![t] = owner[t]]
            /\ depth' = [depth EXCEPT ![t] = depth[owner[t]] + 1]
            /\ run' = [run EXCEPT ![t] = "live"]
       ELSE /\ run' = [run EXCEPT ![t] = "rejected"]
            /\ UNCHANGED scopeVars
  /\ UNCHANGED <<recordVars, statusVars, reason, closeVars, callVars, reapers,
                 hostVars>>

-----------------------------------------------------------------------------
(* closeScope(task:t), called in the finally block of the spawn of t.      *)

(* Mutant: closeScope waits for the tasks without stopping them.           *)
CloseOnlyWaits(t, s, todo) ==
  /\ closeCur' = [closeCur EXCEPT ![t] = s]
  /\ closeTodo' = [closeTodo EXCEPT ![t] = todo]
  /\ closeWait' = [closeWait EXCEPT ![t] = OwnedBy(s)]
  /\ UNCHANGED <<statusVars, reason>>

(* Mutant: closeScope stops the tasks without waiting for them.            *)
CloseNeverWaits(t, s, todo) ==
  /\ closeCur' = [closeCur EXCEPT ![t] = s]
  /\ closeTodo' = [closeTodo EXCEPT ![t] = todo]
  /\ UNCHANGED closeWait
  /\ StopNow(OwnedBy(s), "scope")

(* Stop what scope s owns and wait for it: one pass of the loop.           *)
CloseStops(t, s, todo) ==
  /\ closeCur' = [closeCur EXCEPT ![t] = s]
  /\ closeTodo' = [closeTodo EXCEPT ![t] = todo]
  /\ closeWait' = [closeWait EXCEPT ![t] = OwnedBy(s)]
  /\ StopNow(OwnedBy(s), "scope")

(* The next scope to visit is one of the deepest; the scope itself is last.*)
CloseNext(t, todo) ==
  \/ todo = {} /\ CloseStops(t, t, {})
  \/ \E s \in Deepest(todo) : CloseStops(t, s, todo \ {s})

(* The agent's prompt returns once every tool call it made has returned.   *)
AgentReturns(t, out) ==
  /\ run[t] = "live" /\ kind[t] = "subagent"
  /\ stopping[t] = None /\ InForeground(t) = {}
  /\ IF scope[t] = "closed"
       THEN /\ run' = [run EXCEPT ![t] = out]
            /\ UNCHANGED <<statusVars, reason, closeVars>>
       ELSE /\ run' = [run EXCEPT ![t] = "closing"]
            /\ closeOut' = [closeOut EXCEPT ![t] = out]
            /\ CloseNext(t, Descendants(t))
  /\ UNCHANGED <<recordVars, scopeVars, callVars, reapers, hostVars>>

(* Every stop of the current pass has unwound: mark the scope closed and   *)
(* go on, ending with the scope itself.                                    *)
CloseAdvance(t) ==
  /\ run[t] = "closing"
  /\ \A w \in closeWait[t] : Settled(w)
  /\ scope' = [scope EXCEPT ![closeCur[t]] = "closed"]
  /\ IF closeCur[t] = t
       THEN /\ run' = [run EXCEPT ![t] = closeOut[t]]
            /\ closeCur' = [closeCur EXCEPT ![t] = None]
            /\ closeWait' = [closeWait EXCEPT ![t] = {}]
            /\ closeOut' = [closeOut EXCEPT ![t] = "none"]
            /\ UNCHANGED <<closeTodo, statusVars, reason>>
       ELSE /\ CloseNext(t, closeTodo[t])
            /\ UNCHANGED <<run, closeOut>>
  /\ UNCHANGED <<recordVars, parent, depth, callVars, reapers, hostVars>>

-----------------------------------------------------------------------------
(* Mutants: the executor's outcome wins over the stop; the raw outcome is  *)
(* reported instead of a task status.                                      *)
SettledStatusIgnoresStop(t) == IF run[t] = "resolved" THEN "completed" ELSE "failed"
SettledStatusRaw(t)         == IF Aborted(t) THEN "stopped" ELSE run[t]

(* The reaction attached at spawn: settle() with the caller's stop reason  *)
(* overriding the executor's own outcome.                                  *)
SettledStatus(t) ==
  IF Aborted(t) THEN "stopped"
  ELSE IF run[t] = "resolved" THEN "completed" ELSE "failed"

(* Mutant: the executor's promise reacts again, as if settle() did not look*)
(* for a settlement first.                                                 *)
SettleAgain(t) ==
  /\ run[t] \in {"resolved", "rejected"}
  /\ status' = [status EXCEPT ![t] = SettledStatus(t)]
  /\ settlement' = [settlement EXCEPT ![t] = SettledStatus(t)]
  /\ settlements' = Append(settlements, t)
  /\ settleLog' = Append(settleLog, t)
  /\ UNCHANGED <<recordVars, reason, run, scopeVars, closeVars, callVars, reapers,
                 hostVars>>

Settle(t) ==
  /\ run[t] \in {"resolved", "rejected"}
  /\ run' = [run EXCEPT ![t] = "none"]
  /\ status' = [status EXCEPT ![t] = SettledStatus(t)]
  /\ settlement' = [settlement EXCEPT ![t] = SettledStatus(t)]
  /\ settlements' = Append(settlements, t)
  /\ settleLog' = Append(settleLog, t)
  /\ UNCHANGED <<recordVars, reason, scopeVars, closeVars, callVars, reapers,
                 hostVars>>

NextSettled ==
  /\ settlements # <<>>
  /\ settlements' = Tail(settlements)
  /\ UNCHANGED <<recordVars, status, settlement, settleLog, reason, run, scopeVars,
                 closeVars, callVars, reapers, hostVars>>

-----------------------------------------------------------------------------
(* raceForeground: the budget timer, and the re-check one microtask later. *)

(* Mutant: subagents wait without a foreground budget.                     *)
BudgetOnlyForTools(t) ==
  /\ race[t] = "racing" /\ ~Settled(t) /\ kind[t] = "tool"
  /\ race' = [race EXCEPT ![t] = "elapsed"]
  /\ UNCHANGED <<recordVars, statusVars, reason, run, scopeVars, closeVars, stopping,
                 reapers, hostVars>>

BudgetElapses(t) ==
  /\ race[t] = "racing" /\ ~Settled(t)
  /\ race' = [race EXCEPT ![t] = "elapsed"]
  /\ UNCHANGED <<recordVars, statusVars, reason, run, scopeVars, closeVars, stopping,
                 reapers, hostVars>>

(* The task is looked at once more: a settlement wins over the budget.    *)
RaceReturns(t) ==
  /\ \/ race[t] = "racing" /\ Settled(t)
     \/ race[t] = "elapsed"
  /\ race' = [race EXCEPT ![t] = IF Settled(t) THEN "settled" ELSE "still_running"]
  /\ UNCHANGED <<recordVars, statusVars, reason, run, scopeVars, closeVars, stopping,
                 reapers, hostVars>>

-----------------------------------------------------------------------------
(* The runner: interruptAll, and the reapAll that dispose() adds to it.    *)

InterruptAll ==
  /\ host = "idle"
  /\ PendingTasks # {}
  /\ Request
  /\ StopNow(PendingTasks, "interrupt")
  /\ reapers' = {}
  /\ host' = "interrupting"
  /\ barrier' = PendingTasks
  /\ UNCHANGED <<recordVars, run, scopeVars, closeVars, callVars, restarts>>

(* Mutant: reapAll waits for the tasks it reaps without stopping them.     *)
ReapAllOnlyWaits ==
  /\ host = "idle"
  /\ reapers # {}
  /\ Request
  /\ reapers' = {}
  /\ host' = "reaping"
  /\ barrier' = {t \in reapers : ~Aborted(t)}
  /\ UNCHANGED <<recordVars, statusVars, reason, run, scopeVars, closeVars, callVars,
                 restarts>>

ReapAll ==
  LET unaborted == {t \in reapers : ~Aborted(t)} IN
  /\ host = "idle"
  /\ reapers # {}
  /\ Request
  /\ StopNow(unaborted, "interrupt")
  /\ reapers' = {}
  /\ host' = "reaping"
  /\ barrier' = unaborted
  /\ UNCHANGED <<recordVars, run, scopeVars, closeVars, callVars, restarts>>

BarrierPasses ==
  /\ host # "idle"
  /\ \A t \in barrier : Settled(t)
  /\ host' = "idle"
  /\ barrier' = {}
  /\ UNCHANGED <<recordVars, statusVars, reason, run, scopeVars, closeVars, callVars,
                 reapers, requests, restarts>>

-----------------------------------------------------------------------------
(* Mutant of lost: every descriptor that is not scheduled is marked lost.  *)
RunningOrSettled == {t \in Tasks : status[t] \in Terminal \cup {"running"}}

(* Tasks recover() marks lost: those that were running.                    *)
LostTasks == {t \in Tasks : status[t] = "running"}

(* The process dies and a new one recovers the persisted descriptors:      *)
(* running tasks are lost, schedules survive, owner scopes come back flat, *)
(* and start() drains the settlements recover() queued.                    *)
Recover ==
  LET lost   == LostTasks
      owners == {owner[t] : t \in {u \in Tasks : status[u] # "none"}}
  IN
  /\ restarts < MaxRestarts
  /\ restarts' = restarts + 1
  /\ status' = [t \in Tasks |-> IF t \in lost THEN "lost" ELSE status[t]]
  /\ settlement' = [t \in Tasks |-> IF t \in lost THEN "lost" ELSE "none"]
  /\ settlements' = <<>>
  /\ settleLog' = <<>>
  /\ reason' = [t \in Tasks |-> "none"]
  /\ run' = [t \in Tasks |-> "none"]
  /\ scope' = [s \in Scopes |-> IF s \in owners THEN "open" ELSE "absent"]
  /\ parent' = [s \in Scopes |-> None]
  /\ depth' = [s \in Scopes |-> 0]
  /\ closeCur' = [t \in Tasks |-> None]
  /\ closeTodo' = [t \in Tasks |-> {}]
  /\ closeWait' = [t \in Tasks |-> {}]
  /\ closeOut' = [t \in Tasks |-> "none"]
  /\ race' = [t \in Tasks |-> "none"]
  /\ stopping' = [a \in Scopes |-> None]
  /\ reapers' = {}
  /\ host' = "idle"
  /\ barrier' = {}
  /\ UNCHANGED <<recordVars, requests>>

-----------------------------------------------------------------------------
Outcomes == {"resolved", "rejected"}

ToolCall(a) ==
  \/ \E foreground \in ForegroundModes : StartTool(a, foreground) \/ Spawn(a, foreground)
  \/ \E t \in Tasks : TaskStop(a, t)
  \/ TaskStopReturns(a)

Executor(t) ==
  \/ BeginTool(t) \/ BeginSubagent(t)
  \/ \E out \in Outcomes : EndTool(t, out) \/ AgentReturns(t, out)
  \/ CloseAdvance(t)
  \/ Settle(t)

Next ==
  \/ \E a \in Scopes : ToolCall(a)
  \/ \E t \in Tasks : Executor(t)
  \/ \E t \in Tasks : BudgetElapses(t) \/ RaceReturns(t)
  \/ Schedule
  \/ NextSettled
  \/ InterruptAll \/ ReapAll \/ BarrierPasses
  \/ Recover

Spec == Init /\ [][Next]_vars

(* Promise reactions and timers always run; an aborted command or prompt   *)
(* ends.  Nothing makes an unaborted command end, an agent call a tool or  *)
(* the runner pull, interrupt or restart.                                  *)
EndAborted(t) ==
  Aborted(t) /\ \E out \in Outcomes : EndTool(t, out) \/ AgentReturns(t, out)

(* At most one of these is enabled for a task, and stays so until taken.   *)
Reaction(t) == BeginTool(t) \/ BeginSubagent(t) \/ CloseAdvance(t) \/ Settle(t)

Fairness ==
  /\ \A t \in Tasks :
       /\ WF_vars(Reaction(t))
       /\ WF_vars(EndAborted(t))
       /\ WF_vars(BudgetElapses(t) \/ RaceReturns(t))
  /\ \A a \in Scopes : WF_vars(TaskStopReturns(a))
  /\ WF_vars(BarrierPasses)

FairSpec == Spec /\ Fairness

-----------------------------------------------------------------------------
(* Types.  No property of its own: the range of every variable.            *)
TypeOK ==
  /\ nextTask \in 1 .. MaxTasks + 1
  /\ kind \in [Tasks -> Kinds \cup {"none"}]
  /\ owner \in [Tasks -> Scopes \cup {None}]
  /\ status \in [Tasks -> Live \cup Terminal \cup {"none"}]
  /\ settlement \in [Tasks -> Terminal \cup {"none"}]
  /\ reason \in [Tasks -> Reasons \cup {"none"}]
  /\ run \in [Tasks -> {"none", "queued", "live", "closing"} \cup Outcomes]
  /\ scope \in [Scopes -> {"absent", "open", "closed"}]
  /\ parent \in [Scopes -> Scopes \cup {None}]
  /\ depth \in [Scopes -> Nat]
  /\ closeCur \in [Tasks -> Scopes \cup {None}]
  /\ closeTodo \in [Tasks -> SUBSET Scopes]
  /\ closeWait \in [Tasks -> SUBSET Tasks]
  /\ closeOut \in [Tasks -> Outcomes \cup {"none"}]
  /\ race \in [Tasks -> {"none", "racing", "elapsed", "settled", "still_running"}]
  /\ stopping \in [Scopes -> Tasks \cup {None}]
  /\ reapers \in SUBSET Tasks
  /\ settlements \in Seq(Tasks)
  /\ settleLog \in Seq(Tasks)
  /\ host \in {"idle", "interrupting", "reaping"}
  /\ barrier \in SUBSET Tasks
  /\ requests \in Nat
  /\ restarts \in Nat

-----------------------------------------------------------------------------
(* Safety                                                                  *)

(* A settled task has fully unwound: its executor is gone, its reaper is   *)
(* unregistered and the scope its subagent opened is closed, whichever of  *)
(* stop, closeScope, interruptAll or its own end settled it.               *)
SettledIsUnwound ==
  \A t \in Tasks : Settled(t) =>
    /\ run[t] = "none"
    /\ t \notin reapers
    /\ settlement[t] # "lost" /\ kind[t] = "subagent" => scope[t] # "open"

(* Structured concurrency for a subagent of the parent agent: once it has  *)
(* settled, nothing its scope owns is still running.                       *)
SubagentLeavesNothing ==
  \A t, c \in Tasks :
    owner[t] = Root /\ Settled(t) /\ settlement[t] # "lost" /\ owner[c] = t
      => ~Pending(c)

(* No command process escapes shutdown: while a command runs, either its   *)
(* reaper is registered, so that dispose() will kill it, or it has already *)
(* been told to stop, whichever of reapAll, interruptAll, stop and the     *)
(* executor's own registration came first.                                 *)
ProcessIsCovered ==
  \A t \in Tasks :
    run[t] = "live" /\ kind[t] = "tool" => t \in reapers \/ Aborted(t)

(* Nothing runs on that nobody will end: a subagent that has settled leaves*)
(* no running task in its scope, and shutdown overlooks no process.        *)
NothingEscapes == SubagentLeavesNothing /\ ProcessIsCovered

(* The inductive invariant behind the theorems of TaskManager_proofs: the  *)
(* descriptor, the settlement, the executor and the scope of a task agree. *)
RecordsAgree ==
  \A t \in Tasks :
    /\ t >= nextTask <=> status[t] = "none"
    /\ run[t] # "none" <=> status[t] = "running"
    /\ Settled(t) => settlement[t] = status[t]
    /\ status[t] = "scheduled" => kind[t] = "scheduled"
    /\ status[t] # "none" => owner[t] \in Scopes
    /\ owner[t] \in Tasks => status[owner[t]] # "none"

ExecutorsAgree ==
  \A t \in Tasks :
    /\ t \in reapers => run[t] = "live" /\ kind[t] = "tool"
    /\ status[t] = "none" => scope[t] = "absent"
    /\ kind[t] = "subagent" =>
         /\ run[t] = "queued" => scope[t] = "absent"
         /\ run[t] \in {"live", "closing"} => scope[t] # "absent"
         /\ run[t] \in Outcomes => scope[t] # "open"
         /\ settlement[t] \in Terminal \ {"lost"} => scope[t] # "open"
    /\ run[t] = "closing" =>
         kind[t] = "subagent" /\ closeCur[t] \in Scopes /\ closeOut[t] \in Outcomes
    /\ closeCur[t] \in Scopes => scope[closeCur[t]] # "absent"
    /\ \A s \in closeTodo[t] : scope[s] # "absent"

IInv == TypeOK /\ RecordsAgree /\ ExecutorsAgree

(* What makes structured concurrency inductive for the subagents of the    *)
(* parent agent: only its own closeScope ever visits the scope of such a   *)
(* subagent, it visits it last, and what it waits for then is all that the *)
(* scope still owns.  (closeScope of an agent further up may close a scope *)
(* below it while a spawn that nobody stopped goes on there.)              *)
ScopesAgree ==
  /\ parent[Root] = None
  /\ \A t \in Tasks :
       /\ parent[t] # None => parent[t] = owner[t] /\ status[t] # "none"
       /\ kind[t] = "scheduled" => owner[t] = Root
       /\ owner[t] = Root => status[t] # "none"
       /\ owner[t] = Root =>
            /\ \A u \in Tasks : /\ t \notin closeTodo[u]
                                /\ closeCur[u] = t => u = t
            /\ run[t] = "live" /\ kind[t] = "subagent" => scope[t] = "open"
            /\ run[t] = "closing" /\ closeCur[t] = t => OwnedBy(t) \subseteq closeWait[t]
            /\ OwnedBy(t) # {} => run[t] \in {"live", "closing"} /\ kind[t] = "subagent"

EInv == IInv /\ ScopesAgree /\ ProcessIsCovered

-----------------------------------------------------------------------------
(* Action properties                                                       *)

(* A stop that was asked for wins over the executor's own outcome, however *)
(* the two race, and the first reason is the one reported.                 *)
StopWins ==
  [][\A t \in Tasks : Aborted(t) /\ restarts' = restarts =>
       /\ reason'[t] = reason[t]
       /\ Pending(t) /\ ~Pending(t)' => status'[t] = "stopped"]_vars

(* Terminal states never transition again, across recovery too; ids are    *)
(* never reused, so a descriptor never changes hands.                      *)
TerminalForever ==
  [][\A t \in Tasks :
       /\ status[t] \in Terminal => status'[t] = status[t]
       /\ status[t] # "none" => kind'[t] = kind[t] /\ owner'[t] = owner[t]]_vars

-----------------------------------------------------------------------------
(* Liveness, under FairSpec                                                *)

(* Every stop request is answered: the task settles, cascading through the *)
(* scopes below it.                                                        *)
StopSettles == \A t \in Tasks : Aborted(t) ~> ~Pending(t)

(* interruptAll and reapAll return: no barrier waits for ever.             *)
BarrierIsPassed == host # "idle" ~> host = "idle"

(* A foreground tool call always gives its agent an answer.                *)
ForegroundReturns == \A t \in Tasks : race[t] = "racing" ~> race[t] # "racing"

(* Nobody waits for ever on a task: not the agent in the foreground, not   *)
(* who asked for a stop, not the host behind a barrier.                    *)
WaitsEnd == ForegroundReturns /\ StopSettles /\ BarrierIsPassed

-----------------------------------------------------------------------------
(* Refinement                                                              *)

(* Hidden behind scopes, executors, reapers and races, the kernel keeps    *)
(* the contract of TaskLifecycle: every step of it is a start, an end, a   *)
(* stop request or a restart of that specification, or changes nothing a   *)
(* caller can see.                                                         *)
Lifecycle == INSTANCE TaskLifecycle
               WITH asked <- {t \in Tasks : Aborted(t)}, published <- settleLog

LifecycleSpec == Lifecycle!Spec
=============================================================================
