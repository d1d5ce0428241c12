------------------------- MODULE TaskManager_proofs -------------------------
(***************************************************************************)
(* Theorems about the task kernel for every number of tasks, scope depth,  *)
(* restarts and requests.                                                  *)
(***************************************************************************)
EXTENDS TaskManager, TLAPS

(* What the synchronous part of a stop does to the tasks: it touches no    *)
(* reason already given, and ends schedules only.                          *)
LEMMA StopNowEffect ==
  ASSUME TypeOK, NEW T \in SUBSET Tasks, NEW why \in Reasons, StopNow(T, why)
  PROVE  /\ status' \in [Tasks -> Live \cup Terminal \cup {"none"}]
         /\ settlement' \in [Tasks -> Terminal \cup {"none"}]
         /\ reason' \in [Tasks -> Reasons \cup {"none"}]
         /\ settlements' \in Seq(Tasks)
         /\ settleLog' \in Seq(Tasks)
         /\ \A t \in Tasks : Aborted(t) => reason'[t] = reason[t]
         /\ \A t \in Tasks :
              \/ status'[t] = status[t] /\ settlement'[t] = settlement[t]
              \/ /\ status[t] = "scheduled"
                 /\ status'[t] = "stopped" /\ settlement'[t] = "stopped"
<1> DEFINE stopped   == {t \in T : Pending(t)}
           scheduled == {t \in stopped : status[t] = "scheduled"}
           target    == CHOOSE x \in scheduled : TRUE
<1>1. /\ reason' \in [Tasks -> Reasons \cup {"none"}]
      /\ \A t \in Tasks : Aborted(t) => reason'[t] = reason[t]
  BY DEF StopNow, TypeOK
<1>2. CASE scheduled = {}
  <2>1. UNCHANGED statusVars
    BY <1>2 DEF StopNow
  <2> QED BY <1>1, <2>1 DEF TypeOK, statusVars
<1>3. CASE scheduled # {}
  <2>1. target \in Tasks /\ status[target] = "scheduled"
    BY <1>3
  <2>2. /\ status' = [status EXCEPT ![target] = "stopped"]
        /\ settlement' = [settlement EXCEPT ![target] = "stopped"]
        /\ settlements' = Append(settlements, target)
        /\ settleLog' = Append(settleLog, target)
    BY <1>3 DEF StopNow
  <2> HIDE DEF target
  <2> QED BY <1>1, <2>1, <2>2 DEF TypeOK, Terminal
<1> QED BY <1>2, <1>3

(* A pass of closeScope stops tasks, and records what it waits for.        *)
LEMMA CloseStopsEffect ==
  ASSUME TypeOK, NEW t \in Tasks, NEW s \in Scopes, NEW todo \in SUBSET Scopes,
         CloseStops(t, s, todo)
  PROVE  /\ OwnedBy(s) \in SUBSET Tasks
         /\ closeCur' = [closeCur EXCEPT ![t] = s]
         /\ closeTodo' = [closeTodo EXCEPT ![t] = todo]
         /\ closeWait' = [closeWait EXCEPT ![t] = OwnedBy(s)]
         /\ status' \in [Tasks -> Live \cup Terminal \cup {"none"}]
         /\ settlement' \in [Tasks -> Terminal \cup {"none"}]
         /\ reason' \in [Tasks -> Reasons \cup {"none"}]
         /\ settlements' \in Seq(Tasks)
         /\ settleLog' \in Seq(Tasks)
         /\ \A u \in Tasks : Aborted(u) => reason'[u] = reason[u]
         /\ \A u \in Tasks :
              \/ status'[u] = status[u] /\ settlement'[u] = settlement[u]
              \/ /\ status[u] = "scheduled"
                 /\ status'[u] = "stopped" /\ settlement'[u] = "stopped"
<1>1. OwnedBy(s) \in SUBSET Tasks /\ "scope" \in Reasons /\ StopNow(OwnedBy(s), "scope")
  BY DEF CloseStops, OwnedBy, Reasons
<1>2. /\ closeCur' = [closeCur EXCEPT ![t] = s]
      /\ closeTodo' = [closeTodo EXCEPT ![t] = todo]
      /\ closeWait' = [closeWait EXCEPT ![t] = OwnedBy(s)]
  BY DEF CloseStops
<1> QED BY <1>1, <1>2, StopNowEffect

LEMMA InitIInv == Init => IInv
<1> SUFFICES ASSUME Init PROVE IInv
  OBVIOUS
<1>1. TypeOK
  BY TaskManagerAssumption
     DEF Init, TypeOK, Tasks, Scopes, Root, None, Kinds, Live, Terminal, Reasons, Outcomes
<1>2. RecordsAgree
  BY DEF Init, RecordsAgree, Settled, Tasks, Scopes, None
<1>3. ExecutorsAgree
  BY DEF Init, ExecutorsAgree, Tasks, Scopes, None, Outcomes, Terminal
<1> QED BY <1>1, <1>2, <1>3 DEF IInv

(* Starting a task: the three ways into createRecord.                      *)
LEMMA CreateRecordIInv ==
  ASSUME IInv, NEW s \in Scopes, NEW k \in Kinds, CreateRecord(s, k), AgentLive(s),
         race' \in [Tasks -> {"none", "racing", "elapsed", "settled", "still_running"}]
  PROVE  IInv'
<1> USE DEF IInv, CreateRecord, RegisterOwner, closeVars, hostVars, AgentLive
<1>1. TypeOK'
  <2>1. /\ nextTask' \in 1 .. MaxTasks + 1
        /\ scope' \in [Scopes -> {"absent", "open", "closed"}]
        /\ kind' \in [Tasks -> Kinds \cup {"none"}]
        /\ owner' \in [Tasks -> Scopes \cup {None}]
    BY TaskManagerAssumption DEF TypeOK, Tasks
  <2>2. /\ status' \in [Tasks -> Live \cup Terminal \cup {"none"}]
        /\ run' \in [Tasks -> {"none", "queued", "live", "closing"} \cup Outcomes]
    BY DEF TypeOK, Live
  <2> QED BY <2>1, <2>2 DEF TypeOK
<1>2. RecordsAgree'
  BY TaskManagerAssumption
     DEF TypeOK, RecordsAgree, Settled, Tasks, Scopes, Root, None, Kinds
<1>3. ExecutorsAgree'
  BY DEF TypeOK, RecordsAgree, ExecutorsAgree, Tasks, Scopes, Root, Outcomes, Kinds, None
<1> QED BY <1>1, <1>2, <1>3

(* Executor steps of task t that only move its promise along.              *)
LEMMA ExecutorIInv ==
  ASSUME IInv, NEW t \in Tasks, NEW out \in Outcomes,
         \/ BeginTool(t) \/ EndTool(t, out)
         \/ BeginSubagent(t)
         \/ Settle(t)
  PROVE  IInv'
<1> USE DEF IInv, scopeVars, statusVars, recordVars, closeVars, callVars, hostVars
<1>1. CASE BeginTool(t)
  <2> USE <1>1 DEF BeginTool
  <2>1. TypeOK'
    BY DEF TypeOK
  <2>2. RecordsAgree'
    BY DEF TypeOK, RecordsAgree, Settled
  <2>3. ExecutorsAgree'
    BY DEF TypeOK, ExecutorsAgree, Outcomes
  <2> QED BY <2>1, <2>2, <2>3
<1>2. CASE EndTool(t, out)
  <2> USE <1>2 DEF EndTool
  <2>1. TypeOK'
    BY DEF TypeOK
  <2>2. RecordsAgree'
    BY DEF TypeOK, RecordsAgree, Settled, Outcomes
  <2>3. ExecutorsAgree'
    BY DEF TypeOK, ExecutorsAgree, Outcomes
  <2> QED BY <2>1, <2>2, <2>3
<1>3. CASE BeginSubagent(t)
  <2> USE <1>3 DEF BeginSubagent, CanOpenScope
  <2>1. TypeOK'
    <3>1. owner[t] \in Scopes /\ t \in Scopes /\ depth[owner[t]] + 1 \in Nat
      BY DEF TypeOK, RecordsAgree, Tasks, Scopes
    <3>2. CASE CanOpenScope(t)
      <4>1. /\ scope' = [scope EXCEPT ![t] = "open"]
            /\ parent' = [parent EXCEPT ![t] = owner[t]]
            /\ depth' = [depth EXCEPT ![t] = depth[owner[t]] + 1]
            /\ run' = [run EXCEPT ![t] = "live"]
        BY <3>2
      <4>2. /\ scope' \in [Scopes -> {"absent", "open", "closed"}]
            /\ parent' \in [Scopes -> Scopes \cup {None}]
            /\ depth' \in [Scopes -> Nat]
            /\ run' \in [Tasks -> {"none", "queued", "live", "closing"} \cup Outcomes]
        BY <3>1, <4>1 DEF TypeOK
      <4> QED BY <4>2 DEF TypeOK
    <3>3. CASE ~CanOpenScope(t)
      BY <3>3 DEF TypeOK, Outcomes
    <3> QED BY <3>2, <3>3
  <2>2. RecordsAgree'
    BY DEF TypeOK, RecordsAgree, Settled
  <2>3. ExecutorsAgree'
    <3>1. t \in Scopes /\ \A u \in Tasks : u \in Scopes
      BY DEF Tasks, Scopes
    <3>2. settlement[t] = "none" /\ status[t] = "running"
      BY DEF TypeOK, RecordsAgree, Settled, Terminal
    <3>3. CASE CanOpenScope(t)
      <4>1. /\ scope' = [scope EXCEPT ![t] = "open"]
            /\ run' = [run EXCEPT ![t] = "live"]
        BY <3>3
      <4> QED BY <3>1, <3>2, <4>1 DEF TypeOK, ExecutorsAgree, Outcomes, Terminal
    <3>4. CASE ~CanOpenScope(t)
      <4>1. run' = [run EXCEPT ![t] = "rejected"] /\ scope' = scope
        BY <3>4
      <4> QED BY <3>1, <3>2, <4>1 DEF TypeOK, ExecutorsAgree, Outcomes, Terminal
    <3> QED BY <3>3, <3>4
  <2> QED BY <2>1, <2>2, <2>3
<1>4. CASE Settle(t)
  <2> USE <1>4 DEF Settle
  <2>1. SettledStatus(t) \in {"stopped", "completed", "failed"}
    BY DEF SettledStatus
  <2>2. TypeOK'
    BY <2>1 DEF TypeOK, Terminal
  <2>3. RecordsAgree'
    BY <2>1 DEF TypeOK, RecordsAgree, Settled
  <2>4. ExecutorsAgree'
    BY <2>1 DEF TypeOK, ExecutorsAgree, Outcomes, Terminal, RecordsAgree
  <2> QED BY <2>2, <2>3, <2>4
<1> QED BY <1>1, <1>2, <1>3, <1>4

(* The steps of closeScope at the end of the subagent t.                   *)
LEMMA CloseIInv ==
  ASSUME IInv, NEW t \in Tasks, NEW out \in Outcomes,
         AgentReturns(t, out) \/ CloseAdvance(t)
  PROVE  IInv'
<1> USE DEF IInv, scopeVars, recordVars, callVars, hostVars
<1>s. t \in Scopes /\ \A u \in Tasks : u \in Scopes
  BY DEF Tasks, Scopes
<1> DEFINE ClosePass(s, rest) ==
             /\ OwnedBy(s) \in SUBSET Tasks
             /\ closeCur' = [closeCur EXCEPT ![t] = s]
             /\ closeTodo' = [closeTodo EXCEPT ![t] = rest]
             /\ closeWait' = [closeWait EXCEPT ![t] = OwnedBy(s)]
             /\ status' \in [Tasks -> Live \cup Terminal \cup {"none"}]
             /\ settlement' \in [Tasks -> Terminal \cup {"none"}]
             /\ reason' \in [Tasks -> Reasons \cup {"none"}]
             /\ settlements' \in Seq(Tasks)
             /\ settleLog' \in Seq(Tasks)
             /\ \A u \in Tasks :
                  \/ status'[u] = status[u] /\ settlement'[u] = settlement[u]
                  \/ /\ status[u] = "scheduled"
                     /\ status'[u] = "stopped" /\ settlement'[u] = "stopped"
<1>a. ASSUME NEW todo \in SUBSET Scopes, CloseNext(t, todo)
      PROVE  \E s \in Scopes, rest \in SUBSET todo :
               /\ s = t \/ s \in todo
               /\ CloseStops(t, s, rest)
  <2>1. CASE todo = {} /\ CloseStops(t, t, {})
    BY <2>1, <1>s
  <2>2. CASE \E s \in Deepest(todo) : CloseStops(t, s, todo \ {s})
    BY <2>2 DEF Deepest
  <2> QED BY <1>a, <2>1, <2>2 DEF CloseNext
<1>1. CASE AgentReturns(t, out)
  <2> USE <1>1 DEF AgentReturns
  <2>1. CASE scope[t] = "closed"
    <3>1. TypeOK'
      BY <2>1 DEF TypeOK, statusVars, closeVars
    <3>2. RecordsAgree'
      BY <2>1 DEF TypeOK, statusVars, RecordsAgree, Settled, Outcomes
    <3>3. ExecutorsAgree'
      BY <2>1 DEF TypeOK, statusVars, closeVars, ExecutorsAgree, Outcomes
    <3> QED BY <3>1, <3>2, <3>3
  <2>2. CASE scope[t] # "closed"
    <3>1. Descendants(t) \in SUBSET Scopes /\ \A d \in Descendants(t) : scope[d] # "absent"
      BY DEF Descendants
    <3>2. PICK s \in Scopes, rest \in SUBSET Descendants(t) :
                 (s = t \/ s \in Descendants(t)) /\ CloseStops(t, s, rest)
      BY <2>2, <3>1, <1>a
    <3>3. rest \in SUBSET Scopes
      BY <3>1
    <3>4. scope[s] # "absent"
      BY <3>1, <3>2 DEF ExecutorsAgree
    <3>5. /\ closeOut' = [closeOut EXCEPT ![t] = out]
          /\ run' = [run EXCEPT ![t] = "closing"]
      BY <2>2
    <3>6. ClosePass(s, rest)
      BY <3>2, <3>3, CloseStopsEffect
    <3>7. TypeOK'
      BY <3>3, <3>5, <3>6 DEF TypeOK
    <3>8. RecordsAgree'
      BY <3>5, <3>6 DEF TypeOK, RecordsAgree, Settled
    <3>9. ExecutorsAgree'
      BY <3>1, <3>3, <3>4, <3>5, <3>6
         DEF TypeOK, RecordsAgree, ExecutorsAgree, Outcomes, Terminal
    <3> QED BY <3>7, <3>8, <3>9
  <2> QED BY <2>1, <2>2
<1>2. CASE CloseAdvance(t)
  <2> USE <1>2 DEF CloseAdvance
  <2>0. closeCur[t] \in Scopes /\ closeOut[t] \in Outcomes /\ scope[closeCur[t]] # "absent"
    BY DEF ExecutorsAgree
  <2>1. CASE closeCur[t] = t
    <3>a. /\ scope' = [scope EXCEPT ![t] = "closed"]
          /\ run' = [run EXCEPT ![t] = closeOut[t]]
          /\ closeCur' = [closeCur EXCEPT ![t] = None]
          /\ closeWait' = [closeWait EXCEPT ![t] = {}]
          /\ closeOut' = [closeOut EXCEPT ![t] = "none"]
          /\ UNCHANGED <<closeTodo, statusVars, reason, recordVars, parent, depth,
                         callVars, reapers, hostVars>>
          /\ run[t] = "closing"
      BY <2>1
    <3> HIDE DEF CloseAdvance
    <3>0. /\ scope' \in [Scopes -> {"absent", "open", "closed"}]
          /\ run' \in [Tasks -> {"none", "queued", "live", "closing"} \cup Outcomes]
          /\ closeCur' \in [Tasks -> Scopes \cup {None}]
          /\ closeWait' \in [Tasks -> SUBSET Tasks]
          /\ closeOut' \in [Tasks -> Outcomes \cup {"none"}]
      BY <2>0, <3>a, <1>s DEF TypeOK
    <3>1. TypeOK'
      BY <3>a, <3>0 DEF TypeOK, statusVars
    <3>2. RecordsAgree'
      BY <2>0, <3>a DEF TypeOK, statusVars, RecordsAgree, Settled, Outcomes
    <3>3. ExecutorsAgree'
      BY <2>0, <3>a, <1>s
         DEF TypeOK, RecordsAgree, statusVars, ExecutorsAgree, Outcomes, None, Scopes
    <3> QED BY <3>1, <3>2, <3>3
  <2>2. CASE closeCur[t] # t
    <3>1. closeTodo[t] \in SUBSET Scopes /\ \A d \in closeTodo[t] : scope[d] # "absent"
      BY DEF TypeOK, ExecutorsAgree
    <3>2. PICK s \in Scopes, rest \in SUBSET closeTodo[t] :
                 (s = t \/ s \in closeTodo[t]) /\ CloseStops(t, s, rest)
      BY <2>2, <3>1, <1>a
    <3>3. rest \in SUBSET Scopes
      BY <3>1
    <3>4. scope' = [scope EXCEPT ![closeCur[t]] = "closed"] /\ UNCHANGED <<run, closeOut>>
      BY <2>2
    <3>5. scope' \in [Scopes -> {"absent", "open", "closed"}]
      BY <2>0, <3>4 DEF TypeOK
    <3>6. ClosePass(s, rest)
      BY <3>2, <3>3, CloseStopsEffect
    <3>7. TypeOK'
      BY <3>3, <3>4, <3>5, <3>6 DEF TypeOK
    <3>8. RecordsAgree'
      BY <3>4, <3>6 DEF TypeOK, RecordsAgree, Settled
    <3>9. UNCHANGED <<reapers, kind>>
      OBVIOUS
    <3> HIDE DEF CloseAdvance
    <3>10. \A u \in Scopes : /\ scope[u] = "absent" <=> scope'[u] = "absent"
                             /\ scope'[u] = "open" => scope[u] = "open"
      BY <2>0, <3>4 DEF TypeOK
    <3>11. scope[s] # "absent" /\ \A d \in rest : scope[d] # "absent"
      BY <1>2, <1>s, <2>0, <3>1, <3>2 DEF CloseAdvance, ExecutorsAgree
    <3>12. ExecutorsAgree'
      BY <1>s, <3>3, <3>4, <3>6, <3>9, <3>10, <3>11
         DEF TypeOK, RecordsAgree, ExecutorsAgree, Outcomes, Terminal
    <3> QED BY <3>7, <3>8, <3>12
  <2> QED BY <2>1, <2>2
<1> QED BY <1>1, <1>2

(* The stop requests of agents and of the runner.                          *)
LEMMA StopIInv ==
  ASSUME IInv, NEW a \in Scopes, NEW t \in Tasks,
         TaskStop(a, t) \/ InterruptAll \/ ReapAll
  PROVE  IInv'
<1> USE DEF IInv
<1>1. PICK T \in SUBSET Tasks, why \in Reasons : StopNow(T, why)
  <2>1. {t} \in SUBSET Tasks /\ PendingTasks \in SUBSET Tasks
        /\ {u \in reapers : ~Aborted(u)} \in SUBSET Tasks
    BY DEF PendingTasks, TypeOK
  <2>2. "task_stop" \in Reasons /\ "interrupt" \in Reasons
    BY DEF Reasons
  <2> QED BY <2>1, <2>2 DEF TaskStop, InterruptAll, ReapAll
<1>2. /\ reapers' \in SUBSET reapers
      /\ stopping' \in [Scopes -> Tasks \cup {None}]
      /\ host' \in {"idle", "interrupting", "reaping"}
      /\ barrier' \in SUBSET Tasks
      /\ requests' \in Nat
      /\ UNCHANGED <<recordVars, run, scopeVars, closeVars, race, restarts>>
  <2>1. CASE TaskStop(a, t)
    BY <2>1 DEF TaskStop, Request, TypeOK
  <2>2. CASE InterruptAll
    BY <2>2 DEF InterruptAll, Request, PendingTasks, TypeOK, callVars
  <2>3. CASE ReapAll
    BY <2>3 DEF ReapAll, Request, TypeOK, callVars
  <2> QED BY <2>1, <2>2, <2>3
<1>s. /\ status' \in [Tasks -> Live \cup Terminal \cup {"none"}]
      /\ settlement' \in [Tasks -> Terminal \cup {"none"}]
      /\ reason' \in [Tasks -> Reasons \cup {"none"}]
      /\ settlements' \in Seq(Tasks)
      /\ settleLog' \in Seq(Tasks)
      /\ \A u \in Tasks :
           \/ status'[u] = status[u] /\ settlement'[u] = settlement[u]
           \/ /\ status[u] = "scheduled"
              /\ status'[u] = "stopped" /\ settlement'[u] = "stopped"
  BY <1>1, StopNowEffect
<1>3. TypeOK'
  BY <1>2, <1>s DEF TypeOK, recordVars, scopeVars, closeVars
<1>4. RecordsAgree'
  BY <1>2, <1>s DEF TypeOK, RecordsAgree, Settled, recordVars
<1>5. ExecutorsAgree'
  BY <1>2, <1>s
     DEF TypeOK, RecordsAgree, ExecutorsAgree, Outcomes, Terminal,
         recordVars, scopeVars, closeVars
<1> QED BY <1>3, <1>4, <1>5

(* Steps that move no task: callers that return, timers, the puller.       *)
LEMMA CallerIInv ==
  ASSUME IInv, NEW a \in Scopes, NEW t \in Tasks,
         \/ TaskStopReturns(a) \/ NextSettled \/ BudgetElapses(t)
         \/ RaceReturns(t) \/ BarrierPasses
  PROVE  IInv'
<1> USE DEF IInv
<1>1. UNCHANGED <<recordVars, status, settlement, settleLog, reason, run, scopeVars,
                  closeVars, reapers, requests, restarts>>
  BY DEF TaskStopReturns, NextSettled, BudgetElapses, RaceReturns, BarrierPasses,
         statusVars, callVars, hostVars
<1>2. /\ settlements' \in Seq(Tasks)
      /\ race' \in [Tasks -> {"none", "racing", "elapsed", "settled", "still_running"}]
      /\ stopping' \in [Scopes -> Tasks \cup {None}]
      /\ host' \in {"idle", "interrupting", "reaping"}
      /\ barrier' \in SUBSET Tasks
  <2>1. CASE TaskStopReturns(a)
    BY <2>1 DEF TaskStopReturns, TypeOK, statusVars, hostVars
  <2>2. CASE NextSettled
    BY <2>2 DEF NextSettled, TypeOK, callVars, hostVars
  <2>3. CASE BudgetElapses(t)
    BY <2>3 DEF BudgetElapses, TypeOK, statusVars, hostVars
  <2>4. CASE RaceReturns(t)
    BY <2>4 DEF RaceReturns, TypeOK, statusVars, hostVars
  <2>5. CASE BarrierPasses
    BY <2>5 DEF BarrierPasses, TypeOK, statusVars, callVars
  <2> QED BY <2>1, <2>2, <2>3, <2>4, <2>5
<1>3. TypeOK'
  BY <1>1, <1>2 DEF TypeOK, recordVars, scopeVars, closeVars
<1>4. RecordsAgree'
  BY <1>1 DEF RecordsAgree, Settled, recordVars
<1>5. ExecutorsAgree'
  BY <1>1 DEF ExecutorsAgree, recordVars, scopeVars, closeVars
<1> QED BY <1>3, <1>4, <1>5

LEMMA RecoverIInv == IInv /\ Recover => IInv'
<1> SUFFICES ASSUME IInv, Recover PROVE IInv'
  OBVIOUS
<1> USE DEF IInv, Recover, LostTasks, recordVars
<1>1. TypeOK'
  BY DEF TypeOK, Terminal, None, Scopes
<1>2. RecordsAgree'
  BY DEF TypeOK, RecordsAgree, Settled
<1>3. ExecutorsAgree'
  BY DEF TypeOK, RecordsAgree, ExecutorsAgree, Outcomes, Terminal, None, Scopes, Tasks
<1> QED BY <1>1, <1>2, <1>3

(* The inductive step, one case per disjunct of Next.                      *)
LEMMA NextIInv == IInv /\ [Next]_vars => IInv'
<1> SUFFICES ASSUME IInv, [Next]_vars PROVE IInv'
  OBVIOUS
<1>1. ASSUME NEW a \in Scopes, NEW foreground \in ForegroundModes,
             StartTool(a, foreground) \/ Spawn(a, foreground)
      PROVE  IInv'
  <2>1. race' \in [Tasks -> {"none", "racing", "elapsed", "settled", "still_running"}]
    BY <1>1 DEF IInv, TypeOK, StartTool, Spawn
  <2> QED BY <1>1, <2>1, CreateRecordIInv DEF StartTool, Spawn, Kinds
<1>2. CASE Schedule
  <2>1. race' \in [Tasks -> {"none", "racing", "elapsed", "settled", "still_running"}]
    BY <1>2 DEF IInv, TypeOK, Schedule
  <2>2. Root \in Scopes /\ AgentLive(Root)
    BY TaskManagerAssumption DEF Root, Scopes, AgentLive
  <2> QED BY <1>2, <2>1, <2>2, CreateRecordIInv DEF Schedule, Kinds
<1>3. ASSUME NEW a \in Scopes, NEW t \in Tasks, TaskStop(a, t)
      PROVE  IInv'
  BY <1>3, StopIInv
<1>4. ASSUME NEW a \in Scopes, TaskStopReturns(a)
      PROVE  IInv'
  <2>1. stopping[a] \in Tasks
    BY <1>4 DEF TaskStopReturns, IInv, TypeOK
  <2> QED BY <1>4, <2>1, CallerIInv
<1>5. ASSUME NEW t \in Tasks, Executor(t)
      PROVE  IInv'
  <2>1. PICK out \in Outcomes : \/ BeginTool(t) \/ BeginSubagent(t)
                                \/ EndTool(t, out) \/ AgentReturns(t, out)
                                \/ CloseAdvance(t) \/ Settle(t)
    BY <1>5 DEF Executor, Outcomes
  <2> QED BY <2>1, ExecutorIInv, CloseIInv
<1>6. ASSUME NEW t \in Tasks, BudgetElapses(t) \/ RaceReturns(t)
      PROVE  IInv'
  <2>1. t \in Scopes
    BY DEF Tasks, Scopes
  <2> QED BY <1>6, <2>1, CallerIInv
<1>7. CASE InterruptAll \/ ReapAll
  <2>1. PICK t \in Tasks : TRUE
    BY <1>7 DEF InterruptAll, ReapAll, PendingTasks, IInv, TypeOK
  <2>2. t \in Scopes
    BY DEF Tasks, Scopes
  <2> QED BY <1>7, <2>2, StopIInv
<1>8. CASE NextSettled
  <2>1. PICK t \in Tasks : TRUE
    BY <1>8 DEF NextSettled, IInv, TypeOK
  <2>2. t \in Scopes
    BY DEF Tasks, Scopes
  <2> QED BY <1>8, <2>2, CallerIInv
<1>9. CASE BarrierPasses
  <2> USE DEF IInv
  <2>1. UNCHANGED <<recordVars, statusVars, reason, run, scopeVars, closeVars, callVars,
                    reapers, requests, restarts>>
        /\ host' = "idle" /\ barrier' = {}
    BY <1>9 DEF BarrierPasses
  <2>2. TypeOK'
    BY <2>1 DEF TypeOK, recordVars, statusVars, scopeVars, closeVars, callVars
  <2>3. RecordsAgree' /\ ExecutorsAgree'
    BY <2>1 DEF RecordsAgree, ExecutorsAgree, Settled,
                recordVars, statusVars, scopeVars, closeVars
  <2> QED BY <2>2, <2>3
<1>10. CASE Recover
  BY <1>10, RecoverIInv
<1>11. CASE UNCHANGED vars
  <2> USE <1>11 DEF IInv, vars, recordVars, statusVars, scopeVars, closeVars, callVars,
                    hostVars
  <2>1. TypeOK'
    BY DEF TypeOK
  <2>2. RecordsAgree' /\ ExecutorsAgree'
    BY DEF RecordsAgree, ExecutorsAgree, Settled
  <2> QED BY <2>1, <2>2
<1> QED BY <1>1, <1>2, <1>3, <1>4, <1>5, <1>6, <1>7, <1>8, <1>9, <1>10, <1>11
           DEF Next, ToolCall

(* The descriptor, the settlement, the executor and the scope of every     *)
(* task agree in every reachable state, whatever the constants.            *)
THEOREM Agreement == Spec => []IInv
<1>1. Init => IInv
  BY InitIInv
<1>2. IInv /\ [Next]_vars => IInv'
  BY NextIInv
<1> QED BY <1>1, <1>2, PTL DEF Spec

(* Every variable of the kernel keeps its type.                            *)
THEOREM TypeCorrect == Spec => []TypeOK
<1>1. IInv => TypeOK
  BY DEF IInv
<1> QED BY <1>1, Agreement, PTL

(* A settled task has unwound: no executor, no reaper, and the scope its   *)
(* subagent opened is closed.                                              *)
THEOREM Unwound == Spec => []SettledIsUnwound
<1>1. IInv => SettledIsUnwound
  BY DEF IInv, TypeOK, RecordsAgree, ExecutorsAgree, SettledIsUnwound, Settled, Terminal
<1> QED BY <1>1, Agreement, PTL

(* The steps of closeScope either stop tasks or change nothing callers see.*)
LEMMA CloseStep ==
  ASSUME TypeOK, NEW t \in Tasks, NEW out \in Outcomes,
         AgentReturns(t, out) \/ CloseAdvance(t)
  PROVE  \/ UNCHANGED <<statusVars, reason>>
         \/ \E s \in Scopes : StopNow(OwnedBy(s), "scope")
<1>1. ASSUME NEW todo \in SUBSET Scopes, CloseNext(t, todo)
      PROVE  \E s \in Scopes : StopNow(OwnedBy(s), "scope")
  BY <1>1 DEF CloseNext, CloseStops, Deepest, Tasks, Scopes
<1>2. Descendants(t) \in SUBSET Scopes /\ closeTodo[t] \in SUBSET Scopes
  BY DEF Descendants, TypeOK
<1>3. CASE AgentReturns(t, out)
  BY <1>1, <1>2, <1>3 DEF AgentReturns
<1>4. CASE CloseAdvance(t)
  BY <1>1, <1>2, <1>4 DEF CloseAdvance
<1> QED BY <1>3, <1>4

(* How one step may change what callers see of a task, unless the process  *)
(* restarts: it starts, it ends, a stop asks it, or nothing happens to it. *)
LEMMA TaskStep ==
  ASSUME IInv, [Next]_vars, ~Recover, NEW t \in Tasks
  PROVE  /\ status[t] # "none" => kind'[t] = kind[t] /\ owner'[t] = owner[t]
         /\ Aborted(t) => reason'[t] = reason[t]
         /\ \/ status'[t] = status[t]
            \/ status[t] = "none"
            \/ status[t] = "scheduled" /\ status'[t] = "stopped"
            \/ status[t] = "running" /\ status'[t] = SettledStatus(t)
<1> USE DEF IInv
<1>1. ASSUME NEW s \in Scopes, NEW k \in Kinds, CreateRecord(s, k)
      PROVE  /\ status[t] # "none" =>
                  kind'[t] = kind[t] /\ owner'[t] = owner[t] /\ status'[t] = status[t]
             /\ reason' = reason
  BY <1>1 DEF CreateRecord, TypeOK, RecordsAgree, Tasks
<1>2. CASE \/ \E a \in Scopes, f \in ForegroundModes : StartTool(a, f) \/ Spawn(a, f)
           \/ Schedule
  <2>1. PICK s \in Scopes, k \in Kinds : CreateRecord(s, k)
    BY <1>2, TaskManagerAssumption DEF StartTool, Spawn, Schedule, Kinds, Root, Scopes
  <2> QED BY <2>1, <1>1
<1>3. ASSUME NEW T \in SUBSET Tasks, NEW why \in Reasons, StopNow(T, why),
             UNCHANGED recordVars
      PROVE  /\ kind'[t] = kind[t] /\ owner'[t] = owner[t]
             /\ Aborted(t) => reason'[t] = reason[t]
             /\ status'[t] = status[t] \/ (status[t] = "scheduled" /\ status'[t] = "stopped")
  BY <1>3, StopNowEffect DEF recordVars
<1>4. CASE \/ \E a \in Scopes, u \in Tasks : TaskStop(a, u)
           \/ InterruptAll \/ ReapAll
  <2>1. PendingTasks \in SUBSET Tasks /\ {u \in reapers : ~Aborted(u)} \in SUBSET Tasks
        /\ \A u \in Tasks : {u} \in SUBSET Tasks
    BY DEF PendingTasks, TypeOK
  <2>2. "task_stop" \in Reasons /\ "interrupt" \in Reasons
    BY DEF Reasons
  <2>3. PICK T \in SUBSET Tasks, why \in Reasons : StopNow(T, why) /\ UNCHANGED recordVars
    BY <1>4, <2>1, <2>2 DEF TaskStop, InterruptAll, ReapAll
  <2> QED BY <2>3, <1>3
<1>5. ASSUME NEW u \in Tasks, NEW out \in Outcomes,
             AgentReturns(u, out) \/ CloseAdvance(u)
      PROVE  /\ kind'[t] = kind[t] /\ owner'[t] = owner[t]
             /\ Aborted(t) => reason'[t] = reason[t]
             /\ status'[t] = status[t] \/ (status[t] = "scheduled" /\ status'[t] = "stopped")
  <2>1. \/ UNCHANGED <<statusVars, reason>>
        \/ \E s \in Scopes : StopNow(OwnedBy(s), "scope")
    BY <1>5, CloseStep
  <2>2. UNCHANGED recordVars
    BY <1>5 DEF AgentReturns, CloseAdvance
  <2>3. "scope" \in Reasons /\ \A s \in Scopes : OwnedBy(s) \in SUBSET Tasks
    BY DEF Reasons, OwnedBy
  <2> QED BY <2>1, <2>2, <2>3, <1>3 DEF recordVars, statusVars
<1>6. ASSUME NEW u \in Tasks, Settle(u)
      PROVE  /\ UNCHANGED <<recordVars, reason>>
             /\ \/ status'[t] = status[t]
                \/ status[t] = "running" /\ status'[t] = SettledStatus(t)
  BY <1>6 DEF Settle, TypeOK, RecordsAgree
<1>7. ASSUME NEW u \in Tasks, NEW out \in Outcomes,
             BeginTool(u) \/ BeginSubagent(u) \/ EndTool(u, out)
      PROVE  UNCHANGED <<recordVars, status, reason>>
  BY <1>7 DEF BeginTool, BeginSubagent, EndTool, statusVars
<1>8. ASSUME NEW u \in Tasks, Executor(u)
      PROVE  \/ UNCHANGED <<recordVars, status, reason>>
             \/ Settle(u)
             \/ \E out \in Outcomes : AgentReturns(u, out) \/ CloseAdvance(u)
  BY <1>7, <1>8 DEF Executor, Outcomes
<1>9. CASE \/ \E a \in Scopes : TaskStopReturns(a)
           \/ \E u \in Tasks : BudgetElapses(u) \/ RaceReturns(u)
           \/ NextSettled \/ BarrierPasses \/ UNCHANGED vars
  BY <1>9 DEF TaskStopReturns, BudgetElapses, RaceReturns, NextSettled, BarrierPasses,
              vars, recordVars, statusVars
<1>10. CASE \E u \in Tasks : Executor(u)
  <2>1. PICK u \in Tasks : Executor(u)
    BY <1>10
  <2>2. CASE UNCHANGED <<recordVars, status, reason>>
    BY <2>2 DEF recordVars
  <2>3. CASE Settle(u)
    BY <2>3, <1>6 DEF recordVars
  <2>4. CASE \E out \in Outcomes : AgentReturns(u, out) \/ CloseAdvance(u)
    BY <2>4, <1>5
  <2> QED BY <2>1, <2>2, <2>3, <2>4, <1>8
<1> QED BY <1>2, <1>4, <1>9, <1>10 DEF Next, ToolCall

(* Terminal states never transition again and descriptors never change     *)
(* hands, across recovery too.                                             *)
THEOREM TerminalStays == Spec => TerminalForever
<1> DEFINE Stays ==
      \A t \in Tasks :
        /\ status[t] \in Terminal => status'[t] = status[t]
        /\ status[t] # "none" => kind'[t] = kind[t] /\ owner'[t] = owner[t]
<1>1. ASSUME IInv, [Next]_vars PROVE Stays
  <2>1. CASE Recover
    BY <2>1 DEF Recover, LostTasks, recordVars, Terminal
  <2>2. CASE ~Recover
    BY <1>1, <2>2, TaskStep DEF Terminal
  <2> QED BY <2>1, <2>2
<1> QED BY <1>1, Agreement, PTL DEF Spec, TerminalForever

(* A stop that was asked for wins over the executor's own outcome, and its *)
(* first reason stays.                                                     *)
THEOREM StopsWin == Spec => StopWins
<1> DEFINE Wins ==
      \A t \in Tasks : Aborted(t) /\ restarts' = restarts =>
        /\ reason'[t] = reason[t]
        /\ Pending(t) /\ ~Pending(t)' => status'[t] = "stopped"
<1>1. ASSUME IInv, [Next]_vars PROVE Wins
  <2> SUFFICES ASSUME NEW t \in Tasks, Aborted(t), restarts' = restarts
               PROVE  /\ reason'[t] = reason[t]
                      /\ Pending(t) /\ ~Pending(t)' => status'[t] = "stopped"
    OBVIOUS
  <2>1. ~Recover
    BY <1>1 DEF Recover, IInv, TypeOK
  <2>2. SettledStatus(t) = "stopped"
    BY DEF SettledStatus
  <2> QED BY <1>1, <2>1, <2>2, TaskStep DEF Pending, Live
<1> QED BY <1>1, Agreement, PTL DEF Spec, StopWins

-----------------------------------------------------------------------------
(* The kernel implements TaskLifecycle.                                    *)

(* A stop request as callers see it: exactly the pending tasks among those *)
(* named become aborted, and at most one of them, a schedule, ends.        *)
LEMMA StopNowAborts ==
  ASSUME TypeOK, NEW T \in SUBSET Tasks, NEW why \in Reasons, StopNow(T, why)
  PROVE  /\ \A t \in Tasks : Aborted(t)' <=> (Aborted(t) \/ (t \in T /\ Pending(t)))
         /\ \/ UNCHANGED statusVars
            \/ \E t \in T : /\ Pending(t) /\ status[t] = "scheduled"
                            /\ status' = [status EXCEPT ![t] = "stopped"]
                            /\ settleLog' = Append(settleLog, t)
<1> DEFINE stopped   == {t \in T : Pending(t)}
           scheduled == {t \in stopped : status[t] = "scheduled"}
           target    == CHOOSE x \in scheduled : TRUE
<1>1. \A t \in Tasks : Aborted(t)' <=> (Aborted(t) \/ (t \in T /\ Pending(t)))
  <2>1. reason' = [t \in Tasks |->
                     IF t \in stopped /\ ~Aborted(t) THEN why ELSE reason[t]]
    BY DEF StopNow
  <2>2. why # "none"
    BY DEF Reasons
  <2> QED BY <2>1, <2>2 DEF Aborted
<1>2. CASE scheduled = {}
  BY <1>1, <1>2 DEF StopNow
<1>3. CASE scheduled # {}
  <2>1. target \in scheduled
    BY <1>3
  <2>2. /\ status' = [status EXCEPT ![target] = "stopped"]
        /\ settleLog' = Append(settleLog, target)
    BY <1>3 DEF StopNow
  <2> HIDE DEF target
  <2> QED BY <1>1, <2>1, <2>2
<1> QED BY <1>2, <1>3

LEMMA StopRefines ==
  ASSUME TypeOK, NEW T \in SUBSET Tasks, NEW why \in Reasons, StopNow(T, why)
  PROVE  Lifecycle!Next
<1> DEFINE stopped == {t \in T : Pending(t)}
<1>1. stopped \in SUBSET Tasks /\ \A t \in stopped : status[t] \in Lifecycle!Active
  BY DEF Pending, Live, Lifecycle!Active
<1>2. {t \in Tasks : Aborted(t)}' = {t \in Tasks : Aborted(t)} \cup stopped
  BY StopNowAborts
<1>3. \/ UNCHANGED <<status, settleLog>>
      \/ \E t \in stopped :
           /\ status[t] = "scheduled"
           /\ status' = [status EXCEPT ![t] = "stopped"]
           /\ settleLog' = Append(settleLog, t)
  BY StopNowAborts DEF statusVars
<1>4. Lifecycle!Stop(stopped)
  BY <1>1, <1>2, <1>3 DEF Lifecycle!Stop
<1> QED BY <1>1, <1>4 DEF Lifecycle!Next

(* Starting a task is Start, whoever starts it.                            *)
LEMMA StartRefines ==
  ASSUME IInv, NEW s \in Scopes, NEW k \in Kinds, CreateRecord(s, k)
  PROVE  Lifecycle!Next
<1>1. nextTask \in Tasks /\ status[nextTask] = "none"
  BY DEF CreateRecord, IInv, TypeOK, RecordsAgree, Tasks
<1>2. \E x \in Lifecycle!Active : status' = [status EXCEPT ![nextTask] = x]
  BY DEF CreateRecord, Lifecycle!Active
<1>3. {t \in Tasks : Aborted(t)}' = {t \in Tasks : Aborted(t)} /\ settleLog' = settleLog
  BY DEF CreateRecord, Aborted
<1>4. Lifecycle!Start(nextTask)
  BY <1>1, <1>2, <1>3 DEF Lifecycle!Start
<1> QED BY <1>1, <1>4 DEF Lifecycle!Next

(* The reaction to an executor's promise is End.                           *)
LEMMA SettleRefines ==
  ASSUME IInv, NEW t \in Tasks, Settle(t)
  PROVE  Lifecycle!Next
<1>1. status[t] = "running"
  BY DEF Settle, IInv, RecordsAgree
<1>2. SettledStatus(t) \in Lifecycle!Ended /\ (Aborted(t) <=> SettledStatus(t) = "stopped")
  BY DEF SettledStatus, Lifecycle!Ended
<1>3. /\ status' = [status EXCEPT ![t] = SettledStatus(t)]
      /\ settleLog' = Append(settleLog, t)
      /\ {u \in Tasks : Aborted(u)}' = {u \in Tasks : Aborted(u)}
  BY DEF Settle, Aborted
<1>4. Lifecycle!End(t)
  BY <1>1, <1>2, <1>3 DEF Lifecycle!End
<1> QED BY <1>4 DEF Lifecycle!Next

(* recover() in a new process is Restart.                                  *)
LEMMA RecoverRefines == Recover => Lifecycle!Next
<1> SUFFICES ASSUME Recover PROVE Lifecycle!Next
  OBVIOUS
<1>1. status' = [t \in Tasks |-> IF status[t] = "running" THEN "lost" ELSE status[t]]
  BY DEF Recover, LostTasks
<1>2. {t \in Tasks : Aborted(t)}' = {} /\ settleLog' = <<>>
  BY DEF Recover, Aborted
<1>3. Lifecycle!Restart
  BY <1>1, <1>2 DEF Lifecycle!Restart
<1> QED BY <1>3 DEF Lifecycle!Next

LEMMA NextRefines == IInv /\ [Next]_vars => [Lifecycle!Next]_(Lifecycle!vars)
<1> SUFFICES ASSUME IInv, [Next]_vars PROVE [Lifecycle!Next]_(Lifecycle!vars)
  OBVIOUS
<1> USE DEF IInv
<1>s. ASSUME UNCHANGED <<status, reason, settleLog>>
      PROVE  UNCHANGED Lifecycle!vars
  BY <1>s DEF Lifecycle!vars, Aborted
<1>1. CASE \/ \E a \in Scopes, f \in ForegroundModes : StartTool(a, f) \/ Spawn(a, f)
           \/ Schedule
  <2>1. PICK s \in Scopes, k \in Kinds : CreateRecord(s, k)
    BY <1>1, TaskManagerAssumption DEF StartTool, Spawn, Schedule, Kinds, Root, Scopes
  <2> QED BY <2>1, StartRefines
<1>2. CASE \/ \E a \in Scopes, u \in Tasks : TaskStop(a, u)
           \/ InterruptAll \/ ReapAll
  <2>1. PendingTasks \in SUBSET Tasks /\ {u \in reapers : ~Aborted(u)} \in SUBSET Tasks
        /\ \A u \in Tasks : {u} \in SUBSET Tasks
    BY DEF PendingTasks, TypeOK
  <2>2. "task_stop" \in Reasons /\ "interrupt" \in Reasons
    BY DEF Reasons
  <2>3. PICK T \in SUBSET Tasks, why \in Reasons : StopNow(T, why)
    BY <1>2, <2>1, <2>2 DEF TaskStop, InterruptAll, ReapAll
  <2> QED BY <2>3, StopRefines
<1>3. ASSUME NEW t \in Tasks, Executor(t)
      PROVE  Lifecycle!Next \/ UNCHANGED <<status, reason, settleLog>>
  <2>1. PICK out \in Outcomes : \/ BeginTool(t) \/ BeginSubagent(t)
                                \/ EndTool(t, out) \/ AgentReturns(t, out)
                                \/ CloseAdvance(t) \/ Settle(t)
    BY <1>3 DEF Executor, Outcomes
  <2>2. CASE BeginTool(t) \/ BeginSubagent(t) \/ EndTool(t, out)
    BY <2>2 DEF BeginTool, BeginSubagent, EndTool, statusVars
  <2>3. CASE AgentReturns(t, out) \/ CloseAdvance(t)
    <3>1. "scope" \in Reasons /\ \A s \in Scopes : OwnedBy(s) \in SUBSET Tasks
      BY DEF Reasons, OwnedBy
    <3> QED BY <2>3, <3>1, CloseStep, StopRefines DEF statusVars
  <2> QED BY <2>1, <2>2, <2>3, SettleRefines
<1>4. CASE \/ \E a \in Scopes : TaskStopReturns(a)
           \/ \E u \in Tasks : BudgetElapses(u) \/ RaceReturns(u)
           \/ NextSettled \/ BarrierPasses \/ UNCHANGED vars
  BY <1>4, <1>s DEF TaskStopReturns, BudgetElapses, RaceReturns, NextSettled,
                    BarrierPasses, vars, statusVars
<1> QED BY <1>1, <1>2, <1>3, <1>4, <1>s, RecoverRefines DEF Next, ToolCall

(* The kernel, with its scopes, executors, reapers and races hidden, keeps *)
(* the contract of TaskLifecycle: a task starts once, a stop request sticks*)
(* to it, it ends once, stopped exactly when it was asked to stop, and its *)
(* settlement is published in the order of the endings.                    *)
THEOREM KernelRefinesLifecycle == Spec => LifecycleSpec
<1>1. Init => Lifecycle!Init
  <2> SUFFICES ASSUME Init PROVE Lifecycle!Init
    OBVIOUS
  <2>1. {t \in Tasks : Aborted(t)} = {}
    BY DEF Init, Aborted
  <2> QED BY <2>1 DEF Init, Lifecycle!Init
<1>2. IInv /\ [Next]_vars => [Lifecycle!Next]_(Lifecycle!vars)
  BY NextRefines
<1> QED BY <1>1, <1>2, Agreement, PTL DEF Spec, LifecycleSpec, Lifecycle!Spec

-----------------------------------------------------------------------------
(* Nothing escapes.                                                        *)

(* A command that runs stays covered: whatever clears the reapers has      *)
(* aborted the commands they stood for.                                    *)
LEMMA CoveredStep ==
  ASSUME IInv, ProcessIsCovered, [Next]_vars
  PROVE  ProcessIsCovered'
<1> USE DEF IInv
<1> SUFFICES ASSUME NEW t \in Tasks, run'[t] = "live", kind'[t] = "tool"
             PROVE  t \in reapers' \/ Aborted(t)'
  BY DEF ProcessIsCovered
<1>0. run[t] = "live" /\ kind[t] = "tool" => t \in reapers \/ Aborted(t)
  BY DEF ProcessIsCovered
<1>1. ASSUME NEW s \in Scopes, NEW k \in Kinds, CreateRecord(s, k)
      PROVE  t \in reapers' \/ Aborted(t)'
  BY <1>0, <1>1 DEF CreateRecord, TypeOK, Aborted
<1>2. CASE \/ \E a \in Scopes, f \in ForegroundModes : StartTool(a, f) \/ Spawn(a, f)
           \/ Schedule
  <2>1. PICK s \in Scopes, k \in Kinds : CreateRecord(s, k)
    BY <1>2, TaskManagerAssumption DEF StartTool, Spawn, Schedule, Kinds, Root, Scopes
  <2> QED BY <2>1, <1>1
<1>3. ASSUME NEW a \in Scopes, NEW u \in Tasks, TaskStop(a, u)
      PROVE  t \in reapers' \/ Aborted(t)'
  <2>1. UNCHANGED <<run, kind, reapers>> /\ StopNow({u}, "task_stop")
    BY <1>3 DEF TaskStop, recordVars
  <2>2. Aborted(t) => Aborted(t)'
    BY <2>1, StopNowAborts DEF Reasons
  <2> QED BY <1>0, <2>1, <2>2
<1>4. CASE InterruptAll \/ ReapAll
  <2>1. PendingTasks \in SUBSET Tasks /\ {u \in reapers : ~Aborted(u)} \in SUBSET Tasks
    BY DEF PendingTasks, TypeOK
  <2>2. UNCHANGED <<run, kind>> /\ "interrupt" \in Reasons
    BY <1>4 DEF InterruptAll, ReapAll, recordVars, Reasons
  <2>3. Pending(t) /\ (t \in reapers \/ Aborted(t))
    BY <1>0, <2>2 DEF RecordsAgree, Pending, Live
  <2>4. CASE InterruptAll
    BY <2>1, <2>2, <2>3, <2>4, StopNowAborts DEF InterruptAll, PendingTasks
  <2>5. CASE ReapAll
    BY <2>1, <2>2, <2>3, <2>5, StopNowAborts DEF ReapAll
  <2> QED BY <1>4, <2>4, <2>5
<1>5. ASSUME NEW u \in Tasks, NEW out \in Outcomes,
             BeginTool(u) \/ BeginSubagent(u) \/ EndTool(u, out) \/ Settle(u)
      PROVE  t \in reapers' \/ Aborted(t)'
  BY <1>0, <1>5 DEF BeginTool, BeginSubagent, EndTool, Settle, TypeOK, Aborted, Outcomes,
                    recordVars, scopeVars
<1>6. ASSUME NEW u \in Tasks, NEW out \in Outcomes,
             AgentReturns(u, out) \/ CloseAdvance(u)
      PROVE  t \in reapers' \/ Aborted(t)'
  <2>1. UNCHANGED <<kind, reapers>>
    BY <1>6 DEF AgentReturns, CloseAdvance, recordVars
  <2>2. run'[t] = "live" => run[t] = "live"
    BY <1>6 DEF AgentReturns, CloseAdvance, TypeOK, ExecutorsAgree, Outcomes
  <2>3. "scope" \in Reasons /\ \A s \in Scopes : OwnedBy(s) \in SUBSET Tasks
    BY DEF Reasons, OwnedBy
  <2>4. Aborted(t) => Aborted(t)'
    BY <1>6, <2>3, CloseStep, StopNowAborts DEF Aborted
  <2> QED BY <1>0, <2>1, <2>2, <2>4
<1>7. ASSUME NEW u \in Tasks, Executor(u)
      PROVE  t \in reapers' \/ Aborted(t)'
  BY <1>5, <1>6, <1>7 DEF Executor, Outcomes
<1>8. CASE \/ \E a \in Scopes : TaskStopReturns(a)
           \/ \E u \in Tasks : BudgetElapses(u) \/ RaceReturns(u)
           \/ NextSettled \/ BarrierPasses \/ UNCHANGED vars
  BY <1>0, <1>8 DEF TaskStopReturns, BudgetElapses, RaceReturns, NextSettled,
                    BarrierPasses, vars, recordVars, Aborted
<1>9. CASE Recover
  BY <1>9 DEF Recover
<1> QED BY <1>2, <1>3, <1>4, <1>7, <1>8, <1>9 DEF Next, ToolCall

(* Steps after which every scope owns at most what it owned, and that move *)
(* neither executors nor scopes.                                           *)
LEMMA QuietScopes ==
  ASSUME IInv, ScopesAgree,
         UNCHANGED <<recordVars, run, scopeVars, closeVars>>,
         \A t \in Tasks : \/ status'[t] = status[t]
                          \/ status[t] = "scheduled" /\ status'[t] = "stopped"
  PROVE  ScopesAgree'
<1> USE DEF recordVars, scopeVars, closeVars
<1>1. \A t \in Tasks : /\ OwnedBy(t)' \subseteq OwnedBy(t)
                       /\ status[t] # "none" => status'[t] # "none"
  BY DEF OwnedBy, Pending, Live
<1> QED BY <1>1 DEF ScopesAgree

(* The first part of ScopesAgree about the subagents of the parent agent.  *)
LEMMA OnlyItsOwnClose ==
  ASSUME ScopesAgree, NEW t \in Tasks, NEW u \in Tasks, owner[t] = Root
  PROVE  t \notin closeTodo[u] /\ (closeCur[u] = t => u = t)
BY DEF ScopesAgree

LEMMA CreateRecordScopes ==
  ASSUME IInv, ScopesAgree, NEW s \in Scopes, NEW k \in Kinds, CreateRecord(s, k),
         AgentLive(s), k = "scheduled" => s = Root
  PROVE  ScopesAgree'
<1> USE DEF IInv, CreateRecord, RegisterOwner, closeVars
<1>1. /\ nextTask \in Tasks /\ status[nextTask] = "none" /\ run[nextTask] = "none"
      /\ scope[nextTask] = "absent" /\ parent[nextTask] = None
  BY DEF TypeOK, RecordsAgree, ExecutorsAgree, ScopesAgree, Tasks
<1>2. s # nextTask
  BY <1>1 DEF AgentLive, Tasks, Root
<1>3. \A t \in Tasks :
        /\ status'[t] = "none" => status[t] = "none" /\ t # nextTask
        /\ t # nextTask => kind'[t] = kind[t] /\ owner'[t] = owner[t] /\ run'[t] = run[t]
        /\ owner[t] # nextTask
  BY <1>1 DEF TypeOK, RecordsAgree
<1>4. /\ owner'[nextTask] = s /\ kind'[nextTask] = k
      /\ run'[nextTask] \in {"none", "queued"}
      /\ status'[nextTask] # "none"
  BY <1>1 DEF TypeOK
<1>5. \A t \in Tasks : /\ t = s => t # nextTask /\ run[t] = "live" /\ kind[t] = "subagent"
                       /\ t # s => OwnedBy(t)' \subseteq OwnedBy(t)
                       /\ t = nextTask => OwnedBy(t)' = {}
  BY <1>1, <1>2, <1>3, <1>4 DEF OwnedBy, Pending, AgentLive, Tasks, Root, TypeOK
<1>6. \A t \in Tasks : scope[t] = "open" => scope'[t] = "open"
  BY DEF TypeOK
<1>7. \A u \in Tasks : nextTask \notin closeTodo[u] /\ closeCur[u] # nextTask
  BY <1>1 DEF ExecutorsAgree, Tasks, Scopes
<1>8. parent' = parent /\ closeTodo' = closeTodo /\ closeCur' = closeCur
      /\ closeWait' = closeWait
  OBVIOUS
<1>9. s = Root \/ s \in Tasks
  BY DEF Root, Scopes, Tasks
<1> HIDE DEF CreateRecord, RegisterOwner
<1> SUFFICES ASSUME NEW t \in Tasks
             PROVE  (/\ parent[t] # None => parent[t] = owner[t] /\ status[t] # "none"
                     /\ kind[t] = "scheduled" => owner[t] = Root
                     /\ owner[t] = Root => status[t] # "none"
                     /\ owner[t] = Root =>
                          /\ \A u \in Tasks : /\ t \notin closeTodo[u]
                                              /\ closeCur[u] = t => u = t
                          /\ run[t] = "live" /\ kind[t] = "subagent" => scope[t] = "open"
                          /\ run[t] = "closing" /\ closeCur[t] = t
                               => OwnedBy(t) \subseteq closeWait[t]
                          /\ OwnedBy(t) # {}
                               => run[t] \in {"live", "closing"} /\ kind[t] = "subagent")'
  BY <1>8 DEF ScopesAgree
<1>10. CASE t = nextTask
  BY <1>1, <1>4, <1>5, <1>7, <1>8, <1>10
<1>11. CASE t # nextTask
  <2>1. /\ kind'[t] = kind[t] /\ owner'[t] = owner[t] /\ run'[t] = run[t]
        /\ status'[t] = "none" => status[t] = "none"
        /\ scope[t] = "open" => scope'[t] = "open"
        /\ OwnedBy(t)' \subseteq OwnedBy(t) \/ (run[t] = "live" /\ kind[t] = "subagent")
    BY <1>3, <1>5, <1>6, <1>11 DEF Tasks, Scopes
  <2> QED BY <1>8, <2>1, OnlyItsOwnClose DEF ScopesAgree
<1> QED BY <1>10, <1>11

(* Executor steps of task t that only move its promise along.              *)
LEMMA ExecutorScopes ==
  ASSUME IInv, ScopesAgree, NEW t \in Tasks, NEW out \in Outcomes,
         BeginTool(t) \/ EndTool(t, out) \/ BeginSubagent(t) \/ Settle(t)
  PROVE  ScopesAgree'
<1> USE DEF IInv, scopeVars, statusVars, recordVars, closeVars
<1>1. CASE BeginTool(t) \/ EndTool(t, out)
  <2>1. kind[t] = "tool" /\ UNCHANGED <<recordVars, status, scopeVars, closeVars>>
    BY <1>1 DEF BeginTool, EndTool
  <2>2. \A u \in Tasks : u # t => run'[u] = run[u]
    BY <1>1 DEF BeginTool, EndTool, TypeOK
  <2>3. run'[t] # "closing"
    BY <1>1 DEF BeginTool, EndTool, TypeOK, Outcomes
  <2>4. \A u \in Tasks : OwnedBy(u)' = OwnedBy(u)
    BY <2>1 DEF OwnedBy, Pending
  <2> QED BY <2>1, <2>2, <2>3, <2>4 DEF ScopesAgree
<1>2. CASE BeginSubagent(t)
  <2>1. /\ kind[t] = "subagent" /\ run[t] = "queued" /\ status[t] = "running"
        /\ UNCHANGED <<recordVars, status, closeVars>>
    BY <1>2 DEF BeginSubagent, RecordsAgree
  <2>2. \A u \in Tasks : OwnedBy(u)' = OwnedBy(u)
    BY <2>1 DEF OwnedBy, Pending
  <2>3. t \in Scopes /\ t # Root /\ Root \in Scopes /\ \A u \in Tasks : u \in Scopes
    BY TaskManagerAssumption DEF Tasks, Scopes, Root
  <2>4. /\ DOMAIN run = Tasks /\ run = [u \in Tasks |-> run[u]]
        /\ DOMAIN scope = Scopes /\ scope = [u \in Scopes |-> scope[u]]
        /\ DOMAIN parent = Scopes /\ parent = [u \in Scopes |-> parent[u]]
    BY DEF TypeOK
  <2>5. CASE CanOpenScope(t)
    <3>1. /\ scope' = [scope EXCEPT ![t] = "open"]
          /\ parent' = [parent EXCEPT ![t] = owner[t]]
          /\ run' = [run EXCEPT ![t] = "live"]
      BY <1>2, <2>5 DEF BeginSubagent
    <3> HIDE DEF IInv
    <3>2. /\ run'[t] = "live" /\ scope'[t] = "open" /\ parent'[t] = owner[t]
          /\ parent'[Root] = parent[Root]
      BY <2>3, <2>4, <3>1
    <3>3. \A u \in Tasks : u # t => /\ run'[u] = run[u] /\ scope'[u] = scope[u]
                                    /\ parent'[u] = parent[u]
      BY <2>3, <2>4, <3>1
    <3> QED BY <2>1, <2>2, <3>2, <3>3 DEF ScopesAgree
  <2>6. CASE ~CanOpenScope(t)
    <3>1. run' = [run EXCEPT ![t] = "rejected"] /\ UNCHANGED scopeVars
      BY <1>2, <2>6 DEF BeginSubagent
    <3>2. run'[t] = "rejected" /\ \A u \in Tasks : u # t => run'[u] = run[u]
      BY <2>4, <3>1
    <3> QED BY <2>1, <2>2, <3>1, <3>2 DEF ScopesAgree
  <2> QED BY <2>5, <2>6
<1>3. CASE Settle(t)
  <2>1. /\ run[t] \in Outcomes /\ status[t] = "running"
        /\ UNCHANGED <<recordVars, scopeVars, closeVars>>
        /\ run' = [run EXCEPT ![t] = "none"]
        /\ status' = [status EXCEPT ![t] = SettledStatus(t)]
    BY <1>3 DEF Settle, RecordsAgree, Outcomes
  <2>2. SettledStatus(t) \in {"stopped", "completed", "failed"}
    BY DEF SettledStatus
  <2>3. \A u \in Tasks : /\ OwnedBy(u)' \subseteq OwnedBy(u)
                         /\ status[u] # "none" => status'[u] # "none"
    BY <2>1, <2>2 DEF OwnedBy, Pending, Live, TypeOK
  <2>4. owner[t] = Root => OwnedBy(t) = {}
    BY <2>1 DEF ScopesAgree, Outcomes
  <2> QED BY <2>1, <2>3, <2>4 DEF ScopesAgree, TypeOK
<1> QED BY <1>1, <1>2, <1>3

(* closeScope never visits the scope of a subagent of the parent agent but *)
(* its own, and waits there for all that it owns.                          *)
LEMMA CloseScopes ==
  ASSUME IInv, ScopesAgree, NEW t \in Tasks, NEW out \in Outcomes,
         AgentReturns(t, out) \/ CloseAdvance(t)
  PROVE  ScopesAgree'
<1> USE DEF IInv, scopeVars, recordVars
<1>s. t \in Scopes /\ t # Root /\ None \notin Scopes /\ Root \notin Tasks
  BY DEF Tasks, Scopes, Root, None
<1>k. UNCHANGED <<kind, owner, parent>>
  BY DEF AgentReturns, CloseAdvance
<1>1. Descendants(t) \in SUBSET Scopes
      /\ \A d \in Tasks : owner[d] = Root => d \notin Descendants(t)
  <2>1. Descendants(t) \in SUBSET Scopes
    BY DEF Descendants
  <2>2. ASSUME NEW d \in Tasks, owner[d] = Root PROVE ~IsDescendant(d, t)
    <3>1. parent[d] \in {None, Root} /\ parent[Root] = None
      BY <2>2 DEF ScopesAgree
    <3> QED BY <1>s, <3>1 DEF IsDescendant
  <2> QED BY <2>1, <2>2 DEF Descendants
<1>2. ASSUME NEW todo \in SUBSET Scopes, CloseNext(t, todo)
      PROVE  \E s \in Scopes, rest \in SUBSET todo :
               (s = t \/ s \in todo) /\ CloseStops(t, s, rest)
  <2>1. CASE todo = {} /\ CloseStops(t, t, {})
    BY <2>1, <1>s
  <2>2. CASE \E s \in Deepest(todo) : CloseStops(t, s, todo \ {s})
    BY <2>2 DEF Deepest
  <2> QED BY <1>2, <2>1, <2>2 DEF CloseNext
<1>3. ASSUME NEW todo \in SUBSET Scopes, CloseNext(t, todo),
             \A d \in Tasks : owner[d] = Root => d \notin todo,
             run' = run \/ run' = [run EXCEPT ![t] = "closing"],
             run'[t] = "closing", kind[t] = "subagent",
             \A d \in Tasks : owner[d] = Root /\ d # t => scope'[d] = scope[d]
      PROVE  ScopesAgree'
  <2>1. PICK s \in Scopes, rest \in SUBSET todo :
               (s = t \/ s \in todo) /\ CloseStops(t, s, rest)
    BY <1>2, <1>3
  <2>2. rest \in SUBSET Scopes
    OBVIOUS
  <2>3. /\ closeCur' = [closeCur EXCEPT ![t] = s]
        /\ closeTodo' = [closeTodo EXCEPT ![t] = rest]
        /\ closeWait' = [closeWait EXCEPT ![t] = OwnedBy(s)]
        /\ \A u \in Tasks : \/ status'[u] = status[u]
                            \/ status[u] = "scheduled" /\ status'[u] = "stopped"
    BY <2>1, <2>2, CloseStopsEffect
  <2>4. \A u \in Tasks : /\ OwnedBy(u)' \subseteq OwnedBy(u)
                         /\ status[u] # "none" => status'[u] # "none"
    BY <1>k, <2>3 DEF OwnedBy, Pending, Live
  <2>5. \A d \in Tasks : owner[d] = Root => d \notin rest /\ (s = d => d = t)
    BY <1>3, <2>1
  <2>6. \A d \in Tasks : d # t => run'[d] = run[d]
    BY <1>3 DEF TypeOK
  <2>7. \A d \in Tasks : owner[d] = Root =>
          \A u \in Tasks : d \notin closeTodo'[u] /\ (closeCur'[u] = d => u = d)
    BY <2>3, <2>5, OnlyItsOwnClose DEF TypeOK
  <2>8. closeCur'[t] = t => OwnedBy(t) \subseteq closeWait'[t]
    BY <2>3 DEF TypeOK
  <2>9. \A d \in Tasks : d # t => closeCur'[d] = closeCur[d] /\ closeWait'[d] = closeWait[d]
    BY <2>3 DEF TypeOK
  <2> HIDE DEF IInv
  <2> SUFFICES ASSUME NEW d \in Tasks
               PROVE  (/\ parent[d] # None => parent[d] = owner[d] /\ status[d] # "none"
                       /\ kind[d] = "scheduled" => owner[d] = Root
                       /\ owner[d] = Root => status[d] # "none"
                       /\ owner[d] = Root =>
                            /\ run[d] = "live" /\ kind[d] = "subagent" => scope[d] = "open"
                            /\ run[d] = "closing" /\ closeCur[d] = d
                                 => OwnedBy(d) \subseteq closeWait[d]
                            /\ OwnedBy(d) # {}
                                 => run[d] \in {"live", "closing"} /\ kind[d] = "subagent")'
    BY <1>k, <2>7 DEF ScopesAgree
  <2>10. CASE d = t
    BY <1>3, <1>k, <2>4, <2>8, <2>10 DEF ScopesAgree
  <2>11. CASE d # t
    BY <1>3, <1>k, <2>4, <2>6, <2>9, <2>11 DEF ScopesAgree
  <2> QED BY <2>10, <2>11
<1>4. CASE AgentReturns(t, out) /\ scope[t] # "closed"
  BY <1>1, <1>3, <1>4 DEF AgentReturns, TypeOK
<1>5. CASE AgentReturns(t, out) /\ scope[t] = "closed"
  <2>1. owner[t] # Root
    BY <1>5 DEF AgentReturns, ScopesAgree
  <2>2. /\ run' = [run EXCEPT ![t] = out]
        /\ UNCHANGED <<status, scope, closeCur, closeTodo, closeWait>>
    BY <1>5 DEF AgentReturns, statusVars, closeVars
  <2>3. \A u \in Tasks : /\ OwnedBy(u)' = OwnedBy(u)
                         /\ u # t => run'[u] = run[u]
    BY <1>k, <2>2 DEF OwnedBy, Pending, TypeOK
  <2> QED BY <1>k, <2>1, <2>2, <2>3 DEF ScopesAgree
<1>6. CASE CloseAdvance(t) /\ closeCur[t] # t
  <2>1. /\ run[t] = "closing" /\ run' = run
        /\ scope' = [scope EXCEPT ![closeCur[t]] = "closed"]
        /\ CloseNext(t, closeTodo[t])
    BY <1>6 DEF CloseAdvance
  <2>2. closeTodo[t] \in SUBSET Scopes /\ kind[t] = "subagent"
    BY <2>1 DEF TypeOK, ExecutorsAgree
  <2>3. \A d \in Tasks : owner[d] = Root => d \notin closeTodo[t] /\ closeCur[t] # d
    BY <1>6, OnlyItsOwnClose
  <2>4. \A d \in Tasks : owner[d] = Root => scope'[d] = scope[d]
    BY <2>1, <2>3 DEF TypeOK, Tasks, Scopes
  <2> QED BY <1>3, <2>1, <2>2, <2>3, <2>4
<1>7. CASE CloseAdvance(t) /\ closeCur[t] = t
  <2>1. /\ run[t] = "closing"
        /\ \A w \in closeWait[t] : Settled(w)
        /\ scope' = [scope EXCEPT ![t] = "closed"]
        /\ run' = [run EXCEPT ![t] = closeOut[t]]
        /\ closeCur' = [closeCur EXCEPT ![t] = None]
        /\ closeWait' = [closeWait EXCEPT ![t] = {}]
        /\ UNCHANGED <<closeTodo, status>>
    BY <1>7 DEF CloseAdvance, statusVars
  <2>2. closeOut[t] \in Outcomes /\ closeWait[t] \in SUBSET Tasks
    BY <2>1 DEF ExecutorsAgree, TypeOK
  <2>3. \A w \in Tasks : Settled(w) => ~Pending(w)
    BY DEF TypeOK, RecordsAgree, Settled, Pending, Live, Terminal
  <2>4. owner[t] = Root => OwnedBy(t) = {}
    BY <1>7, <2>1, <2>2, <2>3 DEF ScopesAgree, OwnedBy
  <2>5. \A u \in Tasks : OwnedBy(u)' = OwnedBy(u)
    BY <1>k, <2>1 DEF OwnedBy, Pending
  <2>6. \A u \in Tasks : u # t => /\ run'[u] = run[u] /\ closeCur'[u] = closeCur[u]
                                  /\ closeWait'[u] = closeWait[u] /\ scope'[u] = scope[u]
    BY <1>s, <2>1 DEF TypeOK, Tasks, Scopes
  <2>7. run'[t] \in Outcomes /\ closeCur'[t] = None
    BY <2>1, <2>2 DEF TypeOK
  <2> HIDE DEF IInv
  <2>8. \A d, u \in Tasks : owner[d] = Root =>
          d \notin closeTodo'[u] /\ (closeCur'[u] = d => u = d)
    BY <2>1, <2>6, <2>7, OnlyItsOwnClose DEF Tasks, None
  <2> SUFFICES ASSUME NEW d \in Tasks
               PROVE  (/\ parent[d] # None => parent[d] = owner[d] /\ status[d] # "none"
                       /\ kind[d] = "scheduled" => owner[d] = Root
                       /\ owner[d] = Root => status[d] # "none"
                       /\ owner[d] = Root =>
                            /\ run[d] = "live" /\ kind[d] = "subagent" => scope[d] = "open"
                            /\ run[d] = "closing" /\ closeCur[d] = d
                                 => OwnedBy(d) \subseteq closeWait[d]
                            /\ OwnedBy(d) # {}
                                 => run[d] \in {"live", "closing"} /\ kind[d] = "subagent")'
    BY <1>k, <2>8 DEF ScopesAgree
  <2>9. CASE d = t
    BY <1>k, <2>1, <2>4, <2>5, <2>7, <2>9 DEF ScopesAgree, Outcomes
  <2>10. CASE d # t
    BY <1>k, <2>1, <2>5, <2>6, <2>10 DEF ScopesAgree
  <2> QED BY <2>9, <2>10
<1> QED BY <1>4, <1>5, <1>6, <1>7

LEMMA ScopesStep == IInv /\ ScopesAgree /\ [Next]_vars => ScopesAgree'
<1> SUFFICES ASSUME IInv, ScopesAgree, [Next]_vars PROVE ScopesAgree'
  OBVIOUS
<1> USE DEF IInv
<1>1. ASSUME NEW a \in Scopes, NEW foreground \in ForegroundModes,
             StartTool(a, foreground) \/ Spawn(a, foreground)
      PROVE  ScopesAgree'
  BY <1>1, CreateRecordScopes DEF StartTool, Spawn, Kinds
<1>2. CASE Schedule
  <2>1. Root \in Scopes /\ AgentLive(Root)
    BY TaskManagerAssumption DEF Root, Scopes, AgentLive
  <2> QED BY <1>2, <2>1, CreateRecordScopes DEF Schedule, Kinds
<1>3. ASSUME NEW T \in SUBSET Tasks, NEW why \in Reasons, StopNow(T, why),
             UNCHANGED <<recordVars, run, scopeVars, closeVars>>
      PROVE  ScopesAgree'
  BY <1>3, StopNowEffect, QuietScopes
<1>4. CASE \/ \E a \in Scopes, u \in Tasks : TaskStop(a, u)
           \/ InterruptAll \/ ReapAll
  <2>1. PendingTasks \in SUBSET Tasks /\ {u \in reapers : ~Aborted(u)} \in SUBSET Tasks
        /\ \A u \in Tasks : {u} \in SUBSET Tasks
    BY DEF PendingTasks, TypeOK
  <2>2. "task_stop" \in Reasons /\ "interrupt" \in Reasons
    BY DEF Reasons
  <2> QED BY <1>3, <1>4, <2>1, <2>2 DEF TaskStop, InterruptAll, ReapAll
<1>5. ASSUME NEW t \in Tasks, Executor(t)
      PROVE  ScopesAgree'
  <2>1. PICK out \in Outcomes : \/ BeginTool(t) \/ BeginSubagent(t)
                                \/ EndTool(t, out) \/ AgentReturns(t, out)
                                \/ CloseAdvance(t) \/ Settle(t)
    BY <1>5 DEF Executor, Outcomes
  <2> QED BY <2>1, ExecutorScopes, CloseScopes
<1>6. CASE \/ \E a \in Scopes : TaskStopReturns(a)
           \/ \E u \in Tasks : BudgetElapses(u) \/ RaceReturns(u)
           \/ NextSettled \/ BarrierPasses \/ UNCHANGED vars
  <2>1. UNCHANGED <<status, recordVars, run, scopeVars, closeVars>>
    BY <1>6 DEF TaskStopReturns, BudgetElapses, RaceReturns, NextSettled,
                BarrierPasses, vars, statusVars
  <2> QED BY <2>1, QuietScopes
<1>7. CASE Recover
  <2>1. /\ UNCHANGED <<kind, owner>>
        /\ \A t \in Tasks : /\ run'[t] = "none" /\ closeTodo'[t] = {}
                            /\ closeCur'[t] = None
                            /\ status[t] # "none" => status'[t] # "none"
        /\ \A s \in Scopes : parent'[s] = None
    BY <1>7 DEF Recover, recordVars
  <2>2. \A c \in Tasks : Pending(c)' => kind[c] = "scheduled"
    BY <1>7 DEF Recover, LostTasks, Pending, Live, RecordsAgree
  <2>3. \A t \in Tasks : OwnedBy(t)' = {} /\ t \in Scopes /\ None \notin Tasks
    BY <2>1, <2>2 DEF OwnedBy, ScopesAgree, Tasks, Scopes, Root, None
  <2>4. Root \in Scopes
    BY TaskManagerAssumption DEF Root, Scopes
  <2> QED BY <2>1, <2>3, <2>4 DEF ScopesAgree
<1> QED BY <1>1, <1>2, <1>4, <1>5, <1>6, <1>7 DEF Next, ToolCall

(* Nothing runs on that nobody will end: once a subagent of the parent     *)
(* agent has settled its scope owns no pending task, and a running command *)
(* is always either known to shutdown or already told to stop.             *)
THEOREM Covered == Spec => []NothingEscapes
<1>1. Init => EInv
  <2> SUFFICES ASSUME Init PROVE ScopesAgree /\ ProcessIsCovered
    BY InitIInv DEF EInv
  <2>1. ProcessIsCovered
    BY DEF Init, ProcessIsCovered
  <2>2. Root \in Scopes /\ None # Root /\ \A t \in Tasks : t \in Scopes /\ OwnedBy(t) = {}
    BY TaskManagerAssumption
       DEF Init, OwnedBy, Pending, Live, Tasks, Scopes, Root, None
  <2>3. ScopesAgree
    BY <2>2 DEF Init, ScopesAgree
  <2> QED BY <2>1, <2>3
<1>2. EInv /\ [Next]_vars => EInv'
  BY NextIInv, ScopesStep, CoveredStep DEF EInv
<1>3. EInv => NothingEscapes
  <2> SUFFICES ASSUME EInv, NEW t \in Tasks, NEW c \in Tasks,
                      owner[t] = Root, Settled(t), owner[c] = t
               PROVE  ~Pending(c)
    BY DEF EInv, NothingEscapes, SubagentLeavesNothing
  <2>1. run[t] = "none"
    BY DEF EInv, IInv, TypeOK, RecordsAgree, Settled, Terminal
  <2>2. OwnedBy(t) = {}
    BY <2>1 DEF EInv, ScopesAgree
  <2> QED BY <2>2 DEF OwnedBy
<1> QED BY <1>1, <1>2, <1>3, PTL DEF Spec
=============================================================================
