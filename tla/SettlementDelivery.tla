------------------------- MODULE SettlementDelivery -------------------------
(***************************************************************************)
(* How the end of a task reaches the parent agent inside one turn: the     *)
(* posture map, the held buffer and the microtask of                       *)
(* src/turn-runner/turn-runner.ts, the foreground calls of task-tools.ts   *)
(* and the queues of the pi agent the notices are steered into.            *)
(*                                                                         *)
(* A settled task leaves the kernel's queue for the held buffer.  While    *)
(* any foreground call is undecided nothing leaves the buffer.  After that *)
(* the settlements whose result a call already returned are dropped and    *)
(* the rest is either steered into the running pass or put in front of the *)
(* loop's inputs.  The kernel itself is TaskManager; here a task only runs *)
(* and settles.  Interrupts are the subject of TurnLoop.                   *)
(*                                                                         *)
(* The order inside a queue of settlements tells no property apart, so the *)
(* queues of settlements are sets; parentInputs keeps its order.           *)
(***************************************************************************)
EXTENDS Integers, Sequences, FiniteSets, SequencesExt

CONSTANTS
  Task,         (* the tasks one turn may start                            *)
  Root,         (* the parent agent, the caller of the turn's own tools    *)
  MaxSteers,    (* bound: steer commands the user sends during the turn    *)
  MaxSelects,   (* bound: state tasks the parent selects in the turn       *)
  Spare         (* bound: how many tasks are left to turns without these   *)

ASSUME SettlementAssumption ==
  /\ IsFiniteSet(Task)
  /\ Root \notin Task
  /\ MaxSteers \in Nat
  /\ MaxSelects \in Nat /\ Spare \in Nat

VARIABLES
  work,      (* the kernel's status: "new", "running" or "settled"         *)
  lane,      (* what started the task: a tool, a spawn or a state          *)
  caller,    (* the agent whose tool call started it                       *)
  call,      (* its tool call, see CallStates                              *)
  kernel,    (* the settlements nextSettled() has still to return          *)
  held,      (* heldSettlements                                            *)
  posture,   (* taskSettlementDelivery, "none" where the map has no entry  *)
  queued,    (* settlementDeliveryQueued: the microtask is pending         *)
  inputs,    (* parentInputs                                               *)
  stateTasks,(* stateTasks' keys                                           *)
  ignored,   (* ignoredTaskSettlements                                     *)
  reminded,  (* remindedTasks of runTurnLoop                               *)
  loop,      (* where runTurnLoop stands                                   *)
  woken,     (* the promise waitForLoopActivity races has resolved         *)
  pass,      (* the parent pass; # "none" is parentAgentRunning            *)
  lanes,     (* how pi runs the current batch of tool calls                *)
  control,   (* parentControlResults holds a result                        *)
  steered,   (* the settlements in pi's steering queue                     *)
  told,      (* history: how the parent, or the loop, learned of the end   *)
  cleared,   (* history: notices clearAllQueues() threw away               *)
  steers, selects

taskVars  == <<work, lane, caller, call>>
queueVars == <<kernel, held, posture, inputs, steered>>
loopVars  == <<stateTasks, ignored, reminded, loop>>
passVars  == <<pass, lanes, control>>
logVars   == <<told, cleared, steers, selects>>
vars == <<taskVars, queueVars, queued, woken, loopVars, passVars, logVars>>

(* A foreground call races its budget ("waiting") until raceForeground has *)
(* an answer, and runs onForegroundResult one microtask later.             *)
CallStates == {"none", "waiting", "settled", "converted", "answered", "background"}
Undecided  == {"waiting", "settled", "converted"}

Postures   == {"none", "deliver", "suppress", "foreground_pending"}
InputTypes == {"user_command", "task_settlements", "background_task_cleanup",
               "transition_enforcement"}
PassStates == {"none", "rerouting", "model", "tools", "returning"}
LoopStates == {"select", "waiting", "pass", "replacing", "ended"}

-----------------------------------------------------------------------------
Running == {t \in Task : work[t] = "running"}

(* Mutant: a task that has ended counts as open work.                      *)
StartedIsOpen == \E t \in Task : work[t] # "new"

(* pendingWork().kind = "open"                                             *)
Open == Running # {}

ForegroundPending == {t \in Task : posture[t] = "foreground_pending"}

UndecidedCalls(a) == {t \in Task : caller[t] = a /\ call[t] \in Undecided}

(* An agent with a call in the foreground waits for that call.             *)
Children(a) == {t \in Running : caller[t] = a}

Input(type, S) == [type |-> type, tasks |-> S]

(* The entries of q at the positions I, in their order.                    *)
Rank(I, i)   == Cardinality({j \in I : j <= i})
Picked(q, I) == [n \in 1 .. Cardinality(I) |-> q[CHOOSE i \in I : Rank(I, i) = n]]

Init ==
  /\ work = [t \in Task |-> "new"]
  /\ lane = [t \in Task |-> "none"]
  /\ caller = [t \in Task |-> Root]
  /\ call = [t \in Task |-> "none"]
  /\ kernel = {} /\ held = {} /\ steered = {}
  /\ posture = [t \in Task |-> "none"]
  /\ queued = FALSE
  /\ inputs = <<Input("user_command", {})>>
  /\ stateTasks = {} /\ ignored = {} /\ reminded = {}
  /\ loop = "select"
  /\ woken = FALSE
  /\ pass = "none" /\ lanes = "sequential" /\ control = FALSE
  /\ told = [t \in Task |-> {}]
  /\ cleared = {}
  /\ steers = 0 /\ selects = 0

-----------------------------------------------------------------------------
(* Mutant: the kernel's queue is drained only when something is delivered. *)
HoldsOnlyToDeliver == IF ForegroundPending = {} THEN kernel ELSE {}

(* What holdSettledTasks takes out of the kernel's queue, also while the   *)
(* foreground call of another task keeps it from being delivered.          *)
HeldNow == kernel

(* Mutant: a state's settlement may be steered like any other.             *)
CanSteerStates(batch) == pass # "none" /\ ~control /\ batch # {}

CanSteer(batch) == pass # "none" /\ ~control /\ batch \cap stateTasks = {}

(* enqueueAvailableSettlements, as the values it leaves behind.            *)
Flushed ==
  LET all   == held \cup HeldNow
      batch == {t \in all : posture[t] # "suppress"}
      keep  == [kernel |-> kernel \ HeldNow, held |-> all,
                posture |-> posture, inputs |-> inputs, steered |-> steered]
      flush == [keep EXCEPT !.held = {},
                !.posture = [t \in Task |-> IF t \in all THEN "none" ELSE posture[t]]]
  IN  IF ForegroundPending # {} THEN keep
      ELSE IF batch = {} THEN flush
      ELSE IF CanSteer(batch) THEN [flush EXCEPT !.steered = @ \cup batch]
      ELSE [flush EXCEPT !.inputs = <<Input("task_settlements", batch)>> \o @]

(* The microtask of scheduleSettlementDelivery.                            *)
DeliverSettlements ==
  /\ queued
  /\ queued' = FALSE
  /\ kernel' = Flushed.kernel
  /\ held' = Flushed.held
  /\ posture' = Flushed.posture
  /\ inputs' = Flushed.inputs
  /\ steered' = Flushed.steered
  /\ woken' = (woken \/ loop = "waiting")
  /\ UNCHANGED <<taskVars, loopVars, passVars, logVars>>

(* The kernel settles a task and handleTaskEvent hears of it.  A subagent  *)
(* settles after its own scope has closed, a state task may leave its      *)
(* children to the turn's root scope.                                      *)
Settle(t) ==
  /\ work[t] = "running"
  /\ UndecidedCalls(t) = {}
  /\ lane[t] = "spawn" => Children(t) = {}
  /\ work' = [work EXCEPT ![t] = "settled"]
  /\ kernel' = kernel \cup {t}
  /\ queued' = (queued \/ posture[t] # "foreground_pending")
  /\ woken' = (woken \/ loop = "waiting")
  /\ UNCHANGED <<lane, caller, call, held, posture, inputs, steered, loopVars,
                 passVars, logVars>>

-----------------------------------------------------------------------------
(* Tool calls                                                              *)

(* Ids are handed out in one order.                                        *)
NextTask == CHOOSE t \in Task : work[t] = "new"

Unused  == Cardinality({t \in Task : work[t] = "new"})
MayCall == Unused > IF steers + selects = 0 THEN 0 ELSE Spare

(* Mutant: the map stores the flag onTaskStarted was called with.          *)
FlagAsPosture(foreground) == IF foreground THEN "true" ELSE "false"

StartPosture(foreground) == IF foreground THEN "foreground_pending" ELSE "deliver"

StartCall(t, l, a, foreground) ==
  /\ work[t] = "new" /\ t = NextTask /\ MayCall
  /\ work' = [work EXCEPT ![t] = "running"]
  /\ lane' = [lane EXCEPT ![t] = l]
  /\ caller' = [caller EXCEPT ![t] = a]
  /\ call' = [call EXCEPT ![t] = IF foreground THEN "waiting" ELSE "background"]
  /\ posture' = [posture EXCEPT ![t] = StartPosture(foreground)]
  /\ UNCHANGED <<kernel, held, inputs, steered, queued, woken, loopVars, passVars,
                 logVars>>

(* A call of the parent's batch.  One sequential tool in a batch makes the *)
(* whole batch sequential; only spawns run beside each other.              *)
ParentCalls(t, l, foreground) ==
  /\ pass = "tools"
  /\ IF lanes = "parallel" THEN l = "spawn" ELSE UndecidedCalls(Root) = {}
  /\ StartCall(t, l, Root, foreground)

(* A call of a subagent or of a state's agent, which holds the parent's    *)
(* notices back just as the parent's own calls do.                         *)
ChildCalls(t, a, foreground) ==
  /\ a \in Running /\ lane[a] \in {"spawn", "state"}
  /\ caller[a] = Root
  /\ UndecidedCalls(a) = {}
  /\ StartCall(t, "tool", a, foreground)

(* raceForeground resolves with the settlement ...                         *)
RaceSettles(t) ==
  /\ call[t] = "waiting" /\ work[t] = "settled"
  /\ call' = [call EXCEPT ![t] = "settled"]
  /\ UNCHANGED <<work, lane, caller, queueVars, queued, woken, loopVars, passVars,
                 logVars>>

(* ... or with a task that is still running when the budget has elapsed.   *)
BudgetElapses(t) ==
  /\ call[t] = "waiting" /\ work[t] = "running"
  /\ call' = [call EXCEPT ![t] = "converted"]
  /\ UNCHANGED <<work, lane, caller, queueVars, queued, woken, loopVars, passVars,
                 logVars>>

(* Mutant: a result the call has returned is delivered like any other.     *)
DeliverAlways(answer) == "deliver"

ResultPosture(answer) == IF answer = "settled" THEN "suppress" ELSE "deliver"

(* Mutant: leaves the delivery to the settlement's own event.              *)
ForegroundResultQuietly(t) ==
  /\ call[t] \in {"settled", "converted"}
  /\ call' = [call EXCEPT ![t] = IF @ = "settled" THEN "answered" ELSE "background"]
  /\ posture' = [posture EXCEPT ![t] = ResultPosture(call[t])]
  /\ told' = IF call[t] = "settled" THEN [told EXCEPT ![t] = @ \cup {"result"}]
             ELSE told
  /\ UNCHANGED <<work, lane, caller, kernel, held, inputs, steered, queued, woken,
                 loopVars, passVars, cleared, steers, selects>>

(* onForegroundResult and the return of the tool call.                     *)
ForegroundResult(t) ==
  /\ call[t] \in {"settled", "converted"}
  /\ call' = [call EXCEPT ![t] = IF @ = "settled" THEN "answered" ELSE "background"]
  /\ posture' = [posture EXCEPT ![t] = ResultPosture(call[t])]
  /\ told' = IF call[t] = "settled" THEN [told EXCEPT ![t] = @ \cup {"result"}]
             ELSE told
  /\ queued' = TRUE
  /\ UNCHANGED <<work, lane, caller, kernel, held, inputs, steered, woken, loopVars,
                 passVars, cleared, steers, selects>>

-----------------------------------------------------------------------------
(* The parent pass: runAgentWorker and the pi agent it drives.             *)

(* pi takes everything from its steering queue at once.                    *)
Tell(S, way) == told' = [t \in Task |-> IF t \in S THEN told[t] \cup {way} ELSE told[t]]

Drain == Tell(steered, "notice") /\ steered' = {}

PromptStarts ==
  /\ pass = "rerouting"
  /\ pass' = "model"
  /\ Drain
  /\ UNCHANGED <<taskVars, kernel, held, posture, inputs, queued, woken, loopVars,
                 lanes, control, cleared, steers, selects>>

ModelCallsTools(l) ==
  /\ pass = "model"
  /\ pass' = "tools"
  /\ lanes' = l
  /\ UNCHANGED <<taskVars, queueVars, queued, woken, loopVars, control, logVars>>

(* The model answers without tools; a steer that came in meanwhile makes   *)
(* pi go on.                                                               *)
ModelAnswers ==
  /\ pass = "model"
  /\ pass' = IF steered = {} THEN "returning" ELSE "model"
  /\ Drain
  /\ UNCHANGED <<taskVars, kernel, held, posture, inputs, queued, woken, loopVars,
                 lanes, control, cleared, steers, selects>>

(* The request fails: pi returns without looking at its queues.            *)
ModelFails ==
  /\ pass = "model"
  /\ pass' = "returning"
  /\ UNCHANGED <<taskVars, queueVars, queued, woken, loopVars, lanes, control, logVars>>

(* captureParentControlResult: a state selection ends the pass.            *)
ControlTool ==
  /\ pass = "tools" /\ lanes = "sequential"
  /\ UndecidedCalls(Root) = {}
  /\ ~control
  /\ selects < MaxSelects /\ Unused > Spare
  /\ control' = TRUE
  /\ UNCHANGED <<taskVars, queueVars, queued, woken, loopVars, pass, lanes, logVars>>

(* The batch is done: shouldStopAfterTurn, then the steering queue.        *)
BatchEnds ==
  /\ pass = "tools"
  /\ UndecidedCalls(Root) = {}
  /\ pass' = IF control THEN "returning" ELSE "model"
  /\ IF control THEN UNCHANGED <<told, steered>> ELSE Drain
  /\ lanes' = "sequential"
  /\ UNCHANGED <<taskVars, kernel, held, posture, inputs, queued, woken, loopVars,
                 control, cleared, steers, selects>>

(* clearAllQueues()                                                        *)
ClearedQueues == {}

(* The finally of runAgentWorker, and the start of what a selection asks:  *)
(* replaceActiveStateTasks retires every state task there is.              *)
PassReturns ==
  /\ pass = "returning"
  /\ pass' = "none"
  /\ cleared' = cleared \cup (steered \ ClearedQueues)
  /\ steered' = ClearedQueues
  /\ control' = FALSE
  /\ loop' = IF control THEN "replacing" ELSE "select"
  /\ ignored' = IF control THEN ignored \cup stateTasks ELSE ignored
  /\ UNCHANGED <<taskVars, kernel, held, posture, inputs, queued, woken, stateTasks,
                 reminded, lanes, told, steers, selects>>

(* runStateMachineDecision after its awaits: the old tasks have unwound,   *)
(* an owed transition is paid, and the selected state may need a task.     *)
WithoutEnforcement ==
  Picked(inputs, {i \in DOMAIN inputs : inputs[i].type # "transition_enforcement"})

StateSelected ==
  /\ loop = "replacing"
  /\ stateTasks \cap Running = {}
  /\ loop' = "select"
  /\ inputs' = WithoutEnforcement
  /\ selects' = selects + 1
  /\ \/ \E t \in Task :
          /\ work[t] = "new" /\ t = NextTask /\ Unused > Spare
          /\ work' = [work EXCEPT ![t] = "running"]
          /\ lane' = [lane EXCEPT ![t] = "state"]
          /\ stateTasks' = stateTasks \cup {t}
     \/ UNCHANGED <<work, lane, stateTasks>>
  /\ UNCHANGED <<caller, call, kernel, held, posture, steered, queued, woken, ignored,
                 reminded, passVars, told, cleared, steers>>

-----------------------------------------------------------------------------
(* runTurnLoop                                                             *)

(* The input the loop may run: with work open only settlements, cleanups   *)
(* and steers.                                                             *)
Runnable(q) ==
  {i \in DOMAIN q : Open => q[i].type # "transition_enforcement"}

FirstRunnable(q) == CHOOSE i \in Runnable(q) : \A j \in Runnable(q) : i <= j

(* Every step of the loop begins with enqueueAvailableSettlements.         *)
LoopFlushes ==
  /\ kernel' = Flushed.kernel
  /\ held' = Flushed.held
  /\ posture' = Flushed.posture
  /\ steered' = Flushed.steered

StartPass == loop' = "pass" /\ pass' = "rerouting"

(* Mutant: the other ends of a batch are dropped with a state's outcome.   *)
ForgetOthers(rest, others) == rest

(* this.parentInputs.unshift({ type: "task_settlements", ... })            *)
PutBack(rest, others) == <<Input("task_settlements", others)>> \o rest

(* processTaskSettlements: state tasks are recorded or ignored; the other  *)
(* ends need a pass, which waits behind a state's outcome.                 *)
TakeSettlements(rest, S) ==
  LET retired  == S \cap ignored
      recorded == (S \cap stateTasks) \ ignored
      others   == S \ (stateTasks \cup ignored)
      after    == IF recorded # {} /\ others # {}
                    THEN PutBack(rest, others) ELSE rest
  IN  /\ ignored' = ignored \ retired
      /\ stateTasks' = stateTasks \ S
      /\ inputs' = IF recorded = {} THEN after
                   ELSE Append(after, Input("transition_enforcement", {}))
      /\ reminded' = IF recorded = {} THEN reminded ELSE {}
      /\ told' = [t \in Task |->
                    CASE t \in retired -> told[t] \cup {"ignored"}
                      [] t \in recorded -> told[t] \cup {"state"}
                      [] t \in others /\ recorded = {} -> told[t] \cup {"notice"}
                      [] OTHER -> told[t]]
      /\ IF recorded = {} /\ others # {} THEN StartPass
         ELSE loop' = "select" /\ UNCHANGED pass

(* Every other input starts a parent pass; a cleanup whose tasks have all  *)
(* ended meanwhile does nothing.                                           *)
TakePrompt(rest, type) ==
  /\ inputs' = rest
  /\ UNCHANGED <<ignored, stateTasks, reminded, told>>
  /\ IF type = "background_task_cleanup" /\ ~Open
       THEN loop' = "select" /\ UNCHANGED pass
       ELSE StartPass

LoopTakesInput ==
  LET q == Flushed.inputs
      i == FirstRunnable(q)
  IN  /\ loop = "select"
      /\ Runnable(q) # {}
      /\ LoopFlushes
      /\ IF q[i].type = "task_settlements"
           THEN TakeSettlements(RemoveAt(q, i), q[i].tasks)
           ELSE TakePrompt(RemoveAt(q, i), q[i].type)
      /\ UNCHANGED <<taskVars, queued, woken, lanes, control, cleared, steers, selects>>

(* Nothing runnable and work open: one cleanup pass per task, then wait.   *)
LoopCleansUp ==
  /\ loop = "select"
  /\ Runnable(Flushed.inputs) = {}
  /\ Open
  /\ Running \cap stateTasks = {}
  /\ Running \ reminded # {}
  /\ reminded' = reminded \cup Running
  /\ LoopFlushes
  /\ inputs' = Append(Flushed.inputs, Input("background_task_cleanup", {}))
  /\ UNCHANGED <<taskVars, queued, woken, stateTasks, ignored, loop, passVars, logVars>>

(* waitForLoopActivity: waitForSettlement resolves at once when the kernel *)
(* still has a settlement to hand out.                                     *)
LoopWaits ==
  /\ loop = "select"
  /\ Runnable(Flushed.inputs) = {}
  /\ Open
  /\ Running \cap stateTasks # {} \/ Running \subseteq reminded
  /\ LoopFlushes
  /\ inputs' = Flushed.inputs
  /\ loop' = "waiting"
  /\ woken' = (Flushed.kernel # {})
  /\ UNCHANGED <<taskVars, queued, stateTasks, ignored, reminded, passVars, logVars>>

LoopWakes ==
  /\ loop = "waiting" /\ woken
  /\ loop' = "select"
  /\ woken' = FALSE
  /\ UNCHANGED <<taskVars, queueVars, queued, stateTasks, ignored, reminded, passVars,
                 logVars>>

(* Nothing runnable and nothing open: discardStaleTaskSettlements and the  *)
(* terminal.                                                               *)
LoopEnds ==
  /\ loop = "select"
  /\ Runnable(Flushed.inputs) = {}
  /\ ~Open
  /\ loop' = "ended"
  /\ kernel' = {} /\ held' = {}
  /\ posture' = [t \in Task |-> IF t \in held \cup kernel THEN "none" ELSE posture[t]]
  /\ stateTasks' = stateTasks \ (held \cup kernel)
  /\ ignored' = ignored \ (held \cup kernel)
  /\ inputs' = Flushed.inputs
  /\ UNCHANGED <<taskVars, steered, queued, woken, reminded, passVars, logVars>>

(* A steer command between two passes.  One that finds a pass running goes *)
(* to pi as well: TurnLoop follows it.                                     *)
UserSteers ==
  /\ steers < MaxSteers /\ Unused >= Spare
  /\ loop # "ended" /\ pass = "none"
  /\ steers' = steers + 1
  /\ inputs' = Append(inputs, Input("user_command", {}))
  /\ woken' = (woken \/ loop = "waiting")
  /\ UNCHANGED <<taskVars, kernel, held, posture, steered, queued, loopVars, passVars,
                 told, cleared, selects>>

-----------------------------------------------------------------------------
LoopStep == LoopTakesInput \/ LoopCleansUp \/ LoopWaits \/ LoopWakes \/ LoopEnds

ModelStep ==
  \/ \E l \in {"sequential", "parallel"} : ModelCallsTools(l)
  \/ ModelAnswers \/ ModelFails

PassStep == PromptStarts \/ BatchEnds \/ PassReturns \/ StateSelected

ToolStep ==
  \/ \E t \in Task, f \in BOOLEAN, l \in {"tool", "spawn"} : ParentCalls(t, l, f)
  \/ \E t, a \in Task, f \in BOOLEAN : ChildCalls(t, a, f)
  \/ ControlTool

CallStep(t) == RaceSettles(t) \/ BudgetElapses(t) \/ ForegroundResult(t)

Next ==
  \/ LoopStep \/ ModelStep \/ PassStep \/ ToolStep
  \/ \E t \in Task : CallStep(t) \/ Settle(t)
  \/ DeliverSettlements
  \/ UserSteers

Spec == Init /\ [][Next]_vars

(* The loop has a microtask to run: until it awaits something that has not *)
(* happened yet, no timer fires and no I/O is read.                        *)
Busy == loop = "select" \/ (loop = "waiting" /\ woken)

(* The code's own callbacks run, a budget's timer only when the loop lets  *)
(* it; the model, the user and the tasks do what they like, except that a  *)
(* model does not call tools for ever and a state task that was stopped    *)
(* unwinds (TaskManager's StopSettles).                                    *)
FairSpec ==
  /\ Spec
  /\ WF_vars(LoopStep) /\ WF_vars(PassStep) /\ WF_vars(DeliverSettlements)
  /\ SF_vars(ModelAnswers)
  /\ WF_vars(\E t \in Task : RaceSettles(t) \/ ForegroundResult(t))
  /\ WF_vars(~Busy /\ \E t \in Task : BudgetElapses(t) \/ (Settle(t) /\ t \in ignored))
-----------------------------------------------------------------------------
(* Properties                                                              *)

TypeOK ==
  /\ work \in [Task -> {"new", "running", "settled"}]
  /\ lane \in [Task -> {"none", "tool", "spawn", "state"}]
  /\ caller \in [Task -> Task \cup {Root}]
  /\ call \in [Task -> CallStates]
  /\ kernel \subseteq Task /\ held \subseteq Task /\ steered \subseteq Task
  /\ posture \in [Task -> Postures]
  /\ queued \in BOOLEAN /\ woken \in BOOLEAN /\ control \in BOOLEAN
  /\ inputs \in Seq([type : InputTypes, tasks : SUBSET Task])
  /\ stateTasks \subseteq Task /\ ignored \subseteq Task /\ reminded \subseteq Task
  /\ loop \in LoopStates
  /\ pass \in PassStates
  /\ lanes \in {"sequential", "parallel"}
  /\ told \in [Task -> SUBSET {"result", "notice", "state", "ignored"}]
  /\ cleared \subseteq Task
  /\ steers \in 0 .. MaxSteers /\ selects \in 0 .. MaxSelects

(* The queues a settlement that nobody has heard of yet can be in.         *)
Batches == {i \in DOMAIN inputs : inputs[i].type = "task_settlements"}

InBatch(t) == \E i \in Batches : t \in inputs[i].tasks

Queued(t) == t \in kernel \cup held \/ InBatch(t) \/ t \in steered

(* An end is told to the parent at most once: a settlement whose result the*)
(* foreground call returned is never announced again, and none is queued   *)
(* after it was told.  (A suppressed one may still sit in the buffer.)     *)
ToldOnce ==
  \A t \in Task :
    /\ Cardinality(told[t]) <= 1
    /\ told[t] # {} => ~InBatch(t) /\ t \notin steered
    /\ Cardinality({i \in Batches : t \in inputs[i].tasks}) <= 1

(* No end falls between the queues: a settled task has been told, waits in *)
(* a queue, is being returned by its call, was a notice the end of a pass  *)
(* cleared, or the turn is over.                                           *)
EndIsKept ==
  \A t \in Task : work[t] = "settled" =>
    \/ told[t] # {} \/ Queued(t) \/ call[t] \in Undecided
    \/ t \in cleared \/ loop = "ended"

(* The end of a state's worker is for the ledger: it never reaches the     *)
(* model as an ordinary notice, steered or not, in whatever batch it came. *)
StateEndsAreRecorded ==
  \A t \in Task : lane[t] = "state" =>
    /\ told[t] \subseteq {"state", "ignored"}
    /\ t \notin steered
    /\ work[t] = "settled" /\ loop = "ended" => told[t] # {}

(* Whatever callback comes first, an end is told once, to whom it is for,  *)
(* and until then it is in a queue: the three parts above.                 *)
EndsAreTold == ToldOnce /\ EndIsKept /\ StateEndsAreRecorded

(* A settlement leaves the kernel and the buffer: foreground waits end     *)
(* with their budget even when their tasks do not.                         *)
HeldIsReleased ==
  kernel \cup held # {} ~> kernel \cup held = {}

(* When no task runs any more the turn ends: the loop is not left waiting  *)
(* for activity that has already happened.                                 *)
QuietTurnEnds == <>[](Running = {}) => <>(loop = "ended")

(* Neither a settlement nor the loop is left behind: what is held comes    *)
(* out, though the budget that ends the wait is a timer, which a loop that *)
(* re-ran on what it has already seen would starve (waitForLoopActivity);  *)
(* and a turn without work ends.                                           *)
EndsAreDelivered == HeldIsReleased /\ QuietTurnEnds
=============================================================================
