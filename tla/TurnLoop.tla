------------------------------ MODULE TurnLoop ------------------------------
(***************************************************************************)
(* The turn driver of src/turn-runner/turn-runner.ts in a relay session:   *)
(* turn() and interrupt(), the loop of runTurnLoop, the parent passes it   *)
(* makes, the state selections that come out of them and the one terminal  *)
(* event that ends a turn.                                                 *)
(*                                                                         *)
(* An action is the code between two awaits; at pc = "select" the loop is  *)
(* on its way to its next await, so no input of the user comes in between, *)
(* only what other continuations may do.  Tasks only run, are asked to stop*)
(* and settle (TaskManager); settlements reach the loop between two passes *)
(* (SettlementDelivery has the steering).  The advisor review of agent mode*)
(* and the recovery of a restarted process are not part of this module.    *)
(***************************************************************************)
EXTENDS Integers, SequencesExt

CONSTANTS
  Task,           (* the tasks the session may start                       *)
  Cmd,            (* the prompts and answers the user sends                *)
  None,           (* no command                                            *)
  RetryBudget,    (* PARENT_TRANSITION_RETRY_BUDGET, 3 in the source       *)
  MaxInterrupts,  (* bound: interrupt commands                             *)
  MaxWakes,       (* bound: wake commands of the session                   *)
  MaxSelects,     (* bound: state selections                               *)
  IdleInterrupts  (* TRUE: interrupts may also arrive between two turns    *)

ASSUME TurnLoopAssumption ==
  /\ IsFiniteSet(Task) /\ IsFiniteSet(Cmd)
  /\ None \notin Cmd
  /\ RetryBudget \in Nat \ {0}
  /\ MaxInterrupts \in Nat /\ MaxWakes \in Nat /\ MaxSelects \in Nat
  /\ IdleInterrupts \in BOOLEAN

VARIABLES
  task,       (* the kernel's status of a task                             *)
  stopped,    (* tasks whose stop() was called                             *)
  fresh,      (* settlements the loop has not taken from the kernel        *)
  stateTasks, (* stateTasks' keys                                          *)
  ignored,    (* ignoredTaskSettlements                                    *)
  inputs,     (* parentInputs                                              *)
  cmd,        (* where a command stands, see CmdStates                     *)
  reads,      (* history: how often the model was given the command        *)
  behavior,   (* its behavior                                              *)
  inPi,       (* piQueuedInputs: commands in pi's steer or follow-up queue *)
  followUps,  (* state.followUpQueue                                       *)
  pc,         (* where runTurnLoop stands, "idle" between turns            *)
  woken,      (* the promise of waitForLoopActivity has resolved           *)
  pass,       (* the parent pass                                           *)
  purpose,    (* what the pass, or the selection it made, is for           *)
  attempt,    (* enforceParentTransition's attempt                         *)
  control,    (* parentControlResults: "none", "ask" or "select"           *)
  running,    (* parentAgentRunning                                        *)
  parentInterrupted, (* parentAgentInterrupted                             *)
  aborted,    (* agent.abort() reached a running request                   *)
  reason,     (* interruptReason is set                                    *)
  cleaning,   (* the tasks interruptCleanup waits for                      *)
  idleCleanup,(* an interrupt that found no turn has yet to report         *)
  reminded,   (* remindedTasks                                             *)
  questions,  (* the turn ends with questions                              *)
  withheld,   (* withheldAskQuestions                                      *)
  completion, (* completion.status                                         *)
  machine,    (* no state machine, a live one, or one with a terminal      *)
  current,    (* the kind of its current state                             *)
  owed,       (* pendingStateTransition is set                             *)
  acked,      (* terminalAcknowledged                                      *)
  nudged,     (* parkNudged                                                *)
  asleep,     (* state.status = "sleeping"                                 *)
  emitted,    (* terminalEmitted                                           *)
  last,       (* history: the last terminal event and the work under it    *)
  orphaned,   (* history: the end of the current state's work was thrown   *)
              (* away, or its timer stopped, and nothing recorded it       *)
  interrupts, wakes, selects

taskVars == <<task, stopped, fresh, stateTasks, ignored>>
cmdVars  == <<inputs, cmd, reads, behavior, inPi, followUps>>
passVars == <<pass, purpose, attempt, control, running, parentInterrupted, aborted>>
intrVars == <<reason, cleaning, idleCleanup>>
turnVars == <<pc, woken, reminded, questions, withheld, completion>>
relayVars == <<machine, current, owed, acked, nudged, asleep>>
endVars  == <<emitted, last, orphaned>>
boundVars == <<interrupts, wakes, selects>>
vars == <<taskVars, cmdVars, passVars, intrVars, turnVars, relayVars, endVars,
          boundVars>>

CmdStates  == {"new", "calling", "queued", "read", "dropped"}
Behaviors  == {"steer", "follow_up"}
InputTypes == {"user_command", "task_settlements", "transition_enforcement",
               "terminal_acknowledgment", "wake", "park_nudge",
               "background_task_cleanup"}
StateKinds == {"task", "poll", "timer", "park", "terminal"}
LoopStates == {"idle", "select", "waiting", "pass", "deciding", "failing", "exiting",
               "memory", "returning"}
Terminals  == {"none", "complete", "failed", "ask", "sleep", "interrupted"}

-----------------------------------------------------------------------------
Running   == {t \in Task : task[t] = "running"}
Scheduled == {t \in Task : task[t] = "scheduled"}
Unused    == {t \in Task : task[t] = "new"}

(* computePendingWork                                                      *)
PendingWork == IF Running # {} THEN "open" ELSE
               IF Scheduled # {} THEN "sleep" ELSE "complete"

Open == PendingWork = "open"

Input(type)      == [type |-> type, cmd |-> None, tasks |-> {}]
Command(c)       == [type |-> "user_command", cmd |-> c, tasks |-> {}]
Commands(q)      == [i \in DOMAIN q |-> Command(q[i])]
Settlements(S)   == [type |-> "task_settlements", cmd |-> None, tasks |-> S]
IsFollowUp(i)    == i.type = "user_command" /\ behavior[i.cmd] = "follow_up"
HasInput(type)   == \E i \in DOMAIN inputs : inputs[i].type = type
InInputs(c)      == \E i \in DOMAIN inputs : inputs[i].cmd = c

(* q without the entries outside the positions I, in their order: what the *)
(* source gets from filter and splice.                                     *)
Rank(I, i)       == Cardinality({j \in I : j <= i})
Picked(q, I)     == [n \in 1 .. Cardinality(I) |-> q[CHOOSE i \in I : Rank(I, i) = n]]
Without(q, c)    == Picked(q, {i \in DOMAIN q : q[i] # c})
DropCmd(q, c)    == Picked(q, {i \in DOMAIN q : q[i].cmd # c})
DropType(q, ty)  == Picked(q, {i \in DOMAIN q : q[i].type # ty})

(* retainSleepingFollowUps; a settlement that waits is an input as well.   *)
RetainsFollowUps ==
  /\ PendingWork = "sleep"
  /\ inputs # <<>> /\ fresh = {}
  /\ \A i \in DOMAIN inputs : IsFollowUp(inputs[i])

Init ==
  /\ task = [t \in Task |-> "new"]
  /\ stopped = {} /\ fresh = {} /\ stateTasks = {} /\ ignored = {}
  /\ inputs = <<>>
  /\ cmd = [c \in Cmd |-> "new"]
  /\ reads = [c \in Cmd |-> 0]
  /\ behavior = [c \in Cmd |-> "steer"]
  /\ inPi = {} /\ followUps = <<>>
  /\ pc = "idle" /\ woken = FALSE
  /\ pass = "none" /\ purpose = "none" /\ attempt = 0 /\ control = "none"
  /\ running = FALSE /\ parentInterrupted = FALSE /\ aborted = FALSE
  /\ reason = FALSE /\ cleaning = {} /\ idleCleanup = FALSE
  /\ reminded = {} /\ questions = FALSE /\ withheld = FALSE
  /\ completion = "completed"
  /\ machine = "none" /\ current = "none" /\ owed = FALSE /\ acked = FALSE
  /\ nudged = FALSE /\ asleep = FALSE
  /\ emitted = FALSE /\ last = [type |-> "none", open |-> FALSE] /\ orphaned = FALSE
  /\ interrupts = 0 /\ wakes = 0 /\ selects = 0

-----------------------------------------------------------------------------
(* Commands                                                                *)

(* turn() waits for tokens, memory and skills before it looks at the turn. *)
TurnCalled(c, b) ==
  /\ cmd[c] = "new"
  /\ cmd' = [cmd EXCEPT ![c] = "calling"]
  /\ behavior' = [behavior EXCEPT ![c] = b]
  /\ UNCHANGED <<taskVars, inputs, reads, inPi, followUps, passVars, intrVars, turnVars,
                 relayVars, endVars, boundVars>>

(* The head of runTurnLoop.  Follow-ups retained in parentInputs stay; only*)
(* without any is the durable queue copied back.                           *)
Restored ==
  IF \E i \in DOMAIN inputs : IsFollowUp(inputs[i]) THEN <<>>
  ELSE Commands(followUps)

BeginTurn(input) ==
  /\ pc = "idle"
  /\ pc' = "select"
  /\ reason' = FALSE /\ cleaning' = {}
  /\ emitted' = FALSE /\ nudged' = FALSE
  /\ reminded' = {} /\ questions' = FALSE /\ completion' = "completed"
  /\ inputs' = Append(inputs, input) \o Restored

TurnStarts(c) ==
  /\ cmd[c] = "calling"
  /\ BeginTurn(Command(c))
  /\ cmd' = [cmd EXCEPT ![c] = "queued"]
  /\ UNCHANGED <<taskVars, reads, behavior, inPi, followUps, passVars, idleCleanup,
                 woken, withheld, machine, current, owed, acked, asleep, last, orphaned,
                 boundVars>>

WakeStarts ==
  /\ asleep
  /\ wakes < MaxWakes
  /\ wakes' = wakes + 1
  /\ BeginTurn(Input("wake"))
  /\ UNCHANGED <<taskVars, cmd, reads, behavior, inPi, followUps, passVars, idleCleanup,
                 woken, withheld, machine, current, owed, acked, asleep, last, orphaned,
                 interrupts, selects>>

(* Mutant: a command for pi is not kept in parentInputs as well.           *)
HandOver(c) == IF running THEN inputs ELSE Append(inputs, Command(c))

(* handleCommandDuringActiveTurn and sendCommandToAgent: pi's queue gets a *)
(* copy, parentInputs keeps the command until pi consumes it.              *)
KeepCommand(c) == Append(inputs, Command(c))

TurnJoins(c) ==
  /\ cmd[c] = "calling"
  /\ pc # "idle"
  /\ cmd' = [cmd EXCEPT ![c] = "queued"]
  /\ inputs' = KeepCommand(c)
  /\ inPi' = IF running THEN inPi \cup {c} ELSE inPi
  /\ followUps' = IF behavior[c] = "follow_up" THEN Append(followUps, c) ELSE followUps
  /\ woken' = (woken \/ pc = "waiting")
  /\ UNCHANGED <<taskVars, reads, behavior, passVars, intrVars, pc, reminded, questions,
                 withheld, completion, relayVars, endVars, boundVars>>

(* replaceFollowUpQueue: the user strikes entry c.  All delivery copies of *)
(* follow-ups go, and what is left of the queue is handed out again.       *)
NoFollowUps(q) == Picked(q, {i \in DOMAIN q : ~IsFollowUp(q[i])})

EditFollowUps(c) ==
  /\ pc # "select"
  /\ c \in ToSet(followUps)
  /\ followUps' = Without(followUps, c)
  /\ inputs' = NoFollowUps(inputs) \o IF pc = "idle" THEN <<>> ELSE Commands(followUps')
  /\ inPi' = {d \in inPi : behavior[d] = "steer"}
              \cup IF running THEN ToSet(followUps') ELSE {}
  /\ cmd' = [d \in Cmd |->
               IF \/ d = c
                  \/ InInputs(d) /\ behavior[d] = "follow_up" /\ d \notin ToSet(followUps')
               THEN "dropped" ELSE cmd[d]]
  /\ woken' = (woken \/ (pc = "waiting" /\ followUps' # <<>>))
  /\ UNCHANGED <<taskVars, reads, behavior, passVars, intrVars, pc, reminded, questions,
                 withheld, completion, relayVars, endVars, boundVars>>

(* Mutant: an interrupt leaves the visible follow-up queue as it is.       *)
KeepFollowUps == followUps

(* clearFollowUpQueue                                                      *)
ClearedFollowUps == <<>>

(* Mutant: an interrupt stops the workers of states and nothing else.      *)
StateWorkers == Running \cap stateTasks

(* interruptAll: everything that runs.                                     *)
InterruptTargets == Running

(* interruptTasks, up to its await: a waiting or working state is recorded *)
(* as interrupted, scheduled tasks settle, running ones are told to stop.  *)
(* Of the settlements those are left that a foreground wait holds back:    *)
(* the others are in parentInputs, which the interrupt empties.            *)
InterruptTasks(held) ==
  LET retired == (IF current \in {"poll", "timer"} THEN Scheduled ELSE {})
                   \cup (stateTasks \cap Running)
  IN  /\ current' = IF retired # {} THEN "interrupted" ELSE current
      /\ ignored' = ignored \cup retired
      /\ task' = [t \in Task |-> IF t \in Scheduled THEN "settled" ELSE task[t]]
      /\ fresh' = held \cup Scheduled
      /\ stopped' = stopped \cup InterruptTargets
      /\ cleaning' = InterruptTargets
      /\ orphaned' = (orphaned \/ (fresh \ held) \cap (stateTasks \ ignored) # {})

Interrupt ==
  /\ interrupts < MaxInterrupts
  /\ pc # "select"
  /\ pc = "idle" => IdleInterrupts
  /\ interrupts' = interrupts + 1
  /\ reason' = TRUE
  /\ parentInterrupted' = running
  /\ aborted' = (pass = "prompting")
  /\ running' = FALSE
  /\ inPi' = {} /\ inputs' = <<>> /\ followUps' = ClearedFollowUps
  /\ cmd' = [c \in Cmd |-> IF InInputs(c) \/ c \in ToSet(followUps)
                             THEN "dropped" ELSE cmd[c]]
  /\ \E held \in SUBSET fresh : InterruptTasks(held)
  /\ idleCleanup' = (idleCleanup \/ pc = "idle")
  /\ emitted' = (emitted /\ pc # "idle")
  /\ woken' = (woken \/ (pc = "waiting" /\ Scheduled # {}))
  /\ UNCHANGED <<stateTasks, reads, behavior, pass, purpose, attempt, control, pc,
                 reminded, questions, withheld, completion, machine, owed, acked, nudged,
                 asleep, last, wakes, selects>>

(* emitTerminalOnce                                                        *)
Emit(type) ==
  /\ emitted' = TRUE
  /\ last' = IF emitted THEN last ELSE [type |-> type, open |-> Open]

(* The .then of an interrupt that found no active turn.  Once it waits for *)
(* no task it is a microtask, which comes before anything that needs a     *)
(* request or a file.                                                      *)
ReportDue == idleCleanup /\ cleaning \cap Running = {}

IdleInterruptReports ==
  /\ ReportDue
  /\ idleCleanup' = FALSE
  /\ asleep' = FALSE
  /\ Emit("interrupted")
  /\ UNCHANGED <<orphaned, taskVars, cmdVars, passVars, reason, cleaning, turnVars, machine,
                 current, owed, acked, nudged, boundVars>>

-----------------------------------------------------------------------------
(* Tasks                                                                   *)

Settle(t) ==
  /\ task[t] = "running"
  /\ task' = [task EXCEPT ![t] = "settled"]
  /\ fresh' = fresh \cup {t}
  /\ woken' = (woken \/ pc = "waiting")
  /\ UNCHANGED <<stopped, stateTasks, ignored, cmdVars, passVars, intrVars, pc, reminded,
                 questions, withheld, completion, relayVars, endVars, boundVars>>

-----------------------------------------------------------------------------
(* The parent pass                                                         *)

(* runParentPass and the head of runAgentWorker, up to the reroute.        *)
StartPass(what, n) ==
  /\ pc' = "pass"
  /\ pass' = "preparing"
  /\ purpose' = what
  /\ attempt' = n
  /\ control' = "none"
  /\ running' = TRUE /\ parentInterrupted' = FALSE /\ aborted' = FALSE
  /\ withheld' = FALSE

NoPass == UNCHANGED passVars /\ UNCHANGED withheld

(* agent.prompt, also when an interrupt came during the reroute.           *)
PromptStarts ==
  /\ pass = "preparing"
  /\ ~ReportDue
  /\ pass' = "prompting"
  /\ UNCHANGED <<taskVars, cmdVars, purpose, attempt, control, running,
                 parentInterrupted, aborted, intrVars, turnVars, relayVars, endVars,
                 boundVars>>

Prompting == pass = "prompting" /\ ~aborted /\ control = "none"

(* Mutant: a consumed pi message stays in parentInputs.                    *)
Unremoved(c) == inputs

(* emitParentAgentEvent: pi's copy was consumed, the loop's goes too.      *)
Removed(c) == DropCmd(inputs, c)

PiReads(c) ==
  /\ Prompting
  /\ c \in inPi
  /\ inPi' = inPi \ {c}
  /\ inputs' = Removed(c)
  /\ followUps' = Without(followUps, c)
  /\ cmd' = [cmd EXCEPT ![c] = "read"]
  /\ reads' = [reads EXCEPT ![c] = @ + 1]
  /\ UNCHANGED <<taskVars, behavior, passVars, intrVars, turnVars, relayVars, endVars,
                 boundVars>>

PassStartsTask(t) ==
  /\ Prompting
  /\ t \in Unused
  /\ task' = [task EXCEPT ![t] = "running"]
  /\ UNCHANGED <<stopped, fresh, stateTasks, ignored, cmdVars, passVars, intrVars,
                 turnVars, relayVars, endVars, boundVars>>

(* task_stop                                                               *)
PassStopsTask(t) ==
  /\ Prompting
  /\ t \in Running \ stopped
  /\ stopped' = stopped \cup {t}
  /\ UNCHANGED <<task, fresh, stateTasks, ignored, cmdVars, passVars, intrVars,
                 turnVars, relayVars, endVars, boundVars>>

ControlTool(what) ==
  /\ Prompting
  /\ what = "select" => selects < MaxSelects
  /\ control' = what
  /\ UNCHANGED <<taskVars, cmdVars, pass, purpose, attempt, running, parentInterrupted,
                 aborted, intrVars, turnVars, relayVars, endVars, boundVars>>

(* What a pass, a settlement or a selection leaves for the loop.           *)

Back == pc' = IF RetainsFollowUps' THEN "exiting" ELSE "select"

ResultNone ==
  /\ UNCHANGED <<reason, questions, completion, withheld, inputs>>
  /\ Back

ResultInterrupted ==
  /\ reason' = TRUE
  /\ UNCHANGED <<questions, completion, withheld, inputs>>
  /\ Back

(* Mutant: the ask gate lets every question through.                       *)
GateOpen == FALSE

(* An ask is withheld while work is open.                                  *)
AskGate == Open

ResultAsk ==
  /\ IF AskGate
       THEN withheld' = TRUE /\ UNCHANGED questions
       ELSE questions' = TRUE /\ UNCHANGED withheld
  /\ UNCHANGED <<reason, completion, inputs>>
  /\ Back

(* A terminal result; a state machine that ended is acknowledged once.     *)
ResultTerminal(status, q) ==
  /\ completion' = status
  /\ inputs' = IF machine' = "terminal" /\ ~acked'
                 THEN Append(q, Input("terminal_acknowledgment")) ELSE q
  /\ UNCHANGED <<reason, questions, withheld>>
  /\ Back

(* A completed state: the parent owes the machine a transition.            *)
ResultStateCompleted(q) ==
  /\ owed' = TRUE
  /\ reminded' = {}
  /\ inputs' = Append(q, Input("transition_enforcement"))
  /\ UNCHANGED <<reason, questions, completion, withheld>>
  /\ Back

(* The finally of runAgentWorker.                                          *)
EndPass ==
  /\ pass = "prompting"
  /\ pass' = "none" /\ purpose' = "none" /\ attempt' = 0 /\ control' = "none"
  /\ running' = FALSE /\ parentInterrupted' = FALSE /\ aborted' = FALSE
  /\ inPi' = {}
  /\ asleep' = (asleep /\ parentInterrupted)

(* pi drains its queues before it stops, unless the request failed, was    *)
(* aborted or a control result was captured.                               *)
MayEnd(status) == status = "failed" \/ aborted \/ control # "none" \/ inPi = {}

Enforcing == purpose = "transition_enforcement"

passFrame == <<taskVars, cmd, reads, behavior, followUps, cleaning, idleCleanup, woken,
               reminded, machine, current, owed, acked, nudged, endVars, boundVars>>

PassInterrupted ==
  /\ parentInterrupted /\ ~Enforcing
  /\ EndPass
  /\ UNCHANGED passFrame
  /\ ResultInterrupted

PassAsks ==
  /\ control = "ask"
  /\ parentInterrupted => Enforcing
  /\ EndPass
  /\ UNCHANGED passFrame
  /\ ResultAsk

PassEnds(status) ==
  /\ control = "none" /\ ~parentInterrupted /\ ~Enforcing
  /\ MayEnd(status)
  /\ status = "failed" => purpose # "background_task_cleanup"
  /\ EndPass
  /\ UNCHANGED passFrame
  /\ IF purpose = "terminal_acknowledgment" THEN ResultNone
     ELSE ResultTerminal(status, inputs)

(* Scheduled tasks settle as soon as they are stopped.                     *)
StopEverything ==
  /\ task' = [t \in Task |-> IF t \in Scheduled THEN "settled" ELSE task[t]]
  /\ fresh' = fresh \cup Scheduled
  /\ stopped' = stopped \cup Running

(* A cleanup pass that failed throws: the catch interrupts everything.     *)
CleanupPassThrows ==
  /\ control = "none" /\ ~parentInterrupted
  /\ purpose = "background_task_cleanup"
  /\ EndPass
  /\ pc' = "failing"
  /\ completion' = "failed"
  /\ StopEverything
  /\ orphaned' = (orphaned \/ (current \in {"poll", "timer"} /\ Scheduled # {}))
  /\ UNCHANGED <<stateTasks, ignored, inputs, cmd, reads, behavior, followUps, intrVars,
                 woken, reminded, questions, withheld, machine, current, owed, acked,
                 nudged, emitted, last, boundVars>>

(* Mutant: one pass too many.                                              *)
OneMore == attempt <= RetryBudget

MayRetry == attempt < RetryBudget

(* enforceParentTransition does not look at the outcome of its pass: one   *)
(* without a control is tried again, and the last one pauses the relay.    *)
EnforceAgain ==
  /\ Enforcing /\ control = "none" /\ pass = "prompting"
  /\ MayRetry
  /\ StartPass(purpose, attempt + 1)
  /\ inPi' = {}
  /\ asleep' = (asleep /\ parentInterrupted)
  /\ UNCHANGED <<inputs, reason, questions, completion, passFrame>>

PauseRelay ==
  /\ Enforcing /\ control = "none" /\ ~MayRetry
  /\ EndPass
  /\ UNCHANGED passFrame
  /\ ResultAsk

(* Mutant: a worker that has settled but is not recorded yet is forgotten. *)
OnlyRunning == stateTasks \cap Running

Disowned == stateTasks

(* A selection, up to the first await of replaceActiveStateTasks: every    *)
(* old state task is retired and the working ones are stopped.             *)
PassSelects ==
  /\ control = "select"
  /\ parentInterrupted => Enforcing
  /\ EndPass
  /\ pc' = "deciding"
  /\ ignored' = ignored \cup Disowned
  /\ stopped' = stopped \cup (stateTasks \cap Running)
  /\ current' = IF stateTasks \cap Running # {} THEN "interrupted" ELSE current
  /\ UNCHANGED <<task, fresh, stateTasks, inputs, cmd, reads, behavior, followUps, intrVars,
                 woken, reminded, questions, withheld, completion, machine, owed, acked,
                 nudged, endVars, boundVars>>

-----------------------------------------------------------------------------
(* Selections                                                              *)

(* cancelScheduledTasks                                                    *)
CancelScheduled(base) ==
  /\ ignored' = ignored \cup Scheduled
  /\ fresh' = fresh \cup Scheduled
  /\ task' = [t \in Task |-> IF t \in Scheduled THEN "settled" ELSE base[t]]

StartIn(base, t, how) == [base EXCEPT ![t] = how]

(* Mutant: a selection leaves the old obligation queued.                   *)
StaleEnforcement == inputs

(* The transition is made: its queued reminders are void.                  *)
PaidInputs == DropType(inputs, "transition_enforcement")

(* executePlannedWork for a state of kind k: a worker, a scheduled wake, a *)
(* terminal, a park, or a timer whose moment has already passed.           *)
Execute(k, due) ==
  \/ /\ k \in {"task", "poll"}
     /\ nudged' = FALSE
     /\ \E t \in Unused : /\ CancelScheduled(StartIn(task, t, "running"))
                          /\ stateTasks' = stateTasks \cup {t}
     /\ inputs' = PaidInputs /\ owed' = FALSE
     /\ UNCHANGED <<reminded, reason, questions, completion, withheld>>
     /\ Back
  \/ /\ k = "timer" /\ ~due
     /\ \E t \in Unused : CancelScheduled(StartIn(task, t, "scheduled"))
     /\ inputs' = PaidInputs /\ owed' = FALSE
     /\ UNCHANGED <<stateTasks, nudged, reminded, reason, questions, completion,
                    withheld>>
     /\ Back
  \/ /\ k = "timer" /\ due
     /\ CancelScheduled(task)
     /\ ResultStateCompleted(PaidInputs)
     /\ UNCHANGED <<stateTasks, nudged>>
  \/ /\ k = "park"
     /\ CancelScheduled(task)
     /\ inputs' = PaidInputs /\ owed' = FALSE
     /\ UNCHANGED <<stateTasks, nudged, reminded, reason, questions, completion,
                    withheld>>
     /\ Back
  \/ /\ k = "terminal"
     /\ CancelScheduled(task)
     /\ owed' = FALSE
     /\ \E status \in {"completed", "failed"} : ResultTerminal(status, PaidInputs)
     /\ UNCHANGED <<stateTasks, nudged, reminded>>

(* runStateMachineDecision once the replaced workers have unwound.         *)
StateSelected(k) ==
  /\ pc = "deciding"
  /\ stateTasks \cap Running = {}
  /\ selects' = selects + 1
  /\ current' = k
  /\ machine' = IF k = "terminal" THEN "terminal" ELSE "live"
  /\ acked' = (acked /\ machine = "terminal" /\ k = "terminal")
  /\ orphaned' = FALSE
  /\ UNCHANGED <<stopped, cmd, reads, behavior, inPi, followUps, passVars, cleaning,
                 idleCleanup, woken, asleep, emitted, last, interrupts, wakes>>
  /\ \E due \in BOOLEAN : Execute(k, due)

-----------------------------------------------------------------------------
(* runTurnLoop                                                             *)

(* holdSettledTasks and the batch in front of the inputs.                  *)
Flushed == IF fresh = {} THEN inputs ELSE <<Settlements(fresh)>> \o inputs

(* Mutant: a steer waits for the open work like any other input.           *)
SettlementsOnly(i) == i.type \in {"task_settlements", "background_task_cleanup"}

RunnableWhileOpen(i) ==
  \/ i.type \in {"task_settlements", "background_task_cleanup"}
  \/ i.type = "user_command" /\ behavior[i.cmd] = "steer"

Runnable(q) == {i \in DOMAIN q : Open => RunnableWhileOpen(q[i])}

FirstRunnable(q) == CHOOSE i \in Runnable(q) : \A j \in Runnable(q) : i <= j

Looping == pc = "select" /\ ~questions /\ ~reason

NoInput == Looping /\ Runnable(Flushed) = {}

(* The input at hand and what remains of parentInputs.                     *)
Taken(type) ==
  /\ Looping
  /\ Runnable(Flushed) # {}
  /\ Flushed[FirstRunnable(Flushed)].type = type
  /\ fresh' = {}

TakenInput == Flushed[FirstRunnable(Flushed)]

Rest == RemoveAt(Flushed, FirstRunnable(Flushed))

takeFrame == <<inPi, cleaning, idleCleanup, asleep, endVars, interrupts, wakes, selects>>

TakeCommand ==
  /\ Taken("user_command")
  /\ inputs' = Rest
  /\ LET c == TakenInput.cmd IN
       /\ cmd' = [cmd EXCEPT ![c] = "read"]
       /\ reads' = [reads EXCEPT ![c] = @ + 1]
       /\ followUps' = Without(followUps, c)
  /\ StartPass("user_command", 0)
  /\ UNCHANGED <<task, stopped, stateTasks, ignored, behavior, woken, reminded, questions,
                 reason, completion, machine, current, owed, acked, nudged, takeFrame>>

(* processTaskSettlements when no end of a state's worker is to be recorded*)
TakeTaskSettlements ==
  LET S == TakenInput.tasks
      others == S \ (stateTasks \cup ignored)
  IN  /\ Taken("task_settlements")
      /\ S \cap stateTasks \subseteq ignored
      /\ ignored' = ignored \ S
      /\ stateTasks' = stateTasks \ S
      /\ inputs' = Rest
      /\ UNCHANGED <<task, stopped, cmd, reads, behavior, followUps, woken, reminded,
                     questions, reason, completion, machine, current, owed, acked, nudged,
                     takeFrame>>
      /\ IF others # {}
           THEN StartPass("task_settlements", 0)
           ELSE NoPass /\ Back

(* Mutant: a failed poll is not scheduled again.                           *)
NotRescheduled == UNCHANGED task

(* A poll that failed sleeps until its next run.                           *)
Rescheduled == \E u \in Unused : task' = [task EXCEPT ![u] = "scheduled"]

(* ... and when there is one: its outcome goes first, the other ends wait. *)
TakeStateSettlement ==
  LET S == TakenInput.tasks
      others == S \ (stateTasks \cup ignored)
      rest == IF others = {} THEN Rest ELSE <<Settlements(others)>> \o Rest
  IN  /\ Taken("task_settlements")
      /\ ignored' = ignored \ S
      /\ stateTasks' = stateTasks \ S
      /\ UNCHANGED <<stopped, cmd, reads, behavior, followUps, passVars, woken, acked,
                     nudged, takeFrame>>
      /\ \E t \in S \cap (stateTasks \ ignored) :
         \/ /\ t \notin stopped
            /\ UNCHANGED <<task, machine, current>>
            /\ ResultStateCompleted(rest)
         \/ /\ t \notin stopped
            /\ machine' = "terminal"
            /\ UNCHANGED <<task, current, owed, reminded>>
            /\ ResultTerminal("failed", rest)
         \/ /\ t \notin stopped /\ current = "poll"
            /\ Rescheduled
            /\ inputs' = rest
            /\ UNCHANGED <<machine, current, owed, reminded, reason, questions,
                           completion, withheld>>
            /\ Back
         \/ /\ t \in stopped
            /\ current' = "interrupted"
            /\ inputs' = rest
            /\ reason' = TRUE
            /\ UNCHANGED <<task, machine, owed, reminded, questions, completion,
                           withheld>>
            /\ Back

(* Inputs the runner queued for itself, each of them a continuation pass   *)
(* unless its occasion has gone.                                           *)
Stale(type) ==
  \/ type = "background_task_cleanup" /\ ~Open
  \/ type = "terminal_acknowledgment" /\ (machine # "terminal" \/ acked)

TakeContinuation(type) ==
  /\ Taken(type)
  /\ inputs' = Rest
  /\ acked' = (acked \/ (type = "terminal_acknowledgment" /\ machine = "terminal"))
  /\ UNCHANGED <<task, stopped, stateTasks, ignored, cmd, reads, behavior, followUps,
                 woken, reminded, questions, reason, completion, machine, current, owed,
                 nudged, takeFrame>>
  /\ IF Stale(type)
       THEN NoPass /\ Back
       ELSE StartPass(type, IF type = "transition_enforcement" THEN 1 ELSE 0)

(* runWakeInput with planWake: a waiting timer is due, a waiting poll runs *)
(* again or has timed out, anything else has nothing to wake.              *)
TakeWake ==
  /\ Looping
  /\ Runnable(Flushed) # {}
  /\ TakenInput.type = "wake"
  /\ UNCHANGED <<stopped, cmd, reads, behavior, followUps, passVars, woken, current,
                 acked, takeFrame>>
  /\ \/ /\ current = "timer"
        /\ CancelScheduled(task)
        /\ ResultStateCompleted(Rest)
        /\ UNCHANGED <<stateTasks, nudged, machine>>
     \/ /\ current = "poll"
        /\ \E t \in Unused : /\ CancelScheduled(StartIn(task, t, "running"))
                             /\ stateTasks' = stateTasks \cup {t}
        /\ nudged' = FALSE
        /\ inputs' = Rest
        /\ UNCHANGED <<reminded, owed, reason, questions, completion, withheld, machine>>
        /\ Back
     \/ /\ current = "poll"
        /\ CancelScheduled(task)
        /\ machine' = "terminal"
        /\ UNCHANGED <<stateTasks, nudged, reminded, owed>>
        /\ ResultTerminal("failed", Rest)
     \/ /\ current \notin {"timer", "poll"}
        /\ fresh' = {}
        /\ UNCHANGED <<task, stateTasks, ignored, nudged, reminded, owed, machine>>
        /\ ResultTerminal("completed", Rest)

(* Nothing to run and work open: one cleanup pass per task, then wait.     *)
CleanupDue == Running \cap stateTasks = {} /\ Running \ reminded # {}

idleFrame == <<task, stopped, stateTasks, ignored, cmd, reads, behavior, inPi, followUps,
               passVars, intrVars, questions, withheld, completion, machine, current, owed,
               acked, asleep, endVars, boundVars>>

QueueCleanup ==
  /\ NoInput /\ Open /\ CleanupDue
  /\ reminded' = reminded \cup Running
  /\ fresh' = {}
  /\ inputs' = Append(Flushed, Input("background_task_cleanup"))
  /\ UNCHANGED <<pc, woken, nudged, idleFrame>>

LoopWaits ==
  /\ NoInput /\ Open /\ ~CleanupDue
  /\ pc' = "waiting"
  /\ woken' = FALSE /\ fresh' = {}
  /\ inputs' = Flushed
  /\ UNCHANGED <<reminded, nudged, idleFrame>>

LoopWakes ==
  /\ pc = "waiting" /\ woken
  /\ pc' = "select" /\ woken' = FALSE
  /\ UNCHANGED <<inputs, fresh, reminded, nudged, idleFrame>>

(* Mutant: a turn may end while the machine waits for a transition.        *)
NeverOwed == FALSE

OwesTransition == owed /\ machine # "terminal"

NudgeDue ==
  /\ completion = "completed" /\ ~nudged
  /\ PendingWork = "complete"
  /\ current = "park" /\ machine # "terminal"

(* Nothing to run and nothing open: the turn ends here, unless the parent  *)
(* still owes a transition or has not been nudged about a park.            *)
QueueEnforcement ==
  /\ NoInput /\ ~Open
  /\ OwesTransition
  /\ inputs' = Append(Flushed, Input("transition_enforcement"))
  /\ fresh' = {}
  /\ UNCHANGED <<pc, woken, reminded, nudged, idleFrame>>

QueueNudge ==
  /\ NoInput /\ ~Open
  /\ ~OwesTransition /\ NudgeDue
  /\ nudged' = TRUE
  /\ inputs' = <<Input("park_nudge")>> \o Flushed
  /\ fresh' = {}
  /\ UNCHANGED <<pc, woken, reminded, idleFrame>>

LoopExits ==
  /\ \/ NoInput /\ ~Open /\ ~OwesTransition /\ ~NudgeDue
     \/ pc = "select" /\ (questions \/ reason)
     \/ pc = "failing" /\ Running = {}
  /\ pc' = "exiting"
  /\ UNCHANGED <<woken, inputs, fresh, reminded, nudged, idleFrame>>

(* The finally: interruptCleanup, then discardStaleTaskSettlements.  It    *)
(* would stop work that is still open here and fail the turn; there is     *)
(* none, see HonestTerminal.                                               *)
Leftovers == Open /\ ~reason /\ ~questions

LoopCleansUp ==
  /\ pc = "exiting"
  /\ cleaning \cap Running = {}
  /\ ~ReportDue
  /\ pc' = "memory"
  /\ fresh' = {}
  /\ LET queuedTasks == UNION {inputs[i].tasks : i \in DOMAIN inputs}
         stale == fresh \cup queuedTasks
     IN  /\ stateTasks' = stateTasks \ stale /\ ignored' = ignored \ stale
         /\ orphaned' = (orphaned \/ stale \cap (stateTasks \ ignored) # {})
  /\ inputs' = DropType(inputs, "task_settlements")
  /\ UNCHANGED <<task, stopped, cmd, reads, behavior, inPi, followUps, passVars, intrVars,
                 woken, reminded, questions, withheld, completion, relayVars, emitted, last,
                 boundVars>>

(* Mutant: inputs that came during the memory update do not count.         *)
IgnoreLateInputs == FALSE

LateInputs == ~reason /\ ~questions /\ inputs # <<>> /\ ~RetainsFollowUps

MemoryUpdated ==
  /\ pc = "memory"
  /\ LateInputs
  /\ pc' = "select"
  /\ UNCHANGED <<woken, inputs, fresh, reminded, nudged, idleFrame>>

TerminalType ==
  IF reason THEN "interrupted"
  ELSE IF questions THEN "ask"
  ELSE IF PendingWork = "sleep" THEN "sleep"
  ELSE IF completion = "failed" THEN "failed" ELSE "complete"

TurnEnds ==
  /\ pc = "memory"
  /\ ~LateInputs
  /\ pc' = "returning"
  /\ asleep' = (TerminalType = "sleep")
  /\ Emit(TerminalType)
  /\ UNCHANGED <<taskVars, cmdVars, passVars, intrVars, woken, reminded, questions,
                 withheld, completion, machine, current, owed, acked, nudged, orphaned,
                 boundVars>>

(* turn() clears activeTurnPromise some microtasks after the loop has      *)
(* returned: a command that comes in between joins a turn that is over and *)
(* waits in parentInputs for the next one.                                 *)
TurnReturns ==
  /\ pc = "returning"
  /\ pc' = "idle"
  /\ UNCHANGED <<woken, inputs, fresh, reminded, nudged, idleFrame>>

-----------------------------------------------------------------------------
Statuses == {"completed", "failed"}

Continuations == {"transition_enforcement", "terminal_acknowledgment", "park_nudge",
                  "background_task_cleanup"}

LoopStep ==
  \/ TakeCommand \/ TakeTaskSettlements \/ TakeStateSettlement \/ TakeWake
  \/ \E type \in Continuations : TakeContinuation(type)
  \/ QueueCleanup \/ LoopWaits \/ LoopWakes
  \/ QueueEnforcement \/ QueueNudge
  \/ LoopExits \/ LoopCleansUp \/ MemoryUpdated \/ TurnEnds
  \/ TurnReturns

PassStep ==
  \/ PassInterrupted \/ PassAsks \/ PassSelects
  \/ \E status \in Statuses : PassEnds(status)
  \/ CleanupPassThrows \/ EnforceAgain \/ PauseRelay

ModelStep ==
  \/ \E c \in Cmd : PiReads(c)
  \/ \E t \in Task : PassStartsTask(t) \/ PassStopsTask(t)
  \/ \E what \in {"ask", "select"} : ControlTool(what)

UserStep ==
  \/ \E c \in Cmd, b \in Behaviors : TurnCalled(c, b)
  \/ \E c \in Cmd : EditFollowUps(c)
  \/ WakeStarts
  \/ Interrupt

Select == \E k \in StateKinds : StateSelected(k)

Joins == \E c \in Cmd : TurnStarts(c) \/ TurnJoins(c)

Next ==
  \/ LoopStep \/ PromptStarts \/ PassStep \/ Select \/ ModelStep
  \/ UserStep \/ Joins \/ IdleInterruptReports
  \/ \E t \in Task : Settle(t)

Spec == Init /\ [][Next]_vars

(* The runner's callbacks run, a pass comes to its end, and a task that is *)
(* told to stop settles (TaskManager's StopSettles).  Nothing is assumed of*)
(* the user, of what the model decides or of tasks nobody stops.           *)
FairSpec ==
  /\ Spec
  /\ WF_vars(LoopStep) /\ WF_vars(PromptStarts) /\ WF_vars(Select)
  /\ WF_vars(PassStep) /\ WF_vars(Joins) /\ WF_vars(IdleInterruptReports)
  /\ \A t \in Task : WF_vars(t \in stopped /\ Settle(t))

-----------------------------------------------------------------------------
(* Properties                                                              *)

InputRecords == [type : InputTypes, cmd : Cmd \cup {None}, tasks : SUBSET Task]

TypeOK ==
  /\ task \in [Task -> {"new", "running", "scheduled", "settled"}]
  /\ stopped \subseteq Task /\ fresh \subseteq Task
  /\ stateTasks \subseteq Task /\ ignored \subseteq Task
  /\ inputs \in Seq(InputRecords)
  /\ cmd \in [Cmd -> CmdStates] /\ reads \in [Cmd -> Nat]
  /\ behavior \in [Cmd -> Behaviors]
  /\ inPi \subseteq Cmd /\ followUps \in Seq(Cmd)
  /\ pc \in LoopStates
  /\ pass \in {"none", "preparing", "prompting"}
  /\ purpose \in {"none", "user_command", "task_settlements"} \cup Continuations
  /\ attempt \in 0 .. RetryBudget
  /\ control \in {"none", "ask", "select"}
  /\ {woken, running, parentInterrupted, aborted, reason, idleCleanup, questions,
      withheld, owed, acked, nudged, asleep, emitted, orphaned} \subseteq BOOLEAN
  /\ cleaning \subseteq Task /\ reminded \subseteq Task
  /\ completion \in Statuses
  /\ machine \in {"none", "live", "terminal"}
  /\ current \in StateKinds \cup {"none", "interrupted"}
  /\ last \in [type : Terminals, open : BOOLEAN]
  /\ interrupts \in 0 .. MaxInterrupts /\ wakes \in 0 .. MaxWakes
  /\ selects \in 0 .. MaxSelects

(* No accepted command falls between the queues: until the model has read  *)
(* it or the user dropped it, it is in parentInputs or, between two turns, *)
(* in the queue the next turn copies back; pi's queue is only a copy.      *)
AcceptedIsKept ==
  \A c \in Cmd :
    /\ cmd[c] = "queued" => InInputs(c) \/ (pc = "idle" /\ c \in ToSet(followUps))
    /\ c \in inPi => cmd[c] = "queued"

(* One state works at a time: a worker whose end is not disowned is the    *)
(* only one, whatever was selected, woken or interrupted in the meantime.  *)
OneWorker == Cardinality(stateTasks \ ignored) <= 1

(* The model is given a command once, whether pi or the loop delivers it.  *)
ReadOnce == \A c \in Cmd : reads[c] <= 1

(* The queue the user sees and may edit holds follow-ups that are still to *)
(* be delivered, and nothing else.                                         *)
FollowUpsAgree ==
  /\ IsInjective(followUps)
  /\ \A i \in DOMAIN followUps :
       behavior[followUps[i]] = "follow_up" /\ cmd[followUps[i]] = "queued"

(* What a user typed, between turn(), parentInputs, pi's queue and the     *)
(* durable follow-up queue: no command is lost, none is read twice, and    *)
(* the queue on the screen is the one that will be delivered.              *)
CommandsAreKept == AcceptedIsKept /\ ReadOnce /\ FollowUpsAgree

(* A terminal that was not forced by an interrupt is quiescent, and not    *)
(* because the finally of runTurnLoop had to stop what the loop left open. *)
HonestTerminal ==
  /\ last.open => last.type = "interrupted"
  /\ pc = "exiting" => ~Leftovers

(* The parent is asked for a transition only while it owes one: a reminder *)
(* does not outlive the selection that paid it.                            *)
EnforcementIsOwed == HasInput("transition_enforcement") => owed

(* The relay has one runner, and its parent is reminded only of what is    *)
(* still due: no replaced worker, late settlement or stale reminder stands *)
(* beside the state that was selected.                                     *)
RelayIsKept == OneWorker /\ EnforcementIsOwed

(* A turn does not report completion over its live machine: no transition  *)
(* is owed, the machine is parked or was interrupted, and no poll, timer   *)
(* or worker is still due.  The exception is a state whose end an earlier  *)
(* terminal of the session threw away: nothing is left that could drive it.*)
OwedIsEnforced ==
  [][pc = "memory" /\ pc' = "returning" /\ TerminalType = "complete" /\ machine = "live"
       => ~owed /\ (current \in {"park", "interrupted"} \/ orphaned)]_vars

(* No input that may run is left behind by a turn that completes; what a   *)
(* question or a sleep leaves waits for the next turn.                     *)
CompletionDrains ==
  [][pc = "memory" /\ pc' = "returning" /\ TerminalType \in {"complete", "failed"}
       => inputs = <<>>]_vars

(* An interrupt ends the turn, whatever the model and the tasks do.        *)
InterruptEnds == (reason /\ pc # "idle") ~> (pc = "idle")

(* A steer that was accepted during a turn is read, or dropped by an       *)
(* interrupt, before that turn's end or in a later one.                    *)
SteerIsHeard ==
  \A c \in Cmd : (cmd[c] = "queued" /\ behavior[c] = "steer")
                   ~> (cmd[c] # "queued" \/ pc = "idle")

(* A turn hears what it was told: an interrupt ends it, a steer is read or *)
(* dropped, and completion leaves no input behind.                         *)
CommandsAreHeard == CompletionDrains /\ InterruptEnds /\ SteerIsHeard
=============================================================================
