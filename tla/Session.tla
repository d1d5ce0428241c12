------------------------------ MODULE Session ------------------------------
(***************************************************************************)
(* A session of src/session/session.ts across crashes and restarts: its    *)
(* start from storage, the turns it dispatches, the coalescing writer of   *)
(* state.json, the handling of terminal events around that write, the wake *)
(* timer of a sleeping session, waitForTerminal and dispose.               *)
(*                                                                         *)
(* The runner is what the session sees of it: a state with a version that  *)
(* grows with every change, at most one turn, and one terminal per turn,   *)
(* unless turn() rejects.                                                  *)
(* The caller of an operation is a member of Caller and calls once.        *)
(* Continuations of a finished write run before anything that needs the    *)
(* event loop: files, timers (ready = <<>>).                               *)
(***************************************************************************)
EXTENDS Integers, Sequences, FiniteSets

CONSTANTS
  Caller,       (* callers of hydrate, prompt                              *)
  None,         (* no caller                                               *)
  Timer,        (* the wake timer, as a caller of runner.turn              *)
  OneStarter,   (* TRUE: no other call comes while the first one of a      *)
                (* resumed session reads its file, as in cli/run.ts        *)
  MaxInputs,    (* bound: usage and task events, interrupts, rejections    *)
  MaxSleeps,    (* bound: turns that end asleep                            *)
  MaxFaults     (* bound: commits that fail, turns that reject, and        *)
                (* processes that end                                      *)

ASSUME SessionAssumption ==
  /\ None \notin Caller /\ Timer \notin Caller /\ Timer # None
  /\ OneStarter \in BOOLEAN
  /\ {MaxInputs, MaxSleeps, MaxFaults} \subseteq Nat

VARIABLES
  up, resumed,   (* the process runs; its session has resumeFromStorage    *)
  stored,        (* the envelope in state.json                             *)
  state,         (* the runner's state                                     *)
  turn,          (* a turn is active                                       *)
  stopped,       (* the active turn was interrupted                        *)
  call, kind,    (* where each call is; what it calls                      *)
  read,          (* the envelope the call has read                         *)
  awaits,        (* the call whose startPromise this one awaits            *)
  startPromise,  (* the call that set it last                              *)
  entering,      (* dispatched, not yet in runner.turn's loop              *)
  joined,        (* the dispatches that began or joined the active turn    *)
  activeTurn,    (* the latest dispatch, while its turn is not over        *)
  lastTerminal,  (* there is one, since the last dispatch                  *)
  terminalWaiters,           (* the calls that wait                        *)
  rejected,      (* history: the dispatches whose turn() has rejected      *)
                 (* since the last terminal                                *)
  sessionCost,   (* sessionCostUsd, in turns                               *)
  armed,         (* wakeTimer                                              *)
  queuedEnvelope,            (* NoEnvelope when there is none              *)
  writing,       (* the envelope drainPersistence commits                  *)
  waiting, ready,(* what awaits the drain; what may go on after it         *)
  disposed,      (* how far dispose() is                                   *)
  acked,         (* history: the newest version reported as written        *)
  vetoed,        (* history: an interrupt came after the last sleep        *)
  failed,        (* history: a commit of this process has failed           *)
  inputs, sleeps, faults

runnerVars == <<state, turn, stopped>>
callVars   == <<call, kind, read, awaits, startPromise>>
turnVars   == <<entering, joined, activeTurn>>
waitVars   == <<lastTerminal, terminalWaiters, rejected>>
writeVars  == <<stored, queuedEnvelope, writing, waiting, ready, acked>>
boundVars  == <<failed, inputs, sleeps, faults>>
vars == <<up, resumed, runnerVars, callVars, turnVars, waitVars, sessionCost, armed,
          writeVars, disposed, vetoed, boundVars>>

NoEnvelope == [ver |-> 0, status |-> "none", ended |-> 0, cost |-> 0]
NoState    == [ver |-> 0, status |-> "none", ended |-> 0]
NoTerminal == "none"

Terminals == {"complete", "sleep", "interrupted"}

(* Mutant: the state is given the name of the event.                       *)
StatusIsType(type) == type

StatusOf(type) == IF type = "sleep" THEN "sleeping" ELSE type

Init ==
  /\ up = TRUE /\ resumed = FALSE
  /\ stored = NoEnvelope /\ acked = 0
  /\ state = NoState /\ turn = FALSE /\ stopped = FALSE
  /\ call = [c \in Caller |-> "idle"] /\ kind = [c \in Caller |-> "none"]
  /\ read = [c \in Caller |-> NoEnvelope] /\ awaits = [c \in Caller |-> None]
  /\ startPromise = None
  /\ entering = {} /\ joined = {} /\ activeTurn = None
  /\ lastTerminal = FALSE /\ terminalWaiters = {} /\ rejected = {}
  /\ sessionCost = 0 /\ armed = FALSE
  /\ queuedEnvelope = NoEnvelope /\ writing = NoEnvelope
  /\ waiting = <<>> /\ ready = <<>>
  /\ disposed = "no" /\ vetoed = FALSE
  /\ failed = FALSE /\ inputs = 0 /\ sleeps = 0 /\ faults = 0

-----------------------------------------------------------------------------
(* writeStoredEnvelope: the envelope is captured at once; the call that    *)
(* finds no drain starts one, which takes it; every call awaits the drain. *)

Envelope(s, cost) ==
  [ver |-> s.ver, status |-> s.status, ended |-> s.ended, cost |-> cost]

Write(env, then) ==
  /\ waiting' = Append(waiting, then)
  /\ IF writing = NoEnvelope THEN writing' = env /\ UNCHANGED queuedEnvelope
                             ELSE queuedEnvelope' = env /\ UNCHANGED writing

Then(what, who, terminal, ver) ==
  [what |-> what, who |-> who, terminal |-> terminal, ver |-> ver]

Persist(s, cost, what, who) ==
  Write(Envelope(s, cost), Then(what, who, NoTerminal, s.ver))

(* Mutant: a call is told its envelope is written when the commit that was *)
(* under way ends.                                                         *)
AckEarly == ready' = waiting /\ waiting' = <<>>

AckAfterDrain ==
  IF queuedEnvelope = NoEnvelope THEN ready' = waiting /\ waiting' = <<>>
                                 ELSE UNCHANGED <<ready, waiting>>

(* rename() makes the temporary file state.json; the drain goes on with    *)
(* what was queued meanwhile.                                              *)
Commits ==
  /\ up /\ ready = <<>> /\ writing # NoEnvelope
  /\ stored' = writing
  /\ writing' = queuedEnvelope /\ queuedEnvelope' = NoEnvelope
  /\ AckAfterDrain
  /\ UNCHANGED <<up, resumed, runnerVars, callVars, turnVars, waitVars, sessionCost,
                 armed, acked, disposed, vetoed, boundVars>>

(* A commit fails: what was queued behind it is discarded and every caller *)
(* gets the error.  A call of start or dispose ends with it, a handler of  *)
(* an event ends there.                                                    *)
CommitFails ==
  /\ up /\ ready = <<>> /\ writing # NoEnvelope
  /\ faults < MaxFaults /\ faults' = faults + 1 /\ failed' = TRUE
  /\ writing' = NoEnvelope /\ queuedEnvelope' = NoEnvelope
  /\ waiting' = <<>>
  /\ call' = [c \in Caller |->
                IF \E i \in DOMAIN waiting : waiting[i].who = c THEN "returned" ELSE call[c]]
  /\ UNCHANGED <<up, resumed, runnerVars, kind, read, awaits, startPromise,
                 turnVars, waitVars, sessionCost, armed, stored, ready, acked,
                 disposed, vetoed, inputs, sleeps>>

-----------------------------------------------------------------------------
(* start, hydrate, and ensureStarted of a prompt                           *)

(* With OneStarter nobody calls while another call reads the file.         *)
MayCall(c) ==
  /\ up /\ disposed = "no" /\ call[c] = "idle"
  /\ OneStarter => \A d \in Caller \ {c} : call[d] # "reading"

(* What start() and hydrate() do with the envelope they found; hydrate()   *)
(* ends when there is no state.                                            *)
StartsWith(c, k, env) ==
  /\ read' = [read EXCEPT ![c] = env]
  /\ sessionCost' = IF env.ver > 0 THEN env.cost ELSE sessionCost
  /\ IF k = "hydrate" /\ env = NoEnvelope
       THEN /\ call' = [call EXCEPT ![c] = "returned"]
            /\ UNCHANGED startPromise
       ELSE /\ call' = [call EXCEPT ![c] = "starting"]
            /\ startPromise' = c

(* A start under way is awaited; a resumed session reads its file; a new   *)
(* one starts at once.                                                     *)
Call(c, k) ==
  /\ MayCall(c)
  /\ kind' = [kind EXCEPT ![c] = k]
  /\ \/ /\ startPromise # None
        /\ call' = [call EXCEPT ![c] = "joining"]
        /\ awaits' = [awaits EXCEPT ![c] = startPromise]
        /\ UNCHANGED <<read, sessionCost, startPromise>>
     \/ /\ startPromise = None /\ resumed
        /\ call' = [call EXCEPT ![c] = "reading"]
        /\ UNCHANGED <<awaits, read, sessionCost, startPromise>>
     \/ /\ startPromise = None /\ ~resumed
        /\ StartsWith(c, k, NoEnvelope)
        /\ UNCHANGED awaits
  /\ UNCHANGED <<up, resumed, runnerVars, turnVars, waitVars, armed, writeVars, disposed,
                 vetoed, boundVars>>

HasRead(c) ==
  /\ up /\ ready = <<>> /\ call[c] = "reading"
  /\ StartsWith(c, kind[c], stored)
  /\ UNCHANGED <<up, resumed, runnerVars, kind, awaits, turnVars, waitVars, armed,
                 writeVars, disposed, vetoed, boundVars>>

(* runner.start takes the state it was given, whatever ran since: a turn   *)
(* that was running is interrupted.                                        *)
Recovered(env) ==
  [ver |-> IF env.ver = 0 THEN 1 ELSE env.ver,
   status |-> IF env.status = "running" THEN "interrupted" ELSE env.status,
   ended |-> env.ended]

RunnerStarts(c) ==
  /\ up /\ ready = <<>> /\ call[c] = "starting"
  /\ state' = Recovered(read[c])
  /\ IF read[c] = NoEnvelope
       THEN /\ call' = [call EXCEPT ![c] = "started"]
            /\ UNCHANGED <<writing, queuedEnvelope, waiting>>
       ELSE /\ call' = [call EXCEPT ![c] = "persisting"]
            /\ Persist(state', sessionCost, "start", c)
  /\ UNCHANGED <<up, resumed, turn, stopped, kind, read, awaits, startPromise,
                 turnVars, waitVars, sessionCost, armed, stored, ready, acked,
                 disposed, vetoed, boundVars>>

Joins(c) ==
  /\ up /\ call[c] = "joining"
  /\ call[awaits[c]] \notin {"starting"}
  /\ call' = [call EXCEPT ![c] = "started"]
  /\ awaits' = [awaits EXCEPT ![c] = None]
  /\ UNCHANGED <<up, resumed, runnerVars, kind, read, startPromise,
                 turnVars, waitVars, sessionCost, armed, writeVars, disposed,
                 vetoed, boundVars>>

-----------------------------------------------------------------------------
(* Turns                                                                   *)

(* dispatchTurn; hydrate() has nothing to dispatch.                        *)
Dispatch(c) ==
  /\ up /\ call[c] = "started"
  /\ IF kind[c] = "hydrate"
       THEN /\ call' = [call EXCEPT ![c] = "returned"]
            /\ UNCHANGED <<turnVars, lastTerminal>>
       ELSE /\ call' = [call EXCEPT ![c] = "dispatched"]
            /\ lastTerminal' = FALSE
            /\ entering' = entering \cup {c} /\ activeTurn' = c
            /\ UNCHANGED joined
  /\ UNCHANGED <<up, resumed, runnerVars, kind, read, awaits, startPromise,
                 terminalWaiters, rejected, sessionCost, armed, writeVars, disposed,
                 vetoed, boundVars>>

(* runner.turn, past its awaits, begins a turn or joins the active one.    *)
Enter(c) ==
  /\ up /\ c \in entering
  /\ entering' = entering \ {c}
  /\ turn' = TRUE
  /\ IF turn THEN UNCHANGED state
             ELSE state' = [state EXCEPT !.ver = @ + 1, !.status = "running"]
  /\ joined' = joined \cup {c}
  /\ UNCHANGED <<up, resumed, stopped, callVars, activeTurn, waitVars, sessionCost, armed,
                 writeVars, disposed, vetoed, boundVars>>

(* A usage or task event, or the debounced write of task output.           *)
Event ==
  /\ up /\ disposed # "done" /\ turn /\ inputs < MaxInputs
  /\ inputs' = inputs + 1
  /\ state' = [state EXCEPT !.ver = @ + 1]
  /\ Persist(state', sessionCost, "event", None)
  /\ UNCHANGED <<up, resumed, turn, stopped, callVars, turnVars, waitVars,
                 sessionCost, armed, stored, ready, acked, disposed, vetoed, failed,
                 sleeps, faults>>

(* The part of handleTurnEvent before its await, for terminal t, which     *)
(* leaves the runner in state s; who is the call that replays it.          *)
TerminalEvent(t, s, cost, who) ==
  /\ lastTerminal' = TRUE /\ rejected' = {}
  /\ sessionCost' = cost
  /\ Write(Envelope(s, cost), Then("terminal", who, t, s.ver))

(* Mutant: it is credited where the terminal is published.                 *)
CreditedLate == sessionCost

(* commitTerminalCost: the turn is credited before its envelope is captured*)
Credited == sessionCost + 1

TurnEnds(type) ==
  /\ up /\ disposed # "done" /\ turn
  /\ stopped <=> type = "interrupted"
  /\ IF type = "sleep" THEN sleeps < MaxSleeps /\ sleeps' = sleeps + 1
                       ELSE UNCHANGED sleeps
  /\ state' = [ver |-> state.ver + 1, status |-> StatusOf(type), ended |-> state.ended + 1]
  /\ turn' = FALSE /\ stopped' = FALSE
  /\ activeTurn' = IF activeTurn \in joined THEN None ELSE activeTurn
  /\ joined' = {}
  /\ TerminalEvent(type, state', Credited, None)
  /\ vetoed' = (vetoed /\ type # "sleep")
  /\ UNCHANGED <<up, resumed, callVars, entering, terminalWaiters,
                 armed, stored, ready, acked, disposed, failed, inputs, faults>>

(* runner.turn() rejects, before a turn began (gone is one dispatch) or out*)
(* of its loop (all that joined it): an error is shown, the dispatch is    *)
(* forgotten, and no terminal comes.                                       *)
Rejects(gone) ==
  /\ up /\ faults < MaxFaults /\ faults' = faults + 1
  /\ inputs < MaxInputs /\ inputs' = inputs + 1
  /\ \/ /\ gone \subseteq entering /\ Cardinality(gone) = 1
        /\ entering' = entering \ gone
        /\ UNCHANGED <<turn, stopped, joined>>
     \/ /\ turn /\ gone = joined
        /\ turn' = FALSE /\ stopped' = FALSE /\ joined' = {}
        /\ UNCHANGED entering
  /\ activeTurn' = IF activeTurn \in gone THEN None ELSE activeTurn
  /\ rejected' = rejected \cup gone
  /\ UNCHANGED <<up, resumed, state, callVars, lastTerminal, terminalWaiters, sessionCost,
                 armed, writeVars, disposed, vetoed, failed, sleeps>>

(* interrupt(), once the runner has started.  Between turns the runner     *)
(* reports the interrupt itself, before anything reaches the event loop.   *)
Interrupt ==
  /\ up /\ state # NoState /\ disposed = "no"
  /\ inputs < MaxInputs /\ inputs' = inputs + 1
  /\ armed' = FALSE
  /\ vetoed' = TRUE
  /\ IF turn
       THEN /\ stopped' = TRUE
            /\ UNCHANGED <<state, lastTerminal, rejected, sessionCost, queuedEnvelope,
                           writing, waiting>>
       ELSE /\ state' = [state EXCEPT !.ver = @ + 1, !.status = "interrupted"]
            /\ TerminalEvent("interrupted", state', sessionCost, None)
            /\ UNCHANGED stopped
  /\ UNCHANGED <<up, resumed, turn, callVars, turnVars, terminalWaiters,
                 stored, ready, acked, disposed, failed, sleeps, faults>>

(* Mutant: the poll looks at the clock only.                               *)
Anytime == TRUE

Asleep == state.status = "sleeping"

(* The poll or the fast path finds the deadline passed.                    *)
WakeFires ==
  /\ up /\ ready = <<>> /\ armed /\ Asleep
  /\ armed' = FALSE
  /\ lastTerminal' = FALSE
  /\ entering' = entering \cup {Timer} /\ activeTurn' = Timer
  /\ UNCHANGED <<up, resumed, runnerVars, callVars, joined, terminalWaiters, rejected,
                 sessionCost, writeVars, disposed, vetoed, boundVars>>

(* Mutant: a waiter always waits for a terminal to come.                   *)
NeverSettled == FALSE

Settled == lastTerminal /\ activeTurn = None

WaitForTerminal(c) ==
  /\ up /\ call[c] = "dispatched"
  /\ call' = [call EXCEPT ![c] = "returned"]
  /\ terminalWaiters' = IF Settled THEN terminalWaiters ELSE terminalWaiters \cup {c}
  /\ UNCHANGED <<up, resumed, runnerVars, kind, read, awaits, startPromise,
                 turnVars, lastTerminal, rejected, sessionCost, armed, writeVars, disposed,
                 vetoed, boundVars>>

-----------------------------------------------------------------------------
(* What goes on when the drain has ended, in the order it was awaited      *)

(* start() replays the sleep of the state it has read, if the runner still *)
(* has something scheduled.                                                *)
StartGoesOn(c) ==
  IF read[c].status = "sleeping" /\ Asleep
    THEN /\ call' = [call EXCEPT ![c] = "replaying"]
         /\ TerminalEvent("sleep", state, sessionCost, c)
         /\ UNCHANGED <<armed, terminalWaiters, disposed>>
    ELSE /\ call' = [call EXCEPT ![c] = "started"]
         /\ UNCHANGED <<lastTerminal, rejected, sessionCost, queuedEnvelope, writing,
                        waiting, armed, terminalWaiters, disposed>>

(* Mutant: a sleep does not arm when it was replayed.                      *)
ArmsLive(t, who) == t = "sleep" /\ who = None

Arms(t, who) == t = "sleep"

(* The rest of handleTurnEvent.                                            *)
Publish(t, who) ==
  /\ armed' = Arms(t, who)
  /\ terminalWaiters' = {}
  /\ call' = IF who = None THEN call ELSE [call EXCEPT ![who] = "started"]
  /\ UNCHANGED <<lastTerminal, rejected, sessionCost, queuedEnvelope, writing, waiting,
                 disposed>>

GoOn ==
  /\ up /\ ready # <<>>
  /\ ready' = Tail(ready)
  /\ LET k == Head(ready) IN
       /\ acked' = IF k.ver > acked THEN k.ver ELSE acked
       /\ CASE k.what = "start"    -> StartGoesOn(k.who)
            [] k.what = "terminal" -> Publish(k.terminal, k.who)
            [] OTHER ->
                 /\ disposed' = IF k.what = "dispose" THEN "done" ELSE disposed
                 /\ UNCHANGED <<call, lastTerminal, rejected, sessionCost, queuedEnvelope,
                                writing, waiting, armed, terminalWaiters>>
  /\ UNCHANGED <<up, resumed, runnerVars, kind, read, awaits, startPromise,
                 turnVars, stored, vetoed, boundVars>>

-----------------------------------------------------------------------------
(* Ends                                                                    *)

Dispose ==
  /\ up /\ state # NoState /\ disposed = "no"
  /\ armed' = FALSE
  /\ disposed' = "begun"
  /\ UNCHANGED <<up, resumed, runnerVars, callVars, turnVars, waitVars, sessionCost,
                 writeVars, vetoed, boundVars>>

(* Its tasks stopped, the runner's state is written once more.             *)
DisposePersists ==
  /\ up /\ ready = <<>> /\ disposed = "begun"
  /\ disposed' = "persisting"
  /\ Persist(state, sessionCost, "dispose", None)
  /\ UNCHANGED <<up, resumed, runnerVars, callVars, turnVars, waitVars, sessionCost,
                 armed, stored, ready, acked, vetoed, boundVars>>

(* The process ends, before or after dispose().                            *)
Ends ==
  /\ up /\ faults < MaxFaults /\ faults' = faults + 1 /\ failed' = FALSE
  /\ up' = FALSE
  /\ state' = NoState /\ turn' = FALSE /\ stopped' = FALSE
  /\ call' = [c \in Caller |-> IF call[c] = "idle" THEN "idle" ELSE "returned"]
  /\ kind' = [c \in Caller |-> "none"] /\ read' = [c \in Caller |-> NoEnvelope]
  /\ awaits' = [c \in Caller |-> None] /\ startPromise' = None
  /\ entering' = {} /\ joined' = {} /\ activeTurn' = None
  /\ lastTerminal' = FALSE /\ terminalWaiters' = {} /\ rejected' = {}
  /\ sessionCost' = 0 /\ armed' = FALSE
  /\ queuedEnvelope' = NoEnvelope /\ writing' = NoEnvelope
  /\ waiting' = <<>> /\ ready' = <<>>
  /\ disposed' = "no" /\ vetoed' = FALSE
  /\ UNCHANGED <<resumed, stored, acked, inputs, sleeps>>

Restart ==
  /\ ~up
  /\ up' = TRUE /\ resumed' = TRUE
  /\ UNCHANGED <<runnerVars, callVars, turnVars, waitVars, sessionCost, armed, writeVars,
                 disposed, vetoed, boundVars>>

-----------------------------------------------------------------------------
CallStep(c) ==
  HasRead(c) \/ RunnerStarts(c) \/ Joins(c) \/ Dispatch(c)

Next ==
  \/ \E c \in Caller : CallStep(c) \/ WaitForTerminal(c)
                       \/ \E k \in {"hydrate", "prompt"} : Call(c, k)
  \/ \E c \in Caller \cup {Timer} : Enter(c)
  \/ \E type \in Terminals : TurnEnds(type)
  \/ \E gone \in SUBSET (entering \cup joined) : Rejects(gone)
  \/ Event \/ Interrupt \/ WakeFires \/ Commits \/ CommitFails \/ GoOn
  \/ Dispose \/ DisposePersists \/ Ends \/ Restart

Spec == Init /\ [][Next]_vars

(* Files, timers and the runner's start come back.  Nobody has to call, to *)
(* wait or to restart, a turn need not end, and nothing need fail.         *)
FairSpec ==
  /\ Spec
  /\ \A c \in Caller : WF_vars(CallStep(c))
  /\ \A c \in Caller \cup {Timer} : WF_vars(Enter(c))
  /\ WF_vars(Commits) /\ WF_vars(GoOn) /\ WF_vars(WakeFires) /\ WF_vars(DisposePersists)

-----------------------------------------------------------------------------
(* Properties                                                              *)

Statuses  == {"none", "running", "complete", "sleeping", "interrupted"}
Envelopes == [ver : Nat, status : Statuses, ended : Nat, cost : Nat]
Continuations == [what : {"start", "event", "terminal", "dispose"},
                  who : Caller \cup {None},
                  terminal : Terminals \cup {NoTerminal}, ver : Nat]

CallTypes ==
  /\ call \in [Caller -> {"idle", "reading", "joining", "starting", "persisting",
                          "replaying", "started", "dispatched", "returned"}]
  /\ kind \in [Caller -> {"none", "hydrate", "prompt"}]
  /\ read \in [Caller -> Envelopes]
  /\ awaits \in [Caller -> Caller \cup {None}]
  /\ startPromise \in Caller \cup {None}

TurnTypes ==
  /\ turn \in BOOLEAN /\ stopped \in BOOLEAN /\ lastTerminal \in BOOLEAN
  /\ entering \subseteq Caller \cup {Timer} /\ joined \subseteq Caller \cup {Timer}
  /\ activeTurn \in Caller \cup {Timer, None} /\ terminalWaiters \subseteq Caller
  /\ rejected \subseteq Caller \cup {Timer}

WriteTypes ==
  /\ stored \in Envelopes /\ queuedEnvelope \in Envelopes /\ writing \in Envelopes
  /\ waiting \in Seq(Continuations) /\ ready \in Seq(Continuations)
  /\ acked \in Nat

(* Every variable has its type.                                            *)
TypeOK ==
  /\ up \in BOOLEAN /\ resumed \in BOOLEAN
  /\ state \in [ver : Nat, status : Statuses, ended : Nat] /\ sessionCost \in Nat
  /\ CallTypes /\ TurnTypes /\ WriteTypes
  /\ armed \in BOOLEAN /\ vetoed \in BOOLEAN /\ failed \in BOOLEAN
  /\ disposed \in {"no", "begun", "persisting", "done"}
  /\ inputs \in Nat /\ sleeps \in Nat /\ faults \in Nat

(* Before the runner has its state there is no turn and nothing is written;*)
(* of the calls that may start it, one does.                               *)
Started(c) == call[c] \in {"persisting", "replaying", "started", "dispatched"}

OneReader == \A c, d \in Caller : call[c] = "reading" /\ call[d] = "reading" => c = d

CallAgrees(c) ==
  /\ call[c] = "reading" => startPromise = None
  /\ call[c] = "starting" => /\ startPromise = c /\ state = NoState
                            /\ read[c] = stored /\ sessionCost = stored.ended
  /\ call[c] = "joining" => startPromise # None /\ awaits[c] = startPromise
  /\ Started(c) => state # NoState

PromiseAgrees ==
  /\ startPromise # None => state # NoState \/ call[startPromise] = "starting"
  /\ startPromise = None => state = NoState /\ sessionCost = 0
  /\ ~up => startPromise = None

QuietBefore ==
  state = NoState => /\ ~turn /\ entering = {} /\ disposed = "no"
                     /\ writing = NoEnvelope /\ waiting = <<>> /\ ready = <<>>
                     /\ (up /\ ~resumed => stored = NoEnvelope)

OneStart ==
  OneReader /\ (\A c \in Caller : CallAgrees(c)) /\ PromiseAgrees /\ QuietBefore

(* What is written, being written, queued and in memory only grows in that *)
(* order, and nobody waits for more than the drain will write.             *)
Latest == IF queuedEnvelope = NoEnvelope THEN writing ELSE queuedEnvelope

WritesInOrder ==
  /\ state # NoState => stored.ver <= state.ver /\ state.ver >= 1
  /\ writing # NoEnvelope => stored.ver <= writing.ver /\ writing.ver <= state.ver
  /\ queuedEnvelope # NoEnvelope =>
       /\ writing # NoEnvelope
       /\ writing.ver <= queuedEnvelope.ver /\ queuedEnvelope.ver <= state.ver
  /\ waiting # <<>> => writing # NoEnvelope
  /\ \A i \in DOMAIN waiting : waiting[i].ver <= Latest.ver

AcksInOrder ==
  acked <= stored.ver /\ \A i \in DOMAIN ready : ready[i].ver <= stored.ver

InOrder == WritesInOrder /\ AcksInOrder

Credit ==
  /\ \A env \in {stored, writing, queuedEnvelope} :
       env.cost = env.ended /\ (env # NoEnvelope => env.ver >= 1)
  /\ state # NoState => sessionCost = state.ended

(* With one starter, an inductive invariant.                               *)
IInv == TypeOK /\ OneStart /\ InOrder /\ Credit

(* state.json never goes back: over crashes, failed writes and coalesced   *)
(* ones, it only moves to newer envelopes, and one whose writer went on is *)
(* never lost.                                                             *)
Durable == INSTANCE StateRegister WITH stored <- stored.ver, acked <- acked
NeverOlder == Durable!Spec

(* commitTerminalCost: a stored envelope credits the turns whose end it    *)
(* holds, each once, and no other, whatever crashed in between.            *)
CostOnce == stored.cost = stored.ended

(* scheduleWake, replaySleepFromResumedState: a session asleep in a running*)
(* process is woken unless it is disposed, a write has failed, or the turn *)
(* of its wake was rejected: the timer is gone by then.  And only then: an *)
(* interrupt retires the wake, none is dispatched until a turn ends in a   *)
(* new sleep, not even by a sleep whose write was still pending.           *)
SleepIsWoken ==
  /\ (up /\ Asleep) ~> (~Asleep \/ disposed # "no" \/ failed \/ Timer \in rejected)
  /\ [][WakeFires => ~vetoed]_vars

(* waitForTerminal: who waits when no turn runs is answered, in whatever   *)
(* order dispatches, terminals, interrupts and waiters come, unless a write*)
(* has failed, the session is disposed, or runner.turn() has rejected and  *)
(* no terminal came since: the next one answers the waiters it left.       *)
WaitersAnswered ==
  \A c \in Caller :
    (c \in terminalWaiters /\ ~turn)
      ~> (c \notin terminalWaiters \/ turn \/ disposed # "no" \/ failed \/ rejected # {})
=============================================================================
