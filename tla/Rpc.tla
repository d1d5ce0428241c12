--------------------------------- MODULE Rpc ---------------------------------
(***************************************************************************)
(* `duet --rpc` (src/cli/rpc.ts): driveRpcLoop races stdin against the     *)
(* chain of turns, hands commands to the runner and leaves with the        *)
(* chain's terminal; runRpcCommand then disposes the runner and closes the *)
(* event writer, as an uncaught error or a signal does at any moment.      *)
(*                                                                         *)
(* Of the runner there is what the transport meets: start, the awaits      *)
(* before turn() enters or joins a turn, compact, interrupt between turns  *)
(* and one terminal at the end of a turn (module TurnLoop has the inside). *)
(* Commands the host has written are read in any order; commands that only *)
(* emit an event (a bad line, a duplicate start, an edit of the queue) are *)
(* ReadNote.                                                               *)
(***************************************************************************)
EXTENDS RpcEventWriter

CONSTANTS
  Commands,     (* bound: prompt, answer and wake commands of the host     *)
  MaxEvents     (* bound: events that are not an acknowledgement, a        *)
                (* checkpoint or the end of something                      *)

ASSUME RpcAssumption == Commands \in Nat \ {0} /\ MaxEvents \in Nat

VARIABLES
  stdin,            (* open, closed by the host or destroyed by the loop   *)
  loop,             (* where driveRpcLoop awaits, or that it has left      *)
  started,          (* of the loop and the runner                          *)
  call,             (* each command's call of turn(), in the order read    *)
  turn,             (* activeTurnPromise                                   *)
  terminalEmitted,
  report,           (* interrupt() between turns has its terminal to come  *)
  ending,           (* the closers that have begun to dispose the runner   *)
  exit              (* how the process ended: by itself or forced          *)

loopVars == <<stdin, loop, started>>
turnVars == <<turn, terminalEmitted, report>>
endVars == <<ending, exit>>
vars == <<writerVars, loopVars, call, turnVars, endVars>>

Cmd == 1 .. Commands
Loops == {"reading", "starting", "compacting", "chain", "left"}

Init ==
  /\ WriterInit
  /\ stdin = "open" /\ loop = "reading" /\ started = FALSE
  /\ call = [c \in Cmd |-> "unread"]
  /\ turn = "none" /\ terminalEmitted = FALSE /\ report = FALSE
  /\ ending = {} /\ exit = "no"

(* The call of the first command is the chain. *)
ChainDone == call[1] = "returned"
Room == accepted < MaxEvents
Silent == UNCHANGED writerVars

(***************************************************************************)
(* driveRpcLoop.                                                           *)
(***************************************************************************)
Reading == loop = "reading" /\ stdin = "open" /\ ~ChainDone

(* Also what is read before "start".                                       *)
ReadNote ==
  /\ Reading /\ Room /\ Emit("progress")
  /\ UNCHANGED <<loopVars, call, turnVars, endVars>>

ReadStart ==
  /\ Reading /\ ~started /\ loop' = "starting"
  /\ Silent /\ UNCHANGED <<stdin, started, call, turnVars, endVars>>

StartReturns ==
  /\ loop = "starting" /\ loop' = "reading" /\ started' = TRUE
  /\ Emit("turn_started")
  /\ UNCHANGED <<stdin, call, turnVars, endVars>>

(* runRpcCommand goes on in its finally, and stdin is not destroyed.       *)
StartFails ==
  /\ loop = "starting" /\ loop' = "left"
  /\ ending' = ending \cup {"main"}
  /\ Silent /\ UNCHANGED <<stdin, started, call, turnVars, exit>>

ReadTurn(c) ==
  /\ Reading /\ started /\ call[c] = "unread"
  /\ \A d \in Cmd : d < c => call[d] # "unread"
  /\ call' = [call EXCEPT ![c] = "waiting"]
  /\ Silent /\ UNCHANGED <<loopVars, turnVars, endVars>>

(* interrupt() between turns; what it does to a turn is in TurnLoop.       *)
ReadInterrupt ==
  /\ Reading /\ started /\ Room /\ turn = "none"
  /\ terminalEmitted' = FALSE /\ report' = TRUE
  /\ Silent /\ UNCHANGED <<loopVars, call, turn, endVars>>

(* compact() is ignored with a warning while the parent works, and awaited *)
(* otherwise.                                                              *)
ReadCompact ==
  /\ Reading /\ started /\ Room
  /\ \/ turn # "none" /\ Emit("progress") /\ UNCHANGED loop
     \/ loop' = "compacting" /\ Silent
  /\ UNCHANGED <<stdin, started, call, turnVars, endVars>>

CompactReturns ==
  /\ loop = "compacting" /\ loop' = "reading" /\ Emit("progress")
  /\ UNCHANGED <<stdin, started, call, turnVars, endVars>>

EndsAtEof ==
  /\ loop = "reading" /\ stdin = "closed" /\ loop' = "chain" /\ stdin' = "destroyed"
  /\ Silent /\ UNCHANGED <<started, call, turnVars, endVars>>

(* The chain has settled, whatever stdin holds, or stdin has ended.        *)
LoopEnds ==
  /\ loop = "reading" /\ (ChainDone \/ stdin = "closed")
  /\ loop' = "chain" /\ stdin' = "destroyed"
  /\ Silent /\ UNCHANGED <<started, call, turnVars, endVars>>

(* The chain is awaited, then the finally of runRpcCommand begins.         *)
LoopReturns ==
  /\ loop = "chain" /\ call[1] \in {"unread", "returned"} /\ loop' = "left"
  /\ ending' = ending \cup {"main"}
  /\ Silent /\ UNCHANGED <<stdin, started, call, turnVars, exit>>

(***************************************************************************)
(* The runner.                                                             *)
(***************************************************************************)

(* After its awaits a call starts a turn or joins the active one, and is   *)
(* acknowledged. The calls await the same things and keep their order.     *)
Waits(c) == call[c] = "waiting"

Enter ==
  \E c \in Cmd :
    /\ Waits(c) /\ \A d \in Cmd : d < c => ~Waits(d)
    /\ loop # "compacting" /\ call' = [call EXCEPT ![c] = "inTurn"]
    /\ turn' = IF turn = "none" THEN "runs" ELSE turn
    /\ terminalEmitted' = (terminalEmitted /\ turn # "none")
    /\ Emit("progress") /\ UNCHANGED <<loopVars, report, endVars>>

Progress ==
  /\ turn = "runs" /\ Room /\ Emit("progress")
  /\ UNCHANGED <<loopVars, call, turnVars, endVars>>

(* emitTerminalOnce                                                        *)
EmitTerminalOnce ==
  /\ terminalEmitted' = TRUE
  /\ IF terminalEmitted THEN Silent ELSE Emit("terminal")

(* A turn ends with its terminal, or throws.                               *)
TurnEnds ==
  /\ turn = "runs" /\ turn' = "ended"
  /\ EmitTerminalOnce \/ (Silent /\ UNCHANGED terminalEmitted)
  /\ UNCHANGED <<loopVars, call, report, endVars>>

(* turn() returns to every call of the turn.                               *)
TurnReturns ==
  /\ turn = "ended" /\ turn' = "none"
  /\ call' = [c \in Cmd |-> IF call[c] = "inTurn" THEN "returned" ELSE call[c]]
  /\ Silent /\ UNCHANGED <<loopVars, terminalEmitted, report, endVars>>

InterruptReports ==
  /\ report /\ report' = FALSE /\ EmitTerminalOnce
  /\ UNCHANGED <<loopVars, call, turn, endVars>>

(***************************************************************************)
(* The end of the process.                                                 *)
(***************************************************************************)
HostCloses ==
  /\ stdin = "open" /\ stdin' = "closed"
  /\ Silent /\ UNCHANGED <<loop, started, call, turnVars, endVars>>

(* The handlers are installed until the loop has left. An uncaught error   *)
(* is reported, with a terminal if no task is running.                     *)
Fatal ==
  /\ loop # "left" /\ "fatal" \notin ending /\ ending' = ending \cup {"fatal"}
  /\ \/ EmitAll(<<"progress", "terminal">>) /\ started
     \/ Emit("progress") /\ (turn # "none" \/ ~started)
  /\ UNCHANGED <<loopVars, call, turnVars, exit>>

Signal ==
  /\ loop # "left" /\ "signal" \notin ending /\ ending' = ending \cup {"signal"}
  /\ Silent /\ UNCHANGED <<loopVars, call, turnVars, exit>>

(* A second signal, or the watchdog of the first.                          *)
ForcedExit ==
  /\ "signal" \in ending /\ exit' = "forced"
  /\ Silent /\ UNCHANGED <<loopVars, call, turnVars, ending>>

(* dispose() has ended; for an error or a signal process.exit follows in   *)
(* the same task of the event loop as the end of flush.                    *)
Disposed(c) ==
  /\ c \in ending /\ Close(c)
  /\ UNCHANGED <<loopVars, call, turnVars, endVars>>

(* After the loop the process ends when nothing is left to wait for.       *)
NothingLeft ==
  /\ path["main"] = "closed" /\ ending = {"main"} /\ stdin # "open"
  /\ turn = "none" /\ ~report /\ \A c \in Cmd : ~Waits(c)
  /\ ~heartbeats /\ ~checkpoint /\ pump # "waits"

Leave ==
  /\ NothingLeft /\ exit' = "returned"
  /\ Silent /\ UNCHANGED <<loopVars, call, turnVars, ending>>

Gone == exit # "no" \/ "closed" \in {path["fatal"], path["signal"]}

WriterStep ==
  /\ CheckpointFires(started) \/ HeartbeatFires \/ Drain
  /\ UNCHANGED <<loopVars, call, turnVars, endVars>>

Host == HostCloses \/ ReadNote \/ ReadStart \/ ReadInterrupt \/ ReadCompact
          \/ \E c \in Cmd : ReadTurn(c)
Loop == StartReturns \/ CompactReturns \/ LoopEnds \/ LoopReturns
Runner == Enter \/ TurnEnds \/ TurnReturns \/ InterruptReports
Ending == Leave \/ \E c \in Closer : Disposed(c)
Uncaught == StartFails \/ Fatal \/ Signal \/ ForcedExit

Next == ~Gone /\ (Host \/ Loop \/ Runner \/ Progress \/ Ending \/ Uncaught \/ WriterStep)

Spec == Init /\ [][Next]_vars

(* What the process has begun ends, and the host reads what it is written. *)
FairSpec ==
  /\ Spec /\ WF_vars(~Gone /\ (Loop \/ StartFails)) /\ WF_vars(~Gone /\ Runner)
  /\ WF_vars(~Gone /\ Ending) /\ WF_vars(~Gone /\ WriterStep)

(***************************************************************************)
(* Properties.                                                             *)
(***************************************************************************)

(* The type invariant of the writer, the loop and the calls.               *)
TypeOK ==
  /\ WriterTypeOK
  /\ stdin \in {"open", "closed", "destroyed"} /\ loop \in Loops
  /\ call \in [Cmd -> {"unread", "waiting", "inTurn", "returned"}]
  /\ turn \in {"none", "runs", "ended"}
  /\ {started, terminalEmitted, report} \subseteq BOOLEAN
  /\ ending \subseteq Closer /\ exit \in {"no", "returned", "forced"}

(* Until a write throws, the stream carries every event once and in the    *)
(* order it was emitted; a process that ends, but by force, has given the  *)
(* host all of them; and no checkpoint, which says that a turn is running, *)
(* comes after a terminal (RpcEventWriter, close).                         *)
EventsReachHost ==
  /\ pump = "failed" \/ wire \o losslessLines = Lines(0, accepted)
  /\ Gone /\ exit # "forced" => Flushed
  /\ ~late

(* Once the chain has its terminal, or stdin is closed, the process ends,  *)
(* whatever else the host writes or leaves open (driveRpcLoop, close).     *)
ProcessEnds == (ChainDone \/ stdin = "closed") ~> Gone
==============================================================================
