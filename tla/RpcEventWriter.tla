---------------------------- MODULE RpcEventWriter ----------------------------
(***************************************************************************)
(* The ordered NDJSON writer of `duet --rpc` (RpcEventWriter in            *)
(* src/cli/rpc.ts): a lossless lane for events, one place for a heartbeat, *)
(* a pump that writes until the stream asks it to wait for "drain", the    *)
(* checkpoint timer, and flush and close. Module Rpc composes it with the  *)
(* loop and the runner whose events it carries.                            *)
(*                                                                         *)
(* The pump runs on until it has to wait for "drain", so one step takes    *)
(* all the lines it writes. An event is of one of the kinds that make a    *)
(* difference to the writer ("progress" stands for all others), and a line *)
(* is the number of its event.                                             *)
(***************************************************************************)
EXTENDS Integers, Sequences

Kind == {"turn_started", "progress", "terminal", "checkpoint"}

SkippedLine(m, n) == [i \in 1 .. n - m |-> m + i + 1]
Lines(m, n) == [i \in 1 .. n - m |-> m + i]

(* Who closes the writer: the end of runRpcCommand, emitFatalAndExit and   *)
(* the shutdown handler.                                                   *)
Closer == {"main", "fatal", "signal"}
Paths == {"none", "flushing", "closed"}
Pumps == {"idle", "waits", "failed"}

VARIABLES
  accepted,   (* the number of events given to emit                        *)
  late,       (* history: a checkpoint was emitted after a terminal        *)
  wire,       (* the lines written to the stream                           *)
  losslessLines, pendingHeartbeat,
  pump,       (* pumping is "waits" (for drain), failure is "failed"       *)
  checkpoint, (* the checkpoint timer is armed                             *)
  terminalWritten,
  heartbeats, (* the heartbeat timer runs                                  *)
  path        (* each closer's place in close()                            *)

lane == <<wire, losslessLines, pendingHeartbeat, pump, path>>
timers == <<checkpoint, terminalWritten, heartbeats>>
writerVars == <<accepted, late, lane, timers>>

WriterInit ==
  /\ accepted = 0 /\ late = FALSE /\ wire = <<>> /\ losslessLines = <<>>
  /\ pendingHeartbeat = FALSE /\ pump = "idle"
  /\ checkpoint = FALSE /\ terminalWritten = FALSE /\ heartbeats = TRUE
  /\ path = [c \in Closer |-> "none"]

(* How a run of the pump may end that finds lines q and, if b, a heartbeat *)
(* behind them: at a line that fills the stream, at one whose write throws *)
(* or with nothing left.                                                   *)
Outcomes(q, b) ==
  LET Outcome(n, taken, beat, end) ==
        [written |-> n, left |-> SubSeq(q, taken + 1, Len(q)), beat |-> beat, end |-> end]
      Stops(n) == {Outcome(n, n, b, "waits"), Outcome(n - 1, n, b, "failed")}
      AtHeartbeat == {Outcome(Len(q), Len(q), FALSE, end) : end \in {"waits", "failed"}}
  IN {Outcome(Len(q), Len(q), FALSE, "idle")}
       \cup (UNION {Stops(n) : n \in 1 .. Len(q)})
       \cup (IF b THEN AtHeartbeat ELSE {})

RunPump(q, b) ==
  \E o \in Outcomes(q, b) :
    /\ wire' = wire \o SubSeq(q, 1, o.written) /\ losslessLines' = o.left
    /\ pendingHeartbeat' = o.beat /\ pump' = o.end
    /\ path' = [c \in Closer |->
         IF path[c] = "flushing" /\ o.end # "waits" THEN "closed" ELSE path[c]]

Pump(q, b) ==
  \/ pump = "idle" /\ RunPump(q, b)
  \/ /\ pump # "idle" /\ losslessLines' = q /\ pendingHeartbeat' = b
     /\ UNCHANGED <<wire, pump, path>>

(* emit takes events at once. A terminal ends checkpoints and heartbeats;  *)
(* anything that may have changed the state arms the checkpoint timer.     *)
EmitAll(es) ==
  LET kinds == {es[i] : i \in DOMAIN es}
      ends == "terminal" \in kinds
  IN /\ accepted' = accepted + Len(es)
     /\ late' = (late \/ ("checkpoint" \in kinds /\ terminalWritten))
     /\ terminalWritten' = (terminalWritten \/ ends)
     /\ checkpoint' = IF "checkpoint" \in kinds THEN FALSE
          ELSE ~ends /\ (checkpoint \/ ("progress" \in kinds /\ ~terminalWritten))
     /\ heartbeats' = (heartbeats /\ ~ends)
     /\ Pump(losslessLines \o Lines(accepted, accepted + Len(es)), pendingHeartbeat /\ ~ends)

Emit(e) == EmitAll(<<e>>)

(* A checkpoint is not queued behind a slow host: the timer starts anew.   *)
CheckpointFires(hasState) ==
  /\ checkpoint /\ pump # "waits"
  /\ \/ hasState /\ Emit("checkpoint")
     \/ /\ ~hasState /\ checkpoint' = FALSE
        /\ UNCHANGED <<accepted, late, terminalWritten, heartbeats, lane>>

HeartbeatFires ==
  /\ heartbeats /\ Pump(losslessLines, TRUE)
  /\ UNCHANGED <<accepted, late, timers>>

(* The stream has room again.                                              *)
Drain ==
  /\ pump = "waits" /\ RunPump(losslessLines, pendingHeartbeat)
  /\ UNCHANGED <<accepted, late, timers>>

FlushedAtEmptyQueue == losslessLines = <<>>
Flushed == pump = "failed" \/ (pump = "idle" /\ losslessLines = <<>>)

(* close: the timers stop, and flush waits for the pump unless it has      *)
(* nothing to do or has failed.                                            *)
Close(c) ==
  /\ path[c] = "none"
  /\ path' = [path EXCEPT ![c] = IF Flushed THEN "closed" ELSE "flushing"]
  /\ checkpoint' = FALSE /\ heartbeats' = FALSE /\ pendingHeartbeat' = FALSE
  /\ UNCHANGED <<accepted, late, wire, losslessLines, pump, terminalWritten>>

WriterTypeOK ==
  /\ accepted \in Nat /\ {wire, losslessLines} \subseteq Seq(1 .. accepted)
  /\ pendingHeartbeat \in BOOLEAN /\ pump \in Pumps
  /\ {late, checkpoint, terminalWritten, heartbeats} \subseteq BOOLEAN
  /\ path \in [Closer -> Paths]
==============================================================================
