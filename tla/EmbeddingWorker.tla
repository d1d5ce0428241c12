--------------------------- MODULE EmbeddingWorker ---------------------------
(***************************************************************************)
(* The background worker that fills missing embeddings                     *)
(* (src/memory/embedding-worker.ts): started once, it drains the rows that *)
(* have no embedding in batches, leaves when nothing is left and is kicked *)
(* by every write of its own process.                                      *)
(*                                                                         *)
(* One process and its worker; other processes are the environment: they   *)
(* hold the open lock for a while, write and delete rows and embed some.   *)
(* Rows are model values; the order of a batch, the vectors and the log    *)
(* are left out, durations are an order of events: an entry of             *)
(* recentAttempts expires when the environment says so.  What is said here *)
(* of the database's session is that it may close when idle; MemorySession *)
(* has the rest, and the proofs of both are in MemorySession_proofs.       *)
(***************************************************************************)
EXTENDS Integers, FiniteSets

CONSTANTS
  Row,          (* observations that may be written                        *)
  BatchSize     (* BATCH_SIZE                                              *)

ASSUME EmbeddingAssumption ==
  /\ IsFiniteSet(Row)
  /\ BatchSize \in Nat \ {0}

VARIABLES
  rows,         (* rows of the observations table                          *)
  embedded,     (* ids with a row in observation_embeddings                *)
  unsaid,       (* rows this process wrote and has not notified yet        *)
  written,      (* history: ids that were ever written                     *)
  told,         (* history: rows the worker was started with or kicked for *)
  access,       (* who has the database open                               *)
  pc,           (* where the loop is                                       *)
  batch,        (* the rows whose embedding is awaited                     *)
  attempts,     (* recentAttempts, without what has expired                *)
  pendingKick, stopped,
  stopping,     (* the call of stop(): none, awaits runningPromise, over   *)
  overlooked    (* history: rows whose attempt expired since the select    *)
                (* that left them out                                      *)

storeVars == <<rows, embedded, unsaid, written, told>>
stopVars == <<stopped, stopping>>
workerVars == <<storeVars, access, pc, batch, attempts, pendingKick, stopVars, overlooked>>

(* "off" no runningPromise; "open" withDb awaits the database; "select",   *)
(* "embed", "empty" inside drainBatch; "drained" its result is on the way; *)
(* "pause" between two batches; "sleep" a backoff of run; "ending" run has *)
(* returned and start's finally has not run.                               *)
WorkerStages == {"off", "open", "select", "embed", "empty", "drained", "pause", "sleep", "ending"}
InDatabase == {"select", "embed", "empty"}

(* loadStoredMemory has embedded what its catch-up reached and has just    *)
(* called start(): there may be a backlog.                                 *)
WorkerInit ==
  /\ rows \in SUBSET Row /\ embedded \in SUBSET rows
  /\ unsaid = {} /\ written = rows /\ told = rows
  /\ access = "own"
  /\ pc = "open" /\ batch = {} /\ attempts = {}
  /\ pendingKick = FALSE /\ stopped = FALSE /\ stopping = "no" /\ overlooked = {}

Unembedded == rows \ embedded

(* The head of run's loop: the flag is reset before the drain begins.      *)
Top == pc' = "open" /\ pendingKick' = FALSE

(***************************************************************************)
(* The process: writes, their notification, stop().                        *)
(***************************************************************************)
Write(r) ==
  /\ r \notin written /\ ~stopped /\ access # "peer"
  /\ rows' = rows \cup {r} /\ written' = written \cup {r}
  /\ unsaid' = unsaid \cup {r} /\ access' = "own"
  /\ UNCHANGED <<embedded, told, pc, batch, attempts, pendingKick, stopVars, overlooked>>

KickIgnoresStop ==
  IF pc = "off" THEN Top ELSE pendingKick' = TRUE /\ UNCHANGED pc

(* A kick only sets the flag while the loop exists, and starts one else.   *)
Kick ==
  IF stopped THEN UNCHANGED <<pc, pendingKick>>
  ELSE IF pc = "off" THEN Top
  ELSE pendingKick' = TRUE /\ UNCHANGED pc

NotifyWrite(r) ==
  /\ r \in unsaid
  /\ unsaid' = unsaid \ {r} /\ told' = told \cup {r}
  /\ Kick
  /\ UNCHANGED <<rows, embedded, written, access, batch, attempts, stopVars, overlooked>>

(* stop() aborts the loop and awaits the promise it finds.                 *)
Stop ==
  /\ ~stopped /\ stopped' = TRUE
  /\ stopping' = IF pc = "off" THEN "over" ELSE "awaits"
  /\ UNCHANGED <<storeVars, access, pc, batch, attempts, pendingKick, overlooked>>

(***************************************************************************)
(* The loop.                                                               *)
(***************************************************************************)
DrainInBatches ==
  /\ pc = "open" /\ access # "peer"
  /\ pc' = "select" /\ access' = "own"
  /\ UNCHANGED <<storeVars, batch, attempts, pendingKick, stopVars, overlooked>>

BackOffByName == pc' = IF stopped THEN "ending" ELSE "backoff"

(* run returns when it sees the abort, else it backs off.                  *)
BackOff == pc' = IF stopped THEN "ending" ELSE "sleep"

LockBusy ==
  /\ pc = "open" /\ access = "peer" /\ BackOff
  /\ UNCHANGED <<storeVars, access, batch, attempts, pendingKick, stopVars, overlooked>>

(* The attempt is stamped before the embedding is awaited.                 *)
SelectBatch ==
  /\ pc = "select"
  /\ LET open == Unembedded \ attempts
         size == IF Cardinality(open) < BatchSize THEN Cardinality(open) ELSE BatchSize
     IN \E b \in SUBSET open :
          /\ Cardinality(b) = size
          /\ batch' = b /\ attempts' = attempts \cup b
          /\ pc' = IF b = {} THEN "empty" ELSE "embed"
  /\ overlooked' = {}
  /\ UNCHANGED <<storeVars, access, pendingKick, stopVars>>

(* A full batch gives the lock up, a partial one selects again.            *)
EmbedAndPersist ==
  /\ pc = "embed"
  /\ embedded' = embedded \cup batch /\ batch' = {}
  /\ IF Cardinality(batch) < BatchSize
       THEN pc' = "select" /\ UNCHANGED access
       ELSE /\ pc' = IF stopped THEN "ending" ELSE "pause"
            /\ access' \in IF stopped THEN {access} ELSE {access, "free"}
  /\ UNCHANGED <<rows, unsaid, written, told, attempts, pendingKick, stopVars, overlooked>>

(* The open, either query or the embedding throws, up to run's catch.      *)
DrainThrows ==
  /\ pc \in {"open"} \cup InDatabase /\ BackOff /\ batch' = {}
  /\ UNCHANGED <<storeVars, access, attempts, pendingKick, stopVars, overlooked>>

NothingCools == FALSE

(* Nothing selected: only an attempt that still cools makes it look again. *)
HasCooledBacklog == attempts # {} /\ Unembedded # {}

CheckCooling ==
  /\ pc = "empty"
  /\ IF HasCooledBacklog THEN BackOff ELSE pc' = "drained"
  /\ UNCHANGED <<storeVars, access, batch, attempts, pendingKick, stopVars, overlooked>>

(* The loop leaves unless a kick arrived since its head.                   *)
RunDrained ==
  /\ pc = "drained"
  /\ IF pendingKick /\ ~stopped THEN Top ELSE pc' = "ending" /\ UNCHANGED pendingKick
  /\ UNCHANGED <<storeVars, access, batch, attempts, stopVars, overlooked>>

NoRestart == pc' = "off" /\ UNCHANGED pendingKick
RestartAnyway == IF pendingKick THEN Top ELSE pc' = "off" /\ UNCHANGED pendingKick

(* The finally of start(): a kick that came after the last check restarts. *)
Restart ==
  IF pendingKick /\ ~stopped THEN Top ELSE pc' = "off" /\ UNCHANGED pendingKick

(* The promise that stop() awaits settles with that finally.               *)
Ends ==
  /\ pc = "ending" /\ Restart
  /\ stopping' = IF stopping = "awaits" THEN "over" ELSE stopping
  /\ UNCHANGED <<storeVars, access, batch, attempts, stopped, overlooked>>

(* A sleep ends by its timer, or at once when a kick is pending or stop()  *)
(* was called, whether that came before it began or during it.             *)
SleepEnds ==
  /\ pc = "sleep"
  /\ IF stopped THEN pc' = "ending" /\ UNCHANGED pendingKick ELSE Top
  /\ UNCHANGED <<storeVars, access, batch, attempts, stopVars, overlooked>>

PauseEnds ==
  /\ pc = "pause"
  /\ pc' = IF stopped THEN "ending" ELSE "open"
  /\ UNCHANGED <<storeVars, access, batch, attempts, pendingKick, stopVars, overlooked>>

(***************************************************************************)
(* The environment.                                                        *)
(***************************************************************************)
NeverExpires(r) == r \in attempts /\ FALSE /\ UNCHANGED workerVars

Expire(r) ==
  /\ r \in attempts /\ attempts' = attempts \ {r}
  /\ overlooked' = IF pc = "empty" THEN overlooked \cup {r} ELSE overlooked
  /\ UNCHANGED <<storeVars, access, pc, batch, pendingKick, stopVars>>

DatabaseIdles ==
  /\ access = "own" /\ pc \notin InDatabase /\ access' = "free"
  /\ UNCHANGED <<storeVars, pc, batch, attempts, pendingKick, stopVars, overlooked>>

PeerOpens ==
  /\ access = "free" /\ access' = "peer"
  /\ UNCHANGED <<storeVars, pc, batch, attempts, pendingKick, stopVars, overlooked>>

PeerCloses ==
  /\ access = "peer" /\ access' = "free"
  /\ UNCHANGED <<storeVars, pc, batch, attempts, pendingKick, stopVars, overlooked>>

(* A peer writes a row, embeds one, or a reflection deletes one.           *)
PeerWrites(r) ==
  /\ access = "peer" /\ r \notin written
  /\ rows' = rows \cup {r} /\ written' = written \cup {r}
  /\ UNCHANGED <<embedded, unsaid, told, access, pc, batch, attempts, pendingKick, stopVars, overlooked>>

PeerEmbeds(r) ==
  /\ access = "peer" /\ r \in Unembedded /\ embedded' = embedded \cup {r}
  /\ UNCHANGED <<rows, unsaid, written, told, access, pc, batch, attempts, pendingKick, stopVars, overlooked>>

Delete(r) ==
  /\ r \in rows /\ rows' = rows \ {r}
  /\ UNCHANGED <<embedded, unsaid, written, told, access, pc, batch, attempts, pendingKick, stopVars, overlooked>>

Worker ==
  DrainInBatches \/ LockBusy \/ SelectBatch \/ EmbedAndPersist \/ DrainThrows \/ CheckCooling
    \/ RunDrained \/ Ends \/ SleepEnds \/ PauseEnds
Environment ==
  \/ DatabaseIdles \/ PeerOpens \/ PeerCloses
  \/ \E r \in Row : Expire(r) \/ PeerWrites(r) \/ PeerEmbeds(r) \/ Delete(r)
Process == Stop \/ \E r \in Row : Write(r) \/ NotifyWrite(r)

WorkerNext == Process \/ Worker \/ Environment

WorkerSpec == WorkerInit /\ [][WorkerNext]_workerVars

(* The loop's continuations run; timers fire and attempts expire, also when*)
(* the loop looks at them only now and then; a peer closes what it opened; *)
(* a drain that keeps asking finds the lock free, the database and the     *)
(* service up at times.                                                    *)
FairWorkerSpec ==
  /\ WorkerSpec
  /\ WF_workerVars(LockBusy) /\ SF_workerVars(SelectBatch) /\ SF_workerVars(CheckCooling)
  /\ WF_workerVars(RunDrained) /\ WF_workerVars(Ends) /\ WF_workerVars(SleepEnds)
  /\ WF_workerVars(PauseEnds)
  /\ SF_workerVars(EmbedAndPersist) /\ WF_workerVars(PeerCloses) /\ WF_workerVars(DrainInBatches)
  /\ []<>(pc = "open") => []<><<DrainInBatches>>_workerVars
  /\ \A r \in Row : WF_workerVars(NotifyWrite(r)) /\ SF_workerVars(Expire(r))

(***************************************************************************)
(* Properties.                                                             *)
(***************************************************************************)

(* The type invariant of the worker and the tables it reads.               *)
WorkerTypeOK ==
  /\ rows \subseteq written /\ embedded \subseteq written
  /\ unsaid \subseteq written /\ told \subseteq written /\ written \subseteq Row
  /\ access \in {"own", "peer", "free"}
  /\ pc \in WorkerStages
  /\ batch \subseteq written /\ attempts \subseteq written
  /\ pendingKick \in BOOLEAN /\ stopped \in BOOLEAN
  /\ stopping \in {"no", "awaits", "over"} /\ overlooked \subseteq written

(* A worker that has left its loop owes nothing: every row it was started  *)
(* with or kicked for is embedded or deleted, wherever the kick landed     *)
(* between the last select and the end of the loop (run, start, kick), but *)
(* for a row whose attempt expired between the select that left it out and *)
(* hasCooledBacklog, which reads the clock again.                          *)
IdleIsDrained == pc = "off" /\ ~stopped => told \cap Unembedded \subseteq overlooked

(* Once stop() has returned the worker is out of the database for good,    *)
(* which is disposed next: the promise stop() awaited was the last loop,   *)
(* although a kick may be pending when it ends or come later (start's      *)
(* finally, kick, storage.ts dispose).                                     *)
QuietAfterStop == stopping = "over" => pc = "off"

(* Every row the worker was told of is embedded in the end, unless it is   *)
(* deleted or the worker stopped, or left it behind as above: through      *)
(* failures of the service and the database, the cooldown, peers that hold *)
(* the lock and backoffs (run, drainBatch).                                *)
ToldIsEmbedded ==
  \A r \in Row : r \in told ~> (r \notin Unembedded \/ stopped \/ (pc = "off" /\ r \in overlooked))
==============================================================================
