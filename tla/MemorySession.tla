--------------------------- MODULE MemorySession ---------------------------
(***************************************************************************)
(* One memory database used by several processes: the reference-counted    *)
(* handle of src/memory/session.ts (withDb, idle close, relinquish,        *)
(* dispose) over the open lock of src/memory/pglite.ts, a file in the data *)
(* directory, with its takeover of stale locks and the recovery that moves *)
(* an unreadable directory aside.                                          *)
(*                                                                         *)
(* An open is named by the op whose withDb starts it.  The lock's code is  *)
(* synchronous: its steps are single file operations, between which other  *)
(* processes act but not the process itself (Free).  What happens inside   *)
(* the database, the pruning of backups, a directory that vanishes between *)
(* two file operations and pids that are reused are left out; an unreadable*)
(* directory is a choice of the environment.                               *)
(***************************************************************************)
EXTENDS Integers, FiniteSets

CONSTANTS
  Proc,        (* processes                                                *)
  Session,     (* MemorySessions on the same path                          *)
  ProcOf,      (* the process of a session                                 *)
  None,        (* no session                                               *)
  MaxOps,      (* bound: calls of withDb, numbered as they are made        *)
  AtomicSign,  (* TRUE: nobody reads the lock file between its creation and*)
               (* the write of the pid                                     *)
  MaxExits,    (* bound: processes that end, killed or not                 *)
  MaxBreaks,   (* bound: opens that find the directory unreadable          *)
  MaxRefusals  (* bound: restored backups whose lock is refused            *)

ASSUME MemorySessionAssumption ==
  /\ ProcOf \in [Session -> Proc]
  /\ None \notin Session
  /\ MaxOps \in Nat
  /\ AtomicSign \in BOOLEAN
  /\ MaxExits \in Nat /\ MaxBreaks \in Nat /\ MaxRefusals \in Nat

VARIABLES
  alive,     (* the processes that run                                     *)
  lock,      (* the open that created the lock file at the path, or NoOp   *)
  signed,    (* the file holds its creator's pid                           *)
  held,      (* processes with the path in heldLockPaths                   *)
  stage,     (* how far an open is, see Stages                             *)
  strict,    (* opens that acquire through acquireOpenLock                 *)
  db,        (* MemorySession.db and its lockPath                          *)
  opening,   (* MemorySession.opening                                      *)
  idleTimer, (* sessions whose idle timer is set                           *)
  phase,     (* where dispose() is                                         *)
  disposing, (* the handle dispose() closes                                *)
  op,        (* where a call of withDb is                                  *)
  caller,    (* the session of the call                                    *)
  use,       (* the open the call awaits or uses                           *)
  opened,    (* history: opens that succeeded, which may have left a backup*)
  robbed,    (* history: a lock file was removed while its creator used it *)
  exits, breaks

fileVars    == <<lock, signed, held, robbed>>
sessionVars == <<db, opening, idleTimer, phase, disposing>>
opVars      == <<op, caller, use>>
vars == <<alive, fileVars, stage, strict, sessionVars, opVars, opened, exits, breaks>>

Op == 1 .. MaxOps

NoOp == 0    (* no open                                                    *)

Stages == {"none", "create", "write", "read", "unlink", "recreate", "sleep", "refused",
           "open", "aside", "ready", "closing", "over", "failed"}

(* The steps of tryAcquireOpenLock and of the recovery before it, which no *)
(* other code of the process interrupts.                                   *)
Synchronous == {"create", "write", "read", "unlink", "recreate", "refused", "aside"}

(* Opens that MemorySession.opening stands for.                            *)
Acquiring == Synchronous \cup {"sleep", "open"}

ProcOfOpen(o) == ProcOf[caller[o]]
Opens(s) == {o \in Op : caller[o] = s}
Free(p)  == /\ p \in alive
            /\ \A o \in Op : stage[o] \in Synchronous => ProcOfOpen(o) # p

(* Opens that hold the lock: PGlite.create is running, the handle is open  *)
(* or its close() is awaited.                                              *)
Users == {o \in Op : stage[o] \in {"open", "ready", "closing"}}

(* The calls counted in refs.                                              *)
Refs(s) == {o \in Opens(s) : op[o] \in {"waiting", "running"}}

Init ==
  /\ alive = Proc
  /\ lock = NoOp /\ signed = FALSE /\ held = {} /\ robbed = FALSE
  /\ stage = [o \in Op |-> "none"] /\ strict = {}
  /\ db = [s \in Session |-> NoOp]
  /\ opening = [s \in Session |-> NoOp]
  /\ idleTimer = {}
  /\ phase = [s \in Session |-> "live"]
  /\ disposing = [s \in Session |-> NoOp]
  /\ op = [o \in Op |-> "new"]
  /\ caller = [o \in Op |-> None]
  /\ use = [o \in Op |-> NoOp]
  /\ opened = {}
  /\ exits = 0 /\ breaks = 0

-----------------------------------------------------------------------------
(* The lock file                                                           *)

(* The file goes; whoever created it and still uses it is robbed.          *)
Robs(by) == lock \in Op \ {by} /\ (lock \in Users \/ stage[lock] = "write")

Removed(by) ==
  /\ lock' = NoOp
  /\ signed' = FALSE
  /\ robbed' = (robbed \/ Robs(by))

(* Contention: acquireOpenLock throws, pollAcquireOpenLock sleeps.         *)
Contended(o) == IF o \in strict THEN "refused" ELSE "sleep"

lockFrame == <<alive, strict, sessionVars, opVars, opened, exits, breaks>>

(* Mutant: the file is created without O_EXCL.                             *)
CreateOverwrites(o) ==
  /\ stage' = [stage EXCEPT ![o] = "write"]
  /\ lock' = o /\ signed' = FALSE

(* createLockFile's openSync(.., "wx")                                     *)
CreateExclusively(o) ==
  IF lock = NoOp
    THEN /\ stage' = [stage EXCEPT ![o] = "write"]
         /\ lock' = o /\ signed' = FALSE
    ELSE /\ stage' = [stage EXCEPT ![o] = IF stage[o] = "create" THEN "read"
                                         ELSE Contended(o)]
         /\ UNCHANGED <<lock, signed>>

CreateLock(o) ==
  /\ stage[o] \in {"create", "recreate"}
  /\ CreateExclusively(o)
  /\ UNCHANGED <<held, robbed, lockFrame>>

(* The pid goes into the file that was created, wherever that is by now.   *)
WriteLock(o) ==
  /\ stage[o] = "write"
  /\ stage' = [stage EXCEPT ![o] = "open"]
  /\ signed' = (signed \/ lock = o)
  /\ held' = held \cup {ProcOfOpen(o)}
  /\ UNCHANGED <<lock, robbed, lockFrame>>

(* Only the pid of a live process other than the reader's keeps the lock.  *)
HeldByOther(o) ==
  /\ lock # NoOp /\ signed
  /\ ProcOfOpen(lock) # ProcOfOpen(o)
  /\ ProcOfOpen(lock) \in alive

ReadLock(o) ==
  /\ stage[o] = "read"
  /\ AtomicSign /\ lock # NoOp => signed
  /\ stage' = [stage EXCEPT ![o] = IF HeldByOther(o) THEN Contended(o) ELSE "unlink"]
  /\ UNCHANGED <<fileVars, lockFrame>>

Unlink(o) ==
  /\ stage[o] = "unlink"
  /\ stage' = [stage EXCEPT ![o] = "recreate"]
  /\ Removed(o)
  /\ UNCHANGED <<held, lockFrame>>

(* pollAcquireOpenLock sleeps and tries again                              *)
Poll(o) ==
  /\ stage[o] = "sleep"
  /\ Free(ProcOfOpen(o))
  /\ stage' = [stage EXCEPT ![o] = "create"]
  /\ UNCHANGED <<fileVars, lockFrame>>

Acquire(o) == CreateLock(o) \/ WriteLock(o) \/ ReadLock(o) \/ Unlink(o) \/ Poll(o)

-----------------------------------------------------------------------------
(* withDb and ensureOpen                                                   *)

(* Mutant: a call does not look at an open that is under way.              *)
OwnOpen(s) == NoOp

(* "every other call awaits the same promise"                              *)
OpenInFlight(s) == opening[s]

WithDb(o, s) ==
  /\ op[o] = "new"
  /\ \A q \in Op : q < o => op[q] # "new"
  /\ Free(ProcOf[s])
  /\ phase[s] = "live"
  /\ caller' = [caller EXCEPT ![o] = s]
  /\ idleTimer' = idleTimer \ {s}
  /\ LET h == IF db[s] # NoOp THEN db[s]
              ELSE IF OpenInFlight(s) # NoOp THEN OpenInFlight(s) ELSE o
     IN  /\ use' = [use EXCEPT ![o] = h]
         /\ op' = [op EXCEPT ![o] = IF db[s] # NoOp THEN "running" ELSE "waiting"]
         /\ stage' = IF h = o THEN [stage EXCEPT ![o] = "create"] ELSE stage
         /\ opening' = IF h = o THEN [opening EXCEPT ![s] = o] ELSE opening
  /\ UNCHANGED <<alive, fileVars, strict, db, phase, disposing, opened, exits, breaks>>

(* Mutant: the calls that joined the open are left waiting.                *)
ResolveFirst(o, result) ==
  /\ op' = [op EXCEPT ![o] = result]
  /\ opening' = [opening EXCEPT ![caller[o]] = NoOp]

(* The calls that await open o go on: with its database, with undefined or *)
(* with its error.                                                         *)
Resolve(o, result) ==
  /\ op' = [q \in Op |-> IF use[q] = o /\ op[q] = "waiting" THEN result ELSE op[q]]
  /\ opening' = [opening EXCEPT ![caller[o]] = NoOp]

RefsAfter(s) == {o \in Opens(s) : op'[o] \in {"waiting", "running"}}

(* Mutant: the idle timer is set while one call is still in flight.        *)
OneLeft(s) == Cardinality(RefsAfter(s)) = 1

(* withDb's finally: the last call of a live session sets the idle timer.  *)
LastUser(s) == RefsAfter(s) = {}

Finally(s) ==
  idleTimer' = IF LastUser(s) /\ phase[s] = "live" THEN idleTimer \cup {s} ELSE idleTimer

OpenSucceeds(o) ==
  /\ stage[o] = "open"
  /\ Free(ProcOfOpen(o))
  /\ stage' = [stage EXCEPT ![o] = "ready"]
  /\ opened' = opened \cup {o}
  /\ db' = [db EXCEPT ![caller[o]] = o]
  /\ Resolve(o, "running")
  /\ UNCHANGED <<alive, fileVars, strict, idleTimer, phase, disposing, caller, use, exits,
                 breaks>>

(* The budget of the call that started the open is spent: MemorySession    *)
(* answers undefined.                                                      *)
TimesOut(o) ==
  /\ stage[o] = "sleep"
  /\ Free(ProcOfOpen(o))
  /\ stage' = [stage EXCEPT ![o] = "over"]
  /\ Resolve(o, "returned")
  /\ Finally(caller[o])
  /\ UNCHANGED <<alive, fileVars, strict, db, phase, disposing, caller, use, opened, exits,
                 breaks>>

(* An open that throws, in PGlite.create or, after a recovery, because     *)
(* another process has the lock.  Nothing releases a lock it holds.        *)
OpenThrows(o) ==
  /\ \/ stage[o] = "open" /\ Free(ProcOfOpen(o))
     \/ stage[o] = "refused"
  /\ stage' = [stage EXCEPT ![o] = "failed"]
  /\ Resolve(o, "returned")
  /\ Finally(caller[o])
  /\ UNCHANGED <<alive, fileVars, strict, db, phase, disposing, caller, use, opened, exits,
                 breaks>>

(* openPGliteHoldingLock finds the directory unreadable: it gives the lock *)
(* up, since the file would move with the directory.                       *)
OpenBreaks(o) ==
  /\ stage[o] = "open"
  /\ breaks < MaxBreaks
  /\ Free(ProcOfOpen(o))
  /\ breaks' = breaks + 1
  /\ stage' = [stage EXCEPT ![o] = "aside"]
  /\ strict' = strict \cup {o}
  /\ Removed(o)
  /\ held' = held \ {ProcOfOpen(o)}
  /\ UNCHANGED <<alive, sessionVars, opVars, opened, exits>>

(* The directory at the path is renamed, with whatever lock file it has.   *)
(* In its place comes nothing, or a backup, with a copy of the lock file of*)
(* the open that made it.                                                  *)
MoveAside(o) ==
  /\ stage[o] = "aside"
  /\ stage' = [stage EXCEPT ![o] = "create"]
  /\ \/ Removed(o)
     \/ \E h \in opened :
          /\ lock' = h /\ signed' = TRUE
          /\ robbed' = (robbed \/ Robs(o))
  /\ UNCHANGED <<held, lockFrame>>

(* A restored backup whose lock is refused is moved aside again.           *)
NextBackup(o) ==
  /\ stage[o] = "refused"
  /\ breaks < MaxBreaks + MaxRefusals
  /\ breaks' = breaks + 1
  /\ stage' = [stage EXCEPT ![o] = "aside"]
  /\ UNCHANGED <<alive, fileVars, strict, sessionVars, opVars, opened, exits>>

OpEnds(o) ==
  /\ op[o] = "running"
  /\ Free(ProcOf[caller[o]])
  /\ op' = [op EXCEPT ![o] = "returned"]
  /\ Finally(caller[o])
  /\ UNCHANGED <<alive, fileVars, stage, strict, db, opening, phase, disposing, caller, use,
                 opened, exits, breaks>>

-----------------------------------------------------------------------------
(* Closing                                                                 *)

(* Mutant: the handle is forgotten only after db.close().                  *)
CloseKeepsDb(s) ==
  /\ stage' = [o \in Op |-> IF o = db[s] THEN "closing" ELSE stage[o]]
  /\ UNCHANGED db

(* closeNow, up to its await of db.close()                                 *)
CloseNow(s) ==
  /\ db' = [db EXCEPT ![s] = NoOp]
  /\ stage' = [o \in Op |-> IF o = db[s] THEN "closing" ELSE stage[o]]

(* Mutant: relinquish looks at the open under way only.                    *)
NotOpening(s) == opening[s] = NoOp

MayRelinquish(s) == Refs(s) = {} /\ opening[s] = NoOp

closeFrame == <<alive, fileVars, strict, opening, opVars, opened, exits, breaks>>

IdleCloses(s) ==
  /\ s \in idleTimer
  /\ Free(ProcOf[s])
  /\ idleTimer' = idleTimer \ {s}
  /\ IF Refs(s) = {} /\ phase[s] = "live" THEN CloseNow(s) ELSE UNCHANGED <<db, stage>>
  /\ UNCHANGED <<phase, disposing, closeFrame>>

(* The embedding worker calls relinquish() between two batches.            *)
Relinquish(s) ==
  /\ Free(ProcOf[s])
  /\ phase[s] = "live" /\ MayRelinquish(s)
  /\ idleTimer' = idleTimer \ {s}
  /\ CloseNow(s)
  /\ UNCHANGED <<phase, disposing, closeFrame>>

Dispose(s) ==
  /\ phase[s] = "live"
  /\ Free(ProcOf[s])
  /\ phase' = [phase EXCEPT ![s] = "draining"]
  /\ idleTimer' = idleTimer \ {s}
  /\ UNCHANGED <<db, stage, disposing, closeFrame>>

(* Mutant: dispose() counts a call only once its database is open.         *)
NoneRunning(s) == \A o \in Opens(s) : op[o] # "running"

(* runDispose polls refs                                                   *)
Drained(s) == Refs(s) = {}

DisposeCloses(s) ==
  /\ phase[s] = "draining" /\ Drained(s)
  /\ Free(ProcOf[s])
  /\ CloseNow(s)
  /\ disposing' = [disposing EXCEPT ![s] = db[s]]
  /\ phase' = [phase EXCEPT ![s] = IF db[s] = NoOp THEN "disposed" ELSE "closing"]
  /\ UNCHANGED <<idleTimer, closeFrame>>

(* releaseOpenLock removes the file at the path, whoever created it.       *)
ReleaseOpenLock(o) == Removed(o) /\ held' = held \ {ProcOfOpen(o)}

CloseEnds(o) ==
  /\ stage[o] = "closing"
  /\ Free(ProcOfOpen(o))
  /\ stage' = [stage EXCEPT ![o] = "over"]
  /\ ReleaseOpenLock(o)
  /\ phase' = [s \in Session |-> IF phase[s] = "closing" /\ disposing[s] = o
                                 THEN "disposed" ELSE phase[s]]
  /\ UNCHANGED <<alive, strict, db, opening, idleTimer, disposing, opVars, opened, exits,
                 breaks>>

-----------------------------------------------------------------------------
(* The end of a process: everything in it goes.  One that exits removes the*)
(* lock file it thinks it holds, one that is killed leaves it.             *)
Gone(p) ==
  /\ exits < MaxExits
  /\ exits' = exits + 1
  /\ alive' = alive \ {p}
  /\ LET mine == {o \in Op : caller[o] # None /\ ProcOf[caller[o]] = p}
         here == {s \in Session : ProcOf[s] = p}
     IN  /\ stage' = [o \in Op |-> IF o \in mine /\ stage[o] # "none" THEN "over"
                                   ELSE stage[o]]
         /\ op' = [o \in Op |-> IF o \in mine /\ op[o] \in {"waiting", "running"}
                                THEN "returned" ELSE op[o]]
         /\ db' = [s \in Session |-> IF s \in here THEN NoOp ELSE db[s]]
         /\ opening' = [s \in Session |-> IF s \in here THEN NoOp ELSE opening[s]]
         /\ phase' = [s \in Session |-> IF s \in here THEN "disposed" ELSE phase[s]]
         /\ idleTimer' = idleTimer \ here
  /\ held' = held \ {p}
  /\ UNCHANGED <<strict, disposing, caller, use, opened, breaks>>

Killed(p) == p \in alive /\ Gone(p) /\ UNCHANGED <<lock, signed, robbed>>

Exits(p) ==
  /\ Free(p)
  /\ Gone(p)
  /\ IF p \in held
       THEN /\ lock' = NoOp /\ signed' = FALSE
            /\ robbed' = (robbed \/ (Robs(NoOp) /\ ProcOfOpen(lock) # p))
       ELSE UNCHANGED <<lock, signed, robbed>>

-----------------------------------------------------------------------------
OpenStep(o) == Acquire(o) \/ OpenSucceeds(o) \/ MoveAside(o) \/ NextBackup(o)
                          \/ OpenBreaks(o) \/ OpenThrows(o) \/ CloseEnds(o)

SessionStep(s) == IdleCloses(s) \/ DisposeCloses(s)

Next ==
  \/ \E o \in Op : OpenStep(o) \/ TimesOut(o) \/ OpEnds(o)
  \/ \E s \in Session : SessionStep(s) \/ Relinquish(s) \/ Dispose(s)
  \/ \E o \in Op, s \in Session : WithDb(o, s)
  \/ \E p \in Proc : Killed(p) \/ Exits(p)

Spec == Init /\ [][Next]_vars

(* File operations, timers and database calls come back; a poller's budget *)
(* is spent although every try of it may find the lock taken.  Nobody has  *)
(* to call withDb, relinquish or dispose.                                  *)
FairSpec ==
  /\ Spec
  /\ \A o \in Op : WF_vars(OpenStep(o)) /\ WF_vars(OpEnds(o)) /\ SF_vars(TimesOut(o))
  /\ \A s \in Session : WF_vars(SessionStep(s))

-----------------------------------------------------------------------------
(* Properties                                                              *)

TypeOK ==
  /\ alive \subseteq Proc /\ held \subseteq Proc
  /\ lock \in Op \cup {NoOp}
  /\ signed \in BOOLEAN /\ robbed \in BOOLEAN
  /\ stage \in [Op -> Stages]
  /\ strict \subseteq Op /\ opened \subseteq Op
  /\ db \in [Session -> {o \in Op : stage[o] = "ready"} \cup {NoOp}]
  /\ opening \in [Session -> Op \cup {NoOp}]
  /\ disposing \in [Session -> Op \cup {NoOp}]
  /\ idleTimer \subseteq Session
  /\ phase \in [Session -> {"live", "draining", "closing", "disposed"}]
  /\ op \in [Op -> {"new", "waiting", "running", "returned"}]
  /\ caller \in [Op -> Session \cup {None}]
  /\ use \in [Op -> Op \cup {NoOp}]
  /\ exits \in 0 .. MaxExits /\ breaks \in 0 .. MaxBreaks + MaxRefusals

(* A callback of withDb never runs on a database that is closed or being   *)
(* closed: not by the idle timer, not by relinquish between two batches,   *)
(* not by dispose.                                                         *)
FnRunsOpen ==
  \A o \in Op : op[o] = "running" => stage[use[o]] = "ready" /\ db[caller[o]] = use[o]

(* "two opens cannot race into init": a session has one open under way or  *)
(* one open handle, however its calls, timers and failed opens interleave. *)
OneOpenPerSession ==
  \A s \in Session : \A o, q \in Opens(s) :
    {stage[o], stage[q]} \subseteq Acquiring \cup {"ready"} => o = q

(* When dispose() has returned, no call of the session waits or runs, and  *)
(* nothing can open the database again.                                    *)
SilentAfterDispose ==
  \A s \in Session :
    phase[s] = "disposed" =>
      Refs(s) = {} /\ db[s] = NoOp /\ opening[s] = NoOp /\ s \notin idleTimer

(* A handle is open for as long as it is used, and no longer: under every  *)
(* running callback, once per session, and not after dispose().            *)
HandlesAreKept == FnRunsOpen /\ OneOpenPerSession /\ SilentAfterDispose

(* Until a lock file is removed from under an open that uses the database, *)
(* the file at the path is the only user's own, whatever was taken over,   *)
(* moved aside or restored before.                                         *)
LockIsTheUsers == ~robbed => \A o \in Users : lock = o

(* The inductive invariant behind the theorems of MemorySession_proofs: a  *)
(* call, the open it awaits or uses and the session agree.                 *)
CallsAgree ==
  \A o \in Op :
    /\ caller[o] = None <=> op[o] = "new"
    /\ stage[o] # "none" => op[o] # "new"
    /\ op[o] = "waiting" => use[o] # NoOp /\ use[o] = opening[caller[o]]
    /\ op[o] = "running" => use[o] # NoOp /\ use[o] = db[caller[o]]
    /\ stage[o] \in Acquiring => op[o] = "waiting" /\ opening[caller[o]] = o
    /\ stage[o] = "ready" => db[caller[o]] = o

SessionsAgree ==
  \A s \in Session :
    /\ opening[s] # NoOp => /\ caller[opening[s]] = s
                            /\ stage[opening[s]] \in Acquiring
                            /\ db[s] = NoOp
    /\ db[s] # NoOp => caller[db[s]] = s
    /\ phase[s] # "live" => s \notin idleTimer
    /\ phase[s] \in {"closing", "disposed"} =>
         db[s] = NoOp /\ \A o \in Opens(s) : op[o] = "returned"

IInv == TypeOK /\ CallsAgree /\ SessionsAgree

(* Every call is answered, at the latest when the budget of the open it    *)
(* joined is spent.                                                        *)
CallReturns == \A o \in Op : op[o] = "waiting" ~> op[o] # "waiting"

(* A lock file does not outlive the burst of calls it was made for, so a   *)
(* peer process can step in.  Excepted are what an open that threw leaves  *)
(* and the copy in a restored backup.                                      *)
LockGivenUp ==
  \A o \in Op :
    (lock = o /\ (o \in Users \/ stage[o] = "write"))
      ~> (lock # o \/ stage[o] = "failed" \/ ProcOf[caller[o]] \notin alive)

(* Neither a caller nor a peer process waits for ever.                     *)
WaitsEnd == CallReturns /\ LockGivenUp

(* "two duet CLIs cannot both call PGlite.create" on one directory.        *)
OneProcessOpens ==
  \A o, q \in Op : stage[o] = "open" /\ stage[q] = "open" => ProcOfOpen(o) = ProcOfOpen(q)
=============================================================================
