----------------------- MODULE MemorySession_proofs -----------------------
(***************************************************************************)
(* Theorems about MemorySession for any processes, sessions and calls, and *)
(* whatever happens to the lock file; and, at the end, about the worker    *)
(* that fills in embeddings through it (EmbeddingWorker).                  *)
(***************************************************************************)
EXTENDS MemorySession, EmbeddingWorker, FiniteSetTheorems, TLAPS

USE MemorySessionAssumption DEF Op, NoOp

(* The steps of an open that acquires, or recovers, move nothing but the   *)
(* open itself.                                                            *)
LEMMA AcquiringStep ==
  ASSUME IInv, NEW o \in Op, stage[o] \in Acquiring,
         NEW to \in Acquiring, stage' = [stage EXCEPT ![o] = to],
         UNCHANGED <<sessionVars, opVars>>
  PROVE  /\ stage' \in [Op -> Stages]
         /\ db' \in [Session -> {q \in Op : stage'[q] = "ready"} \cup {NoOp}]
         /\ CallsAgree' /\ SessionsAgree'
<1>1. stage' \in [Op -> Stages]
  BY DEF IInv, TypeOK, Stages, Acquiring, Synchronous
<1>2. db' \in [Session -> {q \in Op : stage'[q] = "ready"} \cup {NoOp}]
  BY DEF IInv, TypeOK, sessionVars, Acquiring, Synchronous
<1>3. CallsAgree'
  BY DEF IInv, TypeOK, CallsAgree, sessionVars, opVars, Acquiring, Synchronous
<1>4. SessionsAgree'
  BY DEF IInv, TypeOK, SessionsAgree, sessionVars, opVars, Acquiring, Synchronous, Opens
<1> QED BY <1>1, <1>2, <1>3, <1>4

LEMMA OpenStepIInv ==
  ASSUME IInv, NEW o \in Op,
         Acquire(o) \/ OpenBreaks(o) \/ MoveAside(o) \/ NextBackup(o)
  PROVE  IInv'
<1> USE DEF Acquiring, Synchronous, Contended
<1>1. CASE CreateLock(o)
  <2>1. PICK to \in Acquiring : stage' = [stage EXCEPT ![o] = to]
    BY <1>1 DEF CreateLock, CreateExclusively
  <2>2. UNCHANGED <<sessionVars, opVars>> /\ stage[o] \in Acquiring
    BY <1>1 DEF CreateLock, lockFrame
  <2>3. lock' \in Op \cup {NoOp} /\ signed' \in BOOLEAN
    BY <1>1 DEF CreateLock, CreateExclusively, IInv, TypeOK
  <2> QED BY <1>1, <2>1, <2>2, <2>3, AcquiringStep
       DEF CreateLock, lockFrame, IInv, TypeOK, sessionVars, opVars
<1>2. CASE WriteLock(o)
  <2>1. stage' = [stage EXCEPT ![o] = "open"] /\ stage[o] \in Acquiring
    BY <1>2 DEF WriteLock
  <2>2. UNCHANGED <<sessionVars, opVars>>
    BY <1>2 DEF WriteLock, lockFrame
  <2>3. held' \subseteq Proc /\ signed' \in BOOLEAN
    BY <1>2 DEF WriteLock, IInv, TypeOK, CallsAgree, ProcOfOpen
  <2> QED BY <1>2, <2>1, <2>2, <2>3, AcquiringStep
       DEF WriteLock, lockFrame, IInv, TypeOK, sessionVars, opVars
<1>3. CASE ReadLock(o)
  <2>1. PICK to \in Acquiring : stage' = [stage EXCEPT ![o] = to]
    BY <1>3 DEF ReadLock
  <2>2. UNCHANGED <<sessionVars, opVars>> /\ stage[o] \in Acquiring
    BY <1>3 DEF ReadLock, lockFrame
  <2> QED BY <1>3, <2>1, <2>2, AcquiringStep
       DEF ReadLock, lockFrame, fileVars, IInv, TypeOK, sessionVars, opVars
<1>4. CASE Unlink(o)
  <2>1. stage' = [stage EXCEPT ![o] = "recreate"] /\ stage[o] \in Acquiring
    BY <1>4 DEF Unlink
  <2>2. UNCHANGED <<sessionVars, opVars>>
    BY <1>4 DEF Unlink, lockFrame
  <2>3. lock' \in Op \cup {NoOp} /\ signed' \in BOOLEAN /\ robbed' \in BOOLEAN
    BY <1>4 DEF Unlink, Removed, IInv, TypeOK
  <2> QED BY <1>4, <2>1, <2>2, <2>3, AcquiringStep
       DEF Unlink, lockFrame, IInv, TypeOK, sessionVars, opVars
<1>5. CASE Poll(o)
  <2>1. stage' = [stage EXCEPT ![o] = "create"] /\ stage[o] \in Acquiring
    BY <1>5 DEF Poll
  <2>2. UNCHANGED <<sessionVars, opVars>>
    BY <1>5 DEF Poll, lockFrame
  <2> QED BY <1>5, <2>1, <2>2, AcquiringStep
       DEF Poll, lockFrame, fileVars, IInv, TypeOK, sessionVars, opVars
<1>6. CASE OpenBreaks(o)
  <2>1. stage' = [stage EXCEPT ![o] = "aside"] /\ stage[o] \in Acquiring
    BY <1>6 DEF OpenBreaks
  <2>2. UNCHANGED <<sessionVars, opVars>>
    BY <1>6 DEF OpenBreaks
  <2>3. lock' \in Op \cup {NoOp} /\ signed' \in BOOLEAN /\ robbed' \in BOOLEAN
    BY <1>6 DEF OpenBreaks, Removed, IInv, TypeOK
  <2>4. breaks' \in 0 .. MaxBreaks + MaxRefusals /\ strict' \subseteq Op /\ held' \subseteq Proc
    BY <1>6 DEF OpenBreaks, IInv, TypeOK
  <2> QED BY <1>6, <2>1, <2>2, <2>3, <2>4, AcquiringStep
       DEF OpenBreaks, IInv, TypeOK, sessionVars, opVars
<1>7. CASE MoveAside(o)
  <2>1. stage' = [stage EXCEPT ![o] = "create"] /\ stage[o] \in Acquiring
    BY <1>7 DEF MoveAside
  <2>2. UNCHANGED <<sessionVars, opVars>>
    BY <1>7 DEF MoveAside, lockFrame
  <2>3. lock' \in Op \cup {NoOp} /\ signed' \in BOOLEAN /\ robbed' \in BOOLEAN
    BY <1>7 DEF MoveAside, Removed, IInv, TypeOK
  <2> QED BY <1>7, <2>1, <2>2, <2>3, AcquiringStep
       DEF MoveAside, lockFrame, IInv, TypeOK, sessionVars, opVars
<1>8. CASE NextBackup(o)
  <2>1. stage' = [stage EXCEPT ![o] = "aside"] /\ stage[o] \in Acquiring
    BY <1>8 DEF NextBackup
  <2>2. UNCHANGED <<sessionVars, opVars>>
    BY <1>8 DEF NextBackup
  <2>3. breaks' \in 0 .. MaxBreaks + MaxRefusals
    BY <1>8 DEF NextBackup, IInv, TypeOK
  <2> QED BY <1>8, <2>1, <2>2, <2>3, AcquiringStep
       DEF NextBackup, fileVars, IInv, TypeOK, sessionVars, opVars
<1> QED BY <1>1, <1>2, <1>3, <1>4, <1>5, <1>6, <1>7, <1>8 DEF Acquire

(* A call joins what the session has, or starts an open of its own.        *)
LEMMA WithDbIInv ==
  ASSUME IInv, NEW o \in Op, NEW s \in Session, WithDb(o, s)
  PROVE  IInv'
<1> DEFINE h == IF db[s] # NoOp THEN db[s]
                ELSE IF OpenInFlight(s) # NoOp THEN OpenInFlight(s) ELSE o
<1> USE DEF OpenInFlight
<1>1. /\ op[o] = "new" /\ phase[s] = "live"
      /\ caller' = [caller EXCEPT ![o] = s]
      /\ idleTimer' = idleTimer \ {s}
      /\ use' = [use EXCEPT ![o] = h]
      /\ op' = [op EXCEPT ![o] = IF db[s] # NoOp THEN "running" ELSE "waiting"]
      /\ stage' = IF h = o THEN [stage EXCEPT ![o] = "create"] ELSE stage
      /\ opening' = IF h = o THEN [opening EXCEPT ![s] = o] ELSE opening
      /\ UNCHANGED <<alive, fileVars, strict, db, phase, disposing, opened, exits, breaks>>
  BY DEF WithDb
<1>2. stage[o] = "none" /\ caller[o] = None
  BY <1>1 DEF IInv, TypeOK, CallsAgree
<1>3. h \in Op /\ (h = o <=> db[s] = NoOp /\ opening[s] = NoOp)
  BY <1>1, <1>2 DEF IInv, TypeOK, SessionsAgree, Acquiring, Synchronous
<1> HIDE DEF h
<1>4. TypeOK'
  BY <1>1, <1>2, <1>3 DEF IInv, TypeOK, fileVars, Stages
<1>5. CallsAgree'
  BY <1>1, <1>2, <1>3 DEF h, IInv, TypeOK, CallsAgree, SessionsAgree, Acquiring, Synchronous
<1>6. SessionsAgree'
  BY <1>1, <1>2, <1>3 DEF IInv, TypeOK, CallsAgree, SessionsAgree, Opens, Acquiring,
                          Synchronous
<1> QED BY <1>4, <1>5, <1>6 DEF IInv

(* The handle is there: everybody who waits for it runs.                   *)
LEMMA OpenSucceedsIInv ==
  ASSUME IInv, NEW o \in Op, OpenSucceeds(o)
  PROVE  IInv'
<1> DEFINE s == caller[o]
<1>1. /\ stage[o] = "open"
      /\ stage' = [stage EXCEPT ![o] = "ready"]
      /\ opened' = opened \cup {o}
      /\ db' = [db EXCEPT ![s] = o]
      /\ op' = [q \in Op |-> IF use[q] = o /\ op[q] = "waiting" THEN "running" ELSE op[q]]
      /\ opening' = [opening EXCEPT ![s] = NoOp]
      /\ UNCHANGED <<alive, fileVars, strict, idleTimer, phase, disposing, caller, use, exits,
                     breaks>>
  BY DEF OpenSucceeds, Resolve
<1>2. s \in Session /\ opening[s] = o /\ op[o] = "waiting" /\ db[s] = NoOp
  BY <1>1 DEF IInv, TypeOK, CallsAgree, SessionsAgree, Acquiring
<1>3. TypeOK'
  BY <1>1, <1>2 DEF IInv, TypeOK, fileVars, Stages
<1>4. CallsAgree'
  BY <1>1, <1>2 DEF IInv, TypeOK, CallsAgree, SessionsAgree, Acquiring, Synchronous
<1>5. SessionsAgree'
  BY <1>1, <1>2 DEF IInv, TypeOK, CallsAgree, SessionsAgree, Opens, Acquiring, Synchronous
<1> QED BY <1>3, <1>4, <1>5 DEF IInv

(* The open comes to nothing: everybody who waits for it returns.          *)
LEMMA OpenAbandonedIInv ==
  ASSUME IInv, NEW o \in Op, TimesOut(o) \/ OpenThrows(o)
  PROVE  IInv'
<1> DEFINE s == caller[o]
<1>1. /\ stage[o] \in Acquiring
      /\ stage' = [stage EXCEPT ![o] = "over"] \/ stage' = [stage EXCEPT ![o] = "failed"]
      /\ op' = [q \in Op |-> IF use[q] = o /\ op[q] = "waiting" THEN "returned" ELSE op[q]]
      /\ opening' = [opening EXCEPT ![s] = NoOp]
      /\ idleTimer' = idleTimer \/ (phase[s] = "live" /\ idleTimer' = idleTimer \cup {s})
      /\ UNCHANGED <<alive, fileVars, strict, db, phase, disposing, caller, use, opened, exits,
                     breaks>>
  BY DEF TimesOut, OpenThrows, Resolve, Finally, Acquiring, Synchronous
<1>2. s \in Session /\ opening[s] = o /\ op[o] = "waiting" /\ db[s] = NoOp
  BY <1>1 DEF IInv, TypeOK, CallsAgree, SessionsAgree
<1>3. TypeOK'
  BY <1>1, <1>2 DEF IInv, TypeOK, fileVars, Stages, Acquiring, Synchronous
<1>4. CallsAgree'
  BY <1>1, <1>2 DEF IInv, TypeOK, CallsAgree, SessionsAgree, Acquiring, Synchronous
<1>5. SessionsAgree'
  BY <1>1, <1>2 DEF IInv, TypeOK, CallsAgree, SessionsAgree, Opens, Acquiring, Synchronous
<1> QED BY <1>3, <1>4, <1>5 DEF IInv

LEMMA OpEndsIInv ==
  ASSUME IInv, NEW o \in Op, OpEnds(o)
  PROVE  IInv'
<1> DEFINE s == caller[o]
<1>1. /\ op[o] = "running"
      /\ op' = [op EXCEPT ![o] = "returned"]
      /\ idleTimer' = idleTimer \/ (phase[s] = "live" /\ idleTimer' = idleTimer \cup {s})
      /\ UNCHANGED <<alive, fileVars, stage, strict, db, opening, phase, disposing, caller, use,
                     opened, exits, breaks>>
  BY DEF OpEnds, Finally
<1>2. s \in Session
  BY <1>1 DEF IInv, TypeOK, CallsAgree
<1>3. TypeOK'
  BY <1>1, <1>2 DEF IInv, TypeOK, fileVars
<1>4. CallsAgree'
  BY <1>1, <1>2 DEF IInv, TypeOK, CallsAgree
<1>5. SessionsAgree'
  BY <1>1, <1>2 DEF IInv, TypeOK, SessionsAgree, Opens
<1> QED BY <1>3, <1>4, <1>5 DEF IInv

(* closeNow when no call is in flight.                                     *)
LEMMA CloseNowEffect ==
  ASSUME IInv, NEW s \in Session, Refs(s) = {}, CloseNow(s),
         UNCHANGED <<opening, opVars>>
  PROVE  /\ stage' \in [Op -> Stages]
         /\ db' \in [Session -> {q \in Op : stage'[q] = "ready"} \cup {NoOp}]
         /\ db'[s] = NoOp
         /\ \A r \in Session \ {s} : db'[r] = db[r]
         /\ CallsAgree'
         /\ \A r \in Session :
              opening'[r] # NoOp => /\ caller'[opening'[r]] = r
                                    /\ stage'[opening'[r]] \in Acquiring
                                    /\ db'[r] = NoOp
         /\ \A r \in Session : db'[r] # NoOp => caller'[db'[r]] = r
<1>1. /\ db' = [db EXCEPT ![s] = NoOp]
      /\ stage' = [o \in Op |-> IF o = db[s] THEN "closing" ELSE stage[o]]
      /\ opening' = opening /\ op' = op /\ caller' = caller /\ use' = use
  BY DEF CloseNow, opVars
<1>2. \A o \in Opens(s) : op[o] \notin {"waiting", "running"}
  BY DEF Refs
<1>3. stage' \in [Op -> Stages]
  BY <1>1 DEF IInv, TypeOK, Stages
<1>4. \A r \in Session : db'[r] # NoOp => db'[r] # db[s] /\ db'[r] = db[r] /\ r # s
  BY <1>1 DEF IInv, TypeOK, SessionsAgree
<1>5. db' \in [Session -> {q \in Op : stage'[q] = "ready"} \cup {NoOp}]
  BY <1>1, <1>4 DEF IInv, TypeOK
<1>6. CallsAgree'
  BY <1>1, <1>2 DEF IInv, TypeOK, CallsAgree, SessionsAgree, Opens, Acquiring, Synchronous
<1>7. \A r \in Session :
        opening'[r] # NoOp => /\ caller'[opening'[r]] = r
                              /\ stage'[opening'[r]] \in Acquiring
                              /\ db'[r] = NoOp
  BY <1>1 DEF IInv, TypeOK, SessionsAgree, Acquiring, Synchronous
<1>8. \A r \in Session : db'[r] # NoOp => caller'[db'[r]] = r
  BY <1>1, <1>4 DEF IInv, SessionsAgree
<1> QED BY <1>1, <1>3, <1>5, <1>6, <1>7, <1>8 DEF IInv, TypeOK

LEMMA CloseIInv ==
  ASSUME IInv, NEW s \in Session,
         IdleCloses(s) \/ Relinquish(s) \/ Dispose(s) \/ DisposeCloses(s)
  PROVE  IInv'
<1> USE DEF closeFrame
<1>1. CASE (IdleCloses(s) \/ Relinquish(s)) /\ CloseNow(s) /\ Refs(s) = {}
  <2>1. /\ idleTimer' = idleTimer \ {s}
        /\ UNCHANGED <<phase, disposing, closeFrame>>
    BY <1>1 DEF IdleCloses, Relinquish
  <2>2. TypeOK'
    <3>1. /\ stage' \in [Op -> Stages]
          /\ db' \in [Session -> {o \in Op : stage'[o] = "ready"} \cup {NoOp}]
      BY <1>1, <2>1, CloseNowEffect
    <3>2. UNCHANGED <<alive, lock, signed, held, robbed, strict, opening, op, caller, use,
                      opened, exits, breaks>>
      BY <2>1 DEF fileVars, opVars
    <3> QED BY <2>1, <3>1, <3>2 DEF IInv, TypeOK
  <2>3. SessionsAgree'
    <3>1. UNCHANGED <<opening, op, caller, phase>> /\ idleTimer' \subseteq idleTimer
      BY <2>1 DEF opVars
    <3>2. \A r \in Session : db[r] = NoOp => db'[r] = NoOp
      BY <1>1, <2>1, CloseNowEffect
    <3> QED BY <1>1, <2>1, <3>1, <3>2, CloseNowEffect DEF IInv, SessionsAgree, Opens
  <2> QED BY <1>1, <2>1, <2>2, <2>3, CloseNowEffect DEF IInv
<1>2. CASE DisposeCloses(s)
  <2>1. /\ CloseNow(s) /\ Refs(s) = {} /\ phase[s] = "draining"
        /\ disposing' = [disposing EXCEPT ![s] = db[s]]
        /\ phase' = [phase EXCEPT ![s] = IF db[s] = NoOp THEN "disposed" ELSE "closing"]
        /\ UNCHANGED <<idleTimer, closeFrame>>
    BY <1>2 DEF DisposeCloses, Drained
  <2>2. TypeOK'
    BY <2>1, CloseNowEffect DEF IInv, TypeOK, fileVars, opVars
  <2>3. ASSUME NEW o \in Opens(s)
        PROVE  op[o] = "returned"
    <3>1. o \in Op /\ caller[o] # None
      BY MemorySessionAssumption DEF Opens
    <3>2. op[o] # "new"
      BY <3>1 DEF IInv, CallsAgree
    <3>3. op[o] \notin {"waiting", "running"}
      BY <2>1 DEF Refs
    <3> QED BY <3>1, <3>2, <3>3 DEF IInv, TypeOK
  <2>4. SessionsAgree'
    BY <2>1, <2>3, CloseNowEffect DEF IInv, TypeOK, SessionsAgree, opVars, Opens
  <2> QED BY <2>1, <2>2, <2>4, CloseNowEffect DEF IInv
<1>3. CASE IdleCloses(s) /\ UNCHANGED <<db, stage>>
  <2>1. /\ idleTimer' = idleTimer \ {s}
        /\ UNCHANGED <<db, stage, phase, disposing, closeFrame>>
    BY <1>3 DEF IdleCloses
  <2> QED BY <2>1 DEF IInv, TypeOK, CallsAgree, SessionsAgree, Opens, fileVars, opVars
<1>4. CASE Dispose(s)
  <2>1. /\ phase' = [phase EXCEPT ![s] = "draining"]
        /\ idleTimer' = idleTimer \ {s}
        /\ UNCHANGED <<db, stage, disposing, closeFrame>>
    BY <1>4 DEF Dispose
  <2>2. TypeOK' /\ CallsAgree'
    BY <2>1 DEF IInv, TypeOK, CallsAgree, fileVars, opVars
  <2>3. SessionsAgree'
    BY <2>1 DEF IInv, TypeOK, SessionsAgree, Opens, opVars
  <2> QED BY <2>2, <2>3 DEF IInv
<1> QED BY <1>1, <1>2, <1>3, <1>4 DEF IdleCloses, Relinquish, MayRelinquish

LEMMA CloseEndsIInv ==
  ASSUME IInv, NEW o \in Op, CloseEnds(o)
  PROVE  IInv'
<1>1. /\ stage[o] = "closing"
      /\ stage' = [stage EXCEPT ![o] = "over"]
      /\ phase' = [s \in Session |-> IF phase[s] = "closing" /\ disposing[s] = o
                                     THEN "disposed" ELSE phase[s]]
      /\ UNCHANGED <<alive, strict, db, opening, idleTimer, disposing, opVars, opened, exits,
                     breaks>>
  BY DEF CloseEnds
<1>2. /\ lock' \in Op \cup {NoOp} /\ signed' \in BOOLEAN /\ robbed' \in BOOLEAN
      /\ held' \subseteq Proc
  BY DEF CloseEnds, ReleaseOpenLock, Removed, IInv, TypeOK
<1>3. TypeOK'
  BY <1>1, <1>2 DEF IInv, TypeOK, opVars, Stages
<1>4. CallsAgree'
  BY <1>1 DEF IInv, TypeOK, CallsAgree, opVars, Acquiring, Synchronous
<1>5. SessionsAgree'
  BY <1>1 DEF IInv, TypeOK, SessionsAgree, opVars, Opens, Acquiring, Synchronous
<1> QED BY <1>3, <1>4, <1>5 DEF IInv

(* With a process go its sessions, their calls and their opens.            *)
LEMMA GoneIInv ==
  ASSUME IInv, NEW p \in Proc, Killed(p) \/ Exits(p)
  PROVE  IInv'
<1> DEFINE mine == {o \in Op : caller[o] # None /\ ProcOf[caller[o]] = p}
           here == {s \in Session : ProcOf[s] = p}
<1>1. Gone(p)
  BY DEF Killed, Exits
<1>2. /\ exits' \in 0 .. MaxExits
      /\ alive' = alive \ {p} /\ held' = held \ {p}
      /\ stage' = [o \in Op |-> IF o \in mine /\ stage[o] # "none" THEN "over" ELSE stage[o]]
      /\ op' = [o \in Op |-> IF o \in mine /\ op[o] \in {"waiting", "running"}
                             THEN "returned" ELSE op[o]]
      /\ db' = [s \in Session |-> IF s \in here THEN NoOp ELSE db[s]]
      /\ opening' = [s \in Session |-> IF s \in here THEN NoOp ELSE opening[s]]
      /\ phase' = [s \in Session |-> IF s \in here THEN "disposed" ELSE phase[s]]
      /\ idleTimer' = idleTimer \ here
      /\ UNCHANGED <<strict, disposing, caller, use, opened, breaks>>
  BY <1>1 DEF Gone, IInv, TypeOK
<1>3. lock' \in Op \cup {NoOp} /\ signed' \in BOOLEAN /\ robbed' \in BOOLEAN
  BY DEF Killed, Exits, IInv, TypeOK
<1>4. \A s \in Session : db[s] # NoOp => (s \in here <=> db[s] \in mine)
  BY DEF IInv, TypeOK, SessionsAgree
<1>5. \A o \in Op : caller[o] # None => (o \in mine <=> caller[o] \in here)
  BY DEF IInv, TypeOK
<1>6. TypeOK'
  BY <1>2, <1>3, <1>4 DEF IInv, TypeOK, Stages
<1> HIDE DEF mine, here
<1>7. CallsAgree'
  BY <1>2, <1>5 DEF IInv, TypeOK, CallsAgree, Acquiring, Synchronous
<1>8. SessionsAgree'
  BY <1>2, <1>4, <1>5 DEF IInv, TypeOK, CallsAgree, SessionsAgree, Opens, Acquiring,
                          Synchronous
<1> QED BY <1>6, <1>7, <1>8 DEF IInv

(* IInv is inductive.                                                      *)
THEOREM Agreement == Spec => []IInv
<1>1. Init => IInv
  <2> SUFFICES ASSUME Init PROVE IInv
    OBVIOUS
  <2>1. TypeOK
    <3>1. exits \in 0 .. MaxExits /\ breaks \in 0 .. MaxBreaks + MaxRefusals
      BY MemorySessionAssumption DEF Init
    <3>2. /\ db \in [Session -> {o \in Op : stage[o] = "ready"} \cup {NoOp}]
          /\ opening \in [Session -> Op \cup {NoOp}]
          /\ disposing \in [Session -> Op \cup {NoOp}]
          /\ phase \in [Session -> {"live", "draining", "closing", "disposed"}]
      BY DEF Init
    <3>3. /\ stage \in [Op -> Stages]
          /\ op \in [Op -> {"new", "waiting", "running", "returned"}]
          /\ caller \in [Op -> Session \cup {None}]
          /\ use \in [Op -> Op \cup {NoOp}]
      BY DEF Init, Stages
    <3> QED BY <3>1, <3>2, <3>3 DEF Init, TypeOK
  <2>2. CallsAgree
    <3>1. \A o \in Op : caller[o] = None /\ op[o] = "new" /\ stage[o] = "none"
      BY DEF Init
    <3> QED BY <3>1 DEF CallsAgree, Acquiring, Synchronous
  <2>3. SessionsAgree
    <3>1. \A s \in Session : opening[s] = NoOp /\ db[s] = NoOp /\ phase[s] = "live"
      BY DEF Init
    <3> QED BY <3>1 DEF SessionsAgree
  <2> QED BY <2>1, <2>2, <2>3 DEF IInv
<1>2. IInv /\ [Next]_vars => IInv'
  <2> SUFFICES ASSUME IInv, [Next]_vars PROVE IInv'
    OBVIOUS
  <2>1. CASE UNCHANGED vars
    BY <2>1 DEF vars, fileVars, sessionVars, opVars, IInv, TypeOK, CallsAgree,
                SessionsAgree, Opens
  <2>2. ASSUME NEW o \in Op, OpenStep(o) \/ TimesOut(o) \/ OpEnds(o)
        PROVE  IInv'
    BY <2>2, OpenStepIInv, OpenSucceedsIInv, OpenAbandonedIInv, CloseEndsIInv, OpEndsIInv
       DEF OpenStep
  <2>3. ASSUME NEW s \in Session, SessionStep(s) \/ Relinquish(s) \/ Dispose(s)
        PROVE  IInv'
    BY <2>3, CloseIInv DEF SessionStep
  <2>4. ASSUME NEW o \in Op, NEW s \in Session, WithDb(o, s)
        PROVE  IInv'
    BY <2>4, WithDbIInv
  <2>5. ASSUME NEW p \in Proc, Killed(p) \/ Exits(p)
        PROVE  IInv'
    BY <2>5, GoneIInv
  <2> QED BY <2>1, <2>2, <2>3, <2>4, <2>5 DEF Next
<1> QED BY <1>1, <1>2, PTL DEF Spec

(* Every variable keeps its type (session.ts:56-86, pglite.ts:751-847).    *)
THEOREM TypeCorrect == Spec => []TypeOK
<1>1. IInv => TypeOK
  BY DEF IInv
<1> QED BY <1>1, Agreement, PTL

(* No callback of withDb runs on a closed database (session.ts:97-123).    *)
THEOREM CallbacksRunOpen == Spec => []FnRunsOpen
<1>1. IInv => FnRunsOpen
  BY DEF IInv, TypeOK, CallsAgree, FnRunsOpen
<1> QED BY <1>1, Agreement, PTL

(* A session has one open under way or one handle (session.ts:182-201).    *)
THEOREM OpensOnce == Spec => []OneOpenPerSession
<1>1. IInv => OneOpenPerSession
  <2> SUFFICES ASSUME IInv, NEW s \in Session, NEW o \in Opens(s), NEW q \in Opens(s),
                      {stage[o], stage[q]} \subseteq Acquiring \cup {"ready"}
               PROVE  o = q
    BY DEF OneOpenPerSession
  <2>1. o \in Op /\ q \in Op /\ caller[o] = s /\ caller[q] = s
    BY DEF Opens
  <2>2. opening[s] = o \/ db[s] = o
    BY <2>1 DEF IInv, CallsAgree
  <2>3. opening[s] = q \/ db[s] = q
    BY <2>1 DEF IInv, CallsAgree
  <2> QED BY <2>1, <2>2, <2>3 DEF IInv, SessionsAgree
<1> QED BY <1>1, Agreement, PTL

(* dispose() is final (session.ts:144-165).                                *)
THEOREM DisposeIsFinal == Spec => []SilentAfterDispose
<1>1. IInv => SilentAfterDispose
  <2> SUFFICES ASSUME IInv, NEW s \in Session, phase[s] = "disposed"
               PROVE  /\ Refs(s) = {} /\ db[s] = NoOp /\ opening[s] = NoOp
                      /\ s \notin idleTimer
    BY DEF SilentAfterDispose
  <2>1. Refs(s) = {} /\ db[s] = NoOp /\ s \notin idleTimer
    BY DEF IInv, SessionsAgree, Refs
  <2>2. opening[s] = NoOp
    <3> SUFFICES ASSUME opening[s] # NoOp PROVE FALSE
      OBVIOUS
    <3>1. opening[s] \in Opens(s) /\ op[opening[s]] = "waiting"
      BY DEF IInv, TypeOK, CallsAgree, SessionsAgree, Opens
    <3> QED BY <3>1 DEF IInv, SessionsAgree
  <2> QED BY <2>1, <2>2
<1> QED BY <1>1, Agreement, PTL

(* The three together: a handle is open exactly for its users, for every   *)
(* number of processes, sessions and calls (session.ts:88-247).            *)
THEOREM HandlesKept == Spec => []HandlesAreKept
<1>1. FnRunsOpen /\ OneOpenPerSession /\ SilentAfterDispose => HandlesAreKept
  BY DEF HandlesAreKept
<1> QED BY <1>1, CallbacksRunOpen, OpensOnce, DisposeIsFinal, PTL

-----------------------------------------------------------------------------
(* LockIsTheUsers is inductive once the open that has created its file and *)
(* not yet written its pid counts as a user too.                           *)
Holder(o) == stage[o] \in {"write", "open", "ready", "closing"}

LockAgrees == ~robbed => \A o \in Op : Holder(o) => lock = o

(* A step that makes no holder and leaves the file alone.                  *)
LEMMA FileUntouched ==
  ASSUME LockAgrees, UNCHANGED <<lock, robbed>>,
         \A o \in Op : Holder(o)' => Holder(o)
  PROVE  LockAgrees'
BY DEF LockAgrees

(* A step of o that removes or replaces the file, after which o holds none.*)
LEMMA FileTaken ==
  ASSUME LockAgrees, lock \in Op \cup {NoOp}, NEW o \in Op,
         robbed' = (robbed \/ Robs(o)),
         ~Holder(o)', \A q \in Op : Holder(q)' => Holder(q)
  PROVE  LockAgrees'
<1> SUFFICES ASSUME ~robbed', NEW q \in Op, Holder(q)' PROVE FALSE
  BY DEF LockAgrees
<1>1. lock = q /\ q # o
  BY DEF LockAgrees
<1>2. Robs(o)
  BY <1>1 DEF Robs, Users, Holder
<1> QED BY <1>2

LEMMA LockStep ==
  ASSUME TypeOK, CallsAgree, LockAgrees, [Next]_vars
  PROVE  LockAgrees'
<1> USE DEF TypeOK, fileVars, sessionVars, opVars, lockFrame, closeFrame
<1>1. CASE UNCHANGED vars
  BY <1>1, FileUntouched DEF vars, Holder
<1>2. ASSUME NEW o \in Op, CreateLock(o) PROVE LockAgrees'
  <2>1. CASE lock = NoOp
    <3>1. /\ stage' = [stage EXCEPT ![o] = "write"]
          /\ lock' = o /\ robbed' = robbed
      BY <1>2, <2>1 DEF CreateLock, CreateExclusively
    <3>2. ~robbed => \A q \in Op : ~Holder(q)
      BY <2>1 DEF LockAgrees
    <3> QED BY <3>1, <3>2 DEF LockAgrees, Holder
  <2>2. CASE lock # NoOp
    BY <1>2, <2>2, FileUntouched DEF CreateLock, CreateExclusively, Contended, Holder
  <2> QED BY <2>1, <2>2
<1>3. ASSUME NEW o \in Op, WriteLock(o) PROVE LockAgrees'
  BY <1>3, FileUntouched DEF WriteLock, Holder
<1>4. ASSUME NEW o \in Op, ReadLock(o) \/ Poll(o) \/ NextBackup(o) PROVE LockAgrees'
  BY <1>4, FileUntouched DEF ReadLock, Poll, NextBackup, Contended, Holder
<1>5. ASSUME NEW o \in Op, Unlink(o) \/ OpenBreaks(o) \/ MoveAside(o) \/ CloseEnds(o)
      PROVE  LockAgrees'
  <2>1. /\ robbed' = (robbed \/ Robs(o))
        /\ \E to \in {"recreate", "aside", "create", "over"} :
             stage' = [stage EXCEPT ![o] = to]
    BY <1>5 DEF Unlink, OpenBreaks, MoveAside, CloseEnds, ReleaseOpenLock, Removed
  <2>2. ~Holder(o)' /\ \A q \in Op : Holder(q)' => Holder(q)
    BY <2>1 DEF Holder
  <2> QED BY <2>1, <2>2, FileTaken
<1>6. ASSUME NEW o \in Op, OpenSucceeds(o) \/ OpenThrows(o) \/ TimesOut(o) \/ OpEnds(o)
      PROVE  LockAgrees'
  BY <1>6, FileUntouched DEF OpenSucceeds, OpenThrows, TimesOut, OpEnds, Holder
<1>7. ASSUME NEW s \in Session, SessionStep(s) \/ Relinquish(s) \/ Dispose(s)
      PROVE  LockAgrees'
  <2>1. /\ UNCHANGED <<lock, robbed>>
        /\ \/ stage' = stage
           \/ stage' = [o \in Op |-> IF o = db[s] THEN "closing" ELSE stage[o]]
    BY <1>7 DEF SessionStep, IdleCloses, DisposeCloses, Relinquish, Dispose, CloseNow
  <2>2. \A o \in Op : o = db[s] => stage[o] = "ready"
    OBVIOUS
  <2> QED BY <2>1, <2>2, FileUntouched DEF Holder
<1>8. ASSUME NEW o \in Op, NEW s \in Session, WithDb(o, s) PROVE LockAgrees'
  BY <1>8, FileUntouched DEF WithDb, CallsAgree, Holder
<1>9. ASSUME NEW p \in Proc, Killed(p) \/ Exits(p) PROVE LockAgrees'
  <2>1. /\ \A o \in Op : Holder(o)' => Holder(o)
        /\ \A o \in Op : Holder(o)' => caller[o] = None \/ ProcOf[caller[o]] # p
    BY <1>9 DEF Killed, Exits, Gone, Holder
  <2>2. CASE UNCHANGED <<lock, robbed>>
    BY <2>1, <2>2, FileUntouched
  <2>3. CASE robbed' = (robbed \/ (Robs(NoOp) /\ ProcOfOpen(lock) # p))
    <3> SUFFICES ASSUME ~robbed', NEW o \in Op, Holder(o)' PROVE FALSE
      BY DEF LockAgrees
    <3>1. lock = o /\ Holder(o)
      BY <2>1, <2>3 DEF LockAgrees
    <3>2. Robs(NoOp)
      BY <3>1 DEF Robs, Users, Holder
    <3>3. ProcOfOpen(lock) # p
      BY <2>1, <3>1 DEF ProcOfOpen, CallsAgree, Holder
    <3> QED BY <2>3, <3>2, <3>3
  <2> QED BY <1>9, <2>2, <2>3 DEF Killed, Exits
<1> QED
  BY <1>1, <1>2, <1>3, <1>4, <1>5, <1>6, <1>7, <1>8, <1>9
  DEF Next, OpenStep, Acquire

(* The lock file belongs to its only user until a removal takes it from    *)
(* one: file by file, the takeover of pglite.ts:751-801 and the release of *)
(* session.ts:233-247 exclude each other otherwise.                        *)
THEOREM LockHolds == Spec => []LockIsTheUsers
<1>1. Init => LockAgrees
  BY DEF Init, LockAgrees, Holder
<1>2. IInv /\ LockAgrees /\ [Next]_vars => LockAgrees'
  BY LockStep DEF IInv
<1>3. LockAgrees => LockIsTheUsers
  BY DEF LockAgrees, LockIsTheUsers, Holder, Users
<1> QED BY <1>1, <1>2, <1>3, Agreement, PTL DEF Spec
-----------------------------------------------------------------------------
(* The embedding worker that uses the database in the background, for any  *)
(* rows, batch size, failures and peers.                                   *)

Owed == told \cap Unembedded

(* What a loop that is about to leave knows.                               *)
Covered ==
  /\ pc = "empty" /\ ~stopped => pendingKick \/ Owed \subseteq attempts \cup overlooked
  /\ pc \in {"drained", "ending"} /\ ~stopped => pendingKick \/ Owed \subseteq overlooked

WorkerInv == WorkerTypeOK /\ Covered /\ IdleIsDrained

(* Who called stop() aborted the loop that he awaits.                      *)
StopInv == QuietAfterStop /\ (stopping # "no" => stopped)

(* An empty batch was taken from nothing.                                  *)
LEMMA EmptyBatch ==
  ASSUME WorkerTypeOK, SelectBatch, pc' = "empty"
  PROVE  Unembedded \subseteq attempts
<1> DEFINE open == Unembedded \ attempts
<1>1. IsFiniteSet(open)
  BY FS_Subset, EmbeddingAssumption DEF WorkerTypeOK, Unembedded
<1>2. PICK b \in SUBSET open :
        /\ Cardinality(b) = (IF Cardinality(open) < BatchSize THEN Cardinality(open) ELSE BatchSize)
        /\ pc' = IF b = {} THEN "empty" ELSE "embed"
  BY DEF SelectBatch
<1>3. b = {} /\ Cardinality(b) = 0
  BY <1>2, FS_EmptySet
<1>4. Cardinality(open) \in Nat
  BY <1>1, FS_CardinalityType
<1>5. Cardinality(open) = 0
  <2> HIDE DEF open
  <2> QED BY <1>2, <1>3, <1>4, EmbeddingAssumption
<1>6. open = {}
  BY <1>1, <1>5, FS_EmptySet
<1> QED BY <1>6

(* Type correctness is preserved by every step.                            *)
LEMMA WorkerTypes == WorkerTypeOK /\ [WorkerNext]_workerVars => WorkerTypeOK'
<1> SUFFICES ASSUME WorkerTypeOK, [WorkerNext]_workerVars PROVE WorkerTypeOK'
  OBVIOUS
<1> USE DEF WorkerTypeOK, WorkerStages, storeVars, stopVars
<1>1. ASSUME NEW r \in Row, Write(r) PROVE WorkerTypeOK'
  BY <1>1 DEF Write
<1>2. ASSUME NEW r \in Row, NotifyWrite(r) PROVE WorkerTypeOK'
  BY <1>2 DEF NotifyWrite, Kick, Top
<1>3. CASE Stop
  BY <1>3 DEF Stop
<1>4. CASE DrainInBatches
  BY <1>4 DEF DrainInBatches
<1>5. CASE LockBusy
  BY <1>5 DEF LockBusy, BackOff
<1>6. CASE SelectBatch
  BY <1>6 DEF SelectBatch, Unembedded
<1>7. CASE EmbedAndPersist
  BY <1>7 DEF EmbedAndPersist
<1>8. CASE DrainThrows
  BY <1>8 DEF DrainThrows, BackOff
<1>9. CASE CheckCooling
  BY <1>9 DEF CheckCooling, BackOff
<1>10. CASE RunDrained
  BY <1>10 DEF RunDrained, Top
<1>11. CASE Ends
  BY <1>11 DEF Ends, Restart, Top
<1>12. CASE SleepEnds
  BY <1>12 DEF SleepEnds, Top
<1>13. CASE PauseEnds
  BY <1>13 DEF PauseEnds
<1>14. CASE DatabaseIdles \/ PeerOpens \/ PeerCloses
  BY <1>14 DEF DatabaseIdles, PeerOpens, PeerCloses
<1>15. ASSUME NEW r \in Row,
              \/ Expire(r) \/ PeerWrites(r)
              \/ PeerEmbeds(r) \/ Delete(r)
       PROVE  WorkerTypeOK'
  BY <1>15 DEF Expire, PeerWrites, PeerEmbeds, Delete,
               Unembedded
<1>16. CASE UNCHANGED workerVars
  BY <1>16 DEF workerVars
<1> QED
  BY <1>1, <1>2, <1>3, <1>4, <1>5, <1>6, <1>7, <1>8, <1>9, <1>10, <1>11, <1>12, <1>13, <1>14,
     <1>15, <1>16 DEF WorkerNext, Process, Worker, Environment

(* A loop that leaves, or has left, owes nothing.                          *)
LEMMA CoveredStep ==
  ASSUME WorkerInv, [WorkerNext]_workerVars
  PROVE  (Covered /\ IdleIsDrained)'
<1> USE DEF WorkerInv, Covered, IdleIsDrained, Owed, Unembedded, storeVars, stopVars
<1>1. ASSUME NEW r \in Row, Write(r) PROVE (Covered /\ IdleIsDrained)'
  BY <1>1 DEF Write, WorkerTypeOK
<1>2. ASSUME NEW r \in Row, NotifyWrite(r) PROVE (Covered /\ IdleIsDrained)'
  BY <1>2 DEF NotifyWrite, Kick, Top
<1>3. CASE Stop
  BY <1>3 DEF Stop
<1>4. CASE DrainInBatches
  BY <1>4 DEF DrainInBatches
<1>5. CASE LockBusy
  BY <1>5 DEF LockBusy, BackOff
<1>6. CASE SelectBatch
  <2>1. pc' = "empty" \/ pc' = "embed"
    BY <1>6 DEF SelectBatch
  <2>2. UNCHANGED storeVars /\ attempts \subseteq attempts'
    BY <1>6 DEF SelectBatch
  <2>3. pc' = "empty" => Unembedded \subseteq attempts
    BY <1>6, EmptyBatch
  <2> QED BY <2>1, <2>2, <2>3
<1>7. CASE EmbedAndPersist
  BY <1>7 DEF EmbedAndPersist
<1>8. CASE DrainThrows
  BY <1>8 DEF DrainThrows, BackOff
<1>9. CASE CheckCooling
  <2>1. CASE HasCooledBacklog
    BY <1>9, <2>1 DEF CheckCooling, BackOff
  <2>2. CASE ~HasCooledBacklog
    BY <1>9, <2>2 DEF CheckCooling, HasCooledBacklog
  <2> QED BY <2>1, <2>2
<1>10. CASE RunDrained
  BY <1>10 DEF RunDrained, Top
<1>11. CASE Ends
  BY <1>11 DEF Ends, Restart, Top
<1>12. CASE SleepEnds
  BY <1>12 DEF SleepEnds, Top
<1>13. CASE PauseEnds
  BY <1>13 DEF PauseEnds
<1>14. CASE DatabaseIdles \/ PeerOpens \/ PeerCloses
  BY <1>14 DEF DatabaseIdles, PeerOpens, PeerCloses
<1>15. ASSUME NEW r \in Row, Expire(r) PROVE (Covered /\ IdleIsDrained)'
  BY <1>15 DEF Expire
<1>16. ASSUME NEW r \in Row, PeerWrites(r) PROVE (Covered /\ IdleIsDrained)'
  BY <1>16 DEF PeerWrites, WorkerTypeOK
<1>17. ASSUME NEW r \in Row, PeerEmbeds(r) \/ Delete(r)
       PROVE  (Covered /\ IdleIsDrained)'
  BY <1>17 DEF PeerEmbeds, Delete
<1>18. CASE UNCHANGED workerVars
  BY <1>18 DEF workerVars
<1> QED
  BY <1>1, <1>2, <1>3, <1>4, <1>5, <1>6, <1>7, <1>8, <1>9, <1>10, <1>11, <1>12, <1>13, <1>14,
     <1>15, <1>16, <1>17, <1>18
  DEF WorkerNext, Process, Worker, Environment

LEMMA WorkerInitInv == WorkerInit => WorkerInv
BY DEF WorkerInit, WorkerInv, WorkerTypeOK, Covered, IdleIsDrained,
       WorkerStages, Owed, Unembedded

(* Every variable keeps its type, for every set of rows and batch size.    *)
THEOREM WorkerTypeCorrect == WorkerSpec => []WorkerTypeOK
<1>1. WorkerInit => WorkerTypeOK
  BY WorkerInitInv DEF WorkerInv
<1> QED BY <1>1, WorkerTypes, PTL DEF WorkerSpec

(* A worker that has left its loop has embedded every row it was started   *)
(* with or kicked for, but for one whose attempt expired between the select*)
(* that left it out and the check of hasCooledBacklog.                     *)
THEOREM LeavesNothing == WorkerSpec => []IdleIsDrained
<1>1. WorkerInv /\ [WorkerNext]_workerVars => WorkerInv'
  BY WorkerTypes, CoveredStep DEF WorkerInv
<1>2. WorkerInv => IdleIsDrained
  BY DEF WorkerInv
<1> QED BY WorkerInitInv, <1>1, <1>2, PTL DEF WorkerSpec

(* No loop is there once stop() has returned: the one it awaited does not  *)
(* start another, and a kick does not either.                              *)
THEOREM StopIsFinal == WorkerSpec => []QuietAfterStop
<1>1. WorkerInit => StopInv
  BY DEF WorkerInit, StopInv, QuietAfterStop
<1>2. StopInv /\ [WorkerNext]_workerVars => StopInv'
  <2> SUFFICES ASSUME StopInv, [WorkerNext]_workerVars PROVE StopInv'
    OBVIOUS
  <2> USE DEF StopInv, QuietAfterStop, stopVars
  <2>1. ASSUME NEW r \in Row, Write(r) \/ NotifyWrite(r) PROVE StopInv'
    BY <2>1 DEF Write, NotifyWrite, Kick
  <2>2. CASE Stop
    BY <2>2 DEF Stop
  <2>3. CASE Ends
    BY <2>3 DEF Ends, Restart
  <2>4. CASE \/ DrainInBatches \/ LockBusy \/ SelectBatch \/ EmbedAndPersist \/ DrainThrows
             \/ CheckCooling \/ RunDrained \/ SleepEnds \/ PauseEnds
    BY <2>4 DEF DrainInBatches, LockBusy, SelectBatch, EmbedAndPersist, DrainThrows, InDatabase,
       CheckCooling, RunDrained, SleepEnds, PauseEnds
  <2>5. CASE Environment
    BY <2>5 DEF Environment, DatabaseIdles, PeerOpens, PeerCloses, Expire, PeerWrites,
       PeerEmbeds, Delete
  <2>6. CASE UNCHANGED workerVars
    BY <2>6 DEF workerVars
  <2> QED BY <2>1, <2>2, <2>3, <2>4, <2>5, <2>6 DEF WorkerNext, Process, Worker
<1>3. StopInv => QuietAfterStop
  BY DEF StopInv
<1> QED BY <1>1, <1>2, <1>3, PTL DEF WorkerSpec
=============================================================================
