----------------------- MODULE ConnectedTokens_proofs -----------------------
(***************************************************************************)
(* Proofs about ConnectedTokens for every set of processes, providers and  *)
(* clients, any number of crashes and of operations that outlive the limit *)
(* of a lock.                                                              *)
(***************************************************************************)
EXTENDS ConnectedTokens, TLAPS

(* A lock file is there as long as its creator works under it, unless it   *)
(* was unlinked under him. How that comes about: a client that has found a *)
(* stale file met one of a dead process or of a slow holder, and what it   *)
(* unlinks is the file of another process.                                 *)
Found == {"found", "found again"}
Running == \A c \in Client : stage[c] # "idle" => up[c[1]] = "up"
Owned == \A c \in Client : stage[c] \in Critical => lock.by = c \/ c \in without
SomeDied == \E p \in Proc : up[p] = "dead"
WhyStale ==
  lock.stale => lock.by \in Client /\ (overstays > 0 \/ up[lock.by[1]] = "dead")
WhyFound == \A c \in Client : stage[c] \in Found => overstays > 0 \/ SomeDied
FoundElsewhere ==
  \A c, d \in Client :
    stage[c] \in Found /\ stage[d] \in Critical /\ lock.by = d => overstays > 0 \/ c[1] # d[1]
WhyRobbed ==
  /\ without # {} => robbed
  /\ robbed => overstays > 0 \/ TwoReclaimers

Held == Running /\ Owned /\ WhyStale /\ WhyFound /\ FoundElsewhere /\ WhyRobbed

(* Nobody works beside another.                                            *)
Alone == \A c, d \in Client : stage[c] \in Critical /\ stage[d] \in Critical => c = d

(* Credentials of a login that wait for the lock.                          *)
Queueing == {"try", "again", "found", "found again", "reading"}
Waiting(c) == stage[c] \in Queueing /\ next[c] \notin {Keep, 0}

(* What a client knows of the store, and of the token it will write.       *)
Busied == {"asking", "writing", "rewriting"}
Bounded ==
  /\ \A v \in Provider : store[v] <= minted[v]
  /\ \A c \in Client : next[c] <= minted[c[2]]
ReadIsCurrent == \A c \in Client : stage[c] \in Busied => doc[c] = store
NextIsKept ==
  \A c \in Client : stage[c] \in Busied =>
    next[c] = 0 \/ <<c[2], next[c]>> \in live \cup lost
LoginIsNew ==
  \A c \in Client : Waiting(c) =>
    /\ <<c[2], next[c]>> \in live /\ store[c[2]] # next[c]
    /\ \A d \in Client : c # d /\ c[2] = d[2] => next[c] # next[d]

GrantIsKept ==
  \A v \in Provider :
    \/ store[v] = 0
    \/ <<v, store[v]>> \in live \cup lost
    \/ \E c \in Client : stage[c] = "writing" /\ Grant(c) = <<v, store[v]>>

Carried == Bounded /\ ReadIsCurrent /\ NextIsKept /\ LoginIsNew /\ GrantIsKept

(* A client is a triple, never the empty tuple of a free lock.             *)
LEMMA ClientType ==
  \A c \in Client : c[1] \in Proc /\ c[2] \in Provider /\ c # <<>>
BY TokensAssumption, SMT

LEMMA BoundType ==
  MaxMinted \in Nat \ {0} /\ MaxOverstays \in Nat /\ Rotating \subseteq Provider
BY TokensAssumption

(* The parts of TypeOK: each mentions few of the variables.                *)
LockType == lock \in [by : Client \cup {<<>>}, stale : BOOLEAN]
TokenType == live \subseteq Provider \X Credentials /\ lost \subseteq Provider \X Credentials
StageType == up \in [Proc -> {"new", "up", "dead"}] /\ stage \in [Client -> Stages]
DocumentType ==
  /\ store \in Document /\ minted \in Document /\ expired \in Document
  /\ doc \in [Client -> Document] /\ next \in [Client -> Credentials \cup {Keep}]
  /\ cache \in [Proc -> Document]

RobberyType == overstays \in 0 .. MaxOverstays /\ without \subseteq Client /\ robbed \in BOOLEAN

(* Past the read a client knows what it will write.                        *)
Resolved ==
  \A c \in Client : stage[c] \in Critical \ {"reading"} => next[c] \in Credentials

LEMMA Types == TypeOK <=> LockType /\ TokenType /\ StageType /\ DocumentType /\ RobberyType
BY DEF TypeOK, LockType, TokenType, StageType, DocumentType, RobberyType

LEMMA LockTypeStep == LockType /\ [Next]_vars => LockType'
<1> SUFFICES ASSUME LockType, [Next]_vars PROVE LockType'
  OBVIOUS
<1>1. ASSUME NEW c \in Client, Acquire(c) PROVE LockType'
  BY <1>1 DEF LockType, Acquire
<1>2. ASSUME NEW c \in Client, Reclaim(c) \/ Release(c) PROVE LockType'
  <2>1. NoLock \in [by : Client \cup {<<>>}, stale : BOOLEAN]
    BY DEF NoLock
  <2> QED BY <1>2, <2>1 DEF LockType, Reclaim, Release, Unlink
<1>3. CASE Age
  BY <1>3 DEF LockType, Age, NoLock
<1>4. CASE UNCHANGED lock
  BY <1>4 DEF LockType
<1> QED
  BY <1>1, <1>2, <1>3, <1>4 DEF Next, Call, AcquireFileLock, Busy, FindStale, Operation, Ask,
     ReadDocument, Refreshed, Refused, Unanswered, WriteDocument, WriteFails, LoadSnapshot,
     Crash, Expire, vars

LEMMA RobberyTypeStep == RobberyType /\ [Next]_vars => RobberyType'
<1> SUFFICES ASSUME RobberyType, [Next]_vars PROVE RobberyType'
  OBVIOUS
<1> USE BoundType DEF RobberyType
<1>1. ASSUME NEW c \in Client, Unlink(c), UNCHANGED overstays PROVE RobberyType'
  BY <1>1 DEF Unlink, RobbedBy
<1>2. CASE Age
  BY <1>2 DEF Age
<1>3. ASSUME NEW p \in Proc, Crash(p) PROVE RobberyType'
  BY <1>3 DEF Crash
<1>4. CASE UNCHANGED robbery
  BY <1>4 DEF robbery
<1> QED
  BY <1>1, <1>2, <1>3, <1>4 DEF Next, Call, AcquireFileLock, Acquire, Busy, FindStale, Reclaim,
     LockStep, Operation, Ask, ReadDocument, Refreshed, Refused, Unanswered, WriteDocument,
     WriteFails, Release, LoadSnapshot, Expire, robbery, vars

LEMMA StageTypeStep == StageType /\ [Next]_vars => StageType'
<1> SUFFICES ASSUME StageType, [Next]_vars PROVE StageType'
  OBVIOUS
<1> USE DEF StageType, Stages, Synchronous, Critical, To, clients, LockStep
<1>1. ASSUME NEW c \in Client, Call(c) \/ AcquireFileLock(c) PROVE StageType'
  BY <1>1 DEF Call, AcquireFileLock, Acquire, Busy, FindStale, Reclaim
<1>2. ASSUME NEW c \in Client, Operation(c) PROVE StageType'
  BY <1>2 DEF Operation, Ask, ReadDocument, ReadToRefresh, Refreshed, Refused, Unanswered,
     WriteDocument, WriteFails, Release, Ended
<1>3. ASSUME NEW p \in Proc, LoadSnapshot(p) \/ Crash(p) PROVE StageType'
  BY <1>3 DEF LoadSnapshot, Crash, Ended
<1>4. CASE Age \/ (\E v \in Provider : Expire(v)) \/ UNCHANGED vars
  BY <1>4 DEF Age, Expire, vars
<1> QED
  BY <1>1, <1>2, <1>3, <1>4 DEF Next

LEMMA TokenTypeStep == TokenType /\ DocumentType /\ [Next]_vars => TokenType'
<1> SUFFICES ASSUME TokenType, DocumentType, [Next]_vars PROVE TokenType'
  OBVIOUS
<1>0. \A c \in Client : Grant(c) \in Provider \X Credentials
  BY ClientType DEF Grant, DocumentType, Document
<1>1. \A c \in Client : Unwritten(c) \subseteq Provider \X Credentials
  BY <1>0 DEF Unwritten
<1>2. ASSUME NEW c \in Client, minted[c[2]] < MaxMinted
      PROVE  <<c[2], minted[c[2]] + 1>> \in Provider \X Credentials
  BY <1>2, ClientType, BoundType DEF DocumentType, Document, Credentials
<1> USE <1>0, <1>1, <1>2 DEF TokenType
<1>3. ASSUME NEW c \in Client, Call(c) PROVE TokenType'
  BY <1>3 DEF Call, EnsureFreshToken, MarkReconnectNeeded, Connect, Disconnect, issuer
<1>4. ASSUME NEW c \in Client, Refreshed(c) \/ Unanswered(c) PROVE TokenType'
  BY <1>4 DEF Refreshed, Unanswered
<1>5. ASSUME NEW c \in Client, WriteFails(c) PROVE TokenType'
  BY <1>5 DEF WriteFails, issuer
<1>6. ASSUME NEW p \in Proc, Crash(p) PROVE TokenType'
  BY <1>6 DEF Crash, issuer
<1>7. CASE UNCHANGED <<live, lost>>
  BY <1>7
<1> QED
  BY <1>3, <1>4, <1>5, <1>6, <1>7 DEF Next, AcquireFileLock, Acquire, Busy, FindStale, Reclaim,
     LockStep, Operation, Ask, ReadDocument, Refused, WriteDocument, Release, LoadSnapshot,
     Expire, Age, issuer, vars

LEMMA DocumentTypeStep ==
  ASSUME DocumentType, Resolved, StageType, [Next]_vars
  PROVE  DocumentType'
<1>0. \A c \in Client : c[1] \in Proc /\ c[2] \in Provider
  BY ClientType
<1> USE <1>0, BoundType DEF DocumentType, Document, Credentials, Keep
<1>1. ASSUME NEW c \in Client, Call(c) PROVE DocumentType'
  <2>1. UNCHANGED <<store, expired, doc, cache>>
    BY <1>1 DEF Call
  <2>2. CASE Connect(c)
    BY <2>1, <2>2 DEF Connect
  <2>3. CASE EnsureFreshToken(c) \/ MarkReconnectNeeded(c) \/ Disconnect(c)
    <3>1. PICK k \in {Keep, 0} : next' = [next EXCEPT ![c] = k]
      BY <2>3 DEF EnsureFreshToken, MarkReconnectNeeded, Disconnect
    <3>2. UNCHANGED minted
      BY <2>3 DEF EnsureFreshToken, MarkReconnectNeeded, Disconnect, issuer
    <3> QED BY <2>1, <3>1, <3>2
  <2> QED BY <1>1, <2>2, <2>3 DEF Call
<1>2. ASSUME NEW c \in Client, ReadDocument(c) PROVE DocumentType'
  <2>1. (IF next[c] = Keep THEN store[c[2]] ELSE next[c]) \in Credentials
    OBVIOUS
  <2>2. next' = [next EXCEPT ![c] = IF next[c] = Keep THEN store[c[2]] ELSE next[c]]
    BY <1>2 DEF ReadDocument
  <2> QED BY <1>2, <2>1, <2>2 DEF ReadDocument, issuer
<1>8. ASSUME NEW c \in Client, Refreshed(c) PROVE DocumentType'
  BY <1>8 DEF Refreshed
<1>3. ASSUME NEW c \in Client, WriteDocument(c) PROVE DocumentType'
  <2>1. next[c] \in Credentials
    BY <1>3 DEF Resolved, Critical, WriteDocument
  <2> QED BY <1>3, <2>1 DEF WriteDocument, issuer
<1>4. ASSUME NEW c \in Client, Release(c) PROVE DocumentType'
  <2>1. next[c] \in Credentials
    BY <1>4 DEF Resolved, Critical, Release
  <2> QED BY <1>4, <2>1 DEF Release, Ended, NoDocument, issuer
<1>5. ASSUME NEW p \in Proc, LoadSnapshot(p) PROVE DocumentType'
  BY <1>5 DEF LoadSnapshot, issuer, clients
<1>9. ASSUME NEW p \in Proc, Crash(p) PROVE DocumentType'
  BY <1>9 DEF Crash, Ended, NoDocument, issuer
<1>6. ASSUME NEW v \in Provider, Expire(v) PROVE DocumentType'
  BY <1>6 DEF Expire, issuer, clients
<1>7. CASE UNCHANGED <<store, minted, expired, doc, next, cache>>
  BY <1>7
<1> QED
  BY <1>1, <1>2, <1>3, <1>4, <1>5, <1>6, <1>7, <1>8, <1>9
  DEF Next, AcquireFileLock, Acquire, Busy, FindStale, Reclaim, LockStep, Operation, Ask, Refused, Unanswered, WriteFails, Age, issuer,
     clients, vars

LEMMA ResolvedStep ==
  ASSUME DocumentType, Resolved, StageType, [Next]_vars
  PROVE  Resolved'
<1>0. \A c \in Client : c[1] \in Proc /\ c[2] \in Provider
  BY ClientType
<1> USE <1>0, BoundType DEF DocumentType, StageType, Resolved, Document, Credentials, Keep,
      Critical, To
<1>1. ASSUME NEW c \in Client, Call(c) PROVE Resolved'
  BY <1>1 DEF Call, EnsureFreshToken, MarkReconnectNeeded, Connect, Disconnect
<1>2. ASSUME NEW c \in Client, AcquireFileLock(c) PROVE Resolved'
  BY <1>2 DEF AcquireFileLock, Acquire, Busy, FindStale, Reclaim, LockStep
<1>3. ASSUME NEW c \in Client, ReadDocument(c) PROVE Resolved'
  BY <1>3 DEF ReadDocument, ReadToRefresh
<1>4. ASSUME NEW c \in Client, Refused(c) \/ Unanswered(c) PROVE Resolved'
  BY <1>4 DEF Refused, Unanswered, Under
<1>8. ASSUME NEW c \in Client, Refreshed(c) PROVE Resolved'
  BY <1>8 DEF Refreshed
<1>5. ASSUME NEW c \in Client, WriteDocument(c) \/ WriteFails(c) \/ Release(c) PROVE Resolved'
  BY <1>5 DEF WriteDocument, WriteFails, Release, Ended
<1>6. ASSUME NEW p \in Proc, Crash(p) PROVE Resolved'
  BY <1>6 DEF Crash, Ended
<1>7. CASE UNCHANGED <<stage, next>>
  BY <1>7
<1> QED
  BY <1>1, <1>2, <1>3, <1>4, <1>5, <1>6, <1>7, <1>8 DEF Next, Operation, Ask, LoadSnapshot, Expire, Age,
     clients, vars

LEMMA TypeStep == TypeOK /\ Resolved /\ [Next]_vars => (TypeOK /\ Resolved)'
BY Types, LockTypeStep, StageTypeStep, TokenTypeStep, DocumentTypeStep, ResolvedStep,
   RobberyTypeStep
   DEF TypeOK, LockType, TokenType, StageType, DocumentType, RobberyType

LEMMA InitOK == Init => TypeOK /\ Resolved /\ Held
<1> SUFFICES ASSUME Init PROVE TypeOK /\ Resolved /\ Held
  OBVIOUS
<1>1. LockType /\ lock.stale = FALSE
  BY DEF Init, NoLock, LockType
<1>2. DocumentType
  BY BoundType DEF Init, DocumentType, Document, Credentials, NoDocument
<1>3. TokenType
  BY BoundType DEF Init, TokenType, Credentials
<1>4. StageType /\ Resolved
  BY DEF Init, StageType, Stages, Resolved, Critical
<1>5. \A c \in Client : stage[c] = "idle"
  BY DEF Init
<1>6. RobberyType
  <2>1. overstays = 0 /\ without = {}
    BY DEF Init
  <2>2. robbed \in BOOLEAN
    BY DEF Init
  <2> QED BY <2>1, <2>2, BoundType DEF RobberyType
<1>7. Held
  BY <1>1, <1>5 DEF Init, Held, Running, Owned, WhyStale, WhyFound, FoundElsewhere, WhyRobbed,
     Found, Critical
<1> QED BY <1>1, <1>2, <1>3, <1>4, <1>6, <1>7, Types

(* Every variable keeps its type, in particular no placeholder is stored.  *)
THEOREM TypeCorrect == Spec => []TypeOK
BY InitOK, TypeStep, PTL DEF Spec

(* A cause stays one: nobody comes back to life.                           *)
LEMMA CausesStay ==
  ASSUME RobberyType, StageType, [Next]_vars
  PROVE  /\ overstays > 0 => overstays' > 0
         /\ \A p \in Proc : up[p] = "dead" => up'[p] = "dead"
         /\ \A p \in Proc : up[p] # "new" => up'[p] # "new"
         /\ SomeDied => SomeDied'
         /\ TwoReclaimers => TwoReclaimers'
<1>1. overstays > 0 => overstays' > 0
  <2>1. overstays \in Nat
    BY BoundType DEF RobberyType
  <2>2. CASE Age
    BY <2>1, <2>2 DEF Age
  <2>3. CASE UNCHANGED overstays
    BY <2>3
  <2> QED BY <2>2, <2>3 DEF Next, Call, AcquireFileLock, Acquire, Busy, FindStale, Reclaim,
     LockStep, Operation, Ask, ReadDocument, Refreshed, Refused, Unanswered, WriteDocument,
     WriteFails, Release, LoadSnapshot, Crash, Expire, robbery, vars
<1>2. ASSUME NEW p \in Proc
      PROVE  (up[p] = "dead" => up'[p] = "dead") /\ (up[p] # "new" => up'[p] # "new")
  <2>1. ASSUME NEW q \in Proc, LoadSnapshot(q) \/ Crash(q)
        PROVE  (up[p] = "dead" => up'[p] = "dead") /\ (up[p] # "new" => up'[p] # "new")
    BY <2>1 DEF LoadSnapshot, Crash, StageType
  <2>2. CASE UNCHANGED up
    BY <2>2
  <2> QED BY <2>1, <2>2 DEF Next, Call, AcquireFileLock, Acquire, Busy, FindStale, Reclaim,
     LockStep, Operation, Ask, ReadDocument, Refreshed, Refused, Unanswered, WriteDocument,
     WriteFails, Release, Age, Expire, vars
<1>3. SomeDied => SomeDied'
  BY <1>2 DEF SomeDied
<1>4. TwoReclaimers => TwoReclaimers'
  BY <1>2 DEF TwoReclaimers
<1> QED BY <1>1, <1>2, <1>3, <1>4

(* A step of a client that changes only its place, and not to the lock.    *)
LEMMA QuietStep ==
  ASSUME Held, StageType, UNCHANGED <<lock, up, overstays, without, robbed>>,
         NEW c \in Client, NEW s \in Stages \ Found, stage' = [stage EXCEPT ![c] = s],
         stage[c] # "idle" \/ up[c[1]] = "up", s \in Critical => stage[c] \in Critical
  PROVE  Held'
<1>1. \A d \in Client : stage'[d] = IF d = c THEN s ELSE stage[d]
  BY DEF StageType
<1>2. (Running /\ Owned)'
  BY <1>1 DEF Held, Running, Owned
<1>3. (WhyStale /\ WhyRobbed)'
  BY DEF Held, WhyStale, WhyRobbed, TwoReclaimers
<1>4. (WhyFound /\ FoundElsewhere)'
  BY <1>1 DEF Held, WhyFound, FoundElsewhere, SomeDied
<1> QED BY <1>2, <1>3, <1>4 DEF Held

(* Whoever unlinks a file its holder works under has lost his own, or has  *)
(* met a cause.                                                            *)
LEMMA UnlinkStep ==
  ASSUME Held, StageType, RobberyType, NEW c \in Client, Unlink(c), UNCHANGED <<up, overstays>>,
         stage[c] \in Found \cup Critical,
         \A d \in Client : d # c => stage'[d] = stage[d],
         stage'[c] \in {"idle", "try", "again"}
  PROVE  Held'
<1> USE DEF Held
<1>1. lock' = NoLock /\ without' = (without \cup RobbedBy(c)) \ {c}
  BY DEF Unlink
<1>2. Running'
  BY DEF Running, Found, Critical
<1>3. stage'[c] \notin Critical
  BY DEF Critical
<1>4. Owned'
  <2> SUFFICES ASSUME NEW d \in Client, stage'[d] \in Critical PROVE d \in without'
    BY DEF Owned
  <2>1. d # c /\ stage[d] \in Critical
    BY <1>3
  <2> QED BY <1>1, <2>1 DEF Owned, RobbedBy
<1>5. WhyStale' /\ FoundElsewhere'
  <2>1. \A d \in Client : NoLock.by # d /\ ~NoLock.stale
    BY ClientType DEF NoLock
  <2> QED BY <1>1, <2>1 DEF WhyStale, FoundElsewhere
<1>6. WhyFound'
  BY DEF WhyFound, SomeDied, Found
<1>7. WhyRobbed'
  <2>1. ASSUME NEW d \in Client, d \in RobbedBy(c) PROVE overstays > 0 \/ TwoReclaimers
    <3>1. d # c /\ lock.by = d /\ stage[d] \in Critical
      BY <2>1 DEF RobbedBy
    <3>2. CASE stage[c] \in Critical
      BY <3>1, <3>2 DEF Owned, WhyRobbed
    <3>3. CASE stage[c] \in Found /\ ~(overstays > 0)
      <4>1. PICK p \in Proc : up[p] = "dead"
        BY <3>3 DEF WhyFound, SomeDied
      <4>2. c[1] # d[1]
        BY <3>1, <3>3 DEF FoundElsewhere
      <4>3. up[c[1]] = "up" /\ up[d[1]] = "up"
        BY <3>1, <3>3 DEF Running, Found, Critical
      <4> QED BY <4>1, <4>2, <4>3, ClientType DEF TwoReclaimers
    <3> QED BY <3>2, <3>3
  <2>2. RobbedBy(c) \subseteq Client
    BY DEF RobbedBy
  <2>3. robbed' = (robbed \/ RobbedBy(c) # {})
    BY DEF Unlink
  <2>4. overstays' > 0 \/ TwoReclaimers' <=> overstays > 0 \/ TwoReclaimers
    BY DEF TwoReclaimers
  <2>5. without' # {} => robbed'
    BY <1>1, <2>3 DEF WhyRobbed
  <2>6. robbed' => overstays > 0 \/ TwoReclaimers
    BY <2>1, <2>2, <2>3 DEF WhyRobbed
  <2> QED BY <2>4, <2>5, <2>6 DEF WhyRobbed
<1> QED BY <1>2, <1>4, <1>5, <1>6, <1>7

LEMMA HeldStep ==
  ASSUME LockType, StageType, RobberyType, Held, [Next]_vars
  PROVE  Held'
<1> USE DEF To
<1>1. ASSUME NEW c \in Client, Call(c) PROVE Held'
  BY <1>1, QuietStep DEF Call, Stages, Found, Synchronous, Critical, robbery
<1>2. ASSUME NEW c \in Client, Acquire(c) PROVE Held'
  <2>1. \A d \in Client : stage'[d] = IF d = c THEN "reading" ELSE stage[d]
    BY <1>2 DEF Acquire, StageType
  <2>2. lock = NoLock /\ lock' = [by |-> c, stale |-> FALSE]
    BY <1>2 DEF Acquire
  <2>3. UNCHANGED <<up, overstays, without, robbed>>
    BY <1>2 DEF Acquire, LockStep
  <2>4. Running' /\ WhyRobbed'
    BY <1>2, <2>1, <2>3 DEF Held, Running, WhyRobbed, TwoReclaimers, Acquire
  <2>5. Owned'
    BY <2>1, <2>2, <2>3, ClientType DEF Held, Owned, NoLock
  <2>6. WhyStale' /\ WhyFound'
    BY <2>1, <2>2, <2>3 DEF Held, WhyStale, WhyFound, SomeDied, Found
  <2>7. \A d \in Client : d[1] = c[1] => stage'[d] \notin Found
    <3>1. MayRun(c)
      BY <1>2 DEF Acquire
    <3>2. \A d \in Client : d # c /\ d[1] = c[1] => stage[d] \notin Found
      BY <3>1 DEF MayRun, Synchronous, Found
    <3> QED BY <2>1, <3>2 DEF Found
  <2>8. FoundElsewhere'
    <3> SUFFICES ASSUME NEW d \in Client, NEW e \in Client, stage'[d] \in Found, lock'.by = e
                 PROVE  d[1] # e[1]
      BY DEF FoundElsewhere
    <3>1. e = c
      BY <2>2
    <3> QED BY <2>7, <3>1
  <2> QED BY <2>4, <2>5, <2>6, <2>8 DEF Held
<1>3. ASSUME NEW c \in Client, Busy(c) PROVE Held'
  BY <1>3, QuietStep DEF Busy, LockStep, Stages, Found, Synchronous, Critical
<1>4. ASSUME NEW c \in Client, FindStale(c) PROVE Held'
  <2>1. stage[c] \in {"try", "again"} /\ stage'[c] \in Found /\ lock.stale
    BY <1>4 DEF FindStale, IsStaleLock, StageType, Found
  <2>2. \A d \in Client : d # c => stage'[d] = stage[d]
    BY <1>4 DEF FindStale, StageType
  <2>3. UNCHANGED <<lock, up, overstays, without, robbed>>
    BY <1>4 DEF FindStale, LockStep
  <2>4. \A d \in Client : stage'[d] \in Critical => d # c /\ stage[d] \in Critical
    BY <2>1, <2>2 DEF Found, Critical
  <2>5. Running' /\ Owned' /\ WhyStale' /\ WhyRobbed'
    BY <2>1, <2>2, <2>3, <2>4 DEF Held, Running, Owned, WhyStale, WhyRobbed, TwoReclaimers
  <2>6. overstays > 0 \/ (lock.by \in Client /\ up[lock.by[1]] = "dead")
    BY <2>1 DEF Held, WhyStale
  <2>7. WhyFound'
    BY <2>2, <2>3, <2>6, ClientType DEF Held, WhyFound, SomeDied
  <2>8. FoundElsewhere'
    <3> SUFFICES ASSUME NEW d \in Client, NEW e \in Client, stage'[d] \in Found,
                        stage'[e] \in Critical, lock.by = e
                 PROVE  overstays > 0 \/ d[1] # e[1]
      BY <2>3 DEF FoundElsewhere
    <3>1. up[e[1]] = "up"
      BY <2>4 DEF Held, Running, Critical
    <3>2. overstays > 0
      BY <2>6, <3>1
    <3> QED BY <3>2
  <2> QED BY <2>5, <2>7, <2>8 DEF Held
<1>5. ASSUME NEW c \in Client, Reclaim(c) PROVE Held'
  <2>1. stage'[c] \in {"try", "again"} /\ \A d \in Client : d # c => stage'[d] = stage[d]
    BY <1>5 DEF Reclaim, StageType
  <2>2. stage[c] \in Found /\ Unlink(c) /\ UNCHANGED <<up, overstays>>
    BY <1>5 DEF Reclaim, LockStep, Found
  <2> QED BY <2>1, <2>2, UnlinkStep
<1>6. ASSUME NEW c \in Client, ReadDocument(c) PROVE Held'
  BY <1>6, QuietStep DEF ReadDocument, ReadToRefresh, Under, Stages, Found, Synchronous, Critical,
     robbery
<1>7. ASSUME NEW c \in Client, Ask(c) PROVE Held'
  BY <1>7, QuietStep DEF Ask, Refreshed, Refused, Unanswered, Under, Stages, Found, Synchronous,
     Critical, robbery
<1>8. ASSUME NEW c \in Client, WriteDocument(c) \/ WriteFails(c) PROVE Held'
  BY <1>8, QuietStep DEF WriteDocument, WriteFails, Stages, Found, Synchronous, Critical, robbery
<1>9. ASSUME NEW c \in Client, Release(c) PROVE Held'
  <2>1. stage'[c] = "idle" /\ \A d \in Client : d # c => stage'[d] = stage[d]
    BY <1>9 DEF Release, Ended
  <2>2. stage[c] \in Critical /\ Unlink(c) /\ UNCHANGED <<up, overstays>>
    BY <1>9 DEF Release, Critical
  <2> QED BY <2>1, <2>2, UnlinkStep
<1>10. ASSUME NEW p \in Proc, LoadSnapshot(p) \/ Crash(p) PROVE Held'
  <2>1. \A c \in Client : stage'[c] = stage[c] \/ (stage'[c] = "idle" /\ c \notin without')
    BY <1>10 DEF LoadSnapshot, Crash, Ended, clients
  <2>2. UNCHANGED <<lock, overstays, robbed>> /\ without' \subseteq without
    BY <1>10 DEF LoadSnapshot, Crash, robbery
  <2>3. \A c \in Client : c \in without /\ stage'[c] = stage[c] /\ stage[c] # "idle" => c \in without'
    BY <1>10 DEF LoadSnapshot, Crash, Ended, robbery
  <2>4. ASSUME NEW c \in Client, stage'[c] # "idle", up[c[1]] = "up" PROVE up'[c[1]] = "up"
    BY <1>10, <2>4, ClientType DEF LoadSnapshot, Crash, Ended, StageType, clients
  <2>5. Running'
    BY <2>1, <2>4 DEF Held, Running
  <2>6. Owned'
    BY <2>1, <2>2, <2>3 DEF Held, Owned, Critical
  <2>7. WhyStale'
    BY <2>2, CausesStay, ClientType DEF Held, WhyStale
  <2>8. WhyFound'
    BY <2>1, <2>2, CausesStay DEF Held, WhyFound, Found
  <2>9. FoundElsewhere'
    BY <2>1, <2>2 DEF Held, FoundElsewhere, Found, Critical
  <2>10. WhyRobbed'
    BY <2>2, CausesStay DEF Held, WhyRobbed
  <2> QED BY <2>5, <2>6, <2>7, <2>8, <2>9, <2>10 DEF Held
<1>11. CASE Age
  <2>1. lock.by \in Client /\ lock'.by = lock.by
    BY <1>11 DEF LockType, Age, NoLock
  <2>2. UNCHANGED <<stage, up, without, robbed>>
    BY <1>11 DEF Age, clients
  <2>3. overstays' > 0 \/ up[lock.by[1]] = "dead"
    <3>1. overstays \in Nat
      BY BoundType DEF RobberyType
    <3> QED BY <1>11, <3>1 DEF Age
  <2>4. overstays > 0 => overstays' > 0
    BY CausesStay
  <2>5. Running' /\ Owned' /\ WhyStale' /\ WhyFound'
    BY <2>1, <2>2, <2>3, <2>4 DEF Held, Running, Owned, WhyStale, WhyFound, SomeDied
  <2>6. FoundElsewhere' /\ WhyRobbed'
    BY <2>1, <2>2, <2>4 DEF Held, FoundElsewhere, WhyRobbed, TwoReclaimers
  <2> QED BY <2>5, <2>6 DEF Held
<1>12. CASE UNCHANGED <<lock, up, stage, overstays, without, robbed>>
  BY <1>12 DEF Held, Running, Owned, WhyStale, WhyFound, SomeDied, FoundElsewhere, WhyRobbed,
     TwoReclaimers
<1> QED
  BY <1>1, <1>2, <1>3, <1>4, <1>5, <1>6, <1>7, <1>8, <1>9, <1>10, <1>11, <1>12
  DEF Next, AcquireFileLock, Operation, Expire, clients, robbery, vars

LEMMA AloneUnrobbed == Held /\ ~robbed => Alone
BY DEF Held, Owned, WhyRobbed, Alone

(* The store has one holder at most beside those whose lock file was       *)
(* unlinked under them, and it takes a cause to unlink one.                *)
THEOREM MutualExclusion == Spec => []OneHolder
<1>1. TypeOK /\ Held /\ [Next]_vars => Held'
  BY HeldStep, Types
<1>2. Held => OneHolder
  BY DEF Held, Owned, WhyRobbed, OneHolder
<1> QED BY <1>1, <1>2, InitOK, TypeCorrect, PTL DEF Spec

LEMMA InitBounded == Init => Bounded
<1> SUFFICES ASSUME Init PROVE Bounded
  OBVIOUS
<1>1. ASSUME NEW v \in Provider PROVE store[v] <= minted[v]
  <2>1. store[v] \in {0, 1} /\ minted[v] = 1
    BY DEF Init
  <2> QED BY <2>1
<1>2. ASSUME NEW c \in Client PROVE next[c] <= minted[c[2]]
  <2>1. next[c] = 0 /\ minted[c[2]] = 1
    BY ClientType DEF Init
  <2> QED BY <2>1
<1> QED BY <1>1, <1>2 DEF Bounded

LEMMA BoundedStep ==
  ASSUME DocumentType, Bounded, ReadIsCurrent, [Next]_vars
  PROVE  Bounded'
<1>0. \A c \in Client : c[1] \in Proc /\ c[2] \in Provider
  BY ClientType
<1> USE <1>0, BoundType DEF DocumentType, Document, Credentials, Keep, Bounded
<1>1. ASSUME NEW c \in Client, UNCHANGED store,
             minted' = [minted EXCEPT ![c[2]] = minted[c[2]] + 1],
             next' = [next EXCEPT ![c] = minted[c[2]] + 1]
      PROVE  Bounded'
  <2>1. \A v \in Provider : minted'[v] = IF v = c[2] THEN minted[v] + 1 ELSE minted[v]
    BY <1>1
  <2>2. \A d \in Client : next'[d] = IF d = c THEN minted[c[2]] + 1 ELSE next[d]
    BY <1>1
  <2>3. \A v \in Provider : store[v] \in Int /\ minted[v] \in Int
    OBVIOUS
  <2>4. \A d \in Client : next[d] \in Int
    OBVIOUS
  <2>5. \A v \in Provider : store'[v] <= minted'[v]
    BY <1>1, <2>1, <2>3
  <2>6. \A d \in Client : next'[d] <= minted'[d[2]]
    BY <2>1, <2>2, <2>3, <2>4
  <2> QED BY <2>5, <2>6
<1>2. ASSUME NEW c \in Client, UNCHANGED <<store, issuer>>,
             NEW k \in Credentials \cup {Keep}, next' = [next EXCEPT ![c] = k],
             k <= minted[c[2]]
      PROVE  Bounded'
  <2>1. store' = store /\ minted' = minted
    BY <1>2 DEF issuer
  <2>2. \A d \in Client : next'[d] = IF d = c THEN k ELSE next[d]
    BY <1>2
  <2> QED BY <1>2, <2>1, <2>2
<1>3. ASSUME NEW c \in Client, Call(c) PROVE Bounded'
  <2>1. CASE Connect(c)
    BY <1>1, <1>3, <2>1 DEF Call, Connect
  <2>2. CASE EnsureFreshToken(c) \/ MarkReconnectNeeded(c) \/ Disconnect(c)
    <3>1. PICK k \in {Keep, 0} : next' = [next EXCEPT ![c] = k]
      BY <2>2 DEF EnsureFreshToken, MarkReconnectNeeded, Disconnect
    <3>2. UNCHANGED <<store, issuer>>
      BY <1>3, <2>2 DEF Call, EnsureFreshToken, MarkReconnectNeeded, Disconnect
    <3>3. minted[c[2]] \in 0 .. MaxMinted
      OBVIOUS
    <3>4. k \in Credentials \cup {Keep} /\ k <= minted[c[2]]
      BY <3>1, <3>3
    <3> QED BY <1>2, <3>1, <3>2, <3>4
  <2> QED BY <1>3, <2>1, <2>2 DEF Call
<1>4. ASSUME NEW c \in Client, ReadDocument(c) PROVE Bounded'
  <2> DEFINE k == IF next[c] = Keep THEN store[c[2]] ELSE next[c]
  <2>1. k \in Credentials \cup {Keep} /\ k <= minted[c[2]]
    <3>1. CASE next[c] = Keep
      BY <3>1
    <3>2. CASE next[c] # Keep
      BY <3>2
    <3> QED BY <3>1, <3>2
  <2>2. next' = [next EXCEPT ![c] = k] /\ UNCHANGED <<store, issuer>>
    BY <1>4 DEF ReadDocument
  <2> HIDE DEF k
  <2> QED BY <1>2, <2>1, <2>2
<1>5. ASSUME NEW c \in Client, Refreshed(c) PROVE Bounded'
  BY <1>1, <1>5 DEF Refreshed
<1>6. ASSUME NEW c \in Client, WriteDocument(c) PROVE Bounded'
  <2>1. doc[c] = store
    BY <1>6 DEF ReadIsCurrent, Busied, WriteDocument
  <2> QED BY <1>6, <2>1 DEF WriteDocument, issuer
<1>7. ASSUME NEW c \in Client, Release(c) PROVE Bounded'
  BY <1>7 DEF Release, Ended, issuer
<1>8. ASSUME NEW p \in Proc, Crash(p) PROVE Bounded'
  BY <1>8 DEF Crash, Ended, issuer
<1>9. CASE UNCHANGED <<store, minted, next>>
  BY <1>9
<1> QED
  BY <1>3, <1>4, <1>5, <1>6, <1>7, <1>8, <1>9
  DEF Next, AcquireFileLock, Acquire, Busy, FindStale, Reclaim, LockStep, Operation, Ask, Refused,
      Unanswered, WriteFails, LoadSnapshot, Expire, Age, issuer, clients, vars

LEMMA ReadIsCurrentStep ==
  ASSUME DocumentType, StageType, Alone, ReadIsCurrent, [Next]_vars
  PROVE  ReadIsCurrent'
<1> USE DEF DocumentType, StageType, ReadIsCurrent, Busied, To
<1>1. ASSUME NEW c \in Client, Call(c) \/ AcquireFileLock(c) PROVE ReadIsCurrent'
  BY <1>1 DEF Call, AcquireFileLock, Acquire, Busy, FindStale, Reclaim, LockStep
<1>2. ASSUME NEW c \in Client, ReadDocument(c) PROVE ReadIsCurrent'
  BY <1>2 DEF ReadDocument, ReadToRefresh
<1>3. ASSUME NEW c \in Client, Ask(c) \/ WriteFails(c) PROVE ReadIsCurrent'
  BY <1>3 DEF Ask, Refreshed, Refused, Unanswered, Under, WriteFails
<1>4. ASSUME NEW c \in Client, WriteDocument(c) PROVE ReadIsCurrent'
  <2>1. \A d \in Client : stage'[d] \notin Busied
    BY <1>4 DEF WriteDocument, Alone, Critical
  <2> QED BY <2>1
<1>5. ASSUME NEW c \in Client, Release(c) PROVE ReadIsCurrent'
  BY <1>5 DEF Release, Ended
<1>6. ASSUME NEW p \in Proc, Crash(p) PROVE ReadIsCurrent'
  BY <1>6 DEF Crash, Ended
<1>7. CASE UNCHANGED <<stage, doc, store>>
  BY <1>7
<1> QED
  BY <1>1, <1>2, <1>3, <1>4, <1>5, <1>6, <1>7
  DEF Next, Operation, LoadSnapshot, Expire, Age, clients, vars

(* What the store and the holder have is not spent by anybody else.        *)
LEMMA TokenStep ==
  ASSUME DocumentType, StageType, Resolved, Alone, Carried, [Next]_vars
  PROVE  GrantIsKept' /\ NextIsKept'
<1>0. \A c \in Client : c[1] \in Proc /\ c[2] \in Provider
  BY ClientType
<1> USE <1>0 DEF Carried, Busied, Critical
<1>1. ASSUME NEW c \in Client, stage[c] \in Critical
      PROVE  \A d \in Client : d # c => stage[d] \notin Critical
  BY <1>1 DEF Alone
<1>2. ASSUME UNCHANGED <<store, doc, lost>>, live \subseteq live',
             \A c \in Client : stage'[c] \in {"asking", "writing", "rewriting"} =>
               stage'[c] = stage[c] /\ next'[c] = next[c],
             \A c \in Client : stage[c] = "writing" => stage'[c] = "writing"
      PROVE  GrantIsKept' /\ NextIsKept'
  BY <1>2 DEF GrantIsKept, NextIsKept, Grant
<1>3. ASSUME NEW c \in Client, ReadDocument(c) PROVE GrantIsKept' /\ NextIsKept'
  <2>1. stage[c] = "reading" /\ \A d \in Client : stage[d] \notin Busied
    BY <1>1, <1>3 DEF ReadDocument, Under
  <2>2. \A v \in Provider : store[v] = 0 \/ <<v, store[v]>> \in live \cup lost
    BY <2>1 DEF GrantIsKept
  <2>3. UNCHANGED <<store, live, lost>>
    BY <1>3 DEF ReadDocument, issuer
  <2>4. next'[c] = 0 \/ <<c[2], next'[c]>> \in live \cup lost
    <3>1. CASE next[c] = Keep
      BY <1>3, <2>2, <3>1 DEF ReadDocument, DocumentType
    <3>2. CASE next[c] # Keep
      BY <1>3, <2>1, <3>2 DEF ReadDocument, DocumentType, LoginIsNew, Waiting, Queueing
    <3> QED BY <3>1, <3>2
  <2>5. \A d \in Client : d # c => stage'[d] = stage[d]
    BY <1>3 DEF ReadDocument, ReadToRefresh, StageType, To
  <2>6. NextIsKept'
    BY <2>1, <2>3, <2>4, <2>5 DEF NextIsKept
  <2> QED BY <2>2, <2>3, <2>6 DEF GrantIsKept
<1>4. ASSUME NEW c \in Client, Refreshed(c) PROVE GrantIsKept' /\ NextIsKept'
  <2>1. stage[c] = "asking" /\ doc[c] = store /\ \A d \in Client : d # c => stage[d] \notin Busied
    BY <1>1, <1>4 DEF Refreshed, Under, ReadIsCurrent
  <2>2. stage'[c] = "writing" /\ \A d \in Client : d # c => stage'[d] = stage[d]
    BY <1>4, <2>1 DEF Refreshed, StageType, To
  <2>3. next'[c] = minted[c[2]] + 1 /\ <<c[2], minted[c[2]] + 1>> \in live'
    BY <1>4 DEF Refreshed, DocumentType
  <2>4. UNCHANGED <<store, doc, lost>> /\ live \ {Grant(c)} \subseteq live'
    BY <1>4 DEF Refreshed
  <2>5. NextIsKept'
    BY <2>1, <2>2, <2>3 DEF NextIsKept
  <2>6. ASSUME NEW v \in Provider
        PROVE  (\/ store[v] = 0
                \/ <<v, store[v]>> \in live \cup lost
                \/ \E d \in Client : stage[d] = "writing" /\ Grant(d) = <<v, store[v]>>)'
    <3>1. store[v] = 0 \/ <<v, store[v]>> \in live \cup lost
      BY <2>1 DEF GrantIsKept
    <3>2. CASE <<v, store[v]>> = Grant(c)
      BY <2>2, <2>4, <3>2 DEF Grant
    <3>3. CASE <<v, store[v]>> # Grant(c)
      BY <2>4, <3>1, <3>3
    <3> QED BY <3>2, <3>3
  <2> QED BY <2>5, <2>6 DEF GrantIsKept
<1>5. ASSUME NEW c \in Client, Refused(c) \/ Unanswered(c) PROVE GrantIsKept' /\ NextIsKept'
  <2>1. stage[c] = "asking" /\ doc[c] = store /\ \A d \in Client : d # c => stage[d] \notin Busied
    BY <1>1, <1>5 DEF Refused, Unanswered, Under, ReadIsCurrent
  <2>2. stage'[c] \in {"rewriting", "leaving"} /\ \A d \in Client : d # c => stage'[d] = stage[d]
    BY <1>5, <2>1 DEF Refused, Unanswered, StageType, To
  <2>3. UNCHANGED <<store, next>> /\ live \cup lost \subseteq live' \cup lost'
    BY <1>5 DEF Refused, Unanswered, issuer
  <2>4. \A v \in Provider : store[v] = 0 \/ <<v, store[v]>> \in live \cup lost
    BY <2>1 DEF GrantIsKept
  <2> QED BY <2>1, <2>2, <2>3, <2>4 DEF GrantIsKept, NextIsKept
<1>6. ASSUME NEW c \in Client, WriteDocument(c) PROVE GrantIsKept' /\ NextIsKept'
  <2>1. stage[c] \in Busied /\ doc[c] = store /\ \A d \in Client : d # c => stage[d] \notin Busied
    BY <1>1, <1>6 DEF WriteDocument, ReadIsCurrent
  <2>2. stage'[c] \notin Busied /\ \A d \in Client : d # c => stage'[d] = stage[d]
    BY <1>6, <2>1 DEF WriteDocument, StageType, To
  <2>3. \A v \in Provider : store'[v] = IF v = c[2] THEN next[c] ELSE store[v]
    BY <1>6, <2>1 DEF WriteDocument, DocumentType, Document
  <2>4. next[c] = 0 \/ <<c[2], next[c]>> \in live \cup lost
    BY <2>1 DEF NextIsKept
  <2>5. \A v \in Provider : v # c[2] => store[v] = 0 \/ <<v, store[v]>> \in live \cup lost
    BY <2>1 DEF GrantIsKept, Grant
  <2>6. UNCHANGED <<live, lost>>
    BY <1>6 DEF WriteDocument, issuer
  <2> QED BY <2>1, <2>2, <2>3, <2>4, <2>5, <2>6 DEF GrantIsKept, NextIsKept
<1>7. ASSUME NEW c \in Client, WriteFails(c) PROVE GrantIsKept' /\ NextIsKept'
  <2>1. stage[c] \in Busied /\ doc[c] = store /\ \A d \in Client : d # c => stage[d] \notin Busied
    BY <1>1, <1>7 DEF WriteFails, ReadIsCurrent
  <2>2. stage'[c] \notin Busied /\ \A d \in Client : d # c => stage'[d] = stage[d]
    BY <1>7, <2>1 DEF WriteFails, StageType, To
  <2>3. UNCHANGED <<store, live>> /\ lost' = lost \cup Unwritten(c)
    BY <1>7 DEF WriteFails, issuer
  <2>4. ASSUME NEW v \in Provider
        PROVE  store[v] = 0 \/ <<v, store[v]>> \in live \cup lost \cup Unwritten(c)
    BY <2>1 DEF GrantIsKept, Unwritten, Grant
  <2> QED BY <2>1, <2>2, <2>3, <2>4 DEF GrantIsKept, NextIsKept
<1>8. ASSUME NEW c \in Client, Release(c) PROVE GrantIsKept' /\ NextIsKept'
  <2>1. \A d \in Client : stage[d] \notin Busied
    BY <1>1, <1>8 DEF Release
  <2>2. \A d \in Client : stage'[d] \notin Busied
    BY <1>8, <2>1 DEF Release, Ended
  <2>3. UNCHANGED <<store, live, lost>>
    BY <1>8 DEF Release, issuer
  <2> QED BY <2>1, <2>2, <2>3 DEF GrantIsKept, NextIsKept
<1>9. ASSUME NEW p \in Proc, Crash(p) PROVE GrantIsKept' /\ NextIsKept'
  <2>1. UNCHANGED <<store, live>>
    BY <1>9 DEF Crash, issuer
  <2>2. \A c \in Client : c[1] = p => Unwritten(c) \subseteq lost'
    BY <1>9 DEF Crash
  <2>3. lost \subseteq lost'
    BY <1>9 DEF Crash
  <2>4. \A c \in Client : stage'[c] \in Busied =>
          stage'[c] = stage[c] /\ next'[c] = next[c]
    BY <1>9 DEF Crash, Ended
  <2>5. \A c \in Client : c[1] # p =>
          stage'[c] = stage[c] /\ doc'[c] = doc[c]
    BY <1>9 DEF Crash, Ended
  <2>6. NextIsKept'
    BY <2>1, <2>3, <2>4 DEF NextIsKept
  <2>7. ASSUME NEW v \in Provider
        PROVE  (\/ store[v] = 0
                \/ <<v, store[v]>> \in live \cup lost
                \/ \E d \in Client : stage[d] = "writing" /\ Grant(d) = <<v, store[v]>>)'
    <3>1. CASE store[v] = 0 \/ <<v, store[v]>> \in live \cup lost
      BY <2>1, <2>3, <3>1
    <3>2. CASE store[v] # 0 /\ <<v, store[v]>> \notin live \cup lost
      <4>1. PICK d \in Client : stage[d] = "writing" /\ Grant(d) = <<v, store[v]>>
        BY <3>2 DEF GrantIsKept
      <4>2. CASE d[1] = p
        BY <2>1, <2>2, <3>2, <4>1, <4>2 DEF Unwritten
      <4>3. CASE d[1] # p
        BY <2>1, <2>5, <4>1, <4>3 DEF Grant
      <4> QED BY <4>2, <4>3
    <3> QED BY <3>1, <3>2
  <2> QED BY <2>6, <2>7 DEF GrantIsKept
<1>10. ASSUME NEW c \in Client, Call(c) PROVE GrantIsKept' /\ NextIsKept'
  <2>1. live \subseteq live' /\ UNCHANGED <<store, doc, lost>>
    BY <1>10 DEF Call, EnsureFreshToken, MarkReconnectNeeded, Connect, Disconnect, issuer
  <2>2. stage[c] = "idle" /\ stage'[c] = "try"
    BY <1>10 DEF Call, To, StageType
  <2>3. \A d \in Client : d # c => stage'[d] = stage[d] /\ next'[d] = next[d]
    BY <1>10 DEF Call, To, StageType, DocumentType, EnsureFreshToken, MarkReconnectNeeded,
       Connect, Disconnect
  <2> QED BY <1>2, <2>1, <2>2, <2>3
<1>11. ASSUME NEW c \in Client, AcquireFileLock(c) PROVE GrantIsKept' /\ NextIsKept'
  <2>1. UNCHANGED <<store, doc, lost, live, next>>
    BY <1>11 DEF AcquireFileLock, Acquire, Busy, FindStale, Reclaim, LockStep, issuer
  <2>2. stage[c] \notin Busied /\ stage'[c] \notin Busied
    BY <1>11 DEF AcquireFileLock, Acquire, Busy, FindStale, Reclaim, To, StageType
  <2>3. \A d \in Client : d # c => stage'[d] = stage[d]
    BY <1>11 DEF AcquireFileLock, Acquire, Busy, FindStale, Reclaim, To, StageType
  <2> QED BY <1>2, <2>1, <2>2, <2>3
<1>12. CASE UNCHANGED <<store, doc, lost, live, next, stage>>
  BY <1>2, <1>12
<1> QED
  BY <1>3, <1>4, <1>5, <1>6, <1>7, <1>8, <1>9, <1>10, <1>11, <1>12
  DEF Next, Operation, Ask, LoadSnapshot, Expire, Age, issuer, clients, vars


(* Credentials of a login are its own until it writes them.                *)
LEMMA LoginStep ==
  ASSUME DocumentType, StageType, Carried, [Next]_vars
  PROVE  LoginIsNew'
<1>0. \A c \in Client : c[1] \in Proc /\ c[2] \in Provider
  BY ClientType
<1>a. LoginIsNew /\ Bounded /\ ReadIsCurrent
  BY DEF Carried
<1>b. \A v \in Provider : minted[v] \in Int /\ store[v] \in Int
  BY DEF DocumentType, Document, Credentials
<1>c. \A c \in Client : next[c] \in Int
  BY DEF DocumentType, Credentials, Keep
<1> USE <1>0, <1>a DEF Waiting
<1>1. ASSUME NEW c \in Client, Connect(c), stage' = [stage EXCEPT ![c] = "try"], UNCHANGED store
      PROVE  LoginIsNew'
  <2>1. next'[c] = minted[c[2]] + 1 /\ \A d \in Client : d # c => next'[d] = next[d]
    BY <1>1 DEF Connect, DocumentType
  <2>2. live' = live \cup {<<c[2], minted[c[2]] + 1>>}
    BY <1>1 DEF Connect
  <2>3. \A d \in Client : d # c => stage'[d] = stage[d]
    BY <1>1 DEF StageType
  <2>4. store[c[2]] # next'[c]
    BY <1>b, <2>1 DEF Bounded
  <2>5. \A d \in Client : d # c /\ d[2] = c[2] => next'[d] # next'[c]
    BY <1>b, <1>c, <2>1 DEF Bounded
  <2> QED BY <1>1, <2>1, <2>2, <2>3, <2>4, <2>5 DEF LoginIsNew
<1>2. ASSUME NEW c \in Client, Call(c) PROVE LoginIsNew'
  <2>1. CASE Connect(c)
    BY <1>1, <1>2, <2>1 DEF Call, To
  <2>2. CASE EnsureFreshToken(c) \/ MarkReconnectNeeded(c) \/ Disconnect(c)
    <3>1. next'[c] \in {Keep, 0} /\ \A d \in Client : d # c => next'[d] = next[d]
      BY <2>2 DEF EnsureFreshToken, MarkReconnectNeeded, Disconnect, DocumentType
    <3>2. UNCHANGED <<store, live>>
      BY <1>2, <2>2 DEF Call, EnsureFreshToken, MarkReconnectNeeded, Disconnect, issuer
    <3>3. \A d \in Client : d # c => stage'[d] = stage[d]
      BY <1>2 DEF Call, To, StageType
    <3> QED BY <3>1, <3>2, <3>3 DEF LoginIsNew
  <2> QED BY <1>2, <2>1, <2>2 DEF Call
<1>3. ASSUME NEW c \in Client, AcquireFileLock(c) PROVE LoginIsNew'
  <2>1. UNCHANGED <<store, live, next>>
    BY <1>3 DEF AcquireFileLock, Acquire, Busy, FindStale, Reclaim, LockStep, issuer
  <2>2. /\ stage[c] \in Queueing
        /\ \A d \in Client : d # c => stage'[d] = stage[d]
    BY <1>3 DEF AcquireFileLock, Acquire, Busy, FindStale, Reclaim, To, StageType, Queueing
  <2> QED BY <2>1, <2>2 DEF LoginIsNew
<1>4. ASSUME NEW c \in Client, ReadDocument(c) PROVE LoginIsNew'
  <2>1. stage'[c] \notin Queueing /\ \A d \in Client : d # c => stage'[d] = stage[d]
    BY <1>4 DEF Queueing, ReadDocument, ReadToRefresh, To, StageType
  <2>2. UNCHANGED <<store, live>> /\ \A d \in Client : d # c => next'[d] = next[d]
    BY <1>4 DEF ReadDocument, issuer, DocumentType
  <2>3. next'[c] = store[c[2]] \/ next'[c] = next[c]
    BY <1>4 DEF ReadDocument, DocumentType
  <2> QED BY <2>1, <2>2, <2>3 DEF LoginIsNew
<1>5. ASSUME NEW c \in Client, Ask(c) PROVE LoginIsNew'
  <2>1. stage[c] = "asking" /\ Grant(c) = <<c[2], store[c[2]]>>
    BY <1>5 DEF Ask, Refreshed, Refused, Unanswered, Under, ReadIsCurrent, Busied, Grant
  <2>2. stage'[c] \notin Queueing /\ \A d \in Client : d # c => stage'[d] = stage[d]
    BY <1>5 DEF Queueing, Ask, Refreshed, Refused, Unanswered, To, StageType
  <2>3. live \ {Grant(c)} \subseteq live' /\ UNCHANGED store
    BY <1>5 DEF Ask, Refreshed, Refused, Unanswered, issuer
  <2>4. \A d \in Client : d # c => next'[d] = next[d]
    BY <1>5 DEF Ask, Refreshed, Refused, Unanswered, DocumentType
  <2>5. next'[c] = next[c] \/ next'[c] = minted[c[2]] + 1
    BY <1>5 DEF Ask, Refreshed, Refused, Unanswered, DocumentType
  <2>6. \A d \in Client : d # c /\ d[2] = c[2] => next[d] # minted[c[2]] + 1
    BY <1>b, <1>c DEF Bounded
  <2>7. \A d \in Client : Waiting(d) => <<d[2], next[d]>> # Grant(c)
    BY <2>1 DEF LoginIsNew
  <2> QED BY <2>2, <2>3, <2>4, <2>5, <2>6, <2>7 DEF LoginIsNew
<1>6. ASSUME NEW c \in Client, WriteDocument(c) \/ WriteFails(c) PROVE LoginIsNew'
  <2>1. doc[c] = store
    BY <1>6 DEF WriteDocument, WriteFails, ReadIsCurrent, Busied
  <2>2. stage'[c] \notin Queueing /\ \A d \in Client : d # c => stage'[d] = stage[d]
    BY <1>6 DEF Queueing, WriteDocument, WriteFails, To, StageType
  <2>3. UNCHANGED <<live, next>>
    BY <1>6 DEF WriteDocument, WriteFails, issuer
  <2>4. \A v \in Provider : store'[v] = store[v] \/ (v = c[2] /\ store'[v] = next[c])
    BY <1>6, <2>1 DEF WriteDocument, WriteFails, DocumentType, Document
  <2> QED BY <2>2, <2>3, <2>4 DEF LoginIsNew
<1>7. ASSUME NEW c \in Client, Release(c) PROVE LoginIsNew'
  <2>1. next'[c] = 0 /\ UNCHANGED <<store, live>>
    BY <1>7 DEF Release, Ended, issuer
  <2>2. \A d \in Client : d # c => next'[d] = next[d] /\ stage'[d] = stage[d]
    BY <1>7 DEF Release, Ended
  <2> QED BY <2>1, <2>2 DEF LoginIsNew
<1>8. ASSUME NEW p \in Proc, Crash(p) PROVE LoginIsNew'
  <2>1. UNCHANGED <<store, live>>
    BY <1>8 DEF Crash, issuer
  <2>2. \A c \in Client :
          \/ stage'[c] = stage[c] /\ next'[c] = next[c]
          \/ next'[c] = 0
    BY <1>8 DEF Crash, Ended
  <2> QED BY <2>1, <2>2 DEF LoginIsNew
<1>9. CASE UNCHANGED <<store, live, next, stage>>
  BY <1>9 DEF LoginIsNew
<1> QED
  BY <1>2, <1>3, <1>4, <1>5, <1>6, <1>7, <1>8, <1>9
  DEF Next, Operation, LoadSnapshot, Expire, Age, issuer, clients, vars

(* While no lock file is unlinked under its holder, no crash, failed write *)
(* or takeover costs a connection.                                         *)
THEOREM NoConnectionLost == Spec => []GrantKept
<1> DEFINE IInv == TypeOK /\ Resolved /\ Held /\ (robbed \/ Carried)
<1>1. Init => IInv
  <2> SUFFICES ASSUME Init PROVE IInv
    OBVIOUS
  <2>1. TypeOK /\ Resolved /\ Held
    BY InitOK
  <2>2. \A c \in Client : stage[c] = "idle" /\ next[c] = 0 /\ c[2] \in Provider
    BY ClientType DEF Init
  <2>3. \A v \in Provider : store[v] \in {0, 1} /\ minted[v] = 1 /\ <<v, 1>> \in live
    BY DEF Init
  <2>4. Bounded
    BY InitBounded
  <2>5. ReadIsCurrent /\ NextIsKept /\ LoginIsNew
    BY <2>2 DEF ReadIsCurrent, NextIsKept, LoginIsNew, Waiting, Queueing, Busied
  <2>6. GrantIsKept
    BY <2>3 DEF GrantIsKept
  <2> QED BY <2>1, <2>4, <2>5, <2>6 DEF Carried
<1>2. IInv /\ [Next]_vars => IInv'
  <2> SUFFICES ASSUME IInv, [Next]_vars PROVE IInv'
    OBVIOUS
  <2>1. TypeOK' /\ Resolved' /\ Held'
    BY TypeStep, HeldStep, Types, Zenon
  <2>2. robbed' \/ Carried'
    <3>1. robbed => robbed'
      BY DEF Next, Call, AcquireFileLock, Acquire, Busy, FindStale, Reclaim, Unlink,
         Operation, Ask, ReadDocument, Refreshed, Refused, Unanswered, WriteDocument,
         WriteFails, Release, LoadSnapshot, Crash, Age, Expire, robbery, vars
    <3>2. CASE ~robbed
      <4>1. Alone /\ Carried
        BY <3>2, AloneUnrobbed
      <4>2. DocumentType /\ StageType
        BY Types
      <4>3. Bounded'
        BY <4>1, <4>2, BoundedStep DEF Carried
      <4>4. ReadIsCurrent'
        BY <4>1, <4>2, ReadIsCurrentStep DEF Carried
      <4>5. GrantIsKept' /\ NextIsKept'
        BY <4>1, <4>2, TokenStep
      <4>6. LoginIsNew'
        BY <4>1, <4>2, LoginStep
      <4> QED BY <4>3, <4>4, <4>5, <4>6 DEF Carried
    <3> QED BY <3>1, <3>2
  <2> QED BY <2>1, <2>2
<1>3. IInv => GrantKept
  BY DEF Carried, GrantIsKept, GrantKept
<1> QED BY <1>1, <1>2, <1>3, PTL DEF Spec
==============================================================================
