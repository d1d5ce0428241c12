-------------------------- MODULE Session_proofs --------------------------
(***************************************************************************)
(* Theorems about Session for any callers and bounds, when no other call   *)
(* comes while the first one of a resumed session reads its file.          *)
(***************************************************************************)
EXTENDS Session, FiniteSetTheorems, TLAPS

LEMMA InitIInv == Init => IInv
<1> SUFFICES ASSUME Init PROVE IInv
  OBVIOUS
<1>1. TypeOK
  <2>1. NoEnvelope \in Envelopes /\ NoState \in [ver : Nat, status : Statuses, ended : Nat]
    BY DEF NoEnvelope, NoState, Envelopes, Statuses
  <2>2. waiting \in Seq(Continuations) /\ ready \in Seq(Continuations)
    BY DEF Init
  <2> QED BY <2>1, <2>2 DEF Init, TypeOK, CallTypes, TurnTypes, WriteTypes
<1>2. OneStart
  BY DEF Init, OneStart, OneReader, CallAgrees, PromiseAgrees, QuietBefore, Started, NoState
<1>3. InOrder
  BY DEF Init, InOrder, WritesInOrder, AcksInOrder, Latest, NoEnvelope, NoState
<1>4. Credit
  BY DEF Init, Credit, NoEnvelope, NoState
<1> QED BY <1>1, <1>2, <1>3, <1>4 DEF IInv

(* writeStoredEnvelope captures an envelope not older than what is being   *)
(* written or queued, and its caller waits for no more than that.          *)
LEMMA WriteInOrder ==
  ASSUME IInv, state' \in [ver : Nat, status : Statuses, ended : Nat], state' # NoState,
         state'.ver >= 1, state # NoState => state.ver <= state'.ver,
         stored.ver <= state'.ver, writing = NoEnvelope => stored.ver <= state'.ver,
         NEW env \in Envelopes, env.ver = state'.ver, env.cost = env.ended,
         sessionCost' = state'.ended,
         NEW k \in Continuations, k.ver = env.ver,
         Write(env, k), UNCHANGED stored
  PROVE  WritesInOrder' /\ Credit' /\ queuedEnvelope' \in Envelopes /\ writing' \in Envelopes
         /\ waiting' \in Seq(Continuations) /\ writing' # NoEnvelope
<1>1. env \in Envelopes /\ env.ver \in Nat /\ env # NoEnvelope
  BY DEF Envelopes, NoEnvelope
<1>2. stored.ver \in Nat /\ writing.ver \in Nat /\ queuedEnvelope.ver \in Nat
      /\ waiting \in Seq(Continuations) /\ ready \in Seq(Continuations)
      /\ \A i \in DOMAIN waiting : waiting[i].ver \in Nat
  <2>1. stored.ver \in Nat /\ writing.ver \in Nat /\ queuedEnvelope.ver \in Nat
    BY DEF IInv, TypeOK, WriteTypes, Envelopes
  <2>2. waiting \in Seq(Continuations) /\ ready \in Seq(Continuations)
    BY DEF IInv, TypeOK, WriteTypes
  <2>3. \A i \in DOMAIN waiting : waiting[i] \in Continuations
    BY <2>2
  <2> QED BY <2>1, <2>2, <2>3 DEF Continuations
<1>3. waiting' = Append(waiting, k)
  BY DEF Write
<1> DEFINE n == Len(waiting) + 1
<1>3a. waiting' \in Seq(Continuations) /\ n \in Nat /\ n - 1 = Len(waiting)
       /\ DOMAIN waiting' = 1 .. n /\ DOMAIN waiting = 1 .. n - 1
  BY <1>2, <1>3
<1>3b. \A i \in DOMAIN waiting : waiting'[i] = waiting[i]
  BY <1>2, <1>3
<1>3c. waiting'[n] = k
  BY <1>2, <1>3
<1> HIDE DEF n
<1>4. CASE writing = NoEnvelope
  <2>1. writing' = env /\ queuedEnvelope' = queuedEnvelope
    BY <1>4 DEF Write
  <2>2. queuedEnvelope = NoEnvelope /\ waiting = <<>>
    BY <1>4 DEF IInv, InOrder, WritesInOrder
  <2>3. Latest' = env /\ DOMAIN waiting' = {1} /\ waiting'[1] = k
    <3>1. Latest' = env
      BY <2>1, <2>2 DEF Latest
    <3>2. n = 1
      BY <1>3a, <2>2
    <3> QED BY <1>3a, <1>3c, <3>1, <3>2
  <2>4. WritesInOrder'
    BY <1>1, <1>2, <2>1, <2>2, <2>3 DEF IInv, InOrder, WritesInOrder
  <2>5. Credit'
    BY <1>1, <2>1, <2>2 DEF IInv, Credit
  <2> QED BY <1>1, <1>3a, <2>1, <2>4, <2>5 DEF IInv, TypeOK, WriteTypes
<1>5. CASE writing # NoEnvelope
  <2>1. queuedEnvelope' = env /\ writing' = writing /\ state # NoState
    BY <1>5 DEF Write, IInv, OneStart, QuietBefore
  <2>2. \A i \in DOMAIN waiting : waiting[i].ver <= state'.ver
    <3>1. Latest.ver <= state.ver
      BY <1>5 DEF IInv, InOrder, WritesInOrder, Latest
    <3>2. state.ver \in Nat /\ Latest.ver \in Nat
      BY <1>2 DEF IInv, TypeOK, WriteTypes, Latest
    <3> QED BY <1>2, <2>1, <3>1, <3>2 DEF IInv, InOrder, WritesInOrder
  <2>3. Latest' = env
    BY <1>1, <2>1 DEF Latest
  <2>4. \A i \in DOMAIN waiting' : waiting'[i].ver <= Latest'.ver
    <3> SUFFICES ASSUME NEW i \in DOMAIN waiting' PROVE waiting'[i].ver <= env.ver
      BY <2>3
    <3>1. CASE i \in DOMAIN waiting
      BY <1>1, <1>3b, <2>2, <3>1
    <3>2. CASE i = n
      BY <1>1, <1>3c, <3>2
    <3> QED BY <1>3a, <3>1, <3>2
  <2>5. state.ver \in Nat
    BY DEF IInv, TypeOK, WriteTypes
  <2>6. WritesInOrder'
    BY <1>1, <1>2, <1>5, <2>1, <2>4, <2>5 DEF IInv, InOrder, WritesInOrder
  <2>7. Credit'
    BY <1>1, <2>1 DEF IInv, Credit
  <2> QED BY <1>1, <1>3a, <1>5, <2>1, <2>6, <2>7 DEF IInv, TypeOK, WriteTypes
<1> QED BY <1>4, <1>5

(* The writes of the session: its runner's state, and a continuation.      *)
LEMMA PersistsInOrder ==
  ASSUME IInv, state' \in [ver : Nat, status : Statuses, ended : Nat], state' # NoState,
         state'.ver >= 1, state # NoState => state.ver <= state'.ver,
         stored.ver <= state'.ver, sessionCost' = state'.ended,
         NEW t \in Terminals \cup {NoTerminal}, NEW who \in Caller \cup {None},
         NEW what \in {"start", "event", "terminal", "dispose"},
         Write(Envelope(state', sessionCost'), Then(what, who, t, state'.ver)),
         UNCHANGED stored
  PROVE  WritesInOrder' /\ Credit' /\ queuedEnvelope' \in Envelopes /\ writing' \in Envelopes
         /\ waiting' \in Seq(Continuations) /\ writing' # NoEnvelope
<1> DEFINE env == Envelope(state', sessionCost')
<1> DEFINE k == Then(what, who, t, state'.ver)
<1>1. env \in Envelopes /\ env.ver = state'.ver /\ env.cost = env.ended
  BY DEF Envelope, Envelopes
<1>2. k \in Continuations /\ k.ver = env.ver
  BY DEF Then, Continuations, Envelope
<1>3. Write(env, k)
  OBVIOUS
<1> HIDE DEF env, k
<1> QED BY <1>1, <1>2, <1>3, WriteInOrder

(* What the parts of the invariant are about.                              *)
LEMMA QuietFrame ==
  ASSUME IInv, UNCHANGED <<state, turn, entering, disposed, writing, waiting, ready,
                           up, resumed, stored>>
  PROVE  QuietBefore'
BY DEF IInv, OneStart, QuietBefore

LEMMA OrderFrame ==
  ASSUME IInv, UNCHANGED <<state, acked, stored, writing, queuedEnvelope, waiting, ready>>
  PROVE  InOrder'
BY DEF IInv, InOrder, WritesInOrder, AcksInOrder, Latest

LEMMA AcksFrame == ASSUME IInv, UNCHANGED <<acked, ready, stored>> PROVE AcksInOrder'
BY DEF IInv, InOrder, AcksInOrder

LEMMA CallIInv ==
  ASSUME IInv, OneStarter, NEW c \in Caller, NEW k \in {"hydrate", "prompt"}, Call(c, k)
  PROVE  IInv'
<1>1. UNCHANGED <<stored, state, acked, writing, queuedEnvelope, waiting, ready, turn,
                  entering, disposed, up, resumed>> /\ up
  BY DEF Call, MayCall, runnerVars, turnVars, writeVars
<1>2. /\ call[c] = "idle"
      /\ \A d \in Caller : d # c => call[d] # "reading"
  BY DEF Call, MayCall
<1>3. \/ /\ startPromise # None /\ call' = [call EXCEPT ![c] = "joining"]
         /\ UNCHANGED <<read, sessionCost, startPromise>>
         /\ awaits' = [awaits EXCEPT ![c] = startPromise]
      \/ /\ startPromise = None /\ call' = [call EXCEPT ![c] = "reading"]
         /\ UNCHANGED <<awaits, read, sessionCost, startPromise>>
      \/ /\ startPromise = None /\ ~resumed /\ sessionCost' = sessionCost
         /\ call' = [call EXCEPT ![c] = "returned"]
         /\ read' = [read EXCEPT ![c] = NoEnvelope]
         /\ UNCHANGED <<awaits, startPromise>>
      \/ /\ startPromise = None /\ ~resumed /\ sessionCost' = sessionCost
         /\ call' = [call EXCEPT ![c] = "starting"]
         /\ read' = [read EXCEPT ![c] = NoEnvelope]
         /\ startPromise' = c /\ UNCHANGED awaits
  BY DEF Call, StartsWith, NoEnvelope
<1>4. CallTypes'
  <2>1. NoEnvelope \in Envelopes
    BY DEF NoEnvelope, Envelopes, Statuses
  <2>2. kind' \in [Caller -> {"none", "hydrate", "prompt"}]
        /\ awaits' \in [Caller -> Caller \cup {None}]
    BY DEF IInv, TypeOK, CallTypes, Call
  <2> QED BY <1>3, <2>1, <2>2 DEF IInv, TypeOK, CallTypes
<1>5. TypeOK'
  BY <1>1, <1>3, <1>4 DEF IInv, TypeOK, TurnTypes, WriteTypes, Call, runnerVars, turnVars,
     waitVars, boundVars
<1>6. OneReader'
  BY <1>2, <1>3 DEF OneReader, IInv, TypeOK, CallTypes
<1>7. \A d \in Caller : CallAgrees(d)'
  <2> SUFFICES ASSUME NEW d \in Caller PROVE CallAgrees(d)'
    OBVIOUS
  <2>1. CASE d = c
    <3>1. startPromise = None => sessionCost = 0 /\ state = NoState
      BY DEF IInv, OneStart, PromiseAgrees
    <3>2. startPromise = None /\ ~resumed => stored = NoEnvelope
      BY <1>1, <3>1 DEF IInv, OneStart, QuietBefore
    <3> QED BY <1>1, <1>3, <2>1, <3>1, <3>2
            DEF IInv, TypeOK, CallTypes, CallAgrees, Started, NoEnvelope
  <2>2. CASE d # c
    <3>1. CallAgrees(d) /\ call[d] # "reading" /\ call'[d] = call[d] /\ read'[d] = read[d]
          /\ awaits'[d] = awaits[d]
      BY <1>2, <1>3, <2>2 DEF IInv, OneStart, TypeOK, CallTypes
    <3> QED BY <1>1, <1>3, <2>2, <3>1, SessionAssumption DEF CallAgrees, Started
  <2> QED BY <2>1, <2>2
<1>8. PromiseAgrees'
  BY <1>1, <1>2, <1>3 DEF IInv, OneStart, PromiseAgrees, TypeOK, CallTypes
<1>9. Credit'
  BY <1>1, <1>3 DEF IInv, OneStart, PromiseAgrees, Credit
<1> QED BY <1>1, <1>5, <1>6, <1>7, <1>8, <1>9, QuietFrame, OrderFrame DEF IInv, OneStart

LEMMA HasReadIInv == ASSUME IInv, NEW c \in Caller, HasRead(c) PROVE IInv'
<1>1. UNCHANGED <<stored, state, acked, writing, queuedEnvelope, waiting, ready, turn,
                  entering, disposed, up, resumed, kind, awaits>> /\ up
  BY DEF HasRead, runnerVars, turnVars, writeVars
<1>2. call[c] = "reading" /\ startPromise = None /\ state = NoState /\ sessionCost = 0
  BY DEF HasRead, IInv, OneStart, CallAgrees, PromiseAgrees
<1>3. /\ stored \in Envelopes /\ stored.cost = stored.ended
      /\ stored.ver > 0 \/ stored = NoEnvelope
  BY DEF IInv, Credit, TypeOK, WriteTypes, Envelopes
<1>4. /\ read' = [read EXCEPT ![c] = stored] /\ sessionCost' = stored.ended
      /\ \/ /\ call' = [call EXCEPT ![c] = "returned"] /\ stored = NoEnvelope
            /\ UNCHANGED startPromise
         \/ /\ call' = [call EXCEPT ![c] = "starting"]
            /\ startPromise' = c
  BY <1>2, <1>3 DEF HasRead, StartsWith, NoEnvelope
<1>5. CallTypes'
  BY <1>1, <1>3, <1>4 DEF IInv, TypeOK, CallTypes
<1>6. sessionCost' \in Nat
  BY <1>3, <1>4 DEF Envelopes
<1>7. TypeOK'
  BY <1>1, <1>5, <1>6 DEF IInv, TypeOK, TurnTypes, WriteTypes, HasRead, runnerVars,
     turnVars, waitVars, boundVars
<1>8. OneReader'
  BY <1>4 DEF OneReader, IInv, OneStart, TypeOK, CallTypes
<1>9. \A d \in Caller : CallAgrees(d)'
  <2> SUFFICES ASSUME NEW d \in Caller PROVE CallAgrees(d)'
    OBVIOUS
  <2>1. CASE d = c
    BY <1>1, <1>2, <1>4, <2>1 DEF IInv, TypeOK, CallTypes, CallAgrees, Started
  <2>2. CASE d # c
    <3>1. call[d] # "reading" /\ call[d] # "starting"
      BY <1>2, <2>2, SessionAssumption DEF IInv, OneStart, OneReader, CallAgrees
    <3> QED BY <1>1, <1>2, <1>4, <2>2, <3>1
            DEF IInv, OneStart, TypeOK, CallTypes, CallAgrees, Started
  <2> QED BY <2>1, <2>2
<1>10. PromiseAgrees'
  <2>1. CASE startPromise' = startPromise
    BY <1>1, <1>2, <1>4, <2>1, SessionAssumption DEF PromiseAgrees, NoEnvelope
  <2>2. CASE startPromise' = c /\ call' = [call EXCEPT ![c] = "starting"]
    BY <1>1, <2>2, SessionAssumption DEF PromiseAgrees, IInv, TypeOK, CallTypes
  <2> QED BY <1>4, <2>1, <2>2
<1>11. Credit'
  BY <1>1, <1>2 DEF IInv, Credit
<1> QED BY <1>1, <1>7, <1>8, <1>9, <1>10, <1>11, QuietFrame, OrderFrame DEF IInv, OneStart

LEMMA RunnerStartsIInv == ASSUME IInv, NEW c \in Caller, RunnerStarts(c) PROVE IInv'
<1>1. /\ call[c] = "starting" /\ state' = Recovered(read[c]) /\ sessionCost' = sessionCost
      /\ UNCHANGED <<stored, acked, ready, turn, entering, disposed, up, resumed,
                     startPromise, kind, read, awaits>> /\ up
  BY DEF RunnerStarts, turnVars
<1>2. /\ startPromise = c /\ state = NoState /\ read[c] = stored
      /\ sessionCost = stored.ended /\ writing = NoEnvelope /\ waiting = <<>>
      /\ queuedEnvelope = NoEnvelope
  BY <1>1 DEF IInv, OneStart, CallAgrees, QuietBefore, InOrder, WritesInOrder
<1>3. stored \in Envelopes /\ stored.ver \in Nat
  BY DEF IInv, TypeOK, WriteTypes, Envelopes
<1>4. /\ state' \in [ver : Nat, status : Statuses, ended : Nat] /\ state'.ver >= 1
      /\ stored.ver <= state'.ver /\ state'.ended = stored.ended /\ state' # NoState
  BY <1>1, <1>2, <1>3 DEF Recovered, Envelopes, Statuses, NoState
<1>5. \/ /\ call' = [call EXCEPT ![c] = "started"]
         /\ UNCHANGED <<writing, queuedEnvelope, waiting>>
      \/ /\ call' = [call EXCEPT ![c] = "persisting"]
         /\ Write(Envelope(state', sessionCost'), Then("start", c, NoTerminal, state'.ver))
  BY <1>1 DEF RunnerStarts, Persist
<1>6. /\ InOrder' /\ Credit' /\ waiting' \in Seq(Continuations)
      /\ queuedEnvelope' \in Envelopes /\ writing' \in Envelopes
  <2>1. CASE UNCHANGED <<writing, queuedEnvelope, waiting>>
    BY <1>1, <1>2, <1>4, <2>1 DEF IInv, TypeOK, WriteTypes, InOrder, WritesInOrder, AcksInOrder, Credit, Latest
  <2>2. CASE Write(Envelope(state', sessionCost'), Then("start", c, NoTerminal, state'.ver))
    BY <1>1, <1>2, <1>4, <2>2, PersistsInOrder, AcksFrame DEF InOrder
  <2> QED BY <1>5, <2>1, <2>2
<1>7. CallTypes'
  BY <1>1, <1>5 DEF IInv, TypeOK, CallTypes
<1>8. TypeOK'
  BY <1>1, <1>4, <1>6, <1>7
     DEF IInv, TypeOK, TurnTypes, WriteTypes, RunnerStarts, turnVars, waitVars, boundVars
<1>9. OneReader'
  BY <1>5 DEF OneReader, IInv, OneStart, TypeOK, CallTypes
<1>10. \A d \in Caller : CallAgrees(d)'
  BY <1>1, <1>2, <1>4, <1>5 DEF IInv, OneStart, TypeOK, CallTypes, CallAgrees, Started
<1>11. PromiseAgrees' /\ QuietBefore'
  BY <1>1, <1>2, <1>4, SessionAssumption DEF PromiseAgrees, QuietBefore
<1> QED BY <1>6, <1>8, <1>9, <1>10, <1>11 DEF IInv, OneStart

(* A step of the calls that leaves the runner, the file and the start      *)
(* alone: c goes from a started state to another, or returns.              *)
LEMMA CallFrame ==
  ASSUME IInv, NEW c \in Caller, NEW to \in {"started", "dispatched", "replaying", "returned"},
         call[c] # "starting", Started(c) \/ to = "returned" \/ state # NoState,
         call' = [call EXCEPT ![c] = to],
         UNCHANGED <<up, resumed, state, turn, disposed, writing, waiting, ready, stored,
                     startPromise, read, sessionCost, kind>>,
         awaits' \in [Caller -> Caller \cup {None}],
         \A d \in Caller : d # c => awaits'[d] = awaits[d],
         entering' = {} \/ state # NoState
  PROVE  CallTypes' /\ OneStart'
<1>1. CallTypes'
  BY DEF IInv, TypeOK, CallTypes
<1>2. OneReader'
  BY DEF OneReader, IInv, OneStart, TypeOK, CallTypes
<1>3. \A d \in Caller : CallAgrees(d)'
  BY DEF IInv, OneStart, TypeOK, CallTypes, CallAgrees, Started
<1>4. PromiseAgrees'
  BY DEF IInv, OneStart, PromiseAgrees, TypeOK, CallTypes
<1>5. QuietBefore'
  BY DEF IInv, OneStart, QuietBefore
<1> QED BY <1>1, <1>2, <1>3, <1>4, <1>5 DEF OneStart

LEMMA CostFrame ==
  ASSUME IInv, UNCHANGED <<state, stored, writing, queuedEnvelope, sessionCost>>
  PROVE  Credit'
BY DEF IInv, Credit

LEMMA JoinsIInv == ASSUME IInv, NEW c \in Caller, Joins(c) PROVE IInv'
<1> USE DEF Joins, runnerVars, turnVars, waitVars, writeVars, boundVars
<1>1. CallTypes' /\ OneStart'
  <2>1. awaits' \in [Caller -> Caller \cup {None}]
    BY DEF IInv, TypeOK, CallTypes
  <2>2. entering' = {} \/ state # NoState
    BY DEF IInv, OneStart, QuietBefore
  <2>3. state # NoState
    BY DEF IInv, OneStart, CallAgrees, PromiseAgrees
  <2>4. \A d \in Caller : d # c => awaits'[d] = awaits[d]
    BY DEF IInv, TypeOK, CallTypes
  <2> QED BY <2>1, <2>2, <2>3, <2>4, CallFrame
<1>2. TypeOK'
  BY <1>1 DEF IInv, TypeOK, TurnTypes, WriteTypes
<1> QED BY <1>1, <1>2, OrderFrame, CostFrame DEF IInv

LEMMA DispatchIInv == ASSUME IInv, NEW c \in Caller, Dispatch(c) PROVE IInv'
<1> USE DEF Dispatch, runnerVars, turnVars, waitVars, writeVars, boundVars
<1>1. state # NoState
  BY DEF IInv, OneStart, CallAgrees, Started
<1>2. PICK to \in {"dispatched", "returned"} : call' = [call EXCEPT ![c] = to]
  OBVIOUS
<1>3. CallTypes' /\ OneStart'
  <2>1. awaits' \in [Caller -> Caller \cup {None}]
    BY DEF IInv, TypeOK, CallTypes
  <2> QED BY <1>1, <1>2, <2>1, CallFrame
<1>4. TypeOK'
  BY <1>3 DEF IInv, TypeOK, TurnTypes, WriteTypes
<1> QED BY <1>3, <1>4, OrderFrame, CostFrame DEF IInv

LEMMA WaitIInv == ASSUME IInv, NEW c \in Caller, WaitForTerminal(c) PROVE IInv'
<1> USE DEF WaitForTerminal, runnerVars, turnVars, writeVars, boundVars
<1>1. state # NoState
  BY DEF IInv, OneStart, CallAgrees, Started
<1>2. CallTypes' /\ OneStart'
  <2>1. awaits' \in [Caller -> Caller \cup {None}]
    BY DEF IInv, TypeOK, CallTypes
  <2> QED BY <1>1, <2>1, CallFrame
<1>3. TypeOK'
  BY <1>2 DEF IInv, TypeOK, TurnTypes, WriteTypes
<1> QED BY <1>2, <1>3, OrderFrame, CostFrame DEF IInv

(* The steps of a started runner that call nothing.                        *)
LEMMA RunningFrame ==
  ASSUME IInv, state # NoState, state' # NoState,
         UNCHANGED <<up, resumed, call, kind, read, awaits, startPromise, stored>>
  PROVE  CallTypes' /\ OneStart'
<1>1. CallTypes'
  BY DEF IInv, TypeOK, CallTypes
<1>2. OneReader'
  BY DEF OneReader, IInv, OneStart
<1>3. \A d \in Caller : CallAgrees(d)'
  BY DEF IInv, OneStart, CallAgrees, Started
<1>4. PromiseAgrees' /\ QuietBefore'
  BY DEF IInv, OneStart, PromiseAgrees, QuietBefore
<1> QED BY <1>1, <1>2, <1>3, <1>4 DEF OneStart

(* A newer state of the runner.                                            *)
LEMMA NewerState ==
  ASSUME IInv, NEW status \in Statuses, NEW ended \in Nat,
         state' = [ver |-> state.ver + 1, status |-> status, ended |-> ended]
  PROVE  /\ state' \in [ver : Nat, status : Statuses, ended : Nat] /\ state' # NoState
         /\ state'.ver >= 1 /\ state.ver <= state'.ver /\ state'.ended = ended
         /\ state # NoState => stored.ver <= state'.ver
<1>1. state.ver \in Nat /\ stored.ver \in Nat
  BY DEF IInv, TypeOK, WriteTypes, Envelopes
<1>2. state'.ver = state.ver + 1
  OBVIOUS
<1>3. state # NoState => stored.ver <= state.ver
  BY DEF IInv, InOrder, WritesInOrder, AcksInOrder
<1> QED BY <1>1, <1>2, <1>3 DEF NoState

LEMMA EnterIInv == ASSUME IInv, NEW c \in Caller \cup {Timer}, Enter(c) PROVE IInv'
<1> USE DEF Enter, callVars, waitVars, writeVars, boundVars
<1>1. state # NoState
  BY DEF IInv, OneStart, QuietBefore
<1>2. /\ state' \in [ver : Nat, status : Statuses, ended : Nat] /\ state' # NoState
      /\ state'.ver >= 1 /\ state.ver <= state'.ver /\ state'.ended = state.ended
      /\ state.ver \in Nat
  <2>1. state \in [ver : Nat, status : Statuses, ended : Nat] /\ state.ver >= 1
    BY <1>1 DEF IInv, TypeOK, InOrder, WritesInOrder
  <2>2. CASE state' = state
    BY <1>1, <2>1, <2>2
  <2>3. CASE state' = [state EXCEPT !.ver = @ + 1, !.status = "running"]
    <3>1. state' = [ver |-> state.ver + 1, status |-> "running", ended |-> state.ended]
      BY <2>1, <2>3
    <3>2. "running" \in Statuses /\ state.ended \in Nat /\ state.ver \in Nat
      BY <2>1 DEF Statuses
    <3> QED BY <3>1, <3>2, NewerState
  <2> QED BY <2>2, <2>3
<1>3. CallTypes' /\ OneStart'
  BY <1>1, <1>2, RunningFrame
<1>4. TypeOK'
  BY <1>2, <1>3 DEF IInv, TypeOK, TurnTypes, WriteTypes
<1>5. InOrder'
  <2>1. stored.ver \in Nat /\ writing.ver \in Nat /\ queuedEnvelope.ver \in Nat
    BY DEF IInv, TypeOK, WriteTypes, Envelopes
  <2>2. /\ stored.ver <= state'.ver /\ (writing # NoEnvelope => writing.ver <= state'.ver)
        /\ queuedEnvelope # NoEnvelope => queuedEnvelope.ver <= state'.ver
    BY <1>1, <1>2, <2>1 DEF IInv, InOrder, WritesInOrder, AcksInOrder
  <2>3. Latest' = Latest
    BY DEF Latest
  <2> QED BY <1>2, <2>2, <2>3 DEF IInv, InOrder, WritesInOrder, AcksInOrder
<1>6. Credit'
  BY <1>1, <1>2 DEF IInv, Credit
<1> QED BY <1>3, <1>4, <1>5, <1>6 DEF IInv

LEMMA EventIInv == ASSUME IInv, Event PROVE IInv'
<1> USE DEF Event, callVars, turnVars, waitVars, boundVars
<1>1. state # NoState
  BY DEF IInv, OneStart, QuietBefore
<1>2. state' = [ver |-> state.ver + 1, status |-> state.status, ended |-> state.ended]
      /\ state.status \in Statuses /\ state.ended \in Nat
  BY DEF IInv, TypeOK
<1>3. sessionCost' = state'.ended
  BY <1>1, <1>2 DEF IInv, Credit
<1>4. Write(Envelope(state', sessionCost'), Then("event", None, NoTerminal, state'.ver))
  BY DEF Persist
<1>5. /\ InOrder' /\ Credit' /\ queuedEnvelope' \in Envelopes /\ writing' \in Envelopes
      /\ waiting' \in Seq(Continuations) /\ writing' # NoEnvelope
  BY <1>1, <1>2, <1>3, <1>4, NewerState, PersistsInOrder, AcksFrame DEF InOrder
<1>6. state' # NoState /\ state' \in [ver : Nat, status : Statuses, ended : Nat]
  BY <1>1, <1>2, NewerState
<1>7. CallTypes' /\ OneStart'
  BY <1>1, <1>6, RunningFrame
<1>8. TypeOK'
  BY <1>5, <1>6, <1>7 DEF IInv, TypeOK, TurnTypes, WriteTypes
<1> QED BY <1>5, <1>7, <1>8 DEF IInv

LEMMA TurnEndsIInv == ASSUME IInv, NEW type \in Terminals, TurnEnds(type) PROVE IInv'
<1> USE DEF TurnEnds, TerminalEvent, callVars
<1>1. state # NoState
  BY DEF IInv, OneStart, QuietBefore
<1>2. state' = [ver |-> state.ver + 1, status |-> StatusOf(type), ended |-> state.ended + 1]
      /\ StatusOf(type) \in Statuses /\ state.ended + 1 \in Nat
  BY DEF IInv, TypeOK, StatusOf, Statuses, Terminals
<1>3. sessionCost' = state'.ended
  <2>1. sessionCost = state.ended
    BY <1>1 DEF IInv, Credit
  <2> QED BY <1>2, <2>1 DEF Credited
<1>4. Write(Envelope(state', sessionCost'), Then("terminal", None, type, state'.ver))
  OBVIOUS
<1>5. /\ InOrder' /\ Credit' /\ queuedEnvelope' \in Envelopes /\ writing' \in Envelopes
      /\ waiting' \in Seq(Continuations) /\ writing' # NoEnvelope
  BY <1>1, <1>2, <1>3, <1>4, NewerState, PersistsInOrder, AcksFrame DEF InOrder
<1>6. state' # NoState /\ state' \in [ver : Nat, status : Statuses, ended : Nat]
      /\ sessionCost' \in Nat
  BY <1>1, <1>2, <1>3, NewerState
<1>7. CallTypes' /\ OneStart'
  BY <1>1, <1>6, RunningFrame
<1>8. TurnTypes' /\ vetoed' \in BOOLEAN
  BY DEF IInv, TypeOK, TurnTypes
<1>9. TypeOK'
  BY <1>5, <1>6, <1>7, <1>8 DEF IInv, TypeOK, WriteTypes
<1> QED BY <1>5, <1>7, <1>9 DEF IInv

(* A rejection changes neither the runner's state nor anything written.    *)
LEMMA RejectsIInv ==
  ASSUME IInv, NEW gone \in SUBSET (entering \cup joined), Rejects(gone)
  PROVE  IInv'
<1> USE DEF Rejects, callVars, writeVars
<1>1. turn \/ entering # {}
  <2>1. CASE gone \subseteq entering /\ Cardinality(gone) = 1
    <3>1. gone # {}
      BY <2>1, FS_EmptySet
    <3> QED BY <2>1, <3>1
  <2> QED BY <2>1
<1>2. state # NoState
  BY <1>1 DEF IInv, OneStart, QuietBefore
<1>3. CallTypes' /\ OneStart'
  BY <1>2, RunningFrame
<1>4. TurnTypes'
  BY DEF IInv, TypeOK, TurnTypes
<1>5. faults' \in Nat /\ inputs' \in Nat
  BY DEF IInv, TypeOK
<1>6. TypeOK'
  BY <1>3, <1>4, <1>5 DEF IInv, TypeOK, WriteTypes
<1> QED BY <1>3, <1>6, OrderFrame, CostFrame DEF IInv

LEMMA InterruptIInv == ASSUME IInv, Interrupt PROVE IInv'
<1> USE DEF Interrupt, callVars, turnVars
<1>1. CASE turn
  <2>1. UNCHANGED <<state, lastTerminal, sessionCost, queuedEnvelope, writing, waiting>>
    BY <1>1
  <2>2. CallTypes' /\ OneStart'
    BY <2>1, RunningFrame
  <2>3. TypeOK'
    <3>1. TurnTypes' /\ WriteTypes'
      BY <1>1, <2>1 DEF IInv, TypeOK, TurnTypes, WriteTypes
    <3>2. inputs' \in Nat
      BY DEF IInv, TypeOK
    <3> QED BY <2>1, <2>2, <3>1, <3>2 DEF IInv, TypeOK
  <2> QED BY <2>1, <2>2, <2>3, OrderFrame, CostFrame DEF IInv
<1>2. CASE ~turn
  <2>1. state' = [ver |-> state.ver + 1, status |-> "interrupted", ended |-> state.ended]
        /\ "interrupted" \in Statuses /\ state.ended \in Nat
    BY <1>2 DEF IInv, TypeOK, Statuses
  <2>2. sessionCost' = state'.ended
    BY <1>2, <2>1 DEF TerminalEvent, IInv, Credit
  <2>3. Write(Envelope(state', sessionCost'), Then("terminal", None, "interrupted", state'.ver))
    BY <1>2 DEF TerminalEvent
  <2>4. "interrupted" \in Terminals
    BY DEF Terminals
  <2>5. /\ InOrder' /\ Credit' /\ queuedEnvelope' \in Envelopes /\ writing' \in Envelopes
        /\ waiting' \in Seq(Continuations) /\ writing' # NoEnvelope
    BY <2>1, <2>2, <2>3, <2>4, NewerState, PersistsInOrder, AcksFrame DEF InOrder
  <2>6. state' # NoState /\ state' \in [ver : Nat, status : Statuses, ended : Nat]
        /\ sessionCost' \in Nat
    BY <2>1, <2>2, NewerState
  <2>7. CallTypes' /\ OneStart'
    BY <2>6, RunningFrame
  <2>8. TypeOK'
    <3>1. TurnTypes' /\ WriteTypes'
      BY <1>2, <2>5 DEF IInv, TypeOK, TurnTypes, WriteTypes, TerminalEvent
    <3>2. inputs' \in Nat
      BY DEF IInv, TypeOK
    <3> QED BY <2>6, <2>7, <3>1, <3>2 DEF IInv, TypeOK
  <2> QED BY <2>5, <2>7, <2>8 DEF IInv
<1> QED BY <1>1, <1>2 DEF IInv, TypeOK, TurnTypes

LEMMA WakeFiresIInv == ASSUME IInv, WakeFires PROVE IInv'
<1> USE DEF WakeFires, runnerVars, callVars, writeVars, boundVars
<1>1. state # NoState
  BY DEF Asleep, NoState
<1>2. CallTypes' /\ OneStart'
  BY <1>1, RunningFrame
<1>3. TypeOK'
  BY <1>2 DEF IInv, TypeOK, TurnTypes, WriteTypes
<1> QED BY <1>2, <1>3, OrderFrame, CostFrame DEF IInv

(* The file takes what was being written, the queued envelope its place.   *)
LEMMA CommitsIInv == ASSUME IInv, Commits PROVE IInv'
<1> USE DEF Commits, runnerVars, callVars, turnVars, waitVars, boundVars
<1>1. state # NoState
  BY DEF IInv, OneStart, QuietBefore
<1>2. /\ stored' = writing /\ writing' = queuedEnvelope /\ queuedEnvelope' = NoEnvelope
      /\ ready = <<>> /\ Latest' = queuedEnvelope
      /\ \/ queuedEnvelope = NoEnvelope /\ ready' = waiting /\ waiting' = <<>>
         \/ queuedEnvelope # NoEnvelope /\ ready' = ready /\ waiting' = waiting
  BY DEF AckAfterDrain, Latest
<1>3. /\ stored.ver \in Nat /\ writing.ver \in Nat /\ queuedEnvelope.ver \in Nat
      /\ acked \in Nat /\ writing \in Envelopes /\ queuedEnvelope \in Envelopes
      /\ NoEnvelope \in Envelopes
  BY DEF IInv, TypeOK, WriteTypes, Envelopes, NoEnvelope, Statuses
<1>4. WriteTypes'
  BY <1>2, <1>3 DEF IInv, TypeOK, WriteTypes
<1>5. TypeOK'
  BY <1>4 DEF IInv, TypeOK, CallTypes, TurnTypes
<1>6. OneStart'
  <2>1. OneReader'
    BY DEF OneReader, IInv, OneStart
  <2>2. \A d \in Caller : CallAgrees(d)'
    BY <1>1 DEF IInv, OneStart, CallAgrees, Started
  <2>3. PromiseAgrees' /\ QuietBefore'
    BY <1>1 DEF IInv, OneStart, PromiseAgrees, QuietBefore
  <2> QED BY <2>1, <2>2, <2>3 DEF OneStart
<1>7. InOrder'
  <2>1. acked <= writing.ver /\ writing.ver <= state.ver /\ state.ver >= 1
    BY <1>1, <1>3 DEF IInv, InOrder, WritesInOrder, AcksInOrder
  <2>2. \A i \in DOMAIN waiting' : waiting'[i].ver <= Latest'.ver
    BY <1>2 DEF IInv, InOrder, WritesInOrder, AcksInOrder, Latest
  <2>3. \A i \in DOMAIN ready' : ready'[i].ver <= stored'.ver
    BY <1>2 DEF IInv, InOrder, WritesInOrder, AcksInOrder, Latest
  <2>4. queuedEnvelope # NoEnvelope =>
          writing.ver <= queuedEnvelope.ver /\ queuedEnvelope.ver <= state.ver
    BY DEF IInv, InOrder, WritesInOrder, AcksInOrder
  <2>5. waiting' # <<>> => writing' # NoEnvelope
    BY <1>2
  <2> QED BY <1>2, <2>1, <2>2, <2>3, <2>4, <2>5 DEF InOrder, WritesInOrder, AcksInOrder
<1>8. Credit'
  <2>1. NoEnvelope.cost = NoEnvelope.ended
    BY DEF NoEnvelope
  <2> QED BY <1>2, <2>1 DEF IInv, Credit
<1> QED BY <1>5, <1>6, <1>7, <1>8 DEF IInv

LEMMA CommitFailsIInv == ASSUME IInv, CommitFails PROVE IInv'
<1> USE DEF CommitFails, runnerVars, turnVars, waitVars
<1>1. state # NoState
  BY DEF IInv, OneStart, QuietBefore
<1>2. /\ writing' = NoEnvelope /\ queuedEnvelope' = NoEnvelope /\ waiting' = <<>>
      /\ ready' = <<>> /\ NoEnvelope \in Envelopes /\ NoEnvelope.cost = NoEnvelope.ended
  BY DEF NoEnvelope, Envelopes, Statuses
<1>3. CallTypes' /\ \A d \in Caller : call'[d] = call[d] \/ call'[d] = "returned"
  BY DEF IInv, TypeOK, CallTypes
<1>4. TypeOK'
  BY <1>2, <1>3 DEF IInv, TypeOK, TurnTypes, WriteTypes
<1>5. OneReader'
  BY <1>3 DEF OneReader, IInv, OneStart
<1>6. \A d \in Caller : CallAgrees(d)'
  BY <1>1, <1>3 DEF IInv, OneStart, CallAgrees, Started
<1>7. PromiseAgrees' /\ QuietBefore'
  BY <1>1 DEF IInv, OneStart, PromiseAgrees, QuietBefore
<1>8. InOrder'
  BY <1>1, <1>2 DEF IInv, InOrder, WritesInOrder, AcksInOrder
<1>9. Credit'
  BY <1>2 DEF IInv, Credit
<1> QED BY <1>4, <1>5, <1>6, <1>7, <1>8, <1>9 DEF IInv, OneStart

LEMMA DisposeIInv == ASSUME IInv, Dispose PROVE IInv'
<1> USE DEF Dispose, runnerVars, callVars, turnVars, waitVars, writeVars, boundVars
<1>1. CallTypes' /\ OneStart'
  BY RunningFrame
<1>2. TypeOK'
  BY <1>1 DEF IInv, TypeOK, TurnTypes, WriteTypes
<1> QED BY <1>1, <1>2, OrderFrame, CostFrame DEF IInv

LEMMA DisposePersistsIInv == ASSUME IInv, DisposePersists PROVE IInv'
<1> USE DEF DisposePersists, runnerVars, callVars, turnVars, waitVars, boundVars
<1>1. state # NoState
  BY DEF IInv, OneStart, QuietBefore
<1>2. /\ state' = state /\ state \in [ver : Nat, status : Statuses, ended : Nat]
      /\ state.ver >= 1 /\ stored.ver <= state.ver /\ sessionCost' = state'.ended
      /\ state.ver <= state.ver
  BY <1>1 DEF IInv, TypeOK, InOrder, WritesInOrder, Credit
<1>3. Write(Envelope(state', sessionCost'), Then("dispose", None, NoTerminal, state'.ver))
  BY DEF Persist
<1>4. /\ InOrder' /\ Credit' /\ queuedEnvelope' \in Envelopes /\ writing' \in Envelopes
      /\ waiting' \in Seq(Continuations)
  BY <1>1, <1>2, <1>3, PersistsInOrder, AcksFrame DEF InOrder
<1>5. CallTypes' /\ OneStart'
  BY <1>1, <1>2, RunningFrame
<1>6. TypeOK'
  BY <1>4, <1>5 DEF IInv, TypeOK, TurnTypes, WriteTypes
<1> QED BY <1>4, <1>5, <1>6 DEF IInv

(* A continuation finds the runner started, and may write once more.       *)
LEMMA GoOnIInv == ASSUME IInv, GoOn PROVE IInv'
<1> USE DEF GoOn, runnerVars, turnVars, boundVars
<1> DEFINE k == Head(ready)
<1>1. state # NoState
  BY DEF IInv, OneStart, QuietBefore
<1>2. ready \in Seq(Continuations) /\ ready # <<>>
  BY DEF IInv, TypeOK, WriteTypes
<1>3. k \in Continuations /\ k = ready[1] /\ 1 \in DOMAIN ready
  BY <1>2
<1>4. k.ver <= stored.ver
  BY <1>3 DEF IInv, InOrder, WritesInOrder, AcksInOrder
<1>5. ready' \in Seq(Continuations) /\ \A i \in DOMAIN ready' : ready'[i].ver <= stored.ver
  <2>1. ready' = Tail(ready) /\ ready' \in Seq(Continuations)
    BY <1>2
  <2>2. \A i \in DOMAIN ready' : i + 1 \in DOMAIN ready /\ ready'[i] = ready[i + 1]
    BY <1>2, <2>1
  <2> QED BY <2>1, <2>2 DEF IInv, InOrder, WritesInOrder, AcksInOrder
<1>6. acked' \in Nat /\ acked' <= stored.ver
  <2>1. acked' = IF k.ver > acked THEN k.ver ELSE acked
    OBVIOUS
  <2>2. k.ver \in Nat /\ acked \in Nat /\ acked <= stored.ver
    BY <1>3 DEF IInv, TypeOK, WriteTypes, InOrder, WritesInOrder, AcksInOrder, Continuations
  <2> HIDE DEF k
  <2> QED BY <1>4, <2>1, <2>2
<1> HIDE DEF k
<1>7. /\ state' = state /\ stored' = stored /\ turn' = turn /\ entering' = entering
      /\ UNCHANGED <<up, resumed, kind, read, awaits, startPromise>>
  OBVIOUS
<1>8. sessionCost' = sessionCost /\ disposed' \in {"no", "begun", "persisting", "done"}
      /\ armed' \in BOOLEAN /\ lastTerminal' \in BOOLEAN /\ terminalWaiters' \subseteq Caller
      /\ rejected' \subseteq Caller \cup {Timer}
  BY DEF k, StartGoesOn, Publish, Arms, TerminalEvent, IInv, TypeOK, TurnTypes
<1>9. \/ UNCHANGED <<queuedEnvelope, writing, waiting>>
      \/ Write(Envelope(state', sessionCost'), Then("terminal", k.who, "sleep", state'.ver))
  BY <1>7 DEF k, StartGoesOn, Publish, TerminalEvent
<1>10. \/ call' = call
       \/ \E to \in {"started", "replaying"} : call' = [call EXCEPT ![k.who] = to]
  BY DEF k, StartGoesOn, Publish
<1>11. /\ WritesInOrder' /\ Credit' /\ waiting' \in Seq(Continuations)
       /\ queuedEnvelope' \in Envelopes /\ writing' \in Envelopes
  <2>1. CASE UNCHANGED <<queuedEnvelope, writing, waiting>>
    BY <1>7, <1>8, <2>1
       DEF IInv, TypeOK, WriteTypes, InOrder, WritesInOrder, Latest, Credit
  <2>2. CASE Write(Envelope(state', sessionCost'),
                   Then("terminal", k.who, "sleep", state'.ver))
    <3>1. /\ state' \in [ver : Nat, status : Statuses, ended : Nat] /\ state' # NoState
          /\ state'.ver >= 1 /\ state.ver <= state'.ver /\ stored.ver <= state'.ver
          /\ sessionCost' = state'.ended
      BY <1>1, <1>7, <1>8 DEF IInv, TypeOK, InOrder, WritesInOrder, Credit
    <3>2. k.who \in Caller \cup {None} /\ "sleep" \in Terminals
      BY <1>3 DEF Continuations, Terminals
    <3> QED BY <1>7, <2>2, <3>1, <3>2, PersistsInOrder
  <2> QED BY <1>9, <2>1, <2>2
<1>12. AcksInOrder'
  BY <1>5, <1>6, <1>7 DEF AcksInOrder
<1>13. CallTypes'
  BY <1>7, <1>10 DEF IInv, TypeOK, CallTypes
<1>14. TypeOK'
  BY <1>5, <1>6, <1>7, <1>8, <1>11, <1>13 DEF IInv, TypeOK, TurnTypes, WriteTypes
<1>15. OneReader'
  BY <1>10 DEF OneReader, IInv, OneStart, TypeOK, CallTypes
<1>16. \A d \in Caller : CallAgrees(d)'
  BY <1>1, <1>7, <1>10 DEF IInv, OneStart, TypeOK, CallTypes, CallAgrees, Started
<1>17. PromiseAgrees' /\ QuietBefore'
  BY <1>1, <1>7 DEF IInv, OneStart, PromiseAgrees, QuietBefore
<1> QED BY <1>11, <1>12, <1>14, <1>15, <1>16, <1>17 DEF IInv, InOrder, OneStart

LEMMA EndsIInv == ASSUME IInv, Ends PROVE IInv'
<1> USE DEF Ends
<1>1. NoEnvelope \in Envelopes /\ NoState \in [ver : Nat, status : Statuses, ended : Nat]
      /\ NoEnvelope.cost = NoEnvelope.ended
  BY DEF NoEnvelope, NoState, Envelopes, Statuses
<1>2. CallTypes' /\ \A c \in Caller : call'[c] \in {"idle", "returned"}
  BY <1>1 DEF IInv, TypeOK, CallTypes
<1>3. WriteTypes'
  BY <1>1 DEF IInv, TypeOK, WriteTypes
<1>4. TypeOK'
  <2>1. TurnTypes'
    BY DEF IInv, TypeOK, TurnTypes
  <2>2. inputs' \in Nat /\ sleeps' \in Nat /\ faults' \in Nat /\ sessionCost' \in Nat
    BY DEF IInv, TypeOK
  <2> QED BY <1>1, <1>2, <1>3, <2>1, <2>2 DEF IInv, TypeOK
<1>5. OneStart'
  BY <1>2 DEF OneStart, OneReader, CallAgrees, PromiseAgrees, QuietBefore, Started
<1>6. InOrder'
  BY DEF IInv, InOrder, WritesInOrder, AcksInOrder
<1>7. Credit'
  BY <1>1 DEF IInv, Credit
<1> QED BY <1>4, <1>5, <1>6, <1>7 DEF IInv

LEMMA RestartIInv == ASSUME IInv, Restart PROVE IInv'
<1> USE DEF Restart, runnerVars, callVars, turnVars, waitVars, writeVars, boundVars
<1>1. TypeOK'
  BY DEF IInv, TypeOK, CallTypes, TurnTypes, WriteTypes
<1>2. OneStart'
  BY DEF IInv, OneStart, OneReader, CallAgrees, PromiseAgrees, QuietBefore, Started
<1> QED BY <1>1, <1>2, OrderFrame, CostFrame DEF IInv

LEMMA StepIInv == ASSUME OneStarter, IInv, [Next]_vars PROVE IInv'
<1>1. CASE UNCHANGED vars
  <2>1. CallTypes' /\ TurnTypes' /\ WriteTypes' /\ OneStart'
    BY <1>1 DEF IInv, TypeOK, CallTypes, TurnTypes, WriteTypes, OneStart, OneReader,
       CallAgrees, PromiseAgrees, QuietBefore, Started, vars, runnerVars, callVars, turnVars,
       waitVars, writeVars
  <2>2. TypeOK'
    BY <1>1, <2>1 DEF IInv, TypeOK, vars, runnerVars, boundVars
  <2> QED BY <1>1, <2>1, <2>2, OrderFrame, CostFrame DEF IInv, vars, runnerVars, writeVars
<1>2. CASE Next
  BY <1>2, CallIInv, HasReadIInv, RunnerStartsIInv, JoinsIInv, DispatchIInv, WaitIInv,
     EnterIInv, RejectsIInv, TurnEndsIInv, EventIInv, InterruptIInv, WakeFiresIInv, CommitsIInv,
     CommitFailsIInv, GoOnIInv, DisposeIInv, DisposePersistsIInv, EndsIInv, RestartIInv
     DEF Next, CallStep
<1> QED BY <1>1, <1>2

(* Session.start, dispatchTurn, drainPersistence and the rest keep IInv.   *)
THEOREM Inductive == ASSUME OneStarter PROVE Spec => []IInv
<1>1. IInv /\ [Next]_vars => IInv'
  BY StepIInv
<1> QED BY <1>1, InitIInv, PTL DEF Spec

(* Every variable of a session keeps its type.                             *)
THEOREM TypeCorrect == ASSUME OneStarter PROVE Spec => []TypeOK
<1>1. IInv => TypeOK
  BY DEF IInv
<1> QED BY <1>1, Inductive, PTL

(* commitTerminalCost credits each finished turn once in what is stored,   *)
(* over any crashes, failed writes and restarts.                           *)
THEOREM CreditsOnce == ASSUME OneStarter PROVE Spec => []CostOnce
<1>1. IInv => CostOnce
  BY DEF IInv, Credit, CostOnce
<1> QED BY <1>1, Inductive, PTL

(* drainPersistence implements StateRegister: state.json never goes back,  *)
(* and what a caller was told is written stays written.                    *)
THEOREM ImplementsRegister == ASSUME OneStarter PROVE Spec => NeverOlder
<1>1. Init => Durable!Init
  BY DEF Init, Durable!Init, NoEnvelope
<1>2. ASSUME IInv, [Next]_vars PROVE [Durable!Next]_<<stored.ver, acked>>
  <2>1. stored.ver \in Nat /\ acked \in Nat
    BY <1>2 DEF IInv, TypeOK, WriteTypes, Envelopes
  <2>2. CASE Commits
    <3>1. stored' = writing /\ acked' = acked /\ stored.ver <= writing.ver
      BY <1>2, <2>2 DEF Commits, IInv, InOrder, WritesInOrder
    <3> QED BY <2>1, <3>1 DEF Durable!Next, Durable!Commit
  <2>3. CASE GoOn
    <3>1. AcksInOrder' /\ TypeOK'
      BY <1>2, <2>3, GoOnIInv DEF IInv, InOrder
    <3>2. stored' = stored /\ acked' >= acked
      <4>1. ready \in Seq(Continuations) /\ ready # <<>>
        BY <1>2, <2>3 DEF GoOn, IInv, TypeOK, WriteTypes
      <4>2. Head(ready) \in Continuations
        BY <4>1
      <4>3. Head(ready).ver \in Nat
        BY <4>2 DEF Continuations
      <4> QED BY <2>1, <2>3, <4>3 DEF GoOn
    <3> QED BY <3>1, <3>2 DEF Durable!Next, Durable!Acknowledge, AcksInOrder
  <2>4. CASE Next /\ ~Commits /\ ~GoOn
    BY <2>4 DEF Next, CallStep, Call, HasRead, RunnerStarts, Joins, Dispatch, WaitForTerminal,
       Enter, Rejects, TurnEnds, Event, Interrupt, WakeFires, CommitFails, Dispose, DisposePersists,
       Ends, Restart, writeVars
  <2>5. CASE UNCHANGED vars
    BY <2>5 DEF vars, writeVars
  <2> QED BY <1>2, <2>2, <2>3, <2>4, <2>5
<1> QED BY <1>1, <1>2, Inductive, PTL DEF Spec, NeverOlder, Durable!Spec
=============================================================================
