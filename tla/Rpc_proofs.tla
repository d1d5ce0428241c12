------------------------------ MODULE Rpc_proofs ------------------------------
(***************************************************************************)
(* Proofs about the event writer of `duet --rpc` for any number of         *)
(* commands and events: what it accepts it writes, once and in order.      *)
(***************************************************************************)
EXTENDS Rpc, SequenceTheorems, TLAPS

-----------------------------------------------------------------------------
(* Lines.                                                                  *)

LEMMA LinesType ==
  ASSUME NEW m \in Nat, NEW n \in Nat, m <= n, NEW k \in Nat, n <= k
  PROVE  /\ Lines(m, n) \in Seq(1 .. k)
         /\ Len(Lines(m, n)) = n - m
         /\ \A i \in 1 .. n - m : Lines(m, n)[i] = m + i
<1>1. \A i \in 1 .. n - m : m + i \in 1 .. k
  OBVIOUS
<1>2. n - m \in Nat
  OBVIOUS
<1>3. Lines(m, n) \in [1 .. n - m -> 1 .. k]
  BY <1>1 DEF Lines
<1>4. Lines(m, n) \in Seq(1 .. k)
  BY <1>2, <1>3, SeqDef
<1>5. Len(Lines(m, n)) = n - m
  BY <1>2, <1>3, <1>4, LenProperties
<1> QED BY <1>4, <1>5 DEF Lines

LEMMA LinesConcat ==
  ASSUME NEW m \in Nat, NEW n \in Nat, m <= n
  PROVE  Lines(0, m) \o Lines(m, n) = Lines(0, n)
<1> DEFINE a == Lines(0, m)
           b == Lines(m, n)
           c == Lines(0, n)
<1>0. 0 \in Nat /\ 0 <= m /\ m - 0 = m /\ n - 0 = n /\ 0 <= n /\ n <= n
      /\ \A i \in 1 .. n : 0 + i = i
  OBVIOUS
<1>1. a \in Seq(1 .. n) /\ Len(a) = m /\ \A i \in 1 .. m : a[i] = i
  <2>1. a \in Seq(1 .. n) /\ Len(a) = m - 0 /\ \A i \in 1 .. m - 0 : a[i] = 0 + i
    BY <1>0, LinesType, Zenon
  <2> QED BY <1>0, <2>1
<1>2. b \in Seq(1 .. n) /\ Len(b) = n - m /\ \A i \in 1 .. n - m : b[i] = m + i
  BY <1>0, LinesType, Zenon
<1>3. c \in Seq(1 .. n) /\ Len(c) = n /\ \A i \in 1 .. n : c[i] = i
  <2>1. c \in Seq(1 .. n) /\ Len(c) = n - 0 /\ \A i \in 1 .. n - 0 : c[i] = 0 + i
    BY <1>0, LinesType, Zenon
  <2> QED BY <1>0, <2>1
<1> HIDE DEF a, b, c
<1>4. /\ a \o b \in Seq(1 .. n) /\ Len(a \o b) = n
      /\ \A i \in 1 .. n : (a \o b)[i] = IF i <= m THEN a[i] ELSE b[i - m]
  <2>1. /\ a \o b \in Seq(1 .. n) /\ Len(a \o b) = Len(a) + Len(b)
        /\ \A i \in 1 .. Len(a) + Len(b) : (a \o b)[i] =
               IF i <= Len(a) THEN a[i] ELSE b[i - Len(a)]
    BY <1>1, <1>2, ConcatProperties, Zenon
  <2>2. Len(a) + Len(b) = n
    BY <1>1, <1>2
  <2> QED BY <1>1, <2>1, <2>2
<1>5. \A i \in 1 .. n : (a \o b)[i] = c[i]
  BY <1>1, <1>2, <1>3, <1>4
<1>6. a \o b = c
  BY <1>3, <1>4, <1>5, SeqEqual
<1> QED BY <1>6 DEF a, b, c

(* A sequence falls into what is written and what is left.                 *)
LEMMA Cut ==
  ASSUME NEW S, NEW q \in Seq(S), NEW n \in 0 .. Len(q)
  PROVE  /\ SubSeq(q, 1, n) \in Seq(S) /\ SubSeq(q, n + 1, Len(q)) \in Seq(S)
         /\ SubSeq(q, 1, n) \o SubSeq(q, n + 1, Len(q)) = q
<1>1. Len(q) \in Nat /\ \A i \in 1 .. Len(q) : q[i] \in S
  BY LenProperties, ElementOfSeq
<1>2. SubSeq(q, 1, n) \in Seq(S) /\ SubSeq(q, n + 1, Len(q)) \in Seq(S)
  BY <1>1, SubSeqProperties
<1>3. /\ 1 \in 1 .. Len(q) + 1 /\ n \in 1 - 1 .. Len(q) /\ Len(q) \in n .. Len(q)
  BY <1>1
<1>4. SubSeq(q, 1, n) \o SubSeq(q, n + 1, Len(q)) = SubSeq(q, 1, Len(q))
  BY <1>3, ConcatAdjacentSubSeq
<1> QED BY <1>2, <1>4, SubSeqFull

-----------------------------------------------------------------------------
(* The writer.                                                             *)

Delivered == pump = "failed" \/ wire \o losslessLines = Lines(0, accepted)

IdleIsEmpty == pump = "idle" => losslessLines = <<>>

NothingLate == ~late /\ (terminalWritten => ~checkpoint)

WInv == WriterTypeOK /\ Delivered /\ IdleIsEmpty /\ NothingLate

(* The closers after which the process exits.                              *)
Exits == {"fatal", "signal"}
NoneClosed == \A c \in Exits : path[c] # "closed"
ClosedIsFlushed == \A c \in Exits : path[c] = "closed" => Flushed

(* One run of the pump, runPump of rpc.ts.                                 *)
LEMMA RunPumpFacts ==
  ASSUME NEW N \in Nat, wire \in Seq(1 .. N), NEW q \in Seq(1 .. N), NEW b \in BOOLEAN,
         path \in [Closer -> Paths], NoneClosed, RunPump(q, b)
  PROVE  /\ wire' \in Seq(1 .. N) /\ losslessLines' \in Seq(1 .. N)
         /\ pendingHeartbeat' \in BOOLEAN /\ pump' \in Pumps
         /\ path' \in [Closer -> Paths]
         /\ pump' = "failed" \/ wire' \o losslessLines' = wire \o q
         /\ IdleIsEmpty' /\ ClosedIsFlushed'
<1>1. PICK o \in Outcomes(q, b) :
        /\ wire' = wire \o SubSeq(q, 1, o.written) /\ losslessLines' = o.left
        /\ pendingHeartbeat' = o.beat /\ pump' = o.end
        /\ path' = [c \in Closer |->
             IF path[c] = "flushing" /\ o.end # "waits" THEN "closed" ELSE path[c]]
  BY DEF RunPump
<1>2. Len(q) \in Nat
  BY LenProperties
<1> DEFINE Takes(n) ==
             /\ o.written \in 0 .. Len(q)
             /\ o.left = SubSeq(q, n + 1, Len(q)) /\ o.beat \in BOOLEAN
             /\ o.end \in Pumps /\ (o.end = "failed" \/ o.written = n)
             /\ (o.end = "idle" => n = Len(q))
<1>3. \E n \in 0 .. Len(q) : Takes(n)
  <2>1. CASE o = [written |-> Len(q), left |-> SubSeq(q, Len(q) + 1, Len(q)),
                  beat |-> FALSE, end |-> "idle"]
    <3>1. Takes(Len(q))
      BY <1>2, <2>1 DEF Pumps
    <3> HIDE DEF Takes
    <3> QED BY <1>2, <3>1
  <2>2. ASSUME NEW n \in 1 .. Len(q),
               \/ o = [written |-> n, left |-> SubSeq(q, n + 1, Len(q)),
                       beat |-> b, end |-> "waits"]
               \/ o = [written |-> n - 1, left |-> SubSeq(q, n + 1, Len(q)),
                       beat |-> b, end |-> "failed"]
        PROVE  \E m \in 0 .. Len(q) : Takes(m)
    <3>1. Takes(n)
      BY <1>2, <2>2 DEF Pumps
    <3> HIDE DEF Takes
    <3> QED BY <1>2, <3>1
  <2>3. ASSUME NEW end \in {"waits", "failed"},
               o = [written |-> Len(q), left |-> SubSeq(q, Len(q) + 1, Len(q)),
                    beat |-> FALSE, end |-> end]
        PROVE  \E m \in 0 .. Len(q) : Takes(m)
    <3>1. Takes(Len(q))
      BY <1>2, <2>3 DEF Pumps
    <3> HIDE DEF Takes
    <3> QED BY <1>2, <3>1
  <2> QED BY <2>1, <2>2, <2>3 DEF Outcomes
<1>4. PICK n \in 0 .. Len(q) : Takes(n)
  BY <1>3
<1> DEFINE taken == SubSeq(q, 1, n)
           rest == SubSeq(q, n + 1, Len(q))
<1>5. taken \in Seq(1 .. N) /\ rest \in Seq(1 .. N) /\ taken \o rest = q
  BY Cut
<1>6. SubSeq(q, 1, o.written) \in Seq(1 .. N)
  BY <1>4, Cut
<1>7. wire' \in Seq(1 .. N) /\ losslessLines' \in Seq(1 .. N)
  BY <1>1, <1>4, <1>5, <1>6, ConcatProperties
<1>8. pump' = "failed" \/ wire' \o losslessLines' = wire \o q
  <2> SUFFICES ASSUME pump' # "failed" PROVE wire' \o losslessLines' = wire \o q
    OBVIOUS
  <2>1. wire' = wire \o taken /\ losslessLines' = rest
    BY <1>1, <1>4
  <2> HIDE DEF taken, rest
  <2>2. (wire \o taken) \o rest = wire \o (taken \o rest)
    <3>1. wire \in Seq(1 .. N) /\ taken \in Seq(1 .. N) /\ rest \in Seq(1 .. N)
      BY <1>5
    <3> QED BY <3>1, ConcatAssociative
  <2> QED BY <1>5, <2>1, <2>2
<1>9. IdleIsEmpty'
  BY <1>1, <1>2, <1>4, SubSeqEmpty DEF IdleIsEmpty
<1>10. path' \in [Closer -> Paths]
  BY <1>1 DEF Paths
<1>11. ClosedIsFlushed'
  BY <1>1, <1>4, <1>9 DEF ClosedIsFlushed, NoneClosed, IdleIsEmpty, Flushed, Exits,
                          Closer, Pumps
<1> QED BY <1>1, <1>4, <1>7, <1>8, <1>9, <1>10, <1>11

(* Events, heartbeats and the pump's wait: every step of the writer.       *)
WriterMoves ==
  \/ \E es \in Seq(Kind) :
       EmitAll(es) /\ ((\E i \in DOMAIN es : es[i] = "checkpoint") => Len(es) = 1 /\ checkpoint)
  \/ HeartbeatFires \/ Drain \/ \E c \in Closer : Close(c)
  \/ (\E hasState \in BOOLEAN : CheckpointFires(hasState)) \/ UNCHANGED writerVars

(* emit of rpc.ts:73-92.                                                   *)
LEMMA EmitKeeps ==
  ASSUME WInv, NoneClosed, NEW es \in Seq(Kind), EmitAll(es),
         (\E i \in DOMAIN es : es[i] = "checkpoint") => Len(es) = 1 /\ checkpoint
  PROVE  WInv' /\ ClosedIsFlushed'
<1> DEFINE kinds == {es[i] : i \in DOMAIN es}
           more == Lines(accepted, accepted + Len(es))
           ends == "terminal" \in kinds
           N == accepted + Len(es)
           q == losslessLines \o more
           b == pendingHeartbeat /\ ~ends
<1>1. Len(es) \in Nat /\ accepted \in Nat
  BY LenProperties DEF WInv, WriterTypeOK
<1>2. N \in Nat /\ accepted <= N
  BY <1>1
<1>3. more \in Seq(1 .. N)
  BY <1>1, <1>2, LinesType
<1>4. 1 .. accepted \subseteq 1 .. N
  BY <1>1
<1>5. wire \in Seq(1 .. N) /\ losslessLines \in Seq(1 .. N)
  BY <1>4, SeqMonotonic DEF WInv, WriterTypeOK
<1>6. q \in Seq(1 .. N)
  BY <1>3, <1>5, ConcatProperties
<1>7. b \in BOOLEAN /\ path \in [Closer -> Paths]
  BY DEF WInv, WriterTypeOK
<1>8. pump # "failed" => wire \o q = Lines(0, N)
  <2> SUFFICES ASSUME pump # "failed" PROVE wire \o q = Lines(0, N)
    OBVIOUS
  <2>1. wire \o losslessLines = Lines(0, accepted)
    BY DEF WInv, Delivered
  <2>2. (wire \o losslessLines) \o more = wire \o q
    <3> HIDE DEF more, N
    <3> QED BY <1>3, <1>5, ConcatAssociative
  <2>3. Lines(0, accepted) \o more = Lines(0, N)
    BY <1>1, <1>2, LinesConcat
  <2> QED BY <2>1, <2>2, <2>3
<1>9. accepted' = N /\ Pump(q, b)
  BY DEF EmitAll
<1> HIDE DEF more, N, q, b
<1>10. /\ wire' \in Seq(1 .. N) /\ losslessLines' \in Seq(1 .. N)
       /\ pendingHeartbeat' \in BOOLEAN /\ pump' \in Pumps
       /\ path' \in [Closer -> Paths]
       /\ pump' = "failed" \/ wire' \o losslessLines' = Lines(0, N)
       /\ IdleIsEmpty' /\ ClosedIsFlushed'
  <2>1. CASE pump = "idle" /\ RunPump(q, b)
    BY <1>2, <1>5, <1>6, <1>7, <1>8, <2>1, RunPumpFacts
  <2>2. CASE /\ pump # "idle" /\ losslessLines' = q /\ pendingHeartbeat' = b
             /\ UNCHANGED <<wire, pump, path>>
    BY <1>5, <1>6, <1>7, <1>8, <2>2
       DEF WInv, WriterTypeOK, IdleIsEmpty, ClosedIsFlushed, NoneClosed
  <2> QED BY <1>9, <2>1, <2>2 DEF Pump
<1>11. /\ late' \in BOOLEAN /\ checkpoint' \in BOOLEAN /\ terminalWritten' \in BOOLEAN
       /\ heartbeats' \in BOOLEAN
  BY DEF EmitAll, WInv, WriterTypeOK
<1>12. NothingLate'
  <2>1. "checkpoint" \in kinds => kinds = {"checkpoint"} /\ checkpoint
    BY LenProperties
  <2> HIDE DEF kinds
  <2>2. /\ late' = (late \/ ("checkpoint" \in kinds /\ terminalWritten))
        /\ terminalWritten' = (terminalWritten \/ "terminal" \in kinds)
        /\ checkpoint' = IF "checkpoint" \in kinds THEN FALSE
             ELSE ~("terminal" \in kinds)
                    /\ (checkpoint \/ ("progress" \in kinds /\ ~terminalWritten))
    BY DEF EmitAll, kinds
  <2> QED BY <2>1, <2>2 DEF WInv, NothingLate
<1> QED
  BY <1>2, <1>9, <1>10, <1>11, <1>12 DEF WInv, WriterTypeOK, Delivered

LEMMA WriterKeeps ==
  ASSUME WInv, NoneClosed, WriterMoves
  PROVE  WInv' /\ ClosedIsFlushed'
<1>1. ASSUME NEW es \in Seq(Kind), EmitAll(es),
             (\E i \in DOMAIN es : es[i] = "checkpoint") => Len(es) = 1 /\ checkpoint
      PROVE  WInv' /\ ClosedIsFlushed'
  BY <1>1, EmitKeeps
<1>2. ASSUME UNCHANGED <<accepted, late, timers>>,
             NEW b \in BOOLEAN, RunPump(losslessLines, b), pump # "failed"
      PROVE  WInv' /\ ClosedIsFlushed'
  <2>1. /\ accepted \in Nat /\ wire \in Seq(1 .. accepted)
        /\ losslessLines \in Seq(1 .. accepted) /\ path \in [Closer -> Paths]
    BY DEF WInv, WriterTypeOK
  <2>2. /\ wire' \in Seq(1 .. accepted) /\ losslessLines' \in Seq(1 .. accepted)
        /\ pendingHeartbeat' \in BOOLEAN /\ pump' \in Pumps
        /\ path' \in [Closer -> Paths]
        /\ pump' = "failed" \/ wire' \o losslessLines' = wire \o losslessLines
        /\ IdleIsEmpty' /\ ClosedIsFlushed'
    BY <1>2, <2>1, RunPumpFacts
  <2> QED BY <1>2, <2>2 DEF WInv, WriterTypeOK, Delivered, NothingLate, timers
<1>3. ASSUME HeartbeatFires PROVE WInv' /\ ClosedIsFlushed'
  <2>1. CASE pump = "idle" /\ RunPump(losslessLines, TRUE)
    BY <1>2, <1>3, <2>1 DEF HeartbeatFires
  <2>2. CASE pump # "idle" /\ losslessLines' = losslessLines /\ pendingHeartbeat' = TRUE
             /\ UNCHANGED <<wire, pump, path>>
    BY <1>3, <2>2 DEF HeartbeatFires, timers, WInv, WriterTypeOK, Delivered, IdleIsEmpty,
                      NothingLate, ClosedIsFlushed, NoneClosed
  <2> QED BY <1>3, <2>1, <2>2 DEF HeartbeatFires, Pump
<1>4. ASSUME Drain PROVE WInv' /\ ClosedIsFlushed'
  BY <1>2, <1>4 DEF Drain, WInv, WriterTypeOK
<1>5. ASSUME NEW c \in Closer, Close(c) PROVE WInv' /\ ClosedIsFlushed'
  BY <1>5 DEF Close, WInv, WriterTypeOK, Delivered, IdleIsEmpty, NothingLate, Paths,
              ClosedIsFlushed, NoneClosed, Flushed, Exits, Closer
<1>6. ASSUME NEW hasState \in BOOLEAN, CheckpointFires(hasState)
      PROVE  WInv' /\ ClosedIsFlushed'
  <2>1. CASE checkpoint /\ EmitAll(<<"checkpoint">>)
    <3>1. <<"checkpoint">> \in Seq(Kind) /\ Len(<<"checkpoint">>) = 1
      BY DEF Kind
    <3> QED BY <1>1, <2>1, <3>1
  <2>2. CASE /\ checkpoint' = FALSE
             /\ UNCHANGED <<accepted, late, terminalWritten, heartbeats, lane>>
    BY <2>2 DEF lane, WInv, WriterTypeOK, Delivered, IdleIsEmpty, NothingLate,
                ClosedIsFlushed, NoneClosed
  <2> QED BY <1>6, <2>1, <2>2 DEF CheckpointFires, Emit
<1>7. ASSUME UNCHANGED writerVars PROVE WInv' /\ ClosedIsFlushed'
  BY <1>7 DEF writerVars, lane, timers, WInv, WriterTypeOK, Delivered, IdleIsEmpty,
              NothingLate, ClosedIsFlushed, NoneClosed
<1> QED BY <1>1, <1>3, <1>4, <1>5, <1>6, <1>7 DEF WriterMoves

-----------------------------------------------------------------------------
(* The process.                                                            *)

RestOK ==
  /\ stdin \in {"open", "closed", "destroyed"} /\ loop \in Loops
  /\ call \in [Cmd -> {"unread", "waiting", "inTurn", "returned"}]
  /\ turn \in {"none", "runs", "ended"}
  /\ {started, terminalEmitted, report} \subseteq BOOLEAN
  /\ ending \subseteq Closer /\ exit \in {"no", "returned", "forced"}

IInv == WInv /\ RestOK /\ (Gone /\ exit # "forced" => Flushed)

(* What each step of the process does to the writer.                       *)
LEMMA StepMovesWriter ==
  ASSUME RestOK, Next
  PROVE  WriterMoves
<1>1. ASSUME NEW e \in Kind \ {"checkpoint"}, Emit(e) PROVE WriterMoves
  <2>1. /\ <<e>> \in Seq(Kind) /\ DOMAIN <<e>> = {1} /\ <<e>>[1] = e
    OBVIOUS
  <2> QED BY <1>1, <2>1 DEF WriterMoves, Emit
<1>2. ASSUME EmitAll(<<"progress", "terminal">>) PROVE WriterMoves
  <2> DEFINE es == <<"progress", "terminal">>
  <2>1. /\ es \in Seq(Kind) /\ DOMAIN es = {1, 2}
        /\ es[1] # "checkpoint" /\ es[2] # "checkpoint"
    BY DEF Kind
  <2> HIDE DEF es
  <2> QED BY <1>2, <2>1 DEF WriterMoves, es
<1>3. ASSUME Silent PROVE WriterMoves
  BY <1>3 DEF WriterMoves, Silent
<1>4. CASE Host
  BY <1>1, <1>3, <1>4 DEF Host, HostCloses, ReadNote, ReadStart, ReadInterrupt, ReadCompact,
                          ReadTurn, Kind
<1>5. CASE Loop
  BY <1>1, <1>3, <1>5 DEF Loop, StartReturns, CompactReturns, LoopEnds, LoopReturns, Kind
<1>6. CASE Runner \/ Progress
  BY <1>1, <1>3, <1>6 DEF Runner, Progress, Enter, TurnEnds, TurnReturns, InterruptReports,
                          EmitTerminalOnce, Kind
<1>7. CASE Ending
  BY <1>3, <1>7 DEF Ending, Leave, Disposed, WriterMoves
<1>8. CASE Uncaught
  BY <1>1, <1>2, <1>3, <1>8 DEF Uncaught, StartFails, Fatal, Signal, ForcedExit, Kind
<1>9. CASE WriterStep
  BY <1>9 DEF WriterStep, WriterMoves, RestOK
<1> QED BY <1>4, <1>5, <1>6, <1>7, <1>8, <1>9 DEF Next

LEMMA StepKeepsRest ==
  ASSUME RestOK, Next
  PROVE  RestOK'
<1> USE DEF RestOK, Loops, Closer
<1>1. CASE Host
  BY <1>1 DEF Host, HostCloses, ReadNote, ReadStart, ReadInterrupt, ReadCompact, ReadTurn,
              loopVars, turnVars, endVars
<1>2. CASE Loop
  BY <1>2 DEF Loop, StartReturns, CompactReturns, LoopEnds, LoopReturns,
              loopVars, turnVars, endVars
<1>3. CASE Runner \/ Progress
  BY <1>3 DEF Runner, Progress, Enter, TurnEnds, TurnReturns, InterruptReports,
              EmitTerminalOnce, loopVars, turnVars, endVars
<1>4. CASE Ending
  BY <1>4 DEF Ending, Leave, Disposed, loopVars, turnVars, endVars
<1>5. CASE Uncaught
  BY <1>5 DEF Uncaught, StartFails, Fatal, Signal, ForcedExit, loopVars, turnVars, endVars
<1>6. CASE WriterStep
  BY <1>6 DEF WriterStep, loopVars, turnVars, endVars
<1> QED BY <1>1, <1>2, <1>3, <1>4, <1>5, <1>6 DEF Next

(* A process that ends, but by force, has flushed (close, Leave).          *)
LEMMA StepFlushes ==
  ASSUME RestOK, WInv', ClosedIsFlushed', Next
  PROVE  (Gone /\ exit # "forced" => Flushed)'
<1>1. exit = "no"
  BY DEF Next, Gone
<1>2. CASE Leave
  BY <1>2 DEF Leave, NothingLeft, Silent, writerVars, lane, WInv, WriterTypeOK,
              IdleIsEmpty, Flushed, Pumps
<1>3. CASE ForcedExit
  BY <1>3 DEF ForcedExit
<1>4. CASE exit' = exit
  BY <1>1, <1>4 DEF Gone, ClosedIsFlushed, Exits
<1>5. Leave \/ ForcedExit \/ exit' = exit
  BY DEF Next, Host, HostCloses, ReadNote, ReadStart, ReadInterrupt, ReadCompact, ReadTurn,
         Loop, StartReturns, CompactReturns, LoopEnds, LoopReturns, Runner, Progress, Enter,
         TurnEnds, TurnReturns, InterruptReports, Ending, Disposed, Uncaught, StartFails,
         Fatal, Signal, WriterStep, endVars
<1> QED BY <1>2, <1>3, <1>4, <1>5

THEOREM Agreement == Spec => []IInv
<1>1. Init => IInv
  <2> SUFFICES ASSUME Init PROVE IInv
    OBVIOUS
  <2>1. Lines(0, 0) = <<>> /\ <<>> \o <<>> = <<>>
    <3>1. Lines(0, 0) \in Seq(1 .. 0) /\ Len(Lines(0, 0)) = 0
      <4>1. 0 \in Nat /\ 0 <= 0 /\ 0 - 0 = 0
        OBVIOUS
      <4> QED BY <4>1, LinesType
    <3> QED BY <3>1, EmptySeq
  <2>2. RestOK
    BY DEF Init, RestOK, Loops
  <2>3. WInv
    BY <2>1, EmptySeq DEF Init, WriterInit, WInv, WriterTypeOK, Delivered, IdleIsEmpty, NothingLate, Pumps, Paths
  <2>4. ~Gone
    BY DEF Init, WriterInit, Gone, Closer
  <2> QED BY <2>2, <2>3, <2>4 DEF IInv
<1>2. IInv /\ [Next]_vars => IInv'
  <2> SUFFICES ASSUME IInv, [Next]_vars PROVE IInv'
    OBVIOUS
  <2>1. CASE UNCHANGED vars
    BY <2>1 DEF vars, writerVars, lane, timers, loopVars, turnVars, endVars, IInv, WInv,
                WriterTypeOK, Delivered, IdleIsEmpty, NothingLate, RestOK, Gone, Flushed
  <2>2. CASE Next
    <3>1. NoneClosed
      BY <2>2 DEF Next, Gone, NoneClosed, Exits
    <3>2. WInv' /\ ClosedIsFlushed'
      BY <2>2, <3>1, StepMovesWriter, WriterKeeps DEF IInv
    <3> QED BY <2>2, <3>2, StepKeepsRest, StepFlushes DEF IInv
  <2> QED BY <2>1, <2>2
<1> QED BY <1>1, <1>2, PTL DEF Spec

(* Every variable of the process keeps its type (rpc.ts:49-70, 504-510).   *)
THEOREM TypeCorrect == Spec => []TypeOK
<1>1. IInv => TypeOK
  BY DEF IInv, WInv, RestOK, TypeOK
<1> QED BY <1>1, Agreement, PTL

(* The stream carries every event once and in order until a write throws,  *)
(* a process that ends unforced has flushed it, and no checkpoint follows  *)
(* a terminal (rpc.ts:73-181).                                             *)
THEOREM NothingLost == Spec => []EventsReachHost
<1>1. IInv => EventsReachHost
  BY DEF IInv, WInv, Delivered, NothingLate, EventsReachHost
<1> QED BY <1>1, Agreement, PTL
=============================================================================
