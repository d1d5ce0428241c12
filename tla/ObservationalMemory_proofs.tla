---------------------- MODULE ObservationalMemory_proofs ----------------------
(***************************************************************************)
(* For every length of transcript, clock, number of rows and of updates,   *)
(* whatever overlaps and whatever fails: the types, what becomes of what a *)
(* row told, a wire that a provider accepts, that no message is observed   *)
(* twice without cause, and that what left the wire is rendered.  Every    *)
(* exception is a cause that the model records when it occurs.             *)
(***************************************************************************)
EXTENDS ObservationalMemory, FiniteSetTheorems, WellFoundedInduction, TLAPS

LEMMA TellsOfUnion == ASSUME NEW R, NEW S PROVE Tells(R \cup S) = Tells(R) \cup Tells(S)
BY DEF Tells

LEMMA TellsMonotone == ASSUME NEW R, NEW S, R \subseteq S PROVE Tells(R) \subseteq Tells(S)
BY DEF Tells

LEMMA TellsOfRow ==
  ASSUME NEW owner, NEW T, NEW end PROVE Tells({Row(owner, T, end)}) = T
BY DEF Tells, Row

-----------------------------------------------------------------------------
(* What becomes of what a row told.                                        *)

(* The reflector's row tells all of its source; a row of the session that  *)
(* is not in the source is unread.                                         *)
LEMMA ReplaceKeeps ==
  ASSUME NEW p \in Party, ReplaceSession(p)
  PROVE  Tells(rows \ Unread) \subseteq Tells(rows')
<1>1. CASE UNCHANGED tableVars
  BY <1>1, TellsMonotone DEF tableVars
<1>2. ASSUME NEW end,
             rows' = (rows \ Owned(rows)) \cup {Row("own", Tells(update[p].source), end)}
      PROVE  Tells(rows \ Unread) \subseteq Tells(rows')
  <2>1. rows \ Unread \subseteq (rows \ Owned(rows)) \cup update[p].source
    BY DEF Unread, ReplaceSession
  <2> DEFINE new == Row("own", Tells(update[p].source), end)
  <2>n. Tells({new}) = Tells(update[p].source) /\ rows' = (rows \ Owned(rows)) \cup {new}
    BY <1>2, TellsOfRow
  <2> HIDE DEF new
  <2>2. Tells(rows') = Tells(rows \ Owned(rows)) \cup Tells(update[p].source)
    BY <2>n, TellsOfUnion
  <2>3. Tells((rows \ Owned(rows)) \cup update[p].source) = Tells(rows')
    BY <2>2, TellsOfUnion
  <2> QED BY <2>1, <2>3, TellsMonotone
<1> QED BY <1>1, <1>2 DEF ReplaceSession, Written

(* A row of the snapshot is preserved, was condensed, or lay in a batch    *)
(* that gave nothing.                                                      *)
LEMMA PruneKeeps ==
  ASSUME ReplaceAll
  PROVE  Tells(rows \ Unread) \ forgone' \subseteq Tells(rows')
<1>1. PICK answered \in SUBSET plan.eligible :
        /\ rows' = (plan.snapshot \ plan.eligible) \cup {Row("global", Tells(answered), 0)}
        /\ forgone' = forgone \cup Tells(plan.eligible \ answered)
  BY DEF ReplaceAll, Written, Pruned
<1> DEFINE new == Row("global", Tells(answered), 0)
<1>n. Tells({new}) = Tells(answered) /\ rows' = (plan.snapshot \ plan.eligible) \cup {new}
  BY <1>1, TellsOfRow
<1> HIDE DEF new
<1>2. rows \ Unread \subseteq
        ((plan.snapshot \ plan.eligible) \cup answered) \cup (plan.eligible \ answered)
  BY DEF Unread, ReplaceAll
<1> DEFINE rest == plan.snapshot \ plan.eligible
<1>m. rows' = rest \cup {new}
  BY <1>n
<1> HIDE DEF rest
<1>u. Tells(rest \cup {new}) = Tells(rest) \cup Tells({new})
  BY TellsOfUnion
<1>v. Tells(rest \cup answered) = Tells(rest) \cup Tells(answered)
  BY TellsOfUnion
<1>3. Tells(rows') = Tells((plan.snapshot \ plan.eligible) \cup answered)
  BY <1>n, <1>m, <1>u, <1>v DEF rest
<1> DEFINE kept == (plan.snapshot \ plan.eligible) \cup answered
           lost == plan.eligible \ answered
<1>e. rows \ Unread \subseteq kept \cup lost /\ Tells(rows') = Tells(kept)
  BY <1>2, <1>3
<1> HIDE DEF kept, lost
<1>f. Tells(kept \cup lost) = Tells(kept) \cup Tells(lost)
  BY TellsOfUnion
<1>g. Tells(rows \ Unread) \subseteq Tells(kept \cup lost)
  BY <1>e, TellsMonotone
<1>4. Tells(rows \ Unread) \subseteq Tells(rows') \cup Tells(plan.eligible \ answered)
  BY <1>e, <1>f, <1>g DEF lost
<1> QED BY <1>1, <1>4

(* Every other step leaves the rows there are.                             *)
LEMMA RowsStayFact ==
  ASSUME [Next]_vars, ~ReplaceAll, \A p \in Party : ~ReplaceSession(p)
  PROVE  rows \subseteq rows'
<1>1. ASSUME NEW p \in Party, Update(p) PROVE rows \subseteq rows'
  BY <1>1 DEF Update, Begin, ObserverFails, NothingToObserve, AppendObservation, Written, Reread,
              ReflectorFails, RefreshPack, Evict, tableVars
<1>2. CASE Resume \/ PeerAppends \/ PruneReads \/ PruneFails
  BY <1>2 DEF Resume, PeerAppends, PruneReads, PruneFails, Written, tableVars
<1>3. ASSUME NEW role, Say(role) PROVE rows \subseteq rows'
  BY <1>3 DEF Say, tableVars
<1> QED BY <1>1, <1>2, <1>3 DEF Next, vars, tableVars

(* What a row told, some row tells after every step, except what came      *)
(* between the read and the write of a prune or a reflector, and what lay  *)
(* in a batch that gave nothing; no overlap and no refusal loses more.     *)
THEOREM NothingForgotten == Spec => CoverageKept
<1>1. ASSUME [Next]_vars
      PROVE  [Tells(rows \ Unread) \ forgone' \subseteq Tells(rows')]_vars
  <2>1. CASE ReplaceAll
    BY <2>1, PruneKeeps
  <2>2. CASE \E p \in Party : ReplaceSession(p)
    BY <2>2, ReplaceKeeps
  <2>3. CASE ~ReplaceAll /\ \A p \in Party : ~ReplaceSession(p)
    <3>1. rows \ Unread \subseteq rows'
      BY <1>1, <2>3, RowsStayFact
    <3> QED BY <3>1, TellsMonotone
  <2> QED BY <2>1, <2>2, <2>3
<1> QED BY <1>1, PTL DEF Spec, CoverageKept

-----------------------------------------------------------------------------
(* The types.                                                              *)

(* The stamps a horizon can be: it is never that of the last message only. *)
Behind == {0} \cup {transcript[i].at : i \in 1..Said - 1}

(* Ids are given in order, to the table and to what a prune remembers.     *)
IdsGrow ==
  /\ \A r \in rows \cup plan.snapshot : r.id <= rowId
  /\ \A r, s \in plan.snapshot : r.id = s.id => r = s
  /\ plan.eligible \subseteq plan.snapshot

(* A transcript starts with a user, and a tool result follows its call or  *)
(* another result of the same call.                                        *)
CallBefore(i) ==
  \E j \in 1..i - 1 : /\ transcript[j].role = "assistant"
                      /\ \A k \in j + 1..i : transcript[k].role = "toolResult"
ResultsFollowCalls == \A i \in 1..Said : transcript[i].role = "toolResult" => CallBefore(i)

UpdateSet == [stage : Stages, why : {"turn", "advisor"} \cup Evicting,
              upTo : 0..MaxMessages, tail : 1..MaxMessages + 1,
              base : 0..MaxClock, source : SUBSET RowSet]

(* The updates keep their type, look at no message still to come, and hold *)
(* no horizon that would cover everything.                                 *)
UpdatesOK ==
  /\ update \in [Party -> UpdateSet] /\ updates \in 0..MaxUpdates
  /\ \A p \in Party : update[p].base \in Behind /\ update[p].upTo <= Said

(* The table and the prune keep theirs.                                    *)
TableOK ==
  /\ rows \subseteq RowSet /\ rowId \in 0..MaxRows
  /\ \A r, s \in rows : r.id = s.id => r = s
  /\ plan \in [snapshot : SUBSET RowSet, eligible : SUBSET RowSet]
  /\ IdsGrow

(* The messages and the horizon, the pack and the histories.               *)
ListOK ==
  /\ transcript \in Seq(Message) /\ Said <= MaxMessages
  /\ horizon \in 0..MaxClock
  /\ ResultsFollowCalls
TalkOK ==
  /\ ListOK
  /\ horizon \in Behind
  /\ pack \subseteq 1..MaxMessages /\ excused \subseteq 1..MaxMessages
  /\ prunes \in 0..MaxPrunes /\ rewound \in BOOLEAN /\ forgone \subseteq Content

TInv == TalkOK /\ TableOK /\ UpdatesOK

LEMMA TInvTypes == TInv => TypeOK
BY DEF TInv, TypeOK, UpdatesOK, UpdateSet, TableOK, TalkOK, ListOK

(* The least and the greatest number of a set.                             *)
LEMMA MinFact ==
  ASSUME NEW S \in SUBSET Nat, S # {}
  PROVE  Min(S) \in S /\ \A y \in S : Min(S) <= y
<1>1. PICK x \in S : \A y \in S : ~(<<y, x>> \in OpToRel(<, Nat))
  BY NatLessThanWellFounded, WFMin
<1>2. \A y \in S : x <= y
  <2>1. ASSUME NEW y \in S, y < x PROVE FALSE
    <3>1. <<y, x>> \in Nat \X Nat /\ <<y, x>>[1] < <<y, x>>[2]
      BY <2>1
    <3> QED BY <1>1, <3>1 DEF OpToRel
  <2> QED BY <2>1
<1> QED BY <1>2 DEF Min

LEMMA MaxFact ==
  ASSUME NEW n \in Nat, NEW S \in SUBSET (0..n), S # {}
  PROVE  Max(S) \in S /\ \A y \in S : Max(S) >= y
<1> DEFINE mirror == {n - x : x \in S}
<1>1. mirror \in SUBSET Nat /\ mirror # {}
  <2>1. PICK y \in S : TRUE
    OBVIOUS
  <2>2. n - y \in mirror
    BY <2>1
  <2> QED BY <2>2
<1>2. PICK x \in S : n - x = Min(mirror)
  BY <1>1, MinFact
<1>3. \A y \in S : n - x <= n - y
  BY <1>1, <1>2, MinFact
<1>4. \A y \in S : x >= y
  BY <1>3
<1> QED BY <1>4 DEF Max

(* The progress marker is the greatest end of a row.                       *)
LEMMA MarkerFact ==
  ASSUME NEW R \in SUBSET RowSet
  PROVE  /\ Marker(R) \in 0..MaxMessages
         /\ \A r \in R : r.end <= Marker(R)
         /\ R # {} => \E r \in R : r.end = Marker(R)
         /\ R = {} => Marker(R) = 0
<1>1. {r.end : r \in R} \in SUBSET (0..MaxMessages)
  BY DEF RowSet
<1>2. MaxMessages \in Nat
  BY MemoryAssumption
<1>3. CASE R = {}
  BY <1>2, <1>3 DEF Marker
<1>4. CASE R # {}
  <2>1. {r.end : r \in R} # {}
    BY <1>4
  <2> DEFINE m == Max({r.end : r \in R})
  <2>2. m \in {r.end : r \in R} /\ \A y \in {r.end : r \in R} : m >= y
    BY <1>1, <1>2, <2>1, MaxFact
  <2>3. Marker(R) = m
    BY <1>4 DEF Marker
  <2> HIDE DEF m
  <2> QED BY <1>1, <2>2, <2>3 DEF RowSet
<1> QED BY <1>3, <1>4

(* What a row or a set of rows tells of the session.                       *)
LEMMA MessagesFact ==
  ASSUME NEW S \in SUBSET Content
  PROVE  /\ Messages(S) \subseteq 1..MaxMessages
         /\ \A m \in 1..MaxMessages : m \in Messages(S) <=> <<"own", m>> \in S
<1>1. \A c \in S : c[1] = "own" => c[2] \in 1..MaxMessages /\ c = <<"own", c[2]>>
  BY DEF Content
<1>2. Messages(S) \subseteq 1..MaxMessages
  BY <1>1 DEF Messages
<1>3. ASSUME NEW m \in 1..MaxMessages PROVE m \in Messages(S) <=> <<"own", m>> \in S
  <2>1. <<"own", m>>[1] = "own" /\ <<"own", m>>[2] = m
    OBVIOUS
  <2> QED BY <1>1, <2>1 DEF Messages
<1> QED BY <1>2, <1>3

LEMMA TellsIsContent == ASSUME NEW R \in SUBSET RowSet PROVE Tells(R) \in SUBSET Content
BY DEF Tells, RowSet

LEMMA MessageFact ==
  ASSUME ListOK
  PROVE  /\ Said \in Nat /\ Said = Len(transcript) /\ MaxMessages \in Nat /\ MaxClock \in Nat
         /\ \A i \in 1..Said : /\ transcript[i].role \in {"user", "assistant", "toolResult"}
                               /\ transcript[i].at \in 1..MaxClock
<1>1. transcript \in Seq(Message)
  BY DEF ListOK
<1>2. \A i \in 1..Len(transcript) : transcript[i] \in Message
  BY <1>1
<1>3. Said = Len(transcript) /\ Said \in Nat
  BY <1>1 DEF Said
<1>4. \A i \in 1..Said : transcript[i] \in Message
  BY <1>2, <1>3
<1>5. \A i \in 1..Said : /\ transcript[i].role \in {"user", "assistant", "toolResult"}
                        /\ transcript[i].at \in 1..MaxClock
  BY <1>4 DEF Message
<1> QED BY <1>3, <1>5, MemoryAssumption

-----------------------------------------------------------------------------
(* The wire.                                                               *)

(* A tool result's call is an assistant message with nothing but results   *)
(* between the two.                                                        *)
LEMMA CallFact ==
  ASSUME ListOK, NEW i \in 1..Said, transcript[i].role = "toolResult"
  PROVE  /\ CallOf(i) \in 1..i - 1 /\ transcript[CallOf(i)].role = "assistant"
         /\ \A k \in CallOf(i) + 1..i : transcript[k].role = "toolResult"
<1> DEFINE calls == {j \in 1..i : transcript[j].role = "assistant"}
<1>0. Said \in Nat /\ i \in Nat
  BY MessageFact
<1>1. PICK j \in 1..i - 1 : /\ transcript[j].role = "assistant"
                            /\ \A k \in j + 1..i : transcript[k].role = "toolResult"
  BY DEF ListOK, ResultsFollowCalls, CallBefore
<1>2. j \in calls /\ calls \in SUBSET (0..i)
  BY <1>0, <1>1
<1>3. Max(calls) \in calls /\ \A y \in calls : Max(calls) >= y
  BY <1>0, <1>2, MaxFact
<1>4. CallOf(i) = Max(calls)
  BY DEF CallOf
<1> DEFINE c == Max(calls)
<1> HIDE DEF c
<1>5. c \in 1..i /\ transcript[c].role = "assistant" /\ c >= j
  BY <1>2, <1>3 DEF c
<1>6. c = j
  BY <1>0, <1>1, <1>5
<1> QED BY <1>1, <1>4, <1>6 DEF c

(* The messages up to the horizon are those before the first kept one.     *)
LEMMA FirstFact ==
  ASSUME ListOK, NEW h \in Nat
  PROVE  /\ FirstKept(transcript, h) \in 1..Said + 1
         /\ \A i \in 1..Said : i < FirstKept(transcript, h) => transcript[i].at <= h
<1> DEFINE later == {i \in DOMAIN transcript : transcript[i].at > h}
           first == FirstKept(transcript, h)
<1>1. DOMAIN transcript = 1..Said /\ Said \in Nat
  BY DEF ListOK, Said
<1>2. CASE later = {}
  <2>1. first = Said + 1
    BY <1>2 DEF FirstKept, Said
  <2>2. \A i \in 1..Said : transcript[i].at <= h
    BY <1>1, <1>2, MessageFact
  <2> QED BY <1>1, <2>1, <2>2
<1>3. CASE later # {}
  <2>1. first = Min(later)
    BY <1>3 DEF FirstKept
  <2>2. later \in SUBSET Nat
    BY <1>1
  <2>3. first \in later /\ \A y \in later : first <= y
    BY <1>3, <2>1, <2>2, MinFact
  <2> HIDE DEF first
  <2>4. \A i \in 1..Said : i < first => ~(transcript[i].at > h)
    BY <1>1, <2>2, <2>3
  <2>5. \A i \in 1..Said : transcript[i].at \in Nat
    BY MessageFact
  <2> QED BY <1>1, <2>3, <2>4, <2>5 DEF first
<1> QED BY <1>2, <1>3

(* The first message sent is no tool result; none is sent only when every  *)
(* message is stamped before the horizon.                                  *)
LEMMA WireHeadFact ==
  ASSUME ListOK, Said > 0, NEW h \in Nat
  PROVE  \/ /\ WireHead(transcript, h) \in 1..Said
            /\ transcript[WireHead(transcript, h)].role # "toolResult"
         \/ /\ WireHead(transcript, h) = Said + 1
            /\ transcript[Said].at <= h
<1> DEFINE first == FirstKept(transcript, h)
           users == From(transcript, first, {"user"})
           heads == From(transcript, first, {"user", "assistant"})
           kept  == From(transcript, first, {"assistant"})
           calls == From(transcript, 1, {"assistant"}) \ kept
           w     == WireHead(transcript, h)
<1>0. /\ Said \in Nat /\ Said = Len(transcript)
      /\ \A i \in 1..Said : transcript[i].role \in {"user", "assistant", "toolResult"}
  BY MessageFact
<1>1. first \in 1..Said + 1 /\ \A i \in 1..Said : i < first => transcript[i].at <= h
  BY FirstFact
<1>w. w = CASE first = 1 -> 1
            [] first # 1 /\ users # {} -> Min(users)
            [] first # 1 /\ users = {} /\ heads # {} -> Min(heads)
            [] first \in 2..Said /\ heads = {} /\ calls # {} -> Max(calls)
            [] OTHER -> Said + 1
  BY <1>0 DEF WireHead
<1> HIDE DEF first, w
<1>d. /\ users = {i \in first..Said : transcript[i].role \in {"user"}}
      /\ heads = {i \in first..Said : transcript[i].role \in {"user", "assistant"}}
      /\ kept  = {i \in first..Said : transcript[i].role \in {"assistant"}}
      /\ calls = {i \in 1..Said : transcript[i].role \in {"assistant"}} \ kept
  BY <1>0 DEF From
<1> HIDE DEF users, heads, kept, calls
<1>s. /\ users \subseteq heads /\ heads \in SUBSET Nat /\ users \in SUBSET Nat
      /\ calls \in SUBSET (0..Said)
  BY <1>0, <1>1, <1>d
<1>2. CASE first = 1
  <2>1. transcript[1].role # "toolResult"
    <3>1. 1 \in 1..Said
      BY <1>0
    <3>2. ASSUME transcript[1].role = "toolResult" PROVE FALSE
      BY <3>1, <3>2 DEF ListOK, ResultsFollowCalls, CallBefore
    <3> QED BY <3>2
  <2> QED BY <1>0, <1>2, <1>w, <2>1 DEF w
<1>3. CASE first # 1 /\ users # {}
  <2>1. w = Min(users) /\ Min(users) \in users
    BY <1>3, <1>s, <1>w, MinFact
  <2>2. w \in 1..Said /\ transcript[w].role = "user"
    BY <1>0, <1>1, <1>d, <2>1
  <2> QED BY <2>2 DEF w
<1>4. CASE first # 1 /\ users = {} /\ heads # {}
  <2>1. w = Min(heads) /\ Min(heads) \in heads
    BY <1>4, <1>s, <1>w, MinFact
  <2>2. w \in 1..Said /\ transcript[w].role \in {"user", "assistant"}
    BY <1>0, <1>1, <1>d, <2>1
  <2> QED BY <2>2 DEF w
<1>5. CASE first \in 2..Said /\ heads = {}
  <2>1. first \in 1..Said /\ first \in first..Said /\ transcript[first].role = "toolResult"
    BY <1>0, <1>5, <1>d
  <2>2. CallOf(first) \in 1..first - 1 /\ transcript[CallOf(first)].role = "assistant"
    BY <2>1, CallFact
  <2>3. CallOf(first) \in 1..Said /\ CallOf(first) \notin first..Said
    BY <1>0, <2>1, <2>2
  <2>4. CallOf(first) \in calls
    BY <1>d, <2>2, <2>3
  <2>5. users = {} /\ first # 1
    BY <1>5, <1>s
  <2>6. w = Max(calls)
    BY <1>5, <1>w, <2>4, <2>5
  <2>7. Max(calls) \in calls
    BY <1>0, <1>s, <2>4, MaxFact
  <2>8. w \in 1..Said /\ transcript[w].role = "assistant"
    BY <1>d, <2>6, <2>7
  <2> QED BY <2>8 DEF w
<1>6. CASE first = Said + 1 /\ first # 1 /\ heads = {}
  <2>1. w = Said + 1
    BY <1>0, <1>6, <1>s, <1>w
  <2>2. Said \in 1..Said /\ Said < first
    BY <1>0, <1>6
  <2> QED BY <1>1, <2>1, <2>2 DEF w
<1> QED BY <1>0, <1>1, <1>2, <1>3, <1>4, <1>5, <1>6

DroppedOK == Dropped \subseteq 1..Said

LEMMA DroppedFact == ListOK => DroppedOK
<1> SUFFICES ASSUME ListOK PROVE Dropped \subseteq 1..Said
  BY DEF DroppedOK
<1>1. /\ Said \in Nat /\ MaxMessages \in Nat /\ Said <= MaxMessages /\ horizon \in Nat
      /\ transcript \in Seq(Message)
  BY MessageFact DEF ListOK
<1>2. WireHead(transcript, horizon) \in 1..Said + 1
  <2>1. CASE Said > 0
    BY <1>1, <2>1, WireHeadFact
  <2>2. CASE Said = 0
    <3>1. FirstKept(transcript, horizon) \in 1..1
      BY <1>1, <2>2, FirstFact
    <3>2. FirstKept(transcript, horizon) = 1
      BY <3>1
    <3>3. WireHead(transcript, horizon) = 1
      BY <3>2 DEF WireHead
    <3> QED BY <2>2, <3>3
  <2> QED BY <1>1, <2>1, <2>2
<1> QED BY <1>1, <1>2 DEF Dropped

LEMMA DroppedFactNext == ListOK' => DroppedOK'
BY DroppedFact, PTL

(* The wire is valid for every horizon that is some earlier message's.     *)
LEMMA WireFact == TInv => WireIsValid
<1> SUFFICES ASSUME TInv PROVE WireIsValid
  OBVIOUS
<1> DEFINE w == WireHead(transcript, horizon)
<1>0. /\ Said \in Nat /\ horizon \in Nat /\ ListOK /\ horizon \in Behind
      /\ \A i \in 1..Said : transcript[i].at \in 1..MaxClock
  BY MessageFact DEF TInv, TalkOK, ListOK
<1>1. Wire = {i \in 1..Said : i >= w}
  BY DEF Wire
<1>2. CASE Said = 0
  BY <1>1, <1>2 DEF WireIsValid
<1>3. CASE w \in 1..Said /\ transcript[w].role # "toolResult"
  <2> HIDE DEF w
  <2>1. w \in Wire
    BY <1>0, <1>1, <1>3
  <2>2. ASSUME NEW i \in Wire, transcript[i].role = "toolResult" PROVE CallOf(i) \in Wire
    <3>1. i \in 1..Said /\ w \in 1..i
      BY <1>0, <1>1, <1>3
    <3>2. /\ CallOf(i) \in 1..i - 1
          /\ \A k \in CallOf(i) + 1..i : transcript[k].role = "toolResult"
      BY <1>0, <2>2, <3>1, CallFact
    <3>3. ~(w \in CallOf(i) + 1..i)
      BY <1>3, <3>2
    <3> QED BY <1>0, <1>1, <3>1, <3>2, <3>3
  <2> QED BY <2>1, <2>2 DEF WireIsValid
<1>4. CASE Said > 0 /\ w = Said + 1 /\ transcript[Said].at <= horizon
  <2>1. Wire = {}
    BY <1>0, <1>1, <1>4
  <2>2. horizon # 0
    <3>1. Said \in 1..Said
      BY <1>0, <1>4
    <3>2. transcript[Said].at \in 1..MaxClock
      BY <1>0, <3>1
    <3> QED BY <1>4, <3>2
  <2>3. PICK i \in 1..Said - 1 : horizon = transcript[i].at
    BY <1>0, <2>2 DEF Behind
  <2>4. transcript[i].at >= transcript[Said].at
    <3>1. i \in 1..Said /\ Said \in 1..Said
      BY <1>0, <1>4
    <3>2. transcript[i].at \in Nat /\ transcript[Said].at \in Nat
      BY <1>0, <3>1
    <3> QED BY <1>4, <2>3, <3>2
  <2> QED BY <2>1, <2>4 DEF WireIsValid
<1> QED BY <1>0, <1>2, <1>3, <1>4, WireHeadFact

-----------------------------------------------------------------------------
(* TInv is inductive.                                                      *)

LEMMA InitTInv == Init => TInv
<1> SUFFICES ASSUME Init PROVE TInv
  OBVIOUS
<1>0. Said = 0 /\ 0 \in Behind
  BY DEF Init, Said, Behind
<1>1. TalkOK
  <2>1. transcript \in Seq(Message)
    BY DEF Init
  <2>2. ResultsFollowCalls
    BY <1>0 DEF ResultsFollowCalls
  <2>3. /\ horizon = 0 /\ prunes = 0 /\ pack = {} /\ excused = {} /\ rewound \in BOOLEAN
        /\ forgone = {}
    BY DEF Init
  <2>4. 0 \in 0..MaxClock /\ 0 \in 0..MaxPrunes /\ 0 <= MaxMessages
    BY MemoryAssumption
  <2> QED BY <1>0, <2>1, <2>2, <2>3, <2>4 DEF TalkOK, ListOK
<1>2. TableOK
  BY MemoryAssumption DEF Init, TableOK, IdsGrow, NoPlan
<1>3. UpdatesOK
  <2>1. NoUpdate \in UpdateSet /\ NoUpdate.base = 0 /\ NoUpdate.upTo = 0
    BY MemoryAssumption DEF NoUpdate, UpdateSet, Stages
  <2>2. update = [p \in Party |-> NoUpdate] /\ updates \in 0..MaxUpdates
    BY MemoryAssumption DEF Init
  <2> QED BY <1>0, <2>1, <2>2 DEF UpdatesOK
<1> QED BY <1>1, <1>2, <1>3 DEF TInv

(* The talk stays as it is.                                                *)
LEMMA TalkStays ==
  ASSUME TalkOK, UNCHANGED <<transcript, horizon, prunes>>, pack' \subseteq 1..MaxMessages,
         excused' \subseteq 1..MaxMessages, rewound' \in BOOLEAN, forgone' \subseteq Content
  PROVE  TalkOK'
BY DEF TalkOK, ListOK, Said, Behind, ResultsFollowCalls, CallBefore

(* An update moves on to a stage, or ends.                                 *)
LEMMA GivesOK ==
  ASSUME UpdatesOK, NEW p \in Party, NEW stage \in Stages, NEW source \in SUBSET RowSet,
         Gives(p, stage, source), UNCHANGED transcript
  PROVE  UpdatesOK'
<1> DEFINE u == update[p]
           v == [stage |-> stage, why |-> u.why, upTo |-> u.upTo, tail |-> 1,
                 base |-> u.base, source |-> source]
<1>1. u \in UpdateSet /\ u.base \in Behind /\ u.upTo <= Said
  BY DEF UpdatesOK
<1>0. 1 \in 1..MaxMessages + 1
  BY MemoryAssumption
<1>2. v \in UpdateSet /\ v.base = u.base /\ v.upTo = u.upTo
  BY <1>0, <1>1 DEF UpdateSet
<1>3. update' = [update EXCEPT ![p] = v] /\ updates' = updates
  BY DEF Gives
<1>4. Behind' = Behind /\ Said' = Said
  BY DEF Behind, Said
<1> HIDE DEF u, v
<1> QED BY <1>1, <1>2, <1>3, <1>4 DEF UpdatesOK

LEMMA EndsOK ==
  ASSUME TalkOK, UpdatesOK, NEW p \in Party, Ends(p), UNCHANGED transcript
  PROVE  UpdatesOK'
<1>1. NoUpdate \in UpdateSet /\ NoUpdate.base = 0 /\ NoUpdate.upTo = 0
  BY MemoryAssumption DEF NoUpdate, UpdateSet, Stages
<1>2. 0 <= Said /\ 0 \in Behind
  BY MessageFact DEF Behind, TalkOK
<1>3. Behind' = Behind /\ Said' = Said
  BY DEF Behind, Said
<1>4. update' = [update EXCEPT ![p] = NoUpdate] /\ updates' = updates
  BY DEF Ends
<1> QED BY <1>1, <1>2, <1>3, <1>4 DEF UpdatesOK

LEMMA MovesOK ==
  ASSUME TalkOK, UpdatesOK, NEW p \in Party, UNCHANGED transcript,
         \/ \E stage \in Stages : Goes(p, stage)
         \/ Leave(p) \/ Ends(p)
  PROVE  UpdatesOK'
<1>1. {} \in SUBSET RowSet /\ {"packing", "evicting", "rereading"} \subseteq Stages
  BY DEF Stages
<1> QED BY <1>1, GivesOK, EndsOK DEF Goes, Leave

LEMMA UpdatesStay ==
  ASSUME UpdatesOK, UNCHANGED <<transcript, updateVars>> PROVE UpdatesOK'
BY DEF UpdatesOK, updateVars, Said, Behind

(* Writing a row of a new id over a part of the table or of a prune's      *)
(* snapshot.                                                               *)
LEMMA WrittenOK ==
  ASSUME TableOK, NEW R, R \subseteq rows \/ R \subseteq plan.snapshot,
         NEW owner \in Owners, NEW tells \in SUBSET Content, NEW end \in 0..MaxMessages,
         Written(R \cup {Row(owner, tells, end)}),
         UNCHANGED plan \/ plan' = NoPlan
  PROVE  TableOK'
<1> DEFINE new == Row(owner, tells, end)
<1>1. rowId \in Nat /\ MaxRows \in Nat /\ rowId < MaxRows
      /\ rowId' = rowId + 1 /\ rows' = R \cup {new}
  BY MemoryAssumption DEF TableOK, Written
<1>2. new.id = rowId + 1 /\ new \in RowSet
  BY <1>1 DEF Row, RowSet
<1>3. /\ R \subseteq RowSet
      /\ \A r \in R : r.id <= rowId
      /\ \A r, s \in R : r.id = s.id => r = s
  BY DEF TableOK, IdsGrow
<1>4. \A r \in RowSet : r.id \in Nat
  BY DEF RowSet
<1> HIDE DEF new
<1>5. /\ plan' \in [snapshot : SUBSET RowSet, eligible : SUBSET RowSet]
      /\ \A r \in plan'.snapshot : r.id <= rowId
      /\ \A r, s \in plan'.snapshot : r.id = s.id => r = s
      /\ plan'.snapshot \subseteq RowSet /\ plan'.eligible \subseteq plan'.snapshot
  BY DEF TableOK, IdsGrow, NoPlan
<1>6. rows' \subseteq RowSet /\ rowId' \in 0..MaxRows
  BY <1>1, <1>2, <1>3
<1>7. \A r, s \in rows' : r.id = s.id => r = s
  BY <1>1, <1>2, <1>3
<1>8. \A r \in rows' \cup plan'.snapshot : r.id <= rowId'
  BY <1>1, <1>2, <1>3, <1>4, <1>5
<1> QED BY <1>5, <1>6, <1>7, <1>8 DEF TableOK, IdsGrow

LEMMA TablesStay == TableOK /\ UNCHANGED tableVars /\ (UNCHANGED plan \/ plan' = NoPlan) => TableOK'
BY DEF TableOK, IdsGrow, tableVars, NoPlan

(* The tail of an update lies in the transcript.                           *)
LEMMA UnobservedFact ==
  ASSUME UpdatesOK, NEW p \in Party
  PROVE  Unobserved(p) \subseteq 1..MaxMessages /\ update[p].upTo \in 0..MaxMessages
<1>1. update[p] \in UpdateSet
  BY DEF UpdatesOK
<1>2. update[p].tail \in 1..MaxMessages + 1 /\ update[p].upTo \in 0..MaxMessages
  BY <1>1 DEF UpdateSet
<1> QED BY <1>2, MemoryAssumption DEF Unobserved

LEMMA LosesFact == TableOK => Loses \subseteq 1..MaxMessages
<1> SUFFICES ASSUME TableOK PROVE Loses \subseteq 1..MaxMessages
  OBVIOUS
<1>1. Tells(rows) \ Tells(rows') \in SUBSET Content
  BY TellsIsContent DEF TableOK
<1> QED BY <1>1, MessagesFact DEF Loses

(* Steps of an update that write no row.                                   *)
LEMMA QuietTInv ==
  ASSUME TInv, NEW p \in Party,
         \/ ObserverFails(p) \/ NothingToObserve(p) \/ Reread(p) \/ ReflectorFails(p)
  PROVE  TInv'
<1> USE DEF TInv
<1>1. UNCHANGED <<talkVars, tableVars, pruneVars, rewound, forgone>>
  BY DEF ObserverFails, NothingToObserve, Reread, ReflectorFails, history
<1>2. UpdatesOK'
  <2>1. UNCHANGED transcript /\ "rereading" \in Stages /\ "reflecting" \in Stages
    BY <1>1 DEF talkVars, Stages
  <2>2. Owned(rows) \in SUBSET RowSet
    BY DEF TableOK, Owned
  <2>3. CASE Reread(p)
    <3>1. PICK read \in {Owned(rows), {}} : Gives(p, "reflecting", read) \/ Leave(p)
      BY <2>3 DEF Reread
    <3> QED BY <2>1, <2>2, <3>1, GivesOK, MovesOK
  <2>4. CASE ~Reread(p)
    BY <2>1, <2>4, MovesOK DEF ObserverFails, NothingToObserve, ReflectorFails
  <2> QED BY <2>3, <2>4
<1>3. excused' \subseteq 1..MaxMessages
  <2>1. Unobserved(p) \subseteq 1..MaxMessages
    BY UnobservedFact
  <2> QED BY <2>1 DEF TalkOK, ObserverFails, NothingToObserve, Reread, ReflectorFails, history, Excuse
<1>4. TalkOK'
  <2>1. pack' \subseteq 1..MaxMessages /\ rewound' \in BOOLEAN /\ forgone' \subseteq Content
    BY <1>1 DEF TalkOK, talkVars
  <2> QED BY <1>1, <1>3, <2>1, TalkStays DEF talkVars, pruneVars
<1>5. TableOK'
  BY <1>1, TablesStay DEF pruneVars
<1> QED BY <1>2, <1>4, <1>5

LEMMA AppendTInv == ASSUME TInv, NEW p \in Party, AppendObservation(p) PROVE TInv'
<1> USE DEF TInv
<1>1. UNCHANGED <<talkVars, pruneVars, rewound, forgone>> /\ Goes(p, "rereading")
  BY DEF AppendObservation
<1>2. UpdatesOK'
  BY <1>1, MovesOK DEF talkVars, Stages
<1>3. Unobserved(p) \subseteq 1..MaxMessages /\ update[p].upTo \in 0..MaxMessages
  BY UnobservedFact
<1>4. excused' \subseteq 1..MaxMessages
  BY <1>3 DEF AppendObservation, Excuse, TalkOK
<1>5. TalkOK'
  <2>1. pack' \subseteq 1..MaxMessages /\ rewound' \in BOOLEAN /\ forgone' \subseteq Content
    BY <1>1 DEF TalkOK, talkVars
  <2> QED BY <1>1, <1>4, <2>1, TalkStays DEF talkVars, pruneVars
<1>6. TableOK'
  <2>1. "own" \in Owners /\ {"own"} \X Shown(p) \in SUBSET Content
    BY <1>3 DEF Owners, Content, Shown
  <2>2. CASE Written(rows \cup {Row("own", {"own"} \X Shown(p), update[p].upTo)})
    BY <1>1, <1>3, <2>1, <2>2, WrittenOK DEF pruneVars
  <2>3. CASE UNCHANGED tableVars
    BY <1>1, <2>3, TablesStay DEF pruneVars
  <2> QED BY <2>2, <2>3 DEF AppendObservation
<1> QED BY <1>2, <1>5, <1>6

LEMMA ReplaceTInv == ASSUME TInv, NEW p \in Party, ReplaceSession(p) PROVE TInv'
<1> USE DEF TInv
<1>1. UNCHANGED <<talkVars, pruneVars, forgone>> /\ Goes(p, "packing")
  BY DEF ReplaceSession
<1>2. UpdatesOK'
  BY <1>1, MovesOK DEF talkVars, Stages
<1>3. rewound' \in BOOLEAN /\ excused' \subseteq 1..MaxMessages
  BY LosesFact DEF ReplaceSession, TalkOK, Excuse
<1>4. TalkOK'
  <2>1. pack' \subseteq 1..MaxMessages /\ forgone' \subseteq Content
    BY <1>1 DEF TalkOK, talkVars
  <2> QED BY <1>1, <1>3, <2>1, TalkStays DEF talkVars, pruneVars
<1>5. TableOK'
  <2>1. update[p].source \in SUBSET RowSet
    BY DEF UpdatesOK, UpdateSet
  <2>2. "own" \in Owners /\ Tells(update[p].source) \in SUBSET Content
    BY <2>1, TellsIsContent DEF Owners
  <2>3. CASE UNCHANGED tableVars
    BY <1>1, <2>3, TablesStay DEF pruneVars
  <2>4. CASE ~UNCHANGED tableVars
    <3>1. PICK end \in {r.end : r \in update[p].source} :
            Written((rows \ Owned(rows)) \cup {Row("own", Tells(update[p].source), end)})
      BY <2>4 DEF ReplaceSession, tableVars
    <3>2. end \in 0..MaxMessages
      BY <2>1 DEF RowSet
    <3>3. rows \ Owned(rows) \subseteq rows
      OBVIOUS
    <3> QED BY <1>1, <2>2, <3>1, <3>2, <3>3, WrittenOK DEF pruneVars
  <2> QED BY <2>3, <2>4
<1> QED BY <1>2, <1>4, <1>5

(* A rebuilt pack tells messages of the session only.                      *)
LEMMA RebuiltOK ==
  ASSUME TInv, Rebuilt
  PROVE  pack' \subseteq 1..MaxMessages /\ excused' \subseteq 1..MaxMessages
<1>1. rows \in SUBSET RowSet /\ Owned(rows) \in SUBSET RowSet
  BY DEF TInv, TableOK, Owned
<1>2. /\ Messages(Tells(Owned(rows))) \subseteq 1..MaxMessages
      /\ Messages(Tells(rows)) \subseteq 1..MaxMessages
  BY <1>1, TellsIsContent, MessagesFact
<1> QED BY <1>2 DEF Rebuilt, Excuse, TInv, TalkOK

LEMMA PackTInv ==
  ASSUME TInv, RefreshPack("pass") \/ RefreshPack("compact") \/ Resume
  PROVE  TInv'
<1> USE DEF TInv
<1>1. UNCHANGED <<transcript, horizon, tableVars, pruneVars, rewound, forgone>>
  BY DEF RefreshPack, Resume
<1>2. UpdatesOK'
  <2>1. "evicting" \in Stages
    BY DEF Stages
  <2>2. ASSUME NEW p \in Party, RefreshPack(p) PROVE UpdatesOK'
    BY <1>1, <2>1, <2>2, MovesOK DEF RefreshPack
  <2>3. CASE Resume
    BY <1>1, <2>3, UpdatesStay DEF Resume
  <2> QED BY <2>2, <2>3 DEF Party
<1>3. pack' \subseteq 1..MaxMessages /\ excused' \subseteq 1..MaxMessages
  <2>1. pack \subseteq 1..MaxMessages /\ excused \cup (1..Said) \subseteq 1..MaxMessages
    <3>1. Said \in Nat /\ MaxMessages \in Nat /\ Said <= MaxMessages
      BY MessageFact DEF TalkOK, ListOK, ListOK
    <3> QED BY <3>1 DEF TalkOK
  <2> QED BY <2>1, RebuiltOK DEF RefreshPack, Resume, Excuse
<1>4. TalkOK'
  <2>1. rewound' \in BOOLEAN /\ forgone' \subseteq Content
    BY <1>1 DEF TalkOK
  <2> QED BY <1>1, <1>3, <2>1, TalkStays DEF pruneVars
<1>5. TableOK'
  BY <1>1, TablesStay DEF pruneVars
<1> QED BY <1>2, <1>4, <1>5

(* What an update begins with.                                             *)
Begun(p, reason, got) ==
  LET first == 1 + IF got THEN Marker(Owned(rows)) ELSE 0 IN
  [stage |-> IF first > Said THEN "rereading" ELSE "observing", why |-> reason,
   upTo |-> Said, tail |-> first,
   base |-> IF reason \in {"overflow", "command"} THEN horizon ELSE 0, source |-> {}]

LEMMA BeginTInv ==
  ASSUME TInv, NEW p \in Party, NEW reason, Begin(p, reason)
  PROVE  TInv'
<1> USE DEF TInv
<1>1. UNCHANGED <<talkVars, tableVars, pruneVars, excused, forgone>> /\ reason \in Reasons(p)
  BY DEF Begin
<1>2. PICK got \in BOOLEAN : update' = [update EXCEPT ![p] = Begun(p, reason, got)]
  BY DEF Begin, Begun
<1>3. Marker(Owned(rows)) \in 0..MaxMessages
  <2>1. Owned(rows) \in SUBSET RowSet
    BY DEF TableOK, Owned
  <2> QED BY <2>1, MarkerFact
<1>4. reason \in {"turn", "advisor"} \cup Evicting
  BY <1>1 DEF Reasons, Evicting
<1>5. UpdatesOK'
  <2> DEFINE v == Begun(p, reason, got)
             mark == IF got THEN Marker(Owned(rows)) ELSE 0
             base == IF reason \in {"overflow", "command"} THEN horizon ELSE 0
             stage == IF 1 + mark > Said THEN "rereading" ELSE "observing"
  <2>0. v = [stage |-> stage, why |-> reason, upTo |-> Said, tail |-> 1 + mark,
             base |-> base, source |-> {}]
    BY DEF Begun
  <2>1. /\ 1 + mark \in 1..MaxMessages + 1 /\ Said \in 0..MaxMessages /\ Said <= Said
    <3>1. mark \in 0..MaxMessages
      BY <1>3, MemoryAssumption
    <3> HIDE DEF mark
    <3> QED BY <3>1, MessageFact DEF TalkOK, ListOK
  <2>2. base \in 0..MaxClock /\ base \in Behind /\ stage \in Stages
    <3>1. 0 \in Behind /\ 0 \in 0..MaxClock
      BY MemoryAssumption DEF Behind
    <3> QED BY <3>1 DEF TalkOK, ListOK, Stages
  <2> HIDE DEF mark, base, stage
  <2>3. v \in UpdateSet /\ v.base \in Behind /\ v.upTo <= Said
    BY <1>4, <2>0, <2>1, <2>2 DEF UpdateSet
  <2>4. update' = [update EXCEPT ![p] = v] /\ Behind' = Behind /\ Said' = Said
    BY <1>1, <1>2 DEF talkVars, Behind, Said
  <2>5. updates' \in 0..MaxUpdates
    BY MemoryAssumption DEF Begin, UpdatesOK
  <2> HIDE DEF v
  <2> QED BY <2>3, <2>4, <2>5 DEF UpdatesOK
<1>6. rewound' \in BOOLEAN
  BY DEF Begin, TalkOK
<1>7. TalkOK'
  <2>1. pack' \subseteq 1..MaxMessages /\ excused' \subseteq 1..MaxMessages /\ forgone' \subseteq Content
    BY <1>1 DEF TalkOK, talkVars
  <2> QED BY <1>1, <1>6, <2>1, TalkStays DEF talkVars, pruneVars
<1>8. TableOK'
  BY <1>1, TablesStay DEF pruneVars
<1> QED BY <1>5, <1>7, <1>8

(* A new horizon is the stamp of a message with one after it, or one that  *)
(* was such already.                                                       *)
LEMMA HorizonFact ==
  ASSUME TalkOK, NEW current \in Behind, NEW upTo \in Nat, upTo <= Said,
         NEW h \in Horizons(current, upTo)
  PROVE  h \in Behind
<1>0. Said \in Nat /\ MaxClock \in Nat /\ \A i \in 1..Said : transcript[i].at \in 1..MaxClock
  BY MessageFact DEF TalkOK
<1>1. PICK k \in 0..(upTo - 1) : h = Max({current} \cup {transcript[i].at : i \in 1..k})
  BY DEF Horizons
<1> DEFINE S == {current} \cup {transcript[i].at : i \in 1..k}
<1>2. \A i \in 1..k : i \in 1..Said - 1 /\ i \in 1..Said
  BY <1>0, <1>1
<1>3. S \in SUBSET Behind
  BY <1>2 DEF Behind
<1>4. Behind \in SUBSET (0..MaxClock)
  <2>1. \A i \in 1..Said - 1 : i \in 1..Said
    BY <1>0
  <2> QED BY <1>0, <2>1 DEF Behind
<1>5. Max(S) \in S
  <2>1. S \in SUBSET (0..MaxClock) /\ S # {}
    BY <1>3, <1>4
  <2> HIDE DEF S
  <2> QED BY <1>0, <2>1, MaxFact
<1> QED BY <1>1, <1>3, <1>5

LEMMA EvictTInv == ASSUME TInv, NEW p \in Party, Evict(p) PROVE TInv'
<1> USE DEF TInv
<1>1. UNCHANGED <<transcript, pack, tableVars, pruneVars, history>> /\ Ends(p)
  BY DEF Evict
<1>2. UpdatesOK'
  BY <1>1, MovesOK
<1>3. horizon' \in Behind
  <2>1. PICK current \in {horizon, update[p].base} :
          \E h \in Horizons(current, update[p].upTo) :
            horizon' = IF h = current THEN horizon ELSE h
    BY DEF Evict
  <2>2. PICK h \in Horizons(current, update[p].upTo) :
          horizon' = IF h = current THEN horizon ELSE h
    BY <2>1
  <2>3. current \in Behind /\ horizon \in Behind
    BY <2>1 DEF TalkOK, UpdatesOK
  <2>4. update[p].upTo \in Nat /\ update[p].upTo <= Said
    BY DEF UpdatesOK, UpdateSet
  <2>5. h \in Behind
    BY <2>2, <2>3, <2>4, HorizonFact
  <2> QED BY <2>2, <2>3, <2>5
<1>4. TalkOK'
  <2>1. horizon' \in 0..MaxClock
    <3>1. \A i \in 1..Said - 1 : transcript[i].at \in 1..MaxClock
      BY MessageFact DEF TalkOK
    <3> QED BY <1>3, <3>1, MemoryAssumption DEF Behind
  <2>2. Behind' = Behind
    BY <1>1 DEF Behind, Said
  <2> QED BY <1>1, <1>3, <2>1, <2>2
       DEF TalkOK, ListOK, pruneVars, history, Said, ResultsFollowCalls, CallBefore
<1>5. TableOK'
  BY <1>1, TablesStay DEF pruneVars
<1> QED BY <1>2, <1>4, <1>5

(* A message more: a result goes with the call before it.                  *)
LEMMA SayTInv ==
  ASSUME TInv, NEW role \in {"user", "assistant", "toolResult"}, Say(role)
  PROVE  TInv'
<1> USE DEF TInv
<1>1. PICK at \in Stamps(role) : transcript' = Append(transcript, [role |-> role, at |-> at])
  BY DEF Say
<1>2. /\ Said < MaxMessages
      /\ UNCHANGED <<horizon, pack, tableVars, updateVars, pruneVars, rewound, forgone>>
      /\ Said = 0 => role = "user"
      /\ role = "toolResult" => transcript[Said].role \in {"assistant", "toolResult"}
  BY DEF Say
<1>3. [role |-> role, at |-> at] \in Message
  BY <1>1 DEF Message, Stamps
<1>4. /\ transcript \in Seq(Message) /\ Said \in Nat /\ Said = Len(transcript)
      /\ MaxMessages \in Nat
  BY MessageFact DEF TalkOK, ListOK
<1>5. /\ Said' = Said + 1 /\ transcript' \in Seq(Message)
      /\ \A i \in 1..Said : transcript'[i] = transcript[i]
      /\ transcript'[Said + 1].role = role
  BY <1>1, <1>3, <1>4 DEF Said
<1>6. ASSUME NEW i \in 1..Said + 1, transcript'[i].role = "toolResult"
      PROVE  \E j \in 1..i - 1 : /\ transcript'[j].role = "assistant"
                                 /\ \A k \in j + 1..i : transcript'[k].role = "toolResult"
  <2>1. CASE i \in 1..Said
    <3>1. PICK j \in 1..i - 1 : /\ transcript[j].role = "assistant"
                                /\ \A k \in j + 1..i : transcript[k].role = "toolResult"
      BY <1>5, <1>6, <2>1 DEF TalkOK, ListOK, ResultsFollowCalls, CallBefore
    <3>2. j \in 1..Said /\ \A k \in j + 1..i : k \in 1..Said
      BY <1>4, <2>1
    <3> QED BY <1>5, <3>1, <3>2
  <2>2. CASE i = Said + 1 /\ transcript[Said].role = "assistant"
    <3>1. Said \in 1..Said /\ Said \in 1..i - 1
      BY <1>2, <1>4, <1>5, <1>6, <2>2
    <3> QED BY <1>4, <1>5, <1>6, <2>2, <3>1
  <2>3. CASE i = Said + 1 /\ transcript[Said].role = "toolResult"
    <3>1. Said \in 1..Said
      BY <1>2, <1>4, <1>5, <1>6, <2>3
    <3>2. PICK j \in 1..Said - 1 : /\ transcript[j].role = "assistant"
                                   /\ \A k \in j + 1..Said : transcript[k].role = "toolResult"
      BY <2>3, <3>1 DEF TalkOK, ListOK, ResultsFollowCalls, CallBefore
    <3>3. j \in 1..i - 1 /\ j \in 1..Said
          /\ \A k \in j + 1..i : k = i \/ (k \in 1..Said /\ k \in j + 1..Said)
      BY <1>4, <2>3
    <3> QED BY <1>5, <1>6, <2>3, <3>2, <3>3
  <2> QED BY <1>2, <1>4, <1>5, <1>6, <2>1, <2>2, <2>3
<1>7. ResultsFollowCalls'
  BY <1>5, <1>6 DEF ResultsFollowCalls, CallBefore
<1>8. Behind \subseteq Behind'
  <2>1. \A i \in 1..Said - 1 : i \in 1..Said' - 1 /\ transcript'[i] = transcript[i]
    BY <1>4, <1>5
  <2> QED BY <2>1 DEF Behind
<1>9. excused' \subseteq 1..MaxMessages
  <2>1. ListOK'
    BY <1>2, <1>4, <1>5, <1>7 DEF TalkOK, ListOK
  <2>2. Dropped' \subseteq 1..MaxMessages
    <3>1. Dropped' \subseteq 1..Said'
      BY <2>1, DroppedFactNext DEF DroppedOK
    <3> QED BY <1>2, <1>4, <1>5, <3>1
  <2>3. excused' \subseteq (excused \cup Dropped') \cup {Said + 1}
    BY DEF Say, Excuse
  <2>4. excused \subseteq 1..MaxMessages /\ Said + 1 \in 1..MaxMessages
    BY <1>2, <1>4 DEF TalkOK
  <2> QED BY <2>2, <2>3, <2>4
<1>10. TalkOK'
  BY <1>2, <1>4, <1>5, <1>7, <1>8, <1>9 DEF TalkOK, ListOK, pruneVars
<1>11. UpdatesOK'
  <2>1. \A q \in Party : update[q].upTo \in Nat
    BY DEF UpdatesOK, UpdateSet
  <2>2. UNCHANGED <<update, updates>>
    BY <1>2 DEF updateVars
  <2> QED BY <1>4, <1>5, <1>8, <2>1, <2>2 DEF UpdatesOK
<1>12. TableOK'
  BY <1>2, TablesStay DEF pruneVars
<1> QED BY <1>10, <1>11, <1>12

(* The other processes.                                                    *)
LEMMA OthersTInv ==
  ASSUME TInv, PeerAppends \/ PruneReads \/ ReplaceAll \/ PruneFails
  PROVE  TInv'
<1> USE DEF TInv
<1>1. UNCHANGED <<talkVars, updateVars>>
  BY DEF PeerAppends, PruneReads, ReplaceAll, PruneFails
<1>2. prunes' \in 0..MaxPrunes
  BY MemoryAssumption DEF PeerAppends, PruneReads, ReplaceAll, PruneFails, pruneVars, TalkOK
<1>3. excused' \subseteq 1..MaxMessages /\ rewound' \in BOOLEAN /\ forgone' \subseteq Content
  <2>1. CASE ReplaceAll
    <3>1. PICK answered \in SUBSET plan.eligible :
            forgone' = forgone \cup Tells(plan.eligible \ answered)
      BY <2>1 DEF ReplaceAll
    <3>2. plan.eligible \ answered \in SUBSET RowSet
      BY DEF TableOK
    <3>3. Tells(plan.eligible \ answered) \in SUBSET Content
      BY <3>2, TellsIsContent
    <3> QED BY <2>1, <3>1, <3>3, LosesFact DEF ReplaceAll, TalkOK, Excuse
  <2>2. CASE ~ReplaceAll
    BY <2>2 DEF PeerAppends, PruneReads, PruneFails, history, TalkOK
  <2> QED BY <2>1, <2>2
<1>4. TalkOK'
  <2>1. ListOK' /\ Behind' = Behind /\ UNCHANGED <<horizon, pack>>
    BY <1>1 DEF TalkOK, ListOK, talkVars, Said, Behind, ResultsFollowCalls, CallBefore
  <2> QED BY <1>2, <1>3, <2>1 DEF TalkOK
<1>5. UpdatesOK'
  BY <1>1, UpdatesStay DEF talkVars
<1>6. TableOK'
  <2>1. CASE PeerAppends
    <3>1. rowId < MaxRows /\ rowId \in 0..MaxRows /\ 0 \in 0..MaxMessages
      BY <2>1, MemoryAssumption DEF PeerAppends, Written, TableOK
    <3>2. "peer" \in Owners /\ {<<"peer", rowId + 1>>} \in SUBSET Content
      BY <3>1, MemoryAssumption DEF Owners, Content
    <3> QED BY <2>1, <3>1, <3>2, WrittenOK DEF PeerAppends, pruneVars
  <2>2. CASE PruneReads
    <3>1. PICK cutoff : plan' = [snapshot |-> rows, eligible |-> Eligible(rows, cutoff)]
      BY <2>2 DEF PruneReads
    <3>2. UNCHANGED tableVars /\ Eligible(rows, cutoff) \subseteq rows
      BY <2>2 DEF PruneReads, Eligible
    <3> QED BY <3>1, <3>2 DEF TableOK, IdsGrow, tableVars
  <2>3. CASE ReplaceAll
    <3>1. PICK answered \in SUBSET plan.eligible :
             Written((plan.snapshot \ plan.eligible) \cup {Row("global", Tells(answered), 0)})
      BY <2>3 DEF ReplaceAll, Pruned
    <3>2. answered \in SUBSET RowSet /\ plan' = NoPlan
      BY <2>3 DEF ReplaceAll, TableOK
    <3>3. "global" \in Owners /\ Tells(answered) \in SUBSET Content /\ 0 \in 0..MaxMessages
      BY <3>2, TellsIsContent, MemoryAssumption DEF Owners
    <3>4. (plan.snapshot \ plan.eligible) \subseteq plan.snapshot
      OBVIOUS
    <3> QED BY <3>1, <3>2, <3>3, <3>4, WrittenOK
  <2>4. CASE PruneFails
    BY <2>4, TablesStay DEF PruneFails
  <2> QED BY <2>1, <2>2, <2>3, <2>4
<1> QED BY <1>4, <1>5, <1>6

LEMMA NextTInv == TInv /\ [Next]_vars => TInv'
<1> SUFFICES ASSUME TInv, [Next]_vars PROVE TInv'
  OBVIOUS
<1>1. ASSUME NEW p \in Party, Update(p) PROVE TInv'
  BY <1>1, QuietTInv, AppendTInv, ReplaceTInv, PackTInv, BeginTInv, EvictTInv DEF Update, Party
<1>2. CASE UNCHANGED vars
  <2> USE <1>2 DEF TInv, vars, talkVars, tableVars, updateVars, pruneVars, history
  <2>1. TalkOK'
    BY DEF TalkOK, ListOK, Said, Behind, ResultsFollowCalls, CallBefore
  <2>2. TableOK' /\ UpdatesOK'
    BY DEF TableOK, UpdatesOK, IdsGrow, Said, Behind
  <2> QED BY <2>1, <2>2
<1> QED BY <1>1, <1>2, SayTInv, PackTInv, OthersTInv DEF Next

(* Every variable keeps its shape and no two rows share an id, however     *)
(* passes, /compact, peers and prunes interleave.                          *)
THEOREM MemoryTypes == Spec => []TypeOK
BY InitTInv, NextTInv, TInvTypes, PTL DEF Spec

(* A tool result on the wire has its call on it, and the wire is not empty *)
(* unless the last message is stamped no later than an earlier one.        *)
THEOREM WireStaysValid == Spec => []WireIsValid
BY InitTInv, NextTInv, WireFact, PTL DEF Spec

-----------------------------------------------------------------------------
(* What the session observed.                                              *)

(* Rows of the session alone tell its messages, each once and none after   *)
(* the progress marker of these rows.                                      *)
FreshIn(R) ==
  /\ \A r \in R, m \in 1..MaxMessages :
       <<"own", m>> \in r.tells => r.owner = "own" /\ m <= Marker(Owned(R))
  /\ \A r, s \in R, m \in 1..MaxMessages :
       <<"own", m>> \in r.tells /\ <<"own", m>> \in s.tells => r = s

(* What is about to be observed lies after the marker; neither the rows a  *)
(* reflector was given nor what they tell lie after it.                    *)
FreshAt(p) ==
  /\ At(p, "observing") => Marker(Owned(rows)) < update[p].tail
  /\ At(p, "reflecting") =>
       /\ Marker(update[p].source) <= Marker(Owned(rows))
       /\ \A r \in update[p].source, m \in 1..MaxMessages :
            <<"own", m>> \in r.tells => m <= Marker(Owned(rows))

(* What a prune will put back is no older than the table, or it will be    *)
(* seen to set the marker back.                                            *)
FreshPlan == FreshIn(plan.snapshot) /\ Marker(Owned(plan.snapshot)) <= Marker(Owned(rows))

OneObserves == \A p, q \in Party : At(p, "observing") /\ At(q, "observing") => p = q

(* All this until an update goes by a marker that is too far back.         *)
Fresh == FreshIn(rows) /\ FreshPlan /\ OneObserves /\ \A p \in Party : FreshAt(p)
FInv  == ~rewound => Fresh

(* What a step of one party leaves of the others' updates.                 *)
OthersStay(p) == \A q \in Party : q # p => update'[q] = update[q]

(* A step of an update keeps the messages it was given.                    *)
LEMMA GivesKeeps ==
  ASSUME UpdatesOK, NEW p \in Party, NEW stage, NEW source, Gives(p, stage, source)
  PROVE  /\ update'[p].stage = stage /\ update'[p].source = source
         /\ update'[p].upTo = update[p].upTo
         /\ OthersStay(p)
BY DEF UpdatesOK, Gives, OthersStay

LEMMA EndsIdle ==
  ASSUME UpdatesOK, NEW p \in Party, Ends(p) PROVE Idle(p)' /\ OthersStay(p)
BY DEF UpdatesOK, Ends, Idle, OthersStay

LEMMA LeaveKeeps ==
  ASSUME UpdatesOK, NEW p \in Party, Leave(p)
  PROVE  /\ \/ Idle(p)'
            \/ /\ update'[p].stage = "packing" /\ update'[p].source = {}
               /\ update'[p].upTo = update[p].upTo
         /\ OthersStay(p)
BY GivesKeeps, EndsIdle DEF Leave, Goes

LEMMA IdleFact ==
  ASSUME NEW p \in Party, Idle(p)
  PROVE  update[p].stage = "idle" /\ update[p].source = {} /\ update[p].upTo = 0
BY DEF Idle, NoUpdate

LEMMA OwnedTypes ==
  ASSUME TInv
  PROVE  /\ rows \in SUBSET RowSet /\ Owned(rows) \in SUBSET RowSet
         /\ plan.snapshot \in SUBSET RowSet /\ Owned(plan.snapshot) \in SUBSET RowSet
         /\ plan.eligible \in SUBSET RowSet
         /\ \A p \in Party : update[p].source \in SUBSET RowSet
BY DEF TInv, TableOK, UpdatesOK, UpdateSet, Owned

(* More rows, no lower marker.                                             *)
LEMMA MarkerGrows ==
  ASSUME NEW S \in SUBSET RowSet, NEW R \in SUBSET S
  PROVE  Marker(R) <= Marker(S) /\ Marker(R) \in Nat /\ Marker(S) \in Nat
<1>1. Marker(R) \in Nat /\ Marker(S) \in Nat
  BY MarkerFact
<1>2. CASE R = {}
  BY <1>1, <1>2, MarkerFact
<1>3. CASE R # {}
  <2>1. PICK r \in R : r.end = Marker(R)
    BY <1>3, MarkerFact
  <2>2. r.end <= Marker(S)
    BY MarkerFact
  <2> QED BY <1>1, <2>1, <2>2
<1> QED BY <1>2, <1>3

LEMMA FreshEmpty == FreshIn({}) /\ Marker(Owned({})) = 0
BY DEF FreshIn, Owned, Marker

(* A step of an update that leaves the rows alone.                         *)
LEMMA FreshMove ==
  ASSUME TInv, Fresh, NEW p \in Party, OthersStay(p), UNCHANGED <<rows, plan>>,
         update'[p].stage # "observing",
         update'[p].stage = "reflecting" => update'[p].source = Owned(rows)
  PROVE  Fresh'
<1>1. FreshIn(rows)' /\ FreshPlan'
  BY DEF Fresh, FreshIn, FreshPlan
<1>2. OneObserves'
  BY DEF Fresh, OneObserves, At, OthersStay
<1>3. ASSUME NEW q \in Party, q # p PROVE FreshAt(q)'
  BY <1>3 DEF Fresh, FreshAt, At, OthersStay
<1>4. FreshAt(p)'
  <2>1. /\ Marker(Owned(rows)) <= Marker(Owned(rows))
        /\ \A r \in Owned(rows), m \in 1..MaxMessages :
             <<"own", m>> \in r.tells => m <= Marker(Owned(rows))
    <3>1. Marker(Owned(rows)) \in Nat
      BY OwnedTypes, MarkerFact
    <3> QED BY <3>1 DEF Fresh, FreshIn, Owned
  <2> QED BY <2>1 DEF FreshAt, At
<1> QED BY <1>1, <1>2, <1>3, <1>4 DEF Fresh

LEMMA MovesFresh ==
  ASSUME TInv, FInv, NEW p \in Party,
         \/ ObserverFails(p) \/ NothingToObserve(p) \/ Reread(p) \/ ReflectorFails(p)
         \/ RefreshPack(p) \/ Evict(p)
         \/ AppendObservation(p) /\ UNCHANGED tableVars
         \/ ReplaceSession(p) /\ UNCHANGED <<tableVars, rewound>>
  PROVE  FInv'
<1>1. UNCHANGED <<rows, plan, rewound>>
  BY DEF ObserverFails, NothingToObserve, Reread, ReflectorFails, RefreshPack, Evict,
         AppendObservation, ReplaceSession, tableVars, pruneVars, history
<1>2. /\ OthersStay(p) /\ update'[p].stage # "observing"
      /\ update'[p].stage = "reflecting" => update'[p].source = Owned(rows)
  <2>0. UpdatesOK
    BY DEF TInv
  <2>1. ASSUME Leave(p) \/ Ends(p)
        PROVE  OthersStay(p) /\ update'[p].stage \in {"idle", "packing"}
    BY <2>0, <2>1, LeaveKeeps, EndsIdle DEF Idle, NoUpdate
  <2>2. ASSUME NEW s \in {"rereading", "packing", "evicting"}, Goes(p, s)
        PROVE  OthersStay(p) /\ update'[p].stage = s
    BY <2>0, <2>2, GivesKeeps DEF Goes
  <2>3. CASE Reread(p)
    <3>1. PICK read \in {Owned(rows), {}} :
            IF Cardinality(read) >= ReflectAt THEN Gives(p, "reflecting", read) ELSE Leave(p)
      BY <2>3 DEF Reread
    <3>2. CASE Cardinality(read) >= ReflectAt
      <4>1. read = Owned(rows)
        <5>1. SUFFICES ASSUME read = {} PROVE FALSE
          BY <3>1
        <5>2. Cardinality(read) = 0
          BY <5>1, FS_EmptySet
        <5> QED BY <5>2, <3>2, MemoryAssumption
      <4> QED BY <2>0, <3>1, <3>2, <4>1, GivesKeeps
    <3> QED BY <2>1, <3>1, <3>2
  <2> QED BY <2>1, <2>2, <2>3 DEF ObserverFails, NothingToObserve, ReflectorFails, RefreshPack,
                                  Evict, AppendObservation, ReplaceSession
<1> QED BY <1>1, <1>2, FreshMove DEF FInv

LEMMA BeginFresh ==
  ASSUME TInv, FInv, NEW p \in Party, NEW reason, Begin(p, reason)
  PROVE  FInv'
<1> SUFFICES ASSUME ~rewound' PROVE Fresh'
  BY DEF FInv
<1>1. UNCHANGED <<rows, plan>>
  BY DEF Begin, tableVars, pruneVars
<1>2. PICK got \in BOOLEAN :
        /\ update' = [update EXCEPT ![p] = Begun(p, reason, got)]
        /\ rewound' = (rewound \/ (~got /\ Owned(rows) # {}) \/ \E q \in Party : At(q, "observing"))
  BY DEF Begin, Begun
<1> DEFINE mark == IF got THEN Marker(Owned(rows)) ELSE 0
<1>3. /\ update'[p].stage = IF 1 + mark > Said THEN "rereading" ELSE "observing"
      /\ update'[p].tail = 1 + mark /\ OthersStay(p)
  BY <1>2 DEF TInv, UpdatesOK, OthersStay, Begun
<1>4. Fresh /\ \A q \in Party : ~At(q, "observing")
  BY <1>2 DEF FInv
<1>5. mark = Marker(Owned(rows)) /\ mark \in Nat
  <2>1. got \/ Owned(rows) = {}
    BY <1>2
  <2>2. Owned(rows) \in SUBSET RowSet
    BY OwnedTypes
  <2>3. Marker(Owned(rows)) \in Nat /\ (Owned(rows) = {} => Marker(Owned(rows)) = 0)
    BY <2>2, MarkerFact
  <2> QED BY <2>1, <2>3
<1> HIDE DEF mark
<1>6. FreshIn(rows)' /\ FreshPlan'
  BY <1>1, <1>4 DEF Fresh, FreshIn, FreshPlan
<1>7. OneObserves'
  BY <1>3, <1>4 DEF OneObserves, At, OthersStay
<1>8. ASSUME NEW q \in Party, q # p PROVE FreshAt(q)'
  BY <1>1, <1>3, <1>4, <1>8 DEF Fresh, FreshAt, At, OthersStay
<1>9. FreshAt(p)'
  BY <1>1, <1>3, <1>5 DEF FreshAt, At
<1> QED BY <1>6, <1>7, <1>8, <1>9 DEF Fresh

(* The marker moves on to the last message observed.                       *)
LEMMA AppendFresh ==
  ASSUME TInv, FInv, NEW p \in Party, AppendObservation(p), ~UNCHANGED tableVars
  PROVE  FInv'
<1> SUFFICES ASSUME ~rewound' PROVE Fresh'
  BY DEF FInv
<1> DEFINE new == Row("own", {"own"} \X Shown(p), update[p].upTo)
           old == Marker(Owned(rows))
           mark == Marker(Owned(rows'))
<1>1. At(p, "observing") /\ Goes(p, "rereading") /\ UNCHANGED <<plan, rewound>>
  BY DEF AppendObservation, pruneVars
<1>2. rows' = rows \cup {new}
  BY DEF AppendObservation, Written
<1>3. /\ new.owner = "own" /\ new.end = update[p].upTo
      /\ \A m : <<"own", m>> \in new.tells <=> m \in Shown(p)
  BY DEF Row
<1>4. update'[p].stage = "rereading" /\ OthersStay(p)
  BY <1>1, GivesKeeps DEF Goes, TInv
<1>5. TInv'
  BY AppendTInv
<1>6. rows \in SUBSET RowSet /\ rows' \in SUBSET RowSet
  BY <1>5 DEF TInv, TableOK
<1> HIDE DEF new
<1>7. Owned(rows') = Owned(rows) \cup {new} /\ Owned(rows') \in SUBSET RowSet
  BY <1>2, <1>3, <1>6 DEF Owned
<1>8. /\ old \in Nat /\ mark \in Nat /\ old <= mark /\ update[p].upTo <= mark
  <2>1. Owned(rows) \in SUBSET Owned(rows')
    BY <1>7
  <2>2. old <= mark /\ old \in Nat /\ mark \in Nat
    BY <1>7, <2>1, MarkerGrows
  <2>3. new.end <= mark
    BY <1>7, MarkerFact
  <2> QED BY <1>3, <2>2, <2>3
<1>9. Fresh
  BY <1>1 DEF FInv
<1>10. \A m \in Shown(p) : m > old /\ m <= update[p].upTo /\ m \in Nat
  <2>1. old < update[p].tail
    BY <1>1, <1>9 DEF Fresh, FreshAt
  <2>2. update[p].tail \in Nat /\ update[p].upTo \in Nat
    BY DEF TInv, UpdatesOK, UpdateSet
  <2>3. \A m \in Shown(p) : m \in update[p].tail..update[p].upTo
    BY DEF Shown, Unobserved
  <2> HIDE DEF old
  <2> QED BY <1>8, <2>1, <2>2, <2>3
<1>11. \A r \in rows, m \in 1..MaxMessages :
         <<"own", m>> \in r.tells => r.owner = "own" /\ m <= old
  BY <1>9 DEF Fresh, FreshIn
<1> HIDE DEF old, mark
<1>12. \A r \in rows', m \in 1..MaxMessages :
         <<"own", m>> \in r.tells => r.owner = "own" /\ m <= mark
  <2> SUFFICES ASSUME NEW r \in rows', NEW m \in 1..MaxMessages, <<"own", m>> \in r.tells
               PROVE  r.owner = "own" /\ m <= mark
    OBVIOUS
  <2>1. CASE r \in rows
    BY <1>8, <1>11, <2>1
  <2>2. CASE r = new
    BY <1>3, <1>8, <1>10, <2>2, UnobservedFact DEF TInv
  <2> QED BY <1>2, <2>1, <2>2
<1>13. \A r, s \in rows', m \in 1..MaxMessages :
         <<"own", m>> \in r.tells /\ <<"own", m>> \in s.tells => r = s
  <2>1. \A r \in rows, m \in 1..MaxMessages : <<"own", m>> \in r.tells => m \notin Shown(p)
    BY <1>8, <1>10, <1>11
  <2>2. \A r, s \in rows, m \in 1..MaxMessages :
          <<"own", m>> \in r.tells /\ <<"own", m>> \in s.tells => r = s
    BY <1>9 DEF Fresh, FreshIn
  <2> QED BY <1>2, <1>3, <2>1, <2>2
<1>14. FreshIn(rows')
  BY <1>12, <1>13 DEF FreshIn, mark
<1>15. FreshPlan'
  <2>1. FreshIn(plan.snapshot) /\ Marker(Owned(plan.snapshot)) <= old
    BY <1>9 DEF Fresh, FreshPlan, old
  <2>2. Marker(Owned(plan.snapshot)) \in Nat
    BY OwnedTypes, MarkerFact
  <2>3. Marker(Owned(plan.snapshot)) <= mark
    BY <1>8, <2>1, <2>2
  <2> QED BY <1>1, <2>1, <2>3 DEF FreshPlan, FreshIn, mark
<1>16. OneObserves'
  BY <1>4, <1>9 DEF Fresh, OneObserves, At, OthersStay
<1>17. FreshAt(p)'
  BY <1>4 DEF FreshAt, At
<1>18. ASSUME NEW q \in Party, q # p PROVE FreshAt(q)'
  <2>1. update'[q] = update[q] /\ ~At(q, "observing")
    BY <1>1, <1>4, <1>9, <1>18 DEF OthersStay, Fresh, OneObserves
  <2>2. ASSUME At(q, "reflecting")
        PROVE  /\ Marker(update[q].source) <= mark
               /\ \A r \in update[q].source, m \in 1..MaxMessages :
                    <<"own", m>> \in r.tells => m <= mark
    <3>1. /\ Marker(update[q].source) <= old
          /\ \A r \in update[q].source, m \in 1..MaxMessages :
               <<"own", m>> \in r.tells => m <= old
      BY <1>9, <2>2 DEF Fresh, FreshAt, old
    <3>2. Marker(update[q].source) \in Nat
      BY OwnedTypes, MarkerFact
    <3> QED BY <1>8, <3>1, <3>2
  <2> QED BY <2>1, <2>2 DEF FreshAt, At, mark
<1> QED BY <1>14, <1>15, <1>16, <1>17, <1>18 DEF Fresh, FreshIn

(* The row that replaces the session's tells what the reflector was given. *)
LEMMA ReplaceFresh ==
  ASSUME TInv, FInv, NEW p \in Party, ReplaceSession(p), ~UNCHANGED <<tableVars, rewound>>
  PROVE  FInv'
<1> SUFFICES ASSUME ~rewound' PROVE Fresh'
  BY DEF FInv
<1>1. At(p, "reflecting") /\ Goes(p, "packing") /\ UNCHANGED plan
  BY DEF ReplaceSession, pruneVars
<1>2. PICK last \in update[p].source :
        /\ rows' = (rows \ Owned(rows)) \cup {Row("own", Tells(update[p].source), last.end)}
        /\ rewound' = (rewound \/ Rewinds)
  BY DEF ReplaceSession, Written
<1> DEFINE new == Row("own", Tells(update[p].source), last.end)
           old == Marker(Owned(rows))
           mark == Marker(Owned(rows'))
<1>3. /\ new.owner = "own" /\ new.end = last.end /\ new.tells = Tells(update[p].source)
  BY DEF Row
<1>4. update'[p].stage = "packing" /\ OthersStay(p)
  BY <1>1, GivesKeeps DEF Goes, TInv
<1>5. rows' = (rows \ Owned(rows)) \cup {new} /\ rows' \in SUBSET RowSet
  <2>1. TInv'
    BY ReplaceTInv
  <2> QED BY <1>2, <2>1 DEF TInv, TableOK
<1>6. Fresh /\ ~(mark < old)
  <2>1. ~rewound /\ ~Rewinds
    BY <1>2
  <2> QED BY <2>1 DEF FInv, Rewinds
<1> HIDE DEF new
<1>7. Owned(rows') = {new} /\ Owned(rows') \in SUBSET RowSet /\ Owned(rows) \in SUBSET RowSet
  BY <1>3, <1>5, OwnedTypes DEF Owned
<1>8. old \in Nat /\ mark \in Nat /\ mark = old
  <2>1. old \in Nat /\ mark \in Nat
    BY <1>7, MarkerFact
  <2>2. new.end = mark
    BY <1>7, MarkerFact
  <2>3. last.end <= Marker(update[p].source) /\ Marker(update[p].source) \in Nat
    BY OwnedTypes, MarkerFact
  <2>4. Marker(update[p].source) <= old
    BY <1>1, <1>6 DEF Fresh, FreshAt
  <2> HIDE DEF old, mark
  <2> QED BY <1>3, <1>6, <2>1, <2>2, <2>3, <2>4
<1>9. \A m \in 1..MaxMessages : <<"own", m>> \in new.tells => m <= old
  BY <1>1, <1>3, <1>6 DEF Tells, Fresh, FreshAt
<1>10. \A r \in rows \ Owned(rows), m \in 1..MaxMessages : <<"own", m>> \notin r.tells
  BY <1>6 DEF Fresh, FreshIn, Owned
<1> HIDE DEF old, mark
<1>11. \A r \in rows', m \in 1..MaxMessages : <<"own", m>> \in r.tells => r = new /\ m <= mark
  BY <1>5, <1>8, <1>9, <1>10
<1>12. FreshIn(rows')
  BY <1>3, <1>11 DEF FreshIn, mark
<1>13. FreshPlan'
  <2>1. FreshIn(plan.snapshot) /\ Marker(Owned(plan.snapshot)) <= mark
    BY <1>6, <1>8 DEF Fresh, FreshPlan, old
  <2> QED BY <1>1, <2>1 DEF FreshPlan, FreshIn, mark
<1>14. OneObserves' /\ FreshAt(p)'
  BY <1>4, <1>6 DEF Fresh, OneObserves, At, OthersStay, FreshAt
<1>15. ASSUME NEW q \in Party, q # p PROVE FreshAt(q)'
  <2>1. update'[q] = update[q] /\ FreshAt(q)
    BY <1>4, <1>6, <1>15 DEF OthersStay, Fresh
  <2> QED BY <1>8, <2>1 DEF FreshAt, At, mark, old
<1> QED BY <1>12, <1>13, <1>14, <1>15 DEF Fresh, FreshIn

(* Steps that leave the session's updates alone.                           *)
LEMMA StillFresh ==
  ASSUME TInv, FInv, UNCHANGED <<rows, update>>, UNCHANGED plan \/ plan' = NoPlan,
         rewound' = rewound
  PROVE  FInv'
<1> SUFFICES ASSUME Fresh, ~rewound' PROVE Fresh'
  BY DEF FInv
<1>1. FreshPlan'
  <2>1. CASE plan' = NoPlan
    <3>1. plan'.snapshot = {}
      BY <2>1 DEF NoPlan
    <3>2. Marker(Owned(rows)) \in Nat
      BY OwnedTypes, MarkerFact
    <3>3. FreshIn(plan'.snapshot) /\ Marker(Owned(plan'.snapshot)) <= Marker(Owned(rows))
      BY <3>1, <3>2, FreshEmpty
    <3> QED BY <3>3 DEF FreshPlan, FreshIn
  <2>2. CASE UNCHANGED plan
    BY <2>2 DEF Fresh, FreshPlan, FreshIn
  <2> QED BY <2>1, <2>2
<1> QED BY <1>1 DEF Fresh, FreshIn, OneObserves, FreshAt, At

LEMMA PeerFresh ==
  ASSUME TInv, FInv, PeerAppends PROVE FInv'
<1> SUFFICES ASSUME Fresh, ~rewound' PROVE Fresh'
  BY DEF FInv, PeerAppends, history
<1> DEFINE new == Row("peer", {<<"peer", rowId + 1>>}, 0)
<1>1. rows' = rows \cup {new} /\ UNCHANGED <<update, plan>>
  BY DEF PeerAppends, Written, updateVars, pruneVars
<1>2. new.owner = "peer" /\ new.tells = {<<"peer", rowId + 1>>}
  BY DEF Row
<1> HIDE DEF new
<1>3. Owned(rows') = Owned(rows)
  BY <1>1, <1>2 DEF Owned
<1>4. \A m : <<"own", m>> \notin new.tells
  BY <1>2
<1>5. FreshIn(rows')
  <2>1. \A r \in rows', m \in 1..MaxMessages : <<"own", m>> \in r.tells => r \in rows
    BY <1>1, <1>4
  <2> QED BY <1>3, <2>1 DEF Fresh, FreshIn
<1>6. FreshPlan'
  BY <1>1, <1>3 DEF Fresh, FreshPlan, FreshIn
<1>7. OneObserves' /\ \A p \in Party : FreshAt(p)'
  BY <1>1, <1>3 DEF Fresh, OneObserves, FreshAt, At
<1> QED BY <1>5, <1>6, <1>7 DEF Fresh, FreshIn

LEMMA PruneReadsFresh ==
  ASSUME TInv, FInv, PruneReads PROVE FInv'
<1> SUFFICES ASSUME Fresh, ~rewound' PROVE Fresh'
  BY DEF FInv, PruneReads, history
<1>1. UNCHANGED <<rows, update>> /\ plan'.snapshot = rows
  BY DEF PruneReads, tableVars, updateVars
<1>2. Marker(Owned(rows)) \in Nat
  BY OwnedTypes, MarkerFact
<1>3. FreshPlan'
  BY <1>1, <1>2 DEF Fresh, FreshPlan, FreshIn
<1> QED BY <1>1, <1>3 DEF Fresh, FreshIn, OneObserves, FreshAt, At

(* No row of the session was folded, and the snapshot's rows of the session*)
(* end where the table's did.                                              *)
LEMMA ReplaceAllFresh ==
  ASSUME TInv, FInv, ReplaceAll PROVE FInv'
<1> SUFFICES ASSUME ~rewound' PROVE Fresh'
  BY DEF FInv
<1>1. UNCHANGED update /\ plan' = NoPlan
      /\ rewound' = (rewound \/ Rewinds \/ Owned(plan.eligible) # {})
  BY DEF ReplaceAll, updateVars
<1>2. PICK answered \in SUBSET plan.eligible :
        rows' = (plan.snapshot \ plan.eligible) \cup {Row("global", Tells(answered), 0)}
  BY DEF ReplaceAll, Written, Pruned
<1>3. ~rewound /\ ~Rewinds /\ Owned(plan.eligible) = {}
  BY <1>1
<1> DEFINE new == Row("global", Tells(answered), 0)
           old == Marker(Owned(rows))
           mark == Marker(Owned(rows'))
<1>4. new.owner = "global" /\ new.tells = Tells(answered)
  BY DEF Row
<1>5. rows' = (plan.snapshot \ plan.eligible) \cup {new}
  BY <1>2
<1> HIDE DEF new
<1>6. Fresh /\ FreshIn(plan.snapshot) /\ ~(mark < old)
  BY <1>3 DEF FInv, Fresh, FreshPlan, Rewinds
<1>7. Owned(rows') = Owned(plan.snapshot)
  BY <1>3, <1>4, <1>5 DEF Owned
<1>8. old \in Nat /\ mark \in Nat /\ mark = old
  <2>1. old \in Nat /\ mark \in Nat
    BY <1>7, OwnedTypes, MarkerFact
  <2>2. mark <= old
    BY <1>6, <1>7 DEF Fresh, FreshPlan
  <2> HIDE DEF old, mark
  <2> QED BY <1>6, <2>1, <2>2
<1>9. \A m \in 1..MaxMessages : <<"own", m>> \notin new.tells
  <2> SUFFICES ASSUME NEW m \in 1..MaxMessages, NEW r \in answered, <<"own", m>> \in r.tells
               PROVE  FALSE
    BY <1>4 DEF Tells
  <2>2. r \in plan.snapshot
    BY <1>2 DEF TInv, TableOK, IdsGrow
  <2>3. r.owner = "own"
    BY <1>6, <2>2 DEF FreshIn
  <2> QED BY <1>2, <1>3, <2>3 DEF Owned
<1>10. FreshIn(rows')
  <2>1. \A r \in rows', m \in 1..MaxMessages : <<"own", m>> \in r.tells => r \in plan.snapshot
    BY <1>5, <1>9
  <2> QED BY <1>6, <1>7, <2>1 DEF FreshIn
<1> HIDE DEF old, mark
<1>11. FreshPlan'
  <2>1. plan'.snapshot = {}
    BY <1>1 DEF NoPlan
  <2>2. FreshIn(plan'.snapshot) /\ Marker(Owned(plan'.snapshot)) <= mark
    BY <1>8, <2>1, FreshEmpty
  <2> QED BY <2>2 DEF FreshPlan, FreshIn, mark
<1>12. OneObserves' /\ \A p \in Party : FreshAt(p)'
  BY <1>1, <1>6, <1>8 DEF Fresh, OneObserves, FreshAt, At, mark, old
<1> QED BY <1>10, <1>11, <1>12 DEF Fresh, FreshIn

LEMMA NextFresh == TInv /\ FInv /\ [Next]_vars => FInv'
<1> SUFFICES ASSUME TInv, FInv, [Next]_vars PROVE FInv'
  OBVIOUS
<1>1. ASSUME NEW p \in Party, Update(p) PROVE FInv'
  <2>1. CASE ReplaceSession(p)
    BY <2>1, MovesFresh, ReplaceFresh
  <2>2. CASE AppendObservation(p)
    BY <2>2, MovesFresh, AppendFresh
  <2> QED BY <1>1, <2>1, <2>2, MovesFresh, BeginFresh DEF Update
<1>2. ASSUME NEW role, Say(role) PROVE FInv'
  BY <1>2, StillFresh DEF Say, tableVars, updateVars, pruneVars
<1>3. CASE Resume
  BY <1>3, StillFresh DEF Resume, tableVars, updateVars, pruneVars
<1>4. CASE PruneFails
  BY <1>4, StillFresh DEF PruneFails, tableVars, updateVars, history
<1>5. CASE UNCHANGED vars
  BY <1>5, StillFresh DEF vars, tableVars, updateVars, pruneVars, history
<1> QED BY <1>1, <1>2, <1>3, <1>4, <1>5, PeerFresh, PruneReadsFresh, ReplaceAllFresh DEF Next

LEMMA InitFresh == Init => FInv
<1> SUFFICES ASSUME Init PROVE Fresh
  BY DEF FInv
<1>1. rows = {} /\ plan.snapshot = {} /\ \A p \in Party : update[p].stage = "idle"
  BY DEF Init, NoPlan, NoUpdate
<1>2. FreshIn(rows) /\ FreshPlan
  BY <1>1, FreshEmpty DEF FreshPlan
<1> QED BY <1>1, <1>2 DEF Fresh, OneObserves, FreshAt, At

(* No message is observed twice unless an update went by a marker that was *)
(* too far back, for a cause that the model names.                         *)
THEOREM NeverTwice == Spec => []ObservedOnce
<1>1. FInv => ObservedOnce
  <2> SUFFICES ASSUME FInv, ~rewound, NEW m \in 1..MaxMessages
               PROVE  Cardinality({r \in rows : <<"own", m>> \in r.tells}) <= 1
    BY DEF ObservedOnce
  <2> DEFINE S == {r \in rows : <<"own", m>> \in r.tells}
  <2>1. \A r, s \in S : r = s
    BY DEF FInv, Fresh, FreshIn
  <2>2. CASE S = {}
    <3>1. Cardinality(S) = Cardinality({})
      BY ONLY <2>2
    <3>2. Cardinality({}) = 0
      BY FS_EmptySet
    <3> QED BY ONLY <3>1, <3>2
  <2>3. CASE S # {}
    <3>1. PICK r \in S : TRUE
      BY <2>3
    <3>2. S = {r}
      BY <2>1, <3>1
    <3>3. Cardinality(S) = 1
      BY <3>2, FS_Singleton
    <3> QED BY <3>3
  <2> QED BY <2>2, <2>3
<1> QED BY <1>1, InitTInv, NextTInv, InitFresh, NextFresh, PTL DEF Spec

-----------------------------------------------------------------------------
(* What left the wire.                                                     *)

(* What memory tells of the session, or need not tell.                     *)
Known == Messages(Tells(rows)) \cup excused

(* Everything up to the end of a row of the session is known, be it in the *)
(* table or in what a prune remembers ...                                  *)
RowsDrained == \A r \in Owned(rows) \cup Owned(plan.snapshot) : 1..r.end \subseteq Known

(* ... and so is all an update has passed over; what came since it began is*)
(* excused; once it evicts, all it was given is in the pack.               *)
DrainedAt(p) ==
  /\ ~Idle(p) => update[p].upTo + 1 .. Said \subseteq excused
  /\ \A r \in update[p].source : 1..r.end \subseteq Known
  /\ At(p, "observing") => 1..update[p].tail - 1 \subseteq Known
  /\ update[p].stage \in {"rereading", "reflecting", "packing"} =>
       1..update[p].upTo \subseteq Known
  /\ At(p, "evicting") => 1..update[p].upTo \subseteq pack \cup excused

DInv ==
  /\ RowsDrained /\ pack \subseteq Known /\ \A p \in Party : DrainedAt(p)
  /\ DropsAreRendered

(* What is rendered or excused stays so.                                   *)
RenderedStays == excused \subseteq excused' /\ pack \cup excused \subseteq pack' \cup excused'

LEMMA IdleDrained == ASSUME NEW p \in Party, Idle(p) PROVE DrainedAt(p)
BY DEF Idle, NoUpdate, DrainedAt, At

LEMMA IdleDrainedNext == ASSUME NEW p \in Party, Idle(p)' PROVE DrainedAt(p)'
BY DEF Idle, NoUpdate, DrainedAt, At

(* An update that does not move.                                           *)
LEMMA DrainedStays ==
  ASSUME NEW p \in Party, DrainedAt(p), update'[p] = update[p], Known \subseteq Known',
         UNCHANGED transcript, RenderedStays
  PROVE  DrainedAt(p)'
<1>1. Said' = Said
  BY DEF Said
<1> QED BY <1>1 DEF DrainedAt, RenderedStays, Idle, At

(* The two places of a row's message.                                      *)
LEMMA KnownWithLoses ==
  ASSUME Excuse(Loses) PROVE Known \subseteq Known' /\ excused \subseteq excused'
BY DEF Known, Messages, Excuse, Loses

LEMMA KnownGrows ==
  ASSUME rows \subseteq rows', excused \subseteq excused' PROVE Known \subseteq Known'
BY DEF Known, Messages, Tells

(* A step that moves one update and leaves the wire and the pack.          *)
LEMMA StepDrained ==
  ASSUME TInv, DInv, NEW p \in Party, OthersStay(p), UNCHANGED <<transcript, horizon, pack, plan>>,
         Known \subseteq Known', excused \subseteq excused',
         \A r \in Owned(rows') : 1..r.end \subseteq Known',
         DrainedAt(p)'
  PROVE  DInv'
<1>1. RenderedStays
  BY DEF RenderedStays
<1>2. \A q \in Party : DrainedAt(q)'
  BY <1>1, DrainedStays DEF OthersStay, DInv
<1>3. RowsDrained' /\ (pack \subseteq Known)'
  BY DEF DInv, RowsDrained
<1>4. Dropped' = Dropped
  BY DEF Dropped
<1>5. DropsAreRendered'
  BY <1>4 DEF DInv, DropsAreRendered
<1> QED BY <1>2, <1>3, <1>5 DEF DInv

(* What an update leaves once everything it was given is known.            *)
LEMMA PassedOver ==
  ASSUME NEW p \in Party, DrainedAt(p), ~Idle(p), UNCHANGED transcript,
         excused \subseteq excused',
         \/ Idle(p)'
         \/ /\ update'[p].stage \in {"rereading", "packing"} /\ update'[p].source = {}
            /\ update'[p].upTo = update[p].upTo
            /\ 1..update[p].upTo \subseteq Known'
  PROVE  DrainedAt(p)'
<1>1. CASE Idle(p)'
  BY <1>1, IdleDrainedNext
<1>2. CASE ~Idle(p)'
  <2>1. Said' = Said
    BY DEF Said
  <2> QED BY <1>2, <2>1 DEF DrainedAt, At
<1> QED BY <1>1, <1>2

LEMMA BusyAt == ASSUME NEW p \in Party, NEW s \in Stages \ {"idle"}, At(p, s) PROVE ~Idle(p)
BY DEF At, Idle, NoUpdate, Stages

LEMMA BeginDrained ==
  ASSUME TInv, DInv, NEW p \in Party, NEW reason, Begin(p, reason) PROVE DInv'
<1>1. UNCHANGED <<talkVars, tableVars, pruneVars, excused>>
  BY DEF Begin
<1>2. PICK got \in BOOLEAN : update' = [update EXCEPT ![p] = Begun(p, reason, got)]
  BY DEF Begin, Begun
<1> DEFINE mark == IF got THEN Marker(Owned(rows)) ELSE 0
<1>3. /\ update'[p].stage = IF 1 + mark > Said THEN "rereading" ELSE "observing"
      /\ update'[p].tail = 1 + mark /\ update'[p].upTo = Said /\ update'[p].source = {}
      /\ OthersStay(p)
  BY <1>2 DEF TInv, UpdatesOK, OthersStay, Begun
<1>4. Known' = Known /\ Said' = Said /\ UNCHANGED <<rows, transcript, horizon, pack, plan>>
  BY <1>1 DEF Known, talkVars, tableVars, pruneVars, Said
<1>5. mark \in Nat /\ 1..mark \subseteq Known
  <2>1. Marker(Owned(rows)) \in Nat /\ 1..Marker(Owned(rows)) \subseteq Known
    <3>0. Owned(rows) \in SUBSET RowSet
      BY OwnedTypes
    <3>1. CASE Owned(rows) = {}
      <4>1. Marker(Owned(rows)) = 0
        BY <3>1, <3>0, MarkerFact
      <4> QED BY <4>1
    <3>2. CASE Owned(rows) # {}
      <4>1. PICK r \in Owned(rows) : r.end = Marker(Owned(rows))
        BY <3>0, <3>2, MarkerFact
      <4>2. 1..r.end \subseteq Known
        BY DEF DInv, RowsDrained
      <4> QED BY <3>0, <4>1, <4>2, MarkerFact
    <3> QED BY <3>1, <3>2
  <2> QED BY <2>1
<1>6. Said \in Nat
  BY MessageFact DEF TInv, TalkOK
<1> HIDE DEF mark
<1>7. DrainedAt(p)'
  <2>1. 1 + mark > Said => 1..Said \subseteq Known
    BY <1>5, <1>6
  <2>2. 1..(1 + mark) - 1 \subseteq Known /\ Said + 1..Said = {}
    BY <1>5, <1>6
  <2> QED BY <1>3, <1>4, <2>1, <2>2 DEF DrainedAt, At
<1> QED BY <1>1, <1>3, <1>4, <1>7, StepDrained DEF DInv, RowsDrained

(* The observer's ends without a row: the tail is excused.                 *)
LEMMA ObserverDrained ==
  ASSUME TInv, DInv, NEW p \in Party,
         \/ ObserverFails(p) \/ NothingToObserve(p)
         \/ AppendObservation(p) /\ UNCHANGED tableVars /\ Excuse(Unobserved(p))
  PROVE  DInv'
<1>1. /\ At(p, "observing") /\ (Leave(p) \/ Goes(p, "rereading"))
      /\ UNCHANGED <<talkVars, tableVars, pruneVars>> /\ Excuse(Unobserved(p))
  BY DEF ObserverFails, NothingToObserve, AppendObservation
<1>2. /\ \/ Idle(p)'
         \/ /\ update'[p].stage \in {"rereading", "packing"} /\ update'[p].source = {}
            /\ update'[p].upTo = update[p].upTo
      /\ OthersStay(p)
  BY <1>1, LeaveKeeps, GivesKeeps DEF TInv, Goes
<1>3. /\ Known \subseteq Known' /\ Unobserved(p) \subseteq Known' /\ excused \subseteq excused'
      /\ UNCHANGED <<rows, transcript, horizon, pack, plan>>
  BY <1>1 DEF Known, tableVars, talkVars, pruneVars, Excuse
<1>4. 1..update[p].tail - 1 \subseteq Known
  BY <1>1 DEF DInv, DrainedAt
<1>5. update[p].tail \in Nat /\ update[p].upTo \in Nat
  BY DEF TInv, UpdatesOK, UpdateSet
<1>6. 1..update[p].upTo \subseteq (1..update[p].tail - 1) \cup Unobserved(p)
  BY <1>5 DEF Unobserved
<1>7. 1..update[p].upTo \subseteq Known' /\ ~Idle(p)
  BY <1>1, <1>3, <1>4, <1>6, BusyAt DEF Stages
<1>8. DrainedAt(p)'
  BY <1>2, <1>3, <1>7, PassedOver DEF DInv
<1>9. \A r \in Owned(rows') : 1..r.end \subseteq Known'
  BY <1>3 DEF DInv, RowsDrained
<1> QED BY <1>2, <1>3, <1>8, <1>9, StepDrained

LEMMA RereadDrained ==
  ASSUME TInv, DInv, NEW p \in Party, Reread(p) PROVE DInv'
<1>1. At(p, "rereading") /\ UNCHANGED <<talkVars, tableVars, pruneVars, excused>>
  BY DEF Reread, history
<1>2. PICK read \in {Owned(rows), {}} : Gives(p, "reflecting", read) \/ Leave(p)
  BY DEF Reread
<1>3. Known' = Known /\ UNCHANGED <<rows, transcript, horizon, pack, plan>>
  BY <1>1 DEF Known, tableVars, talkVars, pruneVars
<1>4. 1..update[p].upTo \subseteq Known /\ ~Idle(p)
  BY <1>1, BusyAt DEF DInv, DrainedAt, At, Stages
<1>5. CASE Leave(p)
  <2>1. DrainedAt(p)' /\ OthersStay(p)
    BY <1>1, <1>3, <1>4, <1>5, LeaveKeeps, PassedOver DEF DInv, TInv
  <2> QED BY <1>1, <1>3, <2>1, StepDrained DEF DInv, RowsDrained
<1>6. CASE Gives(p, "reflecting", read)
  <2>1. /\ update'[p].stage = "reflecting" /\ update'[p].source = read
        /\ update'[p].upTo = update[p].upTo /\ OthersStay(p)
    BY <1>6, GivesKeeps DEF TInv
  <2>2. \A r \in read : 1..r.end \subseteq Known
    BY DEF DInv, RowsDrained
  <2>3. Said' = Said /\ update[p].upTo + 1 .. Said \subseteq excused
    BY <1>3, <1>4 DEF Said, DInv, DrainedAt
  <2>4. DrainedAt(p)'
    BY <1>1, <1>3, <1>4, <2>1, <2>2, <2>3 DEF DrainedAt, At
  <2> QED BY <1>1, <1>3, <2>1, <2>4, StepDrained DEF DInv, RowsDrained
<1> QED BY <1>2, <1>5, <1>6

(* The reflector replaces nothing.                                         *)
LEMMA ReflectorDrained ==
  ASSUME TInv, DInv, NEW p \in Party,
         ReflectorFails(p) \/ (ReplaceSession(p) /\ UNCHANGED <<tableVars, rewound, excused>>)
  PROVE  DInv'
<1>1. /\ At(p, "reflecting") /\ (Leave(p) \/ Goes(p, "packing"))
      /\ UNCHANGED <<talkVars, tableVars, pruneVars, excused>>
  BY DEF ReflectorFails, ReplaceSession, history
<1>2. /\ \/ Idle(p)'
         \/ /\ update'[p].stage \in {"rereading", "packing"} /\ update'[p].source = {}
            /\ update'[p].upTo = update[p].upTo
      /\ OthersStay(p)
  BY <1>1, LeaveKeeps, GivesKeeps DEF TInv, Goes
<1>3. Known' = Known /\ UNCHANGED <<rows, transcript, horizon, pack, plan>>
  BY <1>1 DEF Known, tableVars, talkVars, pruneVars
<1>4. 1..update[p].upTo \subseteq Known /\ ~Idle(p)
  BY <1>1, BusyAt DEF DInv, DrainedAt, At, Stages
<1>5. DrainedAt(p)'
  BY <1>1, <1>2, <1>3, <1>4, PassedOver DEF DInv
<1> QED BY <1>1, <1>2, <1>3, <1>5, StepDrained DEF DInv, RowsDrained

(* A new row tells what was shown to the observer; what was not is excused.*)
LEMMA AppendDrained ==
  ASSUME TInv, DInv, NEW p \in Party, AppendObservation(p),
         Written(rows \cup {Row("own", {"own"} \X Shown(p), update[p].upTo)}),
         Excuse(Unobserved(p) \ Shown(p))
  PROVE  DInv'
<1> DEFINE new == Row("own", {"own"} \X Shown(p), update[p].upTo)
<1>1. /\ At(p, "observing") /\ Goes(p, "rereading") /\ UNCHANGED <<talkVars, pruneVars>>
      /\ rows' = rows \cup {new}
  BY DEF AppendObservation, Written
<1>2. /\ new.owner = "own" /\ new.end = update[p].upTo
      /\ \A m \in Shown(p) : <<"own", m>> \in new.tells
  BY DEF Row
<1>3. /\ update'[p].stage = "rereading" /\ update'[p].source = {}
      /\ update'[p].upTo = update[p].upTo /\ OthersStay(p)
  BY <1>1, GivesKeeps DEF Goes, TInv
<1> HIDE DEF new
<1>4. /\ Known \subseteq Known' /\ excused \subseteq excused'
      /\ Unobserved(p) \ Shown(p) \subseteq excused'
      /\ UNCHANGED <<transcript, horizon, pack, plan>>
  BY <1>1, KnownGrows DEF Excuse, talkVars, pruneVars
<1>5. Shown(p) \subseteq Known'
  <2>1. rows' \in SUBSET RowSet
    BY AppendTInv DEF TInv, TableOK
  <2>2. Tells(rows') \in SUBSET Content
    BY <2>1, TellsIsContent
  <2>3. Shown(p) \subseteq 1..MaxMessages
    BY UnobservedFact DEF Shown, TInv
  <2>4. \A m \in Shown(p) : <<"own", m>> \in Tells(rows')
    BY <1>1, <1>2 DEF Tells
  <2>5. \A m \in Shown(p) : m \in Messages(Tells(rows'))
    BY <2>2, <2>3, <2>4, MessagesFact
  <2> QED BY <2>5 DEF Known
<1>6. 1..update[p].upTo \subseteq Known' /\ ~Idle(p)
  <2>1. Unobserved(p) \subseteq Known'
    BY <1>4, <1>5 DEF Known
  <2>2. 1..update[p].tail - 1 \subseteq Known
    BY <1>1 DEF DInv, DrainedAt
  <2>3. update[p].tail \in Nat /\ update[p].upTo \in Nat
    BY DEF TInv, UpdatesOK, UpdateSet
  <2>4. 1..update[p].upTo \subseteq (1..update[p].tail - 1) \cup Unobserved(p)
    BY <2>3 DEF Unobserved
  <2> QED BY <1>1, <1>4, <2>1, <2>2, <2>4, BusyAt DEF Stages
<1>7. DrainedAt(p)'
  BY <1>3, <1>4, <1>6, PassedOver DEF DInv
<1>8. \A r \in Owned(rows') : 1..r.end \subseteq Known'
  BY <1>1, <1>2, <1>4, <1>6 DEF Owned, DInv, RowsDrained
<1> QED BY <1>3, <1>4, <1>7, <1>8, StepDrained

(* The row that replaces the session's ends where one of its sources does. *)
LEMMA ReplaceDrained ==
  ASSUME TInv, DInv, NEW p \in Party, ReplaceSession(p), Excuse(Loses),
         NEW end \in {r.end : r \in update[p].source},
         Written((rows \ Owned(rows)) \cup {Row("own", Tells(update[p].source), end)})
  PROVE  DInv'
<1> DEFINE new == Row("own", Tells(update[p].source), end)
<1>1. /\ At(p, "reflecting") /\ Goes(p, "packing") /\ UNCHANGED <<talkVars, pruneVars>>
      /\ rows' = (rows \ Owned(rows)) \cup {new}
  BY DEF ReplaceSession, Written
<1>2. new.owner = "own" /\ new.end = end
  BY DEF Row
<1>3. /\ update'[p].stage = "packing" /\ update'[p].source = {}
      /\ update'[p].upTo = update[p].upTo /\ OthersStay(p)
  BY <1>1, GivesKeeps DEF Goes, TInv
<1> HIDE DEF new
<1>4. /\ Known \subseteq Known' /\ excused \subseteq excused'
      /\ UNCHANGED <<transcript, horizon, pack, plan>>
  BY <1>1, KnownWithLoses DEF talkVars, pruneVars
<1>5. 1..update[p].upTo \subseteq Known /\ ~Idle(p)
  BY <1>1, BusyAt DEF DInv, DrainedAt, At, Stages
<1>6. DrainedAt(p)'
  BY <1>3, <1>4, <1>5, PassedOver DEF DInv
<1>7. \A r \in Owned(rows') : 1..r.end \subseteq Known'
  <2>1. 1..end \subseteq Known
    BY DEF DInv, DrainedAt
  <2>2. \A r \in Owned(rows') : r = new
    BY <1>1 DEF Owned
  <2> QED BY <1>2, <1>4, <2>1, <2>2
<1> QED BY <1>3, <1>4, <1>6, <1>7, StepDrained

(* A rebuilt pack and what is excused with it render all that is known.    *)
LEMMA RebuiltFact ==
  ASSUME Rebuilt, UNCHANGED rows
  PROVE  /\ Known \subseteq Known' /\ Known \subseteq pack' \cup excused' /\ pack' \subseteq Known'
         /\ excused \subseteq excused'
BY DEF Rebuilt, Excuse, Known, Messages, Tells, Owned

LEMMA PackDrained ==
  ASSUME TInv, DInv, NEW p \in Party, RefreshPack(p) PROVE DInv'
<1>1. /\ At(p, "packing") /\ (Goes(p, "evicting") \/ Ends(p))
      /\ (Rebuilt \/ (UNCHANGED pack /\ Excuse(1..Said)))
      /\ UNCHANGED <<transcript, horizon, rows, plan>>
  BY DEF RefreshPack, tableVars, pruneVars
<1>2. /\ \/ Idle(p)'
         \/ /\ update'[p].stage = "evicting" /\ update'[p].source = {}
            /\ update'[p].upTo = update[p].upTo
      /\ OthersStay(p)
  BY <1>1, GivesKeeps, EndsIdle DEF Goes, TInv
<1>3. 1..update[p].upTo \subseteq Known /\ ~Idle(p) /\ pack \subseteq Known
  BY <1>1, BusyAt DEF DInv, DrainedAt, At, Stages
<1>4. update[p].upTo \in Nat /\ update[p].upTo <= Said /\ Said \in Nat /\ Dropped \subseteq 1..Said
  BY MessageFact, DroppedFact DEF TInv, TalkOK, UpdatesOK, UpdateSet, DroppedOK
<1>5. /\ Known \subseteq Known' /\ excused \subseteq excused' /\ pack' \subseteq Known'
      /\ RenderedStays /\ 1..update[p].upTo \subseteq pack' \cup excused'
  <2>1. CASE Rebuilt
    <3>1. pack \cup excused \subseteq Known
      BY <1>3 DEF Known
    <3> QED BY <1>1, <1>3, <2>1, <3>1, RebuiltFact DEF RenderedStays
  <2>2. CASE UNCHANGED pack /\ Excuse(1..Said)
    <3>1. Known \subseteq Known' /\ excused \subseteq excused' /\ 1..Said \subseteq excused'
      BY <1>1, <2>2, KnownGrows DEF Excuse
    <3> QED BY <1>3, <1>4, <2>2, <3>1 DEF RenderedStays
  <2> QED BY <1>1, <2>1, <2>2
<1>6. DrainedAt(p)'
  <2>1. CASE Idle(p)'
    BY <2>1, IdleDrainedNext
  <2>2. CASE ~Idle(p)'
    <3>1. Said' = Said /\ update[p].upTo + 1 .. Said \subseteq excused'
      BY <1>1, <1>3, <1>5 DEF Said, DInv, DrainedAt
    <3> QED BY <1>2, <1>5, <2>2, <3>1 DEF DrainedAt, At
  <2> QED BY <2>1, <2>2
<1>7. \A q \in Party : DrainedAt(q)'
  BY <1>1, <1>2, <1>5, <1>6, DrainedStays DEF OthersStay, DInv
<1>8. RowsDrained' /\ Dropped' = Dropped
  BY <1>1, <1>5 DEF DInv, RowsDrained, Dropped
<1>9. DropsAreRendered'
  BY <1>5, <1>8 DEF DInv, DropsAreRendered, RenderedStays
<1> QED BY <1>5, <1>7, <1>8, <1>9 DEF DInv

(* An eviction takes from the wire what the update was given, and what came*)
(* since.                                                                  *)
LEMMA EvictDrained ==
  ASSUME TInv, DInv, NEW p \in Party, Evict(p) PROVE DInv'
<1>1. /\ At(p, "evicting") /\ Ends(p)
      /\ UNCHANGED <<transcript, pack, rows, plan, excused>>
  BY DEF Evict, tableVars, pruneVars, history
<1>2. Idle(p)' /\ OthersStay(p) /\ ~Idle(p)
  BY <1>1, EndsIdle, BusyAt DEF TInv, Stages
<1>3. Known' = Known /\ RenderedStays
  BY <1>1 DEF Known, RenderedStays
<1>4. \A q \in Party : DrainedAt(q)'
  BY <1>1, <1>2, <1>3, DrainedStays, IdleDrainedNext DEF OthersStay, DInv
<1>5. RowsDrained' /\ (pack \subseteq Known)'
  BY <1>1, <1>3 DEF DInv, RowsDrained
<1>6. DropsAreRendered'
  <2>1. TInv'
    BY EvictTInv
  <2>2. Dropped' \subseteq 1..Said /\ Said \in Nat
    BY <1>1, <2>1, MessageFact, DroppedFactNext DEF TInv, TalkOK, DroppedOK, Said
  <2>3. /\ 1..update[p].upTo \subseteq pack \cup excused /\ update[p].upTo + 1 .. Said \subseteq excused
        /\ update[p].upTo \in Nat
    BY <1>1, <1>2 DEF DInv, DrainedAt, TInv, UpdatesOK, UpdateSet
  <2>4. 1..Said \subseteq (1..update[p].upTo) \cup (update[p].upTo + 1 .. Said)
    BY <2>2, <2>3
  <2>5. Dropped' \subseteq pack \cup excused
    BY <2>2, <2>3, <2>4
  <2> QED BY <1>1, <2>5 DEF DropsAreRendered
<1> QED BY <1>4, <1>5, <1>6 DEF DInv

(* A message more: what leaves the wire with it is excused.                *)
LEMMA SayDrained ==
  ASSUME TInv, DInv, NEW role \in {"user", "assistant", "toolResult"}, Say(role) PROVE DInv'
<1>1. /\ Idle("pass") /\ UNCHANGED <<pack, rows, update, plan>>
      /\ Dropped' \ Dropped \subseteq excused' /\ excused \subseteq excused'
      /\ ~Idle("compact") => Said + 1 \in excused'
  BY DEF Say, Excuse, tableVars, updateVars, pruneVars
<1>2. Said' = Said + 1 /\ Said \in Nat
  <2>1. PICK m : transcript' = Append(transcript, m)
    BY DEF Say
  <2>2. transcript \in Seq(Message)
    BY DEF TInv, TalkOK, ListOK
  <2> QED BY <2>1, <2>2, MessageFact DEF TInv, TalkOK, Said
<1>3. Known \subseteq Known'
  BY <1>1, KnownGrows
<1>4. ASSUME NEW p \in Party PROVE DrainedAt(p)'
  <2>1. CASE Idle(p)
    <3>1. Idle(p)'
      BY <1>1, <2>1 DEF Idle
    <3> QED BY <3>1, IdleDrainedNext
  <2>2. CASE ~Idle(p)
    <3>1. Said + 1 \in excused' /\ update'[p] = update[p]
      BY <1>1, <2>2 DEF Party
    <3>2. update[p].upTo + 1 .. Said \subseteq excused /\ update[p].upTo \in Nat
      BY <2>2 DEF DInv, DrainedAt, TInv, UpdatesOK, UpdateSet
    <3>3. update[p].upTo + 1 .. Said' \subseteq (update[p].upTo + 1 .. Said) \cup {Said + 1}
      BY <1>2, <3>2
    <3>4. update[p].upTo + 1 .. Said' \subseteq excused'
      BY <1>1, <3>1, <3>2, <3>3
    <3> QED BY <1>1, <1>3, <3>1, <3>4 DEF DrainedAt, DInv, At
  <2> QED BY <2>1, <2>2
<1>5. RowsDrained' /\ (pack \subseteq Known)' /\ DropsAreRendered'
  BY <1>1, <1>3 DEF DInv, RowsDrained, DropsAreRendered
<1> QED BY <1>4, <1>5 DEF DInv

(* A new runner has no update at work.                                     *)
LEMMA ResumeDrained == ASSUME TInv, DInv, Resume PROVE DInv'
<1>1. /\ UNCHANGED <<transcript, horizon, rows, update, plan>> /\ \A p \in Party : Idle(p)
      /\ Rebuilt \/ (pack' = {} /\ Excuse(1..Said))
  BY DEF Resume, tableVars, updateVars, pruneVars
<1>2. Dropped \subseteq 1..Said /\ Dropped' = Dropped /\ pack \cup excused \subseteq Known
  BY <1>1, DroppedFact DEF TInv, TalkOK, DroppedOK, Dropped, DInv, Known
<1>3. /\ Known \subseteq Known' /\ pack' \subseteq Known'
      /\ Dropped \subseteq pack' \cup excused'
  <2>1. CASE Rebuilt
    BY <1>1, <1>2, <2>1, RebuiltFact DEF DInv, DropsAreRendered
  <2>2. CASE pack' = {} /\ Excuse(1..Said)
    <3>1. excused \subseteq excused' /\ 1..Said \subseteq excused'
      BY <2>2 DEF Excuse
    <3> QED BY <1>1, <1>2, <2>2, <3>1, KnownGrows
  <2> QED BY <1>1, <2>1, <2>2
<1>4. \A p \in Party : Idle(p)'
  BY <1>1 DEF Idle
<1>5. RowsDrained' /\ \A p \in Party : DrainedAt(p)'
  BY <1>1, <1>3, <1>4, IdleDrainedNext DEF DInv, RowsDrained
<1> QED BY <1>2, <1>3, <1>5 DEF DInv, DropsAreRendered

(* The other processes: what a prune puts back was known, and what it loses*)
(* is excused.                                                             *)
LEMMA OthersDrained ==
  ASSUME TInv, DInv, PeerAppends \/ PruneReads \/ ReplaceAll \/ PruneFails PROVE DInv'
<1>1. UNCHANGED <<transcript, horizon, pack, update>>
  BY DEF PeerAppends, PruneReads, ReplaceAll, PruneFails, talkVars, updateVars
<1>2. Known \subseteq Known' /\ excused \subseteq excused'
  <2>1. CASE ReplaceAll
    BY <2>1, KnownWithLoses DEF ReplaceAll
  <2>2. CASE PeerAppends \/ PruneReads \/ PruneFails
    <3>1. rows \subseteq rows' /\ excused' = excused
      BY <2>2 DEF PeerAppends, PruneReads, PruneFails, Written, tableVars, history
    <3> QED BY <3>1, KnownGrows
  <2> QED BY <2>1, <2>2
<1>3. Owned(rows') \cup Owned(plan'.snapshot) \subseteq Owned(rows) \cup Owned(plan.snapshot)
  <2>1. CASE PeerAppends
    <3>1. rows' = rows \cup {Row("peer", {<<"peer", rowId + 1>>}, 0)} /\ plan' = plan
      BY <2>1 DEF PeerAppends, Written, pruneVars
    <3>2. Row("peer", {<<"peer", rowId + 1>>}, 0).owner = "peer"
      BY DEF Row
    <3> QED BY <3>1, <3>2 DEF Owned
  <2>2. CASE PruneReads
    BY <2>2 DEF PruneReads, tableVars, Owned
  <2>3. CASE ReplaceAll
    <3>1. PICK answered : rows' = (plan.snapshot \ plan.eligible) \cup {Row("global", Tells(answered), 0)}
      BY <2>3 DEF ReplaceAll, Written, Pruned
    <3>2. Row("global", Tells(answered), 0).owner = "global" /\ plan'.snapshot = {}
      BY <2>3 DEF Row, ReplaceAll, NoPlan
    <3> QED BY <3>1, <3>2 DEF Owned
  <2>4. CASE PruneFails
    BY <2>4 DEF PruneFails, tableVars, NoPlan, Owned
  <2> QED BY <2>1, <2>2, <2>3, <2>4
<1>4. RowsDrained'
  BY <1>2, <1>3 DEF DInv, RowsDrained
<1>5. \A p \in Party : DrainedAt(p)'
  <2>1. RenderedStays
    BY <1>1, <1>2 DEF RenderedStays
  <2> QED BY <1>1, <1>2, <2>1, DrainedStays DEF DInv
<1>6. DropsAreRendered' /\ (pack \subseteq Known)'
  BY <1>1, <1>2 DEF DInv, DropsAreRendered, Dropped
<1> QED BY <1>4, <1>5, <1>6 DEF DInv

LEMMA NextDrained == TInv /\ DInv /\ [Next]_vars => DInv'
<1> SUFFICES ASSUME TInv, DInv, [Next]_vars PROVE DInv'
  OBVIOUS
<1>1. ASSUME NEW p \in Party, Update(p) PROVE DInv'
  <2>1. CASE AppendObservation(p)
    BY <2>1, AppendDrained, ObserverDrained DEF AppendObservation
  <2>2. CASE ReplaceSession(p)
    BY <2>2, ReplaceDrained, ReflectorDrained DEF ReplaceSession
  <2> QED BY <1>1, <2>1, <2>2, BeginDrained, ObserverDrained, RereadDrained, ReflectorDrained,
             PackDrained, EvictDrained DEF Update
<1>2. CASE UNCHANGED vars
  <2>1. UNCHANGED <<transcript, horizon, pack, update, rows, plan, excused>>
    BY <1>2 DEF vars, talkVars, tableVars, updateVars, pruneVars, history
  <2>2. Known' = Known /\ RenderedStays /\ Dropped' = Dropped
    BY <2>1 DEF Known, RenderedStays, Dropped
  <2>3. \A p \in Party : DrainedAt(p)'
    BY <2>1, <2>2, DrainedStays DEF DInv
  <2> QED BY <2>1, <2>2, <2>3 DEF DInv, RowsDrained, DropsAreRendered
<1> QED BY <1>1, <1>2, SayDrained, ResumeDrained, OthersDrained DEF Next

LEMMA InitDrained == Init => DInv
<1> SUFFICES ASSUME Init PROVE DInv
  OBVIOUS
<1>1. /\ rows = {} /\ plan.snapshot = {} /\ pack = {} /\ \A p \in Party : Idle(p)
  BY DEF Init, NoPlan, Idle
<1>2. Dropped \subseteq 1..Said /\ Said = 0
  BY InitTInv, DroppedFact DEF TInv, TalkOK, DroppedOK, Init, Said
<1>3. Dropped \subseteq pack \cup excused
  BY <1>2
<1> QED BY <1>1, <1>3, IdleDrained DEF DInv, RowsDrained, Owned, DropsAreRendered

(* What is off the wire is in the pack that is rendered, unless the model  *)
(* names a cause that excuses it.                                          *)
THEOREM EvictedIsRendered == Spec => []DropsAreRendered
<1>1. DInv => DropsAreRendered
  BY DEF DInv
<1> QED BY <1>1, InitTInv, NextTInv, InitDrained, NextDrained, PTL DEF Spec
=============================================================================
