------------------------- MODULE ObservationalMemory -------------------------
(***************************************************************************)
(* How a session's messages leave the prompt and stay in memory: the       *)
(* observer and the in-session reflector (src/memory/observational.ts),    *)
(* the rows they write (storage.ts), the frozen pack that is rendered      *)
(* (context-pack.ts), the eviction horizon (turn-runner/wire-shaping.ts)   *)
(* and the prune over all sessions, `duet memory reflect`.                 *)
(*                                                                         *)
(* One session.  Two parties of its runner update its memory: the passes of*)
(* the turn ("pass") and a /compact, which is admitted while a task is open *)
(* and no pass runs ("compact"); a settlement may start a pass meanwhile.   *)
(* Other sessions only append rows.  What a text tells is a set: the       *)
(* session's messages by index and the rows of others; a summary tells all *)
(* its sources.  Every withDb may be refused because another process has   *)
(* the lock (\E got), and it may come between any two of ours.  Token      *)
(* budgets are choices, but for the transcript's and the reflection        *)
(* threshold, which count messages and rows.  Messages are stamped in      *)
(* milliseconds: stamps tie, and a steered message keeps the stamp it got  *)
(* when it was queued.                                                     *)
(***************************************************************************)
EXTENDS Integers, Sequences, FiniteSets, FiniteSetsExt

CONSTANTS
  MaxMessages,      (* bound: length of the transcript                      *)
  MaxClock,         (* bound: milliseconds of the clock                     *)
  MaxRows,          (* bound: rows ever written                             *)
  MaxPrunes,        (* bound: runs of duet memory reflect                   *)
  MaxUpdates,       (* bound: updates of the memory ever begun              *)
  TranscriptBudget, (* observation.maxTranscriptTokens, in messages         *)
  ReflectAt         (* reflection.observationTokens, in rows                *)

ASSUME MemoryAssumption ==
  /\ MaxMessages \in Nat /\ MaxClock \in Nat /\ MaxRows \in Nat
  /\ MaxPrunes \in Nat /\ MaxUpdates \in Nat
  /\ TranscriptBudget \in Nat \ {0} /\ ReflectAt \in Nat \ {0}

VARIABLES
  transcript,  (* the session's messages: role and stamp                   *)
  horizon,     (* wireGuardHorizon.evictionHorizon, a stamp                *)
  pack,        (* messages told by the frozen pack                         *)
  rows, rowId, (* the observations table and the ids used                  *)
  update,      (* each party's update of the memory, see NoUpdate          *)
  updates,
  plan,        (* the prune under way: its snapshot and its eligible rows  *)
  prunes,
  excused,     (* history: messages memory may not render, see Excuse      *)
  rewound,     (* history: an update may go by a marker too far back       *)
  forgone      (* history: told by batches of a prune that gave no row     *)

talkVars  == <<transcript, horizon, pack>>
tableVars == <<rows, rowId>>
pruneVars == <<plan, prunes>>
updateVars == <<update, updates>>
history   == <<excused, rewound, forgone>>
vars == <<talkVars, tableVars, updateVars, pruneVars, history>>

Party == {"pass", "compact"}

(* The end of a turn, the wire transform's trigger, a context overflow, an *)
(* advisor consultation; and the command.                                  *)
Reasons(p) == IF p = "compact" THEN {"command"} ELSE {"turn", "wire", "overflow", "advisor"}
Evicting   == {"wire", "overflow", "command"}

Said   == Len(transcript)
Owners == {"own", "peer", "global"}
Stages == {"idle", "observing", "rereading", "reflecting", "packing", "evicting"}
NoPlan == [snapshot |-> {}, eligible |-> {}]

(* An update: the messages it was given are the first upTo, those from tail*)
(* on are unobserved; the horizon it read at its start, when it goes by    *)
(* that one; the rows it gave to the reflector.                            *)
NoUpdate == [stage |-> "idle", why |-> "turn", upTo |-> 0, tail |-> 1, base |-> 0,
             source |-> {}]
Idle(p) == update[p] = NoUpdate

Messages(S) == {c[2] : c \in {t \in S : t[1] = "own"}}
Tells(R)    == UNION {r.tells : r \in R}
Owned(R)    == {r \in R : r.owner = "own"}

(* Mutant of Row: the id of an earlier row is used again.                  *)
RowReusesId(owner, tells, end) == [id |-> 1, owner |-> owner, tells |-> tells, end |-> end]

(* A written row, with the last message of its group's range.              *)
Row(owner, tells, end) == [id |-> rowId + 1, owner |-> owner, tells |-> tells, end |-> end]
Written(R) == rowId < MaxRows /\ rowId' = rowId + 1 /\ rows' = R

Init ==
  /\ transcript = <<>> /\ horizon = 0 /\ pack = {}
  /\ rows = {} /\ rowId = 0
  /\ update = [p \in Party |-> NoUpdate]
  /\ plan = NoPlan /\ prunes = 0 /\ updates = 0
  /\ excused = {} /\ rewound = FALSE /\ forgone = {}

(***************************************************************************)
(* The wire.                                                               *)
(***************************************************************************)

(* The messages at or before the horizon are a prefix of the list.         *)
FirstKept(messages, h) ==
  LET later == {i \in DOMAIN messages : messages[i].at > h}
  IN IF later = {} THEN Len(messages) + 1 ELSE Min(later)

(* Those from first on with a role in roles.                               *)
From(messages, first, roles) == {i \in first..Len(messages) : messages[i].role \in roles}

(* Mutant of WireHead: leading tool results go with nothing kept instead.  *)
WireHeadWithoutCall(messages, h) ==
  LET first == FirstKept(messages, h)
      users == From(messages, first, {"user"})
      heads == From(messages, first, {"user", "assistant"})
  IN CASE first = 1 -> 1
       [] first # 1 /\ users # {} -> Min(users)
       [] first # 1 /\ users = {} /\ heads # {} -> Min(heads)
       [] OTHER -> Len(messages) + 1

(* applyEvictionHorizon: the first message sent.  The next user message is *)
(* preferred; then the first that is no tool result; then the call of the  *)
(* results that are left.  With nothing left nothing is sent.              *)
WireHead(messages, h) ==
  LET first == FirstKept(messages, h)
      users == From(messages, first, {"user"})
      heads == From(messages, first, {"user", "assistant"})
      calls == From(messages, 1, {"assistant"}) \ From(messages, first, {"assistant"})
  IN CASE first = 1 -> 1
       [] first # 1 /\ users # {} -> Min(users)
       [] first # 1 /\ users = {} /\ heads # {} -> Min(heads)
       [] first \in 2..Len(messages) /\ heads = {} /\ calls # {} -> Max(calls)
       [] OTHER -> Len(messages) + 1

Dropped == 1 .. (WireHead(transcript, horizon) - 1)

(* findEvictionHorizon: the stamps of some of the given messages, oldest   *)
(* first and never the last one, and not before the current horizon.       *)
Horizons(current, upTo) ==
  {Max({current} \cup {transcript[i].at : i \in 1..k}) : k \in 0..(upTo - 1)}

(* A message memory need not render: the observer failed, had nothing to   *)
(* say or never saw it; the database was refused; a replacement lost what  *)
(* told it (see CoverageKept); it came while /compact was at work, or left *)
(* the wire because a user message came, and not by an eviction.           *)
Excuse(S) == excused' = excused \cup S

(* The pass's agent appends a message; a tool result answers a call.  Its  *)
(* stamp is the clock's; that of a user message was taken some time ago.   *)
Now == Max({0} \cup {transcript[i].at : i \in 1..Said})
Stamps(role) == {at \in 1..MaxClock : at <= Now + 1 /\ (role # "user" => at >= Now)}

Say(role) ==
  /\ Idle("pass") /\ Said < MaxMessages
  /\ Said = 0 => role = "user"
  /\ role = "toolResult" => transcript[Said].role \in {"assistant", "toolResult"}
  /\ \E at \in Stamps(role) : transcript' = Append(transcript, [role |-> role, at |-> at])
  /\ UNCHANGED horizon
  /\ Excuse((Dropped' \ Dropped) \cup (IF Idle("compact") THEN {} ELSE {Said + 1}))
  /\ UNCHANGED <<pack, tableVars, updateVars, pruneVars, rewound, forgone>>

(***************************************************************************)
(* updateObservationalMemory.                                              *)
(***************************************************************************)

(* Mutant of Marker: the last observed message is taken for unobserved.    *)
MarkerBeforeLast(R) == IF R = {} THEN 0 ELSE Max({r.end : r \in R}) - 1

(* getLastObservedMessageIndex                                             *)
Marker(R) == IF R = {} THEN 0 ELSE Max({r.end : r \in R})

Unobserved(p) == update[p].tail .. update[p].upTo
At(p, stage)   == update[p].stage = stage
Gives(p, stage, source) ==
  LET u == update[p] IN
  /\ update' = [update EXCEPT ![p] = [stage |-> stage, why |-> u.why, upTo |-> u.upTo,
                                      tail |-> 1, base |-> u.base, source |-> source]]
  /\ UNCHANGED updates
Goes(p, stage) == Gives(p, stage, {})
Ends(p)        == update' = [update EXCEPT ![p] = NoUpdate] /\ UNCHANGED updates

(* Mutant of Leave: the drain refreshes the pack only after a reflection.  *)
LeaveWithoutRefresh(p) == IF update[p].why \in Evicting THEN Goes(p, "evicting") ELSE Ends(p)

(* ensureMemoryCoverageForCompaction refreshes the pack whatever happened; *)
(* the update after a turn just ends.                                      *)
Leave(p) == IF update[p].why = "turn" THEN Ends(p) ELSE Goes(p, "packing")

(* /compact is refused while a pass or another /compact runs.  A refused   *)
(* read of the session's rows looks like a session without any.  The marker*)
(* read here is too far back when it was refused, and when the other party *)
(* is about to append what it has observed.                                *)
Begin(p, reason) ==
  /\ updates < MaxUpdates /\ updates' = updates + 1
  /\ Said > 0 /\ reason \in Reasons(p) /\ Idle(p) /\ Idle("pass")
  /\ \E got \in BOOLEAN :
       LET first == 1 + IF got THEN Marker(Owned(rows)) ELSE 0 IN
       /\ update' = [update EXCEPT ![p] =
            [stage |-> IF first > Said THEN "rereading" ELSE "observing", why |-> reason,
             upTo |-> Said, tail |-> first,
             base |-> IF reason \in {"overflow", "command"} THEN horizon ELSE 0,
             source |-> {}]]
       /\ rewound' = (rewound \/ (~got /\ Owned(rows) # {})
                             \/ \E q \in Party : At(q, "observing"))
  /\ UNCHANGED <<talkVars, tableVars, pruneVars, excused, forgone>>

(* observe trims the tail from its old end.                                *)
Shown(p) == {m \in Unobserved(p) : m > update[p].upTo - TranscriptBudget}

ObserverFails(p) ==
  /\ At(p, "observing") /\ Leave(p) /\ Excuse(Unobserved(p))
  /\ UNCHANGED <<talkVars, tableVars, pruneVars, rewound, forgone>>

NothingToObserve(p) ==
  /\ At(p, "observing") /\ Goes(p, "rereading") /\ Excuse(Unobserved(p))
  /\ UNCHANGED <<talkVars, tableVars, pruneVars, rewound, forgone>>

(* The range of the group ends with the last message of the tail.  A       *)
(* refused append drops the observation.                                   *)
AppendObservation(p) ==
  /\ At(p, "observing") /\ Goes(p, "rereading")
  /\ \/ /\ Written(rows \cup {Row("own", {"own"} \X Shown(p), update[p].upTo)})
        /\ Excuse(Unobserved(p) \ Shown(p))
     \/ Excuse(Unobserved(p)) /\ UNCHANGED tableVars
  /\ UNCHANGED <<talkVars, pruneVars, rewound, forgone>>

(* The threshold of the in-session reflection.                             *)
Reread(p) ==
  /\ At(p, "rereading")
  /\ \E got \in BOOLEAN :
       LET read == IF got THEN Owned(rows) ELSE {} IN
          IF Cardinality(read) >= ReflectAt
            THEN Gives(p, "reflecting", read)
            ELSE Leave(p)
  /\ UNCHANGED <<talkVars, tableVars, pruneVars, history>>

(* The call fails or its text is empty: nothing is replaced.               *)
ReflectorFails(p) ==
  /\ At(p, "reflecting") /\ Leave(p)
  /\ UNCHANGED <<talkVars, tableVars, pruneVars, history>>

(* What a writer does to the marker and to what the rows told.             *)
Rewinds == Marker(Owned(rows')) < Marker(Owned(rows))
Loses   == Messages(Tells(rows) \ Tells(rows'))

(* replaceSessionObservations deletes every row of the session, whatever   *)
(* the reflector read.  Which source groups a section is traced to depends *)
(* on its wording: the new range may end where any of theirs ends.         *)
ReplaceSession(p) ==
  /\ At(p, "reflecting") /\ Goes(p, "packing")
  /\ \/ /\ \E end \in {r.end : r \in update[p].source} :
             Written((rows \ Owned(rows)) \cup {Row("own", Tells(update[p].source), end)})
        /\ rewound' = (rewound \/ Rewinds) /\ Excuse(Loses)
     \/ UNCHANGED <<tableVars, rewound, excused>>
  /\ UNCHANGED <<talkVars, pruneVars, forgone>>

(* rebuildMemoryContextPack: the session's own rows are rendered whole, the*)
(* rows of others within a budget.  A refused rebuild keeps the old pack.  *)
Rebuilt ==
  /\ pack' = Messages(Tells(Owned(rows)))
  /\ Excuse(Messages(Tells(rows)) \ pack')

RefreshPack(p) ==
  /\ At(p, "packing")
  /\ IF update[p].why \in Evicting THEN Goes(p, "evicting") ELSE Ends(p)
  /\ Rebuilt \/ (UNCHANGED pack /\ Excuse(1..Said))
  /\ UNCHANGED <<transcript, horizon, tableVars, pruneVars, rewound, forgone>>

(* The transform reads the horizon again after its drain, /compact and the *)
(* recovery from an overflow use the one they read before it.              *)
Evict(p) ==
  LET current == IF update[p].why = "wire" THEN horizon ELSE update[p].base IN
  /\ At(p, "evicting") /\ Ends(p)
  /\ \E h \in Horizons(current, update[p].upTo) :
       horizon' = IF h = current THEN horizon ELSE h
  /\ UNCHANGED <<transcript, pack, tableVars, pruneVars, history>>

(* A new runner resumes the transcript and the horizon; loadStoredMemory   *)
(* seeds the pack, or leaves it empty when it is refused.                  *)
Resume ==
  /\ Said > 0 /\ \A p \in Party : Idle(p)
  /\ Rebuilt \/ (pack' = {} /\ Excuse(1..Said))
  /\ UNCHANGED <<transcript, horizon, tableVars, updateVars, pruneVars, rewound, forgone>>

(***************************************************************************)
(* Other processes: sessions that append, and the prune.                   *)
(***************************************************************************)
PeerAppends ==
  /\ Written(rows \cup {Row("peer", {<<"peer", rowId + 1>>}, 0)})
  /\ UNCHANGED <<talkVars, updateVars, pruneVars, history>>

(* planReflectionBatches: rows after the cutoff and earlier prunes stay.   *)
Eligible(R, cutoff) == {r \in R : r.owner # "global" /\ r.id <= cutoff}

PruneReads ==
  /\ plan = NoPlan /\ prunes < MaxPrunes /\ prunes' = prunes + 1
  /\ \E cutoff \in 1..rowId :
       /\ Eligible(rows, cutoff) # {}
       /\ plan' = [snapshot |-> rows, eligible |-> Eligible(rows, cutoff)]
  /\ UNCHANGED <<talkVars, tableVars, updateVars, history>>

(* Mutant of Pruned: the preserved rows are left out of the replacement.   *)
PrunedDropsPreserved(answered) == {Row("global", Tells(answered), 0)}

(* The snapshot's preserved rows as they were, what the batches that       *)
(* answered gave (one global row here), and nothing besides.               *)
Pruned(answered) ==
  (plan.snapshot \ plan.eligible) \cup {Row("global", Tells(answered), 0)}

(* Rows of a batch that gave nothing go with the others.  A row of the     *)
(* session that is folded is a marker no more.                             *)
ReplaceAll ==
  /\ plan # NoPlan /\ plan' = NoPlan
  /\ \E answered \in (SUBSET plan.eligible) \ {{}} :
       /\ Written(Pruned(answered))
       /\ forgone' = forgone \cup Tells(plan.eligible \ answered)
  /\ rewound' = (rewound \/ Rewinds \/ Owned(plan.eligible) # {}) /\ Excuse(Loses)
  /\ UNCHANGED <<talkVars, updateVars, prunes>>

(* No batch gave a row, the database is refused, or a dry run.             *)
PruneFails ==
  /\ plan # NoPlan /\ plan' = NoPlan
  /\ UNCHANGED <<talkVars, tableVars, updateVars, prunes, history>>

Update(p) ==
  \/ \E reason \in Reasons(p) : Begin(p, reason)
  \/ ObserverFails(p) \/ NothingToObserve(p) \/ AppendObservation(p)
  \/ Reread(p) \/ ReflectorFails(p) \/ ReplaceSession(p)
  \/ RefreshPack(p) \/ Evict(p)

Next ==
  \/ \E role \in {"user", "assistant", "toolResult"} : Say(role)
  \/ \E p \in Party : Update(p)
  \/ Resume \/ PeerAppends \/ PruneReads \/ ReplaceAll \/ PruneFails

Spec == Init /\ [][Next]_vars

(***************************************************************************)
(* Properties.                                                             *)
(***************************************************************************)
Content == ({"own"} \X (1..MaxMessages)) \cup ({"peer"} \X (1..MaxRows))
RowSet == [id : 1..MaxRows, owner : Owners, tells : SUBSET Content, end : 0..MaxMessages]

Message == [role : {"user", "assistant", "toolResult"}, at : 1..MaxClock]

(* Every variable keeps its shape; no two rows share an id.                *)
TypeOK ==
  /\ transcript \in Seq(Message) /\ Said <= MaxMessages
  /\ horizon \in 0..MaxClock /\ pack \subseteq 1..MaxMessages
  /\ rows \subseteq RowSet /\ rowId \in 0..MaxRows
  /\ update \in [Party -> [stage : Stages, why : {"turn", "advisor"} \cup Evicting,
                            upTo : 0..MaxMessages, tail : 1..MaxMessages + 1,
                            base : 0..MaxClock, source : SUBSET RowSet]]
  /\ plan \in [snapshot : SUBSET RowSet, eligible : SUBSET RowSet]
  /\ prunes \in 0..MaxPrunes /\ updates \in 0..MaxUpdates
  /\ excused \subseteq 1..MaxMessages /\ rewound \in BOOLEAN /\ forgone \subseteq Content
  /\ \A r, s \in rows : r.id = s.id => r = s

(* Rows a writer has not read and will delete: appended, or put back, after*)
(* the snapshot of a prune or of a reflector.                              *)
Unread ==
  {r \in rows : \/ plan # NoPlan /\ r \notin plan.snapshot
               \/ \E p \in Party : At(p, "reflecting") /\ r \in Owned(rows) \ update[p].source}

(* What a row told, some row tells for ever, with two exceptions the code  *)
(* has: rows that came between the read and the write of a prune or of the *)
(* reflector, and rows of a prune's batch for which the model gave nothing *)
(* (appendObservation, replaceSessionObservations, replaceAllObservations).*)
CoverageKept == [][Tells(rows \ Unread) \ forgone' \subseteq Tells(rows')]_vars

(* No message is told by two rows, unless an update went by a progress     *)
(* marker that was too far back: the read was refused, the other party was *)
(* about to append, or a replacement had moved or removed the marker       *)
(* (getUnobservedMessageTail).                                             *)
ObservedOnce ==
  rewound \/ \A m \in 1..MaxMessages : Cardinality({r \in rows : <<"own", m>> \in r.tells}) <= 1

(* A message that is off the wire is in the pack that is rendered, for as  *)
(* long as it is off, whatever evicts, reflects, prunes and resumes in     *)
(* between, unless it is excused (ensureMemoryCoverageForCompaction before *)
(* findEvictionHorizon).                                                   *)
DropsAreRendered == Dropped \subseteq pack \cup excused

(* A tool result on the wire has its call on it.  The wire is not empty,   *)
(* unless the last message is stamped no later than one before it: in the  *)
(* same millisecond, or queued before that one was made                    *)
(* (applyEvictionHorizon, findEvictionHorizon).                            *)
Wire == {i \in 1..Said : i >= WireHead(transcript, horizon)}
CallOf(i) == Max({j \in 1..i : transcript[j].role = "assistant"})
WireIsValid ==
  /\ Said > 0 /\ Wire = {} => \E i \in 1..Said - 1 : transcript[i].at >= transcript[Said].at
  /\ \A i \in Wire : transcript[i].role = "toolResult" => CallOf(i) \in Wire
==============================================================================
