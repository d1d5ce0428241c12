--------------------------- MODULE TurnLoop_proofs ---------------------------
(***************************************************************************)
(* The turn for any number of tasks, commands, interrupts, wakes and state *)
(* selections: the types, the terminals, the one worker of a relay, the    *)
(* transitions it owes and the commands of the user.                       *)
(***************************************************************************)
EXTENDS TurnLoop, FiniteSetTheorems, SequenceTheorems, TLAPS

-----------------------------------------------------------------------------
(* What is said of the queue parentInputs is said of its entries, and that *)
(* no command is in it twice.                                              *)
Entries == ToSet(inputs)
OneEach(q) == \A i, j \in DOMAIN q : q[i].cmd = q[j].cmd /\ q[i].cmd # None => i = j

(* A command is an input of its own type; no input names a task that has   *)
(* not been started.                                                       *)
EntriesOK ==
  \A e \in Entries : /\ e.type = "user_command" <=> e.cmd # None
                     /\ e.tasks \cap Unused = {}

(* The flags of a pass hold only while there is one.                       *)
PassOK ==
  /\ pass = "none" <=> pc # "pass"
  /\ control # "none" => pass = "prompting"
  /\ running => pass # "none"
  /\ inPi # {} => running
  /\ control = "select" \/ pc = "deciding" => selects < MaxSelects

(* What the tasks' sets name has been started.                             *)
StartedOK == (stateTasks \cup ignored \cup fresh) \cap Unused = {}

TInv == TypeOK /\ EntriesOK /\ StartedOK /\ PassOK

(* Nothing runs under a question, or under a loop that came to its end by  *)
(* itself: what it would have to stop in its finally is never there.       *)
QuietAsk  == questions => Running = {} /\ pc \notin {"pass", "deciding", "waiting", "failing"}
QuietExit == pc \in {"exiting", "memory"} /\ ~reason => Running = {}

LastHonest == last.open => last.type = "interrupted"

QInv == TInv /\ QuietAsk /\ QuietExit /\ LastHonest

(* The workers whose end is to be recorded, and those among them whose end *)
(* an interrupt has thrown away.                                           *)
Live == stateTasks \ ignored
Lost == Live \ (Running \cup fresh)

(* One worker at most, none while the next is chosen or the session sleeps;*)
(* no input names a worker that is still to be recorded.                   *)
WorkersOK ==
  /\ \A s, t \in Live : s = t
  /\ pc = "deciding" => Live = {}
  /\ pc \in {"returning", "idle"} /\ asleep => Live = {}
  /\ \A e \in Entries : e.tasks \cap stateTasks = {}

(* A lost worker is found only in a session without anything scheduled and *)
(* without a wake to come.                                                 *)
LostOK == Lost # {} => Scheduled = {} /\ ~HasInput("wake") /\ orphaned

(* Nothing settles any more once the loop came to its end by itself.       *)
DrainedOK == pc = "memory" /\ ~reason => fresh = {}

RelayOK == WorkersOK /\ LostOK /\ EnforcementIsOwed /\ DrainedOK

RInv == QInv /\ RelayOK

(* The current state has somebody who will come back from it.              *)
Driven ==
  \/ Live # {}
  \/ owed
  \/ current \in {"poll", "timer"} /\ Scheduled # {}

DebtsOK ==
  /\ machine = "live" => current \in {"task", "poll", "timer", "park", "interrupted"}
  /\ machine = "live" /\ current \in {"task", "poll", "timer"} /\ pc # "deciding" /\ ~orphaned
       => Driven
  /\ pc = "failing" => completion = "failed"
  /\ /\ pc \in {"exiting", "memory"} /\ ~reason /\ ~questions
     /\ completion = "completed" /\ Scheduled = {}
     => ~OwesTransition

OInv == RInv /\ DebtsOK

(* The commands in parentInputs, and those in the queue the user sees.     *)
InQueue == {c \in Cmd : InInputs(c)}
Visible == ToSet(followUps)

(* A command is queued while it is in parentInputs, or, between two turns, *)
(* only in the queue that the next turn copies back; it is read once.      *)
QueuedOK ==
  /\ \A c \in Cmd : c \in InQueue \/ c \in inPi \/ c \in Visible => cmd[c] = "queued"
  /\ \A c \in Cmd : cmd[c] = "queued" => c \in InQueue \/ (pc = "idle" /\ c \in Visible)
  /\ \A c \in Cmd : reads[c] = IF cmd[c] = "read" THEN 1 ELSE 0

(* Follow-ups are restored all or none.                                    *)
Restorable == (\E c \in InQueue : behavior[c] = "follow_up") => Visible \subseteq InQueue

FollowUpsOK == IsInjective(followUps) /\ \A c \in Visible : behavior[c] = "follow_up"

KeptOK == QueuedOK /\ Restorable /\ FollowUpsOK /\ OneEach(inputs)

KInv == TInv /\ KeptOK

-----------------------------------------------------------------------------
(* Queues.                                                                 *)

(* The positions of I have the ranks 1 .. Cardinality(I), each of them one.*)
LEMMA RankFact ==
  ASSUME NEW n \in Nat, NEW I \in SUBSET (1..n)
  PROVE  /\ IsFiniteSet(I) /\ Cardinality(I) \in Nat
         /\ \A i \in I : Rank(I, i) \in 1..Cardinality(I)
         /\ \A i, j \in I : Rank(I, i) = Rank(I, j) => i = j
         /\ \A k \in 1..Cardinality(I) : \E i \in I : Rank(I, i) = k
<1> DEFINE Upto(i) == {j \in I : j <= i}
           f == [i \in I |-> Rank(I, i)]
<1>1. IsFiniteSet(I) /\ Cardinality(I) \in Nat
  <2>1. IsFiniteSet(1..n)
    BY FS_Interval
  <2> QED BY <2>1, FS_Subset, FS_CardinalityType
<1>2. ASSUME NEW i \in I
      PROVE  /\ IsFiniteSet(Upto(i)) /\ Rank(I, i) = Cardinality(Upto(i))
             /\ Rank(I, i) \in 1..Cardinality(I)
  <2>1. Upto(i) \in SUBSET I /\ i \in Upto(i)
    OBVIOUS
  <2>2. IsFiniteSet(Upto(i)) /\ Cardinality(Upto(i)) <= Cardinality(I)
    BY <1>1, <2>1, FS_Subset
  <2>3. Cardinality(Upto(i)) \in Nat /\ Cardinality(Upto(i)) # 0
    BY <2>1, <2>2, FS_CardinalityType, FS_EmptySet
  <2> QED BY <1>1, <2>2, <2>3 DEF Rank
<1>3. ASSUME NEW i \in I, NEW j \in I, i < j
      PROVE  Rank(I, i) # Rank(I, j)
  <2>1. Upto(i) \in SUBSET Upto(j) /\ j \in Upto(j) /\ j \notin Upto(i)
    <3>1. i \in Nat /\ j \in Nat /\ \A k \in I : k \in Nat
      OBVIOUS
    <3>2. \A k \in I : k <= i => k <= j
      BY <1>3, <3>1
    <3>3. j <= j /\ ~(j <= i)
      BY <1>3, <3>1
    <3> QED BY <3>2, <3>3
  <2>2. Cardinality(Upto(j)) # Cardinality(Upto(i))
    BY <1>2, <2>1, FS_Subset
  <2> QED BY <1>2, <2>2
<1>4. \A i, j \in I : Rank(I, i) = Rank(I, j) => i = j
  <2>1. SUFFICES ASSUME NEW i \in I, NEW j \in I, Rank(I, i) = Rank(I, j), i # j PROVE FALSE
    OBVIOUS
  <2>2. i < j \/ j < i
    BY <2>1
  <2> QED BY <1>3, <2>1, <2>2
<1>5. f \in Injection(I, 1..Cardinality(I))
  BY <1>2, <1>4 DEF Injection, IsInjective
<1>6. IsFiniteSet(1..Cardinality(I)) /\ Cardinality(1..Cardinality(I)) = Cardinality(I)
  BY <1>1, FS_Interval
<1>7. f \in Surjection(I, 1..Cardinality(I))
  BY <1>5, <1>6, FS_Injection
<1>8. \A k \in 1..Cardinality(I) : \E i \in I : Rank(I, i) = k
  BY <1>7 DEF Surjection
<1> QED BY <1>1, <1>2, <1>4, <1>8

(* What is picked are the entries at the positions, each of them once.     *)
LEMMA PickedFact ==
  ASSUME NEW S, NEW q \in Seq(S), NEW I \in SUBSET DOMAIN q
  PROVE  /\ Picked(q, I) \in Seq(S)
         /\ ToSet(Picked(q, I)) = {q[i] : i \in I}
         /\ OneEach(q) => OneEach(Picked(q, I))
         /\ IsInjective(q) => IsInjective(Picked(q, I))
<1> DEFINE at(k) == CHOOSE i \in I : Rank(I, i) = k
           p == Picked(q, I)
<1>1. I \in SUBSET (1..Len(q)) /\ Len(q) \in Nat
  OBVIOUS
<1>2. /\ Cardinality(I) \in Nat
      /\ \A i \in I : Rank(I, i) \in 1..Cardinality(I)
      /\ \A i, j \in I : Rank(I, i) = Rank(I, j) => i = j
      /\ \A k \in 1..Cardinality(I) : \E i \in I : Rank(I, i) = k
  BY <1>1, RankFact
<1>3. \A k \in 1..Cardinality(I) : at(k) \in I /\ Rank(I, at(k)) = k
  BY <1>2
<1>4. \A i \in I : at(Rank(I, i)) = i
  BY <1>2, <1>3
<1>5. p = [k \in 1..Cardinality(I) |-> q[at(k)]]
  BY DEF Picked
<1> HIDE DEF at, p
<1>6. \A i \in I : q[i] \in S
  OBVIOUS
<1>7. p \in [1..Cardinality(I) -> S]
  BY <1>3, <1>5, <1>6
<1>8. p \in Seq(S) /\ DOMAIN p = 1..Cardinality(I)
  BY <1>2, <1>7
<1>9. ToSet(p) = {q[i] : i \in I}
  <2>1. ASSUME NEW x \in ToSet(p) PROVE x \in {q[i] : i \in I}
    BY <1>3, <1>5, <1>8 DEF ToSet
  <2>2. ASSUME NEW i \in I PROVE q[i] \in ToSet(p)
    <3>1. p[Rank(I, i)] = q[i] /\ Rank(I, i) \in DOMAIN p
      BY <1>2, <1>4, <1>5, <1>8
    <3> QED BY <3>1 DEF ToSet
  <2> QED BY <2>1, <2>2
<1>10. \A k, l \in DOMAIN p : at(k) = at(l) => k = l
  BY <1>3, <1>8
<1>11. OneEach(q) => OneEach(p)
  BY <1>3, <1>5, <1>8, <1>10 DEF OneEach
<1>12. IsInjective(q) => IsInjective(p)
  BY <1>3, <1>5, <1>8, <1>10 DEF IsInjective
<1> QED BY <1>8, <1>9, <1>11, <1>12 DEF p
LEMMA AppendFact ==
  ASSUME NEW S, NEW q \in Seq(S), NEW x \in S
  PROVE  /\ Append(q, x) \in Seq(S)
         /\ ToSet(Append(q, x)) = ToSet(q) \cup {x}
         /\ OneEach(q) /\ (x.cmd = None \/ \A e \in ToSet(q) : e.cmd # x.cmd)
              => OneEach(Append(q, x))
         /\ IsInjective(q) /\ x \notin ToSet(q) => IsInjective(Append(q, x))
<1> DEFINE r == Append(q, x)
<1>1. /\ r \in Seq(S) /\ Len(q) \in Nat /\ DOMAIN q = 1..Len(q) /\ DOMAIN r = 1..Len(q) + 1
      /\ \A i \in 1..Len(q) : r[i] = q[i]
      /\ r[Len(q) + 1] = x
  OBVIOUS
<1> HIDE DEF r
<1>2. ToSet(r) = ToSet(q) \cup {x}
  <2>1. \A i \in DOMAIN r : i \in 1..Len(q) \/ i = Len(q) + 1
    BY <1>1
  <2>2. \A i \in DOMAIN q : i \in DOMAIN r /\ r[i] = q[i]
    BY <1>1
  <2>3. Len(q) + 1 \in DOMAIN r
    BY <1>1
  <2> QED BY <1>1, <2>1, <2>2, <2>3 DEF ToSet
<1>3. \A i, j \in DOMAIN r :
        \/ i = j
        \/ i \in DOMAIN q /\ j \in DOMAIN q /\ r[i] = q[i] /\ r[j] = q[j]
        \/ i \in DOMAIN q /\ r[i] = q[i] /\ r[j] = x
        \/ j \in DOMAIN q /\ r[j] = q[j] /\ r[i] = x
  BY <1>1
<1>4. \A i \in DOMAIN q : q[i] \in ToSet(q)
  BY DEF ToSet
<1>5. OneEach(q) /\ (x.cmd = None \/ \A e \in ToSet(q) : e.cmd # x.cmd) => OneEach(r)
  BY <1>3, <1>4 DEF OneEach
<1>6. IsInjective(q) /\ x \notin ToSet(q) => IsInjective(r)
  BY <1>3, <1>4 DEF IsInjective
<1> QED BY <1>1, <1>2, <1>5, <1>6 DEF r

LEMMA ConcatFact ==
  ASSUME NEW S, NEW q \in Seq(S), NEW s \in Seq(S)
  PROVE  /\ q \o s \in Seq(S)
         /\ ToSet(q \o s) = ToSet(q) \cup ToSet(s)
         /\ /\ OneEach(q) /\ OneEach(s)
            /\ \A e \in ToSet(q), f \in ToSet(s) : e.cmd = f.cmd => e.cmd = None
            => OneEach(q \o s)
<1> DEFINE r == q \o s
<1>1. /\ Len(q) \in Nat /\ Len(s) \in Nat
      /\ DOMAIN q = 1..Len(q) /\ DOMAIN s = 1..Len(s)
  OBVIOUS
<1>2. /\ r \in Seq(S) /\ Len(r) = Len(q) + Len(s)
      /\ \A i \in 1..Len(q) + Len(s) : r[i] = IF i <= Len(q) THEN q[i] ELSE s[i - Len(q)]
  BY ConcatProperties
<1>3. DOMAIN r = 1..Len(q) + Len(s)
  BY <1>2
<1> HIDE DEF r
<1>4. \A i \in DOMAIN r :
        \/ i \in DOMAIN q /\ r[i] = q[i]
        \/ i - Len(q) \in DOMAIN s /\ r[i] = s[i - Len(q)]
  BY <1>1, <1>2, <1>3
<1>5. \A i \in DOMAIN q : i \in DOMAIN r /\ r[i] = q[i]
  BY <1>1, <1>2, <1>3
<1>6. \A i \in DOMAIN s : Len(q) + i \in DOMAIN r /\ r[Len(q) + i] = s[i]
  BY <1>1, <1>2, <1>3
<1>7. ToSet(r) = ToSet(q) \cup ToSet(s)
  BY <1>4, <1>5, <1>6 DEF ToSet
<1>8. ASSUME OneEach(q), OneEach(s),
             \A e \in ToSet(q), f \in ToSet(s) : e.cmd = f.cmd => e.cmd = None
      PROVE  OneEach(r)
  <2>1. SUFFICES ASSUME NEW i \in DOMAIN r, NEW j \in DOMAIN r, r[i].cmd = r[j].cmd,
                        r[i].cmd # None
                 PROVE  i = j
    BY DEF OneEach
  <2>2. \A k \in DOMAIN q, l \in DOMAIN s : q[k].cmd = s[l].cmd => q[k].cmd = None
    BY <1>8 DEF ToSet
  <2>3. CASE i \in DOMAIN q /\ r[i] = q[i]
    <3>1. j \in DOMAIN q /\ r[j] = q[j]
      BY <1>4, <2>1, <2>2, <2>3
    <3> QED BY <1>8, <2>1, <2>3, <3>1 DEF OneEach
  <2>4. CASE i - Len(q) \in DOMAIN s /\ r[i] = s[i - Len(q)]
    <3>1. j - Len(q) \in DOMAIN s /\ r[j] = s[j - Len(q)]
      BY <1>4, <2>1, <2>2, <2>4
    <3>2. i - Len(q) = j - Len(q)
      BY <1>8, <2>1, <2>4, <3>1 DEF OneEach
    <3> QED BY <1>1, <1>3, <3>2
  <2> QED BY <1>4, <2>3, <2>4
<1> QED BY <1>2, <1>7, <1>8 DEF r

LEMMA PushFact ==
  ASSUME NEW S, NEW q \in Seq(S), NEW x \in S
  PROVE  /\ <<x>> \o q \in Seq(S)
         /\ ToSet(<<x>> \o q) = ToSet(q) \cup {x}
         /\ OneEach(q) /\ x.cmd = None => OneEach(<<x>> \o q)
<1>1. <<x>> \in Seq(S) /\ DOMAIN <<x>> = {1} /\ <<x>>[1] = x
  OBVIOUS
<1>2. ToSet(<<x>>) = {x} /\ OneEach(<<x>>)
  BY <1>1 DEF ToSet, OneEach
<1> DEFINE one == <<x>>
<1>3. one \in Seq(S) /\ ToSet(one) = {x} /\ OneEach(one)
  BY <1>1, <1>2
<1> HIDE DEF one
<1>4. /\ one \o q \in Seq(S)
      /\ ToSet(one \o q) = ToSet(one) \cup ToSet(q)
      /\ /\ OneEach(one) /\ OneEach(q)
         /\ \A e \in ToSet(one), f \in ToSet(q) : e.cmd = f.cmd => e.cmd = None
         => OneEach(one \o q)
  BY <1>3, ConcatFact
<1>5. x.cmd = None => \A e \in ToSet(one) : e.cmd = None
  BY <1>3
<1>6. /\ one \o q \in Seq(S)
      /\ ToSet(one \o q) = ToSet(q) \cup {x}
      /\ OneEach(q) /\ x.cmd = None => OneEach(one \o q)
  BY <1>3, <1>4, <1>5
<1> QED BY <1>6 DEF one

LEMMA RemoveAtFact ==
  ASSUME NEW S, NEW q \in Seq(S), NEW i \in DOMAIN q
  PROVE  /\ RemoveAt(q, i) \in Seq(S)
         /\ ToSet(RemoveAt(q, i)) \subseteq ToSet(q)
         /\ ToSet(q) \subseteq ToSet(RemoveAt(q, i)) \cup {q[i]}
         /\ OneEach(q) =>
              /\ OneEach(RemoveAt(q, i))
              /\ q[i].cmd # None => \A e \in ToSet(RemoveAt(q, i)) : e.cmd # q[i].cmd
<1> DEFINE r == RemoveAt(q, i)
           old(j) == IF j < i THEN j ELSE j + 1
<1>1. Len(q) \in Nat /\ DOMAIN q = 1..Len(q) /\ i \in 1..Len(q)
  OBVIOUS
<1>2. /\ r \in Seq(S) /\ DOMAIN r = 1..Len(q) - 1
      /\ \A j \in DOMAIN r : r[j] = q[old(j)]
  <2> DEFINE s == SubSeq(q, 1, i - 1)
             t == SubSeq(q, i + 1, Len(q))
  <2>1. /\ s \in Seq(S) /\ Len(s) = i - 1
        /\ \A j \in 1..i - 1 : s[j] = q[j]
    <3>1. \A j \in 1..i - 1 : q[j] \in S
      BY <1>1
    <3>2. /\ s \in Seq(S) /\ Len(s) = IF 1 <= i - 1 THEN i - 1 - 1 + 1 ELSE 0
          /\ \A j \in 1..i - 1 - 1 + 1 : s[j] = q[1 + j - 1]
      BY <1>1, <3>1, SubSeqProperties
    <3> QED BY <1>1, <3>2
  <2>2. /\ t \in Seq(S) /\ Len(t) = Len(q) - i
        /\ \A j \in 1..Len(q) - i : t[j] = q[i + j]
    <3>1. \A j \in i + 1..Len(q) : q[j] \in S
      BY <1>1
    <3>2. /\ t \in Seq(S) /\ Len(t) = IF i + 1 <= Len(q) THEN Len(q) - (i + 1) + 1 ELSE 0
          /\ \A j \in 1..Len(q) - (i + 1) + 1 : t[j] = q[i + 1 + j - 1]
      BY <1>1, <3>1, SubSeqProperties
    <3> QED BY <1>1, <3>2
  <2>3. r = s \o t
    BY DEF RemoveAt
  <2> HIDE DEF r, s, t
  <2>4. /\ r \in Seq(S) /\ Len(r) = Len(s) + Len(t)
        /\ \A j \in 1..Len(s) + Len(t) : r[j] = IF j <= Len(s) THEN s[j] ELSE t[j - Len(s)]
    BY <2>1, <2>2, <2>3, ConcatProperties
  <2>5. DOMAIN r = 1..Len(q) - 1
    BY <1>1, <2>1, <2>2, <2>4
  <2>6. ASSUME NEW j \in DOMAIN r PROVE r[j] = q[old(j)]
    <3>1. CASE j < i
      BY <1>1, <2>1, <2>2, <2>4, <2>5, <3>1
    <3>2. CASE ~(j < i)
      <4>1. j - Len(s) \in 1..Len(q) - i /\ i + (j - Len(s)) = j + 1
        BY <1>1, <2>1, <2>5, <3>2
      <4>2. r[j] = t[j - Len(s)]
        BY <1>1, <2>1, <2>2, <2>4, <2>5, <3>2
      <4> QED BY <2>2, <3>2, <4>1, <4>2
    <3> QED BY <3>1, <3>2
  <2> QED BY <2>4, <2>5, <2>6
<1> HIDE DEF r
<1>3. \A j \in DOMAIN r : old(j) \in DOMAIN q /\ old(j) # i
  BY <1>1, <1>2
<1>4. \A k \in DOMAIN q : k = i \/ \E j \in DOMAIN r : old(j) = k
  <2>1. TAKE k \in DOMAIN q
  <2>2. CASE k < i
    BY <1>1, <1>2, <2>2
  <2>3. CASE i < k
    <3>1. k - 1 \in DOMAIN r /\ old(k - 1) = k
      BY <1>1, <1>2, <2>3
    <3> QED BY <3>1
  <2> QED BY <1>1, <2>2, <2>3
<1>5. \A j, k \in DOMAIN r : old(j) = old(k) => j = k
  BY <1>1, <1>2
<1> HIDE DEF old
<1>6. ToSet(r) \subseteq ToSet(q) /\ ToSet(q) \subseteq ToSet(r) \cup {q[i]}
  BY <1>2, <1>3, <1>4 DEF ToSet
<1>7. ASSUME OneEach(q)
      PROVE  OneEach(r) /\ (q[i].cmd # None => \A e \in ToSet(r) : e.cmd # q[i].cmd)
  <2>1. OneEach(r)
    BY <1>2, <1>3, <1>5, <1>7 DEF OneEach
  <2>2. ASSUME q[i].cmd # None, NEW j \in DOMAIN r PROVE r[j].cmd # q[i].cmd
    BY <1>2, <1>3, <1>7, <2>2 DEF OneEach
  <2> QED BY <2>1, <2>2 DEF ToSet
<1> QED BY <1>2, <1>6, <1>7 DEF r
LEMMA CommandsFact ==
  ASSUME NEW q \in Seq(Cmd)
  PROVE  /\ Commands(q) \in Seq(InputRecords)
         /\ ToSet(Commands(q)) = {Command(c) : c \in ToSet(q)}
         /\ IsInjective(q) => OneEach(Commands(q))
<1>1. /\ DOMAIN Commands(q) = DOMAIN q /\ DOMAIN q = 1..Len(q) /\ Len(q) \in Nat
      /\ \A i \in DOMAIN q : Commands(q)[i] = Command(q[i]) /\ q[i] \in Cmd
  BY DEF Commands
<1>2. \A c \in Cmd : Command(c) \in InputRecords /\ Command(c).cmd = c
  BY DEF Command, InputRecords, InputTypes
<1>3. Commands(q) \in [1..Len(q) -> InputRecords]
  BY <1>1, <1>2 DEF Commands
<1>4. ToSet(Commands(q)) = {Command(c) : c \in ToSet(q)}
  BY <1>1 DEF ToSet
<1>5. IsInjective(q) => OneEach(Commands(q))
  BY <1>1, <1>2 DEF OneEach, IsInjective
<1> QED BY <1>1, <1>3, <1>4, <1>5

(* The least of a set of positions.                                        *)
LEMMA LeastFact ==
  ASSUME NEW n \in Nat, NEW I \in SUBSET (1..n), I # {}
  PROVE  \E i \in I : \A j \in I : i <= j
<1>1. /\ Cardinality(I) \in Nat /\ IsFiniteSet(I)
      /\ \A i \in I : Rank(I, i) \in 1..Cardinality(I)
      /\ \A k \in 1..Cardinality(I) : \E i \in I : Rank(I, i) = k
  BY RankFact
<1>2. 1 \in 1..Cardinality(I)
  <2>1. PICK i \in I : TRUE
    OBVIOUS
  <2>2. Rank(I, i) \in 1..Cardinality(I)
    BY <1>1
  <2> QED BY <1>1, <2>2
<1>3. PICK i \in I : Rank(I, i) = 1
  BY <1>1, <1>2
<1>4. ASSUME NEW j \in I, j < i PROVE FALSE
  <2> DEFINE J == {k \in I : k <= i}
  <2>1. IsFiniteSet(J) /\ Cardinality(J) = 1
    BY <1>1, <1>3, FS_Subset DEF Rank
  <2>2. {i} \in SUBSET J /\ Cardinality({i}) = 1
    BY FS_Singleton
  <2>3. J = {i}
    BY <2>1, <2>2, FS_Subset
  <2>4. j \in J /\ j # i
    BY <1>4
  <2> QED BY <2>3, <2>4
<1> QED BY <1>4
LEMMA PopFact ==
  ASSUME NEW S, NEW q \in Seq(S), NEW x \in S
  PROVE  RemoveAt(<<x>> \o q, 1) = q
<1> DEFINE s == <<x>> \o q
           t == SubSeq(s, 2, Len(s))
<1>1. /\ <<x>> \in Seq(S) /\ Len(<<x>>) = 1 /\ Len(q) \in Nat
  OBVIOUS
<1>2. /\ s \in Seq(S) /\ Len(s) = Len(q) + 1
      /\ \A i \in 1..Len(q) + 1 : s[i] = IF i <= 1 THEN <<x>>[i] ELSE q[i - 1]
  BY <1>1, ConcatProperties
<1>3. SubSeq(s, 1, 0) = <<>>
  BY SubSeqEmpty
<1>4. RemoveAt(s, 1) = SubSeq(s, 1, 0) \o t
  BY DEF RemoveAt
<1> HIDE DEF s
<1>5. \A i \in 2..Len(s) : s[i] \in S
  BY <1>1, <1>2
<1>6. /\ t \in Seq(S) /\ Len(t) = IF 2 <= Len(s) THEN Len(s) - 2 + 1 ELSE 0
      /\ \A i \in 1..Len(s) - 2 + 1 : t[i] = s[2 + i - 1]
  BY <1>1, <1>2, <1>5, SubSeqProperties
<1> HIDE DEF t
<1>7. Len(t) = Len(q)
  BY <1>1, <1>2, <1>6
<1>8. \A i \in 1..Len(t) : t[i] = q[i]
  <2>1. TAKE i \in 1..Len(t)
  <2>2. t[i] = s[i + 1]
    BY <1>1, <1>2, <1>6, <1>7
  <2>3. i + 1 \in 1..Len(q) + 1 /\ ~(i + 1 <= 1) /\ i + 1 - 1 = i
    BY <1>1, <1>7
  <2> QED BY <1>2, <2>2, <2>3
<1>9. t = q
  BY <1>6, <1>7, <1>8, SeqEqual
<1>10. <<>> \o t = t
  BY <1>6, ConcatEmptySeq
<1> QED BY <1>3, <1>4, <1>9, <1>10 DEF s

(* What the loop looks at: the inputs behind the settlements that came.    *)
LEMMA FlushedFact ==
  ASSUME TypeOK
  PROVE  /\ Flushed \in Seq(InputRecords)
         /\ Settlements(fresh) \in InputRecords /\ Settlements(fresh).cmd = None
         /\ fresh = {} => Flushed = inputs
         /\ fresh # {} => Flushed = <<Settlements(fresh)>> \o inputs /\ Flushed[1] = Settlements(fresh)
         /\ OneEach(inputs) => OneEach(Flushed)
<1>1. inputs \in Seq(InputRecords) /\ fresh \subseteq Task
  BY DEF TypeOK
<1>2. /\ Settlements(fresh) \in InputRecords /\ Settlements(fresh).cmd = None
  BY <1>1 DEF Settlements, InputRecords, InputTypes
<1> DEFINE s == Settlements(fresh)
<1> HIDE DEF s
<1>3. <<s>> \o inputs \in Seq(InputRecords) /\ (OneEach(inputs) => OneEach(<<s>> \o inputs))
  BY <1>1, <1>2, PushFact DEF s
<1>4. (<<s>> \o inputs)[1] = s
  BY <1>1, <1>2, ConcatProperties DEF s
<1> QED BY <1>1, <1>2, <1>3, <1>4 DEF Flushed, s

(* The input at hand, and what it leaves.                                  *)
LEMMA TakenFact ==
  ASSUME TypeOK, Runnable(Flushed) # {}
  PROVE  /\ TakenInput \in InputRecords
         /\ Rest \in Seq(InputRecords)
         /\ ToSet(Rest) \subseteq Entries
         /\ Entries \subseteq ToSet(Rest) \cup {TakenInput}
         /\ fresh # {} => TakenInput = Settlements(fresh)
         /\ fresh = {} => TakenInput \in Entries
         /\ Open => RunnableWhileOpen(TakenInput)
         /\ OneEach(inputs) =>
              /\ OneEach(Rest)
              /\ TakenInput.cmd # None => \A e \in ToSet(Rest) : e.cmd # TakenInput.cmd
<1> DEFINE i == FirstRunnable(Flushed)
<1>1. Flushed \in Seq(InputRecords) /\ Len(Flushed) \in Nat /\ DOMAIN Flushed = 1..Len(Flushed)
  BY FlushedFact
<1>2. Runnable(Flushed) \in SUBSET (1..Len(Flushed))
  BY <1>1 DEF Runnable
<1>3. i \in Runnable(Flushed) /\ \A j \in Runnable(Flushed) : i <= j
  BY <1>1, <1>2, LeastFact DEF FirstRunnable
<1> HIDE DEF i
<1>4. i \in DOMAIN Flushed /\ TakenInput = Flushed[i] /\ Rest = RemoveAt(Flushed, i)
  BY <1>1, <1>2, <1>3 DEF TakenInput, Rest, i
<1>5. TakenInput \in InputRecords
  BY <1>1, <1>4
<1>6. Open => RunnableWhileOpen(TakenInput)
  BY <1>3, <1>4 DEF Runnable
<1>7. /\ Rest \in Seq(InputRecords)
      /\ ToSet(Rest) \subseteq ToSet(Flushed) /\ ToSet(Flushed) \subseteq ToSet(Rest) \cup {TakenInput}
      /\ OneEach(Flushed) =>
           /\ OneEach(Rest)
           /\ TakenInput.cmd # None => \A e \in ToSet(Rest) : e.cmd # TakenInput.cmd
  BY <1>1, <1>4, RemoveAtFact
<1>8. CASE fresh = {}
  <2>1. Flushed = inputs /\ TakenInput \in ToSet(Flushed)
    BY <1>4, <1>8, FlushedFact DEF ToSet
  <2> QED BY <1>5, <1>6, <1>7, <1>8, <2>1 DEF Entries
<1>9. CASE fresh # {}
  <2>1. /\ Flushed = <<Settlements(fresh)>> \o inputs /\ Flushed[1] = Settlements(fresh)
        /\ OneEach(inputs) => OneEach(Flushed)
    BY <1>9, FlushedFact
  <2>2. 1 \in Runnable(Flushed)
    <3>1. 1 \in DOMAIN Flushed
      BY <1>1, <1>4
    <3>2. RunnableWhileOpen(Settlements(fresh))
      BY DEF RunnableWhileOpen, Settlements
    <3> QED BY <2>1, <3>1, <3>2 DEF Runnable
  <2>3. i = 1
    BY <1>1, <1>3, <1>4, <2>2
  <2>4. Rest = inputs
    <3>1. inputs \in Seq(InputRecords) /\ Settlements(fresh) \in InputRecords
      BY FlushedFact DEF TypeOK
    <3> QED BY <1>4, <2>1, <2>3, <3>1, PopFact
  <2>5. TakenInput = Settlements(fresh)
    BY <1>4, <2>1, <2>3
  <2> QED BY <1>5, <1>6, <1>7, <1>9, <2>1, <2>4, <2>5 DEF Entries
<1> QED BY <1>8, <1>9
-----------------------------------------------------------------------------
(* The entries of parentInputs, step by step.                              *)
Fits(e) == (e.type = "user_command" <=> e.cmd # None) /\ e.tasks \cap Unused = {}

InputsFit == inputs' \in Seq(InputRecords) /\ \A e \in ToSet(inputs') : Fits(e)

LEMMA InputFact ==
  ASSUME NEW ty \in InputTypes \ {"user_command"}
  PROVE  /\ Input(ty) \in InputRecords /\ Fits(Input(ty))
         /\ Input(ty).type = ty /\ Input(ty).cmd = None /\ Input(ty).tasks = {}
BY DEF Input, InputRecords, Fits

LEMMA CommandFact ==
  ASSUME NEW c \in Cmd
  PROVE  /\ Command(c) \in InputRecords /\ Fits(Command(c))
         /\ Command(c).type = "user_command" /\ Command(c).cmd = c /\ c # None
         /\ Command(c).tasks = {}
BY TurnLoopAssumption DEF Command, InputRecords, InputTypes, Fits

LEMMA SettlementsFact ==
  ASSUME NEW S \in SUBSET Task
  PROVE  /\ Settlements(S) \in InputRecords
         /\ Settlements(S).type = "task_settlements"
         /\ Settlements(S).cmd = None /\ Settlements(S).tasks = S
         /\ S \cap Unused = {} => Fits(Settlements(S))
BY DEF Settlements, InputRecords, InputTypes, Fits

(* Queues made of the entries of parentInputs, or of some of them.         *)
LEMMA SubFact ==
  ASSUME TInv
  PROVE  /\ inputs \in Seq(InputRecords)
         /\ \A e \in Entries : Fits(e) /\ e \in InputRecords
         /\ \A c \in Cmd : /\ DropCmd(inputs, c) \in Seq(InputRecords)
                           /\ ToSet(DropCmd(inputs, c)) = {e \in Entries : e.cmd # c}
         /\ \A ty \in InputTypes : /\ DropType(inputs, ty) \in Seq(InputRecords)
                                   /\ ToSet(DropType(inputs, ty)) = {e \in Entries : e.type # ty}
         /\ NoFollowUps(inputs) \in Seq(InputRecords)
         /\ ToSet(NoFollowUps(inputs)) = {e \in Entries : ~IsFollowUp(e)}
<1>1. inputs \in Seq(InputRecords)
  BY DEF TInv, TypeOK
<1>2. \A I \in SUBSET DOMAIN inputs :
        /\ Picked(inputs, I) \in Seq(InputRecords)
        /\ ToSet(Picked(inputs, I)) = {inputs[i] : i \in I}
  BY <1>1, PickedFact
<1>3. ASSUME NEW c \in Cmd
      PROVE  /\ DropCmd(inputs, c) \in Seq(InputRecords)
             /\ ToSet(DropCmd(inputs, c)) = {e \in Entries : e.cmd # c}
  <2> DEFINE I == {i \in DOMAIN inputs : inputs[i].cmd # c}
  <2>1. {inputs[i] : i \in I} = {e \in Entries : e.cmd # c}
    BY DEF Entries, ToSet
  <2> QED BY <1>2, <2>1 DEF DropCmd
<1>4. ASSUME NEW ty \in InputTypes
      PROVE  /\ DropType(inputs, ty) \in Seq(InputRecords)
             /\ ToSet(DropType(inputs, ty)) = {e \in Entries : e.type # ty}
  <2> DEFINE I == {i \in DOMAIN inputs : inputs[i].type # ty}
  <2>1. {inputs[i] : i \in I} = {e \in Entries : e.type # ty}
    BY DEF Entries, ToSet
  <2> QED BY <1>2, <2>1 DEF DropType
<1>5. /\ NoFollowUps(inputs) \in Seq(InputRecords)
      /\ ToSet(NoFollowUps(inputs)) = {e \in Entries : ~IsFollowUp(e)}
  <2> DEFINE I == {i \in DOMAIN inputs : ~IsFollowUp(inputs[i])}
  <2>1. {inputs[i] : i \in I} = {e \in Entries : ~IsFollowUp(e)}
    BY DEF Entries, ToSet
  <2> QED BY <1>2, <2>1 DEF NoFollowUps
<1>6. \A e \in Entries : Fits(e) /\ e \in InputRecords
  BY <1>1 DEF TInv, EntriesOK, Fits, Entries, ToSet
<1> QED BY <1>1, <1>3, <1>4, <1>5, <1>6

(* The heads of the turn.                                                  *)
LEMMA BeginFact ==
  ASSUME TInv, NEW x \in InputRecords, Fits(x), BeginTurn(x)
  PROVE  /\ InputsFit
         /\ Restored \in Seq(InputRecords) /\ Append(inputs, x) \in Seq(InputRecords)
         /\ ToSet(inputs') = Entries \cup {x} \cup ToSet(Restored)
         /\ \A e \in ToSet(Restored) : \E c \in ToSet(followUps) : e = Command(c)
<1>1. /\ Append(inputs, x) \in Seq(InputRecords)
      /\ ToSet(Append(inputs, x)) = Entries \cup {x}
  BY SubFact, AppendFact DEF Entries
<1>2. followUps \in Seq(Cmd)
  BY DEF TInv, TypeOK
<1>3. \A c \in ToSet(followUps) : c \in Cmd
  BY <1>2 DEF ToSet
<1>4. /\ Restored \in Seq(InputRecords)
      /\ \A e \in ToSet(Restored) : \E c \in ToSet(followUps) : e = Command(c)
  <2>1. <<>> \in Seq(InputRecords) /\ ToSet(<<>>) = {}
    BY DEF ToSet
  <2> QED BY <1>2, <2>1, CommandsFact DEF Restored
<1>5. /\ inputs' \in Seq(InputRecords)
      /\ ToSet(inputs') = ToSet(Append(inputs, x)) \cup ToSet(Restored)
  BY <1>1, <1>4, ConcatFact DEF BeginTurn
<1>6. \A e \in ToSet(inputs') : Fits(e)
  BY <1>1, <1>3, <1>4, <1>5, SubFact, CommandFact
<1> QED BY <1>1, <1>4, <1>5, <1>6 DEF InputsFit

LEMMA JoinFact ==
  ASSUME TInv, NEW c \in Cmd, inputs' = KeepCommand(c)
  PROVE  InputsFit /\ ToSet(inputs') = Entries \cup {Command(c)}
BY SubFact, CommandFact, AppendFact DEF KeepCommand, InputsFit, Entries

LEMMA EditFact ==
  ASSUME TInv, NEW c \in Cmd, EditFollowUps(c)
  PROVE  /\ InputsFit
         /\ followUps' \in Seq(Cmd)
         /\ ToSet(followUps') = ToSet(followUps) \ {c}
         /\ ToSet(inputs') = {e \in Entries : ~IsFollowUp(e)} \cup
                             IF pc = "idle" THEN {} ELSE {Command(d) : d \in ToSet(followUps')}
<1>1. followUps \in Seq(Cmd)
  BY DEF TInv, TypeOK
<1>2. followUps' \in Seq(Cmd) /\ ToSet(followUps') = ToSet(followUps) \ {c}
  <2> DEFINE I == {i \in DOMAIN followUps : followUps[i] # c}
  <2>1. {followUps[i] : i \in I} = ToSet(followUps) \ {c}
    BY DEF ToSet
  <2>2. followUps' = Picked(followUps, I)
    BY DEF EditFollowUps, Without
  <2> QED BY <1>1, <2>1, <2>2, PickedFact
<1> DEFINE given == IF pc = "idle" THEN <<>> ELSE Commands(followUps')
<1>3. /\ given \in Seq(InputRecords)
      /\ ToSet(given) = IF pc = "idle" THEN {} ELSE {Command(d) : d \in ToSet(followUps')}
  <2>1. <<>> \in Seq(InputRecords) /\ ToSet(<<>>) = {}
    BY DEF ToSet
  <2>2. /\ Commands(followUps') \in Seq(InputRecords)
        /\ ToSet(Commands(followUps')) = {Command(d) : d \in ToSet(followUps')}
    BY <1>2, CommandsFact
  <2> QED BY <2>1, <2>2
<1>4. inputs' = NoFollowUps(inputs) \o given
  BY DEF EditFollowUps
<1> HIDE DEF given
<1>5. inputs' \in Seq(InputRecords) /\ ToSet(inputs') = ToSet(NoFollowUps(inputs)) \cup ToSet(given)
  BY <1>3, <1>4, SubFact, ConcatFact
<1>6. \A d \in ToSet(followUps') : d \in Cmd
  BY <1>2 DEF ToSet
<1>7. \A e \in ToSet(inputs') : Fits(e)
  BY <1>3, <1>5, <1>6, SubFact, CommandFact
<1> QED BY <1>2, <1>3, <1>5, <1>7, SubFact DEF InputsFit
(* What a result adds to the queue q that it was given.                    *)
LEMMA AddsFact ==
  ASSUME NEW q \in Seq(InputRecords), \A e \in ToSet(q) : Fits(e),
         NEW ty \in InputTypes \ {"user_command"},
         inputs' = Append(q, Input(ty)) \/ inputs' = <<Input(ty)>> \o q \/ inputs' = q
  PROVE  /\ InputsFit
         /\ ToSet(q) \subseteq ToSet(inputs') /\ ToSet(inputs') \subseteq ToSet(q) \cup {Input(ty)}
         /\ OneEach(q) => OneEach(inputs')
<1>1. Input(ty) \in InputRecords /\ Fits(Input(ty)) /\ Input(ty).cmd = None
  BY InputFact
<1> DEFINE x == Input(ty)
<1> HIDE DEF x
<1>2. CASE inputs' = Append(q, x)
  BY <1>1, <1>2, AppendFact DEF InputsFit, x
<1>3. CASE inputs' = <<x>> \o q
  BY <1>1, <1>3, PushFact DEF InputsFit, x
<1>4. CASE inputs' = q
  BY <1>4 DEF InputsFit
<1> QED BY <1>2, <1>3, <1>4 DEF x

LEMMA TerminalFact ==
  ASSUME NEW q \in Seq(InputRecords), \A e \in ToSet(q) : Fits(e),
         NEW status, ResultTerminal(status, q)
  PROVE  /\ InputsFit
         /\ ToSet(q) \subseteq ToSet(inputs')
         /\ ToSet(inputs') \subseteq ToSet(q) \cup {Input("terminal_acknowledgment")}
         /\ OneEach(q) => OneEach(inputs')
<1>1. inputs' = Append(q, Input("terminal_acknowledgment")) \/ inputs' = q
  BY DEF ResultTerminal
<1>2. "terminal_acknowledgment" \in InputTypes \ {"user_command"}
  BY DEF InputTypes
<1> QED BY <1>1, <1>2, AddsFact

LEMMA CompletedFact ==
  ASSUME NEW q \in Seq(InputRecords), \A e \in ToSet(q) : Fits(e), ResultStateCompleted(q)
  PROVE  /\ InputsFit
         /\ ToSet(q) \subseteq ToSet(inputs')
         /\ ToSet(inputs') \subseteq ToSet(q) \cup {Input("transition_enforcement")}
         /\ OneEach(q) => OneEach(inputs')
BY AddsFact DEF ResultStateCompleted, InputTypes

(* What the loop took leaves entries of parentInputs.                      *)
LEMMA RestFact ==
  ASSUME TInv, Runnable(Flushed) # {}
  PROVE  /\ Rest \in Seq(InputRecords) /\ \A e \in ToSet(Rest) : Fits(e)
         /\ TakenInput \in InputRecords
         /\ Fits(TakenInput)
<1>1. TypeOK /\ \A e \in Entries : Fits(e)
  BY SubFact DEF TInv
<1>2. fresh \in SUBSET Task /\ fresh \cap Unused = {}
  BY DEF TInv, TypeOK, StartedOK
<1> QED BY <1>1, <1>2, TakenFact, SettlementsFact

LEMMA UnusedShrinks ==
  ASSUME TypeOK, Next
  PROVE  Unused' \subseteq Unused
<1>1. task \in [Task -> {"new", "running", "scheduled", "settled"}]
  BY DEF TypeOK
<1>2. SUFFICES ASSUME NEW t \in Task, task[t] # "new" PROVE task'[t] # "new"
  BY DEF Unused
<1>3. CASE UNCHANGED task
  BY <1>2, <1>3
<1>4. CASE Interrupt
  BY <1>1, <1>2, <1>4 DEF Interrupt, InterruptTasks
<1>5. ASSUME NEW u \in Task, Settle(u) PROVE task'[t] # "new"
  BY <1>1, <1>2, <1>5 DEF Settle
<1>6. ASSUME NEW u \in Task, PassStartsTask(u) PROVE task'[t] # "new"
  BY <1>1, <1>2, <1>6 DEF PassStartsTask
<1>7. CASE CleanupPassThrows
  BY <1>1, <1>2, <1>7 DEF CleanupPassThrows, StopEverything
<1>8. \A u \in Task, how \in {"running", "scheduled"} :
        CancelScheduled(StartIn(task, u, how)) \/ CancelScheduled(task) => task'[t] # "new"
  BY <1>1, <1>2 DEF CancelScheduled, StartIn
<1>9. Unused \subseteq Task
  BY DEF Unused
<1>10. ASSUME NEW k \in StateKinds, StateSelected(k) PROVE task'[t] # "new"
  BY <1>8, <1>9, <1>10 DEF StateSelected, Execute
<1>11. CASE TakeWake
  BY <1>3, <1>8, <1>9, <1>11 DEF TakeWake
<1>12. CASE TakeStateSettlement
  BY <1>1, <1>2, <1>3, <1>12 DEF TakeStateSettlement, Rescheduled
<1>13. CASE LoopStep
  BY <1>3, <1>11, <1>12, <1>13 DEF LoopStep, TakeCommand, TakeTaskSettlements, TakeContinuation,
       QueueCleanup, LoopWaits, LoopWakes, QueueEnforcement, QueueNudge, LoopExits, LoopCleansUp,
       MemoryUpdated, TurnEnds, TurnReturns, idleFrame, taskVars
<1>14. CASE PassStep
  BY <1>3, <1>7, <1>14 DEF PassStep, PassInterrupted, PassAsks, PassSelects, PassEnds,
       EnforceAgain, PauseRelay, passFrame, taskVars
<1>15. CASE ModelStep
  BY <1>3, <1>6, <1>15 DEF ModelStep, PiReads, PassStopsTask, ControlTool, taskVars
<1>16. CASE UserStep
  BY <1>3, <1>4, <1>16 DEF UserStep, TurnCalled, EditFollowUps, WakeStarts, taskVars
<1>17. CASE PromptStarts \/ Joins \/ IdleInterruptReports
  BY <1>3, <1>17 DEF PromptStarts, Joins, TurnStarts, TurnJoins, IdleInterruptReports, taskVars
<1> QED BY <1>5, <1>10, <1>13, <1>14, <1>15, <1>16, <1>17 DEF Next, Select
-----------------------------------------------------------------------------
(* The types.                                                              *)
LEMMA InitTInv == Init => TInv
<1> SUFFICES ASSUME Init PROVE TInv
  OBVIOUS
<1>1. inputs \in Seq(InputRecords) /\ followUps \in Seq(Cmd) /\ Entries = {}
  BY DEF Init, Entries, ToSet
<1>2. /\ interrupts \in 0..MaxInterrupts /\ wakes \in 0..MaxWakes
      /\ selects \in 0..MaxSelects /\ attempt \in 0..RetryBudget
  BY TurnLoopAssumption DEF Init
<1>3. TypeOK
  BY <1>1, <1>2 DEF Init, TypeOK, CmdStates, Behaviors, LoopStates, Statuses, StateKinds,
                    Terminals
<1> QED BY <1>1, <1>3 DEF Init, TInv, EntriesOK, StartedOK, PassOK

LEMMA EntriesStep ==
  ASSUME TypeOK, InputsFit, Next
  PROVE  EntriesOK'
BY UnusedShrinks DEF EntriesOK, InputsFit, Fits, Entries

LEMMA SameInputs ==
  ASSUME TInv, UNCHANGED inputs
  PROVE  InputsFit
BY SubFact DEF InputsFit, Entries

(* All but the inputs.                                                     *)
Rest3 == TypeOK /\ StartedOK /\ PassOK

LEMMA UserTypes ==
  ASSUME TInv, UserStep \/ Joins \/ IdleInterruptReports
  PROVE  InputsFit /\ Rest3'
<1> USE DEF TInv, Rest3
<1>1. ASSUME NEW c \in Cmd, NEW b \in Behaviors, TurnCalled(c, b) PROVE InputsFit /\ Rest3'
  <2>1. InputsFit
    BY <1>1, SameInputs DEF TurnCalled
  <2> QED BY <1>1, <2>1 DEF TurnCalled, TypeOK, StartedOK, PassOK, CmdStates, Unused,
               taskVars, passVars, intrVars, turnVars, relayVars, endVars, boundVars
<1>2. ASSUME NEW c \in Cmd, TurnStarts(c) PROVE InputsFit /\ Rest3'
  <2>1. InputsFit
    BY <1>2, BeginFact, CommandFact DEF TurnStarts
  <2> QED BY <1>2, <2>1 DEF TurnStarts, BeginTurn, TypeOK, StartedOK, PassOK, CmdStates, Unused,
               InputsFit, Statuses, LoopStates, taskVars, passVars, boundVars
<1>3. CASE WakeStarts
  <2>1. InputsFit
    BY <1>3, BeginFact, InputFact DEF WakeStarts, InputTypes
  <2>2. wakes' \in 0..MaxWakes
    BY <1>3, TurnLoopAssumption DEF WakeStarts, TypeOK
  <2> QED BY <1>3, <2>1, <2>2
          DEF WakeStarts, BeginTurn, TypeOK, StartedOK, PassOK, Unused,
               InputsFit, Statuses, LoopStates, taskVars, passVars, boundVars
<1>4. ASSUME NEW c \in Cmd, TurnJoins(c) PROVE InputsFit /\ Rest3'
  <2>1. InputsFit
    BY <1>4, JoinFact DEF TurnJoins
  <2>2. followUps' \in Seq(Cmd)
    BY <1>4 DEF TurnJoins, TypeOK
  <2> QED BY <1>4, <2>1, <2>2 DEF TurnJoins, TypeOK, StartedOK, PassOK, CmdStates, Unused,
               InputsFit, taskVars, passVars, intrVars, relayVars, endVars, boundVars
<1>5. ASSUME NEW c \in Cmd, EditFollowUps(c) PROVE InputsFit /\ Rest3'
  <2>1. InputsFit /\ followUps' \in Seq(Cmd)
    BY <1>5, EditFact
  <2>2. \A d \in ToSet(followUps') : d \in Cmd
    BY <2>1 DEF ToSet
  <2>3. inPi' \subseteq Cmd /\ (inPi' # {} => running)
    BY <1>5, <2>2 DEF EditFollowUps, TypeOK, PassOK
  <2>4. StartedOK' /\ PassOK'
    BY <1>5, <2>3 DEF EditFollowUps, StartedOK, PassOK, Unused, taskVars, passVars, boundVars
  <2>5. TypeOK'
    BY <1>5, <2>1, <2>3 DEF EditFollowUps, TypeOK, CmdStates, InputsFit, taskVars, passVars,
       intrVars, relayVars, endVars, boundVars
  <2> QED BY <2>1, <2>4, <2>5
<1>6. CASE Interrupt
  <2>1. inputs' = <<>> /\ followUps' = <<>>
    BY <1>6 DEF Interrupt, ClearedFollowUps
  <2>2. InputsFit /\ followUps' \in Seq(Cmd)
    BY <2>1 DEF InputsFit, ToSet
  <2>3. PICK held \in SUBSET fresh : InterruptTasks(held)
    BY <1>6 DEF Interrupt
  <2>4. interrupts' \in 0..MaxInterrupts
    BY <1>6, TurnLoopAssumption DEF Interrupt, TypeOK
  <2>5. StartedOK'
    BY <2>3, <1>6 DEF InterruptTasks, Interrupt, TypeOK, StartedOK, Unused, Scheduled, Running
  <2>6. /\ task' \in [Task -> {"new", "running", "scheduled", "settled"}]
        /\ stopped' \subseteq Task /\ fresh' \subseteq Task /\ ignored' \subseteq Task
        /\ cleaning' \subseteq Task
        /\ current' \in StateKinds \cup {"none", "interrupted"} /\ orphaned' \in BOOLEAN
    BY <2>3 DEF InterruptTasks, TypeOK, InterruptTargets, Scheduled, Running
  <2>7. PassOK'
    BY <1>6 DEF Interrupt, PassOK
  <2>8. cmd' \in [Cmd -> CmdStates]
    BY <1>6 DEF Interrupt, TypeOK, CmdStates
  <2>9. {woken', running', parentInterrupted', aborted', reason', idleCleanup', emitted'}
          \subseteq BOOLEAN
    BY <1>6 DEF Interrupt, TypeOK
  <2>10. TypeOK'
    BY <1>6, <2>2, <2>4, <2>6, <2>8, <2>9 DEF Interrupt, TypeOK, InputsFit
  <2> QED BY <2>2, <2>5, <2>7, <2>10
<1>7. CASE IdleInterruptReports
  <2>1. InputsFit
    BY <1>7, SameInputs DEF IdleInterruptReports, cmdVars
  <2> QED BY <1>7, <2>1 DEF IdleInterruptReports, Emit, Terminals, Open, TypeOK, StartedOK, PassOK,
               Unused, taskVars, cmdVars, passVars, turnVars, boundVars
<1> QED BY <1>1, <1>2, <1>3, <1>4, <1>5, <1>6, <1>7 DEF UserStep, Joins
LEMMA WorkTypes ==
  ASSUME TInv, PromptStarts \/ ModelStep \/ \E t \in Task : Settle(t)
  PROVE  InputsFit /\ Rest3'
<1> USE DEF TInv, Rest3
<1>1. ASSUME NEW t \in Task, Settle(t) PROVE InputsFit /\ Rest3'
  <2>1. InputsFit
    BY <1>1, SameInputs DEF Settle, cmdVars
  <2> QED BY <1>1, <2>1 DEF Settle, TypeOK, StartedOK, PassOK, Unused, InputsFit,
               cmdVars, passVars, intrVars, relayVars, endVars, boundVars
<1>2. CASE PromptStarts
  <2>1. InputsFit
    BY <1>2, SameInputs DEF PromptStarts, cmdVars
  <2> QED BY <1>2, <2>1 DEF PromptStarts, TypeOK, StartedOK, PassOK, Unused,
               taskVars, cmdVars, intrVars, turnVars, relayVars, endVars, boundVars
<1>3. ASSUME NEW c \in Cmd, PiReads(c) PROVE InputsFit /\ Rest3'
  <2>1. InputsFit
    BY <1>3, SubFact DEF PiReads, Removed, InputsFit
  <2>2. followUps' \in Seq(Cmd)
    <3>1. followUps \in Seq(Cmd)
      BY DEF TypeOK
    <3>2. Picked(followUps, {i \in DOMAIN followUps : followUps[i] # c}) \in Seq(Cmd)
      BY <3>1, PickedFact
    <3> QED BY <1>3, <3>2 DEF PiReads, Without
  <2> QED BY <1>3, <2>1, <2>2 DEF PiReads, TypeOK, StartedOK, PassOK, Unused, CmdStates, InputsFit,
               taskVars, passVars, intrVars, turnVars, relayVars, endVars, boundVars
<1>4. ASSUME NEW t \in Task, PassStartsTask(t) PROVE InputsFit /\ Rest3'
  <2>1. InputsFit
    BY <1>4, SameInputs DEF PassStartsTask, cmdVars
  <2> QED BY <1>4, <2>1 DEF PassStartsTask, TypeOK, StartedOK, PassOK, Unused,
               cmdVars, passVars, intrVars, turnVars, relayVars, endVars, boundVars
<1>5. ASSUME NEW t \in Task, PassStopsTask(t) PROVE InputsFit /\ Rest3'
  <2>1. InputsFit
    BY <1>5, SameInputs DEF PassStopsTask, cmdVars
  <2> QED BY <1>5, <2>1 DEF PassStopsTask, TypeOK, StartedOK, PassOK, Unused,
               cmdVars, passVars, intrVars, turnVars, relayVars, endVars, boundVars
<1>6. ASSUME NEW what \in {"ask", "select"}, ControlTool(what) PROVE InputsFit /\ Rest3'
  <2>1. InputsFit
    BY <1>6, SameInputs DEF ControlTool, cmdVars
  <2>2. PassOK'
    BY <1>6 DEF ControlTool, Prompting, PassOK, cmdVars, turnVars, boundVars
  <2> QED BY <1>6, <2>1, <2>2 DEF ControlTool, TypeOK, StartedOK, Unused,
               taskVars, cmdVars, intrVars, turnVars, relayVars, endVars, boundVars
<1> QED BY <1>1, <1>2, <1>3, <1>4, <1>5, <1>6 DEF ModelStep

(* The loop goes on, or stops because only follow-ups and a wake are left. *)
LEMMA BackFact ==
  ASSUME Back
  PROVE  /\ pc' \in {"exiting", "select"}
         /\ pc' = "exiting" => (Running = {} /\ Scheduled # {} /\ fresh = {})'
BY DEF Back, RetainsFollowUps, PendingWork

LEMMA EndFact ==
  ASSUME TInv, EndPass
  PROVE  /\ pass' = "none" /\ control' = "none" /\ running' = FALSE /\ inPi' = {}
         /\ purpose' = "none" /\ attempt' \in 0..RetryBudget
         /\ parentInterrupted' = FALSE /\ aborted' = FALSE /\ asleep' \in BOOLEAN
         /\ pc = "pass"
BY TurnLoopAssumption DEF TInv, TypeOK, PassOK, EndPass

LEMMA PassTypes ==
  ASSUME TInv, PassStep
  PROVE  InputsFit /\ Rest3'
<1> USE DEF TInv, Rest3
<1>1. ASSUME EndPass, UNCHANGED passFrame, UNCHANGED inputs, Back, reason' \in BOOLEAN,
             questions' \in BOOLEAN, withheld' \in BOOLEAN, completion' \in Statuses
      PROVE  InputsFit /\ Rest3'
  <2>1. InputsFit
    BY <1>1, SameInputs
  <2>2. PassOK'
    BY <1>1, EndFact, BackFact DEF PassOK
  <2>3. StartedOK'
    BY <1>1 DEF StartedOK, Unused, passFrame, taskVars
  <2>4. TypeOK'
    BY <1>1, <2>1, EndFact, BackFact
       DEF TypeOK, LoopStates, InputsFit, passFrame, taskVars, endVars, boundVars
  <2> QED BY <2>1, <2>2, <2>3, <2>4
<1>2. CASE PassInterrupted
  BY <1>1, <1>2 DEF PassInterrupted, ResultInterrupted, TypeOK
<1>3. CASE PassAsks
  BY <1>1, <1>3 DEF PassAsks, ResultAsk, TypeOK
<1>4. CASE PauseRelay
  BY <1>1, <1>4 DEF PauseRelay, ResultAsk, TypeOK
<1>5. ASSUME NEW status \in Statuses, PassEnds(status) PROVE InputsFit /\ Rest3'
  <2>1. CASE purpose = "terminal_acknowledgment"
    BY <1>1, <1>5, <2>1 DEF PassEnds, ResultNone, TypeOK
  <2>2. CASE purpose # "terminal_acknowledgment"
    <3>1. ResultTerminal(status, inputs) /\ EndPass /\ UNCHANGED passFrame
      BY <1>5, <2>2 DEF PassEnds
    <3>2. InputsFit
      BY <3>1, SubFact, TerminalFact DEF Entries
    <3> QED BY <3>1, <3>2, EndFact, BackFact
            DEF ResultTerminal, TypeOK, StartedOK, PassOK, Unused, LoopStates, InputsFit,
                passFrame, taskVars, endVars, boundVars
  <2> QED BY <2>1, <2>2
<1>6. CASE CleanupPassThrows
  <2>1. InputsFit
    BY <1>6, SameInputs DEF CleanupPassThrows
  <2>2. StartedOK'
    BY <1>6 DEF CleanupPassThrows, StopEverything, StartedOK, Unused, Scheduled, TypeOK
  <2>3. /\ task' \in [Task -> {"new", "running", "scheduled", "settled"}]
        /\ fresh' \subseteq Task /\ stopped' \subseteq Task /\ orphaned' \in BOOLEAN
    BY <1>6 DEF CleanupPassThrows, StopEverything, Scheduled, Running, TypeOK
  <2>4. PassOK'
    BY <1>6, EndFact DEF CleanupPassThrows, PassOK
  <2> QED BY <1>6, <2>1, <2>2, <2>3, <2>4, EndFact
          DEF CleanupPassThrows, TypeOK, Statuses, LoopStates, intrVars, boundVars
<1>7. CASE EnforceAgain
  <2>1. InputsFit
    BY <1>7, SameInputs DEF EnforceAgain
  <2>2. attempt' \in 0..RetryBudget
    BY <1>7, TurnLoopAssumption DEF EnforceAgain, StartPass, MayRetry, TypeOK
  <2>3. StartedOK' /\ PassOK'
    BY <1>7 DEF EnforceAgain, StartPass, StartedOK, PassOK, Unused, passFrame, taskVars, boundVars
  <2> QED BY <1>7, <2>1, <2>2, <2>3
          DEF EnforceAgain, StartPass, TypeOK, LoopStates, passFrame, taskVars, endVars, boundVars
<1>8. CASE PassSelects
  <2>1. InputsFit
    BY <1>8, SameInputs DEF PassSelects
  <2>2. StartedOK'
    BY <1>8 DEF PassSelects, Disowned, StartedOK, Unused
  <2>3. PassOK'
    BY <1>8, EndFact DEF PassSelects, PassOK, boundVars
  <2> QED BY <1>8, <2>1, <2>2, <2>3, EndFact
          DEF PassSelects, Disowned, TypeOK, LoopStates, intrVars, endVars, boundVars
<1> QED BY <1>2, <1>3, <1>4, <1>5, <1>6, <1>7, <1>8 DEF PassStep
TaskStatus == {"new", "running", "scheduled", "settled"}

(* What is cancelled settles; at most one task starts with it.             *)
LEMMA CancelFact ==
  ASSUME TypeOK
  PROVE  /\ \A t \in Unused, how \in {"running", "scheduled"} :
              CancelScheduled(StartIn(task, t, how)) =>
                /\ task' \in [Task -> TaskStatus] /\ task'[t] = how /\ t \in Task
                /\ Running' = IF how = "running" THEN Running \cup {t} ELSE Running
                /\ Scheduled' = IF how = "scheduled" THEN {t} ELSE {}
                /\ Unused' = Unused \ {t}
         /\ CancelScheduled(task) =>
                /\ task' \in [Task -> TaskStatus]
                /\ Running' = Running /\ Scheduled' = {} /\ Unused' = Unused
<1> USE DEF TaskStatus
<1>1. ASSUME NEW t \in Unused, NEW how \in {"running", "scheduled"},
             CancelScheduled(StartIn(task, t, how))
      PROVE  /\ task' \in [Task -> TaskStatus] /\ task'[t] = how /\ t \in Task
             /\ Running' = IF how = "running" THEN Running \cup {t} ELSE Running
             /\ Scheduled' = IF how = "scheduled" THEN {t} ELSE {}
             /\ Unused' = Unused \ {t}
  <2>1. /\ t \in Task /\ task[t] = "new" /\ task \in [Task -> TaskStatus]
        /\ task' = [u \in Task |-> IF u \in Scheduled THEN "settled"
                                   ELSE [task EXCEPT ![t] = how][u]]
    BY <1>1 DEF CancelScheduled, StartIn, Unused, TypeOK
  <2>2. \A u \in Task : task'[u] = IF u = t THEN how
                                   ELSE IF task[u] = "scheduled" THEN "settled" ELSE task[u]
    BY <2>1 DEF Scheduled
  <2>3. task' \in [Task -> TaskStatus]
    BY <2>1, <2>2
  <2> QED BY <2>1, <2>2, <2>3 DEF Running, Scheduled, Unused
<1>2. ASSUME CancelScheduled(task)
      PROVE  /\ task' \in [Task -> TaskStatus]
             /\ Running' = Running /\ Scheduled' = {} /\ Unused' = Unused
  BY <1>2 DEF CancelScheduled, Running, Scheduled, Unused, TypeOK
<1> QED BY <1>1, <1>2

LEMMA SelectTypes ==
  ASSUME TInv, Select
  PROVE  InputsFit /\ Rest3'
<1> USE DEF TInv, Rest3
<1>1. PICK k \in StateKinds : StateSelected(k)
  BY DEF Select
<1>2. PICK due \in BOOLEAN : Execute(k, due)
  BY <1>1 DEF StateSelected
<1>3. selects' \in 0..MaxSelects /\ pc = "deciding" /\ pass = "none"
  BY <1>1, TurnLoopAssumption DEF StateSelected, TypeOK, PassOK
<1>4. Unused \subseteq Task /\ Scheduled \subseteq Task /\ Scheduled \cap Unused = {}
  BY DEF Unused, Scheduled
<1>5. /\ PaidInputs \in Seq(InputRecords)
      /\ \A e \in ToSet(PaidInputs) : Fits(e)
  BY SubFact DEF PaidInputs, InputTypes
<1>6. /\ InputsFit /\ Back /\ owed' \in BOOLEAN /\ nudged' \in BOOLEAN
      /\ reminded' \subseteq Task /\ reason' \in BOOLEAN /\ questions' \in BOOLEAN
      /\ completion' \in Statuses /\ withheld' \in BOOLEAN
      /\ \/ \E t \in Unused, how \in {"running", "scheduled"} :
              CancelScheduled(StartIn(task, t, how)) /\ stateTasks' \subseteq stateTasks \cup {t}
              /\ (how = "running" \/ stateTasks' = stateTasks)
         \/ CancelScheduled(task) /\ stateTasks' = stateTasks
  <2>1. inputs' = PaidInputs => InputsFit
    BY <1>5 DEF InputsFit
  <2>2. ResultStateCompleted(PaidInputs) => InputsFit
    BY <1>5, CompletedFact
  <2>3. \A status \in Statuses : ResultTerminal(status, PaidInputs) => InputsFit
    BY <1>5, TerminalFact
  <2>4. CASE k \in {"task", "poll"}
    BY <1>2, <2>1, <2>4 DEF Execute, TypeOK
  <2>5. CASE k = "timer"
    BY <1>2, <2>1, <2>2, <2>5 DEF Execute, ResultStateCompleted, TypeOK
  <2>6. CASE k = "park"
    BY <1>2, <2>1, <2>6 DEF Execute, TypeOK
  <2>7. CASE k = "terminal"
    BY <1>2, <2>3, <2>7 DEF Execute, ResultTerminal, TypeOK, Statuses
  <2> QED BY <2>4, <2>5, <2>6, <2>7 DEF StateKinds
<1>7. /\ task' \in [Task -> TaskStatus] /\ stateTasks' \subseteq Task
      /\ fresh' = fresh \cup Scheduled /\ ignored' = ignored \cup Scheduled
      /\ Unused' \subseteq Unused /\ stateTasks' \cap Unused' = {}
  <2>1. \A t \in Unused, how \in {"running", "scheduled"} :
          CancelScheduled(StartIn(task, t, how)) \/ CancelScheduled(task) =>
            fresh' = fresh \cup Scheduled /\ ignored' = ignored \cup Scheduled
    BY DEF CancelScheduled
  <2>2. CancelScheduled(task) => fresh' = fresh \cup Scheduled /\ ignored' = ignored \cup Scheduled
    BY DEF CancelScheduled
  <2>3. stateTasks \subseteq Task /\ stateTasks \cap Unused = {}
    BY DEF TypeOK, StartedOK
  <2> QED BY <1>4, <1>6, <2>1, <2>2, <2>3, CancelFact
<1>8. StartedOK'
  BY <1>4, <1>7 DEF StartedOK
<1>9. PassOK'
  BY <1>1, <1>3, <1>6, BackFact DEF StateSelected, PassOK, passVars
<1>10. TypeOK'
  <2>1. pc' \in LoopStates
    BY <1>6, BackFact DEF LoopStates
  <2>2. machine' \in {"none", "live", "terminal"} /\ acked' \in BOOLEAN
        /\ current' \in StateKinds \cup {"none", "interrupted"} /\ orphaned' = FALSE
    BY <1>1 DEF StateSelected, TypeOK
  <2>3. fresh' \subseteq Task /\ ignored' \subseteq Task
    BY <1>4, <1>7 DEF TypeOK
  <2>4. UNCHANGED <<stopped, cmd, reads, behavior, inPi, followUps, passVars, cleaning,
                    idleCleanup, woken, asleep, emitted, last, interrupts, wakes>>
    BY <1>1 DEF StateSelected
  <2>5. {woken', running', parentInterrupted', aborted', reason', idleCleanup', questions',
         withheld', owed', acked', nudged', asleep', emitted', orphaned'} \subseteq BOOLEAN
    BY <1>6, <2>2, <2>4 DEF TypeOK, passVars
  <2>6. inputs' \in Seq(InputRecords)
    BY <1>6 DEF InputsFit
  <2> QED BY <1>3, <1>6, <1>7, <2>1, <2>2, <2>3, <2>4, <2>5, <2>6
          DEF TypeOK, TaskStatus, passVars
<1> QED BY <1>6, <1>8, <1>9, <1>10
(* A loop that finds nothing to run has taken every settlement.            *)
LEMMA NoInputFact ==
  ASSUME TypeOK, NoInput
  PROVE  fresh = {} /\ Flushed = inputs /\ (~Open => inputs = <<>>)
<1>1. Flushed \in Seq(InputRecords) /\ DOMAIN Flushed = 1..Len(Flushed) /\ Len(Flushed) \in Nat
  BY FlushedFact
<1>2. ASSUME fresh # {} PROVE FALSE
  <2>1. Flushed[1] = Settlements(fresh) /\ Flushed = <<Settlements(fresh)>> \o inputs
        /\ Settlements(fresh) \in InputRecords /\ inputs \in Seq(InputRecords)
    BY <1>2, FlushedFact DEF TypeOK
  <2>2. 1 \in DOMAIN Flushed
    BY <1>1, <2>1, ConcatProperties
  <2>3. 1 \in Runnable(Flushed)
    BY <2>1, <2>2 DEF Runnable, RunnableWhileOpen, Settlements
  <2> QED BY <2>3 DEF NoInput
<1>3. Flushed = inputs
  BY <1>2, FlushedFact
<1>4. ASSUME ~Open PROVE inputs = <<>>
  <2>1. DOMAIN Flushed = {}
    BY <1>4 DEF NoInput, Runnable
  <2>2. Len(inputs) = 0
    BY <1>1, <1>3, <2>1
  <2> QED BY <1>1, <1>3, <2>2, EmptySeq
<1> QED BY <1>2, <1>3, <1>4

LEMMA TakeTypes ==
  ASSUME TInv, \/ TakeCommand \/ TakeTaskSettlements \/ TakeStateSettlement \/ TakeWake
               \/ \E type \in Continuations : TakeContinuation(type)
  PROVE  InputsFit /\ Rest3'
<1> USE DEF TInv, Rest3
<1>1. Runnable(Flushed) # {} /\ Looping /\ fresh' \subseteq Task
  BY DEF TakeCommand, TakeTaskSettlements, TakeStateSettlement, TakeWake, TakeContinuation, Taken,
         CancelScheduled, Scheduled, TypeOK
<1>2. /\ Rest \in Seq(InputRecords) /\ \A e \in ToSet(Rest) : Fits(e)
      /\ TakenInput \in InputRecords /\ Fits(TakenInput)
  BY <1>1, RestFact
<1>3. inputs' = Rest => InputsFit
  BY <1>2 DEF InputsFit
<1>4. TakenInput.tasks \subseteq Task /\ TakenInput.tasks \cap Unused = {}
  BY <1>2 DEF InputRecords, Fits
<1>5. pc = "select" /\ pass = "none" /\ ~running /\ inPi = {} /\ control = "none"
  BY <1>1 DEF Looping, PassOK, TypeOK
<1>6. CASE TakeCommand
  <2>1. followUps' \in Seq(Cmd)
    <3>1. followUps \in Seq(Cmd)
      BY DEF TypeOK
    <3>2. \A c : Picked(followUps, {i \in DOMAIN followUps : followUps[i] # c}) \in Seq(Cmd)
      BY <3>1, PickedFact
    <3> QED BY <1>6, <3>2 DEF TakeCommand, Without
  <2>2. TakenInput.cmd \in Cmd
    BY <1>2, <1>6 DEF TakeCommand, Taken, TakenInput, Fits, InputRecords
  <2>3. cmd' \in [Cmd -> CmdStates] /\ reads' \in [Cmd -> Nat]
    BY <1>6, <2>2 DEF TakeCommand, TypeOK, CmdStates
  <2>4. InputsFit
    BY <1>3, <1>6 DEF TakeCommand
  <2>5. PassOK' /\ attempt' \in 0..RetryBudget
    BY <1>5, <1>6, TurnLoopAssumption DEF TakeCommand, StartPass, PassOK, takeFrame
  <2>6. StartedOK'
    BY <1>6 DEF TakeCommand, Taken, StartedOK, Unused
  <2> QED BY <1>6, <2>1, <2>3, <2>4, <2>5, <2>6
          DEF TakeCommand, Taken, StartPass, TypeOK, InputsFit, LoopStates, takeFrame, endVars
<1>7. CASE TakeTaskSettlements
  <2>1. InputsFit /\ fresh' = {}
    BY <1>3, <1>7 DEF TakeTaskSettlements, Taken
  <2>2. StartedOK'
    BY <1>7, <2>1 DEF TakeTaskSettlements, StartedOK, Unused
  <2>3. CASE StartPass("task_settlements", 0)
    <3>1. PassOK' /\ attempt' \in 0..RetryBudget
      BY <1>5, <1>7, <2>3, TurnLoopAssumption DEF TakeTaskSettlements, StartPass, PassOK, takeFrame
    <3> QED BY <1>7, <2>1, <2>2, <2>3, <3>1
            DEF TakeTaskSettlements, StartPass, TypeOK, InputsFit, LoopStates, takeFrame, endVars
  <2>4. CASE NoPass /\ Back
    <3>1. PassOK'
      BY <1>5, <1>7, <2>4, BackFact DEF TakeTaskSettlements, NoPass, PassOK, passVars, takeFrame
    <3> QED BY <1>7, <2>1, <2>2, <2>4, <3>1, BackFact
            DEF TakeTaskSettlements, NoPass, passVars, TypeOK, InputsFit, LoopStates, takeFrame,
                endVars
  <2> QED BY <1>7, <2>3, <2>4 DEF TakeTaskSettlements
<1>8. CASE \E type \in Continuations : TakeContinuation(type)
  <2>1. PICK type \in Continuations : TakeContinuation(type)
    BY <1>8
  <2>2. InputsFit /\ fresh' = {}
    BY <1>3, <2>1 DEF TakeContinuation, Taken
  <2>3. StartedOK'
    BY <2>1, <2>2 DEF TakeContinuation, StartedOK, Unused
  <2>4. CASE NoPass /\ Back
    <3>1. PassOK'
      BY <1>5, <2>1, <2>4, BackFact DEF TakeContinuation, NoPass, PassOK, passVars, takeFrame
    <3> QED BY <2>1, <2>2, <2>3, <2>4, <3>1, BackFact
            DEF TakeContinuation, NoPass, passVars, TypeOK, InputsFit, LoopStates, takeFrame, endVars
  <2>5. CASE StartPass(type, IF type = "transition_enforcement" THEN 1 ELSE 0)
    <3>1. PassOK' /\ attempt' \in 0..RetryBudget
      BY <1>5, <2>1, <2>5, TurnLoopAssumption DEF TakeContinuation, StartPass, PassOK, takeFrame
    <3> QED BY <2>1, <2>2, <2>3, <2>5, <3>1
            DEF TakeContinuation, StartPass, TypeOK, InputsFit, LoopStates, takeFrame, endVars
  <2> QED BY <2>1, <2>4, <2>5 DEF TakeContinuation
<1>9. CASE TakeStateSettlement
  <2> DEFINE S == TakenInput.tasks
             others == S \ (stateTasks \cup ignored)
             rest == IF others = {} THEN Rest ELSE <<Settlements(others)>> \o Rest
  <2>1. rest \in Seq(InputRecords) /\ \A e \in ToSet(rest) : Fits(e)
    <3> DEFINE s == Settlements(others)
    <3>1. s \in InputRecords /\ Fits(s)
      BY <1>4, SettlementsFact
    <3> HIDE DEF s
    <3>2. <<s>> \o Rest \in Seq(InputRecords) /\ ToSet(<<s>> \o Rest) = ToSet(Rest) \cup {s}
      BY <1>2, <3>1, PushFact
    <3>3. rest = Rest \/ rest = <<s>> \o Rest
      BY DEF s
    <3> HIDE DEF rest
    <3> QED BY <1>2, <3>1, <3>2, <3>3
  <2> HIDE DEF rest
  <2>2. /\ stateTasks' = stateTasks \ S /\ ignored' = ignored \ S /\ fresh' = {}
        /\ UNCHANGED <<stopped, cmd, reads, behavior, followUps, passVars, woken, acked,
                       nudged, takeFrame>>
    BY <1>9 DEF TakeStateSettlement, Taken
  <2>3. /\ InputsFit /\ Back /\ task' \in [Task -> TaskStatus] /\ Unused' \subseteq Unused
        /\ machine' \in {"none", "live", "terminal"}
        /\ current' \in StateKinds \cup {"none", "interrupted"}
        /\ owed' \in BOOLEAN /\ reminded' \subseteq Task /\ reason' \in BOOLEAN
        /\ questions' \in BOOLEAN /\ completion' \in Statuses /\ withheld' \in BOOLEAN
    <3>1. PICK t \in S \cap (stateTasks \ ignored) :
         \/ UNCHANGED <<task, machine, current>> /\ ResultStateCompleted(rest)
         \/ /\ machine' = "terminal"
            /\ UNCHANGED <<task, current, owed, reminded>>
            /\ ResultTerminal("failed", rest)
         \/ /\ Rescheduled /\ inputs' = rest /\ Back
            /\ UNCHANGED <<machine, current, owed, reminded, reason, questions,
                           completion, withheld>>
         \/ /\ current' = "interrupted" /\ inputs' = rest /\ reason' = TRUE /\ Back
            /\ UNCHANGED <<task, machine, owed, reminded, questions, completion, withheld>>
      BY <1>9 DEF TakeStateSettlement, rest
    <3>2. CASE UNCHANGED <<task, machine, current>> /\ ResultStateCompleted(rest)
      BY <2>1, <3>2, CompletedFact DEF ResultStateCompleted, TypeOK, Unused, TaskStatus
    <3>3. CASE machine' = "terminal" /\ UNCHANGED <<task, current, owed, reminded>>
               /\ ResultTerminal("failed", rest)
      BY <2>1, <3>3, TerminalFact DEF ResultTerminal, TypeOK, Unused, TaskStatus, Statuses
    <3>4. CASE Rescheduled /\ inputs' = rest /\ Back
               /\ UNCHANGED <<machine, current, owed, reminded, reason, questions,
                              completion, withheld>>
      BY <2>1, <3>4 DEF Rescheduled, InputsFit, TypeOK, Unused, TaskStatus
    <3>5. CASE /\ current' = "interrupted" /\ inputs' = rest /\ reason' = TRUE /\ Back
               /\ UNCHANGED <<task, machine, owed, reminded, questions, completion, withheld>>
      BY <2>1, <3>5 DEF InputsFit, TypeOK, Unused, TaskStatus
    <3> QED BY <3>1, <3>2, <3>3, <3>4, <3>5
  <2>4. StartedOK'
    BY <2>2, <2>3 DEF StartedOK
  <2>5. PassOK'
    BY <1>5, <2>2, <2>3, BackFact DEF PassOK, passVars, takeFrame
  <2> QED BY <2>2, <2>3, <2>4, <2>5, BackFact
          DEF TypeOK, TaskStatus, LoopStates, InputsFit, passVars, takeFrame, endVars
<1>10. CASE TakeWake
  <2>1. UNCHANGED <<stopped, cmd, reads, behavior, followUps, passVars, woken, current,
                    acked, takeFrame>>
    BY <1>10 DEF TakeWake
  <2>2. Unused \subseteq Task /\ Scheduled \subseteq Task /\ Scheduled \cap Unused = {}
    BY DEF Unused, Scheduled
  <2>3. \A base : CancelScheduled(base) =>
                    fresh' = fresh \cup Scheduled /\ ignored' = ignored \cup Scheduled
    BY DEF CancelScheduled
  <2> DEFINE Typed ==
        /\ InputsFit /\ Back /\ task' \in [Task -> TaskStatus] /\ Unused' \subseteq Unused
        /\ stateTasks' \subseteq Task /\ stateTasks' \cap Unused' = {}
        /\ fresh' \subseteq fresh \cup Scheduled /\ ignored' \subseteq ignored \cup Scheduled
        /\ nudged' \in BOOLEAN /\ owed' \in BOOLEAN /\ reminded' \subseteq Task
        /\ reason' \in BOOLEAN /\ questions' \in BOOLEAN /\ completion' \in Statuses
        /\ withheld' \in BOOLEAN /\ machine' \in {"none", "live", "terminal"}
  <2>4. Typed
    <3>1. CASE current = "timer"
      <4>1. /\ CancelScheduled(task) /\ ResultStateCompleted(Rest)
            /\ UNCHANGED <<stateTasks, nudged, machine>>
        BY <1>10, <3>1 DEF TakeWake
      <4>2. InputsFit
        BY <1>2, <4>1, CompletedFact
      <4> QED BY <2>3, <4>1, <4>2, CancelFact DEF ResultStateCompleted, TypeOK, StartedOK
    <3>2. ASSUME NEW t \in Unused, CancelScheduled(StartIn(task, t, "running")),
                 stateTasks' = stateTasks \cup {t}, inputs' = Rest, nudged' = FALSE, Back,
                 UNCHANGED <<reminded, owed, reason, questions, completion, withheld, machine>>
          PROVE  Typed
      BY <1>3, <2>2, <2>3, <3>2, CancelFact DEF TypeOK, StartedOK
    <3>4. CASE /\ CancelScheduled(task) /\ machine' = "terminal"
               /\ UNCHANGED <<stateTasks, nudged, reminded, owed>>
               /\ ResultTerminal("failed", Rest)
      <4>1. InputsFit
        BY <1>2, <3>4, TerminalFact
      <4> QED BY <2>3, <3>4, <4>1, CancelFact DEF ResultTerminal, TypeOK, StartedOK, Statuses
    <3>3. CASE current \notin {"timer", "poll"}
      <4>1. /\ fresh' = {} /\ UNCHANGED <<task, stateTasks, ignored, nudged, reminded, owed, machine>>
            /\ ResultTerminal("completed", Rest)
        BY <1>10, <3>3 DEF TakeWake
      <4>2. InputsFit
        BY <1>2, <4>1, TerminalFact
      <4> QED BY <4>1, <4>2 DEF ResultTerminal, TypeOK, StartedOK, Unused, TaskStatus, Statuses
    <3> QED BY <1>10, <3>1, <3>2, <3>3, <3>4 DEF TakeWake
  <2>5. StartedOK'
    BY <2>2, <2>4 DEF StartedOK
  <2>6. PassOK'
    BY <1>5, <2>1, <2>4, BackFact DEF PassOK, passVars, takeFrame
  <2>7. ignored' \subseteq Task
    BY <2>2, <2>4 DEF TypeOK
  <2> QED BY <1>1, <2>1, <2>4, <2>5, <2>6, <2>7, BackFact
          DEF TypeOK, TaskStatus, LoopStates, InputsFit, passVars, takeFrame, endVars
<1> QED BY <1>6, <1>7, <1>8, <1>9, <1>10
LEMMA LoopTypes ==
  ASSUME TInv, \/ QueueCleanup \/ LoopWaits \/ LoopWakes \/ QueueEnforcement \/ QueueNudge
               \/ LoopExits \/ LoopCleansUp \/ MemoryUpdated \/ TurnEnds \/ TurnReturns
  PROVE  InputsFit /\ Rest3'
<1> USE DEF TInv, Rest3
<1>1. inputs \in Seq(InputRecords) /\ \A e \in ToSet(inputs) : Fits(e)
  BY SubFact DEF Entries
<1>2. /\ Looping => pass = "none" /\ control = "none" /\ ~running /\ inPi = {}
      /\ pc # "pass" => pass = "none" /\ control = "none" /\ ~running /\ inPi = {}
  BY DEF PassOK, Looping, TypeOK
<1>3. ASSUME UNCHANGED idleFrame, pc' \in LoopStates \ {"pass", "deciding"}, pc # "pass",
             fresh' \subseteq fresh, InputsFit, woken' \in BOOLEAN, nudged' \in BOOLEAN,
             reminded' \subseteq Task
      PROVE  Rest3'
  <2>1. StartedOK' /\ PassOK'
    BY <1>2, <1>3 DEF StartedOK, PassOK, Unused, idleFrame, passVars, boundVars
  <2>2. TypeOK'
    BY <1>3 DEF TypeOK, InputsFit, idleFrame, passVars, intrVars, endVars, boundVars
  <2> QED BY <2>1, <2>2
<1>4. CASE QueueCleanup
  <2>1. inputs' = Append(inputs, Input("background_task_cleanup"))
    BY <1>4, NoInputFact DEF QueueCleanup
  <2>2. InputsFit
    BY <1>1, <2>1, AddsFact DEF InputTypes
  <2>3. Running \subseteq Task
    BY DEF Running
  <2> QED BY <1>3, <1>4, <2>2, <2>3
          DEF QueueCleanup, NoInput, Looping, TypeOK, LoopStates
<1>5. CASE LoopWaits
  <2>1. InputsFit
    BY <1>1, <1>5, NoInputFact DEF LoopWaits, InputsFit
  <2> QED BY <1>3, <1>5, <2>1 DEF LoopWaits, NoInput, Looping, TypeOK, LoopStates
<1>6. CASE LoopWakes
  BY <1>3, <1>6, SameInputs DEF LoopWakes, TypeOK, LoopStates
<1>7. CASE QueueEnforcement
  <2>1. inputs' = Append(inputs, Input("transition_enforcement"))
    BY <1>7, NoInputFact DEF QueueEnforcement
  <2>2. InputsFit
    BY <1>1, <2>1, AddsFact DEF InputTypes
  <2> QED BY <1>3, <1>7, <2>2 DEF QueueEnforcement, NoInput, Looping, TypeOK, LoopStates
<1>8. CASE QueueNudge
  <2>1. inputs' = <<Input("park_nudge")>> \o inputs
    BY <1>8, NoInputFact DEF QueueNudge
  <2>2. InputsFit
    BY <1>1, <2>1, AddsFact DEF InputTypes
  <2> QED BY <1>3, <1>8, <2>2 DEF QueueNudge, NoInput, Looping, TypeOK, LoopStates
<1>9. CASE LoopExits
  BY <1>3, <1>9, SameInputs DEF LoopExits, NoInput, Looping, TypeOK, LoopStates
<1>10. CASE MemoryUpdated
  BY <1>3, <1>10, SameInputs DEF MemoryUpdated, TypeOK, LoopStates
<1>11. CASE LoopCleansUp
  <2>1. InputsFit
    BY <1>11, SubFact DEF LoopCleansUp, InputsFit, InputTypes
  <2>2. /\ fresh' = {} /\ stateTasks' \subseteq stateTasks /\ ignored' \subseteq ignored
        /\ orphaned' \in BOOLEAN /\ pc = "exiting" /\ pc' = "memory"
        /\ UNCHANGED <<task, stopped, cmd, reads, behavior, inPi, followUps, passVars, intrVars,
                 woken, reminded, questions, withheld, completion, relayVars, emitted, last,
                 boundVars>>
    BY <1>11 DEF LoopCleansUp, TypeOK
  <2>3. StartedOK' /\ PassOK'
    BY <1>2, <2>2 DEF StartedOK, PassOK, Unused, passVars, boundVars
  <2>4. TypeOK'
    BY <2>1, <2>2 DEF TypeOK, InputsFit, LoopStates, passVars, intrVars, relayVars, boundVars
  <2> QED BY <2>1, <2>3, <2>4
<1>12. CASE TurnEnds
  <2>1. InputsFit
    BY <1>12, SameInputs DEF TurnEnds, cmdVars
  <2>2. StartedOK' /\ PassOK'
    BY <1>2, <1>12 DEF TurnEnds, StartedOK, PassOK, Unused, taskVars, cmdVars, passVars, boundVars
  <2>3. last' \in [type : Terminals, open : BOOLEAN] /\ emitted' = TRUE
    BY <1>12 DEF TurnEnds, Emit, TerminalType, Terminals, Open, TypeOK
  <2>4. TypeOK'
    BY <1>12, <2>3 DEF TurnEnds, TypeOK, LoopStates, taskVars, cmdVars, passVars, intrVars, boundVars
  <2> QED BY <2>1, <2>2, <2>4
<1>13. CASE TurnReturns
  BY <1>3, <1>13, SameInputs DEF TurnReturns, TypeOK, LoopStates
<1> QED BY <1>4, <1>5, <1>6, <1>7, <1>8, <1>9, <1>10, <1>11, <1>12, <1>13

LEMMA NextTInv ==
  ASSUME TInv, Next
  PROVE  InputsFit /\ TInv'
<1>1. InputsFit /\ Rest3'
  <2>1. CASE LoopStep
    BY <2>1, TakeTypes, LoopTypes DEF LoopStep
  <2>2. CASE Select
    BY <2>2, SelectTypes
  <2> QED BY <2>1, <2>2, PassTypes, WorkTypes, UserTypes DEF Next
<1> QED BY <1>1, EntriesStep DEF TInv, Rest3

LEMMA StutterTInv ==
  ASSUME TInv, UNCHANGED vars
  PROVE  TInv'
BY DEF TInv, TypeOK, EntriesOK, StartedOK, PassOK, Entries, Unused, vars, taskVars, cmdVars,
       passVars, intrVars, turnVars, relayVars, endVars, boundVars

(* Every variable keeps its type, for any number of tasks, commands,       *)
(* interrupts, wakes and selections: an enforcement stops at the retry     *)
(* budget, and nothing but inputs of the loop is in parentInputs.          *)
THEOREM Types == Spec => []TypeOK
<1>1. Init => TInv
  BY InitTInv
<1>2. TInv /\ [Next]_vars => TInv'
  BY NextTInv, StutterTInv
<1>3. TInv => TypeOK
  BY DEF TInv
<1> QED BY <1>1, <1>2, <1>3, PTL DEF Spec
-----------------------------------------------------------------------------
(* The terminals.                                                          *)
LEMMA OpenFact == (Open <=> Running # {}) /\ (PendingWork = "sleep" => Running = {} /\ Scheduled # {})
BY DEF Open, PendingWork

Quiet == QuietAsk /\ QuietExit /\ LastHonest

LEMMA QuietPass ==
  ASSUME TInv, Quiet, PassStep
  PROVE  Quiet'
<1> USE DEF TInv, Quiet, QuietAsk, QuietExit, LastHonest
<1>1. UNCHANGED task => Running' = Running
  BY DEF Running
<1>2. EndPass => pc = "pass"
  BY EndFact
<1>3. ASSUME EndPass, UNCHANGED passFrame, Back, questions' => ~Open
      PROVE  Quiet'
  <2>1. Running' = Running /\ last' = last
    BY <1>1, <1>3 DEF passFrame, taskVars, endVars
  <2> QED BY <1>2, <1>3, <2>1, BackFact, OpenFact
<1>4. CASE PassInterrupted
  BY <1>2, <1>3, <1>4 DEF PassInterrupted, ResultInterrupted
<1>5. CASE PassAsks \/ PauseRelay
  BY <1>2, <1>3, <1>5 DEF PassAsks, PauseRelay, ResultAsk, AskGate
<1>6. ASSUME NEW status \in Statuses, PassEnds(status) PROVE Quiet'
  BY <1>2, <1>3, <1>6 DEF PassEnds, ResultNone, ResultTerminal
<1>7. CASE CleanupPassThrows
  BY <1>2, <1>7 DEF CleanupPassThrows
<1>8. CASE EnforceAgain
  <2>1. pc = "pass"
    BY <1>8 DEF EnforceAgain, PassOK
  <2> QED BY <1>8, <2>1 DEF EnforceAgain, StartPass, passFrame, endVars
<1>9. CASE PassSelects
  BY <1>2, <1>9 DEF PassSelects, endVars
<1> QED BY <1>4, <1>5, <1>6, <1>7, <1>8, <1>9 DEF PassStep

LEMMA QuietLoop ==
  ASSUME TInv, Quiet, LoopStep \/ Select
  PROVE  Quiet'
<1> USE DEF TInv, Quiet, QuietAsk, QuietExit, LastHonest
<1>1. UNCHANGED task => Running' = Running
  BY DEF Running
<1>2. ASSUME Looping \/ pc = "deciding", UNCHANGED <<last, questions>>,
             Back \/ pc' \in {"pass", "waiting", "select"}
      PROVE  Quiet'
  BY <1>2, BackFact DEF Looping
<1>3. CASE TakeCommand \/ \E type \in Continuations : TakeContinuation(type)
  BY <1>2, <1>3 DEF TakeCommand, TakeContinuation, Taken, StartPass, takeFrame, endVars
<1>4. CASE TakeTaskSettlements
  BY <1>2, <1>4 DEF TakeTaskSettlements, Taken, StartPass, takeFrame, endVars
<1>5. CASE TakeStateSettlement
  BY <1>2, <1>5 DEF TakeStateSettlement, Taken, takeFrame, endVars, ResultStateCompleted, ResultTerminal
<1>6. CASE TakeWake
  BY <1>2, <1>6 DEF TakeWake, takeFrame, endVars, ResultStateCompleted, ResultTerminal
<1>7. CASE QueueCleanup \/ QueueEnforcement \/ QueueNudge
  BY <1>2, <1>7 DEF QueueCleanup, QueueEnforcement, QueueNudge, NoInput, Looping, idleFrame, endVars
<1>8. CASE LoopWaits
  BY <1>2, <1>8 DEF LoopWaits, NoInput, Looping, idleFrame, endVars
<1>9. CASE LoopWakes
  BY <1>9 DEF LoopWakes, idleFrame, endVars
<1>10. CASE LoopExits
  BY <1>1, <1>10, OpenFact DEF LoopExits, NoInput, Looping, idleFrame, endVars, intrVars
<1>11. CASE LoopCleansUp
  BY <1>1, <1>11 DEF LoopCleansUp, intrVars
<1>12. CASE MemoryUpdated
  BY <1>12 DEF MemoryUpdated, LateInputs, idleFrame, endVars
<1>13. CASE TurnEnds
  <2>1. pc' = "returning" /\ questions' = questions /\ Running' = Running
    BY <1>1, <1>13 DEF TurnEnds, taskVars
  <2>2. last'.open => last'.type = "interrupted"
    BY <1>13, OpenFact DEF TurnEnds, Emit, TerminalType
  <2> QED BY <1>13, <2>1, <2>2 DEF TurnEnds
<1>14. CASE Select
  <2>1. PICK k \in StateKinds : StateSelected(k)
    BY <1>14 DEF Select
  <2>2. pc = "deciding" /\ last' = last
    BY <2>1 DEF StateSelected
  <2>3. Back /\ questions' = questions
    BY <2>1 DEF StateSelected, Execute, ResultStateCompleted, ResultTerminal
  <2> QED BY <1>2, <2>2, <2>3
<1>15. CASE TurnReturns
  BY <1>1, <1>15 DEF TurnReturns, idleFrame, endVars
<1> QED BY <1>3, <1>4, <1>5, <1>6, <1>7, <1>8, <1>9, <1>10, <1>11, <1>12, <1>13, <1>14, <1>15
        DEF LoopStep

LEMMA QuietOther ==
  ASSUME TInv, Quiet, \/ PromptStarts \/ ModelStep \/ UserStep \/ Joins \/ IdleInterruptReports
                      \/ \E t \in Task : Settle(t)
  PROVE  Quiet'
<1> USE DEF TInv, Quiet, QuietAsk, QuietExit, LastHonest
<1>1. UNCHANGED task => Running' = Running
  BY DEF Running
<1>2. ASSUME UNCHANGED <<pc, reason, questions, last>>, Running' \subseteq Running
      PROVE  Quiet'
  BY <1>2
<1>3. ASSUME NEW t \in Task, Settle(t) PROVE Quiet'
  <2>1. Running' \subseteq Running
    BY <1>3 DEF Settle, Running, TypeOK
  <2> QED BY <1>2, <1>3, <2>1 DEF Settle, intrVars, endVars
<1>4. CASE PromptStarts
  BY <1>1, <1>2, <1>4 DEF PromptStarts, taskVars, intrVars, turnVars, endVars
<1>5. ASSUME NEW t \in Task, PassStartsTask(t) PROVE Quiet'
  <2>1. pc = "pass"
    BY <1>5 DEF PassStartsTask, Prompting, PassOK
  <2> QED BY <1>5, <2>1 DEF PassStartsTask, intrVars, turnVars, endVars
<1>6. CASE ModelStep /\ UNCHANGED task
  BY <1>1, <1>2, <1>5, <1>6
     DEF ModelStep, PiReads, PassStopsTask, ControlTool, taskVars, intrVars, turnVars, endVars
<1>7. CASE ModelStep
  BY <1>5, <1>6, <1>7 DEF ModelStep, PiReads, PassStopsTask, ControlTool, taskVars
<1>8. ASSUME NEW x \in InputRecords, BeginTurn(x), UNCHANGED last PROVE Quiet'
  BY <1>8 DEF BeginTurn
<1>9. CASE WakeStarts \/ \E c \in Cmd : TurnStarts(c)
  BY <1>9 DEF WakeStarts, TurnStarts, BeginTurn
<1>10. CASE \E c \in Cmd : TurnJoins(c) \/ EditFollowUps(c) \/ \E b \in Behaviors : TurnCalled(c, b)
  BY <1>1, <1>2, <1>10 DEF TurnJoins, EditFollowUps, TurnCalled, taskVars, intrVars, turnVars, endVars
<1>11. CASE Interrupt
  <2>1. reason' = TRUE /\ UNCHANGED <<pc, questions, last>>
    BY <1>11 DEF Interrupt
  <2>2. Running' = Running
    BY <1>11 DEF Interrupt, InterruptTasks, Running, Scheduled, TypeOK
  <2> QED BY <2>1, <2>2
<1>12. CASE IdleInterruptReports
  <2>1. UNCHANGED <<pc, reason, questions>> /\ Running' = Running
    BY <1>1, <1>12 DEF IdleInterruptReports, taskVars, turnVars
  <2>2. last'.open => last'.type = "interrupted"
    BY <1>12 DEF IdleInterruptReports, Emit
  <2> QED BY <2>1, <2>2
<1> QED BY <1>3, <1>4, <1>7, <1>9, <1>10, <1>11, <1>12 DEF UserStep, Joins

LEMMA NextQInv ==
  ASSUME QInv, Next
  PROVE  InputsFit /\ QInv'
<1>1. InputsFit /\ TInv'
  BY NextTInv DEF QInv
<1>2. Quiet'
  BY QuietPass, QuietLoop, QuietOther DEF QInv, Quiet, Next
<1> QED BY <1>1, <1>2 DEF QInv, Quiet

(* No terminal is reported over running work, except the one of an         *)
(* interrupt: an ask over a running task, or a loop that runs out of       *)
(* inputs while a task runs, cannot end a turn.                            *)
THEOREM Honest == Spec => []HonestTerminal
<1>1. Init => QInv
  BY InitTInv DEF Init, QInv, QuietAsk, QuietExit, LastHonest
<1>2. QInv /\ [Next]_vars => QInv'
  <2>1. ASSUME QInv, UNCHANGED vars PROVE QInv'
    BY <2>1, StutterTInv DEF QInv, QuietAsk, QuietExit, LastHonest, Running, vars, taskVars,
       intrVars, turnVars, endVars
  <2> QED BY <2>1, NextQInv
<1>3. QInv => HonestTerminal
  BY OpenFact DEF QInv, QuietExit, LastHonest, HonestTerminal, Leftovers
<1> QED BY <1>1, <1>2, <1>3, PTL DEF Spec
-----------------------------------------------------------------------------
(* The relay.                                                              *)
LEMMA HasFact ==
  /\ \A ty : HasInput(ty) <=> \E e \in Entries : e.type = ty
  /\ \A ty : HasInput(ty)' <=> \E e \in Entries' : e.type = ty
BY DEF HasInput, Entries, ToSet

(* What may join the entries of parentInputs without a word on the relay.  *)
Plain(e) == e.tasks = {} /\ e.type \notin {"wake", "transition_enforcement"}

(* A step that neither adds a worker nor loses one.                        *)
LEMMA RelayFrame ==
  ASSUME RelayOK,
         stateTasks' \subseteq stateTasks, Live' \subseteq Live, Lost' \subseteq Lost,
         Scheduled' \subseteq Scheduled, orphaned => orphaned', owed => owed',
         \A e \in Entries' : e \in Entries \/ Plain(e),
         pc' = "deciding" => pc = "deciding" \/ Live' = {},
         pc' \in {"returning", "idle"} /\ asleep'
           => (pc \in {"returning", "idle"} /\ asleep) \/ Live' = {},
         pc' = "memory" /\ ~reason' => fresh' = {}
  PROVE  RelayOK'
<1>1. WorkersOK'
  <2>1. \A e \in Entries' : e.tasks \cap stateTasks' = {}
    BY DEF RelayOK, WorkersOK, Plain
  <2>2. \A s, t \in Live' : s = t
    BY DEF RelayOK, WorkersOK
  <2> QED BY <2>1, <2>2 DEF RelayOK, WorkersOK
<1>2. HasInput("wake")' => HasInput("wake")
  BY HasFact DEF Plain
<1>3. HasInput("transition_enforcement")' => HasInput("transition_enforcement")
  BY HasFact DEF Plain
<1>4. LostOK'
  BY <1>2 DEF RelayOK, LostOK
<1>5. EnforcementIsOwed'
  BY <1>3 DEF RelayOK, EnforcementIsOwed
<1> QED BY <1>1, <1>4, <1>5 DEF RelayOK, DrainedOK

(* Steps without an effect on the relay.                                   *)
LEMMA RelaySame ==
  UNCHANGED taskVars =>
    /\ stateTasks' \subseteq stateTasks /\ Live' = Live /\ Lost' = Lost
    /\ Scheduled' = Scheduled /\ Running' = Running /\ fresh' = fresh
BY DEF taskVars, Live, Lost, Scheduled, Running

LEMMA PlainFact ==
  /\ \A ty \in {"terminal_acknowledgment", "park_nudge", "background_task_cleanup"} :
       Plain(Input(ty))
  /\ \A c : Plain(Command(c))
BY DEF Plain, Input, Command

LEMMA RelayPass ==
  ASSUME RInv, PassStep
  PROVE  RelayOK'
<1> USE DEF RInv, QInv
<1>1. EndPass => pc = "pass"
  BY EndFact
<1>2. ASSUME EndPass, UNCHANGED passFrame, Back, UNCHANGED inputs \/ \E s : ResultTerminal(s, inputs)
      PROVE  RelayOK'
  <2>1. \A e \in Entries' : e \in Entries \/ Plain(e)
    <3>1. CASE UNCHANGED inputs
      BY <3>1 DEF Entries
    <3>2. CASE \E s : ResultTerminal(s, inputs)
      BY <3>2, SubFact, TerminalFact, PlainFact DEF Entries
    <3> QED BY <1>2, <3>1, <3>2
  <2>2. UNCHANGED taskVars /\ owed' = owed /\ orphaned' = orphaned
    BY <1>2 DEF passFrame, endVars
  <2> QED BY <1>2, <2>1, <2>2, RelaySame, RelayFrame, BackFact
<1>3. CASE PassInterrupted
  BY <1>2, <1>3 DEF PassInterrupted, ResultInterrupted
<1>4. CASE PassAsks \/ PauseRelay
  BY <1>2, <1>4 DEF PassAsks, PauseRelay, ResultAsk
<1>5. ASSUME NEW status \in Statuses, PassEnds(status) PROVE RelayOK'
  <2>1. EndPass /\ UNCHANGED passFrame
    BY <1>5 DEF PassEnds
  <2>2. Back /\ (UNCHANGED inputs \/ ResultTerminal(status, inputs))
    BY <1>5 DEF PassEnds, ResultNone, ResultTerminal
  <2> QED BY <1>2, <2>1, <2>2
<1>6. CASE CleanupPassThrows
  <2>1. /\ Running' = Running /\ Scheduled' = {} /\ fresh \subseteq fresh'
        /\ UNCHANGED <<stateTasks, ignored>> /\ (orphaned => orphaned')
    BY <1>6 DEF CleanupPassThrows, StopEverything, Running, Scheduled, TInv, TypeOK
  <2>2. Live' = Live /\ Lost' \subseteq Lost
    BY <2>1 DEF Live, Lost
  <2>3. Entries' = Entries /\ owed' = owed /\ pc' = "failing"
    BY <1>6 DEF CleanupPassThrows, Entries
  <2> QED BY <2>1, <2>2, <2>3, RelayFrame
<1>7. CASE EnforceAgain
  <2>1. /\ UNCHANGED taskVars /\ owed' = owed /\ orphaned' = orphaned /\ pc' = "pass"
        /\ Entries' = Entries
    BY <1>7 DEF EnforceAgain, StartPass, passFrame, endVars, Entries
  <2> QED BY <2>1, RelaySame, RelayFrame
<1>8. CASE PassSelects
  <2>1. /\ stateTasks' = stateTasks /\ ignored' = ignored \cup stateTasks /\ owed' = owed
        /\ orphaned' = orphaned /\ pc' = "deciding" /\ Entries' = Entries
        /\ Scheduled' = Scheduled
    BY <1>8 DEF PassSelects, Disowned, endVars, Entries, Scheduled
  <2>2. Live' = {} /\ Lost' = {}
    BY <2>1 DEF Live, Lost
  <2> QED BY <2>1, <2>2, RelayFrame
<1> QED BY <1>3, <1>4, <1>5, <1>6, <1>7, <1>8 DEF PassStep

LEMMA RelayOther ==
  ASSUME RInv, \/ PromptStarts \/ ModelStep \/ UserStep \/ Joins \/ IdleInterruptReports
               \/ \E t \in Task : Settle(t)
  PROVE  RelayOK'
<1> USE DEF RInv, QInv
<1>1. ASSUME UNCHANGED <<taskVars, owed, orphaned, pc, asleep, reason>>,
             \A e \in Entries' : e \in Entries \/ Plain(e)
      PROVE  RelayOK'
  BY <1>1, RelaySame, RelayFrame DEF RelayOK, DrainedOK
<1>2. ASSUME NEW t \in Task, Settle(t) PROVE RelayOK'
  <2>1. /\ Running' = Running \ {t} /\ t \in Running /\ Scheduled' = Scheduled
        /\ fresh' = fresh \cup {t}
    BY <1>2 DEF Settle, Running, Scheduled, TInv, TypeOK
  <2>2. stateTasks' = stateTasks /\ ignored' = ignored
    BY <1>2 DEF Settle
  <2>3. Live' = Live /\ Lost' = Lost
    BY <2>1, <2>2 DEF Live, Lost
  <2>4. Entries' = Entries /\ UNCHANGED <<owed, orphaned, pc, asleep, reason>>
    BY <1>2 DEF Settle, Entries, cmdVars, relayVars, endVars, intrVars
  <2>5. ~(pc = "memory" /\ ~reason)
    BY <2>1 DEF QuietExit
  <2> QED BY <2>1, <2>2, <2>3, <2>4, <2>5, RelayFrame
<1>3. CASE PromptStarts
  BY <1>1, <1>3 DEF PromptStarts, cmdVars, intrVars, turnVars, relayVars, endVars, Entries
<1>4. ASSUME NEW c \in Cmd, PiReads(c) PROVE RelayOK'
  <2>1. \A e \in Entries' : e \in Entries
    BY <1>4, SubFact DEF PiReads, Removed, Entries
  <2> QED BY <1>1, <1>4, <2>1 DEF PiReads, intrVars, turnVars, relayVars, endVars
<1>5. ASSUME NEW t \in Task, PassStartsTask(t) PROVE RelayOK'
  <2>1. Running \subseteq Running' /\ Scheduled' = Scheduled
    BY <1>5 DEF PassStartsTask, Running, Scheduled, Unused, TInv, TypeOK
  <2>2. UNCHANGED <<stateTasks, ignored, fresh>>
    BY <1>5 DEF PassStartsTask
  <2>3. Live' = Live /\ Lost' \subseteq Lost
    BY <2>1, <2>2 DEF Live, Lost
  <2>4. Entries' = Entries /\ UNCHANGED <<owed, orphaned, pc, asleep, reason>>
    BY <1>5 DEF PassStartsTask, Entries, cmdVars, relayVars, endVars, intrVars, turnVars
  <2> QED BY <2>1, <2>2, <2>3, <2>4, RelayFrame DEF RelayOK, DrainedOK
<1>6. ASSUME NEW t \in Task, PassStopsTask(t) PROVE RelayOK'
  <2>1. UNCHANGED <<task, stateTasks, ignored, fresh>> /\ Entries' = Entries
        /\ UNCHANGED <<owed, orphaned, pc, asleep, reason>>
    BY <1>6 DEF PassStopsTask, Entries, cmdVars, relayVars, endVars, intrVars, turnVars
  <2>2. Live' = Live /\ Lost' = Lost /\ Scheduled' = Scheduled
    BY <2>1 DEF Live, Lost, Running, Scheduled
  <2> QED BY <2>1, <2>2, RelayFrame DEF RelayOK, DrainedOK
<1>7. ASSUME NEW what \in {"ask", "select"}, ControlTool(what) PROVE RelayOK'
  BY <1>1, <1>7 DEF ControlTool, cmdVars, intrVars, turnVars, relayVars, endVars, Entries
<1>8. ASSUME NEW c \in Cmd, NEW b \in Behaviors, TurnCalled(c, b) PROVE RelayOK'
  BY <1>1, <1>8 DEF TurnCalled, intrVars, turnVars, relayVars, endVars, Entries
<1>9. ASSUME NEW c \in Cmd, EditFollowUps(c) PROVE RelayOK'
  <2>1. \A e \in Entries' : e \in Entries \/ Plain(e)
    BY <1>9, EditFact, PlainFact DEF Entries
  <2> QED BY <1>1, <1>9, <2>1 DEF EditFollowUps, intrVars, turnVars, relayVars, endVars
<1>10. ASSUME NEW c \in Cmd, TurnJoins(c) PROVE RelayOK'
  <2>1. \A e \in Entries' : e \in Entries \/ Plain(e)
    BY <1>10, JoinFact, PlainFact DEF Entries, TurnJoins
  <2> QED BY <1>1, <1>10, <2>1 DEF TurnJoins, intrVars, turnVars, relayVars, endVars
<1>11. ASSUME NEW c \in Cmd, TurnStarts(c) PROVE RelayOK'
  <2>1. \A e \in Entries' : e \in Entries \/ Plain(e)
    BY <1>11, BeginFact, CommandFact, PlainFact DEF Entries, TurnStarts
  <2>2. UNCHANGED <<taskVars, owed, orphaned>> /\ pc' = "select"
    BY <1>11 DEF TurnStarts, BeginTurn
  <2> QED BY <2>1, <2>2, RelaySame, RelayFrame
<1>12. CASE WakeStarts
  <2> DEFINE w == Input("wake")
  <2>1. w \in InputRecords /\ Fits(w) /\ w.type = "wake" /\ w.tasks = {}
    BY InputFact DEF InputTypes
  <2>2. BeginTurn(w) /\ asleep /\ pc = "idle" /\ UNCHANGED <<taskVars, owed, orphaned>>
        /\ pc' = "select"
    BY <1>12 DEF WakeStarts, BeginTurn
  <2> HIDE DEF w
  <2>3. \A e \in Entries' : e \in Entries \/ e = w \/ Plain(e)
    BY <2>1, <2>2, BeginFact, PlainFact DEF Entries
  <2>4. Live = {} /\ Live' = {} /\ Lost' = {}
    BY <2>2, RelaySame DEF RelayOK, WorkersOK, Lost
  <2>5. stateTasks' = stateTasks
    BY <2>2 DEF taskVars
  <2>6. \A e \in Entries' : e.tasks \cap stateTasks' = {}
    BY <2>1, <2>3, <2>5 DEF RelayOK, WorkersOK, Plain
  <2>7. HasInput("transition_enforcement")' => HasInput("transition_enforcement")
    BY <2>1, <2>3, HasFact DEF Plain
  <2> QED BY <2>2, <2>4, <2>6, <2>7 DEF RelayOK, WorkersOK, LostOK, EnforcementIsOwed, DrainedOK
<1>13. CASE Interrupt
  <2>1. PICK held \in SUBSET fresh : InterruptTasks(held)
    BY <1>13 DEF Interrupt
  <2>2. /\ Running' = Running /\ Scheduled' = {} /\ ignored \subseteq ignored'
        /\ stateTasks' = stateTasks /\ fresh' = held \cup Scheduled
        /\ (orphaned' <=> orphaned \/ (fresh \ held) \cap Live # {})
    BY <1>13, <2>1 DEF InterruptTasks, Interrupt, Running, Scheduled, TInv, TypeOK, Live
  <2>3. Live' \subseteq Live
    BY <2>2 DEF Live
  <2>4. Entries' = {} /\ owed' = owed /\ reason' = TRUE /\ UNCHANGED <<pc, asleep>>
    BY <1>13 DEF Interrupt, Entries, ToSet
  <2>5. Lost' # {} => orphaned'
    BY <2>2, <2>3 DEF RelayOK, LostOK, Lost
  <2>6. ~HasInput("wake")' /\ ~HasInput("transition_enforcement")'
    BY <2>4, HasFact
  <2>7. \A s, t \in Live' : s = t
    BY <2>3 DEF RelayOK, WorkersOK
  <2> QED BY <2>2, <2>3, <2>4, <2>5, <2>6, <2>7
          DEF RelayOK, WorkersOK, LostOK, EnforcementIsOwed, DrainedOK
<1>14. CASE IdleInterruptReports
  <2>1. UNCHANGED <<taskVars, owed, orphaned, pc, reason>> /\ Entries' = Entries /\ asleep' = FALSE
    BY <1>14 DEF IdleInterruptReports, Entries, cmdVars, turnVars
  <2> QED BY <2>1, RelaySame, RelayFrame DEF RelayOK, DrainedOK
<1> QED BY <1>2, <1>3, <1>4, <1>5, <1>6, <1>7, <1>8, <1>9, <1>10, <1>11, <1>12, <1>13, <1>14
        DEF ModelStep, UserStep, Joins
(* The settlements are taken first, and at once.                           *)
LEMMA TakenKind ==
  ASSUME TInv, Runnable(Flushed) # {}
  PROVE  /\ TakenInput.type # "task_settlements" => fresh = {} /\ TakenInput \in Entries
         /\ fresh # {} => TakenInput.tasks = fresh
         /\ fresh = {} => TakenInput \in Entries
         /\ ToSet(Rest) \subseteq Entries
         /\ Open /\ TakenInput.type = "wake" => FALSE
BY TakenFact, SettlementsFact DEF TInv, TypeOK, RunnableWhileOpen

LEMMA RelayTake ==
  ASSUME RInv, \/ TakeCommand \/ TakeTaskSettlements \/ TakeStateSettlement \/ TakeWake
               \/ \E type \in Continuations : TakeContinuation(type)
  PROVE  RelayOK'
<1> USE DEF RInv, QInv
<1>1. Runnable(Flushed) # {} /\ pc = "select"
  BY DEF TakeCommand, TakeTaskSettlements, TakeStateSettlement, TakeWake, TakeContinuation, Taken,
         Looping
<1>2. /\ Rest \in Seq(InputRecords) /\ \A e \in ToSet(Rest) : Fits(e) /\ e \in Entries
      /\ TakenInput.tasks \subseteq Task
  BY <1>1, RestFact, TakenKind DEF InputRecords
<1>3. inputs' = Rest => \A e \in Entries' : e \in Entries
  BY <1>2 DEF Entries
<1>4. ASSUME fresh = {}, fresh' = {}, UNCHANGED <<task, stateTasks, ignored, owed, orphaned>>,
             \A e \in Entries' : e \in Entries \/ Plain(e), pc' \in {"pass", "select", "exiting"}
      PROVE  RelayOK'
  <2>1. UNCHANGED <<Live, Lost, Scheduled>>
    BY <1>4 DEF Live, Lost, Running, Scheduled
  <2> QED BY <1>4, <2>1, RelayFrame
<1>5. CASE TakeCommand
  BY <1>1, <1>3, <1>4, <1>5, TakenKind
     DEF TakeCommand, Taken, TakenInput, StartPass, takeFrame, endVars
<1>6. CASE \E type \in Continuations : TakeContinuation(type)
  <2>1. PICK type \in Continuations : TakeContinuation(type)
    BY <1>6
  <2>2. type # "task_settlements" /\ TakenInput.type = type /\ fresh' = {} /\ inputs' = Rest
    BY <2>1 DEF Continuations, TakeContinuation, Taken, TakenInput
  <2>3. pc' \in {"pass", "select", "exiting"}
    BY <2>1, BackFact DEF TakeContinuation, StartPass
  <2>4. UNCHANGED <<task, stateTasks, ignored, owed, orphaned>>
    BY <2>1 DEF TakeContinuation, takeFrame, endVars
  <2> QED BY <1>1, <1>3, <1>4, <2>2, <2>3, <2>4, TakenKind
<1>7. CASE TakeTaskSettlements
  <2> DEFINE S == TakenInput.tasks
  <2>1. /\ S \cap Live = {} /\ fresh' = {} /\ inputs' = Rest /\ UNCHANGED <<task, owed, orphaned>>
        /\ ignored' = ignored \ S /\ stateTasks' = stateTasks \ S
    BY <1>7 DEF TakeTaskSettlements, Taken, Live, takeFrame, endVars
  <2>2. pc' \in {"pass", "select", "exiting"}
    BY <1>7, BackFact DEF TakeTaskSettlements, StartPass
  <2>3. fresh \cap Live = {}
    BY <1>1, <2>1, TakenKind
  <2> HIDE DEF S
  <2>4. Live' = Live /\ Lost' = Lost /\ Scheduled' = Scheduled
    BY <2>1, <2>3 DEF Live, Lost, Running, Scheduled
  <2> QED BY <1>3, <2>1, <2>2, <2>4, RelayFrame
<1>8. CASE TakeStateSettlement
  <2> DEFINE S == TakenInput.tasks
             others == S \ (stateTasks \cup ignored)
             s == Settlements(others)
             rest == IF others = {} THEN Rest ELSE <<s>> \o Rest
  <2>1. PICK t \in S \cap Live :
         \/ ResultStateCompleted(rest)
         \/ UNCHANGED owed /\ ResultTerminal("failed", rest)
         \/ UNCHANGED owed /\ inputs' = rest /\ Back
    BY <1>8 DEF TakeStateSettlement, Live
  <2>2. /\ ignored' = ignored \ S /\ stateTasks' = stateTasks \ S /\ orphaned' = orphaned
    BY <1>8 DEF TakeStateSettlement, takeFrame, endVars
  <2>3. s \in InputRecords /\ s.type = "task_settlements" /\ s.tasks \cap stateTasks = {} /\ Fits(s)
    <3>1. others \subseteq Task /\ others \cap stateTasks = {} /\ others \cap Unused = {}
      BY <1>1, <1>2, RestFact DEF Fits
    <3> QED BY <3>1, SettlementsFact
  <2>4. \A x \in S \cap Live : Live' = {}
    BY <2>2 DEF RelayOK, WorkersOK, Live
  <2> HIDE DEF s
  <2>5. <<s>> \o Rest \in Seq(InputRecords) /\ ToSet(<<s>> \o Rest) = ToSet(Rest) \cup {s}
    BY <1>2, <2>3, PushFact
  <2>6. rest = Rest \/ rest = <<s>> \o Rest
    OBVIOUS
  <2> HIDE DEF rest
  <2>7. rest \in Seq(InputRecords) /\ \A e \in ToSet(rest) : Fits(e) /\ (e \in Entries \/ e = s)
    BY <1>2, <2>3, <2>5, <2>6
  <2>8. \A e \in Entries' :
          e \in Entries \/ e = s \/ Plain(e) \/ (e = Input("transition_enforcement") /\ owed')
    <3>1. CASE ResultStateCompleted(rest)
      BY <2>7, <3>1, CompletedFact DEF ResultStateCompleted, Entries
    <3>2. CASE ResultTerminal("failed", rest)
      BY <2>7, <3>2, TerminalFact, PlainFact DEF Entries
    <3>3. CASE inputs' = rest
      BY <2>7, <3>3 DEF Entries
    <3> QED BY <2>1, <3>1, <3>2, <3>3
  <2>9. pc' \in {"select", "exiting"} /\ (owed => owed')
    BY <2>1, BackFact DEF ResultStateCompleted, ResultTerminal
  <2>10. Live' = {} /\ Lost' = {}
    BY <2>1, <2>4 DEF Lost
  <2>11. \A e \in Entries' : e.tasks \cap stateTasks' = {}
    BY <2>2, <2>3, <2>8, InputFact DEF RelayOK, WorkersOK, Plain, InputTypes
  <2>12. EnforcementIsOwed'
    BY <2>3, <2>8, <2>9, HasFact DEF RelayOK, EnforcementIsOwed, Plain
  <2> QED BY <2>9, <2>10, <2>11, <2>12 DEF RelayOK, WorkersOK, LostOK, DrainedOK
<1>9. CASE TakeWake
  <2>1. TakenInput.type = "wake" /\ UNCHANGED orphaned
    BY <1>9 DEF TakeWake, takeFrame, endVars
  <2>2. fresh = {} /\ Running = {} /\ Live = {}
    <3>1. fresh = {} /\ TakenInput \in Entries /\ ~Open
      BY <1>1, <2>1, TakenKind
    <3>2. HasInput("wake")
      BY <2>1, <3>1, HasFact
    <3> QED BY <3>1, <3>2, OpenFact DEF RelayOK, LostOK, Lost
  <2>3. CASE current = "timer"
    <3>1. CancelScheduled(task) /\ ResultStateCompleted(Rest) /\ UNCHANGED stateTasks
      BY <1>9, <2>3 DEF TakeWake
    <3>2. Live' = {} /\ Lost' = {} /\ owed' = TRUE /\ pc' \in {"select", "exiting"}
      BY <2>2, <3>1, BackFact DEF CancelScheduled, Live, Lost, ResultStateCompleted
    <3>3. \A e \in Entries' : e \in Entries \/ e.tasks = {}
      BY <1>2, <3>1, CompletedFact, InputFact DEF Entries, InputTypes
    <3> QED BY <3>1, <3>2, <3>3
            DEF RelayOK, WorkersOK, LostOK, EnforcementIsOwed, DrainedOK
  <2>4. ASSUME NEW t \in Unused, CancelScheduled(StartIn(task, t, "running")),
               stateTasks' = stateTasks \cup {t}, inputs' = Rest, Back, owed' = owed
        PROVE  RelayOK'
    <3>3. Live' \subseteq {t} /\ t \in Running'
      BY <2>2, <2>4, CancelFact DEF Live, CancelScheduled, TInv
    <3>4. Lost' = {}
      BY <3>3 DEF Lost
    <3>5. \A e \in Entries' : e.tasks \cap stateTasks' = {}
      BY <1>3, <2>4, SubFact DEF RelayOK, WorkersOK, Fits
    <3>6. EnforcementIsOwed'
      BY <1>3, <2>4, HasFact DEF RelayOK, EnforcementIsOwed
    <3> QED BY <2>4, <3>3, <3>4, <3>5, <3>6, BackFact DEF RelayOK, WorkersOK, LostOK, DrainedOK
  <2>6. CASE CancelScheduled(task) /\ UNCHANGED <<stateTasks, owed>> /\ ResultTerminal("failed", Rest)
    <3>1. Live' = {} /\ Lost' = {} /\ pc' \in {"select", "exiting"}
      BY <2>2, <2>6, BackFact DEF CancelScheduled, Live, Lost, ResultTerminal
    <3>2. \A e \in Entries' : e \in Entries \/ Plain(e)
      BY <1>2, <2>6, TerminalFact, PlainFact DEF Entries
    <3>3. \A e \in Entries' : e.tasks \cap stateTasks' = {}
      BY <2>6, <3>2 DEF RelayOK, WorkersOK, Plain
    <3>4. EnforcementIsOwed'
      BY <2>6, <3>2, HasFact DEF RelayOK, EnforcementIsOwed, Plain
    <3> QED BY <3>1, <3>3, <3>4 DEF RelayOK, WorkersOK, LostOK, DrainedOK
  <2>5. CASE current \notin {"timer", "poll"}
    <3>1. /\ fresh' = {} /\ UNCHANGED <<task, stateTasks, ignored, owed>>
          /\ ResultTerminal("completed", Rest)
      BY <1>9, <2>5 DEF TakeWake
    <3>2. \A e \in Entries' : e \in Entries \/ Plain(e)
      BY <1>2, <3>1, TerminalFact, PlainFact DEF Entries
    <3>3. pc' \in {"select", "exiting"}
      BY <3>1, BackFact DEF ResultTerminal
    <3> QED BY <1>4, <2>1, <2>2, <3>1, <3>2, <3>3
  <2> QED BY <1>9, <2>3, <2>4, <2>5, <2>6 DEF TakeWake
<1> QED BY <1>5, <1>6, <1>7, <1>8, <1>9

LEMMA RelayLoop ==
  ASSUME RInv, \/ QueueCleanup \/ LoopWaits \/ LoopWakes \/ QueueEnforcement \/ QueueNudge
               \/ LoopExits \/ LoopCleansUp \/ MemoryUpdated \/ TurnEnds \/ TurnReturns
  PROVE  RelayOK'
<1> USE DEF RInv, QInv
<1>1. inputs \in Seq(InputRecords) /\ \A e \in ToSet(inputs) : Fits(e)
  BY SubFact DEF Entries
<1>2. ASSUME UNCHANGED idleFrame, UNCHANGED fresh, pc' \notin {"deciding", "returning", "idle", "memory"},
             \A e \in Entries' : e \in Entries \/ Plain(e)
      PROVE  RelayOK'
  <2>1. UNCHANGED taskVars /\ owed' = owed /\ orphaned' = orphaned
    BY <1>2 DEF idleFrame, taskVars, endVars
  <2> QED BY <1>2, <2>1, RelaySame, RelayFrame
<1>3. NoInput => fresh = {} /\ Flushed = inputs /\ pc = "select"
  BY NoInputFact DEF TInv, NoInput, Looping
<1>4. CASE QueueCleanup
  <2>1. inputs' = Append(inputs, Input("background_task_cleanup"))
    BY <1>3, <1>4 DEF QueueCleanup
  <2>2. \A e \in Entries' : e \in Entries \/ Plain(e)
    BY <1>1, <2>1, AddsFact, PlainFact DEF InputTypes, Entries
  <2> QED BY <1>2, <1>3, <1>4, <2>2 DEF QueueCleanup
<1>5. CASE LoopWaits
  BY <1>2, <1>3, <1>5 DEF LoopWaits, Entries
<1>6. CASE LoopWakes
  BY <1>2, <1>6 DEF LoopWakes, Entries
<1>7. CASE QueueEnforcement
  <2> DEFINE x == Input("transition_enforcement")
  <2>1. inputs' = Append(inputs, x) /\ owed
    BY <1>3, <1>7 DEF QueueEnforcement, OwesTransition
  <2>2. \A e \in Entries' : e \in Entries \/ e = x
    BY <1>1, <2>1, AddsFact DEF InputTypes, Entries
  <2>3. x.tasks = {} /\ x.type = "transition_enforcement"
    BY DEF Input
  <2> HIDE DEF x
  <2>4. /\ UNCHANGED taskVars /\ owed' = owed /\ orphaned' = orphaned /\ pc' = "select"
    BY <1>3, <1>7 DEF QueueEnforcement, idleFrame, taskVars, endVars
  <2>5. HasInput("wake")' => HasInput("wake")
    BY <2>2, <2>3, HasFact
  <2>6. stateTasks' = stateTasks
    BY <2>4 DEF taskVars
  <2> QED BY <2>1, <2>2, <2>3, <2>4, <2>5, <2>6, RelaySame
          DEF RelayOK, WorkersOK, LostOK, EnforcementIsOwed, DrainedOK
<1>8. CASE QueueNudge
  <2>1. inputs' = <<Input("park_nudge")>> \o inputs
    BY <1>3, <1>8 DEF QueueNudge
  <2>2. \A e \in Entries' : e \in Entries \/ Plain(e)
    BY <1>1, <2>1, AddsFact, PlainFact DEF InputTypes, Entries
  <2> QED BY <1>2, <1>3, <1>8, <2>2 DEF QueueNudge
<1>9. CASE LoopExits
  BY <1>2, <1>9 DEF LoopExits, Entries
<1>10. CASE MemoryUpdated
  BY <1>2, <1>10 DEF MemoryUpdated, Entries
<1>11. CASE LoopCleansUp
  <2> DEFINE stale == fresh \cup UNION {inputs[i].tasks : i \in DOMAIN inputs}
  <2>1. /\ fresh' = {} /\ stateTasks' = stateTasks \ stale /\ ignored' = ignored \ stale
        /\ (orphaned => orphaned') /\ pc' = "memory" /\ UNCHANGED <<task, owed>>
        /\ inputs' = DropType(inputs, "task_settlements")
    BY <1>11 DEF LoopCleansUp, relayVars
  <2>2. fresh \subseteq stale
    OBVIOUS
  <2> HIDE DEF stale
  <2>3. Live' \subseteq Live /\ Lost' \subseteq Lost /\ Scheduled' = Scheduled
    BY <2>1, <2>2 DEF Live, Lost, Running, Scheduled
  <2>4. \A e \in Entries' : e \in Entries
    BY <2>1, SubFact DEF Entries, InputTypes
  <2> QED BY <2>1, <2>3, <2>4, RelayFrame
<1>12. CASE TurnEnds
  <2>1. /\ UNCHANGED <<taskVars, owed, orphaned, reason>> /\ Entries' = Entries
        /\ pc = "memory" /\ pc' = "returning" /\ asleep' = (TerminalType = "sleep")
    BY <1>12 DEF TurnEnds, Entries, cmdVars, intrVars
  <2>2. asleep' => Live = {}
    <3>1. asleep' => ~reason /\ Running = {} /\ Scheduled # {}
      BY <2>1, OpenFact DEF TerminalType
    <3> QED BY <2>1, <3>1 DEF RelayOK, DrainedOK, LostOK, Lost
  <2> QED BY <2>1, <2>2, RelaySame, RelayFrame
<1>13. CASE TurnReturns
  <2>1. /\ UNCHANGED <<taskVars, owed, orphaned, asleep>> /\ Entries' = Entries
        /\ pc = "returning" /\ pc' = "idle"
    BY <1>13 DEF TurnReturns, Entries, idleFrame, taskVars, endVars
  <2> QED BY <2>1, RelaySame, RelayFrame
<1> QED BY <1>4, <1>5, <1>6, <1>7, <1>8, <1>9, <1>10, <1>11, <1>12, <1>13

LEMMA RelaySelect ==
  ASSUME RInv, Select
  PROVE  RelayOK'
<1> USE DEF RInv, QInv
<1>1. PICK k \in StateKinds : StateSelected(k)
  BY DEF Select
<1>2. PICK due \in BOOLEAN : Execute(k, due)
  BY <1>1 DEF StateSelected
<1>3. Live = {} /\ orphaned' = FALSE
  BY <1>1 DEF StateSelected, RelayOK, WorkersOK
<1>4. /\ PaidInputs \in Seq(InputRecords)
      /\ \A e \in ToSet(PaidInputs) : Fits(e) /\ e \in Entries /\ e.type # "transition_enforcement"
  BY SubFact DEF PaidInputs, InputTypes
<1>5. \/ \E t \in Unused : CancelScheduled(StartIn(task, t, "running"))
                           /\ stateTasks' = stateTasks \cup {t}
      \/ \E t \in Unused : CancelScheduled(StartIn(task, t, "scheduled")) /\ UNCHANGED stateTasks
      \/ CancelScheduled(task) /\ UNCHANGED stateTasks
  BY <1>2 DEF Execute
<1>6. \/ inputs' = PaidInputs
      \/ ResultStateCompleted(PaidInputs)
      \/ \E status \in Statuses : ResultTerminal(status, PaidInputs)
  BY <1>2 DEF Execute, Statuses
<1>7. Back
  BY <1>2 DEF Execute, ResultStateCompleted, ResultTerminal
<1>8. \A e \in Entries' : \/ e \in Entries /\ e.type # "transition_enforcement"
                          \/ Plain(e)
                          \/ e = Input("transition_enforcement") /\ owed'
  <2>1. CASE inputs' = PaidInputs
    BY <1>4, <2>1 DEF Entries
  <2>2. CASE ResultStateCompleted(PaidInputs)
    BY <1>4, <2>2, CompletedFact DEF ResultStateCompleted, Entries
  <2>3. CASE \E status \in Statuses : ResultTerminal(status, PaidInputs)
    BY <1>4, <2>3, TerminalFact, PlainFact DEF Entries
  <2> QED BY <1>6, <2>1, <2>2, <2>3
<1>9. EnforcementIsOwed'
  BY <1>8, HasFact DEF EnforcementIsOwed, Plain
<1>10. (\A s, t \in Live' : s = t) /\ Lost' = {} /\ (\A e \in Entries' : e.tasks \cap stateTasks' = {})
  <2>1. \A e \in Entries' : e.tasks \cap stateTasks = {}
    BY <1>8, InputFact DEF RelayOK, WorkersOK, Plain, InputTypes
  <2>2. CASE UNCHANGED stateTasks
    <3>1. Live' = {}
      BY <1>3, <1>5, <2>2 DEF Live, CancelScheduled
    <3> QED BY <2>1, <2>2, <3>1 DEF Lost
  <2>3. ASSUME NEW t \in Unused, CancelScheduled(StartIn(task, t, "running")),
               stateTasks' = stateTasks \cup {t}
        PROVE  /\ \A s, u \in Live' : s = u
               /\ Lost' = {}
               /\ \A e \in Entries' : e.tasks \cap stateTasks' = {}
    <3>1. Live' \subseteq {t} /\ t \in Running'
      BY <1>3, <2>3, CancelFact DEF Live, CancelScheduled, TInv
    <3>2. \A e \in Entries' : t \notin e.tasks
      BY <1>8, SubFact, InputFact DEF Plain, Fits, InputTypes
    <3> QED BY <2>1, <2>3, <3>1, <3>2 DEF Lost
  <2> QED BY <1>5, <2>2, <2>3
<1> QED BY <1>3, <1>7, <1>9, <1>10, BackFact DEF RelayOK, WorkersOK, LostOK, DrainedOK
LEMMA NextRInv ==
  ASSUME RInv, Next
  PROVE  InputsFit /\ RInv'
<1>1. InputsFit /\ QInv'
  BY NextQInv DEF RInv
<1>2. RelayOK'
  BY RelayPass, RelayOther, RelayTake, RelayLoop, RelaySelect DEF Next, LoopStep
<1> QED BY <1>1, <1>2 DEF RInv

LEMMA InitRInv == Init => RInv
<1>1. Init => QInv
  BY InitTInv DEF Init, QInv, QuietAsk, QuietExit, LastHonest
<1>2. Init => RelayOK
  BY DEF Init, RelayOK, WorkersOK, LostOK, EnforcementIsOwed, DrainedOK, Live, Lost, HasInput,
         Entries, ToSet
<1> QED BY <1>1, <1>2 DEF RInv

LEMMA StutterRInv ==
  ASSUME RInv, UNCHANGED vars
  PROVE  RInv'
<1>1. QInv'
  BY StutterTInv DEF RInv, QInv, QuietAsk, QuietExit, LastHonest, Running, vars, taskVars,
       intrVars, turnVars, endVars
<1>2. RelayOK'
  <2>1. UNCHANGED <<taskVars, owed, orphaned, pc, asleep, reason>> /\ Entries' = Entries
    BY DEF vars, intrVars, turnVars, relayVars, endVars, cmdVars, Entries
  <2> QED BY <2>1, RelaySame, RelayFrame DEF RInv, RelayOK, DrainedOK
<1> QED BY <1>1, <1>2 DEF RInv

(* At most one worker's end is to be recorded, and the parent is reminded  *)
(* of a transition only while it owes one: for any number of tasks and     *)
(* selections, with interrupts, wakes and failing polls among them.        *)
THEOREM Relay == Spec => []RelayIsKept
<1>1. Init => RInv
  BY InitRInv
<1>2. RInv /\ [Next]_vars => RInv'
  BY NextRInv, StutterRInv
<1>3. RInv => RelayIsKept
  <2>1. SUFFICES ASSUME RInv PROVE RelayIsKept
    OBVIOUS
  <2>2. \A s, t \in Live : s = t
    BY <2>1 DEF RInv, RelayOK, WorkersOK
  <2>3. Live = {} \/ \E t : Live = {t}
    BY <2>2
  <2>4. Cardinality(Live) <= 1
    BY <2>3, FS_EmptySet, FS_Singleton
  <2> QED BY <2>1, <2>4 DEF RInv, RelayOK, RelayIsKept, OneWorker, Live
<1> QED BY <1>1, <1>2, <1>3, PTL DEF Spec
-----------------------------------------------------------------------------
(* The transitions.                                                        *)

(* A step that leaves the machine to those who drive it.                   *)
LEMMA DebtsFrame ==
  ASSUME DebtsOK,
         UNCHANGED <<machine, current>>, Scheduled' = Scheduled, owed' = owed,
         orphaned => orphaned', Live \subseteq Live' \/ orphaned',
         pc = "deciding" => pc' = "deciding",
         pc' = "failing" => completion' = "failed",
         pc' \in {"exiting", "memory"} =>
           \/ pc \in {"exiting", "memory"} /\ UNCHANGED <<reason, questions, completion>>
           \/ reason' \/ questions' \/ completion' = "failed" \/ Scheduled # {}
           \/ ~OwesTransition
  PROVE  DebtsOK'
BY DEF DebtsOK, Driven, OwesTransition

LEMMA DebtsPass ==
  ASSUME OInv, PassStep
  PROVE  DebtsOK'
<1> USE DEF OInv, RInv, QInv
<1>1. EndPass => pc = "pass"
  BY EndFact
<1>2. ASSUME pc = "pass", UNCHANGED passFrame, Back \/ pc' = "pass"
      PROVE  DebtsOK'
  <2>1. UNCHANGED <<machine, current, owed, orphaned>> /\ Live' = Live /\ Scheduled' = Scheduled
    BY <1>2, RelaySame DEF passFrame, endVars
  <2>2. pc' = "exiting" => Scheduled # {}
    BY <1>2, <2>1, BackFact
  <2> QED BY <1>2, <2>1, <2>2, DebtsFrame, BackFact
<1>3. CASE PassInterrupted
  BY <1>1, <1>2, <1>3 DEF PassInterrupted, ResultInterrupted
<1>4. CASE PassAsks \/ PauseRelay
  BY <1>1, <1>2, <1>4 DEF PassAsks, PauseRelay, ResultAsk
<1>5. ASSUME NEW status \in Statuses, PassEnds(status) PROVE DebtsOK'
  BY <1>1, <1>2, <1>5 DEF PassEnds, ResultNone, ResultTerminal
<1>6. CASE EnforceAgain
  BY <1>2, <1>6 DEF EnforceAgain, StartPass, PassOK, TInv
<1>7. CASE CleanupPassThrows
  <2>1. /\ UNCHANGED <<stateTasks, ignored, machine, current, owed>>
        /\ pc' = "failing" /\ completion' = "failed"
        /\ (orphaned' <=> orphaned \/ (current \in {"poll", "timer"} /\ Scheduled # {}))
    BY <1>7 DEF CleanupPassThrows
  <2>2. Live' = Live
    BY <2>1 DEF Live
  <2>3. pc = "pass"
    BY <1>1, <1>7 DEF CleanupPassThrows
  <2> QED BY <2>1, <2>2, <2>3 DEF DebtsOK, Driven
<1>8. CASE PassSelects
  <2>1. /\ pc' = "deciding" /\ UNCHANGED machine
        /\ current' \in {current, "interrupted"}
    BY <1>8 DEF PassSelects
  <2> QED BY <2>1 DEF DebtsOK
<1> QED BY <1>3, <1>4, <1>5, <1>6, <1>7, <1>8 DEF PassStep

LEMMA DebtsOther ==
  ASSUME OInv, \/ PromptStarts \/ ModelStep \/ UserStep \/ Joins \/ IdleInterruptReports
               \/ \E t \in Task : Settle(t)
  PROVE  DebtsOK'
<1> USE DEF OInv, RInv, QInv
<1>1. ASSUME UNCHANGED <<stateTasks, ignored, owed, orphaned, machine, current>>,
             Scheduled' = Scheduled,
             (pc' = "select" /\ pc = "idle") \/ UNCHANGED <<pc, reason, questions, completion>>
      PROVE  DebtsOK'
  <2>1. Live' = Live
    BY <1>1 DEF Live
  <2>2. pc = "failing" => completion = "failed"
    BY DEF DebtsOK
  <2> QED BY <1>1, <2>1, <2>2, DebtsFrame
<1>2. UNCHANGED task => Scheduled' = Scheduled
  BY DEF Scheduled
<1>3. ASSUME NEW t \in Task, Settle(t) PROVE DebtsOK'
  <2>1. Scheduled' = Scheduled
    BY <1>3 DEF Settle, Scheduled, TInv, TypeOK
  <2> QED BY <1>1, <1>3, <2>1 DEF Settle, intrVars, relayVars, endVars
<1>4. CASE PromptStarts
  BY <1>1, <1>2, <1>4 DEF PromptStarts, taskVars, intrVars, turnVars, relayVars, endVars
<1>5. CASE ModelStep
  <2>1. Scheduled' = Scheduled
    BY <1>2, <1>5 DEF ModelStep, PiReads, PassStartsTask, PassStopsTask, ControlTool, taskVars,
       Scheduled, Unused, TInv, TypeOK
  <2> QED BY <1>1, <1>5, <2>1 DEF ModelStep, PiReads, PassStartsTask, PassStopsTask, ControlTool,
          taskVars, intrVars, turnVars, relayVars, endVars
<1>6. CASE UserStep /\ ~Interrupt
  BY <1>1, <1>2, <1>6 DEF UserStep, TurnCalled, EditFollowUps, WakeStarts, BeginTurn,
          taskVars, intrVars, turnVars, relayVars, endVars
<1>7. CASE Joins
  BY <1>1, <1>2, <1>7 DEF Joins, TurnStarts, TurnJoins, BeginTurn,
          taskVars, intrVars, turnVars, relayVars, endVars
<1>8. CASE IdleInterruptReports
  BY <1>1, <1>2, <1>8 DEF IdleInterruptReports, taskVars, turnVars
<1>9. CASE Interrupt
  <2>1. PICK held \in SUBSET fresh : InterruptTasks(held)
    BY <1>9 DEF Interrupt
  <2>2. /\ UNCHANGED <<pc, machine, completion, owed, stateTasks>> /\ reason' = TRUE
        /\ (orphaned => orphaned')
    BY <1>9, <2>1 DEF Interrupt, InterruptTasks
  <2>3. \/ current' = "interrupted"
        \/ /\ current' = current /\ ignored' = ignored
           /\ (current \in {"poll", "timer"} => Scheduled = {})
    BY <2>1 DEF InterruptTasks
  <2>4. ignored' = ignored => Live' = Live
    BY <2>2 DEF Live
  <2> QED BY <2>2, <2>3, <2>4 DEF DebtsOK, Driven
<1> QED BY <1>3, <1>4, <1>5, <1>6, <1>7, <1>8, <1>9 DEF UserStep

LEMMA DebtsTake ==
  ASSUME OInv, \/ TakeCommand \/ TakeTaskSettlements \/ TakeStateSettlement \/ TakeWake
               \/ \E type \in Continuations : TakeContinuation(type)
  PROVE  DebtsOK'
<1> USE DEF OInv, RInv, QInv
<1>1. Runnable(Flushed) # {} /\ pc = "select"
  BY DEF TakeCommand, TakeTaskSettlements, TakeStateSettlement, TakeWake, TakeContinuation, Taken,
         Looping
<1>2. pc' = "pass" \/ Back =>
        pc' \in {"pass", "select", "exiting"} /\ (pc' = "exiting" => Scheduled' # {})
  BY BackFact
<1>3. ASSUME UNCHANGED <<task, machine, current, owed, orphaned>>, Live' = Live,
             pc' = "pass" \/ Back
      PROVE  DebtsOK'
  <2>1. Scheduled' = Scheduled
    BY <1>3 DEF Scheduled
  <2> QED BY <1>1, <1>2, <1>3, <2>1, DebtsFrame
<1>4. CASE TakeCommand
  BY <1>3, <1>4 DEF TakeCommand, Taken, StartPass, takeFrame, endVars, Live
<1>5. CASE \E type \in Continuations : TakeContinuation(type)
  BY <1>3, <1>5 DEF TakeContinuation, Taken, StartPass, takeFrame, endVars, Live
<1>6. CASE TakeTaskSettlements
  <2>1. Live' = Live
    BY <1>6 DEF TakeTaskSettlements, Live
  <2> QED BY <1>3, <1>6, <2>1 DEF TakeTaskSettlements, StartPass, takeFrame, endVars
<1>7. CASE TakeStateSettlement
  <2>1. \/ UNCHANGED <<machine, current>> /\ owed'
        \/ machine' = "terminal"
        \/ UNCHANGED <<machine, current>> /\ current = "poll" /\ Rescheduled
        \/ current' = "interrupted"
    BY <1>7 DEF TakeStateSettlement, ResultStateCompleted
  <2>2. Back
    BY <1>7 DEF TakeStateSettlement, ResultStateCompleted, ResultTerminal
  <2>3. Rescheduled => Scheduled' # {}
    BY DEF Rescheduled, Scheduled, Unused, TInv, TypeOK
  <2> QED BY <1>2, <2>1, <2>2, <2>3 DEF DebtsOK, Driven
<1>8. CASE TakeWake
  <2>1. UNCHANGED <<current, orphaned>>
    BY <1>8 DEF TakeWake, takeFrame, endVars
  <2>2. Back
    BY <1>8 DEF TakeWake, ResultStateCompleted, ResultTerminal
  <2>3. CASE current = "timer"
    <3>1. owed' /\ machine' = machine
      BY <1>8, <2>3 DEF TakeWake, ResultStateCompleted
    <3> QED BY <1>2, <2>1, <2>2, <3>1 DEF DebtsOK, Driven
  <2>4. ASSUME NEW t \in Unused, CancelScheduled(StartIn(task, t, "running")),
               stateTasks' = stateTasks \cup {t}, machine' = machine
        PROVE  DebtsOK'
    <3>1. t \notin ignored' /\ t \in stateTasks'
      BY <2>4 DEF CancelScheduled, Scheduled, Unused, TInv, StartedOK
    <3> QED BY <1>2, <2>1, <2>2, <2>4, <3>1 DEF DebtsOK, Driven, Live
  <2>6. CASE machine' = "terminal"
    BY <1>2, <2>2, <2>6 DEF DebtsOK
  <2>5. CASE current \notin {"timer", "poll"}
    <3>1. UNCHANGED <<task, stateTasks, ignored, owed, machine>>
      BY <1>8, <2>5 DEF TakeWake
    <3> QED BY <1>3, <2>1, <2>2, <3>1 DEF Live
  <2> QED BY <1>8, <2>3, <2>4, <2>5, <2>6 DEF TakeWake
<1> QED BY <1>4, <1>5, <1>6, <1>7, <1>8

LEMMA DebtsLoop ==
  ASSUME OInv, \/ QueueCleanup \/ LoopWaits \/ LoopWakes \/ QueueEnforcement \/ QueueNudge
               \/ LoopExits \/ LoopCleansUp \/ MemoryUpdated \/ TurnEnds \/ TurnReturns
  PROVE  DebtsOK'
<1> USE DEF OInv, RInv, QInv
<1>1. ASSUME UNCHANGED idleFrame, pc \notin {"deciding"}, pc' \notin {"exiting", "memory", "failing"}
      PROVE  DebtsOK'
  <2>1. Live' = Live /\ Scheduled' = Scheduled /\ UNCHANGED <<machine, current, owed, orphaned>>
    BY <1>1 DEF idleFrame, endVars, Live, Scheduled
  <2> QED BY <1>1, <2>1, DebtsFrame
<1>2. CASE QueueCleanup \/ QueueEnforcement \/ QueueNudge
  BY <1>1, <1>2 DEF QueueCleanup, QueueEnforcement, QueueNudge, NoInput, Looping
<1>3. CASE LoopWaits \/ LoopWakes \/ MemoryUpdated \/ TurnReturns
  BY <1>1, <1>3 DEF LoopWaits, LoopWakes, MemoryUpdated, TurnReturns, NoInput, Looping
<1>4. CASE LoopExits
  <2>1. /\ Live' = Live /\ Scheduled' = Scheduled
        /\ UNCHANGED <<machine, current, owed, orphaned, reason, questions, completion>>
    BY <1>4 DEF LoopExits, idleFrame, intrVars, endVars, Live, Scheduled
  <2>2. pc' = "exiting" /\ pc \in {"select", "failing"}
    BY <1>4 DEF LoopExits, NoInput, Looping
  <2>3. ~OwesTransition \/ questions \/ reason \/ completion = "failed"
    BY <1>4 DEF LoopExits, DebtsOK
  <2> QED BY <2>1, <2>2, <2>3, DebtsFrame
<1>5. CASE LoopCleansUp
  <2> DEFINE stale == fresh \cup UNION {inputs[i].tasks : i \in DOMAIN inputs}
  <2>1. /\ stateTasks' = stateTasks \ stale /\ ignored' = ignored \ stale
        /\ (orphaned' <=> orphaned \/ stale \cap (stateTasks \ ignored) # {})
    BY <1>5 DEF LoopCleansUp
  <2>2. /\ pc = "exiting" /\ pc' = "memory"
        /\ UNCHANGED <<task, machine, current, owed, reason, questions, completion>>
    BY <1>5 DEF LoopCleansUp, relayVars, intrVars
  <2> HIDE DEF stale
  <2>3. Live \subseteq Live' \/ orphaned'
    BY <2>1 DEF Live
  <2>4. Scheduled' = Scheduled
    BY <2>2 DEF Scheduled
  <2> QED BY <2>1, <2>2, <2>3, <2>4, DebtsFrame
<1>6. CASE TurnEnds
  <2>1. /\ Live' = Live /\ Scheduled' = Scheduled
        /\ UNCHANGED <<machine, current, owed, orphaned>> /\ pc = "memory" /\ pc' = "returning"
    BY <1>6 DEF TurnEnds, taskVars, Live, Scheduled
  <2> QED BY <2>1, DebtsFrame
<1> QED BY <1>2, <1>3, <1>4, <1>5, <1>6

LEMMA DebtsSelect ==
  ASSUME OInv, Select
  PROVE  DebtsOK'
<1> USE DEF OInv, RInv, QInv
<1>1. PICK k \in StateKinds : StateSelected(k)
  BY DEF Select
<1>2. PICK due \in BOOLEAN : Execute(k, due)
  BY <1>1 DEF StateSelected
<1>3. Back
  BY <1>2 DEF Execute, ResultStateCompleted, ResultTerminal
<1>4. pc' \in {"select", "exiting"} /\ (pc' = "exiting" => Scheduled' # {})
  BY <1>3, BackFact
<1>5. current' = k /\ machine' = IF k = "terminal" THEN "terminal" ELSE "live"
  BY <1>1 DEF StateSelected
<1>6. CASE k \in {"task", "poll"}
  <2>1. PICK t \in Unused : /\ CancelScheduled(StartIn(task, t, "running"))
                            /\ stateTasks' = stateTasks \cup {t}
    BY <1>2, <1>6 DEF Execute
  <2>2. t \notin ignored' /\ t \in stateTasks'
    BY <2>1 DEF CancelScheduled, Scheduled, Unused, TInv, StartedOK
  <2> QED BY <1>4, <1>5, <1>6, <2>2 DEF DebtsOK, Driven, Live
<1>7. CASE k = "timer" /\ ~due
  <2>1. PICK t \in Unused : CancelScheduled(StartIn(task, t, "scheduled"))
    BY <1>2, <1>7 DEF Execute
  <2>2. Scheduled' # {}
    BY <2>1, CancelFact DEF TInv
  <2> QED BY <1>4, <1>5, <1>7, <2>2 DEF DebtsOK, Driven
<1>8. CASE k = "timer" /\ due
  <2>1. owed'
    BY <1>2, <1>8 DEF Execute, ResultStateCompleted
  <2>2. Scheduled' = {} => pc' = "select"
    BY <1>4
  <2> QED BY <1>4, <1>5, <1>8, <2>1, <2>2 DEF DebtsOK, Driven
<1>9. CASE k \in {"park", "terminal"}
  BY <1>4, <1>5, <1>9 DEF DebtsOK, OwesTransition
<1> QED BY <1>6, <1>7, <1>8, <1>9 DEF StateKinds

LEMMA NextOInv ==
  ASSUME OInv, [Next]_vars
  PROVE  OInv'
<1>1. ASSUME UNCHANGED vars PROVE DebtsOK'
  BY <1>1 DEF OInv, DebtsOK, Driven, Live, Scheduled, OwesTransition, vars, taskVars, intrVars,
     turnVars, relayVars, endVars
<1>2. ASSUME Next PROVE DebtsOK'
  BY <1>2, DebtsPass, DebtsOther, DebtsTake, DebtsLoop, DebtsSelect DEF Next, LoopStep
<1> QED BY <1>1, <1>2, NextRInv, StutterRInv DEF OInv

(* A turn that completes over a live machine owes no transition, and its   *)
(* state is parked or was interrupted, unless the end of that state's work *)
(* was thrown away: the loop cannot forget the poll, the timer or the      *)
(* worker it waits for, nor a reminder that was queued before a sleep.     *)
THEOREM Owed == Spec => OwedIsEnforced
<1> DEFINE Honoured == pc = "memory" /\ pc' = "returning" /\ TerminalType = "complete"
                         /\ machine = "live" => ~owed /\ (current \in {"park", "interrupted"} \/ orphaned)
<1>1. Init => OInv
  BY InitRInv DEF OInv, DebtsOK, Init
<1>2. OInv /\ [Next]_vars => OInv'
  BY NextOInv
<1>3. OInv /\ [Next]_vars => [Honoured]_vars
  <2>1. SUFFICES ASSUME OInv, pc = "memory", TerminalType = "complete", machine = "live"
                 PROVE  ~owed /\ (current \in {"park", "interrupted"} \/ orphaned)
    OBVIOUS
  <2>2. ~reason /\ ~questions /\ completion = "completed" /\ PendingWork # "sleep"
    BY <2>1 DEF TerminalType, OInv, RInv, QInv, TInv, TypeOK, Statuses
  <2>3. Running = {} /\ fresh = {}
    BY <2>1, <2>2 DEF OInv, RInv, QInv, QuietExit, RelayOK, DrainedOK
  <2>4. Scheduled = {}
    BY <2>2, <2>3 DEF PendingWork
  <2>5. ~owed
    BY <2>1, <2>2, <2>4 DEF OInv, DebtsOK, OwesTransition
  <2>6. current \notin {"park", "interrupted"} /\ ~orphaned => Live # {}
    BY <2>1, <2>4, <2>5 DEF OInv, DebtsOK, Driven
  <2>7. Live # {} => orphaned
    BY <2>1, <2>3 DEF OInv, RInv, RelayOK, LostOK, Lost
  <2> QED BY <2>5, <2>6, <2>7
<1> QED BY <1>1, <1>2, <1>3, PTL DEF Spec, OwedIsEnforced
(* A loop in its memory update ends only by the end of its turn.           *)
LEMMA OnlyTurnEnds ==
  ASSUME TInv, Next, pc = "memory", pc' = "returning"
  PROVE  TurnEnds
<1>1. pass = "none"
  BY DEF TInv, PassOK
<1>2. ~PassStep
  BY <1>1, EndFact DEF PassStep, PassInterrupted, PassAsks, PassEnds, CleanupPassThrows, EnforceAgain,
     PauseRelay, PassSelects
<1>3. ~PromptStarts /\ ~ModelStep
  BY <1>1 DEF PromptStarts, ModelStep, PiReads, PassStartsTask, PassStopsTask, ControlTool, Prompting
<1>4. ~Select
  BY DEF Select, StateSelected
<1>5. ~UserStep /\ ~Joins /\ ~IdleInterruptReports /\ ~\E t \in Task : Settle(t)
  BY DEF UserStep, TurnCalled, EditFollowUps, WakeStarts, Interrupt, Joins, TurnStarts, TurnJoins,
     BeginTurn, IdleInterruptReports, Settle, turnVars
<1>6. LoopStep
  BY <1>2, <1>3, <1>4, <1>5 DEF Next
<1> QED BY <1>6 DEF LoopStep, TakeCommand, TakeTaskSettlements, TakeStateSettlement, TakeWake,
     TakeContinuation, Taken, QueueCleanup, LoopWaits, LoopWakes, QueueEnforcement, QueueNudge,
     LoopExits, LoopCleansUp, MemoryUpdated, TurnReturns, NoInput, Looping

(* A turn that completes leaves no input behind: what came in while it     *)
(* updated the memory takes it back into its loop.                         *)
THEOREM Drained == Spec => CompletionDrains
<1> DEFINE Drains == pc = "memory" /\ pc' = "returning" /\ TerminalType \in {"complete", "failed"}
                       => inputs = <<>>
<1>1. Init => TInv
  BY InitTInv
<1>2. TInv /\ [Next]_vars => TInv'
  BY NextTInv, StutterTInv
<1>3. TInv /\ [Next]_vars => [Drains]_vars
  <2>1. SUFFICES ASSUME TInv, Next, pc = "memory", pc' = "returning",
                        TerminalType \in {"complete", "failed"}
                 PROVE  inputs = <<>>
    OBVIOUS
  <2>2. ~reason /\ ~questions /\ ~RetainsFollowUps
    BY <2>1 DEF TerminalType, RetainsFollowUps
  <2> QED BY <2>1, <2>2, OnlyTurnEnds DEF TurnEnds, LateInputs
<1> QED BY <1>1, <1>2, <1>3, PTL DEF Spec, CompletionDrains
-----------------------------------------------------------------------------
(* The commands.                                                           *)
LEMMA InFact ==
  /\ \A c \in Cmd : c \in InQueue <=> \E e \in Entries : e.cmd = c
  /\ \A c \in Cmd : c \in InQueue' <=> \E e \in Entries' : e.cmd = c
  /\ InQueue \subseteq Cmd /\ InQueue' \subseteq Cmd
BY DEF InQueue, InInputs, Entries, ToSet

LEMMA VisibleFact ==
  ASSUME followUps \in Seq(Cmd), NEW c \in Cmd
  PROVE  /\ Without(followUps, c) \in Seq(Cmd)
         /\ ToSet(Without(followUps, c)) = Visible \ {c}
         /\ IsInjective(followUps) => IsInjective(Without(followUps, c))
         /\ Visible \subseteq Cmd
<1> DEFINE I == {i \in DOMAIN followUps : followUps[i] # c}
<1>1. {followUps[i] : i \in I} = Visible \ {c}
  BY DEF ToSet, Visible
<1>2. Visible \subseteq Cmd
  BY DEF ToSet, Visible
<1> QED BY <1>1, <1>2, PickedFact DEF Without

(* Queues made of some entries of parentInputs hold each command once.     *)
LEMMA OneFact ==
  ASSUME TypeOK, OneEach(inputs)
  PROVE  /\ \A c \in Cmd : OneEach(DropCmd(inputs, c))
         /\ \A ty \in InputTypes : OneEach(DropType(inputs, ty))
         /\ OneEach(NoFollowUps(inputs))
<1>1. \A I \in SUBSET DOMAIN inputs : OneEach(Picked(inputs, I))
  BY PickedFact DEF TypeOK
<1> QED BY <1>1 DEF DropCmd, DropType, NoFollowUps

(* A step that moves no command.                                           *)
LEMMA KeptFrame ==
  ASSUME KInv, UNCHANGED <<cmd, reads, behavior, followUps>>, inPi' \subseteq inPi,
         \A e \in Entries : e \in Entries' \/ e.cmd = None,
         \A e \in Entries' : e \in Entries \/ e.cmd = None,
         OneEach(inputs) => OneEach(inputs'), pc = "idle" => pc' = "idle"
  PROVE  KeptOK'
<1>1. InQueue' = InQueue
  BY InFact, TurnLoopAssumption
<1>2. Visible' = Visible
  BY DEF Visible
<1>3. OneEach(inputs)' /\ FollowUpsOK'
  BY <1>2 DEF KInv, KeptOK, FollowUpsOK, OneEach
<1> QED BY <1>1, <1>2, <1>3 DEF KInv, KeptOK, QueuedOK, Restorable

(* The model is given command c.                                           *)
LEMMA KeptRead ==
  ASSUME KInv, NEW c \in Cmd, c \in InQueue, pc # "idle",
         cmd' = [cmd EXCEPT ![c] = "read"], reads' = [reads EXCEPT ![c] = @ + 1],
         followUps' = Without(followUps, c), behavior' = behavior,
         inPi' \subseteq inPi \ {c}, InQueue' = InQueue \ {c}, OneEach(inputs')
  PROVE  KeptOK'
<1> USE DEF KInv, KeptOK
<1>1. /\ Visible' = Visible \ {c} /\ IsInjective(followUps') /\ Visible \subseteq Cmd
  BY VisibleFact DEF TInv, TypeOK, FollowUpsOK, Visible
<1>2. FollowUpsOK' /\ OneEach(inputs)'
  BY <1>1 DEF FollowUpsOK, IsInjective, OneEach
<1>3. cmd[c] = "queued" /\ reads[c] = 0
  BY DEF QueuedOK
<1>4. /\ \A d \in Cmd : cmd'[d] = IF d = c THEN "read" ELSE cmd[d]
      /\ \A d \in Cmd : reads'[d] = IF d = c THEN 1 ELSE reads[d]
  BY <1>3 DEF TInv, TypeOK
<1>5. QueuedOK'
  BY <1>1, <1>4 DEF QueuedOK
<1>6. \A d \in Visible : d \in InQueue
  BY <1>1 DEF QueuedOK
<1>7. Restorable'
  BY <1>1, <1>6 DEF Restorable
<1> QED BY <1>2, <1>5, <1>7

LEMMA KeptBegin ==
  ASSUME KInv, NEW x \in InputRecords, Fits(x), BeginTurn(x), UNCHANGED <<followUps, behavior>>,
         x.cmd \notin InQueue \cup Visible
  PROVE  /\ OneEach(inputs') /\ FollowUpsOK'
         /\ Visible' = Visible /\ Visible \subseteq InQueue'
         /\ InQueue \subseteq InQueue' /\ InQueue' \subseteq InQueue \cup Visible \cup {x.cmd}
         /\ x.cmd \in Cmd => x.cmd \in InQueue'
<1> USE DEF KInv, KeptOK
<1>1. /\ Append(inputs, x) \in Seq(InputRecords)
      /\ ToSet(Append(inputs, x)) = Entries \cup {x}
      /\ (\A e \in Entries : e.cmd # None => e.cmd # x.cmd) => OneEach(Append(inputs, x))
  <2>1. (\A e \in Entries : e.cmd # None => e.cmd # x.cmd) =>
          x.cmd = None \/ \A e \in Entries : e.cmd # x.cmd
    OBVIOUS
  <2> QED BY <2>1, SubFact, AppendFact DEF Entries
<1>2. \A e \in Entries : e.cmd \in Cmd => e.cmd \in InQueue
  BY InFact
<1>3. \A e \in Entries : e.cmd \in Cmd \/ e.cmd = None
  BY SubFact DEF InputRecords
<1>4. OneEach(Append(inputs, x))
  BY <1>1, <1>2, <1>3
<1>5. Visible \subseteq Cmd /\ Visible' = Visible /\ FollowUpsOK'
  BY DEF Visible, FollowUpsOK, ToSet, TInv, TypeOK
<1>6. CASE \E i \in DOMAIN inputs : IsFollowUp(inputs[i])
  <2>1. Restored = <<>>
    BY <1>6 DEF Restored
  <2>2. inputs' = Append(inputs, x)
    BY <1>1, <2>1, ConcatEmptySeq DEF BeginTurn
  <2>3. Entries' = Entries \cup {x}
    BY <1>1, <2>2 DEF Entries
  <2>4. PICK i \in DOMAIN inputs : IsFollowUp(inputs[i])
    BY <1>6
  <2>5. inputs[i] \in Entries
    BY DEF Entries, ToSet
  <2>6. inputs[i].cmd \in InQueue /\ behavior[inputs[i].cmd] = "follow_up"
    BY <1>2, <1>3, <2>4, <2>5, SubFact DEF IsFollowUp, Fits
  <2>7. Visible \subseteq InQueue
    BY <2>6 DEF Restorable
  <2>8. InQueue \subseteq InQueue' /\ InQueue' \subseteq InQueue \cup {x.cmd}
    BY <2>3, InFact
  <2> QED BY <1>4, <1>5, <2>2, <2>3, <2>7, <2>8, InFact
<1>7. CASE ~\E i \in DOMAIN inputs : IsFollowUp(inputs[i])
  <2> DEFINE given == Commands(followUps)
  <2>1. /\ given \in Seq(InputRecords) /\ OneEach(given)
        /\ ToSet(given) = {Command(d) : d \in Visible}
    BY CommandsFact DEF TInv, TypeOK, FollowUpsOK, Visible
  <2>2. inputs' = Append(inputs, x) \o given
    BY <1>7 DEF BeginTurn, Restored
  <2> HIDE DEF given
  <2>3. \A d \in Visible : d \notin InQueue /\ d # x.cmd
    <3>1. \A e \in Entries : ~IsFollowUp(e)
      BY <1>7 DEF Entries, ToSet
    <3>2. ASSUME NEW d \in Visible, d \in InQueue PROVE FALSE
      <4>1. PICK e \in Entries : e.cmd = d
        BY <1>5, <3>2, InFact
      <4>2. e.type = "user_command" /\ behavior[e.cmd] = "follow_up"
        BY <1>5, <4>1, SubFact, TurnLoopAssumption DEF Fits, FollowUpsOK
      <4> QED BY <3>1, <4>2 DEF IsFollowUp
    <3> QED BY <3>2
  <2>4. \A e \in ToSet(Append(inputs, x)), f \in ToSet(given) : e.cmd = f.cmd => e.cmd = None
    BY <1>1, <1>2, <1>3, <1>5, <2>1, <2>3, CommandFact
  <2>5. OneEach(inputs') /\ Entries' = Entries \cup {x} \cup {Command(d) : d \in Visible}
    <3> DEFINE y == Append(inputs, x)
    <3>1. /\ y \in Seq(InputRecords) /\ ToSet(y) = Entries \cup {x} /\ OneEach(y)
          /\ inputs' = y \o given
          /\ \A e \in ToSet(y), f \in ToSet(given) : e.cmd = f.cmd => e.cmd = None
      BY <1>1, <1>4, <2>2, <2>4
    <3> HIDE DEF y
    <3>2. OneEach(y \o given) /\ ToSet(y \o given) = ToSet(y) \cup ToSet(given)
      BY <2>1, <3>1, ConcatFact
    <3> QED BY <2>1, <3>1, <3>2 DEF Entries
  <2>6. \A d \in Visible : Command(d).cmd = d
    BY DEF Command
  <2>7. /\ Visible \subseteq InQueue' /\ InQueue \subseteq InQueue'
        /\ InQueue' \subseteq InQueue \cup Visible \cup {x.cmd}
        /\ x.cmd \in Cmd => x.cmd \in InQueue'
    BY <1>5, <2>5, <2>6, InFact
  <2> QED BY <1>5, <2>5, <2>7
<1> QED BY <1>6, <1>7
LEMMA KeptUser ==
  ASSUME KInv, UserStep \/ Joins
  PROVE  KeptOK'
<1> USE DEF KInv, KeptOK
<1>1. followUps \in Seq(Cmd) /\ Visible \subseteq Cmd /\ InQueue \subseteq Cmd
  BY InFact DEF TInv, TypeOK, Visible, ToSet
<1>2. ASSUME NEW c \in Cmd, NEW b \in Behaviors, TurnCalled(c, b) PROVE KeptOK'
  <2>1. /\ c \notin InQueue /\ c \notin Visible /\ c \notin inPi /\ reads[c] = 0
    BY <1>2 DEF TurnCalled, QueuedOK
  <2>2. /\ InQueue' = InQueue /\ Visible' = Visible
        /\ UNCHANGED <<inputs, reads, inPi, followUps, pc>>
    BY <1>2 DEF TurnCalled, turnVars, InQueue, InInputs, Visible
  <2>3. /\ \A d \in Cmd : cmd'[d] = IF d = c THEN "calling" ELSE cmd[d]
        /\ \A d \in Cmd : d # c => behavior'[d] = behavior[d]
    BY <1>2 DEF TurnCalled, TInv, TypeOK
  <2>4. FollowUpsOK' /\ OneEach(inputs)'
    BY <1>1, <2>1, <2>2, <2>3 DEF FollowUpsOK, OneEach
  <2>5. QueuedOK' /\ Restorable'
    BY <1>1, <2>1, <2>2, <2>3 DEF QueuedOK, Restorable
  <2> QED BY <2>4, <2>5
<1>3. ASSUME NEW c \in Cmd, TurnStarts(c) PROVE KeptOK'
  <2>1. c \notin InQueue \cup Visible /\ c \notin inPi /\ reads[c] = 0
    BY <1>3 DEF TurnStarts, QueuedOK
  <2>2. BeginTurn(Command(c)) /\ UNCHANGED <<followUps, behavior, reads, inPi>>
        /\ pc = "idle" /\ pc' = "select"
    BY <1>3 DEF TurnStarts, BeginTurn
  <2>3. /\ OneEach(inputs') /\ FollowUpsOK'
        /\ Visible' = Visible /\ Visible \subseteq InQueue'
        /\ InQueue \subseteq InQueue' /\ InQueue' \subseteq InQueue \cup Visible \cup {c}
        /\ c \in InQueue'
    BY <2>1, <2>2, CommandFact, KeptBegin
  <2>4. \A d \in Cmd : cmd'[d] = IF d = c THEN "queued" ELSE cmd[d]
    BY <1>3 DEF TurnStarts, TInv, TypeOK
  <2>5. QueuedOK' /\ Restorable'
    BY <1>1, <2>1, <2>2, <2>3, <2>4 DEF QueuedOK, Restorable
  <2> QED BY <2>3, <2>5 DEF OneEach
<1>4. CASE WakeStarts
  <2> DEFINE w == Input("wake")
  <2>1. w \in InputRecords /\ Fits(w) /\ w.cmd = None
    BY InputFact DEF InputTypes
  <2>2. w.cmd \notin InQueue \cup Visible
    BY <1>1, <2>1, TurnLoopAssumption
  <2>3. BeginTurn(w) /\ UNCHANGED <<cmd, followUps, behavior, reads, inPi>>
        /\ pc = "idle" /\ pc' = "select"
    BY <1>4 DEF WakeStarts, BeginTurn
  <2> HIDE DEF w
  <2>4. /\ OneEach(inputs') /\ FollowUpsOK'
        /\ Visible' = Visible /\ Visible \subseteq InQueue'
        /\ InQueue \subseteq InQueue' /\ InQueue' \subseteq InQueue \cup Visible \cup {None}
    BY <2>1, <2>2, <2>3, KeptBegin
  <2>5. InQueue' \subseteq InQueue \cup Visible
    BY <2>4, InFact, TurnLoopAssumption
  <2>6. QueuedOK' /\ Restorable'
    BY <1>1, <2>3, <2>4, <2>5 DEF QueuedOK, Restorable
  <2> QED BY <2>4, <2>6 DEF OneEach
<1>5. ASSUME NEW c \in Cmd, TurnJoins(c) PROVE KeptOK'
  <2>1. c \notin InQueue /\ c \notin Visible /\ c \notin inPi /\ reads[c] = 0
    BY <1>5 DEF TurnJoins, QueuedOK
  <2>2. /\ inputs' = Append(inputs, Command(c)) /\ UNCHANGED <<reads, behavior, pc>>
        /\ pc # "idle" /\ inPi' \subseteq inPi \cup {c}
        /\ followUps' = IF behavior[c] = "follow_up" THEN Append(followUps, c) ELSE followUps
    BY <1>5 DEF TurnJoins, KeepCommand
  <2>3. Entries' = Entries \cup {Command(c)} /\ OneEach(inputs')
    <3>1. \A e \in Entries : e.cmd # c
      BY <2>1, InFact
    <3>2. inputs \in Seq(InputRecords) /\ Command(c) \in InputRecords /\ Command(c).cmd = c
      BY SubFact, CommandFact
    <3> DEFINE x == Command(c)
    <3> HIDE DEF x
    <3>3. /\ ToSet(Append(inputs, x)) = ToSet(inputs) \cup {x}
          /\ OneEach(inputs) /\ (x.cmd = None \/ \A e \in ToSet(inputs) : e.cmd # x.cmd)
              => OneEach(Append(inputs, x))
      BY <3>2, AppendFact DEF x
    <3> QED BY <2>2, <3>1, <3>2, <3>3 DEF Entries, x
  <2>4. InQueue' = InQueue \cup {c}
    BY <2>3, InFact, CommandFact
  <2>5. /\ Visible' \subseteq Visible \cup {c} /\ Visible \subseteq Visible'
        /\ (c \in Visible' => behavior[c] = "follow_up") /\ IsInjective(followUps')
    <3>1. /\ ToSet(Append(followUps, c)) = Visible \cup {c}
          /\ IsInjective(followUps) /\ c \notin ToSet(followUps) => IsInjective(Append(followUps, c))
      BY <1>1, AppendFact DEF Visible
    <3> QED BY <2>1, <2>2, <3>1 DEF Visible, FollowUpsOK
  <2>6. \A d \in Cmd : cmd'[d] = IF d = c THEN "queued" ELSE cmd[d]
    BY <1>5 DEF TurnJoins, TInv, TypeOK
  <2>7. QueuedOK'
    BY <1>1, <2>1, <2>2, <2>4, <2>5, <2>6 DEF QueuedOK
  <2>8. Visible \subseteq InQueue
    BY <1>1, <2>2 DEF QueuedOK
  <2>9. Restorable'
    BY <2>4, <2>5, <2>8 DEF Restorable
  <2>10. FollowUpsOK' /\ OneEach(inputs)'
    BY <2>2, <2>3, <2>5 DEF FollowUpsOK, IsInjective, OneEach
  <2> QED BY <2>7, <2>9, <2>10
<1>6. ASSUME NEW c \in Cmd, EditFollowUps(c) PROVE KeptOK'
  <2>1. /\ c \in Visible /\ pc' = pc /\ UNCHANGED <<reads, behavior>>
        /\ inPi' \subseteq {d \in inPi : behavior[d] = "steer"} \cup Visible'
        /\ inputs' = NoFollowUps(inputs) \o IF pc = "idle" THEN <<>> ELSE Commands(followUps')
        /\ followUps' = Without(followUps, c)
    BY <1>6 DEF EditFollowUps, Visible
  <2>2. Visible' = Visible \ {c} /\ IsInjective(followUps') /\ followUps' \in Seq(Cmd)
    BY <1>1, <2>1, VisibleFact DEF Visible, FollowUpsOK
  <2>3. Entries' = {e \in Entries : ~IsFollowUp(e)} \cup
                     IF pc = "idle" THEN {} ELSE {Command(d) : d \in Visible'}
    BY <1>6, EditFact DEF Entries, Visible
  <2>4. InQueue' = {d \in InQueue : behavior[d] = "steer"} \cup
                     IF pc = "idle" THEN {} ELSE Visible'
    <3>1. \A e \in Entries : e.cmd \in Cmd => (IsFollowUp(e) <=> behavior[e.cmd] = "follow_up")
      BY SubFact, TurnLoopAssumption DEF IsFollowUp, Fits
    <3>2. \A d \in Cmd : behavior[d] # "follow_up" <=> behavior[d] = "steer"
      BY DEF TInv, TypeOK, Behaviors
    <3>3. \A d : Command(d).cmd = d
      BY DEF Command
    <3>4. ASSUME NEW d \in Cmd
          PROVE  d \in InQueue' <=> \/ d \in InQueue /\ behavior[d] = "steer"
                                    \/ pc # "idle" /\ d \in Visible'
      BY <2>3, <3>1, <3>2, <3>3, InFact
    <3> QED BY <1>1, <2>2, <3>4, InFact
  <2>5. OneEach(inputs')
    <3> DEFINE given == IF pc = "idle" THEN <<>> ELSE Commands(followUps')
               kept == NoFollowUps(inputs)
    <3>1. given \in Seq(InputRecords) /\ OneEach(given)
          /\ \A e \in ToSet(given) : \E d \in Visible' : e = Command(d)
      <4>1. <<>> \in Seq(InputRecords) /\ ToSet(<<>>) = {} /\ OneEach(<<>>)
        BY DEF ToSet, OneEach
      <4>2. /\ Commands(followUps') \in Seq(InputRecords) /\ OneEach(Commands(followUps'))
            /\ ToSet(Commands(followUps')) = {Command(d) : d \in Visible'}
        BY <2>2, CommandsFact DEF Visible
      <4> QED BY <4>1, <4>2
    <3>2. kept \in Seq(InputRecords) /\ OneEach(kept)
          /\ ToSet(kept) = {e \in Entries : ~IsFollowUp(e)}
      BY SubFact, OneFact DEF TInv
    <3>3. inputs' = kept \o given
      BY <2>1
    <3> HIDE DEF given, kept
    <3>4. ASSUME NEW e \in ToSet(kept), NEW f \in ToSet(given), e.cmd = f.cmd PROVE e.cmd = None
      <4>1. PICK d \in Visible' : f = Command(d)
        BY <3>1
      <4>2. e.cmd = d /\ d \in Cmd /\ behavior[d] = "follow_up"
        BY <1>1, <2>2, <3>4, <4>1 DEF Command, FollowUpsOK
      <4>3. e \in Entries /\ ~IsFollowUp(e)
        BY <3>2
      <4> QED BY <4>2, <4>3, SubFact, TurnLoopAssumption DEF IsFollowUp, Fits
    <3> QED BY <3>1, <3>2, <3>3, <3>4, ConcatFact
  <2>6. \A d \in Cmd : cmd'[d] =
          IF d = c \/ (d \in InQueue /\ behavior[d] = "follow_up" /\ d \notin Visible')
          THEN "dropped" ELSE cmd[d]
    BY <1>6 DEF EditFollowUps, InQueue, Visible
  <2>7. behavior[c] = "follow_up" /\ \A d \in Visible : behavior[d] = "follow_up"
    BY <2>1 DEF FollowUpsOK
  <2>8. \A d \in Cmd : behavior[d] \in {"steer", "follow_up"}
    BY DEF TInv, TypeOK, Behaviors
  <2>9. QueuedOK'
    <3>1. \A d \in Cmd : d \in InQueue' \/ d \in inPi' \/ d \in Visible' =>
            d # c /\ (behavior[d] = "steer" \/ d \in Visible')
            /\ (d \in InQueue \/ d \in inPi \/ d \in Visible)
      BY <2>1, <2>2, <2>4, <2>7
    <3>2. \A d \in Cmd : d \in InQueue' \/ d \in inPi' \/ d \in Visible' => cmd'[d] = "queued"
      BY <2>6, <3>1 DEF QueuedOK
    <3>3. \A d \in Cmd : cmd'[d] = "queued" => d \in InQueue' \/ (pc' = "idle" /\ d \in Visible')
      BY <2>1, <2>2, <2>4, <2>6, <2>8 DEF QueuedOK
    <3>4. \A d \in Cmd : reads'[d] = IF cmd'[d] = "read" THEN 1 ELSE 0
      BY <2>1, <2>6 DEF QueuedOK
    <3> QED BY <3>2, <3>3, <3>4 DEF QueuedOK
  <2>10. Restorable'
    BY <2>1, <2>4 DEF Restorable
  <2>11. FollowUpsOK' /\ OneEach(inputs)'
    BY <2>1, <2>2, <2>5, <2>7 DEF FollowUpsOK, IsInjective, OneEach
  <2> QED BY <2>9, <2>10, <2>11
<1>7. CASE Interrupt
  <2>1. inputs' = <<>> /\ followUps' = <<>> /\ inPi' = {} /\ reads' = reads
    BY <1>7 DEF Interrupt, ClearedFollowUps
  <2>2. Entries' = {} /\ Visible' = {} /\ OneEach(inputs)' /\ IsInjective(followUps)'
    BY <2>1 DEF Entries, Visible, ToSet, OneEach, IsInjective
  <2>3. InQueue' = {}
    BY <2>2, InFact
  <2>4. \A d \in Cmd : cmd'[d] = IF d \in InQueue \cup Visible THEN "dropped" ELSE cmd[d]
    BY <1>7 DEF Interrupt, InQueue, Visible
  <2>5. QueuedOK'
    BY <2>1, <2>2, <2>3, <2>4 DEF QueuedOK
  <2> QED BY <2>2, <2>3, <2>5 DEF Restorable, FollowUpsOK
<1> QED BY <1>2, <1>3, <1>4, <1>5, <1>6, <1>7 DEF UserStep, Joins
(* A step that only adds inputs of the loop itself.                        *)
LEMMA KeptAdds ==
  ASSUME KInv, UNCHANGED <<cmd, reads, behavior, followUps>>, inPi' \subseteq inPi,
         pc = "idle" => pc' = "idle",
         NEW q \in Seq(InputRecords), \A e \in ToSet(q) : Fits(e) /\ (e \in Entries \/ e.cmd = None),
         \A e \in Entries : e \in ToSet(q) \/ e.cmd = None,
         OneEach(inputs) => OneEach(q),
         \/ inputs' = q
         \/ \E ty \in InputTypes \ {"user_command"} :
              inputs' = Append(q, Input(ty)) \/ inputs' = <<Input(ty)>> \o q
  PROVE  KeptOK'
<1>1. \A ty \in InputTypes \ {"user_command"} : Input(ty).cmd = None
  BY InputFact
<1>2. CASE inputs' = q
  BY <1>2, KeptFrame DEF Entries
<1>3. ASSUME NEW ty \in InputTypes \ {"user_command"},
             inputs' = Append(q, Input(ty)) \/ inputs' = <<Input(ty)>> \o q
      PROVE  KeptOK'
  <2>1. /\ ToSet(q) \subseteq Entries' /\ Entries' \subseteq ToSet(q) \cup {Input(ty)}
        /\ OneEach(q) => OneEach(inputs')
    BY <1>3, AddsFact DEF Entries
  <2> QED BY <1>1, <2>1, KeptFrame
<1> QED BY <1>2, <1>3

LEMMA KeptPass ==
  ASSUME KInv, PassStep
  PROVE  KeptOK'
<1> USE DEF KInv
<1>1. pc # "idle"
  BY DEF PassStep, PassInterrupted, PassAsks, PassEnds, CleanupPassThrows, EnforceAgain, PauseRelay,
         PassSelects, EndPass, TInv, PassOK
<1>2. inputs \in Seq(InputRecords) /\ \A e \in ToSet(inputs) : Fits(e) /\ e \in Entries
  BY SubFact DEF Entries
<1>3. UNCHANGED <<cmd, reads, behavior, followUps>> /\ inPi' = {}
  BY DEF PassStep, PassInterrupted, PassAsks, PassEnds, CleanupPassThrows, EnforceAgain, PauseRelay,
         PassSelects, EndPass, passFrame
<1>4. inputs' = inputs \/ inputs' = Append(inputs, Input("terminal_acknowledgment"))
  BY DEF PassStep, PassInterrupted, PassAsks, PassEnds, CleanupPassThrows, EnforceAgain, PauseRelay,
         PassSelects, ResultInterrupted, ResultAsk, ResultNone, ResultTerminal
<1> QED BY <1>1, <1>2, <1>3, <1>4, KeptAdds DEF Entries, InputTypes

LEMMA KeptWork ==
  ASSUME KInv, \/ PromptStarts \/ ModelStep \/ IdleInterruptReports \/ \E t \in Task : Settle(t)
  PROVE  KeptOK'
<1> USE DEF KInv
<1>1. ASSUME UNCHANGED <<cmdVars, pc>> PROVE KeptOK'
  BY <1>1, KeptFrame DEF cmdVars, Entries
<1>2. ASSUME NEW c \in Cmd, PiReads(c) PROVE KeptOK'
  <2>1. /\ pc = "pass" /\ c \in inPi /\ inPi' = inPi \ {c} /\ inputs' = DropCmd(inputs, c)
        /\ cmd' = [cmd EXCEPT ![c] = "read"] /\ reads' = [reads EXCEPT ![c] = @ + 1]
        /\ followUps' = Without(followUps, c) /\ behavior' = behavior
    BY <1>2 DEF PiReads, Prompting, Removed, TInv, PassOK
  <2>2. c \in InQueue
    BY <2>1 DEF KeptOK, QueuedOK
  <2>3. Entries' = {e \in Entries : e.cmd # c} /\ OneEach(inputs')
    BY <2>1, SubFact, OneFact DEF Entries, KeptOK, TInv
  <2>4. InQueue' = InQueue \ {c}
    BY <2>3, InFact
  <2> QED BY <2>1, <2>2, <2>3, <2>4, KeptRead
<1>3. CASE PromptStarts \/ IdleInterruptReports
  BY <1>1, <1>3 DEF PromptStarts, IdleInterruptReports, turnVars
<1>4. CASE \E t \in Task : Settle(t)
  BY <1>1, <1>4 DEF Settle
<1>5. CASE ModelStep
  BY <1>1, <1>2, <1>5 DEF ModelStep, PassStartsTask, PassStopsTask, ControlTool, turnVars
<1> QED BY <1>3, <1>4, <1>5

LEMMA KeptTake ==
  ASSUME KInv, \/ TakeCommand \/ TakeTaskSettlements \/ TakeStateSettlement \/ TakeWake
               \/ \E type \in Continuations : TakeContinuation(type)
  PROVE  KeptOK'
<1> USE DEF KInv
<1>1. Runnable(Flushed) # {} /\ pc = "select"
  BY DEF TakeCommand, TakeTaskSettlements, TakeStateSettlement, TakeWake, TakeContinuation, Taken,
         Looping
<1>2. /\ Rest \in Seq(InputRecords) /\ \A e \in ToSet(Rest) : Fits(e) /\ e \in Entries
      /\ Fits(TakenInput) /\ TakenInput \in InputRecords
      /\ \A e \in Entries : e \in ToSet(Rest) \/ e = TakenInput
      /\ OneEach(inputs) => OneEach(Rest)
      /\ OneEach(inputs) /\ TakenInput.cmd # None => \A e \in ToSet(Rest) : e.cmd # TakenInput.cmd
      /\ TakenInput.type # "task_settlements" => TakenInput \in Entries
  BY <1>1, RestFact, TakenFact, TakenKind DEF TInv
<1>3. ASSUME TakenInput.type # "user_command", UNCHANGED <<cmd, reads, behavior, followUps, inPi>>,
             \/ inputs' = Rest
             \/ \E ty \in InputTypes \ {"user_command"} : inputs' = Append(Rest, Input(ty))
      PROVE  KeptOK'
  <2>1. TakenInput.cmd = None
    BY <1>2, <1>3 DEF Fits
  <2> QED BY <1>1, <1>2, <1>3, <2>1, KeptAdds
<1>4. CASE TakeCommand
  <2> DEFINE c == TakenInput.cmd
  <2>1. TakenInput.type = "user_command" /\ inputs' = Rest
        /\ cmd' = [cmd EXCEPT ![c] = "read"] /\ reads' = [reads EXCEPT ![c] = @ + 1]
        /\ followUps' = Without(followUps, c) /\ UNCHANGED <<behavior, inPi>>
    BY <1>4 DEF TakeCommand, Taken, TakenInput, takeFrame
  <2>2. c \in Cmd /\ TakenInput \in Entries /\ c # None
    BY <1>2, <2>1 DEF Fits, InputRecords
  <2> HIDE DEF c
  <2>3. c \in InQueue
    BY <2>2, InFact DEF c
  <2>4. inPi = {} /\ OneEach(inputs)
    BY <1>1 DEF TInv, PassOK, TypeOK, KeptOK
  <2>5. Entries' = ToSet(Rest) /\ OneEach(inputs')
    BY <1>2, <2>1, <2>4 DEF Entries
  <2>6. (\A e \in ToSet(Rest) : e.cmd # c) /\ (\A e \in Entries : e \in ToSet(Rest) \/ e.cmd = c)
    BY <1>2, <2>2, <2>4 DEF c
  <2>7. InQueue' = InQueue \ {c}
    BY <1>2, <2>5, <2>6, InFact
  <2> QED BY <1>1, <2>1, <2>2, <2>3, <2>4, <2>5, <2>7, KeptRead
<1>5. CASE \E type \in Continuations : TakeContinuation(type)
  BY <1>3, <1>5 DEF TakeContinuation, Taken, TakenInput, Continuations, takeFrame
<1>6. CASE TakeTaskSettlements
  BY <1>3, <1>6 DEF TakeTaskSettlements, Taken, TakenInput, takeFrame
<1>7. CASE TakeWake
  <2>1. TakenInput.type = "wake" /\ UNCHANGED <<cmd, reads, behavior, followUps, inPi>>
    BY <1>7 DEF TakeWake, takeFrame
  <2>2. \/ inputs' = Rest
        \/ \E ty \in InputTypes \ {"user_command"} : inputs' = Append(Rest, Input(ty))
    BY <1>7 DEF TakeWake, ResultStateCompleted, ResultTerminal, InputTypes
  <2> QED BY <1>3, <2>1, <2>2
<1>8. CASE TakeStateSettlement
  <2> DEFINE S == TakenInput.tasks
             others == S \ (stateTasks \cup ignored)
             s == Settlements(others)
             rest == IF others = {} THEN Rest ELSE <<s>> \o Rest
  <2>1. TakenInput.type = "task_settlements" /\ UNCHANGED <<cmd, reads, behavior, followUps, inPi>>
    BY <1>8 DEF TakeStateSettlement, Taken, TakenInput, takeFrame
  <2>2. \/ inputs' = rest
        \/ \E ty \in InputTypes \ {"user_command"} : inputs' = Append(rest, Input(ty))
    BY <1>8 DEF TakeStateSettlement, ResultStateCompleted, ResultTerminal, InputTypes
  <2>3. s \in InputRecords /\ s.cmd = None /\ Fits(s)
    <3>1. others \subseteq Task /\ others \cap Unused = {}
      BY <1>2 DEF Fits, InputRecords
    <3> QED BY <3>1, SettlementsFact
  <2> HIDE DEF s
  <2>4. /\ <<s>> \o Rest \in Seq(InputRecords) /\ ToSet(<<s>> \o Rest) = ToSet(Rest) \cup {s}
        /\ OneEach(Rest) => OneEach(<<s>> \o Rest)
    BY <1>2, <2>3, PushFact
  <2>5. rest = Rest \/ rest = <<s>> \o Rest
    OBVIOUS
  <2> HIDE DEF rest
  <2>6. /\ rest \in Seq(InputRecords) /\ \A e \in ToSet(rest) : Fits(e) /\ (e \in Entries \/ e.cmd = None)
        /\ ToSet(Rest) \subseteq ToSet(rest) /\ (OneEach(inputs) => OneEach(rest))
    BY <1>2, <2>3, <2>4, <2>5
  <2>7. TakenInput.cmd = None
    BY <1>2, <2>1 DEF Fits
  <2> QED BY <1>1, <1>2, <2>1, <2>2, <2>6, <2>7, KeptAdds
<1> QED BY <1>4, <1>5, <1>6, <1>7, <1>8

LEMMA KeptLoop ==
  ASSUME KInv, \/ QueueCleanup \/ LoopWaits \/ LoopWakes \/ QueueEnforcement \/ QueueNudge
               \/ LoopExits \/ LoopCleansUp \/ MemoryUpdated \/ TurnEnds \/ TurnReturns
  PROVE  KeptOK'
<1> USE DEF KInv
<1>1. inputs \in Seq(InputRecords) /\ \A e \in ToSet(inputs) : Fits(e) /\ e \in Entries
  BY SubFact DEF Entries
<1>2. NoInput => Flushed = inputs /\ pc = "select"
  BY NoInputFact DEF TInv, NoInput, Looping
<1>3. ASSUME pc # "idle", UNCHANGED <<cmd, reads, behavior, inPi, followUps>>,
             \/ inputs' = inputs
             \/ \E ty \in InputTypes \ {"user_command"} :
                  inputs' = Append(inputs, Input(ty)) \/ inputs' = <<Input(ty)>> \o inputs
      PROVE  KeptOK'
  BY <1>1, <1>3, KeptAdds DEF Entries
<1>4. CASE QueueCleanup \/ QueueEnforcement \/ QueueNudge
  <2>1. pc = "select" /\ UNCHANGED <<cmd, reads, behavior, inPi, followUps>>
    BY <1>2, <1>4 DEF QueueCleanup, QueueEnforcement, QueueNudge, idleFrame
  <2>2. \E ty \in InputTypes \ {"user_command"} :
           inputs' = Append(inputs, Input(ty)) \/ inputs' = <<Input(ty)>> \o inputs
    BY <1>2, <1>4 DEF QueueCleanup, QueueEnforcement, QueueNudge, InputTypes
  <2> QED BY <1>3, <2>1, <2>2
<1>5. CASE LoopWaits \/ LoopWakes \/ LoopExits \/ MemoryUpdated \/ TurnReturns
  BY <1>2, <1>3, <1>5 DEF LoopWaits, LoopWakes, LoopExits, MemoryUpdated, TurnReturns, idleFrame
<1>6. CASE TurnEnds
  BY <1>3, <1>6 DEF TurnEnds, cmdVars
<1>7. CASE LoopCleansUp
  <2>1. pc # "idle" /\ UNCHANGED <<cmd, reads, behavior, inPi, followUps>>
        /\ inputs' = DropType(inputs, "task_settlements")
    BY <1>7 DEF LoopCleansUp
  <2>2. Entries' = {e \in Entries : e.type # "task_settlements"} /\ OneEach(inputs')
    BY <2>1, SubFact, OneFact DEF Entries, InputTypes, TInv, KeptOK
  <2>3. \A e \in Entries : e.type = "task_settlements" => e.cmd = None
    BY SubFact DEF Fits
  <2> QED BY <2>1, <2>2, <2>3, KeptFrame
<1> QED BY <1>4, <1>5, <1>6, <1>7

LEMMA KeptSelect ==
  ASSUME KInv, Select
  PROVE  KeptOK'
<1> USE DEF KInv
<1>1. PICK k \in StateKinds : StateSelected(k)
  BY DEF Select
<1>2. pc = "deciding" /\ UNCHANGED <<cmd, reads, behavior, inPi, followUps>>
  BY <1>1 DEF StateSelected
<1>3. /\ PaidInputs \in Seq(InputRecords)
      /\ ToSet(PaidInputs) = {e \in Entries : e.type # "transition_enforcement"}
      /\ OneEach(PaidInputs)
  BY SubFact, OneFact DEF PaidInputs, InputTypes, TInv, KeptOK
<1>4. \A e \in Entries : Fits(e) /\ (e.type = "transition_enforcement" => e.cmd = None)
  BY SubFact DEF Fits
<1>5. \/ inputs' = PaidInputs
      \/ \E ty \in InputTypes \ {"user_command"} : inputs' = Append(PaidInputs, Input(ty))
  BY <1>1 DEF StateSelected, Execute, ResultStateCompleted, ResultTerminal, InputTypes
<1> QED BY <1>2, <1>3, <1>4, <1>5, KeptAdds

LEMMA NextKInv ==
  ASSUME KInv, [Next]_vars
  PROVE  KInv'
<1>1. ASSUME UNCHANGED vars PROVE KeptOK'
  BY <1>1, KeptFrame DEF vars, cmdVars, turnVars, Entries
<1>2. ASSUME Next PROVE KeptOK'
  BY <1>2, KeptPass, KeptWork, KeptUser, KeptTake, KeptLoop, KeptSelect DEF Next, LoopStep
<1> QED BY <1>1, <1>2, NextTInv, StutterTInv DEF KInv

(* No command the session accepted is lost between parentInputs, pi's      *)
(* queue and the durable follow-up queue, none is read twice, and the      *)
(* queue on the screen is what will be delivered: for any number of        *)
(* commands, with edits, interrupts and wakes at any await of the turn.    *)
THEOREM Commanded == Spec => []CommandsAreKept
<1>1. Init => KInv
  <2>1. Init => KeptOK
    BY DEF Init, KeptOK, QueuedOK, Restorable, FollowUpsOK, OneEach, IsInjective, InQueue, InInputs,
           Visible, ToSet
  <2> QED BY <2>1, InitTInv DEF KInv
<1>2. KInv /\ [Next]_vars => KInv'
  BY NextKInv
<1>3. KInv => CommandsAreKept
  <2>1. SUFFICES ASSUME KInv PROVE CommandsAreKept
    OBVIOUS
  <2>2. Visible \subseteq Cmd /\ \A i \in DOMAIN followUps : followUps[i] \in Visible
    BY <2>1 DEF KInv, TInv, TypeOK, Visible, ToSet
  <2>3. AcceptedIsKept
    BY <2>1 DEF KInv, KeptOK, QueuedOK, AcceptedIsKept, InQueue, Visible
  <2>4. ReadOnce
    BY <2>1 DEF KInv, KeptOK, QueuedOK, ReadOnce
  <2>5. FollowUpsAgree
    BY <2>1, <2>2 DEF KInv, KeptOK, QueuedOK, FollowUpsOK, FollowUpsAgree
  <2> QED BY <2>3, <2>4, <2>5 DEF CommandsAreKept
<1> QED BY <1>1, <1>2, <1>3, PTL DEF Spec
==============================================================================
