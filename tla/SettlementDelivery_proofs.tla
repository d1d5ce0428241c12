--------------------- MODULE SettlementDelivery_proofs ---------------------
(***************************************************************************)
(* Every end is told once and to whom it is for, and the loop never waits  *)
(* for what has already happened, for any number of tasks, steers and      *)
(* state selections.                                                       *)
(***************************************************************************)
EXTENDS SettlementDelivery, FiniteSetTheorems, SequenceTheorems, TLAPS

-----------------------------------------------------------------------------
Inputs == [type : InputTypes, tasks : SUBSET Task]

(* The settlements the kernel or the buffer has, and those an input of the *)
(* loop carries.                                                           *)
Buffered   == kernel \cup held
Carried(q) == UNION {e.tasks : e \in ToSet(q)}

(* Only batches of settlements carry tasks, and no two carry the same.     *)
OneEach(q)   == \A i, j \in DOMAIN q : q[i].tasks \cap q[j].tasks # {} => i = j
PlainOK(q)   == \A e \in ToSet(q) : e.type = "task_settlements" \/ e.tasks = {}
BatchesOK(q) == OneEach(q) /\ PlainOK(q)

(* Where the settlements are, with the tasks b buffered, c carried and s   *)
(* steered, and the postures p.  Each is in one place; one that was told   *)
(* is in none, unless it waits in the buffer to be dropped.  A posture is  *)
(* pending exactly while a call is undecided, which holds the end back.    *)
ApartOK(b, c, s) == b \cap c = {} /\ b \cap s = {} /\ c \cap s = {}

PlacesOK(b, c, s, p) ==
  \A t \in Task :
    /\ t \in b \cup c \cup s => work[t] = "settled"
    /\ told[t] # {} => t \notin c \cup s
    /\ told[t] # {} /\ t \in b => p[t] = "suppress"
    /\ p[t] = "suppress" => told[t] # {}
    /\ lane[t] = "state" => p[t] = "none" /\ t \notin s
    /\ call[t] \in Undecided <=> p[t] = "foreground_pending"
    /\ call[t] \in Undecided /\ work[t] = "settled" => t \in b
    /\ work[t] = "new" => p[t] = "none"
    /\ work[t] = "settled" =>
         told[t] # {} \/ t \in b \cup c \cup s \cup cleared \/ call[t] \in Undecided

QueuesOK(b, c, s, p) == ApartOK(b, c, s) /\ PlacesOK(b, c, s, p)

(* What a task's call and the histories say of it.  The agent that made an *)
(* undecided call waits for it.                                            *)
TasksOK ==
  \A t \in Task :
    /\ work[t] = "new" => call[t] = "none" /\ lane[t] = "none"
    /\ call[t] = "settled" => work[t] = "settled"
    /\ call[t] \in Undecided => IF caller[t] = Root THEN pass = "tools"
                                ELSE work[caller[t]] = "running"
    /\ told[t] # {} \/ t \in cleared => work[t] = "settled"
    /\ \A v, w \in told[t] : v = w

(* A state's task is in the runner's table until its end is recorded, and  *)
(* no tool call waits for it.                                              *)
StatesOK ==
  /\ ignored \subseteq stateTasks
  /\ \A t \in Task : lane[t] = "state" =>
       /\ call[t] = "none"
       /\ told[t] = {} => t \in stateTasks
       /\ told[t] \subseteq {"state", "ignored"}
       /\ t \notin cleared

(* Where the loop stands, and what its end implies.                        *)
LoopOK ==
  /\ control => pass # "none"
  /\ control \/ loop = "replacing" => selects < MaxSelects
  /\ pass # "none" <=> loop = "pass"
  /\ loop = "ended" => Running = {}
  /\ loop = "ended" => \A t \in Task : lane[t] = "state" /\ work[t] = "settled" => told[t] # {}

DInv ==
  /\ TypeOK /\ BatchesOK(inputs)
  /\ QueuesOK(Buffered, Carried(inputs), steered, posture)
  /\ TasksOK /\ StatesOK /\ LoopOK

-----------------------------------------------------------------------------
(* Queues.                                                                 *)

LEMMA CarriedFact ==
  ASSUME NEW q \in Seq(Inputs)
  PROVE  /\ Carried(q) \subseteq Task
         /\ \A t : t \in Carried(q) <=> \E i \in DOMAIN q : t \in q[i].tasks
         /\ PlainOK(q) <=> \A i \in DOMAIN q : q[i].type = "task_settlements" \/ q[i].tasks = {}
         /\ \A i \in DOMAIN q : q[i] \in Inputs /\ q[i].tasks \subseteq Carried(q)
<1>1. \A i \in DOMAIN q : q[i] \in Inputs
  OBVIOUS
<1>2. \A i \in DOMAIN q : q[i].tasks \subseteq Task
  BY <1>1 DEF Inputs
<1>3. \A t : t \in Carried(q) <=> \E i \in DOMAIN q : t \in q[i].tasks
  BY DEF Carried, ToSet
<1>4. PlainOK(q) <=> \A i \in DOMAIN q : q[i].type = "task_settlements" \/ q[i].tasks = {}
  BY DEF PlainOK, ToSet
<1> QED BY <1>1, <1>2, <1>3, <1>4

(* A batch of its own in front of the others.                              *)
LEMMA PushFact ==
  ASSUME NEW q \in Seq(Inputs), BatchesOK(q),
         NEW x \in Inputs, x.type = "task_settlements", x.tasks \cap Carried(q) = {}
  PROVE  /\ <<x>> \o q \in Seq(Inputs) /\ BatchesOK(<<x>> \o q)
         /\ Carried(<<x>> \o q) = Carried(q) \cup x.tasks
<1> DEFINE r == <<x>> \o q
<1>1. /\ <<x>> \in Seq(Inputs) /\ Len(<<x>>) = 1 /\ <<x>>[1] = x
      /\ Len(q) \in Nat /\ DOMAIN q = 1..Len(q)
  OBVIOUS
<1>2. /\ r \in Seq(Inputs) /\ Len(r) = Len(q) + 1
      /\ \A i \in 1..Len(q) + 1 : r[i] = IF i <= 1 THEN <<x>>[i] ELSE q[i - 1]
  BY <1>1, ConcatProperties
<1>3. DOMAIN r = 1..Len(q) + 1
  BY <1>2
<1> HIDE DEF r
<1>4. 1 \in DOMAIN r /\ r[1] = x
  BY <1>1, <1>2, <1>3
<1>5. \A i \in DOMAIN r : i = 1 \/ (i - 1 \in DOMAIN q /\ r[i] = q[i - 1])
  BY <1>1, <1>2, <1>3
<1>6. \A i \in DOMAIN q : i + 1 \in DOMAIN r /\ r[i + 1] = q[i]
  BY <1>1, <1>2, <1>3
<1>7. \A t : t \in Carried(r) <=> t \in Carried(q) \cup x.tasks
  <2>1. TAKE t
  <2>2. t \in Carried(r) <=> \E i \in DOMAIN r : t \in r[i].tasks
    BY <1>2, CarriedFact
  <2>3. t \in Carried(q) <=> \E i \in DOMAIN q : t \in q[i].tasks
    BY CarriedFact
  <2> QED BY <1>4, <1>5, <1>6, <2>2, <2>3
<1>8. OneEach(r)
  <2>1. SUFFICES ASSUME NEW i \in DOMAIN r, NEW j \in DOMAIN r, r[i].tasks \cap r[j].tasks # {}
                 PROVE  i = j
    BY DEF OneEach
  <2>2. \A k \in DOMAIN q : q[k].tasks \cap x.tasks = {}
    BY CarriedFact
  <2>3. CASE i = 1
    BY <1>4, <1>5, <2>1, <2>2, <2>3
  <2>4. CASE i # 1
    <3>1. i - 1 \in DOMAIN q /\ r[i] = q[i - 1]
      BY <1>5, <2>4
    <3>2. j # 1
      BY <1>4, <2>1, <2>2, <3>1
    <3>3. j - 1 \in DOMAIN q /\ r[j] = q[j - 1]
      BY <1>5, <3>2
    <3>4. i - 1 = j - 1
      BY <2>1, <3>1, <3>3 DEF BatchesOK, OneEach
    <3> QED BY <1>3, <3>4
  <2> QED BY <2>3, <2>4
<1>9. PlainOK(r)
  <2>1. \A i \in DOMAIN q : q[i].type = "task_settlements" \/ q[i].tasks = {}
    BY CarriedFact DEF BatchesOK
  <2>2. \A i \in DOMAIN r : r[i].type = "task_settlements" \/ r[i].tasks = {}
    BY <1>4, <1>5, <2>1
  <2> QED BY <1>2, <2>2, CarriedFact
<1> QED BY <1>2, <1>7, <1>8, <1>9 DEF r, BatchesOK

(* An input that carries nothing behind the others.                        *)
LEMMA AppendFact ==
  ASSUME NEW q \in Seq(Inputs), BatchesOK(q), NEW x \in Inputs, x.tasks = {}
  PROVE  /\ Append(q, x) \in Seq(Inputs) /\ BatchesOK(Append(q, x))
         /\ Carried(Append(q, x)) = Carried(q)
<1> DEFINE r == Append(q, x)
<1>1. /\ r \in Seq(Inputs) /\ Len(q) \in Nat /\ DOMAIN q = 1..Len(q)
      /\ DOMAIN r = 1..Len(q) + 1
      /\ \A i \in 1..Len(q) : r[i] = q[i]
      /\ r[Len(q) + 1] = x
  OBVIOUS
<1> HIDE DEF r
<1>2. \A i \in DOMAIN r : r[i] = x \/ (i \in DOMAIN q /\ r[i] = q[i])
  BY <1>1
<1>3. \A i \in DOMAIN q : i \in DOMAIN r /\ r[i] = q[i]
  BY <1>1
<1>4. \A t : t \in Carried(r) <=> t \in Carried(q)
  <2>1. TAKE t
  <2>2. t \in Carried(r) <=> \E i \in DOMAIN r : t \in r[i].tasks
    BY <1>1, CarriedFact
  <2>3. t \in Carried(q) <=> \E i \in DOMAIN q : t \in q[i].tasks
    BY CarriedFact
  <2> QED BY <1>2, <1>3, <2>2, <2>3
<1>5. OneEach(r)
  BY <1>2 DEF BatchesOK, OneEach
<1>6. PlainOK(r)
  <2>1. \A i \in DOMAIN q : q[i].type = "task_settlements" \/ q[i].tasks = {}
    BY CarriedFact DEF BatchesOK
  <2>2. \A i \in DOMAIN r : r[i].type = "task_settlements" \/ r[i].tasks = {}
    BY <1>2, <2>1
  <2> QED BY <1>1, <2>2, CarriedFact
<1> QED BY <1>1, <1>4, <1>5, <1>6 DEF r, BatchesOK

(* The positions of I have the ranks 1 .. Cardinality(I), each of them one.*)
LEMMA RankFact ==
  ASSUME NEW n \in Nat, NEW I \in SUBSET (1..n)
  PROVE  /\ IsFiniteSet(I) /\ Cardinality(I) \in Nat
         /\ \A i \in I : Rank(I, i) \in 1..Cardinality(I)
         /\ \A i, j \in I : Rank(I, i) = Rank(I, j) => i = j
         /\ \A k \in 1..Cardinality(I) : \E i \in I : Rank(I, i) = k
<1> DEFINE Upto(i) == {j \in I : j <= i}
           f == [i \in I |-> Rank(I, i)]
<1>1. IsFiniteSet(I) /\ Cardinality(I) \in Nat
  <2>1. IsFiniteSet(1..n)
    BY FS_Interval
  <2> QED BY <2>1, FS_Subset, FS_CardinalityType
<1>2. ASSUME NEW i \in I
      PROVE  /\ IsFiniteSet(Upto(i)) /\ Rank(I, i) = Cardinality(Upto(i))
             /\ Rank(I, i) \in 1..Cardinality(I)
  <2>1. Upto(i) \in SUBSET I /\ i \in Upto(i)
    OBVIOUS
  <2>2. IsFiniteSet(Upto(i)) /\ Cardinality(Upto(i)) <= Cardinality(I)
    BY <1>1, <2>1, FS_Subset
  <2>3. Cardinality(Upto(i)) \in Nat /\ Cardinality(Upto(i)) # 0
    BY <2>1, <2>2, FS_CardinalityType, FS_EmptySet
  <2> QED BY <1>1, <2>2, <2>3 DEF Rank
<1>3. ASSUME NEW i \in I, NEW j \in I, i < j
      PROVE  Rank(I, i) # Rank(I, j)
  <2>1. Upto(i) \in SUBSET Upto(j) /\ j \in Upto(j) /\ j \notin Upto(i)
    <3>1. i \in Nat /\ j \in Nat /\ \A k \in I : k \in Nat
      OBVIOUS
    <3>2. \A k \in I : k <= i => k <= j
      BY <1>3, <3>1
    <3>3. j <= j /\ ~(j <= i)
      BY <1>3, <3>1
    <3> QED BY <3>2, <3>3
  <2>2. Cardinality(Upto(j)) # Cardinality(Upto(i))
    BY <1>2, <2>1, FS_Subset
  <2> QED BY <1>2, <2>2
<1>4. \A i, j \in I : Rank(I, i) = Rank(I, j) => i = j
  <2>1. SUFFICES ASSUME NEW i \in I, NEW j \in I, Rank(I, i) = Rank(I, j), i # j PROVE FALSE
    OBVIOUS
  <2>2. i < j \/ j < i
    BY <2>1
  <2> QED BY <1>3, <2>1, <2>2
<1>5. f \in Injection(I, 1..Cardinality(I))
  BY <1>2, <1>4 DEF Injection, IsInjective
<1>6. IsFiniteSet(1..Cardinality(I)) /\ Cardinality(1..Cardinality(I)) = Cardinality(I)
  BY <1>1, FS_Interval
<1>7. f \in Surjection(I, 1..Cardinality(I))
  BY <1>5, <1>6, FS_Injection
<1>8. \A k \in 1..Cardinality(I) : \E i \in I : Rank(I, i) = k
  BY <1>7 DEF Surjection
<1> QED BY <1>1, <1>2, <1>4, <1>8

(* The entries at some positions, none of which is lost that carries tasks.*)
LEMMA PickedFact ==
  ASSUME NEW q \in Seq(Inputs), BatchesOK(q), NEW I \in SUBSET DOMAIN q,
         \A i \in DOMAIN q \ I : q[i].tasks = {}
  PROVE  /\ Picked(q, I) \in Seq(Inputs) /\ BatchesOK(Picked(q, I))
         /\ Carried(Picked(q, I)) = Carried(q)
<1> DEFINE at(k) == CHOOSE i \in I : Rank(I, i) = k
           p == Picked(q, I)
<1>1. I \in SUBSET (1..Len(q)) /\ Len(q) \in Nat
  OBVIOUS
<1>2. /\ Cardinality(I) \in Nat
      /\ \A i \in I : Rank(I, i) \in 1..Cardinality(I)
      /\ \A i, j \in I : Rank(I, i) = Rank(I, j) => i = j
      /\ \A k \in 1..Cardinality(I) : \E i \in I : Rank(I, i) = k
  BY <1>1, RankFact
<1>3. \A k \in 1..Cardinality(I) : at(k) \in I /\ Rank(I, at(k)) = k
  BY <1>2
<1>4. \A i \in I : at(Rank(I, i)) = i
  BY <1>2, <1>3
<1>5. p = [k \in 1..Cardinality(I) |-> q[at(k)]]
  BY DEF Picked
<1> HIDE DEF at, p
<1>6. \A i \in I : q[i] \in Inputs
  OBVIOUS
<1>7. p \in [1..Cardinality(I) -> Inputs]
  BY <1>3, <1>5, <1>6
<1>8. p \in Seq(Inputs) /\ DOMAIN p = 1..Cardinality(I)
  BY <1>2, <1>7
<1>9. \A k \in DOMAIN p : at(k) \in DOMAIN q /\ p[k] = q[at(k)]
  BY <1>3, <1>5, <1>8
<1>10. \A i \in I : Rank(I, i) \in DOMAIN p /\ p[Rank(I, i)] = q[i]
  BY <1>2, <1>4, <1>5, <1>8
<1>11. \A k, l \in DOMAIN p : at(k) = at(l) => k = l
  BY <1>3, <1>8
<1>12. \A t : t \in Carried(p) <=> t \in Carried(q)
  <2>1. TAKE t
  <2>2. t \in Carried(p) <=> \E i \in DOMAIN p : t \in p[i].tasks
    BY <1>8, CarriedFact
  <2>3. t \in Carried(q) <=> \E i \in DOMAIN q : t \in q[i].tasks
    BY CarriedFact
  <2>4. \A i \in DOMAIN q : t \in q[i].tasks => i \in I
    OBVIOUS
  <2> QED BY <1>9, <1>10, <2>2, <2>3, <2>4
<1>13. OneEach(p)
  BY <1>9, <1>11 DEF BatchesOK, OneEach
<1>14. PlainOK(p)
  <2>1. \A i \in DOMAIN q : q[i].type = "task_settlements" \/ q[i].tasks = {}
    BY CarriedFact DEF BatchesOK
  <2>2. \A i \in DOMAIN p : p[i].type = "task_settlements" \/ p[i].tasks = {}
    BY <1>9, <2>1
  <2> QED BY <1>8, <2>2, CarriedFact
<1> QED BY <1>8, <1>12, <1>13, <1>14 DEF p, BatchesOK

(* The queue without one input carries what that one did not.              *)
LEMMA RemoveAtFact ==
  ASSUME NEW q \in Seq(Inputs), BatchesOK(q), NEW i \in DOMAIN q
  PROVE  /\ RemoveAt(q, i) \in Seq(Inputs) /\ BatchesOK(RemoveAt(q, i))
         /\ Carried(RemoveAt(q, i)) = Carried(q) \ q[i].tasks
<1> DEFINE r == RemoveAt(q, i)
           old(j) == IF j < i THEN j ELSE j + 1
<1>1. Len(q) \in Nat /\ DOMAIN q = 1..Len(q) /\ i \in 1..Len(q)
  OBVIOUS
<1>2. /\ r \in Seq(Inputs) /\ DOMAIN r = 1..Len(q) - 1
      /\ \A j \in DOMAIN r : r[j] = q[old(j)]
  <2> DEFINE s == SubSeq(q, 1, i - 1)
             t == SubSeq(q, i + 1, Len(q))
  <2>1. /\ s \in Seq(Inputs) /\ Len(s) = i - 1
        /\ \A j \in 1..i - 1 : s[j] = q[j]
    <3>1. \A j \in 1..i - 1 : q[j] \in Inputs
      BY <1>1
    <3>2. /\ s \in Seq(Inputs) /\ Len(s) = IF 1 <= i - 1 THEN i - 1 - 1 + 1 ELSE 0
          /\ \A j \in 1..i - 1 - 1 + 1 : s[j] = q[1 + j - 1]
      BY <1>1, <3>1, SubSeqProperties
    <3> QED BY <1>1, <3>2
  <2>2. /\ t \in Seq(Inputs) /\ Len(t) = Len(q) - i
        /\ \A j \in 1..Len(q) - i : t[j] = q[i + j]
    <3>1. \A j \in i + 1..Len(q) : q[j] \in Inputs
      BY <1>1
    <3>2. /\ t \in Seq(Inputs) /\ Len(t) = IF i + 1 <= Len(q) THEN Len(q) - (i + 1) + 1 ELSE 0
          /\ \A j \in 1..Len(q) - (i + 1) + 1 : t[j] = q[i + 1 + j - 1]
      BY <1>1, <3>1, SubSeqProperties
    <3> QED BY <1>1, <3>2
  <2>3. r = s \o t
    BY DEF RemoveAt
  <2> HIDE DEF r, s, t
  <2>4. /\ r \in Seq(Inputs) /\ Len(r) = Len(s) + Len(t)
        /\ \A j \in 1..Len(s) + Len(t) : r[j] = IF j <= Len(s) THEN s[j] ELSE t[j - Len(s)]
    BY <2>1, <2>2, <2>3, ConcatProperties
  <2>5. DOMAIN r = 1..Len(q) - 1
    BY <1>1, <2>1, <2>2, <2>4
  <2>6. ASSUME NEW j \in DOMAIN r PROVE r[j] = q[old(j)]
    <3>1. CASE j < i
      BY <1>1, <2>1, <2>2, <2>4, <2>5, <3>1
    <3>2. CASE ~(j < i)
      <4>1. j - Len(s) \in 1..Len(q) - i /\ i + (j - Len(s)) = j + 1
        BY <1>1, <2>1, <2>5, <3>2
      <4>2. r[j] = t[j - Len(s)]
        BY <1>1, <2>1, <2>2, <2>4, <2>5, <3>2
      <4> QED BY <2>2, <3>2, <4>1, <4>2
    <3> QED BY <3>1, <3>2
  <2> QED BY <2>4, <2>5, <2>6
<1> HIDE DEF r
<1>3. \A j \in DOMAIN r : old(j) \in DOMAIN q /\ old(j) # i
  BY <1>1, <1>2
<1>4. \A k \in DOMAIN q : k = i \/ \E j \in DOMAIN r : old(j) = k
  <2>1. TAKE k \in DOMAIN q
  <2>2. CASE k < i
    BY <1>1, <1>2, <2>2
  <2>3. CASE i < k
    <3>1. k - 1 \in DOMAIN r /\ old(k - 1) = k
      BY <1>1, <1>2, <2>3
    <3> QED BY <3>1
  <2> QED BY <1>1, <2>2, <2>3
<1>5. \A j, k \in DOMAIN r : old(j) = old(k) => j = k
  BY <1>1, <1>2
<1> HIDE DEF old
<1>6. \A t : t \in Carried(r) <=> t \in Carried(q) /\ t \notin q[i].tasks
  <2>1. TAKE t
  <2>2. t \in Carried(r) <=> \E j \in DOMAIN r : t \in r[j].tasks
    BY <1>2, CarriedFact
  <2>3. t \in Carried(q) <=> \E j \in DOMAIN q : t \in q[j].tasks
    BY CarriedFact
  <2>4. \A j, k \in DOMAIN q : t \in q[j].tasks /\ t \in q[k].tasks => j = k
    BY DEF BatchesOK, OneEach
  <2>5. ASSUME t \in Carried(r) PROVE t \in Carried(q) /\ t \notin q[i].tasks
    <3>1. PICK j \in DOMAIN r : t \in r[j].tasks
      BY <2>2, <2>5
    <3> QED BY <1>2, <1>3, <2>3, <2>4, <3>1
  <2>6. ASSUME t \in Carried(q), t \notin q[i].tasks PROVE t \in Carried(r)
    <3>1. PICK k \in DOMAIN q : t \in q[k].tasks
      BY <2>3, <2>6
    <3>2. PICK j \in DOMAIN r : old(j) = k
      BY <1>4, <2>6, <3>1
    <3> QED BY <1>2, <2>2, <3>1, <3>2
  <2> QED BY <2>5, <2>6
<1>7. OneEach(r)
  BY <1>2, <1>3, <1>5 DEF BatchesOK, OneEach
<1>8. PlainOK(r)
  <2>1. \A j \in DOMAIN q : q[j].type = "task_settlements" \/ q[j].tasks = {}
    BY CarriedFact DEF BatchesOK
  <2>2. \A j \in DOMAIN r : r[j].type = "task_settlements" \/ r[j].tasks = {}
    BY <1>2, <1>3, <2>1
  <2> QED BY <1>2, <2>2, CarriedFact
<1> QED BY <1>2, <1>6, <1>7, <1>8 DEF r, BatchesOK

(* The least of a set of positions.                                        *)
LEMMA LeastFact ==
  ASSUME NEW n \in Nat, NEW I \in SUBSET (1..n), I # {}
  PROVE  \E i \in I : \A j \in I : i <= j
<1>1. /\ Cardinality(I) \in Nat /\ IsFiniteSet(I)
      /\ \A i \in I : Rank(I, i) \in 1..Cardinality(I)
      /\ \A k \in 1..Cardinality(I) : \E i \in I : Rank(I, i) = k
  BY RankFact
<1>2. 1 \in 1..Cardinality(I)
  <2>1. PICK i \in I : TRUE
    OBVIOUS
  <2>2. Rank(I, i) \in 1..Cardinality(I)
    BY <1>1
  <2> QED BY <1>1, <2>2
<1>3. PICK i \in I : Rank(I, i) = 1
  BY <1>1, <1>2
<1>4. ASSUME NEW j \in I, j < i PROVE FALSE
  <2> DEFINE J == {k \in I : k <= i}
  <2>1. IsFiniteSet(J) /\ Cardinality(J) = 1
    BY <1>1, <1>3, FS_Subset DEF Rank
  <2>2. {i} \in SUBSET J /\ Cardinality({i}) = 1
    BY FS_Singleton
  <2>3. J = {i}
    BY <2>1, <2>2, FS_Subset
  <2>4. j \in J /\ j # i
    BY <1>4
  <2> QED BY <2>3, <2>4
<1> QED BY <1>4
-----------------------------------------------------------------------------
(* enqueueAvailableSettlements                                             *)

(* A settlement that is delivered leaves the buffer without its posture.   *)
Dropped == [t \in Task |-> IF t \in Buffered THEN "none" ELSE posture[t]]
Deliverable == {t \in Buffered : posture[t] # "suppress"}

(* The four ways it goes.                                                  *)
LEMMA FlushCases ==
  /\ Flushed.kernel = {}
  /\ ForegroundPending # {} =>
       /\ Flushed.held = Buffered /\ Flushed.posture = posture
       /\ Flushed.inputs = inputs /\ Flushed.steered = steered
  /\ ForegroundPending = {} =>
       /\ Flushed.held = {} /\ Flushed.posture = Dropped
       /\ \/ /\ Deliverable = {} /\ Flushed.inputs = inputs /\ Flushed.steered = steered
          \/ /\ Deliverable # {} /\ CanSteer(Deliverable)
             /\ Flushed.inputs = inputs /\ Flushed.steered = steered \cup Deliverable
          \/ /\ Deliverable # {} /\ ~CanSteer(Deliverable)
             /\ Flushed.inputs = <<Input("task_settlements", Deliverable)>> \o inputs
             /\ Flushed.steered = steered
<1> DEFINE keep == [kernel |-> {}, held |-> Buffered, posture |-> posture,
                    inputs |-> inputs, steered |-> steered]
           flush == [keep EXCEPT !.held = {}, !.posture = Dropped]
<1>1. Flushed = IF ForegroundPending # {} THEN keep
                ELSE IF Deliverable = {} THEN flush
                ELSE IF CanSteer(Deliverable) THEN [flush EXCEPT !.steered = @ \cup Deliverable]
                ELSE [flush EXCEPT !.inputs = <<Input("task_settlements", Deliverable)>> \o @]
  <2>1. /\ held \cup HeldNow = Buffered
        /\ kernel \ HeldNow = {}
    BY DEF Buffered, HeldNow
  <2>2. [t \in Task |-> IF t \in held \cup HeldNow THEN "none" ELSE posture[t]] = Dropped
    BY DEF Dropped, Buffered, HeldNow
  <2>3. {t \in held \cup HeldNow : posture[t] # "suppress"} = Deliverable
    BY DEF Deliverable, Buffered, HeldNow
  <2> HIDE DEF Deliverable, Dropped, CanSteer, Input, HeldNow, Buffered, ForegroundPending
  <2> QED BY ONLY <2>1, <2>2, <2>3, Zenon DEF Flushed
<1>2. CASE ForegroundPending # {}
  BY <1>1, <1>2
<1>3. CASE ForegroundPending = {} /\ Deliverable = {}
  BY <1>1, <1>3
<1>4. CASE ForegroundPending = {} /\ Deliverable # {} /\ CanSteer(Deliverable)
  BY <1>1, <1>4
<1>5. CASE ForegroundPending = {} /\ Deliverable # {} /\ ~CanSteer(Deliverable)
  BY <1>1, <1>5
<1> QED BY <1>2, <1>3, <1>4, <1>5

(* It keeps every settlement that is not told, each in one place.          *)
LEMMA FlushKeeps ==
  ASSUME DInv
  PROVE  /\ Flushed.kernel = {} /\ Flushed.held \subseteq Task
         /\ Flushed.steered \subseteq Task /\ Flushed.posture \in [Task -> Postures]
         /\ Flushed.inputs \in Seq(Inputs) /\ BatchesOK(Flushed.inputs)
         /\ QueuesOK(Flushed.kernel \cup Flushed.held, Carried(Flushed.inputs),
                     Flushed.steered, Flushed.posture)
         /\ pass = "none" => Flushed.steered = steered
         /\ ForegroundPending = {} => Flushed.held = {} /\ Flushed.posture = Dropped
<1> USE DEF DInv, TypeOK
<1>1. /\ inputs \in Seq(Inputs) /\ Carried(inputs) \subseteq Task
      /\ Buffered \subseteq Task /\ Deliverable \subseteq Buffered
  BY CarriedFact DEF Inputs, Buffered, Deliverable
<1>2. Dropped \in [Task -> Postures]
  BY DEF Dropped, Postures
<1>3. CASE ForegroundPending # {}
  <2>1. {} \cup Buffered = Buffered
    OBVIOUS
  <2>2. /\ Flushed.kernel = {} /\ Flushed.held = Buffered /\ Flushed.posture = posture
        /\ Flushed.inputs = inputs /\ Flushed.steered = steered
    BY <1>3, FlushCases
  <2> QED BY <1>1, <1>3, <2>1, <2>2
<1>4. CASE ForegroundPending = {}
  <2>1. \A t \in Task : call[t] \notin Undecided
    BY <1>4 DEF ForegroundPending, QueuesOK, PlacesOK
  <2>2. \A t \in Task : /\ Dropped[t] = IF t \in Buffered THEN "none" ELSE posture[t]
                        /\ t \in Deliverable <=> t \in Buffered /\ posture[t] # "suppress"
    BY <1>1 DEF Dropped, Deliverable
  <2>3. \A t \in Task :
          /\ Dropped[t] = "suppress" => told[t] # {}
          /\ lane[t] = "state" => Dropped[t] = "none"
          /\ call[t] \in Undecided <=> Dropped[t] = "foreground_pending"
          /\ work[t] = "new" => Dropped[t] = "none"
          /\ t \in Buffered /\ t \notin Deliverable => told[t] # {}
          /\ t \in Deliverable => told[t] = {} /\ work[t] = "settled"
    BY <2>1, <2>2 DEF QueuesOK, PlacesOK
  <2>4. CASE Deliverable = {} /\ Flushed.inputs = inputs /\ Flushed.steered = steered
    <3>1. QueuesOK({}, Carried(inputs), steered, Dropped)
      BY <2>1, <2>3, <2>4 DEF QueuesOK, PlacesOK, ApartOK
    <3> QED BY <1>1, <1>2, <1>4, <2>4, <3>1, FlushCases
  <2>5. CASE /\ Deliverable # {} /\ CanSteer(Deliverable)
             /\ Flushed.inputs = inputs /\ Flushed.steered = steered \cup Deliverable
    <3>1. \A t \in Deliverable : lane[t] # "state"
      BY <1>1, <2>3, <2>5 DEF CanSteer, StatesOK
    <3>2. ApartOK({}, Carried(inputs), steered \cup Deliverable)
      BY <1>1 DEF QueuesOK, ApartOK
    <3>3. PlacesOK({}, Carried(inputs), steered \cup Deliverable, Dropped)
      BY <2>1, <2>3, <3>1 DEF QueuesOK, PlacesOK
    <3>4. pass # "none"
      BY <2>5 DEF CanSteer
    <3> QED BY <1>1, <1>2, <1>4, <2>5, <3>2, <3>3, <3>4, FlushCases DEF QueuesOK
  <2>6. CASE /\ Deliverable # {} /\ ~CanSteer(Deliverable)
             /\ Flushed.inputs = <<Input("task_settlements", Deliverable)>> \o inputs
             /\ Flushed.steered = steered
    <3> DEFINE x == Input("task_settlements", Deliverable)
    <3>1. x \in Inputs /\ x.type = "task_settlements" /\ x.tasks = Deliverable
      BY <1>1 DEF Inputs, InputTypes, Input
    <3>2. Deliverable \cap Carried(inputs) = {}
      BY <1>1 DEF QueuesOK, ApartOK
    <3>3. /\ Flushed.inputs \in Seq(Inputs) /\ BatchesOK(Flushed.inputs)
          /\ Carried(Flushed.inputs) = Carried(inputs) \cup Deliverable
      <4> HIDE DEF x
      <4>1. /\ <<x>> \o inputs \in Seq(Inputs) /\ BatchesOK(<<x>> \o inputs)
            /\ Carried(<<x>> \o inputs) = Carried(inputs) \cup x.tasks
        BY <1>1, <3>1, <3>2, PushFact
      <4>2. Flushed.inputs = <<x>> \o inputs
        BY <2>6 DEF x
      <4> QED BY <3>1, <4>1, <4>2
    <3>4. ApartOK({}, Carried(inputs) \cup Deliverable, steered)
      BY <1>1 DEF QueuesOK, ApartOK
    <3>5. PlacesOK({}, Carried(inputs) \cup Deliverable, steered, Dropped)
      BY <2>1, <2>3 DEF QueuesOK, PlacesOK
    <3> QED BY <1>1, <1>2, <1>4, <2>6, <3>3, <3>4, <3>5, FlushCases DEF QueuesOK
  <2> QED BY <1>4, <2>4, <2>5, <2>6, FlushCases
<1> QED BY <1>3, <1>4

-----------------------------------------------------------------------------
(* The calls.                                                              *)

LEMMA StartStep ==
  ASSUME DInv, NEW t \in Task, NEW l \in {"tool", "spawn"}, NEW a \in Task \cup {Root},
         NEW f \in BOOLEAN, StartCall(t, l, a, f),
         IF a = Root THEN pass = "tools" ELSE work[a] = "running"
  PROVE  DInv'
<1> USE DEF DInv
<1>1. /\ UNCHANGED <<kernel, held, inputs, steered, queued, woken, loopVars, passVars, logVars>>
      /\ work[t] = "new"
  BY DEF StartCall
<1>2. TypeOK'
  BY <1>1 DEF StartCall, TypeOK, StartPosture, CallStates, Postures, loopVars, passVars, logVars
<1>3. /\ work'[t] = "running" /\ lane'[t] = l /\ caller'[t] = a
      /\ call'[t] \in {"waiting", "background"}
      /\ posture'[t] \in {"foreground_pending", "deliver"}
      /\ call'[t] = "waiting" <=> posture'[t] = "foreground_pending"
      /\ \A u \in Task \ {t} : /\ work'[u] = work[u] /\ lane'[u] = lane[u]
                               /\ caller'[u] = caller[u] /\ call'[u] = call[u]
                               /\ posture'[u] = posture[u]
  BY DEF StartCall, StartPosture, TypeOK
<1>4. Buffered' = Buffered /\ Carried(inputs)' = Carried(inputs) /\ BatchesOK(inputs)'
  BY <1>1 DEF Buffered
<1>5. QueuesOK(Buffered, Carried(inputs), steered, posture)'
  <2>1. told' = told /\ cleared' = cleared /\ steered' = steered
    BY <1>1 DEF logVars
  <2>2. PlacesOK(Buffered, Carried(inputs), steered, posture)'
    BY <1>1, <1>3, <1>4, <2>1 DEF QueuesOK, PlacesOK, Undecided, TasksOK
  <2> QED BY <1>4, <2>1, <2>2 DEF QueuesOK, ApartOK
<1>6. TasksOK'
  <2>1. told' = told /\ cleared' = cleared /\ pass' = pass
    BY <1>1 DEF logVars, passVars
  <2>2. \A u \in Task \ {t} : call[u] \in Undecided /\ caller[u] # Root
                               => caller[u] \in Task /\ caller[u] # t
    BY <1>1 DEF TasksOK, TypeOK
  <2>3. t # a
    BY <1>1, SettlementAssumption
  <2> QED BY <1>1, <1>3, <2>1, <2>2, <2>3, SettlementAssumption DEF TasksOK, Undecided
<1>7. StatesOK'
  BY <1>1, <1>3 DEF StatesOK, loopVars, logVars
<1>8. LoopOK'
  <2>1. loop # "ended"
    BY DEF LoopOK, Running
  <2> QED BY <1>1, <2>1 DEF LoopOK, loopVars, passVars, logVars
<1> QED BY <1>2, <1>4, <1>5, <1>6, <1>7, <1>8

LEMMA SettleStep ==
  ASSUME DInv, NEW t \in Task, Settle(t)
  PROVE  DInv'
<1> USE DEF DInv
<1>1. /\ UNCHANGED <<lane, caller, call, held, posture, inputs, steered, loopVars, passVars,
                     logVars>>
      /\ work[t] = "running" /\ UndecidedCalls(t) = {}
      /\ kernel' = kernel \cup {t}
  BY DEF Settle
<1>2. TypeOK'
  BY <1>1 DEF Settle, TypeOK, loopVars, passVars, logVars
<1>3. work'[t] = "settled" /\ \A u \in Task \ {t} : work'[u] = work[u]
  BY DEF Settle, TypeOK
<1>4. Buffered' = Buffered \cup {t} /\ Carried(inputs)' = Carried(inputs) /\ BatchesOK(inputs)'
  BY <1>1 DEF Buffered
<1>5. t \notin Carried(inputs) \cup steered \cup cleared /\ told[t] = {}
  BY <1>1 DEF QueuesOK, PlacesOK, TasksOK
<1>6. told' = told /\ cleared' = cleared /\ pass' = pass /\ loop' = loop
  BY <1>1 DEF logVars, passVars, loopVars
<1>7. QueuesOK(Buffered, Carried(inputs), steered, posture)'
  <2>1. PlacesOK(Buffered, Carried(inputs), steered, posture)'
    BY <1>1, <1>3, <1>4, <1>5, <1>6 DEF QueuesOK, PlacesOK
  <2> QED BY <1>1, <1>4, <1>5, <2>1 DEF QueuesOK, ApartOK
<1>8. TasksOK'
  <2>1. \A u \in Task : call[u] \in Undecided => caller[u] # t
    BY <1>1 DEF UndecidedCalls
  <2>2. \A u \in Task : caller[u] \in Task \cup {Root}
    BY DEF TypeOK
  <2> QED BY <1>1, <1>3, <1>6, <2>1, <2>2 DEF TasksOK
<1>9. StatesOK'
  BY <1>1, <1>6 DEF StatesOK, loopVars
<1>10. LoopOK'
  <2>1. loop # "ended"
    BY <1>1 DEF LoopOK, Running
  <2> QED BY <1>1, <1>6, <2>1 DEF LoopOK, passVars, logVars
<1> QED BY <1>2, <1>4, <1>7, <1>8, <1>9, <1>10

LEMMA RaceStep ==
  ASSUME DInv, NEW t \in Task, RaceSettles(t) \/ BudgetElapses(t)
  PROVE  DInv'
<1> USE DEF DInv
<1>1. UNCHANGED <<work, lane, caller, kernel, held, posture, inputs, steered, queued, woken,
                  loopVars, passVars, logVars>>
  BY DEF RaceSettles, BudgetElapses, queueVars
<1>2. TypeOK'
  BY <1>1 DEF RaceSettles, BudgetElapses, TypeOK, loopVars, passVars, logVars, CallStates
<1>3. /\ call[t] \in Undecided /\ call'[t] \in Undecided
      /\ call'[t] = "settled" => work[t] = "settled"
      /\ \A u \in Task \ {t} : call'[u] = call[u]
  BY DEF RaceSettles, BudgetElapses, TypeOK, Undecided
<1>4. Buffered' = Buffered /\ Carried(inputs)' = Carried(inputs) /\ BatchesOK(inputs)'
  BY <1>1 DEF Buffered
<1>5. told' = told /\ cleared' = cleared /\ pass' = pass /\ loop' = loop
  BY <1>1 DEF logVars, passVars, loopVars
<1>6. call[t] # "none" /\ call'[t] # "new"
  BY <1>3 DEF Undecided
<1>7. QueuesOK(Buffered, Carried(inputs), steered, posture)'
  <2>1. PlacesOK(Buffered, Carried(inputs), steered, posture)'
    BY <1>1, <1>3, <1>4, <1>5 DEF QueuesOK, PlacesOK
  <2> QED BY <1>1, <1>4, <2>1 DEF QueuesOK, ApartOK
<1>8. TasksOK'
  BY <1>1, <1>3, <1>5, <1>6 DEF TasksOK
<1>9. StatesOK'
  BY <1>1, <1>3, <1>5, <1>6 DEF StatesOK, loopVars
<1>10. LoopOK'
  BY <1>1, <1>5 DEF LoopOK, Running, passVars, logVars
<1> QED BY <1>2, <1>4, <1>7, <1>8, <1>9, <1>10

LEMMA ResultStep ==
  ASSUME DInv, NEW t \in Task, ForegroundResult(t)
  PROVE  DInv'
<1> USE DEF DInv
<1>1. /\ UNCHANGED <<work, lane, caller, kernel, held, inputs, steered, woken, loopVars,
                     passVars, cleared, steers, selects>>
      /\ call[t] \in {"settled", "converted"}
  BY DEF ForegroundResult
<1>2. /\ call'[t] = IF call[t] = "settled" THEN "answered" ELSE "background"
      /\ posture'[t] = IF call[t] = "settled" THEN "suppress" ELSE "deliver"
      /\ told'[t] = IF call[t] = "settled" THEN told[t] \cup {"result"} ELSE told[t]
      /\ \A u \in Task \ {t} : call'[u] = call[u] /\ posture'[u] = posture[u]
                               /\ told'[u] = told[u]
  BY <1>1 DEF ForegroundResult, ResultPosture, TypeOK
<1>3. /\ work[t] = "settled" => t \in Buffered /\ told[t] = {}
      /\ call[t] = "settled" => work[t] = "settled"
      /\ lane[t] # "state" /\ work[t] # "new"
  BY <1>1 DEF QueuesOK, PlacesOK, TasksOK, StatesOK, Undecided
<1>4. TypeOK'
  BY <1>1 DEF ForegroundResult, TypeOK, loopVars, passVars, CallStates, Postures, ResultPosture
<1>5. Buffered' = Buffered /\ Carried(inputs)' = Carried(inputs) /\ BatchesOK(inputs)'
  BY <1>1 DEF Buffered
<1>6. cleared' = cleared /\ pass' = pass /\ loop' = loop
  BY <1>1 DEF passVars, loopVars
<1>7. call[t] \in Undecided /\ call'[t] \notin Undecided /\ call'[t] \notin {"none", "settled"}
  BY <1>1, <1>2 DEF Undecided
<1>8. QueuesOK(Buffered, Carried(inputs), steered, posture)'
  <2>1. PlacesOK(Buffered, Carried(inputs), steered, posture)'
    <3>1. ApartOK(Buffered, Carried(inputs), steered)
      BY DEF QueuesOK
    <3> QED BY <1>1, <1>2, <1>3, <1>5, <1>6, <1>7, <3>1 DEF QueuesOK, PlacesOK, ApartOK
  <2> QED BY <1>1, <1>5, <2>1 DEF QueuesOK, ApartOK
<1>9. TasksOK'
  <2>1. \A v, w \in told'[t] : v = w
    BY <1>2, <1>3 DEF TasksOK
  <2>2. told'[t] # {} => work[t] = "settled"
    BY <1>2, <1>3 DEF TasksOK
  <2> QED BY <1>1, <1>2, <1>3, <1>6, <1>7, <2>1, <2>2 DEF TasksOK
<1>10. StatesOK'
  BY <1>1, <1>2, <1>3, <1>6 DEF StatesOK, loopVars
<1>11. LoopOK'
  BY <1>1, <1>2, <1>3, <1>6 DEF LoopOK, Running, passVars
<1> QED BY <1>4, <1>5, <1>8, <1>9, <1>10, <1>11

-----------------------------------------------------------------------------
(* The parent pass.                                                        *)

(* pi reads its steering queue, or not, and goes on.                       *)
LEMMA PassGoesOn ==
  ASSUME DInv, pass # "none", pass # "tools" \/ UndecidedCalls(Root) = {},
         pass' \in PassStates \ {"none"}, lanes' \in {"sequential", "parallel"},
         control' \in BOOLEAN, control' => control \/ selects < MaxSelects,
         UNCHANGED <<told, steered>> \/ Drain,
         UNCHANGED <<taskVars, kernel, held, posture, inputs, queued, woken, loopVars,
                     cleared, steers, selects>>
  PROVE  DInv'
<1> USE DEF DInv, taskVars, loopVars
<1>1. \A t \in Task : call[t] \in Undecided => caller[t] # Root
  BY DEF TasksOK, UndecidedCalls
<1>2. /\ steered' \subseteq steered
      /\ \A t \in Task : \/ told'[t] = told[t] /\ (t \in steered' <=> t \in steered)
                         \/ t \in steered /\ t \notin steered' /\ told'[t] = told[t] \cup {"notice"}
      /\ told' \in [Task -> SUBSET {"result", "notice", "state", "ignored"}]
  <2>1. CASE Drain
    BY <2>1 DEF Drain, Tell, TypeOK
  <2> QED BY <2>1 DEF TypeOK
<1>3. TypeOK'
  BY <1>2 DEF TypeOK, PassStates
<1>4. Buffered' = Buffered /\ Carried(inputs)' = Carried(inputs) /\ BatchesOK(inputs)'
  BY DEF Buffered
<1>5. \A t \in steered : /\ told[t] = {} /\ work[t] = "settled" /\ lane[t] # "state"
                         /\ t \notin Buffered \cup Carried(inputs)
  BY DEF QueuesOK, ApartOK, PlacesOK, TypeOK
<1>6. QueuesOK(Buffered, Carried(inputs), steered, posture)'
  <2>1. PlacesOK(Buffered, Carried(inputs), steered, posture)'
    BY <1>2, <1>4, <1>5 DEF QueuesOK, PlacesOK
  <2> QED BY <1>2, <1>4, <2>1 DEF QueuesOK, ApartOK
<1>7. TasksOK'
  BY <1>1, <1>2, <1>5 DEF TasksOK
<1>8. StatesOK'
  BY <1>2, <1>5 DEF StatesOK
<1>9. LoopOK'
  BY <1>2 DEF LoopOK, Running
<1> QED BY <1>3, <1>4, <1>6, <1>7, <1>8, <1>9

LEMMA PassStepKeeps ==
  ASSUME DInv, PromptStarts \/ BatchEnds \/ ModelStep \/ ControlTool
  PROVE  DInv'
<1> USE DEF PassStates, queueVars, logVars, taskVars, loopVars, passVars
<1>1. control \in BOOLEAN /\ lanes \in {"sequential", "parallel"}
  BY DEF DInv, TypeOK
<1>2. CASE PromptStarts
  BY <1>1, <1>2, PassGoesOn DEF PromptStarts
<1>3. CASE BatchEnds
  <2>1. UNCHANGED <<told, steered>> \/ Drain
    BY <1>3 DEF BatchEnds
  <2>2. pass' \in {"returning", "model"}
    BY <1>3 DEF BatchEnds
  <2> QED BY <1>1, <1>3, <2>1, <2>2, PassGoesOn DEF BatchEnds
<1>4. ASSUME NEW l \in {"sequential", "parallel"}, ModelCallsTools(l) PROVE DInv'
  BY <1>1, <1>4, PassGoesOn DEF ModelCallsTools
<1>5. CASE ModelAnswers
  <2>1. pass' \in {"returning", "model"}
    BY <1>5 DEF ModelAnswers
  <2> QED BY <1>1, <1>5, <2>1, PassGoesOn DEF ModelAnswers
<1>6. CASE ModelFails
  BY <1>1, <1>6, PassGoesOn DEF ModelFails
<1>7. CASE ControlTool
  <2>1. UNCHANGED <<told, steered>>
    BY <1>7 DEF ControlTool
  <2> QED BY <1>1, <1>7, <2>1, PassGoesOn DEF ControlTool
<1> QED BY <1>2, <1>3, <1>4, <1>5, <1>6, <1>7 DEF ModelStep

LEMMA ReturnStep ==
  ASSUME DInv, PassReturns
  PROVE  DInv'
<1> USE DEF DInv
<1>1. /\ UNCHANGED <<taskVars, kernel, held, posture, inputs, queued, woken, stateTasks,
                     reminded, lanes, told, steers, selects>>
      /\ pass = "returning" /\ pass' = "none" /\ cleared' = cleared \cup steered
      /\ steered' = {} /\ control' = FALSE /\ loop' \in {"replacing", "select"}
      /\ loop' = "replacing" => control
      /\ ignored' = ignored \cup stateTasks \/ ignored' = ignored
  BY DEF PassReturns, ClearedQueues
<1> USE DEF taskVars
<1>2. TypeOK'
  BY <1>1 DEF TypeOK, PassStates, LoopStates
<1>3. Buffered' = Buffered /\ Carried(inputs)' = Carried(inputs) /\ BatchesOK(inputs)'
  BY <1>1 DEF Buffered
<1>4. \A t \in Task : t \in cleared' <=> t \in cleared \/ t \in steered
  BY <1>1
<1>5. QueuesOK(Buffered, Carried(inputs), steered, posture)'
  <2>1. PlacesOK(Buffered, Carried(inputs), steered, posture)'
    BY <1>1, <1>3, <1>4 DEF QueuesOK, PlacesOK
  <2> QED BY <1>1, <1>3, <2>1 DEF QueuesOK, ApartOK
<1>6. TasksOK'
  <2>1. \A t \in steered \cap Task : work[t] = "settled"
    BY DEF QueuesOK, PlacesOK
  <2> QED BY <1>1, <1>4, <2>1 DEF TasksOK
<1>7. StatesOK'
  <2>1. \A t \in Task : lane[t] = "state" => t \notin steered
    BY DEF QueuesOK, PlacesOK
  <2>2. ignored' \subseteq stateTasks'
    BY <1>1 DEF StatesOK
  <2> QED BY <1>1, <1>4, <2>1, <2>2 DEF StatesOK
<1>8. LoopOK'
  BY <1>1 DEF LoopOK
<1> QED BY <1>2, <1>3, <1>5, <1>6, <1>7, <1>8

(* The reminder goes, what the others carry stays.                         *)
LEMMA PaidFact ==
  ASSUME DInv
  PROVE  /\ WithoutEnforcement \in Seq(Inputs) /\ BatchesOK(WithoutEnforcement)
         /\ Carried(WithoutEnforcement) = Carried(inputs)
<1> DEFINE I == {i \in DOMAIN inputs : inputs[i].type # "transition_enforcement"}
<1>1. inputs \in Seq(Inputs) /\ BatchesOK(inputs)
  BY DEF DInv, TypeOK, Inputs
<1>2. \A i \in DOMAIN inputs \ I : inputs[i].tasks = {}
  BY <1>1, CarriedFact DEF BatchesOK
<1>3. WithoutEnforcement = Picked(inputs, I) /\ I \in SUBSET DOMAIN inputs
  BY DEF WithoutEnforcement
<1> HIDE DEF I
<1> QED BY <1>1, <1>2, <1>3, PickedFact

LEMMA SelectStep ==
  ASSUME DInv, StateSelected
  PROVE  DInv'
<1> USE DEF DInv
<1>1. /\ UNCHANGED <<caller, call, kernel, held, posture, steered, queued, woken, ignored,
                     reminded, passVars, told, cleared, steers>>
      /\ loop = "replacing" /\ loop' = "select" /\ inputs' = WithoutEnforcement
      /\ selects' = selects + 1
  BY DEF StateSelected
<1>2. Buffered' = Buffered /\ Carried(inputs)' = Carried(inputs) /\ BatchesOK(inputs)'
      /\ inputs' \in Seq(Inputs)
  BY <1>1, PaidFact DEF Buffered
<1>3. pass' = pass
  BY <1>1 DEF passVars
<1>4. LoopOK'
  BY <1>1, <1>3 DEF LoopOK, passVars
<1> DEFINE S == {t \in Task : work'[t] # work[t]}
<1>5. /\ S \subseteq Task
      /\ \A t \in S : work[t] = "new" /\ work'[t] = "running" /\ lane'[t] = "state"
      /\ \A t \in Task \ S : work'[t] = work[t] /\ lane'[t] = lane[t]
      /\ stateTasks' = stateTasks \cup S
      /\ work' \in [Task -> {"new", "running", "settled"}]
      /\ lane' \in [Task -> {"none", "tool", "spawn", "state"}]
  <2>1. CASE UNCHANGED <<work, lane, stateTasks>>
    BY <2>1 DEF TypeOK
  <2>2. ASSUME NEW t \in Task, work[t] = "new", work' = [work EXCEPT ![t] = "running"],
               lane' = [lane EXCEPT ![t] = "state"], stateTasks' = stateTasks \cup {t}
        PROVE  <1>5
    <3>1. S = {t}
      BY <2>2 DEF TypeOK
    <3> HIDE DEF S
    <3> QED BY <2>2, <3>1 DEF TypeOK
  <2> QED BY <2>1, <2>2 DEF StateSelected
<1> HIDE DEF S
<1>6. \A t \in S : /\ call[t] = "none" /\ told[t] = {} /\ t \notin cleared \cup steered
                   /\ posture[t] = "none" /\ t \notin Buffered \cup Carried(inputs)
  BY <1>5 DEF QueuesOK, PlacesOK, TasksOK, Undecided
<1>7. TypeOK'
  <2>1. selects' \in 0..MaxSelects
    BY <1>1, SettlementAssumption DEF LoopOK, TypeOK
  <2> QED BY <1>1, <1>2, <1>5, <2>1 DEF TypeOK, Inputs, LoopStates, passVars
<1>8. QueuesOK(Buffered, Carried(inputs), steered, posture)'
  <2>1. PlacesOK(Buffered, Carried(inputs), steered, posture)'
    BY <1>1, <1>2, <1>5, <1>6 DEF QueuesOK, PlacesOK
  <2> QED BY <1>1, <1>2, <2>1 DEF QueuesOK, ApartOK
<1>9. TasksOK'
  BY <1>1, <1>3, <1>5, <1>6 DEF TasksOK, TypeOK
<1>10. StatesOK'
  BY <1>1, <1>5, <1>6 DEF StatesOK
<1> QED BY <1>2, <1>4, <1>7, <1>8, <1>9, <1>10

-----------------------------------------------------------------------------
(* The loop.                                                               *)

(* The buffer is flushed and nothing is told.                              *)
LEMMA FlushStep ==
  ASSUME DInv, LoopFlushes, inputs' \in Seq(Inputs), BatchesOK(inputs)',
         Carried(inputs)' = Carried(Flushed.inputs),
         UNCHANGED <<taskVars, stateTasks, ignored, lanes, control, logVars>>,
         queued' \in BOOLEAN, woken' \in BOOLEAN, reminded' \subseteq Task,
         \/ UNCHANGED <<pass, loop>>
         \/ loop = "select" /\ loop' \in {"select", "waiting"} /\ pass' = pass
         \/ loop = "select" /\ loop' = "pass" /\ pass' = "rerouting"
  PROVE  DInv'
<1> USE DEF taskVars, logVars
<1>1. /\ kernel' = {} /\ held' \subseteq Task /\ steered' \subseteq Task
      /\ posture' \in [Task -> Postures]
      /\ QueuesOK(kernel' \cup held', Carried(inputs)', steered', posture')
  BY FlushKeeps DEF LoopFlushes
<1> USE DEF DInv
<1>2. /\ loop' \in LoopStates /\ pass' \in PassStates
      /\ loop' \in {"replacing", "ended"} => loop' = loop
      /\ pass' # "none" <=> loop' = "pass"
      /\ control => pass' # "none"
  BY DEF LoopOK, LoopStates, PassStates, TypeOK
<1>3. TypeOK'
  BY <1>1, <1>2 DEF TypeOK, Inputs
<1>4. QueuesOK(Buffered, Carried(inputs), steered, posture)'
  <2>1. PlacesOK(Buffered, Carried(inputs), steered, posture)'
    BY <1>1 DEF QueuesOK, PlacesOK, Buffered
  <2> QED BY <1>1, <2>1 DEF QueuesOK, ApartOK, Buffered
<1>5. TasksOK'
  <2>1. pass = "tools" => pass' = "tools"
    BY DEF LoopOK
  <2> QED BY <2>1 DEF TasksOK
<1>6. StatesOK'
  BY DEF StatesOK
<1>7. LoopOK'
  BY <1>2 DEF LoopOK, Running
<1> QED BY <1>3, <1>4, <1>5, <1>6, <1>7

LEMMA DeliverStep ==
  ASSUME DInv, DeliverSettlements
  PROVE  DInv'
<1>1. LoopFlushes /\ inputs' = Flushed.inputs
  BY DEF DeliverSettlements, LoopFlushes
<1>2. inputs' \in Seq(Inputs) /\ BatchesOK(inputs)' /\ Carried(inputs)' = Carried(Flushed.inputs)
  BY <1>1, FlushKeeps
<1>3. woken' \in BOOLEAN /\ reminded' \subseteq Task /\ queued' \in BOOLEAN
  BY DEF DeliverSettlements, DInv, TypeOK, loopVars
<1> QED BY <1>1, <1>2, <1>3, FlushStep DEF DeliverSettlements, loopVars, passVars

LEMMA WaitStep ==
  ASSUME DInv, LoopCleansUp \/ LoopWaits
  PROVE  DInv'
<1>1. LoopFlushes /\ loop = "select"
  BY DEF LoopCleansUp, LoopWaits
<1>2. Flushed.inputs \in Seq(Inputs) /\ BatchesOK(Flushed.inputs)
  BY FlushKeeps
<1>3. inputs' \in Seq(Inputs) /\ BatchesOK(inputs)' /\ Carried(inputs)' = Carried(Flushed.inputs)
  <2>1. CASE inputs' = Flushed.inputs
    BY <1>2, <2>1
  <2>2. CASE inputs' = Append(Flushed.inputs, Input("background_task_cleanup", {}))
    <3> DEFINE x == Input("background_task_cleanup", {})
    <3>1. x \in Inputs /\ x.tasks = {}
      BY DEF Inputs, Input, InputTypes
    <3> HIDE DEF x
    <3>2. /\ Append(Flushed.inputs, x) \in Seq(Inputs)
          /\ BatchesOK(Append(Flushed.inputs, x))
          /\ Carried(Append(Flushed.inputs, x)) = Carried(Flushed.inputs)
      BY <1>2, <3>1, AppendFact
    <3>3. inputs' = Append(Flushed.inputs, x)
      BY <2>2 DEF x
    <3> QED BY <3>2, <3>3
  <2> QED BY <2>1, <2>2 DEF LoopCleansUp, LoopWaits
<1>4. /\ UNCHANGED <<taskVars, stateTasks, ignored, lanes, control, logVars, pass, queued>>
      /\ loop' \in {"select", "waiting"}
      /\ woken' \in BOOLEAN /\ reminded' \subseteq Task
  <2>1. Running \subseteq Task
    BY DEF Running
  <2> QED BY <1>1, <2>1 DEF LoopCleansUp, LoopWaits, passVars, DInv, TypeOK
<1>5. queued' \in BOOLEAN
  BY <1>4 DEF DInv, TypeOK
<1> QED BY <1>1, <1>3, <1>4, <1>5, FlushStep

(* A steer, and the promise the loop waited for.                           *)
LEMMA OtherStep ==
  ASSUME DInv, UserSteers \/ LoopWakes
  PROVE  DInv'
<1> USE DEF DInv
<1>1. /\ UNCHANGED <<taskVars, kernel, held, posture, steered, queued, stateTasks, ignored,
                     reminded, passVars, told, cleared, selects>>
      /\ loop' = loop \/ (loop = "waiting" /\ loop' = "select")
      /\ woken' \in BOOLEAN
  BY DEF UserSteers, LoopWakes, queueVars, loopVars, logVars, TypeOK
<1>2. inputs' \in Seq(Inputs) /\ BatchesOK(inputs)' /\ Carried(inputs)' = Carried(inputs)
  <2>1. inputs \in Seq(Inputs)
    BY DEF TypeOK, Inputs
  <2>2. CASE inputs' = inputs
    BY <2>1, <2>2
  <2>3. CASE inputs' = Append(inputs, Input("user_command", {}))
    <3> DEFINE x == Input("user_command", {})
    <3>1. x \in Inputs /\ x.tasks = {}
      BY DEF Inputs, Input, InputTypes
    <3> HIDE DEF x
    <3>2. /\ Append(inputs, x) \in Seq(Inputs) /\ BatchesOK(Append(inputs, x))
          /\ Carried(Append(inputs, x)) = Carried(inputs)
      BY <2>1, <3>1, AppendFact
    <3>3. inputs' = Append(inputs, x)
      BY <2>3 DEF x
    <3> QED BY <3>2, <3>3
  <2> QED BY <2>2, <2>3 DEF UserSteers, LoopWakes, queueVars
<1>3. steers' \in 0..MaxSteers
  BY SettlementAssumption DEF UserSteers, LoopWakes, logVars, TypeOK
<1> USE DEF taskVars, passVars
<1>4. TypeOK'
  BY <1>1, <1>2, <1>3 DEF TypeOK, Inputs, LoopStates
<1>5. QueuesOK(Buffered, Carried(inputs), steered, posture)'
  <2>1. PlacesOK(Buffered, Carried(inputs), steered, posture)'
    BY <1>1, <1>2 DEF QueuesOK, PlacesOK, Buffered
  <2> QED BY <1>1, <1>2, <2>1 DEF QueuesOK, ApartOK, Buffered
<1>6. TasksOK'
  BY <1>1 DEF TasksOK
<1>7. StatesOK'
  BY <1>1 DEF StatesOK
<1>8. LoopOK'
  BY <1>1 DEF LoopOK, Running
<1> QED BY <1>2, <1>4, <1>5, <1>6, <1>7, <1>8

(* What the loop takes is an entry of its queue.                           *)
LEMMA FirstFact ==
  ASSUME NEW q \in Seq(Inputs), Runnable(q) # {}
  PROVE  FirstRunnable(q) \in DOMAIN q
<1>1. Len(q) \in Nat /\ DOMAIN q = 1..Len(q) /\ Runnable(q) \in SUBSET (1..Len(q))
  BY DEF Runnable
<1>2. \E i \in Runnable(q) : \A j \in Runnable(q) : i <= j
  BY <1>1, LeastFact
<1>3. FirstRunnable(q) \in Runnable(q)
  BY <1>2 DEF FirstRunnable
<1> QED BY <1>1, <1>3

LEMMA PromptTaken ==
  ASSUME DInv, LoopFlushes, loop = "select",
         UNCHANGED <<taskVars, queued, woken, lanes, control, cleared, steers, selects>>,
         NEW i \in DOMAIN Flushed.inputs, Flushed.inputs[i].type # "task_settlements",
         TakePrompt(RemoveAt(Flushed.inputs, i), Flushed.inputs[i].type)
  PROVE  DInv'
<1> DEFINE q == Flushed.inputs
<1>1. q \in Seq(Inputs) /\ BatchesOK(q)
  BY FlushKeeps
<1>2. inputs' = RemoveAt(q, i) /\ UNCHANGED <<ignored, stateTasks, reminded, told>>
  BY DEF TakePrompt
<1> HIDE DEF q
<1>3. i \in DOMAIN q /\ q[i].tasks = {}
  <2>1. i \in DOMAIN q /\ q[i].type # "task_settlements"
    BY DEF q
  <2> QED BY <1>1, <2>1, CarriedFact DEF BatchesOK
<1>4. inputs' \in Seq(Inputs) /\ BatchesOK(inputs)' /\ Carried(inputs)' = Carried(q)
  BY <1>1, <1>2, <1>3, RemoveAtFact
<1>5. queued' \in BOOLEAN /\ woken' \in BOOLEAN /\ reminded' \subseteq Task
  BY <1>2 DEF DInv, TypeOK
<1>6. \/ loop' = "select" /\ pass' = pass
      \/ loop' = "pass" /\ pass' = "rerouting"
  BY DEF TakePrompt, StartPass
<1> QED BY <1>2, <1>4, <1>5, <1>6, FlushStep DEF q, logVars

LEMMA SettlementsTaken ==
  ASSUME DInv, LoopFlushes, loop = "select",
         UNCHANGED <<taskVars, queued, woken, lanes, control, cleared, steers, selects>>,
         NEW i \in DOMAIN Flushed.inputs, Flushed.inputs[i].type = "task_settlements",
         TakeSettlements(RemoveAt(Flushed.inputs, i), Flushed.inputs[i].tasks)
  PROVE  DInv'
<1> DEFINE q == Flushed.inputs
           S == q[i].tasks
           rest == RemoveAt(q, i)
           recorded == (S \cap stateTasks) \ ignored
           others == S \ (stateTasks \cup ignored)
           after == IF recorded # {} /\ others # {} THEN PutBack(rest, others) ELSE rest
           D == IF recorded = {} THEN S ELSE S \ others
<1>1. q \in Seq(Inputs) /\ BatchesOK(q)
  BY FlushKeeps
<1>2. /\ ignored' = ignored \ (S \cap ignored) /\ stateTasks' = stateTasks \ S
      /\ inputs' = IF recorded = {} THEN after
                   ELSE Append(after, Input("transition_enforcement", {}))
      /\ reminded' = IF recorded = {} THEN reminded ELSE {}
      /\ told' = [t \in Task |->
                    CASE t \in S \cap ignored -> told[t] \cup {"ignored"}
                      [] t \in recorded -> told[t] \cup {"state"}
                      [] t \in others /\ recorded = {} -> told[t] \cup {"notice"}
                      [] OTHER -> told[t]]
      /\ \/ loop' = "select" /\ pass' = pass
         \/ loop' = "pass" /\ pass' = "rerouting"
  BY DEF TakeSettlements, StartPass
<1> HIDE DEF q
<1>3. i \in DOMAIN q
  BY DEF q
<1>4. S \subseteq Carried(q) /\ Carried(q) \subseteq Task
  BY <1>1, <1>3, CarriedFact
<1>5. rest \in Seq(Inputs) /\ BatchesOK(rest) /\ Carried(rest) = Carried(q) \ S
  BY <1>1, <1>3, RemoveAtFact
<1>6. /\ kernel' = {} /\ held' \subseteq Task /\ steered' = steered
      /\ posture' \in [Task -> Postures]
      /\ QueuesOK(kernel' \cup held', Carried(q), steered, posture')
  <2>1. pass = "none"
    BY DEF DInv, LoopOK
  <2> QED BY <2>1, FlushKeeps DEF LoopFlushes, q
<1>7. \A t \in Carried(q) : told[t] = {} /\ t \notin steered /\ t \notin kernel' \cup held'
  BY <1>4, <1>6 DEF QueuesOK, ApartOK, PlacesOK
<1>8. \A t \in Task :
        /\ t \notin D => told'[t] = told[t]
        /\ t \in D => \E w \in {"ignored", "state", "notice"} :
                        /\ told'[t] = told[t] \cup {w}
                        /\ w = "notice" => t \notin stateTasks
  <2> HIDE DEF S
  <2>1. \A t \in Task : told'[t] = CASE t \in S \cap ignored -> told[t] \cup {"ignored"}
                                      [] t \in recorded -> told[t] \cup {"state"}
                                      [] t \in others /\ recorded = {} -> told[t] \cup {"notice"}
                                      [] OTHER -> told[t]
    BY <1>2
  <2> QED BY <2>1
<1>9. D \subseteq S /\ \A t \in S \ D : t \notin stateTasks
  OBVIOUS
<1>10. inputs' \in Seq(Inputs) /\ BatchesOK(inputs') /\ Carried(inputs') = Carried(q) \ D
  <2>1. /\ after \in Seq(Inputs) /\ BatchesOK(after)
        /\ Carried(after) = (Carried(q) \ S) \cup (IF recorded # {} THEN others ELSE {})
    <3> DEFINE x == Input("task_settlements", others)
    <3> HIDE DEF S, rest
    <3>1. x \in Inputs /\ x.type = "task_settlements" /\ x.tasks = others
      BY <1>4 DEF Inputs, Input, InputTypes
    <3>2. others \cap Carried(rest) = {}
      BY <1>5
    <3>3. CASE recorded # {} /\ others # {}
      <4>1. after = <<x>> \o rest
        BY <3>3 DEF PutBack
      <4> HIDE DEF x, after, others, recorded
      <4>2. /\ <<x>> \o rest \in Seq(Inputs) /\ BatchesOK(<<x>> \o rest)
            /\ Carried(<<x>> \o rest) = Carried(rest) \cup x.tasks
        BY <1>5, <3>1, <3>2, PushFact
      <4> QED BY <1>5, <3>1, <3>3, <4>1, <4>2
    <3>4. CASE ~(recorded # {} /\ others # {})
      <4>1. after = rest
        BY <3>4
      <4> HIDE DEF after, others, recorded
      <4> QED BY <1>5, <3>4, <4>1
    <3> QED BY <3>3, <3>4
  <2>2. (Carried(q) \ S) \cup (IF recorded # {} THEN others ELSE {}) = Carried(q) \ D
    BY <1>4
  <2>3. CASE recorded = {}
    <3>1. inputs' = after
      BY <1>2, <2>3
    <3> HIDE DEF after
    <3> QED BY <2>1, <2>2, <3>1
  <2>4. CASE recorded # {}
    <3> DEFINE y == Input("transition_enforcement", {})
    <3>1. y \in Inputs /\ y.tasks = {}
      BY DEF Inputs, Input, InputTypes
    <3>2. inputs' = Append(after, y)
      BY <1>2, <2>4
    <3> HIDE DEF y, after
    <3>3. /\ Append(after, y) \in Seq(Inputs) /\ BatchesOK(Append(after, y))
          /\ Carried(Append(after, y)) = Carried(after)
      BY <2>1, <3>1, AppendFact
    <3> QED BY <2>1, <2>2, <3>2, <3>3
  <2> QED BY <2>3, <2>4
<1> HIDE DEF S, D
<1> USE DEF DInv, taskVars
<1>11. TypeOK'
  <2>1. told' \in [Task -> SUBSET {"result", "notice", "state", "ignored"}]
    BY <1>2, <1>8 DEF TypeOK
  <2>2. /\ ignored' \subseteq Task /\ stateTasks' \subseteq Task /\ reminded' \subseteq Task
        /\ loop' \in LoopStates /\ pass' \in PassStates
    BY <1>2 DEF TypeOK, LoopStates, PassStates
  <2> QED BY <1>6, <1>10, <2>1, <2>2 DEF TypeOK, Inputs
<1>12. QueuesOK(Buffered, Carried(inputs), steered, posture)'
  <2>1. ApartOK(kernel' \cup held', Carried(q) \ D, steered)
    BY <1>6 DEF QueuesOK, ApartOK
  <2>2. PlacesOK(Buffered, Carried(inputs), steered, posture)'
    <3>1. \A t \in Task : /\ t \in D => told'[t] # {} /\ t \in Carried(q)
                          /\ t \notin D => told'[t] = told[t]
      BY <1>4, <1>8, <1>9
    <3> QED BY <1>6, <1>7, <1>10, <3>1 DEF QueuesOK, PlacesOK, Buffered
  <2> QED BY <1>6, <1>10, <2>1, <2>2 DEF QueuesOK, Buffered
<1>13. TasksOK'
  <2>1. \A t \in Task : \A v, w \in told'[t] : v = w
    BY <1>4, <1>7, <1>8, <1>9 DEF TasksOK
  <2>2. \A t \in Task : told'[t] # {} => work[t] = "settled"
    BY <1>4, <1>6, <1>8, <1>9 DEF TasksOK, QueuesOK, PlacesOK
  <2>3. pass = "tools" => pass' = "tools"
    BY DEF LoopOK
  <2> QED BY <2>1, <2>2, <2>3 DEF TasksOK
<1>14. StatesOK'
  <2>1. ignored' \subseteq stateTasks'
    BY <1>2 DEF StatesOK
  <2>2. \A t \in Task : lane[t] = "state" =>
          /\ told'[t] = {} => t \in stateTasks'
          /\ told'[t] \subseteq {"state", "ignored"}
    BY <1>2, <1>4, <1>7, <1>8, <1>9 DEF StatesOK
  <2> QED BY <2>1, <2>2 DEF StatesOK
<1>15. LoopOK'
  BY <1>2 DEF LoopOK
<1> QED BY <1>10, <1>11, <1>12, <1>13, <1>14, <1>15

LEMMA TakeStep ==
  ASSUME DInv, LoopTakesInput
  PROVE  DInv'
<1>1. Flushed.inputs \in Seq(Inputs)
  BY FlushKeeps
<1>2. Runnable(Flushed.inputs) # {}
  BY DEF LoopTakesInput
<1>3. FirstRunnable(Flushed.inputs) \in DOMAIN Flushed.inputs
  BY <1>1, <1>2, FirstFact
<1> QED BY <1>3, PromptTaken, SettlementsTaken DEF LoopTakesInput

(* At the end there is nothing left to tell.                               *)
LEMMA EndStep ==
  ASSUME DInv, LoopEnds
  PROVE  DInv'
<1> USE DEF DInv
<1>1. /\ loop = "select" /\ loop' = "ended" /\ Runnable(Flushed.inputs) = {} /\ Running = {}
      /\ kernel' = {} /\ held' = {} /\ posture' = Dropped /\ inputs' = Flushed.inputs
      /\ stateTasks' = stateTasks \ Buffered /\ ignored' = ignored \ Buffered
      /\ UNCHANGED <<taskVars, steered, queued, woken, reminded, passVars, logVars>>
  BY DEF LoopEnds, Open, Dropped, Buffered
<1> USE DEF taskVars, logVars, passVars
<1>2. pass = "none"
  BY <1>1 DEF LoopOK
<1>3. \A t \in Task : call[t] \notin Undecided
  BY <1>1, <1>2 DEF TasksOK, Running, TypeOK
<1>4. ForegroundPending = {}
  BY <1>3 DEF ForegroundPending, QueuesOK, PlacesOK
<1>5. /\ inputs' \in Seq(Inputs) /\ BatchesOK(inputs)' /\ steered = Flushed.steered
      /\ Flushed.held = {} /\ Flushed.posture = Dropped /\ Flushed.kernel = {}
      /\ QueuesOK(kernel' \cup held', Carried(inputs)', steered', posture')
      /\ posture' \in [Task -> Postures]
  BY <1>1, <1>2, <1>4, FlushKeeps
<1>6. Carried(inputs)' = {}
  <2>1. \A j \in DOMAIN Flushed.inputs : j \in Runnable(Flushed.inputs)
    BY <1>1 DEF Runnable, Open
  <2> QED BY <1>1, <1>5, <2>1, CarriedFact
<1>7. TypeOK'
  BY <1>1, <1>5 DEF TypeOK, Inputs, LoopStates
<1>8. QueuesOK(Buffered, Carried(inputs), steered, posture)'
  <2>1. PlacesOK(Buffered, Carried(inputs), steered, posture)'
    BY <1>1, <1>5 DEF QueuesOK, PlacesOK, Buffered
  <2> QED BY <1>5, <2>1 DEF QueuesOK, ApartOK, Buffered
<1>9. TasksOK'
  BY <1>1 DEF TasksOK
<1>10. \A t \in Task : lane[t] = "state" /\ work[t] = "settled" => told[t] # {}
  BY <1>1, <1>3, <1>5, <1>6 DEF QueuesOK, PlacesOK, StatesOK
<1>11. StatesOK'
  <2>1. \A t \in Task : lane[t] = "state" /\ told[t] = {} => t \notin Buffered
    BY <1>10 DEF QueuesOK, PlacesOK
  <2> QED BY <1>1, <2>1 DEF StatesOK
<1>12. LoopOK'
  BY <1>1, <1>2, <1>10 DEF LoopOK, Running
<1> QED BY <1>5, <1>7, <1>8, <1>9, <1>11, <1>12

-----------------------------------------------------------------------------
LEMMA Initially == Init => DInv
<1> SUFFICES ASSUME Init PROVE DInv
  OBVIOUS
<1> DEFINE x == Input("user_command", {})
<1>1. x \in Inputs /\ x.tasks = {} /\ inputs = <<x>>
  BY DEF Init, Input, Inputs, InputTypes
<1> HIDE DEF x
<1>2. inputs \in Seq(Inputs) /\ DOMAIN inputs = {1} /\ inputs[1] = x
  BY <1>1
<1>3. BatchesOK(inputs) /\ Carried(inputs) = {}
  <2>1. \A i \in DOMAIN inputs : inputs[i].tasks = {}
    BY <1>1, <1>2
  <2>2. PlainOK(inputs)
    BY <1>2, <2>1, CarriedFact
  <2>3. \A t : t \notin Carried(inputs)
    BY <1>2, <2>1, CarriedFact
  <2>4. OneEach(inputs)
    BY <1>2 DEF OneEach
  <2> QED BY <2>2, <2>3, <2>4 DEF BatchesOK
<1>4. TypeOK
  <2>1. /\ work \in [Task -> {"new", "running", "settled"}]
        /\ lane \in [Task -> {"none", "tool", "spawn", "state"}]
        /\ caller \in [Task -> Task \cup {Root}] /\ call \in [Task -> CallStates]
        /\ posture \in [Task -> Postures]
        /\ told \in [Task -> SUBSET {"result", "notice", "state", "ignored"}]
    BY DEF Init, CallStates, Postures
  <2>2. inputs \in Seq([type : InputTypes, tasks : SUBSET Task])
    BY <1>2 DEF Inputs
  <2>3. steers \in 0..MaxSteers /\ selects \in 0..MaxSelects
    BY SettlementAssumption DEF Init
  <2> QED BY <2>1, <2>2, <2>3 DEF Init, TypeOK, LoopStates, PassStates
<1>5. QueuesOK(Buffered, Carried(inputs), steered, posture)
  BY <1>3 DEF Init, QueuesOK, ApartOK, PlacesOK, Buffered, Undecided
<1>6. TasksOK /\ StatesOK /\ LoopOK
  BY DEF Init, TasksOK, StatesOK, LoopOK, Undecided
<1> QED BY <1>3, <1>4, <1>5, <1>6 DEF DInv

LEMMA Stutter == DInv /\ UNCHANGED vars => DInv'
<1> SUFFICES ASSUME DInv, UNCHANGED vars PROVE DInv'
  OBVIOUS
<1> USE DEF DInv, vars, taskVars, queueVars, loopVars, passVars, logVars
<1>1. TypeOK'
  BY DEF TypeOK
<1>2. Buffered' = Buffered /\ Carried(inputs)' = Carried(inputs) /\ BatchesOK(inputs)'
  BY DEF Buffered
<1>3. QueuesOK(Buffered, Carried(inputs), steered, posture)'
  <2>1. PlacesOK(Buffered, Carried(inputs), steered, posture)'
    BY <1>2 DEF QueuesOK, PlacesOK
  <2> QED BY <1>2, <2>1 DEF QueuesOK, ApartOK
<1>4. TasksOK' /\ StatesOK' /\ LoopOK'
  BY DEF TasksOK, StatesOK, LoopOK, Running
<1> QED BY <1>1, <1>2, <1>3, <1>4

LEMMA NextKeeps == DInv /\ [Next]_vars => DInv'
<1> SUFFICES ASSUME DInv, [Next]_vars PROVE DInv'
  OBVIOUS
<1>1. CASE LoopStep
  BY <1>1, TakeStep, WaitStep, OtherStep, EndStep DEF LoopStep
<1>2. CASE ModelStep
  BY <1>2, PassStepKeeps
<1>3. CASE PassStep
  BY <1>3, PassStepKeeps, ReturnStep, SelectStep DEF PassStep
<1>4. CASE ToolStep
  <2>1. ASSUME NEW t \in Task, NEW f \in BOOLEAN, NEW l \in {"tool", "spawn"},
               ParentCalls(t, l, f)
        PROVE  DInv'
    BY <2>1, StartStep DEF ParentCalls
  <2>2. ASSUME NEW t \in Task, NEW a \in Task, NEW f \in BOOLEAN, ChildCalls(t, a, f)
        PROVE  DInv'
    <3>1. a # Root /\ work[a] = "running"
      BY <2>2, SettlementAssumption DEF ChildCalls, Running
    <3> QED BY <2>2, <3>1, StartStep DEF ChildCalls
  <2> QED BY <1>4, <2>1, <2>2, PassStepKeeps DEF ToolStep
<1>5. ASSUME NEW t \in Task, CallStep(t) \/ Settle(t) PROVE DInv'
  BY <1>5, RaceStep, ResultStep, SettleStep DEF CallStep
<1>6. CASE DeliverSettlements \/ UserSteers
  BY <1>6, DeliverStep, OtherStep
<1>7. CASE UNCHANGED vars
  BY <1>7, Stutter
<1> QED BY <1>1, <1>2, <1>3, <1>4, <1>5, <1>6, <1>7 DEF Next

LEMMA Always == Spec => []DInv
BY Initially, NextKeeps, PTL DEF Spec

(* Every variable keeps its type, for any number of tasks, steers and      *)
(* selections: parentInputs holds inputs, postures are postures.           *)
THEOREM TypeCorrect == Spec => []TypeOK
<1>1. DInv => TypeOK
  BY DEF DInv
<1> QED BY <1>1, Always, PTL

(* What the invariant says of the queues is what the property counts.      *)
LEMMA BatchFact ==
  ASSUME DInv, NEW t \in Task
  PROVE  /\ InBatch(t) <=> t \in Carried(inputs)
         /\ Cardinality({i \in Batches : t \in inputs[i].tasks}) <= 1
<1>1. inputs \in Seq(Inputs) /\ BatchesOK(inputs)
  BY DEF DInv, TypeOK, Inputs
<1>2. \A i \in DOMAIN inputs : t \in inputs[i].tasks => i \in Batches
  BY <1>1, CarriedFact DEF BatchesOK, Batches
<1>3. InBatch(t) <=> t \in Carried(inputs)
  BY <1>1, <1>2, CarriedFact DEF InBatch, Batches
<1> DEFINE I == {i \in Batches : t \in inputs[i].tasks}
<1>4. \A i, j \in I : i = j
  BY <1>1 DEF BatchesOK, OneEach, Batches
<1> HIDE DEF I
<1>5. I = {} \/ \E i : I = {i}
  BY <1>4
<1>6. Cardinality(I) = 0 \/ Cardinality(I) = 1
  BY <1>5, FS_EmptySet, FS_Singleton
<1> QED BY <1>3, <1>6 DEF I

(* Whatever callback comes first, an end is told at most once, to whom it  *)
(* is for, and until it is told it is in one of the queues: as the result  *)
(* of its call, as a notice, or in the ledger of the relay.                *)
THEOREM Told == Spec => []EndsAreTold
<1>1. ASSUME DInv PROVE EndsAreTold
  <2> USE DEF DInv
  <2>1. ToldOnce
    <3>1. SUFFICES ASSUME NEW t \in Task
                   PROVE  /\ Cardinality(told[t]) <= 1
                          /\ told[t] # {} => ~InBatch(t) /\ t \notin steered
                          /\ Cardinality({i \in Batches : t \in inputs[i].tasks}) <= 1
      BY DEF ToldOnce
    <3>2. told[t] # {} => t \notin Carried(inputs) /\ t \notin steered
      BY <1>1 DEF QueuesOK, PlacesOK
    <3>3. Cardinality(told[t]) <= 1
      <4>1. \A v, w \in told[t] : v = w
        BY <1>1 DEF TasksOK
      <4>2. told[t] = {} \/ \E v : told[t] = {v}
        BY <4>1
      <4> QED BY <4>2, FS_EmptySet, FS_Singleton
    <3> QED BY <1>1, <3>2, <3>3, BatchFact
  <2>2. EndIsKept
    <3>1. SUFFICES ASSUME NEW t \in Task, work[t] = "settled"
                   PROVE  \/ told[t] # {} \/ Queued(t) \/ call[t] \in Undecided
                          \/ t \in cleared \/ loop = "ended"
      BY DEF EndIsKept
    <3>2. \/ told[t] # {} \/ t \in Buffered \cup Carried(inputs) \cup steered \cup cleared
          \/ call[t] \in Undecided
      BY <1>1, <3>1 DEF QueuesOK, PlacesOK
    <3> QED BY <1>1, <3>2, BatchFact DEF Queued, Buffered
  <2>3. StateEndsAreRecorded
    BY <1>1 DEF StateEndsAreRecorded, StatesOK, LoopOK, QueuesOK, PlacesOK
  <2> QED BY <2>1, <2>2, <2>3 DEF EndsAreTold
<1> QED BY <1>1, Always, PTL

============================================================================
