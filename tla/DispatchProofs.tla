--------------------------- MODULE DispatchProofs ---------------------------
(***************************************************************************)
(* Proofs about Dispatch, for any tasks, activities, publishers, workers,  *)
(* slots and batches, and any bound on the copies and the faults.          *)
(*                                                                         *)
(* A committed task that is not yet Safe is in the outbox or in a copy the *)
(* broker will still deliver.  What a publisher has in its batch does not  *)
(* count: another publisher may have deleted the row already.  So the      *)
(* invariant has to say what a publisher knows once it has published, what *)
(* a goroutine knows once it may acknowledge, and that a worker which lost *)
(* its connection holds nothing but copies the broker has dropped.         *)
(***************************************************************************)
EXTENDS Dispatch, SequenceTheorems, FiniteSetTheorems, TLAPS

\* Nobody has to deliver t any more.
Safe(t) == t \in reported \/ Final(t) \/ t \in lost

\* The broker will deliver a copy of t, or has it delivered and will take it back.
Live(t) == \E c \in Copy : /\ copy[c].task = t /\ copy[c].place # "dlq"
                           /\ copy[c].at \in connected \cup {None}
Buried(t) == (\E c \in Copy : copy[c].place = "dlq" /\ copy[c].task = t) \/ t \in lost

\* What is to be said of a message once it has been published.
Published(m) == IF m.tier = "dlq" THEN Buried(m.task) ELSE Live(m.task) \/ Safe(m.task)

-----------------------------------------------------------------------------
\* A message is there because its row is; a dead letter because the row is dead.
Due(m) == row[m.task] # "NONE" /\ (m.tier = "dlq" => row[m.task] = "DEAD")
MessageInv ==
    /\ \A i \in 1..Len(outbox) : Due(outbox[i])
    /\ \A p \in Publisher : \A i \in 1..Len(batch[p]) : Due(batch[p][i])

CopyOK(c) ==
    \/ copy[c] = Free
    \/ /\ copy[c].place # "free" /\ copy[c].task \in Task
       /\ row[copy[c].task] # "NONE"
       /\ copy[c].place = "dlq" => row[copy[c].task] = "DEAD"
       /\ copy[c].at # None <=> copy[c].place \in AtWorker
       /\ copy[c].at # None => worker[copy[c].at].mode # "down"
       /\ copy[c].at \notin connected \cup {None} => copy[c].task \in lost
       /\ copy[c].place = "ack" => Safe(copy[c].task)
CopyInv == \A c \in Copy : CopyOK(c)

SentInv == \A p \in sent : batch[p] # <<>> /\ Published(Head(batch[p]))

TaskInv == \A t \in Task : row[t] # "NONE" => Holds(outbox, t) \/ Live(t) \/ Safe(t)

DownInv == \A w \in Worker : worker[w].mode = "down" => worker[w] = Down

Counts(w) ==
    LET n == Cardinality(At(w, InGoroutine)) IN
    /\ worker[w].sem = n + Cardinality(At(w, {"spawn"})) + worker[w].ending
    /\ worker[w].wg = n + worker[w].ending + worker[w].leaving
CountInv == \A w \in Worker : Counts(w)

IInv == TypeOK /\ MessageInv /\ CopyInv /\ SentInv /\ TaskInv /\ DeadLettersKept /\ DownInv /\ CountInv

-----------------------------------------------------------------------------
(* Sequences of messages.                                                  *)

\* RemoveAt moves what comes after the removed row up.
LEMMA RemovedPlace ==
    ASSUME NEW s \in Seq(Message), NEW k \in 1..Len(s)
    PROVE  /\ RemoveAt(s, k) \in Seq(Message) /\ Len(RemoveAt(s, k)) = Len(s) - 1
           /\ \A i \in 1..(Len(s) - 1) : RemoveAt(s, k)[i] = IF i < k THEN s[i] ELSE s[i + 1]
<1> DEFINE a == SubSeq(s, 1, k - 1)
           b == SubSeq(s, k + 1, Len(s))
<1>0. Len(s) \in Nat /\ k \in Nat /\ k >= 1 /\ k <= Len(s)
  BY LenProperties
<1>1. \A i \in 1..Len(s) : s[i] \in Message
  BY ElementOfSeq
<1>2. a \in Seq(Message) /\ Len(a) = k - 1 /\ \A i \in 1..(k - 1) : a[i] = s[i]
  <2>1. \A i \in 1..(k - 1) : s[i] \in Message
    BY <1>0, <1>1
  <2>2. /\ a \in Seq(Message)
        /\ Len(a) = IF 1 <= k - 1 THEN k - 1 - 1 + 1 ELSE 0
        /\ \A i \in 1..(k - 1 - 1 + 1) : a[i] = s[1 + i - 1]
    BY <1>0, <2>1, SubSeqProperties
  <2> HIDE DEF a
  <2>3. \A i \in 1..(k - 1) : 1 + i - 1 = i
    OBVIOUS
  <2> QED
    BY <1>0, <2>2, <2>3
<1>3. b \in Seq(Message) /\ Len(b) = Len(s) - k /\ \A i \in 1..(Len(s) - k) : b[i] = s[k + i]
  <2>1. \A i \in (k + 1)..Len(s) : s[i] \in Message
    BY <1>0, <1>1
  <2>2. /\ b \in Seq(Message)
        /\ Len(b) = IF k + 1 <= Len(s) THEN Len(s) - (k + 1) + 1 ELSE 0
        /\ \A i \in 1..(Len(s) - (k + 1) + 1) : b[i] = s[k + 1 + i - 1]
    BY <1>0, <2>1, SubSeqProperties
  <2> HIDE DEF b
  <2>3. \A i \in 1..(Len(s) - k) : k + 1 + i - 1 = k + i
    BY <1>0
  <2> QED
    BY <1>0, <2>2, <2>3
<1> HIDE DEF a, b
<1>4. /\ a \o b \in Seq(Message)
      /\ Len(a \o b) = Len(s) - 1
      /\ \A i \in 1..(Len(s) - 1) : (a \o b)[i] = IF i <= k - 1 THEN a[i] ELSE b[i - (k - 1)]
  <2>1. /\ a \o b \in Seq(Message)
        /\ Len(a \o b) = Len(a) + Len(b)
        /\ \A i \in 1..(Len(a) + Len(b)) : (a \o b)[i] = IF i <= Len(a) THEN a[i] ELSE b[i - Len(a)]
    BY <1>2, <1>3, ConcatProperties
  <2>2. Len(a) + Len(b) = Len(s) - 1
    BY <1>0, <1>2, <1>3
  <2> QED
    BY <2>1, <2>2, <1>2
<1>5. RemoveAt(s, k) = a \o b
  BY DEF RemoveAt, a, b
<1>6. ASSUME NEW i \in 1..(Len(s) - 1) PROVE (a \o b)[i] = IF i < k THEN s[i] ELSE s[i + 1]
  <2>1. CASE i < k
    <3>1. i \in 1..(k - 1) /\ i <= k - 1
      BY <1>0, <2>1
    <3> QED
      BY <1>2, <1>4, <2>1, <3>1
  <2>2. CASE ~ (i < k)
    <3>1. i - (k - 1) \in 1..(Len(s) - k) /\ ~ (i <= k - 1) /\ k + (i - (k - 1)) = i + 1
      BY <1>0, <2>2
    <3>2. (a \o b)[i] = b[i - (k - 1)]
      BY <1>4, <3>1
    <3>3. b[i - (k - 1)] = s[k + (i - (k - 1))]
      BY <1>3, <3>1
    <3> QED
      BY <2>2, <3>1, <3>2, <3>3
  <2> QED
    BY <2>1, <2>2
<1> QED
  BY <1>4, <1>5, <1>6

\* What DeleteRow leaves of the outbox, and what it takes out.
LEMMA RemovedRow ==
    ASSUME NEW s \in Seq(Message), NEW k \in 1..Len(s)
    PROVE  /\ RemoveAt(s, k) \in Seq(Message)
           /\ \A i \in 1..Len(RemoveAt(s, k)) : \E j \in 1..Len(s) : RemoveAt(s, k)[i] = s[j]
           /\ \A j \in 1..Len(s) : j # k => \E i \in 1..Len(RemoveAt(s, k)) : RemoveAt(s, k)[i] = s[j]
<1> DEFINE u == RemoveAt(s, k)
<1>0. Len(s) \in Nat /\ k \in Nat /\ k >= 1 /\ k <= Len(s)
  BY LenProperties
<1>1. /\ u \in Seq(Message) /\ Len(u) = Len(s) - 1
      /\ \A i \in 1..(Len(s) - 1) : u[i] = IF i < k THEN s[i] ELSE s[i + 1]
  BY RemovedPlace
<1> HIDE DEF u
<1>2. ASSUME NEW i \in 1..(Len(s) - 1) PROVE \E j \in 1..Len(s) : u[i] = s[j]
  <2>1. i \in 1..Len(s) /\ i + 1 \in 1..Len(s)
    BY <1>0
  <2> QED
    BY <1>1, <2>1
<1>3. ASSUME NEW j \in 1..Len(s), j # k PROVE \E i \in 1..(Len(s) - 1) : u[i] = s[j]
  <2>1. CASE j < k
    <3>1. j \in 1..(Len(s) - 1)
      BY <1>0, <2>1
    <3> QED
      BY <1>1, <2>1, <3>1
  <2>2. CASE ~ (j < k)
    <3>1. j - 1 \in 1..(Len(s) - 1) /\ ~ (j - 1 < k) /\ j - 1 + 1 = j
      BY <1>0, <1>3, <2>2
    <3>2. u[j - 1] = s[j - 1 + 1]
      BY <1>1, <3>1
    <3> QED
      BY <3>1, <3>2
  <2> QED
    BY <2>1, <2>2
<1> QED
  BY <1>1, <1>2, <1>3 DEF u

\* What a poll reads.
LEMMA FirstRows ==
    ASSUME NEW s \in Seq(Message), NEW n \in Nat, n <= Len(s)
    PROVE  /\ SubSeq(s, 1, n) \in Seq(Message)
           /\ \A i \in 1..Len(SubSeq(s, 1, n)) : i \in 1..Len(s) /\ SubSeq(s, 1, n)[i] = s[i]
<1>0. Len(s) \in Nat
  BY LenProperties
<1>1. \A i \in 1..n : i \in 1..Len(s) /\ s[i] \in Message
  BY <1>0, ElementOfSeq
<1>2. /\ SubSeq(s, 1, n) \in Seq(Message)
      /\ Len(SubSeq(s, 1, n)) = IF 1 <= n THEN n - 1 + 1 ELSE 0
      /\ \A i \in 1..(n - 1 + 1) : SubSeq(s, 1, n)[i] = s[1 + i - 1]
  BY <1>1, SubSeqProperties
<1>3. Len(SubSeq(s, 1, n)) = n /\ \A i \in 1..n : i \in 1..(n - 1 + 1) /\ 1 + i - 1 = i
  BY <1>2
<1> QED
  BY <1>1, <1>2, <1>3

\* The tail of a batch holds nothing new.
LEMMA TailOf ==
    ASSUME NEW s \in Seq(Message), s # <<>>
    PROVE  /\ Head(s) \in Message /\ Head(s) = s[1] /\ 1 \in 1..Len(s)
           /\ Tail(s) \in Seq(Message)
           /\ \A i \in 1..Len(Tail(s)) : i + 1 \in 1..Len(s) /\ Tail(s)[i] = s[i + 1]
<1>1. Len(s) \in Nat \ {0}
  BY EmptySeq
<1>2. /\ Head(s) \in Message
      /\ Tail(s) \in Seq(Message)
      /\ Len(Tail(s)) = Len(s) - 1
      /\ \A i \in 1..Len(Tail(s)) : Tail(s)[i] = s[i + 1]
  BY HeadTailProperties
<1> QED
  BY <1>1, <1>2

\* What a commit adds to the outbox.
LEMMA AddedRow ==
    ASSUME NEW s \in Seq(Message), NEW m \in Message
    PROVE  /\ \A i \in 1..Len(s) : i \in 1..Len(Append(s, m)) /\ Append(s, m)[i] = s[i]
           /\ \A i \in 1..Len(Append(s, m)) : i \in 1..Len(s) \/ Append(s, m)[i] = m
           /\ \E i \in 1..Len(Append(s, m)) : Append(s, m)[i] = m
<1>1. /\ Len(Append(s, m)) = Len(s) + 1
      /\ \A i \in 1..Len(s) : Append(s, m)[i] = s[i]
      /\ Append(s, m)[Len(s) + 1] = m
  BY AppendProperties
<1>2. Len(s) \in Nat
  BY LenProperties
<1>3. \A i \in 1..Len(s) : i \in 1..Len(Append(s, m))
  BY <1>1, <1>2
<1>4. \A i \in 1..Len(Append(s, m)) : i \in 1..Len(s) \/ i = Len(s) + 1
  BY <1>1, <1>2
<1>5. Len(s) + 1 \in 1..Len(Append(s, m))
  BY <1>1, <1>2
<1> QED
  BY <1>1, <1>3, <1>4, <1>5

-----------------------------------------------------------------------------
(* Types.                                                                  *)

CopyRecord == [place : Place, task : Task \cup {None}, at : Worker \cup {None}]

WorkerRecord == [mode : Mode, consumes : SUBSET Activity, loops : SUBSET Activity,
                 sem : 0..Slots, wg : Nat, ending : Nat, leaving : Nat]

LEMMA WorkerRecords ==
    /\ TypeOK => worker \in [Worker -> WorkerRecord]
    /\ \A mode \in Mode, S \in SUBSET Activity : Idle(mode, S) \in WorkerRecord
    /\ Down \in WorkerRecord /\ \A S \in SUBSET Activity : Up(S) \in WorkerRecord
<1>1. 0 \in 0..Slots
  BY BoundAssumption
<1>2. \A mode \in Mode, S \in SUBSET Activity : Idle(mode, S) \in WorkerRecord
  BY <1>1 DEF Idle, WorkerRecord
<1> QED
  BY <1>2 DEF TypeOK, WorkerRecord, Down, Up, Mode

LEMMA CopyRecords ==
    /\ TypeOK => copy \in [Copy -> CopyRecord]
    /\ Free \in CopyRecord
    /\ \A place \in Place, t \in Task \cup {None}, w \in Worker \cup {None} :
          [place |-> place, task |-> t, at |-> w] \in CopyRecord
  BY DEF TypeOK, CopyRecord, Free, Place

LEMMA CopyUpdate ==
    ASSUME TypeOK, NEW c \in Copy, NEW r \in CopyRecord, copy' = [copy EXCEPT ![c] = r]
    PROVE  /\ copy' \in [Copy -> CopyRecord]
           /\ copy'[c] = r
           /\ \A d \in Copy : d # c => copy'[d] = copy[d]
<1>1. copy \in [Copy -> CopyRecord]
  BY CopyRecords
<1> QED
  BY <1>1

LEMMA InitTypeOK == Init => TypeOK
<1>1. <<>> \in Seq(Message)
  BY EmptySeq
<1>2. 0 \in 0..Slots /\ 0 \in 0..MaxFaults
  BY BoundAssumption
<1>3. Free \in CopyRecord
  BY CopyRecords
<1>4. Down \in WorkerRecord
  BY WorkerRecords
<1> HIDE DEF Free, Down
<1> QED
  BY <1>1, <1>2, <1>3, <1>4, TaskAssumption DEF Init, TypeOK, Row, CopyRecord, WorkerRecord

LEMMA FaultType == TypeOK /\ (Fault \/ UNCHANGED faults) => faults' \in 0..MaxFaults
  BY BoundAssumption DEF TypeOK, Fault

LEMMA MoveType ==
    ASSUME TypeOK, NEW c \in Copy, NEW place \in Place, MoveCopy(c, place)
    PROVE  /\ copy' \in [Copy -> CopyRecord]
           /\ copy'[c].place = place /\ copy'[c].task = copy[c].task /\ copy'[c].at = copy[c].at
           /\ \A d \in Copy : d # c => copy'[d] = copy[d]
<1>1. copy \in [Copy -> CopyRecord]
  BY CopyRecords
<1>2. copy[c].task \in Task \cup {None} /\ copy[c].at \in Worker \cup {None}
  BY <1>1 DEF CopyRecord
<1> QED
  BY <1>1, <1>2 DEF MoveCopy, CopyRecord

LEMMA RequeuedType ==
    ASSUME TypeOK, NEW c \in Copy
    PROVE  /\ Requeued(c) \in CopyRecord
           /\ Free \in CopyRecord
           /\ Requeued(c) = IF copy[c].at \in connected
                            THEN [place |-> "queue", task |-> copy[c].task, at |-> None] ELSE Free
<1>1. copy[c] \in CopyRecord
  BY CopyRecords
<1>2. copy[c].task \in Task \cup {None} /\ "queue" \in Place
  BY <1>1 DEF CopyRecord, Place
<1> QED
  BY <1>2, CopyRecords DEF Requeued

LEMMA EnqueueType ==
    ASSUME TypeOK, NEW m \in Message, Enqueue(m)
    PROVE  /\ copy' \in [Copy -> CopyRecord]
           /\ lost' \subseteq Task
<1>1. m.task \in Task /\ Routed(m.tier) \in Place
  BY DEF Message, Tier, Routed, Place
<1>2. [place |-> Routed(m.tier), task |-> m.task, at |-> None] \in CopyRecord
  BY <1>1, CopyRecords
<1>3. CASE Bound(m)
  <2>1. PICK c \in Copy : copy' = [copy EXCEPT ![c] = [place |-> Routed(m.tier), task |-> m.task, at |-> None]]
    BY <1>3 DEF Enqueue
  <2> QED
    BY <1>2, <1>3, <2>1, CopyUpdate DEF Enqueue, TypeOK
<1>4. CASE ~ Bound(m)
  BY <1>1, <1>4, CopyRecords DEF Enqueue, TypeOK
<1> QED
  BY <1>3, <1>4

\* Delivered to w, the copy keeps its task.
LEMMA DeliverType ==
    ASSUME TypeOK, NEW c \in Copy, NEW w \in Worker, Deliver(c, w)
    PROVE  /\ copy' \in [Copy -> CopyRecord]
           /\ copy'[c] = [place |-> "channel", task |-> copy[c].task, at |-> w]
           /\ \A d \in Copy : d # c => copy'[d] = copy[d]
<1> DEFINE r == [place |-> "channel", task |-> copy[c].task, at |-> w]
<1>1. copy[c] \in CopyRecord /\ copy \in [Copy -> CopyRecord]
  BY CopyRecords
<1>2. copy[c].task \in Task \cup {None} /\ "channel" \in Place
  BY <1>1 DEF CopyRecord, Place, AtWorker
<1>3. copy' = [copy EXCEPT ![c] = r]
  BY DEF Deliver
<1>4. r \in CopyRecord
  BY <1>2, CopyRecords
<1> HIDE DEF r
<1>5. /\ copy' \in [Copy -> CopyRecord]
      /\ copy'[c] = r
      /\ \A d \in Copy : d # c => copy'[d] = copy[d]
  BY <1>3, <1>4, CopyUpdate
<1> QED
  BY <1>5 DEF r

\* The slots and counts of a worker, with the bounds the semaphore keeps.
LEMMA CountTypes ==
    ASSUME TypeOK, CountInv, NEW w \in Worker
    PROVE  /\ Cardinality(At(w, InGoroutine)) \in Nat /\ Cardinality(At(w, {"spawn"})) \in Nat
           /\ worker[w].sem \in Nat /\ worker[w].sem <= Slots
           /\ worker[w].ending \in Nat /\ worker[w].leaving \in Nat /\ worker[w].wg \in Nat
           /\ worker[w].sem = Cardinality(At(w, InGoroutine)) + Cardinality(At(w, {"spawn"})) + worker[w].ending
           /\ worker[w].wg = Cardinality(At(w, InGoroutine)) + worker[w].ending + worker[w].leaving
<1>1. At(w, InGoroutine) \in SUBSET Copy /\ At(w, {"spawn"}) \in SUBSET Copy
  BY DEF At
<1>2. IsFiniteSet(At(w, InGoroutine)) /\ IsFiniteSet(At(w, {"spawn"}))
  BY <1>1, ProcessAssumption, FS_Subset
<1>3. Cardinality(At(w, InGoroutine)) \in Nat /\ Cardinality(At(w, {"spawn"})) \in Nat
  BY <1>2, FS_CardinalityType
<1> QED
  BY <1>3, BoundAssumption DEF TypeOK, CountInv, Counts

LEMMA EngineTypeOK ==
    ASSUME TypeOK, NEW t \in Task, Commits(t) PROVE TypeOK'
<1> USE DEF TypeOK
<1>1. ASSUME NEW tier \in Tier PROVE Append(outbox, [task |-> t, tier |-> tier]) \in Seq(Message)
  <2>1. [task |-> t, tier |-> tier] \in Message
    BY DEF Message
  <2> QED
    BY <2>1, AppendProperties
<1>2. "now" \in Tier /\ "later" \in Tier /\ "dlq" \in Tier
  BY DEF Tier
<1>3. ASSUME NEW tier \in {"now", "later"}, Commit(t, tier) PROVE TypeOK'
  BY <1>1, <1>2, <1>3 DEF Commit, Row, broker
<1>4. ASSUME Close(t) PROVE TypeOK'
  BY <1>4 DEF Close, Row, broker
<1>5. ASSUME DeadLetter(t) PROVE TypeOK'
  BY <1>1, <1>2, <1>5 DEF DeadLetter, Row, broker
<1> QED
  BY <1>3, <1>4, <1>5 DEF Commits

LEMMA PublisherTypeOK ==
    ASSUME TypeOK, SentInv, NEW p \in Publisher, Publishing(p) \/ PublishFaults(p) PROVE TypeOK'
<1> USE DEF TypeOK, env, broker
<1>0. batch[p] \in Seq(Message) /\ faults \in 0..MaxFaults
  OBVIOUS
<1>1. batch[p] # <<>> => Head(batch[p]) \in Message /\ Tail(batch[p]) \in Seq(Message)
  BY <1>0, TailOf
<1>2. p \in sent => batch[p] # <<>>
  BY DEF SentInv
<1>3. ASSUME Poll(p) PROVE TypeOK'
  <2> DEFINE n == IF Len(outbox) < BatchLimit THEN Len(outbox) ELSE BatchLimit
  <2>1. n \in Nat /\ n <= Len(outbox)
    BY LenProperties, BoundAssumption
  <2>2. batch' = [batch EXCEPT ![p] = SubSeq(outbox, 1, n)]
         /\ UNCHANGED <<env, sent, broker, copy, worker, faults>>
    BY <1>3 DEF Poll
  <2> HIDE DEF n
  <2>3. SubSeq(outbox, 1, n) \in Seq(Message)
    BY <2>1, FirstRows
  <2> QED
    BY <2>2, <2>3
<1>4. ASSUME Publish(p) PROVE TypeOK'
  <2>1. Enqueue(Head(batch[p])) /\ Head(batch[p]) \in Message
    BY <1>1, <1>4 DEF Publish
  <2>2. /\ copy' \in [Copy -> CopyRecord]
        /\ lost' \subseteq Task
    BY <2>1, EnqueueType
  <2> QED
    BY <1>4, <2>2 DEF Publish, CopyRecord
<1>5. ASSUME Delete(p) PROVE TypeOK'
  <2>1. outbox' \in Seq(Message)
    BY <1>5, RemovedRow DEF Delete, DeleteRow
  <2> QED
    BY <1>1, <1>2, <1>5, <2>1 DEF Delete
<1>6. ASSUME PublishFails(p) PROVE TypeOK'
  <2>1. faults' \in 0..MaxFaults
    BY <1>6, FaultType DEF PublishFails, CallFails
  <2> QED
    BY <1>1, <1>6, <2>1 DEF PublishFails
<1>7. ASSUME DeleteFails(p) PROVE TypeOK'
  <2>1. faults' \in 0..MaxFaults
    BY <1>7, FaultType DEF DeleteFails
  <2> QED
    BY <1>1, <1>2, <1>7, <2>1 DEF DeleteFails
<1>8. ASSUME PublisherCrash(p) PROVE TypeOK'
  <2>1. faults' \in 0..MaxFaults
    BY <1>8, FaultType DEF PublisherCrash
  <2>2. <<>> \in Seq(Message)
    BY EmptySeq
  <2> QED
    BY <1>8, <2>1, <2>2 DEF PublisherCrash
<1> QED
  BY <1>3, <1>4, <1>5, <1>6, <1>7, <1>8 DEF Publishing, PublishFaults

LEMMA BrokerTypeOK ==
    ASSUME TypeOK, CopyInv,
           \/ BrokerRestart
           \/ \E c \in Copy : Expire(c) \/ \E w \in Worker : Deliver(c, w)
    PROVE  TypeOK'
<1> USE DEF TypeOK, env, broker
<1>1. ASSUME BrokerRestart PROVE TypeOK'
  <2>1. faults' \in 0..MaxFaults
    BY <1>1, FaultType DEF BrokerRestart
  <2>2. copy' \in [Copy -> CopyRecord]
    BY <1>1, CopyRecords DEF BrokerRestart
  <2> QED
    BY <1>1, <2>1, <2>2 DEF BrokerRestart, CopyRecord
<1>2. ASSUME NEW c \in Copy, Expire(c) PROVE TypeOK'
  <2>1. "queue" \in Place /\ copy[c].place = "parked"
    BY <1>2 DEF Expire, Place
  <2>2. copy[c].task \in Task
    BY <2>1 DEF CopyInv, CopyOK, Free
  <2>3. CASE MoveCopy(c, "queue") /\ UNCHANGED lost
    <3>1. copy' \in [Copy -> CopyRecord]
      BY <2>1, <2>3, MoveType
    <3> QED
      BY <1>2, <2>3, <3>1 DEF Expire, CopyRecord
  <2>4. CASE copy' = [copy EXCEPT ![c] = Free] /\ lost' = lost \cup {copy[c].task}
    <3>1. copy' \in [Copy -> CopyRecord]
      BY <2>4, CopyRecords, CopyUpdate
    <3> QED
      BY <1>2, <2>2, <2>4, <3>1 DEF Expire, CopyRecord
  <2> QED
    BY <1>2, <2>3, <2>4 DEF Expire
<1>3. ASSUME NEW c \in Copy, NEW w \in Worker, Deliver(c, w) PROVE TypeOK'
  BY <1>3, DeliverType DEF Deliver, CopyRecord
<1> QED
  BY <1>1, <1>2, <1>3

LEMMA GoroutineTypeOK ==
    ASSUME TypeOK, CopyInv, CountInv, NEW c \in Copy, NEW w \in Worker,
           Acquire(c, w) \/ Goroutine(c, w) \/ LoopReturnsDelivery(w, c)
    PROVE  TypeOK'
<1> USE DEF env, broker
<1>0. /\ AtWorker \subseteq Place /\ copy \in [Copy -> CopyRecord]
      /\ \A place \in AtWorker : MoveCopy(c, place) => copy' \in [Copy -> CopyRecord]
  BY MoveType, CopyRecords DEF Place
<1>1. copy[c].at = w /\ copy[c].place \in AtWorker => copy[c].task \in Task
  BY DEF CopyInv, CopyOK, Free, AtWorker, InGoroutine
<1>2. ASSUME copy[c].task \in Task PROVE [starts EXCEPT ![copy[c].task] = @ + 1] \in [Task -> Nat]
  BY <1>2 DEF TypeOK
<1>3. /\ worker[w].sem \in Nat /\ worker[w].sem <= Slots /\ Slots \in Nat
      /\ worker[w].ending \in Nat /\ worker[w].wg \in Nat
  BY CountTypes, BoundAssumption
<1>4. worker \in [Worker -> WorkerRecord]
  BY WorkerRecords
<1>5. ASSUME Acquire(c, w) PROVE TypeOK'
  <2>1. copy' \in [Copy -> CopyRecord]
    BY <1>0, <1>5 DEF Acquire, AtWorker
  <2>2. worker[w].sem + 1 \in 0..Slots
    BY <1>3, <1>5 DEF Acquire
  <2>3. worker' \in [Worker -> WorkerRecord]
    BY <1>4, <1>5, <2>2 DEF Acquire, WorkerRecord
  <2> QED
    BY <1>5, <2>1, <2>3 DEF Acquire, TypeOK, CopyRecord, WorkerRecord
<1>6. ASSUME Spawn(c, w) PROVE TypeOK'
  <2>1. copy' \in [Copy -> CopyRecord]
    BY <1>0, <1>6 DEF Spawn, AtWorker, InGoroutine
  <2>2. worker[w].wg + 1 \in Nat
    BY <1>3
  <2>3. worker' \in [Worker -> WorkerRecord]
    BY <1>4, <1>6, <2>2 DEF Spawn, WorkerRecord
  <2> QED
    BY <1>6, <2>1, <2>3 DEF Spawn, TypeOK, CopyRecord, WorkerRecord
<1>7. ASSUME CheckDuplicate(c, w) PROVE TypeOK'
  <2>1. copy' \in [Copy -> CopyRecord]
    BY <1>0, <1>7 DEF CheckDuplicate, AtWorker, InGoroutine
  <2>2. starts' \in [Task -> Nat]
    BY <1>1, <1>2, <1>7 DEF CheckDuplicate, TypeOK, AtWorker, InGoroutine
  <2> QED
    BY <1>7, <2>1, <2>2 DEF CheckDuplicate, TypeOK, CopyRecord
<1>8. ASSUME CheckFails(c, w) PROVE TypeOK'
  <2>1. copy' \in [Copy -> CopyRecord]
    BY <1>0, <1>8 DEF CheckFails, AtWorker, InGoroutine
  <2>2. starts' \in [Task -> Nat]
    BY <1>1, <1>2, <1>8 DEF CheckFails, AtWorker, InGoroutine
  <2>3. faults' \in 0..MaxFaults
    BY <1>8, FaultType DEF CheckFails
  <2> QED
    BY <1>8, <2>1, <2>2, <2>3 DEF CheckFails, TypeOK, CopyRecord
<1>9. ASSUME HandlerReturns(c, w) PROVE TypeOK'
  <2>1. copy' \in [Copy -> CopyRecord]
    BY <1>0, <1>9 DEF HandlerReturns, AtWorker, InGoroutine
  <2> QED
    BY <1>9, <2>1 DEF HandlerReturns, TypeOK, CopyRecord
<1>10. ASSUME PublishResult(c, w) PROVE TypeOK'
  <2>1. copy' \in [Copy -> CopyRecord]
    BY <1>0, <1>10 DEF PublishResult, AtWorker, InGoroutine
  <2>2. reported' \subseteq Task
    BY <1>1, <1>10 DEF PublishResult, TypeOK, AtWorker, InGoroutine
  <2> QED
    BY <1>10, <2>1, <2>2 DEF PublishResult, TypeOK, CopyRecord
<1>11. ASSUME PublishResultFails(c, w) PROVE TypeOK'
  <2>1. copy' \in [Copy -> CopyRecord]
    BY <1>0, <1>11 DEF PublishResultFails, AtWorker, InGoroutine
  <2>2. faults' \in 0..MaxFaults
    BY <1>11, FaultType DEF PublishResultFails, CallFails
  <2> QED
    BY <1>11, <2>1, <2>2 DEF PublishResultFails, TypeOK, CopyRecord
<1>12. Free \in CopyRecord /\ Requeued(c) \in CopyRecord
  BY RequeuedType
<1>13. ASSUME Acknowledge(c, w) PROVE TypeOK'
  <2>1. copy' \in [Copy -> CopyRecord]
    BY <1>0, <1>12, <1>13 DEF Acknowledge
  <2>2. worker[w].ending + 1 \in Nat
    BY <1>3
  <2>3. worker' \in [Worker -> WorkerRecord]
    BY <1>4, <1>13, <2>2 DEF Acknowledge, WorkerRecord
  <2> QED
    BY <1>13, <2>1, <2>3 DEF Acknowledge, TypeOK, CopyRecord, WorkerRecord
<1>14. ASSUME LoopReturnsDelivery(w, c) PROVE TypeOK'
  <2>1. copy' \in [Copy -> CopyRecord]
    BY <1>0, <1>12, <1>14 DEF LoopReturnsDelivery
  <2>2. worker' \in [Worker -> WorkerRecord]
    BY <1>4, <1>14 DEF LoopReturnsDelivery, WorkerRecord
  <2> QED
    BY <1>14, <2>1, <2>2 DEF LoopReturnsDelivery, TypeOK, CopyRecord, WorkerRecord
<1> QED
  BY <1>5, <1>6, <1>7, <1>8, <1>9, <1>10, <1>11, <1>13, <1>14 DEF Goroutine

LEMMA ProcessTypeOK ==
    ASSUME TypeOK, CountInv, NEW w \in Worker,
           \/ Start(w) \/ StartPartly(w) \/ Process(w) \/ Stop(w) \/ WorkerCrash(w)
           \/ \E a \in Activity : LoopEnds(w, a)
    PROVE  TypeOK'
<1> USE DEF env, broker
<1>0. /\ worker[w].sem \in Nat /\ worker[w].sem <= Slots /\ Slots \in Nat
      /\ worker[w].ending \in Nat /\ worker[w].wg \in Nat /\ worker[w].leaving \in Nat
      /\ worker[w].sem >= worker[w].ending /\ worker[w].wg >= worker[w].leaving
  BY CountTypes, BoundAssumption
<1>1. worker \in [Worker -> WorkerRecord] /\ copy \in [Copy -> CopyRecord]
  BY CopyRecords, WorkerRecords
<1>2. Down \in WorkerRecord /\ \A S \in SUBSET Activity : Up(S) \in WorkerRecord
  BY WorkerRecords
<1>3. ASSUME Start(w) PROVE TypeOK'
  <2>1. Up(Activity) \in WorkerRecord
    BY <1>2
  <2>2. worker' \in [Worker -> WorkerRecord]
    BY <1>1, <1>3, <2>1 DEF Start
  <2> QED
    BY <1>3, <2>2 DEF Start, TypeOK, WorkerRecord
<1>4. ASSUME StartPartly(w) PROVE TypeOK'
  <2>1. PICK served \in SUBSET Activity \ {Activity}, registered \in SUBSET Activity :
            /\ declared' = declared \cup registered
            /\ worker' = [worker EXCEPT ![w] = Up(served)]
    BY <1>4 DEF StartPartly
  <2>2. Up(served) \in WorkerRecord
    BY <1>2
  <2>3. worker' \in [Worker -> WorkerRecord]
    BY <1>1, <2>1, <2>2
  <2>4. faults' \in 0..MaxFaults
    BY <1>4, FaultType DEF StartPartly
  <2> QED
    BY <1>4, <2>1, <2>3, <2>4 DEF StartPartly, TypeOK, WorkerRecord
<1>5. ASSUME ReleaseSlot(w) PROVE TypeOK'
  <2>1. worker[w].ending - 1 \in Nat /\ worker[w].leaving + 1 \in Nat /\ worker[w].sem - 1 \in 0..Slots
    BY <1>0, <1>5 DEF ReleaseSlot, WorkerRecord
  <2>2. worker' \in [Worker -> WorkerRecord]
    BY <1>1, <1>5, <2>1 DEF ReleaseSlot, WorkerRecord
  <2> QED
    BY <1>5, <2>2 DEF ReleaseSlot, TypeOK, WorkerRecord
<1>6. ASSUME LeaveGroup(w) PROVE TypeOK'
  <2>1. worker[w].leaving - 1 \in Nat /\ worker[w].wg - 1 \in Nat
    BY <1>0, <1>6 DEF LeaveGroup, WorkerRecord
  <2>2. worker' \in [Worker -> WorkerRecord]
    BY <1>1, <1>6, <2>1 DEF LeaveGroup, WorkerRecord
  <2> QED
    BY <1>6, <2>2 DEF LeaveGroup, TypeOK, WorkerRecord
<1>7. ASSUME Drained(w) PROVE TypeOK'
  <2>1. worker' \in [Worker -> WorkerRecord]
    BY <1>1, <1>7 DEF Drained, Mode, WorkerRecord
  <2> QED
    BY <1>7, <2>1 DEF Drained, TypeOK, WorkerRecord
<1>8. ASSUME Stop(w) PROVE TypeOK'
  <2>1. worker' \in [Worker -> WorkerRecord]
    BY <1>1, <1>8 DEF Stop, Mode, WorkerRecord
  <2>2. faults' \in 0..MaxFaults
    BY <1>8, FaultType DEF Stop
  <2> QED
    BY <1>8, <2>1, <2>2 DEF Stop, TypeOK, WorkerRecord
<1>9. ASSUME Exit(w) \/ WorkerCrash(w) PROVE TypeOK'
  <2>1. worker' \in [Worker -> WorkerRecord]
    BY <1>1, <1>2, <1>9 DEF Exit, WorkerCrash, Gone
  <2>2. faults' \in 0..MaxFaults
    BY <1>9, FaultType DEF Exit, WorkerCrash
  <2>3. \A c \in Copy : Requeued(c) \in CopyRecord
    BY RequeuedType
  <2>4. copy' \in [Copy -> CopyRecord]
    BY <1>1, <1>9, <2>3 DEF Exit, WorkerCrash, Gone
  <2> QED
    BY <1>9, <2>1, <2>2, <2>4 DEF Exit, WorkerCrash, Gone, TypeOK, CopyRecord, WorkerRecord
<1>10. ASSUME NEW a \in Activity, LoopEnds(w, a) PROVE TypeOK'
  <2>1. worker' \in [Worker -> WorkerRecord]
    BY <1>1, <1>10 DEF LoopEnds, WorkerRecord
  <2>2. copy' \in [Copy -> CopyRecord]
    BY <1>1, <1>10, CopyRecords DEF LoopEnds, WorkerRecord
  <2> QED
    BY <1>10, <2>1, <2>2 DEF LoopEnds, TypeOK, CopyRecord, WorkerRecord
<1> QED
  BY <1>3, <1>4, <1>5, <1>6, <1>7, <1>8, <1>9, <1>10 DEF Process

LEMMA NextTypeOK == IInv /\ [Next]_vars => TypeOK'
<1>1. ASSUME IInv, UNCHANGED vars PROVE TypeOK'
  BY <1>1 DEF IInv, TypeOK, vars
<1>2. ASSUME IInv, Next PROVE TypeOK'
  BY <1>2, EngineTypeOK, PublisherTypeOK, BrokerTypeOK, GoroutineTypeOK, ProcessTypeOK DEF IInv, Next
<1> QED
  BY <1>1, <1>2

-----------------------------------------------------------------------------
(* What a step of the broker or of a worker keeps.                         *)

\* A dead letter stays; any other copy stays with the broker or a process it knows, unless
\* nobody has to deliver it any more.
CopyKept(c) ==
    \A t \in Task : copy[c].task = t =>
        IF copy[c].place = "dlq"
        THEN copy'[c] = copy[c] \/ t \in lost'
        ELSE copy[c].at \in connected \cup {None} =>
                 \/ Safe(t)'
                 \/ /\ copy'[c].task = t /\ copy'[c].place # "dlq"
                    /\ copy'[c].at \in connected' \cup {None}

LEMMA StepKeeps ==
    ASSUME IInv, UNCHANGED <<row, outbox, batch>>, lost \subseteq lost',
           \A p \in sent' \ sent : batch[p] # <<>> /\ Published(Head(batch[p]))',
           \A t \in Task : Safe(t) => Safe(t)',
           \A c \in Copy : CopyKept(c)
    PROVE  MessageInv' /\ SentInv' /\ TaskInv' /\ DeadLettersKept'
<1>1. MessageInv'
  BY DEF IInv, MessageInv, Due
<1>2. ASSUME NEW t \in Task PROVE Live(t) => Live(t)' \/ Safe(t)'
  BY <1>2 DEF Live, CopyKept
<1>3. ASSUME NEW t \in Task PROVE Buried(t) => Buried(t)'
  BY <1>3 DEF Buried, CopyKept
<1>4. SentInv'
  <2>1. ASSUME NEW m \in Message PROVE Published(m) => Published(m)'
    <3>1. m.task \in Task
      BY DEF Message
    <3> QED
      BY <1>2, <1>3, <3>1 DEF Published
  <2>2. ASSUME NEW p \in sent PROVE batch[p] # <<>> /\ Head(batch[p]) \in Message
         /\ Published(Head(batch[p]))
    <3>1. batch[p] # <<>> /\ Published(Head(batch[p])) /\ batch[p] \in Seq(Message)
      BY DEF IInv, SentInv, TypeOK
    <3> QED
      BY <3>1, TailOf
  <2> QED
    BY <2>1, <2>2 DEF SentInv
<1>5. TaskInv'
  BY <1>2 DEF IInv, TaskInv, Holds
<1>6. DeadLettersKept'
  BY <1>3 DEF IInv, DeadLettersKept, Buried
<1> QED
  BY <1>1, <1>4, <1>5, <1>6

\* A copy that a step does not touch, at a worker that stays up and connected.
LEMMA UntouchedCopy ==
    ASSUME NEW c \in Copy, CopyOK(c), copy'[c] = copy[c], row' = row, lost \subseteq lost',
           \A t \in Task : Safe(t) => Safe(t)',
           copy[c].at # None => /\ worker'[copy[c].at].mode # "down" \/ worker[copy[c].at].mode = "down"
                                /\ copy[c].at \in connected => copy[c].at \in connected'
    PROVE  CopyOK(c)' /\ CopyKept(c)
  BY DEF CopyOK, CopyKept, Free

LEMMA SameCounts ==
    ASSUME NEW v \in Worker, Counts(v),
           worker'[v].sem = worker[v].sem, worker'[v].wg = worker[v].wg,
           worker'[v].ending = worker[v].ending, worker'[v].leaving = worker[v].leaving,
           \A d \in Copy :
              \/ copy'[d] = copy[d]
              \/ /\ ~ (copy[d].at = v /\ copy[d].place \in InGoroutine \cup {"spawn"})
                 /\ ~ (copy'[d].at = v /\ copy'[d].place \in InGoroutine \cup {"spawn"})
              \/ /\ copy'[d].at = copy[d].at
                 /\ copy[d].place \in InGoroutine /\ copy'[d].place \in InGoroutine
    PROVE  Counts(v)'
<1>1. At(v, InGoroutine)' = At(v, InGoroutine)
  BY DEF At
<1>2. At(v, {"spawn"})' = At(v, {"spawn"})
  BY DEF At, InGoroutine
<1> QED
  BY <1>1, <1>2 DEF Counts

\* The step of a goroutine or a loop that moves the copy it has in hand on.
LEMMA MoveKeeps ==
    ASSUME IInv, NEW c \in Copy, NEW w \in Worker, NEW place \in AtWorker,
           copy[c].at = w, copy[c].place \in AtWorker, MoveCopy(c, place),
           UNCHANGED <<row, outbox, batch, sent, declared, connected, lost>>,
           reported \subseteq reported',
           \A v \in Worker : worker'[v].mode = worker[v].mode,
           \A v \in Worker : v # w => worker'[v] = worker[v],
           \A t \in Task : copy[c].task = t /\ place = "ack" => Safe(t)'
    PROVE  MessageInv' /\ SentInv' /\ TaskInv' /\ DeadLettersKept' /\ CopyInv' /\ DownInv'
<1>1. /\ copy'[c].place = place /\ copy'[c].task = copy[c].task /\ copy'[c].at = copy[c].at
      /\ \A d \in Copy : d # c => copy'[d] = copy[d]
  BY MoveType DEF IInv, Place
<1>2. \A t \in Task : Safe(t) => Safe(t)'
  BY DEF Safe, Final
<1>3. \A d \in Copy : CopyOK(d)
  BY DEF IInv, CopyInv
<1>4. place # "free" /\ place # "dlq" /\ copy[c].place # "free" /\ copy[c].place # "dlq"
  BY DEF AtWorker, InGoroutine
<1>5. ASSUME NEW d \in Copy PROVE CopyOK(d)' /\ CopyKept(d)
  <2>1. CASE d = c
    <3>1. copy[c].task \in Task /\ copy[c].at # None
      BY <1>3, <1>4 DEF CopyOK, Free
    <3>2. CopyOK(c)'
      BY <1>1, <1>3, <1>4, <3>1, <1>2 DEF CopyOK, Free
    <3>3. CopyKept(c)
      BY <1>1, <1>4 DEF CopyKept
    <3> QED
      BY <2>1, <3>2, <3>3
  <2>2. CASE d # c
    <3>1. copy[d].at # None => copy[d].at \in Worker
      BY CopyRecords DEF IInv, CopyRecord
    <3> QED
      BY <1>1, <1>2, <1>3, <2>2, <3>1, UntouchedCopy
  <2> QED
    BY <2>1, <2>2
<1>6. DownInv'
  <2>1. worker[w].mode # "down"
    BY <1>3, <1>4, BoundAssumption DEF CopyOK, Free
  <2> QED
    BY <2>1 DEF IInv, DownInv
<1> QED
  BY <1>2, <1>5, <1>6, StepKeeps DEF CopyInv

-----------------------------------------------------------------------------
(* Loops and goroutines.                                                   *)

LEMMA CountsOfOthers ==
    ASSUME CountInv, NEW w \in Worker, Counts(w)',
           \A v \in Worker : v # w => worker'[v] = worker[v],
           \A d \in Copy : copy'[d] = copy[d] \/ (copy[d].at \in {w, None} /\ copy'[d].at \in {w, None})
    PROVE  CountInv'
<1>1. ASSUME NEW v \in Worker, v # w PROVE Counts(v)'
  <2>1. Counts(v) /\ None # v
    BY BoundAssumption DEF CountInv
  <2> QED
    BY <1>1, <2>1, SameCounts
<1> QED
  BY <1>1 DEF CountInv

\* A copy that enters or leaves one of the two sets that are counted.
LEMMA CountOneMore ==
    ASSUME NEW S, NEW T, NEW c, S \subseteq Copy, c \notin S, T = S \cup {c}
    PROVE  Cardinality(T) = Cardinality(S) + 1
<1>1. IsFiniteSet(S)
  BY ProcessAssumption, FS_Subset
<1> QED
  BY <1>1, FS_AddElement

LEMMA AcquireKeeps ==
    ASSUME IInv, NEW c \in Copy, NEW w \in Worker, Acquire(c, w)
    PROVE  MessageInv' /\ SentInv' /\ TaskInv' /\ DeadLettersKept' /\ CopyInv' /\ DownInv' /\ CountInv'
<1>1. worker \in [Worker -> WorkerRecord]
  BY WorkerRecords DEF IInv
<1>2. /\ worker'[w].sem = worker[w].sem + 1 /\ worker'[w].wg = worker[w].wg
      /\ worker'[w].ending = worker[w].ending /\ worker'[w].leaving = worker[w].leaving
      /\ worker'[w].mode = worker[w].mode
      /\ \A v \in Worker : v # w => worker'[v] = worker[v]
  BY <1>1 DEF Acquire, WorkerRecord
<1>3. /\ copy'[c].place = "spawn" /\ copy'[c].task = copy[c].task /\ copy'[c].at = w /\ copy[c].at = w
      /\ copy[c].place = "channel"
      /\ \A d \in Copy : d # c => copy'[d] = copy[d]
  BY MoveType DEF IInv, Acquire, Place, AtWorker
<1>4. /\ "spawn" \in AtWorker /\ "channel" \in AtWorker /\ "channel" \notin InGoroutine
      /\ "spawn" \notin InGoroutine /\ "spawn" # "ack"
  BY DEF AtWorker, InGoroutine
<1>5. MessageInv' /\ SentInv' /\ TaskInv' /\ DeadLettersKept' /\ CopyInv' /\ DownInv'
  <2>1. \A v \in Worker : worker'[v].mode = worker[v].mode
    BY <1>2
  <2> QED
    BY <1>2, <1>3, <1>4, <2>1, MoveKeeps DEF Acquire, broker, env
<1>6. Counts(w)'
  <2>1. At(w, InGoroutine)' = At(w, InGoroutine)
    BY <1>3, <1>4 DEF At
  <2>2. At(w, {"spawn"})' = At(w, {"spawn"}) \cup {c} /\ c \notin At(w, {"spawn"})
         /\ At(w, {"spawn"}) \subseteq Copy
    BY <1>3 DEF At
  <2>3. Cardinality(At(w, {"spawn"})') = Cardinality(At(w, {"spawn"})) + 1
    BY <2>2, CountOneMore
  <2> QED
    BY <1>2, <2>1, <2>3, CountTypes DEF IInv, Counts
<1>7. CountInv'
  <2>1. \A d \in Copy : copy'[d] = copy[d] \/ (copy[d].at \in {w, None} /\ copy'[d].at \in {w, None})
    BY <1>3
  <2>2. CountInv /\ \A v \in Worker : v # w => worker'[v] = worker[v]
    BY <1>2 DEF IInv
  <2> QED
    BY <1>6, <2>1, <2>2, CountsOfOthers
<1> QED
  BY <1>5, <1>7

LEMMA SpawnKeeps ==
    ASSUME IInv, NEW c \in Copy, NEW w \in Worker, Spawn(c, w)
    PROVE  MessageInv' /\ SentInv' /\ TaskInv' /\ DeadLettersKept' /\ CopyInv' /\ DownInv' /\ CountInv'
<1>1. worker \in [Worker -> WorkerRecord]
  BY WorkerRecords DEF IInv
<1>2. /\ worker'[w].sem = worker[w].sem /\ worker'[w].wg = worker[w].wg + 1
      /\ worker'[w].ending = worker[w].ending /\ worker'[w].leaving = worker[w].leaving
      /\ worker'[w].mode = worker[w].mode
      /\ \A v \in Worker : v # w => worker'[v] = worker[v]
  BY <1>1 DEF Spawn, WorkerRecord
<1>3. /\ copy'[c].place = "check" /\ copy'[c].task = copy[c].task /\ copy'[c].at = w /\ copy[c].at = w
      /\ copy[c].place = "spawn"
      /\ \A d \in Copy : d # c => copy'[d] = copy[d]
  BY MoveType DEF IInv, Spawn, Place, AtWorker, InGoroutine
<1>4. /\ "spawn" \in AtWorker /\ "check" \in AtWorker /\ "check" \in InGoroutine
      /\ "spawn" \notin InGoroutine /\ "check" # "ack"
  BY DEF AtWorker, InGoroutine
<1>5. MessageInv' /\ SentInv' /\ TaskInv' /\ DeadLettersKept' /\ CopyInv' /\ DownInv'
  <2>1. \A v \in Worker : worker'[v].mode = worker[v].mode
    BY <1>2
  <2> QED
    BY <1>2, <1>3, <1>4, <2>1, MoveKeeps DEF Spawn, broker, env
<1>6. Counts(w)'
  <2>1. /\ At(w, InGoroutine)' = At(w, InGoroutine) \cup {c}
        /\ c \notin At(w, InGoroutine) /\ At(w, InGoroutine) \subseteq Copy
    BY <1>3, <1>4 DEF At
  <2>2. /\ At(w, {"spawn"}) = At(w, {"spawn"})' \cup {c}
        /\ c \notin At(w, {"spawn"})' /\ At(w, {"spawn"})' \subseteq Copy
    BY <1>3 DEF At
  <2>3. Cardinality(At(w, InGoroutine)') = Cardinality(At(w, InGoroutine)) + 1
    BY <2>1, CountOneMore
  <2>4. Cardinality(At(w, {"spawn"})) = Cardinality(At(w, {"spawn"})') + 1
    BY <2>2, CountOneMore
  <2>5. Cardinality(At(w, {"spawn"})') \in Nat
    BY <2>2, ProcessAssumption, FS_Subset, FS_CardinalityType
  <2> QED
    BY <1>2, <2>3, <2>4, <2>5, CountTypes DEF IInv, Counts
<1>7. CountInv'
  <2>1. \A d \in Copy : copy'[d] = copy[d] \/ (copy[d].at \in {w, None} /\ copy'[d].at \in {w, None})
    BY <1>3
  <2>2. CountInv /\ \A v \in Worker : v # w => worker'[v] = worker[v]
    BY <1>2 DEF IInv
  <2> QED
    BY <1>6, <2>1, <2>2, CountsOfOthers
<1> QED
  BY <1>5, <1>7

\* The steps of a goroutine between its start and its end.
LEMMA RunKeeps ==
    ASSUME IInv, NEW c \in Copy, NEW w \in Worker,
           \/ CheckDuplicate(c, w) \/ CheckFails(c, w) \/ HandlerReturns(c, w)
           \/ PublishResult(c, w) \/ PublishResultFails(c, w)
    PROVE  MessageInv' /\ SentInv' /\ TaskInv' /\ DeadLettersKept' /\ CopyInv' /\ DownInv' /\ CountInv'
<1>1. PICK place \in InGoroutine :
          /\ MoveCopy(c, place)
          /\ \A t \in Task : copy[c].task = t /\ place = "ack" => Safe(t)'
  <2>1. ASSUME CheckDuplicate(c, w), Final(copy[c].task), NEW t \in Task, copy[c].task = t PROVE Safe(t)'
    BY <2>1 DEF CheckDuplicate, Safe, Final
  <2>2. ASSUME PublishResult(c, w), NEW t \in Task, copy[c].task = t PROVE Safe(t)'
    BY <2>2 DEF PublishResult, Safe
  <2>3. "run" \in InGoroutine /\ "publish" \in InGoroutine /\ "ack" \in InGoroutine
         /\ "nack" \in InGoroutine
    BY DEF InGoroutine
  <2>4. CASE CheckDuplicate(c, w)
    BY <2>1, <2>3, <2>4 DEF CheckDuplicate
  <2>5. CASE CheckFails(c, w) \/ HandlerReturns(c, w) \/ PublishResultFails(c, w)
    BY <2>3, <2>5 DEF CheckFails, HandlerReturns, PublishResultFails
  <2>6. CASE PublishResult(c, w)
    BY <2>2, <2>3, <2>6 DEF PublishResult
  <2> QED
    BY <2>4, <2>5, <2>6
<1>2. /\ copy[c].at = w /\ copy[c].place \in InGoroutine /\ reported \subseteq reported'
      /\ UNCHANGED <<row, outbox, batch, sent, declared, connected, lost, worker>>
  BY DEF CheckDuplicate, CheckFails, HandlerReturns, PublishResult, PublishResultFails,
         InGoroutine, broker, env
<1>3. place \in AtWorker /\ copy[c].place \in AtWorker
  BY <1>2 DEF AtWorker
<1>4. /\ copy'[c].place = place /\ copy'[c].at = copy[c].at
      /\ \A d \in Copy : d # c => copy'[d] = copy[d]
  BY <1>1, <1>3, MoveType DEF IInv, Place
<1>5. MessageInv' /\ SentInv' /\ TaskInv' /\ DeadLettersKept' /\ CopyInv' /\ DownInv'
  BY <1>1, <1>2, <1>3, MoveKeeps
<1>6. CountInv'
  <2> SUFFICES ASSUME NEW v \in Worker PROVE Counts(v)'
    BY DEF CountInv
  <2>1. Counts(v)
    BY DEF IInv, CountInv
  <2> QED
    BY <1>2, <1>4, <2>1, SameCounts
<1> QED
  BY <1>5, <1>6

\* A copy that a worker gives back, or drops because it is done with it or cut off.
LEMMA ReturnedCopy ==
    ASSUME TypeOK, NEW c \in Copy, CopyOK(c), copy[c].at # None, row' = row,
           \A t \in Task : Safe(t) => Safe(t)',
           \/ copy'[c] = Requeued(c)
           \/ copy'[c] = Free /\ (copy[c].place = "ack" \/ copy[c].at \notin connected)
    PROVE  CopyOK(c)' /\ CopyKept(c) /\ copy'[c].at = None
<1>1. Requeued(c) = IF copy[c].at \in connected
                    THEN [place |-> "queue", task |-> copy[c].task, at |-> None] ELSE Free
  BY RequeuedType
<1>2. "queue" \notin AtWorker /\ "dlq" \notin AtWorker
  BY DEF AtWorker, InGoroutine
<1>3. copy'[c] = Free \/ copy'[c] = [place |-> "queue", task |-> copy[c].task, at |-> None]
  BY <1>1
<1>4. CopyOK(c)' /\ copy'[c].at = None
  BY <1>2, <1>3 DEF CopyOK, Free
<1>5. CopyKept(c)
  BY <1>1, <1>2 DEF CopyKept, CopyOK, Free
<1> QED
  BY <1>4, <1>5

LEMMA AcknowledgeKeeps ==
    ASSUME IInv, NEW c \in Copy, NEW w \in Worker, Acknowledge(c, w)
    PROVE  MessageInv' /\ SentInv' /\ TaskInv' /\ DeadLettersKept' /\ CopyInv' /\ DownInv' /\ CountInv'
<1>1. worker \in [Worker -> WorkerRecord] /\ copy \in [Copy -> CopyRecord]
  BY WorkerRecords, CopyRecords DEF IInv
<1>2. /\ worker'[w].sem = worker[w].sem /\ worker'[w].wg = worker[w].wg
      /\ worker'[w].ending = worker[w].ending + 1 /\ worker'[w].leaving = worker[w].leaving
      /\ worker'[w].mode = worker[w].mode
      /\ \A v \in Worker : v # w => worker'[v] = worker[v]
  BY <1>1 DEF Acknowledge, WorkerRecord
<1>3. /\ copy[c].at = w /\ copy[c].place \in {"ack", "nack"} /\ w # None
      /\ copy'[c] = Requeued(c) \/ (copy'[c] = Free /\ copy[c].place = "ack")
      /\ \A d \in Copy : d # c => copy'[d] = copy[d]
  BY <1>1, BoundAssumption DEF Acknowledge
<1>4. /\ UNCHANGED <<row, outbox, batch, sent, declared, connected, lost, reported>>
      /\ \A t \in Task : Safe(t) => Safe(t)'
  BY DEF Acknowledge, broker, env, Safe, Final
<1>5. TypeOK /\ \A d \in Copy : CopyOK(d)
  BY DEF IInv, CopyInv
<1>6. CopyOK(c)' /\ CopyKept(c) /\ copy'[c].at = None
  BY <1>3, <1>4, <1>5, ReturnedCopy
<1>7. ASSUME NEW d \in Copy, d # c PROVE CopyOK(d)' /\ CopyKept(d)
  <2>1. copy[d].at # None => copy[d].at \in Worker
    BY <1>1 DEF CopyRecord
  <2>2. \A v \in Worker : worker'[v].mode = worker[v].mode
    BY <1>2
  <2> QED
    BY <1>3, <1>4, <1>5, <1>7, <2>1, <2>2, UntouchedCopy
<1>8. CopyInv' /\ \A d \in Copy : CopyKept(d)
  BY <1>6, <1>7 DEF CopyInv
<1>9. MessageInv' /\ SentInv' /\ TaskInv' /\ DeadLettersKept'
  BY <1>4, <1>8, StepKeeps
<1>10. DownInv'
  <2>1. worker[w].mode # "down"
    BY <1>3, <1>5 DEF CopyOK, Free
  <2> QED
    BY <1>2, <2>1 DEF IInv, DownInv
<1>11. Counts(w)'
  <2>1. /\ At(w, InGoroutine) = At(w, InGoroutine)' \cup {c}
        /\ c \notin At(w, InGoroutine)' /\ At(w, InGoroutine)' \subseteq Copy
    BY <1>3, <1>6 DEF At, InGoroutine
  <2>2. At(w, {"spawn"})' = At(w, {"spawn"})
    BY <1>3, <1>6 DEF At
  <2>3. Cardinality(At(w, InGoroutine)) = Cardinality(At(w, InGoroutine)') + 1
    BY <2>1, CountOneMore
  <2>4. Cardinality(At(w, InGoroutine)') \in Nat
    BY <2>1, ProcessAssumption, FS_Subset, FS_CardinalityType
  <2> QED
    BY <1>2, <2>2, <2>3, <2>4, CountTypes DEF IInv, Counts
<1>12. CountInv'
  <2>1. \A d \in Copy : copy'[d] = copy[d] \/ (copy[d].at \in {w, None} /\ copy'[d].at \in {w, None})
    BY <1>3, <1>6
  <2>2. CountInv /\ \A v \in Worker : v # w => worker'[v] = worker[v]
    BY <1>2 DEF IInv
  <2> QED
    BY <1>11, <2>1, <2>2, CountsOfOthers
<1> QED
  BY <1>8, <1>9, <1>10, <1>12

\* A loop that ends touches nothing but what it was about to receive.
LEMMA LoopKeeps ==
    ASSUME IInv, NEW w \in Worker,
           \/ \E c \in Copy : LoopReturnsDelivery(w, c)
           \/ \E a \in Activity : LoopEnds(w, a)
    PROVE  MessageInv' /\ SentInv' /\ TaskInv' /\ DeadLettersKept' /\ CopyInv' /\ DownInv' /\ CountInv'
<1>1. worker \in [Worker -> WorkerRecord] /\ copy \in [Copy -> CopyRecord]
  BY WorkerRecords, CopyRecords DEF IInv
<1>2. /\ \A v \in Worker : /\ worker'[v].sem = worker[v].sem /\ worker'[v].wg = worker[v].wg
                           /\ worker'[v].ending = worker[v].ending
                           /\ worker'[v].leaving = worker[v].leaving
                           /\ worker'[v].mode = worker[v].mode
      /\ \A v \in Worker : worker[v].mode = "down" => worker'[v] = worker[v]
  <2>1. worker[w].mode = "down" => worker[w].loops = {}
    BY DEF IInv, DownInv, Down, Idle
  <2>2. PICK a \in Activity : worker' = [worker EXCEPT ![w].loops = @ \ {a}]
    <3>1. ASSUME NEW c \in Copy, LoopReturnsDelivery(w, c) PROVE ActivityOf[copy[c].task] \in Activity
      BY <1>1, <3>1 DEF LoopReturnsDelivery, WorkerRecord
    <3> QED
      BY <3>1 DEF LoopReturnsDelivery, LoopEnds
  <2>3. worker'[w] = [worker[w] EXCEPT !.loops = @ \ {a}]
         /\ \A v \in Worker : v # w => worker'[v] = worker[v]
    BY <1>1, <2>2
  <2>4. worker[w] \in WorkerRecord
    BY <1>1
  <2>5. worker[w].loops = {} => worker'[w] = worker[w]
    BY <2>3, <2>4 DEF WorkerRecord
  <2> QED
    BY <2>1, <2>3, <2>4, <2>5 DEF WorkerRecord
<1>3. \A d \in Copy :
          \/ copy'[d] = copy[d]
          \/ /\ copy[d].at = w /\ copy[d].place = "channel"
             /\ copy'[d] = Requeued(d) \/ (copy'[d] = Free /\ copy[d].at \notin connected)
  BY <1>1 DEF LoopReturnsDelivery, LoopEnds
<1>4. /\ UNCHANGED <<row, outbox, batch, sent, declared, connected, lost, reported>>
      /\ \A t \in Task : Safe(t) => Safe(t)'
  BY DEF LoopReturnsDelivery, LoopEnds, broker, env, Safe, Final
<1>5. TypeOK /\ w # None /\ \A d \in Copy : CopyOK(d)
  BY BoundAssumption DEF IInv, CopyInv
<1>6. ASSUME NEW d \in Copy
      PROVE  CopyOK(d)' /\ CopyKept(d) /\ (copy'[d] = copy[d] \/ copy'[d].at = None)
  <2>1. CASE copy'[d] = copy[d]
    <3>1. copy[d].at # None => copy[d].at \in Worker
      BY <1>1 DEF CopyRecord
    <3> QED
      BY <1>2, <1>4, <1>5, <2>1, <3>1, UntouchedCopy
  <2>2. CASE copy'[d] # copy[d]
    BY <1>3, <1>4, <1>5, <2>2, ReturnedCopy
  <2> QED
    BY <2>1, <2>2
<1>7. MessageInv' /\ SentInv' /\ TaskInv' /\ DeadLettersKept' /\ CopyInv'
  BY <1>4, <1>6, StepKeeps DEF CopyInv
<1>8. DownInv'
  BY <1>2 DEF IInv, DownInv
<1>9. CountInv'
  <2> SUFFICES ASSUME NEW v \in Worker PROVE Counts(v)'
    BY DEF CountInv
  <2>1. Counts(v) /\ v # None
    BY BoundAssumption DEF IInv, CountInv
  <2>2. "channel" \notin InGoroutine \cup {"spawn"}
    BY DEF InGoroutine
  <2> QED
    BY <1>2, <1>3, <1>6, <2>1, <2>2, SameCounts
<1> QED
  BY <1>7, <1>8, <1>9

-----------------------------------------------------------------------------
(* Processes.                                                              *)

\* Steps in which a process changes only its own record: the deferred calls and the shutdown.
LEMMA RecordKeeps ==
    ASSUME IInv, NEW w \in Worker, ReleaseSlot(w) \/ LeaveGroup(w) \/ Drained(w) \/ Stop(w)
    PROVE  MessageInv' /\ SentInv' /\ TaskInv' /\ DeadLettersKept' /\ CopyInv' /\ DownInv' /\ CountInv'
<1>1. worker \in [Worker -> WorkerRecord] /\ copy \in [Copy -> CopyRecord]
  BY WorkerRecords, CopyRecords DEF IInv
<1>2. /\ UNCHANGED <<row, outbox, batch, sent, declared, connected, lost, copy, reported>>
      /\ \A t \in Task : Safe(t) => Safe(t)'
      /\ \A v \in Worker : v # w => worker'[v] = worker[v]
  BY <1>1 DEF ReleaseSlot, LeaveGroup, Drained, Stop, broker, env, Safe, Final
<1>3. worker[w].mode # "down" /\ worker'[w].mode # "down"
  <2>1. worker[w].mode = "down" => worker[w].ending = 0 /\ worker[w].leaving = 0
    BY DEF IInv, DownInv, Down, Idle
  <2> QED
    BY <1>1, <2>1 DEF ReleaseSlot, LeaveGroup, Drained, Stop, WorkerRecord
<1>4. TypeOK /\ \A d \in Copy : CopyOK(d)
  BY DEF IInv, CopyInv
<1>5. ASSUME NEW d \in Copy PROVE CopyOK(d)' /\ CopyKept(d)
  <2>1. copy[d].at # None => copy[d].at \in Worker
    BY <1>1 DEF CopyRecord
  <2> QED
    BY <1>2, <1>3, <1>4, <2>1, UntouchedCopy
<1>6. MessageInv' /\ SentInv' /\ TaskInv' /\ DeadLettersKept' /\ CopyInv'
  BY <1>2, <1>5, StepKeeps DEF CopyInv
<1>7. DownInv'
  BY <1>2, <1>3 DEF IInv, DownInv
<1>8. Counts(w)'
  <2>1. At(w, InGoroutine)' = At(w, InGoroutine) /\ At(w, {"spawn"})' = At(w, {"spawn"})
    BY <1>2 DEF At
  <2>2. CASE ReleaseSlot(w)
    <3>1. /\ worker'[w].sem = worker[w].sem - 1 /\ worker'[w].wg = worker[w].wg
          /\ worker'[w].ending = worker[w].ending - 1 /\ worker'[w].leaving = worker[w].leaving + 1
      BY <1>1, <2>2 DEF ReleaseSlot, WorkerRecord
    <3> QED
      BY <2>1, <3>1, CountTypes DEF IInv, Counts
  <2>3. CASE LeaveGroup(w)
    <3>1. /\ worker'[w].sem = worker[w].sem /\ worker'[w].wg = worker[w].wg - 1
          /\ worker'[w].ending = worker[w].ending /\ worker'[w].leaving = worker[w].leaving - 1
      BY <1>1, <2>3 DEF LeaveGroup, WorkerRecord
    <3> QED
      BY <2>1, <3>1, CountTypes DEF IInv, Counts
  <2>4. CASE Drained(w) \/ Stop(w)
    <3>1. /\ worker'[w].sem = worker[w].sem /\ worker'[w].wg = worker[w].wg
          /\ worker'[w].ending = worker[w].ending /\ worker'[w].leaving = worker[w].leaving
      BY <1>1, <2>4 DEF Drained, Stop, WorkerRecord
    <3> QED
      BY <2>1, <3>1, CountTypes DEF IInv, Counts
  <2> QED
    BY <2>2, <2>3, <2>4
<1>9. CountInv'
  BY <1>2, <1>8, CountsOfOthers DEF IInv
<1> QED
  BY <1>6, <1>7, <1>9

\* Nothing is left of a process that is down.
LEMMA IdleCounts ==
    ASSUME NEW w \in Worker, NEW mode, NEW S, worker'[w] = Idle(mode, S),
           \A d \in Copy : copy'[d].at # w
    PROVE  Counts(w)'
<1>1. At(w, InGoroutine)' = {} /\ At(w, {"spawn"})' = {}
  BY DEF At
<1>2. Cardinality({}) = 0
  BY FS_EmptySet
<1>3. /\ worker'[w].sem = 0 /\ worker'[w].wg = 0
      /\ worker'[w].ending = 0 /\ worker'[w].leaving = 0
  BY DEF Idle
<1> QED
  BY <1>1, <1>2, <1>3 DEF Counts

LEMMA StartKeeps ==
    ASSUME IInv, NEW w \in Worker, Start(w) \/ StartPartly(w)
    PROVE  MessageInv' /\ SentInv' /\ TaskInv' /\ DeadLettersKept' /\ CopyInv' /\ DownInv' /\ CountInv'
<1>1. worker \in [Worker -> WorkerRecord] /\ copy \in [Copy -> CopyRecord]
  BY WorkerRecords, CopyRecords DEF IInv
<1>2. PICK S \in SUBSET Activity : worker' = [worker EXCEPT ![w] = Up(S)]
  BY DEF Start, StartPartly
<1>3. /\ UNCHANGED <<row, outbox, batch, sent, lost, copy, reported>>
      /\ connected' = connected \cup {w}
      /\ worker[w].mode = "down"
      /\ \A t \in Task : Safe(t) => Safe(t)'
      /\ worker'[w] = Idle("up", S)
      /\ \A v \in Worker : v # w => worker'[v] = worker[v]
  BY <1>1, <1>2 DEF Start, StartPartly, Up, env, Safe, Final
<1>4. \A d \in Copy : CopyOK(d)
  BY DEF IInv, CopyInv
<1>5. \A d \in Copy : copy[d].at # w
  BY <1>3, <1>4, BoundAssumption DEF CopyOK, Free
<1>6. ASSUME NEW d \in Copy PROVE CopyOK(d)' /\ CopyKept(d)
  <2>1. copy[d].at # None => copy[d].at \in Worker
    BY <1>1 DEF CopyRecord
  <2> QED
    BY <1>3, <1>4, <1>5, <2>1, UntouchedCopy
<1>7. MessageInv' /\ SentInv' /\ TaskInv' /\ DeadLettersKept' /\ CopyInv'
  BY <1>3, <1>6, StepKeeps DEF CopyInv
<1>8. DownInv'
  <2>1. worker'[w].mode # "down"
    BY <1>3 DEF Idle
  <2> QED
    BY <1>3, <2>1 DEF IInv, DownInv
<1>9. CountInv'
  <2>1. Counts(w)'
    BY <1>3, <1>5, IdleCounts
  <2> QED
    BY <1>3, <2>1, CountsOfOthers DEF IInv
<1> QED
  BY <1>7, <1>8, <1>9

LEMMA GoneKeeps ==
    ASSUME IInv, NEW w \in Worker, Exit(w) \/ WorkerCrash(w)
    PROVE  MessageInv' /\ SentInv' /\ TaskInv' /\ DeadLettersKept' /\ CopyInv' /\ DownInv' /\ CountInv'
<1>1. worker \in [Worker -> WorkerRecord] /\ copy \in [Copy -> CopyRecord]
  BY WorkerRecords, CopyRecords DEF IInv
<1>2. /\ UNCHANGED <<row, outbox, batch, sent, lost, reported>>
      /\ connected' = connected \ {w}
      /\ \A t \in Task : Safe(t) => Safe(t)'
      /\ worker'[w] = Down
      /\ \A v \in Worker : v # w => worker'[v] = worker[v]
      /\ \A d \in Copy : copy'[d] = IF copy[d].at = w THEN Requeued(d) ELSE copy[d]
  BY <1>1 DEF Exit, WorkerCrash, Gone, env, Safe, Final
<1>3. TypeOK /\ w # None /\ \A d \in Copy : CopyOK(d)
  BY BoundAssumption DEF IInv, CopyInv
<1>4. ASSUME NEW d \in Copy PROVE CopyOK(d)' /\ CopyKept(d) /\ copy'[d].at # w
  <2>1. CASE copy[d].at = w
    BY <1>2, <1>3, <2>1, ReturnedCopy
  <2>2. CASE copy[d].at # w
    <3>1. copy[d].at # None => copy[d].at \in Worker
      BY <1>1 DEF CopyRecord
    <3> QED
      BY <1>2, <1>3, <2>2, <3>1, UntouchedCopy
  <2> QED
    BY <2>1, <2>2
<1>5. MessageInv' /\ SentInv' /\ TaskInv' /\ DeadLettersKept' /\ CopyInv'
  BY <1>2, <1>4, StepKeeps DEF CopyInv
<1>6. DownInv'
  BY <1>2 DEF IInv, DownInv
<1>7. CountInv'
  <2>1. Counts(w)'
    BY <1>2, <1>4, IdleCounts DEF Down
  <2>2. \A d \in Copy : copy'[d] = copy[d] \/ (copy[d].at \in {w, None} /\ copy'[d].at \in {w, None})
    <3>1. \A d \in Copy : copy[d].at = w => copy'[d].at = None
      BY <1>2, <1>3, ReturnedCopy
    <3> QED
      BY <1>2, <3>1
  <2> QED
    BY <1>2, <2>1, <2>2, CountsOfOthers DEF IInv
<1> QED
  BY <1>5, <1>6, <1>7

-----------------------------------------------------------------------------
(* The broker.                                                             *)

LEMMA RestartKeeps ==
    ASSUME IInv, BrokerRestart
    PROVE  MessageInv' /\ SentInv' /\ TaskInv' /\ DeadLettersKept' /\ CopyInv' /\ DownInv' /\ CountInv'
<1>1. copy \in [Copy -> CopyRecord]
  BY CopyRecords DEF IInv
<1>2. /\ UNCHANGED <<row, outbox, batch, sent, worker>>
      /\ connected' = {}
      /\ \A d \in Copy : copy'[d] = IF copy[d].at = None THEN Free ELSE copy[d]
      /\ lost \subseteq lost'
      /\ \A t \in Task : (t \in reported \/ \E d \in Copy : copy[d].task = t) => t \in lost'
      /\ \A t \in Task : Safe(t) => Safe(t)'
  BY DEF BrokerRestart, Safe, Final
<1>3. \A d \in Copy : CopyOK(d)
  BY DEF IInv, CopyInv
<1>4. ASSUME NEW d \in Copy PROVE CopyOK(d)' /\ CopyKept(d)
  <2>1. CopyOK(d)'
    BY <1>2, <1>3 DEF CopyOK, Free
  <2>2. CopyKept(d)
    BY <1>2 DEF CopyKept, Safe
  <2> QED
    BY <2>1, <2>2
<1>5. MessageInv' /\ SentInv' /\ TaskInv' /\ DeadLettersKept' /\ CopyInv'
  BY <1>2, <1>4, StepKeeps DEF CopyInv
<1>6. DownInv'
  BY <1>2 DEF IInv, DownInv
<1>7. CountInv'
  <2> SUFFICES ASSUME NEW v \in Worker PROVE Counts(v)'
    BY DEF CountInv
  <2>1. Counts(v) /\ v # None
    BY BoundAssumption DEF IInv, CountInv
  <2>2. \A d \in Copy : copy'[d] # copy[d] => copy[d].at # v /\ copy'[d].at # v
    BY <1>2, <2>1 DEF Free
  <2> QED
    BY <1>2, <2>1, <2>2, SameCounts
<1> QED
  BY <1>5, <1>6, <1>7

\* A copy that the broker puts into a queue, drops, or sends to a worker.
LEMMA BrokerKeeps ==
    ASSUME IInv, NEW c \in Copy, Expire(c) \/ \E w \in Worker : Deliver(c, w)
    PROVE  MessageInv' /\ SentInv' /\ TaskInv' /\ DeadLettersKept' /\ CopyInv' /\ DownInv' /\ CountInv'
<1>1. copy \in [Copy -> CopyRecord]
  BY CopyRecords DEF IInv
<1>2. /\ UNCHANGED <<row, outbox, batch, sent, worker, connected, reported>>
      /\ lost \subseteq lost'
      /\ \A t \in Task : Safe(t) => Safe(t)'
  BY DEF Expire, Deliver, broker, env, Safe, Final
<1>3. \A d \in Copy : CopyOK(d)
  BY DEF IInv, CopyInv
<1>4. /\ copy[c].place \in {"parked", "queue"} /\ copy[c].at = None /\ copy[c].task \in Task
      /\ \A d \in Copy : d # c => copy'[d] = copy[d]
      /\ \/ copy'[c].place = "queue" /\ copy'[c].task = copy[c].task /\ copy'[c].at = None
         \/ copy'[c] = Free /\ copy[c].task \in lost'
         \/ \E w \in Worker : /\ copy'[c] = [place |-> "channel", task |-> copy[c].task, at |-> w]
                              /\ w \in connected /\ worker[w].mode # "down"
  <2>1. CASE Expire(c)
    <3>1. copy[c].place = "parked" /\ copy[c].at = None /\ copy[c].task \in Task
      BY <1>3, <2>1 DEF Expire, CopyOK, Free, AtWorker, InGoroutine
    <3>2. CASE MoveCopy(c, "queue")
      BY <3>1, <3>2, MoveType DEF IInv, Place
    <3>3. CASE copy' = [copy EXCEPT ![c] = Free] /\ lost' = lost \cup {copy[c].task}
      BY <1>1, <3>1, <3>3
    <3> QED
      BY <2>1, <3>2, <3>3 DEF Expire
  <2>2. ASSUME NEW w \in Worker, Deliver(c, w)
        PROVE  /\ copy[c].place = "queue" /\ copy[c].at = None /\ copy[c].task \in Task
               /\ \A d \in Copy : d # c => copy'[d] = copy[d]
               /\ copy'[c] = [place |-> "channel", task |-> copy[c].task, at |-> w]
               /\ w \in connected /\ worker[w].mode # "down"
    <3>1. copy[c].place = "queue" /\ copy[c].at = None /\ copy[c].task \in Task
      BY <1>3, <2>2 DEF Deliver, CopyOK, Free, AtWorker, InGoroutine
    <3>2. worker[w].mode # "down"
      BY <2>2 DEF Deliver, IInv, DownInv, Down, Idle
    <3> QED
      BY <2>2, <3>1, <3>2, DeliverType DEF IInv, Deliver
  <2> QED
    BY <2>1, <2>2
<1>5. CopyOK(c)' /\ CopyKept(c)
  <2>1. "queue" \notin AtWorker /\ "channel" \in AtWorker /\ None \notin Worker
    BY BoundAssumption DEF AtWorker, InGoroutine
  <2>2. CopyOK(c)
    BY <1>3
  <2>3. CASE copy'[c].place = "queue" /\ copy'[c].task = copy[c].task /\ copy'[c].at = None
    BY <1>2, <1>4, <2>1, <2>2, <2>3 DEF CopyOK, CopyKept, Free
  <2>4. CASE copy'[c] = Free /\ copy[c].task \in lost'
    BY <1>4, <2>4 DEF CopyOK, CopyKept, Safe
  <2>5. ASSUME NEW w \in Worker, w \in connected, worker[w].mode # "down",
               copy'[c] = [place |-> "channel", task |-> copy[c].task, at |-> w]
        PROVE  CopyOK(c)' /\ CopyKept(c)
    <3>1. copy'[c].place = "channel" /\ copy'[c].task = copy[c].task /\ copy'[c].at = w
      BY <2>5
    <3> QED
      BY <1>2, <1>4, <2>1, <2>2, <2>5, <3>1 DEF CopyOK, CopyKept, Free
  <2> QED
    BY <1>4, <2>3, <2>4, <2>5
<1>6. ASSUME NEW d \in Copy, d # c PROVE CopyOK(d)' /\ CopyKept(d)
  BY <1>2, <1>3, <1>4, <1>6, UntouchedCopy
<1>7. MessageInv' /\ SentInv' /\ TaskInv' /\ DeadLettersKept' /\ CopyInv'
  BY <1>2, <1>5, <1>6, StepKeeps DEF CopyInv
<1>8. DownInv'
  BY <1>2 DEF IInv, DownInv
<1>9. CountInv'
  <2> SUFFICES ASSUME NEW v \in Worker PROVE Counts(v)'
    BY DEF CountInv
  <2>1. Counts(v) /\ v # None
    BY BoundAssumption DEF IInv, CountInv
  <2>2. copy'[c].place \in {"queue", "free", "channel"}
    <3>1. Free.place = "free"
      BY DEF Free
    <3>2. ASSUME NEW w, copy'[c] = [place |-> "channel", task |-> copy[c].task, at |-> w]
          PROVE  copy'[c].place = "channel"
      BY <3>2
    <3> QED
      BY <1>4, <3>1, <3>2
  <2>3. copy'[c].place \notin InGoroutine \cup {"spawn"}
    BY <2>2 DEF InGoroutine
  <2> QED
    BY <1>2, <1>4, <2>1, <2>3, SameCounts
<1> QED
  BY <1>7, <1>8, <1>9

-----------------------------------------------------------------------------
(* Publishers.                                                             *)

\* A publisher that reads or removes rows, and forgets what it has read: a row may go once
\* its message has been published.
LEMMA RowsKeep ==
    ASSUME IInv, UNCHANGED <<row, lost, copy, worker, reported>>,
           connected \subseteq connected', connected' \cap Worker = connected \cap Worker,
           MessageInv',
           \A p \in sent' : p \in sent /\ batch'[p] = batch[p],
           \A i \in 1..Len(outbox) :
              (\E j \in 1..Len(outbox') : outbox'[j] = outbox[i]) \/ Published(outbox[i])
    PROVE  SentInv' /\ TaskInv' /\ DeadLettersKept' /\ CopyInv' /\ DownInv' /\ CountInv'
<1>1. ASSUME NEW t \in Task PROVE (Live(t) => Live(t)') /\ (Safe(t) => Safe(t)')
       /\ (Buried(t) => Buried(t)')
  BY DEF Live, Safe, Final, Buried
<1>2. SentInv'
  <2>1. ASSUME NEW m \in Message PROVE Published(m) => Published(m)'
    <3>1. m.task \in Task
      BY DEF Message
    <3> QED
      BY <1>1, <3>1 DEF Published
  <2>2. ASSUME NEW p \in sent PROVE batch[p] # <<>> /\ Head(batch[p]) \in Message
         /\ Published(Head(batch[p]))
    <3>1. batch[p] # <<>> /\ Published(Head(batch[p])) /\ batch[p] \in Seq(Message)
      BY DEF IInv, SentInv, TypeOK
    <3> QED
      BY <3>1, TailOf
  <2>3. ASSUME NEW p \in sent' PROVE batch'[p] # <<>> /\ Published(Head(batch[p]))'
    <3>1. PICK m \in Message : m = Head(batch[p]) /\ Published(m)
      BY <2>2
    <3>2. Published(m)' /\ m = Head(batch'[p])
      BY <2>1, <3>1
    <3> QED
      BY <2>2, <3>2
  <2> QED
    BY <2>3 DEF SentInv
<1>3. TaskInv'
  <2> SUFFICES ASSUME NEW t \in Task, row[t] # "NONE" PROVE (Holds(outbox, t) \/ Live(t) \/ Safe(t))'
    BY DEF TaskInv
  <2>1. CASE Live(t) \/ Safe(t)
    BY <1>1, <2>1
  <2>2. ASSUME NEW i \in 1..Len(outbox), outbox[i].task = t, outbox[i].tier # "dlq"
        PROVE  Holds(outbox', t) \/ Live(t) \/ Safe(t)
    <3>1. CASE Published(outbox[i])
      BY <2>2, <3>1 DEF Published
    <3>2. CASE \E j \in 1..Len(outbox') : outbox'[j] = outbox[i]
      BY <2>2, <3>2 DEF Holds
    <3> QED
      BY <3>1, <3>2
  <2>3. CASE Holds(outbox, t)
    BY <1>1, <2>2, <2>3 DEF Holds
  <2> QED
    BY <2>1, <2>3 DEF IInv, TaskInv
<1>4. DeadLettersKept'
  <2> SUFFICES ASSUME NEW t \in Task, row[t] = "DEAD"
               PROVE  (\E j \in 1..Len(outbox') : outbox'[j] = [task |-> t, tier |-> "dlq"]) \/ Buried(t)'
    BY DEF DeadLettersKept, Buried
  <2>1. CASE Buried(t)
    BY <1>1, <2>1
  <2>2. ASSUME NEW i \in 1..Len(outbox), outbox[i] = [task |-> t, tier |-> "dlq"]
        PROVE  (\E j \in 1..Len(outbox') : outbox'[j] = [task |-> t, tier |-> "dlq"]) \/ Buried(t)
    <3>1. CASE Published(outbox[i])
      BY <2>2, <3>1 DEF Published
    <3>2. CASE \E j \in 1..Len(outbox') : outbox'[j] = outbox[i]
      BY <2>2, <3>2
    <3> QED
      BY <3>1, <3>2
  <2> QED
    BY <1>1, <2>1, <2>2 DEF IInv, DeadLettersKept, Buried
<1>5. CopyInv'
  <2>1. copy \in [Copy -> CopyRecord]
    BY CopyRecords DEF IInv
  <2>2. ASSUME NEW c \in Copy PROVE CopyOK(c)'
    <3>1. CopyOK(c) /\ (copy[c].at # None => copy[c].at \in Worker)
      BY <2>1 DEF IInv, CopyInv, CopyRecord
    <3> QED
      BY <1>1, <3>1 DEF CopyOK
  <2> QED
    BY <2>2 DEF CopyInv
<1>6. DownInv' /\ CountInv'
  <2>1. ASSUME NEW v \in Worker PROVE Counts(v)'
    <3>1. Counts(v)
      BY DEF IInv, CountInv
    <3> QED
      BY <3>1, SameCounts
  <2> QED
    BY <2>1 DEF IInv, DownInv, CountInv
<1> QED
  BY <1>2, <1>3, <1>4, <1>5, <1>6

LEMMA PollKeeps ==
    ASSUME IInv, NEW p \in Publisher, Poll(p)
    PROVE  MessageInv' /\ SentInv' /\ TaskInv' /\ DeadLettersKept' /\ CopyInv' /\ DownInv' /\ CountInv'
<1>1. outbox \in Seq(Message) /\ batch \in [Publisher -> Seq(Message)] /\ sent \subseteq Publisher
  BY DEF IInv, TypeOK
<1>2. PICK n \in Nat : n <= Len(outbox) /\ batch' = [batch EXCEPT ![p] = SubSeq(outbox, 1, n)]
  <2> DEFINE n == IF Len(outbox) < BatchLimit THEN Len(outbox) ELSE BatchLimit
  <2>1. n \in Nat /\ n <= Len(outbox)
    BY <1>1, LenProperties, BoundAssumption
  <2>2. batch' = [batch EXCEPT ![p] = SubSeq(outbox, 1, n)]
    BY DEF Poll
  <2> HIDE DEF n
  <2> QED
    BY <2>1, <2>2
<1>3. UNCHANGED <<row, outbox, reported, sent, declared, connected, lost, copy, worker>>
  BY DEF Poll, env, broker
<1>4. MessageInv'
  <2>1. \A i \in 1..Len(batch'[p]) : i \in 1..Len(outbox) /\ batch'[p][i] = outbox[i]
    BY <1>1, <1>2, FirstRows
  <2>2. \A q \in Publisher : q # p => batch'[q] = batch[q]
    BY <1>1, <1>2
  <2>3. \A q \in Publisher : \A i \in 1..Len(batch'[q]) : Due(batch'[q][i])
    BY <2>1, <2>2 DEF IInv, MessageInv
  <2> QED
    BY <1>3, <2>3 DEF IInv, MessageInv, Due
<1>5. \A q \in sent' : q \in sent /\ batch'[q] = batch[q]
  <2>1. p \notin sent
    BY DEF Poll, IInv, SentInv
  <2> QED
    BY <1>1, <1>2, <1>3, <2>1
<1> QED
  BY <1>3, <1>4, <1>5, RowsKeep

\* The row that is deleted has been published; what is only forgotten stays in the outbox.
LEMMA HandledKeeps ==
    ASSUME IInv, NEW p \in Publisher, Delete(p) \/ DeleteFails(p) \/ PublishFails(p) \/ PublisherCrash(p)
    PROVE  MessageInv' /\ SentInv' /\ TaskInv' /\ DeadLettersKept' /\ CopyInv' /\ DownInv' /\ CountInv'
<1>1. outbox \in Seq(Message) /\ batch \in [Publisher -> Seq(Message)] /\ sent \subseteq Publisher
  BY DEF IInv, TypeOK
<1>2. /\ UNCHANGED <<row, reported, lost, copy, worker>>
      /\ connected \subseteq connected' /\ connected' \cap Worker = connected \cap Worker
  BY ProcessAssumption DEF Delete, DeleteFails, PublishFails, PublisherCrash, env, broker
<1>3. /\ \A q \in Publisher : q # p => batch'[q] = batch[q]
      /\ batch'[p] = <<>> \/ (batch[p] # <<>> /\ batch'[p] = Tail(batch[p]))
      /\ sent' \subseteq sent /\ p \notin sent'
  BY <1>1 DEF Delete, DeleteFails, PublishFails, PublisherCrash, IInv, SentInv
<1>4. /\ \A i \in 1..Len(outbox') : \E j \in 1..Len(outbox) : outbox'[i] = outbox[j]
      /\ \A i \in 1..Len(outbox) : (\E j \in 1..Len(outbox') : outbox'[j] = outbox[i]) \/ Published(outbox[i])
  <2>1. CASE UNCHANGED outbox
    BY <2>1
  <2>2. CASE Delete(p)
    <3>1. PICK m : m = Head(batch[p]) /\ Published(m) /\ DeleteRow(m)
      BY <2>2 DEF Delete, IInv, SentInv
    <3>2. ASSUME NEW k \in 1..Len(outbox), outbox[k] = m, outbox' = RemoveAt(outbox, k)
          PROVE  /\ \A i \in 1..Len(outbox') : \E j \in 1..Len(outbox) : outbox'[i] = outbox[j]
                 /\ \A i \in 1..Len(outbox) :
                       (\E j \in 1..Len(outbox') : outbox'[j] = outbox[i]) \/ Published(outbox[i])
      <4>1. /\ \A i \in 1..Len(outbox') : \E j \in 1..Len(outbox) : outbox'[i] = outbox[j]
            /\ \A j \in 1..Len(outbox) : j # k => \E i \in 1..Len(outbox') : outbox'[i] = outbox[j]
        BY <1>1, <3>2, RemovedRow
      <4>2. Published(outbox[k])
        BY <3>1, <3>2
      <4> QED
        BY <4>1, <4>2
    <3> QED
      BY <2>1, <3>1, <3>2 DEF DeleteRow
  <2> QED
    BY <2>1, <2>2 DEF DeleteFails, PublishFails, PublisherCrash, env
<1>5. MessageInv'
  <2>1. \A i \in 1..Len(outbox') : Due(outbox'[i])
    BY <1>4 DEF IInv, MessageInv
  <2>2. \A i \in 1..Len(batch'[p]) : Due(batch'[p][i])
    <3>1. CASE batch'[p] = <<>>
      <4>1. Len(batch'[p]) = 0
        BY <3>1, EmptySeq
      <4> QED
        BY <4>1
    <3>2. CASE batch[p] # <<>> /\ batch'[p] = Tail(batch[p])
      <4>1. \A i \in 1..Len(Tail(batch[p])) : i + 1 \in 1..Len(batch[p])
             /\ Tail(batch[p])[i] = batch[p][i + 1]
        BY <1>1, <3>2, TailOf
      <4> QED
        BY <3>2, <4>1 DEF IInv, MessageInv
    <3> QED
      BY <1>3, <3>1, <3>2
  <2>3. \A q \in Publisher : \A i \in 1..Len(batch'[q]) : Due(batch'[q][i])
    BY <1>3, <2>2 DEF IInv, MessageInv
  <2> QED
    BY <1>2, <2>1, <2>3 DEF MessageInv, Due
<1>6. \A q \in sent' : q \in sent /\ batch'[q] = batch[q]
  BY <1>1, <1>3
<1> QED
  BY <1>2, <1>4, <1>5, <1>6, RowsKeep

LEMMA PublishKeeps ==
    ASSUME IInv, NEW p \in Publisher, Publish(p)
    PROVE  MessageInv' /\ SentInv' /\ TaskInv' /\ DeadLettersKept' /\ CopyInv' /\ DownInv' /\ CountInv'
<1>1. /\ batch[p] \in Seq(Message) /\ batch[p] # <<>>
      /\ copy \in [Copy -> CopyRecord] /\ sent \subseteq Publisher
  BY CopyRecords DEF IInv, TypeOK, Publish
<1>2. PICK m \in Message : m = Head(batch[p]) /\ Enqueue(m) /\ Due(m)
  <2>1. Head(batch[p]) \in Message /\ Head(batch[p]) = batch[p][1] /\ 1 \in 1..Len(batch[p])
    BY <1>1, TailOf
  <2> QED
    BY <2>1 DEF Publish, IInv, MessageInv
<1>3. /\ UNCHANGED <<row, outbox, batch, reported, connected, worker>>
      /\ sent' = sent \cup {p} /\ lost \subseteq lost'
      /\ \A t \in Task : Safe(t) => Safe(t)'
  BY <1>2 DEF Publish, Enqueue, env, Safe, Final
<1>4. m.task \in Task /\ m.tier \in Tier /\ None \notin Task
  BY BoundAssumption DEF Message
<1>5. \/ m.task \in lost' /\ UNCHANGED copy
      \/ \E c \in Copy : /\ copy[c] = Free
                         /\ copy'[c] = [place |-> Routed(m.tier), task |-> m.task, at |-> None]
                         /\ \A d \in Copy : d # c => copy'[d] = copy[d]
  BY <1>1, <1>2 DEF Enqueue
<1>6. /\ Routed(m.tier) \in {"queue", "parked", "dlq"}
      /\ Routed(m.tier) = "dlq" <=> m.tier = "dlq"
  BY <1>4 DEF Routed, Tier
<1>7. ASSUME NEW d \in Copy
      PROVE  /\ CopyOK(d)' /\ CopyKept(d)
             /\ \/ copy'[d] = copy[d]
                \/ copy[d].at = None /\ copy'[d].at = None
  <2>1. CopyOK(d)
    BY DEF IInv, CopyInv
  <2>2. CASE copy'[d] = copy[d]
    BY <1>3, <2>1, <2>2, UntouchedCopy
  <2>3. CASE copy[d] = Free /\ copy'[d] = [place |-> Routed(m.tier), task |-> m.task, at |-> None]
    <3>1. copy'[d].place = Routed(m.tier) /\ copy'[d].task = m.task /\ copy'[d].at = None
      BY <2>3
    <3>2. copy[d].task = None /\ copy[d].at = None
      BY <2>3 DEF Free
    <3>3. row'[m.task] # "NONE" /\ (m.tier = "dlq" => row'[m.task] = "DEAD")
      BY <1>2, <1>3 DEF Due
    <3>4. /\ Routed(m.tier) \notin AtWorker /\ Routed(m.tier) # "free" /\ Routed(m.tier) # "ack"
      BY <1>6 DEF AtWorker, InGoroutine
    <3> QED
      BY <1>4, <1>6, <3>1, <3>2, <3>3, <3>4 DEF CopyOK, CopyKept
  <2> QED
    BY <1>5, <2>2, <2>3
<1>8. Published(m)'
  <2>1. CASE m.task \in lost'
    BY <2>1 DEF Published, Buried, Safe
  <2>2. ASSUME NEW c \in Copy, copy'[c] = [place |-> Routed(m.tier), task |-> m.task, at |-> None]
        PROVE  Published(m)'
    <3>1. copy'[c].place = Routed(m.tier) /\ copy'[c].task = m.task /\ copy'[c].at = None
      BY <2>2
    <3> QED
      BY <1>6, <3>1 DEF Published, Buried, Live
  <2> QED
    BY <1>5, <2>1, <2>2
<1>9. MessageInv' /\ SentInv' /\ TaskInv' /\ DeadLettersKept' /\ CopyInv'
  <2>1. \A q \in sent' \ sent : batch[q] # <<>> /\ Published(Head(batch[q]))'
    <3>1. Published(Head(batch[p]))'
      BY <1>2, <1>3, <1>8
    <3> QED
      BY <1>1, <1>3, <3>1
  <2> QED
    BY <1>3, <1>7, <2>1, StepKeeps DEF CopyInv
<1>10. DownInv' /\ CountInv'
  <2>1. ASSUME NEW v \in Worker PROVE Counts(v)'
    <3>1. Counts(v) /\ v # None
      BY BoundAssumption DEF IInv, CountInv
    <3> QED
      BY <1>3, <1>7, <3>1, SameCounts
  <2> QED
    BY <1>3, <2>1 DEF IInv, DownInv, CountInv
<1> QED
  BY <1>9, <1>10

-----------------------------------------------------------------------------
(* The engine.                                                             *)

LEMMA CommitsKeep ==
    ASSUME IInv, NEW t \in Task, Commits(t)
    PROVE  MessageInv' /\ SentInv' /\ TaskInv' /\ DeadLettersKept' /\ CopyInv' /\ DownInv' /\ CountInv'
<1>1. /\ outbox \in Seq(Message) /\ batch \in [Publisher -> Seq(Message)]
      /\ row \in [Task -> Row] /\ sent \subseteq Publisher /\ copy \in [Copy -> CopyRecord]
  BY CopyRecords DEF IInv, TypeOK
<1>2. /\ UNCHANGED <<batch, sent, connected, lost, copy, worker, reported>>
      /\ \A u \in Task : u # t => row'[u] = row[u]
      /\ row[t] # "DEAD" /\ row'[t] # "NONE"
      /\ Final(t) => row'[t] = "DEAD"
  BY <1>1 DEF Commits, Commit, Close, DeadLetter, Final, broker
<1>3. /\ \A i \in 1..Len(outbox) : i \in 1..Len(outbox') /\ outbox'[i] = outbox[i]
      /\ \A i \in 1..Len(outbox') :
            i \in 1..Len(outbox) \/ (outbox'[i].task = t /\ (outbox'[i].tier = "dlq" => row'[t] = "DEAD"))
      /\ row[t] = "NONE" => Holds(outbox', t)
      /\ row'[t] = "DEAD" => \E i \in 1..Len(outbox') : outbox'[i] = [task |-> t, tier |-> "dlq"]
  <2>1. ASSUME NEW tier \in Tier, outbox' = Append(outbox, [task |-> t, tier |-> tier])
        PROVE  /\ \A i \in 1..Len(outbox) : i \in 1..Len(outbox') /\ outbox'[i] = outbox[i]
               /\ \A i \in 1..Len(outbox') :
                     i \in 1..Len(outbox) \/ (outbox'[i].task = t /\ outbox'[i].tier = tier)
               /\ \E i \in 1..Len(outbox') : outbox'[i] = [task |-> t, tier |-> tier]
    <3> DEFINE m == [task |-> t, tier |-> tier]
    <3>1. m \in Message /\ m.task = t /\ m.tier = tier
      BY DEF Message
    <3> HIDE DEF m
    <3>2. outbox' = Append(outbox, m)
      BY <2>1 DEF m
    <3> QED
      BY <1>1, <3>1, <3>2, AddedRow DEF m
  <2>2. ASSUME NEW tier \in {"now", "later"}, Commit(t, tier)
        PROVE  row[t] = "NONE" /\ row'[t] = "PENDING" /\ Holds(outbox', t)
    <3>1. tier \in Tier /\ tier # "dlq" /\ [task |-> t, tier |-> tier].task = t
           /\ [task |-> t, tier |-> tier].tier = tier
      BY DEF Tier
    <3>2. \E i \in 1..Len(outbox') : outbox'[i] = [task |-> t, tier |-> tier]
      BY <2>1, <2>2, <3>1 DEF Commit
    <3> QED
      BY <1>1, <2>2, <3>1, <3>2 DEF Commit, Holds
  <2>3. CASE \E tier \in {"now", "later"} : Commit(t, tier)
    <3>1. PICK tier \in {"now", "later"} : Commit(t, tier)
      BY <2>3
    <3>2. tier \in Tier /\ tier # "dlq"
      BY DEF Tier
    <3> QED
      BY <2>1, <2>2, <3>1, <3>2 DEF Commit
  <2>4. CASE Close(t)
    BY <1>1, <2>4 DEF Close
  <2>5. CASE DeadLetter(t)
    <3>1. "dlq" \in Tier
      BY DEF Tier
    <3>2. row'[t] = "DEAD" /\ row[t] # "NONE" /\ outbox' = Append(outbox, [task |-> t, tier |-> "dlq"])
      BY <1>1, <2>5 DEF DeadLetter
    <3> QED
      BY <2>1, <3>1, <3>2
  <2> QED
    BY <2>3, <2>4, <2>5 DEF Commits
<1>4. ASSUME NEW u \in Task
      PROVE  /\ row[u] # "NONE" => row'[u] # "NONE"
             /\ row[u] = "DEAD" => row'[u] = "DEAD"
             /\ Live(u) => Live(u)'
             /\ Safe(u) => Safe(u)'
             /\ Buried(u) => Buried(u)'
  BY <1>2 DEF Live, Safe, Buried, Final
<1>5. MessageInv'
  <2>1. ASSUME NEW m \in Message, Due(m) PROVE Due(m)'
    <3>1. m.task \in Task
      BY DEF Message
    <3> QED
      BY <1>4, <2>1, <3>1 DEF Due
  <2>2. ASSUME NEW i \in 1..Len(outbox') PROVE Due(outbox[i])'
    <3>1. CASE i \in 1..Len(outbox)
      <4>1. outbox[i] \in Message
        BY <1>1, <3>1, ElementOfSeq
      <4>2. PICK m \in Message : m = outbox[i] /\ Due(m)
        BY <3>1, <4>1 DEF IInv, MessageInv
      <4> QED
        BY <1>3, <2>1, <3>1, <4>2
    <3>2. CASE i \notin 1..Len(outbox)
      BY <1>2, <1>3, <3>2 DEF Due
    <3> QED
      BY <3>1, <3>2
  <2>3. ASSUME NEW p \in Publisher, NEW i \in 1..Len(batch[p]) PROVE Due(batch[p][i])'
    <3>1. batch[p][i] \in Message
      BY <1>1, ElementOfSeq
    <3>2. PICK m \in Message : m = batch[p][i] /\ Due(m)
      BY <3>1 DEF IInv, MessageInv
    <3> QED
      BY <1>2, <2>1, <3>2
  <2> QED
    BY <1>2, <2>2, <2>3 DEF MessageInv
<1>6. SentInv'
  <2>1. ASSUME NEW m \in Message PROVE Published(m) => Published(m)'
    <3>1. m.task \in Task
      BY DEF Message
    <3> QED
      BY <1>4, <3>1 DEF Published
  <2>2. ASSUME NEW p \in sent PROVE batch[p] # <<>> /\ Head(batch[p]) \in Message
         /\ Published(Head(batch[p]))
    <3>1. batch[p] # <<>> /\ Published(Head(batch[p])) /\ batch[p] \in Seq(Message)
      BY <1>1 DEF IInv, SentInv
    <3> QED
      BY <3>1, TailOf
  <2> QED
    BY <1>2, <2>1, <2>2 DEF SentInv
<1>7. TaskInv'
  <2> SUFFICES ASSUME NEW u \in Task
               PROVE  (row[u] = "NONE" /\ u # t) \/ (Holds(outbox, u) \/ Live(u) \/ Safe(u))'
    BY <1>2 DEF TaskInv
  <2>1. Holds(outbox, u) => Holds(outbox', u)
    BY <1>3 DEF Holds
  <2> QED
    BY <1>3, <1>4, <2>1 DEF IInv, TaskInv
<1>8. DeadLettersKept'
  <2> SUFFICES ASSUME NEW u \in Task, row'[u] = "DEAD"
               PROVE  (\E i \in 1..Len(outbox') : outbox'[i] = [task |-> u, tier |-> "dlq"]) \/ Buried(u)'
    BY DEF DeadLettersKept, Buried
  <2>1. CASE u = t
    BY <1>3, <2>1
  <2>2. CASE u # t
    BY <1>2, <1>3, <1>4, <2>2 DEF IInv, DeadLettersKept, Buried
  <2> QED
    BY <2>1, <2>2
<1>9. CopyInv'
  <2>1. ASSUME NEW c \in Copy PROVE CopyOK(c)'
    <3>1. CopyOK(c)
      BY DEF IInv, CopyInv
    <3> QED
      BY <1>2, <1>4, <3>1 DEF CopyOK
  <2> QED
    BY <2>1 DEF CopyInv
<1>10. DownInv' /\ CountInv'
  <2>1. ASSUME NEW v \in Worker PROVE Counts(v)'
    <3>1. Counts(v)
      BY DEF IInv, CountInv
    <3> QED
      BY <1>2, <3>1, SameCounts
  <2> QED
    BY <1>2, <2>1 DEF IInv, DownInv, CountInv
<1> QED
  BY <1>5, <1>6, <1>7, <1>8, <1>9, <1>10

-----------------------------------------------------------------------------
(* The invariant.                                                          *)

LEMMA InitInv == Init => IInv
<1> SUFFICES ASSUME Init PROVE IInv
  OBVIOUS
<1>1. TypeOK
  BY InitTypeOK
<1>2. Len(<<>>) = 0
  BY EmptySeq
<1>3. MessageInv
  BY <1>2 DEF Init, MessageInv
<1>4. SentInv /\ TaskInv /\ DeadLettersKept /\ DownInv
  BY DEF Init, SentInv, TaskInv, DeadLettersKept, DownInv
<1>5. CopyInv
  BY DEF Init, CopyInv, CopyOK
<1>6. CountInv
  <2> SUFFICES ASSUME NEW w \in Worker PROVE Counts(w)
    BY DEF CountInv
  <2>1. At(w, InGoroutine) = {} /\ At(w, {"spawn"}) = {}
    BY BoundAssumption DEF Init, At, Free
  <2>2. Cardinality({}) = 0
    BY FS_EmptySet
  <2>3. worker[w].sem = 0 /\ worker[w].wg = 0 /\ worker[w].ending = 0 /\ worker[w].leaving = 0
    BY DEF Init, Down, Idle
  <2> QED
    BY <2>1, <2>2, <2>3 DEF Counts
<1> QED
  BY <1>1, <1>3, <1>4, <1>5, <1>6 DEF IInv

LEMMA NextInv == IInv /\ [Next]_vars => IInv'
<1>1. ASSUME IInv, Next PROVE IInv'
  <2>1. TypeOK'
    BY <1>1, NextTypeOK
  <2>2. ASSUME NEW t \in Task, Commits(t) PROVE IInv'
    BY <1>1, <2>1, <2>2, CommitsKeep DEF IInv
  <2>3. ASSUME NEW p \in Publisher, Publishing(p) \/ PublishFaults(p) PROVE IInv'
    BY <1>1, <2>1, <2>3, PollKeeps, PublishKeeps, HandledKeeps DEF IInv, Publishing, PublishFaults
  <2>4. CASE BrokerRestart
    BY <1>1, <2>1, <2>4, RestartKeeps DEF IInv
  <2>5. ASSUME NEW c \in Copy, Expire(c) \/ \E w \in Worker : Deliver(c, w) PROVE IInv'
    BY <1>1, <2>1, <2>5, BrokerKeeps DEF IInv
  <2>6. ASSUME NEW c \in Copy, NEW w \in Worker, Acquire(c, w) \/ Goroutine(c, w) PROVE IInv'
    BY <1>1, <2>1, <2>6, AcquireKeeps, SpawnKeeps, RunKeeps, AcknowledgeKeeps DEF IInv, Goroutine
  <2>7. ASSUME NEW w \in Worker,
               \/ \E c \in Copy : LoopReturnsDelivery(w, c)
               \/ \E a \in Activity : LoopEnds(w, a)
        PROVE  IInv'
    BY <1>1, <2>1, <2>7, LoopKeeps DEF IInv
  <2>8. ASSUME NEW w \in Worker, Start(w) \/ StartPartly(w) \/ Process(w) \/ Stop(w) \/ WorkerCrash(w)
        PROVE  IInv'
    BY <1>1, <2>1, <2>8, StartKeeps, RecordKeeps, GoneKeeps DEF IInv, Process
  <2> QED
    BY <1>1, <2>2, <2>3, <2>4, <2>5, <2>6, <2>7, <2>8 DEF Next
<1>2. ASSUME IInv, UNCHANGED vars PROVE IInv'
  BY <1>2 DEF vars, IInv, TypeOK, MessageInv, Due, CopyInv, CopyOK, SentInv, Published, Buried, Live,
     Safe, Final, TaskInv, DeadLettersKept, DownInv, CountInv, Counts, At
<1> QED
  BY <1>1, <1>2

\* The invariant of Dispatch.
THEOREM Inductive == Spec => []IInv
  BY InitInv, NextInv, PTL DEF Spec

\* Every variable of outbox, broker and workers keeps its type; the semaphore stays within
\* its capacity.
THEOREM TypeCorrect == Spec => []TypeOK
<1>1. IInv => TypeOK
  BY DEF IInv
<1> QED
  BY <1>1, Inductive, PTL

\* The slots in use and the wait group count the goroutines of a worker, which are never more
\* than maxConcurrency, through crashes, shutdowns and connections lost at any moment.
THEOREM SlotsAreAccounted == Spec => []SlotsAccounted
<1>1. IInv => SlotsAccounted
  <2> SUFFICES ASSUME IInv, NEW w \in Worker
               PROVE  /\ Cardinality(At(w, InGoroutine)) <= Slots
                      /\ Counts(w)
    BY DEF SlotsAccounted, Counts
  <2>1. Counts(w)
    BY DEF IInv, CountInv
  <2>2. Cardinality(At(w, InGoroutine)) <= Slots
    BY CountTypes, BoundAssumption DEF IInv
  <2> QED
    BY <2>1, <2>2
<1> QED
  BY <1>1, Inductive, PTL

\* A dead letter is in the outbox until it is in the DLQ of its activity, or the broker has
\* dropped it: no publisher deletes its row for anything less.
THEOREM DeadLettersAreKept == Spec => []DeadLettersKept
<1>1. IInv => DeadLettersKept
  BY DEF IInv
<1> QED
  BY <1>1, Inductive, PTL

-----------------------------------------------------------------------------
(* The refinement.                                                         *)

Open   == {t \in Task : row[t] = "PENDING"}
Closed == {t \in Task : Final(t)}

LEMMA CarriedIs ==
    /\ Carried \subseteq Task
    /\ \A t \in Task :
          t \in Carried <=> Holds(outbox, t) \/ (\E p \in Publisher : Holds(batch[p], t)) \/ Live(t)
  BY DEF Carried, Live

LEMMA CarriedCommitted ==
    ASSUME IInv, NEW t \in Carried PROVE t \in Task /\ row[t] # "NONE"
<1>1. t \in Task /\ (Holds(outbox, t) \/ (\E p \in Publisher : Holds(batch[p], t)) \/ Live(t))
  BY CarriedIs
<1>2. Holds(outbox, t) => row[t] # "NONE"
  BY DEF Holds, IInv, MessageInv, Due
<1>3. \A p \in Publisher : Holds(batch[p], t) => row[t] # "NONE"
  BY DEF Holds, IInv, MessageInv, Due
<1>4. Live(t) => row[t] # "NONE"
  BY <1>1, BoundAssumption DEF Live, IInv, CopyInv, CopyOK, Free
<1> QED
  BY <1>1, <1>2, <1>3, <1>4

\* A step that only stops carrying tasks stops with those that nobody has to deliver.
LEMMA Releases ==
    ASSUME IInv, IInv', UNCHANGED <<row, reported, lost>>, Carried' \subseteq Carried
    PROVE  D!Next
<1> DEFINE gone == Carried \ Carried'
<1>1. ASSUME NEW t \in gone PROVE t \in reported \cup Closed \cup lost
  <2>1. t \in Task /\ row[t] # "NONE" /\ t \notin Carried'
    BY CarriedCommitted
  <2>2. ~ Holds(outbox, t)' /\ ~ Live(t)'
    BY <2>1 DEF Carried, Live
  <2>3. Safe(t)'
    BY <2>1, <2>2 DEF IInv, TaskInv
  <2> QED
    BY <2>1, <2>3 DEF Safe, Final, Closed
<1>2. Carried' = Carried \ gone /\ gone \in SUBSET Task
  BY CarriedIs
<1>3. UNCHANGED <<Open, Closed>>
  BY DEF Open, Closed, Final
<1> HIDE DEF gone
<1>4. gone \subseteq Carried
  BY DEF gone
<1>5. D!Release(gone)
  BY <1>1, <1>2, <1>3, <1>4 DEF D!Release, Open, Closed
<1> QED
  BY <1>2, <1>5 DEF D!Next

\* What a step does to the copies, seen backwards: it makes no task live.
CopyBack(c) ==
    \A t \in Task :
        copy'[c].task = t /\ copy'[c].place # "dlq" /\ copy'[c].at \in connected' \cup {None} =>
            copy[c].task = t /\ copy[c].place # "dlq" /\ copy[c].at \in connected \cup {None}

LEMMA NothingNew ==
    ASSUME UNCHANGED <<outbox, batch>>, \A c \in Copy : CopyBack(c)
    PROVE  Carried' \subseteq Carried
<1> SUFFICES ASSUME NEW t \in Task, t \in Carried' PROVE t \in Carried
  BY DEF Carried
<1>1. Holds(outbox, t) \/ (\E p \in Publisher : Holds(batch[p], t)) \/ Live(t)'
  BY DEF Carried, Live
<1>2. Live(t)' => Live(t)
  BY DEF Live, CopyBack
<1> QED
  BY <1>1, <1>2, CarriedIs

LEMMA CommitsRefine ==
    ASSUME IInv, NEW t \in Task, Commits(t) PROVE D!Next \/ UNCHANGED D!vars
<1>1. outbox \in Seq(Message) /\ row \in [Task -> Row]
  BY DEF IInv, TypeOK
<1>2. UNCHANGED <<batch, sent, connected, lost, copy, worker, reported>>
  BY DEF Commits, Commit, Close, DeadLetter, broker
<1>3. /\ \A u \in Task : Live(u)' <=> Live(u)
      /\ \A u \in Task : (\E p \in Publisher : Holds(batch[p], u))' <=> (\E p \in Publisher : Holds(batch[p], u))
  BY <1>2 DEF Live, Holds
<1>4. ASSUME NEW tier \in Tier, outbox' = Append(outbox, [task |-> t, tier |-> tier])
      PROVE  \A u \in Task : Holds(outbox, u)' <=> Holds(outbox, u) \/ (u = t /\ tier # "dlq")
  <2> DEFINE m == [task |-> t, tier |-> tier]
  <2>1. m \in Message /\ m.task = t /\ m.tier = tier
    BY DEF Message
  <2> HIDE DEF m
  <2>2. outbox' = Append(outbox, m)
    BY <1>4 DEF m
  <2>3. /\ \A i \in 1..Len(outbox) : i \in 1..Len(outbox') /\ outbox'[i] = outbox[i]
        /\ \A i \in 1..Len(outbox') : i \in 1..Len(outbox) \/ outbox'[i] = m
        /\ \E i \in 1..Len(outbox') : outbox'[i] = m
    BY <1>1, <2>1, <2>2, AddedRow
  <2> QED
    BY <2>1, <2>3 DEF Holds
<1>5. ASSUME UNCHANGED outbox \/ outbox' = Append(outbox, [task |-> t, tier |-> "dlq"])
      PROVE  UNCHANGED Carried
  <2>1. "dlq" \in Tier
    BY DEF Tier
  <2>2. \A u \in Task : Holds(outbox, u)' <=> Holds(outbox, u)
    BY <1>4, <1>5, <2>1 DEF Holds
  <2>3. \A u \in Task : u \in Carried' <=> u \in Carried
    BY <1>3, <2>2 DEF Carried, Live
  <2> QED
    BY <2>3 DEF Carried
<1>6. ASSUME NEW tier \in {"now", "later"}, Commit(t, tier) PROVE D!Commit(t)
  <2>1. tier \in Tier /\ tier # "dlq"
    BY DEF Tier
  <2>2. row[t] = "NONE" /\ row' = [row EXCEPT ![t] = "PENDING"]
         /\ outbox' = Append(outbox, [task |-> t, tier |-> tier])
    BY <1>6 DEF Commit
  <2>3. \A u \in Task : Holds(outbox, u)' <=> Holds(outbox, u) \/ u = t
    BY <1>4, <2>1, <2>2
  <2>4. \A u \in Task : u \in Carried' <=> u \in Carried \/ u = t
    BY <1>3, <2>3 DEF Carried, Live
  <2>5. Carried' = Carried \cup {t}
    BY <2>4, CarriedIs DEF Carried
  <2>6. t \notin Open \cup Closed /\ Open' = Open \cup {t} /\ UNCHANGED Closed
    BY <1>1, <2>2 DEF Open, Closed, Final
  <2> QED
    BY <1>2, <2>5, <2>6 DEF D!Commit, Open, Closed
<1>7. ASSUME Close(t) \/ (DeadLetter(t) /\ row[t] = "PENDING") PROVE D!Close(t)
  <2>1. UNCHANGED Carried
    BY <1>5, <1>7 DEF Close, DeadLetter
  <2>2. t \in Open /\ Open' = Open \ {t} /\ Closed' = Closed \cup {t}
    BY <1>1, <1>7 DEF Close, DeadLetter, Open, Closed, Final
  <2> QED
    BY <1>2, <2>1, <2>2 DEF D!Close, Open, Closed
<1>8. ASSUME DeadLetter(t), row[t] # "PENDING" PROVE UNCHANGED D!vars
  <2>1. UNCHANGED Carried
    BY <1>5, <1>8 DEF DeadLetter
  <2>2. UNCHANGED <<Open, Closed>>
    BY <1>1, <1>8 DEF DeadLetter, Open, Closed, Final
  <2> QED
    BY <1>2, <2>1, <2>2 DEF D!vars, Open, Closed
<1> QED
  BY <1>6, <1>7, <1>8 DEF Commits, D!Next

LEMMA PublisherRefines ==
    ASSUME IInv, IInv', NEW p \in Publisher, Publishing(p) \/ PublishFaults(p) PROVE D!Next
<1>1. outbox \in Seq(Message) /\ batch \in [Publisher -> Seq(Message)] /\ copy \in [Copy -> CopyRecord]
  BY CopyRecords DEF IInv, TypeOK
<1>2. CASE Poll(p)
  <2> DEFINE n == IF Len(outbox) < BatchLimit THEN Len(outbox) ELSE BatchLimit
  <2>1. n \in Nat /\ n <= Len(outbox)
    BY <1>1, LenProperties, BoundAssumption
  <2>2. batch' = [batch EXCEPT ![p] = SubSeq(outbox, 1, n)]
         /\ UNCHANGED <<row, outbox, reported, connected, lost, copy>>
    BY <1>2 DEF Poll, env, broker
  <2> HIDE DEF n
  <2>3. \A i \in 1..Len(batch'[p]) : i \in 1..Len(outbox) /\ batch'[p][i] = outbox[i]
    BY <1>1, <2>1, <2>2, FirstRows
  <2>4. \A t \in Task : Holds(batch[p], t)' => Holds(outbox, t)
    BY <2>3 DEF Holds
  <2>5. \A q \in Publisher : q # p => batch'[q] = batch[q]
    BY <1>1, <2>2
  <2>6. \A t \in Task, q \in Publisher : Holds(batch[q], t)' => Holds(outbox, t) \/ Holds(batch[q], t)
    BY <2>4, <2>5 DEF Holds
  <2>7. \A t \in Task : (Live(t)' <=> Live(t)) /\ (Holds(outbox, t)' <=> Holds(outbox, t))
    BY <2>2 DEF Live, Holds
  <2>8. Carried' \subseteq Carried
    BY <2>6, <2>7 DEF Carried, Live
  <2> QED
    BY <2>2, <2>8, Releases
<1>3. CASE Delete(p) \/ DeleteFails(p) \/ PublishFails(p) \/ PublisherCrash(p)
  <2>1. /\ UNCHANGED <<row, reported, lost, copy>> /\ connected' \cap Worker = connected \cap Worker
        /\ \A q \in Publisher : q # p => batch'[q] = batch[q]
        /\ batch'[p] = <<>> \/ (batch[p] # <<>> /\ batch'[p] = Tail(batch[p]))
    BY <1>1, <1>3, ProcessAssumption DEF Delete, DeleteFails, PublishFails, PublisherCrash, IInv, SentInv, env, broker
  <2>2. \A t \in Task : Holds(outbox, t)' => Holds(outbox, t)
    <3>1. CASE UNCHANGED outbox
      BY <3>1 DEF Holds
    <3>2. ASSUME NEW k \in 1..Len(outbox), outbox' = RemoveAt(outbox, k)
          PROVE  \A t \in Task : Holds(outbox, t)' => Holds(outbox, t)
      <4>1. \A i \in 1..Len(outbox') : \E j \in 1..Len(outbox) : outbox'[i] = outbox[j]
        BY <1>1, <3>2, RemovedRow
      <4> QED
        BY <4>1 DEF Holds
    <3> QED
      BY <1>3, <3>1, <3>2 DEF Delete, DeleteRow, DeleteFails, PublishFails, PublisherCrash, env
  <2>3. \A t \in Task : Holds(batch[p], t)' => Holds(batch[p], t)
    <3>1. CASE batch'[p] = <<>>
      <4>1. Len(batch'[p]) = 0
        BY <3>1, EmptySeq
      <4> QED
        BY <4>1 DEF Holds
    <3>2. CASE batch[p] # <<>> /\ batch'[p] = Tail(batch[p])
      <4>1. \A i \in 1..Len(batch'[p]) : i + 1 \in 1..Len(batch[p]) /\ batch'[p][i] = batch[p][i + 1]
        BY <1>1, <3>2, TailOf
      <4> QED
        BY <4>1 DEF Holds
    <3> QED
      BY <2>1, <3>1, <3>2
  <2>4. \A t \in Task : Live(t)' => Live(t)
    <3>1. \A c \in Copy : copy[c].at # None => copy[c].at \in Worker
      BY <1>1 DEF CopyRecord
    <3> QED
      BY <2>1, <3>1 DEF Live
  <2>5. \A t \in Task, q \in Publisher : Holds(batch[q], t)' => Holds(batch[q], t)
    BY <2>1, <2>3 DEF Holds
  <2>6. Carried' \subseteq Carried
    BY <2>2, <2>4, <2>5 DEF Carried, Live
  <2> QED
    BY <2>1, <2>6, Releases
<1>4. CASE Publish(p)
  <2>1. batch[p] \in Seq(Message) /\ batch[p] # <<>>
         /\ UNCHANGED <<row, outbox, batch, reported, connected>>
    BY <1>1, <1>4 DEF Publish, env
  <2>2. PICK m \in Message : m = Head(batch[p]) /\ Enqueue(m) /\ Due(m)
         /\ (m.tier # "dlq" => Holds(batch[p], m.task))
    <3>1. Head(batch[p]) \in Message /\ Head(batch[p]) = batch[p][1] /\ 1 \in 1..Len(batch[p])
      BY <2>1, TailOf
    <3> QED
      BY <1>4, <3>1 DEF Publish, IInv, MessageInv, Holds
  <2>3. m.task \in Task /\ m.tier \in Tier /\ None \notin Task
    BY BoundAssumption DEF Message
  <2>4. CASE Bound(m)
    <3>1. PICK c \in Copy : /\ UNCHANGED lost
                            /\ copy'[c] = [place |-> Routed(m.tier), task |-> m.task, at |-> None]
                            /\ \A d \in Copy : d # c => copy'[d] = copy[d]
      BY <1>1, <2>2, <2>4 DEF Enqueue
    <3>2. copy'[c].place = Routed(m.tier) /\ copy'[c].task = m.task
      BY <3>1
    <3>3. m.tier = "dlq" => Routed(m.tier) = "dlq"
      BY DEF Routed
    <3>4. \A t \in Task : Live(t)' => Live(t) \/ Holds(batch[p], t)
      BY <2>1, <2>2, <3>1, <3>2, <3>3 DEF Live
    <3>5. Carried' \subseteq Carried
      BY <2>1, <3>4 DEF Carried, Live
    <3> QED
      BY <2>1, <3>1, <3>5, Releases
  <2>5. CASE ~ Bound(m)
    <3>1. UNCHANGED copy /\ lost' = lost \cup {m.task}
      BY <2>2, <2>5 DEF Enqueue
    <3>2. UNCHANGED <<Open, Closed, Carried>>
      BY <2>1, <3>1 DEF Open, Closed, Final, Carried, Holds
    <3>3. m.task \in Carried \cup Closed
      BY <2>2, <2>3, CarriedIs DEF Closed, Final, Due
    <3>4. D!Lose({m.task})
      <4>1. Carried' = Carried \ {} /\ reported' = reported \ {} /\ {} \in SUBSET {m.task}
        BY <2>1, <3>2
      <4> QED
        BY <3>1, <3>2, <3>3, <4>1 DEF D!Lose, Open, Closed
    <3> QED
      BY <2>3, <3>4 DEF D!Next
  <2> QED
    BY <2>4, <2>5
<1> QED
  BY <1>2, <1>3, <1>4 DEF Publishing, PublishFaults

LEMMA BrokerRefines ==
    ASSUME IInv, IInv',
           \/ BrokerRestart
           \/ \E c \in Copy : Expire(c) \/ \E w \in Worker : Deliver(c, w)
    PROVE  D!Next
<1>1. copy \in [Copy -> CopyRecord] /\ None \notin Task /\ \A d \in Copy : CopyOK(d)
  BY CopyRecords, BoundAssumption DEF IInv, CopyInv
<1>2. CASE BrokerRestart
  <2> DEFINE hit == {t \in Task : \/ \E c \in Copy : copy[c].task = t
                                  \/ \E p \in sent : Head(batch[p]).task = t
                                  \/ t \in reported}
             dropped == hit \cap (Carried \cup reported \cup Closed)
  <2>1. /\ UNCHANGED <<row, outbox, batch>> /\ connected' = {}
        /\ lost' = lost \cup hit
        /\ reported' = {t \in reported : Final(t)}
        /\ \A d \in Copy : copy'[d] = IF copy[d].at = None THEN Free ELSE copy[d]
    BY <1>2 DEF BrokerRestart
  <2>2. ASSUME NEW t \in hit PROVE t \in lost \cup dropped
    <3>1. ASSUME NEW c \in Copy, copy[c].task = t PROVE t \in lost \cup Carried \cup Closed
      <4>1. t \in Task /\ copy[c] # Free
        BY <1>1, <3>1 DEF Free
      <4>2. copy[c].place = "dlq" => t \in Closed
        BY <1>1, <3>1, <4>1 DEF CopyOK, Closed, Final
      <4>3. copy[c].at \notin connected \cup {None} => t \in lost
        BY <1>1, <3>1, <4>1 DEF CopyOK
      <4>4. copy[c].place # "dlq" /\ copy[c].at \in connected \cup {None} => t \in Carried
        BY <3>1, <4>1 DEF Carried
      <4> QED
        BY <4>2, <4>3, <4>4
    <3>2. ASSUME NEW p \in sent, Head(batch[p]).task = t PROVE t \in Carried \cup Closed
      <4>1. p \in Publisher /\ batch[p] \in Seq(Message) /\ batch[p] # <<>>
        BY DEF IInv, TypeOK, SentInv
      <4>2. Head(batch[p]) \in Message /\ Head(batch[p]) = batch[p][1] /\ 1 \in 1..Len(batch[p])
        BY <4>1, TailOf
      <4>3. Due(Head(batch[p]))
        BY <4>1, <4>2 DEF IInv, MessageInv
      <4>4. Head(batch[p]).tier # "dlq" => Holds(batch[p], t)
        BY <3>2, <4>2 DEF Holds
      <4> QED
        BY <3>2, <4>1, <4>3, <4>4, CarriedIs DEF Due, Closed, Final
    <3> QED
      BY <3>1, <3>2
  <2>3. \A t \in Task : ~ Live(t)'
    <3>1. ASSUME NEW c \in Copy, NEW t \in Task, copy'[c].task = t, copy'[c].at \in {None} PROVE FALSE
      BY <1>1, <2>1, <3>1 DEF Free
    <3> QED
      BY <2>1, <3>1 DEF Live
  <2>4. Carried' \subseteq Carried /\ Carried \ Carried' \subseteq dropped
    <3>1. \A t \in Task : t \in Carried' <=> Holds(outbox, t) \/ \E p \in Publisher : Holds(batch[p], t)
      BY <2>1, <2>3 DEF Carried, Live, Holds
    <3>2. \A t \in Carried \ Carried' : t \in Task /\ Live(t)
      BY <3>1, CarriedIs
    <3> QED
      BY <3>1, <3>2, CarriedIs DEF Carried, Live
  <2>5. UNCHANGED <<Open, Closed>>
    BY <2>1 DEF Open, Closed, Final
  <2>6. reported \ reported' \subseteq dropped /\ reported' \subseteq reported
    BY <2>1 DEF IInv, TypeOK
  <2>7. lost' = lost \cup dropped /\ dropped \in SUBSET Task
         /\ dropped \subseteq Carried \cup reported \cup Closed
    BY <2>1, <2>2
  <2> HIDE DEF dropped
  <2>8. D!Lose(dropped)
    <3>1. Carried' = Carried \ (Carried \ Carried') /\ reported' = reported \ (reported \ reported')
      BY <2>4, <2>6
    <3> QED
      BY <2>4, <2>5, <2>6, <2>7, <3>1 DEF D!Lose, Open, Closed
  <2> QED
    BY <2>7, <2>8 DEF D!Next
<1>3. ASSUME NEW c \in Copy, Expire(c) PROVE D!Next
  <2>1. copy[c].place = "parked" /\ copy[c].at = None /\ copy[c].task \in Task
    BY <1>1, <1>3 DEF Expire, CopyOK, Free, AtWorker, InGoroutine
  <2>2. UNCHANGED <<row, outbox, batch, reported, connected>>
    BY <1>3 DEF Expire, env
  <2>3. copy[c].task \in Carried
    BY <2>1 DEF Carried
  <2>4. CASE MoveCopy(c, "queue") /\ UNCHANGED lost
    <3>1. copy'[c].task = copy[c].task /\ \A d \in Copy : d # c => copy'[d] = copy[d]
      BY <2>4, MoveType DEF IInv, Place
    <3>2. \A d \in Copy : CopyBack(d)
      BY <2>1, <2>2, <3>1 DEF CopyBack
    <3>3. Carried' \subseteq Carried
      BY <2>2, <3>2, NothingNew
    <3> QED
      BY <2>2, <2>4, <3>3, Releases
  <2>5. CASE copy' = [copy EXCEPT ![c] = Free] /\ lost' = lost \cup {copy[c].task}
    <3>1. copy'[c] = Free /\ \A d \in Copy : d # c => copy'[d] = copy[d]
      BY <1>1, <2>5
    <3>2. \A d \in Copy : CopyBack(d)
      BY <1>1, <2>2, <3>1 DEF CopyBack, Free
    <3>3. Carried' \subseteq Carried
      BY <2>2, <3>2, NothingNew
    <3>4. Carried \ {copy[c].task} \subseteq Carried'
      <4>1. \A t \in Task : t # copy[c].task /\ Live(t) => Live(t)'
        BY <2>2, <3>1 DEF Live
      <4> QED
        BY <2>2, <4>1, CarriedIs DEF Carried, Live, Holds
    <3>5. UNCHANGED <<Open, Closed>>
      BY <2>2 DEF Open, Closed, Final
    <3>6. D!Lose({copy[c].task})
      <4>1. \E gone \in SUBSET {copy[c].task} : Carried' = Carried \ gone
        <5>1. Carried \ Carried' \in SUBSET {copy[c].task} /\ Carried' = Carried \ (Carried \ Carried')
          BY <3>3, <3>4
        <5> QED
          BY <5>1
      <4>2. {} \in SUBSET {copy[c].task} /\ reported' = reported \ {}
        BY <2>2
      <4> QED
        BY <2>3, <2>5, <3>5, <4>1, <4>2 DEF D!Lose, Open, Closed
    <3> QED
      BY <2>1, <3>6 DEF D!Next
  <2> QED
    BY <1>3, <2>4, <2>5 DEF Expire
<1>4. ASSUME NEW c \in Copy, NEW w \in Worker, Deliver(c, w) PROVE D!Next
  <2>1. UNCHANGED <<row, outbox, batch, reported, connected, lost>>
    BY <1>4 DEF Deliver, env, broker
  <2>2. copy[c].place = "queue" /\ copy[c].at = None
    BY <1>1, <1>4 DEF Deliver, CopyOK, Free, AtWorker, InGoroutine
  <2>3. /\ copy'[c].task = copy[c].task
        /\ \A d \in Copy : d # c => copy'[d] = copy[d]
    <3>1. /\ copy'[c] = [place |-> "channel", task |-> copy[c].task, at |-> w]
          /\ \A d \in Copy : d # c => copy'[d] = copy[d]
      BY <1>4, DeliverType DEF IInv
    <3> QED
      BY <3>1
  <2>4. \A d \in Copy : CopyBack(d)
    BY <2>1, <2>2, <2>3 DEF CopyBack
  <2>5. Carried' \subseteq Carried
    BY <2>1, <2>4, NothingNew
  <2> QED
    BY <2>1, <2>5, Releases
<1> QED
  BY <1>2, <1>3, <1>4

\* A copy that a worker keeps in hand or gives back.
LEMMA WorkerCopyBack ==
    ASSUME TypeOK, NEW c \in Copy, CopyOK(c), connected' \subseteq connected,
           \/ copy'[c] = copy[c]
           \/ copy'[c] = Free
           \/ copy[c].at # None /\ copy'[c] = Requeued(c)
           \/ copy[c].at # None /\ copy'[c].task = copy[c].task /\ copy'[c].at = copy[c].at
    PROVE  CopyBack(c)
<1>1. Requeued(c) = IF copy[c].at \in connected
                    THEN [place |-> "queue", task |-> copy[c].task, at |-> None] ELSE Free
  BY RequeuedType
<1>2. None \notin Task /\ "dlq" \notin AtWorker
  BY BoundAssumption DEF AtWorker, InGoroutine
<1>3. CASE copy'[c] = copy[c]
  BY <1>3 DEF CopyBack
<1>4. CASE copy'[c] = Free
  BY <1>2, <1>4 DEF CopyBack, Free
<1>5. CASE copy[c].at # None /\ copy'[c] = Requeued(c)
  <2>1. copy[c].place # "dlq"
    BY <1>2, <1>5 DEF CopyOK, Free
  <2>2. CASE copy[c].at \in connected
    <3>1. copy'[c].task = copy[c].task
      BY <1>1, <1>5, <2>2
    <3> QED
      BY <2>1, <2>2, <3>1 DEF CopyBack
  <2>3. CASE copy[c].at \notin connected
    BY <1>1, <1>2, <1>5, <2>3 DEF CopyBack, Free
  <2> QED
    BY <2>2, <2>3
<1>6. CASE copy[c].at # None /\ copy'[c].task = copy[c].task /\ copy'[c].at = copy[c].at
  BY <1>2, <1>6 DEF CopyBack, CopyOK, Free
<1> QED
  BY <1>3, <1>4, <1>5, <1>6

LEMMA WorkerRefines ==
    ASSUME IInv, IInv', NEW w \in Worker,
           \/ \E c \in Copy : Acquire(c, w) \/ Goroutine(c, w) \/ LoopReturnsDelivery(w, c)
           \/ \E a \in Activity : LoopEnds(w, a)
           \/ Start(w) \/ StartPartly(w) \/ Process(w) \/ Stop(w) \/ WorkerCrash(w)
    PROVE  D!Next
<1>1. /\ copy \in [Copy -> CopyRecord] /\ w # None /\ None \notin Task
      /\ TypeOK /\ \A d \in Copy : CopyOK(d)
  BY CopyRecords, BoundAssumption DEF IInv, CopyInv
<1>2. ASSUME NEW c \in Copy, PublishResult(c, w) PROVE D!Next
  <2>1. /\ copy[c].at = w /\ copy[c].place = "publish" /\ w \in connected
        /\ reported' = reported \cup {copy[c].task} /\ MoveCopy(c, "ack")
        /\ UNCHANGED <<row, outbox, batch, connected, lost>>
    BY <1>2 DEF PublishResult, broker
  <2>2. copy[c].task \in Task
    BY <1>1, <2>1 DEF CopyOK, Free
  <2>3. copy[c].task \in Carried
    BY <2>1, <2>2 DEF Carried
  <2>4. /\ copy'[c].place = "ack" /\ copy'[c].task = copy[c].task /\ copy'[c].at = copy[c].at
        /\ \A d \in Copy : d # c => copy'[d] = copy[d]
    BY <1>1, <2>1, MoveType DEF Place, AtWorker, InGoroutine
  <2>5. \A t \in Task : Live(t)' <=> Live(t)
    BY <2>1, <2>4 DEF Live
  <2>6. UNCHANGED <<Open, Closed, Carried>>
    BY <2>1, <2>5 DEF Open, Closed, Final, Carried, Live, Holds
  <2>7. D!Answer(copy[c].task)
    BY <2>1, <2>3, <2>6 DEF D!Answer, Open, Closed
  <2> QED
    BY <2>2, <2>7 DEF D!Next
<1>3. ASSUME UNCHANGED <<row, outbox, batch, reported, lost>>, \A d \in Copy : CopyBack(d) PROVE D!Next
  BY <1>3, NothingNew, Releases
<1>4. ASSUME NEW c \in Copy, Acquire(c, w) \/ (Goroutine(c, w) /\ ~ PublishResult(c, w)
       /\ ~ Acknowledge(c, w))
      PROVE  D!Next
  <2>1. PICK place \in Place : MoveCopy(c, place) /\ copy[c].at = w
    BY <1>4 DEF Acquire, Goroutine, Spawn, CheckDuplicate, CheckFails, HandlerReturns, PublishResultFails,
       Place, AtWorker, InGoroutine
  <2>2. UNCHANGED <<row, outbox, batch, reported, connected, lost>>
    BY <1>4 DEF Acquire, Goroutine, Spawn, CheckDuplicate, CheckFails, HandlerReturns, PublishResultFails,
       env, broker
  <2>3. /\ copy'[c].task = copy[c].task /\ copy'[c].at = copy[c].at
        /\ \A d \in Copy : d # c => copy'[d] = copy[d]
    BY <1>1, <2>1, MoveType
  <2>4. \A d \in Copy : CopyBack(d)
    BY <1>1, <2>1, <2>2, <2>3, WorkerCopyBack
  <2> QED
    BY <1>3, <2>2, <2>4
<1>5. ASSUME NEW c \in Copy, Acknowledge(c, w) \/ LoopReturnsDelivery(w, c) PROVE D!Next
  <2>1. /\ copy[c].at = w /\ (copy'[c] = Free \/ copy'[c] = Requeued(c))
        /\ \A d \in Copy : d # c => copy'[d] = copy[d]
    BY <1>1, <1>5 DEF Acknowledge, LoopReturnsDelivery
  <2>2. UNCHANGED <<row, outbox, batch, reported, connected, lost>>
    BY <1>5 DEF Acknowledge, LoopReturnsDelivery, env, broker
  <2>3. \A d \in Copy : CopyBack(d)
    BY <1>1, <2>1, <2>2, WorkerCopyBack
  <2> QED
    BY <1>3, <2>2, <2>3
<1>6. ASSUME NEW a \in Activity, LoopEnds(w, a) PROVE D!Next
  <2>1. \A d \in Copy : copy'[d] = Free \/ copy'[d] = copy[d]
    BY <1>1, <1>6 DEF LoopEnds
  <2>2. UNCHANGED <<row, outbox, batch, reported, connected, lost>>
    BY <1>6 DEF LoopEnds, env, broker
  <2>3. \A d \in Copy : CopyBack(d)
    BY <1>1, <2>1, <2>2, WorkerCopyBack
  <2> QED
    BY <1>3, <2>2, <2>3
<1>7. ASSUME Start(w) \/ StartPartly(w) PROVE D!Next
  <2>1. UNCHANGED <<row, outbox, batch, reported, lost, copy>>
         /\ connected' = connected \cup {w} /\ worker[w].mode = "down"
    BY <1>7 DEF Start, StartPartly, env
  <2>2. \A d \in Copy : copy[d].at # w
    BY <1>1, <2>1 DEF CopyOK, Free
  <2>3. \A d \in Copy : CopyBack(d)
    BY <2>1, <2>2 DEF CopyBack
  <2> QED
    BY <1>3, <2>1, <2>3
<1>8. ASSUME ReleaseSlot(w) \/ LeaveGroup(w) \/ Drained(w) \/ Stop(w) PROVE D!Next
  <2>1. UNCHANGED <<row, outbox, batch, reported, lost, copy, connected>>
    BY <1>8 DEF ReleaseSlot, LeaveGroup, Drained, Stop, env, broker
  <2>2. \A d \in Copy : CopyBack(d)
    BY <2>1 DEF CopyBack
  <2> QED
    BY <1>3, <2>1, <2>2
<1>9. ASSUME Exit(w) \/ WorkerCrash(w) PROVE D!Next
  <2>1. /\ UNCHANGED <<row, outbox, batch, reported, lost>> /\ connected' \subseteq connected
        /\ \A d \in Copy : copy'[d] = IF copy[d].at = w THEN Requeued(d) ELSE copy[d]
    BY <1>1, <1>9 DEF Exit, WorkerCrash, Gone, env
  <2>2. \A d \in Copy : CopyBack(d)
    BY <1>1, <2>1, WorkerCopyBack
  <2> QED
    BY <1>3, <2>1, <2>2
<1> QED
  BY <1>2, <1>4, <1>5, <1>6, <1>7, <1>8, <1>9 DEF Goroutine, Process

\* Outbox, broker and workers together deliver every task at least once: a task is carried
\* until it is reported or nobody waits for it any more, or the broker drops its message.
THEOREM AtLeastOnce == Spec => DeliversAtLeastOnce
<1>1. Init => D!Init
  <2> SUFFICES ASSUME Init PROVE D!Init
    OBVIOUS
  <2>1. Open = {} /\ Closed = {}
    BY DEF Init, Open, Closed, Final
  <2>2. Len(<<>>) = 0
    BY EmptySeq
  <2>3. Carried = {}
    BY <2>2, BoundAssumption DEF Init, Carried, Holds, Free
  <2> QED
    BY <2>1, <2>3 DEF Init, D!Init, Open, Closed
<1>2. IInv /\ IInv' /\ [Next]_vars => [D!Next]_D!vars
  <2>1. ASSUME IInv, IInv', Next PROVE D!Next \/ UNCHANGED D!vars
    BY <2>1, CommitsRefine, PublisherRefines, BrokerRefines, WorkerRefines DEF Next
  <2>2. ASSUME UNCHANGED vars PROVE UNCHANGED D!vars
    BY <2>2 DEF vars, D!vars, Carried, Holds, Final
  <2> QED
    BY <2>1, <2>2
<1> QED
  BY <1>1, <1>2, Inductive, PTL DEF DeliversAtLeastOnce, D!Spec, Spec
=============================================================================
