--------------------------- MODULE DuplicateProofs ---------------------------
(***************************************************************************)
(* A task runs only as often as its publishers and the faults account for  *)
(* (Dispatch!DuplicatesHaveCause), for any tasks, processes, slots and     *)
(* batches, and any bound on the copies and the faults.                    *)
(*                                                                         *)
(* The count of starts is no invariant by itself: it says nothing of the   *)
(* starts still to come.  The invariant adds them: a publisher that may    *)
(* still publish the task (MayPublish), and a copy that may still be run   *)
(* (MayRun).  A fault brings one of these back, or makes every copy of a   *)
(* worker one that may be run again; the copies are therefore counted, too *)
(* (Working).  The fault of a shutdown is paid for when it begins and used *)
(* when the process ends, so the workers in between are set aside (Ending).*)
(***************************************************************************)
EXTENDS DispatchProofs

-----------------------------------------------------------------------------
(* What may still run a task.                                              *)

IsTask(m, t) == m.task = t /\ m.tier # "dlq"

\* p has published the task and not deleted its row.
Sending(p, t) == p \in sent /\ IsTask(batch[p][1], t)

\* p has read the task and not published it.
Planned(p, t) == \E i \in 1..Len(batch[p]) : IsTask(batch[p][i], t) /\ (i = 1 => p \notin sent)

MayPublish(t) == {p \in Publisher : Planned(p, t) \/ (Holds(outbox, t) /\ ~ Sending(p, t))}

\* The copies that exist, and those of them that a worker will run, now or after a requeue.
Working(t) == {c \in Copy : copy[c].task = t /\ copy[c].place # "dlq"}
Fresh(c) == \/ copy[c].place \notin {"run", "publish", "ack", "nack"}
            \/ copy[c].place = "nack" /\ copy[c].at \in connected
MayRun(t) == {c \in Working(t) : Fresh(c)}

\* Workers that will end without a further fault.
Ending == {w \in Worker : worker[w].mode \in {"stopping", "drained"}}

-----------------------------------------------------------------------------
(* The inductive invariant.                                                *)

\* A task has one message, of which outbox and batches hold copies.
SameTask(m, n) == m.task = n.task /\ m.tier # "dlq" /\ n.tier # "dlq"
OnceIn(s) == \A i, j \in 1..Len(s) : SameTask(s[i], s[j]) => i = j
SameRow(s, r) == \A i \in 1..Len(s), j \in 1..Len(r) : SameTask(s[i], r[j]) => s[i] = r[j]
OnceInv == OnceIn(outbox) /\ \A p \in Publisher : OnceIn(batch[p]) /\ SameRow(batch[p], outbox)

Publishers == Cardinality(Publisher)
Causes == Publishers + faults
Rounds == 1 + faults - Cardinality(Ending)

Budget(t) ==
    /\ row[t] = "NONE" => starts[t] = 0
    /\ Cardinality(MayPublish(t)) + Cardinality(Working(t)) <= Causes
    /\ starts[t] + Cardinality(MayPublish(t)) + Cardinality(MayRun(t)) <= Causes * Rounds

EndingInv == IsFiniteSet(Ending) /\ Cardinality(Ending) <= faults

DInv == IInv /\ OnceInv /\ \A t \in Task : EndingInv /\ Budget(t)

-----------------------------------------------------------------------------
(* What a step may do to the counts of a task.                             *)

MessagesKept(t) == MayPublish(t)' \subseteq MayPublish(t)
WorkKept(t) == Working(t)' \subseteq Working(t) /\ starts'[t] = starts[t]
RunKept(t) == MayRun(t)' \subseteq MayRun(t)
EndingKept == Ending' \subseteq Ending /\ faults' \in {faults, faults + 1}
FaultKept == Ending' = Ending /\ faults' = faults

\* Nothing, or a fault that brings nothing back.
Less(t) == MessagesKept(t) /\ WorkKept(t) /\ RunKept(t) /\ EndingKept

\* A publisher becomes a copy.
Publishes(t) ==
    /\ \E p \in MayPublish(t) : MayPublish(t)' \subseteq MayPublish(t) \ {p}
    /\ \E c \in Copy \ Working(t) :
          Working(t)' \subseteq Working(t) \cup {c} /\ MayRun(t)' \subseteq MayRun(t) \cup {c}
    /\ starts'[t] = starts[t]
    /\ FaultKept

\* A copy is run.
Runs(t) ==
    /\ MessagesKept(t) /\ Working(t)' \subseteq Working(t)
    /\ \E c \in MayRun(t) : MayRun(t)' \subseteq MayRun(t) \ {c}
    /\ starts'[t] = starts[t] + 1
    /\ EndingKept

\* A fault brings a publisher or the copies back.
Repeats(t) ==
    /\ WorkKept(t)
    /\ \/ RunKept(t) /\ \E p \in Publisher : MayPublish(t)' \subseteq MayPublish(t) \cup {p}
       \/ MessagesKept(t)
    /\ Ending' \subseteq Ending /\ faults' = faults + 1

\* A shutdown begins; its process ends.
Stops(t) ==
    /\ MessagesKept(t) /\ WorkKept(t) /\ RunKept(t)
    /\ \E w \in Worker : Ending' \subseteq Ending \cup {w}
    /\ faults' = faults + 1
Ends(t) ==
    /\ MessagesKept(t) /\ WorkKept(t)
    /\ \E w \in Ending : Ending' \subseteq Ending \ {w}
    /\ faults' = faults

\* The task is committed.
Begins(t) ==
    /\ row[t] = "NONE" /\ row'[t] # "NONE" /\ starts'[t] = starts[t]
    /\ Working(t)' = {} /\ FaultKept

Counted(t) == Less(t) \/ Publishes(t) \/ Runs(t) \/ Repeats(t) \/ Stops(t) \/ Ends(t) \/ Begins(t)

-----------------------------------------------------------------------------
(* Counting.                                                               *)

LEMMA Products ==
    ASSUME NEW q \in Nat, NEW g \in Nat, NEW r \in Nat, NEW h \in Nat, q <= r, g <= h
    PROVE  /\ q * g \in Nat /\ r * h \in Nat
           /\ q * g <= r * h
           /\ g < h => q * g + q <= r * h
           /\ g < h /\ q < r => q * g + q + 1 <= r * h
<1>1. PICK a \in Nat : r = q + a
  <2>1. r - q \in Nat /\ r = q + (r - q)
    OBVIOUS
  <2> QED
    BY <2>1
<1>2. PICK b \in Nat : h = g + b
  <2>1. h - g \in Nat /\ h = g + (h - g)
    OBVIOUS
  <2> QED
    BY <2>1
<1>3. r * h = q * g + q * b + a * g + a * b
  BY <1>1, <1>2
<1>4. q * g \in Nat /\ q * b \in Nat /\ a * g \in Nat /\ a * b \in Nat
  OBVIOUS
<1>5. b >= 1 => q * b >= q
  <2>1. ASSUME b >= 1 PROVE q * b >= q
    <3>1. PICK d \in Nat : b = d + 1
      <4>1. b - 1 \in Nat /\ b = b - 1 + 1
        BY <2>1
      <4> QED
        BY <4>1
    <3>2. q * b = q * d + q /\ q * d \in Nat
      BY <3>1
    <3> QED
      BY <3>2
  <2> QED
    BY <2>1
<1>6. a >= 1 /\ b >= 1 => a * b >= 1
  <2>1. ASSUME a >= 1, b >= 1 PROVE a * b >= 1
    <3>1. PICK d \in Nat : b = d + 1
      <4>1. b - 1 \in Nat /\ b = b - 1 + 1
        BY <2>1
      <4> QED
        BY <4>1
    <3>2. a * b = a * d + a /\ a * d \in Nat
      BY <3>1
    <3> QED
      BY <2>1, <3>2
  <2> QED
    BY <2>1
<1>7. q * g <= r * h
  BY <1>3, <1>4
<1>8. g < h => q * g + q <= r * h
  BY <1>2, <1>3, <1>4, <1>5
<1>9. g < h /\ q < r => q * g + q + 1 <= r * h
  BY <1>1, <1>2, <1>3, <1>4, <1>5, <1>6
<1> QED
  BY <1>3, <1>4, <1>7, <1>8, <1>9

LEMMA CountSets ==
    ASSUME NEW t \in Task
    PROVE  /\ IsFiniteSet(MayPublish(t)) /\ IsFiniteSet(Working(t)) /\ IsFiniteSet(MayRun(t))
           /\ Cardinality(MayPublish(t)) \in Nat
           /\ Cardinality(Working(t)) \in Nat
           /\ Cardinality(MayRun(t)) \in Nat
           /\ Cardinality(MayRun(t)) <= Cardinality(Working(t))
           /\ Cardinality(MayPublish(t)) <= Publishers
           /\ Publishers \in Nat
<1>1. IsFiniteSet(Publisher) /\ IsFiniteSet(Copy)
  BY ProcessAssumption
<1>2. MayPublish(t) \subseteq Publisher /\ Working(t) \subseteq Copy /\ MayRun(t) \subseteq Working(t)
  BY DEF MayPublish, Working, MayRun
<1>3. IsFiniteSet(MayPublish(t)) /\ Cardinality(MayPublish(t)) <= Publishers
  BY <1>1, <1>2, FS_Subset DEF Publishers
<1>4. IsFiniteSet(Working(t))
  BY <1>1, <1>2, FS_Subset
<1>5. IsFiniteSet(MayRun(t)) /\ Cardinality(MayRun(t)) <= Cardinality(Working(t))
  BY <1>2, <1>4, FS_Subset
<1> QED
  BY <1>1, <1>3, <1>4, <1>5, FS_CardinalityType DEF Publishers

\* How a finite set of any kind grows and shrinks.
LEMMA SetSizes ==
    ASSUME NEW S, NEW T, IsFiniteSet(S)
    PROVE  /\ T \subseteq S => IsFiniteSet(T) /\ Cardinality(T) <= Cardinality(S)
           /\ \A x : T \subseteq S \cup {x} => IsFiniteSet(T) /\ Cardinality(T) <= Cardinality(S) + 1
           /\ \A x \in S : T \subseteq S \ {x} => IsFiniteSet(T) /\ Cardinality(T) + 1 <= Cardinality(S)
           /\ Cardinality(S) \in Nat
           /\ IsFiniteSet(T) => Cardinality(T) \in Nat
<1>1. T \subseteq S => IsFiniteSet(T) /\ Cardinality(T) <= Cardinality(S)
  BY FS_Subset
<1>2. ASSUME NEW x, T \subseteq S \cup {x} PROVE IsFiniteSet(T) /\ Cardinality(T) <= Cardinality(S) + 1
  <2>1. /\ IsFiniteSet(S \cup {x})
        /\ Cardinality(S \cup {x}) = Cardinality(S) \/ Cardinality(S \cup {x}) = Cardinality(S) + 1
    BY FS_AddElement
  <2>2. IsFiniteSet(T) /\ Cardinality(T) <= Cardinality(S \cup {x})
    BY <1>2, <2>1, FS_Subset
  <2>3. Cardinality(S) \in Nat /\ Cardinality(T) \in Nat
    BY <2>2, FS_CardinalityType
  <2> QED
    BY <2>1, <2>2, <2>3
<1>3. ASSUME NEW x \in S, T \subseteq S \ {x} PROVE IsFiniteSet(T) /\ Cardinality(T) + 1 <= Cardinality(S)
  <2>1. IsFiniteSet(S \ {x}) /\ Cardinality(S \ {x}) = Cardinality(S) - 1
    BY FS_RemoveElement
  <2>2. IsFiniteSet(T) /\ Cardinality(T) <= Cardinality(S \ {x})
    BY <1>3, <2>1, FS_Subset
  <2>3. Cardinality(S) \in Nat /\ Cardinality(T) \in Nat
    BY <2>2, FS_CardinalityType
  <2> QED
    BY <2>1, <2>2, <2>3
<1> QED
  BY <1>1, <1>2, <1>3, FS_CardinalityType

\* Every kind of step keeps the budget.
LEMMA EndingCounted ==
    ASSUME DInv, NEW t \in Task, Counted(t)
    PROVE  EndingInv' /\ faults' \in Nat /\ Cardinality(Ending') \in Nat
<1>1. faults \in Nat /\ IsFiniteSet(Ending) /\ Cardinality(Ending) <= faults /\ Cardinality(Ending) \in Nat
  BY BoundAssumption, FS_CardinalityType DEF DInv, EndingInv, IInv, TypeOK
<1>2. CASE EndingKept \/ FaultKept \/ (Ending' \subseteq Ending /\ faults' = faults + 1)
  <2>1. Ending' \subseteq Ending /\ faults' \in {faults, faults + 1}
    BY <1>2 DEF EndingKept, FaultKept
  <2>2. IsFiniteSet(Ending') /\ Cardinality(Ending') <= Cardinality(Ending) /\ Cardinality(Ending') \in Nat
    BY <1>1, <2>1, SetSizes
  <2> QED
    BY <1>1, <2>1, <2>2 DEF EndingInv
<1>3. CASE Stops(t)
  <2>1. PICK w \in Worker : Ending' \subseteq Ending \cup {w}
    BY <1>3 DEF Stops
  <2>2. faults' = faults + 1
    BY <1>3 DEF Stops
  <2>3. IsFiniteSet(Ending') /\ Cardinality(Ending') <= Cardinality(Ending) + 1 /\ Cardinality(Ending') \in Nat
    BY <1>1, <2>1, SetSizes
  <2> QED
    BY <1>1, <2>2, <2>3 DEF EndingInv
<1>4. CASE Ends(t)
  <2>1. Ending' \subseteq Ending /\ faults' = faults
    BY <1>4 DEF Ends
  <2>2. IsFiniteSet(Ending') /\ Cardinality(Ending') <= Cardinality(Ending) /\ Cardinality(Ending') \in Nat
    BY <1>1, <2>1, SetSizes
  <2> QED
    BY <1>1, <2>1, <2>2 DEF EndingInv
<1> QED
  BY <1>2, <1>3, <1>4 DEF Counted, Less, Publishes, Runs, Repeats, Begins

\* The bound grows with a fault, and with the end of a process.
LEMMA BoundGrows ==
    ASSUME NEW n \in Nat, NEW f \in Nat, NEW e \in Nat, NEW f1 \in Nat, NEW e1 \in Nat,
           e <= f, e1 <= f1, f <= f1, e1 - e <= f1 - f
    PROVE  /\ (n + f) * (1 + f - e) \in Nat /\ (n + f1) * (1 + f1 - e1) \in Nat
           /\ (n + f) * (1 + f - e) <= (n + f1) * (1 + f1 - e1)
           /\ e1 < e \/ (f1 = f + 1 /\ e1 <= e) =>
                 (n + f) * (1 + f - e) + n + f <= (n + f1) * (1 + f1 - e1)
           /\ f1 = f + 1 /\ e1 <= e =>
                 (n + f) * (1 + f - e) + n + f + 1 <= (n + f1) * (1 + f1 - e1)
           /\ n + f1 <= (n + f1) * (1 + f1 - e1)
<1>1. PICK q \in Nat, q1 \in Nat, g \in Nat, g1 \in Nat :
         q = n + f /\ q1 = n + f1 /\ g = 1 + f - e /\ g1 = 1 + f1 - e1
  OBVIOUS
<1>2. q <= q1 /\ g <= g1 /\ 1 <= g1
  BY <1>1
<1>3. q * g \in Nat /\ q1 * g1 \in Nat /\ q * g <= q1 * g1
  BY <1>2, Products
<1>4. g < g1 => q * g + q <= q1 * g1
  BY <1>2, Products
<1>5. g < g1 /\ q < q1 => q * g + q + 1 <= q1 * g1
  BY <1>2, Products
<1>6. q1 * 1 <= q1 * g1
  BY <1>2, Products
<1>7. e1 < e \/ (f1 = f + 1 /\ e1 <= e) => g < g1
  BY <1>1
<1>8. f1 = f + 1 /\ e1 <= e => g < g1 /\ q < q1
  BY <1>1
<1>9. (n + f) * (1 + f - e) = q * g /\ (n + f1) * (1 + f1 - e1) = q1 * g1
  BY <1>1
<1> QED
  BY <1>1, <1>3, <1>4, <1>5, <1>6, <1>7, <1>8, <1>9

LEMMA BudgetKept ==
    ASSUME DInv, NEW t \in Task, Counted(t), row'[t] = "NONE" => row[t] = "NONE", starts'[t] \in Nat
    PROVE  Budget(t)'
<1>1. PICK p \in Nat, w \in Nat, r \in Nat, n \in Nat :
         /\ p = Cardinality(MayPublish(t)) /\ w = Cardinality(Working(t)) /\ r = Cardinality(MayRun(t))
         /\ n = Publishers /\ r <= w /\ p <= n
  BY CountSets
<1>2. /\ IsFiniteSet(MayPublish(t)') /\ IsFiniteSet(Working(t)') /\ IsFiniteSet(MayRun(t)')
      /\ MayPublish(t)' \subseteq Publisher /\ MayRun(t)' \subseteq Working(t)'
  <2>1. /\ MayPublish(t)' \subseteq Publisher /\ Working(t)' \subseteq Copy
        /\ MayRun(t)' \subseteq Working(t)'
    BY DEF MayPublish, Working, MayRun
  <2>2. IsFiniteSet(Publisher) /\ IsFiniteSet(Copy)
    BY ProcessAssumption
  <2>3. IsFiniteSet(MayPublish(t)') /\ IsFiniteSet(Working(t)')
    BY <2>1, <2>2, SetSizes
  <2>4. IsFiniteSet(MayRun(t)')
    BY <2>1, <2>3, SetSizes
  <2> QED
    BY <2>1, <2>3, <2>4
<1>3. PICK p1 \in Nat, w1 \in Nat, r1 \in Nat :
         /\ p1 = Cardinality(MayPublish(t)') /\ w1 = Cardinality(Working(t)')
         /\ r1 = Cardinality(MayRun(t)') /\ r1 <= w1 /\ p1 <= n
  <2>1. IsFiniteSet(Publisher)
    BY ProcessAssumption
  <2>2. Cardinality(MayPublish(t)') \in Nat /\ Cardinality(MayPublish(t)') <= n
    BY <1>1, <1>2, <2>1, SetSizes DEF Publishers
  <2>3. Cardinality(Working(t)') \in Nat
    BY <1>2, SetSizes
  <2>4. Cardinality(MayRun(t)') \in Nat /\ Cardinality(MayRun(t)') <= Cardinality(Working(t)')
    BY <1>2, SetSizes
  <2> QED
    BY <2>2, <2>3, <2>4
<1>4. PICK f \in Nat, f1 \in Nat, e \in Nat, e1 \in Nat, s \in Nat, s1 \in Nat :
         /\ f = faults /\ f1 = faults' /\ e = Cardinality(Ending) /\ e1 = Cardinality(Ending')
         /\ s = starts[t] /\ s1 = starts'[t] /\ e <= f /\ e1 <= f1
  <2>1. EndingInv' /\ faults' \in Nat /\ Cardinality(Ending') \in Nat
    BY EndingCounted
  <2>2. faults \in Nat /\ IsFiniteSet(Ending) /\ Cardinality(Ending) <= faults /\ starts[t] \in Nat
    BY BoundAssumption DEF DInv, EndingInv, IInv, TypeOK
  <2>3. Cardinality(Ending) \in Nat
    BY <2>2, FS_CardinalityType
  <2>4. Cardinality(Ending') <= faults'
    BY <2>1 DEF EndingInv
  <2> QED
    BY <2>1, <2>2, <2>3, <2>4
<1>5. p + w <= n + f /\ s + p + r <= (n + f) * (1 + f - e) /\ (row[t] = "NONE" => s = 0)
  BY <1>1, <1>4 DEF DInv, Budget, Causes, Rounds
<1>6. /\ Ending' \subseteq Ending => e1 <= e
      /\ \A v \in Worker : Ending' \subseteq Ending \cup {v} => e1 <= e + 1
      /\ \A v \in Ending : Ending' \subseteq Ending \ {v} => e1 + 1 <= e
  <2>1. IsFiniteSet(Ending)
    BY DEF DInv, EndingInv
  <2> QED
    BY <1>4, <2>1, SetSizes
<1>7. /\ MayPublish(t)' \subseteq MayPublish(t) => p1 <= p
      /\ \A v \in Publisher : MayPublish(t)' \subseteq MayPublish(t) \cup {v} => p1 <= p + 1
      /\ \A v \in MayPublish(t) : MayPublish(t)' \subseteq MayPublish(t) \ {v} => p1 + 1 <= p
  BY <1>1, <1>3, CountSets, SetSizes
<1>8. /\ Working(t)' \subseteq Working(t) => w1 <= w
      /\ \A v \in Copy : Working(t)' \subseteq Working(t) \cup {v} => w1 <= w + 1
  BY <1>1, <1>3, CountSets, SetSizes
<1>9. /\ MayRun(t)' \subseteq MayRun(t) => r1 <= r
      /\ \A v \in Copy : MayRun(t)' \subseteq MayRun(t) \cup {v} => r1 <= r + 1
      /\ \A v \in MayRun(t) : MayRun(t)' \subseteq MayRun(t) \ {v} => r1 + 1 <= r
  BY <1>1, <1>3, CountSets, SetSizes
<1> DEFINE b == (n + f) * (1 + f - e)
           b1 == (n + f1) * (1 + f1 - e1)
<1>10. f <= f1 /\ e1 - e <= f1 - f =>
          /\ b \in Nat /\ b1 \in Nat /\ b <= b1
          /\ e1 < e \/ (f1 = f + 1 /\ e1 <= e) => b + n + f <= b1
          /\ f1 = f + 1 /\ e1 <= e => b + n + f + 1 <= b1
          /\ n + f1 <= b1
  BY <1>4, BoundGrows
<1>11. p + w <= n + f /\ s + p + r <= b
  BY <1>5
<1> HIDE DEF b, b1
<1>12. p1 + w1 <= n + f1 /\ s1 + p1 + r1 <= b1 /\ (row'[t] = "NONE" => s1 = 0)
  <2>1. CASE Less(t)
    <3>1. p1 <= p /\ w1 <= w /\ r1 <= r /\ s1 = s /\ e1 <= e /\ f <= f1
      BY <1>4, <1>6, <1>7, <1>8, <1>9, <2>1 DEF Less, MessagesKept, WorkKept, RunKept, EndingKept
    <3>2. b <= b1 /\ b \in Nat /\ b1 \in Nat
      BY <1>10, <3>1
    <3> QED
      BY <1>5, <1>11, <3>1, <3>2
  <2>2. CASE Publishes(t)
    <3>1. p1 + 1 <= p /\ w1 <= w + 1 /\ r1 <= r + 1 /\ s1 = s /\ f1 = f /\ e1 <= e
      BY <1>4, <1>6, <1>7, <1>8, <1>9, <2>2 DEF Publishes, FaultKept
    <3>2. b <= b1 /\ b \in Nat /\ b1 \in Nat
      BY <1>10, <3>1
    <3> QED
      BY <1>5, <1>11, <3>1, <3>2
  <2>3. CASE Runs(t)
    <3>1. p1 <= p /\ w1 <= w /\ r1 + 1 <= r /\ s1 = s + 1 /\ e1 <= e /\ f <= f1
      BY <1>4, <1>6, <1>7, <1>8, <1>9, <2>3 DEF Runs, MessagesKept, EndingKept
    <3>2. b <= b1 /\ b \in Nat /\ b1 \in Nat
      BY <1>10, <3>1
    <3>3. row[t] # "NONE"
      <4>1. PICK c \in MayRun(t) : TRUE
        BY <2>3 DEF Runs
      <4>2. c \in Copy /\ copy[c].task = t
        BY DEF MayRun, Working
      <4> QED
        BY <4>2, BoundAssumption DEF DInv, IInv, CopyInv, CopyOK, Free
    <3> QED
      BY <1>5, <1>11, <3>1, <3>2, <3>3
  <2>4. CASE Repeats(t)
    <3>1. w1 <= w /\ s1 = s /\ e1 <= e /\ f1 = f + 1 /\ ((r1 <= r /\ p1 <= p + 1) \/ p1 <= p)
      BY <1>4, <1>6, <1>7, <1>8, <1>9, <2>4 DEF Repeats, MessagesKept, WorkKept, RunKept
    <3>2. b + n + f + 1 <= b1 /\ b \in Nat /\ b1 \in Nat
      BY <1>10, <3>1
    <3> QED
      BY <1>1, <1>3, <1>5, <1>11, <3>1, <3>2
  <2>5. CASE Stops(t)
    <3>1. p1 <= p /\ w1 <= w /\ r1 <= r /\ s1 = s /\ e1 <= e + 1 /\ f1 = f + 1
      BY <1>4, <1>6, <1>7, <1>8, <1>9, <2>5 DEF Stops, MessagesKept, WorkKept, RunKept
    <3>2. b <= b1 /\ b \in Nat /\ b1 \in Nat
      BY <1>10, <3>1
    <3> QED
      BY <1>5, <1>11, <3>1, <3>2
  <2>6. CASE Ends(t)
    <3>1. p1 <= p /\ w1 <= w /\ s1 = s /\ e1 + 1 <= e /\ f1 = f
      BY <1>4, <1>6, <1>7, <1>8, <2>6 DEF Ends, MessagesKept, WorkKept
    <3>2. b + n + f <= b1 /\ b \in Nat /\ b1 \in Nat
      BY <1>10, <3>1
    <3> QED
      BY <1>1, <1>3, <1>5, <1>11, <3>1, <3>2
  <2>7. CASE Begins(t)
    <3>1. s1 = 0 /\ row'[t] # "NONE" /\ Working(t)' = {} /\ f1 = f /\ e1 <= e
      BY <1>4, <1>5, <1>6, <2>7 DEF Begins, FaultKept
    <3>2. w1 = 0
      BY <1>3, <3>1, FS_EmptySet
    <3>3. n + f1 <= b1 /\ b1 \in Nat
      BY <1>10, <3>1
    <3> QED
      BY <1>3, <3>1, <3>2, <3>3
  <2> QED
    BY <2>1, <2>2, <2>3, <2>4, <2>5, <2>6, <2>7 DEF Counted
<1>13. Causes' = n + f1 /\ Rounds' = 1 + f1 - e1
  BY <1>1, <1>4 DEF Causes, Rounds, Publishers
<1> QED
  BY <1>3, <1>4, <1>12, <1>13 DEF Budget, b1

-----------------------------------------------------------------------------
(* One message per task.                                                   *)

\* Every row of s1 comes from one of s, and no two from the same.
PartOf(s1, s) ==
    \E at \in [1..Len(s1) -> 1..Len(s)] :
        \A i, j \in 1..Len(s1) : s1[i] = s[at[i]] /\ (at[i] = at[j] => i = j)

LEMMA PartOnce ==
    ASSUME NEW s, NEW s1, PartOf(s1, s), OnceIn(s)
    PROVE  OnceIn(s1) /\ SameRow(s1, s)
<1>1. PICK at \in [1..Len(s1) -> 1..Len(s)] :
         \A i, j \in 1..Len(s1) : s1[i] = s[at[i]] /\ (at[i] = at[j] => i = j)
  BY DEF PartOf
<1>2. \A i \in 1..Len(s1) : at[i] \in 1..Len(s) /\ s1[i] = s[at[i]]
  BY <1>1
<1>3. ASSUME NEW i \in 1..Len(s1), NEW j \in 1..Len(s), SameTask(s1[i], s[j]) PROVE at[i] = j
  BY <1>2, <1>3 DEF OnceIn
<1>4. OnceIn(s1)
  BY <1>1, <1>2, <1>3 DEF OnceIn
<1>5. SameRow(s1, s)
  BY <1>2, <1>3 DEF SameRow
<1> QED
  BY <1>4, <1>5

LEMMA PartSame ==
    ASSUME NEW s, NEW s1, NEW r, NEW r1, PartOf(s1, s), PartOf(r1, r), SameRow(s, r)
    PROVE  SameRow(s1, r1)
<1>1. PICK at \in [1..Len(s1) -> 1..Len(s)] : \A i \in 1..Len(s1) : s1[i] = s[at[i]]
  BY DEF PartOf
<1>2. PICK to \in [1..Len(r1) -> 1..Len(r)] : \A i \in 1..Len(r1) : r1[i] = r[to[i]]
  BY DEF PartOf
<1>3. ASSUME NEW i \in 1..Len(s1), NEW j \in 1..Len(r1), SameTask(s1[i], r1[j]) PROVE s1[i] = r1[j]
  <2>1. at[i] \in 1..Len(s) /\ s1[i] = s[at[i]] /\ to[j] \in 1..Len(r) /\ r1[j] = r[to[j]]
    BY <1>1, <1>2
  <2> QED
    BY <1>3, <2>1 DEF SameRow
<1> QED
  BY <1>3 DEF SameRow

LEMMA PartHolds ==
    ASSUME NEW s, NEW s1, NEW t, PartOf(s1, s), Holds(s1, t)
    PROVE  Holds(s, t)
  BY DEF PartOf, Holds

LEMMA Parts ==
    ASSUME NEW s \in Seq(Message)
    PROVE  /\ PartOf(s, s) /\ PartOf(<<>>, s)
           /\ s # <<>> => PartOf(Tail(s), s)
           /\ \A n \in Nat : n <= Len(s) => PartOf(SubSeq(s, 1, n), s)
           /\ \A k \in 1..Len(s) : PartOf(RemoveAt(s, k), s)
<1>0. Len(s) \in Nat
  BY LenProperties
<1>1. PartOf(s, s)
  <2> DEFINE at == [i \in 1..Len(s) |-> i]
  <2>1. at \in [1..Len(s) -> 1..Len(s)] /\ \A i \in 1..Len(s) : at[i] = i
    OBVIOUS
  <2> HIDE DEF at
  <2> QED
    BY <2>1 DEF PartOf
<1>2. PartOf(<<>>, s)
  <2> DEFINE at == [i \in {} |-> i]
  <2>1. 1..Len(<<>>) = {}
    BY EmptySeq
  <2>2. at \in [{} -> 1..Len(s)]
    OBVIOUS
  <2> HIDE DEF at
  <2>3. \A i, j \in 1..Len(<<>>) : <<>>[i] = s[at[i]] /\ (at[i] = at[j] => i = j)
    BY <2>1
  <2> QED
    BY <2>1, <2>2, <2>3 DEF PartOf
<1>3. ASSUME s # <<>> PROVE PartOf(Tail(s), s)
  <2> DEFINE u == Tail(s)
             at == [i \in 1..Len(u) |-> i + 1]
  <2>1. \A i \in 1..Len(u) : i + 1 \in 1..Len(s) /\ u[i] = s[i + 1]
    BY <1>3, TailOf
  <2>2. at \in [1..Len(u) -> 1..Len(s)] /\ \A i \in 1..Len(u) : at[i] = i + 1
    BY <2>1
  <2> HIDE DEF at, u
  <2>3. \A i, j \in 1..Len(u) : u[i] = s[at[i]] /\ (at[i] = at[j] => i = j)
    BY <2>1, <2>2
  <2>4. PartOf(u, s)
    BY <2>2, <2>3 DEF PartOf
  <2> QED
    BY <2>4 DEF u
<1>4. ASSUME NEW n \in Nat, n <= Len(s) PROVE PartOf(SubSeq(s, 1, n), s)
  <2> DEFINE u == SubSeq(s, 1, n)
             at == [i \in 1..Len(u) |-> i]
  <2>1. \A i \in 1..Len(u) : i \in 1..Len(s) /\ u[i] = s[i]
    BY <1>4, FirstRows
  <2>2. at \in [1..Len(u) -> 1..Len(s)] /\ \A i \in 1..Len(u) : at[i] = i
    BY <2>1
  <2> HIDE DEF at, u
  <2>3. \A i, j \in 1..Len(u) : u[i] = s[at[i]] /\ (at[i] = at[j] => i = j)
    BY <2>1, <2>2
  <2>4. PartOf(u, s)
    BY <2>2, <2>3 DEF PartOf
  <2> QED
    BY <2>4 DEF u
<1>5. ASSUME NEW k \in 1..Len(s) PROVE PartOf(RemoveAt(s, k), s)
  <2> DEFINE u == RemoveAt(s, k)
             at == [i \in 1..Len(u) |-> IF i < k THEN i ELSE i + 1]
  <2>1. Len(u) = Len(s) - 1 /\ \A i \in 1..(Len(s) - 1) : u[i] = IF i < k THEN s[i] ELSE s[i + 1]
    BY RemovedPlace
  <2>2. \A i \in 1..Len(u) : at[i] = IF i < k THEN i ELSE i + 1
    OBVIOUS
  <2>3. at \in [1..Len(u) -> 1..Len(s)]
    BY <1>0, <2>1
  <2> HIDE DEF at, u
  <2>4. \A i, j \in 1..Len(u) : u[i] = s[at[i]] /\ (at[i] = at[j] => i = j)
    BY <1>0, <2>1, <2>2
  <2>5. PartOf(u, s)
    BY <2>3, <2>4 DEF PartOf
  <2> QED
    BY <2>5 DEF u
<1> QED
  BY <1>1, <1>2, <1>3, <1>4, <1>5

\* Publishers take rows out of the outbox and out of their batches.
LEMMA OncePublisher ==
    ASSUME IInv, OnceInv, NEW p \in Publisher,
           Poll(p) \/ Publish(p) \/ Delete(p) \/ PublishFails(p) \/ DeleteFails(p) \/ PublisherCrash(p)
    PROVE  /\ OnceInv' /\ PartOf(outbox', outbox)
           /\ \A q \in Publisher : q # p => batch'[q] = batch[q]
<1>1. outbox \in Seq(Message) /\ batch \in [Publisher -> Seq(Message)]
  BY DEF IInv, TypeOK
<1>2. PartOf(outbox', outbox)
  <2>1. CASE outbox' = outbox
    BY <1>1, <2>1, Parts
  <2>2. CASE \E k \in 1..Len(outbox) : outbox' = RemoveAt(outbox, k)
    BY <1>1, <2>2, Parts
  <2> QED
    BY <2>1, <2>2 DEF Poll, Publish, Delete, DeleteRow, PublishFails, DeleteFails, PublisherCrash, env
<1>3. \A q \in Publisher : q # p => batch'[q] = batch[q]
  BY <1>1 DEF Poll, Publish, Delete, PublishFails, DeleteFails, PublisherCrash
<1>4. OnceIn(batch'[p]) /\ SameRow(batch'[p], outbox')
  <2>1. CASE Poll(p)
    <3>1. PICK n \in Nat : n <= Len(outbox) /\ batch'[p] = SubSeq(outbox, 1, n)
      <4> DEFINE n == IF Len(outbox) < BatchLimit THEN Len(outbox) ELSE BatchLimit
      <4>1. n \in Nat /\ n <= Len(outbox)
        BY <1>1, LenProperties, BoundAssumption
      <4>2. batch'[p] = SubSeq(outbox, 1, n)
        BY <1>1, <2>1 DEF Poll
      <4> HIDE DEF n
      <4> QED
        BY <4>1, <4>2
    <3>2. PartOf(batch'[p], outbox) /\ outbox' = outbox
      BY <1>1, <2>1, <3>1, Parts DEF Poll, env
    <3> QED
      BY <3>2, PartOnce DEF OnceInv
  <2>2. CASE ~ Poll(p)
    <3>1. PartOf(batch'[p], batch[p])
      <4>1. batch[p] \in Seq(Message) /\ (p \in sent => batch[p] # <<>>)
        BY <1>1 DEF IInv, SentInv
      <4>2. batch'[p] \in {batch[p], <<>>} \/ (batch[p] # <<>> /\ batch'[p] = Tail(batch[p]))
        BY <1>1, <2>2, <4>1 DEF Publish, Delete, PublishFails, DeleteFails, PublisherCrash
      <4> QED
        BY <4>1, <4>2, Parts
    <3> QED
      BY <1>2, <3>1, PartOnce, PartSame DEF OnceInv
  <2> QED
    BY <2>1, <2>2
<1>5. OnceIn(outbox')
  BY <1>2, PartOnce DEF OnceInv
<1>6. ASSUME NEW q \in Publisher, q # p PROVE OnceIn(batch'[q]) /\ SameRow(batch'[q], outbox')
  <2>1. PartOf(batch[q], batch[q])
    BY <1>1, Parts
  <2>2. OnceIn(batch[q]) /\ SameRow(batch[q], outbox)
    BY DEF OnceInv
  <2> QED
    BY <1>2, <1>3, <1>6, <2>1, <2>2, PartSame
<1> QED
  BY <1>2, <1>3, <1>4, <1>5, <1>6 DEF OnceInv

\* A task that is committed is in no message yet; a dead letter is another message.
LEMMA OnceCommits ==
    ASSUME IInv, OnceInv, NEW t \in Task, Commits(t)
    PROVE  /\ OnceInv'
           /\ \A u \in Task : (u # t \/ row[t] # "NONE") /\ Holds(outbox', u) => Holds(outbox, u)
<1>1. outbox \in Seq(Message) /\ batch \in [Publisher -> Seq(Message)]
  BY DEF IInv, TypeOK
<1>2. CASE Close(t)
  BY <1>2 DEF Close, OnceInv
<1>3. ASSUME NEW m \in Message, outbox' = Append(outbox, m), batch' = batch, m.task = t,
             m.tier = "dlq" \/ row[t] = "NONE"
      PROVE  /\ OnceInv'
             /\ \A u \in Task : (u # t \/ row[t] # "NONE") /\ Holds(outbox', u) => Holds(outbox, u)
  <2>1. /\ \A i \in 1..Len(outbox) : i \in 1..Len(outbox') /\ outbox'[i] = outbox[i]
        /\ Len(outbox') = Len(outbox) + 1 /\ outbox'[Len(outbox) + 1] = m
        /\ Len(outbox) \in Nat
    BY <1>1, <1>3, AddedRow, AppendProperties, LenProperties
  <2>2. \A i \in 1..Len(outbox') : i \in 1..Len(outbox) \/ i = Len(outbox) + 1
    BY <2>1
  <2>3. \A i \in 1..Len(outbox) : ~ SameTask(outbox[i], m) /\ ~ SameTask(m, outbox[i])
    BY <1>3 DEF IInv, MessageInv, Due, SameTask
  <2>4. \A p \in Publisher : \A i \in 1..Len(batch[p]) : ~ SameTask(batch[p][i], m)
    BY <1>3 DEF IInv, MessageInv, Due, SameTask
  <2>5. OnceIn(outbox')
    BY <2>1, <2>2, <2>3 DEF OnceInv, OnceIn
  <2>6. \A p \in Publisher : SameRow(batch[p], outbox')
    BY <2>1, <2>2, <2>4 DEF OnceInv, SameRow
  <2>7. OnceInv'
    BY <1>3, <2>5, <2>6 DEF OnceInv
  <2>8. ASSUME NEW u \in Task, u # t \/ row[t] # "NONE", Holds(outbox', u) PROVE Holds(outbox, u)
    BY <1>3, <2>1, <2>2, <2>8 DEF Holds
  <2> QED
    BY <2>7, <2>8
<1>4. CASE \E tier \in {"now", "later"} : Commit(t, tier)
  <2>1. PICK tier \in {"now", "later"} : Commit(t, tier)
    BY <1>4
  <2>2. [task |-> t, tier |-> tier] \in Message
    BY <2>1 DEF Message, Tier
  <2> QED
    BY <1>3, <2>1, <2>2 DEF Commit
<1>5. CASE DeadLetter(t)
  <2>1. [task |-> t, tier |-> "dlq"] \in Message
    BY DEF Message, Tier
  <2> QED
    BY <1>3, <1>5, <2>1 DEF DeadLetter
<1> QED
  BY <1>2, <1>4, <1>5 DEF Commits

-----------------------------------------------------------------------------
(* Steps that leave messages or copies alone.                              *)

LEMMA SamePlans ==
    ASSUME NEW t \in Task, NEW q \in Publisher, batch'[q] = batch[q], q \in sent' <=> q \in sent,
           Holds(outbox', t) => Holds(outbox, t), q \in MayPublish(t)'
    PROVE  q \in MayPublish(t)
<1>1. Planned(q, t)' => Planned(q, t)
  BY DEF Planned
<1>2. Sending(q, t) => Sending(q, t)'
  BY DEF Sending
<1> QED
  BY <1>1, <1>2 DEF MayPublish, Holds

LEMMA NoMessages ==
    ASSUME UNCHANGED <<outbox, batch, sent>>, NEW t \in Task
    PROVE  MessagesKept(t)
  BY SamePlans DEF MessagesKept, MayPublish

\* A copy that ends, or goes on without becoming one that may be run again.
KeepsTask(c) == \/ copy'[c] = Free
                \/ copy'[c].task = copy[c].task /\ (copy[c].place = "dlq" => copy'[c].place = "dlq")
KeepsFresh(c) == copy'[c] = Free \/ (Fresh(c)' => Fresh(c))

LEMMA SameWork ==
    ASSUME NEW t \in Task, \A c \in Copy : KeepsTask(c)
    PROVE  /\ Working(t)' \subseteq Working(t)
           /\ (\A c \in Copy : KeepsFresh(c)) => RunKept(t)
<1>1. t # None
  BY BoundAssumption
<1>2. ASSUME NEW c \in Copy, copy'[c].task = t, copy'[c].place # "dlq"
      PROVE  c \in Working(t) /\ copy'[c] # Free
  BY <1>1, <1>2 DEF Working, KeepsTask, Free
<1>3. Working(t)' \subseteq Working(t)
  BY <1>2 DEF Working
<1>4. ASSUME \A c \in Copy : KeepsFresh(c) PROVE RunKept(t)
  <2> SUFFICES ASSUME NEW c \in MayRun(t)' PROVE c \in MayRun(t)
    BY DEF RunKept
  <2>1. c \in Copy /\ copy'[c].task = t /\ copy'[c].place # "dlq" /\ Fresh(c)'
    BY DEF MayRun, Working
  <2> QED
    BY <1>2, <1>4, <2>1 DEF MayRun, KeepsFresh
<1> QED
  BY <1>3, <1>4

\* A copy that a step does not touch is as fresh as before, unless its worker connects.
LEMMA SameCopy ==
    ASSUME IInv, NEW c \in Copy, copy'[c] = copy[c],
           \A w \in Worker : w \in connected' => w \in connected \/ worker[w].mode = "down"
    PROVE  KeepsTask(c) /\ KeepsFresh(c)
<1>1. CopyOK(c) /\ (copy[c].at # None => copy[c].at \in Worker)
  BY CopyRecords DEF IInv, CopyInv, CopyRecord
<1>2. copy[c].place = "nack" => copy[c].at \in Worker /\ worker[copy[c].at].mode # "down"
  BY <1>1 DEF CopyOK, Free, AtWorker, InGoroutine
<1> QED
  BY <1>2 DEF KeepsTask, KeepsFresh, Fresh

LEMMA NoCopies ==
    ASSUME IInv, NEW t \in Task, UNCHANGED copy, starts'[t] = starts[t],
           \A w \in Worker : w \in connected' => w \in connected \/ worker[w].mode = "down"
    PROVE  WorkKept(t) /\ RunKept(t)
<1>1. \A c \in Copy : KeepsTask(c) /\ KeepsFresh(c)
  BY SameCopy
<1> QED
  BY <1>1, SameWork DEF WorkKept

LEMMA SameEnding ==
    ASSUME \A w \in Worker : worker'[w].mode \in {"stopping", "drained"} => worker[w].mode \in {"stopping", "drained"},
           faults' = faults \/ Fault
    PROVE  EndingKept /\ Ending' \subseteq Ending
  BY DEF EndingKept, Ending, Fault

-----------------------------------------------------------------------------
(* Publishers.                                                             *)

LEMMA PublishCounted ==
    ASSUME DInv, NEW p \in Publisher, Publish(p), NEW t \in Task
    PROVE  Counted(t)
<1>1. /\ batch[p] \in Seq(Message) /\ batch[p] # <<>> /\ p \notin sent
      /\ copy \in [Copy -> CopyRecord]
      /\ UNCHANGED <<outbox, batch, connected, worker, starts, faults>> /\ sent' = sent \cup {p}
  BY CopyRecords DEF DInv, IInv, TypeOK, Publish, env
<1>2. PICK m \in Message : m = batch[p][1] /\ 1 \in 1..Len(batch[p]) /\ Enqueue(m)
  BY <1>1, TailOf DEF Publish
<1>3. starts'[t] = starts[t] /\ FaultKept /\ EndingKept
  BY <1>1 DEF FaultKept, EndingKept, Ending
<1>4. \A q \in Publisher : q # p /\ q \in MayPublish(t)' => q \in MayPublish(t)
  BY <1>1, SamePlans
<1>5. Planned(p, t)' => Planned(p, t) /\ ~ IsTask(m, t)
  <2> SUFFICES ASSUME NEW i \in 1..Len(batch[p]), IsTask(batch[p][i], t), i # 1
               PROVE  Planned(p, t) /\ ~ IsTask(m, t)
    BY <1>1 DEF Planned
  <2>1. ~ SameTask(batch[p][i], m)
    BY <1>2 DEF DInv, OnceInv, OnceIn
  <2> QED
    BY <2>1 DEF Planned, IsTask, SameTask
<1>6. \/ UNCHANGED copy
      \/ \E c \in Copy : /\ copy[c] = Free
                         /\ copy'[c] = [place |-> Routed(m.tier), task |-> m.task, at |-> None]
                         /\ \A d \in Copy : d # c => copy'[d] = copy[d]
  BY <1>1, <1>2 DEF Enqueue
<1>7. MessagesKept(t)
  <2>1. p \in MayPublish(t)' => p \in MayPublish(t)
    BY <1>1, <1>5 DEF MayPublish, Sending
  <2> QED
    BY <1>4, <2>1 DEF MessagesKept, MayPublish
<1>8. CASE UNCHANGED copy
  BY <1>1, <1>3, <1>7, <1>8, NoCopies DEF Counted, Less, DInv
<1>9. CASE IsTask(m, t)
  <2>1. p \in MayPublish(t) /\ MayPublish(t)' \subseteq MayPublish(t) \ {p}
    <3>1. p \in MayPublish(t)
      BY <1>1, <1>2, <1>9 DEF MayPublish, Planned
    <3>2. Sending(p, t)'
      BY <1>1, <1>2, <1>9 DEF Sending
    <3>3. p \notin MayPublish(t)'
      BY <1>5, <1>9, <3>2 DEF MayPublish
    <3> QED
      BY <1>7, <3>1, <3>3 DEF MessagesKept
  <2>2. ASSUME NEW c \in Copy, copy[c] = Free, \A d \in Copy : d # c => copy'[d] = copy[d]
        PROVE  Publishes(t)
    <3>1. c \notin Working(t)
      BY <2>2, BoundAssumption DEF Working, Free
    <3>2. Working(t)' \subseteq Working(t) \cup {c}
      BY <2>2 DEF Working
    <3>3. MayRun(t)' \subseteq MayRun(t) \cup {c}
      BY <1>1, <2>2 DEF MayRun, Working, Fresh
    <3> QED
      BY <1>3, <2>1, <3>1, <3>2, <3>3 DEF Publishes
  <2> QED
    BY <1>6, <1>8, <2>2 DEF Counted
<1>10. ASSUME ~ IsTask(m, t), NEW c \in Copy, copy[c] = Free,
              copy'[c] = [place |-> Routed(m.tier), task |-> m.task, at |-> None],
              \A d \in Copy : d # c => copy'[d] = copy[d]
       PROVE  Less(t)
  <2>1. c \notin Working(t)'
    BY <1>10 DEF Working, IsTask, Routed
  <2>2. Working(t)' \subseteq Working(t)
    BY <1>10, <2>1 DEF Working
  <2>3. MayRun(t)' \subseteq MayRun(t)
    BY <1>1, <1>10, <2>1 DEF MayRun, Working, Fresh
  <2> QED
    BY <1>3, <1>7, <2>2, <2>3 DEF Less, WorkKept, RunKept
<1> QED
  BY <1>6, <1>8, <1>9, <1>10 DEF Counted

\* Polls, and messages that are done with or forgotten.
LEMMA HandledCounted ==
    ASSUME DInv, NEW p \in Publisher, NEW t \in Task,
           Poll(p) \/ Delete(p) \/ PublishFails(p) \/ DeleteFails(p) \/ PublisherCrash(p)
    PROVE  Counted(t)
<1>1. outbox \in Seq(Message) /\ batch \in [Publisher -> Seq(Message)] /\ sent \subseteq Publisher
  BY DEF DInv, IInv, TypeOK
<1>2. /\ PartOf(outbox', outbox)
      /\ \A q \in Publisher : q # p => batch'[q] = batch[q] /\ (q \in sent' <=> q \in sent)
  <2>1. \A q \in Publisher : q # p => (q \in sent' <=> q \in sent)
    BY DEF Poll, Delete, PublishFails, DeleteFails, PublisherCrash
  <2> QED
    BY <2>1, OncePublisher DEF DInv
<1>3. Holds(outbox', t) => Holds(outbox, t)
  BY <1>2, PartHolds
<1>4. \A q \in Publisher : q # p /\ q \in MayPublish(t)' => q \in MayPublish(t)
  BY <1>2, <1>3, SamePlans
<1>5. /\ UNCHANGED <<copy, worker>> /\ starts'[t] = starts[t]
      /\ faults' = faults \/ Fault
      /\ \A w \in Worker : w \in connected' => w \in connected
  BY ProcessAssumption DEF Poll, Delete, PublishFails, DeleteFails, PublisherCrash, env, broker, CallFails
<1>6. WorkKept(t) /\ RunKept(t) /\ EndingKept /\ Ending' \subseteq Ending
  BY <1>5, NoCopies, SameEnding DEF DInv
<1>7. CASE DeleteFails(p) \/ PublisherCrash(p)
  <2>1. faults' = faults + 1
    BY <1>7 DEF DeleteFails, PublisherCrash, Fault
  <2>2. MayPublish(t)' \subseteq MayPublish(t) \cup {p}
    BY <1>4 DEF MayPublish
  <2> QED
    BY <1>6, <2>1, <2>2 DEF Counted, Repeats
<1>8. CASE Poll(p) \/ Delete(p) \/ PublishFails(p)
  <2>1. Planned(p, t)' => Planned(p, t) \/ (Poll(p) /\ Holds(outbox, t))
    <3>1. CASE Poll(p)
      <4>1. PICK n \in Nat : n <= Len(outbox) /\ batch'[p] = SubSeq(outbox, 1, n)
        <5> DEFINE n == IF Len(outbox) < BatchLimit THEN Len(outbox) ELSE BatchLimit
        <5>1. n \in Nat /\ n <= Len(outbox)
          BY <1>1, LenProperties, BoundAssumption
        <5>2. batch'[p] = SubSeq(outbox, 1, n)
          BY <1>1, <3>1 DEF Poll
        <5> HIDE DEF n
        <5> QED
          BY <5>1, <5>2
      <4>2. \A i \in 1..Len(batch'[p]) : i \in 1..Len(outbox) /\ batch'[p][i] = outbox[i]
        BY <1>1, <4>1, FirstRows
      <4> QED
        BY <3>1, <4>2 DEF Planned, Holds, IsTask
    <3>2. CASE Delete(p) \/ PublishFails(p)
      <4>1. batch[p] # <<>> /\ batch'[p] = Tail(batch[p])
        BY <1>1, <3>2 DEF Delete, PublishFails, DInv, IInv, SentInv
      <4>2. \A i \in 1..Len(batch'[p]) : i + 1 \in 1..Len(batch[p]) /\ batch'[p][i] = batch[p][i + 1]
        BY <1>1, <4>1, TailOf
      <4>3. ASSUME NEW i \in 1..Len(batch'[p]), IsTask(batch'[p][i], t) PROVE Planned(p, t)
        <5>1. i + 1 # 1
          OBVIOUS
        <5> QED
          BY <4>2, <4>3, <5>1 DEF Planned
      <4> QED
        BY <4>3 DEF Planned
    <3> QED
      BY <1>8, <3>1, <3>2
  <2>2. Poll(p) => ~ Sending(p, t)
    BY DEF Poll, Sending, DInv, IInv, SentInv
  <2>3. Sending(p, t) => ~ Holds(outbox', t)
    <3> SUFFICES ASSUME Sending(p, t), Holds(outbox', t) PROVE FALSE
      OBVIOUS
    <3>1. Delete(p)
      BY <1>8, <2>2 DEF Sending, PublishFails
    <3>2. batch[p] # <<>> /\ Head(batch[p]) = batch[p][1] /\ 1 \in 1..Len(batch[p])
      BY <1>1, TailOf DEF Sending, DInv, IInv, SentInv
    <3>3. PICK k \in 1..Len(outbox) : IsTask(outbox[k], t)
      BY <1>3 DEF Holds, IsTask
    <3>4. outbox[k] = Head(batch[p])
      BY <3>2, <3>3 DEF DInv, OnceInv, SameRow, SameTask, Sending, IsTask
    <3>5. PICK j \in 1..Len(outbox) : outbox[j] = Head(batch[p]) /\ outbox' = RemoveAt(outbox, j)
      BY <3>1, <3>4 DEF Delete, DeleteRow
    <3>6. j = k
      BY <3>3, <3>4, <3>5 DEF DInv, OnceInv, OnceIn, SameTask, IsTask
    <3>7. PICK i \in 1..Len(outbox') : IsTask(outbox'[i], t)
      BY DEF Holds, IsTask
    <3>8. /\ Len(outbox') = Len(outbox) - 1 /\ Len(outbox) \in Nat
          /\ outbox'[i] = IF i < j THEN outbox[i] ELSE outbox[i + 1]
      BY <1>1, <3>5, <3>7, RemovedPlace, LenProperties
    <3>9. PICK l \in 1..Len(outbox) : l # k /\ outbox'[i] = outbox[l]
      BY <3>6, <3>7, <3>8
    <3> QED
      BY <3>3, <3>7, <3>9 DEF DInv, OnceInv, OnceIn, SameTask, IsTask
  <2>4. p \in MayPublish(t)' => p \in MayPublish(t)
    BY <1>3, <2>1, <2>2, <2>3 DEF MayPublish, Holds
  <2>5. MessagesKept(t)
    BY <1>4, <2>4 DEF MessagesKept, MayPublish
  <2> QED
    BY <1>6, <2>5 DEF Counted, Less
<1> QED
  BY <1>7, <1>8

-----------------------------------------------------------------------------
(* The engine, the broker and the workers.                                 *)

LEMMA CommitsCounted ==
    ASSUME DInv, NEW u \in Task, Commits(u), NEW t \in Task
    PROVE  Counted(t)
<1>1. /\ UNCHANGED <<batch, sent, copy, worker, connected, starts, faults>>
      /\ row[u] = "NONE" => row'[u] # "NONE"
  BY DEF Commits, Commit, Close, DeadLetter, broker, DInv, IInv, TypeOK
<1>2. WorkKept(t) /\ RunKept(t) /\ EndingKept /\ FaultKept
  <2>1. WorkKept(t) /\ RunKept(t)
    BY <1>1, NoCopies DEF DInv
  <2> QED
    BY <1>1, <2>1 DEF EndingKept, FaultKept, Ending
<1>3. CASE t = u /\ row[t] = "NONE"
  <2>1. Working(t)' = {}
    BY <1>1, <1>3, BoundAssumption DEF Working, DInv, IInv, CopyInv, CopyOK, Free
  <2> QED
    BY <1>1, <1>2, <1>3, <2>1 DEF Counted, Begins
<1>4. CASE ~ (t = u /\ row[t] = "NONE")
  <2>1. Holds(outbox', t) => Holds(outbox, t)
    BY <1>4, OnceCommits DEF DInv
  <2>2. MessagesKept(t)
    BY <1>1, <2>1, SamePlans DEF MessagesKept, MayPublish
  <2> QED
    BY <1>2, <2>2 DEF Counted, Less
<1> QED
  BY <1>3, <1>4

\* Steps that start nothing and bring nothing back, be they faults or not.
LEMMA QuietCounted ==
    ASSUME DInv, NEW t \in Task, UNCHANGED <<outbox, batch, sent>>, starts'[t] = starts[t],
           \A c \in Copy : KeepsTask(c) /\ KeepsFresh(c), EndingKept
    PROVE  Counted(t)
<1>1. MessagesKept(t)
  BY NoMessages
<1>2. WorkKept(t) /\ RunKept(t)
  BY SameWork DEF WorkKept
<1> QED
  BY <1>1, <1>2 DEF Counted, Less

\* A step of one copy.
LEMMA OneCopy ==
    ASSUME IInv, NEW c \in Copy, \A d \in Copy : d # c => copy'[d] = copy[d],
           connected' \subseteq connected, KeepsTask(c), KeepsFresh(c)
    PROVE  \A d \in Copy : KeepsTask(d) /\ KeepsFresh(d)
  BY SameCopy

LEMMA BrokerCounted ==
    ASSUME DInv, NEW t \in Task,
           \/ BrokerRestart
           \/ \E c \in Copy : Expire(c)
           \/ \E c \in Copy, w \in Worker : Deliver(c, w)
    PROVE  Counted(t)
<1>1. /\ UNCHANGED <<outbox, batch, sent>> /\ starts'[t] = starts[t]
      /\ worker' = worker /\ (faults' = faults \/ Fault)
  BY DEF BrokerRestart, Expire, Deliver, env, broker
<1>2. EndingKept
  BY <1>1, SameEnding
<1>3. TypeOK /\ copy \in [Copy -> CopyRecord]
  BY CopyRecords DEF DInv, IInv
<1>4. \A c \in Copy : KeepsTask(c) /\ KeepsFresh(c)
  <2>1. CASE BrokerRestart
    <3>1. connected' = {} /\ \A c \in Copy : copy'[c] = Free \/ copy'[c] = copy[c]
      BY <2>1 DEF BrokerRestart
    <3> QED
      BY <3>1 DEF KeepsTask, KeepsFresh, Fresh
  <2>2. ASSUME NEW c \in Copy, Expire(c) PROVE \A d \in Copy : KeepsTask(d) /\ KeepsFresh(d)
    <3>1. copy[c].place = "parked" /\ connected' = connected
      BY <2>2 DEF Expire
    <3>2. \/ copy'[c] = Free /\ \A d \in Copy : d # c => copy'[d] = copy[d]
          \/ MoveCopy(c, "queue")
      BY <1>3, <2>2 DEF Expire
    <3>3. MoveCopy(c, "queue") =>
             /\ copy'[c].place = "queue" /\ copy'[c].task = copy[c].task
             /\ \A d \in Copy : d # c => copy'[d] = copy[d]
      BY <1>3, MoveType DEF Place
    <3>4. KeepsTask(c) /\ KeepsFresh(c)
      BY <3>1, <3>2, <3>3 DEF KeepsTask, KeepsFresh, Fresh
    <3> QED
      BY <3>1, <3>2, <3>3, <3>4, OneCopy DEF DInv
  <2>3. ASSUME NEW c \in Copy, NEW w \in Worker, Deliver(c, w)
        PROVE  \A d \in Copy : KeepsTask(d) /\ KeepsFresh(d)
    <3>1. copy[c].place = "queue" /\ connected' = connected
      BY <2>3 DEF Deliver, broker
    <3>2. /\ copy'[c] = [place |-> "channel", task |-> copy[c].task, at |-> w]
          /\ \A d \in Copy : d # c => copy'[d] = copy[d]
      BY <1>3, <2>3, DeliverType
    <3>3. KeepsTask(c) /\ KeepsFresh(c)
      BY <3>1, <3>2 DEF KeepsTask, KeepsFresh, Fresh
    <3> QED
      BY <3>1, <3>2, <3>3, OneCopy DEF DInv
  <2> QED
    BY <2>1, <2>2, <2>3
<1> QED
  BY <1>1, <1>2, <1>4, QuietCounted

\* The steps of a loop or a goroutine that run nothing.
LEMMA IdleCounted ==
    ASSUME DInv, NEW c \in Copy, NEW w \in Worker, NEW t \in Task,
           \/ Acquire(c, w) \/ Spawn(c, w) \/ HandlerReturns(c, w) \/ PublishResult(c, w)
           \/ Acknowledge(c, w) \/ LoopReturnsDelivery(w, c)
    PROVE  Counted(t)
<1>1. UNCHANGED <<outbox, batch, sent, connected, starts, faults>>
  BY DEF Acquire, Spawn, HandlerReturns, PublishResult, Acknowledge, LoopReturnsDelivery, env, broker
<1>2. TypeOK /\ copy \in [Copy -> CopyRecord] /\ worker \in [Worker -> WorkerRecord]
  BY CopyRecords, WorkerRecords DEF DInv, IInv
<1>3. EndingKept
  <2>1. \A v \in Worker : worker'[v].mode = worker[v].mode
    BY <1>2 DEF Acquire, Spawn, HandlerReturns, PublishResult, Acknowledge, LoopReturnsDelivery, WorkerRecord
  <2> QED
    BY <1>1, <2>1, SameEnding
<1>4. /\ \A d \in Copy : d # c => copy'[d] = copy[d]
      /\ KeepsTask(c) /\ KeepsFresh(c)
  <2>1. ASSUME NEW place \in AtWorker, MoveCopy(c, place), copy[c].place \in AtWorker,
               place \in {"publish", "ack"} \/ copy[c].place \in {"channel", "spawn"}
        PROVE  (\A d \in Copy : d # c => copy'[d] = copy[d]) /\ KeepsTask(c) /\ KeepsFresh(c)
    <3>1. /\ copy'[c].place = place /\ copy'[c].task = copy[c].task /\ copy'[c].at = copy[c].at
          /\ \A d \in Copy : d # c => copy'[d] = copy[d]
      BY <1>2, <2>1, MoveType DEF Place
    <3>2. KeepsTask(c)
      BY <2>1, <3>1 DEF KeepsTask, AtWorker, InGoroutine
    <3>3. KeepsFresh(c)
      BY <2>1, <3>1 DEF KeepsFresh, Fresh
    <3> QED
      BY <3>1, <3>2, <3>3
  <2>2. CASE Acquire(c, w)
    BY <2>1, <2>2 DEF Acquire, AtWorker
  <2>3. CASE Spawn(c, w)
    BY <2>1, <2>3 DEF Spawn, AtWorker, InGoroutine
  <2>4. CASE HandlerReturns(c, w) \/ PublishResult(c, w)
    BY <2>1, <2>4 DEF HandlerReturns, PublishResult, AtWorker, InGoroutine
  <2>5. CASE Acknowledge(c, w) \/ LoopReturnsDelivery(w, c)
    <3>1. /\ copy'[c] = Free \/ (copy'[c] = Requeued(c) /\ copy[c].place \in {"nack", "channel"})
          /\ \A d \in Copy : d # c => copy'[d] = copy[d]
      BY <1>2, <2>5 DEF Acknowledge, LoopReturnsDelivery
    <3>2. CASE copy'[c] = Free
      BY <3>1, <3>2 DEF KeepsTask, KeepsFresh
    <3>3. CASE copy'[c] = Requeued(c) /\ copy[c].place \in {"nack", "channel"}
      <4>1. copy[c].at \in connected => Fresh(c)
        BY <3>3 DEF Fresh
      <4>2. KeepsTask(c)
        BY <3>3 DEF KeepsTask, Requeued
      <4>3. KeepsFresh(c)
        BY <3>3, <4>1 DEF KeepsFresh, Requeued
      <4> QED
        BY <3>1, <4>2, <4>3
    <3> QED
      BY <3>1, <3>2, <3>3
  <2> QED
    BY <2>2, <2>3, <2>4, <2>5
<1>5. \A d \in Copy : KeepsTask(d) /\ KeepsFresh(d)
  BY <1>1, <1>4, OneCopy DEF DInv
<1> QED
  BY <1>1, <1>3, <1>5, QuietCounted

\* The deduplication check lets a copy run, or not.
LEMMA CheckCounted ==
    ASSUME DInv, NEW c \in Copy, NEW w \in Worker, NEW t \in Task, CheckDuplicate(c, w) \/ CheckFails(c, w)
    PROVE  Counted(t)
<1>1. /\ UNCHANGED <<outbox, batch, sent, connected, worker>> /\ (faults' = faults \/ Fault)
      /\ copy[c].place = "check"
  BY DEF CheckDuplicate, CheckFails, env, broker
<1>2. TypeOK /\ starts \in [Task -> Nat] /\ copy[c].task \in Task
  <2>1. TypeOK /\ CopyOK(c)
    BY DEF DInv, IInv, CopyInv
  <2> QED
    BY <1>1, <2>1 DEF CopyOK, Free, TypeOK
<1>3. EndingKept /\ MessagesKept(t)
  BY <1>1, SameEnding, NoMessages
<1>4. PICK place \in {"run", "ack"} : MoveCopy(c, place) /\ (starts'[t] # starts[t] => place = "run")
  BY DEF CheckDuplicate, CheckFails
<1>5. /\ copy'[c].place = place /\ copy'[c].task = copy[c].task /\ copy'[c].at = copy[c].at
      /\ \A d \in Copy : d # c => copy'[d] = copy[d]
  BY <1>2, <1>4, MoveType DEF Place, AtWorker, InGoroutine
<1>6. KeepsTask(c) /\ KeepsFresh(c) /\ Fresh(c) /\ ~ Fresh(c)'
  BY <1>1, <1>4, <1>5 DEF KeepsTask, KeepsFresh, Fresh
<1>7. \A d \in Copy : KeepsTask(d) /\ KeepsFresh(d)
  BY <1>1, <1>5, <1>6, OneCopy DEF DInv
<1>8. CASE starts'[t] = starts[t]
  BY <1>1, <1>3, <1>7, <1>8, QuietCounted
<1>9. CASE starts'[t] # starts[t]
  <2>1. copy[c].task = t /\ starts'[t] = starts[t] + 1
    BY <1>2, <1>9 DEF CheckDuplicate, CheckFails
  <2>2. c \in MayRun(t)
    BY <1>1, <1>6, <2>1 DEF MayRun, Working
  <2>3. MayRun(t)' \subseteq MayRun(t) \ {c}
    <3>1. c \notin MayRun(t)'
      BY <1>6 DEF MayRun
    <3> QED
      BY <1>7, <3>1, SameWork DEF RunKept
  <2>4. Working(t)' \subseteq Working(t)
    BY <1>7, SameWork
  <2> QED
    BY <1>3, <2>1, <2>2, <2>3, <2>4 DEF Counted, Runs
<1> QED
  BY <1>8, <1>9

\* Without a report the copy is given back and may run again: a fault, or the worker is cut off.
LEMMA ReportFailureCounted ==
    ASSUME DInv, NEW c \in Copy, NEW w \in Worker, NEW t \in Task, PublishResultFails(c, w)
    PROVE  Counted(t)
<1>1. /\ UNCHANGED <<outbox, batch, sent, connected, worker, starts>>
      /\ copy[c].place = "publish" /\ copy[c].at = w /\ MoveCopy(c, "nack")
      /\ w \in connected => Fault
      /\ faults' = faults \/ Fault
  BY DEF PublishResultFails, CallFails, env, broker
<1>2. TypeOK
  BY DEF DInv, IInv
<1>3. /\ copy'[c].place = "nack" /\ copy'[c].task = copy[c].task /\ copy'[c].at = w
      /\ \A d \in Copy : d # c => copy'[d] = copy[d]
  BY <1>1, <1>2, MoveType DEF Place, AtWorker, InGoroutine
<1>4. EndingKept /\ Ending' \subseteq Ending /\ MessagesKept(t)
  BY <1>1, SameEnding, NoMessages
<1>5. KeepsTask(c)
  BY <1>1, <1>3 DEF KeepsTask
<1>6. CASE w \in connected
  <2>1. \A d \in Copy : KeepsTask(d)
    BY <1>3, <1>5 DEF KeepsTask
  <2>2. WorkKept(t)
    BY <1>1, <2>1, SameWork DEF WorkKept
  <2>3. faults' = faults + 1
    BY <1>1, <1>6 DEF Fault
  <2> QED
    BY <1>4, <2>2, <2>3 DEF Counted, Repeats
<1>7. CASE w \notin connected
  <2>1. KeepsFresh(c)
    BY <1>1, <1>3, <1>7 DEF KeepsFresh, Fresh
  <2>2. \A d \in Copy : KeepsTask(d) /\ KeepsFresh(d)
    BY <1>1, <1>3, <1>5, <2>1, OneCopy DEF DInv
  <2> QED
    BY <1>1, <1>4, <2>2, QuietCounted
<1> QED
  BY <1>6, <1>7

\* The steps of a worker process that end no copy but what it was about to receive.
LEMMA ProcessCounted ==
    ASSUME DInv, NEW w \in Worker, NEW t \in Task,
           \/ ReleaseSlot(w) \/ LeaveGroup(w) \/ Drained(w) \/ Start(w) \/ StartPartly(w)
           \/ \E a \in Activity : LoopEnds(w, a)
    PROVE  Counted(t)
<1>1. UNCHANGED <<outbox, batch, sent>> /\ starts'[t] = starts[t] /\ (faults' = faults \/ Fault)
  BY DEF ReleaseSlot, LeaveGroup, Drained, Start, StartPartly, LoopEnds, env, broker
<1>2. worker \in [Worker -> WorkerRecord]
  BY WorkerRecords DEF DInv, IInv
<1>3. EndingKept
  <2>1. \A v \in Worker : \/ worker'[v].mode = worker[v].mode
                          \/ worker'[v].mode = "up"
                          \/ worker[v].mode = "stopping"
    BY <1>2 DEF ReleaseSlot, LeaveGroup, Drained, Start, StartPartly, LoopEnds, Up, Idle, WorkerRecord
  <2> QED
    BY <1>1, <2>1, SameEnding
<1>4. \A v \in Worker : v \in connected' => v \in connected \/ worker[v].mode = "down"
  BY DEF ReleaseSlot, LeaveGroup, Drained, Start, StartPartly, LoopEnds, broker
<1>5. ASSUME NEW c \in Copy PROVE KeepsTask(c) /\ KeepsFresh(c)
  <2>1. copy'[c] = copy[c] \/ copy'[c] = Free
    <3>1. copy \in [Copy -> CopyRecord]
      BY CopyRecords DEF DInv, IInv
    <3> QED
      BY <3>1 DEF ReleaseSlot, LeaveGroup, Drained, Start, StartPartly, LoopEnds
  <2>2. CASE copy'[c] = copy[c]
    BY <1>4, <2>2, SameCopy DEF DInv
  <2>3. CASE copy'[c] = Free
    BY <2>3 DEF KeepsTask, KeepsFresh
  <2> QED
    BY <2>1, <2>2, <2>3
<1> QED
  BY <1>1, <1>3, <1>5, QuietCounted

\* A shutdown is the fault whose price is paid when its process ends.
LEMMA StopCounted ==
    ASSUME DInv, NEW w \in Worker, NEW t \in Task, Stop(w)
    PROVE  Counted(t)
<1>1. /\ UNCHANGED <<outbox, batch, sent, copy, connected, starts>> /\ faults' = faults + 1
      /\ worker' = [worker EXCEPT ![w].mode = "stopping"]
  BY DEF Stop, Fault, env, broker
<1>2. worker \in [Worker -> WorkerRecord]
  BY WorkerRecords DEF DInv, IInv
<1>3. Ending' \subseteq Ending \cup {w}
  BY <1>1, <1>2 DEF Ending
<1>4. MessagesKept(t) /\ WorkKept(t) /\ RunKept(t)
  BY <1>1, NoMessages, NoCopies DEF DInv
<1> QED
  BY <1>1, <1>3, <1>4 DEF Counted, Stops

LEMMA GoneCounted ==
    ASSUME DInv, NEW w \in Worker, NEW t \in Task, Exit(w) \/ WorkerCrash(w)
    PROVE  Counted(t)
<1>1. UNCHANGED <<outbox, batch, sent, starts>> /\ Gone(w)
  BY DEF Exit, WorkerCrash, Gone, env
<1>2. Ending' \subseteq Ending \ {w}
  <2>1. worker \in [Worker -> WorkerRecord] /\ worker' = [worker EXCEPT ![w] = Down]
    BY <1>1, WorkerRecords DEF DInv, IInv, Gone
  <2> QED
    BY <2>1 DEF Ending, Down, Idle
<1>3. ASSUME NEW c \in Copy PROVE KeepsTask(c)
  <2>1. copy'[c] = copy[c] \/ (copy'[c] = Requeued(c) /\ copy[c].at = w)
    BY <1>1 DEF Gone
  <2>2. copy[c].at = w => copy[c].place # "dlq"
    <3>1. CopyOK(c) /\ w # None
      BY BoundAssumption DEF DInv, IInv, CopyInv
    <3> QED
      BY <3>1 DEF CopyOK, Free, AtWorker, InGoroutine
  <2> QED
    BY <2>1, <2>2 DEF KeepsTask, Requeued
<1>4. MessagesKept(t) /\ WorkKept(t)
  BY <1>1, <1>3, NoMessages, SameWork DEF WorkKept
<1>5. CASE Exit(w)
  <2>1. w \in Ending /\ faults' = faults
    BY <1>5 DEF Exit, Ending
  <2> QED
    BY <1>2, <1>4, <2>1 DEF Counted, Ends
<1>6. CASE WorkerCrash(w)
  <2>1. faults' = faults + 1
    BY <1>6 DEF WorkerCrash, Fault
  <2> QED
    BY <1>2, <1>4, <2>1 DEF Counted, Repeats
<1> QED
  BY <1>5, <1>6

-----------------------------------------------------------------------------
(* All steps.                                                              *)

LEMMA StepCounted ==
    ASSUME DInv, [Next]_vars, NEW t \in Task
    PROVE  Counted(t)
<1>1. CASE \E u \in Task : Commits(u)
  BY <1>1, CommitsCounted
<1>2. ASSUME NEW p \in Publisher, Publishing(p) \/ PublishFaults(p) PROVE Counted(t)
  BY <1>2, PublishCounted, HandledCounted DEF Publishing, PublishFaults
<1>3. CASE BrokerRestart \/ (\E c \in Copy : Expire(c)) \/ (\E c \in Copy, w \in Worker : Deliver(c, w))
  BY <1>3, BrokerCounted
<1>4. ASSUME NEW c \in Copy, NEW w \in Worker, Acquire(c, w) \/ Goroutine(c, w) \/ LoopReturnsDelivery(w, c)
      PROVE  Counted(t)
  BY <1>4, IdleCounted, CheckCounted, ReportFailureCounted DEF Goroutine
<1>5. ASSUME NEW w \in Worker, NEW a \in Activity, LoopEnds(w, a) PROVE Counted(t)
  BY <1>5, ProcessCounted
<1>6. ASSUME NEW w \in Worker, Start(w) \/ StartPartly(w) \/ Process(w) \/ Stop(w) \/ WorkerCrash(w)
      PROVE  Counted(t)
  BY <1>6, ProcessCounted, StopCounted, GoneCounted DEF Process
<1>7. CASE UNCHANGED vars
  <2>1. /\ UNCHANGED <<outbox, batch, sent, copy, connected, starts, faults>>
        /\ worker' = worker
    BY <1>7 DEF vars
  <2>2. WorkKept(t) /\ RunKept(t)
    BY <2>1, NoCopies DEF DInv
  <2>3. MessagesKept(t) /\ EndingKept
    BY <2>1, NoMessages, SameEnding
  <2> QED
    BY <2>2, <2>3 DEF Counted, Less
<1> QED
  BY <1>1, <1>2, <1>3, <1>4, <1>5, <1>6, <1>7 DEF Next

\* A committed task stays committed.
LEMMA RowsStay ==
    ASSUME IInv, [Next]_vars, NEW t \in Task
    PROVE  row'[t] = "NONE" => row[t] = "NONE"
<1>1. row \in [Task -> Row]
  BY DEF IInv, TypeOK
<1>2. ASSUME NEW u \in Task, Commits(u) PROVE row'[t] = "NONE" => row[t] = "NONE"
  BY <1>1, <1>2 DEF Commits, Commit, Close, DeadLetter
<1>3. CASE row' = row
  BY <1>3
<1>4. \/ \E u \in Task : Commits(u)
      \/ row' = row
  <2>1. CASE \E p \in Publisher : Publishing(p) \/ PublishFaults(p)
    BY <2>1 DEF Publishing, PublishFaults, Poll, Publish, Delete, PublishFails, DeleteFails,
                PublisherCrash, env
  <2>2. CASE \/ BrokerRestart \/ \E c \in Copy : Expire(c)
             \/ \E w \in Worker, a \in Activity : LoopEnds(w, a)
    BY <2>2 DEF BrokerRestart, Expire, LoopEnds, env
  <2>3. CASE \E c \in Copy, w \in Worker :
                Deliver(c, w) \/ Acquire(c, w) \/ Goroutine(c, w) \/ LoopReturnsDelivery(w, c)
    BY <2>3 DEF Deliver, Acquire, Goroutine, LoopReturnsDelivery, Spawn, CheckDuplicate, CheckFails,
                HandlerReturns, PublishResult, PublishResultFails, Acknowledge, env
  <2>4. CASE \E w \in Worker : Start(w) \/ StartPartly(w) \/ Process(w) \/ Stop(w) \/ WorkerCrash(w)
    BY <2>4 DEF Start, StartPartly, Process, Stop, WorkerCrash, ReleaseSlot, LeaveGroup, Drained, Exit,
                Gone, env
  <2>5. CASE UNCHANGED vars
    BY <2>5 DEF vars
  <2> QED
    BY <2>1, <2>2, <2>3, <2>4, <2>5 DEF Next
<1> QED
  BY <1>2, <1>3, <1>4

LEMMA OnceNext == IInv /\ OnceInv /\ [Next]_vars => OnceInv'
<1> SUFFICES ASSUME IInv, OnceInv, [Next]_vars PROVE OnceInv'
  OBVIOUS
<1>1. CASE UNCHANGED <<outbox, batch>>
  BY <1>1 DEF OnceInv
<1>2. \/ \E u \in Task : Commits(u)
      \/ \E p \in Publisher : Publishing(p) \/ PublishFaults(p)
      \/ UNCHANGED <<outbox, batch>>
  <2>2. CASE \/ BrokerRestart \/ \E c \in Copy : Expire(c)
             \/ \E w \in Worker, a \in Activity : LoopEnds(w, a)
    BY <2>2 DEF BrokerRestart, Expire, LoopEnds, env
  <2>3. CASE \E c \in Copy, w \in Worker :
                Deliver(c, w) \/ Acquire(c, w) \/ Goroutine(c, w) \/ LoopReturnsDelivery(w, c)
    BY <2>3 DEF Deliver, Acquire, Goroutine, LoopReturnsDelivery, Spawn, CheckDuplicate, CheckFails,
                HandlerReturns, PublishResult, PublishResultFails, Acknowledge, env
  <2>4. CASE \E w \in Worker : Start(w) \/ StartPartly(w) \/ Process(w) \/ Stop(w) \/ WorkerCrash(w)
    BY <2>4 DEF Start, StartPartly, Process, Stop, WorkerCrash, ReleaseSlot, LeaveGroup, Drained, Exit,
                Gone, env
  <2>5. CASE UNCHANGED vars
    BY <2>5 DEF vars
  <2> QED
    BY <2>2, <2>3, <2>4, <2>5 DEF Next
<1> QED
  BY <1>1, <1>2, OnceCommits, OncePublisher DEF Publishing, PublishFaults

LEMMA InitDInv == Init => DInv
<1> SUFFICES ASSUME Init PROVE DInv
  OBVIOUS
<1>1. IInv
  BY InitInv
<1>2. Len(<<>>) = 0 /\ 1..0 = {}
  BY EmptySeq
<1>3. OnceInv
  BY <1>2 DEF Init, OnceInv, OnceIn, SameRow
<1>4. Ending = {} /\ faults = 0
  BY DEF Init, Ending, Down, Idle
<1>5. IsFiniteSet(Ending) /\ Cardinality(Ending) = 0
  BY <1>4, FS_EmptySet
<1>6. ASSUME NEW t \in Task PROVE Budget(t)
  <2>1. Working(t) = {} /\ MayRun(t) = {}
    BY BoundAssumption DEF Init, Working, MayRun, Free
  <2>2. MayPublish(t) = {}
    BY <1>2 DEF Init, MayPublish, Planned, Holds
  <2>3. Cardinality(MayPublish(t)) = 0 /\ Cardinality(Working(t)) = 0 /\ Cardinality(MayRun(t)) = 0
    BY <2>1, <2>2, FS_EmptySet
  <2>4. starts[t] = 0
    BY DEF Init
  <2>5. PICK n \in Nat : n = Publishers
    BY CountSets
  <2>6. Causes = n /\ Rounds = 1
    BY <1>4, <1>5, <2>5 DEF Causes, Rounds
  <2> QED
    BY <2>3, <2>4, <2>6 DEF Budget
<1> QED
  BY <1>1, <1>3, <1>4, <1>5, <1>6 DEF DInv, EndingInv

LEMMA NextDInv == DInv /\ [Next]_vars => DInv'
<1> SUFFICES ASSUME DInv, [Next]_vars PROVE DInv'
  OBVIOUS
<1>1. IInv'
  BY NextInv DEF DInv
<1>2. OnceInv'
  BY OnceNext DEF DInv
<1>3. \A t \in Task : Counted(t)
  BY StepCounted
<1>4. ASSUME NEW t \in Task PROVE (EndingInv /\ Budget(t))'
  <2>1. row'[t] = "NONE" => row[t] = "NONE"
    BY RowsStay DEF DInv
  <2>2. starts'[t] \in Nat
    BY <1>1 DEF IInv, TypeOK
  <2> QED
    BY <1>3, <2>1, <2>2, BudgetKept, EndingCounted
<1> QED
  BY <1>1, <1>2, <1>4 DEF DInv

\* In every execution the starts of a task, with those still to come, stay within the budget
\* that the publishers and the faults so far give it.
THEOREM DuplicatesInductive == Spec => []DInv
<1> QED
  BY InitDInv, NextDInv, PTL DEF Spec

LEMMA BudgetBounds == DInv => DuplicatesHaveCause
<1> SUFFICES ASSUME DInv, NEW t \in Task
             PROVE  starts[t] <= (Cardinality(Publisher) + faults) * (1 + faults)
  BY DEF DuplicatesHaveCause
<1>1. PICK p \in Nat, r \in Nat, n \in Nat :
         p = Cardinality(MayPublish(t)) /\ r = Cardinality(MayRun(t)) /\ n = Publishers
  BY CountSets
<1>2. PICK f \in Nat, s \in Nat, e \in Nat :
         f = faults /\ s = starts[t] /\ e = Cardinality(Ending) /\ e <= f
  <2>1. faults \in Nat /\ IsFiniteSet(Ending) /\ Cardinality(Ending) <= faults /\ starts[t] \in Nat
    BY BoundAssumption DEF DInv, EndingInv, IInv, TypeOK
  <2>2. Cardinality(Ending) \in Nat
    BY <2>1, FS_CardinalityType
  <2> QED
    BY <2>1, <2>2
<1>3. s + p + r <= (n + f) * (1 + f - e)
  BY <1>1, <1>2 DEF DInv, Budget, Causes, Rounds
<1>4. (n + f) * (1 + f - e) \in Nat /\ (n + f) * (1 + f) \in Nat
      /\ (n + f) * (1 + f - e) <= (n + f) * (1 + f)
  <2>1. n + f \in Nat /\ 1 + f - e \in Nat /\ 1 + f \in Nat /\ 1 + f - e <= 1 + f
    BY <1>2
  <2> QED
    BY <2>1, Products
<1> DEFINE b == (n + f) * (1 + f - e)
           b1 == (n + f) * (1 + f)
<1>5. s + p + r <= b /\ b \in Nat /\ b1 \in Nat /\ b <= b1
  BY <1>3, <1>4
<1>6. s <= b1
  <2> HIDE DEF b, b1
  <2> QED
    BY <1>5
<1> QED
  BY <1>1, <1>2, <1>6 DEF Publishers

\* A task is started at most once per publisher and fault, and again for each of them after a
\* fault: with no fault at all, each engine replica causes at most one start of it.
THEOREM DuplicatesAreCaused == Spec => []DuplicatesHaveCause
<1> QED
  BY DuplicatesInductive, BudgetBounds, PTL
=============================================================================
