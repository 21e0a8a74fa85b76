------------------------- MODULE CompensationProofs -------------------------
(***************************************************************************)
(* The theorems about Compensation, for every workflow, however            *)
(* compensations are shared, and any number of executions, engines,        *)
(* reapers, crashes and repeated deliveries.                               *)
(*                                                                         *)
(* The loops of determineNextCompensation return what the set              *)
(* NextCompensation says (LoopFindsNextCompensation), because completed_at *)
(* orders the rows of an execution totally (OrderInv), which gives each of *)
(* them its place in the list.                                             *)
(*                                                                         *)
(* The engine implements Saga (IsSaga) as long as reports do not           *)
(* contradict each other and operators keep away.  Agreeing reports make   *)
(* statuses final: a completed row stays completed, and a failed one is    *)
(* only followed by its next attempt (RetriedInv).  So at any time at most *)
(* one activity or compensation of an execution is under way.  It is the   *)
(* one the saga has next (SequentialSteps for the activities, RollbackInv  *)
(* for the compensations), because completed rows are ordered as the       *)
(* activities are (TrailInv).  Hence an execution is COMPENSATED only when *)
(* all it had done is undone.                                              *)
(*                                                                         *)
(* Every retry waits (RetriesWait): the shift by which its delay is found  *)
(* doubles it, by an induction over the attempts.                          *)
(***************************************************************************)
EXTENDS Compensation, StrandedProofs, FiniteSetTheorems, SequenceTheorems

-----------------------------------------------------------------------------
(* The order of completed_at.                                              *)

Timed(e) == done \cap RowsOf(e)

\* How many rows of its execution completed before k.
Rank(k) == Cardinality(earlier[k])

OrderInv ==
    \A k \in done :
        /\ earlier[k] \subseteq Timed(k.exec)
        /\ k \notin earlier[k]
        /\ \A j \in earlier[k] : earlier[j] \subseteq earlier[k]
        /\ \A j \in Timed(k.exec) : j = k \/ j \in earlier[k] \/ k \in earlier[j]

\* A completion puts its row behind all others of the execution.
LEMMA OrderComplete ==
    ASSUME IInv, OrderInv, NEW k \in Key, CompleteActivity(k)
    PROVE  OrderInv'
<1>1. /\ done' = done \cup {k}
      /\ earlier'[k] = Timed(k.exec) \ {k}
      /\ \A j \in Key \ {k} : earlier'[j] = earlier[j] \ {k}
  BY DEF CompleteActivity, Timed
<1>2. done \subseteq Key
  BY DEF IInv, TypeOK
<1>3. \A e : Timed(e)' = Timed(e) \cup ({k} \cap RowsOf(e))
  BY <1>1 DEF Timed, RowsOf
<1>4. k \in Timed(k.exec)'
  BY <1>1 DEF Timed, RowsOf
<1> SUFFICES ASSUME NEW j \in done'
             PROVE  /\ earlier'[j] \subseteq Timed(j.exec)'
                    /\ j \notin earlier'[j]
                    /\ \A i \in earlier'[j] : earlier'[i] \subseteq earlier'[j]
                    /\ \A i \in Timed(j.exec)' : i = j \/ i \in earlier'[j] \/ j \in earlier'[i]
  BY DEF OrderInv
<1>5. CASE j = k
  <2>1. earlier'[j] \subseteq Timed(j.exec)' /\ j \notin earlier'[j]
    BY <1>1, <1>3, <1>5
  <2>2. ASSUME NEW i \in earlier'[j] PROVE earlier'[i] \subseteq earlier'[j]
    <3>1. i \in done /\ i # k /\ i.exec = k.exec
      BY <1>1, <1>5, <2>2 DEF Timed, RowsOf
    <3>2. earlier'[i] = earlier[i] \ {k} /\ earlier[i] \subseteq Timed(k.exec)
      BY <1>1, <1>2, <3>1 DEF OrderInv
    <3> QED
      BY <1>1, <1>5, <3>2
  <2>3. \A i \in Timed(j.exec)' : i = j \/ i \in earlier'[j] \/ j \in earlier'[i]
    BY <1>1, <1>3, <1>5
  <2> QED
    BY <2>1, <2>2, <2>3
<1>6. CASE j # k
  <2>1. j \in done /\ j \in Key /\ earlier'[j] = earlier[j] \ {k}
    BY <1>1, <1>2, <1>6
  <2>2. /\ earlier[j] \subseteq Timed(j.exec)
        /\ j \notin earlier[j]
        /\ \A i \in earlier[j] : earlier[i] \subseteq earlier[j]
        /\ \A i \in Timed(j.exec) : i = j \/ i \in earlier[j] \/ j \in earlier[i]
    BY <2>1 DEF OrderInv
  <2>3. ASSUME NEW i \in earlier'[j] PROVE earlier'[i] \subseteq earlier'[j]
    <3>1. i \in earlier[j] /\ i # k /\ i \in Key
      BY <1>2, <2>1, <2>2, <2>3 DEF Timed
    <3> QED
      BY <1>1, <2>1, <2>2, <3>1
  <2>4. ASSUME NEW i \in Timed(j.exec)', i # j, i \notin earlier'[j] PROVE j \in earlier'[i]
    <3>1. CASE i = k
      BY <1>1, <1>6, <2>1, <2>4, <3>1 DEF Timed, RowsOf
    <3>2. CASE i # k
      BY <1>1, <1>2, <1>3, <1>6, <2>1, <2>2, <2>4, <3>2 DEF Timed
    <3> QED
      BY <3>1, <3>2
  <2> QED
    BY <1>3, <2>1, <2>2, <2>3, <2>4
<1> QED
  BY <1>5, <1>6

LEMMA OrderNext ==
    ASSUME IInv, OrderInv, [Next]_vars
    PROVE  OrderInv'
<1>1. CASE UNCHANGED <<done, earlier>>
  BY <1>1 DEF OrderInv, Timed
<1>2. ASSUME NEW k \in Key, CompleteActivity(k) PROVE OrderInv'
  BY <1>2, OrderComplete
<1>3. ASSUME NEW e \in Exec, NEW c \in Client, DeleteExecution(c, e) PROVE OrderInv'
  <2>1. /\ done' = done \ RowsOf(e)
        /\ \A k \in Key : earlier'[k] = earlier[k] \ RowsOf(e)
    BY <1>3 DEF DeleteExecution
  <2>2. done \subseteq Key
    BY DEF IInv, TypeOK
  <2>3. \A f : Timed(f)' = Timed(f) \ RowsOf(e)
    BY <2>1 DEF Timed
  <2> SUFFICES ASSUME NEW k \in done'
               PROVE  /\ earlier'[k] \subseteq Timed(k.exec)'
                      /\ k \notin earlier'[k]
                      /\ \A j \in earlier'[k] : earlier'[j] \subseteq earlier'[k]
                      /\ \A j \in Timed(k.exec)' : j = k \/ j \in earlier'[k] \/ k \in earlier'[j]
    BY DEF OrderInv
  <2>4. k \in done /\ k \in Key /\ earlier'[k] = earlier[k] \ RowsOf(e)
    BY <2>1, <2>2
  <2>5. /\ earlier[k] \subseteq Timed(k.exec)
        /\ k \notin earlier[k]
        /\ \A j \in earlier[k] : earlier[j] \subseteq earlier[k]
        /\ \A j \in Timed(k.exec) : j = k \/ j \in earlier[k] \/ k \in earlier[j]
    BY <2>4 DEF OrderInv
  <2>6. \A j \in earlier'[k] : earlier'[j] \subseteq earlier'[k]
    BY <2>1, <2>2, <2>4, <2>5 DEF Timed
  <2>7. \A j \in Timed(k.exec)' : j = k \/ j \in earlier'[k] \/ k \in earlier'[j]
    BY <2>1, <2>2, <2>3, <2>4, <2>5 DEF Timed
  <2> QED
    BY <2>3, <2>4, <2>5, <2>6, <2>7
<1>4. Transaction
  BY NextTransaction
<1> QED
  BY <1>1, <1>2, <1>3, <1>4 DEF Transaction, CreateExecution, InsertTransaction, Insert, CloseTransaction,
     FailActivity, DeadLetterActivity, StatusTransaction, CompleteExecution, FailExecution,
     CompensatedExecution, SetStatus, DeleteTransaction

LEMMA Ordered == Spec => []OrderInv
<1>1. Init => OrderInv
  BY DEF Init, OrderInv
<1>2. IInv /\ OrderInv /\ [Next]_vars => OrderInv'
  BY OrderNext
<1> QED
  BY <1>1, <1>2, Inductive, PTL DEF Spec

-----------------------------------------------------------------------------
(* ListActivityExecutions: the rows of an execution are finitely many, and *)
(* the number of earlier ones is the place of a row with a completed_at.   *)

LEMMA RowsFinite ==
    ASSUME NEW e \in Exec
    PROVE  IsFiniteSet(RowsOf(e))
<1>1. IsFiniteSet(Step) /\ IsFiniteSet(1..AttemptCap)
  BY WorkflowAssumption, AttemptAssumption, FS_Interval DEF Step
<1>2. IsFiniteSet(CompName)
  <2> DEFINE T == {i \in Step : Comp[i] # NoComp}
  <2> DEFINE f == [i \in T |-> Comp[i]]
  <2>1. T \in SUBSET Step
    OBVIOUS
  <2>2. IsFiniteSet(T)
    BY <1>1, <2>1, FS_Subset
  <2>3. f \in [T -> CompName] /\ \A c \in CompName : \E i \in T : f[i] = c
    BY WorkflowAssumption
  <2> HIDE DEF f
  <2>4. f \in Surjection(T, CompName)
    BY <2>3 DEF Surjection
  <2> QED
    BY <2>2, <2>4, FS_Surjection
<1>3. IsFiniteSet(Name)
  BY <1>1, <1>2, FS_Union DEF Name
<1>4. IsFiniteSet(Name \X (1..AttemptCap))
  BY <1>1, <1>3, FS_Product
<1> DEFINE P == Name \X (1..AttemptCap)
<1> DEFINE g == [q \in P |-> Row(e, q[1], q[2])]
<1>5. g \in [P -> RowsOf(e)]
  BY RowType DEF RowsOf, Row
<1>6. \A k \in RowsOf(e) : \E q \in P : g[q] = k
  <2> SUFFICES ASSUME NEW k \in RowsOf(e) PROVE \E q \in P : g[q] = k
    OBVIOUS
  <2>1. <<k.name, k.attempt>> \in P /\ k = Row(e, k.name, k.attempt)
    BY DEF RowsOf, Key, Row
  <2> QED
    BY <2>1
<1> HIDE DEF g
<1>7. g \in Surjection(P, RowsOf(e))
  BY <1>5, <1>6 DEF Surjection
<1> QED
  BY <1>4, <1>7, FS_Surjection

LEMMA TimedFinite ==
    ASSUME NEW e \in Exec
    PROVE  IsFiniteSet(Timed(e)) /\ Cardinality(Timed(e)) \in Nat
<1>1. IsFiniteSet(RowsOf(e)) /\ Timed(e) \in SUBSET RowsOf(e)
  BY RowsFinite DEF Timed
<1>2. IsFiniteSet(Timed(e))
  BY <1>1, FS_Subset
<1> QED
  BY <1>2, FS_CardinalityType

\* Ranks order the rows as completed_at does.
LEMMA RankOrder ==
    ASSUME IInv, OrderInv, NEW e \in Exec, NEW k \in Timed(e)
    PROVE  /\ Rank(k) \in 0..(Cardinality(Timed(e)) - 1)
           /\ \A j \in Timed(e) : j \in earlier[k] <=> Rank(j) < Rank(k)
           /\ \A j \in Timed(e) : Rank(j) = Rank(k) => j = k
<1>1. IsFiniteSet(Timed(e)) /\ Cardinality(Timed(e)) \in Nat
  BY TimedFinite
<1>2. \A j \in Timed(e) : j \in done /\ j.exec = e /\ earlier[j] \in SUBSET Timed(e)
  BY DEF Timed, RowsOf, OrderInv
<1>3. ASSUME NEW j \in Timed(e) PROVE IsFiniteSet(earlier[j]) /\ Rank(j) \in Nat
  <2>1. IsFiniteSet(earlier[j])
    BY <1>1, <1>2, FS_Subset
  <2> QED
    BY <2>1, FS_CardinalityType DEF Rank
<1>4. ASSUME NEW i \in Timed(e), NEW j \in Timed(e), i \in earlier[j] PROVE Rank(i) < Rank(j)
  <2>1. earlier[i] \in SUBSET earlier[j] /\ i \notin earlier[i]
    BY <1>2, <1>4 DEF OrderInv
  <2>2. IsFiniteSet(earlier[j]) /\ earlier[i] # earlier[j]
    BY <1>3, <1>4, <2>1
  <2>3. Cardinality(earlier[i]) <= Cardinality(earlier[j]) /\ Cardinality(earlier[i]) # Cardinality(earlier[j])
    BY <2>1, <2>2, FS_Subset
  <2> QED
    BY <1>3, <2>3 DEF Rank
<1>5. Rank(k) < Cardinality(Timed(e))
  <2>1. earlier[k] # Timed(e)
    BY <1>2 DEF OrderInv
  <2>2. Cardinality(earlier[k]) <= Cardinality(Timed(e)) /\ Cardinality(earlier[k]) # Cardinality(Timed(e))
    BY <1>1, <1>2, <2>1, FS_Subset
  <2> QED
    BY <1>1, <1>3, <2>2 DEF Rank
<1>6. ASSUME NEW j \in Timed(e) PROVE j = k \/ j \in earlier[k] \/ k \in earlier[j]
  BY <1>2 DEF OrderInv
<1> QED
  BY <1>1, <1>3, <1>4, <1>5, <1>6

\* Every place belongs to a row.
LEMMA RankOnto ==
    ASSUME IInv, OrderInv, NEW e \in Exec, NEW r \in 0..(Cardinality(Timed(e)) - 1)
    PROVE  \E k \in Timed(e) : Rank(k) = r
<1> DEFINE n == Cardinality(Timed(e))
<1> DEFINE f == [k \in Timed(e) |-> Rank(k)]
<1>1. n \in Nat /\ IsFiniteSet(Timed(e))
  BY TimedFinite
<1>2. f \in [Timed(e) -> 0..(n - 1)] /\ IsInjective(f)
  BY RankOrder DEF IsInjective
<1>3. IsFiniteSet(0..(n - 1)) /\ Cardinality(0..(n - 1)) = n
  BY <1>1, FS_Interval
<1> HIDE DEF f, n
<1>4. f \in Injection(Timed(e), 0..(n - 1))
  BY <1>2 DEF Injection
<1>5. Cardinality(Timed(e)) = Cardinality(0..(n - 1))
  BY <1>3 DEF n
<1>6. f \in Surjection(Timed(e), 0..(n - 1))
  BY <1>3, <1>4, <1>5, FS_Injection
<1>7. PICK k \in Timed(e) : f[k] = r
  BY <1>6 DEF Surjection, n
<1> QED
  BY <1>7 DEF f

\* A finite set as a sequence.
LEMMA SetToSeqHolds ==
    ASSUME NEW S, IsFiniteSet(S)
    PROVE  /\ SetToSeq(S) \in Seq(S)
           /\ \A x \in S : \E i \in 1..Len(SetToSeq(S)) : SetToSeq(S)[i] = x
<1> DEFINE n == Cardinality(S)
<1> DEFINE f == SetToSeq(S)
<1>1. n \in Nat /\ ExistsBijection(1..n, S)
  BY FS_CardinalityType
<1>2. \E g \in [1..n -> S] : IsInjective(g)
  BY <1>1 DEF ExistsBijection, Bijection, Injection
<1>3. f \in [1..n -> S] /\ IsInjective(f)
  BY <1>2 DEF SetToSeq
<1>4. IsFiniteSet(1..n) /\ Cardinality(1..n) = n
  BY <1>1, FS_Interval
<1> HIDE DEF f
<1>5. f \in Injection(1..n, S)
  BY <1>3 DEF Injection
<1>6. f \in Surjection(1..n, S)
  BY <1>4, <1>5, FS_Injection
<1>7. Len(f) = n /\ f \in Seq(S)
  BY <1>1, <1>3
<1> QED
  BY <1>6, <1>7 DEF Surjection, f

\* The list holds the rows of the execution, those with a completed_at first and in order.
LEMMA ListHolds ==
    ASSUME IInv, OrderInv, NEW e \in Exec, NEW acts, acts = ListActivityExecutions(e)
    PROVE  /\ Len(acts) \in Nat /\ DOMAIN acts = 1..Len(acts)
           /\ \A i \in DOMAIN acts : acts[i] \in RowsOf(e) /\ act[acts[i]] # "NONE"
           /\ \A i \in DOMAIN acts : acts[i] \in Timed(e) => Rank(acts[i]) = i - 1
           /\ \A k \in RowsOf(e) : act[k] # "NONE" => \E i \in DOMAIN acts : acts[i] = k
<1> DEFINE rows == {k \in RowsOf(e) : act[k] # "NONE"}
<1> DEFINE n    == Cardinality(Timed(e))
<1> DEFINE a    == [i \in 1..n |-> CHOOSE k \in Timed(e) : Rank(k) = i - 1]
<1> DEFINE b    == SetToSeq(rows \ done)
<1>1. rows \cap done = Timed(e) /\ Timed(e) \subseteq rows
  BY DEF Timed, IInv, RowInv, RowsOf, Closed
<1>2. acts = a \o b
  <2> DEFINE InOrder(S) == [i \in 1..Cardinality(S) |-> CHOOSE k \in S : Cardinality(earlier[k]) = i - 1]
  <2>1. acts = InOrder(rows \cap done) \o b
    BY DEF ListActivityExecutions
  <2>2. InOrder(Timed(e)) = a
    BY Zenon DEF Rank
  <2> HIDE DEF InOrder, a, b, rows
  <2> QED
    BY <1>1, <2>1, <2>2
<1>3. n \in Nat
  BY TimedFinite
<1>4. ASSUME NEW i \in 1..n PROVE a[i] \in Timed(e) /\ Rank(a[i]) = i - 1
  <2>1. i - 1 \in 0..(n - 1)
    BY <1>3
  <2>2. \E k \in Timed(e) : Rank(k) = i - 1
    BY <2>1, RankOnto
  <2> QED
    BY <2>2
<1>5. /\ b \in Seq(rows \ done)
      /\ \A x \in rows \ done : \E i \in 1..Len(b) : b[i] = x
  <2>1. IsFiniteSet(RowsOf(e)) /\ rows \ done \in SUBSET RowsOf(e)
    BY RowsFinite
  <2>2. IsFiniteSet(rows \ done)
    BY <2>1, FS_Subset
  <2> QED
    BY <2>2, SetToSeqHolds
<1>6. ASSUME NEW k \in Timed(e) PROVE \E i \in 1..n : a[i] = k
  <2>1. Rank(k) \in 0..(n - 1)
    BY RankOrder
  <2>2. Rank(k) + 1 \in 1..n /\ (Rank(k) + 1) - 1 = Rank(k)
    BY <1>3, <2>1
  <2>3. a[Rank(k) + 1] \in Timed(e) /\ Rank(a[Rank(k) + 1]) = Rank(k)
    BY <1>4, <2>2
  <2>4. a[Rank(k) + 1] = k
    BY <2>3, RankOrder
  <2> QED
    BY <2>2, <2>4
<1>7. a \in [1..n -> rows]
  BY <1>1, <1>4
<1> HIDE DEF a, b, rows, n
<1>8. a \in Seq(rows) /\ Len(a) = n /\ b \in Seq(rows) /\ Len(b) \in Nat
  BY <1>3, <1>5, <1>7
<1>9. /\ acts \in Seq(rows) /\ Len(acts) = n + Len(b)
      /\ \A i \in 1..(n + Len(b)) : acts[i] = IF i <= n THEN a[i] ELSE b[i - n]
  BY <1>2, <1>8, ConcatProperties
<1>10. Len(acts) \in Nat /\ DOMAIN acts = 1..Len(acts) /\ DOMAIN acts = 1..(n + Len(b))
  BY <1>3, <1>8, <1>9
<1>11. \A i \in DOMAIN acts : acts[i] \in rows
  BY <1>9
<1>12. ASSUME NEW i \in DOMAIN acts, acts[i] \in Timed(e) PROVE Rank(acts[i]) = i - 1
  <2>1. CASE i <= n
    BY <1>3, <1>4, <1>9, <1>10, <2>1
  <2>2. CASE ~(i <= n)
    <3>1. i - n \in 1..Len(b)
      BY <1>3, <1>8, <1>10, <2>2
    <3>2. b[i - n] \notin done
      BY <1>5, <3>1
    <3> QED
      BY <1>9, <1>10, <1>12, <2>2, <3>2 DEF Timed
  <2> QED
    BY <2>1, <2>2
<1>13. ASSUME NEW k \in rows PROVE \E i \in DOMAIN acts : acts[i] = k
  <2>1. CASE k \in done
    <3>1. PICK i \in 1..n : a[i] = k
      BY <1>1, <1>6, <2>1
    <3> QED
      BY <1>3, <1>8, <1>9, <1>10, <3>1
  <2>2. CASE k \notin done
    <3>1. PICK i \in 1..Len(b) : b[i] = k
      BY <1>5, <2>2
    <3>2. n + i \in 1..(n + Len(b)) /\ ~(n + i <= n) /\ (n + i) - n = i
      BY <1>3, <1>8, <3>1
    <3> QED
      BY <1>9, <1>10, <3>1, <3>2
  <2> QED
    BY <2>1, <2>2
<1> QED
  BY <1>10, <1>11, <1>12, <1>13 DEF rows

-----------------------------------------------------------------------------
(* determineNextCompensation.                                              *)

\* A nonempty set of places has a last one.
LEMMA LastPlace ==
    ASSUME NEW n \in Nat, NEW T \in SUBSET (1..n), T # {}
    PROVE  Max(T) \in T /\ \A j \in T : j <= Max(T)
<1> DEFINE U == {n - i : i \in T}
<1>1. U \subseteq Nat /\ U # {}
  OBVIOUS
<1>2. PICK u \in U : \A v \in U : ~(<<v, u>> \in OpToRel(<, Nat))
  BY <1>1, NatLessThanWellFounded, WFMin, Zenon
<1>3. \A v \in U : ~(v < u)
  BY <1>1, <1>2 DEF OpToRel
<1>4. PICK m \in T : u = n - m
  OBVIOUS
<1>5. ASSUME NEW j \in T PROVE m >= j
  <2>1. ~(n - j < n - m)
    BY <1>3, <1>4
  <2> QED
    BY <2>1
<1>6. \E x \in T : \A y \in T : x >= y
  BY <1>5
<1>7. Max(T) \in T /\ \A y \in T : Max(T) >= y
  BY <1>6 DEF Max
<1> QED
  BY <1>7

\* The places of the second loop are those of the rows that Engine's set names.
LEMMA HitsAreUncompensated ==
    ASSUME IInv, OrderInv, NEW e \in Exec, NEW acts, acts = ListActivityExecutions(e)
    PROVE  /\ \A i \in Hits(acts) : acts[i] \in Uncompensated(e)
           /\ \A k \in Uncompensated(e) : \E i \in Hits(acts) : acts[i] = k
<1>1. /\ \A i \in DOMAIN acts : acts[i] \in RowsOf(e) /\ act[acts[i]] # "NONE"
      /\ \A k \in RowsOf(e) : act[k] # "NONE" => \E i \in DOMAIN acts : acts[i] = k
  BY ListHolds
<1>2. ToSet(acts) = {k \in RowsOf(e) : act[k] # "NONE"}
  BY <1>1 DEF ToSet
<1>3. ASSUME NEW c \in CompName PROVE c \in CompletedComps(acts) <=> Attempted(e, c)
  <2>1. c \notin Step
    BY WorkflowAssumption
  <2> QED
    BY <1>2, <2>1 DEF CompletedComps, Attempted
<1>4. \A i \in Step : Comp[i] # NoComp => Comp[i] \in CompName
  BY WorkflowAssumption
<1> QED
  BY <1>1, <1>3, <1>4 DEF Hits, Uncompensated

\* The last of them is the one that completed last.
LEMMA LoopFinds ==
    ASSUME IInv, OrderInv, NEW e \in Exec, NEW acts, acts = ListActivityExecutions(e)
    PROVE  IF Uncompensated(e) = {} THEN DetermineNextCompensation(acts) = NoComp
           ELSE NextCompensation(e) = {DetermineNextCompensation(acts)}
<1>1. /\ \A i \in Hits(acts) : acts[i] \in Uncompensated(e)
      /\ \A k \in Uncompensated(e) : \E i \in Hits(acts) : acts[i] = k
  BY HitsAreUncompensated
<1>2. CASE Uncompensated(e) = {}
  BY <1>1, <1>2 DEF DetermineNextCompensation
<1>3. CASE Uncompensated(e) # {}
  <2> DEFINE m == Max(Hits(acts))
  <2> DEFINE k == acts[m]
  <2>1. /\ Len(acts) \in Nat /\ DOMAIN acts = 1..Len(acts)
        /\ \A i \in DOMAIN acts : acts[i] \in Timed(e) => Rank(acts[i]) = i - 1
    BY ListHolds
  <2>2. Hits(acts) # {} /\ Hits(acts) \in SUBSET (1..Len(acts))
    BY <1>1, <1>3, <2>1 DEF Hits
  <2>3. m \in Hits(acts) /\ \A i \in Hits(acts) : i <= m
    BY <2>1, <2>2, LastPlace
  <2> HIDE DEF m
  <2>4. Uncompensated(e) \subseteq Timed(e)
    BY DEF Uncompensated, Timed, RowsOf, IInv, RowInv
  <2>5. k \in Uncompensated(e)
    BY <1>1, <2>3
  <2>6. ASSUME NEW j \in Uncompensated(e) PROVE j = k \/ j \in earlier[k]
    <3>1. PICK i \in Hits(acts) : acts[i] = j
      BY <1>1
    <3>2. Rank(j) = i - 1 /\ Rank(k) = m - 1 /\ i <= m
      BY <2>1, <2>2, <2>3, <2>4, <2>5, <3>1
    <3>3. i = m \/ Rank(j) < Rank(k)
      BY <2>2, <2>3, <3>1, <3>2
    <3> QED
      BY <2>4, <2>5, <3>1, <3>3, RankOrder
  <2>7. ASSUME NEW l \in Uncompensated(e), \A j \in Uncompensated(e) \ {l} : j \in earlier[l]
        PROVE  l = k
    <3> SUFFICES ASSUME l # k PROVE FALSE
      OBVIOUS
    <3>1. k \in earlier[l] /\ l \in earlier[k]
      BY <2>5, <2>6, <2>7
    <3>2. l \in done /\ earlier[k] \subseteq earlier[l] /\ l \notin earlier[l]
      BY <2>4, <2>7, <3>1 DEF OrderInv, Timed
    <3> QED
      BY <3>1, <3>2
  <2>8. NextCompensation(e) = {Comp[k.name]}
    BY <2>5, <2>6, <2>7 DEF NextCompensation
  <2>9. DetermineNextCompensation(acts) = Comp[k.name]
    BY <2>2 DEF DetermineNextCompensation, m
  <2> QED
    BY <1>3, <2>8, <2>9
<1> QED
  BY <1>2, <1>3

\* Whatever operators, late reports and crashes have done to the rows, the loops of
\* determineNextCompensation over the rows as the query orders them return the compensation
\* that the saga's rule asks for, and nil exactly when nothing is left to compensate.
THEOREM LoopIsRule == Spec => []LoopFindsNextCompensation
<1>1. IInv /\ OrderInv => LoopFindsNextCompensation
  BY LoopFinds DEF LoopFindsNextCompensation
<1> QED
  BY <1>1, Inductive, Ordered, PTL

-----------------------------------------------------------------------------
(* Induction over sets of numbers, and what it gives: functions on Nat     *)
(* that are what their recursive definitions say.                          *)

\* A set that holds 0 and the successor of each of its numbers holds all of them.
LEMMA SetInduction ==
    ASSUME NEW S, 0 \in S, \A n \in Nat : n \in S => n + 1 \in S
    PROVE  Nat \subseteq S
<1> DEFINE R == OpToRel(<, Nat)
<1>1. IsWellFoundedOn(R, Nat)
  BY NatLessThanWellFounded
<1>2. \A x, y \in Nat : x < y => <<x, y>> \in R
  BY DEF OpToRel
<1> SUFFICES ASSUME Nat \ S # {} PROVE FALSE
  OBVIOUS
<1>3. PICK x \in Nat \ S : \A y \in Nat \ S : ~ (<<y, x>> \in R)
  <2> HIDE DEF R
  <2> QED
    BY <1>1, WFMin
<1>4. x # 0 /\ x - 1 \in Nat /\ x - 1 < x /\ x = x - 1 + 1
  OBVIOUS
<1>5. x - 1 \in S
  BY <1>2, <1>3, <1>4
<1> QED
  BY <1>3, <1>4, <1>5

\* The beginnings, up to n, of the function that is v0 at 0 and then step of the value before.
Segment(V, v0, step, n) ==
    {g \in [0..n -> V] : \A i \in 0..n : g[i] = IF i = 0 THEN v0 ELSE step[<<i, g[i - 1]>>]}

\* f is that function.
Recursion(f, v0, step) == \A n \in Nat : f[n] = IF n = 0 THEN v0 ELSE step[<<n, f[n - 1]>>]

\* There is one: beginnings of every length exist and agree where they overlap.
LEMMA PrimitiveRecursion ==
    ASSUME NEW V, NEW v0 \in V, NEW step \in [Nat \X V -> V]
    PROVE  \E f \in [Nat -> V] : Recursion(f, v0, step)
<1> DEFINE Begins(n) == Segment(V, v0, step, n)
<1>0. \A n \in Nat : \A g : g \in Begins(n) <=>
         g \in [0..n -> V] /\ \A i \in 0..n : g[i] = IF i = 0 THEN v0 ELSE step[<<i, g[i - 1]>>]
  BY DEF Segment
<1> HIDE DEF Begins
<1>1. ASSUME NEW m \in Nat, NEW n \in Nat, NEW g \in Begins(m), NEW k \in Begins(n)
      PROVE  \A i \in 0..m : i \in 0..n => g[i] = k[i]
  <2> DEFINE S == {i \in Nat : i \in 0..m /\ i \in 0..n => g[i] = k[i]}
  <2>1. 0 \in S
    <3>1. 0 \in 0..m /\ 0 \in 0..n
      OBVIOUS
    <3>2. g[0] = v0 /\ k[0] = v0
      BY <1>0, <3>1
    <3> QED
      BY <3>2
  <2>2. ASSUME NEW i \in Nat, i \in S PROVE i + 1 \in S
    <3>1. CASE i + 1 \in 0..m /\ i + 1 \in 0..n
      <4>1. i \in 0..m /\ i \in 0..n /\ i + 1 # 0 /\ i + 1 - 1 = i
        BY <3>1
      <4>2. g[i] = k[i]
        BY <2>2, <4>1
      <4>3. g[i + 1] = step[<<i + 1, g[i]>>] /\ k[i + 1] = step[<<i + 1, k[i]>>]
        BY <1>0, <3>1, <4>1
      <4> QED
        BY <4>2, <4>3
    <3> QED
      BY <3>1
  <2>3. Nat \subseteq S
    <3> HIDE DEF S
    <3> QED
      BY <2>1, <2>2, SetInduction
  <2> QED
    BY <2>3
<1>2. \A n \in Nat : Begins(n) # {}
  <2> DEFINE S == {n \in Nat : Begins(n) # {}}
  <2>1. 0 \in S
    <3> DEFINE k == [i \in 0..0 |-> v0]
    <3>1. k \in [0..0 -> V] /\ \A i \in 0..0 : i = 0 /\ k[i] = v0
      OBVIOUS
    <3>2. k \in Begins(0)
      <4> HIDE DEF k
      <4> QED
        BY <1>0, <3>1
    <3> QED
      BY <3>2
  <2>2. ASSUME NEW n \in Nat, n \in S PROVE n + 1 \in S
    <3>1. PICK g : g \in Begins(n)
      BY <2>2
    <3> DEFINE k == [i \in 0..(n + 1) |-> IF i = n + 1 THEN step[<<n + 1, g[n]>>] ELSE g[i]]
    <3>2. g \in [0..n -> V] /\ g[n] \in V /\ \A i \in 0..n : g[i] = IF i = 0 THEN v0 ELSE step[<<i, g[i - 1]>>]
      BY <1>0, <3>1
    <3>3. k \in [0..(n + 1) -> V]
      <4>1. step[<<n + 1, g[n]>>] \in V
        BY <3>2
      <4>2. \A i \in 0..(n + 1) : i = n + 1 \/ i \in 0..n
        OBVIOUS
      <4> QED
        BY <3>2, <4>1, <4>2
    <3>4. ASSUME NEW i \in 0..(n + 1) PROVE k[i] = IF i = 0 THEN v0 ELSE step[<<i, k[i - 1]>>]
      <4>1. CASE i = n + 1
        <5>1. n \in 0..(n + 1) /\ n # n + 1 /\ i - 1 = n /\ i # 0
          BY <4>1
        <5>2. k[i] = step[<<n + 1, g[n]>>] /\ k[n] = g[n]
          BY <4>1, <5>1
        <5> QED
          BY <4>1, <5>1, <5>2
      <4>2. CASE i = 0
        <5>1. 0 \in 0..n /\ 0 \in 0..(n + 1) /\ n + 1 # 0
          OBVIOUS
        <5>2. k[0] = g[0] /\ g[0] = v0
          BY <3>2, <5>1
        <5> QED
          BY <4>2, <5>2
      <4>3. CASE i # 0 /\ i # n + 1
        <5>1. i \in 0..n /\ i - 1 \in 0..n /\ i - 1 \in 0..(n + 1) /\ i - 1 # n + 1
          BY <4>3
        <5>2. k[i] = g[i] /\ k[i - 1] = g[i - 1]
          BY <4>3, <5>1
        <5> QED
          BY <3>2, <4>3, <5>1, <5>2
      <4> QED
        BY <4>1, <4>2, <4>3
    <3>5. k \in Begins(n + 1)
      <4> HIDE DEF k
      <4> QED
        BY <1>0, <3>3, <3>4
    <3> QED
      BY <3>5
  <2>3. Nat \subseteq S
    <3> HIDE DEF S
    <3> QED
      BY <2>1, <2>2, SetInduction
  <2> QED
    BY <2>3
<1> DEFINE b(n) == CHOOSE g : g \in Begins(n)
           f == [n \in Nat |-> b(n)[n]]
<1>3. \A n \in Nat : b(n) \in Begins(n)
  BY <1>2
<1> HIDE DEF b
<1>4. f \in [Nat -> V]
  <2>1. \A n \in Nat : b(n) \in [0..n -> V] /\ n \in 0..n
    BY <1>0, <1>3
  <2> QED
    BY <2>1
<1>5. ASSUME NEW n \in Nat PROVE f[n] = IF n = 0 THEN v0 ELSE step[<<n, f[n - 1]>>]
  <2>1. f[n] = b(n)[n] /\ n \in 0..n /\ b(n) \in Begins(n)
    BY <1>3
  <2>2. f[n] = IF n = 0 THEN v0 ELSE step[<<n, b(n)[n - 1]>>]
    <3> HIDE DEF f
    <3> QED
      BY <1>0, <2>1
  <2>3. CASE n # 0
    <3>1. n - 1 \in Nat /\ n - 1 \in 0..n /\ n - 1 \in 0..(n - 1)
      BY <2>3
    <3>2. b(n - 1) \in Begins(n - 1)
      BY <1>3, <3>1
    <3>3. b(n)[n - 1] = b(n - 1)[n - 1]
      BY <1>1, <2>1, <3>1, <3>2
    <3>4. f[n - 1] = b(n - 1)[n - 1]
      BY <3>1
    <3> QED
      BY <2>2, <3>3, <3>4
  <2> QED
    BY <2>2, <2>3
<1> HIDE DEF f
<1> QED
  BY <1>4, <1>5 DEF Recursion

-----------------------------------------------------------------------------
(* The delay of a retry.                                                   *)

LEMMA PowerRecursion ==
    /\ PowerOfTwo \in [Nat -> Nat]
    /\ PowerOfTwo[0] = 1
    /\ \A n \in Nat : PowerOfTwo[n + 1] = 2 * PowerOfTwo[n]
<1> DEFINE IsPower(f) == f = [n \in Nat |-> IF n = 0 THEN 1 ELSE 2 * f[n - 1]]
<1>1. PICK step \in [Nat \X Nat -> Nat] : \A n, v \in Nat : step[<<n, v>>] = 2 * v
  <2>1. [a \in Nat \X Nat |-> 2 * a[2]] \in [Nat \X Nat -> Nat]
    OBVIOUS
  <2> QED
    BY <2>1
<1>2. PICK one \in Nat : one = 1
  OBVIOUS
<1>3. PICK f \in [Nat -> Nat] : Recursion(f, one, step)
  BY PrimitiveRecursion
<1>4. IsPower(f)
  <2>1. ASSUME NEW n \in Nat PROVE f[n] = IF n = 0 THEN 1 ELSE 2 * f[n - 1]
    <3>1. f[n] = IF n = 0 THEN 1 ELSE step[<<n, f[n - 1]>>]
      BY <1>2, <1>3 DEF Recursion
    <3>2. n # 0 => n - 1 \in Nat /\ f[n - 1] \in Nat
      OBVIOUS
    <3> QED
      BY <1>1, <3>1, <3>2
  <2> QED
    BY <2>1
<1>5. PowerOfTwo = CHOOSE g : IsPower(g)
  BY DEF PowerOfTwo
<1>6. IsPower(PowerOfTwo)
  <2> HIDE DEF IsPower
  <2> QED
    BY <1>4, <1>5
<1>7. \A n \in Nat : PowerOfTwo[n] = IF n = 0 THEN 1 ELSE 2 * PowerOfTwo[n - 1]
  BY <1>6
<1>8. PowerOfTwo[0] = 1 /\ \A n \in Nat : PowerOfTwo[n + 1] = 2 * PowerOfTwo[n]
  <2>1. ASSUME NEW n \in Nat PROVE PowerOfTwo[n + 1] = 2 * PowerOfTwo[n]
    <3>1. n + 1 \in Nat /\ n + 1 # 0 /\ n + 1 - 1 = n
      OBVIOUS
    <3> QED
      BY <1>7, <3>1
  <2> QED
    BY <1>7, <2>1
<1>9. Nat \subseteq {n \in Nat : PowerOfTwo[n] \in Nat}
  <2> DEFINE S == {n \in Nat : PowerOfTwo[n] \in Nat}
  <2>1. 0 \in S
    BY <1>8
  <2>2. \A n \in Nat : n \in S => n + 1 \in S
    BY <1>8
  <2> QED
    <3> HIDE DEF S
    <3>1. Nat \subseteq S
      BY <2>1, <2>2, SetInduction
    <3> QED
      BY <3>1 DEF S
<1>10. PowerOfTwo \in [Nat -> Nat]
  <2>1. PowerOfTwo = [n \in Nat |-> PowerOfTwo[n]]
    BY <1>6
  <2> QED
    BY <1>9, <2>1
<1> QED
  BY <1>8, <1>10

\* The larger of two exponents has the larger power.
LEMMA PowersGrow ==
    ASSUME NEW m \in Nat, NEW n \in Nat, m < n
    PROVE  1 <= PowerOfTwo[m] /\ PowerOfTwo[m] < PowerOfTwo[n]
<1> DEFINE S == {i \in Nat : 1 <= PowerOfTwo[i] /\ (m < i => PowerOfTwo[m] < PowerOfTwo[i])}
<1>1. 0 \in S
  BY PowerRecursion
<1>2. ASSUME NEW i \in Nat, i \in S PROVE i + 1 \in S
  <2>1. PowerOfTwo[i + 1] = 2 * PowerOfTwo[i] /\ PowerOfTwo[i] \in Nat /\ PowerOfTwo[m] \in Nat
    BY PowerRecursion
  <2>2. 1 <= PowerOfTwo[i] /\ (m < i => PowerOfTwo[m] < PowerOfTwo[i])
    BY <1>2
  <2>3. m < i + 1 => m < i \/ m = i
    OBVIOUS
  <2> QED
    BY <2>1, <2>2, <2>3
<1>3. Nat \subseteq S
  <2> HIDE DEF S
  <2> QED
    BY <1>1, <1>2, SetInduction
<1> QED
  BY <1>3

LEMMA FirstPowers ==
    /\ PowerOfTwo[1] = 2 /\ PowerOfTwo[2] = 4 /\ PowerOfTwo[3] = 8 /\ PowerOfTwo[4] = 16
    /\ PowerOfTwo[5] = 32
<1>1. PowerOfTwo[0] = 1 /\ \A n \in Nat : PowerOfTwo[n + 1] = 2 * PowerOfTwo[n]
  BY PowerRecursion
<1>2. PowerOfTwo[0 + 1] = 2 * PowerOfTwo[0] /\ PowerOfTwo[1 + 1] = 2 * PowerOfTwo[1]
      /\ PowerOfTwo[2 + 1] = 2 * PowerOfTwo[2] /\ PowerOfTwo[3 + 1] = 2 * PowerOfTwo[3]
      /\ PowerOfTwo[4 + 1] = 2 * PowerOfTwo[4]
  BY <1>1
<1> QED
  BY <1>1, <1>2

LEMMA DelayRecursion ==
    /\ Delay[2] = 1
    /\ \A a \in Nat : 2 <= a => Delay[a + 1] = IF 2 * Delay[a] > 16 THEN 16 ELSE 2 * Delay[a]
<1> DEFINE next(a, v) == IF a <= 2 THEN 1 ELSE IF 2 * v > 16 THEN 16 ELSE 2 * v
           IsDelay(f) == f = [a \in Nat |-> next(a, f[a - 1])]
<1>1. PICK step \in [Nat \X Nat -> Nat] : \A n, v \in Nat : step[<<n, v>>] = next(n, v)
  <2>1. [a \in Nat \X Nat |-> next(a[1], a[2])] \in [Nat \X Nat -> Nat]
    OBVIOUS
  <2> QED
    BY <2>1
<1>2. PICK one \in Nat : one = 1
  OBVIOUS
<1>3. PICK f \in [Nat -> Nat] : Recursion(f, one, step)
  BY PrimitiveRecursion
<1>4. IsDelay(f)
  <2>1. ASSUME NEW n \in Nat PROVE f[n] = next(n, f[n - 1])
    <3> HIDE DEF next
    <3>1. f[n] = IF n = 0 THEN 1 ELSE step[<<n, f[n - 1]>>]
      BY <1>2, <1>3 DEF Recursion
    <3>2. n # 0 => n - 1 \in Nat /\ f[n - 1] \in Nat
      OBVIOUS
    <3>3. n = 0 => next(n, f[n - 1]) = 1
      BY DEF next
    <3> QED
      BY <1>1, <3>1, <3>2, <3>3
  <2> HIDE DEF next
  <2> QED
    BY <2>1
<1>5. Delay = CHOOSE g : IsDelay(g)
  BY DEF Delay
<1>6. IsDelay(Delay)
  <2> HIDE DEF IsDelay
  <2> QED
    BY <1>4, <1>5
<1>7. \A a \in Nat : Delay[a] = next(a, Delay[a - 1])
  <2> HIDE DEF next
  <2> QED
    BY <1>6
<1>8. Delay[2] = 1
  BY <1>7
<1>9. ASSUME NEW a \in Nat, 2 <= a
      PROVE  Delay[a + 1] = IF 2 * Delay[a] > 16 THEN 16 ELSE 2 * Delay[a]
  <2>1. a + 1 \in Nat /\ ~(a + 1 <= 2) /\ a + 1 - 1 = a
    BY <1>9
  <2> QED
    BY <1>7, <2>1
<1> QED
  BY <1>8, <1>9

\* As long as the shift stays within the int, capping the power of two is doubling up to the
\* cap: powers beyond 16 stay beyond.
LEMMA BackoffDoubles ==
    ASSUME NEW a \in 2..IntWidth
    PROVE  Backoff(a) = Delay[a] /\ Backoff(a) \in RetryTiers
<1> DEFINE S == {n \in Nat : /\ Delay[n + 2] = IF PowerOfTwo[n] > 16 THEN 16 ELSE PowerOfTwo[n]
                             /\ Delay[n + 2] \in RetryTiers}
<1>1. 0 \in S
  BY DelayRecursion, PowerRecursion DEF RetryTiers
<1>2. ASSUME NEW n \in Nat, n \in S PROVE n + 1 \in S
  <2>1. n + 2 \in Nat /\ 2 <= n + 2 /\ n + 1 + 2 = n + 2 + 1
    OBVIOUS
  <2>2. Delay[n + 1 + 2] = IF 2 * Delay[n + 2] > 16 THEN 16 ELSE 2 * Delay[n + 2]
    BY <2>1, DelayRecursion
  <2>3. PowerOfTwo[n + 1] = 2 * PowerOfTwo[n] /\ PowerOfTwo[n] \in Nat
    BY PowerRecursion
  <2>4. /\ Delay[n + 2] = IF PowerOfTwo[n] > 16 THEN 16 ELSE PowerOfTwo[n]
        /\ Delay[n + 2] \in {1, 2, 4, 8, 16}
    BY <1>2 DEF RetryTiers
  <2>5. Delay[n + 1 + 2] = IF PowerOfTwo[n + 1] > 16 THEN 16 ELSE PowerOfTwo[n + 1]
    BY <2>2, <2>3, <2>4
  <2>6. Delay[n + 1 + 2] \in {1, 2, 4, 8, 16}
    BY <2>2, <2>4
  <2> QED
    BY <2>5, <2>6 DEF RetryTiers
<1>3. Nat \subseteq S
  <2> HIDE DEF S
  <2> QED
    BY <1>1, <1>2, SetInduction
<1>4. PICK n \in Nat : n = a - 2 /\ n + 2 = a /\ ~(n >= IntWidth) /\ n # IntWidth - 1
  BY WidthAssumption
<1>5. ShiftedOne(a - 2) = PowerOfTwo[n]
  BY <1>4 DEF ShiftedOne
<1>6. n \in S
  BY <1>3
<1> QED
  BY <1>4, <1>5, <1>6 DEF Backoff

\* A column of more than six bits holds every tier.
LEMMA TiersFit == \A tier \in RetryTiers : Fits(tier)
<1>1. PICK c \in Nat : c = ColumnWidth - 1 /\ 5 < c
  BY WidthAssumption
<1>2. 32 < PowerOfTwo[c] /\ PowerOfTwo[c] \in Nat
  BY <1>1, FirstPowers, PowersGrow, PowerRecursion
<1> QED
  BY <1>1, <1>2 DEF RetryTiers, Fits

\* For ints and columns of any width, the shift of the code is the doubling that its name
\* promises up to the last attempt it can shift by; the next attempt's delay fits no column,
\* and from then on there is none.
THEOREM BackoffIsDoubling == Doubles /\ Overflows
<1>1. Doubles
  BY BackoffDoubles, TiersFit DEF Doubles
<1>2. ~Fits(Backoff(IntWidth + 1))
  <2>1. PICK c \in Nat, i \in Nat : c = ColumnWidth - 1 /\ i = IntWidth - 1 /\ c < i
    BY WidthAssumption
  <2>2. 1 <= PowerOfTwo[c] /\ PowerOfTwo[c] < PowerOfTwo[i] /\ PowerOfTwo[c] \in Nat /\ PowerOfTwo[i] \in Nat
    BY <2>1, PowersGrow, PowerRecursion
  <2>3. ~(i >= IntWidth)
    BY <2>1, WidthAssumption
  <2>4. Backoff(IntWidth + 1) = -PowerOfTwo[i]
    <3>1. PICK a \in Nat : a = IntWidth + 1 /\ a - 2 = i
      BY <2>1, WidthAssumption
    <3>2. PICK m \in Int : m = -PowerOfTwo[i] /\ ~(m > 16)
      BY <2>2
    <3>3. ShiftedOne(i) = m
      BY <2>1, <2>3, <3>2 DEF ShiftedOne
    <3>4. Backoff(a) = m
      BY <3>1, <3>2, <3>3 DEF Backoff
    <3> QED
      BY <3>1, <3>2, <3>4
  <2> QED
    BY <2>1, <2>2, <2>4 DEF Fits
<1>3. ASSUME NEW a \in (IntWidth + 2)..(2 * IntWidth) PROVE RouteOf(Backoff(a)) = "worker"
  BY WidthAssumption DEF RouteOf, Backoff, ShiftedOne
<1> QED
  BY <1>1, <1>2, <1>3 DEF Overflows

\* A message that is to wait carries a retry within its policy.
LaterInv ==
    \A m \in outbox : m.tier = "later" =>
        m.key.name \in Name /\ m.key.attempt \in 2..Budget(m.key.name)

LEMMA LaterNext ==
    ASSUME IInv, LaterInv, [Next]_vars
    PROVE  LaterInv'
<1> DEFINE InPolicy(m) == m.tier = "later" =>
                            m.key.name \in Name /\ m.key.attempt \in 2..Budget(m.key.name)
<1> SUFFICES ASSUME NEW m \in outbox', m \notin outbox PROVE InPolicy(m)
  BY DEF LaterInv
<1>1. ASSUME NEW k, Insert(k, "now") PROVE InPolicy(m)
  BY <1>1 DEF Insert
<1>2. ASSUME NEW p \in Consumer \cup Reaper, RetryStep(p) PROVE InPolicy(m)
  <2> PICK k : k = h[p].key
    OBVIOUS
  <2>1. /\ k \in Key /\ k.name \in Name /\ k.attempt \in Nat \ {0}
        /\ k.attempt < Budget(k.name)
    BY <1>2 DEF RetryStep, IInv, HandlerInv, Proc, Key
  <2>2. Budget(k.name) \in 1..AttemptCap
    BY <2>1, BudgetType
  <2>3. NextAttempt(k).name = k.name /\ NextAttempt(k).attempt = k.attempt + 1
    BY <2>1, <2>2, NextAttemptType, AttemptAssumption
  <2>4. NextAttempt(k).attempt \in 2..Budget(k.name)
    BY <2>1, <2>2, <2>3, AttemptAssumption
  <2>5. m = [key |-> NextAttempt(k), tier |-> "later"]
    BY <1>2 DEF RetryStep, ScheduleNextActivity, Insert, Rejected, db
  <2> QED
    BY <2>1, <2>3, <2>4, <2>5
<1>3. ASSUME NEW p \in Consumer \cup Reaper, Handle(p), ~RetryStep(p) PROVE InPolicy(m)
  BY <1>1, <1>3
  DEF Handle, BeginSuccess, CompleteStep, ReadExecution, AdvanceCompensation, FinishCompensation,
      AdvanceStep, FinishWorkflow, UnknownActivity, BeginFailure, FailStep, CompensateStep,
      FailWorkflow, Rejected, CompleteActivity, FailActivity, DeadLetterActivity, SetStatus,
      ScheduleNextActivity, StartCompensating, CompensatedExecution, CompleteExecution,
      FailExecution, db
<1>4. ASSUME NEW c \in Client, Request(c) PROVE InPolicy(m)
  BY <1>1, <1>4
  DEF Request, ReadDeadLetter, RetryDeadLetter, ReadFailedCompensation, RetryFailedCompensation,
      CancelExecution, DeleteExecution, RetryActivity, StartCompensating, SetStatus, db
<1>5. ASSUME NEW e \in Exec, StartWorkflow(e) PROVE InPolicy(m)
  BY <1>5 DEF StartWorkflow, CreateExecution
<1>6. ASSUME NEW p \in Proc, \/ DBError(p) \/ Crash(p)
                             \/ Settle(p) \/ (\E r \in results : Deliver(p, r))
                             \/ Scan(p) \/ ReapNext(p) \/ ReapEnd(p)
      PROVE  FALSE
  BY <1>6 DEF DBError, Crash, Settle, Deliver, Scan, ReapNext, ReapEnd, db
<1>7. CASE \/ \E k \in Key, r \in Outcome : WorkOnce(k, r) \/ WorkAgain(k, r)
           \/ UNCHANGED vars
  BY <1>7 DEF WorkOnce, WorkAgain, db, vars
<1> QED
  BY <1>2, <1>3, <1>4, <1>5, <1>6, <1>7 DEF Next, Undisturbed, Consume, Reap, Proc

\* As long as no policy allows more attempts than an int has bits, every retry waits in a
\* parking queue, for as long as doubling up to 16 seconds says.
THEOREM RetriesReallyWait ==
    ASSUME \A i \in Step : MaxAttempts[i] <= IntWidth
    PROVE  Spec => []RetriesWait
<1>1. ASSUME NEW n \in Name PROVE Budget(n) <= IntWidth
  <2>1. PICK i \in Step : Budget(n) = MaxAttempts[i]
    BY BudgetIsPolicy
  <2> QED
    BY <2>1
<1>2. IInv /\ LaterInv => RetriesWait
  <2> SUFFICES ASSUME LaterInv, NEW m \in outbox, m.tier = "later"
               PROVE  RouteOf(Backoff(m.key.attempt)) = "parked"
    BY BackoffIsDoubling DEF RetriesWait
  <2>1. m.key.name \in Name /\ m.key.attempt \in 2..Budget(m.key.name)
    BY DEF LaterInv
  <2>2. PICK a : a = m.key.attempt /\ a \in 2..IntWidth
    BY <1>1, <2>1, BudgetType, AttemptAssumption, WidthAssumption
  <2>3. Backoff(a) \in RetryTiers
    BY <2>2, BackoffDoubles
  <2> QED
    BY <2>2, <2>3 DEF RouteOf, RetryTiers
<1>3. Init => LaterInv
  BY DEF Init, LaterInv
<1>4. IInv /\ LaterInv /\ [Next]_vars => LaterInv'
  BY LaterNext
<1> QED
  BY <1>2, <1>3, <1>4, Inductive, PTL DEF Spec

-----------------------------------------------------------------------------
(* The inductive invariant of the saga.                                    *)

\* The status of an execution whose row k is worked on.
Phase(k) == IF k.name \in Step THEN "RUNNING" ELSE "COMPENSATING"

LastAttempt(k) ==
    \A j \in Key : j.exec = k.exec /\ j.name = k.name /\ k.attempt < j.attempt => act[j] = "NONE"

\* Every compensation that has been scheduled has succeeded.
AllUndone(e) == \A k \in Key : k.exec = e /\ k.name \notin Step /\ act[k] # "NONE" => Completed(e, k.name)

\* The activities still to be undone, and the compensation that the saga has next.
Left(e) == {i \in Step : Completed(e, i) /\ Comp[i] # NoComp /\ ~Completed(e, Comp[i])}
NextUp(e, c) == \E i \in Left(e) : Comp[i] = c /\ \A j \in Left(e) : j <= i

FinalInv == \A k \in done : act[k] = "COMPLETED"

RetriedInv ==
    \A j, k \in Key :
        j.exec = k.exec /\ j.name = k.name /\ j.attempt < k.attempt /\ act[k] # "NONE" => act[j] = "FAILED"

PhaseInv == \A k \in Key : act[k] = "PENDING" => status[k.exec] = Phase(k)

\* What a handler that holds a lock knows beside Engine's ReadStaysCurrent.
Busy(p) ==
    LET k == h[p].key IN
    /\ status[k.exec] = Phase(k)
    /\ h[p].res = "ok" <=> h[p].pc \in {"complete", "readExec", "advance"}
    /\ h[p].pc = "compensate" => LastAttempt(k)
    /\ h[p].pc \in {"readExec", "advance"} => AllUndone(k.exec)

BusyInv == \A p \in Proc : h[p].pc \in Locked => Busy(p)

RollbackInv ==
    \A k \in Key : k.name \notin Step /\ act[k] # "NONE" =>
        Completed(k.exec, k.name) \/ NextUp(k.exec, k.name)

TrailInv ==
    \A j, k \in done : j.name \in Step /\ k.name \in Step /\ j \in earlier[k] => j.name < k.name

TablesInv == FinalInv /\ RetriedInv /\ PhaseInv /\ RollbackInv /\ TrailInv

SagaInv == IInv /\ QuietInv /\ Agreeing /\ TablesInv /\ BusyInv

-----------------------------------------------------------------------------
(* What is open in an execution.                                           *)

LEMMA StepsCompleted ==
    ASSUME IInv, NEW k \in Key, k.name \in Step, act[k] # "NONE",
           NEW i \in Step, i < k.name
    PROVE  Completed(k.exec, i)
<1>1. i \in 1..(k.name - 1)
  BY DEF Step
<1> QED
  BY <1>1 DEF IInv, SequentialSteps

\* A completed activity has been preceded by all activities before it.
LEMMA CompletedDownwards ==
    ASSUME IInv, NEW e \in Exec, NEW j \in Step, Completed(e, j), NEW i \in Step, i < j
    PROVE  Completed(e, i)
<1>1. PICK k \in done : k.exec = e /\ k.name = j
  BY DEF Completed
<1>2. k \in Key /\ act[k] # "NONE"
  BY <1>1 DEF IInv, TypeOK, RowInv, Closed
<1> QED
  BY <1>1, <1>2, StepsCompleted

\* What is open or has failed for good has not been completed by another attempt.
LEMMA NotCompleted ==
    ASSUME IInv, TablesInv, NEW k \in Key,
           act[k] = "PENDING" \/ (act[k] = "FAILED" /\ LastAttempt(k))
    PROVE  ~Completed(k.exec, k.name) /\ LastAttempt(k)
<1>1. LastAttempt(k)
  BY DEF TablesInv, RetriedInv, LastAttempt
<1>2. ASSUME NEW j \in done, j.exec = k.exec, j.name = k.name PROVE FALSE
  <2>1. j \in Key /\ act[j] = "COMPLETED"
    BY <1>2 DEF IInv, TypeOK, TablesInv, FinalInv
  <2>2. j.attempt \in Nat /\ k.attempt \in Nat
    BY <2>1 DEF Key
  <2>3. j # k
    BY <2>1
  <2>4. j.attempt # k.attempt
    BY <1>2, <2>1, <2>3 DEF Key
  <2>5. CASE j.attempt < k.attempt
    BY <1>2, <2>1, <2>5 DEF TablesInv, RetriedInv
  <2>6. CASE k.attempt < j.attempt
    BY <1>1, <1>2, <2>1, <2>6 DEF LastAttempt
  <2> QED
    BY <2>2, <2>4, <2>5, <2>6
<1> QED
  BY <1>1, <1>2 DEF Completed

\* One activity or compensation of an execution is under way at a time.
LEMMA OneUnderWay ==
    ASSUME IInv, TablesInv, NEW j \in Key, NEW k \in Key, j.exec = k.exec,
           act[j] # "NONE", act[k] # "NONE",
           ~Completed(j.exec, j.name), ~Completed(k.exec, k.name),
           j.name \in Step <=> k.name \in Step
    PROVE  j.name = k.name
<1>1. CASE j.name \in Step
  <2>1. ~(j.name < k.name) /\ ~(k.name < j.name)
    BY <1>1, StepsCompleted
  <2> QED
    BY <1>1, <2>1 DEF Step
<1>2. CASE j.name \notin Step
  <2>1. NextUp(k.exec, j.name) /\ NextUp(k.exec, k.name)
    BY <1>2 DEF TablesInv, RollbackInv
  <2>2. PICK a \in Left(k.exec) : Comp[a] = j.name /\ \A i \in Left(k.exec) : i <= a
    BY <2>1 DEF NextUp
  <2>3. PICK b \in Left(k.exec) : Comp[b] = k.name /\ \A i \in Left(k.exec) : i <= b
    BY <2>1 DEF NextUp
  <2>4. a = b
    BY <2>2, <2>3 DEF Left, Step
  <2> QED
    BY <2>2, <2>3, <2>4
<1> QED
  BY <1>1, <1>2

\* A row that has failed for good leaves no open row of its kind.
LEMMA NothingElseOpen ==
    ASSUME IInv, TablesInv, NEW k \in Key, act[k] = "FAILED", LastAttempt(k),
           NEW j \in Key, j.exec = k.exec, j.name \in Step <=> k.name \in Step
    PROVE  act[j] # "PENDING"
<1> SUFFICES ASSUME act[j] = "PENDING" PROVE FALSE
  OBVIOUS
<1>1. j.name = k.name
  BY NotCompleted, OneUnderWay
<1>2. j.attempt \in Nat /\ k.attempt \in Nat /\ j # k
  BY DEF Key
<1>3. j.attempt # k.attempt
  BY <1>1, <1>2 DEF Key
<1>4. CASE j.attempt < k.attempt
  BY <1>1, <1>4 DEF TablesInv, RetriedInv
<1>5. CASE k.attempt < j.attempt
  BY <1>1, <1>5 DEF LastAttempt
<1> QED
  BY <1>2, <1>3, <1>4, <1>5

-----------------------------------------------------------------------------
(* What a handler knows.                                                   *)

LEMMA AgreeingHandler ==
    ASSUME IInv, Agreeing, NEW p \in Consumer \cup Reaper, h[p].key \in Key
    PROVE  /\ h[p].res = "ok" => act[h[p].key] # "FAILED"
           /\ h[p].res # "ok" => act[h[p].key] # "COMPLETED"
<1>1. h[p].res \in Reports(h[p].key)
  BY DEF Reports
<1>2. h[p].res \in {"ok", "err", "fatal"}
  BY DEF IInv, TypeOK, Proc, Outcome
<1> QED
  BY <1>1, <1>2 DEF Agreeing

\* A handler that works on an execution.
LEMMA BusyHandler ==
    ASSUME SagaInv, NEW p \in Consumer \cup Reaper, h[p].pc \in Locked, NEW k, k = h[p].key
    PROVE  /\ p \in Proc /\ k \in Key /\ k.exec \in Exec
           /\ Exists(k.exec) /\ status[k.exec] = Phase(k)
           /\ h[p].pc \in {"complete", "fail"} => act[k] = "PENDING"
           /\ h[p].pc \in {"readExec", "advance"} => act[k] = "COMPLETED" /\ AllUndone(k.exec)
           /\ h[p].pc \in {"retry", "compensate"} => act[k] = "FAILED"
           /\ h[p].pc = "compensate" => LastAttempt(k)
           /\ h[p].pc \in {"fail", "advance", "compensate"} => h[p].seen = status[k.exec]
<1>1. p \in Proc
  BY DEF Proc
<1>2. k \in Key /\ k.exec \in Exec
  BY <1>1 DEF SagaInv, IInv, HandlerInv, Locked, Key
<1>3. Exists(k.exec) /\ Knows(p)
  BY <1>1, HandlerExists DEF SagaInv
<1>4. h[p].pc \in {"complete", "fail"} => act[k] = "PENDING"
  BY <1>1, <1>2, <1>3, AgreeingHandler DEF SagaInv, BusyInv, Busy, Knows
<1>5. h[p].pc \in {"fail", "advance", "compensate"} => h[p].seen = status[k.exec]
  BY <1>1 DEF SagaInv, QuietInv, SeenInv
<1> QED
  BY <1>1, <1>2, <1>3, <1>4, <1>5 DEF SagaInv, BusyInv, Busy, Knows

-----------------------------------------------------------------------------
(* The tables after each kind of transaction.                              *)

LEMMA SameCompleted ==
    ASSUME done' = done
    PROVE  /\ \A e, i : Completed(e, i)' <=> Completed(e, i)
           /\ \A e, c : NextUp(e, c)' <=> NextUp(e, c)
<1>1. \A e, i : Completed(e, i)' <=> Completed(e, i)
  BY DEF Completed
<1>2. \A e : Left(e)' = Left(e)
  BY <1>1 DEF Left
<1> QED
  BY <1>1, <1>2 DEF NextUp

\* A new row follows failed attempts only, its execution is in the phase of the row, and a
\* new compensation is the saga's next.
LEMMA TablesInsert ==
    ASSUME IInv, TablesInv, NEW j \in Key, act[j] = "NONE",
           act' = [act EXCEPT ![j] = "PENDING"], done' = done, earlier' = earlier,
           status'[j.exec] = Phase(j), \A e \in Exec \ {j.exec} : status'[e] = status[e],
           \A k \in Key : k.exec = j.exec /\ k.name = j.name /\ k.attempt < j.attempt => act[k] = "FAILED",
           \A k \in Key : k.exec = j.exec /\ act[k] = "PENDING" => Phase(k) = Phase(j),
           j.name \notin Step => Completed(j.exec, j.name) \/ NextUp(j.exec, j.name)
    PROVE  TablesInv'
<1>1. act'[j] = "PENDING" /\ \A k \in Key \ {j} : act'[k] = act[k]
  BY DEF IInv, TypeOK
<1>2. \A k \in Key : k.exec \in Exec
  BY DEF Key
<1>3. FinalInv'
  <2>1. \A k \in done : k \in Key /\ k # j
    BY DEF IInv, TypeOK, RowInv, Closed
  <2> QED
    BY <1>1, <2>1 DEF TablesInv, FinalInv
<1>4. RetriedInv'
  <2> SUFFICES ASSUME NEW i \in Key, NEW k \in Key, i.exec = k.exec, i.name = k.name,
                      i.attempt < k.attempt, act'[k] # "NONE"
               PROVE  act'[i] = "FAILED"
    BY DEF RetriedInv
  <2>1. CASE k = j
    BY <1>1, <2>1 DEF Key
  <2>2. CASE k # j
    BY <1>1, <2>2 DEF TablesInv, RetriedInv
  <2> QED
    BY <2>1, <2>2
<1>5. PhaseInv'
  <2> SUFFICES ASSUME NEW k \in Key, act'[k] = "PENDING" PROVE status'[k.exec] = Phase(k)
    BY DEF PhaseInv, Phase
  <2> QED
    BY <1>1, <1>2 DEF TablesInv, PhaseInv
<1>6. RollbackInv'
  BY <1>1, SameCompleted DEF TablesInv, RollbackInv
<1>7. TrailInv'
  BY DEF TablesInv, TrailInv
<1> QED
  BY <1>3, <1>4, <1>5, <1>6, <1>7 DEF TablesInv

LEMMA TablesFail ==
    ASSUME IInv, TablesInv, NEW k \in Key, act[k] = "PENDING",
           act' = [act EXCEPT ![k] = "FAILED"], UNCHANGED <<status, done, earlier>>
    PROVE  TablesInv'
<1>1. act'[k] = "FAILED" /\ \A j \in Key \ {k} : act'[j] = act[j]
  BY DEF IInv, TypeOK
<1>2. FinalInv'
  <2>1. \A j \in done : j \in Key /\ j # k
    BY DEF IInv, TypeOK, TablesInv, FinalInv
  <2> QED
    BY <1>1, <2>1 DEF TablesInv, FinalInv
<1>3. RetriedInv' /\ PhaseInv'
  BY <1>1 DEF TablesInv, RetriedInv, PhaseInv, Phase
<1>4. RollbackInv' /\ TrailInv'
  BY <1>1, SameCompleted DEF TablesInv, RollbackInv, TrailInv
<1> QED
  BY <1>2, <1>3, <1>4 DEF TablesInv

LEMMA TablesStatus ==
    ASSUME IInv, TablesInv, NEW e \in Exec, NEW s, status' = [status EXCEPT ![e] = s],
           UNCHANGED <<act, done, earlier>>,
           \A k \in Key : k.exec = e => act[k] # "PENDING"
    PROVE  TablesInv'
<1>1. PhaseInv'
  BY DEF IInv, TypeOK, TablesInv, PhaseInv, Phase, Key
<1>2. RollbackInv'
  BY SameCompleted DEF TablesInv, RollbackInv
<1> QED
  BY <1>1, <1>2 DEF TablesInv, FinalInv, RetriedInv, TrailInv

\* What a completion adds.
LEMMA CompletedBy ==
    ASSUME IInv, NEW k \in Key, CompleteActivity(k)
    PROVE  /\ done' = done \cup {k}
           /\ \A e, n : Completed(e, n)' <=> Completed(e, n) \/ (e = k.exec /\ n = k.name)
           /\ act'[k] = "COMPLETED" /\ \A j \in Key \ {k} : act'[j] = act[j]
           /\ status' = status
  BY DEF CompleteActivity, Completed, IInv, TypeOK

LEMMA TablesComplete ==
    ASSUME IInv, QuietInv, TablesInv, NEW k \in Key, act[k] = "PENDING", CompleteActivity(k)
    PROVE  TablesInv'
<1>1. /\ done' = done \cup {k}
      /\ \A e, n : Completed(e, n)' <=> Completed(e, n) \/ (e = k.exec /\ n = k.name)
      /\ act'[k] = "COMPLETED" /\ \A j \in Key \ {k} : act'[j] = act[j]
      /\ status' = status
  BY CompletedBy
<1>2. ~Completed(k.exec, k.name) /\ LastAttempt(k)
  BY NotCompleted
<1>3. FinalInv'
  BY <1>1 DEF TablesInv, FinalInv, IInv, TypeOK
<1>4. RetriedInv'
  BY <1>1, <1>2 DEF TablesInv, RetriedInv, LastAttempt
<1>5. PhaseInv'
  BY <1>1 DEF TablesInv, PhaseInv, Phase
<1>6. RollbackInv'
  <2> SUFFICES ASSUME NEW j \in Key, j.name \notin Step, act'[j] # "NONE", ~Completed(j.exec, j.name)'
               PROVE  NextUp(j.exec, j.name)'
    BY DEF RollbackInv
  <2>1. act[j] # "NONE" /\ ~Completed(j.exec, j.name) /\ NextUp(j.exec, j.name)
    BY <1>1 DEF TablesInv, RollbackInv
  <2>2. CASE j.exec = k.exec
    <3>1. status[k.exec] # "RUNNING"
      BY <2>1, <2>2 DEF QuietInv, ForwardInv
    <3>2. k.name \notin Step
      BY <3>1 DEF TablesInv, PhaseInv, Phase
    <3>3. j.name = k.name
      BY <1>2, <2>1, <2>2, <3>2, OneUnderWay
    <3> QED
      BY <1>1, <2>2, <3>3
  <2>3. CASE j.exec # k.exec
    <3>1. Left(j.exec)' = Left(j.exec)
      BY <1>1, <2>3 DEF Left
    <3> QED
      BY <2>1, <3>1 DEF NextUp
  <2> QED
    BY <2>2, <2>3
<1>7. TrailInv'
  <2> SUFFICES ASSUME NEW i \in done', NEW j \in done', i.name \in Step, j.name \in Step, i \in earlier'[j]
               PROVE  i.name < j.name
    BY DEF TrailInv
  <2>1. i \in Key /\ j \in Key
    BY <1>1 DEF IInv, TypeOK
  <2>2. CASE j = k
    <3>1. i \in done /\ i.exec = k.exec
      BY <2>1, <2>2 DEF CompleteActivity, RowsOf
    <3>2. Completed(k.exec, i.name) /\ k.exec \in Exec
      BY <2>1, <3>1 DEF Completed, Key
    <3>3. i.name # k.name /\ ~(k.name < i.name)
      BY <1>2, <2>2, <3>2, CompletedDownwards
    <3> QED
      BY <2>2, <3>3 DEF Step
  <2>3. CASE j # k
    <3>1. i \in earlier[j] /\ i # k
      BY <2>1, <2>3 DEF CompleteActivity
    <3> QED
      BY <1>1, <2>3, <3>1 DEF TablesInv, TrailInv
  <2> QED
    BY <2>2, <2>3
<1> QED
  BY <1>3, <1>4, <1>5, <1>6, <1>7 DEF TablesInv

LEMMA TablesStart ==
    ASSUME IInv, TablesInv, NEW e \in Exec, StartWorkflow(e)
    PROVE  TablesInv'
<1> DEFINE first == Row(e, 1, 1)
<1>1. /\ status[e] = "ABSENT" /\ status' = [status EXCEPT ![e] = IF N = 0 THEN "COMPLETED" ELSE "RUNNING"]
      /\ UNCHANGED <<done, earlier>>
  BY DEF StartWorkflow, CreateExecution
<1>2. \A k \in Key : k.exec = e => act[k] = "NONE"
  BY <1>1 DEF IInv, RowInv, Exists
<1>3. CASE N = 0
  BY <1>1, <1>2, <1>3, TablesStatus DEF StartWorkflow, CreateExecution
<1>4. CASE N # 0
  <2>1. 1 \in Step /\ first \in Key /\ first.exec = e /\ first.name = 1 /\ first.attempt = 1
    BY <1>4, RowType, WorkflowAssumption, AttemptAssumption DEF Name, Step, Row
  <2>2. act' = [act EXCEPT ![first] = "PENDING"]
    BY <1>4 DEF StartWorkflow, CreateExecution
  <2> HIDE DEF first
  <2>3. status'[e] = Phase(first) /\ \A f \in Exec \ {e} : status'[f] = status[f]
    BY <1>1, <1>4, <2>1 DEF Phase, IInv, TypeOK
  <2>4. /\ status'[first.exec] = Phase(first)
        /\ \A f \in Exec \ {first.exec} : status'[f] = status[f]
    BY <2>1, <2>3
  <2>5. \A k \in Key : k.exec = first.exec /\ k.name = first.name /\ k.attempt < first.attempt
                        => act[k] = "FAILED"
    BY <2>1 DEF Key
  <2>6. \A k \in Key : k.exec = first.exec /\ act[k] = "PENDING" => Phase(k) = Phase(first)
    BY <1>2, <2>1
  <2>7. act[first] = "NONE" /\ first.name \in Step
    BY <1>2, <2>1
  <2> QED
    BY <1>1, <2>1, <2>2, <2>4, <2>5, <2>6, <2>7, TablesInsert
<1> QED
  BY <1>3, <1>4

-----------------------------------------------------------------------------
(* determineNextCompensation finds what the saga has next.                 *)

LEMMA LeftIsUncompensated ==
    ASSUME IInv, TablesInv, NEW e \in Exec, AllUndone(e)
    PROVE  /\ \A k \in Uncompensated(e) : k.name \in Left(e) /\ k \in done
           /\ \A i \in Left(e) : \E k \in Uncompensated(e) : k.name = i
<1>1. ASSUME NEW c \in CompName PROVE Attempted(e, c) <=> Completed(e, c)
  <2>1. c \notin Step
    BY WorkflowAssumption
  <2>2. ASSUME Attempted(e, c) PROVE Completed(e, c)
    <3>1. PICK k \in Key : k.exec = e /\ k.name = c /\ act[k] \in {"COMPLETED", "FAILED"}
      BY <2>2 DEF Attempted, RowsOf
    <3> QED
      BY <2>1, <3>1 DEF AllUndone
  <2>3. ASSUME Completed(e, c) PROVE Attempted(e, c)
    <3>1. PICK k \in done : k.exec = e /\ k.name = c
      BY <2>3 DEF Completed
    <3>2. k \in Key /\ act[k] \in {"COMPLETED", "FAILED"}
      BY <3>1 DEF IInv, TypeOK, RowInv, Closed
    <3> QED
      BY <3>1, <3>2 DEF Attempted, RowsOf
  <2> QED
    BY <2>2, <2>3
<1>2. \A i \in Step : Comp[i] # NoComp => Comp[i] \in CompName
  BY WorkflowAssumption
<1>3. ASSUME NEW k \in Uncompensated(e) PROVE k.name \in Left(e) /\ k \in done
  <2>1. /\ k \in Key /\ k.exec = e /\ k.name \in Step /\ act[k] = "COMPLETED"
        /\ Comp[k.name] # NoComp /\ ~Attempted(e, Comp[k.name])
    BY DEF Uncompensated, RowsOf
  <2>2. k \in done
    BY <2>1 DEF IInv, RowInv
  <2>3. Completed(e, k.name) /\ ~Completed(e, Comp[k.name])
    BY <1>1, <1>2, <2>1, <2>2 DEF Completed
  <2> QED
    BY <2>1, <2>2, <2>3 DEF Left
<1>4. ASSUME NEW i \in Left(e) PROVE \E k \in Uncompensated(e) : k.name = i
  <2>1. i \in Step /\ Completed(e, i) /\ Comp[i] # NoComp /\ ~Completed(e, Comp[i])
    BY DEF Left
  <2>2. PICK k \in done : k.exec = e /\ k.name = i
    BY <2>1 DEF Completed
  <2>3. k \in Key /\ act[k] = "COMPLETED" /\ ~Attempted(e, Comp[i])
    BY <1>1, <1>2, <2>1, <2>2 DEF IInv, TypeOK, TablesInv, FinalInv
  <2> QED
    BY <2>1, <2>2, <2>3 DEF Uncompensated, RowsOf
<1> QED
  BY <1>3, <1>4

LEMMA NextIsUp ==
    ASSUME IInv, TablesInv, NEW e \in Exec, AllUndone(e), NEW c \in NextCompensation(e)
    PROVE  NextUp(e, c)
<1>1. PICK k \in Uncompensated(e) : c = Comp[k.name] /\ \A j \in Uncompensated(e) \ {k} : j \in earlier[k]
  BY DEF NextCompensation
<1>2. k.name \in Left(e) /\ k \in done
  BY <1>1, LeftIsUncompensated
<1>3. ASSUME NEW i \in Left(e) PROVE i <= k.name
  <2>1. PICK j \in Uncompensated(e) : j.name = i
    BY <1>3, LeftIsUncompensated
  <2>2. j \in done
    BY LeftIsUncompensated
  <2>3. i \in Step /\ k.name \in Step
    BY <1>2 DEF Left
  <2>4. CASE j = k
    BY <2>1, <2>3, <2>4 DEF Step
  <2>5. CASE j # k
    BY <1>1, <1>2, <2>1, <2>2, <2>3, <2>5 DEF TablesInv, TrailInv, Step
  <2> QED
    BY <2>4, <2>5
<1> QED
  BY <1>1, <1>2, <1>3 DEF NextUp

\* The row by which the engine schedules the next compensation.
LEMMA NextRow ==
    ASSUME IInv, NEW e \in Exec, NEW c \in NextCompensation(e)
    PROVE  /\ Row(e, c, 1) \in Key /\ Row(e, c, 1).exec = e
           /\ Row(e, c, 1).name = c /\ Row(e, c, 1).attempt = 1
           /\ c \in CompName /\ c \notin Step
<1>1. c \in CompName /\ c \notin Step
  BY NextCompensationType, WorkflowAssumption
<1> QED
  BY <1>1, RowType, AttemptAssumption DEF Name, Row

-----------------------------------------------------------------------------
(* Handlers keep the invariant of the tables.                              *)

\* A handler that schedules a compensation.
LEMMA CompensatingHandler ==
    ASSUME SagaInv, NEW p \in Consumer \cup Reaper, NEW k, k = h[p].key,
           AdvanceCompensation(p) \/ CompensateStep(p)
    PROVE  /\ k \in Key /\ k.exec \in Exec /\ AllUndone(k.exec)
           /\ \/ status[k.exec] = "COMPENSATING" /\ AdvanceCompensation(p)
              \/ /\ status[k.exec] = "RUNNING" /\ CompensateStep(p)
                 /\ k.name \in Step /\ act[k] = "FAILED" /\ LastAttempt(k)
<1>1. h[p].pc \in {"advance", "compensate"} /\ h[p].pc \in Locked
  BY DEF AdvanceCompensation, CompensateStep, Locked
<1>2. k \in Key /\ k.exec \in Exec /\ status[k.exec] = Phase(k) /\ h[p].seen = status[k.exec]
  BY <1>1, BusyHandler
<1>3. CASE AdvanceCompensation(p)
  <2>1. h[p].pc = "advance" /\ h[p].seen = "COMPENSATING"
    BY <1>3 DEF AdvanceCompensation
  <2> QED
    BY <1>1, <1>2, <1>3, <2>1, BusyHandler
<1>4. CASE CompensateStep(p)
  <2>1. h[p].pc = "compensate" /\ h[p].seen # "COMPENSATING"
    BY <1>4 DEF CompensateStep
  <2>2. status[k.exec] = "RUNNING" /\ k.name \in Step
    BY <1>2, <2>1 DEF Phase
  <2>3. AllUndone(k.exec)
    BY <2>2 DEF AllUndone, SagaInv, QuietInv, ForwardInv
  <2> QED
    BY <1>1, <1>2, <1>4, <2>1, <2>2, <2>3, BusyHandler
<1> QED
  BY <1>3, <1>4

LEMMA CompensatingTables ==
    ASSUME SagaInv, NEW p \in Consumer \cup Reaper,
           AdvanceCompensation(p) \/ CompensateStep(p)
    PROVE  TablesInv'
<1> PICK k : k = h[p].key
  OBVIOUS
<1> USE DEF SagaInv
<1>1. k \in Key /\ k.exec \in Exec /\ AllUndone(k.exec)
  BY CompensatingHandler
<1>2. PICK c \in NextCompensation(k.exec) : StartCompensating(Row(k.exec, c, 1)) \/ UNCHANGED db
  BY DEF AdvanceCompensation, CompensateStep, Rejected
<1> DEFINE next == Row(k.exec, c, 1)
<1>3. /\ next \in Key /\ next.exec = k.exec /\ next.name = c /\ next.attempt = 1
      /\ c \in CompName /\ c \notin Step
  BY <1>1, NextRow
<1>4. NextUp(k.exec, c)
  BY <1>1, NextIsUp
<1> HIDE DEF next
<1>5. CASE UNCHANGED db
  BY <1>5, SameCompleted DEF db, TablesInv, FinalInv, RetriedInv, PhaseInv, Phase, RollbackInv, TrailInv
<1>6. CASE StartCompensating(next)
  <2>1. /\ act[next] = "NONE" /\ act' = [act EXCEPT ![next] = "PENDING"]
        /\ done' = done /\ earlier' = earlier
        /\ status' = [status EXCEPT ![next.exec] = "COMPENSATING"]
    BY <1>6 DEF StartCompensating, Insert, CanInsert
  <2>2. status'[next.exec] = Phase(next) /\ \A e \in Exec \ {next.exec} : status'[e] = status[e]
    BY <1>1, <1>3, <2>1 DEF Phase, IInv, TypeOK
  <2>3. \A j \in Key : j.exec = next.exec /\ j.name = next.name /\ j.attempt < next.attempt => act[j] = "FAILED"
    BY <1>3 DEF Key
  <2>4. ASSUME NEW j \in Key, j.exec = next.exec, act[j] = "PENDING" PROVE Phase(j) = Phase(next)
    <3>1. CASE status[k.exec] = "COMPENSATING"
      BY <1>3, <2>4, <3>1 DEF TablesInv, PhaseInv, Phase
    <3>2. CASE k.name \in Step /\ act[k] = "FAILED" /\ LastAttempt(k)
      <4>1. j.name \notin Step
        BY <1>1, <1>3, <2>4, <3>2, NothingElseOpen
      <4> QED
        BY <1>3, <4>1 DEF Phase
    <3> QED
      BY <3>1, <3>2, CompensatingHandler
  <2>5. NextUp(next.exec, next.name)
    BY <1>3, <1>4
  <2> QED
    BY <1>3, <2>1, <2>2, <2>3, <2>4, <2>5, TablesInsert
<1> QED
  BY <1>2, <1>5, <1>6 DEF next

LEMMA UnchangedTables ==
    ASSUME TablesInv, UNCHANGED <<status, act, done, earlier>>
    PROVE  TablesInv'
  BY SameCompleted DEF TablesInv, FinalInv, RetriedInv, PhaseInv, Phase, RollbackInv, TrailInv

LEMMA AdvanceTables ==
    ASSUME SagaInv, NEW p \in Consumer \cup Reaper, AdvanceStep(p)
    PROVE  TablesInv'
<1> PICK k : k = h[p].key
  OBVIOUS
<1> DEFINE next == Row(k.exec, k.name + 1, 1)
<1> USE DEF SagaInv
<1>1. h[p].pc = "advance" /\ h[p].pc \in Locked /\ k.name \in Step /\ k.name # N
  BY DEF AdvanceStep, Locked
<1>2. k \in Key /\ k.exec \in Exec /\ status[k.exec] = Phase(k)
  BY <1>1, BusyHandler
<1>3. /\ next \in Key /\ next.exec = k.exec /\ next.attempt = 1 /\ next.name \in Step
  BY <1>1, <1>2, Successor
<1>4. \/ UNCHANGED db
      \/ Insert(next, "now") /\ status' = status
  BY DEF AdvanceStep, ScheduleNextActivity, Rejected
<1> HIDE DEF next
<1>5. CASE UNCHANGED db
  BY <1>5, UnchangedTables DEF db
<1>6. CASE Insert(next, "now") /\ status' = status
  <2>1. /\ act[next] = "NONE" /\ act' = [act EXCEPT ![next] = "PENDING"]
        /\ done' = done /\ earlier' = earlier
    BY <1>6 DEF Insert, CanInsert
  <2>2. status'[next.exec] = Phase(next) /\ \A e \in Exec \ {next.exec} : status'[e] = status[e]
    BY <1>1, <1>2, <1>3, <1>6 DEF Phase
  <2>3. \A j \in Key : j.exec = next.exec /\ j.name = next.name /\ j.attempt < next.attempt => act[j] = "FAILED"
    BY <1>3 DEF Key
  <2>4. \A j \in Key : j.exec = next.exec /\ act[j] = "PENDING" => Phase(j) = Phase(next)
    BY <1>1, <1>2, <1>3 DEF TablesInv, PhaseInv, Phase
  <2> QED
    BY <1>3, <2>1, <2>2, <2>3, <2>4, TablesInsert
<1> QED
  BY <1>4, <1>5, <1>6

LEMMA RetryTables ==
    ASSUME SagaInv, NEW p \in Consumer \cup Reaper, RetryStep(p)
    PROVE  TablesInv'
<1> PICK k : k = h[p].key
  OBVIOUS
<1> DEFINE next == NextAttempt(k)
<1> USE DEF SagaInv
<1>1. h[p].pc = "retry" /\ h[p].pc \in Locked
  BY DEF RetryStep, Locked
<1>2. p \in Proc /\ k \in Key /\ k.exec \in Exec /\ status[k.exec] = Phase(k) /\ act[k] = "FAILED"
  BY <1>1, BusyHandler
<1>3. k.attempt < AttemptCap
  BY <1>1, <1>2, BudgetType, AttemptAssumption DEF IInv, HandlerInv, Key
<1>4. /\ next \in Key /\ next.exec = k.exec /\ next.name = k.name /\ next.attempt = k.attempt + 1
  BY <1>2, <1>3, NextAttemptType
<1>5. \/ UNCHANGED db
      \/ Insert(next, "later") /\ status' = status
  BY DEF RetryStep, ScheduleNextActivity, Rejected
<1> HIDE DEF next
<1>6. CASE UNCHANGED db
  BY <1>6, UnchangedTables DEF db
<1>7. CASE Insert(next, "later") /\ status' = status
  <2>1. /\ act[next] = "NONE" /\ act' = [act EXCEPT ![next] = "PENDING"]
        /\ done' = done /\ earlier' = earlier
    BY <1>7 DEF Insert, CanInsert
  <2>2. Phase(next) = Phase(k)
    BY <1>4 DEF Phase
  <2>3. status'[next.exec] = Phase(next) /\ \A e \in Exec \ {next.exec} : status'[e] = status[e]
    BY <1>2, <1>4, <1>7, <2>2
  <2>4. ASSUME NEW j \in Key, j.exec = next.exec, j.name = next.name, j.attempt < next.attempt
        PROVE  act[j] = "FAILED"
    <3>1. j.attempt \in Nat /\ k.attempt \in Nat /\ j.attempt <= k.attempt
      BY <1>2, <1>4, <2>4 DEF Key
    <3>2. CASE j.attempt = k.attempt
      <4>1. j = k
        BY <1>2, <1>4, <2>4, <3>2 DEF Key
      <4> QED
        BY <1>2, <4>1
    <3>3. CASE j.attempt < k.attempt
      BY <1>2, <1>4, <2>4, <3>3 DEF TablesInv, RetriedInv
    <3> QED
      BY <3>1, <3>2, <3>3
  <2>5. \A j \in Key : j.exec = next.exec /\ act[j] = "PENDING" => Phase(j) = Phase(next)
    BY <1>2, <1>4, <2>2 DEF TablesInv, PhaseInv
  <2>6. next.name \notin Step => Completed(next.exec, next.name) \/ NextUp(next.exec, next.name)
    BY <1>2, <1>4 DEF TablesInv, RollbackInv
  <2> QED
    BY <1>4, <2>1, <2>3, <2>4, <2>5, <2>6, TablesInsert
<1> QED
  BY <1>5, <1>6, <1>7

\* A handler that closes its row.
LEMMA ClosingHandler ==
    ASSUME SagaInv, NEW p \in Consumer \cup Reaper, NEW k, k = h[p].key,
           CompleteStep(p) \/ FailStep(p)
    PROVE  /\ k \in Key /\ k.exec \in Exec /\ act[k] = "PENDING" /\ status[k.exec] = Phase(k)
           /\ \/ CompleteStep(p) /\ CompleteActivity(k)
              \/ /\ FailStep(p) /\ act' = [act EXCEPT ![k] = "FAILED"]
                 /\ UNCHANGED <<status, done, earlier>>
<1>1. h[p].pc \in {"complete", "fail"} /\ h[p].pc \in Locked
  BY DEF CompleteStep, FailStep, Locked
<1>2. k \in Key /\ k.exec \in Exec /\ act[k] = "PENDING" /\ status[k.exec] = Phase(k)
  BY <1>1, BusyHandler
<1> QED
  BY <1>2 DEF CompleteStep, FailStep, FailActivity, DeadLetterActivity

LEMMA ClosingTables ==
    ASSUME SagaInv, NEW p \in Consumer \cup Reaper, CompleteStep(p) \/ FailStep(p)
    PROVE  TablesInv'
<1> PICK k : k = h[p].key
  OBVIOUS
<1>1. k \in Key /\ act[k] = "PENDING"
  BY ClosingHandler
<1>2. \/ CompleteActivity(k)
      \/ act' = [act EXCEPT ![k] = "FAILED"] /\ UNCHANGED <<status, done, earlier>>
  BY ClosingHandler
<1> QED
  BY <1>1, <1>2, TablesComplete, TablesFail DEF SagaInv

\* A handler that sets a final status, and the saga's reason for it.
LEMMA FinishingHandler ==
    ASSUME SagaInv, NEW p \in Consumer \cup Reaper, NEW k, k = h[p].key,
           FinishCompensation(p) \/ FinishWorkflow(p) \/ FailWorkflow(p)
    PROVE  /\ k \in Key /\ k.exec \in Exec /\ Exists(k.exec)
           /\ \A j \in Key : j.exec = k.exec => act[j] # "PENDING"
           /\ \/ /\ FinishCompensation(p)
                 /\ status[k.exec] = "COMPENSATING" /\ Left(k.exec) = {}
              \/ /\ FinishWorkflow(p)
                 /\ status[k.exec] = "RUNNING" /\ \A i \in Step : Completed(k.exec, i)
              \/ /\ FailWorkflow(p) /\ status[k.exec] = "RUNNING" /\ Left(k.exec) = {}
                 /\ \E i \in Step : ~Completed(k.exec, i)
              \/ FailWorkflow(p) /\ status[k.exec] = "COMPENSATING" /\ Left(k.exec) # {}
<1> USE DEF SagaInv
<1>1. h[p].pc \in {"advance", "compensate"} /\ h[p].pc \in Locked
  BY DEF FinishCompensation, FinishWorkflow, FailWorkflow, Locked
<1>2. /\ k \in Key /\ k.exec \in Exec /\ Exists(k.exec)
      /\ status[k.exec] = Phase(k) /\ h[p].seen = status[k.exec]
  BY <1>1, BusyHandler
<1>3. \A j \in Key : j.exec = k.exec /\ act[j] = "PENDING" => (j.name \in Step <=> k.name \in Step)
  BY <1>2 DEF TablesInv, PhaseInv, Phase
<1>4. CASE FinishCompensation(p)
  <2>1. status[k.exec] = "COMPENSATING" /\ k.name \notin Step /\ Uncompensated(k.exec) = {}
    BY <1>2, <1>4 DEF FinishCompensation, Phase
  <2>2. AllUndone(k.exec)
    BY <1>1, <1>4, BusyHandler DEF FinishCompensation
  <2>3. Left(k.exec) = {}
    BY <1>2, <2>1, <2>2, LeftIsUncompensated
  <2>4. ASSUME NEW j \in Key, j.exec = k.exec, act[j] = "PENDING" PROVE FALSE
    BY <1>3, <2>1, <2>2, <2>4, NotCompleted DEF AllUndone
  <2> QED
    BY <1>2, <1>4, <2>1, <2>3, <2>4
<1>5. CASE FinishWorkflow(p)
  <2>1. h[p].pc = "advance" /\ k.name = N /\ h[p].seen # "COMPENSATING"
    BY <1>5 DEF FinishWorkflow
  <2>2. status[k.exec] = "RUNNING" /\ k.name \in Step /\ act[k] = "COMPLETED"
    BY <1>1, <1>2, <2>1, BusyHandler DEF Phase
  <2>3. k \in done
    BY <1>2, <2>2 DEF IInv, RowInv
  <2>4. ASSUME NEW i \in Step PROVE Completed(k.exec, i)
    <3>1. Completed(k.exec, k.name)
      BY <2>3 DEF Completed
    <3>2. i = k.name \/ i < k.name
      BY <2>1, WorkflowAssumption DEF Step
    <3> QED
      BY <1>2, <2>2, <3>1, <3>2, CompletedDownwards
  <2>5. ASSUME NEW j \in Key, j.exec = k.exec, act[j] = "PENDING" PROVE FALSE
    BY <1>3, <2>2, <2>4, <2>5, NotCompleted
  <2> QED
    BY <1>2, <1>5, <2>2, <2>4, <2>5
<1>6. CASE FailWorkflow(p)
  <2>1. act[k] = "FAILED" /\ LastAttempt(k)
    BY <1>1, <1>6, BusyHandler DEF FailWorkflow
  <2>2. ~Completed(k.exec, k.name)
    BY <1>2, <2>1, NotCompleted
  <2>3. \A j \in Key : j.exec = k.exec => act[j] # "PENDING"
    BY <1>2, <1>3, <2>1, NothingElseOpen
  <2>4. CASE k.name \in Step
    <3>1. status[k.exec] = "RUNNING" /\ Uncompensated(k.exec) = {}
      BY <1>2, <1>6, <2>4 DEF FailWorkflow, Phase
    <3>2. AllUndone(k.exec)
      BY <3>1 DEF AllUndone, QuietInv, ForwardInv
    <3>3. Left(k.exec) = {}
      BY <1>2, <3>1, <3>2, LeftIsUncompensated
    <3> QED
      BY <1>2, <1>6, <2>2, <2>3, <2>4, <3>1, <3>3
  <2>5. CASE k.name \notin Step
    <3>1. status[k.exec] = "COMPENSATING"
      BY <1>2, <2>5 DEF Phase
    <3>2. NextUp(k.exec, k.name)
      BY <1>2, <2>1, <2>2, <2>5 DEF TablesInv, RollbackInv
    <3> QED
      BY <1>2, <1>6, <2>3, <3>1, <3>2 DEF NextUp
  <2> QED
    BY <2>4, <2>5
<1> QED
  BY <1>4, <1>5, <1>6

LEMMA FinishingTables ==
    ASSUME SagaInv, NEW p \in Consumer \cup Reaper,
           FinishCompensation(p) \/ FinishWorkflow(p) \/ FailWorkflow(p)
    PROVE  TablesInv'
<1> PICK k : k = h[p].key
  OBVIOUS
<1>1. k \in Key /\ k.exec \in Exec /\ \A j \in Key : j.exec = k.exec => act[j] # "PENDING"
  BY FinishingHandler
<1>2. UNCHANGED db \/ \E s : SetStatus(k.exec, s)
  BY DEF FinishCompensation, FinishWorkflow, FailWorkflow, Rejected, CompensatedExecution,
     CompleteExecution, FailExecution
<1>3. CASE UNCHANGED db
  BY <1>3, UnchangedTables DEF db, SagaInv
<1>4. ASSUME NEW s, SetStatus(k.exec, s) PROVE TablesInv'
  BY <1>1, <1>4, TablesStatus DEF SetStatus, SagaInv
<1> QED
  BY <1>2, <1>3, <1>4

LEMMA HandleTables ==
    ASSUME SagaInv, NEW p \in Consumer \cup Reaper, Handle(p)
    PROVE  TablesInv'
<1>1. CASE BeginSuccess(p) \/ BeginFailure(p) \/ ReadExecution(p) \/ UnknownActivity(p)
  <2>1. UNCHANGED db
    BY <1>1 DEF BeginSuccess, BeginFailure, ReadExecution, UnknownActivity, Rejected
  <2> QED
    BY <2>1, UnchangedTables DEF db, SagaInv
<1> QED
  BY <1>1, CompensatingTables, AdvanceTables, RetryTables, ClosingTables, FinishingTables DEF Handle

-----------------------------------------------------------------------------
(* Handlers keep what they know.                                           *)

\* A step that leaves an execution alone leaves its handler alone.
LEMMA OthersBusy ==
    ASSUME SagaInv, NEW q \in Proc, h[q].pc \in Locked, h'[q] = h[q], NEW e, e = h[q].key.exec,
           status'[e] = status[e],
           \A k \in Key : k.exec = e => act'[k] = act[k],
           \A n : Completed(e, n) => Completed(e, n)'
    PROVE  Busy(q)'
<1> PICK k : k = h[q].key
  OBVIOUS
<1>1. k \in Key /\ k.exec = e
  BY DEF SagaInv, IInv, HandlerInv, Locked
<1>2. /\ status[k.exec] = Phase(k)
      /\ h[q].res = "ok" <=> h[q].pc \in {"complete", "readExec", "advance"}
      /\ h[q].pc = "compensate" => LastAttempt(k)
      /\ h[q].pc \in {"readExec", "advance"} => AllUndone(k.exec)
  BY DEF SagaInv, BusyInv, Busy
<1>3. LastAttempt(k) => LastAttempt(k)'
  BY <1>1 DEF LastAttempt
<1>4. AllUndone(e) => AllUndone(e)'
  BY DEF AllUndone
<1>5. status'[k.exec] = Phase(k)
  BY <1>1, <1>2
<1>6. h'[q] = h[q] /\ h'[q].key = k
  OBVIOUS
<1> QED
  BY <1>1, <1>2, <1>3, <1>4, <1>5, <1>6 DEF Busy, Phase

\* What the handlers' transactions do to the completed activities.
LEMMA HandleCompletes ==
    ASSUME SagaInv, NEW p \in Consumer \cup Reaper, Handle(p), NEW k, k = h[p].key
    PROVE  \/ CompleteStep(p) /\ k \in Key /\ CompleteActivity(k)
           \/ done' = done
<1>1. CASE CompleteStep(p)
  BY <1>1, ClosingHandler
<1>2. CASE FailStep(p)
  BY <1>2, ClosingHandler
<1>3. CASE BeginSuccess(p) \/ BeginFailure(p) \/ ReadExecution(p) \/ UnknownActivity(p)
  BY <1>3 DEF BeginSuccess, BeginFailure, ReadExecution, UnknownActivity, Rejected, db
<1>4. CASE FinishCompensation(p) \/ FinishWorkflow(p) \/ FailWorkflow(p)
  BY <1>4 DEF FinishCompensation, FinishWorkflow, FailWorkflow, Rejected, CompensatedExecution,
     CompleteExecution, FailExecution, SetStatus, db
<1>5. CASE AdvanceCompensation(p) \/ CompensateStep(p)
  BY <1>5 DEF AdvanceCompensation, CompensateStep, StartCompensating, Insert, Rejected, db
<1>6. CASE AdvanceStep(p) \/ RetryStep(p)
  BY <1>6 DEF AdvanceStep, RetryStep, ScheduleNextActivity, Insert, Rejected, db
<1> QED
  BY <1>1, <1>2, <1>3, <1>4, <1>5, <1>6 DEF Handle

\* A handler that has taken its execution's lock.
LEMMA BeginBusy ==
    ASSUME SagaInv, NEW p \in Consumer \cup Reaper, BeginSuccess(p) \/ BeginFailure(p), h'[p].pc \in Locked
    PROVE  Busy(p)'
<1> PICK k : k = h[p].key
  OBVIOUS
<1>1. p \in Proc /\ h[p].pc = "wait" /\ k \in Key /\ status' = status
  BY HandlerFrame DEF SagaInv, Handle, BeginSuccess, BeginFailure, db
<1>2. h'[p].pc \notin {"ack", "nack", "reap", "idle"}
  BY DEF Locked
<1>3. TypeOK
  BY DEF SagaInv, IInv
<1>4. CASE BeginSuccess(p)
  <2>1. act[k] \in {"PENDING", "FAILED"} /\ h' = [h EXCEPT ![p].pc = "complete"] /\ h[p].res = "ok"
    BY <1>1, <1>2, <1>3, <1>4, ReturnGoesTo DEF BeginSuccess
  <2>2. act[k] = "PENDING"
    BY <1>1, <2>1, AgreeingHandler DEF SagaInv
  <2>3. h'[p].pc = "complete" /\ h'[p].res = "ok" /\ h'[p].key = k
    BY <1>1, <1>3, <2>1 DEF TypeOK
  <2>4. status'[k.exec] = Phase(k)
    BY <1>1, <2>2 DEF SagaInv, TablesInv, PhaseInv
  <2> QED
    BY <2>3, <2>4 DEF Busy, Phase
<1>5. CASE BeginFailure(p)
  <2>1. /\ act[k] \in {"PENDING", "COMPLETED"} /\ h[p].res # "ok"
        /\ h' = [h EXCEPT ![p].pc = "fail", ![p].seen = status[k.exec]]
    BY <1>1, <1>2, <1>3, <1>5, ReturnGoesTo DEF BeginFailure
  <2>2. act[k] = "PENDING"
    BY <1>1, <2>1, AgreeingHandler DEF SagaInv
  <2>3. h'[p].pc = "fail" /\ h'[p].res = h[p].res /\ h'[p].key = k
    BY <1>1, <1>3, <2>1 DEF TypeOK
  <2>4. status'[k.exec] = Phase(k)
    BY <1>1, <2>2 DEF SagaInv, TablesInv, PhaseInv
  <2> QED
    BY <2>1, <2>3, <2>4 DEF Busy, Phase
<1> QED
  BY <1>4, <1>5

\* A handler that has completed or failed its row.
LEMMA ClosingBusy ==
    ASSUME SagaInv, NEW p \in Consumer \cup Reaper, CompleteStep(p) \/ FailStep(p), h'[p].pc \in Locked
    PROVE  Busy(p)'
<1> PICK k : k = h[p].key
  OBVIOUS
<1>1. /\ k \in Key /\ k.exec \in Exec /\ act[k] = "PENDING" /\ status[k.exec] = Phase(k)
      /\ \/ CompleteStep(p) /\ CompleteActivity(k)
         \/ FailStep(p) /\ act' = [act EXCEPT ![k] = "FAILED"] /\ UNCHANGED <<status, done, earlier>>
  BY ClosingHandler
<1>2. p \in Proc /\ h[p].pc \in {"complete", "fail"} /\ h[p].pc \in Locked
  BY DEF CompleteStep, FailStep, Proc, Locked
<1>3. h'[p].pc \notin {"ack", "nack", "reap", "idle"}
  BY DEF Locked
<1>4. TypeOK /\ IInv /\ TablesInv
  BY DEF SagaInv, IInv
<1>5. h[p].res = "ok" <=> h[p].pc = "complete"
  BY <1>2 DEF SagaInv, BusyInv, Busy
<1>6. ~Completed(k.exec, k.name) /\ LastAttempt(k)
  BY <1>1, <1>4, NotCompleted
<1>7. CASE CompleteStep(p) /\ CompleteActivity(k)
  <2>1. Goto(p, "readExec") /\ h[p].pc = "complete"
    BY <1>2, <1>3, <1>4, <1>7, ReturnGoesTo DEF CompleteStep, Rejected
  <2>2. h'[p].pc = "readExec" /\ h'[p].res = "ok" /\ h'[p].key = k
    BY <1>2, <1>4, <1>5, <2>1 DEF Goto, TypeOK
  <2>3. /\ \A e, n : Completed(e, n)' <=> Completed(e, n) \/ (e = k.exec /\ n = k.name)
        /\ \A j \in Key \ {k} : act'[j] = act[j]
        /\ status' = status
    BY <1>1, <1>4, <1>7, CompletedBy
  <2>4. AllUndone(k.exec)'
    <3> SUFFICES ASSUME NEW j \in Key, j.exec = k.exec, j.name \notin Step, act'[j] # "NONE",
                        ~Completed(k.exec, j.name)'
                 PROVE  FALSE
      BY DEF AllUndone
    <3>1. j # k /\ act[j] # "NONE" /\ ~Completed(k.exec, j.name) /\ j.name # k.name
      BY <2>3
    <3>2. status[k.exec] # "RUNNING"
      BY <3>1 DEF SagaInv, QuietInv, ForwardInv
    <3>3. k.name \notin Step
      BY <1>1, <3>2 DEF Phase
    <3> QED
      BY <1>1, <1>4, <1>6, <3>1, <3>3, OneUnderWay
  <2>5. status'[k.exec] = Phase(k)
    BY <1>1, <2>3
  <2> QED
    BY <2>2, <2>4, <2>5 DEF Busy, Phase
<1>8. CASE FailStep(p) /\ act' = [act EXCEPT ![k] = "FAILED"] /\ UNCHANGED <<status, done, earlier>>
  <2>1. (Goto(p, "retry") \/ Goto(p, "compensate")) /\ h[p].pc = "fail"
    BY <1>2, <1>3, <1>4, <1>8, ReturnGoesTo DEF FailStep, Rejected
  <2>2. h'[p].pc \in {"retry", "compensate"} /\ h'[p].res # "ok" /\ h'[p].key = k
    BY <1>2, <1>4, <1>5, <2>1 DEF Goto, TypeOK
  <2>3. LastAttempt(k)'
    BY <1>1, <1>4, <1>6, <1>8 DEF LastAttempt, TypeOK, Key
  <2>4. status'[k.exec] = Phase(k)
    BY <1>1, <1>8
  <2> QED
    BY <2>2, <2>3, <2>4 DEF Busy, Phase
<1> QED
  BY <1>1, <1>7, <1>8

LEMMA HandleBusy ==
    ASSUME SagaInv, NEW p \in Consumer \cup Reaper, Handle(p)
    PROVE  BusyInv'
<1> SUFFICES ASSUME NEW q \in Proc, h'[q].pc \in Locked PROVE Busy(q)'
  BY DEF BusyInv
<1> PICK k : k = h[p].key
  OBVIOUS
<1>1. /\ p \in Proc /\ h[p].pc \in Locked \cup {"wait"} /\ k \in Key /\ k.exec \in Exec
      /\ \A r \in Proc \ {p} : h'[r] = h[r]
      /\ \A e \in Exec \ {k.exec} : status'[e] = status[e]
      /\ \A j \in Key : j.exec # k.exec => act'[j] = act[j]
  BY HandlerFrame DEF SagaInv
<1>2. CASE q # p
  <2> PICK e : e = h[q].key.exec
    OBVIOUS
  <2>1. h'[q] = h[q] /\ h[q].pc \in Locked
    BY <1>1, <1>2
  <2>2. e \in Exec
    BY <2>1 DEF SagaInv, IInv, HandlerInv, Locked, Key
  <2>3. CASE e # k.exec
    <3>1. \A n : Completed(e, n) => Completed(e, n)'
      BY <2>3, HandleCompletes, CompletedBy, SameCompleted DEF SagaInv
    <3> QED
      BY <1>1, <2>1, <2>2, <2>3, <3>1, OthersBusy
  <2>4. CASE e = k.exec
    <3>1. h[p].pc \notin Locked
      BY <1>1, <1>2, <2>1, <2>4, OneDebtor DEF SagaInv
    <3>2. BeginSuccess(p) \/ BeginFailure(p)
      BY <3>1 DEF Handle, Locked, CompleteStep, ReadExecution, AdvanceCompensation, FinishCompensation,
         AdvanceStep, FinishWorkflow, UnknownActivity, FailStep, RetryStep, CompensateStep, FailWorkflow
    <3>3. UNCHANGED <<status, act, done>>
      BY <3>2 DEF BeginSuccess, BeginFailure, db
    <3>4. \A n : Completed(e, n) => Completed(e, n)'
      BY <3>3, SameCompleted
    <3> QED
      BY <2>1, <3>3, <3>4, OthersBusy
  <2> QED
    BY <2>3, <2>4
<1>3. CASE q = p
  <2>1. h'[p].pc \notin {"ack", "nack", "reap", "idle"}
    BY <1>3 DEF Locked
  <2>2. TypeOK
    BY DEF SagaInv, IInv
  <2>3. CASE BeginSuccess(p) \/ BeginFailure(p) \/ CompleteStep(p) \/ FailStep(p)
    BY <1>3, <2>3, BeginBusy, ClosingBusy
  <2>4. CASE ReadExecution(p)
    <3>1. /\ h[p].pc = "readExec" /\ UNCHANGED <<status, act, done>>
          /\ h' = [h EXCEPT ![p].pc = "advance", ![p].seen = status[k.exec]]
      BY <1>1, <2>1, <2>2, <2>4, ReturnGoesTo DEF ReadExecution, Rejected, db
    <3>2. h'[p].pc = "advance" /\ h'[p].res = h[p].res /\ h'[p].key = k
      BY <1>1, <2>2, <3>1 DEF TypeOK
    <3>3. status[k.exec] = Phase(k) /\ h[p].res = "ok" /\ AllUndone(k.exec)
      BY <1>1, <3>1 DEF SagaInv, BusyInv, Busy, Locked
    <3>4. AllUndone(k.exec)'
      BY <3>1, <3>3, SameCompleted DEF AllUndone
    <3>5. status'[k.exec] = Phase(k)
      BY <3>1, <3>3
    <3> QED
      BY <1>3, <3>2, <3>3, <3>4, <3>5 DEF Busy, Phase
  <2>5. CASE Return(p, "ack") \/ Return(p, "nack")
    BY <1>1, <2>1, <2>2, <2>5, ReturnGoesTo
  <2> QED
    BY <2>3, <2>4, <2>5 DEF Handle, AdvanceCompensation, FinishCompensation, AdvanceStep,
       FinishWorkflow, UnknownActivity, RetryStep, CompensateStep, FailWorkflow, Rejected
<1> QED
  BY <1>2, <1>3

-----------------------------------------------------------------------------
(* All steps.                                                              *)

LEMMA IdleBusy ==
    ASSUME SagaInv, UNCHANGED <<status, act, done>>,
           \A q \in Proc : h'[q].pc \in Locked => h'[q] = h[q]
    PROVE  BusyInv'
<1> SUFFICES ASSUME NEW q \in Proc, h'[q].pc \in Locked PROVE Busy(q)'
  BY DEF BusyInv
<1>1. h'[q] = h[q] /\ h[q].pc \in Locked
  OBVIOUS
<1>2. \A e, n : Completed(e, n) => Completed(e, n)'
  BY SameCompleted
<1> QED
  BY <1>1, <1>2, OthersBusy

LEMMA StartBusy ==
    ASSUME SagaInv, NEW e \in Exec, StartWorkflow(e)
    PROVE  BusyInv'
<1> SUFFICES ASSUME NEW q \in Proc, h'[q].pc \in Locked PROVE Busy(q)'
  BY DEF BusyInv
<1> PICK f : f = h[q].key.exec
  OBVIOUS
<1>1. h' = h /\ done' = done
  BY DEF StartWorkflow, CreateExecution
<1>2. h'[q] = h[q] /\ h[q].pc \in Locked
  BY <1>1
<1>3. f \in Exec /\ status[f] # "ABSENT"
  BY <1>2 DEF SagaInv, IInv, HandlerInv, StartedInv, Locked, Key
<1>4. f # e
  BY <1>3 DEF StartWorkflow, CreateExecution
<1>5. status'[f] = status[f]
  BY <1>3, <1>4 DEF StartWorkflow, CreateExecution, SagaInv, IInv, TypeOK
<1>6. \A k \in Key : k.exec = f => act'[k] = act[k]
  BY <1>4 DEF StartWorkflow, CreateExecution, Row, SagaInv, IInv, TypeOK
<1>7. \A n : Completed(f, n) => Completed(f, n)'
  BY <1>1, SameCompleted
<1> QED
  BY <1>2, <1>5, <1>6, <1>7, OthersBusy

LEMMA SagaTablesNext ==
    ASSUME Client = {}, SagaInv, Next
    PROVE  TablesInv' /\ BusyInv'
<1>1. ASSUME NEW p \in Proc, DBError(p) \/ Crash(p) PROVE TablesInv' /\ BusyInv'
  <2>1. h'[p].pc \in {"ack", "nack", "reap", "idle"}
    BY <1>1, ReturnGoesTo DEF DBError, Crash, Idle, SagaInv, IInv, TypeOK
  <2>2. \A q \in Proc \ {p} : h'[q] = h[q]
    BY <1>1 DEF DBError, Crash, Return, SagaInv, IInv, TypeOK
  <2>3. UNCHANGED <<status, act, done, earlier>>
    BY <1>1 DEF DBError, Crash, db
  <2>4. \A q \in Proc : h'[q].pc \in Locked => h'[q] = h[q]
    BY <2>1, <2>2 DEF Locked
  <2> QED
    BY <2>3, <2>4, IdleBusy, UnchangedTables DEF SagaInv
<1>2. ASSUME NEW e \in Exec, StartWorkflow(e) PROVE TablesInv' /\ BusyInv'
  BY <1>2, StartBusy, TablesStart DEF SagaInv
<1>3. ASSUME NEW p \in Consumer \cup Reaper, Handle(p) PROVE TablesInv' /\ BusyInv'
  BY <1>3, HandleTables, HandleBusy
<1>4. ASSUME NEW p \in Proc, \/ Settle(p) \/ (\E m \in results : Deliver(p, m))
                             \/ Scan(p) \/ ReapNext(p) \/ ReapEnd(p)
      PROVE  TablesInv' /\ BusyInv'
  <2>1. /\ UNCHANGED <<status, act, done, earlier>>
        /\ h'[p].pc \notin Locked
        /\ \A q \in Proc \ {p} : h'[q] = h[q]
    BY <1>4 DEF Settle, Deliver, Scan, ReapNext, ReapEnd, db, Idle, Locked, SagaInv, IInv, TypeOK
  <2> QED
    BY <2>1, IdleBusy, UnchangedTables DEF SagaInv
<1>5. CASE \E k \in Key, r \in Outcome : WorkOnce(k, r) \/ WorkAgain(k, r)
  <2>1. UNCHANGED <<status, act, done, earlier>> /\ h' = h
    BY <1>5 DEF WorkOnce, WorkAgain, db
  <2> QED
    BY <2>1, IdleBusy, UnchangedTables DEF SagaInv
<1> QED
  BY <1>1, <1>2, <1>3, <1>4, <1>5 DEF Next, Undisturbed, Consume, Reap, Proc

LEMMA SagaNext ==
    ASSUME Client = {}, SagaInv, [Next /\ Agreeing']_vars
    PROVE  SagaInv'
<1>1. IInv' /\ QuietInv'
  BY NextIInv, QuietNext DEF SagaInv
<1>2. CASE Next /\ Agreeing'
  BY <1>1, <1>2, SagaTablesNext DEF SagaInv
<1>3. CASE UNCHANGED vars
  <2>1. UNCHANGED <<status, act, done, earlier, results, h>>
    BY <1>3 DEF vars
  <2>2. TablesInv' /\ BusyInv'
    BY <2>1, IdleBusy, UnchangedTables DEF SagaInv
  <2>3. \A k : Reports(k)' = Reports(k)
    BY <2>1 DEF Reports
  <2>4. Agreeing'
    BY <2>1, <2>3 DEF SagaInv, Agreeing
  <2> QED
    BY <1>1, <2>2, <2>4 DEF SagaInv
<1> QED
  BY <1>2, <1>3

LEMMA InitSaga == Init => SagaInv
<1> SUFFICES ASSUME Init PROVE SagaInv
  OBVIOUS
<1>1. IInv /\ QuietInv
  BY InitIInv, InitQuiet
<1>2. /\ act = [k \in Key |-> "NONE"] /\ done = {} /\ results = {}
      /\ h = [p \in Proc |-> Idle]
  BY DEF Init
<1>3. TablesInv
  BY <1>2 DEF TablesInv, FinalInv, RetriedInv, PhaseInv, RollbackInv, TrailInv
<1>4. BusyInv
  BY <1>2 DEF BusyInv, Idle, Locked
<1>5. Agreeing
  BY <1>2, KeyAssumption DEF Agreeing, Reports, Idle, Proc
<1> QED
  BY <1>1, <1>3, <1>4, <1>5 DEF SagaInv

-----------------------------------------------------------------------------
(* The saga's state.                                                       *)

\* The completed activities are the first ones.
LEMMA ReachedIs ==
    ASSUME IInv, NEW e \in Exec
    PROVE  Reached(e) \in 0..N /\ \A i \in Step : Completed(e, i) <=> i <= Reached(e)
<1> DEFINE T == {i \in Step : Completed(e, i)}
<1>1. PICK n \in 0..N : T = 1..n
  <2>1. CASE T = Step
    BY <2>1, WorkflowAssumption DEF Step
  <2>2. CASE T # Step
    <3>1. PICK m \in Step \ T : \A j \in 1..(m - 1) : j \notin Step \ T
      <4>1. Step \ T \in SUBSET Step /\ Step \ T # {}
        BY <2>2
      <4> QED
        BY <4>1, LeastStep
    <3>2. \A i \in Step : m < i => i \notin T
      BY <3>1, CompletedDownwards
    <3>3. \A i \in Step : i < m => i \in T
      BY <3>1 DEF Step
    <3>4. T = 1..(m - 1) /\ m - 1 \in 0..N
      BY <3>1, <3>2, <3>3, WorkflowAssumption DEF Step
    <3> QED
      BY <3>4
  <2> QED
    BY <2>1, <2>2
<1>2. Cardinality(1..n) = n
  BY <1>1, WorkflowAssumption, FS_Interval
<1>3. Reached(e) = n
  BY <1>1, <1>2 DEF Reached
<1>4. \A i \in Step : Completed(e, i) <=> i \in T
  OBVIOUS
<1> QED
  BY <1>1, <1>3, <1>4, WorkflowAssumption DEF Step

\* The saga's variables of the engine's state.
reached == [e \in Exec |-> Reached(e)]
undone  == [e \in Exec |-> Undone(e)]

LEMMA AbstractToUndo ==
    ASSUME IInv, NEW e \in Exec
    PROVE  Abstract!ToUndo(e) = Left(e)
<1>1. Reached(e) \in 0..N /\ \A i \in Step : Completed(e, i) <=> i <= Reached(e)
  BY ReachedIs
<1>2. Abstract!ToUndo(e) = {i \in 1..Reached(e) : Comp[i] # NoComp /\ Comp[i] \notin Undone(e)}
  BY DEF Abstract!ToUndo
<1>3. \A i \in Step : Comp[i] # NoComp => (Comp[i] \notin Undone(e) <=> ~Completed(e, Comp[i]))
  BY WorkflowAssumption DEF Undone
<1>4. \A i : i \in 1..Reached(e) <=> i \in Step /\ Completed(e, i)
  BY <1>1, WorkflowAssumption DEF Step
<1> QED
  BY <1>2, <1>3, <1>4 DEF Left

LEMMA SameSaga ==
    ASSUME done' = done
    PROVE  UNCHANGED <<reached, undone>>
<1>1. \A e, i : Completed(e, i)' <=> Completed(e, i)
  BY SameCompleted
<1>2. \A e \in Exec : Reached(e)' = Reached(e) /\ Undone(e)' = Undone(e)
  BY <1>1 DEF Reached, Undone
<1> QED
  BY <1>2 DEF reached, undone

\* A change of an execution's status only.
LEMMA SetsStatus ==
    ASSUME NEW e \in Exec, NEW s, status' = [status EXCEPT ![e] = s], done' = done
    PROVE  Abstract!Set(e, s)
<1>1. UNCHANGED <<reached, undone>>
  BY SameSaga
<1> QED
  BY <1>1 DEF Abstract!Set, reached, undone

LEMMA Stutters ==
    ASSUME UNCHANGED <<status, done>>
    PROVE  UNCHANGED Abstract!vars
<1>1. UNCHANGED <<reached, undone>>
  BY SameSaga
<1> QED
  BY <1>1 DEF Abstract!vars, reached, undone

-----------------------------------------------------------------------------
(* Every step is a step of the saga.                                       *)

LEMMA StartIsStart ==
    ASSUME NEW e \in Exec, StartWorkflow(e)
    PROVE  Abstract!Start(e)
<1>1. /\ status[e] = "ABSENT" /\ done' = done
      /\ status' = [status EXCEPT ![e] = IF N = 0 THEN "COMPLETED" ELSE "RUNNING"]
  BY DEF StartWorkflow, CreateExecution
<1>2. Abstract!Set(e, IF N = 0 THEN "COMPLETED" ELSE "RUNNING")
  BY <1>1, SetsStatus
<1> QED
  BY <1>1, <1>2 DEF Abstract!Start

\* The success of an activity is the saga's next activity, that of a compensation its next
\* compensation.
LEMMA CompletionIsDoOrUndo ==
    ASSUME SagaInv, NEW p \in Consumer \cup Reaper, CompleteStep(p)
    PROVE  \E e \in Exec : Abstract!Do(e) \/ Abstract!Undo(e)
<1> PICK k : k = h[p].key
  OBVIOUS
<1> PICK e : e = k.exec
  OBVIOUS
<1>0. IInv /\ TablesInv
  BY DEF SagaInv
<1>1. /\ k \in Key /\ e \in Exec /\ act[k] = "PENDING" /\ status[e] = Phase(k)
      /\ CompleteActivity(k)
  BY ClosingHandler DEF CompleteStep, FailStep
<1>2. /\ \A f, n : Completed(f, n)' <=> Completed(f, n) \/ (f = e /\ n = k.name)
      /\ status' = status
  BY <1>0, <1>1, CompletedBy
<1>3. ~Completed(e, k.name)
  BY <1>0, <1>1, NotCompleted
<1>4. \A f \in Exec \ {e} : Reached(f)' = Reached(f) /\ Undone(f)' = Undone(f)
  BY <1>2 DEF Reached, Undone
<1>5. CASE k.name \in Step
  <2>1. status[e] = "RUNNING"
    BY <1>1, <1>5 DEF Phase
  <2>2. Reached(e) \in 0..N /\ \A i \in Step : Completed(e, i) <=> i <= Reached(e)
    BY <1>0, <1>1, ReachedIs
  <2>3. \A i \in Step : i < k.name => Completed(e, i)
    BY <1>0, <1>1, <1>5, StepsCompleted
  <2>4. Reached(e) = k.name - 1
    BY <1>3, <1>5, <2>2, <2>3, WorkflowAssumption DEF Step
  <2>5. Reached(e)' = k.name
    <3>1. {i \in Step : Completed(e, i)'} = 1..k.name
      BY <1>2, <1>5, <2>2, <2>4, WorkflowAssumption DEF Step
    <3>2. Cardinality(1..k.name) = k.name
      BY <1>5, FS_Interval DEF Step
    <3> QED
      BY <3>1, <3>2 DEF Reached
  <2>6. Reached(e) < N /\ Reached(e)' = Reached(e) + 1
    BY <1>5, <2>4, <2>5, WorkflowAssumption DEF Step
  <2>7. reached' = [reached EXCEPT ![e] = @ + 1]
    BY <1>4, <2>6 DEF reached
  <2>8. Undone(e)' = Undone(e)
    BY <1>2, <1>5, WorkflowAssumption DEF Undone
  <2>9. undone' = undone
    BY <1>4, <2>8 DEF undone
  <2>10. Abstract!Do(e)
    BY <1>1, <1>2, <2>1, <2>6, <2>7, <2>9 DEF Abstract!Do, reached, undone
  <2> QED
    BY <1>1, <2>10
<1>6. CASE k.name \notin Step
  <2>1. status[e] = "COMPENSATING" /\ k.name \in CompName
    BY <1>1, <1>6 DEF Phase, Key, Name
  <2>2. NextUp(e, k.name)
    BY <1>0, <1>1, <1>3, <1>6 DEF TablesInv, RollbackInv
  <2>3. PICK i \in Abstract!ToUndo(e) : Comp[i] = k.name /\ \A j \in Abstract!ToUndo(e) : j <= i
    BY <1>0, <1>1, <2>2, AbstractToUndo DEF NextUp
  <2>4. Undone(e)' = Undone(e) \cup {Comp[i]}
    BY <1>2, <2>1, <2>3 DEF Undone
  <2>5. undone' = [undone EXCEPT ![e] = @ \cup {Comp[i]}]
    BY <1>4, <2>4 DEF undone
  <2>6. Reached(e)' = Reached(e)
    BY <1>2, <1>6 DEF Reached
  <2>7. reached' = reached
    BY <1>4, <2>6 DEF reached
  <2>8. Abstract!Undo(e)
    BY <1>1, <1>2, <2>1, <2>3, <2>5, <2>7 DEF Abstract!Undo, reached, undone
  <2> QED
    BY <1>1, <2>8
<1> QED
  BY <1>5, <1>6

\* The first compensation begins the rollback; the others find it begun.
LEMMA CompensatingIsRollBack ==
    ASSUME SagaInv, NEW p \in Consumer \cup Reaper, AdvanceCompensation(p) \/ CompensateStep(p)
    PROVE  (\E e \in Exec : Abstract!RollBack(e)) \/ UNCHANGED Abstract!vars
<1> PICK k : k = h[p].key
  OBVIOUS
<1> PICK e : e = k.exec
  OBVIOUS
<1>0. IInv /\ TablesInv
  BY DEF SagaInv
<1>1. /\ k \in Key /\ e \in Exec /\ AllUndone(e)
      /\ \/ status[e] = "COMPENSATING" /\ AdvanceCompensation(p)
         \/ /\ status[e] = "RUNNING" /\ CompensateStep(p)
            /\ k.name \in Step /\ act[k] = "FAILED" /\ LastAttempt(k)
  BY CompensatingHandler
<1>2. PICK c \in NextCompensation(e) : StartCompensating(Row(e, c, 1)) \/ UNCHANGED db
  BY DEF AdvanceCompensation, CompensateStep, Rejected
<1>3. CASE UNCHANGED db
  BY <1>3, Stutters DEF db
<1>4. CASE StartCompensating(Row(e, c, 1))
  <2>1. status' = [status EXCEPT ![e] = "COMPENSATING"] /\ done' = done
    BY <1>4 DEF StartCompensating, Insert, Row
  <2>2. CASE status[e] = "COMPENSATING"
    <3>1. status' = status
      BY <1>0, <2>1, <2>2 DEF IInv, TypeOK
    <3> QED
      BY <2>1, <3>1, Stutters
  <2>3. CASE status[e] = "RUNNING" /\ k.name \in Step /\ act[k] = "FAILED" /\ LastAttempt(k)
    <3>1. ~Completed(e, k.name)
      BY <1>0, <1>1, <2>3, NotCompleted
    <3>2. Reached(e) < N
      BY <1>0, <1>1, <2>3, <3>1, ReachedIs, WorkflowAssumption DEF Step
    <3>3. Abstract!ToUndo(e) # {}
      BY <1>0, <1>1, NextIsUp, AbstractToUndo DEF NextUp
    <3>4. Abstract!Set(e, "COMPENSATING")
      BY <1>1, <2>1, SetsStatus
    <3>5. Abstract!RollBack(e)
      BY <1>1, <2>3, <3>2, <3>3, <3>4 DEF Abstract!RollBack
    <3> QED
      BY <1>1, <3>5
  <2> QED
    BY <1>1, <2>2, <2>3
<1> QED
  BY <1>2, <1>3, <1>4

\* A final status is the saga's.
LEMMA FinishingIsFinal ==
    ASSUME SagaInv, NEW p \in Consumer \cup Reaper,
           FinishCompensation(p) \/ FinishWorkflow(p) \/ FailWorkflow(p)
    PROVE  \/ \E e \in Exec : Abstract!Compensated(e) \/ Abstract!Complete(e) \/ Abstract!Fail(e)
           \/ UNCHANGED Abstract!vars
<1> PICK k : k = h[p].key
  OBVIOUS
<1> PICK e : e = k.exec
  OBVIOUS
<1>0. IInv /\ TablesInv
  BY DEF SagaInv
<1>1. /\ e \in Exec
      /\ \/ /\ FinishCompensation(p)
            /\ status[e] = "COMPENSATING" /\ Left(e) = {}
         \/ /\ FinishWorkflow(p)
            /\ status[e] = "RUNNING" /\ \A i \in Step : Completed(e, i)
         \/ /\ FailWorkflow(p) /\ status[e] = "RUNNING" /\ Left(e) = {}
            /\ \E i \in Step : ~Completed(e, i)
         \/ FailWorkflow(p) /\ status[e] = "COMPENSATING" /\ Left(e) # {}
  BY FinishingHandler
<1>2. /\ Reached(e) \in 0..N /\ \A i \in Step : Completed(e, i) <=> i <= Reached(e)
      /\ Abstract!ToUndo(e) = Left(e)
  BY <1>0, <1>1, ReachedIs, AbstractToUndo
<1>3. CASE UNCHANGED db
  BY <1>3, Stutters DEF db
<1>4. ASSUME NEW s, SetStatus(e, s) PROVE Abstract!Set(e, s)
  BY <1>1, <1>4, SetsStatus DEF SetStatus
<1>5. CASE FinishCompensation(p) /\ status[e] = "COMPENSATING" /\ Left(e) = {}
  <2>1. SetStatus(e, "COMPENSATED") \/ UNCHANGED db
    BY <1>5 DEF FinishCompensation, CompensatedExecution, Rejected
  <2> QED
    BY <1>1, <1>2, <1>3, <1>4, <1>5, <2>1 DEF Abstract!Compensated
<1>6. CASE FinishWorkflow(p) /\ status[e] = "RUNNING" /\ \A i \in Step : Completed(e, i)
  <2>1. SetStatus(e, "COMPLETED") \/ UNCHANGED db
    BY <1>6 DEF FinishWorkflow, CompleteExecution, Rejected
  <2>2. N \in Step
    <3>1. h[p].pc \in Locked /\ k.name = N
      BY <1>6 DEF FinishWorkflow, Locked
    <3>2. Phase(k) = "RUNNING"
      BY <1>6, <3>1, BusyHandler
    <3> QED
      BY <3>1, <3>2 DEF Phase
  <2>3. Reached(e) = N
    BY <1>2, <1>6, <2>2, WorkflowAssumption
  <2> QED
    BY <1>1, <1>3, <1>4, <1>6, <2>1, <2>3 DEF Abstract!Complete, reached
<1>7. CASE /\ FailWorkflow(p)
           /\ \/ /\ status[e] = "RUNNING" /\ Left(e) = {} /\ \E i \in Step : ~Completed(e, i)
              \/ status[e] = "COMPENSATING" /\ Left(e) # {}
  <2>1. SetStatus(e, "FAILED") \/ UNCHANGED db
    BY <1>7 DEF FailWorkflow, FailExecution, Rejected
  <2>2. (\E i \in Step : ~Completed(e, i)) => Reached(e) < N
    BY <1>2, WorkflowAssumption DEF Step
  <2> QED
    BY <1>1, <1>2, <1>3, <1>4, <1>7, <2>1, <2>2 DEF Abstract!Fail, reached
<1> QED
  BY <1>1, <1>5, <1>6, <1>7

LEMMA HandleIsSaga ==
    ASSUME SagaInv, NEW p \in Consumer \cup Reaper, Handle(p)
    PROVE  Abstract!Next \/ UNCHANGED Abstract!vars
<1>1. CASE UNCHANGED db
  BY <1>1, Stutters DEF db
<1>2. CASE BeginSuccess(p) \/ BeginFailure(p) \/ ReadExecution(p) \/ UnknownActivity(p)
  BY <1>1, <1>2 DEF BeginSuccess, BeginFailure, ReadExecution, UnknownActivity, Rejected
<1>3. CASE CompleteStep(p)
  BY <1>3, CompletionIsDoOrUndo DEF Abstract!Next
<1>4. CASE FailStep(p)
  <2>1. UNCHANGED <<status, done>>
    BY <1>4, ClosingHandler DEF FailStep, FailActivity, DeadLetterActivity, Rejected, db
  <2> QED
    BY <2>1, Stutters
<1>5. CASE AdvanceCompensation(p) \/ CompensateStep(p)
  BY <1>5, CompensatingIsRollBack DEF Abstract!Next
<1>6. CASE AdvanceStep(p) \/ RetryStep(p)
  <2>1. UNCHANGED <<status, done>>
    BY <1>6 DEF AdvanceStep, RetryStep, ScheduleNextActivity, Insert, Rejected, db
  <2> QED
    BY <2>1, Stutters
<1>7. CASE FinishCompensation(p) \/ FinishWorkflow(p) \/ FailWorkflow(p)
  BY <1>7, FinishingIsFinal DEF Abstract!Next
<1> QED
  BY <1>2, <1>3, <1>4, <1>5, <1>6, <1>7 DEF Handle

LEMMA NextIsSaga ==
    ASSUME Client = {}, SagaInv, Next
    PROVE  Abstract!Next \/ UNCHANGED Abstract!vars
<1>1. ASSUME NEW p \in Proc, \/ DBError(p) \/ Crash(p)
                             \/ Settle(p) \/ (\E m \in results : Deliver(p, m))
                             \/ Scan(p) \/ ReapNext(p) \/ ReapEnd(p)
      PROVE  UNCHANGED Abstract!vars
  <2>1. UNCHANGED <<status, done>>
    BY <1>1 DEF DBError, Crash, Settle, Deliver, Scan, ReapNext, ReapEnd, db
  <2> QED
    BY <2>1, Stutters
<1>2. ASSUME NEW k \in Key, NEW r \in Outcome, WorkOnce(k, r) \/ WorkAgain(k, r)
      PROVE  UNCHANGED Abstract!vars
  <2>1. UNCHANGED <<status, done>>
    BY <1>2 DEF WorkOnce, WorkAgain, db
  <2> QED
    BY <2>1, Stutters
<1>3. ASSUME NEW e \in Exec, StartWorkflow(e) PROVE Abstract!Next
  BY <1>3, StartIsStart DEF Abstract!Next
<1>4. ASSUME NEW p \in Consumer \cup Reaper, Handle(p)
      PROVE  Abstract!Next \/ UNCHANGED Abstract!vars
  BY <1>4, HandleIsSaga
<1> QED
  BY <1>1, <1>2, <1>3, <1>4 DEF Next, Undisturbed, Consume, Reap, Proc

\* As long as reports do not contradict each other and operators keep away, an execution
\* performs its activities in order, compensates them in the reverse order, and ends in the
\* status that says so, whatever is delivered twice or late, crashes or is raced by replicas.
THEOREM EngineIsSaga == ASSUME Client = {} PROVE AgreeingSpec => IsSaga
<1>1. Init => Abstract!Init
  <2> SUFFICES ASSUME Init PROVE Abstract!Init
    OBVIOUS
  <2>1. status = [e \in Exec |-> "ABSENT"] /\ done = {}
    BY DEF Init
  <2>2. \A e \in Exec : Undone(e) = {} /\ \A i \in Step : ~Completed(e, i)
    BY <2>1 DEF Undone, Completed
  <2>3. \A e \in Exec : {i \in Step : Completed(e, i)} = {}
    BY <2>2
  <2>4. \A e \in Exec : Reached(e) = 0
    BY <2>3, FS_EmptySet DEF Reached
  <2> QED
    BY <2>1, <2>2, <2>4 DEF Abstract!Init
<1>2. SagaInv /\ [Next /\ Agreeing']_vars => [Abstract!Next]_(Abstract!vars)
  <2>1. ASSUME SagaInv, Next PROVE Abstract!Next \/ UNCHANGED Abstract!vars
    BY <2>1, NextIsSaga
  <2>2. ASSUME UNCHANGED vars PROVE UNCHANGED Abstract!vars
    <3>1. UNCHANGED <<status, done>>
      BY <2>2 DEF vars
    <3> QED
      BY <3>1, Stutters
  <2> QED
    BY <2>1, <2>2
<1>3. SagaInv /\ [Next /\ Agreeing']_vars => SagaInv'
  BY SagaNext
<1>4. Init => SagaInv
  BY InitSaga
<1> QED
  BY <1>1, <1>2, <1>3, <1>4, PTL DEF AgreeingSpec, IsSaga, Abstract!Spec

\* An execution becomes COMPENSATED when the compensations of all its completed activities
\* have succeeded, as the documentation says and EngineUndone refutes for contradictory
\* reports: as long as reports agree and operators keep away, for every workflow.
THEOREM CompensatedIsUndone == ASSUME Client = {} PROVE AgreeingSpec => CompensatedMeansUndone
<1>1. ASSUME IInv, [Abstract!Next]_(Abstract!vars), NEW e \in Exec,
             status[e] # "COMPENSATED", status'[e] = "COMPENSATED",
             NEW i \in Step, Completed(e, i), Comp[i] # NoComp
      PROVE  Completed(e, Comp[i])
  <2>1. Abstract!Compensated(e)
    <3>1. Abstract!Next
      BY <1>1 DEF Abstract!vars
    <3>2. PICK f \in Exec : \/ Abstract!Start(f) \/ Abstract!Do(f) \/ Abstract!Complete(f)
                            \/ Abstract!RollBack(f) \/ Abstract!Undo(f)
                            \/ Abstract!Compensated(f) \/ Abstract!Fail(f)
      BY <3>1 DEF Abstract!Next
    <3>3. ASSUME NEW s, s # "COMPENSATED", status' = [status EXCEPT ![f] = s] PROVE FALSE
      BY <1>1, <3>3 DEF IInv, TypeOK
    <3>4. status' # status
      BY <1>1
    <3>5. Abstract!Compensated(f)
      BY <3>2, <3>3, <3>4
      DEF Abstract!Start, Abstract!Do, Abstract!Complete, Abstract!RollBack, Abstract!Undo,
          Abstract!Fail, Abstract!Set
    <3>6. f = e
      BY <1>1, <3>5 DEF Abstract!Compensated, Abstract!Set, IInv, TypeOK
    <3> QED
      BY <3>5, <3>6
  <2>2. Left(e) = {}
    BY <1>1, <2>1, AbstractToUndo DEF Abstract!Compensated
  <2> QED
    BY <1>1, <2>2 DEF Left
<1>2. IInv /\ [Abstract!Next]_(Abstract!vars) =>
        [\A e \in Exec : status[e] # "COMPENSATED" /\ status'[e] = "COMPENSATED" =>
           \A i \in Step : Completed(e, i) /\ Comp[i] # NoComp => Completed(e, Comp[i])]_vars
  BY <1>1
<1>3. Next /\ Agreeing' => Next
  OBVIOUS
<1>4. AgreeingSpec => Spec
  BY <1>3, PTL DEF AgreeingSpec, Spec
<1>5. AgreeingSpec => [][Abstract!Next]_(Abstract!vars)
  BY EngineIsSaga, PTL DEF IsSaga, Abstract!Spec
<1> QED
  BY <1>2, <1>4, <1>5, Inductive, PTL DEF CompensatedMeansUndone

=============================================================================
