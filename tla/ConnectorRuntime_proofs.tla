----------------------- MODULE ConnectorRuntime_proofs -----------------------
(***************************************************************************)
(* Proofs about ConnectorRuntime, for any number of instances, processes,  *)
(* records and retries.                                                    *)
(***************************************************************************)
EXTENDS ConnectorRuntime, FiniteSetTheorems, TLAPS

Steps == {"idle", "next", "collect", "commit", "reconcile", "release"}
CollectSteps == {"collect", "commit"}

-----------------------------------------------------------------------------
(* What the operators of the model return.                                  *)

(* A worker without a claim. *)
LEMMA IdleFacts == Idle \in Workers /\ Idle.pc = "idle" /\ Idle.todo = {}
BY BoundsAssumption DEF Idle, Workers, Positions

(* A worker that has left its collection. *)
LEMMA AtFacts ==
  ASSUME TypeOK, NEW p \in Procs, NEW pc \in Steps
  PROVE  /\ At(p, pc) \in Workers
         /\ At(p, pc).pc = pc
         /\ At(p, pc).todo = worker[p].todo
         /\ At(p, pc).instance = worker[p].instance
<1>1. worker[p] \in Workers
  BY DEF TypeOK
<1> QED BY <1>1, IdleFacts DEF At, Workers, Steps

(* A moved revision changes nothing else of a worker (runtime_store.py 485). *)
LEMMA RevisionMovedFacts ==
  ASSUME TypeOK, NEW i \in Instances
  PROVE  /\ RevisionMoved(i) \in [Procs -> Workers]
         /\ \A p \in Procs :
              /\ RevisionMoved(i)[p].pc = worker[p].pc
              /\ RevisionMoved(i)[p].todo = worker[p].todo
              /\ RevisionMoved(i)[p].instance = worker[p].instance
              /\ RevisionMoved(i)[p].exhausted = worker[p].exhausted
              /\ RevisionMoved(i)[p].done = worker[p].done
              /\ worker[p].instance # i => RevisionMoved(i)[p] = worker[p]
              /\ worker[p].instance = i => ~RevisionMoved(i)[p].current
BY DEF TypeOK, RevisionMoved, Workers

(* The statements of the store, column by column (runtime_store.py 205-312). *)
LEMMA CheckpointedFacts ==
  ASSUME NEW r \in Rows, NEW c \in Positions, NEW o \in Observations,
         NEW g \in BOOLEAN, NEW s, s = Checkpointed(r, c, o, g)
  PROVE  /\ s \in Rows /\ s.checkpoint = c /\ s.retry_count = 0
         /\ s.observation = o /\ s.gap_open = g /\ s.leased = r.leased
BY DEF Rows, Checkpointed

(* What mark_gap writes, and what it leaves. *)
LEMMA GapMarkedFacts ==
  ASSUME NEW r \in Rows, NEW s, s = GapMarked(r)
  PROVE  /\ s \in Rows /\ s.checkpoint = r.checkpoint
         /\ s.retry_count = r.retry_count /\ s.gap_open
         /\ s.leased = r.leased
BY DEF Rows, GapMarked, Observations

(* What reconcile_gap writes, and what it leaves. *)
LEMMA ReconciledFacts ==
  ASSUME NEW r \in Rows, NEW s, s = Reconciled(r)
  PROVE  /\ s \in Rows /\ s.checkpoint = r.checkpoint
         /\ s.retry_count = r.retry_count
         /\ s.observation = "other_observation" /\ s.leased = r.leased
BY DEF Rows, Reconciled, Observations

(* What schedule_retry writes, and what it leaves. *)
LEMMA RetryScheduledFacts ==
  ASSUME NEW r \in Rows, NEW s, s = RetryScheduled(r)
  PROVE  /\ s \in Rows /\ s.checkpoint = r.checkpoint
         /\ s.retry_count = r.retry_count + 1
         /\ s.observation = "other_observation" /\ s.leased = r.leased
<1>1. r.retry_count + 1 \in Nat /\ "other_observation" \in Observations
  BY DEF Rows, Observations
<1>2. s = [r EXCEPT !.retry_count = r.retry_count + 1, !.due = FALSE,
                    !.observation = "other_observation"]
  BY DEF RetryScheduled
<1> QED BY <1>1, <1>2 DEF Rows

-----------------------------------------------------------------------------
(* What a step preserves when it does less than it might.                    *)

(* No worker takes an instance on. *)
FewerClaims ==
  \A q \in Procs, j \in Instances : Leasing(q, j)' => Leasing(q, j)

(* No worker begins a collection or goes on with one. *)
FewerCollections ==
  \A q \in Procs : worker'[q].pc \in CollectSteps =>
    /\ worker[q].pc \in CollectSteps
    /\ worker'[q].instance = worker[q].instance
    /\ worker'[q].done = worker[q].done
    /\ worker'[q].exhausted = worker[q].exhausted
    /\ worker'[q].current => worker[q].current

(* Leases stay exclusive while nobody claims and none is freed. *)
LEMMA LeaseKept ==
  ASSUME Inv, FewerClaims, outlived' = outlived,
         \A j \in Instances : row[j].leased => row'[j].leased
  PROVE  LeaseExclusive'
BY DEF Inv, FewerClaims, LeaseExclusive

(* Checkpoints stay covered while none of them moves. *)
LEMMA CoverKept ==
  ASSUME Inv, FewerCollections, collected' = collected,
         \A j \in Instances : row'[j].checkpoint = row[j].checkpoint
  PROVE  CheckpointCovered' /\ \A q \in Procs : WorkerCovered(q)'
<1>1. CheckpointCovered'
  BY DEF Inv, CheckpointCovered
<1>2. ASSUME NEW q \in Procs PROVE WorkerCovered(q)'
  BY DEF Inv, FewerCollections, WorkerCovered, CollectSteps
<1> QED BY <1>1, <1>2

(* The set of those that may retry is finite. *)
LEMMA MayRetryFinite ==
  ASSUME NEW S, S \subseteq Procs
  PROVE  /\ IsFiniteSet(S) /\ Cardinality(S) \in Nat
         /\ Cardinality(Procs) \in Nat \ {0} /\ Cardinality(S) <= Cardinality(Procs)
<1>1. IsFiniteSet(S) /\ Cardinality(S) <= Cardinality(Procs)
  BY ProcsAssumption, FS_Subset
<1>2. Cardinality(S) \in Nat /\ Cardinality(Procs) \in Nat
  BY <1>1, ProcsAssumption, FS_CardinalityType
<1>3. Cardinality(Procs) # 0
  BY ProcsAssumption, FS_EmptySet
<1> QED BY <1>1, <1>2, <1>3

(* Retries stay accounted for while no count grows and nobody starts. *)
LEMMA RetriesKept ==
  ASSUME Inv, TypeOK',
         \A j \in Instances : /\ row'[j].retry_count <= row[j].retry_count
                              /\ MayRetry(j)' \subseteq MayRetry(j)
  PROVE  RetriesAccounted'
<1> SUFFICES ASSUME NEW j \in Instances
             PROVE  /\ row'[j].retry_count + Cardinality(MayRetry(j)')
                         <= MaxAttempts + Cardinality(Procs) - 1
                    /\ MayRetry(j)' # {} => MaxAttempts > 0
  BY DEF RetriesAccounted
<1>1. /\ row[j].retry_count + Cardinality(MayRetry(j))
           <= MaxAttempts + Cardinality(Procs) - 1
      /\ MayRetry(j) # {} => MaxAttempts > 0
  BY DEF Inv, RetriesAccounted
<1>2. row[j].retry_count \in Nat /\ row'[j].retry_count \in Nat
  BY DEF Inv, TypeOK, Rows
<1>3. MayRetry(j) \subseteq Procs
  BY DEF MayRetry
<1>4. /\ IsFiniteSet(MayRetry(j)) /\ Cardinality(MayRetry(j)) \in Nat
      /\ Cardinality(Procs) \in Nat
  BY <1>3, MayRetryFinite
<1>5. Cardinality(MayRetry(j)') <= Cardinality(MayRetry(j))
  BY <1>4, FS_Subset
<1>6. Cardinality(MayRetry(j)') \in Nat
  BY <1>4, FS_Subset, FS_CardinalityType
<1> QED BY <1>1, <1>2, <1>4, <1>5, <1>6, BoundsAssumption

(* Who stops collecting can only leave the set that may still retry. *)
LEMMA MayRetryKept ==
  ASSUME FewerCollections, NEW j \in Instances
  PROVE  MayRetry(j)' \subseteq MayRetry(j)
BY DEF FewerCollections, MayRetry, Collecting, CollectSteps

(* The other workers do not move; the revisions they read may be overtaken. *)
OthersStay(p) ==
  \A q \in Procs \ {p} :
    /\ worker'[q].pc = worker[q].pc
    /\ worker'[q].todo = worker[q].todo
    /\ worker'[q].instance = worker[q].instance
    /\ worker'[q].exhausted = worker[q].exhausted
    /\ worker'[q].done = worker[q].done
    /\ worker'[q].current => worker[q].current

(* A worker leaves its collection with the instance still in its hands. *)
LEMMA LeaveFacts ==
  ASSUME Inv, NEW p \in Procs, OthersStay(p),
         worker[p].pc \in {"collect", "commit", "reconcile"},
         NEW pc \in {"reconcile", "release"}, worker'[p] = At(p, pc)
  PROVE  /\ \A q \in Procs : Placed(q)'
         /\ FewerClaims /\ FewerCollections
<1>1. /\ worker'[p].pc = pc
      /\ worker'[p].todo = worker[p].todo
      /\ worker'[p].instance = worker[p].instance
  <2>1. pc \in Steps /\ TypeOK
    BY DEF Steps, Inv
  <2> QED BY <2>1, AtFacts
<1>2. \A q \in Procs : Placed(q)
  BY DEF Inv
<1>3. ASSUME NEW q \in Procs PROVE Placed(q)'
  BY <1>1, <1>2 DEF Placed, OthersStay
<1>4. FewerClaims
  <2> SUFFICES ASSUME NEW q \in Procs, NEW j \in Instances, Leasing(q, j)'
               PROVE  Leasing(q, j)
    BY DEF FewerClaims
  <2> QED BY <1>1 DEF Leasing, OthersStay
<1>5. FewerCollections
  <2> SUFFICES ASSUME NEW q \in Procs, worker'[q].pc \in CollectSteps
               PROVE  /\ worker[q].pc \in CollectSteps
                      /\ worker'[q].instance = worker[q].instance
                      /\ worker'[q].done = worker[q].done
                      /\ worker'[q].exhausted = worker[q].exhausted
                      /\ worker'[q].current => worker[q].current
    BY DEF FewerCollections
  <2> QED BY <1>1 DEF CollectSteps, OthersStay
<1> QED BY <1>3, <1>4, <1>5

(* The worker moves and the row does not. *)
LEMMA OneWorker ==
  ASSUME TypeOK, NEW p \in Procs, NEW w \in Workers, worker' = [worker EXCEPT ![p] = w]
  PROVE  worker' \in [Procs -> Workers] /\ worker'[p] = w /\ OthersStay(p)
BY DEF TypeOK, OthersStay

(* No worker moves. *)
LEMMA NobodyMoves ==
  ASSUME Inv, worker' = worker
  PROVE  (\A q \in Procs : Placed(q)') /\ FewerClaims /\ FewerCollections
BY DEF Inv, Placed, FewerClaims, FewerCollections, Leasing

(* A revision moves. *)
LEMMA RevisionMoves ==
  ASSUME Inv, NEW i \in Instances, worker' = RevisionMoved(i)
  PROVE  (\A q \in Procs : Placed(q)') /\ FewerClaims /\ FewerCollections
<1>1. TypeOK
  BY DEF Inv
<1> USE <1>1, RevisionMovedFacts
<1>2. \A q \in Procs : Placed(q)'
  BY DEF Inv, Placed
<1>3. FewerClaims
  BY DEF FewerClaims, Leasing
<1>4. FewerCollections
  <2> SUFFICES ASSUME NEW q \in Procs, worker'[q].pc \in CollectSteps
               PROVE  worker'[q].current => worker[q].current
    BY DEF FewerCollections
  <2>1. CASE worker[q].instance = i
    BY <2>1
  <2>2. CASE worker[q].instance # i
    BY <2>2
  <2> QED BY <2>1, <2>2
<1> QED BY <1>2, <1>3, <1>4

(* One row is replaced. *)
LEMMA OneRow ==
  ASSUME TypeOK, NEW i \in Instances, NEW r \in Rows, row' = [row EXCEPT ![i] = r]
  PROVE  /\ row' \in [Instances -> Rows] /\ row'[i] = r
         /\ \A j \in Instances \ {i} : row'[j] = row[j]
BY DEF TypeOK

(* What is left to show of a step that takes nothing on. *)
LEMMA Retreat ==
  ASSUME Inv, FewerClaims, FewerCollections, \A q \in Procs : Placed(q)',
         worker' \in [Procs -> Workers], row' \in [Instances -> Rows],
         UNCHANGED <<connector, collected, outlived>>, enabled' \subseteq Instances,
         RowReadable',
         \A j \in Instances : /\ row'[j].checkpoint = row[j].checkpoint
                              /\ row'[j].retry_count <= row[j].retry_count
                              /\ row[j].leased => row'[j].leased
  PROVE  Inv'
<1>1. TypeOK'
  BY DEF Inv, TypeOK
<1>2. LeaseExclusive'
  BY LeaseKept
<1>3. CheckpointCovered' /\ \A q \in Procs : WorkerCovered(q)'
  BY CoverKept
<1>4. \A j \in Instances : MayRetry(j)' \subseteq MayRetry(j)
  BY MayRetryKept
<1>5. RetriesAccounted'
  BY <1>1, <1>4, RetriesKept
<1> QED BY <1>1, <1>2, <1>3, <1>5 DEF Inv

-----------------------------------------------------------------------------
(* The inductive invariant holds at the start.                              *)

(* The invariant holds of newly created instances. *)
LEMMA InvInit == Init => Inv
<1> SUFFICES ASSUME Init PROVE Inv
  OBVIOUS
<1>1. NewRow \in Rows /\ NewRow.checkpoint = 0 /\ NewRow.retry_count = 0
      /\ NewRow.observation = "other_observation"
  BY BoundsAssumption DEF NewRow, Rows, Observations, Positions
<1>2. /\ \A i \in Instances : row[i] = NewRow
      /\ \A p \in Procs : worker[p] = Idle
  BY DEF Init
<1>3. TypeOK
  BY <1>1, IdleFacts DEF Init, TypeOK
<1>4. ASSUME NEW p \in Procs PROVE Placed(p) /\ WorkerCovered(p)
  BY <1>2, IdleFacts DEF Placed, WorkerCovered
<1>5. CheckpointCovered /\ RowReadable
  BY <1>1, <1>2 DEF CheckpointCovered, RowReadable
<1>6. LeaseExclusive
  BY <1>2, IdleFacts DEF LeaseExclusive, Leasing
<1>7. ASSUME NEW i \in Instances
      PROVE  /\ row[i].retry_count + Cardinality(MayRetry(i))
                  <= MaxAttempts + Cardinality(Procs) - 1
             /\ MayRetry(i) = {}
  <2>1. MayRetry(i) = {}
    BY <1>2, IdleFacts DEF MayRetry, Collecting
  <2>2. Cardinality(MayRetry(i)) = 0
    BY <2>1, FS_EmptySet
  <2>3. Cardinality(Procs) \in Nat \ {0}
    BY MayRetryFinite
  <2> QED BY <1>1, <1>2, <2>1, <2>2, <2>3, BoundsAssumption
<1>8. RetriesAccounted
  BY <1>7 DEF RetriesAccounted
<1> QED BY <1>3, <1>4, <1>5, <1>6, <1>8 DEF Inv

-----------------------------------------------------------------------------
(* run_cycle.                                                               *)

(* claim_due keeps the invariant. *)
LEMMA ClaimDueInv ==
  ASSUME Inv, NEW p \in Procs, ClaimDue(p) PROVE Inv'
<1> DEFINE w == [Idle EXCEPT !.pc = "next", !.todo = Due]
<1>1. TypeOK /\ \A q \in Procs : Placed(q)
  BY DEF Inv
<1>2. w \in Workers /\ w.pc = "next" /\ w.todo = Due /\ w.instance = 0
  <2>1. Due \subseteq Instances
    BY <1>1 DEF Due, TypeOK
  <2>2. Idle.instance = 0
    BY DEF Idle
  <2> QED BY <2>1, <2>2, IdleFacts DEF Workers
<1>3. worker' \in [Procs -> Workers] /\ worker'[p] = w /\ OthersStay(p)
  <2>1. worker' = [worker EXCEPT ![p] = w]
    BY DEF ClaimDue
  <2> HIDE DEF w
  <2> QED BY <1>1, <1>2, <2>1, OneWorker
<1> HIDE DEF w
<1>4. ASSUME NEW j \in Instances
      PROVE  /\ row'[j] \in Rows
             /\ row'[j].checkpoint = row[j].checkpoint
             /\ row'[j].retry_count = row[j].retry_count
             /\ row'[j].observation = row[j].observation
             /\ row'[j].gap_open = row[j].gap_open
             /\ row'[j].leased <=> row[j].leased \/ j \in Due
  <2>1. row[j] \in Rows
    BY <1>1 DEF TypeOK
  <2>2. row'[j] = IF j \in Due THEN [row[j] EXCEPT !.leased = TRUE] ELSE row[j]
    BY DEF ClaimDue
  <2> QED BY <2>1, <2>2 DEF Rows
<1>5. TypeOK'
  <2>1. row' \in [Instances -> Rows]
    BY <1>4 DEF ClaimDue
  <2> QED BY <1>1, <1>3, <2>1 DEF TypeOK, ClaimDue
<1>6. ASSUME NEW q \in Procs PROVE Placed(q)'
  BY <1>1, <1>2, <1>3 DEF Placed, OthersStay
<1>7. FewerCollections
  BY <1>2, <1>3 DEF FewerCollections, CollectSteps, OthersStay
<1>8. CheckpointCovered' /\ \A q \in Procs : WorkerCovered(q)'
  BY <1>4, <1>7, CoverKept DEF ClaimDue
<1>9. RowReadable'
  BY <1>4 DEF Inv, RowReadable
<1>10. RetriesAccounted'
  <2>1. ASSUME NEW j \in Instances
        PROVE  row'[j].retry_count <= row[j].retry_count
    BY <1>1, <1>4 DEF TypeOK, Rows
  <2> QED BY <1>5, <1>7, <2>1, MayRetryKept, RetriesKept
<1>11. LeaseExclusive'
  <2> SUFFICES ASSUME NEW i \in Instances \ outlived, NEW q \in Procs, Leasing(q, i)'
               PROVE  row'[i].leased /\ \A r \in Procs : Leasing(r, i)' => q = r
    BY DEF LeaseExclusive, ClaimDue
  <2>1. ASSUME NEW r \in Procs, r # p PROVE Leasing(r, i)' <=> Leasing(r, i)
    BY <2>1, <1>3 DEF Leasing, OthersStay
  <2>2. Leasing(p, i)' <=> i \in Due
    BY <1>2, <1>3, InstancesAssumption DEF Leasing
  <2>3. ~Leasing(p, i)
    BY DEF ClaimDue, Leasing
  <2>4. ASSUME NEW r \in Procs, Leasing(r, i)
        PROVE  row[i].leased /\ \A s \in Procs : Leasing(s, i) => r = s
    BY <2>4 DEF Inv, LeaseExclusive
  <2>5. i \in Due => ~row[i].leased
    BY DEF Due
  <2>6. CASE i \in Due
    <3>1. \A r \in Procs : ~Leasing(r, i)
      BY <2>4, <2>5, <2>6
    <3> QED BY <1>4, <2>1, <2>6, <3>1
  <2>7. CASE i \notin Due
    BY <1>4, <2>1, <2>2, <2>4, <2>7
  <2> QED BY <2>6, <2>7
<1> QED BY <1>5, <1>6, <1>8, <1>9, <1>10, <1>11 DEF Inv

(* get_runtime keeps the invariant. *)
LEMMA GetRuntimeInv ==
  ASSUME Inv, NEW p \in Procs, GetRuntime(p) PROVE Inv'
<1>1. TypeOK /\ \A q \in Procs : Placed(q) /\ WorkerCovered(q)
  BY DEF Inv
<1>2. PICK i \in worker[p].todo :
        worker' = [worker EXCEPT ![p] =
            [pc |-> "collect", todo |-> worker[p].todo \ {i}, instance |-> i,
             exhausted |-> Exhausted(row[i]), gap_open |-> row[i].gap_open,
             current |-> TRUE, done |-> row[i].checkpoint]]
  BY DEF GetRuntime
<1>3. worker[p] \in Workers /\ i \in Instances /\ row[i] \in Rows
  BY <1>1 DEF TypeOK, Workers
<1> DEFINE w == [pc |-> "collect", todo |-> worker[p].todo \ {i}, instance |-> i,
                 exhausted |-> Exhausted(row[i]), gap_open |-> row[i].gap_open,
                 current |-> TRUE, done |-> row[i].checkpoint]
<1>4. w \in Workers
  BY <1>3 DEF Workers, Rows, Exhausted
<1>5. /\ w.pc = "collect" /\ w.todo = worker[p].todo \ {i} /\ w.instance = i
      /\ w.exhausted <=> Exhausted(row[i])
      /\ w.done = row[i].checkpoint
  OBVIOUS
<1>6. worker' = [worker EXCEPT ![p] = w]
  BY <1>2
<1> HIDE DEF w
<1>7. worker' \in [Procs -> Workers] /\ worker'[p] = w /\ OthersStay(p)
  BY <1>1, <1>4, <1>6, OneWorker
<1>8. UNCHANGED <<connector, row, enabled, collected, outlived>>
  BY DEF GetRuntime
<1>9. TypeOK'
  BY <1>1, <1>7, <1>8 DEF TypeOK
<1>10. ASSUME NEW q \in Procs PROVE Placed(q)'
  BY <1>1, <1>3, <1>5, <1>7 DEF Placed, OthersStay
<1>11. CheckpointCovered
  BY DEF Inv
<1>12. ASSUME NEW q \in Procs PROVE WorkerCovered(q)'
  <2>1. CASE q = p
    BY <1>3, <1>5, <1>7, <1>8, <1>11, <2>1 DEF WorkerCovered, CheckpointCovered
  <2>2. CASE q # p
    BY <1>1, <1>7, <1>8, <2>2 DEF WorkerCovered, OthersStay
  <2> QED BY <2>1, <2>2
<1>13. CheckpointCovered' /\ RowReadable'
  BY <1>8 DEF Inv, CheckpointCovered, RowReadable
<1>14. FewerClaims
  <2> SUFFICES ASSUME NEW q \in Procs, NEW j \in Instances, Leasing(q, j)'
               PROVE  Leasing(q, j)
    BY DEF FewerClaims
  <2>1. worker[p].pc = "next"
    BY DEF GetRuntime
  <2> QED BY <1>5, <1>7, <2>1 DEF Leasing, OthersStay
<1>15. LeaseExclusive'
  BY <1>8, <1>14, LeaseKept
<1>16. ASSUME NEW j \in Instances
       PROVE  /\ row'[j].retry_count + Cardinality(MayRetry(j)')
                   <= MaxAttempts + Cardinality(Procs) - 1
              /\ MayRetry(j)' # {} => MaxAttempts > 0
  <2>1. row[j].retry_count \in Nat /\ row'[j].retry_count = row[j].retry_count
    BY <1>1, <1>8 DEF TypeOK, Rows
  <2>2. MayRetry(j) \subseteq Procs /\ MayRetry(j)' \subseteq Procs
    BY DEF MayRetry
  <2>3. /\ Cardinality(MayRetry(j)') \in Nat /\ Cardinality(MayRetry(j)) \in Nat
        /\ Cardinality(MayRetry(j)') <= Cardinality(Procs)
        /\ Cardinality(Procs) \in Nat \ {0}
    BY <2>2, MayRetryFinite
  <2>4. CASE j = i /\ ~Exhausted(row[i])
    <3>1. row[j].retry_count <= MaxAttempts - 1
      BY <2>1, <2>4, BoundsAssumption DEF Exhausted
    <3> QED BY <2>1, <2>3, <3>1, BoundsAssumption
  <2>5. CASE ~(j = i /\ ~Exhausted(row[i]))
    <3>1. ASSUME NEW q \in MayRetry(j)' PROVE q \in MayRetry(j)
      <4>1. q # p
        BY <1>5, <1>7, <2>5 DEF MayRetry, Collecting
      <4> QED BY <1>7, <4>1 DEF MayRetry, Collecting, OthersStay
    <3>2. MayRetry(j)' \subseteq MayRetry(j)
      BY <3>1
    <3>3. Cardinality(MayRetry(j)') <= Cardinality(MayRetry(j))
      BY <2>2, <3>2, MayRetryFinite, FS_Subset
    <3>4. /\ row[j].retry_count + Cardinality(MayRetry(j))
               <= MaxAttempts + Cardinality(Procs) - 1
          /\ MayRetry(j) # {} => MaxAttempts > 0
      BY DEF Inv, RetriesAccounted
    <3> QED BY <2>1, <2>3, <3>2, <3>3, <3>4, BoundsAssumption
  <2> QED BY <2>4, <2>5
<1>17. RetriesAccounted'
  BY <1>16 DEF RetriesAccounted
<1> QED BY <1>9, <1>10, <1>12, <1>13, <1>15, <1>17 DEF Inv

(* Collecting a page keeps the invariant. *)
LEMMA CollectPageInv ==
  ASSUME Inv, NEW p \in Procs, CollectPage(p) PROVE Inv'
<1>1. TypeOK /\ RowReadable /\ worker[p] \in Workers
  BY DEF Inv, TypeOK
<1> DEFINE w == [worker[p] EXCEPT !.pc = "commit"]
<1>2. /\ w \in Workers /\ w.pc = "commit" /\ w.todo = worker[p].todo
      /\ w.instance = worker[p].instance /\ w.exhausted = worker[p].exhausted
      /\ w.current = worker[p].current /\ w.done = worker[p].done
  BY <1>1 DEF Workers
<1>3. worker' = [worker EXCEPT ![p] = w]
  BY DEF CollectPage
<1> HIDE DEF w
<1>4. worker' \in [Procs -> Workers] /\ worker'[p] = w /\ OthersStay(p)
  BY <1>1, <1>2, <1>3, OneWorker
<1>5. worker[p].pc = "collect" /\ UNCHANGED <<connector, row, enabled, collected, outlived>>
  BY DEF CollectPage
<1>6. ASSUME NEW q \in Procs PROVE Placed(q)'
  BY <1>2, <1>4, <1>5 DEF Placed, OthersStay, Inv
<1>7. FewerClaims
  BY <1>2, <1>4, <1>5 DEF FewerClaims, Leasing, OthersStay
<1>8. FewerCollections
  BY <1>2, <1>4, <1>5 DEF FewerCollections, CollectSteps, OthersStay
<1>9. RowReadable' /\ row' \in [Instances -> Rows] /\ enabled' \subseteq Instances
      /\ \A j \in Instances : row[j].retry_count \in Nat
  BY <1>1, <1>5 DEF RowReadable, TypeOK, Rows
<1> QED BY <1>4, <1>5, <1>6, <1>7, <1>8, <1>9, Retreat

(* Committing a record of the page keeps the invariant. *)
LEMMA CommitRecordInv ==
  ASSUME Inv, NEW p \in Procs, CommitRecord(p) PROVE Inv'
<1>1. TypeOK /\ RowReadable /\ worker[p] \in Workers
      /\ \A q \in Procs : Placed(q) /\ WorkerCovered(q)
  BY DEF Inv, TypeOK
<1> DEFINE w == [worker[p] EXCEPT !.done = worker[p].done + 1]
           i == worker[p].instance
<1>2. /\ worker[p].pc = "commit" /\ worker[p].done < LastPosition
      /\ worker[p].done \in Nat /\ worker[p].done + 1 \in Positions
      /\ worker[p].done + 1 \in 1..LastPosition
      /\ i \in Instances
  BY <1>1, BoundsAssumption DEF CommitRecord, Workers, Positions, Placed
<1>3. /\ w \in Workers /\ w.pc = worker[p].pc /\ w.todo = worker[p].todo
      /\ w.instance = worker[p].instance /\ w.exhausted = worker[p].exhausted
      /\ w.current = worker[p].current /\ w.done = worker[p].done + 1
  BY <1>1, <1>2 DEF Workers
<1>4. worker' = [worker EXCEPT ![p] = w]
  BY DEF CommitRecord
<1> HIDE DEF w
<1>5. worker' \in [Procs -> Workers] /\ worker'[p] = w /\ OthersStay(p)
  BY <1>1, <1>3, <1>4, OneWorker
<1>6. UNCHANGED <<connector, row, enabled, outlived>>
  BY DEF CommitRecord
<1>7. /\ collected' \in [Instances -> SUBSET (1..LastPosition)]
      /\ \A j \in Instances : collected[j] \subseteq collected'[j]
      /\ worker[p].current => worker[p].done + 1 \in collected'[i]
  <2>1. collected \in [Instances -> SUBSET (1..LastPosition)]
    BY <1>1 DEF TypeOK
  <2>2. CASE worker[p].current
    <3>1. collected' = [collected EXCEPT ![i] = @ \cup {worker[p].done + 1}]
      BY <2>2 DEF CommitRecord
    <3> QED BY <1>2, <2>1, <3>1
  <2>3. CASE ~worker[p].current
    <3>1. collected' = collected
      BY <2>3 DEF CommitRecord
    <3> QED BY <2>1, <2>3, <3>1
  <2> QED BY <2>2, <2>3
<1>8. TypeOK'
  BY <1>1, <1>5, <1>6, <1>7 DEF TypeOK
<1>9. ASSUME NEW q \in Procs PROVE Placed(q)'
  BY <1>1, <1>3, <1>5 DEF Placed, OthersStay
<1>10. ASSUME NEW q \in Procs PROVE WorkerCovered(q)'
  <2> SUFFICES ASSUME worker'[q].pc \in {"collect", "commit"}, worker'[q].current
               PROVE  1..worker'[q].done \subseteq collected'[worker'[q].instance]
    BY DEF WorkerCovered
  <2>1. CASE q = p
    <3>1. 1..worker[p].done \subseteq collected[i] /\ worker[p].current
      BY <1>1, <1>2, <1>3, <1>5, <2>1 DEF WorkerCovered
    <3>2. 1..(worker[p].done + 1) = 1..worker[p].done \cup {worker[p].done + 1}
      BY <1>2
    <3>3. 1..(worker[p].done + 1) \subseteq collected'[i]
      BY <1>2, <1>7, <3>1, <3>2
    <3> QED BY <1>3, <1>5, <2>1, <3>3
  <2>2. CASE q # p
    <3>1. 1..worker[q].done \subseteq collected[worker[q].instance]
      BY <1>1, <1>5, <2>2 DEF WorkerCovered, OthersStay
    <3>2. worker[q].instance \in Instances
      BY <1>1, <1>5, <2>2 DEF Placed, OthersStay
    <3> QED BY <1>5, <1>7, <2>2, <3>1, <3>2 DEF OthersStay
  <2> QED BY <2>1, <2>2
<1>11. CheckpointCovered' /\ RowReadable'
  BY <1>6, <1>7 DEF Inv, CheckpointCovered, RowReadable
<1>12. FewerClaims
  BY <1>3, <1>5 DEF FewerClaims, Leasing, OthersStay
<1>13. LeaseExclusive'
  BY <1>6, <1>12, LeaseKept
<1>14. RetriesAccounted'
  <2>1. ASSUME NEW j \in Instances
        PROVE  /\ row'[j].retry_count <= row[j].retry_count
               /\ MayRetry(j)' \subseteq MayRetry(j)
    <3>1. row'[j].retry_count <= row[j].retry_count
      BY <1>1, <1>6 DEF TypeOK, Rows
    <3>2. MayRetry(j)' \subseteq MayRetry(j)
      BY <1>3, <1>5 DEF MayRetry, Collecting, OthersStay
    <3> QED BY <3>1, <3>2
  <2> QED BY <1>8, <2>1, RetriesKept
<1> QED BY <1>8, <1>9, <1>10, <1>11, <1>13, <1>14 DEF Inv


(* A worker leaves its collection and the row is not written, or gets a gap. *)
LEMMA LeaveInv ==
  ASSUME Inv, NEW p \in Procs, worker' = [worker EXCEPT ![p] = At(p, "release")],
         worker[p].pc \in {"collect", "commit", "reconcile"},
         UNCHANGED <<connector, enabled, collected, outlived>>,
         \/ row' = row
         \/ row' = [row EXCEPT ![worker[p].instance] = GapMarked(@)]
         \/ row' = [row EXCEPT ![worker[p].instance] = Reconciled(@)]
  PROVE  Inv'
<1> DEFINE i == worker[p].instance
<1>1. TypeOK /\ Placed(p) /\ RowReadable /\ enabled \subseteq Instances
  BY DEF Inv, TypeOK
<1>2. i \in Instances /\ row[i] \in Rows
  BY <1>1 DEF Placed, TypeOK
<1>3. At(p, "release") \in Workers
  BY <1>1, AtFacts DEF Steps
<1>4. worker' \in [Procs -> Workers] /\ worker'[p] = At(p, "release") /\ OthersStay(p)
  BY <1>1, <1>3, OneWorker
<1>5. (\A q \in Procs : Placed(q)') /\ FewerClaims /\ FewerCollections
  BY <1>4, LeaveFacts
<1>6. ASSUME NEW j \in Instances
      PROVE  /\ row'[j] \in Rows
             /\ row'[j].checkpoint = row[j].checkpoint
             /\ row'[j].retry_count <= row[j].retry_count
             /\ row[j].leased => row'[j].leased
             /\ row'[j].observation = "collection_gap" => row'[j].gap_open
  <2>1. /\ row[j] \in Rows /\ row[j].retry_count \in Nat
        /\ row[j].observation = "collection_gap" => row[j].gap_open
    BY <1>1 DEF TypeOK, Rows, RowReadable
  <2>2. CASE row'[j] = row[j]
    BY <2>1, <2>2
  <2>3. CASE row'[j] = GapMarked(row[j])
    BY <2>1, <2>3, GapMarkedFacts
  <2>4. CASE row'[j] = Reconciled(row[j])
    BY <2>1, <2>4, ReconciledFacts
  <2>5. \/ row'[j] = row[j]
        \/ row'[j] = GapMarked(row[j])
        \/ row'[j] = Reconciled(row[j])
    BY <1>1, <1>2 DEF TypeOK
  <2> QED BY <2>2, <2>3, <2>4, <2>5
<1>7. row' \in [Instances -> Rows]
  <2>1. row' = [j \in Instances |-> row'[j]]
    BY <1>1 DEF TypeOK
  <2> QED BY <1>6, <2>1
<1>8. RowReadable'
  BY <1>6 DEF RowReadable
<1> QED BY <1>1, <1>4, <1>5, <1>6, <1>7, <1>8, Retreat

(* A set_checkpoint that finds another revision keeps the invariant. *)
LEMMA SetCheckpointConflictInv ==
  ASSUME Inv, NEW p \in Procs, SetCheckpointConflict(p) PROVE Inv'
BY LeaveInv DEF SetCheckpointConflict, PageQueued

(* The worker's reconcile_gap keeps the invariant. *)
LEMMA ReconcileGapInv ==
  ASSUME Inv, NEW p \in Procs, ReconcileGap(p) PROVE Inv'
BY LeaveInv DEF ReconcileGap

(* The worker's mark_gap keeps the invariant. *)
LEMMA MarkGapInv ==
  ASSUME Inv, NEW p \in Procs, MarkGap(p) PROVE Inv'
BY LeaveInv DEF MarkGap, MayFail

(* An error that ends the cycle keeps the invariant. *)
LEMMA CycleErrorInv ==
  ASSUME Inv, NEW p \in Procs, CycleError(p) PROVE Inv'
BY LeaveInv DEF CycleError

(* set_checkpoint keeps the invariant. *)
LEMMA SetCheckpointInv ==
  ASSUME Inv, NEW p \in Procs, SetCheckpoint(p) PROVE Inv'
<1> DEFINE w == worker[p]
           i == w.instance
           g == GapWritten(w)
           o == IF g THEN "collection_gap" ELSE "other_observation"
           pc == IF connector[i] = "purview" /\ w.gap_open /\ w.done = LastPosition
                   THEN "reconcile" ELSE "release"
<1>1. TypeOK /\ RowReadable /\ CheckpointCovered
      /\ \A q \in Procs : Placed(q) /\ WorkerCovered(q)
  BY DEF Inv
<1>2. /\ w.pc = "commit" /\ w.current
      /\ row' = [row EXCEPT ![i] = Checkpointed(@, w.done, o, g)]
      /\ worker' = [RevisionMoved(i) EXCEPT ![p] = At(p, pc)]
      /\ UNCHANGED <<connector, enabled, collected, outlived>>
  BY DEF SetCheckpoint, PageQueued, RevisionMatches
<1>3. /\ w \in Workers /\ i \in Instances /\ row[i] \in Rows /\ w.done \in Positions
      /\ g \in BOOLEAN /\ o \in Observations
  BY <1>1, <1>2 DEF TypeOK, Workers, Placed, GapWritten, Observations
<1>4. pc \in {"reconcile", "release"} /\ (o = "collection_gap" => g)
  OBVIOUS
<1> HIDE DEF o, g, pc
<1>5. row' \in [Instances -> Rows] /\ \A j \in Instances \ {i} : row'[j] = row[j]
  <2>1. Checkpointed(row[i], w.done, o, g) \in Rows
    BY <1>3, CheckpointedFacts
  <2> QED BY <1>1, <1>2, <1>3, <2>1, OneRow
<1>6. /\ row'[i].checkpoint = w.done /\ row'[i].retry_count = 0
      /\ row'[i].observation = o /\ row'[i].gap_open = g
      /\ row'[i].leased = row[i].leased
  <2>1. row'[i] = Checkpointed(row[i], w.done, o, g)
    BY <1>1, <1>2, <1>3 DEF TypeOK
  <2> QED BY <1>3, <2>1, CheckpointedFacts
<1>7. At(p, pc) \in Workers
  BY <1>1, <1>4, AtFacts DEF Steps
<1>8. worker' \in [Procs -> Workers] /\ worker'[p] = At(p, pc)
      /\ \A q \in Procs \ {p} : worker'[q] = RevisionMoved(i)[q]
  <2>1. RevisionMoved(i) \in [Procs -> Workers]
    BY <1>1, <1>3, RevisionMovedFacts
  <2> QED BY <1>2, <1>7, <2>1
<1>9. OthersStay(p)
  <2> SUFFICES ASSUME NEW q \in Procs \ {p}
               PROVE  /\ worker'[q].pc = worker[q].pc
                      /\ worker'[q].todo = worker[q].todo
                      /\ worker'[q].instance = worker[q].instance
                      /\ worker'[q].exhausted = worker[q].exhausted
                      /\ worker'[q].done = worker[q].done
                      /\ worker'[q].current => worker[q].current
    BY DEF OthersStay
  <2>1. CASE worker[q].instance = i
    BY <1>1, <1>3, <1>8, <2>1, RevisionMovedFacts
  <2>2. CASE worker[q].instance # i
    BY <1>1, <1>3, <1>8, <2>2, RevisionMovedFacts
  <2> QED BY <2>1, <2>2
<1>10. (\A q \in Procs : Placed(q)') /\ FewerClaims /\ FewerCollections
  BY <1>2, <1>4, <1>8, <1>9, LeaveFacts
<1>11. TypeOK'
  BY <1>1, <1>2, <1>5, <1>8 DEF TypeOK
<1>12. ASSUME NEW q \in Procs PROVE WorkerCovered(q)'
  BY <1>1, <1>2, <1>10 DEF FewerCollections, WorkerCovered, CollectSteps
<1>13. CheckpointCovered'
  BY <1>1, <1>2, <1>5, <1>6 DEF CheckpointCovered, WorkerCovered
<1>14. RowReadable'
  BY <1>1, <1>4, <1>5, <1>6 DEF RowReadable
<1>15. LeaseExclusive'
  BY <1>2, <1>5, <1>6, <1>10, LeaseKept
<1>16. RetriesAccounted'
  <2>1. ASSUME NEW j \in Instances
        PROVE  row'[j].retry_count <= row[j].retry_count
    BY <1>1, <1>5, <1>6 DEF TypeOK, Rows
  <2> QED BY <1>10, <1>11, <2>1, MayRetryKept, RetriesKept
<1> QED BY <1>10, <1>11, <1>12, <1>13, <1>14, <1>15, <1>16 DEF Inv

(* schedule_retry keeps the invariant. *)
LEMMA ScheduleRetryInv ==
  ASSUME Inv, NEW p \in Procs, ScheduleRetry(p) PROVE Inv'
<1> DEFINE i == worker[p].instance
<1>1. TypeOK /\ RowReadable /\ CheckpointCovered /\ RetriesAccounted /\ Placed(p)
  BY DEF Inv
<1>2. /\ worker[p].pc \in {"collect", "commit"} /\ ~worker[p].exhausted
      /\ row' = [row EXCEPT ![i] = RetryScheduled(@)]
      /\ worker' = [worker EXCEPT ![p] = At(p, "release")]
      /\ UNCHANGED <<connector, enabled, collected, outlived>>
  BY DEF ScheduleRetry, MayFail
<1>3. i \in Instances /\ row[i] \in Rows
  BY <1>1, <1>2 DEF Placed, TypeOK
<1>4. At(p, "release") \in Workers /\ At(p, "release").pc = "release"
  BY <1>1, AtFacts DEF Steps
<1>5. worker' \in [Procs -> Workers] /\ worker'[p] = At(p, "release") /\ OthersStay(p)
  BY <1>1, <1>2, <1>4, OneWorker
<1>6. (\A q \in Procs : Placed(q)') /\ FewerClaims /\ FewerCollections
  BY <1>2, <1>5, LeaveFacts
<1>7. row' \in [Instances -> Rows] /\ \A j \in Instances \ {i} : row'[j] = row[j]
  <2>1. RetryScheduled(row[i]) \in Rows
    BY <1>3, RetryScheduledFacts
  <2> QED BY <1>1, <1>2, <1>3, <2>1, OneRow
<1>8. /\ row'[i].checkpoint = row[i].checkpoint
      /\ row'[i].retry_count = row[i].retry_count + 1
      /\ row'[i].observation = "other_observation"
      /\ row'[i].leased = row[i].leased
  <2>1. row'[i] = RetryScheduled(row[i])
    BY <1>1, <1>2, <1>3 DEF TypeOK
  <2> QED BY <1>3, <2>1, RetryScheduledFacts
<1>9. TypeOK'
  BY <1>1, <1>2, <1>5, <1>7 DEF TypeOK
<1>10. CheckpointCovered' /\ \A q \in Procs : WorkerCovered(q)'
  BY <1>2, <1>6, <1>7, <1>8, CoverKept
<1>11. RowReadable'
  BY <1>1, <1>7, <1>8 DEF RowReadable
<1>12. LeaseExclusive'
  BY <1>2, <1>6, <1>7, <1>8, LeaseKept
<1>13. ASSUME NEW j \in Instances
       PROVE  /\ row'[j].retry_count + Cardinality(MayRetry(j)')
                   <= MaxAttempts + Cardinality(Procs) - 1
              /\ MayRetry(j)' # {} => MaxAttempts > 0
  <2>1. /\ row[j].retry_count + Cardinality(MayRetry(j))
             <= MaxAttempts + Cardinality(Procs) - 1
        /\ MayRetry(j) # {} => MaxAttempts > 0
    BY <1>1 DEF RetriesAccounted
  <2>2. row[j].retry_count \in Nat
    BY <1>1 DEF TypeOK, Rows
  <2>3. MayRetry(j)' \subseteq MayRetry(j) /\ MayRetry(j) \subseteq Procs
    BY <1>6, MayRetryKept DEF MayRetry
  <2>4. /\ IsFiniteSet(MayRetry(j)) /\ IsFiniteSet(MayRetry(j)')
        /\ Cardinality(MayRetry(j)) \in Nat /\ Cardinality(MayRetry(j)') \in Nat
        /\ Cardinality(Procs) \in Nat
    BY <2>3, MayRetryFinite, FS_Subset, FS_CardinalityType
  <2>5. Cardinality(MayRetry(j)') <= Cardinality(MayRetry(j))
    BY <2>3, <2>4, FS_Subset
  <2>6. CASE j # i
    BY <1>7, <2>1, <2>2, <2>3, <2>4, <2>5, <2>6, BoundsAssumption
  <2>7. CASE j = i
    <3>1. p \in MayRetry(j) /\ p \notin MayRetry(j)'
      BY <1>2, <1>4, <1>5, <2>7 DEF MayRetry, Collecting
    <3>2. MayRetry(j)' \subseteq MayRetry(j) \ {p}
      BY <2>3, <3>1
    <3>3. Cardinality(MayRetry(j) \ {p}) = Cardinality(MayRetry(j)) - 1
          /\ IsFiniteSet(MayRetry(j) \ {p})
      BY <2>4, <3>1, FS_RemoveElement
    <3>4. Cardinality(MayRetry(j)') <= Cardinality(MayRetry(j)) - 1
      BY <3>2, <3>3, FS_Subset
    <3> QED BY <1>8, <2>1, <2>2, <2>4, <2>7, <3>1, <3>4, BoundsAssumption
  <2> QED BY <2>6, <2>7
<1>14. RetriesAccounted'
  BY <1>13 DEF RetriesAccounted
<1> QED BY <1>6, <1>9, <1>10, <1>11, <1>12, <1>14 DEF Inv

(* release_lease keeps the invariant. *)
LEMMA ReleaseLeaseInv ==
  ASSUME Inv, NEW p \in Procs, ReleaseLease(p) PROVE Inv'
<1> DEFINE i == worker[p].instance
           w == IF worker[p].todo = {} THEN Idle
                ELSE [At(p, "next") EXCEPT !.instance = 0]
<1>1. TypeOK /\ RowReadable /\ \A q \in Procs : Placed(q)
  BY DEF Inv
<1>2. /\ worker[p].pc = "release"
      /\ row' = [row EXCEPT ![i] = [row[i] EXCEPT !.leased = FALSE]]
      /\ worker' = [worker EXCEPT ![p] = w]
      /\ UNCHANGED <<connector, enabled, collected, outlived>>
  <2>1. i \in Instances /\ row \in [Instances -> Rows]
    BY <1>1 DEF ReleaseLease, Placed, TypeOK
  <2> QED BY <2>1 DEF ReleaseLease
<1>3. i \in Instances \ worker[p].todo /\ row[i] \in Rows
  BY <1>1, <1>2 DEF Placed, TypeOK
<1>4. /\ w \in Workers /\ w.pc \in {"idle", "next"} /\ w.instance = 0
      /\ w.todo = worker[p].todo
  <2>1. CASE worker[p].todo = {}
    BY <2>1, IdleFacts DEF Idle
  <2>2. CASE worker[p].todo # {}
    <3>1. /\ At(p, "next") \in Workers /\ At(p, "next").pc = "next"
          /\ At(p, "next").todo = worker[p].todo
      BY <1>1, AtFacts DEF Steps
    <3> QED BY <2>2, <3>1 DEF Workers
  <2> QED BY <2>1, <2>2
<1> HIDE DEF w
<1>5. worker' \in [Procs -> Workers] /\ worker'[p] = w /\ OthersStay(p)
  BY <1>1, <1>2, <1>4, OneWorker
<1>6. ASSUME NEW q \in Procs PROVE Placed(q)'
  BY <1>1, <1>4, <1>5 DEF Placed, OthersStay
<1>7. FewerCollections
  BY <1>4, <1>5 DEF FewerCollections, CollectSteps, OthersStay
<1>8. row' \in [Instances -> Rows] /\ \A j \in Instances \ {i} : row'[j] = row[j]
  <2>1. [row[i] EXCEPT !.leased = FALSE] \in Rows
    BY <1>3 DEF Rows
  <2> QED BY <1>1, <1>2, <1>3, <2>1, OneRow
<1>9. /\ row'[i].checkpoint = row[i].checkpoint
      /\ row'[i].retry_count = row[i].retry_count
      /\ row'[i].observation = row[i].observation
      /\ row'[i].gap_open = row[i].gap_open
  <2>1. row'[i] = [row[i] EXCEPT !.leased = FALSE]
    BY <1>1, <1>2, <1>3 DEF TypeOK
  <2> QED BY <1>3, <2>1 DEF Rows
<1>10. TypeOK'
  BY <1>1, <1>2, <1>5, <1>8 DEF TypeOK
<1>11. CheckpointCovered' /\ \A q \in Procs : WorkerCovered(q)'
  BY <1>2, <1>7, <1>8, <1>9, CoverKept
<1>12. RowReadable'
  BY <1>1, <1>8, <1>9 DEF RowReadable
<1>13. RetriesAccounted'
  <2>1. ASSUME NEW j \in Instances
        PROVE  row'[j].retry_count <= row[j].retry_count
    BY <1>1, <1>8, <1>9 DEF TypeOK, Rows
  <2> QED BY <1>7, <1>10, <2>1, MayRetryKept, RetriesKept
<1>14. LeaseExclusive'
  <2> SUFFICES ASSUME NEW j \in Instances \ outlived, NEW q \in Procs, Leasing(q, j)'
               PROVE  row'[j].leased /\ \A r \in Procs : Leasing(r, j)' => q = r
    BY <1>2 DEF LeaseExclusive
  <2>1. ASSUME NEW r \in Procs, Leasing(r, j)' PROVE Leasing(r, j) /\ (r = p => j # i)
    <3>1. CASE r = p
      BY <1>2, <1>3, <1>4, <1>5, <2>1, <3>1, InstancesAssumption DEF Leasing
    <3>2. CASE r # p
      BY <1>5, <2>1, <3>2 DEF Leasing, OthersStay
    <3> QED BY <3>1, <3>2
  <2>2. row[j].leased /\ \A r \in Procs : Leasing(r, j) => q = r
    BY <2>1 DEF Inv, LeaseExclusive
  <2>3. j # i
    <3>1. Leasing(p, i)
      BY <1>2 DEF Leasing
    <3> QED BY <2>1, <2>2, <3>1
  <2> QED BY <1>8, <2>1, <2>2, <2>3
<1> QED BY <1>6, <1>10, <1>11, <1>12, <1>13, <1>14 DEF Inv

(* A crash keeps the invariant. *)
LEMMA CrashInv ==
  ASSUME Inv, NEW p \in Procs, Crash(p) PROVE Inv'
<1>1. TypeOK /\ RowReadable
  BY DEF Inv
<1>2. /\ worker' = [worker EXCEPT ![p] = Idle]
      /\ UNCHANGED <<connector, row, enabled, collected, outlived>>
  BY DEF Crash
<1>3. worker' \in [Procs -> Workers] /\ worker'[p] = Idle /\ OthersStay(p)
  BY <1>1, <1>2, IdleFacts, OneWorker
<1>4. ASSUME NEW q \in Procs PROVE Placed(q)'
  BY <1>3, IdleFacts DEF Inv, Placed, OthersStay
<1>5. FewerClaims
  BY <1>3, IdleFacts DEF FewerClaims, Leasing, OthersStay
<1>6. FewerCollections
  BY <1>3, IdleFacts DEF FewerCollections, CollectSteps, OthersStay
<1>7. RowReadable' /\ row' \in [Instances -> Rows] /\ enabled' \subseteq Instances
      /\ \A j \in Instances : row[j].retry_count \in Nat
  BY <1>1, <1>2 DEF RowReadable, TypeOK, Rows
<1> QED BY <1>2, <1>3, <1>4, <1>5, <1>6, <1>7, Retreat

-----------------------------------------------------------------------------
(* Time, and the management routes.                                         *)

(* The end of a lease keeps the invariant. *)
LEMMA LeaseExpiresInv ==
  ASSUME Inv, NEW i \in Instances, LeaseExpires(i) PROVE Inv'
<1>1. TypeOK /\ RowReadable /\ row[i] \in Rows
  BY DEF Inv, TypeOK
<1>2. /\ row' = [row EXCEPT ![i] = [row[i] EXCEPT !.leased = FALSE]]
      /\ outlived' = IF \E p \in Procs : Leasing(p, i)
                       THEN outlived \cup {i} ELSE outlived
      /\ UNCHANGED <<connector, enabled, worker, collected>>
  BY <1>1 DEF LeaseExpires, TypeOK
<1>3. row' \in [Instances -> Rows] /\ \A j \in Instances \ {i} : row'[j] = row[j]
  <2>1. [row[i] EXCEPT !.leased = FALSE] \in Rows
    BY <1>1 DEF Rows
  <2> QED BY <1>1, <1>2, <2>1, OneRow
<1>4. /\ row'[i].checkpoint = row[i].checkpoint
      /\ row'[i].retry_count = row[i].retry_count
      /\ row'[i].observation = row[i].observation
      /\ row'[i].gap_open = row[i].gap_open
  <2>1. row'[i] = [row[i] EXCEPT !.leased = FALSE]
    BY <1>1, <1>2 DEF TypeOK
  <2> QED BY <1>1, <2>1 DEF Rows
<1>5. outlived' \subseteq Instances /\ outlived \subseteq outlived'
  BY <1>1, <1>2 DEF TypeOK
<1>6. TypeOK'
  BY <1>1, <1>2, <1>3, <1>5 DEF TypeOK
<1>7. (\A q \in Procs : Placed(q)') /\ FewerClaims /\ FewerCollections
  BY <1>2, NobodyMoves
<1>8. CheckpointCovered' /\ \A q \in Procs : WorkerCovered(q)'
  BY <1>2, <1>3, <1>4, <1>7, CoverKept
<1>9. RowReadable'
  BY <1>1, <1>3, <1>4 DEF RowReadable
<1>10. RetriesAccounted'
  <2>1. ASSUME NEW j \in Instances
        PROVE  row'[j].retry_count <= row[j].retry_count
    BY <1>1, <1>3, <1>4 DEF TypeOK, Rows
  <2> QED BY <1>6, <1>7, <2>1, MayRetryKept, RetriesKept
<1>11. LeaseExclusive'
  <2> SUFFICES ASSUME NEW j \in Instances \ outlived', NEW q \in Procs, Leasing(q, j)'
               PROVE  row'[j].leased /\ \A r \in Procs : Leasing(r, j)' => q = r
    BY DEF LeaseExclusive
  <2>1. \A r \in Procs : Leasing(r, j)' => Leasing(r, j)
    BY <1>7 DEF FewerClaims
  <2>2. j # i
    BY <1>2, <2>1
  <2> QED BY <1>3, <1>5, <2>1, <2>2 DEF Inv, LeaseExclusive
<1> QED BY <1>6, <1>7, <1>8, <1>9, <1>10, <1>11 DEF Inv

(* No worker moves, and no row loses its lease, moves its checkpoint or
   counts a retry. *)
LEMMA RowOnlyInv ==
  ASSUME Inv, NEW i \in Instances, UNCHANGED <<connector, worker, collected, outlived>>,
         enabled' \subseteq Instances, NEW r \in Rows, row' = [row EXCEPT ![i] = r],
         r.checkpoint = row[i].checkpoint, r.retry_count = row[i].retry_count,
         r.observation = "collection_gap" => r.gap_open, row[i].leased => r.leased
  PROVE  Inv'
<1>1. TypeOK /\ RowReadable
  BY DEF Inv
<1>2. /\ row' \in [Instances -> Rows] /\ row'[i] = r
      /\ \A j \in Instances \ {i} : row'[j] = row[j]
  BY <1>1, OneRow
<1>3. (\A q \in Procs : Placed(q)') /\ FewerClaims /\ FewerCollections
      /\ worker' \in [Procs -> Workers]
  BY <1>1, NobodyMoves DEF TypeOK
<1>4. RowReadable'
  BY <1>1, <1>2 DEF RowReadable
<1>5. ASSUME NEW j \in Instances
      PROVE  /\ row'[j].checkpoint = row[j].checkpoint
             /\ row'[j].retry_count <= row[j].retry_count
             /\ row[j].leased => row'[j].leased
  <2>1. row[j].retry_count \in Nat
    BY <1>1 DEF TypeOK, Rows
  <2> QED BY <1>2, <2>1
<1> QED BY <1>2, <1>3, <1>4, <1>5, Retreat

(* The end of a retry delay keeps the invariant. *)
LEMMA RetryDueInv ==
  ASSUME Inv, NEW i \in Instances, RetryDue(i) PROVE Inv'
<1> DEFINE r == [row[i] EXCEPT !.due = TRUE]
<1>1. row[i] \in Rows /\ enabled \subseteq Instances
      /\ (row[i].observation = "collection_gap" => row[i].gap_open)
  BY DEF Inv, TypeOK, RowReadable
<1>2. /\ r \in Rows /\ r.checkpoint = row[i].checkpoint
      /\ r.retry_count = row[i].retry_count /\ r.leased = row[i].leased
      /\ r.observation = row[i].observation /\ r.gap_open = row[i].gap_open
  BY <1>1 DEF Rows
<1>3. row' = [row EXCEPT ![i] = r] /\ UNCHANGED <<connector, enabled, worker, collected, outlived>>
  BY DEF RetryDue
<1> HIDE DEF r
<1> QED BY <1>1, <1>2, <1>3, RowOnlyInv

(* The management API's mark_gap keeps the invariant. *)
LEMMA DetectGapInv ==
  ASSUME Inv, NEW i \in Instances, DetectGap(i) PROVE Inv'
<1>1. row[i] \in Rows /\ enabled \subseteq Instances
  BY DEF Inv, TypeOK
<1> QED BY <1>1, GapMarkedFacts, RowOnlyInv DEF DetectGap

(* The management API's reconcile_gap keeps the invariant. *)
LEMMA OperatorReconcileInv ==
  ASSUME Inv, NEW i \in Instances, OperatorReconcile(i) PROVE Inv'
<1>1. row[i] \in Rows /\ enabled \subseteq Instances
  BY DEF Inv, TypeOK
<1> QED BY <1>1, ReconciledFacts, RowOnlyInv DEF OperatorReconcile

(* set_enabled keeps the invariant. *)
LEMMA SetEnabledInv ==
  ASSUME Inv, NEW i \in Instances, SetEnabled(i) PROVE Inv'
<1>1. row[i] \in Rows /\ enabled' \subseteq Instances
      /\ (row[i].observation = "collection_gap" => row[i].gap_open)
      /\ row' = [row EXCEPT ![i] = row[i]]
      /\ UNCHANGED <<connector, worker, collected, outlived>>
  BY DEF Inv, TypeOK, RowReadable, SetEnabled
<1> QED BY <1>1, RowOnlyInv

(* A checkpoint is set by hand (runtime_store.py 205): every collection under
   way has lost its revision. *)
LEMMA SetByOperatorInv ==
  ASSUME Inv, NEW i \in Instances, UNCHANGED <<connector, enabled, outlived>>,
         NEW c \in Positions, NEW o \in Observations, NEW g \in BOOLEAN,
         o = "collection_gap" => g,
         row' = [row EXCEPT ![i] = Checkpointed(@, c, o, g)], SetByOperator(i, c)
  PROVE  Inv'
<1>1. TypeOK /\ RowReadable /\ CheckpointCovered /\ row[i] \in Rows
      /\ \A q \in Procs : Placed(q) /\ WorkerCovered(q)
  BY DEF Inv, TypeOK
<1>2. worker' = RevisionMoved(i) /\ collected' = [collected EXCEPT ![i] = 1..c]
  BY DEF SetByOperator
<1>3. row' \in [Instances -> Rows] /\ \A j \in Instances \ {i} : row'[j] = row[j]
  <2>1. Checkpointed(row[i], c, o, g) \in Rows
    BY <1>1, CheckpointedFacts
  <2> QED BY <1>1, <2>1, OneRow
<1>4. /\ row'[i].checkpoint = c /\ row'[i].retry_count = 0
      /\ row'[i].observation = o /\ row'[i].gap_open = g
      /\ row'[i].leased = row[i].leased
  <2>1. row'[i] = Checkpointed(row[i], c, o, g)
    BY <1>1 DEF TypeOK
  <2> QED BY <1>1, <2>1, CheckpointedFacts
<1>5. (\A q \in Procs : Placed(q)') /\ FewerClaims /\ FewerCollections
  BY <1>2, RevisionMoves
<1>6. /\ collected' \in [Instances -> SUBSET (1..LastPosition)]
      /\ collected'[i] = 1..c
      /\ \A j \in Instances \ {i} : collected'[j] = collected[j]
  <2>1. 1..c \subseteq 1..LastPosition
    BY BoundsAssumption DEF Positions
  <2> QED BY <1>1, <1>2, <2>1 DEF TypeOK
<1>7. TypeOK'
  BY <1>1, <1>2, <1>3, <1>6, RevisionMovedFacts DEF TypeOK
<1>8. CheckpointCovered'
  BY <1>1, <1>3, <1>4, <1>6 DEF CheckpointCovered
<1>9. ASSUME NEW q \in Procs PROVE WorkerCovered(q)'
  <2> SUFFICES ASSUME worker'[q].pc \in {"collect", "commit"}, worker'[q].current
               PROVE  1..worker'[q].done \subseteq collected'[worker'[q].instance]
    BY DEF WorkerCovered
  <2>1. worker[q].instance # i
    BY <1>1, <1>2, RevisionMovedFacts
  <2>2. worker'[q] = worker[q]
    BY <1>1, <1>2, <2>1, RevisionMovedFacts
  <2>3. worker[q].instance \in Instances
    BY <1>1, <2>2 DEF Placed
  <2> QED BY <1>1, <1>6, <2>1, <2>2, <2>3 DEF WorkerCovered
<1>10. RowReadable'
  BY <1>1, <1>3, <1>4 DEF RowReadable
<1>11. LeaseExclusive'
  BY <1>3, <1>4, <1>5, LeaseKept
<1>12. RetriesAccounted'
  <2>1. ASSUME NEW j \in Instances
        PROVE  row'[j].retry_count <= row[j].retry_count
    BY <1>1, <1>3, <1>4 DEF TypeOK, Rows
  <2> QED BY <1>5, <1>7, <2>1, MayRetryKept, RetriesKept
<1> QED BY <1>5, <1>7, <1>8, <1>9, <1>10, <1>11, <1>12 DEF Inv

(* The management API's update_checkpoint keeps the invariant. *)
LEMMA UpdateCheckpointInv ==
  ASSUME Inv, NEW i \in Instances, UpdateCheckpoint(i) PROVE Inv'
<1>1. PICK c \in Positions, o \in Observations, g \in BOOLEAN :
        /\ o = "collection_gap" => g
        /\ row' = [row EXCEPT ![i] = Checkpointed(@, c, o, g)]
        /\ SetByOperator(i, c)
  BY DEF UpdateCheckpoint
<1>2. UNCHANGED <<connector, enabled, outlived>>
  BY DEF UpdateCheckpoint
<1> QED BY <1>1, <1>2, SetByOperatorInv

(* The authorization of a full resync keeps the invariant. *)
LEMMA AuthorizeFullResyncInv ==
  ASSUME Inv, NEW i \in Instances, AuthorizeFullResync(i) PROVE Inv'
<1>1. 0 \in Positions /\ "collection_gap" \in Observations /\ TRUE \in BOOLEAN
  BY BoundsAssumption DEF Positions, Observations
<1>2. /\ UNCHANGED <<connector, enabled, outlived>>
      /\ row' = [row EXCEPT ![i] = Checkpointed(@, 0, "collection_gap", TRUE)]
      /\ SetByOperator(i, 0)
  BY DEF AuthorizeFullResync
<1> QED BY <1>1, <1>2, SetByOperatorInv

-----------------------------------------------------------------------------
(***************************************************************************)
(* The theorems.                                                           *)
(***************************************************************************)

(* The inductive invariant holds of every behaviour: of any number of        *)
(* processes and instances, whatever crashes, expires or is set by hand.     *)
THEOREM Invariance == Spec => []Inv
<1>1. Init => Inv
  BY InvInit
<1>2. Inv /\ [Next]_vars => Inv'
  <2> SUFFICES ASSUME Inv, [Next]_vars PROVE Inv'
    OBVIOUS
  <2>1. ASSUME NEW p \in Procs, WorkerStep(p) \/ Crash(p) PROVE Inv'
    BY <2>1, ClaimDueInv, GetRuntimeInv, CollectPageInv, CommitRecordInv,
       SetCheckpointInv, SetCheckpointConflictInv, ReconcileGapInv,
       ScheduleRetryInv, MarkGapInv, CycleErrorInv, ReleaseLeaseInv, CrashInv
       DEF WorkerStep
  <2>2. ASSUME NEW i \in Instances, LeaseExpires(i) \/ RetryDue(i) \/ OperatorStep(i)
        PROVE  Inv'
    BY <2>2, LeaseExpiresInv, RetryDueInv, UpdateCheckpointInv,
       AuthorizeFullResyncInv, DetectGapInv, OperatorReconcileInv, SetEnabledInv
       DEF OperatorStep
  <2>3. CASE UNCHANGED vars
    <3>1. UNCHANGED <<connector, row, enabled, worker, collected, outlived>>
      BY <2>3 DEF vars
    <3>2. (\A q \in Procs : Placed(q)') /\ FewerClaims /\ FewerCollections
      BY <3>1, NobodyMoves
    <3>3. /\ worker' \in [Procs -> Workers] /\ row' \in [Instances -> Rows]
          /\ enabled' \subseteq Instances /\ RowReadable'
          /\ \A j \in Instances : row[j].retry_count \in Nat
      BY <3>1 DEF Inv, TypeOK, RowReadable, Rows
    <3> QED BY <3>1, <3>2, <3>3, Retreat
  <2> QED BY <2>1, <2>2, <2>3 DEF Next
<1> QED BY <1>1, <1>2, PTL DEF Spec

(* Every row and every worker stays within its type: a checkpoint never runs *)
(* past the source, an instance in hand is a configured one.                 *)
THEOREM TypeCorrect == Spec => []TypeOK
BY Invariance, PTL DEF Inv

(* The checkpoint of a row never runs ahead of what is durably queued        *)
(* (connector_runner.py:93, hosted_runtime.py:525).                          *)
THEOREM CheckpointStaysCovered == Spec => []CheckpointCovered
BY Invariance, PTL DEF Inv

(* No sequence of calls leaves a row that get_runtime refuses to read        *)
(* (connectors/runtime.py:88).                                               *)
THEOREM RowsStayReadable == Spec => []RowReadable
BY Invariance, PTL DEF Inv

(* n processes exceed the retry budget by n - 1 at most                      *)
(* (hosted_runtime.py:549).                                                  *)
THEOREM RetriesStayBounded == Spec => []RetriesBounded
<1>1. ASSUME Inv PROVE RetriesBounded
  <2> SUFFICES ASSUME NEW i \in Instances
               PROVE  row[i].retry_count <= MaxAttempts + Cardinality(Procs) - 1
    BY DEF RetriesBounded
  <2>1. row[i].retry_count + Cardinality(MayRetry(i))
          <= MaxAttempts + Cardinality(Procs) - 1
    BY <1>1 DEF Inv, RetriesAccounted
  <2>2. row[i].retry_count \in Nat
    BY <1>1 DEF Inv, TypeOK, Rows
  <2>3. Cardinality(MayRetry(i)) \in Nat /\ Cardinality(Procs) \in Nat
    BY MayRetryFinite DEF MayRetry
  <2> QED BY <2>1, <2>2, <2>3, BoundsAssumption
<1> QED BY <1>1, Invariance, PTL

(* Two collections of an instance overlap only once a lease on it was        *)
(* outlived (runtime_store.py:314).                                          *)
THEOREM OverlapNeedsOverrun == Spec => []OverlapOnlyAfterOverrun
<1>1. ASSUME Inv PROVE OverlapOnlyAfterOverrun
  BY <1>1 DEF Inv, OverlapOnlyAfterOverrun, LeaseExclusive, Leasing, Collecting
<1> QED BY <1>1, Invariance, PTL

(* The stale write-back of hosted_runtime.py:528 is the only way in which a  *)
(* gap is closed without a decision: the collection that closes it read the  *)
(* row before the gap was opened.                                            *)
THEOREM GapsLostOnlyToStaleReads == Spec => OnlyStaleReadsCloseGaps
<1>1. ASSUME Inv, [Next]_vars, NEW i \in Instances, row[i].gap_open, ~row'[i].gap_open
      PROVE  \/ OperatorReconcile(i)
             \/ UpdateCheckpoint(i)
             \/ \E p \in Procs : CaughtUp(p, i)
             \/ \E p \in Procs : Collecting(p, i) /\ ~worker[p].gap_open
  <2> DEFINE Known == \/ OperatorReconcile(i)
                      \/ UpdateCheckpoint(i)
                      \/ \E p \in Procs : CaughtUp(p, i)
                      \/ \E p \in Procs : Collecting(p, i) /\ ~worker[p].gap_open
  <2> SUFFICES Known
    OBVIOUS
  <2>1. TypeOK /\ row \in [Instances -> Rows] /\ row[i] \in Rows
        /\ \A p \in Procs : Placed(p) /\ worker[p] \in Workers
    BY <1>1 DEF Inv, TypeOK
  <2>2. row' # row
    BY <1>1
  <2>3. ASSUME NEW p \in Procs, WorkerStep(p) \/ Crash(p) PROVE Known
    <3>1. CASE ClaimDue(p)
      <4>1. row'[i] = IF i \in Due THEN [row[i] EXCEPT !.leased = TRUE] ELSE row[i]
        BY <3>1 DEF ClaimDue
      <4>2. row'[i].gap_open = row[i].gap_open
        BY <2>1, <4>1 DEF Rows
      <4> QED BY <1>1, <4>2
    <3>2. CASE GetRuntime(p) \/ CollectPage(p) \/ CommitRecord(p)
               \/ SetCheckpointConflict(p) \/ CycleError(p) \/ Crash(p)
      BY <2>2, <3>2 DEF GetRuntime, CollectPage, CommitRecord,
         SetCheckpointConflict, CycleError, Crash
    <3>3. CASE SetCheckpoint(p)
      <4> DEFINE w == worker[p]
                 g == GapWritten(w)
                 o == IF g THEN "collection_gap" ELSE "other_observation"
      <4>1. /\ w.pc = "commit"
            /\ row' = [row EXCEPT ![w.instance] = Checkpointed(@, w.done, o, g)]
        BY <3>3 DEF SetCheckpoint, PageQueued
      <4>2. w.done \in Positions /\ g \in BOOLEAN /\ o \in Observations
        BY <2>1 DEF Workers, GapWritten, Observations
      <4> HIDE DEF o
      <4>3. w.instance = i
        BY <1>1, <2>1, <4>1
      <4>4. row'[i] = Checkpointed(row[i], w.done, o, g)
        BY <2>1, <4>1, <4>3
      <4>5. row'[i].gap_open = g
        BY <2>1, <4>2, <4>4, CheckpointedFacts
      <4> QED BY <1>1, <4>1, <4>3, <4>5 DEF GapWritten, Collecting
    <3>4. CASE ReconcileGap(p)
      BY <1>1, <2>1, <3>4 DEF ReconcileGap, CaughtUp
    <3>5. CASE ScheduleRetry(p)
      <4>1. row' = [row EXCEPT ![worker[p].instance] = RetryScheduled(@)]
        BY <3>5 DEF ScheduleRetry
      <4>2. RetryScheduled(row[i]).gap_open = row[i].gap_open
        BY <2>1 DEF RetryScheduled, Rows
      <4> QED BY <1>1, <2>1, <4>1, <4>2
    <3>6. CASE MarkGap(p)
      BY <1>1, <2>1, <3>6, GapMarkedFacts DEF MarkGap
    <3>7. CASE ReleaseLease(p)
      <4>1. row' = [row EXCEPT ![worker[p].instance] = [@ EXCEPT !.leased = FALSE]]
        BY <3>7 DEF ReleaseLease
      <4>2. [row[i] EXCEPT !.leased = FALSE].gap_open = row[i].gap_open
        BY <2>1 DEF Rows
      <4> QED BY <1>1, <2>1, <4>1, <4>2
    <3> QED BY <2>3, <3>1, <3>2, <3>3, <3>4, <3>5, <3>6, <3>7 DEF WorkerStep
  <2>4. ASSUME NEW j \in Instances, LeaseExpires(j) \/ RetryDue(j) \/ OperatorStep(j)
        PROVE  Known
    <3>1. CASE LeaseExpires(j)
      <4>1. row' = [row EXCEPT ![j] = [@ EXCEPT !.leased = FALSE]]
        BY <3>1 DEF LeaseExpires
      <4>2. [row[i] EXCEPT !.leased = FALSE].gap_open = row[i].gap_open
        BY <2>1 DEF Rows
      <4> QED BY <1>1, <2>1, <4>1, <4>2
    <3>2. CASE RetryDue(j)
      <4>1. row' = [row EXCEPT ![j] = [@ EXCEPT !.due = TRUE]]
        BY <3>2 DEF RetryDue
      <4>2. [row[i] EXCEPT !.due = TRUE].gap_open = row[i].gap_open
        BY <2>1 DEF Rows
      <4> QED BY <1>1, <2>1, <4>1, <4>2
    <3>3. CASE UpdateCheckpoint(j)
      <4>1. i = j
        BY <1>1, <2>1, <3>3 DEF UpdateCheckpoint
      <4> QED BY <3>3, <4>1
    <3>4. CASE AuthorizeFullResync(j)
      <4>1. /\ row' = [row EXCEPT ![j] = Checkpointed(@, 0, "collection_gap", TRUE)]
            /\ 0 \in Positions /\ "collection_gap" \in Observations
        BY <3>4, BoundsAssumption DEF AuthorizeFullResync, Positions, Observations
      <4>2. Checkpointed(row[i], 0, "collection_gap", TRUE).gap_open
        BY <2>1 DEF Checkpointed, Rows
      <4> QED BY <1>1, <2>1, <4>1, <4>2
    <3>5. CASE DetectGap(j)
      BY <1>1, <2>1, <3>5, GapMarkedFacts DEF DetectGap
    <3>6. CASE OperatorReconcile(j)
      <4>1. i = j
        BY <1>1, <2>1, <3>6 DEF OperatorReconcile
      <4> QED BY <3>6, <4>1
    <3>7. CASE SetEnabled(j)
      BY <2>2, <3>7 DEF SetEnabled
    <3> QED BY <2>4, <3>1, <3>2, <3>3, <3>4, <3>5, <3>6, <3>7 DEF OperatorStep
  <2>5. CASE UNCHANGED vars
    BY <2>2, <2>5 DEF vars
  <2> QED BY <1>1, <2>3, <2>4, <2>5 DEF Next
<1>2. Inv /\ [Next]_vars =>
        [\A i \in Instances :
           row[i].gap_open /\ ~row'[i].gap_open =>
             \/ ByDecision(i)
             \/ \E p \in Procs : Collecting(p, i) /\ ~worker[p].gap_open]_vars
  BY <1>1 DEF ByDecision
<1> QED BY <1>2, Invariance, PTL DEF Spec, OnlyStaleReadsCloseGaps

=============================================================================
