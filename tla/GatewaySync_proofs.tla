------------------------ MODULE GatewaySync_proofs ------------------------
(***************************************************************************)
(* Proofs about GatewaySync, for any processes, requests and events, any   *)
(* queue and batch bounds and any number of faults.                        *)
(***************************************************************************)
EXTENDS GatewaySync, FiniteSetTheorems, TLAPS

QueueType ==
  /\ DOMAIN queue \subseteq Events
  /\ queue \in [DOMAIN queue -> Rows]
  /\ next_id \in Nat

-----------------------------------------------------------------------------
(* What each statement of the queue does to the rows.                      *)

(* An insert adds one PENDING row, or finds the row there. *)
LEMMA InsertFacts ==
  ASSUME QueueType, NEW k \in Events, Insert(k)
  PROVE  /\ QueueType'
         /\ DOMAIN queue' = DOMAIN queue \cup {k}
         /\ \A j \in DOMAIN queue : queue'[j] = queue[j]
         /\ k \notin DOMAIN queue => queue'[k].state = "PENDING"
<1>1. CASE k \in DOMAIN queue
  BY <1>1 DEF Insert, QueueType
<1>2. CASE k \notin DOMAIN queue
  <2> DEFINE row == [id |-> next_id, state |-> "PENDING", ack |-> "none"]
             new == Put(queue, k, row)
  <2>1. row \in Rows /\ row.state = "PENDING"
    BY DEF QueueType, Rows, States, Acks
  <2>2. queue' = new /\ next_id' = next_id + 1
    BY <1>2 DEF Insert
  <2> HIDE DEF row
  <2>3. /\ DOMAIN new = DOMAIN queue \cup {k}
        /\ new[k] = row
        /\ \A j \in DOMAIN queue : new[j] = queue[j]
    BY <1>2 DEF Put
  <2>4. new \in [DOMAIN new -> Rows]
    BY <2>1 DEF Put, QueueType
  <2> HIDE DEF new
  <2>5. QueueType'
    BY <2>2, <2>3, <2>4 DEF QueueType
  <2> QED BY <2>1, <2>2, <2>3, <2>5
<1> QED BY <1>1, <1>2

(* A claim makes its rows IN_FLIGHT and leaves the others alone. *)
LEMMA ClaimFacts ==
  ASSUME QueueType, NEW keys, Claim(keys)
  PROVE  /\ QueueType'
         /\ DOMAIN queue' = DOMAIN queue
         /\ \A j \in DOMAIN queue : j \in keys => queue'[j].state = "IN_FLIGHT"
         /\ \A j \in DOMAIN queue : j \notin keys => queue'[j] = queue[j]
<1>1. \A j \in DOMAIN queue :
        /\ [queue[j] EXCEPT !.state = "IN_FLIGHT"] \in Rows
        /\ [queue[j] EXCEPT !.state = "IN_FLIGHT"].state = "IN_FLIGHT"
  BY DEF QueueType, Rows, States
<1> QED BY <1>1 DEF Claim, QueueType

(* Recovery makes the IN_FLIGHT rows retryable and leaves the others alone. *)
LEMMA RecoverFacts ==
  ASSUME QueueType, RecoverInFlight
  PROVE  /\ QueueType'
         /\ DOMAIN queue' = DOMAIN queue
         /\ \A j \in DOMAIN queue : queue'[j].state # "IN_FLIGHT"
         /\ \A j \in DOMAIN queue :
              queue[j].state # "IN_FLIGHT" => queue'[j] = queue[j]
         /\ \A j \in DOMAIN queue :
              queue'[j].state = "SYNCHRONIZED" => queue[j].state = "SYNCHRONIZED"
<1>1. \A j \in DOMAIN queue :
        LET r == [queue[j] EXCEPT !.state = "RETRYABLE_FAILURE"] IN
        r \in Rows /\ r.state = "RETRYABLE_FAILURE"
  BY DEF QueueType, Rows, States
<1> QED BY <1>1 DEF RecoverInFlight, QueueType

(* A failure report changes one row's state. *)
LEMMA FailureFacts ==
  ASSUME QueueType, NEW k \in DOMAIN queue, NEW s \in States, MarkFailure(k, s)
  PROVE  /\ QueueType'
         /\ DOMAIN queue' = DOMAIN queue
         /\ queue'[k].state = s
         /\ \A j \in DOMAIN queue : j # k => queue'[j] = queue[j]
<1>1. [queue[k] EXCEPT !.state = s] \in Rows /\ [queue[k] EXCEPT !.state = s].state = s
  BY DEF QueueType, Rows
<1>2. queue' = [queue EXCEPT ![k] = [queue[k] EXCEPT !.state = s]] /\ next_id' = next_id
  BY DEF MarkFailure
<1> QED BY <1>1, <1>2 DEF QueueType

(* mark_synchronized changes one row's state and acknowledgement. *)
LEMMA SynchronizedFacts ==
  ASSUME QueueType, NEW k \in DOMAIN queue, NEW a \in Acks, MarkSynchronized(k, a)
  PROVE  /\ QueueType'
         /\ DOMAIN queue' = DOMAIN queue
         /\ \A j \in DOMAIN queue : j # k => queue'[j] = queue[j]
<1> DEFINE row == [queue[k] EXCEPT !.state = "SYNCHRONIZED", !.ack = a]
<1>1. row \in Rows
  BY DEF QueueType, Rows, States
<1>2. queue' = [queue EXCEPT ![k] = row] /\ next_id' = next_id
  BY DEF MarkSynchronized, QueueType, Rows
<1> HIDE DEF row
<1> QED BY <1>1, <1>2 DEF QueueType

-----------------------------------------------------------------------------
(* Types.                                                                  *)

(* The fillers of unused local variables are well typed. *)
LEMMA FillerTypes == AnyEvent \in Events /\ Free \in Requests /\ Idle \in Workers
<1>1. AnyEvent \in Events
  <2>1. PICK d \in Ids, c \in Contents, m \in Stamps : TRUE
    BY GatewayAssumption
  <2>2. [id |-> d, content |-> c, stamp |-> m] \in Events
    BY <2>1 DEF Events
  <2> QED BY <2>2 DEF AnyEvent
<1> QED BY <1>1 DEF Free, Requests, Idle, Workers, Acks

(* A step of an ingress request keeps the types. *)
LEMMA IngressType ==
  ASSUME Inv, NEW t \in Threads, IngressStep(t)
  PROVE  TypeOK'
<1> USE FillerTypes
<1>1. TypeOK /\ QueueType /\ request[t] \in Requests
  BY DEF Inv, TypeOK, QueueType
<1>2. request[t].event \in Events /\ request[t].entry \in Events
  BY <1>1 DEF Requests
<1>3. ASSUME NEW step \in IngressSteps, IngressGoTo(t, step)
      PROVE  request' \in [Threads -> Requests]
  BY <1>1, <1>3 DEF IngressGoTo, TypeOK, Requests
<1>4. ASSUME Reject(t)
      PROVE  request' \in [Threads -> Requests] /\ receipts' \subseteq Contents \X Events
  BY <1>1, <1>4 DEF Reject, TypeOK
<1>5. ASSUME Accept(t)
      PROVE  request' \in [Threads -> Requests] /\ receipts' \subseteq Contents \X Events
  <2>1. request[t].event.content \in Contents
    BY <1>2 DEF Events
  <2> QED BY <1>1, <1>2, <1>5, <2>1 DEF Accept, TypeOK
<1>6. ASSUME NEW e \in Events, SyncEntry(t, e)
      PROVE  request' \in [Threads -> Requests] /\ receipts' \subseteq Contents \X Events
  BY <1>1, <1>6 DEF SyncEntry, TypeOK, Requests, IngressSteps
<1>7. ASSUME NEW e \in Events, ReconcileExisting(t, e)
      PROVE  request' \in [Threads -> Requests] /\ receipts' \subseteq Contents \X Events
  BY <1>4, <1>6, <1>7 DEF ReconcileExisting
<1>8. \A d \in DOMAIN local : local[d] \in Events
  BY <1>1 DEF TypeOK
<1>9. ASSUME request' \in [Threads -> Requests], receipts' \subseteq Contents \X Events,
             UNCHANGED <<queueVars, local>>, IngressUnchanged
      PROVE  TypeOK'
  BY <1>1, <1>9 DEF TypeOK, queueVars, IngressUnchanged
<1>10. ASSUME NEW e \in Events, Submit(t, e) PROVE TypeOK'
  <2>1. [Free EXCEPT !.pc = "lookup", !.event = e] \in Requests
    BY DEF Requests, IngressSteps
  <2>2. request' \in [Threads -> Requests] /\ receipts' \subseteq Contents \X Events
    BY <1>1, <1>10, <2>1 DEF Submit, TypeOK
  <2> QED BY <1>9, <1>10, <2>2 DEF Submit
<1>11. CASE Lookup(t)
  <2>1. CASE request[t].event.id \in DOMAIN local
    BY <1>7, <1>8, <1>9, <1>11, <2>1 DEF Lookup
  <2>2. CASE request[t].event.id \notin DOMAIN local
    BY <1>1, <1>3, <1>9, <1>11, <2>2 DEF Lookup, IngressSteps, TypeOK
  <2> QED BY <2>1, <2>2
<1>12. CASE EnsureCapacity(t)
  BY <1>1, <1>3, <1>4, <1>9, <1>12 DEF EnsureCapacity, IngressSteps, TypeOK
<1>13. CASE AppendLocal(t)
  <2> DEFINE e == request[t].event
  <2>1. CASE e.id \in DOMAIN local
    BY <1>7, <1>8, <1>9, <1>13, <2>1 DEF AppendLocal
  <2>2. CASE e.id \notin DOMAIN local
    <3>1. local' = Put(local, e.id, e) /\ SyncEntry(t, e)
      BY <1>13, <2>2 DEF AppendLocal
    <3>2. e.id \in Ids
      BY <1>2 DEF Events
    <3>3. DOMAIN local' \subseteq Ids /\ local' \in [DOMAIN local' -> Events]
      <4> DEFINE new == Put(local, e.id, e)
      <4>1. DOMAIN new = DOMAIN local \cup {e.id} /\ new \in [DOMAIN new -> Events]
        BY <1>1, <1>2 DEF Put, TypeOK
      <4> HIDE DEF new
      <4>2. local' = new
        BY <3>1 DEF new
      <4> QED BY <1>1, <3>2, <4>1, <4>2 DEF TypeOK
    <3>4. request' \in [Threads -> Requests] /\ receipts' \subseteq Contents \X Events
      BY <1>2, <1>6, <3>1
    <3> QED BY <1>1, <1>13, <3>3, <3>4 DEF AppendLocal, TypeOK, queueVars, IngressUnchanged
  <2> QED BY <2>1, <2>2
<1>14. CASE FindRow(t)
  BY <1>1, <1>3, <1>5, <1>9, <1>14 DEF FindRow, IngressSteps, TypeOK
<1>15. CASE CountRows(t)
  BY <1>1, <1>3, <1>4, <1>9, <1>15 DEF CountRows, IngressSteps, TypeOK
<1>16. CASE InsertRow(t)
  <2>1. QueueType'
    BY <1>1, <1>2, <1>16, InsertFacts DEF InsertRow
  <2>2. request' \in [Threads -> Requests] /\ receipts' \subseteq Contents \X Events
    BY <1>5, <1>16 DEF InsertRow
  <2> QED BY <1>1, <1>16, <2>1, <2>2 DEF InsertRow, IngressUnchanged, TypeOK, QueueType
<1>17. CASE RequestFails(t)
  <2>1. faults' \in 0..MaxFaults
    BY <1>1, <1>17, GatewayAssumption DEF RequestFails, Fault, TypeOK
  <2> QED BY <1>1, <1>4, <1>17, <2>1 DEF RequestFails, TypeOK, queueVars
<1> QED BY <1>10, <1>11, <1>12, <1>13, <1>14, <1>15, <1>16, <1>17 DEF IngressStep

(* A step of a relay worker keeps the types. *)
LEMMA RelayType ==
  ASSUME Inv, NEW p \in Procs, RelayStep(p) \/ RelayFault(p)
  PROVE  TypeOK'
<1> USE FillerTypes
<1>1. TypeOK /\ QueueType /\ worker[p] \in Workers /\ WorkerConsistent(p)
  BY DEF Inv, TypeOK, QueueType
<1>2. /\ worker[p].record \in Events /\ worker[p].ack \in Acks
      /\ worker[p].batch \subseteq Events
  BY <1>1 DEF Workers
<1>3. ASSUME NEW step \in {"idle"} \cup RelaySteps, RelayGoTo(p, step)
      PROVE  worker' \in [Procs -> Workers]
  BY <1>1, <1>3 DEF RelayGoTo, TypeOK, Workers
<1>4. ASSUME Advance(p) PROVE worker' \in [Procs -> Workers]
  BY <1>3, <1>4 DEF Advance, RelaySteps
<1>5. ASSUME Escape(p) PROVE worker' \in [Procs -> Workers]
  BY <1>1, <1>5 DEF Escape, TypeOK
<1>6. ASSUME worker' \in [Procs -> Workers], QueueType', core' \subseteq Events,
             late' \subseteq Events, faults' \in 0..MaxFaults, RelayUnchanged
      PROVE  TypeOK'
  BY <1>1, <1>6 DEF TypeOK, QueueType, RelayUnchanged
<1>7. ASSUME UNCHANGED queueVars PROVE QueueType'
  BY <1>1, <1>7 DEF queueVars, QueueType
<1>8. ASSUME worker' \in [Procs -> Workers], UNCHANGED <<queueVars, core, late, faults>>,
             RelayUnchanged
      PROVE  TypeOK'
  BY <1>1, <1>6, <1>7, <1>8 DEF TypeOK
<1>9. ASSUME worker' \in [Procs -> Workers], QueueType', UNCHANGED <<core, late, faults>>,
             RelayUnchanged
      PROVE  TypeOK'
  BY <1>1, <1>6, <1>9 DEF TypeOK
<1>10. ASSUME Fault PROVE faults' \in 0..MaxFaults
  BY <1>1, <1>10, GatewayAssumption DEF Fault, TypeOK
<1>11. CASE ClaimSelect(p)
  <2>1. Batch \subseteq Events
    BY <1>1 DEF Batch, Claimable, TypeOK
  <2>2. [Idle EXCEPT !.pc = "claim", !.batch = Batch] \in Workers
    BY <2>1 DEF Workers, RelaySteps
  <2>3. worker' \in [Procs -> Workers]
    BY <1>1, <1>11, <2>2 DEF ClaimSelect, TypeOK
  <2> QED BY <1>8, <1>11, <2>3 DEF ClaimSelect
<1>12. CASE ClaimUpdate(p)
  <2>1. QueueType'
    BY <1>1, <1>12, ClaimFacts DEF ClaimUpdate
  <2>2. worker' \in [Procs -> Workers]
    BY <1>3, <1>12 DEF ClaimUpdate, RelaySteps
  <2> QED BY <1>9, <1>12, <2>1, <2>2 DEF ClaimUpdate
<1>13. ASSUME NEW e \in Events, NextRecord(p, e) PROVE TypeOK'
  <2> DEFINE next == [Idle EXCEPT !.pc = IF IsLocal(e) THEN "post" ELSE "terminal",
                                  !.batch = worker[p].batch \ {e}, !.record = e]
  <2>1. next \in Workers
    BY <1>2 DEF Workers, RelaySteps
  <2>2. worker' = [worker EXCEPT ![p] = next]
    BY <1>13 DEF NextRecord
  <2> HIDE DEF next
  <2>3. worker' \in [Procs -> Workers]
    BY <1>1, <2>1, <2>2 DEF TypeOK
  <2> QED BY <1>8, <1>13, <2>3 DEF NextRecord
<1>14. CASE PostAppends(p)
  <2>1. core' \subseteq Events
    BY <1>1, <1>2, <1>14 DEF PostAppends, TypeOK
  <2>2. worker' \in [Procs -> Workers]
    BY <1>3, <1>14 DEF PostAppends, RelaySteps
  <2> QED BY <1>1, <1>6, <1>7, <1>14, <2>1, <2>2 DEF PostAppends, TypeOK
<1>15. CASE PostConflict(p)
  BY <1>3, <1>8, <1>15 DEF PostConflict, RelaySteps
<1>16. CASE PostAcknowledged(p)
  <2>1. worker' \in [Procs -> Workers]
    BY <1>1, <1>16 DEF PostAcknowledged, TypeOK, Workers, RelaySteps, Acks
  <2> QED BY <1>8, <1>16, <2>1 DEF PostAcknowledged
<1>17. CASE ReconcileCore(p)
  <2>1. worker' \in [Procs -> Workers]
    BY <1>1, <1>17 DEF ReconcileCore, TypeOK, Workers, RelaySteps, Acks
  <2> QED BY <1>8, <1>17, <2>1 DEF ReconcileCore
<1>18. CASE MarkRead(p)
  <2>1. worker' \in [Procs -> Workers]
    BY <1>3, <1>4, <1>5, <1>18 DEF MarkRead, RelaySteps
  <2> QED BY <1>8, <1>18, <2>1 DEF MarkRead
<1>19. CASE MarkWrite(p)
  <2>1. worker[p].record \in DOMAIN queue
    BY <1>1, <1>19 DEF MarkWrite, WorkerConsistent, RecordSteps, RelaySteps
  <2>2. QueueType'
    BY <1>1, <1>2, <1>19, <2>1, SynchronizedFacts DEF MarkWrite
  <2> QED BY <1>4, <1>9, <1>19, <2>2 DEF MarkWrite
<1>20. CASE MarkFailed(p)
  <2>1. worker[p].record \in DOMAIN queue
    BY <1>1, <1>20 DEF MarkFailed, WorkerConsistent, RecordSteps, RelaySteps
  <2>2. QueueType'
    BY <1>1, <1>20, <2>1, FailureFacts DEF MarkFailed, States
  <2> QED BY <1>4, <1>9, <1>20, <2>2 DEF MarkFailed
<1>21. CASE PostFails(p)
  <2>1. worker' \in [Procs -> Workers]
    BY <1>3, <1>21 DEF PostFails, RelaySteps
  <2>2. late' \subseteq Events
    BY <1>1, <1>2, <1>21 DEF PostFails, TypeOK
  <2> QED BY <1>1, <1>6, <1>7, <1>10, <1>21, <2>1, <2>2 DEF PostFails, TypeOK
<1>22. CASE ReconcileFails(p)
  <2>1. worker' \in [Procs -> Workers]
    BY <1>3, <1>22 DEF ReconcileFails, RelaySteps
  <2> QED BY <1>1, <1>6, <1>7, <1>10, <1>22, <2>1 DEF ReconcileFails, TypeOK
<1>23. CASE RelayEscapes(p)
  BY <1>1, <1>5, <1>6, <1>7, <1>10, <1>23 DEF RelayEscapes, TypeOK
<1> QED BY <1>11, <1>12, <1>13, <1>14, <1>15, <1>16, <1>17, <1>18, <1>19, <1>20, <1>21,
           <1>22, <1>23 DEF RelayStep, RelayFault

(* Every step keeps the types. *)
LEMMA TypeStep ==
  ASSUME Inv, [Next]_vars
  PROVE  TypeOK'
<1> USE FillerTypes
<1>1. TypeOK /\ QueueType
  BY DEF Inv, TypeOK, QueueType
<1>2. CASE UNCHANGED vars
  BY <1>1, <1>2 DEF vars, TypeOK
<1>3. ASSUME NEW p \in Procs, Start(p) PROVE TypeOK'
  <2>1. QueueType'
    BY <1>1, <1>3, RecoverFacts DEF Start
  <2> QED BY <1>1, <1>3, <2>1 DEF Start, TypeOK, QueueType
<1>4. ASSUME NEW p \in Procs, Crash(p) PROVE TypeOK'
  <2>1. request' \in [Threads -> Requests]
    BY <1>1, <1>4 DEF Crash, TypeOK
  <2>2. worker' \in [Procs -> Workers]
    BY <1>1, <1>4 DEF Crash, TypeOK
  <2>3. faults' \in 0..MaxFaults
    BY <1>1, <1>4, GatewayAssumption DEF Crash, Fault, TypeOK
  <2> QED BY <1>1, <1>4, <2>1, <2>2, <2>3 DEF Crash, TypeOK, queueVars
<1>5. ASSUME NEW e \in Events, LateDelivery(e) PROVE TypeOK'
  BY <1>1, <1>5 DEF LateDelivery, TypeOK, queueVars, RelayUnchanged
<1> QED BY <1>2, <1>3, <1>4, <1>5, IngressType, RelayType DEF Next

-----------------------------------------------------------------------------
(* Safety for any number of processes.                                     *)

\* e is the local log's entry after the step.
LocalNext(e) == e.id \in DOMAIN local' /\ local'[e.id] = e

(* What one process knows stays true whatever the others do: entries, rows
   and Core's events are never taken back. *)
LEMMA NothingIsLost ==
  ASSUME Inv, [Next]_vars
  PROVE  /\ \A e \in Events : IsLocal(e) => LocalNext(e)
         /\ DOMAIN queue \subseteq DOMAIN queue'
         /\ core \subseteq core'
<1>1. TypeOK /\ QueueType
  BY DEF Inv, TypeOK, QueueType
<1>2. ASSUME UNCHANGED local PROVE \A e \in Events : IsLocal(e) => LocalNext(e)
  BY <1>2 DEF IsLocal, LocalNext
<1>3. ASSUME NEW t \in Threads, IngressStep(t)
      PROVE  /\ \A e \in Events : IsLocal(e) => LocalNext(e)
             /\ DOMAIN queue \subseteq DOMAIN queue'
             /\ core \subseteq core'
  <2>1. core' = core
    BY <1>3 DEF IngressStep, Submit, Lookup, EnsureCapacity, AppendLocal, FindRow,
                CountRows, InsertRow, RequestFails, IngressUnchanged
  <2>2. CASE InsertRow(t)
    <3>1. request[t].entry \in Events
      BY <1>1 DEF TypeOK, Requests
    <3>2. DOMAIN queue \subseteq DOMAIN queue'
      BY <1>1, <2>2, <3>1, InsertFacts DEF InsertRow
    <3> QED BY <1>2, <2>1, <2>2, <3>2 DEF InsertRow
  <2>3. CASE AppendLocal(t)
    <3> DEFINE x == request[t].event
    <3>1. CASE x.id \in DOMAIN local
      BY <1>2, <2>1, <2>3, <3>1 DEF AppendLocal, queueVars
    <3>2. CASE x.id \notin DOMAIN local
      <4>1. local' = Put(local, x.id, x)
        BY <2>3, <3>2 DEF AppendLocal
      <4>2. /\ DOMAIN local \subseteq DOMAIN local'
            /\ \A d \in DOMAIN local : local'[d] = local[d]
        BY <3>2, <4>1 DEF Put
      <4>3. \A e \in Events : IsLocal(e) => LocalNext(e)
        BY <4>2 DEF IsLocal, LocalNext
      <4> QED BY <2>1, <2>3, <4>3 DEF AppendLocal, queueVars
    <3> QED BY <3>1, <3>2
  <2>4. CASE ~InsertRow(t) /\ ~AppendLocal(t)
    <3>1. UNCHANGED <<queueVars, local>>
      BY <1>3, <2>4 DEF IngressStep, Submit, Lookup, EnsureCapacity, FindRow, CountRows,
                        RequestFails
    <3> QED BY <1>2, <2>1, <3>1 DEF queueVars
  <2> QED BY <2>2, <2>3, <2>4
<1>4. ASSUME NEW p \in Procs, RelayStep(p) \/ RelayFault(p)
      PROVE  /\ UNCHANGED local
             /\ DOMAIN queue \subseteq DOMAIN queue'
             /\ core \subseteq core'
  <2>1. UNCHANGED local /\ core \subseteq core'
    BY <1>4 DEF RelayStep, RelayFault, RelayUnchanged, ClaimSelect, ClaimUpdate, NextRecord,
                PostAppends, PostConflict, PostAcknowledged, ReconcileCore, MarkRead,
                MarkWrite, MarkFailed, PostFails, ReconcileFails, RelayEscapes
  <2>2. DOMAIN queue' = DOMAIN queue
    BY <1>4 DEF RelayStep, RelayFault, ClaimSelect, ClaimUpdate, NextRecord,
                PostAppends, PostConflict, PostAcknowledged, ReconcileCore, MarkRead,
                MarkWrite, MarkFailed, PostFails, ReconcileFails, RelayEscapes,
                queueVars, Claim, MarkSynchronized, MarkFailure
  <2> QED BY <2>1, <2>2
<1>5. ASSUME NEW p \in Procs, Start(p) \/ Crash(p)
      PROVE  UNCHANGED <<local, core>> /\ DOMAIN queue' = DOMAIN queue
  BY <1>5 DEF Start, Crash, RecoverInFlight, queueVars
<1>6. ASSUME NEW e \in Events, LateDelivery(e)
      PROVE  UNCHANGED <<local, queue>> /\ core \subseteq core'
  BY <1>6 DEF LateDelivery, queueVars, RelayUnchanged
<1>7. CASE UNCHANGED vars
  BY <1>2, <1>7 DEF vars
<1> QED BY <1>2, <1>3, <1>4, <1>5, <1>6, <1>7 DEF Next

(* Requests keep to the local log, and receipts are as good as the requests
   they answer. *)
LEMMA IngressConsistent ==
  ASSUME Inv, NEW t \in Threads, IngressStep(t)
  PROVE  /\ \A u \in Threads : RequestConsistent(u)'
         /\ NoSilentLoss'
<1> USE FillerTypes
<1>1. TypeOK /\ QueueType /\ request[t] \in Requests /\ RequestConsistent(t)
  BY DEF Inv, TypeOK, QueueType
<1>2. /\ \A e \in Events : IsLocal(e) => LocalNext(e)
      /\ DOMAIN queue \subseteq DOMAIN queue'
  <2>1. Next
    BY DEF Next
  <2> QED BY <2>1, NothingIsLost
<1>3. \A u \in Threads : request[u] \in Requests /\ RequestConsistent(u)
  BY <1>1 DEF Inv, TypeOK
<1>4. ASSUME NEW r \in Requests, request' = [request EXCEPT ![t] = r],
             r.pc \in {"select", "count", "insert"} =>
               LocalNext(r.entry) /\ r.entry.content = r.event.content
      PROVE  \A u \in Threads : RequestConsistent(u)'
  <2> SUFFICES ASSUME NEW u \in Threads PROVE RequestConsistent(u)'
    OBVIOUS
  <2>1. CASE u = t
    <3>1. request'[u] = r
      BY <1>1, <1>4, <2>1 DEF TypeOK
    <3> QED BY <1>4, <3>1 DEF RequestConsistent, IsLocal, LocalNext
  <2>2. CASE u # t
    <3>1. request'[u] = request[u]
      BY <1>1, <1>4, <2>2 DEF TypeOK
    <3>2. request[u].entry \in Events
      BY <1>3 DEF Requests
    <3> QED BY <1>2, <1>3, <3>1, <3>2 DEF RequestConsistent, IsLocal, LocalNext
  <2> QED BY <2>1, <2>2
<1>5. ASSUME UNCHANGED receipts PROVE NoSilentLoss'
  <2>1. \A r \in receipts : r[2] \in Events
    BY <1>1 DEF TypeOK
  <2> QED BY <1>2, <1>5, <2>1 DEF Inv, NoSilentLoss, IsLocal, LocalNext
<1>6. ASSUME Reject(t) PROVE (\A u \in Threads : RequestConsistent(u)') /\ NoSilentLoss'
  BY <1>4, <1>5, <1>6 DEF Reject, Free
<1>7. ASSUME Accept(t), request[t].pc \in {"select", "insert"},
             request[t].entry \in DOMAIN queue'
      PROVE (\A u \in Threads : RequestConsistent(u)') /\ NoSilentLoss'
  <2>1. \A u \in Threads : RequestConsistent(u)'
    BY <1>4, <1>7 DEF Accept, Free
  <2>2. /\ request[t].entry \in Events
        /\ IsLocal(request[t].entry)
        /\ request[t].entry.content = request[t].event.content
    BY <1>1, <1>7 DEF RequestConsistent, Requests
  <2>3. \A r \in receipts : r[2] \in Events
    BY <1>1 DEF TypeOK
  <2>4. \A r \in receipts : r[2].content = r[1] /\ LocalNext(r[2]) /\ r[2] \in DOMAIN queue'
    BY <1>2, <2>3 DEF Inv, NoSilentLoss, IsLocal, LocalNext
  <2>5. receipts' = receipts \cup {<<request[t].event.content, request[t].entry>>}
    BY <1>7 DEF Accept
  <2>6. LocalNext(request[t].entry)
    BY <1>2, <2>2
  <2> DEFINE new == <<request[t].event.content, request[t].entry>>
  <2>7. new[2].content = new[1] /\ LocalNext(new[2]) /\ new[2] \in DOMAIN queue'
    BY <1>7, <2>2, <2>6
  <2> HIDE DEF new
  <2>8. receipts' = receipts \cup {new}
    BY <2>5 DEF new
  <2>9. NoSilentLoss'
    BY <2>4, <2>7, <2>8 DEF NoSilentLoss, IsLocal, LocalNext
  <2> QED BY <2>1, <2>9
<1>8. ASSUME NEW step \in IngressSteps, IngressGoTo(t, step), UNCHANGED receipts,
             step \in {"select", "count", "insert"} =>
               request[t].pc \in {"select", "count", "insert"}
      PROVE  (\A u \in Threads : RequestConsistent(u)') /\ NoSilentLoss'
  <2> DEFINE r == [request[t] EXCEPT !.pc = step]
  <2>1. /\ r \in Requests /\ r.pc = step
        /\ r.entry = request[t].entry /\ r.event = request[t].event
        /\ request[t].entry \in Events
    BY <1>1 DEF Requests
  <2>2. request' = [request EXCEPT ![t] = r]
    BY <1>8 DEF IngressGoTo
  <2> HIDE DEF r
  <2>3. r.pc \in {"select", "count", "insert"} =>
          LocalNext(r.entry) /\ r.entry.content = r.event.content
    BY <1>1, <1>2, <1>8, <2>1 DEF RequestConsistent, IsLocal, LocalNext
  <2> QED BY <1>4, <1>5, <1>8, <2>1, <2>2, <2>3
<1>9. ASSUME NEW e \in Events, SyncEntry(t, e), LocalNext(e),
             e.content = request[t].event.content
      PROVE  (\A u \in Threads : RequestConsistent(u)') /\ NoSilentLoss'
  <2> DEFINE r == [request[t] EXCEPT !.pc = "select", !.entry = e]
  <2>1. r \in Requests /\ r.entry = e /\ r.event = request[t].event
    BY <1>1 DEF Requests, IngressSteps
  <2>2. request' = [request EXCEPT ![t] = r] /\ UNCHANGED receipts
    BY <1>1, <1>9 DEF SyncEntry, Requests
  <2> HIDE DEF r
  <2> QED BY <1>4, <1>5, <1>9, <2>1, <2>2
<1>10. ASSUME NEW d \in DOMAIN local, d = request[t].event.id,
              ReconcileExisting(t, local[d]), UNCHANGED local
       PROVE  (\A u \in Threads : RequestConsistent(u)') /\ NoSilentLoss'
  <2>1. local[d] \in Events
    BY <1>1 DEF TypeOK
  <2>2. CASE local[d].content = request[t].event.content
    <3>1. SyncEntry(t, local[d])
      BY <1>10, <2>2 DEF ReconcileExisting
    <3>2. local[d].id = d
      BY DEF Inv, LocalKeyed
    <3>3. LocalNext(local[d])
      BY <1>10, <3>2 DEF LocalNext
    <3> QED BY <1>9, <2>1, <2>2, <3>1, <3>3
  <2>3. CASE local[d].content # request[t].event.content
    BY <1>6, <1>10, <2>3 DEF ReconcileExisting
  <2> QED BY <2>2, <2>3
<1>11. ASSUME NEW e \in Events, Submit(t, e)
       PROVE  (\A u \in Threads : RequestConsistent(u)') /\ NoSilentLoss'
  <2> DEFINE r == [Free EXCEPT !.pc = "lookup", !.event = e]
  <2>1. r \in Requests /\ r.pc = "lookup"
    BY DEF Requests, IngressSteps
  <2>2. request' = [request EXCEPT ![t] = r] /\ UNCHANGED receipts
    BY <1>11 DEF Submit
  <2> HIDE DEF r
  <2> QED BY <1>4, <1>5, <2>1, <2>2
<1>12. CASE Lookup(t)
  <2>1. CASE request[t].event.id \in DOMAIN local
    BY <1>10, <1>12, <2>1 DEF Lookup
  <2>2. CASE request[t].event.id \notin DOMAIN local
    BY <1>8, <1>12, <2>2 DEF Lookup, IngressSteps
  <2> QED BY <2>1, <2>2
<1>13. CASE EnsureCapacity(t)
  BY <1>6, <1>8, <1>13 DEF EnsureCapacity, IngressSteps
<1>14. CASE AppendLocal(t)
  <2> DEFINE e == request[t].event
  <2>1. CASE e.id \in DOMAIN local
    BY <1>10, <1>14, <2>1 DEF AppendLocal
  <2>2. CASE e.id \notin DOMAIN local
    <3>1. local' = Put(local, e.id, e) /\ SyncEntry(t, e)
      BY <1>14, <2>2 DEF AppendLocal
    <3>2. e.id \in DOMAIN local' /\ local'[e.id] = e
      BY <3>1 DEF Put
    <3>3. e \in Events
      BY <1>1 DEF Requests
    <3> QED BY <1>9, <3>1, <3>2, <3>3 DEF LocalNext
  <2> QED BY <2>1, <2>2
<1>15. CASE FindRow(t)
  <2>1. CASE request[t].entry \in DOMAIN queue
    BY <1>2, <1>7, <1>15, <2>1 DEF FindRow
  <2>2. CASE request[t].entry \notin DOMAIN queue
    BY <1>8, <1>15, <2>2 DEF FindRow, IngressSteps
  <2> QED BY <2>1, <2>2
<1>16. CASE CountRows(t)
  BY <1>6, <1>8, <1>16 DEF CountRows, IngressSteps
<1>17. CASE InsertRow(t)
  <2>1. request[t].entry \in Events
    BY <1>1 DEF Requests
  <2>2. request[t].entry \in DOMAIN queue'
    BY <1>1, <1>17, <2>1, InsertFacts DEF InsertRow
  <2> QED BY <1>7, <1>17, <2>2 DEF InsertRow
<1>18. CASE RequestFails(t)
  BY <1>6, <1>18 DEF RequestFails
<1> QED BY <1>11, <1>12, <1>13, <1>14, <1>15, <1>16, <1>17, <1>18 DEF IngressStep

\* The local variables w fit the rows and Core's log after the step.
WorkerNext(w) ==
  /\ w.batch \subseteq DOMAIN queue'
  /\ w.pc \in RecordSteps => w.record \in DOMAIN queue'
  /\ w.pc \in {"answer", "mark", "write"} => w.record \in core'

(* A worker keeps to the rows, marks as SYNCHRONIZED what is in Core, and
   sends what is in the local log. *)
LEMMA RelayConsistent ==
  ASSUME Inv, NEW p \in Procs, RelayStep(p) \/ RelayFault(p)
  PROVE  /\ \A q \in Procs : WorkerConsistent(q)'
         /\ SynchronizedInCore'
         /\ QueueMatchesLocal'
<1>1. TypeOK /\ QueueType /\ worker[p] \in Workers /\ WorkerConsistent(p)
  BY DEF Inv, TypeOK, QueueType
<1>2. DOMAIN queue \subseteq DOMAIN queue' /\ core \subseteq core'
  <2>1. Next
    BY DEF Next
  <2> QED BY <2>1, NothingIsLost
<1>3. /\ worker[p].record \in Events /\ worker[p].ack \in Acks
      /\ Idle.batch = {} /\ Idle.pc = "idle" /\ "idle" \notin RecordSteps
  BY <1>1 DEF Workers, Idle, RecordSteps, RelaySteps
<1>4. ASSUME NEW w, worker' = [worker EXCEPT ![p] = w], WorkerNext(w)
      PROVE  \A q \in Procs : WorkerConsistent(q)'
  <2> SUFFICES ASSUME NEW q \in Procs PROVE WorkerConsistent(q)'
    OBVIOUS
  <2>1. CASE q = p
    <3>1. worker'[q] = w
      BY <1>1, <1>4, <2>1 DEF TypeOK
    <3> QED BY <1>4, <3>1 DEF WorkerNext, WorkerConsistent
  <2>2. CASE q # p
    <3>1. worker'[q] = worker[q] /\ WorkerConsistent(q)
      BY <1>1, <1>4, <2>2 DEF TypeOK, Inv
    <3> QED BY <1>2, <3>1 DEF WorkerConsistent
  <2> QED BY <2>1, <2>2
<1>5. ASSUME NEW step, RelayGoTo(p, step),
             step \in RecordSteps => worker[p].pc \in RecordSteps,
             step \in {"answer", "mark", "write"} => worker[p].record \in core'
      PROVE  \A q \in Procs : WorkerConsistent(q)'
  <2> DEFINE w == [worker[p] EXCEPT !.pc = step]
  <2>1. w.pc = step /\ w.batch = worker[p].batch /\ w.record = worker[p].record
    BY <1>1 DEF Workers
  <2>2. worker' = [worker EXCEPT ![p] = w]
    BY <1>5 DEF RelayGoTo
  <2> HIDE DEF w
  <2>3. WorkerNext(w)
    BY <1>1, <1>2, <1>5, <2>1 DEF WorkerNext, WorkerConsistent
  <2> QED BY <1>4, <2>2, <2>3
<1>6. ASSUME Advance(p) PROVE \A q \in Procs : WorkerConsistent(q)'
  BY <1>5, <1>6 DEF Advance, RecordSteps, RelaySteps
<1>7. ASSUME Escape(p) PROVE \A q \in Procs : WorkerConsistent(q)'
  <2>1. WorkerNext(Idle)
    BY <1>3 DEF WorkerNext
  <2> QED BY <1>4, <1>7, <2>1 DEF Escape
<1>8. ASSUME UNCHANGED queue PROVE SynchronizedInCore'
  BY <1>2, <1>8 DEF Inv, SynchronizedInCore
<1>9. ASSUME UNCHANGED <<late, local>>, DOMAIN queue' = DOMAIN queue
      PROVE  QueueMatchesLocal'
  BY <1>9 DEF Inv, QueueMatchesLocal, IsLocal
<1>10. ASSUME \A q \in Procs : WorkerConsistent(q)', UNCHANGED <<queueVars, late>>,
              RelayUnchanged
       PROVE  /\ \A q \in Procs : WorkerConsistent(q)'
              /\ SynchronizedInCore'
              /\ QueueMatchesLocal'
  BY <1>8, <1>9, <1>10 DEF queueVars, RelayUnchanged
<1>11. CASE ClaimSelect(p)
  <2> DEFINE w == [Idle EXCEPT !.pc = "claim", !.batch = Batch]
  <2>1. w.pc = "claim" /\ w.batch = Batch
    BY DEF Idle
  <2>2. worker' = [worker EXCEPT ![p] = w]
    BY <1>11 DEF ClaimSelect
  <2> HIDE DEF w
  <2>3. WorkerNext(w)
    BY <1>2, <2>1 DEF WorkerNext, Batch, Claimable, RecordSteps
  <2> QED BY <1>4, <1>10, <1>11, <2>2, <2>3 DEF ClaimSelect
<1>12. CASE ClaimUpdate(p)
  <2>1. \A q \in Procs : WorkerConsistent(q)'
    BY <1>5, <1>12 DEF ClaimUpdate, RecordSteps
  <2>2. /\ DOMAIN queue' = DOMAIN queue
        /\ \A j \in DOMAIN queue :
             queue'[j].state = "IN_FLIGHT" \/ queue'[j] = queue[j]
    BY <1>1, <1>12, ClaimFacts DEF ClaimUpdate
  <2>3. SynchronizedInCore'
    BY <1>2, <2>2 DEF Inv, SynchronizedInCore
  <2> QED BY <1>9, <1>12, <2>1, <2>2, <2>3 DEF ClaimUpdate, RelayUnchanged
<1>13. ASSUME NEW e \in Events, NextRecord(p, e)
       PROVE  /\ \A q \in Procs : WorkerConsistent(q)'
              /\ SynchronizedInCore'
              /\ QueueMatchesLocal'
  <2> DEFINE w == [Idle EXCEPT !.pc = IF IsLocal(e) THEN "post" ELSE "terminal",
                               !.batch = worker[p].batch \ {e}, !.record = e]
  <2>1. /\ w.pc \in {"post", "terminal"} /\ w.batch = worker[p].batch \ {e}
        /\ w.record = e
    BY DEF Idle
  <2>2. worker' = [worker EXCEPT ![p] = w] /\ e \in worker[p].batch
    BY <1>13 DEF NextRecord
  <2> HIDE DEF w
  <2>3. WorkerNext(w)
    BY <1>1, <1>2, <2>1, <2>2 DEF WorkerNext, WorkerConsistent
  <2> QED BY <1>4, <1>10, <1>13, <2>2, <2>3 DEF NextRecord
<1>14. CASE PostAppends(p)
  <2>1. worker[p].record \in core' /\ worker[p].pc \in RecordSteps
    BY <1>14 DEF PostAppends, RecordSteps, RelaySteps
  <2>2. \A q \in Procs : WorkerConsistent(q)'
    BY <1>5, <1>14, <2>1 DEF PostAppends
  <2> QED BY <1>10, <1>14, <2>2 DEF PostAppends
<1>15. CASE PostConflict(p)
  <2>1. \A q \in Procs : WorkerConsistent(q)'
    BY <1>5, <1>15 DEF PostConflict, RecordSteps, RelaySteps
  <2> QED BY <1>10, <1>15, <2>1 DEF PostConflict
<1>16. ASSUME NEW a, worker' = [worker EXCEPT ![p].pc = "mark", ![p].ack = a],
              worker[p].pc \in RecordSteps, worker[p].record \in core'
       PROVE  \A q \in Procs : WorkerConsistent(q)'
  <2> DEFINE w == [worker[p] EXCEPT !.pc = "mark", !.ack = a]
  <2>1. w.pc = "mark" /\ w.batch = worker[p].batch /\ w.record = worker[p].record
    BY <1>1 DEF Workers
  <2>2. worker' = [worker EXCEPT ![p] = w]
    BY <1>1, <1>16 DEF Workers
  <2> HIDE DEF w
  <2>3. WorkerNext(w)
    BY <1>1, <1>2, <1>16, <2>1 DEF WorkerNext, WorkerConsistent
  <2> QED BY <1>4, <2>2, <2>3
<1>17. CASE PostAcknowledged(p)
  <2>1. worker[p].pc \in RecordSteps /\ worker[p].record \in core'
    BY <1>1, <1>17 DEF PostAcknowledged, WorkerConsistent, RecordSteps, RelaySteps
  <2> QED BY <1>10, <1>16, <1>17, <2>1 DEF PostAcknowledged
<1>18. CASE ReconcileCore(p)
  <2>1. worker[p].pc \in RecordSteps
    BY <1>18 DEF ReconcileCore, RecordSteps, RelaySteps
  <2>2. CASE worker[p].record \in core
    BY <1>2, <1>10, <1>16, <1>18, <2>1, <2>2 DEF ReconcileCore
  <2>3. CASE worker[p].record \notin core
    BY <1>5, <1>10, <1>18, <2>1, <2>3 DEF ReconcileCore, RelayGoTo
  <2> QED BY <2>2, <2>3
<1>19. CASE MarkRead(p)
  <2>1. worker[p].pc \in RecordSteps /\ worker[p].record \in core'
    BY <1>1, <1>2, <1>19 DEF MarkRead, WorkerConsistent, RecordSteps, RelaySteps
  <2>2. \A q \in Procs : WorkerConsistent(q)'
    BY <1>5, <1>6, <1>7, <1>19, <2>1 DEF MarkRead
  <2> QED BY <1>10, <1>19, <2>2 DEF MarkRead
<1>20. CASE MarkWrite(p)
  <2> DEFINE k == worker[p].record
  <2>1. k \in DOMAIN queue /\ k \in core
    BY <1>1, <1>20 DEF MarkWrite, WorkerConsistent, RecordSteps, RelaySteps
  <2>2. /\ DOMAIN queue' = DOMAIN queue
        /\ \A j \in DOMAIN queue : j # k => queue'[j] = queue[j]
    BY <1>1, <1>3, <1>20, <2>1, SynchronizedFacts DEF MarkWrite
  <2>3. SynchronizedInCore'
    BY <1>2, <2>1, <2>2 DEF Inv, SynchronizedInCore
  <2> QED BY <1>6, <1>9, <1>20, <2>2, <2>3 DEF MarkWrite, RelayUnchanged
<1>21. CASE MarkFailed(p)
  <2> DEFINE k == worker[p].record
             s == IF worker[p].pc = "retryable" THEN "RETRYABLE_FAILURE"
                                                ELSE "TERMINAL_FAILURE"
  <2>1. k \in DOMAIN queue
    BY <1>1, <1>21 DEF MarkFailed, WorkerConsistent, RecordSteps, RelaySteps
  <2>2. s \in States /\ s # "SYNCHRONIZED"
    BY DEF States
  <2>3. MarkFailure(k, s)
    BY <1>21 DEF MarkFailed
  <2> HIDE DEF k, s
  <2>4. /\ DOMAIN queue' = DOMAIN queue
        /\ \A j \in DOMAIN queue : queue'[j].state = s \/ queue'[j] = queue[j]
    BY <1>1, <2>1, <2>2, <2>3, FailureFacts
  <2>5. SynchronizedInCore'
    BY <1>2, <2>2, <2>4 DEF Inv, SynchronizedInCore
  <2> QED BY <1>6, <1>9, <1>21, <2>4, <2>5 DEF MarkFailed, RelayUnchanged
<1>22. CASE PostFails(p)
  <2>1. worker[p].pc \in RecordSteps
    BY <1>22 DEF PostFails, RecordSteps, RelaySteps
  <2>2. \A q \in Procs : WorkerConsistent(q)'
    BY <1>5, <1>22, <2>1 DEF PostFails
  <2>3. late' \subseteq late \cup {worker[p].record}
    BY <1>22 DEF PostFails
  <2>4. worker[p].record \in DOMAIN queue
    BY <1>1, <2>1 DEF WorkerConsistent
  <2>5. UNCHANGED <<queue, local>>
    BY <1>22 DEF PostFails, queueVars, RelayUnchanged
  <2>6. QueueMatchesLocal'
    BY <2>3, <2>4, <2>5 DEF Inv, QueueMatchesLocal, IsLocal
  <2> QED BY <1>8, <2>2, <2>5, <2>6
<1>23. CASE ReconcileFails(p)
  <2>1. worker[p].pc \in RecordSteps
    BY <1>23 DEF ReconcileFails, RecordSteps, RelaySteps
  <2>2. \A q \in Procs : WorkerConsistent(q)'
    BY <1>5, <1>23, <2>1 DEF ReconcileFails
  <2> QED BY <1>10, <1>23, <2>2 DEF ReconcileFails
<1>24. CASE RelayEscapes(p)
  BY <1>7, <1>10, <1>24 DEF RelayEscapes
<1> QED BY <1>11, <1>12, <1>13, <1>14, <1>15, <1>17, <1>18, <1>19, <1>20, <1>21, <1>22,
           <1>23, <1>24 DEF RelayStep, RelayFault

(* Every step keeps the invariant, action by action. *)
LEMMA InvStep ==
  ASSUME Inv, [Next]_vars
  PROVE  Inv'
<1>1. TypeOK /\ QueueType
  BY DEF Inv, TypeOK, QueueType
<1>2. TypeOK'
  BY TypeStep
<1>3. /\ \A e \in Events : IsLocal(e) => LocalNext(e)
      /\ DOMAIN queue \subseteq DOMAIN queue'
      /\ core \subseteq core'
  BY NothingIsLost
<1>4. ASSUME UNCHANGED receipts PROVE NoSilentLoss'
  <2>1. \A r \in receipts : r[2] \in Events
    BY <1>1 DEF TypeOK
  <2> QED BY <1>3, <1>4, <2>1 DEF Inv, NoSilentLoss, IsLocal, LocalNext
<1>5. ASSUME UNCHANGED request PROVE \A t \in Threads : RequestConsistent(t)'
  <2>1. \A t \in Threads : request[t].entry \in Events
    BY <1>1 DEF TypeOK, Requests
  <2> QED BY <1>3, <1>5, <2>1 DEF Inv, RequestConsistent, IsLocal, LocalNext
<1>6. ASSUME UNCHANGED worker PROVE \A p \in Procs : WorkerConsistent(p)'
  BY <1>3, <1>6 DEF Inv, WorkerConsistent
<1>7. ASSUME UNCHANGED local PROVE LocalKeyed'
  BY <1>7 DEF Inv, LocalKeyed
<1>8. ASSUME \A e \in DOMAIN queue' \cup late' : e \in Events /\ IsLocal(e)
      PROVE  QueueMatchesLocal'
  BY <1>3, <1>8 DEF QueueMatchesLocal, IsLocal, LocalNext
<1>9. \A e \in DOMAIN queue \cup late : e \in Events /\ IsLocal(e)
  BY <1>1 DEF Inv, QueueMatchesLocal, TypeOK
<1>10. CASE UNCHANGED vars
  BY <1>2, <1>3, <1>4, <1>5, <1>6, <1>7, <1>8, <1>9, <1>10
     DEF vars, Inv, SynchronizedInCore
<1>11. ASSUME NEW t \in Threads, IngressStep(t) PROVE Inv'
  <2>1. /\ \A u \in Threads : RequestConsistent(u)'
        /\ NoSilentLoss'
    BY <1>11, IngressConsistent
  <2>2. UNCHANGED <<worker, core, late>>
    BY <1>11 DEF IngressStep, Submit, Lookup, EnsureCapacity, AppendLocal, FindRow,
                 CountRows, InsertRow, RequestFails, IngressUnchanged
  <2>3. CASE InsertRow(t)
    <3> DEFINE k == request[t].entry
    <3>1. k \in Events /\ IsLocal(k)
      BY <1>1, <2>3 DEF InsertRow, Inv, RequestConsistent, TypeOK, Requests
    <3>2. Insert(k) /\ UNCHANGED local
      BY <2>3 DEF InsertRow
    <3> HIDE DEF k
    <3>3. /\ DOMAIN queue' = DOMAIN queue \cup {k}
          /\ \A j \in DOMAIN queue : queue'[j] = queue[j]
          /\ k \notin DOMAIN queue => queue'[k].state = "PENDING"
      BY <1>1, <3>1, <3>2, InsertFacts
    <3>4. SynchronizedInCore'
      BY <1>3, <3>3 DEF Inv, SynchronizedInCore
    <3>5. QueueMatchesLocal'
      BY <1>8, <1>9, <2>2, <3>1, <3>3
    <3> QED BY <1>2, <1>6, <1>7, <2>1, <2>2, <3>2, <3>4, <3>5 DEF Inv
  <2>4. CASE ~InsertRow(t)
    <3>1. UNCHANGED queue
      BY <1>11, <2>4 DEF IngressStep, Submit, Lookup, EnsureCapacity, AppendLocal, FindRow,
                         CountRows, RequestFails, queueVars
    <3>2. SynchronizedInCore' /\ QueueMatchesLocal'
      BY <1>3, <1>8, <1>9, <2>2, <3>1 DEF Inv, SynchronizedInCore
    <3>3. LocalKeyed'
      <4>1. CASE UNCHANGED local
        BY <1>7, <4>1
      <4>2. CASE ~UNCHANGED local
        <5>1. AppendLocal(t)
          BY <1>11, <4>2 DEF IngressStep, Submit, Lookup, EnsureCapacity, FindRow,
                             CountRows, InsertRow, RequestFails
        <5>2. local' = Put(local, request[t].event.id, request[t].event)
          BY <4>2, <5>1 DEF AppendLocal
        <5> QED BY <5>2 DEF Inv, LocalKeyed, Put
      <4> QED BY <4>1, <4>2
    <3> QED BY <1>2, <1>6, <2>1, <2>2, <3>2, <3>3 DEF Inv
  <2> QED BY <2>3, <2>4
<1>12. ASSUME NEW p \in Procs, RelayStep(p) \/ RelayFault(p) PROVE Inv'
  <2>1. /\ \A q \in Procs : WorkerConsistent(q)'
        /\ SynchronizedInCore'
        /\ QueueMatchesLocal'
    BY <1>12, RelayConsistent
  <2>2. RelayUnchanged
    BY <1>12 DEF RelayStep, RelayFault, ClaimSelect, ClaimUpdate, NextRecord, PostAppends,
                 PostConflict, PostAcknowledged, ReconcileCore, MarkRead, MarkWrite,
                 MarkFailed, PostFails, ReconcileFails, RelayEscapes
  <2> QED BY <1>2, <1>4, <1>5, <1>7, <2>1, <2>2 DEF Inv, RelayUnchanged
<1>13. ASSUME NEW p \in Procs, Start(p) PROVE Inv'
  <2>1. /\ DOMAIN queue' = DOMAIN queue
        /\ \A j \in DOMAIN queue :
             queue'[j].state = "SYNCHRONIZED" => queue[j].state = "SYNCHRONIZED"
    BY <1>1, <1>13, RecoverFacts DEF Start
  <2>2. SynchronizedInCore'
    BY <1>3, <2>1 DEF Inv, SynchronizedInCore
  <2>3. QueueMatchesLocal'
    BY <1>8, <1>9, <1>13, <2>1 DEF Start
  <2> QED BY <1>2, <1>4, <1>5, <1>6, <1>7, <1>13, <2>2, <2>3 DEF Start, Inv
<1>14. ASSUME NEW p \in Procs, Crash(p) PROVE Inv'
  <2>1. UNCHANGED <<queue, late, local, receipts>>
    BY <1>14 DEF Crash, queueVars
  <2>2. \A t \in Threads : request'[t] = Free \/ request'[t] = request[t]
    BY <1>14 DEF Crash
  <2>3. Free.pc = "free" /\ \A t \in Threads : request[t].entry \in Events
    BY <1>1 DEF Free, TypeOK, Requests
  <2>4. \A t \in Threads : RequestConsistent(t)'
    BY <1>3, <2>2, <2>3 DEF Inv, RequestConsistent, IsLocal, LocalNext
  <2>5. \A q \in Procs : worker'[q] = Idle \/ worker'[q] = worker[q]
    BY <1>1, <1>14 DEF Crash, TypeOK
  <2>6. Idle.batch = {} /\ Idle.pc = "idle" /\ "idle" \notin RecordSteps
    BY DEF Idle, RecordSteps, RelaySteps
  <2>7. \A q \in Procs : WorkerConsistent(q)'
    BY <1>3, <2>5, <2>6 DEF Inv, WorkerConsistent
  <2> QED BY <1>2, <1>3, <1>4, <1>7, <1>8, <1>9, <2>1, <2>4, <2>7
             DEF Inv, SynchronizedInCore
<1>15. ASSUME NEW e \in Events, LateDelivery(e) PROVE Inv'
  <2>1. UNCHANGED <<queue, local, receipts, request, worker>> /\ late' \subseteq late
    BY <1>15 DEF LateDelivery, queueVars, RelayUnchanged
  <2> QED BY <1>2, <1>3, <1>4, <1>5, <1>6, <1>7, <1>8, <1>9, <2>1
             DEF Inv, SynchronizedInCore
<1> QED BY <1>10, <1>11, <1>12, <1>13, <1>14, <1>15 DEF Next

(* The initial states satisfy the invariant. *)
LEMMA InvInit == Init => Inv
<1> SUFFICES ASSUME Init PROVE Inv
  OBVIOUS
<1>1. TypeOK
  BY FillerTypes, GatewayAssumption DEF Init, QueueInit, TypeOK
<1>2. \A t \in Threads : RequestConsistent(t)
  BY DEF Init, RequestConsistent, Free
<1>3. \A p \in Procs : WorkerConsistent(p)
  BY DEF Init, WorkerConsistent, Idle, RecordSteps, RelaySteps
<1> QED BY <1>1, <1>2, <1>3 DEF Init, QueueInit, Inv, LocalKeyed, SynchronizedInCore,
                                NoSilentLoss, QueueMatchesLocal

(* The invariant holds in every reachable state. *)
THEOREM InductiveInvariant == Spec => []Inv
<1> QED BY InvInit, InvStep, PTL DEF Spec

(* Type correctness. *)
THEOREM TypeCorrect == Spec => []TypeOK
<1>1. Inv => TypeOK
  BY DEF Inv
<1> QED BY <1>1, InductiveInvariant, PTL

(* A SYNCHRONIZED row's very event is in Core. *)
THEOREM SynchronizedMeansInCore == Spec => []SynchronizedInCore
<1>1. Inv => SynchronizedInCore
  BY DEF Inv
<1> QED BY <1>1, InductiveInvariant, PTL

(* A receipt is never taken back. *)
THEOREM ReceiptsHold == Spec => []NoSilentLoss
<1>1. Inv => NoSilentLoss
  BY DEF Inv
<1> QED BY <1>1, InductiveInvariant, PTL

(* Nothing but local history is queued or sent. *)
THEOREM OnlyLocalHistory == Spec => []QueueMatchesLocal
<1>1. Inv => QueueMatchesLocal
  BY DEF Inv
<1> QED BY <1>1, InductiveInvariant, PTL

-----------------------------------------------------------------------------
(* One process: SYNCHRONIZED is final.                                     *)

(* The queue as the relay steps and the ingress steps leave it. *)
LEMMA RowsStep ==
  ASSUME AloneInv, [Next]_vars
  PROVE  \A e \in DOMAIN queue :
           queue[e].state = "SYNCHRONIZED" => queue'[e] = queue[e]
<1>1. Inv /\ TypeOK /\ QueueType
  BY DEF AloneInv, Inv, TypeOK, QueueType
<1>2. ASSUME NEW t \in Threads, IngressStep(t)
      PROVE  \A e \in DOMAIN queue : queue'[e] = queue[e]
  <2>1. CASE InsertRow(t)
    <3>1. request[t].entry \in Events
      BY <1>1 DEF TypeOK, Requests
    <3> QED BY <1>1, <2>1, <3>1, InsertFacts DEF InsertRow
  <2>2. CASE ~InsertRow(t)
    BY <1>2, <2>2 DEF IngressStep, Submit, Lookup, EnsureCapacity, AppendLocal, FindRow,
                      CountRows, RequestFails, queueVars
  <2> QED BY <2>1, <2>2
<1>3. ASSUME NEW p \in Procs, RelayStep(p) \/ RelayFault(p)
      PROVE  \A e \in DOMAIN queue :
               queue[e].state = "SYNCHRONIZED" => queue'[e] = queue[e]
  <2>1. WorkerConsistent(p) /\ ClaimExclusive(p) /\ worker[p] \in Workers
    BY <1>1 DEF AloneInv, Inv, TypeOK
  <2>2. CASE ClaimUpdate(p)
    <3>1. \A e \in worker[p].batch : queue[e].state # "SYNCHRONIZED"
      BY <2>1, <2>2 DEF ClaimUpdate, ClaimExclusive, Claimable
    <3> QED BY <1>1, <2>2, <3>1, ClaimFacts DEF ClaimUpdate
  <2>3. CASE MarkWrite(p)
    <3>1. /\ worker[p].record \in DOMAIN queue /\ worker[p].ack \in Acks
          /\ queue[worker[p].record].state = "IN_FLIGHT"
      BY <2>1, <2>3 DEF MarkWrite, ClaimExclusive, WorkerConsistent, RecordSteps,
                        RelaySteps, Workers
    <3> QED BY <1>1, <2>3, <3>1, SynchronizedFacts DEF MarkWrite
  <2>4. CASE MarkFailed(p)
    <3>1. /\ worker[p].record \in DOMAIN queue
          /\ queue[worker[p].record].state = "IN_FLIGHT"
      BY <2>1, <2>4 DEF MarkFailed, ClaimExclusive, WorkerConsistent, RecordSteps,
                        RelaySteps
    <3> QED BY <1>1, <2>4, <3>1, FailureFacts DEF MarkFailed, States
  <2>5. CASE ~ClaimUpdate(p) /\ ~MarkWrite(p) /\ ~MarkFailed(p)
    <3>1. UNCHANGED queueVars
      BY <1>3, <2>5 DEF RelayStep, RelayFault, ClaimSelect, NextRecord, PostAppends,
                        PostConflict, PostAcknowledged, ReconcileCore, MarkRead,
                        PostFails, ReconcileFails, RelayEscapes
    <3> QED BY <3>1 DEF queueVars
  <2> QED BY <2>2, <2>3, <2>4, <2>5
<1>4. ASSUME NEW p \in Procs, Start(p)
      PROVE  \A e \in DOMAIN queue :
               queue[e].state = "SYNCHRONIZED" => queue'[e] = queue[e]
  BY <1>1, <1>4, RecoverFacts DEF Start
<1>5. ASSUME NEW p \in Procs, Crash(p) PROVE UNCHANGED queue
  BY <1>5 DEF Crash, queueVars
<1>6. ASSUME NEW e \in Events, LateDelivery(e) PROVE UNCHANGED queue
  BY <1>6 DEF LateDelivery, queueVars
<1>7. CASE UNCHANGED vars
  BY <1>7 DEF vars
<1> QED BY <1>2, <1>3, <1>4, <1>5, <1>6, <1>7 DEF Next

\* The claim that w stands for is exclusive after the step.
ExclusiveNext(w) ==
  /\ w.pc = "idle" => w.batch = {}
  /\ w.pc = "claim" => w.batch \subseteq Claimable'
  /\ w.pc # "claim" => \A e \in w.batch : queue'[e].state = "IN_FLIGHT"
  /\ w.pc \in RecordSteps =>
       queue'[w.record].state = "IN_FLIGHT" /\ w.record \notin w.batch

(* A worker step keeps its claim exclusive. *)
LEMMA RelayExclusive ==
  ASSUME AloneInv, NEW p \in Procs, up[p], RelayStep(p) \/ RelayFault(p)
  PROVE  ClaimExclusive(p)'
<1>1. /\ TypeOK /\ QueueType /\ worker[p] \in Workers
      /\ WorkerConsistent(p) /\ ClaimExclusive(p)
  BY DEF AloneInv, Inv, TypeOK, QueueType
<1>2. up' = up
  BY DEF RelayStep, RelayFault, RelayUnchanged, ClaimSelect, ClaimUpdate, NextRecord,
         PostAppends, PostConflict, PostAcknowledged, ReconcileCore, MarkRead, MarkWrite,
         MarkFailed, PostFails, ReconcileFails, RelayEscapes
<1>3. ASSUME NEW w, worker' = [worker EXCEPT ![p] = w], ExclusiveNext(w)
      PROVE  ClaimExclusive(p)'
  <2>1. worker'[p] = w
    BY <1>1, <1>3 DEF TypeOK
  <2> QED BY <1>2, <1>3, <2>1 DEF ClaimExclusive, ExclusiveNext
<1>4. ASSUME NEW step, RelayGoTo(p, step), step # "claim",
             step = "idle" => worker[p].batch = {},
             \A e \in worker[p].batch : queue'[e].state = "IN_FLIGHT",
             step \in RecordSteps =>
               worker[p].pc \in RecordSteps /\ UNCHANGED queue
      PROVE  ClaimExclusive(p)'
  <2> DEFINE w == [worker[p] EXCEPT !.pc = step]
  <2>1. w.pc = step /\ w.batch = worker[p].batch /\ w.record = worker[p].record
    BY <1>1 DEF Workers
  <2>2. worker' = [worker EXCEPT ![p] = w]
    BY <1>4 DEF RelayGoTo
  <2> HIDE DEF w
  <2>3. ExclusiveNext(w)
    BY <1>1, <1>4, <2>1 DEF ExclusiveNext, ClaimExclusive
  <2> QED BY <1>3, <2>2, <2>3
<1>5. ASSUME Advance(p), \A e \in worker[p].batch : queue'[e].state = "IN_FLIGHT"
      PROVE  ClaimExclusive(p)'
  <2>1. "idle" \notin RecordSteps /\ "next" \notin RecordSteps
    BY DEF RecordSteps, RelaySteps
  <2> QED BY <1>4, <1>5, <2>1 DEF Advance
<1>6. ASSUME Escape(p) PROVE ClaimExclusive(p)'
  <2>1. ExclusiveNext(Idle)
    BY DEF ExclusiveNext, Idle, RecordSteps, RelaySteps
  <2> QED BY <1>3, <1>6, <2>1 DEF Escape
<1>7. ASSUME worker[p].pc \in RecordSteps, UNCHANGED queueVars
      PROVE  /\ UNCHANGED queue
             /\ \A e \in worker[p].batch : queue'[e].state = "IN_FLIGHT"
  BY <1>1, <1>7 DEF ClaimExclusive, RecordSteps, queueVars
<1>8. ASSUME worker[p].pc \in RecordSteps, UNCHANGED queueVars,
             NEW step \in RecordSteps, RelayGoTo(p, step)
      PROVE  ClaimExclusive(p)'
  <2>1. step # "claim" /\ step # "idle"
    BY DEF RecordSteps, RelaySteps
  <2> QED BY <1>4, <1>7, <1>8, <2>1
<1>9. CASE ClaimSelect(p)
  <2> DEFINE w == [Idle EXCEPT !.pc = "claim", !.batch = Batch]
  <2>1. w.pc = "claim" /\ w.batch = Batch
    BY DEF Idle
  <2>2. worker' = [worker EXCEPT ![p] = w]
    BY <1>9 DEF ClaimSelect
  <2> HIDE DEF w
  <2>3. Batch \subseteq Claimable /\ Claimable' = Claimable
    BY <1>9 DEF ClaimSelect, Batch, Claimable, queueVars
  <2>4. ExclusiveNext(w)
    BY <2>1, <2>3 DEF ExclusiveNext, RecordSteps
  <2> QED BY <1>3, <2>2, <2>4
<1>10. CASE ClaimUpdate(p)
  <2>1. \A e \in worker[p].batch : queue'[e].state = "IN_FLIGHT"
    BY <1>1, <1>10, ClaimFacts DEF ClaimUpdate, WorkerConsistent
  <2> QED BY <1>4, <1>10, <2>1 DEF ClaimUpdate, RecordSteps
<1>11. ASSUME NEW e \in Events, NextRecord(p, e) PROVE ClaimExclusive(p)'
  <2> DEFINE w == [Idle EXCEPT !.pc = IF IsLocal(e) THEN "post" ELSE "terminal",
                               !.batch = worker[p].batch \ {e}, !.record = e]
  <2>1. /\ w.pc \in {"post", "terminal"} /\ w.batch = worker[p].batch \ {e}
        /\ w.record = e
    BY DEF Idle
  <2>2. /\ worker' = [worker EXCEPT ![p] = w] /\ e \in worker[p].batch
        /\ worker[p].pc = "next" /\ UNCHANGED queue
    BY <1>11 DEF NextRecord, queueVars
  <2> HIDE DEF w
  <2>3. ExclusiveNext(w)
    BY <1>1, <2>1, <2>2 DEF ExclusiveNext, ClaimExclusive
  <2> QED BY <1>3, <2>2, <2>3
<1>12. CASE PostAppends(p)
  BY <1>8, <1>12 DEF PostAppends, RecordSteps, RelaySteps
<1>13. CASE PostConflict(p)
  BY <1>8, <1>13 DEF PostConflict, RecordSteps, RelaySteps
<1>14. ASSUME NEW a, worker' = [worker EXCEPT ![p].pc = "mark", ![p].ack = a],
              worker[p].pc \in RecordSteps, UNCHANGED queueVars
       PROVE  ClaimExclusive(p)'
  <2> DEFINE w == [worker[p] EXCEPT !.pc = "mark", !.ack = a]
  <2>1. w.pc = "mark" /\ w.batch = worker[p].batch /\ w.record = worker[p].record
    BY <1>1 DEF Workers
  <2>2. worker' = [worker EXCEPT ![p] = w]
    BY <1>1, <1>14 DEF Workers
  <2> HIDE DEF w
  <2>3. ExclusiveNext(w)
    BY <1>1, <1>7, <1>14, <2>1 DEF ExclusiveNext, ClaimExclusive
  <2> QED BY <1>3, <2>2, <2>3
<1>15. CASE PostAcknowledged(p)
  BY <1>14, <1>15 DEF PostAcknowledged, RecordSteps, RelaySteps
<1>16. CASE ReconcileCore(p)
  <2>1. worker[p].pc \in RecordSteps /\ UNCHANGED queueVars
    BY <1>16 DEF ReconcileCore, RecordSteps, RelaySteps
  <2>2. CASE worker[p].record \in core
    BY <1>14, <1>16, <2>1, <2>2 DEF ReconcileCore
  <2>3. CASE worker[p].record \notin core
    <3>1. RelayGoTo(p, "terminal") /\ "terminal" \in RecordSteps
      BY <1>16, <2>3 DEF ReconcileCore, RelayGoTo, RecordSteps, RelaySteps
    <3> QED BY <1>8, <2>1, <3>1
  <2> QED BY <2>2, <2>3
<1>17. CASE MarkRead(p)
  <2>1. worker[p].pc \in RecordSteps /\ UNCHANGED queueVars /\ "write" \in RecordSteps
    BY <1>17 DEF MarkRead, RecordSteps, RelaySteps
  <2> QED BY <1>5, <1>6, <1>7, <1>8, <1>17, <2>1 DEF MarkRead
<1>18. CASE MarkWrite(p)
  <2>1. /\ worker[p].record \in DOMAIN queue /\ worker[p].ack \in Acks
        /\ worker[p].record \notin worker[p].batch
        /\ \A e \in worker[p].batch : e \in DOMAIN queue /\ queue[e].state = "IN_FLIGHT"
    BY <1>1, <1>18 DEF MarkWrite, ClaimExclusive, WorkerConsistent, RecordSteps,
                       RelaySteps, Workers
  <2>2. \A e \in worker[p].batch : queue'[e].state = "IN_FLIGHT"
    BY <1>1, <1>18, <2>1, SynchronizedFacts DEF MarkWrite
  <2> QED BY <1>5, <1>18, <2>2 DEF MarkWrite
<1>19. CASE MarkFailed(p)
  <2>1. /\ worker[p].record \in DOMAIN queue
        /\ worker[p].record \notin worker[p].batch
        /\ \A e \in worker[p].batch : e \in DOMAIN queue /\ queue[e].state = "IN_FLIGHT"
    BY <1>1, <1>19 DEF MarkFailed, ClaimExclusive, WorkerConsistent, RecordSteps,
                       RelaySteps
  <2>2. \A e \in worker[p].batch : queue'[e].state = "IN_FLIGHT"
    BY <1>1, <1>19, <2>1, FailureFacts DEF MarkFailed, States
  <2> QED BY <1>5, <1>19, <2>2 DEF MarkFailed
<1>20. CASE PostFails(p)
  BY <1>8, <1>20 DEF PostFails, RecordSteps, RelaySteps
<1>21. CASE ReconcileFails(p)
  BY <1>8, <1>21 DEF ReconcileFails, RecordSteps, RelaySteps
<1>22. CASE RelayEscapes(p)
  BY <1>6, <1>22 DEF RelayEscapes
<1> QED BY <1>9, <1>10, <1>11, <1>12, <1>13, <1>15, <1>16, <1>17, <1>18, <1>19, <1>20,
           <1>21, <1>22 DEF RelayStep, RelayFault

(* With one process every step keeps its worker's claim exclusive. *)
LEMMA AloneStep ==
  ASSUME Alone, AloneInv, [Next]_vars
  PROVE  AloneInv'
<1>1. Inv /\ TypeOK /\ QueueType
  BY DEF AloneInv, Inv, TypeOK, QueueType
<1>2. Inv'
  BY <1>1, InvStep
<1>3. SUFFICES ASSUME NEW p \in Procs PROVE ClaimExclusive(p)'
  BY <1>2 DEF AloneInv
<1>4. /\ ClaimExclusive(p) /\ WorkerConsistent(p)
      /\ \A q \in Procs : q = p
  BY DEF AloneInv, Inv, Alone
<1>5. ASSUME UNCHANGED <<up, worker>>, DOMAIN queue \subseteq DOMAIN queue',
             \A e \in DOMAIN queue : queue'[e] = queue[e]
      PROVE  ClaimExclusive(p)'
  <2>1. worker[p].batch \subseteq Claimable => worker[p].batch \subseteq Claimable'
    BY <1>4, <1>5 DEF Claimable, WorkerConsistent
  <2> QED BY <1>4, <1>5, <2>1 DEF ClaimExclusive, WorkerConsistent
<1>6. CASE UNCHANGED vars
  BY <1>5, <1>6 DEF vars
<1>7. ASSUME NEW t \in Threads, IngressStep(t) PROVE ClaimExclusive(p)'
  <2>1. UNCHANGED <<up, worker>>
    BY <1>7 DEF IngressStep, Submit, Lookup, EnsureCapacity, AppendLocal, FindRow,
                CountRows, InsertRow, RequestFails, IngressUnchanged
  <2>2. CASE InsertRow(t)
    <3>1. request[t].entry \in Events
      BY <1>1 DEF TypeOK, Requests
    <3>2. /\ DOMAIN queue \subseteq DOMAIN queue'
          /\ \A e \in DOMAIN queue : queue'[e] = queue[e]
      BY <1>1, <2>2, <3>1, InsertFacts DEF InsertRow
    <3> QED BY <1>5, <2>1, <3>2
  <2>3. CASE ~InsertRow(t)
    <3>1. UNCHANGED queue
      BY <1>7, <2>3 DEF IngressStep, Submit, Lookup, EnsureCapacity, AppendLocal, FindRow,
                        CountRows, RequestFails, queueVars
    <3> QED BY <1>5, <2>1, <3>1
  <2> QED BY <2>2, <2>3
<1>8. ASSUME NEW q \in Procs, RelayStep(q) \/ RelayFault(q) PROVE ClaimExclusive(p)'
  <2>1. q = p
    BY <1>4
  <2>2. up[p] \/ worker[p].pc # "idle"
    BY <1>8, <2>1 DEF RelayStep, RelayFault, ClaimSelect, ClaimUpdate, NextRecord,
                      PostAppends, PostConflict, PostAcknowledged, ReconcileCore, MarkRead,
                      MarkWrite, MarkFailed, PostFails, ReconcileFails, RelayEscapes
  <2>3. up[p]
    BY <1>4, <2>2 DEF ClaimExclusive
  <2> QED BY <1>8, <2>1, <2>3, RelayExclusive
<1>9. ASSUME NEW q \in Procs, Start(q) PROVE ClaimExclusive(p)'
  <2>1. /\ q = p /\ ~up[p] /\ UNCHANGED worker
        /\ worker[p].pc = "idle" /\ worker[p].batch = {}
    BY <1>4, <1>9 DEF Start, ClaimExclusive
  <2> QED BY <2>1 DEF ClaimExclusive, RecordSteps, RelaySteps
<1>10. ASSUME NEW q \in Procs, Crash(q) PROVE ClaimExclusive(p)'
  <2>1. worker'[p] = Idle
    BY <1>1, <1>4, <1>10 DEF Crash, TypeOK
  <2> QED BY <2>1 DEF ClaimExclusive, Idle, RecordSteps, RelaySteps
<1>11. ASSUME NEW e \in Events, LateDelivery(e) PROVE ClaimExclusive(p)'
  BY <1>5, <1>11 DEF LateDelivery, queueVars, RelayUnchanged
<1> QED BY <1>6, <1>7, <1>8, <1>9, <1>10, <1>11 DEF Next

(* A Gateway process that is alone on its queue never takes SYNCHRONIZED
   back. *)
THEOREM SynchronizedStaysFinal ==
  ASSUME Alone
  PROVE  Spec => SynchronizedIsFinal
<1>1. Init => AloneInv
  <2>1. Init => \A p \in Procs : ClaimExclusive(p)
    BY DEF Init, ClaimExclusive, Idle, RecordSteps, RelaySteps
  <2> QED BY <2>1, InvInit DEF AloneInv
<1>2. AloneInv /\ [Next]_vars => AloneInv'
  BY AloneStep
<1>3. AloneInv /\ [Next]_vars =>
        [\A e \in DOMAIN queue :
           queue[e].state = "SYNCHRONIZED" => queue'[e] = queue[e]]_vars
  BY RowsStep
<1> QED BY <1>1, <1>2, <1>3, PTL DEF Spec, SynchronizedIsFinal

-----------------------------------------------------------------------------
(* One process: the backlog is bounded.                                    *)

(* The sets that the bound counts are finite. *)
LEMMA CountedSets ==
  ASSUME IsFiniteSet(DOMAIN queue)
  PROVE  /\ IsFiniteSet(Threads) /\ IsFiniteSet(Backlog) /\ IsFiniteSet(Inserting)
         /\ Cardinality(Threads) \in Nat /\ Cardinality(Backlog) \in Nat
         /\ Cardinality(Inserting) \in Nat
         /\ Cardinality(Inserting) <= Cardinality(Threads)
<1>1. IsFiniteSet(Threads)
  BY GatewayAssumption, FS_Product DEF Threads
<1>2. Backlog \subseteq DOMAIN queue /\ Inserting \subseteq Threads
  BY DEF Backlog, Inserting
<1>3. IsFiniteSet(Backlog) /\ IsFiniteSet(Inserting)
      /\ Cardinality(Inserting) <= Cardinality(Threads)
  BY <1>1, <1>2, FS_Subset
<1> QED BY <1>1, <1>3, FS_CardinalityType

(* A step that adds no row and lets no request go on to its insert. *)
LEMMA RoomKept ==
  ASSUME RoomCounted, DOMAIN queue' = DOMAIN queue,
         \A e \in DOMAIN queue : queue[e].state = "SYNCHRONIZED" => queue'[e] = queue[e],
         Inserting' \subseteq Inserting
  PROVE  RoomCounted'
<1>1. IsFiniteSet(DOMAIN queue) /\ IsFiniteSet(DOMAIN queue')
  BY DEF RoomCounted, OverrunBounded
<1>2. Backlog' \subseteq Backlog
  BY DEF Backlog
<1>3. /\ IsFiniteSet(Backlog) /\ IsFiniteSet(Inserting)
      /\ Cardinality(Threads) \in Nat /\ Cardinality(Backlog) \in Nat
      /\ Cardinality(Inserting) \in Nat
  BY <1>1, CountedSets
<1>4. /\ IsFiniteSet(Backlog') /\ IsFiniteSet(Inserting')
      /\ Cardinality(Backlog') <= Cardinality(Backlog)
      /\ Cardinality(Inserting') <= Cardinality(Inserting)
  BY <1>2, <1>3, FS_Subset
<1>5. Cardinality(Backlog') \in Nat /\ Cardinality(Inserting') \in Nat
  BY <1>4, FS_CardinalityType
<1>6. Cardinality(Backlog) + Cardinality(Inserting) < MaxItems + Cardinality(Threads)
  BY DEF RoomCounted, OverrunBounded
<1>7. Cardinality(Backlog') + Cardinality(Inserting') < MaxItems + Cardinality(Threads)
  BY <1>3, <1>4, <1>5, <1>6, QueueAssumption
<1> QED BY <1>1, <1>7 DEF RoomCounted, OverrunBounded, Threads

(* An ingress step keeps the count of the room. *)
LEMMA RoomIngress ==
  ASSUME AloneInv, RoomCounted, NEW t \in Threads, IngressStep(t)
  PROVE  RoomCounted'
<1>1. /\ TypeOK /\ QueueType /\ request \in [Threads -> Requests]
      /\ request[t] \in Requests /\ request[t].entry \in Events
  BY DEF AloneInv, Inv, TypeOK, QueueType, Requests
<1>2. /\ IsFiniteSet(DOMAIN queue)
      /\ Cardinality(Backlog) + Cardinality(Inserting) < MaxItems + Cardinality(Threads)
  BY DEF RoomCounted, OverrunBounded
<1>3. /\ IsFiniteSet(Threads) /\ IsFiniteSet(Backlog) /\ IsFiniteSet(Inserting)
      /\ Cardinality(Threads) \in Nat /\ Cardinality(Backlog) \in Nat
      /\ Cardinality(Inserting) \in Nat
  BY <1>2, CountedSets
<1>4. ASSUME NEW r, request' = [request EXCEPT ![t] = r], r.pc # "insert"
      PROVE  Inserting' \subseteq Inserting \ {t}
  BY <1>1, <1>4 DEF Inserting
<1>5. ASSUME NEW step, step # "insert", IngressGoTo(t, step)
      PROVE  Inserting' \subseteq Inserting \ {t}
  <2>1. [request[t] EXCEPT !.pc = step].pc = step
    BY <1>1 DEF Requests
  <2> QED BY <1>4, <1>5, <2>1 DEF IngressGoTo
<1>6. ASSUME Reject(t) \/ Accept(t) PROVE Inserting' \subseteq Inserting \ {t}
  <2>1. Free.pc # "insert"
    BY DEF Free
  <2> QED BY <1>4, <1>6, <2>1 DEF Reject, Accept
<1>7. ASSUME NEW e, SyncEntry(t, e) PROVE Inserting' \subseteq Inserting \ {t}
  <2> DEFINE r == [request[t] EXCEPT !.pc = "select", !.entry = e]
  <2>1. r.pc = "select"
    BY <1>1 DEF Requests
  <2>2. request' = [request EXCEPT ![t] = r]
    BY <1>1, <1>7 DEF SyncEntry, Requests
  <2> HIDE DEF r
  <2> QED BY <1>4, <2>1, <2>2
<1>8. ASSUME NEW e, ReconcileExisting(t, e) PROVE Inserting' \subseteq Inserting \ {t}
  BY <1>6, <1>7, <1>8 DEF ReconcileExisting
<1>9. ASSUME UNCHANGED queue, Inserting' \subseteq Inserting \ {t} PROVE RoomCounted'
  BY <1>9, RoomKept
<1>10. ASSUME NEW e \in Events, Submit(t, e) PROVE RoomCounted'
  <2>1. [Free EXCEPT !.pc = "lookup", !.event = e].pc # "insert"
    BY DEF Free
  <2> QED BY <1>4, <1>9, <1>10, <2>1 DEF Submit, queueVars
<1>11. CASE Lookup(t)
  BY <1>5, <1>8, <1>9, <1>11 DEF Lookup, queueVars
<1>12. CASE EnsureCapacity(t)
  BY <1>5, <1>6, <1>9, <1>12 DEF EnsureCapacity, queueVars
<1>13. CASE AppendLocal(t)
  BY <1>7, <1>8, <1>9, <1>13 DEF AppendLocal, queueVars
<1>14. CASE FindRow(t)
  BY <1>5, <1>6, <1>9, <1>14 DEF FindRow, queueVars
<1>15. CASE RequestFails(t)
  BY <1>6, <1>9, <1>15 DEF RequestFails, queueVars
<1>16. CASE CountRows(t)
  <2>1. CASE HasCapacity
    <3>1. queue' = queue /\ Cardinality(Backlog) < MaxItems
      BY <1>16, <2>1 DEF CountRows, HasCapacity, queueVars
    <3>2. IsFiniteSet(DOMAIN queue') /\ Backlog' = Backlog
      BY <1>2, <3>1 DEF Backlog
    <3>3. Inserting' \subseteq Threads
      BY DEF Inserting, Threads
    <3>4. /\ IsFiniteSet(Inserting')
          /\ Cardinality(Inserting') <= Cardinality(Threads)
      BY <1>3, <3>3, FS_Subset
    <3>5. Cardinality(Inserting') \in Nat
      BY <3>4, FS_CardinalityType
    <3>6. Cardinality(Backlog) + Cardinality(Inserting') < MaxItems + Cardinality(Threads)
      BY <1>3, <3>1, <3>4, <3>5, QueueAssumption
    <3> QED BY <3>2, <3>6 DEF RoomCounted, OverrunBounded, Threads
  <2>2. CASE ~HasCapacity
    BY <1>6, <1>9, <1>16, <2>2 DEF CountRows, queueVars
  <2> QED BY <2>1, <2>2
<1>17. CASE InsertRow(t)
  <2> DEFINE k == request[t].entry
  <2>1. t \in Inserting /\ Inserting' \subseteq Inserting \ {t}
    BY <1>6, <1>17 DEF InsertRow, Inserting
  <2>2. /\ DOMAIN queue' = DOMAIN queue \cup {k}
        /\ \A j \in DOMAIN queue : queue'[j] = queue[j]
    BY <1>1, <1>17, InsertFacts DEF InsertRow
  <2>3. IsFiniteSet(DOMAIN queue')
    BY <1>2, <2>2, FS_AddElement
  <2>4. Backlog' \subseteq Backlog \cup {k}
    BY <2>2 DEF Backlog
  <2>5. /\ IsFiniteSet(Backlog \cup {k})
        /\ Cardinality(Backlog \cup {k}) <= Cardinality(Backlog) + 1
        /\ Cardinality(Backlog \cup {k}) \in Nat
    <3>1. /\ IsFiniteSet(Backlog \cup {k})
          /\ Cardinality(Backlog \cup {k}) \in {Cardinality(Backlog), Cardinality(Backlog) + 1}
      BY <1>3, FS_AddElement
    <3> QED BY <1>3, <3>1
  <2>6. /\ Cardinality(Backlog') \in Nat
        /\ Cardinality(Backlog') <= Cardinality(Backlog \cup {k})
    BY <2>4, <2>5, FS_Subset, FS_CardinalityType
  <2>7. /\ IsFiniteSet(Inserting \ {t})
        /\ Cardinality(Inserting \ {t}) = Cardinality(Inserting) - 1
    BY <1>3, <2>1, FS_RemoveElement
  <2>8. /\ Cardinality(Inserting') \in Nat
        /\ Cardinality(Inserting') <= Cardinality(Inserting \ {t})
    BY <2>1, <2>7, FS_Subset, FS_CardinalityType
  <2>9. Cardinality(Backlog') + Cardinality(Inserting') < MaxItems + Cardinality(Threads)
    BY <1>2, <1>3, <2>5, <2>6, <2>7, <2>8, QueueAssumption
  <2> QED BY <2>3, <2>9 DEF RoomCounted, OverrunBounded, Threads
<1> QED BY <1>10, <1>11, <1>12, <1>13, <1>14, <1>15, <1>16, <1>17 DEF IngressStep

(* Every step keeps the count of the room. *)
LEMMA RoomStep ==
  ASSUME AloneInv, RoomCounted, [Next]_vars
  PROVE  RoomCounted'
<1>1. TypeOK /\ QueueType
  BY DEF AloneInv, Inv, TypeOK, QueueType
<1>2. \A e \in DOMAIN queue : queue[e].state = "SYNCHRONIZED" => queue'[e] = queue[e]
  BY RowsStep
<1>3. ASSUME DOMAIN queue' = DOMAIN queue, UNCHANGED request PROVE RoomCounted'
  <2>1. Inserting' = Inserting
    BY <1>3 DEF Inserting, Threads
  <2> QED BY <1>2, <1>3, <2>1, RoomKept
<1>4. ASSUME NEW p \in Procs, RelayStep(p) \/ RelayFault(p) PROVE RoomCounted'
  <2>1. UNCHANGED request
    BY <1>4 DEF RelayStep, RelayFault, RelayUnchanged, ClaimSelect, ClaimUpdate,
                NextRecord, PostAppends, PostConflict, PostAcknowledged, ReconcileCore,
                MarkRead, MarkWrite, MarkFailed, PostFails, ReconcileFails, RelayEscapes
  <2>2. DOMAIN queue' = DOMAIN queue
    BY <1>4 DEF RelayStep, RelayFault, ClaimSelect, ClaimUpdate, Claim,
                NextRecord, PostAppends, PostConflict, PostAcknowledged, ReconcileCore,
                MarkRead, MarkWrite, MarkSynchronized, MarkFailed, MarkFailure, PostFails,
                ReconcileFails, RelayEscapes, queueVars
  <2> QED BY <1>3, <2>1, <2>2
<1>5. ASSUME NEW p \in Procs, Start(p) PROVE RoomCounted'
  BY <1>1, <1>3, <1>5, RecoverFacts DEF Start
<1>6. ASSUME NEW p \in Procs, Crash(p) PROVE RoomCounted'
  <2>1. queue' = queue /\ request' = [t \in Threads |-> IF t[1] = p THEN Free ELSE request[t]]
    BY <1>6 DEF Crash, queueVars
  <2>2. Inserting' \subseteq Inserting
    BY <2>1 DEF Inserting, Free, Threads
  <2> QED BY <2>1, <2>2, RoomKept
<1>7. ASSUME NEW e \in Events, LateDelivery(e) PROVE RoomCounted'
  BY <1>3, <1>7 DEF LateDelivery, queueVars, RelayUnchanged
<1>8. CASE UNCHANGED vars
  BY <1>3, <1>8 DEF vars
<1> QED BY <1>4, <1>5, <1>6, <1>7, <1>8, RoomIngress DEF Next

(* While one process uses the queue, its backlog and the rows that requests
   are about to insert (sync_queue.py 117-149) exceed max_items by less than
   the requests that can count it at the same time. *)
THEOREM OverrunStaysBounded ==
  ASSUME Alone
  PROVE  Spec => []OverrunBounded
<1>1. Init => AloneInv /\ RoomCounted
  <2> SUFFICES ASSUME Init PROVE AloneInv /\ RoomCounted
    OBVIOUS
  <2>1. \A p \in Procs : ClaimExclusive(p)
    BY DEF Init, ClaimExclusive, Idle, RecordSteps, RelaySteps
  <2>2. DOMAIN queue = {} /\ Backlog = {} /\ Inserting = {}
    BY DEF Init, QueueInit, Backlog, Inserting, Free
  <2>3. IsFiniteSet(DOMAIN queue) /\ Cardinality(Backlog) = 0 /\ Cardinality(Inserting) = 0
    BY <2>2, FS_EmptySet
  <2>4. Cardinality(Threads) \in Nat
    BY <2>3, CountedSets
  <2>5. RoomCounted
    BY <2>3, <2>4, QueueAssumption DEF RoomCounted, OverrunBounded
  <2> QED BY <2>1, <2>5, InvInit DEF AloneInv
<1>2. AloneInv /\ RoomCounted /\ [Next]_vars => AloneInv' /\ RoomCounted'
  BY AloneStep, RoomStep
<1>3. RoomCounted => OverrunBounded
  BY DEF RoomCounted
<1> QED BY <1>1, <1>2, <1>3, PTL DEF Spec
=============================================================================
