----------------------------- MODULE SyncQueue -----------------------------
(***************************************************************************)
(* SyncQueue (ets/runtime/sync_queue.py): the durable queue between the    *)
(* local log of a Gateway or Edge and its upstream.  One SQLite row per    *)
(* idempotency key; rows are never deleted.  Each operator below is one    *)
(* SQL statement or one transaction, the grain at which the callers of the *)
(* queue interleave: the queue reads before its transaction starts.        *)
(*                                                                         *)
(* A Gateway derives the key from the committed event's identity and hash, *)
(* so the event stands for its key and its payload.  Timestamps, attempts, *)
(* error texts and the sync_meta table only feed status pages.  Every row  *)
(* has one unit of payload_bytes, which makes the byte bound the item      *)
(* bound.                                                                  *)
(***************************************************************************)
EXTENDS Naturals, FiniteSets

CONSTANTS MaxItems,     \* max_items
          BatchLimit    \* the limit of claim_batch

ASSUME QueueAssumption == MaxItems \in Nat \ {0} /\ BatchLimit \in Nat \ {0}

VARIABLES queue,        \* the rows, by idempotency key
          next_id       \* the next AUTOINCREMENT id

States == {"PENDING", "IN_FLIGHT", "RETRYABLE_FAILURE", "TERMINAL_FAILURE",
           "SYNCHRONIZED"}

\* An acknowledgement hash: Core accepts an event once and then always
\* reports it as already present, so the status tells two hashes apart.
Acks == {"none", "accepted", "already_present"}

Rows == [id : Nat, state : States, ack : Acks]

\* The function f with key k set to v.
Put(f, k, v) == [x \in DOMAIN f \cup {k} |-> IF x = k THEN v ELSE f[x]]

QueueInit ==
  /\ queue = [k \in {} |-> 0]
  /\ next_id = 1

Settled(k) == queue[k].state \in {"SYNCHRONIZED", "TERMINAL_FAILURE"}

\* The rows that _capacity_usage counts.
Backlog == {k \in DOMAIN queue : queue[k].state # "SYNCHRONIZED"}

\* Mutant: the limit is taken as the last value that leaves room.
HasCapacityPlusOne == Cardinality(Backlog) <= MaxItems

HasCapacity == Cardinality(Backlog) < MaxItems

-----------------------------------------------------------------------------

\* The INSERT of enqueue.  An existing row has the same key, hence the same
\* content: the IntegrityError branch returns it.
Insert(k) ==
  IF k \in DOMAIN queue
    THEN UNCHANGED <<queue, next_id>>
    ELSE /\ queue' = Put(queue, k, [id |-> next_id, state |-> "PENDING",
                                    ack |-> "none"])
         /\ next_id' = next_id + 1

\* Mutant: retryable rows wait for somebody to reset them.
ClaimablePendingOnly == {k \in DOMAIN queue : queue[k].state = "PENDING"}

Claimable ==
  {k \in DOMAIN queue : queue[k].state \in {"PENDING", "RETRYABLE_FAILURE"}}

\* The SELECT of claim_batch: the oldest claimable rows.
Batch ==
  {k \in Claimable :
     Cardinality({j \in Claimable : queue[j].id < queue[k].id}) < BatchLimit}

\* The UPDATEs of claim_batch, in one transaction, whatever the states are now.
Claim(keys) ==
  /\ queue' = [k \in DOMAIN queue |->
                 IF k \in keys THEN [queue[k] EXCEPT !.state = "IN_FLIGHT"]
                               ELSE queue[k]]
  /\ UNCHANGED next_id

\* Mutant: a state value that is not one of SyncState's is stored.
MarkFailureUnknown(k, state) ==
  /\ queue' = [queue EXCEPT ![k].state = "FAILED"]
  /\ UNCHANGED next_id

\* mark_retryable and mark_terminal.
MarkFailure(k, state) ==
  /\ queue' = [queue EXCEPT ![k].state = state]
  /\ UNCHANGED next_id

\* The UPDATE of mark_synchronized.
MarkSynchronized(k, ack) ==
  /\ queue' = [queue EXCEPT ![k].state = "SYNCHRONIZED", ![k].ack = ack]
  /\ UNCHANGED next_id

\* Mutant: recovery resets every row that is not a terminal failure.
RecoverAll ==
  /\ queue' = [k \in DOMAIN queue |->
                 IF queue[k].state # "TERMINAL_FAILURE"
                   THEN [queue[k] EXCEPT !.state = "RETRYABLE_FAILURE"]
                   ELSE queue[k]]
  /\ UNCHANGED next_id

\* _recover_in_flight, at every opening of the database.
RecoverInFlight ==
  /\ queue' = [k \in DOMAIN queue |->
                 IF queue[k].state = "IN_FLIGHT"
                   THEN [queue[k] EXCEPT !.state = "RETRYABLE_FAILURE"]
                   ELSE queue[k]]
  /\ UNCHANGED next_id

=============================================================================
