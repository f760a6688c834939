---------------------------- MODULE GatewaySync ----------------------------
(***************************************************************************)
(* From a source to ETS Core through a Gateway: the ingress requests       *)
(* (ets/gateway/ingress.py), the local SQLite log, the SyncQueue, the      *)
(* relay worker (core_relay.py), its HTTPS client (core_relay_http.py) and *)
(* the append endpoint of Core.                                            *)
(*                                                                         *)
(* A Gateway process serves several requests on threads while its worker   *)
(* thread drains the queue.  The local log and the queue are on disk and   *)
(* survive the process.  A new process may start before the old one has    *)
(* stopped (a revision rollout), so Procs may have more than one member.   *)
(***************************************************************************)
EXTENDS SyncQueue

CONSTANTS Procs,              \* Gateway processes on the same state directory
          Slots,              \* concurrent requests of a process
          Ids,                \* stable event identities, one per source item
          Contents, Stamps,   \* content hash and time of receipt of a capture
          MaxFaults,          \* bound: crashes and failed requests
          Escapes             \* may other exceptions leave the relay client?

ASSUME GatewayAssumption ==
  /\ MaxFaults \in Nat
  /\ Escapes \in BOOLEAN
  /\ Ids # {} /\ Contents # {} /\ Stamps # {}
  /\ IsFiniteSet(Procs) /\ IsFiniteSet(Slots)

VARIABLES
  local,      \* the local log: the committed event of each identity
  core,       \* the events in Core's log
  late,       \* requests that timed out and are still under way to Core
  up,         \* up[p]: process p is running
  request,    \* request[t]: the local variables of an ingress request
  worker,     \* worker[p]: the local variables of run_once
  receipts,   \* history: what the sources were told, <<content, entry>>
  faults      \* faults so far

vars == <<queue, next_id, local, core, late, up, request, worker, receipts, faults>>
queueVars == <<queue, next_id>>

Threads == Procs \X Slots

\* An event's hash covers all three parts; a source that sends an item again
\* gives it the same id and, unless the item changed, the same content.
Events == [id : Ids, content : Contents, stamp : Stamps]
AnyEvent == CHOOSE e \in Events : TRUE

IngressSteps == {"lookup", "capacity", "append", "select", "count", "insert"}
Requests == [pc : {"free"} \cup IngressSteps, event : Events, entry : Events]
Free == [pc |-> "free", event |-> AnyEvent, entry |-> AnyEvent]

RelaySteps == {"claim", "next", "post", "answer", "reconcile", "mark", "write",
               "retryable", "terminal"}
RecordSteps == RelaySteps \ {"claim", "next"}
Workers == [pc : {"idle"} \cup RelaySteps, batch : SUBSET Events,
            record : Events, ack : Acks]
Idle == [pc |-> "idle", batch |-> {}, record |-> AnyEvent, ack |-> "none"]

CoreIds == {e.id : e \in core}

\* e is the local log's entry for its identity.
IsLocal(e) == e.id \in DOMAIN local /\ local[e.id] = e

TypeOK ==
  /\ DOMAIN queue \subseteq Events /\ queue \in [DOMAIN queue -> Rows]
  /\ next_id \in Nat
  /\ DOMAIN local \subseteq Ids /\ local \in [DOMAIN local -> Events]
  /\ core \subseteq Events /\ late \subseteq Events
  /\ up \in [Procs -> BOOLEAN]
  /\ request \in [Threads -> Requests]
  /\ worker \in [Procs -> Workers]
  /\ receipts \subseteq Contents \X Events
  /\ faults \in 0..MaxFaults

\* Core may hold an event of a Gateway whose disk has since been replaced.
Init ==
  /\ QueueInit
  /\ local = [i \in {} |-> AnyEvent]
  /\ core \in {{}} \cup {{e} : e \in Events}
  /\ late = {}
  /\ up = [p \in Procs |-> FALSE]
  /\ request = [t \in Threads |-> Free]
  /\ worker = [p \in Procs |-> Idle]
  /\ receipts = {}
  /\ faults = 0

Fault == faults < MaxFaults /\ faults' = faults + 1

-----------------------------------------------------------------------------
(* Ingress: ingest_json, ingest_syslog and ingest_otlp come down to        *)
(* _commit_capture.                                                        *)

IngressGoTo(t, step) == request' = [request EXCEPT ![t].pc = step]

\* Any exception: the request is over and nothing is promised.
Reject(t) == request' = [request EXCEPT ![t] = Free] /\ UNCHANGED receipts

\* The receipt of _ensure_sync with sync_queued true.
Accept(t) ==
  /\ request' = [request EXCEPT ![t] = Free]
  /\ receipts' = receipts \cup {<<request[t].event.content, request[t].entry>>}

SyncEntry(t, entry) ==
  /\ request' = [request EXCEPT ![t].pc = "select", ![t].entry = entry]
  /\ UNCHANGED receipts

\* Mutant: the content of the existing entry is not compared.
ReconcileAnyContent(t, entry) == SyncEntry(t, entry)

\* _reconcile_existing: the identity is taken, by this item or by another.
ReconcileExisting(t, entry) ==
  IF entry.content = request[t].event.content
    THEN SyncEntry(t, entry)
    ELSE Reject(t)

IngressUnchanged == UNCHANGED <<core, late, up, worker, faults>>

Submit(t, e) ==
  /\ up[t[1]]
  /\ request[t].pc = "free"
  /\ request' = [request EXCEPT ![t] = [Free EXCEPT !.pc = "lookup", !.event = e]]
  /\ UNCHANGED <<queueVars, local, receipts>>
  /\ IngressUnchanged

Lookup(t) ==
  LET d == request[t].event.id IN
  /\ request[t].pc = "lookup"
  /\ IF d \in DOMAIN local
       THEN ReconcileExisting(t, local[d])
       ELSE IngressGoTo(t, "capacity") /\ UNCHANGED receipts
  /\ UNCHANGED <<queueVars, local>>
  /\ IngressUnchanged

EnsureCapacity(t) ==
  /\ request[t].pc = "capacity"
  /\ IF HasCapacity
       THEN IngressGoTo(t, "append") /\ UNCHANGED receipts
       ELSE Reject(t)                          \* GatewayBackpressureError
  /\ UNCHANGED <<queueVars, local>>
  /\ IngressUnchanged

\* Mutant: after DuplicateEventError the new capture is queued, not the entry.
AppendLocalQueuesCapture(t) ==
  LET e == request[t].event IN
  /\ request[t].pc = "append"
  /\ SyncEntry(t, e)
  /\ local' = IF e.id \in DOMAIN local THEN local ELSE Put(local, e.id, e)
  /\ UNCHANGED queueVars
  /\ IngressUnchanged

\* DuplicateEventError is followed by a lookup of the entry, which is for ever.
AppendLocal(t) ==
  LET e == request[t].event IN
  /\ request[t].pc = "append"
  /\ IF e.id \in DOMAIN local
       THEN ReconcileExisting(t, local[e.id]) /\ UNCHANGED local
       ELSE SyncEntry(t, e) /\ local' = Put(local, e.id, e)
  /\ UNCHANGED queueVars
  /\ IngressUnchanged

FindRow(t) ==
  /\ request[t].pc = "select"
  /\ IF request[t].entry \in DOMAIN queue
       THEN Accept(t)
       ELSE IngressGoTo(t, "count") /\ UNCHANGED receipts
  /\ UNCHANGED <<queueVars, local>>
  /\ IngressUnchanged

CountRows(t) ==
  /\ request[t].pc = "count"
  /\ IF HasCapacity
       THEN IngressGoTo(t, "insert") /\ UNCHANGED receipts
       ELSE Reject(t)                          \* GatewayPartialCommitError
  /\ UNCHANGED <<queueVars, local>>
  /\ IngressUnchanged

InsertRow(t) ==
  /\ request[t].pc = "insert"
  /\ Insert(request[t].entry)
  /\ Accept(t)
  /\ UNCHANGED local
  /\ IngressUnchanged

\* A database error, or the source goes away.
RequestFails(t) ==
  /\ request[t].pc # "free"
  /\ Fault
  /\ Reject(t)
  /\ UNCHANGED <<queueVars, local, core, late, up, worker>>

-----------------------------------------------------------------------------
(* The relay worker: run_once and, for each record, relay.                 *)

RelayGoTo(p, step) == worker' = [worker EXCEPT ![p].pc = step]

\* On to the next record of the batch, or to the end of run_once.
Advance(p) ==
  RelayGoTo(p, IF worker[p].batch = {} THEN "idle" ELSE "next")

\* An exception that run_once does not catch: the rest of the batch is dropped.
Escape(p) == worker' = [worker EXCEPT ![p] = Idle]

RelayUnchanged == UNCHANGED <<local, up, request, receipts>>

ClaimSelect(p) ==
  /\ up[p]
  /\ worker[p].pc = "idle"
  /\ Batch # {}
  /\ worker' = [worker EXCEPT ![p] = [Idle EXCEPT !.pc = "claim", !.batch = Batch]]
  /\ UNCHANGED <<queueVars, core, late, faults>>
  /\ RelayUnchanged

ClaimUpdate(p) ==
  /\ worker[p].pc = "claim"
  /\ Claim(worker[p].batch)
  /\ RelayGoTo(p, "next")
  /\ UNCHANGED <<core, late, faults>>
  /\ RelayUnchanged

\* The loop of run_once and _load_and_validate_local_entry.
NextRecord(p, e) ==
  /\ worker[p].pc = "next"
  /\ e \in worker[p].batch
  /\ \A f \in worker[p].batch : queue[e].id <= queue[f].id
  /\ worker' = [worker EXCEPT ![p] =
                  [Idle EXCEPT !.pc = IF IsLocal(e) THEN "post" ELSE "terminal",
                               !.batch = worker[p].batch \ {e}, !.record = e]]
  /\ UNCHANGED <<queueVars, core, late, faults>>
  /\ RelayUnchanged

PostAppends(p) ==
  /\ worker[p].pc = "post"
  /\ worker[p].record.id \notin CoreIds
  /\ core' = core \cup {worker[p].record}
  /\ RelayGoTo(p, "answer")
  /\ UNCHANGED <<queueVars, late, faults>>
  /\ RelayUnchanged

\* 409: Core had the identity, or has just stored it and met its own rows.
PostConflict(p) ==
  /\ worker[p].pc \in {"post", "answer"}
  /\ worker[p].record.id \in CoreIds
  /\ RelayGoTo(p, "reconcile")
  /\ UNCHANGED <<queueVars, core, late, faults>>
  /\ RelayUnchanged

PostAcknowledged(p) ==
  /\ worker[p].pc = "answer"
  /\ worker' = [worker EXCEPT ![p].pc = "mark", ![p].ack = "accepted"]
  /\ UNCHANGED <<queueVars, core, late, faults>>
  /\ RelayUnchanged

\* No token, no connection, a timeout, an error status or a bad answer.  What
\* was sent before a timeout may still arrive.
PostFails(p) ==
  /\ worker[p].pc \in {"post", "answer"}
  /\ Fault
  /\ \E step \in {"retryable", "terminal"} : RelayGoTo(p, step)
  /\ \/ UNCHANGED late
     \/ worker[p].pc = "post" /\ late' = late \cup {worker[p].record}
  /\ UNCHANGED <<queueVars, core>>
  /\ RelayUnchanged

\* Mutant: the identity alone is taken as proof, the hash is not compared.
ReconcileCoreById(p) ==
  /\ worker[p].pc = "reconcile"
  /\ worker' = [worker EXCEPT ![p].pc = "mark", ![p].ack = "already_present"]
  /\ UNCHANGED <<queueVars, core, late, faults>>
  /\ RelayUnchanged

\* _reconcile_existing of the client: what Core has must be the same event.
ReconcileCore(p) ==
  /\ worker[p].pc = "reconcile"
  /\ worker' = IF worker[p].record \in core
                 THEN [worker EXCEPT ![p].pc = "mark", ![p].ack = "already_present"]
                 ELSE [worker EXCEPT ![p].pc = "terminal"]
  /\ UNCHANGED <<queueVars, core, late, faults>>
  /\ RelayUnchanged

ReconcileFails(p) ==
  /\ worker[p].pc = "reconcile"
  /\ Fault
  /\ \E step \in {"retryable", "terminal"} : RelayGoTo(p, step)
  /\ UNCHANGED <<queueVars, core, late>>
  /\ RelayUnchanged

\* mark_synchronized reads the row; SyncConflictError leaves run_once.
MarkRead(p) ==
  LET row == queue[worker[p].record] IN
  /\ worker[p].pc = "mark"
  /\ IF row.state # "SYNCHRONIZED" THEN RelayGoTo(p, "write")
     ELSE IF row.ack = worker[p].ack THEN Advance(p)
     ELSE Escape(p)
  /\ UNCHANGED <<queueVars, core, late, faults>>
  /\ RelayUnchanged

MarkWrite(p) ==
  /\ worker[p].pc = "write"
  /\ MarkSynchronized(worker[p].record, worker[p].ack)
  /\ Advance(p)
  /\ UNCHANGED <<core, late, faults>>
  /\ RelayUnchanged

MarkFailed(p) ==
  /\ worker[p].pc \in {"retryable", "terminal"}
  /\ MarkFailure(worker[p].record,
                 IF worker[p].pc = "retryable" THEN "RETRYABLE_FAILURE"
                                               ELSE "TERMINAL_FAILURE")
  /\ Advance(p)
  /\ UNCHANGED <<core, late, faults>>
  /\ RelayUnchanged

\* An error of the database or of the HTTP library that is not an OSError.
RelayEscapes(p) ==
  /\ Escapes
  /\ worker[p].pc # "idle"
  /\ Fault
  /\ Escape(p)
  /\ UNCHANGED <<queueVars, core, late>>
  /\ RelayUnchanged

-----------------------------------------------------------------------------
(* The network and the processes.                                          *)

LateDelivery(e) ==
  /\ e \in late
  /\ late' = late \ {e}
  /\ core' = IF e.id \in CoreIds THEN core ELSE core \cup {e}
  /\ UNCHANGED <<queueVars, worker, faults>>
  /\ RelayUnchanged

\* SyncQueue.__init__ recovers the rows that it takes for left behind.
Start(p) ==
  /\ ~up[p]
  /\ up' = [up EXCEPT ![p] = TRUE]
  /\ RecoverInFlight
  /\ UNCHANGED <<local, core, late, request, worker, receipts, faults>>

Crash(p) ==
  /\ up[p]
  /\ Fault
  /\ up' = [up EXCEPT ![p] = FALSE]
  /\ request' = [t \in Threads |-> IF t[1] = p THEN Free ELSE request[t]]
  /\ worker' = [worker EXCEPT ![p] = Idle]
  /\ UNCHANGED <<queueVars, local, core, late, receipts>>

IngressStep(t) ==
  \/ \E e \in Events : Submit(t, e)
  \/ Lookup(t)
  \/ EnsureCapacity(t)
  \/ AppendLocal(t)
  \/ FindRow(t)
  \/ CountRows(t)
  \/ InsertRow(t)
  \/ RequestFails(t)

RelayStep(p) ==
  \/ ClaimSelect(p)
  \/ ClaimUpdate(p)
  \/ \E e \in Events : NextRecord(p, e)
  \/ PostAppends(p)
  \/ PostConflict(p)
  \/ PostAcknowledged(p)
  \/ ReconcileCore(p)
  \/ MarkRead(p)
  \/ MarkWrite(p)
  \/ MarkFailed(p)

RelayFault(p) ==
  \/ PostFails(p)
  \/ ReconcileFails(p)
  \/ RelayEscapes(p)

Next ==
  \/ \E t \in Threads : IngressStep(t)
  \/ \E p \in Procs : RelayStep(p) \/ RelayFault(p) \/ Start(p) \/ Crash(p)
  \/ \E e \in Events : LateDelivery(e)

Spec == Init /\ [][Next]_vars

\* The worker loop runs again and again, and a stopped process is restarted.
FairSpec ==
  /\ Spec
  /\ \A p \in Procs : WF_vars(RelayStep(p)) /\ WF_vars(Start(p))

-----------------------------------------------------------------------------

(* A row says SYNCHRONIZED only when Core holds exactly the event that the
   row was made from, the same hash and not just the same identity, whatever
   was lost, repeated, late or claimed twice (core_relay.py 92-114,
   core_relay_http.py 94-127). *)
SynchronizedInCore ==
  \A e \in DOMAIN queue : queue[e].state = "SYNCHRONIZED" => e \in core

(* What a source was told stays true: a receipt with sync_queued names a
   local entry with the content that was sent, and its row is in the queue,
   after every crash (ingress.py 252-299, 406-427). *)
NoSilentLoss ==
  \A r \in receipts :
    r[2].content = r[1] /\ IsLocal(r[2]) /\ r[2] \in DOMAIN queue

(* Only events of the local log are queued, under way to Core or retried: of
   two captures of one source item with different times of receipt, the one
   that lost the race to the local log leaves no trace, so the relay never
   meets a record that contradicts local history (ingress.py 283-313,
   core_relay.py 130-150). *)
QueueMatchesLocal ==
  \A e \in DOMAIN queue \cup late : IsLocal(e)

(* SYNCHRONIZED is final while one process uses the queue: no claim, no
   failure report and no restart takes it back (sync_queue.py 169-200,
   294-309 and 340-361 overwrite the state without looking at it). *)
SynchronizedIsFinal ==
  [][\A e \in DOMAIN queue :
       queue[e].state = "SYNCHRONIZED" => queue'[e] = queue[e]]_vars

\* The requests that have counted the rows and not yet inserted theirs.
Inserting == {t \in Threads : request[t].pc = "insert"}

(* The backlog never exceeds max_items by more than the requests that count
   it at the same time, and that includes the rows of the requests that have
   found room and are still to insert (sync_queue.py 117-149). *)
OverrunBounded ==
  Cardinality(Backlog) + Cardinality(Inserting) < MaxItems + Cardinality(Threads)

(* Every queued record is in the end synchronized or reported as a terminal
   failure, and stays so: nothing is forgotten in a claimed batch, and what
   failed for a time is tried again (core_relay.py 84-128). *)
EverythingSettles ==
  \A e \in Events : e \in DOMAIN queue ~> [](e \in DOMAIN queue /\ Settled(e))

-----------------------------------------------------------------------------
(* The inductive invariants.                                               *)

(* A request that has its entry has it from the local log, and the entry has
   the content that the source sent. *)
RequestConsistent(t) ==
  request[t].pc \in {"select", "count", "insert"} =>
    /\ IsLocal(request[t].entry)
    /\ request[t].entry.content = request[t].event.content

(* A worker holds keys of rows, and from Core's answer on its event is in
   Core. *)
WorkerConsistent(p) ==
  /\ worker[p].batch \subseteq DOMAIN queue
  /\ worker[p].pc \in RecordSteps => worker[p].record \in DOMAIN queue
  /\ worker[p].pc \in {"answer", "mark", "write"} => worker[p].record \in core

(* The local log keeps each event under its own identity. *)
LocalKeyed == \A d \in DOMAIN local : local[d].id = d

(* Holds for any number of processes. *)
Inv ==
  /\ TypeOK
  /\ LocalKeyed
  /\ SynchronizedInCore
  /\ NoSilentLoss
  /\ QueueMatchesLocal
  /\ \A t \in Threads : RequestConsistent(t)
  /\ \A p \in Procs : WorkerConsistent(p)

(* What a worker may rely on when no other process uses the queue: the rows
   it has selected can still be claimed, and those it has claimed are
   IN_FLIGHT until it marks them. *)
ClaimExclusive(p) ==
  /\ ~up[p] => worker[p].pc = "idle"
  /\ worker[p].pc = "idle" => worker[p].batch = {}
  /\ worker[p].pc = "claim" => worker[p].batch \subseteq Claimable
  /\ worker[p].pc # "claim" =>
       \A e \in worker[p].batch : queue[e].state = "IN_FLIGHT"
  /\ worker[p].pc \in RecordSteps =>
       /\ queue[worker[p].record].state = "IN_FLIGHT"
       /\ worker[p].record \notin worker[p].batch

Alone == \A p, q \in Procs : p = q

AloneInv == Inv /\ \A p \in Procs : ClaimExclusive(p)

(* A request counts before it may insert, so that the rows that are there
   and those about to be keep the bound together. *)
RoomCounted == IsFiniteSet(DOMAIN queue) /\ OverrunBounded

=============================================================================
