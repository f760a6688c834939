-------------------------- MODULE ConnectorRuntime --------------------------
(***************************************************************************)
(* The connector runtime of the hosted Gateway.                            *)
(*                                                                         *)
(*  - ConnectorRuntimeStore (ets/connectors/runtime_store.py) keeps a row  *)
(*    per connector instance: checkpoint, revision, retries, gap, lease;   *)
(*  - HostedMicrosoftGatewayRuntime.run_cycle and _run_claimed_collection  *)
(*    (ets/gateway/hosted_runtime.py) claim the due instances, collect one *)
(*    page of each through GatewayConnectorCollectionRunner.run            *)
(*    (ets/gateway/connector_runner.py) and write the outcome back;        *)
(*  - the management routes (ets/gateway/connector_management.py and       *)
(*    microsoft_entra_resync.py) write the same rows from request threads. *)
(*                                                                         *)
(* One action is one call on the store or on the ingress service: between  *)
(* two of them another thread, or the other process of an overlapping      *)
(* rollout, may run.  Time is two events, LeaseExpires and RetryDue, as    *)
(* the code compares a time only with the instant at which it claims.      *)
(* checkpoint_revision is compared only for equality with the value read   *)
(* before, so each worker keeps whether the row still has that revision.   *)
(* A source is the sequence of its positions; the checkpoint is the last   *)
(* position released, 0 standing for None.                                 *)
(***************************************************************************)
EXTENDS Naturals, FiniteSets

CONSTANTS Instances,    \* instance_ids, as numbers: claims are ORDER BY
          Procs,        \* Gateway processes, one worker loop each
          MaxAttempts,  \* retry.max_attempts
          LastPosition  \* the last record that the source has to give

\* 0 stands for no instance.
ASSUME InstancesAssumption == Instances \subseteq Nat \ {0}
ASSUME ProcsAssumption == IsFiniteSet(Procs) /\ Procs # {}
ASSUME BoundsAssumption ==
  MaxAttempts \in Nat /\ LastPosition \in Nat

VARIABLES connector,  \* connector_id of each instance, which never changes
          row,        \* connector_runtime, by instance
          enabled,    \* connector_instances: the enabled instances
          worker,     \* the worker loop of each process
          collected,  \* history: the positions below a checkpoint that an
                      \* operator set, and those durably queued since by a
                      \* collection that no other write has overtaken
          outlived    \* history: instances with a lease that was outlived

vars == <<connector, row, enabled, worker, collected, outlived>>

\* Only the Purview and the Entra directory delta connectors are treated
\* differently from others, in one step each.
Connectors == {"purview", "entra"}

Positions == 0..LastPosition

\* No code path tells the three observations other than collection_gap apart.
Observations == {"collection_gap", "other_observation"}

Rows == [checkpoint : Positions, retry_count : Nat, due : BOOLEAN,
         observation : Observations, gap_open : BOOLEAN,
         leased : BOOLEAN]  \* lease_expires_at_utc is set and lies ahead

Workers == [pc : {"idle", "next", "collect", "commit", "reconcile", "release"},
            todo : SUBSET Instances,  \* claimed, and not yet begun
            instance : Instances \cup {0},
            exhausted : BOOLEAN, gap_open : BOOLEAN,  \* of the row as read
            current : BOOLEAN,   \* checkpoint_revision is still the one read
            done : Positions]    \* the checkpoint read, then each record queued

Idle == [pc |-> "idle", todo |-> {}, instance |-> 0, exhausted |-> FALSE,
         gap_open |-> FALSE, current |-> FALSE, done |-> 0]

\* create_instance's row.
NewRow == [checkpoint |-> 0, retry_count |-> 0, due |-> TRUE,
           observation |-> "other_observation", gap_open |-> FALSE,
           leased |-> FALSE]

Init ==
  /\ connector \in [Instances -> Connectors]
  /\ row = [i \in Instances |-> NewRow]
  /\ enabled = Instances
  /\ worker = [p \in Procs |-> Idle]
  /\ collected = [i \in Instances |-> {}]
  /\ outlived = {}

\* Worker p has read the row of instance i and has not yet written it back.
Collecting(p, i) ==
  worker[p].instance = i /\ worker[p].pc \in {"collect", "commit"}

\* The workers once checkpoint_revision of instance i has moved.
RevisionMoved(i) ==
  [p \in Procs |-> IF worker[p].instance = i
                     THEN [worker[p] EXCEPT !.current = FALSE] ELSE worker[p]]

\* Worker p at pc, with only the claimed instances and the current one left.
At(p, pc) ==
  [Idle EXCEPT !.pc = pc, !.todo = worker[p].todo,
               !.instance = worker[p].instance]

-----------------------------------------------------------------------------
(***************************************************************************)
(* The statements of the store, on the row of one instance.                *)
(***************************************************************************)

Checkpointed(r, checkpoint, observation, gap_open) ==
  [r EXCEPT !.checkpoint = checkpoint, !.observation = observation,
            !.gap_open = gap_open, !.retry_count = 0, !.due = TRUE]

GapMarked(r) ==
  [r EXCEPT !.observation = "collection_gap", !.gap_open = TRUE]

\* Mutant: the gap is closed and the observation left as it was.
ReconciledFlagOnly(r) == [r EXCEPT !.gap_open = FALSE]

Reconciled(r) ==
  [r EXCEPT !.observation = "other_observation", !.gap_open = FALSE]

RetryScheduled(r) ==
  [r EXCEPT !.retry_count = @ + 1, !.due = FALSE,
            !.observation = "other_observation"]

\* Mutant: the lease is not looked at.
DueIgnoringLease == {i \in enabled : row[i].due}

\* Mutant: an instance with an open gap waits for its reconciliation.
DueWithoutGap == {i \in enabled : row[i].due /\ ~row[i].leased /\ ~row[i].gap_open}

\* The SELECT of claim_due.  Its limit is the number of composed instances.
Due == {i \in enabled : row[i].due /\ ~row[i].leased}

-----------------------------------------------------------------------------
(***************************************************************************)
(* run_cycle, step by step.                                                *)
(***************************************************************************)

\* claim_due: one transaction leases every due instance to this cycle.
ClaimDue(p) ==
  /\ worker[p].pc = "idle"
  /\ Due # {}
  /\ row' = [i \in Instances |->
               IF i \in Due THEN [row[i] EXCEPT !.leased = TRUE] ELSE row[i]]
  /\ worker' = [worker EXCEPT ![p] = [Idle EXCEPT !.pc = "next", !.todo = Due]]
  /\ UNCHANGED <<connector, enabled, collected, outlived>>

\* Mutant: one attempt more than the budget.
ExhaustedLate(r) == r.retry_count > MaxAttempts

\* The retry budget, judged on the row as it was read.
Exhausted(r) == r.retry_count >= MaxAttempts

\* The next claimed instance: _run_claimed_collection reads its row.
GetRuntime(p) ==
  /\ worker[p].pc = "next"
  /\ \E i \in worker[p].todo :
       /\ \A j \in worker[p].todo : i <= j
       /\ worker' = [worker EXCEPT ![p] =
            [pc |-> "collect", todo |-> worker[p].todo \ {i}, instance |-> i,
             exhausted |-> Exhausted(row[i]), gap_open |-> row[i].gap_open,
             current |-> TRUE, done |-> row[i].checkpoint]]
  /\ UNCHANGED <<connector, row, enabled, collected, outlived>>

\* adapter.collect returns the page that follows the checkpoint it was given.
\* How long it is, and so whether the source has more, nobody looks at before
\* its records are queued: it is left open until then.
CollectPage(p) ==
  /\ worker[p].pc = "collect"
  /\ worker' = [worker EXCEPT ![p].pc = "commit"]
  /\ UNCHANGED <<connector, row, enabled, collected, outlived>>

\* Mutant: a record that cannot be queued is passed over.
CommitRecordOrSkip(p) ==
  /\ worker[p].pc = "commit"
  /\ worker[p].done < LastPosition
  /\ worker' = [worker EXCEPT ![p].done = @ + 1]
  /\ UNCHANGED <<connector, row, enabled, collected, outlived>>

\* _commit_record: the ingress service commits the next record locally and
\* queues it.
CommitRecord(p) ==
  /\ worker[p].pc = "commit"
  /\ worker[p].done < LastPosition
  /\ worker' = [worker EXCEPT ![p].done = @ + 1]
  /\ collected' = IF worker[p].current
                    THEN [collected EXCEPT ![worker[p].instance] =
                            @ \cup {worker[p].done + 1}]
                    ELSE collected
  /\ UNCHANGED <<connector, row, enabled, outlived>>

\* The run may end with a code other than ok: adapter.collect does not
\* qualify, _commit_record fails (the records before it stay), or all records
\* are queued and the release hook fails.
MayFail(p) == worker[p].pc \in {"collect", "commit"}

\* Every record of the page may be queued: the run may release its checkpoint.
PageQueued(w) == w.pc = "commit"

\* A record that the page may have is not queued, or there is no page.
Incomplete(w) == w.pc = "collect" \/ w.done < LastPosition

\* WHERE checkpoint_revision = ?
RevisionMatches(w) == w.current

\* The gap that the worker writes back with the checkpoint: the one it read.
GapWritten(w) == w.gap_open

\* The page is released: set_checkpoint.  The Purview connector then
\* reconciles the gap it read, once the source has no more.
SetCheckpoint(p) ==
  LET w == worker[p]
      i == w.instance
  IN /\ PageQueued(w) /\ RevisionMatches(w)
     /\ row' = [row EXCEPT ![i] = Checkpointed(@, w.done,
                  IF GapWritten(w) THEN "collection_gap" ELSE "other_observation",
                  GapWritten(w))]
     /\ worker' = [RevisionMoved(i) EXCEPT ![p] = At(p,
                     IF connector[i] = "purview" /\ w.gap_open /\ w.done = LastPosition
                       THEN "reconcile" ELSE "release")]
     /\ UNCHANGED <<connector, enabled, collected, outlived>>

\* ConnectorRevisionConflictError, caught in run_cycle.
SetCheckpointConflict(p) ==
  /\ PageQueued(worker[p]) /\ ~RevisionMatches(worker[p])
  /\ worker' = [worker EXCEPT ![p] = At(p, "release")]
  /\ UNCHANGED <<connector, row, enabled, collected, outlived>>

ReconcileGap(p) ==
  /\ worker[p].pc = "reconcile"
  /\ row' = [row EXCEPT ![worker[p].instance] = Reconciled(@)]
  /\ worker' = [worker EXCEPT ![p] = At(p, "release")]
  /\ UNCHANGED <<connector, enabled, collected, outlived>>

\* A failure that is retryable (throttled, unauthenticated, backpressure, a
\* partial commit, the release hook), with budget left.
ScheduleRetry(p) ==
  /\ MayFail(p) /\ ~worker[p].exhausted
  /\ row' = [row EXCEPT ![worker[p].instance] = RetryScheduled(@)]
  /\ worker' = [worker EXCEPT ![p] = At(p, "release")]
  /\ UNCHANGED <<connector, enabled, collected, outlived>>

\* A failure that is terminal (the source's answer, a conflict, an invalid
\* record), or retryable without budget.
MarkGap(p) ==
  /\ MayFail(p)
  /\ worker[p].exhausted \/ Incomplete(worker[p])
  /\ row' = [row EXCEPT ![worker[p].instance] = GapMarked(@)]
  /\ worker' = [worker EXCEPT ![p] = At(p, "release")]
  /\ UNCHANGED <<connector, enabled, collected, outlived>>

\* An exception of the adapter or of the store, caught in run_cycle.
CycleError(p) ==
  /\ worker[p].pc \in {"collect", "commit", "reconcile"}
  /\ worker' = [worker EXCEPT ![p] = At(p, "release")]
  /\ UNCHANGED <<connector, row, enabled, collected, outlived>>

\* release_lease, in the finally clause.  Every process has the same lease
\* owner, so it releases whichever lease the row has; without one it raises,
\* and run_cycle goes on.  After the last instance the cycle ends.
ReleaseLease(p) ==
  /\ worker[p].pc = "release"
  /\ row' = [row EXCEPT ![worker[p].instance].leased = FALSE]
  /\ worker' = [worker EXCEPT ![p] =
                  IF worker[p].todo = {} THEN Idle
                  ELSE [At(p, "next") EXCEPT !.instance = 0]]
  /\ UNCHANGED <<connector, enabled, collected, outlived>>

\* The process dies; its leases stay in the rows.
Crash(p) ==
  /\ worker[p].pc # "idle"
  /\ worker' = [worker EXCEPT ![p] = Idle]
  /\ UNCHANGED <<connector, row, enabled, collected, outlived>>

-----------------------------------------------------------------------------
(***************************************************************************)
(* Time.                                                                   *)
(***************************************************************************)

\* Worker p holds, or believes to hold, a lease on i.
Leasing(p, i) ==
  worker[p].pc # "idle" /\ (i \in worker[p].todo \/ worker[p].instance = i)

LeaseExpires(i) ==
  /\ row[i].leased
  /\ row' = [row EXCEPT ![i].leased = FALSE]
  /\ outlived' = IF \E p \in Procs : Leasing(p, i)
                   THEN outlived \cup {i} ELSE outlived
  /\ UNCHANGED <<connector, enabled, worker, collected>>

RetryDue(i) ==
  /\ ~row[i].due
  /\ row' = [row EXCEPT ![i].due = TRUE]
  /\ UNCHANGED <<connector, enabled, worker, collected, outlived>>

-----------------------------------------------------------------------------
(***************************************************************************)
(* The management routes.                                                  *)
(***************************************************************************)

\* A checkpoint set by hand starts a new account of what must be collected.
SetByOperator(i, checkpoint) ==
  /\ collected' = [collected EXCEPT ![i] = 1..checkpoint]
  /\ worker' = RevisionMoved(i)

\* PUT .../runtime/checkpoint, with the current revision; with another one,
\* or a collection_gap that is not open, nothing changes.
UpdateCheckpoint(i) ==
  /\ \E c \in Positions, o \in Observations, g \in BOOLEAN :
       /\ o = "collection_gap" => g
       /\ row' = [row EXCEPT ![i] = Checkpointed(@, c, o, g)]
       /\ SetByOperator(i, c)
  /\ UNCHANGED <<connector, enabled, outlived>>

\* authorize_microsoft_entra_full_resync: the cursor is cleared and the gap
\* stays open.
AuthorizeFullResync(i) ==
  /\ connector[i] = "entra"
  /\ row[i].checkpoint # 0
  /\ row[i].observation = "collection_gap" /\ row[i].gap_open
  /\ row' = [row EXCEPT ![i] = Checkpointed(@, 0, "collection_gap", TRUE)]
  /\ SetByOperator(i, 0)
  /\ UNCHANGED <<connector, enabled, outlived>>

\* POST .../gaps/detect.
DetectGap(i) ==
  /\ row' = [row EXCEPT ![i] = GapMarked(@)]
  /\ UNCHANGED <<connector, enabled, worker, collected, outlived>>

\* POST .../gaps/reconcile.
OperatorReconcile(i) ==
  /\ row' = [row EXCEPT ![i] = Reconciled(@)]
  /\ UNCHANGED <<connector, enabled, worker, collected, outlived>>

SetEnabled(i) ==
  /\ enabled' = IF i \in enabled THEN enabled \ {i} ELSE enabled \cup {i}
  /\ UNCHANGED <<connector, row, worker, collected, outlived>>

-----------------------------------------------------------------------------

WorkerStep(p) ==
  \/ ClaimDue(p) \/ GetRuntime(p) \/ CollectPage(p) \/ CommitRecord(p)
  \/ SetCheckpoint(p) \/ SetCheckpointConflict(p) \/ ReconcileGap(p)
  \/ ScheduleRetry(p) \/ MarkGap(p) \/ CycleError(p) \/ ReleaseLease(p)

OperatorStep(i) ==
  \/ UpdateCheckpoint(i) \/ AuthorizeFullResync(i) \/ DetectGap(i)
  \/ OperatorReconcile(i) \/ SetEnabled(i)

Next ==
  \/ \E p \in Procs : WorkerStep(p) \/ Crash(p)
  \/ \E i \in Instances : LeaseExpires(i) \/ RetryDue(i) \/ OperatorStep(i)

Spec == Init /\ [][Next]_vars

\* The loop of _worker_loop runs for ever, and time passes.
Fairness ==
  /\ \A p \in Procs : WF_vars(WorkerStep(p))
  /\ \A i \in Instances : WF_vars(LeaseExpires(i)) /\ WF_vars(RetryDue(i))

FairSpec == Spec /\ Fairness

-----------------------------------------------------------------------------
(***************************************************************************)
(* Properties.                                                             *)
(***************************************************************************)

(* Every variable has its type. *)
TypeOK ==
  /\ connector \in [Instances -> Connectors]
  /\ row \in [Instances -> Rows]
  /\ enabled \subseteq Instances
  /\ worker \in [Procs -> Workers]
  /\ collected \in [Instances -> SUBSET (1..LastPosition)]
  /\ outlived \subseteq Instances

(* The checkpoint never runs ahead of the evidence (connector_runner.py:93,  *)
(* hosted_runtime.py:525): every record between the checkpoint an operator   *)
(* last set and the checkpoint of the row was fetched after the operator set *)
(* it and is durably queued, whatever page failed half way, whichever        *)
(* process crashed and however many collections of the instance overlapped.  *)
CheckpointCovered ==
  \A i \in Instances :
    1..row[i].checkpoint \subseteq collected[i]

(* No sequence of calls leaves a row that get_runtime refuses to read: the   *)
(* model validator (connectors/runtime.py:88) raises on a collection_gap     *)
(* without an open gap, and a row like that could never be collected again.  *)
RowReadable ==
  \A i \in Instances : row[i].observation = "collection_gap" => row[i].gap_open

(* The retry budget (hosted_runtime.py:549) is judged on the row as it was   *)
(* read, so that collections that overlap may each add one: with n processes *)
(* retry_count never exceeds max_attempts by more than n - 1.                *)
RetriesBounded ==
  \A i \in Instances : row[i].retry_count <= MaxAttempts + Cardinality(Procs) - 1

(* Two workers collect the same instance only if a lease on it was outlived  *)
(* (runtime_store.py:314): a lease covers the whole cycle, the wait for the  *)
(* instances before it included, and release_lease, with one owner name for  *)
(* all processes, frees the lease of whoever holds it by then.               *)
OverlapOnlyAfterOverrun ==
  \A i \in Instances, p, q \in Procs :
    Collecting(p, i) /\ Collecting(q, i) /\ p # q => i \in outlived

\* Worker p has read an open gap on Purview instance i and caught up.
CaughtUp(p, i) == worker[p].pc = "reconcile" /\ worker[p].instance = i

\* The step closes the gap of i by a decision: the operator's, or that of a
\* Purview collection that read the gap open and reached the end of the source.
ByDecision(i) ==
  OperatorReconcile(i) \/ UpdateCheckpoint(i) \/ \E p \in Procs : CaughtUp(p, i)

(* "Known gaps remain open across later successful collection until an       *)
(* explicit reconciliation decision closes them": the code does not keep     *)
(* this.  set_checkpoint writes back the gap_open that was read before the   *)
(* collection (hosted_runtime.py:528), and a gap that was marked meanwhile   *)
(* leaves the revision as it was, so the write succeeds and closes it.       *)
GapsStayOpen ==
  [][\A i \in Instances :
       row[i].gap_open /\ ~row'[i].gap_open => ByDecision(i)]_vars

(* That is the only exception: without a decision a gap is closed by a       *)
(* collection that had read the row before the gap was opened, and by no     *)
(* retry, conflict, crash, expired lease or collection that read it open.    *)
OnlyStaleReadsCloseGaps ==
  [][\A i \in Instances :
       row[i].gap_open /\ ~row'[i].gap_open =>
         \/ ByDecision(i)
         \/ \E p \in Procs : Collecting(p, i) /\ ~worker[p].gap_open]_vars

(* No instance is left behind (runtime_store.py:314, hosted_runtime.py:480): *)
(* one that stays enabled is collected again and again, after every crash    *)
(* with its lease held, every conflict and every exhausted retry budget.     *)
AlwaysCollectedAgain ==
  <>[][\A p \in Procs : ~Crash(p)]_vars =>
    \A i \in Instances :
      []<>(i \notin enabled \/ \E p \in Procs : Collecting(p, i))
-----------------------------------------------------------------------------
(***************************************************************************)
(* The inductive invariant.                                                *)
(***************************************************************************)

(* A worker's instance is a claimed one that is no longer on its list. *)
Placed(p) ==
  /\ worker[p].pc = "next" => worker[p].instance = 0
  /\ worker[p].pc \in {"collect", "commit", "reconcile", "release"} =>
       worker[p].instance \in Instances \ worker[p].todo

(* A collection whose revision still matches has queued every record up to
   the position it would release. *)
WorkerCovered(p) ==
  worker[p].pc \in {"collect", "commit"} /\ worker[p].current =>
    1..worker[p].done \subseteq collected[worker[p].instance]

(* As long as no lease on it was outlived, one worker at most holds an
   instance, and the row has its lease. *)
LeaseExclusive ==
  \A i \in Instances \ outlived, p \in Procs :
    Leasing(p, i) => row[i].leased /\ \A q \in Procs : Leasing(q, i) => p = q

(* The collections of i that may still schedule a retry. *)
MayRetry(i) == {p \in Procs : Collecting(p, i) /\ ~worker[p].exhausted}

(* Each of them read a row with budget left and adds one at most; the reader
   of the row last below the budget is one of them. *)
RetriesAccounted ==
  \A i \in Instances :
    /\ row[i].retry_count + Cardinality(MayRetry(i))
         <= MaxAttempts + Cardinality(Procs) - 1
    /\ MayRetry(i) # {} => MaxAttempts > 0

Inv ==
  /\ TypeOK
  /\ \A p \in Procs : Placed(p) /\ WorkerCovered(p)
  /\ CheckpointCovered /\ RowReadable
  /\ LeaseExclusive
  /\ RetriesAccounted

=============================================================================
