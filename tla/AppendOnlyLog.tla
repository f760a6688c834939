--------------------------- MODULE AppendOnlyLog ---------------------------
(***************************************************************************)
(* What every ETS event store promises its callers (ets/core/log.py,       *)
(* ets/core/storage.py): one log that only grows, each event identity at   *)
(* most once, and an append that returns a LogEntry only to the call that  *)
(* really put the event there.                                             *)
(*                                                                         *)
(* An append takes effect at one instant between its call and its return.  *)
(* The instant and the return are separate steps, so a caller may be told  *)
(* of a failure, or of a duplicate, after its own event was committed.     *)
(***************************************************************************)
EXTENDS Naturals, Sequences

CONSTANTS Callers,    \* threads and processes that use the store
          Ids,        \* event identities (EvidenceEvent.event_id)
          Bodies      \* everything else of an event that its hash covers

VARIABLES log,        \* the committed events, in log_index order
          pending,    \* pending[c]: the event c is appending, as a set of at most one
          committed,  \* committed[c]: c's pending event is in the log
          outcome     \* outcome[c]: what c's last append returned

vars == <<log, pending, committed, outcome>>

Events == [id : Ids, body : Bodies]

Outcomes == {"other", "appended", "duplicate"}

LogIds == {log[i].id : i \in 1..Len(log)}

TypeOK ==
  /\ log \in Seq(Events)
  /\ pending \in [Callers -> SUBSET Events]
  /\ committed \in [Callers -> BOOLEAN]
  /\ outcome \in [Callers -> Outcomes]

Init ==
  /\ log = <<>>
  /\ pending = [c \in Callers |-> {}]
  /\ committed = [c \in Callers |-> FALSE]
  /\ outcome = [c \in Callers |-> "other"]

-----------------------------------------------------------------------------

Invoke(c, e) ==
  /\ pending[c] = {}
  /\ pending' = [pending EXCEPT ![c] = {e}]
  /\ committed' = [committed EXCEPT ![c] = FALSE]
  /\ outcome' = [outcome EXCEPT ![c] = "other"]
  /\ UNCHANGED log

\* The linearization point of append.
Commit(c) ==
  /\ ~committed[c]
  /\ \E e \in pending[c] :
       /\ e.id \notin LogIds
       /\ log' = Append(log, e)
  /\ committed' = [committed EXCEPT ![c] = TRUE]
  /\ UNCHANGED <<pending, outcome>>

Return(c, o) ==
  /\ pending[c] # {}
  /\ o = "appended" => committed[c]
  /\ o = "duplicate" => \E e \in pending[c] : e.id \in LogIds
  /\ pending' = [pending EXCEPT ![c] = {}]
  /\ committed' = [committed EXCEPT ![c] = FALSE]
  /\ outcome' = [outcome EXCEPT ![c] = o]
  /\ UNCHANGED log

\* c has gone on to something else than an append.
Forget(c) ==
  /\ pending[c] = {}
  /\ outcome' = [outcome EXCEPT ![c] = "other"]
  /\ UNCHANGED <<log, pending, committed>>

Next ==
  \E c \in Callers :
    \/ \E e \in Events : Invoke(c, e)
    \/ Commit(c)
    \/ \E o \in Outcomes : Return(c, o)
    \/ Forget(c)

Spec == Init /\ [][Next]_vars

-----------------------------------------------------------------------------

(* No event identity is in the log twice: the Merkle leaves, and the proofs
   made from them, name each event once. *)
UniqueIds ==
  \A i, j \in 1..Len(log) : log[i].id = log[j].id => i = j

(* A step adds at most one entry at the end and changes no earlier one. *)
GrowsOnly ==
  /\ Len(log) <= Len(log')
  /\ Len(log') <= Len(log) + 1
  /\ \A i \in 1..Len(log) : log'[i] = log[i]

AppendOnly == [][GrowsOnly]_vars

=============================================================================
