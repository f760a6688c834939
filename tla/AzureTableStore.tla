-------------------------- MODULE AzureTableStore --------------------------
(***************************************************************************)
(* AzureTableEventStore (ets/core/azure_table_store.py): the hosted event  *)
(* store.  One table partition holds a metadata row (next_index, guarded   *)
(* by its ETag), one entry row per log index and one event-index row per   *)
(* event identity.  Several processes and threads append, look up and list *)
(* at the same time; every read of a row is a request of its own, and only *)
(* the three-row transaction of an append is atomic.                       *)
(*                                                                         *)
(* A caller may crash between any two requests, any request may fail, and  *)
(* the answer to a committed transaction may be lost or come back as a     *)
(* conflict (the client library resends a request whose answer it missed). *)
(***************************************************************************)
EXTENDS Integers, Sequences

CONSTANTS Callers,             \* threads and processes that use the store
          Ids, Bodies,         \* the parts of an event
          MaxAppendRetries     \* max_append_retries, 1..64 in the code

ASSUME RetriesAssumption == MaxAppendRetries \in Nat \ {0}
ASSUME EventsAssumption == Ids # {} /\ Bodies # {}

VARIABLES
  meta,      \* the metadata row: next_index and ETag
  entries,   \* the entry rows, by log index
  index,     \* the event-index rows, by event id
  call,      \* call[c]: the local variables of caller c's current operation
  reply      \* reply[c]: how c's last operation ended, with its LogEntries

store == <<meta, entries, index>>
vars == <<store, call, reply>>

Events == [id : Ids, body : Bodies]
AnyEvent == CHOOSE e \in Events : TRUE

Metadata == [next_index : Nat, etag : Nat]

\* The ETag that no row has: the metadata row does not exist.
NoETag == 0
NoMetadata == [next_index |-> 0, etag |-> NoETag]

AppendSteps == {"duplicate", "metadata", "transact", "reply", "recheck"}
ReadSteps == {"find", "fetch", "count", "list"}
OpenSteps == {"ensure", "create", "load"}
Steps == {"down", "ready"} \cup OpenSteps \cup AppendSteps \cup ReadSteps

\* seen: the metadata row as last read.  tries: attempts that have failed.
\* History: landed (this append has committed), base (next_index at the call).
Calls == [pc : Steps, event : Events, seen : Metadata, tries : Nat,
          landed : BOOLEAN, base : Nat]

At(step) == [pc |-> step, event |-> AnyEvent, seen |-> NoMetadata,
             tries |-> 0, landed |-> FALSE, base |-> 0]

LogEntries == [log_index : Nat, event : Events]

\* "invalid" is StorageValidationError, "failed" any other error.
Results == {"none", "appended", "duplicate", "found", "missing", "listed",
            "invalid", "failed"}
Replies == [result : Results, found : SUBSET LogEntries]

\* The function f with key k set to v.
Put(f, k, v) == [x \in DOMAIN f \cup {k} |-> IF x = k THEN v ELSE f[x]]

TypeOK ==
  /\ meta \in Metadata
  /\ DOMAIN entries \subseteq Nat /\ entries \in [DOMAIN entries -> Events]
  /\ DOMAIN index \subseteq Ids /\ index \in [DOMAIN index -> Nat]
  /\ call \in [Callers -> Calls]
  /\ reply \in [Callers -> Replies]

Init ==
  /\ meta = NoMetadata
  /\ entries = [i \in {} |-> AnyEvent]
  /\ index = [d \in {} |-> 0]
  /\ call = [c \in Callers |-> At("down")]
  /\ reply = [c \in Callers |-> [result |-> "none", found |-> {}]]

-----------------------------------------------------------------------------
(* The steps of an operation: c goes on, or returns or raises.             *)

GoTo(c, step) ==
  /\ call' = [call EXCEPT ![c].pc = step]
  /\ UNCHANGED reply

Finish(c, r, found) ==
  /\ call' = [call EXCEPT ![c] = At("ready")]
  /\ reply' = [reply EXCEPT ![c] = [result |-> r, found |-> found]]

Call(c, start) ==
  /\ call[c].pc = "ready"
  /\ call' = [call EXCEPT ![c] = start]
  /\ reply' = [reply EXCEPT ![c] = [result |-> "none", found |-> {}]]

EntryAt(i) == [log_index |-> i, event |-> entries[i]]

-----------------------------------------------------------------------------
(* __init__ and _ensure_metadata.                                          *)

Open(c) ==
  /\ call[c].pc = "down"
  /\ GoTo(c, "ensure")
  /\ UNCHANGED store

EnsureMetadata(c) ==
  /\ call[c].pc = "ensure"
  /\ GoTo(c, IF meta.etag = NoETag THEN "create" ELSE "load")
  /\ UNCHANGED store

\* Mutant: the first index is one too low.
CreateMetadataMinusOne(c) ==
  /\ call[c].pc = "create"
  /\ meta' = IF meta.etag = NoETag THEN [next_index |-> -1, etag |-> 1] ELSE meta
  /\ GoTo(c, "load")
  /\ UNCHANGED <<entries, index>>

\* A conflict means that another process has created the row: it is ignored.
CreateMetadata(c) ==
  /\ call[c].pc = "create"
  /\ meta' = IF meta.etag = NoETag THEN [next_index |-> 0, etag |-> 1] ELSE meta
  /\ GoTo(c, "load")
  /\ UNCHANGED <<entries, index>>

FinishOpen(c) ==
  /\ call[c].pc = "load"
  /\ meta.etag # NoETag
  /\ GoTo(c, "ready")
  /\ UNCHANGED store

-----------------------------------------------------------------------------
(* append.                                                                 *)

CallAppend(c, e) ==
  /\ Call(c, [At("duplicate") EXCEPT !.event = e, !.base = meta.next_index])
  /\ UNCHANGED store

CheckDuplicate(c) ==
  /\ call[c].pc = "duplicate"
  /\ IF call[c].event.id \in DOMAIN index
       THEN Finish(c, "duplicate", {})
       ELSE GoTo(c, "metadata")
  /\ UNCHANGED store

LoadMetadata(c) ==
  /\ call[c].pc = "metadata"
  /\ call' = [call EXCEPT ![c].pc = "transact", ![c].seen = meta]
  /\ UNCHANGED <<store, reply>>

\* Mutant: the event-index row is upserted, not created.
AppliesWithoutIndex(c) ==
  /\ meta.etag = call[c].seen.etag
  /\ call[c].seen.next_index \notin DOMAIN entries

\* The service applies the three rows if every condition holds, else none.
Applies(c) ==
  /\ meta.etag = call[c].seen.etag
  /\ call[c].seen.next_index \notin DOMAIN entries
  /\ call[c].event.id \notin DOMAIN index

TransactCommit(c) ==
  LET i == call[c].seen.next_index IN
  /\ call[c].pc = "transact"
  /\ Applies(c)
  /\ meta' = [next_index |-> i + 1, etag |-> meta.etag + 1]
  /\ entries' = Put(entries, i, call[c].event)
  /\ index' = Put(index, call[c].event.id, i)
  /\ call' = [call EXCEPT ![c].pc = "reply", ![c].landed = TRUE]
  /\ UNCHANGED reply

TransactConflict(c) ==
  /\ call[c].pc = "transact"
  /\ ~Applies(c)
  /\ GoTo(c, "recheck")
  /\ UNCHANGED store

\* Mutant: the LogEntry is built from the metadata row read back afterwards.
ReplyReadBack(c) ==
  /\ call[c].pc = "reply"
  /\ Finish(c, "appended", {[log_index |-> meta.next_index - 1,
                             event |-> call[c].event]})
  /\ UNCHANGED store

ReplyAppended(c) ==
  /\ call[c].pc = "reply"
  /\ Finish(c, "appended", {[log_index |-> call[c].seen.next_index,
                             event |-> call[c].event]})
  /\ UNCHANGED store

\* The transaction was resent and met its own rows.
ReplyConflict(c) ==
  /\ call[c].pc = "reply"
  /\ GoTo(c, "recheck")
  /\ UNCHANGED store

\* Mutant: the next attempt reuses the metadata row it has read before.
RecheckKeepsMetadata(c) ==
  /\ call[c].pc = "recheck"
  /\ IF call[c].event.id \in DOMAIN index
       THEN Finish(c, "duplicate", {})
       ELSE IF call[c].tries + 1 < MaxAppendRetries
              THEN /\ call' = [call EXCEPT ![c].pc = "transact",
                                           ![c].tries = @ + 1]
                   /\ UNCHANGED reply
              ELSE Finish(c, "invalid", {})
  /\ UNCHANGED store

\* Mutant: the row that is found is taken for the caller's own.
RecheckClaimsRow(c) ==
  /\ call[c].pc = "recheck"
  /\ IF call[c].event.id \in DOMAIN index
       THEN Finish(c, "appended", {})
       ELSE IF call[c].tries + 1 < MaxAppendRetries
              THEN /\ call' = [call EXCEPT ![c].pc = "duplicate",
                                           ![c].tries = @ + 1]
                   /\ UNCHANGED reply
              ELSE Finish(c, "invalid", {})
  /\ UNCHANGED store

Recheck(c) ==
  /\ call[c].pc = "recheck"
  /\ IF call[c].event.id \in DOMAIN index
       THEN Finish(c, "duplicate", {})
       ELSE IF call[c].tries + 1 < MaxAppendRetries
              THEN /\ call' = [call EXCEPT ![c].pc = "duplicate",
                                           ![c].tries = @ + 1]
                   /\ UNCHANGED reply
              ELSE Finish(c, "invalid", {})
  /\ UNCHANGED store

-----------------------------------------------------------------------------
(* get_by_event_id and list_entries: two requests each.                    *)

CallGet(c, e) ==
  /\ Call(c, [At("find") EXCEPT !.event = e])
  /\ UNCHANGED store

FindEvent(c) ==
  /\ call[c].pc = "find"
  /\ IF call[c].event.id \in DOMAIN index
       THEN GoTo(c, "fetch")
       ELSE Finish(c, "missing", {})
  /\ UNCHANGED store

FetchEntry(c) ==
  LET i == index[call[c].event.id] IN
  /\ call[c].pc = "fetch"
  /\ IF i \in DOMAIN entries
       THEN Finish(c, "found", {EntryAt(i)})
       ELSE Finish(c, "missing", {})
  /\ UNCHANGED store

CallList(c) ==
  /\ Call(c, At("count"))
  /\ UNCHANGED store

CountEntries(c) ==
  /\ call[c].pc = "count"
  /\ call' = [call EXCEPT ![c].pc = "list", ![c].seen = meta]
  /\ UNCHANGED <<store, reply>>

ListEntries(c) ==
  /\ call[c].pc = "list"
  /\ IF DOMAIN entries = 0..(call[c].seen.next_index - 1)
       THEN Finish(c, "listed", {EntryAt(i) : i \in DOMAIN entries})
       ELSE Finish(c, "invalid", {})
  /\ UNCHANGED store

-----------------------------------------------------------------------------
(* A request that fails with anything but a conflict is re-raised; a crash *)
(* forgets the call.                                                       *)

Fail(c) ==
  /\ call[c].pc \in AppendSteps \cup ReadSteps
  /\ Finish(c, "failed", {})
  /\ UNCHANGED store

Crash(c) ==
  /\ call[c].pc # "down"
  /\ call' = [call EXCEPT ![c] = At("down")]
  /\ reply' = [reply EXCEPT ![c] = [result |-> "none", found |-> {}]]
  /\ UNCHANGED store

AppendStep(c) ==
  \/ \E e \in Events : CallAppend(c, e)
  \/ CheckDuplicate(c)
  \/ LoadMetadata(c)
  \/ TransactCommit(c)
  \/ TransactConflict(c)
  \/ ReplyAppended(c)
  \/ ReplyConflict(c)
  \/ Recheck(c)

ReadStep(c) ==
  \/ \E e \in Events : CallGet(c, e)
  \/ FindEvent(c)
  \/ FetchEntry(c)
  \/ CallList(c)
  \/ CountEntries(c)
  \/ ListEntries(c)

ProcessStep(c) ==
  \/ Open(c)
  \/ EnsureMetadata(c)
  \/ CreateMetadata(c)
  \/ FinishOpen(c)
  \/ Fail(c)
  \/ Crash(c)

Next == \E c \in Callers : AppendStep(c) \/ ReadStep(c) \/ ProcessStep(c)

Spec == Init /\ [][Next]_vars

-----------------------------------------------------------------------------

(* The rows of the partition agree with each other after every step: entry
   rows 0..next_index-1 and no others, and the event-index rows are exactly
   the inverse of the entry rows.  Racing transactions, crashes and resent
   requests (append, lines 83-140) leave no gap, no overwritten entry and no
   event under two indexes. *)
StoreConsistent ==
  /\ DOMAIN entries = 0..(meta.next_index - 1)
  /\ \A i \in DOMAIN entries :
       entries[i].id \in DOMAIN index /\ index[entries[i].id] = i
  /\ \A d \in DOMAIN index :
       index[d] \in DOMAIN entries /\ entries[index[d]].id = d

(* Every LogEntry handed to a caller is in the log, at its index, for ever:
   an acknowledged append survives whatever the others do, and a lookup or a
   listing returns only committed entries. *)
AnswersInLog ==
  \A c \in Callers : \A a \in reply[c].found :
    a.log_index \in DOMAIN entries /\ entries[a.log_index] = a.event

(* append gives up ("exceeded bounded concurrency retries", line 140) only
   after as many commits of other callers as it made attempts: every attempt
   that leaves the caller's event out of the log let another event in. *)
ExhaustedOnlyByContention ==
  \A c \in Callers :
    call[c].pc = "recheck" /\ call[c].event.id \notin DOMAIN index =>
      meta.next_index >= call[c].base + call[c].tries + 1

(* What ties a caller's local variables to the table between its requests:
   a metadata row it has read is at most stale (ETag and next_index moved on
   together), a committed append stays findable until its answer arrives,
   and each failed attempt is paid for by a commit. *)
CallConsistent(c) ==
  LET k == call[c] IN
  /\ k.pc \notin {"down"} \cup OpenSteps => meta.etag # NoETag
  /\ k.pc \in {"duplicate", "metadata"} => meta.next_index >= k.base + k.tries
  /\ k.pc = "transact" =>
       /\ k.seen.etag = k.seen.next_index + 1
       /\ meta.next_index >= k.seen.next_index
       /\ k.seen.next_index >= k.base + k.tries
  /\ k.pc = "reply" =>
       /\ k.landed
       /\ k.seen.next_index \in DOMAIN entries
       /\ entries[k.seen.next_index] = k.event
  /\ k.landed => k.pc \in {"reply", "recheck"} /\ k.event.id \in DOMAIN index
  /\ k.pc = "recheck" /\ k.event.id \notin DOMAIN index =>
       meta.next_index >= k.base + k.tries + 1
  /\ k.pc = "fetch" => k.event.id \in DOMAIN index

(* The inductive invariant: the properties above and what carries them from
   one request of a caller to the next. *)
Inv ==
  /\ TypeOK
  /\ meta.etag \in {NoETag, meta.next_index + 1}
  /\ meta.etag = NoETag => meta.next_index = 0
  /\ StoreConsistent
  /\ \A c \in Callers : CallConsistent(c)
  /\ AnswersInLog

-----------------------------------------------------------------------------
(* The promise of AppendOnlyLog, under the mapping below.                  *)

Appending(c) == call[c].pc \in AppendSteps

\* The log that the rows hold, from index 1 as TLA+ sequences have it.
RowLog == [i \in 1..meta.next_index |-> entries[i - 1]]

PendingEvents ==
  [c \in Callers |-> IF Appending(c) THEN {call[c].event} ELSE {}]

Landed == [c \in Callers |-> call[c].landed]

AppendOutcome(r) == IF r \in {"appended", "duplicate"} THEN r ELSE "other"

AppendOutcomes == [c \in Callers |-> AppendOutcome(reply[c].result)]

Log == INSTANCE AppendOnlyLog WITH
  log <- RowLog, pending <- PendingEvents, committed <- Landed,
  outcome <- AppendOutcomes

(* The table store implements the append-only log: an append takes effect
   once, at its transaction, a LogEntry is returned only by the call whose
   transaction committed, and DuplicateEventError only when the identity is
   in the log. *)
ImplementsAppendOnlyLog == Log!Spec

=============================================================================
