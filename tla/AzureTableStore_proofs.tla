----------------------- MODULE AzureTableStore_proofs -----------------------
(***************************************************************************)
(* Proofs about AzureTableStore, for any number of callers, any events and *)
(* any retry bound.                                                        *)
(***************************************************************************)
EXTENDS AzureTableStore, SequenceTheorems, TLAPS

(* At(step) is a well-typed set of local variables. *)
LEMMA AtType ==
  ASSUME NEW step \in Steps
  PROVE  At(step) \in Calls
<1>1. AnyEvent \in Events
  <2>1. \E e \in Events : TRUE
    <3>1. PICK d \in Ids, b \in Bodies : TRUE
      BY EventsAssumption
    <3>2. [id |-> d, body |-> b] \in Events
      BY <3>1 DEF Events
    <3> QED BY <3>2
  <2> QED BY <2>1 DEF AnyEvent
<1> QED BY <1>1 DEF At, Calls, Metadata, NoMetadata, NoETag

(* The type invariant is inductive. *)
LEMMA TypeStep ==
  ASSUME TypeOK, [Next]_vars
  PROVE  TypeOK'
<1> USE DEF TypeOK
<1>1. ASSUME NEW c \in Callers, NEW step \in Steps, GoTo(c, step)
      PROVE  call' \in [Callers -> Calls] /\ reply' \in [Callers -> Replies]
  BY <1>1 DEF GoTo, Calls
<1>2. ASSUME NEW c \in Callers, NEW r \in Results,
             NEW found \in SUBSET LogEntries, Finish(c, r, found)
      PROVE  call' \in [Callers -> Calls] /\ reply' \in [Callers -> Replies]
  <2>1. At("ready") \in Calls
    BY AtType DEF Steps
  <2> QED BY <1>2, <2>1 DEF Finish, Replies
<1>3. ASSUME NEW c \in Callers, NEW start \in Calls, Call(c, start)
      PROVE  call' \in [Callers -> Calls] /\ reply' \in [Callers -> Replies]
  BY <1>3 DEF Call, Replies, Results
<1>4. ASSUME UNCHANGED store
      PROVE  /\ meta' \in Metadata
             /\ DOMAIN entries' \subseteq Nat
             /\ entries' \in [DOMAIN entries' -> Events]
             /\ DOMAIN index' \subseteq Ids
             /\ index' \in [DOMAIN index' -> Nat]
  BY <1>4 DEF store
<1>5. \A i \in DOMAIN entries : EntryAt(i) \in LogEntries
  BY DEF EntryAt, LogEntries
<1>6. CASE UNCHANGED vars
  BY <1>6 DEF vars, store
<1>7. CASE Next
  <2>1. PICK c \in Callers : AppendStep(c) \/ ReadStep(c) \/ ProcessStep(c)
    BY <1>7 DEF Next
  <2>2. CASE \E e \in Events : CallAppend(c, e)
    <3>1. PICK e \in Events : CallAppend(c, e)
      BY <2>2
    <3>2. At("duplicate") \in Calls
      BY AtType DEF Steps, AppendSteps
    <3>3. [At("duplicate") EXCEPT !.event = e, !.base = meta.next_index] \in Calls
      BY <3>2 DEF Calls, Metadata
    <3> QED BY <3>1, <3>3, <1>3, <1>4 DEF CallAppend
  <2>3. CASE CheckDuplicate(c)
    BY <2>3, <1>1, <1>2, <1>4 DEF CheckDuplicate, Steps, AppendSteps, Results
  <2>4. CASE LoadMetadata(c)
    BY <2>4, <1>4 DEF LoadMetadata, Calls, Steps, AppendSteps
  <2>5. CASE TransactCommit(c)
    <3>1. /\ call[c].seen.next_index \in Nat /\ call[c].event \in Events
          /\ call[c].event.id \in Ids
      BY DEF Calls, Metadata, Events
    <3>2. meta' \in Metadata
      BY <2>5, <3>1 DEF TransactCommit, Metadata
    <3>3. DOMAIN entries' \subseteq Nat /\ entries' \in [DOMAIN entries' -> Events]
      <4> DEFINE new == Put(entries, call[c].seen.next_index, call[c].event)
      <4>1. DOMAIN new = DOMAIN entries \cup {call[c].seen.next_index}
        BY DEF Put
      <4>2. new \in [DOMAIN new -> Events]
        BY <3>1 DEF Put
      <4>3. entries' = new
        BY <2>5 DEF TransactCommit
      <4> HIDE DEF new
      <4> QED BY <3>1, <4>1, <4>2, <4>3
    <3>4. DOMAIN index' \subseteq Ids /\ index' \in [DOMAIN index' -> Nat]
      <4> DEFINE new == Put(index, call[c].event.id, call[c].seen.next_index)
      <4>1. DOMAIN new = DOMAIN index \cup {call[c].event.id}
        BY DEF Put
      <4>2. new \in [DOMAIN new -> Nat]
        BY <3>1 DEF Put
      <4>3. index' = new
        BY <2>5 DEF TransactCommit
      <4> HIDE DEF new
      <4> QED BY <3>1, <4>1, <4>2, <4>3
    <3>5. call' \in [Callers -> Calls] /\ reply' \in [Callers -> Replies]
      BY <2>5 DEF TransactCommit, Calls, Steps, AppendSteps
    <3> QED BY <3>2, <3>3, <3>4, <3>5
  <2>6. CASE TransactConflict(c)
    BY <2>6, <1>1, <1>4 DEF TransactConflict, Steps, AppendSteps
  <2>7. CASE ReplyAppended(c)
    <3>1. {[log_index |-> call[c].seen.next_index, event |-> call[c].event]}
            \in SUBSET LogEntries
      BY DEF LogEntries, Calls, Metadata
    <3> QED BY <2>7, <3>1, <1>2, <1>4 DEF ReplyAppended, Results
  <2>8. CASE ReplyConflict(c)
    BY <2>8, <1>1, <1>4 DEF ReplyConflict, Steps, AppendSteps
  <2>9. CASE Recheck(c)
    <3>1. CASE call[c].event.id \notin DOMAIN index
               /\ call[c].tries + 1 < MaxAppendRetries
      BY <2>9, <3>1, <1>4 DEF Recheck, Calls, Steps, AppendSteps
    <3> QED BY <2>9, <3>1, <1>2, <1>4 DEF Recheck, Results
  <2>10. CASE \E e \in Events : CallGet(c, e)
    <3>1. PICK e \in Events : CallGet(c, e)
      BY <2>10
    <3>2. At("find") \in Calls
      BY AtType DEF Steps, ReadSteps
    <3>3. [At("find") EXCEPT !.event = e] \in Calls
      BY <3>2 DEF Calls
    <3> QED BY <3>1, <3>3, <1>3, <1>4 DEF CallGet
  <2>11. CASE FindEvent(c)
    BY <2>11, <1>1, <1>2, <1>4 DEF FindEvent, Steps, ReadSteps, Results
  <2>12. CASE FetchEntry(c)
    BY <2>12, <1>2, <1>4, <1>5 DEF FetchEntry, Results
  <2>13. CASE CallList(c)
    <3>1. At("count") \in Calls
      BY AtType DEF Steps, ReadSteps
    <3> QED BY <2>13, <3>1, <1>3, <1>4 DEF CallList
  <2>14. CASE CountEntries(c)
    BY <2>14, <1>4 DEF CountEntries, Calls, Steps, ReadSteps
  <2>15. CASE ListEntries(c)
    <3>1. {EntryAt(i) : i \in DOMAIN entries} \in SUBSET LogEntries
      BY <1>5
    <3> QED BY <2>15, <3>1, <1>2, <1>4 DEF ListEntries, Results
  <2>16. CASE Open(c)
    BY <2>16, <1>1, <1>4 DEF Open, Steps, OpenSteps
  <2>17. CASE EnsureMetadata(c)
    BY <2>17, <1>1, <1>4 DEF EnsureMetadata, Steps, OpenSteps
  <2>18. CASE CreateMetadata(c)
    BY <2>18, <1>1 DEF CreateMetadata, Steps, OpenSteps, Metadata
  <2>19. CASE FinishOpen(c)
    BY <2>19, <1>1, <1>4 DEF FinishOpen, Steps
  <2>20. CASE Fail(c)
    BY <2>20, <1>2, <1>4 DEF Fail, Results
  <2>21. CASE Crash(c)
    <3>1. At("down") \in Calls
      BY AtType DEF Steps
    <3> QED BY <2>21, <3>1, <1>4 DEF Crash, Replies, Results
  <2> QED BY <2>1, <2>2, <2>3, <2>4, <2>5, <2>6, <2>7, <2>8, <2>9, <2>10, <2>11,
             <2>12, <2>13, <2>14, <2>15, <2>16, <2>17, <2>18, <2>19, <2>20, <2>21
             DEF AppendStep, ReadStep, ProcessStep
<1> QED BY <1>6, <1>7

(* The rows and every caller's variables keep their types. *)
THEOREM TypeCorrect == Spec => []TypeOK
<1>1. Init => TypeOK
  <2>1. At("down") \in Calls
    BY AtType DEF Steps
  <2> QED BY <2>1 DEF Init, TypeOK, Metadata, NoMetadata, NoETag, Replies, Results
<1>2. TypeOK /\ [Next]_vars => TypeOK'
  BY TypeStep
<1> QED BY <1>1, <1>2, PTL DEF Spec

(* Every step keeps the inductive invariant.  A step that leaves the table
   alone can only disturb the facts about its own caller (step 2); a committed
   transaction adds a row that no other caller's facts forbid (step 7). *)
LEMMA InvStep ==
  ASSUME Inv, [Next]_vars
  PROVE  Inv'
<1>1. TypeOK /\ TypeOK'
  BY TypeStep DEF Inv
<1>2. ASSUME NEW c \in Callers, UNCHANGED store,
             \A d \in Callers \ {c} : call'[d] = call[d] /\ reply'[d] = reply[d],
             CallConsistent(c)',
             \A a \in reply'[c].found :
               a.log_index \in DOMAIN entries /\ entries[a.log_index] = a.event
      PROVE  Inv'
  <2>1. meta' = meta /\ entries' = entries /\ index' = index
    BY <1>2 DEF store
  <2>2. StoreConsistent'
    BY <2>1 DEF Inv, StoreConsistent
  <2>3. \A d \in Callers : CallConsistent(d)'
    <3>1. SUFFICES ASSUME NEW d \in Callers \ {c} PROVE CallConsistent(d)'
      BY <1>2
    <3>2. call'[d] = call[d] /\ CallConsistent(d)
      BY <1>2 DEF Inv
    <3> QED BY <2>1, <3>2 DEF CallConsistent
  <2>4. AnswersInLog'
    BY <1>2, <2>1 DEF Inv, AnswersInLog
  <2> QED BY <1>1, <2>1, <2>2, <2>3, <2>4 DEF Inv
<1>3. ASSUME NEW c \in Callers, NEW r, NEW found, Finish(c, r, found),
             UNCHANGED store, meta.etag # NoETag,
             \A a \in found :
               a.log_index \in DOMAIN entries /\ entries[a.log_index] = a.event
      PROVE  Inv'
  <2>1. call'[c] = At("ready") /\ reply'[c].found = found
    BY <1>1, <1>3 DEF Finish, TypeOK
  <2>2. \A d \in Callers \ {c} : call'[d] = call[d] /\ reply'[d] = reply[d]
    BY <1>1, <1>3 DEF Finish, TypeOK
  <2>3. meta' = meta
    BY <1>3 DEF store
  <2>4. CallConsistent(c)'
    BY <1>3, <2>1, <2>3 DEF CallConsistent, At
  <2> QED BY <1>2, <1>3, <2>1, <2>2, <2>4
<1>4. ASSUME NEW c \in Callers, NEW start, Call(c, start), UNCHANGED store,
             CallConsistent(c)'
      PROVE  Inv'
  <2>1. reply'[c].found = {}
    BY <1>1, <1>4 DEF Call, TypeOK
  <2>2. \A d \in Callers \ {c} : call'[d] = call[d] /\ reply'[d] = reply[d]
    BY <1>1, <1>4 DEF Call, TypeOK
  <2> QED BY <1>2, <1>4, <2>1, <2>2
<1>5. ASSUME NEW c \in Callers, UNCHANGED <<store, reply>>,
             \A d \in Callers \ {c} : call'[d] = call[d],
             CallConsistent(c)'
      PROVE  Inv'
  BY <1>2, <1>5 DEF Inv, AnswersInLog
<1>6. \A c \in Callers : CallConsistent(c)
  BY DEF Inv
<1>7. ASSUME NEW c \in Callers, TransactCommit(c)
      PROVE  Inv'
  <2> DEFINE i == call[c].seen.next_index
             e == call[c].event
  <2>1. /\ i = meta.next_index /\ i \in Nat /\ meta.etag = i + 1
        /\ i \notin DOMAIN entries /\ e.id \notin DOMAIN index /\ e \in Events
    BY <1>1, <1>6, <1>7 DEF TransactCommit, Applies, CallConsistent, TypeOK, Calls,
                            Metadata, NoETag, Inv
  <2>2. /\ DOMAIN entries' = DOMAIN entries \cup {i}
        /\ entries'[i] = e
        /\ \A j \in DOMAIN entries : entries'[j] = entries[j]
    BY <1>7, <2>1 DEF TransactCommit, Put
  <2>3. /\ DOMAIN index' = DOMAIN index \cup {e.id}
        /\ index'[e.id] = i
        /\ \A d \in DOMAIN index : index'[d] = index[d]
    BY <1>7, <2>1 DEF TransactCommit, Put
  <2>4. meta'.next_index = i + 1 /\ meta'.etag = i + 2
    BY <1>7, <2>1 DEF TransactCommit
  <2>5. /\ \A d \in Callers \ {c} : call'[d] = call[d]
        /\ call'[c] = [call[c] EXCEPT !.pc = "reply", !.landed = TRUE]
        /\ reply' = reply
    BY <1>1, <1>7 DEF TransactCommit, TypeOK
  <2> HIDE DEF i, e
  <2>6. StoreConsistent'
    <3>1. DOMAIN entries' = 0..(meta'.next_index - 1)
      BY <2>1, <2>2, <2>4 DEF Inv, StoreConsistent
    <3>2. \A j \in DOMAIN entries' :
            entries'[j].id \in DOMAIN index' /\ index'[entries'[j].id] = j
      BY <2>1, <2>2, <2>3 DEF Inv, StoreConsistent
    <3>3. \A d \in DOMAIN index' :
            index'[d] \in DOMAIN entries' /\ entries'[index'[d]].id = d
      BY <2>1, <2>2, <2>3 DEF Inv, StoreConsistent
    <3> QED BY <3>1, <3>2, <3>3 DEF StoreConsistent
  <2>7. \A d \in Callers : CallConsistent(d)'
    <3>1. CallConsistent(c)'
      BY <1>1, <2>1, <2>2, <2>3, <2>4, <2>5
         DEF CallConsistent, TypeOK, Calls, NoETag, OpenSteps, i, e
    <3>2. ASSUME NEW d \in Callers \ {c} PROVE CallConsistent(d)'
      <4>1. CallConsistent(d) /\ call'[d] = call[d] /\ call[d] \in Calls
        BY <1>1, <1>6, <2>5 DEF TypeOK
      <4> QED BY <4>1, <2>1, <2>2, <2>3, <2>4
                 DEF CallConsistent, Calls, Metadata, NoETag, OpenSteps
    <3> QED BY <3>1, <3>2
  <2>8. AnswersInLog'
    BY <2>1, <2>2, <2>5 DEF Inv, AnswersInLog
  <2> QED BY <1>1, <2>1, <2>4, <2>6, <2>7, <2>8 DEF Inv, NoETag
<1>8. ASSUME NEW c \in Callers, CreateMetadata(c)
      PROVE  Inv'
  <2>1. /\ meta'.next_index = meta.next_index
        /\ meta'.etag \in {NoETag, meta'.next_index + 1}
        /\ meta'.etag # NoETag
        /\ entries' = entries /\ index' = index /\ reply' = reply
    BY <1>8 DEF CreateMetadata, Inv, NoETag, GoTo
  <2>2. /\ \A d \in Callers \ {c} : call'[d] = call[d]
        /\ call'[c] = [call[c] EXCEPT !.pc = "load"]
    BY <1>1, <1>8 DEF CreateMetadata, GoTo, TypeOK
  <2>3. \A d \in Callers : CallConsistent(d)'
    <3>1. CallConsistent(c)'
      BY <1>1, <1>6, <1>8, <2>1, <2>2
         DEF CallConsistent, CreateMetadata, TypeOK, Calls, OpenSteps
    <3>2. ASSUME NEW d \in Callers \ {c} PROVE CallConsistent(d)'
      BY <1>6, <2>1, <2>2 DEF CallConsistent
    <3> QED BY <3>1, <3>2
  <2>4. StoreConsistent' /\ AnswersInLog'
    BY <2>1 DEF Inv, StoreConsistent, AnswersInLog
  <2> QED BY <1>1, <2>1, <2>3, <2>4 DEF Inv
<1>9. CASE UNCHANGED vars
  <2>1. UNCHANGED store /\ call' = call /\ reply' = reply
    BY <1>9 DEF vars, store
  <2> QED BY <1>1, <2>1 DEF Inv, StoreConsistent, CallConsistent, AnswersInLog, store
<1>10. CASE Next
  <2>1. PICK c \in Callers : AppendStep(c) \/ ReadStep(c) \/ ProcessStep(c)
    BY <1>10 DEF Next
  <2> USE <1>1, <1>6
  <2>2. CallConsistent(c) /\ call[c] \in Calls
    BY DEF TypeOK
  <2>3. CASE \E e \in Events : CallAppend(c, e)
    <3>1. PICK e \in Events : CallAppend(c, e)
      BY <2>3
    <3>2. CallConsistent(c)'
      BY <2>2, <3>1 DEF CallAppend, Call, CallConsistent, At, TypeOK, store,
                        OpenSteps, Metadata
    <3> QED BY <1>4, <3>1, <3>2 DEF CallAppend
  <2>4. CASE CheckDuplicate(c)
    <3>1. CASE call[c].event.id \in DOMAIN index
      BY <1>3, <2>2, <2>4, <3>1 DEF CheckDuplicate, CallConsistent, OpenSteps
    <3>2. CASE call[c].event.id \notin DOMAIN index
      <4>1. /\ call'[c] = [call[c] EXCEPT !.pc = "metadata"]
            /\ \A d \in Callers \ {c} : call'[d] = call[d]
            /\ reply' = reply
        BY <2>4, <3>2 DEF CheckDuplicate, GoTo, TypeOK
      <4>2. CallConsistent(c)'
        BY <2>2, <2>4, <3>2, <4>1 DEF CheckDuplicate, CallConsistent, store, OpenSteps, Calls
      <4> QED BY <1>5, <2>4, <4>1, <4>2 DEF CheckDuplicate
    <3> QED BY <3>1, <3>2
  <2>5. CASE LoadMetadata(c)
    <3>1. /\ call'[c] = [call[c] EXCEPT !.pc = "transact", !.seen = meta]
          /\ \A d \in Callers \ {c} : call'[d] = call[d]
      BY <2>5 DEF LoadMetadata, TypeOK
    <3>2. CallConsistent(c)'
      BY <2>2, <2>5, <3>1 DEF LoadMetadata, CallConsistent, store, OpenSteps, Calls,
                              Inv, TypeOK, Metadata, NoETag
    <3> QED BY <1>5, <2>5, <3>1, <3>2 DEF LoadMetadata
  <2>6. CASE TransactCommit(c)
    BY <1>7, <2>6
  <2>7. CASE TransactConflict(c)
    <3>1. /\ call'[c] = [call[c] EXCEPT !.pc = "recheck"]
          /\ \A d \in Callers \ {c} : call'[d] = call[d]
          /\ reply' = reply
      BY <2>7 DEF TransactConflict, GoTo, TypeOK
    <3>2. CallConsistent(c)'
      BY <2>2, <2>7, <3>1 DEF TransactConflict, Applies, CallConsistent, store, OpenSteps, Calls,
         Metadata, TypeOK, Inv, StoreConsistent, NoETag
    <3> QED BY <1>5, <2>7, <3>1, <3>2 DEF TransactConflict
  <2>8. CASE ReplyAppended(c)
    BY <1>3, <2>2, <2>8 DEF ReplyAppended, CallConsistent, OpenSteps
  <2>9. CASE ReplyConflict(c)
    <3>1. /\ call'[c] = [call[c] EXCEPT !.pc = "recheck"]
          /\ \A d \in Callers \ {c} : call'[d] = call[d]
          /\ reply' = reply
      BY <2>9 DEF ReplyConflict, GoTo, TypeOK
    <3>2. CallConsistent(c)'
      BY <2>2, <2>9, <3>1 DEF ReplyConflict, CallConsistent, store, OpenSteps, Calls
    <3> QED BY <1>5, <2>9, <3>1, <3>2 DEF ReplyConflict
  <2>10. CASE Recheck(c)
    <3>1. CASE /\ call[c].event.id \notin DOMAIN index
               /\ call[c].tries + 1 < MaxAppendRetries
      <4>1. /\ call'[c] = [call[c] EXCEPT !.pc = "duplicate", !.tries = @ + 1]
            /\ \A d \in Callers \ {c} : call'[d] = call[d]
            /\ reply' = reply
        BY <2>10, <3>1 DEF Recheck, TypeOK
      <4>2. CallConsistent(c)'
        BY <2>2, <2>10, <3>1, <4>1
           DEF Recheck, CallConsistent, store, OpenSteps, Calls, Metadata, TypeOK
      <4> QED BY <1>5, <2>10, <4>1, <4>2 DEF Recheck
    <3>2. CASE ~(/\ call[c].event.id \notin DOMAIN index
                 /\ call[c].tries + 1 < MaxAppendRetries)
      BY <1>3, <2>2, <2>10, <3>2 DEF Recheck, CallConsistent, OpenSteps
    <3> QED BY <3>1, <3>2
  <2>11. CASE \E e \in Events : CallGet(c, e)
    <3>1. PICK e \in Events : CallGet(c, e)
      BY <2>11
    <3>2. CallConsistent(c)'
      BY <2>2, <3>1 DEF CallGet, Call, CallConsistent, At, TypeOK, store, OpenSteps
    <3> QED BY <1>4, <3>1, <3>2 DEF CallGet
  <2>12. CASE FindEvent(c)
    <3>1. CASE call[c].event.id \notin DOMAIN index
      BY <1>3, <2>2, <2>12, <3>1 DEF FindEvent, CallConsistent, OpenSteps
    <3>2. CASE call[c].event.id \in DOMAIN index
      <4>1. /\ call'[c] = [call[c] EXCEPT !.pc = "fetch"]
            /\ \A d \in Callers \ {c} : call'[d] = call[d]
            /\ reply' = reply
        BY <2>12, <3>2 DEF FindEvent, GoTo, TypeOK
      <4>2. CallConsistent(c)'
        BY <2>2, <2>12, <3>2, <4>1 DEF FindEvent, CallConsistent, store, OpenSteps, Calls
      <4> QED BY <1>5, <2>12, <4>1, <4>2 DEF FindEvent
    <3> QED BY <3>1, <3>2
  <2>13. CASE FetchEntry(c)
    BY <1>3, <2>2, <2>13 DEF FetchEntry, CallConsistent, OpenSteps, EntryAt
  <2>14. CASE CallList(c)
    <3>1. CallConsistent(c)'
      BY <2>2, <2>14 DEF CallList, Call, CallConsistent, At, TypeOK, store, OpenSteps
    <3> QED BY <1>4, <2>14, <3>1 DEF CallList
  <2>15. CASE CountEntries(c)
    <3>1. /\ call'[c] = [call[c] EXCEPT !.pc = "list", !.seen = meta]
          /\ \A d \in Callers \ {c} : call'[d] = call[d]
      BY <2>15 DEF CountEntries, TypeOK
    <3>2. CallConsistent(c)'
      <4>1. ~call[c].landed /\ meta.etag # NoETag
        BY <2>2, <2>15 DEF CountEntries, CallConsistent, OpenSteps
      <4>2. call'[c].pc = "list" /\ call'[c].landed = call[c].landed
        BY <2>2, <3>1 DEF Calls
      <4>3. meta' = meta
        BY <2>15 DEF CountEntries, store
      <4> QED BY <4>1, <4>2, <4>3 DEF CallConsistent
    <3> QED BY <1>5, <2>15, <3>1, <3>2 DEF CountEntries
  <2>16. CASE ListEntries(c)
    <3>1. meta.etag # NoETag
      BY <2>2, <2>16 DEF ListEntries, CallConsistent, OpenSteps
    <3>2. \A a \in {EntryAt(j) : j \in DOMAIN entries} :
            a.log_index \in DOMAIN entries /\ entries[a.log_index] = a.event
      BY DEF EntryAt
    <3> QED BY <1>3, <2>16, <3>1, <3>2 DEF ListEntries
  <2>17. CASE Open(c)
    <3>1. /\ call'[c] = [call[c] EXCEPT !.pc = "ensure"]
          /\ \A d \in Callers \ {c} : call'[d] = call[d]
          /\ reply' = reply
      BY <2>17 DEF Open, GoTo, TypeOK
    <3>2. CallConsistent(c)'
      BY <2>2, <2>17, <3>1 DEF Open, CallConsistent, store, OpenSteps, Calls
    <3> QED BY <1>5, <2>17, <3>1, <3>2 DEF Open
  <2>18. CASE EnsureMetadata(c)
    <3>1. /\ call'[c] = [call[c] EXCEPT !.pc = (IF meta.etag = NoETag THEN "create" ELSE "load")]
          /\ \A d \in Callers \ {c} : call'[d] = call[d]
          /\ reply' = reply
      BY <2>18 DEF EnsureMetadata, GoTo, TypeOK
    <3>2. CallConsistent(c)'
      BY <2>2, <2>18, <3>1 DEF EnsureMetadata, CallConsistent, store, OpenSteps, Calls
    <3> QED BY <1>5, <2>18, <3>1, <3>2 DEF EnsureMetadata
  <2>19. CASE CreateMetadata(c)
    BY <1>8, <2>19
  <2>20. CASE FinishOpen(c)
    <3>1. /\ call'[c] = [call[c] EXCEPT !.pc = "ready"]
          /\ \A d \in Callers \ {c} : call'[d] = call[d]
          /\ reply' = reply
      BY <2>20 DEF FinishOpen, GoTo, TypeOK
    <3>2. CallConsistent(c)'
      BY <2>2, <2>20, <3>1 DEF FinishOpen, CallConsistent, store, OpenSteps, Calls
    <3> QED BY <1>5, <2>20, <3>1, <3>2 DEF FinishOpen
  <2>21. CASE Fail(c)
    BY <1>3, <2>2, <2>21 DEF Fail, CallConsistent, OpenSteps, AppendSteps, ReadSteps
  <2>22. CASE Crash(c)
    <3>1. /\ call'[c] = At("down") /\ reply'[c].found = {}
          /\ \A d \in Callers \ {c} : call'[d] = call[d] /\ reply'[d] = reply[d]
      BY <2>22 DEF Crash, TypeOK
    <3>2. CallConsistent(c)'
      BY <3>1 DEF CallConsistent, At
    <3> QED BY <1>2, <2>22, <3>1, <3>2 DEF Crash
  <2> QED BY <2>1, <2>3, <2>4, <2>5, <2>6, <2>7, <2>8, <2>9, <2>10, <2>11, <2>12,
             <2>13, <2>14, <2>15, <2>16, <2>17, <2>18, <2>19, <2>20, <2>21, <2>22
             DEF AppendStep, ReadStep, ProcessStep
<1> QED BY <1>9, <1>10

(* The invariant holds however the requests of the callers interleave, fail or
   lose their answers. *)
THEOREM InductiveInvariant == Spec => []Inv
<1>1. Init => Inv
  <2> SUFFICES ASSUME Init PROVE Inv
    OBVIOUS
  <2>1. TypeOK
    <3>1. At("down") \in Calls
      BY AtType DEF Steps
    <3> QED BY <3>1 DEF Init, TypeOK, Metadata, NoMetadata, NoETag, Replies, Results
  <2>2. StoreConsistent
    BY DEF Init, StoreConsistent, NoMetadata
  <2>3. \A c \in Callers : CallConsistent(c)
    BY DEF Init, CallConsistent, At
  <2>4. AnswersInLog
    BY DEF Init, AnswersInLog
  <2> QED BY <2>1, <2>2, <2>3, <2>4 DEF Inv, Init, NoMetadata, NoETag
<1>2. Inv /\ [Next]_vars => Inv'
  BY InvStep
<1> QED BY <1>1, <1>2, PTL DEF Spec

(* The rows of the partition always agree: no gap, no overwritten entry, no
   identity under two indexes. *)
THEOREM StoreAlwaysConsistent == Spec => []StoreConsistent
<1>1. Inv => StoreConsistent
  BY DEF Inv
<1> QED BY <1>1, InductiveInvariant, PTL

(* What a caller was given is in the log for ever. *)
THEOREM AnswersStayInLog == Spec => []AnswersInLog
<1>1. Inv => AnswersInLog
  BY DEF Inv
<1> QED BY <1>1, InductiveInvariant, PTL

(* append gives up only under real contention. *)
THEOREM GivesUpOnlyByContention == Spec => []ExhaustedOnlyByContention
<1>1. Inv => ExhaustedOnlyByContention
  BY DEF Inv, CallConsistent, ExhaustedOnlyByContention
<1> QED BY <1>1, InductiveInvariant, PTL

(* The mapped log is a sequence of events whose identities are the keys of
   the event-index rows. *)
LEMMA RowLogFacts ==
  ASSUME Inv
  PROVE  /\ RowLog \in Seq(Events)
         /\ Len(RowLog) = meta.next_index
         /\ Log!LogIds = DOMAIN index
<1>1. meta.next_index \in Nat
  BY DEF Inv, TypeOK, Metadata
<1>2. \A i \in 1..meta.next_index : i - 1 \in DOMAIN entries /\ entries[i - 1] \in Events
  BY <1>1 DEF Inv, StoreConsistent, TypeOK
<1>3. RowLog \in [1..meta.next_index -> Events]
  BY <1>2 DEF RowLog
<1>4. RowLog \in Seq(Events) /\ Len(RowLog) = meta.next_index
  BY <1>1, <1>3
<1>5. Log!LogIds = DOMAIN index
  <2>1. ASSUME NEW i \in 1..meta.next_index PROVE RowLog[i].id \in DOMAIN index
    BY <1>1, <1>2 DEF RowLog, Inv, StoreConsistent
  <2>2. ASSUME NEW d \in DOMAIN index
        PROVE  \E i \in 1..meta.next_index : RowLog[i].id = d
    <3>1. index[d] \in 0..(meta.next_index - 1) /\ entries[index[d]].id = d
      BY DEF Inv, StoreConsistent
    <3>2. index[d] + 1 \in 1..meta.next_index /\ (index[d] + 1) - 1 = index[d]
      BY <1>1, <3>1
    <3>3. RowLog[index[d] + 1].id = d
      BY <3>1, <3>2 DEF RowLog
    <3> QED BY <3>2, <3>3
  <2> QED BY <1>4, <2>1, <2>2 DEF Log!LogIds
<1> QED BY <1>4, <1>5

(* Every step of the store is a step of the append-only log, or changes
   nothing that the log's callers can see. *)
LEMMA RefinementStep ==
  ASSUME Inv, Inv', [Next]_vars
  PROVE  [Log!Next]_(Log!vars)
<1>1. TypeOK /\ \A c \in Callers : CallConsistent(c)
  BY DEF Inv
<1>2. ASSUME UNCHANGED store PROVE RowLog' = RowLog
  BY <1>2 DEF store, RowLog
<1>3. ASSUME NEW c \in Callers, UNCHANGED <<store, reply>>,
             \A d \in Callers \ {c} : call'[d] = call[d],
             call'[c].pc \in AppendSteps <=> call[c].pc \in AppendSteps,
             call'[c].event = call[c].event, call'[c].landed = call[c].landed
      PROVE  UNCHANGED Log!vars
  <2>1. PendingEvents' = PendingEvents
    BY <1>3 DEF PendingEvents, Appending
  <2>2. Landed' = Landed
    BY <1>3 DEF Landed
  <2>3. AppendOutcomes' = AppendOutcomes
    BY <1>3 DEF AppendOutcomes
  <2> QED BY <1>2, <1>3, <2>1, <2>2, <2>3 DEF Log!vars
<1>4. ASSUME NEW c \in Callers, NEW r, NEW step \in {"ready", "down"},
             UNCHANGED store,
             call' = [call EXCEPT ![c] = At(step)],
             reply'[c].result = r,
             \A d \in Callers \ {c} : reply'[d] = reply[d],
             r = "appended" => call[c].pc = "reply",
             r = "duplicate" =>
               call[c].pc \in AppendSteps /\ call[c].event.id \in DOMAIN index
      PROVE  Log!Next
  <2>1. /\ PendingEvents' = [PendingEvents EXCEPT ![c] = {}]
        /\ Landed' = [Landed EXCEPT ![c] = FALSE]
    BY <1>1, <1>4 DEF PendingEvents, Landed, Appending, At, TypeOK, AppendSteps
  <2>2. AppendOutcomes' = [AppendOutcomes EXCEPT ![c] = AppendOutcome(r)]
    BY <1>4 DEF AppendOutcomes
  <2>3. AppendOutcome(r) \in Log!Outcomes
    BY DEF AppendOutcome, Log!Outcomes
  <2>4. CASE Appending(c)
    <3>1. PendingEvents[c] = {call[c].event} /\ Landed[c] = call[c].landed
      BY <2>4 DEF PendingEvents, Landed
    <3>2. AppendOutcome(r) = "appended" => Landed[c]
      BY <1>1, <1>4, <3>1 DEF AppendOutcome, CallConsistent
    <3>3. AppendOutcome(r) = "duplicate" =>
            \E e \in PendingEvents[c] : e.id \in Log!LogIds
      BY <1>4, <3>1, RowLogFacts DEF AppendOutcome
    <3>4. Log!Return(c, AppendOutcome(r))
      BY <1>2, <1>4, <2>1, <2>2, <3>1, <3>2, <3>3 DEF Log!Return
    <3> QED BY <2>3, <3>4 DEF Log!Next
  <2>5. CASE ~Appending(c)
    <3>1. AppendOutcome(r) = "other"
      BY <1>4, <2>5 DEF AppendOutcome, Appending, AppendSteps
    <3>2. PendingEvents[c] = {}
      BY <2>5 DEF PendingEvents
    <3>3. call[c].landed = FALSE
      <4>1. ~call[c].landed
        BY <1>1, <2>5 DEF CallConsistent, Appending, AppendSteps
      <4>2. call[c].landed \in BOOLEAN
        BY <1>1 DEF TypeOK, Calls
      <4> QED BY <4>1, <4>2
    <3>4. PendingEvents' = PendingEvents
      BY <2>1, <3>2 DEF PendingEvents
    <3>5. Landed' = Landed
      BY <2>1, <3>3 DEF Landed
    <3>6. Log!Forget(c)
      BY <1>2, <1>4, <2>2, <3>1, <3>2, <3>4, <3>5 DEF Log!Forget
    <3> QED BY <3>6 DEF Log!Next
  <2> QED BY <2>4, <2>5
<1>5. ASSUME NEW c \in Callers, NEW r, NEW found, Finish(c, r, found),
             UNCHANGED store,
             r = "appended" => call[c].pc = "reply",
             r = "duplicate" =>
               call[c].pc \in AppendSteps /\ call[c].event.id \in DOMAIN index
      PROVE  Log!Next
  <2>1. /\ call' = [call EXCEPT ![c] = At("ready")]
        /\ reply'[c].result = r
        /\ \A d \in Callers \ {c} : reply'[d] = reply[d]
    BY <1>1, <1>5 DEF Finish, TypeOK
  <2> QED BY <1>4, <1>5, <2>1
<1>6. ASSUME NEW c \in Callers, NEW step, GoTo(c, step), UNCHANGED store,
             step \in AppendSteps <=> call[c].pc \in AppendSteps
      PROVE  UNCHANGED Log!vars
  <2>1. /\ call'[c] = [call[c] EXCEPT !.pc = step] /\ reply' = reply
        /\ \A d \in Callers \ {c} : call'[d] = call[d]
    BY <1>1, <1>6 DEF GoTo, TypeOK
  <2>2. /\ call'[c].pc = step
        /\ call'[c].event = call[c].event
        /\ call'[c].landed = call[c].landed
    BY <1>1, <2>1 DEF TypeOK, Calls
  <2> QED BY <1>3, <1>6, <2>1, <2>2
<1>7. CASE UNCHANGED vars
  BY <1>2, <1>7 DEF vars, Log!vars, PendingEvents, Landed, AppendOutcomes, Appending
<1>8. CASE Next
  <2>1. PICK c \in Callers : AppendStep(c) \/ ReadStep(c) \/ ProcessStep(c)
    BY <1>8 DEF Next
  <2>2. call[c] \in Calls /\ CallConsistent(c)
    BY <1>1 DEF TypeOK
  <2>3. ASSUME NEW start, Call(c, start), UNCHANGED store, start.landed = FALSE
        PROVE  /\ RowLog' = RowLog
               /\ Landed' = Landed /\ Landed' = [Landed EXCEPT ![c] = FALSE]
               /\ PendingEvents[c] = {}
               /\ PendingEvents' = [PendingEvents EXCEPT ![c] =
                     IF start.pc \in AppendSteps THEN {start.event} ELSE {}]
               /\ AppendOutcomes' = [AppendOutcomes EXCEPT ![c] = "other"]
    <3>1. call' = [call EXCEPT ![c] = start] /\ call[c].pc = "ready"
      BY <2>3 DEF Call
    <3>2. call[c].landed = FALSE
      <4>1. ~call[c].landed
        BY <2>2, <3>1 DEF CallConsistent
      <4>2. call[c].landed \in BOOLEAN
        BY <2>2 DEF Calls
      <4> QED BY <4>1, <4>2
    <3>3. PendingEvents[c] = {} /\ PendingEvents' = [PendingEvents EXCEPT ![c] =
                     IF start.pc \in AppendSteps THEN {start.event} ELSE {}]
      BY <1>1, <3>1 DEF PendingEvents, Appending, AppendSteps, TypeOK
    <3>4. Landed' = Landed /\ Landed' = [Landed EXCEPT ![c] = FALSE]
      BY <1>1, <2>3, <3>1, <3>2 DEF Landed, TypeOK
    <3>5. AppendOutcomes' = [AppendOutcomes EXCEPT ![c] = "other"]
      BY <1>1, <2>3 DEF Call, AppendOutcomes, AppendOutcome, TypeOK
    <3> QED BY <1>2, <2>3, <3>3, <3>4, <3>5
  <2>4. CASE \E e \in Events : CallAppend(c, e)
    <3>1. PICK e \in Events : CallAppend(c, e)
      BY <2>4
    <3> DEFINE start == [At("duplicate") EXCEPT !.event = e, !.base = meta.next_index]
    <3>2. start.landed = FALSE /\ start.pc \in AppendSteps /\ start.event = e
      BY DEF At, AppendSteps
    <3>3. Call(c, start) /\ UNCHANGED store
      BY <3>1 DEF CallAppend
    <3> HIDE DEF start
    <3>4. Log!Invoke(c, e)
      BY <2>3, <3>2, <3>3 DEF Log!Invoke
    <3> QED BY <3>4 DEF Log!Next, Log!Events, Events
  <2>5. CASE CheckDuplicate(c)
    BY <1>5, <1>6, <2>5 DEF CheckDuplicate, AppendSteps
  <2>6. CASE LoadMetadata(c)
    <3>1. /\ call'[c] = [call[c] EXCEPT !.pc = "transact", !.seen = meta]
          /\ \A d \in Callers \ {c} : call'[d] = call[d]
      BY <1>1, <2>6 DEF LoadMetadata, TypeOK
    <3>2. /\ call'[c].pc = "transact" /\ call'[c].event = call[c].event
          /\ call'[c].landed = call[c].landed
      BY <2>2, <3>1 DEF Calls
    <3> QED BY <1>3, <2>6, <3>1, <3>2 DEF LoadMetadata, AppendSteps
  <2>7. CASE TransactCommit(c)
    <3> DEFINE e == call[c].event
    <3>1. e \in Events /\ e.id \notin Log!LogIds
      BY <2>2, <2>7, RowLogFacts DEF TransactCommit, Applies, Calls
    <3>2. PendingEvents[c] = {e} /\ PendingEvents' = PendingEvents
      BY <1>1, <2>2, <2>7 DEF TransactCommit, PendingEvents, Appending, AppendSteps,
                              TypeOK, Calls
    <3>3. Landed' = [Landed EXCEPT ![c] = TRUE] /\ AppendOutcomes' = AppendOutcomes
      BY <1>1, <2>2, <2>7 DEF TransactCommit, Landed, AppendOutcomes, TypeOK, Calls
    <3>4. ~Landed[c]
      BY <2>2, <2>7 DEF TransactCommit, CallConsistent, Landed
    <3>5. RowLog' = Append(RowLog, e)
      <4>1. /\ call[c].seen.next_index = meta.next_index /\ meta.next_index \in Nat
            /\ meta.next_index \notin DOMAIN entries
        <5>1. /\ meta.etag = call[c].seen.etag
              /\ call[c].seen.next_index \notin DOMAIN entries
              /\ call[c].pc = "transact"
          BY <2>7 DEF TransactCommit, Applies
        <5>2. meta.etag # NoETag /\ call[c].seen.etag = call[c].seen.next_index + 1
          BY <2>2, <5>1 DEF CallConsistent, OpenSteps
        <5>3. meta.etag \in {NoETag, meta.next_index + 1}
          BY DEF Inv
        <5>4. meta.next_index \in Nat /\ call[c].seen.next_index \in Nat
          BY <1>1, <2>2 DEF TypeOK, Calls, Metadata
        <5> QED BY <5>1, <5>2, <5>3, <5>4
      <4>2. meta'.next_index = meta.next_index + 1
        BY <2>7, <4>1 DEF TransactCommit
      <4>a. entries' = Put(entries, meta.next_index, e)
        BY <2>7, <4>1 DEF TransactCommit
      <4>b. DOMAIN entries = 0..meta.next_index - 1
        BY DEF Inv, StoreConsistent
      <4>3. \A i \in 1..meta.next_index : entries'[i - 1] = entries[i - 1]
        <5> SUFFICES ASSUME NEW i \in 1..meta.next_index
                     PROVE  entries'[i - 1] = entries[i - 1]
          OBVIOUS
        <5>1. i - 1 \in DOMAIN entries /\ i - 1 # meta.next_index
          BY <4>1, <4>b
        <5> QED BY <4>a, <5>1 DEF Put
      <4>4. entries'[meta.next_index] = e
        BY <4>a DEF Put
      <4>5. Len(RowLog) = meta.next_index /\ RowLog \in Seq(Events)
        BY RowLogFacts
      <4>6. RowLog' \in Seq(Events) /\ Len(RowLog') = meta.next_index + 1
        <5>1. RowLog' = [i \in 1..(meta.next_index + 1) |-> entries'[i - 1]]
          BY <4>2 DEF RowLog
        <5>2. \A i \in 1..meta.next_index : entries[i - 1] \in Events
          BY <1>1, <4>1 DEF TypeOK, Inv, StoreConsistent
        <5>3. \A i \in 1..(meta.next_index + 1) : entries'[i - 1] \in Events
          BY <3>1, <4>1, <4>3, <4>4, <5>2
        <5>4. RowLog' \in [1..(meta.next_index + 1) -> Events]
          BY <5>1, <5>3
        <5> QED BY <4>1, <5>4
      <4>7. \A i \in 1..(meta.next_index + 1) : RowLog'[i] = Append(RowLog, e)[i]
        BY <3>1, <4>1, <4>2, <4>3, <4>4, <4>5 DEF RowLog
      <4>8. Append(RowLog, e) \in Seq(Events) /\ Len(Append(RowLog, e)) = meta.next_index + 1
        BY <3>1, <4>1, <4>5
      <4> QED BY <4>6, <4>7, <4>8, SeqEqual
    <3>6. Log!Commit(c)
      BY <3>1, <3>2, <3>3, <3>4, <3>5 DEF Log!Commit
    <3> QED BY <3>6 DEF Log!Next
  <2>8. CASE TransactConflict(c)
    BY <1>6, <2>8 DEF TransactConflict, AppendSteps
  <2>9. CASE ReplyAppended(c)
    BY <1>5, <2>9 DEF ReplyAppended
  <2>10. CASE ReplyConflict(c)
    BY <1>6, <2>10 DEF ReplyConflict, AppendSteps
  <2>11. CASE Recheck(c)
    <3>1. CASE /\ call[c].event.id \notin DOMAIN index
               /\ call[c].tries + 1 < MaxAppendRetries
      <4>1. /\ call'[c] = [call[c] EXCEPT !.pc = "duplicate", !.tries = @ + 1]
            /\ \A d \in Callers \ {c} : call'[d] = call[d]
            /\ reply' = reply
        BY <1>1, <2>11, <3>1 DEF Recheck, TypeOK
      <4>2. /\ call'[c].pc = "duplicate" /\ call'[c].event = call[c].event
            /\ call'[c].landed = call[c].landed
        BY <2>2, <4>1 DEF Calls
      <4> QED BY <1>3, <2>11, <4>1, <4>2 DEF Recheck, AppendSteps
    <3>2. CASE ~(/\ call[c].event.id \notin DOMAIN index
                 /\ call[c].tries + 1 < MaxAppendRetries)
      BY <1>5, <2>11, <3>2 DEF Recheck, AppendSteps
    <3> QED BY <3>1, <3>2
  <2>12. CASE \E e \in Events : CallGet(c, e)
    <3>1. PICK e \in Events : CallGet(c, e)
      BY <2>12
    <3> DEFINE start == [At("find") EXCEPT !.event = e]
    <3>2. start.landed = FALSE /\ start.pc \notin AppendSteps
      BY DEF At, AppendSteps
    <3>3. Call(c, start) /\ UNCHANGED store
      BY <3>1 DEF CallGet
    <3> HIDE DEF start
    <3>4. Log!Forget(c)
      BY <2>3, <3>2, <3>3 DEF Log!Forget, PendingEvents
    <3> QED BY <3>4 DEF Log!Next
  <2>13. CASE FindEvent(c)
    BY <1>5, <1>6, <2>13 DEF FindEvent, AppendSteps
  <2>14. CASE FetchEntry(c)
    BY <1>5, <2>14 DEF FetchEntry
  <2>15. CASE CallList(c)
    <3>1. At("count").landed = FALSE /\ At("count").pc \notin AppendSteps
      BY DEF At, AppendSteps
    <3>2. Log!Forget(c)
      BY <2>3, <2>15, <3>1 DEF CallList, Log!Forget, PendingEvents
    <3> QED BY <3>2 DEF Log!Next
  <2>16. CASE CountEntries(c)
    <3>1. /\ call'[c] = [call[c] EXCEPT !.pc = "list", !.seen = meta]
          /\ \A d \in Callers \ {c} : call'[d] = call[d]
      BY <1>1, <2>16 DEF CountEntries, TypeOK
    <3>2. /\ call'[c].pc = "list" /\ call'[c].event = call[c].event
          /\ call'[c].landed = call[c].landed
      BY <2>2, <3>1 DEF Calls
    <3> QED BY <1>3, <2>16, <3>1, <3>2 DEF CountEntries, AppendSteps
  <2>17. CASE ListEntries(c)
    BY <1>5, <2>17 DEF ListEntries
  <2>18. CASE Open(c)
    BY <1>6, <2>18 DEF Open, AppendSteps
  <2>19. CASE EnsureMetadata(c)
    BY <1>6, <2>19 DEF EnsureMetadata, AppendSteps
  <2>20. CASE CreateMetadata(c)
    <3>1. RowLog' = RowLog
      BY <2>20 DEF CreateMetadata, RowLog, Inv
    <3>2. /\ call'[c].pc = "load" /\ call[c].pc = "create" /\ reply' = reply
          /\ call'[c].event = call[c].event /\ call'[c].landed = call[c].landed
          /\ \A d \in Callers \ {c} : call'[d] = call[d]
      BY <1>1, <2>2, <2>20 DEF CreateMetadata, GoTo, TypeOK, Calls
    <3>3. PendingEvents' = PendingEvents /\ Landed' = Landed
      BY <3>2 DEF PendingEvents, Landed, Appending, AppendSteps
    <3>4. AppendOutcomes' = AppendOutcomes
      BY <3>2 DEF AppendOutcomes
    <3> QED BY <3>1, <3>3, <3>4 DEF Log!vars
  <2>21. CASE FinishOpen(c)
    BY <1>6, <2>21 DEF FinishOpen, AppendSteps
  <2>22. CASE Fail(c)
    BY <1>5, <2>22 DEF Fail
  <2>23. CASE Crash(c)
    <3>1. /\ reply'[c].result = "none"
          /\ \A d \in Callers \ {c} : reply'[d] = reply[d]
      BY <1>1, <2>23 DEF Crash, TypeOK
    <3> QED BY <1>4, <2>23, <3>1 DEF Crash
  <2> QED BY <2>1, <2>4, <2>5, <2>6, <2>7, <2>8, <2>9, <2>10, <2>11, <2>12, <2>13,
             <2>14, <2>15, <2>16, <2>17, <2>18, <2>19, <2>20, <2>21, <2>22, <2>23
             DEF AppendStep, ReadStep, ProcessStep
<1> QED BY <1>7, <1>8

(* The table store implements the append-only log. *)
THEOREM Refinement == Spec => ImplementsAppendOnlyLog
<1>1. Init => Log!Init
  <2> SUFFICES ASSUME Init PROVE Log!Init
    OBVIOUS
  <2>1. RowLog = <<>>
    BY DEF Init, RowLog, NoMetadata
  <2>2. PendingEvents = [c \in Callers |-> {}]
    BY DEF Init, PendingEvents, Appending, At, AppendSteps
  <2>3. Landed = [c \in Callers |-> FALSE]
    BY DEF Init, Landed, At
  <2>4. AppendOutcomes = [c \in Callers |-> "other"]
    BY DEF Init, AppendOutcomes, AppendOutcome
  <2> QED BY <2>1, <2>2, <2>3, <2>4 DEF Log!Init
<1>2. Inv /\ Inv' /\ [Next]_vars => [Log!Next]_(Log!vars)
  BY RefinementStep
<1> QED BY <1>1, <1>2, InductiveInvariant, PTL DEF Spec, ImplementsAppendOnlyLog, Log!Spec

-----------------------------------------------------------------------------
(***************************************************************************)
(* What follows from the promise alone: the proofs use nothing of the      *)
(* table store but that it implements the log.                             *)
(***************************************************************************)

(* The log of the contract keeps its type. *)
LEMMA LogTypeStep ==
  ASSUME Log!TypeOK, [Log!Next]_(Log!vars)
  PROVE  Log!TypeOK'
<1>1. CASE UNCHANGED Log!vars
  BY <1>1 DEF Log!vars, Log!TypeOK
<1>2. ASSUME NEW c \in Callers, NEW e \in Log!Events, Log!Invoke(c, e)
      PROVE  Log!TypeOK'
  BY <1>2 DEF Log!Invoke, Log!TypeOK, Log!Outcomes
<1>3. ASSUME NEW c \in Callers, Log!Commit(c) PROVE Log!TypeOK'
  BY <1>3 DEF Log!Commit, Log!TypeOK
<1>4. ASSUME NEW c \in Callers, NEW o \in Log!Outcomes, Log!Return(c, o)
      PROVE  Log!TypeOK'
  BY <1>4 DEF Log!Return, Log!TypeOK
<1>5. ASSUME NEW c \in Callers, Log!Forget(c) PROVE Log!TypeOK'
  BY <1>5 DEF Log!Forget, Log!TypeOK, Log!Outcomes
<1> QED BY <1>1, <1>2, <1>3, <1>4, <1>5 DEF Log!Next

(* A step leaves the log alone, or puts one event with a new identity at
   its end. *)
LEMMA LogStep ==
  ASSUME Log!TypeOK, [Log!Next]_(Log!vars)
  PROVE  \/ RowLog' = RowLog
         \/ \E e \in Log!Events : e.id \notin Log!LogIds /\ RowLog' = Append(RowLog, e)
<1>1. ASSUME NEW c \in Callers, Log!Commit(c)
      PROVE  \E e \in Log!Events : e.id \notin Log!LogIds /\ RowLog' = Append(RowLog, e)
  BY <1>1 DEF Log!Commit, Log!TypeOK
<1> QED BY <1>1 DEF Log!Next, Log!vars, Log!Invoke, Log!Return, Log!Forget

(* No identity is ever in the log twice, whatever two callers do at once. *)
THEOREM IdsStayUnique == Spec => []Log!UniqueIds
<1>1. Log!Init => Log!TypeOK /\ Log!UniqueIds
  BY DEF Log!Init, Log!TypeOK, Log!UniqueIds, Log!Outcomes
<1>2. Log!TypeOK /\ Log!UniqueIds /\ [Log!Next]_(Log!vars)
      => Log!TypeOK' /\ Log!UniqueIds'
  <2> SUFFICES ASSUME Log!TypeOK, Log!UniqueIds, [Log!Next]_(Log!vars)
               PROVE  Log!UniqueIds'
    BY LogTypeStep
  <2>1. CASE RowLog' = RowLog
    BY <2>1 DEF Log!UniqueIds
  <2>2. ASSUME NEW e \in Log!Events, e.id \notin Log!LogIds, RowLog' = Append(RowLog, e)
        PROVE  Log!UniqueIds'
    <3>1. RowLog \in Seq(Log!Events) /\ Len(RowLog) \in Nat
      BY LenProperties DEF Log!TypeOK
    <3>2. Len(RowLog') = Len(RowLog) + 1 /\ RowLog'[Len(RowLog) + 1] = e
      BY <2>2, <3>1
    <3>3. \A i \in 1..Len(RowLog) : RowLog'[i] = RowLog[i] /\ RowLog[i].id # e.id
      BY <2>2, <3>1 DEF Log!LogIds
    <3> QED BY <3>1, <3>2, <3>3 DEF Log!UniqueIds
  <2> QED BY <2>1, <2>2, LogStep
<1> QED BY <1>1, <1>2, Refinement, PTL DEF ImplementsAppendOnlyLog, Log!Spec

(* The log only grows, one entry at a time, and keeps every entry: what a
   caller has read of it stays true. *)
THEOREM LogIsAppendOnly == Spec => Log!AppendOnly
<1>1. Log!Init => Log!TypeOK
  BY DEF Log!Init, Log!TypeOK, Log!Outcomes
<1>2. Log!TypeOK /\ [Log!Next]_(Log!vars) => Log!TypeOK'
  BY LogTypeStep
<1>3. Log!TypeOK /\ [Log!Next]_(Log!vars) => [Log!GrowsOnly]_(Log!vars)
  <2> SUFFICES ASSUME Log!TypeOK, [Log!Next]_(Log!vars) PROVE Log!GrowsOnly
    OBVIOUS
  <2>1. RowLog \in Seq(Log!Events) /\ Len(RowLog) \in Nat
    BY LenProperties DEF Log!TypeOK
  <2>2. CASE RowLog' = RowLog
    BY <2>1, <2>2 DEF Log!GrowsOnly
  <2>3. ASSUME NEW e \in Log!Events, RowLog' = Append(RowLog, e) PROVE Log!GrowsOnly
    <3>1. /\ Len(RowLog') = Len(RowLog) + 1
          /\ \A i \in 1..Len(RowLog) : RowLog'[i] = RowLog[i]
      BY <2>1, <2>3
    <3> QED BY <2>1, <3>1 DEF Log!GrowsOnly
  <2> QED BY <2>2, <2>3, LogStep
<1> QED BY <1>1, <1>2, <1>3, Refinement, PTL
    DEF ImplementsAppendOnlyLog, Log!Spec, Log!AppendOnly
=============================================================================
