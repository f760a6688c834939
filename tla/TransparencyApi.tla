--------------------------- MODULE TransparencyApi ---------------------------
(***************************************************************************)
(* The transparency endpoints of ETS Core (ets/api/app.py) under way at    *)
(* the same time, and the online verifier that uses them                   *)
(* (verify_online_event of ets/verifier/service.py).                       *)
(*                                                                         *)
(* Reading endpoints run on a thread pool, appends on the event loop or in *)
(* another replica.  Each call of the event store is one step, and does    *)
(* what AppendOnlyLog promises; an endpoint that calls the store twice may *)
(* see two logs.  Scopes, authorization, metrics and audit lines are left  *)
(* out, and an append of an event that is present (409) changes nothing.   *)
(*                                                                         *)
(* There are two clocks.  Core's stamps every tree head and does not run   *)
(* backwards; the verifier runs on another host, and the time it judges    *)
(* heads by has no relation to Core's.                                     *)
(***************************************************************************)
EXTENDS Verifier

CONSTANTS Events,       \* events, each with an identity of its own
          Clients,      \* requests and verifications under way
          MaxTime       \* bound on the readings of both clocks

ASSUME ApiAssumption == MaxTime \in Nat /\ Events # {}

VARIABLES
  log,          \* the entries of the event store
  now,          \* Core's clock, which stamps the heads
  pc, op,       \* what client c is doing, and in which request
  event,        \* event[c]: the event that is appended or verified
  index,        \* index[c]: its log_index
  began,        \* began[c]: verified_at, by the verifier's clock
  head,         \* head[c]: the tree head that was last made for c
  checkpoint,   \* checkpoint[c]: the tree head of c's bundle
  proof,        \* proof[c]: the inclusion proof of c's bundle
  failed        \* failed[c]: the checks that failed

store == <<log, now>>
vars == <<store, pc, op, event, index, began, head, checkpoint, proof, failed>>

Steps == {"entry", "list", "sign", "prove", "offline", "continuity"}

\* The checks of OfflineChecks and OnlineChecks.
Codes == {"event_hash", "leaf_binding", "proof_leaf_binding", "inclusion_proof",
          "checkpoint_root_binding", "checkpoint_size_binding", "checkpoint_time",
          "latest_checkpoint_time", "latest_checkpoint_future_skew",
          "append_only_continuity"}

AnyEvent == CHOOSE e \in Events : TRUE
NoHead == TreeHead(<<>>, 0)
NoProof == GenerateInclusionProof(<<AnyEvent>>, 0)
Logged == {log[i] : i \in 1..Len(log)}

TypeOK ==
  /\ log \in Seq(Events)
  /\ now \in 0..MaxTime
  /\ pc \in [Clients -> {"idle", "done"} \cup Steps]
  /\ op \in [Clients -> {"append", "bundle", "latest"}]
  /\ event \in [Clients -> Events]
  /\ index \in [Clients -> Nat]
  /\ began \in [Clients -> 0..MaxTime]
  /\ failed \in [Clients -> SUBSET Codes]

Init ==
  /\ log = <<>>
  /\ now = 0
  /\ pc = [c \in Clients |-> "idle"]
  /\ op = [c \in Clients |-> "append"]
  /\ event = [c \in Clients |-> AnyEvent]
  /\ index = [c \in Clients |-> 0]
  /\ began = [c \in Clients |-> 0]
  /\ head = [c \in Clients |-> NoHead]
  /\ checkpoint = [c \in Clients |-> NoHead]
  /\ proof = [c \in Clients |-> NoProof]
  /\ failed = [c \in Clients |-> {}]

GoTo(c, step) == pc' = [pc EXCEPT ![c] = step]

\* A new request, or none, with nothing left of the one before.
Begin(c, step, request, e, i, time) ==
  /\ GoTo(c, step)
  /\ op' = [op EXCEPT ![c] = request]
  /\ event' = [event EXCEPT ![c] = e]
  /\ index' = [index EXCEPT ![c] = i]
  /\ began' = [began EXCEPT ![c] = time]
  /\ head' = [head EXCEPT ![c] = NoHead]
  /\ checkpoint' = [checkpoint EXCEPT ![c] = NoHead]
  /\ proof' = [proof EXCEPT ![c] = NoProof]
  /\ failed' = [failed EXCEPT ![c] = {}]

End(c) == Begin(c, "idle", "append", AnyEvent, 0, 0)

-----------------------------------------------------------------------------
(* The endpoints.                                                          *)

\* Mutant: the row id, which starts at 1, is taken for the index.
AppendEventRowId(c, e) ==
  /\ pc[c] \in {"idle", "done"}
  /\ e \notin Logged
  /\ log' = Append(log, e)
  /\ Begin(c, "list", "append", e, Len(log) + 1, 0)
  /\ UNCHANGED now

\* append_event; its tree head comes next.
AppendEvent(c, e) ==
  /\ pc[c] \in {"idle", "done"}
  /\ e \notin Logged
  /\ log' = Append(log, e)
  /\ Begin(c, "list", "append", e, Len(log), 0)
  /\ UNCHANGED now

\* Mutant: rows are counted from one too low.
GetEntryMinusOne(c) ==
  /\ pc[c] = "entry"
  /\ \E i \in 1..Len(log) :
       /\ log[i] = event[c]
       /\ index' = [index EXCEPT ![c] = i - 2]
  /\ GoTo(c, "list")
  /\ UNCHANGED <<store, op, event, began, head, checkpoint, proof, failed>>

\* get_by_event_id of get_proof_bundle.
GetEntry(c) ==
  /\ pc[c] = "entry"
  /\ \E i \in 1..Len(log) :
       /\ log[i] = event[c]
       /\ index' = [index EXCEPT ![c] = i - 1]
  /\ GoTo(c, "list")
  /\ UNCHANGED <<store, op, event, began, head, checkpoint, proof, failed>>

\* _tree_head lists the log, then takes the time, then signs.
ListLeaves(c) ==
  /\ pc[c] = "list"
  /\ head' = [head EXCEPT ![c] = TreeHead(log, 0)]
  /\ GoTo(c, "sign")
  /\ UNCHANGED <<store, op, event, index, began, checkpoint, proof, failed>>

\* Where the three users of _tree_head go on.
AfterHead(c) ==
  CASE op[c] = "append" -> "done"
    [] op[c] = "bundle" -> "prove"
    [] op[c] = "latest" -> "continuity"

\* Mutant: the size is counted again when the head is signed.
SignHeadRecounts(c) ==
  /\ pc[c] = "sign"
  /\ head' = [head EXCEPT ![c] = [tree_size |-> Len(log), root_hash |-> @.root_hash,
                                  created_at |-> now]]
  /\ GoTo(c, AfterHead(c))
  /\ UNCHANGED <<store, op, event, index, began, checkpoint, proof, failed>>

SignHead(c) ==
  /\ pc[c] = "sign"
  /\ head' = [head EXCEPT ![c] = [tree_size |-> @.tree_size, root_hash |-> @.root_hash,
                                  created_at |-> now]]
  /\ GoTo(c, AfterHead(c))
  /\ UNCHANGED <<store, op, event, index, began, checkpoint, proof, failed>>

\* Mutant: the proof is made for the log as it was when the event came.
ProveOldest(c) ==
  /\ pc[c] = "prove"
  /\ checkpoint' = [checkpoint EXCEPT ![c] = head[c]]
  /\ proof' = [proof EXCEPT ![c] =
                 GenerateInclusionProof(Prefix(log, index[c] + 1), index[c])]
  /\ GoTo(c, "offline")
  /\ UNCHANGED <<store, op, event, index, began, head, failed>>

\* The rest of get_proof_bundle, which lists the log a second time.
Prove(c) ==
  /\ pc[c] = "prove"
  /\ checkpoint' = [checkpoint EXCEPT ![c] = head[c]]
  /\ proof' = [proof EXCEPT ![c] = GenerateInclusionProof(log, index[c])]
  /\ GoTo(c, "offline")
  /\ UNCHANGED <<store, op, event, index, began, head, failed>>

\* Mutant: to_size is ignored.
ConsistencyProofWhole(from_size, to_size) ==
  GenerateConsistencyProof(log, from_size)

\* get_consistency_proof.
ConsistencyProof(from_size, to_size) ==
  GenerateConsistencyProof(Prefix(log, to_size), from_size)

\* Any request may fail: no such event, an error status, a timeout, the
\* signing service.
RequestFails(c) ==
  /\ pc[c] \in Steps \ {"offline"}
  /\ End(c)
  /\ UNCHANGED store

-----------------------------------------------------------------------------
(* verify_online_event.                                                    *)

\* verified_at is the verifier's own reading, before its first request.
VerifyOnline(c, e, verified_at) ==
  /\ pc[c] \in {"idle", "done"}
  /\ Begin(c, "entry", "bundle", e, 0, verified_at)
  /\ UNCHANGED store

BundleOf(c) == Bundle(event[c], checkpoint[c], proof[c])

\* With a good bundle, on to GET /api/v1/log/head.
VerifyOffline(c) ==
  LET failures == Failed(OfflineChecks(BundleOf(c), began[c])) IN
  /\ pc[c] = "offline"
  /\ failed' = [failed EXCEPT ![c] = failures]
  /\ IF failures = {}
       THEN op' = [op EXCEPT ![c] = "latest"] /\ GoTo(c, "list")
       ELSE UNCHANGED op /\ GoTo(c, "done")
  /\ UNCHANGED <<store, event, index, began, head, checkpoint, proof>>

VerifyContinuity(c) ==
  /\ pc[c] = "continuity"
  /\ failed' = [failed EXCEPT ![c] =
       Failed(OnlineChecks(checkpoint[c], head[c],
                           ConsistencyProof(checkpoint[c].tree_size, head[c].tree_size),
                           began[c]))]
  /\ GoTo(c, "done")
  /\ UNCHANGED <<store, op, event, index, began, head, checkpoint, proof>>

\* Core's clock goes on.
Tick ==
  /\ now < MaxTime
  /\ now' = now + 1
  /\ UNCHANGED <<log, pc, op, event, index, began, head, checkpoint, proof, failed>>

ClientStep(c) ==
  \/ \E e \in Events : AppendEvent(c, e)
  \/ \E e \in Events, verified_at \in 0..MaxTime : VerifyOnline(c, e, verified_at)
  \/ GetEntry(c)
  \/ ListLeaves(c)
  \/ SignHead(c)
  \/ Prove(c)
  \/ VerifyOffline(c)
  \/ VerifyContinuity(c)
  \/ RequestFails(c)

Next == Tick \/ \E c \in Clients : ClientStep(c)

Spec == Init /\ [][Next]_vars

-----------------------------------------------------------------------------

IsHeadOfPrefix(h) ==
  /\ h.tree_size \in 0..Len(log)
  /\ h.root_hash = MerkleRoot(LeafHashes(Prefix(log, h.tree_size)))

(* Every tree head that was signed is the head of a prefix of the log, and
   stays so: however the listing and the signing interleave with appends, no
   signature is ever given on a log that did not exist (app.py 1153-1172). *)
HeadsArePrefixes ==
  \A c \in Clients : IsHeadOfPrefix(head[c]) /\ IsHeadOfPrefix(checkpoint[c])

(* The tree head in the response to an append covers the event that was
   appended: its index, the entry there and the size of the head agree
   (app.py 571-586). *)
AckCoversEvent ==
  \A c \in Clients : op[c] = "append" /\ pc[c] \in {"sign", "done"} =>
    index[c] < head[c].tree_size /\ log[index[c] + 1] = event[c]

(* The online verifier never accuses a log that only grows: neither of a
   rollback, a fork or a clock that runs backwards, nor of a bundle for
   another event, nor of an audit path that does not lead to its root,
   whatever is appended between its three requests (service.py 232-256 and
   425-518, app.py 804-851). *)
NoFalseAlarm ==
  \A c \in Clients :
    failed[c] \cap {"event_hash", "leaf_binding", "proof_leaf_binding",
                    "inclusion_proof", "latest_checkpoint_time",
                    "append_only_continuity"} = {}

RefusalExplained(c) ==
  pc[c] = "done" =>
    /\ failed[c] \cap {"checkpoint_root_binding", "checkpoint_size_binding"} # {}
         => checkpoint[c].tree_size < proof[c].tree_size
    /\ failed[c] \cap {"checkpoint_time", "latest_checkpoint_future_skew"} # {}
         => began[c] + MaxSkew < now

(* What an honest log can be refused for.  A binding of the bundle fails only
   through an append between the two listings of get_proof_bundle (app.py
   809-810).  A time fails only if Core's clock has passed verified_at by more
   than max_future_skew_seconds (service.py 289-297, 433-441), so that what
   the verifier's clock is behind and what its requests take exceed the skew
   together: within it, no order of requests and appends refuses a head. *)
RefusedOnlyByRaceOrSkew == \A c \in Clients : RefusalExplained(c)

-----------------------------------------------------------------------------
(* The inductive invariant.                                                *)

(* head, checkpoint and proof are functions on Clients; the hashes in them
   have no type of their own. *)
AreFunctions ==
  /\ head = [c \in Clients |-> head[c]]
  /\ checkpoint = [c \in Clients |-> checkpoint[c]]
  /\ proof = [c \in Clients |-> proof[c]]

(* No head is stamped with a time that is still to come. *)
StampsArePast ==
  \A c \in Clients :
    head[c].created_at \in 0..now /\ checkpoint[c].created_at \in 0..now

(* The index that c holds is that of its event. *)
AtIndex(c) ==
  index[c] < Len(log) /\ log[index[c] + 1] = event[c]

(* What each step of c may rely on: the entry it has looked up or appended,
   a head made after the entry, and for the last step a head that is neither
   smaller nor older than the one in the bundle. *)
ClientConsistent(c) ==
  /\ op[c] = "append" => failed[c] = {}
  /\ op[c] = "append" /\ pc[c] \in {"list", "sign", "done"} => AtIndex(c)
  /\ op[c] = "append" /\ pc[c] \in {"sign", "done"} =>
       index[c] < head[c].tree_size
  /\ op[c] = "bundle" /\ pc[c] \in {"list", "sign", "prove"} => AtIndex(c)
  /\ pc[c] \in {"prove", "offline"} => op[c] = "bundle"
  /\ pc[c] = "entry" => op[c] = "bundle"
  /\ pc[c] = "continuity" => op[c] = "latest"
  /\ pc[c] = "offline" =>
       /\ IsHeadOfPrefix(proof[c])
       /\ proof[c].leaf_hash = LeafHash(event[c])
       /\ VerifyInclusionProof(proof[c])
       /\ checkpoint[c].tree_size <= proof[c].tree_size
  /\ op[c] = "latest" /\ pc[c] \in {"sign", "continuity"} =>
       checkpoint[c].tree_size <= head[c].tree_size
  /\ pc[c] = "continuity" => checkpoint[c].created_at <= head[c].created_at

Inv ==
  /\ TypeOK
  /\ AreFunctions
  /\ StampsArePast
  /\ HeadsArePrefixes
  /\ \A c \in Clients : ClientConsistent(c)
  /\ NoFalseAlarm
  /\ RefusedOnlyByRaceOrSkew

=============================================================================
