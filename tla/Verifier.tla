------------------------------ MODULE Verifier ------------------------------
(***************************************************************************)
(* The checks of the ETS verifier (ets/verifier/service.py) on what a log  *)
(* server hands out: a bundle (event, its hashes, tree head and inclusion  *)
(* proof), the latest tree head and a consistency proof.                   *)
(*                                                                         *)
(* A tree head is signed over all its fields and the verifier trusts the   *)
(* key, so heads are what the log signed; keys, their validity and the     *)
(* identity of the log are left out.                                       *)
(***************************************************************************)
EXTENDS Merkle

CONSTANT MaxSkew      \* max_future_skew_seconds

ASSUME SkewAssumption == MaxSkew \in Nat

TreeHead(log, created_at) ==
  [tree_size |-> Len(log), root_hash |-> MerkleRoot(LeafHashes(log)),
   created_at |-> created_at]

Bundle(event, tree_head, inclusion_proof) ==
  [event |-> event, event_hash |-> event, leaf_hash |-> LeafHash(event),
   tree_head |-> tree_head, inclusion_proof |-> inclusion_proof]

\* Mutant: the head and the proof are bound by their roots only.
OfflineChecksRootOnly(b, verified_at) ==
  [event_hash              |-> b.event = b.event_hash,
   leaf_binding            |-> LeafHash(b.event) = b.leaf_hash,
   proof_leaf_binding      |-> b.inclusion_proof.leaf_hash = b.leaf_hash,
   inclusion_proof         |-> VerifyInclusionProof(b.inclusion_proof),
   checkpoint_root_binding |-> b.tree_head.root_hash = b.inclusion_proof.root_hash,
   checkpoint_size_binding |-> TRUE,
   checkpoint_time         |-> b.tree_head.created_at <= verified_at + MaxSkew]

\* verify_offline_bundle: each check by its code.
OfflineChecks(b, verified_at) ==
  [event_hash              |-> b.event = b.event_hash,
   leaf_binding            |-> LeafHash(b.event) = b.leaf_hash,
   proof_leaf_binding      |-> b.inclusion_proof.leaf_hash = b.leaf_hash,
   inclusion_proof         |-> VerifyInclusionProof(b.inclusion_proof),
   checkpoint_root_binding |-> b.tree_head.root_hash = b.inclusion_proof.root_hash,
   checkpoint_size_binding |-> b.tree_head.tree_size = b.inclusion_proof.tree_size,
   checkpoint_time         |-> b.tree_head.created_at <= verified_at + MaxSkew]

\* Does verify_online_event ask for a consistency proof at all?
NeedsConsistencyProof(previous, latest) == latest.tree_size > previous.tree_size

\* Mutant: any valid proof will do, whatever heads it is about.
ContinuityUnbound(previous, latest, proof) ==
  IF NeedsConsistencyProof(previous, latest)
    THEN VerifyConsistencyProof(proof)
    ELSE /\ latest.tree_size = previous.tree_size
         /\ latest.root_hash = previous.root_hash

\* The check append_only_continuity, with the answer to that request.
Continuity(previous, latest, proof) ==
  IF NeedsConsistencyProof(previous, latest)
    THEN /\ VerifyConsistencyProof(proof)
         /\ proof.previous_tree_size = previous.tree_size
         /\ proof.latest_tree_size = latest.tree_size
         /\ proof.previous_root_hash = previous.root_hash
         /\ proof.latest_root_hash = latest.root_hash
    ELSE /\ latest.tree_size = previous.tree_size
         /\ latest.root_hash = previous.root_hash

\* The checks that verify_online_event adds.
OnlineChecks(previous, latest, proof, verified_at) ==
  [latest_checkpoint_time        |-> latest.created_at >= previous.created_at,
   latest_checkpoint_future_skew |-> latest.created_at <= verified_at + MaxSkew,
   append_only_continuity        |-> Continuity(previous, latest, proof)]

Failed(checks) == {code \in DOMAIN checks : ~checks[code]}

=============================================================================
