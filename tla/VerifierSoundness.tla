------------------------- MODULE VerifierSoundness -------------------------
(***************************************************************************)
(* What the verdict of the verifier is worth.  A verifier holds a bundle   *)
(* and the answers of a server whose database may have been restored or    *)
(* rewritten since, and each part of which may have been mixed up with     *)
(* that of another event, another size or another log.  The signed heads   *)
(* are genuine.                                                            *)
(***************************************************************************)
EXTENDS Verifier

CONSTANTS MaxSize,      \* bound: leaves of a tree
          MaxDamage     \* bound: parts that are wrong

ASSUME BoundsAssumption == MaxSize \in Nat \ {0} /\ MaxDamage \in Nat

VARIABLES signed_log,   \* the log when the bundle's head was signed
          current,      \* the log when the latest head was signed
          bundle, consistency,
          damage        \* parts changed so far

verifierVars == <<signed_log, current, bundle, consistency, damage>>

\* The events 1, 2, ... in the order of their append.
Grown(n) == [i \in 1..n |-> i]
EntryIds == 1..(MaxSize + 1)

\* A log that has only grown, has lost its tail, or has lost an entry.
Logs == {Grown(n) : n \in 1..MaxSize}
          \cup {[i \in 1..n |-> IF i < k THEN i ELSE i + 1]
                  : n \in 1..MaxSize, k \in 1..MaxSize}

\* The server derives the proof from its current log.
HonestConsistency(from, log) ==
  GenerateConsistencyProof(log, IF from <= Len(log) THEN from ELSE Len(log))

VerifierInit ==
  /\ signed_log \in {Grown(n) : n \in 1..MaxSize}
  /\ current \in Logs
  /\ \E i \in 0..(Len(signed_log) - 1) :
       bundle = Bundle(signed_log[i + 1], TreeHead(signed_log, 0),
                       GenerateInclusionProof(signed_log, i))
  /\ consistency = HonestConsistency(Len(signed_log), current)
  /\ damage = 0

Damage == damage < MaxDamage /\ damage' = damage + 1

\* The bundle is judged without the latest head, so it need not vary with it.
DamageBundle ==
  /\ Damage
  /\ current = signed_log
  /\ UNCHANGED <<signed_log, current, consistency>>

DamageConsistency == Damage /\ UNCHANGED <<signed_log, current, bundle>>

WrongEvent(e) ==
  /\ DamageBundle
  /\ bundle' = [bundle EXCEPT !.event = e, !.event_hash = e, !.leaf_hash = LeafHash(e)]

\* An interior hash where a leaf hash belongs.
WrongLeaf(e, n) ==
  /\ DamageBundle
  /\ bundle' = [bundle EXCEPT !.inclusion_proof.leaf_hash =
                  IF n = 0 THEN LeafHash(e) ELSE MerkleRoot(LeafHashes(Grown(n)))]

WrongPlace(size, index) ==
  /\ DamageBundle
  /\ bundle' = [bundle EXCEPT !.inclusion_proof.tree_size = size,
                              !.inclusion_proof.leaf_index = index]

WrongPath(n, i) ==
  /\ DamageBundle
  /\ bundle' = [bundle EXCEPT !.inclusion_proof.audit_path =
                  AuditPath(LeafHashes(Grown(n)), i)]

ShortPath ==
  /\ DamageBundle
  /\ bundle.inclusion_proof.audit_path # <<>>
  /\ bundle' = [bundle EXCEPT !.inclusion_proof.audit_path = Tail(@)]

WrongRoot(n) ==
  /\ DamageBundle
  /\ bundle' = [bundle EXCEPT !.inclusion_proof.root_hash =
                  MerkleRoot(LeafHashes(Grown(n)))]

WrongConsistency(log, from) ==
  /\ DamageConsistency
  /\ consistency' = HonestConsistency(from, log)

WrongOldRoot(log) ==
  /\ DamageConsistency
  /\ consistency' = [consistency EXCEPT !.previous_root_hash = MerkleRoot(LeafHashes(log))]

VerifierNext ==
  \/ \E e \in EntryIds : WrongEvent(e)
  \/ \E e \in EntryIds, n \in 0..MaxSize : WrongLeaf(e, n)
  \/ \E size \in 1..MaxSize + 1, index \in 0..MaxSize : WrongPlace(size, index)
  \/ \E n \in 1..MaxSize : \E i \in 0..(n - 1) : WrongPath(n, i)
  \/ ShortPath
  \/ \E n \in 1..MaxSize : WrongRoot(n)
  \/ \E log \in Logs, from \in 1..MaxSize : WrongConsistency(log, from)
  \/ \E log \in Logs : WrongOldRoot(log)

VerifierSpec == VerifierInit /\ [][VerifierNext]_verifierVars

-----------------------------------------------------------------------------

Accepted == Failed(OfflineChecks(bundle, 0)) = {}

(* A bundle that passes the offline checks tells the truth about its event,
   index included: the event is the entry of the log at leaf_index under the
   signed head (service.py 226-276, proofs.py 146-181).  The proof alone does
   not fix the index: one path may serve trees of two sizes. *)
AcceptedIsIncluded ==
  Accepted =>
    /\ bundle.inclusion_proof.leaf_index < Len(signed_log)
    /\ signed_log[bundle.inclusion_proof.leaf_index + 1] = bundle.event

(* A log that continuity was verified for has kept every entry up to the
   checkpoint: no rollback, no rewritten and no dropped entry passes
   (service.py 469-518, proofs.py 184-213). *)
ContinuousIsExtension ==
  Continuity(bundle.tree_head, TreeHead(current, 0), consistency) =>
    Prefix(current, Len(signed_log)) = signed_log

(* An untouched bundle passes, and so does an untouched consistency proof of
   a log that has only grown, for every size and index: the generator and the
   verifier split the tree alike (merkle.py 46-110, proofs.py 216-223). *)
HonestIsAccepted ==
  damage = 0 =>
    /\ Accepted
    /\ Len(current) >= Len(signed_log) /\ Prefix(current, Len(signed_log)) = signed_log
         => Continuity(bundle.tree_head, TreeHead(current, 0), consistency)

-----------------------------------------------------------------------------
(* The inductive invariant.                                                *)

IsList(s) == Len(s) \in Nat /\ s = [i \in 1..Len(s) |-> s[i]]

(* The parts of an inclusion proof; its hashes have no type of their own. *)
IsInclusionProof(p) ==
  /\ p = [tree_size |-> p.tree_size, leaf_index |-> p.leaf_index,
          leaf_hash |-> p.leaf_hash, root_hash |-> p.root_hash,
          audit_path |-> p.audit_path]
  /\ p.leaf_index \in Nat
  /\ IsList(p.audit_path)

IsConsistencyProof(p) ==
  /\ p = [previous_tree_size |-> p.previous_tree_size,
          latest_tree_size |-> p.latest_tree_size,
          previous_root_hash |-> p.previous_root_hash,
          latest_root_hash |-> p.latest_root_hash,
          leaf_hashes |-> p.leaf_hashes]
  /\ IsList(p.leaf_hashes)

\* A bundle with head h.
IsBundle(b, h) ==
  /\ b = [event |-> b.event, event_hash |-> b.event_hash, leaf_hash |-> b.leaf_hash,
          tree_head |-> h, inclusion_proof |-> b.inclusion_proof]
  /\ IsInclusionProof(b.inclusion_proof)

(* Whatever was mixed up, the head of the bundle is the one that was signed,
   and nothing was mixed up before the first damage. *)
VerifierInv ==
  /\ signed_log \in Seq(EntryIds) /\ current \in Seq(EntryIds)
  /\ IsBundle(bundle, TreeHead(signed_log, 0))
  /\ IsConsistencyProof(consistency)
  /\ damage \in Nat
  /\ damage = 0 => VerifierInit

=============================================================================
