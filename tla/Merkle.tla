------------------------------- MODULE Merkle -------------------------------
(***************************************************************************)
(* The Merkle tree of the log and its proofs (ets/core/merkle.py,          *)
(* ets/core/proofs.py).                                                    *)
(*                                                                         *)
(* SHA-256 is taken to be free of collisions: a digest is the term that    *)
(* was hashed, with its domain prefix as a tag.  An event stands for its   *)
(* canonical event hash.  Lists keep the indexes of the code, which start  *)
(* at 0, in every number; only the TLA+ sequences start at 1.              *)
(*                                                                         *)
(* The recursions on a slice of the leaves are functions of the slice's    *)
(* size and then of where it starts.                                       *)
(***************************************************************************)
EXTENDS Naturals, Sequences

LeafHash(event) == <<"leaf", event>>
HashPair(left, right) == <<"node", left, right>>
EmptyTreeRoot == <<"empty">>

\* leaves[:n] of Python, which stops at the end of the list.
Prefix(s, n) == [i \in 1..(IF n < Len(s) THEN n ELSE Len(s)) |-> s[i]]

LeafHashes(log) == [i \in 1..Len(log) |-> LeafHash(log[i])]

\* The largest power of two below n, for n >= 2.
SplitPoint(n) ==
  LET grow[k \in 1..n] == IF k * 2 < n THEN grow[k * 2] ELSE k IN grow[1]

\* The hash of the n leaves that start at index lo.
SubtreeHash(leaves, lo, n) ==
  LET hash[size \in Nat \ {0}] == [a \in Nat |->
        IF size = 1
          THEN leaves[a + 1]
          ELSE LET k == SplitPoint(size)
               IN HashPair(hash[k][a], hash[size - k][a + k])]
  IN hash[n][lo]

MerkleRoot(leaves) ==
  IF leaves = <<>> THEN EmptyTreeRoot ELSE SubtreeHash(leaves, 0, Len(leaves))

\* Mutant: the first leaf of a right subtree is looked for in the left one.
AuditPathOffByOne(leaves, index) ==
  LET path[size \in Nat \ {0}] == [lo \in Nat |->
        IF size = 1
          THEN <<>>
          ELSE LET k == SplitPoint(size)
               IN IF index <= lo + k
                    THEN Append(path[k][lo],
                                [position |-> "right",
                                 hash |-> SubtreeHash(leaves, lo + k, size - k)])
                    ELSE Append(path[size - k][lo + k],
                                [position |-> "left",
                                 hash |-> SubtreeHash(leaves, lo, k)])]
  IN path[Len(leaves)][0]

\* The sibling hashes from the leaf up to the root.
AuditPath(leaves, index) ==
  LET path[size \in Nat \ {0}] == [lo \in Nat |->
        IF size = 1
          THEN <<>>
          ELSE LET k == SplitPoint(size)
               IN IF index < lo + k
                    THEN Append(path[k][lo],
                                [position |-> "right",
                                 hash |-> SubtreeHash(leaves, lo + k, size - k)])
                    ELSE Append(path[size - k][lo + k],
                                [position |-> "left",
                                 hash |-> SubtreeHash(leaves, lo, k)])]
  IN path[Len(leaves)][0]

ComputeRootFromAuditPath(leaf, path) ==
  LET current[i \in Nat] ==
        IF i = 0 THEN leaf
        ELSE IF path[i].position = "left" THEN HashPair(path[i].hash, current[i - 1])
        ELSE HashPair(current[i - 1], path[i].hash)
  IN current[Len(path)]

ExpectedPositions(tree_size, leaf_index) ==
  LET positions[size \in Nat] == [index \in Nat |->
        IF size <= 1
          THEN <<>>
          ELSE LET k == SplitPoint(size)
               IN IF index < k
                    THEN Append(positions[k][index], "right")
                    ELSE Append(positions[size - k][index - k], "left")]
  IN positions[tree_size][leaf_index]

Positions(path) == [i \in 1..Len(path) |-> path[i].position]

-----------------------------------------------------------------------------

GenerateInclusionProof(log, leaf_index) ==
  LET leaves == LeafHashes(log)
  IN [tree_size |-> Len(leaves), leaf_index |-> leaf_index,
      leaf_hash |-> leaves[leaf_index + 1], root_hash |-> MerkleRoot(leaves),
      audit_path |-> AuditPath(leaves, leaf_index)]

\* Mutant: the path may turn left or right wherever it likes.
VerifyInclusionAnyPath(proof) ==
  /\ proof.leaf_index < proof.tree_size
  /\ ComputeRootFromAuditPath(proof.leaf_hash, proof.audit_path) = proof.root_hash

VerifyInclusionProof(proof) ==
  /\ proof.leaf_index < proof.tree_size
  /\ Positions(proof.audit_path) =
       ExpectedPositions(proof.tree_size, proof.leaf_index)
  /\ ComputeRootFromAuditPath(proof.leaf_hash, proof.audit_path) = proof.root_hash

\* Defined for previous_tree_size <= Len(log); the code raises otherwise.
GenerateConsistencyProof(log, previous_tree_size) ==
  LET leaves == LeafHashes(log)
  IN [previous_tree_size |-> previous_tree_size,
      latest_tree_size |-> Len(leaves),
      previous_root_hash |-> MerkleRoot(Prefix(leaves, previous_tree_size)),
      latest_root_hash |-> MerkleRoot(leaves),
      leaf_hashes |-> leaves]

\* Mutant: the older root is believed.
VerifyConsistencyLatestOnly(proof) ==
  /\ proof.previous_tree_size <= proof.latest_tree_size
  /\ Len(proof.leaf_hashes) = proof.latest_tree_size
  /\ MerkleRoot(proof.leaf_hashes) = proof.latest_root_hash

VerifyConsistencyProof(proof) ==
  /\ proof.previous_tree_size <= proof.latest_tree_size
  /\ Len(proof.leaf_hashes) = proof.latest_tree_size
  /\ MerkleRoot(Prefix(proof.leaf_hashes, proof.previous_tree_size)) =
       proof.previous_root_hash
  /\ MerkleRoot(proof.leaf_hashes) = proof.latest_root_hash

=============================================================================
