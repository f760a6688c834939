------------------------- MODULE Transparency_proofs -------------------------
(***************************************************************************)
(* Proofs about the Merkle tree (Merkle), what a verdict of the verifier   *)
(* is worth (VerifierSoundness) and the clients of a live log              *)
(* (TransparencyApi), for logs, paths, damage and clients of any number.   *)
(*                                                                         *)
(* The recursive functions of Merkle are handled alike: the function that  *)
(* a LET defines is the Fixpoint of an instance of RecursiveFunctions,     *)
(* whose theorem gives the equation that defines it; from then on only     *)
(* that equation is used, with strong induction on the size of the tree.   *)
(***************************************************************************)
EXTENDS TransparencyApi, VerifierSoundness, SequenceTheorems, TLAPS

(***************************************************************************)
(* The split point.  grow of SplitPoint is the fixpoint of GrowStep.       *)
(***************************************************************************)
GrowDom(n) == 1..n
GrowMeasure(n, k) == n - k
GrowStep(n, f, k) == IF k * 2 < n THEN f[k * 2] ELSE k

Grow == INSTANCE RecursiveFunctions WITH
          Dom <- GrowDom, Measure <- GrowMeasure, Step <- GrowStep

(* The search for the split point, by its own equation (split_point,
   merkle.py 80-88). *)
LEMMA GrowEquation ==
  ASSUME NEW n \in Nat
  PROVE  Grow!Fixpoint(n) =
           [k \in 1..n |-> IF k * 2 < n THEN Grow!Fixpoint(n)[k * 2] ELSE k]
<1>1. ASSUME NEW k \in 1..n, NEW f, NEW g,
             \A j \in Grow!Below(n, n - k) : f[j] = g[j]
      PROVE  GrowStep(n, f, k) = GrowStep(n, g, k)
  BY <1>1 DEF GrowStep, Grow!Below, GrowDom, GrowMeasure
<1>2. Grow!WellFounded(n)
  BY <1>1 DEF Grow!WellFounded, GrowDom, GrowMeasure
<1> QED BY <1>2, Grow!FixpointEquation DEF GrowDom, GrowStep

(* The split point is the largest power of two below the size, as split_point
   promises (merkle.py 81): it is below the size and its double is not, and it
   lies in every set that holds 1 and the double of each member. *)
THEOREM SplitPointIsLargestPower ==
  ASSUME NEW n \in Nat, n >= 2
  PROVE  /\ SplitPoint(n) < n /\ n <= SplitPoint(n) * 2
         /\ SplitPoint(n) \in Nat \ {0}
         /\ \A P : 1 \in P /\ (\A k \in P : k * 2 \in P) => SplitPoint(n) \in P
<1> SUFFICES ASSUME NEW P PROVE
      /\ SplitPoint(n) < n /\ n <= SplitPoint(n) * 2
      /\ SplitPoint(n) \in Nat \ {0}
      /\ 1 \in P /\ (\A k \in P : k * 2 \in P) => SplitPoint(n) \in P
  OBVIOUS
<1> DEFINE grow == Grow!Fixpoint(n)
           Doubles == \A k \in P : k * 2 \in P
           Good(k) == /\ grow[k] \in 1..(n - 1) /\ n <= grow[k] * 2
                      /\ Doubles /\ k \in P => grow[k] \in P
           S == {m \in Nat : \A k \in 1..(n - 1) : n - k = m => Good(k)}
<1>1. SplitPoint(n) = grow[1]
  BY DEF SplitPoint, Grow!Fixpoint, GrowDom, GrowStep
<1>2. \A k \in 1..n : grow[k] = IF k * 2 < n THEN grow[k * 2] ELSE k
  BY GrowEquation
<1> HIDE DEF grow
<1>3. ASSUME NEW m \in Nat, \A j \in 0..(m - 1) : j \in S
      PROVE  m \in S
  <2> SUFFICES ASSUME NEW k \in 1..(n - 1), n - k = m
               PROVE  Good(k)
    OBVIOUS
  <2>1. CASE k * 2 < n
    <3>1. k * 2 \in 1..(n - 1) /\ n - k * 2 \in 0..(m - 1)
      BY <2>1
    <3>2. Good(k * 2)
      BY <3>1, <1>3
    <3>3. grow[k] = grow[k * 2]
      BY <1>2, <2>1
    <3>4. Doubles /\ k \in P => k * 2 \in P
      OBVIOUS
    <3> HIDE DEF Doubles
    <3> QED BY <3>2, <3>3, <3>4
  <2>2. CASE ~(k * 2 < n)
    <3>1. grow[k] = k
      BY <1>2, <2>2
    <3> HIDE DEF Doubles
    <3> QED BY <2>2, <3>1
  <2> QED BY <2>1, <2>2
<1>4. Nat \subseteq S
  <2> HIDE DEF S
  <2> QED BY <1>3, Grow!StrongInduction
<1>5. n - 1 \in S /\ 1 \in 1..(n - 1)
  BY <1>4
<1>6. Good(1)
  BY <1>5
<1> QED BY <1>1, <1>6

(* Both subtrees are smaller than the tree and neither is empty, which is why
   every recursion of merkle.py and proofs.py ends. *)
LEMMA SplitPointRange ==
  ASSUME NEW n \in Nat, n >= 2
  PROVE  SplitPoint(n) \in 1..(n - 1)
BY SplitPointIsLargestPower

-----------------------------------------------------------------------------

(* hash of SubtreeHash is the fixpoint of HashStep. *)
HashDom(leaves) == Nat \ {0}
HashMeasure(leaves, size) == size
HashStep(leaves, hash, size) == [a \in Nat |->
  IF size = 1
    THEN leaves[a + 1]
    ELSE LET k == SplitPoint(size)
         IN HashPair(hash[k][a], hash[size - k][a + k])]

Hash == INSTANCE RecursiveFunctions WITH
          Dom <- HashDom, Measure <- HashMeasure, Step <- HashStep

(* The hash of a subtree, by its own equation (_subtree_hash, merkle.py 91-97). *)
LEMMA SubtreeHashEquation ==
  ASSUME NEW leaves, NEW a \in Nat, NEW size \in Nat \ {0}
  PROVE  SubtreeHash(leaves, a, size) =
           IF size = 1
             THEN leaves[a + 1]
             ELSE HashPair(SubtreeHash(leaves, a, SplitPoint(size)),
                           SubtreeHash(leaves, a + SplitPoint(size),
                                       size - SplitPoint(size)))
<1>1. ASSUME NEW n \in Nat \ {0}, NEW f, NEW g,
             \A j \in Hash!Below(leaves, n) : f[j] = g[j]
      PROVE  HashStep(leaves, f, n) = HashStep(leaves, g, n)
  <2>1. CASE n = 1
    BY <2>1 DEF HashStep
  <2>2. CASE n # 1
    <3>1. f[SplitPoint(n)] = g[SplitPoint(n)] /\ f[n - SplitPoint(n)] = g[n - SplitPoint(n)]
      BY <1>1, <2>2, SplitPointRange DEF Hash!Below, HashDom, HashMeasure
    <3> QED BY <3>1 DEF HashStep
  <2> QED BY <2>1, <2>2
<1>2. Hash!WellFounded(leaves)
  BY <1>1 DEF Hash!WellFounded, HashDom, HashMeasure
<1> DEFINE hash == Hash!Fixpoint(leaves)
<1>3. hash = [n \in Nat \ {0} |-> HashStep(leaves, hash, n)]
  BY <1>2, Hash!FixpointEquation DEF HashDom
<1>4. \A b, n : SubtreeHash(leaves, b, n) = hash[n][b]
  BY DEF SubtreeHash, Hash!Fixpoint, HashDom, HashStep
<1> HIDE DEF hash
<1>5. hash[size][a] = HashStep(leaves, hash, size)[a]
  BY <1>3
<1> QED BY <1>4, <1>5 DEF HashStep

-----------------------------------------------------------------------------

(* current of ComputeRootFromAuditPath is the fixpoint of ComputeStep, where c
   is the leaf and the path. *)
ComputeDom(c) == Nat
ComputeMeasure(c, i) == i
ComputeStep(c, cur, i) ==
  IF i = 0 THEN c[1]
  ELSE IF c[2][i].position = "left" THEN HashPair(c[2][i].hash, cur[i - 1])
  ELSE HashPair(cur[i - 1], c[2][i].hash)

Compute == INSTANCE RecursiveFunctions WITH
             Dom <- ComputeDom, Measure <- ComputeMeasure, Step <- ComputeStep

\* What the loop holds after the first i siblings.
RootAfter(leaf, path, i) == Compute!Fixpoint(<<leaf, path>>)[i]

(* The loop of compute_root_from_audit_path, by its own equation
   (merkle.py 58-77). *)
LEMMA RootAfterEquation ==
  ASSUME NEW leaf, NEW path, NEW i \in Nat
  PROVE  RootAfter(leaf, path, i) =
           IF i = 0 THEN leaf
           ELSE IF path[i].position = "left"
             THEN HashPair(path[i].hash, RootAfter(leaf, path, i - 1))
             ELSE HashPair(RootAfter(leaf, path, i - 1), path[i].hash)
<1> DEFINE c == <<leaf, path>>
           cur == Compute!Fixpoint(c)
<1>1. c[1] = leaf /\ c[2] = path
  OBVIOUS
<1> HIDE DEF c
<1>2. ASSUME NEW n \in Nat, NEW f, NEW g,
             \A j \in Compute!Below(c, n) : f[j] = g[j]
      PROVE  ComputeStep(c, f, n) = ComputeStep(c, g, n)
  BY <1>2 DEF ComputeStep, Compute!Below, ComputeDom, ComputeMeasure
<1>3. Compute!WellFounded(c)
  BY <1>2 DEF Compute!WellFounded, ComputeDom, ComputeMeasure
<1>4. cur = [n \in Nat |-> ComputeStep(c, cur, n)]
  BY <1>3, Compute!FixpointEquation DEF ComputeDom
<1>5. \A n : RootAfter(leaf, path, n) = cur[n]
  BY DEF RootAfter, c
<1> HIDE DEF cur
<1>6. cur[i] = ComputeStep(c, cur, i)
  BY <1>4
<1> QED BY <1>1, <1>5, <1>6 DEF ComputeStep

(* Only the siblings that the loop has seen matter. *)
LEMMA RootAfterPrefix ==
  ASSUME NEW leaf, NEW p, NEW q, NEW n \in Nat, \A i \in 1..n : p[i] = q[i]
  PROVE  RootAfter(leaf, p, n) = RootAfter(leaf, q, n)
<1> DEFINE S == {m \in Nat : m <= n => RootAfter(leaf, p, m) = RootAfter(leaf, q, m)}
<1>1. ASSUME NEW m \in Nat, \A j \in 0..(m - 1) : j \in S
      PROVE  m \in S
  <2>1. CASE m = 0
    BY <2>1, RootAfterEquation
  <2>2. CASE m > 0 /\ m <= n
    <3>1. m - 1 \in Nat /\ RootAfter(leaf, p, m - 1) = RootAfter(leaf, q, m - 1) /\ p[m] = q[m]
      BY <1>1, <2>2
    <3> QED BY <2>2, <3>1, RootAfterEquation
  <2> QED BY <2>1, <2>2
<1>2. Nat \subseteq S
  <2> HIDE DEF S
  <2> QED BY <1>1, Grow!StrongInduction
<1> QED BY <1>2

(* The root is what the loop holds after the last sibling. *)
LEMMA ComputeIsRootAfter ==
  ASSUME NEW leaf, NEW path
  PROVE  ComputeRootFromAuditPath(leaf, path) = RootAfter(leaf, path, Len(path))
<1> DEFINE c == <<leaf, path>>
<1>1. c[1] = leaf /\ c[2] = path
  OBVIOUS
<1> HIDE DEF c
<1>2. RootAfter(leaf, path, Len(path)) = Compute!Fixpoint(c)[Len(path)]
  BY DEF RootAfter, c
<1> QED BY <1>1, <1>2 DEF ComputeRootFromAuditPath, Compute!Fixpoint, ComputeDom, ComputeStep

(* With no sibling the leaf is the root. *)
LEMMA ComputeEmpty ==
  ASSUME NEW leaf
  PROVE  ComputeRootFromAuditPath(leaf, <<>>) = leaf
BY ComputeIsRootAfter, RootAfterEquation

(* One more sibling is one more hash on top. *)
LEMMA ComputeAppend ==
  ASSUME NEW leaf, NEW T, NEW path \in Seq(T), NEW x \in T
  PROVE  ComputeRootFromAuditPath(leaf, Append(path, x)) =
           IF x.position = "left"
             THEN HashPair(x.hash, ComputeRootFromAuditPath(leaf, path))
             ELSE HashPair(ComputeRootFromAuditPath(leaf, path), x.hash)
<1> DEFINE long == Append(path, x)
           n == Len(path)
<1>1. n \in Nat /\ Len(long) = n + 1 /\ long[n + 1] = x /\ \A i \in 1..n : long[i] = path[i]
  BY AppendProperties, LenProperties
<1> HIDE DEF long, n
<1>2. RootAfter(leaf, long, n) = RootAfter(leaf, path, n)
  BY <1>1, RootAfterPrefix
<1>3. n + 1 \in Nat /\ n + 1 # 0 /\ (n + 1) - 1 = n
  BY <1>1
<1>4. RootAfter(leaf, long, n + 1) =
        IF long[n + 1].position = "left"
          THEN HashPair(long[n + 1].hash, RootAfter(leaf, long, (n + 1) - 1))
          ELSE HashPair(RootAfter(leaf, long, (n + 1) - 1), long[n + 1].hash)
  <2> DEFINE j == n + 1
  <2>1. j \in Nat /\ j # 0
    BY <1>3
  <2> HIDE DEF j
  <2>2. RootAfter(leaf, long, j) =
          IF long[j].position = "left"
            THEN HashPair(long[j].hash, RootAfter(leaf, long, j - 1))
            ELSE HashPair(RootAfter(leaf, long, j - 1), long[j].hash)
    BY <2>1, RootAfterEquation
  <2> QED BY <2>2 DEF j
<1>5. RootAfter(leaf, long, n + 1) =
        IF x.position = "left"
          THEN HashPair(x.hash, RootAfter(leaf, path, n))
          ELSE HashPair(RootAfter(leaf, path, n), x.hash)
  BY <1>1, <1>2, <1>3, <1>4
<1> QED BY <1>1, <1>5, ComputeIsRootAfter DEF long, n

-----------------------------------------------------------------------------

(* positions of ExpectedPositions is the fixpoint of ExpectedStep. *)
ExpectedDom(c) == Nat
ExpectedMeasure(c, size) == size
ExpectedStep(c, positions, size) == [pos \in Nat |->
  IF size <= 1
    THEN <<>>
    ELSE LET k == SplitPoint(size)
         IN IF pos < k
              THEN Append(positions[k][pos], "right")
              ELSE Append(positions[size - k][pos - k], "left")]

Expected == INSTANCE RecursiveFunctions WITH
              Dom <- ExpectedDom, Measure <- ExpectedMeasure, Step <- ExpectedStep

(* The expected turns, by their own equation (_expected_audit_path_positions,
   proofs.py 216-223). *)
LEMMA ExpectedPositionsEquation ==
  ASSUME NEW size \in Nat, NEW pos \in Nat
  PROVE  ExpectedPositions(size, pos) =
           IF size <= 1
             THEN <<>>
             ELSE IF pos < SplitPoint(size)
               THEN Append(ExpectedPositions(SplitPoint(size), pos), "right")
               ELSE Append(ExpectedPositions(size - SplitPoint(size),
                                             pos - SplitPoint(size)), "left")
<1> DEFINE positions == Expected!Fixpoint(0)
<1>1. ASSUME NEW n \in Nat, NEW f, NEW g,
             \A j \in Expected!Below(0, n) : f[j] = g[j]
      PROVE  ExpectedStep(0, f, n) = ExpectedStep(0, g, n)
  <2>1. CASE n <= 1
    BY <2>1 DEF ExpectedStep
  <2>2. CASE ~(n <= 1)
    <3>1. f[SplitPoint(n)] = g[SplitPoint(n)] /\ f[n - SplitPoint(n)] = g[n - SplitPoint(n)]
      BY <1>1, <2>2, SplitPointRange DEF Expected!Below, ExpectedDom, ExpectedMeasure
    <3> QED BY <3>1 DEF ExpectedStep
  <2> QED BY <2>1, <2>2
<1>2. Expected!WellFounded(0)
  BY <1>1 DEF Expected!WellFounded, ExpectedDom, ExpectedMeasure
<1>3. positions = [n \in Nat |-> ExpectedStep(0, positions, n)]
  BY <1>2, Expected!FixpointEquation DEF ExpectedDom
<1>4. \A n, i : ExpectedPositions(n, i) = positions[n][i]
  BY DEF ExpectedPositions, Expected!Fixpoint, ExpectedDom, ExpectedStep
<1> HIDE DEF positions
<1>5. positions[size][pos] = ExpectedStep(0, positions, size)[pos]
  BY <1>3
<1> QED BY <1>4, <1>5 DEF ExpectedStep

Sides == {"left", "right"}

(* The expected positions are a list of sides. *)
LEMMA ExpectedPositionsType ==
  \A size, pos \in Nat : ExpectedPositions(size, pos) \in Seq(Sides)
<1> DEFINE S == {n \in Nat : \A i \in Nat : ExpectedPositions(n, i) \in Seq(Sides)}
<1>1. ASSUME NEW n \in Nat, \A m \in 0..(n - 1) : m \in S
      PROVE  n \in S
  <2> SUFFICES ASSUME NEW i \in Nat PROVE ExpectedPositions(n, i) \in Seq(Sides)
    OBVIOUS
  <2> DEFINE k == SplitPoint(n)
  <2>1. CASE n <= 1
    <3>1. ExpectedPositions(n, i) = <<>>
      BY <2>1, ExpectedPositionsEquation
    <3> QED BY <3>1
  <2>2. CASE ~(n <= 1)
    <3>1. k \in 0..(n - 1) /\ n - k \in 0..(n - 1)
      BY <2>2, SplitPointRange
    <3> HIDE DEF k
    <3>2. CASE i < k
      <4>1. ExpectedPositions(k, i) \in Seq(Sides)
        BY <1>1, <3>1
      <4>2. ExpectedPositions(n, i) = Append(ExpectedPositions(k, i), "right")
        BY <2>2, <3>2, ExpectedPositionsEquation DEF k
      <4> QED BY <4>1, <4>2, AppendProperties DEF Sides
    <3>3. CASE ~(i < k)
      <4>1. ExpectedPositions(n - k, i - k) \in Seq(Sides)
        BY <1>1, <3>1, <3>3
      <4>2. ExpectedPositions(n, i) = Append(ExpectedPositions(n - k, i - k), "left")
        BY <2>2, <3>3, ExpectedPositionsEquation DEF k
      <4> QED BY <4>1, <4>2, AppendProperties DEF Sides
    <3> QED BY <3>2, <3>3
  <2> QED BY <2>1, <2>2
<1>2. Nat \subseteq S
  <2> HIDE DEF S
  <2> QED BY <1>1, Grow!StrongInduction
<1> QED BY <1>2

(* A path whose positions end in a given side ends in a sibling on that side. *)
LEMMA PositionsSplit ==
  ASSUME NEW T, NEW path \in Seq(T), NEW e \in Seq(Sides), NEW side \in Sides,
         Positions(path) = Append(e, side)
  PROVE  \E front \in Seq(T), last \in T :
           /\ path = Append(front, last)
           /\ Positions(front) = e
           /\ last.position = side
<1>1. Len(path) \in Nat /\ Len(Positions(path)) = Len(path)
  BY LenProperties DEF Positions
<1>2. Len(path) = Len(e) + 1 /\ Len(e) \in Nat
  BY <1>1, AppendProperties, LenProperties
<1>3. path # <<>>
  BY <1>2
<1>4. PICK front \in Seq(T), last \in T : path = Append(front, last)
  BY <1>3, SequenceEmptyOrAppend
<1>5. Len(front) = Len(e) /\ path[Len(e) + 1] = last
       /\ \A i \in 1..Len(e) : path[i] = front[i]
  BY <1>2, <1>4, AppendProperties, LenProperties
<1>6. last.position = side
  <2>1. Positions(path)[Len(e) + 1] = last.position
    BY <1>2, <1>5 DEF Positions
  <2> QED BY <2>1, AppendProperties
<1>7. ASSUME NEW i \in 1..Len(e) PROVE front[i].position = e[i]
  <2>1. Positions(path)[i] = front[i].position
    BY <1>2, <1>5 DEF Positions
  <2> QED BY <2>1, AppendProperties
<1>8. Positions(front) = e
  <2>1. Positions(front) = [i \in 1..Len(e) |-> e[i]]
    BY <1>5, <1>7 DEF Positions
  <2>2. e = [i \in 1..Len(e) |-> e[i]]
    BY LenProperties
  <2> QED BY <2>1, <2>2
<1> QED BY <1>4, <1>6, <1>8

(* The positions of a path with one more sibling. *)
LEMMA PositionsAppend ==
  ASSUME NEW T, NEW path \in Seq(T), NEW x \in T,
         Positions(path) \in Seq(Sides), x.position \in Sides
  PROVE  Positions(Append(path, x)) = Append(Positions(path), x.position)
<1> DEFINE long == Append(path, x)
           p == Positions(path)
           q == Append(p, x.position)
<1>1. Len(path) \in Nat /\ Len(long) = Len(path) + 1 /\ long[Len(path) + 1] = x
       /\ \A i \in 1..Len(path) : long[i] = path[i]
  BY AppendProperties, LenProperties
<1>2. Len(p) = Len(path) /\ \A i \in 1..Len(path) : p[i] = path[i].position
  BY <1>1 DEF Positions
<1>3. q \in Seq(Sides) /\ Len(q) = Len(p) + 1 /\ q[Len(p) + 1] = x.position
       /\ \A i \in 1..Len(p) : q[i] = p[i]
  <2> HIDE DEF p
  <2> QED BY AppendProperties DEF p
<1>4. Positions(long) = [i \in 1..(Len(path) + 1) |-> long[i].position]
  BY <1>1 DEF Positions
<1> HIDE DEF long, p, q
<1>5. q = [i \in 1..(Len(path) + 1) |-> q[i]]
  BY <1>2, <1>3, LenProperties
<1>6. ASSUME NEW i \in 1..(Len(path) + 1) PROVE long[i].position = q[i]
  <2>1. CASE i = Len(path) + 1
    BY <2>1, <1>1, <1>2, <1>3
  <2>2. CASE i \in 1..Len(path)
    BY <2>2, <1>1, <1>2, <1>3
  <2> QED BY <1>1, <2>1, <2>2
<1> QED BY <1>4, <1>5, <1>6 DEF long, q, p

-----------------------------------------------------------------------------

(* Free of collisions: an interior hash fixes both halves. *)
LEMMA HashPairInjective ==
  ASSUME NEW a, NEW b, NEW c, NEW d, HashPair(a, b) = HashPair(c, d)
  PROVE  a = c /\ b = d
BY DEF HashPair

(* A path that turns as the size and the index demand, and that leads from a
   leaf to the root of a subtree, started from the leaf at that index.  Without
   the check of the positions this is false (proofs.py 160-163). *)
LEMMA PathIsSound ==
  ASSUME NEW leaves, NEW T, NEW leaf
  PROVE  \A n \in Nat \ {0}, a \in Nat : \A pos \in 0..(n - 1), path \in Seq(T) :
           /\ Positions(path) = ExpectedPositions(n, pos)
           /\ ComputeRootFromAuditPath(leaf, path) = SubtreeHash(leaves, a, n)
           => leaf = leaves[a + pos + 1]
<1> DEFINE P(n, a, pos, path) ==
             /\ Positions(path) = ExpectedPositions(n, pos)
             /\ ComputeRootFromAuditPath(leaf, path) = SubtreeHash(leaves, a, n)
           S == {n \in Nat : n # 0 => \A a \in Nat : \A pos \in 0..(n - 1), path \in Seq(T) :
                                P(n, a, pos, path) => leaf = leaves[a + pos + 1]}
<1>1. ASSUME NEW n \in Nat, \A m \in 0..(n - 1) : m \in S
      PROVE  n \in S
  <2> SUFFICES ASSUME n # 0, NEW a \in Nat, NEW pos \in 0..(n - 1), NEW path \in Seq(T),
                      P(n, a, pos, path)
               PROVE  leaf = leaves[a + pos + 1]
    OBVIOUS
  <2> DEFINE k == SplitPoint(n)
  <2>1. CASE n = 1
    <3>1. Positions(path) = <<>> /\ pos = 0
      <4>1. pos \in Nat /\ pos = 0 /\ n <= 1
        BY <2>1
      <4>2. ExpectedPositions(n, pos) = <<>>
        BY <4>1, ExpectedPositionsEquation
      <4> QED BY <4>1, <4>2
    <3>2. Len(path) = 0
      BY <3>1, LenProperties DEF Positions
    <3>3. path = <<>>
      BY <3>2, EmptySeq
    <3>4. SubtreeHash(leaves, a, n) = leaves[a + 1]
      BY <2>1, SubtreeHashEquation
    <3> QED BY <3>1, <3>3, <3>4, ComputeEmpty
  <2>2. CASE n # 1
    <3>1. k \in 1..(n - 1) /\ n - k \in 1..(n - 1) /\ k \in Nat
      BY <2>2, SplitPointRange
    <3>2. SubtreeHash(leaves, a, n) =
            HashPair(SubtreeHash(leaves, a, k), SubtreeHash(leaves, a + k, n - k))
      BY <2>2, SubtreeHashEquation
    <3>3. ExpectedPositions(n, pos) =
            IF pos < k THEN Append(ExpectedPositions(k, pos), "right")
                         ELSE Append(ExpectedPositions(n - k, pos - k), "left")
      <4>1. pos \in Nat /\ ~(n <= 1)
        BY <2>2
      <4> QED BY <4>1, ExpectedPositionsEquation
    <3> HIDE DEF k
    <3>4. CASE pos < k
      <4>1. ExpectedPositions(k, pos) \in Seq(Sides)
        BY <3>1, ExpectedPositionsType
      <4> DEFINE e == ExpectedPositions(k, pos)
      <4>2. PICK front \in Seq(T), last \in T :
              /\ path = Append(front, last)
              /\ Positions(front) = e
              /\ last.position = "right"
        <5>1. Positions(path) = Append(e, "right") /\ "right" \in Sides
          BY <3>3, <3>4 DEF Sides
        <5> HIDE DEF e
        <5> QED BY <4>1, <5>1, PositionsSplit DEF e
      <4>3. ComputeRootFromAuditPath(leaf, path) =
              HashPair(ComputeRootFromAuditPath(leaf, front), last.hash)
        BY <4>2, ComputeAppend
      <4>4. ComputeRootFromAuditPath(leaf, front) = SubtreeHash(leaves, a, k)
        BY <3>2, <4>3, HashPairInjective
      <4>5. P(k, a, pos, front) /\ k \in S
        BY <1>1, <3>1, <4>2, <4>4
      <4> QED BY <3>1, <3>4, <4>5
    <3>5. CASE ~(pos < k)
      <4>1. ExpectedPositions(n - k, pos - k) \in Seq(Sides)
        BY <3>1, <3>5, ExpectedPositionsType
      <4> DEFINE e == ExpectedPositions(n - k, pos - k)
      <4>2. PICK front \in Seq(T), last \in T :
              /\ path = Append(front, last)
              /\ Positions(front) = e
              /\ last.position = "left"
        <5>1. Positions(path) = Append(e, "left") /\ "left" \in Sides
          BY <3>3, <3>5 DEF Sides
        <5> HIDE DEF e
        <5> QED BY <4>1, <5>1, PositionsSplit DEF e
      <4>3. ComputeRootFromAuditPath(leaf, path) =
              HashPair(last.hash, ComputeRootFromAuditPath(leaf, front))
        BY <4>2, ComputeAppend
      <4>4. ComputeRootFromAuditPath(leaf, front) = SubtreeHash(leaves, a + k, n - k)
        BY <3>2, <4>3, HashPairInjective
      <4>5. P(n - k, a + k, pos - k, front) /\ n - k \in S
        BY <1>1, <3>1, <4>2, <4>4
      <4>6. leaf = leaves[(a + k) + (pos - k) + 1]
        BY <3>1, <3>5, <4>5
      <4> QED BY <3>1, <3>5, <4>6
    <3> QED BY <3>4, <3>5
  <2> QED BY <2>1, <2>2
<1>2. Nat \subseteq S
  <2> HIDE DEF S
  <2> QED BY <1>1, Grow!StrongInduction
<1> QED BY <1>2

(* Two subtrees of one size with the same hash have the same leaves. *)
LEMMA SubtreeHashInjective ==
  ASSUME NEW l, NEW m
  PROVE  \A n \in Nat \ {0}, a \in Nat :
           SubtreeHash(l, a, n) = SubtreeHash(m, a, n)
             => \A i \in 0..(n - 1) : l[a + i + 1] = m[a + i + 1]
<1> DEFINE S == {n \in Nat : n # 0 => \A a \in Nat :
                   SubtreeHash(l, a, n) = SubtreeHash(m, a, n)
                     => \A i \in 0..(n - 1) : l[a + i + 1] = m[a + i + 1]}
<1>1. ASSUME NEW n \in Nat, \A j \in 0..(n - 1) : j \in S
      PROVE  n \in S
  <2> SUFFICES ASSUME n # 0, NEW a \in Nat,
                      SubtreeHash(l, a, n) = SubtreeHash(m, a, n), NEW i \in 0..(n - 1)
               PROVE  l[a + i + 1] = m[a + i + 1]
    OBVIOUS
  <2> DEFINE k == SplitPoint(n)
  <2>1. CASE n = 1
    <3>1. SubtreeHash(l, a, n) = l[a + 1] /\ SubtreeHash(m, a, n) = m[a + 1]
      BY <2>1, SubtreeHashEquation
    <3>2. a + i + 1 = a + 1
      BY <2>1
    <3> QED BY <3>1, <3>2
  <2>2. CASE n # 1
    <3>1. k \in 1..(n - 1) /\ n - k \in 1..(n - 1) /\ k \in Nat
      BY <2>2, SplitPointRange
    <3>2. /\ SubtreeHash(l, a, n) =
               HashPair(SubtreeHash(l, a, k), SubtreeHash(l, a + k, n - k))
          /\ SubtreeHash(m, a, n) =
               HashPair(SubtreeHash(m, a, k), SubtreeHash(m, a + k, n - k))
      BY <2>2, SubtreeHashEquation
    <3> HIDE DEF k
    <3>3. /\ SubtreeHash(l, a, k) = SubtreeHash(m, a, k)
          /\ SubtreeHash(l, a + k, n - k) = SubtreeHash(m, a + k, n - k)
      <4> DEFINE A == SubtreeHash(l, a, k)
                 B == SubtreeHash(l, a + k, n - k)
                 C == SubtreeHash(m, a, k)
                 D == SubtreeHash(m, a + k, n - k)
      <4>1. HashPair(A, B) = HashPair(C, D)
        BY <3>2
      <4> HIDE DEF A, B, C, D
      <4>2. A = C /\ B = D
        BY <4>1, HashPairInjective
      <4> QED BY <4>2 DEF A, B, C, D
    <3>4. CASE i < k
      BY <1>1, <3>1, <3>3, <3>4
    <3>5. CASE ~(i < k)
      <4>1. l[(a + k) + (i - k) + 1] = m[(a + k) + (i - k) + 1]
        BY <1>1, <3>1, <3>3, <3>5
      <4> QED BY <3>1, <3>5, <4>1
    <3> QED BY <3>4, <3>5
  <2> QED BY <2>1, <2>2
<1>2. Nat \subseteq S
  <2> HIDE DEF S
  <2> QED BY <1>1, Grow!StrongInduction
<1> QED BY <1>2

-----------------------------------------------------------------------------

(* path of AuditPath is the fixpoint of AuditStep, where c is the list of
   leaves and the index. *)
AuditDom(c) == Nat \ {0}
AuditMeasure(c, size) == size
AuditStep(c, path, size) == [lo \in Nat |->
  IF size = 1
    THEN <<>>
    ELSE LET k == SplitPoint(size)
         IN IF c[2] < lo + k
              THEN Append(path[k][lo],
                          [position |-> "right",
                           hash |-> SubtreeHash(c[1], lo + k, size - k)])
              ELSE Append(path[size - k][lo + k],
                          [position |-> "left",
                           hash |-> SubtreeHash(c[1], lo, k)])]

Audit == INSTANCE RecursiveFunctions WITH
           Dom <- AuditDom, Measure <- AuditMeasure, Step <- AuditStep

\* The path to the leaf at pos inside the subtree of size leaves from lo.
PathFrom(leaves, pos, size, lo) == Audit!Fixpoint(<<leaves, pos>>)[size][lo]

Sibling(position, hash) == [position |-> position, hash |-> hash]

(* The path to a leaf, by its own equation (_subtree_path, merkle.py 100-110). *)
LEMMA PathFromEquation ==
  ASSUME NEW leaves, NEW pos, NEW size \in Nat \ {0}, NEW lo \in Nat
  PROVE  PathFrom(leaves, pos, size, lo) =
           IF size = 1
             THEN <<>>
             ELSE IF pos < lo + SplitPoint(size)
               THEN Append(PathFrom(leaves, pos, SplitPoint(size), lo),
                           Sibling("right", SubtreeHash(leaves, lo + SplitPoint(size),
                                                        size - SplitPoint(size))))
               ELSE Append(PathFrom(leaves, pos, size - SplitPoint(size),
                                    lo + SplitPoint(size)),
                           Sibling("left", SubtreeHash(leaves, lo, SplitPoint(size))))
<1> DEFINE c == <<leaves, pos>>
           path == Audit!Fixpoint(c)
<1>1. c[1] = leaves /\ c[2] = pos
  OBVIOUS
<1> HIDE DEF c
<1>2. ASSUME NEW n \in Nat \ {0}, NEW f, NEW g,
             \A j \in Audit!Below(c, n) : f[j] = g[j]
      PROVE  AuditStep(c, f, n) = AuditStep(c, g, n)
  <2>1. CASE n = 1
    BY <2>1 DEF AuditStep
  <2>2. CASE n # 1
    <3>1. f[SplitPoint(n)] = g[SplitPoint(n)] /\ f[n - SplitPoint(n)] = g[n - SplitPoint(n)]
      BY <1>2, <2>2, SplitPointRange DEF Audit!Below, AuditDom, AuditMeasure
    <3> QED BY <3>1 DEF AuditStep
  <2> QED BY <2>1, <2>2
<1>3. Audit!WellFounded(c)
  BY <1>2 DEF Audit!WellFounded, AuditDom, AuditMeasure
<1>4. path = [n \in Nat \ {0} |-> AuditStep(c, path, n)]
  BY <1>3, Audit!FixpointEquation DEF AuditDom
<1>5. \A n, a : PathFrom(leaves, pos, n, a) = path[n][a]
  BY DEF PathFrom, c
<1> HIDE DEF path
<1>6. path[size][lo] = AuditStep(c, path, size)[lo]
  BY <1>4
<1> QED BY <1>1, <1>5, <1>6 DEF AuditStep, Sibling

(* The audit path of a leaf starts at the whole tree. *)
LEMMA AuditPathIsPathFrom ==
  ASSUME NEW leaves, NEW pos
  PROVE  AuditPath(leaves, pos) = PathFrom(leaves, pos, Len(leaves), 0)
<1> DEFINE c == <<leaves, pos>>
<1>1. c[1] = leaves /\ c[2] = pos
  OBVIOUS
<1> HIDE DEF c
<1>2. PathFrom(leaves, pos, Len(leaves), 0) = Audit!Fixpoint(c)[Len(leaves)][0]
  BY DEF PathFrom, c
<1> QED BY <1>1, <1>2 DEF AuditPath, Audit!Fixpoint, AuditDom, AuditStep

\* The hashes and the siblings that a list of leaves gives rise to.
Hashes(leaves) == {SubtreeHash(leaves, x[1], x[2]) : x \in Nat \X Nat}
Siblings(leaves) == [position : Sides, hash : Hashes(leaves)]

(* The fields of a sibling. *)
LEMMA SiblingType ==
  ASSUME NEW leaves, NEW side \in Sides, NEW a \in Nat, NEW n \in Nat
  PROVE  /\ Sibling(side, SubtreeHash(leaves, a, n)) \in Siblings(leaves)
         /\ Sibling(side, SubtreeHash(leaves, a, n)).position = side
         /\ Sibling(side, SubtreeHash(leaves, a, n)).hash = SubtreeHash(leaves, a, n)
<1> DEFINE h == SubtreeHash(leaves, a, n)
           x == <<a, n>>
<1>1. x \in Nat \X Nat /\ h = SubtreeHash(leaves, x[1], x[2])
  OBVIOUS
<1>2. h \in Hashes(leaves)
  BY <1>1 DEF Hashes
<1> HIDE DEF h
<1>3. /\ Sibling(side, h) \in Siblings(leaves)
      /\ Sibling(side, h).position = side
      /\ Sibling(side, h).hash = h
  BY <1>2 DEF Siblings, Sibling
<1> QED BY <1>3 DEF h

(* The path that the generator makes turns as the verifier expects and leads
   to the root, in every subtree that holds the leaf: generator and verifier
   split the tree alike. *)
LEMMA PathFromCorrect ==
  ASSUME NEW leaves, NEW pos \in Nat
  PROVE  \A n \in Nat \ {0}, lo \in Nat :
           lo <= pos /\ pos < lo + n =>
             /\ PathFrom(leaves, pos, n, lo) \in Seq(Siblings(leaves))
             /\ Positions(PathFrom(leaves, pos, n, lo)) = ExpectedPositions(n, pos - lo)
             /\ ComputeRootFromAuditPath(leaves[pos + 1], PathFrom(leaves, pos, n, lo))
                  = SubtreeHash(leaves, lo, n)
<1> DEFINE path(n, lo) == PathFrom(leaves, pos, n, lo)
           leaf == leaves[pos + 1]
           Good(n, lo) ==
             /\ path(n, lo) \in Seq(Siblings(leaves))
             /\ Positions(path(n, lo)) = ExpectedPositions(n, pos - lo)
             /\ ComputeRootFromAuditPath(leaf, path(n, lo)) = SubtreeHash(leaves, lo, n)
           S == {n \in Nat : n # 0 => \A lo \in Nat : lo <= pos /\ pos < lo + n => Good(n, lo)}
<1>1. ASSUME NEW n \in Nat, \A m \in 0..(n - 1) : m \in S
      PROVE  n \in S
  <2> SUFFICES ASSUME n # 0, NEW lo \in Nat, lo <= pos, pos < lo + n
               PROVE  Good(n, lo)
    OBVIOUS
  <2> DEFINE k == SplitPoint(n)
  <2>1. CASE n = 1
    <3>1. path(n, lo) = <<>>
      BY <2>1, PathFromEquation
    <3>2. SubtreeHash(leaves, lo, n) = leaf
      <4>1. pos = lo /\ n = 1
        BY <2>1
      <4> QED BY <4>1, SubtreeHashEquation
    <3>3. ExpectedPositions(n, pos - lo) = <<>>
      <4>1. pos - lo \in Nat /\ n <= 1
        BY <2>1
      <4> QED BY <4>1, ExpectedPositionsEquation
    <3>4. Positions(<<>>) = <<>>
      BY DEF Positions
    <3>5. <<>> \in Seq(Siblings(leaves))
      OBVIOUS
    <3> HIDE DEF leaf
    <3>6. ComputeRootFromAuditPath(leaf, <<>>) = leaf
      BY ComputeEmpty
    <3> QED BY <3>1, <3>2, <3>3, <3>4, <3>5, <3>6
  <2>2. CASE n # 1
    <3>1. k \in 1..(n - 1) /\ n - k \in 1..(n - 1) /\ k \in Nat /\ lo + k \in Nat /\ n - k \in Nat
      BY <2>2, SplitPointRange
    <3>2. SubtreeHash(leaves, lo, n) =
            HashPair(SubtreeHash(leaves, lo, k), SubtreeHash(leaves, lo + k, n - k))
      BY <2>2, SubtreeHashEquation
    <3>3. ExpectedPositions(n, pos - lo) =
            IF pos - lo < k THEN Append(ExpectedPositions(k, pos - lo), "right")
                              ELSE Append(ExpectedPositions(n - k, pos - lo - k), "left")
      <4>1. pos - lo \in Nat /\ ~(n <= 1)
        BY <2>2
      <4> QED BY <4>1, ExpectedPositionsEquation
    <3> DEFINE r == Sibling("right", SubtreeHash(leaves, lo + k, n - k))
               l == Sibling("left", SubtreeHash(leaves, lo, k))
    <3>4. path(n, lo) = IF pos < lo + k THEN Append(path(k, lo), r)
                                          ELSE Append(path(n - k, lo + k), l)
      BY <2>2, PathFromEquation
    <3> HIDE DEF k
    <3>5. /\ r \in Siblings(leaves) /\ r.position = "right" /\ r.hash = SubtreeHash(leaves, lo + k, n - k)
          /\ l \in Siblings(leaves) /\ l.position = "left" /\ l.hash = SubtreeHash(leaves, lo, k)
      BY <3>1, SiblingType DEF Sides
    <3>6. "left" \in Sides /\ "right" \in Sides /\ "left" # "right"
      BY DEF Sides
    <3> HIDE DEF r, l, leaf
    <3>7. CASE pos < lo + k
      <4> DEFINE p == PathFrom(leaves, pos, k, lo)
      <4>1. Good(k, lo)
        BY <1>1, <3>1, <3>7
      <4>2. path(n, lo) = Append(p, r) /\ pos - lo < k /\ pos - lo \in Nat
        BY <3>1, <3>4, <3>7
      <4>3. Positions(p) = ExpectedPositions(k, pos - lo) /\ Positions(p) \in Seq(Sides)
        BY <3>1, <4>1, <4>2, ExpectedPositionsType
      <4>4. p \in Seq(Siblings(leaves))
             /\ ComputeRootFromAuditPath(leaf, p) = SubtreeHash(leaves, lo, k)
        BY <4>1
      <4> HIDE DEF p
      <4>5. Positions(Append(p, r)) = Append(ExpectedPositions(k, pos - lo), "right")
        BY <3>5, <3>6, <4>3, <4>4, PositionsAppend
      <4>6. ComputeRootFromAuditPath(leaf, Append(p, r)) = SubtreeHash(leaves, lo, n)
        BY <3>2, <3>5, <3>6, <4>4, ComputeAppend
      <4>7. Append(p, r) \in Seq(Siblings(leaves))
        BY <3>5, <4>4, AppendProperties
      <4> QED BY <3>3, <4>2, <4>5, <4>6, <4>7
    <3>8. CASE ~(pos < lo + k)
      <4> DEFINE p == PathFrom(leaves, pos, n - k, lo + k)
      <4>1. Good(n - k, lo + k)
        BY <1>1, <3>1, <3>8
      <4>2. path(n, lo) = Append(p, l) /\ ~(pos - lo < k) /\ pos - lo - k \in Nat
             /\ pos - (lo + k) = pos - lo - k
        BY <3>1, <3>4, <3>8
      <4>3. Positions(p) = ExpectedPositions(n - k, pos - lo - k) /\ Positions(p) \in Seq(Sides)
        BY <3>1, <4>1, <4>2, ExpectedPositionsType
      <4>4. p \in Seq(Siblings(leaves))
             /\ ComputeRootFromAuditPath(leaf, p) = SubtreeHash(leaves, lo + k, n - k)
        BY <4>1
      <4> HIDE DEF p
      <4>5. Positions(Append(p, l)) = Append(ExpectedPositions(n - k, pos - lo - k), "left")
        BY <3>5, <3>6, <4>3, <4>4, PositionsAppend
      <4>6. ComputeRootFromAuditPath(leaf, Append(p, l)) = SubtreeHash(leaves, lo, n)
        BY <3>2, <3>5, <3>6, <4>4, ComputeAppend
      <4>7. Append(p, l) \in Seq(Siblings(leaves))
        BY <3>5, <4>4, AppendProperties
      <4> QED BY <3>3, <4>2, <4>5, <4>6, <4>7
    <3> QED BY <3>7, <3>8
  <2> QED BY <2>1, <2>2
<1>2. Nat \subseteq S
  <2> HIDE DEF S
  <2> QED BY <1>1, Grow!StrongInduction
<1> QED BY <1>2

-----------------------------------------------------------------------------

(* The leaf hashes of a log. *)
LEMMA LeafHashesFacts ==
  ASSUME NEW E, NEW s \in Seq(E)
  PROVE  /\ LeafHashes(s) \in Seq({LeafHash(e) : e \in E})
         /\ Len(LeafHashes(s)) = Len(s)
         /\ \A i \in 1..Len(s) : LeafHashes(s)[i] = LeafHash(s[i])
BY DEF LeafHashes

(* Free of collisions: a leaf hash fixes the event. *)
LEMMA LeafHashInjective ==
  ASSUME NEW a, NEW b, LeafHash(a) = LeafHash(b)
  PROVE  a = b
BY DEF LeafHash

(* The root of a tree that has leaves. *)
LEMMA RootOfNonempty ==
  ASSUME NEW T, NEW l \in Seq(T), Len(l) # 0
  PROVE  MerkleRoot(l) = SubtreeHash(l, 0, Len(l))
BY DEF MerkleRoot

(* The root and the size fix the leaves, be they leaf hashes or not: the
   hashes in a consistency proof are the server's word. *)
LEMMA MerkleRootInjective ==
  ASSUME NEW T, NEW U, NEW l \in Seq(T), NEW m \in Seq(U), Len(l) = Len(m),
         MerkleRoot(l) = MerkleRoot(m)
  PROVE  l = m
<1>1. CASE Len(l) = 0
  BY <1>1, EmptySeq
<1>2. CASE Len(l) # 0
  <2> DEFINE n == Len(l)
  <2>1. n \in Nat \ {0} /\ Len(m) = n
    BY <1>2, LenProperties
  <2>2. SubtreeHash(l, 0, n) = SubtreeHash(m, 0, n)
    BY <1>2, RootOfNonempty
  <2> HIDE DEF n
  <2>3. \A i \in 0..(n - 1) : l[0 + i + 1] = m[0 + i + 1]
    BY <2>1, <2>2, SubtreeHashInjective
  <2>4. ASSUME NEW j \in 1..n PROVE l[j] = m[j]
    <3>1. j - 1 \in 0..(n - 1) /\ 0 + (j - 1) + 1 = j
      BY <2>1
    <3> QED BY <2>3, <3>1
  <2>5. l = [i \in 1..n |-> l[i]] /\ m = [i \in 1..n |-> m[i]]
    BY <2>1, LenProperties DEF n
  <2> QED BY <2>4, <2>5
<1> QED BY <1>1, <1>2

(* The leaf hashes fix the log. *)
LEMMA LeafHashesInjective ==
  ASSUME NEW E, NEW r \in Seq(E), NEW s \in Seq(E), LeafHashes(r) = LeafHashes(s)
  PROVE  r = s
<1>1. Len(r) = Len(s) /\ Len(r) \in Nat
  BY LeafHashesFacts, LenProperties
<1>2. ASSUME NEW i \in 1..Len(r) PROVE r[i] = s[i]
  <2>1. LeafHash(r[i]) = LeafHash(s[i])
    BY <1>1, LeafHashesFacts
  <2> QED BY <2>1, LeafHashInjective
<1>3. r = [i \in 1..Len(r) |-> r[i]] /\ s = [i \in 1..Len(r) |-> s[i]]
  BY <1>1, LenProperties
<1> QED BY <1>2, <1>3

(* An inclusion proof that verifies against the root and the size of a log
   tells the truth: the event is the entry of the log at the claimed index,
   for every log, every index and every path, of any shape and with any hashes
   in it (verify_inclusion_proof, proofs.py 146-181). *)
THEOREM InclusionSoundness ==
  ASSUME NEW E, NEW s \in Seq(E), NEW T, NEW p, NEW e,
         p.audit_path \in Seq(T), p.leaf_index \in Nat,
         p.tree_size = Len(s), p.root_hash = MerkleRoot(LeafHashes(s)),
         p.leaf_hash = LeafHash(e), VerifyInclusionProof(p)
  PROVE  p.leaf_index < Len(s) /\ s[p.leaf_index + 1] = e
<1> DEFINE n == Len(s)
           j == p.leaf_index
           path == p.audit_path
           leaves == LeafHashes(s)
<1>1. /\ n \in Nat /\ j \in Nat /\ j < n
      /\ Positions(path) = ExpectedPositions(n, j)
      /\ ComputeRootFromAuditPath(LeafHash(e), path) = MerkleRoot(leaves)
  BY LenProperties DEF VerifyInclusionProof
<1>2. n \in Nat \ {0} /\ j \in 0..(n - 1) /\ 0 + j + 1 = j + 1 /\ j + 1 \in 1..n
  BY <1>1
<1>3. MerkleRoot(leaves) = SubtreeHash(leaves, 0, n)
  BY <1>2, LeafHashesFacts, RootOfNonempty
<1>4. leaves[j + 1] = LeafHash(s[j + 1])
  BY <1>2, LeafHashesFacts
<1>5. path \in Seq(T)
  OBVIOUS
<1> HIDE DEF n, j, path, leaves
<1>6. LeafHash(e) = leaves[0 + j + 1]
  <2>1. \A m \in Nat \ {0}, a \in Nat : \A i \in 0..(m - 1), q \in Seq(T) :
          /\ Positions(q) = ExpectedPositions(m, i)
          /\ ComputeRootFromAuditPath(LeafHash(e), q) = SubtreeHash(leaves, a, m)
          => LeafHash(e) = leaves[a + i + 1]
    BY PathIsSound
  <2>2. 0 \in Nat /\ ComputeRootFromAuditPath(LeafHash(e), path) = SubtreeHash(leaves, 0, n)
    BY <1>1, <1>3
  <2> QED BY <1>1, <1>2, <1>5, <2>1, <2>2
<1>7. e = s[j + 1]
  BY <1>2, <1>4, <1>6, LeafHashInjective
<1> QED BY <1>1, <1>7 DEF n, j

(* Every inclusion proof that is generated verifies, for every log and index
   (generate_inclusion_proof, proofs.py 97-120; verify_inclusion_proof,
   proofs.py 146-181). *)
THEOREM InclusionCompleteness ==
  ASSUME NEW E, NEW s \in Seq(E), NEW i \in 0..(Len(s) - 1)
  PROVE  /\ VerifyInclusionProof(GenerateInclusionProof(s, i))
         /\ GenerateInclusionProof(s, i).audit_path \in Seq(Siblings(LeafHashes(s)))
<1> DEFINE n == Len(s)
           leaves == LeafHashes(s)
           p == GenerateInclusionProof(s, i)
<1>1. n \in Nat \ {0} /\ i \in Nat /\ 0 <= i /\ i < 0 + n /\ i - 0 = i /\ i < n
  BY LenProperties
<1>2. Len(leaves) = n
  BY LeafHashesFacts
<1>3. MerkleRoot(leaves) = SubtreeHash(leaves, 0, n)
  BY <1>1, LeafHashesFacts, RootOfNonempty
<1>4. /\ p.tree_size = Len(leaves) /\ p.leaf_index = i
      /\ p.leaf_hash = leaves[i + 1] /\ p.root_hash = MerkleRoot(leaves)
      /\ p.audit_path = AuditPath(leaves, i)
  BY DEF GenerateInclusionProof
<1> HIDE DEF n, leaves, p
<1>5. AuditPath(leaves, i) = PathFrom(leaves, i, n, 0)
  BY <1>2, AuditPathIsPathFrom
<1>6. /\ PathFrom(leaves, i, n, 0) \in Seq(Siblings(leaves))
      /\ Positions(PathFrom(leaves, i, n, 0)) = ExpectedPositions(n, i - 0)
      /\ ComputeRootFromAuditPath(leaves[i + 1], PathFrom(leaves, i, n, 0))
           = SubtreeHash(leaves, 0, n)
  BY <1>1, PathFromCorrect
<1>7. VerifyInclusionProof(p)
  BY <1>1, <1>2, <1>3, <1>4, <1>5, <1>6 DEF VerifyInclusionProof
<1> QED BY <1>4, <1>5, <1>6, <1>7 DEF p, leaves

-----------------------------------------------------------------------------

(* A prefix of a list: its length and its elements. *)
LEMMA PrefixFacts ==
  ASSUME NEW S, NEW s \in Seq(S), NEW n \in 0..Len(s)
  PROVE  /\ Prefix(s, n) \in Seq(S)
         /\ Len(Prefix(s, n)) = n
         /\ Prefix(s, n) = [i \in 1..n |-> s[i]]
BY DEF Prefix

(* An append leaves the prefixes as they were (append_event, app.py 571). *)
LEMMA AppendKeepsPrefix ==
  ASSUME NEW S, NEW s \in Seq(S), NEW x \in S, NEW n \in 0..Len(s)
  PROVE  Prefix(Append(s, x), n) = Prefix(s, n)
BY DEF Prefix

(* The whole list is the prefix of its own length. *)
LEMMA WholePrefix ==
  ASSUME NEW S, NEW s \in Seq(S)
  PROVE  Prefix(s, Len(s)) = s
BY DEF Prefix

(* Hashing the leaves of a prefix, or taking the prefix of the hashes, is the
   same: what get_consistency_proof slices is what _tree_head hashed. *)
LEMMA LeafHashesOfPrefix ==
  ASSUME NEW S, NEW s \in Seq(S), NEW m \in 0..Len(s), NEW n \in 0..m
  PROVE  /\ Len(LeafHashes(Prefix(s, m))) = m
         /\ Prefix(LeafHashes(Prefix(s, m)), n) = LeafHashes(Prefix(s, n))
<1>1. Len(LeafHashes(Prefix(s, m))) = m
  BY PrefixFacts DEF LeafHashes
<1>2. /\ Prefix(s, m) = [i \in 1..m |-> s[i]]
      /\ Prefix(s, n) = [i \in 1..n |-> s[i]]
      /\ Len(Prefix(s, m)) = m /\ Len(Prefix(s, n)) = n
  BY PrefixFacts
<1>3. LeafHashes(Prefix(s, m)) = [i \in 1..m |-> LeafHash(s[i])]
  BY <1>2 DEF LeafHashes
<1>4. LeafHashes(Prefix(s, n)) = [i \in 1..n |-> LeafHash(s[i])]
  BY <1>2 DEF LeafHashes
<1>5. ASSUME NEW t, Len(t) = m, t = [i \in 1..m |-> LeafHash(s[i])]
      PROVE  Prefix(t, n) = [i \in 1..n |-> LeafHash(s[i])]
  <2>1. (IF n < Len(t) THEN n ELSE Len(t)) = n
    BY <1>5
  <2>2. \A i \in 1..n : t[i] = LeafHash(s[i])
    BY <1>5
  <2> QED BY <2>1, <2>2 DEF Prefix
<1>6. Prefix(LeafHashes(Prefix(s, m)), n) = [i \in 1..n |-> LeafHash(s[i])]
  BY <1>1, <1>3, <1>5
<1> QED BY <1>1, <1>4, <1>6

-----------------------------------------------------------------------------

(* If the continuity of two signed heads verifies then the older log is a
   prefix of the newer one, whatever the server put into its proof
   (service.py 469-518, verify_consistency_proof, proofs.py 184-213). *)
THEOREM ContinuitySoundness ==
  ASSUME NEW E, NEW r \in Seq(E), NEW s \in Seq(E), NEW t, NEW u, NEW T, NEW p,
         p.leaf_hashes \in Seq(T),
         Continuity(TreeHead(r, t), TreeHead(s, u), p)
  PROVE  Len(r) <= Len(s) /\ Prefix(s, Len(r)) = r
<1> DEFINE m == Len(r)
           n == Len(s)
           l == p.leaf_hashes
<1>1. /\ m \in Nat /\ n \in Nat
      /\ TreeHead(r, t).tree_size = m /\ TreeHead(r, t).root_hash = MerkleRoot(LeafHashes(r))
      /\ TreeHead(s, u).tree_size = n /\ TreeHead(s, u).root_hash = MerkleRoot(LeafHashes(s))
  BY LenProperties DEF TreeHead
<1>2. CASE ~(n > m)
  <2>1. n = m /\ MerkleRoot(LeafHashes(s)) = MerkleRoot(LeafHashes(r))
    BY <1>1, <1>2 DEF Continuity, NeedsConsistencyProof
  <2>2. LeafHashes(s) = LeafHashes(r)
    BY <2>1, LeafHashesFacts, MerkleRootInjective
  <2>3. s = r
    BY <2>2, LeafHashesInjective
  <2> QED BY <1>1, <2>3, WholePrefix
<1>3. CASE n > m
  <2>1. /\ Len(l) = n
        /\ MerkleRoot(Prefix(l, m)) = MerkleRoot(LeafHashes(r))
        /\ MerkleRoot(l) = MerkleRoot(LeafHashes(s))
    BY <1>1, <1>3 DEF Continuity, NeedsConsistencyProof, VerifyConsistencyProof
  <2>2. l = LeafHashes(s)
    <3> DEFINE h == LeafHashes(s)
    <3>1. h \in Seq({LeafHash(e) : e \in E}) /\ Len(h) = n
      BY LeafHashesFacts
    <3>2. l \in Seq(T) /\ Len(l) = Len(h) /\ MerkleRoot(l) = MerkleRoot(h)
      BY <2>1, <3>1
    <3> HIDE DEF h, l
    <3>3. l = h
      BY <3>1, <3>2, MerkleRootInjective
    <3> QED BY <3>3 DEF h
  <2>3. m \in 0..n /\ n \in 0..n
    BY <1>1, <1>3
  <2>4. Prefix(s, n) = s /\ Prefix(s, m) \in Seq(E) /\ Len(Prefix(s, m)) = m
    BY <2>3, WholePrefix, PrefixFacts
  <2>5. Prefix(LeafHashes(s), m) = LeafHashes(Prefix(s, m))
    <3>1. Prefix(LeafHashes(Prefix(s, n)), m) = LeafHashes(Prefix(s, m))
      BY <2>3, LeafHashesOfPrefix
    <3> QED BY <2>4, <3>1
  <2> DEFINE q == Prefix(s, m)
  <2>6. MerkleRoot(LeafHashes(q)) = MerkleRoot(LeafHashes(r))
    BY <2>1, <2>2, <2>5
  <2> HIDE DEF q
  <2>7. q \in Seq(E) /\ Len(q) = Len(r)
    BY <2>4 DEF q
  <2>8. LeafHashes(q) = LeafHashes(r)
    BY <2>6, <2>7, LeafHashesFacts, MerkleRootInjective
  <2>9. q = r
    BY <2>7, <2>8, LeafHashesInjective
  <2> QED BY <1>1, <1>3, <2>9 DEF q
<1> QED BY <1>2, <1>3

(* The heads of a log and of an extension of it, with the consistency proof
   that the server generates, verify as continuous (proofs.py 123-143). *)
THEOREM ContinuityCompleteness ==
  ASSUME NEW E, NEW r \in Seq(E), NEW s \in Seq(E), NEW t, NEW u,
         Len(r) <= Len(s), Prefix(s, Len(r)) = r
  PROVE  Continuity(TreeHead(r, t), TreeHead(s, u), GenerateConsistencyProof(s, Len(r)))
<1> DEFINE m == Len(r)
           n == Len(s)
           p == GenerateConsistencyProof(s, m)
<1>1. /\ m \in Nat /\ n \in Nat
      /\ TreeHead(r, t).tree_size = m /\ TreeHead(r, t).root_hash = MerkleRoot(LeafHashes(r))
      /\ TreeHead(s, u).tree_size = n /\ TreeHead(s, u).root_hash = MerkleRoot(LeafHashes(s))
  BY LenProperties DEF TreeHead
<1>2. CASE ~(n > m)
  <2>1. n = m /\ s = r
    BY <1>1, <1>2, WholePrefix
  <2> QED BY <1>1, <1>2, <2>1 DEF Continuity, NeedsConsistencyProof
<1>3. CASE n > m
  <2>1. m \in 0..n /\ n \in 0..n /\ m <= n
    BY <1>1, <1>3
  <2>2. Len(LeafHashes(s)) = n
    BY LeafHashesFacts
  <2>3. Prefix(LeafHashes(s), m) = LeafHashes(r)
    <3>1. Prefix(LeafHashes(Prefix(s, n)), m) = LeafHashes(Prefix(s, m))
      BY <2>1, LeafHashesOfPrefix
    <3> QED BY <3>1, WholePrefix
  <2>4. /\ p.previous_tree_size = m /\ p.latest_tree_size = n
        /\ p.previous_root_hash = MerkleRoot(Prefix(LeafHashes(s), m))
        /\ p.latest_root_hash = MerkleRoot(LeafHashes(s))
        /\ p.leaf_hashes = LeafHashes(s)
    BY <2>2 DEF GenerateConsistencyProof
  <2> HIDE DEF p
  <2>5. VerifyConsistencyProof(p)
    BY <2>1, <2>2, <2>4 DEF VerifyConsistencyProof
  <2>6. Continuity(TreeHead(r, t), TreeHead(s, u), p)
    BY <1>1, <1>3, <2>3, <2>4, <2>5 DEF Continuity, NeedsConsistencyProof
  <2> QED BY <2>6 DEF p
<1> QED BY <1>2, <1>3

(* Two subtrees with the same hash have the same size and the same entries:
   a leaf is never taken for an interior node, whose prefix is another
   (merkle.py 6-8). *)
LEMMA SubtreeDeterminesLog ==
  ASSUME NEW E, NEW r \in Seq(E), NEW s \in Seq(E)
  PROVE  \A n \in Nat \ {0} : \A m \in Nat \ {0}, a \in Nat, b \in Nat :
           /\ a + n <= Len(r) /\ b + m <= Len(s)
           /\ SubtreeHash(LeafHashes(r), a, n) = SubtreeHash(LeafHashes(s), b, m)
           => n = m /\ \A i \in 0..(n - 1) : r[a + i + 1] = s[b + i + 1]
<1> DEFINE l == LeafHashes(r)
           h == LeafHashes(s)
           Same(n, m, a, b) == n = m /\ \A i \in 0..(n - 1) : r[a + i + 1] = s[b + i + 1]
           Given(n, m, a, b) ==
             /\ a + n <= Len(r) /\ b + m <= Len(s)
             /\ SubtreeHash(l, a, n) = SubtreeHash(h, b, m)
           S == {n \in Nat : n # 0 => \A m \in Nat \ {0}, a \in Nat, b \in Nat :
                   Given(n, m, a, b) => Same(n, m, a, b)}
<1>0. /\ Len(r) \in Nat /\ Len(s) \in Nat
      /\ \A i \in 1..Len(r) : l[i] = LeafHash(r[i])
      /\ \A i \in 1..Len(s) : h[i] = LeafHash(s[i])
  BY LeafHashesFacts, LenProperties
<1> HIDE DEF l, h
<1>1. ASSUME NEW n \in Nat, \A j \in 0..(n - 1) : j \in S
      PROVE  n \in S
  <2> SUFFICES ASSUME n # 0, NEW m \in Nat \ {0}, NEW a \in Nat, NEW b \in Nat,
                      Given(n, m, a, b)
               PROVE  Same(n, m, a, b)
    OBVIOUS
  <2> DEFINE k == SplitPoint(n)
             j == SplitPoint(m)
  <2>1. ASSUME n = 1 PROVE SubtreeHash(l, a, n) = LeafHash(r[a + 1])
    <3>1. a + 1 \in 1..Len(r)
      BY <1>0, <2>1
    <3>2. SubtreeHash(l, a, n) = l[a + 1]
      BY <2>1, SubtreeHashEquation
    <3> QED BY <1>0, <3>1, <3>2
  <2>2. ASSUME m = 1 PROVE SubtreeHash(h, b, m) = LeafHash(s[b + 1])
    <3>1. b + 1 \in 1..Len(s)
      BY <1>0, <2>2
    <3>2. SubtreeHash(h, b, m) = h[b + 1]
      BY <2>2, SubtreeHashEquation
    <3> QED BY <1>0, <3>1, <3>2
  <2>3. n # 1 => SubtreeHash(l, a, n) = HashPair(SubtreeHash(l, a, k), SubtreeHash(l, a + k, n - k))
    BY SubtreeHashEquation
  <2>4. m # 1 => SubtreeHash(h, b, m) = HashPair(SubtreeHash(h, b, j), SubtreeHash(h, b + j, m - j))
    BY SubtreeHashEquation
  <2>5. \A x, y, z : LeafHash(x) # HashPair(y, z)
    BY DEF LeafHash, HashPair
  <2>6. CASE n = 1
    <3>1. m = 1
      BY <2>1, <2>4, <2>5, <2>6
    <3>2. r[a + 1] = s[b + 1]
      BY <2>1, <2>2, <2>6, <3>1, LeafHashInjective
    <3>3. ASSUME NEW i \in 0..(n - 1) PROVE r[a + i + 1] = s[b + i + 1]
      <4>1. a + i + 1 = a + 1 /\ b + i + 1 = b + 1
        BY <2>6
      <4> QED BY <3>2, <4>1
    <3> QED BY <2>6, <3>1, <3>3
  <2>7. CASE n # 1
    <3>1. m # 1
      BY <2>2, <2>3, <2>5, <2>7
    <3>2. /\ k \in Nat \ {0} /\ n - k \in Nat \ {0} /\ k \in 0..(n - 1) /\ n - k \in 0..(n - 1)
          /\ j \in Nat \ {0} /\ m - j \in Nat \ {0}
          /\ a + k \in Nat /\ b + j \in Nat
          /\ a + k <= Len(r) /\ b + j <= Len(s)
          /\ (a + k) + (n - k) <= Len(r) /\ (b + j) + (m - j) <= Len(s)
      <4>1. k \in 1..(n - 1) /\ j \in 1..(m - 1)
        BY <2>7, <3>1, SplitPointRange
      <4>2. a + n <= Len(r) /\ b + m <= Len(s)
        OBVIOUS
      <4> HIDE DEF k, j, Given
      <4> QED BY <1>0, <4>1, <4>2
    <3> HIDE DEF k, j
    <3>3. /\ SubtreeHash(l, a, k) = SubtreeHash(h, b, j)
          /\ SubtreeHash(l, a + k, n - k) = SubtreeHash(h, b + j, m - j)
      <4> DEFINE A == SubtreeHash(l, a, k)
                 B == SubtreeHash(l, a + k, n - k)
                 C == SubtreeHash(h, b, j)
                 D == SubtreeHash(h, b + j, m - j)
      <4>1. HashPair(A, B) = HashPair(C, D)
        BY <2>3, <2>4, <2>7, <3>1
      <4> HIDE DEF A, B, C, D
      <4>2. A = C /\ B = D
        BY <4>1, HashPairInjective
      <4> QED BY <4>2 DEF A, B, C, D
    <3>4. Given(k, j, a, b) /\ Given(n - k, m - j, a + k, b + j)
      BY <3>2, <3>3
    <3> HIDE DEF Given, Same
    <3>5. Same(k, j, a, b) /\ Same(n - k, m - j, a + k, b + j)
      BY <1>1, <3>2, <3>4
    <3>6. n = m /\ k = j
      BY <3>2, <3>5 DEF Same
    <3>7. ASSUME NEW i \in 0..(n - 1) PROVE r[a + i + 1] = s[b + i + 1]
      <4>1. CASE i < k
        BY <3>2, <3>5, <4>1 DEF Same
      <4>2. CASE ~(i < k)
        <5>1. r[(a + k) + (i - k) + 1] = s[(b + j) + (i - k) + 1]
          <6>1. i - k \in 0..((n - k) - 1)
            BY <3>2, <4>2
          <6>2. \A x \in 0..((n - k) - 1) : r[(a + k) + x + 1] = s[(b + j) + x + 1]
            BY <3>5 DEF Same
          <6> QED BY <6>1, <6>2
        <5>2. (a + k) + (i - k) + 1 = a + i + 1 /\ (b + j) + (i - k) + 1 = b + i + 1
          BY <3>2, <3>6, <4>2
        <5> QED BY <5>1, <5>2
      <4> QED BY <4>1, <4>2
    <3> QED BY <3>6, <3>7 DEF Same
  <2> QED BY <2>6, <2>7
<1>2. Nat \subseteq S
  <2> HIDE DEF S
  <2> QED BY <1>1, Grow!StrongInduction
<1> QED BY <1>2 DEF l, h

(* The root alone fixes the log, its size included.  Leaves and interior
   nodes are hashed under different prefixes and no leaf is duplicated to
   balance the tree, so that no two lists of entries have the same root, as the
   head of merkle.py says (lines 6-14). *)
THEOREM RootIdentifiesLog ==
  ASSUME NEW E, NEW r \in Seq(E), NEW s \in Seq(E),
         MerkleRoot(LeafHashes(r)) = MerkleRoot(LeafHashes(s))
  PROVE  r = s
<1> DEFINE n == Len(r)
           m == Len(s)
           l == LeafHashes(r)
           h == LeafHashes(s)
<1>1. n \in Nat /\ m \in Nat /\ Len(l) = n /\ Len(h) = m
  BY LeafHashesFacts, LenProperties
<1>2. n = m
  <2>1. n # 0 => MerkleRoot(l) = SubtreeHash(l, 0, n)
    BY <1>1, LeafHashesFacts, RootOfNonempty
  <2>2. m # 0 => MerkleRoot(h) = SubtreeHash(h, 0, m)
    BY <1>1, LeafHashesFacts, RootOfNonempty
  <2>3. n = 0 => MerkleRoot(l) = EmptyTreeRoot
    BY <1>1, EmptySeq, LeafHashesFacts DEF MerkleRoot
  <2>4. m = 0 => MerkleRoot(h) = EmptyTreeRoot
    BY <1>1, EmptySeq, LeafHashesFacts DEF MerkleRoot
  <2>5. ASSUME NEW q \in Seq(E), Len(q) # 0
        PROVE  SubtreeHash(LeafHashes(q), 0, Len(q)) # EmptyTreeRoot
    <3>1. Len(q) \in Nat \ {0} /\ 1 \in 1..Len(q) /\ 0 \in Nat /\ 0 + 1 = 1
      BY <2>5, LenProperties
    <3>2. LeafHashes(q)[1] = LeafHash(q[1])
      BY <3>1, LeafHashesFacts
    <3>3. \A x, y : LeafHash(x) # EmptyTreeRoot /\ HashPair(x, y) # EmptyTreeRoot
      BY DEF LeafHash, HashPair, EmptyTreeRoot
    <3>4. CASE Len(q) = 1
      <4>1. SubtreeHash(LeafHashes(q), 0, Len(q)) = LeafHash(q[1])
        BY <3>1, <3>2, <3>4, SubtreeHashEquation
      <4> QED BY <3>3, <4>1
    <3>5. CASE Len(q) # 1
      <4> DEFINE x == LeafHashes(q)
                 c == Len(q)
      <4>1. SubtreeHash(x, 0, c) = HashPair(SubtreeHash(x, 0, SplitPoint(c)),
                                            SubtreeHash(x, 0 + SplitPoint(c), c - SplitPoint(c)))
        BY <3>1, <3>5, SubtreeHashEquation
      <4> QED BY <3>3, <4>1
    <3> QED BY <3>4, <3>5
  <2>6. (n = 0) <=> (m = 0)
    BY <2>1, <2>2, <2>3, <2>4, <2>5
  <2>7. CASE n # 0
    <3>1. n \in Nat \ {0} /\ m \in Nat \ {0} /\ 0 \in Nat /\ 0 + n <= Len(r) /\ 0 + m <= Len(s)
      BY <1>1, <2>6, <2>7
    <3>2. SubtreeHash(l, 0, n) = SubtreeHash(h, 0, m)
      BY <2>1, <2>2, <2>6, <2>7
    <3> HIDE DEF n, m
    <3> QED BY <3>1, <3>2, SubtreeDeterminesLog
  <2> QED BY <2>6, <2>7
<1>3. l = h
  BY <1>1, <1>2, LeafHashesFacts, MerkleRootInjective
<1> QED BY <1>3, LeafHashesInjective

(* An inclusion proof alone does not fix the size of its tree: the path of the
   first of three entries also serves the first of four (proofs.py 160-163).  The
   verifier compares the size with that of the signed head
   (checkpoint_size_binding, service.py 269-277). *)
LEMMA ProofDoesNotFixTreeSize ==
  ASSUME NEW E, NEW s \in Seq(E), Len(s) = 3
  PROVE  VerifyInclusionProof([GenerateInclusionProof(s, 0) EXCEPT !.tree_size = 4])
<1> DEFINE p == GenerateInclusionProof(s, 0)
           q == [p EXCEPT !.tree_size = 4]
<1>1. SplitPoint(3) = 2 /\ SplitPoint(4) = 2
  <2>1. SplitPoint(3) \in Nat /\ SplitPoint(3) < 3 /\ 3 <= SplitPoint(3) * 2
    BY SplitPointIsLargestPower
  <2>2. SplitPoint(4) \in Nat /\ SplitPoint(4) < 4 /\ 4 <= SplitPoint(4) * 2
    BY SplitPointIsLargestPower
  <2>3. SplitPoint(4) # 3
    <3> DEFINE P == Nat \ {3}
    <3>1. 1 \in P /\ \A k \in P : k * 2 \in P
      OBVIOUS
    <3>2. 4 \in Nat /\ 4 >= 2
      OBVIOUS
    <3> HIDE DEF P
    <3>3. SplitPoint(4) \in P
      BY <3>1, <3>2, SplitPointIsLargestPower
    <3> QED BY <3>3 DEF P
  <2> QED BY <2>1, <2>2, <2>3
<1>2. ExpectedPositions(4, 0) = ExpectedPositions(3, 0)
  <2>1. ASSUME NEW n \in Nat, n > 1, SplitPoint(n) = 2
        PROVE  ExpectedPositions(n, 0) = Append(ExpectedPositions(2, 0), "right")
    <3>1. ~(n <= 1) /\ 0 \in Nat /\ 0 < 2
      BY <2>1
    <3> QED BY <2>1, <3>1, ExpectedPositionsEquation
  <2> QED BY <1>1, <2>1
<1>3. VerifyInclusionProof(p) /\ p.tree_size = 3 /\ p.leaf_index = 0
  <2>1. 0 \in 0..(Len(s) - 1)
    OBVIOUS
  <2>2. VerifyInclusionProof(p)
    BY <2>1, InclusionCompleteness
  <2>3. p.tree_size = 3 /\ p.leaf_index = 0
    BY LeafHashesFacts DEF GenerateInclusionProof
  <2> QED BY <2>2, <2>3
<1>4. /\ q.tree_size = 4 /\ q.leaf_index = p.leaf_index /\ q.leaf_hash = p.leaf_hash
      /\ q.root_hash = p.root_hash /\ q.audit_path = p.audit_path
  BY DEF GenerateInclusionProof
<1> HIDE DEF p, q
<1>5. VerifyInclusionProof(q)
  BY <1>2, <1>3, <1>4 DEF VerifyInclusionProof
<1> QED BY <1>5 DEF p, q

-----------------------------------------------------------------------------
(* VerifierSoundness: bundles with parts that are wrong. *)

(* Sequences are lists. *)
LEMMA SequencesAreLists ==
  ASSUME NEW T, NEW s \in Seq(T)
  PROVE  IsList(s)
BY LenProperties DEF IsList

(* Lists are sequences of their elements. *)
LEMMA ListsAreSequences ==
  ASSUME NEW s, IsList(s)
  PROVE  s \in Seq({s[i] : i \in 1..Len(s)})
<1> DEFINE T == {s[i] : i \in 1..Len(s)}
           n == Len(s)
<1>1. n \in Nat /\ s = [i \in 1..n |-> s[i]] /\ \A i \in 1..n : s[i] \in T
  BY DEF IsList
<1> HIDE DEF T, n
<1>2. s \in [1..n -> T]
  BY <1>1
<1>3. s \in Seq(T)
  BY <1>1, <1>2
<1> QED BY <1>3 DEF T, n

(* The logs of the model are sequences of entries. *)
LEMMA LogsType ==
  /\ \A n \in 1..MaxSize : Grown(n) \in Seq(EntryIds) /\ Len(Grown(n)) = n
  /\ \A s \in Logs : s \in Seq(EntryIds)
<1>1. MaxSize \in Nat
  BY BoundsAssumption
<1>2. ASSUME NEW n \in 1..MaxSize PROVE Grown(n) \in Seq(EntryIds) /\ Len(Grown(n)) = n
  BY <1>1 DEF Grown, EntryIds
<1>3. ASSUME NEW n \in 1..MaxSize, NEW k \in 1..MaxSize
      PROVE  [i \in 1..n |-> IF i < k THEN i ELSE i + 1] \in Seq(EntryIds)
  BY <1>1 DEF EntryIds
<1> QED BY <1>2, <1>3 DEF Logs

(* A generated audit path is a list. *)
LEMMA AuditPathIsList ==
  ASSUME NEW E, NEW s \in Seq(E), NEW i \in 0..(Len(s) - 1)
  PROVE  IsList(AuditPath(LeafHashes(s), i))
<1>1. GenerateInclusionProof(s, i).audit_path = AuditPath(LeafHashes(s), i)
  BY DEF GenerateInclusionProof
<1> QED BY <1>1, InclusionCompleteness, SequencesAreLists

(* The parts of generated proofs. *)
LEMMA GeneratedProofsType ==
  ASSUME NEW E, NEW s \in Seq(E)
  PROVE  /\ \A i \in 0..(Len(s) - 1) : IsInclusionProof(GenerateInclusionProof(s, i))
         /\ \A n : IsConsistencyProof(GenerateConsistencyProof(s, n))
<1>1. ASSUME NEW i \in 0..(Len(s) - 1)
      PROVE  IsInclusionProof(GenerateInclusionProof(s, i))
  <2> DEFINE a == Len(LeafHashes(s))
             b == LeafHashes(s)[i + 1]
             c == MerkleRoot(LeafHashes(s))
             d == AuditPath(LeafHashes(s), i)
             p == [tree_size |-> a, leaf_index |-> i, leaf_hash |-> b,
                   root_hash |-> c, audit_path |-> d]
  <2>1. GenerateInclusionProof(s, i) = p
    BY DEF GenerateInclusionProof
  <2>2. IsList(d) /\ i \in Nat
    BY AuditPathIsList, LenProperties
  <2> HIDE DEF a, b, c, d
  <2>3. IsInclusionProof(p)
    BY <2>2 DEF IsInclusionProof
  <2> QED BY <2>1, <2>3
<1>2. ASSUME NEW n
      PROVE  IsConsistencyProof(GenerateConsistencyProof(s, n))
  <2> DEFINE b == Len(LeafHashes(s))
             c == MerkleRoot(Prefix(LeafHashes(s), n))
             d == MerkleRoot(LeafHashes(s))
             l == LeafHashes(s)
             p == [previous_tree_size |-> n, latest_tree_size |-> b,
                   previous_root_hash |-> c, latest_root_hash |-> d, leaf_hashes |-> l]
  <2>1. GenerateConsistencyProof(s, n) = p
    BY DEF GenerateConsistencyProof
  <2>2. IsList(l)
    BY LeafHashesFacts, SequencesAreLists
  <2> HIDE DEF b, c, d, l
  <2>3. IsConsistencyProof(p)
    BY <2>2 DEF IsConsistencyProof
  <2> QED BY <2>1, <2>3
<1> QED BY <1>1, <1>2

(* What is handed out at first is well formed. *)
LEMMA VerifierInvInit == VerifierInit => VerifierInv
<1> SUFFICES ASSUME VerifierInit PROVE VerifierInv
  OBVIOUS
<1>1. signed_log \in Seq(EntryIds) /\ current \in Seq(EntryIds)
  BY LogsType DEF VerifierInit
<1>2. PICK i \in 0..(Len(signed_log) - 1) :
        bundle = Bundle(signed_log[i + 1], TreeHead(signed_log, 0),
                        GenerateInclusionProof(signed_log, i))
  BY DEF VerifierInit
<1> DEFINE p == GenerateInclusionProof(signed_log, i)
           h == TreeHead(signed_log, 0)
           e == signed_log[i + 1]
           l == LeafHash(e)
<1>3. IsInclusionProof(p)
  BY <1>1, GeneratedProofsType
<1>4. bundle = [event |-> e, event_hash |-> e, leaf_hash |-> l,
                tree_head |-> h, inclusion_proof |-> p]
  BY <1>2 DEF Bundle
<1> HIDE DEF p, h, e, l
<1>5. IsBundle(bundle, h)
  BY <1>3, <1>4 DEF IsBundle
<1>6. IsConsistencyProof(consistency)
  BY <1>1, GeneratedProofsType DEF VerifierInit, HonestConsistency
<1>7. damage = 0
  BY DEF VerifierInit
<1> QED BY <1>1, <1>5, <1>6, <1>7 DEF VerifierInv, h

(* A change of the bundle that leaves it a bundle keeps the invariant. *)
LEMMA BundleDamaged ==
  ASSUME VerifierInv, DamageBundle, IsBundle(bundle', TreeHead(signed_log, 0))
  PROVE  VerifierInv'
<1>1. /\ signed_log' = signed_log /\ current' = current /\ consistency' = consistency
      /\ damage' = damage + 1
  BY DEF DamageBundle, Damage
<1>2. damage' \in Nat /\ damage' # 0
  BY <1>1 DEF VerifierInv
<1> QED BY <1>1, <1>2 DEF VerifierInv

(* So does one of the consistency proof. *)
LEMMA ConsistencyDamaged ==
  ASSUME VerifierInv, DamageConsistency, IsConsistencyProof(consistency')
  PROVE  VerifierInv'
<1>1. /\ signed_log' = signed_log /\ current' = current /\ bundle' = bundle
      /\ damage' = damage + 1
  BY DEF DamageConsistency, Damage
<1>2. damage' \in Nat /\ damage' # 0
  BY <1>1 DEF VerifierInv
<1> QED BY <1>1, <1>2 DEF VerifierInv

(* Another inclusion proof in the same bundle. *)
LEMMA ProofReplaced ==
  ASSUME NEW b, NEW h, IsBundle(b, h), NEW q, IsInclusionProof(q)
  PROVE  IsBundle([b EXCEPT !.inclusion_proof = q], h)
<1> DEFINE c == [b EXCEPT !.inclusion_proof = q]
<1>1. /\ DOMAIN b = {"event", "event_hash", "leaf_hash", "tree_head", "inclusion_proof"}
      /\ b.tree_head = h
  BY DEF IsBundle
<1>2. c = [event |-> b.event, event_hash |-> b.event_hash, leaf_hash |-> b.leaf_hash,
           tree_head |-> h, inclusion_proof |-> q]
  BY DEF IsBundle
<1> HIDE DEF c
<1>3. IsBundle(c, h)
  BY <1>2 DEF IsBundle
<1> QED BY <1>3 DEF c

(* Every way to mix up the bundle. *)
LEMMA BundleSteps ==
  ASSUME VerifierInv
  PROVE  /\ \A e \in EntryIds : WrongEvent(e) => VerifierInv'
         /\ \A e \in EntryIds, n \in 0..MaxSize : WrongLeaf(e, n) => VerifierInv'
         /\ \A size \in 1..MaxSize + 1, i \in 0..MaxSize : WrongPlace(size, i) => VerifierInv'
         /\ \A n \in 1..MaxSize : \A i \in 0..(n - 1) : WrongPath(n, i) => VerifierInv'
         /\ ShortPath => VerifierInv'
         /\ \A n \in 1..MaxSize : WrongRoot(n) => VerifierInv'
<1> DEFINE h == TreeHead(signed_log, 0)
           p == bundle.inclusion_proof
<1>1. /\ IsBundle(bundle, h) /\ IsInclusionProof(p)
      /\ bundle = [event |-> bundle.event, event_hash |-> bundle.event_hash,
                   leaf_hash |-> bundle.leaf_hash, tree_head |-> h, inclusion_proof |-> p]
  BY DEF VerifierInv, IsBundle
<1>2. /\ p = [tree_size |-> p.tree_size, leaf_index |-> p.leaf_index,
              leaf_hash |-> p.leaf_hash, root_hash |-> p.root_hash,
              audit_path |-> p.audit_path]
      /\ p.leaf_index \in Nat /\ IsList(p.audit_path)
  BY <1>1 DEF IsInclusionProof
<1>3. ASSUME NEW q, IsInclusionProof(q), DamageBundle,
             bundle' = [bundle EXCEPT !.inclusion_proof = q]
      PROVE  VerifierInv'
  <2>1. IsBundle(bundle', h)
    BY <1>1, <1>3, ProofReplaced
  <2> QED BY <1>3, <2>1, BundleDamaged
<1>4. ASSUME NEW e, WrongEvent(e) PROVE VerifierInv'
  <2> DEFINE l == LeafHash(e)
             c == [event |-> e, event_hash |-> e, leaf_hash |-> l,
                   tree_head |-> h, inclusion_proof |-> p]
  <2>1. DamageBundle
         /\ bundle' = [bundle EXCEPT !.event = e, !.event_hash = e, !.leaf_hash = l]
    BY <1>4 DEF WrongEvent
  <2> HIDE DEF h, p, l
  <2>2. bundle' = c
    <3> DEFINE c1 == [bundle EXCEPT !.event = e]
               c2 == [c1 EXCEPT !.event_hash = e]
    <3>1. bundle' = [c2 EXCEPT !.leaf_hash = l]
      BY <2>1
    <3>2. c1 = [event |-> e, event_hash |-> bundle.event_hash,
                leaf_hash |-> bundle.leaf_hash, tree_head |-> h, inclusion_proof |-> p]
      BY <1>1
    <3> HIDE DEF c1
    <3>3. c2 = [event |-> e, event_hash |-> e,
                leaf_hash |-> bundle.leaf_hash, tree_head |-> h, inclusion_proof |-> p]
      BY <3>2
    <3> HIDE DEF c2
    <3> QED BY <3>1, <3>3
  <2>3. IsBundle(c, h)
    BY <1>1 DEF IsBundle
  <2> QED BY <2>1, <2>2, <2>3, BundleDamaged DEF h
<1>5. ASSUME NEW e, NEW n, WrongLeaf(e, n) PROVE VerifierInv'
  <2> DEFINE x == IF n = 0 THEN LeafHash(e) ELSE MerkleRoot(LeafHashes(Grown(n)))
             q == [p EXCEPT !.leaf_hash = x]
  <2>1. DamageBundle /\ bundle' = [bundle EXCEPT !.inclusion_proof = q]
    BY <1>5 DEF WrongLeaf
  <2> HIDE DEF h, p, x
  <2>2. q = [tree_size |-> p.tree_size, leaf_index |-> p.leaf_index,
             leaf_hash |-> x, root_hash |-> p.root_hash, audit_path |-> p.audit_path]
    BY <1>2
  <2> HIDE DEF q
  <2>3. IsInclusionProof(q)
    BY <1>2, <2>2 DEF IsInclusionProof
  <2> QED BY <1>3, <2>1, <2>3
<1>6. ASSUME NEW size, NEW i \in 0..MaxSize, WrongPlace(size, i) PROVE VerifierInv'
  <2> DEFINE q == [p EXCEPT !.tree_size = size, !.leaf_index = i]
  <2>1. DamageBundle /\ bundle' = [bundle EXCEPT !.inclusion_proof = q]
    BY <1>6, <1>1 DEF WrongPlace
  <2> HIDE DEF h, p
  <2>2. q = [tree_size |-> size, leaf_index |-> i,
             leaf_hash |-> p.leaf_hash, root_hash |-> p.root_hash, audit_path |-> p.audit_path]
    <3> DEFINE q1 == [p EXCEPT !.tree_size = size]
    <3>1. q = [q1 EXCEPT !.leaf_index = i]
      OBVIOUS
    <3>2. q1 = [tree_size |-> size, leaf_index |-> p.leaf_index, leaf_hash |-> p.leaf_hash,
                root_hash |-> p.root_hash, audit_path |-> p.audit_path]
      BY <1>2
    <3> HIDE DEF q1, q
    <3> QED BY <3>1, <3>2
  <2>3. i \in Nat
    BY BoundsAssumption
  <2> HIDE DEF q
  <2>4. IsInclusionProof(q)
    BY <1>2, <2>2, <2>3 DEF IsInclusionProof
  <2> QED BY <1>3, <2>1, <2>4
<1>7. ASSUME NEW a, IsList(a), DamageBundle,
             bundle' = [bundle EXCEPT !.inclusion_proof.audit_path = a]
      PROVE  VerifierInv'
  <2> DEFINE q == [p EXCEPT !.audit_path = a]
  <2>1. bundle' = [bundle EXCEPT !.inclusion_proof = q]
    BY <1>7
  <2> HIDE DEF h, p
  <2>2. q = [tree_size |-> p.tree_size, leaf_index |-> p.leaf_index,
             leaf_hash |-> p.leaf_hash, root_hash |-> p.root_hash, audit_path |-> a]
    BY <1>2
  <2> HIDE DEF q
  <2>3. IsInclusionProof(q)
    BY <1>2, <1>7, <2>2 DEF IsInclusionProof
  <2> QED BY <1>3, <1>7, <2>1, <2>3
<1>8. ASSUME NEW n \in 1..MaxSize, NEW i \in 0..(n - 1), WrongPath(n, i) PROVE VerifierInv'
  <2> DEFINE a == AuditPath(LeafHashes(Grown(n)), i)
  <2>1. IsList(a)
    BY LogsType, AuditPathIsList
  <2> QED BY <1>7, <1>8, <2>1 DEF WrongPath
<1>9. ASSUME ShortPath PROVE VerifierInv'
  <2> DEFINE a == Tail(p.audit_path)
  <2>1. IsList(a)
    BY <1>2, <1>9, ListsAreSequences, SequencesAreLists, HeadTailProperties DEF ShortPath
  <2>2. DamageBundle /\ bundle' = [bundle EXCEPT !.inclusion_proof.audit_path = a]
    BY <1>9 DEF ShortPath
  <2> HIDE DEF a
  <2> QED BY <1>7, <2>1, <2>2
<1>10. ASSUME NEW n, WrongRoot(n) PROVE VerifierInv'
  <2> DEFINE x == MerkleRoot(LeafHashes(Grown(n)))
             q == [p EXCEPT !.root_hash = x]
  <2>1. DamageBundle /\ bundle' = [bundle EXCEPT !.inclusion_proof = q]
    BY <1>10 DEF WrongRoot
  <2> HIDE DEF h, p, x
  <2>2. q = [tree_size |-> p.tree_size, leaf_index |-> p.leaf_index,
             leaf_hash |-> p.leaf_hash, root_hash |-> x, audit_path |-> p.audit_path]
    BY <1>2
  <2> HIDE DEF q
  <2>3. IsInclusionProof(q)
    BY <1>2, <2>2 DEF IsInclusionProof
  <2> QED BY <1>3, <2>1, <2>3
<1> QED BY <1>4, <1>5, <1>6, <1>8, <1>9, <1>10

(* Every way to mix up the consistency proof. *)
LEMMA ConsistencySteps ==
  ASSUME VerifierInv
  PROVE  /\ \A s \in Logs, from \in 1..MaxSize : WrongConsistency(s, from) => VerifierInv'
         /\ \A s \in Logs : WrongOldRoot(s) => VerifierInv'
<1>1. ASSUME NEW s \in Logs, NEW from, WrongConsistency(s, from) PROVE VerifierInv'
  <2>1. IsConsistencyProof(consistency')
    BY <1>1, LogsType, GeneratedProofsType DEF WrongConsistency, HonestConsistency
  <2> QED BY <1>1, <2>1, ConsistencyDamaged DEF WrongConsistency
<1>2. ASSUME NEW s, WrongOldRoot(s) PROVE VerifierInv'
  <2> DEFINE p == consistency
             x == MerkleRoot(LeafHashes(s))
             q == [p EXCEPT !.previous_root_hash = x]
  <2>1. DamageConsistency /\ consistency' = q
    BY <1>2 DEF WrongOldRoot
  <2>2. /\ p = [previous_tree_size |-> p.previous_tree_size,
                latest_tree_size |-> p.latest_tree_size,
                previous_root_hash |-> p.previous_root_hash,
                latest_root_hash |-> p.latest_root_hash,
                leaf_hashes |-> p.leaf_hashes]
        /\ IsList(p.leaf_hashes)
    BY DEF VerifierInv, IsConsistencyProof
  <2> HIDE DEF p, x
  <2>3. q = [previous_tree_size |-> p.previous_tree_size,
             latest_tree_size |-> p.latest_tree_size,
             previous_root_hash |-> x,
             latest_root_hash |-> p.latest_root_hash,
             leaf_hashes |-> p.leaf_hashes]
    BY <2>2
  <2> HIDE DEF q
  <2>4. IsConsistencyProof(q)
    BY <2>2, <2>3 DEF IsConsistencyProof
  <2> QED BY <2>1, <2>4, ConsistencyDamaged
<1> QED BY <1>1, <1>2

(* Whatever is mixed up, and however often, the bundle keeps the head that
   was signed and the lists stay lists. *)
THEOREM VerifierInvariance == VerifierSpec => []VerifierInv
<1>1. VerifierInv /\ [VerifierNext]_verifierVars => VerifierInv'
  <2> SUFFICES ASSUME VerifierInv, [VerifierNext]_verifierVars PROVE VerifierInv'
    OBVIOUS
  <2>1. CASE VerifierNext
    BY <2>1, BundleSteps, ConsistencySteps DEF VerifierNext
  <2>2. CASE UNCHANGED verifierVars
    BY <2>2 DEF verifierVars, VerifierInv, VerifierInit
  <2> QED BY <2>1, <2>2
<1> QED BY <1>1, VerifierInvInit, PTL DEF VerifierSpec

(* What it takes to pass verify_offline_bundle at the time the head was
   signed (service.py 226-297). *)
LEMMA AcceptedMeans ==
  ASSUME VerifierInv
  PROVE  LET p == bundle.inclusion_proof IN
         Accepted <=>
           /\ bundle.event = bundle.event_hash
           /\ LeafHash(bundle.event) = bundle.leaf_hash
           /\ p.leaf_hash = bundle.leaf_hash
           /\ VerifyInclusionProof(p)
           /\ MerkleRoot(LeafHashes(signed_log)) = p.root_hash
           /\ Len(signed_log) = p.tree_size
<1> DEFINE p == bundle.inclusion_proof
           h == TreeHead(signed_log, 0)
           a == bundle.event = bundle.event_hash
           b == LeafHash(bundle.event) = bundle.leaf_hash
           c == p.leaf_hash = bundle.leaf_hash
           d == VerifyInclusionProof(p)
           e == bundle.tree_head.root_hash = p.root_hash
           f == bundle.tree_head.tree_size = p.tree_size
           g == bundle.tree_head.created_at <= 0 + MaxSkew
<1>1. bundle.tree_head = h
  BY DEF VerifierInv, IsBundle
<1>2. h.root_hash = MerkleRoot(LeafHashes(signed_log)) /\ h.tree_size = Len(signed_log)
       /\ h.created_at = 0
  BY DEF TreeHead
<1>3. g
  BY <1>1, <1>2, SkewAssumption
<1> DEFINE checks == [event_hash |-> a, leaf_binding |-> b, proof_leaf_binding |-> c,
                      inclusion_proof |-> d, checkpoint_root_binding |-> e,
                      checkpoint_size_binding |-> f, checkpoint_time |-> g]
<1>4. OfflineChecks(bundle, 0) = checks
  BY DEF OfflineChecks
<1> HIDE DEF a, b, c, d, e, f, g
<1>5. Failed(checks) = {} <=> (a /\ b /\ c /\ d /\ e /\ f /\ g)
  <2>1. DOMAIN checks = {"event_hash", "leaf_binding", "proof_leaf_binding", "inclusion_proof",
                         "checkpoint_root_binding", "checkpoint_size_binding", "checkpoint_time"}
    OBVIOUS
  <2>2. /\ checks["event_hash"] <=> a
        /\ checks["leaf_binding"] <=> b
        /\ checks["proof_leaf_binding"] <=> c
        /\ checks["inclusion_proof"] <=> d
        /\ checks["checkpoint_root_binding"] <=> e
        /\ checks["checkpoint_size_binding"] <=> f
        /\ checks["checkpoint_time"] <=> g
    OBVIOUS
  <2> HIDE DEF checks
  <2> QED BY <2>1, <2>2 DEF Failed
<1>6. Accepted <=> Failed(checks) = {}
  BY <1>4 DEF Accepted
<1> HIDE DEF checks
<1>7. Accepted <=> (a /\ b /\ c /\ d /\ e /\ f)
  BY <1>3, <1>5, <1>6
<1> QED BY <1>1, <1>2, <1>7 DEF a, b, c, d, e, f

(* A bundle that passes the offline checks tells the truth about its event and
   its index, for trees of every size and any amount of damage
   (service.py 226-276, proofs.py 146-181). *)
THEOREM AcceptedBundlesAreIncluded == VerifierSpec => []AcceptedIsIncluded
<1>1. VerifierInv => AcceptedIsIncluded
  <2> SUFFICES ASSUME VerifierInv, Accepted
               PROVE  /\ bundle.inclusion_proof.leaf_index < Len(signed_log)
                      /\ signed_log[bundle.inclusion_proof.leaf_index + 1] = bundle.event
    BY DEF AcceptedIsIncluded
  <2> DEFINE p == bundle.inclusion_proof
             T == {p.audit_path[i] : i \in 1..Len(p.audit_path)}
  <2>1. /\ signed_log \in Seq(EntryIds) /\ p.leaf_index \in Nat /\ IsList(p.audit_path)
    BY DEF VerifierInv, IsBundle, IsInclusionProof
  <2>2. p.audit_path \in Seq(T)
    BY <2>1, ListsAreSequences
  <2>3. /\ p.leaf_hash = LeafHash(bundle.event)
        /\ VerifyInclusionProof(p)
        /\ p.root_hash = MerkleRoot(LeafHashes(signed_log))
        /\ p.tree_size = Len(signed_log)
    BY AcceptedMeans
  <2> HIDE DEF p, T
  <2>4. p.leaf_index < Len(signed_log) /\ signed_log[p.leaf_index + 1] = bundle.event
    BY <2>1, <2>2, <2>3, InclusionSoundness
  <2> QED BY <2>4 DEF p
<1> QED BY <1>1, VerifierInvariance, PTL

(* A log that continuity was verified for has kept every entry up to the
   checkpoint, for trees of every size and any amount of damage
   (service.py 469-518, proofs.py 184-213). *)
THEOREM ContinuousLogsAreExtensions == VerifierSpec => []ContinuousIsExtension
<1>1. VerifierInv => ContinuousIsExtension
  <2> SUFFICES ASSUME VerifierInv,
                      Continuity(bundle.tree_head, TreeHead(current, 0), consistency)
               PROVE  Prefix(current, Len(signed_log)) = signed_log
    BY DEF ContinuousIsExtension
  <2> DEFINE l == consistency.leaf_hashes
             T == {l[i] : i \in 1..Len(l)}
  <2>1. /\ signed_log \in Seq(EntryIds) /\ current \in Seq(EntryIds) /\ IsList(l)
        /\ bundle.tree_head = TreeHead(signed_log, 0)
    BY DEF VerifierInv, IsBundle, IsConsistencyProof
  <2>2. l \in Seq(T)
    BY <2>1, ListsAreSequences
  <2> HIDE DEF T
  <2> QED BY <2>1, <2>2, ContinuitySoundness
<1> QED BY <1>1, VerifierInvariance, PTL

(* An untouched bundle passes, and so does an untouched consistency proof of a
   log that has only grown, for every size and index (merkle.py 80-110,
   proofs.py 97-223). *)
THEOREM HonestAnswersAreAccepted == VerifierSpec => []HonestIsAccepted
<1>1. VerifierInv => HonestIsAccepted
  <2> SUFFICES ASSUME VerifierInv, damage = 0 PROVE HonestIsAccepted
    BY DEF HonestIsAccepted
  <2>1. VerifierInit /\ signed_log \in Seq(EntryIds) /\ current \in Seq(EntryIds)
         /\ bundle.tree_head = TreeHead(signed_log, 0)
    BY DEF VerifierInv, IsBundle
  <2>2. PICK i \in 0..(Len(signed_log) - 1) :
          bundle = Bundle(signed_log[i + 1], TreeHead(signed_log, 0),
                          GenerateInclusionProof(signed_log, i))
    BY <2>1 DEF VerifierInit
  <2> DEFINE p == GenerateInclusionProof(signed_log, i)
             x == signed_log[i + 1]
  <2>3. /\ bundle.event = x /\ bundle.event_hash = x /\ bundle.leaf_hash = LeafHash(x)
        /\ bundle.inclusion_proof = p
    BY <2>2 DEF Bundle
  <2>4. i + 1 \in 1..Len(signed_log)
    BY <2>1, LenProperties
  <2>5. /\ p.leaf_hash = LeafHash(x)
        /\ p.root_hash = MerkleRoot(LeafHashes(signed_log))
        /\ p.tree_size = Len(signed_log)
    BY <2>1, <2>4, LeafHashesFacts DEF GenerateInclusionProof
  <2>6. VerifyInclusionProof(p)
    BY <2>1, InclusionCompleteness
  <2> HIDE DEF p, x
  <2>7. Accepted
    BY <2>3, <2>5, <2>6, AcceptedMeans
  <2>8. ASSUME Len(current) >= Len(signed_log), Prefix(current, Len(signed_log)) = signed_log
        PROVE  Continuity(bundle.tree_head, TreeHead(current, 0), consistency)
    <3>1. Len(signed_log) <= Len(current)
      BY <2>1, <2>8, LenProperties
    <3>2. consistency = GenerateConsistencyProof(current, Len(signed_log))
      BY <2>1, <3>1 DEF VerifierInit, HonestConsistency
    <3> QED BY <2>1, <2>8, <3>1, <3>2, ContinuityCompleteness
  <2> QED BY <2>7, <2>8 DEF HonestIsAccepted
<1> QED BY <1>1, VerifierInvariance, PTL

-----------------------------------------------------------------------------
(* From here on TransparencyApi: the clients of a live log. *)

(* The head of the whole log is the head of a prefix. *)
LEMMA HeadOfLog ==
  ASSUME TypeOK, NEW t
  PROVE  IsHeadOfPrefix(TreeHead(log, t))
<1>1. log \in Seq(Events) /\ Len(log) \in Nat
  BY DEF TypeOK
<1>2. Len(LeafHashes(log)) = Len(log)
  BY <1>1 DEF LeafHashes
<1> QED BY <1>1, <1>2, WholePrefix DEF IsHeadOfPrefix, TreeHead

(* A head of a prefix stays one when the log grows. *)
LEMMA PrefixStays ==
  ASSUME TypeOK, NEW e \in Events, log' = Append(log, e),
         NEW h, IsHeadOfPrefix(h)
  PROVE  /\ h.tree_size \in 0..Len(log')
         /\ h.root_hash = MerkleRoot(LeafHashes(Prefix(log', h.tree_size)))
<1>1. log \in Seq(Events) /\ h.tree_size \in 0..Len(log)
  BY DEF TypeOK, IsHeadOfPrefix
<1>2. Prefix(log', h.tree_size) = Prefix(log, h.tree_size)
  BY <1>1, AppendKeepsPrefix
<1>3. Len(log') = Len(log) + 1
  BY <1>1
<1> QED BY <1>1, <1>2, <1>3 DEF IsHeadOfPrefix

(* The invariant holds at the start: every client has the head of the empty
   log and no failed check. *)
LEMMA InvInit == Init => Inv
<1> SUFFICES ASSUME Init PROVE Inv
  OBVIOUS
<1>1. AnyEvent \in Events
  BY ApiAssumption DEF AnyEvent
<1>2. TypeOK
  BY <1>1, ApiAssumption DEF Init, TypeOK
<1>3. log = <<>> /\ NoHead = TreeHead(log, 0)
  BY DEF Init, NoHead
<1>4. IsHeadOfPrefix(NoHead)
  BY <1>2, <1>3, HeadOfLog
<1>5. NoHead.created_at = 0
  BY DEF NoHead, TreeHead
<1>6. AreFunctions
  BY DEF Init, AreFunctions
<1>7. StampsArePast
  BY <1>5 DEF Init, StampsArePast
<1>8. HeadsArePrefixes
  BY <1>4 DEF Init, HeadsArePrefixes
<1>9. \A c \in Clients : ClientConsistent(c)
  BY DEF Init, ClientConsistent
<1>10. NoFalseAlarm /\ RefusedOnlyByRaceOrSkew
  BY DEF Init, NoFalseAlarm, RefusedOnlyByRaceOrSkew, RefusalExplained
<1> QED BY <1>2, <1>6, <1>7, <1>8, <1>9, <1>10 DEF Inv

(* The failures of an offline check of what get_proof_bundle returned: no
   hash of the event is wrong and its audit path leads to the root; if the
   roots or the sizes differ then the proof is of a larger tree than the head. *)
LEMMA OfflineFailures ==
  ASSUME Inv, NEW c \in Clients, pc[c] = "offline",
         NEW F, F = Failed(OfflineChecks(BundleOf(c), began[c]))
  PROVE  /\ F \subseteq Codes
         /\ F \cap {"event_hash", "leaf_binding", "proof_leaf_binding", "inclusion_proof",
                    "latest_checkpoint_time", "append_only_continuity",
                    "latest_checkpoint_future_skew"} = {}
         /\ F \cap {"checkpoint_root_binding", "checkpoint_size_binding"} # {}
              => checkpoint[c].tree_size < proof[c].tree_size
         /\ "checkpoint_time" \in F => began[c] + MaxSkew < now
<1>1. /\ IsHeadOfPrefix(proof[c]) /\ IsHeadOfPrefix(checkpoint[c])
      /\ proof[c].leaf_hash = LeafHash(event[c]) /\ VerifyInclusionProof(proof[c])
      /\ checkpoint[c].tree_size <= proof[c].tree_size
      /\ checkpoint[c].created_at \in 0..now
      /\ now \in Nat /\ began[c] \in Nat /\ log \in Seq(Events)
  BY ApiAssumption DEF Inv, ClientConsistent, HeadsArePrefixes, StampsArePast, TypeOK
<1>2. /\ checkpoint[c].tree_size \in Nat /\ proof[c].tree_size \in Nat
      /\ checkpoint[c].tree_size = proof[c].tree_size
           => checkpoint[c].root_hash = proof[c].root_hash
  BY <1>1 DEF IsHeadOfPrefix
<1> DEFINE b == BundleOf(c)
<1>3. /\ b.event = event[c] /\ b.event_hash = event[c]
      /\ b.leaf_hash = LeafHash(event[c])
      /\ b.tree_head = checkpoint[c] /\ b.inclusion_proof = proof[c]
  BY DEF BundleOf, Bundle
<1> HIDE DEF b
<1> DEFINE K == OfflineChecks(b, began[c])
<1>4. /\ DOMAIN K = {"event_hash", "leaf_binding", "proof_leaf_binding",
                     "inclusion_proof", "checkpoint_root_binding",
                     "checkpoint_size_binding", "checkpoint_time"}
      /\ K.event_hash = (b.event = b.event_hash)
      /\ K.leaf_binding = (LeafHash(b.event) = b.leaf_hash)
      /\ K.proof_leaf_binding = (b.inclusion_proof.leaf_hash = b.leaf_hash)
      /\ K.inclusion_proof = VerifyInclusionProof(b.inclusion_proof)
      /\ K.checkpoint_root_binding = (b.tree_head.root_hash = b.inclusion_proof.root_hash)
      /\ K.checkpoint_size_binding = (b.tree_head.tree_size = b.inclusion_proof.tree_size)
      /\ K.checkpoint_time = (b.tree_head.created_at <= began[c] + MaxSkew)
  BY DEF OfflineChecks
<1> HIDE DEF K
<1>5. F = {code \in DOMAIN K : ~K[code]}
  BY DEF Failed, K, b
<1>6. F \subseteq Codes
  BY <1>4, <1>5 DEF Codes
<1>7. K.event_hash /\ K.leaf_binding /\ K.proof_leaf_binding /\ K.inclusion_proof
  BY <1>1, <1>3, <1>4
<1>8. F \cap {"event_hash", "leaf_binding", "proof_leaf_binding", "inclusion_proof",
              "latest_checkpoint_time", "append_only_continuity",
              "latest_checkpoint_future_skew"} = {}
  BY <1>4, <1>5, <1>7
<1>9. ~(K.checkpoint_root_binding /\ K.checkpoint_size_binding)
        => checkpoint[c].tree_size < proof[c].tree_size
  <2>1. checkpoint[c].tree_size # proof[c].tree_size
          => checkpoint[c].tree_size < proof[c].tree_size
    BY <1>1, <1>2
  <2>2. checkpoint[c].tree_size = proof[c].tree_size
          => K.checkpoint_root_binding /\ K.checkpoint_size_binding
    BY <1>2, <1>3, <1>4, Zenon
  <2> QED BY <2>1, <2>2, Zenon
<1>10. F \cap {"checkpoint_root_binding", "checkpoint_size_binding"} # {}
        => checkpoint[c].tree_size < proof[c].tree_size
  BY <1>5, <1>9
<1>11. ~K.checkpoint_time => began[c] + MaxSkew < now
  <2>1. ~(checkpoint[c].created_at <= began[c] + MaxSkew) => began[c] + MaxSkew < now
    BY <1>1, SkewAssumption
  <2>2. K.checkpoint_time = (checkpoint[c].created_at <= began[c] + MaxSkew)
    BY <1>3, <1>4, Zenon
  <2> QED BY <2>1, <2>2, Zenon
<1>12. "checkpoint_time" \in F => began[c] + MaxSkew < now
  BY <1>5, <1>11
<1> QED BY <1>6, <1>8, <1>10, <1>12

(* The failures of the last check: the latest head is not older, and the
   consistency proof, made from whatever the log is by now, binds both heads.
   Only a slow request can fail. *)
LEMMA OnlineFailures ==
  ASSUME Inv, NEW c \in Clients, pc[c] = "continuity",
         NEW F, F = Failed(OnlineChecks(checkpoint[c], head[c],
                      ConsistencyProof(checkpoint[c].tree_size, head[c].tree_size),
                      began[c]))
  PROVE  /\ F \subseteq {"latest_checkpoint_future_skew"}
         /\ F # {} => began[c] + MaxSkew < now
<1> DEFINE m == head[c].tree_size
           n == checkpoint[c].tree_size
           p == ConsistencyProof(n, m)
<1>1. /\ m \in 0..Len(log) /\ n \in 0..m
      /\ head[c].root_hash = MerkleRoot(LeafHashes(Prefix(log, m)))
      /\ checkpoint[c].root_hash = MerkleRoot(LeafHashes(Prefix(log, n)))
      /\ checkpoint[c].created_at <= head[c].created_at
      /\ head[c].created_at \in 0..now /\ checkpoint[c].created_at \in 0..now
      /\ now \in Nat /\ began[c] \in Nat /\ log \in Seq(Events) /\ Len(log) \in Nat
  BY ApiAssumption
  DEF Inv, ClientConsistent, HeadsArePrefixes, IsHeadOfPrefix, StampsArePast, TypeOK
<1>2. /\ Len(LeafHashes(Prefix(log, m))) = m
      /\ Prefix(LeafHashes(Prefix(log, m)), n) = LeafHashes(Prefix(log, n))
  BY <1>1, LeafHashesOfPrefix
<1>3. /\ p.previous_tree_size = n
      /\ p.latest_tree_size = Len(LeafHashes(Prefix(log, m)))
      /\ p.previous_root_hash = MerkleRoot(Prefix(LeafHashes(Prefix(log, m)), n))
      /\ p.latest_root_hash = MerkleRoot(LeafHashes(Prefix(log, m)))
      /\ p.leaf_hashes = LeafHashes(Prefix(log, m))
  BY DEF ConsistencyProof, GenerateConsistencyProof
<1> HIDE DEF p
<1>4. VerifyConsistencyProof(p)
  BY <1>1, <1>2, <1>3 DEF VerifyConsistencyProof
<1>5. Continuity(checkpoint[c], head[c], p)
  <2>1. CASE m > n
    BY <2>1, <1>1, <1>2, <1>3, <1>4 DEF Continuity, NeedsConsistencyProof
  <2>2. CASE m = n
    BY <2>2, <1>1 DEF Continuity, NeedsConsistencyProof
  <2> QED BY <1>1, <2>1, <2>2
<1> DEFINE K == OnlineChecks(checkpoint[c], head[c], p, began[c])
<1>6. /\ DOMAIN K = {"latest_checkpoint_time", "latest_checkpoint_future_skew",
                     "append_only_continuity"}
      /\ K.latest_checkpoint_time = (head[c].created_at >= checkpoint[c].created_at)
      /\ K.latest_checkpoint_future_skew = (head[c].created_at <= began[c] + MaxSkew)
      /\ K.append_only_continuity = Continuity(checkpoint[c], head[c], p)
  BY DEF OnlineChecks
<1> HIDE DEF K
<1>7. F = {code \in DOMAIN K : ~K[code]}
  BY DEF Failed, K, p
<1>8. K.latest_checkpoint_time /\ K.append_only_continuity
  BY <1>1, <1>5, <1>6
<1>9. F \subseteq {"latest_checkpoint_future_skew"}
  BY <1>6, <1>7, <1>8
<1>10. ~K.latest_checkpoint_future_skew => began[c] + MaxSkew < now
  <2>1. ~(head[c].created_at <= began[c] + MaxSkew) => began[c] + MaxSkew < now
    BY <1>1, SkewAssumption
  <2> QED BY <2>1, <1>6, Zenon
<1> QED BY <1>7, <1>9, <1>10

(* What is left of a client whose request begins, fails or ends. *)
LEMMA BeginFacts ==
  ASSUME Inv, NEW c \in Clients, NEW step \in {"idle", "list", "entry"},
         NEW request \in {"append", "bundle"}, NEW e \in Events,
         NEW i \in Nat, NEW time \in 0..MaxTime, now' = now,
         Begin(c, step, request, e, i, time)
  PROVE  /\ pc' \in [Clients -> {"idle", "done"} \cup Steps]
         /\ op' \in [Clients -> {"append", "bundle", "latest"}]
         /\ event' \in [Clients -> Events]
         /\ index' \in [Clients -> Nat]
         /\ began' \in [Clients -> 0..MaxTime]
         /\ failed' \in [Clients -> SUBSET Codes]
         /\ AreFunctions'
         /\ StampsArePast'
         /\ \A d \in Clients \ {c} :
              /\ pc'[d] = pc[d] /\ op'[d] = op[d] /\ event'[d] = event[d]
              /\ index'[d] = index[d] /\ began'[d] = began[d]
              /\ head'[d] = head[d] /\ checkpoint'[d] = checkpoint[d]
              /\ proof'[d] = proof[d] /\ failed'[d] = failed[d]
<1>1. TypeOK /\ AreFunctions /\ StampsArePast
  BY DEF Inv
<1>2. step \in {"idle", "done"} \cup Steps
  BY DEF Steps
<1>3. /\ pc' \in [Clients -> {"idle", "done"} \cup Steps]
      /\ op' \in [Clients -> {"append", "bundle", "latest"}]
      /\ event' \in [Clients -> Events]
      /\ index' \in [Clients -> Nat]
      /\ began' \in [Clients -> 0..MaxTime]
      /\ failed' \in [Clients -> SUBSET Codes]
  BY <1>1, <1>2 DEF TypeOK, Begin, GoTo
<1>4. AreFunctions'
  BY <1>1 DEF AreFunctions, Begin
<1>5. \A d \in Clients \ {c} :
           /\ pc'[d] = pc[d] /\ op'[d] = op[d] /\ event'[d] = event[d]
           /\ index'[d] = index[d] /\ began'[d] = began[d]
           /\ failed'[d] = failed[d]
  BY <1>1 DEF TypeOK, Begin, GoTo
<1>6. /\ head'[c] = NoHead /\ checkpoint'[c] = NoHead
      /\ \A d \in Clients \ {c} :
           /\ head'[d] = head[d] /\ checkpoint'[d] = checkpoint[d]
           /\ proof'[d] = proof[d]
  BY <1>1 DEF AreFunctions, Begin
<1>7. NoHead.created_at = 0 /\ now \in Nat
  BY <1>1, ApiAssumption DEF NoHead, TreeHead, TypeOK
<1>8. StampsArePast'
  BY <1>1, <1>6, <1>7 DEF StampsArePast
<1> QED BY <1>3, <1>4, <1>5, <1>6, <1>8

(* NoHead is the head of the empty prefix of every log. *)
LEMMA NoHeadIsPrefix ==
  ASSUME NEW S, NEW s \in Seq(S)
  PROVE  /\ NoHead.tree_size = 0
         /\ NoHead.root_hash = MerkleRoot(LeafHashes(Prefix(s, 0)))
<1>1. Prefix(s, 0) = <<>>
  BY DEF Prefix
<1>2. LeafHashes(<<>>) = <<>>
  BY DEF LeafHashes
<1> QED BY <1>1, <1>2 DEF NoHead, TreeHead

(* A client that did nothing keeps its part of the invariant while others
   act on the log and the clock. *)
LEMMA OthersKeep ==
  ASSUME Inv, NEW d \in Clients,
         now' \in Nat, now <= now',
         log' = log \/ \E e \in Events : log' = Append(log, e),
         pc'[d] = pc[d], op'[d] = op[d], event'[d] = event[d],
         index'[d] = index[d], began'[d] = began[d], head'[d] = head[d],
         checkpoint'[d] = checkpoint[d], proof'[d] = proof[d],
         failed'[d] = failed[d]
  PROVE  /\ ClientConsistent(d)'
         /\ IsHeadOfPrefix(head[d])' /\ IsHeadOfPrefix(checkpoint[d])'
         /\ RefusalExplained(d)'
<1>1. /\ TypeOK /\ ClientConsistent(d)
      /\ IsHeadOfPrefix(head[d]) /\ IsHeadOfPrefix(checkpoint[d])
      /\ log \in Seq(Events) /\ now \in Nat /\ index[d] \in Nat /\ began[d] \in Nat
  BY ApiAssumption DEF Inv, HeadsArePrefixes, TypeOK
<1>2. ASSUME NEW h, IsHeadOfPrefix(h)
      PROVE  /\ h.tree_size \in 0..Len(log')
             /\ h.root_hash = MerkleRoot(LeafHashes(Prefix(log', h.tree_size)))
  <2>1. CASE log' = log
    BY <1>2, <2>1 DEF IsHeadOfPrefix
  <2>2. ASSUME NEW e \in Events, log' = Append(log, e)
        PROVE  /\ h.tree_size \in 0..Len(log')
               /\ h.root_hash = MerkleRoot(LeafHashes(Prefix(log', h.tree_size)))
    BY <1>1, <1>2, <2>2, PrefixStays
  <2> QED BY <2>1, <2>2
<1>3. IsHeadOfPrefix(head[d])' /\ IsHeadOfPrefix(checkpoint[d])'
  BY <1>1, <1>2 DEF IsHeadOfPrefix
<1>4. IsHeadOfPrefix(proof[d]) => IsHeadOfPrefix(proof[d])'
  BY <1>2 DEF IsHeadOfPrefix
<1>5. AtIndex(d) => AtIndex(d)'
  <2> SUFFICES ASSUME AtIndex(d) PROVE AtIndex(d)'
    OBVIOUS
  <2>1. CASE log' = log
    BY <2>1 DEF AtIndex
  <2>2. ASSUME NEW e \in Events, log' = Append(log, e)
        PROVE  index[d] < Len(log') /\ log'[index[d] + 1] = event[d]
    BY <1>1, <2>2 DEF AtIndex
  <2> QED BY <2>1, <2>2 DEF AtIndex
<1>6. ClientConsistent(d)'
  BY <1>1, <1>4, <1>5 DEF ClientConsistent
<1>7. began[d] + MaxSkew < now => began'[d] + MaxSkew < now'
  BY <1>1, SkewAssumption
<1>8. RefusalExplained(d)
  BY DEF Inv, RefusedOnlyByRaceOrSkew
<1>9. RefusalExplained(d)'
  BY <1>7, <1>8, Zenon DEF RefusalExplained
<1> QED BY <1>3, <1>6, <1>9

(* Nothing of client d changes. *)
Same(d) ==
  /\ pc'[d] = pc[d] /\ op'[d] = op[d] /\ event'[d] = event[d]
  /\ index'[d] = index[d] /\ began'[d] = began[d]
  /\ head'[d] = head[d] /\ checkpoint'[d] = checkpoint[d]
  /\ proof'[d] = proof[d] /\ failed'[d] = failed[d]

Alarms == {"event_hash", "leaf_binding", "proof_leaf_binding", "inclusion_proof",
           "latest_checkpoint_time", "append_only_continuity"}

(* A step of client c keeps the invariant if it keeps c's part of it. *)
LEMMA StepOfOne ==
  ASSUME Inv, NEW c \in Clients,
         now' = now,
         log' = log \/ \E e \in Events : log' = Append(log, e),
         \A d \in Clients \ {c} : Same(d),
         TypeOK', AreFunctions', StampsArePast',
         ClientConsistent(c)', IsHeadOfPrefix(head[c])',
         IsHeadOfPrefix(checkpoint[c])', RefusalExplained(c)',
         failed'[c] \cap Alarms = {}
  PROVE  Inv'
<1>1. now \in Nat /\ now' \in Nat /\ now <= now'
  BY ApiAssumption DEF Inv, TypeOK
<1>2. ASSUME NEW d \in Clients
      PROVE  /\ ClientConsistent(d)' /\ RefusalExplained(d)'
             /\ IsHeadOfPrefix(head[d])' /\ IsHeadOfPrefix(checkpoint[d])'
             /\ failed'[d] \cap Alarms = {}
  <2>1. CASE d = c
    BY <2>1
  <2>2. CASE d # c
    <3>1. Same(d)
      BY <2>2
    <3>2. failed[d] \cap Alarms = {}
      BY DEF Inv, NoFalseAlarm, Alarms
    <3> QED BY <1>1, <3>1, <3>2, OthersKeep DEF Same
  <2> QED BY <2>1, <2>2
<1>3. HeadsArePrefixes'
  BY <1>2 DEF HeadsArePrefixes
<1>4. NoFalseAlarm'
  BY <1>2 DEF NoFalseAlarm, Alarms
<1>5. RefusedOnlyByRaceOrSkew'
  BY <1>2 DEF RefusedOnlyByRaceOrSkew
<1> QED BY <1>2, <1>3, <1>4, <1>5 DEF Inv

(* A request that begins or ends (append_event, verify_online_event, and any
   failure) keeps the invariant. *)
LEMMA BeginStep ==
  ASSUME Inv, NEW c \in Clients, NEW step \in {"idle", "list", "entry"},
         NEW request \in {"append", "bundle"}, NEW e \in Events,
         NEW i \in Nat, NEW time \in 0..MaxTime, now' = now,
         Begin(c, step, request, e, i, time),
         log' = log \/ \E x \in Events : log' = Append(log, x),
         step = "list" => i < Len(log') /\ log'[i + 1] = e,
         step = "entry" => request = "bundle"
  PROVE  Inv'
<1>1. log \in Seq(Events) /\ now \in 0..MaxTime
  BY DEF Inv, TypeOK
<1>2. log' \in Seq(Events)
  BY <1>1
<1>3. /\ pc'[c] = step /\ op'[c] = request /\ event'[c] = e /\ index'[c] = i
      /\ head'[c] = NoHead /\ checkpoint'[c] = NoHead /\ failed'[c] = {}
  <2>1. pc'[c] = step /\ op'[c] = request /\ event'[c] = e
        /\ index'[c] = i /\ failed'[c] = {}
    BY DEF Inv, TypeOK, Begin, GoTo
  <2>2. head'[c] = NoHead /\ checkpoint'[c] = NoHead
    BY DEF Inv, AreFunctions, Begin
  <2> QED BY <2>1, <2>2
<1>4. AreFunctions' /\ StampsArePast' /\ \A d \in Clients \ {c} : Same(d)
  BY BeginFacts DEF Same
<1>5. TypeOK'
  BY BeginFacts, <1>1, <1>2 DEF TypeOK
<1>6. IsHeadOfPrefix(head[c])' /\ IsHeadOfPrefix(checkpoint[c])'
  BY <1>2, <1>3, NoHeadIsPrefix DEF IsHeadOfPrefix
<1>7. ClientConsistent(c)'
  BY <1>3 DEF ClientConsistent, AtIndex
<1>8. RefusalExplained(c)'
  BY <1>3 DEF RefusalExplained
<1> QED BY <1>3, <1>4, <1>5, <1>6, <1>7, <1>8, StepOfOne

(* Looking up the entry of the event. *)
LEMMA GetEntryStep ==
  ASSUME Inv, NEW c \in Clients, GetEntry(c)
  PROVE  Inv'
<1>1. TypeOK /\ AreFunctions /\ StampsArePast /\ ClientConsistent(c)
  BY DEF Inv
<1>2. PICK i \in 1..Len(log) : log[i] = event[c] /\ index' = [index EXCEPT ![c] = i - 1]
  BY DEF GetEntry
<1>3. /\ pc[c] = "entry" /\ op[c] = "bundle"
      /\ pc' = [pc EXCEPT ![c] = "list"]
      /\ UNCHANGED <<log, now, op, event, began, head, checkpoint, proof, failed>>
  BY <1>1 DEF GetEntry, GoTo, ClientConsistent, store
<1>4. i - 1 \in Nat /\ i - 1 < Len(log) /\ log[(i - 1) + 1] = event[c]
  BY <1>1, <1>2 DEF TypeOK
<1>5. TypeOK'
  BY <1>1, <1>2, <1>3, <1>4 DEF TypeOK, Steps
<1>6. AreFunctions' /\ StampsArePast'
  BY <1>1, <1>3 DEF AreFunctions, StampsArePast
<1>7. \A d \in Clients \ {c} : Same(d)
  BY <1>1, <1>2, <1>3 DEF TypeOK, Same
<1>8. pc'[c] = "list" /\ index'[c] = i - 1 /\ op'[c] = "bundle"
  BY <1>1, <1>2, <1>3 DEF TypeOK
<1>9. ClientConsistent(c)'
  BY <1>3, <1>4, <1>8 DEF ClientConsistent, AtIndex
<1>10. /\ RefusalExplained(c)' /\ failed'[c] \cap Alarms = {}
       /\ IsHeadOfPrefix(head[c])' /\ IsHeadOfPrefix(checkpoint[c])'
  BY <1>3, <1>8
  DEF Inv, RefusalExplained, NoFalseAlarm, Alarms, HeadsArePrefixes, IsHeadOfPrefix
<1> QED BY <1>3, <1>5, <1>6, <1>7, <1>9, <1>10, StepOfOne

(* Listing the log for a tree head. *)
LEMMA ListLeavesStep ==
  ASSUME Inv, NEW c \in Clients, ListLeaves(c)
  PROVE  Inv'
<1>1. TypeOK /\ AreFunctions /\ StampsArePast /\ ClientConsistent(c)
  BY DEF Inv
<1>2. /\ pc[c] = "list"
      /\ pc' = [pc EXCEPT ![c] = "sign"]
      /\ head' = [head EXCEPT ![c] = TreeHead(log, 0)]
      /\ UNCHANGED <<log, now, op, event, index, began, checkpoint, proof, failed>>
  BY DEF ListLeaves, GoTo, store
<1>3. TypeOK'
  BY <1>1, <1>2 DEF TypeOK, Steps
<1>4. pc'[c] = "sign" /\ head'[c] = TreeHead(log, 0)
  BY <1>1, <1>2 DEF TypeOK, AreFunctions
<1>5. \A d \in Clients \ {c} : Same(d)
  BY <1>1, <1>2 DEF TypeOK, AreFunctions, Same
<1>6. AreFunctions'
  BY <1>1, <1>2 DEF AreFunctions
<1>7. head'[c].created_at = 0 /\ head'[c].tree_size = Len(log) /\ now \in Nat
  BY <1>1, <1>4, ApiAssumption DEF TreeHead, LeafHashes, TypeOK
<1>8. StampsArePast'
  BY <1>1, <1>2, <1>5, <1>7 DEF StampsArePast, Same
<1>9. IsHeadOfPrefix(head[c])'
  BY <1>1, <1>2, <1>4, HeadOfLog DEF IsHeadOfPrefix
<1>10. IsHeadOfPrefix(checkpoint[c]) /\ IsHeadOfPrefix(checkpoint[c])'
  BY <1>2 DEF Inv, HeadsArePrefixes, IsHeadOfPrefix
<1>11. ClientConsistent(c)'
  <2>1. checkpoint[c].tree_size <= Len(log) /\ Len(log) \in Nat
    BY <1>1, <1>10 DEF IsHeadOfPrefix, TypeOK
  <2> QED BY <1>1, <1>2, <1>4, <1>7, <2>1 DEF ClientConsistent, AtIndex
<1>12. RefusalExplained(c)' /\ failed'[c] \cap Alarms = {}
  BY <1>2, <1>4 DEF Inv, RefusalExplained, NoFalseAlarm, Alarms
<1> QED BY <1>2, <1>3, <1>5, <1>6, <1>8, <1>9, <1>10, <1>11, <1>12, StepOfOne

(* Stamping and signing it. *)
LEMMA SignHeadStep ==
  ASSUME Inv, NEW c \in Clients, SignHead(c)
  PROVE  Inv'
<1>1. TypeOK /\ AreFunctions /\ StampsArePast /\ ClientConsistent(c)
  BY DEF Inv
<1> DEFINE h == [tree_size |-> head[c].tree_size, root_hash |-> head[c].root_hash,
                 created_at |-> now]
<1>2. /\ pc[c] = "sign"
      /\ pc' = [pc EXCEPT ![c] = AfterHead(c)]
      /\ head' = [head EXCEPT ![c] = h]
      /\ UNCHANGED <<log, now, op, event, index, began, checkpoint, proof, failed>>
  BY DEF SignHead, GoTo, store
<1>3. /\ op[c] = "append" => AfterHead(c) = "done"
      /\ op[c] = "bundle" => AfterHead(c) = "prove"
      /\ op[c] = "latest" => AfterHead(c) = "continuity"
      /\ op[c] \in {"append", "bundle", "latest"}
  BY <1>1 DEF AfterHead, TypeOK
<1>4. TypeOK'
  BY <1>1, <1>2, <1>3 DEF TypeOK, Steps
<1>5. pc'[c] = AfterHead(c) /\ head'[c] = h
  BY <1>1, <1>2 DEF TypeOK, AreFunctions
<1>6. /\ head'[c].tree_size = head[c].tree_size
      /\ head'[c].root_hash = head[c].root_hash
      /\ head'[c].created_at = now
  BY <1>5
<1>7. \A d \in Clients \ {c} : Same(d)
  BY <1>1, <1>2 DEF TypeOK, AreFunctions, Same
<1>8. AreFunctions'
  BY <1>1, <1>2 DEF AreFunctions
<1>9. now \in Nat /\ StampsArePast'
  BY <1>1, <1>2, <1>6, <1>7, ApiAssumption DEF StampsArePast, Same, TypeOK
<1>10. IsHeadOfPrefix(head[c])' /\ IsHeadOfPrefix(checkpoint[c])'
  BY <1>2, <1>6 DEF Inv, HeadsArePrefixes, IsHeadOfPrefix
<1>11. ClientConsistent(c)'
  <2>1. checkpoint[c].created_at <= now
    BY <1>1 DEF StampsArePast
  <2>2. CASE op[c] = "append"
    BY <2>2, <1>1, <1>2, <1>3, <1>5, <1>6 DEF ClientConsistent, AtIndex
  <2>3. CASE op[c] = "bundle"
    BY <2>3, <1>1, <1>2, <1>3, <1>5, <1>6 DEF ClientConsistent, AtIndex
  <2>4. CASE op[c] = "latest"
    BY <2>1, <2>4, <1>1, <1>2, <1>3, <1>5, <1>6 DEF ClientConsistent, AtIndex
  <2> QED BY <1>3, <2>2, <2>3, <2>4
<1>12. RefusalExplained(c)' /\ failed'[c] \cap Alarms = {}
  <2>1. AfterHead(c) = "done" => failed[c] = {}
    BY <1>1, <1>3 DEF ClientConsistent
  <2> QED BY <2>1, <1>2, <1>5 DEF Inv, RefusalExplained, NoFalseAlarm, Alarms
<1> QED BY <1>2, <1>4, <1>7, <1>8, <1>9, <1>10, <1>11, <1>12, StepOfOne

(* The second listing of get_proof_bundle: the proof is of a tree at least as
   large as the head. *)
LEMMA ProveStep ==
  ASSUME Inv, NEW c \in Clients, Prove(c)
  PROVE  Inv'
<1>1. TypeOK /\ AreFunctions /\ StampsArePast /\ ClientConsistent(c)
      /\ IsHeadOfPrefix(head[c])
  BY DEF Inv, HeadsArePrefixes
<1> DEFINE p == GenerateInclusionProof(log, index[c])
<1>2. /\ pc[c] = "prove"
      /\ pc' = [pc EXCEPT ![c] = "offline"]
      /\ checkpoint' = [checkpoint EXCEPT ![c] = head[c]]
      /\ proof' = [proof EXCEPT ![c] = p]
      /\ UNCHANGED <<log, now, op, event, index, began, head, failed>>
  BY DEF Prove, GoTo, store
<1>3. TypeOK'
  BY <1>1, <1>2 DEF TypeOK, Steps
<1>4. pc'[c] = "offline" /\ checkpoint'[c] = head[c] /\ proof'[c] = p
  BY <1>1, <1>2 DEF TypeOK, AreFunctions
<1>5. op[c] = "bundle" /\ index[c] \in Nat /\ index[c] < Len(log)
      /\ log[index[c] + 1] = event[c] /\ log \in Seq(Events)
  BY <1>1, <1>2 DEF ClientConsistent, AtIndex, TypeOK
<1>6. Len(LeafHashes(log)) = Len(log)
      /\ LeafHashes(log)[index[c] + 1] = LeafHash(event[c])
  BY <1>5 DEF LeafHashes
<1>7. /\ p.tree_size = Len(log)
      /\ p.leaf_hash = LeafHash(event[c])
      /\ p.root_hash = MerkleRoot(LeafHashes(log))
  BY <1>6 DEF GenerateInclusionProof
<1>verifies. VerifyInclusionProof(p)
  <2>1. index[c] \in 0..(Len(log) - 1)
    BY <1>5, LenProperties
  <2> QED BY <1>5, <2>1, InclusionCompleteness
<1>8. \A d \in Clients \ {c} : Same(d)
  BY <1>1, <1>2 DEF TypeOK, AreFunctions, Same
<1>9. AreFunctions'
  BY <1>1, <1>2 DEF AreFunctions
<1>10. StampsArePast'
  BY <1>1, <1>2, <1>4, <1>8 DEF StampsArePast, Same
<1>11. IsHeadOfPrefix(head[c])' /\ IsHeadOfPrefix(checkpoint[c])'
  BY <1>1, <1>2, <1>4 DEF IsHeadOfPrefix
<1>12. IsHeadOfPrefix(proof[c])'
  <2>1. Prefix(log, Len(log)) = log /\ Len(log) \in 0..Len(log)
    BY <1>5, WholePrefix
  <2> QED BY <2>1, <1>2, <1>4, <1>7 DEF IsHeadOfPrefix
<1>13. ClientConsistent(c)'
  <2>1. head[c].tree_size <= Len(log)
    BY <1>1, <1>5 DEF IsHeadOfPrefix
  <2> HIDE DEF p
  <2> QED BY <2>1, <1>1, <1>2, <1>4, <1>5, <1>7, <1>12, <1>verifies DEF ClientConsistent
<1>14. RefusalExplained(c)' /\ failed'[c] \cap Alarms = {}
  BY <1>2, <1>4 DEF Inv, RefusalExplained, NoFalseAlarm, Alarms
<1> QED BY <1>2, <1>3, <1>8, <1>9, <1>10, <1>11, <1>13, <1>14, StepOfOne

(* The verdict on the bundle. *)
LEMMA VerifyOfflineStep ==
  ASSUME Inv, NEW c \in Clients, VerifyOffline(c)
  PROVE  Inv'
<1>1. TypeOK /\ AreFunctions /\ StampsArePast /\ ClientConsistent(c)
      /\ IsHeadOfPrefix(head[c]) /\ IsHeadOfPrefix(checkpoint[c])
  BY DEF Inv, HeadsArePrefixes
<1>2. PICK F : F = Failed(OfflineChecks(BundleOf(c), began[c]))
  OBVIOUS
<1>3. /\ pc[c] = "offline" /\ op[c] = "bundle"
      /\ failed' = [failed EXCEPT ![c] = F]
      /\ \/ /\ F = {} /\ op' = [op EXCEPT ![c] = "latest"]
            /\ pc' = [pc EXCEPT ![c] = "list"]
         \/ /\ F # {} /\ op' = op /\ pc' = [pc EXCEPT ![c] = "done"]
      /\ UNCHANGED <<log, now, event, index, began, head, checkpoint, proof>>
  BY <1>1, <1>2 DEF VerifyOffline, GoTo, store, ClientConsistent
<1>4. /\ F \subseteq Codes
      /\ F \cap {"event_hash", "leaf_binding", "proof_leaf_binding", "inclusion_proof",
                 "latest_checkpoint_time", "append_only_continuity",
                 "latest_checkpoint_future_skew"} = {}
      /\ F \cap {"checkpoint_root_binding", "checkpoint_size_binding"} # {}
           => checkpoint[c].tree_size < proof[c].tree_size
      /\ "checkpoint_time" \in F => began[c] + MaxSkew < now
  BY <1>2, <1>3, OfflineFailures
<1>5. TypeOK'
  BY <1>1, <1>3, <1>4 DEF TypeOK, Steps
<1>6. /\ failed'[c] = F
      /\ \/ F = {} /\ op'[c] = "latest" /\ pc'[c] = "list"
         \/ op'[c] = "bundle" /\ pc'[c] = "done"
  BY <1>1, <1>3 DEF TypeOK
<1>7. \A d \in Clients \ {c} : Same(d)
  BY <1>1, <1>3 DEF TypeOK, Same
<1>8. AreFunctions' /\ StampsArePast'
  BY <1>1, <1>3 DEF AreFunctions, StampsArePast
<1>9. IsHeadOfPrefix(head[c])' /\ IsHeadOfPrefix(checkpoint[c])'
  BY <1>1, <1>3 DEF IsHeadOfPrefix
<1>10. ClientConsistent(c)'
  BY <1>6 DEF ClientConsistent
<1>11. F \cap {"checkpoint_time", "latest_checkpoint_future_skew"} # {}
         => "checkpoint_time" \in F
  BY <1>4
<1>12. RefusalExplained(c)'
  <2>1. /\ began'[c] = began[c] /\ checkpoint'[c] = checkpoint[c]
        /\ proof'[c] = proof[c] /\ now' = now
    BY <1>3
  <2> QED BY <2>1, <1>4, <1>6, <1>11, Zenon DEF RefusalExplained
<1>13. failed'[c] \cap Alarms = {}
  BY <1>4, <1>6 DEF Alarms
<1> QED BY <1>3, <1>5, <1>7, <1>8, <1>9, <1>10, <1>12, <1>13, StepOfOne

(* The verdict on the continuity of the log. *)
LEMMA VerifyContinuityStep ==
  ASSUME Inv, NEW c \in Clients, VerifyContinuity(c)
  PROVE  Inv'
<1>1. TypeOK /\ AreFunctions /\ StampsArePast /\ ClientConsistent(c)
      /\ IsHeadOfPrefix(head[c]) /\ IsHeadOfPrefix(checkpoint[c])
  BY DEF Inv, HeadsArePrefixes
<1>2. PICK F : F = Failed(OnlineChecks(checkpoint[c], head[c],
                     ConsistencyProof(checkpoint[c].tree_size, head[c].tree_size),
                     began[c]))
  OBVIOUS
<1>3. /\ pc[c] = "continuity" /\ op[c] = "latest"
      /\ failed' = [failed EXCEPT ![c] = F]
      /\ pc' = [pc EXCEPT ![c] = "done"]
      /\ UNCHANGED <<log, now, op, event, index, began, head, checkpoint, proof>>
  BY <1>1, <1>2 DEF VerifyContinuity, GoTo, store, ClientConsistent
<1>4. /\ F \subseteq {"latest_checkpoint_future_skew"}
      /\ F # {} => began[c] + MaxSkew < now
  BY <1>2, <1>3, OnlineFailures
<1>5. F \subseteq Codes
  BY <1>4 DEF Codes
<1>6. TypeOK'
  BY <1>1, <1>3, <1>5 DEF TypeOK, Steps
<1>7. failed'[c] = F /\ pc'[c] = "done" /\ op'[c] = "latest"
  BY <1>1, <1>3 DEF TypeOK
<1>8. \A d \in Clients \ {c} : Same(d)
  BY <1>1, <1>3 DEF TypeOK, Same
<1>9. AreFunctions' /\ StampsArePast'
  BY <1>1, <1>3 DEF AreFunctions, StampsArePast
<1>10. IsHeadOfPrefix(head[c])' /\ IsHeadOfPrefix(checkpoint[c])'
  BY <1>1, <1>3 DEF IsHeadOfPrefix
<1>11. ClientConsistent(c)'
  BY <1>7 DEF ClientConsistent
<1>12. F \cap {"checkpoint_root_binding", "checkpoint_size_binding"} = {}
  BY <1>4
<1>13. RefusalExplained(c)'
  <2>1. began'[c] = began[c] /\ now' = now
    BY <1>3
  <2> QED BY <2>1, <1>4, <1>7, <1>12, Zenon DEF RefusalExplained
<1>14. failed'[c] \cap Alarms = {}
  BY <1>4, <1>7 DEF Alarms
<1> QED BY <1>3, <1>6, <1>8, <1>9, <1>10, <1>11, <1>13, <1>14, StepOfOne

(* Time goes on. *)
LEMMA TickStep ==
  ASSUME Inv, Tick
  PROVE  Inv'
<1>1. TypeOK /\ AreFunctions /\ StampsArePast
  BY DEF Inv
<1>2. /\ now \in Nat /\ now' = now + 1 /\ now' \in 0..MaxTime
      /\ now' \in Nat /\ now <= now'
      /\ UNCHANGED <<log, pc, op, event, index, began, head, checkpoint, proof, failed>>
  BY <1>1, ApiAssumption DEF Tick, TypeOK
<1>3. TypeOK'
  BY <1>1, <1>2 DEF TypeOK
<1>4. AreFunctions' /\ StampsArePast'
  BY <1>1, <1>2 DEF AreFunctions, StampsArePast
<1>5. \A d \in Clients : /\ ClientConsistent(d)' /\ RefusalExplained(d)'
                         /\ IsHeadOfPrefix(head[d])' /\ IsHeadOfPrefix(checkpoint[d])'
  BY <1>2, OthersKeep
<1>6. HeadsArePrefixes' /\ RefusedOnlyByRaceOrSkew'
  BY <1>5 DEF HeadsArePrefixes, RefusedOnlyByRaceOrSkew
<1>7. NoFalseAlarm'
  BY <1>2 DEF Inv, NoFalseAlarm
<1> QED BY <1>3, <1>4, <1>5, <1>6, <1>7 DEF Inv

(* Every step keeps the invariant. *)
LEMMA InvStep == Inv /\ [Next]_vars => Inv'
<1> SUFFICES ASSUME Inv, [Next]_vars PROVE Inv'
  OBVIOUS
<1>0. /\ log \in Seq(Events) /\ Len(log) \in Nat /\ now \in 0..MaxTime
      /\ AnyEvent \in Events /\ 0 \in 0..MaxTime
  BY ApiAssumption DEF Inv, TypeOK, AnyEvent
<1>1. CASE Tick
  BY <1>1, TickStep
<1>2. ASSUME NEW c \in Clients, ClientStep(c) PROVE Inv'
  <2>1. ASSUME NEW e \in Events, AppendEvent(c, e) PROVE Inv'
    <3>1. /\ log' = Append(log, e) /\ now' = now
          /\ Begin(c, "list", "append", e, Len(log), 0)
      BY <2>1 DEF AppendEvent
    <3>2. Len(log) < Len(log') /\ log'[Len(log) + 1] = e
      BY <3>1, <1>0
    <3> QED BY <1>0, <3>1, <3>2, BeginStep
  <2>2. ASSUME NEW e \in Events, NEW t \in 0..MaxTime, VerifyOnline(c, e, t)
        PROVE  Inv'
    <3>1. log' = log /\ now' = now /\ Begin(c, "entry", "bundle", e, 0, t)
      BY <2>2 DEF VerifyOnline, store
    <3> QED BY <1>0, <3>1, BeginStep
  <2>3. CASE RequestFails(c)
    <3>1. log' = log /\ now' = now /\ Begin(c, "idle", "append", AnyEvent, 0, 0)
      BY <2>3 DEF RequestFails, End, store
    <3> QED BY <1>0, <3>1, BeginStep
  <2>4. CASE GetEntry(c)
    BY <2>4, GetEntryStep
  <2>5. CASE ListLeaves(c)
    BY <2>5, ListLeavesStep
  <2>6. CASE SignHead(c)
    BY <2>6, SignHeadStep
  <2>7. CASE Prove(c)
    BY <2>7, ProveStep
  <2>8. CASE VerifyOffline(c)
    BY <2>8, VerifyOfflineStep
  <2>9. CASE VerifyContinuity(c)
    BY <2>9, VerifyContinuityStep
  <2> QED BY <1>2, <2>1, <2>2, <2>3, <2>4, <2>5, <2>6, <2>7, <2>8, <2>9
          DEF ClientStep
<1>3. CASE UNCHANGED vars
  BY <1>3
  DEF vars, store, Inv, TypeOK, AreFunctions, StampsArePast, HeadsArePrefixes,
      IsHeadOfPrefix, ClientConsistent, AtIndex, NoFalseAlarm,
      RefusedOnlyByRaceOrSkew, RefusalExplained
<1> QED BY <1>1, <1>2, <1>3 DEF Next

(* Inv is an invariant of the API and its verifiers. *)
THEOREM InductiveInvariant == Spec => []Inv
BY InvInit, InvStep, PTL DEF Spec

(* Type correctness. *)
THEOREM TypeCorrect == Spec => []TypeOK
<1>1. Inv => TypeOK
  BY DEF Inv
<1> QED BY <1>1, InductiveInvariant, PTL

(* However listings, signatures and appends interleave, every signed tree
   head is that of a prefix of the log (_tree_head, app.py 1153-1172). *)
THEOREM SignedHeadsArePrefixes == Spec => []HeadsArePrefixes
<1>1. Inv => HeadsArePrefixes
  BY DEF Inv
<1> QED BY <1>1, InductiveInvariant, PTL

(* The response to an append carries a head that covers the event
   (append_event, app.py 571-586). *)
THEOREM AcksCover == Spec => []AckCoversEvent
<1>1. Inv => AckCoversEvent
  BY DEF Inv, ClientConsistent, AtIndex, AckCoversEvent
<1> QED BY <1>1, InductiveInvariant, PTL

(* The online verifier never reports a rollback, a fork or a regressed clock
   of a log that only grows (verify_online_event, service.py 326-533). *)
THEOREM HonestLogIsNotAccused == Spec => []NoFalseAlarm
<1>1. Inv => NoFalseAlarm
  BY DEF Inv
<1> QED BY <1>1, InductiveInvariant, PTL

(* A bundle of an honest log is refused for its head only when an append came
   between the two listings, and for a time only when Core's clock has passed
   the verifier's reading by more than the skew allowed: whatever the two
   clocks show, and however long the requests take (get_proof_bundle, app.py
   804-828, and service.py 289-297, 358, 433-441). *)
THEOREM RefusalsExplained == Spec => []RefusedOnlyByRaceOrSkew
<1>1. Inv => RefusedOnlyByRaceOrSkew
  BY DEF Inv
<1> QED BY <1>1, InductiveInvariant, PTL

=============================================================================
