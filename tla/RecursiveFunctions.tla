------------------------- MODULE RecursiveFunctions -------------------------
(***************************************************************************)
(* Functions that are defined by recursion on a measure.                   *)
(*                                                                         *)
(* The source recurses on lists that get shorter and loops over a counter  *)
(* (split_point, _subtree_hash and _subtree_path of ets/core/merkle.py,    *)
(* _expected_audit_path_positions of ets/core/proofs.py); Merkle writes    *)
(* each of them as a recursive function.  TLA+ takes such a function to be *)
(* some f that satisfies its equation, if there is one.  Here it is shown  *)
(* that there is one: a proof instantiates this module with the domain,    *)
(* the measure and the body of a function and is left to show that the     *)
(* body looks at smaller arguments only.                                   *)
(***************************************************************************)
EXTENDS Naturals, WellFoundedInduction, TLAPS

\* c stands for the parameters of the definition around the function.
CONSTANTS Dom(_),           \* Dom(c): the domain
          Measure(_, _),    \* Measure(c, x): what gets smaller
          Step(_, _, _)     \* Step(c, f, x): the body, with f for the calls

\* The function itself, as TLA+ defines it.
Fixpoint(c) == CHOOSE f : f = [x \in Dom(c) |-> Step(c, f, x)]

\* The arguments that the body may ask f about at measure n.
Below(c, n) == {x \in Dom(c) : Measure(c, x) < n}

\* f satisfies the equation as far as measure n.
Approximates(c, n, f) == f = [x \in Below(c, n) |-> Step(c, f, x)]

\* The body depends on f only at smaller arguments.
WellFounded(c) ==
  /\ \A x \in Dom(c) : Measure(c, x) \in Nat
  /\ \A x \in Dom(c) : \A f, g :
       (\A y \in Below(c, Measure(c, x)) : f[y] = g[y])
         => Step(c, f, x) = Step(c, g, x)

(* A set that contains a number whenever it contains all smaller ones
   contains every number. *)
LEMMA StrongInduction ==
  ASSUME NEW S, \A n \in Nat : (\A m \in 0..(n - 1) : m \in S) => n \in S
  PROVE  Nat \subseteq S
<1> DEFINE T == Nat \ S
           R == OpToRel(<, Nat)
<1> SUFFICES ASSUME T # {} PROVE FALSE
  OBVIOUS
<1>1. PICK n \in T : \A m \in T : <<m, n>> \notin R
  <2> HIDE DEF R
  <2> QED BY NatLessThanWellFounded, WFMin DEF R
<1>2. ASSUME NEW m \in 0..(n - 1) PROVE m \in S
  <2>1. <<m, n>> \in Nat \X Nat /\ m < n
    OBVIOUS
  <2>2. <<m, n>> \in R
    BY <2>1 DEF OpToRel
  <2> HIDE DEF R
  <2> QED BY <1>1, <2>1, <2>2
<1> QED BY <1>2

(* Two approximations agree where both are defined. *)
LEMMA ApproximationsAgree ==
  ASSUME NEW c, WellFounded(c), NEW m \in Nat, NEW n \in Nat, NEW f, NEW g,
         Approximates(c, m, f), Approximates(c, n, g)
  PROVE  \A x \in Below(c, m) \cap Below(c, n) : f[x] = g[x]
<1> DEFINE S == {k \in Nat : \A x \in Below(c, m) \cap Below(c, n) :
                                Measure(c, x) = k => f[x] = g[x]}
<1>1. ASSUME NEW k \in Nat, \A j \in 0..(k - 1) : j \in S
      PROVE  k \in S
  <2> SUFFICES ASSUME NEW x \in Below(c, m) \cap Below(c, n), Measure(c, x) = k
               PROVE  f[x] = g[x]
    OBVIOUS
  <2>1. \A y \in Below(c, k) : f[y] = g[y]
    <3> SUFFICES ASSUME NEW y \in Below(c, k) PROVE f[y] = g[y]
      OBVIOUS
    <3>1. Measure(c, y) \in 0..(k - 1)
      BY DEF Below, WellFounded
    <3>2. y \in Below(c, m) \cap Below(c, n)
      BY <3>1 DEF Below
    <3> QED BY <3>1, <3>2, <1>1
  <2>2. Step(c, f, x) = Step(c, g, x)
    BY <2>1 DEF WellFounded, Below
  <2> QED BY <2>2 DEF Approximates
<1>2. Nat \subseteq S
  <2> HIDE DEF S
  <2> QED BY <1>1, StrongInduction
<1> QED BY <1>2 DEF Below, WellFounded

(* There is an approximation up to every measure. *)
LEMMA ApproximationExists ==
  ASSUME NEW c, WellFounded(c)
  PROVE  \A n \in Nat : \E f : Approximates(c, n, f)
<1> DEFINE S == {n \in Nat : \E f : Approximates(c, n, f)}
<1>1. ASSUME NEW n \in Nat, \A m \in 0..(n - 1) : m \in S
      PROVE  n \in S
  <2>1. CASE n = 0
    <3> DEFINE f == [x \in {} |-> x]
    <3>1. Below(c, n) = {}
      BY <2>1 DEF Below, WellFounded
    <3>2. Approximates(c, n, f)
      BY <3>1 DEF Approximates
    <3> QED BY <3>2
  <2>2. CASE n > 0
    <3>1. PICK f : Approximates(c, n - 1, f)
      BY <1>1, <2>2
    <3> DEFINE g == [x \in Below(c, n) |-> Step(c, f, x)]
    <3>2. ASSUME NEW x \in Below(c, n) PROVE Step(c, f, x) = Step(c, g, x)
      <4>1. ASSUME NEW y \in Below(c, Measure(c, x)) PROVE f[y] = g[y]
        <5>1. y \in Below(c, n - 1) /\ y \in Below(c, n)
          BY <2>2 DEF Below, WellFounded
        <5> QED BY <5>1, <3>1 DEF Approximates
      <4> HIDE DEF g
      <4> QED BY <4>1 DEF WellFounded, Below
    <3>3. Approximates(c, n, g)
      BY <3>2 DEF Approximates
    <3> QED BY <3>3
  <2> QED BY <2>1, <2>2
<1>2. Nat \subseteq S
  <2> HIDE DEF S
  <2> QED BY <1>1, StrongInduction
<1> QED BY <1>2

(* A function whose recursion descends satisfies the equation that defines it.
   The theorem is used for the split point, the hash and the path of a subtree,
   the root along a path and the expected positions (merkle.py 58-110,
   proofs.py 216-223): they are defined for every size because the code's
   recursions end. *)
THEOREM FixpointEquation ==
  ASSUME NEW c, WellFounded(c)
  PROVE  Fixpoint(c) = [x \in Dom(c) |-> Step(c, Fixpoint(c), x)]
<1> DEFINE approx(n) == CHOOSE f : Approximates(c, n, f)
           F == [x \in Dom(c) |-> approx(Measure(c, x) + 1)[x]]
<1>1. ASSUME NEW n \in Nat PROVE Approximates(c, n, approx(n))
  BY ApproximationExists
<1>2. ASSUME NEW x \in Dom(c) PROVE F[x] = Step(c, F, x)
  <2> DEFINE n == Measure(c, x) + 1
             f == approx(n)
  <2>1. n \in Nat /\ x \in Below(c, n)
    BY DEF WellFounded, Below
  <2> HIDE DEF n
  <2>2. Approximates(c, n, f)
    BY <1>1, <2>1
  <2> HIDE DEF f
  <2>3. f[x] = Step(c, f, x)
    BY <2>1, <2>2 DEF Approximates
  <2>4. ASSUME NEW y \in Below(c, Measure(c, x)) PROVE f[y] = F[y]
    <3> DEFINE k == Measure(c, y) + 1
               h == approx(k)
    <3>1. k \in Nat /\ y \in Below(c, k) \cap Below(c, n) /\ y \in Dom(c)
      BY DEF WellFounded, Below, n
    <3>2. F[y] = h[y]
      BY <3>1
    <3> HIDE DEF k
    <3>3. Approximates(c, k, h)
      BY <1>1, <3>1
    <3> HIDE DEF h, F
    <3>4. h[y] = f[y]
      BY <3>1, <3>3, <2>1, <2>2, ApproximationsAgree
    <3> QED BY <3>2, <3>4
  <2>5. F[x] = f[x]
    BY DEF f, n
  <2> HIDE DEF F
  <2>6. Step(c, f, x) = Step(c, F, x)
    BY <2>4 DEF WellFounded
  <2> QED BY <2>3, <2>5, <2>6
<1>3. F = [x \in Dom(c) |-> F[x]]
  OBVIOUS
<1> HIDE DEF F
<1>4. F = [x \in Dom(c) |-> Step(c, F, x)]
  BY <1>2, <1>3
<1> QED BY <1>4 DEF Fixpoint
=============================================================================
