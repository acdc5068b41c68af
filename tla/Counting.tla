------------------------------ MODULE Counting ------------------------------
(***************************************************************************)
(* What the proofs use of finite sets, as formulas.  A proof module        *)
(* assumes the ones it needs in its lemmas, and discharges them at its end *)
(* from FiniteSetTheorems.  Bringing that library in at the end matters:   *)
(* the provers take several times as long on everything after it.          *)
(***************************************************************************)
EXTENDS Integers, FiniteSets

\* The empty set, and the type of a cardinality.
CountEmpty ==
  /\ IsFiniteSet({}) /\ Cardinality({}) = 0
  /\ \A S : IsFiniteSet(S) => Cardinality(S) \in Nat /\ (Cardinality(S) = 0 => S = {})

\* An element put in.
CountAdd ==
  \A S, x : IsFiniteSet(S) =>
    /\ IsFiniteSet(S \cup {x})
    /\ x \notin S => Cardinality(S \cup {x}) = Cardinality(S) + 1

\* An element taken out.
CountRemove ==
  \A S, x : IsFiniteSet(S) /\ x \in S =>
    IsFiniteSet(S \ {x}) /\ Cardinality(S \ {x}) = Cardinality(S) - 1

\* A part of a set.
CountSubset ==
  \A S, T : IsFiniteSet(T) /\ S \in SUBSET T =>
    IsFiniteSet(S) /\ Cardinality(S) <= Cardinality(T)

\* A bound on a union.
CountUnion ==
  \A S, T : IsFiniteSet(S) /\ IsFiniteSet(T) =>
    IsFiniteSet(S \cup T) /\ Cardinality(S \cup T) <= Cardinality(S) + Cardinality(T)

\* The elements of a set, each paired with the same value.
CountTagged ==
  \A S, x : IsFiniteSet(S) =>
    IsFiniteSet({x} \X S) /\ Cardinality({x} \X S) = Cardinality(S)

=============================================================================
