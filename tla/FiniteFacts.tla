---------------------------- MODULE FiniteFacts ----------------------------
(***************************************************************************)
(* What the proofs use of finite sets.  The library of the proof system    *)
(* has theorems that state it; the lemmas assume CardFacts instead, so     *)
(* that only the last section of a module of proofs has to bring the       *)
(* library in, and proves CardFacts from it.                               *)
(***************************************************************************)
EXTENDS Integers, FiniteSets

TypeFact == \A S : IsFiniteSet(S) => Cardinality(S) \in Nat

EmptyFact ==
    /\ IsFiniteSet({}) /\ Cardinality({}) = 0
    /\ \A S : IsFiniteSet(S) => (Cardinality(S) = 0 <=> S = {})

SingletonFact ==
    /\ \A x : IsFiniteSet({x}) /\ Cardinality({x}) = 1
    /\ \A S : IsFiniteSet(S) /\ Cardinality(S) = 1 => \E x : S = {x}

AddFact ==
    \A S, x : IsFiniteSet(S) =>
        /\ IsFiniteSet(S \cup {x})
        /\ Cardinality(S \cup {x}) = IF x \in S THEN Cardinality(S) ELSE Cardinality(S) + 1

RemoveFact ==
    \A S, x : IsFiniteSet(S) =>
        /\ IsFiniteSet(S \ {x})
        /\ Cardinality(S \ {x}) = IF x \in S THEN Cardinality(S) - 1 ELSE Cardinality(S)

SubsetFact == \A S : \A T \in SUBSET S : IsFiniteSet(S) => IsFiniteSet(T)

IntervalFact ==
    \A a, b \in Int :
        /\ IsFiniteSet(a .. b)
        /\ Cardinality(a .. b) = IF a > b THEN 0 ELSE b - a + 1

UnionFact ==
    \A S, T : IsFiniteSet(S) /\ IsFiniteSet(T) =>
        /\ IsFiniteSet(S \cup T)
        /\ Cardinality(S \cup T) = Cardinality(S) + Cardinality(T) - Cardinality(S \cap T)

DifferenceFact ==
    \A S, T : IsFiniteSet(S) =>
        /\ IsFiniteSet(S \ T)
        /\ Cardinality(S \ T) = Cardinality(S) - Cardinality(S \cap T)

ProductFact ==
    \A S, T : IsFiniteSet(S) /\ IsFiniteSet(T) =>
        /\ IsFiniteSet(S \X T)
        /\ Cardinality(S \X T) = Cardinality(S) * Cardinality(T)

\* f maps the elements of S to those of T, one to one.
OneToOne(f, S, T) ==
    /\ f \in [S -> T]
    /\ \A i, j \in S : f[i] = f[j] => i = j
    /\ \A j \in T : \E i \in S : f[i] = j

BijectionFact ==
    \A S, T, f : IsFiniteSet(S) /\ OneToOne(f, S, T) => Cardinality(T) = Cardinality(S)

CardFacts ==
    /\ TypeFact /\ EmptyFact /\ SingletonFact /\ AddFact /\ RemoveFact /\ SubsetFact
    /\ IntervalFact /\ UnionFact /\ DifferenceFact /\ ProductFact /\ BijectionFact

=============================================================================
