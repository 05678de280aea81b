------------------------------- MODULE Tables -------------------------------
(***************************************************************************)
(* What the modules that compute from the tables share.                    *)
(***************************************************************************)
EXTENDS Integers, SequencesExt

CONSTANT None  \* NULL, an absent value, or one that is no finite number

\* The elements of a finite set by a total order.
InOrder(S, before(_, _)) ==
  [p \in 1..Cardinality(S) |-> CHOOSE e \in S : Cardinality({f \in S : before(f, e)}) = p - 1]
=============================================================================
