----------------------------- MODULE Selection -----------------------------
(***************************************************************************)
(* What a comprehension with a condition leaves of a sequence.  The n-th   *)
(* item it keeps is the one with n kept positions up to and including its  *)
(* own.  SelectSeq says the same by recursion, which cannot be reasoned    *)
(* about for sequences of any length.                                      *)
(***************************************************************************)
EXTENDS Naturals, FiniteSets

ItemsAt(seq, positions) ==
    [n \in 1..Cardinality(positions) |->
        seq[CHOOSE i \in positions : Cardinality({j \in positions : j <= i}) = n]]

=============================================================================
