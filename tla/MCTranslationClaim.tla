------------------------- MODULE MCTranslationClaim -------------------------
(* Symmetry of the instances of TranslationClaim.                          *)
EXTENDS TranslationClaim, TLC

Symmetry == Permutations(Run) \cup Permutations(Worker) \cup Permutations(Answer)
=============================================================================
