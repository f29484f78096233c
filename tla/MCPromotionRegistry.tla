------------------------ MODULE MCPromotionRegistry ------------------------
(* Small instances of PromotionRegistry for TLC. *)
EXTENDS PromotionRegistry, TLC

CONSTANTS A, B, C, g0, g1, g2, g3, p1, p2, p3, k1, k2, pin1, pin2

\* Generations, paths and pins are told apart by no constant; B and C are the
\* hashes other than Original.
Symmetry == Permutations({g0, g1, g2, g3}) \cup Permutations({p1, p2, p3})
              \cup Permutations({pin1, pin2}) \cup Permutations({B, C})
=============================================================================
