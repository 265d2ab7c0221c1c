----------------------------- MODULE MCTextures -----------------------------
(* A texture with one level and one with two.                               *)
EXTENDS Textures, TLC

CONSTANTS small, mipmapped

MCLevelsOf == [t \in Textures |-> IF t = small THEN {0} ELSE {0, 1}]

(* Formats are told apart only by being compatible or not.                  *)
Symmetry == Permutations(Formats)

=============================================================================
