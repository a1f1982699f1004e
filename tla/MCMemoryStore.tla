--------------------------- MODULE MCMemoryStore ---------------------------
(* Model-checking instance of MemoryStore: two texts that share one of     *)
(* their two words, so that each can correct the other, and one project    *)
(* besides the global scope.  The texts play the same part, so they may be *)
(* exchanged.                                                              *)
EXTENDS MemoryStore, TLC

CONSTANTS c1, c2, p1

MCContents == {c1, c2}
MCNormal == c1 :> "x y" @@ c2 :> "x z"
MCWords == c1 :> {"x", "y"} @@ c2 :> {"x", "z"}
MCNames == {p1}
MCFold == [n \in MCNames |-> "name"]
MCNameOrder == p1 :> 1
Symmetry == Permutations(MCContents)
=============================================================================
