------------------------- MODULE MCSceneAnnotations -------------------------
EXTENDS SceneAnnotations, TLC

(* The requests are alike, and so are the annotations that users draw.     *)
Symmetric == Permutations(Requests) \union Permutations(Mine)
=============================================================================
