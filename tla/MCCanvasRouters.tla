--------------------------- MODULE MCCanvasRouters --------------------------
(***************************************************************************)
(* CanvasRouters over RepoRegistry for TLC: verbs and surfaces are         *)
(* interchangeable.                                                        *)
(***************************************************************************)
EXTENDS CanvasRouters, TLC

Symmetric == Permutations(Calls) \cup Permutations(Surfaces)
=============================================================================
