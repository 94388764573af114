---------------------------- MODULE MCOverlayVolume ----------------------------
(***************************************************************************)
(* Two volumes with two names at the top, and one name below each of them. *)
(***************************************************************************)
EXTENDS OverlayVolume, TLC

CONSTANTS a, b, x, y, v1, v2

SmallPaths == {<<>>, <<a>>, <<b>>, <<a, b>>, <<b, b>>}

SmallSymmetry == Permutations(Chunks)

\* Nothing depends on what the last call was.
View == <<trees, stack>>
===============================================================================
