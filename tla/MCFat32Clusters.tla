---------------------------- MODULE MCFat32Clusters ---------------------------
(***************************************************************************)
(* A file, a directory and the root directory on a device of five          *)
(* clusters.                                                               *)
(***************************************************************************)
EXTENDS Fat32Clusters

CONSTANTS f, root, d

\* The bound of the run: the root directory has at most MaxBlocks clusters, and
\* nothing goes on from a volume that is damaged or has lost clusters, of which
\* the properties say nothing.  The step that leads there is checked.
Whole == Sound /\ Lost = {} /\ Len(list[Root]) <= MaxBlocks

\* Nothing depends on what the last call was.
View == <<vol, list, entry, open>>
===============================================================================
