----------------------------- MODULE MCExt4Volume -----------------------------
EXTENDS Ext4Volume

CONSTANTS nameA, nameB

MCPaths == {<<nameA>>, <<nameB>>, <<nameB, nameA>>}

MCImages ==
    {[entries |-> {}, kind |-> [i \in Inos |-> IF i = Root THEN "dir" ELSE "none"],
      size |-> [i \in Inos |-> 0], blocks |-> [i \in Inos |-> NoBlocks],
      room |-> [i \in Inos |-> IF i = Root THEN 1 ELSE 0], dirBlocks |-> {1},
      imap |-> {Root}, bmap |-> {1}]}

Ext4View == <<disk, cache, stream>>
===============================================================================
