----------------------------- MODULE MCFat32Volume -----------------------------
(* Five clusters of two slots and three devices.                            *)
EXTENDS Fat32Volume, TLC

CONSTANTS x, y

MCNames == {"report-1", "report-2", "report~1", "a.b", "d", "p"}
MCShort == [n \in MCNames |-> IF n \in {"report-1", "report-2"} THEN "report~1" ELSE n]
MCFolded == [n \in MCNames |-> n]
MCCalls == {<<"report-1">>, <<"a.b">>, <<"d">>, <<"d", "p">>}
MCMoves == {<<<<"report-1">>, <<"a.b">>>>, <<<<"a.b">>, <<"d">>>>, <<<<"d">>, <<"a.b">>>>,
            <<<<"d", "p">>, <<"report-2">>>>}
MCFolders == {<<"d">>}

Table(chains) == [c \in Clusters |-> IF c \in DOMAIN chains THEN chains[c] ELSE 0]
Disk(f) == [c \in Clusters |-> IF c \in DOMAIN f THEN f[c] ELSE Blank]
Child(n, dir, first) == ShortSlot(n, [dir |-> dir, first |-> first])

\* A long name of another system beside a directory with a file; a root directory
\* of two clusters with deleted slots before its file; one without a free slot.
TreeImage == [fat |-> Table(2 :> 3 @@ 3 :> EndOfChain @@ 4 :> EndOfChain @@ 5 :> EndOfChain),
              disk |-> Disk(2 :> <<LongSlot("report-1"), Child("report-1", FALSE, 0)>> @@
                            3 :> <<Child("d", TRUE, 4), EndSlot>> @@
                            4 :> <<Child("p", FALSE, 5), EndSlot>> @@ 5 :> y)]
GapImage == [fat |-> Table(2 :> 3 @@ 3 :> EndOfChain @@ 4 :> EndOfChain),
             disk |-> Disk(2 :> <<Deleted, Deleted>> @@ 3 :> <<LongSlot("a.b"), Child("a.b", FALSE, 4)>> @@ 4 :> y)]
FullImage == [fat |-> Table(2 :> EndOfChain @@ 3 :> EndOfChain @@ 4 :> EndOfChain),
              disk |-> Disk(2 :> <<Child("report-1", FALSE, 3), Child("d", FALSE, 4)>> @@ 3 :> y @@ 4 :> x)]
MCImages == {TreeImage, GapImage, FullImage}

VolView == <<[vol EXCEPT !.disk = [c \in Clusters \ FreeClusters(vol) |-> vol.disk[c]]], stream, calls>>
===============================================================================
