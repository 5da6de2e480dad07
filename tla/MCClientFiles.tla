--------------------------- MODULE MCClientFiles ---------------------------
(* ClientFiles for TLC: a file on the disk and a file of a module.         *)
EXTENDS ClientFiles

CONSTANTS onDisk, ofModule, c1, c2

TwoFiles == {onDisk, ofModule}
OneOnDisk == {onDisk}
FirstContent == [f \in {onDisk} |-> c1]
Caches == {{c2}}
ThreeContents == {c1, c2, Empty}
=============================================================================
