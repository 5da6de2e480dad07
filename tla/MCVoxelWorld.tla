---------------------------- MODULE MCVoxelWorld ----------------------------
EXTENDS VoxelWorld

CONSTANTS c1, c2

\* Two chunks in sections of their own.
MCChunks == {c1, c2}
MCSectionOf == [c \in MCChunks |-> c]
=============================================================================
