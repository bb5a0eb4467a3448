--------------------------- MODULE MCNandAddress ---------------------------
EXTENDS NandAddress, TLC

\* Every block good, one spare block, nothing remapped.
AllGood == [d \in Die |-> Block]
NoRemap == [d \in Die |-> [b \in 0 .. B |-> b]]
Spares == B + 1

SliceSymmetry == Permutations(LSA)
=============================================================================
