--------------------------- MODULE MCRequestFlow ---------------------------
EXTENDS RequestFlow

SlotSymmetry == Permutations(Slot) \cup Permutations(Buf)
=============================================================================
