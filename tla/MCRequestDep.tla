---------------------------- MODULE MCRequestDep ----------------------------
EXTENDS RequestDep

\* Slots are alike, and so are the entries of the data buffer.
SlotSymmetry == Permutations(Slot) \cup Permutations(Buf)
=============================================================================
