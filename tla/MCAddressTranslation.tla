------------------------ MODULE MCAddressTranslation ------------------------
EXTENDS AddressTranslation, TLC

\* Every block good, and a die whose block 1 is bad.
AllGood == [d \in Die |-> Block]
Block1Bad == [d \in Die |-> IF d = 0 THEN Block \ {1} ELSE Block]

SliceSymmetry == Permutations(LSA)

\* The erasure of an open block ends the behaviours the passing runs follow.
NoOpenBlockErased == ~curErased
=============================================================================
