------------------------------- MODULE MCMain -------------------------------
(***************************************************************************)
(* Two channels of five blocks, two of them spare, and the dies a board    *)
(* may have: with a table, without one, and with an erased block for one.  *)
(***************************************************************************)
EXTENDS Main

MCCh == {0, 1}
MCBlocks == 0 .. 4

Die(factory, mark0, mark1, table) ==
  [factory |-> factory, mark0 |-> mark0, mark1 |-> mark1, table |-> table]

\* A die used before: data of the host looks like a mark in block 2.
MCUsed == Die({1}, {1, 2}, {}, TableOf({1}))
\* The first spare block is bad, and marked in its last page only.
MCNoTable == Die({1, 3}, {1}, {3}, Unreadable)
\* As the vendor delivers it.
MCBlank == Die({2}, {2}, {2}, BlankTable)

MCFlash == {[d \in MCCh |-> MCNoTable],
            [d \in MCCh |-> IF d = 0 THEN MCUsed ELSE MCNoTable],
            [d \in MCCh |-> IF d = 0 THEN MCBlank ELSE MCUsed]}

MCLoopFlash == {[d \in MCCh |-> IF d = 0 THEN MCUsed ELSE Die({1, 3}, {1}, {3}, TableOf({1, 3}))]}

MCQIDs == 0 .. 1
=============================================================================
