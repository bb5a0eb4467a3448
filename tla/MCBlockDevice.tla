---------------------------- MODULE MCBlockDevice ----------------------------
(***************************************************************************)
(* Four slices of two blocks and a data buffer of two entries.  A block is *)
(* two units, so that the host's buffer may start in the middle of a page, *)
(* and a PRP list has three entries, so that the longest commands walk     *)
(* over three lists.                                                       *)
(***************************************************************************)
EXTENDS BlockDevice, TLC

CONSTANTS v1, v2

MCLSAs == 0 .. 3
MCPages == 1 .. 9
MCVal == {v1, v2}
Symmetric == Permutations(MCVal)

Command(op, id, lba, nlb, offset, listOffset, val) ==
  [op |-> op, id |-> id, lba |-> lba, nlb |-> nlb, offset |-> offset,
   listOffset |-> listOffset, val |-> val]

MCIds == {1, 2}
Write(id, lba, nlb, offset) == {Command("WRITE", id, lba, nlb, offset, 0, v) : v \in MCVal}
Read(id, lba, nlb, offset) == {Command("READ", id, lba, nlb, offset, 0, NONE)}

\* A whole slice, parts of two, and reads of written and unwritten slices.
MCHostCommands ==
  UNION {Write(1, 0, 1, 0), Write(1, 1, 1, 1), Read(2, 0, 3, 0), Read(2, 4, 1, 1)}

MCWideCommands ==
  {Command("READ", 1, lba, nlb, offset, listOffset, NONE) :
     lba \in 0 .. 1, nlb \in 0 .. 6, offset \in 0 .. 1, listOffset \in 0 .. 2}
=============================================================================
