------------------------------ MODULE NvmeSlice ------------------------------
(***************************************************************************)
(* A read or a write of the host as the firmware takes it apart: the pages *)
(* of the host's buffer from the PRP entries and lists of the command, the *)
(* slices, the pieces of a slice and what the DMA does with each piece.    *)
(*                                                                         *)
(* Memory is counted in units, of which a memory page and a logical block  *)
(* both have LBA_SIZE.  The pages of the host's buffer are numbered from 1 *)
(* in the order of the buffer, whatever their addresses, and an address is *)
(* <<page, unit in the page>>.  A command is [op, id, lba, nlb, offset,    *)
(* listOffset, val]: nlb is one less than the number of blocks, offset is  *)
(* where its buffer starts in page 1 and listOffset the entry of the first *)
(* PRP list at which that list starts.                                     *)
(***************************************************************************)
EXTENDS Integers, Sequences

CONSTANTS
  LBA_SIZE,              \* units of a block and of a memory page
  NVME_BLOCKS_PER_SLICE,
  PRPS_PER_LIST          \* entries of a page of a PRP list

\* BYTES_PER_DATA_REGION_OF_SLICE is two blocks, and IssueNvmeDmaReq knows two
\* places of an entry only.
ASSUME SizesAssumption ==
  /\ LBA_SIZE \in Nat \ {0} /\ NVME_BLOCKS_PER_SLICE \in {1, 2}
  /\ PRPS_PER_LIST \in Nat \ {0, 1}

LeastOf(x, y) == IF x < y THEN x ELSE y

Blocks(c) == c.nlb + 1
DataLength(c) == Blocks(c) * LBA_SIZE

\* handle_nvme_io_read, handle_nvme_io_write: prp_num.
PrpNum(c) == (c.offset + DataLength(c) + LBA_SIZE - 1) \div LBA_SIZE

-----------------------------------------------------------------------------
\* External: the host lays out the pages of its buffer from the second one in
\* lists.  The last entry of a full list names the next list, unless it is the
\* last page of the buffer.
ListStart(c, list) == IF list = 1 THEN c.listOffset ELSE 0
PagesBefore(c, list) ==
  IF list = 1 THEN 0
  ELSE (PRPS_PER_LIST - 1 - c.listOffset) + (list - 2) * (PRPS_PER_LIST - 1)

Page(i) == [page |-> i, list |-> 0, start |-> 0]
NextList(list) == [page |-> 0, list |-> list, start |-> 0]

HostList(c, list, i) ==
  LET n == PagesBefore(c, list) + i - ListStart(c, list) + 1
  IN  IF i = PRPS_PER_LIST - 1 /\ n < PrpNum(c) - 1
      THEN NextList(list + 1)
      ELSE Page(n + 1)

-----------------------------------------------------------------------------
\* ReqTransNvmeToSlice: the walk over the lists, of which left pages remain and
\* the next list is read from start on.
WalkList(c, w) ==
  LET full == w.left + w.start > PRPS_PER_LIST
      taken == IF full THEN PRPS_PER_LIST - w.start ELSE w.left
      pages == IF full THEN taken - 1 ELSE taken
      next == HostList(c, w.list, w.start + taken - 1)
  IN  [left  |-> w.left - pages,
       list  |-> IF full THEN next.list ELSE w.list,
       start |-> IF full THEN next.start ELSE w.start,
       prp   |-> w.prp \o [i \in 1 .. pages |-> HostList(c, w.list, w.start + i - 1).page]]

\* From the first page and the first list until no page is left; there are no
\* more lists than pages.
PrpWalk(c) ==
  LET walk[n \in Nat] ==
        IF n = 0 THEN [left |-> PrpNum(c) - 1, list |-> 1, start |-> c.listOffset, prp |-> <<1>>]
        ELSE IF walk[n - 1].left = 0 THEN walk[n - 1] ELSE WalkList(c, walk[n - 1])
  IN  walk[PrpNum(c)].prp

\* prpCollectedForSlice, without the offset.
PrpCollectedForSlice(c) ==
  CASE PrpNum(c) = 1 -> <<1>>
    [] PrpNum(c) = 2 -> <<1, 2>>
    [] OTHER -> PrpWalk(c)

\* Mutant: the first page is taken from its start.
MutDataLengthOfPage(c, i) ==
  LeastOf(LBA_SIZE, DataLength(c) + c.offset - (i - 1) * LBA_SIZE)

\* dataLengthForSlice, before any of it is used.
DataLengthOfPage(c, i) ==
  IF i = 1 THEN LBA_SIZE - c.offset
  ELSE LeastOf(LBA_SIZE, DataLength(c) - (LBA_SIZE - c.offset) - (i - 2) * LBA_SIZE)

-----------------------------------------------------------------------------
Lead(c) == c.lba % NVME_BLOCKS_PER_SLICE
Loop(c) == (Lead(c) + Blocks(c)) \div NVME_BLOCKS_PER_SLICE
Trail(c) == (c.lba + Blocks(c)) % NVME_BLOCKS_PER_SLICE

\* The first transform, the loop and the last transform: how many slices, and
\* of slice k the blocks before it (nvmeDmaStartIndex), its nvmeBlockOffset and
\* its numOfNvmeBlock.
SliceCount(c) ==
  LET first == IF Loop(c) = 0 THEN 1 ELSE Loop(c)
  IN  first + IF Trail(c) = 0 \/ Loop(c) = 0 THEN 0 ELSE 1

LogicalSliceAddr(c, k) == c.lba \div NVME_BLOCKS_PER_SLICE + k - 1

NvmeBlockOffset(c, k) == IF k = 1 THEN Lead(c) ELSE 0

NumOfNvmeBlock(c, k) ==
  CASE k = 1 /\ Loop(c) = 0 -> Blocks(c)
    [] k = 1 /\ Loop(c) > 0 -> NVME_BLOCKS_PER_SLICE - Lead(c)
    [] k > 1 /\ k <= Loop(c) -> NVME_BLOCKS_PER_SLICE
    [] OTHER -> Trail(c)

StartIndex(c, k) == IF k = 1 THEN 0 ELSE k * NVME_BLOCKS_PER_SLICE - NVME_BLOCKS_PER_SLICE - Lead(c)

\* Mutant: cqEn stays on the first slice too.
MutCqEn(c, k) == k = SliceCount(c) \/ k = 1

\* cqEn moves on to each new slice, so the newest has it in the end.
CqEn(c, k) == k = SliceCount(c)

Piece(page, unit, len) == [page |-> page, unit |-> unit, len |-> len]

\* prpForEachReq and dataLengthForSlice of slice k: page, place in the page and
\* length of each piece.  With an offset there is one piece more, the start of
\* the page that the next slice begins in.
Pieces(c, k) ==
  LET prp == PrpCollectedForSlice(c)
      first == StartIndex(c, k)
      n == NumOfNvmeBlock(c, k)
      whole == [i \in 1 .. n |->
                  IF i = 1 /\ c.offset # 0
                  THEN Piece(prp[first + 1], c.offset,
                             DataLengthOfPage(c, first + 1) - IF first = 0 THEN 0 ELSE c.offset)
                  ELSE Piece(prp[first + i], 0, DataLengthOfPage(c, first + i))]
  IN  IF c.offset = 0 THEN whole ELSE Append(whole, Piece(prp[first + n + 1], 0, c.offset))

-----------------------------------------------------------------------------
\* IssueNvmeDmaReq: ddr_offset, where in the entry each piece goes or comes from.
\* The first starts at 0 or, whatever the offset, at 0x1000.
DdrOffset(c, k) ==
  LET at[i \in 1 .. Len(Pieces(c, k))] ==
        IF i = 1 THEN IF NvmeBlockOffset(c, k) = 0 THEN 0 ELSE LBA_SIZE
        ELSE at[i - 1] + Pieces(c, k)[i - 1].len
  IN  at

Moves(c, k) ==
  LET ps == Pieces(c, k)
  IN  [i \in 1 .. Len(ps) |-> [page |-> ps[i].page, unit |-> ps[i].unit, len |-> ps[i].len,
                              at |-> DdrOffset(c, k)[i]]]

\* A request has room for NVME_BLOCKS_PER_SLICE + 1 pieces, the first one at
\* the place of its first block.
PiecesFit(c) ==
  \A k \in 1 .. SliceCount(c) :
    NvmeBlockOffset(c, k) + Len(Pieces(c, k)) <= NVME_BLOCKS_PER_SLICE + 1
=============================================================================
