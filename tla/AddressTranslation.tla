------------------------- MODULE AddressTranslation -------------------------
(***************************************************************************)
(* The page-level mapping of the FTL: which virtual slice (die, block,     *)
(* page) holds each logical slice, which blocks are free, which are        *)
(* candidates for garbage collection, and the garbage collector itself.    *)
(*                                                                         *)
(* The two functions that change the state, AddrTransWrite and the         *)
(* GarbageCollection it may call, run to completion on the only thread of  *)
(* the firmware, but they hand requests to the lower layer as they go, and *)
(* that layer may run (it does when the request pool is empty) between two *)
(* page copies.  So a write is a short sequence of steps, ordered by pc.   *)
(*                                                                         *)
(* An assert of the source stops the firmware.  Here the step that would   *)
(* run into it is not enabled, and a predicate names the state in which it *)
(* fires: CurrentPageManagementFail, NoAvailableBlock, NoFreeBlocks.       *)
(***************************************************************************)
EXTENDS IntrusiveList

CONSTANTS
  D,        \* USER_DIES
  B,        \* USER_BLOCKS_PER_DIE
  P,        \* USER_PAGES_PER_BLOCK = SLICES_PER_BLOCK
  LSA,      \* logical slices the host uses, at most SLICES_PER_SSD of them
  Data,     \* contents of a slice
  Good      \* Good[d]: the blocks of die d whose `bad' bit is BLOCK_STATE_NORMAL

Die == 0..(D - 1)
Block == 0..(B - 1)
Page == 0..(P - 1)
VSA == Die \X Block \X Page

RESERVED_FREE_BLOCK_COUNT == 1

ASSUME SizesAssumption == D \in Nat \ {0} /\ B \in Nat \ {0} /\ P \in Nat \ {0}
ASSUME NoneAssumption == NONE \notin Block \cup LSA \cup Data \cup VSA
\* InitCurrentBlockOfDieMap asserts that every die has a block to open.
ASSUME GoodAssumption ==
  /\ Good \in [Die -> SUBSET Block]
  /\ \A d \in Die : Cardinality(Good[d]) > RESERVED_FREE_BLOCK_COUNT

VARIABLES
  logicalSliceMap,           \* [LSA -> VSA or NONE]
  virtualSliceMap,           \* [VSA -> LSA or NONE]
  links,                     \* prevBlock and nextBlock of every block of a die
  freeList,                  \* headFreeBlock and tailFreeBlock of a die
  freeBlockCnt,
  gcVictimList,              \* gcVictimList[d][n]: blocks with n invalid slices
  free,
  invalidSliceCnt,
  currentPage,               \* next page to program in a block
  currentBlock,              \* the open block of a die
  sliceAllocationTargetDie,
  pc,                        \* where the thread is
  initAt,                    \* <<die, block>> the boot loop has reached
  request,                   \* the write being translated
  victimBlockNo, pageNo,     \* the locals of GarbageCollection
  flash,                     \* what each page holds once the requests handed
                             \* down so far have been executed
  curErased                  \* history: the collector has erased an open block

mapVars   == <<logicalSliceMap, virtualSliceMap, flash>>
listVars  == <<links, freeList, freeBlockCnt, gcVictimList>>
blockVars == <<free, invalidSliceCnt, currentPage>>
dieVars   == <<currentBlock, sliceAllocationTargetDie>>
ctlVars   == <<pc, initAt, request, victimBlockNo, pageNo>>
vars == <<mapVars, listVars, blockVars, dieVars, ctlVars, curErased>>

NoRequest == [lsa |-> NONE, data |-> NONE]

\* Vorg2VsaTranslation numbers the pages of a block and then of the next one:
\* page P of a block is page 0 of the block after it.
Vorg2Vsa(d, b, p) == IF p < P THEN <<d, b, p>> ELSE <<d, b + 1, p - P>>

Vsa2Vdie(vsa) == vsa[1]
Vsa2Vblock(vsa) == vsa[2]

\* The virtual slice AddrTransRead returns, VSA_FAIL being NONE.
AddrTransRead(l) == logicalSliceMap[l]

-----------------------------------------------------------------------------
\* The block lists of a die.

\* To the tail of the free list: [list, links] of the die.
FreeListPut(d, b) == PutTail(freeList[d], links[d], b)

PutToFbList(d, b) ==
  /\ freeList' = [freeList EXCEPT ![d] = FreeListPut(d, b).list]
  /\ links' = [links EXCEPT ![d] = FreeListPut(d, b).links]
  /\ freeBlockCnt' = [freeBlockCnt EXCEPT ![d] = @ + 1]

\* Mutant: the host takes the reserved block.
MutNoReserve(d) == freeBlockCnt[d] >= RESERVED_FREE_BLOCK_COUNT

\* Whether the free list has a block to give, for the two options of
\* GetFromFbList: the host may not take the last RESERVED_FREE_BLOCK_COUNT.
HasFreeBlockNormal(d) == freeBlockCnt[d] > RESERVED_FREE_BLOCK_COUNT
HasFreeBlockGc(d) == freeList[d].head # NONE

GetFromFbList(d) ==
  LET b == freeList[d].head
      got == GetHead(freeList[d], links[d])
  IN  /\ freeList' = [freeList EXCEPT ![d] = got.list]
      /\ links' = [links EXCEPT ![d] = ClearLinks(got.links, b)]
      /\ freeBlockCnt' = [freeBlockCnt EXCEPT ![d] = @ - 1]
      /\ free' = [free EXCEPT ![d][b] = FALSE]

\* Mutant: the first list skipped too.
MutVictimCounts(d) == {n \in 2..P : gcVictimList[d][n].head # NONE}

\* The counts whose victim list is not empty; list 0 is never looked at.
VictimCounts(d) == {n \in 1..P : gcVictimList[d][n].head # NONE}

\* The head of the non-empty list of the highest count.  The victim keeps its
\* own links until EraseBlock puts it on the free list.
GetFromGcVictimList(d, n) ==
  LET got == GetHead(gcVictimList[d][n], links[d])
  IN  /\ \A k \in VictimCounts(d) : k <= n
      /\ victimBlockNo' = gcVictimList[d][n].head
      /\ gcVictimList' = [gcVictimList EXCEPT ![d][n] = got.list]
      /\ links' = [links EXCEPT ![d] = got.links]

\* SelectiveGetFromGcVictimList, invalidSliceCnt++, PutToGcVictimList.
MoveToNextVictimList(d, b) ==
  LET n == invalidSliceCnt[d][b]
      out == Unlink(gcVictimList[d][n], links[d], b)
      in == PutTail(gcVictimList[d][n + 1], out.links, b)
  IN  /\ gcVictimList' = [gcVictimList EXCEPT ![d][n] = out.list, ![d][n + 1] = in.list]
      /\ links' = [links EXCEPT ![d] = in.links]
      /\ invalidSliceCnt' = [invalidSliceCnt EXCEPT ![d][b] = n + 1]

-----------------------------------------------------------------------------
\* Boot: InitAddressMap leaves the first die as target and the maps empty.

Init ==
  /\ logicalSliceMap = [l \in LSA |-> NONE]
  /\ virtualSliceMap = [v \in VSA |-> NONE]
  /\ flash = [v \in VSA |-> NONE]
  /\ links = [d \in Die |-> NoLinks(Block)]
  /\ freeList = [d \in Die |-> EmptyList]
  /\ freeBlockCnt = [d \in Die |-> 0]
  /\ gcVictimList = [d \in Die |-> [n \in 0..P |-> EmptyList]]
  /\ free = [d \in Die |-> [b \in Block |-> FALSE]]
  /\ invalidSliceCnt = [d \in Die |-> [b \in Block |-> 0]]
  /\ currentPage = [d \in Die |-> [b \in Block |-> 0]]
  /\ currentBlock = [d \in Die |-> NONE]
  /\ sliceAllocationTargetDie = 0
  /\ pc = "initBlockMap"
  /\ initAt = <<0, 0>>
  /\ request = NoRequest
  /\ victimBlockNo = NONE
  /\ pageNo = 0
  /\ curErased = FALSE

\* One turn of the loop of InitBlockMap.  A bad block is marked free too but
\* is on no list, so it is never handed out.
InitBlockMap ==
  LET d == initAt[1]
      b == initAt[2]
  IN  /\ pc = "initBlockMap"
      /\ free' = [free EXCEPT ![d][b] = TRUE]
      /\ IF b \in Good[d] THEN PutToFbList(d, b)
                          ELSE UNCHANGED <<freeList, links, freeBlockCnt>>
      /\ initAt' = IF b < B - 1 THEN <<d, b + 1>>
                   ELSE IF d < D - 1 THEN <<d + 1, 0>> ELSE <<0, 0>>
      /\ pc' = IF b = B - 1 /\ d = D - 1 THEN "initCurrentBlock" ELSE pc
      /\ UNCHANGED <<mapVars, gcVictimList, invalidSliceCnt, currentPage, dieVars,
                     request, victimBlockNo, pageNo, curErased>>

\* One turn of the loop of InitCurrentBlockOfDieMap.
InitCurrentBlockOfDieMap ==
  LET d == initAt[1]
  IN  /\ pc = "initCurrentBlock"
      /\ HasFreeBlockNormal(d)
      /\ GetFromFbList(d)
      /\ currentBlock' = [currentBlock EXCEPT ![d] = freeList[d].head]
      /\ initAt' = IF d < D - 1 THEN <<d + 1, 0>> ELSE <<0, 0>>
      /\ pc' = IF d < D - 1 THEN pc ELSE "idle"
      /\ UNCHANGED <<mapVars, gcVictimList, invalidSliceCnt, currentPage,
                     sliceAllocationTargetDie, request, victimBlockNo, pageNo, curErased>>

-----------------------------------------------------------------------------
\* AddrTransWrite.

\* Mutant: the slice keeps its old page.
MutKeepOldVsa(l) ==
  LET vsa == logicalSliceMap[l]
  IN  IF vsa # NONE
      THEN /\ MoveToNextVictimList(Vsa2Vdie(vsa), Vsa2Vblock(vsa))
           /\ UNCHANGED logicalSliceMap
      ELSE UNCHANGED <<gcVictimList, links, invalidSliceCnt, logicalSliceMap>>

\* The old virtual slice is given up only if it still belongs to the slice.
InvalidateOldVsa(l) ==
  LET vsa == logicalSliceMap[l]
  IN  IF vsa # NONE /\ virtualSliceMap[vsa] = l
      THEN /\ MoveToNextVictimList(Vsa2Vdie(vsa), Vsa2Vblock(vsa))
           /\ logicalSliceMap' = [logicalSliceMap EXCEPT ![l] = NONE]
      ELSE UNCHANGED <<gcVictimList, links, invalidSliceCnt, logicalSliceMap>>

AddrTransWrite(l, x) ==
  /\ pc = "idle"
  /\ InvalidateOldVsa(l)
  /\ request' = [lsa |-> l, data |-> x]
  /\ pc' = "find"
  /\ UNCHANGED <<virtualSliceMap, flash, freeList, freeBlockCnt, free, currentPage,
                 dieVars, initAt, victimBlockNo, pageNo, curErased>>

\* Mutant: no wrap to die 0.
MutNoWrap == sliceAllocationTargetDie + 1

\* FindDieForFreeSliceAllocation: channels first, then ways, which is die order.
NextTargetDie == (sliceAllocationTargetDie + 1) % D

\* Mutant: currentPage not advanced.
MutProgramSamePage(d, b, l, x) ==
  LET vsa == Vorg2Vsa(d, b, currentPage[d][b])
  IN  /\ vsa \in VSA
      /\ logicalSliceMap' = [logicalSliceMap EXCEPT ![l] = vsa]
      /\ virtualSliceMap' = [virtualSliceMap EXCEPT ![vsa] = l]
      /\ flash' = [flash EXCEPT ![vsa] = x]
      /\ UNCHANGED currentPage

\* A page of block b gets slice l: the tail of FindFreeVirtualSlice and of
\* FindFreeVirtualSliceForGc, and the map updates of their callers.
Program(d, b, l, x) ==
  LET vsa == Vorg2Vsa(d, b, currentPage[d][b])
  IN  /\ vsa \in VSA
      /\ currentPage' = [currentPage EXCEPT ![d][b] = @ + 1]
      /\ logicalSliceMap' = [logicalSliceMap EXCEPT ![l] = vsa]
      /\ virtualSliceMap' = [virtualSliceMap EXCEPT ![vsa] = l]
      /\ flash' = [flash EXCEPT ![vsa] = x]

\* The end of AddrTransWrite, once FindFreeVirtualSlice has settled on b.
FinishWrite(d, b) ==
  /\ Program(d, b, request.lsa, request.data)
  /\ sliceAllocationTargetDie' = NextTargetDie
  /\ pc' = "idle"
  /\ request' = NoRequest
  /\ UNCHANGED <<gcVictimList, invalidSliceCnt, initAt, victimBlockNo, pageNo, curErased>>

Target == sliceAllocationTargetDie
OpenPage(d) == currentPage[d][currentBlock[d]]

\* FindFreeVirtualSlice, the open block having room: at once ("find") or after
\* a collection that opened another block, or emptied this one ("refind").
WriteToCurrentBlock ==
  /\ pc \in {"find", "refind"}
  /\ OpenPage(Target) < P
  /\ FinishWrite(Target, currentBlock[Target])
  /\ UNCHANGED <<links, freeList, freeBlockCnt, free, currentBlock>>

\* FindFreeVirtualSlice, the open block being full and a block to spare.
WriteToFreeBlock ==
  /\ pc \in {"find", "refind"}
  /\ OpenPage(Target) = P
  /\ HasFreeBlockNormal(Target)
  /\ freeList[Target].head # NONE
  /\ GetFromFbList(Target)
  /\ currentBlock' = [currentBlock EXCEPT ![Target] = freeList[Target].head]
  /\ FinishWrite(Target, freeList[Target].head)

-----------------------------------------------------------------------------
\* GarbageCollection, called by FindFreeVirtualSlice.

\* Mutant: the copies skipped one slice too early.
MutGcStartSkipsTooEarly ==
  /\ pc = "find"
  /\ OpenPage(Target) = P
  /\ ~HasFreeBlockNormal(Target)
  /\ \E n \in VictimCounts(Target) : GetFromGcVictimList(Target, n)
  /\ pageNo' = IF invalidSliceCnt[Target][victimBlockNo'] >= P - 1 THEN P ELSE 0
  /\ pc' = "gc"
  /\ UNCHANGED <<mapVars, freeList, freeBlockCnt, blockVars, dieVars, initAt, request,
                 curErased>>

GcStart ==
  /\ pc = "find"
  /\ OpenPage(Target) = P
  /\ ~HasFreeBlockNormal(Target)
  /\ \E n \in VictimCounts(Target) : GetFromGcVictimList(Target, n)
  /\ pageNo' = IF invalidSliceCnt[Target][victimBlockNo'] = P THEN P ELSE 0
  /\ pc' = "gc"
  /\ UNCHANGED <<mapVars, freeList, freeBlockCnt, blockVars, dieVars, initAt, request,
                 curErased>>

VictimVsa == <<Target, victimBlockNo, pageNo>>

\* Mutant: stale pages copied too.
MutVictimPageMapped == virtualSliceMap[VictimVsa] # NONE

\* The victim's page holds the current data of the slice it was written for.
VictimPageValid ==
  LET l == virtualSliceMap[VictimVsa]
  IN  IF l = NONE THEN FALSE ELSE logicalSliceMap[l] = VictimVsa

\* Mutant: pageNo not advanced.
MutSkipStays ==
  /\ pc = "gc" /\ pageNo < P
  /\ ~VictimPageValid
  /\ UNCHANGED vars

GcSkipPage ==
  /\ pc = "gc" /\ pageNo < P
  /\ ~VictimPageValid
  /\ pageNo' = pageNo + 1
  /\ UNCHANGED <<mapVars, listVars, blockVars, dieVars, pc, initAt, request,
                 victimBlockNo, curErased>>

\* The block FindFreeVirtualSliceForGc copies to is not the open one.
GcNeedsBlock ==
  \/ victimBlockNo = currentBlock[Target]
  \/ OpenPage(Target) = P

\* A page copied: read to the die's temporary buffer, write to a new page.
\* FindFreeVirtualSliceForGc may take the reserved block; it is erased, so
\* its currentPage is not tested twice.
GcCopyPage ==
  /\ pc = "gc" /\ pageNo < P
  /\ VictimPageValid
  /\ LET l == virtualSliceMap[VictimVsa]
     IN  IF GcNeedsBlock
         THEN /\ HasFreeBlockGc(Target)
              /\ GetFromFbList(Target)
              /\ currentBlock' = [currentBlock EXCEPT ![Target] = freeList[Target].head]
              /\ Program(Target, freeList[Target].head, l, flash[VictimVsa])
         ELSE /\ OpenPage(Target) < P
              /\ Program(Target, currentBlock[Target], l, flash[VictimVsa])
              /\ UNCHANGED <<links, freeList, freeBlockCnt, free, currentBlock>>
  /\ pageNo' = pageNo + 1
  /\ UNCHANGED <<gcVictimList, invalidSliceCnt, sliceAllocationTargetDie, pc, initAt,
                 request, victimBlockNo, curErased>>

\* Mutant: the victim is not returned to the free list.
MutEraseKeepsBlock ==
  /\ pc = "gc" /\ pageNo = P
  /\ UNCHANGED <<links, freeList, freeBlockCnt>>
  /\ free' = [free EXCEPT ![Target][victimBlockNo] = TRUE]
  /\ invalidSliceCnt' = [invalidSliceCnt EXCEPT ![Target][victimBlockNo] = 0]
  /\ currentPage' = [currentPage EXCEPT ![Target][victimBlockNo] = 0]
  /\ virtualSliceMap' = [v \in VSA |->
       IF v[1] = Target /\ v[2] = victimBlockNo THEN NONE ELSE virtualSliceMap[v]]
  /\ flash' = [v \in VSA |->
       IF v[1] = Target /\ v[2] = victimBlockNo THEN NONE ELSE flash[v]]
  /\ curErased' = (curErased \/ victimBlockNo = currentBlock[Target])
  /\ victimBlockNo' = NONE
  /\ pageNo' = 0
  /\ pc' = "refind"
  /\ UNCHANGED <<logicalSliceMap, gcVictimList, dieVars, initAt, request>>

\* EraseBlock resets the block and returns it to the free list, whatever else
\* the block may be.
EraseBlock ==
  /\ pc = "gc" /\ pageNo = P
  /\ PutToFbList(Target, victimBlockNo)
  /\ free' = [free EXCEPT ![Target][victimBlockNo] = TRUE]
  /\ invalidSliceCnt' = [invalidSliceCnt EXCEPT ![Target][victimBlockNo] = 0]
  /\ currentPage' = [currentPage EXCEPT ![Target][victimBlockNo] = 0]
  /\ virtualSliceMap' = [v \in VSA |->
       IF v[1] = Target /\ v[2] = victimBlockNo THEN NONE ELSE virtualSliceMap[v]]
  /\ flash' = [v \in VSA |->
       IF v[1] = Target /\ v[2] = victimBlockNo THEN NONE ELSE flash[v]]
  /\ curErased' = (curErased \/ victimBlockNo = currentBlock[Target])
  /\ victimBlockNo' = NONE
  /\ pageNo' = 0
  /\ pc' = "refind"
  /\ UNCHANGED <<logicalSliceMap, gcVictimList, dieVars, initAt, request>>

Next ==
  \/ InitBlockMap
  \/ InitCurrentBlockOfDieMap
  \/ \E l \in LSA, x \in Data : AddrTransWrite(l, x)
  \/ WriteToCurrentBlock
  \/ WriteToFreeBlock
  \/ GcStart
  \/ GcSkipPage
  \/ GcCopyPage
  \/ EraseBlock

Spec == Init /\ [][Next]_vars

\* The firmware's thread keeps running; the host need not write.
FairSpec == Spec /\ WF_vars(Next /\ pc # "idle")

-----------------------------------------------------------------------------
\* Properties.  The ones that the erasure of an open block breaks, see
\* EraseBlock, are claimed of the behaviours in which it has not happened.

BlockOrNone == Block \cup {NONE}

TypeOK ==
  /\ logicalSliceMap \in [LSA -> VSA \cup {NONE}]
  /\ virtualSliceMap \in [VSA -> LSA \cup {NONE}]
  /\ flash \in [VSA -> Data \cup {NONE}]
  /\ links \in [Die -> LinksOf(Block)]
  /\ freeList \in [Die -> ListOf(Block)]
  /\ gcVictimList \in [Die -> [0..P -> ListOf(Block)]]
  /\ freeBlockCnt \in [Die -> Int]
  /\ free \in [Die -> [Block -> BOOLEAN]]
  /\ invalidSliceCnt \in [Die -> [Block -> 0..P]]
  /\ currentPage \in [Die -> [Block -> Nat]]
  /\ currentBlock \in [Die -> BlockOrNone]
  /\ sliceAllocationTargetDie \in Die
  /\ pc \in {"initBlockMap", "initCurrentBlock", "idle", "find", "gc", "refind"}
  /\ initAt \in Die \X Block
  /\ request \in [lsa : LSA \cup {NONE}, data : Data \cup {NONE}]
  /\ victimBlockNo \in BlockOrNone
  /\ pageNo \in 0..P
  /\ curErased \in BOOLEAN

FreeBlocks(d) == {b \in Good[d] : free[d][b]}
Collecting(d, b) == d = Target /\ b = victimBlockNo
VictimBlocks(d, n) ==
  {b \in Block : ~free[d][b] /\ invalidSliceCnt[d][b] = n /\ ~Collecting(d, b)}

BlocksOnTheirLists ==
  \A d \in Die :
    /\ IsList(freeList[d], links[d], FreeBlocks(d))
    /\ freeBlockCnt[d] = Cardinality(FreeBlocks(d))
    /\ gcVictimList[d][0] = EmptyList
    /\ \A n \in 1..P : IsList(gcVictimList[d][n], links[d], VictimBlocks(d, n))
    /\ \A b \in VictimBlocks(d, 0) : links[d].next[b] = NONE /\ links[d].prev[b] = NONE

\* Every block is on the list its state says, and on no other: the free list
\* links exactly the good free blocks and freeBlockCnt counts them, victim list
\* n links exactly the blocks with n invalid slices, and a block on no list has
\* no links left.  The lists share one pair of links (PutToFbList,
\* GetFromFbList, PutToGcVictimList, SelectiveGetFromGcVictimList).
ListsMatchBlocks == ~curErased => BlocksOnTheirLists

LiveDataMapped ==
  \A l \in LSA : logicalSliceMap[l] # NONE =>
    LET v == logicalSliceMap[l]
    IN  /\ virtualSliceMap[v] = l
        /\ v[3] < currentPage[v[1]][v[2]]
        /\ v[2] \in Good[v[1]]
        /\ ~free[v[1]][v[2]]

\* The two maps agree on live data, which lies in programmed pages of blocks
\* that are not free: so no page serves two slices (AddrTransWrite,
\* GarbageCollection and EraseBlock each update one side at a time).
MapsAgree == ~curErased => LiveDataMapped

PageValid(v) ==
  IF virtualSliceMap[v] = NONE THEN FALSE ELSE logicalSliceMap[virtualSliceMap[v]] = v

InvalidPages(d, b) == {p \in Page : p < currentPage[d][b] /\ ~PageValid(<<d, b, p>>)}

InvalidSlicesCounted ==
  \A d \in Die, b \in Block : ~Collecting(d, b) =>
    invalidSliceCnt[d][b] = Cardinality(InvalidPages(d, b))

\* invalidSliceCnt is the number of programmed pages without live data, except
\* in the block being collected; GarbageCollection skips all copying when it
\* is P, so a count too high would lose data and one too low would never be
\* collected (InvalidateOldVsa).
InvalidCountExact == ~curErased => InvalidSlicesCounted

\* The rest of the inductive invariant.  Erased pages belong to no slice; the
\* collector has dealt with the victim's pages it has passed; the slice being
\* written has no page; an open block is not free.
PagesErased ==
  /\ \A d \in Die, b \in Block :
       /\ currentPage[d][b] <= P
       /\ free[d][b] => currentPage[d][b] = 0 /\ invalidSliceCnt[d][b] = 0
       /\ b \notin Good[d] => currentPage[d][b] = 0
  /\ \A v \in VSA : v[3] >= currentPage[v[1]][v[2]] => virtualSliceMap[v] = NONE

VictimInProgress ==
  /\ pc = "gc" <=> victimBlockNo # NONE
  /\ pc = "gc" => /\ victimBlockNo \in Good[Target]
                  /\ ~free[Target][victimBlockNo]
                  /\ \A p \in Page : p < pageNo => ~PageValid(<<Target, victimBlockNo, p>>)

WriteInProgress ==
  /\ pc \in {"find", "gc", "refind"} =>
       request.lsa \in LSA /\ request.data \in Data /\ logicalSliceMap[request.lsa] = NONE
  /\ pc \notin {"find", "gc", "refind"} => request = NoRequest

BlocksOpen ==
  \A d \in Die : pc # "initBlockMap" /\ (pc = "initCurrentBlock" => d < initAt[1]) =>
    currentBlock[d] \in Good[d] /\ ~free[d][currentBlock[d]]

Booting ==
  /\ pc \in {"initBlockMap", "initCurrentBlock"} =>
       /\ \A d \in Die, b \in Block : currentPage[d][b] = 0 /\ invalidSliceCnt[d][b] = 0
       /\ \A l \in LSA : logicalSliceMap[l] = NONE
  /\ pc = "initBlockMap" => \A d \in Die, b \in Block : free[d][b] =>
       d < initAt[1] \/ (d = initAt[1] /\ b < initAt[2])

MappingInv ==
  /\ TypeOK
  /\ BlocksOnTheirLists
  /\ LiveDataMapped
  /\ InvalidSlicesCounted
  /\ PagesErased
  /\ VictimInProgress
  /\ WriteInProgress
  /\ BlocksOpen
  /\ Booting

\* The inductive invariant.
IInv == ~curErased => MappingInv

\* The asserts of FindFreeVirtualSlice and FindFreeVirtualSliceForGc.
CurrentPageManagementFail ==
  \/ pc \in {"find", "refind"} /\ OpenPage(Target) > P
  \/ pc = "gc" /\ pageNo < P /\ VictimPageValid /\ ~GcNeedsBlock /\ OpenPage(Target) > P

NoAvailableBlock ==
  \/ pc = "refind" /\ OpenPage(Target) = P /\ ~HasFreeBlockNormal(Target)
  \/ pc = "gc" /\ pageNo < P /\ VictimPageValid /\ GcNeedsBlock /\ ~HasFreeBlockGc(Target)

\* The assert of GetFromGcVictimList.
NoFreeBlocks ==
  /\ pc = "find" /\ OpenPage(Target) = P
  /\ ~HasFreeBlockNormal(Target) /\ VictimCounts(Target) = {}

\* One reserved block per die is enough: whatever is collected, the copies
\* find room, and the write that waited for the collection finds room too.
ReserveSuffices == ~curErased => ~CurrentPageManagementFail /\ ~NoAvailableBlock

\* While the lowest layer is idle every die has its reserved block back.
ReserveRestored ==
  ~curErased /\ pc \in {"idle", "find", "refind"} =>
    \A d \in Die : freeBlockCnt[d] >= RESERVED_FREE_BLOCK_COUNT

\* "[WARNING] There are no free blocks. Abort terminate this ssd. [WARNING]":
\* the collector is only started when some block has an invalid slice.
AlwaysAVictim == ~NoFreeBlocks

\* "[WARNING] Current page management fail [WARNING]": the page counter of
\* the open block never passes the end of the block.
CurrentPageInBlock == ~CurrentPageManagementFail

\* A programmed page is not programmed again before its block is erased, and
\* the pages of a block are programmed in order.
ProgramOncePerErase ==
  [][~curErased =>
       \A v \in VSA : flash'[v] # flash[v] /\ flash'[v] # NONE =>
         /\ flash[v] = NONE
         /\ \A p \in 0..(v[3] - 1) : flash[<<v[1], v[2], p>>] # NONE]_vars

\* Live data survives every collection: seen through the mapping, the flash is
\* the array of slices of SliceStore, the write in progress counting as done;
\* while one write is translated no slice changes.
StoreView ==
  [l \in LSA |->
     IF request.lsa = l THEN request.data
     ELSE IF AddrTransRead(l) = NONE THEN NONE ELSE flash[AddrTransRead(l)]]

Store == INSTANCE SliceStore WITH store <- StoreView
ImplementsSliceStore == Store!Spec

\* A write that starts is translated: collection ends and room is found.
WriteCompletes == pc = "find" ~> pc = "idle"

=============================================================================
