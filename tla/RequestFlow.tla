---------------------------- MODULE RequestFlow ----------------------------
(***************************************************************************)
(* The thread that makes low-level requests: the caller of RequestDep.  A  *)
(* host command is cut into slice requests; each takes a buffer entry,     *)
(* which may have to be written back (and that write may start a           *)
(* collection, with reads, writes and an erase of its own) and filled from *)
(* flash, and then becomes a DMA request.                                  *)
(*                                                                         *)
(* The thread runs the scheduler in three places: when it wants a slot and *)
(* none is free, when it selects a read of a block whose erase waits, and  *)
(* when the main loop has no command for it.  Slices, contents and maps    *)
(* are those of AddressTranslation; here a slice may hit any entry, be on  *)
(* any page given out, and a victim have any of its pages live.            *)
(***************************************************************************)
EXTENDS RequestDep

CONSTANT MaxSlices    \* slices of a command

\* Whatever the pool: mdts 10 announces up to 512 slices to the host, and there
\* are 256 slots.
ASSUME CommandSize == MaxSlices \in Nat \ {0}

\* The pool has 128 slots for each of at most two channels, and a block has 128
\* pages (SLC mode).
ASSUME PoolFits == Cardinality(Slot) <= 2 * P

RESERVED_FREE_BLOCK_COUNT == 1

VARIABLES
  pc,              \* where the thread is
  left,            \* slices of the command still without a slot
  sliceReqQ,
  slice, entry,    \* the slice request in hand and its buffer entry
  evicting,        \* the slot of the write-back in hand
  then,            \* where the thread goes after selecting
  victim, live,    \* the collection: its block, the pages still to copy
  dirty,           \* of each entry of the data buffer
  currentBlock, freeList, target

sliceVars == <<left, sliceReqQ, slice, entry, evicting>>
gcVars == <<victim, live>>
blockVars == <<currentBlock, freeList, target>>
flowVars == <<pc, then, sliceVars, gcVars, dirty, blockVars>>
vars == <<depVars, flowVars>>

Init ==
  /\ DepInit
  /\ pc = "idle" /\ then = "idle"
  /\ left = 0
  /\ sliceReqQ = <<>>
  /\ slice = NONE /\ entry = NONE
  /\ evicting = NONE
  /\ victim = NONE
  /\ live = {}
  /\ dirty = [e \in Buf |-> FALSE]
  /\ currentBlock = [d \in Die |-> 0]
  /\ freeList = [d \in Die |-> [i \in 1..(B - 1) |-> i]]
  /\ target = 0

\* GetFromFreeReqQ, a slot being free.
GetFromFreeReqQ(s) ==
  /\ Running
  /\ s \in freeReqQ
  /\ freeReqQ' = freeReqQ \ {s}

\* Request r in slot s, to be selected next, after which the thread is at p.
Ask(s, r, p) ==
  /\ MakeRequest(s, r)
  /\ currentPage' = PagesAfter(r)
  /\ pc' = "select" /\ then' = p

\* The thread at p, nothing having been asked of the lower layer.
GoTo(p) ==
  /\ pc' = p
  /\ UNCHANGED <<tables, lowQueues, counters, dieState, pass, caller, then>>

-----------------------------------------------------------------------------
\* ReqTransNvmeToSlice, then ReqTransSliceToLowLevel.

TakeCommand(n) ==
  /\ pc = "idle" /\ Running
  /\ left' = n
  /\ GoTo("slices")
  /\ UNCHANGED <<freeReqQ, sliceReqQ, slice, entry, evicting, gcVars, dirty, blockVars>>

PutToSliceReqQ(s) ==
  /\ pc = "slices"
  /\ GetFromFreeReqQ(s)
  /\ sliceReqQ' = Append(sliceReqQ, s)
  /\ left' = left - 1
  /\ GoTo(IF left = 1 THEN "translate" ELSE pc)
  /\ UNCHANGED <<slice, entry, evicting, gcVars, dirty, blockVars>>

\* A slice request and its entry: found by CheckDataBufHit, or taken by
\* AllocateDataBuf, in which case a dirty entry is written back.
GetFromSliceReqQ(e, hit) ==
  /\ pc = "translate" /\ Running
  /\ sliceReqQ # <<>>
  /\ slice' = Head(sliceReqQ)
  /\ sliceReqQ' = Tail(sliceReqQ)
  /\ entry' = e
  /\ GoTo(IF hit THEN "dma" ELSE IF dirty[e] THEN "evict" ELSE "fetch")
  /\ UNCHANGED <<freeReqQ, left, evicting, gcVars, dirty, blockVars>>

SliceReqQEmpty ==
  /\ pc = "translate" /\ Running
  /\ sliceReqQ = <<>>
  /\ GoTo("idle")
  /\ UNCHANGED <<freeReqQ, sliceVars, gcVars, dirty, blockVars>>

\* DataReadFromNand, for a read or for part of a slice: from any page given
\* out.  Not needed for a whole slice or one that was never written.
DataReadFromNand(s, d, b, p) ==
  /\ pc = "fetch"
  /\ p < currentPage[d][b]
  /\ GetFromFreeReqQ(s)
  /\ Ask(s, NandReq("READ", d, b, p, entry), "dma")
  /\ UNCHANGED <<sliceVars, gcVars, dirty, blockVars>>

NothingToRead ==
  /\ pc = "fetch" /\ Running
  /\ GoTo("dma")
  /\ UNCHANGED <<freeReqQ, sliceVars, gcVars, dirty, blockVars>>

\* The slice request becomes a DMA request of its entry.
SliceToDma(write) ==
  /\ pc = "dma" /\ Running
  /\ dirty' = [dirty EXCEPT ![entry] = @ \/ write]
  /\ Ask(slice, DmaReq(entry), "translate")
  /\ slice' = NONE /\ entry' = NONE
  /\ UNCHANGED <<freeReqQ, left, sliceReqQ, evicting, gcVars, blockVars>>

Selected ==
  /\ Select
  /\ pc' = then
  /\ UNCHANGED <<then, sliceVars, gcVars, dirty, blockVars>>

-----------------------------------------------------------------------------
\* EvictDataBufEntry.

EvictDataBufEntry(s) ==
  /\ pc = "evict"
  /\ GetFromFreeReqQ(s)
  /\ evicting' = s
  /\ GoTo("find")
  /\ UNCHANGED <<left, sliceReqQ, slice, entry, gcVars, dirty, blockVars>>

\* Mutant: one page more than the block has.
MutOnePageMore(d) == currentPage[d][currentBlock[d]] <= P

HasRoom(d) == currentPage[d][currentBlock[d]] < P

\* The write-back to block b: the end of FindFreeVirtualSlice and the rest of
\* EvictDataBufEntry.  The entry is clean from here on.
WriteBack(b) ==
  /\ Ask(evicting, NandReq("WRITE", target, b, currentPage[target][b], entry), "fetch")
  /\ currentBlock' = [currentBlock EXCEPT ![target] = b]
  /\ target' = (target + 1) % D
  /\ dirty' = [dirty EXCEPT ![entry] = FALSE]
  /\ evicting' = NONE
  /\ UNCHANGED <<freeReqQ, left, sliceReqQ, slice, entry, gcVars>>

\* FindFreeVirtualSlice, before a collection ("find") and after ("refind").
WriteBackToCurrentBlock ==
  /\ pc \in {"find", "refind"} /\ Running
  /\ HasRoom(target)
  /\ WriteBack(currentBlock[target])
  /\ UNCHANGED freeList

WriteBackToFreeBlock ==
  /\ pc \in {"find", "refind"} /\ Running
  /\ ~HasRoom(target)
  /\ Len(freeList[target]) > RESERVED_FREE_BLOCK_COUNT
  /\ WriteBack(Head(freeList[target]))
  /\ freeList' = [freeList EXCEPT ![target] = Tail(@)]

-----------------------------------------------------------------------------
\* GarbageCollection.

\* A victim has a page that is not live; if it is the open block, one that is
\* (AddressTranslation has the other case).
GarbageCollection(b, pages) ==
  /\ pc = "find" /\ Running
  /\ ~HasRoom(target)
  /\ Len(freeList[target]) <= RESERVED_FREE_BLOCK_COUNT
  /\ currentPage[target][b] = P
  /\ b = currentBlock[target] => pages # {}
  /\ victim' = b
  /\ live' = pages
  /\ GoTo("gc")
  /\ UNCHANGED <<freeReqQ, sliceVars, dirty, blockVars>>

GcRead(s, p) ==
  /\ pc = "gc"
  /\ p \in live /\ \A q \in live : p <= q
  /\ GetFromFreeReqQ(s)
  /\ Ask(s, NandReq("READ", target, victim, p, <<"temp", target>>), "gcWrite")
  /\ live' = live \ {p}
  /\ UNCHANGED <<sliceVars, victim, dirty, blockVars>>

\* Mutant: the open block is left only if it is the victim.
MutOnlyIfVictim == victim = currentBlock[target]

GcNeedsBlock == victim = currentBlock[target] \/ ~HasRoom(target)

\* The copy, to the page FindFreeVirtualSliceForGc gives.
GcWrite(s) ==
  LET b == IF GcNeedsBlock THEN Head(freeList[target]) ELSE currentBlock[target]
  IN  /\ pc = "gcWrite"
      /\ GcNeedsBlock => freeList[target] # <<>>
      /\ GetFromFreeReqQ(s)
      /\ Ask(s, NandReq("WRITE", target, b, currentPage[target][b], <<"temp", target>>), "gc")
      /\ currentBlock' = [currentBlock EXCEPT ![target] = b]
      /\ freeList' = [freeList EXCEPT ![target] = IF GcNeedsBlock THEN Tail(@) ELSE @]
      /\ UNCHANGED <<sliceVars, gcVars, dirty, target>>

\* EraseBlock: the request carries programmedPageCnt in the place of a page.
EraseBlock(s) ==
  /\ pc = "gc"
  /\ live = {}
  /\ GetFromFreeReqQ(s)
  /\ Ask(s, NandReq("ERASE", target, victim, currentPage[target][victim], NONE), "refind")
  /\ freeList' = [freeList EXCEPT ![target] = Append(@, victim)]
  /\ victim' = NONE
  /\ UNCHANGED <<sliceVars, live, dirty, currentBlock, target>>

-----------------------------------------------------------------------------
\* The places from which the scheduler is run: SyncAvailFreeReq,
\* SyncReleaseEraseReq, and the main loop.

WantsSlot == pc \in {"slices", "evict", "fetch", "gc", "gcWrite"}
Waiting ==
  \/ WantsSlot /\ freeReqQ = {}
  \/ pc = "select" /\ MustSyncErase(slot)

LowLevelWork == nvmeDmaReqQ # <<>> \/ notCompletedNandReqCnt > 0 \/ blockedReqCnt > 0

RunScheduler ==
  /\ Waiting \/ (pc = "idle" /\ LowLevelWork)
  /\ StartPass
  /\ UNCHANGED flowVars

Pass ==
  /\ PassStep
  /\ UNCHANGED flowVars

NewRequest(s) ==
  \/ PutToSliceReqQ(s)
  \/ \E d \in Die, b \in Block, p \in 0..(P - 1) : DataReadFromNand(s, d, b, p)
  \/ EvictDataBufEntry(s)
  \/ \E p \in live : GcRead(s, p)
  \/ GcWrite(s)
  \/ EraseBlock(s)

Translate ==
  \/ \E e \in Buf, hit \in BOOLEAN : GetFromSliceReqQ(e, hit)
  \/ SliceReqQEmpty
  \/ NothingToRead
  \/ \E write \in BOOLEAN : SliceToDma(write)
  \/ Selected
  \/ WriteBackToCurrentBlock
  \/ WriteBackToFreeBlock
  \/ \E b \in Block, pages \in SUBSET (0..(P - 1)) \ {0..(P - 1)} : GarbageCollection(b, pages)

FlowThread == (\E s \in Slot : NewRequest(s)) \/ Translate \/ RunScheduler \/ Pass
Next == FlowThread \/ \E n \in 1..MaxSlices : TakeCommand(n)

Spec == Init /\ [][Next]_vars

\* The thread goes on; dies are done, and controllers free, in the end.  The
\* host may stop.
FairSpec ==
  /\ Spec
  /\ WF_vars(FlowThread)
  /\ \A d \in Die : SF_vars(Pass /\ FinishNandReq(d)) /\ SF_vars(Pass /\ IssueNandReq(d))
-----------------------------------------------------------------------------
\* Properties.

PcValues == {"idle", "slices", "translate", "evict", "find", "refind", "gc", "gcWrite",
             "fetch", "dma", "select"}

TypeOK ==
  /\ DepTypeOK
  /\ pc \in PcValues /\ then \in PcValues
  /\ left \in 0..MaxSlices
  /\ sliceReqQ \in Seq(Slot)
  /\ slice \in SlotOrNone /\ evicting \in SlotOrNone
  /\ entry \in Buf \cup {NONE}
  /\ victim \in Block \cup {NONE} /\ live \in SUBSET (0..(P - 1))
  /\ dirty \in [Buf -> BOOLEAN]
  /\ currentBlock \in [Die -> Block]
  /\ freeList \in [Die -> Seq(Block)]
  /\ target \in Die

\* Slots taken from the free queue for which nothing has been asked yet.
Held == ToSet(sliceReqQ) \cup ({slice, evicting} \ {NONE})

\* The thread is a caller of RequestDep that keeps to its rules: it never asks
\* for a page before it is given out, erases no block twice over and does not
\* write one anew while a write of its former life waits; whatever waits, and
\* however often it runs the scheduler half way through a command.  All that
\* holds of RequestDep holds of the firmware's own requests.
Dep == INSTANCE RequestDep WITH freeReqQ <- freeReqQ \cup Held
KeepsTheRules == Dep!DepSpec

\* When the thread waits for a slot or for an erase something can run, unless
\* it holds every slot there is itself: then, and only then,
\* SyncAvailFreeReq or SyncReleaseEraseReq turns for ever.
HoldsAll == Held = Slot
SpinsOnlyAlone == Waiting /\ Running => (SomethingCanRun <=> ~HoldsAll)

\* The main loop gets its thread back after every command, unless the command
\* takes every slot and waits for one more.
CommandEnds == pc # "idle" ~> pc = "idle" \/ (Waiting /\ HoldsAll)
=============================================================================
