# Verification of the SSD firmware

TLA+ models of the flash translation layer and of the NVMe front end in `src/`,
checked with TLC and, where the claim is about every size of the device, proved
with TLAPS.  The firmware is one thread on a bare core: concurrency is between
that thread, the NAND channels, the DMA engines and the host, and inside the
thread between functions that call the scheduler while they wait.

## The system

| Part | State | Operations | Hard behaviour |
|---|---|---|---|
| Address translation (`address_translation.c`) | `logicalSliceMap`, `virtualSliceMap`, block entries, free list and open block of each die | `AddrTransRead`, `AddrTransWrite`, `FindFreeVirtualSlice`, `EraseBlock`, the free list | two maps updated one side at a time; one pair of links per block for all lists; a reserved block for the collector |
| Garbage collection (`garbage_collection.c`) | `gcVictimList[die][n]` | `GarbageCollection`, put, get, unlink | runs inside a write; the victim may be the open block; can find no victim |
| Bad blocks (`address_translation.c`) | `phyBlockMap`, the table in flash | find, save, recover, remap | spare blocks run out; table missing on some dies |
| Request pool and queues (`request_allocation.c`) | `reqPool`, free, slice, NVMe-DMA, NAND and two blocked queues, counters | put, get, selective get | slots reused; pool empty |
| Dependencies (`request_transform.c`) | `prevBlockingReq`/`nextBlockingReq`, `blockingReqTail`, `rowAddrDependencyTable` | `SelectLowLevelReqQ`, `ReleaseBlockedBy...`, `CheckRowAddrDep` | order of programs, reads and erases of a block across its generations; scheduler re-entered from a check |
| NAND scheduler (`request_schedule.c`) | way lists, `dieState`, `reqStatusCheckOpt` | `SchedulingNandReq`, `ExecuteNandReq`, `CheckReqStatus`, `Sync...` | status polling, failures, retries |
| Data buffer (`data_buffer.c`) | LRU list, hash lists, `dirty` | hit, allocate, evict | an entry reused while requests still use it |
| Slice transformation (`request_transform.c`) | slice queue | `ReqTransNvmeToSlice`, `ReqTransSliceToLowLevel` | first, middle, last slice; PRP lists; completion on the last slice |
| NVMe controller (`main.c`, `nvme/`) | controller state, ring pointers, queue attributes | enable, run, reset, shutdown, admin and I/O commands | reset with requests outstanding, full rings, starvation of the low level |
| Drivers (`nsc_driver.c`, `host_lld.c`, `reg_rw.c`, `mem_rw.c`) | none of their own | register access | - |

A host command becomes slice requests (one per 8 KB slice).  A slice request
gets a data-buffer entry; a miss may evict a dirty entry, which calls
`AddrTransWrite` and so perhaps the collector, and may fetch the slice from
flash.  All of these are low-level requests that enter a queue at once or wait
for a buffer or a block row.  The scheduler moves them through the dies, and
each completion releases what waited for it.

Runs are `tlc -config X.cfg M` and proofs `tlapm M.tla`; `PROJECT.json` lists both,
with the source lines of every definition, the mutants that break each property,
and the hazards the properties are aimed at.

## What makes each part correct

* Mapping: the lists hold exactly the blocks their names say; the maps agree on
  live data; the invalid count of a block is exact; a page is programmed once
  per erase; content survives collection; the reserve is enough; a write ends.
* Requests: a slot is in one queue, counters agree with queues, chains are the
  order of arrival at a buffer; programs of a block run in page order, a read
  sees the generation it was issued against, an erase follows its reads;
  everything issued completes.
* Buffer: LRU and hash lists agree; a reused entry's old content reaches flash
  before the new one overwrites it.
* Slices: a command is covered exactly once; it has one completion, posted when the
  DMA of its last slice is issued (`request_transform.c:972`), which need not be the
  last thing that happens for it.
* Boot: the table of a die survives every boot and every loss of the power; no bad
  block is handed out.
* Controller: each change of CC is answered; queue tables and registers agree; every
  command of a supported kind is completed once.

## Modules

| Module | Models | Status |
|---|---|---|
| `IntrusiveList` | put, get, unlink on lists linked through the elements | done |
| `AddressTranslation` | mapping, free and victim lists, open blocks, collector | done |
| `SliceStore` | the array of slices the mapping promises | done |
| `AddressTranslation_proofs` | theorems below | done |
| `RequestDep` | request pool, low-level queues, buffer chains, row-address table, scheduler passes; the caller is any that keeps to the rules | done |
| `RequestDep_proofs` | theorems below | done |
| `RequestFlow` | the caller there is: slices, evictions, fetches, collections, and the three places that run the scheduler; EXTENDS `RequestDep` and implements its specification | done |
| `RequestFlow_proofs` | theorems below | done |
| `DataBuffer` | the directory of the data buffer: LRU and hash lists | done |
| `NvmeSlice` | a command taken apart: pages of PRP lists, slices, pieces of a slice, completion entry | done |
| `BlockDevice` | the data path from a command to the flash; EXTENDS `DataBuffer` and `NvmeSlice` | done |
| `NvmeSlice_proofs`, `BlockDevice_proofs` | theorems below | done |
| `WaySched` | the NAND scheduler of one way to a channel: way lists, status poll, failures | done |
| `BadBlock` | the boot: bad-block tables read, found, saved, remapped; EXTENDS `WaySched` | done |
| `BadBlock_proofs` | theorems below | done |
| `NvmeController` | states of the controller, turns of the main loop, queues, interrupts, rings, completions | done |
| `NvmeController_proofs` | theorems below | done |
| `Main` | the program: boot, then main loop, until the power fails; EXTENDS `BadBlock` and `NvmeController` | done |
| `Main_proofs` | theorems below | done |
| `NandAddress` | the row of the chip a virtual slice lies on; EXTENDS `AddressTranslation` | done |
| `MCAddressTranslation`, `MCRequestDep`, `MCRequestFlow`, `MCBlockDevice`, `MCMain`, `MCNandAddress` | definitions for the runs | done |

How they fit together.  Four compositions stand beside each other, each over the
promises of the next lower one, so that no run has to carry all of the firmware:

* `RequestFlow` implements `RequestDep` (proved), so what `RequestDep`
  promises of the order of requests holds for the firmware's own.
* `AddressTranslation` implements `SliceStore`: an array of slices.  This is a claim
  about virtual pages; how those lie on the rows of a chip is `NandAddress`, where
  finding 3 shows that two of them can share a row.
* `BlockDevice` takes both as given: requests run in the order `RequestDep.OrderKept`
  promises, pages behave as `SliceStore` says, and the history `disk` in it is the
  array of blocks the host believes it talks to.
* `Main` takes from `RequestFlow` that a command in progress ends (`CommandEnds`, so it
  is about hosts whose commands do not take every slot of the pool), and for the rest
  runs boot, scheduler and controller as they are.

Every invariant and every action property that a passing run checks is also proved, and
so are the two refinements; the liveness properties are model-checked only.

## AddressTranslation

State.  Each variable is the field of the same name: `links` is
`prevBlock`/`nextBlock`, `freeList` is `headFreeBlock`/`tailFreeBlock`,
`gcVictimList[d][n]` the head and tail of the list for `n` invalid slices.  The
lists are the real ones, with shared links, not sets: what the links could get
wrong is one of the questions.  A virtual slice address is the triple
(die, block, page); `Vorg2Vsa` keeps the overflow of the real formula, in which
page `P` of a block is page 0 of the next.  `flash` stands for what the pages
hold when the requests handed down have run, in the order given (the promise of
the dependency tables), one place for each virtual page: all that is said here of
contents and of programs (`ImplementsSliceStore`, `ProgramOncePerErase` and their
proofs) is said of virtual pages.  Beneath them the mapping of pages to rows is
broken (finding 3), so neither claim reaches the cells of a chip.  `Good` is the set of blocks the bad-block code has left
usable; note that a 1 in the `bad` bit means good.

Actions.  `InitBlockMap` and `InitCurrentBlockOfDieMap` are the turns of the boot
loops.  `AddrTransWrite` invalidates the old page; `WriteToCurrentBlock` and
`WriteToFreeBlock` are the outcomes of `FindFreeVirtualSlice` without collection
(`pc = "find"`) and after one (`pc = "refind"`).  `GcStart`, `GcSkipPage`,
`GcCopyPage`, `EraseBlock` are the collector, one page per step, since the lower
layer may run between two copies.

Asserts.  Where the code asserts, the action that would follow is disabled and a
predicate (`CurrentPageManagementFail`, `NoAvailableBlock`, `NoFreeBlocks`)
names the state.  Passing runs check deadlock where the firmware must not stop.

The open block.  When all pages of the open block are invalid the collector may
choose it, and `EraseBlock` then frees it while it stays open (finding 1 below).
From there on most invariants are lost.  So that they can still be checked and
proved, the history variable `curErased` records that event; the properties are
implications from `~curErased`, and the passing runs stop exploring at it
(`CONSTRAINT NoOpenBlockErased`; the state in which it has just happened is
still generated and checked).

### Runs

| Run | Instance | Shows |
|---|---|---|
| `translation_lists` | 1 die, 4 blocks, 2 pages, 6 slices | `TypeOK`, `IInv`, `ListsMatchBlocks`, `MapsAgree`, `InvalidCountExact`, `ReserveSuffices`, no deadlock |
| `translation_data` | 1 die, 4 blocks one bad, 2 pages, 3 slices, 2 contents | `AlwaysAVictim`, `ProgramOncePerErase`, `ImplementsSliceStore`, `WriteCompletes`, no deadlock |
| `translation_dies` | 2 dies, 3 blocks, 2 pages, 3 slices | `ReserveRestored`, no deadlock |
| `translation_imbalance` | the same with 5 slices | finding 2 |
| `translation_open_victim` | 1 die, 3 blocks, 3 slices | finding 1 |

Bounds.  A list needs three elements for its four cases of unlinking, so a die
has four blocks where lists are the question.  Two pages give the counts 0, 1
and `P`, of which 1 alone makes the collector copy.  Six slices fill a die of
four blocks but for the reserved one, so the free list runs down to the reserve
and collections copy one page or none.  Two dies are the configuration of the
board.  The next-state relation has no counters without a bound: `currentPage`
stops at `P`.  Slices are symmetric in the runs without liveness.

In the board's configuration the namespace announces 0x200 blocks
(`nvme_admin_cmds.c:266`), which fit in the data buffer, so a host that stays
within it never evicts.  The capacity computed in `ftl_config.c:68` is far
larger; the runs take the mapping as it must work for that.

Fairness.  `WriteCompletes` assumes weak fairness of `Next` while a write is in
progress: the thread runs.  The host need never write.

### Findings

1. `GarbageCollection` erases a fully invalid victim without asking whether it is
   the open block (`garbage_collection.c:78`, `:130`); the test
   `victimBlockNo == currentBlock` is only on the copying path
   (`address_translation.c:701`).  The block is then free and open at once, is
   handed out again while it is being filled, and its page counter passes the
   end of the block: the assert at `address_translation.c:681` and `:685`.
2. The dies are written in turn (`address_translation.c:729`), whatever they
   hold.  Two dies of four writable pages each stop in the assert of
   `garbage_collection.c:179` with five live slices.

### Proofs

`MappingInductive` proves `Spec => []IInv` for all constants that satisfy the
assumptions: `SizesAssumption` (positive sizes), `NoneAssumption` (NONE is no
block, slice, content or address) and `GoodAssumption` (each die has more good
blocks than the reserve, what `InitCurrentBlockOfDieMap` asserts).  From it
follow `ListsAlwaysMatchBlocks`, `MapsAlwaysAgree`, `InvalidCountAlwaysExact`,
`TypesAlwaysCorrect`, and `MappingImplementsStore`: the mapping implements
`SliceStore` in the behaviours in which no open block is erased.

The three properties are not inductive alone.  A block moves between lists by
its links, so list membership must be tied to `free` and `invalidSliceCnt`
(`BlocksOnTheirLists`); those counts must be exact so that a victim with count
`P` holds nothing live; exact counts need that unprogrammed pages belong to no
slice (`PagesErased`), that the pages of the victim already passed hold nothing
live (`VictimInProgress`), that the slice being written is unmapped
(`WriteInProgress`) and that open blocks are not free (`BlocksOpen`); `Booting`
carries them from power-on.  A list is the existence of a sequence without
repetition that the links follow (`IsList`); the lemmas the module begins with
(`PutTailIsList`, `GetHeadIsList`, `UnlinkIsList`) say what each operation does to it, and
that it leaves disjoint lists alone.

The second part of the module counts.  `ReserveAlwaysSuffices` and
`ReserveAlwaysRestored` stand on `ReserveInductive`: a die that does not collect holds
its reserve of free blocks (`ReserveHeld`), and a collection never copies more pages than
the open block and the reserve have left, since the victim has one invalid page at least
and the pages it has passed are those already copied (`CopiesFit`,
`RoomAfterCollection`).  Both hold as long as no open block was chosen as victim.

`AlwaysProgramsErasedPages` stands on `FlashInductive`: the pages of a block that hold
something are those below its `currentPage`, and none of a free block, so that the next
page of an open block is erased.  It is the promise under `SliceStore`: the content of a
slice is never lost under another.  Both it and `MappingImplementsStore` are about virtual
pages; on the rows of a chip finding 3 breaks them.

`CollectorFindsAVictim` is `AlwaysAVictim` under a hypothesis on the constants,
`HostFitsInADie`: there are at most as many slices as the good blocks of each die less the
reserve have pages.  `BlocksFullInductive` gives the argument: a block that is neither free
nor open is full, so when a collection starts, the blocks outside the reserve have all their
pages given out; were none of those invalid, each would hold a slice of its own
(`FS_PigeonHole`).  The hypothesis is not what the firmware guarantees, and finding 2 is that
it does not: slices of the host go to the dies in turn, whatever those hold.  It is sharp:
the run of that finding breaks `AlwaysAVictim` with five slices where four fit.

Only model-checked: the liveness property `WriteCompletes`, which is out of the prover's
reach.

## RequestDep

State.  `req[s]` is what the slot asks for, reduced to what the dependencies see:
a code (`DMA` stands for RxDMA and TxDMA), a NAND address and a buffer entry; an
erase carries `programmedPageCnt` in the place of its page.  `prevBlockingReq`,
`nextBlockingReq`, `blockingReqTail`, `rowAddrDependencyTable`, the queues and the
two counters have the source's names.  Queues are sequences where their order
matters and sets where it does not: a free slot carries no information, and slots
leave `blockedByBufDepReqQ` by name.  `freeReqQ` as a set is weaker than the code's
FIFO (any free slot may be reused at once), so stale links show sooner.
`currentPage` is the caller's knowledge of the pages it has given out, and
`waitsFor` a history variable: at the time a request is made, the requests not yet
done that conflict with it.

Actions.  `Request` takes a slot and links it behind the last user of its entry;
`Select` is `SelectLowLevelReqQ`.  When the row's erase waits, a read must first run
passes until it is released (`SyncReleaseEraseReq`); the slot is in `slot` then, on
a chain but on no queue, and may lose its predecessor meanwhile, which is the case
`ROW_ADDR_DEPENDENCY_TABLE_UPDATE_REPORT_SYNC` of the code.  A pass is the walk over
the DMA queue, one transfer per step, and then for each die: its status, the walk
over the requests waiting for a row, one per step, and the issue of one request.
`Complete` is the whole chain of calls from `PutToFreeReqQ` to
`ReleaseBlockedByBufDepReq`, with the release of the next user.  Every transfer
is taken for done when it is looked at (`rxDone = 1`, `request_transform.c:997`), and
dies report success or are not done yet.  A die is a channel: `USER_WAYS` is 1.

The caller.  `Legal` says what the layer above promises: it reads pages given out,
writes the next page of a block, erases a full block; and it never has more than
one life of a block waiting, that is, it does not write a page while that page's
write of the former life waits, nor erase a block while its last erase does.
The row table counts pages and cannot tell two lives apart, so without the last rule
a write could pass in the place of an older one.  The code does not check it; the size
of the pool gives it.  If a write of the former life waits when its page is given out
again, then the later writes of that life, the erase, and the writes of the new life so
far wait too: `P` writes and an erase.  Behind each of these writes its buffer has
another user that waits: the transfer of the slice the entry was evicted for, or the
next read of the collection.  That is 2 * 128 + 1 slots (`ftl_config.h:49`), and the pool
has `USER_DIES * 128` (`request_allocation.h:53`) with two dies.  `RequestFlow_proofs` makes
this argument a proof.

Properties.  `SlotsAccountedFor`: a slot is in exactly one place.
`ChainsMatchBuffers`: the chain of an entry holds exactly its outstanding users.
`RowTableExact`: count, flag and `permittedProgPage` say exactly what waits.
`OrderKept`: nothing is queued before a conflicting earlier request has been done
or is ahead of it on the same die.  `NeverStuck`: while something waits, something can
run, so neither synchronous loop turns for ever while a request waits.  `DepInv`: types, a busy die has a
request, and the two walks, which read the next link before the current slot moves
to another queue, stay inside theirs.

Fairness of `AllDone`.  The thread goes on: the main loop runs the low level in every
turn that took no I/O command (`main.c:265`), and commands take slots, so in
the end the thread waits for one and runs passes.  A die that is polled again and
again is done in the end, and its controller free in the end (strong fairness of
`FinishNandReq` and `IssueNandReq`): a failing status, which is polled for ever, is
excluded.  The caller may stop.  One condition is part of the property: requests that
wait for a row are looked at only when the die's NAND queue is empty
(`request_schedule.c:157`, `:195`), so a stream of requests that always keeps the queue
filled starves them; `AllDone` promises an end if the caller stops or every die's queue
runs empty again and again.

## RequestFlow

The thread with its program counter: `pc` is the function it is in, `then` where it
returns after `SelectLowLevelReqQ`.  A command takes a slot per slice
(`PutToSliceReqQ`), then each slice takes a buffer entry, hit or allocated
(`GetFromSliceReqQ`); a dirty one is written back (`EvictDataBufEntry`, `WriteBack...`),
which may start a collection (`GarbageCollection`, `GcRead`, `GcWrite`, `EraseBlock`);
the slice is fetched if need be (`DataReadFromNand`) and becomes a DMA request
(`SliceToDma`).  Which slice is where is `AddressTranslation`'s business: here a slice
may hit any entry and be on any page given out, and a victim may have any of its
pages live.  That is more than the mapping allows, so what holds here holds
there, with one exception that is excluded as there: an open block without a live
page is not chosen as a victim (finding 1).  `GetFromFreeReqQ`
waits, and `RunScheduler` runs passes, when no slot is free.

`KeepsTheRules` is the refinement: under the mapping that counts slots on the slice
queue or in the thread's hand as free, every step is a step of `RequestDep` or none.

Commands larger than the pool.  Nothing relates the slices of a command to the slots:
`MaxSlices` is any number (`CommandSize`), and the announced transfer size (`mdts` 10,
`nvme_admin_cmds.c:362`) is 1024 blocks, 512 slices, where the pool has 256 slots.  The
handlers do not look at the length (`nvme_io_cmds.c:22`).  A command whose slices take
every slot makes the thread wait in `SyncAvailFreeReq` for one more while all are
in the slice queue or in its hand, where nothing completes: it never returns.  The
properties say so: `SpinsOnlyAlone` that the thread waits for nothing exactly if it holds
every slot (`HoldsAll`), `CommandEnds` that a command ends or comes to that.  A command of
two slices fewer than there are slots never does (`FittingCommandsNeverSpin`).  On the board the
whole namespace is 0x200 blocks, 256 slices (`nvme_admin_cmds.c:266`), and fits in the
data buffer: a command for all of it takes all the slots, and needs no more since nothing
is evicted or fetched.

Assumption `PoolFits`: the pool has at most twice as many slots as a block has pages:
`USER_DIES * 128` (`request_allocation.h:53`) with one way to each of two channels at most,
and 128 pages in a block (`ftl_config.h:49`).  With a larger pool a block could have two
lives of writes waiting, and `Legal` would not hold.

### Runs of both

| Run | Instance | Shows |
|---|---|---|
| `request_order` | any legal caller; 1 die, 1 block, 2 pages, 5 slots, 2 buffer entries and the temporary one | `DepInv`, `SlotsAccountedFor`, `ChainsMatchBuffers`, `RowTableExact`, `OrderKept`, `NeverStuck`, no deadlock |
| `request_done` | any legal caller; 1 die, 1 block, 1 page, 4 slots, 1 entry | `AllDone` |
| `request_flow` | the firmware; 2 dies, 3 blocks, 2 pages, 3 slots, 1 entry, commands of up to 3 slices | `TypeOK`, `SpinsOnlyAlone`, `OrderKept`, `KeepsTheRules`, no deadlock |
| `request_commands` | the firmware; 1 die, commands of up to 4 slices, otherwise the same | `CommandEnds` |

Bounds.  What the table must get right happens inside one block, what the chains must
get right inside one entry: the row table is per block, the chain per entry, and
requests meet only there and in the queues.  Two pages give a write that waits for
another, and a read of either side of `permittedProgPage`.  Five slots are a write of
each page, an erase, a read of the next life that runs passes in
`SyncReleaseEraseReq`, and one in front of them all.  In this
instance a waiting erase, a read in hand whose predecessor finishes during the wait,
and requests of two lives of the block waiting at once all occur.  In the firmware's
runs a command of one slice is the largest that always fits, and nearly every slot must
be waited for; one of two has no slot left for a collection while its first slice is in
hand; one of three takes every slot and goes through only if it needs no other;
one of four stops before its last slice.  Three blocks are needed for a collection of a
block that is not the open one.  Two dies make the
collector's and the host's requests wait for each other across dies.  Nothing counts without a
bound: slots are finite and pages stop at `P`.

Fairness of `CommandEnds`: as for `AllDone`, with the thread's own steps.

### Proofs

The first six are of `DepSpec`, for every number of dies, blocks, pages, entries and slots, and any
caller that is `Legal`; from `RequestSizes` (positive sizes), `RequestNone` (NONE is no slot
and no entry), `BufIsNotTemp` and `SlotsFinite`.  Each invariant rests on those before it.

`RequestsWellFormed`: `DepInv`.  It has two parts beside the types, and they are needed for
each other.  A completed request is the head of its die's queue only if a die that executes
has one (`BusyDieHasRequest`), which `GetFromNandReqQ` asserts
(`request_allocation.c:411`); the types of the queues after a walk's step need the walk
to be inside its queue (`WalkInQueue`), and this is preserved because a completion only
appends to the queue being walked, behind the place reached, or removes that place.

`SlotsAlwaysAccountedFor`: `SlotsAccountedFor`.  `SlotsInv` adds what makes it inductive: a
slot on a die's queue asks for that die (so a request that enters one queue is on no other),
the free slots are those that ask for nothing, and the request in the thread's hand is on
none of the queues.  The queues of the dies are taken as one line of requests, whose length
is what `notCompletedNandReqCnt` counts.

`ChainsAlwaysMatchBuffers`: `ChainsMatchBuffers`.  A link is right because of who was there
when it was made, so the invariant (`OrderlyInv`) is about `waitsFor`: of two outstanding
requests in conflict one waits for the other, waits go in one direction, a request waits
for those its predecessors wait for, and among any requests one waits for none of them
(`Waits`, `SomeoneFirst`).  The chain of an entry is then its users in the order of the
waits (`Linked`): a link goes to the user that waits for all the others ahead, the tail is
the one that all others are ahead of.  A completion removes the head of a chain, because a
request on a queue other than `blockedByBufDepReqQ` has no predecessor.

`RowTableAlwaysExact`, `OrderAlwaysKept`, `NeverAllWait`: `RowTableExact`, `OrderKept` and
`NeverStuck`.  That the table counts right does not follow from its counting: it is right
only because requests come to wait and are let through in an order.  `OrderInv` says, for
the requests of a block that wait for its row (`RowOk`): at most one is an erase; the
writes it waits for (`Older`) are one each of the pages from `permittedProgPage` to the end
of the block, and those that wait for it one each of the pages given out since
(`PagesLine`); among them waits go from higher pages to lower, and the reads that wait
belong to the life of the block that the erase ends (`WaitsLine`).  From this what
`CheckRowAddrDep` lets through waits for none that waits (`FirstIsLet`, `WriteWaitsForNone`,
`ReadWaitsForNone`, `EraseWaitsForNone`), so it enters the die's queue behind all it waits for
(`NandLine`), which is `OrderKept`; and the first of all requests that wait is let through
if its row is looked at, which is `NeverStuck`.  Here the rules of `Legal` are
used: a write is of the next page, an erase of a full block whose last erase does not
wait, a read of a page that is given out.

Each of these invariants is shown to be kept by `AnyStep`: the steps of `RequestDep`, and
besides a step that takes slots from the free queue without asking for anything, and a
request made in any slot that asks for nothing.  `NextIsAny` shows that `DepSpec` takes no
others; and neither does the thread of `RequestFlow`, whose slots leave the free queue before
they are used.

The proofs of `RequestFlow` are of its `Spec`, from the same assumptions and from
`PoolFits`, for commands of any size (`CommandSize`).  `FlowInv` is `OrderInv` and what the thread adds to it: what it
has in hand at each place (`ThreadOk`), that the slots which ask for nothing are those free or
in its hand, each once (`HeldOk`), that a command's slices are no more than it may have
(`SlicesFit`), that no page of a free block is given out and all of the victim's are
(`BlocksOk`), and what stands behind a write in the chain of its buffer.  That last part is
the argument for `Legal`.  The next user of a write's buffer is a read or a transfer
(`NextReads`); a write with no next user yet is the last copy of its die, or the write-back
for the slice in hand (`LastWrites`, `TempOfDie`).  When a page is about to be written, or a
block erased, the thread holds two slots, a write-back's and a slice's, and no write-back is
without a next user.  So if `P` writes of a block and an erase wait, they, those two slots, and
the next users of all the writes but one are `2 * P + 2` slots at least, all different since
links are one to one (`WritesAreFew`, by `FS_PigeonHole`).  Hence neither a write of this page
nor an erase of this block is waiting (`NoTwoLives`).

`FirmwareKeepsTheRules`: `KeepsTheRules`, the refinement.  `FlowInv` makes the free slots of
the mapping those that ask for nothing, so a step of the thread that only takes a slot is not
seen, one that asks is `Request`, and with a request in hand the scheduler is run only if
that must wait.

`ThreadSpinsOnlyAlone`: `SpinsOnlyAlone`.  If the thread waits for a slot, none is free, so
the slots that ask for nothing are those it holds: if there is another, it is on a queue of
the lower layer and `NeverStuck` finds what can run; if there is none, the queues are empty
and nothing can (`RunsFromLowLevel`).  If it waits for an erase, the flag of the row says that
one waits, and the read in its hand is a slot it has asked with.
`FittingCommandsNeverSpin` is a corollary with a hypothesis on the constants: the thread
holds at most the slices of a command and the slot of a write-back (`FittingHoldsFewer`), so
with two slots more than slices it never holds all.  `FirmwareOrderKept` and `FlowTypesAlwaysRight`: `OrderKept`
and `TypeOK`.

Only model-checked: the liveness properties `AllDone` and `CommandEnds`, which are out of the
prover's reach.

## NvmeSlice, DataBuffer, BlockDevice

A command is one record; how it is cut is a set of operators over it.  `PrpNum` is
`prp_num` of the two handlers, `PrpWalk` the walk of `ReqTransNvmeToSlice` over the
PRP lists (its arithmetic of entries left and entries taken is the code's), `HostList`
the lists as a host lays them out (external), `SliceCount`, `LogicalSliceAddr`,
`NvmeBlockOffset`, `NumOfNvmeBlock` and `StartIndex` the first, middle and last
transform, `Pieces` the arrays `prpForEachReq` and `dataLengthForSlice` of a request,
and `Moves` what `IssueNvmeDmaReq` does with them.  Loops over lists and pieces are
functions of the number of turns (`PrpWalk`, `DdrOffset`).  What they are checked
against is the straight line from the host's buffer to the drive: where a piece is in
the one (`InBuffer`) is where it is in the other (`OnDrive`).

`DataBuffer` keeps each list as a sequence, since links that are only pushed at one
end and removed by name are one; what can go wrong is the order in which the two lists
and the slice of an entry change, and that is the code's.  `BlockDevice` runs both: its
`pc` is the place in `ReqTransSliceToLowLevel`, `lowReqs` the requests of the lower
layer in the order they were made, of which any may end that `RequestDep` lets end.

Properties.  `PiecesTile`: the pieces of the slices are the host's buffer, each unit
once, in order, and fit the arrays.  `ListsAgree`: LRU and hash lists agree with the
entries, and no two entries hold one slice.  `ReadsRight`: a read brings what was
written last before it was sent, in blocks ever written.  `NothingLost`: at rest each
slice is where it will be looked for.  `OneCompletionEach`: one completion to come for
each open command, none for another.

Run `block_device`.  Two entries and four slices make every miss an eviction; slices
0 and 2 share a hash list.  Five commands with five slots (`MaxCommands`, `Slots`) give a
write, its eviction by two other slices, a write of a part that must fetch the rest, and
a read of the former content while the program still waits.  Nine pages are one for each
slice and each slot.  `LBA_SIZE` 2 lets a buffer start in the middle of a page, and
`PRPS_PER_LIST` 3 makes the longest commands walk over three lists.  The first command
may also be any of 84 reads that start anywhere in a page, a list and a slice and are up
to seven blocks long; the others are two writes, of either of two contents, and two
reads.

Observations.  The completion is posted when the DMA of the last slice is issued
(`request_transform.c:972`) while those of earlier slices may wait behind the flash, so
a host that uses its buffer at once may see old data or change what is written; the
model lets the host wait.  A write of part of a slice never written, or a read of one,
leaves in the entry what it held before: nothing clears it.  `ReadsRight` speaks only
of blocks written.

## WaySched and BadBlock

`WaySched`.  A channel has one way: `CheckConfigRestriction` refuses `USER_WAYS` above
`NSC_MAX_WAYS`, which is 1.  So exactly one of the way lists of a channel holds its
way, and `way[c].list` says which.  `Start`, `StatusCheck`, `StatusReportDone` and
`StatusReportAgain` are the outcomes of a call of `SchedulingNandReqPerCh` that change
something.  The controller and the chip are external: a command function waits until the
controller has taken the command (one step), the array works on its own (`ChipDone`),
and the status byte comes when it comes (`NscDone`), since the two waits of
`readstatus_70h` are commented out (`nsc_driver.c:130`).

What becomes of a failure.  A status byte may be one of an earlier operation, so a
failed erase or program may be taken for done (`failMissed`, a history variable).  A
fresh fail bit sends the way back to the check for ever; `REQ_STATUS_FAIL` is returned
nowhere, and the code for grown bad blocks is therefore never reached.

`BadBlock`.  `phase` is where `InitFTL` and `main` are, one action per loop over the
dies; each waits where the code calls `SyncAllLowLevelReqDone`.  A table on the flash is
the set of blocks it calls bad and whether its first byte is one the check accepts; an
erased page is accepted and calls every block good.  An erase or a program that fails,
or is cut short by the power, leaves any of the outcomes `FlashAfter` lists.
`PowerLoss` keeps the flash and nothing else.

Properties.  `ListsMatchDies` (scheduler).  `BadStayOut`: no block the table knew to be
bad is handed out, nor the block of the table, and no physical block twice.
`RunningAgrees`: what the firmware runs with is what the next boot will read, unless a
failure was missed.  `KnownBadStaysKnown`: no step and no loss of the power makes a die
forget.  `BootEnds`: a boot ends.

Observations.  The first boot of a chip whose table page is erased takes every block for
good, without looking at the vendor's marks; so may a boot after a program of the table that was
cut short.  `main` erases the first two spare blocks of each channel on every boot,
bad or not and without looking at the status; a vendor's mark may go with them, which
is why the properties speak of the table.  No other block is erased at boot.

## NvmeController and Main

State.  `state` is `NVME_STATE_E`, `pc` the place in a turn, `cqs` and `sqs` the
attribute tables, `cqReg`, `sqReg`, `irqReg`, `irqVector` the registers of the PL, the
four rings those of `nvme_transmitter.c`, `pool` the commands in progress.  A command
carries a mark that it was sent since the last reset: the firmware does not know, and
the properties must.

Actions.  One per branch of a turn: the four states, the fetch of at most one command
of each kind, each admin command, the completion, a read or write that completes in its
turn or joins the pool, and the low level, which runs unless the turn took an I/O command.
The admin commands that change no table are answers (`Identify`, `GetLogPage`,
`SetFeature`, ...).  The PL and the host's driver are external: the driver may enable,
disable, shut down, send admin and I/O commands with identifiers that are free.
`RingAssumption`: the firmware never tells the PL how far it has read, so a ring must
hold as many commands as the host has open.  Nothing in `src/` enforces that: a ring has
8 entries (`memory_map.h:201`), a queue of the host up to 4095 (`nvme_structs.h:40`).  What
is checked and proved here is about hosts that keep to it; a command that the PL writes
over another on a ring is outside of the model.

`Main` is the program: boot, the wait for MSI, the loop, and the loss of the power.

Properties.  `QueueTables`: the firmware's tables, the registers and the interrupts
agree.  `EachInOnePlace`: a command the host waits for is in exactly one place, and no
other is anywhere, through full rings, resets and commands that outlive a reset.
`HandshakeEnds`: each change of CC is answered in CSTS.  `AnswersCome`: commands are
answered once the host stops sending I/O; while it goes on, the low level need not run
(`main.c:265`).

Run `main_loop`.  Two channels, three user blocks and two spares; dies with a table,
without one, and with an erased page for one, so that one boot may make the table of one
die beside the table of another.  `MaxLosses` 1 and `MaxFaults` 1: a loss of the power
at any step of a boot and a boot after it, with a failing erase or program in
either.  The loop is entered over one flash and without a fault behind it (`LoopFlash`,
`EnableMsi`), since the loop looks at nothing of the boot.  One queue pair, one admin
and one I/O command, rings of two slots of which one stays empty, so every ring can
be full.  `HostDisable` waits until no command from before the last reset is left.
Deadlock is not checked: a host may do nothing, and a boot may stop in an assert or at
a failed die.

Fairness.  The processor never stops (weak fairness of `Boot` and `Loop`); the
controllers, the chips and the PL answer what they were asked (weak fairness of `Nand`,
`PlAdmin`, `PlIo`).  Strong fairness of `TakeFromPool`: a low level that runs again and
again comes to the end of every command, which is `RequestFlow.CommandEnds` for commands
that do not take every slot.  Nothing
obliges the host.

Observations, none of which breaks a property.

* `init_nvme_controller` clears the queue registers 1 to `NUM`; the queues use 0 to
  `NUM`-1 (`nvme_admin_controller.c:47`).  Register 0 keeps its queue over a reset.
* `delete_io_cq` removes the attribute before it looks for a submission queue and
  refuses (`nvme_admin_cmds.c:171`): the refused delete has half happened (`refused`).
* `g_iocq_irq_enable` is not reset with the register computed from it, and the creation of a
  queue without interrupt does not write the register.
* The identifier of a new submission queue is not compared with the others.
* A command of before a reset may be answered after it, to a host that may have given
  its identifier to another (`cheated`).
* A shutdown is reported complete at once, with whatever is in the pool and dirty in
  the buffer.  A FLUSH is accepted and not completed.

## NandAddress

`RowOf` is the row `GenerateNandRowAddr` names to the chip.  The run `nand_rows`
(finding 3) needs two blocks of four pages, one of them full.

Finding 3.  A block has as many pages for the host as it has rows
(`ftl_config.h:49`, `:127`), but page `p` is put on row `2p-1` of it
(`address_translation.h:108`, `request_schedule.c:738`): the second half of a block lies on
rows of the next block.  `nand_rows` finds two slices the host may read on one row.

## Runs of these

| Run | Instance | Shows |
|---|---|---|
| `block_device` | 4 slices of 2 blocks, 2 entries, 5 commands | `TypeOK`, `PiecesTile`, `ListsAgree`, `ReadsRight`, `NothingLost`, `OneCompletionEach`, no deadlock |
| `main_loop` | 2 channels, 5 blocks, 1 loss, 1 fault; 1 queue pair, 2 commands | `TypeOK`, `ListsMatchDies`, `BadStayOut`, `RunningAgrees`, `QueueTables`, `EachInOnePlace`, `KnownBadStaysKnown`, `BootEnds`, `HandshakeEnds`, `AnswersCome` |
| `nand_rows` | 1 die, 3 blocks of 4 pages, 6 slices | finding 3 |

## Proofs of these

`BootInductive` proves `BadBlockSpec => []BootInv` for any channels, any numbers of
blocks and any dies, from `BlocksAssumption` (two spares at least), `FlashAssumption`
(the dies are dies, and block 0 is good) and `ChannelsAssumption`.  From it follow
`ListsAlwaysMatchDies`, `RunningAlwaysAgrees` and `KnownStaysKnown`.  The specification
has no bound on failures or losses of the power.  None of the three properties is
inductive alone.  That a table is not touched which knows something depends on when the
erase is queued, so `Shapes` says what a queue may hold in each phase; on which of the
two requests was executed when the power fails, so `TableInMaking` follows the table
through erase and program and needs `ListsMatchDies` to tell an executed head from one
to come; and on what was read long before, so `ReadIsTable`, `TableMissing` and
`TableKnown` carry the answer of the read through the search for bad blocks.  A step
of the scheduler either leaves the head as far as it is or takes an executed one off
(`ChannelStep`), and an operation that ends or is cut short is one lemma (`FlashAfterIs`).

`QueuesAgree` proves `NvmeSpec => []QueueTables` for any number of queues and any rings that
hold the host's open commands (`RingAssumption`), from `QueuesAssumption` and
`VectorAssumption`.  `QueueTables` is not inductive:
creating or deleting one queue writes the register of the interrupts from
`irqEnable`, so that variable must know every queue that wants one; and a completion
queue is created at an index where a refused delete may have left a submission queue,
so no submission queue may have been created for identifier 0 (`QueueHistory`).

`EachAlwaysInOnePlace` proves `NvmeSpec => []EachInOnePlace`.  `CommandInv` makes it
inductive: the hand of the firmware holds a command only at the places of the turn that
have one (`InHand`), so that taking one up drops none; and while RDY is 0 the host waits for
nothing (`Ready`), so that the rings may be emptied.  A command on a ring is counted by
the positions it stands at (`At`, `AtTail`, `AtAppend`), which is what "once" means there.
No step of the proof uses `RingAssumption`, but without it the submission rings of the model,
from which nothing is ever lost, would not be those of the PL.

`BadAlwaysStayOut` proves `BadBlockSpec => []BadStayOut`.  A bad
block is replaced by the good spare of its rank, so that no two blocks share one follows
from what ranks are in finite sets (`RankFacts`, `RankTaken`, `SparesDiffer`).  That the map
is right needs it to be made of the bad blocks the firmware runs with, and those to hold
what the table on the flash knows from the check of the bad blocks on (`MapInv`), which needs
`BootInv` for what a table on the flash can be.  `BootTypesRight` is what is left of the
types.

The proofs of `NvmeSlice` and `BlockDevice` are for any `LBA_SIZE`, one or two blocks to a
slice, lists of two entries at least (`SizesAssumption`), any number of entries
(`EntryCountAssumption`), a page for each slice and each slot (`PagesAssumption`, which
`AddressTranslation` stands for) and commands of any length that start anywhere in a block's
page and in a list, on blocks of the drive (`CommandsAssumption`; a block beyond it stops
the firmware in the assert of `address_translation.c:631`).

`PrpCollectedIs` is about the loop over the PRP lists.  The library's induction takes an
operator as a parameter, so the module makes its own, over sets of numbers, from the
well-founded order of the subsets of a finite set (`LeastNumber`, `Induction`); from that,
that a loop has a state after every turn (`Iterates`), and that what each turn keeps holds
after all (`PrpWalkIs`).  What is kept (`WalkStates`) is that the pages collected are the
first of the buffer, that as many are left as the lists not yet read name, and that the
start in the list is where the list starts.  `SlicesAre` and the lemmas on pieces and moves
are arithmetic of quotients; z3 is given products by one lemma each (`TimesNext`, `DivIs`).

`DirectoryAgrees`: `ListsAgree`.  It holds because an entry leaves the list of its old slice
before it changes its slice, and is put only on a list where no entry has the new one
(`ReuseKeepsDirectory`).  `DeviceTypes`: `TypeOK`, from `TypeInv`, which adds to both that what is in the
slice queue and in hand are the last slices of the command in hand (`QueueOK`), and of what
kind the requests are (`LowReqsOK`).  A page is found for a write-back because a page is in
use for a slice or for a request only, and a free slot is there.  `PiecesAlwaysTile`:
`PiecesTile` follows from `QueueOK` and the lemmas of `NvmeSlice_proofs`.

`OneCompletionAlways`: `OneCompletionEach`.  The invariant `PostOK` counts nothing: each
command the host waits for is the one in hand, whose last slice is still to come, or that of
a DMA that has not been issued and carries the completion; and no two of these are of one
command.

`ReadsAlwaysRight` and `NothingEverLost`: `ReadsRight` and `NothingLost`.  What the entries
and pages hold says little while requests are on the way, so the invariant (`FlowInv`) is
about what they will hold.  It says that there are contents `w[i]` of the entry of each
request when that request has run, `prg` of each page when the programs have run, and `fin`
of each entry when all of its requests have, and that they follow from each other and from
what is there now along the requests of each entry (`FlowOK`): a request starts from
what the one before it left; the first from what the entry holds; a fetch brings what its page will
hold, a program leaves that there.  Nothing of this changes when a request ends, whichever
it is (`EndRequestFlows`): this is why the order of requests of different entries does not
matter.  A request that is made changes `fin` of its entry, or `prg` of its page
(`FlowAppend`).  `StoreOK` says of `fin` and `prg` that the one that counts, the entry of a
slice, or if it has none or a clean one also its page, agrees with `disk` in every unit, save those
that slices of the write in hand not yet taken up will still write (`Pend`).  A dirty
entry that is taken from its slice leaves `fin` on the page it is programmed to
(`MissFlows`), which is what makes the fetch of that slice right however long the program
waits.  At rest `fin` and `prg` are what is there, and that is `NothingLost`.

`Main_proofs` puts the two together.  `ProgramImplementsBoot`: each step of `Main` is one of
`BadBlock` or leaves its variables alone.  The controller does not run as in `NvmeSpec`: a
loss of the power initialises it again, which `ControllerInductive` treats as one more
step.  From these follow `TypesAlwaysRight` (`Spec => []TypeOK`, with `BoundsAssumption` on
the bounds of the model) and `ProgramIsSafe`, the safety of the program as it runs.

Only model-checked: the liveness properties, which are out of the prover's reach.

## Not modelled

* The contents of the identify pages and of the answers to get feature: constants.
  Feature commands set nothing.  The capacity computed by `InitFTL` is reported nowhere.
* The layout of registers and DMA descriptors, and the command sequences of the NAND
  channel: a driver call is one step with its wait.
* The test pattern generator (`generateReQ`), which nothing calls, and the functions for
  grown bad blocks, which nothing reaches.
* An I/O opcode that is no read, write or flush, which stops the firmware in an assert.
* Several ways to a channel: `CheckConfigRestriction` refuses them.
