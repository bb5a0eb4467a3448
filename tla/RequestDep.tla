----------------------------- MODULE RequestDep -----------------------------
(***************************************************************************)
(* The life of a low-level request: its slot of the request pool, the      *)
(* queue it is on, the buffer chain and the row-address table that may     *)
(* keep it waiting, and the scheduler pass that runs it.                   *)
(*                                                                         *)
(* A request waits for two things.  Requests that use the same buffer      *)
(* entry form a chain, and only its head may run.  Requests for a NAND     *)
(* block obey the row-address table: pages are programmed in order, a page *)
(* is read after it is programmed, a block is erased after its pages have  *)
(* been programmed and the reads issued before have run.                   *)
(*                                                                         *)
(* One thread does everything; the dies and the DMA engines only decide    *)
(* when a request is done.  Between requests, and while it waits, the      *)
(* thread runs passes: CheckDoneNvmeDmaReq, then SchedulingNandReq.        *)
(*                                                                         *)
(* The requests are those of any caller that keeps to the rules of Legal.  *)
(* RequestFlow is the caller there is, and keeps to them.                  *)
(***************************************************************************)
EXTENDS Integers, FiniteSets, SequencesExt

CONSTANTS
  D,        \* USER_DIES; with USER_WAYS = 1 a die is a channel
  B,        \* USER_BLOCKS_PER_DIE
  P,        \* USER_PAGES_PER_BLOCK
  Slot,     \* request slots, AVAILABLE_OUNTSTANDING_REQ_COUNT of them
  Buf,      \* entries of the data buffer
  NONE      \* REQ_SLOT_TAG_NONE

Die == 0..(D - 1)
Block == 0..(B - 1)

\* A die has one entry in the temporary buffer, used by its collections.
TempBuf == {<<"temp", d>> : d \in Die}
Entry == Buf \cup TempBuf

ASSUME RequestSizes == D \in Nat \ {0} /\ B \in Nat \ {0} /\ P \in Nat \ {0}
ASSUME RequestNone == NONE \notin Slot /\ NONE \notin Entry
ASSUME BufIsNotTemp == Buf \cap TempBuf = {}
ASSUME SlotsFinite == IsFiniteSet(Slot)

VARIABLES
  req,                      \* what each slot asks for
  prevBlockingReq, nextBlockingReq,   \* the buffer chain of a request
  blockingReqTail,          \* the last request of each entry's chain
  rowAddrDependencyTable,   \* [die][block], a record
  freeReqQ,                 \* as a set: a free slot carries no information
  blockedByBufDepReqQ,      \* as a set: slots leave it one by one, by name
  blockedByRowAddrDepReqQ,  \* of each die
  nvmeDmaReqQ,
  nandReqQ,                 \* of each die
  notCompletedNandReqCnt, blockedReqCnt,
  dieState,
  pass,                     \* where the scheduler pass is
  slot,                     \* the request SelectLowLevelReqQ is called for
  currentPage,              \* [die][block]: pages given out, as in the block map
  waitsFor                  \* history: the earlier requests, not yet done,
                            \* that a request must not overtake

chainVars == <<prevBlockingReq, nextBlockingReq, blockingReqTail>>
lowQueues == <<blockedByBufDepReqQ, blockedByRowAddrDepReqQ, nvmeDmaReqQ, nandReqQ>>
counters  == <<notCompletedNandReqCnt, blockedReqCnt>>
tables == <<req, chainVars, rowAddrDependencyTable, waitsFor>>
caller == <<slot, currentPage>>
depVars == <<tables, freeReqQ, lowQueues, counters, dieState, pass, caller>>

NoReq == [code |-> "NONE", die |-> 0, block |-> 0, page |-> 0, entry |-> NONE]
NandReq(code, d, b, p, e) == [code |-> code, die |-> d, block |-> b, page |-> p, entry |-> e]

\* RxDMA or TxDMA: nothing here depends on the direction.
DmaReq(e) == [NoReq EXCEPT !.code = "DMA", !.entry = e]

OutOfPass == [at |-> "out", die |-> 0, i |-> 0]

DepInit ==
  /\ req = [s \in Slot |-> NoReq]
  /\ prevBlockingReq = [s \in Slot |-> NONE]
  /\ nextBlockingReq = [s \in Slot |-> NONE]
  /\ blockingReqTail = [e \in Entry |-> NONE]
  /\ rowAddrDependencyTable = [d \in Die |-> [b \in Block |->
       [permittedProgPage |-> 0, blockedReadReqCnt |-> 0, blockedEraseReqFlag |-> FALSE]]]
  /\ freeReqQ = Slot
  /\ blockedByBufDepReqQ = {}
  /\ blockedByRowAddrDepReqQ = [d \in Die |-> <<>>]
  /\ nvmeDmaReqQ = <<>>
  /\ nandReqQ = [d \in Die |-> <<>>]
  /\ notCompletedNandReqCnt = 0
  /\ blockedReqCnt = 0
  /\ dieState = [d \in Die |-> "IDLE"]
  /\ pass = OutOfPass
  /\ slot = NONE
  /\ currentPage = [d \in Die |-> [b \in Block |-> 0]]
  /\ waitsFor = [s \in Slot |-> {}]

\* The thread is not inside a pass.
Running == pass = OutOfPass

-----------------------------------------------------------------------------
\* Entering a queue.

\* Two requests whose order matters: they share a buffer, or they touch the
\* same page of a block, or both program it, or one erases it.
SameBlock(r, q) == r.code # "DMA" /\ q.code # "DMA" /\ r.die = q.die /\ r.block = q.block
Conflict(r, q) ==
  \/ r.entry # NONE /\ r.entry = q.entry
  \/ SameBlock(r, q) /\ (r.code = "ERASE" \/ q.code = "ERASE")
  \/ SameBlock(r, q) /\ r.code = "WRITE" /\ q.code = "WRITE"
  \/ SameBlock(r, q) /\ r.page = q.page /\ r.code # q.code

\* UpdateDataBufEntryInfoBlockingReq and its twin for the temporary buffer:
\* request r is put in slot s and linked behind the last user of its entry.
MakeRequest(s, r) ==
  LET tail == IF r.entry = NONE THEN NONE ELSE blockingReqTail[r.entry]
  IN  /\ req' = [req EXCEPT ![s] = r]
      /\ prevBlockingReq' = IF tail = NONE THEN prevBlockingReq
                            ELSE [prevBlockingReq EXCEPT ![s] = tail]
      /\ nextBlockingReq' = IF tail = NONE THEN nextBlockingReq
                            ELSE [nextBlockingReq EXCEPT ![tail] = s]
      /\ blockingReqTail' = IF r.entry = NONE THEN blockingReqTail
                            ELSE [blockingReqTail EXCEPT ![r.entry] = s]
      /\ waitsFor' = [waitsFor EXCEPT ![s] =
           {t \in Slot \ {s} : req[t].code # "NONE" /\ Conflict(r, req[t])}]
      /\ slot' = s
      /\ UNCHANGED <<rowAddrDependencyTable, lowQueues, counters, dieState, pass>>

Row(r) == rowAddrDependencyTable[r.die][r.block]

\* Mutant: a read waits until the page after its own may be programmed too.
MutReadOffByOne(r) ==
  \/ r.code = "READ"  /\ r.page + 1 < Row(r).permittedProgPage
  \/ r.code = "WRITE" /\ r.page = Row(r).permittedProgPage
  \/ r.code = "ERASE" /\ r.page = Row(r).permittedProgPage /\ Row(r).blockedReadReqCnt = 0

\* CheckRowAddrDep: may the request go to the NAND queue?
RowAddrPass(r) ==
  \/ r.code = "READ"  /\ r.page < Row(r).permittedProgPage
  \/ r.code = "WRITE" /\ r.page = Row(r).permittedProgPage
  \/ r.code = "ERASE" /\ r.page = Row(r).permittedProgPage /\ Row(r).blockedReadReqCnt = 0

\* Mutant: a read that is let through stays counted.
MutPassStaysCounted(r, counted) ==
  CASE r.code = "READ"  -> Row(r)
    [] r.code = "WRITE" -> [Row(r) EXCEPT !.permittedProgPage = @ + 1]
    [] r.code = "ERASE" -> [Row(r) EXCEPT !.permittedProgPage = 0, !.blockedEraseReqFlag = FALSE]

\* Mutant: an erase that is let through leaves its flag up.
MutFlagStays(r, counted) ==
  CASE r.code = "READ"  -> IF counted THEN [Row(r) EXCEPT !.blockedReadReqCnt = @ - 1] ELSE Row(r)
    [] r.code = "WRITE" -> [Row(r) EXCEPT !.permittedProgPage = @ + 1]
    [] r.code = "ERASE" -> [Row(r) EXCEPT !.permittedProgPage = 0]

\* The table when it may; counted says whether a read had been counted, which
\* is the difference between the options SELECT and RELEASE.
RowAfterPass(r, counted) ==
  CASE r.code = "READ"  -> IF counted THEN [Row(r) EXCEPT !.blockedReadReqCnt = @ - 1] ELSE Row(r)
    [] r.code = "WRITE" -> [Row(r) EXCEPT !.permittedProgPage = @ + 1]
    [] r.code = "ERASE" -> [Row(r) EXCEPT !.permittedProgPage = 0, !.blockedEraseReqFlag = FALSE]

\* Mutant: an erase that waits does not raise its flag.
MutEraseUnflagged(r) ==
  IF r.code = "READ" THEN [Row(r) EXCEPT !.blockedReadReqCnt = @ + 1] ELSE Row(r)

\* The table when it may not, the first time it is asked.
RowAfterBlock(r) ==
  CASE r.code = "READ"  -> [Row(r) EXCEPT !.blockedReadReqCnt = @ + 1]
    [] r.code = "ERASE" -> [Row(r) EXCEPT !.blockedEraseReqFlag = TRUE]
    [] OTHER            -> Row(r)

SetRow(r, row) == rowAddrDependencyTable' = [rowAddrDependencyTable EXCEPT ![r.die][r.block] = row]

\* A request that no other user of its entry precedes: to the DMA queue, to
\* the die's NAND queue, or to wait for its row.  dma, nand, running, blocked
\* are the queues and counters it meets.
Enter(s, counted, dma, nand, running, blocked) ==
  LET r == req[s]
  IN  \/ /\ r.code = "DMA"
         /\ nvmeDmaReqQ' = Append(dma, s)
         /\ nandReqQ' = nand
         /\ notCompletedNandReqCnt' = running
         /\ blockedReqCnt' = blocked
         /\ UNCHANGED <<rowAddrDependencyTable, blockedByRowAddrDepReqQ>>
      \/ /\ r.code # "DMA" /\ RowAddrPass(r)
         /\ SetRow(r, RowAfterPass(r, counted))
         /\ nandReqQ' = [nand EXCEPT ![r.die] = Append(@, s)]
         /\ notCompletedNandReqCnt' = running + 1
         /\ nvmeDmaReqQ' = dma
         /\ blockedReqCnt' = blocked
         /\ UNCHANGED blockedByRowAddrDepReqQ
      \/ /\ r.code # "DMA" /\ ~RowAddrPass(r)
         /\ IF counted THEN UNCHANGED rowAddrDependencyTable ELSE SetRow(r, RowAfterBlock(r))
         /\ blockedByRowAddrDepReqQ' = [blockedByRowAddrDepReqQ EXCEPT ![r.die] = Append(@, s)]
         /\ blockedReqCnt' = blocked + 1
         /\ nvmeDmaReqQ' = dma
         /\ nandReqQ' = nand
         /\ notCompletedNandReqCnt' = running

\* Mutant: reads do not wait for the erase of their block.
MutNoSync(s) == FALSE

\* A read must not be queued while an erase of its block waits: the read
\* belongs to the block's next life, and the erase would wait for it.
MustSyncErase(s) == req[s].code = "READ" /\ Row(req[s]).blockedEraseReqFlag

\* Mutant: only transfers wait for the entry.
MutOnlyDmaWaits(s) == req[s].code = "DMA" => prevBlockingReq[s] = NONE

CheckBufDep(s) == prevBlockingReq[s] = NONE

\* SelectLowLevelReqQ, once SyncReleaseEraseReq has returned if it was called.
SelectLowLevelReqQ(s) ==
  /\ Running /\ ~MustSyncErase(s)
  /\ slot' = NONE
  /\ IF CheckBufDep(s)
     THEN /\ Enter(s, FALSE, nvmeDmaReqQ, nandReqQ, notCompletedNandReqCnt, blockedReqCnt)
          /\ UNCHANGED blockedByBufDepReqQ
     ELSE /\ blockedByBufDepReqQ' = blockedByBufDepReqQ \cup {s}
          /\ blockedReqCnt' = blockedReqCnt + 1
          /\ IF req[s].code = "DMA" THEN UNCHANGED rowAddrDependencyTable
                                    ELSE SetRow(req[s], RowAfterBlock(req[s]))
          /\ UNCHANGED <<blockedByRowAddrDepReqQ, nvmeDmaReqQ, nandReqQ, notCompletedNandReqCnt>>
  /\ UNCHANGED <<req, chainVars, freeReqQ, dieState, pass, waitsFor, currentPage>>

-----------------------------------------------------------------------------
\* Leaving: PutToFreeReqQ and ReleaseBlockedByBufDepReq, at the end of
\* SelectiveGetFromNvmeDmaReqQ and of GetFromNandReqQ.  The next user of the
\* entry is let in unless it is still in the hands of SelectLowLevelReqQ.

\* Mutant: the next user is let in wherever it is.
MutLetsAnyIn(t) == t # NONE

\* The next user of the entry, if any, is on the queue of those that wait.
WaitsForBuf(t) == t # NONE /\ t \in blockedByBufDepReqQ

\* Mutant: the entry goes on naming the request that is done.
MutTailKept(s) == blockingReqTail

\* The tail of the entry is reset if no later request has taken its place.
TailAfter(s) ==
  LET e == req[s].entry
  IN  IF e # NONE /\ blockingReqTail[e] = s THEN [blockingReqTail EXCEPT ![e] = NONE]
                                            ELSE blockingReqTail

Complete(s, dma, nand, running) ==
  LET t == nextBlockingReq[s]
  IN  /\ freeReqQ' = freeReqQ \cup {s}
      /\ req' = [req EXCEPT ![s] = NoReq]
      /\ prevBlockingReq' = IF t = NONE THEN prevBlockingReq ELSE [prevBlockingReq EXCEPT ![t] = NONE]
      /\ nextBlockingReq' = [nextBlockingReq EXCEPT ![s] = NONE]
      /\ blockingReqTail' = TailAfter(s)
      /\ waitsFor' = [x \in Slot |-> IF x = s THEN {} ELSE waitsFor[x] \ {s}]
      /\ IF WaitsForBuf(t)
         THEN /\ blockedByBufDepReqQ' = blockedByBufDepReqQ \ {t}
              /\ Enter(t, TRUE, dma, nand, running, blockedReqCnt - 1)
         ELSE /\ nvmeDmaReqQ' = dma
              /\ nandReqQ' = nand
              /\ notCompletedNandReqCnt' = running
              /\ UNCHANGED <<blockedByBufDepReqQ, blockedByRowAddrDepReqQ,
                             rowAddrDependencyTable, blockedReqCnt>>
      /\ UNCHANGED caller

-----------------------------------------------------------------------------
\* A pass: the DMA queue from its tail to its head, then die by die the
\* status, the requests that wait for a row, and the next request to issue.

StartPass ==
  /\ Running
  /\ pass' = [at |-> "dma", die |-> 0, i |-> Len(nvmeDmaReqQ)]
  /\ UNCHANGED <<tables, freeReqQ, lowQueues, counters, dieState, caller>>

\* One turn of CheckDoneNvmeDmaReq, which takes every transfer for done.
\* What a turn appends to the queue is behind the place it has reached.
CheckDoneNvmeDmaReq ==
  /\ pass.at = "dma" /\ pass.i > 0
  /\ Complete(nvmeDmaReqQ[pass.i], RemoveAt(nvmeDmaReqQ, pass.i), nandReqQ, notCompletedNandReqCnt)
  /\ pass' = [pass EXCEPT !.i = @ - 1]
  /\ UNCHANGED dieState

CheckDoneEnds ==
  /\ pass.at = "dma" /\ pass.i = 0
  /\ pass' = [pass EXCEPT !.at = "status"]
  /\ UNCHANGED <<tables, freeReqQ, lowQueues, counters, dieState, caller>>

\* The rows are looked at only when the die has nothing else to do.
AfterStatus(d, queue) ==
  IF queue = <<>> THEN [at |-> "release", die |-> d, i |-> 1]
                  ELSE [at |-> "issue", die |-> d, i |-> 0]

\* Mutant: the pass goes one die too far.
MutOneDieMore(d) == IF d < D THEN [at |-> "status", die |-> d + 1, i |-> 0] ELSE OutOfPass

NextDie(d) == IF d < D - 1 THEN [at |-> "status", die |-> d + 1, i |-> 0] ELSE OutOfPass

\* A die reports done: ExecuteNandReq in DIE_STATE_EXE with REQ_STATUS_DONE.
FinishNandReq(d) ==
  /\ pass.at = "status" /\ pass.die = d
  /\ dieState[d] = "EXE"
  /\ dieState' = [dieState EXCEPT ![d] = "IDLE"]
  /\ Complete(Head(nandReqQ[d]), nvmeDmaReqQ, [nandReqQ EXCEPT ![d] = Tail(@)],
              notCompletedNandReqCnt - 1)
  /\ pass' = AfterStatus(d, nandReqQ'[d])

\* A die that is not executing.
DieIdle(d) ==
  /\ pass.at = "status" /\ pass.die = d
  /\ dieState[d] = "IDLE"
  /\ pass' = AfterStatus(d, nandReqQ[d])
  /\ UNCHANGED <<tables, freeReqQ, lowQueues, counters, dieState, caller>>

\* One turn of ReleaseBlockedByRowAddrDepReq.
ReleaseBlockedByRowAddrDepReq(d) ==
  /\ pass.at = "release" /\ pass.die = d
  /\ pass.i <= Len(blockedByRowAddrDepReqQ[d])
  /\ LET s == blockedByRowAddrDepReqQ[d][pass.i]
     IN  IF RowAddrPass(req[s])
         THEN /\ SetRow(req[s], RowAfterPass(req[s], TRUE))
              /\ blockedByRowAddrDepReqQ' = [blockedByRowAddrDepReqQ EXCEPT ![d] = RemoveAt(@, pass.i)]
              /\ nandReqQ' = [nandReqQ EXCEPT ![d] = Append(@, s)]
              /\ notCompletedNandReqCnt' = notCompletedNandReqCnt + 1
              /\ blockedReqCnt' = blockedReqCnt - 1
              /\ UNCHANGED pass
         ELSE /\ pass' = [pass EXCEPT !.i = @ + 1]
              /\ UNCHANGED <<rowAddrDependencyTable, blockedByRowAddrDepReqQ, nandReqQ, counters>>
  /\ UNCHANGED <<req, chainVars, waitsFor, freeReqQ, blockedByBufDepReqQ, nvmeDmaReqQ,
                 dieState, caller>>

ReleaseEnds(d) ==
  /\ pass.at = "release" /\ pass.die = d
  /\ pass.i > Len(blockedByRowAddrDepReqQ[d])
  /\ pass' = [at |-> "issue", die |-> d, i |-> 0]
  /\ UNCHANGED <<tables, freeReqQ, lowQueues, counters, dieState, caller>>

\* IssueNandReq, through the way list of the request's code.
IssueNandReq(d) ==
  /\ pass.at = "issue" /\ pass.die = d
  /\ nandReqQ[d] # <<>>
  /\ dieState' = [dieState EXCEPT ![d] = "EXE"]
  /\ pass' = NextDie(d)
  /\ UNCHANGED <<tables, freeReqQ, lowQueues, counters, caller>>

\* The pass leaves the die: it is still executing, or it has nothing to
\* issue, or its controller is busy.
LeaveDie(d) ==
  /\ pass.die = d
  /\ pass.at = "issue" \/ (pass.at = "status" /\ dieState[d] = "EXE")
  /\ pass' = NextDie(d)
  /\ UNCHANGED <<tables, freeReqQ, lowQueues, counters, dieState, caller>>

PassStep ==
  \/ CheckDoneNvmeDmaReq
  \/ CheckDoneEnds
  \/ \E d \in Die :
       \/ FinishNandReq(d)
       \/ DieIdle(d)
       \/ ReleaseBlockedByRowAddrDepReq(d)
       \/ ReleaseEnds(d)
       \/ IssueNandReq(d)
       \/ LeaveDie(d)
-----------------------------------------------------------------------------
\* Any caller.

Blocked == blockedByBufDepReqQ \cup UNION {ToSet(blockedByRowAddrDepReqQ[d]) : d \in Die}

\* A write of this very page, for the life before, is still waiting.
PageWaits(r) ==
  \E s \in Blocked : req[s].code = "WRITE" /\ SameBlock(r, req[s]) /\ req[s].page = r.page

\* What the mapping and the collector ask for: a page that has been given out
\* is read, the next page of a block is written, a full block is erased.  And
\* a block has never a whole life of requests waiting: no page is written while
\* its write in the life before waits, no block erased while its last erase
\* does.  The table tells two lives apart no better than that; P waiting writes
\* of a block, each with the next user of its buffer behind it, and an erase
\* are more than the D * P slots of the pool while D <= 2.
Legal(r) ==
  \/ r.code = "DMA"
  \/ /\ r.code = "READ"
     /\ r.page < currentPage[r.die][r.block]
  \/ /\ r.code = "WRITE"
     /\ r.page = currentPage[r.die][r.block] /\ r.page < P
     /\ ~PageWaits(r)
  \/ /\ r.code = "ERASE"
     /\ currentPage[r.die][r.block] = P /\ r.page = P
     /\ ~Row(r).blockedEraseReqFlag

PagesAfter(r) ==
  CASE r.code = "WRITE" -> [currentPage EXCEPT ![r.die][r.block] = @ + 1]
    [] r.code = "ERASE" -> [currentPage EXCEPT ![r.die][r.block] = 0]
    [] OTHER -> currentPage

\* The requests the firmware makes; an erase uses no buffer, and carries
\* programmedPageCnt in the place of its page.
Requests ==
  {DmaReq(e) : e \in Buf}
  \cup {NandReq(c, d, b, p, e) : c \in {"READ", "WRITE"}, d \in Die, b \in Block,
                                 p \in 0..(P - 1), e \in Entry}
  \cup {NandReq("ERASE", d, b, P, NONE) : d \in Die, b \in Block}

Request(s, r) ==
  /\ Running /\ slot = NONE
  /\ s \in freeReqQ
  /\ Legal(r)
  /\ freeReqQ' = freeReqQ \ {s}
  /\ MakeRequest(s, r)
  /\ currentPage' = PagesAfter(r)

Select == slot # NONE /\ SelectLowLevelReqQ(slot)

\* A pass is run when the thread has no request in hand, or one that must wait.
Schedule ==
  /\ slot # NONE => MustSyncErase(slot)
  /\ StartPass

Thread == Select \/ Schedule \/ PassStep
DepNext == Thread \/ \E s \in Slot, r \in Requests : Request(s, r)

DepSpec == DepInit /\ [][DepNext]_depVars

\* The thread goes on, and a die that is looked at again and again is done, or
\* ready for the next request, in the end.  The caller may stop.
FairDepSpec ==
  /\ DepSpec
  /\ WF_depVars(Thread)
  /\ \A d \in Die : SF_depVars(FinishNandReq(d)) /\ SF_depVars(IssueNandReq(d))

-----------------------------------------------------------------------------
\* Properties.

Codes == {"NONE", "DMA", "READ", "WRITE", "ERASE"}
SlotOrNone == Slot \cup {NONE}
ReqType == [code : Codes, die : Die, block : Block, page : 0..P, entry : Entry \cup {NONE}]
RowType == [permittedProgPage : Int, blockedReadReqCnt : Int, blockedEraseReqFlag : BOOLEAN]
PassType == [at : {"out", "dma", "status", "release", "issue"}, die : Die, i : Nat]

DepTypeOK ==
  /\ req \in [Slot -> ReqType]
  /\ prevBlockingReq \in [Slot -> SlotOrNone]
  /\ nextBlockingReq \in [Slot -> SlotOrNone]
  /\ blockingReqTail \in [Entry -> SlotOrNone]
  /\ rowAddrDependencyTable \in [Die -> [Block -> RowType]]
  /\ freeReqQ \in SUBSET Slot
  /\ blockedByBufDepReqQ \in SUBSET Slot
  /\ blockedByRowAddrDepReqQ \in [Die -> Seq(Slot)]
  /\ nvmeDmaReqQ \in Seq(Slot)
  /\ nandReqQ \in [Die -> Seq(Slot)]
  /\ notCompletedNandReqCnt \in Int
  /\ blockedReqCnt \in Int
  /\ dieState \in [Die -> {"IDLE", "EXE"}]
  /\ pass \in PassType
  /\ waitsFor \in [Slot -> SUBSET Slot]
  /\ slot \in SlotOrNone
  /\ currentPage \in [Die -> [Block -> 0..P]]

\* A die that executes has a request at the head of its queue.
BusyDieHasRequest == \A d \in Die : dieState[d] = "EXE" => nandReqQ[d] # <<>>

\* The walk over the DMA queue has not left it, though every transfer it
\* completes may put others on the same queue; nor has the walk over the
\* requests that wait for a row.
WalkInQueue ==
  /\ pass.at = "dma" => pass.i <= Len(nvmeDmaReqQ)
  /\ pass.at = "release" => pass.i \in 1..(Len(blockedByRowAddrDepReqQ[pass.die]) + 1)

\* What the thread relies on when it takes the head of a die's queue or the
\* next transfer: with the types, an inductive invariant.
DepInv == DepTypeOK /\ BusyDieHasRequest /\ WalkInQueue

Hand == {slot} \ {NONE}
RowBlocked == UNION {ToSet(blockedByRowAddrDepReqQ[d]) : d \in Die}
InNand == UNION {ToSet(nandReqQ[d]) : d \in Die}
LowLevel == blockedByBufDepReqQ \cup RowBlocked \cup ToSet(nvmeDmaReqQ) \cup InNand

\* The places of the dies' queues, and how many there are.
Seats(q) == UNION {{d} \X DOMAIN q[d] : d \in DOMAIN q}
Total(q) == Cardinality(Seats(q))

\* A slot is in exactly one place, a queue or the thread's hand, once; a
\* request of a die is on that die's queues; the counters count: no put or get
\* of request_allocation.c is missing or done twice, in whatever order the
\* completions release one another.
SlotsAccountedFor ==
  /\ freeReqQ \cup Hand \cup LowLevel = Slot
  /\ Cardinality(freeReqQ) + Cardinality(Hand)
       + Cardinality(blockedByBufDepReqQ) + Total(blockedByRowAddrDepReqQ)
       + Len(nvmeDmaReqQ) + Total(nandReqQ) = Cardinality(Slot)
  /\ blockedReqCnt = Cardinality(blockedByBufDepReqQ) + Total(blockedByRowAddrDepReqQ)
  /\ notCompletedNandReqCnt = Total(nandReqQ)
  /\ \A d \in Die : \A s \in ToSet(nandReqQ[d]) \cup ToSet(blockedByRowAddrDepReqQ[d]) :
       req[s].code \in {"READ", "WRITE", "ERASE"} /\ req[s].die = d

\* Requests made and not yet done: on a low-level queue or being selected.
Outstanding == LowLevel \cup Hand
Users(e) == {s \in Outstanding : req[s].entry = e}

\* The chain of an entry holds its outstanding users and nobody else, in one
\* line: the head alone has no predecessor, and whoever has one waits for it.
\* A link left over from an earlier life of a slot would break this.
ChainsMatchBuffers ==
  /\ \A s \in Slot :
       /\ prevBlockingReq[s] # NONE => nextBlockingReq[prevBlockingReq[s]] = s
       /\ nextBlockingReq[s] # NONE =>
            /\ prevBlockingReq[nextBlockingReq[s]] = s
            /\ req[nextBlockingReq[s]].entry = req[s].entry
       /\ s \notin Outstanding => prevBlockingReq[s] = NONE /\ nextBlockingReq[s] = NONE
       /\ s \in blockedByBufDepReqQ => prevBlockingReq[s] # NONE
       /\ s \in LowLevel \ blockedByBufDepReqQ => prevBlockingReq[s] = NONE
  /\ \A e \in Entry :
       /\ {s \in Users(e) : nextBlockingReq[s] = NONE} = {blockingReqTail[e]} \ {NONE}
       /\ Cardinality({s \in Users(e) : prevBlockingReq[s] = NONE}) <= 1

BlockedFor(d, b, code) ==
  {s \in Blocked : req[s].code = code /\ req[s].die = d /\ req[s].block = b}
\* Writes of a block made and not yet let through, the one being selected too.
Unwritten(d, b) ==
  {s \in Blocked \cup Hand :
     req[s].code = "WRITE" /\ req[s].die = d /\ req[s].block = b}

\* The row-address table is exact: the count is the number of waiting reads,
\* the flag is up while an erase waits, and permittedProgPage is the number of
\* pages allocated in the block less the writes still waiting.  (While an
\* erase waits or is being selected, pages of two lives of the block wait.)
RowTableExact ==
  \A d \in Die, b \in Block :
    LET row == rowAddrDependencyTable[d][b]
        erasing == slot # NONE /\ req[slot].code = "ERASE"
                   /\ req[slot].die = d /\ req[slot].block = b
    IN  /\ row.blockedReadReqCnt = Cardinality(BlockedFor(d, b, "READ"))
        /\ row.blockedEraseReqFlag = (BlockedFor(d, b, "ERASE") # {})
        /\ row.permittedProgPage =
             currentPage[d][b] + (IF row.blockedEraseReqFlag \/ erasing THEN P ELSE 0)
             - Cardinality(Unwritten(d, b))

\* Requests run in the order they were made wherever the order matters.  A
\* request on a die's queue waits for none but requests before it on that
\* queue, and a transfer for none: no page is programmed before an earlier one
\* of its block, no page read before it is programmed or after it is erased, no
\* buffer entry refilled before its old content has been used.
OrderKept ==
  /\ \A s \in ToSet(nvmeDmaReqQ) : waitsFor[s] = {}
  /\ \A d \in Die : \A i \in 1..Len(nandReqQ[d]) :
       waitsFor[nandReqQ[d][i]] \subseteq {nandReqQ[d][j] : j \in 1..(i - 1)}

SomethingCanRun ==
  nvmeDmaReqQ # <<>> \/ InNand # {} \/ \E s \in RowBlocked : RowAddrPass(req[s])

\* While a request is waiting something can run: a transfer, a request on a
\* die's queue, or one that its row lets through.
NeverStuck == Running /\ Blocked # {} => SomethingCanRun

\* Every request is done in the end, unless the caller goes on for ever and
\* keeps some die busy for ever: the requests that wait for a row are looked at
\* only when a die's queue is empty, and a stream of requests may starve them.
CallerStops == <>[][freeReqQ \subseteq freeReqQ']_depVars
DieDrains(d) == []<>(pass.at = "release" /\ pass.die = d)
AllDone ==
  CallerStops \/ (\A d \in Die : DieDrains(d)) =>
    \A s \in Slot : s \notin freeReqQ ~> s \in freeReqQ
=============================================================================
