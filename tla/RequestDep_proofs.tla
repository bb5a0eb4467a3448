-------------------------- MODULE RequestDep_proofs --------------------------
(***************************************************************************)
(* For any number of dies, blocks, pages, slots and buffer entries, and    *)
(* any caller.                                                             *)
(*                                                                         *)
(* First, the thread never takes a request from an empty die queue or from *)
(* beyond the end of the DMA queue, and every variable keeps its type.     *)
(*                                                                         *)
(* Second, every slot is in one place, once, and the counters count.       *)
(*                                                                         *)
(* Third, the chain of a buffer entry is the line of its users.  This one  *)
(* needs to know who waits for whom: that of two outstanding requests in   *)
(* conflict one waits for the other, and that the waits are in one         *)
(* direction and without a circle.                                         *)
(*                                                                         *)
(* Fourth, requests in conflict run in the order they were made, the       *)
(* row-address table is exact, and the requests that wait never all wait   *)
(* for each other.                                                         *)
(***************************************************************************)
EXTENDS RequestDep, SequenceTheorems, FiniteSetTheorems, TLAPS

\* Facts about the constants.
LEMMA Constants ==
  /\ D \in Nat /\ B \in Nat /\ P \in Nat /\ D > 0 /\ B > 0 /\ P > 0
  /\ 0 \in Die /\ 0 \in Block /\ 0 \in 0..P
  /\ NONE \notin Slot
  /\ OutOfPass \in PassType
  /\ NoReq \in ReqType
<1>1. /\ D \in Nat /\ B \in Nat /\ P \in Nat /\ D > 0 /\ B > 0 /\ P > 0
      /\ 0 \in Die /\ 0 \in Block /\ 0 \in 0..P
  BY RequestSizes DEF Die, Block
<1> QED
  BY <1>1, RequestNone DEF OutOfPass, PassType, NoReq, ReqType, Codes

\* The slots that ask for nothing.  They are those of freeReqQ, unless the caller
\* takes slots before it knows what for: the steps below leave that open, so
\* that what they keep is kept by such a caller too.
Idle == {s \in Slot : req[s].code = "NONE"}

Makes(s, r) ==
  /\ Running /\ slot = NONE
  /\ s \in Idle
  /\ Legal(r)
  /\ freeReqQ' \in SUBSET Slot
  /\ MakeRequest(s, r)
  /\ currentPage' = PagesAfter(r)

TakesSlots ==
  /\ freeReqQ' \in SUBSET Slot
  /\ UNCHANGED <<tables, lowQueues, counters, dieState, pass, caller>>

AnyStep ==
  \/ Select \/ StartPass \/ PassStep \/ TakesSlots
  \/ \E s \in Slot, r \in Requests : Makes(s, r)

\* What a caller may ask for is a request.
LEMMA RequestsAreTyped == Requests \subseteq ReqType
<1> SUFFICES ASSUME NEW r \in Requests PROVE r \in ReqType
  OBVIOUS
<1>1. CASE \E e \in Buf : r = DmaReq(e)
  BY <1>1, Constants DEF DmaReq, NoReq, ReqType, Codes, Entry
<1>2. CASE \E c \in {"READ", "WRITE"}, d \in Die, b \in Block, p \in 0..(P - 1), e \in Entry :
             r = NandReq(c, d, b, p, e)
  BY <1>2, Constants DEF NandReq, ReqType, Codes
<1>3. CASE \E d \in Die, b \in Block : r = NandReq("ERASE", d, b, P, NONE)
  BY <1>3, Constants DEF NandReq, ReqType, Codes
<1> QED
  BY <1>1, <1>2, <1>3 DEF Requests

\* A row of the table stays one whatever is done to it, and the table with it.
LEMMA RowsAreTyped ==
  ASSUME DepTypeOK, NEW r \in ReqType, NEW counted
  PROVE  /\ Row(r) \in RowType
         /\ RowAddrPass(r) => RowAfterPass(r, counted) \in RowType
         /\ RowAfterBlock(r) \in RowType
         /\ \A row \in RowType : SetRow(r, row) =>
              rowAddrDependencyTable' \in [Die -> [Block -> RowType]]
<1>1. r.die \in Die /\ r.block \in Block /\ r.code \in Codes
  BY DEF ReqType
<1>2. Row(r) \in RowType
  BY <1>1 DEF DepTypeOK, Row
<1>3. ASSUME NEW row \in RowType
      PROVE  /\ [row EXCEPT !.blockedReadReqCnt = @ - 1] \in RowType
             /\ [row EXCEPT !.blockedReadReqCnt = @ + 1] \in RowType
             /\ [row EXCEPT !.permittedProgPage = @ + 1] \in RowType
             /\ [row EXCEPT !.permittedProgPage = 0, !.blockedEraseReqFlag = FALSE] \in RowType
             /\ [row EXCEPT !.blockedEraseReqFlag = TRUE] \in RowType
  <2>1. /\ row.blockedReadReqCnt - 1 \in Int /\ row.blockedReadReqCnt + 1 \in Int
        /\ row.permittedProgPage + 1 \in Int /\ 0 \in Int
    BY DEF RowType
  <2>2. \A x \in Int : [row EXCEPT !.blockedReadReqCnt = x] \in RowType
    BY DEF RowType
  <2>3. \A x \in Int : [row EXCEPT !.permittedProgPage = x] \in RowType
    BY DEF RowType
  <2>4. [row EXCEPT !.blockedEraseReqFlag = TRUE] \in RowType
    BY DEF RowType
  <2>5. \A x \in Int : [row EXCEPT !.permittedProgPage = x, !.blockedEraseReqFlag = FALSE] \in RowType
    BY DEF RowType
  <2> QED
    BY <2>1, <2>2, <2>3, <2>4, <2>5
<1>4. RowAddrPass(r) => RowAfterPass(r, counted) \in RowType
  <2>1. CASE r.code = "READ"
    BY <2>1, <1>2, <1>3 DEF RowAfterPass
  <2>2. CASE r.code = "WRITE"
    BY <2>2, <1>2, <1>3 DEF RowAfterPass
  <2>3. CASE r.code = "ERASE"
    BY <2>3, <1>2, <1>3 DEF RowAfterPass
  <2> QED
    BY <2>1, <2>2, <2>3 DEF RowAddrPass
<1>5. RowAfterBlock(r) \in RowType
  BY <1>2, <1>3 DEF RowAfterBlock
<1>6. ASSUME NEW row \in RowType, SetRow(r, row)
      PROVE  rowAddrDependencyTable' \in [Die -> [Block -> RowType]]
  BY <1>1, <1>6 DEF DepTypeOK, SetRow
<1> QED
  BY <1>2, <1>4, <1>5, <1>6

\* A request that enters a queue leaves none shorter.
LEMMA EnterKeepsTypes ==
  ASSUME DepTypeOK, NEW s \in Slot, NEW counted,
         NEW dma \in Seq(Slot), NEW nand \in [Die -> Seq(Slot)],
         NEW running \in Int, NEW blocked \in Int,
         Enter(s, counted, dma, nand, running, blocked)
  PROVE  /\ rowAddrDependencyTable' \in [Die -> [Block -> RowType]]
         /\ blockedByRowAddrDepReqQ' \in [Die -> Seq(Slot)]
         /\ nvmeDmaReqQ' \in Seq(Slot) /\ Len(nvmeDmaReqQ') >= Len(dma)
         /\ nandReqQ' \in [Die -> Seq(Slot)]
         /\ \A d \in Die : nand[d] # <<>> => nandReqQ'[d] # <<>>
         /\ notCompletedNandReqCnt' \in Int /\ blockedReqCnt' \in Int
<1> DEFINE r == req[s]
<1>1. r \in ReqType /\ r.die \in Die
  BY DEF DepTypeOK, ReqType
<1>2. /\ rowAddrDependencyTable \in [Die -> [Block -> RowType]]
      /\ blockedByRowAddrDepReqQ \in [Die -> Seq(Slot)]
  BY DEF DepTypeOK
<1>3. CASE /\ r.code = "DMA"
           /\ nvmeDmaReqQ' = Append(dma, s)
           /\ nandReqQ' = nand
           /\ notCompletedNandReqCnt' = running
           /\ blockedReqCnt' = blocked
           /\ UNCHANGED <<rowAddrDependencyTable, blockedByRowAddrDepReqQ>>
  BY <1>2, <1>3
<1>4. CASE /\ r.code # "DMA" /\ RowAddrPass(r)
           /\ SetRow(r, RowAfterPass(r, counted))
           /\ nandReqQ' = [nand EXCEPT ![r.die] = Append(@, s)]
           /\ notCompletedNandReqCnt' = running + 1
           /\ nvmeDmaReqQ' = dma
           /\ blockedReqCnt' = blocked
           /\ UNCHANGED blockedByRowAddrDepReqQ
  <2>1. rowAddrDependencyTable' \in [Die -> [Block -> RowType]]
    BY <1>1, <1>4, RowsAreTyped
  <2>2. Append(nand[r.die], s) \in Seq(Slot) /\ Append(nand[r.die], s) # <<>>
    BY <1>1, AppendProperties
  <2>3. /\ nandReqQ' \in [Die -> Seq(Slot)]
        /\ \A d \in Die : nand[d] # <<>> => nandReqQ'[d] # <<>>
    BY <1>1, <1>4, <2>2
  <2> QED
    <3>1. /\ blockedByRowAddrDepReqQ' \in [Die -> Seq(Slot)]
          /\ nvmeDmaReqQ' = dma
          /\ notCompletedNandReqCnt' \in Int /\ blockedReqCnt' \in Int
      BY <1>2, <1>4
    <3>2. Len(dma) >= Len(dma)
      OBVIOUS
    <3> QED
      BY <2>1, <2>3, <3>1, <3>2
<1>5. CASE /\ r.code # "DMA" /\ ~RowAddrPass(r)
           /\ IF counted THEN UNCHANGED rowAddrDependencyTable ELSE SetRow(r, RowAfterBlock(r))
           /\ blockedByRowAddrDepReqQ' = [blockedByRowAddrDepReqQ EXCEPT ![r.die] = Append(@, s)]
           /\ blockedReqCnt' = blocked + 1
           /\ nvmeDmaReqQ' = dma
           /\ nandReqQ' = nand
           /\ notCompletedNandReqCnt' = running
  <2>1. rowAddrDependencyTable' \in [Die -> [Block -> RowType]]
    BY <1>1, <1>2, <1>5, RowsAreTyped
  <2>2. blockedByRowAddrDepReqQ' \in [Die -> Seq(Slot)]
    BY <1>1, <1>2, <1>5
  <2> QED
    BY <1>5, <2>1, <2>2
<1> QED
  BY <1>3, <1>4, <1>5 DEF Enter

\* So does a request that is done, but for the queue it was taken from.
LEMMA CompleteKeepsTypes ==
  ASSUME DepTypeOK, NEW s \in Slot,
         NEW dma \in Seq(Slot), NEW nand \in [Die -> Seq(Slot)], NEW running \in Int,
         Complete(s, dma, nand, running)
  PROVE  /\ req' \in [Slot -> ReqType]
         /\ prevBlockingReq' \in [Slot -> SlotOrNone]
         /\ nextBlockingReq' \in [Slot -> SlotOrNone]
         /\ blockingReqTail' \in [Entry -> SlotOrNone]
         /\ rowAddrDependencyTable' \in [Die -> [Block -> RowType]]
         /\ freeReqQ' \in SUBSET Slot
         /\ blockedByBufDepReqQ' \in SUBSET Slot
         /\ blockedByRowAddrDepReqQ' \in [Die -> Seq(Slot)]
         /\ nvmeDmaReqQ' \in Seq(Slot) /\ Len(nvmeDmaReqQ') >= Len(dma)
         /\ nandReqQ' \in [Die -> Seq(Slot)]
         /\ \A d \in Die : nand[d] # <<>> => nandReqQ'[d] # <<>>
         /\ notCompletedNandReqCnt' \in Int /\ blockedReqCnt' \in Int
         /\ waitsFor' \in [Slot -> SUBSET Slot]
         /\ slot' \in SlotOrNone
         /\ currentPage' \in [Die -> [Block -> 0..P]]
<1> DEFINE t == nextBlockingReq[s]
<1>1. t \in SlotOrNone
  BY DEF DepTypeOK
<1>2. req' \in [Slot -> ReqType]
  BY Constants DEF DepTypeOK, Complete
<1>3. prevBlockingReq' \in [Slot -> SlotOrNone] /\ nextBlockingReq' \in [Slot -> SlotOrNone]
  BY DEF DepTypeOK, Complete, SlotOrNone
<1>4. blockingReqTail' \in [Entry -> SlotOrNone]
  BY DEF DepTypeOK, Complete, TailAfter, SlotOrNone
<1>5. freeReqQ' \in SUBSET Slot
  BY DEF DepTypeOK, Complete
<1>6. waitsFor' \in [Slot -> SUBSET Slot]
  BY DEF DepTypeOK, Complete
<1>7. slot' \in SlotOrNone /\ currentPage' \in [Die -> [Block -> 0..P]]
  BY DEF DepTypeOK, Complete, caller
<1>8. CASE WaitsForBuf(t)
  <2>1. t \in Slot /\ blockedByBufDepReqQ' = blockedByBufDepReqQ \ {t}
        /\ Enter(t, TRUE, dma, nand, running, blockedReqCnt - 1)
    BY <1>1, <1>8 DEF Complete, WaitsForBuf, SlotOrNone
  <2>2. blockedReqCnt - 1 \in Int /\ blockedByBufDepReqQ' \in SUBSET Slot
    BY <2>1 DEF DepTypeOK
  <2> QED
    BY <1>2, <1>3, <1>4, <1>5, <1>6, <1>7, <2>1, <2>2, EnterKeepsTypes
<1>9. CASE ~WaitsForBuf(t)
  <2>1. /\ nvmeDmaReqQ' = dma /\ nandReqQ' = nand /\ notCompletedNandReqCnt' = running
        /\ UNCHANGED <<blockedByBufDepReqQ, blockedByRowAddrDepReqQ, rowAddrDependencyTable,
                       blockedReqCnt>>
    BY <1>9 DEF Complete
  <2> QED
    BY <1>2, <1>3, <1>4, <1>5, <1>6, <1>7, <2>1 DEF DepTypeOK
<1> QED
  BY <1>8, <1>9

\* The queue without the request at i.
LEMMA RemoveAtLen ==
  ASSUME NEW S, NEW q \in Seq(S), NEW i \in 1..Len(q)
  PROVE  RemoveAt(q, i) \in Seq(S) /\ Len(RemoveAt(q, i)) = Len(q) - 1
<1>1. Len(q) \in Nat /\ \A j \in 1..Len(q) : q[j] \in S
  BY ElementOfSeq, LenProperties
<1>2. SubSeq(q, 1, i - 1) \in Seq(S) /\ Len(SubSeq(q, 1, i - 1)) = i - 1
  <2>1. i - 1 \in Int /\ \A j \in 1..(i - 1) : q[j] \in S
    BY <1>1
  <2> QED
    BY <1>1, <2>1, SubSeqProperties
<1>3. SubSeq(q, i + 1, Len(q)) \in Seq(S) /\ Len(SubSeq(q, i + 1, Len(q))) = Len(q) - i
  <2>1. i + 1 \in Int /\ Len(q) \in Int /\ \A j \in (i + 1)..Len(q) : q[j] \in S
    BY <1>1
  <2> QED
    BY <1>1, <2>1, SubSeqProperties
<1> DEFINE a == SubSeq(q, 1, i - 1)
           c == SubSeq(q, i + 1, Len(q))
<1>4. RemoveAt(q, i) = a \o c
  BY DEF RemoveAt
<1>5. a \in Seq(S) /\ Len(a) = i - 1 /\ c \in Seq(S) /\ Len(c) = Len(q) - i
  BY <1>2, <1>3
<1> HIDE DEF a, c
<1>6. a \o c \in Seq(S) /\ Len(a \o c) = Len(a) + Len(c)
  BY <1>5, ConcatProperties, Zenon
<1>7. Len(a) + Len(c) = Len(q) - 1
  BY <1>1, <1>5, SMT
<1> QED
  BY <1>4, <1>6, <1>7, Zenon

-----------------------------------------------------------------------------

LEMMA InitTyped == DepInit => DepInv
<1> SUFFICES ASSUME DepInit PROVE DepInv
  OBVIOUS
<1> USE Constants DEF DepInit
<1>1. req \in [Slot -> ReqType]
  OBVIOUS
<1>2. /\ prevBlockingReq \in [Slot -> SlotOrNone] /\ nextBlockingReq \in [Slot -> SlotOrNone]
      /\ blockingReqTail \in [Entry -> SlotOrNone] /\ slot \in SlotOrNone
  BY DEF SlotOrNone
<1>3. rowAddrDependencyTable \in [Die -> [Block -> RowType]]
  BY DEF RowType
<1>4. /\ <<>> \in Seq(Slot) /\ Len(<<>>) = 0
  OBVIOUS
<1>5. /\ blockedByRowAddrDepReqQ \in [Die -> Seq(Slot)] /\ nandReqQ \in [Die -> Seq(Slot)]
      /\ nvmeDmaReqQ \in Seq(Slot)
  BY <1>4
<1>6. /\ freeReqQ \in SUBSET Slot /\ blockedByBufDepReqQ \in SUBSET Slot
      /\ notCompletedNandReqCnt \in Int /\ blockedReqCnt \in Int
      /\ dieState \in [Die -> {"IDLE", "EXE"}] /\ pass \in PassType
      /\ waitsFor \in [Slot -> SUBSET Slot] /\ currentPage \in [Die -> [Block -> 0..P]]
  OBVIOUS
<1>7. BusyDieHasRequest /\ WalkInQueue
  BY DEF BusyDieHasRequest, WalkInQueue, OutOfPass
<1> QED
  BY <1>1, <1>2, <1>3, <1>5, <1>6, <1>7 DEF DepInv, DepTypeOK

\* A new request.
LEMMA RequestKeepsInv ==
  ASSUME DepInv, NEW s \in Slot, NEW r \in Requests, Makes(s, r)
  PROVE  DepInv'
<1> USE DEF DepInv, DepTypeOK
<1>1. r \in ReqType /\ r.die \in Die /\ r.block \in Block /\ r.entry \in Entry \cup {NONE}
  BY RequestsAreTyped DEF ReqType
<1>2. MakeRequest(s, r) /\ Legal(r) /\ currentPage' = PagesAfter(r) /\ freeReqQ' \in SUBSET Slot
  BY DEF Makes
<1>3. req' \in [Slot -> ReqType]
  BY <1>1, <1>2 DEF MakeRequest
<1>4. prevBlockingReq' \in [Slot -> SlotOrNone] /\ nextBlockingReq' \in [Slot -> SlotOrNone]
  BY <1>1, <1>2 DEF MakeRequest, SlotOrNone
<1>5. blockingReqTail' \in [Entry -> SlotOrNone] /\ slot' \in SlotOrNone
  BY <1>1, <1>2 DEF MakeRequest, SlotOrNone
<1>6. waitsFor' \in [Slot -> SUBSET Slot]
  BY <1>2 DEF MakeRequest
<1>7. currentPage' \in [Die -> [Block -> 0..P]]
  <2>1. CASE r.code = "WRITE"
    <3>1. currentPage[r.die][r.block] + 1 \in 0..P
      <4>1. currentPage[r.die][r.block] \in 0..P
        BY <1>1
      <4>2. r.page = currentPage[r.die][r.block] /\ r.page < P
        BY <1>2, <2>1 DEF Legal
      <4> HIDE DEF DepInv, DepTypeOK
      <4> QED
        BY <4>1, <4>2, Constants
    <3> QED
      BY <1>1, <1>2, <2>1, <3>1 DEF PagesAfter
  <2>2. CASE r.code = "ERASE"
    BY <1>1, <1>2, <2>2, Constants DEF PagesAfter
  <2>3. CASE r.code \notin {"WRITE", "ERASE"}
    BY <1>2, <2>3 DEF PagesAfter
  <2> QED
    BY <2>1, <2>2, <2>3
<1>8. UNCHANGED <<rowAddrDependencyTable, blockedByBufDepReqQ, blockedByRowAddrDepReqQ,
                  nvmeDmaReqQ, nandReqQ, notCompletedNandReqCnt, blockedReqCnt, dieState, pass>>
  BY <1>2 DEF MakeRequest, lowQueues, counters
<1> QED
  BY <1>2, <1>3, <1>4, <1>5, <1>6, <1>7, <1>8 DEF BusyDieHasRequest, WalkInQueue

\* The request in hand goes to a queue.
LEMMA SelectKeepsInv ==
  ASSUME DepInv, Select
  PROVE  DepInv'
<1> USE DEF DepInv, DepTypeOK
<1>1. slot \in Slot /\ SelectLowLevelReqQ(slot)
  BY DEF Select, SlotOrNone
<1>2. /\ slot' \in SlotOrNone /\ Running
      /\ UNCHANGED <<req, prevBlockingReq, nextBlockingReq, blockingReqTail, freeReqQ, dieState,
                     pass, waitsFor, currentPage>>
  BY <1>1 DEF SelectLowLevelReqQ, SlotOrNone, chainVars
<1>3. WalkInQueue'
  BY <1>2 DEF WalkInQueue, Running, OutOfPass
<1>4. CASE CheckBufDep(slot)
  <2>1. /\ Enter(slot, FALSE, nvmeDmaReqQ, nandReqQ, notCompletedNandReqCnt, blockedReqCnt)
        /\ UNCHANGED blockedByBufDepReqQ
    BY <1>1, <1>4 DEF SelectLowLevelReqQ
  <2>2. /\ rowAddrDependencyTable' \in [Die -> [Block -> RowType]]
        /\ blockedByRowAddrDepReqQ' \in [Die -> Seq(Slot)]
        /\ nvmeDmaReqQ' \in Seq(Slot)
        /\ nandReqQ' \in [Die -> Seq(Slot)]
        /\ \A d \in Die : nandReqQ[d] # <<>> => nandReqQ'[d] # <<>>
        /\ notCompletedNandReqCnt' \in Int /\ blockedReqCnt' \in Int
    BY <1>1, <2>1, EnterKeepsTypes
  <2> QED
    BY <1>2, <1>3, <2>1, <2>2 DEF BusyDieHasRequest
<1>5. CASE ~CheckBufDep(slot)
  <2>1. /\ blockedByBufDepReqQ' = blockedByBufDepReqQ \cup {slot}
        /\ blockedReqCnt' = blockedReqCnt + 1
        /\ IF req[slot].code = "DMA" THEN UNCHANGED rowAddrDependencyTable
                                     ELSE SetRow(req[slot], RowAfterBlock(req[slot]))
        /\ UNCHANGED <<blockedByRowAddrDepReqQ, nvmeDmaReqQ, nandReqQ, notCompletedNandReqCnt>>
    BY <1>1, <1>5 DEF SelectLowLevelReqQ
  <2>2. rowAddrDependencyTable' \in [Die -> [Block -> RowType]]
    BY <1>1, <2>1, RowsAreTyped
  <2> QED
    BY <1>1, <1>2, <1>3, <2>1, <2>2 DEF BusyDieHasRequest
<1> QED
  BY <1>4, <1>5

\* A pass that moves on by one place.
LEMMA PlaceMoves ==
  ASSUME NEW p \in PassType, NEW n \in Nat
  PROVE  /\ [p EXCEPT !.i = n] \in PassType
         /\ [p EXCEPT !.i = n].i = n
         /\ [p EXCEPT !.i = n].at = p.at /\ [p EXCEPT !.i = n].die = p.die
BY DEF PassType

\* Where a pass goes from a die.
LEMMA Places ==
  ASSUME NEW d \in Die
  PROVE  /\ \A q : /\ AfterStatus(d, q) \in PassType /\ AfterStatus(d, q).at # "dma"
                   /\ AfterStatus(d, q).at = "release" => AfterStatus(d, q).i = 1
                   /\ AfterStatus(d, q).die = d
         /\ NextDie(d) \in PassType /\ NextDie(d).at \notin {"dma", "release"}
<1>1. d \in Nat /\ d < D => d + 1 \in Nat /\ (d < D - 1 => d + 1 \in Die)
  BY Constants DEF Die
<1>2. NextDie(d) \in PassType /\ NextDie(d).at \notin {"dma", "release"}
  <2>1. CASE d < D - 1
    <3>1. d + 1 \in Die
      BY <2>1, Constants DEF Die
    <3> QED
      BY <2>1, <3>1 DEF NextDie, PassType
  <2>2. CASE ~(d < D - 1)
    BY <2>2, Constants DEF NextDie, OutOfPass
  <2> QED
    BY <2>1, <2>2
<1>3. ASSUME NEW q
      PROVE  /\ AfterStatus(d, q) \in PassType /\ AfterStatus(d, q).at # "dma"
             /\ AfterStatus(d, q).at = "release" => AfterStatus(d, q).i = 1
             /\ AfterStatus(d, q).die = d
  BY DEF AfterStatus, PassType
<1> QED
  BY <1>2, <1>3

\* The steps of a pass that move no request.
LEMMA QuietStepKeepsInv ==
  ASSUME DepInv,
         UNCHANGED <<tables, freeReqQ, lowQueues, counters, caller>>,
         pass' \in PassType,
         pass'.at = "dma" => pass'.i <= Len(nvmeDmaReqQ),
         pass'.at = "release" => pass'.i \in 1..(Len(blockedByRowAddrDepReqQ[pass'.die]) + 1),
         dieState' \in [Die -> {"IDLE", "EXE"}],
         \A d \in Die : dieState'[d] = "EXE" => nandReqQ[d] # <<>>
  PROVE  DepInv'
<1>1. UNCHANGED <<req, prevBlockingReq, nextBlockingReq, blockingReqTail, rowAddrDependencyTable,
                  waitsFor, freeReqQ, blockedByBufDepReqQ, blockedByRowAddrDepReqQ, nvmeDmaReqQ,
                  nandReqQ, notCompletedNandReqCnt, blockedReqCnt, slot, currentPage>>
  BY DEF tables, chainVars, lowQueues, counters, caller
<1> QED
  BY <1>1 DEF DepInv, DepTypeOK, BusyDieHasRequest, WalkInQueue

\* The walk over the DMA queue: the transfer at pass.i goes, and the queue
\* may grow behind it.
LEMMA TransferKeepsInv ==
  ASSUME DepInv, CheckDoneNvmeDmaReq
  PROVE  DepInv'
<1> USE DEF DepInv, DepTypeOK
<1> DEFINE s == nvmeDmaReqQ[pass.i]
           dma == RemoveAt(nvmeDmaReqQ, pass.i)
<1>1. /\ pass.at = "dma" /\ pass.i > 0 /\ dieState' = dieState
      /\ Complete(s, dma, nandReqQ, notCompletedNandReqCnt)
      /\ pass' = [pass EXCEPT !.i = @ - 1]
  BY DEF CheckDoneNvmeDmaReq
<1>2. Len(nvmeDmaReqQ) \in Nat /\ pass.i \in 1..Len(nvmeDmaReqQ)
  BY <1>1, LenProperties DEF WalkInQueue, PassType
<1>3. s \in Slot
  BY <1>2, ElementOfSeq
<1>4. dma \in Seq(Slot) /\ Len(dma) = Len(nvmeDmaReqQ) - 1
  BY <1>2, RemoveAtLen
<1> HIDE DEF s, dma
<1>5. /\ req' \in [Slot -> ReqType]
      /\ prevBlockingReq' \in [Slot -> SlotOrNone]
      /\ nextBlockingReq' \in [Slot -> SlotOrNone]
      /\ blockingReqTail' \in [Entry -> SlotOrNone]
      /\ rowAddrDependencyTable' \in [Die -> [Block -> RowType]]
      /\ freeReqQ' \in SUBSET Slot
      /\ blockedByBufDepReqQ' \in SUBSET Slot
      /\ blockedByRowAddrDepReqQ' \in [Die -> Seq(Slot)]
      /\ nvmeDmaReqQ' \in Seq(Slot) /\ Len(nvmeDmaReqQ') >= Len(dma)
      /\ nandReqQ' \in [Die -> Seq(Slot)]
      /\ \A d \in Die : nandReqQ[d] # <<>> => nandReqQ'[d] # <<>>
      /\ notCompletedNandReqCnt' \in Int /\ blockedReqCnt' \in Int
      /\ waitsFor' \in [Slot -> SUBSET Slot]
      /\ slot' \in SlotOrNone
      /\ currentPage' \in [Die -> [Block -> 0..P]]
  BY <1>1, <1>3, <1>4, CompleteKeepsTypes
<1>6. pass' \in PassType /\ pass'.i = pass.i - 1 /\ pass'.at = "dma"
  <2>1. pass.i - 1 \in Nat /\ pass' = [pass EXCEPT !.i = pass.i - 1]
    BY <1>1, <1>2
  <2> QED
    BY <1>1, <2>1, PlaceMoves
<1>7. WalkInQueue'
  <2>1. Len(nvmeDmaReqQ') \in Nat
    BY <1>5, LenProperties
  <2>2. pass.i - 1 <= Len(nvmeDmaReqQ')
    BY <1>2, <1>4, <1>5, <2>1
  <2> QED
    BY <1>6, <2>2 DEF WalkInQueue
<1>8. BusyDieHasRequest'
  BY <1>1, <1>5 DEF BusyDieHasRequest
<1> QED
  BY <1>1, <1>5, <1>6, <1>7, <1>8

\* A die is done with the head of its queue.
LEMMA FinishKeepsInv ==
  ASSUME DepInv, NEW d \in Die, FinishNandReq(d)
  PROVE  DepInv'
<1> USE DEF DepInv, DepTypeOK
<1> DEFINE s == Head(nandReqQ[d])
           nand == [nandReqQ EXCEPT ![d] = Tail(@)]
<1>1. /\ dieState[d] = "EXE" /\ dieState' = [dieState EXCEPT ![d] = "IDLE"]
      /\ Complete(s, nvmeDmaReqQ, nand, notCompletedNandReqCnt - 1)
      /\ pass' = AfterStatus(d, nandReqQ'[d])
  BY DEF FinishNandReq
<1>2. nandReqQ[d] \in Seq(Slot) /\ nandReqQ[d] # <<>>
  BY <1>1 DEF BusyDieHasRequest
<1>3. s \in Slot /\ Tail(nandReqQ[d]) \in Seq(Slot)
  BY <1>2, HeadTailProperties
<1>4. /\ nand \in [Die -> Seq(Slot)]
      /\ \A x \in Die \ {d} : nand[x] = nandReqQ[x]
  BY <1>3
<1>5. notCompletedNandReqCnt - 1 \in Int
  OBVIOUS
<1> HIDE DEF s, nand
<1>6. /\ req' \in [Slot -> ReqType]
      /\ prevBlockingReq' \in [Slot -> SlotOrNone]
      /\ nextBlockingReq' \in [Slot -> SlotOrNone]
      /\ blockingReqTail' \in [Entry -> SlotOrNone]
      /\ rowAddrDependencyTable' \in [Die -> [Block -> RowType]]
      /\ freeReqQ' \in SUBSET Slot
      /\ blockedByBufDepReqQ' \in SUBSET Slot
      /\ blockedByRowAddrDepReqQ' \in [Die -> Seq(Slot)]
      /\ nvmeDmaReqQ' \in Seq(Slot)
      /\ nandReqQ' \in [Die -> Seq(Slot)]
      /\ \A x \in Die : nand[x] # <<>> => nandReqQ'[x] # <<>>
      /\ notCompletedNandReqCnt' \in Int /\ blockedReqCnt' \in Int
      /\ waitsFor' \in [Slot -> SUBSET Slot]
      /\ slot' \in SlotOrNone
      /\ currentPage' \in [Die -> [Block -> 0..P]]
  BY <1>1, <1>3, <1>4, <1>5, CompleteKeepsTypes
<1>7. /\ pass' \in PassType /\ pass'.at # "dma" /\ pass'.die = d
      /\ pass'.at = "release" => pass'.i = 1
  BY <1>1, Places
<1>8. dieState' \in [Die -> {"IDLE", "EXE"}]
  BY <1>1
<1>9. BusyDieHasRequest'
  BY <1>1, <1>4, <1>6 DEF BusyDieHasRequest
<1>10. WalkInQueue'
  <2>1. Len(blockedByRowAddrDepReqQ'[d]) \in Nat
    BY <1>6, LenProperties
  <2>2. 1 \in 1..(Len(blockedByRowAddrDepReqQ'[d]) + 1)
    BY <2>1
  <2> QED
    BY <1>7, <2>2 DEF WalkInQueue
<1> QED
  BY <1>6, <1>7, <1>8, <1>9, <1>10

\* A turn of the walk over the requests that wait for their row.
LEMMA ReleaseKeepsInv ==
  ASSUME DepInv, NEW d \in Die, ReleaseBlockedByRowAddrDepReq(d)
  PROVE  DepInv'
<1> USE DEF DepInv, DepTypeOK
<1> DEFINE q == blockedByRowAddrDepReqQ[d]
           s == q[pass.i]
<1>1. /\ pass.at = "release" /\ pass.i <= Len(q)
      /\ UNCHANGED <<req, prevBlockingReq, nextBlockingReq, blockingReqTail, waitsFor, freeReqQ,
                     blockedByBufDepReqQ, nvmeDmaReqQ, dieState, slot, currentPage>>
  BY DEF ReleaseBlockedByRowAddrDepReq, chainVars, caller
<1>a. /\ pass.die = d /\ pass.i \in Nat /\ pass.i > 0
      /\ q \in Seq(Slot) /\ Len(q) \in Nat /\ pass.i \in 1..Len(q)
  <2>1. pass.die = d
    BY DEF ReleaseBlockedByRowAddrDepReq
  <2>2. q \in Seq(Slot) /\ Len(q) \in Nat
    BY LenProperties
  <2>3. pass.i \in 1..(Len(q) + 1)
    BY <1>1, <2>1 DEF WalkInQueue
  <2> QED
    BY <1>1, <2>1, <2>2, <2>3
<1>2. CASE ~RowAddrPass(req[s])
  <2>1. /\ pass' = [pass EXCEPT !.i = @ + 1]
        /\ UNCHANGED <<rowAddrDependencyTable, blockedByRowAddrDepReqQ, nandReqQ,
                       notCompletedNandReqCnt, blockedReqCnt>>
    BY <1>2 DEF ReleaseBlockedByRowAddrDepReq, counters
  <2>2. /\ pass' \in PassType /\ pass'.at = "release"
        /\ pass'.i = pass.i + 1 /\ pass'.die = d
    <3>1. pass.i + 1 \in Nat /\ pass' = [pass EXCEPT !.i = pass.i + 1]
      BY <1>a, <2>1
    <3> QED
      BY <1>1, <1>a, <3>1, PlaceMoves
  <2>3. pass.i + 1 \in 1..(Len(q) + 1)
    BY <1>a
  <2>4. WalkInQueue'
    BY <2>1, <2>2, <2>3 DEF WalkInQueue
  <2> QED
    BY <1>1, <2>1, <2>2, <2>4 DEF BusyDieHasRequest
<1>3. CASE RowAddrPass(req[s])
  <2>1. /\ SetRow(req[s], RowAfterPass(req[s], TRUE))
        /\ blockedByRowAddrDepReqQ' = [blockedByRowAddrDepReqQ EXCEPT ![d] = RemoveAt(@, pass.i)]
        /\ nandReqQ' = [nandReqQ EXCEPT ![d] = Append(@, s)]
        /\ notCompletedNandReqCnt' = notCompletedNandReqCnt + 1
        /\ blockedReqCnt' = blockedReqCnt - 1
        /\ UNCHANGED pass
    BY <1>3 DEF ReleaseBlockedByRowAddrDepReq
  <2>3. /\ s \in Slot /\ RemoveAt(q, pass.i) \in Seq(Slot)
        /\ Len(RemoveAt(q, pass.i)) = Len(q) - 1
    BY <1>a, ElementOfSeq, RemoveAtLen
  <2>4. req[s] \in ReqType
    BY <2>3
  <2>5. rowAddrDependencyTable' \in [Die -> [Block -> RowType]]
    BY <1>3, <2>1, <2>4, RowsAreTyped
  <2>6. Append(nandReqQ[d], s) \in Seq(Slot) /\ Append(nandReqQ[d], s) # <<>>
    <3>1. nandReqQ[d] \in Seq(Slot)
      OBVIOUS
    <3>2. s \in Slot
      BY <2>3
    <3> HIDE DEF s, q, DepInv, DepTypeOK
    <3> QED
      BY <3>1, <3>2, AppendProperties
  <2>7. nandReqQ' \in [Die -> Seq(Slot)] /\ BusyDieHasRequest'
    BY <1>1, <2>1, <2>6 DEF BusyDieHasRequest
  <2>8. blockedByRowAddrDepReqQ' \in [Die -> Seq(Slot)]
    BY <2>1, <2>3
  <2>9. WalkInQueue'
    <3>1. pass.i \in 1..(Len(RemoveAt(q, pass.i)) + 1)
      BY <1>a, <2>3
    <3>2. blockedByRowAddrDepReqQ'[d] = RemoveAt(q, pass.i)
      BY <2>1
    <3> QED
      BY <1>1, <1>a, <2>1, <3>1, <3>2 DEF WalkInQueue
  <2> QED
    BY <1>1, <2>1, <2>5, <2>7, <2>8, <2>9
<1> QED
  BY <1>2, <1>3

-----------------------------------------------------------------------------

\* Every step of a pass.
LEMMA PassStepKeepsInv == ASSUME DepInv, PassStep PROVE DepInv'
<1>1. /\ pass \in PassType /\ pass.die \in Die /\ Len(nvmeDmaReqQ) \in Nat
      /\ dieState \in [Die -> {"IDLE", "EXE"}]
      /\ \A d \in Die : /\ dieState[d] = "EXE" => nandReqQ[d] # <<>>
                        /\ Len(blockedByRowAddrDepReqQ[d]) \in Nat
  BY LenProperties DEF DepInv, DepTypeOK, BusyDieHasRequest, PassType
<1>2. CASE CheckDoneNvmeDmaReq
  BY <1>2, TransferKeepsInv
<1>3. CASE CheckDoneEnds
  <2>1. pass' = [pass EXCEPT !.at = "status"] /\ dieState' = dieState
    BY <1>3 DEF CheckDoneEnds
  <2>2. pass' \in PassType /\ pass'.at = "status"
    BY <1>1, <2>1 DEF PassType
  <2> QED
    BY <1>1, <1>3, <2>1, <2>2, QuietStepKeepsInv DEF CheckDoneEnds
<1>4. ASSUME NEW d \in Die, FinishNandReq(d) PROVE DepInv'
  BY <1>4, FinishKeepsInv
<1>5. ASSUME NEW d \in Die, DieIdle(d) PROVE DepInv'
  <2>1. pass' = AfterStatus(d, nandReqQ[d]) /\ dieState' = dieState
    BY <1>5 DEF DieIdle
  <2>2. /\ pass' \in PassType /\ pass'.at # "dma" /\ pass'.die = d
        /\ pass'.at = "release" => pass'.i = 1
    BY <2>1, Places
  <2>3. 1 \in 1..(Len(blockedByRowAddrDepReqQ[d]) + 1)
    BY <1>1
  <2> QED
    BY <1>1, <1>5, <2>1, <2>2, <2>3, QuietStepKeepsInv DEF DieIdle
<1>6. ASSUME NEW d \in Die, ReleaseBlockedByRowAddrDepReq(d) PROVE DepInv'
  BY <1>6, ReleaseKeepsInv
<1>7. ASSUME NEW d \in Die, ReleaseEnds(d) PROVE DepInv'
  <2>1. pass' = [at |-> "issue", die |-> d, i |-> 0] /\ dieState' = dieState
    BY <1>7 DEF ReleaseEnds
  <2>2. pass' \in PassType /\ pass'.at = "issue"
    BY <2>1 DEF PassType
  <2> QED
    BY <1>1, <1>7, <2>1, <2>2, QuietStepKeepsInv DEF ReleaseEnds
<1>8. ASSUME NEW d \in Die, IssueNandReq(d) PROVE DepInv'
  <2>1. /\ pass' = NextDie(d) /\ nandReqQ[d] # <<>>
        /\ dieState' = [dieState EXCEPT ![d] = "EXE"]
    BY <1>8 DEF IssueNandReq
  <2>2. pass' \in PassType /\ pass'.at \notin {"dma", "release"}
    BY <2>1, Places
  <2>3. /\ dieState' \in [Die -> {"IDLE", "EXE"}]
        /\ \A x \in Die : dieState'[x] = "EXE" => nandReqQ[x] # <<>>
    BY <1>1, <2>1
  <2> QED
    BY <1>8, <2>2, <2>3, QuietStepKeepsInv DEF IssueNandReq
<1>9. ASSUME NEW d \in Die, LeaveDie(d) PROVE DepInv'
  <2>1. pass' = NextDie(d) /\ dieState' = dieState
    BY <1>9 DEF LeaveDie
  <2>2. pass' \in PassType /\ pass'.at \notin {"dma", "release"}
    BY <2>1, Places
  <2> QED
    BY <1>1, <1>9, <2>1, <2>2, QuietStepKeepsInv DEF LeaveDie
<1> QED
  BY <1>2, <1>3, <1>4, <1>5, <1>6, <1>7, <1>8, <1>9 DEF PassStep

\* Every step.
LEMMA StepKeepsInv == ASSUME DepInv, AnyStep PROVE DepInv'
<1>1. CASE Select
  BY <1>1, SelectKeepsInv
<1>2. CASE StartPass
  <2>1. dieState' = dieState
    BY <1>2 DEF StartPass
  <2>2. /\ Len(nvmeDmaReqQ) \in Nat /\ dieState \in [Die -> {"IDLE", "EXE"}]
        /\ \A d \in Die : dieState[d] = "EXE" => nandReqQ[d] # <<>>
    BY LenProperties DEF DepInv, DepTypeOK, BusyDieHasRequest
  <2>3. pass' = [at |-> "dma", die |-> 0, i |-> Len(nvmeDmaReqQ)]
    BY <1>2 DEF StartPass
  <2>4. /\ pass' \in PassType /\ pass'.at = "dma" /\ pass'.i <= Len(nvmeDmaReqQ)
    BY <2>2, <2>3, Constants DEF PassType
  <2> QED
    BY <1>2, <2>1, <2>2, <2>4, QuietStepKeepsInv DEF StartPass
<1>3. CASE PassStep
  BY <1>3, PassStepKeepsInv
<1>4. ASSUME NEW s \in Slot, NEW r \in Requests, Makes(s, r) PROVE DepInv'
  BY <1>4, RequestKeepsInv
<1>5. CASE TakesSlots
  BY <1>5 DEF TakesSlots, DepInv, DepTypeOK, BusyDieHasRequest, WalkInQueue, tables, chainVars,
     lowQueues, counters, caller
<1> QED
  BY <1>1, <1>2, <1>3, <1>4, <1>5 DEF AnyStep

\* A slot that is asked for something, and one that is done.
LEMMA IdleAfter ==
  ASSUME req \in [Slot -> ReqType], NEW s \in Slot, NEW r, req' = [req EXCEPT ![s] = r]
  PROVE  /\ r.code # "NONE" => Idle' = Idle \ {s}
         /\ r.code = "NONE" => Idle' = Idle \cup {s}
BY DEF Idle

LEMMA RequestHasCode == \A r \in Requests : r.code # "NONE"
<1> SUFFICES ASSUME NEW r \in Requests PROVE r.code # "NONE"
  OBVIOUS
<1>1. CASE \E e \in Buf : r = DmaReq(e)
  BY <1>1 DEF DmaReq, NoReq
<1>2. CASE \E c \in {"READ", "WRITE"}, d \in Die, b \in Block, p \in 0..(P - 1), e \in Entry :
             r = NandReq(c, d, b, p, e)
  BY <1>2 DEF NandReq
<1>3. CASE \E d \in Die, b \in Block : r = NandReq("ERASE", d, b, P, NONE)
  BY <1>3 DEF NandReq
<1> QED
  BY <1>1, <1>2, <1>3 DEF Requests

\* The caller of DepNext takes a slot when it fills it.
FreeIsIdle == freeReqQ = Idle

LEMMA CompleteFrees ==
  ASSUME DepInv, FreeIsIdle, NEW s \in Slot, NEW dma, NEW nand, NEW running,
         Complete(s, dma, nand, running)
  PROVE  FreeIsIdle'
<1>1. freeReqQ' = freeReqQ \cup {s} /\ req' = [req EXCEPT ![s] = NoReq] /\ NoReq.code = "NONE"
  BY DEF Complete, NoReq
<1>2. Idle' = Idle \cup {s}
  BY <1>1, IdleAfter DEF DepInv, DepTypeOK
<1> QED
  BY <1>1, <1>2 DEF FreeIsIdle

LEMMA NextIsAny ==
  ASSUME DepInv, FreeIsIdle, [DepNext]_depVars
  PROVE  AnyStep /\ FreeIsIdle'
<1>1. CASE UNCHANGED <<req, freeReqQ>> /\ (Select \/ StartPass \/ PassStep)
  BY <1>1 DEF AnyStep, FreeIsIdle, Idle
<1>2. CASE UNCHANGED depVars
  BY <1>2 DEF AnyStep, TakesSlots, FreeIsIdle, Idle, depVars, tables, DepInv, DepTypeOK
<1>3. CASE Select
  BY <1>1, <1>3 DEF Select, SelectLowLevelReqQ
<1>4. CASE Schedule
  BY <1>1, <1>4 DEF Schedule, StartPass, tables
<1>5. ASSUME NEW s \in Slot, NEW r \in Requests, Request(s, r) PROVE AnyStep /\ FreeIsIdle'
  <2>1. /\ freeReqQ' = freeReqQ \ {s} /\ req' = [req EXCEPT ![s] = r] /\ freeReqQ \in SUBSET Slot
    BY <1>5 DEF Request, MakeRequest, DepInv, DepTypeOK
  <2>2. Idle' = Idle \ {s}
    BY <2>1, IdleAfter, RequestHasCode DEF DepInv, DepTypeOK
  <2>3. Makes(s, r)
    BY <1>5, <2>1 DEF Request, Makes, FreeIsIdle
  <2> QED
    BY <2>1, <2>2, <2>3 DEF AnyStep, FreeIsIdle
<1>6. CASE PassStep
  <2>1. CASE CheckDoneNvmeDmaReq
    <3>1. pass.i > 0 /\ pass.i \in Nat /\ pass.i <= Len(nvmeDmaReqQ) /\ nvmeDmaReqQ \in Seq(Slot)
      BY <2>1 DEF CheckDoneNvmeDmaReq, DepInv, DepTypeOK, WalkInQueue, PassType
    <3>2. nvmeDmaReqQ[pass.i] \in Slot
      BY <3>1, ElementOfSeq
    <3> QED
      BY <1>6, <2>1, <3>2, CompleteFrees DEF CheckDoneNvmeDmaReq, AnyStep
  <2>2. ASSUME NEW d \in Die, FinishNandReq(d) PROVE FreeIsIdle'
    <3>1. nandReqQ[d] \in Seq(Slot) /\ nandReqQ[d] # <<>>
      BY <2>2 DEF FinishNandReq, DepInv, DepTypeOK, BusyDieHasRequest
    <3>2. Head(nandReqQ[d]) \in Slot
      BY <3>1, HeadTailProperties
    <3> QED
      BY <2>2, <3>2, CompleteFrees DEF FinishNandReq
  <2>3. CASE CheckDoneEnds
    BY <1>1, <1>6, <2>3 DEF CheckDoneEnds, tables
  <2>4. ASSUME NEW d \in Die, DieIdle(d) \/ ReleaseEnds(d) \/ IssueNandReq(d) \/ LeaveDie(d)
                              \/ ReleaseBlockedByRowAddrDepReq(d)
        PROVE  FreeIsIdle'
    BY <1>1, <1>6, <2>4 DEF DieIdle, ReleaseEnds, IssueNandReq, LeaveDie,
       ReleaseBlockedByRowAddrDepReq, tables
  <2> QED
    BY <1>6, <2>1, <2>2, <2>3, <2>4 DEF PassStep, AnyStep
<1> QED
  BY <1>2, <1>3, <1>4, <1>5, <1>6 DEF DepNext, Thread

LEMMA InitFree == DepInit => FreeIsIdle
BY DEF DepInit, FreeIsIdle, Idle, NoReq

\* Whatever the caller asks for and however the dies behave, every queue, link
\* and table entry keeps its type, a die that executes has a request at the
\* head of its queue when it reports done (ExecuteNandReq takes that head), and
\* the walks of CheckDoneNvmeDmaReq and ReleaseBlockedByRowAddrDepReq stay in
\* their queues although the requests they complete and release change them.
THEOREM RequestsWellFormed == DepSpec => []DepInv
<1>1. DepInit => DepInv /\ FreeIsIdle
  BY InitTyped, InitFree
<1>2. DepInv /\ FreeIsIdle /\ [DepNext]_depVars => (DepInv /\ FreeIsIdle)'
  BY StepKeepsInv, NextIsAny
<1> QED
  BY <1>1, <1>2, PTL DEF DepSpec

\* What AnyStep keeps, DepSpec keeps.
LEMMA StepsAreAny == DepSpec => []FreeIsIdle /\ [][AnyStep]_depVars
<1>1. DepInit => DepInv /\ FreeIsIdle
  BY InitTyped, InitFree
<1>2. DepInv /\ FreeIsIdle /\ [DepNext]_depVars => (DepInv /\ FreeIsIdle)' /\ [AnyStep]_depVars
  BY StepKeepsInv, NextIsAny
<1> QED
  BY <1>1, <1>2, PTL DEF DepSpec

-----------------------------------------------------------------------------
\* A queue with one more request, and one less.
LEMMA AppendSet ==
  ASSUME NEW S, NEW q \in Seq(S), NEW x \in S
  PROVE  /\ ToSet(Append(q, x)) = ToSet(q) \cup {x}
         /\ IsInjective(q) /\ x \notin ToSet(q) => IsInjective(Append(q, x))
<1> DEFINE r == Append(q, x)
<1>1. /\ Len(q) \in Nat /\ DOMAIN q = 1..Len(q)
      /\ r \in Seq(S) /\ Len(r) = Len(q) + 1 /\ DOMAIN r = 1..(Len(q) + 1)
      /\ \A i \in 1..Len(q) : r[i] = q[i]
      /\ r[Len(q) + 1] = x
  BY AppendProperties, LenProperties
<1> HIDE DEF r
<1>2. ToSet(r) = ToSet(q) \cup {x}
  BY <1>1 DEF ToSet
<1>3. IsInjective(q) /\ x \notin ToSet(q) => IsInjective(r)
  BY <1>1 DEF ToSet, IsInjective
<1> QED
  BY <1>2, <1>3 DEF r

LEMMA RemoveAtElements ==
  ASSUME NEW S, NEW q \in Seq(S), NEW i \in 1..Len(q)
  PROVE  \A j \in 1..(Len(q) - 1) : RemoveAt(q, i)[j] = IF j < i THEN q[j] ELSE q[j + 1]
<1>1. Len(q) \in Nat /\ \A j \in 1..Len(q) : q[j] \in S
  BY ElementOfSeq, LenProperties
<1> DEFINE a == SubSeq(q, 1, i - 1)
           c == SubSeq(q, i + 1, Len(q))
<1>2. a \in Seq(S) /\ Len(a) = i - 1 /\ \A j \in 1..(i - 1) : a[j] = q[j]
  <2>1. i - 1 \in Int /\ \A j \in 1..(i - 1) : q[j] \in S
    BY <1>1
  <2> QED
    BY <1>1, <2>1, SubSeqProperties
<1>3. c \in Seq(S) /\ Len(c) = Len(q) - i /\ \A j \in 1..(Len(q) - i) : c[j] = q[j + i]
  <2>1. i + 1 \in Int /\ Len(q) \in Int /\ \A j \in (i + 1)..Len(q) : q[j] \in S
    BY <1>1
  <2>2. \A j \in 1..(Len(q) - i) : c[j] = q[i + 1 + j - 1]
    BY <2>1, SubSeqProperties
  <2>3. c \in Seq(S) /\ Len(c) = Len(q) - i
    BY <1>1, <2>1, SubSeqProperties
  <2>4. \A j \in 1..(Len(q) - i) : i + 1 + j - 1 = j + i
    BY <1>1
  <2> QED
    BY <2>2, <2>3, <2>4
<1>4. RemoveAt(q, i) = a \o c
  BY DEF RemoveAt
<1> HIDE DEF a, c
<1>5. \A j \in 1..(Len(a) + Len(c)) : (a \o c)[j] = IF j <= Len(a) THEN a[j] ELSE c[j - Len(a)]
  BY <1>2, <1>3, ConcatProperties
<1>6. ASSUME NEW j \in 1..(Len(q) - 1)
      PROVE  (a \o c)[j] = IF j < i THEN q[j] ELSE q[j + 1]
  <2>1. j \in 1..(Len(a) + Len(c))
    BY <1>1, <1>2, <1>3
  <2>2. CASE j < i
    BY <1>1, <1>2, <1>5, <2>1, <2>2
  <2>3. CASE ~(j < i)
    <3>1. (a \o c)[j] = c[j - (i - 1)]
      BY <1>1, <1>2, <1>5, <2>1, <2>3
    <3>2. j - (i - 1) \in 1..(Len(q) - i)
      BY <1>1, <2>3
    <3>3. c[j - (i - 1)] = q[(j - (i - 1)) + i]
      BY <1>3, <3>2
    <3>4. (j - (i - 1)) + i = j + 1
      BY <1>1
    <3> QED
      BY <2>3, <3>1, <3>3, <3>4
  <2> QED
    BY <2>2, <2>3
<1> QED
  BY <1>4, <1>6

LEMMA RemoveAtSet ==
  ASSUME NEW S, NEW q \in Seq(S), NEW i \in 1..Len(q), IsInjective(q)
  PROVE  /\ ToSet(RemoveAt(q, i)) = ToSet(q) \ {q[i]}
         /\ IsInjective(RemoveAt(q, i))
<1> DEFINE r == RemoveAt(q, i)
<1>1. /\ Len(q) \in Nat /\ DOMAIN q = 1..Len(q)
      /\ r \in Seq(S) /\ Len(r) = Len(q) - 1 /\ DOMAIN r = 1..(Len(q) - 1)
      /\ \A j \in 1..(Len(q) - 1) : r[j] = IF j < i THEN q[j] ELSE q[j + 1]
  BY RemoveAtLen, RemoveAtElements, LenProperties
<1> HIDE DEF r
<1>2. \A j, k \in 1..Len(q) : q[j] = q[k] => j = k
  BY <1>1 DEF IsInjective
<1>3. ASSUME NEW y \in ToSet(r) PROVE y \in ToSet(q) \ {q[i]}
  <2>1. PICK j \in 1..(Len(q) - 1) : y = r[j]
    BY <1>1 DEF ToSet
  <2>2. CASE j < i
    BY <1>1, <1>2, <2>1, <2>2 DEF ToSet
  <2>3. CASE ~(j < i)
    <3>1. j + 1 \in 1..Len(q) /\ y = q[j + 1] /\ j + 1 # i
      BY <1>1, <2>1, <2>3
    <3> QED
      BY <1>1, <1>2, <3>1 DEF ToSet
  <2> QED
    BY <2>2, <2>3
<1>4. ASSUME NEW y \in ToSet(q) \ {q[i]} PROVE y \in ToSet(r)
  <2>1. PICK j \in 1..Len(q) : y = q[j] /\ j # i
    BY <1>1 DEF ToSet
  <2>2. CASE j < i
    BY <1>1, <2>1, <2>2 DEF ToSet
  <2>3. CASE j > i
    <3>1. j - 1 \in 1..(Len(q) - 1) /\ ~(j - 1 < i) /\ (j - 1) + 1 = j
      BY <1>1, <2>1, <2>3
    <3>2. r[j - 1] = q[j]
      BY <1>1, <3>1
    <3> QED
      BY <1>1, <2>1, <3>1, <3>2 DEF ToSet
  <2> QED
    BY <1>1, <2>1, <2>2, <2>3
<1>5. IsInjective(r)
  <2> SUFFICES ASSUME NEW j \in 1..(Len(q) - 1), NEW k \in 1..(Len(q) - 1), r[j] = r[k]
               PROVE  j = k
    BY <1>1 DEF IsInjective
  <2>1. /\ j \in 1..Len(q) /\ j + 1 \in 1..Len(q)
        /\ k \in 1..Len(q) /\ k + 1 \in 1..Len(q)
    BY <1>1
  <2> QED
    BY <1>1, <1>2, <2>1
<1> QED
  BY <1>3, <1>4, <1>5 DEF r

LEMMA TailSet ==
  ASSUME NEW S, NEW q \in Seq(S), q # <<>>, IsInjective(q)
  PROVE  /\ Head(q) = q[1] /\ 1 \in 1..Len(q)
         /\ ToSet(Tail(q)) = ToSet(q) \ {Head(q)}
         /\ IsInjective(Tail(q))
<1> DEFINE r == Tail(q)
<1>1. /\ Len(q) \in Nat /\ Len(q) > 0 /\ DOMAIN q = 1..Len(q)
      /\ r \in Seq(S) /\ Len(r) = Len(q) - 1 /\ DOMAIN r = 1..(Len(q) - 1)
      /\ \A j \in 1..(Len(q) - 1) : r[j] = q[j + 1]
  BY HeadTailProperties, LenProperties, EmptySeq
<1>2. Head(q) = q[1] /\ 1 \in 1..Len(q)
  BY <1>1
<1> HIDE DEF r
<1>3. \A j, k \in 1..Len(q) : q[j] = q[k] => j = k
  BY <1>1 DEF IsInjective
<1>4. ASSUME NEW y \in ToSet(r) PROVE y \in ToSet(q) \ {q[1]}
  <2>1. PICK j \in 1..(Len(q) - 1) : y = r[j]
    BY <1>1 DEF ToSet
  <2>2. j + 1 \in 1..Len(q) /\ y = q[j + 1] /\ j + 1 # 1
    BY <1>1, <2>1
  <2> QED
    BY <1>1, <1>2, <1>3, <2>2 DEF ToSet
<1>5. ASSUME NEW y \in ToSet(q) \ {q[1]} PROVE y \in ToSet(r)
  <2>1. PICK j \in 1..Len(q) : y = q[j] /\ j # 1
    BY <1>1 DEF ToSet
  <2>2. j - 1 \in 1..(Len(q) - 1) /\ (j - 1) + 1 = j
    BY <1>1, <2>1
  <2> QED
    BY <1>1, <2>1, <2>2 DEF ToSet
<1>6. IsInjective(r)
  <2> SUFFICES ASSUME NEW j \in 1..(Len(q) - 1), NEW k \in 1..(Len(q) - 1), r[j] = r[k]
               PROVE  j = k
    BY <1>1 DEF IsInjective
  <2>1. j + 1 \in 1..Len(q) /\ k + 1 \in 1..Len(q)
    BY <1>1
  <2> QED
    BY <1>1, <1>3, <2>1
<1> QED
  BY <1>2, <1>4, <1>5, <1>6 DEF r

-----------------------------------------------------------------------------
\* The queues of the dies, as one line of requests: what is on them, and how
\* many.
Line(q) == UNION {ToSet(q[d]) : d \in Die}

\* The queues of the dies hold every request once, on the queues of its die.
OnTheirDies(rq, q) ==
  \A d \in Die :
    /\ IsInjective(q[d])
    /\ \A s \in ToSet(q[d]) : rq[s].code \in {"READ", "WRITE", "ERASE"} /\ rq[s].die = d

LEMMA LineElements == \A q, x : x \in Line(q) <=> \E d \in Die : x \in ToSet(q[d])
BY DEF Line

LEMMA SeatElements ==
  ASSUME NEW q \in [Die -> Seq(Slot)]
  PROVE  \A x : x \in Seats(q) <=> \E d \in Die : \E i \in 1..Len(q[d]) : x = <<d, i>>
<1>1. DOMAIN q = Die /\ \A d \in Die : DOMAIN q[d] = 1..Len(q[d])
  BY LenProperties
<1>2. Seats(q) = UNION {{d} \X (1..Len(q[d])) : d \in Die}
  BY <1>1 DEF Seats
<1> QED
  BY <1>2

LEMMA TotalAppend ==
  ASSUME NEW q \in [Die -> Seq(Slot)], NEW d \in Die,
         NEW n \in [Die -> Seq(Slot)], \A x \in Die \ {d} : n[x] = q[x],
         Len(n[d]) = Len(q[d]) + 1, IsFiniteSet(Seats(q))
  PROVE  IsFiniteSet(Seats(n)) /\ Total(n) = Total(q) + 1
<1>a. Len(q[d]) \in Nat
  BY LenProperties
<1>b. n \in [Die -> Seq(Slot)]
  OBVIOUS
<1>1. Len(n[d]) = Len(q[d]) + 1
  OBVIOUS
<1>2. \A x : x \in Seats(n) <=> \E c \in Die : \E i \in 1..Len(n[c]) : x = <<c, i>>
  <2>1. n \in [Die -> Seq(Slot)]
    BY <1>b
  <2> QED
    BY <2>1, SeatElements, Zenon
<1> DEFINE new == <<d, Len(q[d]) + 1>>
<1>3. ASSUME NEW x \in Seats(n) PROVE x \in Seats(q) \cup {new}
  <2>1. PICK c \in Die : \E i \in 1..Len(n[c]) : x = <<c, i>>
    BY <1>2
  <2>2. PICK i \in 1..Len(n[c]) : x = <<c, i>>
    BY <2>1
  <2>3. CASE c = d /\ i = Len(q[d]) + 1
    BY <2>2, <2>3
  <2>4. CASE ~(c = d /\ i = Len(q[d]) + 1)
    <3>1. i \in 1..Len(q[c])
      <4>1. CASE c = d
        BY <1>a, <1>1, <2>2, <2>4, <4>1
      <4>2. CASE c # d
        <5>1. n[c] = q[c]
          BY <4>2
        <5> QED
          BY <5>1
      <4> QED
        BY <4>1, <4>2
    <3> QED
      BY <2>2, <3>1, SeatElements
  <2> QED
    BY <2>3, <2>4
<1>4. Seats(q) \cup {new} \subseteq Seats(n)
  <2>1. new \in Seats(n)
    <3>1. Len(q[d]) + 1 \in 1..Len(n[d])
      BY <1>a, <1>1
    <3> QED
      BY <3>1, SeatElements
  <2>2. ASSUME NEW x \in Seats(q) PROVE x \in Seats(n)
    <3>1. PICK c \in Die : \E i \in 1..Len(q[c]) : x = <<c, i>>
      BY SeatElements
    <3>2. PICK i \in 1..Len(q[c]) : x = <<c, i>>
      BY <3>1
    <3>3. i \in 1..Len(n[c])
      <4>1. CASE c = d
        BY <1>a, <1>1, <4>1
      <4>2. CASE c # d
        <5>1. n[c] = q[c]
          BY <4>2
        <5> QED
          BY <5>1
      <4> QED
        BY <4>1, <4>2
    <3> QED
      BY <3>2, <3>3, SeatElements
  <2> QED
    BY <2>1, <2>2
<1>5. new \notin Seats(q)
  BY <1>a, SeatElements
<1>6. Seats(n) = Seats(q) \cup {new}
  BY <1>3, <1>4
<1> HIDE DEF new
<1>7. /\ IsFiniteSet(Seats(q) \cup {new})
      /\ Cardinality(Seats(q) \cup {new}) = Cardinality(Seats(q)) + 1
  BY <1>5, FS_AddElement
<1> QED
  BY <1>6, <1>7 DEF Total

LEMMA OnTheirDiesAppend ==
  ASSUME NEW q \in [Die -> Seq(Slot)], NEW d \in Die, NEW s \in Slot,
         NEW n \in [Die -> Seq(Slot)], \A x \in Die \ {d} : n[x] = q[x],
         ToSet(n[d]) = ToSet(q[d]) \cup {s},
         IsInjective(q[d]) /\ s \notin ToSet(q[d]) => IsInjective(n[d]),
         NEW rq, OnTheirDies(rq, q), s \notin Line(q), rq[s].die = d,
         rq[s].code \in {"READ", "WRITE", "ERASE"}
  PROVE  OnTheirDies(rq, n)
<1>1. IsInjective(n[d])
  BY LineElements DEF OnTheirDies
<1>2. ASSUME NEW c \in Die
      PROVE  /\ IsInjective(n[c])
             /\ \A y \in ToSet(n[c]) : rq[y].code \in {"READ", "WRITE", "ERASE"} /\ rq[y].die = c
  <2>1. CASE c = d
    BY <1>1, <2>1 DEF OnTheirDies
  <2>2. CASE c # d
    <3>1. n[c] = q[c]
      BY <2>2
    <3> QED
      BY <3>1, Zenon DEF OnTheirDies
  <2> QED
    BY <2>1, <2>2
<1> QED
  BY <1>2, Zenon DEF OnTheirDies
LEMMA LineRemove ==
  ASSUME NEW q \in [Die -> Seq(Slot)], NEW d \in Die, NEW s \in Slot, NEW r \in Seq(Slot),
         NEW n \in [Die -> Seq(Slot)], n[d] = r, \A x \in Die \ {d} : n[x] = q[x],
         NEW rq, OnTheirDies(rq, q), s \in ToSet(q[d]), ToSet(r) = ToSet(q[d]) \ {s}, IsInjective(r),
         Len(r) = Len(q[d]) - 1
  PROVE  /\ \A x : x \in Line(n) <=> x \in Line(q) /\ x # s
         /\ OnTheirDies(rq, n)
         /\ IsFiniteSet(Seats(q)) => IsFiniteSet(Seats(n)) /\ Total(n) = Total(q) - 1
<1>1. Len(q[d]) \in Nat /\ Len(r) \in Nat /\ Len(q[d]) > 0
  BY LenProperties
<1>2. n \in [Die -> Seq(Slot)] /\ n[d] = r /\ \A x \in Die \ {d} : n[x] = q[x]
  OBVIOUS
<1>3. \A x \in Die \ {d} : s \notin ToSet(q[x])
  BY DEF OnTheirDies
<1>4. Line(n) = Line(q) \ {s}
  BY <1>2, <1>3, LineElements
<1>5. OnTheirDies(rq, n)
  BY <1>2 DEF OnTheirDies
<1>6. ASSUME IsFiniteSet(Seats(q)) PROVE IsFiniteSet(Seats(n)) /\ Total(n) = Total(q) - 1
  <2>0. \A x : x \in Seats(n) <=> \E c \in Die : \E i \in 1..Len(n[c]) : x = <<c, i>>
    <3>1. n \in [Die -> Seq(Slot)]
      BY <1>2
    <3> QED
      BY <3>1, SeatElements, Zenon
  <2> DEFINE last == <<d, Len(q[d])>>
  <2>1. ASSUME NEW x \in Seats(n) PROVE x \in Seats(q) \ {last}
    <3>1. PICK c \in Die : \E i \in 1..Len(n[c]) : x = <<c, i>>
      BY <2>0
    <3>2. PICK i \in 1..Len(n[c]) : x = <<c, i>>
      BY <3>1
    <3>3. i \in 1..Len(q[c]) /\ x # last
      BY <1>1, <1>2, <3>2
    <3> QED
      BY <3>2, <3>3, SeatElements
  <2>2. ASSUME NEW x \in Seats(q) \ {last} PROVE x \in Seats(n)
    <3>1. PICK c \in Die : \E i \in 1..Len(q[c]) : x = <<c, i>>
      BY <2>2, SeatElements
    <3>2. PICK i \in 1..Len(q[c]) : x = <<c, i>>
      BY <3>1
    <3>3. i \in 1..Len(n[c])
      BY <1>1, <1>2, <2>2, <3>2
    <3> QED
      BY <1>2, <3>2, <3>3, SeatElements
  <2>3. Seats(n) = Seats(q) \ {last}
    BY <2>1, <2>2
  <2>4. last \in Seats(q)
    <3>1. Len(q[d]) \in 1..Len(q[d])
      BY <1>1
    <3> QED
      BY <3>1, SeatElements
  <2> HIDE DEF last
  <2>5. /\ IsFiniteSet(Seats(q) \ {last})
        /\ Cardinality(Seats(q) \ {last}) = Cardinality(Seats(q)) - 1
    BY <1>6, <2>4, FS_RemoveElement
  <2> QED
    BY <2>3, <2>5 DEF Total
<1> QED
  BY <1>2, <1>4, <1>5, <1>6

\* With no request anywhere.
LEMMA LineEmpty ==
  /\ Line([d \in Die |-> <<>>]) = {}
  /\ IsFiniteSet(Seats([d \in Die |-> <<>>])) /\ Total([d \in Die |-> <<>>]) = 0
  /\ \A rq : OnTheirDies(rq, [d \in Die |-> <<>>])
<1> DEFINE q == [d \in Die |-> <<>>]
<1>1. <<>> \in Seq(Slot) /\ Len(<<>>) = 0 /\ DOMAIN <<>> = {}
  OBVIOUS
<1>2. ToSet(<<>>) = {} /\ IsInjective(<<>>)
  BY <1>1 DEF ToSet, IsInjective
<1>3. q \in [Die -> Seq(Slot)] /\ \A d \in Die : q[d] = <<>>
  BY <1>1
<1> HIDE DEF q
<1>4. Line(q) = {}
  BY <1>2, <1>3, LineElements
<1>5. Seats(q) = {}
  BY <1>1, <1>3, SeatElements
<1>6. \A rq : OnTheirDies(rq, q)
  BY <1>2, <1>3 DEF OnTheirDies
<1> QED
  BY <1>4, <1>5, <1>6, FS_EmptySet DEF Total, q

-----------------------------------------------------------------------------
\* The invariant of the slots.

\* No request is on two queues, or on a queue and in the thread's hand.
Apart ==
  /\ Idle \cap Outstanding = {}
  /\ Hand \cap LowLevel = {}
  /\ blockedByBufDepReqQ \cap (RowBlocked \cup ToSet(nvmeDmaReqQ) \cup InNand) = {}
  /\ RowBlocked \cap (ToSet(nvmeDmaReqQ) \cup InNand) = {}
  /\ ToSet(nvmeDmaReqQ) \cap InNand = {}

\* None is on a queue twice, or on that of another die.
OnceOnTheirDies ==
  /\ IsInjective(nvmeDmaReqQ)
  /\ OnTheirDies(req, nandReqQ) /\ OnTheirDies(req, blockedByRowAddrDepReqQ)

\* Only transfers are on the DMA queue.
CodesMatch ==
  /\ \A s \in Slot : s \in Idle <=> req[s].code = "NONE"
  /\ \A s \in ToSet(nvmeDmaReqQ) : req[s].code = "DMA"

Everywhere == Idle \cup Hand \cup LowLevel = Slot

Counted ==
  /\ IsFiniteSet(Seats(blockedByRowAddrDepReqQ)) /\ IsFiniteSet(Seats(nandReqQ))
  /\ blockedReqCnt = Cardinality(blockedByBufDepReqQ) + Total(blockedByRowAddrDepReqQ)
  /\ notCompletedNandReqCnt = Total(nandReqQ)
  /\ Cardinality(Idle) + Cardinality(Hand)
       + Cardinality(blockedByBufDepReqQ) + Total(blockedByRowAddrDepReqQ)
       + Len(nvmeDmaReqQ) + Total(nandReqQ) = Cardinality(Slot)

SlotsInv == DepInv /\ Apart /\ OnceOnTheirDies /\ CodesMatch /\ Everywhere /\ Counted

\* The variables it looks at.
slotVars == <<req, lowQueues, counters, slot>>

LEMMA TotalsAreNumbers ==
  \A q : IsFiniteSet(Seats(q)) => Total(q) \in Nat
BY FS_CardinalityType DEF Total

\* The three kinds of queue hold one request more, and the counters follow.
OneMore(dma, nand, rows, running, blocked, dmaN, nandN, rowsN, runningN, blockedN) ==
  /\ Len(dmaN) + Total(nandN) + Total(rowsN) = Len(dma) + Total(nand) + Total(rows) + 1
  /\ blockedN - Total(rowsN) = blocked - Total(rows)
  /\ runningN - Total(nandN) = running - Total(nand)

\* A request that enters a queue is on that queue and no other.
LEMMA EnterPlace ==
  ASSUME DepTypeOK, NEW t \in Slot, NEW counted,
         NEW dma \in Seq(Slot), NEW nand \in [Die -> Seq(Slot)],
         NEW running \in Int, NEW blocked \in Int,
         IsInjective(dma), OnTheirDies(req, nand), OnTheirDies(req, blockedByRowAddrDepReqQ),
         IsFiniteSet(Seats(nand)), IsFiniteSet(Seats(blockedByRowAddrDepReqQ)),
         t \notin ToSet(dma), t \notin Line(nand), t \notin RowBlocked,
         req[t].code # "NONE",
         Enter(t, counted, dma, nand, running, blocked)
  PROVE  /\ IsInjective(nvmeDmaReqQ') /\ OnTheirDies(req, nandReqQ')
         /\ OnTheirDies(req, blockedByRowAddrDepReqQ')
         /\ IsFiniteSet(Seats(nandReqQ')) /\ IsFiniteSet(Seats(blockedByRowAddrDepReqQ'))
         /\ OneMore(dma, nand, blockedByRowAddrDepReqQ, running, blocked, nvmeDmaReqQ', nandReqQ',
                    blockedByRowAddrDepReqQ', notCompletedNandReqCnt', blockedReqCnt')
         /\ \/ /\ req[t].code = "DMA"
               /\ ToSet(nvmeDmaReqQ') = ToSet(dma) \cup {t}
               /\ Line(nandReqQ') = Line(nand)
               /\ Line(blockedByRowAddrDepReqQ') = Line(blockedByRowAddrDepReqQ)
            \/ /\ ToSet(nvmeDmaReqQ') = ToSet(dma)
               /\ Line(nandReqQ') = Line(nand) \cup {t}
               /\ Line(blockedByRowAddrDepReqQ') = Line(blockedByRowAddrDepReqQ)
            \/ /\ ToSet(nvmeDmaReqQ') = ToSet(dma)
               /\ Line(nandReqQ') = Line(nand)
               /\ Line(blockedByRowAddrDepReqQ') = Line(blockedByRowAddrDepReqQ) \cup {t}
<1> DEFINE rows == blockedByRowAddrDepReqQ
<1>1. PICK r : r = req[t]
  OBVIOUS
<1>2. /\ r \in ReqType /\ r.die \in Die /\ r.code \in Codes
      /\ rows \in [Die -> Seq(Slot)]
  BY <1>1 DEF DepTypeOK, ReqType
<1>3. /\ Len(dma) \in Nat /\ Total(nand) \in Nat /\ Total(rows) \in Nat
      /\ t \notin Line(rows) /\ r.code # "NONE"
  BY <1>1, TotalsAreNumbers, LenProperties DEF RowBlocked, Line
<1>a. ASSUME NEW q \in [Die -> Seq(Slot)], NEW n,
             n = [q EXCEPT ![r.die] = Append(@, t)],
             r.code # "DMA", OnTheirDies(req, q), IsFiniteSet(Seats(q)), t \notin Line(q)
      PROVE  /\ Line(n) = Line(q) \cup {t} /\ OnTheirDies(req, n)
             /\ IsFiniteSet(Seats(n)) /\ Total(n) = Total(q) + 1
  <2>1. PICK a : a = Append(q[r.die], t)
    OBVIOUS
  <2>2. /\ a \in Seq(Slot) /\ Len(a) = Len(q[r.die]) + 1
        /\ ToSet(a) = ToSet(q[r.die]) \cup {t}
        /\ IsInjective(q[r.die]) /\ t \notin ToSet(q[r.die]) => IsInjective(a)
    BY <1>2, <2>1, AppendSet, AppendProperties
  <2>3. n = [q EXCEPT ![r.die] = a]
    BY <1>a, <2>1
  <2>4. n \in [Die -> Seq(Slot)] /\ n[r.die] = a /\ \A x \in Die \ {r.die} : n[x] = q[x]
    BY <1>2, <2>2, <2>3
  <2>5. r.code \in {"READ", "WRITE", "ERASE"} /\ req[t].code = r.code /\ req[t].die = r.die
    BY <1>1, <1>2, <1>3, <1>a DEF Codes
  <2>6. PICK d : d = r.die
    OBVIOUS
  <2> QED
    <3>1. /\ d \in Die /\ ToSet(n[d]) = ToSet(q[d]) \cup {t}
          /\ Len(n[d]) = Len(q[d]) + 1
          /\ IsInjective(q[d]) /\ t \notin ToSet(q[d]) => IsInjective(n[d])
          /\ n \in [Die -> Seq(Slot)] /\ \A x \in Die \ {d} : n[x] = q[x]
      BY <1>2, <2>2, <2>4, <2>6
    <3>2. Line(n) = Line(q) \cup {t}
      <4>1. d \in Die /\ t \in Slot /\ q \in [Die -> Seq(Slot)] /\ n \in [Die -> Seq(Slot)]
        BY <3>1
      <4>2. ToSet(n[d]) = ToSet(q[d]) \cup {t} /\ \A x \in Die \ {d} : n[x] = q[x]
        BY <3>1
      <4> QED
        BY <4>1, <4>2, LineElements
    <3>3. IsFiniteSet(Seats(n)) /\ Total(n) = Total(q) + 1
      <4>1. Len(q[d]) \in Nat /\ Len(n[d]) \in Nat
        BY <3>1, LenProperties
      <4>2. IsFiniteSet(Seats(q)) /\ Len(n[d]) = Len(q[d]) + 1 /\ \A x \in Die \ {d} : n[x] = q[x]
        BY <1>a, <3>1
      <4>3. d \in Die /\ q \in [Die -> Seq(Slot)] /\ n \in [Die -> Seq(Slot)]
        BY <3>1
      <4> QED
        BY <4>1, <4>2, <4>3, TotalAppend
    <3>4. PICK rq : rq = req
      OBVIOUS
    <3>5. /\ OnTheirDies(rq, q) /\ t \notin Line(q) /\ rq[t].die = d
          /\ rq[t].code \in {"READ", "WRITE", "ERASE"}
      BY <1>a, <2>5, <2>6, <3>4
    <3>6. OnTheirDies(rq, n)
      BY <3>1, <3>5, OnTheirDiesAppend
    <3> QED
      BY <3>2, <3>3, <3>4, <3>6
<1>4. CASE /\ r.code = "DMA"
           /\ nvmeDmaReqQ' = Append(dma, t)
           /\ nandReqQ' = nand
           /\ notCompletedNandReqCnt' = running
           /\ blockedReqCnt' = blocked
           /\ UNCHANGED <<rowAddrDependencyTable, blockedByRowAddrDepReqQ>>
  <2>1. /\ ToSet(Append(dma, t)) = ToSet(dma) \cup {t} /\ IsInjective(Append(dma, t))
        /\ Len(Append(dma, t)) = Len(dma) + 1
    BY AppendSet, AppendProperties
  <2>2. rows' = rows
    BY <1>4
  <2> QED
    BY <1>1, <1>3, <1>4, <2>1, <2>2 DEF OneMore
<1>5. CASE /\ r.code # "DMA" /\ RowAddrPass(r)
           /\ SetRow(r, RowAfterPass(r, counted))
           /\ nandReqQ' = [nand EXCEPT ![r.die] = Append(@, t)]
           /\ notCompletedNandReqCnt' = running + 1
           /\ nvmeDmaReqQ' = dma
           /\ blockedReqCnt' = blocked
           /\ UNCHANGED blockedByRowAddrDepReqQ
  <2>1. /\ nvmeDmaReqQ' = dma /\ rows' = rows
        /\ notCompletedNandReqCnt' = running + 1 /\ blockedReqCnt' = blocked
    BY <1>5
  <2>2. PICK n : n = nandReqQ'
    OBVIOUS
  <2>3. /\ Line(n) = Line(nand) \cup {t} /\ OnTheirDies(req, n)
        /\ IsFiniteSet(Seats(n)) /\ Total(n) = Total(nand) + 1
    BY <1>5, <1>a, <2>2
  <2>4. Len(dma) + Total(n) + Total(rows) = Len(dma) + Total(nand) + Total(rows) + 1
    BY <1>3, <2>3
  <2>5. running + 1 - Total(n) = running - Total(nand)
    BY <1>3, <2>3
  <2>6. /\ Len(nvmeDmaReqQ') + Total(nandReqQ') + Total(rows') = Len(dma) + Total(nand) + Total(rows) + 1
        /\ blockedReqCnt' - Total(rows') = blocked - Total(rows)
        /\ notCompletedNandReqCnt' - Total(nandReqQ') = running - Total(nand)
    <3>1. Len(nvmeDmaReqQ') + Total(nandReqQ') + Total(rows') = Len(dma) + Total(nand) + Total(rows) + 1
      BY <2>1, <2>2, <2>4
    <3>2. blockedReqCnt' - Total(rows') = blocked - Total(rows)
      BY <1>3, <2>1, <2>2, <2>3
    <3>3. notCompletedNandReqCnt' - Total(nandReqQ') = running - Total(nand)
      BY <1>3, <2>1, <2>2, <2>3
    <3> QED
      BY <3>1, <3>2, <3>3, Zenon
  <2>7. /\ IsInjective(nvmeDmaReqQ') /\ OnTheirDies(req, nandReqQ') /\ OnTheirDies(req, rows')
        /\ IsFiniteSet(Seats(nandReqQ')) /\ IsFiniteSet(Seats(rows'))
    BY <2>1, <2>2, <2>3
  <2>8. /\ ToSet(nvmeDmaReqQ') = ToSet(dma)
        /\ Line(nandReqQ') = Line(nand) \cup {t}
        /\ Line(rows') = Line(rows)
    BY <2>1, <2>2, <2>3
  <2> QED
    BY <2>6, <2>7, <2>8, Zenon DEF OneMore
<1>6. CASE /\ r.code # "DMA" /\ ~RowAddrPass(r)
           /\ IF counted THEN UNCHANGED rowAddrDependencyTable ELSE SetRow(r, RowAfterBlock(r))
           /\ blockedByRowAddrDepReqQ' = [blockedByRowAddrDepReqQ EXCEPT ![r.die] = Append(@, t)]
           /\ blockedReqCnt' = blocked + 1
           /\ nvmeDmaReqQ' = dma
           /\ nandReqQ' = nand
           /\ notCompletedNandReqCnt' = running
  <2>1. /\ nvmeDmaReqQ' = dma /\ nandReqQ' = nand
        /\ notCompletedNandReqCnt' = running /\ blockedReqCnt' = blocked + 1
    BY <1>6
  <2>2. PICK n : n = blockedByRowAddrDepReqQ'
    OBVIOUS
  <2>3. /\ Line(n) = Line(rows) \cup {t} /\ OnTheirDies(req, n)
        /\ IsFiniteSet(Seats(n)) /\ Total(n) = Total(rows) + 1
    BY <1>2, <1>3, <1>6, <1>a, <2>2
  <2>4. Len(dma) + Total(nand) + Total(n) = Len(dma) + Total(nand) + Total(rows) + 1
    BY <1>3, <2>3
  <2>5. blocked + 1 - Total(n) = blocked - Total(rows)
    BY <1>3, <2>3
  <2>6. /\ Len(nvmeDmaReqQ') + Total(nandReqQ') + Total(rows') = Len(dma) + Total(nand) + Total(rows) + 1
        /\ blockedReqCnt' - Total(rows') = blocked - Total(rows)
        /\ notCompletedNandReqCnt' - Total(nandReqQ') = running - Total(nand)
    <3>1. Len(nvmeDmaReqQ') + Total(nandReqQ') + Total(rows') = Len(dma) + Total(nand) + Total(rows) + 1
      BY <2>1, <2>2, <2>4
    <3>2. blockedReqCnt' - Total(rows') = blocked - Total(rows)
      BY <1>3, <2>1, <2>2, <2>3
    <3>3. notCompletedNandReqCnt' - Total(nandReqQ') = running - Total(nand)
      BY <1>3, <2>1, <2>2, <2>3
    <3> QED
      BY <3>1, <3>2, <3>3, Zenon
  <2>7. /\ IsInjective(nvmeDmaReqQ') /\ OnTheirDies(req, nandReqQ') /\ OnTheirDies(req, rows')
        /\ IsFiniteSet(Seats(nandReqQ')) /\ IsFiniteSet(Seats(rows'))
    BY <2>1, <2>2, <2>3
  <2>8. /\ ToSet(nvmeDmaReqQ') = ToSet(dma)
        /\ Line(nandReqQ') = Line(nand)
        /\ Line(rows') = Line(rows) \cup {t}
    BY <2>1, <2>2, <2>3
  <2> QED
    BY <2>6, <2>7, <2>8, Zenon DEF OneMore
<1> QED
  BY <1>1, <1>4, <1>5, <1>6 DEF Enter

-----------------------------------------------------------------------------
\* What is on the queues stays in order if only others are changed.
LEMMA OnTheirDiesSame ==
  ASSUME NEW rq, NEW new, NEW q, OnTheirDies(rq, q), \A x \in Line(q) : new[x] = rq[x]
  PROVE  OnTheirDies(new, q)
<1>1. ASSUME NEW d \in Die
      PROVE  /\ IsInjective(q[d])
             /\ \A x \in ToSet(q[d]) : new[x].code \in {"READ", "WRITE", "ERASE"} /\ new[x].die = d
  <2>1. /\ IsInjective(q[d])
        /\ \A x \in ToSet(q[d]) : rq[x].code \in {"READ", "WRITE", "ERASE"} /\ rq[x].die = d
    BY DEF OnTheirDies
  <2>2. \A x \in ToSet(q[d]) : new[x] = rq[x]
    BY LineElements
  <2> QED
    BY <2>1, <2>2
<1> QED
  BY <1>1, Zenon DEF OnTheirDies

LEMMA LineOfSlots ==
  \A q \in [Die -> Seq(Slot)] : \A x \in Line(q) : x \in Slot
<1> SUFFICES ASSUME NEW q \in [Die -> Seq(Slot)], NEW x \in Line(q) PROVE x \in Slot
  OBVIOUS
<1>1. PICK d \in Die : x \in ToSet(q[d])
  BY LineElements
<1>2. q[d] \in Seq(Slot) /\ DOMAIN q[d] = 1..Len(q[d])
  BY LenProperties
<1>3. PICK i \in 1..Len(q[d]) : x = q[d][i]
  BY <1>1, <1>2 DEF ToSet
<1> QED
  BY <1>2, <1>3, ElementOfSeq

LEMMA SubsetsAreFinite ==
  \A S \in SUBSET Slot : IsFiniteSet(S) /\ Cardinality(S) \in Nat
BY SlotsFinite, FS_Subset, FS_CardinalityType

LEMMA HandIsFinite == IsFiniteSet(Hand) /\ Cardinality(Hand) \in Nat
<1>1. Hand \in SUBSET {slot}
  BY DEF Hand
<1>2. IsFiniteSet({slot})
  BY FS_Singleton
<1>3. IsFiniteSet(Hand)
  BY <1>1, <1>2, FS_Subset
<1> QED
  BY <1>3, FS_CardinalityType

\* A slot joins the free ones, and one leaves those that wait for a buffer.
LEMMA CountOneMore ==
  ASSUME NEW S \in SUBSET Slot, NEW x \in Slot, x \notin S
  PROVE  Cardinality(S \cup {x}) = Cardinality(S) + 1
<1>1. IsFiniteSet(S)
  BY SubsetsAreFinite
<1> QED
  BY <1>1, FS_AddElement

LEMMA CountOneLess ==
  ASSUME NEW S \in SUBSET Slot, NEW x \in S
  PROVE  Cardinality(S \ {x}) = Cardinality(S) - 1
<1>1. IsFiniteSet(S)
  BY SubsetsAreFinite
<1> QED
  BY <1>1, FS_RemoveElement

\* A request that is done frees its slot and lets the next user of its entry
\* in, which was waiting for it and nowhere else.
LEMMA CompleteKeepsSlots ==
  ASSUME SlotsInv, NEW s \in Slot, NEW dma \in Seq(Slot), NEW nand \in [Die -> Seq(Slot)],
         NEW running \in Int,
         s \in ToSet(nvmeDmaReqQ) \cup InNand,
         IsInjective(dma), OnTheirDies(req, nand), IsFiniteSet(Seats(nand)),
         \A x : x \in ToSet(dma) <=> x \in ToSet(nvmeDmaReqQ) /\ x # s,
         \A x : x \in Line(nand) <=> x \in InNand /\ x # s,
         Len(dma) + Total(nand) + 1 = Len(nvmeDmaReqQ) + Total(nandReqQ),
         running = Total(nand),
         Complete(s, dma, nand, running)
  PROVE  Apart' /\ OnceOnTheirDies' /\ CodesMatch' /\ Everywhere' /\ Counted'
<1> DEFINE t == nextBlockingReq[s]
<1>1. /\ DepTypeOK /\ Apart /\ OnceOnTheirDies /\ CodesMatch /\ Everywhere /\ Counted
      /\ RowBlocked = Line(blockedByRowAddrDepReqQ) /\ InNand = Line(nandReqQ)
      /\ Idle \in SUBSET Slot /\ blockedByBufDepReqQ \in SUBSET Slot
      /\ req \in [Slot -> ReqType]
  BY DEF SlotsInv, DepInv, DepTypeOK, RowBlocked, InNand, Line, Idle
<1>2. /\ Idle' = Idle \cup {s} /\ slot' = slot
      /\ req' = [req EXCEPT ![s] = NoReq]
      /\ req'[s].code = "NONE" /\ \A x \in Slot \ {s} : req'[x] = req[x]
  <2>1. slot' = slot /\ req' = [req EXCEPT ![s] = NoReq] /\ NoReq.code = "NONE"
    BY DEF Complete, caller, NoReq
  <2> QED
    BY <1>1, <2>1, IdleAfter
<1>3. /\ s \notin Idle /\ s \notin Hand /\ s \notin blockedByBufDepReqQ /\ s \notin RowBlocked
      /\ s \in LowLevel
  BY <1>1 DEF Apart, Outstanding, LowLevel
<1>4. /\ RowBlocked' = Line(blockedByRowAddrDepReqQ') /\ InNand' = Line(nandReqQ')
      /\ Hand' = Hand
  BY <1>2 DEF RowBlocked, InNand, Line, Hand
<1>5. Cardinality(Idle') = Cardinality(Idle) + 1
  BY <1>1, <1>2, <1>3, CountOneMore
<1>6. /\ Cardinality(Idle) \in Nat /\ Cardinality(blockedByBufDepReqQ) \in Nat
      /\ Cardinality(Hand) \in Nat /\ Total(blockedByRowAddrDepReqQ) \in Nat
      /\ Total(nandReqQ) \in Nat /\ Total(nand) \in Nat
      /\ Len(dma) \in Nat /\ Len(nvmeDmaReqQ) \in Nat
  BY <1>1, SubsetsAreFinite, HandIsFinite, TotalsAreNumbers, LenProperties DEF Counted, DepTypeOK
<1>7. CASE WaitsForBuf(t)
  <2>1. t \in blockedByBufDepReqQ
    BY <1>7 DEF WaitsForBuf
  <2>2. /\ blockedByBufDepReqQ' = blockedByBufDepReqQ \ {t}
        /\ Enter(t, TRUE, dma, nand, running, blockedReqCnt - 1)
    BY <1>7 DEF Complete
  <2>0. PICK blk \in Int : blk = blockedReqCnt - 1
    BY <1>1 DEF DepTypeOK
  <2>a. Enter(t, TRUE, dma, nand, running, blk)
    BY <2>0, <2>2, Zenon
  <2>3. /\ t \in Slot /\ t # s /\ t \notin Idle /\ t \notin Hand
        /\ t \notin RowBlocked /\ t \notin ToSet(nvmeDmaReqQ) /\ t \notin InNand
        /\ t \in LowLevel
    BY <1>1, <1>3, <2>1 DEF Apart, Outstanding, LowLevel
  <2>4. req[t].code # "NONE" /\ blockedReqCnt - 1 \in Int
    BY <1>1, <2>3 DEF CodesMatch, DepTypeOK
  <2>5. /\ IsFiniteSet(Seats(blockedByRowAddrDepReqQ)) /\ OnTheirDies(req, blockedByRowAddrDepReqQ)
        /\ t \notin ToSet(dma) /\ t \notin Line(nand)
    BY <1>1, <2>3 DEF Counted, OnceOnTheirDies
  <2> HIDE DEF t
  <2>6. /\ IsInjective(nvmeDmaReqQ') /\ OnTheirDies(req, nandReqQ')
        /\ OnTheirDies(req, blockedByRowAddrDepReqQ')
        /\ IsFiniteSet(Seats(nandReqQ')) /\ IsFiniteSet(Seats(blockedByRowAddrDepReqQ'))
        /\ OneMore(dma, nand, blockedByRowAddrDepReqQ, running, blk, nvmeDmaReqQ', nandReqQ',
                   blockedByRowAddrDepReqQ', notCompletedNandReqCnt', blockedReqCnt')
    BY <1>1, <2>0, <2>a, <2>3, <2>4, <2>5, EnterPlace
  <2>7. \/ /\ req[t].code = "DMA"
           /\ ToSet(nvmeDmaReqQ') = ToSet(dma) \cup {t}
           /\ Line(nandReqQ') = Line(nand)
           /\ Line(blockedByRowAddrDepReqQ') = Line(blockedByRowAddrDepReqQ)
        \/ /\ ToSet(nvmeDmaReqQ') = ToSet(dma)
           /\ Line(nandReqQ') = Line(nand) \cup {t}
           /\ Line(blockedByRowAddrDepReqQ') = Line(blockedByRowAddrDepReqQ)
        \/ /\ ToSet(nvmeDmaReqQ') = ToSet(dma)
           /\ Line(nandReqQ') = Line(nand)
           /\ Line(blockedByRowAddrDepReqQ') = Line(blockedByRowAddrDepReqQ) \cup {t}
    BY <1>1, <2>2, <2>3, <2>4, <2>5, EnterPlace
  <2>8. /\ nvmeDmaReqQ' \in Seq(Slot) /\ nandReqQ' \in [Die -> Seq(Slot)]
        /\ blockedByRowAddrDepReqQ' \in [Die -> Seq(Slot)]
        /\ blockedReqCnt' \in Int /\ notCompletedNandReqCnt' \in Int
    BY <1>1, <2>2, <2>3, <2>4, EnterKeepsTypes
  <2>9. Apart'
    BY <1>1, <1>2, <1>3, <1>4, <2>1, <2>2, <2>3, <2>7 DEF Apart, Outstanding, LowLevel
  <2>10. Everywhere'
    <3>1. \A x : x \in Slot <=> x \in Idle \/ x \in Hand \/ x \in LowLevel
      BY <1>1 DEF Everywhere
    <3>2. \A x : x \in LowLevel => x = s \/ x \in LowLevel'
      BY <1>1, <1>4, <2>2, <2>7 DEF LowLevel
    <3>3. \A x : x \in LowLevel' => x \in LowLevel
      BY <1>1, <1>4, <2>1, <2>2, <2>7 DEF LowLevel
    <3>4. \A x : x \in Slot <=> x \in Idle' \/ x \in Hand' \/ x \in LowLevel'
      BY <1>2, <1>4, <3>1, <3>2, <3>3
    <3> QED
      BY <3>4 DEF Everywhere
  <2>11. OnceOnTheirDies'
    <3>1. OnTheirDies(req', nandReqQ')
      <4>1. \A x \in Line(nandReqQ') : req'[x] = req[x]
        BY <1>1, <1>2, <2>3, <2>7, <2>8, LineOfSlots
      <4> QED
        BY <2>6, <4>1, OnTheirDiesSame
    <3>2. OnTheirDies(req', blockedByRowAddrDepReqQ')
      <4>1. \A x \in Line(blockedByRowAddrDepReqQ') : req'[x] = req[x]
        BY <1>1, <1>2, <1>3, <2>3, <2>7, <2>8, LineOfSlots
      <4> QED
        BY <2>6, <4>1, OnTheirDiesSame
    <3> QED
      BY <2>6, <3>1, <3>2 DEF OnceOnTheirDies
  <2>12. CodesMatch'
    <3>1. \A x \in Slot : x \in Idle' <=> req'[x].code = "NONE"
      BY <1>1, <1>2, <1>3 DEF CodesMatch
    <3>2. \A x \in ToSet(nvmeDmaReqQ') : req'[x].code = "DMA"
      BY <1>1, <1>2, <2>3, <2>7 DEF CodesMatch
    <3> QED
      BY <3>1, <3>2 DEF CodesMatch
  <2>13. Counted'
    <3>1. Cardinality(blockedByBufDepReqQ') = Cardinality(blockedByBufDepReqQ) - 1
      BY <1>1, <2>1, <2>2, CountOneLess
    <3>2. /\ blockedReqCnt = Cardinality(blockedByBufDepReqQ) + Total(blockedByRowAddrDepReqQ)
          /\ Cardinality(Idle) + Cardinality(Hand)
               + Cardinality(blockedByBufDepReqQ) + Total(blockedByRowAddrDepReqQ)
               + Len(nvmeDmaReqQ) + Total(nandReqQ) = Cardinality(Slot)
      BY <1>1 DEF Counted
    <3>3. /\ Total(nandReqQ') \in Int /\ Total(blockedByRowAddrDepReqQ') \in Int
          /\ Len(nvmeDmaReqQ') \in Int
      BY <2>6, <2>8, TotalsAreNumbers, LenProperties
    <3>e. PICK tn, tr, ld, nc, bc, n, r, l, f, h, w, k, n0, l0, all :
             /\ tn = Total(nandReqQ') /\ tr = Total(blockedByRowAddrDepReqQ')
             /\ ld = Len(nvmeDmaReqQ') /\ nc = notCompletedNandReqCnt' /\ bc = blockedReqCnt'
             /\ n = Total(nand) /\ r = Total(blockedByRowAddrDepReqQ) /\ l = Len(dma)
             /\ f = Cardinality(Idle) /\ h = Cardinality(Hand)
             /\ w = Cardinality(blockedByBufDepReqQ) /\ k = blockedReqCnt
             /\ n0 = Total(nandReqQ) /\ l0 = Len(nvmeDmaReqQ) /\ all = Cardinality(Slot)
      OBVIOUS
    <3>n. /\ tn \in Int /\ tr \in Int /\ ld \in Int /\ nc \in Int /\ bc \in Int
          /\ n \in Int /\ r \in Int /\ l \in Int /\ f \in Int /\ h \in Int /\ w \in Int
          /\ k \in Int /\ n0 \in Int /\ l0 \in Int
      BY <1>1, <1>6, <2>8, <3>3, <3>e DEF DepTypeOK
    <3>7. /\ ld + tn + tr = l + n + r + 1 /\ bc - tr = blk - r
          /\ nc - tn = running - n
      BY <2>6, <3>e, Zenon DEF OneMore
    <3>8. /\ running = n /\ k = w + r /\ l + n + 1 = l0 + n0
          /\ f + h + w + r + l0 + n0 = all
      BY <3>2, <3>e, Zenon
    <3>0. blk = k - 1
      BY <2>0, <3>e, Zenon
    <3>9. nc = tn /\ bc = (w - 1) + tr /\ (f + 1) + h + (w - 1) + tr + ld + tn = all
      BY <3>n, <3>7, <3>8, <3>0
    <3>4. notCompletedNandReqCnt' = Total(nandReqQ')
      BY <3>9, <3>e, Zenon
    <3>5. blockedReqCnt' = Cardinality(blockedByBufDepReqQ') + Total(blockedByRowAddrDepReqQ')
      BY <3>1, <3>9, <3>e, Zenon
    <3>6. Cardinality(Idle') + Cardinality(Hand)
            + Cardinality(blockedByBufDepReqQ') + Total(blockedByRowAddrDepReqQ')
            + Len(nvmeDmaReqQ') + Total(nandReqQ') = Cardinality(Slot)
      BY <1>5, <3>1, <3>9, <3>e, Zenon
    <3> QED
      BY <1>4, <2>6, <3>4, <3>5, <3>6 DEF Counted
  <2> QED
    BY <2>9, <2>10, <2>11, <2>12, <2>13
<1>8. CASE ~WaitsForBuf(t)
  <2>1. /\ nvmeDmaReqQ' = dma /\ nandReqQ' = nand /\ notCompletedNandReqCnt' = running
        /\ UNCHANGED <<blockedByBufDepReqQ, blockedByRowAddrDepReqQ, blockedReqCnt>>
    BY <1>8 DEF Complete
  <2>2. /\ InNand' = Line(nand) /\ RowBlocked' = RowBlocked
    BY <1>1, <1>4, <2>1
  <2>3. Apart'
    BY <1>1, <1>2, <1>3, <1>4, <2>1, <2>2 DEF Apart, Outstanding, LowLevel
  <2>4. Everywhere'
    BY <1>1, <1>2, <1>4, <2>1, <2>2 DEF Everywhere, Outstanding, LowLevel
  <2>5. OnceOnTheirDies'
    <3>1. OnTheirDies(req', nand)
      <4>1. \A x \in Line(nand) : req'[x] = req[x]
        BY <1>1, <1>2, LineOfSlots
      <4> QED
        BY <4>1, OnTheirDiesSame
    <3>2. OnTheirDies(req', blockedByRowAddrDepReqQ)
      <4>1. \A x \in Line(blockedByRowAddrDepReqQ) : req'[x] = req[x]
        BY <1>1, <1>2, <1>3, LineOfSlots DEF DepTypeOK
      <4> QED
        BY <1>1, <4>1, OnTheirDiesSame DEF OnceOnTheirDies
    <3> QED
      BY <2>1, <3>1, <3>2 DEF OnceOnTheirDies
  <2>6. CodesMatch'
    BY <1>1, <1>2, <1>3, <2>1 DEF CodesMatch
  <2>7. Counted'
    <3>1. /\ Hand' = Hand /\ Cardinality(Idle') = Cardinality(Idle) + 1
          /\ Total(nandReqQ') = Total(nand) /\ Len(nvmeDmaReqQ') = Len(dma)
          /\ Total(blockedByRowAddrDepReqQ') = Total(blockedByRowAddrDepReqQ)
          /\ blockedReqCnt' = blockedReqCnt /\ blockedByBufDepReqQ' = blockedByBufDepReqQ
          /\ notCompletedNandReqCnt' = Total(nand)
          /\ Seats(nandReqQ') = Seats(nand)
          /\ Seats(blockedByRowAddrDepReqQ') = Seats(blockedByRowAddrDepReqQ)
      BY <1>4, <1>5, <2>1
    <3>2. /\ IsFiniteSet(Seats(blockedByRowAddrDepReqQ))
          /\ blockedReqCnt = Cardinality(blockedByBufDepReqQ) + Total(blockedByRowAddrDepReqQ)
          /\ Cardinality(Idle) + Cardinality(Hand)
               + Cardinality(blockedByBufDepReqQ) + Total(blockedByRowAddrDepReqQ)
               + Len(nvmeDmaReqQ) + Total(nandReqQ) = Cardinality(Slot)
      BY <1>1 DEF Counted
    <3>e. PICK n, r, l, f, h, w, n0, l0, all :
             /\ n = Total(nand) /\ r = Total(blockedByRowAddrDepReqQ) /\ l = Len(dma)
             /\ f = Cardinality(Idle) /\ h = Cardinality(Hand)
             /\ w = Cardinality(blockedByBufDepReqQ)
             /\ n0 = Total(nandReqQ) /\ l0 = Len(nvmeDmaReqQ) /\ all = Cardinality(Slot)
      OBVIOUS
    <3>n. /\ n \in Int /\ r \in Int /\ l \in Int /\ f \in Int /\ h \in Int /\ w \in Int
          /\ n0 \in Int /\ l0 \in Int
      BY <1>6, <3>e
    <3>4. l + n + 1 = l0 + n0 /\ f + h + w + r + l0 + n0 = all
      BY <3>2, <3>e, Zenon
    <3>5. (f + 1) + h + w + r + l + n = all
      BY <3>4, <3>n
    <3>3. (Cardinality(Idle) + 1) + Cardinality(Hand)
             + Cardinality(blockedByBufDepReqQ) + Total(blockedByRowAddrDepReqQ)
             + Len(dma) + Total(nand) = Cardinality(Slot)
      BY <3>5, <3>e, Zenon
    <3> QED
      BY <3>1, <3>2, <3>3 DEF Counted
  <2> QED
    BY <2>3, <2>4, <2>5, <2>6, <2>7
<1> QED
  BY <1>7, <1>8

\* A request leaves the DMA queue or the queue of its die, and is completed.
Leaves(s, dma, nand, running) ==
  /\ s \in Slot /\ dma \in Seq(Slot) /\ nand \in [Die -> Seq(Slot)] /\ running \in Int
  /\ s \in ToSet(nvmeDmaReqQ) \cup InNand
  /\ IsInjective(dma) /\ OnTheirDies(req, nand) /\ IsFiniteSet(Seats(nand))
  /\ \A x : x \in ToSet(dma) <=> x \in ToSet(nvmeDmaReqQ) /\ x # s
  /\ \A x : x \in Line(nand) <=> x \in InNand /\ x # s
  /\ Len(dma) + Total(nand) + 1 = Len(nvmeDmaReqQ) + Total(nandReqQ)
  /\ running = Total(nand)
  /\ Complete(s, dma, nand, running)

LEMMA TransferLeaves ==
  ASSUME SlotsInv, CheckDoneNvmeDmaReq
  PROVE  /\ nvmeDmaReqQ[pass.i] \in ToSet(nvmeDmaReqQ)
         /\ Leaves(nvmeDmaReqQ[pass.i], RemoveAt(nvmeDmaReqQ, pass.i), nandReqQ, notCompletedNandReqCnt)
<1> DEFINE s == nvmeDmaReqQ[pass.i]
           dma == RemoveAt(nvmeDmaReqQ, pass.i)
<1>1. /\ pass.at = "dma" /\ pass.i > 0
      /\ Complete(s, dma, nandReqQ, notCompletedNandReqCnt)
  BY DEF CheckDoneNvmeDmaReq
<1>2. /\ nvmeDmaReqQ \in Seq(Slot) /\ nandReqQ \in [Die -> Seq(Slot)] /\ notCompletedNandReqCnt \in Int
      /\ pass \in PassType /\ (pass.at = "dma" => pass.i <= Len(nvmeDmaReqQ))
  BY DEF SlotsInv, DepInv, DepTypeOK, WalkInQueue
<1>3. Len(nvmeDmaReqQ) \in Nat /\ pass.i \in 1..Len(nvmeDmaReqQ) /\ DOMAIN nvmeDmaReqQ = 1..Len(nvmeDmaReqQ)
  BY <1>1, <1>2, LenProperties DEF PassType
<1>4. s \in Slot /\ s \in ToSet(nvmeDmaReqQ)
  BY <1>2, <1>3, ElementOfSeq DEF ToSet
<1>5. /\ IsInjective(nvmeDmaReqQ) /\ OnTheirDies(req, nandReqQ) /\ IsFiniteSet(Seats(nandReqQ))
      /\ InNand = Line(nandReqQ) /\ s \notin InNand
      /\ notCompletedNandReqCnt = Total(nandReqQ)
  BY <1>4 DEF SlotsInv, OnceOnTheirDies, Counted, InNand, Line, Apart
<1>6. dma \in Seq(Slot) /\ Len(dma) = Len(nvmeDmaReqQ) - 1
  BY <1>2, <1>3, RemoveAtLen
<1>7. ToSet(dma) = ToSet(nvmeDmaReqQ) \ {s} /\ IsInjective(dma)
  BY <1>2, <1>3, <1>5, RemoveAtSet
<1>8. Total(nandReqQ) \in Nat
  BY <1>5, TotalsAreNumbers
<1> HIDE DEF s, dma
<1>9. Len(dma) + Total(nandReqQ) + 1 = Len(nvmeDmaReqQ) + Total(nandReqQ)
  BY <1>3, <1>6, <1>8
<1>10. Leaves(s, dma, nandReqQ, notCompletedNandReqCnt)
  BY <1>1, <1>2, <1>4, <1>5, <1>6, <1>7, <1>9 DEF Leaves
<1> QED
  BY <1>4, <1>10 DEF s, dma

LEMMA FinishLeaves ==
  ASSUME SlotsInv, NEW d \in Die, FinishNandReq(d)
  PROVE  \E s, nand :
           /\ s = nandReqQ[d][1] /\ nand[d] = Tail(nandReqQ[d]) /\ s \in ToSet(nandReqQ[d])
           /\ nandReqQ[d] # <<>> /\ \A x \in Die \ {d} : nand[x] = nandReqQ[x]
           /\ Leaves(s, nvmeDmaReqQ, nand, notCompletedNandReqCnt - 1)
<1> DEFINE s == Head(nandReqQ[d])
           nand == [nandReqQ EXCEPT ![d] = Tail(@)]
<1>1. /\ dieState[d] = "EXE"
      /\ Complete(s, nvmeDmaReqQ, nand, notCompletedNandReqCnt - 1)
  BY DEF FinishNandReq
<1>2. /\ nvmeDmaReqQ \in Seq(Slot) /\ nandReqQ \in [Die -> Seq(Slot)] /\ notCompletedNandReqCnt \in Int
      /\ nandReqQ[d] # <<>> /\ nandReqQ[d] \in Seq(Slot)
  BY <1>1 DEF SlotsInv, DepInv, DepTypeOK, BusyDieHasRequest
<1>3. /\ IsInjective(nvmeDmaReqQ) /\ OnTheirDies(req, nandReqQ) /\ IsFiniteSet(Seats(nandReqQ))
      /\ InNand = Line(nandReqQ) /\ ToSet(nvmeDmaReqQ) \cap InNand = {}
      /\ notCompletedNandReqCnt = Total(nandReqQ)
      /\ IsInjective(nandReqQ[d])
  BY DEF SlotsInv, OnceOnTheirDies, Counted, InNand, Line, Apart, OnTheirDies
<1>4. PICK r : r = Tail(nandReqQ[d])
  OBVIOUS
<1>5. /\ s = nandReqQ[d][1] /\ 1 \in 1..Len(nandReqQ[d])
      /\ ToSet(r) = ToSet(nandReqQ[d]) \ {s} /\ IsInjective(r)
  BY <1>2, <1>3, <1>4, TailSet
<1>6. r \in Seq(Slot) /\ Len(r) = Len(nandReqQ[d]) - 1 /\ DOMAIN nandReqQ[d] = 1..Len(nandReqQ[d])
  BY <1>2, <1>4, HeadTailProperties, LenProperties
<1>7. s \in Slot /\ s \in ToSet(nandReqQ[d])
  BY <1>2, <1>5, <1>6, ElementOfSeq DEF ToSet
<1>8. s \in InNand /\ s \notin ToSet(nvmeDmaReqQ)
  BY <1>3, <1>7 DEF InNand
<1>9. nand \in [Die -> Seq(Slot)] /\ nand[d] = r /\ \A x \in Die \ {d} : nand[x] = nandReqQ[x]
  BY <1>2, <1>4, <1>6
<1> HIDE DEF s, nand
<1>10. PICK rq : rq = req
  OBVIOUS
<1>11. OnTheirDies(rq, nandReqQ)
  BY <1>3, <1>10
<1>12. /\ \A x : x \in Line(nand) <=> x \in Line(nandReqQ) /\ x # s
       /\ OnTheirDies(rq, nand)
       /\ IsFiniteSet(Seats(nand)) /\ Total(nand) = Total(nandReqQ) - 1
  <2>1. Len(nandReqQ[d]) \in Nat /\ Len(r) \in Nat
    BY <1>2, <1>6, LenProperties
  <2>2. /\ r \in Seq(Slot) /\ s \in Slot /\ nandReqQ \in [Die -> Seq(Slot)] /\ nand \in [Die -> Seq(Slot)]
        /\ nand[d] = r /\ \A x \in Die \ {d} : nand[x] = nandReqQ[x]
        /\ s \in ToSet(nandReqQ[d]) /\ ToSet(r) = ToSet(nandReqQ[d]) \ {s} /\ IsInjective(r)
        /\ Len(r) = Len(nandReqQ[d]) - 1
    BY <1>2, <1>5, <1>6, <1>7, <1>9
  <2>3. \A x : x \in Line(nand) <=> x \in Line(nandReqQ) /\ x # s
    <3>1. \A x \in Die \ {d} : s \notin ToSet(nandReqQ[x])
      BY <1>11, <2>2 DEF OnTheirDies
    <3> QED
      BY <2>2, <3>1, LineElements
  <2>4. OnTheirDies(rq, nand)
    BY <1>11, <2>1, <2>2, LineRemove, Zenon
  <2>5. IsFiniteSet(Seats(nand)) /\ Total(nand) = Total(nandReqQ) - 1
    BY <1>3, <1>11, <2>1, <2>2, LineRemove, Zenon
  <2> QED
    BY <2>3, <2>4, <2>5, Zenon
<1>13. Total(nandReqQ) \in Nat /\ Total(nand) \in Nat /\ Len(nvmeDmaReqQ) \in Nat
  BY <1>2, <1>3, <1>12, TotalsAreNumbers, LenProperties
<1>14. /\ Len(nvmeDmaReqQ) + Total(nand) + 1 = Len(nvmeDmaReqQ) + Total(nandReqQ)
       /\ notCompletedNandReqCnt - 1 = Total(nand) /\ notCompletedNandReqCnt - 1 \in Int
  BY <1>3, <1>12, <1>13
<1>15. PICK running : running = notCompletedNandReqCnt - 1
  OBVIOUS
<1>16. /\ Len(nvmeDmaReqQ) + Total(nand) + 1 = Len(nvmeDmaReqQ) + Total(nandReqQ)
       /\ running = Total(nand) /\ running \in Int
       /\ Complete(s, nvmeDmaReqQ, nand, running)
  BY <1>1, <1>14, <1>15, Zenon
<1>17. /\ \A x : x \in ToSet(nvmeDmaReqQ) <=> x \in ToSet(nvmeDmaReqQ) /\ x # s
       /\ \A x : x \in Line(nand) <=> x \in InNand /\ x # s
       /\ s \in ToSet(nvmeDmaReqQ) \cup InNand
       /\ OnTheirDies(req, nand)
  BY <1>3, <1>8, <1>10, <1>12
<1>18. Leaves(s, nvmeDmaReqQ, nand, running)
  BY <1>2, <1>3, <1>7, <1>9, <1>12, <1>16, <1>17, Zenon DEF Leaves
<1>19. Leaves(s, nvmeDmaReqQ, nand, notCompletedNandReqCnt - 1)
  BY <1>15, <1>18, Zenon
<1> QED
  BY <1>2, <1>4, <1>5, <1>7, <1>9, <1>19, Zenon

LEMMA LeavesKeepsSlots ==
  ASSUME SlotsInv, NEW s, NEW dma, NEW nand, NEW running, Leaves(s, dma, nand, running)
  PROVE  Apart' /\ OnceOnTheirDies' /\ CodesMatch' /\ Everywhere' /\ Counted'
BY CompleteKeepsSlots, Zenon DEF Leaves

\* What the firmware asks for.
LEMMA RequestShapes ==
  ASSUME NEW r \in Requests
  PROVE  /\ r \in ReqType
         /\ \/ r.code = "DMA" /\ r.entry \in Buf
            \/ r.code \in {"READ", "WRITE"} /\ r.entry \in Entry /\ r.page \in 0..(P - 1)
            \/ r.code = "ERASE" /\ r.entry = NONE /\ r.page = P
<1>1. CASE \E e \in Buf : r = DmaReq(e)
  BY <1>1, RequestsAreTyped DEF DmaReq, NoReq
<1>2. CASE \E c \in {"READ", "WRITE"}, d \in Die, b \in Block, p \in 0..(P - 1), e \in Entry :
             r = NandReq(c, d, b, p, e)
  BY <1>2, RequestsAreTyped DEF NandReq
<1>3. CASE \E d \in Die, b \in Block : r = NandReq("ERASE", d, b, P, NONE)
  BY <1>3, RequestsAreTyped DEF NandReq
<1> QED
  BY <1>1, <1>2, <1>3 DEF Requests

\* A new request: its slot leaves the free ones for the thread's hand.
LEMMA RequestKeepsSlots ==
  ASSUME SlotsInv, NEW s \in Slot, NEW r \in Requests, Makes(s, r)
  PROVE  Apart' /\ OnceOnTheirDies' /\ CodesMatch' /\ Everywhere' /\ Counted'
<1>1. /\ DepTypeOK /\ Apart /\ OnceOnTheirDies /\ CodesMatch /\ Everywhere /\ Counted
      /\ RowBlocked = Line(blockedByRowAddrDepReqQ) /\ InNand = Line(nandReqQ)
      /\ Idle \in SUBSET Slot /\ req \in [Slot -> ReqType]
      /\ NONE \notin Slot
  BY Constants DEF SlotsInv, DepInv, DepTypeOK, RowBlocked, InNand, Line, Idle
<1>2. /\ slot = NONE /\ slot' = s /\ s \in Idle /\ Idle' = Idle \ {s}
      /\ req' = [req EXCEPT ![s] = r]
      /\ UNCHANGED <<blockedByBufDepReqQ, blockedByRowAddrDepReqQ, nvmeDmaReqQ, nandReqQ,
                     notCompletedNandReqCnt, blockedReqCnt>>
  <2>1. /\ slot = NONE /\ slot' = s /\ s \in Idle
        /\ req' = [req EXCEPT ![s] = r]
        /\ UNCHANGED <<blockedByBufDepReqQ, blockedByRowAddrDepReqQ, nvmeDmaReqQ, nandReqQ,
                       notCompletedNandReqCnt, blockedReqCnt>>
    BY DEF Makes, MakeRequest, lowQueues, counters
  <2> QED
    BY <1>1, <2>1, IdleAfter, RequestHasCode
<1>3. r.code # "NONE" /\ \A x \in Slot \ {s} : req'[x] = req[x]
  <2>1. r.code # "NONE"
    BY RequestShapes
  <2> QED
    BY <1>1, <1>2, <2>1
<1>4. Hand = {} /\ Hand' = {s} /\ req'[s] = r
  BY <1>1, <1>2 DEF Hand
<1>5. /\ RowBlocked' = RowBlocked /\ InNand' = InNand /\ LowLevel' = LowLevel
      /\ s \notin LowLevel
  BY <1>1, <1>2 DEF RowBlocked, InNand, LowLevel, Apart, Outstanding
<1>6. Apart'
  BY <1>1, <1>2, <1>4, <1>5 DEF Apart, Outstanding
<1>7. Everywhere'
  BY <1>1, <1>2, <1>4, <1>5 DEF Everywhere
<1>8. CodesMatch'
  <2>1. s \notin ToSet(nvmeDmaReqQ)
    BY <1>5 DEF LowLevel
  <2>2. \A x \in ToSet(nvmeDmaReqQ) : x \in Slot /\ x # s
    BY <1>1, <2>1 DEF Everywhere, LowLevel
  <2> QED
    BY <1>1, <1>2, <1>3, <1>4, <2>2 DEF CodesMatch
<1>9. OnceOnTheirDies'
  <2>1. OnTheirDies(req', nandReqQ)
    <3>1. \A x \in Line(nandReqQ) : req'[x] = req[x]
      BY <1>1, <1>3, <1>5, LineOfSlots DEF LowLevel, DepTypeOK
    <3> QED
      BY <1>1, <3>1, OnTheirDiesSame DEF OnceOnTheirDies
  <2>2. OnTheirDies(req', blockedByRowAddrDepReqQ)
    <3>1. \A x \in Line(blockedByRowAddrDepReqQ) : req'[x] = req[x]
      BY <1>1, <1>3, <1>5, LineOfSlots DEF LowLevel, DepTypeOK
    <3> QED
      BY <1>1, <3>1, OnTheirDiesSame DEF OnceOnTheirDies
  <2> QED
    BY <1>1, <1>2, <2>1, <2>2 DEF OnceOnTheirDies
<1>10. Counted'
  <2>1. Cardinality(Idle') = Cardinality(Idle) - 1 /\ Cardinality(Hand') = 1
    BY <1>1, <1>2, <1>4, CountOneLess, FS_Singleton
  <2>2. Cardinality(Hand) = 0
    BY <1>4, FS_EmptySet
  <2>e. PICK f, h, w, rr, l, n, all :
           /\ f = Cardinality(Idle) /\ h = Cardinality(Hand)
           /\ w = Cardinality(blockedByBufDepReqQ) /\ rr = Total(blockedByRowAddrDepReqQ)
           /\ l = Len(nvmeDmaReqQ) /\ n = Total(nandReqQ) /\ all = Cardinality(Slot)
    OBVIOUS
  <2>n. /\ f \in Int /\ h \in Int /\ w \in Int /\ rr \in Int /\ l \in Int /\ n \in Int
    BY <1>1, <2>e, SubsetsAreFinite, HandIsFinite, TotalsAreNumbers, LenProperties
       DEF Counted, DepTypeOK
  <2>3. f + h + w + rr + l + n = all /\ h = 0
    BY <1>1, <2>2, <2>e, Zenon DEF Counted
  <2>4. (f - 1) + 1 + w + rr + l + n = all
    BY <2>n, <2>3
  <2>5. Cardinality(Idle') + Cardinality(Hand')
          + Cardinality(blockedByBufDepReqQ') + Total(blockedByRowAddrDepReqQ')
          + Len(nvmeDmaReqQ') + Total(nandReqQ') = Cardinality(Slot)
    BY <1>2, <2>1, <2>4, <2>e, Zenon
  <2> QED
    BY <1>1, <1>2, <2>5, Zenon DEF Counted
<1> QED
  BY <1>6, <1>7, <1>8, <1>9, <1>10

\* The request in hand goes to one queue.
LEMMA SelectKeepsSlots ==
  ASSUME SlotsInv, Select
  PROVE  Apart' /\ OnceOnTheirDies' /\ CodesMatch' /\ Everywhere' /\ Counted'
<1>1. PICK s : s = slot
  OBVIOUS
<1>2. /\ DepTypeOK /\ Apart /\ OnceOnTheirDies /\ CodesMatch /\ Everywhere /\ Counted
      /\ RowBlocked = Line(blockedByRowAddrDepReqQ) /\ InNand = Line(nandReqQ)
      /\ Idle \in SUBSET Slot /\ blockedByBufDepReqQ \in SUBSET Slot /\ req \in [Slot -> ReqType]
      /\ NONE \notin Slot
  BY Constants DEF SlotsInv, DepInv, DepTypeOK, RowBlocked, InNand, Line, Idle
<1>3. /\ s # NONE /\ s \in Slot /\ slot' = NONE /\ req' = req /\ Idle' = Idle
      /\ SelectLowLevelReqQ(s)
  BY <1>1, <1>2 DEF Select, SelectLowLevelReqQ, DepTypeOK, SlotOrNone, Idle
<1>4. /\ Hand = {s} /\ Hand' = {} /\ s \notin Idle /\ s \notin LowLevel
  BY <1>1, <1>2, <1>3 DEF Hand, Apart, Outstanding
<1>5. /\ RowBlocked' = Line(blockedByRowAddrDepReqQ') /\ InNand' = Line(nandReqQ')
  BY DEF RowBlocked, InNand, Line
<1>6. Cardinality(Hand) = 1 /\ Cardinality(Hand') = 0
  BY <1>4, FS_Singleton, FS_EmptySet
<1>e. PICK f, h, w, rr, l, n, k, c, all :
         /\ f = Cardinality(Idle) /\ h = Cardinality(Hand)
         /\ w = Cardinality(blockedByBufDepReqQ) /\ rr = Total(blockedByRowAddrDepReqQ)
         /\ l = Len(nvmeDmaReqQ) /\ n = Total(nandReqQ) /\ all = Cardinality(Slot)
         /\ k = blockedReqCnt /\ c = notCompletedNandReqCnt
  OBVIOUS
<1>n. /\ f \in Int /\ h \in Int /\ w \in Int /\ rr \in Int /\ l \in Int /\ n \in Int
      /\ k \in Int /\ c \in Int
  BY <1>2, <1>e, SubsetsAreFinite, HandIsFinite, TotalsAreNumbers, LenProperties
     DEF Counted, DepTypeOK
<1>7. f + h + w + rr + l + n = all /\ h = 1 /\ k = w + rr /\ c = n
  BY <1>2, <1>6, <1>e, Zenon DEF Counted
<1>8. CASE CheckBufDep(s)
  <2>1. /\ Enter(s, FALSE, nvmeDmaReqQ, nandReqQ, notCompletedNandReqCnt, blockedReqCnt)
        /\ blockedByBufDepReqQ' = blockedByBufDepReqQ
    BY <1>3, <1>8 DEF SelectLowLevelReqQ
  <2>2. /\ s \notin ToSet(nvmeDmaReqQ) /\ s \notin Line(nandReqQ) /\ s \notin RowBlocked
        /\ s \notin blockedByBufDepReqQ /\ req[s].code # "NONE"
    BY <1>2, <1>3, <1>4 DEF LowLevel, CodesMatch
  <2>3. /\ IsInjective(nvmeDmaReqQ) /\ OnTheirDies(req, nandReqQ)
        /\ OnTheirDies(req, blockedByRowAddrDepReqQ)
        /\ IsFiniteSet(Seats(nandReqQ)) /\ IsFiniteSet(Seats(blockedByRowAddrDepReqQ))
        /\ nvmeDmaReqQ \in Seq(Slot) /\ nandReqQ \in [Die -> Seq(Slot)]
        /\ notCompletedNandReqCnt \in Int /\ blockedReqCnt \in Int
    BY <1>2 DEF OnceOnTheirDies, Counted, DepTypeOK
  <2>4. /\ IsInjective(nvmeDmaReqQ') /\ OnTheirDies(req, nandReqQ')
        /\ OnTheirDies(req, blockedByRowAddrDepReqQ')
        /\ IsFiniteSet(Seats(nandReqQ')) /\ IsFiniteSet(Seats(blockedByRowAddrDepReqQ'))
        /\ OneMore(nvmeDmaReqQ, nandReqQ, blockedByRowAddrDepReqQ, notCompletedNandReqCnt,
                   blockedReqCnt, nvmeDmaReqQ', nandReqQ', blockedByRowAddrDepReqQ',
                   notCompletedNandReqCnt', blockedReqCnt')
    BY <1>2, <1>3, <2>1, <2>2, <2>3, EnterPlace
  <2>5. \/ /\ req[s].code = "DMA"
           /\ ToSet(nvmeDmaReqQ') = ToSet(nvmeDmaReqQ) \cup {s}
           /\ Line(nandReqQ') = Line(nandReqQ)
           /\ Line(blockedByRowAddrDepReqQ') = Line(blockedByRowAddrDepReqQ)
        \/ /\ ToSet(nvmeDmaReqQ') = ToSet(nvmeDmaReqQ)
           /\ Line(nandReqQ') = Line(nandReqQ) \cup {s}
           /\ Line(blockedByRowAddrDepReqQ') = Line(blockedByRowAddrDepReqQ)
        \/ /\ ToSet(nvmeDmaReqQ') = ToSet(nvmeDmaReqQ)
           /\ Line(nandReqQ') = Line(nandReqQ)
           /\ Line(blockedByRowAddrDepReqQ') = Line(blockedByRowAddrDepReqQ) \cup {s}
    BY <1>2, <1>3, <2>1, <2>2, <2>3, EnterPlace
  <2>6. /\ nvmeDmaReqQ' \in Seq(Slot) /\ nandReqQ' \in [Die -> Seq(Slot)]
        /\ blockedByRowAddrDepReqQ' \in [Die -> Seq(Slot)]
        /\ blockedReqCnt' \in Int /\ notCompletedNandReqCnt' \in Int
    BY <1>2, <1>3, <2>1, <2>3, EnterKeepsTypes
  <2>7. Apart'
    BY <1>2, <1>3, <1>4, <1>5, <2>1, <2>2, <2>5 DEF Apart, Outstanding, LowLevel
  <2>8. Everywhere'
    BY <1>2, <1>3, <1>4, <1>5, <2>1, <2>5 DEF Everywhere, LowLevel
  <2>9. OnceOnTheirDies' /\ CodesMatch'
    BY <1>2, <1>3, <2>4, <2>5 DEF OnceOnTheirDies, CodesMatch
  <2>10. Counted'
    <3>e. PICK lN, nN, rN, cN, kN :
             /\ lN = Len(nvmeDmaReqQ') /\ nN = Total(nandReqQ') /\ rN = Total(blockedByRowAddrDepReqQ')
             /\ cN = notCompletedNandReqCnt' /\ kN = blockedReqCnt'
      OBVIOUS
    <3>n. lN \in Int /\ nN \in Int /\ rN \in Int /\ cN \in Int /\ kN \in Int
      BY <2>4, <2>6, <3>e, TotalsAreNumbers, LenProperties
    <3>1. lN + nN + rN = l + n + rr + 1 /\ kN - rN = k - rr /\ cN - nN = c - n
      BY <1>e, <2>4, <3>e, Zenon DEF OneMore
    <3>2. cN = nN /\ kN = w + rN /\ f + 0 + w + rN + lN + nN = all
      BY <1>n, <1>7, <3>n, <3>1
    <3>3. /\ blockedReqCnt' = Cardinality(blockedByBufDepReqQ') + Total(blockedByRowAddrDepReqQ')
          /\ notCompletedNandReqCnt' = Total(nandReqQ')
      BY <1>e, <2>1, <3>e, <3>2, Zenon
    <3>4. Cardinality(Idle') + Cardinality(Hand')
            + Cardinality(blockedByBufDepReqQ') + Total(blockedByRowAddrDepReqQ')
            + Len(nvmeDmaReqQ') + Total(nandReqQ') = Cardinality(Slot)
      BY <1>3, <1>6, <1>e, <2>1, <3>e, <3>2, Zenon
    <3> QED
      BY <2>4, <3>3, <3>4, Zenon DEF Counted
  <2> QED
    BY <2>7, <2>8, <2>9, <2>10
<1>9. CASE ~CheckBufDep(s)
  <2>1. /\ blockedByBufDepReqQ' = blockedByBufDepReqQ \cup {s}
        /\ blockedReqCnt' = blockedReqCnt + 1
        /\ UNCHANGED <<blockedByRowAddrDepReqQ, nvmeDmaReqQ, nandReqQ, notCompletedNandReqCnt>>
    BY <1>3, <1>9 DEF SelectLowLevelReqQ
  <2>2. /\ RowBlocked' = RowBlocked /\ InNand' = InNand
        /\ s \notin ToSet(nvmeDmaReqQ) /\ s \notin InNand /\ s \notin RowBlocked
        /\ s \notin blockedByBufDepReqQ
    BY <1>2, <1>4, <1>5, <2>1 DEF LowLevel
  <2>3. Apart'
    BY <1>2, <1>3, <1>4, <2>1, <2>2 DEF Apart, Outstanding, LowLevel
  <2>4. Everywhere'
    BY <1>2, <1>3, <1>4, <2>1, <2>2 DEF Everywhere, LowLevel
  <2>5. OnceOnTheirDies' /\ CodesMatch'
    BY <1>2, <1>3, <2>1 DEF OnceOnTheirDies, CodesMatch
  <2>6. Counted'
    <3>1. Cardinality(blockedByBufDepReqQ') = Cardinality(blockedByBufDepReqQ) + 1
      BY <1>2, <1>3, <2>1, <2>2, CountOneMore
    <3>2. k + 1 = (w + 1) + rr /\ f + 0 + (w + 1) + rr + l + n = all
      BY <1>n, <1>7
    <3>3. blockedReqCnt' = Cardinality(blockedByBufDepReqQ') + Total(blockedByRowAddrDepReqQ')
      BY <1>e, <2>1, <3>1, <3>2, Zenon
    <3>4. Cardinality(Idle') + Cardinality(Hand')
            + Cardinality(blockedByBufDepReqQ') + Total(blockedByRowAddrDepReqQ')
            + Len(nvmeDmaReqQ') + Total(nandReqQ') = Cardinality(Slot)
      BY <1>3, <1>6, <1>e, <2>1, <3>1, <3>2, Zenon
    <3> QED
      BY <1>2, <2>1, <3>3, <3>4, Zenon DEF Counted
  <2> QED
    BY <2>3, <2>4, <2>5, <2>6
<1> QED
  BY <1>8, <1>9

\* The steps that move no request.
LEMMA QuietKeepsSlots ==
  ASSUME SlotsInv, UNCHANGED slotVars
  PROVE  Apart' /\ OnceOnTheirDies' /\ CodesMatch' /\ Everywhere' /\ Counted'
<1>1. UNCHANGED <<req, Idle, blockedByBufDepReqQ, blockedByRowAddrDepReqQ, nvmeDmaReqQ, nandReqQ,
                  notCompletedNandReqCnt, blockedReqCnt, slot>>
  BY DEF slotVars, lowQueues, counters, Idle
<1> QED
  BY <1>1 DEF SlotsInv, Apart, OnceOnTheirDies, CodesMatch, Everywhere, Counted, Outstanding,
     LowLevel, Hand, RowBlocked, InNand

\* A request whose row lets it through goes to the queue of its die.
LEMMA ReleaseKeepsSlots ==
  ASSUME SlotsInv, NEW d \in Die, ReleaseBlockedByRowAddrDepReq(d)
  PROVE  Apart' /\ OnceOnTheirDies' /\ CodesMatch' /\ Everywhere' /\ Counted'
<1> DEFINE q == blockedByRowAddrDepReqQ[d]
<1>1. /\ DepTypeOK /\ Apart /\ OnceOnTheirDies /\ CodesMatch /\ Everywhere /\ Counted
      /\ RowBlocked = Line(blockedByRowAddrDepReqQ) /\ InNand = Line(nandReqQ)
      /\ blockedByRowAddrDepReqQ \in [Die -> Seq(Slot)] /\ nandReqQ \in [Die -> Seq(Slot)]
      /\ blockedReqCnt \in Int /\ notCompletedNandReqCnt \in Int
      /\ pass \in PassType /\ (pass.at = "release" => pass.i \in 1..(Len(blockedByRowAddrDepReqQ[pass.die]) + 1))
  BY DEF SlotsInv, DepInv, DepTypeOK, WalkInQueue, RowBlocked, InNand, Line
<1>2. /\ pass.at = "release" /\ pass.die = d /\ pass.i <= Len(q)
      /\ UNCHANGED <<req, Idle, blockedByBufDepReqQ, nvmeDmaReqQ, slot>>
  BY DEF ReleaseBlockedByRowAddrDepReq, caller, Idle
<1>3. /\ q \in Seq(Slot) /\ pass.i \in 1..Len(q) /\ DOMAIN q = 1..Len(q) /\ Len(q) \in Nat
  <2>1. q \in Seq(Slot) /\ Len(q) \in Nat /\ DOMAIN q = 1..Len(q)
    BY <1>1, LenProperties
  <2>2. pass.i \in 1..(Len(q) + 1)
    BY <1>1, <1>2
  <2> QED
    BY <1>2, <2>1, <2>2
<1>4. PICK s : s = q[pass.i]
  OBVIOUS
<1>5. s \in Slot /\ s \in ToSet(q)
  BY <1>3, <1>4, ElementOfSeq DEF ToSet
<1>6. CASE ~RowAddrPass(req[s])
  <2>1. UNCHANGED <<blockedByRowAddrDepReqQ, nandReqQ, notCompletedNandReqCnt, blockedReqCnt>>
    BY <1>2, <1>4, <1>6 DEF ReleaseBlockedByRowAddrDepReq, counters
  <2> QED
    BY <1>2, <2>1, QuietKeepsSlots DEF slotVars, lowQueues, counters
<1>7. CASE RowAddrPass(req[s])
  <2>0. PICK rq : rq = req
    OBVIOUS
  <2>1. /\ blockedByRowAddrDepReqQ' = [blockedByRowAddrDepReqQ EXCEPT ![d] = RemoveAt(@, pass.i)]
        /\ nandReqQ' = [nandReqQ EXCEPT ![d] = Append(@, s)]
        /\ notCompletedNandReqCnt' = notCompletedNandReqCnt + 1
        /\ blockedReqCnt' = blockedReqCnt - 1
    BY <1>4, <1>7 DEF ReleaseBlockedByRowAddrDepReq
  <2>2. PICK m, a, r, b : /\ m = nandReqQ' /\ a = Append(nandReqQ[d], s)
                          /\ r = blockedByRowAddrDepReqQ' /\ b = RemoveAt(q, pass.i)
    OBVIOUS
  <2>3. /\ OnTheirDies(rq, blockedByRowAddrDepReqQ) /\ OnTheirDies(rq, nandReqQ)
        /\ IsInjective(q) /\ rq[s].die = d /\ rq[s].code \in {"READ", "WRITE", "ERASE"}
    <3>1. OnTheirDies(rq, blockedByRowAddrDepReqQ) /\ OnTheirDies(rq, nandReqQ)
      BY <1>1, <2>0, Zenon DEF OnceOnTheirDies
    <3> QED
      BY <1>5, <3>1 DEF OnTheirDies
  <2>4. /\ s \in Line(blockedByRowAddrDepReqQ) /\ s \notin Line(nandReqQ)
        /\ s \notin ToSet(nvmeDmaReqQ) /\ s \notin blockedByBufDepReqQ /\ s \notin Idle
        /\ s \notin Hand
    <3>1. s \in Line(blockedByRowAddrDepReqQ)
      BY <1>5, LineElements
    <3> QED
      BY <1>1, <3>1 DEF Apart, Outstanding, LowLevel
  <2>5. /\ a \in Seq(Slot) /\ Len(a) = Len(nandReqQ[d]) + 1 /\ ToSet(a) = ToSet(nandReqQ[d]) \cup {s}
        /\ IsInjective(nandReqQ[d]) /\ s \notin ToSet(nandReqQ[d]) => IsInjective(a)
    BY <1>1, <1>5, <2>2, AppendSet, AppendProperties
  <2>6. /\ b \in Seq(Slot) /\ Len(b) = Len(q) - 1 /\ ToSet(b) = ToSet(q) \ {s} /\ IsInjective(b)
    BY <1>3, <1>4, <2>2, <2>3, RemoveAtLen, RemoveAtSet
  <2>7. /\ m \in [Die -> Seq(Slot)] /\ m[d] = a /\ \A x \in Die \ {d} : m[x] = nandReqQ[x]
    BY <1>1, <2>1, <2>2, <2>5
  <2>8. /\ r \in [Die -> Seq(Slot)] /\ r[d] = b /\ \A x \in Die \ {d} : r[x] = blockedByRowAddrDepReqQ[x]
    BY <1>1, <2>1, <2>2, <2>6
  <2>9. /\ OnTheirDies(rq, m)
    <3>1. /\ ToSet(m[d]) = ToSet(nandReqQ[d]) \cup {s}
          /\ IsInjective(nandReqQ[d]) /\ s \notin ToSet(nandReqQ[d]) => IsInjective(m[d])
      BY <2>5, <2>7
    <3> QED
      BY <1>1, <1>5, <2>3, <2>4, <2>7, <3>1, OnTheirDiesAppend
  <2>10. IsFiniteSet(Seats(m)) /\ Total(m) = Total(nandReqQ) + 1
    <3>1. /\ Len(nandReqQ[d]) \in Nat /\ Len(m[d]) = Len(nandReqQ[d]) + 1
          /\ IsFiniteSet(Seats(nandReqQ))
      BY <1>1, <2>5, <2>7, LenProperties DEF Counted
    <3> QED
      BY <1>1, <2>7, <3>1, TotalAppend
  <2>11. OnTheirDies(rq, r) /\ IsFiniteSet(Seats(r)) /\ Total(r) = Total(blockedByRowAddrDepReqQ) - 1
    <3>1. /\ IsFiniteSet(Seats(blockedByRowAddrDepReqQ)) /\ Len(q) \in Nat /\ Len(b) \in Nat
          /\ s \in ToSet(blockedByRowAddrDepReqQ[d])
          /\ ToSet(b) = ToSet(blockedByRowAddrDepReqQ[d]) \ {s}
          /\ Len(b) = Len(blockedByRowAddrDepReqQ[d]) - 1
      BY <1>1, <1>3, <1>5, <2>6, LenProperties DEF Counted
    <3>2. OnTheirDies(rq, r)
      BY <1>1, <1>5, <2>3, <2>6, <2>8, <3>1, LineRemove, Zenon
    <3>3. IsFiniteSet(Seats(r)) /\ Total(r) = Total(blockedByRowAddrDepReqQ) - 1
      BY <1>1, <1>5, <2>3, <2>6, <2>8, <3>1, LineRemove, Zenon
    <3> QED
      BY <3>2, <3>3
  <2>12. /\ \A x : x \in InNand' <=> x \in InNand \/ x = s
         /\ \A x : x \in RowBlocked' <=> x \in RowBlocked /\ x # s
         /\ s \in RowBlocked
    <3>1. InNand' = Line(m) /\ RowBlocked' = Line(r)
      BY <2>2 DEF InNand, RowBlocked, Line
    <3>2. \A x : x \in Line(m) <=> x \in Line(nandReqQ) \/ x = s
      BY <2>5, <2>7, LineElements
    <3>3. \A x : x \in Line(r) <=> x \in Line(blockedByRowAddrDepReqQ) /\ x # s
      <4>1. \A x \in Die \ {d} : s \notin ToSet(blockedByRowAddrDepReqQ[x])
        BY <2>3 DEF OnTheirDies
      <4> QED
        BY <2>6, <2>8, <4>1, LineElements
    <3> QED
      BY <1>1, <2>4, <3>1, <3>2, <3>3
  <2>13. Apart'
    BY <1>1, <1>2, <2>4, <2>12 DEF Apart, Outstanding, LowLevel, Hand
  <2>14. Everywhere'
    <3>1. \A x : x \in LowLevel' <=> x \in LowLevel
      BY <1>2, <2>12 DEF LowLevel
    <3> QED
      BY <1>1, <1>2, <3>1 DEF Everywhere, Hand
  <2>15. OnceOnTheirDies' /\ CodesMatch'
    <3>1. OnTheirDies(req', nandReqQ') /\ OnTheirDies(req', blockedByRowAddrDepReqQ')
      BY <1>2, <2>0, <2>2, <2>9, <2>11, Zenon
    <3> QED
      BY <1>1, <1>2, <3>1 DEF OnceOnTheirDies, CodesMatch
  <2>16. Counted'
    <3>e. PICK f, h, w, rr, l, n, k, c, all, tm, tr :
             /\ f = Cardinality(Idle) /\ h = Cardinality(Hand)
             /\ w = Cardinality(blockedByBufDepReqQ) /\ rr = Total(blockedByRowAddrDepReqQ)
             /\ l = Len(nvmeDmaReqQ) /\ n = Total(nandReqQ) /\ all = Cardinality(Slot)
             /\ k = blockedReqCnt /\ c = notCompletedNandReqCnt
             /\ tm = Total(m) /\ tr = Total(r)
      OBVIOUS
    <3>n. /\ f \in Int /\ h \in Int /\ w \in Int /\ rr \in Int /\ l \in Int /\ n \in Int
          /\ k \in Int /\ c \in Int /\ tm \in Int /\ tr \in Int
      <4>1. IsFiniteSet(Seats(blockedByRowAddrDepReqQ)) /\ IsFiniteSet(Seats(nandReqQ))
        BY <1>1 DEF Counted
      <4>2. /\ tm \in Int /\ tr \in Int /\ rr \in Int /\ n \in Int
        BY <2>10, <2>11, <4>1, <3>e, TotalsAreNumbers
      <4>3. Idle \in SUBSET Slot
        BY DEF Idle
      <4>4. f \in Int /\ h \in Int /\ w \in Int /\ l \in Int /\ k \in Int /\ c \in Int
        BY <1>1, <3>e, <4>3, SubsetsAreFinite, HandIsFinite, LenProperties DEF DepTypeOK
      <4> QED
        BY <4>2, <4>4
    <3>1. f + h + w + rr + l + n = all /\ k = w + rr /\ c = n
      BY <1>1, <3>e, Zenon DEF Counted
    <3>2. tm = n + 1 /\ tr = rr - 1
      BY <2>10, <2>11, <3>e, Zenon
    <3>3. f + h + w + tr + l + tm = all /\ k - 1 = w + tr /\ c + 1 = tm
      BY <3>n, <3>1, <3>2
    <3>4. Hand' = Hand
      BY <1>2 DEF Hand
    <3>5. /\ blockedReqCnt' = Cardinality(blockedByBufDepReqQ') + Total(blockedByRowAddrDepReqQ')
          /\ notCompletedNandReqCnt' = Total(nandReqQ')
      BY <1>2, <2>1, <2>2, <3>e, <3>3, Zenon
    <3>6. Cardinality(Idle') + Cardinality(Hand')
            + Cardinality(blockedByBufDepReqQ') + Total(blockedByRowAddrDepReqQ')
            + Len(nvmeDmaReqQ') + Total(nandReqQ') = Cardinality(Slot)
      BY <1>2, <2>2, <3>e, <3>3, <3>4, Zenon
    <3>7. IsFiniteSet(Seats(blockedByRowAddrDepReqQ')) /\ IsFiniteSet(Seats(nandReqQ'))
      BY <2>2, <2>10, <2>11, Zenon
    <3> QED
      BY <3>5, <3>6, <3>7, Zenon DEF Counted
  <2> QED
    BY <2>13, <2>14, <2>15, <2>16
<1> QED
  BY <1>6, <1>7

\* What each step does, as far as the slots go.
LEMMA StepsOfSlots ==
  ASSUME SlotsInv, AnyStep
  PROVE  \/ \E s \in Slot, r \in Requests : Makes(s, r)
         \/ Select
         \/ \E s, dma, nand, running : Leaves(s, dma, nand, running)
         \/ \E d \in Die : ReleaseBlockedByRowAddrDepReq(d)
         \/ UNCHANGED slotVars
<1>1. CASE StartPass \/ TakesSlots
  BY <1>1 DEF StartPass, TakesSlots, slotVars, tables, caller
<1>2. CASE PassStep
  <2>1. CASE CheckDoneNvmeDmaReq
    BY <2>1, TransferLeaves
  <2>2. CASE CheckDoneEnds
    BY <2>2 DEF CheckDoneEnds, slotVars, tables, caller
  <2>3. ASSUME NEW d \in Die, FinishNandReq(d)
        PROVE  \E s, dma, nand, running : Leaves(s, dma, nand, running)
    BY <2>3, FinishLeaves
  <2>4. ASSUME NEW d \in Die, DieIdle(d) \/ ReleaseEnds(d) \/ IssueNandReq(d) \/ LeaveDie(d)
        PROVE  UNCHANGED slotVars
    BY <2>4 DEF DieIdle, ReleaseEnds, IssueNandReq, LeaveDie, slotVars, tables, caller
  <2> QED
    BY <1>2, <2>1, <2>2, <2>3, <2>4 DEF PassStep
<1> QED
  BY <1>1, <1>2 DEF AnyStep

LEMMA StepKeepsSlots == ASSUME SlotsInv, AnyStep PROVE SlotsInv'
<1>1. DepInv'
  BY StepKeepsInv DEF SlotsInv
<1> QED
  BY <1>1, StepsOfSlots, RequestKeepsSlots, SelectKeepsSlots, LeavesKeepsSlots,
     ReleaseKeepsSlots, QuietKeepsSlots DEF SlotsInv

\* A step of the specification that stutters is one that takes no slots.
LEMMA SlotsInvStutter == ASSUME SlotsInv, UNCHANGED depVars PROVE SlotsInv'
<1>1. TakesSlots
  BY DEF TakesSlots, depVars, SlotsInv, DepInv, DepTypeOK
<1> QED
  BY <1>1, StepKeepsSlots DEF AnyStep

LEMMA InitSlots == DepInit => SlotsInv
<1> SUFFICES ASSUME DepInit PROVE SlotsInv
  OBVIOUS
<1>1. DepInv
  BY InitTyped
<1>2. /\ req = [s \in Slot |-> NoReq] /\ Idle = Slot /\ blockedByBufDepReqQ = {}
      /\ blockedByRowAddrDepReqQ = [d \in Die |-> <<>>] /\ nvmeDmaReqQ = <<>>
      /\ nandReqQ = [d \in Die |-> <<>>] /\ notCompletedNandReqCnt = 0 /\ blockedReqCnt = 0
      /\ slot = NONE
  BY DEF DepInit, Idle, NoReq
<1>3. /\ ToSet(nvmeDmaReqQ) = {} /\ IsInjective(nvmeDmaReqQ) /\ Len(nvmeDmaReqQ) = 0
  BY <1>2 DEF ToSet, IsInjective
<1>4. /\ RowBlocked = {} /\ InNand = {} /\ Hand = {} /\ LowLevel = {} /\ Outstanding = {}
  <2>1. RowBlocked = {} /\ InNand = {}
    BY <1>2, LineEmpty DEF RowBlocked, InNand, Line
  <2> QED
    BY <1>2, <1>3, <2>1 DEF Hand, LowLevel, Outstanding
<1>5. Apart /\ Everywhere
  BY <1>2, <1>3, <1>4 DEF Apart, Everywhere
<1>6. OnceOnTheirDies
  BY <1>2, <1>3, LineEmpty DEF OnceOnTheirDies
<1>7. CodesMatch
  BY <1>2, <1>3 DEF CodesMatch, NoReq
<1>8. Counted
  <2>1. /\ Cardinality({}) = 0 /\ Cardinality(Slot) \in Nat
    BY FS_EmptySet, FS_CardinalityType, SlotsFinite
  <2>2. /\ IsFiniteSet(Seats(nandReqQ)) /\ Total(nandReqQ) = 0
        /\ IsFiniteSet(Seats(blockedByRowAddrDepReqQ)) /\ Total(blockedByRowAddrDepReqQ) = 0
    BY <1>2, LineEmpty
  <2>3. /\ Cardinality(Idle) = Cardinality(Slot) /\ Cardinality(Hand) = 0
        /\ Cardinality(blockedByBufDepReqQ) = 0
    BY <1>2, <1>4, <2>1
  <2> QED
    BY <1>2, <1>3, <2>1, <2>2, <2>3 DEF Counted
<1> QED
  BY <1>1, <1>5, <1>6, <1>7, <1>8 DEF SlotsInv

LEMMA SlotsInvMeans == SlotsInv /\ FreeIsIdle => SlotsAccountedFor
BY DEF SlotsInv, OnceOnTheirDies, OnTheirDies, Everywhere, Counted, SlotsAccountedFor, FreeIsIdle

\* No put or get of request_allocation.c is missing or done twice: whatever is
\* asked for and in whatever order completions and rows release the requests
\* that wait, each slot is in one place, once, and the two counters that tell
\* the thread whether there is work are the numbers of requests they stand for.
THEOREM SlotsAlwaysAccountedFor == DepSpec => []SlotsAccountedFor
<1>1. DepInit => SlotsInv
  BY InitSlots
<1>2. SlotsInv /\ [AnyStep]_depVars => SlotsInv'
  BY StepKeepsSlots, SlotsInvStutter
<1>3. SlotsInv /\ FreeIsIdle => SlotsAccountedFor
  BY SlotsInvMeans
<1> QED
  BY <1>1, <1>2, <1>3, StepsAreAny, PTL DEF DepSpec

-----------------------------------------------------------------------------
\* Who waits for whom, as relations over any requests rq, any waits wf and the
\* set out of the requests made and not yet done.

\* A request waits only for earlier ones it is in conflict with; of two in
\* conflict one waits for the other; and the waits go in one direction.
Waits(rq, wf, out) ==
  /\ \A x \in Slot : wf[x] \subseteq out /\ x \notin wf[x]
  /\ \A x \in Slot \ out : wf[x] = {}
  /\ \A x \in Slot : \A y \in wf[x] : Conflict(rq[x], rq[y]) /\ x \notin wf[y]
  /\ \A x, y \in out : x # y /\ Conflict(rq[x], rq[y]) => x \in wf[y] \/ y \in wf[x]
  /\ \A x \in Slot : \A y \in wf[x] : \A z \in wf[y] : Conflict(rq[x], rq[z]) => z \in wf[x]

\* Among any requests there is one that waits for none of them.
SomeoneFirst(wf) == \A T \in SUBSET Slot : T # {} => \E m \in T : wf[m] \cap T = {}

LEMMA ConflictBothWays == \A r, q : Conflict(r, q) <=> Conflict(q, r)
BY DEF Conflict, SameBlock

LEMMA WaitsAdd ==
  ASSUME NEW out \in SUBSET Slot, NEW s \in Slot \ out, NEW r,
         NEW rq, NEW wf, NEW rqN, NEW wfN,
         Waits(rq, wf, out),
         rqN[s] = r, \A x \in Slot \ {s} : rqN[x] = rq[x] /\ wfN[x] = wf[x],
         wfN[s] = {t \in out : Conflict(r, rq[t])}
  PROVE  Waits(rqN, wfN, out \cup {s})
<1> USE DEF Waits
<1>1. \A x \in Slot : s \notin wf[x]
  OBVIOUS
<1>2. \A x \in Slot : wfN[x] \subseteq out \cup {s} /\ x \notin wfN[x]
  OBVIOUS
<1>3. \A x \in Slot \ (out \cup {s}) : wfN[x] = {}
  OBVIOUS
<1>4. ASSUME NEW x \in Slot, NEW y \in wfN[x]
      PROVE  Conflict(rqN[x], rqN[y]) /\ x \notin wfN[y]
  <2>1. y \in out /\ y # s
    BY <1>1
  <2>2. CASE x = s
    BY <1>1, <2>1, <2>2
  <2>3. CASE x # s
    BY <2>1, <2>3
  <2> QED
    BY <2>2, <2>3
<1>5. ASSUME NEW x \in out \cup {s}, NEW y \in out \cup {s}, x # y, Conflict(rqN[x], rqN[y])
      PROVE  x \in wfN[y] \/ y \in wfN[x]
  <2>1. CASE x = s
    BY <1>5, <2>1
  <2>2. CASE y = s
    BY <1>5, <2>2, ConflictBothWays
  <2>3. CASE x # s /\ y # s
    BY <1>5, <2>3
  <2> QED
    BY <2>1, <2>2, <2>3
<1>6. ASSUME NEW x \in Slot, NEW y \in wfN[x], NEW z \in wfN[y], Conflict(rqN[x], rqN[z])
      PROVE  z \in wfN[x]
  <2>1. y \in out /\ y # s /\ z \in out /\ z # s
    BY <1>1
  <2>2. CASE x = s
    BY <1>6, <2>1, <2>2
  <2>3. CASE x # s
    BY <1>6, <2>1, <2>3
  <2> QED
    BY <2>2, <2>3
<1> QED
  BY <1>2, <1>3, <1>4, <1>5, <1>6

LEMMA WaitsDrop ==
  ASSUME NEW out \in SUBSET Slot, NEW s \in out,
         NEW rq, NEW wf, NEW rqN, NEW wfN,
         Waits(rq, wf, out),
         \A x \in Slot \ {s} : rqN[x] = rq[x] /\ wfN[x] = wf[x] \ {s},
         wfN[s] = {}
  PROVE  Waits(rqN, wfN, out \ {s})
<1> USE DEF Waits
<1>1. \A x \in Slot : wfN[x] \subseteq out \ {s} /\ x \notin wfN[x]
  OBVIOUS
<1>2. \A x \in Slot \ (out \ {s}) : wfN[x] = {}
  OBVIOUS
<1>3. ASSUME NEW x \in Slot, NEW y \in wfN[x]
      PROVE  Conflict(rqN[x], rqN[y]) /\ x \notin wfN[y]
  <2>1. x # s /\ y \in out /\ y # s /\ y \in wf[x]
    BY <1>1
  <2> QED
    BY <2>1
<1>4. ASSUME NEW x \in out \ {s}, NEW y \in out \ {s}, x # y, Conflict(rqN[x], rqN[y])
      PROVE  x \in wfN[y] \/ y \in wfN[x]
  BY <1>4
<1>5. ASSUME NEW x \in Slot, NEW y \in wfN[x], NEW z \in wfN[y], Conflict(rqN[x], rqN[z])
      PROVE  z \in wfN[x]
  <2>1. x # s /\ y \in out /\ y # s /\ y \in wf[x] /\ z # s /\ z \in wf[y] /\ z \in out
    BY <1>1
  <2> QED
    BY <1>5, <2>1
<1> QED
  BY <1>1, <1>2, <1>3, <1>4, <1>5

LEMMA FirstAdd ==
  ASSUME NEW s \in Slot, NEW wf, NEW wfN, SomeoneFirst(wf),
         \A x \in Slot \ {s} : wfN[x] = wf[x] /\ s \notin wf[x],
         s \notin wfN[s]
  PROVE  SomeoneFirst(wfN)
<1> SUFFICES ASSUME NEW T \in SUBSET Slot, T # {} PROVE \E m \in T : wfN[m] \cap T = {}
  BY DEF SomeoneFirst
<1>1. CASE T \ {s} = {}
  BY <1>1
<1>2. CASE T \ {s} # {}
  <2>1. PICK m \in T \ {s} : wf[m] \cap (T \ {s}) = {}
    BY <1>2 DEF SomeoneFirst
  <2> QED
    BY <2>1
<1> QED
  BY <1>1, <1>2

LEMMA FirstDrop ==
  ASSUME NEW wf, NEW wfN, SomeoneFirst(wf), \A x \in Slot : wfN[x] \subseteq wf[x]
  PROVE  SomeoneFirst(wfN)
<1> SUFFICES ASSUME NEW T \in SUBSET Slot, T # {} PROVE \E m \in T : wfN[m] \cap T = {}
  BY DEF SomeoneFirst
<1>1. PICK m \in T : wf[m] \cap T = {}
  BY DEF SomeoneFirst
<1> QED
  BY <1>1

-----------------------------------------------------------------------------
\* The chains of the entries, with the links prv and nxt and the tails tl.

\* The users of its entry that a request waits for.
Ahead(rq, wf, s) == {y \in wf[s] : rq[s].entry # NONE /\ rq[y].entry = rq[s].entry}
UsersOf(rq, out, e) == {x \in out : rq[x].entry = e}

\* A link goes to the last of those ahead, and back; the tail has all the
\* other users ahead of it, and no other user is without a successor.
Linked(rq, wf, prv, nxt) ==
  /\ \A t \in Slot : prv[t] = NONE => Ahead(rq, wf, t) = {}
  /\ \A t, s \in Slot : prv[t] = s =>
       /\ s \in Ahead(rq, wf, t) /\ nxt[s] = t
       /\ Ahead(rq, wf, t) = {s} \cup Ahead(rq, wf, s)
  /\ \A t, s \in Slot : nxt[s] = t => prv[t] = s
Tails(rq, wf, nxt, tl, out) ==
  \A e \in Entry :
    /\ tl[e] = NONE => UsersOf(rq, out, e) = {}
    /\ tl[e] # NONE =>
         /\ tl[e] \in UsersOf(rq, out, e)
         /\ UsersOf(rq, out, e) \ {tl[e]} \subseteq wf[tl[e]]
         /\ \A u \in UsersOf(rq, out, e) : nxt[u] = NONE => u = tl[e]

\* Request r is put in slot s, behind the last user of its entry.
Grows(rq, wf, prv, nxt, tl, out, s, r, tail, rqN, wfN, prvN, nxtN, tlN) ==
  /\ out \in SUBSET Slot /\ s \in Slot \ out /\ r \in ReqType
  /\ prv \in [Slot -> SlotOrNone] /\ nxt \in [Slot -> SlotOrNone] /\ tl \in [Entry -> SlotOrNone]
  /\ Waits(rq, wf, out) /\ Linked(rq, wf, prv, nxt) /\ Tails(rq, wf, nxt, tl, out)
  /\ prv[s] = NONE /\ nxt[s] = NONE
  /\ rqN[s] = r /\ \A x \in Slot \ {s} : rqN[x] = rq[x] /\ wfN[x] = wf[x]
  /\ wfN[s] = {t \in out : Conflict(r, rq[t])}
  /\ tail = (IF r.entry = NONE THEN NONE ELSE tl[r.entry])
  /\ prvN = IF tail = NONE THEN prv ELSE [prv EXCEPT ![s] = tail]
  /\ nxtN = IF tail = NONE THEN nxt ELSE [nxt EXCEPT ![tail] = s]
  /\ tlN = IF r.entry = NONE THEN tl ELSE [tl EXCEPT ![r.entry] = s]

LEMMA LinkedAdd ==
  ASSUME NEW rq, NEW wf, NEW prv, NEW nxt, NEW tl, NEW out, NEW s, NEW r, NEW tail,
         NEW rqN, NEW wfN, NEW prvN, NEW nxtN, NEW tlN,
         Grows(rq, wf, prv, nxt, tl, out, s, r, tail, rqN, wfN, prvN, nxtN, tlN)
  PROVE  Linked(rqN, wfN, prvN, nxtN) /\ Tails(rqN, wfN, nxtN, tlN, out \cup {s})
<1> /\ out \in SUBSET Slot /\ s \in Slot \ out /\ r \in ReqType
    /\ prv \in [Slot -> SlotOrNone] /\ nxt \in [Slot -> SlotOrNone] /\ tl \in [Entry -> SlotOrNone]
    /\ Waits(rq, wf, out) /\ Linked(rq, wf, prv, nxt) /\ Tails(rq, wf, nxt, tl, out)
    /\ prv[s] = NONE /\ nxt[s] = NONE
    /\ rqN[s] = r /\ \A x \in Slot \ {s} : rqN[x] = rq[x] /\ wfN[x] = wf[x]
    /\ wfN[s] = {t \in out : Conflict(r, rq[t])}
    /\ tail = (IF r.entry = NONE THEN NONE ELSE tl[r.entry])
    /\ prvN = IF tail = NONE THEN prv ELSE [prv EXCEPT ![s] = tail]
    /\ nxtN = IF tail = NONE THEN nxt ELSE [nxt EXCEPT ![tail] = s]
    /\ tlN = IF r.entry = NONE THEN tl ELSE [tl EXCEPT ![r.entry] = s]
  BY DEF Grows
<1>1. NONE \notin Slot /\ NONE \notin Entry
  BY RequestNone
<1>2. \A x \in Slot : wf[x] \subseteq out /\ s \notin wf[x]
  BY DEF Waits
<1>3. ASSUME NEW x \in Slot \ {s} PROVE Ahead(rqN, wfN, x) = Ahead(rq, wf, x)
  BY <1>2 DEF Ahead
<1>4. Ahead(rqN, wfN, s) = {t \in out : r.entry # NONE /\ rq[t].entry = r.entry}
  BY <1>2 DEF Ahead, Conflict
<1>5. CASE tail = NONE
  <2>1. prvN = prv /\ nxtN = nxt
    BY <1>5
  <2>2. Ahead(rqN, wfN, s) = {}
    <3>1. CASE r.entry = NONE
      BY <1>4, <3>1
    <3>2. CASE r.entry # NONE
      <4>1. r.entry \in Entry /\ tl[r.entry] = NONE
        BY <1>5, <3>2 DEF ReqType
      <4> QED
        BY <1>4, <4>1 DEF Tails, UsersOf
    <3> QED
      BY <3>1, <3>2
  <2>3. \A t \in Slot : prv[t] # s
    <3>1. \A t \in Slot : prv[t] = s => s \in Ahead(rq, wf, t)
      BY DEF Linked
    <3> QED
      BY <1>2, <3>1 DEF Ahead
  <2>4. Linked(rqN, wfN, prv, nxt)
    <3>1. ASSUME NEW t \in Slot, prv[t] = NONE PROVE Ahead(rqN, wfN, t) = {}
      BY <1>3, <2>2, <3>1 DEF Linked
    <3>2. ASSUME NEW t \in Slot, NEW u \in Slot, prv[t] = u
          PROVE  /\ u \in Ahead(rqN, wfN, t) /\ nxt[u] = t
                 /\ Ahead(rqN, wfN, t) = {u} \cup Ahead(rqN, wfN, u)
      <4>1. t # s /\ u # s
        BY <1>1, <2>3, <3>2
      <4> QED
        BY <1>3, <3>2, <4>1 DEF Linked
    <3> QED
      BY <3>1, <3>2 DEF Linked
  <2>5. Tails(rqN, wfN, nxt, tlN, out \cup {s})
    <3> SUFFICES ASSUME NEW e \in Entry
                 PROVE  /\ tlN[e] = NONE => UsersOf(rqN, out \cup {s}, e) = {}
                        /\ tlN[e] # NONE =>
                             /\ tlN[e] \in UsersOf(rqN, out \cup {s}, e)
                             /\ UsersOf(rqN, out \cup {s}, e) \ {tlN[e]} \subseteq wfN[tlN[e]]
                             /\ \A u \in UsersOf(rqN, out \cup {s}, e) : nxt[u] = NONE => u = tlN[e]
      BY DEF Tails
    <3>1. CASE e = r.entry
      <4>1. tlN[e] = s /\ tl[e] = NONE
        BY <1>1, <1>5, <3>1
      <4>2. UsersOf(rq, out, e) = {}
        BY <4>1 DEF Tails
      <4>3. UsersOf(rqN, out \cup {s}, e) = {s}
        BY <3>1, <4>2 DEF UsersOf
      <4> QED
        BY <1>1, <4>1, <4>3
    <3>2. CASE e # r.entry
      <4>1. tlN[e] = tl[e]
        BY <3>2
      <4>2. UsersOf(rqN, out \cup {s}, e) = UsersOf(rq, out, e)
        BY <3>2 DEF UsersOf
      <4>3. UsersOf(rq, out, e) \subseteq Slot \ {s}
        BY DEF UsersOf
      <4> QED
        BY <4>1, <4>2, <4>3 DEF Tails
    <3> QED
      BY <3>1, <3>2
  <2> QED
    BY <2>1, <2>4, <2>5
<1>6. CASE tail # NONE
  <2> DEFINE e0 == r.entry
  <2>1. /\ e0 \in Entry /\ tail = tl[e0] /\ tail \in UsersOf(rq, out, e0)
        /\ UsersOf(rq, out, e0) \ {tail} \subseteq wf[tail]
        /\ \A u \in UsersOf(rq, out, e0) : nxt[u] = NONE => u = tail
    BY <1>6 DEF ReqType, Tails
  <2>2. tail \in Slot /\ tail # s /\ tail \in out /\ rq[tail].entry = e0 /\ e0 # NONE
    BY <1>1, <2>1 DEF UsersOf
  <2>3. /\ prvN[s] = tail /\ \A x \in Slot \ {s} : prvN[x] = prv[x]
        /\ nxtN[tail] = s /\ \A x \in Slot \ {tail} : nxtN[x] = nxt[x]
    BY <1>6, <2>2
  <2>4. Ahead(rqN, wfN, s) = UsersOf(rq, out, e0)
    BY <1>4, <2>2 DEF UsersOf
  <2>5. Ahead(rqN, wfN, tail) = UsersOf(rq, out, e0) \ {tail}
    <3>1. Ahead(rqN, wfN, tail) = Ahead(rq, wf, tail)
      BY <1>3, <2>2
    <3>2. tail \notin wf[tail] /\ wf[tail] \subseteq out
      BY <2>2 DEF Waits
    <3> QED
      BY <2>1, <2>2, <3>1, <3>2 DEF Ahead, UsersOf
  <2>6. \A t \in Slot : prv[t] # s /\ nxt[t] # s
    <3>1. \A t \in Slot : prv[t] = s => s \in Ahead(rq, wf, t)
      BY DEF Linked
    <3>2. \A t \in Slot : nxt[t] = s => prv[s] = t
      BY DEF Linked
    <3> QED
      BY <1>1, <1>2, <3>1, <3>2 DEF Ahead
  <2>7. \A t \in Slot : prv[t] # tail
    <3> SUFFICES ASSUME NEW t \in Slot, prv[t] = tail PROVE FALSE
      OBVIOUS
    <3>1. tail \in Ahead(rq, wf, t)
      BY <2>2 DEF Linked
    <3>2. t \in out /\ rq[t].entry = e0 /\ tail \in wf[t]
      BY <2>2, <3>1 DEF Ahead, Waits
    <3>3. t # tail
      BY <3>2 DEF Waits
    <3>4. t \in wf[tail]
      BY <2>1, <3>2, <3>3 DEF UsersOf
    <3> QED
      BY <2>2, <3>2, <3>4 DEF Waits
  <2>8. Linked(rqN, wfN, prvN, nxtN)
    <3>1. ASSUME NEW t \in Slot, prvN[t] = NONE PROVE Ahead(rqN, wfN, t) = {}
      <4>1. t # s /\ prv[t] = NONE
        BY <1>6, <2>3, <3>1
      <4> QED
        BY <1>3, <4>1 DEF Linked
    <3>2. ASSUME NEW t \in Slot, NEW u \in Slot, prvN[t] = u
          PROVE  /\ u \in Ahead(rqN, wfN, t) /\ nxtN[u] = t
                 /\ Ahead(rqN, wfN, t) = {u} \cup Ahead(rqN, wfN, u)
      <4>1. CASE t = s
        BY <2>1, <2>3, <2>4, <2>5, <3>2, <4>1
      <4>2. CASE t # s
        <5>1. prv[t] = u /\ u # s /\ u # tail
          BY <2>3, <2>6, <2>7, <3>2, <4>2
        <5> QED
          BY <1>3, <2>3, <4>2, <5>1 DEF Linked
      <4> QED
        BY <4>1, <4>2
    <3>3. ASSUME NEW t \in Slot, NEW u \in Slot, nxtN[u] = t PROVE prvN[t] = u
      <4>1. CASE u = tail
        BY <2>3, <3>3, <4>1
      <4>2. CASE u # tail
        <5>1. nxt[u] = t /\ t # s
          BY <2>3, <2>6, <3>3, <4>2
        <5> QED
          BY <2>3, <5>1 DEF Linked
      <4> QED
        BY <4>1, <4>2
    <3> QED
      BY <3>1, <3>2, <3>3 DEF Linked
  <2>9. Tails(rqN, wfN, nxtN, tlN, out \cup {s})
    <3> SUFFICES ASSUME NEW e \in Entry
                 PROVE  /\ tlN[e] = NONE => UsersOf(rqN, out \cup {s}, e) = {}
                        /\ tlN[e] # NONE =>
                             /\ tlN[e] \in UsersOf(rqN, out \cup {s}, e)
                             /\ UsersOf(rqN, out \cup {s}, e) \ {tlN[e]} \subseteq wfN[tlN[e]]
                             /\ \A u \in UsersOf(rqN, out \cup {s}, e) : nxtN[u] = NONE => u = tlN[e]
      BY DEF Tails
    <3>1. CASE e = e0
      <4>1. tlN[e] = s
        BY <1>1, <2>2, <3>1
      <4>2. UsersOf(rqN, out \cup {s}, e) = UsersOf(rq, out, e) \cup {s}
        BY <3>1 DEF UsersOf
      <4>3. UsersOf(rq, out, e) \subseteq wfN[s]
        BY <1>2, <2>4, <3>1 DEF Ahead
      <4>4. \A u \in UsersOf(rq, out, e) : nxtN[u] # NONE
        <5>1. \A u \in UsersOf(rq, out, e) : u \in Slot
          BY DEF UsersOf
        <5> QED
          BY <1>1, <2>1, <2>3, <3>1, <5>1
      <4>5. tlN[e] \in UsersOf(rqN, out \cup {s}, e) /\ tlN[e] # NONE
        BY <1>1, <4>1, <4>2
      <4>6. UsersOf(rqN, out \cup {s}, e) \ {tlN[e]} \subseteq wfN[tlN[e]]
        BY <4>1, <4>2, <4>3
      <4>7. \A u \in UsersOf(rqN, out \cup {s}, e) : nxtN[u] = NONE => u = tlN[e]
        BY <4>1, <4>2, <4>4
      <4> QED
        BY <4>5, <4>6, <4>7, Zenon
    <3>2. CASE e # e0
      <4>1. tlN[e] = tl[e]
        BY <2>2, <3>2
      <4>2. UsersOf(rqN, out \cup {s}, e) = UsersOf(rq, out, e)
        BY <3>2 DEF UsersOf
      <4>3. UsersOf(rq, out, e) \subseteq Slot \ {s, tail}
        BY <2>2, <3>2 DEF UsersOf
      <4>4. \A u \in UsersOf(rq, out, e) : nxtN[u] = nxt[u] /\ wfN[u] = wf[u]
        BY <2>3, <4>3
      <4>5. tl[e] = NONE => UsersOf(rq, out, e) = {}
        BY DEF Tails
      <4>6. ASSUME tl[e] # NONE
            PROVE  /\ tl[e] \in UsersOf(rq, out, e)
                   /\ UsersOf(rq, out, e) \ {tl[e]} \subseteq wfN[tl[e]]
                   /\ \A u \in UsersOf(rq, out, e) : nxtN[u] = NONE => u = tl[e]
        BY <4>4, <4>6 DEF Tails
      <4> QED
        BY <4>1, <4>2, <4>5, <4>6
    <3> QED
      BY <3>1, <3>2
  <2> QED
    BY <2>8, <2>9
<1> QED
  BY <1>5, <1>6

\* The head s of a chain is done: its successor t, if any, is the new head.
Shrinks(rq, wf, prv, nxt, tl, out, s, t, e0, rqN, wfN, prvN, nxtN, tlN) ==
  /\ out \in SUBSET Slot /\ s \in out
  /\ prv \in [Slot -> SlotOrNone] /\ nxt \in [Slot -> SlotOrNone] /\ tl \in [Entry -> SlotOrNone]
  /\ Waits(rq, wf, out) /\ Linked(rq, wf, prv, nxt) /\ Tails(rq, wf, nxt, tl, out)
  /\ prv[s] = NONE
  /\ \A x \in Slot \ {s} : rqN[x] = rq[x] /\ wfN[x] = wf[x] \ {s}
  /\ wfN[s] = {} /\ rqN[s].entry = NONE
  /\ t = nxt[s]
  /\ prvN = IF t = NONE THEN prv ELSE [prv EXCEPT ![t] = NONE]
  /\ nxtN = [nxt EXCEPT ![s] = NONE]
  /\ e0 = rq[s].entry /\ e0 \in Entry \cup {NONE}
  /\ tlN = IF e0 # NONE /\ tl[e0] = s THEN [tl EXCEPT ![e0] = NONE] ELSE tl

LEMMA LinkedDrop ==
  ASSUME NEW rq, NEW wf, NEW prv, NEW nxt, NEW tl, NEW out, NEW s, NEW t, NEW e0,
         NEW rqN, NEW wfN, NEW prvN, NEW nxtN, NEW tlN,
         Shrinks(rq, wf, prv, nxt, tl, out, s, t, e0, rqN, wfN, prvN, nxtN, tlN)
  PROVE  Linked(rqN, wfN, prvN, nxtN) /\ Tails(rqN, wfN, nxtN, tlN, out \ {s})
<1> /\ out \in SUBSET Slot /\ s \in out
    /\ prv \in [Slot -> SlotOrNone] /\ nxt \in [Slot -> SlotOrNone] /\ tl \in [Entry -> SlotOrNone]
    /\ Waits(rq, wf, out) /\ Linked(rq, wf, prv, nxt) /\ Tails(rq, wf, nxt, tl, out)
    /\ prv[s] = NONE
    /\ \A x \in Slot \ {s} : rqN[x] = rq[x] /\ wfN[x] = wf[x] \ {s}
    /\ wfN[s] = {} /\ rqN[s].entry = NONE
    /\ t = nxt[s]
    /\ prvN = IF t = NONE THEN prv ELSE [prv EXCEPT ![t] = NONE]
    /\ nxtN = [nxt EXCEPT ![s] = NONE]
    /\ e0 = rq[s].entry /\ e0 \in Entry \cup {NONE}
    /\ tlN = IF e0 # NONE /\ tl[e0] = s THEN [tl EXCEPT ![e0] = NONE] ELSE tl
  BY DEF Shrinks
<1>1. NONE \notin Slot /\ NONE \notin Entry /\ s \in Slot
  BY RequestNone
<1>2. \A x \in Slot : wf[x] \subseteq out /\ x \notin wf[x]
  BY DEF Waits
<1>3. ASSUME NEW x \in Slot \ {s} PROVE Ahead(rqN, wfN, x) = Ahead(rq, wf, x) \ {s}
  BY <1>2 DEF Ahead
<1>4. Ahead(rqN, wfN, s) = {} /\ Ahead(rq, wf, s) = {}
  BY DEF Ahead, Linked
<1>5. t # NONE => /\ t \in Slot /\ t # s /\ prv[t] = s /\ Ahead(rq, wf, t) = {s}
  <2> HAVE t # NONE
  <2>1. t \in Slot /\ prv[t] = s
    BY DEF SlotOrNone, Linked
  <2>2. s \in Ahead(rq, wf, t) /\ Ahead(rq, wf, t) = {s} \cup Ahead(rq, wf, s)
    BY <1>1, <2>1 DEF Linked
  <2> QED
    BY <1>1, <1>4, <2>1, <2>2
<1>6. \A x \in Slot : prv[x] = s => x = t
  BY <1>1 DEF Linked
<1>7. /\ \A x \in Slot : prvN[x] = IF x = t THEN NONE ELSE prv[x]
      /\ nxtN[s] = NONE /\ \A x \in Slot \ {s} : nxtN[x] = nxt[x]
  BY <1>1, <1>5
<1>8. Linked(rqN, wfN, prvN, nxtN)
  <2>1. ASSUME NEW x \in Slot, prvN[x] = NONE PROVE Ahead(rqN, wfN, x) = {}
    <3>1. CASE x = s
      BY <1>4, <3>1
    <3>2. CASE x # s /\ x = t
      BY <1>1, <1>3, <1>5, <3>2
    <3>3. CASE x # s /\ x # t
      <4>1. prv[x] = NONE
        BY <1>7, <2>1, <3>3
      <4>2. Ahead(rq, wf, x) = {}
        BY <4>1 DEF Linked
      <4> QED
        BY <1>3, <3>3, <4>2
    <3> QED
      BY <3>1, <3>2, <3>3
  <2>2. ASSUME NEW x \in Slot, NEW y \in Slot, prvN[x] = y
        PROVE  /\ y \in Ahead(rqN, wfN, x) /\ nxtN[y] = x
               /\ Ahead(rqN, wfN, x) = {y} \cup Ahead(rqN, wfN, y)
    <3>1. x # t /\ prv[x] = y /\ y # s /\ x # s
      BY <1>1, <1>6, <1>7, <2>2
    <3>2. /\ y \in Ahead(rq, wf, x) /\ nxt[y] = x
          /\ Ahead(rq, wf, x) = {y} \cup Ahead(rq, wf, y)
      BY <3>1 DEF Linked
    <3>3. /\ Ahead(rqN, wfN, x) = Ahead(rq, wf, x) \ {s}
          /\ Ahead(rqN, wfN, y) = Ahead(rq, wf, y) \ {s}
      BY <1>3, <3>1
    <3> QED
      BY <1>7, <3>1, <3>2, <3>3
  <2>3. ASSUME NEW x \in Slot, NEW y \in Slot, nxtN[y] = x PROVE prvN[x] = y
    <3>1. y # s /\ nxt[y] = x
      BY <1>1, <1>7, <2>3
    <3>2. prv[x] = y
      BY <3>1 DEF Linked
    <3>3. x # t
      <4> SUFFICES ASSUME x = t PROVE FALSE
        OBVIOUS
      <4>1. prv[x] = s
        BY <1>1, <1>5
      <4> QED
        BY <3>1, <3>2, <4>1
    <3> QED
      BY <1>7, <3>2, <3>3
  <2> QED
    BY <2>1, <2>2, <2>3 DEF Linked
<1>9. Tails(rqN, wfN, nxtN, tlN, out \ {s})
  <2> SUFFICES ASSUME NEW e \in Entry
               PROVE  /\ tlN[e] = NONE => UsersOf(rqN, out \ {s}, e) = {}
                      /\ tlN[e] # NONE =>
                           /\ tlN[e] \in UsersOf(rqN, out \ {s}, e)
                           /\ UsersOf(rqN, out \ {s}, e) \ {tlN[e]} \subseteq wfN[tlN[e]]
                           /\ \A u \in UsersOf(rqN, out \ {s}, e) : nxtN[u] = NONE => u = tlN[e]
    BY DEF Tails
  <2>1. UsersOf(rqN, out \ {s}, e) = UsersOf(rq, out, e) \ {s}
    BY DEF UsersOf
  <2>2. /\ tl[e] = NONE => UsersOf(rq, out, e) = {}
        /\ tl[e] # NONE =>
             /\ tl[e] \in UsersOf(rq, out, e)
             /\ UsersOf(rq, out, e) \ {tl[e]} \subseteq wf[tl[e]]
             /\ \A u \in UsersOf(rq, out, e) : nxt[u] = NONE => u = tl[e]
    BY DEF Tails
  <2>3. UsersOf(rq, out, e) \subseteq Slot
    BY DEF UsersOf
  <2>4. CASE tl[e] = s
    <3>1. e0 = e /\ s \in UsersOf(rq, out, e)
      BY <1>1, <2>2, <2>4 DEF UsersOf
    <3>2. UsersOf(rq, out, e) = {s}
      <4>1. \A x \in UsersOf(rq, out, e) \ {s} : x \in Ahead(rq, wf, s)
        BY <1>1, <2>2, <2>4, <3>1 DEF Ahead, UsersOf
      <4> QED
        BY <1>4, <3>1, <4>1
    <3>3. tlN[e] = NONE
      BY <1>1, <2>4, <3>1
    <3> QED
      BY <2>1, <3>2, <3>3
  <2>5. CASE tl[e] # s
    <3>1. tlN[e] = tl[e]
      BY <2>5
    <3>2. tl[e] = NONE => UsersOf(rqN, out \ {s}, e) = {}
      BY <2>1, <2>2
    <3>3. ASSUME tl[e] # NONE
          PROVE  /\ tl[e] \in UsersOf(rqN, out \ {s}, e)
                 /\ UsersOf(rqN, out \ {s}, e) \ {tl[e]} \subseteq wfN[tl[e]]
                 /\ \A u \in UsersOf(rqN, out \ {s}, e) : nxtN[u] = NONE => u = tl[e]
      <4>1. tl[e] \in Slot \ {s} /\ wfN[tl[e]] = wf[tl[e]] \ {s}
        BY <2>2, <2>3, <2>5, <3>3
      <4>2. \A u \in UsersOf(rqN, out \ {s}, e) : nxtN[u] = nxt[u]
        BY <1>7, <2>1, <2>3
      <4> QED
        BY <2>1, <2>2, <2>5, <3>3, <4>1, <4>2
    <3> QED
      BY <3>1, <3>2, <3>3
  <2> QED
    BY <2>4, <2>5
<1> QED
  BY <1>8, <1>9

-----------------------------------------------------------------------------
\* The invariant of the waits and the chains.

WaitsInv ==
  /\ Waits(req, waitsFor, Outstanding)
  /\ SomeoneFirst(waitsFor)
  /\ slot # NONE => \A x \in Slot : slot \notin waitsFor[x]

\* Those on the queue of blockedByBufDepReqQ have a predecessor, those on the
\* other queues none.
HeadsRun ==
  /\ \A s \in blockedByBufDepReqQ : prevBlockingReq[s] # NONE
  /\ \A s \in LowLevel \ blockedByBufDepReqQ : prevBlockingReq[s] = NONE

ChainsInv ==
  /\ Linked(req, waitsFor, prevBlockingReq, nextBlockingReq)
  /\ Tails(req, waitsFor, nextBlockingReq, blockingReqTail, Outstanding)
  /\ HeadsRun

OrderlyInv == SlotsInv /\ WaitsInv /\ ChainsInv

OutIs == Outstanding = Slot \ Idle
LEMMA OutstandingIs == SlotsInv => OutIs
BY DEF SlotsInv, Apart, Everywhere, Outstanding, OutIs

\* The types of the variables the chains are about.
LEMMA ChainTypes ==
  ASSUME SlotsInv
  PROVE  /\ req \in [Slot -> ReqType] /\ prevBlockingReq \in [Slot -> SlotOrNone]
         /\ nextBlockingReq \in [Slot -> SlotOrNone] /\ blockingReqTail \in [Entry -> SlotOrNone]
         /\ waitsFor \in [Slot -> SUBSET Slot] /\ slot \in SlotOrNone
         /\ Outstanding \in SUBSET Slot /\ LowLevel \subseteq Outstanding
         /\ \A s \in Slot : s \in Outstanding <=> req[s].code # "NONE"
         /\ \A s \in Slot : req[s].entry \in Entry \cup {NONE}
         /\ slot # NONE => slot \in Outstanding /\ slot \notin LowLevel
         /\ NONE \notin Slot /\ NONE \notin Entry
<1>1. /\ req \in [Slot -> ReqType] /\ prevBlockingReq \in [Slot -> SlotOrNone]
      /\ nextBlockingReq \in [Slot -> SlotOrNone] /\ blockingReqTail \in [Entry -> SlotOrNone]
      /\ waitsFor \in [Slot -> SUBSET Slot] /\ slot \in SlotOrNone
  BY DEF SlotsInv, DepInv, DepTypeOK
<1>2. /\ Outstanding = Slot \ Idle /\ LowLevel \subseteq Outstanding
      /\ \A s \in Slot : s \in Idle <=> req[s].code = "NONE"
      /\ slot # NONE => slot \in Outstanding /\ slot \notin LowLevel
  BY OutstandingIs DEF SlotsInv, Outstanding, CodesMatch, Apart, Hand, OutIs, Idle
<1>3. \A s \in Slot : req[s].entry \in Entry \cup {NONE}
  BY <1>1 DEF ReqType
<1> QED
  BY <1>1, <1>2, <1>3, RequestNone

LEMMA RequestKeepsChains ==
  ASSUME OrderlyInv, SlotsInv', NEW s \in Slot, NEW r \in Requests, Makes(s, r)
  PROVE  WaitsInv' /\ ChainsInv'
<1> DEFINE tail == IF r.entry = NONE THEN NONE ELSE blockingReqTail[r.entry]
<1>1. SlotsInv /\ WaitsInv /\ ChainsInv
  BY DEF OrderlyInv
<1>2. /\ slot = NONE /\ slot' = s /\ s \in Idle
      /\ req' = [req EXCEPT ![s] = r]
      /\ prevBlockingReq' = (IF tail = NONE THEN prevBlockingReq
                             ELSE [prevBlockingReq EXCEPT ![s] = tail])
      /\ nextBlockingReq' = (IF tail = NONE THEN nextBlockingReq
                             ELSE [nextBlockingReq EXCEPT ![tail] = s])
      /\ blockingReqTail' = (IF r.entry = NONE THEN blockingReqTail
                             ELSE [blockingReqTail EXCEPT ![r.entry] = s])
      /\ waitsFor' = [waitsFor EXCEPT ![s] =
           {t \in Slot \ {s} : req[t].code # "NONE" /\ Conflict(r, req[t])}]
      /\ UNCHANGED <<blockedByBufDepReqQ, blockedByRowAddrDepReqQ, nvmeDmaReqQ, nandReqQ>>
  BY DEF Makes, MakeRequest, lowQueues
<1>3. /\ Outstanding' = Outstanding \cup {s} /\ s \in Slot \ Outstanding
      /\ LowLevel' = LowLevel
  <2>1. OutIs'
    BY OutstandingIs, PTL
  <2>2. OutIs
    BY <1>1, OutstandingIs
  <2>3. Idle' = Idle \ {s}
    BY <1>1, <1>2, IdleAfter, RequestHasCode, ChainTypes
  <2> QED
    BY <1>2, <2>1, <2>2, <2>3 DEF OutIs, LowLevel, RowBlocked, InNand
<1>4. /\ req'[s] = r /\ \A x \in Slot \ {s} : req'[x] = req[x] /\ waitsFor'[x] = waitsFor[x]
      /\ waitsFor'[s] = {t \in Outstanding : Conflict(r, req[t])}
  BY <1>1, <1>2, <1>3, ChainTypes
<1>5. r \in ReqType
  BY RequestShapes
<1>6. Waits(req', waitsFor', Outstanding')
  BY <1>1, <1>3, <1>4, ChainTypes, WaitsAdd DEF WaitsInv
<1>7. /\ \A x \in Slot : s \notin waitsFor[x] /\ s \notin waitsFor'[x]
  BY <1>1, <1>3, <1>4 DEF WaitsInv, Waits
<1>8. SomeoneFirst(waitsFor')
  BY <1>1, <1>4, <1>7, FirstAdd DEF WaitsInv
<1>9. WaitsInv'
  BY <1>2, <1>6, <1>7, <1>8 DEF WaitsInv
<1>10. prevBlockingReq[s] = NONE /\ nextBlockingReq[s] = NONE
  <2>1. Waits(req, waitsFor, Outstanding) /\ Linked(req, waitsFor, prevBlockingReq, nextBlockingReq)
    BY <1>1 DEF WaitsInv, ChainsInv
  <2>2. \A x \in Slot : s \notin waitsFor[x] /\ waitsFor[s] = {}
    BY <1>3, <2>1 DEF Waits
  <2>3. prevBlockingReq[s] \in Slot \cup {NONE} /\ nextBlockingReq[s] \in Slot \cup {NONE}
    BY <1>1, ChainTypes DEF SlotOrNone
  <2>4. prevBlockingReq[s] \notin Slot
    BY <2>1, <2>2 DEF Linked, Ahead
  <2>5. nextBlockingReq[s] \notin Slot
    BY <2>1, <2>2 DEF Linked, Ahead
  <2> QED
    BY <2>3, <2>4, <2>5
<1>11. /\ Linked(req', waitsFor', prevBlockingReq', nextBlockingReq')
       /\ Tails(req', waitsFor', nextBlockingReq', blockingReqTail', Outstanding')
  <2>1. PICK u : u = tail
    OBVIOUS
  <2>2. /\ u = (IF r.entry = NONE THEN NONE ELSE blockingReqTail[r.entry])
        /\ prevBlockingReq' = (IF u = NONE THEN prevBlockingReq
                               ELSE [prevBlockingReq EXCEPT ![s] = u])
        /\ nextBlockingReq' = (IF u = NONE THEN nextBlockingReq
                               ELSE [nextBlockingReq EXCEPT ![u] = s])
        /\ blockingReqTail' = (IF r.entry = NONE THEN blockingReqTail
                               ELSE [blockingReqTail EXCEPT ![r.entry] = s])
    BY <1>2, <2>1
  <2> HIDE DEF tail
  <2>3. /\ Waits(req, waitsFor, Outstanding) /\ Linked(req, waitsFor, prevBlockingReq, nextBlockingReq)
        /\ Tails(req, waitsFor, nextBlockingReq, blockingReqTail, Outstanding)
        /\ Outstanding \in SUBSET Slot
        /\ prevBlockingReq \in [Slot -> SlotOrNone] /\ nextBlockingReq \in [Slot -> SlotOrNone]
        /\ blockingReqTail \in [Entry -> SlotOrNone]
    BY <1>1, ChainTypes DEF WaitsInv, ChainsInv
  <2>4. Grows(req, waitsFor, prevBlockingReq, nextBlockingReq, blockingReqTail, Outstanding, s, r, u,
              req', waitsFor', prevBlockingReq', nextBlockingReq', blockingReqTail')
    BY <1>3, <1>4, <1>5, <1>10, <2>2, <2>3, Zenon DEF Grows
  <2>5. /\ Linked(req', waitsFor', prevBlockingReq', nextBlockingReq')
        /\ Tails(req', waitsFor', nextBlockingReq', blockingReqTail', Outstanding \cup {s})
    BY <2>4, LinkedAdd
  <2> QED
    BY <1>3, <2>5, Zenon
<1>12. HeadsRun'
  <2>1. s \notin LowLevel /\ blockedByBufDepReqQ \subseteq LowLevel /\ LowLevel \subseteq Slot
    BY <1>1, <1>3, ChainTypes DEF Outstanding, LowLevel
  <2>2. \A x \in Slot \ {s} : prevBlockingReq'[x] = prevBlockingReq[x]
    BY <1>1, <1>2, ChainTypes
  <2> QED
    BY <1>1, <1>2, <1>3, <2>1, <2>2 DEF HeadsRun, ChainsInv
<1> QED
  BY <1>9, <1>11, <1>12 DEF ChainsInv

\* What a completion does to the queue of those that wait for a buffer, and to
\* those on any queue.
LEMMA LeavesPlaces ==
  ASSUME SlotsInv, NEW s, NEW dma, NEW nand, NEW running, Leaves(s, dma, nand, running)
  PROVE  /\ s \in LowLevel \ blockedByBufDepReqQ /\ s \in Slot /\ s # slot
         /\ blockedByBufDepReqQ' = blockedByBufDepReqQ \ {nextBlockingReq[s]}
         /\ LowLevel' = LowLevel \ {s}
         /\ slot' = slot
<1> DEFINE t == nextBlockingReq[s]
<1>1. /\ s \in Slot /\ dma \in Seq(Slot) /\ nand \in [Die -> Seq(Slot)] /\ running \in Int
      /\ s \in ToSet(nvmeDmaReqQ) \cup InNand
      /\ IsInjective(dma) /\ OnTheirDies(req, nand) /\ IsFiniteSet(Seats(nand))
      /\ \A x : x \in ToSet(dma) <=> x \in ToSet(nvmeDmaReqQ) /\ x # s
      /\ \A x : x \in Line(nand) <=> x \in InNand /\ x # s
      /\ Complete(s, dma, nand, running)
  BY DEF Leaves
<1>2. /\ DepTypeOK /\ Apart /\ OnceOnTheirDies /\ CodesMatch /\ Everywhere /\ Counted
      /\ RowBlocked = Line(blockedByRowAddrDepReqQ) /\ InNand = Line(nandReqQ)
      /\ Idle \in SUBSET Slot /\ blockedByBufDepReqQ \in SUBSET Slot /\ NONE \notin Slot
  BY RequestNone DEF SlotsInv, DepInv, DepTypeOK, RowBlocked, InNand, Line, Idle
<1>3. /\ s \in LowLevel \ blockedByBufDepReqQ /\ s # slot /\ slot' = slot /\ s \notin RowBlocked
  BY <1>1, <1>2 DEF Apart, Outstanding, LowLevel, Hand, Complete, caller
<1>4. /\ RowBlocked' = Line(blockedByRowAddrDepReqQ') /\ InNand' = Line(nandReqQ')
  BY DEF RowBlocked, InNand, Line
<1>5. CASE WaitsForBuf(t)
  <2>1. /\ t \in blockedByBufDepReqQ
        /\ blockedByBufDepReqQ' = blockedByBufDepReqQ \ {t}
        /\ Enter(t, TRUE, dma, nand, running, blockedReqCnt - 1)
    BY <1>1, <1>5 DEF Complete, WaitsForBuf
  <2>2. PICK blk : blk = blockedReqCnt - 1
    OBVIOUS
  <2>a. Enter(t, TRUE, dma, nand, running, blk)
    BY <2>1, <2>2, Zenon
  <2>b. blk \in Int
    BY <1>2, <2>2 DEF DepTypeOK
  <2>3. Enter(t, TRUE, dma, nand, running, blk) /\ blk \in Int
    BY <2>a, <2>b, Zenon
  <2>4. /\ t \in Slot /\ t # s /\ t \notin Idle
        /\ t \notin RowBlocked /\ t \notin ToSet(nvmeDmaReqQ) /\ t \notin InNand
        /\ t \in LowLevel
    BY <1>2, <1>3, <2>1 DEF Apart, Outstanding, LowLevel
  <2>5. /\ req[t].code # "NONE" /\ t \notin ToSet(dma) /\ t \notin Line(nand)
    BY <1>1, <1>2, <2>4 DEF CodesMatch
  <2>6. /\ IsFiniteSet(Seats(blockedByRowAddrDepReqQ)) /\ OnTheirDies(req, blockedByRowAddrDepReqQ)
    BY <1>2 DEF Counted, OnceOnTheirDies
  <2> HIDE DEF t
  <2>7. \/ /\ req[t].code = "DMA"
           /\ ToSet(nvmeDmaReqQ') = ToSet(dma) \cup {t}
           /\ Line(nandReqQ') = Line(nand)
           /\ Line(blockedByRowAddrDepReqQ') = Line(blockedByRowAddrDepReqQ)
        \/ /\ ToSet(nvmeDmaReqQ') = ToSet(dma)
           /\ Line(nandReqQ') = Line(nand) \cup {t}
           /\ Line(blockedByRowAddrDepReqQ') = Line(blockedByRowAddrDepReqQ)
        \/ /\ ToSet(nvmeDmaReqQ') = ToSet(dma)
           /\ Line(nandReqQ') = Line(nand)
           /\ Line(blockedByRowAddrDepReqQ') = Line(blockedByRowAddrDepReqQ) \cup {t}
    BY <1>1, <1>2, <2>3, <2>4, <2>5, <2>6, EnterPlace
  <2>8. \A x : x \in LowLevel' <=> x \in LowLevel /\ x # s
    BY <1>1, <1>2, <1>3, <1>4, <2>1, <2>4, <2>7 DEF LowLevel
  <2> QED
    BY <1>1, <1>3, <2>1, <2>8 DEF t
<1>6. CASE ~WaitsForBuf(t)
  <2>1. /\ nvmeDmaReqQ' = dma /\ nandReqQ' = nand
        /\ UNCHANGED <<blockedByBufDepReqQ, blockedByRowAddrDepReqQ>>
    BY <1>1, <1>6 DEF Complete
  <2>2. InNand' = Line(nand) /\ RowBlocked' = RowBlocked
    BY <1>2, <1>4, <2>1
  <2>3. \A x : x \in LowLevel' <=> x \in LowLevel /\ x # s
    BY <1>1, <1>2, <1>3, <2>1, <2>2 DEF LowLevel
  <2>4. t \notin blockedByBufDepReqQ
    BY <1>2, <1>6 DEF WaitsForBuf
  <2> QED
    BY <1>1, <1>3, <2>1, <2>3, <2>4
<1> QED
  BY <1>5, <1>6

LEMMA LeavesKeepsChains ==
  ASSUME OrderlyInv, SlotsInv', NEW s, NEW dma, NEW nand, NEW running, Leaves(s, dma, nand, running)
  PROVE  WaitsInv' /\ ChainsInv'
<1>1. SlotsInv /\ WaitsInv /\ ChainsInv
  BY DEF OrderlyInv
<1>2. PICK t, e0 : t = nextBlockingReq[s] /\ e0 = req[s].entry
  OBVIOUS
<1>3. /\ s \in LowLevel \ blockedByBufDepReqQ /\ s \in Slot /\ s # slot /\ slot' = slot
      /\ blockedByBufDepReqQ' = blockedByBufDepReqQ \ {t}
      /\ LowLevel' = LowLevel \ {s}
  BY <1>1, <1>2, LeavesPlaces
<1>4. Outstanding' = Outstanding \ {s} /\ s \in Outstanding
  <2>1. Hand' = Hand /\ s \notin Hand
    BY <1>3 DEF Hand
  <2> QED
    BY <1>3, <2>1 DEF Outstanding
<1>5. /\ req' = [req EXCEPT ![s] = NoReq]
      /\ prevBlockingReq' = (IF t = NONE THEN prevBlockingReq ELSE [prevBlockingReq EXCEPT ![t] = NONE])
      /\ nextBlockingReq' = [nextBlockingReq EXCEPT ![s] = NONE]
      /\ blockingReqTail' = (IF e0 # NONE /\ blockingReqTail[e0] = s
                             THEN [blockingReqTail EXCEPT ![e0] = NONE] ELSE blockingReqTail)
      /\ waitsFor' = [x \in Slot |-> IF x = s THEN {} ELSE waitsFor[x] \ {s}]
  BY <1>2 DEF Leaves, Complete, TailAfter
<1>6. /\ req'[s].entry = NONE /\ \A x \in Slot \ {s} : req'[x] = req[x]
      /\ waitsFor'[s] = {} /\ \A x \in Slot \ {s} : waitsFor'[x] = waitsFor[x] \ {s}
  BY <1>1, <1>3, <1>5, ChainTypes DEF NoReq
<1>7. prevBlockingReq[s] = NONE
  BY <1>1, <1>3 DEF ChainsInv, HeadsRun
<1>8. Waits(req', waitsFor', Outstanding')
  <2>1. Waits(req, waitsFor, Outstanding) /\ Outstanding \in SUBSET Slot
    BY <1>1, ChainTypes DEF WaitsInv
  <2> QED
    BY <1>4, <1>6, <2>1, WaitsDrop
<1>9. SomeoneFirst(waitsFor')
  <2>1. \A x \in Slot : waitsFor'[x] \subseteq waitsFor[x]
    BY <1>6
  <2> QED
    BY <1>1, <2>1, FirstDrop DEF WaitsInv
<1>10. WaitsInv'
  <2>1. slot # NONE => \A x \in Slot : slot \notin waitsFor'[x]
    BY <1>1, <1>6 DEF WaitsInv
  <2> QED
    BY <1>3, <1>8, <1>9, <2>1 DEF WaitsInv
<1>11. Shrinks(req, waitsFor, prevBlockingReq, nextBlockingReq, blockingReqTail, Outstanding, s, t, e0,
               req', waitsFor', prevBlockingReq', nextBlockingReq', blockingReqTail')
  <2>1. /\ Waits(req, waitsFor, Outstanding) /\ Linked(req, waitsFor, prevBlockingReq, nextBlockingReq)
        /\ Tails(req, waitsFor, nextBlockingReq, blockingReqTail, Outstanding)
        /\ Outstanding \in SUBSET Slot
        /\ prevBlockingReq \in [Slot -> SlotOrNone] /\ nextBlockingReq \in [Slot -> SlotOrNone]
        /\ blockingReqTail \in [Entry -> SlotOrNone] /\ e0 \in Entry \cup {NONE}
    BY <1>1, <1>2, <1>3, ChainTypes DEF WaitsInv, ChainsInv
  <2>2. \A x \in Slot \ {s} : req'[x] = req[x] /\ waitsFor'[x] = waitsFor[x] \ {s}
    BY <1>6
  <2> QED
    BY <1>2, <1>4, <1>5, <1>6, <1>7, <2>1, <2>2, Zenon DEF Shrinks
<1>12. /\ Linked(req', waitsFor', prevBlockingReq', nextBlockingReq')
       /\ Tails(req', waitsFor', nextBlockingReq', blockingReqTail', Outstanding \ {s})
  BY <1>11, LinkedDrop
<1>13. HeadsRun'
  <2>1. \A x \in Slot : prevBlockingReq'[x] = IF x = t THEN NONE ELSE prevBlockingReq[x]
    BY <1>1, <1>2, <1>3, <1>5, ChainTypes DEF SlotOrNone
  <2>2. LowLevel \subseteq Slot /\ blockedByBufDepReqQ \subseteq Slot
    BY <1>1, ChainTypes DEF LowLevel
  <2> QED
    BY <1>1, <1>3, <2>1, <2>2 DEF HeadsRun, ChainsInv
<1> QED
  BY <1>4, <1>10, <1>12, <1>13, Zenon DEF ChainsInv

\* What putting the request in hand on a queue does.
LEMMA SelectPlaces ==
  ASSUME SlotsInv, Select
  PROVE  /\ slot \in Slot /\ slot \notin LowLevel /\ slot' = NONE
         /\ LowLevel' = LowLevel \cup {slot}
         /\ blockedByBufDepReqQ' = blockedByBufDepReqQ \cup
              (IF prevBlockingReq[slot] = NONE THEN {} ELSE {slot})
<1>1. PICK s : s = slot
  OBVIOUS
<1>2. /\ DepTypeOK /\ Apart /\ OnceOnTheirDies /\ CodesMatch /\ Everywhere /\ Counted
      /\ RowBlocked = Line(blockedByRowAddrDepReqQ) /\ InNand = Line(nandReqQ)
      /\ NONE \notin Slot
  BY Constants DEF SlotsInv, DepInv, DepTypeOK, RowBlocked, InNand, Line
<1>3. /\ s # NONE /\ s \in Slot /\ slot' = NONE
      /\ SelectLowLevelReqQ(s)
  BY <1>1, <1>2 DEF Select, SelectLowLevelReqQ, DepTypeOK, SlotOrNone
<1>4. /\ Hand = {s} /\ s \notin Idle /\ s \notin LowLevel
  BY <1>1, <1>2, <1>3 DEF Hand, Apart, Outstanding
<1>5. /\ RowBlocked' = Line(blockedByRowAddrDepReqQ') /\ InNand' = Line(nandReqQ')
  BY DEF RowBlocked, InNand, Line
<1>6. CASE CheckBufDep(s)
  <2>1. /\ Enter(s, FALSE, nvmeDmaReqQ, nandReqQ, notCompletedNandReqCnt, blockedReqCnt)
        /\ blockedByBufDepReqQ' = blockedByBufDepReqQ /\ prevBlockingReq[s] = NONE
    BY <1>3, <1>6 DEF SelectLowLevelReqQ, CheckBufDep
  <2>2. /\ s \notin ToSet(nvmeDmaReqQ) /\ s \notin Line(nandReqQ) /\ s \notin RowBlocked
        /\ req[s].code # "NONE"
    BY <1>2, <1>3, <1>4 DEF LowLevel, CodesMatch
  <2>3. /\ IsInjective(nvmeDmaReqQ) /\ OnTheirDies(req, nandReqQ)
        /\ OnTheirDies(req, blockedByRowAddrDepReqQ)
        /\ IsFiniteSet(Seats(nandReqQ)) /\ IsFiniteSet(Seats(blockedByRowAddrDepReqQ))
        /\ nvmeDmaReqQ \in Seq(Slot) /\ nandReqQ \in [Die -> Seq(Slot)]
        /\ notCompletedNandReqCnt \in Int /\ blockedReqCnt \in Int
    BY <1>2 DEF OnceOnTheirDies, Counted, DepTypeOK
  <2>4. \/ /\ req[s].code = "DMA"
           /\ ToSet(nvmeDmaReqQ') = ToSet(nvmeDmaReqQ) \cup {s}
           /\ Line(nandReqQ') = Line(nandReqQ)
           /\ Line(blockedByRowAddrDepReqQ') = Line(blockedByRowAddrDepReqQ)
        \/ /\ ToSet(nvmeDmaReqQ') = ToSet(nvmeDmaReqQ)
           /\ Line(nandReqQ') = Line(nandReqQ) \cup {s}
           /\ Line(blockedByRowAddrDepReqQ') = Line(blockedByRowAddrDepReqQ)
        \/ /\ ToSet(nvmeDmaReqQ') = ToSet(nvmeDmaReqQ)
           /\ Line(nandReqQ') = Line(nandReqQ)
           /\ Line(blockedByRowAddrDepReqQ') = Line(blockedByRowAddrDepReqQ) \cup {s}
    BY <1>2, <1>3, <2>1, <2>2, <2>3, EnterPlace
  <2>5. LowLevel' = LowLevel \cup {s}
    BY <1>2, <1>5, <2>1, <2>4 DEF LowLevel
  <2> QED
    BY <1>1, <1>3, <1>4, <2>1, <2>5
<1>7. CASE ~CheckBufDep(s)
  <2>1. /\ blockedByBufDepReqQ' = blockedByBufDepReqQ \cup {s} /\ prevBlockingReq[s] # NONE
        /\ UNCHANGED <<blockedByRowAddrDepReqQ, nvmeDmaReqQ, nandReqQ>>
    BY <1>3, <1>7 DEF SelectLowLevelReqQ, CheckBufDep
  <2>2. LowLevel' = LowLevel \cup {s}
    BY <1>2, <1>5, <2>1 DEF LowLevel
  <2> QED
    BY <1>1, <1>3, <1>4, <2>1, <2>2
<1> QED
  BY <1>6, <1>7

LEMMA SelectKeepsChains ==
  ASSUME OrderlyInv, Select
  PROVE  WaitsInv' /\ ChainsInv'
<1>1. SlotsInv /\ WaitsInv /\ ChainsInv
  BY DEF OrderlyInv
<1>2. /\ slot \in Slot /\ slot \notin LowLevel /\ slot' = NONE
      /\ LowLevel' = LowLevel \cup {slot}
      /\ blockedByBufDepReqQ' = blockedByBufDepReqQ \cup
           (IF prevBlockingReq[slot] = NONE THEN {} ELSE {slot})
  BY <1>1, SelectPlaces
<1>3. UNCHANGED <<req, prevBlockingReq, nextBlockingReq, blockingReqTail, waitsFor>>
  BY DEF Select, SelectLowLevelReqQ, chainVars
<1>4. Outstanding' = Outstanding
  BY <1>1, <1>2, ChainTypes DEF Outstanding, Hand
<1>5. HeadsRun'
  BY <1>1, <1>2, <1>3 DEF HeadsRun, ChainsInv
<1> QED
  BY <1>1, <1>2, <1>3, <1>4, <1>5 DEF WaitsInv, ChainsInv

\* The other steps change neither the waits nor the links, nor who is on the
\* queue of those that wait for a buffer.
LEMMA OthersKeepChains ==
  ASSUME OrderlyInv, UNCHANGED <<req, chainVars, waitsFor, slot, blockedByBufDepReqQ>>,
         LowLevel' = LowLevel
  PROVE  WaitsInv' /\ ChainsInv'
<1>1. UNCHANGED <<req, prevBlockingReq, nextBlockingReq, blockingReqTail, waitsFor, slot,
                  blockedByBufDepReqQ>>
  BY DEF chainVars
<1>2. Outstanding' = Outstanding
  BY <1>1 DEF Outstanding, Hand
<1> QED
  BY <1>1, <1>2 DEF OrderlyInv, WaitsInv, ChainsInv, HeadsRun

LowIs == LowLevel = (Slot \ Idle) \ Hand
LEMMA LowLevelIs == SlotsInv => LowIs
BY DEF SlotsInv, Apart, Everywhere, Outstanding, LowIs

LEMMA StepKeepsChains == ASSUME OrderlyInv, AnyStep PROVE OrderlyInv'
<1>1. SlotsInv /\ SlotsInv'
  BY StepKeepsSlots DEF OrderlyInv
<1>2. LowIs /\ LowIs'
  BY <1>1, LowLevelIs, PTL
<1>3. CASE UNCHANGED slotVars /\ UNCHANGED <<chainVars, waitsFor>>
  <2>1. /\ UNCHANGED <<req, chainVars, waitsFor, slot, blockedByBufDepReqQ>>
        /\ LowLevel' = LowLevel
    BY <1>3 DEF slotVars, lowQueues, LowLevel, RowBlocked, InNand
  <2> QED
    BY <1>1, <2>1, OthersKeepChains DEF OrderlyInv
<1>4. ASSUME NEW s \in Slot, NEW r \in Requests, Makes(s, r) PROVE OrderlyInv'
  BY <1>1, <1>4, RequestKeepsChains DEF OrderlyInv
<1>5. CASE Select
  BY <1>1, <1>5, SelectKeepsChains DEF OrderlyInv
<1>6. ASSUME NEW s, NEW dma, NEW nand, NEW running, Leaves(s, dma, nand, running)
      PROVE  OrderlyInv'
  BY <1>1, <1>6, LeavesKeepsChains DEF OrderlyInv
<1>7. ASSUME NEW d \in Die, ReleaseBlockedByRowAddrDepReq(d) PROVE OrderlyInv'
  <2>1. /\ UNCHANGED <<req, chainVars, waitsFor, slot, blockedByBufDepReqQ, Idle>>
    BY <1>7 DEF ReleaseBlockedByRowAddrDepReq, caller, Idle
  <2>2. LowLevel' = LowLevel
    BY <1>2, <2>1 DEF LowIs, Hand
  <2> QED
    BY <1>1, <2>1, <2>2, OthersKeepChains DEF OrderlyInv
<1>8. CASE TakesSlots
  BY <1>3, <1>8 DEF TakesSlots, slotVars, tables, caller
<1>9. CASE StartPass
  BY <1>3, <1>9 DEF StartPass, slotVars, tables, caller
<1>10. CASE PassStep
  <2>1. CASE CheckDoneNvmeDmaReq
    BY <1>1, <1>6, <2>1, TransferLeaves
  <2>2. CASE CheckDoneEnds
    BY <1>3, <2>2 DEF CheckDoneEnds, slotVars, tables, caller
  <2>3. ASSUME NEW d \in Die, FinishNandReq(d) PROVE OrderlyInv'
    BY <1>1, <1>6, <2>3, FinishLeaves
  <2>4. ASSUME NEW d \in Die, DieIdle(d) \/ ReleaseEnds(d) \/ IssueNandReq(d) \/ LeaveDie(d)
        PROVE  OrderlyInv'
    BY <1>3, <2>4 DEF DieIdle, ReleaseEnds, IssueNandReq, LeaveDie, slotVars, tables, caller
  <2> QED
    BY <1>7, <1>10, <2>1, <2>2, <2>3, <2>4 DEF PassStep
<1> QED
  BY <1>4, <1>5, <1>8, <1>9, <1>10 DEF AnyStep

LEMMA ChainsStutter == ASSUME OrderlyInv, UNCHANGED depVars PROVE OrderlyInv'
<1>1. TakesSlots
  BY DEF TakesSlots, depVars, OrderlyInv, SlotsInv, DepInv, DepTypeOK
<1> QED
  BY <1>1, StepKeepsChains DEF AnyStep

LEMMA InitChains == DepInit => OrderlyInv
<1> SUFFICES ASSUME DepInit PROVE OrderlyInv
  OBVIOUS
<1>1. SlotsInv
  BY InitSlots
<1>2. /\ req = [s \in Slot |-> NoReq] /\ Idle = Slot /\ slot = NONE
      /\ prevBlockingReq = [s \in Slot |-> NONE] /\ nextBlockingReq = [s \in Slot |-> NONE]
      /\ blockingReqTail = [e \in Entry |-> NONE] /\ waitsFor = [s \in Slot |-> {}]
      /\ blockedByBufDepReqQ = {}
  BY DEF DepInit, Idle, NoReq
<1>3. Outstanding = {} /\ LowLevel = {}
  <2>1. OutIs
    BY <1>1, OutstandingIs
  <2> QED
    BY <1>2, <2>1 DEF OutIs, Outstanding
<1>4. WaitsInv
  <2>1. SomeoneFirst(waitsFor)
    BY <1>2 DEF SomeoneFirst
  <2> QED
    BY <1>2, <1>3, <2>1 DEF WaitsInv, Waits
<1>5. ChainsInv
  <2>1. Linked(req, waitsFor, prevBlockingReq, nextBlockingReq)
    BY <1>2, RequestNone DEF Linked, Ahead
  <2>2. Tails(req, waitsFor, nextBlockingReq, blockingReqTail, Outstanding)
    BY <1>2, <1>3 DEF Tails, UsersOf
  <2> QED
    BY <1>2, <1>3, <2>1, <2>2 DEF ChainsInv, HeadsRun
<1> QED
  BY <1>1, <1>4, <1>5 DEF OrderlyInv

LEMMA ChainsInvMeans == OrderlyInv => ChainsMatchBuffers
<1> SUFFICES ASSUME OrderlyInv PROVE ChainsMatchBuffers
  OBVIOUS
<1>1. /\ SlotsInv /\ Waits(req, waitsFor, Outstanding)
      /\ Linked(req, waitsFor, prevBlockingReq, nextBlockingReq)
      /\ Tails(req, waitsFor, nextBlockingReq, blockingReqTail, Outstanding)
      /\ HeadsRun
  BY DEF OrderlyInv, WaitsInv, ChainsInv
<1>2. /\ prevBlockingReq \in [Slot -> Slot \cup {NONE}] /\ nextBlockingReq \in [Slot -> Slot \cup {NONE}]
      /\ blockingReqTail \in [Entry -> Slot \cup {NONE}]
      /\ Outstanding \in SUBSET Slot /\ NONE \notin Slot
  BY <1>1, ChainTypes DEF SlotOrNone
<1>3. ASSUME NEW s \in Slot
      PROVE  /\ prevBlockingReq[s] # NONE => nextBlockingReq[prevBlockingReq[s]] = s
             /\ nextBlockingReq[s] # NONE =>
                  /\ prevBlockingReq[nextBlockingReq[s]] = s
                  /\ req[nextBlockingReq[s]].entry = req[s].entry
             /\ s \notin Outstanding => prevBlockingReq[s] = NONE /\ nextBlockingReq[s] = NONE
             /\ s \in blockedByBufDepReqQ => prevBlockingReq[s] # NONE
             /\ s \in LowLevel \ blockedByBufDepReqQ => prevBlockingReq[s] = NONE
  <2>1. prevBlockingReq[s] # NONE => nextBlockingReq[prevBlockingReq[s]] = s
    <3> SUFFICES ASSUME prevBlockingReq[s] # NONE PROVE nextBlockingReq[prevBlockingReq[s]] = s
      OBVIOUS
    <3>1. PICK u \in Slot : prevBlockingReq[s] = u
      BY <1>2
    <3> QED
      BY <1>1, <3>1 DEF Linked
  <2>2. ASSUME nextBlockingReq[s] # NONE
        PROVE  /\ prevBlockingReq[nextBlockingReq[s]] = s
               /\ req[nextBlockingReq[s]].entry = req[s].entry
    <3>1. PICK t \in Slot : nextBlockingReq[s] = t
      BY <1>2, <2>2
    <3>2. prevBlockingReq[t] = s
      BY <1>1, <3>1 DEF Linked
    <3>3. s \in Ahead(req, waitsFor, t)
      BY <1>1, <3>2 DEF Linked
    <3> QED
      BY <3>1, <3>2, <3>3 DEF Ahead
  <2>3. s \notin Outstanding => prevBlockingReq[s] = NONE /\ nextBlockingReq[s] = NONE
    <3> SUFFICES ASSUME s \notin Outstanding
                 PROVE  prevBlockingReq[s] = NONE /\ nextBlockingReq[s] = NONE
      OBVIOUS
    <3>1. waitsFor[s] = {} /\ \A x \in Slot : s \notin waitsFor[x]
      BY <1>1 DEF Waits
    <3>2. \A u \in Slot : prevBlockingReq[s] # u
      BY <1>1, <3>1 DEF Linked, Ahead
    <3>3. \A t \in Slot : nextBlockingReq[s] # t
      BY <1>1, <3>1 DEF Linked, Ahead
    <3> QED
      BY <1>2, <3>2, <3>3
  <2>4. /\ s \in blockedByBufDepReqQ => prevBlockingReq[s] # NONE
        /\ s \in LowLevel \ blockedByBufDepReqQ => prevBlockingReq[s] = NONE
    BY <1>1 DEF HeadsRun
  <2> QED
    BY <2>1, <2>2, <2>3, <2>4
<1>4. ASSUME NEW e \in Entry
      PROVE  /\ {s \in Users(e) : nextBlockingReq[s] = NONE} = {blockingReqTail[e]} \ {NONE}
             /\ Cardinality({s \in Users(e) : prevBlockingReq[s] = NONE}) <= 1
  <2>1. Users(e) = UsersOf(req, Outstanding, e) /\ Users(e) \subseteq Slot
    BY <1>2 DEF Users, UsersOf
  <2>2. {s \in Users(e) : nextBlockingReq[s] = NONE} = {blockingReqTail[e]} \ {NONE}
    <3>1. CASE blockingReqTail[e] = NONE
      BY <1>1, <2>1, <3>1 DEF Tails
    <3>2. CASE blockingReqTail[e] # NONE
      <4>1. PICK u \in Slot : u = blockingReqTail[e]
        BY <1>2, <3>2
      <4>2. /\ u \in Users(e) /\ Users(e) \ {u} \subseteq waitsFor[u]
            /\ \A x \in Users(e) : nextBlockingReq[x] = NONE => x = u
        BY <1>1, <2>1, <3>2, <4>1 DEF Tails
      <4>3. nextBlockingReq[u] = NONE
        <5> SUFFICES ASSUME nextBlockingReq[u] # NONE PROVE FALSE
          OBVIOUS
        <5>1. PICK t \in Slot : nextBlockingReq[u] = t
          BY <1>2
        <5>2. prevBlockingReq[t] = u
          BY <1>1, <5>1 DEF Linked
        <5>3. u \in Ahead(req, waitsFor, t)
          BY <1>1, <5>2 DEF Linked
        <5>4. u \in waitsFor[t] /\ req[t].entry = req[u].entry /\ t \in Outstanding /\ t # u
          BY <1>1, <5>3 DEF Ahead, Waits
        <5>5. t \in Users(e)
          BY <4>2, <5>4 DEF Users
        <5> QED
          BY <1>1, <4>2, <5>4, <5>5 DEF Waits
      <4> QED
        BY <3>2, <4>1, <4>2, <4>3
    <3> QED
      BY <3>1, <3>2
  <2>3. Cardinality({s \in Users(e) : prevBlockingReq[s] = NONE}) <= 1
    <3> DEFINE H == {s \in Users(e) : prevBlockingReq[s] = NONE}
    <3>1. ASSUME NEW x \in H, NEW y \in H PROVE x = y
      <4> SUFFICES ASSUME x # y PROVE FALSE
        OBVIOUS
      <4>1. Conflict(req[x], req[y]) /\ e # NONE /\ req[x].entry = e /\ req[y].entry = e
        BY RequestNone DEF Users, Conflict
      <4>2. x \in waitsFor[y] \/ y \in waitsFor[x]
        BY <1>1, <4>1 DEF Waits, Users
      <4>3. x \in Ahead(req, waitsFor, y) \/ y \in Ahead(req, waitsFor, x)
        BY <4>1, <4>2 DEF Ahead
      <4> QED
        BY <1>1, <2>1, <4>3 DEF Linked
    <3>2. H = {} \/ \E x : H = {x}
      BY <3>1
    <3> HIDE DEF H
    <3>3. Cardinality(H) = 0 \/ Cardinality(H) = 1
      BY <3>2, FS_EmptySet, FS_Singleton
    <3>4. Cardinality(H) <= 1
      BY <3>3
    <3> QED
      BY <3>4 DEF H
  <2> QED
    BY <2>2, <2>3
<1> QED
  BY <1>3, <1>4 DEF ChainsMatchBuffers

\* The chain of a buffer entry is the line of its outstanding users, in the
\* order they were made: no link survives from an earlier life of a slot, the
\* tail is the last user, and only the head of a chain is ever on a queue other
\* than that of blockedByBufDepReqQ (UpdateDataBufEntryInfoBlockingReq and
\* ReleaseBlockedByBufDepReq).
THEOREM ChainsAlwaysMatchBuffers == DepSpec => []ChainsMatchBuffers
<1>1. DepInit => OrderlyInv
  BY InitChains
<1>2. OrderlyInv /\ [AnyStep]_depVars => OrderlyInv'
  BY StepKeepsChains, ChainsStutter
<1>3. OrderlyInv => ChainsMatchBuffers
  BY ChainsInvMeans
<1> QED
  BY <1>1, <1>2, <1>3, StepsAreAny, PTL DEF DepSpec

-----------------------------------------------------------------------------
\* The order.  The invariant is about the requests of one block that wait for
\* their row.  At most one of them is an erase.  The writes it waits for, and the
\* reads, belong to the life of the block that it ends; the writes that wait for
\* it, to the next life.  Of each life the writes are of consecutive pages, each
\* page once, in the order of their waits, and the page the table permits is the
\* first of them.

-----------------------------------------------------------------------------
\* The requests of one block that wait: its writes W, its erases E, the one in
\* hand among them, and the reads R on the queues.  The row-address table
\* permits page pp, and cp pages have been given out.

Kinds(rq, d, b, W, E, R) ==
  /\ \A w \in W : rq[w].code = "WRITE" /\ rq[w].die = d /\ rq[w].block = b /\ rq[w].page \in 0..(P - 1)
  /\ \A e \in E : rq[e].code = "ERASE" /\ rq[e].die = d /\ rq[e].block = b
  /\ \A y \in R : rq[y].code = "READ" /\ rq[y].die = d /\ rq[y].block = b /\ rq[y].page \in 0..(P - 1)

\* The writes made before the erase that waits, all of them if none does.
Older(wf, W, E) == {w \in W : \A e \in E : w \in wf[e]}

\* The pages of the life of the block that these writes belong to.
Top(E, cp) == IF E = {} THEN cp ELSE P

\* The older writes are of the pages from pp on, each page once; those made
\* after the erase are of the pages given out since.
PagesLine(rq, wf, W, E, pp, cp) ==
  /\ pp \in 0..Top(E, cp) /\ cp \in 0..P
  /\ \A w \in Older(wf, W, E) : pp <= rq[w].page /\ rq[w].page < Top(E, cp)
  /\ \A p \in pp..(Top(E, cp) - 1) : \E w \in Older(wf, W, E) : rq[w].page = p
  /\ E # {} =>
       /\ cp <= pp
       /\ \A w \in W \ Older(wf, W, E) : rq[w].page < cp
       /\ \A p \in 0..(cp - 1) : \E w \in W \ Older(wf, W, E) : rq[w].page = p
  /\ \A w, x \in W : rq[w].page = rq[x].page => w = x

\* The order of the pages is that of the waits; one erase waits at most; the
\* reads that wait belong to the life that the older writes belong to, and are
\* not waited for by the write of their page.
WaitsLine(rq, wf, W, E, R, cp) ==
  /\ \A w, x \in W : x \in wf[w] =>
       rq[x].page < rq[w].page \/ (x \in Older(wf, W, E) /\ w \notin Older(wf, W, E))
  /\ \A e, f \in E : e = f
  /\ \A y \in R : wf[y] \cap E = {} /\ rq[y].page < Top(E, cp)
  /\ \A y \in R : \A w \in Older(wf, W, E) : rq[w].page = rq[y].page => y \notin wf[w]

BlockOrder(rq, wf, W, E, R, pp, cp) ==
  PagesLine(rq, wf, W, E, pp, cp) /\ WaitsLine(rq, wf, W, E, R, cp)

\* A request that shares its buffer with none of those it waits for.
Unshared(rq, wf, s) == \A y \in wf[s] : ~(rq[s].entry # NONE /\ rq[s].entry = rq[y].entry)

\* A write made after the erase waits for it.
LEMMA NewerWaits ==
  ASSUME NEW out \in SUBSET Slot, NEW rq, NEW wf, Waits(rq, wf, out),
         NEW W \in SUBSET out, NEW E \in SUBSET out, NEW R \in SUBSET out, NEW d, NEW b,
         Kinds(rq, d, b, W, E, R), \A e, f \in E : e = f
  PROVE  \A w \in W : \A e \in E : /\ w \notin Older(wf, W, E) => e \in wf[w]
                                   /\ w \in Older(wf, W, E) => w \in wf[e] /\ e \notin wf[w]
<1> SUFFICES ASSUME NEW w \in W, NEW e \in E
             PROVE  /\ w \notin Older(wf, W, E) => e \in wf[w]
                    /\ w \in Older(wf, W, E) => w \in wf[e] /\ e \notin wf[w]
  OBVIOUS
<1>1. Conflict(rq[w], rq[e]) /\ w # e
  BY DEF Kinds, Conflict, SameBlock
<1>2. w \in wf[e] \/ e \in wf[w]
  BY <1>1 DEF Waits
<1>3. w \in wf[e] => e \notin wf[w]
  BY DEF Waits
<1> QED
  BY <1>2, <1>3 DEF Older

\* What the table lets through waits for no request of the block that waits.
InOrder(rq, wf, out, W, E, R, d, b, pp, cp) ==
  /\ out \in SUBSET Slot /\ W \in SUBSET out /\ E \in SUBSET out /\ R \in SUBSET out
  /\ Waits(rq, wf, out) /\ Kinds(rq, d, b, W, E, R)
  /\ pp \in Int /\ cp \in Int /\ BlockOrder(rq, wf, W, E, R, pp, cp)

LEMMA WriteWaitsForNone ==
  ASSUME NEW out, NEW rq, NEW wf, NEW W, NEW E, NEW R, NEW d, NEW b, NEW pp, NEW cp,
         InOrder(rq, wf, out, W, E, R, d, b, pp, cp),
         NEW s \in W, rq[s].page = pp, Unshared(rq, wf, s)
  PROVE  s \in Older(wf, W, E) /\ wf[s] \cap (W \cup E \cup R) = {}
<1> /\ out \in SUBSET Slot /\ W \in SUBSET out /\ E \in SUBSET out /\ R \in SUBSET out
    /\ Waits(rq, wf, out) /\ Kinds(rq, d, b, W, E, R)
    /\ pp \in Int /\ cp \in Int /\ BlockOrder(rq, wf, W, E, R, pp, cp)
  BY DEF InOrder
<1>1. \A w \in W : rq[w].page \in Int
  BY DEF Kinds
<1>2. s \in Older(wf, W, E)
  <2> SUFFICES ASSUME s \notin Older(wf, W, E) PROVE FALSE
    OBVIOUS
  <2>1. E # {}
    BY DEF Older
  <2>2. rq[s].page < cp /\ cp <= pp
    BY <2>1 DEF BlockOrder, PagesLine
  <2> QED
    BY <2>2
<1>3. /\ \A e, f \in E : e = f
      /\ \A w, x \in W : x \in wf[w] =>
           rq[x].page < rq[w].page \/ (x \in Older(wf, W, E) /\ w \notin Older(wf, W, E))
      /\ \A y \in R : \A w \in Older(wf, W, E) : rq[w].page = rq[y].page => y \notin wf[w]
      /\ \A w \in Older(wf, W, E) : pp <= rq[w].page
  BY DEF BlockOrder, PagesLine, WaitsLine
<1>4. ASSUME NEW y \in W, y \in wf[s] PROVE FALSE
  <2>1. CASE y \in Older(wf, W, E)
    <3>1. rq[y].page < pp /\ pp <= rq[y].page
      BY <1>2, <1>3, <1>4, <2>1
    <3> QED
      BY <1>1, <3>1
  <2>2. CASE y \notin Older(wf, W, E)
    <3>0. PICK e \in E : y \notin wf[e]
      BY <2>2, <1>4 DEF Older
    <3>1. e \in wf[y]
      BY <1>3, <1>4, <2>2, NewerWaits
    <3>2. Conflict(rq[s], rq[e])
      BY DEF Kinds, Conflict, SameBlock
    <3>3. e \in wf[s]
      BY <1>4, <3>1, <3>2 DEF Waits
    <3> QED
      BY <1>2, <1>3, <3>3, NewerWaits
  <2> QED
    BY <2>1, <2>2
<1>5. ASSUME NEW y \in E, y \in wf[s] PROVE FALSE
  BY <1>2, <1>3, <1>5, NewerWaits
<1>6. ASSUME NEW y \in R, y \in wf[s] PROVE FALSE
  <2>1. Conflict(rq[s], rq[y])
    BY <1>6 DEF Waits
  <2>2. rq[y].page = rq[s].page
    BY <1>6, <2>1 DEF Conflict, SameBlock, Kinds, Unshared
  <2> QED
    BY <1>2, <1>3, <1>6, <2>2
<1> QED
  BY <1>2, <1>4, <1>5, <1>6

LEMMA ReadWaitsForNone ==
  ASSUME NEW out, NEW rq, NEW wf, NEW W, NEW E, NEW R, NEW d, NEW b, NEW pp, NEW cp,
         InOrder(rq, wf, out, W, E, R, d, b, pp, cp),
         NEW s \in R, rq[s].page < pp, Unshared(rq, wf, s)
  PROVE  wf[s] \cap (W \cup E \cup R) = {}
<1> /\ out \in SUBSET Slot /\ W \in SUBSET out /\ E \in SUBSET out /\ R \in SUBSET out
    /\ Waits(rq, wf, out) /\ Kinds(rq, d, b, W, E, R)
    /\ pp \in Int /\ cp \in Int /\ BlockOrder(rq, wf, W, E, R, pp, cp)
  BY DEF InOrder
<1>1. rq[s].page \in Int /\ \A w \in W : rq[w].page \in Int
  BY DEF Kinds
<1>2. /\ \A e, f \in E : e = f
      /\ wf[s] \cap E = {}
      /\ \A w \in Older(wf, W, E) : pp <= rq[w].page
  BY DEF BlockOrder, PagesLine, WaitsLine
<1>3. ASSUME NEW y \in W, y \in wf[s] PROVE FALSE
  <2>1. CASE y \in Older(wf, W, E)
    <3>1. Conflict(rq[s], rq[y])
      BY <1>3 DEF Waits
    <3>2. rq[y].page = rq[s].page
      BY <1>3, <3>1 DEF Conflict, SameBlock, Kinds, Unshared
    <3>3. pp <= rq[y].page
      BY <1>2, <2>1
    <3> QED
      BY <1>1, <3>2, <3>3
  <2>2. CASE y \notin Older(wf, W, E)
    <3>0. PICK e \in E : y \notin wf[e]
      BY <2>2, <1>3 DEF Older
    <3>1. e \in wf[y]
      BY <1>2, <1>3, <2>2, NewerWaits
    <3>2. Conflict(rq[s], rq[e])
      BY DEF Kinds, Conflict, SameBlock
    <3>3. e \in wf[s]
      BY <1>3, <3>1, <3>2 DEF Waits
    <3> QED
      BY <1>2, <3>3
  <2> QED
    BY <2>1, <2>2
<1>4. ASSUME NEW y \in R, y \in wf[s] PROVE FALSE
  <2>1. Conflict(rq[s], rq[y])
    BY <1>4 DEF Waits
  <2> QED
    BY <1>4, <2>1 DEF Conflict, SameBlock, Kinds, Unshared
<1> QED
  BY <1>2, <1>3, <1>4

LEMMA EraseWaitsForNone ==
  ASSUME NEW out, NEW rq, NEW wf, NEW W, NEW E, NEW R, NEW d, NEW b, NEW cp,
         InOrder(rq, wf, out, W, E, R, d, b, P, cp),
         NEW s \in E, R = {}
  PROVE  E = {s} /\ Older(wf, W, E) = {} /\ wf[s] \cap (W \cup E \cup R) = {}
<1> /\ out \in SUBSET Slot /\ W \in SUBSET out /\ E \in SUBSET out /\ R \in SUBSET out
    /\ Waits(rq, wf, out) /\ Kinds(rq, d, b, W, E, R)
    /\ cp \in Int /\ BlockOrder(rq, wf, W, E, R, P, cp)
  BY DEF InOrder
<1>1. \A w \in W : rq[w].page \in Int
  BY DEF Kinds
<1>2. E = {s}
  BY DEF BlockOrder, WaitsLine
<1>3. \A w \in Older(wf, W, E) : P <= rq[w].page /\ rq[w].page < P
  BY <1>2 DEF BlockOrder, PagesLine, Top
<1>4. Older(wf, W, E) = {}
  <2>1. \A w \in Older(wf, W, E) : w \in W
    BY DEF Older
  <2> QED
    BY <1>1, <1>3, <2>1, Constants
<1>5. \A y \in wf[s] : y \notin W /\ y # s
  BY <1>2, <1>4 DEF Older, Waits
<1> QED
  BY <1>2, <1>4, <1>5

-----------------------------------------------------------------------------
\* What the steps make of the order of a block's requests.

LEMMA OrderSame ==
  ASSUME NEW rq, NEW wf, NEW rqN, NEW wfN, NEW W, NEW E, NEW R, NEW pp \in Int, NEW cp \in Int,
         BlockOrder(rq, wf, W, E, R, pp, cp),
         \A x \in W \cup R : rqN[x] = rq[x],
         \A x \in W \cup E \cup R : \A y \in W \cup E \cup R : y \in wfN[x] <=> y \in wf[x]
  PROVE  BlockOrder(rqN, wfN, W, E, R, pp, cp)
<1>1. Older(wfN, W, E) = Older(wf, W, E) /\ Older(wf, W, E) \subseteq W
  BY DEF Older
<1>2. PagesLine(rqN, wfN, W, E, pp, cp)
  BY <1>1 DEF BlockOrder, PagesLine
<1>3. WaitsLine(rqN, wfN, W, E, R, cp)
  BY <1>1 DEF BlockOrder, WaitsLine
<1> QED
  BY <1>2, <1>3 DEF BlockOrder

\* A write is let through.
LEMMA WritePasses ==
  ASSUME NEW rq, NEW wf, NEW W, NEW E, NEW R, NEW d, NEW b, NEW pp \in Int, NEW cp \in Int,
         Kinds(rq, d, b, W, E, R), BlockOrder(rq, wf, W, E, R, pp, cp),
         NEW s \in W, rq[s].page = pp
  PROVE  BlockOrder(rq, wf, W \ {s}, E, R, pp + 1, cp)
<1>1. /\ \A w \in W : rq[w].page \in Int
      /\ P \in Int /\ Top(E, cp) \in Int
  BY Constants DEF Kinds, Top
<1>2. Older(wf, W \ {s}, E) = Older(wf, W, E) \ {s} /\ Older(wf, W, E) \subseteq W
  BY DEF Older
<1>3. /\ pp \in 0..Top(E, cp) /\ cp \in 0..P
      /\ \A w \in Older(wf, W, E) : pp <= rq[w].page /\ rq[w].page < Top(E, cp)
      /\ \A p \in pp..(Top(E, cp) - 1) : \E w \in Older(wf, W, E) : rq[w].page = p
      /\ E # {} =>
           /\ cp <= pp
           /\ \A w \in W \ Older(wf, W, E) : rq[w].page < cp
           /\ \A p \in 0..(cp - 1) : \E w \in W \ Older(wf, W, E) : rq[w].page = p
      /\ \A w, x \in W : rq[w].page = rq[x].page => w = x
  BY DEF BlockOrder, PagesLine
<1>4. s \in Older(wf, W, E)
  <2> SUFFICES ASSUME s \notin Older(wf, W, E) PROVE FALSE
    OBVIOUS
  <2>1. E # {}
    BY DEF Older
  <2> QED
    BY <1>1, <1>3, <2>1
<1>5. (W \ {s}) \ Older(wf, W \ {s}, E) = W \ Older(wf, W, E)
  BY <1>2, <1>4
<1>6. pp < Top(E, cp) /\ pp + 1 \in 0..Top(E, cp)
  BY <1>1, <1>3, <1>4
<1>7. \A w \in Older(wf, W \ {s}, E) : pp + 1 <= rq[w].page /\ rq[w].page < Top(E, cp)
  <2> SUFFICES ASSUME NEW w \in Older(wf, W, E), w # s
               PROVE  pp + 1 <= rq[w].page /\ rq[w].page < Top(E, cp)
    BY <1>2
  <2>1. rq[w].page # pp /\ rq[w].page \in Int
    BY <1>1, <1>2, <1>3
  <2> QED
    BY <1>1, <1>3, <2>1
<1>8. \A p \in (pp + 1)..(Top(E, cp) - 1) : \E w \in Older(wf, W \ {s}, E) : rq[w].page = p
  <2> SUFFICES ASSUME NEW p \in (pp + 1)..(Top(E, cp) - 1)
               PROVE  \E w \in Older(wf, W, E) \ {s} : rq[w].page = p
    BY <1>2
  <2>1. p \in pp..(Top(E, cp) - 1) /\ p # pp
    BY <1>1
  <2> QED
    BY <1>3, <2>1
<1>9. PagesLine(rq, wf, W \ {s}, E, pp + 1, cp)
  <2>1. E # {} => cp <= pp + 1
    BY <1>1, <1>3
  <2> QED
    BY <1>3, <1>5, <1>6, <1>7, <1>8, <2>1 DEF PagesLine
<1>10. WaitsLine(rq, wf, W \ {s}, E, R, cp)
  BY <1>2 DEF BlockOrder, WaitsLine
<1> QED
  BY <1>9, <1>10 DEF BlockOrder

\* A waiting read is let through.
LEMMA ReadPasses ==
  ASSUME NEW rq, NEW wf, NEW W, NEW E, NEW R, NEW pp, NEW cp,
         BlockOrder(rq, wf, W, E, R, pp, cp), NEW s
  PROVE  BlockOrder(rq, wf, W, E, R \ {s}, pp, cp)
BY DEF BlockOrder, WaitsLine

\* The erase is let through: the block begins its next life.
LEMMA ErasePasses ==
  ASSUME NEW rq, NEW wf, NEW W, NEW E, NEW R, NEW d, NEW b, NEW cp \in Int,
         Kinds(rq, d, b, W, E, R), BlockOrder(rq, wf, W, E, R, P, cp), E # {}
  PROVE  BlockOrder(rq, wf, W, {}, {}, 0, cp)
<1>1. P \in Int /\ \A w \in W : rq[w].page \in Int /\ 0 <= rq[w].page
  BY Constants DEF Kinds
<1>2. Older(wf, W, {}) = W /\ \A w \in Older(wf, W, E) : w \in W
  BY DEF Older
<1>3. \A w \in Older(wf, W, E) : P <= rq[w].page /\ rq[w].page < P
  BY DEF BlockOrder, PagesLine, Top
<1>4. Older(wf, W, E) = {}
  BY <1>1, <1>2, <1>3
<1>5. /\ cp \in 0..P
      /\ \A w \in W : rq[w].page < cp
      /\ \A p \in 0..(cp - 1) : \E w \in W : rq[w].page = p
      /\ \A w, x \in W : rq[w].page = rq[x].page => w = x
  BY <1>4 DEF BlockOrder, PagesLine
<1>6. PagesLine(rq, wf, W, {}, 0, cp)
  BY <1>1, <1>2, <1>5 DEF PagesLine, Top
<1>7. WaitsLine(rq, wf, W, {}, {}, cp)
  BY <1>4 DEF BlockOrder, WaitsLine
<1> QED
  BY <1>6, <1>7 DEF BlockOrder

\* A read begins to wait for its row.
LEMMA ReadBlocks ==
  ASSUME NEW rq, NEW wf, NEW W, NEW R, NEW pp \in Int, NEW cp \in Int,
         BlockOrder(rq, wf, W, {}, R, pp, cp),
         NEW s, rq[s].page < cp, \A w \in W : s \notin wf[w]
  PROVE  BlockOrder(rq, wf, W, {}, R \cup {s}, pp, cp)
<1>1. Older(wf, W, {}) = W
  BY DEF Older
<1> QED
  BY <1>1 DEF BlockOrder, WaitsLine, Top

\* A write is made: of the next page of the block.
LEMMA WriteMade ==
  ASSUME NEW out, NEW rq, NEW wf, NEW rqN, NEW wfN,
         NEW W \in SUBSET out, NEW E \in SUBSET out, NEW R \in SUBSET out,
         NEW d, NEW b, NEW pp \in Int, NEW cp \in Int,
         Kinds(rq, d, b, W, E, R), BlockOrder(rq, wf, W, E, R, pp, cp), cp < P,
         NEW s, s \notin out, wfN[s] \subseteq out, \A x \in out : s \notin wf[x],
         \A x \in out : rqN[x] = rq[x] /\ wfN[x] = wf[x],
         rqN[s].page = cp, \A w \in W : rq[w].page # cp
  PROVE  BlockOrder(rqN, wfN, W \cup {s}, E, R, pp, cp + 1)
<1>1. /\ \A w \in W : rq[w].page \in Int /\ rqN[w].page = rq[w].page /\ w # s
      /\ \A y \in R : rq[y].page \in Int /\ rqN[y].page = rq[y].page
      /\ P \in Int
  BY Constants DEF Kinds
<1>2. /\ pp \in 0..Top(E, cp) /\ cp \in 0..P
      /\ \A w \in Older(wf, W, E) : pp <= rq[w].page /\ rq[w].page < Top(E, cp)
      /\ \A p \in pp..(Top(E, cp) - 1) : \E w \in Older(wf, W, E) : rq[w].page = p
      /\ E # {} =>
           /\ cp <= pp
           /\ \A w \in W \ Older(wf, W, E) : rq[w].page < cp
           /\ \A p \in 0..(cp - 1) : \E w \in W \ Older(wf, W, E) : rq[w].page = p
      /\ \A w, x \in W : rq[w].page = rq[x].page => w = x
  BY DEF BlockOrder, PagesLine
<1>3. /\ \A w, x \in W : x \in wf[w] =>
           rq[x].page < rq[w].page \/ (x \in Older(wf, W, E) /\ w \notin Older(wf, W, E))
      /\ \A e, f \in E : e = f
      /\ \A y \in R : wf[y] \cap E = {} /\ rq[y].page < Top(E, cp)
      /\ \A y \in R : \A w \in Older(wf, W, E) : rq[w].page = rq[y].page => y \notin wf[w]
  BY DEF BlockOrder, WaitsLine
<1>4. \A w, x \in W \cup {s} : rqN[w].page = rqN[x].page => w = x
  BY <1>1, <1>2
<1>5. CASE E = {}
  <2>1. Older(wf, W, E) = W /\ Older(wfN, W \cup {s}, E) = W \cup {s}
        /\ Top(E, cp) = cp /\ Top(E, cp + 1) = cp + 1
    BY <1>5 DEF Older, Top
  <2>2. \A w \in W \cup {s} : pp <= rqN[w].page /\ rqN[w].page < cp + 1
    BY <1>1, <1>2, <2>1
  <2>3. \A p \in pp..cp : \E w \in W \cup {s} : rqN[w].page = p
    <3> SUFFICES ASSUME NEW p \in pp..cp PROVE \E w \in W \cup {s} : rqN[w].page = p
      OBVIOUS
    <3>1. p = cp \/ p \in pp..(cp - 1)
      OBVIOUS
    <3> QED
      BY <1>1, <1>2, <2>1, <3>1
  <2>4. pp \in 0..(cp + 1) /\ cp + 1 \in 0..P /\ (cp + 1) - 1 = cp
    BY <1>1, <1>2, <2>1
  <2>5. PagesLine(rqN, wfN, W \cup {s}, E, pp, cp + 1)
    <3>1. pp \in 0..Top(E, cp + 1) /\ cp + 1 \in 0..P
      BY <2>1, <2>4
    <3>2. \A w \in Older(wfN, W \cup {s}, E) : pp <= rqN[w].page /\ rqN[w].page < Top(E, cp + 1)
      BY <2>1, <2>2
    <3>3. \A p \in pp..(Top(E, cp + 1) - 1) : \E w \in Older(wfN, W \cup {s}, E) : rqN[w].page = p
      BY <2>1, <2>3, <2>4
    <3> QED
      BY <1>4, <1>5, <3>1, <3>2, <3>3, Zenon DEF PagesLine
  <2>6. \A w, x \in W \cup {s} : x \in wfN[w] => rqN[x].page < rqN[w].page
    <3> SUFFICES ASSUME NEW w \in W \cup {s}, NEW x \in W \cup {s}, x \in wfN[w]
                 PROVE  rqN[x].page < rqN[w].page
      OBVIOUS
    <3>1. x \in W
      OBVIOUS
    <3>2. CASE w = s
      BY <1>1, <1>2, <2>1, <3>1, <3>2
    <3>3. CASE w # s
      BY <1>1, <1>3, <2>1, <3>1, <3>3
    <3> QED
      BY <3>2, <3>3
  <2>7. \A y \in R : wfN[y] \cap E = {} /\ rqN[y].page < cp + 1
    BY <1>1, <1>3, <1>5, <2>1
  <2>8. \A y \in R : \A w \in W \cup {s} : rqN[w].page = rqN[y].page => y \notin wfN[w]
    <3> SUFFICES ASSUME NEW y \in R, NEW w \in W \cup {s}, rqN[w].page = rqN[y].page
                 PROVE  y \notin wfN[w]
      OBVIOUS
    <3>1. w # s
      BY <1>1, <1>3, <2>1
    <3> QED
      BY <1>1, <1>3, <2>1, <3>1
  <2>9. WaitsLine(rqN, wfN, W \cup {s}, E, R, cp + 1)
    BY <1>3, <2>1, <2>6, <2>7, <2>8 DEF WaitsLine
  <2> QED
    BY <2>5, <2>9 DEF BlockOrder
<1>6. CASE E # {}
  <2>1. Older(wfN, W \cup {s}, E) = Older(wf, W, E) /\ Older(wf, W, E) \subseteq W
        /\ s \notin Older(wf, W, E)
    BY <1>6 DEF Older
  <2>2. Top(E, cp) = P /\ Top(E, cp + 1) = P
    BY <1>6 DEF Top
  <2>3. cp + 1 <= pp
    <3> SUFFICES ASSUME pp = cp PROVE FALSE
      BY <1>2, <1>6
    <3>1. cp \in pp..(P - 1)
      BY <1>1, <1>2
    <3>2. \E w \in Older(wf, W, E) : rq[w].page = cp
      BY <1>2, <2>2, <3>1
    <3> QED
      BY <2>1, <3>2
  <2>4. (W \cup {s}) \ Older(wf, W, E) = (W \ Older(wf, W, E)) \cup {s}
    BY <2>1
  <2>5. \A w \in (W \ Older(wf, W, E)) \cup {s} : rqN[w].page < cp + 1
    BY <1>1, <1>2, <1>6
  <2>6. \A p \in 0..cp : \E w \in (W \ Older(wf, W, E)) \cup {s} : rqN[w].page = p
    <3> SUFFICES ASSUME NEW p \in 0..cp
                 PROVE  \E w \in (W \ Older(wf, W, E)) \cup {s} : rqN[w].page = p
      OBVIOUS
    <3>1. p = cp \/ p \in 0..(cp - 1)
      OBVIOUS
    <3> QED
      BY <1>1, <1>2, <1>6, <3>1
  <2>7. pp \in 0..P /\ cp + 1 \in 0..P /\ (cp + 1) - 1 = cp
    BY <1>1, <1>2, <2>2
  <2>8. /\ \A w \in Older(wf, W, E) : pp <= rqN[w].page /\ rqN[w].page < P
        /\ \A p \in pp..(P - 1) : \E w \in Older(wf, W, E) : rqN[w].page = p
    <3>1. \A w \in Older(wf, W, E) : rqN[w].page = rq[w].page
      BY <1>1, <2>1
    <3>2. \A w \in Older(wf, W, E) : pp <= rq[w].page /\ rq[w].page < P
      BY <1>2, <2>2
    <3>3. \A p \in pp..(P - 1) : \E w \in Older(wf, W, E) : rq[w].page = p
      BY <1>2, <2>2
    <3> QED
      BY <3>1, <3>2, <3>3
  <2>9. PagesLine(rqN, wfN, W \cup {s}, E, pp, cp + 1)
    <3>1. pp \in 0..Top(E, cp + 1) /\ cp + 1 \in 0..P
      BY <2>2, <2>7
    <3>2. \A w \in Older(wfN, W \cup {s}, E) : pp <= rqN[w].page /\ rqN[w].page < Top(E, cp + 1)
      BY <2>1, <2>2, <2>8
    <3>3. \A p \in pp..(Top(E, cp + 1) - 1) : \E w \in Older(wfN, W \cup {s}, E) : rqN[w].page = p
      BY <2>1, <2>2, <2>8
    <3>4. /\ \A w \in (W \cup {s}) \ Older(wfN, W \cup {s}, E) : rqN[w].page < cp + 1
          /\ \A p \in 0..((cp + 1) - 1) :
               \E w \in (W \cup {s}) \ Older(wfN, W \cup {s}, E) : rqN[w].page = p
      BY <2>1, <2>4, <2>5, <2>6, <2>7
    <3> QED
      BY <1>4, <2>3, <3>1, <3>2, <3>3, <3>4, Zenon DEF PagesLine
  <2>10. \A w, x \in W \cup {s} : x \in wfN[w] =>
           \/ rqN[x].page < rqN[w].page
           \/ (x \in Older(wf, W, E) /\ w \notin Older(wf, W, E))
    <3> SUFFICES ASSUME NEW w \in W \cup {s}, NEW x \in W \cup {s}, x \in wfN[w]
                 PROVE  \/ rqN[x].page < rqN[w].page
                        \/ (x \in Older(wf, W, E) /\ w \notin Older(wf, W, E))
      OBVIOUS
    <3>1. x \in W
      OBVIOUS
    <3>2. CASE w = s
      BY <1>1, <1>2, <1>6, <2>1, <3>1, <3>2
    <3>3. CASE w # s
      BY <1>1, <1>3, <3>1, <3>3
    <3> QED
      BY <3>2, <3>3
  <2>11. /\ \A y \in R : wfN[y] \cap E = {} /\ rqN[y].page < P
         /\ \A y \in R : \A w \in Older(wf, W, E) : rqN[w].page = rqN[y].page => y \notin wfN[w]
    BY <1>1, <1>3, <2>1, <2>2
  <2>12. WaitsLine(rqN, wfN, W \cup {s}, E, R, cp + 1)
    BY <1>3, <2>1, <2>2, <2>10, <2>11 DEF WaitsLine
  <2> QED
    BY <2>9, <2>12 DEF BlockOrder
<1> QED
  BY <1>5, <1>6

\* An erase is made: of a block whose pages have all been given out.
LEMMA EraseMade ==
  ASSUME NEW out, NEW rq, NEW wf, NEW rqN, NEW wfN,
         NEW W \in SUBSET out, NEW R \in SUBSET out, NEW d, NEW b, NEW pp \in Int,
         Kinds(rq, d, b, W, {}, R), BlockOrder(rq, wf, W, {}, R, pp, P),
         NEW s, s \notin out, W \subseteq wfN[s], \A x \in out : s \notin wf[x],
         \A x \in out : rqN[x] = rq[x] /\ wfN[x] = wf[x]
  PROVE  BlockOrder(rqN, wfN, W, {s}, R, pp, 0)
<1>1. P \in Int /\ 0 <= P /\ Top({}, P) = P /\ Top({s}, 0) = P
  BY Constants DEF Top
<1>2. Older(wf, W, {}) = W /\ Older(wfN, W, {s}) = W /\ W \ W = {}
  BY DEF Older
<1>3. \A w \in W : rqN[w] = rq[w]
  OBVIOUS
<1>4. PagesLine(rqN, wfN, W, {s}, pp, 0)
  <2>1. /\ pp \in 0..P /\ 0 \in 0..P /\ 0 <= pp
        /\ \A w \in W : pp <= rq[w].page /\ rq[w].page < P
        /\ \A p \in pp..(P - 1) : \E w \in W : rq[w].page = p
        /\ \A w, x \in W : rq[w].page = rq[x].page => w = x
    BY <1>1, <1>2 DEF BlockOrder, PagesLine
  <2>2. \A p \in 0..(0 - 1) : FALSE
    OBVIOUS
  <2> QED
    BY <1>1, <1>2, <1>3, <2>1, <2>2 DEF PagesLine
<1>5. WaitsLine(rqN, wfN, W, {s}, R, 0)
  <2>1. /\ \A w, x \in W : x \in wf[w] => rq[x].page < rq[w].page
        /\ \A y \in R : rq[y].page < P
        /\ \A y \in R : \A w \in W : rq[w].page = rq[y].page => y \notin wf[w]
    BY <1>1, <1>2 DEF BlockOrder, WaitsLine
  <2> QED
    BY <1>1, <1>2, <2>1 DEF WaitsLine
<1> QED
  BY <1>4, <1>5 DEF BlockOrder

-----------------------------------------------------------------------------
\* The row of a block: its requests that wait are in their order, the count and
\* the flag are those of the reads R and the erases F on the queues, and the
\* page is what has been given out less what waits.

RowHolds(rq, wf, W, E, R, F, row, cp) ==
  /\ row \in RowType /\ cp \in Int
  /\ BlockOrder(rq, wf, W, E, R, row.permittedProgPage, cp)
  /\ row.blockedReadReqCnt = Cardinality(R)
  /\ row.blockedEraseReqFlag = (F # {})
  /\ row.permittedProgPage = cp + (IF E = {} THEN 0 ELSE P) - Cardinality(W)

LEMMA HoldsSame ==
  ASSUME NEW rq, NEW wf, NEW rqN, NEW wfN, NEW W, NEW E, NEW R, NEW F, NEW row, NEW cp,
         RowHolds(rq, wf, W, E, R, F, row, cp),
         \A x \in W \cup R : rqN[x] = rq[x],
         \A x \in W \cup E \cup R : \A y \in W \cup E \cup R : y \in wfN[x] <=> y \in wf[x]
  PROVE  RowHolds(rqN, wfN, W, E, R, F, row, cp)
<1>1. row \in RowType /\ cp \in Int /\ BlockOrder(rq, wf, W, E, R, row.permittedProgPage, cp)
  BY DEF RowHolds
<1>2. row.permittedProgPage \in Int
  BY <1>1 DEF RowType
<1>3. BlockOrder(rqN, wfN, W, E, R, row.permittedProgPage, cp)
  BY <1>1, <1>2, OrderSame
<1> QED
  BY <1>3, Zenon DEF RowHolds

LEMMA HoldsWritePasses ==
  ASSUME NEW rq, NEW wf, NEW W, NEW E, NEW R, NEW F, NEW row, NEW cp, NEW d, NEW b,
         RowHolds(rq, wf, W, E, R, F, row, cp), Kinds(rq, d, b, W, E, R), IsFiniteSet(W),
         NEW s \in W, rq[s].page = row.permittedProgPage
  PROVE  RowHolds(rq, wf, W \ {s}, E, R, F, [row EXCEPT !.permittedProgPage = @ + 1], cp)
<1>1. /\ row \in RowType /\ cp \in Int /\ BlockOrder(rq, wf, W, E, R, row.permittedProgPage, cp)
      /\ row.blockedReadReqCnt = Cardinality(R)
      /\ row.blockedEraseReqFlag = (F # {})
      /\ row.permittedProgPage = cp + (IF E = {} THEN 0 ELSE P) - Cardinality(W)
  BY DEF RowHolds
<1>2. row.permittedProgPage \in Int /\ P \in Int
  BY <1>1, Constants DEF RowType
<1> DEFINE new == [row EXCEPT !.permittedProgPage = @ + 1]
<1>3. /\ new \in RowType /\ new.permittedProgPage = row.permittedProgPage + 1
      /\ new.blockedReadReqCnt = row.blockedReadReqCnt
      /\ new.blockedEraseReqFlag = row.blockedEraseReqFlag
  BY <1>1 DEF RowType
<1>4. BlockOrder(rq, wf, W \ {s}, E, R, row.permittedProgPage + 1, cp)
  BY <1>1, <1>2, WritePasses
<1>5. /\ Cardinality(W \ {s}) = Cardinality(W) - 1 /\ Cardinality(W) \in Int
  <2>1. Cardinality(W \ {s}) = Cardinality(W) - 1
    BY FS_RemoveElement
  <2>2. Cardinality(W) \in Int
    BY FS_CardinalityType
  <2> QED
    BY <2>1, <2>2
<1>6. row.permittedProgPage + 1 = cp + (IF E = {} THEN 0 ELSE P) - Cardinality(W \ {s})
  <2>1. PICK k : k = IF E = {} THEN 0 ELSE P
    OBVIOUS
  <2>2. k \in Int
    BY <1>2, <2>1
  <2>3. row.permittedProgPage = cp + k - Cardinality(W)
    BY <1>1, <2>1, Zenon
  <2>4. row.permittedProgPage + 1 = cp + k - Cardinality(W \ {s})
    BY <1>1, <1>2, <1>5, <2>2, <2>3
  <2> QED
    BY <2>1, <2>4, Zenon
<1> HIDE DEF new
<1>7. RowHolds(rq, wf, W \ {s}, E, R, F, new, cp)
  BY <1>1, <1>3, <1>4, <1>6, Zenon DEF RowHolds
<1> QED
  BY <1>7 DEF new

LEMMA HoldsReadPasses ==
  ASSUME NEW rq, NEW wf, NEW W, NEW E, NEW R, NEW F, NEW row, NEW cp,
         RowHolds(rq, wf, W, E, R, F, row, cp), IsFiniteSet(R), NEW s \in R
  PROVE  RowHolds(rq, wf, W, E, R \ {s}, F, [row EXCEPT !.blockedReadReqCnt = @ - 1], cp)
<1>1. /\ row \in RowType /\ cp \in Int /\ BlockOrder(rq, wf, W, E, R, row.permittedProgPage, cp)
      /\ row.blockedReadReqCnt = Cardinality(R)
      /\ row.blockedEraseReqFlag = (F # {})
      /\ row.permittedProgPage = cp + (IF E = {} THEN 0 ELSE P) - Cardinality(W)
  BY DEF RowHolds
<1> DEFINE new == [row EXCEPT !.blockedReadReqCnt = @ - 1]
<1>2. /\ new \in RowType /\ new.permittedProgPage = row.permittedProgPage
      /\ new.blockedReadReqCnt = row.blockedReadReqCnt - 1
      /\ new.blockedEraseReqFlag = row.blockedEraseReqFlag
  BY <1>1 DEF RowType
<1>3. BlockOrder(rq, wf, W, E, R \ {s}, row.permittedProgPage, cp)
  BY <1>1, ReadPasses
<1>4. Cardinality(R \ {s}) = Cardinality(R) - 1
  BY FS_RemoveElement
<1> HIDE DEF new
<1>5. new.blockedReadReqCnt = Cardinality(R \ {s})
  BY <1>1, <1>2, <1>4
<1>6. RowHolds(rq, wf, W, E, R \ {s}, F, new, cp)
  BY <1>1, <1>2, <1>3, <1>5, Zenon DEF RowHolds
<1> QED
  BY <1>6 DEF new

LEMMA HoldsErasePasses ==
  ASSUME NEW rq, NEW wf, NEW W, NEW E, NEW R, NEW F, NEW row, NEW cp, NEW d, NEW b,
         RowHolds(rq, wf, W, E, R, F, row, cp), Kinds(rq, d, b, W, E, R),
         IsFiniteSet(W), IsFiniteSet(R), E # {},
         row.permittedProgPage = P, row.blockedReadReqCnt = 0
  PROVE  /\ RowHolds(rq, wf, W, {}, {}, {},
                     [row EXCEPT !.permittedProgPage = 0, !.blockedEraseReqFlag = FALSE], cp)
         /\ R = {}
<1>1. /\ row \in RowType /\ cp \in Int /\ BlockOrder(rq, wf, W, E, R, row.permittedProgPage, cp)
      /\ row.blockedReadReqCnt = Cardinality(R)
      /\ row.permittedProgPage = cp + P - Cardinality(W)
  BY DEF RowHolds
<1>2. P \in Int
  BY Constants
<1> DEFINE new == [row EXCEPT !.permittedProgPage = 0, !.blockedEraseReqFlag = FALSE]
<1>3. /\ new \in RowType /\ new.permittedProgPage = 0
      /\ new.blockedReadReqCnt = row.blockedReadReqCnt
      /\ new.blockedEraseReqFlag = FALSE
  BY <1>1 DEF RowType
<1>4. R = {}
  BY <1>1, FS_EmptySet
<1>5. BlockOrder(rq, wf, W, {}, {}, 0, cp)
  BY <1>1, ErasePasses
<1>6. Cardinality(W) \in Int
  BY FS_CardinalityType
<1>7. 0 = cp + 0 - Cardinality(W)
  BY <1>1, <1>2, <1>6
<1>8. new.blockedReadReqCnt = Cardinality({})
  BY <1>1, <1>3, <1>4
<1> HIDE DEF new
<1>9. RowHolds(rq, wf, W, {}, {}, {}, new, cp)
  BY <1>1, <1>3, <1>5, <1>7, <1>8 DEF RowHolds
<1> QED
  BY <1>4, <1>9 DEF new

LEMMA HoldsReadBlocks ==
  ASSUME NEW rq, NEW wf, NEW W, NEW R, NEW F, NEW row, NEW cp,
         RowHolds(rq, wf, W, {}, R, F, row, cp), IsFiniteSet(R),
         NEW s, s \notin R, rq[s].page < cp, \A w \in W : s \notin wf[w]
  PROVE  RowHolds(rq, wf, W, {}, R \cup {s}, F, [row EXCEPT !.blockedReadReqCnt = @ + 1], cp)
<1>1. /\ row \in RowType /\ cp \in Int /\ BlockOrder(rq, wf, W, {}, R, row.permittedProgPage, cp)
      /\ row.blockedReadReqCnt = Cardinality(R)
      /\ row.blockedEraseReqFlag = (F # {})
      /\ row.permittedProgPage = cp + (IF {} = {} THEN 0 ELSE P) - Cardinality(W)
  BY DEF RowHolds
<1>2. row.permittedProgPage \in Int
  BY <1>1 DEF RowType
<1> DEFINE new == [row EXCEPT !.blockedReadReqCnt = @ + 1]
<1>3. /\ new \in RowType /\ new.permittedProgPage = row.permittedProgPage
      /\ new.blockedReadReqCnt = row.blockedReadReqCnt + 1
      /\ new.blockedEraseReqFlag = row.blockedEraseReqFlag
  BY <1>1 DEF RowType
<1>4. BlockOrder(rq, wf, W, {}, R \cup {s}, row.permittedProgPage, cp)
  BY <1>1, <1>2, ReadBlocks
<1>5. Cardinality(R \cup {s}) = Cardinality(R) + 1
  BY FS_AddElement
<1> HIDE DEF new
<1>6. new.blockedReadReqCnt = Cardinality(R \cup {s})
  BY <1>1, <1>3, <1>5
<1>7. RowHolds(rq, wf, W, {}, R \cup {s}, F, new, cp)
  BY <1>1, <1>3, <1>4, <1>6, Zenon DEF RowHolds
<1> QED
  BY <1>7 DEF new

LEMMA HoldsEraseBlocks ==
  ASSUME NEW rq, NEW wf, NEW W, NEW E, NEW R, NEW F, NEW row, NEW cp,
         RowHolds(rq, wf, W, E, R, F, row, cp), NEW G, G # {}
  PROVE  RowHolds(rq, wf, W, E, R, G, [row EXCEPT !.blockedEraseReqFlag = TRUE], cp)
<1>1. /\ row \in RowType /\ cp \in Int /\ BlockOrder(rq, wf, W, E, R, row.permittedProgPage, cp)
      /\ row.blockedReadReqCnt = Cardinality(R)
      /\ row.permittedProgPage = cp + (IF E = {} THEN 0 ELSE P) - Cardinality(W)
  BY DEF RowHolds
<1> DEFINE new == [row EXCEPT !.blockedEraseReqFlag = TRUE]
<1>2. /\ new \in RowType /\ new.permittedProgPage = row.permittedProgPage
      /\ new.blockedReadReqCnt = row.blockedReadReqCnt
      /\ new.blockedEraseReqFlag = TRUE
  BY <1>1 DEF RowType
<1> HIDE DEF new
<1>3. new.blockedEraseReqFlag = (G # {})
  BY <1>2
<1>4. RowHolds(rq, wf, W, E, R, G, new, cp)
  BY <1>1, <1>2, <1>3, Zenon DEF RowHolds
<1> QED
  BY <1>4 DEF new

LEMMA HoldsWriteMade ==
  ASSUME NEW out, NEW rq, NEW wf, NEW rqN, NEW wfN,
         NEW W \in SUBSET out, NEW E \in SUBSET out, NEW R \in SUBSET out,
         NEW F, NEW d, NEW b, NEW row, NEW cp,
         Kinds(rq, d, b, W, E, R), RowHolds(rq, wf, W, E, R, F, row, cp), IsFiniteSet(W), cp < P,
         NEW s, s \notin out, wfN[s] \subseteq out, \A x \in out : s \notin wf[x],
         \A x \in out : rqN[x] = rq[x] /\ wfN[x] = wf[x],
         rqN[s].page = cp, \A w \in W : rq[w].page # cp
  PROVE  RowHolds(rqN, wfN, W \cup {s}, E, R, F, row, cp + 1)
<1>1. /\ row \in RowType /\ cp \in Int /\ BlockOrder(rq, wf, W, E, R, row.permittedProgPage, cp)
      /\ row.blockedReadReqCnt = Cardinality(R)
      /\ row.blockedEraseReqFlag = (F # {})
      /\ row.permittedProgPage = cp + (IF E = {} THEN 0 ELSE P) - Cardinality(W)
  BY DEF RowHolds
<1>2. row.permittedProgPage \in Int /\ P \in Int
  BY <1>1, Constants DEF RowType
<1>3. BlockOrder(rqN, wfN, W \cup {s}, E, R, row.permittedProgPage, cp + 1)
  BY <1>1, <1>2, WriteMade
<1>4. Cardinality(W \cup {s}) = Cardinality(W) + 1 /\ Cardinality(W) \in Int
  BY FS_AddElement, FS_CardinalityType
<1>5. row.permittedProgPage = (cp + 1) + (IF E = {} THEN 0 ELSE P) - Cardinality(W \cup {s})
  BY <1>1, <1>2, <1>4
<1>6. cp + 1 \in Int
  BY <1>1
<1> QED
  BY <1>1, <1>3, <1>5, <1>6, Zenon DEF RowHolds

LEMMA HoldsEraseMade ==
  ASSUME NEW out, NEW rq, NEW wf, NEW rqN, NEW wfN,
         NEW W \in SUBSET out, NEW R \in SUBSET out, NEW F, NEW d, NEW b, NEW row,
         Kinds(rq, d, b, W, {}, R), RowHolds(rq, wf, W, {}, R, F, row, P),
         IsFiniteSet(W), NEW s, s \notin out, W \subseteq wfN[s], \A x \in out : s \notin wf[x],
         \A x \in out : rqN[x] = rq[x] /\ wfN[x] = wf[x]
  PROVE  RowHolds(rqN, wfN, W, {s}, R, F, row, 0)
<1>1. /\ row \in RowType /\ BlockOrder(rq, wf, W, {}, R, row.permittedProgPage, P)
      /\ row.blockedReadReqCnt = Cardinality(R)
      /\ row.blockedEraseReqFlag = (F # {})
      /\ row.permittedProgPage = P + (IF {} = {} THEN 0 ELSE P) - Cardinality(W)
  BY DEF RowHolds
<1>2. row.permittedProgPage \in Int /\ P \in Int
  BY <1>1, Constants DEF RowType
<1>3. BlockOrder(rqN, wfN, W, {s}, R, row.permittedProgPage, 0)
  BY <1>1, <1>2, EraseMade
<1>4. row.permittedProgPage = 0 + (IF {s} = {} THEN 0 ELSE P) - Cardinality(W)
  <2>1. (IF {} = {} THEN 0 ELSE P) = 0 /\ (IF {s} = {} THEN 0 ELSE P) = P
    OBVIOUS
  <2>2. row.permittedProgPage = P + 0 - Cardinality(W)
    BY <1>1, <2>1, Zenon
  <2>3. Cardinality(W) \in Int
    BY FS_CardinalityType
  <2>4. row.permittedProgPage = 0 + P - Cardinality(W)
    BY <1>2, <2>2, <2>3
  <2> QED
    BY <2>1, <2>4, Zenon
<1>5. 0 \in Int
  OBVIOUS
<1> QED
  BY <1>1, <1>3, <1>4, <1>5, Zenon DEF RowHolds

-----------------------------------------------------------------------------
\* The same over the queued requests Q and the request in hand H.

Of(rq, S, c, d, b) == {x \in S : rq[x].code = c /\ rq[x].die = d /\ rq[x].block = b}

RowOk(rq, wf, Q, H, row, cp, d, b) ==
  RowHolds(rq, wf, Of(rq, Q \cup H, "WRITE", d, b), Of(rq, Q \cup H, "ERASE", d, b),
           Of(rq, Q, "READ", d, b), Of(rq, Q, "ERASE", d, b), row, cp)

\* What every outstanding request looks like.
Shaped(rq, out) ==
  \A x \in out :
    /\ rq[x].code \in {"DMA", "READ", "WRITE", "ERASE"}
    /\ rq[x].code # "DMA" => rq[x].die \in Die /\ rq[x].block \in Block
    /\ rq[x].code \in {"READ", "WRITE"} => rq[x].page \in 0..(P - 1)
    /\ rq[x].code = "ERASE" => rq[x].page = P

\* Which requests of a block the two rules of CheckRowAddrDep are about.
Lets(r, row) ==
  \/ r.code = "READ"  /\ r.page < row.permittedProgPage
  \/ r.code = "WRITE" /\ r.page = row.permittedProgPage
  \/ r.code = "ERASE" /\ r.page = row.permittedProgPage /\ row.blockedReadReqCnt = 0
RowLet(r, row, counted) ==
  CASE r.code = "READ"  -> IF counted THEN [row EXCEPT !.blockedReadReqCnt = @ - 1] ELSE row
    [] r.code = "WRITE" -> [row EXCEPT !.permittedProgPage = @ + 1]
    [] r.code = "ERASE" -> [row EXCEPT !.permittedProgPage = 0, !.blockedEraseReqFlag = FALSE]
RowHeld(r, row) ==
  CASE r.code = "READ"  -> [row EXCEPT !.blockedReadReqCnt = @ + 1]
    [] r.code = "ERASE" -> [row EXCEPT !.blockedEraseReqFlag = TRUE]
    [] OTHER            -> row

\* A step that takes no request of the block and gives it none.
LEMMA RowKept ==
  ASSUME NEW rq, NEW wf, NEW rqN, NEW wfN, NEW Q, NEW H, NEW QN, NEW HN,
         NEW row, NEW cp, NEW d, NEW b,
         RowOk(rq, wf, Q, H, row, cp, d, b),
         \A x \in Q \cup H : rqN[x] = rq[x],
         \A x \in Q \cup H : \A y \in Q \cup H : y \in wfN[x] <=> y \in wf[x],
         Of(rqN, QN \cup HN, "WRITE", d, b) = Of(rq, Q \cup H, "WRITE", d, b),
         Of(rqN, QN \cup HN, "ERASE", d, b) = Of(rq, Q \cup H, "ERASE", d, b),
         Of(rqN, QN, "READ", d, b) = Of(rq, Q, "READ", d, b),
         Of(rqN, QN, "ERASE", d, b) = Of(rq, Q, "ERASE", d, b)
  PROVE  RowOk(rqN, wfN, QN, HN, row, cp, d, b)
<1>1. PICK W, E, R, F : /\ W = Of(rq, Q \cup H, "WRITE", d, b) /\ E = Of(rq, Q \cup H, "ERASE", d, b)
                        /\ R = Of(rq, Q, "READ", d, b) /\ F = Of(rq, Q, "ERASE", d, b)
  OBVIOUS
<1>2. W \subseteq Q \cup H /\ E \subseteq Q \cup H /\ R \subseteq Q \cup H
  BY <1>1 DEF Of
<1>3. RowHolds(rq, wf, W, E, R, F, row, cp)
  BY <1>1, Zenon DEF RowOk
<1>4. RowHolds(rqN, wfN, W, E, R, F, row, cp)
  <2>1. \A x \in W \cup R : rqN[x] = rq[x]
    BY <1>2
  <2>2. \A x \in W \cup E \cup R : \A y \in W \cup E \cup R : y \in wfN[x] <=> y \in wf[x]
    BY <1>2
  <2> QED
    BY <1>3, <2>1, <2>2, HoldsSame
<1> QED
  BY <1>1, <1>4, Zenon DEF RowOk

\* A request of the block is let through.
LEMMA RowLetKeeps ==
  ASSUME NEW rq, NEW wf, NEW out \in SUBSET Slot, Shaped(rq, out),
         NEW Q \in SUBSET out, NEW H \in SUBSET out, Q \cap H = {},
         NEW row, NEW cp, NEW d \in Die, NEW b \in Block,
         RowOk(rq, wf, Q, H, row, cp, d, b),
         NEW s \in Q \cup H, rq[s].code # "DMA", rq[s].die = d, rq[s].block = b,
         Lets(rq[s], row)
  PROVE  RowOk(rq, wf, Q \ {s}, H \ {s}, RowLet(rq[s], row, s \in Q), cp, d, b)
<1>1. PICK W, E, R, F : /\ W = Of(rq, Q \cup H, "WRITE", d, b) /\ E = Of(rq, Q \cup H, "ERASE", d, b)
                        /\ R = Of(rq, Q, "READ", d, b) /\ F = Of(rq, Q, "ERASE", d, b)
  OBVIOUS
<1>2. RowHolds(rq, wf, W, E, R, F, row, cp)
  BY <1>1, Zenon DEF RowOk
<1>3. Kinds(rq, d, b, W, E, R) /\ IsFiniteSet(W) /\ IsFiniteSet(R)
  <2>1. W \in SUBSET Slot /\ R \in SUBSET Slot
    BY <1>1 DEF Of
  <2>2. IsFiniteSet(W) /\ IsFiniteSet(R)
    BY <2>1, SubsetsAreFinite
  <2>3. Kinds(rq, d, b, W, E, R)
    BY <1>1 DEF Kinds, Of, Shaped
  <2> QED
    BY <2>2, <2>3
<1>4. rq[s].code \in {"READ", "WRITE", "ERASE"}
  BY DEF Shaped
<1>5. CASE rq[s].code = "WRITE"
  <2>1. /\ s \in W
        /\ Of(rq, (Q \ {s}) \cup (H \ {s}), "WRITE", d, b) = W \ {s}
        /\ Of(rq, (Q \ {s}) \cup (H \ {s}), "ERASE", d, b) = E
        /\ Of(rq, Q \ {s}, "READ", d, b) = R /\ Of(rq, Q \ {s}, "ERASE", d, b) = F
    BY <1>1, <1>5 DEF Of
  <2>2. rq[s].page = row.permittedProgPage
    BY <1>5 DEF Lets
  <2>3. RowHolds(rq, wf, W \ {s}, E, R, F, [row EXCEPT !.permittedProgPage = @ + 1], cp)
    BY <1>2, <1>3, <2>1, <2>2, HoldsWritePasses
  <2>4. RowLet(rq[s], row, s \in Q) = [row EXCEPT !.permittedProgPage = @ + 1]
    BY <1>5 DEF RowLet
  <2> QED
    BY <2>1, <2>3, <2>4, Zenon DEF RowOk
<1>6. CASE rq[s].code = "READ"
  <2>1. /\ Of(rq, (Q \ {s}) \cup (H \ {s}), "WRITE", d, b) = W
        /\ Of(rq, (Q \ {s}) \cup (H \ {s}), "ERASE", d, b) = E
        /\ Of(rq, Q \ {s}, "READ", d, b) = R \ {s} /\ Of(rq, Q \ {s}, "ERASE", d, b) = F
    BY <1>1, <1>6 DEF Of
  <2>2. CASE s \in Q
    <3>1. s \in R
      BY <1>1, <1>6, <2>2 DEF Of
    <3>2. RowHolds(rq, wf, W, E, R \ {s}, F, [row EXCEPT !.blockedReadReqCnt = @ - 1], cp)
      BY <1>2, <1>3, <3>1, HoldsReadPasses
    <3>3. RowLet(rq[s], row, s \in Q) = [row EXCEPT !.blockedReadReqCnt = @ - 1]
      BY <1>6, <2>2 DEF RowLet
    <3> QED
      BY <2>1, <3>2, <3>3, Zenon DEF RowOk
  <2>3. CASE s \notin Q
    <3>1. R \ {s} = R
      BY <1>1, <2>3 DEF Of
    <3>2. RowLet(rq[s], row, s \in Q) = row
      BY <1>6, <2>3 DEF RowLet
    <3> QED
      BY <1>2, <2>1, <3>1, <3>2, Zenon DEF RowOk
  <2> QED
    BY <2>2, <2>3
<1>7. CASE rq[s].code = "ERASE"
  <2>1. /\ s \in E
        /\ Of(rq, (Q \ {s}) \cup (H \ {s}), "WRITE", d, b) = W
        /\ Of(rq, (Q \ {s}) \cup (H \ {s}), "ERASE", d, b) = E \ {s}
        /\ Of(rq, Q \ {s}, "READ", d, b) = R
        /\ Of(rq, Q \ {s}, "ERASE", d, b) \subseteq E \ {s}
    BY <1>1, <1>7 DEF Of
  <2>2. E = {s}
    BY <1>2, <2>1 DEF RowHolds, BlockOrder, WaitsLine
  <2>3. rq[s].page = P
    BY <1>7 DEF Shaped
  <2>4. row.permittedProgPage = P /\ row.blockedReadReqCnt = 0
    BY <1>7, <2>3 DEF Lets
  <2>5. /\ RowHolds(rq, wf, W, {}, {}, {},
                    [row EXCEPT !.permittedProgPage = 0, !.blockedEraseReqFlag = FALSE], cp)
        /\ R = {}
    BY <1>2, <1>3, <2>1, <2>4, HoldsErasePasses
  <2>6. RowLet(rq[s], row, s \in Q)
          = [row EXCEPT !.permittedProgPage = 0, !.blockedEraseReqFlag = FALSE]
    BY <1>7 DEF RowLet
  <2>7. /\ Of(rq, (Q \ {s}) \cup (H \ {s}), "ERASE", d, b) = {}
        /\ Of(rq, Q \ {s}, "READ", d, b) = {} /\ Of(rq, Q \ {s}, "ERASE", d, b) = {}
    BY <2>1, <2>2, <2>5
  <2> QED
    BY <2>1, <2>5, <2>6, <2>7, Zenon DEF RowOk
<1> QED
  BY <1>4, <1>5, <1>6, <1>7

\* The request in hand is of the block, and begins to wait.
LEMMA RowHeldKeeps ==
  ASSUME NEW rq, NEW wf, NEW out \in SUBSET Slot, Shaped(rq, out),
         NEW Q \in SUBSET out, NEW s \in out, s \notin Q, \A x \in Slot : s \notin wf[x],
         NEW row, NEW cp, NEW d \in Die, NEW b \in Block,
         RowOk(rq, wf, Q, {s}, row, cp, d, b),
         rq[s].code # "DMA", rq[s].die = d, rq[s].block = b,
         rq[s].code = "READ" => rq[s].page < cp /\ ~row.blockedEraseReqFlag
  PROVE  RowOk(rq, wf, Q \cup {s}, {}, RowHeld(rq[s], row), cp, d, b)
<1>1. PICK W, E, R, F : /\ W = Of(rq, Q \cup {s}, "WRITE", d, b) /\ E = Of(rq, Q \cup {s}, "ERASE", d, b)
                        /\ R = Of(rq, Q, "READ", d, b) /\ F = Of(rq, Q, "ERASE", d, b)
  OBVIOUS
<1>2. RowHolds(rq, wf, W, E, R, F, row, cp)
  BY <1>1, Zenon DEF RowOk
<1>3. W \in SUBSET out /\ IsFiniteSet(R)
  <2>1. W \in SUBSET out /\ R \in SUBSET Slot
    BY <1>1 DEF Of
  <2> QED
    BY <2>1, SubsetsAreFinite
<1>4. rq[s].code \in {"READ", "WRITE", "ERASE"}
  BY DEF Shaped
<1>5. /\ Of(rq, (Q \cup {s}) \cup {}, "WRITE", d, b) = W
      /\ Of(rq, (Q \cup {s}) \cup {}, "ERASE", d, b) = E
  BY <1>1 DEF Of
<1>6. CASE rq[s].code = "WRITE"
  <2>1. Of(rq, Q \cup {s}, "READ", d, b) = R /\ Of(rq, Q \cup {s}, "ERASE", d, b) = F
    BY <1>1, <1>6 DEF Of
  <2>2. RowHeld(rq[s], row) = row
    BY <1>6 DEF RowHeld
  <2> QED
    BY <1>2, <1>5, <2>1, <2>2, Zenon DEF RowOk
<1>7. CASE rq[s].code = "READ"
  <2>1. row.blockedEraseReqFlag = (F # {})
    BY <1>2 DEF RowHolds
  <2>2. F = {}
    BY <1>7, <2>1
  <2>3. E = {}
    BY <1>1, <1>7, <2>2 DEF Of
  <2>4. /\ Of(rq, Q \cup {s}, "READ", d, b) = R \cup {s} /\ Of(rq, Q \cup {s}, "ERASE", d, b) = F
        /\ s \notin R
    BY <1>1, <1>7 DEF Of
  <2>5. \A w \in W : s \notin wf[w]
    BY <1>3
  <2>6. RowHolds(rq, wf, W, {}, R \cup {s}, F, [row EXCEPT !.blockedReadReqCnt = @ + 1], cp)
    <3>1. RowHolds(rq, wf, W, {}, R, F, row, cp) /\ rq[s].page < cp
      BY <1>2, <1>7, <2>3, Zenon
    <3> QED
      BY <1>3, <2>4, <2>5, <3>1, HoldsReadBlocks
  <2>7. RowHeld(rq[s], row) = [row EXCEPT !.blockedReadReqCnt = @ + 1]
    BY <1>7 DEF RowHeld
  <2> QED
    BY <1>5, <2>3, <2>4, <2>6, <2>7, Zenon DEF RowOk
<1>8. CASE rq[s].code = "ERASE"
  <2>1. /\ Of(rq, Q \cup {s}, "READ", d, b) = R
        /\ Of(rq, Q \cup {s}, "ERASE", d, b) # {}
    BY <1>1, <1>8 DEF Of
  <2>2. PICK G : G = Of(rq, Q \cup {s}, "ERASE", d, b)
    OBVIOUS
  <2>3. RowHolds(rq, wf, W, E, R, G, [row EXCEPT !.blockedEraseReqFlag = TRUE], cp)
    BY <1>2, <2>1, <2>2, HoldsEraseBlocks
  <2>4. RowHeld(rq[s], row) = [row EXCEPT !.blockedEraseReqFlag = TRUE]
    BY <1>8 DEF RowHeld
  <2> QED
    BY <1>5, <2>1, <2>2, <2>3, <2>4, Zenon DEF RowOk
<1> QED
  BY <1>4, <1>6, <1>7, <1>8

-----------------------------------------------------------------------------
\* A request is made.

LEMMA RowMadeElsewhere ==
  ASSUME NEW rq, NEW wf, NEW rqN, NEW wfN, NEW out \in SUBSET Slot, NEW Q \in SUBSET out,
         NEW s, s \notin out,
         NEW row, NEW cp, NEW d \in Die, NEW b \in Block,
         RowOk(rq, wf, Q, {}, row, cp, d, b),
         \A x \in out : rqN[x] = rq[x] /\ wfN[x] = wf[x],
         ~(rqN[s].code \in {"WRITE", "ERASE"} /\ rqN[s].die = d /\ rqN[s].block = b)
  PROVE  RowOk(rqN, wfN, Q, {s}, row, cp, d, b)
<1>1. /\ Of(rqN, Q \cup {s}, "WRITE", d, b) = Of(rq, Q \cup {}, "WRITE", d, b)
      /\ Of(rqN, Q \cup {s}, "ERASE", d, b) = Of(rq, Q \cup {}, "ERASE", d, b)
      /\ Of(rqN, Q, "READ", d, b) = Of(rq, Q, "READ", d, b)
      /\ Of(rqN, Q, "ERASE", d, b) = Of(rq, Q, "ERASE", d, b)
  BY DEF Of
<1>2. /\ \A x \in Q \cup {} : rqN[x] = rq[x]
      /\ \A x \in Q \cup {} : \A y \in Q \cup {} : y \in wfN[x] <=> y \in wf[x]
  OBVIOUS
<1> QED
  BY <1>1, <1>2, RowKept

\* Slot s, not among those outstanding, is given a new request.
Made(rq, wf, rqN, wfN, out, Q, s) ==
  /\ out \in SUBSET Slot /\ Q \in SUBSET out /\ Shaped(rq, out) /\ s \notin out
  /\ \A x \in out : rqN[x] = rq[x] /\ wfN[x] = wf[x] /\ s \notin wf[x]
  /\ wfN[s] = {t \in out : Conflict(rqN[s], rq[t])}

LEMMA RowWriteMade ==
  ASSUME NEW rq, NEW wf, NEW rqN, NEW wfN, NEW out, NEW Q, NEW s,
         Made(rq, wf, rqN, wfN, out, Q, s),
         NEW row, NEW cp, NEW d, NEW b, RowOk(rq, wf, Q, {}, row, cp, d, b),
         rqN[s].code = "WRITE", rqN[s].die = d, rqN[s].block = b, rqN[s].page = cp, cp < P,
         \A x \in Of(rq, Q, "WRITE", d, b) : rq[x].page # cp
  PROVE  RowOk(rqN, wfN, Q, {s}, row, cp + 1, d, b)
<1> /\ out \in SUBSET Slot /\ Q \in SUBSET out /\ Shaped(rq, out) /\ s \notin out
    /\ \A x \in out : rqN[x] = rq[x] /\ wfN[x] = wf[x] /\ s \notin wf[x]
    /\ wfN[s] = {t \in out : Conflict(rqN[s], rq[t])}
  BY DEF Made
<1>1. PICK W, E, R, F : /\ W = Of(rq, Q \cup {}, "WRITE", d, b) /\ E = Of(rq, Q \cup {}, "ERASE", d, b)
                        /\ R = Of(rq, Q, "READ", d, b) /\ F = Of(rq, Q, "ERASE", d, b)
  OBVIOUS
<1>2. RowHolds(rq, wf, W, E, R, F, row, cp)
  BY <1>1, Zenon DEF RowOk
<1>3. W \in SUBSET out /\ E \in SUBSET out /\ R \in SUBSET out /\ W \in SUBSET Slot
  BY <1>1 DEF Of
<1>4. Kinds(rq, d, b, W, E, R)
  BY <1>1 DEF Kinds, Of, Shaped
<1>5. IsFiniteSet(W)
  BY <1>3, SubsetsAreFinite
<1>6. \A w \in W : rq[w].page # cp
  BY <1>1 DEF Of
<1>7. RowHolds(rqN, wfN, W \cup {s}, E, R, F, row, cp + 1)
  <2>1. wfN[s] \subseteq out
    OBVIOUS
  <2> QED
    BY <1>2, <1>3, <1>4, <1>5, <1>6, <2>1, HoldsWriteMade
<1>8. /\ Of(rqN, Q \cup {s}, "WRITE", d, b) = W \cup {s}
      /\ Of(rqN, Q \cup {s}, "ERASE", d, b) = E
      /\ Of(rqN, Q, "READ", d, b) = R /\ Of(rqN, Q, "ERASE", d, b) = F
  BY <1>1 DEF Of
<1> QED
  BY <1>7, <1>8, Zenon DEF RowOk

LEMMA RowEraseMade ==
  ASSUME NEW rq, NEW wf, NEW rqN, NEW wfN, NEW out, NEW Q, NEW s,
         Made(rq, wf, rqN, wfN, out, Q, s),
         NEW row, NEW d, NEW b, RowOk(rq, wf, Q, {}, row, P, d, b), ~row.blockedEraseReqFlag,
         rqN[s].code = "ERASE", rqN[s].die = d, rqN[s].block = b
  PROVE  RowOk(rqN, wfN, Q, {s}, row, 0, d, b)
<1> /\ out \in SUBSET Slot /\ Q \in SUBSET out /\ Shaped(rq, out) /\ s \notin out
    /\ \A x \in out : rqN[x] = rq[x] /\ wfN[x] = wf[x] /\ s \notin wf[x]
    /\ wfN[s] = {t \in out : Conflict(rqN[s], rq[t])}
  BY DEF Made
<1>1. PICK W, E, R, F : /\ W = Of(rq, Q \cup {}, "WRITE", d, b) /\ E = Of(rq, Q \cup {}, "ERASE", d, b)
                        /\ R = Of(rq, Q, "READ", d, b) /\ F = Of(rq, Q, "ERASE", d, b)
  OBVIOUS
<1>2. RowHolds(rq, wf, W, E, R, F, row, P)
  BY <1>1, Zenon DEF RowOk
<1>3. F = {} /\ E = {}
  <2>1. row.blockedEraseReqFlag = (F # {})
    BY <1>2 DEF RowHolds
  <2> QED
    BY <1>1, <2>1
<1>4. W \in SUBSET out /\ R \in SUBSET out /\ W \in SUBSET Slot
  BY <1>1 DEF Of
<1>5. Kinds(rq, d, b, W, {}, R)
  BY <1>1, <1>3 DEF Kinds, Of, Shaped
<1>6. IsFiniteSet(W)
  BY <1>4, SubsetsAreFinite
<1>7. W \subseteq wfN[s]
  BY <1>1 DEF Of, Conflict, SameBlock
<1>8. RowHolds(rqN, wfN, W, {s}, R, F, row, 0)
  <2>1. RowHolds(rq, wf, W, {}, R, F, row, P)
    BY <1>2, <1>3, Zenon
  <2> QED
    BY <1>4, <1>5, <1>6, <1>7, <2>1, HoldsEraseMade
<1>9. /\ Of(rqN, Q \cup {s}, "WRITE", d, b) = W
      /\ Of(rqN, Q \cup {s}, "ERASE", d, b) = {s}
      /\ Of(rqN, Q, "READ", d, b) = R /\ Of(rqN, Q, "ERASE", d, b) = F
  BY <1>1, <1>3 DEF Of
<1> QED
  BY <1>8, <1>9, Zenon DEF RowOk

-----------------------------------------------------------------------------
\* A die's queue: its requests wait for none but those before them.

NandLine(q, wf) == \A i \in 1..Len(q) : wf[q[i]] \subseteq {q[j] : j \in 1..(i - 1)}

LEMMA NandAppend ==
  ASSUME NEW q \in Seq(Slot), NEW wf, NandLine(q, wf), NEW x \in Slot, wf[x] \subseteq ToSet(q)
  PROVE  NandLine(Append(q, x), wf)
<1> SUFFICES ASSUME NEW i \in 1..Len(Append(q, x)), NEW y \in wf[Append(q, x)[i]]
             PROVE  \E j \in 1..(i - 1) : y = Append(q, x)[j]
  BY DEF NandLine
<1>1. /\ Len(Append(q, x)) = Len(q) + 1 /\ Len(q) \in Nat
      /\ \A j \in 1..Len(q) : Append(q, x)[j] = q[j]
      /\ Append(q, x)[Len(q) + 1] = x
  OBVIOUS
<1>2. CASE i = Len(q) + 1
  <2>1. y \in ToSet(q)
    BY <1>1, <1>2
  <2>2. PICK j \in 1..Len(q) : y = q[j]
    BY <2>1 DEF ToSet
  <2> QED
    BY <1>1, <1>2, <2>2
<1>3. CASE i # Len(q) + 1
  <2>1. i \in 1..Len(q)
    BY <1>1, <1>3
  <2>2. PICK j \in 1..(i - 1) : y = q[j]
    BY <1>1, <2>1 DEF NandLine
  <2>3. j \in 1..Len(q)
    BY <1>1, <2>1
  <2> QED
    BY <1>1, <2>2, <2>3
<1> QED
  BY <1>2, <1>3

LEMMA NandTail ==
  ASSUME NEW q \in Seq(Slot), q # <<>>, NEW wf, NEW wfN, NandLine(q, wf),
         \A x \in Slot : wfN[x] \subseteq wf[x] \ {Head(q)}
  PROVE  NandLine(Tail(q), wfN)
<1> SUFFICES ASSUME NEW i \in 1..Len(Tail(q)), NEW y \in wfN[Tail(q)[i]]
             PROVE  \E j \in 1..(i - 1) : y = Tail(q)[j]
  BY DEF NandLine
<1>1. /\ Len(Tail(q)) = Len(q) - 1 /\ Len(q) \in Nat /\ Head(q) = q[1]
      /\ \A j \in 1..Len(Tail(q)) : Tail(q)[j] = q[j + 1]
  OBVIOUS
<1>2. i + 1 \in 1..Len(q) /\ Tail(q)[i] = q[i + 1] /\ q[i + 1] \in Slot
  BY <1>1
<1>3. y \in wf[q[i + 1]] /\ y # q[1]
  BY <1>1, <1>2
<1>4. PICK j \in 1..((i + 1) - 1) : y = q[j]
  BY <1>2, <1>3 DEF NandLine
<1>5. j # 1
  BY <1>3, <1>4
<1>6. j - 1 \in 1..(i - 1) /\ j - 1 \in 1..Len(Tail(q)) /\ (j - 1) + 1 = j
  BY <1>1, <1>5
<1> QED
  BY <1>1, <1>4, <1>6

LEMMA NandSame ==
  ASSUME NEW q \in Seq(Slot), NEW wf, NEW wfN, NandLine(q, wf),
         \A x \in ToSet(q) : wfN[x] \subseteq wf[x]
  PROVE  NandLine(q, wfN)
<1>1. \A i \in 1..Len(q) : q[i] \in ToSet(q)
  BY DEF ToSet
<1> QED
  BY <1>1 DEF NandLine

-----------------------------------------------------------------------------
\* One request x, of the queued ones Q or in hand H, is let in or begins to
\* wait.  All the arguments are named, those with an N being the new ones.

Placed(rq, wf, out, Q, H, nand) ==
  /\ out \in SUBSET Slot /\ Q \in SUBSET out /\ H \in SUBSET out /\ Q \cap H = {}
  /\ Waits(rq, wf, out) /\ Shaped(rq, out)
  /\ \A h \in H : H = {h} /\ \A x \in Slot : h \notin wf[x]
  /\ nand \in [Die -> Seq(Slot)]
  /\ \A y \in out : y \in Q \cup H \/ rq[y].code = "DMA" \/ \E e \in Die : y \in ToSet(nand[e])
  /\ \A e \in Die : \A y \in ToSet(nand[e]) : rq[y].die = e

\* A read in hand is of a page given out, and no erase of its block waits.
ReadMay(rq, H, row, cp, x) ==
  x \in H /\ rq[x].code = "READ" => rq[x].page < cp /\ ~row.blockedEraseReqFlag

\* The row of s lets it through, and it is the head of its chain.
Passes(rq, wf, out, Q, H, nand, row, cp, d, b, s) ==
  /\ Placed(rq, wf, out, Q, H, nand)
  /\ d \in Die /\ b \in Block /\ RowOk(rq, wf, Q, H, row, cp, d, b)
  /\ s \in Q \cup H /\ rq[s].code # "DMA" /\ rq[s].die = d /\ rq[s].block = b
  /\ Lets(rq[s], row) /\ ReadMay(rq, H, row, cp, s) /\ Unshared(rq, wf, s)

LEMMA PassedWaits ==
  ASSUME NEW rq, NEW wf, NEW out, NEW Q, NEW H, NEW nand, NEW row, NEW cp, NEW d, NEW b, NEW s,
         Passes(rq, wf, out, Q, H, nand, row, cp, d, b, s)
  PROVE  wf[s] \subseteq ToSet(nand[d])
<1> /\ Placed(rq, wf, out, Q, H, nand)
    /\ d \in Die /\ b \in Block /\ RowOk(rq, wf, Q, H, row, cp, d, b)
    /\ s \in Q \cup H /\ rq[s].code # "DMA" /\ rq[s].die = d /\ rq[s].block = b
    /\ Lets(rq[s], row) /\ ReadMay(rq, H, row, cp, s) /\ Unshared(rq, wf, s)
  BY DEF Passes
<1> /\ out \in SUBSET Slot /\ Q \in SUBSET out /\ H \in SUBSET out /\ Q \cap H = {}
    /\ Waits(rq, wf, out) /\ Shaped(rq, out)
    /\ \A h \in H : H = {h} /\ \A x \in Slot : h \notin wf[x]
    /\ \A y \in out : y \in Q \cup H \/ rq[y].code = "DMA" \/ \E e \in Die : y \in ToSet(nand[e])
    /\ \A e \in Die : \A y \in ToSet(nand[e]) : rq[y].die = e
  BY DEF Placed
<1>1. PICK W, E, R, F : /\ W = Of(rq, Q \cup H, "WRITE", d, b) /\ E = Of(rq, Q \cup H, "ERASE", d, b)
                        /\ R = Of(rq, Q, "READ", d, b) /\ F = Of(rq, Q, "ERASE", d, b)
  OBVIOUS
<1>2. RowHolds(rq, wf, W, E, R, F, row, cp)
  BY <1>1, Zenon DEF RowOk
<1>3. W \in SUBSET out /\ E \in SUBSET out /\ R \in SUBSET out
      /\ Kinds(rq, d, b, W, E, R) /\ s \in out /\ R \in SUBSET Slot
  BY <1>1 DEF Of, Kinds, Shaped
<1>4. PICK pp : pp = row.permittedProgPage
  OBVIOUS
<1>5. pp \in Int /\ cp \in Int /\ BlockOrder(rq, wf, W, E, R, pp, cp) /\ IsFiniteSet(R)
  BY <1>2, <1>3, <1>4, SubsetsAreFinite DEF RowHolds, RowType
<1>6. rq[s].code \in {"READ", "WRITE", "ERASE"}
  BY <1>3 DEF Shaped
<1>7. InOrder(rq, wf, out, W, E, R, d, b, pp, cp)
  BY <1>3, <1>5, Zenon DEF InOrder
<1>8. wf[s] \cap (W \cup E \cup R) = {}
  <2>1. CASE rq[s].code = "WRITE"
    <3>1. s \in W /\ rq[s].page = pp
      BY <1>1, <1>4, <2>1 DEF Of, Lets
    <3> QED
      BY <1>7, <3>1, WriteWaitsForNone
  <2>2. CASE rq[s].code = "ERASE"
    <3>1. s \in E /\ pp = P /\ row.blockedReadReqCnt = 0
      BY <1>1, <1>3, <1>4, <2>2 DEF Of, Lets, Shaped
    <3>2. R = {}
      BY <1>2, <1>5, <3>1, FS_EmptySet DEF RowHolds
    <3>3. InOrder(rq, wf, out, W, E, R, d, b, P, cp)
      BY <1>7, <3>1
    <3> QED
      BY <3>1, <3>2, <3>3, EraseWaitsForNone
  <2>3. CASE rq[s].code = "READ" /\ s \in Q
    <3>1. s \in R /\ rq[s].page < pp
      BY <1>1, <1>4, <2>3 DEF Of, Lets
    <3> QED
      BY <1>7, <3>1, ReadWaitsForNone
  <2>4. CASE rq[s].code = "READ" /\ s \in H
    <3>1. rq[s].page < cp /\ ~row.blockedEraseReqFlag /\ rq[s].page < pp /\ H = {s}
      BY <1>4, <2>4 DEF ReadMay, Lets
    <3>2. F = {} /\ E = {}
      <4>1. row.blockedEraseReqFlag = (F # {})
        BY <1>2 DEF RowHolds
      <4>2. F = {}
        BY <3>1, <4>1
      <4> QED
        BY <1>1, <2>4, <3>1, <4>2 DEF Of
    <3>3. \A w \in W : s \notin wf[w]
      BY <1>3, <2>4
    <3>4. BlockOrder(rq, wf, W, E, R \cup {s}, pp, cp)
      <4>1. BlockOrder(rq, wf, W, {}, R, pp, cp)
        BY <1>5, <3>2
      <4>2. BlockOrder(rq, wf, W, {}, R \cup {s}, pp, cp)
        BY <1>5, <3>1, <3>3, <4>1, ReadBlocks
      <4> QED
        BY <3>2, <4>2
    <3>5. Kinds(rq, d, b, W, E, R \cup {s}) /\ R \cup {s} \in SUBSET out
      BY <1>3, <2>4 DEF Kinds, Shaped
    <3>6. wf[s] \cap (W \cup E \cup (R \cup {s})) = {}
      <4>1. PICK R2 : R2 = R \cup {s}
        OBVIOUS
      <4>2. /\ Kinds(rq, d, b, W, E, R2) /\ R2 \in SUBSET out /\ s \in R2
            /\ BlockOrder(rq, wf, W, E, R2, pp, cp)
        BY <3>4, <3>5, <4>1
      <4>3. wf[s] \cap (W \cup E \cup R2) = {}
        <5>1. InOrder(rq, wf, out, W, E, R2, d, b, pp, cp)
          BY <1>3, <1>5, <4>2, Zenon DEF InOrder
        <5> QED
          BY <3>1, <4>2, <5>1, ReadWaitsForNone
      <4> QED
        BY <4>1, <4>3
    <3> QED
      BY <3>6
  <2> QED
    BY <1>6, <2>1, <2>2, <2>3, <2>4
<1>9. ASSUME NEW y \in wf[s] PROVE y \in ToSet(nand[d])
  <2>1. y \in out /\ Conflict(rq[s], rq[y]) /\ y \notin H
    BY <1>3, <1>9 DEF Waits
  <2>2. /\ rq[y].code # "DMA" /\ rq[y].die = d /\ rq[y].block = b
    BY <1>9, <2>1 DEF Conflict, SameBlock, Unshared
  <2>3. rq[y].code \in {"READ", "WRITE", "ERASE"}
    BY <2>1, <2>2 DEF Shaped
  <2>4. y \notin Q
    <3> SUFFICES ASSUME y \in Q PROVE FALSE
      OBVIOUS
    <3>1. y \in W \cup E \cup R
      BY <1>1, <2>2, <2>3 DEF Of
    <3> QED
      BY <1>8, <1>9, <3>1
  <2>5. PICK e \in Die : y \in ToSet(nand[e])
    BY <2>1, <2>2, <2>4
  <2> QED
    BY <2>2, <2>5
<1> QED
  BY <1>9

\* The rows of all blocks and the queues of all dies.
Tabled(rq, wf, Q, H, tbl, cps) ==
  \A d \in Die, b \in Block : RowOk(rq, wf, Q, H, tbl[d][b], cps[d][b], d, b)
Lined(nand, wf) == \A d \in Die : NandLine(nand[d], wf)

Admits(rq, wf, Q, H, tbl, nand, x, QN, HN, tblN, nandN) ==
  /\ x \in Q \cup H /\ HN = H \ {x}
  /\ \/ /\ rq[x].code = "DMA"
        /\ QN \ {x} = Q \ {x} /\ tblN = tbl /\ nandN = nand
     \/ /\ rq[x].code # "DMA" /\ x \in Q
        /\ QN = Q /\ tblN = tbl /\ nandN = nand
     \/ /\ rq[x].code # "DMA" /\ x \in H
        /\ QN = Q \cup {x} /\ nandN = nand
        /\ tblN = [tbl EXCEPT ![rq[x].die][rq[x].block] = RowHeld(rq[x], @)]
     \/ /\ rq[x].code # "DMA" /\ Lets(rq[x], tbl[rq[x].die][rq[x].block]) /\ Unshared(rq, wf, x)
        /\ QN = Q \ {x}
        /\ tblN = [tbl EXCEPT ![rq[x].die][rq[x].block] = RowLet(rq[x], @, x \in Q)]
        /\ nandN = [nand EXCEPT ![rq[x].die] = Append(@, x)]

LEMMA AdmitsKeeps ==
  ASSUME NEW rq, NEW wf, NEW out, NEW Q, NEW H, NEW nand, Placed(rq, wf, out, Q, H, nand),
         NEW tbl \in [Die -> [Block -> RowType]], NEW cps,
         Tabled(rq, wf, Q, H, tbl, cps), Lined(nand, wf),
         NEW x, NEW QN, NEW HN, NEW tblN, NEW nandN,
         Admits(rq, wf, Q, H, tbl, nand, x, QN, HN, tblN, nandN),
         rq[x].code # "DMA" =>
           ReadMay(rq, H, tbl[rq[x].die][rq[x].block], cps[rq[x].die][rq[x].block], x)
  PROVE  Tabled(rq, wf, QN, HN, tblN, cps) /\ Lined(nandN, wf)
<1> /\ out \in SUBSET Slot /\ Q \in SUBSET out /\ H \in SUBSET out /\ Q \cap H = {}
    /\ Shaped(rq, out)
    /\ \A h \in H : H = {h} /\ \A y \in Slot : h \notin wf[y]
    /\ nand \in [Die -> Seq(Slot)]
  BY DEF Placed
<1>1. x \in Q \cup H /\ HN = H \ {x} /\ x \in out /\ x \in Slot
  BY DEF Admits
<1>2. PICK r, dx, bx : r = rq[x] /\ dx = r.die /\ bx = r.block
  OBVIOUS
<1>3. \A y \in Q \cup H : \A z \in Q \cup H : z \in wf[y] <=> z \in wf[y]
  OBVIOUS
\* The rows of the other blocks.
<1>4. ASSUME NEW d \in Die, NEW b \in Block, QN \ {x} = Q \ {x},
             r.code = "DMA" \/ ~(r.die = d /\ r.block = b)
      PROVE  RowOk(rq, wf, QN, HN, tbl[d][b], cps[d][b], d, b)
  <2>1. /\ Of(rq, QN \cup HN, "WRITE", d, b) = Of(rq, Q \cup H, "WRITE", d, b)
        /\ Of(rq, QN \cup HN, "ERASE", d, b) = Of(rq, Q \cup H, "ERASE", d, b)
        /\ Of(rq, QN, "READ", d, b) = Of(rq, Q, "READ", d, b)
        /\ Of(rq, QN, "ERASE", d, b) = Of(rq, Q, "ERASE", d, b)
    BY <1>1, <1>2, <1>4 DEF Of
  <2>2. RowOk(rq, wf, Q, H, tbl[d][b], cps[d][b], d, b)
    BY DEF Tabled
  <2> QED
    BY <2>1, <2>2, RowKept
<1>5. CASE r.code = "DMA"
  <2>1. QN \ {x} = Q \ {x} /\ tblN = tbl /\ nandN = nand
    BY <1>2, <1>5 DEF Admits
  <2> QED
    BY <1>4, <1>5, <2>1 DEF Tabled
<1>6. CASE r.code # "DMA"
  <2>1. dx \in Die /\ bx \in Block
    BY <1>1, <1>2, <1>6 DEF Shaped
  <2>2. RowOk(rq, wf, Q, H, tbl[dx][bx], cps[dx][bx], dx, bx)
    BY <2>1 DEF Tabled
  <2>3. CASE x \in Q /\ QN = Q /\ tblN = tbl /\ nandN = nand
    <3>1. HN = H
      BY <1>1, <2>3
    <3> QED
      BY <2>3, <3>1
  <2>4. ASSUME NEW new, QN \ {x} = Q \ {x},
               tblN = [tbl EXCEPT ![dx][bx] = new],
               RowOk(rq, wf, QN, HN, new, cps[dx][bx], dx, bx)
        PROVE  Tabled(rq, wf, QN, HN, tblN, cps)
    <3> SUFFICES ASSUME NEW d \in Die, NEW b \in Block
                 PROVE  RowOk(rq, wf, QN, HN, tblN[d][b], cps[d][b], d, b)
      BY DEF Tabled
    <3>1. CASE d = dx /\ b = bx
      <4>1. tblN[d][b] = new
        BY <2>1, <2>4, <3>1
      <4> QED
        BY <2>4, <3>1, <4>1
    <3>2. CASE ~(d = dx /\ b = bx)
      <4>1. tblN[d][b] = tbl[d][b]
        BY <2>1, <2>4, <3>2
      <4> QED
        BY <1>2, <1>4, <2>4, <3>2, <4>1
    <3> QED
      BY <3>1, <3>2
  <2>5. CASE /\ x \in H /\ QN = Q \cup {x} /\ nandN = nand
             /\ tblN = [tbl EXCEPT ![dx][bx] = RowHeld(r, @)]
    <3>1. H = {x} /\ HN = {} /\ x \notin Q /\ \A y \in Slot : x \notin wf[y]
      BY <1>1, <2>5
    <3>2. r.code = "READ" => r.page < cps[dx][bx] /\ ~tbl[dx][bx].blockedEraseReqFlag
      BY <1>2, <1>6, <2>5 DEF ReadMay
    <3>3. RowOk(rq, wf, Q \cup {x}, {}, RowHeld(r, tbl[dx][bx]), cps[dx][bx], dx, bx)
      <4>1. RowOk(rq, wf, Q, {x}, tbl[dx][bx], cps[dx][bx], dx, bx)
        BY <2>2, <3>1
      <4>2. PICK row, cp : row = tbl[dx][bx] /\ cp = cps[dx][bx]
        OBVIOUS
      <4>3. RowOk(rq, wf, Q \cup {x}, {}, RowHeld(rq[x], row), cp, dx, bx)
        BY <1>1, <1>2, <1>6, <2>1, <3>1, <3>2, <4>1, <4>2, RowHeldKeeps
      <4> QED
        BY <1>2, <4>2, <4>3
    <3>4. tblN = [tbl EXCEPT ![dx][bx] = RowHeld(r, tbl[dx][bx])]
      BY <2>1, <2>5
    <3>5. QN \ {x} = Q \ {x}
      BY <2>5
    <3>6. Tabled(rq, wf, QN, HN, tblN, cps)
      BY <2>4, <2>5, <3>1, <3>3, <3>4, <3>5
    <3> QED
      BY <2>5, <3>6
  <2>6. CASE /\ Lets(r, tbl[dx][bx]) /\ Unshared(rq, wf, x) /\ QN = Q \ {x}
             /\ tblN = [tbl EXCEPT ![dx][bx] = RowLet(r, @, x \in Q)]
             /\ nandN = [nand EXCEPT ![dx] = Append(@, x)]
    <3>1. PICK row, cp : row = tbl[dx][bx] /\ cp = cps[dx][bx]
      OBVIOUS
    <3>2. /\ RowOk(rq, wf, Q, H, row, cp, dx, bx) /\ Lets(rq[x], row)
          /\ rq[x].code # "DMA" /\ rq[x].die = dx /\ rq[x].block = bx
      <4>1. RowOk(rq, wf, Q, H, row, cp, dx, bx) /\ Lets(rq[x], row)
        BY <1>2, <2>2, <2>6, <3>1, Zenon
      <4>2. rq[x].code # "DMA" /\ rq[x].die = dx /\ rq[x].block = bx
        BY <1>2, <1>6
      <4> QED
        BY <4>1, <4>2, Zenon
    <3>3. RowOk(rq, wf, Q \ {x}, H \ {x}, RowLet(rq[x], row, x \in Q), cp, dx, bx)
      BY <1>1, <2>1, <3>2, RowLetKeeps
    <3>4. tblN = [tbl EXCEPT ![dx][bx] = RowLet(r, row, x \in Q)]
      BY <2>1, <2>6, <3>1
    <3>5. QN \ {x} = Q \ {x}
      BY <2>6
    <3>6. Tabled(rq, wf, QN, HN, tblN, cps)
      <4>1. RowOk(rq, wf, QN, HN, RowLet(r, row, x \in Q), cps[dx][bx], dx, bx)
        BY <1>1, <1>2, <2>6, <3>1, <3>3
      <4> QED
        BY <2>4, <3>4, <3>5, <4>1
    <3>7. wf[x] \subseteq ToSet(nand[dx])
      <4>1. ReadMay(rq, H, row, cp, x)
        BY <1>2, <1>6, <3>1
      <4> QED
        <5>1. Placed(rq, wf, out, Q, H, nand) /\ Unshared(rq, wf, x) /\ x \in Q \cup H
          BY <1>1, <2>6
        <5> QED
          <6>1. Passes(rq, wf, out, Q, H, nand, row, cp, dx, bx, x)
            BY <2>1, <3>2, <4>1, <5>1, Zenon DEF Passes
          <6> QED
            BY <6>1, PassedWaits, Zenon
    <3>8. NandLine(Append(nand[dx], x), wf)
      BY <1>1, <2>1, <3>7, NandAppend DEF Lined
    <3>9. Lined(nandN, wf)
      BY <2>1, <2>6, <3>8 DEF Lined
    <3> QED
      BY <3>6, <3>9
  <2> QED
    BY <1>2, <1>6, <2>3, <2>5, <2>6 DEF Admits
<1> QED
  BY <1>5, <1>6

\* A request of a block that waits for nobody is let through by its row.
LEMMA FirstIsLet ==
  ASSUME NEW rq, NEW wf, NEW out, NEW W, NEW E, NEW R, NEW d, NEW b, NEW cp, NEW row, NEW F,
         InOrder(rq, wf, out, W, E, R, d, b, row.permittedProgPage, cp),
         Shaped(rq, out), RowHolds(rq, wf, W, E, R, F, row, cp),
         NEW m \in W \cup E \cup R, wf[m] = {}
  PROVE  Lets(rq[m], row)
<1>1. PICK pp : pp = row.permittedProgPage
  OBVIOUS
<1>2. /\ out \in SUBSET Slot /\ W \in SUBSET out /\ E \in SUBSET out /\ R \in SUBSET out
      /\ Waits(rq, wf, out) /\ Kinds(rq, d, b, W, E, R)
      /\ pp \in Int /\ cp \in Int /\ BlockOrder(rq, wf, W, E, R, pp, cp)
  BY <1>1 DEF InOrder
<1>3. /\ pp \in 0..Top(E, cp) /\ cp \in 0..P
      /\ \A w \in Older(wf, W, E) : pp <= rq[w].page /\ rq[w].page < Top(E, cp)
      /\ \A p \in pp..(Top(E, cp) - 1) : \E w \in Older(wf, W, E) : rq[w].page = p
      /\ \A w, x \in W : x \in wf[w] =>
           rq[x].page < rq[w].page \/ (x \in Older(wf, W, E) /\ w \notin Older(wf, W, E))
      /\ \A e, f \in E : e = f
      /\ \A y \in R : wf[y] \cap E = {} /\ rq[y].page < Top(E, cp)
      /\ \A y \in R : \A w \in Older(wf, W, E) : rq[w].page = rq[y].page => y \notin wf[w]
  BY <1>2 DEF BlockOrder, PagesLine, WaitsLine
<1>4. P \in Int /\ Top(E, cp) \in Int /\ Older(wf, W, E) \subseteq W
  BY <1>2, Constants DEF Top, Older
<1>5. CASE m \in W
  <2>1. rq[m].code = "WRITE" /\ rq[m].page \in Int
    BY <1>2, <1>5 DEF Kinds
  <2>2. m \in Older(wf, W, E)
    <3> SUFFICES ASSUME m \notin Older(wf, W, E) PROVE FALSE
      OBVIOUS
    <3>1. PICK e \in E : m \notin wf[e]
      BY <1>5 DEF Older
    <3>2. Conflict(rq[m], rq[e]) /\ m # e
      BY <1>2, <1>5 DEF Kinds, Conflict, SameBlock
    <3> QED
      BY <1>2, <1>5, <3>1, <3>2 DEF Waits
  <2>3. rq[m].page = pp
    <3> SUFFICES ASSUME rq[m].page # pp PROVE FALSE
      OBVIOUS
    <3>1. pp < rq[m].page /\ rq[m].page < Top(E, cp)
      BY <1>2, <1>3, <2>1, <2>2
    <3>2. pp \in pp..(Top(E, cp) - 1)
      BY <1>2, <1>4, <2>1, <3>1
    <3>3. PICK w \in Older(wf, W, E) : rq[w].page = pp
      BY <1>3, <3>2
    <3>4. w \in W /\ w # m /\ Conflict(rq[m], rq[w])
      BY <1>2, <1>4, <1>5, <3>1, <3>3 DEF Kinds, Conflict, SameBlock
    <3>5. m \in wf[w]
      BY <1>2, <1>5, <3>4 DEF Waits
    <3>6. rq[m].page < rq[w].page
      BY <1>3, <1>5, <3>3, <3>4, <3>5
    <3> QED
      BY <1>2, <2>1, <3>1, <3>3, <3>6
  <2> QED
    BY <1>1, <2>1, <2>3 DEF Lets
<1>6. CASE m \in R
  <2>1. rq[m].code = "READ" /\ rq[m].page \in Int
    BY <1>2, <1>6 DEF Kinds
  <2>2. rq[m].page < pp
    <3> SUFFICES ASSUME pp <= rq[m].page PROVE FALSE
      BY <1>2, <2>1
    <3>1. rq[m].page \in pp..(Top(E, cp) - 1)
      BY <1>2, <1>3, <1>4, <1>6, <2>1
    <3>2. PICK w \in Older(wf, W, E) : rq[w].page = rq[m].page
      BY <1>3, <3>1
    <3>3. w \in W /\ w # m /\ Conflict(rq[m], rq[w])
      BY <1>2, <1>4, <1>6, <3>2 DEF Kinds, Conflict, SameBlock
    <3>4. m \in wf[w]
      BY <1>2, <1>6, <3>3 DEF Waits
    <3> QED
      BY <1>3, <1>6, <3>2, <3>4
  <2> QED
    BY <1>1, <2>1, <2>2 DEF Lets
<1>7. CASE m \in E
  <2>1. rq[m].code = "ERASE" /\ rq[m].page = P /\ Top(E, cp) = P
    BY <1>2, <1>7 DEF Kinds, Shaped, Top
  <2>2. pp = P
    <3> SUFFICES ASSUME pp # P PROVE FALSE
      OBVIOUS
    <3>1. pp \in pp..(Top(E, cp) - 1)
      BY <1>2, <1>3, <1>4, <2>1
    <3>2. PICK w \in Older(wf, W, E) : rq[w].page = pp
      BY <1>3, <3>1
    <3> QED
      BY <1>7, <3>2 DEF Older
  <2>3. R = {}
    <3> SUFFICES ASSUME NEW y \in R PROVE FALSE
      OBVIOUS
    <3>1. y # m /\ Conflict(rq[m], rq[y])
      BY <1>2, <1>7, <2>1 DEF Kinds, Conflict, SameBlock
    <3>2. m \in wf[y]
      BY <1>2, <1>7, <3>1 DEF Waits
    <3> QED
      BY <1>3, <1>7, <3>2
  <2>4. row.blockedReadReqCnt = 0
    BY <2>3, FS_EmptySet DEF RowHolds
  <2> QED
    BY <1>1, <2>1, <2>2, <2>4 DEF Lets
<1> QED
  BY <1>5, <1>6, <1>7

-----------------------------------------------------------------------------
\* The invariant of the order.

\* A read is asked for only of a page that has been given out, and that stays
\* so while it is in hand.
HandMay ==
  slot # NONE /\ req[slot].code = "READ" =>
    req[slot].page < currentPage[req[slot].die][req[slot].block]

OrderParts ==
  /\ Shaped(req, Outstanding) /\ HandMay
  /\ Tabled(req, waitsFor, Blocked, Hand, rowAddrDependencyTable, currentPage)
  /\ Lined(nandReqQ, waitsFor)

OrderInv == OrderlyInv /\ OrderParts

BlockedIs == Blocked = blockedByBufDepReqQ \cup RowBlocked
LEMMA BlockedParts == BlockedIs
BY DEF BlockedIs, Blocked, RowBlocked

LEMMA OrderTypes ==
  ASSUME OrderInv
  PROVE  /\ req \in [Slot -> ReqType] /\ waitsFor \in [Slot -> SUBSET Slot]
         /\ rowAddrDependencyTable \in [Die -> [Block -> RowType]]
         /\ currentPage \in [Die -> [Block -> 0..P]]
         /\ nandReqQ \in [Die -> Seq(Slot)] /\ nvmeDmaReqQ \in Seq(Slot)
         /\ blockedByRowAddrDepReqQ \in [Die -> Seq(Slot)]
         /\ slot \in Slot \cup {NONE} /\ NONE \notin Slot
         /\ Outstanding \in SUBSET Slot /\ Blocked \subseteq Outstanding /\ Hand \subseteq Outstanding
         /\ Blocked \cap Hand = {}
<1>1. /\ DepTypeOK /\ Apart
  BY DEF OrderInv, OrderlyInv, SlotsInv, DepInv
<1>2. Outstanding \in SUBSET Slot
  BY ChainTypes DEF OrderInv, OrderlyInv
<1>3. Blocked \subseteq LowLevel
  BY BlockedParts DEF BlockedIs, LowLevel
<1> QED
  BY <1>1, <1>2, <1>3, RequestNone DEF DepTypeOK, SlotOrNone, Outstanding, Apart

LEMMA OrderPlaced ==
  ASSUME OrderInv
  PROVE  Placed(req, waitsFor, Outstanding, Blocked, Hand, nandReqQ)
<1>1. /\ Outstanding \in SUBSET Slot /\ Blocked \subseteq Outstanding /\ Hand \subseteq Outstanding
      /\ Blocked \cap Hand = {} /\ nandReqQ \in [Die -> Seq(Slot)]
  BY OrderTypes
<1>2. Waits(req, waitsFor, Outstanding) /\ Shaped(req, Outstanding)
  BY DEF OrderInv, OrderlyInv, WaitsInv, OrderParts
<1>3. \A h \in Hand : Hand = {h} /\ \A x \in Slot : h \notin waitsFor[x]
  BY DEF OrderInv, OrderlyInv, WaitsInv, Hand
<1>4. CodesMatch /\ OnceOnTheirDies
  BY DEF OrderInv, OrderlyInv, SlotsInv
<1>5. ASSUME NEW y \in Outstanding
      PROVE  y \in Blocked \cup Hand \/ req[y].code = "DMA" \/ \E e \in Die : y \in ToSet(nandReqQ[e])
  <2>1. y \in blockedByBufDepReqQ \cup RowBlocked \cup ToSet(nvmeDmaReqQ) \cup InNand \cup Hand
    BY <1>5 DEF Outstanding, LowLevel
  <2> QED
    BY <1>4, <2>1, BlockedParts DEF BlockedIs, CodesMatch, InNand
<1>6. \A e \in Die : \A y \in ToSet(nandReqQ[e]) : req[y].die = e
  BY <1>4 DEF OnceOnTheirDies, OnTheirDies
<1> QED
  BY <1>1, <1>2, <1>3, <1>5, <1>6, Zenon DEF Placed

\* What Enter does, in the terms of Admits.
LEMMA EnterTable ==
  ASSUME blockedByRowAddrDepReqQ \in [Die -> Seq(Slot)],
         NEW t \in Slot, req[t].code # "DMA" => req[t].die \in Die /\ req[t].block \in Block,
         NEW counted \in BOOLEAN, NEW dma, NEW nand, NEW running, NEW blocked,
         Enter(t, counted, dma, nand, running, blocked)
  PROVE  \/ /\ req[t].code = "DMA" /\ rowAddrDependencyTable' = rowAddrDependencyTable
            /\ nandReqQ' = nand /\ RowBlocked' = RowBlocked
         \/ /\ req[t].code # "DMA"
            /\ Lets(req[t], rowAddrDependencyTable[req[t].die][req[t].block])
            /\ rowAddrDependencyTable' = [rowAddrDependencyTable EXCEPT
                 ![req[t].die][req[t].block] = RowLet(req[t], @, counted)]
            /\ nandReqQ' = [nand EXCEPT ![req[t].die] = Append(@, t)]
            /\ RowBlocked' = RowBlocked
         \/ /\ req[t].code # "DMA"
            /\ rowAddrDependencyTable' = IF counted THEN rowAddrDependencyTable
                 ELSE [rowAddrDependencyTable EXCEPT ![req[t].die][req[t].block] = RowHeld(req[t], @)]
            /\ nandReqQ' = nand /\ RowBlocked' = RowBlocked \cup {t}
<1>1. CASE /\ req[t].code = "DMA" /\ rowAddrDependencyTable' = rowAddrDependencyTable
           /\ nandReqQ' = nand /\ blockedByRowAddrDepReqQ' = blockedByRowAddrDepReqQ
  BY <1>1 DEF RowBlocked
<1>2. CASE /\ req[t].code # "DMA" /\ RowAddrPass(req[t]) /\ SetRow(req[t], RowAfterPass(req[t], counted))
           /\ nandReqQ' = [nand EXCEPT ![req[t].die] = Append(@, t)]
           /\ blockedByRowAddrDepReqQ' = blockedByRowAddrDepReqQ
  <2>1. RowBlocked' = RowBlocked
    BY <1>2 DEF RowBlocked
  <2>2. Lets(req[t], rowAddrDependencyTable[req[t].die][req[t].block])
    BY <1>2 DEF RowAddrPass, Row, Lets
  <2>3. rowAddrDependencyTable' = [rowAddrDependencyTable EXCEPT
          ![req[t].die][req[t].block] = RowLet(req[t], @, counted)]
    BY <1>2, Zenon DEF SetRow, RowAfterPass, Row, RowLet
  <2> QED
    BY <1>2, <2>1, <2>2, <2>3, Zenon
<1>3. CASE /\ req[t].code # "DMA" /\ nandReqQ' = nand
           /\ IF counted THEN UNCHANGED rowAddrDependencyTable ELSE SetRow(req[t], RowAfterBlock(req[t]))
           /\ blockedByRowAddrDepReqQ' = [blockedByRowAddrDepReqQ EXCEPT ![req[t].die] = Append(@, t)]
  <2>1. rowAddrDependencyTable' = IF counted THEN rowAddrDependencyTable
          ELSE [rowAddrDependencyTable EXCEPT ![req[t].die][req[t].block] = RowHeld(req[t], @)]
    <3>1. CASE counted
      BY <1>3, <3>1
    <3>2. CASE ~counted
      <4>1. SetRow(req[t], RowAfterBlock(req[t]))
        BY <1>3, <3>2
      <4>2. rowAddrDependencyTable' = [rowAddrDependencyTable EXCEPT
              ![req[t].die][req[t].block] = RowHeld(req[t], @)]
        BY <4>1, Zenon DEF SetRow, RowAfterBlock, Row, RowHeld
      <4> QED
        BY <3>2, <4>2
    <3> QED
      BY <3>1, <3>2
  <2>2. PICK d \in Die : d = req[t].die
    BY <1>3
  <2>3. /\ ToSet(blockedByRowAddrDepReqQ'[d]) = ToSet(blockedByRowAddrDepReqQ[d]) \cup {t}
        /\ \A e \in Die \ {d} : blockedByRowAddrDepReqQ'[e] = blockedByRowAddrDepReqQ[e]
    BY <1>3, <2>2, AppendSet
  <2>4. \A x : x \in RowBlocked' <=> x \in RowBlocked \/ x = t
    BY <2>2, <2>3 DEF RowBlocked
  <2>5. RowBlocked' = RowBlocked \cup {t}
    BY <2>4
  <2> QED
    BY <1>3, <2>1, <2>5, Zenon
<1> QED
  BY <1>1, <1>2, <1>3 DEF Enter

\* The head of a chain shares its buffer with none of those it waits for.
LEMMA HeadUnshared ==
  ASSUME NEW rq, NEW wf, NEW prv, NEW nxt, Linked(rq, wf, prv, nxt),
         NEW x \in Slot, prv[x] = NONE
  PROVE  Unshared(rq, wf, x)
BY DEF Linked, Ahead, Unshared

-----------------------------------------------------------------------------
\* The request in hand is put on a queue.
LEMMA SelectKeepsOrder ==
  ASSUME OrderInv, OrderlyInv', Select
  PROVE  OrderParts'
<1>1. /\ slot \in Slot /\ slot \notin LowLevel /\ slot' = NONE
      /\ LowLevel' = LowLevel \cup {slot}
  BY SelectPlaces DEF OrderInv, OrderlyInv
<1>2. PICK x : x = slot
  OBVIOUS
<1>3. /\ SelectLowLevelReqQ(x) /\ UNCHANGED <<req, prevBlockingReq, waitsFor, currentPage>>
      /\ Hand = {x} /\ Hand' = {} /\ x \notin Blocked /\ x \in Outstanding
  <2>1. Hand = {x} /\ Hand' = {}
    BY <1>1, <1>2, OrderTypes DEF Hand
  <2>2. x \notin Blocked /\ x \in Outstanding
    BY <2>1, OrderTypes
  <2> QED
    BY <1>2, <2>1, <2>2 DEF Select, SelectLowLevelReqQ, chainVars
<1>4. Outstanding' = Outstanding
  BY <1>1, <1>2, <1>3 DEF Outstanding
<1>5. Shaped(req', Outstanding') /\ HandMay'
  BY <1>1, <1>3, <1>4 DEF OrderInv, OrderParts, HandMay
<1>6. req[x].code # "DMA" => req[x].die \in Die /\ req[x].block \in Block
  BY <1>3 DEF OrderInv, OrderParts, Shaped
<1>7. Admits(req, waitsFor, Blocked, Hand, rowAddrDependencyTable, nandReqQ, x,
             Blocked', Hand', rowAddrDependencyTable', nandReqQ')
  <2>1. x \in Blocked \cup Hand /\ Hand' = Hand \ {x} /\ ~(x \in Blocked)
    BY <1>3
  <2>2. BlockedIs /\ BlockedIs'
    BY BlockedParts, PTL
  <2>3. CASE CheckBufDep(x)
    <3>1. /\ Enter(x, FALSE, nvmeDmaReqQ, nandReqQ, notCompletedNandReqCnt, blockedReqCnt)
          /\ blockedByBufDepReqQ' = blockedByBufDepReqQ /\ prevBlockingReq[x] = NONE
      BY <1>3, <2>3 DEF SelectLowLevelReqQ, CheckBufDep
    <3>2. Unshared(req, waitsFor, x)
      BY <1>1, <1>2, <3>1, HeadUnshared DEF OrderInv, OrderlyInv, ChainsInv
    <3>3. CASE /\ req[x].code = "DMA" /\ rowAddrDependencyTable' = rowAddrDependencyTable
               /\ nandReqQ' = nandReqQ /\ RowBlocked' = RowBlocked
      <4>1. Blocked' = Blocked
        BY <2>2, <3>1, <3>3 DEF BlockedIs
      <4> QED
        BY <2>1, <3>3, <4>1 DEF Admits
    <3>4. CASE /\ req[x].code # "DMA"
               /\ Lets(req[x], rowAddrDependencyTable[req[x].die][req[x].block])
               /\ rowAddrDependencyTable' = [rowAddrDependencyTable EXCEPT
                    ![req[x].die][req[x].block] = RowLet(req[x], @, FALSE)]
               /\ nandReqQ' = [nandReqQ EXCEPT ![req[x].die] = Append(@, x)]
               /\ RowBlocked' = RowBlocked
      <4>1. Blocked' = Blocked \ {x}
        BY <2>1, <2>2, <3>1, <3>4 DEF BlockedIs
      <4>2. (x \in Blocked) = FALSE
        BY <2>1
      <4>3. rowAddrDependencyTable' = [rowAddrDependencyTable EXCEPT
              ![req[x].die][req[x].block] = RowLet(req[x], @, x \in Blocked)]
        BY <3>4, <4>2, Zenon
      <4> QED
        BY <2>1, <3>2, <3>4, <4>1, <4>3, Zenon DEF Admits
    <3>5. CASE /\ req[x].code # "DMA"
               /\ rowAddrDependencyTable' = IF FALSE THEN rowAddrDependencyTable
                    ELSE [rowAddrDependencyTable EXCEPT ![req[x].die][req[x].block] = RowHeld(req[x], @)]
               /\ nandReqQ' = nandReqQ /\ RowBlocked' = RowBlocked \cup {x}
      <4>1. Blocked' = Blocked \cup {x}
        BY <2>2, <3>1, <3>5 DEF BlockedIs
      <4>2. rowAddrDependencyTable' =
              [rowAddrDependencyTable EXCEPT ![req[x].die][req[x].block] = RowHeld(req[x], @)]
        BY <3>5, Zenon
      <4> QED
        BY <1>3, <2>1, <3>5, <4>1, <4>2, Zenon DEF Admits
    <3>6. blockedByRowAddrDepReqQ \in [Die -> Seq(Slot)] /\ x \in Slot
      BY <1>1, <1>2, OrderTypes
    <3> QED
      BY <1>6, <3>1, <3>3, <3>4, <3>5, <3>6, EnterTable, Zenon
  <2>4. CASE ~CheckBufDep(x)
    <3>1. /\ blockedByBufDepReqQ' = blockedByBufDepReqQ \cup {x}
          /\ UNCHANGED <<blockedByRowAddrDepReqQ, nandReqQ>>
          /\ IF req[x].code = "DMA" THEN UNCHANGED rowAddrDependencyTable
                                    ELSE SetRow(req[x], RowAfterBlock(req[x]))
      BY <1>3, <2>4 DEF SelectLowLevelReqQ
    <3>2. Blocked' = Blocked \cup {x}
      BY <2>2, <3>1 DEF BlockedIs, RowBlocked
    <3>3. CASE req[x].code = "DMA"
      BY <2>1, <3>1, <3>2, <3>3 DEF Admits
    <3>4. CASE req[x].code # "DMA"
      <4>1. SetRow(req[x], RowAfterBlock(req[x]))
        BY <3>1, <3>4
      <4>2. rowAddrDependencyTable' =
              [rowAddrDependencyTable EXCEPT ![req[x].die][req[x].block] = RowHeld(req[x], @)]
        BY <4>1, Zenon DEF SetRow, RowAfterBlock, Row, RowHeld
      <4>3. nandReqQ' = nandReqQ /\ x \in Hand
        BY <1>3, <3>1
      <4> QED
        BY <2>1, <3>2, <3>4, <4>2, <4>3, Zenon DEF Admits
    <3> QED
      BY <3>3, <3>4
  <2> QED
    BY <2>3, <2>4
<1>8. req[x].code # "DMA" =>
        ReadMay(req, Hand, rowAddrDependencyTable[req[x].die][req[x].block],
                currentPage[req[x].die][req[x].block], x)
  <2>1. ~MustSyncErase(x)
    BY <1>3 DEF SelectLowLevelReqQ
  <2>2. HandMay /\ slot # NONE
    BY <1>1, OrderTypes DEF OrderInv, OrderParts
  <2> QED
    BY <1>2, <2>1, <2>2 DEF ReadMay, MustSyncErase, Row, HandMay
<1>9. Tabled(req, waitsFor, Blocked', Hand', rowAddrDependencyTable', currentPage)
      /\ Lined(nandReqQ', waitsFor)
  <2>1. Placed(req, waitsFor, Outstanding, Blocked, Hand, nandReqQ)
    BY OrderPlaced
  <2>2. rowAddrDependencyTable \in [Die -> [Block -> RowType]]
    BY OrderTypes
  <2>3. /\ Tabled(req, waitsFor, Blocked, Hand, rowAddrDependencyTable, currentPage)
        /\ Lined(nandReqQ, waitsFor)
    BY DEF OrderInv, OrderParts
  <2> QED
    BY <1>7, <1>8, <2>1, <2>2, <2>3, AdmitsKeeps
<1> QED
  BY <1>3, <1>5, <1>9 DEF OrderParts

\* A request is done, and the next user of its entry is let in.
LEMMA LeavesKeepsOrder ==
  ASSUME OrderInv, OrderlyInv', NEW s, NEW dma, NEW nand, NEW running,
         Leaves(s, dma, nand, running), Lined(nand, waitsFor')
  PROVE  OrderParts'
<1>1. /\ s \in LowLevel \ blockedByBufDepReqQ /\ s \in Slot /\ s # slot /\ slot' = slot
      /\ LowLevel' = LowLevel \ {s}
  BY LeavesPlaces DEF OrderInv, OrderlyInv
<1>2. /\ s \in ToSet(nvmeDmaReqQ) \cup InNand
      /\ nand \in [Die -> Seq(Slot)] /\ OnTheirDies(req, nand)
      /\ \A x : x \in Line(nand) <=> x \in InNand /\ x # s
      /\ Complete(s, dma, nand, running)
  BY DEF Leaves
<1>3. /\ Apart /\ OnceOnTheirDies /\ CodesMatch
      /\ WaitsInv' /\ ChainsInv'
      /\ Shaped(req, Outstanding) /\ HandMay
      /\ Tabled(req, waitsFor, Blocked, Hand, rowAddrDependencyTable, currentPage)
  BY DEF OrderInv, OrderlyInv, SlotsInv, OrderParts
<1>4. Hand' = Hand /\ s \notin Hand /\ Outstanding' = Outstanding \ {s} /\ s \notin Blocked
  <2>1. Hand' = Hand /\ s \notin Hand
    BY <1>1 DEF Hand
  <2>2. s \notin Blocked
    BY <1>1, <1>2, <1>3, BlockedParts DEF BlockedIs, Apart
  <2> QED
    BY <1>1, <2>1, <2>2 DEF Outstanding
<1>5. /\ \A x \in Slot \ {s} : req'[x] = req[x] /\ waitsFor'[x] = waitsFor[x] \ {s}
      /\ currentPage' = currentPage
  <2>1. /\ req' = [req EXCEPT ![s] = NoReq]
        /\ waitsFor' = [x \in Slot |-> IF x = s THEN {} ELSE waitsFor[x] \ {s}]
        /\ currentPage' = currentPage
    BY <1>2 DEF Complete, caller
  <2> QED
    BY <2>1, OrderTypes
<1>6. Blocked \subseteq Outstanding \ {s} /\ Hand \subseteq Outstanding \ {s}
      /\ Outstanding \subseteq Slot /\ Blocked \cap Hand = {}
  BY <1>4, OrderTypes
<1>7. Shaped(req', Outstanding')
  BY <1>3, <1>4, <1>5, <1>6 DEF Shaped
<1>8. HandMay'
  <2>1. slot # NONE => slot \in Slot \ {s}
    BY <1>1, OrderTypes
  <2> QED
    BY <1>1, <1>3, <1>5, <2>1 DEF HandMay
\* First the request is gone, and nothing else has changed.
<1>9. Tabled(req', waitsFor', Blocked, Hand, rowAddrDependencyTable, currentPage)
  <2> SUFFICES ASSUME NEW d \in Die, NEW b \in Block
               PROVE  RowOk(req', waitsFor', Blocked, Hand, rowAddrDependencyTable[d][b],
                            currentPage[d][b], d, b)
    BY DEF Tabled
  <2>1. RowOk(req, waitsFor, Blocked, Hand, rowAddrDependencyTable[d][b], currentPage[d][b], d, b)
    BY <1>3 DEF Tabled
  <2>2. /\ \A x \in Blocked \cup Hand : req'[x] = req[x]
        /\ \A x \in Blocked \cup Hand : \A y \in Blocked \cup Hand :
             y \in waitsFor'[x] <=> y \in waitsFor[x]
    BY <1>5, <1>6
  <2>3. /\ Of(req', Blocked \cup Hand, "WRITE", d, b) = Of(req, Blocked \cup Hand, "WRITE", d, b)
        /\ Of(req', Blocked \cup Hand, "ERASE", d, b) = Of(req, Blocked \cup Hand, "ERASE", d, b)
        /\ Of(req', Blocked, "READ", d, b) = Of(req, Blocked, "READ", d, b)
        /\ Of(req', Blocked, "ERASE", d, b) = Of(req, Blocked, "ERASE", d, b)
    BY <2>2 DEF Of
  <2> QED
    BY <2>1, <2>2, <2>3, RowKept
<1>10. Placed(req', waitsFor', Outstanding', Blocked, Hand, nand)
  <2>1. /\ Outstanding' \in SUBSET Slot /\ Blocked \in SUBSET Outstanding'
        /\ Hand \in SUBSET Outstanding' /\ Blocked \cap Hand = {}
    BY <1>4, <1>6
  <2>2. Waits(req', waitsFor', Outstanding')
    BY <1>3 DEF WaitsInv
  <2>3. \A h \in Hand : Hand = {h} /\ \A x \in Slot : h \notin waitsFor'[x]
    BY <1>1, <1>3 DEF WaitsInv, Hand
  <2>4. ASSUME NEW y \in Outstanding'
        PROVE  y \in Blocked \cup Hand \/ req'[y].code = "DMA" \/ \E e \in Die : y \in ToSet(nand[e])
    <3>1. y \in Outstanding /\ y # s /\ req'[y] = req[y]
      BY <1>4, <1>5, <1>6, <2>4
    <3>2. y \in blockedByBufDepReqQ \cup RowBlocked \cup ToSet(nvmeDmaReqQ) \cup InNand \cup Hand
      BY <3>1 DEF Outstanding, LowLevel
    <3>3. y \in InNand => \E e \in Die : y \in ToSet(nand[e])
      BY <1>2, <3>1, LineElements
    <3> QED
      BY <1>3, <3>1, <3>2, <3>3, BlockedParts DEF BlockedIs, CodesMatch
  <2>5. ASSUME NEW e \in Die, NEW y \in ToSet(nand[e]) PROVE req'[y].die = e
    <3>1. y \in Line(nand)
      BY LineElements
    <3>2. y # s /\ y \in Outstanding
      BY <1>2, <3>1 DEF Outstanding, LowLevel
    <3>3. req'[y] = req[y]
      BY <1>5, <1>6, <3>2
    <3> QED
      BY <1>2, <3>3 DEF OnTheirDies
  <2> QED
    BY <1>2, <1>7, <2>1, <2>2, <2>3, <2>4, <2>5, Zenon DEF Placed
\* Then its successor enters, if it waits.
<1>11. PICK t : t = nextBlockingReq[s]
  OBVIOUS
<1>12. BlockedIs /\ BlockedIs'
  BY BlockedParts, PTL
<1>13. Tabled(req', waitsFor', Blocked', Hand', rowAddrDependencyTable', currentPage)
       /\ Lined(nandReqQ', waitsFor')
  <2>1. CASE ~WaitsForBuf(t)
    <3>1. /\ nandReqQ' = nand
          /\ UNCHANGED <<blockedByBufDepReqQ, blockedByRowAddrDepReqQ, rowAddrDependencyTable>>
      BY <1>2, <1>11, <2>1 DEF Complete
    <3>2. Blocked' = Blocked
      BY <3>1 DEF Blocked
    <3> QED
      BY <1>4, <1>9, <3>1, <3>2
  <2>2. CASE WaitsForBuf(t)
    <3>1. /\ t # NONE /\ t \in blockedByBufDepReqQ /\ t \in Blocked /\ t \notin Hand /\ t \in Slot
          /\ t # s /\ t \in Outstanding
      <4>1. t # NONE /\ t \in blockedByBufDepReqQ
        BY <2>2 DEF WaitsForBuf
      <4>2. t \in Blocked
        BY <1>12, <4>1 DEF BlockedIs
      <4> QED
        BY <1>6, <4>1, <4>2
    <3>2. /\ blockedByBufDepReqQ' = blockedByBufDepReqQ \ {t}
          /\ Enter(t, TRUE, dma, nand, running, blockedReqCnt - 1)
          /\ prevBlockingReq' = [prevBlockingReq EXCEPT ![t] = NONE]
      BY <1>2, <1>11, <2>2, <3>1 DEF Complete
    <3>3. PICK blk : blk = blockedReqCnt - 1
      OBVIOUS
    <3>4. Enter(t, TRUE, dma, nand, running, blk)
      BY <3>2, <3>3, Zenon
    <3>5. t \notin RowBlocked /\ req'[t] = req[t]
      BY <1>3, <1>5, <3>1 DEF Apart
    <3>6. Unshared(req', waitsFor', t)
      <4>1. prevBlockingReq'[t] = NONE
        <5>1. prevBlockingReq \in [Slot -> SlotOrNone]
          BY ChainTypes DEF OrderInv, OrderlyInv
        <5> QED
          BY <3>1, <3>2, <5>1
      <4>2. Linked(req', waitsFor', prevBlockingReq', nextBlockingReq')
        BY <1>3 DEF ChainsInv
      <4> QED
        BY <3>1, <4>1, <4>2, HeadUnshared
    <3>7. t \in Blocked \cup Hand /\ Hand' = Hand \ {t} /\ t \in Blocked
      BY <1>4, <3>1
    <3>8. req[t].code # "DMA" => req[t].die \in Die /\ req[t].block \in Block
      BY <1>3, <3>1 DEF Shaped
    <3>9. Admits(req', waitsFor', Blocked, Hand, rowAddrDependencyTable, nand, t,
                 Blocked', Hand', rowAddrDependencyTable', nandReqQ')
      <4>1. CASE /\ req[t].code = "DMA" /\ rowAddrDependencyTable' = rowAddrDependencyTable
                 /\ nandReqQ' = nand /\ RowBlocked' = RowBlocked
        <5>1. Blocked' \ {t} = Blocked \ {t}
          BY <1>12, <3>2, <4>1 DEF BlockedIs
        <5> QED
          BY <3>5, <3>7, <4>1, <5>1, Zenon DEF Admits
      <4>2. CASE /\ req[t].code # "DMA"
                 /\ Lets(req[t], rowAddrDependencyTable[req[t].die][req[t].block])
                 /\ rowAddrDependencyTable' = [rowAddrDependencyTable EXCEPT
                      ![req[t].die][req[t].block] = RowLet(req[t], @, TRUE)]
                 /\ nandReqQ' = [nand EXCEPT ![req[t].die] = Append(@, t)]
                 /\ RowBlocked' = RowBlocked
        <5>1. Blocked' = Blocked \ {t}
          BY <1>12, <3>2, <3>5, <4>2 DEF BlockedIs
        <5>2. (t \in Blocked) = TRUE
          BY <3>7
        <5>3. rowAddrDependencyTable' = [rowAddrDependencyTable EXCEPT
                ![req'[t].die][req'[t].block] = RowLet(req'[t], @, t \in Blocked)]
          BY <3>5, <4>2, <5>2, Zenon
        <5> QED
          BY <3>5, <3>6, <3>7, <4>2, <5>1, <5>3, Zenon DEF Admits
      <4>3. CASE /\ req[t].code # "DMA"
                 /\ rowAddrDependencyTable' = IF TRUE THEN rowAddrDependencyTable
                      ELSE [rowAddrDependencyTable EXCEPT ![req[t].die][req[t].block] = RowHeld(req[t], @)]
                 /\ nandReqQ' = nand /\ RowBlocked' = RowBlocked \cup {t}
        <5>1. Blocked' = Blocked
          BY <1>12, <3>1, <3>2, <4>3 DEF BlockedIs
        <5>2. rowAddrDependencyTable' = rowAddrDependencyTable
          BY <4>3, Zenon
        <5> QED
          BY <3>5, <3>7, <4>3, <5>1, <5>2, Zenon DEF Admits
      <4>4. blockedByRowAddrDepReqQ \in [Die -> Seq(Slot)]
        BY OrderTypes
      <4> QED
        BY <3>1, <3>4, <3>8, <4>1, <4>2, <4>3, <4>4, EnterTable, Zenon
    <3>10. req'[t].code # "DMA" =>
             ReadMay(req', Hand, rowAddrDependencyTable[req'[t].die][req'[t].block],
                     currentPage[req'[t].die][req'[t].block], t)
      BY <3>1 DEF ReadMay
    <3>11. rowAddrDependencyTable \in [Die -> [Block -> RowType]]
      BY OrderTypes
    <3> QED
      BY <1>9, <1>10, <3>9, <3>10, <3>11, AdmitsKeeps
  <2> QED
    BY <2>1, <2>2
<1> QED
  BY <1>5, <1>7, <1>8, <1>13 DEF OrderParts

LEMMA QueueOfSlots == \A q \in Seq(Slot) : ToSet(q) \subseteq Slot
<1> SUFFICES ASSUME NEW q \in Seq(Slot), NEW x \in ToSet(q) PROVE x \in Slot
  OBVIOUS
<1>1. PICK i \in 1..Len(q) : x = q[i]
  BY LenProperties DEF ToSet
<1> QED
  BY <1>1, ElementOfSeq

LEMMA TransferKeepsOrder ==
  ASSUME OrderInv, OrderlyInv', CheckDoneNvmeDmaReq
  PROVE  OrderParts'
<1>1. PICK s, dma : Leaves(s, dma, nandReqQ, notCompletedNandReqCnt)
  BY TransferLeaves DEF OrderInv, OrderlyInv
<1>2. \A x \in Slot : waitsFor'[x] \subseteq waitsFor[x]
  BY <1>1, OrderTypes DEF Leaves, Complete
<1>3. Lined(nandReqQ, waitsFor')
  <2> SUFFICES ASSUME NEW d \in Die PROVE NandLine(nandReqQ[d], waitsFor')
    BY DEF Lined
  <2>1. nandReqQ[d] \in Seq(Slot) /\ NandLine(nandReqQ[d], waitsFor)
    BY OrderTypes DEF OrderInv, OrderParts, Lined
  <2>2. ToSet(nandReqQ[d]) \subseteq Slot
    BY <2>1, QueueOfSlots
  <2> QED
    BY <1>2, <2>1, <2>2, NandSame
<1> QED
  BY <1>1, <1>3, LeavesKeepsOrder

LEMMA FinishKeepsOrder ==
  ASSUME OrderInv, OrderlyInv', NEW d \in Die, FinishNandReq(d)
  PROVE  OrderParts'
<1>1. PICK s, nand :
        /\ s = nandReqQ[d][1] /\ nand[d] = Tail(nandReqQ[d]) /\ s \in ToSet(nandReqQ[d])
        /\ nandReqQ[d] # <<>> /\ \A x \in Die \ {d} : nand[x] = nandReqQ[x]
        /\ Leaves(s, nvmeDmaReqQ, nand, notCompletedNandReqCnt - 1)
  BY FinishLeaves DEF OrderInv, OrderlyInv
<1>2. PICK running : running = notCompletedNandReqCnt - 1
  OBVIOUS
<1>3. Leaves(s, nvmeDmaReqQ, nand, running)
  BY <1>1, <1>2, Zenon
<1>4. \A x \in Slot : waitsFor'[x] \subseteq waitsFor[x] \ {s}
  <2>1. waitsFor' = [x \in Slot |-> IF x = s THEN {} ELSE waitsFor[x] \ {s}]
    BY <1>3 DEF Leaves, Complete
  <2> QED
    BY <2>1
<1>5. Lined(nand, waitsFor')
  <2> SUFFICES ASSUME NEW e \in Die PROVE NandLine(nand[e], waitsFor')
    BY DEF Lined
  <2>1. nandReqQ[e] \in Seq(Slot) /\ NandLine(nandReqQ[e], waitsFor)
    BY OrderTypes DEF OrderInv, OrderParts, Lined
  <2>2. CASE e = d
    <3>1. Head(nandReqQ[e]) = s
      BY <1>1, <2>1, <2>2
    <3> QED
      BY <1>1, <1>4, <2>1, <2>2, <3>1, NandTail
  <2>3. CASE e # d
    <3>1. ToSet(nandReqQ[e]) \subseteq Slot
      BY <2>1, QueueOfSlots
    <3> QED
      BY <1>1, <1>4, <2>1, <2>3, <3>1, NandSame
  <2> QED
    BY <2>2, <2>3
<1> QED
  BY <1>3, <1>5, LeavesKeepsOrder

\* The row lets a request through that waited for it.
LEMMA ReleaseKeepsOrder ==
  ASSUME OrderInv, OrderlyInv', NEW d \in Die, ReleaseBlockedByRowAddrDepReq(d)
  PROVE  OrderParts'
<1>1. PICK s : s = blockedByRowAddrDepReqQ[d][pass.i]
  OBVIOUS
<1>2. /\ pass.at = "release" /\ pass.die = d /\ pass.i <= Len(blockedByRowAddrDepReqQ[d])
      /\ UNCHANGED <<req, prevBlockingReq, waitsFor, Idle, blockedByBufDepReqQ, nvmeDmaReqQ,
                     slot, currentPage>>
  BY DEF ReleaseBlockedByRowAddrDepReq, chainVars, caller, Idle
<1>3. /\ SlotsInv /\ SlotsInv' /\ LowIs /\ LowIs' /\ BlockedIs /\ BlockedIs'
  BY LowLevelIs, BlockedParts, PTL DEF OrderInv, OrderlyInv
<1>4. LowLevel' = LowLevel /\ Hand' = Hand /\ Outstanding' = Outstanding
  BY <1>2, <1>3 DEF LowIs, Hand, Outstanding
<1>5. Shaped(req', Outstanding') /\ HandMay'
  BY <1>2, <1>4 DEF OrderInv, OrderParts, HandMay
<1>6. /\ Tabled(req, waitsFor, Blocked, Hand, rowAddrDependencyTable, currentPage)
      /\ Lined(nandReqQ, waitsFor)
  BY DEF OrderInv, OrderParts
<1>7. CASE ~RowAddrPass(req[s])
  <2>1. UNCHANGED <<rowAddrDependencyTable, blockedByRowAddrDepReqQ, nandReqQ>>
    BY <1>1, <1>7 DEF ReleaseBlockedByRowAddrDepReq
  <2>2. Blocked' = Blocked
    BY <1>2, <2>1 DEF Blocked
  <2> QED
    BY <1>2, <1>4, <1>5, <1>6, <2>1, <2>2 DEF OrderParts
<1>8. CASE RowAddrPass(req[s])
  <2>1. /\ SetRow(req[s], RowAfterPass(req[s], TRUE))
        /\ nandReqQ' = [nandReqQ EXCEPT ![d] = Append(@, s)]
    BY <1>1, <1>8 DEF ReleaseBlockedByRowAddrDepReq
  <2>2. s \in ToSet(blockedByRowAddrDepReqQ[d])
    <3>1. blockedByRowAddrDepReqQ[d] \in Seq(Slot)
      BY OrderTypes
    <3>2. pass.i \in 1..Len(blockedByRowAddrDepReqQ[d])
      BY <1>2, <1>3 DEF SlotsInv, DepInv, WalkInQueue
    <3> QED
      BY <1>1, <3>1, <3>2, LenProperties DEF ToSet
  <2>3. /\ s \in RowBlocked /\ s \in Blocked /\ s \notin Hand /\ s \in Slot /\ s \in Outstanding
        /\ s \in LowLevel \ blockedByBufDepReqQ
    <3>1. s \in RowBlocked /\ s \in Blocked
      BY <1>3, <2>2 DEF RowBlocked, BlockedIs
    <3>2. s \notin blockedByBufDepReqQ
      BY <1>3, <3>1 DEF SlotsInv, Apart
    <3> QED
      BY <3>1, <3>2, OrderTypes DEF LowLevel
  <2>4. req[s].die = d /\ req[s].code \in {"READ", "WRITE", "ERASE"} /\ req[s].code # "DMA"
    BY <1>3, <2>2 DEF SlotsInv, OnceOnTheirDies, OnTheirDies
  <2>5. Unshared(req, waitsFor, s)
    <3>1. prevBlockingReq[s] = NONE /\ Linked(req, waitsFor, prevBlockingReq, nextBlockingReq)
      BY <2>3 DEF OrderInv, OrderlyInv, ChainsInv, HeadsRun
    <3> QED
      BY <2>3, <3>1, HeadUnshared
  <2>6. Blocked' = Blocked \ {s}
    <3>1. ToSet(nandReqQ'[d]) = ToSet(nandReqQ[d]) \cup {s}
          /\ \A e \in Die \ {d} : nandReqQ'[e] = nandReqQ[e]
      BY <2>1, <2>3, AppendSet, OrderTypes
    <3>2. \A x : x \in InNand' <=> x \in InNand \/ x = s
      BY <3>1 DEF InNand
    <3>3. \A x : x \in RowBlocked' <=> x \in RowBlocked /\ x # s
      <4>1. \A x : x \in RowBlocked' <=>
              /\ x \in LowLevel' /\ x \notin blockedByBufDepReqQ' /\ x \notin ToSet(nvmeDmaReqQ')
              /\ x \notin InNand'
        BY <1>3 DEF SlotsInv, Apart, LowLevel
      <4>2. \A x : x \in RowBlocked <=>
              /\ x \in LowLevel /\ x \notin blockedByBufDepReqQ /\ x \notin ToSet(nvmeDmaReqQ)
              /\ x \notin InNand
        BY <1>3 DEF SlotsInv, Apart, LowLevel
      <4> QED
        BY <1>2, <1>4, <3>2, <4>1, <4>2
    <3> QED
      BY <1>2, <1>3, <2>3, <3>3 DEF BlockedIs
  <2>7. Admits(req, waitsFor, Blocked, Hand, rowAddrDependencyTable, nandReqQ, s,
               Blocked', Hand', rowAddrDependencyTable', nandReqQ')
    <3>1. Lets(req[s], rowAddrDependencyTable[req[s].die][req[s].block])
      BY <1>8 DEF RowAddrPass, Row, Lets
    <3>2. rowAddrDependencyTable' = [rowAddrDependencyTable EXCEPT
            ![req[s].die][req[s].block] = RowLet(req[s], @, TRUE)]
      BY <2>1, Zenon DEF SetRow, RowAfterPass, Row, RowLet
    <3>3. (s \in Blocked) = TRUE
      BY <2>3
    <3>4. rowAddrDependencyTable' = [rowAddrDependencyTable EXCEPT
            ![req[s].die][req[s].block] = RowLet(req[s], @, s \in Blocked)]
      BY <3>2, <3>3, Zenon
    <3>5. s \in Blocked \cup Hand /\ Hand' = Hand \ {s}
      BY <1>4, <2>3
    <3>6. nandReqQ' = [nandReqQ EXCEPT ![req[s].die] = Append(@, s)]
      BY <2>1, <2>4
    <3> QED
      BY <2>4, <2>5, <2>6, <3>1, <3>4, <3>5, <3>6, Zenon DEF Admits
  <2>8. req[s].code # "DMA" =>
          ReadMay(req, Hand, rowAddrDependencyTable[req[s].die][req[s].block],
                  currentPage[req[s].die][req[s].block], s)
    BY <2>3 DEF ReadMay
  <2>9. Tabled(req, waitsFor, Blocked', Hand', rowAddrDependencyTable', currentPage)
        /\ Lined(nandReqQ', waitsFor)
    <3>1. Placed(req, waitsFor, Outstanding, Blocked, Hand, nandReqQ)
      BY OrderPlaced
    <3>2. rowAddrDependencyTable \in [Die -> [Block -> RowType]]
      BY OrderTypes
    <3> QED
      BY <1>6, <2>7, <2>8, <3>1, <3>2, AdmitsKeeps
  <2> QED
    BY <1>2, <1>5, <2>9 DEF OrderParts
<1> QED
  BY <1>7, <1>8

\* A request is made.
LEMMA RequestKeepsOrder ==
  ASSUME OrderInv, OrderlyInv', NEW s \in Slot, NEW r \in Requests, Makes(s, r)
  PROVE  OrderParts'
<1>1. /\ slot = NONE /\ s \in Idle /\ Legal(r)
      /\ currentPage' = PagesAfter(r) /\ slot' = s
      /\ req' = [req EXCEPT ![s] = r]
      /\ waitsFor' = [waitsFor EXCEPT ![s] =
           {t \in Slot \ {s} : req[t].code # "NONE" /\ Conflict(r, req[t])}]
      /\ UNCHANGED <<rowAddrDependencyTable, lowQueues>>
  BY Zenon DEF Makes, MakeRequest
<1>2. UNCHANGED <<blockedByBufDepReqQ, blockedByRowAddrDepReqQ, nvmeDmaReqQ, nandReqQ>>
  BY <1>1 DEF lowQueues
<1>3. /\ SlotsInv /\ Apart /\ s \notin Outstanding
      /\ \A x \in Slot : x \in Outstanding <=> req[x].code # "NONE"
      /\ Waits(req, waitsFor, Outstanding)
  <2>1. SlotsInv /\ Apart /\ Waits(req, waitsFor, Outstanding)
    BY DEF OrderInv, OrderlyInv, SlotsInv, WaitsInv
  <2>2. \A x \in Slot : x \in Outstanding <=> req[x].code # "NONE"
    BY <2>1, ChainTypes
  <2> QED
    BY <1>1, <2>1, <2>2 DEF Apart
<1>4. /\ Hand = {} /\ Hand' = {s} /\ Blocked' = Blocked /\ Outstanding' = Outstanding \cup {s}
  <2>1. Hand = {} /\ Hand' = {s}
    BY <1>1, OrderTypes DEF Hand
  <2>2. Blocked' = Blocked /\ LowLevel' = LowLevel
    BY <1>2 DEF Blocked, LowLevel, RowBlocked, InNand
  <2> QED
    BY <2>1, <2>2 DEF Outstanding
<1>5. /\ Outstanding \in SUBSET Slot /\ Blocked \in SUBSET Outstanding
  BY OrderTypes
<1>6. /\ req'[s] = r
      /\ \A x \in Outstanding : req'[x] = req[x] /\ waitsFor'[x] = waitsFor[x] /\ s \notin waitsFor[x]
      /\ waitsFor'[s] = {t \in Outstanding : Conflict(r, req[t])}
  <2>1. req'[s] = r /\ \A x \in Slot \ {s} : req'[x] = req[x] /\ waitsFor'[x] = waitsFor[x]
    BY <1>1, OrderTypes
  <2>2. waitsFor'[s] = {t \in Outstanding : Conflict(r, req[t])}
    BY <1>1, <1>3, <1>5, OrderTypes
  <2>3. \A x \in Outstanding : s \notin waitsFor[x]
    BY <1>3, <1>5 DEF Waits
  <2> QED
    BY <1>3, <1>5, <2>1, <2>2, <2>3
<1>7. /\ r \in ReqType
      /\ \/ r.code = "DMA" /\ r.entry \in Buf
         \/ r.code \in {"READ", "WRITE"} /\ r.entry \in Entry /\ r.page \in 0..(P - 1)
         \/ r.code = "ERASE" /\ r.entry = NONE /\ r.page = P
  BY RequestShapes
<1>8. r.die \in Die /\ r.block \in Block
  BY <1>7 DEF ReqType
<1>9. Shaped(req, Outstanding)
  BY DEF OrderInv, OrderParts
<1>10. Shaped(req', Outstanding')
  BY <1>4, <1>6, <1>7, <1>8, <1>9 DEF Shaped
<1>11. currentPage \in [Die -> [Block -> 0..P]]
  BY OrderTypes
<1>12. HandMay'
  <2> SUFFICES ASSUME r.code = "READ" PROVE r.page < currentPage'[r.die][r.block]
    BY <1>1, <1>6 DEF HandMay
  <2>1. currentPage' = currentPage /\ r.page < currentPage[r.die][r.block]
    BY <1>1 DEF PagesAfter, Legal
  <2> QED
    BY <2>1
<1>13. Lined(nandReqQ', waitsFor')
  <2> SUFFICES ASSUME NEW d \in Die PROVE NandLine(nandReqQ[d], waitsFor')
    BY <1>2 DEF Lined
  <2>1. nandReqQ[d] \in Seq(Slot) /\ NandLine(nandReqQ[d], waitsFor)
    BY OrderTypes DEF OrderInv, OrderParts, Lined
  <2>2. ToSet(nandReqQ[d]) \subseteq Outstanding
    BY DEF Outstanding, LowLevel, InNand
  <2>3. \A x \in ToSet(nandReqQ[d]) : waitsFor'[x] \subseteq waitsFor[x]
    BY <1>6, <2>2
  <2> QED
    BY <2>1, <2>3, NandSame
<1>14. Made(req, waitsFor, req', waitsFor', Outstanding, Blocked, s)
  <2>1. waitsFor'[s] = {t \in Outstanding : Conflict(req'[s], req[t])}
    BY <1>6
  <2> QED
    BY <1>3, <1>5, <1>6, <1>9, <2>1, Zenon DEF Made
<1>15. ASSUME NEW d \in Die, NEW b \in Block
       PROVE  RowOk(req', waitsFor', Blocked, {s}, rowAddrDependencyTable[d][b], currentPage'[d][b], d, b)
  <2>1. PICK row, cp : row = rowAddrDependencyTable[d][b] /\ cp = currentPage[d][b]
    OBVIOUS
  <2>2. RowOk(req, waitsFor, Blocked, {}, row, cp, d, b)
    BY <1>4, <2>1 DEF OrderInv, OrderParts, Tabled
  <2>3. CASE ~(r.code \in {"WRITE", "ERASE"} /\ r.die = d /\ r.block = b)
    <3>1. currentPage'[d][b] = cp
      BY <1>1, <1>8, <1>11, <2>1, <2>3 DEF PagesAfter
    <3>2. RowOk(req', waitsFor', Blocked, {s}, row, cp, d, b)
      BY <1>3, <1>5, <1>6, <2>2, <2>3, RowMadeElsewhere
    <3> QED
      BY <2>1, <3>1, <3>2
  <2>4. CASE r.code = "WRITE" /\ r.die = d /\ r.block = b
    <3>1. currentPage'[d][b] = cp + 1
      BY <1>1, <1>11, <2>1, <2>4 DEF PagesAfter
    <3>2. r.page = cp /\ cp < P /\ ~PageWaits(r)
      BY <1>1, <2>1, <2>4 DEF Legal
    <3>3. \A x \in Of(req, Blocked, "WRITE", d, b) : req[x].page # cp
      BY <2>4, <3>2 DEF Of, PageWaits, SameBlock
    <3>5. RowOk(req', waitsFor', Blocked, {s}, row, cp + 1, d, b)
      <4>1. req'[s].code = "WRITE" /\ req'[s].die = d /\ req'[s].block = b /\ req'[s].page = cp
        BY <1>6, <2>4, <3>2
      <4>2. cp < P
        BY <3>2
      <4> QED
        BY <1>14, <2>2, <3>3, <4>1, <4>2, RowWriteMade, Zenon
    <3> QED
      BY <2>1, <3>1, <3>5
  <2>5. CASE r.code = "ERASE" /\ r.die = d /\ r.block = b
    <3>1. currentPage'[d][b] = 0
      BY <1>1, <1>11, <2>1, <2>5 DEF PagesAfter
    <3>2. cp = P /\ ~row.blockedEraseReqFlag
      BY <1>1, <2>1, <2>5 DEF Legal, Row
    <3>3. RowOk(req, waitsFor, Blocked, {}, row, P, d, b)
      BY <2>2, <3>2
    <3>5. RowOk(req', waitsFor', Blocked, {s}, row, 0, d, b)
      <4>1. req'[s].code = "ERASE" /\ req'[s].die = d /\ req'[s].block = b
        BY <1>6, <2>5
      <4> QED
        BY <1>14, <3>2, <3>3, <4>1, RowEraseMade, Zenon
    <3> QED
      BY <2>1, <3>1, <3>5
  <2> QED
    BY <2>3, <2>4, <2>5
<1>16. Tabled(req', waitsFor', Blocked', Hand', rowAddrDependencyTable', currentPage')
  BY <1>1, <1>4, <1>15 DEF Tabled
<1> QED
  BY <1>10, <1>12, <1>13, <1>16 DEF OrderParts

\* A step that moves no request.
LEMMA OthersKeepOrder ==
  ASSUME OrderInv, UNCHANGED <<req, waitsFor, slot, currentPage, rowAddrDependencyTable, nandReqQ>>,
         Outstanding' = Outstanding, Blocked' = Blocked
  PROVE  OrderParts'
<1>1. Hand' = Hand
  BY DEF Hand
<1> QED
  BY <1>1 DEF OrderInv, OrderParts, HandMay, Tabled, Lined

LEMMA StepKeepsOrder == ASSUME OrderInv, AnyStep PROVE OrderInv'
<1>1. OrderlyInv'
  BY StepKeepsChains DEF OrderInv
<1>2. CASE UNCHANGED slotVars /\ UNCHANGED <<waitsFor, currentPage, rowAddrDependencyTable>>
  <2>1. /\ UNCHANGED <<req, waitsFor, slot, currentPage, rowAddrDependencyTable, nandReqQ>>
        /\ Outstanding' = Outstanding /\ Blocked' = Blocked
    BY <1>2 DEF slotVars, lowQueues, Outstanding, Hand, LowLevel, RowBlocked, InNand, Blocked
  <2> QED
    BY <1>1, <2>1, OthersKeepOrder DEF OrderInv
<1>3. ASSUME NEW s \in Slot, NEW r \in Requests, Makes(s, r) PROVE OrderInv'
  BY <1>1, <1>3, RequestKeepsOrder DEF OrderInv
<1>4. CASE Select
  BY <1>1, <1>4, SelectKeepsOrder DEF OrderInv
<1>5. CASE TakesSlots
  BY <1>2, <1>5 DEF TakesSlots, slotVars, tables, caller
<1>6. CASE StartPass
  BY <1>2, <1>6 DEF StartPass, slotVars, tables, caller
<1>7. CASE PassStep
  <2>1. CASE CheckDoneNvmeDmaReq
    BY <1>1, <2>1, TransferKeepsOrder DEF OrderInv
  <2>2. CASE CheckDoneEnds
    BY <1>2, <2>2 DEF CheckDoneEnds, slotVars, tables, caller
  <2>3. ASSUME NEW d \in Die, FinishNandReq(d) PROVE OrderInv'
    BY <1>1, <2>3, FinishKeepsOrder DEF OrderInv
  <2>4. ASSUME NEW d \in Die, ReleaseBlockedByRowAddrDepReq(d) PROVE OrderInv'
    BY <1>1, <2>4, ReleaseKeepsOrder DEF OrderInv
  <2>5. ASSUME NEW d \in Die, DieIdle(d) \/ ReleaseEnds(d) \/ IssueNandReq(d) \/ LeaveDie(d)
        PROVE  OrderInv'
    BY <1>2, <2>5 DEF DieIdle, ReleaseEnds, IssueNandReq, LeaveDie, slotVars, tables, caller
  <2> QED
    BY <1>7, <2>1, <2>2, <2>3, <2>4, <2>5 DEF PassStep
<1> QED
  BY <1>3, <1>4, <1>5, <1>6, <1>7 DEF AnyStep

LEMMA OrderStutter == ASSUME OrderInv, UNCHANGED depVars PROVE OrderInv'
<1>1. TakesSlots
  BY DEF TakesSlots, depVars, OrderInv, OrderlyInv, SlotsInv, DepInv, DepTypeOK
<1> QED
  BY <1>1, StepKeepsOrder DEF AnyStep

LEMMA InitOrder == DepInit => OrderInv
<1> SUFFICES ASSUME DepInit PROVE OrderInv
  OBVIOUS
<1>1. OrderlyInv
  BY InitChains
<1>2. /\ Idle = Slot /\ slot = NONE /\ blockedByBufDepReqQ = {}
      /\ blockedByRowAddrDepReqQ = [d \in Die |-> <<>>] /\ nandReqQ = [d \in Die |-> <<>>]
      /\ rowAddrDependencyTable = [d \in Die |-> [b \in Block |->
           [permittedProgPage |-> 0, blockedReadReqCnt |-> 0, blockedEraseReqFlag |-> FALSE]]]
      /\ currentPage = [d \in Die |-> [b \in Block |-> 0]]
  BY DEF DepInit, Idle, NoReq
<1>3. Outstanding = {}
  <2>1. Apart /\ Outstanding \in SUBSET Slot
    BY <1>1, ChainTypes DEF OrderlyInv, SlotsInv
  <2> QED
    BY <1>2, <2>1 DEF Apart
<1>4. Blocked = {} /\ Hand = {}
  BY <1>2, <1>3, BlockedParts DEF BlockedIs, Outstanding, LowLevel
<1>5. Shaped(req, Outstanding) /\ HandMay
  BY <1>2, <1>3 DEF Shaped, HandMay
<1>6. Tabled(req, waitsFor, Blocked, Hand, rowAddrDependencyTable, currentPage)
  <2> SUFFICES ASSUME NEW d \in Die, NEW b \in Block
               PROVE  RowOk(req, waitsFor, {}, {}, rowAddrDependencyTable[d][b], currentPage[d][b], d, b)
    BY <1>4 DEF Tabled
  <2>1. PICK row : row = rowAddrDependencyTable[d][b]
    OBVIOUS
  <2>2. /\ row = [permittedProgPage |-> 0, blockedReadReqCnt |-> 0, blockedEraseReqFlag |-> FALSE]
        /\ currentPage[d][b] = 0
    BY <1>2, <2>1
  <2>3. \A c : Of(req, {}, c, d, b) = {}
    BY DEF Of
  <2>4. P \in Int /\ 0 <= P /\ Cardinality({}) = 0
    BY Constants, FS_EmptySet
  <2>5. BlockOrder(req, waitsFor, {}, {}, {}, 0, 0)
    BY <2>4 DEF BlockOrder, PagesLine, WaitsLine, Older, Top
  <2>6. RowHolds(req, waitsFor, {}, {}, {}, {}, row, 0)
    <3>1. row \in RowType /\ 0 \in Int
      BY <2>2 DEF RowType
    <3>2. /\ row.permittedProgPage = 0 /\ row.blockedReadReqCnt = 0
          /\ row.blockedEraseReqFlag = FALSE
      BY <2>2
    <3>3. row.blockedEraseReqFlag = ({} # {})
      BY <3>2, Zenon
    <3>4. PICK k : k = IF {} = {} THEN 0 ELSE P
      OBVIOUS
    <3>5. row.permittedProgPage = 0 + (IF {} = {} THEN 0 ELSE P) - Cardinality({})
      <4>1. k = 0
        BY <3>4
      <4>2. 0 = 0 + k - 0
        BY <4>1
      <4> QED
        BY <2>4, <3>2, <3>4, <4>2, Zenon
    <3>6. BlockOrder(req, waitsFor, {}, {}, {}, row.permittedProgPage, 0)
      BY <2>5, <3>2, Zenon
    <3>7. row.blockedReadReqCnt = Cardinality({})
      BY <2>4, <3>2, Zenon
    <3> QED
      BY <3>1, <3>3, <3>5, <3>6, <3>7, Zenon DEF RowHolds
  <2>7. {} \cup {} = {}
    OBVIOUS
  <2> QED
    BY <2>1, <2>2, <2>3, <2>6, <2>7, Zenon DEF RowOk
<1>7. Lined(nandReqQ, waitsFor)
  BY <1>2 DEF Lined, NandLine
<1> QED
  BY <1>1, <1>5, <1>6, <1>7 DEF OrderInv, OrderParts

-----------------------------------------------------------------------------
\* What the invariant means.

LEMMA RowsOf ==
  ASSUME OrderInv, NEW d \in Die, NEW b \in Block
  PROVE  /\ BlockedFor(d, b, "READ") = Of(req, Blocked, "READ", d, b)
         /\ BlockedFor(d, b, "ERASE") = Of(req, Blocked, "ERASE", d, b)
         /\ Unwritten(d, b) = Of(req, Blocked \cup Hand, "WRITE", d, b)
         /\ RowHolds(req, waitsFor, Unwritten(d, b), Of(req, Blocked \cup Hand, "ERASE", d, b),
                     BlockedFor(d, b, "READ"), BlockedFor(d, b, "ERASE"),
                     rowAddrDependencyTable[d][b], currentPage[d][b])
<1>1. /\ BlockedFor(d, b, "READ") = Of(req, Blocked, "READ", d, b)
      /\ BlockedFor(d, b, "ERASE") = Of(req, Blocked, "ERASE", d, b)
      /\ Unwritten(d, b) = Of(req, Blocked \cup Hand, "WRITE", d, b)
  BY DEF BlockedFor, Unwritten, Of
<1>2. RowOk(req, waitsFor, Blocked, Hand, rowAddrDependencyTable[d][b], currentPage[d][b], d, b)
  BY DEF OrderInv, OrderParts, Tabled
<1> QED
  BY <1>1, <1>2, Zenon DEF RowOk

LEMMA OrderInvTable == OrderInv => RowTableExact
<1> SUFFICES ASSUME OrderInv, NEW d \in Die, NEW b \in Block
             PROVE  LET row == rowAddrDependencyTable[d][b]
                        erasing == slot # NONE /\ req[slot].code = "ERASE"
                                   /\ req[slot].die = d /\ req[slot].block = b
                    IN  /\ row.blockedReadReqCnt = Cardinality(BlockedFor(d, b, "READ"))
                        /\ row.blockedEraseReqFlag = (BlockedFor(d, b, "ERASE") # {})
                        /\ row.permittedProgPage =
                             currentPage[d][b] + (IF row.blockedEraseReqFlag \/ erasing THEN P ELSE 0)
                             - Cardinality(Unwritten(d, b))
  BY DEF RowTableExact
<1> DEFINE row == rowAddrDependencyTable[d][b]
           erasing == slot # NONE /\ req[slot].code = "ERASE"
                      /\ req[slot].die = d /\ req[slot].block = b
<1>1. PICK E : E = Of(req, Blocked \cup Hand, "ERASE", d, b)
  OBVIOUS
<1>2. /\ BlockedFor(d, b, "ERASE") = Of(req, Blocked, "ERASE", d, b)
      /\ RowHolds(req, waitsFor, Unwritten(d, b), E, BlockedFor(d, b, "READ"),
                  BlockedFor(d, b, "ERASE"), row, currentPage[d][b])
  BY <1>1, RowsOf
<1>3. /\ row.blockedReadReqCnt = Cardinality(BlockedFor(d, b, "READ"))
      /\ row.blockedEraseReqFlag = (BlockedFor(d, b, "ERASE") # {})
      /\ row.permittedProgPage = currentPage[d][b] + (IF E = {} THEN 0 ELSE P)
                                 - Cardinality(Unwritten(d, b))
  BY <1>2 DEF RowHolds
<1>4. (row.blockedEraseReqFlag \/ erasing) <=> E # {}
  BY <1>1, <1>2, <1>3 DEF Of, Hand
<1>5. (IF E = {} THEN 0 ELSE P) = (IF row.blockedEraseReqFlag \/ erasing THEN P ELSE 0)
  BY <1>4
<1> QED
  BY <1>3, <1>5, Zenon

LEMMA OrderInvOrder == OrderInv => OrderKept
<1> SUFFICES ASSUME OrderInv PROVE OrderKept
  OBVIOUS
<1>1. ASSUME NEW s \in ToSet(nvmeDmaReqQ), NEW y \in waitsFor[s] PROVE FALSE
  <2>1. /\ Apart /\ CodesMatch /\ HeadsRun /\ Waits(req, waitsFor, Outstanding)
        /\ Linked(req, waitsFor, prevBlockingReq, nextBlockingReq)
    BY DEF OrderInv, OrderlyInv, SlotsInv, ChainsInv, WaitsInv
  <2>2. /\ s \in LowLevel \ blockedByBufDepReqQ /\ req[s].code = "DMA" /\ s \in Slot
    BY <2>1, OrderTypes DEF Apart, CodesMatch, LowLevel, Outstanding
  <2>3. prevBlockingReq[s] = NONE
    BY <2>1, <2>2 DEF HeadsRun
  <2>4. Ahead(req, waitsFor, s) = {}
    BY <2>1, <2>2, <2>3 DEF Linked
  <2>5. Conflict(req[s], req[y])
    BY <2>1, <2>2, <1>1 DEF Waits
  <2> QED
    BY <1>1, <2>2, <2>4, <2>5 DEF Conflict, SameBlock, Ahead
<1>2. \A d \in Die : \A i \in 1..Len(nandReqQ[d]) :
        waitsFor[nandReqQ[d][i]] \subseteq {nandReqQ[d][j] : j \in 1..(i - 1)}
  BY DEF OrderInv, OrderParts, Lined, NandLine
<1> QED
  BY <1>1, <1>2 DEF OrderKept

LEMMA OrderInvRuns == OrderInv => NeverStuck
<1> SUFFICES ASSUME OrderInv, Blocked # {}, nvmeDmaReqQ = <<>>, InNand = {},
                    \A s \in RowBlocked : ~RowAddrPass(req[s])
             PROVE  FALSE
  BY DEF NeverStuck, SomethingCanRun
<1>1. /\ Waits(req, waitsFor, Outstanding) /\ SomeoneFirst(waitsFor)
      /\ slot # NONE => \A x \in Slot : slot \notin waitsFor[x]
      /\ Linked(req, waitsFor, prevBlockingReq, nextBlockingReq) /\ HeadsRun
      /\ OnceOnTheirDies /\ Shaped(req, Outstanding)
  BY DEF OrderInv, OrderlyInv, SlotsInv, WaitsInv, ChainsInv, OrderParts
<1>2. /\ Outstanding \in SUBSET Slot /\ Blocked \subseteq Outstanding /\ Blocked \in SUBSET Slot
  BY OrderTypes
<1>3. PICK m \in Blocked : waitsFor[m] \cap Blocked = {}
  BY <1>1, <1>2 DEF SomeoneFirst
<1>4. waitsFor[m] = {}
  <2> SUFFICES ASSUME NEW y \in waitsFor[m] PROVE FALSE
    OBVIOUS
  <2>1. y \in Outstanding
    BY <1>1, <1>2 DEF Waits
  <2>2. ToSet(nvmeDmaReqQ) = {}
    BY DEF ToSet
  <2>3. y \in Blocked \/ y \in Hand
    BY <2>1, <2>2, BlockedParts DEF BlockedIs, Outstanding, LowLevel
  <2> QED
    BY <1>1, <1>2, <1>3, <2>3 DEF Hand
<1>5. m \in RowBlocked
  <2> SUFFICES ASSUME m \in blockedByBufDepReqQ PROVE FALSE
    BY <1>3, BlockedParts DEF BlockedIs
  <2>1. prevBlockingReq[m] # NONE
    BY <1>1 DEF HeadsRun
  <2>2. PICK u \in Slot : prevBlockingReq[m] = u
    BY <1>2, <2>1, ChainTypes DEF OrderInv, OrderlyInv, SlotOrNone
  <2> QED
    BY <1>1, <1>2, <1>4, <2>2 DEF Linked, Ahead
<1>6. PICK d \in Die, b \in Block : /\ req[m].die = d /\ req[m].block = b
                                    /\ req[m].code \in {"READ", "WRITE", "ERASE"}
  <2>1. req[m].code \in {"READ", "WRITE", "ERASE"}
    BY <1>1, <1>5 DEF RowBlocked, OnceOnTheirDies, OnTheirDies
  <2>2. req[m].die \in Die /\ req[m].block \in Block
    BY <1>1, <1>2, <2>1 DEF Shaped
  <2> QED
    BY <2>1, <2>2
<1>7. PICK W, E, R, F : /\ W = Of(req, Blocked \cup Hand, "WRITE", d, b)
                        /\ E = Of(req, Blocked \cup Hand, "ERASE", d, b)
                        /\ R = Of(req, Blocked, "READ", d, b) /\ F = Of(req, Blocked, "ERASE", d, b)
  OBVIOUS
<1>8. PICK row, cp : row = rowAddrDependencyTable[d][b] /\ cp = currentPage[d][b]
  OBVIOUS
<1>9. RowHolds(req, waitsFor, W, E, R, F, row, cp)
  <2>1. RowOk(req, waitsFor, Blocked, Hand, rowAddrDependencyTable[d][b], currentPage[d][b], d, b)
    BY DEF OrderInv, OrderParts, Tabled
  <2> QED
    BY <1>7, <1>8, <2>1, Zenon DEF RowOk
<1>10. InOrder(req, waitsFor, Outstanding, W, E, R, d, b, row.permittedProgPage, cp)
  <2>1. W \in SUBSET Outstanding /\ E \in SUBSET Outstanding /\ R \in SUBSET Outstanding
    BY <1>7, OrderTypes DEF Of
  <2>2. Kinds(req, d, b, W, E, R)
    BY <1>1, <1>7, <2>1 DEF Kinds, Of, Shaped
  <2>3. row.permittedProgPage \in Int /\ cp \in Int
        /\ BlockOrder(req, waitsFor, W, E, R, row.permittedProgPage, cp)
    BY <1>9 DEF RowHolds, RowType
  <2> QED
    BY <1>1, <1>2, <2>1, <2>2, <2>3, Zenon DEF InOrder
<1>11. m \in W \cup E \cup R
  BY <1>3, <1>6, <1>7 DEF Of
<1>12. Lets(req[m], row)
  BY <1>1, <1>4, <1>9, <1>10, <1>11, FirstIsLet, Zenon
<1> QED
  BY <1>5, <1>6, <1>8, <1>12 DEF Lets, RowAddrPass, Row

\* The row-address table is exact in every state: CheckRowAddrDep decides on a
\* count, a flag and a page that are what its bookkeeping in the three places
\* that change them (SelectLowLevelReqQ, ReleaseBlockedByRowAddrDepReq,
\* ReleaseBlockedByBufDepReq) is meant to make them.
THEOREM RowTableAlwaysExact == DepSpec => []RowTableExact
<1>1. DepInit => OrderInv
  BY InitOrder
<1>2. OrderInv /\ [AnyStep]_depVars => OrderInv'
  BY StepKeepsOrder, OrderStutter
<1>3. OrderInv => RowTableExact
  BY OrderInvTable
<1> QED
  BY <1>1, <1>2, <1>3, StepsAreAny, PTL DEF DepSpec

\* No request overtakes one it conflicts with: a request on a die's queue
\* waits for none but requests before it there, a transfer for none.
THEOREM OrderAlwaysKept == DepSpec => []OrderKept
<1>1. DepInit => OrderInv
  BY InitOrder
<1>2. OrderInv /\ [AnyStep]_depVars => OrderInv'
  BY StepKeepsOrder, OrderStutter
<1>3. OrderInv => OrderKept
  BY OrderInvOrder
<1> QED
  BY <1>1, <1>2, <1>3, StepsAreAny, PTL DEF DepSpec

\* The two kinds of waiting never block each other: while requests wait,
\* something can run.
THEOREM NeverAllWait == DepSpec => []NeverStuck
<1>1. DepInit => OrderInv
  BY InitOrder
<1>2. OrderInv /\ [AnyStep]_depVars => OrderInv'
  BY StepKeepsOrder, OrderStutter
<1>3. OrderInv => NeverStuck
  BY OrderInvRuns
<1> QED
  BY <1>1, <1>2, <1>3, StepsAreAny, PTL DEF DepSpec
=============================================================================
