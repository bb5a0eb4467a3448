---------------------------- MODULE RequestFlow_proofs ----------------------------
(***************************************************************************)
(* For any number of dies, blocks and pages, and any pool of at most twice *)
(* as many slots as a block has pages: the thread keeps to the rules of    *)
(* RequestDep, and waits for what never comes only when it holds every     *)
(* slot itself.                                                            *)
(*                                                                         *)
(* It must be shown that no block has a whole life of writes waiting when  *)
(* it is written or erased anew.  Behind every write there is the next     *)
(* user of its buffer: for a write-back, the read or the transfer of the   *)
(* slice that took the entry; for a copy, the read of the next page to be  *)
(* copied.  So P writes that wait come with as many other requests, and    *)
(* with the erase between the two lives and the slots in the thread's hand *)
(* they are more than the pool has.                                        *)
(***************************************************************************)
EXTENDS RequestFlow, RequestDep_proofs

\* Where the thread is, or goes once the request in hand is selected.
Place == IF pc = "select" THEN then ELSE pc

Evicting == {"find", "refind", "gc", "gcWrite"}
Collecting == {"gc", "gcWrite"}

FlowTyped ==
  /\ pc \in PcValues /\ then \in PcValues
  /\ left \in 0..MaxSlices
  /\ sliceReqQ \in Seq(Slot)
  /\ slice \in SlotOrNone /\ evicting \in SlotOrNone
  /\ entry \in Buf \cup {NONE}
  /\ victim \in Block \cup {NONE} /\ live \in SUBSET (0..(P - 1))
  /\ dirty \in [Buf -> BOOLEAN]
  /\ currentBlock \in [Die -> Block]
  /\ freeList \in [Die -> Seq(Block)]
  /\ target \in Die

\* What the thread has in hand at each place.
ThreadOk ==
  /\ pc = "select" <=> slot # NONE
  /\ Place # "select"
  /\ slice # NONE <=> Place \in Evicting \cup {"evict", "fetch", "dma"}
  /\ entry # NONE <=> slice # NONE
  /\ evicting # NONE <=> Place \in Evicting
  /\ Place \in Collecting => victim \in Block
  /\ left > 0 <=> Place = "slices"
  /\ Place = "idle" => sliceReqQ = <<>>

\* A slot that asks for nothing is free or held by the thread, once.
HeldOk ==
  /\ IsInjective(sliceReqQ)
  /\ slice \notin ToSet(sliceReqQ) /\ evicting \notin ToSet(sliceReqQ)
  /\ slice # NONE => slice # evicting
  /\ freeReqQ \cap Held = {} /\ freeReqQ \cup Held = Idle

\* A command has no more slices than it may.
InHand == IF slice = NONE THEN 0 ELSE 1
SlicesFit == Len(sliceReqQ) + left + InHand <= MaxSlices

\* No page of a free block is given out; all of the victim's are.
BlocksOk ==
  /\ \A d \in Die :
       /\ IsInjective(freeList[d])
       /\ \A b \in ToSet(freeList[d]) : currentPage[d][b] = 0 /\ b # currentBlock[d]
  /\ Place \in Collecting => currentPage[target][victim] = P
  /\ Place = "gc" /\ victim = currentBlock[target] => live # {}

\* The next user of a write's buffer is a read or a transfer.
NextReads ==
  \A s, t \in Slot : req[s].code = "WRITE" /\ nextBlockingReq[s] = t => req[t].code \in {"READ", "DMA"}

\* A write with no next user is the last copy of a die, or the write-back for
\* the slice in hand.
LastWrites ==
  \A s \in Slot : req[s].code = "WRITE" /\ nextBlockingReq[s] = NONE =>
    \/ req[s].entry \in TempBuf /\ (Place = "gcWrite" => req[s].entry # <<"temp", target>>)
    \/ req[s].entry = entry /\ Place \in {"fetch", "dma"}

\* The temporary entry of a die serves that die.
TempOfDie == \A s \in Slot, d \in Die : req[s].entry = <<"temp", d>> => req[s].die = d

FlowParts ==
  /\ FlowTyped /\ ThreadOk /\ HeldOk /\ SlicesFit /\ BlocksOk
  /\ NextReads /\ LastWrites /\ TempOfDie

FlowInv == OrderInv /\ FlowParts
-----------------------------------------------------------------------------
\* Pieces of the invariant.

\* The types of the variables the steps below are about.
LEMMA FlowTypes ==
  ASSUME FlowInv
  PROVE  /\ req \in [Slot -> ReqType] /\ freeReqQ \in SUBSET Slot
         /\ nextBlockingReq \in [Slot -> SlotOrNone] /\ blockingReqTail \in [Entry -> SlotOrNone]
         /\ currentPage \in [Die -> [Block -> 0..P]]
         /\ slot \in SlotOrNone /\ NONE \notin Slot /\ NONE \notin Entry
         /\ Idle \subseteq Slot /\ Held \subseteq Slot /\ Held \subseteq Idle
         /\ freeReqQ \subseteq Idle
         /\ \A s \in Slot : s \in Idle => nextBlockingReq[s] = NONE /\ prevBlockingReq[s] = NONE
<1>1. /\ OrderlyInv /\ DepTypeOK /\ HeldOk /\ FlowTyped
  BY DEF FlowInv, FlowParts, OrderInv, OrderlyInv, SlotsInv, DepInv
<1>2. /\ req \in [Slot -> ReqType] /\ freeReqQ \in SUBSET Slot
      /\ nextBlockingReq \in [Slot -> SlotOrNone] /\ blockingReqTail \in [Entry -> SlotOrNone]
      /\ currentPage \in [Die -> [Block -> 0..P]]
      /\ slot \in SlotOrNone /\ NONE \notin Slot /\ NONE \notin Entry
  BY <1>1, RequestNone DEF DepTypeOK
<1>3. Idle \subseteq Slot /\ Held \subseteq Idle /\ freeReqQ \subseteq Idle
  BY <1>1 DEF HeldOk, Idle
<1>4. ASSUME NEW s \in Slot, s \in Idle
      PROVE  nextBlockingReq[s] = NONE /\ prevBlockingReq[s] = NONE
  <2>1. s \notin Outstanding
    BY <1>1, <1>4, OutstandingIs DEF OrderlyInv, OutIs
  <2> QED
    BY <1>1, <2>1, ChainsInvMeans DEF ChainsMatchBuffers
<1> QED
  BY <1>2, <1>3, <1>4

\* A write with no next user is the tail of its entry, the only one.
LEMMA LastIsTail ==
  ASSUME FlowInv, NEW s \in Slot, req[s].code # "NONE", nextBlockingReq[s] = NONE,
         req[s].entry # NONE
  PROVE  s = blockingReqTail[req[s].entry]
<1>1. OrderlyInv /\ SlotsInv
  BY DEF FlowInv, OrderInv, OrderlyInv
<1>2. s \in Outstanding /\ req[s].entry \in Entry
  BY <1>1, ChainTypes
<1>3. s \in {x \in Users(req[s].entry) : nextBlockingReq[x] = NONE}
  BY <1>2 DEF Users
<1>4. {x \in Users(req[s].entry) : nextBlockingReq[x] = NONE} = {blockingReqTail[req[s].entry]} \ {NONE}
  BY <1>1, <1>2, ChainsInvMeans DEF ChainsMatchBuffers
<1> QED
  BY <1>3, <1>4

-----------------------------------------------------------------------------
\* Counting.

\* The slots of a set and of a part of it.
LEMMA SlotsSubset ==
  ASSUME NEW S \in SUBSET Slot, NEW T \in SUBSET S
  PROVE  /\ IsFiniteSet(S) /\ IsFiniteSet(T) /\ Cardinality(S) \in Nat /\ Cardinality(T) \in Nat
         /\ Cardinality(T) <= Cardinality(S)
         /\ Cardinality(S \ T) = Cardinality(S) - Cardinality(T)
<1>1. IsFiniteSet(S) /\ IsFiniteSet(T)
  BY SlotsFinite, FS_Subset
<1>2. Cardinality(S) \in Nat /\ Cardinality(T) \in Nat
  BY <1>1, FS_CardinalityType
<1>3. Cardinality(T) <= Cardinality(S)
  BY <1>1, FS_Subset
<1>4. IsFiniteSet(S \ T) /\ Cardinality(S \ T) \in Nat
  <2>1. S \ T \in SUBSET S
    OBVIOUS
  <2> QED
    BY <1>1, <2>1, FS_Subset, FS_CardinalityType
<1>5. (S \ T) \cup T = S /\ (S \ T) \cap T = {}
  OBVIOUS
<1>6. Cardinality(S) = Cardinality(S \ T) + Cardinality(T) - Cardinality({})
  BY <1>1, <1>4, <1>5, FS_Union
<1> QED
  BY <1>1, <1>2, <1>3, <1>4, <1>6, FS_EmptySet

\* P waiting writes of one block, and the erase that parts them: too many.
LEMMA WritesAreFew ==
  ASSUME FlowInv, Place \in Evicting, slot = NONE, NEW d \in Die,
         NEW W \in SUBSET Slot, \A w \in W : req[w].code = "WRITE" /\ req[w].die = d,
         NEW e \in Slot, req[e].code = "ERASE"
  PROVE  Cardinality(W) < P
<1> SUFFICES ASSUME P <= Cardinality(W) PROVE FALSE
  <2>1. IsFiniteSet(W)
    BY SlotsFinite, FS_Subset
  <2>2. Cardinality(W) \in Nat
    BY <2>1, FS_CardinalityType
  <2> QED
    BY <2>2, Constants
<1>1. /\ NONE \notin Slot /\ nextBlockingReq \in [Slot -> SlotOrNone] /\ Held \subseteq Idle
      /\ ThreadOk /\ HeldOk /\ NextReads /\ LastWrites /\ TempOfDie /\ FlowTyped
  BY FlowTypes DEF FlowInv, FlowParts
<1>2. /\ slice \in Slot /\ evicting \in Slot /\ slice # evicting /\ slice \in Idle /\ evicting \in Idle
  <2>1. slice # NONE /\ evicting # NONE
    BY <1>1 DEF ThreadOk
  <2>2. slice \in Held /\ evicting \in Held
    BY <2>1 DEF Held
  <2> QED
    BY <1>1, <2>1, <2>2 DEF FlowTyped, SlotOrNone, HeldOk
<1>3. req[slice].code = "NONE" /\ req[evicting].code = "NONE"
  BY <1>2 DEF Idle
<1> DEFINE last == blockingReqTail[<<"temp", d>>]
           V == W \ {last}
           A == W \cup {e}
           A1 == A \cup {slice}
           U == A1 \cup {evicting}
           T == Slot \ U
<1>4. e \notin W /\ slice \notin A /\ evicting \notin A1
  BY <1>2, <1>3
<1>5. /\ IsFiniteSet(W) /\ Cardinality(W) \in Nat
      /\ IsFiniteSet(V) /\ Cardinality(V) >= Cardinality(W) - 1 /\ Cardinality(V) \in Nat
  <2>1. IsFiniteSet(W) /\ IsFiniteSet(V)
    BY SlotsFinite, FS_Subset
  <2>2. Cardinality(W) \in Nat /\ Cardinality(V) \in Nat
    BY <2>1, FS_CardinalityType
  <2>3. Cardinality(V) = IF last \in W THEN Cardinality(W) - 1 ELSE Cardinality(W)
    BY <2>1, FS_RemoveElement
  <2> QED
    BY <2>1, <2>2, <2>3
<1>6. IsFiniteSet(U) /\ Cardinality(U) = Cardinality(W) + 3
  <2>1. IsFiniteSet(A) /\ Cardinality(A) = Cardinality(W) + 1
    BY <1>4, <1>5, FS_AddElement
  <2>2. IsFiniteSet(A1) /\ Cardinality(A1) = Cardinality(A) + 1
    BY <1>4, <2>1, FS_AddElement
  <2>3. IsFiniteSet(U) /\ Cardinality(U) = Cardinality(A1) + 1
    BY <1>4, <2>2, FS_AddElement
  <2> QED
    BY <1>5, <2>1, <2>2, <2>3
<1>7. IsFiniteSet(T) /\ Cardinality(T) = Cardinality(Slot) - Cardinality(U)
  <2>1. U \in SUBSET Slot /\ Slot \in SUBSET Slot /\ T \in SUBSET Slot
    BY <1>2
  <2>2. IsFiniteSet(T)
    BY SlotsFinite, <2>1, FS_Subset
  <2> QED
    BY <2>1, <2>2, SlotsSubset
<1>8. Cardinality(T) < Cardinality(V)
  <2>1. PICK all, u, v, w, t : /\ all = Cardinality(Slot) /\ u = Cardinality(U) /\ v = Cardinality(V)
                               /\ w = Cardinality(W) /\ t = Cardinality(T)
    OBVIOUS
  <2>2. all \in Nat /\ all <= 2 * P
    BY <2>1, SlotsFinite, FS_CardinalityType, PoolFits
  <2>3. w \in Nat /\ P <= w /\ v \in Nat /\ v >= w - 1 /\ u = w + 3 /\ t = all - u
    BY <1>5, <1>6, <1>7, <2>1
  <2>4. t < v
    BY <2>2, <2>3, Constants
  <2> QED
    BY <2>1, <2>4
<1>9. ASSUME NEW w \in V PROVE nextBlockingReq[w] \in T /\ prevBlockingReq[nextBlockingReq[w]] = w
  <2>1. w \in Slot /\ req[w].code = "WRITE" /\ req[w].die = d /\ w # last
    OBVIOUS
  <2>2. nextBlockingReq[w] # NONE
    <3> SUFFICES ASSUME nextBlockingReq[w] = NONE PROVE FALSE
      OBVIOUS
    <3>1. req[w].entry \in TempBuf
      BY <1>1, <2>1 DEF LastWrites, Evicting
    <3>2. PICK x \in Die : req[w].entry = <<"temp", x>>
      BY <3>1 DEF TempBuf
    <3>3. x = d
      BY <1>1, <2>1, <3>2 DEF TempOfDie
    <3>4. req[w].entry # NONE
      BY <3>1, RequestNone DEF Entry
    <3> QED
      BY <2>1, <3>2, <3>3, <3>4, LastIsTail
  <2>3. PICK t \in Slot : nextBlockingReq[w] = t
    BY <1>1, <2>1, <2>2 DEF SlotOrNone
  <2>4. req[t].code \in {"READ", "DMA"}
    BY <1>1, <2>1, <2>3 DEF NextReads
  <2>5. t \notin U
    BY <1>2, <1>3, <2>4
  <2>6. prevBlockingReq[t] = w
    BY <2>1, <2>3 DEF FlowInv, OrderInv, OrderlyInv, ChainsInv, Linked
  <2> QED
    BY <2>3, <2>5, <2>6
<1> DEFINE f == [w \in V |-> nextBlockingReq[w]]
<1>10. f \in [V -> T]
  BY <1>9
<1> HIDE DEF f, V, T
<1>11. \E x, y \in V : x # y /\ f[x] = f[y]
  BY <1>5, <1>7, <1>8, <1>10, FS_PigeonHole
<1>12. PICK x, y \in V : x # y /\ f[x] = f[y]
  BY <1>11
<1>13. f[x] = nextBlockingReq[x] /\ f[y] = nextBlockingReq[y]
  BY DEF f
<1>14. nextBlockingReq[x] = nextBlockingReq[y]
  BY <1>12, <1>13
<1>15. prevBlockingReq[nextBlockingReq[x]] = x /\ prevBlockingReq[nextBlockingReq[y]] = y
  BY <1>9
<1> QED
  BY <1>12, <1>14, <1>15, Zenon

\* So no write of a page waits when the page is written anew, and no erase
\* when the block is erased again.
LEMMA NoTwoLives ==
  ASSUME FlowInv, Place \in Evicting, slot = NONE, NEW d \in Die, NEW b \in Block
  PROVE  /\ currentPage[d][b] = P => ~rowAddrDependencyTable[d][b].blockedEraseReqFlag
         /\ \A s \in Blocked : ~(/\ req[s].code = "WRITE" /\ req[s].die = d /\ req[s].block = b
                                 /\ req[s].page = currentPage[d][b])
<1>1. PICK W, E, R, F, row, cp :
           /\ W = Of(req, Blocked \cup Hand, "WRITE", d, b)
           /\ E = Of(req, Blocked \cup Hand, "ERASE", d, b)
           /\ R = Of(req, Blocked, "READ", d, b) /\ F = Of(req, Blocked, "ERASE", d, b)
           /\ row = rowAddrDependencyTable[d][b] /\ cp = currentPage[d][b]
  OBVIOUS
<1>2. RowHolds(req, waitsFor, W, E, R, F, row, cp)
  <2>1. RowOk(req, waitsFor, Blocked, Hand, rowAddrDependencyTable[d][b], currentPage[d][b], d, b)
    BY DEF FlowInv, OrderInv, OrderParts, Tabled
  <2> QED
    BY <1>1, <2>1, Zenon DEF RowOk
<1>3. /\ Blocked \cup Hand \subseteq Slot /\ Hand = {} /\ E = F
      /\ W \in SUBSET Slot /\ \A w \in W : req[w].code = "WRITE" /\ req[w].die = d
      /\ \A e \in E : e \in Slot /\ req[e].code = "ERASE"
  <2>1. Hand = {} /\ Blocked \subseteq Slot
    BY OrderTypes DEF Hand, FlowInv
  <2> QED
    BY <1>1, <2>1 DEF Of
<1>4. E # {} => Cardinality(W) < P
  BY <1>3, WritesAreFew
<1>5. /\ row.permittedProgPage = cp + (IF E = {} THEN 0 ELSE P) - Cardinality(W)
      /\ row.permittedProgPage \in 0..Top(E, cp) /\ cp \in 0..P
      /\ row.blockedEraseReqFlag = (F # {})
      /\ \A w \in Older(waitsFor, W, E) : row.permittedProgPage <= req[w].page /\ req[w].page < Top(E, cp)
      /\ E # {} =>
           /\ cp <= row.permittedProgPage
           /\ \A w \in W \ Older(waitsFor, W, E) : req[w].page < cp
  BY <1>2 DEF RowHolds, BlockOrder, PagesLine
<1>6. Cardinality(W) \in Nat
  <2>1. IsFiniteSet(W)
    BY <1>3, SlotsFinite, FS_Subset
  <2> QED
    BY <2>1, FS_CardinalityType
<1>7. ASSUME cp = P, row.blockedEraseReqFlag PROVE FALSE
  <2>1. E # {}
    BY <1>3, <1>5, <1>7
  <2>2. row.permittedProgPage = P + P - Cardinality(W) /\ row.permittedProgPage <= P
        /\ row.permittedProgPage \in Int
    BY <1>5, <1>7, <2>1, Constants DEF Top
  <2> QED
    BY <1>4, <1>6, <2>1, <2>2, Constants
<1>8. ASSUME NEW s \in W, req[s].page = cp PROVE FALSE
  <2>1. cp \in Int
    BY <1>5, Constants
  <2>2. E # {} /\ s \in Older(waitsFor, W, E)
    <3>1. CASE E = {}
      <4>1. s \in Older(waitsFor, W, E) /\ Top(E, cp) = cp
        BY <3>1 DEF Older, Top
      <4> QED
        BY <1>5, <1>8, <2>1, <4>1
    <3>2. CASE E # {}
      BY <1>5, <1>8, <2>1, <3>2
    <3> QED
      BY <3>1, <3>2
  <2>3. row.permittedProgPage = cp + P - Cardinality(W) /\ row.permittedProgPage <= cp
        /\ row.permittedProgPage \in Int
    BY <1>5, <1>8, <2>2, Constants DEF Top
  <2> QED
    BY <1>4, <1>6, <2>1, <2>2, <2>3, Constants
<1>9. currentPage[d][b] = P => ~rowAddrDependencyTable[d][b].blockedEraseReqFlag
  BY <1>1, <1>7
<1>10. ASSUME NEW s \in Blocked, req[s].code = "WRITE", req[s].die = d, req[s].block = b,
              req[s].page = currentPage[d][b]
       PROVE  FALSE
  BY <1>1, <1>8, <1>10 DEF Of
<1> QED
  BY <1>9, <1>10
-----------------------------------------------------------------------------
\* What the steps of the lower layer make of the writes and their next users.

\* A request is made: whoever was last in the line of its buffer is so no more.
LEMMA MadeFollows ==
  ASSUME FlowInv, NEW s \in Slot, NEW r \in Requests, Makes(s, r),
         r.code = "WRITE" => \A x \in Slot : req[x].code = "WRITE" /\ nextBlockingReq[x] = NONE
                                                => req[x].entry # r.entry,
         \A d \in Die : r.entry = <<"temp", d>> => r.die = d
  PROVE  /\ NextReads' /\ TempOfDie'
         /\ req' = [req EXCEPT ![s] = r] /\ req'[s] = r
         /\ Idle' = Idle \ {s}
         /\ \A x \in Slot : x # s /\ req'[x].code = "WRITE" /\ nextBlockingReq'[x] = NONE =>
              /\ req[x].code = "WRITE" /\ nextBlockingReq[x] = NONE /\ req'[x] = req[x]
              /\ r.entry # NONE => req[x].entry # r.entry
<1>1. /\ req \in [Slot -> ReqType]
      /\ nextBlockingReq \in [Slot -> SlotOrNone] /\ blockingReqTail \in [Entry -> SlotOrNone]
      /\ NONE \notin Slot /\ NONE \notin Entry /\ NextReads /\ TempOfDie
      /\ \A x \in Slot : x \in Idle => nextBlockingReq[x] = NONE
  BY FlowTypes DEF FlowInv, FlowParts
<1>2. s \in Idle /\ MakeRequest(s, r)
  BY DEF Makes
<1>3. PICK tail : tail = IF r.entry = NONE THEN NONE ELSE blockingReqTail[r.entry]
  OBVIOUS
<1>4. /\ req' = [req EXCEPT ![s] = r]
      /\ nextBlockingReq' = IF tail = NONE THEN nextBlockingReq
                            ELSE [nextBlockingReq EXCEPT ![tail] = s]
  BY <1>2, <1>3 DEF MakeRequest
<1>5. /\ r.code \in {"DMA", "READ", "WRITE", "ERASE"} /\ r.entry \in Entry \cup {NONE}
      /\ r.code = "ERASE" => r.entry = NONE
  BY RequestShapes, <1>1 DEF Entry
<1>6. tail \in SlotOrNone
  BY <1>1, <1>3, <1>5 DEF SlotOrNone
<1>7. /\ req'[s] = r /\ \A x \in Slot : x # s => req'[x] = req[x]
      /\ \A x \in Slot : nextBlockingReq'[x] = IF x = tail THEN s ELSE nextBlockingReq[x]
  BY <1>1, <1>4, <1>6 DEF SlotOrNone
<1>8. Idle' = Idle \ {s}
  BY <1>1, <1>4, IdleAfter, RequestHasCode
<1>9. tail # NONE => /\ tail \in Slot /\ tail # s /\ r.entry # NONE
                     /\ req[tail].entry = r.entry /\ nextBlockingReq[tail] = NONE
  <2> SUFFICES ASSUME tail # NONE
               PROVE  /\ tail \in Slot /\ tail # s /\ r.entry # NONE
                      /\ req[tail].entry = r.entry /\ nextBlockingReq[tail] = NONE
    OBVIOUS
  <2>1. r.entry \in Entry /\ tail = blockingReqTail[r.entry] /\ r.entry # NONE
    BY <1>1, <1>3, <1>5
  <2>2. OrderlyInv /\ SlotsInv
    BY DEF FlowInv, OrderInv, OrderlyInv
  <2>3. tail \in {x \in Users(r.entry) : nextBlockingReq[x] = NONE}
    <3>1. ChainsMatchBuffers
      BY <2>2, ChainsInvMeans
    <3>2. \A e \in Entry : {x \in Users(e) : nextBlockingReq[x] = NONE} = {blockingReqTail[e]} \ {NONE}
      BY <3>1 DEF ChainsMatchBuffers
    <3>3. {x \in Users(r.entry) : nextBlockingReq[x] = NONE} = {blockingReqTail[r.entry]} \ {NONE}
      BY <2>1, <3>2
    <3>4. tail \in {blockingReqTail[r.entry]} \ {NONE}
      BY <2>1
    <3> QED
      BY <3>3, <3>4
  <2>4. tail \in Outstanding /\ req[tail].entry = r.entry /\ nextBlockingReq[tail] = NONE
    BY <2>3 DEF Users
  <2>5. tail \in Slot /\ tail \notin Idle
    BY <2>2, <2>4, ChainTypes DEF Idle
  <2> QED
    BY <1>2, <2>1, <2>4, <2>5
<1>10. ASSUME NEW x \in Slot, NEW t \in Slot, req'[x].code = "WRITE", nextBlockingReq'[x] = t
       PROVE  req'[t].code \in {"READ", "DMA"}
  <2>1. CASE x = s
    <3>1. s # tail /\ nextBlockingReq[s] = NONE
      BY <1>1, <1>2, <1>9
    <3>2. nextBlockingReq'[s] = NONE
      BY <1>7, <3>1
    <3> QED
      BY <1>1, <1>10, <2>1, <3>2
  <2>2. CASE x # s /\ x = tail
    <3>1. t = s /\ req[x].code = "WRITE" /\ tail # NONE
      BY <1>1, <1>7, <1>10, <2>2
    <3>2. r.code # "WRITE"
      BY <1>9, <2>2, <3>1
    <3> QED
      BY <1>5, <1>7, <1>9, <3>1, <3>2
  <2>3. CASE x # s /\ x # tail
    <3>1. nextBlockingReq[x] = t /\ req[x].code = "WRITE"
      BY <1>7, <1>10, <2>3
    <3>2. req[t].code \in {"READ", "DMA"}
      BY <1>1, <3>1 DEF NextReads
    <3>3. t # s
      BY <1>2, <3>2 DEF Idle
    <3> QED
      BY <1>7, <3>2, <3>3
  <2> QED
    BY <2>1, <2>2, <2>3
<1>11. NextReads'
  BY <1>10 DEF NextReads
<1>12. TempOfDie'
  BY <1>1, <1>7 DEF TempOfDie
<1>13. ASSUME NEW x \in Slot, x # s, req'[x].code = "WRITE", nextBlockingReq'[x] = NONE
       PROVE  /\ req[x].code = "WRITE" /\ nextBlockingReq[x] = NONE /\ req'[x] = req[x]
              /\ r.entry # NONE => req[x].entry # r.entry
  <2>1. x # tail /\ nextBlockingReq[x] = NONE /\ req'[x] = req[x]
    BY <1>1, <1>7, <1>13
  <2>2. r.entry # NONE => req[x].entry # r.entry
    BY <1>3, <1>13, <2>1, LastIsTail
  <2> QED
    BY <1>13, <2>1, <2>2
<1> QED
  BY <1>4, <1>7, <1>8, <1>11, <1>12, <1>13

\* A request is done: it was first in its line, so nobody's next.
LEMMA LeavesFollows ==
  ASSUME FlowInv, NEW s, NEW dma, NEW nand, NEW running, Leaves(s, dma, nand, running)
  PROVE  /\ NextReads' /\ TempOfDie'
         /\ s \in Slot \ Idle /\ Idle' = Idle \cup {s} /\ freeReqQ' = freeReqQ \cup {s}
         /\ \A x \in Slot : req'[x].code = "WRITE" /\ nextBlockingReq'[x] = NONE =>
              req'[x] = req[x] /\ nextBlockingReq[x] = NONE
<1>1. /\ req \in [Slot -> ReqType] /\ nextBlockingReq \in [Slot -> SlotOrNone]
      /\ NONE \notin Slot /\ NextReads /\ TempOfDie /\ NONE \notin Entry
  BY FlowTypes DEF FlowInv, FlowParts
<1>2. OrderlyInv /\ SlotsInv
  BY DEF FlowInv, OrderInv, OrderlyInv
<1>3. s \in LowLevel \ blockedByBufDepReqQ /\ s \in Slot
  BY <1>2, LeavesPlaces
<1>4. prevBlockingReq[s] = NONE
  BY <1>2, <1>3 DEF OrderlyInv, ChainsInv, HeadsRun
<1>5. /\ req' = [req EXCEPT ![s] = NoReq] /\ nextBlockingReq' = [nextBlockingReq EXCEPT ![s] = NONE]
      /\ freeReqQ' = freeReqQ \cup {s}
  BY DEF Leaves, Complete
<1>6. /\ req'[s].code = "NONE" /\ req'[s].entry = NONE
      /\ \A x \in Slot : x # s => req'[x] = req[x] /\ nextBlockingReq'[x] = nextBlockingReq[x]
  BY <1>1, <1>3, <1>5 DEF NoReq
<1>7. Idle' = Idle \cup {s}
  <2>1. NoReq.code = "NONE"
    BY DEF NoReq
  <2> QED
    BY <1>1, <1>3, <1>5, <2>1, IdleAfter
<1>8. s \notin Idle
  BY <1>2, <1>3, ChainTypes DEF Idle
<1>9. \A x \in Slot : nextBlockingReq[x] # s
  BY <1>1, <1>2, <1>3, <1>4 DEF OrderlyInv, ChainsInv, Linked
<1>10. NextReads'
  <2> SUFFICES ASSUME NEW x \in Slot, NEW t \in Slot, req'[x].code = "WRITE", nextBlockingReq'[x] = t
               PROVE  req'[t].code \in {"READ", "DMA"}
    BY DEF NextReads
  <2>1. x # s /\ nextBlockingReq[x] = t /\ req[x].code = "WRITE"
    BY <1>6
  <2> QED
    BY <1>1, <1>6, <1>9, <2>1 DEF NextReads
<1>11. TempOfDie'
  <2> SUFFICES ASSUME NEW x \in Slot, NEW d \in Die, req'[x].entry = <<"temp", d>>
               PROVE  req'[x].die = d
    BY DEF TempOfDie
  <2>1. <<"temp", d>> \in Entry
    BY DEF Entry, TempBuf
  <2>2. x # s
    BY <1>1, <1>6, <2>1
  <2> QED
    BY <1>1, <1>6, <2>2 DEF TempOfDie
<1>12. ASSUME NEW x \in Slot, req'[x].code = "WRITE", nextBlockingReq'[x] = NONE
       PROVE  req'[x] = req[x] /\ nextBlockingReq[x] = NONE
  <2>1. x # s
    BY <1>6, <1>12
  <2> QED
    BY <1>6, <1>12, <2>1
<1>13. s \in Slot \ Idle /\ freeReqQ' = freeReqQ \cup {s}
  BY <1>3, <1>5, <1>8
<1> QED
  BY <1>7, <1>10, <1>11, <1>12, <1>13
-----------------------------------------------------------------------------
\* What the steps of the lower layer leave of the invariant.

\* The thread does not move: the slots that are freed are not in its hand.
LEMMA ThreadRests ==
  ASSUME FlowInv, UNCHANGED <<flowVars, slot, currentPage>>, NextReads', TempOfDie',
         NEW T \in SUBSET (Slot \ Idle), Idle' = Idle \cup T, freeReqQ' = freeReqQ \cup T,
         \A x \in Slot : req'[x].code = "WRITE" /\ nextBlockingReq'[x] = NONE =>
           req'[x] = req[x] /\ nextBlockingReq[x] = NONE
  PROVE  FlowParts'
<1>1. /\ FlowTyped /\ ThreadOk /\ HeldOk /\ SlicesFit /\ BlocksOk /\ LastWrites
  BY DEF FlowInv, FlowParts
<1>2. /\ pc' = pc /\ then' = then /\ left' = left /\ sliceReqQ' = sliceReqQ /\ slice' = slice
      /\ entry' = entry /\ evicting' = evicting /\ victim' = victim /\ live' = live
      /\ dirty' = dirty /\ currentBlock' = currentBlock /\ freeList' = freeList
      /\ target' = target /\ slot' = slot /\ currentPage' = currentPage
  BY DEF flowVars, sliceVars, gcVars, blockVars
<1>3. Place' = Place /\ Held' = Held
  BY <1>2 DEF Place, Held
<1>4. FlowTyped' /\ ThreadOk' /\ SlicesFit' /\ BlocksOk'
  BY <1>1, <1>2, <1>3 DEF FlowTyped, ThreadOk, SlicesFit, InHand, BlocksOk
<1>5. HeldOk'
  BY <1>1, <1>2, <1>3 DEF HeldOk
<1>6. LastWrites'
  <2> SUFFICES ASSUME NEW x \in Slot, req'[x].code = "WRITE", nextBlockingReq'[x] = NONE
               PROVE  \/ req'[x].entry \in TempBuf /\ (Place = "gcWrite" => req'[x].entry # <<"temp", target>>)
                      \/ req'[x].entry = entry /\ Place \in {"fetch", "dma"}
    BY <1>2, <1>3 DEF LastWrites
  <2>1. req'[x] = req[x] /\ nextBlockingReq[x] = NONE
    OBVIOUS
  <2> QED
    BY <1>1, <2>1 DEF LastWrites
<1> QED
  BY <1>4, <1>5, <1>6 DEF FlowParts

LEMMA PassKeepsFlow == ASSUME FlowInv, Pass \/ RunScheduler PROVE AnyStep /\ FlowParts'
<1>1. NextReads /\ TempOfDie
  BY DEF FlowInv, FlowParts
<1>2. ASSUME UNCHANGED <<flowVars, slot, currentPage, req, nextBlockingReq, freeReqQ>>
      PROVE  FlowParts'
  <2>0. req' = req /\ nextBlockingReq' = nextBlockingReq /\ freeReqQ' = freeReqQ
    BY <1>2
  <2>1. NextReads' /\ TempOfDie' /\ Idle' = Idle
    BY <1>1, <2>0 DEF NextReads, TempOfDie, Idle
  <2>2. \A x \in Slot : req'[x].code = "WRITE" /\ nextBlockingReq'[x] = NONE =>
           req'[x] = req[x] /\ nextBlockingReq[x] = NONE
    BY <2>0
  <2>3. {} \in SUBSET (Slot \ Idle) /\ Idle' = Idle \cup {} /\ freeReqQ' = freeReqQ \cup {}
    BY <2>0, <2>1
  <2>4. UNCHANGED <<flowVars, slot, currentPage>>
    BY <1>2
  <2>5. PICK T : T = {}
    OBVIOUS
  <2>6. T \in SUBSET (Slot \ Idle) /\ Idle' = Idle \cup T /\ freeReqQ' = freeReqQ \cup T
    BY <2>3, <2>5
  <2> QED
    BY <2>1, <2>2, <2>4, <2>6, ThreadRests
<1>3. ASSUME NEW s, NEW dma, NEW nand, NEW running, Leaves(s, dma, nand, running), UNCHANGED flowVars
      PROVE  FlowParts'
  <2>1. UNCHANGED <<flowVars, slot, currentPage>>
    BY <1>3 DEF Leaves, Complete, caller
  <2>2. /\ NextReads' /\ TempOfDie'
        /\ {s} \in SUBSET (Slot \ Idle) /\ Idle' = Idle \cup {s} /\ freeReqQ' = freeReqQ \cup {s}
        /\ \A x \in Slot : req'[x].code = "WRITE" /\ nextBlockingReq'[x] = NONE =>
             req'[x] = req[x] /\ nextBlockingReq[x] = NONE
    BY <1>3, LeavesFollows
  <2> QED
    BY <2>1, <2>2, ThreadRests
<1>4. CASE RunScheduler
  <2>1. StartPass /\ UNCHANGED flowVars
    BY <1>4 DEF RunScheduler
  <2>2. UNCHANGED <<flowVars, slot, currentPage, req, nextBlockingReq, freeReqQ>>
    BY <2>1 DEF StartPass, tables, chainVars, caller
  <2> QED
    BY <1>2, <2>1, <2>2 DEF AnyStep
<1>5. CASE Pass
  <2>1. PassStep /\ UNCHANGED flowVars
    BY <1>5 DEF Pass
  <2>2. ASSUME CheckDoneNvmeDmaReq PROVE FlowParts'
    <3>1. SlotsInv
      BY DEF FlowInv, OrderInv, OrderlyInv
    <3>2. \E s, dma, nand, running : Leaves(s, dma, nand, running)
      BY <2>2, <3>1, TransferLeaves
    <3> QED
      BY <1>3, <2>1, <3>2
  <2>3. ASSUME NEW d \in Die, FinishNandReq(d) PROVE FlowParts'
    <3>1. SlotsInv
      BY DEF FlowInv, OrderInv, OrderlyInv
    <3>2. \E s, dma, nand, running : Leaves(s, dma, nand, running)
      BY <2>3, <3>1, FinishLeaves
    <3> QED
      BY <1>3, <2>1, <3>2
  <2>4. ASSUME CheckDoneEnds PROVE FlowParts'
    <3>1. UNCHANGED <<flowVars, slot, currentPage, req, nextBlockingReq, freeReqQ>>
      BY <2>1, <2>4 DEF CheckDoneEnds, tables, chainVars, caller
    <3> QED
      BY <1>2, <3>1
  <2>5. ASSUME NEW d \in Die, DieIdle(d) \/ ReleaseEnds(d) \/ IssueNandReq(d) \/ LeaveDie(d)
                              \/ ReleaseBlockedByRowAddrDepReq(d)
        PROVE  FlowParts'
    <3>1. UNCHANGED <<slot, currentPage, req, nextBlockingReq, freeReqQ>>
      BY <2>5 DEF DieIdle, ReleaseEnds, IssueNandReq, LeaveDie, ReleaseBlockedByRowAddrDepReq,
                  tables, chainVars, caller
    <3>2. UNCHANGED <<flowVars, slot, currentPage, req, nextBlockingReq, freeReqQ>>
      BY <2>1, <3>1
    <3> QED
      BY <1>2, <3>2
  <2> QED
    BY <2>1, <2>2, <2>3, <2>4, <2>5 DEF PassStep, AnyStep
<1> QED
  BY <1>4, <1>5

\* The request in hand is selected, and the thread goes on.
LEMMA SelectedKeepsFlow == ASSUME FlowInv, Selected PROVE AnyStep /\ FlowParts'
<1>1. /\ FlowTyped /\ ThreadOk /\ HeldOk /\ SlicesFit /\ BlocksOk /\ NextReads /\ LastWrites /\ TempOfDie
  BY DEF FlowInv, FlowParts
<1>2. /\ Select /\ pc' = then /\ then' = then /\ left' = left /\ sliceReqQ' = sliceReqQ /\ slice' = slice
      /\ entry' = entry /\ evicting' = evicting /\ victim' = victim /\ live' = live
      /\ dirty' = dirty /\ currentBlock' = currentBlock /\ freeList' = freeList
      /\ target' = target
  BY DEF Selected, sliceVars, gcVars, blockVars
<1>3. /\ slot # NONE /\ slot' = NONE /\ req' = req /\ nextBlockingReq' = nextBlockingReq
      /\ freeReqQ' = freeReqQ /\ currentPage' = currentPage
  BY <1>2 DEF Select, SelectLowLevelReqQ, chainVars
<1>4. pc = "select" /\ Place = then /\ then # "select"
  BY <1>1, <1>3 DEF ThreadOk, Place
<1>5. Place' = Place /\ pc' # "select" /\ Held' = Held /\ Idle' = Idle
  BY <1>2, <1>3, <1>4 DEF Place, Held, Idle
<1>6. FlowTyped' /\ ThreadOk' /\ SlicesFit' /\ BlocksOk'
  BY <1>1, <1>2, <1>3, <1>5 DEF FlowTyped, ThreadOk, SlicesFit, InHand, BlocksOk
<1>7. HeldOk' /\ NextReads' /\ TempOfDie' /\ LastWrites'
  BY <1>1, <1>2, <1>3, <1>5 DEF HeldOk, NextReads, TempOfDie, LastWrites
<1> QED
  BY <1>2, <1>6, <1>7 DEF FlowParts, AnyStep
-----------------------------------------------------------------------------
\* The steps of the thread that ask for nothing.

LEMMA GoesTo ==
  ASSUME FlowInv, NEW p \in PcValues \ {"select", "gcWrite"}, GoTo(p), pc # "select",
         freeReqQ' \in SUBSET Slot,
         Place \in {"fetch", "dma"} => p \in {"fetch", "dma"} /\ entry' = entry
  PROVE  /\ AnyStep
         /\ pc' = p /\ then' = then /\ Place = pc /\ Place' = p
         /\ slot = NONE /\ slot' = NONE /\ currentPage' = currentPage /\ Idle' = Idle
         /\ NextReads' /\ LastWrites' /\ TempOfDie'
<1>1. ThreadOk /\ NextReads /\ LastWrites /\ TempOfDie
  BY DEF FlowInv, FlowParts
<1>2. /\ pc' = p /\ then' = then /\ slot' = slot /\ currentPage' = currentPage /\ req' = req
      /\ nextBlockingReq' = nextBlockingReq
      /\ UNCHANGED <<tables, lowQueues, counters, dieState, pass, caller>>
  BY DEF GoTo, tables, chainVars, caller
<1>3. Place = pc /\ Place' = p /\ slot = NONE
  BY <1>1, <1>2 DEF Place, ThreadOk
<1>4. AnyStep
  BY <1>2 DEF AnyStep, TakesSlots
<1>5. NextReads' /\ TempOfDie' /\ Idle' = Idle
  BY <1>1, <1>2 DEF NextReads, TempOfDie, Idle
<1>6. LastWrites'
  BY <1>1, <1>2, <1>3 DEF LastWrites
<1> QED
  BY <1>2, <1>3, <1>4, <1>5, <1>6

LEMMA TakeCommandKeeps ==
  ASSUME FlowInv, NEW n \in 1..MaxSlices, TakeCommand(n)
  PROVE  AnyStep /\ FlowParts'
<1>1. /\ FlowTyped /\ ThreadOk /\ HeldOk /\ SlicesFit /\ BlocksOk /\ freeReqQ \in SUBSET Slot
      /\ MaxSlices \in Nat
  BY FlowTypes, CommandSize DEF FlowInv, FlowParts
<1>2. /\ pc = "idle" /\ left' = n /\ GoTo("slices") /\ freeReqQ' = freeReqQ
      /\ sliceReqQ' = sliceReqQ /\ slice' = slice /\ entry' = entry /\ evicting' = evicting
      /\ victim' = victim /\ live' = live /\ dirty' = dirty
      /\ currentBlock' = currentBlock /\ freeList' = freeList /\ target' = target
  BY DEF TakeCommand, gcVars, blockVars
<1>3. Place = "idle"
  BY <1>2 DEF Place
<1>4. /\ AnyStep
      /\ pc' = "slices" /\ then' = then /\ Place' = "slices"
      /\ slot = NONE /\ slot' = NONE /\ currentPage' = currentPage /\ Idle' = Idle
      /\ NextReads' /\ LastWrites' /\ TempOfDie'
  BY <1>1, <1>2, <1>3, GoesTo DEF PcValues
<1>5. sliceReqQ = <<>> /\ slice = NONE
  BY <1>1, <1>3 DEF ThreadOk, Evicting
<1>6. FlowTyped'
  BY <1>1, <1>2, <1>4 DEF FlowTyped, PcValues
<1>7. ThreadOk'
  BY <1>1, <1>2, <1>3, <1>4 DEF ThreadOk, Evicting, Collecting
<1>8. HeldOk'
  BY <1>1, <1>2, <1>4 DEF HeldOk, Held
<1>9. SlicesFit'
  BY <1>1, <1>2, <1>5 DEF SlicesFit, InHand
<1>10. BlocksOk'
  BY <1>1, <1>2, <1>4 DEF BlocksOk, Collecting
<1> QED
  BY <1>4, <1>6, <1>7, <1>8, <1>9, <1>10 DEF FlowParts

LEMMA PutToSliceReqQKeeps ==
  ASSUME FlowInv, NEW s \in Slot, PutToSliceReqQ(s)
  PROVE  AnyStep /\ FlowParts'
<1>1. /\ FlowTyped /\ ThreadOk /\ HeldOk /\ SlicesFit /\ BlocksOk /\ freeReqQ \in SUBSET Slot
      /\ NONE \notin Slot /\ MaxSlices \in Nat
  BY FlowTypes, CommandSize DEF FlowInv, FlowParts
<1> DEFINE p == IF left = 1 THEN "translate" ELSE "slices"
<1>2. /\ pc = "slices" /\ left' = left - 1 /\ GoTo(p) /\ s \in freeReqQ /\ freeReqQ' = freeReqQ \ {s}
      /\ sliceReqQ' = Append(sliceReqQ, s) /\ slice' = slice /\ entry' = entry /\ evicting' = evicting
      /\ victim' = victim /\ live' = live /\ dirty' = dirty
      /\ currentBlock' = currentBlock /\ freeList' = freeList /\ target' = target
  BY DEF PutToSliceReqQ, GetFromFreeReqQ, gcVars, blockVars
<1>3. Place = "slices"
  BY <1>2 DEF Place
<1>4. /\ AnyStep
      /\ pc' = p /\ then' = then /\ Place' = p
      /\ slot = NONE /\ slot' = NONE /\ currentPage' = currentPage /\ Idle' = Idle
      /\ NextReads' /\ LastWrites' /\ TempOfDie'
  BY <1>1, <1>2, <1>3, GoesTo DEF PcValues
<1>5. slice = NONE /\ evicting = NONE /\ left > 0 /\ left \in Nat /\ sliceReqQ \in Seq(Slot)
  BY <1>1, <1>3 DEF ThreadOk, Evicting, FlowTyped
<1>6. sliceReqQ' \in Seq(Slot) /\ Len(sliceReqQ') = Len(sliceReqQ) + 1 /\ Len(sliceReqQ) \in Nat
  BY <1>2, <1>5
<1>7. FlowTyped'
  <2>1. left' \in 0..MaxSlices
    BY <1>1, <1>2, <1>5 DEF FlowTyped
  <2> QED
    BY <1>1, <1>2, <1>4, <1>6, <2>1 DEF FlowTyped, PcValues
<1>8. ThreadOk'
  <2>1. left' > 0 <=> Place' = "slices"
    BY <1>2, <1>4, <1>5
  <2> QED
    BY <1>1, <1>2, <1>3, <1>4, <2>1 DEF ThreadOk, Evicting, Collecting
<1>9. HeldOk'
  <2>1. s \notin Held
    BY <1>1, <1>2 DEF HeldOk
  <2>2. s \notin ToSet(sliceReqQ)
    BY <2>1 DEF Held
  <2>3. ToSet(sliceReqQ') = ToSet(sliceReqQ) \cup {s} /\ IsInjective(sliceReqQ')
    BY <1>1, <1>2, <1>5, <2>2, AppendSet DEF HeldOk
  <2>4. Held' = Held \cup {s}
    BY <1>2, <2>3 DEF Held
  <2>5. NONE \notin ToSet(sliceReqQ')
    BY <1>1, <1>5, <2>3 DEF HeldOk
  <2> QED
    BY <1>1, <1>2, <1>4, <1>5, <2>1, <2>3, <2>4, <2>5 DEF HeldOk
<1>10. SlicesFit'
  BY <1>1, <1>2, <1>5, <1>6 DEF SlicesFit, InHand
<1>11. BlocksOk'
  BY <1>1, <1>2, <1>4 DEF BlocksOk, Collecting
<1> QED
  BY <1>4, <1>7, <1>8, <1>9, <1>10, <1>11 DEF FlowParts

LEMMA GetFromSliceReqQKeeps ==
  ASSUME FlowInv, NEW e \in Buf, NEW hit \in BOOLEAN, GetFromSliceReqQ(e, hit)
  PROVE  AnyStep /\ FlowParts'
<1>1. /\ FlowTyped /\ ThreadOk /\ HeldOk /\ SlicesFit /\ BlocksOk /\ freeReqQ \in SUBSET Slot
      /\ NONE \notin Slot /\ NONE \notin Buf /\ MaxSlices \in Nat
  BY FlowTypes, CommandSize DEF FlowInv, FlowParts, Entry
<1> DEFINE p == IF hit THEN "dma" ELSE IF dirty[e] THEN "evict" ELSE "fetch"
           s == Head(sliceReqQ)
<1>2. /\ pc = "translate" /\ left' = left /\ GoTo(p) /\ freeReqQ' = freeReqQ
      /\ sliceReqQ # <<>> /\ sliceReqQ' = Tail(sliceReqQ) /\ slice' = s /\ entry' = e
      /\ evicting' = evicting
      /\ victim' = victim /\ live' = live /\ dirty' = dirty
      /\ currentBlock' = currentBlock /\ freeList' = freeList /\ target' = target
  BY DEF GetFromSliceReqQ, gcVars, blockVars
<1>3. Place = "translate"
  BY <1>2 DEF Place
<1>4. /\ AnyStep
      /\ pc' = p /\ then' = then /\ Place' = p
      /\ slot = NONE /\ slot' = NONE /\ currentPage' = currentPage /\ Idle' = Idle
      /\ NextReads' /\ LastWrites' /\ TempOfDie'
  BY <1>1, <1>2, <1>3, GoesTo DEF PcValues
<1>5. slice = NONE /\ evicting = NONE /\ left \in Nat /\ sliceReqQ \in Seq(Slot)
  BY <1>1, <1>3 DEF ThreadOk, Evicting, FlowTyped
<1>6. /\ sliceReqQ' \in Seq(Slot) /\ Len(sliceReqQ') = Len(sliceReqQ) - 1 /\ Len(sliceReqQ) \in Nat
      /\ s \in Slot
  BY <1>2, <1>5, HeadTailProperties
<1>7. FlowTyped'
  BY <1>1, <1>2, <1>4, <1>6 DEF FlowTyped, PcValues, SlotOrNone
<1>8. ThreadOk'
  BY <1>1, <1>2, <1>3, <1>4, <1>6 DEF ThreadOk, Evicting, Collecting
<1>9. HeldOk'
  <2>1. ToSet(sliceReqQ') = ToSet(sliceReqQ) \ {s} /\ IsInjective(sliceReqQ') /\ s \in ToSet(sliceReqQ)
    <3>1. s = sliceReqQ[1] /\ 1 \in 1..Len(sliceReqQ)
      BY <1>1, <1>2, <1>5, TailSet DEF HeldOk
    <3>2. s \in ToSet(sliceReqQ)
      BY <1>5, <3>1 DEF ToSet
    <3> QED
      BY <1>1, <1>2, <1>5, <3>2, TailSet DEF HeldOk
  <2>2. Held' = Held
    BY <1>1, <1>2, <1>5, <1>6, <2>1 DEF Held
  <2> QED
    BY <1>1, <1>2, <1>4, <1>5, <1>6, <2>1, <2>2 DEF HeldOk
<1>10. SlicesFit'
  BY <1>1, <1>2, <1>5, <1>6 DEF SlicesFit, InHand
<1>11. BlocksOk'
  BY <1>1, <1>2, <1>4 DEF BlocksOk, Collecting
<1> QED
  BY <1>4, <1>7, <1>8, <1>9, <1>10, <1>11 DEF FlowParts

LEMMA SliceReqQEmptyKeeps ==
  ASSUME FlowInv, SliceReqQEmpty
  PROVE  AnyStep /\ FlowParts'
<1>1. /\ FlowTyped /\ ThreadOk /\ HeldOk /\ SlicesFit /\ BlocksOk /\ freeReqQ \in SUBSET Slot
  BY FlowTypes DEF FlowInv, FlowParts
<1>2. /\ pc = "translate" /\ left' = left /\ GoTo("idle") /\ freeReqQ' = freeReqQ
      /\ sliceReqQ = <<>> /\ sliceReqQ' = sliceReqQ /\ slice' = slice /\ entry' = entry
      /\ evicting' = evicting
      /\ victim' = victim /\ live' = live /\ dirty' = dirty
      /\ currentBlock' = currentBlock /\ freeList' = freeList /\ target' = target
  BY DEF SliceReqQEmpty, sliceVars, gcVars, blockVars
<1>3. Place = "translate"
  BY <1>2 DEF Place
<1>4. /\ AnyStep
      /\ pc' = "idle" /\ then' = then /\ Place' = "idle"
      /\ slot = NONE /\ slot' = NONE /\ currentPage' = currentPage /\ Idle' = Idle
      /\ NextReads' /\ LastWrites' /\ TempOfDie'
  BY <1>1, <1>2, <1>3, GoesTo DEF PcValues
<1>5. FlowTyped'
  BY <1>1, <1>2, <1>4 DEF FlowTyped, PcValues
<1>6. ThreadOk'
  BY <1>1, <1>2, <1>3, <1>4 DEF ThreadOk, Evicting, Collecting
<1>7. HeldOk' /\ SlicesFit' /\ BlocksOk'
  BY <1>1, <1>2, <1>4 DEF HeldOk, Held, SlicesFit, InHand, BlocksOk, Collecting
<1> QED
  BY <1>4, <1>5, <1>6, <1>7 DEF FlowParts

LEMMA NothingToReadKeeps ==
  ASSUME FlowInv, NothingToRead
  PROVE  AnyStep /\ FlowParts'
<1>1. /\ FlowTyped /\ ThreadOk /\ HeldOk /\ SlicesFit /\ BlocksOk /\ freeReqQ \in SUBSET Slot
  BY FlowTypes DEF FlowInv, FlowParts
<1>2. /\ pc = "fetch" /\ left' = left /\ GoTo("dma") /\ freeReqQ' = freeReqQ
      /\ sliceReqQ' = sliceReqQ /\ slice' = slice /\ entry' = entry /\ evicting' = evicting
      /\ victim' = victim /\ live' = live /\ dirty' = dirty
      /\ currentBlock' = currentBlock /\ freeList' = freeList /\ target' = target
  BY DEF NothingToRead, sliceVars, gcVars, blockVars
<1>3. Place = "fetch"
  BY <1>2 DEF Place
<1>4. /\ AnyStep
      /\ pc' = "dma" /\ then' = then /\ Place' = "dma"
      /\ slot = NONE /\ slot' = NONE /\ currentPage' = currentPage /\ Idle' = Idle
      /\ NextReads' /\ LastWrites' /\ TempOfDie'
  BY <1>1, <1>2, <1>3, GoesTo DEF PcValues
<1>5. FlowTyped'
  BY <1>1, <1>2, <1>4 DEF FlowTyped, PcValues
<1>6. ThreadOk'
  BY <1>1, <1>2, <1>3, <1>4 DEF ThreadOk, Evicting, Collecting
<1>7. HeldOk' /\ SlicesFit' /\ BlocksOk'
  BY <1>1, <1>2, <1>4 DEF HeldOk, Held, SlicesFit, InHand, BlocksOk, Collecting
<1> QED
  BY <1>4, <1>5, <1>6, <1>7 DEF FlowParts

LEMMA EvictKeeps ==
  ASSUME FlowInv, NEW s \in Slot, EvictDataBufEntry(s)
  PROVE  AnyStep /\ FlowParts'
<1>1. /\ FlowTyped /\ ThreadOk /\ HeldOk /\ SlicesFit /\ BlocksOk /\ freeReqQ \in SUBSET Slot
      /\ NONE \notin Slot
  BY FlowTypes DEF FlowInv, FlowParts
<1>2. /\ pc = "evict" /\ left' = left /\ GoTo("find") /\ s \in freeReqQ /\ freeReqQ' = freeReqQ \ {s}
      /\ sliceReqQ' = sliceReqQ /\ slice' = slice /\ entry' = entry /\ evicting' = s
      /\ victim' = victim /\ live' = live /\ dirty' = dirty
      /\ currentBlock' = currentBlock /\ freeList' = freeList /\ target' = target
  BY DEF EvictDataBufEntry, GetFromFreeReqQ, gcVars, blockVars
<1>3. Place = "evict"
  BY <1>2 DEF Place
<1>4. /\ AnyStep
      /\ pc' = "find" /\ then' = then /\ Place' = "find"
      /\ slot = NONE /\ slot' = NONE /\ currentPage' = currentPage /\ Idle' = Idle
      /\ NextReads' /\ LastWrites' /\ TempOfDie'
  BY <1>1, <1>2, <1>3, GoesTo DEF PcValues
<1>5. slice # NONE /\ evicting = NONE
  BY <1>1, <1>3 DEF ThreadOk, Evicting
<1>6. FlowTyped'
  BY <1>1, <1>2, <1>4 DEF FlowTyped, PcValues, SlotOrNone
<1>7. ThreadOk'
  BY <1>1, <1>2, <1>3, <1>4 DEF ThreadOk, Evicting, Collecting
<1>8. HeldOk'
  <2>1. s \notin Held /\ s # NONE
    BY <1>1, <1>2 DEF HeldOk
  <2>2. Held' = Held \cup {s} /\ s \notin ToSet(sliceReqQ) /\ s # slice
    BY <1>2, <1>5, <2>1 DEF Held
  <2> QED
    BY <1>1, <1>2, <1>4, <1>5, <2>1, <2>2 DEF HeldOk
<1>9. SlicesFit' /\ BlocksOk'
  BY <1>1, <1>2, <1>4 DEF SlicesFit, InHand, BlocksOk, Collecting
<1> QED
  BY <1>4, <1>6, <1>7, <1>8, <1>9 DEF FlowParts

LEMMA GarbageCollectionKeeps ==
  ASSUME FlowInv, NEW b \in Block, NEW pages \in SUBSET (0..(P - 1)), GarbageCollection(b, pages)
  PROVE  AnyStep /\ FlowParts'
<1>1. /\ FlowTyped /\ ThreadOk /\ HeldOk /\ SlicesFit /\ BlocksOk /\ freeReqQ \in SUBSET Slot
      /\ NONE \notin Slot
  BY FlowTypes DEF FlowInv, FlowParts
<1>2. /\ pc = "find" /\ GoTo("gc") /\ freeReqQ' = freeReqQ
      /\ left' = left /\ sliceReqQ' = sliceReqQ /\ slice' = slice /\ entry' = entry
      /\ evicting' = evicting
      /\ victim' = b /\ live' = pages /\ dirty' = dirty
      /\ currentBlock' = currentBlock /\ freeList' = freeList /\ target' = target
      /\ currentPage[target][b] = P /\ (b = currentBlock[target] => pages # {})
  BY DEF GarbageCollection, sliceVars, blockVars
<1>3. Place = "find"
  BY <1>2 DEF Place
<1>4. /\ AnyStep
      /\ pc' = "gc" /\ then' = then /\ Place' = "gc"
      /\ slot = NONE /\ slot' = NONE /\ currentPage' = currentPage /\ Idle' = Idle
      /\ NextReads' /\ LastWrites' /\ TempOfDie'
  BY <1>1, <1>2, <1>3, GoesTo DEF PcValues
<1>5. FlowTyped'
  BY <1>1, <1>2, <1>4 DEF FlowTyped, PcValues
<1>6. ThreadOk'
  BY <1>1, <1>2, <1>3, <1>4 DEF ThreadOk, Evicting, Collecting
<1>7. HeldOk' /\ SlicesFit'
  BY <1>1, <1>2, <1>4 DEF HeldOk, Held, SlicesFit, InHand
<1>8. BlocksOk'
  BY <1>1, <1>2, <1>4 DEF BlocksOk, Collecting
<1> QED
  BY <1>4, <1>5, <1>6, <1>7, <1>8 DEF FlowParts
-----------------------------------------------------------------------------
\* The steps of the thread that make a request.

LEMMA TheseAreRequests ==
  /\ \A e \in Buf : DmaReq(e) \in Requests
  /\ \A c \in {"READ", "WRITE"}, d \in Die, b \in Block, p \in 0..(P - 1), e \in Entry :
       NandReq(c, d, b, p, e) \in Requests
  /\ \A d \in Die, b \in Block : NandReq("ERASE", d, b, P, NONE) \in Requests
BY DEF Requests

LEMMA Asks ==
  ASSUME FlowInv, NEW s \in Idle, NEW r \in Requests, NEW p \in PcValues \ {"select"},
         pc # "select", Running, Legal(r), Ask(s, r, p), freeReqQ' \in SUBSET Slot,
         r.code = "WRITE" => \A x \in Slot : req[x].code = "WRITE" /\ nextBlockingReq[x] = NONE
                                                => req[x].entry # r.entry,
         \A d \in Die : r.entry = <<"temp", d>> => r.die = d
  PROVE  /\ AnyStep
         /\ pc' = "select" /\ then' = p /\ Place = pc /\ Place' = p
         /\ slot = NONE /\ slot' = s /\ currentPage' = PagesAfter(r)
         /\ Idle' = Idle \ {s}
         /\ NextReads' /\ TempOfDie'
         /\ req'[s] = r
         /\ \A x \in Slot : x # s /\ req'[x].code = "WRITE" /\ nextBlockingReq'[x] = NONE =>
              /\ req[x].code = "WRITE" /\ nextBlockingReq[x] = NONE /\ req'[x] = req[x]
              /\ r.entry # NONE => req[x].entry # r.entry
<1>1. ThreadOk /\ s \in Slot
  BY DEF FlowInv, FlowParts, Idle
<1>2. /\ pc' = "select" /\ then' = p /\ currentPage' = PagesAfter(r) /\ slot' = s /\ MakeRequest(s, r)
  BY DEF Ask, MakeRequest
<1>3. slot = NONE /\ Place = pc /\ Place' = p
  BY <1>1, <1>2 DEF ThreadOk, Place
<1>4. Makes(s, r)
  BY <1>2, <1>3 DEF Makes
<1>5. AnyStep
  BY <1>1, <1>4 DEF AnyStep
<1>6. /\ NextReads' /\ TempOfDie'
      /\ req' = [req EXCEPT ![s] = r] /\ req'[s] = r
      /\ Idle' = Idle \ {s}
      /\ \A x \in Slot : x # s /\ req'[x].code = "WRITE" /\ nextBlockingReq'[x] = NONE =>
           /\ req[x].code = "WRITE" /\ nextBlockingReq[x] = NONE /\ req'[x] = req[x]
           /\ r.entry # NONE => req[x].entry # r.entry
    BY <1>1, <1>4, MadeFollows
<1> QED
  BY <1>2, <1>3, <1>5, <1>6

LEMMA DataReadKeeps ==
  ASSUME FlowInv, NEW s \in Slot, NEW d \in Die, NEW b \in Block, NEW p \in 0..(P - 1),
         DataReadFromNand(s, d, b, p)
  PROVE  AnyStep /\ FlowParts'
<1>1. /\ FlowTyped /\ ThreadOk /\ HeldOk /\ SlicesFit /\ BlocksOk /\ LastWrites
      /\ freeReqQ \in SUBSET Slot /\ NONE \notin Slot /\ freeReqQ \subseteq Idle
  BY FlowTypes DEF FlowInv, FlowParts
<1> DEFINE r == NandReq("READ", d, b, p, entry)
<1>2. /\ pc = "fetch" /\ Ask(s, r, "dma") /\ Running /\ p < currentPage[d][b]
      /\ s \in freeReqQ /\ freeReqQ' = freeReqQ \ {s}
      /\ left' = left /\ sliceReqQ' = sliceReqQ /\ slice' = slice /\ entry' = entry
      /\ evicting' = evicting
      /\ victim' = victim /\ live' = live /\ dirty' = dirty
      /\ currentBlock' = currentBlock /\ freeList' = freeList /\ target' = target
  BY DEF DataReadFromNand, GetFromFreeReqQ, sliceVars, gcVars, blockVars
<1>3. Place = "fetch" /\ entry \in Buf
  BY <1>1, <1>2 DEF Place, ThreadOk, FlowTyped
<1>4. r \in Requests /\ Legal(r) /\ r.code = "READ" /\ r.entry = entry
  <2>1. entry \in Entry
    BY <1>3 DEF Entry
  <2>2. r \in Requests
    BY <2>1, TheseAreRequests
  <2>3. r.code = "READ" /\ r.entry = entry /\ r.die = d /\ r.block = b /\ r.page = p
    BY DEF NandReq
  <2> QED
    BY <1>2, <2>2, <2>3 DEF Legal
<1>5. \A x \in Die : r.entry # <<"temp", x>>
  BY <1>3, <1>4, BufIsNotTemp DEF TempBuf
<1> HIDE DEF r
<1>6. /\ AnyStep
      /\ pc' = "select" /\ then' = "dma" /\ Place' = "dma" /\ slot' = s /\ currentPage' = PagesAfter(r)
      /\ Idle' = Idle \ {s} /\ NextReads' /\ TempOfDie' /\ req'[s] = r
      /\ \A x \in Slot : x # s /\ req'[x].code = "WRITE" /\ nextBlockingReq'[x] = NONE =>
           req[x].code = "WRITE" /\ nextBlockingReq[x] = NONE /\ req'[x] = req[x]
  BY <1>1, <1>2, <1>4, <1>5, Asks DEF PcValues
<1>7. currentPage' = currentPage
  BY <1>4, <1>6 DEF PagesAfter
<1>8. FlowTyped'
  BY <1>1, <1>2, <1>6 DEF FlowTyped, PcValues
<1>9. ThreadOk'
  BY <1>1, <1>2, <1>3, <1>6 DEF ThreadOk, Evicting, Collecting
<1>10. HeldOk' /\ SlicesFit' /\ BlocksOk'
  BY <1>1, <1>2, <1>6, <1>7 DEF HeldOk, Held, SlicesFit, InHand, BlocksOk, Collecting
<1>11. LastWrites'
  <2> SUFFICES ASSUME NEW x \in Slot, req'[x].code = "WRITE", nextBlockingReq'[x] = NONE
               PROVE  req'[x].entry \in TempBuf \/ req'[x].entry = entry'
    BY <1>6 DEF LastWrites
  <2>1. req[x].code = "WRITE" /\ nextBlockingReq[x] = NONE /\ req'[x] = req[x]
    BY <1>4, <1>6
  <2> QED
    BY <1>1, <1>2, <2>1 DEF LastWrites
<1> QED
  BY <1>6, <1>8, <1>9, <1>10, <1>11 DEF FlowParts

LEMMA SliceToDmaKeeps ==
  ASSUME FlowInv, NEW write \in BOOLEAN, SliceToDma(write)
  PROVE  AnyStep /\ FlowParts'
<1>1. /\ FlowTyped /\ ThreadOk /\ HeldOk /\ SlicesFit /\ BlocksOk /\ LastWrites
      /\ freeReqQ \in SUBSET Slot /\ NONE \notin Slot /\ NONE \notin Entry /\ Held \subseteq Idle
  BY FlowTypes DEF FlowInv, FlowParts
<1> DEFINE r == DmaReq(entry)
<1>2. /\ pc = "dma" /\ Ask(slice, r, "translate") /\ Running
      /\ freeReqQ' = freeReqQ /\ dirty' = [dirty EXCEPT ![entry] = @ \/ write]
      /\ left' = left /\ sliceReqQ' = sliceReqQ /\ slice' = NONE /\ entry' = NONE
      /\ evicting' = evicting
      /\ victim' = victim /\ live' = live
      /\ currentBlock' = currentBlock /\ freeList' = freeList /\ target' = target
  BY DEF SliceToDma, gcVars, blockVars
<1>3. Place = "dma" /\ entry \in Buf /\ slice \in Slot /\ evicting = NONE
  BY <1>1, <1>2 DEF Place, ThreadOk, FlowTyped, Evicting, SlotOrNone
<1>4. slice \in Held /\ slice \in Idle
  BY <1>1, <1>3 DEF Held
<1>5. r \in Requests /\ Legal(r) /\ r.code = "DMA" /\ r.entry = entry
  BY <1>3, TheseAreRequests DEF Legal, DmaReq, NoReq
<1>6. (\A x \in Die : r.entry # <<"temp", x>>) /\ r.entry # NONE
  BY <1>1, <1>3, <1>5, BufIsNotTemp DEF TempBuf, Entry
<1> HIDE DEF r
<1>7. /\ AnyStep
      /\ pc' = "select" /\ then' = "translate" /\ Place' = "translate" /\ slot' = slice
      /\ currentPage' = PagesAfter(r)
      /\ Idle' = Idle \ {slice} /\ NextReads' /\ TempOfDie' /\ req'[slice] = r
      /\ \A x \in Slot : x # slice /\ req'[x].code = "WRITE" /\ nextBlockingReq'[x] = NONE =>
           /\ req[x].code = "WRITE" /\ nextBlockingReq[x] = NONE /\ req'[x] = req[x]
           /\ r.entry # NONE => req[x].entry # r.entry
  BY <1>1, <1>2, <1>4, <1>5, <1>6, Asks DEF PcValues
<1>8. currentPage' = currentPage
  BY <1>5, <1>7 DEF PagesAfter
<1>9. FlowTyped'
  <2>1. dirty' \in [Buf -> BOOLEAN]
    BY <1>1, <1>2, <1>3 DEF FlowTyped
  <2> QED
    BY <1>1, <1>2, <1>7, <2>1 DEF FlowTyped, PcValues, SlotOrNone
<1>10. ThreadOk'
  BY <1>1, <1>2, <1>3, <1>7 DEF ThreadOk, Evicting, Collecting
<1>11. HeldOk'
  <2>1. Held' = Held \ {slice} /\ slice \notin freeReqQ
    BY <1>1, <1>2, <1>3, <1>4 DEF Held, HeldOk
  <2>2. NONE \notin ToSet(sliceReqQ')
    <3>1. ToSet(sliceReqQ) \subseteq Held
      BY DEF Held
    <3> QED
      BY <1>1, <1>2, <3>1 DEF HeldOk, Idle
  <2> QED
    BY <1>1, <1>2, <1>3, <1>7, <2>1, <2>2 DEF HeldOk
<1>12. SlicesFit'
  <2>1. Len(sliceReqQ) \in Nat /\ left \in Nat /\ MaxSlices \in Nat
    BY <1>1, CommandSize DEF FlowTyped
  <2> QED
    BY <1>1, <1>2, <1>3, <2>1 DEF SlicesFit, InHand
<1>13. BlocksOk'
  BY <1>1, <1>2, <1>7, <1>8 DEF BlocksOk, Collecting
<1>14. LastWrites'
  <2> SUFFICES ASSUME NEW x \in Slot, req'[x].code = "WRITE", nextBlockingReq'[x] = NONE
               PROVE  req'[x].entry \in TempBuf
    BY <1>7 DEF LastWrites
  <2>1. req[x].code = "WRITE" /\ nextBlockingReq[x] = NONE /\ req'[x] = req[x] /\ req[x].entry # entry
    BY <1>5, <1>6, <1>7
  <2> QED
    BY <1>1, <2>1 DEF LastWrites
<1> QED
  BY <1>7, <1>9, <1>10, <1>11, <1>12, <1>13, <1>14 DEF FlowParts
-----------------------------------------------------------------------------
\* The steps of the thread that write and erase.

\* A write goes to the open block of the die, or opens the first free one.
Opens(b) ==
  \/ b = currentBlock[target] /\ freeList' = freeList
  \/ freeList[target] # <<>> /\ b = Head(freeList[target])
     /\ freeList' = [freeList EXCEPT ![target] = Tail(@)]

LEMMA OpensKeeps ==
  ASSUME FlowInv, NEW b, Opens(b),
         currentBlock' = [currentBlock EXCEPT ![target] = b],
         currentPage' = [currentPage EXCEPT ![target][b] = @ + 1]
  PROVE  /\ b \in Block /\ currentBlock' \in [Die -> Block] /\ freeList' \in [Die -> Seq(Block)]
         /\ \A d \in Die :
              /\ IsInjective(freeList'[d])
              /\ \A c \in ToSet(freeList'[d]) : currentPage'[d][c] = 0 /\ c # currentBlock'[d]
<1>1. /\ BlocksOk /\ target \in Die /\ currentPage \in [Die -> [Block -> 0..P]]
      /\ currentBlock \in [Die -> Block] /\ freeList \in [Die -> Seq(Block)]
  BY FlowTypes DEF FlowInv, FlowParts, FlowTyped
<1>2. PICK q : q = freeList'[target]
  OBVIOUS
<1>3. /\ b \in Block /\ freeList' = [freeList EXCEPT ![target] = q] /\ q \in Seq(Block)
      /\ IsInjective(q) /\ ToSet(q) \subseteq ToSet(freeList[target]) /\ b \notin ToSet(q)
  <2>1. CASE b = currentBlock[target] /\ freeList' = freeList
    BY <1>1, <1>2, <2>1 DEF BlocksOk
  <2>2. CASE freeList[target] # <<>> /\ b = Head(freeList[target])
             /\ freeList' = [freeList EXCEPT ![target] = Tail(@)]
    <3>1. freeList[target] \in Seq(Block) /\ IsInjective(freeList[target])
      BY <1>1 DEF BlocksOk
    <3>2. q = Tail(freeList[target])
      BY <1>1, <1>2, <2>2
    <3>3. b \in Block /\ q \in Seq(Block)
      BY <2>2, <3>1, <3>2, HeadTailProperties
    <3>4. ToSet(q) = ToSet(freeList[target]) \ {b} /\ IsInjective(q)
      BY <2>2, <3>1, <3>2, TailSet
    <3> QED
      BY <2>2, <3>2, <3>3, <3>4
  <2> QED
    BY <2>1, <2>2 DEF Opens
<1>4. currentBlock' \in [Die -> Block] /\ freeList' \in [Die -> Seq(Block)]
  BY <1>1, <1>3
<1>5. ASSUME NEW d \in Die
      PROVE  /\ IsInjective(freeList'[d])
             /\ \A c \in ToSet(freeList'[d]) : currentPage'[d][c] = 0 /\ c # currentBlock'[d]
  <2>1. /\ IsInjective(freeList[d])
        /\ \A c \in ToSet(freeList[d]) : currentPage[d][c] = 0 /\ c # currentBlock[d]
    BY <1>1 DEF BlocksOk
  <2>2. CASE d = target
    <3>1. freeList'[d] = q /\ currentBlock'[d] = b
      BY <1>1, <1>3, <2>2
    <3>2. \A c : c # b => currentPage'[d][c] = currentPage[d][c]
      BY <1>1, <1>3, <2>2
    <3> QED
      BY <1>3, <2>1, <2>2, <3>1, <3>2
  <2>3. CASE d # target
    <3>1. freeList'[d] = freeList[d] /\ currentBlock'[d] = currentBlock[d] /\ currentPage'[d] = currentPage[d]
      BY <1>1, <1>3, <2>3
    <3> QED
      BY <2>1, <3>1
  <2> QED
    BY <2>2, <2>3
<1> QED
  BY <1>3, <1>4, <1>5

\* The next page of a block is written: it has one, and its write for the life
\* before is not waiting.
LEMMA WriteIsLegal ==
  ASSUME FlowInv, pc \in Evicting, NEW b \in Block, currentPage[target][b] < P, NEW e \in Entry
  PROVE  /\ NandReq("WRITE", target, b, currentPage[target][b], e) \in Requests
         /\ Legal(NandReq("WRITE", target, b, currentPage[target][b], e))
<1>1. /\ target \in Die /\ currentPage[target][b] \in 0..(P - 1) /\ slot = NONE /\ Place \in Evicting
  <2>1. target \in Die /\ currentPage[target][b] \in 0..P
    BY FlowTypes DEF FlowInv, FlowParts, FlowTyped
  <2> QED
    BY <2>1, Constants DEF FlowInv, FlowParts, ThreadOk, Place, Evicting
<1> DEFINE r == NandReq("WRITE", target, b, currentPage[target][b], e)
<1>2. /\ r.code = "WRITE" /\ r.die = target /\ r.block = b /\ r.page = currentPage[target][b]
  BY DEF NandReq
<1>3. r \in Requests
  BY <1>1, TheseAreRequests
<1>4. ~PageWaits(r)
  BY <1>1, <1>2, NoTwoLives DEF PageWaits, SameBlock
<1>5. Legal(r)
  BY <1>2, <1>4 DEF Legal
<1> QED
  BY <1>3, <1>5

LEMMA WriteBackKeeps ==
  ASSUME FlowInv, NEW b, pc \in {"find", "refind"}, Running, Opens(b), currentPage[target][b] < P,
         WriteBack(b)
  PROVE  AnyStep /\ FlowParts'
<1>1. /\ FlowTyped /\ ThreadOk /\ HeldOk /\ SlicesFit /\ BlocksOk /\ LastWrites
      /\ freeReqQ \in SUBSET Slot /\ NONE \notin Slot /\ NONE \notin Entry /\ Held \subseteq Idle
      /\ currentPage \in [Die -> [Block -> 0..P]]
      /\ \A x \in Slot : x \in Idle => nextBlockingReq[x] = NONE
  BY FlowTypes DEF FlowInv, FlowParts
<1> DEFINE r == NandReq("WRITE", target, b, currentPage[target][b], entry)
<1>2. /\ Ask(evicting, r, "fetch")
      /\ freeReqQ' = freeReqQ /\ dirty' = [dirty EXCEPT ![entry] = FALSE]
      /\ left' = left /\ sliceReqQ' = sliceReqQ /\ slice' = slice /\ entry' = entry
      /\ evicting' = NONE
      /\ victim' = victim /\ live' = live
      /\ currentBlock' = [currentBlock EXCEPT ![target] = b] /\ target' = (target + 1) % D
  BY DEF WriteBack, gcVars
<1>3. Place \in {"find", "refind"} /\ entry \in Buf /\ evicting \in Slot /\ slice # NONE
  BY <1>1 DEF Place, ThreadOk, FlowTyped, Evicting, SlotOrNone
<1>4. evicting \in Held /\ evicting \in Idle
  BY <1>1, <1>3 DEF Held
<1>5. b \in Block
  <2>1. freeList[target] \in Seq(Block) /\ currentBlock[target] \in Block
    BY <1>1 DEF FlowTyped
  <2> QED
    BY <2>1, HeadTailProperties DEF Opens
<1>6. /\ r \in Requests /\ Legal(r) /\ r.code = "WRITE" /\ r.entry = entry /\ r.die = target /\ r.block = b
  <2>1. entry \in Entry /\ pc \in Evicting
    BY <1>3 DEF Entry, Evicting
  <2> QED
    BY <1>5, <2>1, WriteIsLegal DEF NandReq
<1>7. (\A x \in Die : r.entry # <<"temp", x>>) /\ r.entry # NONE /\ r.entry \notin TempBuf
  BY <1>1, <1>3, <1>6, BufIsNotTemp DEF TempBuf, Entry
<1>8. \A x \in Slot : req[x].code = "WRITE" /\ nextBlockingReq[x] = NONE => req[x].entry # r.entry
  BY <1>1, <1>3, <1>7 DEF LastWrites
<1> HIDE DEF r
<1>9. /\ AnyStep
      /\ pc' = "select" /\ then' = "fetch" /\ Place' = "fetch" /\ slot' = evicting
      /\ currentPage' = PagesAfter(r)
      /\ Idle' = Idle \ {evicting} /\ NextReads' /\ TempOfDie' /\ req'[evicting] = r
      /\ \A x \in Slot : x # evicting /\ req'[x].code = "WRITE" /\ nextBlockingReq'[x] = NONE =>
           /\ req[x].code = "WRITE" /\ nextBlockingReq[x] = NONE /\ req'[x] = req[x]
           /\ r.entry # NONE => req[x].entry # r.entry
  <2>1. pc # "select" /\ "fetch" \in PcValues \ {"select"} /\ freeReqQ' \in SUBSET Slot
    BY <1>1, <1>2 DEF PcValues
  <2>2. \A d \in Die : r.entry = <<"temp", d>> => r.die = d
    BY <1>7
  <2>3. Running /\ Ask(evicting, r, "fetch") /\ freeReqQ' = freeReqQ
    BY <1>2
  <2>4. r \in Requests /\ Legal(r) /\ evicting \in Idle
    BY <1>4, <1>6
  <2>5. r.code = "WRITE" => \A x \in Slot : req[x].code = "WRITE" /\ nextBlockingReq[x] = NONE
                                              => req[x].entry # r.entry
    BY <1>8
  <2> QED
    BY <2>1, <2>2, <2>3, <2>4, <2>5, Asks
<1>10. currentPage' = [currentPage EXCEPT ![target][b] = @ + 1]
  BY <1>6, <1>9 DEF PagesAfter
<1>11. /\ currentBlock' \in [Die -> Block] /\ freeList' \in [Die -> Seq(Block)]
       /\ \A d \in Die :
            /\ IsInjective(freeList'[d])
            /\ \A c \in ToSet(freeList'[d]) : currentPage'[d][c] = 0 /\ c # currentBlock'[d]
  BY <1>2, <1>10, OpensKeeps
<1>12. FlowTyped'
  <2>1. dirty' \in [Buf -> BOOLEAN]
    BY <1>1, <1>2, <1>3 DEF FlowTyped
  <2>2. target' \in Die
    <3>1. target \in 0..(D - 1)
      BY <1>1 DEF FlowTyped, Die
    <3>2. (target + 1) % D \in 0..(D - 1)
      BY <3>1, Constants
    <3> QED
      BY <1>2, <3>2 DEF Die
  <2> QED
    BY <1>1, <1>2, <1>9, <1>11, <2>1, <2>2 DEF FlowTyped, PcValues, SlotOrNone
<1>13. ThreadOk'
  BY <1>1, <1>2, <1>3, <1>9 DEF ThreadOk, Evicting, Collecting
<1>14. HeldOk'
  <2>1. Held' = Held \ {evicting} /\ evicting \notin freeReqQ
    BY <1>1, <1>2, <1>3, <1>4 DEF Held, HeldOk
  <2>2. NONE \notin ToSet(sliceReqQ')
    <3>1. ToSet(sliceReqQ) \subseteq Held
      BY DEF Held
    <3> QED
      BY <1>1, <1>2, <3>1 DEF HeldOk, Idle
  <2> QED
    BY <1>1, <1>2, <1>3, <1>9, <2>1, <2>2 DEF HeldOk
<1>15. SlicesFit'
  BY <1>1, <1>2 DEF SlicesFit, InHand
<1>16. BlocksOk'
  BY <1>9, <1>11 DEF BlocksOk, Collecting
<1>17. LastWrites'
  <2> SUFFICES ASSUME NEW x \in Slot, req'[x].code = "WRITE", nextBlockingReq'[x] = NONE
               PROVE  req'[x].entry \in TempBuf \/ req'[x].entry = entry'
    BY <1>9 DEF LastWrites
  <2>1. CASE x = evicting
    BY <1>2, <1>6, <1>9, <2>1
  <2>2. CASE x # evicting
    <3>1. req[x].code = "WRITE" /\ nextBlockingReq[x] = NONE /\ req'[x] = req[x]
      BY <1>9, <2>2
    <3> QED
      BY <1>1, <1>3, <3>1 DEF LastWrites
  <2> QED
    BY <2>1, <2>2
<1> QED
  BY <1>9, <1>12, <1>13, <1>14, <1>15, <1>16, <1>17 DEF FlowParts

LEMMA WriteBacksKeep ==
  ASSUME FlowInv, WriteBackToCurrentBlock \/ WriteBackToFreeBlock
  PROVE  AnyStep /\ FlowParts'
<1>1. /\ target \in Die /\ freeList \in [Die -> Seq(Block)] /\ BlocksOk
  BY DEF FlowInv, FlowParts, FlowTyped
<1>2. CASE WriteBackToCurrentBlock
  <2> DEFINE b == currentBlock[target]
  <2>1. /\ pc \in {"find", "refind"} /\ Running /\ WriteBack(b) /\ Opens(b) /\ currentPage[target][b] < P
    BY <1>2 DEF WriteBackToCurrentBlock, Opens, HasRoom
  <2> QED
    BY <2>1, WriteBackKeeps
<1>3. CASE WriteBackToFreeBlock
  <2> DEFINE b == Head(freeList[target])
  <2>1. /\ pc \in {"find", "refind"} /\ Running /\ WriteBack(b)
        /\ Len(freeList[target]) > 1 /\ freeList' = [freeList EXCEPT ![target] = Tail(@)]
    BY <1>3 DEF WriteBackToFreeBlock, RESERVED_FREE_BLOCK_COUNT
  <2>2. freeList[target] # <<>>
    <3>1. Len(<<>>) = 0
      OBVIOUS
    <3> QED
      BY <2>1, <3>1
  <2>3. Opens(b)
    BY <2>1, <2>2 DEF Opens
  <2>4. b \in ToSet(freeList[target])
    <3>1. freeList[target] \in Seq(Block) /\ IsInjective(freeList[target])
      BY <1>1 DEF BlocksOk
    <3>2. b = freeList[target][1] /\ 1 \in 1..Len(freeList[target])
      BY <2>2, <3>1, TailSet
    <3> QED
      BY <3>1, <3>2 DEF ToSet
  <2>5. currentPage[target][b] < P
    <3>1. currentPage[target][b] = 0
      BY <1>1, <2>4 DEF BlocksOk
    <3> QED
      BY <3>1, Constants
  <2> QED
    BY <2>1, <2>3, <2>5, WriteBackKeeps
<1> QED
  BY <1>2, <1>3

LEMMA GcReadKeeps ==
  ASSUME FlowInv, NEW s \in Slot, NEW p \in live, GcRead(s, p)
  PROVE  AnyStep /\ FlowParts'
<1>1. /\ FlowTyped /\ ThreadOk /\ HeldOk /\ SlicesFit /\ BlocksOk /\ LastWrites
      /\ freeReqQ \in SUBSET Slot /\ NONE \notin Slot /\ NONE \notin Entry /\ freeReqQ \subseteq Idle
  BY FlowTypes DEF FlowInv, FlowParts
<1> DEFINE e == <<"temp", target>>
           r == NandReq("READ", target, victim, p, e)
<1>2. /\ pc = "gc" /\ Ask(s, r, "gcWrite") /\ Running
      /\ s \in freeReqQ /\ freeReqQ' = freeReqQ \ {s}
      /\ left' = left /\ sliceReqQ' = sliceReqQ /\ slice' = slice /\ entry' = entry
      /\ evicting' = evicting
      /\ victim' = victim /\ live' = live \ {p} /\ dirty' = dirty
      /\ currentBlock' = currentBlock /\ freeList' = freeList /\ target' = target
  BY DEF GcRead, GetFromFreeReqQ, sliceVars, blockVars
<1>3. /\ Place = "gc" /\ target \in Die /\ victim \in Block /\ p \in 0..(P - 1)
      /\ currentPage[target][victim] = P
  BY <1>1, <1>2 DEF Place, ThreadOk, FlowTyped, BlocksOk, Collecting
<1>4. e \in TempBuf /\ e \in Entry /\ e # NONE
  BY <1>1, <1>3 DEF TempBuf, Entry
<1>5. /\ r \in Requests /\ Legal(r) /\ r.code = "READ" /\ r.entry = e /\ r.die = target
  <2>1. r \in Requests
    BY <1>3, <1>4, TheseAreRequests
  <2>2. /\ r.code = "READ" /\ r.entry = e /\ r.die = target /\ r.block = victim /\ r.page = p
    BY DEF NandReq
  <2>3. p < currentPage[target][victim]
    BY <1>3, Constants
  <2> QED
    BY <2>1, <2>2, <2>3 DEF Legal
<1>6. \A d \in Die : r.entry = <<"temp", d>> => r.die = d
  BY <1>5
<1> HIDE DEF r
<1>7. /\ AnyStep
      /\ pc' = "select" /\ then' = "gcWrite" /\ Place' = "gcWrite" /\ slot' = s
      /\ currentPage' = PagesAfter(r)
      /\ Idle' = Idle \ {s} /\ NextReads' /\ TempOfDie' /\ req'[s] = r
      /\ \A x \in Slot : x # s /\ req'[x].code = "WRITE" /\ nextBlockingReq'[x] = NONE =>
           /\ req[x].code = "WRITE" /\ nextBlockingReq[x] = NONE /\ req'[x] = req[x]
           /\ r.entry # NONE => req[x].entry # r.entry
  <2>1. pc # "select" /\ "gcWrite" \in PcValues \ {"select"} /\ freeReqQ' \in SUBSET Slot
    BY <1>1, <1>2 DEF PcValues
  <2>2. Running /\ Ask(s, r, "gcWrite") /\ s \in Idle
    BY <1>1, <1>2
  <2>3. r \in Requests /\ Legal(r) /\ r.code # "WRITE"
    BY <1>5
  <2> QED
    BY <1>6, <2>1, <2>2, <2>3, Asks
<1>8. currentPage' = currentPage
  BY <1>5, <1>7 DEF PagesAfter
<1>9. FlowTyped'
  <2>1. live' \in SUBSET (0..(P - 1))
    BY <1>1, <1>2 DEF FlowTyped
  <2> QED
    BY <1>1, <1>2, <1>7, <2>1 DEF FlowTyped, PcValues
<1>10. ThreadOk'
  BY <1>1, <1>2, <1>3, <1>7 DEF ThreadOk, Evicting, Collecting
<1>11. HeldOk' /\ SlicesFit'
  BY <1>1, <1>2, <1>7 DEF HeldOk, Held, SlicesFit, InHand
<1>12. BlocksOk'
  BY <1>1, <1>2, <1>3, <1>7, <1>8 DEF BlocksOk
<1>13. LastWrites'
  <2> SUFFICES ASSUME NEW x \in Slot, req'[x].code = "WRITE", nextBlockingReq'[x] = NONE
               PROVE  req'[x].entry \in TempBuf /\ req'[x].entry # <<"temp", target'>>
    BY DEF LastWrites
  <2>1. x # s /\ r.entry # NONE
    BY <1>4, <1>5, <1>7
  <2>2. req[x].code = "WRITE" /\ nextBlockingReq[x] = NONE /\ req'[x] = req[x] /\ req[x].entry # e
    BY <1>5, <1>7, <2>1
  <2>3. req[x].entry \in TempBuf
    BY <1>1, <1>3, <2>2 DEF LastWrites
  <2> QED
    BY <1>2, <2>2, <2>3
<1> QED
  BY <1>7, <1>9, <1>10, <1>11, <1>12, <1>13 DEF FlowParts

\* The block of a copy has a page left, and is not the victim.
LEMMA CopyOpens ==
  ASSUME FlowInv, pc = "gcWrite", GcNeedsBlock => freeList[target] # <<>>, NEW b,
         b = IF GcNeedsBlock THEN Head(freeList[target]) ELSE currentBlock[target],
         freeList' = [freeList EXCEPT ![target] = IF GcNeedsBlock THEN Tail(@) ELSE @]
  PROVE  Opens(b) /\ b \in Block /\ currentPage[target][b] < P /\ b # victim
<1>1. /\ target \in Die /\ freeList \in [Die -> Seq(Block)] /\ currentBlock \in [Die -> Block]
      /\ BlocksOk /\ currentPage[target][victim] = P
  <2>1. Place = "gcWrite" /\ BlocksOk
    BY DEF Place, FlowInv, FlowParts
  <2> QED
    BY <2>1 DEF FlowInv, FlowParts, FlowTyped, BlocksOk, Collecting
<1>2. CASE GcNeedsBlock
  <2>1. freeList[target] # <<>> /\ b = Head(freeList[target])
        /\ freeList' = [freeList EXCEPT ![target] = Tail(@)]
    BY <1>2
  <2>2. freeList[target] \in Seq(Block) /\ IsInjective(freeList[target])
    BY <1>1 DEF BlocksOk
  <2>3. b \in ToSet(freeList[target]) /\ b \in Block
    <3>1. b = freeList[target][1] /\ 1 \in 1..Len(freeList[target])
      BY <2>1, <2>2, TailSet
    <3> QED
      BY <2>2, <3>1 DEF ToSet
  <2>4. currentPage[target][b] = 0
    BY <1>1, <2>3 DEF BlocksOk
  <2>5. currentPage[target][b] < P /\ currentPage[target][b] # P
    BY <2>4, Constants
  <2>6. Opens(b) /\ b # victim
    BY <1>1, <2>1, <2>5 DEF Opens
  <2> QED
    BY <2>3, <2>5, <2>6
<1>3. CASE ~GcNeedsBlock
  <2>1. b = currentBlock[target] /\ freeList' = [freeList EXCEPT ![target] = @]
    BY <1>3
  <2>2. freeList' = freeList
    BY <1>1, <2>1
  <2>3. b # victim /\ currentPage[target][b] < P
    BY <1>3, <2>1 DEF GcNeedsBlock, HasRoom
  <2> QED
    BY <1>1, <2>1, <2>2, <2>3 DEF Opens
<1> QED
  BY <1>2, <1>3

LEMMA GcWriteKeeps ==
  ASSUME FlowInv, NEW s \in Slot, GcWrite(s)
  PROVE  AnyStep /\ FlowParts'
<1>1. /\ FlowTyped /\ ThreadOk /\ HeldOk /\ SlicesFit /\ BlocksOk /\ LastWrites
      /\ freeReqQ \in SUBSET Slot /\ NONE \notin Slot /\ NONE \notin Entry /\ freeReqQ \subseteq Idle
      /\ currentPage \in [Die -> [Block -> 0..P]]
  BY FlowTypes DEF FlowInv, FlowParts
<1> DEFINE e == <<"temp", target>>
<1>2. PICK b : b = IF GcNeedsBlock THEN Head(freeList[target]) ELSE currentBlock[target]
  OBVIOUS
<1> DEFINE r == NandReq("WRITE", target, b, currentPage[target][b], e)
<1>3. /\ pc = "gcWrite" /\ Ask(s, r, "gc") /\ Running
      /\ s \in freeReqQ /\ freeReqQ' = freeReqQ \ {s}
      /\ left' = left /\ sliceReqQ' = sliceReqQ /\ slice' = slice /\ entry' = entry
      /\ evicting' = evicting
      /\ victim' = victim /\ live' = live /\ dirty' = dirty
      /\ currentBlock' = [currentBlock EXCEPT ![target] = b] /\ target' = target
  BY <1>2 DEF GcWrite, GetFromFreeReqQ, sliceVars, gcVars
<1>4. Opens(b) /\ b \in Block /\ currentPage[target][b] < P /\ b # victim
  <2>1. /\ GcNeedsBlock => freeList[target] # <<>>
        /\ freeList' = [freeList EXCEPT ![target] = IF GcNeedsBlock THEN Tail(@) ELSE @]
    BY DEF GcWrite
  <2> QED
    BY <1>2, <1>3, <2>1, CopyOpens
<1>5. /\ Place = "gcWrite" /\ target \in Die /\ victim \in Block
      /\ currentPage[target][victim] = P
  BY <1>1, <1>3 DEF Place, ThreadOk, FlowTyped, BlocksOk, Collecting
<1>6. e \in TempBuf /\ e \in Entry /\ e # NONE
  BY <1>1, <1>5 DEF TempBuf, Entry
<1>7. /\ r \in Requests /\ Legal(r) /\ r.code = "WRITE" /\ r.entry = e /\ r.die = target /\ r.block = b
  <2>1. pc \in Evicting
    BY <1>3 DEF Evicting
  <2> QED
    BY <1>4, <1>6, <2>1, WriteIsLegal DEF NandReq
<1>8. \A d \in Die : r.entry = <<"temp", d>> => r.die = d
  BY <1>7
<1>9. \A x \in Slot : req[x].code = "WRITE" /\ nextBlockingReq[x] = NONE => req[x].entry # r.entry
  BY <1>1, <1>5, <1>7 DEF LastWrites
<1> HIDE DEF r
<1>10. /\ AnyStep
       /\ pc' = "select" /\ then' = "gc" /\ Place' = "gc" /\ slot' = s
       /\ currentPage' = PagesAfter(r)
       /\ Idle' = Idle \ {s} /\ NextReads' /\ TempOfDie' /\ req'[s] = r
       /\ \A x \in Slot : x # s /\ req'[x].code = "WRITE" /\ nextBlockingReq'[x] = NONE =>
            /\ req[x].code = "WRITE" /\ nextBlockingReq[x] = NONE /\ req'[x] = req[x]
            /\ r.entry # NONE => req[x].entry # r.entry
  <2>1. pc # "select" /\ "gc" \in PcValues \ {"select"} /\ freeReqQ' \in SUBSET Slot
    BY <1>1, <1>3 DEF PcValues
  <2>2. Running /\ Ask(s, r, "gc") /\ s \in Idle
    BY <1>1, <1>3
  <2>3. r \in Requests /\ Legal(r)
    BY <1>7
  <2>4. r.code = "WRITE" => \A x \in Slot : req[x].code = "WRITE" /\ nextBlockingReq[x] = NONE
                                              => req[x].entry # r.entry
    BY <1>9
  <2> QED
    BY <1>8, <2>1, <2>2, <2>3, <2>4, Asks
<1>11. currentPage' = [currentPage EXCEPT ![target][b] = @ + 1]
  BY <1>7, <1>10 DEF PagesAfter
<1>12. /\ currentBlock' \in [Die -> Block] /\ freeList' \in [Die -> Seq(Block)]
       /\ \A d \in Die :
            /\ IsInjective(freeList'[d])
            /\ \A c \in ToSet(freeList'[d]) : currentPage'[d][c] = 0 /\ c # currentBlock'[d]
  BY <1>3, <1>4, <1>11, OpensKeeps
<1>13. FlowTyped'
  BY <1>1, <1>3, <1>10, <1>12 DEF FlowTyped, PcValues
<1>14. ThreadOk'
  BY <1>1, <1>3, <1>5, <1>10 DEF ThreadOk, Evicting, Collecting
<1>15. HeldOk' /\ SlicesFit'
  BY <1>1, <1>3, <1>10 DEF HeldOk, Held, SlicesFit, InHand
<1>16. BlocksOk'
  <2>1. currentBlock'[target'] = b /\ victim' # b
    BY <1>1, <1>3, <1>4, <1>5 DEF FlowTyped
  <2>2. currentPage'[target'][victim'] = P
    BY <1>1, <1>3, <1>4, <1>5, <1>11
  <2> QED
    BY <1>12, <2>1, <2>2 DEF BlocksOk
<1>17. LastWrites'
  <2> SUFFICES ASSUME NEW x \in Slot, req'[x].code = "WRITE", nextBlockingReq'[x] = NONE
               PROVE  req'[x].entry \in TempBuf
    BY <1>10 DEF LastWrites
  <2>1. CASE x = s
    BY <1>6, <1>7, <1>10, <2>1
  <2>2. CASE x # s
    <3>1. req[x].code = "WRITE" /\ nextBlockingReq[x] = NONE /\ req'[x] = req[x]
      BY <1>10, <2>2
    <3> QED
      BY <1>1, <1>5, <3>1 DEF LastWrites
  <2> QED
    BY <2>1, <2>2
<1> QED
  BY <1>10, <1>13, <1>14, <1>15, <1>16, <1>17 DEF FlowParts

LEMMA EraseBlockKeeps ==
  ASSUME FlowInv, NEW s \in Slot, EraseBlock(s)
  PROVE  AnyStep /\ FlowParts'
<1>1. /\ FlowTyped /\ ThreadOk /\ HeldOk /\ SlicesFit /\ BlocksOk /\ LastWrites
      /\ freeReqQ \in SUBSET Slot /\ NONE \notin Slot /\ NONE \notin Entry /\ freeReqQ \subseteq Idle
      /\ currentPage \in [Die -> [Block -> 0..P]]
  BY FlowTypes DEF FlowInv, FlowParts
<1> DEFINE r == NandReq("ERASE", target, victim, currentPage[target][victim], NONE)
<1>2. /\ pc = "gc" /\ Ask(s, r, "refind") /\ Running /\ live = {}
      /\ s \in freeReqQ /\ freeReqQ' = freeReqQ \ {s}
      /\ left' = left /\ sliceReqQ' = sliceReqQ /\ slice' = slice /\ entry' = entry
      /\ evicting' = evicting
      /\ victim' = NONE /\ live' = live /\ dirty' = dirty
      /\ currentBlock' = currentBlock /\ target' = target
      /\ freeList' = [freeList EXCEPT ![target] = Append(@, victim)]
  BY DEF EraseBlock, GetFromFreeReqQ, sliceVars
<1>3. /\ Place = "gc" /\ target \in Die /\ victim \in Block /\ slot = NONE
      /\ currentPage[target][victim] = P /\ victim # currentBlock[target]
  BY <1>1, <1>2 DEF Place, ThreadOk, FlowTyped, BlocksOk, Collecting
<1>4. ~rowAddrDependencyTable[target][victim].blockedEraseReqFlag
  <2>1. Place \in Evicting
    BY <1>3 DEF Evicting
  <2> QED
    BY <1>3, <2>1, NoTwoLives
<1>5. r \in Requests /\ Legal(r) /\ r.code = "ERASE" /\ r.entry = NONE /\ r.die = target /\ r.block = victim
  <2>1. r = NandReq("ERASE", target, victim, P, NONE)
    BY <1>3
  <2>2. r \in Requests
    BY <1>3, <2>1, TheseAreRequests
  <2>3. r.code = "ERASE" /\ r.entry = NONE /\ r.die = target /\ r.block = victim /\ r.page = P
    BY <2>1 DEF NandReq
  <2> QED
    BY <1>3, <1>4, <2>2, <2>3 DEF Legal, Row
<1>6. \A d \in Die : r.entry # <<"temp", d>>
  BY <1>1, <1>5 DEF TempBuf, Entry
<1> HIDE DEF r
<1>7. /\ AnyStep
      /\ pc' = "select" /\ then' = "refind" /\ Place' = "refind" /\ slot' = s
      /\ currentPage' = PagesAfter(r)
      /\ Idle' = Idle \ {s} /\ NextReads' /\ TempOfDie' /\ req'[s] = r
      /\ \A x \in Slot : x # s /\ req'[x].code = "WRITE" /\ nextBlockingReq'[x] = NONE =>
           req[x].code = "WRITE" /\ nextBlockingReq[x] = NONE /\ req'[x] = req[x]
  <2>1. pc # "select" /\ "refind" \in PcValues \ {"select"} /\ freeReqQ' \in SUBSET Slot
    BY <1>1, <1>2 DEF PcValues
  <2>2. Running /\ Ask(s, r, "refind") /\ s \in Idle
    BY <1>1, <1>2
  <2>3. r \in Requests /\ Legal(r) /\ r.code # "WRITE"
    BY <1>5
  <2> QED
    BY <1>6, <2>1, <2>2, <2>3, Asks
<1>8. currentPage' = [currentPage EXCEPT ![target][victim] = 0]
  BY <1>5, <1>7 DEF PagesAfter
<1>9. PICK q : q = freeList[target]
  OBVIOUS
<1>10. /\ q \in Seq(Block) /\ IsInjective(q) /\ victim \notin ToSet(q)
       /\ \A c \in ToSet(q) : currentPage[target][c] = 0 /\ c # currentBlock[target]
  <2>1. \A c \in ToSet(q) : currentPage[target][c] = 0
    BY <1>1, <1>3, <1>9 DEF BlocksOk
  <2>2. victim \notin ToSet(q)
    BY <1>3, <2>1, Constants
  <2> QED
    BY <1>1, <1>3, <1>9, <2>2 DEF BlocksOk, FlowTyped
<1>11. /\ Append(q, victim) \in Seq(Block) /\ IsInjective(Append(q, victim))
       /\ ToSet(Append(q, victim)) = ToSet(q) \cup {victim}
  BY <1>3, <1>10, AppendSet, AppendProperties
<1>12. freeList' = [freeList EXCEPT ![target] = Append(q, victim)] /\ freeList \in [Die -> Seq(Block)]
  BY <1>1, <1>2, <1>9 DEF FlowTyped
<1>13. freeList' \in [Die -> Seq(Block)]
  BY <1>11, <1>12
<1>14. BlocksOk'
  <2> SUFFICES ASSUME NEW d \in Die
               PROVE  /\ IsInjective(freeList'[d])
                      /\ \A b \in ToSet(freeList'[d]) : currentPage'[d][b] = 0 /\ b # currentBlock'[d]
    BY <1>7 DEF BlocksOk, Collecting
  <2>1. CASE d = target
    <3>1. freeList'[d] = Append(q, victim)
      BY <1>12, <2>1
    <3>2. currentPage'[d] = [currentPage[d] EXCEPT ![victim] = 0] /\ currentPage[d] \in [Block -> 0..P]
      BY <1>1, <1>3, <1>8, <2>1
    <3>3. ASSUME NEW b \in ToSet(q) \cup {victim}
          PROVE  currentPage'[d][b] = 0 /\ b # currentBlock'[d]
      BY <1>2, <1>3, <1>10, <2>1, <3>2
    <3> QED
      BY <1>11, <3>1, <3>3
  <2>2. CASE d # target
    <3>1. freeList'[d] = freeList[d] /\ currentPage'[d] = currentPage[d] /\ currentBlock'[d] = currentBlock[d]
      BY <1>1, <1>2, <1>8, <1>12, <2>2
    <3> QED
      BY <1>1, <3>1 DEF BlocksOk
  <2> QED
    BY <2>1, <2>2
<1>15. FlowTyped'
  BY <1>1, <1>2, <1>7, <1>13 DEF FlowTyped, PcValues
<1>16. ThreadOk'
  BY <1>1, <1>2, <1>3, <1>7 DEF ThreadOk, Evicting, Collecting
<1>17. HeldOk' /\ SlicesFit'
  BY <1>1, <1>2, <1>7 DEF HeldOk, Held, SlicesFit, InHand
<1>18. LastWrites'
  <2> SUFFICES ASSUME NEW x \in Slot, req'[x].code = "WRITE", nextBlockingReq'[x] = NONE
               PROVE  req'[x].entry \in TempBuf
    BY <1>7 DEF LastWrites
  <2>1. req[x].code = "WRITE" /\ nextBlockingReq[x] = NONE /\ req'[x] = req[x]
    BY <1>5, <1>7
  <2> QED
    BY <1>1, <1>3, <2>1 DEF LastWrites
<1> QED
  BY <1>7, <1>14, <1>15, <1>16, <1>17, <1>18 DEF FlowParts
-----------------------------------------------------------------------------
\* The invariant holds, and with it all that is inductive of RequestDep.

LEMMA InitFlow == Init => FlowInv
<1> SUFFICES ASSUME Init PROVE FlowInv
  OBVIOUS
<1>1. /\ DepInit /\ pc = "idle" /\ then = "idle" /\ left = 0 /\ sliceReqQ = <<>> /\ slice = NONE
      /\ entry = NONE /\ evicting = NONE /\ victim = NONE /\ live = {}
      /\ dirty = [e \in Buf |-> FALSE] /\ currentBlock = [d \in Die |-> 0]
      /\ freeList = [d \in Die |-> [i \in 1..(B - 1) |-> i]] /\ target = 0
  BY DEF Init
<1>2. /\ req = [s \in Slot |-> NoReq] /\ freeReqQ = Slot /\ slot = NONE
      /\ currentPage = [d \in Die |-> [b \in Block |-> 0]]
  BY <1>1 DEF DepInit
<1>3. OrderInv
  BY <1>1, InitOrder
<1>4. Place = "idle"
  BY <1>1 DEF Place
<1>5. /\ [i \in 1..(B - 1) |-> i] \in Seq(Block) /\ IsInjective([i \in 1..(B - 1) |-> i])
      /\ ToSet([i \in 1..(B - 1) |-> i]) = 1..(B - 1)
  <2>1. PICK n : n = B - 1 /\ n \in Nat
    BY Constants
  <2>2. PICK q : q = [i \in 1..n |-> i]
    OBVIOUS
  <2>3. \A i \in 1..n : i \in Block
    BY <2>1, Constants DEF Block
  <2>4. q \in Seq(Block)
    BY <2>1, <2>2, <2>3
  <2>5. DOMAIN q = 1..n /\ Len(q) = n /\ \A i \in 1..n : q[i] = i
    BY <2>1, <2>2
  <2>6. IsInjective(q) /\ ToSet(q) = 1..n
    BY <2>5 DEF IsInjective, ToSet
  <2> QED
    BY <2>1, <2>2, <2>4, <2>6
<1>6. FlowTyped
  <2>1. 0 \in Die /\ 0 \in Block /\ 0 \in 0..MaxSlices
    BY Constants, CommandSize DEF Die, Block
  <2>2. <<>> \in Seq(Slot)
    OBVIOUS
  <2> QED
    BY <1>1, <1>5, <2>1, <2>2 DEF FlowTyped, PcValues, SlotOrNone
<1>7. ThreadOk
  BY <1>1, <1>2, <1>4 DEF ThreadOk, Evicting, Collecting
<1>8. HeldOk
  <2>1. ToSet(sliceReqQ) = {} /\ IsInjective(sliceReqQ)
    BY <1>1 DEF ToSet, IsInjective
  <2>2. Held = {} /\ Idle = Slot
    BY <1>1, <1>2, <2>1 DEF Held, Idle, NoReq
  <2> QED
    BY <1>1, <1>2, <2>1, <2>2 DEF HeldOk
<1>9. SlicesFit
  <2>1. Len(sliceReqQ) = 0 /\ MaxSlices \in Nat
    BY <1>1, CommandSize
  <2> QED
    BY <1>1, <2>1 DEF SlicesFit, InHand
<1>10. BlocksOk
  <2> SUFFICES ASSUME NEW d \in Die
               PROVE  /\ IsInjective(freeList[d])
                      /\ \A b \in ToSet(freeList[d]) : currentPage[d][b] = 0 /\ b # currentBlock[d]
    BY <1>4 DEF BlocksOk, Collecting
  <2>1. IsInjective(freeList[d]) /\ ToSet(freeList[d]) = 1..(B - 1)
    BY <1>1, <1>5
  <2>2. \A b \in 1..(B - 1) : b \in Block /\ b # 0
    BY Constants DEF Block
  <2> QED
    BY <1>1, <1>2, <2>1, <2>2
<1>11. NextReads /\ LastWrites /\ TempOfDie
  <2>1. \A s \in Slot : req[s].code = "NONE" /\ req[s].entry = NONE
    BY <1>2 DEF NoReq
  <2>2. \A d \in Die : <<"temp", d>> \in Entry
    BY DEF Entry, TempBuf
  <2> QED
    BY <2>1, <2>2, RequestNone DEF NextReads, LastWrites, TempOfDie
<1> QED
  BY <1>3, <1>6, <1>7, <1>8, <1>9, <1>10, <1>11 DEF FlowInv, FlowParts

LEMMA NextKeepsFlow == ASSUME FlowInv, Next PROVE AnyStep /\ FlowParts'
<1>1. ASSUME NEW s \in Slot, NewRequest(s) PROVE AnyStep /\ FlowParts'
  BY <1>1, PutToSliceReqQKeeps, DataReadKeeps, EvictKeeps, GcReadKeeps, GcWriteKeeps, EraseBlockKeeps
     DEF NewRequest
<1>2. CASE Translate
  BY <1>2, GetFromSliceReqQKeeps, SliceReqQEmptyKeeps, NothingToReadKeeps, SliceToDmaKeeps,
     SelectedKeepsFlow, WriteBacksKeep, GarbageCollectionKeeps DEF Translate
<1>3. CASE RunScheduler \/ Pass
  BY <1>3, PassKeepsFlow
<1>4. ASSUME NEW n \in 1..MaxSlices, TakeCommand(n) PROVE AnyStep /\ FlowParts'
  BY <1>4, TakeCommandKeeps
<1> QED
  BY <1>1, <1>2, <1>3, <1>4 DEF Next, FlowThread

LEMMA StepKeepsFlow == ASSUME FlowInv, [Next]_vars PROVE FlowInv'
<1>1. OrderInv
  BY DEF FlowInv
<1>2. CASE Next
  <2>1. AnyStep /\ FlowParts'
    BY <1>2, NextKeepsFlow
  <2>2. OrderInv'
    BY <1>1, <2>1, StepKeepsOrder
  <2> QED
    BY <2>1, <2>2 DEF FlowInv
<1>3. CASE UNCHANGED vars
  <2>1. UNCHANGED depVars /\ UNCHANGED flowVars
    BY <1>3 DEF vars
  <2>2. OrderInv'
    BY <1>1, <2>1, OrderStutter
  <2>3. /\ pc' = pc /\ then' = then /\ left' = left /\ sliceReqQ' = sliceReqQ /\ slice' = slice
        /\ entry' = entry /\ evicting' = evicting /\ victim' = victim /\ live' = live
        /\ dirty' = dirty /\ currentBlock' = currentBlock /\ freeList' = freeList
        /\ target' = target
    BY <2>1 DEF flowVars, sliceVars, gcVars, blockVars
  <2>4. /\ req' = req /\ nextBlockingReq' = nextBlockingReq /\ freeReqQ' = freeReqQ
        /\ slot' = slot /\ currentPage' = currentPage
    BY <2>1 DEF depVars, tables, chainVars, caller
  <2>5. Place' = Place /\ Held' = Held /\ Idle' = Idle
    BY <2>3, <2>4 DEF Place, Held, Idle
  <2>6. FlowTyped' /\ ThreadOk' /\ SlicesFit' /\ BlocksOk' /\ HeldOk'
    BY <2>3, <2>4, <2>5 DEF FlowInv, FlowParts, FlowTyped, ThreadOk, SlicesFit, InHand, BlocksOk, HeldOk
  <2>7. NextReads' /\ LastWrites' /\ TempOfDie'
    BY <2>3, <2>4, <2>5 DEF FlowInv, FlowParts, NextReads, LastWrites, TempOfDie
  <2> QED
    BY <2>2, <2>6, <2>7 DEF FlowInv, FlowParts
<1> QED
  BY <1>2, <1>3

\* The thread never holds as many slots as there are if the pool has two more
\* than a command has slices: one for a write-back and one for a request of the
\* collection it starts.
LEMMA FittingHoldsFewer ==
  ASSUME FlowInv, MaxSlices + 2 <= Cardinality(Slot)
  PROVE  ~HoldsAll
<1> SUFFICES ASSUME HoldsAll PROVE FALSE
  OBVIOUS
<1>1. HeldOk /\ SlicesFit /\ FlowTyped
  BY DEF FlowInv, FlowParts
<1>2. Slot = Held
  BY DEF HoldsAll
<1>3. PICK n, m, h : n = Len(sliceReqQ) /\ m = Cardinality(ToSet(sliceReqQ)) /\ h = Cardinality(Held)
  OBVIOUS
<1>4. n \in Nat /\ left \in Nat /\ MaxSlices \in Nat /\ MaxSlices + 2 <= h
  BY <1>1, <1>2, <1>3, CommandSize DEF FlowTyped
<1>5. IsFiniteSet(ToSet(sliceReqQ)) /\ m \in Nat /\ m <= n
  <2>1. IsFiniteSet(1..n) /\ Cardinality(1..n) = n
    <3>1. 1 \in Int /\ n \in Int
      BY <1>4
    <3>2. IsFiniteSet(1..n) /\ Cardinality(1..n) = IF 1 > n THEN 0 ELSE n - 1 + 1
      BY <3>1, FS_Interval
    <3> QED
      BY <1>4, <3>2
  <2>2. DOMAIN sliceReqQ = 1..n /\ sliceReqQ \in [1..n -> ToSet(sliceReqQ)]
    BY <1>1, <1>3 DEF FlowTyped, ToSet
  <2>3. sliceReqQ \in Surjection(1..n, ToSet(sliceReqQ))
    BY <2>2 DEF Surjection, ToSet
  <2>4. IsFiniteSet(ToSet(sliceReqQ)) /\ Cardinality(ToSet(sliceReqQ)) <= Cardinality(1..n)
    BY <2>1, <2>3, FS_Surjection
  <2>5. Cardinality(ToSet(sliceReqQ)) \in Nat
    BY <2>4, FS_CardinalityType
  <2> QED
    BY <1>3, <2>1, <2>4, <2>5
<1>6. h <= m + InHand + 1
  <2> DEFINE A == ToSet(sliceReqQ)
             A1 == IF slice = NONE THEN A ELSE A \cup {slice}
             A2 == IF evicting = NONE THEN A1 ELSE A1 \cup {evicting}
  <2>1. Held = A2
    BY DEF Held
  <2>2. IsFiniteSet(A1) /\ Cardinality(A1) <= m + InHand /\ Cardinality(A1) \in Nat
    <3>1. CASE slice = NONE
      BY <1>3, <1>5, <3>1 DEF InHand
    <3>2. CASE slice # NONE
      <4>1. slice \notin A
        BY <1>1 DEF HeldOk
      <4>2. IsFiniteSet(A \cup {slice}) /\ Cardinality(A \cup {slice}) = Cardinality(A) + 1
        BY <1>5, <4>1, FS_AddElement
      <4> QED
        BY <1>3, <1>5, <3>2, <4>2 DEF InHand
    <3> QED
      BY <3>1, <3>2
  <2>3. InHand \in Nat
    BY DEF InHand
  <2> HIDE DEF A1
  <2>4. CASE evicting = NONE
    BY <1>3, <1>5, <2>1, <2>2, <2>3, <2>4
  <2>5. CASE evicting # NONE
    <3>1. Cardinality(A1 \cup {evicting}) = IF evicting \in A1 THEN Cardinality(A1) ELSE Cardinality(A1) + 1
      BY <2>2, FS_AddElement
    <3> QED
      BY <1>3, <1>5, <2>1, <2>2, <2>3, <2>5, <3>1
  <2> QED
    BY <2>4, <2>5
<1>7. InHand \in Nat /\ n + left + InHand <= MaxSlices
  BY <1>1, <1>3 DEF SlicesFit, InHand
<1>8. h \in Nat
  BY <1>2, <1>3, SlotsFinite, FS_CardinalityType
<1> QED
  BY <1>4, <1>5, <1>6, <1>7, <1>8

\* A slot that asks for something is low-level, unless the thread selects it.
LEMMA AskedIsLowLevel ==
  ASSUME FlowInv, slot = NONE, NEW s \in Slot
  PROVE  s \notin Idle <=> s \in LowLevel
<1>1. s \in Outstanding <=> s \notin Idle
  BY OutstandingIs DEF FlowInv, OrderInv, OrderlyInv, OutIs
<1> QED
  BY <1>1 DEF Outstanding, Hand

\* What can run is a request that has been handed to the lower layer.
LEMMA RunsFromLowLevel ==
  ASSUME FlowInv, SomethingCanRun
  PROVE  \E s \in Slot : s \in LowLevel
<1>1. LowLevel \subseteq Slot
  BY OutstandingIs DEF FlowInv, OrderInv, OrderlyInv, OutIs, Outstanding
<1>2. \E s : s \in LowLevel
  <2>1. CASE nvmeDmaReqQ # <<>>
    <3>1. nvmeDmaReqQ \in Seq(Slot)
      BY OrderTypes DEF FlowInv
    <3>2. nvmeDmaReqQ[1] \in ToSet(nvmeDmaReqQ)
      BY <2>1, <3>1 DEF ToSet
    <3> QED
      BY <3>2 DEF LowLevel
  <2>2. CASE InNand # {}
    BY <2>2 DEF LowLevel
  <2>3. CASE \E s \in RowBlocked : RowAddrPass(req[s])
    BY <2>3 DEF LowLevel
  <2> QED
    BY <2>1, <2>2, <2>3 DEF SomethingCanRun
<1> QED
  BY <1>1, <1>2

LEMMA FlowSpinsOnlyAlone == FlowInv => SpinsOnlyAlone
<1> SUFFICES ASSUME FlowInv, Waiting, Running PROVE SomethingCanRun <=> ~HoldsAll
  BY DEF SpinsOnlyAlone
<1>1. /\ OrderInv /\ NeverStuck /\ RowTableExact /\ ThreadOk /\ HeldOk
      /\ NONE \notin Slot /\ slot \in SlotOrNone /\ Idle \subseteq Slot
  BY OrderInvRuns, OrderInvTable, FlowTypes DEF FlowInv, FlowParts
<1>2. CASE WantsSlot /\ freeReqQ = {}
  <2>1. slot = NONE
    BY <1>1, <1>2 DEF ThreadOk, WantsSlot
  <2>2. HoldsAll <=> Idle = Slot
    BY <1>1, <1>2 DEF HeldOk, HoldsAll
  <2>3. SomethingCanRun <=> \E s \in Slot : s \in LowLevel
    <3>1. ASSUME SomethingCanRun PROVE \E s \in Slot : s \in LowLevel
      BY <3>1, RunsFromLowLevel DEF FlowInv
    <3>2. ASSUME NEW s \in Slot, s \in LowLevel PROVE SomethingCanRun
      <4>1. CASE s \in Blocked
        BY <1>1, <4>1 DEF NeverStuck
      <4>2. CASE s \in ToSet(nvmeDmaReqQ)
        BY <4>2 DEF ToSet, SomethingCanRun
      <4>3. CASE s \in InNand
        BY <4>3 DEF SomethingCanRun
      <4> QED
        BY <3>2, <4>1, <4>2, <4>3, BlockedParts DEF LowLevel, BlockedIs
    <3> QED
      BY <3>1, <3>2
  <2>4. \A s \in Slot : s \notin Idle <=> s \in LowLevel
    BY <2>1, AskedIsLowLevel
  <2> QED
    BY <1>1, <2>2, <2>3, <2>4
<1>3. CASE pc = "select" /\ MustSyncErase(slot)
  <2>1. slot \in Slot /\ req[slot].code = "READ" /\ Row(req[slot]).blockedEraseReqFlag
    BY <1>1, <1>3 DEF ThreadOk, SlotOrNone, MustSyncErase
  <2>2. PICK d \in Die, b \in Block : req[slot].die = d /\ req[slot].block = b
    BY <2>1, FlowTypes DEF ReqType
  <2>3. rowAddrDependencyTable[d][b].blockedEraseReqFlag
    BY <2>1, <2>2 DEF Row
  <2>4. rowAddrDependencyTable[d][b].blockedEraseReqFlag = (BlockedFor(d, b, "ERASE") # {})
    BY <1>1 DEF RowTableExact
  <2>5. Blocked # {}
    BY <2>3, <2>4 DEF BlockedFor
  <2>6. slot \notin Idle
    BY <2>1 DEF Idle
  <2>7. ~HoldsAll
    BY <1>1, <2>1, <2>6 DEF HeldOk, HoldsAll
  <2> QED
    BY <1>1, <2>5, <2>7 DEF NeverStuck
<1> QED
  BY <1>2, <1>3 DEF Waiting

\* Every variable of the thread and of the lower layer keeps its type: what is
\* taken from the slice queue, from a free list and from the pool is there, and
\* no page beyond the last of a block is given out.  (ReqTransSliceToLowLevel,
\* FindFreeVirtualSlice, GarbageCollection.)
THEOREM FlowTypesAlwaysRight == Spec => []TypeOK
<1>1. FlowInv => TypeOK
  BY DEF FlowInv, FlowParts, FlowTyped, OrderInv, OrderlyInv, SlotsInv, DepInv, TypeOK
<1> QED
  BY <1>1, InitFlow, StepKeepsFlow, PTL DEF Spec

\* For commands of any size: when SyncAvailFreeReq waits for a slot, or
\* SyncReleaseEraseReq for an erase, there is something the scheduler can run if
\* and only if the thread does not hold every slot itself, whatever the requests
\* wait for.  Nothing else ever makes the firmware hang in these two loops, and
\* a command whose slices take the whole pool does.
THEOREM ThreadSpinsOnlyAlone == Spec => []SpinsOnlyAlone
BY InitFlow, StepKeepsFlow, FlowSpinsOnlyAlone, PTL DEF Spec

\* So a host that sends no command of more slices than the pool has slots, less
\* two, never sees the firmware hang there.  (The firmware does not refuse larger
\* ones: identify announces more to the host.)
THEOREM FittingCommandsNeverSpin ==
  ASSUME MaxSlices + 2 <= Cardinality(Slot)
  PROVE  Spec => [](Waiting /\ Running => SomethingCanRun)
<1>1. FlowInv => (Waiting /\ Running => SomethingCanRun)
  BY FlowSpinsOnlyAlone, FittingHoldsFewer DEF SpinsOnlyAlone
<1> QED
  BY <1>1, InitFlow, StepKeepsFlow, PTL DEF Spec

\* The requests the firmware makes run in the order they were made wherever
\* the order matters. (CheckBufDep and CheckRowAddrDep.)
THEOREM FirmwareOrderKept == Spec => []OrderKept
<1>1. FlowInv => OrderKept
  BY OrderInvOrder DEF FlowInv
<1> QED
  BY <1>1, InitFlow, StepKeepsFlow, PTL DEF Spec
-----------------------------------------------------------------------------
\* The thread as a caller of RequestDep: the slots it has taken and asked nothing
\* for are free there.

\* The operators of RequestDep that the number of free slots has no part in.
LEMMA DepConstants ==
  /\ Dep!Die = Die /\ Dep!Block = Block /\ Dep!Entry = Entry
  /\ Dep!Running = Running /\ Dep!OutOfPass = OutOfPass /\ Dep!NoReq = NoReq
  /\ \A r, q : Dep!Conflict(r, q) = Conflict(r, q)
  /\ \A r : Dep!Row(r) = Row(r)
  /\ \A r : Dep!RowAddrPass(r) = RowAddrPass(r)
  /\ \A r, c : Dep!RowAfterPass(r, c) = RowAfterPass(r, c)
  /\ \A r : Dep!RowAfterBlock(r) = RowAfterBlock(r)
  /\ Dep!Requests = Requests
  /\ \A q : Dep!ToSet(q) = ToSet(q)
  /\ \A q, i : Dep!RemoveAt(q, i) = RemoveAt(q, i)
<1>1. Dep!Die = Die /\ Dep!Block = Block /\ Dep!Entry = Entry
  BY DEF Dep!Die, Dep!Block, Dep!Entry, Die, Block, Entry, TempBuf, Dep!TempBuf
<1>2. Dep!Running = Running /\ Dep!OutOfPass = OutOfPass /\ Dep!NoReq = NoReq
  BY DEF Dep!Running, Running, Dep!OutOfPass, OutOfPass, Dep!NoReq, NoReq
<1>3. ASSUME NEW r, NEW q PROVE Dep!Conflict(r, q) = Conflict(r, q)
  BY DEF Dep!Conflict, Conflict, Dep!SameBlock, SameBlock
<1>4. ASSUME NEW r PROVE Dep!Row(r) = Row(r)
  BY DEF Dep!Row, Row
<1>5. ASSUME NEW r PROVE Dep!RowAddrPass(r) = RowAddrPass(r)
  BY <1>4 DEF Dep!RowAddrPass, RowAddrPass
<1>6. ASSUME NEW r, NEW c PROVE Dep!RowAfterPass(r, c) = RowAfterPass(r, c)
  BY <1>4, Zenon DEF Dep!RowAfterPass, RowAfterPass
<1>7. ASSUME NEW r PROVE Dep!RowAfterBlock(r) = RowAfterBlock(r)
  BY <1>4, Zenon DEF Dep!RowAfterBlock, RowAfterBlock
<1>8. Dep!Requests = Requests
  BY <1>1, <1>2 DEF Dep!Requests, Requests, DmaReq, Dep!DmaReq, NandReq, Dep!NandReq
<1>9. ASSUME NEW q PROVE Dep!ToSet(q) = ToSet(q)
  BY DEF Dep!ToSet, ToSet
<1>10. ASSUME NEW q, NEW i PROVE Dep!RemoveAt(q, i) = RemoveAt(q, i)
  BY DEF Dep!RemoveAt, RemoveAt
<1> QED
  BY <1>1, <1>2, <1>3, <1>4, <1>5, <1>6, <1>7, <1>8, <1>9, <1>10

LEMMA DepEnter ==
  ASSUME NEW s, NEW counted, NEW dma, NEW nand, NEW running, NEW blocked
  PROVE  Enter(s, counted, dma, nand, running, blocked) => Dep!Enter(s, counted, dma, nand, running, blocked)
BY DepConstants DEF Enter, Dep!Enter, SetRow, Dep!SetRow

LEMMA DepMake ==
  ASSUME NEW s, NEW r
  PROVE  /\ MakeRequest(s, r) => Dep!MakeRequest(s, r)
         /\ Legal(r) => Dep!Legal(r)
         /\ Dep!PagesAfter(r) = PagesAfter(r)
<1>1. MakeRequest(s, r) => Dep!MakeRequest(s, r)
  BY DepConstants DEF MakeRequest, Dep!MakeRequest, lowQueues, Dep!lowQueues, counters, Dep!counters
<1>2. Dep!PageWaits(r) = PageWaits(r)
  BY DepConstants DEF PageWaits, Dep!PageWaits, Blocked, Dep!Blocked, SameBlock, Dep!SameBlock
<1>3. Legal(r) => Dep!Legal(r)
  BY <1>2, DepConstants DEF Legal, Dep!Legal
<1>4. Dep!PagesAfter(r) = PagesAfter(r)
  BY Zenon DEF PagesAfter, Dep!PagesAfter
<1> QED
  BY <1>1, <1>3, <1>4

LEMMA DepSelect ==
  ASSUME Select, UNCHANGED (freeReqQ \cup Held)
  PROVE  Dep!Select
<1>1. Enter(slot, FALSE, nvmeDmaReqQ, nandReqQ, notCompletedNandReqCnt, blockedReqCnt) =>
        Dep!Enter(slot, FALSE, nvmeDmaReqQ, nandReqQ, notCompletedNandReqCnt, blockedReqCnt)
  BY DepEnter
<1> QED
  BY <1>1, DepConstants DEF Select, Dep!Select, SelectLowLevelReqQ, Dep!SelectLowLevelReqQ,
     CheckBufDep, Dep!CheckBufDep, MustSyncErase, Dep!MustSyncErase, SetRow, Dep!SetRow,
     chainVars, Dep!chainVars

LEMMA DepComplete ==
  ASSUME NEW s, NEW dma, NEW nand, NEW running, Complete(s, dma, nand, running), Held' = Held
  PROVE  Dep!Complete(s, dma, nand, running)
<1> DEFINE t == nextBlockingReq[s]
<1>1. Enter(t, TRUE, dma, nand, running, blockedReqCnt - 1) =>
        Dep!Enter(t, TRUE, dma, nand, running, blockedReqCnt - 1)
  BY DepEnter
<1>2. (freeReqQ \cup Held)' = (freeReqQ \cup Held) \cup {s}
  BY DEF Complete
<1>3. TailAfter(s) = Dep!TailAfter(s)
  BY DEF TailAfter, Dep!TailAfter
<1>4. WaitsForBuf(t) = Dep!WaitsForBuf(t)
  BY DEF WaitsForBuf, Dep!WaitsForBuf
<1> QED
  BY <1>1, <1>2, <1>3, <1>4, DepConstants DEF Complete, Dep!Complete, caller, Dep!caller

LEMMA DepPass ==
  ASSUME PassStep, Held' = Held
  PROVE  Dep!PassStep
<1> USE DEF tables, Dep!tables, chainVars, Dep!chainVars, lowQueues, Dep!lowQueues,
            counters, Dep!counters, caller, Dep!caller
<1>1. ASSUME CheckDoneNvmeDmaReq PROVE Dep!CheckDoneNvmeDmaReq
  <2>1. Complete(nvmeDmaReqQ[pass.i], RemoveAt(nvmeDmaReqQ, pass.i), nandReqQ, notCompletedNandReqCnt)
    BY <1>1 DEF CheckDoneNvmeDmaReq
  <2>2. Dep!Complete(nvmeDmaReqQ[pass.i], RemoveAt(nvmeDmaReqQ, pass.i), nandReqQ,
                     notCompletedNandReqCnt)
    BY <2>1, DepComplete
  <2> QED
    BY <1>1, <2>2, DepConstants DEF CheckDoneNvmeDmaReq, Dep!CheckDoneNvmeDmaReq
<1>2. ASSUME CheckDoneEnds PROVE Dep!CheckDoneEnds
  BY <1>2 DEF CheckDoneEnds, Dep!CheckDoneEnds
<1>3. \A d, q : Dep!AfterStatus(d, q) = AfterStatus(d, q)
  BY DEF AfterStatus, Dep!AfterStatus
<1>4. \A d : Dep!NextDie(d) = NextDie(d)
  BY DepConstants DEF NextDie, Dep!NextDie
<1>5. ASSUME NEW d \in Die, FinishNandReq(d) PROVE Dep!FinishNandReq(d)
  <2>1. Dep!Complete(Head(nandReqQ[d]), nvmeDmaReqQ, [nandReqQ EXCEPT ![d] = Tail(@)],
                     notCompletedNandReqCnt - 1)
    BY <1>5, DepComplete DEF FinishNandReq
  <2> QED
    BY <1>3, <1>5, <2>1 DEF FinishNandReq, Dep!FinishNandReq
<1>6. ASSUME NEW d \in Die, DieIdle(d) PROVE Dep!DieIdle(d)
  BY <1>3, <1>6 DEF DieIdle, Dep!DieIdle
<1>7. ASSUME NEW d \in Die, ReleaseBlockedByRowAddrDepReq(d) PROVE Dep!ReleaseBlockedByRowAddrDepReq(d)
  BY <1>7, DepConstants DEF ReleaseBlockedByRowAddrDepReq, Dep!ReleaseBlockedByRowAddrDepReq,
     SetRow, Dep!SetRow
<1>8. ASSUME NEW d \in Die, ReleaseEnds(d) PROVE Dep!ReleaseEnds(d)
  BY <1>8 DEF ReleaseEnds, Dep!ReleaseEnds
<1>9. ASSUME NEW d \in Die, IssueNandReq(d) PROVE Dep!IssueNandReq(d)
  BY <1>4, <1>9 DEF IssueNandReq, Dep!IssueNandReq
<1>10. ASSUME NEW d \in Die, LeaveDie(d) PROVE Dep!LeaveDie(d)
  BY <1>4, <1>10 DEF LeaveDie, Dep!LeaveDie
<1> QED
  BY <1>1, <1>2, <1>5, <1>6, <1>7, <1>8, <1>9, <1>10, DepConstants DEF PassStep, Dep!PassStep

LEMMA DepSchedule ==
  ASSUME FlowInv, RunScheduler
  PROVE  Dep!Schedule
<1>1. /\ StartPass /\ UNCHANGED flowVars
      /\ Waiting \/ pc = "idle"
      /\ ThreadOk
  BY DEF RunScheduler, FlowInv, FlowParts
<1>2. slot # NONE => MustSyncErase(slot)
  BY <1>1 DEF ThreadOk, Waiting, WantsSlot
<1>3. (freeReqQ \cup Held)' = freeReqQ \cup Held
  BY <1>1 DEF StartPass, Held, flowVars, sliceVars
<1> QED
  BY <1>1, <1>2, <1>3, DepConstants DEF Dep!Schedule,
     MustSyncErase, Dep!MustSyncErase, StartPass, Dep!StartPass,
     tables, Dep!tables, chainVars, Dep!chainVars, lowQueues, Dep!lowQueues,
     counters, Dep!counters, caller, Dep!caller

LEMMA DepRequest ==
  ASSUME FlowInv, HeldOk', NEW s \in Slot, NEW r \in Requests, Makes(s, r)
  PROVE  Dep!Request(s, r)
<1>1. /\ Running /\ slot = NONE /\ s \in Idle /\ Legal(r) /\ MakeRequest(s, r)
      /\ currentPage' = PagesAfter(r)
  BY DEF Makes
<1>2. freeReqQ \cup Held = Idle /\ (freeReqQ \cup Held)' = Idle'
  BY DEF HeldOk, FlowInv, FlowParts
<1>3. Idle' = Idle \ {s}
  <2>1. req' = [req EXCEPT ![s] = r] /\ req \in [Slot -> ReqType]
    BY <1>1, FlowTypes DEF MakeRequest
  <2> QED
    BY <2>1, IdleAfter, RequestHasCode
<1>4. Dep!Legal(r) /\ Dep!MakeRequest(s, r) /\ Dep!PagesAfter(r) = PagesAfter(r)
  BY <1>1, DepMake
<1>5. Dep!Running
  BY <1>1, DepConstants
<1> QED
  BY <1>1, <1>2, <1>3, <1>4, <1>5 DEF Dep!Request

\* No other step begins a pass, or is taken in one.
OwnStep == (\E s \in Slot : NewRequest(s)) \/ Translate \/ \E n \in 1..MaxSlices : TakeCommand(n)
LEMMA OwnStepsPass == ASSUME OwnStep PROVE Running /\ pass' = pass
<1>1. \A s, r, p : Ask(s, r, p) => pass' = pass
  BY DEF Ask, MakeRequest
<1>2. \A p : GoTo(p) => pass' = pass
  BY DEF GoTo
<1>3. ASSUME NEW s \in Slot, NewRequest(s) PROVE Running /\ pass' = pass
  BY <1>1, <1>2, <1>3, Zenon DEF NewRequest, GetFromFreeReqQ, PutToSliceReqQ, DataReadFromNand,
     EvictDataBufEntry, GcRead, GcWrite, EraseBlock
<1>4. CASE Translate
  BY <1>1, <1>2, <1>4, Zenon DEF Translate, GetFromSliceReqQ, SliceReqQEmpty, NothingToRead,
     SliceToDma, Selected, Select, SelectLowLevelReqQ, WriteBackToCurrentBlock,
     WriteBackToFreeBlock, WriteBack, GarbageCollection
<1>5. ASSUME NEW n \in 1..MaxSlices, TakeCommand(n) PROVE Running /\ pass' = pass
  BY <1>2, <1>5 DEF TakeCommand
<1> QED
  BY <1>3, <1>4, <1>5 DEF OwnStep

LEMMA NextIsDepStep ==
  ASSUME FlowInv, Next
  PROVE  Dep!DepNext \/ UNCHANGED Dep!depVars
<1>1. CASE RunScheduler
  BY <1>1, DepSchedule DEF Dep!DepNext, Dep!Thread
<1>2. CASE Pass
  <2>1. PassStep /\ Held' = Held
    BY <1>2 DEF Pass, flowVars, sliceVars, Held
  <2> QED
    BY <2>1, DepPass DEF Dep!DepNext, Dep!Thread
<1>3. CASE OwnStep
  <2>1. AnyStep /\ HeldOk' /\ HeldOk
    BY NextKeepsFlow DEF FlowInv, FlowParts
  <2>2. Running /\ pass' = pass
    BY <1>3, OwnStepsPass
  <2>3. freeReqQ \cup Held = Idle /\ (freeReqQ \cup Held)' = Idle'
    BY <2>1 DEF HeldOk
  <2>4. CASE Select
    <3>1. UNCHANGED (freeReqQ \cup Held)
      BY <2>3, <2>4 DEF Select, SelectLowLevelReqQ, Idle
    <3> QED
      BY <2>4, <3>1, DepSelect DEF Dep!DepNext, Dep!Thread
  <2>5. CASE StartPass
    <3>1. pass.at = "out" /\ pass'.at = "dma"
      BY <2>2, <2>5 DEF StartPass, Running, OutOfPass
    <3> QED
      BY <2>2, <3>1
  <2>6. CASE PassStep
    <3>1. pass.at = "out"
      BY <2>2 DEF Running, OutOfPass
    <3> QED
      BY <2>6, <3>1 DEF PassStep, CheckDoneNvmeDmaReq, CheckDoneEnds, FinishNandReq, DieIdle,
         ReleaseBlockedByRowAddrDepReq, ReleaseEnds, IssueNandReq, LeaveDie
  <2>7. CASE TakesSlots
    <3>1. UNCHANGED (freeReqQ \cup Held)
      BY <2>3, <2>7 DEF TakesSlots, tables, Idle
    <3> QED
      BY <2>7, <3>1 DEF TakesSlots, Dep!depVars, tables, Dep!tables, chainVars, Dep!chainVars,
         lowQueues, Dep!lowQueues, counters, Dep!counters, caller, Dep!caller
  <2>8. ASSUME NEW s \in Slot, NEW r \in Requests, Makes(s, r) PROVE Dep!DepNext
    <3>1. Dep!Request(s, r)
      BY <2>1, <2>8, DepRequest
    <3> QED
      BY <3>1, DepConstants DEF Dep!DepNext
  <2> QED
    BY <2>1, <2>4, <2>5, <2>6, <2>7, <2>8 DEF AnyStep
<1> QED
  BY <1>1, <1>2, <1>3 DEF Next, FlowThread, OwnStep

LEMMA InitIsDep == Init => Dep!DepInit
<1> SUFFICES ASSUME Init PROVE Dep!DepInit
  OBVIOUS
<1>1. freeReqQ \cup Held = Slot
  <2>1. freeReqQ = Slot /\ sliceReqQ = <<>> /\ slice = NONE /\ evicting = NONE
    BY DEF Init, DepInit
  <2>2. Held = {}
    BY <2>1 DEF Held, ToSet
  <2> QED
    BY <2>1, <2>2
<1>2. Dep!Die = Die /\ Dep!Block = Block /\ Dep!Entry = Entry /\ Dep!OutOfPass = OutOfPass
      /\ Dep!NoReq = NoReq
  BY DepConstants
<1> QED
  BY <1>1, <1>2, Zenon DEF Init, DepInit, Dep!DepInit

\* The thread is a caller of RequestDep that keeps to its rules: of all that a
\* caller might do it does only what is legal.  It reads no page before it is
\* given out, writes none whose write for the life before waits, erases a block
\* once its pages are given out and no erase of it waits; and with a request in
\* hand it runs the scheduler only if that must wait.  (FindFreeVirtualSlice,
\* EraseBlock.)
THEOREM FirmwareKeepsTheRules == Spec => KeepsTheRules
<1>1. [Next]_vars /\ FlowInv => [Dep!DepNext]_(Dep!depVars)
  <2>1. ASSUME FlowInv, Next PROVE Dep!DepNext \/ UNCHANGED Dep!depVars
    BY <2>1, NextIsDepStep
  <2>2. ASSUME UNCHANGED vars PROVE UNCHANGED Dep!depVars
    <3>1. UNCHANGED depVars /\ Held' = Held
      BY <2>2 DEF vars, flowVars, sliceVars, Held
    <3> QED
      BY <3>1 DEF depVars, Dep!depVars, tables, Dep!tables, chainVars, Dep!chainVars,
         lowQueues, Dep!lowQueues, counters, Dep!counters, caller, Dep!caller
  <2> QED
    BY <2>1, <2>2
<1> QED
  BY <1>1, InitIsDep, InitFlow, StepKeepsFlow, PTL DEF Spec, KeepsTheRules, Dep!DepSpec
=============================================================================
