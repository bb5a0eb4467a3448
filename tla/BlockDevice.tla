----------------------------- MODULE BlockDevice -----------------------------
(***************************************************************************)
(* What the host stores, and gets back, through the whole data path: a     *)
(* command is cut into slices (NvmeSlice); each slice takes an entry of    *)
(* the data buffer (DataBuffer), whose former slice may have to be written *)
(* to flash and whose new one read from there; and the requests so made    *)
(* run later, those of one entry in their order and a read of a page after *)
(* the program of that page (RequestDep.OrderKept).  The map gives every   *)
(* write a page of its own and moves no data that can be seen              *)
(* (AddressTranslation.ImplementsSliceStore), so pages are plain here.     *)
(*                                                                         *)
(* The firmware posts the completion of a command when it issues the DMA   *)
(* of the command's last slice.  The DMA of another slice may then still   *)
(* wait behind the flash; the model takes the host to leave the buffer     *)
(* alone until the data has moved, which the completion does not tell it.  *)
(***************************************************************************)
EXTENDS NvmeSlice, DataBuffer, FiniteSets, FiniteSetsExt

CONSTANTS
  LSAs,            \* slices
  Val,             \* what the host writes into all units of a block
  NONE,            \* never written
  CommandIds,
  HostCommands,    \* bound: the commands of the host
  WideCommands,    \* bound: those it sends to a drive never written
  MaxCommands,     \* bound: how many commands it sends
  Slots,           \* requests of the pool
  Pages            \* pages of the flash

NoPage == 0

\* A page for each slice and each write-back in progress.
ASSUME PagesAssumption ==
  /\ IsFiniteSet(Pages) /\ IsFiniteSet(LSAs) /\ NoPage \notin Pages /\ Slots \in Nat
  /\ Cardinality(Pages) >= Cardinality(LSAs) + Slots

Units == 0 .. NVME_BLOCKS_PER_SLICE * LBA_SIZE - 1
LBAs == {l * NVME_BLOCKS_PER_SLICE + b : l \in LSAs, b \in 0 .. NVME_BLOCKS_PER_SLICE - 1}

VARIABLES
  pc,          \* where the thread is
  cmd,         \* the command in hand
  sliceReqQ,   \* slice requests
  req,         \* the slice request in hand
  entry,       \* and its entry
  lowReqs,     \* requests of the lower layer, in the order they were made
  map,         \* AddrTransRead: the page of each slice
  data,        \* external: what each entry of the data buffer holds
  nand,        \* external: what each page of the flash holds
  open,        \* external: the commands the host waits for
  disk,        \* history: what the host has written last
  sent         \* how many commands it has sent

deviceVars == <<sliceReqQ, req, entry, lowReqs, map, data, nand, open, disk>>
vars == <<pc, cmd, sent, deviceVars, dataBufVars>>

\* The commands are reads and writes of blocks the drive has.
ASSUME CommandsAssumption ==
  /\ LSAs \subseteq Nat /\ MaxCommands \in Nat
  /\ \A c \in HostCommands \cup WideCommands :
       /\ c \in [op : {"READ", "WRITE"}, id : CommandIds, lba : Nat, nlb : Nat,
                 offset : 0 .. LBA_SIZE - 1, listOffset : 0 .. PRPS_PER_LIST - 1,
                 val : Val \cup {NONE}]
       /\ c.lba .. c.lba + c.nlb \subseteq LBAs
       /\ c.op = "WRITE" => c.val \in Val

Nothing == [u \in Units |-> NONE]
NoReq == [code |-> "none"]

Init ==
  /\ pc = "idle" /\ cmd = NoReq /\ sent = 0 /\ sliceReqQ = <<>> /\ req = NoReq /\ entry = 0
  /\ lowReqs = <<>>
  /\ map = [l \in LSAs |-> NoPage]
  /\ data = [e \in Entry |-> Nothing]
  /\ nand = [p \in Pages |-> Nothing]
  /\ open = {}
  /\ disk = [b \in LBAs |-> NONE]
  /\ InitDataBuf

\* GetFromFreeReqQ finds n free slots.
InHand == Len(sliceReqQ) + Len(lowReqs) + IF req = NoReq THEN 0 ELSE 1
\* Mutant: one slot more than the pool has.
MutFreeSlots(n) == InHand + n <= Slots + 1

FreeSlots(n) == InHand + n <= Slots

-----------------------------------------------------------------------------
\* A slice request of command c.  expect, a history: what the disk held in the
\* blocks of the slice when the host sent the command.
SliceReq(c, k) ==
  LET first == LogicalSliceAddr(c, k) * NVME_BLOCKS_PER_SLICE + NvmeBlockOffset(c, k)
  IN  [code |-> c.op, id |-> c.id, val |-> c.val, cqEn |-> CqEn(c, k),
       lsa |-> LogicalSliceAddr(c, k), num |-> NumOfNvmeBlock(c, k), moves |-> Moves(c, k),
       expect |-> [i \in 1 .. NumOfNvmeBlock(c, k) |-> disk[first + i - 1]],
       entry |-> 0, page |-> NoPage, got |-> <<>>]

NandReq(code, e, page) ==
  [code |-> code, id |-> 0, val |-> NONE, cqEn |-> FALSE,
   lsa |-> 0, num |-> 0, moves |-> <<>>, expect |-> <<>>,
   entry |-> e, page |-> page, got |-> <<>>]

\* process_io_cmd: ReqTransNvmeToSlice, on a read or a write the host sends.
TakeCommand(c) ==
  /\ pc = "idle"
  /\ sent < MaxCommands /\ sent' = sent + 1
  /\ c.id \notin open /\ open' = open \cup {c.id}
  /\ FreeSlots(SliceCount(c))
  /\ sliceReqQ' = [k \in 1 .. SliceCount(c) |-> SliceReq(c, k)]
  /\ disk' = [b \in LBAs |->
                IF c.op = "WRITE" /\ b \in c.lba .. c.lba + c.nlb THEN c.val ELSE disk[b]]
  /\ pc' = "slices" /\ cmd' = c
  /\ UNCHANGED <<req, entry, lowReqs, map, data, nand, dataBufVars>>

\* Bound: the wide commands come to a drive nobody has written.
FirstCommand == sent = 0

-----------------------------------------------------------------------------
\* Requests of an entry run in their order.
Alone(reqs, e) == \A i \in DOMAIN reqs : reqs[i].entry # e
First(reqs, i) == \A j \in 1 .. i - 1 : reqs[j].entry # reqs[i].entry

\* IssueNvmeDmaReq: each piece is moved, which the firmware waits for.
Moved(m) == m.at .. m.at + m.len - 1
Received(r, d) ==
  IF r.code # "RxDMA" THEN d
  ELSE [u \in Units |-> IF \E i \in DOMAIN r.moves : u \in Moved(r.moves[i]) THEN r.val ELSE d[u]]
Got(r, d) == [i \in DOMAIN r.moves |-> [u \in Moved(r.moves[i]) |-> d[u]]]
Sent(r, d) == IF r.code # "TxDMA" THEN r ELSE [r EXCEPT !.got = Got(r, d)]

\* With the completion entry, when cqEn is set.
Issue(r, e) ==
  /\ data' = [data EXCEPT ![e] = Received(r, @)]
  /\ open' = IF r.cqEn THEN open \ {r.id} ELSE open

IsDma(r) == r.code \in {"RxDMA", "TxDMA"}

\* SelectLowLevelReqQ, and the thread goes on at p.
Select(r, p) ==
  /\ pc' = p
  /\ IF IsDma(r) /\ Alone(lowReqs, r.entry)
     THEN Issue(r, r.entry) /\ lowReqs' = Append(lowReqs, Sent(r, data[r.entry]))
     ELSE UNCHANGED <<data, open>> /\ lowReqs' = Append(lowReqs, r)

-----------------------------------------------------------------------------
\* ReqTransSliceToLowLevel.

SliceReqQEmpty ==
  /\ pc = "slices" /\ sliceReqQ = <<>>
  /\ pc' = "idle" /\ cmd' = NoReq
  /\ UNCHANGED <<sent, deviceVars, dataBufVars>>

GetFromSliceReqQ ==
  /\ pc = "slices" /\ sliceReqQ # <<>>
  /\ req' = Head(sliceReqQ) /\ sliceReqQ' = Tail(sliceReqQ)
  /\ pc' = "find"
  /\ UNCHANGED <<cmd, sent, entry, lowReqs, map, data, nand, open, disk, dataBufVars>>

Hit(e) ==
  /\ pc = "find" /\ CheckDataBufHit(req.lsa, e)
  /\ entry' = e
  /\ pc' = "dma"
  /\ UNCHANGED <<cmd, sent, sliceReqQ, req, lowReqs, map, data, nand, open, disk>>

\* Mutant: a write of part of a slice does not fetch the rest.
MutNeedsRead == req.code = "READ"

\* DataReadFromNand is called for a read and for a write of part of a slice.
NeedsRead == req.code = "READ" \/ req.num # NVME_BLOCKS_PER_SLICE

InUse(p) == (\E l \in LSAs : map[l] = p) \/ (\E i \in DOMAIN lowReqs : lowReqs[i].page = p)

\* AddrTransWrite gives a page that holds nothing, any one.
FreePage == CHOOSE p \in Pages : ~InUse(p)

MustWriteBack(e) == dirty[e]

\* The least recently used entry is given up, and written back if it is dirty.
Miss(e) ==
  /\ pc = "find"
  /\ MustWriteBack(e) => FreeSlots(1)
  /\ Reuse(e, req.lsa)
  /\ entry' = e
  /\ IF MustWriteBack(e)
     THEN /\ map' = [map EXCEPT ![lsaOf[e]] = FreePage]
          /\ Select(NandReq("PROGRAM", e, FreePage), "fetch")
     ELSE pc' = "fetch" /\ UNCHANGED <<map, lowReqs, data, open>>
  /\ UNCHANGED <<cmd, sent, sliceReqQ, req, nand, disk>>

DataReadFromNand ==
  /\ pc = "fetch"
  /\ IF NeedsRead /\ map[req.lsa] # NoPage
     THEN /\ FreeSlots(1)
          /\ Select(NandReq("FETCH", entry, map[req.lsa]), "dma")
     ELSE pc' = "dma" /\ UNCHANGED <<lowReqs, data, open>>
  /\ UNCHANGED <<cmd, sent, sliceReqQ, req, entry, map, nand, disk, dataBufVars>>

\* Mutant: an entry is dirty when all of it was written.
MutDirtied == req.code = "WRITE" /\ req.num = NVME_BLOCKS_PER_SLICE

Dirtied == req.code = "WRITE"

SliceToDma ==
  /\ pc = "dma"
  /\ dirty' = [dirty EXCEPT ![entry] = @ \/ Dirtied]
  /\ Select([req EXCEPT !.entry = entry, !.code = IF @ = "WRITE" THEN "RxDMA" ELSE "TxDMA"], "slices")
  /\ req' = NoReq /\ entry' = 0
  /\ UNCHANGED <<cmd, sent, sliceReqQ, map, nand, disk, lsaOf, lru, hash>>

-----------------------------------------------------------------------------
\* The lower layer runs in a turn of the main loop without a command, and while
\* a slot is wanted.
WantsSlot ==
  \/ pc = "find" /\ Found(req.lsa) = {} /\ MustWriteBack(Victim) /\ ~FreeSlots(1)
  \/ pc = "fetch" /\ NeedsRead /\ map[req.lsa] # NoPage /\ ~FreeSlots(1)

Programmed(reqs, p) == \A i \in DOMAIN reqs : ~(reqs[i].code = "PROGRAM" /\ reqs[i].page = p)

\* Request i can end: a DMA that was issued, a program, or a fetch of a page
\* that has been programmed.
CanEnd(i) ==
  /\ First(lowReqs, i)
  /\ lowReqs[i].code = "FETCH" => Programmed(lowReqs, lowReqs[i].page)

\* What the end of r leaves in its entry and on the flash.
EntryAfter(r) == IF r.code = "FETCH" THEN nand[r.page] ELSE data[r.entry]
FlashAfter(r) == IF r.code = "PROGRAM" THEN [nand EXCEPT ![r.page] = data[r.entry]] ELSE nand

\* The request that waits for the end of request i.
Successor(i) ==
  {j \in i + 1 .. Len(lowReqs) :
     lowReqs[j].entry = lowReqs[i].entry
       /\ \A m \in i + 1 .. j - 1 : lowReqs[m].entry # lowReqs[i].entry}

Released(j) == IsDma(lowReqs[j])

\* PutToFreeReqQ and ReleaseBlockedByBufDepReq: a DMA that waited is issued.
\* A page that is in use no more counts as erased.
EndRequest(i) ==
  /\ (pc = "idle" \/ WantsSlot)
  /\ CanEnd(i)
  /\ LET r == lowReqs[i]
         d == EntryAfter(r)
         next == {j \in Successor(i) : Released(j)}
         left == RemoveAt([k \in DOMAIN lowReqs |->
                             IF k \in next THEN Sent(lowReqs[k], d) ELSE lowReqs[k]], i)
     IN  /\ lowReqs' = left
         /\ data' = [data EXCEPT ![r.entry] =
                       IF next = {} THEN d ELSE Received(lowReqs[CHOOSE j \in next : TRUE], d)]
         /\ open' = open \ {lowReqs[k].id : k \in {j \in next : lowReqs[j].cqEn}}
         /\ nand' = [p \in Pages |->
                       IF (\E l \in LSAs : map[l] = p) \/ (\E k \in DOMAIN left : left[k].page = p)
                       THEN FlashAfter(r)[p] ELSE Nothing]
  /\ UNCHANGED <<pc, cmd, sent, sliceReqQ, req, entry, map, disk, dataBufVars>>

Translate ==
  \/ SliceReqQEmpty \/ GetFromSliceReqQ
  \/ (\E e \in Entry : Hit(e) \/ Miss(e))
  \/ DataReadFromNand \/ SliceToDma

\* The bound: the host has sent its commands and everything is at rest.
HostStops ==
  /\ pc = "idle" /\ lowReqs = <<>> /\ sent = MaxCommands
  /\ UNCHANGED vars

Next ==
  \/ Translate \/ HostStops
  \/ \E i \in DOMAIN lowReqs : EndRequest(i)
  \/ \E c \in HostCommands : TakeCommand(c)
  \/ \E c \in WideCommands : FirstCommand /\ TakeCommand(c)

Spec == Init /\ [][Next]_vars

-----------------------------------------------------------------------------
Codes == {"READ", "WRITE", "RxDMA", "TxDMA", "PROGRAM", "FETCH"}

TypeOK ==
  /\ DataBufTypeOK
  /\ pc \in {"idle", "slices", "find", "fetch", "dma"}
  /\ cmd = NoReq <=> pc = "idle"
  /\ req = NoReq \/ req.code \in {"READ", "WRITE"}
  /\ entry \in Entry /\ sent \in 0 .. MaxCommands
  /\ InHand <= Slots
  /\ \A i \in DOMAIN lowReqs : lowReqs[i].code \in Codes \ {"READ", "WRITE"}
  /\ map \in [LSAs -> Pages \cup {NoPage}]
  /\ data \in [Entry -> [Units -> Val \cup {NONE}]]
  /\ nand \in [Pages -> [Units -> Val \cup {NONE}]]
  /\ open \subseteq CommandIds
  /\ disk \in [LBAs -> Val \cup {NONE}]

\* Where a piece is in the host's buffer, and where among the blocks of the
\* command.
InBuffer(m) == (m.page - 1) * LBA_SIZE + m.unit - cmd.offset
OnDrive(q, m) == (q.lsa * NVME_BLOCKS_PER_SLICE - cmd.lba) * LBA_SIZE + m.at
Start(q) == OnDrive(q, q.moves[1])
End(q) == LET m == q.moves[Len(q.moves)] IN OnDrive(q, m) + m.len

(***************************************************************************)
(* The pieces of a command's slices, one after the other, are its buffer   *)
(* from the first unit to the last, each unit once and within its page,    *)
(* and go to the blocks of the command in the same order; and no slice has *)
(* more pieces than a request has room for.  (handle_nvme_io_read and      *)
(* _write, ReqTransNvmeToSlice, IssueNvmeDmaReq.)                          *)
(***************************************************************************)
PiecesTile ==
  pc = "slices" /\ Len(sliceReqQ) = SliceCount(cmd) =>
    /\ PiecesFit(cmd)
    /\ \A k \in DOMAIN sliceReqQ :
         LET q == sliceReqQ[k]
         IN  /\ \A i \in DOMAIN q.moves :
                  LET m == q.moves[i]
                  IN  /\ InBuffer(m) = OnDrive(q, m)
                      /\ m.len > 0 /\ m.unit \in Nat /\ m.unit + m.len <= LBA_SIZE
                      /\ Moved(m) \subseteq Units
                      /\ i > 1 => m.at = q.moves[i - 1].at + q.moves[i - 1].len
             /\ Start(q) = IF k = 1 THEN 0 ELSE End(sliceReqQ[k - 1])
    /\ End(sliceReqQ[SliceCount(cmd)]) = DataLength(cmd)

Agrees(content, expected) == expected = NONE \/ content = expected

(***************************************************************************)
(* A read brings what the host had written last when it sent it, in every  *)
(* block it ever wrote: whatever is still on the way from the buffer to    *)
(* the flash or back, in any order of completions.                         *)
(* (ReqTransSliceToLowLevel, EvictDataBufEntry, DataReadFromNand.)         *)
(***************************************************************************)
ReadsRight ==
  \A i \in DOMAIN lowReqs :
    LET r == lowReqs[i]
    IN  \A m \in DOMAIN r.got : \A u \in DOMAIN r.got[m] :
          Agrees(r.got[m][u], r.expect[(u - r.moves[1].at) \div LBA_SIZE + 1])

Slice(l) == [u \in Units |-> disk[l * NVME_BLOCKS_PER_SLICE + u \div LBA_SIZE]]
Has(content, l) == \A u \in Units : Agrees(content[u], Slice(l)[u])

(***************************************************************************)
(* When the lower layer has come to rest, every slice is where it will be  *)
(* looked for: in its entry, if it has one, and on its page, unless that   *)
(* entry is dirty.  No write is lost by an eviction, or by a clean entry   *)
(* that is newer than the flash.  (EvictDataBufEntry, AddrTransWrite.)     *)
(***************************************************************************)
NothingLost ==
  pc = "idle" /\ lowReqs = <<>> =>
    \A l \in LSAs :
      /\ \A e \in Found(l) : Has(data[e], l)
      /\ (\E e \in Found(l) : dirty[e]) \/ Has(IF map[l] = NoPage THEN Nothing ELSE nand[map[l]], l)

\* The requests of the command id that will post its completion: in the slice
\* queue, in hand, or waiting for their DMA.
Waits(i) == ~First(lowReqs, i)
WillPost(id) ==
  Cardinality({k \in DOMAIN sliceReqQ : sliceReqQ[k].id = id /\ sliceReqQ[k].cqEn})
  + (IF req # NoReq /\ req.id = id /\ req.cqEn THEN 1 ELSE 0)
  + Cardinality({i \in DOMAIN lowReqs : Waits(i) /\ lowReqs[i].id = id /\ lowReqs[i].cqEn})

(***************************************************************************)
(* Every command the host waits for has exactly one completion to come,    *)
(* and no other command has one, though its slices end in any order and    *)
(* some of them after the completion.  (ReqTransNvmeToSlice: cqEn.)        *)
(***************************************************************************)
OneCompletionEach == \A id \in CommandIds : WillPost(id) = IF id \in open THEN 1 ELSE 0
=============================================================================
