------------------------------ MODULE BadBlock ------------------------------
(***************************************************************************)
(* The boot of the flash translation layer: InitFTL as far as the NAND is  *)
(* concerned, and the two erases of main.  A boot resets the chips, reads  *)
(* the bad block table of each die, rebuilds and saves the table of a die  *)
(* that seems to have none, and gives each bad user block one of the spare *)
(* blocks at the end of the die.  Every NAND request goes through the      *)
(* scheduler (WaySched), and every phase of the boot waits for all of them *)
(* (SyncAllLowLevelReqDone).  The power may fail between any two steps;    *)
(* what is on the flash is all that is left then.                          *)
(*                                                                         *)
(* The table is one byte per block, 255 for a good block and 0 for a bad   *)
(* one, and block 0 is the block that holds it.  A table exists when its   *)
(* first byte is one of the two, so an erased page is a table that says    *)
(* every block is good, and so is, in part, a page whose program was cut   *)
(* short.  A die is one way of one channel: dies are named by channels.    *)
(***************************************************************************)
EXTENDS WaySched, FiniteSets, FiniteSetsExt

CONSTANTS
  USER_BLOCKS_PER_LUN,    \* blocks 0 .. USER_BLOCKS_PER_LUN-1 serve the host
  TOTAL_BLOCKS_PER_LUN,   \* the others are spares
  InitialFlash            \* what the dies may hold at the first power-on

ASSUME BlocksAssumption ==
  /\ USER_BLOCKS_PER_LUN \in Nat \ {0}
  /\ TOTAL_BLOCKS_PER_LUN \in Nat
  /\ USER_BLOCKS_PER_LUN + 2 <= TOTAL_BLOCKS_PER_LUN

UserBlocks == 0 .. USER_BLOCKS_PER_LUN - 1
SpareBlocks == USER_BLOCKS_PER_LUN .. TOTAL_BLOCKS_PER_LUN - 1
Blocks == UserBlocks \cup SpareBlocks

Table == [first : {"state", "other"}, bad : SUBSET Blocks]
Unreadable == [first |-> "other", bad |-> {}]
TableOf(bad) == [first |-> "state", bad |-> bad]
BlankTable == TableOf({})

\* factory: the blocks the vendor found bad; mark0 and mark1: the blocks whose
\* first and last page do not begin with a clean byte.
Flash == [factory : SUBSET Blocks, mark0 : SUBSET Blocks, mark1 : SUBSET Blocks,
          table : Table]

\* The vendor marks the bad blocks, and block 0 is good.
ASSUME FlashAssumption ==
  /\ InitialFlash \subseteq [Ch -> Flash]
  /\ \A f \in InitialFlash, d \in Ch :
       0 \notin f[d].factory \cup f[d].mark0 \cup f[d].mark1 \cup f[d].table.bad

PAGE0 == "first"
PAGE1 == "last"
TABLE_PAGE == "table"

Phases == {"reset", "readTable", "checkTable", "page0", "page1", "judge", "save",
           "remap", "erase0", "erase1", "done", "assert"}

VARIABLES
  flash,         \* external, of each die: what the flash holds
  phase,         \* where the boot is
  phyBlockNo,    \* the block FindBadBlock looks at
  noTable,       \* dieState: the dies whose table was found not to exist
  readBuf,       \* of each die: what the last read brought
  bad,           \* of each die: the blocks with bad = 0 in phyBlockMap
  remapped,      \* of each die: remappedPhyBlock of the user blocks
  currentBlock   \* of each die: its current block

bootVars == <<flash, phase, phyBlockNo, noTable, readBuf, bad, remapped, currentBlock>>
memVars == <<noTable, bad, remapped, currentBlock>>

NoRead == TableOf({})

\* What the start of the program leaves of everything but the flash.
StartBoot ==
  /\ phase = "reset" /\ phyBlockNo = 0 /\ noTable = {}
  /\ readBuf = [d \in Ch |-> NoRead]
  /\ bad = [d \in Ch |-> {}]
  /\ remapped = [d \in Ch |-> [b \in UserBlocks |-> b]]
  /\ currentBlock = [d \in Ch |-> 0]

InitBadBlock == flash \in InitialFlash /\ StartBoot

-----------------------------------------------------------------------------
\* A step of the boot queues reqs[d] for each die d.
QueueFor(dies, reqs) == Queue([d \in Ch |-> IF d \in dies THEN reqs ELSE <<>>])

QueueUnchanged == UNCHANGED <<way, nsc, chip, failMissed>>

InitNandArray ==
  /\ phase = "reset"
  /\ QueueFor(Ch, <<Request("RESET", 0, PAGE0), Request("SET_FEATURE", 0, PAGE0)>>)
  /\ phase' = "readTable"
  /\ QueueUnchanged /\ UNCHANGED <<flash, phyBlockNo, readBuf, memVars>>

ReadBadBlockTable ==
  /\ phase = "readTable" /\ AllLowLevelReqDone
  /\ QueueFor(Ch, <<Request("READ", 0, TABLE_PAGE)>>)
  /\ phase' = "checkTable"
  /\ QueueUnchanged /\ UNCHANGED <<flash, phyBlockNo, readBuf, memVars>>

\* The check of RecoverBadBlockTable on the first byte.
Exists(t) == t.first = "state"

CheckTables ==
  /\ phase = "checkTable" /\ AllLowLevelReqDone
  /\ noTable' = {d \in Ch : ~Exists(readBuf[d])}
  /\ bad' = [d \in Ch |-> IF Exists(readBuf[d]) THEN readBuf[d].bad ELSE {}]
  /\ phase' = IF noTable' = {} THEN "remap" ELSE "page0"
  /\ QueueUnchanged
  /\ UNCHANGED <<flash, nandReqQ, phyBlockNo, readBuf, remapped, currentBlock>>

\* FindBadBlock: the first page of the next block of every die without table.
ReadFirstPage ==
  /\ phase = "page0"
  /\ QueueFor(noTable, <<Request("READ", phyBlockNo, PAGE0)>>)
  /\ phase' = "page1"
  /\ QueueUnchanged /\ UNCHANGED <<flash, phyBlockNo, readBuf, memVars>>

\* A page that was read begins with a clean byte.
Clean(d) == phyBlockNo \notin readBuf[d].bad

\* FindBadBlock: the last page, where the first one is clean.
ReadLastPage ==
  /\ phase = "page1" /\ AllLowLevelReqDone
  /\ QueueFor({d \in noTable : Clean(d)}, <<Request("READ", phyBlockNo, PAGE1)>>)
  /\ phase' = "judge"
  /\ QueueUnchanged /\ UNCHANGED <<flash, phyBlockNo, readBuf, memVars>>

\* FindBadBlock: a block is bad unless the page read last is clean.
Judged(d) == IF d \in noTable /\ ~Clean(d) THEN bad[d] \cup {phyBlockNo} ELSE bad[d]

\* Mutant: the loop over the blocks goes one too far.
MutLastBlock == phyBlockNo = TOTAL_BLOCKS_PER_LUN

LastBlock == phyBlockNo = TOTAL_BLOCKS_PER_LUN - 1

JudgeBlock ==
  /\ phase = "judge" /\ AllLowLevelReqDone
  /\ bad' = [d \in Ch |-> Judged(d)]
  /\ IF LastBlock
     THEN phase' = "save" /\ UNCHANGED phyBlockNo
     ELSE phase' = "page0" /\ phyBlockNo' = phyBlockNo + 1
  /\ QueueUnchanged
  /\ UNCHANGED <<flash, nandReqQ, noTable, readBuf, remapped, currentBlock>>

\* Mutant: one die without a table has the table of every die written again.
MutToSave == Ch

\* The dies whose table SaveBadBlockTable writes.
ToSave == noTable

\* Mutant: the table is written before the block is erased.
MutSaveRequests == <<Request("WRITE", 0, TABLE_PAGE), Request("ERASE", 0, PAGE0)>>

SaveRequests == <<Request("ERASE", 0, PAGE0), Request("WRITE", 0, TABLE_PAGE)>>

SaveBadBlockTable ==
  /\ phase = "save"
  /\ QueueFor(ToSave, SaveRequests)
  /\ phase' = "remap"
  /\ QueueUnchanged /\ UNCHANGED <<flash, phyBlockNo, readBuf, memVars>>

-----------------------------------------------------------------------------
Rank(S, x) == Cardinality({y \in S : y < x})

\* RemapBadBlock: the bad user blocks get the good spare blocks, in order; a
\* bad block for which none is left stays where it is.
SpareFor(badBlocks, b) ==
  LET good == SpareBlocks \ badBlocks
      rank == Rank(badBlocks \cap UserBlocks, b)
  IN  IF b \in badBlocks /\ rank < Cardinality(good)
      THEN CHOOSE s \in good : Rank(good, s) = rank
      ELSE b

\* InitBlockMap: the virtual blocks that go to the free list of the die.
Usable(badBlocks) == {b \in UserBlocks : SpareFor(badBlocks, b) \notin badBlocks}

\* Mutant: the block of the table is not taken from the host.
MutToPreventAccess(d) == bad[d]

\* InitBlockDieMap: the block of the table is bad from here on.
ToPreventAccess(d) == bad[d] \cup {0}

\* InitBlockDieMap after RecoverBadBlockTable.  GetFromFbList leaves one block.
RemapBadBlock ==
  /\ phase = "remap" /\ AllLowLevelReqDone
  /\ bad' = [d \in Ch |-> ToPreventAccess(d)]
  /\ remapped' = [d \in Ch |-> [b \in UserBlocks |-> SpareFor(bad'[d], b)]]
  /\ IF \A d \in Ch : Cardinality(Usable(bad'[d])) > 1
     THEN /\ currentBlock' = [d \in Ch |-> Min(Usable(bad'[d]))]
          /\ phase' = "erase0"
     ELSE phase' = "assert" /\ UNCHANGED currentBlock
  /\ readBuf' = [d \in Ch |-> NoRead]
  /\ phyBlockNo' = 0
  /\ QueueUnchanged /\ UNCHANGED <<flash, nandReqQ, noTable>>

\* main erases the first two spare blocks of each channel (rows 0x7f800 and
\* 0x7f880), bad or not, without looking at a status: a bad block may keep its
\* marks, and so may the second one when the chip is still busy with the first.
EraseSpare ==
  /\ phase \in {"erase0", "erase1"}
  /\ LET b == USER_BLOCKS_PER_LUN + IF phase = "erase0" THEN 0 ELSE 1
     IN  \E kept \in SUBSET Ch :
           flash' = [d \in Ch |->
             IF d \in kept THEN flash[d]
             ELSE [flash[d] EXCEPT !.mark0 = @ \ {b}, !.mark1 = @ \ {b}]]
  /\ phase' = IF phase = "erase0" THEN "erase1" ELSE "done"
  /\ UNCHANGED <<nandReqQ, phyBlockNo, readBuf, memVars>> /\ QueueUnchanged

BootStep ==
  \/ InitNandArray \/ ReadBadBlockTable \/ CheckTables
  \/ ReadFirstPage \/ ReadLastPage \/ JudgeBlock
  \/ SaveBadBlockTable \/ RemapBadBlock \/ EraseSpare

-----------------------------------------------------------------------------
\* What request r, executed to its end, leaves on die d.
Erased(f) == [f EXCEPT !.table = BlankTable, !.mark0 = @ \ {0}, !.mark1 = @ \ {0}]

\* A program only turns ones into zeros: on a page that was not erased, or cut
\* short, some of the bytes of a table are as wanted.
\* Block 0 is good, so its byte changes no page that was not erased.
Programmed(f, bytes) ==
  {[f EXCEPT !.table = t] :
     t \in IF f.table = BlankTable THEN {TableOf(s) : s \in bytes} ELSE {Unreadable}}
HalfErased(f) == {f} \cup {[f EXCEPT !.table = t] : t \in {Unreadable, BlankTable}}

FlashAfter(d, r, result) ==
  CASE r.code = "ERASE" /\ result = "pass" -> {Erased(flash[d])}
    [] r.code = "ERASE" /\ result = "fail" -> HalfErased(flash[d])
    [] r.code = "WRITE" /\ result = "pass" -> Programmed(flash[d], {bad[d]})
    [] r.code = "WRITE" /\ result = "fail" -> Programmed(flash[d], SUBSET bad[d])
    [] OTHER -> {flash[d]}

\* A read of page r.page brings the table, or whether the mark is clean.
ReadResult(d, r) ==
  CASE r.code = "READ" /\ r.page = TABLE_PAGE -> flash[d].table
    [] r.code = "READ" /\ r.page = PAGE0 -> TableOf(flash[d].mark0 \cap {r.block})
    [] r.code = "READ" /\ r.page = PAGE1 -> TableOf(flash[d].mark1 \cap {r.block})
    [] OTHER -> readBuf[d]

\* External: the array operation of channel c ends.
ArrayDone(c, result) ==
  LET r == Head(nandReqQ[c])
  IN  /\ ChipDone(c, result)
      /\ \E f \in FlashAfter(c, r, result) : flash' = [flash EXCEPT ![c] = f]
      /\ readBuf' = [readBuf EXCEPT ![c] = ReadResult(c, r)]
      /\ UNCHANGED <<phase, phyBlockNo, memVars>>

\* What the loss of the power may leave of die d.
CutShort(d) ==
  IF nsc[d].ready THEN {flash[d]}
  ELSE {flash[d]} \cup FlashAfter(d, Head(nandReqQ[d]), "fail")

\* External: the power fails, perhaps in the middle of an erase or a program,
\* and the program starts again.
PowerLoss ==
  /\ flash' \in {f \in [Ch -> UNION {CutShort(d) : d \in Ch}] : \A d \in Ch : f[d] \in CutShort(d)}
  /\ phase' = "reset" /\ phyBlockNo' = 0 /\ noTable' = {}
  /\ readBuf' = [d \in Ch |-> NoRead]
  /\ bad' = [d \in Ch |-> {}]
  /\ remapped' = [d \in Ch |-> [b \in UserBlocks |-> b]]
  /\ currentBlock' = [d \in Ch |-> 0]
  /\ way' = [c \in Ch |-> [list |-> "idle", die |-> "IDLE", opt |-> "NONE"]]
  /\ nandReqQ' = [c \in Ch |-> <<>>]
  /\ nsc' = [c \in Ch |-> [busy |-> FALSE, status |-> "none", ready |-> TRUE]]
  /\ chip' = [c \in Ch |-> "pass"]
  /\ failMissed' = {}

Scheduling(c) == SchedulingNandReqPerCh(c) /\ UNCHANGED bootVars

NscStep(c) == NscDone(c) /\ UNCHANGED bootVars

BadBlockInit == InitReqScheduler /\ InitBadBlock

BadBlockNext ==
  \/ BootStep
  \/ \E c \in Ch : Scheduling(c) \/ NscStep(c)
  \/ \E c \in Ch, result \in {"pass", "fail"} : ArrayDone(c, result)
  \/ PowerLoss

BadBlockSpec == BadBlockInit /\ [][BadBlockNext]_<<schedVars, bootVars>>

-----------------------------------------------------------------------------
BadBlockTypeOK ==
  /\ flash \in [Ch -> Flash]
  /\ phase \in Phases /\ phyBlockNo \in Blocks
  /\ noTable \subseteq Ch
  /\ readBuf \in [Ch -> Table]
  /\ bad \in [Ch -> SUBSET Blocks]
  /\ remapped \in [Ch -> [UserBlocks -> Blocks]]
  /\ currentBlock \in [Ch -> UserBlocks]

\* The translation layer has been set up.
Mapped == phase \in {"erase0", "erase1", "done"}

\* The table on the flash knows every block the vendor found bad.
Known(d) == flash[d].table.first = "state" /\ flash[d].factory \subseteq flash[d].table.bad

(***************************************************************************)
(* A die whose table knows the blocks the vendor found bad hands out none  *)
(* of them, nor the block of the table, and no two virtual blocks share a  *)
(* physical one.  (RecoverBadBlockTable, RemapBadBlock, InitBlockMap; a    *)
(* table that was just made knows what FindBadBlock found.)                *)
(***************************************************************************)
BadStayOut ==
  Mapped =>
    \A d \in Ch :
      /\ Known(d) => \A v \in Usable(bad[d]) : remapped[d][v] \notin flash[d].factory \cup {0}
      /\ \A v, w \in Usable(bad[d]) : remapped[d][v] = remapped[d][w] => v = w
      /\ currentBlock[d] \in Usable(bad[d])

(***************************************************************************)
(* What the firmware runs with is what the next boot will read: unless a   *)
(* failure of the erase or the program of the table was taken for success, *)
(* the bad blocks in memory are those of the table on the flash and the    *)
(* block of the table.  (RecoverBadBlockTable, SaveBadBlockTable.)         *)
(***************************************************************************)
RunningAgrees ==
  Mapped => \A d \in Ch \ failMissed :
              /\ Exists(flash[d].table)
              /\ bad[d] = flash[d].table.bad \cup {0}

(***************************************************************************)
(* No boot and no loss of the power, whenever it comes, makes a die forget *)
(* bad blocks that its table knew: the table of a die that has one is not  *)
(* touched while those of others are made.  (SaveBadBlockTable.)           *)
(***************************************************************************)
KnownBadStaysKnown ==
  [][\A d \in Ch : Known(d) => Known(d)']_<<schedVars, bootVars>>
=============================================================================
