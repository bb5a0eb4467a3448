--------------------------- MODULE BadBlock_proofs ---------------------------
(***************************************************************************)
(* For any dies, any number of blocks, and whenever the power or the flash *)
(* fails: the boot forgets no bad block that a table knew, and runs with   *)
(* what the table says.                                                    *)
(***************************************************************************)
EXTENDS BadBlock, FiniteSetTheorems, TLAPS

Working == {"statusCheck", "statusReport"}

ErasesTable == Request("ERASE", 0, PAGE0)
WritesTable == Request("WRITE", 0, TABLE_PAGE)
ReadsTable == Request("READ", 0, TABLE_PAGE)
Resets == Request("RESET", 0, PAGE0)
SetsFeature == Request("SET_FEATURE", 0, PAGE0)

\* What the queue of a die may hold while the boot waits in phase p, block b.
Shapes(p, b) ==
  {<<>>} \cup
  CASE p = "readTable" -> {<<Resets, SetsFeature>>, <<SetsFeature>>}
    [] p = "checkTable" -> {<<ReadsTable>>}
    [] p = "page1" -> {<<Request("READ", b, PAGE0)>>}
    [] p = "judge" -> {<<Request("READ", b, PAGE1)>>}
    [] p = "remap" -> {<<ErasesTable, WritesTable>>, <<WritesTable>>}
    [] OTHER -> {}

Queues == UNION {Shapes(p, b) : p \in Phases, b \in Blocks}

\* The request at the head is executed, and waits to be found done.
Executed(d) == way[d].list \in Working /\ nsc[d].ready

\* Of the queue of a die whose table is being made: which of the two requests
\* are still to be executed.
EraseToCome(d) == nandReqQ[d] = <<ErasesTable, WritesTable>> /\ ~Executed(d)
WriteToCome(d) == \/ nandReqQ[d] = <<ErasesTable, WritesTable>> /\ Executed(d)
                  \/ nandReqQ[d] = <<WritesTable>> /\ ~Executed(d)
WriteDone(d) == \/ nandReqQ[d] = <<WritesTable>> /\ Executed(d)
                \/ nandReqQ[d] = <<>>

\* The operation executed last, or one before it, failed without notice.
MayHaveFailed(d) == \/ d \in failMissed
                    \/ Executed(d) /\ chip[d] = "fail"

BootTypes ==
  /\ flash \in [Ch -> Flash]
  /\ phase \in Phases /\ phyBlockNo \in Blocks
  /\ noTable \subseteq Ch
  /\ readBuf \in [Ch -> Table]
  /\ bad \in [Ch -> SUBSET Blocks]
  /\ nandReqQ \in [Ch -> Queues]

\* What was read is what is there: the table is not touched before "remap".
ReadIsTable ==
  phase = "checkTable" =>
    \A d \in Ch : (nandReqQ[d] = <<>> \/ Executed(d)) => readBuf[d] = flash[d].table

\* The dies without a table have none until it is made, and the others run
\* with the one they have.
TableKnown ==
  phase \in {"page0", "page1", "judge", "save", "remap"} =>
    \A d \in Ch \ noTable : Exists(flash[d].table) /\ bad[d] = flash[d].table.bad /\ nandReqQ[d] = <<>>
TableMissing ==
  phase \in {"page0", "page1", "judge", "save"} =>
    \A d \in noTable : ~Exists(flash[d].table)

TableInMaking ==
  phase = "remap" =>
    \A d \in noTable :
      /\ EraseToCome(d) => ~Exists(flash[d].table)
      /\ WriteToCome(d) => \/ flash[d].table = BlankTable
                           \/ ~Exists(flash[d].table) /\ MayHaveFailed(d)
      /\ WriteDone(d) => flash[d].table = TableOf(bad[d]) \/ MayHaveFailed(d)

BootInv ==
  /\ SchedTypeOK /\ ListsMatchDies
  /\ BootTypes
  /\ \A d \in Ch : nandReqQ[d] \in Shapes(phase, phyBlockNo)
  /\ ReadIsTable /\ TableKnown /\ TableMissing /\ TableInMaking
  /\ RunningAgrees

-----------------------------------------------------------------------------
WayType == [list : Lists, die : {"IDLE", "EXE"}, opt : {"NONE", "CHECK", "REPORT"}]
NscType == [busy : BOOLEAN, status : {"none", "pass", "fail"}, ready : BOOLEAN]

LEMMA ShortQueues ==
  ASSUME NEW a, NEW b
  PROVE  /\ Tail(<<a, b>>) = <<b>> /\ Tail(<<a>>) = <<>>
         /\ Head(<<a, b>>) = a /\ Head(<<a>>) = a
         /\ Len(<<a, b>>) = 2 /\ Len(<<a>>) = 1
         /\ <<a>> # <<>> /\ <<a, b>> # <<>> /\ <<a, b>> # <<b>>
         /\ <<>> \o <<a, b>> = <<a, b>> /\ <<>> \o <<a>> = <<a>> /\ <<>> \o <<>> = <<>>
OBVIOUS

LEMMA RequestCodes ==
  /\ ErasesTable.code = "ERASE" /\ WritesTable.code = "WRITE"
  /\ ReadsTable.code = "READ" /\ ReadsTable.page = TABLE_PAGE
  /\ Resets.code = "RESET" /\ SetsFeature.code = "SET_FEATURE"
  /\ \A b, p : Request("READ", b, p).code = "READ"
BY DEF ErasesTable, WritesTable, ReadsTable, Resets, SetsFeature, Request

\* The head of a queue of the boot, and what is behind it.
LEMMA HeadOfQueue ==
  ASSUME NEW p \in Phases, NEW b, NEW q \in Shapes(p, b), q # <<>>
  PROVE  /\ q[1] = Head(q) /\ q[1].code \in Codes
         /\ Tail(q) \in Shapes(p, b)
         /\ Len(q) = 1 <=> Tail(q) = <<>>
         /\ \A i \in DOMAIN q : q[i].code \in Codes
         /\ q[1].code \in {"ERASE", "WRITE"} => p = "remap"
         /\ p = "checkTable" => q = <<ReadsTable>>
<1>1. \/ q = <<Resets, SetsFeature>> /\ p = "readTable"
      \/ q = <<SetsFeature>> /\ p = "readTable"
      \/ q = <<ReadsTable>> /\ p = "checkTable"
      \/ q = <<Request("READ", b, PAGE0)>> /\ p = "page1"
      \/ q = <<Request("READ", b, PAGE1)>> /\ p = "judge"
      \/ q = <<ErasesTable, WritesTable>> /\ p = "remap"
      \/ q = <<WritesTable>> /\ p = "remap"
  BY DEF Shapes, Phases
<1>2. CASE q = <<Resets, SetsFeature>> /\ p = "readTable"
  BY <1>2, ShortQueues, RequestCodes DEF Shapes, Codes
<1>3. CASE q = <<SetsFeature>> /\ p = "readTable"
  BY <1>3, ShortQueues, RequestCodes DEF Shapes, Codes
<1>4. CASE q = <<ReadsTable>> /\ p = "checkTable"
  BY <1>4, ShortQueues, RequestCodes DEF Shapes, Codes
<1>5. CASE q = <<Request("READ", b, PAGE0)>> /\ p = "page1"
  BY <1>5, ShortQueues, RequestCodes DEF Shapes, Codes
<1>6. CASE q = <<Request("READ", b, PAGE1)>> /\ p = "judge"
  BY <1>6, ShortQueues, RequestCodes DEF Shapes, Codes
<1>7. CASE q = <<ErasesTable, WritesTable>> /\ p = "remap"
  BY <1>7, ShortQueues, RequestCodes DEF Shapes, Codes
<1>8. CASE q = <<WritesTable>> /\ p = "remap"
  BY <1>8, ShortQueues, RequestCodes DEF Shapes, Codes
<1> QED
  BY <1>1, <1>2, <1>3, <1>4, <1>5, <1>6, <1>7, <1>8

LEMMA OpLists == \A code : OpList(code) \in {"readTrigger", "erase", "write"}
BY DEF OpList

-----------------------------------------------------------------------------
\* The scheduler.  DieOK is ListsMatchDies of one die.
DieOK(d) ==
  LET working == way[d].list \in Working
  IN  /\ way[d].die = "EXE" <=> working
      /\ working \/ ~nsc[d].ready => nandReqQ[d] # <<>>
      /\ ~nsc[d].ready => working /\ way[d].list = "statusCheck" /\ ~nsc[d].busy
      /\ way[d].list \notin {"idle", "statusCheck", "statusReport"}
           => nandReqQ[d] # <<>> /\ way[d].list = OpList(nandReqQ[d][1].code)

LEMMA EachDieOK == ListsMatchDies <=> \A d \in Ch : DieOK(d)
BY DEF ListsMatchDies, DieOK, Working

LEMMA Taken ==
  ASSUME nsc \in [Ch -> NscType], NEW c \in Ch
  PROVE  /\ CommandTaken(c, nsc[c]) \in [Ch -> NscType]
         /\ ~CommandTaken(c, nsc[c])[c].ready
         /\ CommandTaken(c, nsc[c])[c].busy = nsc[c].busy
         /\ \A d \in Ch \ {c} : CommandTaken(c, nsc[c])[d] = nsc[d]
         /\ ReadStatus(c) \in [Ch -> NscType]
         /\ ReadStatus(c)[c].ready = nsc[c].ready
         /\ \A d \in Ch \ {c} : ReadStatus(c)[d] = nsc[d]
         /\ [nsc EXCEPT ![c] = nsc[c]] = nsc
BY DEF CommandTaken, ReadStatus, NscType

\* After ExecuteNandReq on an idle die the request is not executed yet.
LEMMA Executing ==
  ASSUME way \in [Ch -> WayType], nsc \in [Ch -> NscType], NEW c \in Ch,
         nsc[c].ready, NEW q, ExecuteOr(c, q, nsc[c])
  PROVE  /\ way' \in [Ch -> WayType] /\ nsc' \in [Ch -> NscType]
         /\ \A d \in Ch \ {c} : way'[d] = way[d] /\ nsc'[d] = nsc[d]
         /\ \/ /\ way'[c].list = "statusCheck" /\ way'[c].die = "EXE"
               /\ ~nsc'[c].ready /\ ~nsc'[c].busy
            \/ /\ way'[c].list = OpList(q[1].code) /\ way'[c].die = "IDLE"
               /\ nsc'[c].ready
         /\ ~Executed(c)'
<1>1. CASE ~nsc[c].busy
  <2>1. nsc' = CommandTaken(c, nsc[c])
    BY <1>1 DEF ExecuteOr
  <2>2. PICK opt \in {"NONE", "CHECK", "REPORT"} : way' = MoveTo(c, "statusCheck", "EXE", opt)
    BY <1>1 DEF ExecuteOr, CheckOpt
  <2>3. /\ way' \in [Ch -> WayType] /\ way'[c].list = "statusCheck" /\ way'[c].die = "EXE"
        /\ \A d \in Ch \ {c} : way'[d] = way[d]
    BY <2>2 DEF MoveTo, WayType, Lists
  <2>4. /\ nsc' \in [Ch -> NscType] /\ ~nsc'[c].ready /\ nsc'[c].busy = nsc[c].busy
        /\ \A d \in Ch \ {c} : nsc'[d] = nsc[d]
    BY <2>1, Taken, Zenon
  <2>5. ~nsc'[c].busy
    BY <1>1, <2>4, Zenon
  <2>6. ~Executed(c)'
    BY <2>4, Zenon DEF Executed
  <2> QED
    BY <2>3, <2>4, <2>5, <2>6, Zenon
<1>2. CASE nsc[c].busy
  <2>1. way' = MoveTo(c, OpList(q[1].code), "IDLE", "NONE") /\ nsc' = nsc
    BY <1>2, Taken DEF ExecuteOr
  <2>2. OpList(q[1].code) \in Lists /\ OpList(q[1].code) \notin Working
    BY OpLists DEF Lists, Working
  <2>3. /\ way' \in [Ch -> WayType] /\ way'[c].list = OpList(q[1].code) /\ way'[c].die = "IDLE"
        /\ \A d \in Ch \ {c} : way'[d] = way[d]
    <3>1. PICK list \in Lists : list = OpList(q[1].code)
      BY <2>2
    <3>2. way' = MoveTo(c, list, "IDLE", "NONE")
      BY <2>1, <3>1
    <3>3. /\ way' \in [Ch -> WayType] /\ way'[c].list = list /\ way'[c].die = "IDLE"
          /\ \A d \in Ch \ {c} : way'[d] = way[d]
      BY <3>2 DEF MoveTo, WayType
    <3> QED
      BY <3>1, <3>3
  <2>4. ~Executed(c)'
    <3>1. way'[c].list \notin Working
      BY <2>2, <2>3, Zenon
    <3> QED
      BY <3>1, Zenon DEF Executed
  <2>5. \A d \in Ch \ {c} : nsc'[d] = nsc[d]
    BY <2>1
  <2>6. nsc' \in [Ch -> NscType] /\ nsc'[c].ready
    BY <2>1
  <2> QED
    BY <2>3, <2>4, <2>5, <2>6
<1> QED
  BY <1>1, <1>2

\* What a step of the scheduler or of a controller does to channel c: the
\* request at the head stays as far as it is, or it was executed and leaves.
HeadStays(c) ==
  nandReqQ' = nandReqQ /\ failMissed' = failMissed /\ (Executed(c)' <=> Executed(c))
HeadLeaves(c) ==
  /\ nandReqQ[c] # <<>> /\ Executed(c) /\ ~Executed(c)'
  /\ nandReqQ' = [nandReqQ EXCEPT ![c] = Tail(@)]
  /\ failMissed' = IF chip[c] = "fail" THEN failMissed \cup {c} ELSE failMissed
OthersStay(c) ==
  \A d \in Ch \ {c} : way'[d] = way[d] /\ nsc'[d] = nsc[d] /\ nandReqQ'[d] = nandReqQ[d]
ChannelStep(c) ==
  /\ way' \in [Ch -> WayType] /\ nsc' \in [Ch -> NscType] /\ chip' = chip
  /\ OthersStay(c) /\ DieOK(c)'
  /\ HeadStays(c) \/ HeadLeaves(c)

LEMMA SchedTypes ==
  ASSUME BootInv
  PROVE  /\ way \in [Ch -> WayType] /\ nsc \in [Ch -> NscType] /\ phase \in Phases
         /\ \A d \in Ch : DieOK(d) /\ nandReqQ[d] \in Shapes(phase, phyBlockNo)
         /\ \E Q : nandReqQ \in [Ch -> Q]
<1>1. nandReqQ \in [Ch -> Queues]
  BY DEF BootInv, BootTypes
<1> QED
  BY <1>1, EachDieOK DEF BootInv, SchedTypeOK, BootTypes, WayType, NscType

LEMMA StartIsStep ==
  ASSUME BootInv, NEW c \in Ch, Start(c) PROVE ChannelStep(c)
<1>1. nsc[c].ready /\ ~Executed(c) /\ nandReqQ[c] # <<>>
  BY SchedTypes DEF Start, DieOK, Executed, Working
<1>2. ExecuteOr(c, nandReqQ[c], nsc[c]) /\ UNCHANGED <<nandReqQ, chip, failMissed>>
  BY DEF Start
<1>3. /\ way' \in [Ch -> WayType] /\ nsc' \in [Ch -> NscType]
      /\ \A d \in Ch \ {c} : way'[d] = way[d] /\ nsc'[d] = nsc[d]
      /\ \/ /\ way'[c].list = "statusCheck" /\ way'[c].die = "EXE"
            /\ ~nsc'[c].ready /\ ~nsc'[c].busy
         \/ /\ way'[c].list = OpList(nandReqQ[c][1].code) /\ way'[c].die = "IDLE"
            /\ nsc'[c].ready
      /\ ~Executed(c)'
  BY <1>1, <1>2, SchedTypes, Executing
<1>4. DieOK(c)'
  BY <1>1, <1>2, <1>3, OpLists DEF DieOK, Working
<1> QED
  BY <1>1, <1>2, <1>3, <1>4 DEF ChannelStep, OthersStay, HeadStays

LEMMA StatusIsStep ==
  ASSUME BootInv, NEW c \in Ch, StatusCheck(c) \/ StatusReportAgain(c) PROVE ChannelStep(c)
<1>1. UNCHANGED <<nandReqQ, chip, failMissed>>
  BY DEF StatusCheck, StatusReportAgain
<1>2. /\ nsc[c].ready /\ way[c].list \in Working
      /\ nandReqQ[c] # <<>> /\ Executed(c)
  BY SchedTypes DEF StatusCheck, StatusReportAgain, DieOK, Executed, Working
<1>3. PICK list \in Working, opt \in {"NONE", "CHECK", "REPORT"} : way' = MoveTo(c, list, "EXE", opt)
  BY DEF StatusCheck, StatusReportAgain, Working
<1>4. /\ way' \in [Ch -> WayType] /\ way'[c].list = list /\ way'[c].die = "EXE"
      /\ \A d \in Ch \ {c} : way'[d] = way[d]
  BY <1>3, SchedTypes DEF MoveTo, WayType, Lists, Working
<1>5. nsc' = nsc \/ nsc' = ReadStatus(c)
  BY DEF StatusCheck, StatusReportAgain
<1>6. /\ nsc' \in [Ch -> NscType] /\ nsc'[c].ready = nsc[c].ready
      /\ \A d \in Ch \ {c} : nsc'[d] = nsc[d]
  BY <1>5, SchedTypes, Taken
<1>7. DieOK(c)'
  BY <1>1, <1>2, <1>3, <1>4, <1>6 DEF DieOK, Working
<1> QED
  BY <1>1, <1>2, <1>3, <1>4, <1>6, <1>7 DEF ChannelStep, OthersStay, HeadStays, Executed

LEMMA DoneIsStep ==
  ASSUME BootInv, NEW c \in Ch, StatusReportDone(c) PROVE ChannelStep(c)
<1>1. /\ nsc[c].ready /\ way[c].list \in Working
      /\ nandReqQ[c] # <<>> /\ Executed(c)
  BY SchedTypes DEF StatusReportDone, DieOK, Executed, Working
<1>2. /\ nandReqQ' = [nandReqQ EXCEPT ![c] = Tail(@)]
      /\ failMissed' = IF chip[c] = "fail" THEN failMissed \cup {c} ELSE failMissed
      /\ chip' = chip
  BY DEF StatusReportDone
<1>3. nandReqQ'[c] = Tail(nandReqQ[c]) /\ \A d \in Ch \ {c} : nandReqQ'[d] = nandReqQ[d]
  BY <1>2, SchedTypes
<1>4. CASE Len(nandReqQ[c]) = 1
  <2>1. way' = MoveTo(c, "idle", "IDLE", "NONE") /\ nsc' = nsc
    BY <1>4 DEF StatusReportDone
  <2>2. /\ way' \in [Ch -> WayType] /\ way'[c].list = "idle" /\ way'[c].die = "IDLE"
        /\ \A d \in Ch \ {c} : way'[d] = way[d]
    BY <2>1, SchedTypes DEF MoveTo, WayType, Lists
  <2>3. ~Executed(c)'
    BY <2>2 DEF Executed, Working
  <2>4. DieOK(c)'
    BY <1>1, <2>1, <2>2 DEF DieOK, Working
  <2> QED
    BY <1>1, <1>2, <1>3, <2>1, <2>2, <2>3, <2>4, SchedTypes DEF ChannelStep, OthersStay, HeadLeaves
<1>5. CASE Len(nandReqQ[c]) # 1
  <2>1. Tail(nandReqQ[c]) # <<>>
    BY <1>1, <1>5, SchedTypes, HeadOfQueue
  <2>2. ExecuteOr(c, Tail(nandReqQ[c]), nsc[c])
    BY <1>5 DEF StatusReportDone
  <2>3. /\ way' \in [Ch -> WayType] /\ nsc' \in [Ch -> NscType]
        /\ \A d \in Ch \ {c} : way'[d] = way[d] /\ nsc'[d] = nsc[d]
        /\ \/ /\ way'[c].list = "statusCheck" /\ way'[c].die = "EXE"
              /\ ~nsc'[c].ready /\ ~nsc'[c].busy
           \/ /\ way'[c].list = OpList(Tail(nandReqQ[c])[1].code) /\ way'[c].die = "IDLE"
              /\ nsc'[c].ready
        /\ ~Executed(c)'
    BY <1>1, <2>2, SchedTypes, Executing
  <2>4. DieOK(c)'
    BY <1>3, <2>1, <2>3, OpLists DEF DieOK, Working
  <2> QED
    BY <1>1, <1>2, <1>3, <2>3, <2>4 DEF ChannelStep, OthersStay, HeadLeaves
<1> QED
  BY <1>4, <1>5

LEMMA NscIsStep ==
  ASSUME BootInv, NEW c \in Ch, NscDone(c) PROVE ChannelStep(c)
<1>1. nsc' = [nsc EXCEPT ![c].busy = FALSE, ![c].status = chip[c]] /\ chip[c] \in {"pass", "fail"}
  BY DEF NscDone, BootInv, SchedTypeOK
<1>2. /\ nsc' \in [Ch -> NscType] /\ nsc'[c].ready = nsc[c].ready /\ ~nsc'[c].busy
      /\ \A d \in Ch \ {c} : nsc'[d] = nsc[d]
  BY <1>1, SchedTypes DEF NscType
<1>3. UNCHANGED <<way, nandReqQ, chip, failMissed>>
  BY DEF NscDone
<1>4. DieOK(c)'
  BY <1>2, <1>3, SchedTypes DEF DieOK
<1> QED
  BY <1>2, <1>3, <1>4, SchedTypes DEF ChannelStep, OthersStay, HeadStays, Executed

LEMMA StepOfDie ==
  ASSUME BootInv, NEW c \in Ch, ChannelStep(c), NEW d \in Ch
  PROVE  \/ /\ nandReqQ'[d] = nandReqQ[d] /\ (Executed(d)' <=> Executed(d))
            /\ d \in failMissed' <=> d \in failMissed
         \/ /\ nandReqQ[d] # <<>> /\ Executed(d) /\ ~Executed(d)'
            /\ nandReqQ'[d] = Tail(nandReqQ[d])
            /\ d \in failMissed' <=> MayHaveFailed(d)
<1>1. CASE d # c
  BY <1>1 DEF ChannelStep, OthersStay, HeadStays, HeadLeaves, Executed
<1>2. CASE d = c /\ HeadStays(c)
  BY <1>2 DEF HeadStays
<1>3. CASE d = c /\ HeadLeaves(c)
  BY <1>3, SchedTypes DEF HeadLeaves, MayHaveFailed
<1> QED
  BY <1>1, <1>2, <1>3 DEF ChannelStep

LEMMA ChannelKeepsInv ==
  ASSUME BootInv, NEW c \in Ch, ChannelStep(c), UNCHANGED bootVars
  PROVE  BootInv'
<1>0. /\ UNCHANGED <<flash, phase, phyBlockNo, noTable, readBuf, bad>> /\ UNCHANGED chip
      /\ phase \in Phases /\ phyBlockNo \in Blocks
  BY DEF bootVars, ChannelStep, BootInv, BootTypes
<1>1. \A d \in Ch : DieOK(d)'
  <2> TAKE d \in Ch
  <2>1. CASE d # c
    BY <2>1, SchedTypes DEF ChannelStep, OthersStay, DieOK
  <2> QED
    BY <2>1 DEF ChannelStep
<1>2. \A d \in Ch : nandReqQ'[d] \in Shapes(phase, phyBlockNo)
  BY StepOfDie, SchedTypes, HeadOfQueue
<1>3. nandReqQ' \in [Ch -> Queues]
  <2>1. nandReqQ \in [Ch -> Queues]
    BY DEF BootInv, BootTypes
  <2>2. nandReqQ'[c] \in Queues
    BY <1>0, <1>2 DEF Queues
  <2>3. nandReqQ' = nandReqQ \/ nandReqQ' = [nandReqQ EXCEPT ![c] = nandReqQ'[c]]
    BY <2>1 DEF ChannelStep, HeadStays, HeadLeaves
  <2> QED
    BY <2>1, <2>2, <2>3
<1>4. SchedTypeOK'
  <2>1. \A d \in Ch : \A i \in DOMAIN nandReqQ'[d] : nandReqQ'[d][i].code \in Codes
    <3> TAKE d \in Ch
    <3>1. nandReqQ'[d] = <<>> => DOMAIN nandReqQ'[d] = {}
      OBVIOUS
    <3> QED
      BY <1>0, <1>2, <3>1, HeadOfQueue
  <2>2. failMissed' \subseteq Ch /\ chip' \in [Ch -> {"pass", "fail"}]
    BY DEF ChannelStep, HeadStays, HeadLeaves, BootInv, SchedTypeOK
  <2> QED
    BY <2>1, <2>2 DEF ChannelStep, SchedTypeOK, WayType, NscType
<1>5. BootTypes'
  BY <1>0, <1>3 DEF BootInv, BootTypes
<1>6. ReadIsTable'
  <2> SUFFICES ASSUME phase = "checkTable", NEW d \in Ch, nandReqQ'[d] = <<>> \/ Executed(d)'
               PROVE  readBuf[d] = flash[d].table
    BY <1>0 DEF ReadIsTable
  <2>1. nandReqQ[d] = <<>> \/ Executed(d)
    BY StepOfDie
  <2> QED
    BY <2>1 DEF BootInv, ReadIsTable
<1>7. TableKnown' /\ TableMissing'
  BY <1>0, StepOfDie DEF BootInv, TableKnown, TableMissing
<1>8. TableInMaking'
  <2> SUFFICES ASSUME phase = "remap", NEW d \in noTable
               PROVE  /\ EraseToCome(d)' => ~Exists(flash[d].table)
                      /\ WriteToCome(d)' => \/ flash[d].table = BlankTable
                                            \/ ~Exists(flash[d].table) /\ MayHaveFailed(d)'
                      /\ WriteDone(d)' => flash[d].table = TableOf(bad[d]) \/ MayHaveFailed(d)'
    BY <1>0 DEF TableInMaking
  <2>0. /\ d \in Ch
        /\ EraseToCome(d) => ~Exists(flash[d].table)
        /\ WriteToCome(d) => \/ flash[d].table = BlankTable
                             \/ ~Exists(flash[d].table) /\ MayHaveFailed(d)
        /\ WriteDone(d) => flash[d].table = TableOf(bad[d]) \/ MayHaveFailed(d)
    BY DEF BootInv, BootTypes, TableInMaking
  <2>1. CASE /\ nandReqQ'[d] = nandReqQ[d] /\ (Executed(d)' <=> Executed(d))
             /\ d \in failMissed' <=> d \in failMissed
    BY <1>0, <2>0, <2>1 DEF EraseToCome, WriteToCome, WriteDone, MayHaveFailed
  <2>2. CASE /\ nandReqQ[d] # <<>> /\ Executed(d) /\ ~Executed(d)'
             /\ nandReqQ'[d] = Tail(nandReqQ[d])
             /\ d \in failMissed' <=> MayHaveFailed(d)
    <3>1. MayHaveFailed(d)' <=> MayHaveFailed(d)
      BY <2>2 DEF MayHaveFailed
    <3>2. nandReqQ[d] = <<ErasesTable, WritesTable>> \/ nandReqQ[d] = <<WritesTable>>
      BY <2>0, <2>2, SchedTypes DEF Shapes
    <3>3. CASE nandReqQ[d] = <<ErasesTable, WritesTable>>
      <4>1. nandReqQ'[d] = <<WritesTable>>
        BY <2>2, <3>3, ShortQueues
      <4>2. WriteToCome(d) /\ ~EraseToCome(d)' /\ ~WriteDone(d)'
        BY <2>2, <3>3, <4>1, ShortQueues DEF WriteToCome, EraseToCome, WriteDone
      <4> QED
        BY <2>0, <3>1, <4>2
    <3>4. CASE nandReqQ[d] = <<WritesTable>>
      <4>1. nandReqQ'[d] = <<>>
        BY <2>2, <3>4, ShortQueues
      <4>2. WriteDone(d) /\ ~EraseToCome(d)' /\ ~WriteToCome(d)'
        BY <2>2, <3>4, <4>1, ShortQueues DEF WriteToCome, EraseToCome, WriteDone
      <4> QED
        BY <2>0, <3>1, <4>2
    <3> QED
      BY <3>2, <3>3, <3>4
  <2> QED
    BY <2>0, <2>1, <2>2, StepOfDie
<1>9. RunningAgrees'
  <2>1. failMissed \subseteq failMissed'
    BY DEF ChannelStep, HeadStays, HeadLeaves
  <2> QED
    BY <1>0, <2>1 DEF BootInv, RunningAgrees, Mapped
<1>10. (ListsMatchDies)'
  BY <1>1 DEF ListsMatchDies, DieOK, Working
<1> QED
  BY <1>0, <1>2, <1>4, <1>5, <1>6, <1>7, <1>8, <1>9, <1>10 DEF BootInv

-----------------------------------------------------------------------------
\* The flash.
LEMMA Tables ==
  /\ Exists(BlankTable) /\ BlankTable \in Table
  /\ ~Exists(Unreadable) /\ Unreadable \in Table
  /\ \A s \in SUBSET Blocks : TableOf(s) \in Table /\ Exists(TableOf(s))
BY DEF Exists, BlankTable, TableOf, Unreadable, Table

\* An operation that is executed now leaves the table of a die alone unless the
\* die had none, or an erased page that knew nothing.
LEMMA FlashAfterIs ==
  ASSUME BootInv, NEW d \in Ch, nandReqQ[d] # <<>>, ~Executed(d),
         NEW result \in {"pass", "fail"}, NEW f \in FlashAfter(d, Head(nandReqQ[d]), result)
  PROVE  /\ f \in Flash /\ f.factory = flash[d].factory
         /\ phase # "remap" => f = flash[d]
         /\ phase = "remap" => d \in noTable
         /\ EraseToCome(d) => \/ f.table = BlankTable
                              \/ ~Exists(f.table) /\ result = "fail"
         /\ WriteToCome(d) => \/ f.table = TableOf(bad[d])
                              \/ d \in failMissed \/ result = "fail"
         /\ Known(d) => Exists(f.table) /\ f.factory \subseteq f.table.bad
<1> DEFINE r == Head(nandReqQ[d])
<1>0. /\ flash[d] \in Flash /\ bad[d] \in SUBSET Blocks /\ phase \in Phases
      /\ nandReqQ[d] \in Shapes(phase, phyBlockNo)
  BY DEF BootInv, BootTypes
<1>1. /\ r.code \in Codes /\ (r.code \in {"ERASE", "WRITE"} => phase = "remap")
  BY <1>0, HeadOfQueue
<1>2. phase = "remap" => d \in noTable
  BY DEF BootInv, TableKnown
<1>3. CASE r.code \notin {"ERASE", "WRITE"}
  <2>1. f = flash[d]
    BY <1>3 DEF FlashAfter
  <2>2. ~EraseToCome(d) /\ ~WriteToCome(d)
    BY <1>3, ShortQueues, RequestCodes DEF EraseToCome, WriteToCome
  <2> QED
    BY <1>0, <1>2, <2>1, <2>2 DEF Known, Exists
<1>4. CASE r.code = "ERASE"
  <2>1. nandReqQ[d] = <<ErasesTable, WritesTable>>
    BY <1>0, <1>1, <1>4, ShortQueues, RequestCodes DEF Shapes
  <2>2. EraseToCome(d) /\ ~WriteToCome(d) /\ ~Exists(flash[d].table)
    BY <1>1, <1>2, <1>4, <2>1, ShortQueues
    DEF EraseToCome, WriteToCome, BootInv, TableInMaking
  <2>3. CASE result = "pass"
    <3>1. f = Erased(flash[d])
      BY <1>4, <2>3 DEF FlashAfter
    <3>2. f \in Flash /\ f.factory = flash[d].factory /\ f.table = BlankTable
      BY <1>0, <3>1, Tables DEF Erased, Flash
    <3>3. ~Known(d) /\ phase = "remap"
      BY <1>1, <1>4, <2>2 DEF Known, Exists
    <3> QED
      BY <1>2, <2>2, <3>2, <3>3
  <2>4. CASE result = "fail"
    <3>1. f \in HalfErased(flash[d])
      BY <1>4, <2>4 DEF FlashAfter
    <3>2. /\ f \in Flash /\ f.factory = flash[d].factory
          /\ f.table \in {flash[d].table, Unreadable, BlankTable}
      BY <1>0, <3>1, Tables DEF HalfErased, Flash
    <3>3. f.table = BlankTable \/ ~Exists(f.table)
      BY <2>2, <3>2, Tables DEF Exists
    <3>4. ~Known(d)
      BY <2>2 DEF Known, Exists
    <3>5. phase = "remap"
      BY <1>1, <1>4
    <3> QED
      BY <1>2, <2>2, <2>4, <3>2, <3>3, <3>4, <3>5, Zenon
  <2> QED
    BY <2>3, <2>4
<1>5. CASE r.code = "WRITE"
  <2>1. nandReqQ[d] = <<WritesTable>>
    BY <1>0, <1>1, <1>5, ShortQueues, RequestCodes DEF Shapes
  <2>2. /\ WriteToCome(d) /\ ~EraseToCome(d)
        /\ \/ flash[d].table = BlankTable
           \/ ~Exists(flash[d].table) /\ d \in failMissed
    BY <1>1, <1>2, <1>5, <2>1, ShortQueues
    DEF EraseToCome, WriteToCome, BootInv, TableInMaking, MayHaveFailed
  <2>3. PICK bytes \in SUBSET SUBSET Blocks :
          /\ f \in Programmed(flash[d], bytes)
          /\ result = "pass" => bytes = {bad[d]}
    <3>1. CASE result = "pass"
      <4>1. f \in Programmed(flash[d], {bad[d]})
        BY <1>5, <3>1 DEF FlashAfter
      <4> QED
        BY <1>0, <4>1
    <3>2. CASE result = "fail"
      <4>1. f \in Programmed(flash[d], SUBSET bad[d])
        BY <1>5, <3>2 DEF FlashAfter
      <4> QED
        BY <1>0, <3>2, <4>1
    <3> QED
      BY <3>1, <3>2
  <2>4. CASE flash[d].table = BlankTable
    <3>1. PICK s \in bytes : f = [flash[d] EXCEPT !.table = TableOf(s)]
      BY <2>3, <2>4 DEF Programmed
    <3>2. f \in Flash /\ f.factory = flash[d].factory /\ f.table = TableOf(s)
      BY <1>0, <3>1, Tables DEF Flash
    <3>3. Known(d) => f.factory = {}
      BY <2>4, <3>2 DEF Known, BlankTable, TableOf
    <3>4. result = "pass" => s = bad[d]
      BY <2>3
    <3> QED
      BY <1>1, <1>2, <1>5, <2>2, <3>2, <3>3, <3>4, Tables
  <2>5. CASE flash[d].table # BlankTable
    <3>1. f = [flash[d] EXCEPT !.table = Unreadable]
      BY <2>3, <2>5 DEF Programmed
    <3>2. f \in Flash /\ f.factory = flash[d].factory
      BY <1>0, <3>1, Tables DEF Flash
    <3> QED
      BY <1>1, <1>2, <1>5, <2>2, <2>5, <3>2 DEF Known, Exists
  <2> QED
    BY <2>4, <2>5
<1> QED
  BY <1>3, <1>4, <1>5

\* What KnownBadStaysKnown says of a step.
KnownKept == \A d \in Ch : Known(d) => Known(d)'

LEMMA ArrayKeepsInv ==
  ASSUME BootInv, NEW c \in Ch, NEW result \in {"pass", "fail"}, ArrayDone(c, result)
  PROVE  BootInv' /\ KnownKept
<1>1. /\ ~nsc[c].ready /\ nandReqQ[c] # <<>> /\ ~Executed(c)
      /\ way[c].list = "statusCheck" /\ way[c].die = "EXE"
      /\ DieOK(c) /\ nandReqQ[c] \in Shapes(phase, phyBlockNo)
  BY SchedTypes DEF ArrayDone, ChipDone, DieOK, Executed, Working
<1>2. /\ UNCHANGED <<way, nandReqQ, failMissed, phase, phyBlockNo, noTable, bad>>
      /\ nsc' = [nsc EXCEPT ![c].ready = TRUE] /\ chip' = [chip EXCEPT ![c] = result]
      /\ readBuf' = [readBuf EXCEPT ![c] = ReadResult(c, Head(nandReqQ[c]))]
  BY DEF ArrayDone, ChipDone, memVars
<1>3. PICK f \in FlashAfter(c, Head(nandReqQ[c]), result) : flash' = [flash EXCEPT ![c] = f]
  BY DEF ArrayDone
<1>4. /\ f \in Flash /\ f.factory = flash[c].factory
      /\ phase # "remap" => f = flash[c]
      /\ phase = "remap" => c \in noTable
      /\ EraseToCome(c) => \/ f.table = BlankTable
                           \/ ~Exists(f.table) /\ result = "fail"
      /\ WriteToCome(c) => \/ f.table = TableOf(bad[c])
                           \/ c \in failMissed \/ result = "fail"
      /\ Known(c) => Exists(f.table) /\ f.factory \subseteq f.table.bad
  BY <1>1, FlashAfterIs
<1>5. /\ flash \in [Ch -> Flash] /\ readBuf \in [Ch -> Table] /\ chip \in [Ch -> {"pass", "fail"}]
      /\ phase \in Phases /\ noTable \subseteq Ch
  BY DEF BootInv, BootTypes, SchedTypeOK
<1>6. /\ flash' \in [Ch -> Flash] /\ flash'[c] = f
      /\ \A d \in Ch \ {c} : flash'[d] = flash[d]
      /\ phase # "remap" => \A d \in Ch : flash'[d] = flash[d]
  BY <1>3, <1>4, <1>5
<1>7. /\ nsc' \in [Ch -> NscType] /\ nsc'[c].ready /\ nsc'[c].busy = nsc[c].busy
      /\ \A d \in Ch \ {c} : nsc'[d] = nsc[d]
  BY <1>2, SchedTypes DEF NscType
<1>8. /\ chip' \in [Ch -> {"pass", "fail"}] /\ chip'[c] = result
      /\ \A d \in Ch \ {c} : chip'[d] = chip[d]
  BY <1>2, <1>5
<1>9. Executed(c)' /\ \A d \in Ch \ {c} : Executed(d)' <=> Executed(d)
  BY <1>1, <1>2, <1>7 DEF Executed, Working
<1>10. SchedTypeOK'
  BY <1>2, <1>7, <1>8 DEF BootInv, SchedTypeOK, NscType
<1>11. ListsMatchDies'
  <2>1. DieOK(c)'
    BY <1>1, <1>2, <1>7 DEF DieOK, Working
  <2>2. \A d \in Ch \ {c} : DieOK(d)'
    BY <1>2, <1>7, SchedTypes DEF DieOK
  <2> QED
    BY <2>1, <2>2 DEF ListsMatchDies, DieOK, Working
<1>12. ReadResult(c, Head(nandReqQ[c])) \in Table
  <2>1. \A s \in SUBSET Blocks : TableOf(s) \in Table
    BY Tables
  <2>2. /\ flash[c].table \in Table /\ flash[c].mark0 \in SUBSET Blocks
        /\ flash[c].mark1 \in SUBSET Blocks /\ readBuf[c] \in Table
    BY <1>5 DEF Flash
  <2> QED
    BY <2>1, <2>2 DEF ReadResult
<1>13. BootTypes'
  BY <1>2, <1>5, <1>6, <1>12 DEF BootInv, BootTypes
<1>14. ReadIsTable'
  <2> SUFFICES ASSUME phase = "checkTable", NEW d \in Ch, nandReqQ[d] = <<>> \/ Executed(d)'
               PROVE  readBuf'[d] = flash[d].table
    BY <1>2, <1>6 DEF ReadIsTable
  <2>1. CASE d = c
    <3>1. Head(nandReqQ[c]) = ReadsTable
      <4>1. nandReqQ[c] = <<ReadsTable>>
        BY <1>1 DEF Shapes
      <4> QED
        BY <4>1, ShortQueues
    <3>2. ReadResult(c, ReadsTable) = flash[c].table
      BY RequestCodes DEF ReadResult, PAGE0, PAGE1, TABLE_PAGE
    <3> QED
      BY <1>2, <1>5, <2>1, <3>1, <3>2
  <2>2. CASE d # c
    BY <1>2, <1>5, <1>9, <2>2 DEF BootInv, ReadIsTable
  <2> QED
    BY <2>1, <2>2
<1>15. TableKnown'
  BY <1>1, <1>2, <1>6 DEF BootInv, TableKnown
<1>16. TableMissing'
  BY <1>2, <1>5, <1>6 DEF BootInv, TableMissing
<1>17. TableInMaking'
  <2> SUFFICES ASSUME phase = "remap", NEW d \in noTable
               PROVE  /\ EraseToCome(d)' => ~Exists(flash'[d].table)
                      /\ WriteToCome(d)' => \/ flash'[d].table = BlankTable
                                            \/ ~Exists(flash'[d].table) /\ MayHaveFailed(d)'
                      /\ WriteDone(d)' => flash'[d].table = TableOf(bad[d]) \/ MayHaveFailed(d)'
    BY <1>2 DEF TableInMaking
  <2>1. CASE d # c
    <3>1. /\ EraseToCome(d)' <=> EraseToCome(d)
          /\ WriteToCome(d)' <=> WriteToCome(d)
          /\ WriteDone(d)' <=> WriteDone(d)
          /\ MayHaveFailed(d)' <=> MayHaveFailed(d)
          /\ flash'[d] = flash[d]
      BY <1>2, <1>5, <1>6, <1>8, <1>9, <2>1 DEF EraseToCome, WriteToCome, WriteDone, MayHaveFailed
    <3> QED
      BY <3>1 DEF BootInv, TableInMaking
  <2>2. CASE d = c
    <3>1. /\ ~EraseToCome(c)'
          /\ WriteToCome(c)' => EraseToCome(c)
          /\ WriteDone(c)' => WriteToCome(c)
      BY <1>1, <1>2, <1>9 DEF EraseToCome, WriteToCome, WriteDone
    <3>2. (c \in failMissed \/ result = "fail") => MayHaveFailed(c)'
      BY <1>2, <1>8, <1>9 DEF MayHaveFailed
    <3> QED
      BY <1>4, <1>6, <2>2, <3>1, <3>2
  <2> QED
    BY <2>1, <2>2
<1>18. RunningAgrees'
  BY <1>2, <1>6 DEF BootInv, RunningAgrees, Mapped
<1>19. KnownKept
  <2>1. Known(c) => Known(c)'
    BY <1>4, <1>6 DEF Known, Exists
  <2>2. \A d \in Ch \ {c} : Known(d) => Known(d)'
    BY <1>6 DEF Known
  <2> QED
    BY <2>1, <2>2 DEF KnownKept
<1>20. \A d \in Ch : nandReqQ'[d] \in Shapes(phase', phyBlockNo')
  BY <1>2, SchedTypes
<1> QED
  BY <1>10, <1>11, <1>13, <1>14, <1>15, <1>16, <1>17, <1>18, <1>19, <1>20 DEF BootInv

-----------------------------------------------------------------------------
\* The boot.
Idle == \A d \in Ch : nandReqQ[d] = <<>>

\* Phases in which the boot does not wait: no request is queued.
LEMMA QuietPhases ==
  ASSUME BootInv, phase \in {"reset", "page0", "save", "erase0", "erase1"}
  PROVE  Idle
BY DEF BootInv, Shapes, Idle

\* Every request was executed: no die works.
LEMMA NothingExecutes == ASSUME BootInv, Idle, NEW d \in Ch PROVE ~Executed(d)
BY SchedTypes DEF Idle, DieOK, Executed, Working

LEMMA QueueOnIdle ==
  ASSUME BootInv, Idle, NEW dies \in SUBSET Ch, NEW p \in Phases, NEW b,
         NEW reqs \in Shapes(p, b), QueueFor(dies, reqs)
  PROVE  nandReqQ' = [d \in Ch |-> IF d \in dies THEN reqs ELSE <<>>]
<1>1. <<>> \o reqs = reqs /\ <<>> \o <<>> = <<>>
  BY ShortQueues DEF Shapes, Phases
<1> QED
  BY <1>1 DEF QueueFor, Queue, Idle

\* What is left to show of a step of the boot, once it has queued the requests
\* of the phase it goes to.
LEMMA BootStepKeeps ==
  ASSUME BootInv, Idle, NEW dies \in SUBSET Ch, NEW reqs \in Shapes(phase', phyBlockNo'),
         nandReqQ' = [d \in Ch |-> IF d \in dies THEN reqs ELSE <<>>],
         UNCHANGED <<way, nsc, chip, failMissed>>,
         phase' \in Phases, phyBlockNo' \in Blocks
  PROVE  /\ SchedTypeOK' /\ ListsMatchDies' /\ nandReqQ' \in [Ch -> Queues]
         /\ \A d \in Ch : nandReqQ'[d] \in Shapes(phase', phyBlockNo')
         /\ \A d \in Ch : ~Executed(d)'
<1>1. \A d \in Ch : nandReqQ'[d] \in Shapes(phase', phyBlockNo')
  BY DEF Shapes
<1>2. nandReqQ' \in [Ch -> Queues]
  BY <1>1 DEF Queues
<1>3. \A d \in Ch : ~Executed(d)'
  BY NothingExecutes DEF Executed
<1>4. SchedTypeOK'
  <2>1. \A d \in Ch : \A i \in DOMAIN nandReqQ'[d] : nandReqQ'[d][i].code \in Codes
    <3> TAKE d \in Ch
    <3>1. nandReqQ'[d] = <<>> => DOMAIN nandReqQ'[d] = {}
      OBVIOUS
    <3> QED
      BY <1>1, <3>1, HeadOfQueue
  <2> QED
    BY <2>1 DEF BootInv, SchedTypeOK
<1>5. ListsMatchDies'
  <2>1. \A d \in Ch : way[d].list = "idle" /\ way[d].die = "IDLE" /\ nsc[d].ready
    BY SchedTypes DEF Idle, DieOK, Working, WayType, Lists
  <2> QED
    BY <2>1 DEF ListsMatchDies
<1> QED
  BY <1>1, <1>2, <1>3, <1>4, <1>5

LEMMA QueueingKeepsInv ==
  ASSUME BootInv, InitNandArray \/ ReadBadBlockTable PROVE BootInv'
<1>1. Idle
  BY QuietPhases DEF InitNandArray, ReadBadBlockTable, AllLowLevelReqDone, Idle
<1>2. PICK reqs : /\ QueueFor(Ch, reqs) /\ reqs \in Shapes(phase', phyBlockNo') /\ reqs # <<>>
                  /\ phase' \in {"readTable", "checkTable"}
  BY ShortQueues DEF InitNandArray, ReadBadBlockTable, Shapes, Resets, SetsFeature, ReadsTable
<1>3. UNCHANGED <<way, nsc, chip, failMissed, flash, phyBlockNo, readBuf, noTable, bad>>
  BY DEF InitNandArray, ReadBadBlockTable, QueueUnchanged, memVars
<1>4. phase' \in Phases /\ phyBlockNo' \in Blocks
  BY <1>2, <1>3 DEF Phases, BootInv, BootTypes
<1>5. nandReqQ' = [d \in Ch |-> IF d \in Ch THEN reqs ELSE <<>>]
  BY <1>1, <1>2, <1>4, QueueOnIdle
<1>6. /\ SchedTypeOK' /\ ListsMatchDies' /\ nandReqQ' \in [Ch -> Queues]
      /\ \A d \in Ch : nandReqQ'[d] \in Shapes(phase', phyBlockNo')
      /\ \A d \in Ch : ~Executed(d)'
  BY <1>1, <1>2, <1>3, <1>4, <1>5, BootStepKeeps
<1>7. BootTypes'
  BY <1>3, <1>4, <1>6 DEF BootInv, BootTypes
<1>8. ReadIsTable' /\ TableKnown' /\ TableMissing' /\ TableInMaking' /\ RunningAgrees'
  BY <1>2, <1>5, <1>6 DEF ReadIsTable, TableKnown, TableMissing, TableInMaking, RunningAgrees, Mapped
<1> QED
  BY <1>6, <1>7, <1>8 DEF BootInv

LEMMA CheckKeepsInv == ASSUME BootInv, CheckTables PROVE BootInv'
<1>1. Idle /\ phase = "checkTable"
  BY DEF CheckTables, AllLowLevelReqDone, Idle
<1>2. \A d \in Ch : readBuf[d] = flash[d].table
  BY <1>1 DEF Idle, BootInv, ReadIsTable
<1>3. /\ UNCHANGED <<way, nsc, chip, failMissed, flash, nandReqQ, phyBlockNo, readBuf>>
      /\ noTable' = {d \in Ch : ~Exists(flash[d].table)}
      /\ bad' = [d \in Ch |-> IF Exists(flash[d].table) THEN flash[d].table.bad ELSE {}]
      /\ phase' = IF noTable' = {} THEN "remap" ELSE "page0"
  BY <1>2 DEF CheckTables, QueueUnchanged
<1>4. phase' \in Phases /\ phyBlockNo' \in Blocks /\ phase' \in {"remap", "page0"}
  BY <1>3 DEF Phases, BootInv, BootTypes
<1>5. nandReqQ' = [d \in Ch |-> IF d \in {} THEN <<>> ELSE <<>>]
  BY <1>1, <1>3 DEF Idle, BootInv, BootTypes
<1>6. /\ SchedTypeOK' /\ ListsMatchDies' /\ nandReqQ' \in [Ch -> Queues]
      /\ \A d \in Ch : nandReqQ'[d] \in Shapes(phase', phyBlockNo')
      /\ \A d \in Ch : ~Executed(d)'
  <2>1. <<>> \in Shapes(phase', phyBlockNo')
    BY DEF Shapes
  <2> QED
    BY <1>1, <1>3, <1>4, <1>5, <2>1, BootStepKeeps
<1>7. BootTypes'
  <2>1. \A d \in Ch : flash[d].table.bad \in SUBSET Blocks
    BY DEF BootInv, BootTypes, Flash, Table
  <2> QED
    BY <1>3, <1>4, <1>6, <2>1 DEF BootInv, BootTypes
<1>8. TableKnown' /\ TableMissing'
  BY <1>3, <1>5 DEF TableKnown, TableMissing
<1>9. TableInMaking'
  BY <1>3 DEF TableInMaking
<1>10. ReadIsTable' /\ RunningAgrees'
  BY <1>4 DEF ReadIsTable, RunningAgrees, Mapped
<1> QED
  BY <1>6, <1>7, <1>8, <1>9, <1>10 DEF BootInv

\* FindBadBlock looks only at the dies without a table.
LEMMA FindKeepsInv ==
  ASSUME BootInv, ReadFirstPage \/ ReadLastPage \/ JudgeBlock PROVE BootInv'
<1>1. Idle /\ phase \in {"page0", "page1", "judge"}
  BY QuietPhases DEF ReadFirstPage, ReadLastPage, JudgeBlock, AllLowLevelReqDone, Idle
<1>2. /\ UNCHANGED <<way, nsc, chip, failMissed, flash, noTable, readBuf>>
      /\ phase' \in {"page0", "page1", "judge", "save"}
  BY DEF ReadFirstPage, ReadLastPage, JudgeBlock, QueueUnchanged, memVars
<1>3. phase' \in Phases /\ phyBlockNo \in Blocks /\ noTable \subseteq Ch
  BY <1>2 DEF Phases, BootInv, BootTypes
<1>4. phyBlockNo' \in Blocks
  BY <1>3, BlocksAssumption
  DEF ReadFirstPage, ReadLastPage, JudgeBlock, LastBlock, Blocks, UserBlocks, SpareBlocks
<1>5. PICK dies \in SUBSET noTable, reqs \in Shapes(phase', phyBlockNo') :
        nandReqQ' = [d \in Ch |-> IF d \in dies THEN reqs ELSE <<>>]
  <2>1. CASE ReadFirstPage
    <3>1. /\ QueueFor(noTable, <<Request("READ", phyBlockNo, PAGE0)>>)
          /\ <<Request("READ", phyBlockNo, PAGE0)>> \in Shapes(phase', phyBlockNo')
      BY <2>1 DEF ReadFirstPage, Shapes
    <3>2. nandReqQ' = [d \in Ch |-> IF d \in noTable THEN <<Request("READ", phyBlockNo, PAGE0)>> ELSE <<>>]
      BY <1>1, <1>3, <3>1, QueueOnIdle
    <3> QED
      BY <3>1, <3>2
  <2>2. CASE ReadLastPage
    <3>1. /\ QueueFor({d \in noTable : Clean(d)}, <<Request("READ", phyBlockNo, PAGE1)>>)
          /\ <<Request("READ", phyBlockNo, PAGE1)>> \in Shapes(phase', phyBlockNo')
      BY <2>2 DEF ReadLastPage, Shapes
    <3>2. {d \in noTable : Clean(d)} \in SUBSET Ch /\ {d \in noTable : Clean(d)} \in SUBSET noTable
      BY <1>3
    <3>3. nandReqQ' = [d \in Ch |-> IF d \in {e \in noTable : Clean(e)}
                                   THEN <<Request("READ", phyBlockNo, PAGE1)>> ELSE <<>>]
      BY <1>1, <1>3, <3>1, <3>2, QueueOnIdle
    <3> QED
      BY <3>1, <3>2, <3>3
  <2>3. CASE JudgeBlock
    <3>1. <<>> \in Shapes(phase', phyBlockNo')
      BY DEF Shapes
    <3>2. nandReqQ' = [d \in Ch |-> IF d \in {} THEN <<>> ELSE <<>>]
      BY <1>1, <2>3 DEF JudgeBlock, Idle, BootInv, BootTypes
    <3> QED
      BY <3>1, <3>2
  <2> QED
    BY <2>1, <2>2, <2>3
<1>6. /\ SchedTypeOK' /\ ListsMatchDies' /\ nandReqQ' \in [Ch -> Queues]
      /\ \A d \in Ch : nandReqQ'[d] \in Shapes(phase', phyBlockNo')
      /\ \A d \in Ch : ~Executed(d)'
  <2>1. dies \in SUBSET Ch
    BY <1>3
  <2> QED
    BY <1>1, <1>2, <1>3, <1>4, <1>5, <2>1, BootStepKeeps
<1>7. bad' \in [Ch -> SUBSET Blocks] /\ \A d \in Ch \ noTable : bad'[d] = bad[d]
  <2>1. bad \in [Ch -> SUBSET Blocks]
    BY DEF BootInv, BootTypes
  <2>2. CASE UNCHANGED bad
    BY <2>1, <2>2
  <2>3. CASE bad' = [d \in Ch |-> Judged(d)]
    BY <1>3, <2>1, <2>3 DEF Judged
  <2> QED
    BY <2>2, <2>3 DEF ReadFirstPage, ReadLastPage, JudgeBlock, memVars
<1>8. BootTypes'
  BY <1>2, <1>3, <1>4, <1>6, <1>7 DEF BootInv, BootTypes
<1>9. TableKnown' /\ TableMissing'
  BY <1>1, <1>2, <1>5, <1>7 DEF BootInv, TableKnown, TableMissing
<1>10. ReadIsTable' /\ TableInMaking' /\ RunningAgrees'
  BY <1>2 DEF ReadIsTable, TableInMaking, RunningAgrees, Mapped
<1> QED
  BY <1>6, <1>8, <1>9, <1>10 DEF BootInv

LEMMA SaveKeepsInv == ASSUME BootInv, SaveBadBlockTable PROVE BootInv'
<1>1. Idle /\ phase = "save" /\ phase' = "remap" /\ phase' \in Phases
  BY QuietPhases DEF SaveBadBlockTable, Phases
<1>2. /\ UNCHANGED <<way, nsc, chip, failMissed, flash, phyBlockNo, noTable, readBuf, bad>>
      /\ phyBlockNo \in Blocks /\ noTable \subseteq Ch
  BY DEF SaveBadBlockTable, QueueUnchanged, memVars, BootInv, BootTypes
<1>3. /\ SaveRequests = <<ErasesTable, WritesTable>>
      /\ SaveRequests \in Shapes(phase', phyBlockNo')
  BY <1>1 DEF SaveRequests, ErasesTable, WritesTable, Shapes
<1>4. nandReqQ' = [d \in Ch |-> IF d \in noTable THEN SaveRequests ELSE <<>>]
  BY <1>1, <1>2, <1>3, QueueOnIdle DEF SaveBadBlockTable, ToSave
<1>5. /\ SchedTypeOK' /\ ListsMatchDies' /\ nandReqQ' \in [Ch -> Queues]
      /\ \A d \in Ch : nandReqQ'[d] \in Shapes(phase', phyBlockNo')
      /\ \A d \in Ch : ~Executed(d)'
  BY <1>1, <1>2, <1>3, <1>4, BootStepKeeps
<1>6. BootTypes'
  BY <1>1, <1>2, <1>5 DEF BootInv, BootTypes
<1>7. TableKnown' /\ TableMissing'
  BY <1>1, <1>2, <1>4 DEF BootInv, TableKnown, TableMissing
<1>8. TableInMaking'
  <2> SUFFICES ASSUME NEW d \in noTable
               PROVE  EraseToCome(d)' /\ ~Exists(flash[d].table) /\ ~WriteToCome(d)' /\ ~WriteDone(d)'
    BY <1>2 DEF TableInMaking
  <2>1. nandReqQ'[d] = <<ErasesTable, WritesTable>> /\ ~Executed(d)'
    BY <1>2, <1>3, <1>4, <1>5
  <2>2. ~Exists(flash[d].table)
    BY <1>1 DEF BootInv, TableMissing
  <2> QED
    BY <2>1, <2>2, ShortQueues DEF EraseToCome, WriteToCome, WriteDone
<1>9. ReadIsTable' /\ RunningAgrees'
  BY <1>1 DEF ReadIsTable, RunningAgrees, Mapped
<1> QED
  BY <1>5, <1>6, <1>7, <1>8, <1>9 DEF BootInv

\* The table is made, unless a failure was missed, and memory is as it says.
LEMMA RemapKeepsInv == ASSUME BootInv, RemapBadBlock PROVE BootInv'
<1>1. Idle /\ phase = "remap" /\ phase' \in {"erase0", "assert"} /\ phase' \in Phases
  BY DEF RemapBadBlock, AllLowLevelReqDone, Idle, Phases
<1>2. /\ UNCHANGED <<way, nsc, chip, failMissed, flash, nandReqQ, noTable>>
      /\ bad' = [d \in Ch |-> bad[d] \cup {0}] /\ readBuf' = [d \in Ch |-> NoRead]
      /\ phyBlockNo' = 0 /\ 0 \in Blocks
  BY BlocksAssumption DEF RemapBadBlock, QueueUnchanged, ToPreventAccess, Blocks, UserBlocks
<1>3. nandReqQ' = [d \in Ch |-> IF d \in {} THEN <<>> ELSE <<>>]
  BY <1>1, <1>2 DEF Idle, BootInv, BootTypes
<1>4. /\ SchedTypeOK' /\ ListsMatchDies' /\ nandReqQ' \in [Ch -> Queues]
      /\ \A d \in Ch : nandReqQ'[d] \in Shapes(phase', phyBlockNo')
      /\ \A d \in Ch : ~Executed(d)'
  <2>1. <<>> \in Shapes(phase', phyBlockNo')
    BY DEF Shapes
  <2> QED
    BY <1>1, <1>2, <1>3, <2>1, BootStepKeeps
<1>5. BootTypes'
  <2>1. NoRead \in Table
    BY DEF NoRead, TableOf, Table
  <2> QED
    BY <1>1, <1>2, <1>4, <2>1 DEF BootInv, BootTypes
<1>6. RunningAgrees'
  <2> SUFFICES ASSUME NEW d \in Ch \ failMissed
               PROVE  Exists(flash[d].table) /\ bad'[d] = flash[d].table.bad \cup {0}
    BY <1>2 DEF RunningAgrees
  <2>1. CASE d \notin noTable
    BY <1>1, <1>2, <2>1 DEF BootInv, TableKnown
  <2>2. CASE d \in noTable
    <3>1. WriteDone(d) /\ ~MayHaveFailed(d)
      BY <1>1, NothingExecutes DEF Idle, WriteDone, MayHaveFailed
    <3>2. flash[d].table = TableOf(bad[d])
      BY <1>1, <2>2, <3>1 DEF BootInv, TableInMaking
    <3> QED
      BY <1>2, <3>2 DEF TableOf, Exists
  <2> QED
    BY <2>1, <2>2
<1>7. ReadIsTable' /\ TableKnown' /\ TableMissing' /\ TableInMaking'
  BY <1>1 DEF ReadIsTable, TableKnown, TableMissing, TableInMaking
<1> QED
  BY <1>4, <1>5, <1>6, <1>7 DEF BootInv

\* The erases of main change marks, no table.
LEMMA EraseSpareKeepsInv == ASSUME BootInv, EraseSpare PROVE BootInv' /\ KnownKept
<1>1. /\ phase \in {"erase0", "erase1"} /\ phase' \in {"erase1", "done"} /\ phase' \in Phases
      /\ UNCHANGED <<way, nsc, chip, failMissed, nandReqQ, phyBlockNo, readBuf, noTable, bad>>
  BY DEF EraseSpare, QueueUnchanged, memVars, Phases
<1>2. /\ flash' \in [Ch -> Flash]
      /\ \A d \in Ch : flash'[d].table = flash[d].table /\ flash'[d].factory = flash[d].factory
  <2>1. flash \in [Ch -> Flash]
    BY DEF BootInv, BootTypes
  <2> DEFINE b == USER_BLOCKS_PER_LUN + IF phase = "erase0" THEN 0 ELSE 1
  <2>2. PICK kept \in SUBSET Ch :
          flash' = [d \in Ch |->
            IF d \in kept THEN flash[d]
            ELSE [flash[d] EXCEPT !.mark0 = @ \ {b}, !.mark1 = @ \ {b}]]
    BY DEF EraseSpare
  <2>3. \A d \in Ch : LET f == [flash[d] EXCEPT !.mark0 = @ \ {b}, !.mark1 = @ \ {b}]
                      IN  f \in Flash /\ f.table = flash[d].table /\ f.factory = flash[d].factory
    BY <2>1 DEF Flash
  <2> QED
    BY <2>1, <2>2, <2>3
<1>3. Idle
  BY <1>1, QuietPhases
<1>4. nandReqQ' = [d \in Ch |-> IF d \in {} THEN <<>> ELSE <<>>]
  BY <1>1, <1>3 DEF Idle, BootInv, BootTypes
<1>5. /\ SchedTypeOK' /\ ListsMatchDies' /\ nandReqQ' \in [Ch -> Queues]
      /\ \A d \in Ch : nandReqQ'[d] \in Shapes(phase', phyBlockNo')
      /\ \A d \in Ch : ~Executed(d)'
  <2>1. <<>> \in Shapes(phase', phyBlockNo') /\ phyBlockNo' \in Blocks
    BY <1>1 DEF Shapes, BootInv, BootTypes
  <2> QED
    BY <1>1, <1>3, <1>4, <2>1, BootStepKeeps
<1>6. BootTypes'
  BY <1>1, <1>2, <1>5 DEF BootInv, BootTypes
<1>7. RunningAgrees' /\ KnownKept
  BY <1>1, <1>2 DEF BootInv, RunningAgrees, Mapped, KnownKept, Known
<1>8. ReadIsTable' /\ TableKnown' /\ TableMissing' /\ TableInMaking'
  BY <1>1 DEF ReadIsTable, TableKnown, TableMissing, TableInMaking
<1> QED
  BY <1>5, <1>6, <1>7, <1>8 DEF BootInv

-----------------------------------------------------------------------------
\* The power.  What is cut short is an operation that has not been executed.
LEMMA CutShortIs ==
  ASSUME BootInv, NEW d \in Ch, NEW f \in CutShort(d)
  PROVE  /\ f \in Flash
         /\ Known(d) => Exists(f.table) /\ f.factory \subseteq f.table.bad
<1>1. flash[d] \in Flash
  BY DEF BootInv, BootTypes
<1>2. CASE f = flash[d]
  BY <1>1, <1>2 DEF Known, Exists
<1>3. CASE ~nsc[d].ready /\ f \in FlashAfter(d, Head(nandReqQ[d]), "fail")
  <2>1. nandReqQ[d] # <<>> /\ ~Executed(d)
    BY <1>3, SchedTypes DEF DieOK, Executed
  <2> QED
    BY <1>3, <2>1, FlashAfterIs
<1> QED
  BY <1>2, <1>3 DEF CutShort

\* A boot begins.
LEMMA StartIsInv ==
  flash \in [Ch -> Flash] /\ StartBoot /\ InitReqScheduler => BootInv
<1> SUFFICES ASSUME flash \in [Ch -> Flash], StartBoot, InitReqScheduler PROVE BootInv
  OBVIOUS
<1>1. nandReqQ = [d \in Ch |-> <<>>] /\ phase = "reset" /\ phyBlockNo = 0
  BY DEF StartBoot, InitReqScheduler
<1>2. 0 \in Blocks /\ NoRead \in Table
  BY BlocksAssumption DEF Blocks, UserBlocks, NoRead, TableOf, Table
<1>3. \A p, b : <<>> \in Shapes(p, b)
  BY DEF Shapes
<1>4. nandReqQ \in [Ch -> Queues]
  <2>1. "reset" \in Phases
    BY DEF Phases
  <2>2. <<>> \in Shapes("reset", 0) /\ Shapes("reset", 0) \in {Shapes(p, b) : p \in Phases, b \in Blocks}
    BY <1>2, <1>3, <2>1
  <2>3. <<>> \in Queues
    BY <2>2 DEF Queues
  <2> QED
    BY <1>1, <2>3
<1>5. BootTypes
  BY <1>1, <1>2, <1>4 DEF BootTypes, StartBoot, Phases
<1>6. SchedTypeOK
  <2>1. DOMAIN <<>> = {}
    OBVIOUS
  <2>2. \A d \in Ch : nandReqQ[d] = <<>>
    BY <1>1
  <2> QED
    BY <2>1, <2>2 DEF SchedTypeOK, InitReqScheduler, Lists
<1>7. ListsMatchDies
  BY DEF ListsMatchDies, InitReqScheduler
<1>8. ReadIsTable /\ TableKnown /\ TableMissing /\ TableInMaking /\ RunningAgrees
  BY <1>1 DEF ReadIsTable, TableKnown, TableMissing, TableInMaking, RunningAgrees, Mapped
<1> QED
  BY <1>1, <1>3, <1>5, <1>6, <1>7, <1>8 DEF BootInv

LEMMA PowerLossKeepsInv == ASSUME BootInv, PowerLoss PROVE BootInv' /\ KnownKept
<1>1. \A d \in Ch : flash'[d] \in CutShort(d)
  BY DEF PowerLoss
<1>2. flash' \in [Ch -> Flash] /\ KnownKept
  <2>1. PICK Q : flash' \in [Ch -> Q]
    BY DEF PowerLoss
  <2>2. \A d \in Ch : /\ flash'[d] \in Flash
                      /\ Known(d) => Exists(flash'[d].table) /\ flash'[d].factory \subseteq flash'[d].table.bad
    BY <1>1, CutShortIs
  <2>3. flash' \in [Ch -> Flash]
    <3>1. \A d \in Ch : flash'[d] \in Flash
      BY <2>2
    <3> QED
      BY <2>1, <3>1
  <2> QED
    BY <2>2, <2>3 DEF KnownKept, Known, Exists
<1>3. (flash \in [Ch -> Flash] /\ StartBoot /\ InitReqScheduler)'
  BY <1>2 DEF PowerLoss, StartBoot, InitReqScheduler
<1>4. BootInv'
  BY <1>3, StartIsInv, PTL
<1> QED
  BY <1>2, <1>4

-----------------------------------------------------------------------------
LEMMA NextKeepsInv ==
  ASSUME BootInv, [BadBlockNext]_<<schedVars, bootVars>>
  PROVE  BootInv' /\ KnownKept
<1>1. CASE BootStep
  <2>1. CASE EraseSpare
    BY <2>1, EraseSpareKeepsInv
  <2>2. CASE ~EraseSpare
    <3>1. BootInv'
      BY <1>1, <2>2, QueueingKeepsInv, CheckKeepsInv, FindKeepsInv, SaveKeepsInv, RemapKeepsInv DEF BootStep
    <3>2. UNCHANGED flash
      BY <1>1, <2>2 DEF BootStep, InitNandArray, ReadBadBlockTable, CheckTables, ReadFirstPage,
           ReadLastPage, JudgeBlock, SaveBadBlockTable, RemapBadBlock
    <3> QED
      BY <3>1, <3>2 DEF KnownKept, Known
  <2> QED
    BY <2>1, <2>2
<1>2. ASSUME NEW c \in Ch, Scheduling(c) \/ NscStep(c) PROVE BootInv' /\ KnownKept
  <2>1. ChannelStep(c) /\ UNCHANGED bootVars
    BY <1>2, StartIsStep, StatusIsStep, DoneIsStep, NscIsStep DEF Scheduling, SchedulingNandReqPerCh, NscStep
  <2> QED
    BY <2>1, ChannelKeepsInv DEF bootVars, KnownKept, Known
<1>3. ASSUME NEW c \in Ch, NEW result \in {"pass", "fail"}, ArrayDone(c, result)
      PROVE  BootInv' /\ KnownKept
  BY <1>3, ArrayKeepsInv
<1>4. CASE PowerLoss
  BY <1>4, PowerLossKeepsInv
<1>5. CASE UNCHANGED <<schedVars, bootVars>>
  BY <1>5 DEF schedVars, bootVars, KnownKept, Known, BootInv, SchedTypeOK, ListsMatchDies, BootTypes,
       ReadIsTable, TableKnown, TableMissing, TableInMaking, RunningAgrees, Mapped, EraseToCome,
       WriteToCome, WriteDone, MayHaveFailed, Executed
<1> QED
  BY <1>1, <1>2, <1>3, <1>4, <1>5 DEF BadBlockNext

\* BootInv holds from the first power-on, through every failure of the flash
\* and every loss of the power.
THEOREM BootInductive == BadBlockSpec => []BootInv
<1>1. BadBlockInit => BootInv
  BY StartIsInv, FlashAssumption DEF BadBlockInit, InitBadBlock
<1>2. BootInv /\ [BadBlockNext]_<<schedVars, bootVars>> => BootInv'
  BY NextKeepsInv
<1> QED
  BY <1>1, <1>2, PTL DEF BadBlockSpec

\* The list of a way says what its die is doing, whatever the boot queues.
\* (SchedulingNandReqPerCh.)
THEOREM ListsAlwaysMatchDies == BadBlockSpec => []ListsMatchDies
<1>1. BootInv => ListsMatchDies
  BY DEF BootInv
<1> QED
  BY <1>1, BootInductive, PTL

\* On every die, of any size: the firmware runs with the bad blocks of the table
\* on the flash.  (RecoverBadBlockTable, SaveBadBlockTable.)
THEOREM RunningAlwaysAgrees == BadBlockSpec => []RunningAgrees
<1>1. BootInv => RunningAgrees
  BY DEF BootInv
<1> QED
  BY <1>1, BootInductive, PTL

\* No loss of the power makes a die forget its bad blocks.  (SaveBadBlockTable.)
THEOREM KnownStaysKnown == BadBlockSpec => KnownBadStaysKnown
<1>1. BootInv /\ [BadBlockNext]_<<schedVars, bootVars>>
        => [\A d \in Ch : Known(d) => Known(d)']_<<schedVars, bootVars>>
  BY NextKeepsInv DEF KnownKept
<1> QED
  BY <1>1, BootInductive, PTL DEF BadBlockSpec, KnownBadStaysKnown

-----------------------------------------------------------------------------
(***************************************************************************)
(* Which block stands for which.  The rank of an element counts those      *)
(* below it; in a finite set each rank below its size is taken once.       *)
(***************************************************************************)
Below(S, x) == {y \in S : y < x}

LEMMA BelowGrows ==
  ASSUME NEW S \in SUBSET Int, NEW s \in S, NEW t \in S, s < t
  PROVE  Below(S, s) \in SUBSET Below(S, t) /\ s \in Below(S, t) /\ s \notin Below(S, s)
<1>1. s \in Int /\ t \in Int /\ ~(s < s)
  OBVIOUS
<1>2. \A y \in S : y < s => y < t
  BY <1>1
<1> QED
  BY <1>1, <1>2 DEF Below

LEMMA RankFacts ==
  ASSUME NEW S \in SUBSET Int, IsFiniteSet(S)
  PROVE  /\ \A s \in S : Rank(S, s) \in 0 .. Cardinality(S) - 1
         /\ \A s, t \in S : Rank(S, s) = Rank(S, t) => s = t
<1>1. Cardinality(S) \in Nat
  BY FS_CardinalityType
<1>2. \A s \in S : /\ IsFiniteSet(Below(S, s)) /\ Rank(S, s) = Cardinality(Below(S, s))
                   /\ Rank(S, s) \in Nat /\ Rank(S, s) < Cardinality(S)
  <2> TAKE s \in S
  <2>1. Below(S, s) \in SUBSET S /\ s \notin Below(S, s)
    BY DEF Below
  <2>2. /\ IsFiniteSet(Below(S, s)) /\ Cardinality(Below(S, s)) <= Cardinality(S)
        /\ Cardinality(Below(S, s)) # Cardinality(S)
    BY <2>1, FS_Subset
  <2>3. Cardinality(Below(S, s)) \in Nat
    BY <2>2, FS_CardinalityType
  <2>4. Rank(S, s) = Cardinality(Below(S, s))
    BY DEF Rank, Below
  <2> QED
    BY <1>1, <2>2, <2>3, <2>4
<1>3. \A s, t \in S : s < t => Rank(S, s) < Rank(S, t)
  <2> TAKE s \in S, t \in S
  <2> HAVE s < t
  <2>1. Below(S, s) \in SUBSET Below(S, t) /\ s \in Below(S, t) /\ s \notin Below(S, s)
    BY BelowGrows
  <2>2. IsFiniteSet(Below(S, t))
    BY <1>2
  <2>3. /\ Cardinality(Below(S, s)) <= Cardinality(Below(S, t))
        /\ Cardinality(Below(S, s)) # Cardinality(Below(S, t))
    BY <2>1, <2>2, FS_Subset
  <2> QED
    BY <1>2, <2>3
<1>4. \A s, t \in S : Rank(S, s) = Rank(S, t) => s = t
  <2> TAKE s \in S, t \in S
  <2> HAVE Rank(S, s) = Rank(S, t)
  <2>1. ~(s < t) /\ ~(t < s)
    BY <1>2, <1>3
  <2> QED
    BY <2>1
<1>5. \A s \in S : Rank(S, s) \in 0 .. Cardinality(S) - 1
  BY <1>1, <1>2
<1> QED
  BY <1>4, <1>5

LEMMA RankTaken ==
  ASSUME NEW S \in SUBSET Int, IsFiniteSet(S), NEW k \in Nat, k < Cardinality(S)
  PROVE  \E s \in S : Rank(S, s) = k
<1> DEFINE T == 0 .. Cardinality(S) - 1
           f == [s \in S |-> Rank(S, s)]
<1>1. Cardinality(S) \in Nat
  BY FS_CardinalityType
<1>2. IsFiniteSet(T) /\ Cardinality(T) = Cardinality(S)
  <2>1. PICK n \in Nat : n = Cardinality(S)
    BY <1>1
  <2>2. IsFiniteSet(0 .. n - 1) /\ Cardinality(0 .. n - 1) = IF 0 > n - 1 THEN 0 ELSE n - 1 - 0 + 1
    BY FS_Interval
  <2>3. Cardinality(0 .. n - 1) = n
    BY <2>2
  <2> QED
    BY <2>1, <2>2, <2>3
<1>3. f \in Injection(S, T)
  <2>1. f \in [S -> T]
    BY RankFacts
  <2>2. \A s, t \in S : f[s] = f[t] => s = t
    BY RankFacts
  <2>3. DOMAIN f = S
    OBVIOUS
  <2> HIDE DEF f
  <2> QED
    BY <2>1, <2>2, <2>3 DEF Injection, IsInjective
<1>4. f \in Surjection(S, T)
  BY <1>2, <1>3, FS_Injection
<1>5. k \in T
  BY <1>1
<1> QED
  BY <1>4, <1>5 DEF Surjection

LEMMA MinIs ==
  ASSUME NEW S \in SUBSET Int, IsFiniteSet(S), Cardinality(S) > 0
  PROVE  Min(S) \in S
<1>1. PICK s \in S : Rank(S, s) = 0
  BY RankTaken
<1>2. IsFiniteSet({y \in S : y < s})
  BY FS_Subset
<1>3. {y \in S : y < s} = {}
  BY <1>1, <1>2, FS_EmptySet DEF Rank
<1>4. \A y \in S : s =< y
  BY <1>3
<1> QED
  BY <1>4 DEF Min

LEMMA FiniteBlocks ==
  /\ Blocks \in SUBSET Int /\ UserBlocks \in SUBSET Blocks /\ SpareBlocks \in SUBSET Blocks
  /\ UserBlocks \cap SpareBlocks = {} /\ 0 \in UserBlocks
  /\ \A S \in SUBSET Blocks : IsFiniteSet(S) /\ S \in SUBSET Int
<1>1. Blocks \subseteq 0 .. TOTAL_BLOCKS_PER_LUN - 1
  BY BlocksAssumption DEF Blocks, UserBlocks, SpareBlocks
<1>2. IsFiniteSet(0 .. TOTAL_BLOCKS_PER_LUN - 1)
  BY BlocksAssumption, FS_Interval
<1>3. \A S \in SUBSET Blocks : IsFiniteSet(S)
  BY <1>1, <1>2, FS_Subset
<1>4. Blocks \in SUBSET Int
  BY <1>1
<1> QED
  BY <1>3, <1>4, BlocksAssumption DEF Blocks, UserBlocks, SpareBlocks

\* A bad user block that is replaced at all is replaced by the good spare block
\* of its rank.
LEMMA SpareIs ==
  ASSUME NEW B \in SUBSET Blocks, NEW v \in Usable(B)
  PROVE  /\ v \in UserBlocks /\ SpareFor(B, v) \notin B /\ SpareFor(B, v) \in Blocks
         /\ \/ v \notin B /\ SpareFor(B, v) = v
            \/ /\ v \in B \cap UserBlocks /\ SpareFor(B, v) \in SpareBlocks
               /\ Rank(SpareBlocks \ B, SpareFor(B, v)) = Rank(B \cap UserBlocks, v)
<1> DEFINE good == SpareBlocks \ B
           rank == Rank(B \cap UserBlocks, v)
<1>1. v \in UserBlocks /\ SpareFor(B, v) \notin B
  BY DEF Usable
<1>2. CASE v \notin B
  BY <1>1, <1>2, FiniteBlocks DEF SpareFor
<1>3. CASE v \in B
  <2>1. rank < Cardinality(good)
    BY <1>1, <1>3 DEF SpareFor
  <2>2. rank \in Nat
    <3>1. B \cap UserBlocks \in SUBSET Int /\ IsFiniteSet(B \cap UserBlocks) /\ v \in B \cap UserBlocks
      BY <1>1, <1>3, FiniteBlocks
    <3>2. Cardinality(B \cap UserBlocks) \in Nat
      BY <3>1, FS_CardinalityType
    <3> QED
      BY <3>1, <3>2, RankFacts
  <2>3. good \in SUBSET Int /\ IsFiniteSet(good)
    BY FiniteBlocks
  <2>4. \E s \in good : Rank(good, s) = rank
    BY <2>1, <2>2, <2>3, RankTaken
  <2>5. SpareFor(B, v) = CHOOSE s \in good : Rank(good, s) = rank
    BY <1>3, <2>1 DEF SpareFor
  <2>6. SpareFor(B, v) \in good /\ Rank(good, SpareFor(B, v)) = rank
    BY <2>4, <2>5
  <2> QED
    BY <1>1, <1>3, <2>6, FiniteBlocks
<1> QED
  BY <1>2, <1>3

LEMMA SparesDiffer ==
  ASSUME NEW B \in SUBSET Blocks, NEW v \in Usable(B), NEW w \in Usable(B),
         SpareFor(B, v) = SpareFor(B, w)
  PROVE  v = w
<1>1. \A x \in Usable(B) :
        /\ x \in UserBlocks
        /\ x \notin B => SpareFor(B, x) = x
        /\ x \in B => /\ SpareFor(B, x) \in SpareBlocks
                      /\ Rank(SpareBlocks \ B, SpareFor(B, x)) = Rank(B \cap UserBlocks, x)
  BY SpareIs
<1>2. UserBlocks \cap SpareBlocks = {}
  BY FiniteBlocks
<1>3. CASE v \notin B \/ w \notin B
  BY <1>1, <1>2, <1>3
<1>4. CASE v \in B /\ w \in B
  <2>1. v \in B \cap UserBlocks /\ w \in B \cap UserBlocks
    BY <1>1, <1>4
  <2>2. Rank(B \cap UserBlocks, v) = Rank(B \cap UserBlocks, w)
    BY <1>1, <1>4
  <2>3. B \cap UserBlocks \in SUBSET Int /\ IsFiniteSet(B \cap UserBlocks)
    BY FiniteBlocks
  <2> QED
    BY <2>1, <2>2, <2>3, RankFacts
<1> QED
  BY <1>3, <1>4

-----------------------------------------------------------------------------
(***************************************************************************)
(* What memory holds of the tables on the flash: from the check on, the    *)
(* blocks that a table knows are bad in memory as well; and the map is     *)
(* made of the bad blocks that memory holds.                               *)
(***************************************************************************)
AfterCheck == {"page0", "page1", "judge", "save", "remap", "erase0", "erase1", "done"}

TableWithin(d) == Exists(flash[d].table) => flash[d].table.bad \subseteq bad[d]

MapOf(badBlocks) == [b \in UserBlocks |-> SpareFor(badBlocks, b)]

MapInv ==
  /\ phase \in AfterCheck => \A d \in Ch : TableWithin(d)
  /\ Mapped => \A d \in Ch : /\ 0 \in bad[d] /\ remapped[d] = MapOf(bad[d])
                             /\ currentBlock[d] \in Usable(bad[d])

\* Where neither the flash nor memory changes there is nothing to show.
LEMMA SameMemory ==
  ASSUME MapInv, UNCHANGED <<bad, remapped, currentBlock>>,
         \A d \in Ch : flash'[d].table = flash[d].table,
         phase' \in AfterCheck => phase \in AfterCheck, Mapped' => Mapped
  PROVE  MapInv'
BY DEF MapInv, TableWithin

LEMMA TableAfter ==
  ASSUME BootInv, NEW d \in Ch, NEW r, NEW result, NEW f \in FlashAfter(d, r, result)
  PROVE  \/ f.table = flash[d].table
         \/ ~Exists(f.table)
         \/ \E s \in SUBSET bad[d] : f.table = TableOf(s)
<1>0. flash[d] \in Flash
  BY DEF BootInv, BootTypes
<1>1. CASE f = flash[d]
  BY <1>1
<1>2. CASE f = Erased(flash[d])
  <2>1. f.table = TableOf({})
    BY <1>0, <1>2 DEF Erased, BlankTable, Flash
  <2> QED
    BY <2>1
<1>3. CASE f \in HalfErased(flash[d])
  <2>1. f = flash[d] \/ f.table = Unreadable \/ f.table = BlankTable
    BY <1>0, <1>3 DEF HalfErased, Flash
  <2>2. BlankTable = TableOf({}) /\ {} \in SUBSET bad[d]
    BY DEF BlankTable
  <2> QED
    BY <2>1, <2>2, Tables
<1>4. ASSUME NEW bytes \in SUBSET SUBSET bad[d], f \in Programmed(flash[d], bytes)
      PROVE  ~Exists(f.table) \/ \E s \in SUBSET bad[d] : f.table = TableOf(s)
  <2>1. PICK t \in IF flash[d].table = BlankTable THEN {TableOf(s) : s \in bytes} ELSE {Unreadable} :
          f = [flash[d] EXCEPT !.table = t]
    BY <1>4 DEF Programmed
  <2>2. f.table = t
    BY <1>0, <2>1 DEF Flash
  <2>3. t = Unreadable \/ \E s \in bytes : t = TableOf(s)
    BY <2>1
  <2> QED
    BY <1>4, <2>2, <2>3, Tables
<1>5. \/ f = flash[d] \/ f = Erased(flash[d]) \/ f \in HalfErased(flash[d])
      \/ f \in Programmed(flash[d], {bad[d]}) \/ f \in Programmed(flash[d], SUBSET bad[d])
  BY DEF FlashAfter
<1>6. {bad[d]} \in SUBSET SUBSET bad[d] /\ SUBSET bad[d] \in SUBSET SUBSET bad[d]
  OBVIOUS
<1> QED
  BY <1>1, <1>2, <1>3, <1>4, <1>5, <1>6

LEMMA ArrayKeepsMap ==
  ASSUME BootInv, MapInv, NEW c \in Ch, NEW result \in {"pass", "fail"}, ArrayDone(c, result)
  PROVE  MapInv'
<1>1. UNCHANGED <<phase, bad, remapped, currentBlock>>
  BY DEF ArrayDone, memVars
<1>2. PICK f \in FlashAfter(c, Head(nandReqQ[c]), result) : flash' = [flash EXCEPT ![c] = f]
  BY DEF ArrayDone
<1>3. flash'[c] = f /\ \A d \in Ch \ {c} : flash'[d] = flash[d]
  BY <1>2 DEF BootInv, BootTypes
<1>4. \A d \in Ch : TableWithin(d) => TableWithin(d)'
  <2> SUFFICES ASSUME TableWithin(c) PROVE Exists(f.table) => f.table.bad \subseteq bad[c]
    BY <1>1, <1>3 DEF TableWithin
  <2>1. CASE f.table = flash[c].table
    BY <2>1 DEF TableWithin
  <2>2. ASSUME NEW s \in SUBSET bad[c], f.table = TableOf(s) PROVE f.table.bad \subseteq bad[c]
    BY <2>2 DEF TableOf
  <2> QED
    BY <2>1, <2>2, TableAfter
<1> QED
  BY <1>1, <1>4 DEF MapInv, Mapped

LEMMA CheckKeepsMap == ASSUME BootInv, CheckTables PROVE MapInv'
<1>1. Idle /\ phase = "checkTable"
  BY DEF CheckTables, AllLowLevelReqDone, Idle
<1>2. \A d \in Ch : readBuf[d] = flash[d].table
  BY <1>1 DEF Idle, BootInv, ReadIsTable
<1>3. /\ UNCHANGED flash /\ phase' \in {"remap", "page0"}
      /\ bad' = [d \in Ch |-> IF Exists(flash[d].table) THEN flash[d].table.bad ELSE {}]
  BY <1>2 DEF CheckTables
<1> QED
  BY <1>3 DEF MapInv, Mapped, TableWithin

LEMMA JudgeKeepsMap == ASSUME BootInv, MapInv, JudgeBlock PROVE MapInv'
<1>1. \A d \in Ch : bad[d] \subseteq bad'[d]
  BY DEF JudgeBlock, Judged
<1>2. phase \in AfterCheck /\ ~Mapped' /\ UNCHANGED flash
  BY DEF JudgeBlock, AfterCheck, Mapped
<1> QED
  BY <1>1, <1>2 DEF MapInv, TableWithin

\* Each die has a usable block, and takes the first one for its current block.
LEMMA RemapKeepsMap == ASSUME BootInv, MapInv, RemapBadBlock PROVE MapInv'
<1>1. /\ UNCHANGED flash /\ phase = "remap" /\ phase' \in {"erase0", "assert"}
      /\ bad' = [d \in Ch |-> bad[d] \cup {0}]
      /\ remapped' = [d \in Ch |-> MapOf(bad'[d])]
      /\ phase' = "erase0" =>
           \A d \in Ch : /\ Cardinality(Usable(bad'[d])) > 1
                         /\ currentBlock'[d] = Min(Usable(bad'[d]))
  BY DEF RemapBadBlock, ToPreventAccess, MapOf
<1>2. \A d \in Ch : TableWithin(d)'
  <2>1. \A d \in Ch : TableWithin(d)
    BY <1>1 DEF MapInv, AfterCheck
  <2> QED
    BY <1>1, <2>1 DEF TableWithin
<1>3. \A d \in Ch : phase' = "erase0" => currentBlock'[d] \in Usable(bad'[d])
  <2> TAKE d \in Ch
  <2> HAVE phase' = "erase0"
  <2>1. Usable(bad'[d]) \in SUBSET Blocks
    BY FiniteBlocks DEF Usable
  <2>2. Usable(bad'[d]) \in SUBSET Int /\ IsFiniteSet(Usable(bad'[d]))
    BY <2>1, FiniteBlocks
  <2>3. PICK S \in SUBSET Int : S = Usable(bad'[d])
    BY <2>2
  <2>4. IsFiniteSet(S) /\ Cardinality(S) > 1 /\ currentBlock'[d] = Min(S)
    BY <1>1, <2>2, <2>3
  <2>5. Cardinality(S) > 0
    BY <2>4, FS_CardinalityType
  <2> QED
    BY <2>3, <2>4, <2>5, MinIs
<1>4. \A d \in Ch : 0 \in bad'[d] /\ remapped'[d] = MapOf(bad'[d])
  BY <1>1
<1> QED
  BY <1>1, <1>2, <1>3, <1>4 DEF MapInv, Mapped

LEMMA NextKeepsMap ==
  ASSUME BootInv, MapInv, [BadBlockNext]_<<schedVars, bootVars>>
  PROVE  MapInv'
<1>1. CASE InitNandArray \/ ReadBadBlockTable
  BY <1>1 DEF InitNandArray, ReadBadBlockTable, MapInv, AfterCheck, Mapped
<1>2. CASE ReadFirstPage \/ ReadLastPage \/ SaveBadBlockTable
  <2>1. /\ UNCHANGED <<flash, bad, remapped, currentBlock>> /\ phase \in AfterCheck /\ ~Mapped'
    BY <1>2 DEF ReadFirstPage, ReadLastPage, SaveBadBlockTable, memVars, AfterCheck, Mapped
  <2> QED
    BY <2>1, SameMemory
<1>3. CASE EraseSpare
  <2>1. \A d \in Ch : flash'[d].table = flash[d].table
    <3>1. \A d \in Ch : flash[d] \in Flash
      BY DEF BootInv, BootTypes
    <3> QED
      BY <1>3, <3>1 DEF EraseSpare, Flash
  <2>2. UNCHANGED <<bad, remapped, currentBlock>> /\ Mapped /\ phase \in AfterCheck
    BY <1>3 DEF EraseSpare, memVars, Mapped, AfterCheck
  <2> QED
    BY <2>1, <2>2, SameMemory
<1>4. ASSUME NEW c \in Ch, Scheduling(c) \/ NscStep(c) PROVE MapInv'
  BY <1>4 DEF Scheduling, NscStep, bootVars, MapInv, TableWithin, Mapped
<1>5. CASE PowerLoss
  BY <1>5 DEF PowerLoss, MapInv, AfterCheck, Mapped
<1>6. CASE UNCHANGED <<schedVars, bootVars>>
  BY <1>6 DEF bootVars, MapInv, TableWithin, Mapped
<1>7. ASSUME NEW c \in Ch, NEW result \in {"pass", "fail"}, ArrayDone(c, result)
      PROVE  MapInv'
  BY <1>7, ArrayKeepsMap
<1> QED
  BY <1>1, <1>2, <1>3, <1>4, <1>5, <1>6, <1>7, CheckKeepsMap, JudgeKeepsMap, RemapKeepsMap
  DEF BadBlockNext, BootStep

LEMMA MapKeepsBadOut == ASSUME BootInv, MapInv PROVE BadStayOut
<1> SUFFICES ASSUME Mapped, NEW d \in Ch
             PROVE  /\ Known(d) => \A v \in Usable(bad[d]) : remapped[d][v] \notin flash[d].factory \cup {0}
                    /\ \A v, w \in Usable(bad[d]) : remapped[d][v] = remapped[d][w] => v = w
                    /\ currentBlock[d] \in Usable(bad[d])
  BY DEF BadStayOut
<1>1. /\ bad[d] \in SUBSET Blocks /\ 0 \in bad[d] /\ TableWithin(d)
      /\ currentBlock[d] \in Usable(bad[d]) /\ remapped[d] = MapOf(bad[d])
  BY DEF BootInv, BootTypes, MapInv, Mapped, AfterCheck
<1>2. \A v \in Usable(bad[d]) : remapped[d][v] = SpareFor(bad[d], v)
  BY <1>1 DEF Usable, MapOf
<1>3. \A v \in Usable(bad[d]) : remapped[d][v] \notin bad[d]
  BY <1>2 DEF Usable
<1>4. Known(d) => flash[d].factory \subseteq bad[d]
  BY <1>1 DEF Known, Exists, TableWithin
<1>5. \A v, w \in Usable(bad[d]) : remapped[d][v] = remapped[d][w] => v = w
  BY <1>1, <1>2, SparesDiffer
<1> QED
  BY <1>1, <1>3, <1>4, <1>5

\* MapInv holds with BootInv, whatever fails and whenever.
THEOREM MapInductive == BadBlockSpec => []MapInv
<1>1. BadBlockInit => MapInv
  BY DEF BadBlockInit, InitBadBlock, StartBoot, MapInv, AfterCheck, Mapped
<1>2. BootInv /\ MapInv /\ [BadBlockNext]_<<schedVars, bootVars>> => MapInv'
  BY NextKeepsMap
<1> QED
  BY <1>1, <1>2, BootInductive, PTL DEF BadBlockSpec

\* On dies of any size: no block that a table knows to be bad, nor the block of
\* the table, is handed out, and no two virtual blocks share a physical one.
\* (RemapBadBlock, InitBlockMap.)
THEOREM BadAlwaysStayOut == BadBlockSpec => []BadStayOut
<1>1. BootInv /\ MapInv => BadStayOut
  BY MapKeepsBadOut
<1> QED
  BY <1>1, BootInductive, MapInductive, PTL

-----------------------------------------------------------------------------
\* Types.
MapTypes == remapped \in [Ch -> [UserBlocks -> Blocks]] /\ currentBlock \in [Ch -> UserBlocks]

LEMMA SpareIsBlock ==
  ASSUME NEW B \in SUBSET Blocks, NEW b \in UserBlocks PROVE SpareFor(B, b) \in Blocks
<1> DEFINE good == SpareBlocks \ B
           rank == Rank(B \cap UserBlocks, b)
<1>1. CASE b \in B /\ rank < Cardinality(good)
  <2>1. rank \in Nat
    <3>1. B \cap UserBlocks \in SUBSET Int /\ IsFiniteSet(B \cap UserBlocks) /\ b \in B \cap UserBlocks
      BY <1>1, FiniteBlocks
    <3>2. Cardinality(B \cap UserBlocks) \in Nat
      BY <3>1, FS_CardinalityType
    <3> QED
      BY <3>1, <3>2, RankFacts
  <2>2. good \in SUBSET Int /\ IsFiniteSet(good)
    BY FiniteBlocks
  <2>3. \E s \in good : Rank(good, s) = rank
    BY <1>1, <2>1, <2>2, RankTaken
  <2>4. SpareFor(B, b) = CHOOSE s \in good : Rank(good, s) = rank
    BY <1>1 DEF SpareFor
  <2> QED
    BY <2>3, <2>4, FiniteBlocks
<1>2. CASE ~(b \in B /\ rank < Cardinality(good))
  BY <1>2, FiniteBlocks DEF SpareFor
<1> QED
  BY <1>1, <1>2

LEMMA StartIsTyped == StartBoot => MapTypes
BY FiniteBlocks DEF StartBoot, MapTypes

LEMMA NextKeepsMapTypes ==
  ASSUME BootInv, MapInv, MapTypes, [BadBlockNext]_<<schedVars, bootVars>>
  PROVE  MapTypes'
<1>1. CASE UNCHANGED <<remapped, currentBlock>>
  BY <1>1 DEF MapTypes
<1>2. CASE RemapBadBlock
  <2>1. bad' \in [Ch -> SUBSET Blocks]
    BY <1>2, RemapKeepsInv DEF BootInv, BootTypes
  <2>2. \A d \in Ch : [b \in UserBlocks |-> SpareFor(bad'[d], b)] \in [UserBlocks -> Blocks]
    BY <2>1, SpareIsBlock
  <2>3. remapped' \in [Ch -> [UserBlocks -> Blocks]]
    <3>1. remapped' = [d \in Ch |-> [b \in UserBlocks |-> SpareFor(bad'[d], b)]]
      BY <1>2 DEF RemapBadBlock
    <3> QED
      BY <2>2, <3>1
  <2>4. currentBlock' \in [Ch -> UserBlocks]
    <3>1. CASE UNCHANGED currentBlock
      BY <3>1 DEF MapTypes
    <3>2. CASE currentBlock' = [d \in Ch |-> Min(Usable(bad'[d]))] /\ phase' = "erase0"
      <4>1. MapInv'
        BY <1>2, RemapKeepsMap
      <4>2. \A d \in Ch : currentBlock'[d] \in Usable(bad'[d])
        BY <3>2, <4>1 DEF MapInv, Mapped
      <4>3. \A d \in Ch : currentBlock'[d] \in UserBlocks
        BY <4>2 DEF Usable
      <4> QED
        BY <3>2, <4>3
    <3> QED
      BY <1>2, <3>1, <3>2 DEF RemapBadBlock
  <2> QED
    BY <2>3, <2>4 DEF MapTypes
<1>3. CASE PowerLoss
  BY <1>3, FiniteBlocks DEF PowerLoss, MapTypes
<1>4. ASSUME NEW c \in Ch, Scheduling(c) \/ NscStep(c) PROVE UNCHANGED <<remapped, currentBlock>>
  BY <1>4 DEF Scheduling, NscStep, bootVars
<1>5. ASSUME NEW c \in Ch, NEW result, ArrayDone(c, result) PROVE UNCHANGED <<remapped, currentBlock>>
  BY <1>5 DEF ArrayDone, memVars
<1>6. ASSUME BootStep, ~RemapBadBlock PROVE UNCHANGED <<remapped, currentBlock>>
  BY <1>6 DEF BootStep, InitNandArray, ReadBadBlockTable, CheckTables, ReadFirstPage,
       ReadLastPage, JudgeBlock, SaveBadBlockTable, EraseSpare, memVars
<1>7. UNCHANGED <<schedVars, bootVars>> => UNCHANGED <<remapped, currentBlock>>
  BY DEF bootVars
<1> QED
  BY <1>1, <1>2, <1>3, <1>4, <1>5, <1>6, <1>7 DEF BadBlockNext

\* Every variable of the boot keeps its type; in particular each entry of the
\* map is a block of the die, and the current block one that serves the host.
\* (InitFTL.)
THEOREM BootTypesRight == BadBlockSpec => [](SchedTypeOK /\ BadBlockTypeOK)
<1>1. BadBlockInit => MapTypes
  BY StartIsTyped DEF BadBlockInit, InitBadBlock
<1>2. BootInv /\ MapInv /\ MapTypes /\ [BadBlockNext]_<<schedVars, bootVars>> => MapTypes'
  BY NextKeepsMapTypes
<1>3. BootInv /\ MapTypes => SchedTypeOK /\ BadBlockTypeOK
  BY DEF BootInv, BootTypes, MapTypes, BadBlockTypeOK
<1> QED
  BY <1>1, <1>2, <1>3, BootInductive, MapInductive, PTL DEF BadBlockSpec
=============================================================================
