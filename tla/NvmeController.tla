--------------------------- MODULE NvmeController ---------------------------
(***************************************************************************)
(* The NVMe controller: the main loop with its four states, the admin      *)
(* commands with the tables and registers of the queues, the rings between *)
(* the firmware and the programmable logic (PL), and the completions.      *)
(* What happens to a read or a write between the command and its           *)
(* completion is RequestFlow's subject; here it either completes in the    *)
(* turn that takes it or joins the pool of commands in progress.           *)
(*                                                                         *)
(* The PL is external.  It puts the commands of the host's queues into two *)
(* rings of fixed size and takes the completions from two others; it       *)
(* resets its side when the firmware clears or sets CSTS.RDY.  The         *)
(* firmware never tells it how far it has read, so it is the number of     *)
(* commands a host may have open that must keep the rings from running     *)
(* over (RingAssumption).                                                  *)
(***************************************************************************)
EXTENDS Integers, Sequences, FiniteSets

CONSTANTS
  AdminCID, IoCID,   \* command identifiers of the host, those of each ring
  QN,                \* NVME_IO_SQ_NUM = NVME_IO_CQ_NUM
  QIDs,              \* queue identifiers the host uses; 0 is none
  PL_SQ_ENTRY_NUM,   \* slots of a ring, one of which stays empty
  PL_CQ_ENTRY_NUM,
  VECTOR             \* the interrupt vector the host asks for

ASSUME VectorAssumption == VECTOR \in Nat

ASSUME QueuesAssumption == QN \in Nat \ {0} /\ QIDs \subseteq Nat /\ 0 \in QIDs

\* Not enforced by the firmware: a ring has 8 slots, a host's queue up to 4095.
ASSUME RingAssumption ==
  /\ PL_SQ_ENTRY_NUM \in Nat /\ PL_CQ_ENTRY_NUM \in Nat \ {0, 1}
  /\ IsFiniteSet(AdminCID) /\ IsFiniteSet(IoCID) /\ AdminCID \cap IoCID = {}
  /\ PL_SQ_ENTRY_NUM > Cardinality(AdminCID) /\ PL_SQ_ENTRY_NUM > Cardinality(IoCID)

Index == 0 .. QN - 1
CID == AdminCID \cup IoCID
\* A command: its identifier, and whether the host sent it since the last reset.
Fresh(c) == [cid |-> c, fresh |-> TRUE]
Stale(c) == [cid |-> c, fresh |-> FALSE]
None == [cid |-> "none", fresh |-> FALSE]
Commands == {Fresh(c) : c \in CID} \cup {Stale(c) : c \in IoCID}

VARIABLES
  state,      \* NVME_STATE_E
  cc,         \* external: CC.EN and CC.SHN, as the host wrote them last
  csts,       \* CSTS.RDY and CSTS.SHST
  pc,         \* where in a turn the firmware is
  adminCmd,   \* the admin command taken in this turn, and
  ioCmd,      \* the I/O command taken or being completed
  answer,     \* status of the admin command: <<sct, sc>>
  cqs, sqs,   \* g_cqs_attribute, g_sqs_attribute
  cqReg, sqReg,  \* registers of the queues, of base address and identifier
  irqEnable,  \* g_iocq_irq_enable
  irqReg,     \* the register it is written to
  irqVector,  \* of user interrupt i: the vector sent to the host
  asq, acq, isq, icq,  \* rings of admin and I/O commands and completions
  pool,       \* I/O commands in progress
  host,       \* external, of each identifier: what the host waits for
  refused     \* history: queues whose CQ a refused delete has taken away

ctrlVars == <<state, cc, csts, pc, adminCmd, ioCmd, answer>>
tableVars == <<cqs, sqs, cqReg, sqReg, irqEnable, irqReg, irqVector, refused>>
ringVars == <<asq, acq, isq, icq>>
cmdVars == <<pool, host>>
nvmeVars == <<ctrlVars, tableVars, ringVars, cmdVars>>

NoCq == [qid |-> 0, ien |-> FALSE, iv |-> 0]
NoSq == [qid |-> 0, cqid |-> 0]
Success == <<0, 0>>

States == {"DISABLED", "ENABLED", "RUNNING", "SHUTDOWN"}

-----------------------------------------------------------------------------
\* init_nvme_controller at power-on.
InitController ==
  /\ state = "DISABLED" /\ cc = [en |-> 0, shn |-> 0] /\ csts = [rdy |-> 0, shst |-> 0]
  /\ pc = "turn" /\ adminCmd = None /\ ioCmd = None /\ answer = Success
  /\ cqs = [i \in Index |-> NoCq] /\ sqs = [i \in Index |-> NoSq]
  /\ cqReg = [i \in 0 .. QN |-> 0] /\ sqReg = [i \in 0 .. QN |-> 0]
  /\ irqEnable = {} /\ irqReg = {} /\ irqVector = [i \in 0 .. QN |-> i]
  /\ asq = <<>> /\ acq = <<>> /\ isq = <<>> /\ icq = <<>>
  /\ pool = {} /\ refused = {}
  /\ host = [c \in CID |-> "free"]

\* The registers are numbered from 0, and the loop clears 1 to QN.
Cleared(reg) == [i \in 0 .. QN |-> IF i = 0 THEN reg[0] ELSE 0]

\* init_nvme_controller: the tables, the vectors and the register of the
\* interrupts, but not the variable it is computed from.
ResetQueues ==
  /\ cqs' = [i \in Index |-> NoCq] /\ sqs' = [i \in Index |-> NoSq]
  /\ cqReg' = Cleared(cqReg) /\ sqReg' = Cleared(sqReg)
  /\ irqVector' = [i \in 0 .. QN |-> i] /\ irqReg' = {}
  /\ refused' = {}
  /\ UNCHANGED irqEnable

\* nvme_transmitter_init, and the PL's side.
ResetRings == asq' = <<>> /\ acq' = <<>> /\ isq' = <<>> /\ icq' = <<>>

\* RDY is cleared: the host forgets its commands, but what is in the pool stays.
ForgetCommands ==
  /\ pool' = {Stale(e.cid) : e \in pool}
  /\ host' = [c \in CID |-> "free"]

\* A turn ends, over the low level unless an I/O command was read.
EndOfTurn == pc' = IF pool # {} THEN "low" ELSE "turn"

Enable ==
  /\ pc = "turn" /\ state = "DISABLED"
  /\ cc.en = 1
  /\ state' = "ENABLED" /\ EndOfTurn
  /\ UNCHANGED <<cc, csts, adminCmd, ioCmd, answer, tableVars, ringVars, cmdVars>>

StartRunning ==
  /\ pc = "turn" /\ state = "ENABLED"
  /\ state' = "RUNNING" /\ csts' = [csts EXCEPT !.rdy = 1] /\ EndOfTurn
  /\ ResetQueues /\ ResetRings
  /\ UNCHANGED <<cc, adminCmd, ioCmd, answer, cmdVars>>

ControllerReset ==
  /\ pc = "turn" /\ state = "RUNNING"
  /\ cc.en = 0
  /\ state' = "DISABLED" /\ csts' = [csts EXCEPT !.rdy = 0] /\ EndOfTurn
  /\ ResetQueues /\ ResetRings
  /\ ForgetCommands
  /\ UNCHANGED <<cc, adminCmd, ioCmd, answer>>

\* Mutant: the shutdown is not reported.
MutShutdown ==
  /\ pc = "turn" /\ state = "RUNNING"
  /\ cc.en = 1 /\ cc.shn = 1
  /\ state' = "SHUTDOWN" /\ EndOfTurn
  /\ UNCHANGED <<cc, csts, adminCmd, ioCmd, answer, tableVars, ringVars, cmdVars>>

\* Reported complete at once, whatever is in the pool or the data buffer.
Shutdown ==
  /\ pc = "turn" /\ state = "RUNNING"
  /\ cc.en = 1 /\ cc.shn = 1
  /\ state' = "SHUTDOWN" /\ csts' = [csts EXCEPT !.shst = 2] /\ EndOfTurn
  /\ UNCHANGED <<cc, adminCmd, ioCmd, answer, tableVars, ringVars, cmdVars>>

Restart ==
  /\ pc = "turn" /\ state = "SHUTDOWN"
  /\ cc.en = 0
  /\ state' = "DISABLED" /\ csts' = [rdy |-> 0, shst |-> 0] /\ EndOfTurn
  /\ ResetRings
  /\ ForgetCommands
  /\ UNCHANGED <<cc, adminCmd, ioCmd, answer, tableVars>>

\* Mutant: the low level runs only behind a turn that had something to do.
MutIdleTurn ==
  /\ pc = "turn" /\ pool # {}
  /\ state = "DISABLED" /\ cc.en = 0
  /\ pc' = "low"
  /\ UNCHANGED <<state, cc, csts, adminCmd, ioCmd, answer, tableVars, ringVars, cmdVars>>

\* A turn that finds nothing to do but the low level.
IdleTurn ==
  /\ pc = "turn" /\ pool # {}
  /\ \/ state = "DISABLED" /\ cc.en = 0
     \/ state = "SHUTDOWN" /\ cc.en = 1
     \/ state = "RUNNING" /\ cc = [en |-> 1, shn |-> 0] /\ asq = <<>> /\ isq = <<>>
  /\ pc' = "low"
  /\ UNCHANGED <<state, cc, csts, adminCmd, ioCmd, answer, tableVars, ringVars, cmdVars>>

HeadOr(ring) == IF ring = <<>> THEN None ELSE Head(ring)

\* nvme_read_sq_entry, nvme_read_io_sq_entry: at most one command of each.
Fetch ==
  /\ pc = "turn" /\ state = "RUNNING"
  /\ cc = [en |-> 1, shn |-> 0]
  /\ asq # <<>> \/ isq # <<>>
  /\ adminCmd' = HeadOr(asq) /\ ioCmd' = HeadOr(isq)
  /\ asq' = IF asq = <<>> THEN asq ELSE Tail(asq)
  /\ isq' = IF isq = <<>> THEN isq ELSE Tail(isq)
  /\ pc' = IF asq # <<>> THEN "admin" ELSE "io"
  /\ UNCHANGED <<state, cc, csts, answer, tableVars, acq, icq, cmdVars>>

-----------------------------------------------------------------------------
\* The admin commands.  The host's choice of the fields is made here.
Answer(status) ==
  /\ pc = "admin" /\ pc' = "post"
  /\ answer' = status
  /\ UNCHANGED <<state, cc, csts, adminCmd, ioCmd, ringVars, cmdVars>>

\* Status codes.  The create commands answer a wrong size with <<1, 2>> and a
\* wrong vector with <<1, 8>>; they change as little as FieldError, which here
\* stands for them.
FieldError == <<0, 2>>
InvalidNamespace == <<0, 11>>

\* cq_exist, get_cq_attribute.
CqIndex(id) == {i \in Index : id # 0 /\ cqs[i].qid = id}
SqIndex(id) == {i \in Index : id # 0 /\ sqs[i].qid = id}

\* set_cq_attribute: the first free entry, unless the identifier is in use.
FreeCq(id) ==
  IF id = 0 \/ CqIndex(id) # {} THEN {}
  ELSE {i \in Index : cqs[i].qid = 0 /\ \A j \in 0 .. i - 1 : cqs[j].qid # 0}

\* Mutant: the vector is set at the index of the queue.
MutVectorSet(i, iv) == [irqVector EXCEPT ![i] = iv]

\* User interrupt 0 is the admin queue's.
VectorSet(i, iv) == [irqVector EXCEPT ![i + 1] = iv]

CreateIoCq(id, ien, iv) ==
  \/ /\ FreeCq(id) = {}
     /\ Answer(<<1, 1>>)
     /\ UNCHANGED tableVars
  \/ \E i \in FreeCq(id) :
       /\ Answer(Success)
       /\ cqs' = [cqs EXCEPT ![i] = [qid |-> id, ien |-> ien, iv |-> iv]]
       /\ cqReg' = [cqReg EXCEPT ![i] = id]
       /\ IF ien THEN /\ irqVector' = VectorSet(i, iv)
                      /\ irqEnable' = irqEnable \cup {i}
                      /\ irqReg' = irqEnable'
          ELSE irqEnable' = irqEnable \ {i} /\ UNCHANGED <<irqVector, irqReg>>
       /\ UNCHANGED <<sqs, sqReg, refused>>

\* set_sq_attribute: at the index of its CQ, if that is free; the identifier
\* of the new queue is not looked at.
CreateIoSq(id, cqid) ==
  \/ /\ CqIndex(cqid) = {}
     /\ Answer(<<1, 0>>)
     /\ UNCHANGED tableVars
  \/ \E i \in CqIndex(cqid) :
       IF sqs[i].qid # 0
       THEN Answer(<<1, 1>>) /\ UNCHANGED tableVars
       ELSE /\ Answer(Success)
            /\ sqs' = [sqs EXCEPT ![i] = [qid |-> id, cqid |-> cqid]]
            /\ sqReg' = [sqReg EXCEPT ![i] = id]
            /\ UNCHANGED <<cqs, cqReg, irqEnable, irqReg, irqVector, refused>>

\* The first queue of that identifier.
First(S) == {i \in S : \A j \in S : i <= j}

DeleteIoSq(id) ==
  \/ /\ SqIndex(id) = {}
     /\ Answer(<<1, 1>>)
     /\ UNCHANGED tableVars
  \/ \E i \in First(SqIndex(id)) :
       /\ Answer(Success)
       /\ sqs' = [sqs EXCEPT ![i].qid = 0]
       /\ sqReg' = [sqReg EXCEPT ![i] = 0]
       /\ refused' = refused \ {i}
       /\ UNCHANGED <<cqs, cqReg, irqEnable, irqReg, irqVector>>

\* The attribute goes before the paired SQ is looked for: a refused delete has
\* removed the queue from the table, but not from the registers.
DeleteIoCq(id) ==
  \/ /\ CqIndex(id) = {}
     /\ Answer(<<1, 1>>)
     /\ UNCHANGED tableVars
  \/ \E i \in CqIndex(id) :
       /\ cqs' = [cqs EXCEPT ![i].qid = 0]
       /\ IF sqs[i].qid # 0
          THEN /\ Answer(<<1, 12>>)
               /\ refused' = refused \cup {i}
               /\ UNCHANGED <<cqReg, irqEnable, irqReg>>
          ELSE /\ Answer(Success)
               /\ cqReg' = [cqReg EXCEPT ![i] = 0]
               /\ irqEnable' = irqEnable \ {i}
               /\ irqReg' = irqEnable'
               /\ UNCHANGED refused
       /\ UNCHANGED <<sqs, sqReg, irqVector>>

\* identify: by the data structure asked for and the namespace; "1" is the only
\* one there is, "broadcast" any of the two highest identifiers.
Structures == {"namespace", "controller", "namespaceList", "identification"}
Identify(psdt, cns, nsid) ==
  IF psdt # 0 \/ cns \notin Structures THEN FieldError
  ELSE IF \/ cns = "namespace" /\ nsid # "1"
          \/ cns = "namespaceList" /\ nsid = "broadcast"
       THEN InvalidNamespace
       ELSE Success

\* get_log_page: three of the pages, all of them zeros.
LogPages == {"error", "health", "firmwareSlot"}
GetLogPage(psdt, lid) == IF psdt # 0 \/ lid \notin LogPages THEN FieldError ELSE Success

\* nvme_set_feature, nvme_get_feature: nothing is set.
Features == {"arbitration", "power", "temperature", "recovery", "queues", "coalescing",
             "vector", "atomicity", "events", "powerTransition"}
SetFeature(fid) == IF fid \in Features THEN Success ELSE FieldError
GetFeature(fid) == IF fid \in Features THEN Success ELSE FieldError

\* cmd_abort, which aborts nothing, and process_admin_cmd on another opcode.
Abort == Success
UnknownAdmin == FieldError

\* What the commands that leave the tables alone may answer, and a queue
\* command with a wrong field.
OtherAnswers ==
  {Identify(psdt, cns, nsid) :
     psdt \in {0, 1}, cns \in Structures \cup {"other"}, nsid \in {"0", "1", "broadcast"}}
  \cup {GetLogPage(psdt, lid) : psdt \in {0, 1}, lid \in LogPages \cup {"other"}}
  \cup {SetFeature(fid) : fid \in Features \cup {"other"}}
  \cup {GetFeature(fid) : fid \in Features \cup {"other"}}
  \cup {Abort, UnknownAdmin, FieldError}

OtherAdmin(status) == Answer(status) /\ UNCHANGED tableVars

\* An Asynchronous Event Request is not answered.
AsyncEventReq ==
  /\ pc = "admin"
  /\ pc' = IF ioCmd # None THEN "io" ELSE IF pool # {} THEN "low" ELSE "turn"
  /\ host' = [host EXCEPT ![adminCmd.cid] = "never"]
  /\ adminCmd' = None
  /\ UNCHANGED <<state, cc, csts, ioCmd, answer, tableVars, ringVars, pool>>

ProcessAdminCmd ==
  \/ \E id \in QIDs, ien \in BOOLEAN : CreateIoCq(id, ien, VECTOR)
  \/ \E id, cqid \in QIDs : CreateIoSq(id, cqid)
  \/ \E id \in QIDs : DeleteIoSq(id) \/ DeleteIoCq(id)
  \/ \E status \in OtherAnswers : OtherAdmin(status)
  \/ AsyncEventReq

\* nvme_write_cq_entry, nvme_write_io_cq_entry: one slot stays empty.
HasRoom(ring) == Len(ring) < PL_CQ_ENTRY_NUM - 1

\* nvme_write_cq_entry fails while the ring is full, and is called again.
PostAdmin ==
  /\ pc = "post"
  /\ HasRoom(acq)
  /\ acq' = Append(acq, adminCmd)
  /\ adminCmd' = None /\ answer' = Success
  /\ pc' = IF ioCmd # None THEN "io" ELSE IF pool # {} THEN "low" ELSE "turn"
  /\ UNCHANGED <<state, cc, csts, ioCmd, tableVars, asq, isq, icq, cmdVars>>

-----------------------------------------------------------------------------
\* process_io_cmd: a read or a write completes in this turn, or joins the
\* pool; a flush is dropped.
CompleteAtOnce ==
  /\ pc = "io"
  /\ pc' = "postIo"
  /\ UNCHANGED <<state, cc, csts, adminCmd, ioCmd, answer, tableVars, ringVars, cmdVars>>

JoinPool ==
  /\ pc = "io"
  /\ pool' = pool \cup {ioCmd}
  /\ ioCmd' = None /\ pc' = "turn"
  /\ UNCHANGED <<state, cc, csts, adminCmd, answer, tableVars, ringVars, host>>

Flush ==
  /\ pc = "io"
  /\ host' = [host EXCEPT ![ioCmd.cid] = "never"]
  /\ ioCmd' = None /\ pc' = "turn"
  /\ UNCHANGED <<state, cc, csts, adminCmd, answer, tableVars, ringVars, pool>>

\* The low level comes to the last slice of a command of the pool.
TakeFromPool(e) ==
  /\ pc = "low" /\ e \in pool
  /\ pool' = pool \ {e} /\ ioCmd' = e
  /\ pc' = "postLow"
  /\ UNCHANGED <<state, cc, csts, adminCmd, answer, tableVars, ringVars, host>>

\* Mutant: the entry is given up when the ring is full.
MutPostIo ==
  /\ pc \in {"postIo", "postLow"}
  /\ icq' = IF HasRoom(icq) THEN Append(icq, ioCmd) ELSE icq
  /\ ioCmd' = None
  /\ pc' = IF pc = "postIo" THEN "turn" ELSE "low"
  /\ UNCHANGED <<state, cc, csts, adminCmd, answer, tableVars, asq, acq, isq, pool, host>>

\* IssueNvmeDmaReq spins until nvme_write_io_cq_entry finds room.
PostIo ==
  /\ pc \in {"postIo", "postLow"}
  /\ HasRoom(icq)
  /\ icq' = Append(icq, ioCmd)
  /\ ioCmd' = None
  /\ pc' = IF pc = "postIo" THEN "turn" ELSE "low"
  /\ UNCHANGED <<state, cc, csts, adminCmd, answer, tableVars, asq, acq, isq, cmdVars>>

\* The pass over the low level ends.
EndOfPass ==
  /\ pc = "low"
  /\ pc' = "turn"
  /\ UNCHANGED <<state, cc, csts, adminCmd, ioCmd, answer, tableVars, ringVars, cmdVars>>

ProcessIoCmd == CompleteAtOnce \/ JoinPool \/ Flush \/ PostIo

LowLevel == EndOfPass \/ \E e \in Commands : TakeFromPool(e)

TurnState == Enable \/ StartRunning \/ ControllerReset \/ Shutdown \/ Restart \/ IdleTurn

Firmware ==
  TurnState \/ Fetch \/ ProcessAdminCmd \/ PostAdmin \/ ProcessIoCmd \/ LowLevel

-----------------------------------------------------------------------------
\* External: the host's driver, and the PL.
HostUnchanged == UNCHANGED <<state, pc, adminCmd, ioCmd, answer, tableVars>>

HostEnable ==
  /\ cc.en = 0 /\ csts.rdy = 0
  /\ cc' = [en |-> 1, shn |-> 0]
  /\ HostUnchanged /\ UNCHANGED <<csts, ringVars, cmdVars>>

\* Bound: not again while a command of before the last reset is in progress.
HostDisable ==
  /\ cc.en = 1 /\ csts.rdy = 1
  /\ \A e \in pool : e.fresh
  /\ cc' = [en |-> 0, shn |-> 0]
  /\ HostUnchanged /\ UNCHANGED <<csts, ringVars, cmdVars>>

HostShutdown ==
  /\ cc = [en |-> 1, shn |-> 0] /\ csts.rdy = 1
  /\ cc' = [en |-> 1, shn |-> 1]
  /\ HostUnchanged /\ UNCHANGED <<csts, ringVars, cmdVars>>

MaySend(c) == cc = [en |-> 1, shn |-> 0] /\ csts.rdy = 1 /\ host[c] = "free"

HostAdmin(c) ==
  /\ MaySend(c)
  /\ asq' = Append(asq, Fresh(c))
  /\ host' = [host EXCEPT ![c] = "admin"]
  /\ HostUnchanged /\ UNCHANGED <<cc, csts, acq, isq, icq, pool>>

HostIo(c) ==
  /\ MaySend(c)
  /\ \E i \in Index : sqs[i].qid # 0
  /\ isq' = Append(isq, Fresh(c))
  /\ host' = [host EXCEPT ![c] = "io"]
  /\ HostUnchanged /\ UNCHANGED <<cc, csts, asq, acq, icq, pool>>

\* A completion reaches the host, which knows it by its identifier only: one of
\* before the reset may pass for that of a command that is still in progress.
Received(e) ==
  IF e.fresh THEN "free" ELSE IF host[e.cid] = "io" THEN "cheated" ELSE host[e.cid]

PlAdmin ==
  /\ acq # <<>>
  /\ acq' = Tail(acq)
  /\ host' = [host EXCEPT ![Head(acq).cid] = "free"]
  /\ HostUnchanged /\ UNCHANGED <<cc, csts, asq, isq, icq, pool>>

PlIo ==
  /\ icq # <<>>
  /\ icq' = Tail(icq)
  /\ host' = [host EXCEPT ![Head(icq).cid] = Received(Head(icq))]
  /\ HostUnchanged /\ UNCHANGED <<cc, csts, asq, acq, isq, pool>>

HostStep ==
  \/ HostEnable \/ HostDisable \/ HostShutdown
  \/ \E c \in AdminCID : HostAdmin(c)
  \/ \E c \in IoCID : HostIo(c)
  \/ PlAdmin \/ PlIo

NvmeSpec == InitController /\ [][Firmware \/ HostStep]_nvmeVars

-----------------------------------------------------------------------------
NvmeTypeOK ==
  /\ state \in States
  /\ cc \in [en : {0, 1}, shn : {0, 1}] /\ csts \in [rdy : {0, 1}, shst : {0, 2}]
  /\ pc \in {"turn", "admin", "post", "io", "postIo", "low", "postLow"}
  /\ adminCmd \in Commands \cup {None} /\ ioCmd \in Commands \cup {None}
  /\ answer \in Nat \X Nat
  /\ cqs \in [Index -> [qid : QIDs, ien : BOOLEAN, iv : Nat]]
  /\ sqs \in [Index -> [qid : QIDs, cqid : QIDs]]
  /\ cqReg \in [0 .. QN -> QIDs] /\ sqReg \in [0 .. QN -> QIDs]
  /\ irqEnable \subseteq Index /\ irqReg \subseteq Index
  /\ irqVector \in [0 .. QN -> Nat]
  /\ asq \in Seq(Commands) /\ acq \in Seq(Commands)
  /\ isq \in Seq(Commands) /\ icq \in Seq(Commands)
  /\ pool \subseteq Commands
  /\ host \in [CID -> {"free", "admin", "io", "never", "cheated"}]
  /\ refused \subseteq Index

(***************************************************************************)
(* The queues as the firmware knows them are the queues as the PL knows    *)
(* them: the registers of a queue in a table are its own; a completion     *)
(* queue that wants an interrupt gets its own vector; no two completion    *)
(* queues have one identifier; and a submission queue completes into the   *)
(* queue it was created for, unless a refused delete took that away.       *)
(* (create_io_*, delete_io_*, set_*_attribute, init_nvme_controller.)      *)
(***************************************************************************)
QueueTables ==
  \A i \in Index :
    /\ cqs[i].qid # 0 =>
         /\ cqReg[i] = cqs[i].qid
         /\ cqs[i].ien => i \in irqReg /\ irqVector[i + 1] = cqs[i].iv
         /\ \A j \in Index : cqs[j].qid = cqs[i].qid => j = i
    /\ sqs[i].qid # 0 =>
         /\ sqReg[i] = sqs[i].qid
         /\ i \in refused \/ cqs[i].qid = sqs[i].cqid

\* Everywhere a command can be.
Places(e) ==
  Cardinality({i \in DOMAIN asq : asq[i] = e}) + Cardinality({i \in DOMAIN isq : isq[i] = e})
    + Cardinality({i \in DOMAIN acq : acq[i] = e}) + Cardinality({i \in DOMAIN icq : icq[i] = e})
    + (IF adminCmd = e THEN 1 ELSE 0) + (IF ioCmd = e THEN 1 ELSE 0)
    + (IF e \in pool THEN 1 ELSE 0)

(***************************************************************************)
(* A command the host waits for is in exactly one place, and none that it  *)
(* does not wait for is anywhere: none is lost, none is answered twice,    *)
(* through turns, full rings and resets.  (main, nvme_main_process,        *)
(* nvme_write_cq_entry, nvme_write_io_cq_entry, init_nvme_controller.)     *)
(***************************************************************************)
EachInOnePlace ==
  \A c \in CID : Places(Fresh(c)) = IF host[c] \in {"admin", "io", "cheated"} THEN 1 ELSE 0
=============================================================================
