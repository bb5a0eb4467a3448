------------------------------ MODULE WaySched ------------------------------
(***************************************************************************)
(* The NAND scheduler and the channel controllers under it.  A channel has *)
(* one way (CheckConfigRestriction allows no more: NSC_MAX_WAYS is 1), so  *)
(* of the seven way lists of a channel exactly one holds its way, and the  *)
(* walk over a list is at most one step.                                   *)
(*                                                                         *)
(* A command function of the channel driver waits until the controller has *)
(* taken the command, and then the array of the chip works on its own.     *)
(* Only readstatus_70h does not wait (its two loops are commented out): it *)
(* reads the status byte at once, and so does the next pass, whether or    *)
(* not the controller has put a new byte there.                            *)
(***************************************************************************)
EXTENDS Integers, Sequences

CONSTANT Ch        \* channels

ASSUME ChannelsAssumption == Ch # {}

Codes == {"READ", "WRITE", "ERASE", "RESET", "SET_FEATURE"}

Lists == {"idle", "statusReport", "statusCheck", "readTrigger", "erase", "write"}

VARIABLES
  way,        \* of each channel: the list its way is on, dieState, reqStatusCheckOpt
  nandReqQ,   \* of each channel: the requests queued, the first one executing
  nsc,        \* external, of each channel: the controller is executing a read
              \* of the status, its status byte, and the ready line of the chip
  chip,       \* external, of each channel: how the last array operation ended
  failMissed  \* history: channels that completed an operation which failed

schedVars == <<way, nandReqQ, nsc, chip, failMissed>>

Request(code, block, page) == [code |-> code, block |-> block, page |-> page]

-----------------------------------------------------------------------------
InitReqScheduler ==
  /\ way = [c \in Ch |-> [list |-> "idle", die |-> "IDLE", opt |-> "NONE"]]
  /\ nandReqQ = [c \in Ch |-> <<>>]
  /\ nsc = [c \in Ch |-> [busy |-> FALSE, status |-> "none", ready |-> TRUE]]
  /\ chip = [c \in Ch |-> "pass"]
  /\ failMissed = {}

\* GetFromFreeReqQ, the fields of the request, and SelectLowLevelReqQ for a
\* request without dependencies: to the tail of the channel's queue.
Queue(reqs) == nandReqQ' = [c \in Ch |-> nandReqQ[c] \o reqs[c]]

\* What SyncAllLowLevelReqDone waits for.
AllLowLevelReqDone == \A c \in Ch : nandReqQ[c] = <<>>

-----------------------------------------------------------------------------
\* PutToNandWayPriorityTable: the list for the request at the head.
OpList(code) ==
  CASE code = "READ" -> "readTrigger"
    [] code = "ERASE" -> "erase"
    [] OTHER -> "write"

\* IssueNandReq: how the end of the request will be found out.
CheckOpt(code) == IF code \in {"RESET", "SET_FEATURE"} THEN "NONE" ELSE "CHECK"

\* Mutant: the state of the die is left as it was.
MutMoveTo(c, list, die, opt) == [way EXCEPT ![c].list = list, ![c].opt = opt]

\* The list functions: the way goes from the list it is on to another.
MoveTo(c, list, die, opt) == [way EXCEPT ![c] = [list |-> list, die |-> die, opt |-> opt]]

\* The driver's command functions wait until the controller has taken the
\* command; the chip is busy then.
CommandTaken(c, n) == [nsc EXCEPT ![c] = [n EXCEPT !.ready = FALSE]]

\* readstatus_70h: the controller is asked for a status byte and not waited for.
ReadStatus(c) == [nsc EXCEPT ![c].busy = TRUE]

\* ExecuteNandReq on an idle die, and the way goes to the statusCheck list.
\* While the controller is busy the way waits on its own list.
ExecuteOr(c, q, n) ==
  IF ~n.busy
  THEN /\ way' = MoveTo(c, "statusCheck", "EXE", CheckOpt(q[1].code))
       /\ nsc' = CommandTaken(c, n)
  ELSE /\ way' = MoveTo(c, OpList(q[1].code), "IDLE", "NONE")
       /\ nsc' = [nsc EXCEPT ![c] = n]

\* Walk over the idle list, then over the list the way has gone to.  The
\* requests of the boot wait for no row.
Start(c) ==
  /\ way[c].list \in {"idle", "readTrigger", "erase", "write"}
  /\ nandReqQ[c] # <<>>
  /\ ExecuteOr(c, nandReqQ[c], nsc[c])
  /\ UNCHANGED <<nandReqQ, chip, failMissed>>

\* Walk over the statusCheck list: CheckReqStatus asks the controller for the
\* status (its result is not looked at) and the way goes to statusReport.
StatusCheck(c) ==
  /\ way[c].list = "statusCheck"
  /\ ~nsc[c].busy /\ nsc[c].ready
  /\ IF way[c].opt = "CHECK"
     THEN /\ way' = MoveTo(c, "statusReport", "EXE", "REPORT")
          /\ nsc' = ReadStatus(c)
     ELSE /\ way' = MoveTo(c, "statusReport", "EXE", "NONE")
          /\ UNCHANGED nsc
  /\ UNCHANGED <<nandReqQ, chip, failMissed>>

\* Mutant: a request whose end needs no status byte is never done.
MutReqDone(c) == way[c].opt = "REPORT" /\ nsc[c].status = "pass"

\* CheckReqStatus from the statusReport list returns REQ_STATUS_DONE.
ReqDone(c) == \/ way[c].opt = "NONE"
              \/ way[c].opt = "REPORT" /\ nsc[c].status = "pass"

\* ExecuteNandReq on an executing die takes the request off the queue, and the
\* way goes to the idle list or, with the next request, straight on.
StatusReportDone(c) ==
  /\ way[c].list = "statusReport"
  /\ nsc[c].ready
  /\ ReqDone(c)
  /\ nandReqQ' = [nandReqQ EXCEPT ![c] = Tail(@)]
  /\ IF Len(nandReqQ[c]) = 1
     THEN /\ way' = MoveTo(c, "idle", "IDLE", "NONE")
          /\ UNCHANGED nsc
     ELSE ExecuteOr(c, Tail(nandReqQ[c]), nsc[c])
  /\ failMissed' = IF chip[c] = "fail" THEN failMissed \cup {c} ELSE failMissed
  /\ UNCHANGED chip

\* The fail bit is set: CheckReqStatus asks for another check, for ever if the
\* operation failed.  REQ_STATUS_FAIL is returned nowhere.
StatusReportAgain(c) ==
  /\ way[c].list = "statusReport"
  /\ nsc[c].ready
  /\ way[c].opt = "REPORT" /\ nsc[c].status = "fail"
  /\ way' = MoveTo(c, "statusCheck", "EXE", "CHECK")
  /\ UNCHANGED <<nandReqQ, nsc, chip, failMissed>>

\* One call of SchedulingNandReqPerCh that changes something.
SchedulingNandReqPerCh(c) ==
  Start(c) \/ StatusCheck(c) \/ StatusReportDone(c) \/ StatusReportAgain(c)

-----------------------------------------------------------------------------
\* External: the controller puts the status byte of the chip's last operation.
NscDone(c) ==
  /\ nsc[c].busy
  /\ nsc' = [nsc EXCEPT ![c].busy = FALSE, ![c].status = chip[c]]
  /\ UNCHANGED <<way, nandReqQ, chip, failMissed>>

\* External: the array ends.  Only a program or an erase can fail.
ChipDone(c, result) ==
  /\ ~nsc[c].ready
  /\ result = "fail" => nandReqQ[c][1].code \in {"WRITE", "ERASE"}
  /\ nsc' = [nsc EXCEPT ![c].ready = TRUE]
  /\ chip' = [chip EXCEPT ![c] = result]
  /\ UNCHANGED <<way, nandReqQ, failMissed>>

-----------------------------------------------------------------------------
SchedTypeOK ==
  /\ way \in [Ch -> [list : Lists, die : {"IDLE", "EXE"}, opt : {"NONE", "CHECK", "REPORT"}]]
  /\ nsc \in [Ch -> [busy : BOOLEAN, status : {"none", "pass", "fail"}, ready : BOOLEAN]]
  /\ chip \in [Ch -> {"pass", "fail"}]
  /\ failMissed \subseteq Ch
  /\ \A c \in Ch : \A i \in DOMAIN nandReqQ[c] : nandReqQ[c][i].code \in Codes

(***************************************************************************)
(* The list of a way says what its die is doing.  A die works on the head  *)
(* of its queue exactly while its way is on one of the two status lists;   *)
(* the chip is busy only then; and a way that waits for the array is not   *)
(* also waiting for a status byte.  (SchedulingNandReqPerCh with the list  *)
(* functions, ExecuteNandReq, CheckReqStatus.)                             *)
(***************************************************************************)
ListsMatchDies ==
  \A c \in Ch :
    LET working == way[c].list \in {"statusCheck", "statusReport"}
    IN  /\ way[c].die = "EXE" <=> working
        /\ working \/ ~nsc[c].ready => nandReqQ[c] # <<>>
        /\ ~nsc[c].ready => working /\ way[c].list = "statusCheck" /\ ~nsc[c].busy
        /\ way[c].list \notin {"idle", "statusCheck", "statusReport"}
             => nandReqQ[c] # <<>> /\ way[c].list = OpList(nandReqQ[c][1].code)
=============================================================================
