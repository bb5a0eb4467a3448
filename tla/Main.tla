-------------------------------- MODULE Main --------------------------------
(***************************************************************************)
(* The program: main boots the translation layer over the NAND (BadBlock,  *)
(* WaySched), waits for the host to enable its interrupts and then runs    *)
(* the main loop (NvmeController) until the power fails, when all of it    *)
(* begins again over the flash as it was left.                             *)
(***************************************************************************)
EXTENDS BadBlock, NvmeController

CONSTANTS
  MaxLosses, MaxFaults,   \* bounds: losses of the power, failing operations
  LoopFlash               \* bound: the flashes over which the loop is entered

ASSUME BoundsAssumption == MaxLosses \in Nat /\ MaxFaults \in Nat

VARIABLES
  msi,      \* external: the host has enabled MSI or MSI-X
  losses,   \* how often the power has failed
  faults    \* how many operations of the flash have failed

bootAll == <<schedVars, bootVars>>
vars == <<schedVars, bootVars, nvmeVars, msi, losses, faults>>

Init ==
  /\ BadBlockInit /\ InitController
  /\ msi = FALSE /\ losses = 0 /\ faults = 0

\* main up to the loop: InitFTL and the erases.
Boot == BootStep /\ UNCHANGED <<nvmeVars, msi, losses, faults>>

\* The wait for xdma_msi_enable_get is over.
InLoop == phase = "done" /\ msi

Loop == InLoop /\ Firmware /\ UNCHANGED <<bootAll, msi, losses, faults>>

\* External steps.
Nand(c) ==
  /\ Scheduling(c) \/ NscStep(c) \/ ArrayDone(c, "pass")
  /\ UNCHANGED <<nvmeVars, msi, losses, faults>>

NandFails ==
  /\ faults < MaxFaults /\ faults' = faults + 1
  /\ \E c \in Ch : ArrayDone(c, "fail")
  /\ UNCHANGED <<nvmeVars, msi, losses>>

\* Bound: the boot has no fault behind it.  The loop does not look at the flash,
\* nor the boot at the loop, so one way through the boot stands for the others.
EnableMsi ==
  /\ phase = "done" /\ ~msi /\ msi' = TRUE
  /\ losses = 0 /\ faults = 0 /\ flash \in LoopFlash
  /\ \A c \in Ch : ~nsc[c].busy
  /\ UNCHANGED <<bootAll, nvmeVars, losses, faults>>

\* The driver of the host comes after its interrupts.
Host == InLoop /\ HostStep /\ UNCHANGED <<bootAll, msi, losses, faults>>

Restarted ==
  /\ losses < MaxLosses /\ losses' = losses + 1
  /\ PowerLoss
  /\ state' = "DISABLED" /\ cc' = [en |-> 0, shn |-> 0] /\ csts' = [rdy |-> 0, shst |-> 0]
  /\ pc' = "turn" /\ adminCmd' = None /\ ioCmd' = None /\ answer' = Success
  /\ ResetRings /\ pool' = {} /\ host' = [c \in CID |-> "free"]
  /\ cqs' = [i \in Index |-> NoCq] /\ sqs' = [i \in Index |-> NoSq]
  /\ cqReg' = [i \in 0 .. QN |-> 0] /\ sqReg' = [i \in 0 .. QN |-> 0]
  /\ irqEnable' = {} /\ irqReg' = {} /\ irqVector' = [i \in 0 .. QN |-> i] /\ refused' = {}
  /\ msi' = FALSE
  /\ UNCHANGED faults

Next == Boot \/ Loop \/ (\E c \in Ch : Nand(c)) \/ NandFails \/ EnableMsi \/ Host \/ Restarted

(***************************************************************************)
(* The processor never stops; the controllers, the chips and the PL answer *)
(* every request; and a low level that runs again and again comes to the   *)
(* end of every command that does not take the whole pool                  *)
(* (RequestFlow.CommandEnds).  Nothing obliges the host.                   *)
(***************************************************************************)
Fairness ==
  /\ WF_vars(Boot) /\ WF_vars(Loop)
  /\ \A c \in Ch : WF_vars(Nand(c))
  /\ SF_vars(InLoop /\ (\E e \in Commands : TakeFromPool(e)) /\ UNCHANGED <<bootAll, msi, losses, faults>>)
  /\ WF_vars(InLoop /\ PlAdmin /\ UNCHANGED <<bootAll, msi, losses, faults>>)
  /\ WF_vars(InLoop /\ PlIo /\ UNCHANGED <<bootAll, msi, losses, faults>>)

Spec == Init /\ [][Next]_vars /\ Fairness

-----------------------------------------------------------------------------
TypeOK ==
  /\ SchedTypeOK /\ BadBlockTypeOK /\ NvmeTypeOK
  /\ msi \in BOOLEAN /\ losses \in 0 .. MaxLosses /\ faults \in 0 .. MaxFaults

(***************************************************************************)
(* A boot ends: all its requests are executed and it comes to the loop,    *)
(* unless the power fails first, an operation of the flash has failed (a   *)
(* fresh fail bit is asked about for ever, CheckReqStatus) or a die has no *)
(* two good blocks.  (InitFTL, SyncAllLowLevelReqDone, the scheduler.)     *)
(***************************************************************************)
BootEnds ==
  \A n \in 0 .. MaxLosses :
    losses = n ~> phase \in {"done", "assert"} \/ losses > n \/ \E c \in Ch : chip[c] = "fail"

(***************************************************************************)
(* In the loop, every change of CC is answered in CSTS however busy the    *)
(* controller is, unless the host changes CC again: enabling sets RDY,     *)
(* disabling clears it, and a shutdown is reported.  (main.)               *)
(***************************************************************************)
HandshakeEnds ==
  /\ (InLoop /\ cc.en = 1) ~> (csts.rdy = 1 \/ cc.en = 0)
  /\ (InLoop /\ cc.en = 0) ~> (csts.rdy = 0 \/ cc.en = 1)
  /\ (InLoop /\ cc = [en |-> 1, shn |-> 1]) ~> (csts.shst = 2 \/ cc # [en |-> 1, shn |-> 1])

\* The host waits for command c.
Waiting(c) == host[c] \in {"admin", "io"}

(***************************************************************************)
(* Once the host has stopped sending I/O commands and leaves CC alone,     *)
(* every command it waits for is answered; while it goes on sending them,  *)
(* the low level may never run, and a command in progress wait for ever.   *)
(* (The exeLlr flag of main.)                                              *)
(***************************************************************************)
AnswersCome ==
  <>[](isq = <<>> /\ InLoop /\ cc = [en |-> 1, shn |-> 0])
    => \A c \in CID : Waiting(c) ~> ~Waiting(c)
=============================================================================
