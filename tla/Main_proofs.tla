---------------------------- MODULE Main_proofs ----------------------------
(***************************************************************************)
(* The whole program keeps what its parts promise.  Its steps are steps of *)
(* the boot over the NAND or leave the boot alone, so it implements        *)
(* BadBlockSpec; and they are steps of the controller and the host, or     *)
(* leave them alone, or start them again, so they keep the invariant of    *)
(* the controller.  This holds for any number of losses of the power and   *)
(* failures of the flash.                                                  *)
(***************************************************************************)
EXTENDS Main, BadBlock_proofs, NvmeController_proofs

BootNext == [BadBlockNext]_<<schedVars, bootVars>>
NvmeNext == [Firmware \/ HostStep]_nvmeVars

LEMMA NextIsBootStep == ASSUME [Next]_vars PROVE BootNext
<1>1. CASE Boot
  BY <1>1 DEF Boot, BootNext, BadBlockNext
<1>2. CASE Loop \/ Host
  BY <1>2 DEF Loop, Host, BootNext, bootAll
<1>3. ASSUME NEW c \in Ch, Nand(c) PROVE BootNext
  BY <1>3 DEF Nand, BootNext, BadBlockNext
<1>4. CASE NandFails
  BY <1>4 DEF NandFails, BootNext, BadBlockNext
<1>5. CASE EnableMsi
  BY <1>5 DEF EnableMsi, BootNext, bootAll
<1>6. CASE Restarted
  BY <1>6 DEF Restarted, BootNext, BadBlockNext
<1>7. CASE UNCHANGED vars
  BY <1>7 DEF vars, BootNext
<1> QED
  BY <1>1, <1>2, <1>3, <1>4, <1>5, <1>6, <1>7 DEF Next

\* A loss of the power starts the controller and the host again.
LEMMA NextIsNvmeStep == ASSUME [Next]_vars PROVE NvmeNext \/ InitController'
<1>1. CASE Boot
  BY <1>1 DEF Boot, NvmeNext
<1>2. CASE Loop \/ Host
  BY <1>2 DEF Loop, Host, NvmeNext
<1>3. ASSUME NEW c \in Ch, Nand(c) PROVE NvmeNext
  BY <1>3 DEF Nand, NvmeNext
<1>4. CASE NandFails \/ EnableMsi
  BY <1>4 DEF NandFails, EnableMsi, NvmeNext
<1>5. CASE Restarted
  BY <1>5 DEF Restarted, ResetRings, InitController
<1>6. CASE UNCHANGED vars
  BY <1>6 DEF vars, NvmeNext
<1> QED
  BY <1>1, <1>2, <1>3, <1>4, <1>5, <1>6 DEF Next

LEMMA BoundsKept ==
  ASSUME msi \in BOOLEAN, losses \in 0 .. MaxLosses, faults \in 0 .. MaxFaults, [Next]_vars
  PROVE  msi' \in BOOLEAN /\ losses' \in 0 .. MaxLosses /\ faults' \in 0 .. MaxFaults
<1>1. CASE Boot \/ Loop \/ Host \/ UNCHANGED vars
  BY <1>1 DEF Boot, Loop, Host, vars
<1>2. ASSUME NEW c \in Ch, Nand(c) PROVE UNCHANGED <<msi, losses, faults>>
  BY <1>2 DEF Nand
<1>3. CASE NandFails
  BY <1>3, BoundsAssumption DEF NandFails
<1>4. CASE EnableMsi
  BY <1>4 DEF EnableMsi
<1>5. CASE Restarted
  <2>1. msi' = FALSE /\ losses < MaxLosses /\ losses' = losses + 1 /\ faults' = faults
    BY <1>5, Zenon DEF Restarted
  <2>2. losses' \in 0 .. MaxLosses
    BY <2>1, BoundsAssumption
  <2>3. msi' \in BOOLEAN
    BY <2>1, Zenon
  <2> QED
    BY <2>1, <2>2, <2>3
<1> QED
  BY <1>1, <1>2, <1>3, <1>4, <1>5 DEF Next

Bounds == msi \in BOOLEAN /\ losses \in 0 .. MaxLosses /\ faults \in 0 .. MaxFaults

\* The program, as far as the boot and the NAND are concerned, is BadBlockSpec:
\* no step of the main loop, of the host or of the interrupts is seen there.
\* (main, InitFTL.)
THEOREM ProgramImplementsBoot == Spec => BadBlockSpec
<1>1. Init => BadBlockInit
  BY DEF Init
<1>2. [Next]_vars => [BadBlockNext]_<<schedVars, bootVars>>
  BY NextIsBootStep DEF BootNext
<1> QED
  BY <1>1, <1>2, PTL DEF Spec, BadBlockSpec

\* NvmeInv holds in the program, through every loss of the power.
THEOREM ControllerInductive == Spec => []NvmeInv
<1>1. Init => NvmeInv
  BY NvmeInvFirst DEF Init
<1>2. ASSUME NvmeInv, [Next]_vars PROVE NvmeInv'
  <2>1. CASE NvmeNext
    BY <1>2, <2>1, NvmeInvKept DEF NvmeNext
  <2>2. InitController' => NvmeInv'
    BY NvmeInvFirst, PTL
  <2> QED
    BY <1>2, <2>1, <2>2, NextIsNvmeStep
<1>3. NvmeInv /\ [Next]_vars => NvmeInv'
  BY <1>2
<1> QED
  BY <1>1, <1>3, PTL DEF Spec

\* Every variable of the program keeps its type: whatever the host sends, and
\* whatever fails.  (main.)
THEOREM TypesAlwaysRight == Spec => []TypeOK
<1>1. Init => Bounds
  <2>1. Init => msi = FALSE /\ losses = 0 /\ faults = 0
    BY DEF Init
  <2>2. 0 \in 0 .. MaxLosses /\ 0 \in 0 .. MaxFaults /\ FALSE \in BOOLEAN
    BY BoundsAssumption
  <2> QED
    BY <2>1, <2>2, Zenon DEF Bounds
<1>2. Bounds /\ [Next]_vars => Bounds'
  BY BoundsKept DEF Bounds
<1>3. Bounds /\ NvmeInv /\ (SchedTypeOK /\ BadBlockTypeOK) => TypeOK
  BY NvmeInvMeans DEF Bounds, TypeOK
<1> QED
  BY <1>1, <1>2, <1>3, ControllerInductive, ProgramImplementsBoot, BootTypesRight, PTL DEF Spec

\* What holds of the boot and of the controller alone holds of the program that
\* runs one behind the other, and starts again whenever the power fails; for
\* hosts whose open commands the rings of the PL hold (RingAssumption).
\* (main.)
THEOREM ProgramIsSafe ==
  Spec => /\ [](ListsMatchDies /\ BadStayOut /\ RunningAgrees)
          /\ [](QueueTables /\ EachInOnePlace)
          /\ KnownBadStaysKnown
<1>1. NvmeInv => QueueTables /\ EachInOnePlace
  BY NvmeInvMeans
<1> QED
  BY <1>1, ControllerInductive, ProgramImplementsBoot, ListsAlwaysMatchDies, BadAlwaysStayOut,
     RunningAlwaysAgrees, KnownStaysKnown, PTL
=============================================================================
