----------------------- MODULE NvmeController_proofs -----------------------
(***************************************************************************)
(* For any number of queues and any commands of the host: the tables of    *)
(* the queues in the firmware agree with the registers of the PL; and each *)
(* command the host waits for is in one place.  The second counts: a step  *)
(* that moves a command takes it from one place and puts it in another,    *)
(* and what the firmware has in hand at each place of its turn says that   *)
(* nothing is dropped or taken from an empty hand.                         *)
(***************************************************************************)
EXTENDS NvmeController, SequenceTheorems, FiniteSetTheorems, TLAPS

QueueTypes ==
  /\ cqs \in [Index -> [qid : QIDs, ien : BOOLEAN, iv : Nat]]
  /\ sqs \in [Index -> [qid : QIDs, cqid : QIDs]]
  /\ cqReg \in [0 .. QN -> QIDs] /\ sqReg \in [0 .. QN -> QIDs]
  /\ irqVector \in [0 .. QN -> Nat]

\* What QueueTables needs from the past.  irqEnable, from which the register of
\* the interrupts is computed, knows every queue that wants one; and a queue
\* was created for a completion queue that existed.
QueueHistory ==
  /\ \A i \in Index : cqs[i].qid # 0 /\ cqs[i].ien => i \in irqEnable
  /\ \A i \in Index : sqs[i].qid # 0 => sqs[i].cqid # 0

QueueInv == QueueTypes /\ QueueTables /\ QueueHistory

LEMMA Sizes == QN \in Nat /\ QN > 0 /\ QIDs \subseteq Nat /\ 0 \in QIDs /\ VECTOR \in Nat
BY QueuesAssumption, VectorAssumption

LEMMA EmptyTables ==
  /\ [i \in Index |-> NoCq] \in [Index -> [qid : QIDs, ien : BOOLEAN, iv : Nat]]
  /\ [i \in Index |-> NoSq] \in [Index -> [qid : QIDs, cqid : QIDs]]
BY Sizes DEF NoCq, NoSq

LEMMA InitQueues == InitController => QueueInv
<1> SUFFICES ASSUME InitController PROVE QueueInv
  OBVIOUS
<1>1. QueueTypes
  BY Sizes, EmptyTables DEF InitController, QueueTypes
<1>2. \A i \in Index : cqs[i].qid = 0 /\ sqs[i].qid = 0
  BY DEF InitController, NoCq, NoSq
<1> QED
  BY <1>1, <1>2 DEF QueueInv, QueueTables, QueueHistory

\* init_nvme_controller at a reset: every queue is gone.
LEMMA ResetKeepsQueues == ASSUME QueueInv, ResetQueues PROVE QueueInv'
<1>1. QueueTypes'
  <2>1. cqReg' \in [0 .. QN -> QIDs] /\ sqReg' \in [0 .. QN -> QIDs]
    BY Sizes DEF QueueInv, QueueTypes, ResetQueues, Cleared
  <2>2. irqVector' \in [0 .. QN -> Nat]
    BY Sizes DEF ResetQueues
  <2> QED
    BY <2>1, <2>2, EmptyTables DEF QueueTypes, ResetQueues
<1>2. \A i \in Index : cqs'[i].qid = 0 /\ sqs'[i].qid = 0
  BY DEF ResetQueues, NoCq, NoSq
<1> QED
  BY <1>1, <1>2 DEF QueueInv, QueueTables, QueueHistory

LEMMA QuietKeepsQueues == ASSUME QueueInv, UNCHANGED tableVars PROVE QueueInv'
BY DEF QueueInv, QueueTypes, QueueTables, QueueHistory, tableVars

\* create_io_cq: the entry was free, so that a submission queue at its index
\* can only be one that a refused delete has left there.
LEMMA CreateIoCqKeepsQueues ==
  ASSUME QueueInv, NEW id \in QIDs, NEW ien \in BOOLEAN, CreateIoCq(id, ien, VECTOR)
  PROVE  QueueInv'
<1>1. CASE UNCHANGED tableVars
  BY <1>1, QuietKeepsQueues
<1>2. ASSUME NEW i \in FreeCq(id),
             cqs' = [cqs EXCEPT ![i] = [qid |-> id, ien |-> ien, iv |-> VECTOR]],
             cqReg' = [cqReg EXCEPT ![i] = id],
             IF ien THEN /\ irqVector' = VectorSet(i, VECTOR)
                         /\ irqEnable' = irqEnable \cup {i}
                         /\ irqReg' = irqEnable'
             ELSE irqEnable' = irqEnable \ {i} /\ UNCHANGED <<irqVector, irqReg>>,
             UNCHANGED <<sqs, sqReg, refused>>
      PROVE  QueueInv'
  <2>1. /\ i \in Index /\ id # 0 /\ cqs[i].qid = 0
        /\ \A j \in Index : cqs[j].qid # id
    BY <1>2 DEF FreeCq, CqIndex
  <2>2. i \in 0 .. QN /\ i + 1 \in 0 .. QN
    BY <2>1, Sizes DEF Index
  <2>3. /\ cqs'[i] = [qid |-> id, ien |-> ien, iv |-> VECTOR]
        /\ \A j \in Index : j # i => cqs'[j] = cqs[j]
        /\ cqs' \in [Index -> [qid : QIDs, ien : BOOLEAN, iv : Nat]]
    BY <1>2, <2>1, Sizes DEF QueueInv, QueueTypes
  <2>4. /\ cqReg'[i] = id /\ cqReg' \in [0 .. QN -> QIDs]
        /\ \A j \in 0 .. QN : j # i => cqReg'[j] = cqReg[j]
    BY <1>2, <2>2 DEF QueueInv, QueueTypes
  <2>5. /\ irqVector' \in [0 .. QN -> Nat]
        /\ ien => irqVector'[i + 1] = VECTOR
        /\ \A j \in 0 .. QN : j # i + 1 => irqVector'[j] = irqVector[j]
    BY <1>2, <2>2, Sizes DEF QueueInv, QueueTypes, VectorSet
  <2>6. QueueTypes'
    BY <1>2, <2>3, <2>4, <2>5 DEF QueueInv, QueueTypes
  <2>7. QueueHistory'
    BY <1>2, <2>3 DEF QueueInv, QueueHistory
  <2>8. QueueTables'
    <3> SUFFICES ASSUME NEW j \in Index
                 PROVE  /\ cqs'[j].qid # 0 =>
                             /\ cqReg'[j] = cqs'[j].qid
                             /\ cqs'[j].ien => j \in irqReg' /\ irqVector'[j + 1] = cqs'[j].iv
                             /\ \A k \in Index : cqs'[k].qid = cqs'[j].qid => k = j
                        /\ sqs'[j].qid # 0 =>
                             /\ sqReg'[j] = sqs'[j].qid
                             /\ j \in refused' \/ cqs'[j].qid = sqs'[j].cqid
      BY DEF QueueTables
    <3>1. j \in 0 .. QN /\ j + 1 \in 0 .. QN /\ (j # i => j + 1 # i + 1)
      BY <2>1, Sizes DEF Index
    <3>2. /\ cqs'[j].qid # 0 => cqReg'[j] = cqs'[j].qid
          /\ \A k \in Index : cqs'[j].qid # 0 /\ cqs'[k].qid = cqs'[j].qid => k = j
      BY <2>1, <2>3, <2>4, <3>1 DEF QueueInv, QueueTables
    <3>3. ASSUME cqs'[j].qid # 0, cqs'[j].ien
          PROVE  j \in irqReg' /\ irqVector'[j + 1] = cqs'[j].iv
      <4>1. CASE j = i
        BY <1>2, <2>3, <2>5, <3>3, <4>1
      <4>2. CASE j # i
        <5>1. j \in irqReg /\ j \in irqEnable /\ irqVector[j + 1] = cqs[j].iv
          BY <2>3, <3>3, <4>2 DEF QueueInv, QueueTables, QueueHistory
        <5> QED
          BY <1>2, <2>3, <2>5, <3>1, <4>2, <5>1
      <4> QED
        BY <4>1, <4>2
    <3>4. sqs'[j].qid # 0 => /\ sqReg'[j] = sqs'[j].qid
                             /\ j \in refused' \/ cqs'[j].qid = sqs'[j].cqid
      BY <1>2, <2>1, <2>3 DEF QueueInv, QueueTables, QueueHistory
    <3> QED
      BY <3>2, <3>3, <3>4
  <2> QED
    BY <2>6, <2>7, <2>8 DEF QueueInv
<1> QED
  BY <1>1, <1>2 DEF CreateIoCq

\* create_io_sq: at the index of a completion queue that is there.
LEMMA CreateIoSqKeepsQueues ==
  ASSUME QueueInv, NEW id \in QIDs, NEW cqid \in QIDs, CreateIoSq(id, cqid)
  PROVE  QueueInv'
<1>1. CASE UNCHANGED tableVars
  BY <1>1, QuietKeepsQueues
<1>2. ASSUME NEW i \in CqIndex(cqid),
             sqs' = [sqs EXCEPT ![i] = [qid |-> id, cqid |-> cqid]],
             sqReg' = [sqReg EXCEPT ![i] = id],
             UNCHANGED <<cqs, cqReg, irqEnable, irqReg, irqVector, refused>>
      PROVE  QueueInv'
  <2>1. i \in Index /\ cqid # 0 /\ cqs[i].qid = cqid /\ i \in 0 .. QN
    BY <1>2, Sizes DEF CqIndex, Index
  <2>2. /\ sqs' \in [Index -> [qid : QIDs, cqid : QIDs]]
        /\ sqs'[i] = [qid |-> id, cqid |-> cqid]
        /\ \A j \in Index : j # i => sqs'[j] = sqs[j]
    BY <1>2, <2>1 DEF QueueInv, QueueTypes
  <2>3. /\ sqReg' \in [0 .. QN -> QIDs] /\ sqReg'[i] = id
        /\ \A j \in 0 .. QN : j # i => sqReg'[j] = sqReg[j]
    BY <1>2, <2>1 DEF QueueInv, QueueTypes
  <2>4. \A j \in Index : j \in 0 .. QN
    BY Sizes DEF Index
  <2>5. QueueTypes' /\ QueueHistory'
    BY <1>2, <2>1, <2>2, <2>3 DEF QueueInv, QueueTypes, QueueHistory
  <2>6. QueueTables'
    BY <1>2, <2>1, <2>2, <2>3, <2>4 DEF QueueInv, QueueTables
  <2> QED
    BY <2>5, <2>6 DEF QueueInv
<1> QED
  BY <1>1, <1>2 DEF CreateIoSq

\* delete_io_sq.
LEMMA DeleteIoSqKeepsQueues ==
  ASSUME QueueInv, NEW id \in QIDs, DeleteIoSq(id)
  PROVE  QueueInv'
<1>1. CASE UNCHANGED tableVars
  BY <1>1, QuietKeepsQueues
<1>2. ASSUME NEW i \in First(SqIndex(id)),
             sqs' = [sqs EXCEPT ![i].qid = 0],
             sqReg' = [sqReg EXCEPT ![i] = 0],
             refused' = refused \ {i},
             UNCHANGED <<cqs, cqReg, irqEnable, irqReg, irqVector>>
      PROVE  QueueInv'
  <2>1. i \in Index /\ i \in 0 .. QN
    BY <1>2, Sizes DEF First, SqIndex, Index
  <2>2. /\ sqs' \in [Index -> [qid : QIDs, cqid : QIDs]]
        /\ sqs'[i].qid = 0
        /\ \A j \in Index : j # i => sqs'[j] = sqs[j]
    BY <1>2, <2>1, Sizes DEF QueueInv, QueueTypes
  <2>3. /\ sqReg' \in [0 .. QN -> QIDs]
        /\ \A j \in 0 .. QN : j # i => sqReg'[j] = sqReg[j]
    BY <1>2, <2>1, Sizes DEF QueueInv, QueueTypes
  <2>4. \A j \in Index : j \in 0 .. QN
    BY Sizes DEF Index
  <2>5. QueueTypes' /\ QueueHistory'
    BY <1>2, <2>2, <2>3 DEF QueueInv, QueueTypes, QueueHistory
  <2>6. QueueTables'
    BY <1>2, <2>2, <2>3, <2>4 DEF QueueInv, QueueTables
  <2> QED
    BY <2>5, <2>6 DEF QueueInv
<1> QED
  BY <1>1, <1>2 DEF DeleteIoSq

\* delete_io_cq, refused or not: the registers of the interrupts are computed
\* from a variable that knows all other queues.
LEMMA DeleteIoCqKeepsQueues ==
  ASSUME QueueInv, NEW id \in QIDs, DeleteIoCq(id)
  PROVE  QueueInv'
<1>1. CASE UNCHANGED tableVars
  BY <1>1, QuietKeepsQueues
<1>2. ASSUME NEW i \in CqIndex(id),
             cqs' = [cqs EXCEPT ![i].qid = 0],
             IF sqs[i].qid # 0
             THEN refused' = refused \cup {i} /\ UNCHANGED <<cqReg, irqEnable, irqReg>>
             ELSE /\ cqReg' = [cqReg EXCEPT ![i] = 0]
                  /\ irqEnable' = irqEnable \ {i}
                  /\ irqReg' = irqEnable'
                  /\ UNCHANGED refused,
             UNCHANGED <<sqs, sqReg, irqVector>>
      PROVE  QueueInv'
  <2>1. i \in Index /\ i \in 0 .. QN
    BY <1>2, Sizes DEF CqIndex, Index
  <2>2. /\ cqs' \in [Index -> [qid : QIDs, ien : BOOLEAN, iv : Nat]]
        /\ cqs'[i].qid = 0
        /\ \A j \in Index : j # i => cqs'[j] = cqs[j]
    BY <1>2, <2>1, Sizes DEF QueueInv, QueueTypes
  <2>3. /\ cqReg' \in [0 .. QN -> QIDs]
        /\ \A j \in 0 .. QN : j # i => cqReg'[j] = cqReg[j]
    BY <1>2, <2>1, Sizes DEF QueueInv, QueueTypes
  <2>4. \A j \in Index : j \in 0 .. QN
    BY Sizes DEF Index
  <2>5. QueueTypes' /\ QueueHistory'
    BY <1>2, <2>2, <2>3 DEF QueueInv, QueueTypes, QueueHistory
  <2>6. \A j \in Index : cqs'[j].qid # 0 =>
          /\ cqReg'[j] = cqs'[j].qid
          /\ \A k \in Index : cqs'[k].qid = cqs'[j].qid => k = j
    BY <2>2, <2>3, <2>4 DEF QueueInv, QueueTables
  <2>7. \A j \in Index : cqs'[j].qid # 0 /\ cqs'[j].ien =>
          j \in irqReg' /\ irqVector'[j + 1] = cqs'[j].iv
    BY <1>2, <2>2 DEF QueueInv, QueueTables, QueueHistory
  <2>8. \A j \in Index : sqs'[j].qid # 0 =>
          sqReg'[j] = sqs'[j].qid /\ (j \in refused' \/ cqs'[j].qid = sqs'[j].cqid)
    BY <1>2, <2>1, <2>2 DEF QueueInv, QueueTables
  <2>9. QueueTables'
    BY <2>6, <2>7, <2>8 DEF QueueTables
  <2> QED
    BY <2>5, <2>9 DEF QueueInv
<1> QED
  BY <1>1, <1>2 DEF DeleteIoCq

\* A turn of the firmware, or a step of the host or the PL.
LEMMA FirmwareKeepsQueues == ASSUME QueueInv, Firmware PROVE QueueInv'
<1>1. CASE StartRunning \/ ControllerReset
  BY <1>1, ResetKeepsQueues DEF StartRunning, ControllerReset
<1>2. CASE Enable \/ Shutdown \/ Restart \/ IdleTurn \/ Fetch \/ PostAdmin \/ ProcessIoCmd \/ LowLevel
  <2>1. UNCHANGED tableVars
    BY <1>2 DEF Enable, Shutdown, Restart, IdleTurn, Fetch, PostAdmin, ProcessIoCmd, CompleteAtOnce,
         JoinPool, Flush, PostIo, LowLevel, EndOfPass, TakeFromPool
  <2> QED
    BY <2>1, QuietKeepsQueues
<1>3. CASE ProcessAdminCmd
  <2>1. CASE AsyncEventReq \/ \E status \in OtherAnswers : OtherAdmin(status)
    BY <2>1, QuietKeepsQueues DEF AsyncEventReq, OtherAdmin
  <2>2. ASSUME NEW id \in QIDs, NEW ien \in BOOLEAN, CreateIoCq(id, ien, VECTOR) PROVE QueueInv'
    BY <2>2, CreateIoCqKeepsQueues
  <2>3. ASSUME NEW id \in QIDs, NEW cqid \in QIDs, CreateIoSq(id, cqid) PROVE QueueInv'
    BY <2>3, CreateIoSqKeepsQueues
  <2>4. ASSUME NEW id \in QIDs, DeleteIoSq(id) \/ DeleteIoCq(id) PROVE QueueInv'
    BY <2>4, DeleteIoSqKeepsQueues, DeleteIoCqKeepsQueues
  <2> QED
    BY <1>3, <2>1, <2>2, <2>3, <2>4 DEF ProcessAdminCmd
<1> QED
  BY <1>1, <1>2, <1>3 DEF Firmware, TurnState

LEMMA HostKeepsQueues == ASSUME QueueInv, HostStep PROVE QueueInv'
<1>1. UNCHANGED tableVars
  BY DEF HostStep, HostEnable, HostDisable, HostShutdown, HostAdmin, HostIo, PlAdmin, PlIo, HostUnchanged
<1> QED
  BY <1>1, QuietKeepsQueues

\* Whatever queues the host creates, deletes, or tries to delete, through any
\* number of resets: the tables agree with the registers, and a completion
\* queue that wants an interrupt has its vector.  (create_io_*, delete_io_*,
\* init_nvme_controller.)
THEOREM QueuesAgree == NvmeSpec => []QueueTables
<1>1. InitController => QueueInv
  BY InitQueues
<1>2. QueueInv /\ [Firmware \/ HostStep]_nvmeVars => QueueInv'
  <2>1. ASSUME QueueInv, UNCHANGED nvmeVars PROVE QueueInv'
    BY <2>1, QuietKeepsQueues DEF nvmeVars
  <2> QED
    BY <2>1, FirmwareKeepsQueues, HostKeepsQueues
<1>3. QueueInv => QueueTables
  BY DEF QueueInv
<1> QED
  BY <1>1, <1>2, <1>3, PTL DEF NvmeSpec

-----------------------------------------------------------------------------
\* How often e is on a ring, in a variable and in a set.

At(s, e) == Cardinality({i \in DOMAIN s : s[i] = e})
One(x, e) == IF x = e THEN 1 ELSE 0
In(S, e) == IF e \in S THEN 1 ELSE 0

LEMMA OneIs ==
  /\ \A x, e : One(x, e) \in Nat /\ One(e, e) = 1 /\ (x # e => One(x, e) = 0)
  /\ \A S, e : In(S, e) \in Nat /\ (e \in S => In(S, e) = 1) /\ (e \notin S => In(S, e) = 0)
BY DEF One, In

LEMMA AtIsFinite ==
  ASSUME NEW S, NEW s \in Seq(S), NEW e
  PROVE  IsFiniteSet({i \in DOMAIN s : s[i] = e}) /\ At(s, e) \in Nat
<1>1. DOMAIN s = 1..Len(s) /\ Len(s) \in Int /\ 1 \in Int
  BY LenProperties
<1>2. IsFiniteSet(DOMAIN s)
  BY <1>1, FS_Interval
<1>3. IsFiniteSet({i \in DOMAIN s : s[i] = e})
  BY <1>2, FS_Subset
<1> QED
  BY <1>3, FS_CardinalityType DEF At

LEMMA AtEmpty == \A e : At(<<>>, e) = 0
<1> SUFFICES ASSUME NEW e PROVE At(<<>>, e) = 0
  OBVIOUS
<1>1. {i \in DOMAIN <<>> : <<>>[i] = e} = {}
  OBVIOUS
<1> QED
  BY <1>1, FS_EmptySet DEF At

LEMMA AtAppend ==
  ASSUME NEW S, NEW s \in Seq(S), NEW x \in S, NEW e
  PROVE  At(Append(s, x), e) = At(s, e) + One(x, e)
<1>1. PICK r : r = Append(s, x)
  OBVIOUS
<1>2. /\ Len(s) \in Nat /\ DOMAIN s = 1..Len(s) /\ DOMAIN r = 1..(Len(s) + 1)
      /\ \A i \in 1..Len(s) : r[i] = s[i]
      /\ r[Len(s) + 1] = x
  BY <1>1, AppendProperties, LenProperties
<1>3. PICK T : T = {i \in DOMAIN s : s[i] = e}
  OBVIOUS
<1>4. PICK U : U = {i \in DOMAIN r : r[i] = e}
  OBVIOUS
<1>5. IsFiniteSet(T) /\ Cardinality(T) \in Nat /\ At(s, e) = Cardinality(T) /\ At(r, e) = Cardinality(U)
  BY <1>3, <1>4, AtIsFinite DEF At
<1>6. Len(s) + 1 \notin T
  BY <1>2, <1>3
<1>7. CASE x = e
  <2>1. U = T \cup {Len(s) + 1}
    BY <1>2, <1>3, <1>4, <1>7
  <2>2. Cardinality(U) = Cardinality(T) + 1
    BY <1>5, <1>6, <2>1, FS_AddElement
  <2> QED
    BY <1>1, <1>5, <1>7, <2>2, OneIs
<1>8. CASE x # e
  <2>1. U = T
    BY <1>2, <1>3, <1>4, <1>8
  <2> QED
    BY <1>1, <1>5, <1>8, <2>1, OneIs
<1> QED
  BY <1>7, <1>8

LEMMA AtTail ==
  ASSUME NEW S, NEW s \in Seq(S), s # <<>>, NEW e
  PROVE  At(s, e) = At(Tail(s), e) + One(Head(s), e)
<1>1. PICK r : r = Tail(s)
  OBVIOUS
<1>2. /\ Len(s) \in Nat /\ Len(s) > 0 /\ DOMAIN s = 1..Len(s) /\ Len(r) = Len(s) - 1
      /\ DOMAIN r = 1..(Len(s) - 1) /\ r \in Seq(S)
      /\ \A i \in 1..(Len(s) - 1) : r[i] = s[i + 1]
      /\ s[1] = Head(s)
  BY <1>1, HeadTailProperties, LenProperties, EmptySeq
<1>3. PICK T : T = {i \in DOMAIN s : s[i] = e}
  OBVIOUS
<1>4. PICK U : U = {i \in DOMAIN r : r[i] = e}
  OBVIOUS
<1>5. /\ IsFiniteSet(T) /\ Cardinality(T) \in Nat /\ At(s, e) = Cardinality(T)
      /\ IsFiniteSet(U) /\ Cardinality(U) \in Nat /\ At(r, e) = Cardinality(U)
  BY <1>2, <1>3, <1>4, AtIsFinite DEF At
<1>6. Cardinality(T \ {1}) = Cardinality(U)
  <2>1. PICK f : f = [i \in U |-> i + 1]
    OBVIOUS
  <2>2. f \in Bijection(U, T \ {1})
    <3>1. f \in [U -> T \ {1}]
      BY <1>2, <1>3, <1>4, <2>1
    <3>2. \A i, j \in U : f[i] = f[j] => i = j
      BY <1>2, <1>4, <2>1
    <3>3. \A t \in T \ {1} : \E i \in U : f[i] = t
      <4> SUFFICES ASSUME NEW t \in T \ {1} PROVE \E i \in U : f[i] = t
        OBVIOUS
      <4>1. PICK j : j = t - 1
        OBVIOUS
      <4>2. t \in 1..Len(s) /\ s[t] = e /\ t # 1
        BY <1>2, <1>3
      <4>3. j \in 1..(Len(s) - 1) /\ j + 1 = t
        BY <1>2, <4>1, <4>2
      <4>4. j \in U
        BY <1>2, <1>4, <4>2, <4>3
      <4> QED
        BY <2>1, <4>3, <4>4
    <3> QED
      BY <3>1, <3>2, <3>3 DEF Bijection, Injection, Surjection, IsInjective
  <2> QED
    BY <1>5, <2>2, FS_Bijection DEF ExistsBijection
<1>7. CASE Head(s) = e
  <2>1. 1 \in T
    BY <1>2, <1>3, <1>7
  <2>2. Cardinality(T \ {1}) = Cardinality(T) - 1
    BY <1>5, <2>1, FS_RemoveElement
  <2> QED
    BY <1>1, <1>5, <1>6, <1>7, <2>2, OneIs
<1>8. CASE Head(s) # e
  <2>1. T \ {1} = T
    BY <1>2, <1>3, <1>8
  <2>2. One(Head(s), e) = 0
    BY <1>8, OneIs
  <2>3. At(s, e) = At(r, e) /\ At(r, e) \in Nat
    BY <1>5, <1>6, <2>1, Zenon
  <2>4. At(r, e) = At(r, e) + 0
    BY <2>3
  <2> QED
    BY <1>1, <2>2, <2>3, <2>4, Zenon
<1> QED
  BY <1>7, <1>8

-----------------------------------------------------------------------------
\* The invariant of the commands.

\* Only the pool, and what comes from it, knows commands of before a reset.
AdminCmds == {Fresh(c) : c \in AdminCID}
NewIoCmds == {Fresh(c) : c \in IoCID}
IoCmds == NewIoCmds \cup {Stale(c) : c \in IoCID}

CmdTypes ==
  /\ asq \in Seq(AdminCmds) /\ acq \in Seq(AdminCmds)
  /\ isq \in Seq(NewIoCmds) /\ icq \in Seq(IoCmds)
  /\ pool \subseteq IoCmds
  /\ host \in [CID -> {"free", "admin", "io", "never", "cheated"}]

\* What the firmware has in hand, by its place in the turn.
InHand ==
  /\ pc \in {"turn", "admin", "post", "io", "postIo", "low", "postLow"}
  /\ pc \in {"admin", "post"} => adminCmd \in AdminCmds /\ ioCmd \in NewIoCmds \cup {None}
  /\ pc \notin {"admin", "post"} => adminCmd = None
  /\ pc \in {"io", "postIo"} => ioCmd \in NewIoCmds
  /\ pc = "postLow" => ioCmd \in IoCmds
  /\ pc \in {"turn", "low"} => ioCmd = None

\* The rings are emptied when no command can be on them.
Ready ==
  /\ csts \in [rdy : {0, 1}, shst : {0, 2}]
  /\ state \in {"DISABLED", "ENABLED"} => csts.rdy = 0
  /\ csts.rdy = 0 => \A c \in CID : host[c] = "free"

Spread(q1, q2, q3, q4, x, y, S, e) ==
  At(q1, e) + At(q2, e) + At(q3, e) + At(q4, e) + One(x, e) + One(y, e) + In(S, e)

Waited(h, c) == IF h[c] \in {"admin", "io", "cheated"} THEN 1 ELSE 0

Once(q1, q2, q3, q4, x, y, S, h) == \A c \in CID : Spread(q1, q2, q3, q4, x, y, S, Fresh(c)) = Waited(h, c)

CommandInv ==
  CmdTypes /\ InHand /\ Ready /\ Once(asq, isq, acq, icq, adminCmd, ioCmd, pool, host)

LEMMA WaitedIs ==
  \A h, c : /\ Waited(h, c) \in {0, 1}
            /\ Waited(h, c) = 1 <=> h[c] \in {"admin", "io", "cheated"}
BY DEF Waited

LEMMA CommandInvMeans == CommandInv => EachInOnePlace
<1> SUFFICES ASSUME CommandInv, NEW c \in CID
             PROVE  Places(Fresh(c)) = IF host[c] \in {"admin", "io", "cheated"} THEN 1 ELSE 0
  BY DEF EachInOnePlace
<1>1. Places(Fresh(c)) = Spread(asq, isq, acq, icq, adminCmd, ioCmd, pool, Fresh(c))
  BY Zenon DEF Places, Spread, At, One, In
<1> QED
  BY <1>1, Zenon DEF CommandInv, Once, Waited

LEMMA Commandments ==
  /\ \A c, d : Fresh(c) = Fresh(d) => c = d
  /\ \A c, d : Fresh(c) # Stale(d) /\ Fresh(c) # None
  /\ AdminCmds \subseteq Commands /\ IoCmds \subseteq Commands /\ NewIoCmds \subseteq IoCmds
<1>1. \A c, d : Fresh(c) = Fresh(d) => c = d
  BY DEF Fresh
<1>2. \A c, d : Fresh(c) # Stale(d) /\ Fresh(c) # None
  BY DEF Fresh, Stale, None
<1>3. AdminCmds \subseteq Commands /\ IoCmds \subseteq Commands /\ NewIoCmds \subseteq IoCmds
  BY Zenon DEF AdminCmds, NewIoCmds, IoCmds, Commands, CID
<1> QED
  BY <1>1, <1>2, <1>3

LEMMA Numbers ==
  ASSUME CmdTypes, NEW e
  PROVE  At(asq, e) \in Nat /\ At(isq, e) \in Nat /\ At(acq, e) \in Nat /\ At(icq, e) \in Nat
BY AtIsFinite DEF CmdTypes

LEMMA Sums ==
  \A a, b, c, d, x, y, z, k \in Nat :
    /\ a + b + c + d + x + y + z \in Nat
    /\ (a + k) + b + c + d + x + y + z = (a + b + c + d + x + y + z) + k
    /\ a + (b + k) + c + d + x + y + z = (a + b + c + d + x + y + z) + k
    /\ a + b + (c + k) + d + x + y + z = (a + b + c + d + x + y + z) + k
    /\ a + b + c + (d + k) + x + y + z = (a + b + c + d + x + y + z) + k
OBVIOUS

\* Nowhere: what the host does not wait for.
LEMMA Nowhere ==
  ASSUME CommandInv, NEW c \in CID, host[c] \in {"free", "never"}
  PROVE  /\ Spread(asq, isq, acq, icq, adminCmd, ioCmd, pool, Fresh(c)) = 0
         /\ At(asq, Fresh(c)) = 0 /\ At(isq, Fresh(c)) = 0 /\ At(acq, Fresh(c)) = 0
         /\ At(icq, Fresh(c)) = 0 /\ Fresh(c) \notin pool
         /\ adminCmd # Fresh(c) /\ ioCmd # Fresh(c)
<1>1. Spread(asq, isq, acq, icq, adminCmd, ioCmd, pool, Fresh(c)) = Waited(host, c)
  BY DEF CommandInv, Once
<1>2. Waited(host, c) = 0
  BY WaitedIs
<1>3. PICK a, i, p, o, x, y, z :
        /\ a = At(asq, Fresh(c)) /\ i = At(isq, Fresh(c)) /\ p = At(acq, Fresh(c)) /\ o = At(icq, Fresh(c))
        /\ x = One(adminCmd, Fresh(c)) /\ y = One(ioCmd, Fresh(c)) /\ z = In(pool, Fresh(c))
  OBVIOUS
<1>4. a \in Nat /\ i \in Nat /\ p \in Nat /\ o \in Nat
  BY <1>3, Numbers DEF CommandInv
<1>5. x \in Nat /\ y \in Nat /\ z \in Nat
  BY <1>3, OneIs, Zenon
<1>6. a + i + p + o + x + y + z = 0
  BY <1>1, <1>2, <1>3, Zenon DEF Spread
<1>7. a = 0 /\ i = 0 /\ p = 0 /\ o = 0 /\ x = 0 /\ y = 0 /\ z = 0
  BY <1>4, <1>5, <1>6
<1>8. 0 # 1
  OBVIOUS
<1>9. Fresh(c) \notin pool
  BY <1>3, <1>7, <1>8, OneIs, Zenon
<1>10. adminCmd # Fresh(c) /\ ioCmd # Fresh(c)
  BY <1>3, <1>7, <1>8, OneIs, Zenon
<1> QED
  BY <1>1, <1>2, <1>3, <1>7, <1>9, <1>10, Zenon

-----------------------------------------------------------------------------
\* The steps.  A command moves: where it was it is once less, and where it
\* goes once more.

\* Steps that move no command.
LEMMA QuietKeepsCommands ==
  ASSUME CommandInv, UNCHANGED <<ringVars, cmdVars, adminCmd, ioCmd>>, InHand', Ready'
  PROVE  CommandInv'
BY DEF CommandInv, CmdTypes, Once, ringVars, cmdVars

LEMMA FetchKeepsCommands == ASSUME CommandInv, Fetch PROVE CommandInv'
<1>1. /\ pc = "turn" /\ adminCmd = None /\ ioCmd = None /\ CmdTypes
      /\ asq \in Seq(AdminCmds) /\ isq \in Seq(NewIoCmds)
  BY DEF CommandInv, InHand, CmdTypes, Fetch
<1>2. /\ adminCmd' \in AdminCmds \cup {None} /\ asq' \in Seq(AdminCmds)
      /\ asq # <<>> <=> adminCmd' \in AdminCmds
      /\ \A e : e # None => At(asq, e) = At(asq', e) + One(adminCmd', e)
  <2>1. CASE asq = <<>>
    <3>1. adminCmd' = None /\ asq' = asq /\ None \notin AdminCmds
      BY <2>1, Commandments DEF Fetch, HeadOr, AdminCmds
    <3>2. \A e : e # None => At(asq, e) = At(asq, e) + One(None, e)
      <4> SUFFICES ASSUME NEW e, e # None PROVE At(asq, e) = At(asq, e) + One(None, e)
        OBVIOUS
      <4>1. One(None, e) = 0 /\ At(asq, e) \in Nat
        BY <1>1, AtIsFinite, OneIs
      <4> QED
        BY <4>1
    <3> QED
      BY <1>1, <2>1, <3>1, <3>2
  <2>2. CASE asq # <<>>
    <3>1. adminCmd' = Head(asq) /\ asq' = Tail(asq)
      BY <2>2 DEF Fetch, HeadOr
    <3> QED
      BY <1>1, <2>2, <3>1, HeadTailProperties, AtTail
  <2> QED
    BY <2>1, <2>2
<1>3. /\ ioCmd' \in NewIoCmds \cup {None} /\ isq' \in Seq(NewIoCmds)
      /\ isq # <<>> <=> ioCmd' \in NewIoCmds
      /\ \A e : e # None => At(isq, e) = At(isq', e) + One(ioCmd', e)
  <2>1. CASE isq = <<>>
    <3>1. ioCmd' = None /\ isq' = isq /\ None \notin NewIoCmds
      BY <2>1, Commandments DEF Fetch, HeadOr, NewIoCmds
    <3>2. \A e : e # None => At(isq, e) = At(isq, e) + One(None, e)
      <4> SUFFICES ASSUME NEW e, e # None PROVE At(isq, e) = At(isq, e) + One(None, e)
        OBVIOUS
      <4>1. One(None, e) = 0 /\ At(isq, e) \in Nat
        BY <1>1, AtIsFinite, OneIs
      <4> QED
        BY <4>1
    <3> QED
      BY <1>1, <2>1, <3>1, <3>2
  <2>2. CASE isq # <<>>
    <3>1. ioCmd' = Head(isq) /\ isq' = Tail(isq)
      BY <2>2 DEF Fetch, HeadOr
    <3> QED
      BY <1>1, <2>2, <3>1, HeadTailProperties, AtTail
  <2> QED
    BY <2>1, <2>2
<1>4. CmdTypes' /\ Ready'
  BY <1>2, <1>3 DEF CommandInv, CmdTypes, Ready, Fetch, cmdVars
<1>5. InHand'
  <2>1. CASE asq # <<>>
    BY <1>2, <1>3, <2>1 DEF InHand, Fetch
  <2>2. CASE asq = <<>>
    BY <1>2, <1>3, <2>2 DEF InHand, Fetch, HeadOr
  <2> QED
    BY <2>1, <2>2
<1>6. Once(asq', isq', acq', icq', adminCmd', ioCmd', pool', host')
  <2> SUFFICES ASSUME NEW c \in CID
               PROVE  Spread(asq', isq', acq', icq', adminCmd', ioCmd', pool', Fresh(c)) = Waited(host', c)
    BY DEF Once
  <2>1. PICK e : e = Fresh(c)
    OBVIOUS
  <2>2. e # None
    BY <2>1, Commandments
  <2>3. At(asq, e) = At(asq', e) + One(adminCmd', e) /\ At(isq, e) = At(isq', e) + One(ioCmd', e)
    BY <1>2, <1>3, <2>2
  <2>4. One(adminCmd, e) = 0 /\ One(ioCmd, e) = 0
    BY <1>1, <2>2, OneIs
  <2>5. /\ At(asq', e) \in Nat /\ At(isq', e) \in Nat /\ At(acq, e) \in Nat /\ At(icq, e) \in Nat
        /\ One(adminCmd', e) \in Nat /\ One(ioCmd', e) \in Nat /\ In(pool, e) \in Nat
    BY <1>1, <1>2, <1>3, AtIsFinite, OneIs DEF CmdTypes
  <2>6. acq' = acq /\ icq' = icq /\ pool' = pool /\ host' = host
    BY DEF Fetch, cmdVars
  <2>7. Spread(asq', isq', acq', icq', adminCmd', ioCmd', pool', e)
          = Spread(asq, isq, acq, icq, adminCmd, ioCmd, pool, e)
    BY <2>3, <2>4, <2>5, <2>6 DEF Spread
  <2> QED
    BY <2>1, <2>6, <2>7 DEF CommandInv, Once
<1> QED
  BY <1>4, <1>5, <1>6 DEF CommandInv

LEMMA PostAdminKeepsCommands == ASSUME CommandInv, PostAdmin PROVE CommandInv'
<1>1. /\ pc = "post" /\ adminCmd \in AdminCmds /\ ioCmd \in NewIoCmds \cup {None} /\ CmdTypes
      /\ acq \in Seq(AdminCmds) /\ acq' = Append(acq, adminCmd) /\ adminCmd' = None
      /\ UNCHANGED <<asq, isq, icq, ioCmd, pool, host>>
  BY DEF CommandInv, InHand, CmdTypes, PostAdmin, cmdVars
<1>2. CmdTypes' /\ Ready'
  BY <1>1, AppendProperties DEF CommandInv, CmdTypes, Ready, PostAdmin
<1>3. InHand'
  BY <1>1, Commandments DEF InHand, PostAdmin
<1>4. Once(asq', isq', acq', icq', adminCmd', ioCmd', pool', host')
  <2> SUFFICES ASSUME NEW c \in CID
               PROVE  Spread(asq', isq', acq', icq', adminCmd', ioCmd', pool', Fresh(c)) = Waited(host', c)
    BY DEF Once
  <2>1. PICK e : e = Fresh(c)
    OBVIOUS
  <2>2. At(acq', e) = At(acq, e) + One(adminCmd, e)
    BY <1>1, AtAppend
  <2>3. One(adminCmd', e) = 0
    BY <1>1, <2>1, Commandments, OneIs
  <2>4. /\ At(asq, e) \in Nat /\ At(isq, e) \in Nat /\ At(acq, e) \in Nat /\ At(icq, e) \in Nat
        /\ One(adminCmd, e) \in Nat /\ One(ioCmd, e) \in Nat /\ In(pool, e) \in Nat
    BY <1>1, Numbers, OneIs
  <2>5. Spread(asq', isq', acq', icq', adminCmd', ioCmd', pool', e)
          = Spread(asq, isq, acq, icq, adminCmd, ioCmd, pool, e)
    BY <1>1, <2>2, <2>3, <2>4 DEF Spread
  <2> QED
    BY <1>1, <2>1, <2>5 DEF CommandInv, Once
<1> QED
  BY <1>2, <1>3, <1>4 DEF CommandInv

\* The command in hand is not answered, and the host knows.
LEMMA AsyncKeepsCommands == ASSUME CommandInv, AsyncEventReq PROVE CommandInv'
<1>1. /\ pc = "admin" /\ adminCmd \in AdminCmds /\ ioCmd \in NewIoCmds \cup {None} /\ CmdTypes
      /\ adminCmd' = None /\ UNCHANGED <<asq, isq, acq, icq, ioCmd, pool>>
  BY DEF CommandInv, InHand, AsyncEventReq, ringVars
<1>2. PICK a \in AdminCID : adminCmd = Fresh(a)
  BY <1>1 DEF AdminCmds
<1>3. a \in CID /\ adminCmd.cid = a
  BY <1>2 DEF CID, Fresh
<1>4. /\ host' \in [CID -> {"free", "admin", "io", "never", "cheated"}] /\ host'[a] = "never"
      /\ \A c \in CID : c # a => host'[c] = host[c]
  BY <1>1, <1>3 DEF CmdTypes, AsyncEventReq
<1>5. CmdTypes'
  BY <1>1, <1>4 DEF CmdTypes
<1>6. Ready'
  <2>1. host[a] # "free"
    BY <1>2, <1>3, Nowhere
  <2> QED
    BY <1>3, <2>1 DEF CommandInv, Ready, AsyncEventReq
<1>7. InHand'
  BY <1>1, Commandments DEF InHand, AsyncEventReq
<1>8. Once(asq', isq', acq', icq', adminCmd', ioCmd', pool', host')
  <2> SUFFICES ASSUME NEW c \in CID
               PROVE  Spread(asq', isq', acq', icq', adminCmd', ioCmd', pool', Fresh(c)) = Waited(host', c)
    BY DEF Once
  <2>1. PICK e : e = Fresh(c)
    OBVIOUS
  <2>2. One(adminCmd', e) = 0
    BY <1>1, <2>1, Commandments, OneIs
  <2>3. /\ At(asq, e) \in Nat /\ At(isq, e) \in Nat /\ At(acq, e) \in Nat /\ At(icq, e) \in Nat
        /\ One(adminCmd, e) \in Nat /\ One(ioCmd, e) \in Nat /\ In(pool, e) \in Nat
    BY <1>1, Numbers, OneIs
  <2>4. Spread(asq, isq, acq, icq, adminCmd, ioCmd, pool, e) = Waited(host, c)
    BY <2>1 DEF CommandInv, Once
  <2>5. /\ Spread(asq', isq', acq', icq', adminCmd', ioCmd', pool', e) \in Nat
        /\ Spread(asq, isq, acq, icq, adminCmd, ioCmd, pool, e)
             = Spread(asq', isq', acq', icq', adminCmd', ioCmd', pool', e) + One(adminCmd, e)
    BY <1>1, <2>2, <2>3 DEF Spread
  <2>6. CASE c = a
    <3>1. One(adminCmd, e) = 1 /\ Waited(host', c) = 0
      BY <1>2, <1>4, <2>1, <2>6, OneIs, WaitedIs
    <3>2. Waited(host, c) \in {0, 1}
      BY WaitedIs
    <3>3. Spread(asq', isq', acq', icq', adminCmd', ioCmd', pool', e) = 0
      BY <2>4, <2>5, <3>1, <3>2
    <3> QED
      BY <2>1, <3>1, <3>3
  <2>7. CASE c # a
    <3>1. One(adminCmd, e) = 0
      BY <1>2, <2>1, <2>7, Commandments, OneIs
    <3>2. Waited(host', c) = Waited(host, c)
      BY <1>4, <2>7 DEF Waited
    <3>3. Spread(asq, isq, acq, icq, adminCmd, ioCmd, pool, e)
            = Spread(asq', isq', acq', icq', adminCmd', ioCmd', pool', e)
      BY <2>5, <3>1
    <3> QED
      BY <2>1, <2>4, <3>2, <3>3, Zenon
  <2> QED
    BY <2>6, <2>7
<1> QED
  BY <1>5, <1>6, <1>7, <1>8 DEF CommandInv

LEMMA FlushKeepsCommands == ASSUME CommandInv, Flush PROVE CommandInv'
<1>1. /\ pc = "io" /\ adminCmd = None /\ ioCmd \in NewIoCmds /\ CmdTypes
      /\ ioCmd' = None /\ pc' = "turn" /\ UNCHANGED <<asq, isq, acq, icq, adminCmd, pool>>
  BY DEF CommandInv, InHand, Flush, ringVars
<1>2. PICK a \in IoCID : ioCmd = Fresh(a)
  BY <1>1 DEF NewIoCmds
<1>3. a \in CID /\ ioCmd.cid = a
  BY <1>2 DEF CID, Fresh
<1>4. /\ host' \in [CID -> {"free", "admin", "io", "never", "cheated"}] /\ host'[a] = "never"
      /\ \A c \in CID : c # a => host'[c] = host[c]
  BY <1>1, <1>3 DEF CmdTypes, Flush
<1>5. CmdTypes'
  BY <1>1, <1>4 DEF CmdTypes
<1>6. Ready'
  <2>1. host[a] # "free"
    BY <1>2, <1>3, Nowhere
  <2> QED
    BY <1>3, <2>1 DEF CommandInv, Ready, Flush
<1>7. InHand'
  BY <1>1 DEF InHand
<1>8. Once(asq', isq', acq', icq', adminCmd', ioCmd', pool', host')
  <2> SUFFICES ASSUME NEW c \in CID
               PROVE  Spread(asq', isq', acq', icq', adminCmd', ioCmd', pool', Fresh(c)) = Waited(host', c)
    BY DEF Once
  <2>1. PICK e : e = Fresh(c)
    OBVIOUS
  <2>2. One(ioCmd', e) = 0
    BY <1>1, <2>1, Commandments, OneIs
  <2>3. /\ At(asq, e) \in Nat /\ At(isq, e) \in Nat /\ At(acq, e) \in Nat /\ At(icq, e) \in Nat
        /\ One(adminCmd, e) \in Nat /\ One(ioCmd, e) \in Nat /\ In(pool, e) \in Nat
    BY <1>1, Numbers, OneIs
  <2>4. Spread(asq, isq, acq, icq, adminCmd, ioCmd, pool, e) = Waited(host, c)
    BY <2>1 DEF CommandInv, Once
  <2>5. /\ Spread(asq', isq', acq', icq', adminCmd', ioCmd', pool', e) \in Nat
        /\ Spread(asq, isq, acq, icq, adminCmd, ioCmd, pool, e)
             = Spread(asq', isq', acq', icq', adminCmd', ioCmd', pool', e) + One(ioCmd, e)
    BY <1>1, <2>2, <2>3 DEF Spread
  <2>6. CASE c = a
    <3>1. One(ioCmd, e) = 1 /\ Waited(host', c) = 0
      BY <1>2, <1>4, <2>1, <2>6, OneIs, WaitedIs
    <3>2. Waited(host, c) \in {0, 1}
      BY WaitedIs
    <3>3. Spread(asq', isq', acq', icq', adminCmd', ioCmd', pool', e) = 0
      BY <2>4, <2>5, <3>1, <3>2
    <3> QED
      BY <2>1, <3>1, <3>3
  <2>7. CASE c # a
    <3>1. One(ioCmd, e) = 0
      BY <1>2, <2>1, <2>7, Commandments, OneIs
    <3>2. Waited(host', c) = Waited(host, c)
      BY <1>4, <2>7 DEF Waited
    <3>3. Spread(asq, isq, acq, icq, adminCmd, ioCmd, pool, e)
            = Spread(asq', isq', acq', icq', adminCmd', ioCmd', pool', e)
      BY <2>5, <3>1
    <3> QED
      BY <2>1, <2>4, <3>2, <3>3, Zenon
  <2> QED
    BY <2>6, <2>7
<1> QED
  BY <1>5, <1>6, <1>7, <1>8 DEF CommandInv

\* The command joins the pool: it was not there, being in hand.
LEMMA JoinKeepsCommands == ASSUME CommandInv, JoinPool PROVE CommandInv'
<1>1. /\ pc = "io" /\ adminCmd = None /\ ioCmd \in NewIoCmds /\ CmdTypes
      /\ ioCmd' = None /\ pc' = "turn" /\ pool' = pool \cup {ioCmd}
      /\ UNCHANGED <<asq, isq, acq, icq, adminCmd, host>>
  BY DEF CommandInv, InHand, JoinPool, ringVars
<1>2. PICK a \in IoCID : ioCmd = Fresh(a)
  BY <1>1 DEF NewIoCmds
<1>3. a \in CID /\ ioCmd \in IoCmds
  BY <1>1, <1>2, Commandments DEF CID
<1>4. CmdTypes' /\ Ready' /\ InHand'
  BY <1>1, <1>3 DEF CommandInv, CmdTypes, Ready, InHand, JoinPool
<1>5. Once(asq', isq', acq', icq', adminCmd', ioCmd', pool', host')
  <2> SUFFICES ASSUME NEW c \in CID
               PROVE  Spread(asq', isq', acq', icq', adminCmd', ioCmd', pool', Fresh(c)) = Waited(host', c)
    BY DEF Once
  <2>1. PICK e : e = Fresh(c)
    OBVIOUS
  <2>2. One(ioCmd', e) = 0
    BY <1>1, <2>1, Commandments, OneIs
  <2>3. /\ At(asq, e) \in Nat /\ At(isq, e) \in Nat /\ At(acq, e) \in Nat /\ At(icq, e) \in Nat
        /\ One(adminCmd, e) \in Nat /\ One(ioCmd, e) \in Nat /\ In(pool, e) \in Nat
    BY <1>1, Numbers, OneIs
  <2>4. Spread(asq, isq, acq, icq, adminCmd, ioCmd, pool, e) = Waited(host, c)
    BY <2>1 DEF CommandInv, Once
  <2>5. In(pool', e) = In(pool, e) + One(ioCmd, e)
    <3>1. CASE ioCmd = e
      <4>1. One(ioCmd, e) = 1 /\ Waited(host, c) \in {0, 1}
        BY <3>1, OneIs, WaitedIs
      <4>2. In(pool, e) = 0
        <5>1. At(asq, e) + At(isq, e) + At(acq, e) + At(icq, e) + One(adminCmd, e) + 1 + In(pool, e)
                = Waited(host, c)
          BY <2>4, <4>1, Zenon DEF Spread
        <5>2. PICK a1, a2, a3, a4, x, z, w :
                /\ a1 = At(asq, e) /\ a2 = At(isq, e) /\ a3 = At(acq, e) /\ a4 = At(icq, e)
                /\ x = One(adminCmd, e) /\ z = In(pool, e) /\ w = Waited(host, c)
          OBVIOUS
        <5>3. /\ a1 \in Nat /\ a2 \in Nat /\ a3 \in Nat /\ a4 \in Nat /\ x \in Nat /\ z \in Nat
              /\ w \in {0, 1}
          BY <2>3, <4>1, <5>2, Zenon
        <5>4. a1 + a2 + a3 + a4 + x + 1 + z = w
          BY <5>1, <5>2, Zenon
        <5>5. z = 0
          BY <5>3, <5>4
        <5> QED
          BY <5>2, <5>5, Zenon
      <4>3. In(pool', e) = 1
        BY <1>1, <3>1, OneIs
      <4> QED
        BY <4>1, <4>2, <4>3
    <3>2. CASE ioCmd # e
      <4>1. One(ioCmd, e) = 0 /\ (e \in pool' <=> e \in pool)
        BY <1>1, <3>2, OneIs
      <4>2. In(pool', e) = In(pool, e)
        BY <4>1, OneIs
      <4> QED
        BY <2>3, <4>1, <4>2
    <3> QED
      BY <3>1, <3>2
  <2>6. Spread(asq', isq', acq', icq', adminCmd', ioCmd', pool', e)
          = Spread(asq, isq, acq, icq, adminCmd, ioCmd, pool, e)
    BY <1>1, <2>2, <2>3, <2>5 DEF Spread
  <2> QED
    BY <1>1, <2>1, <2>6 DEF CommandInv, Once
<1> QED
  BY <1>4, <1>5 DEF CommandInv

LEMMA TakeKeepsCommands ==
  ASSUME CommandInv, NEW t \in Commands, TakeFromPool(t) PROVE CommandInv'
<1>1. /\ pc = "low" /\ adminCmd = None /\ ioCmd = None /\ CmdTypes
      /\ t \in pool /\ t \in IoCmds
      /\ ioCmd' = t /\ pc' = "postLow" /\ pool' = pool \ {t}
      /\ UNCHANGED <<asq, isq, acq, icq, adminCmd, host>>
  BY DEF CommandInv, CmdTypes, InHand, TakeFromPool, ringVars
<1>2. CmdTypes' /\ Ready' /\ InHand'
  BY <1>1 DEF CommandInv, CmdTypes, Ready, InHand, TakeFromPool
<1>3. Once(asq', isq', acq', icq', adminCmd', ioCmd', pool', host')
  <2> SUFFICES ASSUME NEW c \in CID
               PROVE  Spread(asq', isq', acq', icq', adminCmd', ioCmd', pool', Fresh(c)) = Waited(host', c)
    BY DEF Once
  <2>1. PICK e : e = Fresh(c)
    OBVIOUS
  <2>2. One(ioCmd, e) = 0
    BY <1>1, <2>1, Commandments, OneIs
  <2>3. /\ At(asq, e) \in Nat /\ At(isq, e) \in Nat /\ At(acq, e) \in Nat /\ At(icq, e) \in Nat
        /\ One(adminCmd, e) \in Nat /\ One(t, e) \in Nat /\ In(pool', e) \in Nat
    BY <1>1, Numbers, OneIs
  <2>4. In(pool, e) = In(pool', e) + One(t, e)
    <3>1. CASE t = e
      BY <1>1, <3>1, OneIs
    <3>2. CASE t # e
      <4>1. One(t, e) = 0 /\ (e \in pool' <=> e \in pool)
        BY <1>1, <3>2, OneIs
      <4>2. In(pool', e) = In(pool, e)
        BY <4>1, OneIs
      <4> QED
        BY <2>3, <4>1, <4>2
    <3> QED
      BY <3>1, <3>2
  <2>5. Spread(asq', isq', acq', icq', adminCmd', ioCmd', pool', e)
          = Spread(asq, isq, acq, icq, adminCmd, ioCmd, pool, e)
    BY <1>1, <2>2, <2>3, <2>4 DEF Spread
  <2> QED
    BY <1>1, <2>1, <2>5 DEF CommandInv, Once
<1> QED
  BY <1>2, <1>3 DEF CommandInv

LEMMA PostIoKeepsCommands == ASSUME CommandInv, PostIo PROVE CommandInv'
<1>1. /\ pc \in {"postIo", "postLow"} /\ adminCmd = None /\ ioCmd \in IoCmds /\ CmdTypes
      /\ icq \in Seq(IoCmds) /\ icq' = Append(icq, ioCmd) /\ ioCmd' = None
      /\ pc' \in {"turn", "low"} /\ UNCHANGED <<asq, isq, acq, adminCmd, pool, host>>
  BY Commandments DEF CommandInv, InHand, CmdTypes, PostIo, cmdVars
<1>2. CmdTypes' /\ Ready' /\ InHand'
  <2>1. CmdTypes'
    BY <1>1, AppendProperties DEF CmdTypes
  <2>2. Ready'
    BY <1>1 DEF CommandInv, Ready, PostIo
  <2>3. InHand'
    BY <1>1 DEF InHand
  <2> QED
    BY <2>1, <2>2, <2>3
<1>3. Once(asq', isq', acq', icq', adminCmd', ioCmd', pool', host')
  <2> SUFFICES ASSUME NEW c \in CID
               PROVE  Spread(asq', isq', acq', icq', adminCmd', ioCmd', pool', Fresh(c)) = Waited(host', c)
    BY DEF Once
  <2>1. PICK e : e = Fresh(c)
    OBVIOUS
  <2>2. At(icq', e) = At(icq, e) + One(ioCmd, e)
    BY <1>1, AtAppend
  <2>3. One(ioCmd', e) = 0
    BY <1>1, <2>1, Commandments, OneIs
  <2>4. /\ At(asq, e) \in Nat /\ At(isq, e) \in Nat /\ At(acq, e) \in Nat /\ At(icq, e) \in Nat
        /\ One(adminCmd, e) \in Nat /\ One(ioCmd, e) \in Nat /\ In(pool, e) \in Nat
    BY <1>1, Numbers, OneIs
  <2>5. Spread(asq', isq', acq', icq', adminCmd', ioCmd', pool', e)
          = Spread(asq, isq, acq, icq, adminCmd, ioCmd, pool, e)
    BY <1>1, <2>2, <2>3, <2>4 DEF Spread
  <2> QED
    BY <1>1, <2>1, <2>5 DEF CommandInv, Once
<1> QED
  BY <1>2, <1>3 DEF CommandInv

\* With the rings empty, nothing in hand, and only commands in the pool that
\* are not the host's.
LEMMA OnceEmpty ==
  ASSUME NEW S, NEW h, \A c \in CID : h[c] = "free", \A c \in CID : Fresh(c) \notin S
  PROVE  Once(<<>>, <<>>, <<>>, <<>>, None, None, S, h)
<1> SUFFICES ASSUME NEW c \in CID
             PROVE  Spread(<<>>, <<>>, <<>>, <<>>, None, None, S, Fresh(c)) = Waited(h, c)
  BY DEF Once
<1>1. Waited(h, c) = 0
  BY WaitedIs
<1>2. At(<<>>, Fresh(c)) = 0 /\ One(None, Fresh(c)) = 0 /\ In(S, Fresh(c)) = 0
  BY AtEmpty, Commandments, OneIs
<1>3. 0 + 0 + 0 + 0 + 0 + 0 + 0 = 0
  OBVIOUS
<1> QED
  BY <1>1, <1>2, <1>3, Zenon DEF Spread

LEMMA EmptyRing == <<>> \in Seq(AdminCmds) /\ <<>> \in Seq(NewIoCmds) /\ <<>> \in Seq(IoCmds)
OBVIOUS

\* RDY is cleared: the rings are emptied, and the host forgets.
LEMMA ResetKeepsCommands ==
  ASSUME CommandInv, ControllerReset \/ Restart PROVE CommandInv'
<1>1. /\ pc = "turn" /\ adminCmd = None /\ ioCmd = None /\ CmdTypes
      /\ asq' = <<>> /\ acq' = <<>> /\ isq' = <<>> /\ icq' = <<>>
      /\ pool' = {Stale(e.cid) : e \in pool} /\ host' = [c \in CID |-> "free"]
      /\ UNCHANGED <<adminCmd, ioCmd>> /\ pc' \in {"turn", "low"}
  BY DEF CommandInv, InHand, ControllerReset, Restart, ResetRings, ForgetCommands, EndOfTurn
<1>2. CmdTypes'
  <2>1. \A e \in pool : Stale(e.cid) \in IoCmds
    <3> SUFFICES ASSUME NEW e \in pool PROVE Stale(e.cid) \in IoCmds
      OBVIOUS
    <3>1. PICK c \in IoCID : e = Fresh(c) \/ e = Stale(c)
      BY <1>1 DEF CmdTypes, IoCmds, NewIoCmds
    <3>2. e.cid = c
      BY <3>1 DEF Fresh, Stale
    <3> QED
      BY <3>2 DEF IoCmds
  <2> QED
    BY <1>1, <2>1, EmptyRing DEF CmdTypes
<1>3. csts' \in [rdy : {0, 1}, shst : {0, 2}] /\ csts'.rdy = 0
  BY DEF ControllerReset, Restart, CommandInv, Ready
<1>4. Ready' /\ InHand'
  BY <1>1, <1>3 DEF Ready, InHand
<1>5. \A c \in CID : host'[c] = "free" /\ Fresh(c) \notin pool'
  BY <1>1, Commandments
<1>6. Once(asq', isq', acq', icq', adminCmd', ioCmd', pool', host')
  BY <1>1, <1>5, OnceEmpty
<1> QED
  BY <1>2, <1>4, <1>6 DEF CommandInv

\* RDY is set: the rings are emptied, and no command is on them.
LEMMA StartKeepsCommands == ASSUME CommandInv, StartRunning PROVE CommandInv'
<1>1. /\ pc = "turn" /\ adminCmd = None /\ ioCmd = None /\ CmdTypes
      /\ asq' = <<>> /\ acq' = <<>> /\ isq' = <<>> /\ icq' = <<>>
      /\ UNCHANGED <<adminCmd, ioCmd, pool, host>> /\ pc' \in {"turn", "low"} /\ state' = "RUNNING"
  BY DEF CommandInv, InHand, StartRunning, ResetRings, EndOfTurn, cmdVars
<1>2. \A c \in CID : host[c] = "free"
  BY DEF CommandInv, Ready, StartRunning
<1>3. CmdTypes' /\ Ready' /\ InHand'
  <2>1. csts' \in [rdy : {0, 1}, shst : {0, 2}]
    BY DEF StartRunning, CommandInv, Ready
  <2> QED
    BY <1>1, <1>2, <2>1, EmptyRing DEF CmdTypes, Ready, InHand
<1>4. \A c \in CID : host'[c] = "free" /\ Fresh(c) \notin pool'
  BY <1>1, <1>2, Nowhere
<1>5. Once(asq', isq', acq', icq', adminCmd', ioCmd', pool', host')
  BY <1>1, <1>4, OnceEmpty
<1> QED
  BY <1>3, <1>5 DEF CommandInv

-----------------------------------------------------------------------------
\* The host and the PL.

\* A command the host has not sent is sent.
LEMMA HostAdminKeepsCommands ==
  ASSUME CommandInv, NEW a \in AdminCID, HostAdmin(a) PROVE CommandInv'
<1>1. /\ CmdTypes /\ asq \in Seq(AdminCmds) /\ asq' = Append(asq, Fresh(a))
      /\ a \in CID /\ host[a] = "free" /\ csts.rdy = 1 /\ Fresh(a) \in AdminCmds
      /\ UNCHANGED <<state, csts, pc, adminCmd, ioCmd, acq, isq, icq, pool>>
  BY DEF CommandInv, CmdTypes, HostAdmin, MaySend, HostUnchanged, AdminCmds, CID
<1>2. /\ host' \in [CID -> {"free", "admin", "io", "never", "cheated"}] /\ host'[a] = "admin"
      /\ \A c \in CID : c # a => host'[c] = host[c]
  BY <1>1 DEF CmdTypes, HostAdmin
<1>3. asq' \in Seq(AdminCmds)
  BY <1>1, AppendProperties
<1>4. CmdTypes' /\ Ready' /\ InHand'
  BY <1>1, <1>2, <1>3 DEF CommandInv, CmdTypes, Ready, InHand
<1>5. Once(asq', isq', acq', icq', adminCmd', ioCmd', pool', host')
  <2> SUFFICES ASSUME NEW c \in CID
               PROVE  Spread(asq', isq', acq', icq', adminCmd', ioCmd', pool', Fresh(c)) = Waited(host', c)
    BY DEF Once
  <2>1. PICK e : e = Fresh(c)
    OBVIOUS
  <2>2. At(asq', e) = At(asq, e) + One(Fresh(a), e)
    BY <1>1, AtAppend
  <2>3. /\ At(asq, e) \in Nat /\ At(isq, e) \in Nat /\ At(acq, e) \in Nat /\ At(icq, e) \in Nat
        /\ One(adminCmd, e) \in Nat /\ One(ioCmd, e) \in Nat /\ In(pool, e) \in Nat
        /\ One(Fresh(a), e) \in Nat
    BY <1>1, Numbers, OneIs
  <2>4. Spread(asq', isq', acq', icq', adminCmd', ioCmd', pool', e)
          = Spread(asq, isq, acq, icq, adminCmd, ioCmd, pool, e) + One(Fresh(a), e)
    <3>1. PICK n, b, m, o, x, y, z, k :
            /\ n = At(asq, e) /\ b = At(isq, e) /\ m = At(acq, e) /\ o = At(icq, e)
            /\ x = One(adminCmd, e) /\ y = One(ioCmd, e) /\ z = In(pool, e) /\ k = One(Fresh(a), e)
      OBVIOUS
    <3>2. /\ n \in Nat /\ b \in Nat /\ m \in Nat /\ o \in Nat
          /\ x \in Nat /\ y \in Nat /\ z \in Nat /\ k \in Nat
      BY <2>3, <3>1, Zenon
    <3>3. (n + k) + b + m + o + x + y + z = (n + b + m + o + x + y + z) + k
      BY <3>2, Sums
    <3> QED
      BY <1>1, <2>2, <3>1, <3>3, Zenon DEF Spread
  <2>5. Spread(asq, isq, acq, icq, adminCmd, ioCmd, pool, e) = Waited(host, c)
    BY <2>1 DEF CommandInv, Once
  <2>6. CASE c = a
    <3>1. One(Fresh(a), e) = 1 /\ Waited(host, c) = 0 /\ Waited(host', c) = 1
      BY <1>1, <1>2, <2>1, <2>6, OneIs, WaitedIs
    <3>2. 0 + 1 = 1
      OBVIOUS
    <3> QED
      BY <2>1, <2>4, <2>5, <3>1, <3>2, Zenon
  <2>7. CASE c # a
    <3>1. One(Fresh(a), e) = 0 /\ Waited(host, c) \in {0, 1}
      BY <2>1, <2>7, Commandments, OneIs, WaitedIs
    <3>2. Waited(host', c) = Waited(host, c)
      BY <1>2, <2>7 DEF Waited
    <3>3. Waited(host, c) = Waited(host, c) + 0
      BY <3>1
    <3> QED
      BY <2>1, <2>4, <2>5, <3>1, <3>2, <3>3, Zenon
  <2> QED
    BY <2>6, <2>7
<1> QED
  BY <1>4, <1>5 DEF CommandInv

LEMMA HostIoKeepsCommands ==
  ASSUME CommandInv, NEW a \in IoCID, HostIo(a) PROVE CommandInv'
<1>1. /\ CmdTypes /\ isq \in Seq(NewIoCmds) /\ isq' = Append(isq, Fresh(a))
      /\ a \in CID /\ host[a] = "free" /\ csts.rdy = 1 /\ Fresh(a) \in NewIoCmds
      /\ UNCHANGED <<state, csts, pc, adminCmd, ioCmd, asq, acq, icq, pool>>
  BY DEF CommandInv, CmdTypes, HostIo, MaySend, HostUnchanged, NewIoCmds, CID
<1>2. /\ host' \in [CID -> {"free", "admin", "io", "never", "cheated"}] /\ host'[a] = "io"
      /\ \A c \in CID : c # a => host'[c] = host[c]
  BY <1>1 DEF CmdTypes, HostIo
<1>3. isq' \in Seq(NewIoCmds)
  BY <1>1, AppendProperties
<1>4. CmdTypes' /\ Ready' /\ InHand'
  BY <1>1, <1>2, <1>3 DEF CommandInv, CmdTypes, Ready, InHand
<1>5. Once(asq', isq', acq', icq', adminCmd', ioCmd', pool', host')
  <2> SUFFICES ASSUME NEW c \in CID
               PROVE  Spread(asq', isq', acq', icq', adminCmd', ioCmd', pool', Fresh(c)) = Waited(host', c)
    BY DEF Once
  <2>1. PICK e : e = Fresh(c)
    OBVIOUS
  <2>2. At(isq', e) = At(isq, e) + One(Fresh(a), e)
    BY <1>1, AtAppend
  <2>3. /\ At(asq, e) \in Nat /\ At(isq, e) \in Nat /\ At(acq, e) \in Nat /\ At(icq, e) \in Nat
        /\ One(adminCmd, e) \in Nat /\ One(ioCmd, e) \in Nat /\ In(pool, e) \in Nat
        /\ One(Fresh(a), e) \in Nat
    BY <1>1, Numbers, OneIs
  <2>4. Spread(asq', isq', acq', icq', adminCmd', ioCmd', pool', e)
          = Spread(asq, isq, acq, icq, adminCmd, ioCmd, pool, e) + One(Fresh(a), e)
    <3>1. PICK n, b, m, o, x, y, z, k :
            /\ n = At(asq, e) /\ b = At(isq, e) /\ m = At(acq, e) /\ o = At(icq, e)
            /\ x = One(adminCmd, e) /\ y = One(ioCmd, e) /\ z = In(pool, e) /\ k = One(Fresh(a), e)
      OBVIOUS
    <3>2. /\ n \in Nat /\ b \in Nat /\ m \in Nat /\ o \in Nat
          /\ x \in Nat /\ y \in Nat /\ z \in Nat /\ k \in Nat
      BY <2>3, <3>1, Zenon
    <3>3. n + (b + k) + m + o + x + y + z = (n + b + m + o + x + y + z) + k
      BY <3>2, Sums
    <3> QED
      BY <1>1, <2>2, <3>1, <3>3, Zenon DEF Spread
  <2>5. Spread(asq, isq, acq, icq, adminCmd, ioCmd, pool, e) = Waited(host, c)
    BY <2>1 DEF CommandInv, Once
  <2>6. CASE c = a
    <3>1. One(Fresh(a), e) = 1 /\ Waited(host, c) = 0 /\ Waited(host', c) = 1
      BY <1>1, <1>2, <2>1, <2>6, OneIs, WaitedIs
    <3>2. 0 + 1 = 1
      OBVIOUS
    <3> QED
      BY <2>1, <2>4, <2>5, <3>1, <3>2, Zenon
  <2>7. CASE c # a
    <3>1. One(Fresh(a), e) = 0 /\ Waited(host, c) \in {0, 1}
      BY <2>1, <2>7, Commandments, OneIs, WaitedIs
    <3>2. Waited(host', c) = Waited(host, c)
      BY <1>2, <2>7 DEF Waited
    <3>3. Waited(host, c) = Waited(host, c) + 0
      BY <3>1
    <3> QED
      BY <2>1, <2>4, <2>5, <3>1, <3>2, <3>3, Zenon
  <2> QED
    BY <2>6, <2>7
<1> QED
  BY <1>4, <1>5 DEF CommandInv

\* A completion reaches the host.
LEMMA PlAdminKeepsCommands == ASSUME CommandInv, PlAdmin PROVE CommandInv'
<1>1. /\ CmdTypes /\ acq \in Seq(AdminCmds) /\ acq # <<>> /\ acq' = Tail(acq)
      /\ Head(acq) \in AdminCmds /\ acq' \in Seq(AdminCmds)
      /\ UNCHANGED <<state, csts, pc, adminCmd, ioCmd, asq, isq, icq, pool>>
  BY HeadTailProperties DEF CommandInv, CmdTypes, PlAdmin, HostUnchanged
<1>2. PICK a \in AdminCID : Head(acq) = Fresh(a)
  BY <1>1 DEF AdminCmds
<1>3. a \in CID /\ Head(acq).cid = a
  BY <1>2 DEF CID, Fresh
<1>4. /\ host' \in [CID -> {"free", "admin", "io", "never", "cheated"}] /\ host'[a] = "free"
      /\ \A c \in CID : c # a => host'[c] = host[c]
  BY <1>1, <1>3 DEF CmdTypes, PlAdmin
<1>5. CmdTypes' /\ Ready' /\ InHand'
  <2>1. Ready'
    BY <1>1, <1>4 DEF CommandInv, Ready
  <2> QED
    BY <1>1, <1>4, <2>1 DEF CommandInv, CmdTypes, InHand
<1>6. Once(asq', isq', acq', icq', adminCmd', ioCmd', pool', host')
  <2> SUFFICES ASSUME NEW c \in CID
               PROVE  Spread(asq', isq', acq', icq', adminCmd', ioCmd', pool', Fresh(c)) = Waited(host', c)
    BY DEF Once
  <2>1. PICK e : e = Fresh(c)
    OBVIOUS
  <2>2. At(acq, e) = At(acq', e) + One(Fresh(a), e)
    BY <1>1, <1>2, AtTail
  <2>3. /\ At(asq, e) \in Nat /\ At(isq, e) \in Nat /\ At(acq', e) \in Nat /\ At(icq, e) \in Nat
        /\ One(adminCmd, e) \in Nat /\ One(ioCmd, e) \in Nat /\ In(pool, e) \in Nat
        /\ One(Fresh(a), e) \in Nat
    BY <1>1, Numbers, AtIsFinite, OneIs
  <2>4. /\ Spread(asq', isq', acq', icq', adminCmd', ioCmd', pool', e) \in Nat
        /\ Spread(asq, isq, acq, icq, adminCmd, ioCmd, pool, e)
             = Spread(asq', isq', acq', icq', adminCmd', ioCmd', pool', e) + One(Fresh(a), e)
    <3>1. PICK n, b, m, o, x, y, z, k :
            /\ n = At(asq, e) /\ b = At(isq, e) /\ m = At(acq', e) /\ o = At(icq, e)
            /\ x = One(adminCmd, e) /\ y = One(ioCmd, e) /\ z = In(pool, e) /\ k = One(Fresh(a), e)
      OBVIOUS
    <3>2. /\ n \in Nat /\ b \in Nat /\ m \in Nat /\ o \in Nat
          /\ x \in Nat /\ y \in Nat /\ z \in Nat /\ k \in Nat
      BY <2>3, <3>1, Zenon
    <3>3. /\ n + b + m + o + x + y + z \in Nat
          /\ n + b + (m + k) + o + x + y + z = (n + b + m + o + x + y + z) + k
      BY <3>2, Sums
    <3>4. Spread(asq', isq', acq', icq', adminCmd', ioCmd', pool', e) = n + b + m + o + x + y + z
      BY <1>1, <3>1, Zenon DEF Spread
    <3>5. Spread(asq, isq, acq, icq, adminCmd, ioCmd, pool, e) = n + b + (m + k) + o + x + y + z
      BY <1>1, <2>2, <3>1, Zenon DEF Spread
    <3> QED
      BY <3>1, <3>3, <3>4, <3>5, Zenon
  <2>5. Spread(asq, isq, acq, icq, adminCmd, ioCmd, pool, e) = Waited(host, c)
    BY <2>1 DEF CommandInv, Once
  <2>6. CASE c = a
    <3>1. One(Fresh(a), e) = 1 /\ Waited(host', c) = 0 /\ Waited(host, c) \in {0, 1}
      BY <1>4, <2>1, <2>6, OneIs, WaitedIs
    <3>2. Spread(asq', isq', acq', icq', adminCmd', ioCmd', pool', e) = 0
      BY <2>4, <2>5, <3>1
    <3> QED
      BY <2>1, <3>1, <3>2, Zenon
  <2>7. CASE c # a
    <3>1. One(Fresh(a), e) = 0
      BY <2>1, <2>7, Commandments, OneIs
    <3>2. Waited(host', c) = Waited(host, c)
      BY <1>4, <2>7 DEF Waited
    <3>3. Spread(asq, isq, acq, icq, adminCmd, ioCmd, pool, e)
            = Spread(asq', isq', acq', icq', adminCmd', ioCmd', pool', e)
      BY <2>4, <3>1
    <3> QED
      BY <2>1, <2>5, <3>2, <3>3, Zenon
  <2> QED
    BY <2>6, <2>7
<1> QED
  BY <1>5, <1>6 DEF CommandInv

\* A completion of a command of before the last reset moves no command the host
\* waits for, whatever the host takes it for.
LEMMA PlIoKeepsCommands == ASSUME CommandInv, PlIo PROVE CommandInv'
<1>1. PICK t : t = Head(icq)
  OBVIOUS
<1>2. /\ CmdTypes /\ icq \in Seq(IoCmds) /\ icq # <<>> /\ icq' = Tail(icq)
      /\ t \in IoCmds /\ icq' \in Seq(IoCmds)
      /\ UNCHANGED <<state, csts, pc, adminCmd, ioCmd, asq, isq, acq, pool>>
  BY <1>1, HeadTailProperties DEF CommandInv, CmdTypes, PlIo, HostUnchanged
<1>3. PICK a \in IoCID : t = Fresh(a) \/ t = Stale(a)
  BY <1>2 DEF IoCmds, NewIoCmds
<1>4. a \in CID /\ t.cid = a /\ (t.fresh <=> t = Fresh(a))
  BY <1>3 DEF CID, Fresh, Stale
<1>5. host' = [host EXCEPT ![a] = Received(t)]
  BY <1>1, <1>4 DEF PlIo
<1>6. /\ t = Fresh(a) => Received(t) = "free"
      /\ t # Fresh(a) => Received(t) = IF host[a] = "io" THEN "cheated" ELSE host[a]
  BY <1>4 DEF Received
<1>7. /\ host' \in [CID -> {"free", "admin", "io", "never", "cheated"}] /\ host'[a] = Received(t)
      /\ \A c \in CID : c # a => host'[c] = host[c]
  BY <1>2, <1>4, <1>5, <1>6 DEF CmdTypes
<1>8. CmdTypes' /\ Ready' /\ InHand'
  <2>1. Ready'
    BY <1>2, <1>4, <1>6, <1>7 DEF CommandInv, Ready
  <2> QED
    BY <1>2, <1>7, <2>1 DEF CommandInv, CmdTypes, InHand
<1>9. Once(asq', isq', acq', icq', adminCmd', ioCmd', pool', host')
  <2> SUFFICES ASSUME NEW c \in CID
               PROVE  Spread(asq', isq', acq', icq', adminCmd', ioCmd', pool', Fresh(c)) = Waited(host', c)
    BY DEF Once
  <2>1. PICK e : e = Fresh(c)
    OBVIOUS
  <2>2. At(icq, e) = At(icq', e) + One(t, e)
    BY <1>1, <1>2, AtTail
  <2>3. /\ At(asq, e) \in Nat /\ At(isq, e) \in Nat /\ At(acq, e) \in Nat /\ At(icq', e) \in Nat
        /\ One(adminCmd, e) \in Nat /\ One(ioCmd, e) \in Nat /\ In(pool, e) \in Nat
        /\ One(t, e) \in Nat
    BY <1>2, Numbers, AtIsFinite, OneIs
  <2>4. /\ Spread(asq', isq', acq', icq', adminCmd', ioCmd', pool', e) \in Nat
        /\ Spread(asq, isq, acq, icq, adminCmd, ioCmd, pool, e)
             = Spread(asq', isq', acq', icq', adminCmd', ioCmd', pool', e) + One(t, e)
    <3>1. PICK n, b, m, o, x, y, z, k :
            /\ n = At(asq, e) /\ b = At(isq, e) /\ m = At(acq, e) /\ o = At(icq', e)
            /\ x = One(adminCmd, e) /\ y = One(ioCmd, e) /\ z = In(pool, e) /\ k = One(t, e)
      OBVIOUS
    <3>2. /\ n \in Nat /\ b \in Nat /\ m \in Nat /\ o \in Nat
          /\ x \in Nat /\ y \in Nat /\ z \in Nat /\ k \in Nat
      BY <2>3, <3>1, Zenon
    <3>3. /\ n + b + m + o + x + y + z \in Nat
          /\ n + b + m + (o + k) + x + y + z = (n + b + m + o + x + y + z) + k
      BY <3>2, Sums
    <3>4. Spread(asq', isq', acq', icq', adminCmd', ioCmd', pool', e) = n + b + m + o + x + y + z
      BY <1>2, <3>1, Zenon DEF Spread
    <3>5. Spread(asq, isq, acq, icq, adminCmd, ioCmd, pool, e) = n + b + m + (o + k) + x + y + z
      BY <1>2, <2>2, <3>1, Zenon DEF Spread
    <3> QED
      BY <3>1, <3>3, <3>4, <3>5, Zenon
  <2>5. Spread(asq, isq, acq, icq, adminCmd, ioCmd, pool, e) = Waited(host, c)
    BY <2>1 DEF CommandInv, Once
  <2>6. CASE t = e
    <3>1. t = Fresh(a) /\ c = a
      BY <1>3, <2>1, <2>6, Commandments
    <3>2. One(t, e) = 1 /\ Waited(host', c) = 0 /\ Waited(host, c) \in {0, 1}
      BY <1>6, <1>7, <2>6, <3>1, OneIs, WaitedIs
    <3>3. Spread(asq', isq', acq', icq', adminCmd', ioCmd', pool', e) = 0
      BY <2>4, <2>5, <3>2
    <3> QED
      BY <2>1, <3>2, <3>3, Zenon
  <2>7. CASE t # e
    <3>1. One(t, e) = 0
      BY <2>7, OneIs
    <3>2. Waited(host', c) = Waited(host, c)
      <4>1. CASE c = a
        <5>1. host'[c] = IF host[c] = "io" THEN "cheated" ELSE host[c]
          BY <1>6, <1>7, <2>1, <2>7, <4>1
        <5>2. host'[c] \in {"admin", "io", "cheated"} <=> host[c] \in {"admin", "io", "cheated"}
          BY <5>1
        <5> QED
          BY <5>2, Zenon DEF Waited
      <4>2. CASE c # a
        BY <1>7, <4>2 DEF Waited
      <4> QED
        BY <4>1, <4>2
    <3>3. Spread(asq, isq, acq, icq, adminCmd, ioCmd, pool, e)
            = Spread(asq', isq', acq', icq', adminCmd', ioCmd', pool', e)
      BY <2>4, <3>1
    <3> QED
      BY <2>1, <2>5, <3>2, <3>3, Zenon
  <2> QED
    BY <2>6, <2>7
<1> QED
  BY <1>8, <1>9 DEF CommandInv

-----------------------------------------------------------------------------
\* Every step.

LEMMA InitCommands == InitController => CommandInv
<1> SUFFICES ASSUME InitController PROVE CommandInv
  OBVIOUS
<1>1. /\ pc = "turn" /\ adminCmd = None /\ ioCmd = None
      /\ asq = <<>> /\ acq = <<>> /\ isq = <<>> /\ icq = <<>> /\ pool = {}
      /\ host = [c \in CID |-> "free"] /\ csts = [rdy |-> 0, shst |-> 0]
  BY DEF InitController
<1>2. CmdTypes /\ InHand /\ Ready
  BY <1>1, EmptyRing DEF CmdTypes, InHand, Ready
<1>3. \A c \in CID : host[c] = "free" /\ Fresh(c) \notin pool
  BY <1>1
<1>4. Once(asq, isq, acq, icq, adminCmd, ioCmd, pool, host)
  BY <1>1, <1>3, OnceEmpty
<1> QED
  BY <1>2, <1>4 DEF CommandInv

\* Turns of the controller's states, answers, and the ends of passes.
LEMMA StayKeepsCommands ==
  ASSUME CommandInv,
         \/ Enable \/ Shutdown \/ IdleTurn \/ CompleteAtOnce \/ EndOfPass
         \/ HostEnable \/ HostDisable \/ HostShutdown
  PROVE  CommandInv'
<1>1. CASE Enable \/ Shutdown \/ IdleTurn
  <2>1. UNCHANGED <<ringVars, cmdVars, adminCmd, ioCmd>> /\ pc = "turn" /\ pc' \in {"turn", "low"}
    BY <1>1 DEF Enable, Shutdown, IdleTurn, EndOfTurn
  <2>2. InHand'
    BY <2>1 DEF CommandInv, InHand
  <2>3. Ready'
    BY <1>1 DEF CommandInv, Ready, Enable, Shutdown, IdleTurn, cmdVars
  <2> QED
    BY <2>1, <2>2, <2>3, QuietKeepsCommands
<1>2. CASE CompleteAtOnce \/ EndOfPass
  <2>1. UNCHANGED <<ringVars, cmdVars, adminCmd, ioCmd>> /\ UNCHANGED <<state, csts>>
    BY <1>2 DEF CompleteAtOnce, EndOfPass
  <2>2. InHand' /\ Ready'
    BY <1>2, <2>1 DEF CommandInv, InHand, Ready, CompleteAtOnce, EndOfPass, cmdVars
  <2> QED
    BY <2>1, <2>2, QuietKeepsCommands
<1>3. CASE HostEnable \/ HostDisable \/ HostShutdown
  <2>1. UNCHANGED <<ringVars, cmdVars, adminCmd, ioCmd>> /\ UNCHANGED <<state, csts, pc>>
    BY <1>3 DEF HostEnable, HostDisable, HostShutdown, HostUnchanged
  <2>2. InHand' /\ Ready'
    BY <2>1 DEF CommandInv, InHand, Ready, cmdVars
  <2> QED
    BY <2>1, <2>2, QuietKeepsCommands
<1> QED
  BY <1>1, <1>2, <1>3

LEMMA AdminKeepsCommands == ASSUME CommandInv, ProcessAdminCmd PROVE CommandInv'
<1>1. CASE AsyncEventReq
  BY <1>1, AsyncKeepsCommands
<1>2. ASSUME NEW status, Answer(status) PROVE CommandInv'
  <2>1. UNCHANGED <<ringVars, cmdVars, adminCmd, ioCmd>> /\ UNCHANGED <<state, csts>>
    BY <1>2 DEF Answer
  <2>2. InHand' /\ Ready'
    BY <1>2, <2>1 DEF CommandInv, InHand, Ready, Answer, cmdVars
  <2> QED
    BY <2>1, <2>2, QuietKeepsCommands
<1>3. ASSUME NEW id, NEW ien, CreateIoCq(id, ien, VECTOR) PROVE \E status : Answer(status)
  BY <1>3 DEF CreateIoCq
<1>4. ASSUME NEW id, NEW cqid, CreateIoSq(id, cqid) PROVE \E status : Answer(status)
  BY <1>4 DEF CreateIoSq
<1>5. ASSUME NEW id, DeleteIoSq(id) \/ DeleteIoCq(id) PROVE \E status : Answer(status)
  BY <1>5 DEF DeleteIoSq, DeleteIoCq
<1>6. ASSUME NEW status, OtherAdmin(status) PROVE \E st : Answer(st)
  BY <1>6 DEF OtherAdmin
<1> QED
  BY <1>1, <1>2, <1>3, <1>4, <1>5, <1>6 DEF ProcessAdminCmd

LEMMA StepKeepsCommands ==
  ASSUME CommandInv, [Firmware \/ HostStep]_nvmeVars PROVE CommandInv'
<1>1. CASE Firmware
  <2>1. CASE TurnState
    BY <2>1, StayKeepsCommands, ResetKeepsCommands, StartKeepsCommands DEF TurnState
  <2>2. CASE Fetch \/ PostAdmin \/ ProcessAdminCmd
    BY <2>2, FetchKeepsCommands, PostAdminKeepsCommands, AdminKeepsCommands
  <2>3. CASE ProcessIoCmd
    BY <2>3, StayKeepsCommands, JoinKeepsCommands, FlushKeepsCommands, PostIoKeepsCommands
    DEF ProcessIoCmd
  <2>4. CASE LowLevel
    BY <2>4, StayKeepsCommands, TakeKeepsCommands DEF LowLevel
  <2> QED
    BY <1>1, <2>1, <2>2, <2>3, <2>4 DEF Firmware
<1>2. CASE HostStep
  BY <1>2, StayKeepsCommands, HostAdminKeepsCommands, HostIoKeepsCommands, PlAdminKeepsCommands,
     PlIoKeepsCommands DEF HostStep
<1>3. CASE UNCHANGED nvmeVars
  <2>1. UNCHANGED <<ringVars, cmdVars, adminCmd, ioCmd>> /\ UNCHANGED <<state, csts, pc>>
    BY <1>3 DEF nvmeVars, ctrlVars
  <2>2. InHand' /\ Ready'
    BY <2>1 DEF CommandInv, InHand, Ready, cmdVars
  <2> QED
    BY <2>1, <2>2, QuietKeepsCommands
<1> QED
  BY <1>1, <1>2, <1>3

\* No command is lost and none is answered twice, for any number of commands
\* that the host may have open and rings that hold them (RingAssumption):
\* through turns, full completion rings, resets, and commands that outlive a
\* reset, each command the host waits for is in one place.
\* (nvme_main, nvme_write_cq_entry, nvme_write_io_cq_entry.)
THEOREM EachAlwaysInOnePlace == NvmeSpec => []EachInOnePlace
<1>1. InitController => CommandInv
  BY InitCommands
<1>2. CommandInv /\ [Firmware \/ HostStep]_nvmeVars => CommandInv'
  BY StepKeepsCommands
<1>3. CommandInv => EachInOnePlace
  BY CommandInvMeans
<1> QED
  BY <1>1, <1>2, <1>3, PTL DEF NvmeSpec

-----------------------------------------------------------------------------
\* Types.  CommandInv and QueueInv give those of the commands and the tables.
CtrlTypes ==
  /\ state \in States
  /\ cc \in [en : {0, 1}, shn : {0, 1}]
  /\ answer \in Nat \X Nat
  /\ irqEnable \subseteq Index /\ irqReg \subseteq Index /\ refused \subseteq Index

LEMMA InvsGiveTypes == ASSUME QueueInv, CommandInv, CtrlTypes PROVE NvmeTypeOK
<1>1. AdminCmds \subseteq Commands /\ IoCmds \subseteq Commands /\ NewIoCmds \subseteq Commands
  BY DEF AdminCmds, NewIoCmds, IoCmds, Commands, CID
<1>2. \A S, q : S \subseteq Commands /\ q \in Seq(S) => q \in Seq(Commands)
  <2> TAKE S, q
  <2> HAVE S \subseteq Commands /\ q \in Seq(S)
  <2>1. q \in [1 .. Len(q) -> S] /\ Len(q) \in Nat
    BY LenProperties
  <2>2. q \in [1 .. Len(q) -> Commands]
    BY <2>1
  <2> QED
    BY <2>1, <2>2, SeqDef
<1>3. CmdTypes /\ InHand /\ Ready
  BY DEF CommandInv
<1>4. asq \in Seq(Commands) /\ acq \in Seq(Commands) /\ isq \in Seq(Commands) /\ icq \in Seq(Commands)
  BY <1>1, <1>2, <1>3, Zenon DEF CmdTypes
<1>5. adminCmd \in Commands \cup {None} /\ ioCmd \in Commands \cup {None}
  BY <1>1, <1>3, Zenon DEF InHand
<1>6. pool \subseteq Commands
  BY <1>1, <1>3 DEF CmdTypes
<1> QED
  BY <1>3, <1>4, <1>5, <1>6 DEF NvmeTypeOK, CtrlTypes, QueueInv, QueueTypes, CmdTypes, InHand, Ready

LEMMA AnswersTyped ==
  /\ OtherAnswers \subseteq Nat \X Nat /\ Success \in Nat \X Nat
  /\ \A n, m \in Nat : <<n, m>> \in Nat \X Nat
<1>1. Success \in Nat \X Nat /\ FieldError \in Nat \X Nat /\ InvalidNamespace \in Nat \X Nat
  BY DEF Success, FieldError, InvalidNamespace
<1>2. \A psdt, cns, nsid : Identify(psdt, cns, nsid) \in Nat \X Nat
  BY <1>1, Zenon DEF Identify
<1>3. \A psdt, lid : GetLogPage(psdt, lid) \in Nat \X Nat
  BY <1>1, Zenon DEF GetLogPage
<1>4. \A fid : SetFeature(fid) \in Nat \X Nat /\ GetFeature(fid) \in Nat \X Nat
  BY <1>1, Zenon DEF SetFeature, GetFeature
<1>5. Abort \in Nat \X Nat /\ UnknownAdmin \in Nat \X Nat
  BY <1>1 DEF Abort, UnknownAdmin
<1>6. ASSUME NEW s \in OtherAnswers PROVE s \in Nat \X Nat
  <2>1. \/ \E psdt, cns, nsid : s = Identify(psdt, cns, nsid)
        \/ \E psdt, lid : s = GetLogPage(psdt, lid)
        \/ \E fid : s = SetFeature(fid) \/ s = GetFeature(fid)
        \/ s \in {Abort, UnknownAdmin, FieldError}
    BY <1>6 DEF OtherAnswers
  <2> QED
    BY <1>1, <1>2, <1>3, <1>4, <1>5, <2>1, Zenon
<1>7. \A n, m \in Nat : <<n, m>> \in Nat \X Nat
  OBVIOUS
<1> QED
  BY <1>1, <1>6, <1>7

LEMMA StepKeepsTypes ==
  ASSUME CtrlTypes, [Firmware \/ HostStep]_nvmeVars PROVE CtrlTypes'
<1>1. CASE TurnState
  BY <1>1 DEF TurnState, Enable, StartRunning, ControllerReset, Shutdown, Restart, IdleTurn,
       ResetQueues, CtrlTypes, States, tableVars
<1>2. CASE Fetch \/ PostAdmin \/ ProcessIoCmd \/ LowLevel
  BY <1>2, AnswersTyped DEF Fetch, PostAdmin, ProcessIoCmd, CompleteAtOnce, JoinPool, Flush, PostIo,
       LowLevel, EndOfPass, TakeFromPool, CtrlTypes, tableVars
<1>3. ASSUME NEW status \in Nat \X Nat, Answer(status)
      PROVE  answer' \in Nat \X Nat /\ UNCHANGED <<state, cc>>
  BY <1>3 DEF Answer
<1>4. ASSUME NEW id, NEW ien, CreateIoCq(id, ien, VECTOR) PROVE CtrlTypes'
  <2>1. \E status \in Nat \X Nat : Answer(status)
    BY <1>4, AnswersTyped DEF CreateIoCq
  <2>2. irqEnable' \subseteq Index /\ irqReg' \subseteq Index /\ refused' \subseteq Index
    BY <1>4 DEF CreateIoCq, FreeCq, CtrlTypes, tableVars
  <2> QED
    BY <1>3, <2>1, <2>2 DEF CtrlTypes
<1>5. ASSUME NEW id, NEW cqid, CreateIoSq(id, cqid) PROVE CtrlTypes'
  <2>1. \E status \in Nat \X Nat : Answer(status)
    BY <1>5, AnswersTyped DEF CreateIoSq
  <2>2. UNCHANGED <<irqEnable, irqReg, refused>>
    BY <1>5 DEF CreateIoSq, tableVars
  <2> QED
    BY <1>3, <2>1, <2>2 DEF CtrlTypes
<1>6. ASSUME NEW id, DeleteIoSq(id) PROVE CtrlTypes'
  <2>1. \E status \in Nat \X Nat : Answer(status)
    BY <1>6, AnswersTyped DEF DeleteIoSq
  <2>2. UNCHANGED <<irqEnable, irqReg>> /\ refused' \subseteq Index
    BY <1>6 DEF DeleteIoSq, CtrlTypes, tableVars
  <2> QED
    BY <1>3, <2>1, <2>2 DEF CtrlTypes
<1>7. ASSUME NEW id, DeleteIoCq(id) PROVE CtrlTypes'
  <2>1. \E status \in Nat \X Nat : Answer(status)
    BY <1>7, AnswersTyped DEF DeleteIoCq
  <2>2. irqEnable' \subseteq Index /\ irqReg' \subseteq Index /\ refused' \subseteq Index
    BY <1>7 DEF DeleteIoCq, CqIndex, CtrlTypes, tableVars
  <2> QED
    BY <1>3, <2>1, <2>2 DEF CtrlTypes
<1>8. ASSUME NEW status \in OtherAnswers, OtherAdmin(status) PROVE CtrlTypes'
  <2>1. status \in Nat \X Nat
    BY AnswersTyped
  <2> QED
    BY <1>3, <1>8, <2>1 DEF OtherAdmin, CtrlTypes, tableVars
<1>9. CASE AsyncEventReq
  BY <1>9 DEF AsyncEventReq, CtrlTypes, tableVars
<1>10. CASE HostStep
  <2>1. UNCHANGED <<state, answer, tableVars>>
    BY <1>10 DEF HostStep, HostEnable, HostDisable, HostShutdown, HostAdmin, HostIo, PlAdmin, PlIo,
         HostUnchanged
  <2>2. cc' \in [en : {0, 1}, shn : {0, 1}]
    BY <1>10 DEF HostStep, HostEnable, HostDisable, HostShutdown, HostAdmin, HostIo, PlAdmin, PlIo,
         CtrlTypes
  <2> QED
    BY <2>1, <2>2 DEF CtrlTypes, tableVars
<1>11. CASE UNCHANGED nvmeVars
  BY <1>11 DEF nvmeVars, ctrlVars, tableVars, CtrlTypes
<1> QED
  BY <1>1, <1>2, <1>4, <1>5, <1>6, <1>7, <1>8, <1>9, <1>10, <1>11 DEF Firmware, ProcessAdminCmd

LEMMA InitTypes == InitController => CtrlTypes
BY AnswersTyped DEF InitController, CtrlTypes, States

\* NvmeInv is what the controller and the host keep in every step.
NvmeInv == QueueInv /\ CommandInv /\ CtrlTypes

LEMMA NvmeInvMeans == NvmeInv => NvmeTypeOK /\ QueueTables /\ EachInOnePlace
BY InvsGiveTypes, CommandInvMeans DEF NvmeInv, QueueInv

LEMMA NvmeInvFirst == InitController => NvmeInv
BY InitQueues, InitCommands, InitTypes DEF NvmeInv

LEMMA NvmeInvKept == ASSUME NvmeInv, [Firmware \/ HostStep]_nvmeVars PROVE NvmeInv'
<1>1. QueueInv'
  BY FirmwareKeepsQueues, HostKeepsQueues, QuietKeepsQueues DEF NvmeInv, nvmeVars
<1>2. CommandInv' /\ CtrlTypes'
  BY StepKeepsCommands, StepKeepsTypes DEF NvmeInv
<1> QED
  BY <1>1, <1>2 DEF NvmeInv
=============================================================================
