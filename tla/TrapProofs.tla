----------------------------- MODULE TrapProofs -----------------------------
(***************************************************************************)
(* Proofs about Trap and TrapContext: for every set of code addresses,     *)
(* every fault, line and register value the guest may write.  TrapContext  *)
(* implements Trap, whose theorems therefore hold of it too.               *)
(***************************************************************************)
EXTENDS TrapContext, TLAPS

\* The symbolic numbers the steps compare.
LEMMA ModeNumbers ==
    /\ MODE_U = 0 /\ MODE_S = 1 /\ MODE_H = 2 /\ MODE_M = 3
    /\ Modes = {0, 1, 2, 3}
  BY DEF MODE_U, MODE_S, MODE_H, MODE_M, Modes

LEMMA ExceptionNumbers ==
    /\ AddressExceptions \subseteq 0 .. 15
    /\ {EX_II, EX_ECU, EX_ECS, EX_ECM} \subseteq 0 .. 15
    /\ IrqBits \subseteq 0 .. 15
    /\ SupervisorBits \subseteq IrqBits
    /\ {IRQ_MSIP, IRQ_MTIP, IRQ_SEIP} \subseteq IrqBits
  BY DEF AddressExceptions, IrqBits, SupervisorBits, IRQ_MSIP, IRQ_MTIP, IRQ_SEIP,
         IRQ_SSIP, IRQ_STIP, EX_II, EX_ECU, EX_ECS, EX_ECM, EX_IPF, EX_LPF, EX_SPF,
         EX_LAM, EX_SAM, EX_IAF, EX_LAF, EX_SAF

\* What an assignment to some fields of mstatus keeps.
LEMMA MachineFields ==
    ASSUME NEW s \in Mstatus, NEW a \in Bit, NEW b \in Bit, NEW m \in Modes
    PROVE  [s EXCEPT !.mie = a, !.mpie = b, !.mpp = m] \in Mstatus
  BY DEF Mstatus

LEMMA SupervisorFields ==
    ASSUME NEW s \in Mstatus, NEW a \in Bit, NEW b \in Bit, NEW p \in Bit
    PROVE  [s EXCEPT !.sie = a, !.spie = b, !.spp = p] \in Mstatus
  BY DEF Mstatus

LEMMA MstatusFields ==
    ASSUME NEW s \in Mstatus
    PROVE  /\ s.mie \in Bit /\ s.mpie \in Bit /\ s.mpp \in Modes
           /\ s.sie \in Bit /\ s.spie \in Bit /\ s.spp \in Bit
  BY DEF Mstatus

\* A group of registers that a step leaves alone keeps its type.
LEMMA UnchangedType ==
    ASSUME TypeOK
    PROVE  /\ UNCHANGED lines => LinesType'
           /\ UNCHANGED setup => SetupType'
           /\ UNCHANGED mtrap => MtrapType'
           /\ UNCHANGED strap => StrapType'
           /\ UNCHANGED pending => PendingType'
           /\ UNCHANGED flags => FlagsType'
  BY DEF TypeOK, lines, setup, mtrap, strap, pending, flags, LinesType, SetupType,
         MtrapType, StrapType, PendingType, FlagsType

\* What every instruction does to the control state, retiring or not.
LEMMA AdvanceType ==
    ASSUME TypeOK, NEW dnpc \in Nat, Advance(dnpc), mode' \in Modes, is_except' \in Bit
    PROVE  ControlType' /\ FlagsType'
  BY DEF TypeOK, Advance, ControlType, FlagsType, Bit

LEMMA RetireType ==
    ASSUME TypeOK, NEW dnpc \in Nat, Retire(dnpc), mode' \in Modes
    PROVE  ControlType' /\ FlagsType' /\ PendingType'
  BY AdvanceType, UnchangedType DEF Retire, Bit

\* raise_intr keeps the shape of every register it writes, whichever way
\* delegation sends the trap.
LEMMA RaiseType ==
    ASSUME TypeOK, NEW cause \in Cause, NEW epc \in Nat, RaiseIntr(cause, epc)
    PROVE  /\ mode' \in Modes /\ pc' \in Nat /\ mstatus' \in Mstatus
           /\ MtrapType' /\ StrapType'
  <1>1. TrapValue(cause) \in Nat
    BY DEF TrapValue, TypeOK, PendingType
  <1>2. /\ TrapPc(mtvec, cause) \in Nat
        /\ TrapPc(stvec, cause) \in Nat
    BY DEF TrapPc, TypeOK, SetupType, Tvec, Cause
  <1>3. mstatus \in Mstatus /\ mode \in Modes
    BY DEF TypeOK, ControlType
  <1>4. CASE DelegS(cause)
    <2>1. RaiseS(cause, epc)
      BY <1>4 DEF RaiseIntr
    <2>2. mode % 2 \in Bit /\ 0 \in Bit
      BY <1>3, ModeNumbers DEF Bit
    <2>3. mstatus' = [mstatus EXCEPT !.sie = 0, !.spie = mstatus.sie, !.spp = mode % 2]
      BY <1>3, <2>1 DEF RaiseS, Mstatus
    <2>4. mstatus' \in Mstatus
      BY <1>3, <2>2, <2>3, MstatusFields, SupervisorFields
    <2>5. MtrapType'
      BY <2>1, UnchangedType DEF RaiseS
    <2> QED BY <1>1, <1>2, <2>1, <2>4, <2>5, ModeNumbers DEF RaiseS, StrapType
  <1>5. CASE ~DelegS(cause)
    <2>1. RaiseM(cause, epc)
      BY <1>5 DEF RaiseIntr
    <2>2. mstatus' = [mstatus EXCEPT !.mie = 0, !.mpie = mstatus.mie, !.mpp = mode]
      BY <1>3, <2>1 DEF RaiseM, Mstatus
    <2>3. mstatus' \in Mstatus
      <3>1. 0 \in Bit
        BY DEF Bit
      <3> QED BY <1>3, <2>2, <3>1, MstatusFields, MachineFields
    <2>4. StrapType'
      BY <2>1, UnchangedType DEF RaiseM
    <2> QED BY <1>1, <1>2, <2>1, <2>3, <2>4, ModeNumbers DEF RaiseM, MtrapType
  <1> QED BY <1>4, <1>5

\* Every instruction keeps the type invariant.
LEMMA InstructionType == ASSUME TypeOK, Instruction PROVE TypeOK'
  <1>1. mode \in Modes /\ mstatus \in Mstatus /\ mepc \in Nat /\ sepc \in Nat
    BY DEF TypeOK, ControlType, MtrapType, StrapType
  <1>a. 0 \in Bit /\ 1 \in Bit /\ NoCause \in Cause
    BY DEF Bit, NoCause, Cause
  <1>2. ASSUME NEW e \in 0 .. 15, Record(e), m_s_tval' \in Nat,
               UNCHANGED <<mode, mstatus, lines, setup, mtrap, strap>>
        PROVE  TypeOK'
    <2>1. PICK dnpc \in Pcs : Advance(dnpc)
      BY <1>2 DEF Record
    <2>2. ControlType' /\ FlagsType'
      BY <1>1, <1>2, <2>1, TrapConstants, AdvanceType DEF Record, Bit
    <2>3. PendingType'
      BY <1>2 DEF Record, PendingType
    <2> QED BY <1>1, <1>2, <2>2, <2>3, UnchangedType DEF TypeOK
  <1>3. ASSUME NEW dnpc \in Nat, Retire(dnpc), mode' \in Modes, mstatus' \in Mstatus,
               UNCHANGED <<setup, mtrap, strap>>, LinesType'
        PROVE  TypeOK'
    BY <1>3, RetireType, UnchangedType DEF TypeOK
  <1>4. ASSUME Csr PROVE ControlType' /\ FlagsType' /\ PendingType'
    BY <1>1, <1>4, TrapConstants, RetireType DEF Csr
  <1>5. CASE Plain
    BY <1>1, <1>3, <1>5, TrapConstants, UnchangedType DEF Plain
  <1>6. CASE StoreMsip
    <2>1. LinesType'
      BY <1>6, ExceptionNumbers DEF StoreMsip, TypeOK, LinesType
    <2> QED BY <1>1, <1>3, <1>6, <2>1, TrapConstants DEF StoreMsip
  <1>7. CASE MemoryFault
    <2>1. PICK e \in Faults : Record(e)
      BY <1>7 DEF MemoryFault
    <2>2. e \in 0 .. 15 /\ m_s_tval' \in Nat
      BY <1>7, <2>1, TrapConstants, ExceptionNumbers DEF MemoryFault
    <2> QED BY <1>2, <1>7, <2>1, <2>2 DEF MemoryFault
  <1>8. CASE IllegalCsr
    BY <1>2, <1>8, TrapConstants, ExceptionNumbers DEF IllegalCsr
  <1>9. CASE Ecall
    <2>1. PICK e \in {EX_ECM, EX_ECS, EX_ECU} : Record(e)
      BY <1>9 DEF Ecall
    <2>2. e \in 0 .. 15 /\ m_s_tval' \in Nat
      BY <1>9, ExceptionNumbers DEF Ecall, TypeOK, PendingType
    <2> QED BY <1>2, <1>9, <2>1, <2>2 DEF Ecall
  <1>10. CASE Mret
    <2>1. mstatus' \in Mstatus /\ mode' \in Modes
      <3>1. /\ mstatus.mpie \in Bit /\ mstatus.mpp \in Modes
            /\ MODE_U \in Modes
        BY <1>1, ModeNumbers, MstatusFields
      <3> QED BY <1>1, <1>a, <1>10, <3>1, MachineFields DEF Mret
    <2> QED BY <1>1, <1>3, <1>10, <2>1, UnchangedType DEF Mret
  <1>11. CASE Sret
    <2>1. mstatus' \in Mstatus /\ mode' \in Modes
      <3>1. mstatus.spie \in Bit /\ mstatus.spp \in Bit
        BY <1>1, MstatusFields
      <3>2. mstatus.spp \in Modes
        BY <3>1, ModeNumbers DEF Bit
      <3> QED BY <1>1, <1>a, <1>11, <3>1, <3>2, SupervisorFields DEF Sret
    <2> QED BY <1>1, <1>3, <1>11, <2>1, UnchangedType DEF Sret
  <1>12. CASE WriteMstatus
    BY <1>4, <1>12, TrapConstants, UnchangedType
    DEF WriteMstatus, MachineCsr, TypeOK
  <1>13. CASE WriteSstatus
    <2>1. mstatus' \in Mstatus
      <3>1. PICK v \in MstatusWrites :
              mstatus' = [mstatus EXCEPT !.sie = v.sie, !.spie = v.spie, !.spp = v.spp]
        BY <1>13 DEF WriteSstatus
      <3>2. v.sie \in Bit /\ v.spie \in Bit /\ v.spp \in Bit
        BY <3>1, TrapConstants, MstatusFields
      <3> QED BY <1>1, <3>1, <3>2, SupervisorFields
    <2> QED BY <1>4, <1>13, <2>1, UnchangedType DEF WriteSstatus, TypeOK
  <1>14. CASE WriteIrqCsr
    <2>1. Csr /\ UNCHANGED <<mstatus, setup, mtrap, strap>>
      BY <1>14 DEF WriteIrqCsr, MachineCsr
    <2>2. LinesType'
      BY <1>14, TrapConstants, ExceptionNumbers
      DEF WriteIrqCsr, Masked, TypeOK, LinesType
    <2> QED BY <1>4, <2>1, <2>2, UnchangedType DEF TypeOK
  <1>15. CASE WriteSetup
    <2>1. Csr /\ UNCHANGED <<mstatus, lines, mtrap, strap>>
      BY <1>15 DEF WriteSetup, MachineCsr
    <2>2. SetupType'
      BY <1>15, TrapConstants DEF WriteSetup, TypeOK, SetupType
    <2> QED BY <1>4, <2>1, <2>2, UnchangedType DEF TypeOK
  <1>16. CASE WriteMtrap
    <2>1. MtrapType'
      <3>1. mepc \in Nat /\ mcause \in Cause /\ mtval \in Nat
        BY DEF TypeOK, MtrapType
      <3>2. CASE mepc' \in Pcs /\ UNCHANGED <<mcause, mtval>>
        BY <3>1, <3>2, TrapConstants DEF MtrapType
      <3>3. CASE mcause' = NoCause /\ UNCHANGED <<mepc, mtval>>
        BY <1>a, <3>1, <3>3 DEF MtrapType
      <3>4. CASE mtval' = 0 /\ UNCHANGED <<mepc, mcause>>
        BY <3>1, <3>4 DEF MtrapType
      <3> QED BY <1>16, <3>2, <3>3, <3>4 DEF WriteMtrap
    <2> QED BY <1>4, <1>16, <2>1, UnchangedType DEF WriteMtrap, MachineCsr, TypeOK
  <1>17. CASE WriteStrap
    <2>1. StrapType'
      <3>1. sepc \in Nat /\ scause \in Cause /\ stval \in Nat
        BY DEF TypeOK, StrapType
      <3>2. CASE sepc' \in Pcs /\ UNCHANGED <<scause, stval>>
        BY <3>1, <3>2, TrapConstants DEF StrapType
      <3>3. CASE scause' = NoCause /\ UNCHANGED <<sepc, stval>>
        BY <1>a, <3>1, <3>3 DEF StrapType
      <3>4. CASE stval' = 0 /\ UNCHANGED <<sepc, scause>>
        BY <3>1, <3>4 DEF StrapType
      <3> QED BY <1>17, <3>2, <3>3, <3>4 DEF WriteStrap
    <2> QED BY <1>4, <1>17, <2>1, UnchangedType DEF WriteStrap, TypeOK
  <1> QED BY <1>5, <1>6, <1>7, <1>8, <1>9, <1>10, <1>11, <1>12, <1>13, <1>14, <1>15,
             <1>16, <1>17 DEF Instruction

\* The reset state has the right shape.
LEMMA InitType == Init => TypeOK
  BY TrapConstants, ModeNumbers
  DEF Init, TypeOK, ControlType, LinesType, SetupType, MtrapType, StrapType,
      PendingType, FlagsType, Mstatus, Tvec, Cause, NoCause, Bit

\* The variables keep their shapes on every step of the machine.
THEOREM TypeCorrect == Spec => []TypeOK
  <1>1. TypeOK /\ [Next]_vars => TypeOK'
    <2> SUFFICES ASSUME TypeOK, [Next]_vars PROVE TypeOK'
      OBVIOUS
    <2>1. CASE Instruction
      BY <2>1, InstructionType
    <2>2. CASE UpdateDevice
      <3>1. LinesType'
        BY <2>2, TrapConstants, ExceptionNumbers DEF UpdateDevice, TypeOK, LinesType
      <3> QED BY <2>2, <3>1, UnchangedType DEF UpdateDevice, TypeOK, ControlType
    <2>3. ASSUME HandleTrap, is_irq' \in Bit, NEW cause \in Cause, NEW epc \in Nat,
                 RaiseIntr(cause, epc)
          PROVE  TypeOK'
      <3>1. ControlType'
        BY <2>3, RaiseType DEF HandleTrap, TypeOK, ControlType
      <3>2. FlagsType'
        BY <2>3 DEF HandleTrap, TypeOK, FlagsType
      <3> QED BY <2>3, <3>1, <3>2, RaiseType, UnchangedType DEF HandleTrap, TypeOK
    <2>4. CASE TakeException
      <3>1. [intr |-> FALSE, code |-> m_s_cause] \in Cause
        BY DEF TypeOK, PendingType, Cause
      <3>2. pre_pc \in Nat /\ is_irq' \in Bit
        BY <2>4 DEF TakeException, TypeOK, ControlType, FlagsType
      <3> QED BY <2>3, <2>4, <3>1, <3>2 DEF TakeException
    <2>5. CASE TakeInterrupt
      <3>1. PICK i \in Takeable : RaiseIntr([intr |-> TRUE, code |-> i], pc)
        BY <2>5 DEF TakeInterrupt, Interrupt
      <3>2. i \in 0 .. 15
        BY ExceptionNumbers DEF TypeOK, LinesType, Takeable, Candidates
      <3>3. [intr |-> TRUE, code |-> i] \in Cause
        BY <3>2 DEF Cause
      <3>4. pc \in Nat /\ is_irq' \in Bit
        BY <2>5 DEF TakeInterrupt, Interrupt, TypeOK, ControlType, Bit
      <3> QED BY <2>3, <2>5, <3>1, <3>3, <3>4 DEF TakeInterrupt, Interrupt
    <2>6. CASE NoTrap
      BY <2>6, UnchangedType DEF NoTrap, HandleTrap, TypeOK, ControlType, FlagsType
    <2>7. CASE UNCHANGED vars
      BY <2>7, UnchangedType DEF vars, control, TypeOK, ControlType
    <2> QED BY <2>1, <2>2, <2>4, <2>5, <2>6, <2>7 DEF Next
  <1> QED BY <1>1, InitType, PTL DEF Spec

-----------------------------------------------------------------------------
(* What a trap delivers.                                                   *)

\* What a reader of the trap registers finds after raise_intr.
LEMMA RaiseSaves ==
    ASSUME TypeOK, NEW cause \in Cause, NEW epc \in Nat, RaiseIntr(cause, epc)
    PROVE  /\ ToM' <=> ~DelegS(cause)
           /\ ~ToM' => mode' = MODE_S
           /\ SavedMode' = IF DelegS(cause) THEN mode % 2 ELSE mode
           /\ SavedMie' = mstatus.mie /\ SavedSie' = mstatus.sie
           /\ TrapCause' = cause
           /\ epc = IF ToM' THEN mepc' ELSE sepc'
           /\ TrapValue(cause) = IF ToM' THEN mtval' ELSE stval'
           /\ pc' = TrapPc(IF ToM' THEN mtvec ELSE stvec, cause)
  <1>1. mstatus \in Mstatus
    BY DEF TypeOK
  <1>2. CASE DelegS(cause)
    <2>1. RaiseS(cause, epc)
      BY <1>2 DEF RaiseIntr
    <2>2. /\ mstatus'.spp = mode % 2 /\ mstatus'.spie = mstatus.sie
          /\ mstatus'.mie = mstatus.mie
      BY <1>1, <2>1 DEF RaiseS, Mstatus
    <2>3. ~ToM'
      BY <2>1, ModeNumbers DEF RaiseS, ToM
    <2> QED BY <1>2, <2>1, <2>2, <2>3
            DEF RaiseS, SavedMode, SavedMie, SavedSie, TrapCause
  <1>3. CASE ~DelegS(cause)
    <2>1. RaiseM(cause, epc)
      BY <1>3 DEF RaiseIntr
    <2>2. /\ mstatus'.mpp = mode /\ mstatus'.mpie = mstatus.mie
          /\ mstatus'.sie = mstatus.sie
      BY <1>1, <2>1 DEF RaiseM, Mstatus
    <2>3. ToM'
      BY <2>1 DEF RaiseM, ToM
    <2> QED BY <1>3, <2>1, <2>2, <2>3
            DEF RaiseM, SavedMode, SavedMie, SavedSie, TrapCause
  <1> QED BY <1>2, <1>3

\* isa_query_intr looks for every two interrupts that it examines in some order.
LEMMA ExaminedOrdered ==
    ASSUME NEW i \in Examined, NEW j \in Examined
    PROVE  i = j \/ Before(i, j) \/ Before(j, i)
  <1>1. PICK m \in 1 .. 9 : priority[m] = i
    BY DEF Examined
  <1>2. PICK n \in 1 .. 9 : priority[n] = j
    BY DEF Examined
  <1>3. m = n \/ m < n \/ n < m
    OBVIOUS
  <1> QED BY <1>1, <1>2, <1>3 DEF Before

\* After raise_intr nothing of the level it entered is enabled, and after it entered
\* machine mode nothing at all.
LEMMA RaiseMasks ==
    ASSUME TypeOK, NEW cause \in Cause, NEW epc \in Nat, RaiseIntr(cause, epc),
           UNCHANGED lines, NEW j \in Takeable'
    PROVE  /\ DelegS(cause) /\ mode' = MODE_S
           /\ j \in Candidates /\ j \notin mideleg
  <1>1. mstatus \in Mstatus /\ mode \in Modes
    BY DEF TypeOK, ControlType
  <1>2. /\ j \in Candidates /\ mideleg' = mideleg
        /\ IF j \in mideleg
           THEN mode' < MODE_S \/ (mode' = MODE_S /\ mstatus'.sie = 1)
           ELSE mode' < MODE_M \/ (mode' = MODE_M /\ mstatus'.mie = 1)
    BY DEF Takeable, Candidates, EnabledIn, lines
  <1>3. CASE DelegS(cause)
    <2>1. mode' = MODE_S /\ mstatus'.sie = 0
      BY <1>1, <1>3 DEF RaiseIntr, RaiseS, Mstatus
    <2> QED BY <1>2, <1>3, <2>1, ModeNumbers
  <1>4. CASE ~DelegS(cause)
    <2>1. mode' = MODE_M /\ mstatus'.mie = 0
      BY <1>1, <1>4 DEF RaiseIntr, RaiseM, Mstatus
    <2> QED BY <1>2, <2>1, ModeNumbers
  <1> QED BY <1>3, <1>4

\* Between an instruction and its trap, is_irq is clear and a recorded
\* environment call names the mode the hart is still in.
Recorded ==
    phase # "exec" =>
        /\ is_irq = 0
        /\ is_except = 1 => /\ m_s_cause = EX_ECM => mode = MODE_M
                            /\ m_s_cause = EX_ECS => mode = MODE_S
                            /\ m_s_cause = EX_ECU => mode \notin {MODE_S, MODE_M}

Delivered == Recorded /\ InterruptJustified /\ ExceptionDelivered /\ EntryMasks

\* At reset nothing is enabled and nothing has trapped.
LEMMA DeliveredInit == Init => Delivered
  BY DEF Init, Delivered, Recorded, InterruptJustified, ExceptionDelivered,
         EntryMasks, Takeable, Candidates

\* An instruction leaves the boundary with is_irq clear, and only an environment
\* call records its cause, in the mode that call came from.
LEMMA InstructionDelivered == ASSUME TypeOK, Instruction PROVE Delivered'
  <1>1. phase' = "devices" /\ is_irq' = 0
    BY DEF Instruction, Plain, StoreMsip, MemoryFault, IllegalCsr, Ecall, Mret, Sret,
           WriteMstatus, WriteSstatus, WriteIrqCsr, WriteSetup, WriteMtrap, WriteStrap,
           MachineCsr, Csr, Retire, Record, Advance
  <1>2. \/ is_except' = 0
        \/ is_except' = 1 /\ m_s_cause' \in Faults \cup {EX_II}
        \/ Ecall
    BY DEF Instruction, Plain, StoreMsip, MemoryFault, IllegalCsr, Mret, Sret,
           WriteMstatus, WriteSstatus, WriteIrqCsr, WriteSetup, WriteMtrap, WriteStrap,
           MachineCsr, Csr, Retire, Record
  <1>3. m_s_cause' \in Faults \cup {EX_II}
          => m_s_cause' \notin {EX_ECM, EX_ECS, EX_ECU}
    BY TrapConstants DEF AddressExceptions, EX_II, EX_ECU, EX_ECS, EX_ECM, EX_IPF,
       EX_LPF, EX_SPF, EX_LAM, EX_SAM, EX_IAF, EX_LAF, EX_SAF
  <1>4. Ecall => Recorded'
    <2> SUFFICES ASSUME Ecall PROVE Recorded'
      OBVIOUS
    <2>1. mode' = mode
      BY DEF Ecall
    <2>2. \/ mode = MODE_M /\ m_s_cause' = EX_ECM
          \/ mode = MODE_S /\ m_s_cause' = EX_ECS
          \/ mode \notin {MODE_S, MODE_M} /\ m_s_cause' = EX_ECU
      BY ModeNumbers DEF Ecall, Record
    <2> QED BY <1>1, <2>1, <2>2 DEF Recorded, EX_ECU, EX_ECS, EX_ECM
  <1>5. Recorded'
    BY <1>1, <1>2, <1>3, <1>4 DEF Recorded
  <1> QED BY <1>1, <1>5 DEF Delivered, InterruptJustified, ExceptionDelivered, EntryMasks

\* The exception branch of handle_irq_or_except.
LEMMA ExceptionTaken ==
    ASSUME TypeOK, Recorded, TakeException PROVE Delivered'
  <1> DEFINE c == [intr |-> FALSE, code |-> m_s_cause]
  <1>1. c \in Cause /\ pre_pc \in Nat /\ mode \in Modes
    BY DEF TypeOK, ControlType, PendingType, Cause
  <1>2. RaiseIntr(c, pre_pc)
    BY DEF TakeException
  <1>3. /\ phase' = "exec" /\ is_except' = 1 /\ is_irq' = 0
        /\ m_s_cause' = m_s_cause /\ m_s_tval' = m_s_tval /\ pre_pc' = pre_pc
        /\ medeleg' = medeleg /\ mtvec' = mtvec /\ stvec' = stvec
    BY DEF TakeException, HandleTrap, Recorded, pending, setup
  <1>4. /\ ~c.intr /\ c.code = m_s_cause
        /\ DelegS(c) <=> mode < MODE_M /\ m_s_cause \in medeleg
    BY DEF DelegS
  <1>6. DelegS(c) => mode \in {MODE_U, MODE_S, MODE_H}
    BY <1>1, <1>4, ModeNumbers
  <1>7. ~DelegS(c) => mode = MODE_M \/ m_s_cause \notin medeleg
    BY <1>1, <1>4, ModeNumbers
  <1>8. /\ m_s_cause = EX_ECM => mode = MODE_M
        /\ m_s_cause = EX_ECS => mode = MODE_S
        /\ m_s_cause = EX_ECU => mode \notin {MODE_S, MODE_M}
    BY DEF TakeException, HandleTrap, Recorded
  <1>9. TrapCause' = c /\ (ToM' <=> ~DelegS(c)) /\ (~ToM' => mode' = MODE_S)
    BY <1>1, <1>2, RaiseSaves
  <1>10. SavedMode' = IF DelegS(c) THEN mode % 2 ELSE mode
    BY <1>1, <1>2, RaiseSaves
  <1>11. pre_pc' = (IF ToM THEN mepc ELSE sepc)'
    BY <1>1, <1>2, <1>3, RaiseSaves
  <1>12. TrapValue(TrapCause)' = (IF ToM THEN mtval ELSE stval)'
    BY <1>1, <1>2, <1>3, <1>9, RaiseSaves DEF TrapValue
  <1>13. pc' = (IF ToM THEN mtvec ELSE stvec)'.base
    <2>1. pc' = TrapPc(IF ToM' THEN mtvec ELSE stvec, c)
      BY <1>1, <1>2, RaiseSaves
    <2> QED BY <1>3, <1>4, <2>1 DEF TrapPc
  <1>14. mode % 2 = IF mode = MODE_S THEN 1 ELSE IF mode = MODE_M THEN 1 ELSE 0
    BY <1>1, ModeNumbers
  <1>15. ExceptionDelivered'
    <2>1. (IF ToM THEN SavedMode = MODE_M \/ m_s_cause \notin medeleg
                 ELSE mode = MODE_S /\ m_s_cause \in medeleg)'
      BY <1>3, <1>4, <1>7, <1>9, <1>10
    <2>2. (m_s_cause = EX_ECM <=> (m_s_cause \in {EX_ECU, EX_ECS, EX_ECM}
                                     /\ SavedMode = MODE_M))'
      BY <1>3, <1>4, <1>8, <1>10, <1>14, ModeNumbers DEF EX_ECU, EX_ECS, EX_ECM
    <2>3. (/\ m_s_cause = EX_ECS => SavedMode = MODE_S
           /\ m_s_cause = EX_ECU => SavedMode # MODE_S)'
      BY <1>1, <1>3, <1>8, <1>10, <1>14, ModeNumbers
    <2> QED BY <1>3, <1>9, <1>11, <1>12, <1>13, <2>1, <2>2, <2>3 DEF ExceptionDelivered
  <1>16. EntryMasks'
    <2>1. UNCHANGED lines
      BY DEF TakeException, HandleTrap
    <2>2. \A j \in Takeable' : mode' = MODE_S /\ j \notin mideleg
      BY <1>1, <1>2, <2>1, RaiseMasks
    <2>3. mideleg' = mideleg
      BY <2>1 DEF lines
    <2> QED BY <1>3, <2>2, <2>3 DEF EntryMasks
  <1> QED BY <1>3, <1>15, <1>16 DEF Delivered, Recorded, InterruptJustified

\* The interrupt branch: the stacked context reproduces the one isa_query_intr
\* examined.
LEMMA InterruptTaken ==
    ASSUME TypeOK, TakeInterrupt PROVE Delivered'
  <1>1. PICK i \in Takeable : /\ \A j \in Takeable : ~Before(j, i)
                              /\ RaiseIntr([intr |-> TRUE, code |-> i], pc)
    BY DEF TakeInterrupt, Interrupt
  <1> DEFINE c == [intr |-> TRUE, code |-> i]
  <1>2. c \in Cause /\ pc \in Nat /\ mode \in Modes
    <2>1. i \in 0 .. 15
      BY ExceptionNumbers DEF TypeOK, LinesType, Takeable, Candidates
    <2> QED BY <2>1 DEF TypeOK, ControlType, Cause
  <1>3. /\ phase' = "exec" /\ is_except' = 0 /\ is_irq' = 1
        /\ mip' = mip /\ m_mie' = m_mie /\ mideleg' = mideleg
        /\ mtvec' = mtvec /\ stvec' = stvec
    BY DEF TakeInterrupt, Interrupt, HandleTrap, lines, setup
  <1>4. EnabledIn(mode, mstatus.mie, mstatus.sie, i) /\ i \in Candidates
    BY <1>1 DEF Takeable
  <1>5. DelegS(c) <=> mode < MODE_M /\ i \in mideleg
    BY DEF DelegS
  <1>6. DelegS(c) => mode % 2 = mode
    BY <1>2, <1>4, <1>5, ModeNumbers DEF EnabledIn
  <1>7. /\ SavedMode' = mode
        /\ SavedMie' = mstatus.mie /\ SavedSie' = mstatus.sie
        /\ TrapCause' = c
        /\ pc' = TrapPc(IF ToM' THEN mtvec ELSE stvec, c)
    BY <1>1, <1>2, <1>6, RaiseSaves
  <1>8. \A j : EnabledIn(SavedMode, SavedMie, SavedSie, j)'
                 <=> EnabledIn(mode, mstatus.mie, mstatus.sie, j)
    BY <1>3, <1>7 DEF EnabledIn
  <1>9. Candidates' = Candidates
    BY <1>3 DEF Candidates
  <1>10. InterruptJustified'
    <2>1. EnabledIn(SavedMode, SavedMie, SavedSie, TrapCause.code)'
      BY <1>4, <1>7, <1>8
    <2>2. (\A j \in Candidates : EnabledIn(SavedMode, SavedMie, SavedSie, j)
                                   => ~Before(j, TrapCause.code))'
      BY <1>1, <1>7, <1>8, <1>9 DEF Takeable
    <2> QED BY <1>3, <1>4, <1>7, <1>9, <2>1, <2>2 DEF InterruptJustified, TrapPc
  <1>11. EntryMasks'
    <2>1. \A j \in Takeable' : /\ DelegS(c) /\ mode' = MODE_S
                               /\ j \in Candidates /\ j \notin mideleg
      <3>1. UNCHANGED lines
        BY DEF TakeInterrupt, Interrupt, HandleTrap
      <3> QED BY <1>1, <1>2, <3>1, RaiseMasks
    <2>2. ASSUME NEW j \in Takeable' PROVE Before(i, j)
      <3>1. mode < MODE_M /\ i \in mideleg /\ j \in Candidates /\ j \notin mideleg
        BY <1>5, <2>1
      <3>2. j \in Takeable /\ i # j
        BY <3>1 DEF Takeable, EnabledIn
      <3>3. i \in Examined /\ j \in Examined
        BY <1>4, <3>1 DEF Candidates
      <3> QED BY <1>1, <3>2, <3>3, ExaminedOrdered
    <2>3. TrapCause'.code = i
      BY <1>7
    <2> QED BY <1>3, <2>1, <2>2, <2>3 DEF EntryMasks
  <1> QED BY <1>3, <1>10, <1>11 DEF Delivered, Recorded, ExceptionDelivered

\* Delivered holds at every boundary: one case per action of Next.
LEMMA AlwaysDelivered == Spec => []Delivered
  <1>1. TypeOK /\ Delivered /\ [Next]_vars => Delivered'
    <2> SUFFICES ASSUME TypeOK, Delivered, [Next]_vars PROVE Delivered'
      OBVIOUS
    <2>1. CASE Instruction
      BY <2>1, InstructionDelivered
    <2>2. CASE UpdateDevice
      BY <2>2 DEF UpdateDevice, Delivered, Recorded, InterruptJustified,
         ExceptionDelivered, EntryMasks, pending, flags
    <2>3. CASE TakeException
      BY <2>3, ExceptionTaken DEF Delivered
    <2>4. CASE TakeInterrupt
      BY <2>4, InterruptTaken
    <2>5. CASE NoTrap
      BY <2>5 DEF NoTrap, HandleTrap, Delivered, Recorded, InterruptJustified,
         ExceptionDelivered, EntryMasks, Takeable, Candidates, EnabledIn, lines
    <2>6. CASE UNCHANGED vars
      BY <2>6 DEF vars, control, lines, setup, mtrap, strap, pending, flags,
         Delivered, Recorded, InterruptJustified, ExceptionDelivered, EntryMasks,
         Takeable, Candidates, EnabledIn, ToM, SavedMode, SavedMie, SavedSie,
         TrapCause, TrapValue, TrapPc
    <2> QED BY <2>1, <2>2, <2>3, <2>4, <2>5, <2>6 DEF Next
  <1> QED BY <1>1, DeliveredInit, TypeCorrect, PTL DEF Spec

\* Every interrupt the hart takes was pending, enabled and first in priority in
\* the context it stacked (intr.c:105-125).
THEOREM InterruptsJustified == Spec => []InterruptJustified
  <1>1. Delivered => InterruptJustified  BY DEF Delivered
  <1> QED BY <1>1, AlwaysDelivered, PTL

\* Every exception is delivered with its own cause, address and instruction to the
\* mode that delegation names (intr.c:58-103).
THEOREM ExceptionsDelivered == Spec => []ExceptionDelivered
  <1>1. Delivered => ExceptionDelivered  BY DEF Delivered
  <1> QED BY <1>1, AlwaysDelivered, PTL

\* A handler finds no interrupt of its own level enabled at its first instruction, and
\* what may preempt it there is meant for machine mode and lost to the interrupt that
\* entered it (intr.c:19-37, 72, 89, 105-125).
THEOREM HandlersEnterMasked == Spec => []EntryMasks
  <1>1. Delivered => EntryMasks  BY DEF Delivered
  <1> QED BY <1>1, AlwaysDelivered, PTL

\* No trap lowers the privilege of a hart in a real mode.
THEOREM TrapsNeverLowerMode == Spec => TrapNeverLowersMode
  <1>1. TypeOK /\ [Next]_vars
          => [(phase = "trap" /\ mode # MODE_H) => mode' >= mode]_vars
    <2> SUFFICES ASSUME TypeOK, Next, phase = "trap", mode # MODE_H
                 PROVE  mode' >= mode
      OBVIOUS
    <2>1. mode \in {0, 1, 3}
      BY ModeNumbers DEF TypeOK, ControlType
    <2>2. ~Instruction /\ ~UpdateDevice
      BY DEF Instruction, Plain, StoreMsip, MemoryFault, IllegalCsr, Ecall, Mret, Sret,
             WriteMstatus, WriteSstatus, WriteIrqCsr, WriteSetup, WriteMtrap,
             WriteStrap, MachineCsr, Csr, Retire, Record, Advance, UpdateDevice
    <2>3. ASSUME NEW cause, NEW epc, RaiseIntr(cause, epc) PROVE mode' >= mode
      BY <2>1, <2>3, ModeNumbers DEF RaiseIntr, DelegS, RaiseS, RaiseM
    <2>4. CASE TakeException
      BY <2>3, <2>4 DEF TakeException
    <2>5. CASE TakeInterrupt
      BY <2>3, <2>5 DEF TakeInterrupt, Interrupt
    <2>6. CASE NoTrap
      BY <2>1, <2>6 DEF NoTrap
    <2> QED BY <2>2, <2>4, <2>5, <2>6 DEF Next
  <1> QED BY <1>1, TypeCorrect, PTL DEF Spec, TrapNeverLowersMode
-----------------------------------------------------------------------------
(* The saved context of a trap survives until its return, and the return   *)
(* restores it.                                                            *)

\* The inductive invariant: the frames describe the saved registers, and a
\* supervisor frame never comes from machine mode, which one bit could not name.
CInv == /\ TypeOK /\ mframe \in Frame /\ sframe \in Frame /\ FramesKept
        /\ sframe.live => sframe.mode # MODE_M

\* A history step is a step of Trap.
LEMMA ContextStep == [CNext]_cvars => [Next]_vars
  BY DEF CNext, Undisturbing, ContextException, ContextInterrupt, Next, Instruction,
         TakeInterrupt, cvars

\* The frames are a history: a behaviour of the hart with them is a behaviour of the hart,
\* so that all that is proved of Trap (types, delivery, no deferral, no lower mode) holds
\* of the nested handlers too (intr.c, inst.c).
THEOREM ContextImplementsTrap == CSpec => Spec
  <1>1. CInit => Init
    BY DEF CInit
  <1> QED BY <1>1, ContextStep, PTL DEF CSpec, Spec

LEMMA ContextType == CSpec => []TypeOK
  BY ContextImplementsTrap, TypeCorrect, PTL

LEMMA DeadFrame == Dead \in Frame /\ ~Dead.live
  BY ModeNumbers DEF Dead, Frame, Bit

\* Steps outside the trap machinery keep what the frames refer to.
LEMMA UndisturbingKeeps ==
    ASSUME Undisturbing PROVE UNCHANGED <<mstatus, mtrap, strap>>
  BY DEF Undisturbing, Plain, StoreMsip, MemoryFault, IllegalCsr, Ecall, WriteIrqCsr,
         WriteSetup, UpdateDevice, NoTrap

\* What raise_intr does to the level it does not go to, and to its own.
LEMMA RaiseLevels ==
    ASSUME TypeOK, NEW cause, NEW epc, RaiseIntr(cause, epc)
    PROVE  IF DelegS(cause)
           THEN /\ sepc' = epc /\ mstatus'.spp = mode % 2
                /\ mstatus'.spie = mstatus.sie /\ mstatus'.sie = 0
                /\ mepc' = mepc /\ mstatus'.mpp = mstatus.mpp
                /\ mstatus'.mpie = mstatus.mpie /\ mstatus'.mie = mstatus.mie
           ELSE /\ mepc' = epc /\ mstatus'.mpp = mode
                /\ mstatus'.mpie = mstatus.mie /\ mstatus'.mie = 0
                /\ sepc' = sepc /\ mstatus'.spp = mstatus.spp
                /\ mstatus'.spie = mstatus.spie /\ mstatus'.sie = mstatus.sie
  <1>1. mstatus \in Mstatus
    BY DEF TypeOK
  <1>2. CASE DelegS(cause)
    BY <1>1, <1>2 DEF RaiseIntr, RaiseS, Mstatus, mtrap
  <1>3. CASE ~DelegS(cause)
    BY <1>1, <1>3 DEF RaiseIntr, RaiseM, Mstatus, strap
  <1> QED BY <1>2, <1>3

\* A trap keeps the frames of both levels true.
LEMMA PushKeeps ==
    ASSUME CInv, NEW cause, NEW epc \in Nat, RaiseIntr(cause, epc), Push(cause, epc)
    PROVE  /\ mframe' \in Frame /\ sframe' \in Frame /\ FramesKept'
           /\ sframe'.live => sframe'.mode # MODE_M
  <1>1. /\ mode \in Modes /\ mstatus.mie \in Bit /\ mstatus.sie \in Bit
    BY MstatusFields DEF CInv, TypeOK, ControlType
  <1>2. CASE DelegS(cause)
    <2>1. /\ sframe' = [live |-> TRUE, pc |-> epc, mode |-> mode, ie |-> mstatus.sie]
          /\ mframe' = mframe
      BY <1>2 DEF Push
    <2>2. sframe' \in Frame /\ mframe' \in Frame
      BY <1>1, <2>1 DEF Frame, CInv
    <2>3. mode # MODE_M
      BY <1>1, <1>2, ModeNumbers DEF DelegS
    <2> QED BY <1>2, <2>1, <2>2, <2>3, RaiseLevels DEF CInv, FramesKept
  <1>3. CASE ~DelegS(cause)
    <2>1. /\ mframe' = [live |-> TRUE, pc |-> epc, mode |-> mode, ie |-> mstatus.mie]
          /\ sframe' = sframe
      BY <1>3 DEF Push
    <2>2. sframe' \in Frame /\ mframe' \in Frame
      BY <1>1, <2>1 DEF Frame, CInv
    <2> QED BY <1>3, <2>1, <2>2, RaiseLevels DEF CInv, FramesKept
  <1> QED BY <1>2, <1>3

\* Returns and register writes of one level leave the other level's half of
\* mstatus alone.
LEMMA OtherLevel ==
    ASSUME TypeOK
    PROVE  /\ Mret => /\ mstatus'.spp = mstatus.spp /\ mstatus'.spie = mstatus.spie
                      /\ mstatus'.sie = mstatus.sie /\ sepc' = sepc
           /\ Sret \/ WriteSstatus =>
                /\ mstatus'.mpp = mstatus.mpp /\ mstatus'.mpie = mstatus.mpie
                /\ mstatus'.mie = mstatus.mie /\ mepc' = mepc
           /\ WriteMtrap => UNCHANGED <<mstatus, sepc>>
           /\ WriteStrap => UNCHANGED <<mstatus, mepc>>
  <1>1. mstatus \in Mstatus
    BY DEF TypeOK
  <1> QED BY <1>1 DEF Mret, Sret, WriteSstatus, WriteMtrap, WriteStrap, Mstatus,
                      mtrap, strap

\* The frames are what the trap registers hold, whatever the guest does.
LEMMA ContextInv == CSpec => []CInv
  <1>1. CInit => CInv
    BY TrapConstants, ModeNumbers, DeadFrame, InitType DEF CInit, CInv, FramesKept
  <1>2. CInv /\ TypeOK' /\ [CNext]_cvars => CInv'
    <2> SUFFICES ASSUME CInv, TypeOK', [CNext]_cvars PROVE CInv'
      OBVIOUS
    <2>1. CASE Undisturbing /\ UNCHANGED frames
      BY <2>1, UndisturbingKeeps DEF CInv, FramesKept, frames, mtrap, strap
    <2>2. CASE WriteMstatus /\ mframe' = Dead /\ sframe' = Dead
      BY <2>2, DeadFrame DEF CInv, FramesKept
    <2>3. CASE (Mret \/ WriteMtrap) /\ mframe' = Dead /\ UNCHANGED sframe
      BY <2>3, DeadFrame, OtherLevel DEF CInv, FramesKept
    <2>4. CASE (Sret \/ WriteStrap \/ WriteSstatus) /\ sframe' = Dead /\ UNCHANGED mframe
      BY <2>4, DeadFrame, OtherLevel DEF CInv, FramesKept
    <2>5. CASE ContextException
      <3>1. pre_pc \in Nat
        BY DEF CInv, TypeOK, ControlType
      <3> QED BY <2>5, <3>1, PushKeeps DEF ContextException, TakeException, CInv
    <2>6. CASE ContextInterrupt
      <3>1. pc \in Nat
        BY DEF CInv, TypeOK, ControlType
      <3> QED BY <2>6, <3>1, PushKeeps DEF ContextInterrupt, Interrupt, CInv
    <2>7. CASE UNCHANGED cvars
      BY <2>7 DEF cvars, vars, frames, mtrap, strap, CInv, FramesKept
    <2> QED BY <2>1, <2>2, <2>3, <2>4, <2>5, <2>6, <2>7 DEF CNext
  <1> QED BY <1>1, <1>2, ContextType, PTL DEF CSpec

\* Nothing between a trap and its return disturbs the context it saved, and a
\* handler whose context is intact runs with its own level masked.
THEOREM ContextKept == CSpec => []FramesKept
  <1>1. CInv => FramesKept
    BY DEF CInv
  <1> QED BY <1>1, ContextInv, PTL

\* mret and sret give back the interrupted instruction, mode and interrupt enable.
THEOREM ReturnsResume == CSpec => ContextResumed
  <1>1. ASSUME CInv, Mret, mframe.live
        PROVE  pc' = mframe.pc /\ mode' = mframe.mode /\ mstatus'.mie = mframe.ie
    <2>1. mstatus \in Mstatus
      BY <1>1 DEF CInv, TypeOK
    <2> QED BY <1>1, <2>1 DEF CInv, FramesKept, Mret, Retire, Advance, Mstatus
  <1>2. ASSUME CInv, Sret, sframe.live, sframe.mode # MODE_H
        PROVE  pc' = sframe.pc /\ mode' = sframe.mode /\ mstatus'.sie = sframe.ie
    <2>1. mstatus \in Mstatus /\ mstatus' = [mstatus EXCEPT
              !.sie = mstatus.spie, !.spie = 1, !.spp = 0]
      BY <1>2 DEF CInv, TypeOK, Sret
    <2>2. sframe.mode \in {0, 1}
      BY <1>2, ModeNumbers DEF CInv, Frame
    <2>3. sframe.mode % 2 = sframe.mode
      BY <2>2
    <2> QED BY <1>2, <2>1, <2>3 DEF CInv, FramesKept, Sret, Retire, Advance, Mstatus
  <1>3. CInv => [/\ (Mret /\ mframe.live) =>
                       /\ pc' = mframe.pc /\ mode' = mframe.mode
                       /\ mstatus'.mie = mframe.ie
                 /\ (Sret /\ sframe.live /\ sframe.mode # MODE_H) =>
                       /\ pc' = sframe.pc /\ mode' = sframe.mode
                       /\ mstatus'.sie = sframe.ie]_cvars
    BY <1>1, <1>2
  <1> QED BY <1>3, ContextInv, PTL DEF ContextResumed

\* No handler with an intact context is interrupted at its own level.
THEOREM HandlersNotReentered == CSpec => NoReentry
  <1>1. CInv => [TakeInterrupt =>
                   /\ (mode = MODE_M => ~mframe.live)
                   /\ (mode = MODE_S /\ mode' = MODE_S => ~sframe.live)]_cvars
    <2> SUFFICES ASSUME CInv, TakeInterrupt
                 PROVE  /\ (mode = MODE_M => ~mframe.live)
                        /\ (mode = MODE_S /\ mode' = MODE_S => ~sframe.live)
      OBVIOUS
    <2>1. PICK i \in Takeable : RaiseIntr([intr |-> TRUE, code |-> i], pc)
      BY DEF TakeInterrupt, Interrupt
    <2>2. EnabledIn(mode, mstatus.mie, mstatus.sie, i)
      BY <2>1 DEF Takeable
    <2>3. CASE mode = MODE_M
      BY <2>2, <2>3, ModeNumbers DEF EnabledIn, CInv, FramesKept
    <2>4. CASE mode = MODE_S /\ mode' = MODE_S
      <3>1. i \in mideleg
        BY <2>1, <2>4, ModeNumbers DEF RaiseIntr, RaiseM, DelegS
      <3> QED BY <2>2, <2>4, <3>1, ModeNumbers DEF EnabledIn, CInv, FramesKept
    <2> QED BY <2>3, <2>4, ModeNumbers
  <1> QED BY <1>1, ContextInv, PTL DEF NoReentry
=============================================================================
