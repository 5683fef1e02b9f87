-------------------------------- MODULE Trap --------------------------------
(***************************************************************************)
(* Privilege, traps and interrupts of the emulated hart: the part of       *)
(* exec_once (cpu/cpu-exec.c) that surrounds an instruction.  One pass of  *)
(* execute() is three steps, in the order of the code:                     *)
(*                                                                         *)
(*   "exec"     isa_exec_once runs one instruction                         *)
(*   "devices"  update_device drives the timer and external lines of mip   *)
(*   "trap"     handle_irq_or_except raises the recorded exception or else *)
(*              asks isa_query_intr for an interrupt                       *)
(*                                                                         *)
(* Data is abstracted: an instruction is what it does to the privilege     *)
(* state, addresses are numbers in small sets, and the address of the next *)
(* instruction is any code address (branches and straight-line code are    *)
(* not told apart).  A set register (mip, mie, mideleg, medeleg) is the    *)
(* set of its bits that are one.                                           *)
(***************************************************************************)
EXTENDS MayflyIsa

CONSTANTS Pcs,            \* code addresses the guest runs at
          Faults,         \* exceptions that a memory access can record
          FaultAddrs,     \* addresses at which those accesses fault
          Lines,          \* interrupt lines that update_device drives
          \* what the guest writes to each control register:
          MstatusWrites, MipWrites, MieWrites, MidelegWrites, MedelegWrites,
          TvecWrites

Bit == 0 .. 1
Mstatus == [mie : Bit, mpie : Bit, mpp : Modes,
            sie : Bit, spie : Bit, spp : Bit]
Cause == [intr : BOOLEAN, code : 0 .. 15]
Tvec == [base : Nat, vectored : BOOLEAN]

ASSUME TrapConstants ==
    /\ Pcs \subseteq Nat
    /\ Faults \subseteq AddressExceptions
    /\ FaultAddrs \subseteq Nat
    /\ Lines \subseteq {IRQ_MTIP, IRQ_SEIP}
    /\ MstatusWrites \subseteq Mstatus
    /\ MipWrites \subseteq SUBSET IrqBits
    /\ MieWrites \subseteq SUBSET IrqBits
    /\ MidelegWrites \subseteq SUBSET IrqBits
    /\ MedelegWrites \subseteq SUBSET (0 .. 15)
    /\ TvecWrites \subseteq Tvec

VARIABLES
    phase,                 \* where exec_once is
    mode, pc, pre_pc,      \* cpu.mode, cpu.pc, cpu.pre_pc
    mstatus,
    mip, m_mie, mideleg, medeleg,
    mtvec, stvec,
    mepc, mcause, mtval,
    sepc, scause, stval,
    m_s_cause, m_s_tval,   \* the exception the instruction recorded
    is_except, is_irq      \* per-instruction flags, cleared by execute()

control == <<phase, mode, pc, pre_pc>>
lines   == <<mip, m_mie, mideleg>>
setup   == <<medeleg, mtvec, stvec>>
mtrap   == <<mepc, mcause, mtval>>
strap   == <<sepc, scause, stval>>
pending == <<m_s_cause, m_s_tval>>
flags   == <<is_except, is_irq>>
vars == <<control, mstatus, lines, setup, mtrap, strap, pending, flags>>

\* Reset state: main.c restart() on a zeroed CPU.
NoCause == [intr |-> FALSE, code |-> 0]
Init ==
    /\ phase = "exec" /\ mode = MODE_M
    /\ pc \in Pcs /\ pre_pc = 0
    /\ mstatus = [mie |-> 0, mpie |-> 0, mpp |-> MODE_M,
                  sie |-> 0, spie |-> 0, spp |-> 1]
    /\ mip = {} /\ m_mie = {} /\ mideleg = {} /\ medeleg = {}
    /\ mtvec = [base |-> 0, vectored |-> FALSE]
    /\ stvec = [base |-> 0, vectored |-> FALSE]
    /\ mepc = 0 /\ mcause = NoCause /\ mtval = 0
    /\ sepc = 0 /\ scause = NoCause /\ stval = 0
    /\ m_s_cause = 0 /\ m_s_tval = 0
    /\ is_except = 0 /\ is_irq = 0

-----------------------------------------------------------------------------
(* Phase "exec".  execute() clears the flags, isa_exec_once runs the       *)
(* instruction, and exec_once then moves pc to pre_pc and dnpc to pc.      *)

Advance(dnpc) ==
    /\ phase = "exec" /\ phase' = "devices"
    /\ pre_pc' = pc
    /\ pc' = dnpc
    /\ is_irq' = 0

\* An instruction that completes and goes on at dnpc.
Retire(dnpc) == Advance(dnpc) /\ is_except' = 0 /\ UNCHANGED pending

\* An instruction that records exception e.  dnpc is the address after it or,
\* when the fetch itself faulted, whatever the previous instruction left.
Record(e) == /\ \E dnpc \in Pcs : Advance(dnpc)
             /\ is_except' = 1
             /\ m_s_cause' = e

\* Arithmetic, branches, loads, stores, fences, wfi.
Plain == /\ \E dnpc \in Pcs : Retire(dnpc)
         /\ UNCHANGED <<mode, mstatus, lines, setup, mtrap, strap>>

\* A store to the software-interrupt register of the CLINT.
StoreMsip == /\ \E dnpc \in Pcs : Retire(dnpc)
             /\ mip' \in {mip \cup {IRQ_MSIP}, mip \ {IRQ_MSIP}}
             /\ UNCHANGED <<mode, mstatus, m_mie, mideleg, setup, mtrap, strap>>

\* A fetch, load or store that the address translation or the alignment check
\* refuses.
MemoryFault == /\ \E e \in Faults : Record(e)
               /\ m_s_tval' \in FaultAddrs
               /\ UNCHANGED <<mode, mstatus, lines, setup, mtrap, strap>>

\* A CSR instruction on an address that csr_read refuses, in this mode or in
\* every mode.  m_s_tval gets the instruction word, which raise_intr drops.
IllegalCsr == /\ Record(EX_II)
              /\ m_s_tval' \in FaultAddrs
              /\ UNCHANGED <<mode, mstatus, lines, setup, mtrap, strap>>

Ecall == /\ Record(CASE mode = MODE_M -> EX_ECM
                     [] mode = MODE_S -> EX_ECS
                     [] OTHER         -> EX_ECU)
         /\ UNCHANGED m_s_tval
         /\ UNCHANGED <<mode, mstatus, lines, setup, mtrap, strap>>

\* Mutated: mpie is set before it is copied to mie.
MretSwapped == /\ Retire(mepc)
               /\ mode' = mstatus.mpp
               /\ mstatus' = [mstatus EXCEPT !.mie = 1, !.mpie = 1, !.mpp = MODE_U]
               /\ UNCHANGED <<lines, setup, mtrap, strap>>

\* Neither return checks the mode it runs in.
Mret == /\ Retire(mepc)
        /\ mode' = mstatus.mpp
        /\ mstatus' = [mstatus EXCEPT !.mie = mstatus.mpie, !.mpie = 1, !.mpp = MODE_U]
        /\ UNCHANGED <<lines, setup, mtrap, strap>>

\* Mutated: the machine enable bit is restored instead of the supervisor one.
SretMie == /\ Retire(sepc)
           /\ mode' = mstatus.spp
           /\ mstatus' = [mstatus EXCEPT !.mie = mstatus.spie, !.spie = 1, !.spp = 0]
           /\ UNCHANGED <<lines, setup, mtrap, strap>>

\* Mutated: the mode comes from the machine's previous mode.
SretMpp == /\ Retire(sepc)
           /\ mode' = mstatus.mpp
           /\ mstatus' = [mstatus EXCEPT !.sie = mstatus.spie, !.spie = 1, !.spp = 0]
           /\ UNCHANGED <<lines, setup, mtrap, strap>>

Sret == /\ Retire(sepc)
        /\ mode' = mstatus.spp
        /\ mstatus' = [mstatus EXCEPT !.sie = mstatus.spie, !.spie = 1, !.spp = 0]
        /\ UNCHANGED <<lines, setup, mtrap, strap>>

\* The CSR instructions that end in a csr_write.  The addresses of the machine
\* registers are above 0x200 and so need machine mode; the supervisor ones are
\* open to every mode.
Csr == \E dnpc \in Pcs : Retire(dnpc) /\ UNCHANGED mode
MachineCsr == mode = MODE_M /\ Csr

WriteMstatus == /\ MachineCsr /\ mstatus' \in MstatusWrites
                /\ UNCHANGED <<lines, setup, mtrap, strap>>

\* Through sstatus (0xde762) only sie, spie and spp of these bits are written.
WriteSstatus == /\ Csr
                /\ \E v \in MstatusWrites :
                     mstatus' = [mstatus EXCEPT !.sie = v.sie, !.spie = v.spie,
                                                !.spp = v.spp]
                /\ UNCHANGED <<lines, setup, mtrap, strap>>

Masked(old, v) == (old \ SupervisorBits) \cup (v \cap SupervisorBits)

WriteIrqCsr ==
    /\ \/ /\ MachineCsr
          /\ \/ mip' \in MipWrites /\ UNCHANGED <<m_mie, mideleg>>
             \/ m_mie' \in MieWrites /\ UNCHANGED <<mip, mideleg>>
             \/ mideleg' \in MidelegWrites /\ UNCHANGED <<mip, m_mie>>
       \/ /\ Csr
          /\ \/ /\ \E v \in MipWrites : mip' = Masked(mip, v)
                /\ UNCHANGED <<m_mie, mideleg>>
             \/ /\ \E v \in MieWrites : m_mie' = Masked(m_mie, v)
                /\ UNCHANGED <<mip, mideleg>>
    /\ UNCHANGED <<mstatus, setup, mtrap, strap>>

WriteSetup ==
    /\ \/ MachineCsr /\ medeleg' \in MedelegWrites /\ UNCHANGED <<mtvec, stvec>>
       \/ MachineCsr /\ mtvec' \in TvecWrites /\ UNCHANGED <<medeleg, stvec>>
       \/ Csr /\ stvec' \in TvecWrites /\ UNCHANGED <<medeleg, mtvec>>
    /\ UNCHANGED <<mstatus, lines, mtrap, strap>>

\* Of the values a guest writes to xcause and xtval only zero is enumerated:
\* nothing in the machine reads these registers.
WriteMtrap ==
    /\ MachineCsr
    /\ \/ mepc' \in Pcs /\ UNCHANGED <<mcause, mtval>>
       \/ mcause' = NoCause /\ UNCHANGED <<mepc, mtval>>
       \/ mtval' = 0 /\ UNCHANGED <<mepc, mcause>>
    /\ UNCHANGED <<mstatus, lines, setup, strap>>

WriteStrap ==
    /\ Csr
    /\ \/ sepc' \in Pcs /\ UNCHANGED <<scause, stval>>
       \/ scause' = NoCause /\ UNCHANGED <<sepc, stval>>
       \/ stval' = 0 /\ UNCHANGED <<sepc, scause>>
    /\ UNCHANGED <<mstatus, lines, setup, mtrap>>

Instruction ==
    \/ Plain \/ StoreMsip \/ MemoryFault \/ IllegalCsr \/ Ecall \/ Mret \/ Sret
    \/ WriteMstatus \/ WriteSstatus \/ WriteIrqCsr \/ WriteSetup
    \/ WriteMtrap \/ WriteStrap

-----------------------------------------------------------------------------
(* Phase "devices".  The CLINT assigns mip.mtip and the PLIC mip.seip on   *)
(* every step, whatever the guest wrote there; which levels they drive is  *)
(* the subject of modules Aclint and Plic.                                 *)

UpdateDevice ==
    /\ phase = "devices" /\ phase' = "trap"
    /\ \E high \in SUBSET Lines : mip' = (mip \ {IRQ_MTIP, IRQ_SEIP}) \cup high
    /\ UNCHANGED <<mode, pc, pre_pc, mstatus, m_mie, mideleg,
                   setup, mtrap, strap, pending, flags>>

-----------------------------------------------------------------------------
(* Phase "trap".                                                           *)

\* isa_query_intr: interrupt i is enabled in mode m under these global bits.
EnabledIn(m, mie, sie, i) ==
    IF i \in mideleg
    THEN m < MODE_S \/ (m = MODE_S /\ sie = 1)
    ELSE m < MODE_M \/ (m = MODE_M /\ mie = 1)

Candidates == mip \cap m_mie \cap Examined
Takeable == {i \in Candidates : EnabledIn(mode, mstatus.mie, mstatus.sie, i)}

\* get_trap_pc
TrapPc(tvec, cause) ==
    IF cause.intr /\ tvec.vectored THEN tvec.base + 4 * cause.code ELSE tvec.base

TrapValue(cause) ==
    IF ~cause.intr /\ cause.code \in AddressExceptions THEN m_s_tval ELSE 0

\* Mutated: machine mode delegates like the others.
DelegAnyMode(cause) == cause.code \in IF cause.intr THEN mideleg ELSE medeleg

\* intr_deleg_S
DelegS(cause) == /\ mode < MODE_M
                 /\ cause.code \in IF cause.intr THEN mideleg ELSE medeleg

\* Mutated: the previous mode is stored whole.
RaiseSWide(cause, epc) ==
    /\ scause' = cause /\ sepc' = epc /\ stval' = TrapValue(cause)
    /\ mstatus' = [mstatus EXCEPT !.spp = mode, !.spie = mstatus.sie, !.sie = 0]
    /\ mode' = MODE_S
    /\ pc' = TrapPc(stvec, cause)
    /\ UNCHANGED mtrap

\* Mutated: sie is cleared before it is saved.
RaiseSSwapped(cause, epc) ==
    /\ scause' = cause /\ sepc' = epc /\ stval' = TrapValue(cause)
    /\ mstatus' = [mstatus EXCEPT !.spp = mode % 2, !.spie = 0, !.sie = 0]
    /\ mode' = MODE_S
    /\ pc' = TrapPc(stvec, cause)
    /\ UNCHANGED mtrap

\* Mutated: supervisor interrupts stay enabled.
RaiseSOpen(cause, epc) ==
    /\ scause' = cause /\ sepc' = epc /\ stval' = TrapValue(cause)
    /\ mstatus' = [mstatus EXCEPT !.spp = mode % 2, !.spie = mstatus.sie]
    /\ mode' = MODE_S
    /\ pc' = TrapPc(stvec, cause)
    /\ UNCHANGED mtrap

\* raise_intr.  spp is one bit wide.
RaiseS(cause, epc) ==
    /\ scause' = cause /\ sepc' = epc /\ stval' = TrapValue(cause)
    /\ mstatus' = [mstatus EXCEPT !.spp = mode % 2, !.spie = mstatus.sie, !.sie = 0]
    /\ mode' = MODE_S
    /\ pc' = TrapPc(stvec, cause)
    /\ UNCHANGED mtrap

\* Mutated: machine interrupts stay enabled.
RaiseMOpen(cause, epc) ==
    /\ mcause' = cause /\ mepc' = epc /\ mtval' = TrapValue(cause)
    /\ mstatus' = [mstatus EXCEPT !.mpp = mode, !.mpie = mstatus.mie]
    /\ mode' = MODE_M
    /\ pc' = TrapPc(mtvec, cause)
    /\ UNCHANGED strap

RaiseM(cause, epc) ==
    /\ mcause' = cause /\ mepc' = epc /\ mtval' = TrapValue(cause)
    /\ mstatus' = [mstatus EXCEPT !.mpp = mode, !.mpie = mstatus.mie, !.mie = 0]
    /\ mode' = MODE_M
    /\ pc' = TrapPc(mtvec, cause)
    /\ UNCHANGED strap

RaiseIntr(cause, epc) ==
    /\ DelegS(cause) => RaiseS(cause, epc)
    /\ ~DelegS(cause) => RaiseM(cause, epc)

HandleTrap == /\ phase = "trap" /\ phase' = "exec"
              /\ UNCHANGED <<pre_pc, lines, setup, pending, is_except>>

\* Mutated: the exception returns to the next instruction.
TakeExceptionNext ==
    /\ HandleTrap
    /\ is_except = 1
    /\ RaiseIntr([intr |-> FALSE, code |-> m_s_cause], pc)
    /\ UNCHANGED is_irq

TakeException ==
    /\ HandleTrap
    /\ is_except = 1
    /\ RaiseIntr([intr |-> FALSE, code |-> m_s_cause], pre_pc)
    /\ UNCHANGED is_irq

Interrupt(i) ==
    /\ HandleTrap
    /\ is_except = 0
    /\ \A j \in Takeable : ~Before(j, i)
    /\ RaiseIntr([intr |-> TRUE, code |-> i], pc)
    /\ is_irq' = 1

TakeInterrupt == \E i \in Takeable : Interrupt(i)

NoTrap ==
    /\ HandleTrap
    /\ is_except = 0 /\ Takeable = {}
    /\ UNCHANGED <<mode, pc, mstatus, mtrap, strap, is_irq>>

Next == Instruction \/ UpdateDevice \/ TakeException \/ TakeInterrupt \/ NoTrap

Spec == Init /\ [][Next]_vars

-----------------------------------------------------------------------------
(* What must hold.                                                         *)

\* Every variable keeps the shape of the C field it stands for; in particular
\* a trap never leaves more in spp than one bit.
ControlType == /\ phase \in {"exec", "devices", "trap"}
               /\ mode \in Modes /\ pc \in Nat /\ pre_pc \in Nat
LinesType == /\ mip \in SUBSET IrqBits /\ m_mie \in SUBSET IrqBits
             /\ mideleg \in SUBSET IrqBits
SetupType == medeleg \in SUBSET (0 .. 15) /\ mtvec \in Tvec /\ stvec \in Tvec
MtrapType == mepc \in Nat /\ mcause \in Cause /\ mtval \in Nat
StrapType == sepc \in Nat /\ scause \in Cause /\ stval \in Nat
PendingType == m_s_cause \in 0 .. 15 /\ m_s_tval \in Nat
FlagsType == is_except \in Bit /\ is_irq \in Bit

TypeOK == /\ ControlType /\ mstatus \in Mstatus /\ LinesType /\ SetupType
          /\ MtrapType /\ StrapType /\ PendingType /\ FlagsType

\* The context a trap into mode saved: the mode it left and the global enable
\* bits that were in force there.
ToM == mode = MODE_M
SavedMode == IF ToM THEN mstatus.mpp ELSE mstatus.spp
SavedMie  == IF ToM THEN mstatus.mpie ELSE mstatus.mie
SavedSie  == IF ToM THEN mstatus.sie ELSE mstatus.spie
TrapCause == IF ToM THEN mcause ELSE scause

\* When the hart has just taken an interrupt, the context it saved is one in
\* which that interrupt was pending, enabled and the first in priority among
\* those enabled, and the handler runs at the vector of that cause: delegation,
\* the global bits and the search order of isa_query_intr agree with what
\* raise_intr stacked.
InterruptJustified ==
    (phase = "exec" /\ is_irq = 1) =>
        /\ TrapCause.intr
        /\ TrapCause.code \in Candidates
        /\ EnabledIn(SavedMode, SavedMie, SavedSie, TrapCause.code)
        /\ \A j \in Candidates :
              EnabledIn(SavedMode, SavedMie, SavedSie, j)
                  => ~Before(j, TrapCause.code)
        /\ pc = TrapPc(IF ToM THEN mtvec ELSE stvec, TrapCause)

\* When the hart has just taken an exception, the handler sees the instruction
\* that caused it (not the stale or uninitialized dnpc of a failed fetch), the
\* faulting address for an address exception and zero otherwise, in the mode
\* delegation asks for; an environment call names the mode it came from.
ExceptionDelivered ==
    (phase = "exec" /\ is_except = 1) =>
        /\ TrapCause = [intr |-> FALSE, code |-> m_s_cause]
        /\ pre_pc = IF ToM THEN mepc ELSE sepc
        /\ TrapValue(TrapCause) = IF ToM THEN mtval ELSE stval
        /\ IF ToM THEN SavedMode = MODE_M \/ m_s_cause \notin medeleg
                  ELSE mode = MODE_S /\ m_s_cause \in medeleg
        /\ m_s_cause = EX_ECM <=> (m_s_cause \in {EX_ECU, EX_ECS, EX_ECM}
                                     /\ SavedMode = MODE_M)
        /\ m_s_cause = EX_ECS => SavedMode = MODE_S
        /\ m_s_cause = EX_ECU => SavedMode # MODE_S
        /\ is_irq = 0
        /\ pc = (IF ToM THEN mtvec ELSE stvec).base

\* What can still be taken when the next instruction starts.  The pass that enters a
\* handler looks for no second trap, but what it leaves behind waits for that handler
\* only if it is meant for machine mode: a handler never finds an interrupt of its own
\* level enabled, and one it is yet open to comes behind the interrupt that entered it.
EntryMasks ==
    (phase = "exec" /\ Takeable # {}) =>
        /\ is_except = 1 \/ is_irq = 1
        /\ mode = MODE_S /\ Takeable \cap mideleg = {}
        /\ is_irq = 1 => \A j \in Takeable : Before(TrapCause.code, j)

\* A trap never lowers the privilege of the hart: nothing is delegated away from
\* machine mode and no interrupt of a lower level preempts a higher one.  (A
\* guest that puts the reserved value 2 in mpp and returns is outside this.)
TrapNeverLowersMode ==
    [][(phase = "trap" /\ mode # MODE_H) => mode' >= mode]_vars
=============================================================================
