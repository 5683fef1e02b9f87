---------------------------- MODULE TrapContext ----------------------------
(***************************************************************************)
(* Trap with a history of what each level of handler interrupted.  mframe  *)
(* (sframe) is the context that the last trap into machine (supervisor)    *)
(* mode left, for as long as the guest itself has not replaced it: it dies *)
(* at the matching return and at a CSR instruction that writes a register  *)
(* it lives in.  The frames are history variables: no action reads them.   *)
(***************************************************************************)
EXTENDS Trap

VARIABLES mframe, sframe

Frame == [live : BOOLEAN, pc : Nat, mode : Modes, ie : Bit]
Dead == [live |-> FALSE, pc |-> 0, mode |-> MODE_U, ie |-> 0]

frames == <<mframe, sframe>>
cvars == <<vars, frames>>

CInit == Init /\ mframe = Dead /\ sframe = Dead

\* The trap of cause that interrupts the instruction stream at epc pushes the
\* present context as a frame of the level it goes to.
Push(cause, epc) ==
    LET frame(ie) == [live |-> TRUE, pc |-> epc, mode |-> mode, ie |-> ie]
    IN IF DelegS(cause)
       THEN sframe' = frame(mstatus.sie) /\ UNCHANGED mframe
       ELSE mframe' = frame(mstatus.mie) /\ UNCHANGED sframe

ContextException ==
    TakeException /\ Push([intr |-> FALSE, code |-> m_s_cause], pre_pc)

ContextInterrupt ==
    \E i \in Takeable : Interrupt(i) /\ Push([intr |-> TRUE, code |-> i], pc)

\* Everything that neither traps, returns nor writes the saved context.  Writing
\* sstatus or the supervisor trap registers leaves the machine frame alone.
Undisturbing ==
    \/ Plain \/ StoreMsip \/ MemoryFault \/ IllegalCsr \/ Ecall
    \/ WriteIrqCsr \/ WriteSetup \/ UpdateDevice \/ NoTrap

CNext ==
    \/ Undisturbing /\ UNCHANGED frames
    \/ WriteMstatus /\ mframe' = Dead /\ sframe' = Dead
    \/ (Mret \/ WriteMtrap) /\ mframe' = Dead /\ UNCHANGED sframe
    \/ (Sret \/ WriteStrap \/ WriteSstatus) /\ sframe' = Dead /\ UNCHANGED mframe
    \/ ContextException
    \/ ContextInterrupt

CSpec == CInit /\ [][CNext]_cvars

-----------------------------------------------------------------------------
CTypeOK == TypeOK /\ mframe \in Frame /\ sframe \in Frame

\* A live frame is what mepc, mpp and mpie (sepc, spp and spie) still hold, and
\* its level is masked: nothing that runs between a trap and its return, traps
\* into the other level included, disturbs the saved context.  (spp cannot name
\* the reserved mode.)
FramesKept ==
    /\ mframe.live =>
         /\ mepc = mframe.pc /\ mstatus.mpp = mframe.mode
         /\ mstatus.mpie = mframe.ie /\ mstatus.mie = 0
    /\ sframe.live =>
         /\ sepc = sframe.pc /\ mstatus.spp = sframe.mode % 2
         /\ mstatus.spie = sframe.ie /\ mstatus.sie = 0

\* The return of an undisturbed handler resumes exactly the interrupted context:
\* the instruction, the mode and the interrupt enable.
ContextResumed ==
    [][/\ (Mret /\ mframe.live) =>
            /\ pc' = mframe.pc /\ mode' = mframe.mode
            /\ mstatus'.mie = mframe.ie
       /\ (Sret /\ sframe.live /\ sframe.mode # MODE_H) =>
            /\ pc' = sframe.pc /\ mode' = sframe.mode
            /\ mstatus'.sie = sframe.ie]_cvars

\* A handler that neither returned nor rewrote its saved context is not itself
\* interrupted at its own level, so its frame is never overwritten by an
\* interrupt; only an exception of its own can do that.
NoReentry ==
    [][TakeInterrupt =>
         /\ (mode = MODE_M => ~mframe.live)
         /\ (mode = MODE_S /\ mode' = MODE_S => ~sframe.live)]_cvars
=============================================================================
