----------------------------- MODULE MayflyIsa -----------------------------
(***************************************************************************)
(* The enumerations of the emulator (cpu/mayfly_isa.h, system/intr.c) that *)
(* the other modules share: privilege modes, exception numbers, interrupt  *)
(* numbers, and the fixed order in which pending interrupts are examined.  *)
(***************************************************************************)
EXTENDS Integers, Sequences

\* Privilege modes.  MODE_H is not a mode of the emulated hart, yet the two
\* bits of mstatus.mpp can hold it and mret would install it.
MODE_U == 0
MODE_S == 1
MODE_H == 2
MODE_M == 3
Modes == MODE_U .. MODE_M

\* Exception numbers.
EX_IAM == 0
EX_IAF == 1
EX_II  == 2
EX_BP  == 3
EX_LAM == 4
EX_LAF == 5
EX_SAM == 6
EX_SAF == 7
EX_ECU == 8
EX_ECS == 9
EX_ECM == 11
EX_IPF == 12
EX_LPF == 13
EX_SPF == 15

\* The exceptions whose xtval is the faulting address; every other trap
\* leaves zero in xtval.
AddressExceptions ==
    {EX_IPF, EX_LPF, EX_SPF, EX_LAM, EX_SAM, EX_IAF, EX_LAF, EX_SAF}

\* Interrupt numbers, which are also bit positions in mip, mie and mideleg.
IRQ_USIP == 0
IRQ_SSIP == 1
IRQ_MSIP == 3
IRQ_UTIP == 4
IRQ_STIP == 5
IRQ_MTIP == 7
IRQ_UEIP == 8
IRQ_SEIP == 9
IRQ_MEIP == 11
IrqBits == 0 .. 11

\* isa_query_intr examines the bits in this order; bits 2, 6 and 10 (the
\* hypervisor ones) are never examined.
priority == << IRQ_MEIP, IRQ_MSIP, IRQ_MTIP,
               IRQ_SEIP, IRQ_SSIP, IRQ_STIP,
               IRQ_UEIP, IRQ_USIP, IRQ_UTIP >>
Examined == {priority[n] : n \in 1 .. 9}
Before(i, j) == \E m, n \in 1 .. 9 :
                    m < n /\ priority[m] = i /\ priority[n] = j

\* The bits of mip and mie that a supervisor sees through sip and sie (0x222).
SupervisorBits == {IRQ_SSIP, IRQ_STIP, IRQ_SEIP}
=============================================================================
