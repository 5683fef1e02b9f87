------------------------------ MODULE Difftest ------------------------------
(***************************************************************************)
(* Differential testing (cpu/difftest.c, tools/spike-diff/difftest.cc):    *)
(* after every instruction exec_once has the reference simulator execute   *)
(* it as well and compares registers.  What touches a device, and what is  *)
(* skipped, is not executed by the reference, which gets the registers of  *)
(* this emulator instead.  Neither way carries everything: memory,         *)
(* mscratch and sscratch are never copied, and mip is not compared.        *)
(*                                                                         *)
(* A hart is what tells these apart: a general register, a word of memory, *)
(* a scratch register, the level it runs at (a program; a supervisor       *)
(* handler, which machine interrupts interrupt; a machine handler, which   *)
(* none does) and one interrupt.  The reference is Spike; only its         *)
(* interface is in this repository.                                        *)
(***************************************************************************)
EXTENDS Integers

CONSTANTS Kinds,       \* the instructions the guest executes
          Values       \* of registers and memory

Bit == 0 .. 1
Hart == [x : Values, ram : Values, scratch : Values,
         level : {"user", "trap", "irq"},
         back : {"user", "trap"},      \* mpp and mepc of the machine handler
         enabled : BOOLEAN,            \* mie
         pending : Bit]                \* mip

ASSUME DifftestConstants ==
    /\ Bit \subseteq Values
    /\ Kinds \subseteq
                    {"set", "load", "store", "load device", "store device",
                     "write scratch", "read scratch", "enable", "disable", "read mip",
                     "ecall", "missing csr", "return", "ebreak"}

VARIABLES dut, ref,
          keeps,       \* whether the mip that is written to the reference stays there
          run,         \* mayfly_state.state
          last,        \* history: the last instruction, whether an interrupt followed it and
                       \* whether it was the first to go wrong
          defect,      \* history: some instruction of this emulator went wrong
          skewed       \* history: the reference took an interrupt of its own accord

dvars == <<dut, ref, keeps, run, last, defect, skewed>>

\* init_difftest copies all of memory and the registers; nothing is in the scratch
\* registers yet.
DiffInit ==
    /\ dut = [x |-> 0, ram |-> 0, scratch |-> 0, level |-> "user", back |-> "user",
              enabled |-> TRUE, pending |-> 0]
    /\ ref = dut /\ keeps \in BOOLEAN
    /\ run = "RUNNING"
    /\ last = [kind |-> "set", irq |-> FALSE, first |-> FALSE] /\ defect = FALSE /\ skewed = FALSE

-----------------------------------------------------------------------------
(* What an instruction does to a hart.                                     *)

\* The instructions of each level: handlers raise no exceptions of their own, and
\* what would be illegal at a level is, like "ecall", an exception.
Allowed(level) ==
    Kinds \ CASE level = "user" -> {"write scratch", "read scratch", "enable", "disable",
                                    "read mip", "return"}
              [] level = "trap" -> {"enable", "disable", "ecall", "missing csr", "ebreak"}
              [] OTHER          -> {"ecall", "missing csr", "ebreak"}

Excepts(i) == i \in {"ecall", "missing csr"}
\* Neither is_mmio nor is_diff_skip.
RefExecutes(i) == i \notin {"load device", "store device", "missing csr"}
WritesX(i) == i \in {"set", "load", "load device", "read scratch", "read mip"}

\* v is a constant of the instruction or the answer of the device.
Execute(h, i, v) ==
    CASE i \in {"set", "load device"} -> [h EXCEPT !.x = v]
      [] i = "load"          -> [h EXCEPT !.x = h.ram]
      [] i = "read scratch"  -> [h EXCEPT !.x = h.scratch]
      [] i = "read mip"      -> [h EXCEPT !.x = h.pending]
      [] i = "store"         -> [h EXCEPT !.ram = h.x]
      [] i = "write scratch" -> [h EXCEPT !.scratch = h.x]
      [] i \in {"enable", "disable"} -> [h EXCEPT !.enabled = i = "enable"]
      [] i = "return"        -> [h EXCEPT !.level = IF h.level = "irq" THEN h.back ELSE "user"]
      [] Excepts(i)          -> [h EXCEPT !.level = "trap"]
      [] OTHER               -> h

\* What this emulator may make of it if it has a defect there.
Wrong(h, i, v) ==
    LET right == Execute(h, i, v) IN
    CASE WritesX(i)  -> {[right EXCEPT !.x = w] : w \in Values \ {right.x}}
      [] i = "store" -> {[right EXCEPT !.ram = w] : w \in Values \ {right.ram}}
      [] Excepts(i)  -> {h}
      [] OTHER       -> {}

\* Mutated: the machine handler is interrupted as well.
InterruptibleAlways(h) == h.pending = 1 /\ h.enabled

Interruptible(h) == h.pending = 1 /\ h.enabled /\ h.level # "irq"
Interrupted(h) == [h EXCEPT !.level = "irq", !.back = h.level]

-----------------------------------------------------------------------------
(* The reference.                                                          *)

\* difftest_exec(1): an interrupt uses up the step; ebreak is an exception here
\* and the end of the program in this emulator.
RefExec(i, v) ==
    IF Interruptible(ref) THEN Interrupted(ref)
    ELSE IF i = "ebreak" THEN [ref EXCEPT !.level = "trap"]
    ELSE Execute(ref, i, v)

\* diff_set_regs into r
RegCpy(h, r) ==
    [h EXCEPT !.ram = r.ram, !.scratch = r.scratch,
              !.pending = IF keeps THEN h.pending ELSE r.pending]

\* Mutated: mip is compared as well.
CheckAll(h, r) == /\ h.x = r.x /\ h.level = r.level /\ h.back = r.back
                  /\ h.enabled = r.enabled /\ h.pending = r.pending

\* Mutated: the mode is not compared.
CheckRegsOnly(h, r) == h.x = r.x

\* isa_difftest_checkregs: all but mip and the scratch registers.
CheckRegs(h, r) == /\ h.x = r.x /\ h.level = r.level /\ h.back = r.back
                   /\ h.enabled = r.enabled

\* Mutated: the reference does not execute what an interrupt follows.
StepNoExec(h, i, v, is_irq) ==
    IF ~RefExecutes(i) \/ is_irq
    THEN ref' = RegCpy(h, ref) /\ run' = IF i = "ebreak" THEN "END" ELSE run
    ELSE /\ ref' = RefExec(i, v)
         /\ run' = IF CheckRegs(h, ref') THEN run ELSE "ABORT"

\* difftest_step, with h the hart of this emulator after the trap.
DifftestStep(h, i, v, is_irq) ==
    LET ended == IF i = "ebreak" THEN "END" ELSE run IN
    IF ~RefExecutes(i)
    THEN ref' = RegCpy(h, ref) /\ run' = ended
    ELSE IF is_irq
    THEN ref' = RegCpy(h, RefExec(i, v)) /\ run' = ended
    ELSE /\ ref' = RefExec(i, v)
         /\ run' = IF CheckRegs(h, ref') THEN ended ELSE "ABORT"

-----------------------------------------------------------------------------
(* exec_once: the instruction, update_device, handle_irq_or_except and     *)
(* difftest_step.                                                          *)

\* A line goes up at any time and down when the guest tells the device so.
LineAfter(i) == {dut.pending, 1} \cup IF i = "store device" THEN {0} ELSE {}

ExecOnce ==
    /\ run = "RUNNING"
    /\ \E i \in Allowed(dut.level), v \in Values :
         \E line \in LineAfter(i), done \in {Execute(dut, i, v)} \cup Wrong(dut, i, v) :
            LET wrong == done # Execute(dut, i, v)
                driven == [done EXCEPT !.pending = line]
                is_except == Excepts(i) /\ done.level = "trap"
                is_irq == ~is_except /\ Interruptible(driven)
            IN /\ dut' = IF is_irq THEN Interrupted(driven) ELSE driven
               /\ DifftestStep(dut', i, v, is_irq)
               /\ last' = [kind |-> i, irq |-> is_irq, first |-> wrong /\ ~defect]
               /\ defect' = (defect \/ wrong)
               /\ skewed' = (skewed \/ (RefExecutes(i) /\ Interruptible(ref)))
    /\ UNCHANGED keeps

Ended == run # "RUNNING" /\ UNCHANGED dvars

DiffNext == ExecOnce \/ Ended
DiffSpec == DiffInit /\ [][DiffNext]_dvars

-----------------------------------------------------------------------------
DiffTypeOK ==
    /\ dut \in Hart /\ ref \in Hart /\ keeps \in BOOLEAN
    /\ run \in {"RUNNING", "END", "ABORT"} /\ last.kind \in Kinds \cup {"set"}
    /\ defect \in BOOLEAN /\ skewed \in BOOLEAN

\* Whatever mixture of comparing and copying it got here by, the reference runs the
\* same instruction next with the same registers; and where this emulator is right,
\* with the same memory and scratch registers, although nothing ever copies them.
LockStep ==
    run = "RUNNING" =>
        /\ CheckRegs(dut, ref)
        /\ (~defect /\ ~skewed) => dut.ram = ref.ram /\ dut.scratch = ref.scratch

\* A correct emulator is not accused, except at an instruction that reads mip, which
\* the reference has not got, and at the ebreak that ends the program, or after the
\* reference has taken an interrupt itself.
AlarmsExplained ==
    (run = "ABORT" /\ ~defect /\ ~skewed) => last.kind \in {"read mip", "ebreak"}

\* The first defect that shows in a register ends the run at the very instruction,
\* unless the reference did not execute that one, or an interrupt followed it, when
\* the wrong value is copied over the right one, or it reads mip, of which the
\* reference may have a wrong value of its own.
DefectsFound ==
    (last.first /\ last.kind \notin {"store", "read mip"} /\ RefExecutes(last.kind)
     /\ ~last.irq /\ ~skewed)
        => run = "ABORT"
=============================================================================
