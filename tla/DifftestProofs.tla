--------------------------- MODULE DifftestProofs ---------------------------
(***************************************************************************)
(* Proofs of the invariants of Difftest for every set of instructions and  *)
(* every set of values.  The four are inductive together: that no alarm is *)
(* false and no defect missed rests on the lock step, and the lock step    *)
(* needs nothing but the types.                                            *)
(***************************************************************************)
EXTENDS Difftest, TLAPS

LEMMA ExecuteType ==
    ASSUME NEW h \in Hart, NEW i, NEW v \in Values
    PROVE  Execute(h, i, v) \in Hart
  BY DifftestConstants DEF Execute, Hart, Excepts, Bit

LEMMA WrongType ==
    ASSUME NEW h \in Hart, NEW i, NEW v \in Values, NEW w \in Wrong(h, i, v)
    PROVE  w \in Hart
  <1> DEFINE right == Execute(h, i, v)
  <1>1. right \in Hart  BY ExecuteType
  <1>2. \A u \in Values : [right EXCEPT !.x = u] \in Hart /\ [right EXCEPT !.ram = u] \in Hart
    BY <1>1 DEF Hart
  <1> QED  BY <1>2 DEF Wrong

LEMMA WrongRegister ==
    ASSUME NEW h \in Hart, NEW i, NEW v \in Values, NEW w \in Wrong(h, i, v), WritesX(i)
    PROVE  w.x # Execute(h, i, v).x
  <1> DEFINE right == Execute(h, i, v)
  <1>1. right \in Hart  BY ExecuteType
  <1>2. \A u \in Values \ {right.x} : [right EXCEPT !.x = u].x # right.x
    BY <1>1 DEF Hart
  <1> QED  BY <1>2 DEF Wrong, WritesX, Excepts

LEMMA InterruptedType ==
    ASSUME NEW h \in Hart, Interruptible(h)
    PROVE  Interrupted(h) \in Hart
  BY DEF Interruptible, Interrupted, Hart

LEMMA RefExecType ==
    ASSUME ref \in Hart, NEW i, NEW v \in Values
    PROVE  RefExec(i, v) \in Hart
  <1>1. [ref EXCEPT !.level = "trap"] \in Hart  BY DEF Hart
  <1> QED  BY <1>1, ExecuteType, InterruptedType DEF RefExec

LEMMA RegCpyType ==
    ASSUME NEW h \in Hart, NEW r \in Hart
    PROVE  RegCpy(h, r) \in Hart
  BY DEF RegCpy, Hart

-----------------------------------------------------------------------------
(* Two harts that agree still agree after the same instruction, but for    *)
(* what it reads from mip.                                                 *)

LEMMA SameMemory ==
    ASSUME NEW h \in Hart, NEW r \in Hart, NEW i, NEW v,
           CheckRegs(h, r), h.ram = r.ram, h.scratch = r.scratch
    PROVE  /\ Execute(h, i, v).ram = Execute(r, i, v).ram
           /\ Execute(h, i, v).scratch = Execute(r, i, v).scratch
  BY DEF CheckRegs, Execute, Excepts, Hart

LEMMA SameRegisters ==
    ASSUME NEW h \in Hart, NEW r \in Hart, NEW i, NEW v,
           CheckRegs(h, r), h.ram = r.ram, h.scratch = r.scratch, i # "read mip"
    PROVE  CheckRegs(Execute(h, i, v), Execute(r, i, v))
  BY DEF CheckRegs, Execute, Excepts, Hart

\* A device instruction and a register that is missing leave memory alone.
LEMMA SkippedMemory ==
    ASSUME NEW h \in Hart, NEW i, NEW v, ~RefExecutes(i)
    PROVE  Execute(h, i, v).ram = h.ram /\ Execute(h, i, v).scratch = h.scratch
  BY DEF RefExecutes, Execute, Excepts, Hart

-----------------------------------------------------------------------------
\* The parts of one ExecOnce by name.
ExecutesAs(i, v, line, done, is_irq) ==
    LET driven == [done EXCEPT !.pending = line]
        wrong == done # Execute(dut, i, v)
    IN /\ i \in Kinds /\ i \in Allowed(dut.level) /\ v \in Values /\ line \in Bit
       /\ done \in Hart /\ done \in {Execute(dut, i, v)} \cup Wrong(dut, i, v)
       /\ is_irq \in BOOLEAN /\ (is_irq => Interruptible(driven))
       /\ dut' = IF is_irq THEN Interrupted(driven) ELSE driven
       /\ DifftestStep(dut', i, v, is_irq)
       /\ last' = [kind |-> i, irq |-> is_irq, first |-> wrong /\ ~defect]
       /\ defect' = (defect \/ wrong)
       /\ skewed' = (skewed \/ (RefExecutes(i) /\ Interruptible(ref)))

LEMMA ExecutesSomehow ==
    ASSUME DiffTypeOK, ExecOnce
    PROVE  /\ run = "RUNNING" /\ UNCHANGED keeps
           /\ \E i, v, line, done, is_irq : ExecutesAs(i, v, line, done, is_irq)
  <1>1. PICK i \in Allowed(dut.level), v \in Values :
             \E line \in LineAfter(i), done \in {Execute(dut, i, v)} \cup Wrong(dut, i, v) :
                LET wrong == done # Execute(dut, i, v)
                    driven == [done EXCEPT !.pending = line]
                    is_except == Excepts(i) /\ done.level = "trap"
                    is_irq == ~is_except /\ Interruptible(driven)
                IN /\ dut' = IF is_irq THEN Interrupted(driven) ELSE driven
                   /\ DifftestStep(dut', i, v, is_irq)
                   /\ last' = [kind |-> i, irq |-> is_irq, first |-> wrong /\ ~defect]
                   /\ defect' = (defect \/ wrong)
                   /\ skewed' = (skewed \/ (RefExecutes(i) /\ Interruptible(ref)))
    BY DEF ExecOnce
  <1>2. PICK line \in LineAfter(i), done \in {Execute(dut, i, v)} \cup Wrong(dut, i, v) :
                LET wrong == done # Execute(dut, i, v)
                    driven == [done EXCEPT !.pending = line]
                    is_except == Excepts(i) /\ done.level = "trap"
                    is_irq == ~is_except /\ Interruptible(driven)
                IN /\ dut' = IF is_irq THEN Interrupted(driven) ELSE driven
                   /\ DifftestStep(dut', i, v, is_irq)
                   /\ last' = [kind |-> i, irq |-> is_irq, first |-> wrong /\ ~defect]
                   /\ defect' = (defect \/ wrong)
                   /\ skewed' = (skewed \/ (RefExecutes(i) /\ Interruptible(ref)))
    BY <1>1
  <1> DEFINE is_irq == ~(Excepts(i) /\ done.level = "trap")
                         /\ Interruptible([done EXCEPT !.pending = line])
  <1>3. i \in Kinds  BY DEF Allowed
  <1>4. line \in Bit
    <2>1. dut.pending \in Bit /\ 0 \in Bit /\ 1 \in Bit  BY DEF DiffTypeOK, Hart, Bit
    <2>2. line \in {dut.pending, 1, 0}  BY DEF LineAfter
    <2> QED  BY <2>1, <2>2
  <1>5. done \in Hart  BY ExecuteType, WrongType DEF DiffTypeOK
  <1>6. is_irq \in BOOLEAN  BY DEF Interruptible
  <1>7. ExecutesAs(i, v, line, done, is_irq)
    BY <1>2, <1>3, <1>4, <1>5, <1>6 DEF ExecutesAs
  <1>8. run = "RUNNING" /\ UNCHANGED keeps  BY DEF ExecOnce
  <1> QED  BY <1>7, <1>8

-----------------------------------------------------------------------------
DiffInv == DiffTypeOK /\ LockStep

LEMMA TypeStep ==
    ASSUME DiffTypeOK, ExecOnce
    PROVE  DiffTypeOK'
  <1>1. PICK i, v, line, done, is_irq : ExecutesAs(i, v, line, done, is_irq)
    BY ExecutesSomehow
  <1> DEFINE driven == [done EXCEPT !.pending = line]
  <1>2. driven \in Hart  BY <1>1 DEF ExecutesAs, Hart
  <1>3. dut' \in Hart
    <2>1. CASE is_irq  BY <1>1, <1>2, <2>1, InterruptedType DEF ExecutesAs
    <2>2. CASE ~is_irq  BY <1>1, <1>2, <2>2 DEF ExecutesAs
    <2> QED  BY <2>1, <2>2
  <1>4. RefExec(i, v) \in Hart  BY <1>1, RefExecType DEF ExecutesAs, DiffTypeOK
  <1>5. ref' \in {RegCpy(dut', ref), RegCpy(dut', RefExec(i, v)), RefExec(i, v)}
        /\ run' \in {"END", "ABORT", run}
    BY <1>1 DEF ExecutesAs, DifftestStep
  <1>6. ref' \in Hart  BY <1>3, <1>4, <1>5, RegCpyType DEF DiffTypeOK
  <1>7. last'.kind \in Kinds /\ defect' \in BOOLEAN /\ skewed' \in BOOLEAN
    BY <1>1 DEF ExecutesAs, DiffTypeOK, Interruptible, RefExecutes
  <1>8. keeps' \in BOOLEAN  BY ExecutesSomehow DEF DiffTypeOK
  <1> QED  BY <1>3, <1>5, <1>6, <1>7, <1>8 DEF DiffTypeOK

\* What both simulators have done when neither has gone wrong.
LEMMA MemoryFollows ==
    ASSUME DiffInv, ExecOnce, ~defect', ~skewed',
           NEW i, NEW v, NEW line, NEW done, NEW is_irq, ExecutesAs(i, v, line, done, is_irq)
    PROVE  dut'.ram = ref'.ram /\ dut'.scratch = ref'.scratch
  <1>1. /\ ~defect /\ ~skewed /\ done = Execute(dut, i, v)
        /\ RefExecutes(i) => ~Interruptible(ref)
    BY DEF ExecutesAs
  <1>2. dut'.ram = done.ram /\ dut'.scratch = done.scratch
    BY DEF ExecutesAs, Interrupted, Hart
  <1>3. CheckRegs(dut, ref) /\ dut.ram = ref.ram /\ dut.scratch = ref.scratch
    BY <1>1 DEF DiffInv, LockStep, ExecOnce
  <1>4. dut \in Hart /\ ref \in Hart /\ v \in Values  BY DEF DiffInv, DiffTypeOK, ExecutesAs
  <1>5. dut' \in Hart  BY TypeStep DEF DiffInv, DiffTypeOK
  <1>6. CASE ~RefExecutes(i)
    <2>1. ref' = RegCpy(dut', ref)  BY <1>6 DEF ExecutesAs, DifftestStep
    <2>2. ref'.ram = ref.ram /\ ref'.scratch = ref.scratch  BY <2>1, <1>4, <1>5 DEF RegCpy, Hart
    <2>3. done.ram = dut.ram /\ done.scratch = dut.scratch  BY <1>1, <1>4, <1>6, SkippedMemory
    <2> QED  BY <1>2, <1>3, <2>2, <2>3
  <1>7. CASE RefExecutes(i)
    <2> DEFINE r == RefExec(i, v)
    <2>1. r \in Hart  BY <1>4, RefExecType
    <2>2. r.ram = Execute(ref, i, v).ram /\ r.scratch = Execute(ref, i, v).scratch
      BY <1>1, <1>4, <1>7 DEF RefExec, Execute, Excepts, Hart
    <2>3. ref' = r \/ ref' = RegCpy(dut', r)  BY <1>7 DEF ExecutesAs, DifftestStep
    <2>4. RegCpy(dut', r).ram = r.ram /\ RegCpy(dut', r).scratch = r.scratch
      BY <2>1, <1>5 DEF RegCpy, Hart
    <2>5. done.ram = Execute(ref, i, v).ram /\ done.scratch = Execute(ref, i, v).scratch
      BY <1>1, <1>3, <1>4, SameMemory
    <2> QED  BY <1>2, <2>2, <2>3, <2>4, <2>5
  <1> QED  BY <1>6, <1>7

LEMMA LockStepStep ==
    ASSUME DiffInv, ExecOnce
    PROVE  LockStep'
  <1> SUFFICES ASSUME run' = "RUNNING"
               PROVE  /\ CheckRegs(dut, ref)'
                      /\ (~defect /\ ~skewed)' => (dut.ram = ref.ram /\ dut.scratch = ref.scratch)'
    BY DEF LockStep
  <1>2. PICK i, v, line, done, is_irq : ExecutesAs(i, v, line, done, is_irq)
    BY ExecutesSomehow DEF DiffInv
  <1>3. \A r \in Hart : CheckRegs(dut', RegCpy(dut', r))
    BY DEF CheckRegs, RegCpy, Hart
  <1>4. RefExec(i, v) \in Hart /\ ref \in Hart
    BY <1>2, RefExecType DEF ExecutesAs, DiffInv, DiffTypeOK
  <1>5. CheckRegs(dut', ref')
    BY <1>2, <1>3, <1>4 DEF ExecutesAs, DifftestStep
  <1>6. CheckRegs(dut, ref)'  BY <1>5 DEF CheckRegs
  <1> QED  BY <1>2, <1>6, MemoryFollows

LEMMA DiffInvariant == DiffSpec => []DiffInv
  <1>1. DiffInit => DiffInv
    <2> SUFFICES ASSUME DiffInit PROVE DiffInv  OBVIOUS
    <2>1. 0 \in Values /\ 0 \in Bit
      <3>1. 0 \in Bit  BY DEF Bit
      <3> QED  BY <3>1, DifftestConstants DEF DifftestConstants
    <2>2. dut \in Hart  BY <2>1 DEF DiffInit, Hart
    <2> QED  BY <2>2 DEF DiffInit, DiffInv, DiffTypeOK, LockStep, CheckRegs
  <1>2. DiffInv /\ [DiffNext]_dvars => DiffInv'
    <2> SUFFICES ASSUME DiffInv, [DiffNext]_dvars PROVE DiffInv'  OBVIOUS
    <2>1. CASE ExecOnce  BY <2>1, TypeStep, LockStepStep DEF DiffInv
    <2>2. CASE UNCHANGED dvars
      BY <2>2 DEF dvars, DiffInv, DiffTypeOK, LockStep, CheckRegs
    <2> QED  BY <2>1, <2>2 DEF DiffNext, Ended
  <1> QED  BY <1>1, <1>2, PTL DEF DiffSpec

\* The states of both simulators and of the run keep their shape.
THEOREM DiffTypeCorrect == DiffSpec => []DiffTypeOK
  BY DiffInvariant, PTL DEF DiffInv

\* The reference is at the same instruction with the same registers after every
\* mixture of executed and skipped instructions and interrupts.
THEOREM StaysInLockStep == DiffSpec => []LockStep
  BY DiffInvariant, PTL DEF DiffInv

-----------------------------------------------------------------------------
\* With nothing wrong and no interrupt, the comparison is of an instruction and itself.
LEMMA RightComparesEqual ==
    ASSUME DiffInv, run = "RUNNING", ~defect, ~skewed',
           NEW i, NEW v, NEW line, NEW done, ExecutesAs(i, v, line, done, FALSE),
           RefExecutes(i), i \notin {"read mip", "ebreak"}
    PROVE  /\ ref' = Execute(ref, i, v)
           /\ CheckRegs(Execute(dut, i, v), ref')
           /\ CheckRegs(dut', ref') <=> CheckRegs(done, ref')
  <1>1. ~skewed /\ ~Interruptible(ref)  BY DEF ExecutesAs
  <1>2. ref' = Execute(ref, i, v)  BY <1>1 DEF ExecutesAs, DifftestStep, RefExec
  <1>3. CheckRegs(dut, ref) /\ dut.ram = ref.ram /\ dut.scratch = ref.scratch
    BY <1>1 DEF DiffInv, LockStep
  <1>4. CheckRegs(Execute(dut, i, v), ref')
    BY <1>2, <1>3, SameRegisters DEF DiffInv, DiffTypeOK
  <1>5. dut' = [done EXCEPT !.pending = line] /\ done \in Hart  BY DEF ExecutesAs
  <1>6. CheckRegs(dut', ref') <=> CheckRegs(done, ref')  BY <1>5 DEF CheckRegs, Hart
  <1> QED  BY <1>2, <1>4, <1>6

LEMMA AlarmsStep ==
    ASSUME DiffInv, ExecOnce
    PROVE  AlarmsExplained'
  <1> SUFFICES ASSUME run' = "ABORT", ~defect', ~skewed', last'.kind \notin {"read mip", "ebreak"}
               PROVE  FALSE
    BY DEF AlarmsExplained
  <1>1. run = "RUNNING"  BY DEF ExecOnce
  <1>2. PICK i, v, line, done, is_irq : ExecutesAs(i, v, line, done, is_irq)
    BY ExecutesSomehow DEF DiffInv
  <1>3. ~defect /\ done = Execute(dut, i, v) /\ i \notin {"read mip", "ebreak"}
    BY <1>2 DEF ExecutesAs
  <1>4. RefExecutes(i) /\ is_irq = FALSE /\ ~CheckRegs(dut', ref')
    BY <1>1, <1>2 DEF ExecutesAs, DifftestStep
  <1> QED  BY <1>1, <1>2, <1>3, <1>4, RightComparesEqual

LEMMA DefectsStep ==
    ASSUME DiffInv, ExecOnce
    PROVE  DefectsFound'
  <1> SUFFICES ASSUME last'.first, last'.kind \notin {"store", "read mip"},
                      RefExecutes(last'.kind), ~last'.irq, ~skewed'
               PROVE  run' = "ABORT"
    BY DEF DefectsFound
  <1>1. run = "RUNNING"  BY DEF ExecOnce
  <1>2. PICK i, v, line, done, is_irq : ExecutesAs(i, v, line, done, is_irq)
    BY ExecutesSomehow DEF DiffInv
  <1>3. /\ ~defect /\ done # Execute(dut, i, v) /\ i \notin {"store", "read mip"}
        /\ RefExecutes(i) /\ is_irq = FALSE /\ done \in Wrong(dut, i, v)
    BY <1>2 DEF ExecutesAs
  <1>4. i # "ebreak" /\ (WritesX(i) \/ Excepts(i))
    BY <1>3 DEF Wrong, WritesX, Excepts
  <1>5. dut \in Hart /\ done \in Hart /\ i \in Allowed(dut.level) /\ v \in Values
    BY <1>2 DEF ExecutesAs, DiffInv, DiffTypeOK
  <1>6. ~CheckRegs(done, ref')
    <2>1. CheckRegs(Execute(dut, i, v), ref')  BY <1>1, <1>2, <1>3, <1>4, RightComparesEqual
    <2>2. CASE WritesX(i)
      <3>1. done.x # Execute(dut, i, v).x  BY <1>3, <1>5, <2>2, WrongRegister
      <3> QED  BY <3>1, <2>1 DEF CheckRegs
    <2>3. CASE Excepts(i)
      <3>1. ~WritesX(i)  BY <2>3 DEF Excepts, WritesX
      <3>2. done = dut  BY <1>3, <2>3, <3>1 DEF Wrong
      <3>3. dut.level = "user"  BY <1>5, <2>3 DEF Allowed, Excepts, Hart
      <3>4. Execute(dut, i, v).level = "trap"
        BY <1>5, <2>3 DEF Execute, Excepts, Hart
      <3> QED  BY <2>1, <3>2, <3>3, <3>4 DEF CheckRegs
    <2> QED  BY <1>4, <2>2, <2>3
  <1> QED  BY <1>1, <1>2, <1>3, <1>4, <1>6, RightComparesEqual DEF ExecutesAs, DifftestStep

\* A correct emulator is stopped by its reference only at a read of mip, at ebreak, or
\* when the reference took an interrupt of its own accord.
THEOREM AlarmsAreExplained == DiffSpec => []AlarmsExplained
  <1>1. DiffInit => AlarmsExplained  BY DEF DiffInit, AlarmsExplained
  <1>2. DiffInv /\ AlarmsExplained /\ [DiffNext]_dvars => AlarmsExplained'
    <2> SUFFICES ASSUME DiffInv, AlarmsExplained, [DiffNext]_dvars PROVE AlarmsExplained'
      OBVIOUS
    <2>1. CASE ExecOnce  BY <2>1, AlarmsStep
    <2>2. CASE UNCHANGED dvars  BY <2>2 DEF dvars, AlarmsExplained
    <2> QED  BY <2>1, <2>2 DEF DiffNext, Ended
  <1> QED  BY <1>1, <1>2, DiffInvariant, PTL DEF DiffSpec

\* The first defect that shows in a register ends the run where it occurs, unless the
\* instruction was not compared.
THEOREM FirstDefectFound == DiffSpec => []DefectsFound
  <1>1. DiffInit => DefectsFound  BY DEF DiffInit, DefectsFound
  <1>2. DiffInv /\ DefectsFound /\ [DiffNext]_dvars => DefectsFound'
    <2> SUFFICES ASSUME DiffInv, DefectsFound, [DiffNext]_dvars PROVE DefectsFound'
      OBVIOUS
    <2>1. CASE ExecOnce  BY <2>1, DefectsStep
    <2>2. CASE UNCHANGED dvars  BY <2>2 DEF dvars, DefectsFound
    <2> QED  BY <2>1, <2>2 DEF DiffNext, Ended
  <1> QED  BY <1>1, <1>2, DiffInvariant, PTL DEF DiffSpec
=============================================================================
