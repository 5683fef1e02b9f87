-------------------------------- MODULE Alu --------------------------------
(***************************************************************************)
(* The bodies of the instructions (cpu/inst.c): what each of them leaves   *)
(* in its destination, in the memory word or control register it names     *)
(* (cell), and in the next pc.  They are C expressions over 64-bit values, *)
(* in which every truncation, sign extension and cast to a signed type is  *)
(* written out by hand for every instruction.  The reference is the        *)
(* instruction set manual, by which an instruction and its variants differ *)
(* in the width of the operation alone.                                    *)
(*                                                                         *)
(* Widths are parameters.  A division that the host refuses (SIGFPE) ends  *)
(* the emulator.  What an access to memory may meet is in Memory, what a   *)
(* control register makes of what is written in Trap.                      *)
(***************************************************************************)
EXTENDS Integers, Bitwise

CONSTANTS XLEN,        \* 64
          ImmBits,     \* 12, of an immediate; the upper immediates have the rest of a word
          UimmBits,    \* 5, of the immediate of a csr instruction
          Operands,    \* what the source registers and the cell hold
          Pc           \* of the instruction, on four bytes

H == XLEN \div 2
Word == 0 .. 2 ^ XLEN - 1
UpperBits == H - ImmBits

ASSUME AluConstants ==
    /\ XLEN \in {4, 8, 16, 32, 64} /\ ImmBits \in 1 .. H - 1 /\ UimmBits \in 1 .. XLEN
    /\ Operands \subseteq Word /\ Pc \in Word /\ Pc % 4 = 0

VARIABLES inst,        \* the instruction: its name, its destination and its immediate
          gpr,         \* rs1 and rs2
          cell,        \* the word of memory or the control register
          dnpc,
          phase        \* "fetched", "retired" or "killed" by a signal

alu == <<inst, gpr, cell, dnpc, phase>>

Branches == {"beq", "bne", "blt", "bge", "bltu", "bgeu"}
Csrs == {"csrrw", "csrrs", "csrrc", "csrrwi", "csrrsi", "csrrci"}
Loads == {"ld", "lw", "lwu"}
Stores == {"sd", "sw"}
AmosD == {"amoswap_d", "amoadd_d", "amoxor_d", "amoand_d", "amoor_d",
          "amomin_d", "amomax_d", "amominu_d", "amomaxu_d"}
AmosW == {"amoswap_w", "amoadd_w", "amoxor_w", "amoand_w", "amoor_w",
          "amomin_w", "amomax_w", "amominu_w", "amomaxu_w"}
Immediates == {"addi", "addiw", "andi", "ori", "xori", "slti", "sltiu", "jalr"}
Shifts == {"slli", "srli", "srai"}
ShiftsW == {"slliw", "srliw", "sraiw"}
Registers == {"add", "addw", "sub", "subw", "and", "or", "xor", "slt", "sltu",
              "sll", "sllw", "srl", "srlw", "sra", "sraw",
              "mul", "mulh", "mulhsu", "mulhu", "mulw",
              "div", "divu", "divw", "divuw", "rem", "remu", "remw", "remuw"}
UsesCell == Csrs \cup Loads \cup Stores \cup AmosD \cup AmosW

\* The immediate fields of an instruction.
Fields(name) ==
    CASE name \in Immediates \cup Branches -> 0 .. 2 ^ ImmBits - 1
      [] name \in {"csrrwi", "csrrsi", "csrrci"} -> 0 .. 2 ^ UimmBits - 1
      [] name \in {"lui", "auipc", "jal"} -> 0 .. 2 ^ UpperBits - 1
      [] name \in Shifts -> 0 .. XLEN - 1
      [] name \in ShiftsW -> 0 .. H - 1
      [] OTHER -> {0}

Names == Registers \cup Immediates \cup Shifts \cup ShiftsW \cup Branches \cup UsesCell
            \cup {"lui", "auipc", "jal"}

-----------------------------------------------------------------------------
(* C.                                                                      *)

Wrap(v) == v % 2 ^ XLEN
Low(v) == v % 2 ^ H                              \* (uint32_t)
\* (int64_t) and (int32_t)
Signed(v, n) == LET l == v % 2 ^ n IN IF l >= 2 ^ (n - 1) THEN l - 2 ^ n ELSE l
SEXT(v, n) == Wrap(Signed(v, n))
Complement(v) == 2 ^ XLEN - 1 - v
Truth(b) == IF b THEN 1 ELSE 0

\* Division truncates.
Abs(v) == IF v < 0 THEN -v ELSE v
Quotient(a, b) == IF (a < 0) = (b < 0) THEN Abs(a) \div Abs(b) ELSE -(Abs(a) \div Abs(b))
Remainder(a, b) == a - b * Quotient(a, b)

\* The divisions that the code makes, and when the host refuses them.
Refuses(name, a, b) ==
    LET Overflows(n) == Signed(a, n) = -(2 ^ (n - 1)) /\ Signed(b, n) = -1 IN
    \/ name = "div" /\ Overflows(XLEN)
    \/ name = "divw" /\ Overflows(H)
    \/ name = "rem" /\ (b = 0 \/ Overflows(XLEN))
    \/ name = "remw" /\ (Low(b) = 0 \/ Overflows(H))
    \/ name = "remu" /\ b = 0
    \/ name = "remuw" /\ Low(b) = 0

\* What the instructions of registers and immediates put into rd.
Result(name, a, b) ==
    CASE name \in {"add", "addi"}     -> Wrap(a + b)
      [] name \in {"addw", "addiw"}   -> SEXT(Low(a) + Low(b), H)
      [] name = "sub"                 -> Wrap(a + Complement(b) + 1)
      [] name = "subw"                -> SEXT(Low(a) + Low(Complement(b)) + 1, H)
      [] name \in {"and", "andi"}     -> a & b
      [] name \in {"or", "ori"}       -> a | b
      [] name \in {"xor", "xori"}     -> a ^^ b
      [] name \in {"slt", "slti"}     -> Truth(Signed(a, XLEN) < Signed(b, XLEN))
      [] name = "sltu"                -> Truth(a < b)
      [] name = "sltiu"               -> Truth(a < b % 2 ^ ImmBits)
      [] name \in {"sll", "slli"}     -> Wrap(a * 2 ^ (b % XLEN))
      [] name \in {"sllw", "slliw"}   -> SEXT(a * 2 ^ (b % H), H)
      [] name \in {"srl", "srli"}     -> a \div 2 ^ (b % XLEN)
      [] name \in {"srlw", "srliw"}   -> SEXT(Low(a) \div 2 ^ (b % H), H)
      [] name \in {"sra", "srai"}     -> Wrap(Signed(a, XLEN) \div 2 ^ (b % XLEN))
      [] name \in {"sraw", "sraiw"}   -> SEXT(Signed(a, H) \div 2 ^ (b % H), H)
      [] name \in {"div", "divu"} /\ b = 0       -> Complement(0)
      [] name \in {"divw", "divuw"} /\ Low(b) = 0 -> Complement(0)
      [] name = "div" /\ b # 0        -> Wrap(Quotient(Signed(a, XLEN), Signed(b, XLEN)))
      [] name = "divu" /\ b # 0       -> a \div b
      [] name = "divw" /\ Low(b) # 0  -> SEXT(Quotient(Signed(a, H), Signed(b, H)), H)
      [] name = "divuw" /\ Low(b) # 0 -> SEXT(Low(a) \div Low(b), H)
      [] name = "rem"                 -> Wrap(Remainder(Signed(a, XLEN), Signed(b, XLEN)))
      [] name = "remu"                -> a % b
      [] name = "remw"                -> SEXT(Remainder(Signed(a, H), Signed(b, H)), H)
      [] name = "remuw"               -> SEXT(Low(a) % Low(b), H)
      [] name = "mul"                 -> Wrap(Signed(a, XLEN) * Signed(b, XLEN))
      [] name = "mulw"                -> SEXT(Signed(a, H) * Signed(b, H), H)
      \* The operands are widened from unsigned ones.
      [] name \in {"mulh", "mulhu"}   -> Wrap((a * b) \div 2 ^ XLEN)
      [] name = "mulhsu"              -> Wrap((a * Low(b)) \div 2 ^ XLEN)

Taken(name, a, b) ==
    CASE name = "beq"  -> a = b
      [] name = "bne"  -> a # b
      [] name = "blt"  -> Signed(a, XLEN) < Signed(b, XLEN)
      [] name = "bge"  -> Signed(a, XLEN) >= Signed(b, XLEN)
      [] name = "bltu" -> a < b
      [] name = "bgeu" -> a >= b

\* What a csr instruction writes; u is its immediate.
CsrWrites(name, a, u) ==
    CASE name = "csrrw"  -> a
      [] name = "csrrs"  -> cell | a
      [] name = "csrrc"  -> cell & Complement(a)
      [] name = "csrrwi" -> u | (cell & Complement(2 ^ UimmBits - 1))
      [] name = "csrrsi" -> cell | u
      [] name = "csrrci" -> cell & Complement(u)

\* What an atomic instruction stores, with the old value as it has read it.
AmoWrites(name, b, rdata) ==
    LET narrow == SEXT(b, H) IN
    CASE name \in {"amoswap_d", "amoswap_w"} -> b
      [] name \in {"amoadd_d", "amoadd_w"}   -> Wrap(b + rdata)
      [] name \in {"amoxor_d", "amoxor_w"}   -> b ^^ rdata
      [] name \in {"amoand_d", "amoand_w"}   -> b & rdata
      [] name \in {"amoor_d", "amoor_w"}     -> b | rdata
      [] name = "amomin_d"  -> IF Signed(b, XLEN) > Signed(rdata, XLEN) THEN rdata ELSE b
      [] name = "amomax_d"  -> IF Signed(b, XLEN) < Signed(rdata, XLEN) THEN rdata ELSE b
      [] name = "amominu_d" -> IF b > rdata THEN rdata ELSE b
      [] name = "amomaxu_d" -> IF b < rdata THEN rdata ELSE b
      [] name = "amomin_w"  -> IF Signed(narrow, XLEN) > Signed(rdata, XLEN) THEN rdata ELSE b
      [] name = "amomax_w"  -> IF Signed(narrow, XLEN) < Signed(rdata, XLEN) THEN rdata ELSE b
      [] name = "amominu_w" -> IF narrow > rdata THEN rdata ELSE b
      [] name = "amomaxu_w" -> IF narrow < rdata THEN rdata ELSE b

\* The four lower bytes of the word.
StoresLow(v) == cell - Low(cell) + Low(v)

-----------------------------------------------------------------------------
(* decode_exec.                                                            *)

Src1 == gpr[1]

\* Mutated: the immediate is not sign-extended.
Src2Unextended == IF inst.name \in Immediates \cup Shifts \cup ShiftsW THEN inst.field ELSE gpr[2]

Src2 == CASE inst.name \in Immediates -> SEXT(inst.field, ImmBits)
          [] inst.name \in Shifts \cup ShiftsW -> inst.field
          [] OTHER -> gpr[2]

AluInit ==
    /\ inst \in UNION {[name : {n}, dest : 0 .. 1, field : Fields(n)] : n \in Names}
    /\ gpr \in {<<a, b>> : a \in Operands, b \in Operands}
    /\ cell \in IF inst.name \in UsesCell THEN Operands ELSE {0}
    /\ dnpc = Pc /\ phase = "fetched"

\* x0 is cleared after every instruction.
WriteDest(v) == gpr' = IF inst.dest = 0 THEN gpr ELSE [gpr EXCEPT ![inst.dest] = v]

Retire(next_pc) == phase = "fetched" /\ phase' = "retired" /\ dnpc' = next_pc /\ UNCHANGED inst
Snpc == Wrap(Pc + 4)

Compute ==
    /\ inst.name \in Registers \cup (Immediates \ {"jalr"}) \cup Shifts \cup ShiftsW
    /\ ~Refuses(inst.name, Src1, Src2)
    /\ Retire(Snpc) /\ WriteDest(Result(inst.name, Src1, Src2)) /\ UNCHANGED cell

Killed == /\ phase = "fetched" /\ Refuses(inst.name, Src1, Src2)
          /\ phase' = "killed" /\ UNCHANGED <<inst, gpr, cell, dnpc>>

Upper == LET imm == Wrap(SEXT(inst.field, UpperBits) * 2 ^ ImmBits) IN
    /\ inst.name \in {"lui", "auipc"} /\ Retire(Snpc) /\ UNCHANGED cell
    /\ WriteDest(IF inst.name = "lui" THEN imm ELSE Wrap(imm + Pc))

Jump ==
    /\ inst.name \in {"jal", "jalr"} /\ WriteDest(Snpc) /\ UNCHANGED cell
    /\ Retire(IF inst.name = "jal" THEN Wrap(Pc + SEXT(inst.field, UpperBits) * 2)
              ELSE LET target == Wrap(Src1 + Src2) IN target - (target % 2))

Branch ==
    /\ inst.name \in Branches /\ UNCHANGED <<gpr, cell>>
    /\ Retire(IF Taken(inst.name, Src1, Src2) THEN Wrap(Pc + SEXT(inst.field, ImmBits) * 2)
              ELSE Snpc)

Csr == /\ inst.name \in Csrs /\ Retire(Snpc)
       /\ WriteDest(cell) /\ cell' = CsrWrites(inst.name, Src1, inst.field)

LoadCell ==
    /\ inst.name \in Loads /\ Retire(Snpc) /\ UNCHANGED cell
    /\ WriteDest(CASE inst.name = "ld" -> cell
                   [] inst.name = "lw" -> SEXT(cell, H)
                   [] inst.name = "lwu" -> Low(cell))

StoreCell == /\ inst.name \in Stores /\ Retire(Snpc) /\ UNCHANGED gpr
             /\ cell' = IF inst.name = "sd" THEN Src2 ELSE StoresLow(Src2)

\* The address was in rs1, which may be the destination.
AmoCell ==
    /\ Retire(Snpc)
    /\ \/ /\ inst.name \in AmosD
          /\ cell' = AmoWrites(inst.name, Src2, cell) /\ WriteDest(cell)
       \/ /\ inst.name \in AmosW
          /\ cell' = StoresLow(AmoWrites(inst.name, Src2, SEXT(cell, H)))
          /\ WriteDest(SEXT(cell, H))

\* A behaviour is one instruction.
Over == phase # "fetched" /\ UNCHANGED alu

AluNext == Compute \/ Killed \/ Upper \/ Jump \/ Branch \/ Csr \/ LoadCell \/ StoreCell
              \/ AmoCell \/ Over
AluSpec == AluInit /\ [][AluNext]_alu

-----------------------------------------------------------------------------
(* The manual.  The variants of an operation are one operation on so many  *)
(* bits, sign-extended to a register.                                      *)

Narrow == {"addw", "addiw", "subw", "sllw", "slliw", "srlw", "srliw", "sraw", "sraiw",
           "mulw", "divw", "divuw", "remw", "remuw", "lw", "sw"} \cup AmosW
Bits(name) == IF name \in Narrow THEN H ELSE XLEN

Operation(name, s1, s2, u1, u2, bits) ==
    CASE name \in {"add", "addi", "addw", "addiw", "amoadd_d", "amoadd_w"} -> s1 + s2
      [] name \in {"sub", "subw"} -> s1 - s2
      [] name \in {"and", "andi", "amoand_d", "amoand_w"} -> u1 & u2
      [] name \in {"or", "ori", "amoor_d", "amoor_w"} -> u1 | u2
      [] name \in {"xor", "xori", "amoxor_d", "amoxor_w"} -> u1 ^^ u2
      [] name \in {"slt", "slti"} -> Truth(s1 < s2)
      [] name \in {"sltu", "sltiu"} -> Truth(u1 < u2)
      [] name \in {"sll", "slli", "sllw", "slliw"} -> u1 * 2 ^ (u2 % bits)
      [] name \in {"srl", "srli", "srlw", "srliw"} -> u1 \div 2 ^ (u2 % bits)
      [] name \in {"sra", "srai", "sraw", "sraiw"} -> s1 \div 2 ^ (u2 % bits)
      [] name \in {"mul", "mulw"} -> s1 * s2
      [] name = "mulh"   -> (s1 * s2) \div 2 ^ XLEN
      [] name = "mulhsu" -> (s1 * u2) \div 2 ^ XLEN
      [] name = "mulhu"  -> (u1 * u2) \div 2 ^ XLEN
      [] name \in {"div", "divw"}   -> IF s2 = 0 THEN -1 ELSE Quotient(s1, s2)
      [] name \in {"divu", "divuw"} -> IF u2 = 0 THEN -1 ELSE u1 \div u2
      [] name \in {"rem", "remw"}   -> IF s2 = 0 THEN s1 ELSE Remainder(s1, s2)
      [] name \in {"remu", "remuw"} -> IF u2 = 0 THEN u1 ELSE u1 % u2
      [] name \in {"amomin_d", "amomin_w"}   -> IF s1 < s2 THEN s1 ELSE s2
      [] name \in {"amomax_d", "amomax_w"}   -> IF s1 < s2 THEN s2 ELSE s1
      [] name \in {"amominu_d", "amominu_w"} -> IF u1 < u2 THEN u1 ELSE u2
      [] name \in {"amomaxu_d", "amomaxu_w"} -> IF u1 < u2 THEN u2 ELSE u1
      [] name \in {"amoswap_d", "amoswap_w"} -> s2

Operate(name, a, b) ==
    LET n == Bits(name)
    IN SEXT(Operation(name, Signed(a, n), Signed(b, n), a % 2 ^ n, b % 2 ^ n, n), n)


Operand2 == CASE inst.name \in Immediates -> Signed(inst.field, ImmBits)
              [] inst.name \in Shifts \cup ShiftsW -> inst.field
              [] OTHER -> gpr[2]

SpecifiedDest ==
    CASE inst.name \in {"jal", "jalr"} -> Pc + 4
      [] inst.name = "lui"   -> Signed(inst.field, UpperBits) * 2 ^ ImmBits
      [] inst.name = "auipc" -> Signed(inst.field, UpperBits) * 2 ^ ImmBits + Pc
      [] inst.name \in AmosW \cup {"lw"} -> Signed(cell, H)
      [] inst.name = "lwu"   -> Low(cell)
      [] inst.name \in Csrs \cup AmosD \cup {"ld"} -> cell
      [] OTHER -> Operate(inst.name, gpr[1], Operand2)

SpecifiedCell ==
    CASE inst.name \in {"csrrw", "csrrwi"} -> IF inst.name = "csrrw" THEN gpr[1] ELSE inst.field
      [] inst.name \in {"csrrs", "csrrsi"} -> cell | IF inst.name = "csrrs" THEN gpr[1] ELSE inst.field
      [] inst.name \in {"csrrc", "csrrci"} ->
            cell - (cell & IF inst.name = "csrrc" THEN gpr[1] ELSE inst.field)
      [] inst.name = "sd"  -> gpr[2]
      [] inst.name = "sw"  -> StoresLow(gpr[2])
      [] inst.name \in AmosD -> Operate(inst.name, cell, gpr[2])
      [] inst.name \in AmosW -> StoresLow(Operate(inst.name, cell, gpr[2]))
      [] OTHER -> cell

SpecifiedTaken ==
    LET a == gpr[1]  b == gpr[2] IN
    CASE inst.name = "beq"  -> a = b
      [] inst.name = "bne"  -> a # b
      [] inst.name = "blt"  -> Signed(a, XLEN) < Signed(b, XLEN)
      [] inst.name = "bge"  -> ~(Signed(a, XLEN) < Signed(b, XLEN))
      [] inst.name = "bltu" -> a < b
      [] inst.name = "bgeu" -> ~(a < b)
      [] OTHER -> FALSE

SpecifiedPc ==
    CASE inst.name = "jal"  -> Pc + 2 * Signed(inst.field, UpperBits)
      [] inst.name = "jalr" -> 2 * ((gpr[1] + Operand2) \div 2)
      [] OTHER -> IF SpecifiedTaken THEN Pc + 2 * Signed(inst.field, ImmBits) ELSE Pc + 4

\* misa announces no compressed instructions (reg.h:93): a jump or a taken branch to
\* a target that is not on four bytes is an exception of its own and writes nothing.
TargetMisaligned == SpecifiedPc % 4 # 0

\* Where the code does not do what the manual says: the high part of the product of
\* signed operands, the comparison with a negative immediate as an unsigned number, a
\* register of which the upper bits survive an immediate, the divisions that end the
\* emulator, and the jumps that should be exceptions and are made (inst.c:74-79, 140-141).
Deviates ==
    LET Negative(v) == Signed(v, XLEN) < 0 IN
    \/ inst.name = "mulh" /\ (Negative(gpr[1]) \/ Negative(gpr[2]))
    \/ inst.name = "mulhsu" /\ (Negative(gpr[1]) \/ gpr[2] >= 2 ^ H)
    \/ inst.name = "sltiu" /\ Signed(inst.field, ImmBits) < 0
    \/ inst.name = "csrrwi" /\ cell >= 2 ^ UimmBits
    \/ Refuses(inst.name, gpr[1], Operand2)
    \/ TargetMisaligned

\* Every other instruction, on every operand and with every aliasing of its
\* registers, does what the manual says: it retires, only where the manual has no exception
\* for it, with the destination, the cell and the next pc of the manual.
ComputesAsSpecified ==
    [][(phase = "fetched" /\ ~Deviates) =>
            /\ phase' = "retired" /\ ~TargetMisaligned
            /\ gpr' = IF inst.dest = 0 \/ inst.name \in Branches \cup Stores THEN gpr
                      ELSE [gpr EXCEPT ![inst.dest] = Wrap(SpecifiedDest)]
            /\ cell' = SpecifiedCell
            /\ dnpc' = Wrap(SpecifiedPc)]_alu
=============================================================================
