------------------------------ MODULE Decoder ------------------------------
(***************************************************************************)
(* Which instruction a word is (cpu/inst.c, decode.h): decode_exec tries   *)
(* one pattern after another, and the first that the word matches is       *)
(* executed.  A pattern gives funct7, rs2, rs1, funct3, rd and the opcode; *)
(* those of the atomic instructions leave the opcode open, and the last    *)
(* pattern everything.                                                     *)
(***************************************************************************)
EXTENDS Integers, Sequences

CONSTANTS Funct7s, Rs2s, Opcodes      \* of the words that are fetched

Bits7 == 0 .. 127
Bits5 == 0 .. 31
Bits3 == 0 .. 7

ASSUME DecoderConstants ==
    Funct7s \subseteq Bits7 /\ Rs2s \subseteq Bits5 /\ Opcodes \subseteq Bits7

VARIABLES fetched,     \* the word, as its fields, or no word
          decoded      \* the instruction that decode_exec ran

dec == <<fetched, decoded>>

\* The opcode with its last two bits, which are 11.
Major(n) == 4 * n + 3

Pattern(name, funct7, funct3, opcode) ==
    [name |-> name, funct7 |-> funct7, rs2 |-> Bits5, rs1 |-> Bits5, funct3 |-> funct3,
     rd |-> Bits5, opcode |-> opcode]
I(name, funct3, major) == Pattern(name, Bits7, {funct3}, {Major(major)})
U(name, major) == Pattern(name, Bits7, Bits3, {Major(major)})
R(name, funct7, funct3, major) == Pattern(name, {funct7}, {funct3}, {Major(major)})
Shift(name, funct6, funct3) ==
    Pattern(name, {2 * funct6, 2 * funct6 + 1}, {funct3}, {Major(4)})
\* Everything but the registers that a set of them replaces.
Fixed(name, funct7, rs2, rs1, funct3, major) ==
    [R(name, 0, funct3, major) EXCEPT !.funct7 = funct7, !.rs2 = rs2, !.rs1 = rs1, !.rd = {0}]
A(name, funct5, funct3) ==
    Pattern(name, 4 * funct5 .. 4 * funct5 + 3, {funct3}, Bits7)
ALr(name, funct3) == [A(name, 2, funct3) EXCEPT !.rs2 = {0}]

\* In the order of the source.
Named == <<
    U("auipc", 5), U("lui", 13), I("addi", 0, 4), R("add", 0, 0, 12), I("addiw", 0, 6),
    R("addw", 0, 0, 14), R("and", 0, 7, 12), I("andi", 7, 4), I("beq", 0, 24),
    I("bge", 5, 24), I("bgeu", 7, 24), I("blt", 4, 24), I("bltu", 6, 24), I("bne", 1, 24),
    I("csrrc", 3, 28), I("csrrci", 7, 28), I("csrrs", 2, 28), I("csrrsi", 6, 28),
    I("csrrw", 1, 28), I("csrrwi", 5, 28),
    I("ld", 3, 0), I("lb", 0, 0), I("lbu", 4, 0), I("lh", 1, 0), I("lhu", 5, 0),
    U("lui", 13), I("lw", 2, 0), I("lwu", 6, 0), I("sd", 3, 8), I("sb", 0, 8), I("sh", 1, 8),
    R("sll", 0, 1, 12), Shift("slli", 0, 1), R("slliw", 0, 1, 6), R("sllw", 0, 1, 14),
    R("slt", 0, 2, 12), I("slti", 2, 4), I("sltiu", 3, 4), R("sltu", 0, 3, 12),
    R("sra", 32, 5, 12), Shift("srai", 16, 5), R("sraiw", 32, 5, 6), R("sraw", 32, 5, 14),
    R("srl", 0, 5, 12), Shift("srli", 0, 5), R("srliw", 0, 5, 6), R("srlw", 0, 5, 14),
    R("sub", 32, 0, 12), R("subw", 32, 0, 14), I("sw", 2, 8), R("or", 0, 6, 12),
    I("ori", 6, 4), R("xor", 0, 4, 12), I("xori", 4, 4),
    R("div", 1, 4, 12), R("divu", 1, 5, 12), R("divuw", 1, 5, 14), R("divw", 1, 4, 14),
    R("mul", 1, 0, 12), R("mulh", 1, 1, 12), R("mulhsu", 1, 2, 12), R("mulhu", 1, 3, 12),
    R("mulw", 1, 0, 14), R("rem", 1, 6, 12), R("remu", 1, 7, 12), R("remuw", 1, 7, 14),
    R("remw", 1, 6, 14), Fixed("wfi", {8}, {5}, {0}, 0, 28), U("jal", 27), I("jalr", 0, 25),
    Fixed("ebreak", {0}, {1}, {0}, 0, 28), Fixed("fence", Bits7, Bits5, {0}, 0, 3),
    Fixed("fence_i", {0}, {0}, {0}, 1, 3), Fixed("mret", {24}, {2}, {0}, 0, 28),
    Fixed("sret", {8}, {2}, {0}, 0, 28), Fixed("sfence_vma", {9}, Bits5, Bits5, 0, 28),
    Fixed("ecall", {0}, {0}, {0}, 0, 28) >>

Atomic == <<
    ALr("lr_d", 3), A("sc_d", 3, 3), A("amoswap_d", 1, 3), A("amoadd_d", 0, 3),
    A("amoxor_d", 4, 3), A("amoand_d", 12, 3), A("amoor_d", 8, 3), A("amomin_d", 16, 3),
    A("amomax_d", 20, 3), A("amominu_d", 24, 3), A("amomaxu_d", 28, 3),
    ALr("lr_w", 2), A("sc_w", 3, 2), A("amoswap_w", 1, 2), A("amoadd_w", 0, 2),
    A("amoxor_w", 4, 2), A("amoand_w", 12, 2), A("amoor_w", 8, 2), A("amomin_w", 16, 2),
    A("amomax_w", 20, 2), A("amominu_w", 24, 2), A("amomaxu_w", 28, 2) >>

Invalid == Pattern("inv", Bits7, Bits3, Bits7)

\* Mutated: the atomic instructions are tried first.
PatternsAtomicFirst == Atomic \o Named \o <<Invalid>>

Patterns == Named \o Atomic \o <<Invalid>>

InstMatches(word, p) ==
    /\ word.opcode \in p.opcode /\ word.funct3 \in p.funct3 /\ word.funct7 \in p.funct7
    /\ word.rs2 \in p.rs2 /\ word.rs1 \in p.rs1 /\ word.rd \in p.rd

-----------------------------------------------------------------------------
NoWord == [opcode |-> 0, funct3 |-> 0, funct7 |-> 0, rs2 |-> 0, rs1 |-> 0, rd |-> 0]

DecodeInit == fetched = NoWord /\ decoded = "none"

\* Of rs1 and rd it matters only whether they are zero.
IsaExecOnce ==
    /\ decoded = "none"
    /\ fetched' \in [opcode : Opcodes, funct3 : Bits3, funct7 : Funct7s,
                     rs2 : Rs2s, rs1 : {0, 1}, rd : {0, 1}]
    /\ \E i \in DOMAIN Patterns :
          /\ InstMatches(fetched', Patterns[i])
          /\ \A j \in 1 .. i - 1 : ~InstMatches(fetched', Patterns[j])
          /\ decoded' = Patterns[i].name

Executed == decoded # "none" /\ UNCHANGED dec

DecodeNext == IsaExecOnce \/ Executed
DecodeSpec == DecodeInit /\ [][DecodeNext]_dec

-----------------------------------------------------------------------------
\* No word is two of the instructions that name their opcode, whatever the order in
\* which they are tried; and one that is such an instruction is never taken for an
\* atomic one.  (A word that is none of them is, if its funct3 is 2 or 3 and the upper
\* bits of its funct7 are those of an atomic instruction, whatever its opcode.)
DecodesOneWay ==
    decoded # "none" =>
        LET own == {i \in DOMAIN Named : InstMatches(fetched, Named[i])}
        IN \A i \in own : Named[i].name = decoded
=============================================================================
