--------------------------- MODULE MCInstructions ---------------------------
(***************************************************************************)
(* TLC instances of what an instruction does: of Memory (two levels of two *)
(* entries, two frames of two words and as many pages again that nothing   *)
(* answers), of LrSc (two threads that use words and one that uses         *)
(* doubles), of Alu (registers of eight bits) and of Decoder; part says    *)
(* which of them runs.                                                     *)
(***************************************************************************)
EXTENDS Memory, LrSc, Alu, Decoder

VARIABLE part

Leaf(flags, ppn) == [v |-> TRUE, r |-> "r" \in flags, w |-> "w" \in flags,
                     x |-> "x" \in flags, u |-> "u" \in flags,
                     a |-> "a" \in flags, d |-> "d" \in flags, ppn |-> ppn]

\* A pointer; a supervisor leaf, which is a superpage at the upper level; a user
\* leaf, misaligned there; and a user leaf that has not been written.
StoredWords == { Leaf({}, 1),
                 Leaf({"r", "w", "x", "a", "d"}, 0),
                 Leaf({"r", "w", "u", "a", "d"}, 1),
                 Leaf({"r", "w", "x", "u", "a"}, 0) }

\* The previous mode that mprv applies is user mode or the reserved one.
StatusOf(mprv, mpp, sum) == [mprv |-> mprv, mpp |-> mpp, sum |-> sum, mxr |-> FALSE]
StatusValues == {StatusOf(p, MODE_U, m) : p \in BOOLEAN, m \in BOOLEAN}
                  \cup {StatusOf(TRUE, MODE_H, FALSE)}

ThreadWidth == [t \in Threads |-> IF t = 3 THEN 255 ELSE 15]

\* Every funct7 of a pattern and two of none; every opcode and a compressed one.
SomeFunct7s == {0, 1, 2, 5, 7, 8, 9, 12, 16, 24, 32, 33, 48, 64, 80, 96, 112, 127}
AllOpcodes == {Major(n) : n \in Bits5} \cup {1}

InstructionInit ==
    /\ part \in {"paging", "reservation", "body", "decoding"}
    /\ Init /\ LrInit /\ AluInit /\ DecodeInit
    /\ part # "body" => inst = [name |-> "add", dest |-> 0, field |-> 0] /\ gpr = <<0, 0>>
InstructionNext ==
    /\ UNCHANGED part
    /\ \/ part = "paging" /\ Next /\ UNCHANGED <<lrvars, alu, dec>>
       \/ part = "reservation" /\ LrNext /\ UNCHANGED <<memvars, alu, dec>>
       \/ part = "body" /\ AluNext /\ UNCHANGED <<memvars, lrvars, dec>>
       \/ part = "decoding" /\ DecodeNext /\ UNCHANGED <<memvars, lrvars, alu>>
InstructionSpec ==
    InstructionInit /\ [][InstructionNext]_<<memvars, lrvars, alu, dec, part>>
=============================================================================
