------------------------------- MODULE Memory -------------------------------
(***************************************************************************)
(* Guest memory as an instruction sees it: the checks and the page-table   *)
(* walk of system/mmu.c, the accesses of memory/vaddr.c and the dispatch   *)
(* of memory/paddr.c.                                                      *)
(*                                                                         *)
(* Addresses are abstract: a virtual address is a page, a word in it, and  *)
(* whether its upper bits repeat bit 38; a physical one is a frame and a   *)
(* word.  The tables are words of the same memory that guests load and     *)
(* store, so every word has the shape of a page-table entry.  Frames       *)
(* outside Ram are answered by nothing (device registers are the subject   *)
(* of the device modules).  A byte offset is only aligned or misaligned.   *)
(***************************************************************************)
EXTENDS MayflyIsa

CONSTANTS Levels,        \* PTW_LEVEL
          Radix,         \* entries of a table, words of a page: 512
          Ram,           \* the frames of memory
          Words,         \* the values a guest stores
          StatusWrites,  \* values of the mstatus fields below
          Roots          \* table frames a guest puts in satp

Pte == [v : BOOLEAN, r : BOOLEAN, w : BOOLEAN, x : BOOLEAN, u : BOOLEAN,
        a : BOOLEAN, d : BOOLEAN, ppn : Nat]
Zero == [v |-> FALSE, r |-> FALSE, w |-> FALSE, x |-> FALSE, u |-> FALSE,
         a |-> FALSE, d |-> FALSE, ppn |-> 0]
Status == [mprv : BOOLEAN, mpp : Modes, sum : BOOLEAN, mxr : BOOLEAN]
Bare == [on |-> FALSE, root |-> 0]
Types == {"fetch", "read", "write"}     \* MEM_TYPE_*

ASSUME MemoryConstants ==
    /\ Levels \in Nat \ {0} /\ Radix \in Nat \ {0, 1}
    /\ Ram \subseteq Nat /\ Roots \subseteq Nat
    /\ Words \subseteq Pte /\ StatusWrites \subseteq Status

Offsets == 0 .. Radix - 1

\* The pages that an entry at each level stands for.
Span[level \in 0 .. Levels] == IF level = 0 THEN 1 ELSE Radix * Span[level - 1]

Pages == 0 .. Span[Levels] - 1
Addresses == [page : Pages, word : Offsets, canonical : {TRUE}]
                \cup [page : {0}, word : {0}, canonical : {FALSE}]

VARIABLES mem, mode, mstatus, satp,
          run,          \* "running", "abort" (mayfly_state) or a failed assertion
          is_except,    \* the last instruction recorded an exception
          rd            \* what it did with its destination register

registers == <<mode, mstatus, satp>>
effects == <<run, is_except, rd>>
memvars == <<mem, registers, effects>>

\* Reset: the image in memory holds no tables.
Init == /\ mem = [f \in Ram |-> [i \in Offsets |-> Zero]]
        /\ mode = MODE_M
        /\ mstatus = [mprv |-> FALSE, mpp |-> MODE_M, sum |-> FALSE, mxr |-> FALSE]
        /\ satp = Bare
        /\ run = "running" /\ is_except = FALSE /\ rd = "kept"

-----------------------------------------------------------------------------
(* isa_mmu_check and isa_mmu_translate.                                    *)

EffectiveMode(type) == IF mstatus.mprv /\ type # "fetch" THEN mstatus.mpp ELSE mode
Translated(type) == EffectiveMode(type) < MODE_M /\ satp.on

\* check_permission on a valid leaf.  Accessed and dirty bits are not set by the
\* emulator; their absence is a fault.
UserMatches(p, m) == /\ m = MODE_U => p.u
                     /\ (m = MODE_S /\ p.u) => mstatus.sum

\* Mutated: the dirty bit is not required.
PermittedClean(p, type) ==
    /\ UserMatches(p, EffectiveMode(type)) /\ p.a
    /\ CASE type = "fetch" -> p.x /\ ~(mode = MODE_S /\ p.u)
         [] type = "read"  -> p.r \/ (mstatus.mxr /\ p.x)
         [] type = "write" -> p.w

Permitted(p, type) ==
    /\ UserMatches(p, EffectiveMode(type)) /\ p.a
    /\ CASE type = "fetch" -> p.x /\ ~(mode = MODE_S /\ p.u)
         [] type = "read"  -> p.r \/ (mstatus.mxr /\ p.x)
         [] type = "write" -> p.w /\ p.d

\* An entry outside memory reads as zero.
Entry(table, i) == IF table \in Ram THEN mem[table][i] ELSE Zero
Vpn(page, level) == (page \div Span[level]) % Radix
Pointer(p) == p.v /\ ~p.r /\ ~p.w /\ ~p.x

\* The frame of the table that the walk for page uses at each level; below the
\* level where the walk ends it means nothing.
Tables(page) ==
    LET table[level \in 0 .. Levels - 1] ==
            IF level = Levels - 1 THEN satp.root
            ELSE Entry(table[level + 1], Vpn(page, level + 1)).ppn
    IN table

\* The result of the walk: whether page may be accessed, at which frame, and
\* whether the last entry was read where nothing answers.
Walk(page, type) ==
    LET table == Tables(page)
        pte(level) == Entry(table[level], Vpn(page, level))
        level == CHOOSE l \in 0 .. Levels - 1 :
                    /\ l = 0 \/ ~Pointer(pte(l))
                    /\ \A h \in l + 1 .. Levels - 1 : Pointer(pte(h))
        leaf == pte(level)
    IN [ok |-> /\ leaf.v /\ (leaf.w => leaf.r) /\ (leaf.r \/ leaf.x)
               /\ Permitted(leaf, type)
               /\ leaf.ppn % Span[level] = 0,
        frame |-> leaf.ppn + (page % Span[level]),
        stray |-> table[level] \notin Ram]

\* Where an access goes: "ok" with the frame, "fault" with an exception recorded,
\* or one of the assertions, which fail for an instruction fetch that MMU_FAIL
\* refuses and for a walk in the reserved mode.
Assertions == {"refused fetch", "reserved mode"}
Fault(s) == [outcome |-> "fault", frame |-> 0, stray |-> s]
Crash(why) == [outcome |-> why, frame |-> 0, stray |-> FALSE]

Locate(va, type) ==
    CASE ~Translated(type) ->
            [outcome |-> "ok", stray |-> FALSE,
             frame |-> IF va.canonical THEN va.page ELSE Span[Levels]]
      [] Translated(type) /\ ~va.canonical ->
            IF type = "fetch" THEN Crash("refused fetch") ELSE Fault(FALSE)
      [] OTHER ->
            LET walk == Walk(va.page, type) IN
            IF EffectiveMode(type) = MODE_H THEN Crash("reserved mode")
            ELSE IF walk.ok
                 THEN [outcome |-> "ok", stray |-> FALSE, frame |-> walk.frame]
                 ELSE Fault(walk.stray)

-----------------------------------------------------------------------------
(* The instructions.  Each begins with the flags cleared (execute).        *)

Instruction == run = "running" /\ UNCHANGED registers

Stop(stray) == run' = IF stray THEN "abort" ELSE "running"

Faults(at) == /\ at.outcome = "fault" /\ Stop(at.stray)
              /\ is_except' = TRUE /\ rd' = "kept" /\ UNCHANGED mem
Crashes(at) == /\ at.outcome \in Assertions /\ run' = at.outcome
               /\ UNCHANGED <<mem, is_except, rd>>
Misaligned == is_except' = TRUE /\ rd' = "kept" /\ UNCHANGED <<mem, run>>

\* paddr_read and paddr_write at a frame: what nothing answers aborts the run, but
\* is no exception.
Reads(frame) == Stop(frame \notin Ram) /\ UNCHANGED mem
Writes(frame, word) ==
    /\ Stop(frame \notin Ram)
    /\ IF frame \in Ram
       THEN \E value \in Words : mem' = [mem EXCEPT ![frame][word] = value]
       ELSE UNCHANGED mem

\* vaddr_ifetch, of an instruction that makes no access of its own.
Fetch(va) ==
    /\ Instruction
    /\ LET at == Locate(va, "fetch") IN
         \/ Crashes(at) \/ Faults(at)
         \/ at.outcome = "ok" /\ Reads(at.frame) /\ is_except' = FALSE /\ rd' = "kept"

Load(va, aligned) ==
    /\ Instruction
    /\ \/ ~aligned /\ Misaligned
       \/ /\ aligned
          /\ LET at == Locate(va, "read") IN
               \/ Crashes(at) \/ Faults(at)
               \/ at.outcome = "ok" /\ Reads(at.frame) /\ is_except' = FALSE /\ rd' = "written"

\* Mutated: the exception of a misaligned store is recorded and the store made.
StoreAnyway(va, aligned) ==
    /\ Instruction
    /\ LET at == Locate(va, "write") IN
         \/ Crashes(at) \/ Faults(at)
         \/ /\ at.outcome = "ok" /\ Writes(at.frame, va.word)
            /\ is_except' = ~aligned /\ rd' = "kept"

\* A misaligned store records its exception; when it is not translated the memory
\* is written all the same, when it is the walk is not begun.
Store(va, aligned) ==
    /\ Instruction
    /\ LET at == Locate(va, "write") IN
         \/ ~aligned /\ Translated("write") /\ va.canonical /\ Misaligned
         \/ /\ aligned \/ ~Translated("write") \/ ~va.canonical
            /\ \/ Crashes(at) \/ Faults(at)
               \/ /\ at.outcome = "ok" /\ Writes(at.frame, va.word)
                  /\ is_except' = ~aligned /\ rd' = "kept"

\* An atomic operation: a load, then a store unless the load faulted, then the
\* destination unless the store did.
Amo(va, aligned) ==
    /\ Instruction
    /\ \/ ~aligned /\ Misaligned
       \/ /\ aligned
          /\ LET from == Locate(va, "read")
                 to == Locate(va, "write") IN
               \/ Crashes(from) \/ Faults(from)
               \/ /\ from.outcome = "ok" /\ to.outcome = "fault"
                  /\ Stop(from.frame \notin Ram \/ to.stray)
                  /\ is_except' = TRUE /\ rd' = "kept" /\ UNCHANGED mem
               \/ /\ from.outcome = "ok" /\ to.outcome = "ok"
                  /\ Writes(to.frame, va.word)
                  /\ is_except' = FALSE /\ rd' = "written"

\* lr: no alignment check.  After a fault the load is made all the same, at an
\* address below 4096, where nothing answers.
LoadReserved(va) ==
    /\ Instruction
    /\ LET at == Locate(va, "read") IN
         \/ Crashes(at)
         \/ /\ at.outcome = "fault" /\ run' = "abort"
            /\ is_except' = TRUE /\ rd' = "kept" /\ UNCHANGED mem
         \/ at.outcome = "ok" /\ Reads(at.frame) /\ is_except' = FALSE /\ rd' = "written"

\* sc, with or without a matching reservation (module LrSc).
StoreConditional(va) ==
    /\ Instruction
    /\ LET at == Locate(va, "write") IN
         \/ Crashes(at) \/ Faults(at)
         \/ /\ at.outcome = "ok" /\ is_except' = FALSE
            /\ \/ Writes(at.frame, va.word) /\ rd' = "written"
               \/ UNCHANGED <<mem, run>> /\ rd' = "written"

\* Traps, returns and the CSR writes that change how addresses are seen.  satp
\* takes only values that turn translation on.
Control ==
    /\ run = "running" /\ UNCHANGED <<mem, run>>
    /\ is_except' = FALSE /\ rd' = "kept"
    /\ \/ mode' \in {MODE_U, MODE_S, MODE_M} /\ UNCHANGED <<mstatus, satp>>
       \/ mstatus' \in StatusWrites /\ UNCHANGED <<mode, satp>>
       \/ satp' \in [on : {TRUE}, root : Roots] /\ UNCHANGED <<mode, mstatus>>

Ended == run # "running" /\ UNCHANGED memvars

Access(va) ==
    \/ Fetch(va) \/ LoadReserved(va) \/ StoreConditional(va)
    \/ \E aligned \in BOOLEAN : Load(va, aligned) \/ Store(va, aligned) \/ Amo(va, aligned)

Next == (\E va \in Addresses : Access(va)) \/ Control \/ Ended
Spec == Init /\ [][Next]_memvars

-----------------------------------------------------------------------------
\* The table frames at each level that satp leads to, and the leaves in them.
Reached ==
    LET frames[level \in 0 .. Levels - 1] ==
            IF level = Levels - 1 THEN {satp.root}
            ELSE {Entry(f, i).ppn : f \in {g \in frames[level + 1] : g \in Ram}, i \in Offsets}
    IN frames

\* Under translation memory changes only inside the page or superpage of a leaf
\* that satp leads to and that lets the effective mode write it; without it, by
\* the identity.  (The tables are part of the same memory: a store may well
\* change the tables that the next one uses.)
Confined ==
    [][\A f \in Ram, i \in Offsets :
         (mem'[f][i] # mem[f][i] /\ Translated("write")) =>
            \E level \in 0 .. Levels - 1 : \E t \in Reached[level] \cap Ram, j \in Offsets :
               LET p == mem[t][j] IN
               /\ p.v /\ p.r /\ p.w /\ p.a /\ p.d
               /\ IF p.u THEN EffectiveMode("write") = MODE_S => mstatus.sum
                         ELSE EffectiveMode("write") = MODE_S
               /\ f \in p.ppn .. p.ppn + Span[level] - 1]_memvars

\* An instruction that records an exception under translation has changed neither
\* memory nor its destination register, whichever of its accesses failed: the
\* handler can run it again.
FaultsPrecise ==
    [][(is_except' /\ Translated("write")) => mem' = mem /\ rd' = "kept"]_memvars

\* check_permission: "redirect to AMO page fault exception": the page fault of a
\* load-reserved, its tables being in memory, is handed to the guest's handler and
\* does not end the run.
ReservedFaultHandled ==
    [][\A va \in Addresses :
         (LoadReserved(va) /\ is_except' /\ ~Walk(va.page, "read").stray)
             => run' = "running"]_memvars
=============================================================================
