--------------------------- MODULE InstructionProofs ---------------------------
(***************************************************************************)
(* Proofs about what an instruction does to memory, and which one it is.   *)
(*                                                                         *)
(* About LrSc, for any number of threads, any mixture of widths and any    *)
(* bound on the counter.  Neither property is inductive by itself: that a  *)
(* reservation which stands belongs to the running thread, and that one    *)
(* which was not disturbed stands, is what the sc of the kernel before     *)
(* each return, and the dropping of the reservation by every sc, maintain. *)
(*                                                                         *)
(* About Memory, for any number of levels, any size of the tables, any     *)
(* frames of memory and any contents a guest stores in them: where a store *)
(* goes is found by induction over the levels of the walk, from the root.  *)
(*                                                                         *)
(* About Decoder, for every word: that no two instructions share one.      *)
(***************************************************************************)
EXTENDS LrSc, Memory, Decoder, BasicFacts

LrInv == LrTypeOK /\ NoLostUpdate /\ ReservationCurrent /\ ReservationStands

LEMMA LrInitInv == LrInit => LrInv
<1>1. SUFFICES ASSUME LrInit PROVE LrInv
  OBVIOUS
<1>2. LrTypeOK
  BY <1>1 DEF LrInit, LrTypeOK, Unreserved, ReserveAddresses
<1>3. NoLostUpdate
  BY <1>1 DEF LrInit, NoLostUpdate
<1>4. ReservationCurrent /\ ReservationStands
  BY <1>1, LrScConstants DEF LrInit, ReservationCurrent, ReservationStands
<1>5. QED
  BY <1>2, <1>3, <1>4 DEF LrInv

\* The load makes the reservation and the register current at once.
LEMMA LoadReservedStep ==
    ASSUME LrInv, NEW t \in Threads, Lr(t) PROVE LrInv'
<1>1. Width[t] \in {15, 255} /\ t # Kernel
  BY LrScConstants
<1>2. reg' = [reg EXCEPT ![t] = counter] /\ reg'[t] = counter
  BY DEF LrInv, LrTypeOK, Lr
<1>3. LrTypeOK'
  <2>1. reg' \in [Threads -> Nat]
    BY <1>2 DEF LrInv, LrTypeOK
  <2>2. next' \in [Threads -> {"lr", "sc"}]
    BY DEF LrInv, LrTypeOK, Lr
  <2>3. reserve_addr' \in ReserveAddresses /\ reserve_flag' \in {Unreserved, 15, 255}
    BY <1>1 DEF Lr, ReserveAddresses
  <2>4. counter' \in Nat /\ added' \in Nat /\ running' \in Threads \cup {Kernel}
        /\ undisturbed' \in BOOLEAN
    BY DEF LrInv, LrTypeOK, Lr
  <2>5. QED
    BY <2>1, <2>2, <2>3, <2>4 DEF LrTypeOK
<1>4. NoLostUpdate'
  BY DEF LrInv, NoLostUpdate, Lr
<1>5. ReservationCurrent'
  BY <1>2 DEF ReservationCurrent, Lr
<1>6. ReservationStands'
  BY <1>1 DEF ReservationStands, Matches, Lr
<1>7. QED
  BY <1>3, <1>4, <1>5, <1>6 DEF LrInv

\* An sc that stores does so under a reservation, so what it adds to is the
\* counter; afterwards no reservation stands.
LEMMA StoreConditionalStep ==
    ASSUME LrInv, NEW t \in Threads, Sc(t) PROVE LrInv'
<1>1. Width[t] # Unreserved /\ t # Kernel
  BY LrScConstants DEF Unreserved
<1>2. CASE Matches("counter", Width[t])
  <2>1. reg[t] = counter
    BY <1>1, <1>2 DEF LrInv, ReservationCurrent, Matches, Sc
  <2>2. counter' = counter + 1 /\ added' = added + 1
    BY <1>2, <2>1 DEF Sc
  <2>3. QED
    <3>1. LrTypeOK'
      BY <2>2 DEF LrInv, LrTypeOK, Sc, Drop
    <3>2. NoLostUpdate'
      BY <2>2 DEF LrInv, NoLostUpdate
    <3>3. ReservationCurrent'
      BY DEF ReservationCurrent, Sc, Drop
    <3>4. ReservationStands'
      BY <1>1 DEF LrInv, LrTypeOK, ReservationStands, Sc
    <3>5. QED
      BY <3>1, <3>2, <3>3, <3>4 DEF LrInv
<1>3. CASE ~Matches("counter", Width[t])
  <2>1. UNCHANGED <<counter, added>>
    BY <1>3 DEF Sc
  <2>2. LrTypeOK'
    BY <2>1 DEF LrInv, LrTypeOK, Sc, Drop
  <2>3. NoLostUpdate' /\ ReservationCurrent'
    BY <2>1 DEF LrInv, NoLostUpdate, ReservationCurrent, Sc, Drop
  <2>4. ReservationStands'
    BY <1>1 DEF LrInv, LrTypeOK, ReservationStands, Sc
  <2>5. QED
    BY <2>2, <2>3, <2>4 DEF LrInv
<1>4. QED
  BY <1>2, <1>3

\* The kernel comes and goes.  It may find a reservation and it may change the
\* counter, but no thread runs before its own sc has dropped the reservation.
LEMMA KernelStep ==
    ASSUME LrInv, Preempt \/ KernelAdd \/ Return PROVE LrInv'
<1>1. CASE Preempt
  <2>1. running' = Kernel /\ ~undisturbed' /\ \A t \in Threads : t # Kernel
    BY <1>1, LrScConstants DEF Preempt
  <2>2. LrTypeOK' /\ NoLostUpdate'
    BY <1>1 DEF LrInv, LrTypeOK, NoLostUpdate, Preempt
  <2>3. ReservationCurrent' /\ ReservationStands'
    BY <2>1 DEF ReservationCurrent, ReservationStands
  <2>4. QED
    BY <2>2, <2>3 DEF LrInv
<1>2. CASE KernelAdd
  <2>1. running' = Kernel /\ ~undisturbed' /\ \A t \in Threads : t # Kernel
    BY <1>2, LrScConstants DEF LrInv, ReservationStands, KernelAdd
  <2>2. LrTypeOK' /\ NoLostUpdate'
    BY <1>2 DEF LrInv, LrTypeOK, NoLostUpdate, KernelAdd
  <2>3. ReservationCurrent' /\ ReservationStands'
    BY <2>1 DEF ReservationCurrent, ReservationStands
  <2>4. QED
    BY <2>2, <2>3 DEF LrInv
<1>3. CASE Return
  <2>1. reserve_flag' = Unreserved /\ ~undisturbed'
    BY <1>3 DEF LrInv, ReservationStands, Return, Drop
  <2>2. LrTypeOK' /\ NoLostUpdate'
    BY <1>3, <2>1 DEF LrInv, LrTypeOK, NoLostUpdate, Return
  <2>3. ReservationCurrent' /\ ReservationStands'
    BY <2>1 DEF ReservationCurrent, ReservationStands
  <2>4. QED
    BY <2>2, <2>3 DEF LrInv
<1>4. QED
  BY <1>1, <1>2, <1>3

LEMMA LrNextInv == LrInv /\ [LrNext]_lrvars => LrInv'
<1>1. SUFFICES ASSUME LrInv, [LrNext]_lrvars PROVE LrInv'
  OBVIOUS
<1>2. CASE UNCHANGED lrvars
  BY <1>1, <1>2 DEF LrInv, LrTypeOK, NoLostUpdate, ReservationCurrent, ReservationStands,
                    Matches, lrvars
<1>3. ASSUME NEW t \in Threads, Lr(t) PROVE LrInv'
  BY <1>1, <1>3, LoadReservedStep
<1>4. ASSUME NEW t \in Threads, Sc(t) PROVE LrInv'
  BY <1>1, <1>4, StoreConditionalStep
<1>5. CASE Preempt \/ KernelAdd \/ Return
  BY <1>1, <1>5, KernelStep
<1>6. QED
  BY <1>1, <1>2, <1>3, <1>4, <1>5 DEF LrNext

LEMMA LrHolds == LrSpec => []LrInv
<1>1. LrInit => LrInv
  BY LrInitInv
<1>2. LrInv /\ [LrNext]_lrvars => LrInv'
  BY LrNextInv
<1>3. QED
  BY <1>1, <1>2, PTL DEF LrSpec

\* The counter is what was added to it, for any number of threads: no sc stores over
\* an addition made since its lr.
THEOREM UpdatesKept == LrSpec => []NoLostUpdate
<1>1. LrInv => NoLostUpdate
  BY DEF LrInv
<1>2. QED
  BY <1>1, LrHolds, PTL

\* An sc that was not disturbed since its lr succeeds, whatever widths are mixed.
THEOREM UndisturbedSucceeds == LrSpec => NoSpuriousFailure
<1>1. ASSUME LrInv, NEW t \in Threads, Sc(t), undisturbed
      PROVE  added' = added + 1
  <2>1. Matches("counter", Width[t])
    BY <1>1 DEF LrInv, ReservationStands, Sc
  <2>2. QED
    BY <1>1, <2>1 DEF Sc
<1>2. LrInv /\ [LrNext]_lrvars =>
         [\A t \in Threads : (Sc(t) /\ undisturbed) => added' = added + 1]_lrvars
  BY <1>1
<1>3. QED
  BY <1>2, LrHolds, PTL DEF LrSpec, NoSpuriousFailure

-----------------------------------------------------------------------------
(* Memory: how the recursive functions of the walk unfold.                 *)

\* f is the function on 0 .. N that begins with c at the top and goes down by G.
Downward(f, N, T, c, G) ==
    f \in [0 .. N -> T] /\ f[N] = c /\ \A k \in 0 .. N - 1 : f[k] = G[k][f[k + 1]]

LEMMA DownwardExists ==
    ASSUME NEW N \in Nat, NEW T, NEW c \in T, NEW G \in [0 .. N - 1 -> [T -> T]]
    PROVE  \E f : Downward(f, N, T, c, G)
  <1> DEFINE H == [k \in 1 .. N |-> G[N - k]]
  <1>1. H \in [1 .. N -> [T -> T]]
    <2>1. \A k \in 1 .. N : N - k \in 0 .. N - 1  OBVIOUS
    <2> QED  BY <2>1
  <1>2. \A k \in 0 .. N - 1 : H[N - k] = G[k]
    <2>1. ASSUME NEW k \in 0 .. N - 1 PROVE H[N - k] = G[k]
      <3>1. N - k \in 1 .. N /\ N - (N - k) = k  OBVIOUS
      <3> QED  BY <3>1
    <2> QED  BY <2>1
  <1> HIDE DEF H
  <1>3. PICK e : Recursive(e, N, T, c, H)  BY <1>1, Recursion
  <1> DEFINE f == [k \in 0 .. N |-> e[N - k]]
  <1>4. \A k \in 0 .. N : N - k \in 0 .. N  OBVIOUS
  <1>5. f \in [0 .. N -> T] /\ f[N] = c  BY <1>3, <1>4 DEF Recursive
  <1>6. ASSUME NEW k \in 0 .. N - 1 PROVE f[k] = G[k][f[k + 1]]
    <2>1. /\ N - k \in 1 .. N /\ (N - k) - 1 = N - (k + 1)
          /\ k \in 0 .. N /\ k + 1 \in 0 .. N
      OBVIOUS
    <2>2. e[N - k] = H[N - k][e[(N - k) - 1]]  BY <1>3, <2>1 DEF Recursive
    <2>3. f[k] = e[N - k] /\ f[k + 1] = e[(N - k) - 1]  BY <2>1
    <2>4. H[N - k] = G[k]  BY <1>2
    <2> QED  BY <2>2, <2>3, <2>4
  <1> HIDE DEF f
  <1>7. Downward(f, N, T, c, G)  BY <1>5, <1>6 DEF Downward
  <1> QED  BY <1>7

LEMMA SpanUnfolds ==
    Span[0] = 1 /\ \A level \in 1 .. Levels : Span[level] = Radix * Span[level - 1]
  <1> USE MemoryConstants
  <1> DEFINE Loop(f) == [level \in 0 .. Levels |->
                            IF level = 0 THEN 1 ELSE Radix * f[level - 1]]
             G == [k \in 1 .. Levels |-> [n \in Nat |-> Radix * n]]
  <1>1. \E f : f = Loop(f)
    <2>1. G \in [1 .. Levels -> [Nat -> Nat]]  BY SMT
    <2>2. \A k \in 1 .. Levels, n \in Nat : G[k][n] = Radix * n  OBVIOUS
    <2> HIDE DEF G
    <2>3. 1 \in Nat /\ Levels \in Nat  OBVIOUS
    <2>4. PICK f : Recursive(f, Levels, Nat, 1, G)  BY <2>1, <2>3, Recursion
    <2>5. f \in [0 .. Levels -> Nat] /\ f[0] = 1  BY <2>4 DEF Recursive
    <2>6. ASSUME NEW k \in 0 .. Levels PROVE f[k] = Loop(f)[k]
      <3>1. CASE k = 0  BY <2>5, <3>1
      <3>2. CASE k # 0
        <4>1. k \in 1 .. Levels /\ k - 1 \in 0 .. Levels  BY <3>2
        <4>2. f[k] = G[k][f[k - 1]] /\ f[k - 1] \in Nat
          BY <2>4, <2>5, <4>1 DEF Recursive
        <4> QED  BY <2>2, <3>2, <4>1, <4>2
      <3> QED  BY <3>1, <3>2
    <2>7. f = Loop(f)  BY <2>5, <2>6
    <2> HIDE DEF Loop
    <2> QED  BY <2>7
  <1>2. Span = Loop(Span)
    <2>1. Span = CHOOSE f : f = Loop(f)  BY DEF Span
    <2> HIDE DEF Loop
    <2> QED  BY <1>1, <2>1
  <1>3. Span[0] = 1  BY <1>2
  <1>4. ASSUME NEW level \in 1 .. Levels PROVE Span[level] = Radix * Span[level - 1]
    <2>1. level \in 0 .. Levels /\ level # 0  OBVIOUS
    <2>2. Span[level] = Loop(Span)[level]  BY <1>2
    <2> QED  BY <2>1, <2>2
  <1> QED  BY <1>3, <1>4

LEMMA SpanPositive == \A level \in 0 .. Levels : Span[level] \in Nat \ {0}
  <1> USE MemoryConstants
  <1> DEFINE S == {level \in 0 .. Levels : Span[level] \in Nat \ {0}}
  <1>1. 0 \in S  BY SpanUnfolds
  <1>2. ASSUME NEW n \in 0 .. Levels - 1, n \in S PROVE n + 1 \in S
    <2>1. n + 1 \in 1 .. Levels /\ (n + 1) - 1 = n  OBVIOUS
    <2>2. Span[n + 1] = Radix * Span[n]  BY <2>1, SpanUnfolds
    <2>3. Span[n] \in Nat \ {0}  BY <1>2
    <2> DEFINE s == Span[n]
    <2>4. s \in Nat \ {0} /\ Span[n + 1] = Radix * s  BY <2>2, <2>3
    <2> HIDE DEF s
    <2>5. Radix * s \in Nat \ {0}  BY <2>4, SMT
    <2> QED  BY <2>1, <2>4, <2>5
  <1> HIDE DEF S
  <1>3. \A n \in 0 .. Levels : n \in S  BY <1>1, <1>2, InductionUpTo
  <1> QED  BY <1>3 DEF S

\* The index of an entry is within its table.
LEMMA VpnInTable ==
    ASSUME NEW page \in Nat, NEW level \in 0 .. Levels
    PROVE  Vpn(page, level) \in Offsets
  <1> DEFINE span == Span[level]
  <1>1. span \in Nat \ {0}  BY SpanPositive
  <1> HIDE DEF span
  <1> DEFINE q == page \div span
  <1>2. q \in Int  BY <1>1, Division
  <1> HIDE DEF q
  <1>3. (q % Radix) \in 0 .. Radix - 1  BY <1>2, MemoryConstants, Division
  <1> QED  BY <1>3 DEF Vpn, Offsets, q, span

-----------------------------------------------------------------------------
(* Memory: the types, and what records an exception keeps.                 *)

MemTypeOK ==
    /\ mem \in [Ram -> [Offsets -> Pte]]
    /\ mode \in Modes /\ mstatus \in Status /\ satp \in [on : BOOLEAN, root : Nat]

\* A recorded exception says that the last instruction wrote no register.
ExceptionKeeps == is_except => rd = "kept"

MemInv == MemTypeOK /\ ExceptionKeeps

LEMMA MemInitInv == Init => MemInv
<1>1. SUFFICES ASSUME Init PROVE MemInv
  OBVIOUS
<1>2. Zero \in Pte
  BY DEF Zero, Pte
<1>3. MemTypeOK
  BY <1>1, <1>2 DEF Init, MemTypeOK, Bare, Status, Modes, MODE_U, MODE_M
<1>4. ExceptionKeeps
  BY <1>1 DEF Init, ExceptionKeeps
<1>5. QED
  BY <1>3, <1>4 DEF MemInv

\* A store changes one word of one frame, which is in memory.
LEMMA WriteLands ==
    ASSUME MemTypeOK, NEW frame, NEW word, Writes(frame, word)
    PROVE  /\ mem' \in [Ram -> [Offsets -> Pte]]
           /\ \A f \in Ram, i \in Offsets : mem'[f][i] # mem[f][i] => f = frame
<1>1. CASE frame \in Ram
  <2>1. PICK value \in Words : mem' = [mem EXCEPT ![frame][word] = value]
    BY <1>1 DEF Writes
  <2>2. value \in Pte
    BY MemoryConstants
  <2>3. [mem[frame] EXCEPT ![word] = value] \in [Offsets -> Pte]
    BY <1>1, <2>2 DEF MemTypeOK
  <2>4. mem' = [mem EXCEPT ![frame] = [mem[frame] EXCEPT ![word] = value]]
    BY <2>1
  <2>5. QED
    BY <2>3, <2>4 DEF MemTypeOK
<1>2. CASE frame \notin Ram
  BY <1>2 DEF Writes, MemTypeOK
<1>3. QED
  BY <1>1, <1>2

\* An address that is not canonical is never found under translation.
LEMMA OnlyCanonicalFound ==
    ASSUME NEW va, NEW type, Translated(type), Locate(va, type).outcome = "ok"
    PROVE  /\ va.canonical /\ EffectiveMode(type) # MODE_H /\ Walk(va.page, type).ok
           /\ Locate(va, type).frame = Walk(va.page, type).frame
<1>1. va.canonical
  BY DEF Locate, Fault, Crash
<1> DEFINE walk == Walk(va.page, type)
<1>2. Locate(va, type) =
        IF EffectiveMode(type) = MODE_H THEN Crash("reserved mode")
        ELSE IF walk.ok THEN [outcome |-> "ok", stray |-> FALSE, frame |-> walk.frame]
                        ELSE Fault(walk.stray)
  BY <1>1 DEF Locate
<1> HIDE DEF walk
<1>3. EffectiveMode(type) # MODE_H /\ walk.ok
  <2>1. EffectiveMode(type) # MODE_H
    <3>1. Crash("reserved mode").outcome = "reserved mode"
      BY DEF Crash
    <3>2. QED
      BY <1>2, <3>1
  <2>2. walk.ok
    <3>1. Fault(walk.stray).outcome = "fault"
      BY DEF Fault
    <3>2. QED
      BY <1>2, <2>1, <3>1
  <2>3. QED
    BY <2>1, <2>2
<1>4. Locate(va, type).frame = walk.frame
  BY <1>2, <1>3
<1>5. QED
  BY <1>1, <1>3, <1>4 DEF walk

Stores(va) ==
    LET at == Locate(va, "write") IN at.outcome = "ok" /\ Writes(at.frame, va.word)

\* What every access does: it leaves memory alone or stores where its address leads, and
\* what it records as an exception it has not half done.
Effect(va) ==
    /\ UNCHANGED registers
    /\ mem' = mem \/ Stores(va)
    /\ is_except' => rd' = "kept"
    /\ (is_except' /\ Translated("write")) => mem' = mem

LEMMA Refused ==
    ASSUME MemInv, NEW at, Crashes(at) \/ Faults(at)
    PROVE  mem' = mem /\ (is_except' => rd' = "kept")
  BY DEF MemInv, ExceptionKeeps, Crashes, Faults

LEMMA AccessEffect ==
    ASSUME MemInv, NEW va, Access(va) PROVE Effect(va)
<1> DEFINE from == Locate(va, "read")
           to == Locate(va, "write")
<1>1. CASE Fetch(va)
  <2> DEFINE at == Locate(va, "fetch")
  <2>1. CASE Crashes(at) \/ Faults(at)
    BY <1>1, <2>1, Refused DEF Effect, Fetch, Instruction
  <2>2. CASE at.outcome = "ok" /\ Reads(at.frame) /\ is_except' = FALSE /\ rd' = "kept"
    BY <1>1, <2>2 DEF Effect, Fetch, Instruction, Reads
  <2>3. QED
    BY <1>1, <2>1, <2>2 DEF Fetch
<1>2. CASE LoadReserved(va)
  BY <1>2, Refused DEF Effect, LoadReserved, Instruction, Reads
<1>3. CASE StoreConditional(va)
  <2>1. CASE Crashes(to) \/ Faults(to)
    BY <1>3, <2>1, Refused DEF Effect, StoreConditional, Instruction
  <2>2. CASE /\ to.outcome = "ok" /\ is_except' = FALSE
             /\ \/ Writes(to.frame, va.word) /\ rd' = "written"
                \/ UNCHANGED <<mem, run>> /\ rd' = "written"
    BY <1>3, <2>2 DEF Effect, Stores, StoreConditional, Instruction
  <2>3. QED
    BY <1>3, <2>1, <2>2 DEF StoreConditional
<1>4. ASSUME NEW aligned \in BOOLEAN, Load(va, aligned) PROVE Effect(va)
  <2>1. CASE Crashes(from) \/ Faults(from)
    BY <1>4, <2>1, Refused DEF Effect, Load, Instruction
  <2>2. CASE Misaligned
    BY <1>4, <2>2 DEF Effect, Load, Instruction, Misaligned
  <2>3. CASE from.outcome = "ok" /\ Reads(from.frame) /\ is_except' = FALSE /\ rd' = "written"
    BY <1>4, <2>3 DEF Effect, Load, Instruction, Reads
  <2>4. QED
    BY <1>4, <2>1, <2>2, <2>3 DEF Load
<1>5. ASSUME NEW aligned \in BOOLEAN, Store(va, aligned) PROVE Effect(va)
  <2>1. CASE Crashes(to) \/ Faults(to)
    BY <1>5, <2>1, Refused DEF Effect, Store, Instruction
  <2>2. CASE Misaligned
    BY <1>5, <2>2 DEF Effect, Store, Instruction, Misaligned
  <2>3. CASE /\ aligned \/ ~Translated("write") \/ ~va.canonical
             /\ to.outcome = "ok" /\ Writes(to.frame, va.word)
             /\ is_except' = ~aligned /\ rd' = "kept"
    <3>1. ~(is_except' /\ Translated("write"))
      BY <2>3, OnlyCanonicalFound
    <3>2. QED
      BY <1>5, <2>3, <3>1 DEF Effect, Stores, Store, Instruction
  <2>4. QED
    BY <1>5, <2>1, <2>2, <2>3 DEF Store
<1>6. ASSUME NEW aligned \in BOOLEAN, Amo(va, aligned) PROVE Effect(va)
  <2>1. CASE Crashes(from) \/ Faults(from)
    BY <1>6, <2>1, Refused DEF Effect, Amo, Instruction
  <2>2. CASE Misaligned
    BY <1>6, <2>2 DEF Effect, Amo, Instruction, Misaligned
  <2>3. CASE is_except' = TRUE /\ rd' = "kept" /\ UNCHANGED mem
    BY <1>6, <2>3 DEF Effect, Amo, Instruction
  <2>4. CASE /\ to.outcome = "ok" /\ Writes(to.frame, va.word)
             /\ is_except' = FALSE /\ rd' = "written"
    BY <1>6, <2>4 DEF Effect, Stores, Amo, Instruction
  <2>5. QED
    BY <1>6, <2>1, <2>2, <2>3, <2>4 DEF Amo
<1>7. QED
  BY <1>1, <1>2, <1>3, <1>4, <1>5, <1>6 DEF Access

LEMMA MemNextInv == MemInv /\ [Next]_memvars => MemInv'
<1>1. SUFFICES ASSUME MemInv, [Next]_memvars PROVE MemInv'
  OBVIOUS
<1>2. CASE UNCHANGED memvars
  BY <1>1, <1>2 DEF MemInv, MemTypeOK, ExceptionKeeps, memvars, registers, effects
<1>3. ASSUME NEW va \in Addresses, Access(va) PROVE MemInv'
  <2>1. Effect(va)
    BY <1>1, <1>3, AccessEffect
  <2>2. mem' \in [Ram -> [Offsets -> Pte]]
    BY <1>1, <2>1, WriteLands DEF MemInv, MemTypeOK, Effect, Stores
  <2>3. QED
    BY <1>1, <2>1, <2>2 DEF MemInv, MemTypeOK, ExceptionKeeps, Effect, registers
<1>4. CASE Control
  <2>1. mode' \in Modes
    <3>1. {MODE_U, MODE_S, MODE_M} \subseteq Modes
      BY DEF Modes, MODE_U, MODE_S, MODE_M
    <3>2. mode' = mode \/ mode' \in {MODE_U, MODE_S, MODE_M}
      BY <1>4 DEF Control
    <3>3. QED
      BY <1>1, <3>1, <3>2 DEF MemInv, MemTypeOK
  <2>2. mstatus' \in Status
    BY <1>1, <1>4, MemoryConstants DEF Control, MemInv, MemTypeOK
  <2>3. satp' \in [on : BOOLEAN, root : Nat]
    <3>1. Roots \subseteq Nat
      BY MemoryConstants
    <3>2. [on : {TRUE}, root : Roots] \subseteq [on : BOOLEAN, root : Nat]
      BY <3>1
    <3>3. satp' = satp \/ satp' \in [on : {TRUE}, root : Roots]
      BY <1>4 DEF Control
    <3>4. QED
      BY <1>1, <3>2, <3>3 DEF MemInv, MemTypeOK
  <2>4. QED
    BY <1>1, <1>4, <2>1, <2>2, <2>3 DEF Control, MemInv, MemTypeOK, ExceptionKeeps
<1>5. CASE Ended
  BY <1>1, <1>2, <1>5 DEF Ended
<1>6. QED
  BY <1>1, <1>2, <1>3, <1>4, <1>5 DEF Next

LEMMA MemHolds == Spec => []MemInv
<1>1. Init => MemInv
  BY MemInitInv
<1>2. MemInv /\ [Next]_memvars => MemInv'
  BY MemNextInv
<1>3. QED
  BY <1>1, <1>2, PTL DEF Spec

\* An instruction that records an exception under translation has changed neither memory
\* nor its destination register, whatever tables the guest has built (inst.c, vaddr.c).
THEOREM ExceptionsPrecise == Spec => FaultsPrecise
<1>1. ASSUME MemInv, [Next]_memvars, ~UNCHANGED memvars, is_except', Translated("write")
      PROVE  mem' = mem /\ rd' = "kept"
  <2>1. ASSUME NEW va \in Addresses, Access(va) PROVE mem' = mem /\ rd' = "kept"
    BY <1>1, <2>1, AccessEffect DEF Effect
  <2>2. QED
    BY <1>1, <2>1 DEF Next, Control, Ended
<1>2. MemInv /\ [Next]_memvars =>
         [(is_except' /\ Translated("write")) => mem' = mem /\ rd' = "kept"]_memvars
  BY <1>1
<1>3. QED
  BY <1>2, MemHolds, PTL DEF Spec, FaultsPrecise

-----------------------------------------------------------------------------
(* Memory: where the walk ends.                                            *)

\* The entry that the walk for page reads at a level.
Read(page, level) == Entry(Tables(page)[level], Vpn(page, level))

LEMMA EntryPpn ==
    ASSUME MemTypeOK, NEW table, NEW i \in Offsets
    PROVE  Entry(table, i) \in Pte /\ Entry(table, i).ppn \in Nat
<1>1. Zero \in Pte
  BY DEF Zero, Pte
<1>2. Entry(table, i) \in Pte
  BY <1>1 DEF Entry, MemTypeOK
<1>3. QED
  BY <1>2 DEF Pte

LEMMA TablesUnfold ==
    ASSUME MemTypeOK, NEW page \in Nat
    PROVE  /\ Tables(page)[Levels - 1] = satp.root
           /\ \A level \in 0 .. Levels - 2 :
                 Tables(page)[level] = Read(page, level + 1).ppn
  <1> USE MemoryConstants
  <1> DEFINE N == Levels - 1
             Loop(f) == [level \in 0 .. Levels - 1 |->
                            IF level = Levels - 1 THEN satp.root
                            ELSE Entry(f[level + 1], Vpn(page, level + 1)).ppn]
             G == [k \in 0 .. N - 1 |-> [t \in Nat |-> Entry(t, Vpn(page, k + 1)).ppn]]
  <1>1. Tables(page) = CHOOSE f : f = Loop(f)  BY DEF Tables
  <1>2. \E f : f = Loop(f)
    <2>1. G \in [0 .. N - 1 -> [Nat -> Nat]]
      <3>1. \A k \in 0 .. N - 1 : Vpn(page, k + 1) \in Offsets  BY VpnInTable
      <3>2. \A k \in 0 .. N - 1, t \in Nat : Entry(t, Vpn(page, k + 1)).ppn \in Nat
        BY <3>1, EntryPpn
      <3> QED  BY <3>2
    <2>2. \A k \in 0 .. N - 1, t \in Nat : G[k][t] = Entry(t, Vpn(page, k + 1)).ppn  OBVIOUS
    <2> HIDE DEF G
    <2>3. N \in Nat /\ satp.root \in Nat  BY DEF MemTypeOK
    <2>4. PICK f : Downward(f, N, Nat, satp.root, G)  BY <2>1, <2>3, DownwardExists
    <2>5. f \in [0 .. N -> Nat] /\ f[N] = satp.root  BY <2>4 DEF Downward
    <2>6. ASSUME NEW k \in 0 .. Levels - 1 PROVE f[k] = Loop(f)[k]
      <3>1. CASE k = N  BY <2>5, <3>1
      <3>2. CASE k # N
        <4>1. k \in 0 .. N - 1 /\ k + 1 \in 0 .. N  BY <3>2
        <4>2. f[k] = G[k][f[k + 1]] /\ f[k + 1] \in Nat  BY <2>4, <2>5, <4>1 DEF Downward
        <4>3. f[k] = Entry(f[k + 1], Vpn(page, k + 1)).ppn  BY <2>2, <4>1, <4>2
        <4> QED  BY <3>2, <4>3
      <3> QED  BY <3>1, <3>2
    <2>7. f = Loop(f)  BY <2>5, <2>6
    <2> HIDE DEF Loop
    <2> QED  BY <2>7
  <1>3. Tables(page) = Loop(Tables(page))
    <2> HIDE DEF Loop
    <2> QED  BY <1>1, <1>2
  <1> DEFINE T == Tables(page)
  <1>4. T = Loop(T)  BY <1>3
  <1> HIDE DEF T
  <1>5. T[Levels - 1] = satp.root
    <2>1. Levels - 1 \in 0 .. Levels - 1  OBVIOUS
    <2>2. T[Levels - 1] = Loop(T)[Levels - 1]  BY <1>4
    <2> QED  BY <2>1, <2>2
  <1>6. ASSUME NEW level \in 0 .. Levels - 2
        PROVE  T[level] = Entry(T[level + 1], Vpn(page, level + 1)).ppn
    <2>1. level \in 0 .. Levels - 1 /\ level # Levels - 1  OBVIOUS
    <2>2. T[level] = Loop(T)[level]  BY <1>4
    <2> QED  BY <2>1, <2>2
  <1> QED  BY <1>5, <1>6 DEF T, Read

LEMMA ReachedUnfolds ==
    ASSUME MemTypeOK
    PROVE  /\ Reached[Levels - 1] = {satp.root}
           /\ \A level \in 0 .. Levels - 2 :
                 Reached[level] =
                    {Entry(f, i).ppn : f \in {g \in Reached[level + 1] : g \in Ram}, i \in Offsets}
  <1> USE MemoryConstants
  <1> DEFINE N == Levels - 1
             Below(S) == {Entry(f, i).ppn : f \in {g \in S : g \in Ram}, i \in Offsets}
             Loop(frames) == [level \in 0 .. Levels - 1 |->
                                IF level = Levels - 1 THEN {satp.root}
                                ELSE Below(frames[level + 1])]
             G == [k \in 0 .. N - 1 |-> [S \in SUBSET Nat |-> Below(S)]]
  <1>1. Reached = CHOOSE frames : frames = Loop(frames)  BY DEF Reached
  <1>2. \E frames : frames = Loop(frames)
    <2>1. ASSUME NEW S \in SUBSET Nat PROVE Below(S) \in SUBSET Nat
      BY EntryPpn
    <2> HIDE DEF Below
    <2>2. G \in [0 .. N - 1 -> [SUBSET Nat -> SUBSET Nat]]  BY <2>1
    <2>3. \A k \in 0 .. N - 1, S \in SUBSET Nat : G[k][S] = Below(S)  OBVIOUS
    <2> HIDE DEF G
    <2> DEFINE root == {satp.root}
    <2>4. N \in Nat /\ root \in SUBSET Nat  BY DEF MemTypeOK
    <2> HIDE DEF root
    <2>5. PICK f : Downward(f, N, SUBSET Nat, root, G)  BY <2>2, <2>4, DownwardExists
    <2>6. f \in [0 .. N -> SUBSET Nat] /\ f[N] = root  BY <2>5 DEF Downward
    <2>7. ASSUME NEW k \in 0 .. Levels - 1 PROVE f[k] = Loop(f)[k]
      <3>1. CASE k = N  BY <2>6, <3>1 DEF root
      <3>2. CASE k # N
        <4>1. k \in 0 .. N - 1 /\ k + 1 \in 0 .. N  BY <3>2
        <4>2. f[k] = G[k][f[k + 1]] /\ f[k + 1] \in SUBSET Nat
          BY <2>5, <2>6, <4>1 DEF Downward
        <4>3. f[k] = Below(f[k + 1])  BY <2>3, <4>1, <4>2
        <4> QED  BY <3>2, <4>3
      <3> QED  BY <3>1, <3>2
    <2>8. f = Loop(f)  BY <2>6, <2>7
    <2> HIDE DEF Loop
    <2> QED  BY <2>8
  <1>3. Reached = Loop(Reached)
    <2> HIDE DEF Loop
    <2> QED  BY <1>1, <1>2
  <1> HIDE DEF Below
  <1>4. Reached[Levels - 1] = {satp.root}
    <2>1. Levels - 1 \in 0 .. Levels - 1  OBVIOUS
    <2>2. Reached[Levels - 1] = Loop(Reached)[Levels - 1]  BY <1>3
    <2> QED  BY <2>1, <2>2
  <1>5. ASSUME NEW level \in 0 .. Levels - 2 PROVE Reached[level] = Below(Reached[level + 1])
    <2>1. level \in 0 .. Levels - 1 /\ level # Levels - 1  OBVIOUS
    <2>2. Reached[level] = Loop(Reached)[level]  BY <1>3
    <2> QED  BY <2>1, <2>2
  <1> QED  BY <1>4, <1>5 DEF Below

\* The walk goes down as long as it reads pointers.
EndsAt(page, l) == /\ l = 0 \/ ~Pointer(Read(page, l))
                   /\ \A h \in l + 1 .. Levels - 1 : Pointer(Read(page, h))
End(page) == CHOOSE l \in 0 .. Levels - 1 : EndsAt(page, l)

LEMMA WalkEnds ==
    ASSUME NEW page PROVE End(page) \in 0 .. Levels - 1 /\ EndsAt(page, End(page))
  <1> USE MemoryConstants
  <1> DEFINE D == {d \in 0 .. Levels - 1 :
                      d = Levels - 1 \/ ~Pointer(Read(page, (Levels - 1) - d))}
  <1>1. D \in SUBSET Nat /\ Levels - 1 \in D  OBVIOUS
  <1>2. PICK d \in D : \A e \in D : d <= e  BY <1>1, LeastNatural
  <1> DEFINE l == (Levels - 1) - d
  <1>3. d \in 0 .. Levels - 1  BY <1>2
  <1>4. l \in 0 .. Levels - 1  BY <1>3
  <1>5. l = 0 \/ ~Pointer(Read(page, l))  BY <1>2
  <1>6. ASSUME NEW h \in l + 1 .. Levels - 1 PROVE Pointer(Read(page, h))
    <2> DEFINE e == (Levels - 1) - h
    <2>1. e \in 0 .. Levels - 1 /\ ~(d <= e) /\ (Levels - 1) - e = h /\ e # Levels - 1
      BY <1>3
    <2>2. e \notin D  BY <1>2, <2>1
    <2> QED  BY <2>1, <2>2
  <1> HIDE DEF l
  <1>7. \E k \in 0 .. Levels - 1 : EndsAt(page, k)  BY <1>4, <1>5, <1>6 DEF EndsAt
  <1> QED  BY <1>7 DEF End

\* Nothing that answers no read is a pointer or a leaf.
LEMMA ValidInMemory ==
    ASSUME NEW page, NEW level, Read(page, level).v
    PROVE  /\ Tables(page)[level] \in Ram
           /\ Read(page, level) = mem[Tables(page)[level]][Vpn(page, level)]
  BY DEF Read, Entry, Zero

\* Down to where the walk ends, every table it uses is one that satp leads to.
LEMMA TablesReached ==
    ASSUME MemTypeOK, NEW page \in Nat, NEW end \in 0 .. Levels - 1,
           \A h \in end + 1 .. Levels - 1 : Pointer(Read(page, h))
    PROVE  Tables(page)[end] \in Reached[end]
  <1> USE MemoryConstants
  <1> DEFINE N == Levels - 1
             S == {d \in 0 .. N - end : Tables(page)[N - d] \in Reached[N - d]}
  <1>1. 0 \in S
    <2>1. Tables(page)[N] = satp.root /\ Reached[N] = {satp.root}
      BY TablesUnfold, ReachedUnfolds
    <2>2. N - 0 = N /\ 0 \in 0 .. N - end  OBVIOUS
    <2> QED  BY <2>1, <2>2
  <1>2. ASSUME NEW d \in 0 .. (N - end) - 1, d \in S PROVE d + 1 \in S
    <2> DEFINE h == N - d
               l == N - (d + 1)
    <2>1. /\ h \in end + 1 .. Levels - 1 /\ h \in 0 .. Levels /\ h = l + 1
          /\ l \in 0 .. Levels - 2 /\ d + 1 \in 0 .. N - end
      OBVIOUS
    <2>2. Tables(page)[h] \in Reached[h]  BY <1>2
    <2> HIDE DEF h, l
    <2>3. Read(page, h).v  BY <2>1 DEF Pointer
    <2>4. Tables(page)[h] \in Ram  BY <2>3, ValidInMemory
    <2>5. Vpn(page, h) \in Offsets  BY <2>1, VpnInTable
    <2>6. Tables(page)[l] = Entry(Tables(page)[h], Vpn(page, h)).ppn
      BY <2>1, TablesUnfold DEF Read
    <2>7. Reached[l] =
            {Entry(f, i).ppn : f \in {g \in Reached[h] : g \in Ram}, i \in Offsets}
      BY <2>1, ReachedUnfolds
    <2>8. Tables(page)[l] \in Reached[l]  BY <2>2, <2>4, <2>5, <2>6, <2>7
    <2> QED  BY <2>1, <2>8 DEF l
  <1> DEFINE M == N - end
  <1>3. M \in Nat  OBVIOUS
  <1>4. \A n \in 0 .. M : n \in S
    <2>1. 0 \in S /\ \A d \in 0 .. M - 1 : d \in S => d + 1 \in S  BY <1>1, <1>2
    <2> HIDE DEF S, M
    <2> QED  BY <1>3, <2>1, InductionUpTo
  <1>5. M \in 0 .. M /\ N - M = end  BY <1>3
  <1> QED  BY <1>4, <1>5

\* A leaf that lets an access of a type pass.
Lets(p, type) ==
    /\ p.v /\ p.a
    /\ IF p.u THEN EffectiveMode(type) = MODE_S => mstatus.sum /\ type # "fetch"
              ELSE EffectiveMode(type) = MODE_S
    /\ CASE type = "fetch" -> p.x
         [] type = "read"  -> p.r \/ (mstatus.mxr /\ p.x)
         [] type = "write" -> p.r /\ p.w /\ p.d

\* A leaf that satp leads to lets the access pass, and its page or superpage covers the
\* frame.
Granted(type, frame) ==
    \E level \in 0 .. Levels - 1 : \E t \in Reached[level] \cap Ram, j \in Offsets :
        /\ Lets(mem[t][j], type)
        /\ frame \in mem[t][j].ppn .. mem[t][j].ppn + Span[level] - 1

LEMMA WalkGranted ==
    ASSUME MemTypeOK, NEW type \in Types, Translated(type), EffectiveMode(type) # MODE_H,
           NEW page \in Nat, Walk(page, type).ok
    PROVE  Granted(type, Walk(page, type).frame)
  <1> USE MemoryConstants
  <1> DEFINE level == End(page)
             leaf == Read(page, level)
             t == Tables(page)[level]
             j == Vpn(page, level)
  <1>1. level \in 0 .. Levels - 1 /\ EndsAt(page, level)  BY WalkEnds
  <1>2. /\ leaf.v /\ (leaf.w => leaf.r) /\ (leaf.r \/ leaf.x) /\ Permitted(leaf, type)
        /\ Walk(page, type).frame = leaf.ppn + (page % Span[level])
    BY DEF Walk, End, EndsAt, Read
  <1> HIDE DEF level
  <1>3. t \in Ram /\ leaf = mem[t][j]  BY <1>2, ValidInMemory
  <1>4. j \in Offsets  BY <1>1, VpnInTable
  <1>5. t \in Reached[level]  BY <1>1, TablesReached DEF EndsAt
  <1>6. leaf \in Pte  BY <1>4, EntryPpn DEF Read
  <1> HIDE DEF leaf, t, j
  <1>7. EffectiveMode(type) \in {MODE_U, MODE_S}
    BY DEF Translated, MemTypeOK, Modes, MODE_U, MODE_S, MODE_H, MODE_M, EffectiveMode, Status
  <1>8. leaf.a /\ UserMatches(leaf, EffectiveMode(type))  BY <1>2 DEF Permitted
  <1>9. IF leaf.u THEN EffectiveMode(type) = MODE_S => mstatus.sum
                  ELSE EffectiveMode(type) = MODE_S
    BY <1>7, <1>8 DEF UserMatches
  <1>10. Lets(leaf, type)
    <2>1. CASE type = "fetch"
      <3>1. EffectiveMode(type) = mode  BY <2>1 DEF EffectiveMode
      <3>2. leaf.x /\ ~(mode = MODE_S /\ leaf.u)  BY <1>2, <2>1 DEF Permitted
      <3> QED  BY <1>2, <1>8, <1>9, <2>1, <3>1, <3>2 DEF Lets
    <2>2. CASE type = "read"
      <3>1. leaf.r \/ (mstatus.mxr /\ leaf.x)  BY <1>2, <2>2 DEF Permitted
      <3> QED  BY <1>2, <1>8, <1>9, <2>2, <3>1 DEF Lets
    <2>3. CASE type = "write"
      <3>1. leaf.w /\ leaf.d  BY <1>2, <2>3 DEF Permitted
      <3> QED  BY <1>2, <1>8, <1>9, <2>3, <3>1 DEF Lets
    <2> QED  BY <2>1, <2>2, <2>3 DEF Types
  <1>11. leaf.ppn + (page % Span[level]) \in leaf.ppn .. leaf.ppn + Span[level] - 1
    <2> DEFINE span == Span[level]
               ppn == leaf.ppn
    <2>1. span \in Nat \ {0}  BY <1>1, SpanPositive
    <2>2. ppn \in Nat  BY <1>6 DEF Pte
    <2> HIDE DEF span, ppn
    <2>3. (page % span) \in 0 .. span - 1  BY <2>1, Division
    <2>4. ppn + (page % span) \in ppn .. ppn + span - 1  BY <2>1, <2>2, <2>3
    <2> QED  BY <2>4 DEF span, ppn
  <1> QED  BY <1>1, <1>2, <1>3, <1>4, <1>5, <1>10, <1>11 DEF Granted

LEMMA PagesNatural == ASSUME NEW va \in Addresses PROVE va.page \in Nat
  <1>1. Span[Levels] \in Nat  BY SpanPositive, MemoryConstants
  <1>2. va.page \in Pages \cup {0}  BY DEF Addresses
  <1> QED  BY <1>1, <1>2 DEF Pages

\* A fetch, a load or a store goes on, under translation, only to a frame that a leaf of
\* the tables grants it.
AccessesPermitted ==
    \A va \in Addresses, type \in Types :
        Translated(type) /\ Locate(va, type).outcome = "ok"
            => Granted(type, Locate(va, type).frame)

\* Whatever tables the guest has built and whatever mode it is in, a fetch, a load or a
\* store that isa_mmu_translate lets through goes inside a page or superpage whose leaf is
\* accessed and valid, belongs to the effective mode (or to the user, with sum and for no
\* fetch) and carries the permission of its type: no mode reads or runs what the tables
\* do not grant it (mmu.c:33-151).
THEOREM AccessesArePermitted == Spec => []AccessesPermitted
  <1>1. MemInv => AccessesPermitted
    <2> SUFFICES ASSUME MemInv, NEW va \in Addresses, NEW type \in Types,
                        Translated(type), Locate(va, type).outcome = "ok"
                 PROVE  Granted(type, Locate(va, type).frame)
      BY DEF AccessesPermitted
    <2>1. /\ EffectiveMode(type) # MODE_H /\ Walk(va.page, type).ok
          /\ Locate(va, type).frame = Walk(va.page, type).frame
      BY OnlyCanonicalFound
    <2> QED  BY <2>1, PagesNatural, WalkGranted DEF MemInv
  <1> QED  BY <1>1, MemHolds, PTL

\* A store that changes a word of memory goes where the walk of its page leads, which is
\* inside the page or superpage of a leaf that satp leads to and that lets the effective
\* mode write it, for any depth and size of the tables (mmu.c, vaddr_write).
THEOREM StoresConfined == Spec => Confined
<1>1. ASSUME MemInv, [Next]_memvars, Translated("write"),
             NEW f \in Ram, NEW i \in Offsets, mem'[f][i] # mem[f][i]
      PROVE  Granted("write", f)
  <2>1. PICK va \in Addresses : Access(va)
    BY <1>1 DEF Next, Control, Ended, memvars
  <2>2. Stores(va)
    BY <1>1, <2>1, AccessEffect DEF Effect
  <2>3. f = Locate(va, "write").frame
    BY <1>1, <2>2, WriteLands DEF Stores, MemInv
  <2>4. /\ EffectiveMode("write") # MODE_H /\ Walk(va.page, "write").ok
        /\ f = Walk(va.page, "write").frame
    BY <1>1, <2>2, <2>3, OnlyCanonicalFound DEF Stores
  <2>5. QED
    BY <1>1, <2>1, <2>4, PagesNatural, WalkGranted DEF MemInv, Types
<1>2. MemInv /\ [Next]_memvars =>
        [\A f \in Ram, i \in Offsets :
           (mem'[f][i] # mem[f][i] /\ Translated("write")) =>
              \E level \in 0 .. Levels - 1 : \E t \in Reached[level] \cap Ram, j \in Offsets :
                 LET p == mem[t][j] IN
                 /\ p.v /\ p.r /\ p.w /\ p.a /\ p.d
                 /\ IF p.u THEN EffectiveMode("write") = MODE_S => mstatus.sum
                           ELSE EffectiveMode("write") = MODE_S
                 /\ f \in p.ppn .. p.ppn + Span[level] - 1]_memvars
  BY <1>1 DEF Granted, Lets
<1>3. QED
  BY <1>2, MemHolds, PTL DEF Spec, Confined
-----------------------------------------------------------------------------
(* The decoder.  Every pattern that names its opcode agrees with NameOf,   *)
(* a decoder that looks at the opcode, then at funct3, then at funct7: so  *)
(* two patterns that match one word are patterns of one instruction.       *)

\* The instruction of a word, opcode by opcode.
LoadName(f) == CASE f = 0 -> "lb" [] f = 1 -> "lh" [] f = 2 -> "lw" [] f = 3 -> "ld"
                 [] f = 4 -> "lbu" [] f = 5 -> "lhu" [] OTHER -> "lwu"
StoreName(f) == CASE f = 0 -> "sb" [] f = 1 -> "sh" [] f = 2 -> "sw" [] OTHER -> "sd"
BranchName(f) == CASE f = 0 -> "beq" [] f = 1 -> "bne" [] f = 4 -> "blt"
                   [] f = 5 -> "bge" [] f = 6 -> "bltu" [] OTHER -> "bgeu"
ImmediateName(f, g) ==
    CASE f = 0 -> "addi" [] f = 1 -> "slli" [] f = 2 -> "slti" [] f = 3 -> "sltiu"
      [] f = 4 -> "xori" [] f = 5 -> IF g \in {0, 1} THEN "srli" ELSE "srai"
      [] f = 6 -> "ori" [] OTHER -> "andi"
ImmediateWName(f, g) ==
    CASE f = 0 -> "addiw" [] f = 1 -> "slliw" [] OTHER -> IF g = 0 THEN "srliw" ELSE "sraiw"
RegisterName(f, g) ==
    IF g = 1
    THEN CASE f = 0 -> "mul" [] f = 1 -> "mulh" [] f = 2 -> "mulhsu" [] f = 3 -> "mulhu"
           [] f = 4 -> "div" [] f = 5 -> "divu" [] f = 6 -> "rem" [] OTHER -> "remu"
    ELSE CASE f = 0 -> IF g = 0 THEN "add" ELSE "sub"
           [] f = 1 -> "sll" [] f = 2 -> "slt" [] f = 3 -> "sltu" [] f = 4 -> "xor"
           [] f = 5 -> IF g = 0 THEN "srl" ELSE "sra"
           [] f = 6 -> "or" [] OTHER -> "and"
RegisterWName(f, g) ==
    IF g = 1
    THEN CASE f = 0 -> "mulw" [] f = 4 -> "divw" [] f = 5 -> "divuw"
           [] f = 6 -> "remw" [] OTHER -> "remuw"
    ELSE CASE f = 0 -> IF g = 0 THEN "addw" ELSE "subw"
           [] f = 1 -> "sllw" [] OTHER -> IF g = 0 THEN "srlw" ELSE "sraw"
SystemName(f, g, rs2) ==
    CASE f = 1 -> "csrrw" [] f = 2 -> "csrrs" [] f = 3 -> "csrrc"
      [] f = 5 -> "csrrwi" [] f = 6 -> "csrrsi" [] f = 7 -> "csrrci"
      [] OTHER -> CASE g = 9 -> "sfence_vma" [] g = 24 -> "mret"
                    [] g = 8 -> IF rs2 = 2 THEN "sret" ELSE "wfi"
                    [] OTHER -> IF rs2 = 0 THEN "ecall" ELSE "ebreak"
NameOf(word) ==
    LET f == word.funct3
        g == word.funct7
    IN CASE word.opcode = Major(0) -> LoadName(f)
         [] word.opcode = Major(3) -> IF f = 0 THEN "fence" ELSE "fence_i"
         [] word.opcode = Major(4) -> ImmediateName(f, g)
         [] word.opcode = Major(5) -> "auipc"
         [] word.opcode = Major(6) -> ImmediateWName(f, g)
         [] word.opcode = Major(8) -> StoreName(f)
         [] word.opcode = Major(12) -> RegisterName(f, g)
         [] word.opcode = Major(13) -> "lui"
         [] word.opcode = Major(14) -> RegisterWName(f, g)
         [] word.opcode = Major(24) -> BranchName(f)
         [] word.opcode = Major(25) -> "jalr"
         [] word.opcode = Major(27) -> "jal"
         [] OTHER -> SystemName(f, g, word.rs2)

NamedBy(word, i) == InstMatches(word, Named[i]) => Named[i].name = NameOf(word)

LEMMA FixedFields ==
    ASSUME NEW name, NEW funct7, NEW rs2, NEW rs1, NEW funct3, NEW major
    PROVE  LET p == Fixed(name, funct7, rs2, rs1, funct3, major)
           IN /\ p.name = name /\ p.opcode = {Major(major)} /\ p.funct3 = {funct3}
              /\ p.funct7 = funct7 /\ p.rs2 = rs2
  BY DEF Fixed, R, Pattern

\* Pattern by pattern, opcode by opcode.
LEMMA OthersFit ==
    ASSUME NEW word PROVE \A i \in {1, 2, 26, 69, 70, 72, 73} : NamedBy(word, i)
  <1> USE FixedFields
      DEF NamedBy, NameOf, InstMatches, Named, Major, I, U, R, Shift, Pattern
  <1>1. NamedBy(word, 1) /\ NamedBy(word, 2)  BY SMTT(30)
  <1>2. NamedBy(word, 26) /\ NamedBy(word, 69)  BY SMTT(30)
  <1>3. NamedBy(word, 70) /\ NamedBy(word, 72)  BY SMTT(30)
  <1>4. NamedBy(word, 73)  BY SMTT(30)
  <1> HIDE DEF NamedBy, NameOf, InstMatches, Named
  <1> QED  BY <1>1, <1>2, <1>3, <1>4

LEMMA ImmediatesFit ==
    ASSUME NEW word PROVE \A i \in {3, 8, 33, 37, 38, 41, 45, 52, 54} : NamedBy(word, i)
  <1> USE FixedFields
      DEF NamedBy, NameOf, InstMatches, Named, Major, I, U, R, Shift, Pattern, ImmediateName
  <1>1. NamedBy(word, 3) /\ NamedBy(word, 8)  BY SMTT(30)
  <1>2. NamedBy(word, 33) /\ NamedBy(word, 37)  BY SMTT(30)
  <1>3. NamedBy(word, 38) /\ NamedBy(word, 41)  BY SMTT(30)
  <1>4. NamedBy(word, 45) /\ NamedBy(word, 52)  BY SMTT(30)
  <1>5. NamedBy(word, 54)  BY SMTT(30)
  <1> HIDE DEF NamedBy, NameOf, InstMatches, Named
  <1> QED  BY <1>1, <1>2, <1>3, <1>4, <1>5

LEMMA RegistersFit ==
    ASSUME NEW word PROVE \A i \in {4, 7, 32, 36, 39, 40, 44, 48, 51, 53, 55, 56, 59, 60, 61, 62,
                                64, 65} : NamedBy(word, i)
  <1> USE FixedFields
      DEF NamedBy, NameOf, InstMatches, Named, Major, I, U, R, Shift, Pattern, RegisterName
  <1>1. NamedBy(word, 4) /\ NamedBy(word, 7)  BY SMTT(30)
  <1>2. NamedBy(word, 32) /\ NamedBy(word, 36)  BY SMTT(30)
  <1>3. NamedBy(word, 39) /\ NamedBy(word, 40)  BY SMTT(30)
  <1>4. NamedBy(word, 44) /\ NamedBy(word, 48)  BY SMTT(30)
  <1>5. NamedBy(word, 51) /\ NamedBy(word, 53)  BY SMTT(30)
  <1>6. NamedBy(word, 55) /\ NamedBy(word, 56)  BY SMTT(30)
  <1>7. NamedBy(word, 59) /\ NamedBy(word, 60)  BY SMTT(30)
  <1>8. NamedBy(word, 61) /\ NamedBy(word, 62)  BY SMTT(30)
  <1>9. NamedBy(word, 64) /\ NamedBy(word, 65)  BY SMTT(30)
  <1> HIDE DEF NamedBy, NameOf, InstMatches, Named
  <1> QED  BY <1>1, <1>2, <1>3, <1>4, <1>5, <1>6, <1>7, <1>8, <1>9

LEMMA WordImmediatesFit ==
    ASSUME NEW word PROVE \A i \in {5, 34, 42, 46} : NamedBy(word, i)
  <1> USE FixedFields
      DEF NamedBy, NameOf, InstMatches, Named, Major, I, U, R, Shift, Pattern, ImmediateWName
  <1>1. NamedBy(word, 5) /\ NamedBy(word, 34)  BY SMTT(30)
  <1>2. NamedBy(word, 42) /\ NamedBy(word, 46)  BY SMTT(30)
  <1> HIDE DEF NamedBy, NameOf, InstMatches, Named
  <1> QED  BY <1>1, <1>2

LEMMA WordRegistersFit ==
    ASSUME NEW word PROVE \A i \in {6, 35, 43, 47, 49, 57, 58, 63, 66, 67} : NamedBy(word, i)
  <1> USE FixedFields
      DEF NamedBy, NameOf, InstMatches, Named, Major, I, U, R, Shift, Pattern, RegisterWName
  <1>1. NamedBy(word, 6) /\ NamedBy(word, 35)  BY SMTT(30)
  <1>2. NamedBy(word, 43) /\ NamedBy(word, 47)  BY SMTT(30)
  <1>3. NamedBy(word, 49) /\ NamedBy(word, 57)  BY SMTT(30)
  <1>4. NamedBy(word, 58) /\ NamedBy(word, 63)  BY SMTT(30)
  <1>5. NamedBy(word, 66) /\ NamedBy(word, 67)  BY SMTT(30)
  <1> HIDE DEF NamedBy, NameOf, InstMatches, Named
  <1> QED  BY <1>1, <1>2, <1>3, <1>4, <1>5

LEMMA BranchesFit ==
    ASSUME NEW word PROVE \A i \in {9, 10, 11, 12, 13, 14} : NamedBy(word, i)
  <1> USE FixedFields
      DEF NamedBy, NameOf, InstMatches, Named, Major, I, U, R, Shift, Pattern, BranchName
  <1>1. NamedBy(word, 9) /\ NamedBy(word, 10)  BY SMTT(30)
  <1>2. NamedBy(word, 11) /\ NamedBy(word, 12)  BY SMTT(30)
  <1>3. NamedBy(word, 13) /\ NamedBy(word, 14)  BY SMTT(30)
  <1> HIDE DEF NamedBy, NameOf, InstMatches, Named
  <1> QED  BY <1>1, <1>2, <1>3

LEMMA SystemFits ==
    ASSUME NEW word PROVE \A i \in {15, 16, 17, 18, 19, 20, 68, 71, 74, 75, 76, 77} :
                              NamedBy(word, i)
  <1> USE FixedFields
      DEF NamedBy, NameOf, InstMatches, Named, Major, I, U, R, Shift, Pattern, SystemName
  <1>1. NamedBy(word, 15) /\ NamedBy(word, 16)  BY SMTT(30)
  <1>2. NamedBy(word, 17) /\ NamedBy(word, 18)  BY SMTT(30)
  <1>3. NamedBy(word, 19) /\ NamedBy(word, 20)  BY SMTT(30)
  <1>4. NamedBy(word, 68) /\ NamedBy(word, 71)  BY SMTT(30)
  <1>5. NamedBy(word, 74) /\ NamedBy(word, 75)  BY SMTT(30)
  <1>6. NamedBy(word, 76) /\ NamedBy(word, 77)  BY SMTT(30)
  <1> HIDE DEF NamedBy, NameOf, InstMatches, Named
  <1> QED  BY <1>1, <1>2, <1>3, <1>4, <1>5, <1>6

LEMMA LoadsFit ==
    ASSUME NEW word PROVE \A i \in {21, 22, 23, 24, 25, 27, 28} : NamedBy(word, i)
  <1> USE FixedFields
      DEF NamedBy, NameOf, InstMatches, Named, Major, I, U, R, Shift, Pattern, LoadName
  <1>1. NamedBy(word, 21) /\ NamedBy(word, 22)  BY SMTT(30)
  <1>2. NamedBy(word, 23) /\ NamedBy(word, 24)  BY SMTT(30)
  <1>3. NamedBy(word, 25) /\ NamedBy(word, 27)  BY SMTT(30)
  <1>4. NamedBy(word, 28)  BY SMTT(30)
  <1> HIDE DEF NamedBy, NameOf, InstMatches, Named
  <1> QED  BY <1>1, <1>2, <1>3, <1>4

LEMMA StoresFit ==
    ASSUME NEW word PROVE \A i \in {29, 30, 31, 50} : NamedBy(word, i)
  <1> USE FixedFields
      DEF NamedBy, NameOf, InstMatches, Named, Major, I, U, R, Shift, Pattern, StoreName
  <1>1. NamedBy(word, 29) /\ NamedBy(word, 30)  BY SMTT(30)
  <1>2. NamedBy(word, 31) /\ NamedBy(word, 50)  BY SMTT(30)
  <1> HIDE DEF NamedBy, NameOf, InstMatches, Named
  <1> QED  BY <1>1, <1>2

LEMMA NamedFit == ASSUME NEW word PROVE \A i \in 1 .. 77 : NamedBy(word, i)
  BY OthersFit, ImmediatesFit, RegistersFit, WordImmediatesFit, WordRegistersFit,
     BranchesFit, SystemFits, LoadsFit, StoresFit

\* The patterns that name their opcode come first.
LEMMA NamedFirst ==
    /\ DOMAIN Named = 1 .. 77 /\ DOMAIN Patterns = 1 .. 100
    /\ \A i \in 1 .. 77 : Patterns[i] = Named[i]
  <1>1. Named \in Seq({Named[i] : i \in 1 .. 77}) /\ Len(Named) = 77
    <2> SUFFICES ASSUME NEW s, s = Named PROVE s \in Seq({s[i] : i \in 1 .. 77}) /\ Len(s) = 77
      OBVIOUS
    <2>1. DOMAIN s = 1 .. 77 /\ s = [i \in DOMAIN s |-> s[i]]  BY DEF Named
    <2>2. s = [i \in 1 .. 77 |-> s[i]]  BY <2>1
    <2> QED  BY <2>2, SMTT(30)
  <1>2. Atomic \in Seq({Atomic[i] : i \in 1 .. 22}) /\ Len(Atomic) = 22
    <2> SUFFICES ASSUME NEW s, s = Atomic PROVE s \in Seq({s[i] : i \in 1 .. 22}) /\ Len(s) = 22
      OBVIOUS
    <2>1. DOMAIN s = 1 .. 22 /\ s = [i \in DOMAIN s |-> s[i]]  BY DEF Atomic
    <2>2. s = [i \in 1 .. 22 |-> s[i]]  BY <2>1
    <2> QED  BY <2>2
  <1> DEFINE all == {Named[i] : i \in 1 .. 77} \cup {Atomic[i] : i \in 1 .. 22} \cup {Invalid}
             last == <<Invalid>>
             front == Named \o Atomic
  <1>3. Named \in Seq(all) /\ Atomic \in Seq(all) /\ last \in Seq(all) /\ Len(last) = 1
    BY <1>1, <1>2
  <1>4. Patterns = front \o last  BY DEF Patterns
  <1>5. DOMAIN Named = 1 .. 77  BY <1>1
  <1> HIDE DEF all, last
  <1>6. /\ front \in Seq(all) /\ Len(front) = Len(Named) + Len(Atomic)
        /\ \A i \in 1 .. Len(Named) : front[i] = Named[i]
    BY <1>3, Joined
  <1> HIDE DEF front
  <1>7. /\ DOMAIN (front \o last) = 1 .. Len(front) + Len(last)
        /\ \A i \in 1 .. Len(front) : (front \o last)[i] = front[i]
    <2>1. front \in Seq(all) /\ last \in Seq(all)  BY <1>3, <1>6
    <2> QED  BY ONLY <2>1
  <1>8. Len(front) = 99 /\ Len(last) = 1  BY <1>1, <1>2, <1>3, <1>6
  <1>9. DOMAIN Patterns = 1 .. 100  BY <1>4, <1>7, <1>8
  <1>10. ASSUME NEW i \in 1 .. 77 PROVE Patterns[i] = Named[i]
    <2>1. i \in 1 .. Len(Named) /\ i \in 1 .. Len(front)  BY <1>1, <1>8
    <2> QED  BY <1>4, <1>6, <1>7, <2>1
  <1> QED  BY <1>5, <1>9, <1>10

\* What decode_exec ran is the first pattern that the word matches.
DecodeInv ==
    decoded # "none" =>
        \E i \in DOMAIN Patterns :
            /\ InstMatches(fetched, Patterns[i])
            /\ \A j \in 1 .. i - 1 : ~InstMatches(fetched, Patterns[j])
            /\ decoded = Patterns[i].name

\* No word, of all there are, is two of the instructions that name their opcode, nor is
\* one of those taken for an atomic instruction, whose patterns leave the opcode open
\* (inst.c:64-189).
THEOREM DecodingIsUnambiguous == DecodeSpec => []DecodesOneWay
  <1>1. DecodeInit => DecodeInv  BY DEF DecodeInit, DecodeInv
  <1>2. DecodeInv /\ [DecodeNext]_dec => DecodeInv'
    <2> SUFFICES ASSUME DecodeInv, [DecodeNext]_dec PROVE DecodeInv'  OBVIOUS
    <2>1. CASE IsaExecOnce  BY <2>1 DEF IsaExecOnce, DecodeInv
    <2>2. CASE UNCHANGED dec  BY <2>2 DEF DecodeInv, dec
    <2> QED  BY <2>1, <2>2 DEF DecodeNext, Executed
  <1>3. DecodeInv => DecodesOneWay
    <2> SUFFICES ASSUME DecodeInv, decoded # "none", NEW k \in DOMAIN Named,
                        InstMatches(fetched, Named[k])
                 PROVE  Named[k].name = decoded
      BY DEF DecodesOneWay
    <2>1. PICK i \in DOMAIN Patterns :
             /\ InstMatches(fetched, Patterns[i])
             /\ \A j \in 1 .. i - 1 : ~InstMatches(fetched, Patterns[j])
             /\ decoded = Patterns[i].name
      BY DEF DecodeInv
    <2>2. k \in 1 .. 77 /\ InstMatches(fetched, Patterns[k]) /\ i \in 1 .. 100
      BY NamedFirst
    <2>3. i <= k  BY <2>1, <2>2
    <2>4. i \in 1 .. 77 /\ Patterns[i] = Named[i]  BY <2>2, <2>3, NamedFirst
    <2>5. Named[i].name = NameOf(fetched) /\ Named[k].name = NameOf(fetched)
      BY <2>1, <2>2, <2>4, NamedFit DEF NamedBy
    <2> QED  BY <2>1, <2>4, <2>5
  <1> QED  BY <1>1, <1>2, <1>3, PTL DEF DecodeSpec
=============================================================================
