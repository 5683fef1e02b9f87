-------------------------------- MODULE LrSc --------------------------------
(***************************************************************************)
(* Load-reserved and store-conditional (cpu/inst.c) under preemption.  The *)
(* hart has one reservation: the physical address and the width of the     *)
(* last lr.  It survives traps, returns and stores; only an sc, on any     *)
(* address and whether or not it stores, drops it.                         *)
(*                                                                         *)
(* The guest is not part of this repository: threads that add one to a     *)
(* shared counter in an lr/sc loop, and a kernel that any interrupt or     *)
(* fault enters, that may add to the counter itself, and that executes an  *)
(* sc on a word of its own before it goes back to a thread, as RISC-V      *)
(* kernels do.                                                             *)
(***************************************************************************)
EXTENDS Integers

CONSTANTS Threads,
          Width,         \* of each thread's lr and sc: 15 (word) or 255 (double)
          Kernel,
          MaxCount       \* bound on the counter

ASSUME LrScConstants ==
    /\ Kernel \notin Threads /\ MaxCount \in Nat
    /\ Width \in [Threads -> {15, 255}]

Unreserved == 0
ReserveAddresses == {"counter", "kernel word", "zero"}

VARIABLES reserve_addr, reserve_flag,
          counter,
          running,       \* the thread on the hart, or Kernel
          next,          \* of each thread: its next instruction, "lr" or "sc"
          reg,           \* of each thread: what its last lr loaded
          added,         \* history: increments that succeeded
          undisturbed    \* history: the running thread was not preempted since its lr

lrvars == <<reserve_addr, reserve_flag, counter, running, next, reg, added, undisturbed>>

LrInit == /\ reserve_addr = "zero" /\ reserve_flag = Unreserved
        /\ counter = 0 /\ running = Kernel
        /\ next = [t \in Threads |-> "lr"] /\ reg = [t \in Threads |-> 0]
        /\ added = 0 /\ undisturbed = FALSE

\* lr_w, lr_d
Lr(t) ==
    /\ running = t /\ next[t] = "lr"
    /\ reg' = [reg EXCEPT ![t] = counter]
    /\ reserve_addr' = "counter" /\ reserve_flag' = Width[t]
    /\ next' = [next EXCEPT ![t] = "sc"]
    /\ undisturbed' = TRUE
    /\ UNCHANGED <<counter, running, added>>

\* Mutated: the reservation is dropped before the comparison.
MatchesNever(addr, width) == reserve_addr = addr /\ reserve_flag = Unreserved

Matches(addr, width) == reserve_addr = addr /\ reserve_flag = width

\* Mutated: only an sc that stores drops the reservation.
DropMatched(addr, width) ==
    reserve_flag' = IF Matches(addr, width) THEN Unreserved ELSE reserve_flag

\* sc_w, sc_d: both outcomes drop the reservation.
Drop(addr, width) == reserve_flag' = Unreserved

Sc(t) ==
    /\ running = t /\ next[t] = "sc"
    /\ Drop("counter", Width[t])
    /\ IF Matches("counter", Width[t])
       THEN reg[t] < MaxCount /\ counter' = reg[t] + 1 /\ added' = added + 1
       ELSE UNCHANGED <<counter, added>>
    /\ next' = [next EXCEPT ![t] = "lr"]
    /\ UNCHANGED <<reserve_addr, running, reg, undisturbed>>

\* An interrupt after any instruction, or a page fault of the thread's sc, which
\* leaves the reservation and is executed again.
Preempt == /\ running \in Threads /\ running' = Kernel
           /\ undisturbed' = FALSE
           /\ UNCHANGED <<reserve_addr, reserve_flag, counter, next, reg, added>>

\* The kernel adds one with an atomic operation, which knows no reservation.
KernelAdd == /\ running = Kernel /\ counter < MaxCount
             /\ counter' = counter + 1 /\ added' = added + 1
             /\ UNCHANGED <<reserve_addr, reserve_flag, running, next, reg, undisturbed>>

\* The kernel's sc on its own word, and the return to some thread.
Return == /\ running = Kernel /\ running' \in Threads
          /\ Drop("kernel word", 255)
          /\ UNCHANGED <<reserve_addr, counter, next, reg, added, undisturbed>>

LrNext == \/ \E t \in Threads : Lr(t) \/ Sc(t)
          \/ Preempt \/ KernelAdd \/ Return

LrSpec == LrInit /\ [][LrNext]_lrvars

-----------------------------------------------------------------------------
LrTypeOK ==
    /\ reserve_addr \in ReserveAddresses /\ reserve_flag \in {Unreserved, 15, 255}
    /\ counter \in Nat /\ added \in Nat
    /\ running \in Threads \cup {Kernel}
    /\ next \in [Threads -> {"lr", "sc"}] /\ reg \in [Threads -> Nat]
    /\ undisturbed \in BOOLEAN

\* While the reservation stands, the running thread made it and the counter is still
\* what that thread loaded.
ReservationCurrent ==
    \A t \in Threads : (running = t /\ reserve_flag # Unreserved) => reg[t] = counter

\* Between an lr and its sc on the same hart the reservation stands.
ReservationStands ==
    /\ running = Kernel => ~undisturbed
    /\ \A t \in Threads : (running = t /\ undisturbed /\ next[t] = "sc") => Matches("counter", Width[t])

\* No increment is lost: whatever runs between a thread's lr and its sc, other
\* threads' lr and sc on the same word and the kernel's atomic operations
\* included, an sc that stores adds one to the counter as it is then.
NoLostUpdate == counter = added

\* An sc whose thread was not preempted since its lr does not fail, whatever
\* widths the others use: the loops make progress.
NoSpuriousFailure ==
    [][\A t \in Threads : (Sc(t) /\ undisturbed) => added' = added + 1]_lrvars
=============================================================================
