-------------------------------- MODULE Plic --------------------------------
(***************************************************************************)
(* The interrupt controller (device/plic.c) with one target, the           *)
(* supervisor external interrupt of the only hart.  source_pending and     *)
(* target_enables are sets of source numbers.                              *)
(*                                                                         *)
(* The module gives the registers and the operations; Console connects it  *)
(* to the serial port, PlicBoard to arbitrary sources.                    *)
(***************************************************************************)
EXTENDS Integers

CONSTANTS Sources,      \* source numbers that can be raised
                        \* (the array of priorities ends at 30)
          Priorities,   \* values of the priority and threshold registers
          Ids           \* values written to the claim/complete register

ASSUME PlicConstants ==
    Sources \subseteq 1 .. 30 /\ Priorities \subseteq Nat /\ 0 \in Priorities
    /\ Ids \subseteq 0 .. 31

VARIABLES source_priority, source_pending, target_enables, target_threshold,
          target_claim, seip

pvars == <<source_priority, source_pending, target_enables, target_threshold,
           target_claim, seip>>
pconfig == <<source_priority, target_enables, target_threshold>>

PlicInit ==
    /\ source_priority = [i \in Sources |-> 0]
    /\ source_pending = {} /\ target_enables = {} /\ target_threshold = 0
    /\ target_claim = 0 /\ seip = 0

\* plic_write, by register, of four bytes.  Only update_device moves target_claim
\* and seip.
PlicConfigure ==
    /\ \/ \E i \in Sources, p \in Priorities :
            /\ source_priority' = [source_priority EXCEPT ![i] = p]
            /\ UNCHANGED <<target_enables, target_threshold>>
       \/ /\ target_enables' \in SUBSET Sources
          /\ UNCHANGED <<source_priority, target_threshold>>
       \/ /\ target_threshold' \in Priorities
          /\ UNCHANGED <<source_priority, target_enables>>
    /\ UNCHANGED <<source_pending, target_claim, seip>>

\* The priority of source 31 lies behind the array of 31.  Which word is there is up
\* to the build: the pending word, or one that is assigned before it is next read.
PlicOverrun == /\ source_pending' \in SUBSET Sources
               /\ UNCHANGED <<pconfig, target_claim, seip>>

\* The assertions of plic_write, of a priority that is not four bytes wide and of any
\* store to the pending word: the emulator ends before anything is stored.
PlicAborts == UNCHANGED pvars

\* Any source may be completed, claimed or not; reading the claim has no effect.
PlicComplete(id) ==
    /\ source_pending' = source_pending \ {id}
    /\ UNCHANGED <<pconfig, target_claim, seip>>

\* csr_write can change seip until the next update overwrites it.
WriteSeip == /\ seip' \in 0 .. 1
             /\ UNCHANGED <<pconfig, source_pending, target_claim>>

\* The candidate the search of plic_update keeps: a strictly greater priority
\* replaces it, so ties go to the lowest source and priority zero to none.
Wins(i, live) ==
    /\ i \in live /\ source_priority[i] > 0
    /\ \A j \in live \ {i} :
         \/ source_priority[j] < source_priority[i]
         \/ source_priority[j] = source_priority[i] /\ i < j

\* Mutated: the search runs before the raised sources are added.
PlicUpdateLate(raised) ==
    LET live == source_pending \cap target_enables IN
    /\ source_pending' = source_pending \cup raised
    /\ \/ \E i \in live : /\ Wins(i, live)
                          /\ target_claim' = i
                          /\ seip' = IF source_priority[i] > target_threshold THEN 1 ELSE 0
       \/ /\ \A i \in live : source_priority[i] = 0
          /\ target_claim' = 0 /\ seip' = 0
    /\ UNCHANGED pconfig

\* plic_update, with the sources that are raised now.
PlicUpdate(raised) ==
    LET live == (source_pending \cup raised) \cap target_enables IN
    /\ source_pending' = source_pending \cup raised
    /\ \/ \E i \in live : /\ Wins(i, live)
                          /\ target_claim' = i
                          /\ seip' = IF source_priority[i] > target_threshold THEN 1 ELSE 0
       \/ /\ \A i \in live : source_priority[i] = 0
          /\ target_claim' = 0 /\ seip' = 0
    /\ UNCHANGED pconfig

PlicTypeOK ==
    /\ source_priority \in [Sources -> Priorities]
    /\ source_pending \subseteq Sources /\ target_enables \subseteq Sources
    /\ target_threshold \in Priorities
    /\ target_claim \in Sources \cup {0} /\ seip \in 0 .. 1
=============================================================================
