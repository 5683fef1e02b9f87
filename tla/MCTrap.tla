------------------------------- MODULE MCTrap -------------------------------
(***************************************************************************)
(* TLC instance of Trap.  The registers are independent of each other to a *)
(* large degree, so four kinds of guest are explored, each of which        *)
(* varies some of them completely and leaves the others fixed; scenario    *)
(* says which kind a behaviour is of.                                      *)
(***************************************************************************)
EXTENDS Trap

VARIABLE scenario

\* Values of mstatus: all that chooses the interrupted context (the previous
\* enables are those that traps stack); only the modes, with and without the
\* reserved one.
MstatusEnables == {s \in Mstatus : s.mpp # MODE_H /\ s.mpie = 0 /\ s.spie = 0}
MstatusAllModes == {s \in Mstatus : s.mie = 0 /\ s.mpie = 0 /\ s.sie = 0 /\ s.spie = 0}
MstatusModes == {s \in MstatusAllModes : s.mpp # MODE_H}

\* Exceptions: a page fault, environment calls and illegal CSR accesses from every
\* mode, the reserved one included, delegated or not.  (The constants of the
\* module itself, in MCTrap.cfg.)
DelegFaults == {{EX_LPF, EX_ECU}}

\* Selection: two device lines, at most one of them delegated, and every mixture
\* of mode and enables.
Selection == INSTANCE Trap WITH
    Pcs <- {0}, Faults <- {}, FaultAddrs <- {}, Lines <- {IRQ_MTIP, IRQ_SEIP},
    MstatusWrites <- MstatusEnables, MipWrites <- {},
    MieWrites <- {{IRQ_MTIP, IRQ_SEIP}}, MidelegWrites <- {{IRQ_SEIP}, {IRQ_MTIP}},
    MedelegWrites <- {}, TvecWrites <- {}

\* Vectors: exceptions and a software interrupt of both levels, with direct and
\* vectored handlers.
Vectors == INSTANCE Trap WITH
    Pcs <- {0}, Faults <- {}, FaultAddrs <- {0}, Lines <- {},
    MstatusWrites <- MstatusModes, MipWrites <- {{IRQ_SSIP}},
    MieWrites <- {{IRQ_SSIP}}, MidelegWrites <- {{IRQ_SSIP}},
    MedelegWrites <- {}, TvecWrites <- {[base |-> 8, vectored |-> TRUE]}

\* Shadow: calls that trap to the supervisor while the timer is pending for the machine.
Shadow == INSTANCE Trap WITH
    Pcs <- {0}, Faults <- {}, FaultAddrs <- {}, Lines <- {IRQ_MTIP},
    MstatusWrites <- MstatusModes, MipWrites <- {},
    MieWrites <- {{IRQ_MTIP}}, MidelegWrites <- {}, MedelegWrites <- {{EX_ECU}},
    TvecWrites <- {}

MCInit == \/ scenario = "exceptions" /\ Init
          \/ scenario = "selection" /\ Selection!Init
          \/ scenario = "vectors" /\ Vectors!Init
          \/ scenario = "shadow" /\ Shadow!Init

MCNext == /\ UNCHANGED scenario
          /\ \/ scenario = "exceptions" /\ Next
             \/ scenario = "selection" /\ Selection!Next
             \/ scenario = "vectors" /\ Vectors!Next
             \/ scenario = "shadow" /\ Shadow!Next

MCSpec == MCInit /\ [][MCNext]_<<vars, scenario>>
=============================================================================
