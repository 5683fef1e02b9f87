------------------------------ MODULE PlicBoard ------------------------------
(***************************************************************************)
(* The interrupt controller between a guest that configures and completes  *)
(* as it likes and devices that raise their sources in any pattern: the    *)
(* properties of the controller alone.                                     *)
(***************************************************************************)
EXTENDS Plic

VARIABLE board       \* "exec": an instruction is next; "update"; "aborted"

bvars == <<pvars, board>>

BInit == PlicInit /\ board = "exec"

Guest ==
    /\ board = "exec"
    /\ \/ /\ board' = "update"
          /\ \/ PlicConfigure \/ PlicOverrun \/ WriteSeip \/ UNCHANGED pvars
             \/ \E id \in Ids : PlicComplete(id)
       \/ board' = "aborted" /\ PlicAborts

Devices ==
    /\ board = "update" /\ board' = "exec"
    /\ \E raised \in SUBSET Sources : PlicUpdate(raised)

Halted == board = "aborted" /\ UNCHANGED bvars

BNext == Guest \/ Devices \/ Halted
BSpec == BInit /\ [][BNext]_bvars

-----------------------------------------------------------------------------
\* plic_update as the program runs it: a loop over the source numbers with the
\* running maximum, against which the set formulation above is checked.  best[i] is
\* the maximum of the sources below i.
Live == source_pending \cap target_enables
Search ==
    LET best[i \in 0 .. 32] ==
            IF i = 0 THEN [id |-> 0, priority |-> 0]
            ELSE IF i - 1 \in Live /\ source_priority[i - 1] > best[i - 1].priority
                 THEN [id |-> i - 1, priority |-> source_priority[i - 1]]
                 ELSE best[i - 1]
    IN best[32]

\* At an instruction boundary the claim register and the external interrupt line
\* are those of the pending and enabled sources, whatever the guest completed,
\* reconfigured or wrote to mip in the instruction before.
ClaimCurrent ==
    board = "exec" =>
        /\ target_claim = Search.id
        /\ seip = 1 <=> Search.priority > target_threshold
=============================================================================
