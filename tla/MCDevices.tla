----------------------------- MODULE MCDevices -----------------------------
(***************************************************************************)
(* TLC instances of Aclint and PlicBoard, which share nothing: part says   *)
(* which of the two runs, and the other keeps its initial state.           *)
(***************************************************************************)
EXTENDS Aclint, PlicBoard

VARIABLE part

dvars == <<avars, bvars, part>>

DInit == part \in {"timer", "plic"} /\ Init /\ BInit

DNext == /\ UNCHANGED part
         /\ \/ part = "timer" /\ Next /\ UNCHANGED bvars
            \/ part = "plic" /\ BNext /\ UNCHANGED avars

\* exec_once always goes on.
DSpec == DInit /\ [][DNext]_dvars /\ WF_dvars(DNext)

\* Every register and line of both devices keeps its width.
DTypeOK == TypeOK /\ PlicTypeOK /\ board \in {"exec", "update", "aborted"}
=============================================================================
