----------------------------- MODULE MCDebugger -----------------------------
(***************************************************************************)
(* TLC instances of Monitor, Watchpoint and Expr.  The commands that run   *)
(* the guest, those that set and delete watchpoints and the evaluation of  *)
(* expressions share no state; part says which of them a behaviour uses.   *)
(***************************************************************************)
EXTENDS Monitor, Watchpoint, Expr, TLC

VARIABLE part

debugger == <<mvars, wvars, evars, part>>

\* Two words of memory, one of which holds the address of the other.
TwoWords == (2 :> 3) @@ (3 :> 1)

\* Of the operands that the code cannot read as they are typed an expression holds at
\* most one.
Odd(word) == \/ word.type \in {"REG2", "ZERO", "LETTERS"}
             \/ word.type = "NUM" /\ word.val > LongMax
OneOdd == Cardinality({i \in DOMAIN typed : Odd(typed[i])}) <= 1

DebuggerInit == /\ part \in {"run", "watch", "print"} /\ Init /\ WpInit /\ ExprInit
                /\ part # "run" => pc = 1

DebuggerNext ==
    /\ UNCHANGED part
    /\ \/ part = "run" /\ Next /\ UNCHANGED <<wvars, evars>>
       \/ part = "watch" /\ WpNext /\ UNCHANGED <<mvars, evars>>
       \/ part = "print" /\ ExprNext /\ OneOdd' /\ UNCHANGED <<mvars, wvars>>

\* The run loop keeps going.
DebuggerSpec == DebuggerInit /\ [][DebuggerNext]_debugger /\ WF_mvars(Run)
=============================================================================
