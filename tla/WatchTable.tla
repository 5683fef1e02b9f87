----------------------------- MODULE WatchTable -----------------------------
(***************************************************************************)
(* What the commands "w" and "d" of the debugger promise: a table of       *)
(* numbered expressions in the order they were set.  A number names one    *)
(* expression for as long as it is in the table.                           *)
(***************************************************************************)
EXTENDS Naturals, SequencesExt

CONSTANTS NR_WP,     \* how many watchpoints there can be
          Exprs      \* the expressions a user can watch

VARIABLE table

Slots == 0 .. NR_WP - 1
Used == {table[k].no : k \in DOMAIN table}

Init == table = <<>>

Create == \E no \in Slots \ Used, expr \in Exprs :
              table' = Append(table, [no |-> no, expr |-> expr])

Delete == \E k \in DOMAIN table : table' = RemoveAt(table, k)

Next == Create \/ Delete
Spec == Init /\ [][Next]_table
=============================================================================
