----------------------------- MODULE Watchpoint -----------------------------
(***************************************************************************)
(* The watchpoint pool (monitor/watchpoint.c): two linked lists, the       *)
(* watchpoints in use and the free ones, threaded through one array.  A    *)
(* pointer is the index of the cell it points to, or NULL.  The commands   *)
(* run one at a time, so each is one action.                               *)
(*                                                                         *)
(* Whether an expression is valid is the business of monitor/expr.c; the   *)
(* invalid ones change nothing.  The old value is left out: only           *)
(* calculate_watchpoint reads it, which nothing calls.                     *)
(* The text of an expression fits its cell: strcpy does not look (line 74).*)
(***************************************************************************)
EXTENDS Integers, Sequences, FiniteSets

CONSTANTS NR_WP,     \* 32
          Exprs      \* the expressions a user can watch

ASSUME WatchpointConstants == NR_WP \in Nat \ {0}

NULL == -1
Slots == 0 .. NR_WP - 1
NoExpr == "" \* a cleared expr_str

VARIABLES next,          \* of each cell of wp_pool
          head, free_,
          expr_str

wvars == <<next, head, free_, expr_str>>

\* init_wp_pool
WpInit ==
    /\ next = [i \in Slots |-> IF i = NR_WP - 1 THEN NULL ELSE i + 1]
    /\ head = NULL /\ free_ = 0
    /\ expr_str = [i \in Slots |-> NoExpr]

\* The list that starts at p, followed for at most as many steps as there are
\* cells: Ends(p) when it reaches NULL by then, and List(p) its cells in order.
Follow(p) ==
    LET at[k \in 0 .. NR_WP] ==
            IF k = 0 THEN p ELSE IF at[k - 1] = NULL THEN NULL ELSE next[at[k - 1]]
    IN at
Ends(p) == Follow(p)[NR_WP] = NULL
List(p) ==
    LET at == Follow(p)
        length == Cardinality({k \in 0 .. NR_WP - 1 : at[k] # NULL})
    IN [k \in 1 .. length |-> at[k - 1]]
Cells(p) == {List(p)[k] : k \in DOMAIN List(p)}

\* Mutated: the cell taken from the free list keeps its link.
LinkKeep(wp) ==
    LET last == CHOOSE q \in Cells(head) : next[q] = NULL
    IN IF head = NULL
       THEN head' = wp /\ UNCHANGED next
       ELSE next' = [next EXCEPT ![last] = wp] /\ UNCHANGED head

\* The end of create_watchpoint: wp, cut off the free list by new_wp, becomes the
\* last cell of the list in use.
Link(wp) ==
    LET cut == [next EXCEPT ![wp] = NULL]
        last == CHOOSE q \in Cells(head) : next[q] = NULL
    IN IF head = NULL
       THEN head' = wp /\ next' = cut
       ELSE next' = [cut EXCEPT ![last] = wp] /\ UNCHANGED head

Create(str) ==
    /\ free_ # NULL
    /\ free_' = next[free_]
    /\ Link(free_)
    /\ expr_str' = [expr_str EXCEPT ![free_] = str]

\* new_wp finds no free cell.
CreateFull == free_ = NULL /\ UNCHANGED wvars

\* Mutated: what followed the deleted watchpoint is lost to the list.
UnlinkTail(wp) ==
    IF head = wp
    THEN head' = next[wp] /\ next' = [next EXCEPT ![wp] = free_]
    ELSE /\ next' = [q \in Slots |-> IF q = wp THEN free_
                                     ELSE IF next[q] = wp THEN NULL ELSE next[q]]
         /\ UNCHANGED head

\* free_wp: wp leaves the list and goes to the front of the free one.
Unlink(wp) ==
    IF head = wp
    THEN head' = next[wp] /\ next' = [next EXCEPT ![wp] = free_]
    ELSE \E prev \in Cells(head) :
            /\ next[prev] = wp
            /\ next' = [next EXCEPT ![prev] = next[wp], ![wp] = free_]
            /\ UNCHANGED head

Delete(no) ==
    /\ no \in Cells(head)
    /\ Unlink(no)
    /\ free_' = no
    /\ expr_str' = [expr_str EXCEPT ![no] = NoExpr]

\* The number is not that of a watchpoint.
DeleteUnknown(no) == no \notin Cells(head) /\ UNCHANGED wvars

WpNext == \/ \E str \in Exprs : Create(str)
          \/ CreateFull
          \/ \E no \in Slots : Delete(no) \/ DeleteUnknown(no)

WpSpec == WpInit /\ [][WpNext]_wvars

-----------------------------------------------------------------------------
\* After any history of creations and deletions both lists end, share no cell and
\* together hold the whole pool: no cell is lost, none is in both, so creation is
\* refused only when every number is in use.
PoolPartitioned ==
    /\ Ends(head) /\ Ends(free_)
    /\ Cells(head) \cap Cells(free_) = {}
    /\ Cells(head) \cup Cells(free_) = Slots

\* The rows of "info w", in the order of the list.
Rows == [k \in DOMAIN List(head) |-> [no |-> List(head)[k], expr |-> expr_str[List(head)[k]]]]

\* The lists implement the table that "info w" shows: a new watchpoint goes to its
\* end under a number that no other has, and deleting one leaves all others, their
\* numbers, expressions and order, as they were.
Table == INSTANCE WatchTable WITH table <- Rows
TableSpec == Table!Spec
=============================================================================
