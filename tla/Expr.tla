-------------------------------- MODULE Expr --------------------------------
(***************************************************************************)
(* The expressions of "p EXPR" and "w EXPR" (monitor/expr.c): the words    *)
(* become tokens, each "*" becomes a product or a dereference, and eval    *)
(* splits the tokens at the operator that binds least.  The user types the *)
(* words of a well-formed expression of the language that the rules name:  *)
(* "&&", then "==" and "!=", then "+" and "-", then "*" and "/", each from *)
(* left to right, then the prefix "*", parentheses, numbers and registers. *)
(*                                                                         *)
(* An operand is known by its value and its spelling: a decimal number     *)
(* ("NUM"), a hexadecimal one of decimal digits ("HEX"), a register of at  *)
(* most one digit ("REG"), of two ("REG2") or of number zero ("ZERO"), or  *)
(* a number or a name with letters that the rules do not know ("LETTERS"). *)
(* The evaluation of one command is not interrupted by anything.           *)
(***************************************************************************)
EXTENDS Integers, Sequences, FiniteSets
LOCAL INSTANCE SequencesExt

CONSTANTS Modulus,     \* 2^64
          Decimals,    \* the numbers that are typed in decimal
          HexNumbers,  \* and those in hexadecimal
          Gpr,         \* what the registers hold
          Mem,         \* of each address that answers, the word there
          MaxWords     \* bound on the words of an expression

ASSUME ExprConstants ==
    /\ Modulus \in Nat \ {0} /\ Modulus % 2 = 0 /\ MaxWords \in Nat
    /\ Decimals \cup HexNumbers \cup Gpr \subseteq 0 .. Modulus - 1
    /\ Mem \in [DOMAIN Mem -> 0 .. Modulus - 1]

VARIABLES typed,       \* the words so far
          depth,       \* parentheses that are open
          operand      \* whether an operand is due

evars == <<typed, depth, operand>>

Binary == {"&&", "==", "!=", "+", "-", "*", "/"}
Word(type, val) == [type |-> type, val |-> val]

-----------------------------------------------------------------------------
(* What the code does.                                                     *)

\* The rules of make_token, tried in order.  "[0-9]" comes before "[1-9][0-9]", so
\* the second digit of a register is a number of its own.
Lex(word) == CASE word.type = "REG2" -> <<Word("REG", word.val), Word("NUM", 0)>>
               [] OTHER -> <<word>>

Tokens(words) == FlattenSeq([i \in DOMAIN words |-> Lex(words[i])])

\* expr: after anything but a number or a closing parenthesis "*" dereferences.
MarkDeref(t) ==
    [i \in DOMAIN t |->
        IF t[i].type = "*" /\ (i = 1 \/ t[i - 1].type \notin {"NUM", "HEX", ")"})
        THEN Word("DEREF", 0) ELSE t[i]]

\* No value: a message, an assertion or a signal.
NoValue == [none |-> TRUE, val |-> 0, stray |-> FALSE]
Value(v) == [none |-> FALSE, val |-> v, stray |-> FALSE]
Truth(b) == IF b THEN 1 ELSE 0

\* atol stops at the greatest signed number.
LongMax == Modulus \div 2 - 1
Atol(v) == IF v > LongMax THEN LongMax ELSE v

\* strtoul does not, and isa_reg_str2val knows neither "0" nor the number zero.
Operand(token) == CASE token.type = "NUM" -> Value(Atol(token.val))
                    [] token.type \in {"HEX", "REG"} -> Value(token.val)
                    [] OTHER -> NoValue

\* The operator on the two values; the division by zero is the host's.  paddr_read
\* of an address that nothing answers aborts the program and yields 0.
Apply(op, a, b) ==
    IF a.none \/ b.none \/ (op = "/" /\ b.val = 0) THEN NoValue
    ELSE [none |-> FALSE,
          stray |-> a.stray \/ b.stray \/ (op = "DEREF" /\ b.val \notin DOMAIN Mem),
          val |-> CASE op = "+"  -> (a.val + b.val) % Modulus
                    [] op = "-"  -> (a.val - b.val) % Modulus
                    [] op = "*"  -> (a.val * b.val) % Modulus
                    [] op = "/"  -> a.val \div b.val
                    [] op = "==" -> Truth(a.val = b.val)
                    [] op = "!=" -> Truth(a.val # b.val)
                    [] op = "&&" -> Truth(a.val # 0 /\ b.val # 0)
                    [] op = "DEREF" -> IF b.val \in DOMAIN Mem THEN Mem[b.val] ELSE 0]

Level(type) == CASE type = "&&" -> 1
                 [] type \in {"==", "!="} -> 2
                 [] type \in {"+", "-"} -> 3
                 [] type \in {"*", "/"} -> 4
                 [] type = "DEREF" -> 5
                 [] OTHER -> 6

Open(t, i, j) == Cardinality({k \in i .. j : t[k].type = "("})
                   - Cardinality({k \in i .. j : t[k].type = ")"})

\* check_parentheses: the first token and the last are a pair.
Enclosed(t, p, q) ==
    /\ t[p].type = "(" /\ t[q].type = ")"
    /\ \A k \in p .. q - 1 : Open(t, p, k) > 0
    /\ Open(t, p, q) = 0

\* Mutated: the first of equal operators.
MainOperatorFirst(t, p, q) ==
    LET ops == {i \in p .. q - 1 : Level(t[i].type) < 6 /\ Open(t, p, i) = 0} IN
    IF ops = {} THEN 1
    ELSE CHOOSE i \in ops : \A j \in ops : \/ Level(t[i].type) < Level(t[j].type)
                                           \/ Level(t[i].type) = Level(t[j].type) /\ i <= j

\* find_poistion_main_operator: the last of those that bind least, outside all
\* parentheses, or else the first token of all.
MainOperator(t, p, q) ==
    LET ops == {i \in p .. q - 1 : Level(t[i].type) < 6 /\ Open(t, p, i) = 0} IN
    IF ops = {} THEN 1
    ELSE CHOOSE i \in ops : \A j \in ops : \/ Level(t[i].type) < Level(t[j].type)
                                           \/ Level(t[i].type) = Level(t[j].type) /\ i >= j

\* eval.  Tokens that are not an operand or an operator where one is needed fail an
\* assertion; a range that is being evaluated already recurs without end.
RECURSIVE Eval(_, _, _, _)
Eval(t, p, q, active) ==
    IF p > q THEN Value(0)
    ELSE IF <<p, q>> \in active THEN NoValue
    ELSE IF p = q THEN Operand(t[p])
    ELSE LET now == active \cup {<<p, q>>} IN
         IF Enclosed(t, p, q) THEN Eval(t, p + 1, q - 1, now)
         ELSE LET op == MainOperator(t, p, q)
                  val1 == IF op = 1 THEN Value(0) ELSE Eval(t, p, op - 1, now)
                  val2 == Eval(t, op + 1, q, now)
              IN IF Level(t[op].type) = 6 THEN NoValue ELSE Apply(t[op].type, val1, val2)

\* expr.  Hexadecimal numbers have decimal digits only, and "$csr_" begins with a
\* register "$cs": after either comes a letter that no rule matches.
Evaluate(words) ==
    IF \E i \in DOMAIN words : words[i].type = "LETTERS" THEN NoValue
    ELSE LET t == MarkDeref(Tokens(words)) IN Eval(t, 1, Len(t), {})

-----------------------------------------------------------------------------
(* What the words mean: a reading from left to right, one function for     *)
(* each level of the grammar, that returns the value and where it ends.    *)

RECURSIVE Read(_, _, _), Rest(_, _, _)
Read(words, level, i) ==
    CASE level <= 4 -> Rest(words, level, Read(words, level + 1, i))
      [] level = 5 /\ words[i].type = "*" ->
            LET r == Read(words, 5, i + 1)
            IN [r EXCEPT !.v = Apply("DEREF", Value(0), r.v)]
      [] level = 5 /\ words[i].type = "(" ->
            LET r == Read(words, 1, i + 1) IN [r EXCEPT !.at = r.at + 1]
      [] OTHER -> [v |-> Value(words[i].val), at |-> i + 1]

Rest(words, level, left) ==
    IF left.at <= Len(words) /\ Level(words[left.at].type) = level
    THEN LET right == Read(words, level + 1, left.at + 1)
         IN Rest(words, level,
                     [right EXCEPT !.v = Apply(words[left.at].type, left.v, right.v)])
    ELSE left

Meaning(words) == Read(words, 1, 1).v

-----------------------------------------------------------------------------
(* The typing.                                                             *)

ExprInit == typed = <<>> /\ depth = 0 /\ operand = TRUE

Room(n) == Len(typed) + n + depth <= MaxWords
TypeWord(type, val) == typed' = Append(typed, Word(type, val))

TypeOperand ==
    /\ operand /\ Room(1) /\ operand' = FALSE /\ UNCHANGED depth
    /\ \/ \E v \in Decimals : TypeWord("NUM", v)
       \/ \E v \in HexNumbers : TypeWord("HEX", v)
       \/ \E v \in Gpr, name \in {"REG", "REG2", "LETTERS"} : TypeWord(name, v)
       \/ TypeWord("ZERO", 0)

TypePrefix == operand /\ Room(2) /\ TypeWord("*", 0) /\ UNCHANGED <<depth, operand>>
TypeOpen == operand /\ Room(3) /\ TypeWord("(", 0) /\ depth' = depth + 1 /\ UNCHANGED operand
TypeClose == ~operand /\ depth > 0 /\ TypeWord(")", 0) /\ depth' = depth - 1 /\ UNCHANGED operand
TypeOperator == /\ ~operand /\ Room(2) /\ operand' = TRUE /\ UNCHANGED depth
                /\ \E op \in Binary : TypeWord(op, 0)

\* The command is given, and the next one is typed.
Enter == ~operand /\ depth = 0 /\ typed' = <<>> /\ operand' = TRUE /\ UNCHANGED depth

ExprNext == TypeOperand \/ TypePrefix \/ TypeOpen \/ TypeClose \/ TypeOperator \/ Enter
ExprSpec == ExprInit /\ [][ExprNext]_evars

-----------------------------------------------------------------------------
Typed(i, types) == typed[i].type \in types

\* A "*" that should multiply a register is taken for a dereference.
ProductOfRegister ==
    \E i \in 2 .. Len(typed) : Typed(i, {"*"}) /\ Typed(i - 1, {"REG"})

\* A decimal number that does not fit a signed one counts as the greatest that does.
Clipped(words) == [i \in DOMAIN words |->
                     IF words[i].type = "NUM" /\ words[i].val > LongMax
                     THEN Word("NUM", LongMax) ELSE words[i]]

\* Registers with two digits and the one with number zero, hexadecimal letters and
\* names of control registers, and two prefixes in a row.
Refused ==
    \/ \E i \in DOMAIN typed : Typed(i, {"REG2", "ZERO", "LETTERS"})
    \/ \E i \in 2 .. Len(typed) : /\ Typed(i, {"*"}) /\ Typed(i - 1, {"*"})
                                  /\ i = 2 \/ ~Typed(i - 2, {"NUM", "HEX", ")"})

\* The value of an expression is what it means, through every nesting of levels,
\* associativity and parentheses, and so is the access to memory that it makes.
\* Where the code cannot read what was typed it gives no value: it gives a wrong one
\* only to an expression that multiplies a register, and to decimal numbers above the
\* greatest signed one, each of which counts as that.
EvaluatesAsWritten ==
    (~operand /\ depth = 0 /\ ~ProductOfRegister) =>
        \/ Evaluate(typed) = Meaning(Clipped(typed))
        \/ Evaluate(typed).none /\ Refused
=============================================================================
