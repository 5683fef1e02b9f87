------------------------------- MODULE Monitor -------------------------------
(***************************************************************************)
(* The debugger's command loop (monitor/sdb.c) and the run loop under it   *)
(* (cpu/cpu-exec.c): who starts and stops the guest.  One process reads    *)
(* commands at the prompt and keys from /dev/tty while the guest runs; the *)
(* guest ends its program with ebreak, aborts it with an invalid           *)
(* instruction, or with an access to an address that nothing answers.      *)
(*                                                                         *)
(* An instruction is the outcome of isa_exec_once.  readline takes the     *)
(* keys that are left when the prompt comes back.                          *)
(***************************************************************************)
EXTENDS Integers, Sequences

CONSTANTS Pcs,        \* instruction addresses
          StepArgs,   \* the N of "si N"; 1 is what "si" alone uses
          Commands,   \* the commands the user gives
          Outcomes,   \* what instructions do
          Keys,       \* keys pressed while the guest runs
          MaxKeys     \* bound on the keys waiting

Forever == -1         \* cpu_exec(-1): 2^64 - 1 instructions never run out

ASSUME MonitorConstants ==
    /\ StepArgs \subseteq Nat \ {0} /\ MaxKeys \in Nat
    /\ Pcs \subseteq Nat \ {0}
    /\ Commands \subseteq {"c", "si", "si N", "x", "p", "malformed", "q"}
    /\ Outcomes \subseteq {"retires", "ebreak", "invalid", "stray access"}
    /\ Keys \subseteq {"esc", "eof", "other"}

States == {"RUNNING", "STOP", "END", "ABORT"}
Ended == {"END", "ABORT"}

VARIABLES state, halt_pc,    \* mayfly_state
          pc,                \* cpu.pc
          phase,             \* "prompt", "run", "poll", "exited"
          n,                 \* instructions left to run
          keys,              \* unread on /dev/tty
          \* history:
          over,              \* the guest has ended its program
          asked, ran,        \* instructions ordered and executed by this command
          interrupted        \* a key ended this command

history == <<over, asked, ran, interrupted>>
mvars == <<state, halt_pc, pc, phase, n, keys, history>>

Init == /\ state = "RUNNING" /\ halt_pc = 0 /\ pc \in Pcs
        /\ phase = "prompt" /\ n = 0 /\ keys = <<>>
        /\ over = FALSE /\ asked = 0 /\ ran = 0 /\ interrupted = FALSE

-----------------------------------------------------------------------------
(* The prompt.                                                             *)

Command(c) == phase = "prompt" /\ c \in Commands

\* Mutated: an instruction too few.
CpuExecShort(s, count) ==
    /\ IF s \in Ended
       THEN state' = s /\ UNCHANGED <<phase, n, asked, ran, interrupted>>
       ELSE /\ state' = "RUNNING" /\ phase' = "run"
            /\ n' = IF count = Forever THEN Forever ELSE count - 1
            /\ asked' = count /\ ran' = 0 /\ interrupted' = FALSE
    /\ UNCHANGED <<halt_pc, pc, keys, over>>

\* cpu_exec: refuses when the program has ended, else runs count instructions.
CpuExec(s, count) ==
    /\ IF s \in Ended
       THEN state' = s /\ UNCHANGED <<phase, n, asked, ran, interrupted>>
       ELSE /\ state' = "RUNNING" /\ phase' = "run" /\ n' = count
            /\ asked' = count /\ ran' = 0 /\ interrupted' = FALSE
    /\ UNCHANGED <<halt_pc, pc, keys, over>>

Continue == Command("c") /\ CpuExec(state, Forever)
StepOne == Command("si") /\ CpuExec(state, 1)

\* With an argument the command makes the state RUNNING before it calls cpu_exec.
StepMany == Command("si N") /\ \E count \in StepArgs : CpuExec("RUNNING", count)

\* "x" and the expressions of "p" and "w" read physical memory with the guest's own
\* access function, so an address nothing answers marks the program as aborted.
Examine == /\ Command("x") \/ Command("p")
           /\ state' \in {state, "ABORT"}
           /\ UNCHANGED <<halt_pc, pc, phase, n, keys, history>>

\* What ends the emulator instead of being refused: an expression that fails an
\* assertion or divides by zero, "d" or "x" without its number, and "info fr"
\* without a reference.
Malformed == /\ Command("malformed") /\ phase' = "exited"
             /\ UNCHANGED <<state, halt_pc, pc, n, keys, history>>

\* "q", or the end of the input.
Quit == /\ Command("q") /\ phase' = "exited"
        /\ UNCHANGED <<state, halt_pc, pc, n, keys, history>>

-----------------------------------------------------------------------------
(* The run loop.                                                           *)

\* Mutated: a command that used up its steps leaves the guest RUNNING.
ReturnRunning(s) == state' = s /\ phase' = "prompt" /\ keys' = <<>>

\* What cpu_exec does when execute returns.
Return(s) == /\ state' = IF s = "RUNNING" THEN "STOP" ELSE s
             /\ phase' = "prompt" /\ keys' = <<>>

OutOfSteps == /\ phase = "run" /\ n = 0
              /\ Return(state)
              /\ UNCHANGED <<halt_pc, pc, n, history>>

\* isa_exec_once.  set_mayfly_state records where the program halted, out_of_bound
\* does not.
ExecuteOne(outcome) ==
    /\ phase = "run" /\ n # 0 /\ outcome \in Outcomes
    /\ state' = CASE outcome = "retires" -> state
                  [] outcome = "ebreak"  -> "END"
                  [] OTHER               -> "ABORT"
    /\ halt_pc' = IF outcome \in {"ebreak", "invalid"} THEN pc ELSE halt_pc
    /\ pc' \in Pcs
    /\ phase' = "poll"
    /\ over' = (over \/ outcome # "retires")
    /\ ran' = IF asked = Forever THEN ran ELSE ran + 1
    /\ UNCHANGED <<n, keys, asked, interrupted>>

Instruction == \E outcome \in Outcomes : ExecuteOne(outcome)

\* get_stop reads one key.  At the end of file it returns a variable that was not
\* initialized, which may hold the escape character.
IsEscape(read) == read = "esc" \/ read = "eof"
\* Mutated: a key is read and not looked at.
NotEscapeIgnored(read) == TRUE
NotEscape(read) == read # "esc"

\* Mutated: the count of the unlimited run is decremented like any other.
PollCounts ==
    /\ phase = "poll" /\ n' = n - 1
    /\ phase' = IF state = "RUNNING" THEN "run" ELSE "prompt"
    /\ UNCHANGED <<state, halt_pc, pc, keys, history>>

Poll ==
    /\ phase = "poll"
    /\ n' = IF n = Forever THEN n ELSE n - 1
    /\ LET read == IF keys = <<>> THEN "none" ELSE Head(keys)
           rest == IF keys = <<>> THEN keys ELSE Tail(keys) IN
         \/ IsEscape(read) /\ Return("STOP") /\ interrupted' = TRUE
         \/ /\ NotEscape(read) /\ UNCHANGED interrupted
            /\ IF state = "RUNNING"
               THEN phase' = "run" /\ keys' = rest /\ UNCHANGED state
               ELSE Return(state)
    /\ UNCHANGED <<halt_pc, pc, over, asked, ran>>

PressKey == /\ phase \in {"run", "poll"} /\ Len(keys) < MaxKeys
            /\ \E k \in Keys : keys' = Append(keys, k)
            /\ UNCHANGED <<state, halt_pc, pc, phase, n, history>>

Exited == phase = "exited" /\ UNCHANGED mvars

Prompt == Continue \/ StepOne \/ StepMany \/ Examine \/ Malformed \/ Quit
Run == OutOfSteps \/ Instruction \/ Poll
Next == Prompt \/ Run \/ PressKey \/ Exited

\* The run loop keeps going; the user owes neither commands nor keys.
Spec == Init /\ [][Next]_mvars /\ WF_mvars(Run)

-----------------------------------------------------------------------------
TypeOK ==
    /\ state \in States /\ phase \in {"prompt", "run", "poll", "exited"}
    /\ pc \in Pcs /\ halt_pc \in Pcs \cup {0}
    /\ n \in Nat \cup {Forever} /\ keys \in Seq(Keys) /\ Len(keys) <= MaxKeys
    /\ {over, interrupted} \subseteq BOOLEAN
    /\ asked \in Nat \cup {Forever} /\ ran \in Nat

\* A command to step executes exactly the instructions it was asked for, unless
\* the guest ended its program or a key stopped it, and then no more than those; and
\* the count of "c" never runs out: only those two give its prompt back.
StepsExact ==
    /\ asked # Forever => ran <= asked
    /\ (phase = "prompt" /\ state = "STOP" /\ ~interrupted) => asked # Forever /\ ran = asked

\* The prompt never comes back with the guest marked as running, whichever of the
\* step count, the guest and the keyboard ended the command, except before the
\* first command.
PromptStopped == (phase = "prompt" /\ state = "RUNNING") => asked = 0

\* The escape key gives the prompt back, also behind other keys: a guest cannot
\* run past it.
EscapeStops == (\E k \in DOMAIN keys : keys[k] = "esc") ~> (phase = "prompt")

\* cpu_exec tells the user "Program execution has ended. To restart the program,
\* exit NEMU and run again.": once the guest has ended its program, no command
\* executes another of its instructions.
EndedIsFinal == [][Instruction => ~over]_mvars
=============================================================================
