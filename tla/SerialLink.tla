----------------------------- MODULE SerialLink -----------------------------
(***************************************************************************)
(* How the emulator (device/serial.c) and the terminal mayfly_serial find  *)
(* each other, and what happens when one of them ends.  Two FIFOs in /tmp  *)
(* connect them: "out" (message_fifo) carries what the guest prints, "in"  *)
(* (message_rfifo) what the user types.  Each program creates one of the   *)
(* two and opens both, the terminal in two threads; neither checks an      *)
(* open.  The files stay: serial_exit is not called, and the terminal's    *)
(* unlink follows an endless loop.                                         *)
(*                                                                         *)
(* The user starts and kills the programs at will.  An open that waits     *)
(* counts as an end of its FIFO for the other side, and succeeds even if   *)
(* the other side has gone by the time it returns.  A write to a FIFO that *)
(* no one reads ends the program (SIGPIPE).                                *)
(***************************************************************************)
EXTENDS Integers

CONSTANT Capacity      \* of a FIFO

ASSUME LinkConstants == Capacity \in Nat \ {0}

VARIABLES files,       \* the FIFOs that exist
          emu,         \* where the emulator is
          t1, t2,      \* where the terminal's threads are
          fd,          \* of each end of a FIFO, its descriptor
          queue,       \* unread bytes in each FIFO
          stdin,       \* of the terminal: "untouched", "typed", "eof" after typing
          prepared,    \* history: programs started when both files existed
          left,        \* history: programs whose partner ended behind their open FIFO
          cut          \* history: programs SIGPIPE ended while the partner was there

link == <<files, fd, queue>>
history == <<prepared, left, cut>>
lvars == <<link, emu, t1, t2, stdin, history>>

Files == {"out", "in"}
Ends == {"out writer", "out reader", "in writer", "in reader"}
EndsOf(program) == IF program = "emu" THEN {"out writer", "in reader"}
                                      ELSE {"out reader", "in writer"}
WriterOf(program) == IF program = "emu" THEN "out writer" ELSE "in writer"
Partner(program) == IF program = "emu" THEN "term" ELSE "emu"
Other(end) == CASE end = "out writer" -> "out reader" [] end = "out reader" -> "out writer"
                [] end = "in writer"  -> "in reader"  [] end = "in reader"  -> "in writer"

LinkInit ==
    /\ files = {} /\ emu = "off" /\ t1 = "off" /\ t2 = "off"
    /\ fd = [e \in Ends |-> "closed"] /\ queue = [f \in Files |-> 0]
    /\ stdin = "untouched"
    /\ prepared = {} /\ left = {} /\ cut = {}

-----------------------------------------------------------------------------
(* The system calls.                                                       *)

Mkfifo(file) == files' = files \cup {file} /\ UNCHANGED <<fd, queue>>

\* Mutated: open does not wait for the other end.
OpenAtOnce(end, file) ==
    /\ fd' = [fd EXCEPT ![end] = IF file \in files THEN "open" ELSE "failed",
                        ![Other(end)] = IF @ = "opening" THEN "open" ELSE @]
    /\ UNCHANGED <<files, queue>>

\* open of a file that does not exist fails; else it waits for the other end, which
\* it releases if that waits for this one.
Open(end, file) ==
    /\ fd' = IF file \notin files THEN [fd EXCEPT ![end] = "failed"]
             ELSE IF fd[Other(end)] \in {"opening", "open"}
             THEN [fd EXCEPT ![end] = "open", ![Other(end)] = "open"]
             ELSE [fd EXCEPT ![end] = "opening"]
    /\ UNCHANGED <<files, queue>>

\* With O_NONBLOCK the reading end does not wait.
OpenNonblock(end, file) ==
    /\ fd' = IF file \notin files THEN [fd EXCEPT ![end] = "failed"]
             ELSE [fd EXCEPT ![end] = "open",
                             ![Other(end)] = IF @ = "opening" THEN "open" ELSE @]
    /\ UNCHANGED <<files, queue>>

\* The kernel forgets what is in a FIFO that has no end any more.
Close(program) ==
    /\ fd' = [e \in Ends |-> IF e \in EndsOf(program) THEN "closed" ELSE fd[e]]
    /\ queue' = [f \in Files |->
                    IF \E e \in Ends \ EndsOf(program) :
                          fd[e] \in {"opening", "open"}
                          /\ f = IF e \in {"out writer", "out reader"} THEN "out" ELSE "in"
                    THEN queue[f] ELSE 0]
    /\ UNCHANGED files

Ended(program) ==
    /\ Close(program)
    /\ left' = (left \ {program})
                  \cup {p \in {Partner(program)} : fd[WriterOf(p)] = "open"}
    /\ prepared' = prepared \ {program}

EmuEnds == emu' = "off" /\ Ended("emu") /\ UNCHANGED <<t1, t2, stdin>>
TermEnds == t1' = "off" /\ t2' = "off" /\ Ended("term")
            /\ stdin' = "untouched" /\ UNCHANGED emu

\* Mutated: a full FIFO is written to.
PutOver(file) == queue' = [queue EXCEPT ![file] = @ + 1]

Put(file) == queue[file] < Capacity /\ queue' = [queue EXCEPT ![file] = @ + 1]
Take(file) == queue[file] > 0 /\ queue' = [queue EXCEPT ![file] = @ - 1]

-----------------------------------------------------------------------------
(* The emulator: serial_init, then serail_update after every instruction.  *)

Start(program) ==
    /\ prepared' = IF files = Files THEN prepared \cup {program} ELSE prepared
    /\ UNCHANGED <<link, stdin, left, cut>>

EmuStart == emu = "off" /\ emu' = "mkfifo" /\ Start("emu") /\ UNCHANGED <<t1, t2>>

EmuDoes(from, to) == emu = from /\ emu' = to /\ UNCHANGED <<t1, t2, stdin, history>>

EmuInit ==
    \/ EmuDoes("mkfifo", "open out") /\ Mkfifo("out")
    \/ /\ fd["out writer"] = "closed" /\ EmuDoes("open out", "open out")
       /\ Open("out writer", "out")
    \/ /\ fd["out writer"] # "closed" /\ fd["out writer"] # "opening"
       /\ EmuDoes("open out", "open in") /\ UNCHANGED link
    \/ EmuDoes("open in", "running") /\ OpenNonblock("in reader", "in")

\* The write blocks while the FIFO is full.
EmuWrite ==
    /\ emu = "running" /\ fd["out writer"] = "open"
    /\ \/ /\ fd["out reader"] = "open" /\ Put("out")
          /\ UNCHANGED <<files, fd, emu, t1, t2, stdin, history>>
       \/ /\ fd["out reader"] # "open" /\ EmuEnds
          /\ cut' = IF "emu" \in left THEN cut ELSE cut \cup {"emu"}

EmuRead == /\ emu = "running" /\ fd["in reader"] = "open" /\ Take("in")
           /\ UNCHANGED <<files, fd, emu, t1, t2, stdin, history>>

KillEmu == emu # "off" /\ EmuEnds /\ UNCHANGED cut

-----------------------------------------------------------------------------
(* The terminal: main starts both threads.                                 *)

TermStart == /\ t1 = "off" /\ t1' = "mkfifo" /\ t2' = "open"
             /\ Start("term") /\ UNCHANGED emu

\* get_info_from_terminal
T1Does(from, to) == t1 = from /\ t1' = to /\ UNCHANGED <<emu, t2, stdin, history>>

T1Init ==
    \/ T1Does("mkfifo", "open") /\ Mkfifo("in")
    \/ fd["in writer"] = "closed" /\ T1Does("open", "open") /\ Open("in writer", "in")
    \/ fd["in writer"] = "open" /\ T1Does("open", "loop") /\ UNCHANGED link

\* write of the line in rx_fifo
T1Write ==
    \/ /\ fd["in reader"] = "open" /\ Put("in")
       /\ UNCHANGED <<files, fd, emu, t1, t2, history>>
    \/ /\ fd["in reader"] # "open" /\ TermEnds
       /\ cut' = IF "term" \in left THEN cut ELSE cut \cup {"term"}

UserTypes == /\ t1 = "loop" /\ stdin \in {"untouched", "typed"}
             /\ T1Write /\ (t1' = "loop" => stdin' = "typed")

UserEof == /\ t1 # "off" /\ stdin = "typed" /\ stdin' = "eof"
           /\ UNCHANGED <<link, emu, t1, t2, history>>

\* At the end of the input fgets leaves the buffer alone, and the last line is sent
\* again, and again.
T1Resend == /\ t1 = "loop" /\ stdin = "eof"
            /\ T1Write /\ (t1' = "loop" => stdin' = "eof")

\* get_info_from_serial
T2Does(from, to) == t2 = from /\ t2' = to /\ UNCHANGED <<emu, t1, stdin, history>>

\* Mutated: one thread opens both FIFOs.
T2InitBehindT1 ==
    /\ t1 = "loop"
    /\ \/ fd["out reader"] = "closed" /\ T2Does("open", "open") /\ Open("out reader", "out")
       \/ fd["out reader"] \in {"open", "failed"} /\ T2Does("open", "loop") /\ UNCHANGED link

T2Init ==
    \/ fd["out reader"] = "closed" /\ T2Does("open", "open") /\ Open("out reader", "out")
    \/ fd["out reader"] \in {"open", "failed"} /\ T2Does("open", "loop") /\ UNCHANGED link

\* Mutated: one thread serves both FIFOs.
T2ReadBehindT1 ==
    /\ t1 = "loop" /\ queue["in"] < Capacity
    /\ T2Does("loop", "loop") /\ fd["out reader"] = "open" /\ Take("out")
    /\ UNCHANGED <<files, fd>>

\* At the end of file, and when the open failed, the loop goes round without effect.
T2Read == /\ T2Does("loop", "loop") /\ fd["out reader"] = "open" /\ Take("out")
          /\ UNCHANGED <<files, fd>>

KillTerm == t1 # "off" /\ TermEnds /\ UNCHANGED cut

-----------------------------------------------------------------------------
User == EmuStart \/ TermStart \/ KillEmu \/ KillTerm \/ UserTypes \/ UserEof
LinkNext == User \/ EmuInit \/ EmuWrite \/ EmuRead \/ T1Init \/ T1Resend \/ T2Init \/ T2Read

\* Each program's threads go on when they can.  The user owes nothing, nor does the
\* guest, on which it depends what the emulator writes and reads.
LinkSpec == /\ LinkInit /\ [][LinkNext]_lvars
            /\ WF_lvars(EmuInit)
            /\ WF_lvars(T1Init) /\ WF_lvars(T1Resend)
            /\ WF_lvars(T2Init) /\ WF_lvars(T2Read)

-----------------------------------------------------------------------------
LinkTypeOK ==
    /\ files \subseteq Files
    /\ emu \in {"off", "mkfifo", "open out", "open in", "running"}
    /\ t1 \in {"off", "mkfifo", "open", "loop"} /\ t2 \in {"off", "open", "loop"}
    /\ fd \in [Ends -> {"closed", "opening", "open", "failed"}]
    /\ queue \in [Files -> 0 .. Capacity]
    /\ stdin \in {"untouched", "typed", "eof"}
    /\ {prepared, left, cut} \subseteq SUBSET {"emu", "term"}

Linked == \A e \in Ends : fd[e] = "open"
BothOn == emu # "off" /\ t1 # "off"

\* Where both files are left from an earlier session, the programs find each other,
\* whichever is started first and however their three threads interleave.
LinkUp == (BothOn /\ prepared = {"emu", "term"}) ~> (Linked \/ ~BothOn)

\* SIGPIPE ends a program only when the other one has ended behind its back: to be
\* the first of the two is never fatal, nor is a failed open of the other.
HangupsOnly == cut = {}

\* What the guest printed reaches the screen although the terminal's other thread
\* is stuck in a write that the guest does not read: the two never wait for each
\* other in a circle.
ScreenLives == (queue["out"] = Capacity /\ t2 = "loop") ~> (queue["out"] < Capacity \/ ~BothOn)

\* README.md says to start mayfly-emu and mayfly_serial in different terminals: the
\* two programs, once started, are linked.
StartedLinks == BothOn ~> (Linked \/ ~BothOn)
=============================================================================
