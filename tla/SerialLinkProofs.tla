-------------------------- MODULE SerialLinkProofs --------------------------
(***************************************************************************)
(* Proofs about SerialLink for every capacity of the FIFOs: its types, and *)
(* that SIGPIPE never ends a program but behind whose open FIFO the other  *)
(* one has ended.  The latter is inductive with the facts that a writing   *)
(* end which has been opened has its reading end open, or has lost it to   *)
(* such an end; that the terminal writes only to a FIFO it has opened; and *)
(* that the emulator opens its reading end last.                           *)
(*                                                                         *)
(* Then liveness: that the programs find each other and that the screen is *)
(* served.  What is fair must also be enabled; that is the hypothesis of   *)
(* these two theorems (GuardsEnable), ENABLED being beyond the prover.     *)
(***************************************************************************)
EXTENDS SerialLink, TLAPS

Descriptors == [Ends -> {"closed", "opening", "open", "failed"}]

Watched ==
    /\ fd["out writer"] = "open" => fd["out reader"] = "open" \/ "emu" \in left
    /\ fd["in writer"] = "open" => fd["in reader"] = "open" \/ "term" \in left

WritesOpened == t1 = "loop" => fd["in writer"] = "open"

ReadsLast == emu # "running" => fd["in reader"] = "closed"

LinkInv == LinkTypeOK /\ HangupsOnly /\ Watched /\ WritesOpened /\ ReadsLast

\* What the invariant says of the FIFOs and their ends.
Connected == /\ files \subseteq Files /\ fd \in Descriptors
             /\ queue \in [Files -> 0 .. Capacity]
             /\ Watched /\ ReadsLast

LEMMA EndsAre == /\ Ends = {"out writer", "out reader", "in writer", "in reader"}
                 /\ Other("out writer") = "out reader" /\ Other("out reader") = "out writer"
                 /\ Other("in writer") = "in reader" /\ Other("in reader") = "in writer"
  BY DEF Ends, Other

-----------------------------------------------------------------------------
(* The system calls keep the FIFOs connected and a written one open.       *)

LEMMA OpenKeeps ==
    ASSUME Connected, NEW end \in Ends \ {"in reader"}, NEW file, UNCHANGED <<left, emu>>,
           fd[end] = "closed", Open(end, file)
    PROVE  Connected' /\ (fd["in writer"] = "open" => fd'["in writer"] = "open")
  <1> USE DEF Connected, Watched, ReadsLast, Descriptors
  <1>1. CASE file \notin files
    <2>1. fd' = [fd EXCEPT ![end] = "failed"]  BY <1>1 DEF Open
    <2> QED  BY <2>1, EndsAre, ZenonT(40) DEF Open
  <1>2. CASE file \in files /\ fd[Other(end)] \in {"opening", "open"}
    <2>1. fd' = [fd EXCEPT ![end] = "open", ![Other(end)] = "open"]  BY <1>2 DEF Open
    <2>2. CASE end = "in writer"
      <3>1. fd' = [fd EXCEPT !["in writer"] = "open", !["in reader"] = "open"]
        BY <2>1, <2>2, EndsAre
      <3>2. emu = "running"  BY <1>2, <2>2, EndsAre
      <3>3. fd' \in Descriptors  BY <3>1, EndsAre
      <3>4. fd'["out reader"] = fd["out reader"] /\ fd'["out writer"] = fd["out writer"]
        BY <3>1, EndsAre
      <3>5. fd'["in reader"] = "open" /\ fd'["in writer"] = "open"  BY <3>1, EndsAre
      <3> QED  BY <3>2, <3>3, <3>4, <3>5 DEF Open
    <2>3. CASE end \in {"out writer", "out reader"}
      <3>1. fd' = [fd EXCEPT !["out writer"] = "open", !["out reader"] = "open"]
        BY <2>1, <2>3, EndsAre
      <3>2. fd' \in Descriptors  BY <3>1, EndsAre
      <3>3. fd'["in reader"] = fd["in reader"] /\ fd'["in writer"] = fd["in writer"]
        BY <3>1, EndsAre
      <3>4. fd'["out reader"] = "open"  BY <3>1, EndsAre
      <3> QED  BY <3>2, <3>3, <3>4 DEF Open
    <2> QED  BY <2>2, <2>3, EndsAre
  <1>3. CASE file \in files /\ fd[Other(end)] \notin {"opening", "open"}
    <2>1. fd' = [fd EXCEPT ![end] = "opening"]  BY <1>3 DEF Open
    <2> QED  BY <1>3, <2>1, EndsAre, ZenonT(40) DEF Open
  <1> QED  BY <1>1, <1>2, <1>3

LEMMA OpenNonblockKeeps ==
    ASSUME Connected, NEW file, UNCHANGED left, emu # "running", emu' = "running",
           OpenNonblock("in reader", file)
    PROVE  Connected' /\ (fd["in writer"] = "open" => fd'["in writer"] = "open")
  <1> USE DEF Connected, Watched, ReadsLast, Descriptors
  <1>1. CASE file \notin files
    <2>1. fd' = [fd EXCEPT !["in reader"] = "failed"]  BY <1>1 DEF OpenNonblock
    <2> QED  BY <2>1, EndsAre DEF OpenNonblock
  <1>2. CASE file \in files
    <2>1. fd' = [fd EXCEPT !["in reader"] = "open",
                           !["in writer"] = IF @ = "opening" THEN "open" ELSE @]
      BY <1>2, EndsAre DEF OpenNonblock
    <2> QED  BY <2>1, EndsAre, ZenonT(40) DEF OpenNonblock
  <1> QED  BY <1>1, <1>2

\* The one that stays is recorded as left if it has its FIFO open for writing.
LEMMA EndedKeeps ==
    ASSUME LinkTypeOK, Connected, NEW program \in {"emu", "term"}, Ended(program),
           program = "term" => emu' = emu
    PROVE  /\ Connected' /\ left' \subseteq {"emu", "term"}
           /\ prepared' \subseteq {"emu", "term"}
           /\ program = "emu" => fd'["in writer"] = fd["in writer"]
  <1>0. 0 \in 0 .. Capacity  BY LinkConstants
  <1> USE DEF Ended, Close, EndsOf, WriterOf, Partner
  <1>1. files' \subseteq Files /\ fd' \in Descriptors  BY DEF Connected, Descriptors
  <1>2. queue' \in [Files -> 0 .. Capacity]
    <2>1. \A f \in Files : queue'[f] \in {queue[f], 0}  OBVIOUS
    <2>2. \A f \in Files : queue'[f] \in 0 .. Capacity
      <3>1. \A f \in Files : queue[f] \in 0 .. Capacity  BY DEF Connected
      <3> HIDE DEF Ended
      <3> QED  BY <1>0, <2>1, <3>1
    <2>3. queue' = [f \in Files |-> queue'[f]]  OBVIOUS
    <2> QED  BY <2>2, <2>3
  <1>3. left' \subseteq {"emu", "term"} /\ prepared' \subseteq {"emu", "term"}
    BY DEF LinkTypeOK
  <1>4. CASE program = "emu"
    <2>1. /\ fd'["out writer"] = "closed" /\ fd'["in reader"] = "closed"
          /\ fd'["in writer"] = fd["in writer"]
      BY <1>4, EndsAre
    <2>2. fd["in writer"] = "open" => "term" \in left'  BY <1>4
    <2> QED  BY <1>1, <1>2, <1>3, <1>4, <2>1, <2>2 DEF Connected, Watched, ReadsLast
  <1>5. CASE program = "term"
    <2>1. /\ fd'["in writer"] = "closed" /\ fd'["out writer"] = fd["out writer"]
          /\ fd'["in reader"] = fd["in reader"]
      BY <1>5, EndsAre
    <2>2. fd["out writer"] = "open" => "emu" \in left'  BY <1>5
    <2> QED  BY <1>1, <1>2, <1>3, <1>5, <2>1, <2>2 DEF Connected, Watched, ReadsLast
  <1> QED  BY <1>4, <1>5

LEMMA PutTakeKeep ==
    ASSUME NEW file \in Files, Connected, Put(file) \/ Take(file), UNCHANGED <<files, fd, left, emu>>
    PROVE  Connected'
  <1>1. queue' \in [Files -> 0 .. Capacity]
    BY LinkConstants DEF Connected, Put, Take
  <1> QED  BY <1>1 DEF Connected, Watched, ReadsLast

-----------------------------------------------------------------------------
(* Each step keeps the invariant.                                          *)

LEMMA ProgramsEndKeep ==
    ASSUME LinkInv, (EmuEnds \/ TermEnds) /\ cut' = {}
    PROVE  LinkInv'
  <1>1. Connected  BY DEF LinkInv, LinkTypeOK, Connected, Descriptors
  <1>2. CASE EmuEnds
    <2>1. /\ Connected' /\ left' \subseteq {"emu", "term"} /\ prepared' \subseteq {"emu", "term"}
          /\ fd'["in writer"] = fd["in writer"]
      BY <1>1, <1>2, EndedKeeps DEF EmuEnds, LinkInv
    <2> QED  BY <1>2, <2>1
            DEF LinkInv, LinkTypeOK, HangupsOnly, WritesOpened, Connected, Descriptors, EmuEnds
  <1>3. CASE TermEnds
    <2>1. Connected' /\ left' \subseteq {"emu", "term"} /\ prepared' \subseteq {"emu", "term"}
      BY <1>1, <1>3, EndedKeeps DEF TermEnds, LinkInv
    <2> QED  BY <1>3, <2>1
            DEF LinkInv, LinkTypeOK, HangupsOnly, WritesOpened, Connected, Descriptors, TermEnds
  <1> QED  BY <1>2, <1>3

\* Where the histories stay, the invariant is about the FIFOs and the places.
LEMMA ConnectedSuffices ==
    ASSUME LinkInv, UNCHANGED history, Connected',
           emu' \in {"off", "mkfifo", "open out", "open in", "running"},
           t1' \in {"off", "mkfifo", "open", "loop"}, t2' \in {"off", "open", "loop"},
           stdin' \in {"untouched", "typed", "eof"},
           t1' = "loop" => fd'["in writer"] = "open"
    PROVE  LinkInv'
  BY DEF LinkInv, LinkTypeOK, HangupsOnly, WritesOpened, Connected, Descriptors, history

LEMMA StepKeeps ==
    ASSUME LinkInv, [LinkNext]_lvars
    PROVE  LinkInv'
  <1>1. Connected  BY DEF LinkInv, LinkTypeOK, Connected, Descriptors
  <1>2. CASE UNCHANGED lvars
    BY <1>2, ZenonT(40) DEF LinkInv, LinkTypeOK, HangupsOnly, Watched, WritesOpened, ReadsLast,
                lvars, link, history
  <1>3. CASE EmuStart \/ TermStart
    BY <1>3, ZenonT(40) DEF LinkInv, LinkTypeOK, HangupsOnly, Watched, WritesOpened, ReadsLast,
                EmuStart, TermStart, Start, link
  <1>4. CASE KillEmu \/ KillTerm
    <2>1. (EmuEnds \/ TermEnds) /\ cut' = {}
      BY <1>4 DEF KillEmu, KillTerm, LinkInv, HangupsOnly
    <2> QED  BY <2>1, ProgramsEndKeep
  <1>5. CASE EmuInit
    <2> USE DEF EmuDoes, history
    <2>1. CASE EmuDoes("mkfifo", "open out") /\ Mkfifo("out")
      <3>1. Connected'
        BY <1>1, <2>1 DEF Mkfifo, Connected, Files, Watched, ReadsLast
      <3> QED  BY <2>1, <3>1, ConnectedSuffices DEF LinkInv, LinkTypeOK, WritesOpened, Mkfifo
    <2>2. CASE /\ fd["out writer"] = "closed" /\ EmuDoes("open out", "open out")
               /\ Open("out writer", "out")
      <3>1. Connected' /\ (fd["in writer"] = "open" => fd'["in writer"] = "open")
        BY <1>1, <2>2, OpenKeeps, EndsAre
      <3> QED  BY <2>2, <3>1, ConnectedSuffices DEF LinkInv, LinkTypeOK, WritesOpened
    <2>3. CASE EmuDoes("open out", "open in") /\ UNCHANGED link
      <3>1. Connected'
        BY <1>1, <2>3 DEF link, Connected, Watched, ReadsLast
      <3> QED  BY <2>3, <3>1, ConnectedSuffices DEF LinkInv, LinkTypeOK, WritesOpened, link
    <2>4. CASE EmuDoes("open in", "running") /\ OpenNonblock("in reader", "in")
      <3>1. Connected' /\ (fd["in writer"] = "open" => fd'["in writer"] = "open")
        BY <1>1, <2>4, OpenNonblockKeeps
      <3> QED  BY <2>4, <3>1, ConnectedSuffices DEF LinkInv, LinkTypeOK, WritesOpened
    <2> QED  BY <1>5, <2>1, <2>2, <2>3, <2>4 DEF EmuInit
  <1>6. CASE EmuWrite
    <2>1. CASE Put("out") /\ UNCHANGED <<files, fd, emu, t1, t2, stdin, history>>
      <3>1. Connected'  BY <1>1, <2>1, PutTakeKeep DEF Files, history
      <3> QED  BY <2>1, <3>1, ConnectedSuffices DEF LinkInv, LinkTypeOK, WritesOpened
    <2>2. CASE /\ fd["out reader"] # "open" /\ EmuEnds
               /\ cut' = IF "emu" \in left THEN cut ELSE cut \cup {"emu"}
      <3>1. "emu" \in left  BY <1>6, <2>2 DEF EmuWrite, LinkInv, Watched
      <3>2. cut' = {}  BY <2>2, <3>1 DEF LinkInv, HangupsOnly
      <3> QED  BY <2>2, <3>2, ProgramsEndKeep
    <2> QED  BY <1>6, <2>1, <2>2 DEF EmuWrite
  <1>7. CASE EmuRead
    <2>1. Connected'  BY <1>1, <1>7, PutTakeKeep DEF EmuRead, Files, history
    <2> QED  BY <1>7, <2>1, ConnectedSuffices DEF EmuRead, LinkInv, LinkTypeOK, WritesOpened
  <1>8. CASE T1Init
    <2> USE DEF T1Does, history
    <2>1. CASE T1Does("mkfifo", "open") /\ Mkfifo("in")
      <3>1. Connected'
        BY <1>1, <2>1 DEF Mkfifo, Connected, Files, Watched, ReadsLast
      <3> QED  BY <2>1, <3>1, ConnectedSuffices DEF LinkInv, LinkTypeOK
    <2>2. CASE fd["in writer"] = "closed" /\ T1Does("open", "open") /\ Open("in writer", "in")
      <3>1. Connected'  BY <1>1, <2>2, OpenKeeps, EndsAre
      <3> QED  BY <2>2, <3>1, ConnectedSuffices DEF LinkInv, LinkTypeOK
    <2>3. CASE fd["in writer"] = "open" /\ T1Does("open", "loop") /\ UNCHANGED link
      <3>1. Connected'
        BY <1>1, <2>3 DEF link, Connected, Watched, ReadsLast
      <3> QED  BY <2>3, <3>1, ConnectedSuffices DEF LinkInv, LinkTypeOK, link
    <2> QED  BY <1>8, <2>1, <2>2, <2>3 DEF T1Init
  <1>9. CASE UserTypes \/ T1Resend
    <2>1. t1 = "loop" /\ T1Write /\ (t1' = "loop" => stdin' \in {"typed", "eof"})
      BY <1>9 DEF UserTypes, T1Resend
    <2>2. CASE Put("in") /\ UNCHANGED <<files, fd, emu, t1, t2, history>>
      <3>1. Connected'  BY <1>1, <2>2, PutTakeKeep DEF Files, history
      <3> QED  BY <2>1, <2>2, <3>1, ConnectedSuffices DEF LinkInv, LinkTypeOK, WritesOpened
    <2>3. CASE /\ fd["in reader"] # "open" /\ TermEnds
               /\ cut' = IF "term" \in left THEN cut ELSE cut \cup {"term"}
      <3>1. "term" \in left  BY <2>1, <2>3 DEF LinkInv, Watched, WritesOpened
      <3>2. cut' = {}  BY <2>3, <3>1 DEF LinkInv, HangupsOnly
      <3> QED  BY <2>3, <3>2, ProgramsEndKeep
    <2> QED  BY <2>1, <2>2, <2>3 DEF T1Write
  <1>10. CASE UserEof
    <2>1. Connected'
      BY <1>1, <1>10 DEF UserEof, link, history, Connected, Watched, ReadsLast
    <2> QED  BY <1>10, <2>1, ConnectedSuffices
            DEF UserEof, LinkInv, LinkTypeOK, WritesOpened, link
  <1>11. CASE T2Init
    <2> USE DEF T2Does, history
    <2>1. CASE fd["out reader"] = "closed" /\ T2Does("open", "open") /\ Open("out reader", "out")
      <3>1. Connected' /\ (fd["in writer"] = "open" => fd'["in writer"] = "open")
        BY <1>1, <2>1, OpenKeeps, EndsAre
      <3> QED  BY <2>1, <3>1, ConnectedSuffices DEF LinkInv, LinkTypeOK, WritesOpened
    <2>2. CASE T2Does("open", "loop") /\ UNCHANGED link
      <3>1. Connected'
        BY <1>1, <2>2 DEF link, Connected, Watched, ReadsLast
      <3> QED  BY <2>2, <3>1, ConnectedSuffices DEF LinkInv, LinkTypeOK, WritesOpened, link
    <2> QED  BY <1>11, <2>1, <2>2 DEF T2Init
  <1>12. CASE T2Read
    <2>1. Connected'  BY <1>1, <1>12, PutTakeKeep DEF T2Read, T2Does, Files, history
    <2> QED  BY <1>12, <2>1, ConnectedSuffices
            DEF T2Read, T2Does, LinkInv, LinkTypeOK, WritesOpened
  <1> QED
    BY <1>2, <1>3, <1>4, <1>5, <1>6, <1>7, <1>8, <1>9, <1>10, <1>11, <1>12
    DEF LinkNext, User

LEMMA InitConnects == LinkInit => LinkInv
  <1> SUFFICES ASSUME LinkInit PROVE LinkInv  OBVIOUS
  <1>1. fd["out writer"] = "closed" /\ fd["in writer"] = "closed" /\ fd["in reader"] = "closed"
    BY EndsAre DEF LinkInit
  <1>2. fd \in [Ends -> {"closed", "opening", "open", "failed"}]  BY DEF LinkInit
  <1>3. queue \in [Files -> 0 .. Capacity]  BY LinkConstants DEF LinkInit
  <1> QED
    BY <1>1, <1>2, <1>3
    DEF LinkInit, LinkInv, LinkTypeOK, HangupsOnly, Watched, WritesOpened, ReadsLast

LEMMA AlwaysConnected == LinkSpec => []LinkInv
  BY InitConnects, StepKeeps, PTL DEF LinkSpec

-----------------------------------------------------------------------------
\* The programs, the descriptors and the FIFOs keep their shape: no FIFO ever holds
\* more than its capacity (serial.c:88-110, mayfly_serial.c:14-50).
THEOREM LinkTypeCorrect == LinkSpec => []LinkTypeOK
  BY AlwaysConnected, PTL DEF LinkInv

\* A write ends a program by SIGPIPE only behind the end of the other one, in whatever
\* order the two start, fail to open and end (serial.c:92, mayfly_serial.c:23).
THEOREM OnlyHangupsEnd == LinkSpec => []HangupsOnly
  BY AlwaysConnected, PTL DEF LinkInv

-----------------------------------------------------------------------------
(* How the two programs meet.  Every descriptor is where its thread has    *)
(* brought it, no two ends of a FIFO wait for each other, and a program    *)
(* that was started with both files there fails no open.                   *)

Meets(writer, reader) ==
    /\ fd[writer] = "opening" => fd[reader] \notin {"opening", "open"}
    /\ fd[reader] = "opening" => fd[writer] \notin {"opening", "open"}

EmuPlaced ==
    /\ emu \in {"off", "mkfifo"} => fd["out writer"] = "closed"
    /\ emu \in {"open in", "running"} => fd["out writer"] \in {"open", "failed"}
    /\ emu = "running" => fd["in reader"] \in {"open", "failed"}

TermPlaced ==
    /\ t1 = "off" <=> t2 = "off"
    /\ t1 \in {"off", "mkfifo"} => fd["in writer"] = "closed"
    /\ t2 = "off" => fd["out reader"] = "closed"
    /\ t2 = "loop" => fd["out reader"] \in {"open", "failed"}

OutServed ==
    /\ (fd["out writer"] = "open" \/ queue["out"] # 0) => "out" \in files
    /\ fd["out reader"] = "failed" => fd["out writer"] # "open" /\ queue["out"] = 0

PreparedOpens ==
    /\ prepared # {} => files = Files
    /\ "emu" \in prepared =>
          emu # "off" /\ fd["out writer"] # "failed" /\ fd["in reader"] # "failed"
    /\ "term" \in prepared =>
          t1 # "off" /\ fd["out reader"] # "failed" /\ fd["in writer"] # "failed"

Placed == /\ Meets("out writer", "out reader") /\ Meets("in writer", "in reader")
          /\ EmuPlaced /\ TermPlaced /\ OutServed /\ PreparedOpens

MeetInv == LinkInv /\ Placed

\* What an open does to the two ends of its FIFO and to the other two.
LEMMA OpenGives ==
    ASSUME fd \in Descriptors, NEW end \in Ends, NEW file, Open(end, file)
    PROVE  /\ \A e \in Ends \ {end, Other(end)} : fd'[e] = fd[e]
           /\ file \notin files => fd'[end] = "failed" /\ fd'[Other(end)] = fd[Other(end)]
           /\ (file \in files /\ fd[Other(end)] \in {"opening", "open"})
                 => fd'[end] = "open" /\ fd'[Other(end)] = "open"
           /\ (file \in files /\ fd[Other(end)] \notin {"opening", "open"})
                 => fd'[end] = "opening" /\ fd'[Other(end)] = fd[Other(end)]
           /\ files' = files /\ queue' = queue
  BY EndsAre DEF Open, Descriptors

LEMMA OpenNonblockGives ==
    ASSUME fd \in Descriptors, NEW file, OpenNonblock("in reader", file)
    PROVE  /\ fd'["out writer"] = fd["out writer"] /\ fd'["out reader"] = fd["out reader"]
           /\ file \notin files =>
                 fd'["in reader"] = "failed" /\ fd'["in writer"] = fd["in writer"]
           /\ file \in files =>
                 /\ fd'["in reader"] = "open"
                 /\ fd'["in writer"] = IF fd["in writer"] = "opening" THEN "open"
                                       ELSE fd["in writer"]
           /\ files' = files /\ queue' = queue
  BY EndsAre DEF OpenNonblock, Descriptors

LEMMA EndedGives ==
    ASSUME fd \in Descriptors, NEW program \in {"emu", "term"}, Ended(program)
    PROVE  /\ program = "emu" => /\ fd'["out writer"] = "closed" /\ fd'["in reader"] = "closed"
                                 /\ fd'["out reader"] = fd["out reader"]
                                 /\ fd'["in writer"] = fd["in writer"]
           /\ program = "term" => /\ fd'["out reader"] = "closed" /\ fd'["in writer"] = "closed"
                                  /\ fd'["out writer"] = fd["out writer"]
                                  /\ fd'["in reader"] = fd["in reader"]
           /\ queue'["out"] \in {queue["out"], 0}
           /\ files' = files /\ prepared' = prepared \ {program}
  BY EndsAre DEF Ended, Close, EndsOf, Descriptors, Files

-----------------------------------------------------------------------------
(* Each step keeps the programs placed.                                    *)

\* Where the same programs are prepared and an end of a FIFO only moves on.
LEMMA EndsKeepPlaced ==
    ASSUME MeetInv, (EmuEnds \/ TermEnds)
    PROVE  Placed'
  <1>0. fd \in Descriptors  BY DEF MeetInv, LinkInv, LinkTypeOK, Descriptors
  <1> USE DEF MeetInv, Placed, Meets, EmuPlaced, TermPlaced, OutServed, PreparedOpens
  <1>1. CASE EmuEnds
    <2>1. Ended("emu") /\ emu' = "off" /\ t1' = t1 /\ t2' = t2  BY <1>1 DEF EmuEnds
    <2>2. /\ fd'["out writer"] = "closed" /\ fd'["in reader"] = "closed"
          /\ fd'["out reader"] = fd["out reader"] /\ fd'["in writer"] = fd["in writer"]
          /\ queue'["out"] \in {queue["out"], 0}
          /\ files' = files /\ prepared' = prepared \ {"emu"}
      BY <1>0, <2>1, EndedGives
    <2>3. Meets("out writer", "out reader")' /\ Meets("in writer", "in reader")'  BY <2>2
    <2>4. EmuPlaced' /\ TermPlaced'  BY <2>1, <2>2
    <2>5. OutServed'  BY <1>0, <2>2
    <2>6. PreparedOpens'  BY <2>1, <2>2
    <2> QED  BY <2>3, <2>4, <2>5, <2>6
  <1>2. CASE TermEnds
    <2>1. Ended("term") /\ t1' = "off" /\ t2' = "off" /\ emu' = emu  BY <1>2 DEF TermEnds
    <2>2. /\ fd'["out reader"] = "closed" /\ fd'["in writer"] = "closed"
          /\ fd'["out writer"] = fd["out writer"] /\ fd'["in reader"] = fd["in reader"]
          /\ queue'["out"] \in {queue["out"], 0}
          /\ files' = files /\ prepared' = prepared \ {"term"}
      BY <1>0, <2>1, EndedGives
    <2>3. Meets("out writer", "out reader")' /\ Meets("in writer", "in reader")'  BY <2>2
    <2>4. EmuPlaced' /\ TermPlaced'  BY <2>1, <2>2
    <2>5. OutServed'  BY <1>0, <2>2
    <2>6. PreparedOpens'  BY <2>1, <2>2
    <2> QED  BY <2>3, <2>4, <2>5, <2>6
  <1> QED  BY <1>1, <1>2

LEMMA StepKeepsPlaced ==
    ASSUME MeetInv, [LinkNext]_lvars
    PROVE  Placed'
  <1>0. fd \in Descriptors /\ queue \in [Files -> 0 .. Capacity] /\ files \subseteq Files
    BY DEF MeetInv, LinkInv, LinkTypeOK, Descriptors
  <1> USE DEF Placed, Meets, EmuPlaced, TermPlaced, OutServed, PreparedOpens
  <1>2. CASE UNCHANGED lvars  BY <1>2, ZenonT(40) DEF MeetInv, lvars, link, history
  <1>3. CASE EmuStart \/ TermStart
    BY <1>3 DEF MeetInv, LinkInv, ReadsLast, EmuStart, TermStart, Start, link
  <1>4. CASE KillEmu \/ KillTerm  BY <1>4, EndsKeepPlaced DEF KillEmu, KillTerm
  <1>5. CASE EmuInit
    <2> USE DEF EmuDoes, history
    <2>1. CASE EmuDoes("mkfifo", "open out") /\ Mkfifo("out")
      BY <1>0, <2>1 DEF Mkfifo, MeetInv, Files
    <2>2. CASE /\ fd["out writer"] = "closed" /\ EmuDoes("open out", "open out")
               /\ Open("out writer", "out")
      <3>1. /\ fd'["in reader"] = fd["in reader"] /\ fd'["in writer"] = fd["in writer"]
            /\ "out" \notin files =>
                  fd'["out writer"] = "failed" /\ fd'["out reader"] = fd["out reader"]
            /\ ("out" \in files /\ fd["out reader"] \in {"opening", "open"})
                  => fd'["out writer"] = "open" /\ fd'["out reader"] = "open"
            /\ ("out" \in files /\ fd["out reader"] \notin {"opening", "open"})
                  => fd'["out writer"] = "opening" /\ fd'["out reader"] = fd["out reader"]
            /\ files' = files /\ queue' = queue
        BY <1>0, <2>2, OpenGives, EndsAre
      <3> QED  BY <2>2, <3>1 DEF MeetInv, Files
    <2>3. CASE /\ fd["out writer"] # "closed" /\ fd["out writer"] # "opening"
               /\ EmuDoes("open out", "open in") /\ UNCHANGED link
      BY <1>0, <2>3, EndsAre DEF link, MeetInv, Descriptors
    <2>4. CASE EmuDoes("open in", "running") /\ OpenNonblock("in reader", "in")
      <3>1. /\ fd'["out writer"] = fd["out writer"] /\ fd'["out reader"] = fd["out reader"]
            /\ "in" \notin files =>
                  fd'["in reader"] = "failed" /\ fd'["in writer"] = fd["in writer"]
            /\ "in" \in files =>
                  /\ fd'["in reader"] = "open"
                  /\ fd'["in writer"] = IF fd["in writer"] = "opening" THEN "open"
                                        ELSE fd["in writer"]
            /\ files' = files /\ queue' = queue
        BY <1>0, <2>4, OpenNonblockGives
      <3> QED  BY <2>4, <3>1 DEF MeetInv, Files
    <2> QED  BY <1>5, <2>1, <2>2, <2>3, <2>4 DEF EmuInit
  <1>6. CASE EmuWrite
    <2>1. CASE /\ fd["out reader"] = "open" /\ Put("out")
               /\ UNCHANGED <<files, fd, emu, t1, t2, stdin, history>>
      BY <1>0, <1>6, <2>1 DEF EmuWrite, Put, MeetInv, history, Files
    <2>2. CASE EmuEnds  BY <2>2, EndsKeepPlaced
    <2> QED  BY <1>6, <2>1, <2>2 DEF EmuWrite
  <1>7. CASE EmuRead
    <2>1. queue'["out"] = queue["out"]  BY <1>0, <1>7 DEF EmuRead, Take, Files
    <2> QED  BY <1>7, <2>1 DEF EmuRead, MeetInv, history
  <1>8. CASE T1Init
    <2> USE DEF T1Does, history
    <2>1. CASE T1Does("mkfifo", "open") /\ Mkfifo("in")
      BY <1>0, <2>1 DEF Mkfifo, MeetInv, Files
    <2>2. CASE fd["in writer"] = "closed" /\ T1Does("open", "open") /\ Open("in writer", "in")
      <3>1. /\ fd'["out reader"] = fd["out reader"] /\ fd'["out writer"] = fd["out writer"]
            /\ "in" \notin files =>
                  fd'["in writer"] = "failed" /\ fd'["in reader"] = fd["in reader"]
            /\ ("in" \in files /\ fd["in reader"] \in {"opening", "open"})
                  => fd'["in writer"] = "open" /\ fd'["in reader"] = "open"
            /\ ("in" \in files /\ fd["in reader"] \notin {"opening", "open"})
                  => fd'["in writer"] = "opening" /\ fd'["in reader"] = fd["in reader"]
            /\ files' = files /\ queue' = queue
        BY <1>0, <2>2, OpenGives, EndsAre
      <3> QED  BY <2>2, <3>1 DEF MeetInv, LinkInv, ReadsLast, Files
    <2>3. CASE fd["in writer"] = "open" /\ T1Does("open", "loop") /\ UNCHANGED link
      BY <2>3 DEF link, MeetInv
    <2> QED  BY <1>8, <2>1, <2>2, <2>3 DEF T1Init
  <1>9. CASE UserTypes \/ T1Resend
    <2>1. CASE TermEnds  BY <2>1, EndsKeepPlaced
    <2>2. CASE Put("in") /\ UNCHANGED <<files, fd, emu, t1, t2, history>>
      <3>1. queue'["out"] = queue["out"]  BY <1>0, <2>2 DEF Put, Files
      <3> QED  BY <2>2, <3>1, ZenonT(40) DEF MeetInv, history
    <2> QED  BY <1>9, <2>1, <2>2 DEF UserTypes, T1Resend, T1Write
  <1>10. CASE UserEof  BY <1>10, ZenonT(40) DEF UserEof, MeetInv, link, history
  <1>11. CASE T2Init
    <2> USE DEF T2Does, history
    <2>1. CASE fd["out reader"] = "closed" /\ T2Does("open", "open") /\ Open("out reader", "out")
      <3>1. /\ fd'["in reader"] = fd["in reader"] /\ fd'["in writer"] = fd["in writer"]
            /\ "out" \notin files =>
                  fd'["out reader"] = "failed" /\ fd'["out writer"] = fd["out writer"]
            /\ ("out" \in files /\ fd["out writer"] \in {"opening", "open"})
                  => fd'["out reader"] = "open" /\ fd'["out writer"] = "open"
            /\ ("out" \in files /\ fd["out writer"] \notin {"opening", "open"})
                  => fd'["out reader"] = "opening" /\ fd'["out writer"] = fd["out writer"]
            /\ files' = files /\ queue' = queue
        BY <1>0, <2>1, OpenGives, EndsAre
      <3>3. Meets("out writer", "out reader")' /\ Meets("in writer", "in reader")'
        BY <2>1, <3>1 DEF MeetInv
      <3>4. EmuPlaced' /\ TermPlaced'  BY <2>1, <3>1 DEF MeetInv
      <3>5. OutServed'  BY <2>1, <3>1 DEF MeetInv
      <3>6. PreparedOpens'  BY <2>1, <3>1 DEF MeetInv, Files
      <3> QED  BY <3>3, <3>4, <3>5, <3>6
    <2>2. CASE fd["out reader"] \in {"open", "failed"} /\ T2Does("open", "loop") /\ UNCHANGED link
      BY <2>2 DEF link, MeetInv
    <2> QED  BY <1>11, <2>1, <2>2 DEF T2Init
  <1>12. CASE T2Read
    <2>0. queue["out"] \in Int  BY <1>0, LinkConstants DEF Files
    <2>1. queue["out"] # 0
      <3>1. queue["out"] > 0  BY <1>12, Zenon DEF T2Read, Take
      <3> QED  BY <2>0, <3>1
    <2>2. UNCHANGED <<files, fd, emu, t1, t2, prepared>> /\ fd["out reader"] = "open"
      BY <1>12 DEF T2Read, T2Does, history
    <2> QED  BY <2>1, <2>2 DEF MeetInv
  <1> QED
    BY <1>2, <1>3, <1>4, <1>5, <1>6, <1>7, <1>8, <1>9, <1>10, <1>11, <1>12
    DEF LinkNext, User

LEMMA AlwaysPlaced == LinkInit /\ [][LinkNext]_lvars => []MeetInv
  <1>1. LinkInit => Placed
    <2> SUFFICES ASSUME LinkInit PROVE Placed  OBVIOUS
    <2>1. \A e \in Ends : fd[e] = "closed"  BY DEF LinkInit
    <2>2. queue["out"] = 0  BY DEF LinkInit, Files
    <2>3. /\ emu = "off" /\ t1 = "off" /\ t2 = "off" /\ prepared = {}  BY DEF LinkInit
    <2> QED
      BY <2>1, <2>2, <2>3, EndsAre
      DEF Placed, Meets, EmuPlaced, TermPlaced, OutServed, PreparedOpens
  <1>2. LinkInit => MeetInv  BY <1>1, InitConnects DEF MeetInv
  <1>3. MeetInv /\ [LinkNext]_lvars => MeetInv'
    BY StepKeeps, StepKeepsPlaced DEF MeetInv
  <1> QED  BY <1>2, <1>3, PTL

-----------------------------------------------------------------------------
(* Liveness.  The prover does not know when an action is enabled, so the   *)
(* theorems have as a hypothesis that each of the terminal's and the       *)
(* emulator's threads can go on where its guard holds, which is what       *)
(* these actions ask of the state before them: every other conjunct gives  *)
(* a variable its next value, and one of them changes.                     *)

EmuCanInit == \/ emu \in {"mkfifo", "open in"}
              \/ emu = "open out" /\ fd["out writer"] # "opening"
T1CanInit == t1 = "mkfifo" \/ (t1 = "open" /\ fd["in writer"] \in {"closed", "open"})
T2CanInit == t2 = "open" /\ fd["out reader"] # "opening"
T2CanRead == t2 = "loop" /\ fd["out reader"] = "open" /\ queue["out"] > 0

GuardsEnable == /\ EmuCanInit => ENABLED <<EmuInit>>_lvars
                /\ T1CanInit => ENABLED <<T1Init>>_lvars
                /\ T2CanInit => ENABLED <<T2Init>>_lvars
                /\ T2CanRead => ENABLED <<T2Read>>_lvars

FairLink == LinkSpec /\ []GuardsEnable

-----------------------------------------------------------------------------
(* The screen.                                                             *)

Full == queue["out"] = Capacity /\ t2 = "loop"
Drained == queue["out"] < Capacity \/ ~BothOn

LEMMA FullDrains ==
    ASSUME MeetInv, Full, [LinkNext]_lvars
    PROVE  Full' \/ Drained'
  <1>0. queue \in [Files -> 0 .. Capacity] /\ "out" \in Files
    BY DEF MeetInv, LinkInv, LinkTypeOK, Files
  <1>1. CASE EmuEnds \/ TermEnds  BY <1>1 DEF EmuEnds, TermEnds, Drained, BothOn
  <1>2. CASE t2' = t2 /\ queue'["out"] = queue["out"]  BY <1>2 DEF Full
  <1>3. CASE T2Read
    <2>1. queue'["out"] = Capacity - 1  BY <1>0, <1>3 DEF T2Read, Take, Full
    <2> QED  BY <2>1, LinkConstants DEF Drained
  <1>4. CASE EmuWrite /\ ~EmuEnds
    <2>1. queue["out"] < Capacity  BY <1>4, Zenon DEF EmuWrite, Put
    <2> QED  BY <2>1, LinkConstants DEF Full
  <1>5. \/ EmuEnds \/ TermEnds \/ T2Read \/ (EmuWrite /\ ~EmuEnds)
        \/ (t2' = t2 /\ queue'["out"] = queue["out"])
    <2>1. CASE UNCHANGED lvars  BY <2>1 DEF lvars, link
    <2>2. CASE EmuStart \/ TermStart \/ KillEmu \/ KillTerm \/ UserEof
      <3>1. t1 # "off"  BY DEF MeetInv, Placed, TermPlaced, Full
      <3> QED
        BY <2>2, <3>1 DEF EmuStart, TermStart, KillEmu, KillTerm, UserEof, Start, link
    <2>3. CASE EmuInit
      BY <2>3 DEF EmuInit, EmuDoes, Mkfifo, Open, OpenNonblock, link
    <2>4. CASE T1Init  BY <2>4 DEF T1Init, T1Does, Mkfifo, Open, link
    <2>5. CASE T2Init  BY <2>5 DEF T2Init, T2Does, Full
    <2>6. CASE EmuRead  BY <1>0, <2>6 DEF EmuRead, Take, Files
    <2>7. CASE UserTypes \/ T1Resend
      BY <1>0, <2>7 DEF UserTypes, T1Resend, T1Write, Put, Files
    <2>8. CASE EmuWrite \/ T2Read  BY <2>8
    <2> QED
      BY <2>1, <2>2, <2>3, <2>4, <2>5, <2>6, <2>7, <2>8 DEF LinkNext, User
  <1> QED  BY <1>1, <1>2, <1>3, <1>4, <1>5

\* What the guest printed reaches the screen, whatever the terminal's other thread
\* waits for and for every capacity of the FIFOs: the reader has its end open
\* whenever the FIFO holds something, so that nothing but its own read is in the way
\* (mayfly_serial.c:28-42).
THEOREM ScreenIsLive == LinkSpec /\ []GuardsEnable => ScreenLives
  <1> USE DEF FairLink, LinkSpec, GuardsEnable
  <1>1. MeetInv /\ Full => T2CanRead
    <2> SUFFICES ASSUME MeetInv, Full PROVE T2CanRead  OBVIOUS
    <2>1. queue["out"] > 0 /\ queue["out"] # 0 /\ t2 = "loop"  BY LinkConstants DEF Full
    <2>2. fd["out reader"] = "open"
      BY <2>1 DEF MeetInv, Placed, TermPlaced, OutServed
    <2> QED  BY <2>1, <2>2 DEF T2CanRead
  <1>2. MeetInv /\ Full /\ [LinkNext]_lvars => Full' \/ Drained'  BY FullDrains
  <1>3. MeetInv /\ Full /\ <<T2Read>>_lvars => Drained'
    <2> SUFFICES ASSUME MeetInv, Full, T2Read PROVE Drained'  OBVIOUS
    <2>1. queue \in [Files -> 0 .. Capacity] /\ "out" \in Files
      BY DEF MeetInv, LinkInv, LinkTypeOK, Files
    <2>2. queue'["out"] = Capacity - 1  BY <2>1 DEF T2Read, Take, Full
    <2> QED  BY <2>2, LinkConstants DEF Drained
  <1>4. FairLink => (Full ~> Drained)
    BY <1>1, <1>2, <1>3, AlwaysPlaced, PTL
  <1> QED  BY <1>4, PTL DEF ScreenLives, Full, Drained

-----------------------------------------------------------------------------
(* The two programs.  The stages of the three threads, which are entered   *)
(* one after another and never left while both programs run.               *)

Started == BothOn /\ prepared = {"emu", "term"}

EmuMade == emu \in {"open out", "open in", "running"}
WriterCame == fd["out writer"] # "closed"
ReaderCame == fd["out reader"] # "closed"
OutLinked == fd["out writer"] = "open" /\ fd["out reader"] = "open"
EmuGoesIn == emu \in {"open in", "running"}
EmuRuns == emu = "running"
TermMade == t1 \in {"open", "loop"}
TyperCame == fd["in writer"] # "closed"

\* The descriptors only move on while no program ends.
Onward == \A e \in Ends : /\ fd[e] # "closed" => fd'[e] # "closed"
                          /\ fd[e] = "open" => fd'[e] = "open"

LEMMA OpenOnward ==
    ASSUME fd \in Descriptors, NEW end \in Ends, NEW file, fd[end] = "closed", Open(end, file)
    PROVE  Onward
  <1> SUFFICES ASSUME NEW e \in Ends
               PROVE  /\ fd[e] # "closed" => fd'[e] # "closed"
                      /\ fd[e] = "open" => fd'[e] = "open"
    BY DEF Onward
  <1>1. CASE e = end  BY <1>1
  <1>2. CASE e = Other(end) /\ e # end
    <2>1. fd'[e] \in {fd[e], "open"}  BY <1>2, OpenGives
    <2> QED  BY <2>1
  <1>3. CASE e \notin {end, Other(end)}  BY <1>3, OpenGives
  <1> QED  BY <1>1, <1>2, <1>3

LEMMA GoOn ==
    ASSUME MeetInv, Started, [LinkNext]_lvars, BothOn'
    PROVE  /\ Onward /\ prepared' = prepared
           /\ (EmuMade => EmuMade') /\ (EmuGoesIn => EmuGoesIn') /\ (EmuRuns => EmuRuns')
           /\ TermMade => TermMade'
  <1>0. fd \in Descriptors  BY DEF MeetInv, LinkInv, LinkTypeOK, Descriptors
  <1> USE DEF EmuMade, EmuGoesIn, EmuRuns, TermMade
  <1>1. ~EmuEnds /\ ~TermEnds  BY DEF EmuEnds, TermEnds, BothOn
  <1>2. CASE UNCHANGED lvars  BY <1>2 DEF lvars, link, history, Onward
  <1>3. CASE EmuStart \/ TermStart \/ KillEmu \/ KillTerm
    BY <1>1, <1>3 DEF EmuStart, TermStart, KillEmu, KillTerm, Started, BothOn
  <1>4. CASE EmuInit
    <2> USE DEF EmuDoes, history
    <2>1. CASE EmuDoes("mkfifo", "open out") /\ Mkfifo("out")  BY <2>1 DEF Mkfifo, Onward
    <2>2. CASE /\ fd["out writer"] = "closed" /\ EmuDoes("open out", "open out")
               /\ Open("out writer", "out")
      <3>1. Onward  BY <1>0, <2>2, OpenOnward, EndsAre
      <3> QED  BY <2>2, <3>1
    <2>3. CASE EmuDoes("open out", "open in") /\ UNCHANGED link  BY <2>3 DEF link, Onward
    <2>4. CASE EmuDoes("open in", "running") /\ OpenNonblock("in reader", "in")
      <3>1. fd["in reader"] = "closed"  BY <2>4 DEF MeetInv, LinkInv, ReadsLast
      <3>2. Onward  BY <1>0, <2>4, <3>1, OpenNonblockGives, EndsAre DEF Onward
      <3> QED  BY <2>4, <3>2
    <2> QED  BY <1>4, <2>1, <2>2, <2>3, <2>4 DEF EmuInit
  <1>5. CASE T1Init
    <2> USE DEF T1Does, history
    <2>1. CASE T1Does("mkfifo", "open") /\ Mkfifo("in")  BY <2>1 DEF Mkfifo, Onward
    <2>2. CASE fd["in writer"] = "closed" /\ T1Does("open", "open") /\ Open("in writer", "in")
      <3>1. Onward  BY <1>0, <2>2, OpenOnward, EndsAre
      <3> QED  BY <2>2, <3>1
    <2>3. CASE T1Does("open", "loop") /\ UNCHANGED link  BY <2>3 DEF link, Onward
    <2> QED  BY <1>5, <2>1, <2>2, <2>3 DEF T1Init
  <1>6. CASE T2Init
    <2> USE DEF T2Does, history
    <2>1. CASE fd["out reader"] = "closed" /\ T2Does("open", "open") /\ Open("out reader", "out")
      <3>1. Onward  BY <1>0, <2>1, OpenOnward, EndsAre
      <3> QED  BY <2>1, <3>1
    <2>2. CASE T2Does("open", "loop") /\ UNCHANGED link  BY <2>2 DEF link, Onward
    <2> QED  BY <1>6, <2>1, <2>2 DEF T2Init
  <1>7. CASE EmuWrite \/ EmuRead \/ UserTypes \/ T1Resend \/ UserEof \/ T2Read
    <2>1. UNCHANGED <<fd, emu, t1, prepared>>
      BY <1>1, <1>7 DEF EmuWrite, EmuRead, UserTypes, T1Resend, T1Write, UserEof,
                        T2Read, T2Does, link, history
    <2> QED  BY <2>1 DEF Onward
  <1> QED  BY <1>2, <1>3, <1>4, <1>5, <1>6, <1>7 DEF LinkNext, User

LEMMA StagesLast ==
    ASSUME MeetInv, Started, [LinkNext]_lvars
    PROVE  \/ ~BothOn'
           \/ /\ Started'
              /\ (EmuMade => EmuMade') /\ (WriterCame => WriterCame')
              /\ (ReaderCame => ReaderCame') /\ (OutLinked => OutLinked')
              /\ (EmuGoesIn => EmuGoesIn') /\ (EmuRuns => EmuRuns')
              /\ (TermMade => TermMade') /\ (TyperCame => TyperCame')
  <1> SUFFICES ASSUME BothOn' PROVE /\ Started' /\ (EmuMade => EmuMade')
              /\ (WriterCame => WriterCame')
              /\ (ReaderCame => ReaderCame') /\ (OutLinked => OutLinked')
              /\ (EmuGoesIn => EmuGoesIn') /\ (EmuRuns => EmuRuns')
              /\ (TermMade => TermMade') /\ (TyperCame => TyperCame')
    OBVIOUS
  <1>1. /\ Onward /\ prepared' = prepared
        /\ (EmuMade => EmuMade') /\ (EmuGoesIn => EmuGoesIn') /\ (EmuRuns => EmuRuns')
        /\ (TermMade => TermMade')
    BY GoOn
  <1>2. Started'  BY <1>1 DEF Started
  <1>3. /\ (WriterCame => WriterCame') /\ (ReaderCame => ReaderCame')
        /\ (OutLinked => OutLinked') /\ (TyperCame => TyperCame')
    BY <1>1, EndsAre DEF Onward, WriterCame, ReaderCame, OutLinked, TyperCame
  <1> QED  BY <1>1, <1>2, <1>3

\* No thread waits for one that waits: each stage that is not reached is the guard
\* of its own thread, except where one end of a FIFO waits for the other end to come.
LEMMA NoCircle ==
    ASSUME MeetInv, Started
    PROVE  /\ ~EmuMade \/ ~WriterCame => EmuCanInit
           /\ OutLinked /\ ~EmuRuns => EmuCanInit
           /\ ~ReaderCame => T2CanInit
           /\ ~TermMade \/ ~TyperCame => T1CanInit
           /\ WriterCame /\ ReaderCame => OutLinked
           /\ EmuRuns /\ OutLinked /\ TyperCame => Linked
  <1>0. /\ \A e \in Ends : fd[e] \in {"closed", "opening", "open", "failed"}
        /\ emu \in {"off", "mkfifo", "open out", "open in", "running"}
        /\ t1 \in {"off", "mkfifo", "open", "loop"} /\ t2 \in {"off", "open", "loop"}
    BY DEF MeetInv, LinkInv, LinkTypeOK
  <1>1. /\ fd["out writer"] \in {"closed", "opening", "open"}
        /\ fd["out reader"] \in {"closed", "opening", "open"}
        /\ fd["in writer"] \in {"closed", "opening", "open"}
        /\ fd["in reader"] \in {"closed", "opening", "open"}
    BY <1>0, EndsAre DEF MeetInv, Placed, PreparedOpens, Started
  <1>2. emu # "off" /\ t1 # "off" /\ t2 # "off"
    BY DEF Started, BothOn, MeetInv, Placed, TermPlaced
  <1>3. /\ emu = "mkfifo" => fd["out writer"] = "closed"
        /\ emu \in {"open in", "running"} => fd["out writer"] = "open"
        /\ emu = "running" => fd["in reader"] = "open"
        /\ t1 = "mkfifo" => fd["in writer"] = "closed"
        /\ t1 = "loop" => fd["in writer"] = "open"
        /\ t2 = "loop" => fd["out reader"] = "open"
    BY <1>1 DEF MeetInv, Placed, EmuPlaced, TermPlaced, LinkInv, WritesOpened
  <1>4. Meets("out writer", "out reader") /\ Meets("in writer", "in reader")
    BY DEF MeetInv, Placed
  <1>5. ~EmuMade \/ ~WriterCame => EmuCanInit
    BY <1>0, <1>1, <1>2, <1>3 DEF EmuMade, WriterCame, EmuCanInit
  <1>6. OutLinked /\ ~EmuRuns => EmuCanInit
    BY <1>0, <1>2 DEF OutLinked, EmuRuns, EmuCanInit
  <1>7. ~ReaderCame => T2CanInit  BY <1>0, <1>2, <1>3 DEF ReaderCame, T2CanInit
  <1>8. ~TermMade \/ ~TyperCame => T1CanInit
    BY <1>0, <1>2, <1>3 DEF TermMade, TyperCame, T1CanInit
  <1>9. WriterCame /\ ReaderCame => OutLinked
    BY <1>1, <1>4 DEF WriterCame, ReaderCame, OutLinked, Meets
  <1>10. EmuRuns /\ OutLinked /\ TyperCame => Linked
    BY <1>1, <1>3, <1>4, EndsAre DEF EmuRuns, OutLinked, TyperCame, Meets, Linked
  <1> QED  BY <1>5, <1>6, <1>7, <1>8, <1>9, <1>10

\* A step of a thread's initialisation takes it to its next stage.
LEMMA EmuAdvances ==
    ASSUME MeetInv, Started, EmuInit
    PROVE  /\ ~EmuMade => EmuMade'
           /\ (EmuMade /\ ~WriterCame) => WriterCame'
           /\ (OutLinked /\ ~EmuGoesIn) => EmuGoesIn'
           /\ (EmuGoesIn /\ ~EmuRuns) => EmuRuns'
  <1>0. fd \in Descriptors  BY DEF MeetInv, LinkInv, LinkTypeOK, Descriptors
  <1> USE DEF EmuMade, WriterCame, OutLinked, EmuGoesIn, EmuRuns, EmuDoes
  <1>1. CASE EmuDoes("mkfifo", "open out")
    <2>1. fd["out writer"] = "closed"  BY <1>1 DEF MeetInv, Placed, EmuPlaced
    <2> QED  BY <1>1, <2>1
  <1>2. CASE /\ fd["out writer"] = "closed" /\ EmuDoes("open out", "open out")
             /\ Open("out writer", "out")
    <2>1. fd'["out writer"] # "closed"  BY <1>0, <1>2, OpenGives, EndsAre
    <2> QED  BY <1>2, <2>1
  <1>3. CASE /\ fd["out writer"] # "closed" /\ fd["out writer"] # "opening"
             /\ EmuDoes("open out", "open in") /\ UNCHANGED link
    BY <1>3 DEF link
  <1>4. CASE EmuDoes("open in", "running")
    <2>1. fd["out writer"] # "closed"  BY <1>4 DEF MeetInv, Placed, EmuPlaced
    <2> QED  BY <1>4, <2>1
  <1> QED  BY <1>1, <1>2, <1>3, <1>4 DEF EmuInit

LEMMA TermAdvances ==
    ASSUME MeetInv, Started
    PROVE  /\ T1Init /\ ~TermMade => TermMade'
           /\ T1Init /\ TermMade /\ ~TyperCame => TyperCame'
           /\ T2Init /\ ~ReaderCame => ReaderCame'
  <1>0. fd \in Descriptors  BY DEF MeetInv, LinkInv, LinkTypeOK, Descriptors
  <1>1. ASSUME T1Init, ~TermMade PROVE TermMade'
    BY <1>1 DEF T1Init, T1Does, TermMade
  <1>2. ASSUME T1Init, TermMade, ~TyperCame PROVE TyperCame'
    <2>1. Open("in writer", "in")  BY <1>2 DEF T1Init, T1Does, TermMade, TyperCame
    <2> QED  BY <1>0, <2>1, OpenGives, EndsAre DEF TyperCame
  <1>3. ASSUME T2Init, ~ReaderCame PROVE ReaderCame'
    <2>1. Open("out reader", "out")  BY <1>3 DEF T2Init, ReaderCame
    <2> QED  BY <1>0, <2>1, OpenGives, EndsAre DEF ReaderCame
  <1> QED  BY <1>1, <1>2, <1>3

LEMMA OutLinks == FairLink => (Started ~> ((Started /\ OutLinked) \/ ~BothOn))
  <1> USE DEF FairLink, LinkSpec, GuardsEnable
  <1>1. <<EmuInit>>_lvars => EmuInit  OBVIOUS
  <1>2. <<T2Init>>_lvars => T2Init  OBVIOUS
  <1>3. FairLink => (Started ~> ((Started /\ EmuMade) \/ ~BothOn))
    BY <1>1, StagesLast, NoCircle, EmuAdvances, AlwaysPlaced, PTL
  <1>4. FairLink => ((Started /\ EmuMade) ~> ((Started /\ WriterCame) \/ ~BothOn))
    BY <1>1, StagesLast, NoCircle, EmuAdvances, AlwaysPlaced, PTL
  <1>5. FairLink => (Started ~> ((Started /\ ReaderCame) \/ ~BothOn))
    BY <1>2, StagesLast, NoCircle, TermAdvances, AlwaysPlaced, PTL
  <1> QED
    BY <1>3, <1>4, <1>5, StagesLast, NoCircle, AlwaysPlaced, PTL

LEMMA TyperComes == FairLink => (Started ~> ((Started /\ TyperCame) \/ ~BothOn))
  <1> USE DEF FairLink, LinkSpec, GuardsEnable
  <1>1. <<T1Init>>_lvars => T1Init  OBVIOUS
  <1>2. FairLink => (Started ~> ((Started /\ TermMade) \/ ~BothOn))
    BY <1>1, StagesLast, NoCircle, TermAdvances, AlwaysPlaced, PTL
  <1>3. FairLink => ((Started /\ TermMade) ~> ((Started /\ TyperCame) \/ ~BothOn))
    BY <1>1, StagesLast, NoCircle, TermAdvances, AlwaysPlaced, PTL
  <1> QED  BY <1>2, <1>3, PTL

LEMMA EmuComesUp ==
    FairLink => ((Started /\ OutLinked) ~> ((Started /\ OutLinked /\ EmuRuns) \/ ~BothOn))
  <1> USE DEF FairLink, LinkSpec, GuardsEnable
  <1>1. <<EmuInit>>_lvars => EmuInit  OBVIOUS
  <1>0. EmuRuns => EmuGoesIn  BY DEF EmuRuns, EmuGoesIn
  <1>2. FairLink => ((Started /\ OutLinked) ~> ((Started /\ OutLinked /\ EmuGoesIn) \/ ~BothOn))
    BY <1>0, <1>1, StagesLast, NoCircle, EmuAdvances, AlwaysPlaced, PTL
  <1>3. FairLink => ((Started /\ OutLinked /\ EmuGoesIn)
                        ~> ((Started /\ OutLinked /\ EmuRuns) \/ ~BothOn))
    BY <1>1, StagesLast, NoCircle, EmuAdvances, AlwaysPlaced, PTL
  <1> QED  BY <1>2, <1>3, PTL

\* Where both files are there before either program, the two always find each other,
\* in whatever order the three threads come to their opens: no two of them wait for
\* each other, and each open that waits is met (serial.c:116-127, mayfly_serial.c:9-50).
THEOREM LinkComesUp == LinkSpec /\ []GuardsEnable => LinkUp
  <1> USE DEF FairLink, LinkSpec, GuardsEnable
  <1>1. FairLink => (Started ~> ((Started /\ OutLinked /\ EmuRuns /\ TyperCame) \/ ~BothOn))
    BY OutLinks, TyperComes, EmuComesUp, StagesLast, AlwaysPlaced, PTL
  <1>2. MeetInv /\ Started /\ OutLinked /\ EmuRuns /\ TyperCame => Linked  BY NoCircle
  <1>3. FairLink => (Started ~> (Linked \/ ~BothOn))
    BY <1>1, <1>2, AlwaysPlaced, PTL
  <1> QED  BY <1>3, PTL DEF LinkUp, Started
=============================================================================
