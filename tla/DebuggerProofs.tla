--------------------------- MODULE DebuggerProofs ---------------------------
(***************************************************************************)
(* Proofs about the debugger.  The run loop, for any step counts, keys and *)
(* outcomes: its types, that a step command executes what it was asked     *)
(* for, and that the prompt comes back stopped.  While a command runs, the *)
(* instructions executed and those left add up to those asked for          *)
(* (Accounted), and a command without limit never touches the count.  The  *)
(* escape key comes nearer to its reader for as long as the guest runs.    *)
(*                                                                         *)
(* The watchpoints, for a pool of any size: the two lists partition it and *)
(* implement the table the user sees.  The invariant (PoolInv) says that   *)
(* there are two sequences of cells, without a repetition or a common      *)
(* cell, that the links of the pool follow.                                *)
(***************************************************************************)
EXTENDS Monitor, Watchpoint, BasicFacts, SequenceTheorems, FiniteSetTheorems

-----------------------------------------------------------------------------
(* The run loop.                                                           *)

\* left is what remains of a command's instructions.
CountsDown(left) == IF asked = Forever THEN n = Forever
                                       ELSE left \in Nat /\ ran + left = asked

Accounted ==
    /\ phase \in {"run", "poll"} => asked # 0 /\ ~interrupted
    /\ phase = "run"  => state = "RUNNING" /\ CountsDown(n)
    /\ phase = "poll" => state # "STOP" /\ CountsDown(n - 1)

MonitorInv == TypeOK /\ Accounted /\ StepsExact /\ PromptStopped

LEMMA KeyTypes ==
    ASSUME TypeOK
    PROVE  /\ <<>> \in Seq(Keys) /\ Len(<<>>) <= MaxKeys
           /\ keys # <<>> => Tail(keys) \in Seq(Keys) /\ Len(Tail(keys)) <= MaxKeys
           /\ \A k \in Keys : /\ Append(keys, k) \in Seq(Keys)
                              /\ Len(keys) < MaxKeys => Len(Append(keys, k)) <= MaxKeys
  <1>1. keys \in Seq(Keys) /\ Len(keys) <= MaxKeys /\ MaxKeys \in Nat
    BY MonitorConstants DEF TypeOK
  <1>2. <<>> \in Seq(Keys) /\ Len(<<>>) = 0  OBVIOUS
  <1>3. ASSUME keys # <<>>
        PROVE  Tail(keys) \in Seq(Keys) /\ Len(Tail(keys)) = Len(keys) - 1
    BY <1>1, <1>3, HeadTailProperties
  <1>4. \A k \in Keys : Append(keys, k) \in Seq(Keys) /\ Len(Append(keys, k)) = Len(keys) + 1
    BY <1>1, AppendProperties
  <1>5. Len(keys) \in Nat  BY <1>1, LenProperties
  <1> QED  BY <1>1, <1>2, <1>3, <1>4, <1>5

-----------------------------------------------------------------------------
(* The prompt.                                                             *)

LEMMA CpuExecKeeps ==
    ASSUME MonitorInv, phase = "prompt", NEW s \in States, NEW count \in Nat \cup {Forever},
           count # 0, s = state \/ s = "RUNNING", CpuExec(s, count)
    PROVE  MonitorInv'
  <1> USE DEF MonitorInv, TypeOK, Accounted, StepsExact, PromptStopped, CountsDown, States, Ended, Forever
  <1>1. CASE s \in Ended  BY <1>1 DEF CpuExec
  <1>2. CASE s \notin Ended
    <2>1. /\ state' = "RUNNING" /\ phase' = "run" /\ n' = count /\ asked' = count /\ ran' = 0
          /\ interrupted' = FALSE /\ UNCHANGED <<halt_pc, pc, keys, over>>
      BY <1>2 DEF CpuExec
    <2>2. CountsDown(n)' /\ (asked' # Forever => ran' <= asked')  BY <2>1
    <2> QED  BY <2>1, <2>2
  <1> QED  BY <1>1, <1>2

LEMMA PromptKeeps == ASSUME MonitorInv, Prompt PROVE MonitorInv'
  <1>1. phase = "prompt" /\ state \in States  BY DEF Prompt, Continue, StepOne, StepMany, Examine,
                                Malformed, Quit, Command, MonitorInv, TypeOK
  <1>2. CASE Continue
    BY <1>1, <1>2, CpuExecKeeps DEF Continue, Forever
  <1>3. CASE StepOne
    BY <1>1, <1>3, CpuExecKeeps DEF StepOne
  <1>4. CASE StepMany
    <2>1. PICK count \in StepArgs : CpuExec("RUNNING", count)  BY <1>4 DEF StepMany
    <2>2. count \in Nat \cup {Forever} /\ count # 0  BY MonitorConstants
    <2>3. "RUNNING" \in States  BY DEF States
    <2> QED  BY <1>1, <2>1, <2>2, <2>3, CpuExecKeeps
  <1>5. CASE Examine
    BY <1>1, <1>5 DEF Examine, MonitorInv, TypeOK, Accounted, StepsExact, PromptStopped,
                      CountsDown, States, history
  <1>6. CASE Malformed \/ Quit
    BY <1>1, <1>6 DEF Malformed, Quit, MonitorInv, TypeOK, Accounted, StepsExact, PromptStopped,
                      CountsDown, history
  <1> QED  BY <1>2, <1>3, <1>4, <1>5, <1>6 DEF Prompt

-----------------------------------------------------------------------------
(* The run loop.                                                           *)

LEMMA OutOfStepsKeeps == ASSUME MonitorInv, OutOfSteps PROVE MonitorInv'
  <1>1. state = "RUNNING" /\ asked # Forever /\ ran = asked /\ asked # 0 /\ phase = "run"
    BY DEF OutOfSteps, MonitorInv, TypeOK, Accounted, CountsDown, Forever
  <1>2. state' = "STOP" /\ phase' = "prompt" /\ keys' = <<>>
    BY <1>1 DEF OutOfSteps, Return
  <1> QED
    BY <1>1, <1>2, KeyTypes
    DEF OutOfSteps, MonitorInv, TypeOK, Accounted, StepsExact, PromptStopped, States, history

LEMMA InstructionKeeps == ASSUME MonitorInv, Instruction PROVE MonitorInv'
  <1>1. PICK outcome \in Outcomes : ExecuteOne(outcome)  BY DEF Instruction
  <1>2. /\ phase = "run" /\ phase' = "poll" /\ n # 0
        /\ UNCHANGED <<n, keys, asked, interrupted>>
        /\ ran' = IF asked = Forever THEN ran ELSE ran + 1
    BY <1>1 DEF ExecuteOne
  <1>3. state' \in {"RUNNING", "END", "ABORT"}
    BY <1>1, <1>2 DEF ExecuteOne, MonitorInv, Accounted
  <1>4. TypeOK'
    BY <1>1, <1>2, <1>3 DEF ExecuteOne, MonitorInv, TypeOK, States
  <1>5. CountsDown(n - 1)'
    BY <1>2 DEF MonitorInv, TypeOK, Accounted, CountsDown, Forever
  <1>6. asked # Forever => ran' <= asked
    BY <1>2 DEF MonitorInv, TypeOK, Accounted, CountsDown, Forever
  <1> QED
    BY <1>2, <1>3, <1>4, <1>5, <1>6 DEF MonitorInv, Accounted, StepsExact, PromptStopped

LEMMA PollKeeps == ASSUME MonitorInv, Poll PROVE MonitorInv'
  <1>1. phase = "poll" /\ state \in {"RUNNING", "END", "ABORT"} /\ asked # 0 /\ ~interrupted
    BY DEF Poll, MonitorInv, TypeOK, Accounted, States
  <1>2. n' \in Nat \cup {Forever} /\ CountsDown(n - 1) /\ UNCHANGED <<halt_pc, pc, over, asked, ran>>
    BY <1>1 DEF Poll, MonitorInv, TypeOK, Accounted, CountsDown, Forever
  <1>3. asked # Forever => ran <= asked  BY DEF MonitorInv, StepsExact
  <1>4. CASE Return("STOP") /\ interrupted' = TRUE
    <2>1. state' = "STOP" /\ phase' = "prompt" /\ keys' = <<>>  BY <1>4 DEF Return
    <2> QED
      BY <1>2, <1>3, <1>4, <2>1, KeyTypes
      DEF MonitorInv, TypeOK, Accounted, StepsExact, PromptStopped, States
  <1>5. CASE state # "RUNNING" /\ Return(state) /\ UNCHANGED interrupted
    <2>1. state' = state /\ phase' = "prompt" /\ keys' = <<>>  BY <1>5 DEF Return
    <2> QED
      BY <1>1, <1>2, <1>3, <1>5, <2>1, KeyTypes
      DEF MonitorInv, TypeOK, Accounted, StepsExact, PromptStopped, States
  <1>6. CASE /\ state = "RUNNING" /\ phase' = "run" /\ UNCHANGED <<state, interrupted>>
             /\ keys' = IF keys = <<>> THEN keys ELSE Tail(keys)
    <2>1. keys' \in Seq(Keys) /\ Len(keys') <= MaxKeys
      BY <1>6, KeyTypes DEF MonitorInv, TypeOK
    <2>2. CountsDown(n)'
      BY <1>1, <1>2 DEF Poll, MonitorInv, TypeOK, CountsDown, Forever
    <2>3. TypeOK'  BY <1>2, <1>6, <2>1 DEF MonitorInv, TypeOK
    <2> QED
      BY <1>1, <1>2, <1>3, <1>6, <2>2, <2>3 DEF MonitorInv, Accounted, StepsExact, PromptStopped
  <1> QED  BY <1>4, <1>5, <1>6 DEF Poll

LEMMA StepKeeps == ASSUME MonitorInv, [Next]_mvars PROVE MonitorInv'
  <1>1. CASE UNCHANGED mvars
    BY <1>1 DEF MonitorInv, TypeOK, Accounted, StepsExact, PromptStopped, CountsDown, mvars, history
  <1>2. CASE PressKey
    <2>1. keys' \in Seq(Keys) /\ Len(keys') <= MaxKeys
      BY <1>2, KeyTypes DEF PressKey, MonitorInv
    <2> QED
      BY <1>2, <2>1 DEF PressKey, MonitorInv, TypeOK, Accounted, StepsExact, PromptStopped,
                        CountsDown, history
  <1> QED
    BY <1>1, <1>2, PromptKeeps, OutOfStepsKeeps, InstructionKeeps, PollKeeps
    DEF Next, Run, Exited

LEMMA AlwaysAccounted == Spec => []MonitorInv
  <1>1. Init => MonitorInv
    <2> SUFFICES ASSUME Init PROVE MonitorInv  OBVIOUS
    <2>1. keys \in Seq(Keys) /\ Len(keys) <= MaxKeys
      <3>1. keys = <<>> /\ MaxKeys \in Nat  BY MonitorConstants DEF Init
      <3>2. <<>> \in Seq(Keys) /\ Len(<<>>) = 0  OBVIOUS
      <3> QED  BY <3>1, <3>2
    <2>2. /\ over = FALSE /\ interrupted = FALSE /\ asked = 0 /\ ran = 0 /\ n = 0
          /\ phase = "prompt" /\ state = "RUNNING"
      BY DEF Init
    <2>3. {over, interrupted} \subseteq BOOLEAN  BY <2>2
    <2>4. TypeOK  BY <2>1, <2>2, <2>3 DEF Init, TypeOK, States
    <2> QED  BY <2>2, <2>4 DEF MonitorInv, Accounted, StepsExact, PromptStopped
  <1> QED  BY <1>1, StepKeeps, PTL DEF Spec

-----------------------------------------------------------------------------
\* What the monitor keeps has its shape, and no more keys wait than fit
\* (cpu-exec.c:43-129, sdb.c:26-274).
THEOREM MonitorTypeCorrect == Spec => []TypeOK
  BY AlwaysAccounted, PTL DEF MonitorInv

\* A command to step executes exactly what it was asked for, and "c" goes on until a key
\* or the guest ends it, for every count and every mixture of keys and outcomes
\* (sdb.c:26-52, cpu-exec.c:90-108).
THEOREM StepsAreExact == Spec => []StepsExact
  BY AlwaysAccounted, PTL DEF MonitorInv

\* The prompt comes back stopped however the command ended (cpu-exec.c:117-128).
THEOREM PromptIsStopped == Spec => []PromptStopped
  BY AlwaysAccounted, PTL DEF MonitorInv

-----------------------------------------------------------------------------
(* The escape key.                                                         *)

\* The escape key waits behind k - 1 others; whether the guest has yet to execute or
\* the key to be read.
EscapeAt(k) == k \in 1 .. Len(keys) /\ keys[k] = "esc"
BeforeRun(k) == EscapeAt(k) /\ phase = "run"
BeforePoll(k) == EscapeAt(k) /\ phase = "poll"
Nearer(k) == (k > 1 /\ EscapeAt(k - 1)) \/ phase = "prompt"

\* While a command runs, the run loop can go on.
RunGoesOn == phase \in {"run", "poll"} => ENABLED <<Run>>_mvars

\* Keys wait only while a command runs: the prompt takes the rest.
KeysWait == keys # <<>> => phase \in {"run", "poll"}

LEMMA AlwaysKeysWait == Spec => [](MonitorInv /\ KeysWait)
  <1>1. Init => KeysWait  BY DEF Init, KeysWait
  <1>2. ASSUME MonitorInv, KeysWait, [Next]_mvars PROVE KeysWait'
    <2> USE <1>2 DEF KeysWait
    <2>1. CASE UNCHANGED mvars  BY <2>1 DEF mvars
    <2>2. CASE Prompt
      BY <2>2 DEF Prompt, Continue, StepOne, StepMany, Examine, Malformed, Quit, Command, CpuExec
    <2>3. CASE OutOfSteps  BY <2>3 DEF OutOfSteps, Return
    <2>4. CASE Instruction  BY <2>4 DEF Instruction, ExecuteOne
    <2>5. CASE Poll  BY <2>5 DEF Poll, Return
    <2>6. CASE PressKey  BY <2>6 DEF PressKey
    <2> QED  BY <1>2, <2>1, <2>2, <2>3, <2>4, <2>5, <2>6 DEF Next, Run, Exited
  <1> QED  BY <1>1, <1>2, AlwaysAccounted, PTL DEF Spec

\* What a step of the run loop does to the waiting key, and that no other step moves it.
LEMMA EscapeMoves ==
    ASSUME MonitorInv, KeysWait, NEW k \in Nat \ {0}
    PROVE  /\ EscapeAt(k) => BeforeRun(k) \/ BeforePoll(k)
           /\ BeforeRun(k) /\ Run => BeforePoll(k)' \/ Nearer(k)'
           /\ BeforePoll(k) /\ Run => Nearer(k)'
           /\ EscapeAt(k) /\ [Next]_mvars /\ ~Run => EscapeAt(k)' /\ phase' = phase
  <1>0. keys \in Seq(Keys) /\ Len(keys) \in Nat  BY DEF MonitorInv, TypeOK
  <1>1. EscapeAt(k) => BeforeRun(k) \/ BeforePoll(k)
    BY <1>0 DEF EscapeAt, BeforeRun, BeforePoll, KeysWait
  <1>2. ASSUME BeforeRun(k), Run PROVE BeforePoll(k)' \/ Nearer(k)'
    <2>1. CASE OutOfSteps  BY <2>1 DEF OutOfSteps, Return, Nearer
    <2>2. CASE Instruction
      <3>1. keys' = keys /\ phase' = "poll"  BY <2>2 DEF Instruction, ExecuteOne
      <3> QED  BY <1>2, <3>1 DEF BeforeRun, BeforePoll, EscapeAt
    <2> QED  BY <1>2, <2>1, <2>2 DEF Run, Poll, BeforeRun
  <1>3. ASSUME BeforePoll(k), Run PROVE Nearer(k)'
    <2>1. Poll /\ keys # <<>>
      BY <1>0, <1>3 DEF Run, OutOfSteps, Instruction, ExecuteOne, BeforePoll, EscapeAt
    <2>2. CASE phase' = "prompt"  BY <2>2 DEF Nearer
    <2>3. CASE NotEscape(Head(keys)) /\ keys' = Tail(keys)
      <3>1. Head(keys) = keys[1]  BY <1>0, <2>1
      <3>2. k # 1  BY <1>3, <2>3, <3>1 DEF BeforePoll, EscapeAt, NotEscape
      <3>3. k - 1 \in 1 .. Len(Tail(keys)) /\ Tail(keys)[k - 1] = keys[k]
        BY <1>0, <1>3, <2>1, <3>2, HeadTailProperties DEF BeforePoll, EscapeAt
      <3> QED  BY <1>3, <2>3, <3>2, <3>3 DEF Nearer, BeforePoll, EscapeAt
    <2> QED  BY <2>1, <2>2, <2>3 DEF Poll, Return
  <1>4. ASSUME EscapeAt(k), [Next]_mvars, ~Run PROVE EscapeAt(k)' /\ phase' = phase
    <2>1. CASE UNCHANGED mvars  BY <1>4, <2>1 DEF mvars, EscapeAt
    <2>2. CASE PressKey
      <3>1. PICK key \in Keys : keys' = Append(keys, key)  BY <2>2 DEF PressKey
      <3>2. k \in 1 .. Len(keys') /\ keys'[k] = keys[k]
        BY <1>0, <1>4, <3>1, AppendProperties DEF EscapeAt
      <3> QED  BY <1>4, <2>2, <3>2 DEF EscapeAt, PressKey
    <2>3. phase \in {"run", "poll"}  BY <1>1, <1>4 DEF BeforeRun, BeforePoll
    <2>4. ~Prompt /\ ~Exited
      BY <2>3 DEF Prompt, Continue, StepOne, StepMany, Examine, Malformed, Quit, Command, Exited
    <2> QED  BY <1>4, <2>1, <2>2, <2>4 DEF Next
  <1> QED  BY <1>1, <1>2, <1>3, <1>4

\* A guest cannot run past the escape key: behind any number of other keys it comes
\* one nearer, or the prompt comes back, and the first key to be read gives the prompt
\* (cpu-exec.c:43-53, 71-80).
THEOREM EscapeComesNearer ==
    ASSUME NEW k \in Nat \ {0}
    PROVE  Spec /\ []RunGoesOn => (EscapeAt(k) ~> Nearer(k))
  <1>1. MonitorInv /\ KeysWait /\ EscapeAt(k) => BeforeRun(k) \/ BeforePoll(k)
    BY EscapeMoves
  <1>2. MonitorInv /\ KeysWait /\ BeforeRun(k) /\ [Next]_mvars
           => BeforeRun(k)' \/ BeforePoll(k)' \/ Nearer(k)'
    <2>1. BeforeRun(k) => EscapeAt(k) /\ phase = "run"  BY DEF BeforeRun
    <2>2. EscapeAt(k)' /\ phase' = "run" => BeforeRun(k)'  BY DEF BeforeRun
    <2> QED  BY <2>1, <2>2, EscapeMoves
  <1>3. MonitorInv /\ KeysWait /\ BeforePoll(k) /\ [Next]_mvars => BeforePoll(k)' \/ Nearer(k)'
    <2>1. BeforePoll(k) => EscapeAt(k) /\ phase = "poll"  BY DEF BeforePoll
    <2>2. EscapeAt(k)' /\ phase' = "poll" => BeforePoll(k)'  BY DEF BeforePoll
    <2> QED  BY <2>1, <2>2, EscapeMoves
  <1>4. MonitorInv /\ KeysWait /\ BeforeRun(k) /\ <<Run>>_mvars => BeforePoll(k)' \/ Nearer(k)'
    BY EscapeMoves
  <1>5. MonitorInv /\ KeysWait /\ BeforePoll(k) /\ <<Run>>_mvars => Nearer(k)'
    BY EscapeMoves
  <1>6. BeforeRun(k) \/ BeforePoll(k) => phase \in {"run", "poll"}  BY DEF BeforeRun, BeforePoll
  <1> QED
    BY <1>1, <1>2, <1>3, <1>4, <1>5, <1>6, AlwaysKeysWait, PTL DEF Spec, RunGoesOn

-----------------------------------------------------------------------------
(* The lists of the pool.                                                  *)

\* The m cells of s, which is closed by NULL, are the list that begins at p when the
\* links are nx.
Chain(s, m, nx, p) ==
    /\ s \in [1 .. m + 1 -> Slots \cup {NULL}] /\ s[1] = p /\ s[m + 1] = NULL
    /\ \A k \in 1 .. m : s[k] \in Slots /\ nx[s[k]] = s[k + 1]
    /\ \A j, k \in 1 .. m : s[j] = s[k] => j = k

LEMMA SlotFacts == NR_WP \in Nat \ {0} /\ NULL \notin Slots /\ Slots \subseteq Int
  BY WatchpointConstants DEF Slots, NULL

\* A list without repetitions is not longer than the pool.
LEMMA ChainFits ==
    ASSUME NEW s, NEW m \in Nat, NEW nx, NEW p, Chain(s, m, nx, p)
    PROVE  m <= NR_WP
  <1> DEFINE cut == [k \in 1 .. m |-> s[k]]
  <1>1. cut \in Injection(1 .. m, Slots)
    BY DEF Chain, Injection, IsInjective
  <1>2. IsFiniteSet(Slots) /\ Cardinality(Slots) = NR_WP
    BY SlotFacts, FS_Interval DEF Slots
  <1>3. Cardinality(1 .. m) = m  BY FS_Interval
  <1> HIDE DEF cut
  <1> QED  BY <1>1, <1>2, <1>3, FS_Injection

\* Follow(p) runs through the list and stays at its end.
LEMMA FollowsChain ==
    \A s, p : \A m \in Nat : Chain(s, m, next, p) =>
       \A k \in 0 .. NR_WP : Follow(p)[k] = IF k <= m THEN s[k + 1] ELSE NULL
  <1> SUFFICES ASSUME NEW s, NEW p, NEW m \in Nat, Chain(s, m, next, p)
               PROVE  \A k \in 0 .. NR_WP : Follow(p)[k] = IF k <= m THEN s[k + 1] ELSE NULL
    OBVIOUS
  <1> DEFINE Step(f) == [k \in 0 .. NR_WP |->
                IF k = 0 THEN p ELSE IF f[k - 1] = NULL THEN NULL ELSE next[f[k - 1]]]
             at == CHOOSE f : f = Step(f)
             along == [k \in 0 .. NR_WP |-> IF k <= m THEN s[k + 1] ELSE NULL]
  <1>1. Follow(p) = at  BY DEF Follow
  <1>2. \E f : f = Step(f)
    <2>1. ASSUME NEW k \in 0 .. NR_WP PROVE along[k] = Step(along)[k]
      <3>1. CASE k = 0  BY <3>1 DEF Chain
      <3>2. CASE k # 0 /\ k <= m
        <4>1. k - 1 \in 0 .. NR_WP /\ k - 1 <= m /\ k \in 1 .. m /\ (k - 1) + 1 = k
          BY <3>2, SlotFacts
        <4>2. along[k] = s[k + 1] /\ along[k - 1] = s[k]  BY <3>2, <4>1
        <4>3. s[k] # NULL /\ next[s[k]] = s[k + 1]  BY <4>1, SlotFacts DEF Chain
        <4> QED  BY <3>2, <4>2, <4>3
      <3>3. CASE k > m
        <4>1. k - 1 \in 0 .. NR_WP  BY <3>3, SlotFacts
        <4>2. along[k] = NULL  BY <3>3
        <4>3. along[k - 1] = NULL
          <5>1. CASE k - 1 <= m
            <6>1. k - 1 = m  BY <3>3, <5>1
            <6> QED  BY <4>1, <6>1 DEF Chain
          <5>2. CASE ~(k - 1 <= m)  BY <4>1, <5>2
          <5> QED  BY <5>1, <5>2
        <4> QED  BY <3>3, <4>2, <4>3
      <3> QED  BY <3>1, <3>2, <3>3
    <2>2. along = Step(along)  BY <2>1
    <2> HIDE DEF Step
    <2> QED  BY <2>2
  <1>3. at = Step(at)
    <2> HIDE DEF Step
    <2> QED  BY <1>2
  <1> HIDE DEF at
  <1>4. at[0] = p  BY <1>3, SlotFacts
  <1>5. \A k \in 1 .. NR_WP : at[k] = IF at[k - 1] = NULL THEN NULL ELSE next[at[k - 1]]
    <2> TAKE k \in 1 .. NR_WP
    <2>1. k \in 0 .. NR_WP /\ k # 0  OBVIOUS
    <2>2. at[k] = Step(at)[k]  BY <1>3
    <2> QED  BY <2>1, <2>2
  <1> HIDE DEF Step
  <1> DEFINE Same == {k \in 0 .. NR_WP : at[k] = along[k]}
  <1>6. 0 \in Same  BY <1>4, SlotFacts DEF Chain
  <1>7. ASSUME NEW k \in 0 .. NR_WP - 1, k \in Same PROVE k + 1 \in Same
    <2>1. k + 1 \in 1 .. NR_WP /\ k + 1 \in 0 .. NR_WP /\ (k + 1) - 1 = k  BY SlotFacts
    <2>2. at[k + 1] = IF at[k] = NULL THEN NULL ELSE next[at[k]]  BY <1>5, <2>1
    <2>3. at[k] = IF k <= m THEN s[k + 1] ELSE NULL  BY <1>7
    <2>4. CASE k < m
      <3>1. k + 1 \in 1 .. m /\ k <= m /\ k + 1 <= m  BY <2>4
      <3>2. s[k + 1] # NULL /\ next[s[k + 1]] = s[(k + 1) + 1]  BY <3>1, SlotFacts DEF Chain
      <3> QED  BY <2>1, <2>2, <2>3, <3>1, <3>2
    <2>5. CASE ~(k < m)
      <3>1. at[k] = NULL
        <4>1. CASE k = m  BY <2>3, <4>1 DEF Chain
        <4>2. CASE k # m  BY <2>3, <2>5, <4>2
        <4> QED  BY <4>1, <4>2
      <3> QED  BY <2>1, <2>2, <2>5, <3>1
    <2> QED  BY <2>4, <2>5
  <1> HIDE DEF Same
  <1>8. \A k \in 0 .. NR_WP : k \in Same  BY <1>6, <1>7, SlotFacts, InductionUpTo
  <1> QED  BY <1>1, <1>8 DEF Same

\* What the walks of the code see of a list.
LEMMA ListsChain ==
    \A s, p : \A m \in Nat : Chain(s, m, next, p) =>
       Ends(p) /\ List(p) = [k \in 1 .. m |-> s[k]] /\ Cells(p) = {s[k] : k \in 1 .. m}
  <1> SUFFICES ASSUME NEW s, NEW p, NEW m \in Nat, Chain(s, m, next, p)
               PROVE  Ends(p) /\ List(p) = [k \in 1 .. m |-> s[k]] /\ Cells(p) = {s[k] : k \in 1 .. m}
    OBVIOUS
  <1>1. \A k \in 0 .. NR_WP : Follow(p)[k] = IF k <= m THEN s[k + 1] ELSE NULL
    BY FollowsChain
  <1>2. m <= NR_WP  BY ChainFits
  <1>3. Ends(p)
    <2>1. NR_WP \in 0 .. NR_WP  BY SlotFacts
    <2>2. CASE m = NR_WP  BY <1>1, <2>1, <2>2 DEF Ends, Chain
    <2>3. CASE m # NR_WP  BY <1>1, <1>2, <2>1, <2>3, SlotFacts DEF Ends
    <2> QED  BY <2>2, <2>3
  <1> DEFINE seen == {k \in 0 .. NR_WP - 1 : Follow(p)[k] # NULL}
  <1>4. seen = 0 .. m - 1
    <2>1. ASSUME NEW k \in 0 .. NR_WP - 1 PROVE Follow(p)[k] # NULL <=> k \in 0 .. m - 1
      <3>1. k \in 0 .. NR_WP  BY SlotFacts
      <3>2. CASE k < m
        <4>1. k + 1 \in 1 .. m  BY <3>2
        <4> QED  BY <1>1, <3>1, <3>2, <4>1, SlotFacts DEF Chain
      <3>3. CASE k = m  BY <1>1, <3>1, <3>3 DEF Chain
      <3>4. CASE k > m  BY <1>1, <3>1, <3>4
      <3> QED  BY <3>2, <3>3, <3>4
    <2>2. 0 .. m - 1 \subseteq 0 .. NR_WP - 1  BY <1>2, SlotFacts
    <2> QED  BY <2>1, <2>2
  <1>5. Cardinality(seen) = m
    <2>1. Cardinality(0 .. m - 1) = m  BY FS_Interval
    <2> QED  BY <1>4, <2>1
  <1>6. List(p) = [k \in 1 .. m |-> Follow(p)[k - 1]]  BY <1>5 DEF List
  <1>7. \A k \in 1 .. m : Follow(p)[k - 1] = s[k]
    <2> TAKE k \in 1 .. m
    <2>1. k - 1 \in 0 .. NR_WP /\ k - 1 <= m /\ (k - 1) + 1 = k  BY <1>2, SlotFacts
    <2> QED  BY <1>1, <2>1
  <1>8. List(p) = [k \in 1 .. m |-> s[k]]  BY <1>6, <1>7
  <1>9. Cells(p) = {s[k] : k \in 1 .. m}  BY <1>8 DEF Cells
  <1> QED  BY <1>3, <1>8, <1>9

\* The same after a step.
LEMMA ListsChainNext ==
    \A s, p : \A m \in Nat : Chain(s, m, next', p) =>
       Ends(p)' /\ List(p)' = [k \in 1 .. m |-> s[k]]
  <1> DEFINE Lists == \A s, p : \A m \in Nat : Chain(s, m, next, p) =>
                         Ends(p) /\ List(p) = [k \in 1 .. m |-> s[k]]
  <1>1. Lists  BY ListsChain
  <1>2. Lists'  BY <1>1, PTL
  <1> QED  BY <1>2

-----------------------------------------------------------------------------
(* What the assignments of the code do to a list.                          *)

\* A cell that is in no list becomes the last of this one.
Extended(s, m, c) == [k \in 1 .. m + 2 |-> IF k = m + 2 THEN NULL ELSE IF k = m + 1 THEN c ELSE s[k]]

LEMMA ChainExtended ==
    ASSUME NEW s, NEW m \in Nat, NEW nx, NEW nx2, NEW p, NEW c \in Slots,
           Chain(s, m, nx, p), \A k \in 1 .. m : s[k] # c,
           nx2[c] = NULL, \A k \in 1 .. m - 1 : nx2[s[k]] = nx[s[k]],
           m > 0 => nx2[s[m]] = c
    PROVE  Chain(Extended(s, m, c), m + 1, nx2, IF m = 0 THEN c ELSE p)
  <1> DEFINE t == Extended(s, m, c)
  <1>1. /\ t[m + 2] = NULL /\ t[m + 1] = c /\ \A k \in 1 .. m : t[k] = s[k] /\ s[k] \in Slots
        /\ t \in [1 .. m + 2 -> Slots \cup {NULL}]
    BY SlotFacts DEF Extended, Chain
  <1> HIDE DEF t
  <1>2. t[1] = IF m = 0 THEN c ELSE p
    <2>1. CASE m = 0  BY <1>1, <2>1
    <2>2. CASE m # 0
      <3>1. 1 \in 1 .. m  BY <2>2
      <3> QED  BY <1>1, <2>2, <3>1 DEF Chain
    <2> QED  BY <2>1, <2>2
  <1>3. ASSUME NEW k \in 1 .. m + 1 PROVE t[k] \in Slots /\ nx2[t[k]] = t[k + 1]
    <2>1. CASE k = m + 1
      <3>1. k + 1 = m + 2  BY <2>1
      <3> QED  BY <1>1, <2>1, <3>1
    <2>2. CASE k = m
      <3>1. m \in 1 .. m /\ m > 0  BY <2>2
      <3> QED  BY <1>1, <2>2, <3>1
    <2>3. CASE k < m
      <3>1. k \in 1 .. m - 1 /\ k \in 1 .. m /\ k + 1 \in 1 .. m  BY <2>3
      <3>2. nx[s[k]] = s[k + 1]  BY <3>1 DEF Chain
      <3> QED  BY <1>1, <3>1, <3>2
    <2> QED  BY <2>1, <2>2, <2>3
  <1>4. ASSUME NEW j \in 1 .. m + 1, NEW k \in 1 .. m + 1, t[j] = t[k] PROVE j = k
    <2>1. j \in 1 .. m \/ j = m + 1  OBVIOUS
    <2>2. k \in 1 .. m \/ k = m + 1  OBVIOUS
    <2> QED  BY <1>1, <1>4, <2>1, <2>2 DEF Chain
  <1>5. (m + 1) + 1 = m + 2  OBVIOUS
  <1>6. Chain(t, m + 1, nx2, IF m = 0 THEN c ELSE p)
    BY <1>1, <1>2, <1>3, <1>4, <1>5 DEF Chain
  <1> QED  BY <1>6 DEF t

\* The j-th cell leaves the list; the first leaves by the pointer to the list, any
\* other by the link of the one before.
Bypassed(s, m, j, nx, nx2) ==
    /\ \A k \in 1 .. m : (k # j /\ k # j - 1) => nx2[s[k]] = nx[s[k]]
    /\ j > 1 => nx2[s[j - 1]] = s[j + 1]
Without(s, m, j) == [k \in 1 .. m |-> IF k < j THEN s[k] ELSE s[k + 1]]

LEMMA ChainWithout ==
    ASSUME NEW s, NEW m \in Nat, NEW nx, NEW nx2, NEW p, NEW j \in 1 .. m,
           Chain(s, m, nx, p), Bypassed(s, m, j, nx, nx2)
    PROVE  /\ Chain(Without(s, m, j), m - 1, nx2, IF j = 1 THEN s[2] ELSE p)
           /\ \A k \in 1 .. m - 1 : /\ Without(s, m, j)[k] # s[j]
                                    /\ \E i \in 1 .. m : Without(s, m, j)[k] = s[i]
           /\ \A k \in 1 .. m : k # j => \E i \in 1 .. m - 1 : Without(s, m, j)[i] = s[k]
  <1> DEFINE t == Without(s, m, j)
  <1>1. \A k \in 1 .. m : t[k] = IF k < j THEN s[k] ELSE s[k + 1]  BY DEF Without
  <1>2. t \in [1 .. m -> Slots \cup {NULL}]
    <2>1. \A k \in 1 .. m : k \in 1 .. m + 1 /\ k + 1 \in 1 .. m + 1  OBVIOUS
    <2>2. \A k \in 1 .. m + 1 : s[k] \in Slots \cup {NULL}  BY DEF Chain
    <2> QED  BY <2>1, <2>2 DEF Without
  <1> HIDE DEF t
  <1>3. t[1] = IF j = 1 THEN s[2] ELSE p
    <2>1. 1 \in 1 .. m /\ (1 < j <=> j # 1)  OBVIOUS
    <2> QED  BY <1>1, <2>1 DEF Chain
  <1>4. t[m] = NULL
    <2>1. m \in 1 .. m /\ ~(m < j)  OBVIOUS
    <2> QED  BY <1>1, <2>1 DEF Chain
  <1>5. ASSUME NEW k \in 1 .. m - 1 PROVE t[k] \in Slots /\ nx2[t[k]] = t[k + 1]
    <2>1. k \in 1 .. m /\ k + 1 \in 1 .. m  OBVIOUS
    <2>2. s[k] \in Slots /\ nx[s[k]] = s[k + 1] /\ s[k + 1] \in Slots
          /\ nx[s[k + 1]] = s[(k + 1) + 1]
      BY <2>1 DEF Chain
    <2>7. /\ (k # j /\ k # j - 1) => nx2[s[k]] = nx[s[k]]
          /\ (k + 1 # j /\ k + 1 # j - 1) => nx2[s[k + 1]] = nx[s[k + 1]]
          /\ j > 1 => nx2[s[j - 1]] = s[j + 1]
      BY <2>1 DEF Bypassed
    <2>3. CASE k + 1 < j
      <3>1. k < j /\ k # j /\ k # j - 1  BY <2>3
      <3>2. t[k] = s[k] /\ t[k + 1] = s[k + 1]  BY <1>1, <2>1, <2>3, <3>1
      <3> QED  BY <2>7, <2>2, <3>1, <3>2
    <2>4. CASE k + 1 = j
      <3>1. k < j /\ j > 1 /\ k = j - 1 /\ ~(k + 1 < j) /\ (k + 1) + 1 = j + 1  BY <2>4
      <3>2. t[k] = s[k] /\ t[k + 1] = s[j + 1]  BY <1>1, <2>1, <3>1
      <3> QED  BY <2>7, <2>2, <3>1, <3>2
    <2>5. CASE k + 1 > j
      <3>1. ~(k < j) /\ ~(k + 1 < j) /\ k + 1 # j /\ k + 1 # j - 1  BY <2>5
      <3>2. t[k] = s[k + 1] /\ t[k + 1] = s[(k + 1) + 1]  BY <1>1, <2>1, <3>1
      <3> QED  BY <2>7, <2>2, <3>1, <3>2
    <2> QED  BY <2>3, <2>4, <2>5
  <1>6. ASSUME NEW i \in 1 .. m - 1
        PROVE  \E k \in 1 .. m : t[i] = s[k] /\ k # j /\ (i < j => k = i) /\ (i >= j => k = i + 1)
    <2>1. i \in 1 .. m /\ i + 1 \in 1 .. m  OBVIOUS
    <2>2. CASE i < j
      <3>1. t[i] = s[i] /\ i # j  BY <1>1, <2>1, <2>2
      <3> QED  BY <2>1, <2>2, <3>1
    <2>3. CASE i >= j
      <3>1. t[i] = s[i + 1] /\ i + 1 # j  BY <1>1, <2>1, <2>3
      <3> QED  BY <2>1, <2>3, <3>1
    <2> QED  BY <2>2, <2>3
  <1>7. ASSUME NEW i \in 1 .. m - 1, NEW k \in 1 .. m - 1, t[i] = t[k] PROVE i = k
    <2>1. PICK a \in 1 .. m : t[i] = s[a] /\ (i < j => a = i) /\ (i >= j => a = i + 1)  BY <1>6
    <2>2. PICK b \in 1 .. m : t[k] = s[b] /\ (k < j => b = k) /\ (k >= j => b = k + 1)  BY <1>6
    <2>3. \A x, y \in 1 .. m : s[x] = s[y] => x = y  BY DEF Chain
    <2>4. a = b  BY <1>7, <2>1, <2>2, <2>3
    <2> QED  BY <2>1, <2>2, <2>4
  <1>8. \A k \in 1 .. m - 1 : t[k] # s[j] /\ \E i \in 1 .. m : t[k] = s[i]
    <2>1. \A x, y \in 1 .. m : s[x] = s[y] => x = y  BY DEF Chain
    <2> QED  BY <1>6, <2>1
  <1>9. ASSUME NEW k \in 1 .. m, k # j PROVE \E i \in 1 .. m - 1 : t[i] = s[k]
    <2>1. CASE k < j
      <3>1. k \in 1 .. m - 1 /\ t[k] = s[k]  BY <1>1, <2>1
      <3> QED  BY <3>1
    <2>2. CASE ~(k < j)
      <3>1. k - 1 \in 1 .. m - 1 /\ k - 1 \in 1 .. m /\ ~(k - 1 < j) /\ (k - 1) + 1 = k
        BY <1>9, <2>2
      <3>2. t[k - 1] = s[k]  BY <1>1, <3>1
      <3> QED  BY <3>1, <3>2
    <2> QED  BY <2>1, <2>2
  <1>10. (m - 1) + 1 = m /\ m - 1 \in Nat  OBVIOUS
  <1>11. Chain(t, m - 1, nx2, IF j = 1 THEN s[2] ELSE p)
    BY <1>2, <1>3, <1>4, <1>5, <1>7, <1>10 DEF Chain
  <1> QED  BY <1>8, <1>9, <1>11 DEF t

\* A cell becomes the first of the list.
Elsewhere(s, m, c, nx, nx2) == \A k \in 1 .. m : s[k] # c /\ nx2[s[k]] = nx[s[k]]
Pushed(s, m, c) == [k \in 1 .. m + 2 |-> IF k = 1 THEN c ELSE s[k - 1]]

LEMMA ChainPushed ==
    ASSUME NEW s, NEW m \in Nat, NEW nx, NEW nx2, NEW p, NEW c \in Slots,
           Chain(s, m, nx, p), Elsewhere(s, m, c, nx, nx2), nx2[c] = p
    PROVE  Chain(Pushed(s, m, c), m + 1, nx2, c)
  <1> DEFINE t == Pushed(s, m, c)
  <1>1. t[1] = c /\ \A k \in 2 .. m + 2 : t[k] = s[k - 1]  BY DEF Pushed
  <1>2. t \in [1 .. m + 2 -> Slots \cup {NULL}]
    <2>1. \A k \in 1 .. m + 2 : k # 1 => k - 1 \in 1 .. m + 1  OBVIOUS
    <2> QED  BY <2>1 DEF Pushed, Chain
  <1> HIDE DEF t
  <1>3. t[m + 2] = NULL
    <2>1. m + 2 \in 2 .. m + 2 /\ (m + 2) - 1 = m + 1  OBVIOUS
    <2> QED  BY <1>1, <2>1 DEF Chain
  <1>4. ASSUME NEW k \in 1 .. m + 1 PROVE t[k] \in Slots /\ nx2[t[k]] = t[k + 1]
    <2>1. CASE k = 1
      <3>1. 2 \in 2 .. m + 2 /\ 2 - 1 = 1  OBVIOUS
      <3>2. t[2] = s[1]  BY <1>1, <3>1
      <3> QED  BY <1>1, <2>1, <3>2 DEF Chain
    <2>2. CASE k # 1
      <3>1. k - 1 \in 1 .. m /\ k \in 2 .. m + 2 /\ k + 1 \in 2 .. m + 2 /\ (k + 1) - 1 = (k - 1) + 1
        BY <2>2
      <3>2. t[k] = s[k - 1] /\ t[k + 1] = s[(k - 1) + 1]  BY <1>1, <3>1
      <3>3. s[k - 1] \in Slots /\ nx[s[k - 1]] = s[(k - 1) + 1]  BY <3>1 DEF Chain
      <3> QED  BY <3>1, <3>2, <3>3 DEF Elsewhere
    <2> QED  BY <2>1, <2>2
  <1>5. ASSUME NEW i \in 1 .. m + 1, NEW k \in 1 .. m + 1, t[i] = t[k] PROVE i = k
    <2>1. i = 1 \/ (i - 1 \in 1 .. m /\ t[i] = s[i - 1])  BY <1>1
    <2>2. k = 1 \/ (k - 1 \in 1 .. m /\ t[k] = s[k - 1])  BY <1>1
    <2>3. CASE i # 1 /\ k # 1
      <3>1. i - 1 = k - 1  BY <1>5, <2>1, <2>2, <2>3 DEF Chain
      <3> QED  BY <3>1
    <2>4. CASE i = 1 \/ k = 1  BY <1>1, <1>5, <2>1, <2>2, <2>4 DEF Elsewhere
    <2> QED  BY <2>3, <2>4
  <1>6. (m + 1) + 1 = m + 2  OBVIOUS
  <1>7. Chain(t, m + 1, nx2, c)  BY <1>1, <1>2, <1>3, <1>4, <1>5, <1>6 DEF Chain
  <1> QED  BY <1>7 DEF t

-----------------------------------------------------------------------------
(* The pool: u and f are the cells in use and the free ones.               *)

Pool(u, m, f, l, nx, h, fr) ==
    /\ m \in Nat /\ l \in Nat
    /\ Chain(u, m, nx, h) /\ Chain(f, l, nx, fr)
    /\ \A i \in 1 .. m, j \in 1 .. l : u[i] # f[j]
    /\ \A c \in Slots : (\E i \in 1 .. m : u[i] = c) \/ (\E j \in 1 .. l : f[j] = c)

Texts == Exprs \cup {NoExpr}
PoolTypes == next \in [Slots -> Slots \cup {NULL}] /\ expr_str \in [Slots -> Texts]

PoolInv ==
    PoolTypes /\ \E u, m, f, l : Pool(u, m, f, l, next, head, free_)

LEMMA PoolInit == ASSUME WpInit PROVE PoolTypes /\ \E f : Pool(<<NULL>>, 0, f, NR_WP, next, head, free_)
  <1> DEFINE f == [k \in 1 .. NR_WP + 1 |-> IF k = NR_WP + 1 THEN NULL ELSE k - 1]
  <1>1. /\ next = [i \in Slots |-> IF i = NR_WP - 1 THEN NULL ELSE i + 1]
        /\ head = NULL /\ free_ = 0 /\ expr_str = [i \in Slots |-> NoExpr]
    BY DEF WpInit
  <1>2. PoolTypes
    <2>1. \A i \in Slots : i # NR_WP - 1 => i + 1 \in Slots  BY SlotFacts DEF Slots
    <2> QED  BY <1>1, <2>1 DEF PoolTypes, Texts
  <1>3. Chain(<<NULL>>, 0, next, head)
    <2>1. <<NULL>> = [k \in 1 .. 1 |-> NULL]  OBVIOUS
    <2> QED  BY <1>1, <2>1 DEF Chain
  <1>4. /\ f[NR_WP + 1] = NULL
        /\ \A k \in 1 .. NR_WP : f[k] = k - 1 /\ k - 1 \in Slots
        /\ f \in [1 .. NR_WP + 1 -> Slots \cup {NULL}]
    BY SlotFacts DEF Slots
  <1> HIDE DEF f
  <1>5. f[1] = free_
    <2>1. 1 \in 1 .. NR_WP  BY SlotFacts
    <2> QED  BY <1>1, <1>4, <2>1
  <1>6. ASSUME NEW k \in 1 .. NR_WP PROVE next[f[k]] = f[k + 1]
    <2>1. k - 1 \in Slots /\ f[k] = k - 1  BY <1>4
    <2>2. CASE k = NR_WP  BY <1>1, <1>4, <2>1, <2>2, SlotFacts
    <2>3. CASE k # NR_WP
      <3>1. k + 1 \in 1 .. NR_WP /\ k - 1 # NR_WP - 1  BY <2>3, SlotFacts
      <3>2. f[k + 1] = (k + 1) - 1  BY <1>4, <3>1
      <3> QED  BY <1>1, <2>1, <3>1, <3>2
    <2> QED  BY <2>2, <2>3
  <1>7. \A j, k \in 1 .. NR_WP : f[j] = f[k] => j = k  BY <1>4
  <1>8. Chain(f, NR_WP, next, free_)  BY <1>4, <1>5, <1>6, <1>7 DEF Chain
  <1>9. ASSUME NEW c \in Slots PROVE \E j \in 1 .. NR_WP : f[j] = c
    <2>1. c + 1 \in 1 .. NR_WP /\ (c + 1) - 1 = c  BY SlotFacts DEF Slots
    <2> QED  BY <1>4, <2>1
  <1>10. Pool(<<NULL>>, 0, f, NR_WP, next, head, free_)
    BY <1>3, <1>8, <1>9, SlotFacts DEF Pool
  <1> QED  BY <1>2, <1>10

\* A new watchpoint moves the first free cell to the end of those in use.
LEMMA PoolCreate ==
    ASSUME NEW u, NEW m, NEW f, NEW l, Pool(u, m, f, l, next, head, free_),
           PoolTypes, NEW str \in Exprs, Create(str)
    PROVE  /\ PoolTypes' /\ free_ \in Slots /\ \A k \in 1 .. m : u[k] # free_
           /\ Pool(Extended(u, m, free_), m + 1, Without(f, l, 1), l - 1, next', head', free_')
           /\ expr_str' = [expr_str EXCEPT ![free_] = str]
  <1> DEFINE c == free_
  <1>1. /\ c # NULL /\ free_' = next[c] /\ Link(c)
        /\ expr_str' = [expr_str EXCEPT ![c] = str]
    BY DEF Create
  <1>2. /\ m \in Nat /\ l \in Nat /\ Chain(u, m, next, head) /\ Chain(f, l, next, c)
        /\ \A i \in 1 .. m, j \in 1 .. l : u[i] # f[j]
        /\ \A d \in Slots : (\E i \in 1 .. m : u[i] = d) \/ (\E j \in 1 .. l : f[j] = d)
        /\ next \in [Slots -> Slots \cup {NULL}]
    BY DEF Pool, PoolTypes
  <1>3. l > 0 /\ 1 \in 1 .. l
    <2>1. l = 0 => f[1] = NULL  BY <1>2 DEF Chain
    <2>2. f[1] = c  BY <1>2 DEF Chain
    <2> QED  BY <1>1, <1>2, <2>1, <2>2
  <1>4. c = f[1] /\ c \in Slots /\ next[c] = f[2]
    BY <1>2, <1>3 DEF Chain
  <1>5. \A k \in 1 .. m : u[k] # c /\ u[k] \in Slots  BY <1>2, <1>3, <1>4 DEF Chain
  <1>6. \A k \in 1 .. l : k # 1 => f[k] # c /\ f[k] \in Slots  BY <1>2, <1>3, <1>4 DEF Chain
  <1> HIDE DEF c
  <1>7. /\ head' = IF m = 0 THEN c ELSE head
        /\ next' \in [Slots -> Slots \cup {NULL}]
        /\ next'[c] = NULL
        /\ \A k \in 1 .. m - 1 : next'[u[k]] = next[u[k]]
        /\ m > 0 => next'[u[m]] = c
        /\ \A k \in 1 .. l : k # 1 => next'[f[k]] = next[f[k]]
    <2>1. CASE m = 0
      <3>1. head = NULL  BY <1>2, <2>1 DEF Chain
      <3>2. head' = c /\ next' = [next EXCEPT ![c] = NULL]  BY <1>1, <3>1 DEF Link
      <3> QED  BY <1>2, <1>4, <1>6, <2>1, <3>2
    <2>2. CASE m # 0
      <3>1. 1 \in 1 .. m /\ m \in 1 .. m /\ m > 0  BY <1>2, <2>2
      <3>2. head # NULL  BY <1>2, <3>1, SlotFacts DEF Chain
      <3>3. Cells(head) = {u[k] : k \in 1 .. m}  BY <1>2, ListsChain
      <3>4. u[m] \in Cells(head) /\ next[u[m]] = NULL  BY <1>2, <3>1, <3>3 DEF Chain
      <3>5. ASSUME NEW q \in Cells(head), next[q] = NULL PROVE q = u[m]
        <4>1. PICK k \in 1 .. m : q = u[k]  BY <3>3
        <4>2. u[k + 1] = NULL  BY <1>2, <3>5, <4>1 DEF Chain
        <4>3. k = m
          <5>1. k # m => k + 1 \in 1 .. m  BY <1>2
          <5> QED  BY <1>2, <4>2, <5>1, SlotFacts DEF Chain
        <4> QED  BY <4>1, <4>3
      <3> DEFINE last == CHOOSE q \in Cells(head) : next[q] = NULL
      <3>6. last = u[m]  BY <3>4, <3>5
      <3>7. head' = head /\ next' = [[next EXCEPT ![c] = NULL] EXCEPT ![last] = c]
        BY <1>1, <3>2 DEF Link
      <3>8. next' = [[next EXCEPT ![c] = NULL] EXCEPT ![u[m]] = c]  BY <3>6, <3>7
      <3>9. u[m] # c /\ u[m] \in Slots  BY <1>5, <3>1
      <3>10. \A k \in 1 .. m - 1 : u[k] # u[m] /\ u[k] # c /\ u[k] \in Slots
        <4>1. \A k \in 1 .. m - 1 : k \in 1 .. m /\ k # m  BY <1>2
        <4> QED  BY <1>2, <1>5, <3>1, <4>1 DEF Chain
      <3>11. \A k \in 1 .. l : k # 1 => f[k] # u[m] /\ f[k] # c /\ f[k] \in Slots
        BY <1>2, <1>6, <3>1
      <3> HIDE DEF last
      <3> QED  BY <1>2, <1>4, <2>2, <3>7, <3>8, <3>9, <3>10, <3>11
    <2> QED  BY <2>1, <2>2
  <1>8. Chain(Extended(u, m, c), m + 1, next', head')
    BY <1>2, <1>4, <1>5, <1>7, ChainExtended
  <1>9. /\ Chain(Without(f, l, 1), l - 1, next', free_')
        /\ \A k \in 1 .. l - 1 : /\ Without(f, l, 1)[k] # c
                                 /\ \E i \in 1 .. l : Without(f, l, 1)[k] = f[i]
        /\ \A k \in 1 .. l : k # 1 => \E i \in 1 .. l - 1 : Without(f, l, 1)[i] = f[k]
    <2>1. Bypassed(f, l, 1, next, next')  BY <1>7 DEF Bypassed
    <2>2. free_' = f[2]  BY <1>1, <1>4
    <2>4. /\ Chain(Without(f, l, 1), l - 1, next', IF 1 = 1 THEN f[2] ELSE c)
          /\ \A k \in 1 .. l - 1 : /\ Without(f, l, 1)[k] # f[1]
                                   /\ \E i \in 1 .. l : Without(f, l, 1)[k] = f[i]
          /\ \A k \in 1 .. l : k # 1 => \E i \in 1 .. l - 1 : Without(f, l, 1)[i] = f[k]
      BY <1>2, <1>3, <2>1, ChainWithout
    <2> QED  BY <1>4, <2>2, <2>4
  <1>10. /\ Extended(u, m, c)[m + 1] = c /\ m + 1 \in 1 .. m + 1
         /\ \A k \in 1 .. m : Extended(u, m, c)[k] = u[k] /\ k \in 1 .. m + 1
    BY <1>2 DEF Extended
  <1>11. \A i \in 1 .. m + 1, j \in 1 .. l - 1 : Extended(u, m, c)[i] # Without(f, l, 1)[j]
    <2> TAKE i \in 1 .. m + 1, j \in 1 .. l - 1
    <2>1. CASE i = m + 1  BY <1>9, <1>10, <2>1
    <2>2. CASE i # m + 1
      <3>1. i \in 1 .. m  BY <1>2, <2>2
      <3> QED  BY <1>2, <1>9, <1>10, <3>1
    <2> QED  BY <2>1, <2>2
  <1>12. ASSUME NEW d \in Slots
         PROVE  \/ \E i \in 1 .. m + 1 : Extended(u, m, c)[i] = d
                \/ \E j \in 1 .. l - 1 : Without(f, l, 1)[j] = d
    <2>1. CASE \E i \in 1 .. m : u[i] = d  BY <1>10, <2>1
    <2>2. CASE \E j \in 1 .. l : f[j] = d
      <3>1. PICK j \in 1 .. l : f[j] = d  BY <2>2
      <3>2. CASE j = 1  BY <1>4, <1>10, <3>1, <3>2
      <3>3. CASE j # 1  BY <1>9, <3>1, <3>3
      <3> QED  BY <3>2, <3>3
    <2> QED  BY <1>2, <2>1, <2>2
  <1>13. m + 1 \in Nat /\ l - 1 \in Nat  BY <1>2, <1>3
  <1>14. Pool(Extended(u, m, c), m + 1, Without(f, l, 1), l - 1, next', head', free_')
    BY <1>8, <1>9, <1>11, <1>12, <1>13 DEF Pool
  <1>15. PoolTypes'  BY <1>1, <1>4, <1>7 DEF PoolTypes, Texts
  <1> QED  BY <1>1, <1>4, <1>5, <1>14, <1>15 DEF c

\* A deleted watchpoint leaves its list from wherever it is and becomes the first free
\* cell.
LEMMA PoolDelete ==
    ASSUME NEW u, NEW m, NEW f, NEW l, Pool(u, m, f, l, next, head, free_),
           PoolTypes, NEW no, Delete(no)
    PROVE  \E j \in 1 .. m :
              /\ no = u[j] /\ PoolTypes' /\ expr_str' = [expr_str EXCEPT ![u[j]] = NoExpr]
              /\ Pool(Without(u, m, j), m - 1, Pushed(f, l, u[j]), l + 1, next', head', free_')
  <1>1. /\ no \in Cells(head) /\ Unlink(no) /\ free_' = no
        /\ expr_str' = [expr_str EXCEPT ![no] = NoExpr]
    BY DEF Delete
  <1>2. /\ m \in Nat /\ l \in Nat /\ Chain(u, m, next, head) /\ Chain(f, l, next, free_)
        /\ \A i \in 1 .. m, j \in 1 .. l : u[i] # f[j]
        /\ \A d \in Slots : (\E i \in 1 .. m : u[i] = d) \/ (\E j \in 1 .. l : f[j] = d)
        /\ next \in [Slots -> Slots \cup {NULL}]
    BY DEF Pool, PoolTypes
  <1>3. Cells(head) = {u[k] : k \in 1 .. m}  BY <1>2, ListsChain
  <1>4. PICK j \in 1 .. m : no = u[j]  BY <1>1, <1>3
  <1>5. /\ \A k \in 1 .. m : u[k] \in Slots /\ next[u[k]] = u[k + 1]
        /\ \A i, k \in 1 .. m : u[i] = u[k] => i = k
        /\ u[1] = head /\ u[m + 1] = NULL
    BY <1>2 DEF Chain
  <1>6. no \in Slots /\ next[no] = u[j + 1]  BY <1>4, <1>5
  <1>7. \A k \in 1 .. l : f[k] \in Slots /\ f[k] # no  BY <1>2, <1>4 DEF Chain
  <1>8. free_ \in Slots \cup {NULL}
    <2>1. 1 \in 1 .. l + 1  BY <1>2
    <2> QED  BY <1>2, <2>1 DEF Chain
  <1>9. u[j + 1] \in Slots \cup {NULL}
    <2>1. j + 1 \in 1 .. m + 1  BY <1>2
    <2> QED  BY <1>2, <2>1 DEF Chain
  <1>10. /\ head' = IF j = 1 THEN u[2] ELSE head
         /\ next' \in [Slots -> Slots \cup {NULL}]
         /\ next'[no] = free_
         /\ \A k \in 1 .. m : (k # j /\ k # j - 1) => next'[u[k]] = next[u[k]]
         /\ j > 1 => next'[u[j - 1]] = u[j + 1]
         /\ \A k \in 1 .. l : next'[f[k]] = next[f[k]]
    <2>1. CASE head = no
      <3>1. j = 1
        <4>1. 1 \in 1 .. m  BY <1>2
        <4> QED  BY <1>4, <1>5, <2>1, <4>1
      <3>2. head' = next[no] /\ next' = [next EXCEPT ![no] = free_]
        BY <1>1, <2>1 DEF Unlink
      <3>3. \A k \in 1 .. m : k # j => u[k] # no  BY <1>4, <1>5
      <3>4. next[no] = u[2]  BY <1>6, <3>1
      <3> QED  BY <1>2, <1>5, <1>6, <1>7, <1>8, <3>1, <3>2, <3>3, <3>4
    <2>2. CASE head # no
      <3>1. PICK prev \in Cells(head) :
               /\ next[prev] = no /\ head' = head
               /\ next' = [next EXCEPT ![prev] = next[no], ![no] = free_]
        BY <1>1, <2>2 DEF Unlink
      <3>2. PICK i \in 1 .. m : prev = u[i]  BY <1>3, <3>1
      <3>3. u[i + 1] = u[j]  BY <1>4, <1>5, <3>1, <3>2
      <3>4. i + 1 = j
        <4>1. i # m  BY <1>2, <1>4, <1>5, <1>6, <3>3, SlotFacts
        <4>2. i + 1 \in 1 .. m  BY <1>2, <4>1
        <4> QED  BY <1>5, <3>3, <4>2
      <3>5. j > 1 /\ j # 1 /\ i = j - 1 /\ i # j  BY <1>2, <3>4
      <3>6. prev # no /\ prev \in Slots /\ prev = u[j - 1]  BY <1>4, <1>5, <3>2, <3>5
      <3>7. \A k \in 1 .. m : (k # j /\ k # j - 1) => u[k] # no /\ u[k] # prev /\ u[k] \in Slots
        BY <1>4, <1>5, <3>2, <3>5
      <3>8. \A k \in 1 .. l : f[k] # no /\ f[k] # prev /\ f[k] \in Slots
        BY <1>2, <1>7, <3>2
      <3>9. next' = [next EXCEPT ![prev] = u[j + 1], ![no] = free_]  BY <1>6, <3>1
      <3>10. /\ next' \in [Slots -> Slots \cup {NULL}] /\ next'[no] = free_ /\ next'[prev] = u[j + 1]
             /\ \A d \in Slots : d # no /\ d # prev => next'[d] = next[d]
        BY <1>2, <1>6, <1>8, <1>9, <3>6, <3>9
      <3> QED  BY <3>1, <3>5, <3>6, <3>7, <3>8, <3>10
    <2> QED  BY <2>1, <2>2
  <1>11. /\ Chain(Without(u, m, j), m - 1, next', head')
         /\ \A k \in 1 .. m - 1 : /\ Without(u, m, j)[k] # no
                                  /\ \E i \in 1 .. m : Without(u, m, j)[k] = u[i]
         /\ \A k \in 1 .. m : k # j => \E i \in 1 .. m - 1 : Without(u, m, j)[i] = u[k]
    <2>1. Bypassed(u, m, j, next, next')  BY <1>10 DEF Bypassed
    <2> QED  BY <1>2, <1>4, <1>10, <2>1, ChainWithout
  <1>12. Chain(Pushed(f, l, no), l + 1, next', no)
    <2>1. Elsewhere(f, l, no, next, next')  BY <1>7, <1>10 DEF Elsewhere
    <2> QED  BY <1>2, <1>6, <1>10, <2>1, ChainPushed
  <1>13. /\ Pushed(f, l, no)[1] = no /\ 1 \in 1 .. l + 1
         /\ \A k \in 1 .. l : k + 1 \in 1 .. l + 1 /\ Pushed(f, l, no)[k + 1] = f[k]
         /\ \A k \in 1 .. l + 1 : k # 1 => k - 1 \in 1 .. l /\ Pushed(f, l, no)[k] = f[k - 1]
    BY <1>2 DEF Pushed
  <1>14. \A i \in 1 .. m - 1, k \in 1 .. l + 1 : Without(u, m, j)[i] # Pushed(f, l, no)[k]
    <2> TAKE i \in 1 .. m - 1, k \in 1 .. l + 1
    <2>1. CASE k = 1  BY <1>11, <1>13, <2>1
    <2>2. CASE k # 1  BY <1>2, <1>11, <1>13, <2>2
    <2> QED  BY <2>1, <2>2
  <1>15. ASSUME NEW d \in Slots
         PROVE  \/ \E i \in 1 .. m - 1 : Without(u, m, j)[i] = d
                \/ \E k \in 1 .. l + 1 : Pushed(f, l, no)[k] = d
    <2>1. CASE \E i \in 1 .. m : u[i] = d
      <3>1. PICK i \in 1 .. m : u[i] = d  BY <2>1
      <3>2. CASE i = j  BY <1>4, <1>13, <3>1, <3>2
      <3>3. CASE i # j  BY <1>11, <3>1, <3>3
      <3> QED  BY <3>2, <3>3
    <2>2. CASE \E k \in 1 .. l : f[k] = d  BY <1>13, <2>2
    <2> QED  BY <1>2, <2>1, <2>2
  <1>16. m - 1 \in Nat /\ l + 1 \in Nat  BY <1>2
  <1>17. Pool(Without(u, m, j), m - 1, Pushed(f, l, no), l + 1, next', head', free_')
    BY <1>1, <1>11, <1>12, <1>14, <1>15, <1>16 DEF Pool
  <1>18. PoolTypes'  BY <1>1, <1>6, <1>10 DEF PoolTypes, Texts
  <1> QED  BY <1>1, <1>4, <1>17, <1>18

-----------------------------------------------------------------------------
(* The table that the list in use implements.                              *)

RowsOf(u, m, e) == [k \in 1 .. m |-> [no |-> u[k], expr |-> e[u[k]]]]
Row == [no : Slots, expr : Texts]

TableShown ==
    \A u : \A m \in Nat : Chain(u, m, next, head) =>
       Rows = RowsOf(u, m, expr_str)

LEMMA ShowsTable == TableShown
  <1> SUFFICES ASSUME NEW u, NEW m \in Nat, Chain(u, m, next, head)
               PROVE  Rows = RowsOf(u, m, expr_str)
    BY DEF TableShown
  <1>1. List(head) = [k \in 1 .. m |-> u[k]]  BY ListsChain
  <1>2. DOMAIN List(head) = 1 .. m /\ \A k \in 1 .. m : List(head)[k] = u[k]  BY <1>1
  <1> QED  BY <1>2 DEF Rows, RowsOf

LEMMA ShowsTableNext == TableShown'
  BY ShowsTable, PTL

LEMMA RowsTypes ==
    ASSUME NEW u, NEW m \in Nat, NEW e \in [Slots -> Texts], \A k \in 1 .. m : u[k] \in Slots
    PROVE  /\ RowsOf(u, m, e) \in Seq(Row) /\ Len(RowsOf(u, m, e)) = m
           /\ \A k \in 1 .. m : RowsOf(u, m, e)[k] = [no |-> u[k], expr |-> e[u[k]]]
  <1>1. \A k \in 1 .. m : [no |-> u[k], expr |-> e[u[k]]] \in Row  BY DEF Row
  <1>2. RowsOf(u, m, e) \in [1 .. m -> Row]  BY <1>1 DEF RowsOf
  <1>3. RowsOf(u, m, e) \in Seq(Row)  BY <1>2
  <1> QED  BY <1>2, <1>3 DEF RowsOf

\* Two sequences with the same length and elements are the same.
LEMMA SameSequence ==
    ASSUME NEW S, NEW s \in Seq(S), NEW t \in Seq(S), Len(s) = Len(t),
           \A k \in 1 .. Len(s) : s[k] = t[k]
    PROVE  s = t
  OBVIOUS

\* What a step of the pool is in terms of the table.
LEMMA CreateAppends ==
    ASSUME PoolInv, NEW str \in Exprs, Create(str) PROVE PoolInv' /\ Table!Create
  <1>1. PICK u, m, f, l : Pool(u, m, f, l, next, head, free_)  BY DEF PoolInv
  <1>2. PoolTypes  BY DEF PoolInv
  <1> DEFINE c == free_
             t == Extended(u, m, c)
             old == RowsOf(u, m, expr_str)
             new == RowsOf(t, m + 1, expr_str')
             row == [no |-> c, expr |-> str]
  <1>3. /\ PoolTypes' /\ c \in Slots /\ \A k \in 1 .. m : u[k] # c
        /\ Pool(t, m + 1, Without(f, l, 1), l - 1, next', head', free_')
        /\ expr_str' = [expr_str EXCEPT ![c] = str]
    BY <1>1, <1>2, PoolCreate
  <1>4. /\ m \in Nat /\ Chain(u, m, next, head) /\ \A k \in 1 .. m : u[k] \in Slots
        /\ m + 1 \in Nat /\ Chain(t, m + 1, next', head') /\ \A k \in 1 .. m + 1 : t[k] \in Slots
    BY <1>1, <1>3 DEF Pool, Chain
  <1>5. expr_str \in [Slots -> Texts] /\ expr_str' \in [Slots -> Texts]
    BY <1>2, <1>3 DEF PoolTypes
  <1>6. t[m + 1] = c /\ \A k \in 1 .. m : t[k] = u[k]
    BY <1>4 DEF Extended
  <1> HIDE DEF t, c
  <1>7. /\ old \in Seq(Row) /\ Len(old) = m
        /\ \A k \in 1 .. m : old[k] = [no |-> u[k], expr |-> expr_str[u[k]]]
    BY <1>4, <1>5, RowsTypes
  <1>8. /\ new \in Seq(Row) /\ Len(new) = m + 1
        /\ \A k \in 1 .. m + 1 : new[k] = [no |-> t[k], expr |-> expr_str'[t[k]]]
    BY <1>4, <1>5, RowsTypes
  <1>9. row \in Row  BY <1>3 DEF Row, Texts
  <1> HIDE DEF row, old, new
  <1>10. new = Append(old, row)
    <2>1. /\ Append(old, row) \in Seq(Row) /\ Len(Append(old, row)) = m + 1
          /\ Append(old, row)[m + 1] = row /\ \A k \in 1 .. m : Append(old, row)[k] = old[k]
      BY <1>7, <1>9, Appended
    <2>2. new[m + 1] = row
      <3>1. m + 1 \in 1 .. m + 1  BY <1>4
      <3>2. expr_str'[c] = str  BY <1>3, <1>5
      <3> QED  BY <1>6, <1>8, <3>1, <3>2 DEF row
    <2>3. ASSUME NEW k \in 1 .. m PROVE new[k] = old[k]
      <3>1. k \in 1 .. m + 1  BY <1>4
      <3>2. expr_str'[u[k]] = expr_str[u[k]]  BY <1>3, <1>4, <1>5
      <3> QED  BY <1>6, <1>7, <1>8, <3>1, <3>2
    <2>4. \A k \in 1 .. m + 1 : new[k] = Append(old, row)[k]
      <3> TAKE k \in 1 .. m + 1
      <3>1. CASE k = m + 1  BY <2>1, <2>2, <3>1
      <3>2. CASE k # m + 1
        <4>1. k \in 1 .. m  BY <1>4, <3>2
        <4> QED  BY <2>1, <2>3, <4>1
      <3> QED  BY <3>1, <3>2
    <2> QED  BY <1>8, <2>1, <2>4, SameSequence
  <1>11. c \notin {old[k].no : k \in DOMAIN old}  BY <1>3, <1>7
  <1>12. Table!Create
    <2>1. Rows = old
      BY <1>4, ShowsTable DEF TableShown, old
    <2>2. Rows' = new
      BY <1>4, ShowsTableNext DEF TableShown, new
    <2>3. Table!Slots = Slots  BY DEF Table!Slots, Slots
    <2>4. Table!Used = {old[k].no : k \in DOMAIN old}  BY <2>1 DEF Table!Used
    <2>5. c \in Table!Slots \ Table!Used  BY <1>3, <1>11, <2>3, <2>4
    <2> QED  BY <1>10, <2>1, <2>2, <2>5 DEF Table!Create, row
  <1>13. PoolInv'  BY <1>3 DEF PoolInv
  <1> QED  BY <1>12, <1>13

LEMMA DeleteRemoves ==
    ASSUME PoolInv, NEW no, Delete(no) PROVE PoolInv' /\ Table!Delete
  <1>1. PICK u, m, f, l : Pool(u, m, f, l, next, head, free_)  BY DEF PoolInv
  <1>2. PoolTypes  BY DEF PoolInv
  <1>3. PICK j \in 1 .. m :
           /\ no = u[j] /\ PoolTypes' /\ expr_str' = [expr_str EXCEPT ![u[j]] = NoExpr]
           /\ Pool(Without(u, m, j), m - 1, Pushed(f, l, u[j]), l + 1, next', head', free_')
    BY <1>1, <1>2, PoolDelete
  <1> DEFINE t == Without(u, m, j)
             old == RowsOf(u, m, expr_str)
             new == RowsOf(t, m - 1, expr_str')
             before == SubSeq(old, 1, j - 1)
             after == SubSeq(old, j + 1, m)
  <1>4. /\ m \in Nat /\ Chain(u, m, next, head) /\ \A k \in 1 .. m : u[k] \in Slots
        /\ \A i, k \in 1 .. m : u[i] = u[k] => i = k
        /\ m - 1 \in Nat /\ Chain(t, m - 1, next', head') /\ \A k \in 1 .. m - 1 : t[k] \in Slots
    BY <1>1, <1>3 DEF Pool, Chain
  <1>5. expr_str \in [Slots -> Texts] /\ expr_str' \in [Slots -> Texts]
    BY <1>2, <1>3 DEF PoolTypes
  <1>6. \A k \in 1 .. m : t[k] = IF k < j THEN u[k] ELSE u[k + 1]
    BY DEF Without
  <1> HIDE DEF t
  <1>7. /\ old \in Seq(Row) /\ Len(old) = m
        /\ \A k \in 1 .. m : old[k] = [no |-> u[k], expr |-> expr_str[u[k]]]
    BY <1>4, <1>5, RowsTypes
  <1>8. /\ new \in Seq(Row) /\ Len(new) = m - 1
        /\ \A k \in 1 .. m - 1 : new[k] = [no |-> t[k], expr |-> expr_str'[t[k]]]
    BY <1>4, <1>5, RowsTypes
  <1> HIDE DEF old, new
  <1>9. /\ before \in Seq(Row) /\ Len(before) = j - 1
        /\ \A k \in 1 .. j - 1 : before[k] = old[k]
    BY <1>4, <1>7
  <1>10. /\ after \in Seq(Row) /\ Len(after) = m - j
         /\ \A k \in 1 .. m - j : after[k] = old[j + k]
    BY <1>4, <1>7
  <1> HIDE DEF before, after
  <1>11. /\ before \o after \in Seq(Row) /\ Len(before \o after) = m - 1
         /\ \A k \in 1 .. j - 1 : (before \o after)[k] = old[k]
         /\ \A k \in j .. m - 1 : (before \o after)[k] = old[k + 1]
    <2>1. /\ before \o after \in Seq(Row) /\ Len(before \o after) = (j - 1) + (m - j)
          /\ \A k \in 1 .. j - 1 : (before \o after)[k] = before[k]
          /\ \A k \in (j - 1) + 1 .. (j - 1) + (m - j) : (before \o after)[k] = after[k - (j - 1)]
      <3>1. /\ before \o after \in Seq(Row) /\ Len(before \o after) = Len(before) + Len(after)
            /\ \A k \in 1 .. Len(before) : (before \o after)[k] = before[k]
            /\ \A k \in Len(before) + 1 .. Len(before) + Len(after) :
                  (before \o after)[k] = after[k - Len(before)]
        BY <1>9, <1>10, Joined
      <3> QED  BY <1>9, <1>10, <3>1
    <2>2. ASSUME NEW k \in j .. m - 1 PROVE (before \o after)[k] = old[k + 1]
      <3>1. /\ k \in (j - 1) + 1 .. (j - 1) + (m - j) /\ k - (j - 1) \in 1 .. m - j
            /\ j + (k - (j - 1)) = k + 1
        BY <1>4
      <3> QED  BY <1>10, <2>1, <3>1
    <2>3. (j - 1) + (m - j) = m - 1  BY <1>4
    <2> QED  BY <1>9, <2>1, <2>2, <2>3
  <1>12. ASSUME NEW k \in 1 .. m - 1 PROVE new[k] = (before \o after)[k]
    <2>1. k \in 1 .. m /\ k + 1 \in 1 .. m  BY <1>4
    <2>2. \A i \in 1 .. m : i # j => expr_str'[u[i]] = expr_str[u[i]]
      BY <1>3, <1>4, <1>5
    <2>3. CASE k < j
      <3>1. k \in 1 .. j - 1 /\ k # j /\ t[k] = u[k]  BY <1>6, <2>1, <2>3
      <3>2. new[k] = [no |-> u[k], expr |-> expr_str[u[k]]]  BY <1>8, <2>1, <2>2, <3>1
      <3>3. (before \o after)[k] = old[k]  BY <1>11, <3>1
      <3> QED  BY <1>7, <2>1, <3>2, <3>3
    <2>4. CASE ~(k < j)
      <3>1. k \in j .. m - 1 /\ k + 1 # j /\ t[k] = u[k + 1]  BY <1>6, <2>1, <2>4
      <3>2. new[k] = [no |-> u[k + 1], expr |-> expr_str[u[k + 1]]]
        BY <1>8, <2>1, <2>2, <3>1
      <3>3. (before \o after)[k] = old[k + 1]  BY <1>11, <3>1
      <3> QED  BY <1>7, <2>1, <3>2, <3>3
    <2> QED  BY <2>3, <2>4
  <1>13. new = before \o after  BY <1>8, <1>11, <1>12, SameSequence
  <1>14. Table!Delete
    <2>1. Rows = old
      BY <1>4, ShowsTable DEF TableShown, old
    <2>2. Rows' = new
      BY <1>4, ShowsTableNext DEF TableShown, new
    <2>3. Table!RemoveAt(old, j) = new  BY <1>7, <1>13 DEF Table!RemoveAt, before, after
    <2>4. j \in DOMAIN old  BY <1>7
    <2> QED  BY <2>1, <2>2, <2>3, <2>4 DEF Table!Delete
  <1>15. PoolInv'  BY <1>3 DEF PoolInv
  <1> QED  BY <1>14, <1>15

LEMMA PoolStep ==
    ASSUME PoolInv, [WpNext]_wvars
    PROVE  /\ PoolInv'
           /\ Table!Next \/ UNCHANGED Rows
  <1>1. CASE \E str \in Exprs : Create(str)  BY <1>1, CreateAppends DEF Table!Next
  <1>2. CASE \E no \in Slots : Delete(no)  BY <1>2, DeleteRemoves DEF Table!Next
  <1>3. CASE UNCHANGED wvars
    <2>1. next' = next /\ head' = head /\ free_' = free_ /\ expr_str' = expr_str
      BY <1>3 DEF wvars
    <2>2. PICK u, m, f, l : Pool(u, m, f, l, next, head, free_)  BY DEF PoolInv
    <2>3. m \in Nat /\ Chain(u, m, next, head) /\ Chain(u, m, next', head')
      BY <2>1, <2>2 DEF Pool
    <2>4. Rows = RowsOf(u, m, expr_str)
      BY <2>3, ShowsTable DEF TableShown
    <2>5. Rows' = RowsOf(u, m, expr_str')
      BY <2>3, ShowsTableNext DEF TableShown
    <2>6. PoolInv'  BY <2>1 DEF PoolInv, PoolTypes
    <2> QED  BY <2>1, <2>4, <2>5, <2>6
  <1> QED  BY <1>1, <1>2, <1>3 DEF WpNext, CreateFull, DeleteUnknown

LEMMA PoolStart == WpInit => PoolInv /\ Table!Init
  <1> SUFFICES ASSUME WpInit PROVE PoolInv /\ Table!Init  OBVIOUS
  <1>1. PoolTypes /\ \E f : Pool(<<NULL>>, 0, f, NR_WP, next, head, free_)  BY PoolInit
  <1>2. Chain(<<NULL>>, 0, next, head)  BY <1>1 DEF Pool
  <1>3. Rows = RowsOf(<<NULL>>, 0, expr_str)
    BY <1>2, ShowsTable DEF TableShown
  <1>4. RowsOf(<<NULL>>, 0, expr_str) = <<>>  BY DEF RowsOf
  <1>5. PoolInv  BY <1>1 DEF PoolInv
  <1> QED  BY <1>3, <1>4, <1>5 DEF Table!Init

\* Both lists end, and every cell of the pool is in exactly one of them, for a pool of
\* any size (watchpoint.c:28-103).
THEOREM PoolIsPartitioned == WpSpec => []PoolPartitioned
  <1>1. PoolInv => PoolPartitioned
    <2> SUFFICES ASSUME NEW u, NEW m, NEW f, NEW l, Pool(u, m, f, l, next, head, free_)
                 PROVE  PoolPartitioned
      BY DEF PoolInv
    <2>1. Ends(head) /\ Cells(head) = {u[k] : k \in 1 .. m}  BY ListsChain DEF Pool
    <2>2. Ends(free_) /\ Cells(free_) = {f[k] : k \in 1 .. l}  BY ListsChain DEF Pool
    <2>3. Cells(head) \cap Cells(free_) = {}  BY <2>1, <2>2 DEF Pool
    <2>4. Cells(head) \cup Cells(free_) = Slots
      <3>1. \A k \in 1 .. m : u[k] \in Slots  BY DEF Pool, Chain
      <3>2. \A k \in 1 .. l : f[k] \in Slots  BY DEF Pool, Chain
      <3> QED  BY <2>1, <2>2, <3>1, <3>2 DEF Pool
    <2> QED  BY <2>1, <2>2, <2>3, <2>4 DEF PoolPartitioned
  <1> QED  BY <1>1, PoolStart, PoolStep, PTL DEF WpSpec

\* The lists implement the numbered table of the commands "w", "d" and "info w".
THEOREM PoolImplementsTable == WpSpec => TableSpec
  <1>1. WpSpec => Table!Init /\ [][Table!Next]_Rows
    BY PoolStart, PoolStep, PTL DEF WpSpec
  <1> QED  BY <1>1 DEF TableSpec, Table!Spec
=============================================================================
