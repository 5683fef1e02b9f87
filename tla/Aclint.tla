------------------------------- MODULE Aclint -------------------------------
(***************************************************************************)
(* The CLINT (device/aclint.c): the machine timer and the software         *)
(* interrupt.  Between two updates the hart runs one instruction, which    *)
(* may store to the device or write mip; update_device then advances the   *)
(* time every Period-th call and assigns mip.mtip.                         *)
(*                                                                         *)
(* The registers keep their width: mtime and mtimecmp wrap at TimeMax and  *)
(* the int that counts the updates at CountMax, where it goes negative (in *)
(* C an overflow of a signed integer; every build of this file wraps).     *)
(***************************************************************************)
EXTENDS Integers

CONSTANTS TimeMax,     \* 2^64 - 1
          CountMax,    \* INT_MAX
          Period       \* 25

ASSUME AclintConstants ==
    /\ TimeMax \in Nat \ {0} /\ CountMax \in Nat
    /\ Period \in 1 .. CountMax

Time == 0 .. TimeMax
Count == -CountMax - 1 .. CountMax

VARIABLES mtime, mtimecmp, time_count,
          mtip, msip,     \* the bits of mip the device drives
          phase,          \* "exec": an instruction is next; "update"; "aborted"
          since,          \* history: updates since mtime last advanced
          asked,          \* history: the wait that the last store left, in ticks;
          waited, wraps   \*   updates, and wraps of time_count, in it so far

device == <<mtime, mtimecmp>>
wait == <<asked, waited, wraps>>
avars == <<device, time_count, mtip, msip, phase, since, wait>>

Init == /\ mtime = 0 /\ mtimecmp = TimeMax /\ time_count = 0
        /\ mtip = 0 /\ msip = 0
        /\ phase = "exec" /\ since = 0
        /\ asked = TimeMax /\ waited = 0 /\ wraps = 0

Exec == phase = "exec" /\ UNCHANGED <<time_count, since>>

\* A wait for the comparand begins with these registers.
Begin(time, cmp) == /\ asked' = IF time < cmp THEN cmp - time ELSE 0
                    /\ waited' = 0 /\ wraps' = 0

\* Any instruction that neither stores to the device nor writes mip.
Other == Exec /\ phase' = "update" /\ UNCHANGED <<device, mtip, msip, wait>>

\* A store to mtime or mtimecmp.  The value is assigned before the assertion
\* that the access is eight bytes wide ends the program.
StoreTimer ==
    /\ Exec
    /\ \E v \in Time : \/ mtimecmp' = v /\ UNCHANGED mtime
                       \/ mtime' = v /\ UNCHANGED mtimecmp
    /\ Begin(mtime', mtimecmp')
    /\ phase' \in {"update", "aborted"}
    /\ UNCHANGED <<mtip, msip>>

StoreMsip == /\ Exec /\ phase' = "update"
             /\ msip' \in 0 .. 1
             /\ UNCHANGED <<device, mtip, wait>>

\* csr_write to mip overwrites both bits.
WriteMip == /\ Exec /\ phase' = "update"
            /\ mtip' \in 0 .. 1 /\ msip' \in 0 .. 1
            /\ UNCHANGED <<device, wait>>

\* The history of the wait over an update: it is over when the time has reached the
\* comparand, and another one begins when the time wraps to below it.
Wait == \/ /\ mtime < mtimecmp
           /\ waited' = waited + 1
           /\ wraps' = IF time_count = CountMax THEN wraps + 1 ELSE wraps
           /\ UNCHANGED asked
        \/ mtime >= mtimecmp /\ mtime' >= mtimecmp /\ UNCHANGED wait
        \/ mtime >= mtimecmp /\ mtime' < mtimecmp /\ Begin(mtime', mtimecmp)

\* Mutated: the counter does not wrap.
UpdateUnbounded ==
    /\ phase = "update" /\ phase' = "exec"
    /\ mtime' = IF time_count % Period = 0 THEN (mtime + 1) % (TimeMax + 1) ELSE mtime
    /\ since' = IF time_count % Period = 0 THEN 0 ELSE since + 1
    /\ time_count' = time_count + 1
    /\ mtip' = IF mtime' >= mtimecmp THEN 1 ELSE 0
    /\ Wait
    /\ UNCHANGED <<mtimecmp, msip>>

\* Mutated: the comparison is made before the time advances.
UpdateStale ==
    /\ phase = "update" /\ phase' = "exec"
    /\ mtime' = IF time_count % Period = 0 THEN (mtime + 1) % (TimeMax + 1) ELSE mtime
    /\ since' = IF time_count % Period = 0 THEN 0 ELSE since + 1
    /\ time_count' = IF time_count = CountMax THEN -CountMax - 1 ELSE time_count + 1
    /\ mtip' = IF mtime >= mtimecmp THEN 1 ELSE 0
    /\ Wait
    /\ UNCHANGED <<mtimecmp, msip>>

\* Mutated: the comparison is strict.
UpdateAbove ==
    /\ phase = "update" /\ phase' = "exec"
    /\ mtime' = IF time_count % Period = 0 THEN (mtime + 1) % (TimeMax + 1) ELSE mtime
    /\ since' = IF time_count % Period = 0 THEN 0 ELSE since + 1
    /\ time_count' = IF time_count = CountMax THEN -CountMax - 1 ELSE time_count + 1
    /\ mtip' = IF mtime' > mtimecmp THEN 1 ELSE 0
    /\ Wait
    /\ UNCHANGED <<mtimecmp, msip>>

\* Mutated: one period too many after a wrap of the counter.
AdvancesNonNegative == time_count >= 0 /\ time_count % Period = 0

\* aclint_update
Advances == time_count % Period = 0
Update ==
    /\ phase = "update" /\ phase' = "exec"
    /\ mtime' = IF Advances THEN (mtime + 1) % (TimeMax + 1) ELSE mtime
    /\ since' = IF Advances THEN 0 ELSE since + 1
    /\ time_count' = IF time_count = CountMax THEN -CountMax - 1 ELSE time_count + 1
    /\ mtip' = IF mtime' >= mtimecmp THEN 1 ELSE 0
    /\ Wait
    /\ UNCHANGED <<mtimecmp, msip>>

Aborted == phase = "aborted" /\ UNCHANGED avars

Next == Other \/ StoreTimer \/ StoreMsip \/ WriteMip \/ Update \/ Aborted

\* exec_once always goes on to the update and execute to the next instruction.
Spec == Init /\ [][Next]_avars /\ WF_avars(Next)

-----------------------------------------------------------------------------
TypeOK == /\ mtime \in Time /\ mtimecmp \in Time /\ time_count \in Count
          /\ mtip \in 0 .. 1 /\ msip \in 0 .. 1
          /\ phase \in {"exec", "update", "aborted"}
          /\ since \in Nat /\ asked \in Nat /\ waited \in Nat /\ wraps \in Nat

\* What a wrap of time_count adds to the interval of the clock that it falls in.
Stretch == LET left == (CountMax + 1) % Period
           IN IF left = 0 THEN 0 ELSE 2 * left - Period

\* The timer interrupt is neither early nor late.  At an instruction boundary the line
\* is up only if the updates since the guest last stored to the timer (or since the
\* time wrapped below the comparand) fill all but one of the ticks it asked for, and
\* down only if they do not fill all of them; each wrap of the counter shifts both by
\* its stretch.  Whatever the guest wrote to mip in between changes nothing.
TimerPunctual ==
    phase = "exec" =>
        /\ mtip = 1 => asked = 0 \/ waited > (asked - 1) * Period + wraps * Stretch
        /\ mtip = 0 => waited < asked * Period + wraps * Stretch

\* The overflow of the update counter stretches one interval of the clock, but
\* never to two: the phase shift of a wrapped int is less than a period.
ClockSteady == since < 2 * Period - 1

\* A guest that stops writing the timer registers gets its timer interrupt, over
\* and over, whatever it last wrote, for as long as the hart goes on: the time
\* reaches every comparand.
TimerFires ==
    []<><<Update>>_avars => []<>(mtip = 1) \/ []<><<StoreTimer>>_avars
=============================================================================
