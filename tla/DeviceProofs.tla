---------------------------- MODULE DeviceProofs ----------------------------
(***************************************************************************)
(* Proofs about Aclint and PlicBoard.  The timer, for registers of any     *)
(* width and any period: its types, that its interrupt is neither early    *)
(* nor late, that the wrap of the update counter never stretches an        *)
(* interval of the clock to two periods, and that the interrupt comes      *)
(* nearer with every update.  The interrupt controller, for any sources    *)
(* and priorities: that claim and line are those its search computes.      *)
(***************************************************************************)
EXTENDS MCDevices, BasicFacts

-----------------------------------------------------------------------------
(* What % says of the updates that are left until the clock advances.      *)

ToGo(c) == (-c) % Period

LEMMA PeriodFacts == Period \in Nat \ {0} /\ CountMax \in Nat /\ Period <= CountMax
  BY AclintConstants

LEMMA ToGoCounts ==
    ASSUME NEW c \in Int
    PROVE  /\ ToGo(c) \in 0 .. Period - 1 /\ (c % Period) \in 0 .. Period - 1
           /\ (c % Period) = 0 => ToGo(c) = 0 /\ ToGo(c + 1) = Period - 1
           /\ (c % Period) # 0 => ToGo(c) = Period - (c % Period)
           /\ (c % Period) # 0 => ToGo(c) >= 1 /\ ToGo(c + 1) = ToGo(c) - 1
  <1> DEFINE q == c \div Period
             r == c % Period
  <1>1. /\ q \in Int /\ r \in 0 .. Period - 1 /\ c = Period * q + r
    BY PeriodFacts, Division
  <1>2. ToGo(c) \in 0 .. Period - 1
    BY PeriodFacts, Division DEF ToGo
  <1> HIDE DEF q, r
  <1> DEFINE a == -c
             b == -(c + 1)
             m == -q - 1
             s == Period - r
             u == Period - r - 1
             top == Period - 1
  <1>3. /\ a \in Int /\ b \in Int /\ m \in Int /\ top \in 0 .. Period - 1
        /\ ToGo(c) = a % Period /\ ToGo(c + 1) = b % Period
    BY <1>1, PeriodFacts DEF ToGo
  <1>4. CASE r = 0
    <2>1. b = Period * m + top  BY <1>1, <1>4, PeriodFacts, SMT
    <2> DEFINE n == -q
               zero == 0
    <2>2. n \in Int /\ zero \in 0 .. Period - 1 /\ a = Period * n + zero
      BY <1>1, <1>4, PeriodFacts
    <2> HIDE DEF a, b, m, n, s, u, top, zero
    <2>3. (b % Period) = top  BY <2>1, <1>3, PeriodFacts, Remainder
    <2>4. (a % Period) = zero  BY <2>2, <1>3, PeriodFacts, Remainder
    <2> QED  BY <1>1, <1>2, <1>3, <1>4, <2>3, <2>4 DEF r, top, zero
  <1>5. CASE r # 0
    <2>1. a = Period * m + s /\ b = Period * m + u  BY <1>1, PeriodFacts, SMT
    <2>2. s \in 0 .. Period - 1 /\ u \in 0 .. Period - 1 /\ s >= 1 /\ u = s - 1
      BY <1>1, <1>5, PeriodFacts
    <2> HIDE DEF a, b, m, s, u, top
    <2>3. (a % Period) = s  BY <2>1, <2>2, <1>3, PeriodFacts, Remainder
    <2>4. (b % Period) = u
      <3>1. b = Period * m + u /\ u \in 0 .. Period - 1  BY <2>1, <2>2
      <3>2. b \in Int /\ m \in Int /\ Period \in Nat \ {0}  BY <1>3, PeriodFacts
      <3> QED  BY <3>1, <3>2, Remainder
    <2> QED  BY <1>1, <1>2, <1>3, <1>5, <2>2, <2>3, <2>4 DEF r, s
  <1> QED  BY <1>4, <1>5

\* An update takes one off what is left of the interval; the clock adds a period to it,
\* and the wrap of the counter its stretch.
LEMMA UpdateCounts ==
    ASSUME NEW c \in Int
    PROVE  LET next == IF c = CountMax THEN -CountMax - 1 ELSE c + 1
           IN  ToGo(next) + 1 = ToGo(c) + (IF c % Period = 0 THEN Period ELSE 0)
                                        + (IF c = CountMax THEN Stretch ELSE 0)
  <1> USE PeriodFacts
  <1>1. ToGo(c + 1) + 1 = ToGo(c) + (IF c % Period = 0 THEN Period ELSE 0)
    BY ToGoCounts
  <1>2. CASE c = CountMax
    <2> DEFINE e == CountMax + 1
               left == e % Period
    <2>1. e \in Int /\ -e = -CountMax - 1 /\ -(-e) = e  OBVIOUS
    <2>2. ToGo(-CountMax - 1) = left  BY <2>1 DEF ToGo
    <2>3. ToGo(e) = IF left = 0 THEN 0 ELSE Period - left  BY <2>1, ToGoCounts
    <2>4. Stretch = IF left = 0 THEN 0 ELSE 2 * left - Period  BY DEF Stretch
    <2>5. left \in 0 .. Period - 1  BY <2>1, ToGoCounts
    <2>6. ToGo(c) \in Int /\ ToGo(e) + 1 = ToGo(c) + (IF c % Period = 0 THEN Period ELSE 0)
      BY <1>1, <1>2, ToGoCounts
    <2> HIDE DEF e, left
    <2> QED  BY <1>2, <2>2, <2>3, <2>4, <2>5, <2>6
  <1>3. CASE c # CountMax
    <2>1. ToGo(c) \in Int /\ ToGo(c + 1) \in Int  BY ToGoCounts
    <2> QED  BY <1>1, <1>3, <2>1
  <1> QED  BY <1>2, <1>3

LEMMA OneMore == ASSUME NEW a \in Int, NEW b \in Int PROVE (a + 1) * b = a * b + b
  OBVIOUS

LEMMA StretchIsInt == Stretch \in Int
  <1>1. CountMax + 1 \in Int  BY PeriodFacts
  <1>2. ((CountMax + 1) % Period) \in 0 .. Period - 1  BY <1>1, ToGoCounts
  <1> QED  BY <1>2, PeriodFacts DEF Stretch

-----------------------------------------------------------------------------
(* The invariant.  An interval that has passed zero since the wrap is one  *)
(* period; one that the wrap is in adds what was left of the period before *)
(* it to what is left after it.                                            *)

Interval ==
    /\ since + ToGo(time_count) <= 2 * Period - 2
    /\ time_count > 0 => since + ToGo(time_count) <= Period - 1

\* The updates of a wait and those that are left until the clock advances, less those of
\* its first n ticks and of k stretches: what was left when the wait began.
Before(updates, count, n, k) == updates + ToGo(count) - n * Period - k * Stretch

\* While the comparand is ahead, the ticks that have come account for all updates of the
\* wait; when the time reaches it all have come.
OnTime ==
    /\ phase = "exec" => (mtip = 1 <=> mtime >= mtimecmp)
    /\ mtime < mtimecmp => /\ asked >= mtimecmp - mtime
                           /\ Before(waited, time_count, asked - (mtimecmp - mtime), wraps) \in 0 .. Period - 1
    /\ mtime >= mtimecmp => asked = 0 \/ waited > (asked - 1) * Period + wraps * Stretch

ClockInv == TypeOK /\ Interval /\ OnTime

\* A wait begins on time.
LEMMA BeginsOnTime ==
    ASSUME mtime' \in Time, mtimecmp' \in Time, time_count' \in Int, Begin(mtime', mtimecmp'),
           phase' = "exec" => (mtip' = 1 <=> mtime' >= mtimecmp')
    PROVE  OnTime'
  <1> DEFINE t == ToGo(time_count')
             ahead == mtimecmp' - mtime'
             n == asked' - ahead
  <1>1. mtime' \in Int /\ mtimecmp' \in Int /\ ahead \in Int  BY AclintConstants DEF Time
  <1>2. t \in 0 .. Period - 1  BY ToGoCounts
  <1>3. CASE mtime' < mtimecmp'
    <2>1. asked' = ahead /\ waited' = 0 /\ wraps' = 0  BY <1>3 DEF Begin
    <2> HIDE DEF ahead
    <2>0. asked' >= ahead /\ n = 0  BY <1>1, <2>1
    <2>2. n * Period = 0 /\ wraps' * Stretch = 0  BY <2>0, <2>1, PeriodFacts, StretchIsInt
    <2>3. Before(waited', time_count', n, wraps') = waited' + t - n * Period - wraps' * Stretch
      BY DEF Before
    <2>4. Before(waited', time_count', n, wraps') = t
      <3> HIDE DEF t, n
      <3> QED  BY <1>2, <2>1, <2>2, <2>3, PeriodFacts
    <2>5. Before(waited', time_count', n, wraps') \in 0 .. Period - 1  BY <1>2, <2>4
    <2>6. ~(mtime' >= mtimecmp')  BY <1>1, <1>3
    <2> QED  BY <1>3, <2>0, <2>5, <2>6 DEF OnTime, Before, ToGo, Stretch, ahead
  <1>4. CASE ~(mtime' < mtimecmp')
    BY <1>1, <1>4 DEF Begin, OnTime
  <1> QED  BY <1>3, <1>4

LEMMA InitHolds == Init => ClockInv
  <1> SUFFICES ASSUME Init PROVE ClockInv  OBVIOUS
  <1>1. TypeOK
    BY AclintConstants DEF Init, TypeOK, Time, Count
  <1>2. ToGo(0) \in 0 .. Period - 1  BY ToGoCounts
  <1>3. Interval  BY <1>2, PeriodFacts DEF Init, Interval
  <1>4. OnTime
    <2> DEFINE n == asked - (mtimecmp - mtime)
    <2>1. n = 0 /\ n * Period = 0 /\ wraps = 0 /\ wraps * Stretch = 0
      BY AclintConstants, StretchIsInt DEF Init
    <2>2. Before(waited, time_count, n, wraps)
             = waited + ToGo(time_count) - n * Period - wraps * Stretch
      BY DEF Before
    <2>3. waited = 0 /\ time_count = 0  BY DEF Init
    <2>4. Before(waited, time_count, n, wraps) = ToGo(0)
      <3> HIDE DEF n
      <3> QED  BY <1>2, <2>1, <2>2, <2>3, PeriodFacts
    <2> QED  BY <1>2, <2>1, <2>4, AclintConstants DEF Init, OnTime
  <1> QED  BY <1>1, <1>3, <1>4 DEF ClockInv

LEMMA InstructionKeeps ==
    ASSUME ClockInv, Other \/ StoreTimer \/ StoreMsip \/ WriteMip
    PROVE  ClockInv'
  <1>1. UNCHANGED <<time_count, since>> /\ phase' \in {"update", "aborted"}
    BY DEF Other, StoreTimer, StoreMsip, WriteMip, Exec
  <1>2. time_count' \in Int  BY <1>1, PeriodFacts DEF ClockInv, TypeOK, Count
  <1>3. CASE Other \/ StoreMsip \/ WriteMip
    <2>1. UNCHANGED <<device, wait>> /\ mtip' \in 0 .. 1 /\ msip' \in 0 .. 1
      BY <1>3 DEF Other, StoreMsip, WriteMip, ClockInv, TypeOK
    <2>2. TypeOK'  BY <1>1, <2>1 DEF ClockInv, TypeOK, device, wait
    <2>3. Interval'  BY <1>1 DEF ClockInv, Interval, ToGo
    <2>4. OnTime'  BY <1>1, <2>1 DEF ClockInv, OnTime, Before, ToGo, Stretch, device, wait
    <2> QED  BY <2>2, <2>3, <2>4 DEF ClockInv
  <1>4. CASE StoreTimer
    <2>1. mtime' \in Time /\ mtimecmp' \in Time /\ Begin(mtime', mtimecmp')
      BY <1>4 DEF StoreTimer, ClockInv, TypeOK
    <2>2. asked' \in Nat /\ waited' \in Nat /\ wraps' \in Nat
      <3> DEFINE now == mtime'
                 cmp == mtimecmp'
                 ahead == IF now < cmp THEN cmp - now ELSE 0
      <3>1. asked' = ahead /\ waited' = 0 /\ wraps' = 0  BY <2>1 DEF Begin
      <3>2. now \in Int /\ cmp \in Int  BY <2>1, AclintConstants DEF Time
      <3> HIDE DEF now, cmp
      <3>3. ahead \in Nat  BY <3>2
      <3> HIDE DEF ahead
      <3> QED  BY <3>1, <3>3
    <2>3. TypeOK'  BY <1>1, <1>4, <2>1, <2>2 DEF StoreTimer, ClockInv, TypeOK
    <2>4. Interval'  BY <1>1 DEF ClockInv, Interval, ToGo
    <2>5. OnTime'  BY <1>1, <1>2, <2>1, BeginsOnTime
    <2> QED  BY <2>3, <2>4, <2>5 DEF ClockInv
  <1> QED  BY <1>3, <1>4

LEMMA ClockAdvances ==
    ASSUME TypeOK
    PROVE  ((mtime + 1) % (TimeMax + 1)) = IF mtime = TimeMax THEN 0 ELSE mtime + 1
  <1> USE AclintConstants
  <1> DEFINE w == TimeMax + 1
             m == mtime + 1
  <1>1. w \in Nat \ {0} /\ m \in Int /\ mtime \in 0 .. TimeMax
    BY DEF TypeOK, Time
  <1>2. CASE mtime = TimeMax
    <2>1. m = w * 1 + 0 /\ 0 \in 0 .. w - 1  BY <1>1, <1>2
    <2> HIDE DEF w, m
    <2>2. (m % w) = 0  BY <1>1, <2>1, Remainder
    <2> QED  BY <1>2, <2>2 DEF w, m
  <1>3. CASE mtime # TimeMax
    <2>1. m = w * 0 + m /\ m \in 0 .. w - 1  BY <1>1, <1>3
    <2> HIDE DEF w, m
    <2>2. (m % w) = m  BY <1>1, <2>1, Remainder
    <2> QED  BY <1>3, <2>2 DEF w, m
  <1> QED  BY <1>2, <1>3

\* An update of a wait that is not over: what was left when it began is the same, for
\* another tick has come when the clock advanced and another stretch when the counter
\* wrapped.
LEMMA UpdateSame ==
    ASSUME ClockInv, Update, mtime < mtimecmp, NEW n \in Int
    PROVE  Before(waited', time_count', IF Advances THEN n + 1 ELSE n, wraps')
              = Before(waited, time_count, n, wraps)
  <1> DEFINE k == IF Advances THEN n + 1 ELSE n
             t == ToGo(time_count)
             u == ToGo(time_count')
             S == Stretch
             P == Period
  <1>1. /\ time_count \in Int /\ time_count' \in Int /\ waited \in Int /\ wraps \in Int
        /\ P \in Int /\ S \in Int
        /\ mtime \in Int /\ mtimecmp \in Int
    BY PeriodFacts, StretchIsInt, AclintConstants DEF ClockInv, TypeOK, Count, Time, Update
  <1>2. /\ waited' = waited + 1
        /\ wraps' = IF time_count = CountMax THEN wraps + 1 ELSE wraps
    BY <1>1 DEF Update, Wait
  <1>3. t \in Int /\ u \in Int  BY <1>1, ToGoCounts, PeriodFacts
  <1>4. u + 1 = t + (IF Advances THEN P ELSE 0) + (IF time_count = CountMax THEN S ELSE 0)
    <2>1. time_count' = IF time_count = CountMax THEN -CountMax - 1 ELSE time_count + 1
      BY DEF Update
    <2> QED  BY <1>1, <2>1, UpdateCounts DEF Advances
  <1> DEFINE late == Before(waited', time_count', k, wraps')
             soon == Before(waited, time_count, n, wraps)
  <1>5. /\ late = waited' + u - k * P - wraps' * S
        /\ soon = waited + t - n * P - wraps * S
    BY DEF Before
  <1> DEFINE kP == k * P
             nP == n * P
             xS == wraps' * S
             wS == wraps * S
  <1>6. kP \in Int /\ nP \in Int /\ kP = nP + (IF Advances THEN P ELSE 0)
    <2>1. (n + 1) * P = n * P + P  BY <1>1, OneMore
    <2>2. k \in Int /\ n * P \in Int /\ k * P \in Int  BY <1>1
    <2> QED  BY <1>1, <2>1, <2>2
  <1>7. xS \in Int /\ wS \in Int /\ xS = wS + (IF time_count = CountMax THEN S ELSE 0)
    <2>1. (wraps + 1) * S = wraps * S + S  BY <1>1, OneMore
    <2>2. wraps' \in Int /\ wraps * S \in Int /\ wraps' * S \in Int  BY <1>1, <1>2
    <2> QED  BY <1>1, <1>2, <2>1, <2>2
  <1>8. late = waited' + u - kP - xS /\ soon = waited + t - nP - wS  BY <1>5
  <1> HIDE DEF k, kP, nP, xS, wS, t, u, S, P, late, soon
  <1>9. late = soon  BY <1>1, <1>2, <1>3, <1>4, <1>6, <1>7, <1>8
  <1> QED  BY <1>9 DEF k, late, soon

LEMMA UpdateOnTime == ASSUME ClockInv, TypeOK', Update PROVE OnTime'
  <1> USE AclintConstants
  <1>1. /\ mtime \in Int /\ mtimecmp \in Int /\ mtime' \in Int /\ mtimecmp' = mtimecmp
        /\ mtime >= 0 /\ mtimecmp <= TimeMax
        /\ time_count' \in Int /\ waited' \in Int /\ wraps' \in Int /\ asked \in Nat
        /\ Period \in Nat \ {0} /\ Stretch \in Int
    BY PeriodFacts, StretchIsInt DEF ClockInv, TypeOK, Time, Count, Update
  <1>2. phase' = "exec" /\ (mtip' = 1 <=> mtime' >= mtimecmp')  BY <1>1 DEF Update
  <1>3. CASE mtime < mtimecmp
    <2> DEFINE n == asked - (mtimecmp - mtime)
               k == IF Advances THEN n + 1 ELSE n
               b == Before(waited', time_count', k, wraps')
    <2>1. mtime' = IF Advances THEN mtime + 1 ELSE mtime
      BY <1>1, <1>3, ClockAdvances DEF Update, ClockInv
    <2>2. asked' = asked /\ asked >= mtimecmp - mtime /\ n \in Int
      BY <1>1, <1>3 DEF Update, Wait, ClockInv, OnTime
    <2>3. b = Before(waited, time_count, n, wraps)  BY <1>3, <2>2, UpdateSame
    <2>4. b \in 0 .. Period - 1  BY <1>3, <2>3 DEF ClockInv, OnTime
    <2>5. k = asked' - (mtimecmp' - mtime')  BY <1>1, <2>1, <2>2
    <2>6. CASE mtime' < mtimecmp'
      <3>1. asked' >= mtimecmp' - mtime'  BY <1>1, <2>1, <2>2
      <3>2. Before(waited', time_count', asked' - (mtimecmp' - mtime'), wraps') \in 0 .. Period - 1
        BY <2>4, <2>5
      <3> HIDE DEF n, k, b
      <3> QED  BY <1>1, <1>2, <2>6, <3>1, <3>2 DEF OnTime, Before, ToGo, Stretch
    <2>7. CASE ~(mtime' < mtimecmp')
      <3> DEFINE u == ToGo(time_count')
                 aP == asked' * Period
                 lP == (asked' - 1) * Period
                 wS == wraps' * Stretch
      <3>1. k = asked'
        <4>1. mtimecmp' - mtime' = 0  BY <1>1, <1>3, <2>1, <2>7
        <4>2. asked' \in Int  BY <1>1, <2>2
        <4> HIDE DEF k
        <4> QED  BY <2>5, <4>1, <4>2
      <3>2. u \in 0 .. Period - 1  BY <1>1, ToGoCounts
      <3>3. b = waited' + u - aP - wS  BY <3>1 DEF Before
      <3>4. aP \in Int /\ lP \in Int /\ aP = lP + Period
        <4>1. asked' - 1 \in Int /\ (asked' - 1) + 1 = asked'  BY <1>1, <2>2
        <4>2. ((asked' - 1) + 1) * Period = (asked' - 1) * Period + Period
          BY <1>1, <4>1, OneMore
        <4> QED  BY <1>1, <4>1, <4>2
      <3>5. wS \in Int  BY <1>1
      <3> HIDE DEF u, aP, lP, wS, b
      <3>6. waited' > lP + wS
        <4> DEFINE w == waited'
        <4>1. w \in Int /\ Period \in Int  BY <1>1
        <4>2. b >= 0 /\ b \in Int /\ u \in Int /\ u < Period  BY <2>4, <3>2, <4>1
        <4>3. b = w + u - aP - wS  BY <3>3
        <4> HIDE DEF w
        <4>4. w > lP + wS  BY <4>1, <4>2, <4>3, <3>4, <3>5
        <4> QED  BY <4>4 DEF w
      <3>7. waited' > (asked' - 1) * Period + wraps' * Stretch'
        BY <3>6 DEF lP, wS, Stretch
      <3> QED  BY <1>1, <1>2, <2>7, <3>7 DEF OnTime
    <2> QED  BY <2>6, <2>7
  <1>4. CASE ~(mtime < mtimecmp) /\ mtime' < mtimecmp
    <2>1. Begin(mtime', mtimecmp')  BY <1>1, <1>4 DEF Update, Wait
    <2>2. mtime' \in Time /\ mtimecmp' \in Time  BY DEF TypeOK
    <2> QED  BY <1>1, <1>2, <2>1, <2>2, BeginsOnTime
  <1>5. CASE ~(mtime < mtimecmp) /\ ~(mtime' < mtimecmp)
    <2>1. UNCHANGED wait  BY <1>1, <1>5 DEF Update, Wait
    <2>2. asked = 0 \/ waited > (asked - 1) * Period + wraps * Stretch
      BY <1>1, <1>5 DEF ClockInv, OnTime
    <2>3. asked' = 0 \/ waited' > (asked' - 1) * Period + wraps' * Stretch'
      BY <2>1, <2>2 DEF wait, Stretch
    <2> QED  BY <1>1, <1>2, <1>5, <2>3 DEF OnTime
  <1> QED  BY <1>3, <1>4, <1>5

LEMMA UpdateKeeps == ASSUME ClockInv, Update PROVE ClockInv'
  <1> USE PeriodFacts
  <1>1. time_count \in Int /\ -CountMax - 1 <= time_count /\ time_count <= CountMax
        /\ since \in Nat
    BY DEF ClockInv, TypeOK, Count
  <1>2. mtime' \in Time
    <2>1. ((mtime + 1) % (TimeMax + 1)) \in 0 .. TimeMax
      BY AclintConstants, Division DEF ClockInv, TypeOK, Time
    <2> QED  BY <2>1 DEF Update, ClockInv, TypeOK, Time
  <1>3. TypeOK'
    <2>1. asked' \in Nat /\ waited' \in Nat /\ wraps' \in Nat
      <3>1. UNCHANGED mtimecmp /\ mtimecmp \in Nat /\ mtime' \in Nat
        BY <1>2, AclintConstants DEF Update, ClockInv, TypeOK, Time
      <3>2. asked \in Nat /\ waited \in Nat /\ wraps \in Nat /\ Wait
        BY DEF Update, ClockInv, TypeOK
      <3>3. ASSUME mtime' < mtimecmp, Begin(mtime', mtimecmp)
            PROVE  asked' \in Nat /\ waited' \in Nat /\ wraps' \in Nat
        <4> DEFINE now == mtime'
                   ahead == mtimecmp - now
        <4>1. now \in Int /\ mtimecmp \in Int /\ now < mtimecmp  BY <3>1, <3>3
        <4>2. asked' = ahead /\ waited' = 0 /\ wraps' = 0  BY <3>3 DEF Begin
        <4> HIDE DEF now
        <4>3. ahead \in Nat  BY <4>1
        <4> HIDE DEF ahead
        <4> QED  BY <4>2, <4>3
      <3>4. CASE UNCHANGED wait  BY <3>2, <3>4 DEF wait
      <3>5. CASE waited' = waited + 1 /\ wraps' \in {wraps, wraps + 1} /\ asked' = asked
        BY <3>2, <3>5
      <3>6. \/ mtime' < mtimecmp /\ Begin(mtime', mtimecmp)
            \/ UNCHANGED wait
            \/ waited' = waited + 1 /\ wraps' \in {wraps, wraps + 1} /\ asked' = asked
        BY <3>2 DEF Wait
      <3> QED  BY <3>3, <3>4, <3>5, <3>6
    <2> QED  BY <1>1, <1>2, <2>1 DEF Update, ClockInv, TypeOK, Count
  <1>4. OnTime'  BY <1>3, UpdateOnTime
  <1>5. Interval'
    <2> DEFINE t == ToGo(time_count)
               u == ToGo(time_count + 1)
               w == ToGo(-CountMax - 1)
    <2>1. /\ t \in 0 .. Period - 1 /\ u \in 0 .. Period - 1 /\ w \in 0 .. Period - 1
          /\ Advances => u = Period - 1
          /\ ~Advances => t >= 1 /\ u = t - 1
      BY <1>1, ToGoCounts DEF Advances
    <2>2. /\ since + t <= 2 * Period - 2
          /\ time_count > 0 => since + t <= Period - 1
      BY DEF ClockInv, Interval
    <2>3. since' = IF Advances THEN 0 ELSE since + 1  BY DEF Update
    <2>4. CASE time_count = CountMax
      <3>1. time_count' = -CountMax - 1 /\ ToGo(time_count') = w  BY <2>4 DEF Update
      <3> HIDE DEF t, u, w
      <3>2. since' + w <= 2 * Period - 2  BY <1>1, <2>1, <2>2, <2>3, <2>4
      <3> QED  BY <3>1, <3>2 DEF Interval
    <2>5. CASE time_count # CountMax
      <3>1. time_count' = time_count + 1 /\ ToGo(time_count') = u  BY <2>5 DEF Update
      <3>2. time_count = 0 => Advances
        <4>1. (0 % Period) = 0
          <5>1. 0 = Period * 0 + 0 /\ 0 \in 0 .. Period - 1  BY SMT
          <5> QED  BY <5>1, Remainder
        <4> QED  BY <4>1 DEF Advances
      <3> HIDE DEF t, u, w
      <3>3. since' + u <= 2 * Period - 2  BY <1>1, <2>1, <2>2, <2>3
      <3>4. time_count + 1 > 0 => since' + u <= Period - 1
        BY <1>1, <2>1, <2>2, <2>3, <3>2
      <3> QED  BY <3>1, <3>3, <3>4 DEF Interval
    <2> QED  BY <2>4, <2>5
  <1> QED  BY <1>3, <1>4, <1>5 DEF ClockInv

LEMMA ClockStep == ASSUME ClockInv, [Next]_avars PROVE ClockInv'
  <1>1. CASE UNCHANGED avars
    BY <1>1 DEF avars, device, wait, ClockInv, TypeOK, Interval, OnTime, Before, ToGo, Stretch
  <1> QED
    BY <1>1, InstructionKeeps, UpdateKeeps DEF Next, Aborted

LEMMA ClockHolds == Spec => []ClockInv
  BY InitHolds, ClockStep, PTL DEF Spec

-----------------------------------------------------------------------------
\* The registers keep their width (aclint.c:4-35).
THEOREM ClockTypeCorrect == Spec => []TypeOK
  BY ClockHolds, PTL DEF ClockInv

\* The timer interrupt is neither early nor late by as much as one tick, whatever the
\* guest stored before and through the wraps of the time and of the counter of updates,
\* for every width of both and every period (aclint.c:17-34).
THEOREM TimerIsPunctual == Spec => []TimerPunctual
  <1>1. ClockInv => TimerPunctual
    <2> SUFFICES ASSUME ClockInv, phase = "exec" PROVE
            /\ mtip = 1 => asked = 0 \/ waited > (asked - 1) * Period + wraps * Stretch
            /\ mtip = 0 => waited < asked * Period + wraps * Stretch
      BY DEF TimerPunctual
    <2>1. /\ mtime \in Int /\ mtimecmp \in Int /\ asked \in Int /\ waited \in Int /\ wraps \in Int
          /\ time_count \in Int /\ Period \in Nat \ {0} /\ Stretch \in Int
      BY AclintConstants, PeriodFacts, StretchIsInt DEF ClockInv, TypeOK, Time, Count
    <2>2. mtip = 1 => asked = 0 \/ waited > (asked - 1) * Period + wraps * Stretch
      BY DEF ClockInv, OnTime
    <2>3. ASSUME mtip = 0 PROVE waited < asked * Period + wraps * Stretch
      <3> DEFINE n == asked - (mtimecmp - mtime)
                 t == ToGo(time_count)
                 nP == n * Period
                 oP == (n + 1) * Period
                 aP == asked * Period
                 wS == wraps * Stretch
      <3>1. mtime < mtimecmp  BY <2>1, <2>3 DEF ClockInv, OnTime
      <3>2. Before(waited, time_count, n, wraps) \in 0 .. Period - 1 /\ n + 1 <= asked /\ n \in Int
        BY <2>1, <3>1 DEF ClockInv, OnTime
      <3>3. t \in 0 .. Period - 1  BY <2>1, ToGoCounts
      <3>4. nP \in Int /\ oP = nP + Period  BY <2>1, <3>2, OneMore
      <3>5. aP \in Int /\ wS \in Int  BY <2>1
      <3>6. oP <= aP
        <4>1. aP = oP + (asked - (n + 1)) * Period  BY <2>1, <3>2
        <4>2. (asked - (n + 1)) * Period >= 0  BY <2>1, <3>2
        <4> QED  BY <2>1, <3>2, <4>1, <4>2
      <3>7. Before(waited, time_count, n, wraps) = waited + t - nP - wS  BY DEF Before
      <3> HIDE DEF n, t, nP, oP, aP, wS
      <3>8. waited < aP + wS  BY <2>1, <3>2, <3>3, <3>4, <3>5, <3>6, <3>7
      <3> QED  BY <3>8 DEF aP, wS
    <2> QED  BY <2>2, <2>3
  <1> QED  BY <1>1, ClockHolds, PTL

\* The overflow of the counter of updates never stretches an interval of the clock to
\* two periods, for every width of the counter and every period (aclint.c:25-30).
THEOREM ClockIsSteady == Spec => []ClockSteady
  <1>1. ClockInv => ClockSteady
    <2> SUFFICES ASSUME ClockInv PROVE ClockSteady  OBVIOUS
    <2>1. time_count \in Int /\ since \in Nat  BY PeriodFacts DEF ClockInv, TypeOK, Count
    <2>2. ToGo(time_count) \in 0 .. Period - 1  BY <2>1, ToGoCounts
    <2> QED  BY <2>1, <2>2, PeriodFacts DEF ClockInv, Interval, ClockSteady
  <1> QED  BY <1>1, ClockHolds, PTL

-----------------------------------------------------------------------------
(* The timer comes.  Far is how many times the clock has yet to advance    *)
(* until it reaches the comparand, around the wrap where it is past it.    *)

Far == IF mtime < mtimecmp THEN mtimecmp - mtime ELSE mtimecmp + (TimeMax + 1 - mtime)

At(e, s) == Far = e /\ since = s
Nearer(e, s) == \/ Far < e
                \/ Far = e /\ since > s
Fires == mtip = 1

\* An update that does not set the bit leaves the clock nearer to the comparand, or as
\* near and the interval of the clock longer.
LEMMA UpdateNears ==
    ASSUME NEW e, NEW s, ClockInv, At(e, s), Update
    PROVE  Fires' \/ Nearer(e, s)'
  <1> USE AclintConstants
  <1>1. mtime \in 0 .. TimeMax /\ mtimecmp \in 0 .. TimeMax /\ since \in Nat
    BY DEF ClockInv, TypeOK, Time
  <1>2. mtimecmp' = mtimecmp /\ (mtime' >= mtimecmp => Fires')  BY DEF Update, Fires
  <1>3. CASE Advances
    <2>1. mtime' = IF mtime = TimeMax THEN 0 ELSE mtime + 1
      BY <1>3, ClockAdvances DEF Update, ClockInv
    <2>2. mtime' < mtimecmp => Far' < Far  BY <1>1, <1>2, <2>1 DEF Far
    <2>3. Far' < Far => Nearer(e, s)'  BY DEF Nearer, At
    <2>4. mtime' \in Int  BY <1>1, <2>1
    <2> QED  BY <1>1, <1>2, <2>2, <2>3, <2>4
  <1>4. CASE ~Advances
    <2>1. mtime' = mtime /\ since' = since + 1  BY <1>4 DEF Update
    <2> QED  BY <1>1, <1>2, <2>1 DEF Nearer, At, Far
  <1> QED  BY <1>3, <1>4

\* Nothing else moves the clock, but a store to its registers.
LEMMA NothingElse ==
    ASSUME NEW e, NEW s, At(e, s), [Next]_avars, ~Update, ~StoreTimer PROVE At(e, s)'
  <1>1. UNCHANGED <<mtime, mtimecmp, since>>
    BY DEF Next, Other, StoreMsip, WriteMip, Aborted, Exec, device, avars
  <1> QED  BY <1>1 DEF At, Far

\* From a guest that no longer stores to the timer, every time the timer is updated it
\* fires or has come nearer to firing, whatever the registers hold: across the wrap of
\* the clock, and with the counter of updates at its limit (aclint.c:17-34).  Far is
\* bounded by the width of the registers and since by ClockIsSteady, so that this can
\* happen only so often: it is the step of the argument that TimerFires holds.
THEOREM TimerComesNearer ==
    ASSUME NEW e, NEW s
    PROVE  Spec /\ []<><<Update>>_avars /\ [][~StoreTimer]_avars
             => (At(e, s) ~> (Fires \/ Nearer(e, s)))
  <1>1. ClockInv /\ At(e, s) /\ <<Update>>_avars => (Fires \/ Nearer(e, s))'
    BY UpdateNears
  <1>2. At(e, s) /\ ClockInv /\ [Next]_avars /\ [~StoreTimer]_avars
          => At(e, s)' \/ (Fires \/ Nearer(e, s))'
    <2>1. CASE UNCHANGED avars  BY <2>1 DEF At, Far, avars, device
    <2>2. CASE ~StoreTimer  BY <2>2, UpdateNears, NothingElse
    <2> QED  BY <2>1, <2>2
  <1> QED  BY <1>1, <1>2, ClockHolds, PTL DEF Spec

-----------------------------------------------------------------------------
(* The loop of plic_update finds the winner.                               *)

Candidate == [id : 0 .. 31, priority : Nat]

\* b is the maximum of the sources below i.
Leads(i, b) ==
    \/ /\ b.id = 0 /\ b.priority = 0
       /\ \A j \in Live : j < i => source_priority[j] = 0
    \/ /\ b.id \in Live /\ b.id < i /\ b.priority = source_priority[b.id] /\ b.priority > 0
       /\ \A j \in Live : (j < i /\ j # b.id) =>
             \/ source_priority[j] < b.priority
             \/ source_priority[j] = b.priority /\ b.id < j

\* One turn of the loop, at source k - 1.
Turn(k, b) == IF k - 1 \in Live /\ source_priority[k - 1] > b.priority
              THEN [id |-> k - 1, priority |-> source_priority[k - 1]]
              ELSE b

LEMMA LiveTypes ==
    ASSUME PlicTypeOK
    PROVE  /\ Live \subseteq 1 .. 31
           /\ \A i \in Live : source_priority[i] \in Nat
           /\ target_threshold \in Nat
  <1>1. Sources \subseteq 1 .. 31 /\ Priorities \subseteq Nat  BY PlicConstants
  <1> QED  BY <1>1 DEF PlicTypeOK, Live

LEMMA TurnLeads ==
    ASSUME PlicTypeOK, NEW k \in 1 .. 32, NEW b \in Candidate
    PROVE  Turn(k, b) \in Candidate /\ (Leads(k - 1, b) => Leads(k, Turn(k, b)))
  <1> USE LiveTypes
  <1>1. CASE k - 1 \in Live /\ source_priority[k - 1] > b.priority
    <2> DEFINE t == [id |-> k - 1, priority |-> source_priority[k - 1]]
    <2>1. Turn(k, b) = t /\ t \in Candidate  BY <1>1 DEF Turn, Candidate
    <2>2. ASSUME Leads(k - 1, b), NEW j \in Live, j < k, j # k - 1
          PROVE  source_priority[j] < source_priority[k - 1]
      BY <1>1, <2>2 DEF Leads, Candidate
    <2>3. source_priority[k - 1] > 0  BY <1>1 DEF Candidate
    <2>4. Leads(k - 1, b) => Leads(k, t)  BY <1>1, <2>2, <2>3 DEF Leads
    <2> QED  BY <2>1, <2>4
  <1>2. CASE ~(k - 1 \in Live /\ source_priority[k - 1] > b.priority)
    <2>1. Turn(k, b) = b  BY <1>2 DEF Turn
    <2>2. Leads(k - 1, b) => Leads(k, b)  BY <1>2 DEF Leads, Candidate
    <2> QED  BY <2>1, <2>2
  <1> QED  BY <1>1, <1>2

\* The function that the loop computes exists.
LEMMA BestExists ==
    ASSUME PlicTypeOK
    PROVE  \E f \in [0 .. 32 -> Candidate] :
              f[0] = [id |-> 0, priority |-> 0] /\ \A k \in 1 .. 32 : f[k] = Turn(k, f[k - 1])
  <1> DEFINE none == [id |-> 0, priority |-> 0]
             G == [k \in 1 .. 32 |-> [b \in Candidate |-> Turn(k, b)]]
  <1>1. none \in Candidate  BY DEF Candidate
  <1>2. G \in [1 .. 32 -> [Candidate -> Candidate]]  BY TurnLeads
  <1>3. \A k \in 1 .. 32, b \in Candidate : G[k][b] = Turn(k, b)  OBVIOUS
  <1>4. 32 \in Nat  OBVIOUS
  <1> HIDE DEF none, G
  <1>5. PICK f : Recursive(f, 32, Candidate, none, G)
    BY <1>1, <1>2, <1>4, Recursion
  <1>6. \A k \in 1 .. 32 : f[k] = Turn(k, f[k - 1])
    <2> TAKE k \in 1 .. 32
    <2>1. k - 1 \in 0 .. 32  OBVIOUS
    <2>2. f[k - 1] \in Candidate  BY <1>5, <2>1 DEF Recursive
    <2> QED  BY <1>3, <1>5, <2>2 DEF Recursive
  <1> QED  BY <1>5, <1>6 DEF none, Recursive

LEMMA SearchLeads == ASSUME PlicTypeOK PROVE Leads(32, Search)
  <1> DEFINE Loop(f) == [i \in 0 .. 32 |->
                IF i = 0 THEN [id |-> 0, priority |-> 0]
                ELSE IF i - 1 \in Live /\ source_priority[i - 1] > f[i - 1].priority
                     THEN [id |-> i - 1, priority |-> source_priority[i - 1]]
                     ELSE f[i - 1]]
             best == CHOOSE f : f = Loop(f)
  <1>1. Search = best[32]  BY DEF Search
  <1>2. \E f : f = Loop(f)
    <2>1. PICK f \in [0 .. 32 -> Candidate] :
             f[0] = [id |-> 0, priority |-> 0] /\ \A k \in 1 .. 32 : f[k] = Turn(k, f[k - 1])
      BY BestExists
    <2>2. ASSUME NEW i \in 0 .. 32 PROVE f[i] = Loop(f)[i]
      <3>1. CASE i = 0  BY <2>1, <3>1
      <3>2. CASE i # 0
        <4>1. i \in 1 .. 32 /\ f[i] = Turn(i, f[i - 1])  BY <2>1, <3>2
        <4> QED  BY <3>2, <4>1 DEF Turn
      <3> QED  BY <3>1, <3>2
    <2>3. f = Loop(f)  BY <2>2
    <2> HIDE DEF Loop
    <2> QED  BY <2>3
  <1>3. best = Loop(best)
    <2> HIDE DEF Loop
    <2> QED  BY <1>2
  <1> HIDE DEF best
  <1>4. best[0] = [id |-> 0, priority |-> 0]
    BY <1>3
  <1>5. ASSUME NEW k \in 1 .. 32 PROVE best[k] = Turn(k, best[k - 1])
    <2>1. k \in 0 .. 32 /\ k # 0  OBVIOUS
    <2>2. best[k] = Loop(best)[k]  BY <1>3
    <2> QED  BY <2>1, <2>2 DEF Turn
  <1> HIDE DEF Loop
  <1> DEFINE Led == {i \in 0 .. 32 : best[i] \in Candidate /\ Leads(i, best[i])}
  <1>6. 0 \in Led
    BY <1>4, LiveTypes DEF Leads, Candidate
  <1>7. ASSUME NEW i \in 0 .. 32 - 1, i \in Led PROVE i + 1 \in Led
    <2>1. i + 1 \in 1 .. 32 /\ (i + 1) - 1 = i  OBVIOUS
    <2>2. best[i + 1] = Turn(i + 1, best[i])  BY <1>5, <2>1
    <2> QED  BY <1>7, <2>1, <2>2, TurnLeads
  <1> HIDE DEF Led
  <1>8. 32 \in Nat /\ 32 \in 0 .. 32  OBVIOUS
  <1>9. 32 \in Led  BY <1>6, <1>7, <1>8, InductionUpTo
  <1> QED  BY <1>1, <1>9 DEF Led

-----------------------------------------------------------------------------
(* The invariant of the controller: at an instruction boundary the claim   *)
(* is the winner.                                                          *)

Chosen ==
    \/ \E i \in Live : /\ Wins(i, Live) /\ target_claim = i
                       /\ seip = IF source_priority[i] > target_threshold THEN 1 ELSE 0
    \/ /\ \A i \in Live : source_priority[i] = 0
       /\ target_claim = 0 /\ seip = 0

BoardTypeOK == PlicTypeOK /\ board \in {"exec", "update", "aborted"}
BoardInv == BoardTypeOK /\ (board = "exec" => Chosen)

LEMMA BoardInit == BInit => BoardInv
  BY PlicConstants
  DEF BInit, PlicInit, BoardInv, BoardTypeOK, PlicTypeOK, Chosen, Live

LEMMA GuestKeeps == ASSUME BoardInv, Guest PROVE BoardInv'
  <1>1. board = "exec" /\ board' \in {"update", "aborted"}  BY DEF Guest
  <1>2. CASE PlicConfigure
    <2>1. /\ target_enables' \subseteq Sources /\ target_threshold' \in Priorities
          /\ source_priority' \in [Sources -> Priorities]
          /\ UNCHANGED <<source_pending, target_claim, seip>>
      BY <1>2 DEF PlicConfigure, BoardInv, BoardTypeOK, PlicTypeOK
    <2> QED  BY <1>1, <1>2, <2>1 DEF BoardInv, BoardTypeOK, PlicTypeOK
  <1>3. CASE WriteSeip \/ UNCHANGED pvars
    BY <1>1, <1>3 DEF WriteSeip, pvars, pconfig, BoardInv, BoardTypeOK, PlicTypeOK
  <1>4. ASSUME PlicOverrun \/ \E id \in Ids : PlicComplete(id) PROVE BoardInv'
    BY <1>1, <1>4 DEF PlicOverrun, PlicComplete, pconfig, BoardInv, BoardTypeOK, PlicTypeOK
  <1> QED  BY <1>2, <1>3, <1>4 DEF Guest, PlicAborts

LEMMA DevicesKeep == ASSUME BoardInv, Devices PROVE BoardInv'
  <1>1. PICK raised \in SUBSET Sources : PlicUpdate(raised)
    BY DEF Devices
  <1> DEFINE live == (source_pending \cup raised) \cap target_enables
  <1>2. /\ source_pending' = source_pending \cup raised /\ UNCHANGED pconfig
        /\ \/ \E i \in live : /\ Wins(i, live) /\ target_claim' = i
                              /\ seip' = IF source_priority[i] > target_threshold THEN 1 ELSE 0
           \/ /\ \A i \in live : source_priority[i] = 0
              /\ target_claim' = 0 /\ seip' = 0
    BY <1>1 DEF PlicUpdate
  <1>3. Live' = live /\ UNCHANGED <<source_priority, target_enables, target_threshold>>
    BY <1>2 DEF Live, pconfig
  <1>4. Chosen'  BY <1>2, <1>3 DEF Chosen, Wins
  <1>5. live \subseteq Sources /\ board' = "exec"
    BY DEF BoardInv, BoardTypeOK, PlicTypeOK, Devices
  <1>6. BoardTypeOK'
    BY <1>1, <1>2, <1>3, <1>5 DEF BoardInv, BoardTypeOK, PlicTypeOK
  <1> QED  BY <1>4, <1>6 DEF BoardInv

LEMMA BoardStep == ASSUME BoardInv, [BNext]_bvars PROVE BoardInv'
  <1>1. CASE UNCHANGED bvars
    BY <1>1 DEF bvars, pvars, BoardInv, BoardTypeOK, PlicTypeOK, Chosen, Live, Wins
  <1>2. CASE Halted  BY <1>1, <1>2 DEF Halted
  <1> QED  BY <1>1, <1>2, GuestKeeps, DevicesKeep DEF BNext

LEMMA BoardHolds == BSpec => []BoardInv
  BY BoardInit, BoardStep, PTL DEF BSpec

\* The winner of Wins is what the loop leads to.
LEMMA ChosenIsFound ==
    ASSUME PlicTypeOK, Chosen
    PROVE  target_claim = Search.id /\ (seip = 1 <=> Search.priority > target_threshold)
  <1> USE LiveTypes
  <1> DEFINE b == Search
  <1>1. Leads(32, b)  BY SearchLeads
  <1> HIDE DEF b
  <1>2. CASE b.id = 0 /\ b.priority = 0 /\ \A j \in Live : j < 32 => source_priority[j] = 0
    <2>1. \A j \in Live : source_priority[j] = 0  BY <1>2
    <2>2. target_claim = 0 /\ seip = 0  BY <2>1 DEF Chosen, Wins
    <2> QED  BY <1>2, <2>2 DEF b
  <1>3. CASE /\ b.id \in Live /\ b.priority = source_priority[b.id] /\ b.priority > 0
             /\ \A j \in Live : (j < 32 /\ j # b.id) =>
                   \/ source_priority[j] < b.priority
                   \/ source_priority[j] = b.priority /\ b.id < j
    <2>1. PICK i \in Live : /\ Wins(i, Live) /\ target_claim = i
                            /\ seip = IF source_priority[i] > target_threshold THEN 1 ELSE 0
      BY <1>3 DEF Chosen
    <2>2. i = b.id  BY <1>3, <2>1 DEF Wins
    <2> QED  BY <1>3, <2>1, <2>2 DEF b
  <1> QED  BY <1>1, <1>2, <1>3 DEF Leads

-----------------------------------------------------------------------------
\* At every instruction boundary the claim register and the interrupt line are what
\* the loop over the 32 sources computes from the registers (plic.c:41-58).
THEOREM ClaimIsCurrent == BSpec => []ClaimCurrent
  <1>1. BoardInv => ClaimCurrent
    BY ChosenIsFound DEF BoardInv, BoardTypeOK, ClaimCurrent
  <1> QED  BY <1>1, BoardHolds, PTL

\* Every register and line of both devices keeps its width when either runs
\* (aclint.c:4-35, plic.c:3-58).
THEOREM DevicesTypeCorrect == DSpec => []DTypeOK
  <1>1. DInit => ClockInv /\ BoardInv  BY InitHolds, BoardInit DEF DInit
  <1>2. ASSUME ClockInv, BoardInv, [DNext]_dvars PROVE ClockInv' /\ BoardInv'
    <2>1. [Next]_avars /\ [BNext]_bvars  BY <1>2 DEF DNext, dvars
    <2> QED  BY <1>2, <2>1, ClockStep, BoardStep
  <1>3. ClockInv /\ BoardInv => DTypeOK  BY DEF ClockInv, BoardInv, BoardTypeOK, DTypeOK
  <1> QED  BY <1>1, <1>2, <1>3, PTL DEF DSpec
=============================================================================
