\* The timer: three-bit time, a counter of -8..7 updates, the clock advancing every
\* third update: both wrap many times, and 16 is not a multiple of 3, so the wrap of
\* the counter shifts the phase of the clock as it does with 25.  The controller:
\* two sources, so that arbitration has ties and losers, and three priorities around
\* the threshold.
SPECIFICATION DSpec
CONSTANTS
  TimeMax = 7
  CountMax = 7
  Period = 3
  Sources = {1, 3}
  Priorities = {0, 1, 2}
  Ids = {0, 1, 3}
INVARIANTS DTypeOK TimerPunctual ClockSteady ClaimCurrent
PROPERTIES TimerFires
