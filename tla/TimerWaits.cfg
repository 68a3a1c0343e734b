\* The low word carries five times in the uptime followed.
CONSTANTS
  W = 10
  Second = 4
  Delays = {1, 3}
  Sleeps = {1, 2}
  MaxTicks = 50
SPECIFICATION FairSpec
PROPERTIES WaitEnds NotTooLong DelayLongEnough SleepEndsOnSecond
\* MaxTicks ends the uptime followed.
CHECK_DEADLOCK FALSE
