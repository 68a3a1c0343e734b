\* Caps lock, with a controller that may take its time.
CONSTANTS
  Keys <- Locks
  BeyondTable <- Adverse
  MaxMakes = 4
  MaxWire = 2
  MaxResends = 0
  Size = 3
SPECIFICATION FairSpec
PROPERTY SendEnds
\* MaxMakes ends the typing.
CHECK_DEADLOCK FALSE
