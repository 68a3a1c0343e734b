\* IRQ1 between the two steps of getch.
CONSTANTS
  Keys <- Editing
  BeyondTable <- Adverse
  MaxMakes = 4
  MaxWire = 2
  MaxResends = 0
  Size = 3
SPECIFICATION Spec
PROPERTY DiscardsWhatItReturns
\* MaxMakes ends the typing.
CHECK_DEADLOCK FALSE
