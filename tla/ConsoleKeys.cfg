\* Modifiers, plain, extended and past the table, and caps lock, pressed and
\* released in any order; the keyboard may ask for a byte again.
CONSTANTS
  Keys <- Modifiers
  BeyondTable <- Adverse
  MaxMakes = 3
  MaxWire = 2
  MaxResends = 1
  Size = 3
SPECIFICATION Spec
INVARIANTS ModifiersRelease CapsLedFollows
\* MaxMakes ends the typing.
CHECK_DEADLOCK FALSE
