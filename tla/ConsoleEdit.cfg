\* A line is typed, shifted, corrected and entered while the kernel reads it.
CONSTANTS
  Keys <- Editing
  BeyondTable <- Adverse
  MaxMakes = 4
  MaxWire = 2
  MaxResends = 0
  Size = 3
SPECIFICATION FairSpec
INVARIANT CommandIsEdited
PROPERTIES KeysInOrder MailboxEmptied
\* MaxMakes ends the typing.
CHECK_DEADLOCK FALSE
