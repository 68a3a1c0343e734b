\* Three rows of three cells over a buffer of six rows: printing, typing, clearing
\* and scrolling past the end of the buffer.
CONSTANTS
  W = 3
  H = 3
  ROWS = 5
  MaxOut = 9
  MaxTyped = 3
SPECIFICATION Spec
INVARIANTS TypeOK ScreenIsWindow CursorFollows
PROPERTY ImplementsTerminal
\* MaxOut ends the output.
CHECK_DEADLOCK FALSE
