\* The debug queue and two lines of any kind, under three interrupt lines.
CONSTANTS
  Queue <- MCQueue
  Lines = {"root", "regs", "logout", "exit", "serial_com_test", "trowexception"}
  MaxLines = 2
  Exceptions = {0, 13}
  Fields = 2
SPECIFICATION FairSpec
INVARIANTS VectorsReady PromptMatches RegsOfOneMoment AllAcknowledged FaultNamed
PROPERTIES Answers KeysRead
\* exit and a fault halt the machine.
CHECK_DEADLOCK FALSE
