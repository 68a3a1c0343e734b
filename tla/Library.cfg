\* The parts share nothing: each history is one print, one call on bytes, one copy, one search or one name.
SPECIFICATION Spec
CONSTANTS
  Parts = {"text", "bytes", "copies", "acpi", "names"}
  UINT = 32768
  Str = 0
  MaxTokens = 3
  Sizes = {4, 12}
  Calls <- MCCalls
  Bits = 3
  Inputs <- MCInputs
  CopyCalls <- MCCopyCalls
  Begin = 8
  End = 14
  Areas <- MCAreas
  Junk <- MCJunk
  RSDP_SIG <- Sig
  FACP_SIG <- Fadt
  Descriptors <- MCDescriptors
  RootTables <- MCRootTables
  FileNames <- MCFileNames
  Behind <- MCBehind
INVARIANTS FormatsAsDocumented MemoryMoves BytesAddUp SearchIsExact FadtsDumped NamesComeBack
PROPERTY Returns
\* A call that has returned is over.
CHECK_DEADLOCK FALSE
