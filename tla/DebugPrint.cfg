\* Two calls of formats with every conversion, numbers of five bits.
CONSTANTS
  Formats       <- SmallFormats
  Calls         <- SmallCalls
  MaxCalls       = 2
  Width          = 5
  Leftovers      = {0, 17}
  LeftoverTexts <- SomeTexts
  FifoSize       = 1
SPECIFICATION Spec
INVARIANTS
  TypeOK
  BufferKept
PROPERTIES
  PrintfAdvances
  ImplementsConsole
CHECK_DEADLOCK FALSE
