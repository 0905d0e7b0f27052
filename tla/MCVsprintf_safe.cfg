SPECIFICATION Spec
CONSTANTS
  Word <- MCWord
  Chars <- MCChars
  Calls <- MCAllCalls
CHECK_DEADLOCK FALSE
INVARIANTS
  TypeOK
  ArgsInStep
PROPERTIES
  ReadsBack
  LayoutRight
