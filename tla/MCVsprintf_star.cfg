SPECIFICATION Spec
CONSTANTS
  Word <- MCWord
  Chars <- MCChars
  Calls <- StarCalls
CHECK_DEADLOCK FALSE
INVARIANT StarTaken
