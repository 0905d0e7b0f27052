SPECIFICATION Spec
CONSTANTS
  WIDTH = 2
  HEIGHT = 2
  MEM_SIZE = 9
  MaxCount = 4
INVARIANTS CursorConsistent TextAtCursor OverrunBounded
PROPERTY NewRowBlank
