SPECIFICATION Spec
CONSTANTS
  Methods <- MethodsInOrder
  Widths <- SmallWidths
  Heights <- SmallHeights
  Bands = 3
INVARIANTS
  StaysInPicture
  LinesStayLines
  EveryPixelPlaced
\* A picture ends with its last line.
CHECK_DEADLOCK FALSE
