SPECIFICATION Spec
CONSTANTS
  Widths <- OneWidth
  Heights <- SmallHeights
  FrameHeights <- SomeFrameHeights
  Fields <- SomeFields
  Depths <- SomeDepths
  Interlaces <- SomeInterlaces
  MaxBufs = 2
  MaxDone = 1
INVARIANTS
  OutputFollowsPicture
  
\* A wait that finds no output buffer ends the program.
CHECK_DEADLOCK FALSE
