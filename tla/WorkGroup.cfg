CONSTANTS
  Launches <- MCLaunches
  ThreadSizes = {1, 2, 3, 4}
  VectorLens = {1, 2, 4}
SPECIFICATION Spec
INVARIANTS Coverage ExactlyOnceIffAligned MaskedInGroup
PROPERTY NestEnds
CHECK_DEADLOCK FALSE
