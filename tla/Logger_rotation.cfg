\* Three rotated files of two lines each, nine lines, and every failure.
CONSTANTS
  MaxFiles = 3
  MaxSize = 2
  MaxLines = 9
SPECIFICATION LoggerSpec
CHECK_DEADLOCK FALSE
INVARIANTS
  NoLineVanishes
  InOrder
  OldestDroppedFirst
