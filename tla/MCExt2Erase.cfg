\* Six blocks, three inodes; the last link of a file may go.
CONSTANTS
  None = None
  a = a
  b = b
  BlockCount = 6
  InodeCount = 3
  Names = {a, b}
  Direct = 1
  Pointers = 2
  PerBlock = 4
  Sectors = 2
  MaxSize = 3
  MaxHandles = 1
  MaxLinks = 2
  Erasing = TRUE
SPECIFICATION Spec
CHECK_DEADLOCK FALSE
INVARIANT CountsTrue
