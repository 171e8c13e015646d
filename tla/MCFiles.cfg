CONSTANTS
  None = None
  Off = Off
  x1 = x1
  x2 = x2
  f1 = f1
  f2 = f2
  p1 = p1
  p2 = p2
  t1 = t1
  t2 = t2
  t3 = t3
  Blocks = {"b1", "b2", "b3"}
  Data = {0, 1}
  Slots = {"s1", "s2"}
  Processes = {"p1", "p2"}
  Callers = {t1, t2, t3}
  Own <- Owner
  OpenFiles = {"f1", "f2"}
  Inodes = {"n1"}
  MaxHandles = 2
  MaxPos = 2
  MaxCalls = 4
  Users = {t1, t2}
  LinkNames = {x1, x2}
  Chunk = 2
  MaxSize = 3
  MaxOpen = 2
SPECIFICATION FilesSpec
CHECK_DEADLOCK FALSE
SYMMETRY Symmetry
INVARIANTS
  
  Coherent
  
  
  FileLives
PROPERTY FileKept
