CONSTANTS
  Off = Off
  a1 = a1
  a2 = a2
  c1 = c1
  c2 = c2
SPECIFICATION Spec
CHECK_DEADLOCK FALSE
SYMMETRY Symmetry
INVARIANTS
  
  KeptApart
  
  ReceiversServed
