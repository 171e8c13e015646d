CONSTANTS
  None = None
  Off = Off
  a1 = a1
  a2 = a2
  c1 = c1
  c2 = c2
  Nodes = {"n1", "n2", "n3", "n4"}
  Values = {"a", "b"}
  MaxCache = 2
  Readers = {a1, a2}
  Writers = {c1, c2}
  MaxLength = 2
  MaxBytes = 3
  Viewers = {"reader"}
  Masters = {"master"}
  Slaves = {"slave"}
  Inputs <- Lines
  Capacity = 2
  MaxTyped = 3
  Clients = {c1, c2}
  Servers = {"server"}
  IDs = {1, 2}
  Awaited = {1}
  Limit = 1
  MaxSent = 2
  Providers = {a1, a2}
  Connectors = {c1, c2}
  Names = {"name"}
  Services = {"s1", "s2"}
  MaxConnects = 1
  Callers = {"t", c1, c2}
  Given <- Handed
  Spare <- Accepted
  Backlog = 0
  StreamSize = 3
  MaxCalls = 2
  Main = "main"
  Others = {c1, c2}
  Senders = {a1, a2}
  SigInt = 1
  SigKill = 2
  SigUsr = 3
  MaxFrames = 2
  Budgets <- Casts
SPECIFICATION IpcSpec
CHECK_DEADLOCK FALSE
SYMMETRY Symmetry
INVARIANTS
  
  
  PeersAgree
  
  HandlersMasked
PROPERTY ListsImplement
