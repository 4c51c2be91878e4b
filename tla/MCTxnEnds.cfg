SPECIFICATION FairSpec
CHECK_DEADLOCK FALSE
CONSTANTS
  A = A  B = B  C = C  a = a  b = b  b2 = b2  c = c
  NoThread = NoThread  NoProc = NoProc
  Procs = {A, B, C}
  Threads = {a, b, c}
  ProcOf <- ChainProcOf
  Calls <- ChainCalls
  Faults = {"reply", "user", "alloc", "copy"}
  Exits = {}
  Deaths = {B}
  MaxTxns = 2
  MaxTodo = 1
PROPERTIES EveryCallEnds
