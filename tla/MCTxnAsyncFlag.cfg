SPECIFICATION Spec
INVARIANT AsyncInProgress
CHECK_DEADLOCK FALSE
CONSTANTS
  A = A  B = B  C = C  a = a  b = b  b2 = b2  c = c
  NoThread = NoThread  NoProc = NoProc
  Procs = {A, B}
  Threads = {a, b, b2}
  ProcOf <- PoolProcOf
  Calls <- PoolCalls
  Faults = {}
  Exits = {b}
  Deaths = {}
  MaxTxns = 3
  MaxTodo = 2
