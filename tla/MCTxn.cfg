SPECIFICATION Spec
CHECK_DEADLOCK FALSE
CONSTANTS
  A = A  B = B  C = C  a = a  b = b  b2 = b2  c = c
  NoThread = NoThread  NoProc = NoProc
  Procs = {A, B}
  Threads = {a, b, b2}
  ProcOf <- PoolProcOf
  Calls <- PoolCalls
  MaxTxns = 3
  MaxTodo = 2
  Faults = {"fd"}
  Exits = {b2}
  Deaths = {B}
INVARIANTS StacksSound TxnsSound OnewaySerialised TodoFlagTrue
