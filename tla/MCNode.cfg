CONSTANTS
  Procs = {"o", "c", "e"}
  Owner = "o"
  Threads = {"o1", "o2", "c1", "e1"}
  ProcOf <- MCProcOf
  Loopers = {"o1", "c1"}
  Nodes = {"n1", "n2"}
  Deaths = {d1, d2}
  Bufs = {b1, b2}
  MaxCount = 1
  MaxLocal = 4
  Mortal = {"o", "c"}
  Uses <- MCUses
  None = None
SYMMETRY Symmetry
SPECIFICATION Spec
CHECK_DEADLOCK FALSE
INVARIANTS NodesSound CountsBalance OwnerHears NoticePlaced
