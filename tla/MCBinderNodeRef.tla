-------------------------- MODULE MCBinderNodeRef --------------------------
(* An instance of BinderNodeRef for TLC.                                    *)
EXTENDS BinderNodeRef, TLC

MCProcOf == [t \in Threads |-> CASE t \in {"o1", "o2"} -> "o"
                                [] t = "c1" -> "c" [] OTHER -> "e"]

\* The owner and one client of one thread each do nearly everything there is;
\* an owner of two threads sends its object twice, and memory may run out;
\* three processes pass handles on and ask for notice of death; two notices on
\* the context manager.
MCUses ==
  {[threads |-> {"o1", "c1"}, acts |-> AllActs \ {"nomem", "ctxmgr"},
    nodes |-> {"n1"}, deaths |-> 1, bufs |-> 1],
   [threads |-> {"o1", "o2", "c1"}, acts |-> {"calls", "binders", "handles", "nomem"},
    nodes |-> {"n1", "n2"}, deaths |-> 0, bufs |-> 2],
   [threads |-> {"o1", "c1", "e1"}, acts |-> {"binders", "handles"},
    nodes |-> {"n1"}, deaths |-> 1, bufs |-> 1],
   [threads |-> {"o1", "c1"}, acts |-> {"ctxmgr", "weak", "exit"},
    nodes |-> {"n1"}, deaths |-> 2, bufs |-> 0]}
Symmetry == Permutations(Deaths) \cup Permutations(Bufs)
=============================================================================
