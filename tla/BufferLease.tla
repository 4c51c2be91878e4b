---------------------------- MODULE BufferLease ----------------------------
(***************************************************************************)
(* What the binder buffer allocator promises to binder.c and to the        *)
(* process that maps the area, with no list, no tree and no pages: a range *)
(* of bytes is lent, belongs to one party at a time, never moves, grows or *)
(* meets another lent range, and comes back once.                          *)
(***************************************************************************)
EXTENDS Integers

CONSTANT Length   (* bytes of the mapped area *)

VARIABLES
  phase,  (* "closed": no area; "open"; "closing": the process is gone     *)
  size,   (* bytes lent at an address, 0 for none                          *)
  by      (* who has them: the driver for a transaction on its way, the    *)
          (* user, or a thread that is giving them back                    *)
lease == <<phase, size, by>>

Start == 0 .. Length - 1

Init ==
  /\ phase = "closed"
  /\ size = [a \in Start |-> 0]
  /\ by = [a \in Start |-> "none"]

Apart(a, n) == \A c \in Start : size[c] > 0 => c + size[c] <= a \/ a + n <= c

\* A range that is free is lent to the driver.
Lend(a, n) ==
  /\ phase = "open"
  /\ size[a] = 0 /\ a + n <= Length /\ Apart(a, n)
  /\ size' = [size EXCEPT ![a] = n]
  /\ by' = [by EXCEPT ![a] = "driver"]
  /\ UNCHANGED phase

\* It goes from the driver to the user, and back to be freed, once each.
Pass(a, from, to) ==
  /\ phase = "open" /\ size[a] > 0 /\ by[a] = from
  /\ by' = [by EXCEPT ![a] = to]
  /\ UNCHANGED <<phase, size>>

\* What the user still has comes back only when the process is gone.
GiveBack(a) ==
  /\ size[a] > 0 /\ ((phase = "open" /\ by[a] # "user") \/ phase = "closing")
  /\ size' = [size EXCEPT ![a] = 0]
  /\ by' = [by EXCEPT ![a] = "none"]
  /\ UNCHANGED phase

Turn(from, to) == phase = from /\ phase' = to /\ UNCHANGED <<size, by>>
Close == (\A a \in Start : size[a] = 0) /\ Turn("closing", "closed")

Next ==
  \/ Turn("closed", "open") \/ Turn("open", "closing") \/ Close
  \/ \E a \in Start :
       \/ \E n \in 1 .. Length : Lend(a, n)
       \/ Pass(a, "driver", "user") \/ Pass(a, "user", "freeing")
       \/ GiveBack(a)

Spec == Init /\ [][Next]_lease
=============================================================================
