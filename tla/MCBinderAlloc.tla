--------------------------- MODULE MCBinderAlloc ---------------------------
(* Small instances of BinderAlloc.                                         *)
EXTENDS BinderAlloc, TLC

Req(d, o, e) == [data |-> d, offsets |-> o, extra |-> e]

\* One word; three words, so that a buffer ends inside a page or covers a
\* whole one; and sizes whose sum overflows size_t.
MCRequests == {Req(1, 0, 0), Req(1, 0, 4), Req(2, 0, SizeMod - 2)}

Symmetry == Permutations(Threads)
=============================================================================
