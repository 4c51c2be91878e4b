------------------------ MODULE MCBinderTransaction ------------------------
(* Instances of BinderTransaction for TLC.                                 *)
EXTENDS BinderTransaction, TLC

CONSTANTS A, B, C, a, b, b2, c

\* Three processes with a thread each.
ChainProcOf == a :> A @@ b :> B @@ c :> C

\* A client and a server with two threads, one-way calls and calls back.
PoolProcOf == a :> A @@ b :> B @@ b2 :> B
PoolCalls == {<<a, B, FALSE>>, <<a, B, TRUE>>, <<b, A, FALSE>>}

\* a calls B, which calls C; nobody calls back.
ChainCalls == {<<a, B, FALSE>>, <<b, C, FALSE>>}
=============================================================================
