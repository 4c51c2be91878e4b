-------------------------- MODULE MCServiceManager --------------------------
(* An instance of ServiceManager for TLC.                                   *)
EXTENDS ServiceManager, TLC

CONSTANTS s1, s2, b1, b2, c1, c2, n1, n2
TwoServers == b1 :> s1 @@ b2 :> s2

\* Two servers contend for a name; two clients pass a binder on; one binder is
\* under two names.
Contend == [procs |-> {s1, s2, c1}, names |-> {n1}]
Share == [procs |-> {s1, c1, c2}, names |-> {n1}]
MCSites == {Contend, Share, [procs |-> {s1, c1}, names |-> {n1, n2}]}
=============================================================================
