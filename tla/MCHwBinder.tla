---------------------------- MODULE MCHwBinder ----------------------------
(* Instances of BinderObjects, HwProxy and HwThreadCount for TLC. The three *)
(* share nothing; a behaviour is one of any, chosen at the start.           *)
EXTENDS BinderObjects, TLC

ASSUME ObjectsAssumption

CONSTANTS Users, Looper, Proxies, MaxLinks, Uses, Pool, Outside, Maxima, MaxCommands
VARIABLES part, remote, drv, entry, px, ipc, has, parcel, left, linked, revived
VARIABLES mExecutingThreadsCount, mMaxThreads, starved, place, commands

proxy == <<remote, drv, entry, px, ipc, has, parcel, left, linked, revived>>
Proxy == INSTANCE HwProxy WITH held <- parcel
ASSUME Proxy!ProxyAssumption

count == <<mExecutingThreadsCount, mMaxThreads, starved, place, commands>>
Threading == INSTANCE HwThreadCount WITH pc <- place
ASSUME Threading!CountAssumption

\* A header that fits exactly, one with a byte too few for an offset, one whose
\* extra size is not aligned and one whose size overflows.
Sizes(data, offsets, buffers, secctx) ==
  [data_size |-> data, offsets_size |-> offsets, extra_buffers_size |-> buffers, secctx_sz |-> secctx]
MCHeaders == {Sizes(168, 32, 48, 4), Sizes(168, 24, 40, 0), Sizes(168, 32, 44, 0),
              Sizes(88, 12, 8, 0), Sizes(168, 32, 1020, 4)}
\* Pointer objects, roots and children, and arrays at four places of the data,
\* the pointer at 0 that no child can name, and some that are refused.
Placing(type, off, parent, parent_offset, length, num_fds) ==
  [type |-> type, off |-> off, has_parent |-> type = "PTR" /\ parent >= 0,
   parent |-> IF parent >= 0 THEN parent ELSE 0, parent_offset |-> parent_offset,
   length |-> length, num_fds |-> num_fds, buffer |-> 0]
Places == {8, 48, 88, 128}
MCSent ==
  {Placing("PTR", off, -1, 0, 16, 0) : off \in Places \cup {0}}
  \cup {Placing("PTR", off, p, rel, len, 0) : off \in Places, p \in 0..2, rel \in {0, 8}, len \in {12, 16}}
  \cup {Placing("FDA", off, p, rel, 0, 1) : off \in Places, p \in {0, 1}, rel \in {0, 4}}
  \cup {Placing("FDA", off, 0, rel, 0, n) : off \in {48, 128}, rel \in {2, 8}, n \in {0, 2, 256}}
  \cup {Placing("FD", off, -1, 0, 0, 0) : off \in {48, 136}}
  \cup {Placing("flat", off, -1, 0, 0, 0) : off \in {48, 160}}
  \cup {Placing("unknown", 48, -1, 0, 0, 0)}

\* The handle comes three times, and twice with links to its death.
MCUses == {[parcels |-> 3, links |-> 0], [parcels |-> 2, links |-> 2]}
Symmetry == Permutations(Users) \cup Permutations(Proxies)

MCInit ==
  /\ part \in {"proxy", "count", "payload"}
  /\ Init /\ Proxy!Init /\ Threading!Init
  /\ part # "proxy" => left = CHOOSE u \in Uses : TRUE
  /\ part # "payload" => tr = CHOOSE h \in Headers : TRUE
MCNext ==
  \/ part = "payload" /\ Next /\ UNCHANGED <<part, proxy, count>>
  \/ part = "proxy" /\ Proxy!Next /\ UNCHANGED <<part, vars, count>>
  \/ part = "count" /\ Threading!Next /\ UNCHANGED <<part, vars, proxy>>
MCSpec == MCInit /\ [][MCNext]_<<part, vars, proxy, count>>

\* HwProxy: each count is given and taken back once by the commands as written.
CommandsSound == part = "proxy" => Proxy!CommandsSound

\* HwProxy: a handle has one proxy, and who holds it holds the remote object.
ProxySound == part = "proxy" => Proxy!ProxySound

\* HwProxy: a notice of death finds its proxy, and the linked are told.
DeathsTold == part = "proxy" => Proxy!DeathsTold

\* HwThreadCount: waiters have a waker and starvation is timed.
ThreadsCounted == part = "count" => Threading!ThreadsCounted
=============================================================================
