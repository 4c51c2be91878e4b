------------------------- MODULE BinderAllocProofs -------------------------
(***************************************************************************)
(* Proofs about BinderAlloc for every page count, word size, request set   *)
(* and thread set: first the list, the tree and the lease, then, on top of *)
(* them, pages, the order of the free tree, the sizes and the asynchronous *)
(* budget.                                                                 *)
(*                                                                         *)
(* The argument about pages uses only that page numbers grow with the      *)
(* address, at most one page per byte; that about the budget a sum over    *)
(* the area written as a function of where it has got to.                  *)
(***************************************************************************)
EXTENDS BinderAlloc, SequenceTheorems, WellFoundedInduction, TLAPS
-----------------------------------------------------------------------------
(* Arithmetic.                                                             *)

\* A remainder of size_t arithmetic is in range.
LEMMA ModRange == ASSUME NEW a \in Int, NEW n \in Nat \ {0}
                  PROVE  a % n \in 0 .. n - 1
  OBVIOUS

\* The area is not empty and the list head lies just behind it.
LEMMA BufferSizeType == BufferSize \in Nat \ {0} /\ 0 \in Addr /\ ListHead = BufferSize
  BY PageAssumption DEF BufferSize, Addr, ListHead

\* The sizes binder_alloc_new_buf_locked computes are size_t values, and the
\* padded one is at least one word.
LEMMA SizesType ==
  ASSUME NEW r \in Requests \cup {ZeroSizes}
  PROVE  /\ AlignedSize(r) \in 0 .. SizeMod - 1
         /\ PaddedSize(r) \in Nat \ {0}
         /\ AlignedSize(r) <= PaddedSize(r)
<1>1. SizeMod \in Nat \ {0} /\ WordSize \in Nat \ {0}
  BY ModAssumption, WordAssumption
<1>2. r.data \in Int /\ r.offsets \in Int /\ r.extra \in Int
  BY <1>1, RequestAssumption DEF ZeroSizes
<1>3. ASSUME NEW n \in Int PROVE Align(n) \in Int
  <2>1. (n + WordSize - 1) % SizeMod \in Int
    BY <1>1, ModRange
  <2>. QED BY <2>1, <1>1 DEF Align
<1>4. DataOffsetsSize(r) \in Int
  <2>1. Align(r.data) + Align(r.offsets) \in Int
    BY <1>2, <1>3
  <2>. QED BY <2>1, <1>1, ModRange DEF DataOffsetsSize
<1>5. AlignedSize(r) \in 0 .. SizeMod - 1
  <2>1. DataOffsetsSize(r) + Align(r.extra) \in Int
    BY <1>2, <1>3, <1>4
  <2>. QED BY <2>1, <1>1, ModRange DEF AlignedSize
<1>. QED BY <1>1, <1>5 DEF PaddedSize
-----------------------------------------------------------------------------
(* The free tree as a sequence.                                            *)

Nodes(tree) == {tree[i] : i \in 1 .. Len(tree)}
Injective(tree) == \A i, j \in 1 .. Len(tree) : i # j => tree[i] # tree[j]

\* InsertAt, position by position.
LEMMA InsertAtElements ==
  ASSUME NEW S, NEW s \in Seq(S), NEW k \in 1 .. Len(s) + 1, NEW e \in S
  PROVE  /\ InsertAt(s, k, e) \in Seq(S)
         /\ Len(InsertAt(s, k, e)) = Len(s) + 1
         /\ \A i \in 1 .. Len(s) + 1 : InsertAt(s, k, e)[i] =
              IF i < k THEN s[i] ELSE IF i = k THEN e ELSE s[i - 1]
<1> DEFINE u == SubSeq(s, 1, k - 1)
           v == SubSeq(s, k, Len(s))
           w == u \o <<e>>
<1>1. /\ u \in Seq(S) /\ Len(u) = k - 1
      /\ \A i \in 1 .. k - 1 : u[i] = s[i]
  OBVIOUS
<1>2. /\ v \in Seq(S) /\ Len(v) = Len(s) - k + 1
      /\ \A i \in 1 .. Len(s) - k + 1 : v[i] = s[k + i - 1]
  OBVIOUS
<1> HIDE DEF u, v
<1>3. /\ w \in Seq(S) /\ Len(w) = k
      /\ \A i \in 1 .. k : w[i] = IF i < k THEN s[i] ELSE e
  BY <1>1
<1> HIDE DEF w
<1>4. /\ w \o v \in Seq(S) /\ Len(w \o v) = Len(s) + 1
      /\ \A i \in 1 .. Len(s) + 1 :
           (w \o v)[i] = IF i < k + 1 THEN w[i] ELSE v[i - k]
  BY <1>2, <1>3
<1>5. InsertAt(s, k, e) = w \o v
  BY DEF InsertAt, u, v, w
<1>. QED BY <1>2, <1>3, <1>4, <1>5

\* RemoveAt, position by position.
LEMMA RemoveAtElements ==
  ASSUME NEW S, NEW s \in Seq(S), NEW k \in 1 .. Len(s)
  PROVE  /\ RemoveAt(s, k) \in Seq(S)
         /\ Len(RemoveAt(s, k)) = Len(s) - 1
         /\ \A i \in 1 .. Len(s) - 1 :
              RemoveAt(s, k)[i] = IF i < k THEN s[i] ELSE s[i + 1]
<1> DEFINE u == SubSeq(s, 1, k - 1)
           v == SubSeq(s, k + 1, Len(s))
<1>1. /\ u \in Seq(S) /\ Len(u) = k - 1
      /\ \A i \in 1 .. k - 1 : u[i] = s[i]
  OBVIOUS
<1>2. /\ v \in Seq(S) /\ Len(v) = Len(s) - k
      /\ \A i \in 1 .. Len(s) - k : v[i] = s[k + i]
  OBVIOUS
<1> HIDE DEF u, v
<1>3. /\ u \o v \in Seq(S) /\ Len(u \o v) = Len(s) - 1
      /\ \A i \in 1 .. Len(s) - 1 :
           (u \o v)[i] = IF i <= k - 1 THEN u[i] ELSE v[i - (k - 1)]
  <2>1. /\ u \o v \in Seq(S) /\ Len(u \o v) = Len(u) + Len(v)
        /\ \A i \in 1 .. Len(u) + Len(v) :
             (u \o v)[i] = IF i <= Len(u) THEN u[i] ELSE v[i - Len(u)]
    BY <1>1, <1>2, ConcatProperties
  <2>. QED BY <2>1, <1>1, <1>2
<1>4. RemoveAt(s, k) = u \o v
  BY DEF RemoveAt, u, v
<1>5. ASSUME NEW i \in 1 .. Len(s) - 1
      PROVE  (u \o v)[i] = IF i < k THEN s[i] ELSE s[i + 1]
  <2>1. CASE i < k
    BY <1>1, <1>3, <2>1
  <2>2. CASE ~(i < k)
    <3>1. i - (k - 1) \in 1 .. Len(s) - k /\ k + (i - (k - 1)) = i + 1
      BY <2>2
    <3>. QED BY <1>2, <1>3, <2>2, <3>1
  <2>. QED BY <2>1, <2>2
<1>. QED BY <1>3, <1>4, <1>5

\* Inserting a new node keeps the others, once each.
LEMMA InsertAtNodes ==
  ASSUME NEW S, NEW s \in Seq(S), NEW k \in 1 .. Len(s) + 1, NEW e \in S,
         Injective(s), e \notin Nodes(s)
  PROVE  /\ Nodes(InsertAt(s, k, e)) = Nodes(s) \cup {e}
         /\ Injective(InsertAt(s, k, e))
<1> DEFINE t == InsertAt(s, k, e)
<1>1. /\ Len(t) = Len(s) + 1
      /\ \A i \in 1 .. Len(s) + 1 :
           t[i] = IF i < k THEN s[i] ELSE IF i = k THEN e ELSE s[i - 1]
  BY InsertAtElements
<1> HIDE DEF t
<1>2. Len(s) \in Nat
  OBVIOUS
<1>3. ASSUME NEW i \in 1 .. Len(t) PROVE t[i] \in Nodes(s) \cup {e}
  BY <1>1, <1>2, <1>3 DEF Nodes
<1>4. ASSUME NEW j \in 1 .. Len(s)
      PROVE  \E i \in 1 .. Len(t) : t[i] = s[j]
  <2>1. CASE j < k
    BY <1>1, <1>2, <2>1
  <2>2. CASE j >= k
    <3>1. j + 1 \in 1 .. Len(t) /\ t[j + 1] = s[j]
      BY <1>1, <1>2, <2>2
    <3>. QED BY <3>1
  <2>. QED BY <2>1, <2>2, <1>2
<1>5. k \in 1 .. Len(t) /\ t[k] = e
  BY <1>1, <1>2
<1>6. Nodes(t) = Nodes(s) \cup {e}
  BY <1>3, <1>4, <1>5 DEF Nodes
<1>7. Injective(t)
  BY <1>1, <1>2 DEF Injective, Nodes
<1>. QED BY <1>6, <1>7 DEF t

\* Erasing a node of the tree takes away that node and no other.
LEMMA EraseNodes ==
  ASSUME NEW S, NEW s \in Seq(S), NEW e \in Nodes(s), Injective(s)
  PROVE  /\ Erase(s, e) \in Seq(S)
         /\ Nodes(Erase(s, e)) = Nodes(s) \ {e}
         /\ Injective(Erase(s, e))
<1> DEFINE k == CHOOSE i \in 1 .. Len(s) : s[i] = e
           t == RemoveAt(s, k)
<1>1. k \in 1 .. Len(s) /\ s[k] = e
  BY DEF Nodes
<1> HIDE DEF k
<1>2. /\ t \in Seq(S) /\ Len(t) = Len(s) - 1
      /\ \A i \in 1 .. Len(s) - 1 : t[i] = IF i < k THEN s[i] ELSE s[i + 1]
  BY <1>1, RemoveAtElements
<1> HIDE DEF t
<1>3. Len(s) \in Nat
  OBVIOUS
<1>4. ASSUME NEW i \in 1 .. Len(t) PROVE t[i] \in Nodes(s) \ {e}
  BY <1>1, <1>2, <1>3 DEF Nodes, Injective
<1>5. ASSUME NEW j \in 1 .. Len(s), s[j] # e
      PROVE  \E i \in 1 .. Len(t) : t[i] = s[j]
  <2>1. CASE j < k
    BY <1>1, <1>2, <1>3, <2>1
  <2>2. CASE j > k
    <3>1. j - 1 \in 1 .. Len(t) /\ t[j - 1] = s[j]
      BY <1>1, <1>2, <1>3, <2>2
    <3>. QED BY <3>1
  <2>. QED BY <2>1, <2>2, <1>1, <1>3, <1>5
<1>6. Nodes(t) = Nodes(s) \ {e}
  BY <1>4, <1>5 DEF Nodes
<1>7. Injective(t)
  BY <1>1, <1>2, <1>3 DEF Injective
<1>8. Erase(s, e) = t
  BY DEF Erase, t, k
<1>. QED BY <1>2, <1>6, <1>7, <1>8
-----------------------------------------------------------------------------
(* The list: splitting and joining.                                        *)

St == {"absent", "free", "busy"}
Links == [Addr -> 0 .. ListHead]

\* The list with states s and links n, p tiles the area, and no two free
\* buffers are next to each other.
Starts(s, p) == s[0] # "absent" /\ p[0] = ListHead
Linked(s, n, p) ==
  \A b \in Addr : s[b] # "absent" =>
    /\ n[b] > b
    /\ n[b] # ListHead => s[n[b]] # "absent" /\ p[n[b]] = b
    /\ b # 0 => p[b] \in Addr /\ s[p[b]] # "absent" /\ n[p[b]] = b
NoneInside(s, n) ==
  \A b, c \in Addr : s[b] # "absent" /\ s[c] # "absent" => ~(b < c /\ c < n[b])
Coalesced(s, n) ==
  \A b \in Addr : s[b] = "free" /\ n[b] # ListHead => s[n[b]] # "free"

List(s, n, p) == Starts(s, p) /\ Linked(s, n, p) /\ NoneInside(s, n) /\ Coalesced(s, n)

\* An address is an offset below the list head.
LEMMA AddrType == /\ BufferSize \in Nat \ {0}
                  /\ 0 \in Addr /\ ListHead = BufferSize
                  /\ \A a : a \in Addr <=> a \in Int /\ 0 <= a /\ a < ListHead
                  /\ \A a : a \in 0 .. ListHead <=> a \in Addr \/ a = ListHead
  BY BufferSizeType DEF Addr, ListHead

\* The states and links after a split of b at r, and after k has taken in
\* the buffers G and ends at e.
SplitSt(s, b, r) == [s EXCEPT ![b] = "busy", ![r] = "free"]
SplitNxt(n, b, r) == [n EXCEPT ![b] = r, ![r] = n[b]]
SplitPrv(n, p, b, r) ==
  [a \in Addr |-> IF a = r THEN b ELSE IF a = n[b] THEN r ELSE p[a]]
JoinSt(s, k, G) ==
  [a \in Addr |-> IF a = k THEN "free" ELSE IF a \in G THEN "absent" ELSE s[a]]
JoinNxt(n, k, e, G) ==
  [a \in Addr |-> IF a = k THEN e ELSE IF a \in G THEN ListHead ELSE n[a]]
JoinPrv(p, k, e, G) ==
  [a \in Addr |-> IF a = e THEN k ELSE IF a \in G THEN ListHead ELSE p[a]]

\* A split leaves a well-formed list: b keeps its start, and the rest of it
\* ends where b ended.
LEMMA SplitList ==
  ASSUME NEW s \in [Addr -> St], NEW n \in Links, NEW p \in Links, List(s, n, p),
         NEW b \in Addr, NEW r \in Addr, s[b] = "free", b < r, r < n[b]
  PROVE  /\ List(SplitSt(s, b, r), SplitNxt(n, b, r), SplitPrv(n, p, b, r))
         /\ s[r] = "absent"
<1> DEFINE s2 == SplitSt(s, b, r)
           n2 == SplitNxt(n, b, r)
           p2 == SplitPrv(n, p, b, r)
<1>1. /\ n2[b] = r /\ n2[r] = n[b] /\ b # r
      /\ \A a \in Addr : a # b /\ a # r => n2[a] = n[a]
  BY AddrType DEF Links, SplitNxt
<1>2. /\ p2[r] = b
      /\ n[b] \in Addr => p2[n[b]] = r
      /\ \A a \in Addr : a # r /\ a # n[b] => p2[a] = p[a]
  BY AddrType DEF Links, SplitPrv
<1>3. /\ s2[b] = "busy" /\ s2[r] = "free"
      /\ \A a \in Addr : a # b /\ a # r => s2[a] = s[a]
  BY AddrType DEF SplitSt
<1> HIDE DEF s2, n2, p2
<1>4. s[r] = "absent"
  BY DEF List, NoneInside
<1>5. n[b] \in Addr \/ n[b] = ListHead
  BY AddrType DEF Links
<1>6. Starts(s2, p2)
  BY AddrType, <1>1, <1>2, <1>3, <1>5 DEF List, Starts, Linked
<1>7. NoneInside(s2, n2)
  BY AddrType, <1>1, <1>3, <1>4, <1>5 DEF List, NoneInside, Linked, Links
<1>8. Coalesced(s2, n2)
  <2> SUFFICES ASSUME NEW c \in Addr, s2[c] = "free", n2[c] # ListHead
               PROVE  s2[n2[c]] # "free"
    BY DEF Coalesced
  <2>1. CASE c = r
    <3>1. n[b] \in Addr /\ s[n[b]] # "free" /\ n[b] # r /\ n[b] # b
      BY AddrType, <2>1, <1>1, <1>5 DEF List, Coalesced, Linked
    <3>. QED BY <3>1, <2>1, <1>1, <1>3
  <2>2. CASE c # r
    <3>1. c # b /\ s[c] = "free" /\ n2[c] = n[c] /\ n[c] \in Addr
      BY AddrType, <2>2, <1>1, <1>3 DEF Links
    <3>2. s[n[c]] # "free" /\ n[c] # r
      BY AddrType, <3>1, <1>4 DEF List, Coalesced, Linked
    <3>. QED BY <3>1, <3>2, <1>3
  <2>. QED BY <2>1, <2>2
<1>9. Linked(s2, n2, p2)
  <2> SUFFICES ASSUME NEW c \in Addr, s2[c] # "absent"
               PROVE  /\ n2[c] > c
                      /\ n2[c] # ListHead => s2[n2[c]] # "absent" /\ p2[n2[c]] = c
                      /\ c # 0 => p2[c] \in Addr /\ s2[p2[c]] # "absent" /\ n2[p2[c]] = c
    BY DEF Linked
  <2>1. CASE c = b
    <3>1. b # n[b]
      BY AddrType DEF List, Linked
    <3>2. b # 0 => p2[b] = p[b] /\ p[b] # b /\ p[b] # r
      BY AddrType, <3>1, <1>1, <1>2, <1>4 DEF List, Linked, Links
    <3>3. b # 0 => p[b] \in Addr /\ s[p[b]] # "absent" /\ n[p[b]] = b
      BY DEF List, Linked
    <3>4. b # 0 => s2[p[b]] # "absent" /\ n2[p[b]] = b
      BY <3>2, <3>3, <1>1, <1>3
    <3>. QED BY <2>1, <3>2, <3>3, <3>4, <1>1, <1>2, <1>3
  <2>2. CASE c = r
    <3>1. n[b] # ListHead => n[b] # b /\ n[b] # r /\ s[n[b]] # "absent" /\ n[b] \in Addr
      BY AddrType, <1>4, <1>5 DEF List, Linked
    <3>. QED BY <2>2, <3>1, <1>1, <1>2, <1>3
  <2>3. CASE c # b /\ c # r
    <3>1. s[c] # "absent" /\ n2[c] = n[c]
      BY <2>3, <1>1, <1>3
    <3>2. n[c] > c /\ (n[c] \in Addr \/ n[c] = ListHead)
      BY <3>1, AddrType DEF List, Linked, Links
    <3>3. n[c] # ListHead => /\ n[c] # r /\ n[c] # n[b] /\ n[c] \in Addr
                             /\ s[n[c]] # "absent" /\ p[n[c]] = c
      BY <2>3, <3>1, <3>2, <1>4 DEF List, Linked
    <3>4. n[c] # ListHead => s2[n[c]] # "absent" /\ p2[n[c]] = c
      BY <3>3, <1>2, <1>3
    <3>5. ASSUME c # 0
          PROVE  p2[c] \in Addr /\ s2[p2[c]] # "absent" /\ n2[p2[c]] = c
      <4>1. p[c] \in Addr /\ s[p[c]] # "absent" /\ n[p[c]] = c /\ p[c] # r
        BY <3>1, <3>5, <1>4 DEF List, Linked
      <4>2. CASE c = n[b]
        BY <4>2, <1>1, <1>2, <1>3, <2>3
      <4>3. CASE c # n[b]
        BY <4>1, <4>3, <1>1, <1>2, <1>3, <2>3
      <4>. QED BY <4>2, <4>3
    <3>. QED BY <3>1, <3>2, <3>4, <3>5
  <2>. QED BY <2>1, <2>2, <2>3
<1>. QED BY <1>4, <1>6, <1>7, <1>8, <1>9 DEF List, s2, n2, p2

\* Taking the buffers k joins off the list leaves a well-formed list: k is
\* free from its start to e, and what was in between is gone.
LEMMA JoinList ==
  ASSUME NEW s \in [Addr -> St], NEW n \in Links, NEW p \in Links, List(s, n, p),
         NEW k \in Addr, NEW e \in 0 .. ListHead, NEW G \in SUBSET Addr,
         s[k] # "absent", k < e, k \notin G, e \notin G,
         e # ListHead => s[e] = "busy",
         k # 0 => s[p[k]] = "busy",
         \A c \in Addr : s[c] # "absent" => (c \in G <=> k < c /\ c < e),
         \A c \in G : s[c] # "absent"
  PROVE  List(JoinSt(s, k, G), JoinNxt(n, k, e, G), JoinPrv(p, k, e, G))
<1> DEFINE s2 == JoinSt(s, k, G)
           n2 == JoinNxt(n, k, e, G)
           p2 == JoinPrv(p, k, e, G)
<1>1. /\ s2[k] = "free" /\ \A a \in G : s2[a] = "absent"
      /\ \A a \in Addr : a # k /\ a \notin G => s2[a] = s[a]
  BY DEF JoinSt
<1>2. n2[k] = e /\ \A a \in Addr : a # k /\ a \notin G => n2[a] = n[a]
  BY DEF JoinNxt
<1>3. /\ e \in Addr => p2[e] = k
      /\ \A a \in Addr : a # e /\ a \notin G => p2[a] = p[a]
  BY DEF JoinPrv
<1> HIDE DEF s2, n2, p2
<1>4. e \in Addr \/ e = ListHead
  BY AddrType
\* A buffer other than k that stays on the list ends at k's start or before,
\* or starts at e or behind it.
<1>5. ASSUME NEW c \in Addr, s[c] # "absent", c # k, c \notin G
      PROVE  /\ c < k \/ e <= c
             /\ n[c] > c /\ n[c] \in 0 .. ListHead
             /\ c < k => n[c] <= k
  <2>1. /\ c < k \/ e <= c
    BY <1>5, AddrType
  <2>2. n[c] > c /\ n[c] \in 0 .. ListHead
    BY <1>5 DEF List, Linked, Links
  <2>3. c < k => n[c] <= k
    BY <1>5, <2>2, AddrType DEF List, NoneInside
  <2>. QED BY <2>1, <2>2, <2>3
<1>6. Starts(s2, p2)
  <2>1. s[0] # "absent" /\ p[0] = ListHead /\ 0 \in Addr
    BY AddrType DEF List, Starts
  <2>2. 0 \notin G /\ 0 # e
    BY <2>1, AddrType
  <2>. QED BY <2>1, <2>2, <1>1, <1>3 DEF Starts
<1>7. NoneInside(s2, n2)
  <2> SUFFICES ASSUME NEW c \in Addr, NEW d \in Addr, s2[c] # "absent",
                      s2[d] # "absent", c < d, d < n2[c]
               PROVE  FALSE
    BY DEF NoneInside
  <2>1. s[c] # "absent" /\ s[d] # "absent" /\ c \notin G /\ d \notin G
    BY <1>1
  <2>2. CASE c = k
    BY <2>1, <2>2, <1>2, AddrType
  <2>3. CASE c # k
    BY <2>1, <2>3, <1>2 DEF List, NoneInside
  <2>. QED BY <2>2, <2>3
<1>8. Coalesced(s2, n2)
  <2> SUFFICES ASSUME NEW c \in Addr, s2[c] = "free", n2[c] # ListHead
               PROVE  s2[n2[c]] # "free"
    BY DEF Coalesced
  <2>1. CASE c = k
    <3>1. e \in Addr /\ e # k /\ s[e] = "busy"
      BY <2>1, <1>2, <1>4, AddrType
    <3>. QED BY <3>1, <2>1, <1>1, <1>2
  <2>2. CASE c # k
    <3>1. s[c] = "free" /\ c \notin G /\ n2[c] = n[c] /\ n[c] \in Addr
      BY <2>2, <1>1, <1>2, AddrType DEF Links
    <3>2. s[n[c]] # "free" /\ p[n[c]] = c
      BY <3>1, AddrType DEF List, Coalesced, Linked
    <3>3. n[c] # k
      BY <3>1, <3>2, <2>2, <1>5, AddrType DEF List, Linked
    <3>. QED BY <3>1, <3>2, <3>3, <1>1
  <2>. QED BY <2>1, <2>2
<1>9. Linked(s2, n2, p2)
  <2> SUFFICES ASSUME NEW c \in Addr, s2[c] # "absent"
               PROVE  /\ n2[c] > c
                      /\ n2[c] # ListHead => s2[n2[c]] # "absent" /\ p2[n2[c]] = c
                      /\ c # 0 => p2[c] \in Addr /\ s2[p2[c]] # "absent" /\ n2[p2[c]] = c
    BY DEF Linked
  <2>1. s[c] # "absent" /\ c \notin G
    BY <1>1
  <2>2. CASE c = k
    <3>1. e # ListHead => s2[e] # "absent" /\ p2[e] = k
      BY <1>1, <1>3, <1>4, AddrType
    <3>2. c # 0 => p[k] \in Addr /\ s[p[k]] # "absent" /\ n[p[k]] = k /\ p[k] < k
      BY <2>2, AddrType DEF List, Linked
    <3>3. c # 0 => p2[k] = p[k] /\ p[k] # k /\ p[k] \notin G
      BY <3>2, <2>2, <1>3, AddrType
    <3>. QED BY <2>2, <3>1, <3>2, <3>3, <1>1, <1>2
  <2>3. CASE c # k
    <3>1. n2[c] = n[c] /\ n[c] > c /\ (n[c] \in Addr \/ n[c] = ListHead)
      BY <2>1, <2>3, <1>2, <1>5, AddrType
    <3>2. n[c] # ListHead => s[n[c]] # "absent" /\ p[n[c]] = c
      BY <2>1 DEF List, Linked
    <3>3. n[c] # ListHead => n[c] \notin G /\ n[c] # e
      <4>1. SUFFICES ASSUME n[c] # ListHead, n[c] \in G \/ n[c] = e
                     PROVE  FALSE
        OBVIOUS
      <4>2. n[c] \in Addr /\ k < n[c] /\ c < k
        BY <4>1, <3>1, <3>2, <2>1, <2>3, <1>5, AddrType
      <4>. QED BY <4>2, <2>1, <2>3, <1>5, AddrType
    <3>4. n[c] # ListHead => s2[n[c]] # "absent" /\ p2[n[c]] = c
      BY <3>1, <3>2, <3>3, <1>1, <1>3
    <3>5. ASSUME c # 0
          PROVE  p2[c] \in Addr /\ s2[p2[c]] # "absent" /\ n2[p2[c]] = c
      <4>1. p[c] \in Addr /\ s[p[c]] # "absent" /\ n[p[c]] = c /\ p[c] < c
        BY <2>1, <3>5, AddrType DEF List, Linked
      <4>2. CASE c = e
        BY <4>2, <1>1, <1>2, <1>3
      <4>3. CASE c # e
        <5>1. p2[c] = p[c]
          BY <4>3, <2>1, <1>3
        <5>2. p[c] \notin G /\ p[c] # k
          BY <4>1, <4>3, <2>1, <2>3, <1>4, AddrType DEF List, NoneInside
        <5>. QED BY <4>1, <5>1, <5>2, <1>1, <1>2
      <4>. QED BY <4>2, <4>3
    <3>. QED BY <3>1, <3>4, <3>5
  <2>. QED BY <2>2, <2>3
<1>. QED BY <1>6, <1>7, <1>8, <1>9 DEF List, s2, n2, p2
-----------------------------------------------------------------------------
(* The inductive invariant.                                                *)

\* Mapped, the buffers form a well-formed list; before mmap and after the
\* release there are none.
ListInv == IF Mapped THEN List(st, nxt, prv)
           ELSE /\ \A b \in Addr : st[b] = "absent"
                /\ nxt[0] = ListHead /\ prv[0] = ListHead

FreeSet == {b \in Addr : st[b] = "free"}

\* The free tree holds each free buffer once.
TreeInv == Nodes(freeTree) = FreeSet /\ Injective(freeTree)

\* Only a delivered buffer can be claimed.
FreeableInv == \A b \in Addr : buf[b].allow_user_free => buf[b].delivered

\* A claimed buffer has been delivered, so that the kernel has no other
\* reason to free it, and there are claims in a live area only.
ClaimInv ==
  /\ area # "mapped" => \A t \in Threads : freeing[t] = NoAddr
  /\ \A t \in Threads : freeing[t] # NoAddr => buf[freeing[t]].delivered
  /\ ClaimExclusive

IInv == TypeOK /\ ListInv /\ TreeInv /\ FreeableInv /\ ClaimInv

\* The invariant gives the properties the model is checked for.
LEMMA IInvImplies == IInv => BuffersTile /\ NoAdjacentFree /\ ClaimExclusive
<1> SUFFICES ASSUME IInv PROVE BuffersTile /\ NoAdjacentFree /\ ClaimExclusive
  OBVIOUS
<1>1. CASE Mapped
  BY <1>1, AddrType DEF IInv, ListInv, List, Starts, Linked, NoneInside, Coalesced,
     BuffersTile, NoAdjacentFree, Present, ClaimInv
<1>2. CASE ~Mapped
  BY <1>2 DEF IInv, ListInv, BuffersTile, NoAdjacentFree, Present, ClaimInv
<1>. QED BY <1>1, <1>2
-----------------------------------------------------------------------------
(* Freeing.                                                                *)

\* What joining b with its free neighbours takes off the list is exactly
\* what lies between its new start and its new end.
LEMMA JoinGeometry ==
  ASSUME TypeOK, List(st, nxt, prv), NEW b \in Addr, st[b] = "busy"
  PROVE  /\ JoinStart(b) \in Addr /\ JoinEnd(b) \in 0 .. ListHead
         /\ Joined(b) \in SUBSET Addr
         /\ st[JoinStart(b)] # "absent" /\ JoinStart(b) < JoinEnd(b)
         /\ JoinStart(b) \notin Joined(b) /\ JoinEnd(b) \notin Joined(b)
         /\ JoinEnd(b) # ListHead => st[JoinEnd(b)] = "busy"
         /\ JoinStart(b) # 0 => st[prv[JoinStart(b)]] = "busy"
         /\ \A c \in Addr : st[c] # "absent" =>
              (c \in Joined(b) <=> JoinStart(b) < c /\ c < JoinEnd(b))
         /\ \A c \in Joined(b) : st[c] # "absent"
<1> DEFINE k == JoinStart(b)
           e == JoinEnd(b)
<1>1. st \in [Addr -> St] /\ nxt \in Links /\ prv \in Links
  BY DEF TypeOK, St, Links
<1>2. /\ nxt[b] > b /\ (nxt[b] \in Addr \/ nxt[b] = ListHead)
      /\ nxt[b] # ListHead => st[nxt[b]] # "absent"
  BY <1>1, AddrType DEF List, Linked, Links
<1>3. b # 0 => prv[b] \in Addr /\ st[prv[b]] # "absent" /\ nxt[prv[b]] = b /\ prv[b] < b
  BY AddrType DEF List, Linked
<1>4. b = 0 => prv[b] = ListHead
  BY DEF List, Starts
<1>5. /\ k \in Addr /\ st[k] # "absent" /\ k <= b
      /\ k # b => k = prv[b] /\ st[k] = "free" /\ nxt[k] = b /\ PrevIsFree(b)
      /\ k = b => ~PrevIsFree(b)
  BY <1>3, <1>4, AddrType DEF JoinStart, PrevIsFree
<1>6. k # 0 => st[prv[k]] = "busy"
  <2> SUFFICES ASSUME k # 0 PROVE st[prv[k]] = "busy"
    OBVIOUS
  <2>1. prv[k] \in Addr /\ st[prv[k]] # "absent" /\ nxt[prv[k]] = k
    BY <1>5 DEF List, Linked
  <2>2. st[prv[k]] # "free"
    BY <2>1, <1>3, <1>5, AddrType DEF List, Coalesced, PrevIsFree
  <2>. QED BY <2>1, <2>2, <1>1 DEF St
<1>7. /\ e \in 0 .. ListHead /\ nxt[b] <= e
      /\ e # nxt[b] => nxt[b] \in Addr /\ e = nxt[nxt[b]] /\ st[nxt[b]] = "free" /\ NextIsFree(b)
      /\ e = nxt[b] => ~NextIsFree(b)
  BY <1>1, <1>2, AddrType DEF JoinEnd, NextIsFree, List, Linked, Links
<1>8. e # ListHead => st[e] = "busy"
  <2> SUFFICES ASSUME e # ListHead PROVE st[e] = "busy"
    OBVIOUS
  <2>1. e \in Addr /\ st[e] # "absent"
    BY <1>2, <1>7, AddrType DEF List, Linked
  <2>2. st[e] # "free"
    BY <2>1, <1>2, <1>7 DEF List, Coalesced, NextIsFree
  <2>. QED BY <2>1, <2>2, <1>1 DEF St
<1>9. ASSUME NEW c \in Addr, st[c] # "absent"
      PROVE  c \in Joined(b) <=> k < c /\ c < e
  <2>1. c \in Joined(b) <=> (c = nxt[b] /\ e # nxt[b]) \/ (c = b /\ k # b)
    BY <1>5, <1>7 DEF Joined
  <2>2. c <= k \/ c = b \/ c = nxt[b] \/ c >= e
    BY <1>5, <1>7, <1>9, <1>2, AddrType DEF List, NoneInside, Links
  <2>3. k # b => k < b
    BY <1>5, AddrType
  <2>4. e # nxt[b] => nxt[b] < e
    BY <1>7, AddrType DEF List, Linked
  <2>. QED BY <2>1, <2>2, <2>3, <2>4, <1>2, <1>5, <1>7, AddrType
<1>10. \A c \in Joined(b) : st[c] # "absent"
  BY <1>2 DEF Joined, NextIsFree
<1>11. k < e /\ k \notin Joined(b) /\ e \notin Joined(b) /\ Joined(b) \in SUBSET Addr
  <2>1. k < e
    BY <1>2, <1>5, <1>7, AddrType
  <2>2. Joined(b) \in SUBSET Addr
    BY DEF Joined
  <2>3. k \notin Joined(b)
    BY <1>5, <1>9, AddrType
  <2>4. e \notin Joined(b)
    BY <2>2, <1>7, <1>9, <1>10, AddrType
  <2>. QED BY <2>1, <2>2, <2>3, <2>4
<1>. QED BY <1>5, <1>6, <1>7, <1>8, <1>9, <1>10, <1>11

\* Where binder_insert_free_buffer puts a new node does not matter for the
\* set of nodes.
LEMMA InsertFreeNodes ==
  ASSUME NEW tree \in Seq(Addr), Injective(tree), NEW b \in Addr, b \notin Nodes(tree),
         NEW n, NEW t \in InsertFree(tree, b, n)
  PROVE  t \in Seq(Addr) /\ Nodes(t) = Nodes(tree) \cup {b} /\ Injective(t)
<1>1. PICK k \in 1 .. Len(tree) + 1 : t = InsertAt(tree, k, b)
  BY DEF InsertFree
<1>. QED BY <1>1, InsertAtElements, InsertAtNodes

\* binder_free_buf_locked on an allocated buffer: the list is well formed
\* again, the tree holds the free buffers, and no other buffer is touched.
LEMMA FreeStep ==
  ASSUME TypeOK, List(st, nxt, prv), TreeInv, NEW b \in Addr, st[b] = "busy",
         FreeBufLocked(b)
  PROVE  /\ st' \in [Addr -> St] /\ nxt' \in Links /\ prv' \in Links
         /\ buf' \in [Addr -> Buffer] /\ freeTree' \in Seq(Addr)
         /\ pages' \in [Pages -> {"none", "lru", "active"}]
         /\ free_async_space' \in 0 .. SizeMod - 1
         /\ bug' \in BOOLEAN
         /\ List(st', nxt', prv')
         /\ TreeInv'
         /\ \A c \in Addr : c # b => buf'[c] = buf[c] /\ (st[c] = "busy" => st'[c] = "busy")
         /\ ~buf'[b].allow_user_free
<1> DEFINE k == JoinStart(b)
           e == JoinEnd(b)
           G == Joined(b)
<1>1. /\ k \in Addr /\ e \in 0 .. ListHead /\ G \in SUBSET Addr
      /\ st[k] # "absent" /\ k < e /\ k \notin G /\ e \notin G
      /\ e # ListHead => st[e] = "busy"
      /\ k # 0 => st[prv[k]] = "busy"
      /\ \A c \in Addr : st[c] # "absent" => (c \in G <=> k < c /\ c < e)
      /\ \A c \in G : st[c] # "absent"
  BY JoinGeometry
<1>2. st \in [Addr -> St] /\ nxt \in Links /\ prv \in Links
  BY DEF TypeOK, St, Links
<1>3. st' = JoinSt(st, k, G) /\ nxt' = JoinNxt(nxt, k, e, G) /\ prv' = JoinPrv(prv, k, e, G)
  BY DEF FreeBufLocked, ListDelNxt, ListDelPrv, JoinSt, JoinNxt, JoinPrv
<1>4. \A c \in Addr :
        c \in G <=> (c = nxt[b] /\ NextIsFree(b)) \/ (c = b /\ PrevIsFree(b))
  BY DEF Joined
<1>5. /\ k = IF PrevIsFree(b) THEN prv[b] ELSE b
      /\ PrevIsFree(b) => prv[b] \in Addr /\ st[prv[b]] = "free" /\ prv[b] # b
      /\ NextIsFree(b) => nxt[b] \in Addr /\ st[nxt[b]] = "free" /\ nxt[b] # b
  BY <1>2, AddrType DEF JoinStart, PrevIsFree, NextIsFree, Links
<1>6. PrevIsFree(b) /\ NextIsFree(b) => prv[b] # nxt[b]
  BY <1>1, <1>4, <1>5
<1>7. freeTree' \in InsertFree(EraseJoined(b), k, ListDelNxt(b))
  BY DEF FreeBufLocked
<1>8. buf' = [buf EXCEPT ![b] = NoBuffer]
  BY DEF FreeBufLocked
<1> HIDE DEF k, e, G
<1>9. st' \in [Addr -> St] /\ nxt' \in Links /\ prv' \in Links
  BY <1>1, <1>2, <1>3, AddrType DEF St, Links, JoinSt, JoinNxt, JoinPrv
<1>10. List(st', nxt', prv')
  BY <1>1, <1>2, <1>3, JoinList
<1>11. freeTree \in Seq(Addr) /\ Nodes(freeTree) = FreeSet /\ Injective(freeTree)
  BY DEF TypeOK, TreeInv
<1>12. /\ EraseJoined(b) \in Seq(Addr) /\ Injective(EraseJoined(b))
       /\ Nodes(EraseJoined(b)) =
            {c \in FreeSet : /\ NextIsFree(b) => c # nxt[b]
                             /\ PrevIsFree(b) => c # prv[b]}
  <2> DEFINE t1 == IF NextIsFree(b) THEN Erase(freeTree, nxt[b]) ELSE freeTree
  <2>1. NextIsFree(b) => nxt[b] \in Nodes(freeTree)
    BY <1>5, <1>11 DEF FreeSet
  <2>2. /\ t1 \in Seq(Addr) /\ Injective(t1)
        /\ Nodes(t1) = {c \in FreeSet : NextIsFree(b) => c # nxt[b]}
    BY <2>1, <1>11, EraseNodes
  <2>3. EraseJoined(b) = IF PrevIsFree(b) THEN Erase(t1, prv[b]) ELSE t1
    BY DEF EraseJoined
  <2> HIDE DEF t1
  <2>4. PrevIsFree(b) => prv[b] \in Nodes(t1)
    BY <2>2, <1>5, <1>6 DEF FreeSet
  <2>. QED BY <2>2, <2>3, <2>4, EraseNodes
<1>13. k \notin Nodes(EraseJoined(b))
  BY <1>12, <1>5 DEF FreeSet
<1>14. freeTree' \in Seq(Addr) /\ Injective(freeTree') /\ Nodes(freeTree') = Nodes(EraseJoined(b)) \cup {k}
  BY <1>1, <1>7, <1>12, <1>13, InsertFreeNodes
<1>15. {c \in Addr : st'[c] = "free"} = Nodes(EraseJoined(b)) \cup {k}
  <2>1. ASSUME NEW c \in Addr
        PROVE  st'[c] = "free" <=> c = k \/ c \in Nodes(EraseJoined(b))
    <3>1. st'[c] = "free" <=> c = k \/ (c \notin G /\ st[c] = "free")
      BY <1>3 DEF JoinSt
    <3>2. c # k => (c \notin G /\ st[c] = "free" <=> c \in Nodes(EraseJoined(b)))
      <4>1. c \in Nodes(EraseJoined(b)) <=> /\ st[c] = "free"
                                            /\ NextIsFree(b) => c # nxt[b]
                                            /\ PrevIsFree(b) => c # prv[b]
        BY <1>12 DEF FreeSet, NextIsFree, PrevIsFree
      <4>2. CASE PrevIsFree(b)
        BY <4>1, <4>2, <1>4, <1>5
      <4>3. CASE ~PrevIsFree(b)
        BY <4>1, <4>3, <1>4, <1>5
      <4>. QED BY <4>2, <4>3
    <3>. QED BY <3>1, <3>2
  <2>2. Nodes(EraseJoined(b)) \subseteq Addr
    BY <1>12 DEF FreeSet
  <2>. QED BY <2>1, <2>2, <1>1
<1>16. TreeInv'
  BY <1>14, <1>15 DEF TreeInv, FreeSet, Nodes, Injective
<1>17. ASSUME NEW c \in Addr, c # b
       PROVE  buf'[c] = buf[c] /\ (st[c] = "busy" => st'[c] = "busy")
  <2>1. buf'[c] = buf[c]
    BY <1>8, <1>17 DEF TypeOK
  <2>2. st[c] = "busy" => c # k /\ c \notin G
    BY <1>4, <1>5, <1>17
  <2>. QED BY <2>1, <2>2, <1>3 DEF JoinSt
<1>18. buf' \in [Addr -> Buffer] /\ ~buf'[b].allow_user_free
  BY <1>8 DEF TypeOK, Buffer, NoBuffer
<1>19. pages' \in [Pages -> {"none", "lru", "active"}]
  BY DEF FreeBufLocked, DropPages, TypeOK
<1>20. bug' \in BOOLEAN
  BY DEF FreeBufLocked, TypeOK
<1>21. free_async_space' \in 0 .. SizeMod - 1
  <2>1. buf[b].req \in Requests \cup {ZeroSizes}
    BY DEF TypeOK, Buffer
  <2>2. AsyncCredit(buf[b].req) \in Int
    BY <2>1, SizesType, HdrAssumption, ModAssumption DEF AsyncCredit
  <2>3. free_async_space + AsyncCredit(buf[b].req) \in Int
    BY <2>2, ModAssumption DEF TypeOK
  <2>. QED BY <2>3, ModRange, ModAssumption DEF FreeBufLocked, TypeOK
<1>. QED BY <1>9, <1>10, <1>14, <1>16, <1>17, <1>18, <1>19, <1>20, <1>21
-----------------------------------------------------------------------------
(* Allocating.                                                             *)

\* The search ends with a free buffer that is large enough.
LEMMA BestFitsFit ==
  ASSUME TypeOK, TreeInv, NEW size \in Nat, NEW b \in BestFits(size)
  PROVE  b \in Addr /\ st[b] = "free" /\ size <= nxt[b] - b
<1>1. PICK i \in 1 .. Len(freeTree) :
        b = freeTree[i] /\ (SizeIn(nxt, b) = size \/ SizeIn(nxt, b) > size)
  BY DEF BestFits
<1>2. b \in FreeSet
  BY <1>1 DEF TreeInv, Nodes
<1>3. b \in Addr /\ st[b] = "free"
  BY <1>2 DEF FreeSet
<1>4. nxt[b] \in Int /\ b \in Int
  BY <1>3, AddrType DEF TypeOK
<1>. QED BY <1>1, <1>3, <1>4 DEF SizeIn

\* A successful binder_alloc_new_buf_locked: one free buffer becomes busy and
\* what it does not need is a free buffer of its own.
LEMMA NewBufStep ==
  ASSUME TypeOK, List(st, nxt, prv), TreeInv,
         NEW r \in Requests, NEW async \in BOOLEAN, NEW b \in Addr,
         NewBuf(r, async, b)
  PROVE  /\ st' \in [Addr -> St] /\ nxt' \in Links /\ prv' \in Links
         /\ buf' \in [Addr -> Buffer] /\ freeTree' \in Seq(Addr)
         /\ pages' \in [Pages -> {"none", "lru", "active"}]
         /\ free_async_space' \in 0 .. SizeMod - 1
         /\ bug' \in BOOLEAN
         /\ List(st', nxt', prv')
         /\ TreeInv'
         /\ st[b] = "free"
         /\ \A c \in Addr : c # b => buf'[c] = buf[c] /\ (st[c] = "busy" => st'[c] = "busy")
         /\ ~buf'[b].allow_user_free
<1> DEFINE size == PaddedSize(r)
           rest == b + size
<1>1. size \in Nat \ {0} /\ AlignedSize(r) \in Nat
  BY SizesType, ModAssumption
<1>2. st[b] = "free" /\ size <= nxt[b] - b
  BY <1>1, BestFitsFit DEF NewBuf, CanAllocate
<1>3. st \in [Addr -> St] /\ nxt \in Links /\ prv \in Links
  BY DEF TypeOK, St, Links
<1>4. freeTree \in Seq(Addr) /\ Nodes(freeTree) = FreeSet /\ Injective(freeTree) /\ b \in Nodes(freeTree)
  BY <1>2 DEF TypeOK, TreeInv, FreeSet
<1>5. nxt[b] \in 0 .. ListHead /\ nxt[b] > b /\ b \in Int
  BY <1>3, <1>2, AddrType DEF Links, List, Linked
<1>6. /\ st' \in [Addr -> St] /\ nxt' \in Links /\ prv' \in Links
      /\ List(st', nxt', prv')
      /\ freeTree' \in Seq(Addr) /\ Nodes(freeTree') = {c \in Addr : st'[c] = "free"}
      /\ Injective(freeTree')
      /\ \A c \in Addr : c # b /\ st[c] = "busy" => st'[c] = "busy"
  <2>1. CASE binder_alloc_buffer_size(b) # size
    <3>1. rest \in Addr /\ b < rest /\ rest < nxt[b] /\ rest # b
      BY <2>1, <1>1, <1>2, <1>5, AddrType DEF binder_alloc_buffer_size, SizeIn
    <3>2. /\ nxt' = SplitNxt(nxt, b, rest) /\ prv' = SplitPrv(nxt, prv, b, rest)
          /\ st' = SplitSt(st, b, rest)
      BY <2>1 DEF NewBuf, ListAddNxt, ListAddPrv, SplitNxt, SplitPrv, SplitSt
    <3>3. PICK t \in InsertFree(freeTree, rest, ListAddNxt(b, rest)) : freeTree' = Erase(t, b)
      BY <2>1 DEF NewBuf
    <3> HIDE DEF size, rest
    <3>4. List(st', nxt', prv') /\ st[rest] = "absent"
      BY <3>1, <3>2, <1>2, <1>3, SplitList
    <3>5. st' \in [Addr -> St] /\ nxt' \in Links /\ prv' \in Links
      BY <3>1, <3>2, <1>3, AddrType DEF SplitNxt, SplitPrv, SplitSt, Links, St
    <3>6. t \in Seq(Addr) /\ Nodes(t) = FreeSet \cup {rest} /\ Injective(t)
      BY <3>1, <3>3, <3>4, <1>4, InsertFreeNodes DEF FreeSet
    <3>7. freeTree' \in Seq(Addr) /\ Nodes(freeTree') = (FreeSet \cup {rest}) \ {b} /\ Injective(freeTree')
      BY <3>3, <3>6, <1>4, EraseNodes
    <3>8. \A c \in Addr : st'[c] = IF c = rest THEN "free" ELSE IF c = b THEN "busy" ELSE st[c]
      BY <3>1, <3>2, <1>3 DEF SplitSt
    <3>9. Nodes(freeTree') = {c \in Addr : st'[c] = "free"}
      BY <3>1, <3>7, <3>8 DEF FreeSet
    <3>. QED BY <3>4, <3>5, <3>7, <3>8, <3>9
  <2>2. CASE binder_alloc_buffer_size(b) = size
    <3>1. /\ st' = [st EXCEPT ![b] = "busy"] /\ nxt' = nxt /\ prv' = prv
          /\ freeTree' = Erase(freeTree, b)
      BY <2>2 DEF NewBuf
    <3>2. freeTree' \in Seq(Addr) /\ Nodes(freeTree') = FreeSet \ {b} /\ Injective(freeTree')
      BY <3>1, <1>4, EraseNodes
    <3>3. \A c \in Addr : st'[c] = IF c = b THEN "busy" ELSE st[c]
      BY <3>1, <1>3
    <3>4. st' \in [Addr -> St]
      BY <3>1, <1>3 DEF St
    <3>5. Nodes(freeTree') = {c \in Addr : st'[c] = "free"}
      BY <3>2, <3>3 DEF FreeSet
    <3>6. List(st', nxt, prv)
      <4>1. Starts(st', prv)
        BY <3>3, AddrType DEF List, Starts
      <4>2. Linked(st', nxt, prv)
        <5>1. \A c \in Addr : st'[c] # "absent" <=> st[c] # "absent"
          BY <3>3, <1>2
        <5>2. \A c \in Addr : nxt[c] # ListHead => nxt[c] \in Addr
          BY <1>3, AddrType DEF Links
        <5>. QED BY <5>1, <5>2 DEF List, Linked
      <4>3. NoneInside(st', nxt)
        BY <3>3, <1>2 DEF List, NoneInside
      <4>4. Coalesced(st', nxt)
        <5>1. \A c \in Addr : nxt[c] # ListHead => nxt[c] \in Addr
          BY <1>3, AddrType DEF Links
        <5>. QED BY <3>3, <5>1 DEF List, Coalesced
      <4>. QED BY <4>1, <4>2, <4>3, <4>4 DEF List
    <3>. QED BY <3>1, <3>2, <3>3, <3>4, <3>5, <3>6, <1>3
  <2>. QED BY <2>1, <2>2
<1>7. TreeInv'
  BY <1>6 DEF TreeInv, FreeSet, Nodes, Injective
<1>8. /\ buf' \in [Addr -> Buffer] /\ \A c \in Addr : c # b => buf'[c] = buf[c]
      /\ ~buf'[b].allow_user_free
  BY DEF NewBuf, TypeOK, Buffer
<1>9. pages' \in [Pages -> {"none", "lru", "active"}]
  BY DEF NewBuf, TakePages, TypeOK
<1>10. bug' \in BOOLEAN
  BY DEF NewBuf, TypeOK
<1>11. free_async_space' \in 0 .. SizeMod - 1
  <2>1. AsyncCharge(r) \in Int
    BY <1>1, HdrAssumption DEF AsyncCharge
  <2>2. free_async_space - AsyncCharge(r) \in Int
    BY <2>1, ModAssumption DEF TypeOK
  <2>. QED BY <2>2, ModRange, ModAssumption DEF NewBuf, TypeOK
<1>. QED BY <1>2, <1>6, <1>7, <1>8, <1>9, <1>10, <1>11
-----------------------------------------------------------------------------
(* The theorems.                                                           *)

\* A step that leaves the list, the tree and the claims alone.
LEMMA QuietStep ==
  ASSUME IInv, TypeOK', Mapped' <=> Mapped, area' = area \/ freeing' = [t \in Threads |-> NoAddr],
         UNCHANGED <<listVars, buf, freeing>>
  PROVE  IInv'
<1>1. st' = st /\ nxt' = nxt /\ prv' = prv /\ freeTree' = freeTree /\ buf' = buf /\ freeing' = freeing
  BY DEF listVars
<1>2. ListInv'
  BY <1>1 DEF IInv, ListInv, List, Starts, Linked, NoneInside, Coalesced
<1>3. TreeInv'
  BY <1>1 DEF IInv, TreeInv, FreeSet, Nodes, Injective
<1>4. ClaimInv'
  BY <1>1 DEF IInv, ClaimInv, ClaimExclusive
<1>5. FreeableInv'
  BY <1>1 DEF IInv, FreeableInv
<1>. QED BY <1>2, <1>3, <1>4, <1>5 DEF IInv

\* The initial state: no area.
LEMMA InitIInv == Init => IInv
<1> SUFFICES ASSUME Init PROVE IInv
  OBVIOUS
<1>1. TypeOK
  <2>1. NoBuffer \in Buffer
    BY DEF Buffer, NoBuffer
  <2>2. buf \in [Addr -> Buffer]
    BY <2>1 DEF Init
  <2>3. nxt \in [Addr -> 0 .. ListHead] /\ prv \in [Addr -> 0 .. ListHead]
    BY AddrType DEF Init
  <2>4. freeTree \in Seq(Addr) /\ free_async_space \in 0 .. SizeMod - 1
    BY ModAssumption DEF Init
  <2>5. freeing \in [Threads -> Addr \cup {NoAddr}]
    BY DEF Init
  <2>. QED BY <2>2, <2>3, <2>4, <2>5 DEF Init, TypeOK, Areas
<1>2. ListInv
  BY AddrType DEF Init, ListInv, Mapped
<1>3. TreeInv
  BY DEF Init, TreeInv, FreeSet, Nodes, Injective
<1>4. ClaimInv
  BY DEF Init, ClaimInv, ClaimExclusive
<1>5. FreeableInv
  BY DEF Init, FreeableInv, NoBuffer
<1>. QED BY <1>1, <1>2, <1>3, <1>4, <1>5 DEF IInv

\* Every step preserves the invariant.
LEMMA NextIInv == IInv /\ [Next]_vars => IInv'
<1> SUFFICES ASSUME IInv, [Next]_vars PROVE IInv'
  OBVIOUS
<1>1. CASE MmapReserve
  <2>1. TypeOK' /\ (Mapped' <=> Mapped) /\ freeing' = [t \in Threads |-> NoAddr]
    BY <1>1 DEF MmapReserve, IInv, TypeOK, Areas, Mapped, listVars, ClaimInv
  <2>. QED BY <1>1, <2>1, QuietStep DEF MmapReserve
<1>2. CASE MmapFinish
  <2>1. TypeOK'
    BY <1>2, AddrType, ModAssumption DEF MmapFinish, IInv, TypeOK, Areas, BufferSize
  <2>2. List(st', nxt', prv') /\ Mapped'
    BY <1>2, AddrType DEF MmapFinish, IInv, TypeOK, ListInv, Mapped, List, Starts,
       Linked, NoneInside, Coalesced
  <2>3. TreeInv'
    BY <1>2, AddrType DEF MmapFinish, IInv, TypeOK, ListInv, Mapped, TreeInv,
       FreeSet, Nodes, Injective
  <2>4. ClaimInv'
    BY <1>2 DEF MmapFinish, IInv, ClaimInv, ClaimExclusive
  <2>5. FreeableInv'
    BY <1>2 DEF MmapFinish, IInv, FreeableInv
  <2>. QED BY <2>1, <2>2, <2>3, <2>4, <2>5 DEF IInv, ListInv
<1>3. CASE MmapFail
  <2>1. TypeOK' /\ (Mapped' <=> Mapped) /\ freeing' = [t \in Threads |-> NoAddr]
    BY <1>3 DEF MmapFail, IInv, TypeOK, Areas, Mapped, listVars, ClaimInv
  <2>. QED BY <1>3, <2>1, QuietStep DEF MmapFail
<1>4. CASE VmaClose
  <2>1. TypeOK' /\ (Mapped' <=> Mapped)
    BY <1>4 DEF VmaClose, IInv, TypeOK, Mapped, listVars
  <2>. QED BY <1>4, <2>1, QuietStep DEF VmaClose
<1>5. ASSUME NEW p \in Pages, ShrinkPage(p) PROVE IInv'
  <2>1. TypeOK' /\ (Mapped' <=> Mapped)
    BY <1>5 DEF ShrinkPage, IInv, TypeOK, Mapped, listVars
  <2>. QED BY <1>5, <2>1, QuietStep DEF ShrinkPage
<1>6. ASSUME NEW r \in Requests, NEW async \in BOOLEAN, NEW b \in Addr, NewBuf(r, async, b)
      PROVE  IInv'
  <2>1. area = "mapped" /\ area' = area /\ vma' = vma /\ freeing' = freeing
    BY <1>6 DEF NewBuf, CanAllocate
  <2>2. List(st, nxt, prv)
    BY <2>1 DEF IInv, ListInv, Mapped
  <2>3. /\ st' \in [Addr -> St] /\ nxt' \in Links /\ prv' \in Links
        /\ buf' \in [Addr -> Buffer] /\ freeTree' \in Seq(Addr)
        /\ pages' \in [Pages -> {"none", "lru", "active"}]
        /\ free_async_space' \in 0 .. SizeMod - 1
        /\ bug' \in BOOLEAN
        /\ List(st', nxt', prv')
        /\ TreeInv'
        /\ st[b] = "free"
        /\ \A c \in Addr : c # b => buf'[c] = buf[c] /\ (st[c] = "busy" => st'[c] = "busy")
        /\ ~buf'[b].allow_user_free
    BY <1>6, <2>2, NewBufStep DEF IInv
  <2>4. TypeOK'
    BY <2>1, <2>3 DEF IInv, TypeOK, St, Links
  <2>5. ClaimInv'
    BY ZenonT(30), <2>1, <2>3 DEF IInv, TypeOK, ClaimInv, ClaimExclusive
  <2>6. FreeableInv'
    BY <2>3 DEF IInv, FreeableInv
  <2>. QED BY <2>1, <2>3, <2>4, <2>5, <2>6 DEF IInv, ListInv, Mapped
<1>7. ASSUME NEW r \in Requests, NEW async \in BOOLEAN, NEW b \in Addr, NEW k \in Pages,
             NewBufPageFails(r, async, b, k)
      PROVE  IInv'
  <2>1. TypeOK' /\ (Mapped' <=> Mapped)
    BY <1>7 DEF NewBufPageFails, IInv, TypeOK, Mapped, listVars, DropPages
  <2>. QED BY <1>7, <2>1, QuietStep DEF NewBufPageFails
<1>8. ASSUME NEW r \in Requests, NEW async \in BOOLEAN, NEW b \in Addr,
             NewBufStructFails(r, async, b)
      PROVE  IInv'
  <2>1. TypeOK' /\ (Mapped' <=> Mapped)
    BY <1>8 DEF NewBufStructFails, IInv, TypeOK, Mapped, listVars, DropPages
  <2>. QED BY <1>8, <2>1, QuietStep DEF NewBufStructFails
<1>9. ASSUME NEW b \in Addr, Deliver(b) PROVE IInv'
  <2>1. /\ st' = st /\ nxt' = nxt /\ prv' = prv /\ freeTree' = freeTree
        /\ area' = area /\ freeing' = freeing /\ ~buf[b].delivered
    BY <1>9 DEF Deliver, listVars
  <2>2. TypeOK' /\ \A c \in Addr : c # b => buf'[c] = buf[c]
    BY ZenonT(30), <1>9 DEF Deliver, IInv, TypeOK, listVars, Buffer
  <2>3. ListInv'
    BY <2>1 DEF IInv, ListInv, List, Starts, Linked, NoneInside, Coalesced, Mapped
  <2>4. TreeInv'
    BY <2>1 DEF IInv, TreeInv, FreeSet, Nodes, Injective
  <2>5. ClaimInv'
    BY <2>1, <2>2 DEF IInv, TypeOK, ClaimInv, ClaimExclusive
  <2>6. FreeableInv'
    BY <1>9 DEF Deliver, IInv, TypeOK, FreeableInv, Buffer
  <2>. QED BY <2>2, <2>3, <2>4, <2>5, <2>6 DEF IInv
<1>10. ASSUME NEW b \in Addr, st[b] = "busy", Mapped, FreeBufLocked(b),
              area' = area, vma' = vma, freeing' \in [Threads -> Addr \cup {NoAddr}],
              \A t \in Threads : freeing'[t] # NoAddr => freeing'[t] = freeing[t] /\ freeing[t] # b
       PROVE  IInv'
  <2>1. List(st, nxt, prv)
    BY <1>10 DEF IInv, ListInv
  <2>2. /\ st' \in [Addr -> St] /\ nxt' \in Links /\ prv' \in Links
        /\ buf' \in [Addr -> Buffer] /\ freeTree' \in Seq(Addr)
        /\ pages' \in [Pages -> {"none", "lru", "active"}]
        /\ free_async_space' \in 0 .. SizeMod - 1
        /\ bug' \in BOOLEAN
        /\ List(st', nxt', prv')
        /\ TreeInv'
        /\ \A c \in Addr : c # b => buf'[c] = buf[c] /\ (st[c] = "busy" => st'[c] = "busy")
        /\ ~buf'[b].allow_user_free
    BY <1>10, <2>1, FreeStep DEF IInv
  <2>3. TypeOK'
    BY <1>10, <2>2 DEF IInv, TypeOK, St, Links
  <2>4. ClaimInv'
    BY <1>10, <2>2 DEF IInv, TypeOK, ClaimInv, ClaimExclusive
  <2>5. FreeableInv'
    BY <2>2 DEF IInv, FreeableInv
  <2>. QED BY <1>10, <2>2, <2>3, <2>4, <2>5 DEF IInv, ListInv, Mapped
<1>11. ASSUME NEW b \in Addr, KernelFree(b) PROVE IInv'
  <2>1. /\ st[b] = "busy" /\ Mapped /\ FreeBufLocked(b) /\ area' = area /\ vma' = vma
        /\ freeing' = freeing /\ ~buf[b].delivered
    BY <1>11 DEF KernelFree, Mapped
  <2>2. freeing \in [Threads -> Addr \cup {NoAddr}]
    BY DEF IInv, TypeOK
  <2>3. \A t \in Threads : freeing[t] # NoAddr => freeing[t] # b
    BY <2>1 DEF IInv, ClaimInv
  <2>. QED BY <2>1, <2>2, <2>3, <1>10
<1>12. ASSUME NEW t \in Threads, NEW b \in Addr, PrepareToFree(t, b) PROVE IInv'
  <2>1. /\ st' = st /\ nxt' = nxt /\ prv' = prv /\ freeTree' = freeTree /\ area' = area
        /\ st[b] = "busy" /\ buf[b].allow_user_free /\ area = "mapped"
    BY <1>12 DEF PrepareToFree, listVars
  <2>2. /\ TypeOK' /\ freeing'[t] = b /\ \A u \in Threads : u # t => freeing'[u] = freeing[u]
        /\ \A c \in Addr : buf'[c].delivered = buf[c].delivered
        /\ ~buf'[b].allow_user_free /\ \A c \in Addr : c # b => buf'[c] = buf[c]
    BY <1>12 DEF PrepareToFree, IInv, TypeOK, listVars, Buffer
  <2>3. ListInv'
    BY <2>1 DEF IInv, ListInv, List, Starts, Linked, NoneInside, Coalesced, Mapped
  <2>4. TreeInv'
    BY <2>1 DEF IInv, TreeInv, FreeSet, Nodes, Injective
  <2>5. buf[b].delivered
    BY <2>1 DEF IInv, FreeableInv
  <2>6. \A u \in Threads : u # t /\ freeing[u] # NoAddr => freeing[u] # b
    BY <2>1 DEF IInv, ClaimInv, ClaimExclusive
  <2>7. ClaimInv'
    <3>1. ASSUME NEW u \in Threads, freeing'[u] # NoAddr
          PROVE  /\ buf'[freeing'[u]].delivered /\ st'[freeing'[u]] = "busy"
                 /\ ~buf'[freeing'[u]].allow_user_free
                 /\ \A v \in Threads : freeing'[v] = freeing'[u] => v = u
      <4>1. CASE u = t
        BY <4>1, <3>1, <2>1, <2>2, <2>5, <2>6
      <4>2. CASE u # t
        <5>1. freeing[u] # NoAddr /\ freeing[u] # b /\ freeing[u] \in Addr /\ freeing'[u] = freeing[u]
          BY <4>2, <3>1, <2>2, <2>6 DEF IInv, TypeOK
        <5>. QED BY <4>2, <5>1, <2>1, <2>2 DEF IInv, ClaimInv, ClaimExclusive
      <4>. QED BY <4>1, <4>2
    <3>. QED BY <3>1, <2>1 DEF ClaimInv, ClaimExclusive
  <2>8. FreeableInv'
    BY <2>2 DEF IInv, FreeableInv
  <2>. QED BY <2>2, <2>3, <2>4, <2>7, <2>8 DEF IInv
<1>13. ASSUME NEW t \in Threads, UserFree(t) PROVE IInv'
  <2>1. /\ area = "mapped" /\ area' = area /\ vma' = vma /\ freeing[t] # NoAddr
        /\ FreeBufLocked(freeing[t]) /\ freeing' = [freeing EXCEPT ![t] = NoAddr]
    BY <1>13 DEF UserFree
  <2>2. freeing[t] \in Addr /\ st[freeing[t]] = "busy" /\ Mapped
    BY <2>1 DEF IInv, TypeOK, ClaimInv, ClaimExclusive, Mapped
  <2>3. freeing' \in [Threads -> Addr \cup {NoAddr}]
    BY <2>1 DEF IInv, TypeOK
  <2>4. \A u \in Threads : freeing'[u] # NoAddr => freeing'[u] = freeing[u] /\ freeing[u] # freeing[t]
    BY <2>1 DEF IInv, TypeOK, ClaimInv, ClaimExclusive
  <2>. QED BY <2>1, <2>2, <2>3, <2>4, <1>10
<1>14. CASE ReleaseStart
  <2>1. TypeOK' /\ (Mapped' <=> Mapped) /\ freeing' = [t \in Threads |-> NoAddr]
    BY <1>14 DEF ReleaseStart, IInv, TypeOK, Areas, Mapped, listVars
  <2>. QED BY <1>14, <2>1, QuietStep DEF ReleaseStart
<1>15. ASSUME NEW b \in Addr, ReleaseBuffer(b) PROVE IInv'
  <2>1. /\ st[b] = "busy" /\ Mapped /\ FreeBufLocked(b) /\ area' = area /\ vma' = vma
        /\ freeing' = freeing /\ area = "releasing"
    BY <1>15 DEF ReleaseBuffer, Mapped
  <2>2. freeing \in [Threads -> Addr \cup {NoAddr}]
    BY DEF IInv, TypeOK
  <2>3. \A t \in Threads : freeing[t] = NoAddr
    BY <2>1 DEF IInv, ClaimInv
  <2>. QED BY <2>1, <2>2, <2>3, <1>10
<1>16. CASE ReleaseFinish
  <2>1. TypeOK'
    BY <1>16, AddrType DEF ReleaseFinish, IInv, TypeOK, Areas
  <2>2. ListInv'
    BY <1>16, AddrType DEF ReleaseFinish, ListInv, Mapped
  <2>3. TreeInv'
    BY <1>16 DEF ReleaseFinish, TreeInv, FreeSet, Nodes, Injective
  <2>4. ClaimInv'
    BY <1>16 DEF ReleaseFinish, IInv, ClaimInv, ClaimExclusive
  <2>5. FreeableInv'
    BY <1>16 DEF ReleaseFinish, IInv, FreeableInv
  <2>. QED BY <2>1, <2>2, <2>3, <2>4, <2>5 DEF IInv
<1>17. CASE AllocInit
  <2>1. TypeOK' /\ (Mapped' <=> Mapped) /\ freeing' = [t \in Threads |-> NoAddr]
    BY <1>17, ModAssumption DEF AllocInit, IInv, TypeOK, Areas, Mapped, listVars, ClaimInv
  <2>. QED BY <1>17, <2>1, QuietStep DEF AllocInit
<1>18. CASE UNCHANGED vars
  <2>1. TypeOK' /\ (Mapped' <=> Mapped)
    BY <1>18 DEF vars, IInv, TypeOK, Mapped
  <2>. QED BY <1>18, <2>1, QuietStep DEF vars, listVars
<1>. QED BY <1>1, <1>2, <1>3, <1>4, <1>5, <1>6, <1>7, <1>8, <1>9, <1>11, <1>12, <1>13,
            <1>14, <1>15, <1>16, <1>17, <1>18 DEF Next, Alloc

\* For every size of area, word and request, and any number of threads: the
\* variables keep their types and the buffers tile the area.
THEOREM ListCorrect == Spec => []ListSound
<1>1. IInv => ListSound
  BY IInvImplies DEF IInv, ListSound
<1>. QED BY <1>1, InitIInv, NextIInv, PTL DEF Spec

\* Free neighbours are always joined.
THEOREM FreeCoalesced == Spec => []NoAdjacentFree
<1>. QED BY IInvImplies, InitIInv, NextIInv, PTL DEF Spec

\* Threads that race to free a buffer never get hold of it together.
THEOREM ClaimsExclusive == Spec => []ClaimExclusive
<1>. QED BY IInvImplies, InitIInv, NextIInv, PTL DEF Spec

(***************************************************************************)
(* The buffer allocator implements BufferLease: each step of BinderAlloc   *)
(* maps to a step of the abstract specification or leaves it alone. IInv   *)
(* gives what the steps need.                                              *)
(***************************************************************************)
\* The addresses of the abstract specification are those of the area.
LEMMA LeaseStart == Lease!Start = Addr
  BY DEF Lease!Start, Addr

LEMMA LeaseInit == Init => Lease!Init
  BY LeaseStart DEF Init, Lease!Init, LeasePhase, LeaseSize, LeaseBy

\* The two lent functions, address by address.
LEMMA LeaseAt ==
  /\ \A c \in Addr : /\ LeaseSize[c] = IF st[c] = "busy" THEN nxt[c] - c ELSE 0
                     /\ LeaseBy[c] = IF st[c] # "busy" THEN "none"
                                     ELSE IF buf[c].allow_user_free THEN "user"
                                     ELSE IF buf[c].delivered THEN "freeing" ELSE "driver"
  /\ \A c \in Addr : /\ LeaseSize'[c] = IF st'[c] = "busy" THEN nxt'[c] - c ELSE 0
                     /\ LeaseBy'[c] = IF st'[c] # "busy" THEN "none"
                                      ELSE IF buf'[c].allow_user_free THEN "user"
                                      ELSE IF buf'[c].delivered THEN "freeing" ELSE "driver"
  BY DEF LeaseSize, LeaseBy

\* The list, the states and the records of buffers determine the mapping.
LEMMA LeaseSame ==
  ASSUME UNCHANGED <<st, nxt, buf>>
  PROVE  LeaseSize' = LeaseSize /\ LeaseBy' = LeaseBy
  BY DEF LeaseSize, LeaseBy

\* A change at one address only.
LEMMA LeaseExcept ==
  ASSUME NEW b \in Addr, NEW n, NEW w,
         \A c \in Addr : c # b => LeaseSize'[c] = LeaseSize[c] /\ LeaseBy'[c] = LeaseBy[c],
         LeaseSize'[b] = n, LeaseBy'[b] = w
  PROVE  LeaseSize' = [LeaseSize EXCEPT ![b] = n] /\ LeaseBy' = [LeaseBy EXCEPT ![b] = w]
  BY ZenonT(30) DEF LeaseSize, LeaseBy

\* An allocation lends a range that no other lent range meets: b was free, so
\* no busy buffer reaches into it, and what is cut off behind it was absent.
LEMMA LendStep ==
  ASSUME IInv, NEW r \in Requests, NEW async \in BOOLEAN, NEW b \in Addr, NewBuf(r, async, b)
  PROVE  \E n \in 1 .. BufferSize : Lease!Lend(b, n)
<1> DEFINE n == PaddedSize(r)
           rest == b + n
<1>1. n \in Nat \ {0}
  BY SizesType
<1>2. area = "mapped" /\ area' = area /\ List(st, nxt, prv) /\ TypeOK /\ TreeInv
  BY DEF NewBuf, CanAllocate, IInv, ListInv, Mapped
<1>3. st[b] = "free" /\ n <= nxt[b] - b
  BY <1>1, <1>2, BestFitsFit DEF NewBuf, CanAllocate
<1>4. st \in [Addr -> St] /\ nxt \in Links /\ b \in Int /\ nxt[b] \in Int /\ nxt[b] <= BufferSize
  BY <1>2, AddrType DEF TypeOK, St, Links
<1>5. /\ st'[b] = "busy" /\ nxt'[b] = b + n
      /\ \A c \in Addr : c # b => (st'[c] = "busy" <=> st[c] = "busy") /\ (st[c] = "busy" => nxt'[c] = nxt[c])
  <2>1. CASE binder_alloc_buffer_size(b) # n
    <3>1. rest \in Addr /\ b < rest /\ rest < nxt[b] /\ rest # b
      BY <2>1, <1>1, <1>3, <1>4, AddrType DEF binder_alloc_buffer_size, SizeIn
    <3>2. st[rest] = "absent"
      BY <3>1, <1>2, <1>3, <1>4 DEF List, NoneInside, St
    <3>3. nxt' = [nxt EXCEPT ![b] = rest, ![rest] = nxt[b]] /\ st' = [st EXCEPT ![b] = "busy", ![rest] = "free"]
      BY <2>1 DEF NewBuf, ListAddNxt
    <3> HIDE DEF rest
    <3>4. st'[b] = "busy" /\ nxt'[b] = rest
      BY <3>1, <3>3, <1>4 DEF Links
    <3>5. \A c \in Addr : c # b => (st'[c] = "busy" <=> st[c] = "busy") /\ (st[c] = "busy" => nxt'[c] = nxt[c])
      BY <3>1, <3>2, <3>3, <1>4 DEF Links
    <3>. QED BY <3>4, <3>5 DEF rest
  <2>2. CASE binder_alloc_buffer_size(b) = n
    <3>1. nxt' = nxt /\ st' = [st EXCEPT ![b] = "busy"]
      BY <2>2 DEF NewBuf
    <3>2. nxt[b] = b + n
      BY <2>2, <1>1, <1>4 DEF binder_alloc_buffer_size, SizeIn
    <3>. QED BY <3>1, <3>2, <1>4
  <2>. QED BY <2>1, <2>2
<1>6. /\ \A c \in Addr : c # b => buf'[c] = buf[c]
      /\ ~buf'[b].allow_user_free /\ ~buf'[b].delivered
  BY <1>2 DEF NewBuf, TypeOK
<1> HIDE DEF n
<1>7. LeaseSize'[b] = n /\ LeaseBy'[b] = "driver"
  BY <1>1, <1>4, <1>5, <1>6, LeaseAt
<1>8. \A c \in Addr : c # b => LeaseSize'[c] = LeaseSize[c] /\ LeaseBy'[c] = LeaseBy[c]
  BY <1>5, <1>6, LeaseAt
<1>9. LeaseSize' = [LeaseSize EXCEPT ![b] = n] /\ LeaseBy' = [LeaseBy EXCEPT ![b] = "driver"]
  BY <1>7, <1>8, LeaseExcept
<1>10. LeaseSize[b] = 0 /\ b + n <= BufferSize /\ n \in 1 .. BufferSize
  BY <1>1, <1>3, <1>4, LeaseAt, AddrType
<1>11. Lease!Apart(b, n)
  <2> SUFFICES ASSUME NEW c \in Addr, LeaseSize[c] > 0
               PROVE  c + LeaseSize[c] <= b \/ b + n <= c
    BY LeaseStart DEF Lease!Apart
  <2>1. st[c] = "busy" /\ LeaseSize[c] = nxt[c] - c /\ nxt[c] \in Int /\ c \in Int
    BY LeaseAt, <1>4, AddrType DEF Links
  <2>2. c < b => nxt[c] <= b
    BY <2>1, <1>2, <1>3, <1>4 DEF List, NoneInside
  <2>3. b < c => nxt[b] <= c
    BY <2>1, <1>2, <1>3, <1>4 DEF List, NoneInside
  <2>. QED BY <2>1, <2>2, <2>3, <1>1, <1>3, <1>4
<1>12. LeasePhase = "open" /\ LeasePhase' = LeasePhase
  BY <1>2 DEF LeasePhase
<1>. QED BY <1>9, <1>10, <1>11, <1>12 DEF Lease!Lend

\* Freeing gives back b and nothing else: the buffers it joins are not lent.
LEMMA GiveBackStep ==
  ASSUME IInv, NEW b \in Addr, st[b] = "busy", Mapped, FreeBufLocked(b), area' = area,
         area = "mapped" => ~buf[b].allow_user_free
  PROVE  Lease!GiveBack(b)
<1>1. TypeOK /\ List(st, nxt, prv)
  BY DEF IInv, ListInv
<1>2. st \in [Addr -> St] /\ nxt \in Links /\ b \in Int /\ nxt[b] \in Int /\ nxt[b] > b
  BY <1>1, AddrType DEF TypeOK, St, Links, List, Linked
<1>3. \A c \in Addr : /\ st'[c] = IF c = JoinStart(b) THEN "free"
                                   ELSE IF c \in Joined(b) THEN "absent" ELSE st[c]
                      /\ nxt'[c] = IF c = JoinStart(b) THEN JoinEnd(b)
                                   ELSE IF c \in Joined(b) THEN ListHead ELSE nxt[c]
                      /\ c # b => buf'[c] = buf[c]
  BY <1>1 DEF FreeBufLocked, ListDelNxt, TypeOK
<1>4. st'[b] # "busy"
  BY <1>3 DEF JoinStart, Joined
<1>5. ASSUME NEW c \in Addr, c # b
      PROVE  (st'[c] = "busy" <=> st[c] = "busy") /\ (st[c] = "busy" => nxt'[c] = nxt[c])
  <2>1. c = JoinStart(b) => st[c] = "free"
    BY <1>5 DEF JoinStart, PrevIsFree
  <2>2. c \in Joined(b) => st[c] = "free"
    BY <1>5 DEF Joined, NextIsFree
  <2>. QED BY <2>1, <2>2, <1>3
<1>6. LeaseSize'[b] = 0 /\ LeaseBy'[b] = "none"
  BY <1>4, LeaseAt
<1>7. \A c \in Addr : c # b => LeaseSize'[c] = LeaseSize[c] /\ LeaseBy'[c] = LeaseBy[c]
  BY <1>3, <1>5, LeaseAt
<1>8. LeaseSize' = [LeaseSize EXCEPT ![b] = 0] /\ LeaseBy' = [LeaseBy EXCEPT ![b] = "none"]
  BY <1>6, <1>7, LeaseExcept
<1>9. LeaseSize[b] > 0 /\ (area = "mapped" => LeaseBy[b] # "user")
  BY <1>2, LeaseAt
<1>10. /\ LeasePhase' = LeasePhase
       /\ (LeasePhase = "open" /\ area = "mapped") \/ LeasePhase = "closing"
  BY DEF LeasePhase, Mapped
<1>. QED BY <1>8, <1>9, <1>10 DEF Lease!GiveBack

\* A step that touches neither the list nor the records of buffers.
LEMMA PhaseStep ==
  ASSUME UNCHANGED <<st, nxt, buf>>
  PROVE  /\ area' = area => UNCHANGED Lease!lease
         /\ area' # "mapped" /\ area' # "releasing" /\ ~Mapped => UNCHANGED Lease!lease
<1>1. LeaseSize' = LeaseSize /\ LeaseBy' = LeaseBy
  BY LeaseSame
<1>. QED BY <1>1 DEF Lease!lease, LeasePhase, Mapped

\* Every step of the allocator is a step of the lender or none.
LEMMA LeaseStep == IInv /\ [Next]_vars => [Lease!Next]_(Lease!lease)
<1> SUFFICES ASSUME IInv, [Next]_vars PROVE Lease!Next \/ UNCHANGED Lease!lease
  OBVIOUS
<1>0. TypeOK
  BY DEF IInv
<1>1. CASE MmapReserve \/ MmapFail \/ AllocInit
  BY <1>1, PhaseStep DEF MmapReserve, MmapFail, AllocInit, listVars, Mapped
<1>2. CASE MmapFinish
  <2>1. LeasePhase = "closed" /\ LeasePhase' = "open"
    BY <1>2 DEF MmapFinish, LeasePhase
  <2>2. \A b \in Addr : st[b] # "busy" /\ st'[b] # "busy"
    BY <1>2, <1>0, AddrType DEF MmapFinish, IInv, ListInv, Mapped, TypeOK
  <2>3. LeaseSize' = LeaseSize /\ LeaseBy' = LeaseBy
    BY <2>2 DEF LeaseSize, LeaseBy
  <2>. QED BY <2>1, <2>3 DEF Lease!Next, Lease!Turn
<1>3. CASE VmaClose \/ UNCHANGED vars \/ \E p \in Pages : ShrinkPage(p)
  BY <1>3, PhaseStep DEF VmaClose, ShrinkPage, listVars, vars
<1>4. ASSUME NEW r \in Requests, NEW async \in BOOLEAN, NEW b \in Addr, NewBuf(r, async, b)
      PROVE  Lease!Next
  BY <1>4, LendStep, LeaseStart DEF Lease!Next
<1>5. ASSUME NEW r \in Requests, NEW async \in BOOLEAN, NEW b \in Addr,
             NewBufStructFails(r, async, b) \/ \E k \in Pages : NewBufPageFails(r, async, b, k)
      PROVE  UNCHANGED Lease!lease
  BY <1>5, PhaseStep DEF NewBufStructFails, NewBufPageFails, listVars
<1>6. ASSUME NEW b \in Addr, Deliver(b) PROVE Lease!Next
  <2>1. /\ st[b] = "busy" /\ ~buf[b].delivered /\ ~buf[b].allow_user_free
        /\ st' = st /\ nxt' = nxt /\ area = "mapped" /\ area' = area
    BY <1>6 DEF Deliver, listVars, IInv, FreeableInv
  <2>2. buf'[b].allow_user_free /\ \A c \in Addr : c # b => buf'[c] = buf[c]
    BY <1>6, <1>0 DEF Deliver, TypeOK, Buffer
  <2>3. LeaseBy' = [LeaseBy EXCEPT ![b] = "user"] /\ LeaseSize' = LeaseSize
    BY <2>1, <2>2 DEF LeaseBy, LeaseSize
  <2>4. LeaseSize[b] > 0 /\ LeaseBy[b] = "driver" /\ LeasePhase = "open" /\ LeasePhase' = LeasePhase
    <3>1. nxt[b] > b /\ nxt[b] \in Int /\ b \in Int
      BY <2>1, <1>0, AddrType DEF IInv, ListInv, Mapped, List, Linked, TypeOK
    <3>. QED BY <3>1, <2>1, LeaseAt DEF LeasePhase
  <2>5. Lease!Pass(b, "driver", "user")
    BY <2>3, <2>4 DEF Lease!Pass
  <2>. QED BY <2>5, LeaseStart DEF Lease!Next
<1>7. ASSUME NEW t \in Threads, NEW b \in Addr, PrepareToFree(t, b) PROVE Lease!Next
  <2>1. /\ st[b] = "busy" /\ buf[b].delivered /\ buf[b].allow_user_free
        /\ st' = st /\ nxt' = nxt /\ area = "mapped" /\ area' = area
    BY <1>7 DEF PrepareToFree, listVars, IInv, FreeableInv
  <2>2. ~buf'[b].allow_user_free /\ buf'[b].delivered /\ \A c \in Addr : c # b => buf'[c] = buf[c]
    BY <1>7, <1>0, <2>1 DEF PrepareToFree, TypeOK, Buffer
  <2>3. LeaseBy' = [LeaseBy EXCEPT ![b] = "freeing"] /\ LeaseSize' = LeaseSize
    BY <2>1, <2>2 DEF LeaseBy, LeaseSize
  <2>4. LeaseSize[b] > 0 /\ LeaseBy[b] = "user" /\ LeasePhase = "open" /\ LeasePhase' = LeasePhase
    <3>1. nxt[b] > b /\ nxt[b] \in Int /\ b \in Int
      BY <2>1, <1>0, AddrType DEF IInv, ListInv, Mapped, List, Linked, TypeOK
    <3>. QED BY <3>1, <2>1, LeaseAt DEF LeasePhase
  <2>5. Lease!Pass(b, "user", "freeing")
    BY <2>3, <2>4 DEF Lease!Pass
  <2>. QED BY <2>5, LeaseStart DEF Lease!Next
<1>8. ASSUME NEW b \in Addr, KernelFree(b) PROVE Lease!Next
  <2>1. /\ st[b] = "busy" /\ Mapped /\ FreeBufLocked(b) /\ area' = area /\ ~buf[b].allow_user_free
    BY <1>8 DEF KernelFree, Mapped, IInv, FreeableInv
  <2>. QED BY <2>1, GiveBackStep, LeaseStart DEF Lease!Next
<1>9. ASSUME NEW t \in Threads, UserFree(t) PROVE Lease!Next
  <2>1. /\ freeing[t] \in Addr /\ st[freeing[t]] = "busy" /\ ~buf[freeing[t]].allow_user_free
        /\ Mapped /\ FreeBufLocked(freeing[t]) /\ area' = area
    BY <1>9, <1>0 DEF UserFree, Mapped, IInv, ClaimInv, ClaimExclusive, TypeOK
  <2>. QED BY <2>1, GiveBackStep, LeaseStart DEF Lease!Next
<1>10. CASE ReleaseStart
  <2>1. LeaseSize' = LeaseSize /\ LeaseBy' = LeaseBy
    BY <1>10, LeaseSame DEF ReleaseStart, listVars
  <2>. QED BY <1>10, <2>1 DEF ReleaseStart, LeasePhase, Lease!Next, Lease!Turn
<1>11. ASSUME NEW b \in Addr, ReleaseBuffer(b) PROVE Lease!Next
  <2>1. st[b] = "busy" /\ Mapped /\ FreeBufLocked(b) /\ area' = area /\ area # "mapped"
    BY <1>11 DEF ReleaseBuffer, Mapped
  <2>. QED BY <2>1, GiveBackStep, LeaseStart DEF Lease!Next
<1>12. CASE ReleaseFinish
  <2>1. \A b \in Addr : st[b] # "busy" /\ st'[b] # "busy"
    BY <1>12 DEF ReleaseFinish
  <2>2. LeaseSize' = LeaseSize /\ LeaseBy' = LeaseBy /\ \A b \in Addr : LeaseSize[b] = 0
    BY <2>1 DEF LeaseSize, LeaseBy
  <2>3. LeasePhase = "closing" /\ LeasePhase' = "closed"
    BY <1>12 DEF ReleaseFinish, LeasePhase
  <2>. QED BY <2>2, <2>3, LeaseStart DEF Lease!Next, Lease!Turn, Lease!Close
<1>. QED BY <1>1, <1>2, <1>3, <1>4, <1>5, <1>6, <1>7, <1>8, <1>9, <1>10, <1>11, <1>12 DEF Next,
   Alloc

\* The allocator implements the lender: whatever it splits and joins, and
\* whoever races to free, a buffer is one range with one holder that no other
\* range meets, from the allocation to the one time it comes back.
THEOREM LeaseImplemented == Spec => LeaseKept
<1>. QED BY LeaseInit, LeaseStep, InitIInv, NextIInv, PTL DEF Spec, LeaseKept, Lease!Spec
-----------------------------------------------------------------------------
(* Division.                                                               *)

\* Quotient and remainder of a division.
LEMMA DivMod ==
  ASSUME NEW a \in Int, NEW n \in Nat \ {0}
  PROVE  /\ a \div n \in Int /\ a % n \in 0 .. n - 1
         /\ a = n * (a \div n) + (a % n)
  OBVIOUS

\* They are the only ones.
LEMMA Quotient ==
  ASSUME NEW a \in Int, NEW n \in Nat \ {0}, NEW q \in Int, NEW m \in 0 .. n - 1,
         a = n * q + m
  PROVE  a \div n = q /\ a % n = m
<1>1. PICK d \in Int, e \in 0 .. n - 1 : d = a \div n /\ e = a % n /\ n * d + e = n * q + m
  BY DivMod
<1>2. n * (d - q) = m - e
  BY <1>1
<1>3. d = q
  <2>1. CASE d > q
    <3>1. n * (d - q) >= n * 1
      BY <2>1
    <3>. QED BY <3>1, <1>2
  <2>2. CASE d < q
    <3>1. n * (q - d) >= n * 1
      BY <2>2
    <3>. QED BY <3>1, <1>2
  <2>. QED BY <2>1, <2>2
<1>. QED BY <1>1, <1>3

\* From one byte to the next the page is the same or, at a page boundary, the
\* next one; PageAlign(a) is the page behind that of the byte before a.
LEMMA PageStep ==
  ASSUME NEW a \in Int
  PROVE  /\ PageOf(a) \in Int /\ PageOf(a - 1) \in Int
         /\ PageOf(a - 1) = IF a % PageSize = 0 THEN PageOf(a) - 1 ELSE PageOf(a)
         /\ PageAlign(a) = PageOf(a - 1) + 1
<1> DEFINE P == PageSize
<1>0. P \in Nat \ {0}
  BY PageAssumption
<1>1. PICK q \in Int, m \in 0 .. P - 1 : a = P * q + m /\ a \div P = q /\ a % P = m
  BY <1>0, DivMod
<1> HIDE DEF P
<1>2. CASE m = 0
  <2>1. a - 1 = P * (q - 1) + (P - 1) /\ P - 1 \in 0 .. P - 1
    BY <1>1, <1>2, <1>0
  <2>2. (a - 1) \div P = q - 1
    BY <2>1, Quotient, <1>0
  <2>3. a + P - 1 = P * q + (P - 1)
    BY <1>1, <1>2, <1>0
  <2>4. (a + P - 1) \div P = q
    BY <2>1, <2>3, Quotient, <1>0
  <2>. QED BY <1>1, <1>2, <2>2, <2>4 DEF PageOf, PageAlign, P
<1>3. CASE m # 0
  <2>1. a - 1 = P * q + (m - 1) /\ m - 1 \in 0 .. P - 1
    BY <1>1, <1>3, <1>0
  <2>2. (a - 1) \div P = q
    BY <2>1, Quotient, <1>0
  <2>3. a + P - 1 = P * (q + 1) + (m - 1)
    BY <1>1, <1>0
  <2>4. (a + P - 1) \div P = q + 1
    BY <2>1, <2>3, Quotient, <1>0
  <2>. QED BY <1>1, <1>3, <2>2, <2>4 DEF PageOf, PageAlign, P
<1>. QED BY <1>2, <1>3

\* A later byte is on the same page or on a later one.
LEMMA PageMonotone ==
  ASSUME NEW a \in Int, NEW b \in Int, a <= b
  PROVE  PageOf(a) <= PageOf(b)
<1>0. PageSize \in Nat \ {0}
  BY PageAssumption
<1>1. PICK q \in Int, m \in 0 .. PageSize - 1 : a = PageSize * q + m /\ a \div PageSize = q
  BY <1>0, DivMod
<1>2. PICK k \in Int, l \in 0 .. PageSize - 1 : b = PageSize * k + l /\ b \div PageSize = k
  BY <1>0, DivMod
<1>3. PageSize * (q - k) <= l - m
  BY <1>1, <1>2, <1>0
<1>4. CASE q > k
  <2>1. PageSize * (q - k) >= PageSize * 1
    BY <1>4, <1>0
  <2>. QED BY <2>1, <1>3, <1>0
<1>. QED BY <1>1, <1>2, <1>4 DEF PageOf

\* The pages at the ends of the area.
LEMMA PageEnds ==
  /\ PageOf(0) = 0 /\ PageOf(0 - 1) = 0 - 1
  /\ PageOf(ListHead) = NPages /\ NPages \in Nat \ {0}
<1>0. PageSize \in Nat \ {0} /\ NPages \in Nat \ {0}
  BY PageAssumption
<1>1. 0 = PageSize * 0 + 0 /\ 0 \in 0 .. PageSize - 1
  BY <1>0
<1>2. 0 - 1 = PageSize * (0 - 1) + (PageSize - 1) /\ PageSize - 1 \in 0 .. PageSize - 1
  BY <1>0
<1>3. BufferSize = PageSize * NPages + 0 /\ BufferSize \in Int
  BY <1>0 DEF BufferSize
<1>4. 0 \div PageSize = 0
  BY <1>0, <1>1, Quotient
<1>5. (0 - 1) \div PageSize = 0 - 1
  BY <1>0, <1>2, Quotient
<1>6. BufferSize \div PageSize = NPages
  BY <1>0, <1>1, <1>3, Quotient
<1>. QED BY <1>0, <1>4, <1>5, <1>6 DEF PageOf, ListHead

\* The last byte of the area is on the last page.
LEMMA LastPage == PageOf(ListHead - 1) = NPages - 1
<1>0. PageSize \in Nat \ {0} /\ NPages \in Nat \ {0}
  BY PageAssumption
<1>1. /\ PageSize * NPages - 1 = PageSize * (NPages - 1) + (PageSize - 1)
      /\ PageSize - 1 \in 0 .. PageSize - 1
      /\ PageSize * NPages - 1 \in Int /\ NPages - 1 \in Int
  BY <1>0
<1>2. (PageSize * NPages - 1) \div PageSize = NPages - 1
  BY <1>0, <1>1, Quotient
<1>. QED BY <1>2 DEF PageOf, ListHead, BufferSize

\* What the argument about pages uses.
LEMMA PageFacts ==
  /\ \A a \in Int : /\ PageOf(a) \in Int /\ PageOf(a - 1) \in Int
                    /\ PageOf(a - 1) <= PageOf(a) /\ PageOf(a) <= PageOf(a - 1) + 1
                    /\ a % PageSize = 0 <=> PageOf(a - 1) # PageOf(a)
                    /\ PageAlign(a) = PageOf(a - 1) + 1
  /\ \A a, b \in Int : a <= b => PageOf(a) <= PageOf(b)
  /\ PageOf(0) = 0 /\ PageOf(0 - 1) = 0 - 1 /\ PageOf(ListHead) = NPages
<1>1. ASSUME NEW a \in Int
      PROVE  /\ PageOf(a) \in Int /\ PageOf(a - 1) \in Int
             /\ PageOf(a - 1) <= PageOf(a) /\ PageOf(a) <= PageOf(a - 1) + 1
             /\ a % PageSize = 0 <=> PageOf(a - 1) # PageOf(a)
             /\ PageAlign(a) = PageOf(a - 1) + 1
  BY PageStep
<1>. QED BY <1>1, PageMonotone, PageEnds
-----------------------------------------------------------------------------
(* What the two steps that change the list do to a buffer.                 *)

\* binder_alloc_new_buf_locked turns b into a busy buffer of the padded size
\* and moves no other buffer.
LEMMA NewBufEffect ==
  ASSUME TypeOK, List(st, nxt, prv), TreeInv,
         NEW r \in Requests, NEW async \in BOOLEAN, NEW b \in Addr,
         NewBuf(r, async, b)
  PROVE  /\ PaddedSize(r) \in Nat \ {0}
         /\ st[b] = "free" /\ b + PaddedSize(r) <= nxt[b] /\ nxt'[b] = b + PaddedSize(r)
         /\ \A c \in Addr : st'[c] = "busy" <=> c = b \/ st[c] = "busy"
         /\ \A c \in Addr : c # b /\ st[c] # "absent" => nxt'[c] = nxt[c]
<1> DEFINE size == PaddedSize(r)
           rest == b + size
<1>1. size \in Nat \ {0}
  BY SizesType
<1>2. st[b] = "free" /\ size <= nxt[b] - b
  BY <1>1, BestFitsFit DEF NewBuf, CanAllocate
<1>3. st \in [Addr -> St] /\ nxt \in Links /\ nxt[b] \in 0 .. ListHead /\ b \in Int
  BY AddrType DEF TypeOK, St, Links
<1>4. CASE binder_alloc_buffer_size(b) # size
  <2>1. rest \in Addr /\ b < rest /\ rest < nxt[b]
    BY <1>4, <1>1, <1>2, <1>3, AddrType DEF binder_alloc_buffer_size, SizeIn
  <2>2. /\ nxt' = SplitNxt(nxt, b, rest)
        /\ st' = SplitSt(st, b, rest)
    BY <1>4 DEF NewBuf, ListAddNxt, SplitNxt, SplitSt
  <2> HIDE DEF size, rest
  <2>3. st[rest] = "absent"
    BY <2>1, <1>2 DEF List, NoneInside
  <2>4. nxt'[b] = rest /\ \A c \in Addr : c # b /\ c # rest => nxt'[c] = nxt[c]
    BY <2>1, <2>2, <1>3, AddrType DEF SplitNxt, Links
  <2>5. /\ st'[b] = "busy" /\ st'[rest] = "free"
        /\ \A c \in Addr : c # b /\ c # rest => st'[c] = st[c]
    BY <2>1, <2>2, <1>3, AddrType DEF SplitSt
  <2>. QED BY <1>1, <1>2, <1>3, <2>1, <2>3, <2>4, <2>5 DEF size, rest
<1>5. CASE binder_alloc_buffer_size(b) = size
  <2>1. st' = [st EXCEPT ![b] = "busy"] /\ nxt' = nxt
    BY <1>5 DEF NewBuf
  <2>2. nxt[b] = rest
    BY <1>1, <1>3, <1>5 DEF binder_alloc_buffer_size, SizeIn
  <2>. QED BY <1>1, <1>2, <1>3, <2>1, <2>2
<1>. QED BY <1>4, <1>5

\* binder_free_buf_locked takes away b and moves no other buffer in use, nor
\* a free one it does not join.
LEMMA FreeEffect ==
  ASSUME TypeOK, List(st, nxt, prv), NEW b \in Addr, st[b] = "busy", FreeBufLocked(b)
  PROVE  /\ \A c \in Addr : st'[c] = "busy" <=> c # b /\ st[c] = "busy"
         /\ \A c \in Addr : c # JoinStart(b) /\ c \notin Joined(b) => nxt'[c] = nxt[c]
         /\ \A c \in Addr : c # b /\ st[c] = "busy" => c # JoinStart(b) /\ c \notin Joined(b)
<1>1. /\ JoinStart(b) \in Addr /\ (b = JoinStart(b) \/ b \in Joined(b))
      /\ JoinStart(b) # b => st[JoinStart(b)] = "free"
  BY JoinGeometry DEF JoinStart, Joined, PrevIsFree
<1>2. \A c \in Addr : c \in Joined(b) => c = b \/ st[c] = "free"
  BY DEF Joined, NextIsFree
<1>3. st' = JoinSt(st, JoinStart(b), Joined(b))
  BY DEF FreeBufLocked, JoinSt
<1>4. \A c \in Addr : c # JoinStart(b) /\ c \notin Joined(b) => nxt'[c] = nxt[c]
  BY DEF FreeBufLocked, ListDelNxt
<1>5. \A c \in Addr : c # b /\ st[c] = "busy" => c # JoinStart(b) /\ c \notin Joined(b)
  BY <1>1, <1>2
<1>6. \A c \in Addr : st'[c] = "busy" <=> c # b /\ st[c] = "busy"
  BY <1>1, <1>2, <1>3, <1>5 DEF JoinSt
<1>. QED BY <1>4, <1>5, <1>6
-----------------------------------------------------------------------------
(* Pages.                                                                  *)

\* Page p has a byte of the buffer at c.
On(p, c, n) == PageOf(c) <= p /\ p <= PageOf(n[c] - 1)

\* The neighbours of a buffer in the list; those of a free one are in use.
LEMMA Neighbours ==
  ASSUME TypeOK, List(st, nxt, prv), NEW b \in Addr, st[b] # "absent"
  PROVE  /\ b \in Int /\ 0 <= b /\ nxt[b] \in Int /\ b + 1 <= nxt[b] /\ nxt[b] <= ListHead
         /\ nxt[b] # ListHead => nxt[b] \in Addr /\ st[nxt[b]] \in {"free", "busy"}
         /\ b # 0 => /\ prv[b] \in Addr /\ nxt[prv[b]] = b /\ st[prv[b]] \in {"free", "busy"}
         /\ st[b] = "free" => /\ nxt[b] # ListHead => st[nxt[b]] = "busy"
                              /\ b # 0 => st[prv[b]] = "busy"
<1>1. st \in [Addr -> St] /\ nxt \in Links /\ prv \in Links
  BY DEF TypeOK, St, Links
<1>2. b \in Int /\ 0 <= b /\ nxt[b] \in Int /\ b + 1 <= nxt[b] /\ nxt[b] <= ListHead
  BY <1>1, AddrType DEF List, Linked, Links
<1>4. nxt[b] # ListHead => nxt[b] \in Addr /\ st[nxt[b]] \in {"free", "busy"}
  BY <1>1, AddrType DEF List, Linked, Links, St
<1>5. b # 0 => prv[b] \in Addr /\ nxt[prv[b]] = b /\ st[prv[b]] \in {"free", "busy"}
  BY <1>1, AddrType DEF List, Linked, Links, St
<1>6. st[b] = "free" /\ nxt[b] # ListHead => st[nxt[b]] = "busy"
  BY <1>4 DEF List, Coalesced
<1>7. st[b] = "free" /\ b # 0 => st[prv[b]] = "busy"
  <2>1. b # ListHead
    BY AddrType
  <2>. QED BY <1>5, <2>1 DEF List, Coalesced
<1>. QED BY <1>2, <1>4, <1>5, <1>6, <1>7

\* The pages a buffer starts and ends in, and those next to it.
LEMMA BufferPages ==
  ASSUME TypeOK, List(st, nxt, prv), NEW b \in Addr, st[b] # "absent"
  PROVE  /\ PageOf(b - 1) \in Int /\ PageOf(b) \in Int
         /\ PageOf(nxt[b] - 1) \in Int /\ PageOf(nxt[b]) \in Int
         /\ PageOf(b - 1) <= PageOf(b) /\ PageOf(b) <= PageOf(b - 1) + 1
         /\ PageOf(b) <= PageOf(nxt[b] - 1)
         /\ PageOf(nxt[b] - 1) <= PageOf(nxt[b]) /\ PageOf(nxt[b]) <= PageOf(nxt[b] - 1) + 1
         /\ PageOf(nxt[b]) <= NPages
         /\ 0 <= PageOf(b)
         /\ b % PageSize = 0 <=> PageOf(b - 1) # PageOf(b)
         /\ b = 0 => PageOf(b - 1) = 0 - 1
         /\ nxt[b] = ListHead => PageOf(nxt[b]) = NPages
         /\ PageAlign(b) = PageOf(b - 1) + 1
<1>1. b \in Int /\ 0 <= b /\ nxt[b] \in Int /\ b + 1 <= nxt[b] /\ nxt[b] <= ListHead
  BY Neighbours
<1>2. nxt[b] - 1 \in Int /\ b <= nxt[b] - 1 /\ ListHead \in Int
  BY <1>1, AddrType
<1>3. PageOf(b) <= PageOf(nxt[b] - 1) /\ PageOf(nxt[b]) <= NPages /\ 0 <= PageOf(b)
  <2>1. PageOf(b) <= PageOf(nxt[b] - 1)
    BY <1>1, <1>2, PageFacts
  <2>2. PageOf(nxt[b]) <= PageOf(ListHead)
    BY <1>1, <1>2, PageFacts
  <2>3. PageOf(0) <= PageOf(b)
    BY <1>1, PageFacts
  <2>. QED BY <2>1, <2>2, <2>3, PageEnds
<1>4. /\ PageOf(b) \in Int /\ PageOf(b - 1) \in Int
      /\ PageOf(b - 1) <= PageOf(b) /\ PageOf(b) <= PageOf(b - 1) + 1
      /\ b % PageSize = 0 <=> PageOf(b - 1) # PageOf(b)
      /\ PageAlign(b) = PageOf(b - 1) + 1
  BY <1>1, PageFacts
<1>5. /\ PageOf(nxt[b]) \in Int /\ PageOf(nxt[b] - 1) \in Int
      /\ PageOf(nxt[b] - 1) <= PageOf(nxt[b]) /\ PageOf(nxt[b]) <= PageOf(nxt[b] - 1) + 1
  BY <1>1, PageFacts
<1>6. (b = 0 => PageOf(b - 1) = 0 - 1) /\ (nxt[b] = ListHead => PageOf(nxt[b]) = NPages)
  BY PageEnds
<1>. QED BY <1>3, <1>4, <1>5, <1>6

\* Of two buffers one ends before the other starts.
LEMMA Apart ==
  ASSUME TypeOK, List(st, nxt, prv), NEW b \in Addr, st[b] # "absent",
         NEW c \in Addr, st[c] # "absent", c # b
  PROVE  \/ nxt[c] <= b /\ PageOf(nxt[c] - 1) <= PageOf(b - 1)
         \/ nxt[b] <= c /\ PageOf(nxt[b]) <= PageOf(c)
<1>1. b \in Int /\ nxt[b] \in Int
  BY Neighbours
<1>2. c \in Int /\ nxt[c] \in Int
  BY Neighbours
<1>3. nxt[c] <= b \/ nxt[b] <= c
  <2>1. ~(c < b /\ b < nxt[c]) /\ ~(b < c /\ c < nxt[b])
    BY DEF List, NoneInside
  <2>. QED BY <1>1, <1>2, <2>1
<1>4. ASSUME nxt[c] <= b PROVE PageOf(nxt[c] - 1) <= PageOf(b - 1)
  <2>1. nxt[c] - 1 \in Int /\ b - 1 \in Int /\ nxt[c] - 1 <= b - 1
    BY <1>1, <1>2, <1>4
  <2>. QED BY <2>1, PageMonotone
<1>5. ASSUME nxt[b] <= c PROVE PageOf(nxt[b]) <= PageOf(c)
  BY <1>1, <1>2, <1>5, PageFacts
<1>. QED BY <1>3, <1>4, <1>5

\* The pages binder_alloc_new_buf_locked asks for lie inside the free buffer:
\* nobody uses them.
LEMMA TakenPagesIdle ==
  ASSUME TypeOK, List(st, nxt, prv), PagesFollowBuffers, NEW b \in Addr, st[b] = "free",
         NEW size \in Nat \ {0}, b + size <= nxt[b], NEW p \in PagesToUse(b, size), p \in Pages
  PROVE  pages[p] # "active"
<1>0. st[b] # "absent"
  OBVIOUS
<1>1. p \in Int /\ PageOf(b - 1) + 1 <= p /\ p <= PageOf(nxt[b]) - 1
  <2>1. b \in Int /\ nxt[b] \in Int
    BY <1>0, Neighbours
  <2>2. PageAlign(b) = PageOf(b - 1) + 1 /\ PageOf(nxt[b]) \in Int /\ PageOf(b - 1) \in Int
    BY <2>1, PageFacts
  <2>3. b + size \in Int
    BY <2>1
  <2>4. PageAlign(b + size) \in Int
    BY <2>3, PageFacts
  <2>. QED BY <2>2, <2>4 DEF PagesToUse
<1>2. ASSUME NEW c \in Addr, st[c] = "busy" PROVE ~On(p, c, nxt)
  <2>1. c # b /\ st[c] # "absent"
    BY <1>2
  <2>2. /\ PageOf(c) \in Int /\ PageOf(nxt[c] - 1) \in Int
        /\ PageOf(b - 1) \in Int /\ PageOf(nxt[b]) \in Int
    BY <1>0, <2>1, BufferPages
  <2>3. PageOf(nxt[c] - 1) <= PageOf(b - 1) \/ PageOf(nxt[b]) <= PageOf(c)
    BY <1>0, <2>1, Apart
  <2>. QED BY <1>1, <2>2, <2>3 DEF On
<1>. QED BY <1>2 DEF PagesFollowBuffers, On

\* A successful allocation: the pages of the new buffer are off the LRU, its
\* edges because a neighbour in use has a byte of them, and no other page is.
LEMMA NewBufPages ==
  ASSUME TypeOK, List(st, nxt, prv), TreeInv, PagesSound,
         NEW r \in Requests, NEW async \in BOOLEAN, NEW b \in Addr,
         NewBuf(r, async, b)
  PROVE  PagesSound'
<1> DEFINE size == PaddedSize(r)
           use == PagesToUse(b, size)
<1>1. /\ size \in Nat \ {0}
      /\ st[b] = "free" /\ b + size <= nxt[b] /\ nxt'[b] = b + size
      /\ \A c \in Addr : st'[c] = "busy" <=> c = b \/ st[c] = "busy"
      /\ \A c \in Addr : c # b /\ st[c] # "absent" => nxt'[c] = nxt[c]
  BY NewBufEffect
<1>2. pages' = TakePages(pages, use) /\ bug' = (bug \/ \E p \in use : pages[p] = "active")
  BY DEF NewBuf
<1> HIDE DEF size
<1>3. /\ b \in Int /\ 0 <= b /\ nxt[b] \in Int /\ nxt[b] <= ListHead
      /\ nxt[b] # ListHead => nxt[b] \in Addr /\ st[nxt[b]] = "busy"
      /\ b # 0 => prv[b] \in Addr /\ nxt[prv[b]] = b /\ st[prv[b]] = "busy"
  BY <1>1, Neighbours
<1>4. /\ PageOf(b - 1) \in Int /\ PageOf(b) \in Int /\ PageOf(nxt[b]) \in Int
      /\ PageOf(b - 1) <= PageOf(b) /\ PageOf(b) <= PageOf(b - 1) + 1
      /\ 0 <= PageOf(b) /\ PageOf(nxt[b]) <= NPages /\ PageAlign(b) = PageOf(b - 1) + 1
      /\ b = 0 => PageOf(b - 1) = 0 - 1
      /\ nxt[b] = ListHead => PageOf(nxt[b]) = NPages
  BY <1>1, BufferPages
<1>5. PICK e \in Int : e = b + size
  BY <1>1, <1>3
<1>6. /\ PageOf(e - 1) \in Int /\ PageAlign(e) = PageOf(e - 1) + 1
      /\ PageOf(e - 1) <= PageOf(nxt[b])
  <2>1. e - 1 \in Int /\ e - 1 <= nxt[b]
    BY <1>1, <1>3, <1>5
  <2>2. PageOf(e - 1) <= PageOf(nxt[b])
    BY <2>1, <1>3, PageMonotone
  <2>. QED BY <2>2, PageStep
<1>7. \A p : p \in use <=> /\ p \in Int /\ PageOf(b - 1) < p
                           /\ p < PageOf(nxt[b]) /\ p <= PageOf(e - 1)
  BY <1>4, <1>5, <1>6 DEF PagesToUse
<1> HIDE DEF use
<1>8. \A p \in use : p \in Pages
  BY <1>4, <1>7, PageAssumption DEF Pages
<1>9. \A p \in use : pages[p] # "active"
  BY <1>1, <1>8, TakenPagesIdle DEF PagesSound, use
<1>10. ~bug'
  BY <1>2, <1>9 DEF PagesSound, NoBug
<1>11. ASSUME NEW p \in Pages
       PROVE  pages'[p] = "active" <=> \E c \in Addr : st'[c] = "busy" /\ On(p, c, nxt')
  <2>1. pages'[p] = "active" <=> p \in use \/ pages[p] = "active"
    BY <1>2 DEF TakePages
  <2>2. pages[p] = "active" <=> \E c \in Addr : st[c] = "busy" /\ On(p, c, nxt)
    BY DEF PagesSound, PagesFollowBuffers, On
  <2>3. \A c \in Addr : c # b /\ st[c] = "busy" => (On(p, c, nxt') <=> On(p, c, nxt))
    BY <1>1 DEF On
  <2>4. On(p, b, nxt') <=> PageOf(b) <= p /\ p <= PageOf(e - 1)
    BY <1>1, <1>5 DEF On
  <2>5. p \in Int /\ p < NPages
    BY PageAssumption DEF Pages
  <2>6. p \in use => On(p, b, nxt')
    BY <2>4, <1>4, <1>7
  <2>7. ASSUME On(p, b, nxt'), p \notin use
        PROVE  \E c \in Addr : st[c] = "busy" /\ On(p, c, nxt)
    <3>1. CASE p <= PageOf(b - 1)
      <4>1. b # 0 /\ p = PageOf(b) /\ p = PageOf(b - 1)
        BY <3>1, <2>4, <2>5, <2>7, <1>4
      <4>2. prv[b] \in Addr /\ nxt[prv[b]] = b /\ st[prv[b]] = "busy"
        BY <4>1, <1>3
      <4>3. PageOf(prv[b]) <= PageOf(nxt[prv[b]] - 1)
        BY <4>2, BufferPages
      <4>4. PageOf(nxt[prv[b]] - 1) = PageOf(b - 1)
        BY <4>2
      <4>5. PageOf(prv[b]) <= p /\ p <= PageOf(nxt[prv[b]] - 1)
        <5>1. p = PageOf(nxt[prv[b]] - 1)
          BY <4>1, <4>4
        <5>. QED BY <4>3, <5>1, <2>5
      <4>. QED BY <4>2, <4>5 DEF On
    <3>2. CASE PageOf(b - 1) < p
      <4>1. PageOf(nxt[b]) <= p /\ p <= PageOf(e - 1)
        BY <3>2, <2>4, <2>5, <2>7, <1>4, <1>6, <1>7
      <4>2. p = PageOf(nxt[b])
        BY <4>1, <2>5, <1>4, <1>6
      <4>3. nxt[b] \in Addr /\ st[nxt[b]] = "busy"
        BY <4>2, <2>5, <1>3, <1>4
      <4>4. PageOf(nxt[b]) <= PageOf(nxt[nxt[b]] - 1)
        BY <4>3, BufferPages
      <4>5. On(p, nxt[b], nxt)
        BY <4>2, <4>4, <2>5 DEF On
      <4>. QED BY <4>3, <4>5
    <3>. QED BY <3>1, <3>2, <2>5, <1>4
  <2>8. ASSUME \E c \in Addr : st[c] = "busy" /\ On(p, c, nxt)
        PROVE  \E c \in Addr : st'[c] = "busy" /\ On(p, c, nxt')
    <3>1. PICK c \in Addr : st[c] = "busy" /\ On(p, c, nxt)
      BY <2>8
    <3>. QED BY <3>1, <2>3, <1>1
  <2>9. ASSUME NEW c \in Addr, st'[c] = "busy", On(p, c, nxt')
        PROVE  p \in use \/ pages[p] = "active"
    <3>1. CASE c = b
      BY <3>1, <2>2, <2>7, <2>9
    <3>2. CASE c # b
      BY <3>2, <2>2, <2>3, <2>9, <1>1
    <3>. QED BY <3>1, <3>2
  <2>10. p \in use => \E c \in Addr : st'[c] = "busy" /\ On(p, c, nxt')
    BY <2>6, <1>1
  <2>. QED BY <2>1, <2>2, <2>8, <2>9, <2>10
<1>12. PagesFollowBuffers'
  BY <1>11 DEF PagesFollowBuffers, On
<1>. QED BY <1>10, <1>12 DEF PagesSound, NoBug

\* Each page binder_free_buf_locked gives back is one that b, of the buffers
\* in use, was alone on.
LEMMA FreedPagesAlone ==
  ASSUME TypeOK, List(st, nxt, prv), NEW b \in Addr, st[b] = "busy",
         NEW p \in PagesToFree(b)
  PROVE  /\ p \in Pages /\ On(p, b, nxt)
         /\ \A c \in Addr : c # b /\ st[c] = "busy" => ~On(p, c, nxt)
<1>1. /\ b \in Int /\ nxt[b] \in Int
      /\ nxt[b] # ListHead => nxt[b] \in Addr /\ st[nxt[b]] # "absent"
      /\ b # 0 => prv[b] \in Addr /\ nxt[prv[b]] = b /\ st[prv[b]] # "absent"
  BY Neighbours
<1>2. /\ PageOf(b - 1) \in Int /\ PageOf(b) \in Int
      /\ PageOf(nxt[b] - 1) \in Int /\ PageOf(nxt[b]) \in Int
      /\ PageOf(b - 1) <= PageOf(b) /\ PageOf(b) <= PageOf(b - 1) + 1
      /\ PageOf(b) <= PageOf(nxt[b] - 1) /\ PageOf(nxt[b] - 1) <= PageOf(nxt[b])
      /\ PageOf(nxt[b]) <= PageOf(nxt[b] - 1) + 1
      /\ PageOf(nxt[b]) <= NPages /\ 0 <= PageOf(b)
      /\ b % PageSize = 0 <=> PageOf(b - 1) # PageOf(b)
      /\ PageAlign(b) = PageOf(b - 1) + 1
      /\ nxt[b] = ListHead => PageOf(nxt[b]) = NPages
  BY BufferPages
<1>3. SUFFICES /\ PageOf(b) <= p /\ p <= PageOf(nxt[b] - 1) /\ p \in Pages
               /\ \A c \in Addr : c # b /\ st[c] = "busy" =>
                    ~(PageOf(c) <= p /\ p <= PageOf(nxt[c] - 1))
  BY DEF On
<1>4. ASSUME NEW c \in Addr, c # b, st[c] = "busy"
      PROVE  /\ PageOf(c) \in Int /\ PageOf(nxt[c] - 1) \in Int
             /\ \/ nxt[c] <= b /\ PageOf(nxt[c] - 1) <= PageOf(b - 1)
                \/ nxt[b] <= c /\ PageOf(nxt[b]) <= PageOf(c)
  <2>1. st[c] # "absent" /\ st[b] # "absent"
    BY <1>4
  <2>2. PageOf(c) \in Int /\ PageOf(nxt[c] - 1) \in Int
    BY <2>1, BufferPages
  <2>. QED BY <1>4, <2>1, <2>2, Apart
<1>5. CASE p \in PagesInside(b)
  <2>1. p \in Int /\ PageOf(b - 1) < p /\ p < PageOf(nxt[b])
    BY <1>5, <1>2 DEF PagesInside
  <2>2. PageOf(b) <= p /\ p <= PageOf(nxt[b] - 1) /\ p \in Pages
    BY <2>1, <1>2, PageAssumption DEF Pages
  <2>3. ASSUME NEW c \in Addr, c # b, st[c] = "busy"
        PROVE  ~(PageOf(c) <= p /\ p <= PageOf(nxt[c] - 1))
    BY <2>1, <2>3, <1>2, <1>4
  <2>. QED BY <2>2, <2>3
<1>6. CASE p \in NextPage(b)
  <2> DEFINE n == nxt[b]
             m == nxt[n]
  <2>1. /\ n # ListHead /\ st[n] = "free" /\ p = PageOf(n)
        /\ PageOf(b - 1) # PageOf(n) /\ n % PageSize # 0
        /\ m # ListHead => PageOf(m) # PageOf(n)
    BY <1>6 DEF NextPage, NextIsFree, ReleasesPage
  <2>2. n \in Addr /\ st[n] # "absent"
    BY <2>1, <1>1
  <2>3. /\ PageOf(n - 1) = PageOf(n) /\ PageOf(n) \in Int /\ PageOf(m) \in Int
        /\ PageOf(n) <= PageOf(m) /\ PageOf(n) < NPages
    <3>1. /\ n % PageSize = 0 <=> PageOf(n - 1) # PageOf(n)
          /\ PageOf(n) \in Int /\ PageOf(m) \in Int /\ PageOf(m - 1) \in Int
          /\ PageOf(n) <= PageOf(m - 1) /\ PageOf(m - 1) <= PageOf(m)
          /\ PageOf(m) <= NPages
          /\ m = ListHead => PageOf(m) = NPages
      BY <2>2, BufferPages
    <3>2. m # ListHead => PageOf(m) # PageOf(n)
      BY <2>1
    <3>3. PageOf(n) <= PageOf(m - 1) /\ PageOf(m - 1) < NPages
      <4>1. m \in Int /\ m <= ListHead
        BY <2>2, Neighbours
      <4>2. m - 1 \in Int /\ m - 1 <= ListHead - 1 /\ ListHead \in Int /\ ListHead - 1 \in Int
        BY <4>1, AddrType
      <4>3. PageOf(m - 1) <= PageOf(ListHead - 1)
        BY <4>2, PageMonotone
      <4>. QED BY <4>3, <3>1, LastPage, PageAssumption
    <3>. QED BY <3>1, <3>3, <2>1, PageAssumption
  <2>4. PageOf(b) <= p /\ p <= PageOf(nxt[b] - 1) /\ p \in Pages
    <3>1. PageOf(nxt[b] - 1) = p
      BY <2>1, <2>3
    <3>. QED BY <3>1, <2>1, <2>3, <1>2, PageAssumption DEF Pages
  <2>5. ASSUME NEW c \in Addr, c # b, st[c] = "busy", nxt[b] <= c
        PROVE  m # ListHead /\ PageOf(m) <= PageOf(c)
    <3>1. c # n /\ st[c] # "absent" /\ c \in Int /\ n \in Int
      BY <2>1, <2>5, <1>1, AddrType
    <3>2. m \in Int /\ nxt[c] \in Int /\ c < nxt[c] /\ c < ListHead
      <4>1. m \in Int
        BY <2>2, Neighbours
      <4>2. nxt[c] \in Int /\ c < nxt[c]
        BY <3>1, Neighbours
      <4>. QED BY <4>1, <4>2, AddrType
    <3>3. m <= c /\ PageOf(m) <= PageOf(c)
      BY <3>1, <3>2, <2>2, <2>5, Apart
    <3>. QED BY <3>2, <3>3, AddrType
  <2>6. ASSUME NEW c \in Addr, c # b, st[c] = "busy"
        PROVE  ~(PageOf(c) <= p /\ p <= PageOf(nxt[c] - 1))
    <3>1. CASE nxt[c] <= b /\ PageOf(nxt[c] - 1) <= PageOf(b - 1)
      BY <3>1, <2>1, <2>6, <1>2, <1>4
    <3>2. CASE nxt[b] <= c
      BY <3>2, <2>1, <2>3, <2>5, <2>6, <1>4
    <3>. QED BY <3>1, <3>2, <2>6, <1>4
  <2>. QED BY <2>4, <2>6
<1>7. CASE p \in OwnPage(b)
  <2> DEFINE k == prv[b]
             e == JoinEnd(b)
  <2>1. /\ PrevIsFree(b) /\ k # ListHead /\ st[k] = "free" /\ p = PageOf(b)
        /\ PageOf(k - 1) # PageOf(b) /\ b % PageSize # 0
        /\ e # ListHead => PageOf(e) # PageOf(b)
    BY <1>7 DEF OwnPage, PrevIsFree, ReleasesPage
  <2>2. b # 0 /\ k \in Addr /\ nxt[k] = b /\ st[k] # "absent"
    BY <2>1, <1>1 DEF List, Starts
  <2>3. PageOf(k - 1) \in Int /\ PageOf(k - 1) < PageOf(b)
    <3>1. PageOf(k - 1) \in Int /\ PageOf(k) \in Int /\ PageOf(k - 1) <= PageOf(k)
      BY <2>2, BufferPages
    <3>2. k \in Int /\ k + 1 <= b
      BY <2>2, Neighbours
    <3>3. PageOf(k) <= PageOf(b)
      BY <3>2, <1>1, PageMonotone
    <3>. QED BY <3>1, <3>3, <2>1, <1>2
  <2>4. PageOf(b) <= p /\ p <= PageOf(nxt[b] - 1) /\ p \in Pages
    <3>1. PageOf(nxt[b] - 1) < NPages
      <4>1. nxt[b] - 1 \in Int /\ ListHead - 1 \in Int /\ nxt[b] - 1 <= ListHead - 1
        BY <1>1, AddrType, Neighbours
      <4>2. PageOf(nxt[b] - 1) <= PageOf(ListHead - 1)
        BY <4>1, PageMonotone
      <4>. QED BY <4>2, <1>2, LastPage, PageAssumption
    <3>. QED BY <3>1, <2>1, <1>2, PageAssumption DEF Pages
  <2>5. ASSUME NEW c \in Addr, c # b, st[c] = "busy", nxt[c] <= b
        PROVE  PageOf(nxt[c] - 1) <= PageOf(k - 1)
    <3>1. c # k /\ st[c] # "absent"
      BY <2>1, <2>5
    <3>2. nxt[c] \in Int /\ c \in Int /\ c < nxt[c]
      BY <3>1, Neighbours
    <3>3. \/ nxt[c] <= k /\ PageOf(nxt[c] - 1) <= PageOf(k - 1)
          \/ nxt[k] <= c
      BY <3>1, <2>2, Apart
    <3>. QED BY <3>2, <3>3, <2>2, <2>5, <1>1
  <2>6. ASSUME NEW c \in Addr, c # b, st[c] = "busy", nxt[b] <= c
        PROVE  PageOf(b) < PageOf(c)
    <3>1. c \notin Joined(b)
      BY <2>6 DEF Joined, NextIsFree
    <3>2. /\ JoinStart(b) = k /\ e \in Int /\ k < e
          /\ ~(k < c /\ c < e)
          /\ b \in Joined(b)
      <4>1. c \in Joined(b) <=> JoinStart(b) < c /\ c < JoinEnd(b)
        BY <2>6, JoinGeometry
      <4>2. JoinEnd(b) \in 0 .. ListHead /\ JoinStart(b) < JoinEnd(b)
        BY JoinGeometry
      <4>. QED BY <4>1, <4>2, <3>1, <2>1, AddrType DEF JoinStart, Joined
    <3>3. b < e
      BY <3>2, JoinGeometry
    <3>4. c \in Int /\ k \in Int /\ k < b /\ b < nxt[b] /\ c < ListHead
      <4>1. k \in Int /\ k + 1 <= nxt[k]
        BY <2>2, Neighbours
      <4>2. b + 1 <= nxt[b]
        BY Neighbours
      <4>. QED BY <4>1, <4>2, <2>2, <1>1, AddrType
    <3>5. e <= c /\ e # ListHead
      BY <3>2, <3>4, <2>6, <1>1, AddrType
    <3>6. PageOf(b) <= PageOf(e) /\ PageOf(e) <= PageOf(c)
      BY <3>2, <3>3, <3>4, <3>5, <1>1, PageMonotone
    <3>7. PageOf(e) \in Int /\ PageOf(c) \in Int
      BY <3>2, <3>4, PageStep
    <3>. QED BY <3>5, <3>6, <3>7, <2>1, <1>2
  <2>7. ASSUME NEW c \in Addr, c # b, st[c] = "busy"
        PROVE  ~(PageOf(c) <= p /\ p <= PageOf(nxt[c] - 1))
    <3>1. CASE nxt[c] <= b
      BY <3>1, <2>1, <2>3, <2>5, <2>7, <1>2, <1>4
    <3>2. CASE nxt[b] <= c
      BY <3>2, <2>1, <2>6, <2>7, <1>2, <1>4
    <3>. QED BY <3>1, <3>2, <2>7, <1>4
  <2>. QED BY <2>4, <2>7
<1>. QED BY <1>5, <1>6, <1>7 DEF PagesToFree

\* Every page of b that is not given back has a byte of another buffer in use.
LEMMA KeptPagesShared ==
  ASSUME TypeOK, List(st, nxt, prv), NEW b \in Addr, st[b] = "busy",
         NEW p \in Pages, On(p, b, nxt), p \notin PagesToFree(b)
  PROVE  \E c \in Addr : c # b /\ st[c] = "busy" /\ On(p, c, nxt)
<1>1. /\ b \in Int /\ nxt[b] \in Int /\ b + 1 <= nxt[b]
      /\ nxt[b] # ListHead => nxt[b] \in Addr /\ st[nxt[b]] \in {"free", "busy"}
      /\ b # 0 => prv[b] \in Addr /\ nxt[prv[b]] = b /\ st[prv[b]] \in {"free", "busy"}
  BY Neighbours
<1>2. /\ PageOf(b - 1) \in Int /\ PageOf(b) \in Int
      /\ PageOf(nxt[b] - 1) \in Int /\ PageOf(nxt[b]) \in Int
      /\ PageOf(b - 1) <= PageOf(b) /\ PageOf(b) <= PageOf(b - 1) + 1
      /\ PageOf(b) <= PageOf(nxt[b] - 1) /\ PageOf(nxt[b] - 1) <= PageOf(nxt[b])
      /\ PageOf(nxt[b]) <= NPages /\ 0 <= PageOf(b)
      /\ b % PageSize = 0 <=> PageOf(b - 1) # PageOf(b)
      /\ PageAlign(b) = PageOf(b - 1) + 1
      /\ nxt[b] = ListHead => PageOf(nxt[b]) = NPages
      /\ b = 0 => PageOf(b - 1) = 0 - 1
  BY BufferPages
<1>3. /\ p \in Int /\ p < NPages /\ PageOf(b) <= p /\ p <= PageOf(nxt[b] - 1)
  BY PageAssumption DEF On, Pages
<1>4. p <= PageOf(b - 1) \/ PageOf(nxt[b]) <= p
  BY <1>2, <1>3 DEF PagesToFree, PagesInside
\* The buffer behind the join is in use and starts on p.
<1>5. ASSUME JoinEnd(b) # ListHead, PageOf(JoinEnd(b)) = p
      PROVE  \E c \in Addr : c # b /\ st[c] = "busy" /\ On(p, c, nxt)
  <2> DEFINE e == JoinEnd(b)
  <2>1. e \in Addr /\ st[e] = "busy" /\ e # b
    <3>1. e \in 0 .. ListHead /\ st[e] = "busy"
      BY <1>5, JoinGeometry
    <3>2. e \in Addr
      BY <3>1, <1>5, AddrType
    <3>3. e # b
      <4>1. CASE NextIsFree(b)
        <5>1. nxt[b] \in Addr /\ st[nxt[b]] = "free" /\ e = nxt[nxt[b]]
          BY <4>1, <1>1 DEF JoinEnd, NextIsFree
        <5>2. nxt[nxt[b]] \in Int /\ nxt[b] + 1 <= nxt[nxt[b]]
          BY <5>1, Neighbours
        <5>. QED BY <5>1, <5>2, <1>1
      <4>2. CASE ~NextIsFree(b)
        BY <4>2, <1>1 DEF JoinEnd
      <4>. QED BY <4>1, <4>2
    <3>. QED BY <3>1, <3>2, <3>3
  <2> HIDE DEF e
  <2>2. PageOf(e) <= PageOf(nxt[e] - 1)
    BY <2>1, BufferPages
  <2>3. PageOf(e) = p
    BY <1>5 DEF e
  <2>4. On(p, e, nxt)
    BY <2>2, <2>3, <1>3 DEF On
  <2>. QED BY <2>1, <2>4
\* A buffer in use that ends where page p has begun.
<1>6. ASSUME NEW a \in Addr, a # 0, st[a] # "absent", st[prv[a]] = "busy", prv[a] # b,
             PageOf(a - 1) = p
      PROVE  \E c \in Addr : c # b /\ st[c] = "busy" /\ On(p, c, nxt)
  <2>1. prv[a] \in Addr /\ nxt[prv[a]] = a
    BY <1>6, Neighbours
  <2>2. PageOf(prv[a]) <= PageOf(nxt[prv[a]] - 1)
    BY <2>1, <1>6, BufferPages
  <2>3. PageOf(nxt[prv[a]] - 1) = p
    BY <2>1, <1>6
  <2>4. On(p, prv[a], nxt)
    BY <2>2, <2>3, <1>3 DEF On
  <2>. QED BY <2>1, <2>4, <1>6
<1>7. CASE p <= PageOf(b - 1)
  <2>1. b # 0 /\ p = PageOf(b) /\ p = PageOf(b - 1) /\ b % PageSize # 0
    BY <1>7, <1>2, <1>3
  <2>2. prv[b] \in Addr /\ nxt[prv[b]] = b /\ st[prv[b]] \in {"free", "busy"}
    BY <2>1, <1>1
  <2>3. prv[b] \in Int /\ prv[b] < b
    BY <2>2, Neighbours
  <2>4. CASE st[prv[b]] = "busy"
    BY <2>1, <2>3, <2>4, <1>1, <1>6
  <2>5. CASE st[prv[b]] = "free"
    <3> DEFINE k == prv[b]
    <3>1. PrevIsFree(b)
      BY <2>2, <2>5, AddrType DEF PrevIsFree
    <3>2. ~ReleasesPage(k, b, JoinEnd(b))
      BY <3>1, <2>1 DEF PagesToFree, OwnPage
    <3>3. CASE PageOf(k - 1) = PageOf(b)
      <4>1. k = 0 => PageOf(k - 1) = 0 - 1
        BY PageEnds
      <4>2. k # 0 /\ PageOf(k - 1) = p
        BY <4>1, <3>3, <2>1, <1>2, <1>3
      <4>3. prv[k] \in Addr /\ nxt[prv[k]] = k /\ st[prv[k]] = "busy"
        BY <4>2, <2>2, <2>5, Neighbours
      <4>4. prv[k] # b
        <5>1. prv[k] \in Int /\ prv[k] < k
          BY <4>3, Neighbours
        <5>. QED BY <5>1, <2>3, <1>1
      <4>. QED BY <4>2, <4>3, <4>4, <2>2, <2>5, <1>6
    <3>4. CASE JoinEnd(b) # ListHead /\ PageOf(JoinEnd(b)) = PageOf(b)
      BY <3>4, <2>1, <1>5
    <3>. QED BY <3>2, <3>3, <3>4, <2>1 DEF ReleasesPage
  <2>. QED BY <2>2, <2>4, <2>5
<1>8. CASE PageOf(b - 1) < p
  <2> DEFINE n == nxt[b]
  <2>1. p = PageOf(n - 1) /\ p = PageOf(n) /\ n # ListHead
    BY <1>8, <1>2, <1>3, <1>4
  <2>2. n \in Addr /\ st[n] \in {"free", "busy"}
    BY <2>1, <1>1
  <2>3. CASE st[n] = "busy"
    <3>1. JoinEnd(b) = n
      BY <2>3 DEF JoinEnd, NextIsFree
    <3>. QED BY <3>1, <2>1, <1>5
  <2>4. CASE st[n] = "free"
    <3>1. NextIsFree(b) /\ JoinEnd(b) = nxt[n]
      BY <2>1, <2>4 DEF JoinEnd, NextIsFree
    <3>2. ~ReleasesPage(b, n, nxt[n])
      BY <3>1, <2>1 DEF PagesToFree, NextPage
    <3>3. n % PageSize # 0
      <4>1. n % PageSize = 0 <=> PageOf(n - 1) # PageOf(n)
        BY <2>2, <2>4, BufferPages
      <4>. QED BY <4>1, <2>1
    <3>4. PageOf(b - 1) # PageOf(n)
      BY <1>8, <2>1, <1>2, <1>3
    <3>5. JoinEnd(b) # ListHead /\ PageOf(JoinEnd(b)) = p
      BY <3>1, <3>2, <3>3, <3>4, <2>1 DEF ReleasesPage
    <3>. QED BY <3>5, <1>5
  <2>. QED BY <2>2, <2>3, <2>4
<1>. QED BY <1>7, <1>8, <1>2, <1>3
\* A busy buffer has the size its request was given, and its request passed
\* the overflow checks.
FitInv == \A b \in Addr : st[b] = "busy" =>
            /\ buf[b].req \in Requests /\ ValidSizes(buf[b].req)
            /\ nxt[b] - b = PaddedSize(buf[b].req)

\* Freeing an allocated buffer fires no BUG_ON, and the pages follow the
\* buffers that are left.
LEMMA FreePages ==
  ASSUME TypeOK, List(st, nxt, prv), FitInv, PagesSound, NEW b \in Addr, st[b] = "busy",
         FreeBufLocked(b)
  PROVE  PagesSound'
<1>1. \A p \in PagesToFree(b) : p \in Pages /\ On(p, b, nxt) /\ pages[p] = "active"
  <2> SUFFICES ASSUME NEW p \in PagesToFree(b)
               PROVE  p \in Pages /\ On(p, b, nxt) /\ pages[p] = "active"
    OBVIOUS
  <2>1. p \in Pages /\ On(p, b, nxt)
    BY FreedPagesAlone
  <2>. QED BY <2>1 DEF PagesSound, PagesFollowBuffers, On
<1>2. AlignedSize(buf[b].req) <= binder_alloc_buffer_size(b)
  <2>1. buf[b].req \in Requests /\ nxt[b] - b = PaddedSize(buf[b].req)
    BY DEF FitInv
  <2>2. AlignedSize(buf[b].req) <= PaddedSize(buf[b].req)
    BY <2>1, SizesType
  <2>. QED BY <2>1, <2>2 DEF binder_alloc_buffer_size, SizeIn
<1>3. /\ PagesInside(b) \cap NextPage(b) = {}
      /\ (PagesInside(b) \cup NextPage(b)) \cap OwnPage(b) = {}
  <2>1. /\ PageOf(b - 1) \in Int /\ PageOf(nxt[b]) \in Int /\ PageOf(b) \in Int
        /\ PageAlign(b) = PageOf(b - 1) + 1
        /\ b % PageSize = 0 <=> PageOf(b - 1) # PageOf(b)
    BY BufferPages
  <2>2. \A p \in PagesInside(b) : PageOf(b - 1) # p /\ p # PageOf(nxt[b])
    BY <2>1 DEF PagesInside
  <2>3. \A p \in NextPage(b) : p = PageOf(nxt[b]) /\ p # PageOf(b - 1)
    BY DEF NextPage, ReleasesPage
  <2>4. \A p \in OwnPage(b) : p = PageOf(b - 1)
    BY <2>1 DEF OwnPage, ReleasesPage
  <2>. QED BY <2>2, <2>3, <2>4
<1>4. ~bug'
  <2>1. bug' = (bug \/ FreeBug(b))
    BY DEF FreeBufLocked
  <2>2. ~(AlignedSize(buf[b].req) > binder_alloc_buffer_size(b))
    <3>1. AlignedSize(buf[b].req) \in Int
      BY SizesType, ModAssumption DEF FitInv
    <3>2. binder_alloc_buffer_size(b) \in Int
      <4>1. b \in Int /\ nxt[b] \in Int
        BY Neighbours
      <4>. QED BY <4>1 DEF binder_alloc_buffer_size, SizeIn
    <3>. QED BY <3>1, <3>2, <1>2
  <2>. QED BY <2>1, <2>2, <1>1, <1>3 DEF FreeBug, PagesSound, NoBug
<1>5. /\ \A c \in Addr : st'[c] = "busy" <=> c # b /\ st[c] = "busy"
      /\ \A c \in Addr : c # b /\ st[c] = "busy" => nxt'[c] = nxt[c]
  BY FreeEffect
<1>6. ASSUME NEW p \in Pages
      PROVE  pages'[p] = "active" <=> \E c \in Addr : st'[c] = "busy" /\ On(p, c, nxt')
  <2>1. pages'[p] = "active" <=> p \notin PagesToFree(b) /\ pages[p] = "active"
    BY DEF FreeBufLocked, DropPages
  <2>2. pages[p] = "active" <=> \E c \in Addr : st[c] = "busy" /\ On(p, c, nxt)
    BY DEF PagesSound, PagesFollowBuffers, On
  <2>3. \A c \in Addr : st'[c] = "busy" => (On(p, c, nxt') <=> On(p, c, nxt))
    BY <1>5 DEF On
  <2>4. ASSUME p \notin PagesToFree(b), NEW c \in Addr, st[c] = "busy", On(p, c, nxt)
        PROVE  \E d \in Addr : st'[d] = "busy" /\ On(p, d, nxt')
    <3>1. PICK d \in Addr : d # b /\ st[d] = "busy" /\ On(p, d, nxt)
      <4>1. CASE c = b
        BY <4>1, <2>4, KeptPagesShared
      <4>2. CASE c # b
        BY <4>2, <2>4
      <4>. QED BY <4>1, <4>2
    <3>. QED BY <3>1, <2>3, <1>5
  <2>5. ASSUME NEW c \in Addr, st'[c] = "busy", On(p, c, nxt')
        PROVE  p \notin PagesToFree(b) /\ \E d \in Addr : st[d] = "busy" /\ On(p, d, nxt)
    <3>1. c # b /\ st[c] = "busy" /\ On(p, c, nxt)
      BY <2>3, <2>5, <1>5
    <3>2. p \notin PagesToFree(b)
      BY <3>1, FreedPagesAlone
    <3>. QED BY <3>1, <3>2
  <2>. QED BY <2>1, <2>2, <2>4, <2>5
<1>7. PagesFollowBuffers'
  BY <1>6 DEF PagesFollowBuffers, On
<1>. QED BY <1>4, <1>7 DEF PagesSound, NoBug
-----------------------------------------------------------------------------
(* Sizes.                                                                  *)

Words(x) == \E q \in Int : x = WordSize * q

\* ALIGN rounds up by less than a word, and to 0 where it wraps.
LEMMA AlignWords ==
  ASSUME NEW n \in 0 .. SizeMod - 1
  PROVE  /\ Align(n) \in 0 .. SizeMod - 1 /\ Words(Align(n))
         /\ n + WordSize - 1 < SizeMod => n <= Align(n) /\ Align(n) <= n + WordSize - 1
<1>1. WordSize \in Nat \ {0} /\ SizeMod \in Nat \ {0}
  BY WordAssumption, ModAssumption
<1>2. PICK m \in 0 .. SizeMod - 1 : m = (n + WordSize - 1) % SizeMod
  BY <1>1, DivMod
<1>3. PICK q \in Int, l \in 0 .. WordSize - 1 : m \div WordSize = q /\ m = WordSize * q + l
  BY <1>1, DivMod
<1>4. Align(n) = WordSize * q
  BY <1>1, <1>2, <1>3 DEF Align
<1>5. q >= 0
  <2>1. CASE q < 0
    <3>1. WordSize * q <= 0 - WordSize
      BY <2>1, <1>1
    <3>. QED BY <3>1, <1>1, <1>3
  <2>. QED BY <2>1
<1>6. 0 <= WordSize * q /\ WordSize * q \in Int
  BY <1>1, <1>5
<1>7. WordSize * q < SizeMod
  BY <1>1, <1>3, <1>6
<1>8. ASSUME n + WordSize - 1 < SizeMod PROVE m = n + WordSize - 1
  <2>1. n + WordSize - 1 = SizeMod * 0 + (n + WordSize - 1) /\ n + WordSize - 1 \in 0 .. SizeMod - 1
        /\ n + WordSize - 1 \in Int
    BY <1>1, <1>8
  <2>. QED BY <2>1, <1>1, <1>2, Quotient
<1>9. n + WordSize - 1 < SizeMod => n <= WordSize * q /\ WordSize * q <= n + WordSize - 1
  BY <1>1, <1>3, <1>6, <1>8
<1>10. PICK a \in 0 .. SizeMod - 1 : a = WordSize * q
  BY <1>1, <1>6, <1>7
<1>11. Align(n) = a
  BY <1>4, <1>10
<1>12. Words(a)
  BY <1>10 DEF Words
<1>13. n + WordSize - 1 < SizeMod => n <= a /\ a <= n + WordSize - 1
  BY <1>9, <1>10
<1>. QED BY <1>11, <1>12, <1>13

\* A number of whole words below SizeMod leaves a word to SizeMod.
LEMMA WordsBelow ==
  ASSUME NEW x \in 0 .. SizeMod - 1, Words(x)
  PROVE  x + WordSize <= SizeMod
<1>1. WordSize \in Nat \ {0} /\ SizeMod \in Nat \ {0}
  BY WordAssumption, ModAssumption
<1>2. PICK q \in Int : x = WordSize * q
  BY DEF Words
<1>3. PICK s \in Int : SizeMod = WordSize * s
  <2>1. SizeMod = WordSize * (SizeMod \div WordSize) + (SizeMod % WordSize)
        /\ SizeMod \div WordSize \in Int /\ SizeMod % WordSize = 0
    BY <1>1, DivMod, ModAssumption
  <2>2. PICK s \in Int : s = SizeMod \div WordSize
    BY <2>1
  <2>3. SizeMod = WordSize * s
    BY <2>1, <2>2, <1>1
  <2>. QED BY <2>3
<1>4. s > q
  <2>1. CASE s <= q
    <3>1. WordSize * s <= WordSize * q
      BY <2>1, <1>1
    <3>. QED BY <3>1, <1>1, <1>2, <1>3
  <2>. QED BY <2>1
<1>5. WordSize * s >= WordSize * (q + 1)
  BY <1>1, <1>4
<1>6. WordSize * (q + 1) = WordSize * q + WordSize
  BY <1>1
<1>. QED BY <1>1, <1>2, <1>3, <1>5, <1>6

\* Adding two aligned sizes on size_t gives an aligned size, and wraps once at
\* most.
LEMMA WordsSum ==
  ASSUME NEW x \in 0 .. SizeMod - 1, Words(x), NEW y \in 0 .. SizeMod - 1, Words(y)
  PROVE  /\ (x + y) % SizeMod \in 0 .. SizeMod - 1 /\ Words((x + y) % SizeMod)
         /\ (x + y) % SizeMod = x + y \/ (x + y) % SizeMod = x + y - SizeMod
<1>1. WordSize \in Nat \ {0} /\ SizeMod \in Nat \ {0}
  BY WordAssumption, ModAssumption
<1>2. PICK i \in Int : x = WordSize * i
  BY DEF Words
<1>3. PICK j \in Int : y = WordSize * j
  BY DEF Words
<1>4. CASE x + y < SizeMod
  <2>1. x + y = SizeMod * 0 + (x + y) /\ x + y \in 0 .. SizeMod - 1 /\ x + y \in Int
    BY <1>1, <1>4
  <2>2. (x + y) % SizeMod = x + y
    BY <2>1, <1>1, Quotient
  <2>3. x + y = WordSize * (i + j) /\ i + j \in Int
    BY <1>1, <1>2, <1>3
  <2>4. Words(x + y)
    BY <2>3 DEF Words
  <2>. QED BY <2>1, <2>2, <2>4
<1>5. CASE x + y >= SizeMod
  <2>1. /\ x + y = SizeMod * 1 + (x + y - SizeMod) /\ x + y - SizeMod \in 0 .. SizeMod - 1
        /\ x + y \in Int
    BY <1>1, <1>5
  <2>2. (x + y) % SizeMod = x + y - SizeMod
    BY <2>1, <1>1, Quotient
  <2>3. PICK s \in Int : SizeMod = WordSize * s
    <3>1. SizeMod = WordSize * (SizeMod \div WordSize) + (SizeMod % WordSize)
          /\ SizeMod \div WordSize \in Int /\ SizeMod % WordSize = 0
      BY <1>1, DivMod, ModAssumption
    <3>2. PICK s \in Int : s = SizeMod \div WordSize
      BY <3>1
    <3>3. SizeMod = WordSize * s
      BY <3>1, <3>2, <1>1
    <3>. QED BY <3>3
  <2>4. x + y - SizeMod = WordSize * (i + j - s) /\ i + j - s \in Int
    BY <1>1, <1>2, <1>3, <2>3
  <2>5. Words(x + y - SizeMod)
    BY <2>4 DEF Words
  <2>. QED BY <2>1, <2>2, <2>5
<1>. QED BY <1>1, <1>4, <1>5

\* The two overflow checks of binder_alloc_new_buf_locked are enough: sizes
\* that pass them fit together into the aligned size, which is whole words.
LEMMA ChecksEnough ==
  ASSUME NEW r \in Requests, ValidSizes(r)
  PROVE  /\ r.data + r.offsets + r.extra <= AlignedSize(r)
         /\ AlignedSize(r) \in 0 .. SizeMod - 1 /\ Words(AlignedSize(r))
<1> DEFINE M == SizeMod
           W == WordSize
<1>1. W \in Nat \ {0} /\ M \in Nat \ {0}
  BY WordAssumption, ModAssumption
<1>2. PICK d \in 0 .. M - 1, o \in 0 .. M - 1, e \in 0 .. M - 1 :
        d = r.data /\ o = r.offsets /\ e = r.extra
  BY RequestAssumption
<1>3. PICK x \in 0 .. M - 1 : /\ x = Align(d) /\ Words(x)
                              /\ d + W - 1 < M => d <= x /\ x <= d + W - 1
  BY AlignWords
<1>4. PICK y \in 0 .. M - 1 : /\ y = Align(o) /\ Words(y)
                              /\ o + W - 1 < M => o <= y /\ y <= o + W - 1
  BY AlignWords
<1>5. PICK z \in 0 .. M - 1 : /\ z = Align(e) /\ Words(z)
                              /\ e + W - 1 < M => e <= z /\ z <= e + W - 1
  BY AlignWords
<1>6. PICK u \in 0 .. M - 1 : u = DataOffsetsSize(r) /\ Words(u) /\ (u = x + y \/ u = x + y - M)
  <2>1. DataOffsetsSize(r) = (x + y) % M
    BY <1>2, <1>3, <1>4 DEF DataOffsetsSize
  <2>. QED BY <2>1, <1>3, <1>4, WordsSum
<1>7. PICK v \in 0 .. M - 1 : v = AlignedSize(r) /\ Words(v) /\ (v = u + z \/ v = u + z - M)
  <2>1. AlignedSize(r) = (u + z) % M
    BY <1>2, <1>5, <1>6 DEF AlignedSize
  <2>. QED BY <2>1, <1>5, <1>6, WordsSum
<1>8. u >= d /\ u >= o /\ v >= u /\ v >= e
  BY <1>2, <1>6, <1>7 DEF ValidSizes
<1>9. x + W <= M /\ y + W <= M /\ z + W <= M /\ u + W <= M /\ v + W <= M
  BY <1>3, <1>4, <1>5, <1>6, <1>7, WordsBelow
<1>10. d <= x /\ x <= d + W - 1 /\ o <= y /\ e <= z
  BY <1>1, <1>3, <1>4, <1>5, <1>8, <1>9
<1>11. u = x + y /\ v = u + z
  BY <1>1, <1>6, <1>7, <1>8, <1>9, <1>10
<1>12. d + o + e <= v
  BY <1>1, <1>10, <1>11
<1>. QED BY <1>2, <1>7, <1>12
-----------------------------------------------------------------------------
(* The order of the free tree.                                             *)

\* The nodes of tree are in the order of their sizes under the links n.
Sorted(tree, n) == \A i, j \in 1 .. Len(tree) : i < j => SizeIn(n, tree[i]) <= SizeIn(n, tree[j])

\* Taking a node out keeps the order.
LEMMA EraseSorted ==
  ASSUME NEW s \in Seq(Addr), NEW e \in Nodes(s), NEW n \in Links, Sorted(s, n)
  PROVE  Sorted(Erase(s, e), n)
<1> DEFINE k == CHOOSE i \in 1 .. Len(s) : s[i] = e
           t == RemoveAt(s, k)
<1>1. k \in 1 .. Len(s) /\ s[k] = e
  BY DEF Nodes
<1> HIDE DEF k
<1>2. /\ t \in Seq(Addr) /\ Len(t) = Len(s) - 1
      /\ \A i \in 1 .. Len(s) - 1 : t[i] = IF i < k THEN s[i] ELSE s[i + 1]
  BY <1>1, RemoveAtElements
<1> HIDE DEF t
<1>3. Len(s) \in Nat
  OBVIOUS
<1>4. ASSUME NEW i \in 1 .. Len(t), NEW j \in 1 .. Len(t), i < j
      PROVE  SizeIn(n, t[i]) <= SizeIn(n, t[j])
  <2>1. PICK a \in 1 .. Len(s) : t[i] = s[a] /\ a = IF i < k THEN i ELSE i + 1
    BY SMTT(30), <1>1, <1>2, <1>3
  <2>2. PICK b \in 1 .. Len(s) : t[j] = s[b] /\ b = IF j < k THEN j ELSE j + 1
    BY <1>1, <1>2, <1>3
  <2>3. a < b
    BY <2>1, <2>2, <1>1, <1>3, <1>4
  <2>. QED BY <2>1, <2>2, <2>3 DEF Sorted
<1>. QED BY <1>4 DEF Sorted, Erase, t, k

\* An insertion into the tree, position by position.
LEMMA InsertAtTree ==
  ASSUME NEW s \in Seq(Addr), NEW k \in 1 .. Len(s) + 1, NEW e \in Addr
  PROVE  /\ Len(InsertAt(s, k, e)) = Len(s) + 1
         /\ \A i \in 1 .. Len(s) + 1 : InsertAt(s, k, e)[i] =
              IF i < k THEN s[i] ELSE IF i = k THEN e ELSE s[i - 1]
<1>1. \A S : \A u \in Seq(S) : \A j \in 1 .. Len(u) + 1, x \in S :
        /\ Len(InsertAt(u, j, x)) = Len(u) + 1
        /\ \A i \in 1 .. Len(u) + 1 : InsertAt(u, j, x)[i] =
             IF i < j THEN u[i] ELSE IF i = j THEN x ELSE u[i - 1]
  BY InsertAtElements
<1>. QED BY <1>1

\* binder_insert_free_buffer puts the new node where the order wants it.
LEMMA InsertSorted ==
  ASSUME NEW s \in Seq(Addr), NEW b \in Addr, NEW n \in Links, Sorted(s, n),
         NEW t \in InsertFree(s, b, n)
  PROVE  Sorted(t, n)
<1>1. PICK k \in 1 .. Len(s) + 1 :
        /\ t = InsertAt(s, k, b)
        /\ k > 1 => SizeIn(n, b) >= SizeIn(n, s[k - 1])
        /\ k <= Len(s) => SizeIn(n, b) < SizeIn(n, s[k])
  BY DEF InsertFree
<1>2. /\ Len(t) = Len(s) + 1
      /\ \A i \in 1 .. Len(s) + 1 :
           t[i] = IF i < k THEN s[i] ELSE IF i = k THEN b ELSE s[i - 1]
  <2>1. /\ Len(InsertAt(s, k, b)) = Len(s) + 1
        /\ \A i \in 1 .. Len(s) + 1 : InsertAt(s, k, b)[i] =
             IF i < k THEN s[i] ELSE IF i = k THEN b ELSE s[i - 1]
    BY InsertAtTree
  <2>. QED BY <2>1, <1>1
<1>3. Len(s) \in Nat
  OBVIOUS
<1>4. \A c \in Addr : SizeIn(n, c) \in Int
  BY AddrType DEF SizeIn, Links
<1>5. \A i \in 1 .. Len(s) : SizeIn(n, s[i]) \in Int
  BY <1>4
<1>6. SizeIn(n, b) \in Int
  BY <1>4
<1>7. \A i \in 1 .. Len(s) : i < k => SizeIn(n, s[i]) <= SizeIn(n, b)
  <2> SUFFICES ASSUME NEW i \in 1 .. Len(s), i < k PROVE SizeIn(n, s[i]) <= SizeIn(n, b)
    OBVIOUS
  <2>1. k > 1 /\ k - 1 \in 1 .. Len(s) /\ (i < k - 1 \/ i = k - 1)
    BY <1>3
  <2>2. SizeIn(n, s[i]) <= SizeIn(n, s[k - 1])
    BY <2>1, <1>5 DEF Sorted
  <2>. QED BY <2>1, <2>2, <1>1, <1>5, <1>6
<1>8. \A i \in 1 .. Len(s) : k <= i => SizeIn(n, b) <= SizeIn(n, s[i])
  <2> SUFFICES ASSUME NEW i \in 1 .. Len(s), k <= i PROVE SizeIn(n, b) <= SizeIn(n, s[i])
    OBVIOUS
  <2>1. k <= Len(s) /\ k \in 1 .. Len(s) /\ (k < i \/ i = k)
    BY <1>3
  <2>2. SizeIn(n, s[k]) <= SizeIn(n, s[i])
    BY <2>1, <1>5 DEF Sorted
  <2>. QED BY <2>1, <2>2, <1>1, <1>5, <1>6
<1>9. ASSUME NEW i \in 1 .. Len(t), NEW j \in 1 .. Len(t), i < j
      PROVE  SizeIn(n, t[i]) <= SizeIn(n, t[j])
  <2>1. CASE i = k
    <3>1. t[i] = b /\ t[j] = s[j - 1] /\ j - 1 \in 1 .. Len(s) /\ k <= j - 1
      BY <2>1, <1>2, <1>3, <1>9
    <3>. QED BY <3>1, <1>8
  <2>2. CASE j = k
    <3>1. t[j] = b /\ t[i] = s[i] /\ i \in 1 .. Len(s) /\ i < k
      BY <2>2, <1>2, <1>3, <1>9
    <3>. QED BY <3>1, <1>7
  <2>3. CASE i # k /\ j # k
    <3>1. PICK a \in 1 .. Len(s) : t[i] = s[a] /\ a = IF i < k THEN i ELSE i - 1
      BY <2>3, <1>2, <1>3
    <3>2. PICK c \in 1 .. Len(s) : t[j] = s[c] /\ c = IF j < k THEN j ELSE j - 1
      BY <2>3, <1>2, <1>3
    <3>3. a < c
      BY <2>3, <3>1, <3>2, <1>9
    <3>. QED BY <3>1, <3>2, <3>3 DEF Sorted
  <2>. QED BY <2>1, <2>2, <2>3
<1>. QED BY <1>9 DEF Sorted

\* The order depends only on the sizes of the nodes.
LEMMA SameSorted ==
  ASSUME NEW s \in Seq(Addr), NEW n, NEW m, Sorted(s, n),
         \A c \in Nodes(s) : m[c] = n[c]
  PROVE  Sorted(s, m)
<1>1. \A i \in 1 .. Len(s) : SizeIn(m, s[i]) = SizeIn(n, s[i])
  BY DEF Nodes, SizeIn
<1>. QED BY <1>1 DEF Sorted

\* Shortening the best fit to the size searched for keeps the order: the node
\* before it is too small for that size.
LEMMA ShortenSorted ==
  ASSUME TypeOK, TreeInv, Sorted(freeTree, nxt), NEW size \in Nat \ {0},
         NEW b \in BestFits(size), SizeIn(nxt, b) # size,
         NEW n \in Links, n[b] = b + size, \A c \in FreeSet : c # b => n[c] = nxt[c]
  PROVE  Sorted(freeTree, n)
<1>1. PICK k \in 1 .. Len(freeTree) :
        /\ b = freeTree[k] /\ SizeIn(nxt, b) > size
        /\ k > 1 => SizeIn(nxt, freeTree[k - 1]) < size
  BY DEF BestFits
<1>2. freeTree \in Seq(Addr) /\ Len(freeTree) \in Nat /\ nxt \in Links
  BY DEF TypeOK, Links
<1>3. \A i \in 1 .. Len(freeTree) : freeTree[i] \in FreeSet /\ (i # k => freeTree[i] # b)
  BY <1>1 DEF TreeInv, Nodes, Injective
<1>4. \A i \in 1 .. Len(freeTree) : SizeIn(nxt, freeTree[i]) \in Int
  <2>1. \A c \in Addr : SizeIn(nxt, c) \in Int
    BY <1>2, AddrType DEF SizeIn, Links
  <2>. QED BY <2>1, <1>3 DEF FreeSet
<1>5. SizeIn(n, freeTree[k]) = size
  <2>1. b \in Int
    BY <1>1, <1>2, AddrType
  <2>. QED BY <2>1, <1>1 DEF SizeIn
<1>6. \A i \in 1 .. Len(freeTree) : i # k => SizeIn(n, freeTree[i]) = SizeIn(nxt, freeTree[i])
  BY <1>3 DEF SizeIn
<1>7. \A i \in 1 .. Len(freeTree) : i < k => SizeIn(nxt, freeTree[i]) < size
  <2> SUFFICES ASSUME NEW i \in 1 .. Len(freeTree), i < k PROVE SizeIn(nxt, freeTree[i]) < size
    OBVIOUS
  <2>1. k > 1 /\ k - 1 \in 1 .. Len(freeTree) /\ (i < k - 1 \/ i = k - 1)
    BY <1>2
  <2>2. SizeIn(nxt, freeTree[i]) <= SizeIn(nxt, freeTree[k - 1])
    BY <2>1, <1>4 DEF Sorted
  <2>. QED BY <2>1, <2>2, <1>1, <1>4
<1>8. \A i \in 1 .. Len(freeTree) : k < i => size < SizeIn(nxt, freeTree[i])
  BY <1>1, <1>4 DEF Sorted
<1>9. ASSUME NEW i \in 1 .. Len(freeTree), NEW j \in 1 .. Len(freeTree), i < j
      PROVE  SizeIn(n, freeTree[i]) <= SizeIn(n, freeTree[j])
  <2>1. CASE i = k
    BY <2>1, <1>4, <1>5, <1>6, <1>8, <1>9
  <2>2. CASE j = k
    BY <2>2, <1>4, <1>5, <1>6, <1>7, <1>9
  <2>3. CASE i # k /\ j # k
    BY <2>3, <1>6, <1>9 DEF Sorted
  <2>. QED BY <2>1, <2>2, <2>3
<1>. QED BY <1>9 DEF Sorted

\* After an allocation the tree is in order again.
LEMMA NewBufSorted ==
  ASSUME TypeOK, List(st, nxt, prv), TreeInv, Sorted(freeTree, nxt),
         NEW r \in Requests, NEW async \in BOOLEAN, NEW b \in Addr,
         NewBuf(r, async, b)
  PROVE  Sorted(freeTree', nxt')
<1> DEFINE size == PaddedSize(r)
           rest == b + size
<1>1. size \in Nat \ {0} /\ b \in BestFits(size)
  BY SizesType DEF NewBuf, CanAllocate
<1>2. st[b] = "free" /\ size <= nxt[b] - b
  BY <1>1, BestFitsFit
<1>3. st \in [Addr -> St] /\ nxt \in Links /\ nxt[b] \in 0 .. ListHead /\ b \in Int
  BY AddrType DEF TypeOK, St, Links
<1>4. freeTree \in Seq(Addr) /\ Nodes(freeTree) = FreeSet /\ Injective(freeTree) /\ b \in Nodes(freeTree)
  BY <1>2 DEF TypeOK, TreeInv, FreeSet
<1>5. CASE binder_alloc_buffer_size(b) # size
  <2>1. rest \in Addr /\ b < rest /\ rest < nxt[b] /\ rest # b
    BY <1>5, <1>1, <1>2, <1>3, AddrType DEF binder_alloc_buffer_size, SizeIn
  <2>2. nxt' = SplitNxt(nxt, b, rest)
    BY <1>5 DEF NewBuf, ListAddNxt, SplitNxt
  <2>3. PICK t \in InsertFree(freeTree, rest, SplitNxt(nxt, b, rest)) : freeTree' = Erase(t, b)
    BY <1>5 DEF NewBuf, ListAddNxt, SplitNxt
  <2>4. SizeIn(nxt, b) # size
    BY <1>5 DEF binder_alloc_buffer_size
  <2> DEFINE n == SplitNxt(nxt, b, rest)
  <2> HIDE DEF rest
  <2>5. st[rest] = "absent"
    BY <2>1, <1>2 DEF List, NoneInside
  <2>6. /\ n \in Links /\ n[b] = rest
        /\ \A c \in Addr : c # b /\ c # rest => n[c] = nxt[c]
    BY <2>1, <1>3, AddrType DEF SplitNxt, Links
  <2> HIDE DEF n
  <2>7. \A c \in FreeSet : c # b => n[c] = nxt[c]
    BY <2>5, <2>6 DEF FreeSet
  <2>8. Sorted(freeTree, n)
    <3>1. n[b] = b + size
      BY <2>6 DEF rest
    <3> HIDE DEF size
    <3>. QED BY <3>1, <2>4, <2>6, <2>7, <1>1, ShortenSorted
  <2>9. Sorted(t, n)
    BY <2>1, <2>3, <2>6, <2>8, <1>4, InsertSorted DEF n
  <2>10. t \in Seq(Addr) /\ b \in Nodes(t)
    BY <2>1, <2>3, <2>5, <1>4, InsertFreeNodes DEF FreeSet
  <2>. QED BY <2>2, <2>3, <2>6, <2>9, <2>10, EraseSorted DEF n
<1>6. CASE binder_alloc_buffer_size(b) = size
  <2>1. nxt' = nxt /\ freeTree' = Erase(freeTree, b)
    BY <1>6 DEF NewBuf
  <2>. QED BY <2>1, <1>3, <1>4, EraseSorted
<1>. QED BY <1>5, <1>6

\* After a buffer is freed the tree is in order again.
LEMMA FreeSorted ==
  ASSUME TypeOK, List(st, nxt, prv), TreeInv, Sorted(freeTree, nxt),
         NEW b \in Addr, st[b] = "busy", FreeBufLocked(b)
  PROVE  Sorted(freeTree', nxt')
<1> DEFINE tree == EraseJoined(b)
           t1 == IF NextIsFree(b) THEN Erase(freeTree, nxt[b]) ELSE freeTree
<1>1. nxt \in Links /\ freeTree \in Seq(Addr) /\ Nodes(freeTree) = FreeSet /\ Injective(freeTree)
  BY DEF TypeOK, TreeInv, Links
<1>2. /\ PrevIsFree(b) => prv[b] \in FreeSet /\ prv[b] # b
      /\ NextIsFree(b) => nxt[b] \in FreeSet /\ nxt[b] # b
  BY <1>1, AddrType DEF PrevIsFree, NextIsFree, Links, FreeSet, TypeOK
<1>3. PrevIsFree(b) /\ NextIsFree(b) => prv[b] # nxt[b]
  <2>1. b # 0 => prv[b] \in Addr /\ prv[b] < nxt[prv[b]] /\ nxt[prv[b]] = b
    BY DEF List, Linked
  <2>2. PrevIsFree(b) => b # 0
    BY DEF PrevIsFree, List, Starts
  <2>3. nxt[b] > b /\ b \in Int /\ nxt[b] \in Int
    BY <1>1, AddrType DEF List, Linked, Links
  <2>. QED BY <2>1, <2>2, <2>3, AddrType
<1>4. t1 \in Seq(Addr) /\ Injective(t1) /\ Sorted(t1, nxt)
      /\ Nodes(t1) = {c \in FreeSet : NextIsFree(b) => c # nxt[b]}
  BY <1>1, <1>2, EraseNodes, EraseSorted
<1>5. tree = IF PrevIsFree(b) THEN Erase(t1, prv[b]) ELSE t1
  BY DEF EraseJoined
<1> HIDE DEF t1, tree
<1>6. PrevIsFree(b) => prv[b] \in Nodes(t1)
  BY <1>2, <1>3, <1>4
<1>7. /\ tree \in Seq(Addr) /\ Sorted(tree, nxt)
      /\ Nodes(tree) \subseteq {c \in FreeSet : /\ NextIsFree(b) => c # nxt[b]
                                                /\ PrevIsFree(b) => c # prv[b]}
  BY <1>1, <1>4, <1>5, <1>6, EraseNodes, EraseSorted
<1>8. nxt' = ListDelNxt(b) /\ freeTree' \in InsertFree(tree, JoinStart(b), ListDelNxt(b))
  BY DEF FreeBufLocked, tree
<1>9. /\ JoinStart(b) \in Addr /\ JoinEnd(b) \in 0 .. ListHead /\ ListDelNxt(b) \in Links
  <2>1. JoinStart(b) \in Addr /\ JoinEnd(b) \in 0 .. ListHead
    BY JoinGeometry
  <2>. QED BY <2>1, <1>1, AddrType DEF ListDelNxt, Links
<1>10. \A c \in Nodes(tree) : ListDelNxt(b)[c] = nxt[c]
  <2> SUFFICES ASSUME NEW c \in Nodes(tree) PROVE ListDelNxt(b)[c] = nxt[c]
    OBVIOUS
  <2>1. /\ c \in Addr /\ st[c] = "free"
        /\ NextIsFree(b) => c # nxt[b]
        /\ PrevIsFree(b) => c # prv[b]
    BY <1>7 DEF FreeSet
  <2>2. c # JoinStart(b) /\ c \notin Joined(b)
    BY <2>1 DEF JoinStart, Joined
  <2>. QED BY <2>1, <2>2 DEF ListDelNxt
<1>11. Sorted(tree, ListDelNxt(b))
  BY <1>7, <1>10, SameSorted
<1>. QED BY <1>7, <1>8, <1>9, <1>11, InsertSorted

\* A non-empty set of natural numbers has a least element.
LEMMA LeastOf ==
  ASSUME NEW T \in SUBSET Nat, T # {}
  PROVE  \E x \in T : \A y \in T : x <= y
<1> DEFINE R == OpToRel(<, Nat)
<1>1. IsWellFoundedOn(R, Nat)
  BY NatLessThanWellFounded
<1>2. \A x, y \in Nat : y < x => <<y, x>> \in R
  BY DEF OpToRel
<1> HIDE DEF R
<1>3. PICK x \in T : \A y \in T : ~(<<y, x>> \in R)
  BY <1>1, WFMin
<1>4. x \in Nat /\ \A y \in T : y \in Nat
  OBVIOUS
<1>5. \A y \in T : ~(y < x)
  BY <1>2, <1>3, <1>4
<1>6. \A y \in T : x <= y
  BY <1>4, <1>5
<1>. QED BY <1>6

\* In a tree in order the search finds a fit when there is one, and the
\* closest one.
LEMMA SearchFinds ==
  ASSUME TypeOK, TreeInv, Sorted(freeTree, nxt), NEW size \in Nat \ {0}
  PROVE  LET fits == {b \in Addr : st[b] = "free" /\ SizeIn(nxt, b) >= size}
         IN /\ fits # {} => BestFits(size) # {}
            /\ \A b \in BestFits(size) :
                 b \in fits /\ \A c \in fits : SizeIn(nxt, b) <= SizeIn(nxt, c)
<1> DEFINE fits == {b \in Addr : st[b] = "free" /\ SizeIn(nxt, b) >= size}
           sz(i) == SizeIn(nxt, freeTree[i])
<1>1. freeTree \in Seq(Addr) /\ Len(freeTree) \in Nat /\ nxt \in Links
  BY DEF TypeOK, Links
<1>2. \A i \in 1 .. Len(freeTree) : freeTree[i] \in FreeSet
  BY DEF TreeInv, Nodes
<1>3. \A c \in FreeSet : \E i \in 1 .. Len(freeTree) : freeTree[i] = c
  BY DEF TreeInv, Nodes
<1>4. \A c \in Addr : SizeIn(nxt, c) \in Int
  BY <1>1, AddrType DEF SizeIn, Links
<1>5. \A i \in 1 .. Len(freeTree) : sz(i) \in Int
  BY <1>2, <1>4 DEF FreeSet
<1>6. ASSUME fits # {} PROVE BestFits(size) # {}
  <2> DEFINE T == {i \in 1 .. Len(freeTree) : sz(i) >= size}
  <2>1. T # {}
    <3>1. PICK c \in Addr : st[c] = "free" /\ SizeIn(nxt, c) >= size
      BY <1>6
    <3>2. PICK i \in 1 .. Len(freeTree) : freeTree[i] = c
      BY <3>1, <1>3 DEF FreeSet
    <3>3. i \in T
      BY <3>1, <3>2
    <3>. QED BY <3>3
  <2>2. T \in SUBSET Nat
    BY <1>1
  <2>3. PICK i \in T : \A j \in T : i <= j
    BY <2>1, <2>2, LeastOf
  <2>4. i \in 1 .. Len(freeTree) /\ sz(i) >= size
    BY <2>3
  <2>5. i > 1 => sz(i - 1) < size
    <3>1. i > 1 => i - 1 \in 1 .. Len(freeTree) /\ ~(i <= i - 1)
      BY <2>4, <1>1
    <3>2. i > 1 => i - 1 \notin T
      BY <2>3, <3>1
    <3>. QED BY <3>1, <3>2, <1>5
  <2>6. sz(i) = size \/ (sz(i) > size /\ (i > 1 => sz(i - 1) < size))
    BY <2>4, <2>5, <1>5
  <2>. QED BY <2>4, <2>6 DEF BestFits
<1>7. ASSUME NEW b \in BestFits(size)
      PROVE  b \in fits /\ \A c \in fits : SizeIn(nxt, b) <= SizeIn(nxt, c)
  <2>1. PICK i \in 1 .. Len(freeTree) :
          /\ b = freeTree[i]
          /\ sz(i) = size \/ (sz(i) > size /\ (i > 1 => sz(i - 1) < size))
    BY <1>7 DEF BestFits
  <2>2. b \in fits
    BY <2>1, <1>2, <1>5 DEF FreeSet
  <2>3. ASSUME NEW c \in fits PROVE SizeIn(nxt, b) <= SizeIn(nxt, c)
    <3>1. PICK j \in 1 .. Len(freeTree) : freeTree[j] = c
      BY <1>3 DEF FreeSet
    <3>2. sz(j) >= size
      BY <2>3, <3>1
    <3>3. CASE sz(i) = size
      BY <3>1, <3>2, <3>3, <2>1, <1>5
    <3>4. CASE sz(i) > size
      <4>1. i > 1 => i - 1 \in 1 .. Len(freeTree) /\ sz(i - 1) < size
        BY <3>4, <2>1, <1>1, <1>5
      <4>2. ~(j < i)
        <5> SUFFICES ASSUME j < i PROVE FALSE
          OBVIOUS
        <5>1. i > 1 /\ (j < i - 1 \/ j = i - 1)
          BY <1>1
        <5>2. sz(j) <= sz(i - 1)
          BY <4>1, <5>1, <1>5 DEF Sorted
        <5>. QED BY <4>1, <5>1, <5>2, <3>2, <1>5
      <4>3. i = j \/ i < j
        BY <4>2, <1>1
      <4>4. sz(i) <= sz(j)
        BY <4>3, <1>5 DEF Sorted
      <4>. QED BY <4>4, <3>1, <2>1
    <3>. QED BY <3>3, <3>4, <2>1
  <2>. QED BY <2>2, <2>3
<1>. QED BY <1>6, <1>7
-----------------------------------------------------------------------------
(* The inductive invariant for pages, sizes and the search.                *)

BInv == IInv /\ FitInv /\ PagesSound /\ Sorted(freeTree, nxt)

\* What the search and the sizes promise; the rest of AllocSound is about the
\* asynchronous budget.
SearchSound == FreeTreeSorted /\ BestFitFound /\ BusyBuffersFit

\* The invariant gives the properties the model is checked for.
LEMMA BInvImplies == BInv => SearchSound /\ PagesSound
<1> SUFFICES ASSUME BInv PROVE SearchSound /\ PagesSound
  OBVIOUS
<1>1. TypeOK /\ TreeInv /\ ListInv /\ FitInv
  BY DEF BInv, IInv
<1>2. FreeTreeSorted
  <2>1. {freeTree[i] : i \in 1 .. Len(freeTree)} = {b \in Addr : st[b] = "free"}
    BY <1>1 DEF TreeInv, Nodes, FreeSet
  <2>2. \A i, j \in 1 .. Len(freeTree) : i < j => freeTree[i] # freeTree[j]
    BY <1>1 DEF TreeInv, Injective
  <2>. QED BY <2>1, <2>2 DEF BInv, Sorted, FreeTreeSorted
<1>3. BestFitFound
  <2> SUFFICES ASSUME NEW r \in Requests
               PROVE  LET fits == {b \in Addr : st[b] = "free" /\ SizeIn(nxt, b) >= PaddedSize(r)}
                      IN /\ fits # {} => BestFits(PaddedSize(r)) # {}
                         /\ \A b \in BestFits(PaddedSize(r)) :
                              b \in fits /\ \A c \in fits : SizeIn(nxt, b) <= SizeIn(nxt, c)
    BY DEF BestFitFound
  <2>1. PICK size \in Nat \ {0} : size = PaddedSize(r)
    BY SizesType
  <2>2. Sorted(freeTree, nxt)
    BY DEF BInv
  <2>. QED BY <1>1, <2>1, <2>2, SearchFinds
<1>4. BusyBuffersFit
  <2> SUFFICES ASSUME NEW b \in Addr, st[b] = "busy"
               PROVE  /\ buf[b].req.data + buf[b].req.offsets + buf[b].req.extra
                           <= binder_alloc_buffer_size(b)
                      /\ \A c \in Addr : (Present(c) /\ c # b) => nxt[c] <= b \/ nxt[b] <= c
    BY DEF BusyBuffersFit
  <2>1. List(st, nxt, prv)
    BY <1>1 DEF ListInv
  <2>2. PICK r \in Requests : /\ r = buf[b].req /\ ValidSizes(r)
                              /\ nxt[b] - b = PaddedSize(r)
    BY <1>1 DEF FitInv
  <2>3. r.data + r.offsets + r.extra <= AlignedSize(r)
    BY <2>2, ChecksEnough
  <2>4. AlignedSize(r) \in Int /\ PaddedSize(r) \in Int /\ AlignedSize(r) <= PaddedSize(r)
    BY SizesType, ModAssumption
  <2>5. r.data + r.offsets + r.extra \in Int
    BY RequestAssumption, ModAssumption
  <2>6. r.data + r.offsets + r.extra <= PaddedSize(r)
    BY <2>3, <2>4, <2>5
  <2>7. \A c \in Addr : (Present(c) /\ c # b) => nxt[c] <= b \/ nxt[b] <= c
    BY <1>1, <2>1, Apart DEF Present
  <2>. QED BY <2>2, <2>6, <2>7 DEF binder_alloc_buffer_size, SizeIn
<1>. QED BY <1>2, <1>3, <1>4 DEF BInv, SearchSound

\* A step that moves no buffer and takes no page to or from one.
LEMMA QuietBuffers ==
  ASSUME BInv, IInv', st' = st, nxt' = nxt, freeTree' = freeTree, bug' = bug,
         \A c \in Addr : buf'[c].req = buf[c].req,
         \A p \in Pages : pages'[p] = "active" <=> pages[p] = "active"
  PROVE  BInv'
<1>1. FitInv'
  BY DEF BInv, FitInv
<1>2. PagesSound'
  BY DEF BInv, PagesSound, NoBug, PagesFollowBuffers
<1>3. Sorted(freeTree', nxt')
  BY DEF BInv
<1>4. Sorted(freeTree, nxt)'
  BY <1>3 DEF Sorted, SizeIn
<1>. QED BY <1>1, <1>2, <1>4 DEF BInv

\* A step that has no area before or after it.
LEMMA NoBuffers ==
  ASSUME BInv, IInv', ~bug', \A p \in Pages : pages'[p] # "active",
         \A c \in Addr : st'[c] # "busy", Sorted(freeTree', nxt')
  PROVE  BInv'
<1>1. FitInv' /\ PagesSound'
  BY DEF FitInv, PagesSound, NoBug, PagesFollowBuffers
<1>2. Sorted(freeTree, nxt)'
  BY DEF Sorted, SizeIn
<1>. QED BY <1>1, <1>2 DEF BInv

\* A tree of at most one node is in order.
LEMMA ShortSorted == ASSUME NEW s, Len(s) \in 0 .. 1, NEW n PROVE Sorted(s, n)
  BY DEF Sorted

\* binder_alloc_new_buf succeeds.
LEMMA NewBufBInv ==
  ASSUME BInv, IInv', NEW r \in Requests, NEW async \in BOOLEAN, NEW b \in Addr,
         NewBuf(r, async, b)
  PROVE  BInv'
<1>1. TypeOK /\ List(st, nxt, prv) /\ TreeInv /\ FitInv /\ PagesSound /\ Sorted(freeTree, nxt)
  BY DEF BInv, IInv, ListInv, Mapped, NewBuf, CanAllocate
<1>2. PagesSound'
  BY <1>1, NewBufPages
<1>3. Sorted(freeTree, nxt)'
  <2>1. Sorted(freeTree', nxt')
    BY <1>1, NewBufSorted
  <2>. QED BY <2>1 DEF Sorted, SizeIn
<1>4. FitInv'
  <2>1. /\ PaddedSize(r) \in Nat \ {0} /\ nxt'[b] = b + PaddedSize(r)
        /\ \A c \in Addr : st'[c] = "busy" <=> c = b \/ st[c] = "busy"
        /\ \A c \in Addr : c # b /\ st[c] # "absent" => nxt'[c] = nxt[c]
    BY <1>1, NewBufEffect
  <2>2. /\ buf'[b].req = r /\ ValidSizes(r)
        /\ \A c \in Addr : c # b => buf'[c] = buf[c]
    BY <1>1 DEF NewBuf, CanAllocate, TypeOK
  <2>3. ASSUME NEW c \in Addr, st'[c] = "busy"
        PROVE  /\ buf'[c].req \in Requests /\ ValidSizes(buf'[c].req)
               /\ nxt'[c] - c = PaddedSize(buf'[c].req)
    <3>1. CASE c = b
      <4>1. b \in Int
        BY AddrType
      <4>2. nxt'[b] - b = PaddedSize(r)
        BY <4>1, <2>1
      <4>. QED BY <3>1, <4>2, <2>2
    <3>2. CASE c # b
      BY <3>2, <2>1, <2>2, <2>3, <1>1 DEF FitInv
    <3>. QED BY <3>1, <3>2
  <2>. QED BY <2>3 DEF FitInv, ValidSizes, PaddedSize
<1>. QED BY <1>2, <1>3, <1>4 DEF BInv

\* binder_free_buf_locked on an allocated buffer.
LEMMA FreeBInv ==
  ASSUME BInv, IInv', Mapped, NEW b \in Addr, st[b] = "busy", FreeBufLocked(b)
  PROVE  BInv'
<1>1. TypeOK /\ List(st, nxt, prv) /\ TreeInv /\ FitInv /\ PagesSound /\ Sorted(freeTree, nxt)
  BY DEF BInv, IInv, ListInv
<1>2. PagesSound'
  BY <1>1, FreePages
<1>3. Sorted(freeTree, nxt)'
  <2>1. Sorted(freeTree', nxt')
    BY <1>1, FreeSorted
  <2>. QED BY <2>1 DEF Sorted, SizeIn
<1>4. FitInv'
  <2>1. /\ \A c \in Addr : st'[c] = "busy" <=> c # b /\ st[c] = "busy"
        /\ \A c \in Addr : c # b /\ st[c] = "busy" => nxt'[c] = nxt[c]
    BY <1>1, FreeEffect
  <2>2. \A c \in Addr : c # b => buf'[c] = buf[c]
    BY <1>1 DEF FreeBufLocked, TypeOK
  <2>3. ASSUME NEW c \in Addr, st'[c] = "busy"
        PROVE  /\ buf'[c].req \in Requests /\ ValidSizes(buf'[c].req)
               /\ nxt'[c] - c = PaddedSize(buf'[c].req)
    BY <2>1, <2>2, <2>3, <1>1 DEF FitInv
  <2>. QED BY <2>3 DEF FitInv, ValidSizes, PaddedSize
<1>. QED BY <1>2, <1>3, <1>4 DEF BInv

\* An allocation that fails for want of memory gives back pages nobody used.
LEMMA FailedBInv ==
  ASSUME BInv, IInv', NEW r \in Requests, NEW async \in BOOLEAN, NEW b \in Addr,
         CanAllocate(r, async, b), NEW P \in SUBSET PagesToUse(b, PaddedSize(r)),
         pages' = DropPages(pages, P), bug' = (bug \/ \E p \in P : pages[p] = "active"),
         UNCHANGED <<listVars, buf>>
  PROVE  BInv'
<1>1. TypeOK /\ List(st, nxt, prv) /\ TreeInv /\ PagesFollowBuffers /\ ~bug
  BY DEF BInv, IInv, ListInv, Mapped, CanAllocate, PagesSound, NoBug
<1>2. PICK size \in Nat \ {0} : size = PaddedSize(r)
  BY SizesType
<1>3. st[b] = "free" /\ size <= nxt[b] - b
  BY <1>1, <1>2, BestFitsFit DEF CanAllocate
<1>4. b + size <= nxt[b]
  <2>1. b \in Int /\ nxt[b] \in Int
    BY <1>1, <1>3, Neighbours
  <2>. QED BY <2>1, <1>3
<1>5. \A p \in P : p \in Pages => pages[p] # "active"
  BY <1>1, <1>2, <1>3, <1>4, TakenPagesIdle
<1>6. \A p \in P : p \in Pages
  <2>1. /\ PageOf(b - 1) \in Int /\ PageOf(b) \in Int /\ PageOf(nxt[b]) \in Int
        /\ PageOf(b) <= PageOf(b - 1) + 1 /\ PageAlign(b) = PageOf(b - 1) + 1
        /\ 0 <= PageOf(b) /\ PageOf(nxt[b]) <= NPages
    BY <1>1, <1>3, BufferPages
  <2>2. PICK e \in Int : e = b + size
    BY <1>2, AddrType
  <2>3. PageAlign(e) \in Int
    <3>1. PageOf(e - 1) \in Int /\ PageAlign(e) = PageOf(e - 1) + 1
      BY PageStep
    <3>. QED BY <3>1
  <2>4. \A p \in PagesToUse(b, size) : p \in Int /\ 0 <= p /\ p < NPages
    BY <2>1, <2>2, <2>3, PageAssumption DEF PagesToUse
  <2>. QED BY <2>4, <1>2, PageAssumption DEF Pages
<1>7. /\ bug' = bug
      /\ \A p \in Pages : pages'[p] = "active" <=> pages[p] = "active"
  <2>1. ~(\E p \in P : pages[p] = "active")
    BY <1>5, <1>6
  <2>2. bug' = bug
    BY <2>1, <1>1 DEF TypeOK
  <2>3. \A p \in Pages : pages'[p] = "active" <=> pages[p] = "active"
    BY <1>5 DEF DropPages
  <2>. QED BY <2>2, <2>3
<1>. QED BY <1>7, QuietBuffers DEF listVars

\* The initial state: no area, no pages.
LEMMA InitBInv == Init => BInv
<1> SUFFICES ASSUME Init PROVE BInv
  OBVIOUS
<1>1. IInv
  BY InitIInv
<1>2. FitInv /\ PagesSound
  BY DEF Init, FitInv, PagesSound, NoBug, PagesFollowBuffers
<1>3. Sorted(freeTree, nxt)
  BY DEF Init, Sorted
<1>. QED BY <1>1, <1>2, <1>3 DEF BInv

\* Every step preserves the invariant.
LEMMA NextBInv == BInv /\ [Next]_vars => BInv'
<1> SUFFICES ASSUME BInv, [Next]_vars PROVE BInv'
  OBVIOUS
<1>0. IInv' /\ TypeOK /\ ListInv /\ PagesSound /\ FitInv
  BY NextIInv DEF BInv, IInv
<1>1. ASSUME UNCHANGED <<listVars, buf, pages, bug>> PROVE BInv'
  BY <1>0, <1>1, QuietBuffers DEF listVars
<1>2. CASE MmapReserve \/ MmapFail \/ VmaClose \/ ReleaseStart \/ AllocInit \/ UNCHANGED vars
  BY <1>1, <1>2 DEF MmapReserve, MmapFail, VmaClose, ReleaseStart, AllocInit, vars, listVars
<1>3. CASE MmapFinish
  <2>1. ~Mapped
    BY <1>3 DEF MmapFinish, Mapped
  <2>2. \A c \in Addr : st[c] = "absent"
    BY <2>1, <1>0 DEF ListInv
  <2>3. /\ ~bug' /\ \A p \in Pages : pages'[p] # "active"
    BY <1>0, <1>3, <2>2 DEF MmapFinish, PagesSound, NoBug, PagesFollowBuffers
  <2>4. \A c \in Addr : st'[c] # "busy"
    BY <1>0, <1>3, <2>2 DEF MmapFinish, TypeOK
  <2>5. Sorted(freeTree', nxt')
    <3>1. Len(<<0>>) \in 0 .. 1
      OBVIOUS
    <3>. QED BY <1>3, <3>1, ShortSorted DEF MmapFinish
  <2>. QED BY <1>0, <2>3, <2>4, <2>5, NoBuffers
<1>4. ASSUME NEW p \in Pages, ShrinkPage(p) PROVE BInv'
  <2>1. \A q \in Pages : pages'[q] = "active" <=> pages[q] = "active"
    BY <1>0, <1>4 DEF ShrinkPage, TypeOK
  <2>. QED BY <1>0, <1>4, <2>1, QuietBuffers DEF ShrinkPage, listVars
<1>5. ASSUME NEW r \in Requests, NEW async \in BOOLEAN, NEW b \in Addr, NewBuf(r, async, b)
      PROVE  BInv'
  BY <1>0, <1>5, NewBufBInv
<1>6. ASSUME NEW r \in Requests, NEW async \in BOOLEAN, NEW b \in Addr, NEW k \in Pages,
             NewBufPageFails(r, async, b, k)
      PROVE  BInv'
  <2> DEFINE P == {p \in PagesToUse(b, PaddedSize(r)) : p < k}
  <2>1. /\ CanAllocate(r, async, b) /\ pages' = DropPages(pages, P)
        /\ bug' = (bug \/ \E p \in P : pages[p] = "active")
        /\ UNCHANGED <<listVars, buf>>
    BY <1>6 DEF NewBufPageFails
  <2>2. P \in SUBSET PagesToUse(b, PaddedSize(r))
    OBVIOUS
  <2> HIDE DEF P
  <2>. QED BY <1>0, <2>1, <2>2, FailedBInv
<1>7. ASSUME NEW r \in Requests, NEW async \in BOOLEAN, NEW b \in Addr,
             NewBufStructFails(r, async, b)
      PROVE  BInv'
  <2> DEFINE P == PagesToUse(b, PaddedSize(r))
  <2>1. /\ CanAllocate(r, async, b) /\ pages' = DropPages(pages, P)
        /\ bug' = (bug \/ \E p \in P : pages[p] = "active")
        /\ UNCHANGED <<listVars, buf>>
    BY <1>7 DEF NewBufStructFails
  <2>2. P \in SUBSET PagesToUse(b, PaddedSize(r))
    OBVIOUS
  <2> HIDE DEF P
  <2>. QED BY <1>0, <2>1, <2>2, FailedBInv
<1>8. ASSUME NEW b \in Addr, Deliver(b) PROVE BInv'
  <2>1. \A c \in Addr : buf'[c].req = buf[c].req
    BY <1>0, <1>8 DEF Deliver, TypeOK, Buffer
  <2>. QED BY <1>0, <1>8, <2>1, QuietBuffers DEF Deliver, listVars
<1>9. ASSUME NEW t \in Threads, NEW b \in Addr, PrepareToFree(t, b) PROVE BInv'
  <2>1. \A c \in Addr : buf'[c].req = buf[c].req
    BY <1>0, <1>9 DEF PrepareToFree, TypeOK, Buffer
  <2>. QED BY <1>0, <1>9, <2>1, QuietBuffers DEF PrepareToFree, listVars
<1>10. ASSUME NEW b \in Addr, KernelFree(b) \/ ReleaseBuffer(b) PROVE BInv'
  BY <1>0, <1>10, FreeBInv DEF KernelFree, ReleaseBuffer, Mapped
<1>11. ASSUME NEW t \in Threads, UserFree(t) PROVE BInv'
  <2>1. freeing[t] \in Addr /\ st[freeing[t]] = "busy" /\ Mapped
    BY <1>11 DEF UserFree, BInv, IInv, TypeOK, ClaimInv, ClaimExclusive, Mapped
  <2>2. FreeBufLocked(freeing[t])
    BY <1>11 DEF UserFree
  <2>. QED BY <1>0, <2>1, <2>2, FreeBInv
<1>12. CASE ReleaseFinish
  <2>1. List(st, nxt, prv) /\ \A b \in Addr : st[b] # "busy"
    BY <1>0, <1>12 DEF ReleaseFinish, ListInv, Mapped
  <2>2. st[0] = "free" /\ nxt[0] = ListHead
    <3>1. 0 \in Addr /\ st[0] # "absent"
      BY <2>1, AddrType DEF List, Starts
    <3>2. st[0] = "free"
      BY <3>1, <2>1, <1>0 DEF TypeOK
    <3>3. nxt[0] # ListHead => nxt[0] \in Addr /\ st[nxt[0]] = "busy"
      BY <3>1, <3>2, <2>1, <1>0, Neighbours
    <3>. QED BY <3>2, <3>3, <2>1
  <2>3. ~bug'
    BY <1>0, <1>12, <2>2 DEF ReleaseFinish, PagesSound, NoBug
  <2>4. \A c \in Addr : st'[c] # "busy"
    BY <1>12 DEF ReleaseFinish
  <2>5. \A p \in Pages : pages'[p] # "active"
    BY <1>12 DEF ReleaseFinish
  <2>6. Sorted(freeTree', nxt')
    <3>1. Len(<<>>) \in 0 .. 1
      OBVIOUS
    <3>. QED BY <1>12, <3>1, ShortSorted DEF ReleaseFinish
  <2>. QED BY <1>0, <2>3, <2>4, <2>5, <2>6, NoBuffers
<1>. QED BY <1>2, <1>3, <1>4, <1>5, <1>6, <1>7, <1>8, <1>9, <1>10, <1>11, <1>12
         DEF Next, Alloc

\* For every size of page, word and area, every set of requests and any number
\* of threads: the free tree is in order, the search finds the closest fit,
\* and what passes the overflow checks fits into its buffer.
THEOREM SearchCorrect == Spec => []SearchSound
<1>. QED BY BInvImplies, InitBInv, NextBInv, PTL DEF Spec

\* Pages are off the LRU exactly under the buffers in use, and no BUG_ON of
\* the allocator fires.
THEOREM PagesCorrect == Spec => []PagesSound
<1>. QED BY BInvImplies, InitBInv, NextBInv, PTL DEF Spec
-----------------------------------------------------------------------------
(* The asynchronous budget.                                                *)

\* Every request asks for at least a byte.  A buffer without one is charged
\* the padded size and credited the unpadded one.
NoEmptyRequest == \A r \in Requests : r.data + r.offsets + r.extra > 0

\* What the buffer at address a has taken from the budget.
ChargeAt(a) == IF st[a] = "busy" /\ buf[a].async THEN AsyncCharge(buf[a].req) ELSE 0

\* f sums g over the area: f[a] is what the addresses below a add up to.
Sums(f, g) ==
  /\ f \in [0 .. BufferSize -> Int] /\ f[0] = 0
  /\ \A a \in Addr : f[a + 1] = f[a] + g[a]

Charges == [a \in Addr |-> ChargeAt(a)]

\* The budget is half the area without the charges, on size_t.
BudgetInv == Mapped =>
  \E f \in [0 .. BufferSize -> Int], w \in Int :
    /\ Sums(f, Charges)
    /\ free_async_space = (BufferSize \div 2) - f[BufferSize] + SizeMod * w

\* A sum of zeros is zero.
LEMMA ZeroSum ==
  ASSUME NEW f, NEW g, Sums(f, g), \A a \in Addr : g[a] = 0
  PROVE  f[BufferSize] = 0
<1>1. BufferSize \in Nat \ {0}
  BY BufferSizeType
<1> DEFINE T == {n \in 0 .. BufferSize : f[n] # 0}
<1>2. T \in SUBSET Nat
  BY <1>1
<1>3. SUFFICES ASSUME T # {} PROVE FALSE
  BY <1>1
<1>4. PICK n \in T : \A m \in T : n <= m
  BY <1>2, <1>3, LeastOf
<1>5. n \in 0 .. BufferSize /\ f[n] # 0
  BY <1>4
<1>6. n # 0
  BY <1>5 DEF Sums
<1>7. n - 1 \in Addr /\ n - 1 \in 0 .. BufferSize /\ ~(n <= n - 1) /\ (n - 1) + 1 = n
  BY <1>1, <1>5, <1>6 DEF Addr
<1>8. f[n - 1] = 0
  BY <1>4, <1>7
<1>9. f[(n - 1) + 1] = f[n - 1] + g[n - 1]
  BY <1>7 DEF Sums
<1>. QED BY <1>5, <1>7, <1>8, <1>9

\* Changing one term of a sum changes the sum by as much.
LEMMA ChangeSum ==
  ASSUME NEW g \in [Addr -> Int], NEW h \in [Addr -> Int],
         NEW f \in [0 .. BufferSize -> Int], Sums(f, g),
         NEW b \in Addr, NEW d \in Int, h[b] = g[b] + d,
         \A a \in Addr : a # b => h[a] = g[a]
  PROVE  \E e \in [0 .. BufferSize -> Int] : Sums(e, h) /\ e[BufferSize] = f[BufferSize] + d
<1>1. BufferSize \in Nat \ {0}
  BY BufferSizeType
<1>2. b \in Int /\ 0 <= b /\ b < BufferSize
  BY <1>1 DEF Addr
<1>3. f \in [0 .. BufferSize -> Int]
  BY DEF Sums
<1> DEFINE e == [n \in 0 .. BufferSize |-> IF n > b THEN f[n] + d ELSE f[n]]
<1>4. e \in [0 .. BufferSize -> Int]
  BY <1>1, <1>3
<1>5. e[0] = 0
  BY <1>1, <1>2 DEF Sums
<1>6. ASSUME NEW a \in Addr PROVE e[a + 1] = e[a] + h[a]
  <2>1. a \in Int /\ a \in 0 .. BufferSize /\ a + 1 \in 0 .. BufferSize
    BY <1>1 DEF Addr
  <2>2. f[a + 1] = f[a] + g[a] /\ f[a] \in Int /\ f[a + 1] \in Int /\ g[a] \in Int
    BY <2>1, <1>3 DEF Sums
  <2>3. /\ e[a + 1] = IF a + 1 > b THEN f[a + 1] + d ELSE f[a + 1]
        /\ e[a] = IF a > b THEN f[a] + d ELSE f[a]
    BY <2>1
  <2>4. CASE a = b
    <3>1. e[a + 1] = f[a + 1] + d /\ e[a] = f[a]
      BY <2>1, <2>3, <2>4, <1>2
    <3>. QED BY <3>1, <2>2, <2>4
  <2>5. CASE a # b
    <3>1. a + 1 > b <=> a > b
      BY <2>1, <2>5, <1>2
    <3>2. h[a] = g[a]
      BY <2>5
    <3>. QED BY <3>1, <3>2, <2>2, <2>3
  <2>. QED BY <2>4, <2>5
<1>7. e[BufferSize] = f[BufferSize] + d
  BY <1>1, <1>2
<1>. QED BY <1>4, <1>5, <1>6, <1>7 DEF Sums

\* What a buffer is charged it is credited.
LEMMA ChargeCredit ==
  ASSUME NoEmptyRequest, NEW r \in Requests, ValidSizes(r)
  PROVE  AsyncCharge(r) = AsyncCredit(r) /\ AsyncCharge(r) \in Int
<1>1. /\ r.data + r.offsets + r.extra <= AlignedSize(r)
      /\ AlignedSize(r) \in 0 .. SizeMod - 1 /\ Words(AlignedSize(r))
  BY ChecksEnough
<1>2. WordSize \in Nat \ {0} /\ HdrSize \in Nat \ {0} /\ SizeMod \in Nat \ {0}
  BY WordAssumption, HdrAssumption, ModAssumption
<1>3. PICK n \in Int : n = r.data + r.offsets + r.extra /\ n > 0
  BY <1>2, RequestAssumption DEF NoEmptyRequest
<1>4. PICK v \in 0 .. SizeMod - 1 : v = AlignedSize(r) /\ v > 0
  BY <1>1, <1>2, <1>3
<1>5. PICK q \in Int : v = WordSize * q
  BY <1>1, <1>4 DEF Words
<1>6. q >= 1
  <2>1. CASE q <= 0
    <3>1. WordSize * q <= 0
      BY <2>1, <1>2
    <3>. QED BY <3>1, <1>2, <1>4, <1>5
  <2>. QED BY <2>1
<1>7. v >= WordSize
  <2>1. WordSize * q >= WordSize * 1
    BY <1>2, <1>6
  <2>. QED BY <2>1, <1>2, <1>5
<1>8. PaddedSize(r) = v
  BY <1>2, <1>4, <1>7 DEF PaddedSize
<1>. QED BY <1>2, <1>4, <1>8 DEF AsyncCharge, AsyncCredit

\* Reducing a number modulo SizeMod takes some SizeMod's off it.
LEMMA ModSteps ==
  ASSUME NEW a \in Int
  PROVE  \E w \in Int : a % SizeMod = a + SizeMod * w
<1>1. SizeMod \in Nat \ {0}
  BY ModAssumption
<1>2. PICK q \in Int, m \in 0 .. SizeMod - 1 : m = a % SizeMod /\ a = SizeMod * q + m
  BY <1>1, DivMod
<1>3. 0 - q \in Int /\ m = a + SizeMod * (0 - q)
  BY <1>1, <1>2
<1>. QED BY <1>2, <1>3

\* A charge is a number.
LEMMA ChargesType ==
  ASSUME TypeOK
  PROVE  Charges \in [Addr -> Int]
<1>1. ASSUME NEW a \in Addr PROVE ChargeAt(a) \in Int
  <2>1. buf[a].req \in Requests \cup {ZeroSizes}
    BY DEF TypeOK, Buffer
  <2>2. AsyncCharge(buf[a].req) \in Int
    BY <2>1, SizesType, HdrAssumption DEF AsyncCharge
  <2>. QED BY <2>2 DEF ChargeAt
<1>. QED BY <1>1 DEF Charges

\* One charge changes by d, and the budget by as much the other way.
LEMMA ChargeStep ==
  ASSUME TypeOK, BudgetInv, Mapped, NEW b \in Addr, NEW d \in Int,
         Charges'[b] = Charges[b] + d,
         \A a \in Addr : a # b => Charges'[a] = Charges[a],
         \E w \in Int : free_async_space' = free_async_space - d + SizeMod * w
  PROVE  BudgetInv'
<1>1. PICK f \in [0 .. BufferSize -> Int], v \in Int :
        /\ Sums(f, Charges)
        /\ free_async_space = (BufferSize \div 2) - f[BufferSize] + SizeMod * v
  BY DEF BudgetInv
<1>2. PICK w \in Int : free_async_space' = free_async_space - d + SizeMod * w
  OBVIOUS
<1>3. \A a \in Addr : Charges[a] \in Int
  BY ChargesType
<1>4. PICK e \in [0 .. BufferSize -> Int] : /\ Sums(e, Charges')
                                            /\ e[BufferSize] = f[BufferSize] + d
  <2>1. Charges' \in [Addr -> Int]
    <3>1. \A a \in Addr : Charges'[a] \in Int
      BY <1>3
    <3>. QED BY <3>1 DEF Charges
  <2>2. PICK g \in [Addr -> Int], h \in [Addr -> Int] : g = Charges /\ h = Charges'
    BY <2>1, ChargesType
  <2>3. /\ Sums(f, g) /\ h[b] = g[b] + d
        /\ \A a \in Addr : a # b => h[a] = g[a]
    BY <2>2, <1>1
  <2>4. \E e \in [0 .. BufferSize -> Int] : Sums(e, h) /\ e[BufferSize] = f[BufferSize] + d
    BY <2>3, ChangeSum
  <2>. QED BY <2>2, <2>4
<1>5. BufferSize \in Nat \ {0} /\ SizeMod \in Nat \ {0}
  BY BufferSizeType, ModAssumption
<1>6. e[BufferSize] \in Int /\ f[BufferSize] \in Int /\ BufferSize \div 2 \in Int
  BY <1>5
<1>7. PICK x \in Int, y \in Int, z \in Int :
        x = f[BufferSize] /\ y = BufferSize \div 2 /\ z = free_async_space
  BY <1>6, <1>5 DEF TypeOK
<1>8. SizeMod * (v + w) = SizeMod * v + SizeMod * w /\ v + w \in Int
  BY <1>5
<1>9. z = y - x + SizeMod * v
  BY <1>1, <1>7
<1>10. free_async_space' = z - d + SizeMod * w
  BY <1>2, <1>7
<1>11. e[BufferSize] = x + d
  BY <1>4, <1>7
<1>12. free_async_space' = y - (x + d) + SizeMod * (v + w)
  <2>1. PICK i \in Int, j \in Int : i = SizeMod * v /\ j = SizeMod * w
    BY <1>5
  <2>2. free_async_space' = y - x + i - d + j /\ SizeMod * (v + w) = i + j
    BY <2>1, <1>8, <1>9, <1>10
  <2>. QED BY <2>1, <2>2
<1>13. free_async_space' = (BufferSize \div 2) - e[BufferSize] + SizeMod * (v + w)
  BY <1>7, <1>11, <1>12
<1>14. Sums(e, Charges)'
  BY <1>4 DEF Sums
<1>. QED BY <1>8, <1>13, <1>14 DEF BudgetInv

\* A step that charges and credits nothing.
LEMMA QuietCharges ==
  ASSUME TypeOK, BudgetInv, Mapped' => Mapped, free_async_space' = free_async_space,
         \A a \in Addr : ChargeAt(a)' = ChargeAt(a)
  PROVE  BudgetInv'
<1>1. Charges' = Charges
  BY DEF Charges
<1>. QED BY <1>1 DEF BudgetInv, Sums

\* An allocation takes the charge of its buffer, if that is asynchronous.
LEMMA NewBufBudget ==
  ASSUME TypeOK, List(st, nxt, prv), TreeInv, BudgetInv, Mapped,
         NEW r \in Requests, NEW async \in BOOLEAN, NEW b \in Addr,
         NewBuf(r, async, b)
  PROVE  BudgetInv'
<1>1. /\ st[b] = "free"
      /\ \A c \in Addr : st'[c] = "busy" <=> c = b \/ st[c] = "busy"
  BY NewBufEffect
<1>2. /\ buf'[b].req = r /\ buf'[b].async = async
      /\ \A c \in Addr : c # b => buf'[c] = buf[c]
  BY DEF NewBuf, TypeOK
<1>3. PICK d \in Int : d = IF async THEN AsyncCharge(r) ELSE 0
  <2>1. AsyncCharge(r) \in Int
    BY SizesType, HdrAssumption DEF AsyncCharge
  <2>. QED BY <2>1
<1>4. Charges'[b] = Charges[b] + d
  <2>1. Charges[b] = 0
    BY <1>1 DEF Charges, ChargeAt
  <2>2. Charges'[b] = d
    BY <1>1, <1>2, <1>3 DEF Charges, ChargeAt, AsyncCharge, PaddedSize
  <2>. QED BY <2>1, <2>2
<1>5. \A a \in Addr : a # b => Charges'[a] = Charges[a]
  BY <1>1, <1>2 DEF Charges, ChargeAt
<1>6. free_async_space \in Int /\ SizeMod \in Nat \ {0}
  BY ModAssumption DEF TypeOK
<1>7. \E w \in Int : free_async_space' = free_async_space - d + SizeMod * w
  <2>1. CASE async
    <3>1. free_async_space' = (free_async_space - d) % SizeMod
      BY <2>1, <1>3 DEF NewBuf
    <3>2. PICK a \in Int : a = free_async_space - d
      BY <1>6
    <3>3. \E w \in Int : a % SizeMod = a + SizeMod * w
      BY ModSteps
    <3>. QED BY <3>1, <3>2, <3>3
  <2>2. CASE ~async
    <3>1. free_async_space' = free_async_space /\ d = 0
      BY <2>2, <1>3 DEF NewBuf
    <3>2. free_async_space' = free_async_space - d + SizeMod * 0
      BY <3>1, <1>6
    <3>. QED BY <3>2
  <2>. QED BY <2>1, <2>2
<1>. QED BY <1>4, <1>5, <1>7, ChargeStep

\* Freeing an asynchronous buffer gives back what it was charged.
LEMMA FreeBudget ==
  ASSUME NoEmptyRequest, TypeOK, List(st, nxt, prv), FitInv, BudgetInv, Mapped,
         NEW b \in Addr, st[b] = "busy", FreeBufLocked(b)
  PROVE  BudgetInv'
<1>1. \A c \in Addr : st'[c] = "busy" <=> c # b /\ st[c] = "busy"
  BY FreeEffect
<1>2. \A c \in Addr : c # b => buf'[c] = buf[c]
  BY DEF FreeBufLocked, TypeOK
<1>3. PICK r \in Requests : r = buf[b].req /\ ValidSizes(r)
  BY DEF FitInv
<1>4. AsyncCharge(r) = AsyncCredit(r) /\ AsyncCharge(r) \in Int
  BY <1>3, ChargeCredit
<1>5. PICK d \in Int : d = IF buf[b].async THEN AsyncCharge(r) ELSE 0
  BY <1>4
<1>6. 0 - d \in Int /\ Charges'[b] = Charges[b] + (0 - d)
  <2>1. Charges[b] = d
    BY <1>3, <1>5 DEF Charges, ChargeAt
  <2>2. Charges'[b] = 0
    BY <1>1 DEF Charges, ChargeAt
  <2>. QED BY <2>1, <2>2
<1>7. \A a \in Addr : a # b => Charges'[a] = Charges[a]
  BY <1>1, <1>2 DEF Charges, ChargeAt
<1>8. free_async_space \in Int /\ SizeMod \in Nat \ {0}
  BY ModAssumption DEF TypeOK
<1>9. \E w \in Int : free_async_space' = free_async_space - (0 - d) + SizeMod * w
  <2>1. CASE buf[b].async
    <3>1. free_async_space' = (free_async_space + d) % SizeMod
      BY <2>1, <1>3, <1>4, <1>5 DEF FreeBufLocked
    <3>2. PICK a \in Int : a = free_async_space + d
      BY <1>8
    <3>3. PICK w \in Int : a % SizeMod = a + SizeMod * w
      BY ModSteps
    <3>4. a = free_async_space - (0 - d)
      BY <3>2, <1>8
    <3>. QED BY <3>1, <3>2, <3>3, <3>4
  <2>2. CASE ~buf[b].async
    <3>1. free_async_space' = free_async_space /\ d = 0
      BY <2>2, <1>5 DEF FreeBufLocked
    <3>2. free_async_space' = free_async_space - (0 - d) + SizeMod * 0
      BY <3>1, <1>8
    <3>. QED BY <3>2
  <2>. QED BY <2>1, <2>2
<1>10. PICK x \in Int : x = 0 - d
  BY <1>6
<1>. QED BY <1>6, <1>7, <1>9, <1>10, ChargeStep

\* Every step keeps the books.
LEMMA NextBudget ==
  ASSUME NoEmptyRequest
  PROVE  BInv /\ BudgetInv /\ [Next]_vars => BudgetInv'
<1> SUFFICES ASSUME BInv, BudgetInv, [Next]_vars PROVE BudgetInv'
  OBVIOUS
<1>0. TypeOK /\ TreeInv /\ FitInv /\ ListInv
  BY DEF BInv, IInv
<1>1. ASSUME Mapped' => Mapped, UNCHANGED <<st, buf, free_async_space>> PROVE BudgetInv'
  <2>1. \A a \in Addr : ChargeAt(a)' = ChargeAt(a)
    BY <1>1 DEF ChargeAt
  <2>. QED BY <2>1, <1>0, <1>1, QuietCharges
<1>2. CASE MmapReserve \/ MmapFail \/ VmaClose \/ ReleaseStart \/ UNCHANGED vars
  BY <1>1, <1>2 DEF MmapReserve, MmapFail, VmaClose, ReleaseStart, vars, listVars, Mapped
<1>3. CASE MmapFinish
  <2>1. \A c \in Addr : st'[c] # "busy"
    <3>1. \A c \in Addr : st[c] = "absent"
      BY <1>0, <1>3 DEF MmapFinish, ListInv, Mapped
    <3>. QED BY <3>1, <1>0, <1>3 DEF MmapFinish, TypeOK
  <2>2. \A a \in Addr : Charges'[a] = 0
    BY <2>1 DEF Charges, ChargeAt
  <2> DEFINE f == [n \in 0 .. BufferSize |-> 0]
  <2>3. f \in [0 .. BufferSize -> Int] /\ f[BufferSize] = 0 /\ Sums(f, Charges')
    BY <2>2, BufferSizeType DEF Sums, Addr
  <2>4. free_async_space' = (BufferSize \div 2) - f[BufferSize] + SizeMod * 0
    BY <2>3, <1>3, BufferSizeType, ModAssumption DEF MmapFinish
  <2> HIDE DEF f
  <2>5. \E g \in [0 .. BufferSize -> Int], w \in Int :
          /\ Sums(g, Charges')
          /\ free_async_space' = (BufferSize \div 2) - g[BufferSize] + SizeMod * w
    <3>1. PICK z \in Int : z = 0
      OBVIOUS
    <3>2. free_async_space' = (BufferSize \div 2) - f[BufferSize] + SizeMod * z
      BY <3>1, <2>4
    <3>. QED BY <3>2, <2>3
  <2>. QED BY <2>5 DEF BudgetInv, Sums
<1>4. ASSUME NEW p \in Pages, ShrinkPage(p) PROVE BudgetInv'
  BY <1>1, <1>4 DEF ShrinkPage, listVars, Mapped
<1>5. ASSUME NEW r \in Requests, NEW async \in BOOLEAN, NEW b \in Addr, NewBuf(r, async, b)
      PROVE  BudgetInv'
  <2>1. Mapped /\ List(st, nxt, prv)
    BY <1>0, <1>5 DEF NewBuf, CanAllocate, Mapped, ListInv
  <2>. QED BY <1>0, <1>5, <2>1, NewBufBudget
<1>6. ASSUME NEW r \in Requests, NEW async \in BOOLEAN, NEW b \in Addr, NEW k \in Pages,
             NewBufPageFails(r, async, b, k)
      PROVE  BudgetInv'
  BY <1>1, <1>6 DEF NewBufPageFails, listVars, Mapped
<1>7. ASSUME NEW r \in Requests, NEW async \in BOOLEAN, NEW b \in Addr,
             NewBufStructFails(r, async, b)
      PROVE  BudgetInv'
  BY <1>1, <1>7 DEF NewBufStructFails, listVars, Mapped
<1>8. ASSUME NEW b \in Addr, Deliver(b) PROVE BudgetInv'
  <2>1. \A c \in Addr : buf'[c].req = buf[c].req /\ buf'[c].async = buf[c].async
    BY <1>0, <1>8 DEF Deliver, TypeOK, Buffer
  <2>2. st' = st /\ free_async_space' = free_async_space /\ (Mapped' => Mapped)
    BY <1>8 DEF Deliver, listVars, Mapped
  <2>3. \A a \in Addr : ChargeAt(a)' = ChargeAt(a)
    BY <2>1, <2>2 DEF ChargeAt
  <2>. QED BY <2>2, <2>3, <1>0, QuietCharges
<1>9. ASSUME NEW t \in Threads, NEW b \in Addr, PrepareToFree(t, b) PROVE BudgetInv'
  <2>1. \A c \in Addr : buf'[c].req = buf[c].req /\ buf'[c].async = buf[c].async
    BY <1>0, <1>9 DEF PrepareToFree, TypeOK, Buffer
  <2>2. st' = st /\ free_async_space' = free_async_space /\ (Mapped' => Mapped)
    BY <1>9 DEF PrepareToFree, listVars, Mapped
  <2>3. \A a \in Addr : ChargeAt(a)' = ChargeAt(a)
    BY <2>1, <2>2 DEF ChargeAt
  <2>. QED BY <2>2, <2>3, <1>0, QuietCharges
<1>10. ASSUME NEW b \in Addr, KernelFree(b) \/ ReleaseBuffer(b) PROVE BudgetInv'
  <2>1. Mapped /\ List(st, nxt, prv) /\ st[b] = "busy" /\ FreeBufLocked(b)
    BY <1>0, <1>10 DEF KernelFree, ReleaseBuffer, Mapped, ListInv
  <2>. QED BY <1>0, <2>1, FreeBudget
<1>11. ASSUME NEW t \in Threads, UserFree(t) PROVE BudgetInv'
  <2>1. freeing[t] \in Addr /\ st[freeing[t]] = "busy" /\ Mapped
    BY <1>11 DEF UserFree, BInv, IInv, TypeOK, ClaimInv, ClaimExclusive, Mapped
  <2>2. FreeBufLocked(freeing[t]) /\ List(st, nxt, prv)
    BY <1>0, <1>11, <2>1 DEF UserFree, ListInv
  <2>. QED BY <1>0, <2>1, <2>2, FreeBudget
<1>12. CASE ReleaseFinish \/ AllocInit
  BY <1>12 DEF ReleaseFinish, AllocInit, BudgetInv, Mapped
<1>. QED BY <1>2, <1>3, <1>4, <1>5, <1>6, <1>7, <1>8, <1>9, <1>10, <1>11, <1>12
         DEF Next, Alloc

\* The books give the property: no asynchronous buffer, no charge.
LEMMA BudgetImplies == BInv /\ BudgetInv => AsyncConserved
<1> SUFFICES ASSUME BInv, BudgetInv, Mapped,
                    \A b \in Addr : st[b] = "busy" => ~buf[b].async
             PROVE  free_async_space = BufferSize \div 2
  BY DEF AsyncConserved
<1>1. PICK f \in [0 .. BufferSize -> Int], w \in Int :
        /\ Sums(f, Charges)
        /\ free_async_space = (BufferSize \div 2) - f[BufferSize] + SizeMod * w
  BY DEF BudgetInv
<1>2. \A a \in Addr : Charges[a] = 0
  BY DEF Charges, ChargeAt
<1>3. f[BufferSize] = 0
  BY <1>1, <1>2, ZeroSum
<1>4. BufferSize \in Nat \ {0} /\ SizeMod \in Nat \ {0} /\ BufferSize < SizeMod
  BY BufferSizeType, ModAssumption DEF BufferSize
<1>5. PICK h \in Int : h = BufferSize \div 2 /\ 0 <= h /\ h < SizeMod
  BY <1>4
<1>6. free_async_space \in 0 .. SizeMod - 1
  BY DEF BInv, IInv, TypeOK
<1>7. PICK i \in Int : i = SizeMod * w /\ free_async_space = h + i
  BY <1>1, <1>3, <1>4, <1>5
<1>8. w = 0
  <2>1. CASE w >= 1
    <3>1. SizeMod * w >= SizeMod * 1
      BY <2>1, <1>4
    <3>. QED BY <3>1, <1>4, <1>5, <1>6, <1>7
  <2>2. CASE w <= 0 - 1
    <3>1. SizeMod * w <= SizeMod * (0 - 1)
      BY <2>2, <1>4
    <3>. QED BY <3>1, <1>4, <1>5, <1>6, <1>7
  <2>. QED BY <2>1, <2>2
<1>. QED BY <1>4, <1>5, <1>7, <1>8

\* With requests of at least a byte the search is right and the asynchronous
\* budget is whole again whenever no asynchronous buffer is left, through any
\* wrap of the counter.
THEOREM AllocCorrect == ASSUME NoEmptyRequest PROVE Spec => []AllocSound
<1>1. Init => BInv /\ BudgetInv
  BY InitBInv DEF Init, BudgetInv, Mapped
<1>2. BInv /\ BudgetInv /\ [Next]_vars => (BInv /\ BudgetInv)'
  BY NextBInv, NextBudget
<1>3. BInv /\ BudgetInv => AllocSound
  BY BInvImplies, BudgetImplies DEF SearchSound, AllocSound
<1>. QED BY <1>1, <1>2, <1>3, PTL DEF Spec
=============================================================================
