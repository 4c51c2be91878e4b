------------------------ MODULE BatteryServiceProofs ------------------------
(***************************************************************************)
(* Proofs about BatteryService, for all reports, settings and shell        *)
(* commands, levels of warning and sizes of the queue of level changes.    *)
(*                                                                         *)
(* What receivers will know when the posts of the handler are through is   *)
(* kept in step with mLast..., here snap, and so with what is reported.    *)
(***************************************************************************)
EXTENDS BatteryService, SequenceTheorems, TLAPS

(***************************************************************************)
(* Posts                                                                   *)
(***************************************************************************)
Snap == [info : Report \cup {FirstInfo}, invalid : BOOLEAN]
Post == [to : {"shutdown"}] \cup [to : {"power", "low"}, on : BOOLEAN]
          \cup [to : {"changed"}, what : Snap]
Value(m) == IF m.to = "changed" THEN m.what ELSE m.on

\* A receiver of posts of kind k that knows h now knows v after the posts s.
Tells(s, k, h, v) ==
  /\ \A i \in 1 .. Len(s) :
       s[i].to = k /\ (\A j \in 1 .. Len(s) : i < j => s[j].to # k) => Value(s[i]) = v
  /\ (\A i \in 1 .. Len(s) : s[i].to # k) => h = v

LEMMA TellsNothing == \A k : \A h : Tells(<<>>, k, h, h)
  BY DEF Tells

LEMMA TellsOne ==
  ASSUME NEW m \in Post, NEW k
  PROVE  /\ m.to = k => \A h : Tells(<<m>>, k, h, Value(m))
         /\ m.to # k => \A h : Tells(<<m>>, k, h, h)
<1>1. Len(<<m>>) = 1 /\ <<m>>[1] = m
  OBVIOUS
<1> QED BY <1>1 DEF Tells

LEMMA TellsBoth ==
  ASSUME NEW s \in Seq(Post), NEW t \in Seq(Post), NEW k, NEW h, NEW v, NEW w,
         Tells(s, k, h, v), Tells(t, k, v, w)
  PROVE  Tells(s \o t, k, h, w)
<1> DEFINE u == s \o t
<1>1. /\ Len(u) = Len(s) + Len(t) /\ Len(s) \in Nat /\ Len(t) \in Nat
      /\ \A i \in 1 .. Len(s) : u[i] = s[i]
      /\ \A i \in 1 .. Len(t) : u[Len(s) + i] = t[i]
  BY ConcatProperties
<1> HIDE DEF u
<1>2. ASSUME NEW i \in 1 .. Len(u), u[i].to = k, \A j \in 1 .. Len(u) : i < j => u[j].to # k
      PROVE  Value(u[i]) = w
  <2>1. CASE i > Len(s)
    <3>1. PICK l \in 1 .. Len(t) : i = Len(s) + l
      <4>1. i - Len(s) \in 1 .. Len(t) /\ i = Len(s) + (i - Len(s))
        BY <1>1, <2>1
      <4> QED BY <4>1
    <3>2. u[i] = t[l]
      BY <1>1, <3>1
    <3>3. \A j \in 1 .. Len(t) : l < j => t[j].to # k
      <4> SUFFICES ASSUME NEW j \in 1 .. Len(t), l < j PROVE t[j].to # k
        OBVIOUS
      <4>1. Len(s) + j \in 1 .. Len(u) /\ i < Len(s) + j
        BY <1>1, <3>1
      <4>2. u[Len(s) + j].to # k
        BY <1>2, <4>1
      <4> QED BY <1>1, <4>2
    <3> QED BY <1>2, <3>2, <3>3 DEF Tells
  <2>2. CASE i <= Len(s)
    <3>1. i \in 1 .. Len(s) /\ u[i] = s[i]
      BY <1>1, <2>2
    <3>2. \A j \in 1 .. Len(s) : i < j => s[j].to # k
      BY <1>1, <1>2
    <3>3. \A j \in 1 .. Len(t) : t[j].to # k
      <4> SUFFICES ASSUME NEW j \in 1 .. Len(t) PROVE t[j].to # k
        OBVIOUS
      <4>1. Len(s) + j \in 1 .. Len(u) /\ i < Len(s) + j
        BY <1>1, <2>2
      <4>2. u[Len(s) + j].to # k
        BY <1>2, <4>1
      <4> QED BY <1>1, <4>2
    <3>4. v = w
      BY <3>3 DEF Tells
    <3> QED BY <1>2, <3>1, <3>2, <3>4 DEF Tells
  <2> QED BY <1>1, <2>1, <2>2
<1>3. ASSUME \A i \in 1 .. Len(u) : u[i].to # k PROVE h = w
  <2>1. \A i \in 1 .. Len(s) : s[i].to # k
    BY <1>1, <1>3
  <2>2. \A i \in 1 .. Len(t) : t[i].to # k
    <3> SUFFICES ASSUME NEW j \in 1 .. Len(t) PROVE t[j].to # k
      OBVIOUS
    <3>1. Len(s) + j \in 1 .. Len(u)
      BY <1>1
    <3> QED BY <1>1, <1>3, <3>1
  <2> QED BY <2>1, <2>2 DEF Tells
<1>4. Tells(u, k, h, w)
  BY <1>2, <1>3 DEF Tells
<1> QED BY <1>4 DEF u

LEMMA TellsTail ==
  ASSUME NEW s \in Seq(Post), s # <<>>, NEW k, NEW h, NEW v, Tells(s, k, h, v)
  PROVE  Tells(Tail(s), k, IF Head(s).to = k THEN Value(Head(s)) ELSE h, v)
<1>1. /\ Len(s) \in Nat /\ Len(s) >= 1 /\ Len(Tail(s)) = Len(s) - 1 /\ Head(s) = s[1]
      /\ \A i \in 1 .. Len(Tail(s)) : Tail(s)[i] = s[i + 1]
  OBVIOUS
<1>2. ASSUME NEW i \in 1 .. Len(Tail(s)), Tail(s)[i].to = k,
             \A j \in 1 .. Len(Tail(s)) : i < j => Tail(s)[j].to # k
      PROVE  Value(Tail(s)[i]) = v
  <2>1. i + 1 \in 1 .. Len(s) /\ Tail(s)[i] = s[i + 1]
    BY <1>1
  <2>2. ASSUME NEW j \in 1 .. Len(s), i + 1 < j PROVE s[j].to # k
    <3>1. PICK l \in 1 .. Len(Tail(s)) : j = l + 1
      <4>1. j - 1 \in 1 .. Len(Tail(s)) /\ j = (j - 1) + 1
        BY <1>1, <2>2
      <4> QED BY <4>1
    <3>2. i < l
      BY <2>2, <3>1
    <3> QED BY <1>1, <1>2, <3>1, <3>2
  <2> QED BY <1>2, <2>1, <2>2 DEF Tells
<1>3. ASSUME \A i \in 1 .. Len(Tail(s)) : Tail(s)[i].to # k
      PROVE  (IF Head(s).to = k THEN Value(Head(s)) ELSE h) = v
  <2>1. ASSUME NEW j \in 1 .. Len(s), 1 < j PROVE s[j].to # k
    <3>1. PICK l \in 1 .. Len(Tail(s)) : j = l + 1
      <4>1. j - 1 \in 1 .. Len(Tail(s)) /\ j = (j - 1) + 1
        BY <1>1, <2>1
      <4> QED BY <4>1
    <3> QED BY <1>1, <1>3, <3>1
  <2>2. 1 \in 1 .. Len(s)
    BY <1>1
  <2>3. CASE s[1].to = k
    BY <1>1, <2>1, <2>2, <2>3 DEF Tells
  <2>4. CASE s[1].to # k
    <3>1. \A i \in 1 .. Len(s) : s[i].to # k
      BY <2>1, <2>4
    <3> QED BY <1>1, <2>4, <3>1 DEF Tells
  <2> QED BY <2>3, <2>4
<1> QED BY <1>2, <1>3 DEF Tells

(***************************************************************************)
(* processValuesLocked                                                     *)
(***************************************************************************)
Leds == {"red", "flash", "green", "orange", "off"}
Bat == [info : Report, invalid : BOOLEAN, last : Report \cup {FirstInfo}, stopped : BOOLEAN,
        snap : Snap, levelLow : BOOLEAN, sentLow : BOOLEAN, warn : Nat, led : Leds,
        posts : Seq(Post), queue : Seq(Nat), sends : Nat]

LEMMA ReportFacts ==
  ASSUME NEW h \in Report
  PROVE  /\ h.plug \in Plugs /\ h.status \in Statuses /\ h.level \in Nat
         /\ h.lowVolt \in BOOLEAN /\ h.hot \in BOOLEAN
         /\ h # FirstInfo /\ h.plug # "first"
<1>1. h.plug \in Plugs /\ FirstInfo.plug = "first" /\ "first" \notin Plugs
  BY DEF Report, FirstInfo, Plugs, NONE
<1> QED BY <1>1 DEF Report

LEMMA SnapFacts == ASSUME NEW s \in Snap PROVE s.info.level \in Nat
  BY DEF Snap, Report, FirstInfo

LEMMA ShownFacts ==
  ASSUME NEW b \in Bat
  PROVE  /\ Shown(b) \in Snap /\ Shown(b).info = b.info /\ Shown(b).invalid = b.invalid
         /\ b.snap = Shown(b) => b.snap.info = b.info /\ b.snap.invalid = b.invalid
  BY DEF Shown, Snap, Bat

\* Nothing of the batch of requests is a broadcast.
LEMMA ShutdownPosts ==
  ASSUME NEW h \in Report
  PROVE  /\ Shutdowns(h) \in Seq(Post)
         /\ \A i \in 1 .. Len(Shutdowns(h)) : Shutdowns(h)[i].to = "shutdown"
         /\ NoPower(h) => Len(Shutdowns(h)) > 0
<1> DEFINE m == [to |-> "shutdown"]
           a == IF NoPower(h) THEN <<m>> ELSE <<>>
           b == IF h.hot THEN <<m>> ELSE <<>>
<1>1. m \in Post /\ m.to = "shutdown"
  BY DEF Post
<1>2. Shutdowns(h) = a \o b
  BY DEF Shutdowns
<1> HIDE DEF m
<1>3. /\ a \in Seq(Post) /\ \A i \in 1 .. Len(a) : a[i].to = "shutdown"
      /\ NoPower(h) => Len(a) = 1
  <2>1. CASE NoPower(h)
    BY <1>1, <2>1
  <2>2. CASE ~ NoPower(h)
    BY <2>2
  <2> QED BY <2>1, <2>2
<1>4. b \in Seq(Post) /\ \A i \in 1 .. Len(b) : b[i].to = "shutdown"
  <2>1. CASE h.hot
    BY <1>1, <2>1
  <2>2. CASE ~ h.hot
    BY <2>2
  <2> QED BY <2>1, <2>2
<1> HIDE DEF a, b
<1>5. /\ a \o b \in Seq(Post) /\ Len(a \o b) = Len(a) + Len(b)
      /\ \A i \in 1 .. Len(a) : (a \o b)[i] = a[i]
      /\ \A i \in 1 .. Len(b) : (a \o b)[Len(a) + i] = b[i]
  BY <1>3, <1>4, ConcatProperties
<1>6. ASSUME NEW i \in 1 .. Len(a \o b) PROVE (a \o b)[i].to = "shutdown"
  <2>1. CASE i <= Len(a)
    BY <1>3, <1>5, <2>1
  <2>2. CASE i > Len(a)
    <3>1. i - Len(a) \in 1 .. Len(b) /\ i = Len(a) + (i - Len(a))
      BY <1>3, <1>4, <1>5, <2>2
    <3>2. PICK l \in 1 .. Len(b) : i = Len(a) + l
      BY <3>1
    <3> QED BY <1>4, <1>5, <3>2
  <2> QED BY <1>3, <2>1, <2>2
<1>7. NoPower(h) => Len(a \o b) > 0
  BY <1>3, <1>4, <1>5
<1> QED BY <1>2, <1>5, <1>6, <1>7

LEMMA ShutdownsTell ==
  ASSUME NEW h \in Report, NEW k, k # "shutdown", NEW v
  PROVE  Tells(Shutdowns(h), k, v, v)
  BY ShutdownPosts DEF Tells

\* The broadcasts of b take what receivers know from its snap to its info.
LEMMA BroadcastsTell ==
  ASSUME NEW b \in Bat
  PROVE  LET out == Broadcasts(b) IN
         /\ out.posts \in Seq(Post) /\ out.sentLow \in BOOLEAN
         /\ Tells(out.posts, "changed", b.snap, Shown(b))
         /\ Tells(out.posts, "power", b.snap.info.plug # NONE, b.info.plug # NONE)
         /\ Tells(out.posts, "low", b.sentLow, out.sentLow)
<1> DEFINE low == shouldSendBatteryLowLocked(b)
           okay == ~ low /\ b.sentLow /\ b.info.level >= closeLevel(b)
           sent == low \/ (b.sentLow /\ ~ okay)
           Pw(on) == [to |-> "power", on |-> on]
           Lw(on) == [to |-> "low", on |-> on]
           c == [to |-> "changed", what |-> Shown(b)]
           P == IF b.info.plug # NONE /\ b.snap.info.plug = NONE THEN <<Pw(TRUE)>>
                ELSE IF b.info.plug = NONE /\ b.snap.info.plug # NONE THEN <<Pw(FALSE)>> ELSE <<>>
           L == IF low THEN <<Lw(TRUE)>> ELSE IF okay THEN <<Lw(FALSE)>> ELSE <<>>
<1>1. Broadcasts(b).posts = P \o L \o <<c>> /\ Broadcasts(b).sentLow = sent
  BY DEF Broadcasts
<1>2. /\ \A on \in BOOLEAN : Pw(on) \in Post /\ Pw(on).to = "power" /\ Value(Pw(on)) = on
      /\ \A on \in BOOLEAN : Lw(on) \in Post /\ Lw(on).to = "low" /\ Value(Lw(on)) = on
      /\ c \in Post /\ c.to = "changed" /\ Value(c) = Shown(b)
  BY ShownFacts DEF Post, Value
<1>3. PICK was \in BOOLEAN, is \in BOOLEAN : was = (b.snap.info.plug # NONE) /\ is = (b.info.plug # NONE)
  OBVIOUS
<1>4. PICK new \in BOOLEAN : new = sent
  OBVIOUS
<1>5. PICK old \in BOOLEAN : old = b.sentLow
  BY DEF Bat
<1> HIDE DEF Pw, Lw, c
<1>p. \/ P = <<Pw(TRUE)>> /\ is = TRUE
      \/ P = <<Pw(FALSE)>> /\ is = FALSE
      \/ P = <<>> /\ was = is
  BY <1>3
<1>l. \/ L = <<Lw(TRUE)>> /\ new = TRUE
      \/ L = <<Lw(FALSE)>> /\ new = FALSE
      \/ L = <<>> /\ new = old
  BY <1>4, <1>5
<1> HIDE DEF P, L, low, okay
<1>t. TRUE \in BOOLEAN /\ FALSE \in BOOLEAN
  OBVIOUS
<1>q. P \in Seq(Post) /\ L \in Seq(Post) /\ <<c>> \in Seq(Post)
  <2>1. <<>> \in Seq(Post) /\ \A m \in Post : <<m>> \in Seq(Post)
    OBVIOUS
  <2> QED BY <1>p, <1>l, <1>2, <1>t, <2>1, Zenon
<1>6. Tells(P, "power", was, is) /\ \A v : Tells(P, "low", v, v) /\ Tells(P, "changed", v, v)
  <2>1. CASE P = <<Pw(TRUE)>> /\ is = TRUE
    <3>1. Pw(TRUE) \in Post /\ Pw(TRUE).to = "power" /\ Value(Pw(TRUE)) = TRUE
      BY <1>2, <1>t, Zenon
    <3> QED BY <2>1, <3>1, TellsOne, Zenon
  <2>2. CASE P = <<Pw(FALSE)>> /\ is = FALSE
    <3>1. Pw(FALSE) \in Post /\ Pw(FALSE).to = "power" /\ Value(Pw(FALSE)) = FALSE
      BY <1>2, <1>t, Zenon
    <3> QED BY <2>2, <3>1, TellsOne, Zenon
  <2>3. CASE P = <<>> /\ was = is
    BY <2>3, TellsNothing, Zenon
  <2> QED BY <1>p, <2>1, <2>2, <2>3, Zenon
<1>7. Tells(L, "low", old, new) /\ \A v : Tells(L, "power", v, v) /\ Tells(L, "changed", v, v)
  <2>1. CASE L = <<Lw(TRUE)>> /\ new = TRUE
    <3>1. Lw(TRUE) \in Post /\ Lw(TRUE).to = "low" /\ Value(Lw(TRUE)) = TRUE
      BY <1>2, <1>t, Zenon
    <3> QED BY <2>1, <3>1, TellsOne, Zenon
  <2>2. CASE L = <<Lw(FALSE)>> /\ new = FALSE
    <3>1. Lw(FALSE) \in Post /\ Lw(FALSE).to = "low" /\ Value(Lw(FALSE)) = FALSE
      BY <1>2, <1>t, Zenon
    <3> QED BY <2>2, <3>1, TellsOne, Zenon
  <2>3. CASE L = <<>> /\ new = old
    BY <2>3, TellsNothing, Zenon
  <2> QED BY <1>l, <2>1, <2>2, <2>3, Zenon
<1>8. /\ \A v : Tells(<<c>>, "power", v, v) /\ Tells(<<c>>, "low", v, v)
      /\ Tells(<<c>>, "changed", b.snap, Shown(b))
  <2>1. c \in Post /\ c.to = "changed" /\ Value(c) = Shown(b)
    BY <1>2, Zenon
  <2> QED BY <2>1, TellsOne, Zenon
<1>9. P \o L \in Seq(Post) /\ (P \o L) \o <<c>> \in Seq(Post)
  BY <1>q, ConcatProperties
<1>10. Tells(P \o L, "power", was, is)
  BY <1>q, <1>6, <1>7, TellsBoth, Zenon
<1>11. Tells(P \o L, "low", old, new)
  BY <1>q, <1>6, <1>7, TellsBoth, Zenon
<1>12. Tells(P \o L, "changed", b.snap, b.snap)
  BY <1>q, <1>6, <1>7, TellsBoth, Zenon
<1>13. Tells((P \o L) \o <<c>>, "power", was, is)
  BY <1>8, <1>9, <1>10, <1>q, TellsBoth, Zenon
<1>14. Tells((P \o L) \o <<c>>, "low", old, new)
  BY <1>8, <1>9, <1>11, <1>q, TellsBoth, Zenon
<1>15. Tells((P \o L) \o <<c>>, "changed", b.snap, Shown(b))
  BY <1>8, <1>9, <1>12, <1>q, TellsBoth, Zenon
<1> QED BY <1>1, <1>3, <1>4, <1>5, <1>9, <1>13, <1>14, <1>15

LEMMA EnqueuedFacts ==
  ASSUME NEW q \in Seq(Nat), Len(q) <= MaxQueue, NEW l \in Nat
  PROVE  LET e == Enqueued(q, l) IN
         e \in Seq(Nat) /\ e # <<>> /\ Len(e) <= MaxQueue /\ Last(e) = l
<1> DEFINE longer == Append(q, l)
<1>0. MaxQueue \in Nat /\ MaxQueue > 0
  BY ServiceAssumption
<1>1. /\ longer \in Seq(Nat) /\ Len(longer) = Len(q) + 1 /\ longer[Len(q) + 1] = l
      /\ Len(q) \in Nat
  OBVIOUS
<1> HIDE DEF longer
<1>2. CASE Len(longer) > MaxQueue
  <2>1. Enqueued(q, l) = Tail(longer)
    BY <1>2 DEF Enqueued, longer
  <2>2. Len(Tail(longer)) = Len(q) /\ Len(q) = MaxQueue /\ Tail(longer) \in Seq(Nat)
    BY <1>0, <1>1, <1>2
  <2>3. Tail(longer)[Len(q)] = longer[Len(q) + 1]
    BY <1>0, <1>1, <2>2
  <2>4. Tail(longer) # <<>>
    <3>1. \A t \in Seq(Nat) : Len(t) > 0 => t # <<>>
      OBVIOUS
    <3> QED BY <1>0, <2>2, <3>1
  <2> QED BY <1>0, <1>1, <2>1, <2>2, <2>3, <2>4 DEF Last
<1>3. CASE ~ (Len(longer) > MaxQueue)
  <2>1. Enqueued(q, l) = longer
    BY <1>3 DEF Enqueued, longer
  <2>2. longer # <<>> /\ Len(longer) <= MaxQueue
    BY <1>0, <1>1, <1>3
  <2> QED BY <1>1, <2>1, <2>2 DEF Last
<1> QED BY <1>2, <1>3

\* The parts of processValuesLocked, field by field.
LEMMA ShutFields ==
  ASSUME NEW b \in Bat
  PROVE  LET r == Shut(b) IN
         /\ r \in Bat /\ r.info = b.info /\ r.invalid = b.invalid /\ r.last = b.last
         /\ r.stopped = b.stopped /\ r.snap = b.snap /\ r.levelLow = b.levelLow
         /\ r.sentLow = b.sentLow /\ r.warn = b.warn /\ r.led = b.led
         /\ r.posts = b.posts \o Shutdowns(b.info) /\ r.queue = b.queue /\ r.sends = b.sends
<1> DEFINE sp == b.posts \o Shutdowns(b.info)
<1>1. sp \in Seq(Post)
  BY ShutdownPosts, ConcatProperties DEF Bat
<1>2. Shut(b) = [b EXCEPT !.posts = sp]
  BY DEF Shut
<1> HIDE DEF sp
<1>3. LET r == [b EXCEPT !.posts = sp] IN
      /\ r \in Bat /\ r.info = b.info /\ r.invalid = b.invalid /\ r.last = b.last
      /\ r.stopped = b.stopped /\ r.snap = b.snap /\ r.levelLow = b.levelLow
      /\ r.sentLow = b.sentLow /\ r.warn = b.warn /\ r.led = b.led
      /\ r.posts = sp /\ r.queue = b.queue /\ r.sends = b.sends
  BY <1>1 DEF Bat
<1> QED BY <1>2, <1>3 DEF sp

LEMMA AnnounceFields ==
  ASSUME NEW b \in Bat, NEW force \in BOOLEAN
  PROVE  LET r == Announce(b, force) IN
         /\ r \in Bat /\ r.info = b.info /\ r.invalid = b.invalid /\ r.last = b.last
         /\ r.stopped = b.stopped /\ r.snap = b.snap /\ r.levelLow = LowMode(b, force)
         /\ r.sentLow = Broadcasts(b).sentLow /\ r.warn = b.warn /\ r.led = b.led
         /\ r.posts = b.posts \o Broadcasts(b).posts /\ r.queue = b.queue /\ r.sends = b.sends
<1> DEFINE ll == LowMode(b, force)
           sl == Broadcasts(b).sentLow
           po == b.posts \o Broadcasts(b).posts
<1>1. ll \in BOOLEAN
  BY DEF LowMode
<1>2. sl \in BOOLEAN /\ po \in Seq(Post)
  BY BroadcastsTell, ConcatProperties DEF Bat
<1>3. Announce(b, force) = [b EXCEPT !.levelLow = ll, !.sentLow = sl, !.posts = po]
  BY DEF Announce
<1> HIDE DEF ll, sl, po
<1>4. LET r == [b EXCEPT !.levelLow = ll, !.sentLow = sl, !.posts = po] IN
      /\ r \in Bat /\ r.info = b.info /\ r.invalid = b.invalid /\ r.last = b.last
      /\ r.stopped = b.stopped /\ r.snap = b.snap /\ r.levelLow = ll
      /\ r.sentLow = sl /\ r.warn = b.warn /\ r.led = b.led
      /\ r.posts = po /\ r.queue = b.queue /\ r.sends = b.sends
  BY <1>1, <1>2 DEF Bat
<1> QED BY <1>3, <1>4 DEF ll, sl, po

\* The queue grows if the level or the plug moved.
Grown(b) == IF Moved(b) THEN Enqueue(b, b.queue = <<>>) ELSE b

LEMMA GrownFields ==
  ASSUME NEW b \in Bat, Len(b.queue) <= MaxQueue
  PROVE  LET r == Grown(b) IN
         /\ r \in Bat /\ r.info = b.info /\ r.invalid = b.invalid /\ r.last = b.last
         /\ r.stopped = b.stopped /\ r.snap = b.snap /\ r.levelLow = b.levelLow
         /\ r.sentLow = b.sentLow /\ r.warn = b.warn /\ r.led = b.led /\ r.posts = b.posts
         /\ r.queue = IF Moved(b) THEN Enqueued(b.queue, b.info.level) ELSE b.queue
         /\ r.sends = IF Moved(b) /\ b.queue = <<>> THEN b.sends + 1 ELSE b.sends
         /\ Len(r.queue) <= MaxQueue
<1>1. CASE ~ Moved(b)
  BY <1>1 DEF Grown
<1>2. CASE Moved(b)
  <2> DEFINE q == Enqueued(b.queue, b.info.level)
             n == IF b.queue = <<>> THEN b.sends + 1 ELSE b.sends
  <2>1. q \in Seq(Nat) /\ Len(q) <= MaxQueue
    BY EnqueuedFacts, ReportFacts DEF Bat
  <2>2. n \in Nat
    BY DEF Bat
  <2>3. Grown(b) = [b EXCEPT !.queue = q, !.sends = n]
    BY <1>2 DEF Grown, Enqueue
  <2>4. n = IF Moved(b) /\ b.queue = <<>> THEN b.sends + 1 ELSE b.sends
    BY <1>2
  <2> HIDE DEF q, n
  <2>5. LET r == [b EXCEPT !.queue = q, !.sends = n] IN
        /\ r \in Bat /\ r.info = b.info /\ r.invalid = b.invalid /\ r.last = b.last
        /\ r.stopped = b.stopped /\ r.snap = b.snap /\ r.levelLow = b.levelLow
        /\ r.sentLow = b.sentLow /\ r.warn = b.warn /\ r.led = b.led /\ r.posts = b.posts
        /\ r.queue = q /\ r.sends = n
    BY <2>1, <2>2 DEF Bat
  <2> QED BY <1>2, <2>1, <2>3, <2>4, <2>5 DEF q
<1> QED BY <1>1, <1>2

LEMMA SnapshotFields ==
  ASSUME NEW b \in Bat
  PROVE  LET r == Snapshot(b) IN
         /\ r \in Bat /\ r.info = b.info /\ r.invalid = b.invalid /\ r.last = b.last
         /\ r.stopped = b.stopped /\ r.snap = Shown(b) /\ r.levelLow = b.levelLow
         /\ r.sentLow = b.sentLow /\ r.warn = b.warn /\ r.led = updateLightsLocked(b.info, b.warn)
         /\ r.posts = b.posts /\ r.queue = b.queue /\ r.sends = b.sends
<1> DEFINE le == updateLightsLocked(b.info, b.warn)
           sh == Shown(b)
<1>1. le \in Leds
  BY DEF updateLightsLocked, Leds
<1>2. sh \in Snap
  BY ShownFacts
<1>3. Snapshot(b) = [b EXCEPT !.led = le, !.snap = sh]
  BY DEF Snapshot
<1> HIDE DEF le, sh
<1>4. LET r == [b EXCEPT !.led = le, !.snap = sh] IN
      /\ r \in Bat /\ r.info = b.info /\ r.invalid = b.invalid /\ r.last = b.last
      /\ r.stopped = b.stopped /\ r.snap = sh /\ r.levelLow = b.levelLow
      /\ r.sentLow = b.sentLow /\ r.warn = b.warn /\ r.led = le
      /\ r.posts = b.posts /\ r.queue = b.queue /\ r.sends = b.sends
  BY <1>1, <1>2 DEF Bat
<1> QED BY <1>3, <1>4 DEF le, sh

\* What is announced does not depend on the posts.
LEMMA SameAnnounced ==
  ASSUME NEW a, NEW b, NEW force, a.info = b.info, a.invalid = b.invalid, a.snap = b.snap,
         a.sentLow = b.sentLow, a.levelLow = b.levelLow, a.warn = b.warn
  PROVE  Broadcasts(a) = Broadcasts(b) /\ LowMode(a, force) = LowMode(b, force) /\ Moved(a) = Moved(b)
<1>1. /\ shouldSendBatteryLowLocked(a) = shouldSendBatteryLowLocked(b)
      /\ closeLevel(a) = closeLevel(b) /\ Shown(a) = Shown(b)
  BY DEF shouldSendBatteryLowLocked, closeLevel, Shown
<1>2. LowMode(a, force) = LowMode(b, force) /\ Moved(a) = Moved(b)
  BY <1>1 DEF LowMode, Moved
<1>3. Broadcasts(a) = Broadcasts(b)
  BY <1>1 DEF Broadcasts
<1> QED BY <1>2, <1>3

LEMMA ProcessFields ==
  ASSUME NEW b \in Bat, Len(b.queue) <= MaxQueue, NEW force \in BOOLEAN
  PROVE  LET r == processValuesLocked(b, force)
             h == b.info IN
         /\ r \in Bat /\ Len(r.queue) <= MaxQueue
         /\ r.info = h /\ r.invalid = b.invalid /\ r.last = b.last /\ r.stopped = b.stopped
         /\ r.warn = b.warn /\ r.snap = Shown(b)
         /\ \/ /\ ~ force /\ b.snap = Shown(b)
               /\ r.levelLow = b.levelLow /\ r.sentLow = b.sentLow /\ r.led = b.led
               /\ r.queue = b.queue /\ r.sends = b.sends
               /\ r.posts = b.posts \o Shutdowns(h)
            \/ /\ force \/ b.snap # Shown(b)
               /\ r.levelLow = LowMode(b, force) /\ r.sentLow = Broadcasts(b).sentLow
               /\ r.led = updateLightsLocked(h, b.warn)
               /\ r.queue = IF Moved(b) THEN Enqueued(b.queue, h.level) ELSE b.queue
               /\ r.sends = IF Moved(b) /\ b.queue = <<>> THEN b.sends + 1 ELSE b.sends
               /\ r.posts = (b.posts \o Shutdowns(h)) \o Broadcasts(b).posts
<1> DEFINE r == processValuesLocked(b, force)
           shut == Shut(b)
           told == Announce(shut, force)
           grown == Grown(told)
<1>1. /\ shut \in Bat /\ shut.info = b.info /\ shut.invalid = b.invalid /\ shut.last = b.last
      /\ shut.stopped = b.stopped /\ shut.snap = b.snap /\ shut.levelLow = b.levelLow
      /\ shut.sentLow = b.sentLow /\ shut.warn = b.warn /\ shut.led = b.led
      /\ shut.posts = b.posts \o Shutdowns(b.info) /\ shut.queue = b.queue /\ shut.sends = b.sends
  BY ShutFields
<1>2. CASE ~ force /\ ~ Changed(b)
  <2>1. r = shut
    BY <1>2 DEF processValuesLocked
  <2>2. b.snap = Shown(b)
    BY <1>2 DEF Changed
  <2> HIDE DEF r, shut
  <2>3. /\ r \in Bat /\ Len(r.queue) <= MaxQueue
        /\ r.info = b.info /\ r.invalid = b.invalid /\ r.last = b.last /\ r.stopped = b.stopped
        /\ r.warn = b.warn /\ r.snap = Shown(b)
        /\ r.levelLow = b.levelLow /\ r.sentLow = b.sentLow /\ r.led = b.led
        /\ r.queue = b.queue /\ r.sends = b.sends
        /\ r.posts = b.posts \o Shutdowns(b.info)
    BY <1>1, <2>1, <2>2
  <2> QED BY <1>2, <2>2, <2>3 DEF r
<1>3. CASE force \/ Changed(b)
  <2>1. r = Snapshot(grown)
    BY <1>3 DEF processValuesLocked, Grown
  <2>2. /\ Broadcasts(shut) = Broadcasts(b) /\ LowMode(shut, force) = LowMode(b, force)
        /\ Moved(shut) = Moved(b)
    <3> HIDE DEF shut
    <3> QED BY <1>1, SameAnnounced
  <2> HIDE DEF shut
  <2>3. /\ told \in Bat /\ told.info = b.info /\ told.invalid = b.invalid /\ told.last = b.last
        /\ told.stopped = b.stopped /\ told.snap = b.snap /\ told.levelLow = LowMode(b, force)
        /\ told.sentLow = Broadcasts(b).sentLow /\ told.warn = b.warn
        /\ told.posts = (b.posts \o Shutdowns(b.info)) \o Broadcasts(b).posts
        /\ told.queue = b.queue /\ told.sends = b.sends
    <3>1. /\ told \in Bat /\ told.info = shut.info /\ told.invalid = shut.invalid /\ told.last = shut.last
          /\ told.stopped = shut.stopped /\ told.snap = shut.snap
          /\ told.levelLow = LowMode(shut, force)
          /\ told.sentLow = Broadcasts(shut).sentLow /\ told.warn = shut.warn
          /\ told.posts = shut.posts \o Broadcasts(shut).posts
          /\ told.queue = shut.queue /\ told.sends = shut.sends
      BY <1>1, AnnounceFields
    <3> HIDE DEF told
    <3> QED BY <1>1, <2>2, <3>1
  <2> HIDE DEF told
  <2>4. Moved(told) = Moved(b)
    BY <2>3 DEF Moved
  <2>5. /\ grown \in Bat /\ grown.info = told.info /\ grown.invalid = told.invalid /\ grown.last = told.last
        /\ grown.stopped = told.stopped /\ grown.levelLow = told.levelLow
        /\ grown.sentLow = told.sentLow /\ grown.warn = told.warn /\ grown.posts = told.posts
        /\ grown.queue = IF Moved(told) THEN Enqueued(told.queue, told.info.level) ELSE told.queue
        /\ grown.sends = IF Moved(told) /\ told.queue = <<>> THEN told.sends + 1 ELSE told.sends
        /\ Len(grown.queue) <= MaxQueue
    BY <2>3, GrownFields
  <2> HIDE DEF grown
  <2>6. Shown(grown) = Shown(b)
    BY <2>3, <2>5 DEF Shown
  <2>7. /\ r \in Bat /\ r.info = grown.info /\ r.invalid = grown.invalid /\ r.last = grown.last
        /\ r.stopped = grown.stopped /\ r.snap = Shown(grown) /\ r.levelLow = grown.levelLow
        /\ r.sentLow = grown.sentLow /\ r.warn = grown.warn
        /\ r.led = updateLightsLocked(grown.info, grown.warn)
        /\ r.posts = grown.posts /\ r.queue = grown.queue /\ r.sends = grown.sends
    BY <2>1, <2>5, SnapshotFields
  <2>8. force \/ b.snap # Shown(b)
    BY <1>3 DEF Changed
  <2> HIDE DEF r
  <2>9. /\ r \in Bat /\ Len(r.queue) <= MaxQueue
        /\ r.info = b.info /\ r.invalid = b.invalid /\ r.last = b.last /\ r.stopped = b.stopped
        /\ r.warn = b.warn /\ r.snap = Shown(b)
        /\ r.levelLow = LowMode(b, force) /\ r.sentLow = Broadcasts(b).sentLow
        /\ r.led = updateLightsLocked(b.info, b.warn)
        /\ r.queue = IF Moved(b) THEN Enqueued(b.queue, b.info.level) ELSE b.queue
        /\ r.sends = IF Moved(b) /\ b.queue = <<>> THEN b.sends + 1 ELSE b.sends
        /\ r.posts = (b.posts \o Shutdowns(b.info)) \o Broadcasts(b).posts
    BY <2>3, <2>4, <2>5, <2>6, <2>7
  <2> QED BY <2>8, <2>9 DEF r
<1> QED BY <1>2, <1>3

(***************************************************************************)
(* What holds between processings, of the values last shown.               *)
(***************************************************************************)
\* Receivers that know hd will know the values of b.
Told(b, hd) ==
  /\ Tells(b.posts, "changed", hd.sticky, b.snap)
  /\ Tells(b.posts, "power", hd.power, b.snap.info.plug # NONE)
  /\ Tells(b.posts, "low", hd.low, b.sentLow)

LowRight(b) ==
  b.snap.info.status # "UNKNOWN" =>
    /\ b.snap.info.plug = NONE /\ b.snap.info.level < b.warn => b.levelLow
    /\ b.snap.info.plug # NONE \/ b.snap.info.level >= closeLevel(b) => ~ b.levelLow
Lit(b) == b.led = updateLightsLocked(b.snap.info, b.warn) /\ LowRight(b)

\* The newest level is in the batch, or was in the last one.
Batch(b, levels) ==
  /\ b.queue # <<>> => b.sends = 1 /\ Last(b.queue) = b.snap.info.level
  /\ b.queue = <<>> => b.sends = 0 /\ levels # <<>> /\ Last(levels) = b.snap.info.level

LowSent(b) == b.snap.info.plug = NONE /\ b.snap.info.level <= b.warn => b.sentLow

Requested(posts) == \E i \in 1 .. Len(posts) : posts[i].to = "shutdown"

LEMMA ProcessTold ==
  ASSUME NEW b \in Bat, Len(b.queue) <= MaxQueue, NEW force \in BOOLEAN, NEW hd, Told(b, hd)
  PROVE  Told(processValuesLocked(b, force), hd)
<1> DEFINE r == processValuesLocked(b, force)
           sp == b.posts \o Shutdowns(b.info)
           out == Broadcasts(b)
<1>t. b.info \in Report /\ b.posts \in Seq(Post)
  BY DEF Bat
<1>f. \/ r.snap = b.snap /\ r.sentLow = b.sentLow /\ r.posts = sp
      \/ r.snap = Shown(b) /\ r.sentLow = out.sentLow /\ r.posts = sp \o out.posts
  BY ZenonT(30), ProcessFields
<1> SUFFICES Told(r, hd)
  OBVIOUS
<1> HIDE DEF r
<1>1. Shutdowns(b.info) \in Seq(Post) /\ sp \in Seq(Post)
  BY <1>t, ShutdownPosts, ConcatProperties
<1>2. /\ \A v : Tells(Shutdowns(b.info), "changed", v, v)
      /\ \A v : Tells(Shutdowns(b.info), "power", v, v)
      /\ \A v : Tells(Shutdowns(b.info), "low", v, v)
  BY <1>t, ShutdownsTell
<1>3. /\ Tells(sp, "changed", hd.sticky, b.snap)
      /\ Tells(sp, "power", hd.power, b.snap.info.plug # NONE)
      /\ Tells(sp, "low", hd.low, b.sentLow)
  BY <1>t, <1>1, <1>2, TellsBoth, Zenon DEF Told
<1>4. /\ out.posts \in Seq(Post)
      /\ Tells(out.posts, "changed", b.snap, Shown(b))
      /\ Tells(out.posts, "power", b.snap.info.plug # NONE, b.info.plug # NONE)
      /\ Tells(out.posts, "low", b.sentLow, out.sentLow)
  BY BroadcastsTell
<1> HIDE DEF sp, out
<1>5. /\ Tells(sp \o out.posts, "changed", hd.sticky, Shown(b))
      /\ Tells(sp \o out.posts, "power", hd.power, b.info.plug # NONE)
      /\ Tells(sp \o out.posts, "low", hd.low, out.sentLow)
  BY <1>1, <1>3, <1>4, TellsBoth, Zenon
<1>6. CASE r.snap = b.snap /\ r.sentLow = b.sentLow /\ r.posts = sp
  BY <1>3, <1>6, Zenon DEF Told
<1>7. CASE r.snap = Shown(b) /\ r.sentLow = out.sentLow /\ r.posts = sp \o out.posts
  <2>1. r.snap.info = b.info
    BY <1>7, ShownFacts
  <2> QED BY <1>5, <1>7, <2>1, Zenon DEF Told
<1> QED BY <1>f, <1>6, <1>7

LEMMA ProcessLit ==
  ASSUME NEW b \in Bat, Len(b.queue) <= MaxQueue, NEW force \in BOOLEAN,
         force \/ b.snap # Shown(b) \/ Lit(b)
  PROVE  Lit(processValuesLocked(b, force))
<1> DEFINE r == processValuesLocked(b, force)
<1>t. b.info \in Report /\ b.warn \in Nat /\ b.levelLow \in BOOLEAN /\ Bump \in Nat /\ Bump > 0
  BY ServiceAssumption DEF Bat
<1>f. /\ r.snap = Shown(b) /\ r.snap.info = b.info /\ r.warn = b.warn
      /\ \/ ~ force /\ b.snap = Shown(b) /\ r.levelLow = b.levelLow /\ r.led = b.led
         \/ r.levelLow = LowMode(b, force) /\ r.led = updateLightsLocked(b.info, b.warn)
  BY ProcessFields, ShownFacts
<1> SUFFICES Lit(r)
  OBVIOUS
<1> HIDE DEF r
<1>1. CASE ~ force /\ b.snap = Shown(b) /\ r.levelLow = b.levelLow /\ r.led = b.led
  <2>1. r.snap = b.snap /\ r.levelLow = b.levelLow /\ r.led = b.led /\ closeLevel(r) = closeLevel(b) /\ Lit(b)
    BY <1>f, <1>1 DEF closeLevel
  <2> QED BY <1>f, <2>1, Zenon DEF Lit, LowRight
<1>2. CASE r.levelLow = LowMode(b, force) /\ r.led = updateLightsLocked(b.info, b.warn)
  <2>0. b.info.level \in Nat
    BY <1>t, ReportFacts
  <2>1. ASSUME b.info.status # "UNKNOWN", b.info.plug = NONE, b.info.level < b.warn
        PROVE  LowMode(b, force)
    BY <1>t, <2>0, <2>1 DEF LowMode, closeLevel
  <2>2. ASSUME b.info.plug # NONE \/ b.info.level >= b.warn + Bump
        PROVE  ~ LowMode(b, force)
    BY <1>t, <2>0, <2>2 DEF LowMode, closeLevel
  <2>3. closeLevel(r) = b.warn + Bump /\ r.snap.info = b.info /\ r.warn = b.warn
    BY <1>f DEF closeLevel
  <2>4. LowRight(r)
    <3> SUFFICES ASSUME r.snap.info.status # "UNKNOWN"
                 PROVE  /\ r.snap.info.plug = NONE /\ r.snap.info.level < r.warn => r.levelLow
                        /\ r.snap.info.plug # NONE \/ r.snap.info.level >= closeLevel(r) => ~ r.levelLow
      BY Zenon DEF LowRight
    <3>1. ASSUME r.snap.info.plug = NONE, r.snap.info.level < r.warn PROVE r.levelLow
      <4>1. LowMode(b, force)
        BY <2>1, <2>3, <3>1
      <4> QED BY <1>2, <4>1, Zenon
    <3>2. ASSUME r.snap.info.plug # NONE \/ r.snap.info.level >= closeLevel(r) PROVE ~ r.levelLow
      <4>1. ~ LowMode(b, force)
        BY <2>2, <2>3, <3>2
      <4> QED BY <1>2, <4>1, Zenon
    <3> QED BY <3>1, <3>2, Zenon
  <2> QED BY <1>f, <1>2, <2>4 DEF Lit
<1> QED BY <1>f, <1>1, <1>2

LEMMA ProcessBatch ==
  ASSUME NEW b \in Bat, Len(b.queue) <= MaxQueue, NEW force \in BOOLEAN, NEW levels,
         (b.snap = FirstSnap /\ b.queue = <<>> /\ b.sends = 0) \/ Batch(b, levels)
  PROVE  Batch(processValuesLocked(b, force), levels)
<1> DEFINE r == processValuesLocked(b, force)
<1>t. /\ b.info \in Report /\ b.queue \in Seq(Nat) /\ b.info.level \in Nat /\ b.info.plug # "first"
      /\ b.sends \in Nat
  BY ReportFacts DEF Bat
<1>f. /\ r.snap = Shown(b) /\ r.snap.info = b.info
      /\ \/ b.snap = Shown(b) /\ r.queue = b.queue /\ r.sends = b.sends
         \/ /\ r.queue = IF Moved(b) THEN Enqueued(b.queue, b.info.level) ELSE b.queue
            /\ r.sends = IF Moved(b) /\ b.queue = <<>> THEN b.sends + 1 ELSE b.sends
  BY ProcessFields, ShownFacts
<1>e. /\ Enqueued(b.queue, b.info.level) # <<>>
      /\ Last(Enqueued(b.queue, b.info.level)) = b.info.level
  BY <1>t, EnqueuedFacts
<1>m. b.snap = FirstSnap => Moved(b)
  BY <1>t DEF Moved, FirstSnap, FirstInfo
<1> SUFFICES Batch(r, levels)
  OBVIOUS
<1> HIDE DEF r
<1>1. CASE b.snap = Shown(b) /\ r.queue = b.queue /\ r.sends = b.sends
  <2>1. ~ Moved(b)
    BY <1>1, ShownFacts DEF Moved
  <2> QED BY <1>f, <1>m, <1>1, <2>1 DEF Batch
<1>2. CASE ~ Moved(b) /\ r.queue = b.queue /\ r.sends = b.sends
  <2>1. b.snap.info.level = b.info.level
    BY <1>2 DEF Moved
  <2> QED BY <1>f, <1>m, <1>2, <2>1, Zenon DEF Batch
<1>3. CASE Moved(b) /\ r.queue = Enqueued(b.queue, b.info.level)
             /\ r.sends = IF b.queue = <<>> THEN b.sends + 1 ELSE b.sends
  <2>1. r.sends = 1
    BY <1>t, <1>3 DEF Batch
  <2> QED BY <1>f, <1>e, <1>3, <2>1, Zenon DEF Batch
<1> QED BY <1>f, <1>1, <1>2, <1>3

LEMMA ProcessSent ==
  ASSUME NEW b \in Bat, Len(b.queue) <= MaxQueue, NEW force \in BOOLEAN,
         b.info.status # "UNKNOWN", LowSent(b)
  PROVE  LowSent(processValuesLocked(b, force))
<1> DEFINE r == processValuesLocked(b, force)
<1>t. /\ b.info \in Report /\ b.info.level \in Nat /\ b.snap.info.level \in Nat /\ b.warn \in Nat
      /\ b.sentLow \in BOOLEAN /\ Bump \in Nat /\ Bump > 0
  BY ReportFacts, SnapFacts, ServiceAssumption DEF Bat
<1>f. /\ r.snap.info = b.info /\ r.warn = b.warn
      /\ \/ b.snap.info = b.info /\ r.sentLow = b.sentLow
         \/ r.sentLow = Broadcasts(b).sentLow
  BY ProcessFields, ShownFacts
<1> SUFFICES LowSent(r)
  OBVIOUS
<1> HIDE DEF r
<1>1. CASE b.snap.info = b.info /\ r.sentLow = b.sentLow
  BY <1>f, <1>1 DEF LowSent
<1>2. CASE r.sentLow = Broadcasts(b).sentLow
  <2> SUFFICES ASSUME b.info.plug = NONE, b.info.level <= b.warn PROVE r.sentLow
    BY <1>f DEF LowSent
  <2>1. ~ (b.info.level >= closeLevel(b))
    BY <1>t DEF closeLevel
  <2>2. CASE b.snap.info.plug # NONE \/ b.snap.info.level > b.warn
    <3>1. shouldSendBatteryLowLocked(b)
      BY <2>2 DEF shouldSendBatteryLowLocked
    <3> QED BY <1>2, <3>1, Zenon DEF Broadcasts
  <2>3. CASE ~ (b.snap.info.plug # NONE \/ b.snap.info.level > b.warn)
    <3>1. b.sentLow
      BY <1>t, <2>3 DEF LowSent
    <3>2. Broadcasts(b).sentLow = (shouldSendBatteryLowLocked(b)
             \/ (b.sentLow /\ ~ (/\ ~ shouldSendBatteryLowLocked(b) /\ b.sentLow
                                 /\ b.info.level >= closeLevel(b))))
      BY DEF Broadcasts
    <3> QED BY <1>2, <2>1, <3>1, <3>2, Zenon
  <2> QED BY <2>2, <2>3
<1> QED BY <1>f, <1>1, <1>2

LEMMA ProcessAsks ==
  ASSUME NEW b \in Bat, Len(b.queue) <= MaxQueue, NEW force \in BOOLEAN, NoPower(b.info)
  PROVE  Requested(processValuesLocked(b, force).posts)
<1> DEFINE r == processValuesLocked(b, force)
           sh == Shutdowns(b.info)
           sp == b.posts \o sh
<1>t. b.info \in Report /\ b.posts \in Seq(Post)
  BY DEF Bat
<1>1. sh \in Seq(Post) /\ Len(sh) > 0 /\ \A i \in 1 .. Len(sh) : sh[i].to = "shutdown"
  BY <1>t, ShutdownPosts
<1>2. r.posts = sp \/ r.posts = sp \o Broadcasts(b).posts
  BY ProcessFields
<1>3. Broadcasts(b).posts \in Seq(Post)
  BY BroadcastsTell
<1> HIDE DEF r, sh
<1>4. /\ sp \in Seq(Post) /\ Len(sp) = Len(b.posts) + Len(sh) /\ Len(b.posts) \in Nat /\ Len(sh) \in Nat
      /\ \A i \in 1 .. Len(sh) : sp[Len(b.posts) + i] = sh[i]
  BY <1>t, <1>1, ConcatProperties
<1>5. PICK i \in 1 .. Len(sp) : sp[i].to = "shutdown"
  <2>1. 1 \in 1 .. Len(sh) /\ Len(b.posts) + 1 \in 1 .. Len(sp)
    BY <1>1, <1>4
  <2>2. sp[Len(b.posts) + 1].to = "shutdown"
    BY <1>1, <1>4, <2>1
  <2> QED BY <2>1, <2>2
<1> HIDE DEF sp
<1>6. /\ i \in 1 .. Len(sp \o Broadcasts(b).posts)
      /\ (sp \o Broadcasts(b).posts)[i] = sp[i]
  BY <1>3, <1>4, ConcatProperties
<1>7. Requested(r.posts)
  BY <1>2, <1>5, <1>6 DEF Requested
<1> QED BY <1>7 DEF r

(***************************************************************************)
(* The inductive invariant                                                 *)
(***************************************************************************)
Heard == [power : BOOLEAN, low : BOOLEAN, sticky : Snap, levels : Seq(Nat), shutdown : BOOLEAN]

Types ==
  /\ use \in Uses /\ bat \in Bat /\ Len(bat.queue) <= MaxQueue
  /\ setting \in Nat /\ ready \in BOOLEAN
  /\ heard \in Heard /\ hw \in [info : use.reports, invalid : BOOLEAN]

\* Receivers, light, batch and requests follow the values last shown.
Sound ==
  /\ Told(bat, heard)
  /\ Lit(bat)
  /\ Batch(bat, heard.levels)
  /\ Steady(use) => LowSent(bat)
  /\ ready /\ NoPower(bat.snap.info) => heard.shutdown \/ Requested(bat.posts)

\* Those are the ones in use, but for the switch of the invalid charger; and
\* there is something to restore when a reset comes.
Values ==
  /\ bat.snap.info = bat.info
  /\ ~ use.switch => bat.snap.invalid = bat.invalid
  /\ bat.stopped => bat.last \in Report
  /\ Steady(use) => bat.info.status # "UNKNOWN" /\ bat.last.status # "UNKNOWN"
  /\ use.settings = {} => setting = 0 /\ bat.warn = DefWarnLevel

\* The report kept for the reset, and what was forced.
Frozen ==
  /\ hw.info = IF bat.stopped THEN bat.last ELSE bat.info
  /\ bat.stopped \/ forced = {}
  /\ forced \subseteq use.commands
  /\ ForcedHolds

Inv == Types /\ Sound /\ Values /\ Frozen

LEMMA UseFacts ==
  ASSUME NEW u \in Uses
  PROVE  /\ u.reports \subseteq Report /\ u.settings \subseteq Nat /\ u.commands \subseteq Command
         /\ u.switch \in BOOLEAN
  BY ServiceAssumption

\* A shell command writes one value of a report.
LEMMA WriteFacts ==
  ASSUME NEW h \in Report, NEW c \in Command, c.key # "invalid"
  PROVE  LET w == [h EXCEPT ![c.key] = c.value] IN
         /\ w \in Report /\ w[c.key] = c.value
         /\ \A d \in Command : d.key \notin {c.key, "invalid"} => w[d.key] = h[d.key]
         /\ c.key # "status" => w.status = h.status
<1> DEFINE w == [h EXCEPT ![c.key] = c.value]
<1>k. \A d \in Command : d.key \in {"plug", "status", "level", "hot", "invalid"}
  BY DEF Command
<1>1. CASE c.key = "plug"
  <2>1. c.value \in Plugs
    BY <1>1 DEF Command, Plugs
  <2>2. w = [h EXCEPT !.plug = c.value]
    BY <1>1
  <2>3. /\ w \in Report /\ w["plug"] = c.value /\ w["status"] = h["status"]
        /\ w["level"] = h["level"] /\ w["hot"] = h["hot"]
    BY <2>1, <2>2 DEF Report
  <2> QED BY <1>k, <1>1, <2>3
<1>2. CASE c.key = "status"
  <2>1. c.value \in Statuses
    BY <1>2 DEF Command
  <2>2. w = [h EXCEPT !.status = c.value]
    BY <1>2
  <2>3. /\ w \in Report /\ w["status"] = c.value /\ w["plug"] = h["plug"]
        /\ w["level"] = h["level"] /\ w["hot"] = h["hot"]
    BY <2>1, <2>2 DEF Report
  <2> QED BY <1>k, <1>2, <2>3
<1>3. CASE c.key = "level"
  <2>1. c.value \in Nat
    BY <1>3 DEF Command
  <2>2. w = [h EXCEPT !.level = c.value]
    BY <1>3
  <2>3. /\ w \in Report /\ w["level"] = c.value /\ w["plug"] = h["plug"]
        /\ w["status"] = h["status"] /\ w["hot"] = h["hot"]
    BY <2>1, <2>2 DEF Report
  <2> QED BY <1>k, <1>3, <2>3
<1>4. CASE c.key = "hot"
  <2>1. c.value \in BOOLEAN
    BY <1>4 DEF Command
  <2>2. w = [h EXCEPT !.hot = c.value]
    BY <1>4
  <2>3. /\ w \in Report /\ w["hot"] = c.value /\ w["plug"] = h["plug"]
        /\ w["status"] = h["status"] /\ w["level"] = h["level"]
    BY <2>1, <2>2 DEF Report
  <2> QED BY <1>k, <1>4, <2>3
<1> QED BY <1>k, <1>1, <1>2, <1>3, <1>4

\* What a step that ends in processValuesLocked on b leaves.
LEMMA ProcessStep ==
  ASSUME NEW b \in Bat, Len(b.queue) <= MaxQueue, NEW force \in BOOLEAN,
         Told(b, heard), force \/ b.snap # Shown(b) \/ Lit(b), Batch(b, heard.levels),
         Steady(use) => LowSent(b) /\ b.info.status # "UNKNOWN",
         bat' = processValuesLocked(b, force), UNCHANGED <<use, heard>>
  PROVE  /\ Sound'
         /\ bat' \in Bat /\ Len(bat'.queue) <= MaxQueue
         /\ bat'.info = b.info /\ bat'.invalid = b.invalid /\ bat'.last = b.last /\ bat'.stopped = b.stopped
         /\ bat'.warn = b.warn /\ bat'.snap.info = b.info /\ bat'.snap.invalid = b.invalid
<1>1. Told(bat', heard') /\ Lit(bat') /\ Batch(bat', heard'.levels)
  BY ProcessTold, ProcessLit, ProcessBatch
<1>2. /\ bat' \in Bat /\ Len(bat'.queue) <= MaxQueue
      /\ bat'.info = b.info /\ bat'.invalid = b.invalid /\ bat'.last = b.last /\ bat'.stopped = b.stopped
      /\ bat'.warn = b.warn /\ bat'.snap.info = b.info /\ bat'.snap.invalid = b.invalid
  <2>1. /\ bat' \in Bat /\ Len(bat'.queue) <= MaxQueue
        /\ bat'.info = b.info /\ bat'.invalid = b.invalid /\ bat'.last = b.last
        /\ bat'.stopped = b.stopped /\ bat'.warn = b.warn /\ bat'.snap = Shown(b)
    BY ProcessFields
  <2>2. Shown(b).info = b.info /\ Shown(b).invalid = b.invalid
    BY ShownFacts
  <2> QED BY <2>1, <2>2
<1>3. Steady(use') => LowSent(bat')
  BY ProcessSent
<1>4. NoPower(bat'.snap.info) => Requested(bat'.posts)
  BY <1>2, ProcessAsks
<1> QED BY <1>1, <1>2, <1>3, <1>4 DEF Sound

\* A value of bat that differs in info, invalid, last, stopped and warn only.
Alike(b) ==
  /\ b \in Bat
  /\ b.posts = bat.posts /\ b.snap = bat.snap /\ b.sentLow = bat.sentLow /\ b.led = bat.led
  /\ b.levelLow = bat.levelLow /\ b.queue = bat.queue /\ b.sends = bat.sends

LEMMA Carry ==
  ASSUME Types, Sound, NEW b, Alike(b)
  PROVE  /\ Len(b.queue) <= MaxQueue /\ Told(b, heard) /\ Batch(b, heard.levels)
         /\ b.warn = bat.warn => Lit(b) /\ (Steady(use) => LowSent(b))
<1>1. Len(b.queue) <= MaxQueue /\ Told(b, heard) /\ Batch(b, heard.levels)
  BY Zenon DEF Types, Sound, Alike, Told, Batch
<1>2. ASSUME b.warn = bat.warn PROVE closeLevel(b) = closeLevel(bat)
  BY <1>2 DEF closeLevel
<1>3. ASSUME b.warn = bat.warn PROVE Lit(b)
  BY <1>2, <1>3, Zenon DEF Sound, Alike, Lit, LowRight
<1>4. ASSUME b.warn = bat.warn, Steady(use) PROVE LowSent(b)
  BY <1>4, Zenon DEF Sound, Alike, LowSent
<1> QED BY <1>1, <1>3, <1>4

LEMMA InvInit == Init => Inv
<1> SUFFICES ASSUME Init PROVE Inv
  OBVIOUS
<1> DEFINE b == [info |-> hw.info, invalid |-> FALSE, last |-> FirstInfo, stopped |-> FALSE,
                 snap |-> FirstSnap, levelLow |-> FALSE, sentLow |-> FALSE, warn |-> DefWarnLevel,
                 led |-> "off", posts |-> <<>>, queue |-> <<>>, sends |-> 0]
<1>0. use \in Uses /\ hw \in [info : use.reports, invalid : BOOLEAN] /\ hw.info \in use.reports /\ hw.info \in Report
  BY UseFacts DEF Init
<1>1. /\ bat = processValuesLocked(b, FALSE) /\ setting = 0 /\ ready = FALSE /\ forced = {}
      /\ heard = [power |-> TRUE, low |-> FALSE, sticky |-> FirstSnap, levels |-> <<>>,
                  shutdown |-> FALSE]
  BY DEF Init
<1>2. /\ b.info = hw.info /\ b.last = FirstInfo /\ b.stopped = FALSE /\ b.snap = FirstSnap
      /\ b.sentLow = FALSE /\ b.warn = DefWarnLevel /\ b.posts = <<>> /\ b.queue = <<>>
      /\ b.invalid = FALSE /\ b.sends = 0
  OBVIOUS
<1>f. FirstSnap \in Snap /\ FirstSnap.info = FirstInfo
  BY DEF Snap, FirstSnap
<1>3. b \in Bat /\ Len(b.queue) <= MaxQueue
  <2>1. <<>> \in Seq(Post) /\ <<>> \in Seq(Nat) /\ Len(<<>>) = 0
    OBVIOUS
  <2>2. DefWarnLevel \in Nat /\ MaxQueue \in Nat /\ MaxQueue > 0
    BY ServiceAssumption
  <2> QED BY <1>0, <1>f, <2>1, <2>2 DEF Bat, Leds
<1> HIDE DEF b
<1>4. heard \in Heard /\ heard.sticky = FirstSnap /\ heard.power = TRUE /\ heard.low = FALSE
  BY <1>1, <1>f DEF Heard
<1>5. Told(b, heard)
  <2>1. b.snap.info.plug # NONE
    BY <1>2, <1>f DEF FirstInfo, NONE
  <2>2. (b.snap.info.plug # NONE) = TRUE
    BY <2>1, Zenon
  <2> QED BY <1>2, <1>4, <2>2, TellsNothing, Zenon DEF Told
<1>6. b.snap # Shown(b)
  BY <1>0, <1>2, <1>3, <1>f, ReportFacts, ShownFacts
<1>7. LowSent(b)
  BY <1>2, <1>f DEF LowSent, FirstInfo, NONE
<1>8. /\ Told(bat, heard) /\ Lit(bat) /\ Batch(bat, heard.levels)
  BY <1>1, <1>2, <1>3, <1>5, <1>6, ProcessTold, ProcessLit, ProcessBatch
<1>9. /\ bat \in Bat /\ Len(bat.queue) <= MaxQueue
      /\ bat.info = hw.info /\ bat.invalid = FALSE /\ bat.last = FirstInfo /\ bat.stopped = FALSE
      /\ bat.warn = DefWarnLevel /\ bat.snap.info = hw.info /\ bat.snap.invalid = FALSE
  BY <1>1, <1>2, <1>3, ProcessFields, ShownFacts
<1>10. ASSUME Steady(use) PROVE hw.info.status # "UNKNOWN"
  BY <1>0, <1>10 DEF Steady
<1>11. ASSUME Steady(use) PROVE LowSent(bat)
  BY <1>1, <1>2, <1>3, <1>7, <1>10, <1>11, ProcessSent
<1>12. Types
  BY <1>0, <1>1, <1>4, <1>9 DEF Types
<1>13. Sound
  BY <1>1, <1>8, <1>11 DEF Sound
<1>14. Values
  <2>1. bat.last.status # "UNKNOWN"
    BY <1>9 DEF FirstInfo
  <2> QED BY <1>1, <1>9, <1>10, <2>1 DEF Values
<1>15. Frozen
  BY <1>1, <1>9 DEF Frozen, ForcedHolds
<1> QED BY <1>12, <1>13, <1>14, <1>15 DEF Inv

(***************************************************************************)
(* Under the lock                                                          *)
(***************************************************************************)
\* A step that processes a value b of bat that has new values or none.
LEMMA ShowKeeps ==
  ASSUME Inv, NEW b, Alike(b), b.warn = bat.warn, NEW force \in BOOLEAN,
         bat' = processValuesLocked(b, force), Steady(use) => b.info.status # "UNKNOWN",
         UNCHANGED <<use, setting, ready, heard>>
  PROVE  /\ Sound'
         /\ bat' \in Bat /\ Len(bat'.queue) <= MaxQueue
         /\ bat'.info = b.info /\ bat'.invalid = b.invalid /\ bat'.last = b.last
         /\ bat'.stopped = b.stopped
         /\ bat'.warn = bat.warn /\ bat'.snap.info = b.info /\ bat'.snap.invalid = b.invalid
<1>1. /\ b \in Bat /\ Len(b.queue) <= MaxQueue /\ Told(b, heard) /\ Batch(b, heard.levels)
      /\ Lit(b) /\ (Steady(use) => LowSent(b))
  BY Carry DEF Inv, Alike
<1> QED BY <1>1, ProcessStep

\* A step that changes only info, invalid, last and stopped of bat.
LEMMA AloneKeeps ==
  ASSUME Inv, Alike(bat'), bat'.warn = bat.warn, UNCHANGED <<use, heard, ready>>
  PROVE  Sound' /\ Len(bat'.queue) <= MaxQueue /\ bat' \in Bat /\ bat'.snap = bat.snap
<1>1. /\ Told(bat', heard) /\ Batch(bat', heard.levels) /\ Lit(bat') /\ (Steady(use) => LowSent(bat'))
      /\ Len(bat'.queue) <= MaxQueue
  BY Carry DEF Inv
<1>2. bat'.posts = bat.posts /\ bat'.snap = bat.snap /\ bat' \in Bat
  BY DEF Alike
<1> QED BY <1>1, <1>2 DEF Inv, Sound

LEMMA UpdateKeeps == ASSUME Inv, NEW h \in use.reports, Update(h) PROVE Inv'
<1>u. UNCHANGED <<use, setting, ready, heard, forced>> /\ hw' = [hw EXCEPT !.info = h]
  BY DEF Update
<1>t. /\ bat \in Bat /\ h \in Report /\ use \in Uses /\ bat.stopped \in BOOLEAN
      /\ hw \in [info : use.reports, invalid : BOOLEAN]
  BY UseFacts DEF Inv, Types, Bat
<1>h. hw' \in [info : use.reports, invalid : BOOLEAN] /\ hw'.info = h
  BY <1>u, <1>t
<1>k. Steady(use) => h.status # "UNKNOWN"
  BY DEF Steady
<1>1. CASE bat.stopped
  <2>1. bat' = [bat EXCEPT !.last = h]
    BY <1>1 DEF Update
  <2>2. /\ Alike(bat') /\ bat'.last = h /\ bat'.info = bat.info /\ bat'.invalid = bat.invalid
        /\ bat'.stopped = bat.stopped /\ bat'.warn = bat.warn
    BY <1>t, <2>1 DEF Bat, Alike
  <2>3. Sound' /\ Len(bat'.queue) <= MaxQueue /\ bat' \in Bat /\ bat'.snap = bat.snap
    BY <1>u, <2>2, AloneKeeps
  <2>4. Types'
    BY <1>u, <1>h, <2>3 DEF Inv, Types
  <2>5. Values'
    BY <1>u, <1>t, <1>k, <2>2, <2>3 DEF Inv, Values
  <2>6. Frozen'
    BY <1>u, <1>h, <1>1, <2>2 DEF Inv, Frozen, ForcedHolds
  <2> QED BY <2>3, <2>4, <2>5, <2>6 DEF Inv
<1>2. CASE ~ bat.stopped
  <2> DEFINE b == [bat EXCEPT !.info = h]
  <2>1. bat' = processValuesLocked(b, FALSE)
    BY <1>2 DEF Update
  <2>2. /\ Alike(b) /\ b.info = h /\ b.invalid = bat.invalid /\ b.last = bat.last
        /\ b.stopped = bat.stopped /\ b.warn = bat.warn
    BY <1>t DEF Bat, Alike
  <2> HIDE DEF b
  <2>3. /\ Sound'
        /\ bat' \in Bat /\ Len(bat'.queue) <= MaxQueue
        /\ bat'.info = h /\ bat'.invalid = bat.invalid /\ bat'.last = bat.last
        /\ bat'.stopped = bat.stopped
        /\ bat'.warn = bat.warn /\ bat'.snap.info = h /\ bat'.snap.invalid = bat.invalid
    BY <1>u, <1>k, <2>1, <2>2, ShowKeeps
  <2>4. Types'
    BY <1>u, <1>h, <2>3 DEF Inv, Types
  <2>5. Values'
    BY <1>u, <1>k, <2>3 DEF Inv, Values
  <2>6. Frozen'
    <3>1. forced = {}
      BY <1>2 DEF Inv, Frozen
    <3> QED BY <1>u, <1>h, <1>2, <2>3, <3>1 DEF Inv, Frozen, ForcedHolds
  <2> QED BY <2>3, <2>4, <2>5, <2>6 DEF Inv
<1> QED BY <1>t, <1>1, <1>2

LEMMA UEventKeeps == ASSUME Inv, NEW v \in BOOLEAN, OnUEvent(v) PROVE Inv'
<1>u. /\ UNCHANGED <<use, setting, ready, heard, forced>> /\ hw' = [hw EXCEPT !.invalid = v]
      /\ bat' = [bat EXCEPT !.invalid = v] /\ use.switch
  BY DEF OnUEvent
<1>t. bat \in Bat /\ hw \in [info : use.reports, invalid : BOOLEAN]
  BY DEF Inv, Types
<1>h. hw' \in [info : use.reports, invalid : BOOLEAN] /\ hw'.info = hw.info
  BY <1>u, <1>t
<1>1. /\ Alike(bat') /\ bat'.last = bat.last /\ bat'.info = bat.info
      /\ bat'.stopped = bat.stopped /\ bat'.warn = bat.warn
  BY <1>u, <1>t DEF Bat, Alike
<1>2. Sound' /\ Len(bat'.queue) <= MaxQueue /\ bat' \in Bat /\ bat'.snap = bat.snap
  BY <1>u, <1>1, AloneKeeps
<1>3. Types'
  BY <1>u, <1>h, <1>2 DEF Inv, Types
<1>4. Values'
  BY <1>u, <1>1, <1>2 DEF Inv, Values
<1>5. Frozen'
  BY <1>u, <1>h, <1>1 DEF Inv, Frozen, ForcedHolds
<1> QED BY <1>2, <1>3, <1>4, <1>5 DEF Inv

\* The warning level follows the setting; values are shown again, forced.
LEMMA WarnKeeps ==
  ASSUME Inv, NEW v \in Nat, bat' = updateBatteryWarningLevelLocked(bat, v),
         UNCHANGED <<use, heard, hw, forced>>
  PROVE  /\ bat' \in Bat /\ Len(bat'.queue) <= MaxQueue
         /\ use.settings = {} /\ v = 0 => Sound'
         /\ use.settings # {} => Sound'
         /\ bat'.warn = warnLevel(v)
         /\ bat'.info = bat.info /\ bat'.invalid = bat.invalid /\ bat'.last = bat.last
         /\ bat'.stopped = bat.stopped
         /\ bat'.snap.info = bat.info /\ bat'.snap.invalid = bat.invalid
<1> DEFINE b == [bat EXCEPT !.warn = warnLevel(v)]
<1>w. warnLevel(v) \in Nat /\ (v = 0 => warnLevel(v) = DefWarnLevel)
  BY ServiceAssumption DEF warnLevel
<1>1. bat' = processValuesLocked(b, TRUE)
  BY DEF updateBatteryWarningLevelLocked
<1>2. /\ Alike(b) /\ b.info = bat.info /\ b.invalid = bat.invalid /\ b.last = bat.last
      /\ b.stopped = bat.stopped /\ b.warn = warnLevel(v)
  BY <1>w DEF Inv, Types, Bat, Alike
<1> HIDE DEF b
<1>3. /\ b \in Bat /\ Len(b.queue) <= MaxQueue /\ Told(b, heard) /\ Batch(b, heard.levels)
      /\ b.warn = bat.warn => (Steady(use) => LowSent(b))
  BY <1>2, Carry DEF Inv, Alike
<1>4. /\ bat' \in Bat /\ Len(bat'.queue) <= MaxQueue
      /\ bat'.info = b.info /\ bat'.invalid = b.invalid /\ bat'.last = b.last
      /\ bat'.stopped = b.stopped
      /\ bat'.warn = b.warn /\ bat'.snap.info = b.info /\ bat'.snap.invalid = b.invalid
  <2> DEFINE r == processValuesLocked(b, TRUE)
  <2>1. b \in Bat /\ Len(b.queue) <= MaxQueue
    BY <1>3
  <2>2. /\ r \in Bat /\ Len(r.queue) <= MaxQueue /\ r.info = b.info /\ r.invalid = b.invalid
        /\ r.last = b.last /\ r.stopped = b.stopped /\ r.warn = b.warn
        /\ r.snap.info = b.info /\ r.snap.invalid = b.invalid
    BY <2>1, ProcessFields, ShownFacts
  <2> HIDE DEF r
  <2> QED BY <1>1, <2>2 DEF r
<1>5. Steady(use) => b.info.status # "UNKNOWN"
  BY <1>2 DEF Inv, Values
<1>6. ASSUME use.settings = {}, v = 0 PROVE Sound'
  <2>1. b.warn = bat.warn
    BY <1>w, <1>2, <1>6 DEF Inv, Values
  <2> QED BY <1>1, <1>3, <1>5, <2>1, ProcessStep
<1>7. ASSUME use.settings # {} PROVE Sound'
  <2>1. ~ Steady(use)
    BY <1>7 DEF Steady
  <2> QED BY <1>1, <1>3, <2>1, ProcessStep
<1> QED BY <1>2, <1>4, <1>6, <1>7

LEMMA SettingKeeps == ASSUME Inv, NEW v \in use.settings, SettingChanged(v) PROVE Inv'
<1>u. UNCHANGED <<use, ready, heard, hw, forced>> /\ setting' = v
  BY DEF SettingChanged
<1>t. v \in Nat /\ bat' = updateBatteryWarningLevelLocked(bat, v) /\ use.settings # {}
  BY UseFacts DEF Inv, Types, SettingChanged
<1>1. /\ bat' \in Bat /\ Len(bat'.queue) <= MaxQueue /\ Sound'
      /\ bat'.info = bat.info /\ bat'.invalid = bat.invalid /\ bat'.last = bat.last
      /\ bat'.stopped = bat.stopped
      /\ bat'.snap.info = bat.info /\ bat'.snap.invalid = bat.invalid
  BY <1>u, <1>t, WarnKeeps
<1>2. Types'
  BY <1>u, <1>t, <1>1 DEF Inv, Types
<1>3. Values'
  BY <1>u, <1>t, <1>1 DEF Inv, Values
<1>4. Frozen'
  BY <1>u, <1>1 DEF Inv, Frozen, ForcedHolds
<1> QED BY <1>u, <1>1, <1>2, <1>3, <1>4 DEF Inv

LEMMA BootKeeps == ASSUME Inv, Boot PROVE Inv'
<1>u. UNCHANGED <<use, setting, heard, hw, forced>> /\ ready' = TRUE
  BY DEF Boot
<1>t. setting \in Nat /\ bat' = updateBatteryWarningLevelLocked(bat, setting)
  BY DEF Inv, Types, Boot
<1>z. use.settings = {} => setting = 0
  BY DEF Inv, Values
<1>1. /\ bat' \in Bat /\ Len(bat'.queue) <= MaxQueue /\ Sound' /\ bat'.warn = warnLevel(setting)
      /\ bat'.info = bat.info /\ bat'.invalid = bat.invalid /\ bat'.last = bat.last
      /\ bat'.stopped = bat.stopped
      /\ bat'.snap.info = bat.info /\ bat'.snap.invalid = bat.invalid
  BY <1>u, <1>t, <1>z, WarnKeeps
<1>2. Types'
  BY <1>u, <1>t, <1>1 DEF Inv, Types
<1>w. warnLevel(0) = DefWarnLevel
  BY ServiceAssumption DEF warnLevel
<1>3. Values'
  BY <1>u, <1>z, <1>w, <1>1 DEF Inv, Values
<1>4. Frozen'
  BY <1>u, <1>1 DEF Inv, Frozen, ForcedHolds
<1> QED BY <1>u, <1>1, <1>2, <1>3, <1>4 DEF Inv

(***************************************************************************)
(* The handler                                                             *)
(***************************************************************************)
LEMMA DeliverKeeps == ASSUME Inv, Deliver PROVE Inv'
<1> DEFINE s == bat.posts
           m == Head(s)
<1>u. UNCHANGED <<use, setting, ready, hw, forced>> /\ bat.posts # <<>>
  BY DEF Deliver
<1>t. /\ bat \in Bat /\ s \in Seq(Post) /\ s # <<>> /\ heard \in Heard /\ ready \in BOOLEAN
  BY <1>u DEF Inv, Types, Bat
<1>m. m \in Post /\ Tail(s) \in Seq(Post)
  BY <1>t
<1>k. m.to \in {"shutdown", "power", "low", "changed"}
  BY <1>m DEF Post
<1>1. bat' = [bat EXCEPT !.posts = Tail(s)]
  BY DEF Deliver
<1>2. /\ bat' \in Bat /\ bat'.posts = Tail(s)
      /\ bat'.info = bat.info /\ bat'.invalid = bat.invalid /\ bat'.last = bat.last
      /\ bat'.stopped = bat.stopped /\ bat'.snap = bat.snap /\ bat'.sentLow = bat.sentLow /\ bat'.led = bat.led
      /\ bat'.levelLow = bat.levelLow /\ bat'.queue = bat.queue
      /\ bat'.sends = bat.sends /\ bat'.warn = bat.warn
  BY <1>t, <1>m, <1>1 DEF Bat
<1>h. /\ heard' \in Heard /\ heard'.levels = heard.levels
      /\ heard'.sticky = IF m.to = "changed" THEN Value(m) ELSE heard.sticky
      /\ heard'.power = IF m.to = "power" THEN Value(m) ELSE heard.power
      /\ heard'.low = IF m.to = "low" THEN Value(m) ELSE heard.low
      /\ heard.shutdown => heard'.shutdown
      /\ m.to = "shutdown" /\ ready => heard'.shutdown
  <2>1. CASE m.to = "shutdown"
    <3>1. heard' = [heard EXCEPT !.shutdown = @ \/ ready]
      BY <2>1, Zenon DEF Deliver
    <3>2. PICK x \in BOOLEAN : x = (heard.shutdown \/ ready)
      OBVIOUS
    <3>3. heard' = [heard EXCEPT !.shutdown = x]
      BY <3>1, <3>2, Zenon
    <3>4. /\ heard' \in Heard /\ heard'.levels = heard.levels /\ heard'.sticky = heard.sticky
          /\ heard'.power = heard.power /\ heard'.low = heard.low /\ heard'.shutdown = x
      BY <1>t, <3>3 DEF Heard
    <3>5. (heard.shutdown => x) /\ (ready => x)
      BY <3>2, Zenon
    <3> QED BY <2>1, <3>4, <3>5
  <2>2. CASE m.to = "power"
    <3>0. m.on \in BOOLEAN /\ Value(m) = m.on
      BY <1>m, <2>2 DEF Post, Value
    <3>1. heard' = [heard EXCEPT !.power = m.on]
      <4>1. m.to # "shutdown"
        BY <2>2
      <4> QED BY <2>2, <4>1 DEF Deliver
    <3> QED BY <1>t, <2>2, <3>0, <3>1 DEF Heard
  <2>3. CASE m.to = "low"
    <3>0. m.on \in BOOLEAN /\ Value(m) = m.on
      BY <1>m, <2>3 DEF Post, Value
    <3>1. heard' = [heard EXCEPT !.low = m.on]
      <4>1. m.to # "shutdown" /\ m.to # "power"
        BY <2>3
      <4> QED BY <2>3, <4>1 DEF Deliver
    <3> QED BY <1>t, <2>3, <3>0, <3>1 DEF Heard
  <2>4. CASE m.to = "changed"
    <3>0. m.what \in Snap /\ Value(m) = m.what
      BY <1>m, <2>4 DEF Post, Value
    <3>1. heard' = [heard EXCEPT !.sticky = m.what]
      <4>1. m.to # "shutdown" /\ m.to # "power" /\ m.to # "low"
        BY <2>4
      <4> QED BY <2>4, <4>1 DEF Deliver
    <3> QED BY <1>t, <2>4, <3>0, <3>1 DEF Heard
  <2> QED BY <1>k, <2>1, <2>2, <2>3, <2>4
<1>3. Told(bat', heard')
  <2>1. Told(bat, heard)
    BY DEF Inv, Sound
  <2>2. /\ Tells(Tail(s), "changed", heard'.sticky, bat.snap)
        /\ Tells(Tail(s), "power", heard'.power, bat.snap.info.plug # NONE)
        /\ Tells(Tail(s), "low", heard'.low, bat.sentLow)
    BY <1>t, <1>h, <2>1, TellsTail, Zenon DEF Told
  <2> QED BY <1>2, <2>2, Zenon DEF Told
<1>4. Lit(bat') /\ Batch(bat', heard'.levels) /\ (Steady(use) => LowSent(bat'))
  <2>1. closeLevel(bat') = closeLevel(bat)
    BY <1>2 DEF closeLevel
  <2>2. Lit(bat')
    BY <1>2, <2>1, Zenon DEF Inv, Sound, Lit, LowRight
  <2>3. Batch(bat', heard'.levels)
    BY <1>2, <1>h, Zenon DEF Inv, Sound, Batch
  <2>4. Steady(use) => LowSent(bat')
    BY <1>2, Zenon DEF Inv, Sound, LowSent
  <2> QED BY <2>2, <2>3, <2>4
<1>5. ASSUME ready, NoPower(bat.snap.info) PROVE heard'.shutdown \/ Requested(Tail(s))
  <2>1. heard.shutdown \/ Requested(s)
    BY <1>5 DEF Inv, Sound
  <2>2. CASE heard.shutdown
    BY <1>h, <2>2
  <2>3. CASE Requested(s)
    <3>1. PICK i \in 1 .. Len(s) : s[i].to = "shutdown"
      BY <2>3 DEF Requested
    <3>2. /\ Len(s) \in Nat /\ Len(Tail(s)) = Len(s) - 1 /\ m = s[1]
          /\ \A j \in 1 .. Len(Tail(s)) : Tail(s)[j] = s[j + 1]
      BY <1>t
    <3>3. CASE i = 1
      BY <1>5, <1>h, <3>1, <3>2, <3>3
    <3>4. CASE i # 1
      <4>1. i - 1 \in 1 .. Len(Tail(s)) /\ Tail(s)[i - 1] = s[i]
        BY <3>1, <3>2, <3>4
      <4> QED BY <3>1, <4>1 DEF Requested
    <3> QED BY <3>3, <3>4
  <2> QED BY <2>1, <2>2, <2>3
<1>6. Sound'
  BY <1>u, <1>2, <1>3, <1>4, <1>5 DEF Sound
<1>7. Types'
  BY <1>u, <1>2, <1>h DEF Inv, Types
<1>8. Values'
  BY <1>u, <1>2 DEF Inv, Values
<1>9. Frozen'
  BY <1>u, <1>2 DEF Inv, Frozen, ForcedHolds
<1> QED BY <1>u, <1>6, <1>7, <1>8, <1>9 DEF Inv

LEMMA SendKeeps == ASSUME Inv, SendEnqueuedBatteryLevelChangedEvents PROVE Inv'
<1>u. UNCHANGED <<use, setting, ready, hw, forced>> /\ bat.sends > 0
  BY DEF SendEnqueuedBatteryLevelChangedEvents
<1>t. bat \in Bat /\ heard \in Heard /\ bat.queue \in Seq(Nat)
  BY DEF Inv, Types, Bat
<1>1. /\ bat' = [bat EXCEPT !.queue = <<>>, !.sends = @ - 1]
      /\ heard' = [heard EXCEPT !.levels = bat.queue]
  BY DEF SendEnqueuedBatteryLevelChangedEvents
<1>e. <<>> \in Seq(Nat) /\ Len(<<>>) = 0 /\ MaxQueue \in Nat
  BY ServiceAssumption
<1>q. bat.queue # <<>> /\ bat.sends = 1
  BY <1>u DEF Inv, Sound, Batch
<1>2. /\ bat' \in Bat /\ bat'.queue = <<>> /\ bat'.sends = 0 /\ bat'.posts = bat.posts
      /\ bat'.info = bat.info /\ bat'.invalid = bat.invalid /\ bat'.last = bat.last
      /\ bat'.stopped = bat.stopped /\ bat'.snap = bat.snap /\ bat'.sentLow = bat.sentLow /\ bat'.led = bat.led
      /\ bat'.levelLow = bat.levelLow /\ bat'.warn = bat.warn
  <2>1. bat' = [bat EXCEPT !.queue = <<>>, !.sends = 0]
    BY <1>1, <1>q
  <2> QED BY <1>t, <1>e, <2>1 DEF Bat
<1>3. /\ heard' \in Heard /\ heard'.levels = bat.queue /\ heard'.sticky = heard.sticky
      /\ heard'.power = heard.power /\ heard'.low = heard.low
      /\ heard'.shutdown = heard.shutdown
  BY <1>t, <1>1 DEF Heard
<1>4. Told(bat', heard')
  BY <1>2, <1>3, Zenon DEF Inv, Sound, Told
<1>5. Lit(bat') /\ Batch(bat', heard'.levels) /\ (Steady(use) => LowSent(bat'))
  <2>1. closeLevel(bat') = closeLevel(bat)
    BY <1>2 DEF closeLevel
  <2>2. Lit(bat')
    BY <1>2, <2>1, Zenon DEF Inv, Sound, Lit, LowRight
  <2>3. Batch(bat', heard'.levels)
    BY <1>q, <1>2, <1>3, Zenon DEF Inv, Sound, Batch
  <2>4. Steady(use) => LowSent(bat')
    BY <1>2, Zenon DEF Inv, Sound, LowSent
  <2> QED BY <2>2, <2>3, <2>4
<1>6. Sound'
  BY <1>u, <1>2, <1>3, <1>4, <1>5 DEF Inv, Sound
<1>7. Types'
  BY <1>u, <1>e, <1>2, <1>3 DEF Inv, Types
<1>8. Values'
  BY <1>u, <1>2 DEF Inv, Values
<1>9. Frozen'
  BY <1>u, <1>2 DEF Inv, Frozen, ForcedHolds
<1> QED BY <1>u, <1>6, <1>7, <1>8, <1>9 DEF Inv

(***************************************************************************)
(* Shell commands                                                          *)
(***************************************************************************)
LEMMA CopiedFacts ==
  ASSUME NEW b \in Bat
  PROVE  LET r == Copied(b) IN
         /\ r \in Bat /\ r.info = b.info /\ r.invalid = b.invalid /\ r.stopped = b.stopped
         /\ r.snap = b.snap /\ r.levelLow = b.levelLow /\ r.sentLow = b.sentLow /\ r.warn = b.warn
         /\ r.led = b.led /\ r.posts = b.posts /\ r.queue = b.queue /\ r.sends = b.sends
         /\ r.last = IF b.stopped THEN b.last ELSE b.info
<1>1. CASE b.stopped
  BY <1>1 DEF Copied
<1>2. CASE ~ b.stopped
  BY <1>2 DEF Copied, Bat
<1> QED BY <1>1, <1>2

\* What a command writes, and that updates are stopped.
LEMMA SetFacts ==
  ASSUME NEW b \in Bat, NEW c \in Command
  PROVE  LET r == [Write(b, c) EXCEPT !.stopped = TRUE] IN
         /\ r \in Bat /\ r.stopped = TRUE /\ r.last = b.last
         /\ r.snap = b.snap /\ r.levelLow = b.levelLow /\ r.sentLow = b.sentLow /\ r.warn = b.warn
         /\ r.led = b.led /\ r.posts = b.posts /\ r.queue = b.queue /\ r.sends = b.sends
         /\ IF c.key = "invalid" THEN r.invalid = c.value /\ r.info = b.info
            ELSE r.invalid = b.invalid /\ r.info = [b.info EXCEPT ![c.key] = c.value]
<1>1. CASE c.key = "invalid"
  <2>1. c.value \in BOOLEAN
    BY <1>1 DEF Command
  <2>2. Write(b, c) = [b EXCEPT !.invalid = c.value]
    BY <1>1 DEF Write
  <2> QED BY <1>1, <2>1, <2>2 DEF Bat
<1>2. CASE c.key # "invalid"
  <2> DEFINE w == [b.info EXCEPT ![c.key] = c.value]
  <2>1. w \in Report
    BY <1>2, WriteFacts DEF Bat
  <2>2. Write(b, c) = [b EXCEPT !.info = w]
    BY <1>2 DEF Write
  <2> HIDE DEF w
  <2>3. LET r == [Write(b, c) EXCEPT !.stopped = TRUE] IN
        /\ r \in Bat /\ r.stopped = TRUE /\ r.last = b.last
        /\ r.snap = b.snap /\ r.levelLow = b.levelLow /\ r.sentLow = b.sentLow /\ r.warn = b.warn
        /\ r.led = b.led /\ r.posts = b.posts /\ r.queue = b.queue /\ r.sends = b.sends
        /\ r.invalid = b.invalid /\ r.info = w
    BY <2>1, <2>2 DEF Bat
  <2> QED BY <1>2, <2>3 DEF w
<1> QED BY <1>1, <1>2

LEMMA ShellSetKeeps ==
  ASSUME Inv, NEW c \in use.commands, NEW force \in BOOLEAN, ShellSet(c, force) PROVE Inv'
<1> DEFINE k == Copied(bat)
           b == [Write(k, c) EXCEPT !.stopped = TRUE]
<1>u. /\ UNCHANGED <<use, setting, ready, heard, hw>> /\ forced' = Override(c)
      /\ bat' = processValuesLocked(b, force)
  BY DEF ShellSet
<1>t. bat \in Bat /\ use \in Uses /\ bat.info \in Report /\ bat.stopped \in BOOLEAN
  BY DEF Inv, Types, Bat
<1>c. c \in Command /\ forced \subseteq use.commands /\ use.commands \subseteq Command
  BY <1>t, UseFacts DEF Inv, Frozen
<1>1. /\ k \in Bat /\ k.info = bat.info /\ k.invalid = bat.invalid
      /\ k.snap = bat.snap /\ k.levelLow = bat.levelLow /\ k.sentLow = bat.sentLow
      /\ k.warn = bat.warn /\ k.led = bat.led /\ k.posts = bat.posts /\ k.queue = bat.queue
      /\ k.sends = bat.sends
      /\ k.last = IF bat.stopped THEN bat.last ELSE bat.info
  BY <1>t, CopiedFacts
<1> HIDE DEF k
<1>2. /\ b \in Bat /\ b.stopped = TRUE /\ b.last = k.last
      /\ b.snap = k.snap /\ b.levelLow = k.levelLow /\ b.sentLow = k.sentLow /\ b.warn = k.warn
      /\ b.led = k.led /\ b.posts = k.posts /\ b.queue = k.queue /\ b.sends = k.sends
      /\ IF c.key = "invalid" THEN b.invalid = c.value /\ b.info = k.info
         ELSE b.invalid = k.invalid /\ b.info = [k.info EXCEPT ![c.key] = c.value]
  BY <1>1, <1>c, SetFacts
<1> HIDE DEF b
<1>w. c.key # "invalid" =>
        /\ b.info[c.key] = c.value
        /\ \A d \in Command : d.key \notin {c.key, "invalid"} => b.info[d.key] = bat.info[d.key]
        /\ c.key # "status" => b.info.status = bat.info.status
  <2> DEFINE w == [bat.info EXCEPT ![c.key] = c.value]
  <2> SUFFICES ASSUME c.key # "invalid"
               PROVE  /\ b.info[c.key] = c.value
                      /\ \A d \in Command :
                           d.key \notin {c.key, "invalid"} => b.info[d.key] = bat.info[d.key]
                      /\ c.key # "status" => b.info.status = bat.info.status
    OBVIOUS
  <2>1. b.info = w
    BY <1>1, <1>2
  <2>2. /\ w[c.key] = c.value
        /\ \A d \in Command : d.key \notin {c.key, "invalid"} => w[d.key] = bat.info[d.key]
        /\ c.key # "status" => w.status = bat.info.status
    BY <1>t, <1>c, WriteFacts
  <2> HIDE DEF w
  <2> QED BY <2>1, <2>2
<1>3. Alike(b) /\ b.warn = bat.warn
  BY <1>1, <1>2 DEF Alike
<1>s. Steady(use) => b.info.status # "UNKNOWN"
  <2> SUFFICES ASSUME Steady(use) PROVE b.info.status # "UNKNOWN"
    OBVIOUS
  <2>1. c.key # "status" /\ bat.info.status # "UNKNOWN"
    BY DEF Steady, Inv, Values
  <2>2. CASE c.key = "invalid"
    BY <1>1, <1>2, <2>1, <2>2
  <2>3. CASE c.key # "invalid"
    BY <1>w, <2>1, <2>3
  <2> QED BY <2>2, <2>3
<1>4. /\ Sound'
      /\ bat' \in Bat /\ Len(bat'.queue) <= MaxQueue
      /\ bat'.info = b.info /\ bat'.invalid = b.invalid /\ bat'.last = b.last
      /\ bat'.stopped = b.stopped
      /\ bat'.warn = bat.warn /\ bat'.snap.info = b.info /\ bat'.snap.invalid = b.invalid
  BY <1>u, <1>s, <1>3, ShowKeeps
<1>5. Types'
  BY <1>u, <1>4 DEF Inv, Types
<1>l. /\ bat'.last = hw.info /\ bat'.last \in Report /\ bat'.stopped = TRUE
      /\ Steady(use) => bat'.last.status # "UNKNOWN"
  BY <1>t, <1>1, <1>2, <1>4 DEF Inv, Frozen, Values
<1>6. Values'
  BY <1>u, <1>s, <1>l, <1>4 DEF Inv, Values
<1>7. ForcedHolds'
  <2> SUFFICES ASSUME NEW d \in Override(c)
               PROVE  IF d.key = "invalid" THEN use.switch \/ bat'.invalid = d.value
                      ELSE bat'.info[d.key] = d.value
    BY <1>u DEF ForcedHolds
  <2>1. CASE d = c
    <3>1. CASE c.key = "invalid"
      BY <1>2, <1>4, <2>1, <3>1
    <3>2. CASE c.key # "invalid"
      BY <1>w, <1>4, <2>1, <3>2
    <3> QED BY <3>1, <3>2
  <2>2. CASE d # c
    <3>0. d \in forced /\ d.key # c.key /\ d \in Command
      BY <1>c, <2>2 DEF Override
    <3>1. CASE d.key = "invalid"
      <4>1. use.switch \/ bat.invalid = d.value
        BY <3>0, <3>1 DEF Inv, Frozen, ForcedHolds
      <4>2. bat'.invalid = bat.invalid
        BY <1>1, <1>2, <1>4, <3>0, <3>1
      <4> QED BY <3>1, <4>1, <4>2
    <3>2. CASE d.key # "invalid"
      <4>1. bat.info[d.key] = d.value
        BY <3>0, <3>2 DEF Inv, Frozen, ForcedHolds
      <4>2. bat'.info[d.key] = bat.info[d.key]
        <5>1. CASE c.key = "invalid"
          BY <1>1, <1>2, <1>4, <5>1
        <5>2. CASE c.key # "invalid"
          BY <1>w, <1>4, <3>0, <3>2, <5>2
        <5> QED BY <5>1, <5>2
      <4> QED BY <3>2, <4>1, <4>2
    <3> QED BY <3>1, <3>2
  <2> QED BY <2>1, <2>2
<1>8. Frozen'
  BY <1>u, <1>c, <1>l, <1>7 DEF Frozen, Override
<1> QED BY <1>4, <1>5, <1>6, <1>8 DEF Inv

LEMMA ShellRefusedKeeps == ASSUME Inv, ShellRefused PROVE Inv'
<1>u. UNCHANGED <<use, setting, ready, heard, hw, forced>> /\ bat' = Copied(bat)
  BY DEF ShellRefused
<1>t. bat \in Bat /\ bat.info \in Report /\ bat.stopped \in BOOLEAN
  BY DEF Inv, Types, Bat
<1>1. /\ Alike(bat') /\ bat'.warn = bat.warn /\ bat'.info = bat.info /\ bat'.invalid = bat.invalid
      /\ bat'.stopped = bat.stopped /\ bat'.last = IF bat.stopped THEN bat.last ELSE bat.info
  BY <1>u, <1>t, CopiedFacts DEF Alike
<1>2. Sound' /\ Len(bat'.queue) <= MaxQueue /\ bat' \in Bat /\ bat'.snap = bat.snap
  BY <1>u, <1>1, AloneKeeps
<1>3. Types'
  BY <1>u, <1>2 DEF Inv, Types
<1>4. Values'
  BY <1>u, <1>t, <1>1, <1>2 DEF Inv, Values
<1>5. Frozen'
  BY <1>u, <1>t, <1>1 DEF Inv, Frozen, ForcedHolds
<1> QED BY <1>2, <1>3, <1>4, <1>5 DEF Inv

LEMMA ShellResetKeeps == ASSUME Inv, NEW force \in BOOLEAN, ShellReset(force) PROVE Inv'
<1> DEFINE b == [bat EXCEPT !.stopped = FALSE, !.info = bat.last]
<1>u. /\ UNCHANGED <<use, setting, ready, heard, hw>> /\ forced' = {} /\ bat.stopped
      /\ bat' = processValuesLocked(b, force)
  BY DEF ShellReset
<1>t. bat \in Bat /\ bat.last \in Report
  BY <1>u DEF Inv, Types, Values
<1>1. /\ Alike(b) /\ b.info = bat.last /\ b.invalid = bat.invalid /\ b.last = bat.last
      /\ b.stopped = FALSE /\ b.warn = bat.warn
  BY <1>t DEF Bat, Alike
<1> HIDE DEF b
<1>k. Steady(use) => b.info.status # "UNKNOWN"
  BY <1>1 DEF Inv, Values
<1>2. /\ Sound'
      /\ bat' \in Bat /\ Len(bat'.queue) <= MaxQueue
      /\ bat'.info = bat.last /\ bat'.invalid = bat.invalid /\ bat'.last = bat.last
      /\ bat'.stopped = FALSE
      /\ bat'.warn = bat.warn /\ bat'.snap.info = bat.last /\ bat'.snap.invalid = bat.invalid
  BY <1>u, <1>k, <1>1, ShowKeeps
<1>3. Types'
  BY <1>u, <1>2 DEF Inv, Types
<1>4. Values'
  BY <1>u, <1>t, <1>2 DEF Inv, Values
<1>5. Frozen'
  BY <1>u, <1>2 DEF Inv, Frozen, ForcedHolds
<1> QED BY <1>2, <1>3, <1>4, <1>5 DEF Inv

LEMMA InvNext == Inv /\ [Next]_vars => Inv'
<1> SUFFICES ASSUME Inv, [Next]_vars PROVE Inv'
  OBVIOUS
<1>1. CASE Next
  BY <1>1, UpdateKeeps, UEventKeeps, SettingKeeps, BootKeeps, DeliverKeeps, SendKeeps,
     ShellSetKeeps, ShellRefusedKeeps, ShellResetKeeps DEF Next
<1>2. CASE UNCHANGED vars
  BY <1>2 DEF vars, Inv, Types, Sound, Values, Frozen, ForcedHolds
<1> QED BY <1>1, <1>2

LEMMA InvAlways == Spec => []Inv
  BY InvInit, InvNext, PTL DEF Spec

(***************************************************************************)
(* Results                                                                 *)
(***************************************************************************)
LEMMA ToldSettled == ASSUME Inv, Settled PROVE
  /\ heard.sticky = bat.snap
  /\ heard.power = (bat.info.plug # NONE)
  /\ heard.low = bat.sentLow
<1>1. bat.posts = <<>>
  BY DEF Settled
<1>2. bat.snap.info = bat.info
  BY DEF Inv, Values
<1>3. \A k : \A h : \A v : Tells(<<>>, k, h, v) => h = v
  BY DEF Tells
<1>4. /\ Tells(<<>>, "changed", heard.sticky, bat.snap)
      /\ Tells(<<>>, "power", heard.power, bat.snap.info.plug # NONE)
      /\ Tells(<<>>, "low", heard.low, bat.sentLow)
  BY <1>1, Zenon DEF Inv, Sound, Told
<1>5. heard.sticky = bat.snap /\ heard.low = bat.sentLow
  BY <1>3, <1>4, Zenon
<1>6. heard.power = (bat.snap.info.plug # NONE)
  BY <1>3, <1>4, Zenon
<1> QED BY <1>2, <1>5, <1>6, Zenon

\* What receivers, the light and the batch of levels show is what the service
\* has, whatever the reports, settings and commands that come under mLock.
THEOREM ShownCorrect == Spec => []ShownRight
<1>1. Inv => ShownRight
  <2> SUFFICES ASSUME Inv PROVE ShownRight
    OBVIOUS
  <2>1. TypeOK
    <3>1. bat.sends \in {0, 1}
      BY DEF Inv, Sound, Batch
    <3> QED BY <3>1 DEF Inv, Types, Bat, Leds, TypeOK
  <2>0. bat.snap.info = bat.info /\ (~ use.switch => bat.snap.invalid = bat.invalid)
    BY DEF Inv, Values
  <2>2. ShownCurrent
    <3> SUFFICES ASSUME Settled
                 PROVE  /\ heard.sticky.info = bat.info
                        /\ ~ use.switch => heard.sticky.invalid = bat.invalid
                        /\ heard.power = (bat.info.plug # NONE)
                        /\ heard.low = bat.sentLow
                        /\ bat.led = updateLightsLocked(bat.info, bat.warn)
      BY Zenon DEF ShownCurrent
    <3>1. bat.led = updateLightsLocked(bat.snap.info, bat.warn)
      BY DEF Inv, Sound, Lit
    <3>2. bat.led = updateLightsLocked(bat.info, bat.warn)
      BY <2>0, <3>1
    <3>3. heard.sticky.info = bat.info /\ (~ use.switch => heard.sticky.invalid = bat.invalid)
      BY <2>0, ToldSettled
    <3> QED BY <3>2, <3>3, ToldSettled, Zenon
  <2>3. LevelsKept
    <3>1. /\ bat.queue # <<>> => bat.sends = 1 /\ Last(bat.queue) = bat.info.level
          /\ bat.queue = <<>> => heard.levels # <<>> /\ Last(heard.levels) = bat.info.level
      BY <2>0 DEF Inv, Sound, Batch
    <3> QED BY <3>1 DEF LevelsKept
  <2> QED BY <2>1, <2>2, <2>3 DEF ShownRight
<1> QED BY <1>1, InvAlways, PTL

\* A low battery is told and left, an empty one shuts the device down, at
\* every level of the warning, of the report and of the values of commands
\* that come under mLock.
THEOREM LowCorrect == Spec => []LowHandled
<1>1. Inv => LowHandled
  <2> SUFFICES ASSUME Inv PROVE LowHandled
    OBVIOUS
  <2>0. bat.snap.info = bat.info
    BY DEF Inv, Values
  <2>1. LowModeRight
    BY <2>0 DEF Inv, Sound, Lit, LowRight, LowModeRight
  <2>2. LowTold
    <3> SUFFICES ASSUME Settled, Steady(use), bat.info.plug = NONE, bat.info.level <= bat.warn
                 PROVE  heard.low
      BY DEF LowTold
    <3>1. bat.sentLow
      BY <2>0 DEF Inv, Sound, LowSent
    <3> QED BY <3>1, ToldSettled, Zenon
  <2>3. ShutdownAsked
    <3> SUFFICES ASSUME Settled, ready, NoPower(bat.info) PROVE heard.shutdown
      BY DEF ShutdownAsked
    <3>1. bat.posts = <<>> /\ ~ Requested(<<>>)
      BY DEF Settled, Requested
    <3>2. NoPower(bat.snap.info)
      BY <2>0
    <3> QED BY <3>1, <3>2 DEF Inv, Sound
  <2> QED BY <2>1, <2>2, <2>3 DEF LowHandled
<1> QED BY <1>1, InvAlways, PTL

\* The shell's values hold until the reset, which finds those of the hardware,
\* for every sequence of commands that come under mLock; a switch for the
\* invalid charger takes that one value back.
THEOREM ShellCorrect == Spec => []ShellKept
<1>1. Inv => ShellKept
  BY DEF Inv, Frozen, HardwareKept, ShellKept
<1> QED BY <1>1, InvAlways, PTL
=============================================================================
