------------------------------ MODULE DfsProofs ------------------------------
(***************************************************************************)
(* What Dfs guarantees for any objects, time-outs and number of requests:  *)
(* types, that the cores run at the mode that serves what is held, that no *)
(* time-out is forgotten, and that the timer ends no hold early that was   *)
(* not renewed.                                                            *)
(***************************************************************************)
EXTENDS Dfs, SequenceTheorems, TLAPS

Items(objs) == [obj : objs, left : Times]
Single(l) == \A i, j \in DOMAIN l : l[i].obj = l[j].obj => i = j
WorkType == [at : {"idle", "restart", "timer", "look", "check", "set", "restore"},
             force : BOOLEAN, more : BOOLEAN, period : Times \cup {None}]

\* TypeOK in these terms.
Typed ==
  /\ held \subseteq Objs /\ list \in Seq(Items(held)) /\ Single(list)
  /\ timeout_obj \in Objs \cup {None} /\ timer \in Times \cup {None}
  /\ curr_mode \in Modes /\ pending_mode \in Modes \cup {None} /\ clock \in Modes
  /\ queue \in Seq(Requests) /\ work \in WorkType
  /\ flash \in {"idle", "pe", "after", "call"}
  /\ pe_cb \in BOOLEAN /\ ready \in BOOLEAN /\ stale \in BOOLEAN
  /\ inputs \in 0 .. MaxInputs /\ raced \subseteq Objs

\* The core runs at the mode d, or will once flash is done.
Served(d) ==
  \/ curr_mode = d /\ pending_mode = None
  \/ pending_mode = d /\ pe_cb /\ flash # "idle"

\* No computation of the mode is under way.
Quiet == work.at \in {"idle", "restore"} \/ (work.at \in {"restart", "timer"} /\ ~work.more)

ModeSound ==
  /\ Locked => ready
  /\ work.at = "check" => pending_mode = Demand(held) /\ pending_mode # None /\ pe_cb
  /\ work.at = "set" => Demand(held) \in Modes /\ pending_mode = None
  /\ ready /\ ~stale /\ Quiet /\ Demand(held) \in Modes => Served(Demand(held))

\* After a sleep the clock is the lowest until the mode is restored.
Restores == \E i \in DOMAIN queue : queue[i].act = "RESTORE"
ClockSound ==
  /\ clock \in {curr_mode, Lowest}
  /\ ready /\ ~Restores /\ work.at # "restore" => clock = curr_mode

First == Head(list)
OnTime(t) == t # None /\ First.left <= t

\* Where the item the timer is set for is the first of the list.
TimerSound ==
  ready =>
    /\ timeout_obj # None /\ ~(work.at = "restart" /\ work.force) => InList(timeout_obj)
    /\ work.at \notin {"restart", "timer"} /\ list # <<>> =>
         \/ timeout_obj = First.obj /\ OnTime(timer)
         \/ timeout_obj = None /\ Stopping(First.obj)
    /\ work.at = "restart" /\ ~work.force /\ list # <<>> /\ timeout_obj = First.obj => OnTime(timer)
    /\ work.at = "timer" =>
         IF list = <<>> THEN timeout_obj = None /\ work.period = None
         ELSE /\ OnTime(work.period)
              /\ \/ timeout_obj = First.obj
                 \/ timeout_obj = None /\ Stopping(First.obj)

\* What the timer asks to stop is past its end, unless it was renewed.
Past(o) == \E i \in DOMAIN list : list[i].obj = o /\ list[i].left = 0
EarlySound ==
  ready => \A o \in held \ raced : Stopping(o) => Past(o)

IInv == Typed /\ ModeSound /\ ClockSound /\ TimerSound /\ EarlySound

-----------------------------------------------------------------------------
(* Lists and queues.                                                        *)

\* n is l with an item put in at a place, or taken out of it.
PutIn(l, n, at) ==
  /\ at \in 1 .. Len(l) + 1 /\ Len(n) = Len(l) + 1
  /\ \A i \in 1 .. at - 1 : n[i] = l[i]
  /\ \A i \in at .. Len(l) : n[i + 1] = l[i]
TakenOut(l, n, at) ==
  /\ at \in 1 .. Len(l) /\ Len(n) = Len(l) - 1
  /\ \A i \in 1 .. at - 1 : n[i] = l[i]
  /\ \A i \in at .. Len(l) - 1 : n[i] = l[i + 1]

LEMMA ListFacts ==
  ASSUME NEW S, NEW l \in Seq(S)
  PROVE  /\ Len(l) \in Nat /\ DOMAIN l = 1 .. Len(l) /\ (l = <<>> <=> Len(l) = 0)
         /\ \A i \in 1 .. Len(l) : l[i] \in S
         /\ l # <<>> => Head(l) = l[1] /\ 1 \in 1 .. Len(l)
  <1>1. Len(l) \in Nat /\ DOMAIN l = 1 .. Len(l) /\ \A i \in 1 .. Len(l) : l[i] \in S
    BY LenProperties, ElementOfSeq
  <1>2. l = <<>> <=> Len(l) = 0
    BY EmptySeq
  <1> QED BY <1>1, <1>2

LEMMA PutInFacts ==
  ASSUME NEW S, NEW l \in Seq(S), NEW e \in S, NEW at \in 1 .. Len(l) + 1,
         NEW n, n = InsertAt(l, at, e)
  PROVE  n \in Seq(S) /\ PutIn(l, n, at) /\ n[at] = e
  <1> DEFINE p == SubSeq(l, 1, at - 1)
             q == SubSeq(l, at, Len(l))
             m == <<e>>
  <1>1. Len(l) \in Nat /\ \A i \in 1 .. Len(l) : l[i] \in S
    BY ListFacts
  <1>2. p \in Seq(S) /\ Len(p) = at - 1 /\ \A i \in 1 .. at - 1 : p[i] = l[i]
    <2>1. \A i \in 1 .. at - 1 : l[i] \in S
      BY <1>1
    <2> HIDE DEF p
    <2>2. /\ p \in Seq(S) /\ Len(p) = IF 1 <= at - 1 THEN (at - 1) - 1 + 1 ELSE 0
          /\ \A i \in 1 .. (at - 1) - 1 + 1 : p[i] = l[1 + i - 1]
      BY <1>1, <2>1, SubSeqProperties DEF p
    <2> QED BY <1>1, <2>2
  <1>3. /\ q \in Seq(S) /\ Len(q) = Len(l) - at + 1
        /\ \A i \in 1 .. Len(l) - at + 1 : q[i] = l[at + i - 1]
    <2>1. \A i \in at .. Len(l) : l[i] \in S
      BY <1>1
    <2> HIDE DEF q
    <2>2. /\ q \in Seq(S) /\ Len(q) = IF at <= Len(l) THEN Len(l) - at + 1 ELSE 0
          /\ \A i \in 1 .. Len(l) - at + 1 : q[i] = l[at + i - 1]
      BY <1>1, <2>1, SubSeqProperties DEF q
    <2> QED BY <1>1, <2>2
  <1>4. m \in Seq(S) /\ Len(m) = 1 /\ m[1] = e
    OBVIOUS
  <1>5. n = (p \o m) \o q
    BY DEF InsertAt
  <1> HIDE DEF p, q, m
  <1> DEFINE r == p \o m
  <1>6. /\ r \in Seq(S) /\ Len(r) = at
        /\ \A i \in 1 .. at : r[i] = IF i <= at - 1 THEN p[i] ELSE m[i - (at - 1)]
    <2>1. /\ r \in Seq(S) /\ Len(r) = Len(p) + Len(m)
          /\ \A i \in 1 .. Len(p) + Len(m) : r[i] = IF i <= Len(p) THEN p[i] ELSE m[i - Len(p)]
      BY <1>2, <1>4, ConcatProperties, Zenon
    <2> HIDE DEF r
    <2> QED BY <1>2, <1>4, <2>1
  <1>7. n = r \o q
    BY <1>5
  <1> HIDE DEF r
  <1>8. /\ n \in Seq(S) /\ Len(n) = Len(r) + Len(q)
        /\ \A i \in 1 .. Len(r) + Len(q) : n[i] = IF i <= Len(r) THEN r[i] ELSE q[i - Len(r)]
    <2>1. r \in Seq(S) /\ q \in Seq(S)
      BY <1>3, <1>6
    <2>2. /\ r \o q \in Seq(S) /\ Len(r \o q) = Len(r) + Len(q)
          /\ \A i \in 1 .. Len(r) + Len(q) :
               (r \o q)[i] = IF i <= Len(r) THEN r[i] ELSE q[i - Len(r)]
      BY <2>1, ConcatProperties, Zenon
    <2> QED BY <1>7, <2>2, Zenon
  <1>9. Len(n) = Len(l) + 1
    BY <1>1, <1>3, <1>6, <1>8
  <1>10. \A i \in 1 .. at - 1 : n[i] = l[i]
    BY <1>1, <1>2, <1>3, <1>6, <1>8
  <1>11. n[at] = e
    BY <1>1, <1>3, <1>4, <1>6, <1>8
  <1>12. ASSUME NEW i \in at .. Len(l) PROVE n[i + 1] = l[i]
    <2>1. i + 1 \in 1 .. Len(r) + Len(q) /\ ~(i + 1 <= Len(r))
      BY <1>1, <1>3, <1>6
    <2>2. n[i + 1] = q[i + 1 - at]
      BY <1>6, <1>8, <2>1
    <2>3. i + 1 - at \in 1 .. Len(l) - at + 1 /\ at + (i + 1 - at) - 1 = i
      BY <1>1
    <2> QED BY <1>3, <2>2, <2>3
  <1> QED BY <1>8, <1>9, <1>10, <1>11, <1>12 DEF PutIn

LEMMA TakenOutFacts ==
  ASSUME NEW S, NEW l \in Seq(S), NEW at \in 1 .. Len(l), NEW n, n = RemoveAt(l, at)
  PROVE  n \in Seq(S) /\ TakenOut(l, n, at)
  <1> DEFINE p == SubSeq(l, 1, at - 1)
             q == SubSeq(l, at + 1, Len(l))
  <1>1. Len(l) \in Nat /\ \A i \in 1 .. Len(l) : l[i] \in S
    BY ListFacts
  <1>2. p \in Seq(S) /\ Len(p) = at - 1 /\ \A i \in 1 .. at - 1 : p[i] = l[i]
    <2>1. \A i \in 1 .. at - 1 : l[i] \in S
      BY <1>1
    <2> HIDE DEF p
    <2>2. /\ p \in Seq(S) /\ Len(p) = IF 1 <= at - 1 THEN (at - 1) - 1 + 1 ELSE 0
          /\ \A i \in 1 .. (at - 1) - 1 + 1 : p[i] = l[1 + i - 1]
      BY <1>1, <2>1, SubSeqProperties DEF p
    <2> QED BY <1>1, <2>2
  <1>3. /\ q \in Seq(S) /\ Len(q) = Len(l) - at
        /\ \A i \in 1 .. Len(l) - at : q[i] = l[at + i]
    <2>1. \A i \in at + 1 .. Len(l) : l[i] \in S
      BY <1>1
    <2> HIDE DEF q
    <2>2. /\ q \in Seq(S) /\ Len(q) = IF at + 1 <= Len(l) THEN Len(l) - (at + 1) + 1 ELSE 0
          /\ \A i \in 1 .. Len(l) - (at + 1) + 1 : q[i] = l[(at + 1) + i - 1]
      BY <1>1, <2>1, SubSeqProperties DEF q
    <2> QED BY <1>1, <2>2
  <1>4. n = p \o q
    BY DEF RemoveAt
  <1> HIDE DEF p, q
  <1>5. /\ n \in Seq(S) /\ Len(n) = Len(p) + Len(q)
        /\ \A i \in 1 .. Len(p) + Len(q) : n[i] = IF i <= Len(p) THEN p[i] ELSE q[i - Len(p)]
    <2>1. p \in Seq(S) /\ q \in Seq(S)
      BY <1>2, <1>3
    <2>2. /\ p \o q \in Seq(S) /\ Len(p \o q) = Len(p) + Len(q)
          /\ \A i \in 1 .. Len(p) + Len(q) :
               (p \o q)[i] = IF i <= Len(p) THEN p[i] ELSE q[i - Len(p)]
      BY <2>1, ConcatProperties, Zenon
    <2> QED BY <1>4, <2>2, Zenon
  <1>6. ASSUME NEW i \in 1 .. at - 1 PROVE n[i] = l[i]
    <2>1. i \in 1 .. Len(p) + Len(q) /\ i <= Len(p)
      BY <1>1, <1>2, <1>3
    <2>2. n[i] = p[i]
      BY <1>5, <2>1
    <2> QED BY <1>2, <2>2
  <1>7. ASSUME NEW i \in at .. Len(l) - 1 PROVE n[i] = l[i + 1]
    <2>1. i \in 1 .. Len(p) + Len(q) /\ ~(i <= Len(p)) /\ i - Len(p) = i - at + 1
      BY <1>1, <1>2, <1>3
    <2>2. i - at + 1 \in 1 .. Len(l) - at /\ at + (i - at + 1) = i + 1
      BY <1>1
    <2> QED BY <1>3, <1>5, <2>1, <2>2
  <1> QED BY <1>1, <1>2, <1>3, <1>5, <1>6, <1>7 DEF TakenOut

LEMMA Retype ==
  ASSUME NEW S, NEW T, NEW l \in Seq(S), \A i \in 1 .. Len(l) : l[i] \in T
  PROVE  l \in Seq(T)
  <1>1. Len(l) \in Nat /\ l \in [1 .. Len(l) -> S]
    BY LenProperties
  <1> DEFINE n == Len(l)
  <1>2. n \in Nat /\ l \in [1 .. n -> T]
    BY <1>1
  <1> HIDE DEF n
  <1> QED BY <1>2

LEMMA Widen ==
  ASSUME NEW h, NEW g, h \subseteq g, NEW l \in Seq(Items(h))
  PROVE  l \in Seq(Items(g))
  <1>1. \A x \in Items(h) : x \in Items(g)
    BY DEF Items
  <1> QED BY <1>1, ListFacts, Retype

LEMMA ItemFacts ==
  ASSUME NEW h, NEW l \in Seq(Items(h))
  PROVE  /\ \A i \in DOMAIN l : l[i] \in Items(h) /\ l[i].obj \in h /\ l[i].left \in Times
         /\ l # <<>> => Head(l) = l[1] /\ 1 \in DOMAIN l
  <1>1. \A x \in Items(h) : x.obj \in h /\ x.left \in Times
    BY DEF Items
  <1>2. /\ DOMAIN l = 1 .. Len(l) /\ \A i \in 1 .. Len(l) : l[i] \in Items(h)
        /\ l # <<>> => Head(l) = l[1] /\ 1 \in 1 .. Len(l)
    BY ListFacts
  <1> QED BY <1>1, <1>2

Has(l, e) == \E i \in 1 .. Len(l) : l[i] = e

LEMMA ItemsPutIn ==
  ASSUME NEW h, NEW l \in Seq(Items(h)), Single(l), NEW o, NEW e \in Items(h \cup {o}), e.obj = o,
         o \notin h, NEW at \in 1 .. Len(l) + 1, NEW n, n = InsertAt(l, at, e)
  PROVE  /\ n \in Seq(Items(h \cup {o})) /\ Single(n) /\ n # <<>>
         /\ Has(n, e) /\ \A x : Has(l, x) => Has(n, x)
         /\ Head(n) = e \/ (l # <<>> /\ Head(n) = Head(l))
  <1>1. l \in Seq(Items(h \cup {o}))
    <2>1. \A x \in Items(h) : x \in Items(h \cup {o})
      BY DEF Items
    <2> QED BY <2>1, Retype, ListFacts
  <1>2. n \in Seq(Items(h \cup {o})) /\ PutIn(l, n, at) /\ n[at] = e
    BY <1>1, PutInFacts
  <1>3. /\ Len(l) \in Nat /\ DOMAIN l = 1 .. Len(l) /\ (l = <<>> <=> Len(l) = 0)
        /\ \A i \in 1 .. Len(l) : l[i] \in Items(h)
        /\ l # <<>> => Head(l) = l[1] /\ 1 \in 1 .. Len(l)
    BY ListFacts
  <1>4. /\ Len(n) \in Nat /\ DOMAIN n = 1 .. Len(n) /\ (n = <<>> <=> Len(n) = 0)
        /\ n # <<>> => Head(n) = n[1] /\ 1 \in 1 .. Len(n)
    BY <1>2, ListFacts
  <1>5. \A i \in 1 .. Len(l) : l[i].obj # o
    BY <1>3 DEF Items
  <1>6. \A i \in 1 .. Len(n) :
          \/ i = at
          \/ i < at /\ i \in 1 .. Len(l) /\ n[i] = l[i]
          \/ i > at /\ i - 1 \in 1 .. Len(l) /\ n[i] = l[i - 1]
    <2>1. ASSUME NEW i \in 1 .. Len(n), i > at PROVE i - 1 \in 1 .. Len(l) /\ n[i] = l[i - 1]
      <3>1. i - 1 \in at .. Len(l) /\ (i - 1) + 1 = i
        BY <1>2, <1>3, <2>1 DEF PutIn
      <3>2. n[(i - 1) + 1] = l[i - 1]
        BY <1>2, <3>1 DEF PutIn
      <3> QED BY <1>3, <3>1, <3>2
    <2>2. ASSUME NEW i \in 1 .. Len(n), i < at PROVE i \in 1 .. Len(l) /\ n[i] = l[i]
      BY <1>2, <1>3, <2>2 DEF PutIn
    <2>3. \A i \in 1 .. Len(n) : i = at \/ i < at \/ i > at
      BY <1>3, <1>4
    <2> QED BY <2>1, <2>2, <2>3
  <1>7. Single(n)
    <2> SUFFICES ASSUME NEW i \in 1 .. Len(n), NEW j \in 1 .. Len(n), n[i].obj = n[j].obj
                 PROVE  i = j
      BY <1>4 DEF Single
    <2>1. i = at => j = at
      BY <1>2, <1>5, <1>6
    <2>2. j = at => i = at
      BY <1>2, <1>5, <1>6
    <2>3. \A k, m \in 1 .. Len(l) : l[k].obj = l[m].obj => k = m
      BY <1>3 DEF Single
    <2> DEFINE old(k) == IF k < at THEN k ELSE k - 1
    <2>4. ASSUME NEW k \in 1 .. Len(n), k # at PROVE old(k) \in 1 .. Len(l) /\ n[k] = l[old(k)]
      <3>1. CASE k < at
        BY <1>3, <1>4, <1>6, <3>1
      <3>2. CASE ~(k < at)
        <4>1. k > at
          BY <1>3, <1>4, <2>4, <3>2
        <4> QED BY <1>3, <1>4, <1>6, <3>2, <4>1
      <3> QED BY <3>1, <3>2
    <2> HIDE DEF old
    <2>5. CASE i # at /\ j # at
      <3>1. old(i) = old(j)
        BY <2>3, <2>4, <2>5
      <3>2. i < at \/ i > at
        BY <1>3, <1>4, <2>5
      <3>3. j < at \/ j > at
        BY <1>3, <1>4, <2>5
      <3>4. CASE i < at
        BY <1>3, <1>4, <3>1, <3>3, <3>4 DEF old
      <3>5. CASE i > at
        BY <1>3, <1>4, <3>1, <3>3, <3>5 DEF old
      <3> QED BY <3>2, <3>4, <3>5
    <2> QED BY <2>1, <2>2, <2>5
  <1>8. n # <<>> /\ at \in 1 .. Len(n)
    BY <1>2, <1>3, <1>4 DEF PutIn
  <1>9. ASSUME NEW x, Has(l, x) PROVE Has(n, x)
    <2>1. PICK i \in 1 .. Len(l) : l[i] = x
      BY <1>9 DEF Has
    <2>2. CASE i < at
      BY <1>2, <1>3, <2>1, <2>2 DEF PutIn, Has
    <2>3. CASE i >= at
      <3>1. i + 1 \in 1 .. Len(n) /\ n[i + 1] = x
        BY <1>2, <1>3, <2>1, <2>3 DEF PutIn
      <3> QED BY <3>1 DEF Has
    <2> QED BY <1>3, <2>2, <2>3
  <1>10. Head(n) = e \/ (l # <<>> /\ Head(n) = Head(l))
    <2>1. CASE at = 1
      BY <1>2, <1>4, <1>8, <2>1
    <2>2. CASE at # 1
      <3>1. 1 \in 1 .. at - 1 /\ Len(l) # 0
        BY <1>3, <2>2
      <3> QED BY <1>2, <1>3, <1>4, <1>8, <3>1 DEF PutIn
    <2> QED BY <2>1, <2>2
  <1> QED BY <1>2, <1>7, <1>8, <1>9, <1>10 DEF Has

LEMMA ItemsTakenOut ==
  ASSUME NEW h, NEW l \in Seq(Items(h)), Single(l), NEW at \in 1 .. Len(l),
         NEW n, n = RemoveAt(l, at)
  PROVE  /\ n \in Seq(Items(h \ {l[at].obj})) /\ Single(n)
         /\ \A x : Has(l, x) /\ x.obj # l[at].obj => Has(n, x)
         /\ n # <<>> /\ Head(l).obj # l[at].obj => Head(n) = Head(l)
  <1>1. n \in Seq(Items(h)) /\ TakenOut(l, n, at)
    BY TakenOutFacts
  <1>2. /\ Len(l) \in Nat /\ DOMAIN l = 1 .. Len(l) /\ (l = <<>> <=> Len(l) = 0)
        /\ \A i \in 1 .. Len(l) : l[i] \in Items(h)
        /\ l # <<>> => Head(l) = l[1] /\ 1 \in 1 .. Len(l)
    BY ListFacts
  <1>3. /\ Len(n) \in Nat /\ DOMAIN n = 1 .. Len(n) /\ (n = <<>> <=> Len(n) = 0)
        /\ n # <<>> => Head(n) = n[1] /\ 1 \in 1 .. Len(n)
    BY <1>1, ListFacts
  <1>4. \A i, j \in 1 .. Len(l) : l[i].obj = l[j].obj => i = j
    BY <1>2 DEF Single
  <1>5. /\ \A i \in 1 .. Len(n) : i < at => i \in 1 .. Len(l) /\ n[i] = l[i]
        /\ \A i \in 1 .. Len(n) : i >= at => i + 1 \in 1 .. Len(l) /\ n[i] = l[i + 1]
    BY <1>1, <1>2 DEF TakenOut
  <1>6. ASSUME NEW i \in 1 .. Len(n) PROVE n[i] \in Items(h \ {l[at].obj})
    <2>1. n[i] \in Items(h) /\ n[i].obj # l[at].obj
      <3>1. CASE i < at
        <4>1. i # at /\ i \in 1 .. Len(l) /\ n[i] = l[i]
          BY <1>2, <1>3, <1>5, <3>1
        <4> QED BY <1>2, <1>4, <4>1
      <3>2. CASE i >= at
        <4>1. i + 1 # at /\ i + 1 \in 1 .. Len(l) /\ n[i] = l[i + 1]
          BY <1>2, <1>5, <3>2
        <4> QED BY <1>2, <1>4, <4>1
      <3> QED BY <1>2, <1>3, <3>1, <3>2
    <2> QED BY <2>1 DEF Items
  <1>7. n \in Seq(Items(h \ {l[at].obj}))
    BY <1>1, <1>6, Retype
  <1>8. Single(n)
    <2> SUFFICES ASSUME NEW i \in 1 .. Len(n), NEW j \in 1 .. Len(n), n[i].obj = n[j].obj
                 PROVE  i = j
      BY <1>3 DEF Single
    <2> DEFINE old(k) == IF k < at THEN k ELSE k + 1
    <2>1. ASSUME NEW k \in 1 .. Len(n) PROVE old(k) \in 1 .. Len(l) /\ n[k] = l[old(k)]
      <3>1. CASE k < at
        BY <1>5, <3>1
      <3>2. CASE ~(k < at)
        <4>1. k >= at
          BY <1>2, <1>3, <3>2
        <4> QED BY <1>5, <3>2, <4>1
      <3> QED BY <3>1, <3>2
    <2> HIDE DEF old
    <2>2. old(i) = old(j)
      BY <1>4, <2>1
    <2>3. (i < at /\ j < at) \/ (i >= at /\ j >= at) => i = j
      BY <1>2, <1>3, <2>2 DEF old
    <2>4. ~(i < at /\ j >= at) /\ ~(i >= at /\ j < at)
      BY <1>2, <1>3, <2>2 DEF old
    <2>5. (i < at \/ i >= at) /\ (j < at \/ j >= at)
      BY <1>2, <1>3
    <2>6. (i < at /\ j < at) \/ (i >= at /\ j >= at)
      BY <2>4, <2>5, Zenon
    <2> QED BY <2>3, <2>6, Zenon
  <1>9. ASSUME NEW x, Has(l, x), x.obj # l[at].obj PROVE Has(n, x)
    <2>1. PICK i \in 1 .. Len(l) : l[i] = x
      BY <1>9 DEF Has
    <2>2. i # at
      BY <1>9, <2>1
    <2>3. CASE i < at
      <3>1. i \in 1 .. Len(n) /\ n[i] = x
        BY <1>1, <1>2, <2>1, <2>3 DEF TakenOut
      <3> QED BY <3>1 DEF Has
    <2>4. CASE i > at
      <3>1. i - 1 \in at .. Len(l) - 1 /\ (i - 1) + 1 = i /\ i - 1 \in 1 .. Len(n)
        BY <1>1, <1>2, <2>4 DEF TakenOut
      <3>2. n[i - 1] = l[(i - 1) + 1]
        BY <1>1, <3>1 DEF TakenOut
      <3> QED BY <2>1, <3>1, <3>2 DEF Has
    <2> QED BY <1>2, <2>2, <2>3, <2>4
  <1>10. ASSUME n # <<>>, Head(l).obj # l[at].obj PROVE Head(n) = Head(l)
    <2>1. at # 1 /\ l # <<>>
      BY <1>2, <1>10
    <2>2. 1 \in 1 .. at - 1
      BY <1>2, <2>1
    <2> QED BY <1>1, <1>2, <1>3, <1>10, <2>1, <2>2 DEF TakenOut
  <1> QED BY <1>7, <1>8, <1>9, <1>10

LEMMA Shapes ==
  /\ \A m \in Requests :
       /\ m.act \in {"START", "STOP", "RESTORE"}
       /\ m.act = "START" => m.obj \in Objs /\ m.timeout \in Times
       /\ m.act = "STOP" => m.obj \in Objs /\ m.auto \in BOOLEAN
  /\ \A o \in Objs : [act |-> "STOP", obj |-> o, auto |-> TRUE] \in Requests
  /\ [act |-> "RESTORE"] \in Requests
  <1>1. \A m \in Requests :
          /\ m.act \in {"START", "STOP", "RESTORE"}
          /\ m.act = "START" => m.obj \in Objs /\ m.timeout \in Timeouts
          /\ m.act = "STOP" => m.obj \in Objs /\ m.auto \in BOOLEAN
    BY DEF Requests
  <1> QED BY <1>1, DfsAssumption DEF Requests

\* What appending and taking a request does to those that wait.
LEMMA Appended ==
  ASSUME queue \in Seq(Requests), NEW m \in Requests, queue' = Append(queue, m)
  PROVE  /\ queue' \in Seq(Requests)
         /\ \A o : Stopping(o) => Stopping(o)'
         /\ \A o : Stopping(o)' /\ ~Stopping(o) => m.act = "STOP" /\ m.obj = o /\ m.auto
         /\ \A o : m.act = "STOP" /\ m.obj = o /\ m.auto => Stopping(o)'
         /\ Restores => Restores'
         /\ m.act = "RESTORE" => Restores'
  <1>1. /\ queue' \in Seq(Requests) /\ Len(queue') = Len(queue) + 1
        /\ \A i \in 1 .. Len(queue) : queue'[i] = queue[i]
        /\ queue'[Len(queue) + 1] = m
    BY AppendProperties
  <1>2. Len(queue) \in Nat /\ DOMAIN queue = 1 .. Len(queue) /\ DOMAIN queue' = 1 .. Len(queue')
    BY <1>1, ListFacts
  <1>3. \A i \in DOMAIN queue' : i \in DOMAIN queue \/ i = Len(queue) + 1
    BY <1>1, <1>2
  <1>4. DOMAIN queue \subseteq DOMAIN queue' /\ Len(queue) + 1 \in DOMAIN queue'
    BY <1>1, <1>2
  <1> QED BY <1>1, <1>2, <1>3, <1>4 DEF Stopping, Restores

LEMMA Removed ==
  ASSUME queue \in Seq(Requests), queue # <<>>, queue' = Tail(queue), NEW m, m = Head(queue)
  PROVE  /\ queue' \in Seq(Requests) /\ m \in Requests
         /\ \A o : Stopping(o)' => Stopping(o)
         /\ \A o : Stopping(o) /\ ~(m.act = "STOP" /\ m.obj = o) => Stopping(o)'
         /\ \A o : m.act = "STOP" /\ m.obj = o /\ m.auto => Stopping(o)
         /\ Restores' => Restores
         /\ Restores /\ m.act # "RESTORE" => Restores'
  <1>1. /\ queue' \in Seq(Requests) /\ Len(queue') = Len(queue) - 1
        /\ \A i \in 1 .. Len(queue') : queue'[i] = queue[i + 1]
    BY HeadTailProperties
  <1>2. /\ Len(queue) \in Nat /\ DOMAIN queue = 1 .. Len(queue) /\ DOMAIN queue' = 1 .. Len(queue')
        /\ m = queue[1] /\ 1 \in DOMAIN queue /\ m \in Requests
    BY <1>1, ListFacts
  <1>3. \A i \in DOMAIN queue' : i + 1 \in DOMAIN queue /\ queue'[i] = queue[i + 1]
    BY <1>1, <1>2
  <1>4. ASSUME NEW i \in DOMAIN queue, i # 1
        PROVE  i - 1 \in DOMAIN queue' /\ queue'[i - 1] = queue[i]
    BY <1>1, <1>2, <1>4
  <1>5. \A o : Stopping(o)' => Stopping(o)
    BY <1>3 DEF Stopping
  <1>6. ASSUME NEW o, Stopping(o), ~(m.act = "STOP" /\ m.obj = o) PROVE Stopping(o)'
    <2>1. PICK i \in DOMAIN queue : queue[i].act = "STOP" /\ queue[i].obj = o /\ queue[i].auto
      BY <1>6 DEF Stopping
    <2>2. i # 1
      BY <1>2, <1>6, <2>1
    <2> QED BY <1>4, <2>1, <2>2 DEF Stopping
  <1>7. \A o : m.act = "STOP" /\ m.obj = o /\ m.auto => Stopping(o)
    BY <1>2 DEF Stopping
  <1>8. Restores' => Restores
    BY <1>3 DEF Restores
  <1>9. ASSUME Restores, m.act # "RESTORE" PROVE Restores'
    <2>1. PICK i \in DOMAIN queue : queue[i].act = "RESTORE"
      BY <1>9 DEF Restores
    <2>2. i # 1
      BY <1>2, <1>9, <2>1
    <2> QED BY <1>4, <2>1, <2>2 DEF Restores
  <1> QED BY <1>1, <1>2, <1>5, <1>6, <1>7, <1>8, <1>9

\* An object under a fixed one does not change what is asked for.
LEMMA Overridden ==
  ASSUME NEW h, NEW o
  PROVE  /\ ~Counts(o, h \cup {o}) => Demand(h \cup {o}) = Demand(h)
         /\ ~Counts(o, h \ {o}) => Demand(h \ {o}) = Demand(h)
  <1>1. ~Counts(o, h \cup {o}) => (h \cup {o}) \cap Fixed = h \cap Fixed /\ h \cap Fixed # {}
    BY DEF Counts
  <1>2. ~Counts(o, h \ {o}) => (h \ {o}) \cap Fixed = h \cap Fixed /\ h \cap Fixed # {}
    BY DEF Counts
  <1> QED BY <1>1, <1>2 DEF Demand

-----------------------------------------------------------------------------
(* What the requests do to the list.                                        *)

LEMMA InListHas ==
  ASSUME NEW h, list \in Seq(Items(h))
  PROVE  /\ \A o : InList(o) <=> \E x : Has(list, x) /\ x.obj = o
         /\ \A o : Past(o) <=> \E x : Has(list, x) /\ x.obj = o /\ x.left = 0
         /\ \A x : Has(list, x) => x \in Items(h)
  BY ListFacts DEF InList, Past, Has

\* An item is added to a list without one of its object.
LEMMA AddedFacts ==
  ASSUME list \in Seq(Items(held)), Single(list), NEW o \in Objs, o \notin held, NEW t \in Times,
         list' \in Added(o, t)
  PROVE  /\ list' \in Seq(Items(held \cup {o})) /\ Single(list') /\ list' # <<>>
         /\ \A p : InList(p) => InList(p)'
         /\ \A p : Past(p) => Past(p)'
         /\ First'.obj = o \/ (list # <<>> /\ First' = First)
  <1> DEFINE e == [obj |-> o, left |-> t]
  <1>1. PICK at \in 1 .. Len(list) + 1 : list' = InsertAt(list, at, e)
    BY DEF Added, Places
  <1>2. e \in Items(held \cup {o}) /\ e.obj = o
    BY DEF Items
  <1> HIDE DEF e
  <1>3. /\ list' \in Seq(Items(held \cup {o})) /\ Single(list') /\ list' # <<>>
        /\ \A x : Has(list, x) => Has(list', x)
        /\ Head(list') = e \/ (list # <<>> /\ Head(list') = Head(list))
    BY <1>1, <1>2, ItemsPutIn
  <1>4. /\ \A p : InList(p) <=> \E x : Has(list, x) /\ x.obj = p
        /\ \A p : Past(p) <=> \E x : Has(list, x) /\ x.obj = p /\ x.left = 0
    BY InListHas
  <1>5. /\ \A p : InList(p)' <=> \E x : Has(list', x) /\ x.obj = p
        /\ \A p : Past(p)' <=> \E x : Has(list', x) /\ x.obj = p /\ x.left = 0
    BY <1>3, ListFacts DEF InList, Past, Has
  <1> QED BY <1>2, <1>3, <1>4, <1>5 DEF First

LEMMA DeletedFacts ==
  ASSUME list \in Seq(Items(held)), Single(list), NEW o, list' = Deleted(o)
  PROVE  /\ list' \in Seq(Items(held \ {o})) /\ Single(list')
         /\ \A p : InList(p) /\ p # o => InList(p)'
         /\ \A p : Past(p) /\ p # o => Past(p)'
         /\ list' # <<>> => list # <<>>
         /\ list' # <<>> /\ First.obj # o => First' = First
  <1>1. /\ \A p : InList(p) <=> \E x : Has(list, x) /\ x.obj = p
        /\ \A p : Past(p) <=> \E x : Has(list, x) /\ x.obj = p /\ x.left = 0
    BY InListHas
  <1>2. CASE InList(o)
    <2>1. PICK at \in 1 .. Len(list) : list[at].obj = o /\ list' = RemoveAt(list, at)
      BY <1>2, ListFacts DEF Deleted, InList
    <2>2. /\ list' \in Seq(Items(held \ {o})) /\ Single(list')
          /\ \A x : Has(list, x) /\ x.obj # o => Has(list', x)
          /\ list' # <<>> /\ Head(list).obj # o => Head(list') = Head(list)
      BY <2>1, ItemsTakenOut
    <2>3. /\ \A p : InList(p)' <=> \E x : Has(list', x) /\ x.obj = p
          /\ \A p : Past(p)' <=> \E x : Has(list', x) /\ x.obj = p /\ x.left = 0
      BY <2>2, ListFacts DEF InList, Past, Has
    <2>4. list # <<>>
      BY <1>2, ListFacts DEF InList
    <2> QED BY <1>1, <2>2, <2>3, <2>4 DEF First
  <1>3. CASE ~InList(o)
    <2>1. list' = list
      BY <1>3 DEF Deleted
    <2>2. ASSUME NEW i \in 1 .. Len(list) PROVE list[i] \in Items(held \ {o})
      <3>1. list[i] \in Items(held) /\ i \in DOMAIN list
        BY ListFacts
      <3>2. list[i].obj # o
        BY <1>3, <3>1 DEF InList
      <3> QED BY <3>1, <3>2 DEF Items
    <2>3. list \in Seq(Items(held \ {o}))
      BY <2>2, Retype
    <2> QED BY <2>1, <2>3 DEF InList, Past, First
  <1> QED BY <1>2, <1>3

\* The ends of items change, their objects do not.
LEMMA MappedFacts ==
  ASSUME NEW h, list \in Seq(Items(h)), Single(list),
         list' = [i \in DOMAIN list |-> list'[i]],
         \A i \in DOMAIN list : list'[i] \in Items(h) /\ list'[i].obj = list[i].obj
  PROVE  /\ list' \in Seq(Items(h)) /\ Single(list') /\ (list' = <<>> <=> list = <<>>)
         /\ \A p : InList(p) <=> InList(p)'
         /\ \A p : Past(p)
              /\ (\A i \in DOMAIN list : list[i].obj = p /\ list[i].left = 0 => list'[i].left = 0)
              => Past(p)'
         /\ list # <<>> => First = list[1] /\ First' = list'[1] /\ 1 \in DOMAIN list
  <1> DEFINE n == Len(list)
  <1>1. n \in Nat /\ DOMAIN list = 1 .. n /\ (list = <<>> <=> n = 0)
    BY ListFacts
  <1>2. list # <<>> => First = list[1] /\ 1 \in DOMAIN list
    BY ListFacts DEF First
  <1> HIDE DEF n
  <1>3. list' \in [1 .. n -> Items(h)]
    BY <1>1
  <1>4. list' \in Seq(Items(h))
    BY <1>1, <1>3
  <1>5. DOMAIN list' = 1 .. n
    BY <1>3
  <1>6. (list' = <<>> <=> n = 0) /\ (list' # <<>> => First' = list'[1])
    <2>1. DOMAIN list' = 1 .. Len(list') /\ Len(list') \in Nat /\ (list' = <<>> <=> Len(list') = 0)
      BY <1>4, ListFacts
    <2>2. Len(list') = n
      BY <1>1, <1>5, <2>1
    <2>3. list' # <<>> => Head(list') = list'[1]
      BY <1>4, ListFacts
    <2> QED BY <2>1, <2>2, <2>3 DEF First
  <1>7. Single(list')
    BY <1>1, <1>5 DEF Single
  <1>8. \A p : InList(p) <=> InList(p)'
    BY <1>1, <1>5 DEF InList
  <1>9. ASSUME NEW p, Past(p),
               \A i \in DOMAIN list : list[i].obj = p /\ list[i].left = 0 => list'[i].left = 0
        PROVE  Past(p)'
    BY <1>1, <1>5, <1>9 DEF Past
  <1> QED BY <1>1, <1>2, <1>4, <1>6, <1>7, <1>8, <1>9

-----------------------------------------------------------------------------
(* The steps of the share task.                                             *)

\* Where the task stands after a step that began or ended its work.
WorkIs(at, force, more) ==
  /\ work' \in WorkType
  /\ work'.at = at /\ work'.force = force /\ work'.more = more

LEMMA Works ==
  ASSUME NEW a \in {"idle", "restart", "timer", "look", "check", "set", "restore"},
         NEW b \in BOOLEAN
  PROVE  /\ work' = Idle => WorkIs("idle", FALSE, FALSE)
         /\ work' = [Idle EXCEPT !.at = a] => WorkIs(a, FALSE, FALSE)
         /\ work' = [Idle EXCEPT !.at = a, !.force = b] => WorkIs(a, b, FALSE)
         /\ work' = [Idle EXCEPT !.at = a, !.more = b] => WorkIs(a, FALSE, b)
  <1>1. Idle \in WorkType /\ Idle.at = "idle" /\ Idle.force = FALSE /\ Idle.more = FALSE
    BY DEF Idle, WorkType
  <1>2. work' = [Idle EXCEPT !.at = a] => WorkIs(a, FALSE, FALSE)
    BY <1>1 DEF WorkType, WorkIs
  <1>3. work' = [Idle EXCEPT !.at = a, !.force = b] => WorkIs(a, b, FALSE)
    BY <1>1 DEF WorkType, WorkIs
  <1>4. work' = [Idle EXCEPT !.at = a, !.more = b] => WorkIs(a, FALSE, b)
    BY <1>1 DEF WorkType, WorkIs
  <1> QED BY <1>1, <1>2, <1>3, <1>4 DEF WorkIs

\* The parts of the invariant across steps that leave what they are about.
LEMMA Frames ==
  /\ ModeSound /\ UNCHANGED <<held, curr_mode, pending_mode, pe_cb, stale, ready, work>>
       /\ (flash # "idle" => flash' # "idle") => ModeSound'
  /\ ClockSound /\ UNCHANGED <<clock, curr_mode, ready>> /\ (Restores => Restores')
       /\ (work.at = "restore" => work'.at = "restore") => ClockSound'
  /\ TimerSound /\ UNCHANGED <<list, timeout_obj, timer, ready>>
       /\ (\A o : Stopping(o) => Stopping(o)')
       /\ work.at \notin {"restart", "timer"} /\ work'.at \notin {"restart", "timer"} => TimerSound'
  /\ TimerSound /\ UNCHANGED <<list, timeout_obj, timer, ready, work>>
       /\ (\A o : Stopping(o) => Stopping(o)') => TimerSound'
  /\ EarlySound /\ UNCHANGED <<held, list, ready, raced>>
       /\ (\A o : Stopping(o)' => Stopping(o)) => EarlySound'
  <1>1. ModeSound /\ UNCHANGED <<held, curr_mode, pending_mode, pe_cb, stale, ready, work>>
          /\ (flash # "idle" => flash' # "idle") => ModeSound'
    BY DEF ModeSound, Served, Quiet, Locked
  <1>2. ClockSound /\ UNCHANGED <<clock, curr_mode, ready>> /\ (Restores => Restores')
          /\ (work.at = "restore" => work'.at = "restore") => ClockSound'
    BY DEF ClockSound
  <1>3. TimerSound /\ UNCHANGED <<list, timeout_obj, timer, ready>>
          /\ (\A o : Stopping(o) => Stopping(o)')
          /\ work.at \notin {"restart", "timer"} /\ work'.at \notin {"restart", "timer"} => TimerSound'
    BY DEF TimerSound, InList, First, OnTime
  <1>4. TimerSound /\ UNCHANGED <<list, timeout_obj, timer, ready, work>>
          /\ (\A o : Stopping(o) => Stopping(o)') => TimerSound'
    BY DEF TimerSound, InList, First, OnTime
  <1>5. EarlySound /\ UNCHANGED <<held, list, ready, raced>>
          /\ (\A o : Stopping(o)' => Stopping(o)) => EarlySound'
    BY DEF EarlySound, Past
  <1> QED BY <1>1, <1>2, <1>3, <1>4, <1>5

LEMMA SameQueue ==
  ASSUME queue' = queue
  PROVE  (\A o : Stopping(o)' <=> Stopping(o)) /\ (Restores' <=> Restores)
  BY DEF Stopping, Restores

LEMMA StartStep ==
  ASSUME IInv, work.at = "idle", queue # <<>>, queue' = Tail(queue), ready,
         Head(queue).act = "START", Start(Head(queue).obj, Head(queue).timeout),
         UNCHANGED <<timer, modes, driver, ready, inputs, stale>>
  PROVE  IInv'
  <1> DEFINE m == Head(queue)
             o == m.obj
             t == m.timeout
  <1>1. Typed /\ ModeSound /\ ClockSound /\ TimerSound /\ EarlySound
    BY DEF IInv
  <1>2. queue \in Seq(Requests) /\ list \in Seq(Items(held)) /\ Single(list) /\ held \subseteq Objs
    BY <1>1 DEF Typed
  <1>3. /\ queue' \in Seq(Requests) /\ m \in Requests
        /\ \A p : Stopping(p)' => Stopping(p)
        /\ \A p : Stopping(p) => Stopping(p)'
        /\ Restores' <=> Restores
    BY <1>2, Removed
  <1>4. o \in Objs /\ t \in Times
    BY <1>3, Shapes
  <1> HIDE DEF m
  <1>5. /\ raced' \subseteq Objs /\ raced \subseteq raced' /\ (Stopping(o) => o \in raced')
        /\ timeout_obj' = timeout_obj
    BY <1>1, <1>4 DEF Typed, Start, m
  <1>6. curr_mode' = curr_mode /\ pending_mode' = pending_mode /\ clock' = clock /\ flash' = flash
        /\ pe_cb' = pe_cb /\ ready' /\ stale' = stale /\ inputs' = inputs /\ timer' = timer
    BY DEF modes, driver
  <1>7. ClockSound'
    BY <1>1, <1>3, <1>6 DEF ClockSound
  <1>8. Demand(held) \in Modes /\ ~stale => Served(Demand(held))
    BY <1>1 DEF ModeSound, Quiet
  <1>9. CASE o \in held
    <2>1. /\ list' = Modified(o, t) /\ held' = held
          /\ work' = [Idle EXCEPT !.at = "restart", !.force = TRUE]
      BY <1>9 DEF Start, m
    <2>2. /\ work' \in WorkType /\ work'.at = "restart" /\ work'.force /\ ~work'.more
      BY <2>1, Works DEF WorkIs
    <2>3. /\ list' \in Seq(Items(held)) /\ Single(list')
          /\ \A p : Past(p) /\ p # o => Past(p)'
      <3>1. CASE t = 0
        <4>1. list' = Deleted(o)
          BY <2>1, <3>1 DEF Modified
        <4>2. /\ list' \in Seq(Items(held \ {o})) /\ Single(list')
              /\ \A p : Past(p) /\ p # o => Past(p)'
          BY <1>2, <4>1, DeletedFacts
        <4>3. list' \in Seq(Items(held))
          BY <4>2, Widen
        <4> QED BY <4>2, <4>3
      <3>2. CASE t # 0
        <4> DEFINE f(i) == IF list[i].obj = o /\ list[i].left < t
                             THEN [list[i] EXCEPT !.left = t] ELSE list[i]
        <4>1. list' = [i \in DOMAIN list |-> f(i)]
          BY <2>1, <3>2 DEF Modified
        <4>2. ASSUME NEW i \in DOMAIN list
              PROVE  /\ f(i) \in Items(held) /\ f(i).obj = list[i].obj
                     /\ list[i].obj # o => f(i) = list[i]
          <5>1. list[i] \in Items(held)
            BY <1>2, ListFacts
          <5> QED BY <1>4, <5>1 DEF Items
        <4> HIDE DEF f
        <4>3. /\ list' = [i \in DOMAIN list |-> list'[i]]
              /\ \A i \in DOMAIN list : list'[i] \in Items(held) /\ list'[i].obj = list[i].obj
              /\ \A i \in DOMAIN list : list[i].obj # o => list'[i] = list[i]
          BY <4>1, <4>2
        <4>4. /\ list' \in Seq(Items(held)) /\ Single(list')
              /\ \A p : Past(p)
                   /\ (\A i \in DOMAIN list :
                          list[i].obj = p /\ list[i].left = 0 => list'[i].left = 0)
                   => Past(p)'
          BY <1>2, <4>3, MappedFacts
        <4> QED BY <4>3, <4>4
      <3> QED BY <3>1, <3>2
    <2>4. Typed'
      BY <1>1, <1>3, <1>5, <1>6, <2>1, <2>2, <2>3 DEF Typed
    <2>5. ModeSound'
      <3>1. Demand(held') = Demand(held)
        BY <2>1
      <3> QED BY <1>6, <1>8, <2>2, <3>1 DEF ModeSound, Quiet, Served, Locked
    <2>6. TimerSound'
      BY <2>2 DEF TimerSound
    <2>7. EarlySound'
      BY <1>1, <1>3, <1>5, <2>1, <2>3 DEF EarlySound
    <2> QED BY <1>7, <2>4, <2>5, <2>6, <2>7 DEF IInv
  <1>10. CASE o \notin held
    <2> DEFINE more == Counts(o, held \cup {o})
               at == IF t # 0 THEN "restart" ELSE IF more THEN "look" ELSE "idle"
    <2>1. /\ held' = held \cup {o} /\ list' \in (IF t = 0 THEN {list} ELSE Added(o, t))
          /\ work' = [Idle EXCEPT !.at = at, !.more = more]
      BY <1>10 DEF Start, m
    <2>2. more \in BOOLEAN
      BY DEF Counts
    <2>3. /\ work' \in WorkType /\ work'.at = at /\ ~work'.force /\ work'.more = more
      <3>1. at \in {"idle", "restart", "timer", "look", "check", "set", "restore"}
        OBVIOUS
      <3> HIDE DEF at, more
      <3> QED BY <2>1, <2>2, <3>1, Works DEF WorkIs
    <2>4. ~more => Demand(held') = Demand(held)
      BY <2>1, Overridden
    <2> HIDE DEF more
    <2>5. ModeSound'
      BY <1>6, <1>8, <2>2, <2>3, <2>4 DEF ModeSound, Quiet, Served, Locked
    <2>6. CASE t = 0
      <3>1. list' = list
        BY <2>1, <2>6
      <3>2. list' \in Seq(Items(held'))
        <4>1. held \subseteq held'
          BY <2>1
        <4> QED BY <1>2, <3>1, <4>1, Widen
      <3>3. Typed'
        BY <1>1, <1>2, <1>3, <1>4, <1>5, <1>6, <2>1, <2>3, <3>1, <3>2 DEF Typed
      <3>4. TimerSound'
        BY <1>1, <1>3, <1>5, <1>6, <2>3, <2>6, <3>1 DEF TimerSound, InList, First, OnTime
      <3>5. EarlySound'
        BY <1>1, <1>3, <1>5, <2>1, <3>1 DEF EarlySound, Past
      <3> QED BY <1>7, <2>5, <3>3, <3>4, <3>5 DEF IInv
    <2>7. CASE t # 0
      <3>1. /\ list' \in Seq(Items(held')) /\ Single(list') /\ list' # <<>>
            /\ \A p : InList(p) => InList(p)'
            /\ \A p : Past(p) => Past(p)'
            /\ First'.obj = o \/ (list # <<>> /\ First' = First)
        BY <1>2, <1>4, <1>10, <2>1, <2>7, AddedFacts
      <3>2. Typed'
        BY <1>1, <1>3, <1>4, <1>5, <1>6, <2>1, <2>3, <3>1 DEF Typed
      <3>3. TimerSound'
        <4>1. timeout_obj # None => InList(timeout_obj) /\ list # <<>>
          <5>1. timeout_obj # None => InList(timeout_obj)
            BY <1>1 DEF TimerSound
          <5> QED BY <1>2, <5>1, ListFacts DEF InList
        <4>2. timeout_obj # o
          <5>1. o # None
            BY <1>4, DfsAssumption
          <5>2. InList(o) => o \in held
            BY <1>2, ItemFacts DEF InList
          <5> QED BY <1>10, <4>1, <5>1, <5>2
        <4>3. First'.obj = timeout_obj => OnTime(timer) /\ First' = First
          <5>1. First'.obj = timeout_obj => list # <<>> /\ First' = First
            BY <3>1, <4>2
          <5>2. list # <<>> => First.obj \in Objs
            BY <1>2, ItemFacts DEF First
          <5>3. First'.obj = timeout_obj => timeout_obj # None
            BY <5>1, <5>2, DfsAssumption
          <5> QED BY <1>1, <5>1, <5>3 DEF TimerSound
        <4> QED BY <1>5, <1>6, <2>3, <2>7, <3>1, <4>1, <4>3 DEF TimerSound, OnTime
      <3>4. EarlySound'
        BY <1>1, <1>3, <1>5, <2>1, <3>1 DEF EarlySound
      <3> QED BY <1>7, <2>5, <3>2, <3>3, <3>4 DEF IInv
    <2> QED BY <2>6, <2>7
  <1> QED BY <1>9, <1>10

LEMMA StopStep ==
  ASSUME IInv, work.at = "idle", queue # <<>>, queue' = Tail(queue), ready,
         Head(queue).act = "STOP", Stop(Head(queue).obj),
         UNCHANGED <<timer, modes, driver, ready, inputs, stale>>
  PROVE  IInv'
  <1> DEFINE m == Head(queue)
             o == m.obj
             more == Counts(o, held \ {o})
  <1>1. Typed /\ ModeSound /\ ClockSound /\ TimerSound /\ EarlySound
    BY DEF IInv
  <1>2. queue \in Seq(Requests) /\ list \in Seq(Items(held)) /\ Single(list) /\ held \subseteq Objs
    BY <1>1 DEF Typed
  <1>3. /\ queue' \in Seq(Requests) /\ m \in Requests
        /\ \A p : Stopping(p)' => Stopping(p)
        /\ \A p : Stopping(p) /\ p # o => Stopping(p)'
        /\ Restores' <=> Restores
    BY <1>2, Removed
  <1>4. o \in Objs
    BY <1>3, Shapes
  <1>5. /\ held' = held \ {o} /\ list' = Deleted(o) /\ raced' = raced
        /\ timeout_obj' = (IF InList(o) /\ timeout_obj = o THEN None ELSE timeout_obj)
        /\ work' = [Idle EXCEPT !.at = "restart", !.more = more]
    BY DEF Stop, m
  <1> HIDE DEF m
  <1>6. more \in BOOLEAN
    BY DEF Counts
  <1>7. ~more => Demand(held') = Demand(held)
    BY <1>5, Overridden
  <1> HIDE DEF more
  <1>8. work' \in WorkType /\ work'.at = "restart" /\ ~work'.force /\ work'.more = more
    BY <1>5, <1>6, Works DEF WorkIs
  <1>9. /\ curr_mode' = curr_mode /\ pending_mode' = pending_mode /\ clock' = clock /\ flash' = flash
        /\ pe_cb' = pe_cb /\ ready' /\ stale' = stale /\ inputs' = inputs /\ timer' = timer
    BY DEF modes, driver
  <1>10. /\ list' \in Seq(Items(held')) /\ Single(list')
         /\ \A p : InList(p) /\ p # o => InList(p)'
         /\ \A p : Past(p) /\ p # o => Past(p)'
         /\ list' # <<>> => list # <<>>
         /\ list' # <<>> /\ First.obj # o => First' = First
    BY <1>2, <1>5, DeletedFacts
  <1>11. Typed'
    BY <1>1, <1>3, <1>4, <1>5, <1>8, <1>9, <1>10 DEF Typed
  <1>12. ModeSound'
    <2>1. Demand(held) \in Modes /\ ~stale => Served(Demand(held))
      BY <1>1 DEF ModeSound, Quiet
    <2> QED BY <1>7, <1>8, <1>9, <2>1 DEF ModeSound, Quiet, Served, Locked
  <1>13. ClockSound'
    BY <1>1, <1>3, <1>8, <1>9, Frames
  <1>14. TimerSound'
    <2>1. timeout_obj' # None => timeout_obj' = timeout_obj /\ timeout_obj # o /\ InList(timeout_obj)
      BY <1>1, <1>5 DEF TimerSound
    <2>2. ASSUME list' # <<>>, timeout_obj' = First'.obj PROVE OnTime(timer)'
      <3>1. timeout_obj' # None
        <4>1. First'.obj \in held'
          BY <1>10, <2>2, ItemFacts DEF First
        <4> QED BY <1>2, <1>5, <2>2, <4>1, DfsAssumption
      <3>2. timeout_obj = First.obj /\ OnTime(timer)
        BY <1>1, <1>10, <2>1, <2>2, <3>1 DEF TimerSound
      <3> QED BY <1>9, <1>10, <2>1, <2>2, <3>1, <3>2 DEF OnTime
    <2> QED BY <1>8, <1>10, <2>1, <2>2 DEF TimerSound
  <1>15. EarlySound'
    BY <1>1, <1>3, <1>5, <1>10 DEF EarlySound
  <1> QED BY <1>11, <1>12, <1>13, <1>14, <1>15 DEF IInv

LEMMA TakeStep == IInv /\ Take => IInv'
  <1> SUFFICES ASSUME IInv, Take PROVE IInv'
    OBVIOUS
  <1> DEFINE m == Head(queue)
  <1>1. Typed /\ ModeSound /\ ClockSound /\ TimerSound /\ EarlySound
    BY DEF IInv
  <1>2. /\ work.at = "idle" /\ queue # <<>> /\ queue' = Tail(queue) /\ queue \in Seq(Requests)
        /\ UNCHANGED <<timer, modes, driver, ready, inputs, stale>>
    BY <1>1 DEF Take, Typed
  <1>3. /\ queue' \in Seq(Requests) /\ m \in Requests
        /\ \A p : Stopping(p)' => Stopping(p)
        /\ \A p : Stopping(p) /\ ~(m.act = "STOP" /\ m.obj = p) => Stopping(p)'
        /\ Restores' => Restores
        /\ Restores /\ m.act # "RESTORE" => Restores'
    BY <1>2, Removed
  <1>4. CASE m.act = "START" /\ ready /\ Start(m.obj, m.timeout)
    BY <1>2, <1>4, StartStep
  <1>5. CASE m.act = "STOP" /\ ready /\ m.obj \in held /\ Stop(m.obj)
    BY <1>2, <1>5, StopStep
  <1>6. CASE /\ \/ m.act # "RESTORE" /\ ~ready
                \/ m.act = "STOP" /\ m.obj \notin held
                \/ m.act = "RESTORE" /\ curr_mode = Lowest
             /\ UNCHANGED <<holds, work, raced>>
    <2>1. UNCHANGED <<held, list, timeout_obj, timer, curr_mode, pending_mode, clock, flash, pe_cb,
                      ready, inputs, stale, raced, work>>
      BY <1>2, <1>6 DEF holds, modes, driver
    <2> HIDE DEF m
    <2>2. Typed'
      BY <1>1, <1>3, <2>1 DEF Typed
    <2>3. ModeSound' /\ EarlySound'
      BY <1>1, <1>3, <2>1, Frames
    <2>4. ClockSound'
      <3>1. m.act = "RESTORE" => curr_mode = Lowest
        BY <1>6
      <3> QED BY <1>1, <1>3, <2>1, <3>1 DEF ClockSound
    <2>5. TimerSound'
      <3>1. ready /\ list # <<>> => ~(m.act = "STOP" /\ m.obj = First.obj)
        <4>1. list # <<>> => First.obj \in held
          BY <1>1, ItemFacts DEF Typed, First
        <4> QED BY <1>6, <4>1
      <3> QED BY <1>1, <1>2, <1>3, <2>1, <3>1 DEF TimerSound, InList, First, OnTime
    <2> QED BY <2>2, <2>3, <2>4, <2>5 DEF IInv
  <1>7. CASE /\ m.act = "RESTORE" /\ curr_mode # Lowest
             /\ work' = [Idle EXCEPT !.at = "restore"]
             /\ UNCHANGED <<holds, raced>>
    <2>1. UNCHANGED <<held, list, timeout_obj, timer, curr_mode, pending_mode, clock, flash, pe_cb,
                      ready, inputs, stale, raced>>
      BY <1>2, <1>7 DEF holds, modes, driver
    <2>2. work' \in WorkType /\ work'.at = "restore"
      BY <1>7, Works DEF WorkIs
    <2> HIDE DEF m
    <2>3. Typed'
      BY <1>1, <1>3, <2>1, <2>2 DEF Typed
    <2>4. ModeSound'
      BY <1>1, <1>2, <2>1, <2>2 DEF ModeSound, Quiet, Served, Locked
    <2>5. ClockSound'
      BY <1>1, <2>1, <2>2 DEF ClockSound
    <2>6. TimerSound' /\ EarlySound'
      <3>1. \A p : Stopping(p) => Stopping(p)'
        BY <1>3, <1>7
      <3> QED BY <1>1, <1>2, <1>3, <2>1, <2>2, <3>1, Frames
    <2> QED BY <2>3, <2>4, <2>5, <2>6 DEF IInv
  <1> QED BY <1>4, <1>5, <1>6, <1>7 DEF Take

\* Where the task goes from the timer.
LEMMA Onwards ==
  ASSUME work \in WorkType, work' = Then(work)
  PROVE  /\ work' \in WorkType /\ work'.at = IF work.more THEN "look" ELSE "idle"
  <1>1. work.more \in BOOLEAN
    BY DEF WorkType
  <1>2. CASE work.more
    <2>1. work' = [Idle EXCEPT !.at = "look"]
      BY <1>2 DEF Then
    <2> QED BY <1>2, <2>1, Works DEF WorkIs
  <1>3. CASE ~work.more
    <2>1. work' = Idle
      BY <1>3 DEF Then
    <2> QED BY <1>3, <2>1, Works DEF WorkIs
  <1> QED BY <1>2, <1>3

LEMMA RestartStep == IInv /\ Restart => IInv'
  <1> SUFFICES ASSUME IInv, Restart PROVE IInv'
    OBVIOUS
  <1>1. Typed /\ ModeSound /\ ClockSound /\ TimerSound /\ EarlySound
    BY DEF IInv
  <1>2. /\ work.at = "restart" /\ work \in WorkType
        /\ UNCHANGED <<held, list, timer, curr_mode, pending_mode, clock, queue, flash, pe_cb,
                      ready, inputs, stale, raced>>
    BY <1>1 DEF Restart, Typed, modes, driver
  <1>3. list # <<>> => First.obj \in held /\ First.left \in Times
    BY <1>1, ItemFacts DEF Typed, First
  <1>4. (\A o : Stopping(o)' <=> Stopping(o)) /\ (Restores' <=> Restores)
    BY <1>2, SameQueue
  <1>5. EarlySound'
    BY <1>1, <1>2, <1>4, Frames
  <1>6. CASE list = <<>> \/ work.force \/ timeout_obj # Head(list).obj
    <2> DEFINE p == IF list = <<>> THEN None ELSE First.left
    <2>1. /\ timeout_obj' = (IF list = <<>> THEN None ELSE First.obj)
          /\ work' = [work EXCEPT !.at = "timer", !.period = p]
      BY <1>6 DEF Restart, First
    <2>2. p \in Times \cup {None}
      BY <1>3
    <2> HIDE DEF p
    <2>3. /\ work' \in WorkType /\ work'.at = "timer" /\ work'.more = work.more /\ work'.period = p
      BY <1>2, <2>1, <2>2 DEF WorkType
    <2>4. timeout_obj' \in Objs \cup {None} /\ (list # <<>> => timeout_obj' # None)
      BY <1>1, <1>3, <2>1, DfsAssumption DEF Typed
    <2>5. Typed'
      BY <1>1, <1>2, <2>3, <2>4 DEF Typed
    <2>6. ModeSound'
      BY <1>1, <1>2, <2>3 DEF ModeSound, Quiet, Served, Locked
    <2>7. ClockSound'
      BY <1>1, <1>2, <1>4, <2>3, Frames
    <2>8. TimerSound'
      <3>1. list # <<>> => InList(First.obj) /\ p # None /\ First.left <= p
        <4>1. list # <<>> => First = list[1] /\ 1 \in DOMAIN list
          BY <1>1, ItemFacts DEF Typed, First
        <4>2. list # <<>> => p = First.left /\ First.left \in Nat
          BY <1>3, DfsAssumption DEF p, Times
        <4>3. list # <<>> => p # None
          BY <1>3, <4>2, DfsAssumption
        <4> QED BY <4>1, <4>2, <4>3 DEF InList
      <3>2. list = <<>> => p = None
        BY DEF p
      <3> QED BY <1>2, <2>1, <2>3, <3>1, <3>2 DEF TimerSound, InList, First, OnTime
    <2> QED BY <1>5, <2>5, <2>6, <2>7, <2>8 DEF IInv
  <1>7. CASE ~(list = <<>> \/ work.force \/ timeout_obj # Head(list).obj)
    <2>1. work' = Then(work) /\ timeout_obj' = timeout_obj
      BY <1>7 DEF Restart
    <2>2. work' \in WorkType /\ work'.at = IF work.more THEN "look" ELSE "idle"
      BY <1>2, <2>1, Onwards
    <2>3. Typed'
      BY <1>1, <1>2, <2>1, <2>2 DEF Typed
    <2>4. ModeSound'
      BY <1>1, <1>2, <2>2 DEF ModeSound, Quiet, Served, Locked
    <2>5. ClockSound'
      BY <1>1, <1>2, <1>4, <2>2, Frames
    <2>6. TimerSound'
      <3>1. ready => OnTime(timer) /\ timeout_obj = First.obj /\ (timeout_obj # None => InList(timeout_obj))
        BY <1>1, <1>2, <1>7 DEF TimerSound, First
      <3> QED BY <1>2, <2>1, <2>2, <3>1 DEF TimerSound, First, OnTime, InList
    <2> QED BY <1>5, <2>3, <2>4, <2>5, <2>6 DEF IInv
  <1> QED BY <1>6, <1>7

LEMMA SetTimerStep == IInv /\ SetTimer => IInv'
  <1> SUFFICES ASSUME IInv, SetTimer PROVE IInv'
    OBVIOUS
  <1>1. Typed /\ ModeSound /\ ClockSound /\ TimerSound /\ EarlySound
    BY DEF IInv
  <1>2. /\ work.at = "timer" /\ work \in WorkType /\ timer' = work.period
        /\ UNCHANGED <<held, list, timeout_obj, curr_mode, pending_mode, clock, queue, flash, pe_cb,
                      ready, inputs, stale, raced>>
    BY <1>1 DEF SetTimer, Typed, holds, modes, driver
  <1>3. work' \in WorkType /\ work'.at = IF work.more THEN "look" ELSE "idle"
    BY <1>2, Onwards DEF SetTimer
  <1>4. (\A o : Stopping(o)' <=> Stopping(o)) /\ (Restores' <=> Restores)
    BY <1>2, SameQueue
  <1>5. EarlySound' /\ ClockSound'
    BY <1>1, <1>2, <1>3, <1>4, Frames
  <1>6. Typed'
    <2>1. timer' \in Times \cup {None}
      BY <1>2 DEF WorkType
    <2> QED BY <1>1, <1>2, <1>3, <2>1 DEF Typed
  <1>7. ModeSound'
    BY <1>1, <1>2, <1>3 DEF ModeSound, Quiet, Served, Locked
  <1>8. TimerSound'
    BY <1>1, <1>2, <1>3, <1>4 DEF TimerSound, InList, First, OnTime
  <1> QED BY <1>5, <1>6, <1>7, <1>8 DEF IInv

LEMMA LookStep == IInv /\ Look => IInv'
  <1> SUFFICES ASSUME IInv, Look PROVE IInv'
    OBVIOUS
  <1> DEFINE mode == Demand(held)
  <1>1. Typed /\ ModeSound /\ ClockSound /\ TimerSound /\ EarlySound
    BY DEF IInv
  <1>2. /\ work.at = "look" /\ ready
        /\ UNCHANGED <<held, list, timeout_obj, timer, curr_mode, clock, queue, flash,
                      ready, inputs, raced>>
    BY <1>1 DEF Look, ModeSound, Locked, holds
  <1>3. (\A o : Stopping(o)' <=> Stopping(o)) /\ (Restores' <=> Restores)
    BY <1>2, SameQueue
  <1>4. CASE mode \notin Modes \/ mode = curr_mode
    <2>1. /\ work' = Idle /\ pending_mode' = pending_mode /\ pe_cb' = pe_cb
          /\ stale' = (stale \/ (mode = curr_mode /\ pending_mode # None))
      BY <1>4 DEF Look
    <2>2. work' \in WorkType /\ work'.at = "idle"
      BY <2>1, Works DEF WorkIs
    <2>3. Typed'
      BY <1>1, <1>2, <2>1, <2>2 DEF Typed
    <2>4. ModeSound'
      BY <1>1, <1>2, <1>4, <2>1, <2>2 DEF Typed, ModeSound, Quiet, Served, Locked
    <2> QED BY <1>1, <1>2, <1>3, <2>2, <2>3, <2>4, Frames DEF IInv
  <1>5. CASE ~(mode \notin Modes \/ mode = curr_mode)
    <2>1. /\ work' = [Idle EXCEPT !.at = "check"] /\ pending_mode' = mode /\ pe_cb' = TRUE
          /\ stale' = FALSE /\ mode \in Modes
      BY <1>5 DEF Look
    <2>2. work' \in WorkType /\ work'.at = "check"
      BY <2>1, Works DEF WorkIs
    <2>3. Typed'
      BY <1>1, <1>2, <2>1, <2>2 DEF Typed
    <2>4. ModeSound'
      <3>1. pending_mode' # None
        BY <2>1, DfsAssumption
      <3> QED BY <1>2, <2>1, <2>2, <3>1 DEF ModeSound, Quiet
    <2> QED BY <1>1, <1>2, <1>3, <2>2, <2>3, <2>4, Frames DEF IInv
  <1> QED BY <1>4, <1>5

LEMMA CheckStep == IInv /\ Check => IInv'
  <1> SUFFICES ASSUME IInv, Check PROVE IInv'
    OBVIOUS
  <1>1. Typed /\ ModeSound /\ ClockSound /\ TimerSound /\ EarlySound
    BY DEF IInv
  <1>2. /\ work.at = "check" /\ ready
        /\ UNCHANGED <<held, list, timeout_obj, timer, curr_mode, clock, queue, flash,
                      ready, inputs, stale, raced>>
    BY <1>1 DEF Check, ModeSound, Locked, holds
  <1>3. (\A o : Stopping(o)' <=> Stopping(o)) /\ (Restores' <=> Restores)
    BY <1>2, SameQueue
  <1>4. pending_mode = Demand(held) /\ pending_mode # None /\ pe_cb /\ Demand(held) \in Modes
    BY <1>1, <1>2 DEF ModeSound, Typed
  <1>5. CASE flash = "pe"
    <2>1. work' = Idle /\ pending_mode' = pending_mode /\ pe_cb' = pe_cb
      BY <1>5 DEF Check
    <2>2. work' \in WorkType /\ work'.at = "idle"
      BY <2>1, Works DEF WorkIs
    <2>3. Typed'
      BY <1>1, <1>2, <2>1, <2>2 DEF Typed
    <2>4. ModeSound'
      BY <1>2, <1>4, <1>5, <2>1, <2>2 DEF ModeSound, Quiet, Served, Locked
    <2> QED BY <1>1, <1>2, <1>3, <2>2, <2>3, <2>4, Frames DEF IInv
  <1>6. CASE flash # "pe"
    <2>1. work' = [Idle EXCEPT !.at = "set"] /\ pending_mode' = None /\ pe_cb' = FALSE
      BY <1>6 DEF Check
    <2>2. work' \in WorkType /\ work'.at = "set"
      BY <2>1, Works DEF WorkIs
    <2>3. Typed'
      BY <1>1, <1>2, <2>1, <2>2 DEF Typed
    <2>4. ModeSound'
      BY <1>2, <1>4, <2>1, <2>2 DEF ModeSound, Quiet
    <2> QED BY <1>1, <1>2, <1>3, <2>2, <2>3, <2>4, Frames DEF IInv
  <1> QED BY <1>5, <1>6

LEMMA SetStep == IInv /\ Set => IInv'
  <1> SUFFICES ASSUME IInv, Set PROVE IInv'
    OBVIOUS
  <1>1. Typed /\ ModeSound /\ ClockSound /\ TimerSound /\ EarlySound
    BY DEF IInv
  <1>2. /\ work.at = "set" /\ ready /\ clock' = Demand(held) /\ curr_mode' = Demand(held)
        /\ Demand(held) \in Modes /\ pending_mode = None /\ work' = Idle
        /\ UNCHANGED <<held, list, timeout_obj, timer, pending_mode, queue, flash, pe_cb,
                      ready, inputs, stale, raced>>
    BY <1>1 DEF Set, ModeSound, Locked, holds, driver
  <1>3. (\A o : Stopping(o)' <=> Stopping(o)) /\ (Restores' <=> Restores)
    BY <1>2, SameQueue
  <1>4. work' \in WorkType /\ work'.at = "idle"
    BY <1>2, Works DEF WorkIs
  <1>5. Typed'
    BY <1>1, <1>2, <1>4 DEF Typed
  <1>6. ModeSound'
    BY <1>2, <1>4 DEF ModeSound, Quiet, Served, Locked
  <1>7. ClockSound'
    BY <1>2 DEF ClockSound
  <1> QED BY <1>1, <1>2, <1>3, <1>4, <1>5, <1>6, <1>7, Frames DEF IInv

LEMMA RestoreStep == IInv /\ Restore => IInv'
  <1> SUFFICES ASSUME IInv, Restore PROVE IInv'
    OBVIOUS
  <1>1. Typed /\ ModeSound /\ ClockSound /\ TimerSound /\ EarlySound
    BY DEF IInv
  <1>2. /\ work.at = "restore" /\ clock' = (IF ready THEN curr_mode ELSE clock) /\ work' = Idle
        /\ UNCHANGED <<held, list, timeout_obj, timer, curr_mode, pending_mode, queue, flash, pe_cb,
                      ready, inputs, stale, raced>>
    BY <1>1 DEF Restore, holds, driver
  <1>3. (\A o : Stopping(o)' <=> Stopping(o)) /\ (Restores' <=> Restores)
    BY <1>2, SameQueue
  <1>4. work' \in WorkType /\ work'.at = "idle"
    BY <1>2, Works DEF WorkIs
  <1>5. Typed'
    BY <1>1, <1>2, <1>4 DEF Typed
  <1>6. ModeSound'
    BY <1>1, <1>2, <1>4 DEF ModeSound, Quiet, Served, Locked
  <1>7. ClockSound'
    BY <1>1, <1>2 DEF ClockSound
  <1> QED BY <1>1, <1>2, <1>3, <1>4, <1>5, <1>6, <1>7, Frames DEF IInv

-----------------------------------------------------------------------------
(* The timer daemon.                                                        *)

LEMMA FireStep == IInv /\ Fire => IInv'
  <1> SUFFICES ASSUME IInv, Fire PROVE IInv'
    OBVIOUS
  <1>1. Typed /\ ModeSound /\ ClockSound /\ TimerSound /\ EarlySound
    BY DEF IInv
  <1>2. /\ timer = 0 /\ timer' = None
        /\ UNCHANGED <<held, list, curr_mode, pending_mode, clock, work, flash, pe_cb,
                      ready, inputs, stale, raced>>
    BY DEF Fire, modes, driver
  <1>3. ModeSound'
    BY <1>1, <1>2, Frames
  <1>4. list # <<>> =>
          First = list[1] /\ 1 \in DOMAIN list /\ First.obj \in Objs /\ First.left \in Nat
    BY <1>1, ItemFacts, DfsAssumption DEF Typed, First, Times
  <1>5. work \in WorkType /\ work.at \in {"idle", "restart", "timer", "look", "check", "set", "restore"}
    BY <1>1 DEF Typed, WorkType
  <1>6. CASE /\ ready /\ timeout_obj # None /\ list # <<>>
             /\ timeout_obj = Head(list).obj /\ Head(list).left = 0
    <2> DEFINE m == [act |-> "STOP", obj |-> timeout_obj, auto |-> TRUE]
    <2>1. timeout_obj' = None /\ queue' = Append(queue, m) /\ timeout_obj \in Objs
      BY <1>1, <1>6 DEF Fire, Typed
    <2>2. m \in Requests /\ m.act = "STOP" /\ m.obj = timeout_obj /\ m.auto = TRUE
      BY <2>1, Shapes
    <2> HIDE DEF m
    <2>3. /\ queue' \in Seq(Requests)
          /\ \A o : Stopping(o) => Stopping(o)'
          /\ \A o : Stopping(o)' /\ ~Stopping(o) => o = timeout_obj
          /\ \A o : o = timeout_obj => Stopping(o)'
          /\ Restores => Restores'
      <3>1. /\ queue \in Seq(Requests) /\ m \in Requests /\ queue' = Append(queue, m)
            /\ m.act = "STOP" /\ m.obj = timeout_obj /\ m.auto = TRUE
        BY <1>1, <2>1, <2>2 DEF Typed
      <3> QED BY <3>1, Appended
    <2>4. Typed'
      BY <1>1, <1>2, <2>1, <2>3 DEF Typed
    <2>5. ClockSound'
      BY <1>1, <1>2, <2>3, Frames
    <2>6. TimerSound'
      <3>1. Stopping(First.obj)'
        BY <1>2, <1>6, <2>3 DEF First
      <3>2. list # <<>> => First.obj # None
        BY <1>4, DfsAssumption
      <3>3. work.at = "timer" => OnTime(work.period)
        BY <1>1, <1>6 DEF TimerSound
      <3> QED BY <1>2, <1>5, <1>6, <2>1, <3>1, <3>2, <3>3 DEF TimerSound, First, OnTime
    <2>7. EarlySound'
      <3>1. Past(timeout_obj)
        BY <1>4, <1>6 DEF Past, First
      <3>2. \A o : Past(o)' <=> Past(o)
        BY <1>2 DEF Past
      <3> QED BY <1>1, <1>2, <2>3, <3>1, <3>2 DEF EarlySound
    <2> QED BY <1>3, <2>4, <2>5, <2>6, <2>7 DEF IInv
  <1>7. CASE ~(/\ ready /\ timeout_obj # None /\ list # <<>>
               /\ timeout_obj = Head(list).obj /\ Head(list).left = 0)
    <2>1. timeout_obj' = timeout_obj /\ queue' = queue
      BY <1>7 DEF Fire
    <2>2. (\A o : Stopping(o)' <=> Stopping(o)) /\ (Restores' <=> Restores)
      BY <2>1, SameQueue
    <2>3. Typed'
      BY <1>1, <1>2, <2>1 DEF Typed
    <2>4. TimerSound'
      <3>1. OnTime(timer) /\ list # <<>> => First.left = 0
        BY <1>2, <1>4 DEF OnTime
      <3>2. list # <<>> => First.obj # None
        BY <1>4, DfsAssumption
      <3>3. ready /\ list # <<>> /\ timeout_obj = First.obj => ~OnTime(timer)
        BY <1>7, <3>1, <3>2 DEF First
      <3> QED BY <1>1, <1>2, <2>1, <2>2, <3>2, <3>3 DEF TimerSound, InList, First, OnTime
    <2> QED BY <1>1, <1>2, <1>3, <2>2, <2>3, <2>4, Frames DEF IInv
  <1> QED BY <1>6, <1>7

LEMMA TickStep == IInv /\ Tick => IInv'
  <1> SUFFICES ASSUME IInv, Tick PROVE IInv'
    OBVIOUS
  <1> DEFINE past(t) == IF t \in {0, None} THEN t ELSE t - 1
  <1>1. Typed /\ ModeSound /\ ClockSound /\ TimerSound /\ EarlySound
    BY DEF IInv
  <1>2. /\ timer' = past(timer)
        /\ list' = [i \in DOMAIN list |-> [list[i] EXCEPT !.left = past(list[i].left)]]
        /\ UNCHANGED <<held, timeout_obj, curr_mode, pending_mode, clock, queue, work, flash, pe_cb,
                      ready, inputs, stale, raced>>
    BY DEF Tick, modes, driver
  <1>3. /\ past(None) = None /\ past(0) = 0
        /\ \A t \in Times : past(t) \in Times /\ past(t) # None
        /\ \A t, u \in Times : t <= u => past(t) <= past(u)
    <2>1. \A t \in Times : t \in Nat /\ t <= MaxTimeout /\ t # None
      BY DfsAssumption DEF Times
    <2>2. \A t \in Times : past(t) = (IF t = 0 THEN 0 ELSE t - 1)
      BY <2>1
    <2>3. 0 \in Times
      BY DfsAssumption DEF Times
    <2>4. past(None) = None /\ past(0) = 0
      OBVIOUS
    <2>5. \A t \in Times : past(t) \in Times
      BY <2>1, <2>2, DfsAssumption DEF Times
    <2> HIDE DEF past
    <2> QED BY <2>1, <2>2, <2>4, <2>5
  <1> HIDE DEF past
  <1>4. ASSUME NEW i \in DOMAIN list
        PROVE  /\ list[i] \in Items(held) /\ list[i].left \in Times
               /\ list'[i] \in Items(held) /\ list'[i].obj = list[i].obj
               /\ list'[i].left = past(list[i].left)
    <2>1. list[i] \in Items(held) /\ list[i].left \in Times
      BY <1>1, ItemFacts DEF Typed
    <2>2. list'[i] = [list[i] EXCEPT !.left = past(list[i].left)]
      BY <1>2
    <2>3. past(list[i].left) \in Times
      BY <1>3, <2>1
    <2> QED BY <2>1, <2>2, <2>3 DEF Items
  <1>5. list' = [i \in DOMAIN list |-> list'[i]]
    BY <1>2
  <1>6. list \in Seq(Items(held)) /\ Single(list)
    BY <1>1 DEF Typed
  <1>7. \A i \in DOMAIN list : list'[i] \in Items(held) /\ list'[i].obj = list[i].obj
    BY <1>4
  <1>8. /\ list' \in Seq(Items(held)) /\ Single(list') /\ (list' = <<>> <=> list = <<>>)
        /\ \A p : InList(p) <=> InList(p)'
        /\ \A p : Past(p)
             /\ (\A i \in DOMAIN list : list[i].obj = p /\ list[i].left = 0 => list'[i].left = 0)
             => Past(p)'
        /\ list # <<>> => First = list[1] /\ First' = list'[1] /\ 1 \in DOMAIN list
    BY <1>5, <1>6, <1>7, MappedFacts
  <1>9. \A p : Past(p) => Past(p)'
    BY <1>3, <1>4, <1>8
  <1>10. list # <<>> => /\ First.left \in Times /\ First'.obj = First.obj
                        /\ First'.left = past(First.left)
    BY <1>4, <1>8
  <1>11. timer \in Times \cup {None} /\ work.period \in Times \cup {None}
    BY <1>1 DEF Typed, WorkType
  <1>12. (\A o : Stopping(o)' <=> Stopping(o)) /\ (Restores' <=> Restores)
    BY <1>2, SameQueue
  <1>13. Typed'
    <2>1. timer' \in Times \cup {None}
      BY <1>2, <1>3, <1>11
    <2> QED BY <1>1, <1>2, <1>8, <2>1 DEF Typed
  <1>14. ModeSound' /\ ClockSound'
    BY <1>1, <1>2, <1>12, Frames
  <1>15. TimerSound'
    <2>1. list # <<>> /\ OnTime(timer) => OnTime(timer)'
      BY <1>2, <1>3, <1>10, <1>11 DEF OnTime
    <2>2. list # <<>> /\ OnTime(work.period) => First'.left <= work.period /\ work.period # None
      <3>1. list # <<>> => past(First.left) <= First.left /\ past(First.left) \in Nat /\ First.left \in Nat
        BY <1>10, DfsAssumption DEF past, Times
      <3>2. work.period # None => work.period \in Nat
        BY <1>11, DfsAssumption DEF Times
      <3> QED BY <1>10, <3>1, <3>2 DEF OnTime
    <2>3. work' = work /\ ready' = ready /\ timeout_obj' = timeout_obj
      BY <1>2
    <2> QED BY <1>1, <1>8, <1>10, <1>12, <2>1, <2>2, <2>3 DEF TimerSound, OnTime
  <1>16. EarlySound'
    BY <1>1, <1>2, <1>9, <1>12 DEF EarlySound
  <1> QED BY <1>13, <1>14, <1>15, <1>16 DEF IInv

-----------------------------------------------------------------------------
(* The flash driver, requests, sleep and the end.                           *)

LEMMA InputStep ==
  ASSUME IInv, Input
  PROVE  ready /\ ready' = ready => inputs' \in 0 .. MaxInputs
  BY DfsAssumption DEF Input, IInv, Typed

LEMMA FlashStep == IInv /\ (Program \/ Programmed) => IInv'
  <1> SUFFICES ASSUME IInv, Program \/ Programmed PROVE IInv'
    OBVIOUS
  <1>1. Typed /\ ModeSound /\ ClockSound /\ TimerSound /\ EarlySound
    BY DEF IInv
  <1>2. /\ flash' \in {"idle", "pe", "after", "call"} /\ inputs' \in 0 .. MaxInputs
        /\ UNCHANGED <<held, list, timeout_obj, timer, curr_mode, pending_mode, clock, queue, work, pe_cb,
                      ready, stale, raced>>
        /\ flash # "idle" /\ pe_cb => flash' # "idle"
    <2>1. CASE Program
      <3>1. inputs' \in 0 .. MaxInputs
        BY <1>1, <2>1, InputStep DEF Program, Input
      <3> QED BY <2>1, <3>1 DEF Program, holds, modes
    <2>2. CASE Programmed
      BY <1>1, <2>2 DEF Programmed, Typed, holds, modes
    <2> QED BY <2>1, <2>2
  <1>3. (\A o : Stopping(o)' <=> Stopping(o)) /\ (Restores' <=> Restores)
    BY <1>2, SameQueue
  <1>4. Typed'
    BY <1>1, <1>2 DEF Typed
  <1>5. ModeSound'
    BY <1>1, <1>2 DEF ModeSound, Quiet, Served, Locked
  <1> QED BY <1>1, <1>2, <1>3, <1>4, <1>5, Frames DEF IInv

LEMMA CallbackStep == IInv /\ Callback => IInv'
  <1> SUFFICES ASSUME IInv, Callback PROVE IInv'
    OBVIOUS
  <1>1. Typed /\ ModeSound /\ ClockSound /\ TimerSound /\ EarlySound
    BY DEF IInv
  <1>2. /\ flash = "call" /\ work.at \in {"idle", "restore"} /\ flash' = "idle"
        /\ UNCHANGED <<held, list, timeout_obj, timer, queue, work, ready, inputs, stale, raced>>
    BY DEF Callback, holds, Locked
  <1>3. /\ ready => /\ pe_cb' = FALSE /\ pending_mode' = None
                    /\ curr_mode' = (IF pending_mode # None THEN pending_mode ELSE curr_mode)
                    /\ clock' = (IF pending_mode # None THEN pending_mode ELSE clock)
        /\ ~ready => UNCHANGED <<curr_mode, pending_mode, clock, pe_cb>>
    BY DEF Callback, modes
  <1>4. (\A o : Stopping(o)' <=> Stopping(o)) /\ (Restores' <=> Restores)
    BY <1>2, SameQueue
  <1>5. Typed'
    BY <1>1, <1>2, <1>3 DEF Typed
  <1>6. ModeSound'
    <2>1. Demand(held) \in Modes /\ ready /\ ~stale => Served(Demand(held))
      BY <1>1, <1>2 DEF ModeSound, Quiet
    <2>2. Demand(held) \in Modes => Demand(held) # None
      BY DfsAssumption
    <2> QED BY <1>2, <1>3, <2>1, <2>2 DEF ModeSound, Quiet, Served, Locked
  <1>7. ClockSound'
    BY <1>1, <1>2, <1>3, <1>4 DEF ClockSound
  <1> QED BY <1>1, <1>2, <1>4, <1>5, <1>6, <1>7, Frames DEF IInv

LEMMA RequestStep == IInv /\ Request => IInv'
  <1> SUFFICES ASSUME IInv, Request PROVE IInv'
    OBVIOUS
  <1>1. Typed /\ ModeSound /\ ClockSound /\ TimerSound /\ EarlySound
    BY DEF IInv
  <1>2. /\ inputs' \in 0 .. MaxInputs
        /\ UNCHANGED <<held, list, timeout_obj, timer, curr_mode, pending_mode, clock, work, flash, pe_cb,
                      ready, stale, raced>>
    BY InputStep DEF Request, Input, holds, modes, driver
  <1>3. PICK m \in [act : {"START"}, obj : Objs, timeout : Timeouts]
                     \cup [act : {"STOP"}, obj : Objs, auto : {FALSE}] : queue' = Append(queue, m)
    BY DEF Request
  <1>4. m \in Requests /\ ~(m.act = "STOP" /\ m.auto)
    BY <1>3 DEF Requests
  <1>5. /\ queue' \in Seq(Requests)
        /\ \A o : Stopping(o) <=> Stopping(o)'
        /\ Restores => Restores'
    BY <1>1, <1>3, <1>4, Appended DEF Typed
  <1>6. Typed'
    BY <1>1, <1>2, <1>5 DEF Typed
  <1> QED BY <1>1, <1>2, <1>5, <1>6, Frames DEF IInv

LEMMA SleepStep == IInv /\ Sleep => IInv'
  <1> SUFFICES ASSUME IInv, Sleep PROVE IInv'
    OBVIOUS
  <1>1. Typed /\ ModeSound /\ ClockSound /\ TimerSound /\ EarlySound
    BY DEF IInv
  <1>2. /\ inputs' \in 0 .. MaxInputs /\ work.at = "idle" /\ clock' = Lowest
        /\ UNCHANGED <<held, list, timeout_obj, timer, curr_mode, pending_mode, work, flash, pe_cb,
                      ready, stale, raced>>
    BY InputStep DEF Sleep, Input, holds, driver
  <1>3. Lowest \in Modes
    BY DEF Lowest, Modes
  <1> DEFINE m == [act |-> "RESTORE"]
  <1>4. m \in Requests /\ m.act = "RESTORE" /\ queue = <<>> /\ queue' = <<m>>
    BY Shapes DEF Sleep
  <1> HIDE DEF m
  <1>5. /\ queue' \in Seq(Requests) /\ Len(queue') = 1 /\ DOMAIN queue' = 1 .. 1 /\ queue'[1] = m
        /\ DOMAIN queue = 1 .. 0
    BY <1>4
  <1>6. (\A o : Stopping(o)' <=> Stopping(o)) /\ Restores'
    BY <1>4, <1>5 DEF Stopping, Restores
  <1>7. Typed'
    BY <1>1, <1>2, <1>3, <1>5 DEF Typed
  <1>8. ClockSound'
    BY <1>2, <1>6 DEF ClockSound
  <1> QED BY <1>1, <1>2, <1>6, <1>7, <1>8, Frames DEF IInv

LEMMA DeinitStep == IInv /\ Deinit => IInv'
  <1> SUFFICES ASSUME IInv, Deinit PROVE IInv'
    OBVIOUS
  <1>1. Typed /\ ModeSound /\ ClockSound /\ TimerSound /\ EarlySound
    BY DEF IInv
  <1>2. /\ ready' = FALSE /\ list' = <<>> /\ timer' = None /\ work.at \in {"idle", "restore"}
        /\ UNCHANGED <<held, timeout_obj, curr_mode, pending_mode, clock, queue, work, flash, pe_cb,
                      inputs, stale, raced>>
    BY DEF Deinit, Locked, modes, driver
  <1>3. list' \in Seq(Items(held)) /\ Single(list')
    <2>1. <<>> \in Seq(Items(held)) /\ DOMAIN <<>> = 1 .. 0
      OBVIOUS
    <2> QED BY <1>2, <2>1 DEF Single
  <1>4. Typed'
    BY <1>1, <1>2, <1>3 DEF Typed
  <1>5. ModeSound' /\ ClockSound' /\ TimerSound' /\ EarlySound'
    BY <1>1, <1>2 DEF ModeSound, ClockSound, TimerSound, EarlySound, Locked
  <1> QED BY <1>4, <1>5 DEF IInv

LEMMA StutterStep == IInv /\ UNCHANGED vars => IInv'
  <1> SUFFICES ASSUME IInv, UNCHANGED vars PROVE IInv'
    OBVIOUS
  <1>1. /\ UNCHANGED <<held, list, timeout_obj, timer, curr_mode, pending_mode, clock, queue, work,
                       flash, pe_cb, ready, inputs, stale, raced>>
        /\ Typed /\ ModeSound /\ ClockSound /\ TimerSound /\ EarlySound
    BY DEF vars, holds, modes, driver, IInv
  <1>2. (\A o : Stopping(o)' <=> Stopping(o)) /\ (Restores' <=> Restores)
    BY <1>1, SameQueue
  <1>3. Typed'
    BY <1>1 DEF Typed
  <1> QED BY <1>1, <1>2, <1>3, Frames DEF IInv

LEMMA Initial == Init => IInv
  <1> SUFFICES ASSUME Init PROVE IInv
    OBVIOUS
  <1>1. Lowest \in Modes
    BY DEF Lowest, Modes
  <1>2. PICK t \in Timeouts : queue = <<[act |-> "START", obj |-> "init", timeout |-> t]>>
    BY DEF Init
  <1> DEFINE m == [act |-> "START", obj |-> "init", timeout |-> t]
  <1>3. m \in Requests /\ m.act = "START"
    BY DfsAssumption DEF Requests
  <1>4. queue = <<m>>
    BY <1>2
  <1> HIDE DEF m
  <1>5. queue \in Seq(Requests) /\ DOMAIN queue = 1 .. 1 /\ queue[1] = m
    BY <1>3, <1>4
  <1>6. ~Restores /\ \A o : ~Stopping(o)
    BY <1>3, <1>5 DEF Restores, Stopping
  <1>7. list \in Seq(Items(held)) /\ Single(list) /\ ~\E o : InList(o)
    <2>1. list = <<>> /\ <<>> \in Seq(Items(held)) /\ DOMAIN <<>> = 1 .. 0
      BY DEF Init
    <2> QED BY <2>1 DEF Single, InList
  <1>8. work = Idle /\ work \in WorkType /\ work.at = "idle"
    BY DEF Init, Idle, WorkType
  <1>9. Typed
    <2>1. /\ held = {} /\ timeout_obj = None /\ timer = None
          /\ curr_mode = Lowest /\ pending_mode = None /\ clock = Lowest
          /\ flash = "idle" /\ pe_cb = FALSE /\ ready = TRUE
          /\ inputs = 0 /\ stale = FALSE /\ raced = {}
      BY DEF Init
    <2>2. inputs \in 0 .. MaxInputs
      BY <2>1, DfsAssumption
    <2> QED BY <1>1, <1>5, <1>7, <1>8, <2>1, <2>2 DEF Typed
  <1>10. Demand({}) = Lowest
    <2>1. Max({16}) = 16
      <3>1. \E x \in {16} : \A y \in {16} : x >= y
        OBVIOUS
      <3> QED BY <3>1 DEF Max
    <2>2. \A i \in 1 .. 2 : {16} \cup {Need[o][i] : o \in {}} = {16}
      OBVIOUS
    <2>3. Highest({}) = [i \in 1 .. 2 |-> 16]
      BY <2>1, <2>2 DEF Highest
    <2>4. [i \in 1 .. 2 |-> 16] = <<16, 16>>
      OBVIOUS
    <2> QED BY <2>3, <2>4 DEF Demand, Lowest
  <1>11. ModeSound
    BY <1>8, <1>10 DEF Init, ModeSound, Served, Locked
  <1>12. ClockSound /\ TimerSound /\ EarlySound
    BY <1>8 DEF Init, ClockSound, TimerSound, EarlySound
  <1> QED BY <1>9, <1>11, <1>12 DEF IInv

\* The inductive invariant holds in every state (dfs_request_process and
\* dfs_timeout_handler between them keep the list, the timer and the mode in step).
THEOREM IInvInvariant == Spec => []IInv
  <1>1. Init => IInv
    BY Initial
  <1>2. IInv /\ [Next]_vars => IInv'
    BY TakeStep, RestartStep, SetTimerStep, LookStep, CheckStep, SetStep, RestoreStep, FireStep,
       TickStep, FlashStep, CallbackStep, RequestStep, SleepStep, DeinitStep, StutterStep
       DEF Next, Task
  <1> QED BY <1>1, <1>2, PTL DEF Spec

\* Every variable keeps its type, and no object is in the time-out list twice
\* (dfs_timeout_add is called only for an object that was not held).
THEOREM TypeCorrect == Spec => []TypeOK
  <1>1. IInv => TypeOK
    BY DEF IInv, Typed, TypeOK, Items, Single, WorkType
  <1> QED BY <1>1, IInvInvariant, PTL

\* Between requests the cores run at the mode that serves what is held, or the
\* flash driver will call dfs_pending_list_handler, which sets it.
THEOREM ClockRight == Spec => []ClockServes
  <1>1. IInv => ClockServes
    <2> SUFFICES ASSUME IInv, ready, work.at = "idle", Demand(held) \in Modes, ~stale,
                        \A i \in DOMAIN queue : queue[i].act # "RESTORE"
                 PROVE  \/ curr_mode = Demand(held) /\ clock = curr_mode /\ pending_mode = None
                        \/ pending_mode = Demand(held) /\ pe_cb /\ flash # "idle"
      BY DEF ClockServes
    <2>1. Served(Demand(held))
      BY DEF IInv, ModeSound, Quiet
    <2>2. clock = curr_mode
      BY DEF IInv, ClockSound, Restores
    <2> QED BY <2>1, <2>2 DEF Served
  <1> QED BY <1>1, IInvInvariant, PTL

\* No hold with a time-out is forgotten: the timer is set, or its request to
\* stop the first of the list waits for the share task.
THEOREM NoneForgotten == Spec => []TimeoutComing
  <1>1. IInv => TimeoutComing
    BY DEF IInv, TimerSound, TimeoutComing, OnTime, First
  <1> QED BY <1>1, IInvInvariant, PTL

\* The timer ends a hold before its time only if it was renewed while the timer's
\* request waited (dfs_timeout_handler looks at the end before it asks).
THEOREM NoneCutShort == Spec => EarlyOnlyIfRenewed
  <1>1. IInv /\ [Next]_vars => [\A o \in Objs : CutsShort(o) => o \in raced]_vars
    <2> SUFFICES ASSUME IInv, Next, NEW o \in Objs, CutsShort(o) PROVE o \in raced
      OBVIOUS
    <2>1. /\ o \in held /\ o \notin held' /\ queue # <<>> /\ Head(queue).act = "STOP"
          /\ Head(queue).obj = o /\ Head(queue).auto
          /\ ~\E i \in DOMAIN list : list[i].obj = o /\ list[i].left = 0
      BY DEF CutsShort
    <2>2. Take
      BY <2>1 DEF Next, Task, Restart, SetTimer, Look, Check, Set, Restore, Fire, Tick, Program,
                  Programmed, Callback, Request, Sleep, Deinit, holds
    <2>3. ready
      BY <2>1, <2>2 DEF Take, holds
    <2>4. Stopping(o)
      BY <2>1, ListFacts DEF IInv, Typed, Stopping
    <2>5. o \notin raced => Past(o)
      BY <2>1, <2>3, <2>4 DEF IInv, EarlySound
    <2> QED BY <2>1, <2>5 DEF Past
  <1> QED BY <1>1, IInvInvariant, PTL DEF Spec, EarlyOnlyIfRenewed

=============================================================================
