---------------------------- MODULE KvCacheProofs ----------------------------
(***************************************************************************)
(* What the key-value store guarantees for any keys, values and sizes.     *)
(*                                                                         *)
(* The cache, KvCache: types, one copy of a key, a flush for what waits to *)
(* be written; and, while no key is moved under a reader, that what is     *)
(* read is what was set last and that the cache and flash are together the *)
(* map of KeyStore.                                                        *)
(*                                                                         *)
(* Flash, KvFlash: wherever power is lost a key has one valid entry,       *)
(* writing and compacting update a map, and what was written can be read;  *)
(* while recovery completes there is no page left half compacted, one to   *)
(* compact into, and nothing a restart would change.                       *)
(***************************************************************************)
EXTENDS KvCache, MCKvFlash, WellFoundedInduction, SequenceTheorems, FiniteSetTheorems, TLAPS

-----------------------------------------------------------------------------
(* The cache: its inductive invariant.                                      *)

Kept == [key : Keys, val : Values]
Calling == [pc : Pcs, key : Keys, val : Values \cup {Garbled}]
Reading == {"getRead", "getEvict", "getAdd"}

\* TypeOK, and what waits to be written was given by a caller.
Typed ==
  /\ flash \in [Keys -> Values] /\ hidden \subseteq Keys
  /\ readList \in Seq(Item) /\ writeList \in Seq(Kept)
  /\ length \in 0 .. Width - 1
  /\ flag \in BOOLEAN /\ event \in BOOLEAN /\ flushing \in BOOLEAN
  /\ call = Idle \/ call \in Calling
  /\ Setting => call.val \in Values

\* A key that is read from flash is in no list.
Apart == OneCopy /\ (call.pc \in Reading => ~In(readList, call.key) /\ ~In(writeList, call.key))

Coming ==
  /\ writeList # <<>> => event \/ flushing \/ call.pc = "setFlush"
  /\ flag => event \/ flushing

\* What a flash f, a read list r and a write list w let a reader see of a key.
SeenIn(f, r, w, k) ==
  IF In(w, k) THEN Find(w, k).val ELSE IF In(r, k) THEN Find(r, k).val ELSE f[k]
Seen(k) == SeenIn(flash, readList, writeList, k)

\* What is in the read list, and what is being read, is what flash has.
Has(l, x) == \E i \in 1 .. Len(l) : l[i] = x
Mirrors(r, f) == \A x \in Item : Has(r, x) => x.val = f[x.key]
Agrees ==
  /\ Mirrors(readList, flash)
  /\ call.pc \in {"getEvict", "getAdd"} => call.val = flash[call.key] /\ call.key \notin hidden
  /\ call.pc = "getDone" => call.val = Seen(call.key)

\* A value set is seen from its write on.
Holds ==
  /\ call.pc = "setFind" => ~(In(writeList, call.key) /\ call.val = flash[call.key])
  /\ call.pc \in {"setFlush", "setDone"} => Seen(call.key) = call.val

IInv == Typed /\ Apart /\ Coming /\ (~Overlaps => Agrees) /\ (~Overlaps /\ ~SetsBack => Holds)

-----------------------------------------------------------------------------
(* Lists as sets of items with different keys.                              *)

\* n is l with the item at a place taken out.
TakenOut(l, n, at) ==
  /\ at \in 1 .. Len(l) /\ Len(n) = Len(l) - 1
  /\ \A i \in 1 .. at - 1 : n[i] = l[i]
  /\ \A i \in at .. Len(l) - 1 : n[i] = l[i + 1]

LEMMA ListFacts ==
  ASSUME NEW S, NEW l \in Seq(S)
  PROVE  /\ Len(l) \in Nat /\ DOMAIN l = 1 .. Len(l) /\ (l = <<>> <=> Len(l) = 0)
         /\ \A i \in 1 .. Len(l) : l[i] \in S
         /\ l # <<>> => Head(l) = l[1] /\ 1 \in 1 .. Len(l)
  <1>1. Len(l) \in Nat /\ DOMAIN l = 1 .. Len(l) /\ \A i \in 1 .. Len(l) : l[i] \in S
    BY LenProperties, ElementOfSeq
  <1>2. l = <<>> <=> Len(l) = 0
    BY EmptySeq
  <1> QED BY <1>1, <1>2

LEMMA TakenOutFacts ==
  ASSUME NEW S, NEW l \in Seq(S), NEW at \in 1 .. Len(l), NEW n, n = RemoveAt(l, at)
  PROVE  n \in Seq(S) /\ TakenOut(l, n, at)
  <1> DEFINE p == SubSeq(l, 1, at - 1)
             q == SubSeq(l, at + 1, Len(l))
  <1>1. Len(l) \in Nat /\ \A i \in 1 .. Len(l) : l[i] \in S
    BY ListFacts
  <1>2. p \in Seq(S) /\ Len(p) = at - 1 /\ \A i \in 1 .. at - 1 : p[i] = l[i]
    <2>1. \A i \in 1 .. at - 1 : l[i] \in S
      BY <1>1
    <2> HIDE DEF p
    <2>2. /\ p \in Seq(S) /\ Len(p) = IF 1 <= at - 1 THEN (at - 1) - 1 + 1 ELSE 0
          /\ \A i \in 1 .. (at - 1) - 1 + 1 : p[i] = l[1 + i - 1]
      BY <1>1, <2>1, SubSeqProperties DEF p
    <2> QED BY <1>1, <2>2
  <1>3. /\ q \in Seq(S) /\ Len(q) = Len(l) - at
        /\ \A i \in 1 .. Len(l) - at : q[i] = l[at + i]
    <2>1. \A i \in at + 1 .. Len(l) : l[i] \in S
      BY <1>1
    <2> HIDE DEF q
    <2>2. /\ q \in Seq(S) /\ Len(q) = IF at + 1 <= Len(l) THEN Len(l) - (at + 1) + 1 ELSE 0
          /\ \A i \in 1 .. Len(l) - (at + 1) + 1 : q[i] = l[(at + 1) + i - 1]
      BY <1>1, <2>1, SubSeqProperties DEF q
    <2> QED BY <1>1, <2>2
  <1>4. n = p \o q
    BY DEF RemoveAt
  <1> HIDE DEF p, q
  <1>5. /\ n \in Seq(S) /\ Len(n) = Len(p) + Len(q)
        /\ \A i \in 1 .. Len(p) + Len(q) : n[i] = IF i <= Len(p) THEN p[i] ELSE q[i - Len(p)]
    <2>1. p \in Seq(S) /\ q \in Seq(S)
      BY <1>2, <1>3
    <2>2. /\ p \o q \in Seq(S) /\ Len(p \o q) = Len(p) + Len(q)
          /\ \A i \in 1 .. Len(p) + Len(q) :
               (p \o q)[i] = IF i <= Len(p) THEN p[i] ELSE q[i - Len(p)]
      BY <2>1, ConcatProperties, Zenon
    <2> QED BY <1>4, <2>2, Zenon
  <1>6. ASSUME NEW i \in 1 .. at - 1 PROVE n[i] = l[i]
    <2>1. i \in 1 .. Len(p) + Len(q) /\ i <= Len(p)
      BY <1>1, <1>2, <1>3
    <2>2. n[i] = p[i]
      BY <1>5, <2>1
    <2> QED BY <1>2, <2>2
  <1>7. ASSUME NEW i \in at .. Len(l) - 1 PROVE n[i] = l[i + 1]
    <2>1. i \in 1 .. Len(p) + Len(q) /\ ~(i <= Len(p)) /\ i - Len(p) = i - at + 1
      BY <1>1, <1>2, <1>3
    <2>2. i - at + 1 \in 1 .. Len(l) - at /\ at + (i - at + 1) = i + 1
      BY <1>1
    <2> QED BY <1>3, <1>5, <2>1, <2>2
  <1> QED BY <1>1, <1>2, <1>3, <1>5, <1>6, <1>7 DEF TakenOut

LEMMA FindFacts ==
  ASSUME NEW S, NEW l \in Seq(S), Once(l)
  PROVE  /\ \A k : In(l, k) <=> \E x : Has(l, x) /\ x.key = k
         /\ \A k : In(l, k) => Has(l, Find(l, k)) /\ Find(l, k).key = k
         /\ \A x : Has(l, x) => In(l, x.key) /\ Find(l, x.key) = x /\ x \in S
  <1>1. DOMAIN l = 1 .. Len(l) /\ \A i \in 1 .. Len(l) : l[i] \in S
    BY ListFacts
  <1>2. \A k : In(l, k) <=> \E x : Has(l, x) /\ x.key = k
    BY <1>1 DEF In, Has
  <1>3. ASSUME NEW k, In(l, k)
        PROVE  Place(l, k) \in 1 .. Len(l) /\ l[Place(l, k)].key = k
    BY <1>1, <1>3 DEF In, Place
  <1>4. ASSUME NEW x, Has(l, x) PROVE In(l, x.key) /\ Find(l, x.key) = x /\ x \in S
    <2>1. PICK i \in 1 .. Len(l) : l[i] = x
      BY <1>4 DEF Has
    <2>2. In(l, x.key)
      BY <1>1, <2>1 DEF In
    <2>3. Place(l, x.key) = i
      BY <1>1, <1>3, <2>1, <2>2 DEF Once
    <2> QED BY <1>1, <2>1, <2>2, <2>3 DEF Find
  <1> QED BY <1>2, <1>3, <1>4 DEF Find, Has

LEMMA AppendList ==
  ASSUME NEW S, NEW l \in Seq(S), NEW e \in S, NEW n, n = Append(l, e), Once(l), ~In(l, e.key)
  PROVE  /\ n \in Seq(S) /\ Once(n) /\ \A x : Has(n, x) <=> Has(l, x) \/ x = e
  <1>1. /\ n \in Seq(S) /\ Len(n) = Len(l) + 1
        /\ \A i \in 1 .. Len(l) : n[i] = l[i]
        /\ n[Len(l) + 1] = e
    BY AppendProperties
  <1>2. Len(l) \in Nat /\ DOMAIN l = 1 .. Len(l) /\ DOMAIN n = 1 .. Len(n)
    BY <1>1, ListFacts
  <1>3. \A i \in 1 .. Len(n) : i \in 1 .. Len(l) \/ i = Len(l) + 1
    BY <1>1, <1>2
  <1>4. \A i \in 1 .. Len(l) : i \in 1 .. Len(n) /\ l[i].key # e.key
    BY <1>1, <1>2 DEF In
  <1>5. \A x : Has(n, x) <=> Has(l, x) \/ x = e
    <2>1. Len(l) + 1 \in 1 .. Len(n)
      BY <1>1, <1>2
    <2> QED BY <1>1, <1>3, <1>4, <2>1 DEF Has
  <1>6. Once(n)
    <2> SUFFICES ASSUME NEW i \in 1 .. Len(n), NEW j \in 1 .. Len(n), n[i].key = n[j].key
                 PROVE  i = j
      BY <1>2 DEF Once
    <2>1. i \in 1 .. Len(l) /\ j \in 1 .. Len(l) => i = j
      BY <1>1, <1>2 DEF Once
    <2>2. i \in 1 .. Len(l) => j # Len(l) + 1
      BY <1>1, <1>4
    <2>3. j \in 1 .. Len(l) => i # Len(l) + 1
      BY <1>1, <1>4
    <2> QED BY <1>3, <2>1, <2>2, <2>3
  <1> QED BY <1>1, <1>5, <1>6

LEMMA WithoutList ==
  ASSUME NEW S, NEW l \in Seq(S), Once(l), NEW k, NEW n, n = Without(l, k)
  PROVE  /\ n \in Seq(S) /\ Once(n) /\ \A x : Has(n, x) <=> Has(l, x) /\ x.key # k
  <1>1. CASE ~In(l, k)
    <2>1. n = l
      BY <1>1 DEF Without
    <2>2. \A x : Has(l, x) => x.key # k
      BY <1>1, ListFacts DEF Has, In
    <2> QED BY <2>1, <2>2
  <1>2. CASE In(l, k)
    <2> DEFINE at == Place(l, k)
    <2>1. /\ Len(l) \in Nat /\ DOMAIN l = 1 .. Len(l) /\ n = RemoveAt(l, at)
          /\ at \in 1 .. Len(l) /\ l[at].key = k
      BY <1>2, ListFacts DEF Without, Place, In
    <2> HIDE DEF at
    <2>2. n \in Seq(S) /\ TakenOut(l, n, at)
      BY <2>1, TakenOutFacts
    <2>3. DOMAIN n = 1 .. Len(n) /\ Len(n) \in Nat
      BY <2>2, ListFacts
    <2> DEFINE old(i) == IF i < at THEN i ELSE i + 1
    <2>4. ASSUME NEW i \in 1 .. Len(n)
          PROVE  old(i) \in 1 .. Len(l) /\ n[i] = l[old(i)] /\ old(i) # at
      <3>1. CASE i < at
        BY <2>1, <2>2, <2>3, <3>1 DEF TakenOut
      <3>2. CASE ~(i < at)
        BY <2>1, <2>2, <2>3, <3>2 DEF TakenOut
      <3> QED BY <3>1, <3>2
    <2>5. ASSUME NEW i \in 1 .. Len(n), NEW j \in 1 .. Len(n), old(i) = old(j) PROVE i = j
      BY <2>1, <2>3, <2>5
    <2>6. ASSUME NEW i \in 1 .. Len(l), i # at
          PROVE  \E j \in 1 .. Len(n) : n[j] = l[i]
      <3>1. CASE i < at
        <4>1. i \in 1 .. Len(n) /\ n[i] = l[i]
          BY <2>1, <2>2, <3>1 DEF TakenOut
        <4> QED BY <4>1
      <3>2. CASE i > at
        <4>1. i - 1 \in at .. Len(l) - 1 /\ (i - 1) + 1 = i /\ i - 1 \in 1 .. Len(n)
          BY <2>1, <2>2, <3>2 DEF TakenOut
        <4>2. n[i - 1] = l[(i - 1) + 1]
          BY <2>2, <4>1 DEF TakenOut
        <4> QED BY <4>1, <4>2
      <3> QED BY <2>1, <2>6, <3>1, <3>2
    <2> HIDE DEF old
    <2>7. \A i, j \in 1 .. Len(l) : l[i].key = l[j].key => i = j
      BY <2>1 DEF Once
    <2>8. Once(n)
      <3> SUFFICES ASSUME NEW i \in 1 .. Len(n), NEW j \in 1 .. Len(n), n[i].key = n[j].key
                   PROVE  i = j
        BY <2>3 DEF Once
      <3>1. old(i) = old(j)
        BY <2>4, <2>7
      <3> QED BY <2>5, <3>1
    <2>9. ASSUME NEW x, Has(n, x) PROVE Has(l, x) /\ x.key # k
      <3>1. PICK i \in 1 .. Len(n) : n[i] = x
        BY <2>9 DEF Has
      <3> QED BY <2>1, <2>4, <2>7, <3>1 DEF Has
    <2>10. ASSUME NEW x, Has(l, x), x.key # k PROVE Has(n, x)
      <3>1. PICK i \in 1 .. Len(l) : l[i] = x
        BY <2>10 DEF Has
      <3>2. i # at
        BY <2>1, <2>10, <3>1
      <3> QED BY <2>6, <3>1, <3>2 DEF Has
    <2> QED BY <2>2, <2>8, <2>9, <2>10
  <1> QED BY <1>1, <1>2

LEMMA SuffixList ==
  ASSUME NEW S, NEW l \in Seq(S), Once(l), NEW m \in 0 .. Len(l), NEW n,
         n = SubSeq(l, m + 1, Len(l))
  PROVE  /\ n \in Seq(S) /\ Once(n) /\ \A x : Has(n, x) => Has(l, x)
  <1> DEFINE c == Len(l)
             d == Len(n)
  <1>1. /\ c \in Nat /\ DOMAIN l = 1 .. c /\ m \in 0 .. c
        /\ \A i \in 1 .. c : l[i] \in S
    BY ListFacts
  <1>2. /\ n \in Seq(S) /\ d = IF m + 1 <= c THEN c - (m + 1) + 1 ELSE 0
        /\ \A i \in 1 .. c - (m + 1) + 1 : n[i] = l[(m + 1) + i - 1]
    <2>1. \A i \in m + 1 .. c : l[i] \in S
      BY <1>1
    <2> QED BY <1>1, <2>1, SubSeqProperties
  <1>3. d \in Nat /\ DOMAIN n = 1 .. d
    BY <1>2, ListFacts
  <1> HIDE DEF c, d
  <1>4. d = c - m /\ m \in Nat
    BY <1>1, <1>2
  <1>5. ASSUME NEW i \in 1 .. d PROVE m + i \in 1 .. c /\ n[i] = l[m + i] /\ i \in Nat
    <2>1. i \in 1 .. c - (m + 1) + 1 /\ (m + 1) + i - 1 = m + i
      BY <1>1, <1>4
    <2> QED BY <1>1, <1>2, <1>4, <2>1
  <1>6. Once(n)
    <2> SUFFICES ASSUME NEW i \in 1 .. d, NEW j \in 1 .. d, n[i].key = n[j].key
                 PROVE  i = j
      BY <1>3 DEF Once
    <2>1. l[m + i].key = l[m + j].key /\ m + i \in DOMAIN l /\ m + j \in DOMAIN l
      BY <1>1, <1>5
    <2>2. m + i = m + j
      BY <2>1 DEF Once
    <2> QED BY <1>1, <1>5, <2>2
  <1>7. ASSUME NEW x, Has(n, x) PROVE Has(l, x)
    <2>1. PICK i \in 1 .. d : n[i] = x
      BY <1>7 DEF Has, d
    <2> QED BY <1>5, <2>1 DEF Has, c
  <1> QED BY <1>2, <1>6, <1>7

LEMMA TailList ==
  ASSUME NEW S, NEW l \in Seq(S), l # <<>>, Once(l), NEW n, n = Tail(l), NEW h, h = Head(l)
  PROVE  /\ n \in Seq(S) /\ Once(n) /\ h \in S /\ Has(l, h)
         /\ \A x : Has(n, x) <=> Has(l, x) /\ x.key # h.key
  <1>1. /\ n \in Seq(S) /\ Len(n) = Len(l) - 1
        /\ \A i \in 1 .. Len(n) : n[i] = l[i + 1]
    BY HeadTailProperties
  <1>2. /\ Len(l) \in Nat /\ DOMAIN l = 1 .. Len(l) /\ DOMAIN n = 1 .. Len(n)
        /\ h = l[1] /\ 1 \in 1 .. Len(l) /\ h \in S
    BY <1>1, ListFacts
  <1>3. \A i, j \in 1 .. Len(l) : l[i].key = l[j].key => i = j
    BY <1>2 DEF Once
  <1>4. \A i \in 1 .. Len(n) : i + 1 \in 1 .. Len(l) /\ i + 1 # 1 /\ n[i] = l[i + 1]
    BY <1>1, <1>2
  <1>5. Once(n)
    <2> SUFFICES ASSUME NEW i \in 1 .. Len(n), NEW j \in 1 .. Len(n), n[i].key = n[j].key
                 PROVE  i = j
      BY <1>2 DEF Once
    <2>1. i + 1 = j + 1
      BY <1>3, <1>4
    <2> QED BY <1>1, <1>2, <2>1
  <1>6. ASSUME NEW x, Has(n, x) PROVE Has(l, x) /\ x.key # h.key
    <2>1. PICK i \in 1 .. Len(n) : n[i] = x
      BY <1>6 DEF Has
    <2>2. i + 1 \in 1 .. Len(l) /\ i + 1 # 1 /\ l[i + 1] = x
      BY <1>4, <2>1
    <2>3. x.key # h.key
      BY <1>2, <1>3, <2>2
    <2> QED BY <2>2, <2>3 DEF Has
  <1>7. ASSUME NEW x, Has(l, x), x.key # h.key PROVE Has(n, x)
    <2>1. PICK i \in 1 .. Len(l) : l[i] = x
      BY <1>7 DEF Has
    <2>2. i # 1
      BY <1>2, <1>7, <2>1
    <2>3. i - 1 \in 1 .. Len(n) /\ (i - 1) + 1 = i
      BY <1>1, <1>2, <2>2
    <2>4. n[i - 1] = x
      BY <1>1, <2>1, <2>3
    <2> QED BY <2>3, <2>4 DEF Has
  <1>8. Has(l, h)
    BY <1>2 DEF Has
  <1> QED BY <1>1, <1>2, <1>5, <1>6, <1>7, <1>8

Replaced(l, e) == [i \in DOMAIN l |-> IF l[i].key = e.key THEN e ELSE l[i]]

LEMMA ReplaceList ==
  ASSUME NEW S, NEW l \in Seq(S), Once(l), NEW e \in S, In(l, e.key), NEW n, n = Replaced(l, e)
  PROVE  /\ n \in Seq(S) /\ Once(n) /\ n # <<>>
         /\ \A x : Has(n, x) <=> x = e \/ (Has(l, x) /\ x.key # e.key)
  <1> DEFINE c == Len(l)
  <1>1. c \in Nat /\ DOMAIN l = 1 .. c /\ \A i \in 1 .. c : l[i] \in S
    BY ListFacts
  <1> HIDE DEF c
  <1>2. n \in [1 .. c -> S] /\ \A i \in 1 .. c : n[i] = IF l[i].key = e.key THEN e ELSE l[i]
    BY <1>1 DEF Replaced
  <1>3. n \in Seq(S) /\ DOMAIN n = 1 .. c
    BY <1>1, <1>2
  <1>4. Len(n) = c
    <2>1. DOMAIN n = 1 .. Len(n) /\ Len(n) \in Nat
      BY <1>3, ListFacts
    <2> QED BY <1>1, <1>3, <2>1
  <1>5. \A i \in 1 .. c : n[i].key = l[i].key
    BY <1>2
  <1>6. PICK p \in 1 .. c : l[p].key = e.key
    BY <1>1 DEF In
  <1>7. Once(n)
    BY <1>1, <1>3, <1>5 DEF Once
  <1>8. n # <<>>
    BY <1>1, <1>3, <1>4, <1>6, ListFacts
  <1>9. \A x : Has(n, x) <=> x = e \/ (Has(l, x) /\ x.key # e.key)
    BY <1>2, <1>4, <1>6 DEF Has, c
  <1> QED BY <1>3, <1>7, <1>8, <1>9

(* What a reader sees, in these terms.                                      *)

\* A list that keeps the items of a key is searched for it with the same result.
LEMMA FindSame ==
  ASSUME NEW S, NEW l \in Seq(S), Once(l), NEW n \in Seq(S), Once(n), NEW k,
         \A x : x.key = k => (Has(n, x) <=> Has(l, x))
  PROVE  (In(n, k) <=> In(l, k)) /\ (In(l, k) => Find(n, k) = Find(l, k))
  <1>1. /\ \A y : In(l, y) <=> \E x : Has(l, x) /\ x.key = y
        /\ \A y : In(l, y) => Has(l, Find(l, y)) /\ Find(l, y).key = y
    BY FindFacts
  <1>2. /\ \A y : In(n, y) <=> \E x : Has(n, x) /\ x.key = y
        /\ \A x : Has(n, x) => Find(n, x.key) = x
    BY FindFacts
  <1> QED BY <1>1, <1>2

\* The read list hides nothing when it holds what flash has.
LEMMA SeenMirrored ==
  ASSUME NEW r \in Seq(Item), Once(r), NEW f, Mirrors(r, f), NEW w, NEW k
  PROVE  SeenIn(f, r, w, k) = IF In(w, k) THEN Find(w, k).val ELSE f[k]
  <1>1. /\ In(r, k) => Has(r, Find(r, k)) /\ Find(r, k).key = k
        /\ \A x : Has(r, x) => x \in Item
    BY FindFacts
  <1>2. In(r, k) => Find(r, k).val = f[k]
    BY <1>1 DEF Mirrors
  <1> QED BY <1>2 DEF SeenIn

-----------------------------------------------------------------------------
(* What each action does to the lists.                                      *)

Lists ==
  /\ readList \in Seq(Item) /\ writeList \in Seq(Kept)
  /\ Once(readList) /\ Once(writeList)
  /\ \A k \in Keys : ~(In(readList, k) /\ In(writeList, k))

LEMMA ListsFacts ==
  ASSUME Typed, Apart
  PROVE  Lists
  BY DEF Typed, Apart, OneCopy, Lists

LEMMA Width0 ==
  /\ Width \in Nat \ {0} /\ CacheCap \in Nat
  /\ \A i \in Int : i % Width \in 0 .. Width - 1
  BY KvCacheAssumption

LEMMA OccupiedFacts ==
  ASSUME NEW n \in Nat
  PROVE  Occupied(n) \in Nat
  <1> DEFINE s == {i \in 1 .. n : readList[i].val # None}
  <1>1. IsFiniteSet(1 .. n) /\ s \subseteq 1 .. n
    BY FS_Interval
  <1>2. IsFiniteSet(s)
    BY <1>1, FS_Subset
  <1> QED BY <1>2, FS_CardinalityType DEF Occupied

LEMMA SetCacheLists ==
  ASSUME Typed, Apart, SetCache
  PROVE  /\ readList' \in Seq(Item) /\ writeList' \in Seq(Kept)
         /\ Once(readList') /\ Once(writeList')
         /\ call.key \in Keys /\ call.val \in Values
         /\ \A x : Has(readList', x) <=> Has(readList, x) /\ x.key # call.key
         /\ \A x : Has(writeList', x) <=>
              x = [key |-> call.key, val |-> call.val] \/ (Has(writeList, x) /\ x.key # call.key)
         /\ length' \in 0 .. Width - 1
         /\ call' = [call EXCEPT !.pc = "setFlush"] \/
              (call' = [call EXCEPT !.pc = "setDone"] /\ In(writeList, call.key))
  <1> DEFINE k == call.key
             v == call.val
             e == [key |-> k, val |-> v]
  <1>1. Lists
    BY ListsFacts
  <1>2. call \in Calling /\ k \in Keys /\ v \in Values /\ e \in Kept /\ e.key = k
    BY DEF Typed, SetCache, Setting, Idle, Calling, Kept
  <1>3. /\ \A y : In(readList, y) <=> \E x : Has(readList, x) /\ x.key = y
        /\ \A y : In(writeList, y) <=> \E x : Has(writeList, x) /\ x.key = y
    BY <1>1, FindFacts DEF Lists
  <1>4. CASE In(readList, k)
    <2>1. /\ length' = Less(Size(Find(readList, k).val))
          /\ readList' = Without(readList, k) /\ writeList' = Append(writeList, e)
          /\ call' = [call EXCEPT !.pc = "setFlush"]
      BY <1>4 DEF SetCache, Goto
    <2>2. ~In(writeList, k)
      BY <1>1, <1>2, <1>4 DEF Lists
    <2>3. /\ readList' \in Seq(Item) /\ Once(readList')
          /\ \A x : Has(readList', x) <=> Has(readList, x) /\ x.key # k
      BY <1>1, <2>1, WithoutList DEF Lists
    <2> HIDE DEF e
    <2>4. /\ writeList' \in Seq(Kept) /\ Once(writeList')
          /\ \A x : Has(writeList', x) <=> Has(writeList, x) \/ x = e
      <3>1. writeList \in Seq(Kept) /\ Once(writeList) /\ e \in Kept /\ ~In(writeList, e.key)
        BY <1>1, <1>2, <2>2 DEF Lists
      <3> QED BY <2>1, <3>1, AppendList, Zenon
    <2>5. \A x : Has(writeList, x) => x.key # k
      BY <1>3, <2>2
    <2>6. length' \in 0 .. Width - 1
      BY <2>1, Width0 DEF Less, Size, Typed
    <2> QED BY <1>2, <2>1, <2>3, <2>4, <2>5, <2>6 DEF e
  <1>5. ASSUME ~In(readList, k), readList' = readList, length' = length
        PROVE  /\ readList' \in Seq(Item) /\ Once(readList') /\ length' \in 0 .. Width - 1
               /\ \A x : Has(readList', x) <=> Has(readList, x) /\ x.key # k
    BY <1>1, <1>3, <1>5 DEF Lists, Typed
  <1>6. CASE ~In(readList, k) /\ InPlace(k, v)
    <2>1. /\ length' = length /\ readList' = readList /\ In(writeList, k)
          /\ writeList' = [i \in DOMAIN writeList |->
                 IF writeList[i].key = k THEN e ELSE writeList[i]]
          /\ call' = [call EXCEPT !.pc = "setDone"]
      BY <1>6 DEF SetCache, Goto, InPlace
    <2> HIDE DEF e
    <2>2. /\ writeList' \in Seq(Kept) /\ Once(writeList')
          /\ \A x : Has(writeList', x) <=> x = e \/ (Has(writeList, x) /\ x.key # k)
      <3>1. writeList \in Seq(Kept) /\ Once(writeList) /\ e \in Kept /\ In(writeList, e.key)
        BY <1>1, <1>2, <2>1 DEF Lists
      <3>2. writeList' = Replaced(writeList, e)
        BY <1>2, <2>1 DEF Replaced
      <3>3. /\ writeList' \in Seq(Kept) /\ Once(writeList')
            /\ \A x : Has(writeList', x) <=> x = e \/ (Has(writeList, x) /\ x.key # e.key)
        BY <3>1, <3>2, ReplaceList, Zenon
      <3> QED BY <1>2, <3>3
    <2> QED BY <1>2, <1>5, <1>6, <2>1, <2>2 DEF e
  <1>7. CASE ~In(readList, k) /\ ~InPlace(k, v)
    <2> DEFINE m == Without(writeList, k)
    <2>1. /\ length' = length /\ readList' = readList
          /\ writeList' = Append(m, e)
          /\ call' = [call EXCEPT !.pc = "setFlush"]
      BY <1>7 DEF SetCache, Goto, Requeued
    <2>2. /\ m \in Seq(Kept) /\ Once(m)
          /\ \A x : Has(m, x) <=> Has(writeList, x) /\ x.key # k
      BY <1>1, WithoutList DEF Lists
    <2> HIDE DEF e, m
    <2>3. ~In(m, k)
      BY <2>2, FindFacts
    <2>4. /\ writeList' \in Seq(Kept) /\ Once(writeList')
          /\ \A x : Has(writeList', x) <=> Has(m, x) \/ x = e
      <3>1. m \in Seq(Kept) /\ Once(m) /\ e \in Kept /\ ~In(m, e.key)
        BY <1>2, <2>2, <2>3
      <3> QED BY <2>1, <3>1, AppendList, Zenon
    <2> QED BY <1>2, <1>5, <1>7, <2>1, <2>2, <2>4 DEF e
  <1> QED BY <1>4, <1>6, <1>7

LEMMA GetCacheLists ==
  ASSUME Typed, Apart, GetCache
  PROVE  /\ readList' \in Seq(Item) /\ Once(readList') /\ call \in Calling
         /\ \A x : Has(readList', x) <=> Has(readList, x)
         /\ \/ /\ In(writeList, call.key)
               /\ call' = [call EXCEPT !.pc = "getDone", !.val = Find(writeList, call.key).val]
            \/ /\ ~In(writeList, call.key) /\ In(readList, call.key)
               /\ call' = [call EXCEPT !.pc = "getDone", !.val = Find(readList, call.key).val]
            \/ /\ ~In(writeList, call.key) /\ ~In(readList, call.key)
               /\ call' = [call EXCEPT !.pc = "getRead"]
  <1> DEFINE k == call.key
  <1>1. Lists /\ call \in Calling
    BY ListsFacts DEF Typed, GetCache, Idle
  <1>2. CASE ~In(writeList, k) /\ In(readList, k)
    <2> DEFINE e == Find(readList, k)
               m == Without(readList, k)
    <2>1. /\ readList' = Append(m, e)
          /\ call' = [call EXCEPT !.pc = "getDone", !.val = Find(readList, k).val]
      BY <1>2 DEF GetCache, Waiting, Result
    <2>2. Has(readList, e) /\ e.key = k /\ e \in Item
      BY <1>1, <1>2, FindFacts DEF Lists
    <2>3. /\ m \in Seq(Item) /\ Once(m)
          /\ \A x : Has(m, x) <=> Has(readList, x) /\ x.key # k
      BY <1>1, WithoutList DEF Lists
    <2>4. \A x : Has(readList, x) /\ x.key = k => x = e
      BY <1>1, FindFacts DEF Lists
    <2> HIDE DEF e, m
    <2>5. ~In(m, k)
      BY <2>3, FindFacts
    <2>6. /\ readList' \in Seq(Item) /\ Once(readList')
          /\ \A x : Has(readList', x) <=> Has(m, x) \/ x = e
      <3>1. m \in Seq(Item) /\ Once(m) /\ e \in Item /\ ~In(m, e.key)
        BY <2>2, <2>3, <2>5
      <3> QED BY <2>1, <3>1, AppendList, Zenon
    <2> QED BY <1>1, <1>2, <2>1, <2>2, <2>3, <2>4, <2>6
  <1>3. CASE In(writeList, k) \/ ~In(readList, k)
    BY <1>1, <1>3 DEF GetCache, Waiting, Result, Goto, Lists
  <1> QED BY <1>2, <1>3

LEMMA GetEvictLists ==
  ASSUME Typed, Apart, GetEvict
  PROVE  /\ readList' \in Seq(Item) /\ Once(readList') /\ call \in Calling
         /\ \A x : Has(readList', x) => Has(readList, x)
         /\ length' \in 0 .. Width - 1
  <1>1. Lists /\ call \in Calling
    BY ListsFacts DEF Typed, GetEvict, Idle
  <1>2. PICK n \in 0 .. Len(readList) :
          /\ readList' = SubSeq(readList, n + 1, Len(readList))
          /\ length' = Less(Occupied(n))
    BY DEF GetEvict, Evictions
  <1>3. /\ readList' \in Seq(Item) /\ Once(readList')
        /\ \A x : Has(readList', x) => Has(readList, x)
    <2>1. readList \in Seq(Item) /\ Once(readList)
      BY <1>1 DEF Lists
    <2>2. readList' = SubSeq(readList, n + 1, Len(readList)) /\ n \in 0 .. Len(readList)
      BY <1>2
    <2> QED BY <2>1, <2>2, SuffixList, ZenonT(40)
  <1>4. Occupied(n) \in Nat
    BY <1>1, OccupiedFacts
  <1>5. length - Occupied(n) \in Int
    BY <1>4 DEF Typed
  <1> QED BY <1>1, <1>2, <1>3, <1>5, Width0 DEF Less

LEMMA GetAddLists ==
  ASSUME Typed, Apart, GetAdd
  PROVE  /\ readList' \in Seq(Item) /\ Once(readList') /\ call \in Calling
         /\ \A x : Has(readList', x) <=>
              Has(readList, x) \/ x = [key |-> call.key, val |-> call.val]
         /\ length' \in 0 .. Width - 1
  <1> DEFINE e == [key |-> call.key, val |-> call.val]
  <1>1. Lists /\ call \in Calling
    BY ListsFacts DEF Typed, GetAdd, Idle
  <1>2. e \in Item /\ e.key = call.key
    BY <1>1 DEF Calling, Item
  <1>3. ~In(readList, call.key) /\ readList' = Append(readList, e)
    BY DEF GetAdd, Apart, Reading
  <1>4. length' \in 0 .. Width - 1
    <2>1. length' = (length + 1) % Width /\ length + 1 \in Int
      BY Width0 DEF GetAdd, Typed
    <2> QED BY <2>1, Width0
  <1> HIDE DEF e
  <1>5. /\ readList' \in Seq(Item) /\ Once(readList')
        /\ \A x : Has(readList', x) <=> Has(readList, x) \/ x = e
    BY <1>1, <1>2, <1>3, AppendList DEF Lists
  <1> QED BY <1>1, <1>4, <1>5 DEF e

LEMMA FlushWriteLists ==
  ASSUME Typed, Apart, FlushWrite, NEW h, h = Head(writeList)
  PROVE  /\ readList' \in Seq(Item) /\ writeList' \in Seq(Kept)
         /\ Once(readList') /\ Once(writeList')
         /\ h \in Kept /\ Has(writeList, h)
         /\ \A x : Has(readList', x) <=> Has(readList, x) \/ x = h
         /\ \A x : Has(writeList', x) <=> Has(writeList, x) /\ x.key # h.key
  <1>1. Lists
    BY ListsFacts
  <1>2. writeList # <<>> /\ writeList' = Tail(writeList) /\ readList' = Append(readList, h)
    BY DEF FlushWrite
  <1>3. /\ writeList' \in Seq(Kept) /\ Once(writeList') /\ h \in Kept /\ Has(writeList, h)
        /\ \A x : Has(writeList', x) <=> Has(writeList, x) /\ x.key # h.key
    BY <1>1, <1>2, TailList DEF Lists
  <1>4. h \in Item /\ h.key \in Keys
    BY <1>3 DEF Kept, Item
  <1>5. ~In(readList, h.key)
    <2>1. In(writeList, h.key)
      BY <1>1, <1>3, FindFacts DEF Lists
    <2> QED BY <1>1, <1>4, <2>1 DEF Lists
  <1>6. /\ readList' \in Seq(Item) /\ Once(readList')
        /\ \A x : Has(readList', x) <=> Has(readList, x) \/ x = h
    <2>1. /\ readList \in Seq(Item) /\ Once(readList) /\ h \in Item /\ ~In(readList, h.key)
          /\ readList' = Append(readList, h)
      BY <1>1, <1>2, <1>4, <1>5 DEF Lists
    <2> HIDE DEF Lists
    <2> QED BY ONLY <2>1, AppendList, Zenon
  <1> QED BY <1>3, <1>6

-----------------------------------------------------------------------------
(* The call under way.                                                      *)

LEMMA GotoFacts ==
  ASSUME call \in Calling, NEW pc \in Pcs, Goto(pc)
  PROVE  call' \in Calling /\ call'.pc = pc /\ call'.key = call.key /\ call'.val = call.val
  BY DEF Goto, Calling

LEMMA ResultFacts ==
  ASSUME call \in Calling, NEW v \in Values \cup {Garbled}, Result(v)
  PROVE  call' \in Calling /\ call'.pc = "getDone" /\ call'.key = call.key /\ call'.val = v
  BY DEF Result, Calling, Pcs

\* A call under way has a key and a step.
LEMMA CallFacts ==
  ASSUME Typed, call.pc # "idle"
  PROVE  call \in Calling /\ call.key \in Keys /\ call.pc \in Pcs
         /\ call.val \in Values \cup {Garbled}
  BY DEF Typed, Idle, Calling

\* A step that leaves lists and flash alone moves the call and the flags.
Quiet == UNCHANGED <<flash, readList, writeList, length>>

LEMMA QuietFrame ==
  ASSUME Typed, Apart, Quiet,
         hidden' \subseteq Keys, flag' \in BOOLEAN, event' \in BOOLEAN, flushing' \in BOOLEAN,
         call' = Idle \/ call' \in Calling,
         call'.pc \in {"setFind", "setCache", "setFlush", "setDone"} => call'.val \in Values,
         call'.pc \in Reading => ~In(readList, call'.key) /\ ~In(writeList, call'.key)
  PROVE  Typed' /\ Apart'
  <1>1. Typed'
    BY DEF Typed, Quiet, Setting, Calling, Idle
  <1>2. Apart'
    BY DEF Apart, OneCopy, Quiet
  <1> QED BY <1>1, <1>2

LEMMA SetKeyStep ==
  ASSUME IInv, NEW k \in Keys, NEW v \in Values, SetKey(k, v)
  PROVE  IInv' /\ Quiet
  <1>1. /\ Quiet /\ UNCHANGED <<hidden, flag, event, flushing>>
        /\ call' = [pc |-> "setFind", key |-> k, val |-> v]
        /\ SetsBack \/ ~(In(writeList, k) /\ v = flash[k])
        /\ call.pc = "idle"
    BY DEF SetKey, Quiet, Idle
  <1>2. call' \in Calling /\ call'.pc = "setFind" /\ call'.key = k /\ call'.val = v
    BY <1>1 DEF Calling, Pcs
  <1>3. Typed' /\ Apart'
    BY <1>1, <1>2, QuietFrame DEF IInv, Typed, Reading
  <1>4. Coming'
    BY <1>1, <1>2 DEF IInv, Coming, Quiet
  <1>5. ~Overlaps => Agrees'
    BY <1>1, <1>2 DEF IInv, Agrees, Quiet
  <1>6. ~SetsBack => Holds'
    BY <1>1, <1>2 DEF Holds, Quiet
  <1> QED BY <1>1, <1>3, <1>4, <1>5, <1>6 DEF IInv

LEMMA SetFindStep ==
  ASSUME IInv, SetFind
  PROVE  IInv' /\ Quiet
  <1> DEFINE same == Valid(call.key) /\ flash[call.key] = call.val
             pc == IF same THEN "setDone" ELSE "setCache"
  <1>1. Quiet /\ UNCHANGED <<hidden, flag, event, flushing>> /\ call.pc = "setFind" /\ Goto(pc)
    BY DEF SetFind, Quiet
  <1>2. call \in Calling /\ call.key \in Keys /\ call.val \in Values /\ pc \in Pcs
    BY <1>1, CallFacts DEF IInv, Typed, Setting, Pcs
  <1>3. call' \in Calling /\ call'.pc = pc /\ call'.key = call.key /\ call'.val = call.val
    <2> HIDE DEF pc
    <2> QED BY <1>1, <1>2, GotoFacts
  <1>4. Typed' /\ Apart'
    BY <1>1, <1>2, <1>3, QuietFrame DEF IInv, Typed, Reading
  <1>5. Coming'
    BY <1>1, <1>3 DEF IInv, Coming, Quiet
  <1>6. ~Overlaps => Agrees'
    BY <1>1, <1>3 DEF IInv, Agrees, Quiet
  <1>7. ASSUME ~Overlaps, ~SetsBack PROVE Holds'
    <2>1. ~(In(writeList, call.key) /\ call.val = flash[call.key]) /\ Mirrors(readList, flash)
      BY <1>1, <1>7 DEF IInv, Holds, Agrees
    <2>2. Seen(call.key) = IF In(writeList, call.key) THEN Find(writeList, call.key).val
                           ELSE flash[call.key]
      BY <2>1, SeenMirrored, ListsFacts DEF Seen, Lists, IInv
    <2>3. same => Seen(call.key) = call.val
      BY <2>1, <2>2
    <2> QED BY <1>1, <1>3, <2>3 DEF Holds, Quiet, Seen
  <1> QED BY <1>1, <1>4, <1>5, <1>6, <1>7 DEF IInv

LEMMA SetFlushStep ==
  ASSUME IInv, SetFlush
  PROVE  IInv' /\ Quiet
  <1>1. /\ Quiet /\ UNCHANGED <<hidden, flushing>> /\ call.pc = "setFlush" /\ Goto("setDone")
        /\ flag' = TRUE /\ event' = (event \/ ~flag)
    BY DEF SetFlush, Quiet
  <1>2. call \in Calling /\ call.key \in Keys /\ call.val \in Values
    BY <1>1, CallFacts DEF IInv, Typed, Setting
  <1>3. call' \in Calling /\ call'.pc = "setDone" /\ call'.key = call.key /\ call'.val = call.val
    BY <1>1, <1>2, GotoFacts DEF Pcs
  <1>4. Typed' /\ Apart'
    BY <1>1, <1>2, <1>3, QuietFrame DEF IInv, Typed, Reading
  <1>5. Coming'
    BY <1>1, <1>3 DEF IInv, Coming, Quiet, Typed
  <1>6. ~Overlaps => Agrees'
    BY <1>1, <1>3 DEF IInv, Agrees, Quiet
  <1>7. ~Overlaps /\ ~SetsBack => Holds'
    BY <1>1, <1>3 DEF IInv, Holds, Quiet, Seen
  <1> QED BY <1>1, <1>4, <1>5, <1>6, <1>7 DEF IInv

LEMMA GetKeyStep ==
  ASSUME IInv, NEW k \in Keys, GetKey(k)
  PROVE  IInv' /\ Quiet
  <1>1. /\ Quiet /\ UNCHANGED <<hidden, flag, event, flushing>> /\ call.pc = "idle"
        /\ call' = [pc |-> "getCache", key |-> k, val |-> None]
    BY DEF GetKey, Quiet, Idle
  <1>2. call' \in Calling /\ call'.pc = "getCache"
    BY <1>1 DEF Calling, Pcs, Values
  <1>3. Typed' /\ Apart'
    BY <1>1, <1>2, QuietFrame DEF IInv, Typed, Reading
  <1>4. Coming' /\ (~Overlaps => Agrees') /\ Holds'
    BY <1>1, <1>2 DEF IInv, Coming, Agrees, Holds, Quiet
  <1> QED BY <1>1, <1>3, <1>4 DEF IInv

LEMMA GetReadStep ==
  ASSUME IInv, GetRead
  PROVE  IInv' /\ Quiet
  <1> DEFINE k == call.key
  <1>1. /\ Quiet /\ UNCHANGED <<hidden, flag, event, flushing>> /\ call.pc = "getRead"
        /\ Overlaps \/ k \notin hidden
    BY DEF GetRead, Quiet
  <1>2. call \in Calling /\ k \in Keys /\ flash[k] \in Values /\ None \in Values
    BY <1>1, CallFacts DEF IInv, Typed, Values
  <1>3. ~In(readList, k) /\ ~In(writeList, k)
    BY <1>1 DEF IInv, Apart, Reading
  <1>4. /\ call' \in Calling /\ call'.key = k
        /\ \/ Valid(k) /\ call'.pc = "getEvict" /\ call'.val = flash[k]
           \/ ~Valid(k) /\ call'.pc = "getDone" /\ call'.val = None
    <2>1. CASE Valid(k)
      BY <1>2, <2>1 DEF GetRead, Calling, Pcs
    <2>2. CASE ~Valid(k)
      BY <1>2, <2>2, ResultFacts DEF GetRead
    <2> QED BY <2>1, <2>2
  <1>5. Typed' /\ Apart'
    BY <1>1, <1>2, <1>3, <1>4, QuietFrame DEF IInv, Typed, Reading
  <1>6. Coming' /\ Holds'
    BY <1>1, <1>4 DEF IInv, Coming, Holds, Quiet
  <1>7. ASSUME ~Overlaps PROVE Agrees'
    <2>1. Seen(k) = flash[k]
      BY <1>3 DEF Seen, SeenIn
    <2>2. ~Valid(k) => flash[k] = None
      BY <1>1, <1>7 DEF Valid
    <2> QED BY <1>1, <1>4, <1>7, <2>1, <2>2 DEF IInv, Agrees, Quiet, Seen, Valid
  <1> QED BY <1>1, <1>5, <1>6, <1>7 DEF IInv

LEMMA ReturnStep ==
  ASSUME IInv, Return
  PROVE  IInv' /\ Quiet
  <1>1. /\ Quiet /\ UNCHANGED <<hidden, flag, event, flushing>>
        /\ call.pc \in {"setDone", "getDone"} /\ call' = Idle /\ call'.pc = "idle"
    BY DEF Return, Quiet, Idle
  <1>2. Typed' /\ Apart'
    BY <1>1, QuietFrame DEF IInv, Typed, Reading
  <1>3. Coming' /\ (~Overlaps => Agrees') /\ Holds'
    BY <1>1 DEF IInv, Coming, Agrees, Holds, Quiet
  <1> QED BY <1>1, <1>2, <1>3 DEF IInv

\* The steps of the flush that leave the lists and flash alone, but FlushMoved.
LEMMA FlushQuietStep ==
  ASSUME IInv, FlushStart \/ FlushEnd \/ FlushHide \/ \E k \in Keys : FlushMove(k)
  PROVE  IInv' /\ Quiet
  <1>1. /\ Quiet /\ UNCHANGED call /\ hidden' \subseteq Keys
        /\ flag' \in BOOLEAN /\ event' \in BOOLEAN /\ flushing' \in BOOLEAN
    <2>1. CASE FlushHide
      <3>1. Head(writeList) \in Kept
        BY <2>1, ListFacts DEF FlushHide, IInv, Typed
      <3> QED BY <2>1, <3>1 DEF FlushHide, Quiet, IInv, Typed, Kept
    <2> QED BY <2>1 DEF FlushStart, FlushEnd, FlushMove, Quiet, IInv, Typed
  <1>2. Typed' /\ Apart'
    BY <1>1, QuietFrame DEF IInv, Typed, Apart, Setting
  <1>3. Coming'
    BY <1>1 DEF FlushStart, FlushEnd, FlushHide, FlushMove, Quiet, IInv, Coming, Typed
  <1>4. ASSUME ~Overlaps, call.pc \in {"getEvict", "getAdd"} PROVE call.key \notin hidden'
    <2>1. call.key \notin hidden
      BY <1>4 DEF IInv, Agrees
    <2>2. CASE FlushHide
      <3>1. hidden' = {Head(writeList).key} /\ writeList # <<>>
        BY <2>2 DEF FlushHide
      <3>2. 1 \in DOMAIN writeList /\ Head(writeList) = writeList[1]
        BY <3>1, ListFacts DEF IInv, Typed
      <3>3. ~In(writeList, call.key)
        BY <1>4 DEF IInv, Apart, Reading
      <3> QED BY <3>1, <3>2, <3>3 DEF In
    <2> QED BY <1>4, <2>1, <2>2 DEF FlushStart, FlushEnd, FlushMove
  <1>5. ~Overlaps => Agrees'
    BY <1>1, <1>4 DEF IInv, Agrees, Quiet, Seen
  <1>6. ~Overlaps /\ ~SetsBack => Holds'
    BY <1>1 DEF IInv, Holds, Quiet, Seen
  <1> QED BY <1>1, <1>2, <1>3, <1>5, <1>6 DEF IInv

LEMMA FlushMovedStep ==
  ASSUME IInv, FlushMoved
  PROVE  IInv' /\ Quiet /\ (~Overlaps => call' = call)
  <1> DEFINE cut == call.pc \in {"getEvict", "getAdd"} /\ call.key \in hidden
  <1>1. /\ Quiet /\ UNCHANGED <<flag, event, flushing>> /\ hidden' = {}
        /\ call' = IF cut THEN [call EXCEPT !.val = Garbled] ELSE call
    BY DEF FlushMoved, Quiet
  <1>2. /\ call' = Idle \/ call' \in Calling
        /\ call'.pc = call.pc /\ call'.key = call.key
        /\ ~cut => call' = call
    <2>1. CASE cut
      <3>1. call \in Calling
        BY <2>1, CallFacts DEF IInv
      <3> QED BY <1>1, <2>1, <3>1 DEF Calling
    <2> QED BY <1>1, <2>1 DEF IInv, Typed
  <1>3. ~Overlaps => ~cut
    BY DEF IInv, Agrees
  <1>4. Typed' /\ Apart'
    <2>1. call'.pc \in {"setFind", "setCache", "setFlush", "setDone"} => call'.val \in Values
      BY <1>2 DEF IInv, Typed, Setting
    <2> QED BY <1>1, <1>2, <2>1, QuietFrame DEF IInv, Typed, Apart
  <1>5. Coming'
    BY <1>1, <1>2 DEF IInv, Coming, Quiet
  <1>6. ~Overlaps => Agrees'
    BY <1>1, <1>2, <1>3 DEF IInv, Agrees, Quiet, Seen
  <1>7. ~Overlaps /\ ~SetsBack => Holds'
    BY <1>1, <1>2, <1>3 DEF IInv, Holds, Quiet, Seen
  <1> QED BY <1>1, <1>2, <1>3, <1>4, <1>5, <1>6, <1>7 DEF IInv

\* Membership is what In says, in the lists before a step and after it.
LEMMA InFacts ==
  ASSUME NEW r \in Seq(Item), NEW w \in Seq(Kept), Once(r), Once(w)
  PROVE  /\ \A k : In(r, k) <=> \E x : Has(r, x) /\ x.key = k
         /\ \A k : In(w, k) <=> \E x : Has(w, x) /\ x.key = k
         /\ \A x : Has(r, x) => x \in Item
         /\ \A x : Has(w, x) => x \in Kept /\ Find(w, x.key) = x
         /\ w # <<>> <=> \E x : Has(w, x)
  <1>1. w # <<>> <=> \E x : Has(w, x)
    <2>1. /\ w = <<>> <=> Len(w) = 0
          /\ w # <<>> => 1 \in 1 .. Len(w)
      BY ListFacts
    <2> QED BY <2>1 DEF Has
  <1> QED BY <1>1, FindFacts

LEMMA SetCacheStep ==
  ASSUME IInv, SetCache
  PROVE  /\ IInv'
         /\ ~Overlaps => \A k \in Keys :
              Seen(k)' = IF k = call.key THEN call.val ELSE Seen(k)
  <1> DEFINE c == call.key
             e == [key |-> c, val |-> call.val]
  <1>1. Lists /\ Typed /\ Apart /\ Coming
    BY ListsFacts DEF IInv
  <1>2. /\ readList' \in Seq(Item) /\ writeList' \in Seq(Kept)
        /\ Once(readList') /\ Once(writeList')
        /\ c \in Keys /\ call.val \in Values
        /\ \A x : Has(readList', x) <=> Has(readList, x) /\ x.key # c
        /\ \A x : Has(writeList', x) <=> x = e \/ (Has(writeList, x) /\ x.key # c)
        /\ length' \in 0 .. Width - 1
        /\ call' = [call EXCEPT !.pc = "setFlush"] \/
             (call' = [call EXCEPT !.pc = "setDone"] /\ In(writeList, c))
    BY <1>1, SetCacheLists
  <1>3. /\ call.pc = "setCache" /\ UNCHANGED <<flash, hidden, flag, event, flushing>>
        /\ e.key = c /\ e.val = call.val
    BY DEF SetCache
  <1>4. /\ call' \in Calling /\ call'.pc \in {"setFlush", "setDone"}
        /\ call'.key = c /\ call'.val = call.val
        /\ call'.pc = "setDone" => In(writeList, c)
    BY <1>1, <1>2, <1>3, CallFacts DEF Calling, Pcs
  <1> HIDE DEF e, c
  <1>5. /\ \A k : In(readList, k) <=> \E x : Has(readList, x) /\ x.key = k
        /\ \A k : In(writeList, k) <=> \E x : Has(writeList, x) /\ x.key = k
        /\ writeList # <<>> <=> \E x : Has(writeList, x)
    BY <1>1, InFacts DEF Lists
  <1>6. /\ \A k : In(readList', k) <=> \E x : Has(readList', x) /\ x.key = k
        /\ \A k : In(writeList', k) <=> \E x : Has(writeList', x) /\ x.key = k
        /\ \A x : Has(writeList', x) => Find(writeList', x.key) = x
    BY <1>2, InFacts
  <1>7. Typed'
    BY <1>1, <1>2, <1>3, <1>4 DEF Typed
  <1>8. Apart'
    <2>1. \A k \in Keys : ~(In(readList', k) /\ In(writeList', k))
      BY <1>1, <1>2, <1>3, <1>5, <1>6 DEF Lists
    <2> QED BY <1>2, <1>4, <2>1 DEF Apart, OneCopy, Reading
  <1>9. Coming'
    <2>1. call'.pc = "setDone" => writeList # <<>>
      BY <1>4, <1>5
    <2> QED BY <1>1, <1>3, <1>4, <2>1 DEF Coming
  <1>10. ASSUME ~Overlaps
         PROVE  /\ Agrees'
                /\ \A k \in Keys : Seen(k)' = IF k = c THEN call.val ELSE Seen(k)
    <2>1. Mirrors(readList, flash) /\ Mirrors(readList', flash')
      BY <1>2, <1>3, <1>10 DEF IInv, Agrees, Mirrors
    <2>2. ASSUME NEW k \in Keys
          PROVE  /\ Seen(k) = IF In(writeList, k) THEN Find(writeList, k).val ELSE flash[k]
                 /\ Seen(k)' = IF In(writeList', k) THEN Find(writeList', k).val ELSE flash'[k]
      BY <1>1, <1>2, <2>1, SeenMirrored DEF Seen, Lists
    <2>3. In(writeList', c) /\ Find(writeList', c) = e
      BY <1>2, <1>3, <1>6
    <2>4. ASSUME NEW k \in Keys, k # c
          PROVE  /\ In(writeList', k) <=> In(writeList, k)
                 /\ In(writeList, k) => Find(writeList', k) = Find(writeList, k)
      <3>1. \A x : x.key = k => (Has(writeList', x) <=> Has(writeList, x))
        BY <1>2, <1>3, <2>4
      <3> QED BY <1>1, <1>2, <3>1, FindSame DEF Lists
    <2>5. \A k \in Keys : Seen(k)' = IF k = c THEN call.val ELSE Seen(k)
      BY <1>3, <2>2, <2>3, <2>4
    <2> QED BY <1>4, <2>1, <2>5 DEF Agrees
  <1>11. ~Overlaps => Holds'
    <2>1. \A k \in Keys : ~Overlaps =>
            SeenIn(flash', readList', writeList', k) = IF k = c THEN call.val ELSE Seen(k)
      BY <1>10 DEF Seen
    <2>2. ~Overlaps => SeenIn(flash', readList', writeList', c) = call.val
      BY <1>2, <2>1
    <2> QED BY <1>4, <2>2 DEF Holds, Seen
  <1> QED BY <1>7, <1>8, <1>9, <1>10, <1>11 DEF IInv, c

LEMMA GetCacheStep ==
  ASSUME IInv, GetCache
  PROVE  IInv' /\ (~Overlaps => \A k \in Keys : Seen(k)' = Seen(k))
  <1> DEFINE c == call.key
  <1>1. Lists /\ Typed /\ Apart /\ Coming
    BY ListsFacts DEF IInv
  <1>2. /\ readList' \in Seq(Item) /\ Once(readList') /\ call \in Calling
        /\ \A x : Has(readList', x) <=> Has(readList, x)
        /\ \/ /\ In(writeList, c)
              /\ call' = [call EXCEPT !.pc = "getDone", !.val = Find(writeList, c).val]
           \/ /\ ~In(writeList, c) /\ In(readList, c)
              /\ call' = [call EXCEPT !.pc = "getDone", !.val = Find(readList, c).val]
           \/ /\ ~In(writeList, c) /\ ~In(readList, c)
              /\ call' = [call EXCEPT !.pc = "getRead"]
    BY <1>1, GetCacheLists
  <1>3. /\ call.pc = "getCache" /\ c \in Keys
        /\ UNCHANGED <<flash, hidden, writeList, length, flag, event, flushing>>
    BY <1>2 DEF GetCache, Calling
  <1>4. \A k : In(readList', k) <=> In(readList, k)
    <2>1. \A k : In(readList, k) <=> \E x : Has(readList, x) /\ x.key = k
      BY <1>1, InFacts DEF Lists
    <2>2. \A k : In(readList', k) <=> \E x : Has(readList', x) /\ x.key = k
      BY <1>1, <1>2, InFacts DEF Lists
    <2> QED BY <1>2, <2>1, <2>2
  <1>5. /\ In(writeList, c) => Find(writeList, c).val \in Values
        /\ In(readList, c) => Find(readList, c).val \in Values \cup {Garbled}
    <2>1. /\ In(writeList, c) => Has(writeList, Find(writeList, c))
          /\ \A x : Has(writeList, x) => x \in Kept
      BY <1>1, FindFacts DEF Lists
    <2>2. /\ In(readList, c) => Has(readList, Find(readList, c))
          /\ \A x : Has(readList, x) => x \in Item
      BY <1>1, FindFacts DEF Lists
    <2> QED BY <2>1, <2>2 DEF Kept, Item
  <1>6. /\ call' \in Calling /\ call'.key = c
        /\ \/ call'.pc = "getDone" /\ call'.val = SeenIn(flash, readList, writeList, c)
           \/ call'.pc = "getRead" /\ ~In(writeList, c) /\ ~In(readList, c)
    BY <1>2, <1>5 DEF Calling, Pcs, SeenIn
  <1> HIDE DEF c
  <1>7. Typed'
    BY <1>1, <1>2, <1>3, <1>6 DEF Typed, Setting
  <1>8. Apart'
    BY <1>1, <1>2, <1>3, <1>4, <1>6 DEF Apart, OneCopy, Lists, Reading
  <1>9. Coming' /\ Holds'
    BY <1>1, <1>3, <1>6 DEF Coming, Holds
  <1>10. ASSUME ~Overlaps
         PROVE  Agrees' /\ \A k \in Keys : Seen(k)' = Seen(k)
    <2>1. Mirrors(readList, flash) /\ Mirrors(readList', flash')
      BY <1>2, <1>3, <1>10 DEF IInv, Agrees, Mirrors
    <2>2. \A k : SeenIn(flash', readList', writeList', k) = SeenIn(flash, readList, writeList, k)
      BY <1>1, <1>2, <1>3, <2>1, SeenMirrored DEF Lists
    <2> QED BY <1>6, <2>1, <2>2 DEF Agrees, Seen
  <1> QED BY <1>7, <1>8, <1>9, <1>10 DEF IInv

LEMMA GetEvictStep ==
  ASSUME IInv, GetEvict
  PROVE  IInv' /\ (~Overlaps => \A k \in Keys : Seen(k)' = Seen(k))
  <1>1. Lists /\ Typed /\ Apart /\ Coming
    BY ListsFacts DEF IInv
  <1>2. /\ readList' \in Seq(Item) /\ Once(readList') /\ call \in Calling
        /\ \A x : Has(readList', x) => Has(readList, x)
        /\ length' \in 0 .. Width - 1
    BY <1>1, GetEvictLists
  <1>3. /\ call.pc = "getEvict" /\ Goto("getAdd")
        /\ UNCHANGED <<flash, hidden, writeList, flag, event, flushing>>
    BY DEF GetEvict
  <1>4. call' \in Calling /\ call'.pc = "getAdd" /\ call'.key = call.key /\ call'.val = call.val
    BY <1>2, <1>3, GotoFacts DEF Pcs
  <1>5. \A k : In(readList', k) => In(readList, k)
    <2>1. \A k : In(readList, k) <=> \E x : Has(readList, x) /\ x.key = k
      BY <1>1, InFacts DEF Lists
    <2>2. \A k : In(readList', k) <=> \E x : Has(readList', x) /\ x.key = k
      BY <1>1, <1>2, InFacts DEF Lists
    <2> QED BY <1>2, <2>1, <2>2
  <1>6. Typed'
    BY <1>1, <1>2, <1>3, <1>4 DEF Typed, Setting
  <1>7. Apart'
    <2>1. ~In(readList, call.key) /\ ~In(writeList, call.key)
      BY <1>1, <1>3 DEF Apart, Reading
    <2> QED BY <1>1, <1>2, <1>3, <1>4, <1>5, <2>1 DEF Apart, OneCopy, Lists
  <1>8. Coming' /\ Holds'
    BY <1>1, <1>3, <1>4 DEF Coming, Holds
  <1>9. ASSUME ~Overlaps
        PROVE  Agrees' /\ \A k \in Keys : Seen(k)' = Seen(k)
    <2>1. Mirrors(readList, flash) /\ Mirrors(readList', flash')
      BY <1>2, <1>3, <1>9 DEF IInv, Agrees, Mirrors
    <2>2. \A k : SeenIn(flash', readList', writeList', k) = SeenIn(flash, readList, writeList, k)
      BY <1>1, <1>2, <1>3, <2>1, SeenMirrored DEF Lists
    <2> QED BY <1>3, <1>4, <1>9, <2>1, <2>2 DEF IInv, Agrees, Seen
  <1> QED BY <1>6, <1>7, <1>8, <1>9 DEF IInv

LEMMA GetAddStep ==
  ASSUME IInv, GetAdd
  PROVE  IInv' /\ (~Overlaps => \A k \in Keys : Seen(k)' = Seen(k))
  <1> DEFINE e == [key |-> call.key, val |-> call.val]
  <1>1. Lists /\ Typed /\ Apart /\ Coming
    BY ListsFacts DEF IInv
  <1>2. /\ readList' \in Seq(Item) /\ Once(readList') /\ call \in Calling
        /\ \A x : Has(readList', x) <=> Has(readList, x) \/ x = e
        /\ length' \in 0 .. Width - 1
    BY <1>1, GetAddLists
  <1>3. /\ call.pc = "getAdd" /\ Goto("getDone") /\ e.key = call.key /\ e.val = call.val
        /\ UNCHANGED <<flash, hidden, writeList, flag, event, flushing>>
    BY DEF GetAdd
  <1>4. call' \in Calling /\ call'.pc = "getDone" /\ call'.key = call.key /\ call'.val = call.val
    BY <1>2, <1>3, GotoFacts DEF Pcs
  <1> HIDE DEF e
  <1>5. ~In(readList, call.key) /\ ~In(writeList, call.key)
    BY <1>1, <1>3 DEF Apart, Reading
  <1>6. \A k : In(readList', k) <=> In(readList, k) \/ k = call.key
    <2>1. \A k : In(readList, k) <=> \E x : Has(readList, x) /\ x.key = k
      BY <1>1, InFacts DEF Lists
    <2>2. \A k : In(readList', k) <=> \E x : Has(readList', x) /\ x.key = k
      BY <1>1, <1>2, InFacts DEF Lists
    <2> QED BY <1>2, <1>3, <2>1, <2>2
  <1>7. Typed'
    BY <1>1, <1>2, <1>3, <1>4 DEF Typed, Setting
  <1>8. Apart'
    BY <1>1, <1>2, <1>3, <1>4, <1>5, <1>6 DEF Apart, OneCopy, Lists, Reading
  <1>9. Coming' /\ Holds'
    BY <1>1, <1>3, <1>4 DEF Coming, Holds
  <1>10. ASSUME ~Overlaps
         PROVE  Agrees' /\ \A k \in Keys : Seen(k)' = Seen(k)
    <2>1. Mirrors(readList, flash) /\ call.val = flash[call.key]
      BY <1>3, <1>10 DEF IInv, Agrees
    <2>2. Mirrors(readList', flash')
      BY <1>2, <1>3, <2>1 DEF Mirrors
    <2>3. \A k : SeenIn(flash', readList', writeList', k) = SeenIn(flash, readList, writeList, k)
      BY <1>1, <1>2, <1>3, <2>1, <2>2, SeenMirrored DEF Lists
    <2>4. SeenIn(flash, readList, writeList, call.key) = call.val
      BY <1>5, <2>1 DEF SeenIn
    <2> QED BY <1>3, <1>4, <2>2, <2>3, <2>4 DEF Agrees, Seen
  <1> QED BY <1>7, <1>8, <1>9, <1>10 DEF IInv

LEMMA FlushWriteStep ==
  ASSUME IInv, FlushWrite
  PROVE  IInv' /\ (~Overlaps => \A k \in Keys : Seen(k)' = Seen(k))
  <1> DEFINE h == Head(writeList)
  <1>1. Lists /\ Typed /\ Apart /\ Coming
    BY ListsFacts DEF IInv
  <1>2. /\ readList' \in Seq(Item) /\ writeList' \in Seq(Kept)
        /\ Once(readList') /\ Once(writeList')
        /\ h \in Kept /\ Has(writeList, h)
        /\ \A x : Has(readList', x) <=> Has(readList, x) \/ x = h
        /\ \A x : Has(writeList', x) <=> Has(writeList, x) /\ x.key # h.key
    BY <1>1, FlushWriteLists
  <1>3. /\ flushing /\ hidden = {h.key} /\ hidden' = {}
        /\ flash' = [flash EXCEPT ![h.key] = h.val]
        /\ UNCHANGED <<length, flag, event, flushing, call>>
    BY DEF FlushWrite
  <1>4. h.key \in Keys /\ h.val \in Values /\ h \in Item
    BY <1>2 DEF Kept, Item
  <1> HIDE DEF h
  <1>5. /\ \A k : In(readList, k) <=> \E x : Has(readList, x) /\ x.key = k
        /\ \A k : In(writeList, k) <=> \E x : Has(writeList, x) /\ x.key = k
        /\ \A x : Has(writeList, x) => Find(writeList, x.key) = x
        /\ \A x : Has(readList, x) => x \in Item
    BY <1>1, InFacts DEF Lists
  <1>6. /\ \A k : In(readList', k) <=> \E x : Has(readList', x) /\ x.key = k
        /\ \A k : In(writeList', k) <=> \E x : Has(writeList', x) /\ x.key = k
    BY <1>2, InFacts
  <1>7. In(writeList, h.key) /\ Find(writeList, h.key) = h /\ ~In(writeList', h.key)
    BY <1>2, <1>5, <1>6
  <1>8. /\ \A k : In(readList', k) <=> In(readList, k) \/ k = h.key
        /\ \A k : In(writeList', k) <=> In(writeList, k) /\ k # h.key
    BY <1>2, <1>5, <1>6
  <1>9. Typed'
    BY <1>1, <1>2, <1>3, <1>4 DEF Typed, Setting
  <1>10. Apart'
    BY <1>1, <1>2, <1>3, <1>7, <1>8 DEF Apart, OneCopy, Lists
  <1>11. Coming'
    BY <1>1, <1>3 DEF Coming
  <1>12. ASSUME ~Overlaps
         PROVE  Agrees' /\ \A k \in Keys : Seen(k)' = Seen(k)
    <2>1. Mirrors(readList, flash)
      BY <1>12 DEF IInv, Agrees
    <2>2. /\ flash'[h.key] = h.val
          /\ \A k \in Keys : k # h.key => flash'[k] = flash[k]
      BY <1>1, <1>3, <1>4 DEF Typed
    <2>3. Mirrors(readList', flash')
      <3> SUFFICES ASSUME NEW x \in Item, Has(readList', x) PROVE x.val = flash'[x.key]
        BY DEF Mirrors
      <3>1. CASE x = h
        BY <2>2, <3>1
      <3>2. CASE Has(readList, x)
        <4>1. In(readList, x.key) /\ x.key \in Keys
          BY <1>5, <3>2 DEF Item
        <4>2. x.key # h.key
          BY <1>1, <1>4, <1>7, <4>1 DEF Lists
        <4> QED BY <2>1, <2>2, <3>2, <4>1, <4>2 DEF Mirrors
      <3> QED BY <1>2, <3>1, <3>2
    <2>4. ASSUME NEW k \in Keys
          PROVE  /\ SeenIn(flash, readList, writeList, k) =
                      IF In(writeList, k) THEN Find(writeList, k).val ELSE flash[k]
                 /\ SeenIn(flash', readList', writeList', k) =
                      IF In(writeList', k) THEN Find(writeList', k).val ELSE flash'[k]
      BY <1>1, <1>2, <2>1, <2>3, SeenMirrored DEF Lists
    <2>5. ASSUME NEW k \in Keys, k # h.key
          PROVE  In(writeList, k) => Find(writeList', k) = Find(writeList, k)
      <3>1. \A x : x.key = k => (Has(writeList', x) <=> Has(writeList, x))
        BY <1>2, <2>5
      <3> QED BY <1>1, <1>2, <3>1, FindSame DEF Lists
    <2>6. \A k \in Keys : SeenIn(flash', readList', writeList', k) =
                          SeenIn(flash, readList, writeList, k)
      BY <1>7, <1>8, <2>2, <2>4, <2>5
    <2>7. call.pc \in {"getEvict", "getAdd"} =>
            call.key # h.key /\ call.key \in Keys /\ call.val = flash[call.key]
      BY <1>1, <1>7, <1>12, CallFacts DEF IInv, Apart, Reading, Agrees
    <2>8. call.pc = "getDone" =>
            call.key \in Keys /\ call.val = SeenIn(flash, readList, writeList, call.key)
      BY <1>1, <1>12, CallFacts DEF IInv, Agrees, Seen
    <2> QED BY <1>3, <2>2, <2>3, <2>6, <2>7, <2>8 DEF Agrees, Seen
  <1>13. ASSUME ~Overlaps, ~SetsBack
         PROVE  Holds'
    <2>1. call.pc = "setFind" => call.key \in Keys /\
            ~(In(writeList, call.key) /\ call.val = flash[call.key])
      BY <1>1, <1>13, CallFacts DEF IInv, Holds
    <2>2. call.pc = "setFind" => ~(In(writeList', call.key) /\ call.val = flash'[call.key])
      BY <1>1, <1>3, <1>4, <1>8, <2>1 DEF Typed
    <2>3. call.pc \in {"setFlush", "setDone"} => call.key \in Keys /\ Seen(call.key) = call.val
      BY <1>1, <1>13, CallFacts DEF IInv, Holds
    <2>4. \A k \in Keys : SeenIn(flash', readList', writeList', k) =
                          SeenIn(flash, readList, writeList, k)
      BY <1>12, <1>13 DEF Seen
    <2> QED BY <1>3, <2>2, <2>3, <2>4 DEF Holds, Seen
  <1> QED BY <1>9, <1>10, <1>11, <1>12, <1>13 DEF IInv

-----------------------------------------------------------------------------
(* The invariant, and the properties it gives.                              *)

LEMMA InitHolds ==
  Init => IInv
  <1> SUFFICES ASSUME Init PROVE IInv
    OBVIOUS
  <1>1. /\ flash \in [Keys -> Values] /\ hidden = {} /\ readList = <<>> /\ writeList = <<>>
        /\ length = 0 /\ flag = FALSE /\ event = FALSE /\ flushing = FALSE /\ call = Idle
        /\ call.pc = "idle"
    BY DEF Init, Idle
  <1>2. /\ <<>> \in Seq(Item) /\ <<>> \in Seq(Kept) /\ Len(<<>>) = 0 /\ DOMAIN <<>> = {}
    OBVIOUS
  <1>3. \A k : ~In(<<>>, k) /\ ~Has(<<>>, k)
    BY <1>2 DEF In, Has
  <1>4. Typed
    <2>1. 0 \in 0 .. Width - 1
      BY Width0
    <2>2. ~Setting
      BY <1>1 DEF Setting
    <2> QED BY <1>1, <1>2, <2>1, <2>2 DEF Typed
  <1>5. Apart /\ Coming
    BY <1>1, <1>2, <1>3 DEF Apart, OneCopy, Once, Coming, Reading
  <1>6. Agrees /\ Holds
    BY <1>1, <1>3 DEF Agrees, Holds, Mirrors
  <1> QED BY <1>4, <1>5, <1>6 DEF IInv

LEMMA StutterHolds ==
  ASSUME IInv, UNCHANGED vars
  PROVE  IInv' /\ Quiet
  BY DEF IInv, vars, Quiet, Typed, Setting, Apart, OneCopy, Coming, Agrees, Holds, Seen

\* The invariant holds after every step, and no step but the write of a caller
\* changes what is read, if no key is moved under a reader.
LEMMA StepHolds ==
  ASSUME IInv, [Next]_vars
  PROVE  /\ IInv'
         /\ ~Overlaps /\ ~SetCache => \A k \in Keys : Seen(k)' = Seen(k)
  <1>1. CASE UNCHANGED vars
    BY <1>1, StutterHolds DEF Quiet, Seen
  <1>2. CASE SetFind \/ SetFlush \/ GetRead \/ Return
    BY <1>2, SetFindStep, SetFlushStep, GetReadStep, ReturnStep DEF Quiet, Seen
  <1>3. CASE SetCache
    BY <1>3, SetCacheStep
  <1>4. CASE GetCache \/ GetEvict \/ GetAdd \/ FlushWrite
    BY <1>4, GetCacheStep, GetEvictStep, GetAddStep, FlushWriteStep
  <1>5. CASE FlushStart \/ FlushEnd \/ FlushHide \/ FlushMoved \/ \E k \in Keys : FlushMove(k)
    BY <1>5, FlushQuietStep, FlushMovedStep DEF Quiet, Seen
  <1>6. CASE \E k \in Keys : GetKey(k) \/ \E v \in Values : SetKey(k, v)
    BY <1>6, GetKeyStep, SetKeyStep DEF Quiet, Seen
  <1> QED BY <1>1, <1>2, <1>3, <1>4, <1>5, <1>6 DEF Next, Calls, Flush

\* IInv is inductive: whatever the sizes, the values and the interleaving of the
\* interface with the flush (key_value.c:1030-1135, key_value_cache.c:84-268).
THEOREM IInvInvariant == Spec => []IInv
  <1>1. Init => IInv
    BY InitHolds
  <1>2. IInv /\ [Next]_vars => IInv'
    BY StepHolds
  <1> QED BY <1>1, <1>2, PTL DEF Spec

\* The types of the cache's state, of its lists and of the size it counts.
THEOREM TypeCorrect == Spec => []TypeOK
  <1>1. IInv => TypeOK
    <2> SUFFICES ASSUME IInv PROVE TypeOK
      OBVIOUS
    <2>1. Kept \subseteq Item
      BY DEF Kept, Item
    <2>2. writeList \in Seq(Item)
      <3>1. writeList \in Seq(Kept) /\ DOMAIN writeList = 1 .. Len(writeList)
            /\ Len(writeList) \in Nat /\ \A i \in 1 .. Len(writeList) : writeList[i] \in Kept
        BY ListFacts DEF IInv, Typed
      <3>2. writeList = [i \in 1 .. Len(writeList) |-> writeList[i]]
        BY <3>1
      <3> QED BY <2>1, <3>1, <3>2
    <2> QED BY <2>2 DEF IInv, Typed, TypeOK, Calling
  <1> QED BY <1>1, IInvInvariant, PTL

\* No key is ever in both lists or twice in one, even when keys are moved under
\* their readers (key_value_cache.c:84-268).
THEOREM KeysApart == Spec => []OneCopy
  <1>1. IInv => OneCopy
    BY DEF IInv, Apart
  <1> QED BY <1>1, IInvInvariant, PTL

\* A value that waits to be written always has a flush coming, though setting a
\* value in place asks for none (key_value_cache.c:204-228).
THEOREM FlushComes == Spec => []FlushIsComing
  <1>1. IInv => FlushIsComing
    BY DEF IInv, Coming, FlushIsComing
  <1> QED BY <1>1, IInvInvariant, PTL

LEMMA ViewFacts ==
  ASSUME NEW f, NEW r, NEW w, NEW k
  PROVE  (CASE In(w, k) -> Find(w, k).val
            [] ~In(w, k) /\ In(r, k) -> Find(r, k).val
            [] OTHER -> f[k]) = SeenIn(f, r, w, k)
  BY DEF SeenIn

\* While no key is moved under a reader: one copy of each key, every value that
\* waits has a flush coming, and the value key_value_get_key returns is the one
\* set last (key_value.c:1105-1135).
THEOREM CacheIsSound == ~Overlaps => (Spec => []CacheSound)
  <1> SUFFICES ASSUME ~Overlaps PROVE Spec => []CacheSound
    OBVIOUS
  <1>1. IInv => CacheSound
    <2> SUFFICES ASSUME IInv PROVE CacheSound
      OBVIOUS
    <2>1. View = [k \in Keys |-> Seen(k)]
      BY ViewFacts DEF View, Seen
    <2>2. call.pc = "getDone" => call.key \in Keys /\ call.val = Seen(call.key)
      BY CallFacts DEF IInv, Agrees
    <2>3. GetIsCurrent
      BY <2>1, <2>2 DEF GetIsCurrent
    <2> QED BY <2>3 DEF CacheSound, IInv, Apart, Coming, FlushIsComing
  <1> QED BY <1>1, IInvInvariant, PTL

-----------------------------------------------------------------------------
(* The cache and flash are together the map of KeyStore.                    *)

Pending ==
  IF Setting THEN [key |-> call.key, val |-> call.val, refused |-> FALSE]
  ELSE [key |-> None, val |-> None, refused |-> FALSE]

\* The steps that begin, make and end a write, and all the others.
LEMMA PendingFacts ==
  ASSUME IInv, IInv', [Next]_vars
  PROVE  \/ ~SetCache /\ Pending' = Pending
         \/ SetCache /\ Pending' = Pending /\ Setting
         \/ /\ \E k \in Keys, v \in Values : SetKey(k, v) /\ ~Setting
                  /\ Pending' = [key |-> k, val |-> v, refused |-> FALSE]
            /\ ~SetCache
         \/ Return /\ Setting /\ call.pc = "setDone" /\ ~Setting' /\ ~SetCache
  <1>1. CASE UNCHANGED vars
    <2>1. Pending' = Pending
      BY <1>1 DEF vars, Pending, Setting
    <2>2. ~SetCache
      <3> SUFFICES ASSUME SetCache PROVE FALSE
        OBVIOUS
      <3>1. call.pc = "setCache" /\ call'.pc \in {"setFlush", "setDone"}
        BY CallFacts DEF SetCache, Goto, IInv, Calling
      <3> QED BY <1>1, <3>1 DEF vars
    <2> QED BY <2>1, <2>2
  <1>2. ASSUME call.pc \in {"setFind", "setFlush"}, NEW p \in {"setCache", "setFlush", "setDone"},
               Goto(p)
        PROVE  Pending' = Pending
    <2>1. call \in Calling /\ p \in Pcs
      BY <1>2, CallFacts DEF IInv, Pcs
    <2> QED BY <1>2, <2>1, GotoFacts DEF Pending, Setting
  <1>3. CASE SetFind
    <2>1. call.pc = "setFind" /\ \E p \in {"setCache", "setDone"} : Goto(p)
      BY <1>3 DEF SetFind
    <2> QED BY <1>2, <2>1 DEF SetCache
  <1>4. CASE SetFlush
    <2>1. call.pc = "setFlush" /\ Goto("setDone")
      BY <1>4 DEF SetFlush
    <2> QED BY <1>2, <2>1 DEF SetCache
  <1>5. CASE SetCache
    <2>1. /\ call.pc = "setCache" /\ call'.pc \in {"setFlush", "setDone"}
          /\ call'.key = call.key /\ call'.val = call.val
      BY <1>5, SetCacheLists DEF SetCache, IInv, Typed, Calling, Idle
    <2> QED BY <1>5, <2>1 DEF Pending, Setting
  <1>6. CASE GetCache \/ GetRead \/ GetEvict \/ GetAdd
    <2>1. call.pc \in {"getCache", "getRead", "getEvict", "getAdd"} /\ call \in Calling
      BY <1>6, CallFacts DEF GetCache, GetRead, GetEvict, GetAdd, IInv
    <2>2. call'.pc \in {"getRead", "getEvict", "getAdd", "getDone"}
      BY <1>6, <2>1 DEF GetCache, GetRead, GetEvict, GetAdd, Goto, Result, Calling
    <2> QED BY <2>1, <2>2 DEF Pending, Setting, SetCache
  <1>7. CASE Return
    BY <1>7 DEF Return, Pending, Setting, Idle, SetCache
  <1>8. CASE Flush \/ \E k \in Keys : FlushMove(k)
    <2>1. call'.pc = call.pc /\ (Setting => call' = call)
      <3>1. CASE FlushMoved
        BY <3>1, CallFacts DEF FlushMoved, Setting, IInv, Calling
      <3> QED BY <1>8, <3>1
            DEF Flush, FlushStart, FlushHide, FlushWrite, FlushEnd, FlushMove
    <2>2. Pending' = Pending
      BY <2>1 DEF Pending, Setting
    <2>3. ~SetCache
      <3> SUFFICES ASSUME SetCache PROVE FALSE
        OBVIOUS
      <3>1. call.pc = "setCache" /\ call'.pc \in {"setFlush", "setDone"}
        BY CallFacts DEF SetCache, Goto, IInv, Calling
      <3> QED BY <2>1, <3>1
    <2> QED BY <2>2, <2>3
  <1>9. CASE \E k \in Keys : GetKey(k)
    <2>1. call.pc = "idle" /\ call'.pc = "getCache"
      BY <1>9 DEF GetKey, Idle
    <2> QED BY <2>1 DEF Pending, Setting, SetCache
  <1>10. CASE \E k \in Keys, v \in Values : SetKey(k, v)
    <2>1. PICK k \in Keys, v \in Values : SetKey(k, v)
      BY <1>10
    <2>2. call.pc = "idle" /\ call' = [pc |-> "setFind", key |-> k, val |-> v]
      BY <2>1 DEF SetKey, Idle
    <2>3. Pending' = [key |-> k, val |-> v, refused |-> FALSE] /\ ~Setting /\ ~SetCache
      BY <2>2 DEF Pending, Setting, SetCache
    <2> QED BY <2>1, <2>3
  <1> QED BY <1>1, <1>3, <1>4, <1>5, <1>6, <1>7, <1>8, <1>9, <1>10 DEF Next, Calls

\* Every step of the cache and of the flush is a step of the map or leaves it
\* alone: it begins a write, makes it, or ends one whose value is read by then.
LEMMA MapStep ==
  ASSUME IInv, IInv', [Next]_vars, ~Overlaps, ~SetsBack
  PROVE  [Map!Next]_<<View, Pending>>
  <1>1. View = [k \in Keys |-> Seen(k)]
    BY ViewFacts DEF View, Seen
  <1>2. View' = [k \in Keys |-> SeenIn(flash', readList', writeList', k)]
    BY ViewFacts DEF View
  <1>3. ~SetCache => View' = View
    <2>1. ~SetCache => \A k \in Keys : SeenIn(flash', readList', writeList', k) = Seen(k)
      BY StepHolds DEF Seen
    <2> QED BY <1>1, <1>2, <2>1
  <1>4. Setting => /\ call.key \in Keys /\ Pending.key = call.key /\ Pending.val = call.val
                   /\ Pending.refused = FALSE /\ Pending # Map!Idle
    <2>1. Setting => call.key \in Keys /\ None \notin Keys
      BY CallFacts, KvDataAssumption DEF Setting, IInv
    <2> QED BY <2>1 DEF Pending, Map!Idle
  <1>5. CASE ~SetCache /\ Pending' = Pending
    BY <1>3, <1>5
  <1>6. CASE SetCache /\ Pending' = Pending /\ Setting
    <2>1. \A k \in Keys : SeenIn(flash', readList', writeList', k) =
                          IF k = call.key THEN call.val ELSE Seen(k)
      BY <1>6, SetCacheStep DEF Seen
    <2>2. View' = [View EXCEPT ![Pending.key] = Pending.val]
      BY <1>1, <1>2, <1>4, <1>6, <2>1
    <2> QED BY <1>4, <1>6, <2>2 DEF Map!Next, Map!TakeEffect, Pending
  <1>7. CASE /\ \E k \in Keys, v \in Values : SetKey(k, v) /\ ~Setting
                  /\ Pending' = [key |-> k, val |-> v, refused |-> FALSE]
             /\ ~SetCache
    <2>1. Pending = Map!Idle
      BY <1>7 DEF Pending, Map!Idle
    <2>2. Pending' \in Map!Writes
      BY <1>7 DEF Map!Writes, Values
    <2> QED BY <1>3, <1>7, <2>1, <2>2 DEF Map!Next, Map!Begin, Pending
  <1>8. CASE Return /\ Setting /\ call.pc = "setDone" /\ ~Setting' /\ ~SetCache
    <2>1. Pending' = Map!Idle
      BY <1>8 DEF Pending, Map!Idle
    <2>2. View[Pending.key] = Pending.val
      BY <1>1, <1>4, <1>8 DEF IInv, Holds
    <2> QED BY <1>3, <1>4, <1>8, <2>1, <2>2 DEF Map!Next, Map!End, Pending
  <1> QED BY <1>5, <1>6, <1>7, <1>8, PendingFacts

\* While no key is moved under a reader and no key is set back to what flash has
\* while another value waits, key_value_set_key and key_value_get_key are those of
\* a map, whatever is cached, evicted and flushed meanwhile (key_value.c:1030-1135).
THEOREM CacheIsMap == ~Overlaps /\ ~SetsBack => (Spec => IsMap)
  <1> SUFFICES ASSUME ~Overlaps, ~SetsBack PROVE Spec => IsMap
    OBVIOUS
  <1>1. Init => Map!Init
    <2> SUFFICES ASSUME Init PROVE Map!Init
      OBVIOUS
    <2>1. flash \in [Keys -> Values] /\ readList = <<>> /\ writeList = <<>> /\ ~Setting
      BY DEF Init, Idle, Setting
    <2>2. \A k : ~In(<<>>, k)
      BY DEF In
    <2>3. View = flash
      BY <2>1, <2>2 DEF View
    <2> QED BY <2>1, <2>3 DEF Map!Init, Map!Idle, Values
  <1>2. IInv /\ IInv' /\ [Next]_vars => [Map!Next]_<<View, Pending>>
    BY MapStep
  <1> QED BY <1>1, <1>2, IInvInvariant, PTL DEF Spec, IsMap, Map!Powered, Pending

-----------------------------------------------------------------------------
(* Flash: what its pages may hold.                                          *)

Sized == NPages \in Nat \ {0, 1} /\ PageCap \in Nat \ {0}

KeySts == {"torn", "writing", "valid", "deleting", "invalid"}
PageSts == {"erased", "empty", "using", "defragging"}
Datas == Vals \cup {None, Garbled}
Flashes == [Pages -> PageType]
Named == {"writing", "valid", "deleting"}

\* The entry at place i of page p is there.
There(f, p, i) == p \in Pages /\ i \in 1 .. Len(f[p].kv)

\* g is f but for page p, or but for the entry at place i of page p.
OnlyPage(f, g, p) == \A q \in Pages : q # p => g[q] = f[q]
OnlyEntry(f, g, p, i) ==
  /\ OnlyPage(f, g, p)
  /\ g[p].st = f[p].st /\ Len(g[p].kv) = Len(f[p].kv)
  /\ \A j \in 1 .. Len(f[p].kv) : j # i => g[p].kv[j] = f[p].kv[j]

LEMMA EntryFacts ==
  ASSUME NEW e \in Entries
  PROVE  /\ e.st \in KeySts
         /\ e.st \in Named => /\ e.key \in Keys /\ e.val \in Datas
                              /\ e = [st |-> e.st, key |-> e.key, val |-> e.val]
BY DEF Entries, Torn, Invalid, KeySts, Named, Datas

LEMMA EntryMade ==
  /\ \A s \in Named, k \in Keys, v \in Datas : [st |-> s, key |-> k, val |-> v] \in Entries
  /\ Torn \in Entries /\ Invalid \in Entries
  /\ Torn.st = "torn" /\ Invalid.st = "invalid"
BY DEF Entries, Torn, Invalid, Named, Datas

LEMMA PageStsFact == Range(PageStates) = PageSts
<1>1. DOMAIN PageStates = 1 .. 4 BY DEF PageStates
<1>2. /\ PageStates[1] = "erased" /\ PageStates[2] = "empty"
      /\ PageStates[3] = "using" /\ PageStates[4] = "defragging"
  BY DEF PageStates
<1>3. \A x : x \in 1 .. 4 <=> x = 1 \/ x = 2 \/ x = 3 \/ x = 4 OBVIOUS
<1> QED BY <1>1, <1>2, <1>3 DEF Range, PageSts

LEMMA PageMade ==
  ASSUME Sized, NEW s \in PageSts, NEW l \in Seq(Entries), Len(l) <= PageCap
  PROVE  [st |-> s, kv |-> l] \in PageType
<1>1. l \in [1 .. Len(l) -> Entries] /\ Len(l) \in 0 .. PageCap BY DEF Sized
<1>2. l \in UNION {[1 .. m -> Entries] : m \in 0 .. PageCap} BY <1>1
<1> QED BY <1>2, PageStsFact DEF PageType, BoundedSeq, SeqOf

LEMMA PageFacts ==
  ASSUME Sized, NEW g \in PageType
  PROVE  /\ g.st \in PageSts
         /\ g.kv \in Seq(Entries) /\ Len(g.kv) \in 0 .. PageCap
         /\ \A i \in 1 .. Len(g.kv) : g.kv[i] \in Entries
         /\ g = [st |-> g.st, kv |-> g.kv]
<1>1. g \in [st : PageSts, kv : SeqOf(Entries, PageCap)]
  BY PageStsFact DEF PageType, BoundedSeq
<1>2. PICK m \in 0 .. PageCap : g.kv \in [1 .. m -> Entries] BY <1>1 DEF SeqOf
<1>3. g.kv \in Seq(Entries) /\ Len(g.kv) = m BY <1>2 DEF Sized
<1> QED BY <1>1, <1>2, <1>3

LEMMA FlashFacts ==
  ASSUME Sized, NEW f \in Flashes, NEW p \in Pages
  PROVE  /\ f[p] \in PageType
         /\ f[p].st \in PageSts
         /\ f[p].kv \in Seq(Entries)
         /\ Len(f[p].kv) \in Nat /\ PageCap \in Nat \ {0} /\ Len(f[p].kv) <= PageCap
         /\ f[p] = [st |-> f[p].st, kv |-> f[p].kv]
         /\ \A i \in 1 .. Len(f[p].kv) : There(f, p, i) /\ f[p].kv[i] \in Entries
<1>1. f[p] \in PageType BY DEF Flashes
<1>2. /\ f[p].kv \in Seq(Entries) /\ f[p].st \in PageSts /\ Len(f[p].kv) \in 0 .. PageCap
      /\ f[p] = [st |-> f[p].st, kv |-> f[p].kv]
      /\ \A i \in 1 .. Len(f[p].kv) : f[p].kv[i] \in Entries
  BY <1>1, PageFacts
<1>3. PageCap \in Nat \ {0} BY DEF Sized
<1> QED BY <1>1, <1>2, <1>3 DEF There

-----------------------------------------------------------------------------
(* What each flash write does. *)

LEMMA ProgramPage ==
  ASSUME Sized, NEW f \in Flashes, NEW p \in Pages, NEW s \in PageSts
  PROVE  LET g == Program(f, SetPage(p, s))
         IN  g \in Flashes /\ OnlyPage(f, g, p) /\ g[p].st = s /\ g[p].kv = f[p].kv
<1> DEFINE g == Program(f, SetPage(p, s))
<1>1. g = [f EXCEPT ![p].st = s] BY DEF Program, SetPage
<1>a. f[p].kv \in Seq(Entries) /\ Len(f[p].kv) <= PageCap BY FlashFacts
<1>2. [st |-> s, kv |-> f[p].kv] \in PageType BY <1>a, PageMade
<1>3. g[p] = [st |-> s, kv |-> f[p].kv] BY <1>1, FlashFacts DEF Flashes
<1>4. g \in Flashes /\ OnlyPage(f, g, p) BY <1>1, <1>2, <1>3 DEF Flashes, OnlyPage
<1> QED BY <1>3, <1>4

LEMMA ProgramHeader ==
  ASSUME Sized, NEW f \in Flashes, NEW a, NEW k \in Keys,
         a.p \in Pages, a.i = Len(f[a.p].kv) + 1, a.i <= PageCap
  PROVE  LET g == Program(f, Header(a, k))
         IN  /\ g \in Flashes /\ OnlyPage(f, g, a.p) /\ g[a.p].st = f[a.p].st
             /\ Len(g[a.p].kv) = a.i
             /\ g[a.p].kv[a.i] = [st |-> "writing", key |-> k, val |-> None]
             /\ \A j \in 1 .. Len(f[a.p].kv) : g[a.p].kv[j] = f[a.p].kv[j]
<1> DEFINE g == Program(f, Header(a, k))
<1> DEFINE e == [st |-> "writing", key |-> k, val |-> None]
           l == f[a.p].kv
<1>1. l \in Seq(Entries) /\ Len(l) \in Nat
  <2>1. \A p \in Pages : f[p].kv \in Seq(Entries) BY FlashFacts
  <2> QED BY <2>1
<1>2. g = [f EXCEPT ![a.p].kv = Append(l, e)] BY <1>1 DEF Program, Header, Flashes
<1>3. e \in Entries BY EntryMade DEF Named, Datas
<1>4. Append(l, e) \in Seq(Entries) /\ Len(Append(l, e)) = a.i BY <1>1, <1>3
<1>5. [st |-> f[a.p].st, kv |-> Append(l, e)] \in PageType BY <1>4, FlashFacts, PageMade
<1>6. g[a.p] = [st |-> f[a.p].st, kv |-> Append(l, e)]
  <2>1. \A q \in Pages : f[q] = [st |-> f[q].st, kv |-> f[q].kv] BY FlashFacts
  <2> QED BY <1>2, <2>1 DEF Flashes
<1>7. g \in Flashes /\ OnlyPage(f, g, a.p) BY <1>2, <1>5, <1>6 DEF Flashes, OnlyPage
<1> QED BY <1>1, <1>3, <1>4, <1>6, <1>7

LEMMA ProgramHeaderAgain ==
  ASSUME NEW f, NEW a, NEW k, a.i <= Len(f[a.p].kv), a.i \in Nat, Len(f[a.p].kv) \in Nat
  PROVE  Program(f, Header(a, k)) = f
BY DEF Program, Header

\* A write that replaces one entry.
Put(f, p, i, e) == [f EXCEPT ![p].kv[i] = e]

LEMMA Replace ==
  ASSUME Sized, NEW f \in Flashes, NEW p \in Pages, NEW i \in 1 .. Len(f[p].kv),
         NEW e \in Entries, NEW g, g = Put(f, p, i, e)
  PROVE  g \in Flashes /\ OnlyEntry(f, g, p, i) /\ g[p].kv[i] = e
<1> DEFINE l == f[p].kv
           m == [l EXCEPT ![i] = e]
<1>1. /\ l \in Seq(Entries) /\ Len(l) \in Nat /\ Len(l) <= PageCap
      /\ f[p] = [st |-> f[p].st, kv |-> l] /\ f[p].st \in PageSts
  BY FlashFacts
<1>2. m \in Seq(Entries) /\ Len(m) = Len(l) BY <1>1
<1>3. g = [f EXCEPT ![p] = [st |-> f[p].st, kv |-> m]]
  <2>a. \A r, x : r = [st |-> r.st, kv |-> r.kv] => [r EXCEPT !.kv = x] = [st |-> r.st, kv |-> x]
    OBVIOUS
  <2>1. [f[p] EXCEPT !.kv = m] = [st |-> f[p].st, kv |-> m] BY <1>1, <2>a
  <2> HIDE DEF m
  <2>2. g = [f EXCEPT ![p] = [f[p] EXCEPT !.kv = m]] BY DEF m, Put
  <2> QED BY <2>1, <2>2
<1>4. [st |-> f[p].st, kv |-> m] \in PageType BY <1>1, <1>2, PageMade
<1>5. g[p] = [st |-> f[p].st, kv |-> m] BY <1>3 DEF Flashes
<1>6. g \in Flashes /\ OnlyPage(f, g, p) BY <1>3, <1>4, <1>5 DEF Flashes, OnlyPage
<1> QED BY <1>1, <1>2, <1>5, <1>6 DEF OnlyEntry

LEMMA ProgramData ==
  ASSUME Sized, NEW f \in Flashes, NEW a, NEW v \in Datas,
         There(f, a.p, a.i), f[a.p].kv[a.i].st \in Named
  PROVE  LET g == Program(f, Data(a, v))
         IN  /\ g \in Flashes /\ OnlyEntry(f, g, a.p, a.i)
             /\ g[a.p].kv[a.i] = [st |-> f[a.p].kv[a.i].st, key |-> f[a.p].kv[a.i].key,
                                   val |-> IF f[a.p].kv[a.i].val \in {None, v} THEN v ELSE Garbled]
<1> DEFINE g == Program(f, Data(a, v))
<1> DEFINE e == f[a.p].kv[a.i]
           n == [st |-> e.st, key |-> e.key, val |-> IF e.val \in {None, v} THEN v ELSE Garbled]
<1>1. e \in Entries /\ a.p \in Pages /\ a.i \in 1 .. Len(f[a.p].kv) BY FlashFacts DEF There
<1>2. e = [st |-> e.st, key |-> e.key, val |-> e.val] BY <1>1, EntryFacts
<1>3. [e EXCEPT !.val = IF @ \in {None, v} THEN v ELSE Garbled] = n
  <2> HIDE DEF e
  <2> QED BY <1>2
<1>4. g = Put(f, a.p, a.i, n)
  BY <1>3 DEF Put, Program, Data
<1>5. n \in Entries BY <1>1, EntryFacts, EntryMade DEF Datas
<1>6. g \in Flashes /\ OnlyEntry(f, g, a.p, a.i) /\ g[a.p].kv[a.i] = n
  <2> HIDE DEF n
  <2> QED BY <1>1, <1>4, <1>5, Replace
<1> QED BY <1>6

LEMMA ProgramState ==
  ASSUME Sized, NEW f \in Flashes, NEW a, NEW s \in {"valid", "deleting"},
         There(f, a.p, a.i), f[a.p].kv[a.i].st \in Named
  PROVE  LET g == Program(f, SetState(a, s))
         IN  /\ g \in Flashes /\ OnlyEntry(f, g, a.p, a.i)
             /\ g[a.p].kv[a.i] = [st |-> s, key |-> f[a.p].kv[a.i].key, val |-> f[a.p].kv[a.i].val]
<1> DEFINE g == Program(f, SetState(a, s))
<1> DEFINE e == f[a.p].kv[a.i]
           n == [st |-> s, key |-> e.key, val |-> e.val]
<1>1. e \in Entries /\ a.p \in Pages /\ a.i \in 1 .. Len(f[a.p].kv) BY FlashFacts DEF There
<1>2. e = [st |-> e.st, key |-> e.key, val |-> e.val] BY <1>1, EntryFacts
<1>3. [e EXCEPT !.st = s] = n
  <2> HIDE DEF e
  <2> QED BY <1>2
<1>4. g = Put(f, a.p, a.i, n) BY <1>3 DEF Put, Program, SetState
<1>5. n \in Entries BY <1>1, EntryFacts, EntryMade DEF Named
<1>6. g \in Flashes /\ OnlyEntry(f, g, a.p, a.i) /\ g[a.p].kv[a.i] = n
  <2> HIDE DEF n
  <2> QED BY <1>1, <1>4, <1>5, Replace
<1> QED BY <1>6

LEMMA ProgramInvalid ==
  ASSUME Sized, NEW f \in Flashes, NEW a,
         There(f, a.p, a.i)
  PROVE  LET g == Program(f, SetState(a, "invalid"))
         IN  g \in Flashes /\ OnlyEntry(f, g, a.p, a.i) /\ g[a.p].kv[a.i] = Invalid
<1> DEFINE g == Program(f, SetState(a, "invalid"))
<1>1. a.p \in Pages /\ a.i \in 1 .. Len(f[a.p].kv) BY DEF There
<1>2. g = Put(f, a.p, a.i, Invalid) BY DEF Put, Program, SetState
<1> QED BY <1>1, <1>2, EntryMade, Replace

LEMMA ProgramFormat ==
  ASSUME Sized, NEW f \in Flashes, NEW p \in Pages
  PROVE  /\ LET g == Program(f, Erase(p))
            IN g \in Flashes /\ OnlyPage(f, g, p) /\ g[p] = [st |-> "erased", kv |-> <<>>]
         /\ LET g == Program(f, Blank(p))
            IN g \in Flashes /\ OnlyPage(f, g, p) /\ g[p] = [st |-> "empty", kv |-> <<>>]
<1>1. /\ [st |-> "erased", kv |-> <<>>] \in PageType
      /\ [st |-> "empty", kv |-> <<>>] \in PageType
  <2>1. <<>> \in Seq(Entries) /\ Len(<<>>) = 0 OBVIOUS
  <2>2. 0 <= PageCap BY DEF Sized
  <2>3. {"erased", "empty"} \subseteq PageSts BY DEF PageSts
  <2> QED BY <2>1, <2>2, <2>3, PageMade
<1> QED BY <1>1 DEF Program, Erase, Blank, Flashes, OnlyPage

-----------------------------------------------------------------------------
(* Flash as power lost at any time may leave it, and runs that go through no *)
(* other.                                                                   *)

ValidAt(f, p, i, k) == There(f, p, i) /\ f[p].kv[i].st = "valid" /\ f[p].kv[i].key = k
Spares == {"erased", "empty", "defragging"}

\* Pages that are not in use hold nothing, a key has one valid entry, and some
\* page is empty or is about to be.
Blanks(f) == \A p \in Pages : f[p].st \in {"erased", "empty"} => f[p].kv = <<>>
OneEach(f) ==
  \A p, q, i, j, k : ValidAt(f, p, i, k) /\ ValidAt(f, q, j, k) => p = q /\ i = j
Spare(f) == \E p \in Pages : f[p].st \in Spares
Good(f) == f \in Flashes /\ Blanks(f) /\ OneEach(f) /\ Spare(f)

OK == "KV_OK"
Rets == {OK, "KV_NO_ENOUGH_SPACE", "assert"}
FlashWrites ==
  [op : {"page"}, p : Pages, st : PageSts]
  \cup [op : {"header"}, p : Pages, i : Nat, key : Keys]
  \cup [op : {"data"}, p : Pages, i : Nat, val : Datas]
  \cup [op : {"state"}, p : Pages, i : Nat, st : KeySts]
  \cup [op : {"erase"}, p : Pages] \cup [op : {"blank"}, p : Pages]
Runs == [flash : Flashes, ws : Seq(FlashWrites), at : [p : Int, i : Int], ret : Rets]

\* The writes ws take f to g, and power may be lost after any of them.
Through(tr, f, ws, g) ==
  /\ tr[0] = f /\ tr[Len(ws)] = g
  /\ \A j \in 0 .. Len(ws) : Good(tr[j])
  /\ \A j \in 1 .. Len(ws) : tr[j] = Program(tr[j - 1], ws[j])
Leads(f, ws, g) == \E tr : Through(tr, f, ws, g)

Sound(c, f) == c \in Runs /\ Leads(f, c.ws, c.flash)

LEMMA LeadsEmpty == \A f : Good(f) => Leads(f, <<>>, f)
<1> SUFFICES ASSUME NEW f, Good(f) PROVE Leads(f, <<>>, f) OBVIOUS
<1> DEFINE tr == [j \in {0} |-> f]
<1>1. Through(tr, f, <<>>, f) BY DEF Through
<1> QED BY <1>1 DEF Leads

LEMMA LeadsFacts ==
  ASSUME NEW f, NEW g, NEW ws \in Seq(FlashWrites), Leads(f, ws, g)
  PROVE  Good(f) /\ Good(g) /\ (ws = <<>> => f = g)
<1>1. PICK tr : Through(tr, f, ws, g) BY DEF Leads
<1>2. Len(ws) \in Nat /\ (ws = <<>> => Len(ws) = 0) OBVIOUS
<1> QED BY <1>1, <1>2 DEF Through

LEMMA LeadsOn ==
  ASSUME NEW f, NEW g, NEW ws \in Seq(FlashWrites), NEW w \in FlashWrites,
         Leads(f, ws, g), Good(Program(g, w))
  PROVE  Leads(f, Append(ws, w), Program(g, w))
<1>1. PICK tr : Through(tr, f, ws, g) BY DEF Leads
<1> DEFINE n == Len(ws)
           h == Program(g, w)
           us == [j \in 0 .. n + 1 |-> IF j = n + 1 THEN h ELSE tr[j]]
<1>2. /\ n \in Nat /\ Len(Append(ws, w)) = n + 1 /\ Append(ws, w)[n + 1] = w
      /\ \A j \in 1 .. n : Append(ws, w)[j] = ws[j]
  OBVIOUS
<1> HIDE DEF h
<1>3. us[0] = f /\ us[n + 1] = h /\ us[n] = g BY <1>1, <1>2 DEF Through
<1>4. \A j \in 0 .. n + 1 : Good(us[j]) BY <1>1, <1>2 DEF Through, h
<1>5. ASSUME NEW j \in 1 .. n + 1 PROVE us[j] = Program(us[j - 1], Append(ws, w)[j])
  <2>1. CASE j = n + 1 BY <2>1, <1>2, <1>3 DEF h
  <2>2. CASE j \in 1 .. n
    <3>1. us[j] = tr[j] /\ us[j - 1] = tr[j - 1] BY <2>2, <1>2
    <3> QED BY <3>1, <2>2, <1>1, <1>2 DEF Through
  <2> QED BY <2>1, <2>2, <1>2
<1> HIDE DEF us
<1>6. Through(us, f, Append(ws, w), h) BY <1>2, <1>3, <1>4, <1>5 DEF Through
<1> QED BY <1>6 DEF Leads, h

LEMMA LeadsRest ==
  ASSUME NEW f, NEW g, NEW ws \in Seq(FlashWrites), ws # <<>>, Leads(f, ws, g)
  PROVE  /\ Good(Program(f, Head(ws)))
         /\ Leads(Program(f, Head(ws)), Tail(ws), g)
         /\ Head(ws) \in FlashWrites /\ Tail(ws) \in Seq(FlashWrites)
<1>1. PICK tr : Through(tr, f, ws, g) BY DEF Leads
<1> DEFINE n == Len(ws)
           us == [j \in 0 .. n - 1 |-> tr[j + 1]]
<1>2. /\ n \in Nat /\ n >= 1 /\ Len(Tail(ws)) = n - 1 /\ Head(ws) = ws[1]
      /\ \A j \in 1 .. n - 1 : Tail(ws)[j] = ws[j + 1]
      /\ Head(ws) \in FlashWrites /\ Tail(ws) \in Seq(FlashWrites)
  OBVIOUS
<1>3. tr[1] = Program(f, Head(ws)) /\ Good(tr[1]) BY <1>1, <1>2 DEF Through
<1>4. us[0] = tr[1] /\ us[n - 1] = g BY <1>1, <1>2 DEF Through
<1>5. \A j \in 0 .. n - 1 : Good(us[j]) BY <1>1, <1>2 DEF Through
<1>6. ASSUME NEW j \in 1 .. n - 1 PROVE us[j] = Program(us[j - 1], Tail(ws)[j])
  <2>1. us[j] = tr[j + 1] /\ us[j - 1] = tr[j] /\ j + 1 \in 1 .. n /\ (j + 1) - 1 = j BY <1>2
  <2> QED BY <2>1, <1>1, <1>2 DEF Through
<1> HIDE DEF us
<1>7. Through(us, Program(f, Head(ws)), Tail(ws), g) BY <1>2, <1>3, <1>4, <1>5, <1>6 DEF Through
<1> QED BY <1>2, <1>3, <1>7 DEF Leads

LEMMA SoundFacts ==
  ASSUME NEW c, NEW f, Sound(c, f)
  PROVE  /\ c.flash \in Flashes /\ c.ws \in Seq(FlashWrites) /\ c.ret \in Rets
         /\ Good(c.flash) /\ Good(f) /\ c \in Runs
BY LeadsFacts DEF Sound, Runs

LEMMA SoundRun ==
  ASSUME NEW f, Good(f)
  PROVE  Sound(Run(f), f) /\ Run(f).flash = f /\ Run(f).ret = OK
BY LeadsEmpty DEF Run, Sound, Runs, Good, Rets, OK

LEMMA SoundDo ==
  ASSUME NEW c, NEW f, NEW w \in FlashWrites, Sound(c, f), c.ret = OK, Good(Program(c.flash, w))
  PROVE  /\ Sound(Do(c, w), f)
         /\ Do(c, w).flash = Program(c.flash, w) /\ Do(c, w).ret = OK /\ Do(c, w).at = c.at
<1> DEFINE h == Program(c.flash, w)
<1>0. c \in Runs /\ c.ws \in Seq(FlashWrites) /\ Leads(f, c.ws, c.flash) BY DEF Sound, Runs
<1>1. Do(c, w) = [flash |-> h, ws |-> Append(c.ws, w), at |-> c.at, ret |-> c.ret]
  <2> HIDE DEF h
  <2>1. Do(c, w) = [c EXCEPT !.flash = h, !.ws = Append(@, w)] BY DEF Do, OK, h
  <2> QED BY <2>1, <1>0 DEF Runs
<1>2. Leads(f, Append(c.ws, w), h) BY <1>0, LeadsOn
<1>3. h \in Flashes BY DEF Good
<1> HIDE DEF h
<1>4. [flash |-> h, ws |-> Append(c.ws, w), at |-> c.at, ret |-> c.ret] \in Runs BY <1>0, <1>3 DEF Runs
<1> QED BY <1>1, <1>2, <1>4 DEF Sound, h

LEMMA SoundFail ==
  ASSUME NEW c, NEW f, NEW r \in Rets, Sound(c, f)
  PROVE  /\ Sound(Fail(c, r), f) /\ Fail(c, r).flash = c.flash
         /\ Fail(c, r).ret = IF c.ret = OK THEN r ELSE c.ret
<1>1. c \in Runs BY DEF Sound
<1>2. [c EXCEPT !.ret = r] = [flash |-> c.flash, ws |-> c.ws, at |-> c.at, ret |-> r] BY <1>1 DEF Runs
<1>3. CASE c.ret = OK
  <2>1. Fail(c, r) = [flash |-> c.flash, ws |-> c.ws, at |-> c.at, ret |-> r]
    BY <1>2, <1>3 DEF Fail, OK
  <2>2. Fail(c, r) \in Runs BY <1>1, <2>1 DEF Runs
  <2> QED BY <2>1, <2>2, <1>3 DEF Sound
<1>4. CASE c.ret # OK BY <1>4 DEF Fail, OK
<1> QED BY <1>3, <1>4

-----------------------------------------------------------------------------
(* The writes that leave flash good. *)

LEMMA Codes ==
  /\ Code(KeyStates, "torn") = 1 /\ Code(KeyStates, "writing") = 2
  /\ Code(KeyStates, "valid") = 3 /\ Code(KeyStates, "deleting") = 4
  /\ Code(KeyStates, "invalid") = 5
  /\ Code(PageStates, "erased") = 1 /\ Code(PageStates, "empty") = 2
  /\ Code(PageStates, "using") = 3 /\ Code(PageStates, "defragging") = 4
<1>1. DOMAIN PageStates = 1 .. 4 /\ DOMAIN KeyStates = 1 .. 5 BY DEF PageStates, KeyStates
<1>2. /\ PageStates[1] = "erased" /\ PageStates[2] = "empty"
      /\ PageStates[3] = "using" /\ PageStates[4] = "defragging"
  BY DEF PageStates
<1>3. /\ KeyStates[1] = "torn" /\ KeyStates[2] = "writing" /\ KeyStates[3] = "valid"
      /\ KeyStates[4] = "deleting" /\ KeyStates[5] = "invalid"
  BY DEF KeyStates
<1>4. /\ \A x : x \in 1 .. 4 <=> x = 1 \/ x = 2 \/ x = 3 \/ x = 4
      /\ \A x : x \in 1 .. 5 <=> x = 1 \/ x = 2 \/ x = 3 \/ x = 4 \/ x = 5
  OBVIOUS
<1> QED BY <1>1, <1>2, <1>3, <1>4 DEF Code

LEMMA ThereFacts ==
  ASSUME Sized, NEW f \in Flashes, NEW p, NEW i, There(f, p, i)
  PROVE  /\ p \in Pages /\ i \in Nat \ {0} /\ i <= Len(f[p].kv) /\ i <= PageCap
         /\ f[p].kv # <<>> /\ f[p].kv[i] \in Entries /\ f[p].kv[i].st \in KeySts
         /\ f[p].kv[i].st \in Named => f[p].kv[i].key \in Keys /\ f[p].kv[i].val \in Datas
<1>1. p \in Pages /\ i \in 1 .. Len(f[p].kv) BY DEF There
<1>2. f[p].kv \in Seq(Entries) /\ Len(f[p].kv) \in Nat /\ PageCap \in Nat /\ Len(f[p].kv) <= PageCap
  BY <1>1, FlashFacts
<1>3. f[p].kv[i] \in Entries BY <1>1, <1>2
<1>4. f[p].kv # <<>> BY <1>1, <1>2
<1> QED BY <1>1, <1>2, <1>3, <1>4, EntryFacts

LEMMA GoodEntry ==
  ASSUME Sized, NEW f, NEW g \in Flashes, NEW p, NEW i, Good(f), There(f, p, i), OnlyEntry(f, g, p, i),
         \/ g[p].kv[i].st # "valid"
         \/ \A q, j : ValidAt(f, q, j, g[p].kv[i].key) => q = p /\ j = i
  PROVE  Good(g)
<1>0. f \in Flashes /\ p \in Pages BY DEF Good, There
<1>1. \A q, j : There(g, q, j) <=> There(f, q, j) BY DEF There, OnlyEntry, OnlyPage
<1>2. \A q, j : There(f, q, j) /\ ~(q = p /\ j = i) => g[q].kv[j] = f[q].kv[j]
  BY DEF There, OnlyEntry, OnlyPage
<1>3. OneEach(g)
  <2> SUFFICES ASSUME NEW q1, NEW j1, NEW q2, NEW j2, NEW k,
                      ValidAt(g, q1, j1, k), ValidAt(g, q2, j2, k)
               PROVE q1 = q2 /\ j1 = j2
    BY DEF OneEach
  <2>1. CASE q1 = p /\ j1 = i BY <2>1, <1>1, <1>2 DEF ValidAt
  <2>2. CASE q2 = p /\ j2 = i BY <2>2, <1>1, <1>2 DEF ValidAt
  <2>3. CASE ~(q1 = p /\ j1 = i) /\ ~(q2 = p /\ j2 = i)
    <3>1. ValidAt(f, q1, j1, k) /\ ValidAt(f, q2, j2, k) BY <2>3, <1>1, <1>2 DEF ValidAt
    <3> QED BY <3>1 DEF Good, OneEach
  <2> QED BY <2>1, <2>2, <2>3
<1>4. f[p].kv # <<>> BY <1>0, ThereFacts
<1>5. Blanks(g)
  <2>1. f[p].st \notin {"erased", "empty"} BY <1>0, <1>4 DEF Good, Blanks
  <2> QED BY <2>1 DEF Good, Blanks, OnlyEntry, OnlyPage
<1>6. \A q \in Pages : g[q].st = f[q].st BY DEF OnlyEntry, OnlyPage
<1>7. Spare(g) BY <1>6 DEF Good, Spare
<1> QED BY <1>3, <1>5, <1>7 DEF Good

LEMMA GoodHeader ==
  ASSUME Sized, NEW f, NEW g \in Flashes, NEW p \in Pages, Good(f), OnlyPage(f, g, p),
         g[p].st = f[p].st, f[p].st \notin {"erased", "empty"},
         Len(g[p].kv) = Len(f[p].kv) + 1, g[p].kv[Len(f[p].kv) + 1].st # "valid",
         \A j \in 1 .. Len(f[p].kv) : g[p].kv[j] = f[p].kv[j]
  PROVE  Good(g)
<1>0. f \in Flashes /\ Len(f[p].kv) \in Nat BY FlashFacts DEF Good
<1>1. \A q, j, k : ValidAt(g, q, j, k) => ValidAt(f, q, j, k)
  <2> SUFFICES ASSUME NEW q, NEW j, NEW k, ValidAt(g, q, j, k) PROVE ValidAt(f, q, j, k) OBVIOUS
  <2>1. CASE q = p
    <3>1. j \in 1 .. Len(f[p].kv) + 1 BY <2>1 DEF ValidAt, There
    <3>2. j # Len(f[p].kv) + 1 BY <2>1 DEF ValidAt
    <3>3. j \in 1 .. Len(f[p].kv) BY <3>1, <3>2, <1>0
    <3> QED BY <2>1, <3>3 DEF ValidAt, There
  <2>2. CASE q # p BY <2>2 DEF ValidAt, There, OnlyPage
  <2> QED BY <2>1, <2>2
<1>2. OneEach(g) BY <1>1 DEF OneEach, Good
<1>3. Blanks(g) BY DEF Good, Blanks, OnlyPage
<1>4. Spare(g) BY DEF Good, Spare, OnlyPage
<1> QED BY <1>2, <1>3, <1>4 DEF Good

LEMMA GoodPage ==
  ASSUME Sized, NEW f, NEW g \in Flashes, NEW p \in Pages, Good(f), OnlyPage(f, g, p),
         g[p].kv = f[p].kv, g[p].st \in {"using", "defragging"}, Spare(g)
  PROVE  Good(g)
<1>1. \A q, j, k : ValidAt(g, q, j, k) => ValidAt(f, q, j, k) BY DEF ValidAt, There, OnlyPage
<1>2. OneEach(g) BY <1>1 DEF OneEach, Good
<1>3. Blanks(g) BY DEF Good, Blanks, OnlyPage
<1> QED BY <1>2, <1>3 DEF Good

LEMMA GoodFormat ==
  ASSUME Sized, NEW f, NEW g \in Flashes, NEW p \in Pages, NEW s \in {"erased", "empty"}, Good(f),
         OnlyPage(f, g, p), g[p] = [st |-> s, kv |-> <<>>]
  PROVE  Good(g)
<1>1. g[p].st = s /\ g[p].kv = <<>> /\ Len(g[p].kv) = 0 OBVIOUS
<1>2. \A q, j, k : ValidAt(g, q, j, k) => ValidAt(f, q, j, k)
  <2> SUFFICES ASSUME NEW q, NEW j, NEW k, ValidAt(g, q, j, k) PROVE ValidAt(f, q, j, k) OBVIOUS
  <2>1. q # p BY <1>1 DEF ValidAt, There
  <2> QED BY <2>1 DEF ValidAt, There, OnlyPage
<1>3. OneEach(g) BY <1>2 DEF OneEach, Good
<1>4. Blanks(g) BY <1>1 DEF Good, Blanks, OnlyPage
<1>5. Spare(g) BY <1>1 DEF Spare, Spares
<1> QED BY <1>3, <1>4, <1>5 DEF Good

-----------------------------------------------------------------------------
(* The functions that write a state, a page or an entry. *)

LEMMA SetInvalid ==
  ASSUME Sized, NEW c, NEW f, NEW a, Sound(c, f), c.ret = OK, There(c.flash, a.p, a.i)
  PROVE  LET d == SetKeyState(c, a, "invalid")
         IN  /\ Sound(d, f) /\ d.ret = OK /\ OnlyEntry(c.flash, d.flash, a.p, a.i)
             /\ d.flash[a.p].kv[a.i].st = "invalid"
<1> DEFINE g == c.flash
           e == g[a.p].kv[a.i]
           h == Program(g, SetState(a, "invalid"))
<1>1. g \in Flashes /\ Good(g) BY SoundFacts
<1>2. e.st \in KeySts /\ a.p \in Pages /\ a.i \in Nat BY <1>1, ThereFacts
<1>3. CASE e.st = "invalid"
  <2>1. SetKeyState(c, a, "invalid") = c BY <1>3, Codes DEF SetKeyState, Entry
  <2> QED BY <2>1, <1>3 DEF OnlyEntry, OnlyPage
<1>4. CASE e.st # "invalid"
  <2>1. ~(Code(KeyStates, e.st) >= Code(KeyStates, "invalid"))
    BY <1>2, <1>4, Codes DEF KeySts
  <2>2. SetKeyState(c, a, "invalid") = Do(c, SetState(a, "invalid"))
    BY <2>1 DEF SetKeyState, Entry, OK
  <2>3. h \in Flashes /\ OnlyEntry(g, h, a.p, a.i) /\ h[a.p].kv[a.i] = Invalid
    BY <1>1, ProgramInvalid
  <2>4. h[a.p].kv[a.i].st = "invalid" BY <2>3, EntryMade
  <2> HIDE DEF h
  <2>5. Good(h) BY <1>1, <2>3, <2>4, GoodEntry
  <2>6. SetState(a, "invalid") \in FlashWrites BY Zenon, <1>2 DEF SetState, FlashWrites, KeySts
  <2> QED BY <2>2, <2>3, <2>4, <2>5, <2>6, SoundDo DEF h
<1> QED BY <1>3, <1>4

LEMMA SetDeleting ==
  ASSUME Sized, NEW c, NEW f, NEW a, Sound(c, f), c.ret = OK, There(c.flash, a.p, a.i),
         c.flash[a.p].kv[a.i].st \in {"valid", "deleting"}
  PROVE  LET d == SetKeyState(c, a, "deleting")
         IN  /\ Sound(d, f) /\ d.ret = OK /\ OnlyEntry(c.flash, d.flash, a.p, a.i) /\ d.at = c.at
             /\ d.flash[a.p].kv[a.i].st = "deleting"
             /\ d.flash[a.p].kv[a.i].key = c.flash[a.p].kv[a.i].key
             /\ d.flash[a.p].kv[a.i].val = c.flash[a.p].kv[a.i].val
<1> DEFINE g == c.flash
           e == g[a.p].kv[a.i]
           h == Program(g, SetState(a, "deleting"))
<1>1. g \in Flashes /\ Good(g) BY SoundFacts
<1>2. e.st \in KeySts /\ a.p \in Pages /\ a.i \in Nat BY Zenon, <1>1, ThereFacts
<1>3. CASE e.st = "deleting"
  <2>1. SetKeyState(c, a, "deleting") = c BY SMTT(20), <1>3, Codes DEF SetKeyState, Entry
  <2> QED BY <2>1, <1>3 DEF OnlyEntry, OnlyPage
<1>4. CASE e.st = "valid"
  <2>1. ~(Code(KeyStates, e.st) >= Code(KeyStates, "deleting")) BY <1>4, Codes
  <2>2. SetKeyState(c, a, "deleting") = Do(c, SetState(a, "deleting"))
    BY Zenon, <2>1 DEF SetKeyState, Entry, OK
  <2>3. /\ h \in Flashes /\ OnlyEntry(g, h, a.p, a.i)
        /\ h[a.p].kv[a.i] = [st |-> "deleting", key |-> e.key, val |-> e.val]
    BY <1>1, <1>4, ProgramState DEF Named
  <2> HIDE DEF h
  <2>5. Good(h) BY SMTT(20), <1>1, <2>3, GoodEntry
  <2>6. SetState(a, "deleting") \in FlashWrites BY Zenon, <1>2 DEF SetState, FlashWrites, KeySts
  <2> DEFINE d == Do(c, SetState(a, "deleting"))
  <2>7. Sound(d, f) /\ d.ret = OK /\ d.flash = h /\ d.at = c.at BY <2>5, <2>6, SoundDo DEF h
  <2> HIDE DEF d
  <2>8. SetKeyState(c, a, "deleting") = d BY <2>2 DEF d
  <2>9. h[a.p].kv[a.i].st = "deleting" /\ h[a.p].kv[a.i].key = e.key /\ h[a.p].kv[a.i].val = e.val
    <3> DEFINE x == h[a.p].kv[a.i]
    <3>1. x = [st |-> "deleting", key |-> e.key, val |-> e.val] BY Zenon, <2>3
    <3> HIDE DEF x, e
    <3>2. x.st = "deleting" /\ x.key = e.key /\ x.val = e.val BY <3>1
    <3> QED BY Zenon, <3>2 DEF x
  <2> QED BY Zenon, <2>3, <2>7, <2>8, <2>9
<1> QED BY <1>3, <1>4

LEMMA SetValid ==
  ASSUME Sized, NEW c, NEW f, NEW a, Sound(c, f), c.ret = OK, There(c.flash, a.p, a.i),
         c.flash[a.p].kv[a.i].st = "writing",
         \A q, j : ~ValidAt(c.flash, q, j, c.flash[a.p].kv[a.i].key)
  PROVE  LET d == SetKeyState(c, a, "valid")
         IN  /\ Sound(d, f) /\ d.ret = OK /\ OnlyEntry(c.flash, d.flash, a.p, a.i)
             /\ d.flash[a.p].kv[a.i].st = "valid"
             /\ d.flash[a.p].kv[a.i].key = c.flash[a.p].kv[a.i].key
             /\ d.flash[a.p].kv[a.i].val = c.flash[a.p].kv[a.i].val
<1> DEFINE g == c.flash
           e == g[a.p].kv[a.i]
           h == Program(g, SetState(a, "valid"))
<1>1. g \in Flashes /\ Good(g) BY SoundFacts
<1>2. e.st \in KeySts /\ a.p \in Pages /\ a.i \in Nat BY <1>1, ThereFacts
<1>3. ~(Code(KeyStates, e.st) >= Code(KeyStates, "valid")) BY Codes
<1>4. SetKeyState(c, a, "valid") = Do(c, SetState(a, "valid"))
  BY Zenon, <1>3 DEF SetKeyState, Entry, OK
<1>5. /\ h \in Flashes /\ OnlyEntry(g, h, a.p, a.i)
      /\ h[a.p].kv[a.i] = [st |-> "valid", key |-> e.key, val |-> e.val]
  BY <1>1, ProgramState DEF Named
<1> HIDE DEF h
<1>6. h[a.p].kv[a.i].st = "valid" /\ h[a.p].kv[a.i].key = e.key /\ h[a.p].kv[a.i].val = e.val
  <2> DEFINE x == h[a.p].kv[a.i]
  <2>1. x = [st |-> "valid", key |-> e.key, val |-> e.val] BY Zenon, <1>5
  <2> HIDE DEF x, e
  <2>2. x.st = "valid" /\ x.key = e.key /\ x.val = e.val BY <2>1
  <2> QED BY Zenon, <2>2 DEF x
<1>7. Good(h)
  <2>1. \A q, j : ValidAt(g, q, j, h[a.p].kv[a.i].key) => q = a.p /\ j = a.i BY Zenon, <1>6
  <2> QED BY Zenon, <1>1, <1>5, <2>1, GoodEntry
<1>8. SetState(a, "valid") \in FlashWrites BY <1>2 DEF SetState, FlashWrites, KeySts
<1> DEFINE d == Do(c, SetState(a, "valid"))
<1>9. Sound(d, f) /\ d.ret = OK /\ d.flash = h BY <1>7, <1>8, SoundDo DEF h
<1> HIDE DEF d
<1>10. SetKeyState(c, a, "valid") = d BY <1>4 DEF d
<1> QED BY Zenon, <1>5, <1>6, <1>9, <1>10

LEMMA SetUsing ==
  ASSUME Sized, NEW c, NEW f, NEW p \in Pages, NEW s \in {"using", "defragging"},
         Sound(c, f), c.ret = OK,
         c.flash[p].st # "erased",
         s = "using" /\ c.flash[p].st = "empty" =>
           \E q \in Pages : q # p /\ c.flash[q].st \in Spares
  PROVE  LET d == SetPageState(c, p, s)
         IN  /\ Sound(d, f) /\ d.ret = OK /\ d.at = c.at /\ OnlyPage(c.flash, d.flash, p)
             /\ d.flash[p].kv = c.flash[p].kv
             /\ d.flash[p].st = IF c.flash[p].st = "defragging" THEN "defragging" ELSE s
<1> DEFINE g == c.flash
           h == Program(g, SetPage(p, s))
<1>1. g \in Flashes /\ Good(g) /\ g[p].st \in PageSts BY SoundFacts, FlashFacts
<1>2. CASE Code(PageStates, g[p].st) >= Code(PageStates, s)
  <2>1. SetPageState(c, p, s) = c BY <1>2 DEF SetPageState
  <2>2. g[p].st = IF g[p].st = "defragging" THEN "defragging" ELSE s BY <1>1, <1>2, Codes DEF PageSts
  <2> QED BY <2>1, <2>2 DEF OnlyPage
<1>3. CASE ~(Code(PageStates, g[p].st) >= Code(PageStates, s))
  <2>1. SetPageState(c, p, s) = Do(c, SetPage(p, s)) BY <1>3 DEF SetPageState, OK
  <2>2. g[p].st \in {"empty", "using"} /\ (g[p].st = "using" => s = "defragging")
    BY <1>1, <1>3, Codes DEF PageSts
  <2>3. h \in Flashes /\ OnlyPage(g, h, p) /\ h[p].st = s /\ h[p].kv = g[p].kv
    <3>1. s \in PageSts BY DEF PageSts
    <3> QED BY <1>1, <3>1, ProgramPage
  <2> HIDE DEF h
  <2>4. Spare(h)
    <3>1. CASE s = "defragging" BY <3>1, <2>3 DEF Spare, Spares
    <3>2. CASE s = "using" BY <3>2, <2>2, <2>3 DEF Spare, OnlyPage
    <3> QED BY <3>1, <3>2
  <2>5. Good(h) BY <1>1, <2>3, <2>4, GoodPage
  <2>6. SetPage(p, s) \in FlashWrites BY DEF SetPage, FlashWrites, PageSts
  <2> QED BY <2>1, <2>2, <2>3, <2>5, <2>6, SoundDo DEF h
<1> QED BY <1>2, <1>3

LEMMA FormatSound ==
  ASSUME Sized, NEW c, NEW f, NEW p \in Pages, Sound(c, f), c.ret = OK
  PROVE  LET d == PageFormat(c, p)
         IN  /\ Sound(d, f) /\ d.ret = OK /\ d.at = c.at /\ OnlyPage(c.flash, d.flash, p)
             /\ d.flash[p].st = "empty" /\ d.flash[p].kv = <<>>
<1> DEFINE g == c.flash
           h1 == Program(g, Erase(p))
           d1 == Do(c, Erase(p))
           h2 == Program(d1.flash, Blank(p))
<1>1. g \in Flashes /\ Good(g) BY SoundFacts
<1>2. Erase(p) \in FlashWrites /\ Blank(p) \in FlashWrites BY DEF Erase, Blank, FlashWrites
<1>3. h1 \in Flashes /\ OnlyPage(g, h1, p) /\ h1[p] = [st |-> "erased", kv |-> <<>>]
  BY <1>1, ProgramFormat
<1> HIDE DEF h1
<1>4. Good(h1) BY <1>1, <1>3, GoodFormat
<1>5. Sound(d1, f) /\ d1.flash = h1 /\ d1.ret = OK /\ d1.at = c.at BY <1>2, <1>4, SoundDo DEF h1
<1> HIDE DEF d1
<1>6. h2 \in Flashes /\ OnlyPage(h1, h2, p) /\ h2[p] = [st |-> "empty", kv |-> <<>>]
  BY <1>3, <1>5, ProgramFormat
<1> HIDE DEF h2
<1>7. Good(h2) BY <1>4, <1>6, GoodFormat
<1>8. OnlyPage(g, h2, p) BY <1>3, <1>6 DEF OnlyPage
<1>9. PageFormat(c, p) = Do(d1, Blank(p)) BY DEF PageFormat, d1
<1> DEFINE d == Do(d1, Blank(p))
<1>10. Sound(d, f) /\ d.flash = h2 /\ d.ret = OK /\ d.at = d1.at
  BY <1>2, <1>5, <1>7, SoundDo DEF h2
<1> HIDE DEF d
<1> QED BY <1>5, <1>6, <1>8, <1>9, <1>10 DEF d

-----------------------------------------------------------------------------
(* key_value_key_write and key_value_move_key. *)

NoValid(f, k) == \A p, i : ~ValidAt(f, p, i, k)

\* Where a key can be written: behind the last entry of a page, or over an
\* entry of the same key whose writing was cut short.
Fits(f, a, k) ==
  /\ a.p \in Pages /\ a.i \in Nat \ {0} /\ a.i <= PageCap
  /\ \/ a.i = Len(f[a.p].kv) + 1
     \/ There(f, a.p, a.i) /\ f[a.p].kv[a.i].st = "writing" /\ f[a.p].kv[a.i].key = k
  /\ f[a.p].st # "erased"
  /\ f[a.p].st = "empty" => \E q \in Pages : q # a.p /\ f[q].st \in Spares

\* g is f with a valid entry at a.
Written(f, g, a, k, v) ==
  /\ OnlyPage(f, g, a.p)
  /\ g[a.p].st = IF f[a.p].st = "defragging" THEN "defragging" ELSE "using"
  /\ There(g, a.p, a.i)
  /\ Len(g[a.p].kv) = IF a.i = Len(f[a.p].kv) + 1 THEN a.i ELSE Len(f[a.p].kv)
  /\ \A j \in 1 .. Len(f[a.p].kv) : j # a.i => g[a.p].kv[j] = f[a.p].kv[j]
  /\ g[a.p].kv[a.i].st = "valid" /\ g[a.p].kv[a.i].key = k
  /\ a.i = Len(f[a.p].kv) + 1 => g[a.p].kv[a.i].val = v

LEMMA KeyWriteSound ==
  ASSUME Sized, NEW c, NEW f, NEW a, NEW k \in Keys, NEW v \in Datas,
         Sound(c, f), c.ret = OK, Fits(c.flash, a, k), NoValid(c.flash, k)
  PROVE  LET d == KeyWrite(c, a, k, v)
         IN  Sound(d, f) /\ d.ret = OK /\ Written(c.flash, d.flash, a, k, v)
<1> DEFINE g == c.flash
           c1 == SetPageState(c, a.p, "using")
           c2 == Do(c1, Header(a, k))
           c3 == Do(c2, Data(a, v))
           c4 == SetKeyState(c3, a, "valid")
           n == Len(g[a.p].kv)
<1>0. KeyWrite(c, a, k, v) = c4 BY DEF KeyWrite
<1>1. g \in Flashes /\ Good(g) /\ a.p \in Pages /\ a.i \in Nat \ {0} /\ a.i <= PageCap
  BY SoundFacts DEF Fits
<1>2. n \in Nat /\ g[a.p].st \in PageSts BY <1>1, FlashFacts
<1>3. /\ Sound(c1, f) /\ c1.ret = OK /\ OnlyPage(g, c1.flash, a.p) /\ c1.flash[a.p].kv = g[a.p].kv
      /\ c1.flash[a.p].st = IF g[a.p].st = "defragging" THEN "defragging" ELSE "using"
  <2>1. g[a.p].st # "erased" BY DEF Fits
  <2>2. "using" = "using" /\ g[a.p].st = "empty" => \E q \in Pages : q # a.p /\ g[q].st \in Spares
    BY DEF Fits
  <2> QED BY <1>1, <2>1, <2>2, SetUsing
<1> HIDE DEF c1
<1>4. c1.flash \in Flashes /\ Good(c1.flash) BY Zenon, <1>3, SoundFacts
<1>5. /\ Sound(c2, f) /\ c2.ret = OK /\ OnlyPage(g, c2.flash, a.p)
      /\ c2.flash[a.p].st = c1.flash[a.p].st
      /\ There(c2.flash, a.p, a.i)
      /\ Len(c2.flash[a.p].kv) = IF a.i = n + 1 THEN a.i ELSE n
      /\ \A j \in 1 .. n : j # a.i => c2.flash[a.p].kv[j] = g[a.p].kv[j]
      /\ c2.flash[a.p].kv[a.i].st = "writing" /\ c2.flash[a.p].kv[a.i].key = k
      /\ a.i = n + 1 => c2.flash[a.p].kv[a.i].val = None
      /\ NoValid(c2.flash, k)
  <2>0. Header(a, k) \in FlashWrites BY <1>1 DEF Header, FlashWrites
  <2>1. CASE a.i = n + 1
    <3> DEFINE h == Program(c1.flash, Header(a, k))
    <3>1. /\ h \in Flashes /\ OnlyPage(c1.flash, h, a.p) /\ h[a.p].st = c1.flash[a.p].st
          /\ Len(h[a.p].kv) = a.i
          /\ h[a.p].kv[a.i] = [st |-> "writing", key |-> k, val |-> None]
          /\ \A j \in 1 .. Len(c1.flash[a.p].kv) : h[a.p].kv[j] = c1.flash[a.p].kv[j]
      <4>1. a.i = Len(c1.flash[a.p].kv) + 1 BY <1>3, <2>1
      <4> QED BY Zenon, <1>1, <1>4, <4>1, ProgramHeader
    <3> HIDE DEF h
    <3>2. h[a.p].kv[a.i].st = "writing" /\ h[a.p].kv[a.i].key = k /\ h[a.p].kv[a.i].val = None
      <4> DEFINE x == h[a.p].kv[a.i]
      <4>1. x = [st |-> "writing", key |-> k, val |-> None] BY Zenon, <3>1
      <4> HIDE DEF x
      <4>2. x.st = "writing" /\ x.key = k /\ x.val = None BY <4>1
      <4> QED BY Zenon, <4>2 DEF x
    <3>3. h[a.p].kv[n + 1].st # "valid"
      <4>1. "writing" # "valid" OBVIOUS
      <4> QED BY Zenon, <2>1, <3>2, <4>1
    <3>4. Good(h) BY Zenon, <1>1, <1>3, <1>4, <3>1, <3>3, <2>1, GoodHeader
    <3>5. c2.flash = h /\ Sound(c2, f) /\ c2.ret = OK BY <1>3, <2>0, <3>4, SoundDo DEF h
    <3>6. OnlyPage(g, h, a.p) BY <1>3, <3>1 DEF OnlyPage
    <3>7. There(h, a.p, a.i) BY <1>1, <3>1 DEF There
    <3>8. \A j \in 1 .. n : h[a.p].kv[j] = g[a.p].kv[j] BY <3>1, <1>3
    <3>9. NoValid(h, k)
      <4> SUFFICES ASSUME NEW q, NEW j, ValidAt(h, q, j, k) PROVE FALSE BY DEF NoValid
      <4>1. CASE q = a.p
        <5>1. j \in 1 .. n + 1 /\ j # n + 1 BY <4>1, <3>1, <2>1 DEF ValidAt, There
        <5>2. j \in 1 .. n BY <5>1, <1>2
        <5>3. ValidAt(g, q, j, k) BY <4>1, <5>2, <3>8 DEF ValidAt, There
        <5> QED BY <5>3 DEF NoValid
      <4>2. CASE q # a.p
        <5>1. ValidAt(g, q, j, k) BY <4>2, <3>6 DEF ValidAt, There, OnlyPage
        <5> QED BY <5>1 DEF NoValid
      <4> QED BY <4>1, <4>2
    <3> HIDE DEF c2
    <3> QED BY Zenon, <2>1, <3>1, <3>2, <3>5, <3>6, <3>7, <3>8, <3>9
  <2>2. CASE a.i # n + 1
    <3>1. There(g, a.p, a.i) /\ g[a.p].kv[a.i].st = "writing" /\ g[a.p].kv[a.i].key = k
      BY <2>2 DEF Fits
    <3>2. a.i <= n BY <3>1 DEF There
    <3>3. Program(c1.flash, Header(a, k)) = c1.flash BY <1>1, <1>2, <1>3, <3>2, ProgramHeaderAgain
    <3>4. c2.flash = c1.flash /\ Sound(c2, f) /\ c2.ret = OK BY <1>3, <1>4, <2>0, <3>3, SoundDo
    <3>5. There(c1.flash, a.p, a.i) BY <1>3, <3>1 DEF There
    <3>6. NoValid(c1.flash, k)
      <4> SUFFICES ASSUME NEW q, NEW j, ValidAt(c1.flash, q, j, k) PROVE FALSE BY DEF NoValid
      <4>1. ValidAt(g, q, j, k) BY <1>3 DEF ValidAt, There, OnlyPage
      <4> QED BY <4>1 DEF NoValid
    <3> HIDE DEF c2
    <3> QED BY <2>2, <1>3, <3>1, <3>4, <3>5, <3>6
  <2> QED BY <2>1, <2>2
<1> HIDE DEF c2
<1>6. c2.flash \in Flashes /\ Good(c2.flash) BY <1>5, SoundFacts
<1>7. /\ Sound(c3, f) /\ c3.ret = OK /\ OnlyEntry(c2.flash, c3.flash, a.p, a.i)
      /\ c3.flash[a.p].kv[a.i].st = "writing" /\ c3.flash[a.p].kv[a.i].key = k
      /\ a.i = n + 1 => c3.flash[a.p].kv[a.i].val = v
  <2> DEFINE h == Program(c2.flash, Data(a, v))
             e == c2.flash[a.p].kv[a.i]
  <2>1. Data(a, v) \in FlashWrites BY <1>1 DEF Data, FlashWrites
  <2>2. /\ h \in Flashes /\ OnlyEntry(c2.flash, h, a.p, a.i)
        /\ h[a.p].kv[a.i] = [st |-> e.st, key |-> e.key,
             val |-> IF e.val \in {None, v} THEN v ELSE Garbled]
    <3>1. e.st \in Named BY <1>5 DEF Named
    <3> QED BY <1>5, <1>6, <3>1, ProgramData
  <2> HIDE DEF h
  <2>3. /\ h[a.p].kv[a.i].st = "writing" /\ h[a.p].kv[a.i].key = k
        /\ a.i = n + 1 => h[a.p].kv[a.i].val = v
    <3>1. h[a.p].kv[a.i].st = e.st /\ h[a.p].kv[a.i].key = e.key BY <2>2
    <3>2. h[a.p].kv[a.i].val = IF e.val \in {None, v} THEN v ELSE Garbled BY SMTT(20), <2>2
    <3> QED BY <1>5, <3>1, <3>2
  <2>4. Good(h) BY Zenon, <1>5, <1>6, <2>2, <2>3, GoodEntry
  <2> QED BY Zenon, <1>5, <2>1, <2>2, <2>3, <2>4, SoundDo DEF h
<1> HIDE DEF c3
<1>8. There(c3.flash, a.p, a.i) BY <1>5, <1>7 DEF There, OnlyEntry
<1>9. \A q, j : ~ValidAt(c3.flash, q, j, k)
  <2> SUFFICES ASSUME NEW q, NEW j, ValidAt(c3.flash, q, j, k) PROVE FALSE OBVIOUS
  <2>1. ~(q = a.p /\ j = a.i) BY <1>7 DEF ValidAt
  <2>2. ValidAt(c2.flash, q, j, k) BY Zenon, <2>1, <1>7 DEF ValidAt, There, OnlyEntry, OnlyPage
  <2> QED BY <2>2, <1>5 DEF NoValid
<1>10. /\ Sound(c4, f) /\ c4.ret = OK /\ OnlyEntry(c3.flash, c4.flash, a.p, a.i)
       /\ c4.flash[a.p].kv[a.i].st = "valid" /\ c4.flash[a.p].kv[a.i].key = k
       /\ a.i = n + 1 => c4.flash[a.p].kv[a.i].val = v
  BY <1>7, <1>8, <1>9, SetValid
<1> HIDE DEF c4
<1>11. Written(g, c4.flash, a, k, v)
  <2>1. OnlyPage(g, c4.flash, a.p) BY Zenon, <1>5, <1>7, <1>10 DEF OnlyEntry, OnlyPage
  <2>2. c4.flash[a.p].st = c1.flash[a.p].st BY Zenon, <1>5, <1>7, <1>10 DEF OnlyEntry
  <2>3. Len(c4.flash[a.p].kv) = Len(c2.flash[a.p].kv) BY <1>7, <1>10 DEF OnlyEntry
  <2>4. There(c4.flash, a.p, a.i) BY <1>5, <2>3 DEF There
  <2>5. \A j \in 1 .. n : j # a.i => c4.flash[a.p].kv[j] = g[a.p].kv[j]
    <3> SUFFICES ASSUME NEW j \in 1 .. n, j # a.i PROVE c4.flash[a.p].kv[j] = g[a.p].kv[j] OBVIOUS
    <3>1. j \in 1 .. Len(c2.flash[a.p].kv) /\ Len(c3.flash[a.p].kv) = Len(c2.flash[a.p].kv)
      <4>1. Len(c3.flash[a.p].kv) = Len(c2.flash[a.p].kv) BY Zenon, <1>7 DEF OnlyEntry
      <4>2. Len(c2.flash[a.p].kv) = IF a.i = n + 1 THEN a.i ELSE n BY Zenon, <1>5
      <4>3. n \in Nat /\ j \in 1 .. n BY Zenon, <1>2
      <4> HIDE DEF n
      <4>4. \A l : l = (IF a.i = n + 1 THEN a.i ELSE n) => j \in 1 .. l BY <4>3
      <4> QED BY <4>1, <4>2, <4>4
    <3> QED BY Zenon, <3>1, <1>5, <1>7, <1>10 DEF OnlyEntry
  <2> QED BY Zenon, <1>3, <1>5, <1>10, <2>1, <2>2, <2>3, <2>4, <2>5 DEF Written
<1> QED BY <1>0, <1>10, <1>11

\* Nothing is done after an error.
LEMMA Stuck ==
  ASSUME NEW c, c.ret # OK
  PROVE  /\ \A w : Do(c, w) = c
         /\ \A a, s : SetKeyState(c, a, s) = c
         /\ \A p, s : SetPageState(c, p, s) = c
         /\ \A p : PageFormat(c, p) = c
         /\ \A a, k, v : KeyWrite(c, a, k, v) = c
         /\ \A a, b : MoveKey(c, a, b) = c
         /\ \A r : Fail(c, r) = c
<1>1. /\ \A w : Do(c, w) = c /\ \A r : Fail(c, r) = c
      /\ \A a, s : SetKeyState(c, a, s) = c
      /\ \A p, s : SetPageState(c, p, s) = c
  BY DEF Do, Fail, SetKeyState, SetPageState, OK
<1>2. \A a, k, v : KeyWrite(c, a, k, v) = c BY <1>1 DEF KeyWrite
<1>3. \A a, b : MoveKey(c, a, b) = c BY Zenon, <1>1, <1>2 DEF MoveKey
<1> QED BY <1>1, <1>2, <1>3 DEF PageFormat

\* g is f with the key at src written at dst with value v, and src invalid.
Moved(f, g, dst, src, v) ==
  /\ \A p \in Pages : p # dst.p => g[p].st = f[p].st /\ Len(g[p].kv) = Len(f[p].kv)
  /\ g[dst.p].st = IF f[dst.p].st = "defragging" THEN "defragging" ELSE "using"
  /\ Len(g[dst.p].kv) = IF dst.i = Len(f[dst.p].kv) + 1 THEN dst.i ELSE Len(f[dst.p].kv)
  /\ \A p, j : There(f, p, j) /\ ~(p = dst.p /\ j = dst.i) /\ ~(p = src.p /\ j = src.i) =>
       g[p].kv[j] = f[p].kv[j]
  /\ There(g, dst.p, dst.i) /\ g[dst.p].kv[dst.i].st = "valid"
  /\ g[dst.p].kv[dst.i].key = f[src.p].kv[src.i].key
  /\ dst.i = Len(f[dst.p].kv) + 1 => g[dst.p].kv[dst.i].val = v
  /\ There(g, src.p, src.i) /\ g[src.p].kv[src.i].st = "invalid"

\* key_value_move_key, and key_value_write_key over an old value: the old
\* entry is marked, the key is written, the old entry is made invalid.
Rewrite(c, dst, src, v) ==
  SetKeyState(KeyWrite(SetKeyState(c, src, "deleting"), dst, c.flash[src.p].kv[src.i].key, v),
                src, "invalid")

\* A log with an entry written at place i is no shorter than before.
LEMMA LengthGrows ==
  \A m, i \in Nat : \A l : l = (IF i = m + 1 THEN i ELSE m) => l >= m /\ l \in Nat
OBVIOUS

LEMMA RangeGrows == \A m, l \in Nat : l >= m => \A j \in 1 .. m : j \in 1 .. l
OBVIOUS

LEMMA RewriteSound ==
  ASSUME Sized, NEW c, NEW f, NEW dst, NEW src, NEW v \in Datas,
         Sound(c, f), c.ret = OK, There(c.flash, src.p, src.i),
         \/ c.flash[src.p].kv[src.i].st = "valid"
         \/ /\ c.flash[src.p].kv[src.i].st = "deleting"
            /\ NoValid(c.flash, c.flash[src.p].kv[src.i].key),
         Fits(c.flash, dst, c.flash[src.p].kv[src.i].key)
  PROVE  LET d == Rewrite(c, dst, src, v)
         IN  Sound(d, f) /\ d.ret = OK /\ Moved(c.flash, d.flash, dst, src, v)
<1> DEFINE g == c.flash
           e == g[src.p].kv[src.i]
           c1 == SetKeyState(c, src, "deleting")
           c2 == KeyWrite(c1, dst, e.key, v)
           c3 == SetKeyState(c2, src, "invalid")
<1>0. Rewrite(c, dst, src, v) = c3 BY Zenon DEF Rewrite
<1>1. g \in Flashes /\ Good(g) BY SoundFacts
<1>2. e.key \in Keys BY Zenon, <1>1, ThereFacts DEF Named
<1>3. /\ Sound(c1, f) /\ c1.ret = OK /\ OnlyEntry(g, c1.flash, src.p, src.i)
      /\ c1.flash[src.p].kv[src.i].st = "deleting"
  BY ZenonT(60), SetDeleting
<1> HIDE DEF c1
<1>4. ~(dst.p = src.p /\ dst.i = src.i) /\ Len(g[dst.p].kv) \in Nat
  <2>1. dst.p \in Pages /\ Len(g[dst.p].kv) \in Nat BY Zenon, <1>1, FlashFacts DEF Fits
  <2>2. src.i \in 1 .. Len(g[src.p].kv) BY DEF There
  <2> QED BY SMTT(20), <2>1, <2>2 DEF Fits
<1>5. Fits(c1.flash, dst, e.key)
  <2>1. \A p \in Pages : c1.flash[p].st = g[p].st /\ Len(c1.flash[p].kv) = Len(g[p].kv)
    BY Zenon, <1>3 DEF OnlyEntry, OnlyPage
  <2>2. There(g, dst.p, dst.i) => /\ There(c1.flash, dst.p, dst.i)
                                  /\ c1.flash[dst.p].kv[dst.i] = g[dst.p].kv[dst.i]
    BY Zenon, <1>3, <1>4 DEF There, OnlyEntry, OnlyPage
  <2> QED BY Zenon, <2>1, <2>2 DEF Fits
<1>6. NoValid(c1.flash, e.key)
  <2> SUFFICES ASSUME NEW q, NEW j, ValidAt(c1.flash, q, j, e.key) PROVE FALSE BY Zenon DEF NoValid
  <2>1. ~(q = src.p /\ j = src.i) BY <1>3 DEF ValidAt
  <2>2. ValidAt(g, q, j, e.key) BY Zenon, <2>1, <1>3 DEF ValidAt, There, OnlyEntry, OnlyPage
  <2>3. CASE e.st = "valid"
    <3>1. ValidAt(g, src.p, src.i, e.key) BY <2>3 DEF ValidAt
    <3>2. OneEach(g) BY Zenon, <1>1 DEF Good
    <3>3. q = src.p /\ j = src.i
      <4> HIDE DEF e
      <4> QED BY <2>2, <3>1, <3>2 DEF OneEach
    <3> QED BY Zenon, <2>1, <3>3
  <2>4. CASE NoValid(g, e.key) BY Zenon, <2>2, <2>4 DEF NoValid
  <2> QED BY Zenon, <2>3, <2>4
<1>7. Sound(c2, f) /\ c2.ret = OK /\ Written(c1.flash, c2.flash, dst, e.key, v)
  BY Zenon, <1>2, <1>3, <1>5, <1>6, KeyWriteSound
<1> HIDE DEF c2
<1>8. c1.flash \in Flashes /\ c2.flash \in Flashes BY Zenon, <1>3, <1>7, SoundFacts
<1>9. /\ There(c2.flash, src.p, src.i)
      /\ \A p, j : There(c1.flash, p, j) /\ ~(p = dst.p /\ j = dst.i) =>
           There(c2.flash, p, j) /\ c2.flash[p].kv[j] = c1.flash[p].kv[j]
  <2> SUFFICES ASSUME NEW p, NEW j, There(c1.flash, p, j), ~(p = dst.p /\ j = dst.i)
               PROVE There(c2.flash, p, j) /\ c2.flash[p].kv[j] = c1.flash[p].kv[j]
    <3>1. There(c1.flash, src.p, src.i) BY Zenon, <1>3 DEF There, OnlyEntry
    <3> QED BY <3>1, <1>4
  <2>1. CASE p = dst.p
    <3>1. dst.p \in Pages /\ dst.i \in Nat /\ Len(c1.flash[dst.p].kv) \in Nat
      BY Zenon, <1>5, <1>8, FlashFacts DEF Fits
    <3>2. j \in 1 .. Len(c1.flash[p].kv) /\ j # dst.i BY <2>1 DEF There
    <3>a. Len(c2.flash[p].kv) = IF dst.i = Len(c1.flash[p].kv) + 1 THEN dst.i ELSE Len(c1.flash[p].kv)
      BY Zenon, <2>1, <1>7 DEF Written
    <3>3. Len(c2.flash[p].kv) >= Len(c1.flash[p].kv) /\ Len(c2.flash[p].kv) \in Nat
      <4> DEFINE m == Len(c1.flash[p].kv)
                 l == Len(c2.flash[p].kv)
      <4>1. m \in Nat /\ dst.i \in Nat BY Zenon, <2>1, <3>1
      <4>2. l = IF dst.i = m + 1 THEN dst.i ELSE m BY Zenon, <3>a
      <4> QED BY Zenon, <4>1, <4>2, LengthGrows
    <3>4. There(c2.flash, p, j)
      <4>1. Len(c1.flash[p].kv) \in Nat BY Zenon, <2>1, <3>1
      <4>2. j \in 1 .. Len(c2.flash[p].kv) BY Zenon, <4>1, <3>2, <3>3, RangeGrows
      <4> QED BY Zenon, <2>1, <3>1, <4>2 DEF There
    <3> QED BY Zenon, <2>1, <3>2, <3>4, <1>7 DEF Written
  <2>2. CASE p # dst.p BY Zenon, <2>2, <1>7 DEF Written, OnlyPage, There
  <2> QED BY Zenon, <2>1, <2>2
<1>10. /\ Sound(c3, f) /\ c3.ret = OK /\ OnlyEntry(c2.flash, c3.flash, src.p, src.i)
       /\ c3.flash[src.p].kv[src.i].st = "invalid"
  BY Zenon, <1>7, <1>9, SetInvalid
<1> HIDE DEF c3
<1>11. Moved(g, c3.flash, dst, src, v)
  <2>1. \A p \in Pages : p # dst.p => c3.flash[p].st = g[p].st /\ Len(c3.flash[p].kv) = Len(g[p].kv)
    BY ZenonT(60), <1>3, <1>7, <1>10 DEF OnlyEntry, OnlyPage, Written
  <2>2. /\ dst.p \in Pages /\ c1.flash[dst.p].st = g[dst.p].st
        /\ Len(c1.flash[dst.p].kv) = Len(g[dst.p].kv)
        /\ c3.flash[dst.p].st = c2.flash[dst.p].st
        /\ Len(c3.flash[dst.p].kv) = Len(c2.flash[dst.p].kv)
    BY Zenon, <1>3, <1>5, <1>10 DEF OnlyEntry, OnlyPage, Fits
  <2>3. There(c3.flash, dst.p, dst.i) /\ c3.flash[dst.p].kv[dst.i] = c2.flash[dst.p].kv[dst.i]
    <3>1. There(c2.flash, dst.p, dst.i) BY Zenon, <1>7 DEF Written
    <3> QED BY Zenon, <3>1, <1>4, <1>10 DEF There, OnlyEntry, OnlyPage
  <2>4. There(c3.flash, src.p, src.i) BY Zenon, <1>9, <1>10 DEF There, OnlyEntry
  <2>5. ASSUME NEW p, NEW j, There(g, p, j), ~(p = dst.p /\ j = dst.i), ~(p = src.p /\ j = src.i)
        PROVE  c3.flash[p].kv[j] = g[p].kv[j]
    <3>1. There(c1.flash, p, j) /\ c1.flash[p].kv[j] = g[p].kv[j]
      BY Zenon, <2>5, <1>3 DEF There, OnlyEntry, OnlyPage
    <3>2. There(c2.flash, p, j) /\ c2.flash[p].kv[j] = g[p].kv[j] BY <3>1, <2>5, <1>9
    <3> QED BY Zenon, <3>2, <2>5, <1>10 DEF There, OnlyEntry, OnlyPage
  <2>6. /\ c2.flash[dst.p].st = IF c1.flash[dst.p].st = "defragging" THEN "defragging" ELSE "using"
        /\ Len(c2.flash[dst.p].kv) =
             IF dst.i = Len(c1.flash[dst.p].kv) + 1 THEN dst.i ELSE Len(c1.flash[dst.p].kv)
        /\ c2.flash[dst.p].kv[dst.i].st = "valid" /\ c2.flash[dst.p].kv[dst.i].key = e.key
        /\ dst.i = Len(c1.flash[dst.p].kv) + 1 => c2.flash[dst.p].kv[dst.i].val = v
    BY Zenon, <1>7 DEF Written
  <2> HIDE DEF g
  <2>7. /\ c3.flash[dst.p].st = IF g[dst.p].st = "defragging" THEN "defragging" ELSE "using"
        /\ Len(c3.flash[dst.p].kv) = IF dst.i = Len(g[dst.p].kv) + 1 THEN dst.i ELSE Len(g[dst.p].kv)
        /\ c3.flash[dst.p].kv[dst.i].st = "valid" /\ c3.flash[dst.p].kv[dst.i].key = e.key
        /\ dst.i = Len(g[dst.p].kv) + 1 => c3.flash[dst.p].kv[dst.i].val = v
    BY Zenon, <2>2, <2>3, <2>6
  <2>8. c3.flash[src.p].kv[src.i].st = "invalid" BY Zenon, <1>10
  <2>9. There(c3.flash, dst.p, dst.i) BY <2>3
  <2> QED BY ZenonT(60), <2>1, <2>4, <2>5, <2>7, <2>8, <2>9 DEF Moved
<1> QED BY Zenon, <1>0, <1>10, <1>11


LEMMA MoveIsRewrite ==
  \A c, dst, src : MoveKey(c, dst, src) = Rewrite(c, dst, src, c.flash[src.p].kv[src.i].val)
BY DEF MoveKey, Entry, Rewrite
-----------------------------------------------------------------------------
(* Folds over pages, places and sequences, by induction on how far they are. *)

LEMMA LeastOf ==
  ASSUME NEW T \in SUBSET Nat, T # {}
  PROVE  \E x \in T : \A y \in T : x <= y
<1>1. IsWellFoundedOn(OpToRel(<, Nat), Nat) BY Zenon, NatLessThanWellFounded
<1>2. PICK x \in T : \A y \in T : ~ (<<y, x>> \in OpToRel(<, Nat)) BY Zenon, <1>1, WFMin
<1>3. \A y \in T : ~(y < x) BY <1>2 DEF OpToRel
<1> QED BY <1>3

LEMMA Inductive ==
  ASSUME NEW S, 0 \in S, \A n \in Nat : n \in S => n + 1 \in S
  PROVE  \A n \in Nat : n \in S
<1> SUFFICES ASSUME Nat \ S # {} PROVE FALSE OBVIOUS
<1> DEFINE T == Nat \ S
<1>1. T \in SUBSET Nat /\ T # {} OBVIOUS
<1>2. PICK x \in T : \A y \in T : x <= y BY <1>1, LeastOf
<1>3. x # 0 BY <1>2
<1>4. x - 1 \in Nat /\ ~(x <= x - 1) /\ (x - 1) + 1 = x BY <1>2, <1>3
<1> QED BY <1>2, <1>4

Top(s) == Max(s)
LEMMA TopOf ==
  ASSUME NEW n \in Nat, NEW s \in SUBSET (1 .. n), s # {}
  PROVE  Top(s) \in s /\ \A x \in s : x <= Top(s)
<1> DEFINE U == {k \in Nat : \A x \in s : x <= k}
<1>1. n \in U OBVIOUS
<1>2. PICK m \in U : \A y \in U : m <= y BY <1>1, LeastOf
<1>3. m \in s
  <2> SUFFICES ASSUME m \notin s PROVE FALSE OBVIOUS
  <2>1. \A x \in s : x \in 1 .. n /\ x <= m /\ x # m BY <1>2
  <2>2. \A x \in s : x <= m - 1 BY <2>1, <1>2
  <2>3. m - 1 \in Nat
    <3>1. PICK x \in s : TRUE OBVIOUS
    <3>2. x \in Nat /\ x >= 1 /\ x <= m /\ m \in Nat BY <2>1, <3>1
    <3> QED BY <3>2
  <2> QED BY <1>2, <2>2, <2>3
<1>4. \E x \in s : \A y \in s : x >= y BY <1>2, <1>3
<1> QED BY <1>4 DEF Top, Max

\* What each fold does at its i-th step.
Visit(kind, x, c, i) ==
  CASE kind = "magic" -> IF c.flash[i].st = "erased" THEN PageFormat(c, i) ELSE c
    [] kind = "pagesIn" -> IF x[1][i].st = x[2] THEN Append(c, i) ELSE c
    [] kind = "defragKey" -> DefragKey(c, [p |-> x, i |-> i])
    [] kind = "defragPage" -> DefragPage(c, x[i])
    [] kind = "recoverDefragKey" -> RecoverDefragKey(c, [p |-> x, i |-> i])
    [] kind = "recoverKey" -> RecoverKey(c, [p |-> x, i |-> i])
    [] kind = "defragging" ->
         IF c.flash[i].st = "defragging"
         THEN PageFormat(OverSlots(RecoverDefragKey, c, i), i) ELSE c
    [] kind = "using" -> IF c.flash[i].st = "using" THEN OverSlots(RecoverKey, c, i) ELSE c

Iterates(kind, x, c, n, g) ==
  /\ g = [s \in SUBSET (1 .. n) |-> g[s]]
  /\ \A s \in SUBSET (1 .. n) :
       g[s] = IF s = {} THEN c ELSE Visit(kind, x, g[s \ {Top(s)}], Top(s))

LEMMA CanIterate == \A kind, x, c : \A n \in Nat : \E g : Iterates(kind, x, c, n, g)
<1> SUFFICES ASSUME NEW kind, NEW x, NEW c PROVE \A n \in Nat : \E g : Iterates(kind, x, c, n, g)
  OBVIOUS
<1> DEFINE S == {n \in Nat : \E g : Iterates(kind, x, c, n, g)}
<1>1. 0 \in S
  <2> DEFINE g == [s \in SUBSET (1 .. 0) |-> c]
  <2>1. \A s \in SUBSET (1 .. 0) : s = {} OBVIOUS
  <2>2. Iterates(kind, x, c, 0, g) BY <2>1 DEF Iterates
  <2> QED BY <2>2
<1>2. ASSUME NEW n \in Nat, n \in S PROVE n + 1 \in S
  <2>1. PICK g : Iterates(kind, x, c, n, g) BY <1>2
  <2> DEFINE h == [s \in SUBSET (1 .. n + 1) |->
                    IF n + 1 \in s THEN Visit(kind, x, g[s \ {n + 1}], n + 1) ELSE g[s]]
  <2>2. ASSUME NEW s \in SUBSET (1 .. n + 1)
        PROVE  h[s] = IF s = {} THEN c ELSE Visit(kind, x, h[s \ {Top(s)}], Top(s))
    <3>1. CASE n + 1 \in s
      <4>1. Top(s) = n + 1
        <5>1. Top(s) \in s /\ \A y \in s : y <= Top(s)
          <6>1. n + 1 \in Nat /\ s # {} BY <3>1
          <6> QED BY <6>1, TopOf
        <5>2. Top(s) \in 1 .. n + 1 /\ n + 1 <= Top(s) BY <3>1, <5>1
        <5> QED BY <5>2
      <4>2. s \ {n + 1} \in SUBSET (1 .. n + 1) /\ n + 1 \notin s \ {n + 1} OBVIOUS
      <4>3. h[s \ {n + 1}] = g[s \ {n + 1}] BY <4>2
      <4>4. h[s] = Visit(kind, x, g[s \ {n + 1}], n + 1) BY <3>1
      <4> QED BY <4>1, <4>3, <4>4, <3>1
    <3>2. CASE n + 1 \notin s
      <4>1. s \in SUBSET (1 .. n) BY <3>2
      <4>2. h[s] = IF s = {} THEN c ELSE Visit(kind, x, g[s \ {Top(s)}], Top(s))
        BY <4>1, <2>1, <3>2 DEF Iterates
      <4>3. s \ {Top(s)} \in SUBSET (1 .. n + 1) /\ n + 1 \notin s \ {Top(s)} BY <3>2
      <4>4. h[s \ {Top(s)}] = g[s \ {Top(s)}] BY <4>3
      <4> QED BY <4>2, <4>4
    <3> QED BY <3>1, <3>2
  <2>3. h = [s \in SUBSET (1 .. n + 1) |-> h[s]] OBVIOUS
  <2> HIDE DEF h
  <2>4. Iterates(kind, x, c, n + 1, h) BY <2>2, <2>3 DEF Iterates
  <2> QED BY <2>4
<1> HIDE DEF S
<1>3. \A n \in Nat : n \in S BY <1>1, <1>2, Inductive
<1> QED BY <1>3 DEF S

Ran(kind, x, c, n, run) ==
  run[0] = c /\ \A i \in 1 .. n : run[i] = Visit(kind, x, run[i - 1], i)

LEMMA IteratesRan ==
  ASSUME NEW kind, NEW x, NEW c, NEW n \in Nat, NEW g, Iterates(kind, x, c, n, g)
  PROVE  \E run : Ran(kind, x, c, n, run) /\ run[n] = g[1 .. n]
<1> DEFINE run == [i \in 0 .. n |-> g[1 .. i]]
<1>0. \A s \in SUBSET (1 .. n) :
        g[s] = IF s = {} THEN c ELSE Visit(kind, x, g[s \ {Top(s)}], Top(s))
  BY DEF Iterates
<1>1. run[0] = c
  <2>1. 1 .. 0 = {} /\ {} \in SUBSET (1 .. n) OBVIOUS
  <2>2. g[{}] = c BY <1>0, <2>1
  <2>3. run[0] = g[1 .. 0] OBVIOUS
  <2> QED BY <2>1, <2>2, <2>3
<1>2. ASSUME NEW i \in 1 .. n PROVE run[i] = Visit(kind, x, run[i - 1], i)
  <2>1. 1 .. i \in SUBSET (1 .. n) /\ i \in 1 .. i OBVIOUS
  <2>2. Top(1 .. i) = i
    <3>1. Top(1 .. i) \in 1 .. i /\ \A y \in 1 .. i : y <= Top(1 .. i) BY <2>1, TopOf
    <3>2. i <= Top(1 .. i) BY <2>1, <3>1
    <3> QED BY <3>1, <3>2
  <2>3. (1 .. i) \ {i} = 1 .. (i - 1)
    <3>1. \A j : j \in (1 .. i) \ {i} <=> j \in 1 .. (i - 1) OBVIOUS
    <3> QED BY <3>1
  <2>4. g[1 .. i] = Visit(kind, x, g[1 .. (i - 1)], i) BY <1>0, <2>1, <2>2, <2>3
  <2>5. run[i] = g[1 .. i] /\ run[i - 1] = g[1 .. (i - 1)] OBVIOUS
  <2> QED BY <2>4, <2>5
<1> HIDE DEF run
<1>3. Ran(kind, x, c, n, run) BY <1>1, <1>2 DEF Ran
<1>4. run[n] = g[1 .. n] BY DEF run
<1> QED BY <1>3, <1>4

Ended(kind, x, c, n, r) == \E run : Ran(kind, x, c, n, run) /\ run[n] = r

\* The two passes of key_value_recovery.
Defragged(c) == OverPages(LAMBDA d, p :
          IF d.flash[p].st = "defragging"
          THEN PageFormat(OverSlots(RecoverDefragKey, d, p), p) ELSE d, c)
Reused(c) == OverPages(LAMBDA d, p :
          IF d.flash[p].st = "using" THEN OverSlots(RecoverKey, d, p) ELSE d, c)

LEMMA OverRecoverKey ==
  ASSUME PageCap \in Nat \ {0}, NEW c, NEW p
  PROVE  Ended("recoverKey", p, c, PageCap, OverSlots(RecoverKey, c, p))
<1> DEFINE at == [i \in 1 .. PageCap |-> [p |-> p, i |-> i]]
           Step(d, s) == RecoverKey(d, at[Top(s)])
           G(g) == g = [s \in SUBSET (1 .. PageCap) |->
                          IF s = {} THEN c ELSE RecoverKey(g[s \ {Top(s)}], at[Top(s)])]
<1>1. OverSlots(RecoverKey, c, p) = (CHOOSE g : G(g))[1 .. PageCap]
  BY DEF OverSlots, FoldLeft, MapThenFoldSet, Top
<1>2. PageCap \in Nat OBVIOUS
<1>3. \A s \in SUBSET (1 .. PageCap) : s # {} => at[Top(s)] = [p |-> p, i |-> Top(s)]
  BY <1>2, TopOf
<1> HIDE DEF at
<1>4. \A s \in SUBSET (1 .. PageCap) : s # {} => \A d : Visit("recoverKey", p, d, Top(s)) = Step(d, s)
  BY <1>3 DEF Visit
<1>5. \A g : G(g) <=> /\ g = [s \in SUBSET (1 .. PageCap) |-> g[s]]
                      /\ \A s \in SUBSET (1 .. PageCap) :
                           g[s] = IF s = {} THEN c ELSE Step(g[s \ {Top(s)}], s)
  OBVIOUS
<1> HIDE DEF Step, G
<1>6. \A g : G(g) <=> Iterates("recoverKey", p, c, PageCap, g) BY <1>4, <1>5 DEF Iterates
<1> DEFINE w == CHOOSE g : G(g)
<1>7. G(w)
  <2>1. \E g : G(g) BY <1>2, <1>6, CanIterate
  <2> QED BY <2>1
<1> HIDE DEF w
<1>8. \E run : Ran("recoverKey", p, c, PageCap, run) /\ run[PageCap] = w[1 .. PageCap]
  BY <1>2, <1>6, <1>7, IteratesRan
<1> QED BY <1>1, <1>8 DEF Ended, w

LEMMA OverRecoverDefragKey ==
  ASSUME PageCap \in Nat \ {0}, NEW c, NEW p
  PROVE  Ended("recoverDefragKey", p, c, PageCap, OverSlots(RecoverDefragKey, c, p))
<1> DEFINE at == [i \in 1 .. PageCap |-> [p |-> p, i |-> i]]
           Step(d, s) == RecoverDefragKey(d, at[Top(s)])
           G(g) == g = [s \in SUBSET (1 .. PageCap) |->
                          IF s = {} THEN c ELSE RecoverDefragKey(g[s \ {Top(s)}], at[Top(s)])]
<1>1. OverSlots(RecoverDefragKey, c, p) = (CHOOSE g : G(g))[1 .. PageCap]
  BY DEF OverSlots, FoldLeft, MapThenFoldSet, Top
<1>2. PageCap \in Nat OBVIOUS
<1>3. \A s \in SUBSET (1 .. PageCap) : s # {} => at[Top(s)] = [p |-> p, i |-> Top(s)]
  BY <1>2, TopOf
<1> HIDE DEF at
<1>4. \A s \in SUBSET (1 .. PageCap) :
        s # {} => \A d : Visit("recoverDefragKey", p, d, Top(s)) = Step(d, s)
  BY <1>3 DEF Visit
<1>5. \A g : G(g) <=> /\ g = [s \in SUBSET (1 .. PageCap) |-> g[s]]
                      /\ \A s \in SUBSET (1 .. PageCap) :
                           g[s] = IF s = {} THEN c ELSE Step(g[s \ {Top(s)}], s)
  OBVIOUS
<1> HIDE DEF Step, G
<1>6. \A g : G(g) <=> Iterates("recoverDefragKey", p, c, PageCap, g) BY <1>4, <1>5 DEF Iterates
<1> DEFINE w == CHOOSE g : G(g)
<1>7. G(w)
  <2>1. \E g : G(g) BY <1>2, <1>6, CanIterate
  <2> QED BY <2>1
<1> HIDE DEF w
<1>8. \E run : Ran("recoverDefragKey", p, c, PageCap, run) /\ run[PageCap] = w[1 .. PageCap]
  BY <1>2, <1>6, <1>7, IteratesRan
<1> QED BY <1>1, <1>8 DEF Ended, w

LEMMA OverDefragKey ==
  ASSUME PageCap \in Nat \ {0}, NEW c, NEW p
  PROVE  Ended("defragKey", p, c, PageCap, OverSlots(DefragKey, c, p))
<1> DEFINE at == [i \in 1 .. PageCap |-> [p |-> p, i |-> i]]
           Step(d, s) == DefragKey(d, at[Top(s)])
           G(g) == g = [s \in SUBSET (1 .. PageCap) |->
                          IF s = {} THEN c ELSE DefragKey(g[s \ {Top(s)}], at[Top(s)])]
<1>1. OverSlots(DefragKey, c, p) = (CHOOSE g : G(g))[1 .. PageCap]
  BY DEF OverSlots, FoldLeft, MapThenFoldSet, Top
<1>2. PageCap \in Nat OBVIOUS
<1>3. \A s \in SUBSET (1 .. PageCap) : s # {} => at[Top(s)] = [p |-> p, i |-> Top(s)]
  BY <1>2, TopOf
<1> HIDE DEF at
<1>4. \A s \in SUBSET (1 .. PageCap) : s # {} => \A d : Visit("defragKey", p, d, Top(s)) = Step(d, s)
  BY <1>3 DEF Visit
<1>5. \A g : G(g) <=> /\ g = [s \in SUBSET (1 .. PageCap) |-> g[s]]
                      /\ \A s \in SUBSET (1 .. PageCap) :
                           g[s] = IF s = {} THEN c ELSE Step(g[s \ {Top(s)}], s)
  OBVIOUS
<1> HIDE DEF Step, G
<1>6. \A g : G(g) <=> Iterates("defragKey", p, c, PageCap, g) BY <1>4, <1>5 DEF Iterates
<1> DEFINE w == CHOOSE g : G(g)
<1>7. G(w)
  <2>1. \E g : G(g) BY <1>2, <1>6, CanIterate
  <2> QED BY <2>1
<1> HIDE DEF w
<1>8. \E run : Ran("defragKey", p, c, PageCap, run) /\ run[PageCap] = w[1 .. PageCap]
  BY <1>2, <1>6, <1>7, IteratesRan
<1> QED BY <1>1, <1>8 DEF Ended, w

LEMMA OverMagic ==
  ASSUME NPages \in Nat \ {0}, NEW c
  PROVE  Ended("magic", 0, c, NPages, MagicCheck(c))
<1> DEFINE at == [p \in 1 .. NPages |-> p]
           Step(d, s) == IF d.flash[at[Top(s)]].st = "erased" THEN PageFormat(d, at[Top(s)]) ELSE d
           G(g) == g = [s \in SUBSET (1 .. NPages) |->
                          IF s = {} THEN c
                          ELSE IF g[s \ {Top(s)}].flash[at[Top(s)]].st = "erased"
                               THEN PageFormat(g[s \ {Top(s)}], at[Top(s)])
                               ELSE g[s \ {Top(s)}]]
<1>1. MagicCheck(c) = (CHOOSE g : G(g))[1 .. NPages]
  BY DEF MagicCheck, OverPages, Pages, FoldLeft, MapThenFoldSet, Top
<1>2. NPages \in Nat OBVIOUS
<1>3. \A s \in SUBSET (1 .. NPages) : s # {} => at[Top(s)] = Top(s)
  BY <1>2, TopOf
<1> HIDE DEF at
<1>4. \A s \in SUBSET (1 .. NPages) : s # {} => \A d : Visit("magic", 0, d, Top(s)) = Step(d, s)
  BY <1>3 DEF Visit
<1>5. \A g : G(g) <=> /\ g = [s \in SUBSET (1 .. NPages) |-> g[s]]
                      /\ \A s \in SUBSET (1 .. NPages) :
                           g[s] = IF s = {} THEN c ELSE Step(g[s \ {Top(s)}], s)
  OBVIOUS
<1> HIDE DEF Step, G
<1>6. \A g : G(g) <=> Iterates("magic", 0, c, NPages, g) BY <1>4, <1>5 DEF Iterates
<1> DEFINE w == CHOOSE g : G(g)
<1>7. G(w)
  <2>1. \E g : G(g) BY <1>2, <1>6, CanIterate
  <2> QED BY <2>1
<1> HIDE DEF w
<1>8. \E run : Ran("magic", 0, c, NPages, run) /\ run[NPages] = w[1 .. NPages]
  BY <1>2, <1>6, <1>7, IteratesRan
<1> QED BY <1>1, <1>8 DEF Ended, w

LEMMA OverPagesIn ==
  ASSUME NPages \in Nat \ {0}, NEW f, NEW st
  PROVE  Ended("pagesIn", <<f, st>>, <<>>, NPages, PagesIn(f, st))
<1> DEFINE at == [p \in 1 .. NPages |-> p]
           Step(d, s) == IF f[at[Top(s)]].st = st THEN Append(d, at[Top(s)]) ELSE d
           G(g) == g = [s \in SUBSET (1 .. NPages) |->
                          IF s = {} THEN <<>>
                          ELSE IF f[at[Top(s)]].st = st
                               THEN Append(g[s \ {Top(s)}], at[Top(s)])
                               ELSE g[s \ {Top(s)}]]
<1>1. PagesIn(f, st) = (CHOOSE g : G(g))[1 .. NPages]
  BY DEF PagesIn, OverPages, Pages, FoldLeft, MapThenFoldSet, Top
<1>2. NPages \in Nat OBVIOUS
<1>3. \A s \in SUBSET (1 .. NPages) : s # {} => at[Top(s)] = Top(s)
  BY <1>2, TopOf
<1> HIDE DEF at
<1>4. \A s \in SUBSET (1 .. NPages) :
        s # {} => \A d : Visit("pagesIn", <<f, st>>, d, Top(s)) = Step(d, s)
  BY <1>3 DEF Visit
<1>5. \A g : G(g) <=> /\ g = [s \in SUBSET (1 .. NPages) |-> g[s]]
                      /\ \A s \in SUBSET (1 .. NPages) :
                           g[s] = IF s = {} THEN <<>> ELSE Step(g[s \ {Top(s)}], s)
  OBVIOUS
<1> HIDE DEF Step, G
<1>6. \A g : G(g) <=> Iterates("pagesIn", <<f, st>>, <<>>, NPages, g) BY <1>4, <1>5 DEF Iterates
<1> DEFINE w == CHOOSE g : G(g)
<1>7. G(w)
  <2>1. \E g : G(g) BY <1>2, <1>6, CanIterate
  <2> QED BY <2>1
<1> HIDE DEF w
<1>8. \E run : Ran("pagesIn", <<f, st>>, <<>>, NPages, run) /\ run[NPages] = w[1 .. NPages]
  BY <1>2, <1>6, <1>7, IteratesRan
<1> QED BY <1>1, <1>8 DEF Ended, w

LEMMA OverDefragging ==
  ASSUME NPages \in Nat \ {0}, NEW c
  PROVE  Ended("defragging", 0, c, NPages, Defragged(c))
<1> DEFINE at == [p \in 1 .. NPages |-> p]
           Step(d, s) ==
              IF d.flash[at[Top(s)]].st = "defragging"
              THEN PageFormat(OverSlots(RecoverDefragKey, d, at[Top(s)]), at[Top(s)])
              ELSE d
           G(g) == g = [s \in SUBSET (1 .. NPages) |->
                 IF s = {} THEN c
                 ELSE IF g[s \ {Top(s)}].flash[at[Top(s)]].st = "defragging"
                      THEN PageFormat(
                             OverSlots(RecoverDefragKey, g[s \ {Top(s)}], at[Top(s)]), at[Top(s)])
                      ELSE g[s \ {Top(s)}]]
<1>1. Defragged(c) = (CHOOSE g : G(g))[1 .. NPages]
  BY DEF Defragged, OverPages, Pages, FoldLeft, MapThenFoldSet, Top
<1>2. NPages \in Nat OBVIOUS
<1>3. \A s \in SUBSET (1 .. NPages) : s # {} => at[Top(s)] = Top(s)
  BY <1>2, TopOf
<1> HIDE DEF at
<1>4. \A s \in SUBSET (1 .. NPages) : s # {} => \A d : Visit("defragging", 0, d, Top(s)) = Step(d, s)
  BY <1>3 DEF Visit
<1>5. \A g : G(g) <=> /\ g = [s \in SUBSET (1 .. NPages) |-> g[s]]
                      /\ \A s \in SUBSET (1 .. NPages) :
                           g[s] = IF s = {} THEN c ELSE Step(g[s \ {Top(s)}], s)
  OBVIOUS
<1> HIDE DEF Step, G
<1>6. \A g : G(g) <=> Iterates("defragging", 0, c, NPages, g) BY <1>4, <1>5 DEF Iterates
<1> DEFINE w == CHOOSE g : G(g)
<1>7. G(w)
  <2>1. \E g : G(g) BY <1>2, <1>6, CanIterate
  <2> QED BY <2>1
<1> HIDE DEF w
<1>8. \E run : Ran("defragging", 0, c, NPages, run) /\ run[NPages] = w[1 .. NPages]
  BY <1>2, <1>6, <1>7, IteratesRan
<1> QED BY <1>1, <1>8 DEF Ended, w

LEMMA OverUsing ==
  ASSUME NPages \in Nat \ {0}, NEW c
  PROVE  Ended("using", 0, c, NPages, Reused(c))
<1> DEFINE at == [p \in 1 .. NPages |-> p]
           Step(d, s) ==
              IF d.flash[at[Top(s)]].st = "using" THEN OverSlots(RecoverKey, d, at[Top(s)]) ELSE d
           G(g) == g = [s \in SUBSET (1 .. NPages) |->
                 IF s = {} THEN c
                 ELSE IF g[s \ {Top(s)}].flash[at[Top(s)]].st = "using"
                      THEN OverSlots(RecoverKey, g[s \ {Top(s)}], at[Top(s)])
                      ELSE g[s \ {Top(s)}]]
<1>1. Reused(c) = (CHOOSE g : G(g))[1 .. NPages]
  BY DEF Reused, OverPages, Pages, FoldLeft, MapThenFoldSet, Top
<1>2. NPages \in Nat OBVIOUS
<1>3. \A s \in SUBSET (1 .. NPages) : s # {} => at[Top(s)] = Top(s)
  BY <1>2, TopOf
<1> HIDE DEF at
<1>4. \A s \in SUBSET (1 .. NPages) : s # {} => \A d : Visit("using", 0, d, Top(s)) = Step(d, s)
  BY <1>3 DEF Visit
<1>5. \A g : G(g) <=> /\ g = [s \in SUBSET (1 .. NPages) |-> g[s]]
                      /\ \A s \in SUBSET (1 .. NPages) :
                           g[s] = IF s = {} THEN c ELSE Step(g[s \ {Top(s)}], s)
  OBVIOUS
<1> HIDE DEF Step, G
<1>6. \A g : G(g) <=> Iterates("using", 0, c, NPages, g) BY <1>4, <1>5 DEF Iterates
<1> DEFINE w == CHOOSE g : G(g)
<1>7. G(w)
  <2>1. \E g : G(g) BY <1>2, <1>6, CanIterate
  <2> QED BY <2>1
<1> HIDE DEF w
<1>8. \E run : Ran("using", 0, c, NPages, run) /\ run[NPages] = w[1 .. NPages]
  BY <1>2, <1>6, <1>7, IteratesRan
<1> QED BY <1>1, <1>8 DEF Ended, w

LEMMA OverDefragPage ==
  ASSUME NEW d0, NEW S, NEW u \in Seq(S)
  PROVE  Ended("defragPage", u, d0, Len(u), FoldLeft(DefragPage, d0, u))
<1> DEFINE Step(d, s) == DefragPage(d, u[Top(s)])
           H(g) == g = [s \in SUBSET (DOMAIN u) |->
                         IF s = {} THEN d0 ELSE DefragPage(g[s \ {Top(s)}], u[Top(s)])]
           G(g) == g = [s \in SUBSET (1 .. Len(u)) |->
                         IF s = {} THEN d0 ELSE DefragPage(g[s \ {Top(s)}], u[Top(s)])]
<1>0. FoldLeft(DefragPage, d0, u) = (CHOOSE g : H(g))[DOMAIN u]
  BY DEF FoldLeft, MapThenFoldSet, Top
<1>2. Len(u) \in Nat /\ DOMAIN u = 1 .. Len(u) OBVIOUS
<1>1. FoldLeft(DefragPage, d0, u) = (CHOOSE g : G(g))[1 .. Len(u)] BY <1>0, <1>2
<1>4. \A s \in SUBSET (1 .. Len(u)) : s # {} => \A d : Visit("defragPage", u, d, Top(s)) = Step(d, s)
  BY DEF Visit
<1>5. \A g : G(g) <=> /\ g = [s \in SUBSET (1 .. Len(u)) |-> g[s]]
                      /\ \A s \in SUBSET (1 .. Len(u)) :
                           g[s] = IF s = {} THEN d0 ELSE Step(g[s \ {Top(s)}], s)
  OBVIOUS
<1> HIDE DEF Step, G
<1>6. \A g : G(g) <=> Iterates("defragPage", u, d0, Len(u), g) BY <1>4, <1>5 DEF Iterates
<1> DEFINE w == CHOOSE g : G(g)
<1>7. G(w)
  <2>1. \E g : G(g) BY <1>2, <1>6, CanIterate
  <2> QED BY <2>1
<1> HIDE DEF w
<1>8. \E run : Ran("defragPage", u, d0, Len(u), run) /\ run[Len(u)] = w[1 .. Len(u)]
  BY <1>2, <1>6, <1>7, IteratesRan
<1> QED BY <1>1, <1>8 DEF Ended, w

-----------------------------------------------------------------------------
(* What a function leaves as it was. *)

Reads(f, k, v) == \E p, i : ValidAt(f, p, i, k) /\ f[p].kv[i].val = v
SameReads(f, g) == \A k, v : Reads(f, k, v) <=> Reads(g, k, v)

\* An entry recovery has still to deal with: one that was being written, or one
\* that was being deleted and is all there is of its key.
Bad(f, p, i) ==
  /\ There(f, p, i)
  /\ \/ f[p].kv[i].st \in {"torn", "writing"}
     \/ f[p].kv[i].st = "deleting" /\ NoValid(f, f[p].kv[i].key)
Tidy(f, g) == \A p, i : Bad(g, p, i) => Bad(f, p, i) /\ g[p].kv[i] = f[p].kv[i]

\* No page is newly erased, and those under compaction are the same.
StaysAt(f, g, p) ==
  /\ g[p].st = "erased" => f[p].st = "erased"
  /\ g[p].st = "defragging" <=> f[p].st = "defragging"
  /\ f[p].st = "defragging" => Len(f[p].kv) <= Len(g[p].kv)
Stays(f, g) == \A p \in Pages : StaysAt(f, g, p)

LEMMA FramesRefl ==
  ASSUME Sized, NEW f \in Flashes
  PROVE  SameReads(f, f) /\ Tidy(f, f) /\ Stays(f, f)
<1>1. \A p \in Pages : Len(f[p].kv) \in Nat BY FlashFacts
<1> QED BY <1>1 DEF SameReads, Tidy, Stays, StaysAt

LEMMA FramesTrans ==
  ASSUME Sized, NEW f \in Flashes, NEW g \in Flashes, NEW h \in Flashes
  PROVE  /\ SameReads(f, g) /\ SameReads(g, h) => SameReads(f, h)
         /\ Tidy(f, g) /\ Tidy(g, h) => Tidy(f, h)
         /\ Stays(f, g) /\ Stays(g, h) => Stays(f, h)
<1>1. SameReads(f, g) /\ SameReads(g, h) => SameReads(f, h) BY DEF SameReads
<1>2. Tidy(f, g) /\ Tidy(g, h) => Tidy(f, h)
  <2> SUFFICES ASSUME Tidy(f, g), Tidy(g, h), NEW p, NEW i, Bad(h, p, i)
               PROVE  Bad(f, p, i) /\ h[p].kv[i] = f[p].kv[i]
    BY DEF Tidy
  <2>1. Bad(g, p, i) /\ h[p].kv[i] = g[p].kv[i] BY DEF Tidy
  <2>2. Bad(f, p, i) /\ g[p].kv[i] = f[p].kv[i] BY <2>1 DEF Tidy
  <2> QED BY <2>1, <2>2
<1>3. Stays(f, g) /\ Stays(g, h) => Stays(f, h)
  <2> SUFFICES ASSUME Stays(f, g), Stays(g, h), NEW p \in Pages PROVE StaysAt(f, h, p)
    BY DEF Stays
  <2>1. StaysAt(f, g, p) /\ StaysAt(g, h, p) BY DEF Stays
  <2>2. Len(f[p].kv) \in Nat /\ Len(g[p].kv) \in Nat /\ Len(h[p].kv) \in Nat BY FlashFacts
  <2> QED BY <2>1, <2>2 DEF StaysAt
<1> QED BY <1>1, <1>2, <1>3

LEMMA OnlyOne ==
  ASSUME NEW f, Good(f), NEW p, NEW i, NEW k, ValidAt(f, p, i, k)
  PROVE  \A v : Reads(f, k, v) <=> f[p].kv[i].val = v
<1> SUFFICES ASSUME NEW v, Reads(f, k, v) PROVE f[p].kv[i].val = v BY DEF Reads
<1>1. PICK q, j : ValidAt(f, q, j, k) /\ f[q].kv[j].val = v BY DEF Reads
<1>2. q = p /\ j = i BY <1>1 DEF Good, OneEach
<1> QED BY <1>1, <1>2

LEMMA NoReads == \A f, k : NoValid(f, k) <=> \A v : ~Reads(f, k, v)
BY DEF NoValid, Reads

\* The entries that are there and are not at dst or src are as they were.
Others(f, g, dst, src) ==
  /\ \A p, j : There(g, p, j) /\ ~(p = dst.p /\ j = dst.i) => There(f, p, j)
  /\ \A p, j : There(f, p, j) /\ ~(p = dst.p /\ j = dst.i) => There(g, p, j)
  /\ \A p, j : There(f, p, j) /\ ~(p = dst.p /\ j = dst.i) /\ ~(p = src.p /\ j = src.i) =>
       g[p].kv[j] = f[p].kv[j]

\* The entry at src was the one of key k and is no more, or k had none.
Replaces(f, g, dst, src, k) ==
  \/ ValidAt(f, src.p, src.i, k) /\ g[src.p].kv[src.i].st = "invalid"
  \/ NoValid(f, k) /\ src = dst

\* A key written behind the entries of a page, its old entry made invalid: the
\* one at src, if there was one.
LEMMA WrittenFrames ==
  ASSUME NEW f, NEW g, NEW dst, NEW src, NEW k, NEW v,
         Good(f), Good(g), Others(f, g, dst, src), ~There(f, dst.p, dst.i),
         ValidAt(g, dst.p, dst.i, k), g[dst.p].kv[dst.i].val = v,
         Replaces(f, g, dst, src, k)
  PROVE  /\ Reads(g, k, v)
         /\ \A k2, w : k2 # k => (Reads(g, k2, w) <=> Reads(f, k2, w))
         /\ Tidy(f, g)
<1>1. ASSUME NEW k2, k2 # k, NEW p, NEW j
      PROVE  /\ ValidAt(g, p, j, k2) <=> ValidAt(f, p, j, k2)
             /\ ValidAt(f, p, j, k2) => g[p].kv[j] = f[p].kv[j]
  <2>1. CASE p = dst.p /\ j = dst.i BY <2>1, <1>1 DEF ValidAt
  <2>2. CASE p = src.p /\ j = src.i /\ ~(p = dst.p /\ j = dst.i)
    <3>1. ValidAt(f, src.p, src.i, k) /\ g[src.p].kv[src.i].st = "invalid" BY <2>2 DEF Replaces
    <3> QED BY <2>2, <3>1, <1>1 DEF ValidAt
  <2>3. CASE ~(p = src.p /\ j = src.i) /\ ~(p = dst.p /\ j = dst.i)
    BY <2>3 DEF ValidAt, Others
  <2> QED BY <2>1, <2>2, <2>3
<1>2. ASSUME NEW k2, k2 # k, NEW w PROVE Reads(g, k2, w) <=> Reads(f, k2, w)
  BY <1>1, <1>2 DEF Reads
<1>3. Tidy(f, g)
  <2> SUFFICES ASSUME NEW p, NEW i, Bad(g, p, i) PROVE Bad(f, p, i) /\ g[p].kv[i] = f[p].kv[i]
    BY DEF Tidy
  <2>1. ~(p = dst.p /\ i = dst.i) BY DEF Bad, ValidAt
  <2>2. ~(p = src.p /\ i = src.i)
    <3>1. CASE g[src.p].kv[src.i].st = "invalid" BY <3>1 DEF Bad
    <3>2. CASE src = dst BY <3>2, <2>1
    <3> QED BY <3>1, <3>2 DEF Replaces
  <2>3. There(f, p, i) /\ g[p].kv[i] = f[p].kv[i] BY <2>1, <2>2 DEF Bad, Others
  <2>4. ASSUME g[p].kv[i].st = "deleting", NoValid(g, g[p].kv[i].key)
        PROVE  NoValid(f, f[p].kv[i].key)
    <3>1. g[p].kv[i].key # k BY <2>4 DEF NoValid
    <3>2. \A q, j : ~ValidAt(f, q, j, g[p].kv[i].key) BY <3>1, <2>4, <1>1 DEF NoValid
    <3> QED BY <3>2, <2>3 DEF NoValid
  <2> QED BY <2>3, <2>4 DEF Bad
<1>4. Reads(g, k, v) BY DEF Reads
<1> QED BY <1>2, <1>3, <1>4

LEMMA MovedStays ==
  ASSUME Sized, NEW f \in Flashes, NEW g \in Flashes, NEW dst, NEW src, NEW v,
         Moved(f, g, dst, src, v), dst.p \in Pages
  PROVE  Stays(f, g)
<1> SUFFICES ASSUME NEW p \in Pages PROVE StaysAt(f, g, p) BY DEF Stays
<1>1. Len(f[p].kv) \in Nat /\ Len(g[p].kv) \in Nat BY FlashFacts
<1>2. CASE p = dst.p
  <2>1. /\ g[p].st = IF f[p].st = "defragging" THEN "defragging" ELSE "using"
        /\ Len(g[p].kv) = IF dst.i = Len(f[p].kv) + 1 THEN dst.i ELSE Len(f[p].kv)
    BY <1>2 DEF Moved
  <2> QED BY <1>1, <2>1 DEF StaysAt
<1>3. CASE p # dst.p
  <2>1. g[p].st = f[p].st /\ Len(g[p].kv) = Len(f[p].kv) BY <1>3 DEF Moved
  <2> QED BY <1>1, <2>1 DEF StaysAt
<1> QED BY <1>2, <1>3

LEMMA MovedOthers ==
  ASSUME Sized, NEW f \in Flashes, NEW g \in Flashes, NEW dst, NEW src, NEW v,
         Moved(f, g, dst, src, v), dst.p \in Pages, dst.i = Len(f[dst.p].kv) + 1
  PROVE  Others(f, g, dst, src) /\ ~There(f, dst.p, dst.i)
<1>1. Len(f[dst.p].kv) \in Nat /\ Len(g[dst.p].kv) = dst.i BY FlashFacts DEF Moved
<1>2. ~There(f, dst.p, dst.i) BY <1>1 DEF There
<1>3. ASSUME NEW p, NEW j, ~(p = dst.p /\ j = dst.i) PROVE There(g, p, j) <=> There(f, p, j)
  <2>1. CASE p = dst.p
    <3>1. j # dst.i BY <2>1, <1>3
    <3>2. j \in 1 .. dst.i <=> j \in 1 .. Len(f[dst.p].kv) BY SMTT(20), <3>1, <1>1
    <3> QED BY <2>1, <3>2, <1>1 DEF There
  <2>2. CASE p # dst.p BY Zenon, <2>2 DEF There, Moved
  <2> QED BY <2>1, <2>2
<1>4. \A p, j : There(f, p, j) /\ ~(p = dst.p /\ j = dst.i) /\ ~(p = src.p /\ j = src.i) =>
        g[p].kv[j] = f[p].kv[j]
  BY Zenon DEF Moved
<1> QED BY Zenon, <1>2, <1>3, <1>4 DEF Others

\* A key of the same value moved: nothing it reads changes.
LEMMA MovedFrames ==
  ASSUME Sized, NEW f, NEW g, NEW dst, NEW src, NEW v,
         Good(f), Good(g), Moved(f, g, dst, src, v), dst.p \in Pages,
         dst.i = Len(f[dst.p].kv) + 1, There(f, src.p, src.i), f[src.p].kv[src.i].st = "valid"
  PROVE  /\ Stays(f, g) /\ Tidy(f, g)
         /\ Reads(g, f[src.p].kv[src.i].key, v)
         /\ \A k, w : k # f[src.p].kv[src.i].key => (Reads(g, k, w) <=> Reads(f, k, w))
         /\ v = f[src.p].kv[src.i].val => SameReads(f, g)
<1> DEFINE k0 == f[src.p].kv[src.i].key
<1>1. f \in Flashes /\ g \in Flashes BY DEF Good
<1>2. Stays(f, g) BY <1>1, MovedStays
<1>3. Others(f, g, dst, src) /\ ~There(f, dst.p, dst.i) BY Zenon, <1>1, MovedOthers
<1>4. /\ ValidAt(g, dst.p, dst.i, k0) /\ g[dst.p].kv[dst.i].val = v
      /\ ValidAt(f, src.p, src.i, k0) /\ g[src.p].kv[src.i].st = "invalid"
  BY DEF Moved, ValidAt
<1> HIDE DEF k0
<1>5. /\ Reads(g, k0, v) /\ Tidy(f, g)
      /\ \A k, w : k # k0 => (Reads(g, k, w) <=> Reads(f, k, w))
  <2>1. Replaces(f, g, dst, src, k0) BY <1>4 DEF Replaces
  <2> QED BY <1>3, <1>4, <2>1, WrittenFrames
<1>6. ASSUME v = f[src.p].kv[src.i].val PROVE SameReads(f, g)
  <2>1. /\ \A w : Reads(f, k0, w) <=> f[src.p].kv[src.i].val = w
        /\ \A w : Reads(g, k0, w) <=> g[dst.p].kv[dst.i].val = w
    BY <1>4, OnlyOne
  <2> QED BY Zenon, <1>4, <1>5, <1>6, <2>1 DEF SameReads
<1> QED BY <1>2, <1>5, <1>6 DEF k0

LEMMA InvalidFrames ==
  ASSUME Sized, NEW f \in Flashes, NEW g \in Flashes, NEW p, NEW i,
         There(f, p, i), OnlyEntry(f, g, p, i), g[p].kv[i].st = "invalid"
  PROVE  /\ Stays(f, g)
         /\ f[p].kv[i].st # "valid" => SameReads(f, g) /\ Tidy(f, g)
         /\ \A k, w : f[p].kv[i].key # k => (Reads(g, k, w) <=> Reads(f, k, w))
         /\ \A k : Good(f) /\ ValidAt(f, p, i, k) => NoValid(g, k)
         /\ ~Bad(g, p, i)
<1>1. \A q, j : There(g, q, j) <=> There(f, q, j) BY DEF There, OnlyEntry, OnlyPage
<1>2. \A q, j : There(f, q, j) /\ ~(q = p /\ j = i) => g[q].kv[j] = f[q].kv[j]
  BY DEF There, OnlyEntry, OnlyPage
<1>3. Stays(f, g)
  <2>1. \A q \in Pages : g[q].st = f[q].st /\ Len(g[q].kv) = Len(f[q].kv) /\ Len(f[q].kv) \in Nat
    BY FlashFacts DEF OnlyEntry, OnlyPage
  <2> QED BY <2>1 DEF Stays, StaysAt
<1>4. ASSUME NEW k, f[p].kv[i].st # "valid" \/ f[p].kv[i].key # k
      PROVE  \A q, j : /\ ValidAt(g, q, j, k) <=> ValidAt(f, q, j, k)
                       /\ ValidAt(f, q, j, k) => g[q].kv[j] = f[q].kv[j]
  <2> SUFFICES ASSUME NEW q, NEW j
               PROVE  /\ ValidAt(g, q, j, k) <=> ValidAt(f, q, j, k)
                      /\ ValidAt(f, q, j, k) => g[q].kv[j] = f[q].kv[j]
    OBVIOUS
  <2>1. CASE q = p /\ j = i BY <2>1, <1>4 DEF ValidAt
  <2>2. CASE ~(q = p /\ j = i) BY <2>2, <1>1, <1>2 DEF ValidAt
  <2> QED BY <2>1, <2>2
<1>5. ASSUME NEW k, f[p].kv[i].st # "valid" \/ f[p].kv[i].key # k
      PROVE  \A w : Reads(g, k, w) <=> Reads(f, k, w)
  BY <1>4, <1>5 DEF Reads
<1>6. ASSUME f[p].kv[i].st # "valid" PROVE Tidy(f, g)
  <2> SUFFICES ASSUME NEW q, NEW j, Bad(g, q, j) PROVE Bad(f, q, j) /\ g[q].kv[j] = f[q].kv[j]
    BY DEF Tidy
  <2>1. ~(q = p /\ j = i) BY DEF Bad
  <2>2. There(f, q, j) /\ g[q].kv[j] = f[q].kv[j] BY <2>1, <1>1, <1>2 DEF Bad
  <2>3. \A k : NoValid(g, k) => NoValid(f, k) BY <1>4, <1>6 DEF NoValid
  <2> QED BY <2>2, <2>3 DEF Bad
<1>7. ASSUME NEW k, Good(f), ValidAt(f, p, i, k) PROVE NoValid(g, k)
  <2> SUFFICES ASSUME NEW q, NEW j, ValidAt(g, q, j, k) PROVE FALSE BY DEF NoValid
  <2>1. ~(q = p /\ j = i) BY DEF ValidAt
  <2>2. ValidAt(f, q, j, k) BY <2>1, <1>1, <1>2 DEF ValidAt
  <2> QED BY <2>1, <2>2, <1>7 DEF Good, OneEach
<1>8. ~Bad(g, p, i) BY DEF Bad
<1> QED BY <1>3, <1>5, <1>6, <1>7, <1>8 DEF SameReads

\* A page formatted that has no valid entry left, or whose state alone changed.
LEMMA PageFrames ==
  ASSUME NEW f, NEW g, NEW p \in Pages, OnlyPage(f, g, p),
         \/ g[p].kv = f[p].kv
         \/ g[p].kv = <<>> /\ \A i, k : ~ValidAt(f, p, i, k)
  PROVE  SameReads(f, g) /\ Tidy(f, g)
<1>1. ASSUME NEW q, NEW j, There(g, q, j) PROVE There(f, q, j) /\ g[q].kv[j] = f[q].kv[j]
  <2>1. CASE q = p
    <3>1. Len(<<>>) = 0 OBVIOUS
    <3>2. g[p].kv # <<>> BY <2>1, <1>1, <3>1 DEF There
    <3> QED BY <2>1, <3>2, <1>1 DEF There
  <2>2. CASE q # p BY <2>2, <1>1 DEF There, OnlyPage
  <2> QED BY <2>1, <2>2
<1>2. ASSUME NEW q, NEW j, NEW k, ValidAt(f, q, j, k)
      PROVE  ValidAt(g, q, j, k) /\ g[q].kv[j] = f[q].kv[j]
  <2>1. CASE q = p BY <2>1, <1>2 DEF ValidAt, There
  <2>2. CASE q # p BY <2>2, <1>2 DEF ValidAt, There, OnlyPage
  <2> QED BY <2>1, <2>2
<1>3. \A q, j, k : ValidAt(g, q, j, k) => ValidAt(f, q, j, k) BY <1>1 DEF ValidAt
<1>4. SameReads(f, g) BY <1>2, <1>3 DEF SameReads, Reads
<1>5. \A k : NoValid(g, k) => NoValid(f, k) BY <1>2 DEF NoValid
<1>6. Tidy(f, g) BY <1>1, <1>5 DEF Tidy, Bad
<1> QED BY <1>4, <1>6
-----------------------------------------------------------------------------
(* What the searches find. *)

LEMMA MinIn ==
  ASSUME NEW S \in SUBSET Pages, S # {}, Sized
  PROVE  Min(S) \in S /\ Min(S) \in Pages
<1>1. S \in SUBSET Nat BY DEF Pages, Sized
<1>2. \E x \in S : \A y \in S : x <= y BY <1>1, LeastOf
<1>3. Min(S) \in S BY <1>2 DEF Min
<1> QED BY <1>3

LEMMA FirstIn ==
  ASSUME Sized, NEW A \in SUBSET [p : Pages, i : 1 .. PageCap], A # {}
  PROVE  First(A) \in A
<1> DEFINE P == {a.p : a \in A}
<1>1. P \in SUBSET Nat /\ P # {} BY DEF Pages, Sized
<1>2. PICK p \in P : \A y \in P : p <= y BY <1>1, LeastOf
<1> DEFINE I == {i \in 1 .. PageCap : \E a \in A : a.p = p /\ a.i = i}
<1>3. I \in SUBSET Nat /\ I # {}
  <2>1. PICK a \in A : a.p = p BY <1>2
  <2>2. a.i \in I BY <2>1
  <2> QED BY <2>2 DEF Sized
<1>4. PICK i \in I : \A y \in I : i <= y BY <1>3, LeastOf
<1>5. PICK a \in A : a.p = p /\ a.i = i BY <1>4
<1>6. ASSUME NEW b \in A PROVE a.p < b.p \/ (a.p = b.p /\ a.i <= b.i)
  <2>1. b.p \in P /\ b.p \in Nat /\ p \in Nat /\ p <= b.p BY <1>1, <1>2
  <2>2. CASE b.p = p
    <3>1. b.i \in I BY <2>2
    <3> QED BY <2>2, <3>1, <1>4, <1>5
  <2>3. CASE b.p # p BY <2>1, <2>3, <1>5
  <2> QED BY <2>2, <2>3
<1> QED BY <1>6 DEF First

LEMMA FoundFacts ==
  ASSUME Sized, NEW f \in Flashes, NEW k, NEW s
  PROVE  /\ Found(f, k, s) \in SUBSET [p : Pages, i : 1 .. PageCap]
         /\ \A a \in Found(f, k, s) :
              There(f, a.p, a.i) /\ f[a.p].kv[a.i].st = s /\ f[a.p].kv[a.i].key = k
         /\ \A p, i : There(f, p, i) /\ f[p].kv[i].st = s /\ f[p].kv[i].key = k =>
              [p |-> p, i |-> i] \in Found(f, k, s)
<1>1. \A p \in Pages : Len(f[p].kv) \in Nat /\ Len(f[p].kv) <= PageCap /\ PageCap \in Nat
  BY FlashFacts DEF Sized
<1>2. Found(f, k, s) \in SUBSET [p : Pages, i : 1 .. PageCap] BY DEF Found
<1>3. ASSUME NEW a \in Found(f, k, s)
      PROVE  There(f, a.p, a.i) /\ f[a.p].kv[a.i].st = s /\ f[a.p].kv[a.i].key = k
  <2>1. /\ a.p \in Pages /\ a.i \in 1 .. PageCap /\ a.i <= Len(f[a.p].kv)
        /\ f[a.p].kv[a.i].st = s /\ f[a.p].kv[a.i].key = k
    BY DEF Found, Entry
  <2> QED BY <2>1, <1>1 DEF There
<1>4. ASSUME NEW p, NEW i, There(f, p, i), f[p].kv[i].st = s, f[p].kv[i].key = k
      PROVE  [p |-> p, i |-> i] \in Found(f, k, s)
  <2>1. p \in Pages /\ i \in 1 .. PageCap /\ i <= Len(f[p].kv) BY <1>1, <1>4 DEF There
  <2> QED BY <2>1, <1>4 DEF Found, Entry
<1> QED BY <1>2, <1>3, <1>4

\* The entry key_value_find_key finds is the valid one, if there is one.
LEMMA ValidFound ==
  ASSUME Sized, NEW f, Good(f), NEW k
  PROVE  /\ Found(f, k, "valid") = {} <=> NoValid(f, k)
         /\ Found(f, k, "valid") # {} =>
              LET a == First(Found(f, k, "valid")) IN ValidAt(f, a.p, a.i, k)
         /\ Cardinality(Found(f, k, "valid")) <= 1
<1> DEFINE A == Found(f, k, "valid")
<1>1. f \in Flashes BY DEF Good
<1>2. /\ A \in SUBSET [p : Pages, i : 1 .. PageCap]
      /\ \A a \in A : ValidAt(f, a.p, a.i, k)
      /\ \A p, i : ValidAt(f, p, i, k) => [p |-> p, i |-> i] \in A
  BY <1>1, FoundFacts DEF ValidAt
<1> HIDE DEF A
<1>3. A = {} <=> NoValid(f, k) BY <1>2 DEF NoValid
<1>4. A # {} => LET a == First(A) IN ValidAt(f, a.p, a.i, k)
  <2> SUFFICES ASSUME A # {} PROVE ValidAt(f, First(A).p, First(A).i, k) OBVIOUS
  <2>1. First(A) \in A BY <1>2, FirstIn
  <2> QED BY <1>2, <2>1
<1>5. Cardinality(A) <= 1
  <2>1. CASE A = {}
    <3>1. Cardinality(A) = 0 BY <2>1, FS_EmptySet
    <3> QED BY <3>1
  <2>2. CASE A # {}
    <3>1. PICK a \in A : TRUE BY <2>2
    <3>2. ASSUME NEW b \in A PROVE b = a
      <4>1. b.p = a.p /\ b.i = a.i BY <1>2, <3>1 DEF Good, OneEach
      <4>2. b \in [p : Pages, i : 1 .. PageCap] /\ a \in [p : Pages, i : 1 .. PageCap] BY <1>2
      <4>3. b = [p |-> b.p, i |-> b.i] /\ a = [p |-> a.p, i |-> a.i] BY <4>2
      <4> QED BY <4>1, <4>3
    <3>3. A = {a} BY <3>2
    <3>4. Cardinality(A) = 1 BY <3>3, FS_Singleton
    <3> QED BY <3>4
  <2> QED BY <2>1, <2>2
<1> QED BY <1>3, <1>4, <1>5 DEF A

\* key_value_get_all_page_state
LEMMA PagesInFacts ==
  ASSUME Sized, NEW f, NEW s
  PROVE  LET u == PagesIn(f, s)
         IN  /\ u \in Seq(Pages)
             /\ \A m \in 1 .. Len(u) : u[m] \in Pages /\ f[u[m]].st = s
             /\ \A m, n \in 1 .. Len(u) : u[m] = u[n] => m = n
             /\ u = <<>> => \A p \in Pages : f[p].st # s
<1> DEFINE u == PagesIn(f, s)
           Listed(l, i) == /\ l \in Seq(Pages)
                           /\ \A m \in 1 .. Len(l) : l[m] <= i /\ f[l[m]].st = s
                           /\ \A m, n \in 1 .. Len(l) : l[m] = l[n] => m = n
                           /\ l = <<>> => \A p \in 1 .. i : f[p].st # s
<1>0. NPages \in Nat \ {0} /\ Pages = 1 .. NPages BY DEF Sized, Pages
<1>1. Ended("pagesIn", <<f, s>>, <<>>, NPages, u) BY <1>0, OverPagesIn
<1>2. PICK run : Ran("pagesIn", <<f, s>>, <<>>, NPages, run) /\ run[NPages] = u BY <1>1 DEF Ended
<1> HIDE DEF u
<1>3. run[0] = <<>> BY <1>2 DEF Ran
<1>4. ASSUME NEW i \in 1 .. NPages
      PROVE  run[i] = IF f[i].st = s THEN Append(run[i - 1], i) ELSE run[i - 1]
  BY <1>2 DEF Ran, Visit
<1> DEFINE S == {i \in Nat : i <= NPages => Listed(run[i], i)}
<1>5. 0 \in S
  <2>1. <<>> \in Seq(Pages) /\ Len(<<>>) = 0 OBVIOUS
  <2>2. Listed(<<>>, 0) BY <2>1
  <2> HIDE DEF Listed
  <2> QED BY <2>2, <1>3
<1>6. ASSUME NEW i \in Nat, i \in S PROVE i + 1 \in S
  <2> SUFFICES ASSUME i + 1 <= NPages PROVE Listed(run[i + 1], i + 1) OBVIOUS
  <2> DEFINE l == run[i]
             h == run[i + 1]
  <2>0. Listed(l, i)
    <3> HIDE DEF Listed
    <3> QED BY <1>0, <1>6
  <2>1. i + 1 \in 1 .. NPages /\ (i + 1) - 1 = i BY <1>0
  <2>2. h = IF f[i + 1].st = s THEN Append(l, i + 1) ELSE l BY <1>4, <2>1
  <2> HIDE DEF l, h
  <2>3. \A m \in 1 .. Len(l) : l[m] \in Nat BY <2>0, <1>0
  <2>4. CASE f[i + 1].st # s
    <3>1. h = l BY <2>2, <2>4
    <3>2. \A m \in 1 .. Len(l) : l[m] <= i + 1 BY <2>0, <2>3
    <3>3. \A p \in 1 .. i + 1 : p \in 1 .. i \/ p = i + 1 OBVIOUS
    <3>4. h = <<>> => \A p \in 1 .. i + 1 : f[p].st # s BY <2>0, <2>4, <3>1, <3>3
    <3> QED BY <2>0, <3>1, <3>2, <3>4 DEF h
  <2>5. CASE f[i + 1].st = s
    <3>1. h = Append(l, i + 1) /\ i + 1 \in Pages BY <2>1, <2>2, <2>5, <1>0
    <3>2. /\ h \in Seq(Pages) /\ Len(h) = Len(l) + 1 /\ h[Len(l) + 1] = i + 1
          /\ \A m \in 1 .. Len(l) : h[m] = l[m]
          /\ Len(l) \in Nat
      BY <2>0, <3>1
    <3>3. \A m \in 1 .. Len(h) : m = Len(l) + 1 \/ m \in 1 .. Len(l) BY <3>2
    <3>4. \A m \in 1 .. Len(h) : h[m] <= i + 1 /\ f[h[m]].st = s BY <2>0, <2>3, <2>5, <3>2, <3>3
    <3>5. \A m \in 1 .. Len(l) : h[m] # i + 1 BY <2>0, <2>3, <3>2
    <3>6. \A m, n \in 1 .. Len(h) : h[m] = h[n] => m = n BY <2>0, <3>2, <3>3, <3>5
    <3>7. h # <<>> BY <3>2
    <3> QED BY <3>2, <3>4, <3>6, <3>7 DEF h
  <2> QED BY <2>4, <2>5 DEF h
<1> HIDE DEF S
<1>7. NPages \in S
  <2>1. \A n \in Nat : n \in S BY <1>5, <1>6, Inductive
  <2> QED BY <1>0, <2>1
<1>8. Listed(u, NPages) BY <1>0, <1>2, <1>7 DEF S
<1>9. \A m \in 1 .. Len(u) : u[m] \in Pages BY <1>8
<1>10. u = <<>> => \A p \in Pages : f[p].st # s BY <1>0, <1>8
<1> QED BY <1>8, <1>9, <1>10 DEF u
-----------------------------------------------------------------------------
(* key_value_defrag: the pages in use are emptied one by one into the empty *)
(* ones, and each is the next empty one.                                    *)

DefragRuns == [c : Runs, empty : Seq(Pages), index : Nat, slot : Nat]

\* The page being filled has its next place at slot, the ones to come are
\* empty, and the pages of W wait to be compacted.
Line(d, W) ==
  /\ d.index \in 1 .. Len(d.empty) /\ d.slot \in 1 .. PageCap + 1
  /\ d.empty[d.index] \in Pages /\ d.empty[d.index] \notin W
  /\ d.c.flash[d.empty[d.index]].st \in {"empty", "using"}
  /\ Len(d.c.flash[d.empty[d.index]].kv) = d.slot - 1
  /\ \A m \in 1 .. Len(d.empty) : m > d.index => d.c.flash[d.empty[m]].st = "empty"
  /\ \A m, n \in 1 .. Len(d.empty) :
       m >= d.index /\ n >= d.index /\ d.empty[m] = d.empty[n] => m = n
  /\ \A w \in W : w \in Pages /\ d.c.flash[w].st = "using"
Fills(d, f, W) ==
  /\ d \in DefragRuns /\ Sound(d.c, f) /\ d.c.ret \in {OK, "assert"}
  /\ d.c.ret = OK => Line(d, W)

LEMMA NextEmptyFills ==
  ASSUME Sized, NEW d, NEW f, NEW W, Fills(d, f, W)
  PROVE  LET e == NextEmpty(d)
         IN  /\ Fills(e, f, W) /\ e.c.flash = d.c.flash
             /\ e.c.ret = OK => d.c.ret = OK /\ e.slot = 1
             /\ d.c.ret = OK /\ d.index < Len(d.empty) => e.c.ret = OK
<1> DEFINE e == NextEmpty(d)
           g == d.c.flash
<1>1. /\ d \in DefragRuns /\ Sound(d.c, f) /\ d.c.ret \in {OK, "assert"}
      /\ d = [c |-> d.c, empty |-> d.empty, index |-> d.index, slot |-> d.slot]
      /\ d.empty \in Seq(Pages) /\ d.index \in Nat /\ Len(d.empty) \in Nat /\ d.c \in Runs
      /\ d.slot \in Nat
  BY DEF Fills, DefragRuns
<1>2. CASE d.index < Len(d.empty)
  <2>1. e = [c |-> d.c, empty |-> d.empty, index |-> d.index + 1, slot |-> 1]
    <3>1. NextEmpty(d) = [d EXCEPT !.index = @ + 1, !.slot = 1] BY <1>2 DEF NextEmpty
    <3> QED BY <1>1, <3>1
  <2> HIDE DEF e
  <2>2. e \in DefragRuns BY <2>1, <1>1 DEF DefragRuns
  <2>3. ASSUME d.c.ret = OK PROVE Line(e, W)
    <3>1. Line(d, W) BY <2>3 DEF Fills
    <3>2. d.index + 1 \in 1 .. Len(d.empty) /\ d.index + 1 > d.index BY <1>1, <1>2
    <3> DEFINE q == d.empty[d.index + 1]
    <3>3. q \in Pages /\ g[q].st = "empty" BY <3>1, <3>2, <1>1 DEF Line
    <3>4. q \notin W BY <3>1, <3>3 DEF Line
    <3>5. Good(g) BY <1>1, SoundFacts
    <3>6. g[q].kv = <<>> BY <3>3, <3>5 DEF Good, Blanks
    <3>7. Len(g[q].kv) = 0 BY <3>6
    <3>8. \A m \in 1 .. Len(d.empty) : m > d.index + 1 => m > d.index BY <1>1
    <3>9. \A m \in 1 .. Len(d.empty) : m >= d.index + 1 => m >= d.index BY <1>1
    <3>10. 1 \in 1 .. PageCap + 1 /\ 1 - 1 = 0 BY SMTT(20) DEF Sized
    <3>11. /\ \A m \in 1 .. Len(d.empty) : m > d.index + 1 => g[d.empty[m]].st = "empty"
           /\ \A m, n \in 1 .. Len(d.empty) :
                m >= d.index + 1 /\ n >= d.index + 1 /\ d.empty[m] = d.empty[n] => m = n
           /\ \A w \in W : w \in Pages /\ g[w].st = "using"
      BY <3>1, <3>8, <3>9 DEF Line
    <3> QED BY <2>1, <3>2, <3>3, <3>4, <3>7, <3>10, <3>11 DEF Line
  <2> QED BY <2>1, <2>2, <2>3, <1>1 DEF Fills, e
<1>3. CASE ~(d.index < Len(d.empty))
  <2> DEFINE c == Fail(d.c, "assert")
  <2>1. e = [d EXCEPT !.c = c] BY <1>3 DEF NextEmpty
  <2>2. /\ Sound(c, f) /\ c.flash = d.c.flash /\ c.ret = IF d.c.ret = OK THEN "assert" ELSE d.c.ret
    BY <1>1, SoundFail DEF Rets
  <2> HIDE DEF c, e
  <2>3. e = [c |-> c, empty |-> d.empty, index |-> d.index, slot |-> d.slot] BY <1>1, <2>1
  <2>4. c \in Runs BY <2>2 DEF Sound
  <2>5. e \in DefragRuns BY <1>1, <2>3, <2>4 DEF DefragRuns
  <2>6. c.ret # OK /\ c.ret \in {OK, "assert"} BY <1>1, <2>2 DEF OK
  <2> QED BY <2>2, <2>3, <2>5, <2>6, <1>3 DEF Fills, e
<1> QED BY <1>2, <1>3

\* The entries of page p that are valid in h were in g, but for the one at i.
Emptier(g, h, p, i) == \A j, k : ValidAt(h, p, j, k) => ValidAt(g, p, j, k) /\ j # i

LEMMA MoveFills ==
  ASSUME Sized, NEW d, NEW f, NEW W, Fills(d, f, W), d.c.ret = OK, d.slot <= PageCap,
         NEW p \in Pages, NEW i, NEW k, ValidAt(d.c.flash, p, i, k),
         d.c.flash[p].st = "defragging"
  PROVE  LET c == MoveKey(d.c, [p |-> d.empty[d.index], i |-> d.slot], [p |-> p, i |-> i])
             e == [d EXCEPT !.c = c, !.slot = @ + 1]
         IN  /\ Fills(e, f, W) /\ e.c.ret = OK
             /\ Stays(d.c.flash, e.c.flash) /\ Tidy(d.c.flash, e.c.flash)
             /\ SameReads(d.c.flash, e.c.flash) /\ Emptier(d.c.flash, e.c.flash, p, i)
<1> DEFINE g == d.c.flash
           q == d.empty[d.index]
           dst == [p |-> q, i |-> d.slot]
           src == [p |-> p, i |-> i]
           c == MoveKey(d.c, dst, src)
           v == g[p].kv[i].val
           e == [d EXCEPT !.c = c, !.slot = @ + 1]
           h == c.flash
<1>1. /\ d \in DefragRuns /\ Sound(d.c, f) /\ Line(d, W)
      /\ d = [c |-> d.c, empty |-> d.empty, index |-> d.index, slot |-> d.slot]
      /\ d.empty \in Seq(Pages) /\ d.index \in Nat /\ Len(d.empty) \in Nat /\ d.slot \in Nat
  BY DEF Fills, DefragRuns
<1>2. Good(g) /\ g \in Flashes BY <1>1, SoundFacts
<1>3. There(g, p, i) /\ g[p].kv[i].st = "valid" /\ g[p].kv[i].key = k BY DEF ValidAt
<1>4. q \in Pages /\ q # p /\ q \notin W /\ d.slot = Len(g[q].kv) + 1 /\ d.slot \in Nat \ {0}
  <2>1. /\ q \in Pages /\ g[q].st \in {"empty", "using"} /\ q \notin W
        /\ Len(g[q].kv) = d.slot - 1 /\ d.slot \in 1 .. PageCap + 1
    BY <1>1 DEF Line
  <2>2. q # p BY <2>1
  <2> HIDE DEF q, g
  <2> QED BY <2>1, <2>2, <1>1
<1>5. Fits(g, dst, k)
  <2>1. g[q].st \in {"empty", "using"} BY <1>1 DEF Line
  <2> QED BY <1>4, <2>1 DEF Fits, Spares
<1>6. v \in Datas BY <1>2, <1>3, ThereFacts DEF Named
<1>7. Sound(c, f) /\ c.ret = OK /\ Moved(g, h, dst, src, v)
  <2>1. MoveKey(d.c, dst, src) = Rewrite(d.c, dst, src, v) BY MoveIsRewrite
  <2> HIDE DEF c, v, dst
  <2>2. There(g, src.p, src.i) /\ g[src.p].kv[src.i].st = "valid" /\ g[src.p].kv[src.i].key = k
    BY <1>3
  <2>3. LET r == Rewrite(d.c, dst, src, v)
        IN  Sound(r, f) /\ r.ret = OK /\ Moved(d.c.flash, r.flash, dst, src, v)
    <3> HIDE DEF src, g
    <3>1. There(d.c.flash, src.p, src.i) /\ d.c.flash[src.p].kv[src.i].st = "valid"
          /\ Fits(d.c.flash, dst, d.c.flash[src.p].kv[src.i].key)
      BY <2>2, <1>5 DEF g
    <3> QED BY Zenon, <1>1, <1>6, <3>1, RewriteSound
  <2> QED BY <2>1, <2>3 DEF c
<1> HIDE DEF c
<1>8. Good(h) /\ h \in Flashes /\ c \in Runs BY Zenon, <1>7, SoundFacts
<1>9. /\ Stays(g, h) /\ Tidy(g, h) /\ SameReads(g, h)
  <2> HIDE DEF g, h, v
  <2>1. There(g, src.p, src.i) /\ g[src.p].kv[src.i].st = "valid" /\ v = g[src.p].kv[src.i].val
    BY <1>3 DEF v
  <2>2. dst.p \in Pages /\ dst.i = Len(g[dst.p].kv) + 1 BY <1>4
  <2> HIDE DEF src, dst
  <2> QED BY <1>2, <1>7, <1>8, <2>1, <2>2, MovedFrames
<1>10. Emptier(g, h, p, i)
  <2> SUFFICES ASSUME NEW j, NEW k2, ValidAt(h, p, j, k2) PROVE ValidAt(g, p, j, k2) /\ j # i
    BY DEF Emptier
  <2>1. /\ Len(h[p].kv) = Len(g[p].kv) /\ h[p].kv[i].st = "invalid"
        /\ \A x : There(g, p, x) /\ x # i => h[p].kv[x] = g[p].kv[x]
    <3>1. p # dst.p /\ src.p = p /\ src.i = i BY <1>4
    <3> HIDE DEF dst, src, g, h
    <3> QED BY <1>7, <3>1 DEF Moved
  <2>2. j # i BY <2>1 DEF ValidAt
  <2>3. There(g, p, j) BY <2>1 DEF ValidAt, There
  <2> QED BY <2>1, <2>2, <2>3 DEF ValidAt
<1>11. e = [c |-> c, empty |-> d.empty, index |-> d.index, slot |-> d.slot + 1]
  <2>1. e = [d EXCEPT !.c = c, !.slot = d.slot + 1] OBVIOUS
  <2> HIDE DEF e
  <2> QED BY <1>1, <2>1
<1> HIDE DEF e
<1>12. Line(e, W)
  <2>1. /\ \A x \in Pages : x # q => h[x].st = g[x].st
        /\ h[q].st = IF g[q].st = "defragging" THEN "defragging" ELSE "using"
        /\ Len(h[q].kv) = IF d.slot = Len(g[q].kv) + 1 THEN d.slot ELSE Len(g[q].kv)
    BY Zenon, <1>7 DEF Moved
  <2>2. g[q].st \in {"empty", "using"} BY <1>1 DEF Line
  <2>3. h[q].st = "using" /\ Len(h[q].kv) = d.slot BY <1>4, <2>1, <2>2
  <2>4. d.index \in 1 .. Len(d.empty) /\ d.slot + 1 \in 1 .. PageCap + 1 /\ (d.slot + 1) - 1 = d.slot
    BY <1>1, <1>4 DEF Line, Sized
  <2>5. ASSUME NEW m \in 1 .. Len(d.empty), m > d.index PROVE h[d.empty[m]].st = "empty"
    <3>1. g[d.empty[m]].st = "empty" BY <1>1, <2>5 DEF Line
    <3>2. d.empty[m] # q
      <4>1. m >= d.index /\ d.index >= d.index /\ m # d.index BY <2>4, <2>5, <1>1
      <4> QED BY <4>1, <2>4, <1>1 DEF Line
    <3>3. d.empty[m] \in Pages BY SMTT(20), <1>1
    <3> QED BY <3>1, <3>2, <3>3, <2>1
  <2>6. \A w \in W : w \in Pages /\ h[w].st = "using"
    <3> SUFFICES ASSUME NEW w \in W PROVE w \in Pages /\ h[w].st = "using" OBVIOUS
    <3>1. w \in Pages /\ g[w].st = "using" /\ w # q BY <1>1, <1>4 DEF Line
    <3> QED BY <3>1, <2>1
  <2>7. \A m, n \in 1 .. Len(d.empty) :
          m >= d.index /\ n >= d.index /\ d.empty[m] = d.empty[n] => m = n
    BY <1>1 DEF Line
  <2> HIDE DEF g, h, q
  <2>8. q \in Pages /\ q \notin W /\ h[q].st \in {"empty", "using"} BY <1>4, <2>3
  <2> QED BY <1>11, <2>3, <2>4, <2>5, <2>6, <2>7, <2>8 DEF Line, q, h
<1>13. e \in DefragRuns
  <2> HIDE DEF h
  <2>1. d.slot + 1 \in Nat BY <1>1
  <2> QED BY <1>1, <1>8, <1>11, <2>1 DEF DefragRuns
<1>14. e.c = c BY <1>11
<1>15. Fills(e, f, W) /\ e.c.ret = OK BY <1>7, <1>12, <1>13, <1>14 DEF Fills
<1> QED BY <1>9, <1>10, <1>14, <1>15 DEF e, c
Frames(g, h) == Stays(g, h) /\ Tidy(g, h) /\ SameReads(g, h)

LEMMA DefragKeyFills ==
  ASSUME Sized, NEW d, NEW f, NEW W, Fills(d, f, W), NEW p \in Pages, NEW i \in 1 .. PageCap,
         d.c.ret = OK => d.c.flash[p].st = "defragging"
  PROVE  LET e == DefragKey(d, [p |-> p, i |-> i])
         IN  /\ Fills(e, f, W)
             /\ e.c.ret = OK => /\ d.c.ret = OK /\ Frames(d.c.flash, e.c.flash)
                                /\ Emptier(d.c.flash, e.c.flash, p, i)
<1> DEFINE a == [p |-> p, i |-> i]
           g == d.c.flash
           k == g[p].kv[i].key
           r == DefragKey(d, a)
           e == IF d.slot <= PageCap THEN d ELSE NextEmpty(d)
           m == MoveKey(e.c, [p |-> e.empty[e.index], i |-> e.slot], a)
<1>1. d \in DefragRuns /\ Sound(d.c, f) /\ d.slot \in Nat /\ PageCap \in Nat \ {0}
  BY DEF Fills, DefragRuns, Sized
<1>2. g \in Flashes /\ Good(g) BY <1>1, SoundFacts
<1>3. CASE i > Len(g[p].kv) \/ d.c.ret # OK \/ g[p].kv[i].st # "valid"
  <2>1. r = d BY <1>3 DEF DefragKey, Entry, OK
  <2>2. ASSUME d.c.ret = OK PROVE Frames(g, g) /\ Emptier(g, g, p, i)
    <3>1. i > Len(g[p].kv) \/ g[p].kv[i].st # "valid" BY <2>2, <1>3
    <3>2. Len(g[p].kv) \in Nat BY <1>2, FlashFacts
    <3>3. \A k2 : ~ValidAt(g, p, i, k2) BY <3>1, <3>2 DEF ValidAt, There
    <3> QED BY <3>3, <1>2, FramesRefl DEF Frames, Emptier
  <2> QED BY <2>1, <2>2
<1>4. CASE ~(i > Len(g[p].kv)) /\ d.c.ret = OK /\ g[p].kv[i].st = "valid"
  <2>1. r = [e EXCEPT !.c = m, !.slot = @ + 1] BY <1>4 DEF DefragKey, Entry, OK
  <2>2. ValidAt(g, p, i, k)
    <3>1. Len(g[p].kv) \in Nat BY <1>2, FlashFacts
    <3> QED BY <1>4, <3>1 DEF ValidAt, There
  <2> HIDE DEF k
  <2>3. g[p].st = "defragging" BY <1>4
  <2>4. /\ Fills(e, f, W) /\ e.c.flash = g /\ (e.c.ret = OK => e.slot <= PageCap)
        /\ e.c \in Runs /\ e \in DefragRuns
    <3>1. CASE d.slot <= PageCap BY <3>1, <1>1 DEF DefragRuns
    <3>2. CASE ~(d.slot <= PageCap)
      <4>1. Fills(e, f, W) /\ e.c.flash = g /\ (e.c.ret = OK => e.slot = 1) BY <3>2, NextEmptyFills
      <4> HIDE DEF e
      <4>2. e.c \in Runs /\ e \in DefragRuns BY <4>1 DEF Fills, DefragRuns
      <4> QED BY <4>1, <4>2, <1>1
    <3> QED BY <3>1, <3>2
  <2>5. CASE e.c.ret = OK
    <3> HIDE DEF e, g
    <3>1. ValidAt(e.c.flash, p, i, k) /\ e.c.flash[p].st = "defragging" BY <2>2, <2>3, <2>4
    <3>2. /\ Fills(r, f, W) /\ Stays(g, r.c.flash) /\ Tidy(g, r.c.flash)
          /\ SameReads(g, r.c.flash) /\ Emptier(g, r.c.flash, p, i)
      <4> HIDE DEF r
      <4> QED BY Zenon, <2>1, <2>4, <2>5, <3>1, MoveFills
    <3> QED BY <3>2, <1>4 DEF Frames, g
  <2>6. CASE e.c.ret # OK
    <3> HIDE DEF e
    <3>1. m = e.c BY <2>6, Stuck
    <3> HIDE DEF m, r
    <3>2. r = [c |-> e.c, empty |-> e.empty, index |-> e.index, slot |-> e.slot + 1]
      <4>1. e = [c |-> e.c, empty |-> e.empty, index |-> e.index, slot |-> e.slot]
        BY <2>4 DEF DefragRuns
      <4>2. r = [e EXCEPT !.c = e.c, !.slot = e.slot + 1] BY <2>1, <3>1
      <4> QED BY <4>1, <4>2
    <3>3. r.c = e.c /\ r \in DefragRuns BY <2>4, <3>2 DEF DefragRuns
    <3>4. Fills(r, f, W) BY <2>4, <2>6, <3>3 DEF Fills
    <3> QED BY <3>3, <3>4, <2>6 DEF r
  <2> QED BY <2>5, <2>6
<1> QED BY <1>3, <1>4

LEMMA FramesOn ==
  ASSUME Sized, NEW f \in Flashes, NEW g \in Flashes, NEW h \in Flashes, Frames(f, g), Frames(g, h)
  PROVE  Frames(f, h)
BY FramesTrans DEF Frames

LEMMA FillsFlash ==
  ASSUME NEW d, NEW f, NEW W, Fills(d, f, W)
  PROVE  d.c.flash \in Flashes /\ Good(d.c.flash) /\ Sound(d.c, f) /\ d.c \in Runs
BY SoundFacts DEF Fills

LEMMA DefragKeysFill ==
  ASSUME Sized, NEW d, NEW f, NEW W, Fills(d, f, W), NEW p \in Pages,
         d.c.ret = OK => d.c.flash[p].st = "defragging"
  PROVE  LET e == OverSlots(DefragKey, d, p)
         IN  /\ Fills(e, f, W)
             /\ e.c.ret = OK => /\ d.c.ret = OK /\ Frames(d.c.flash, e.c.flash)
                                /\ \A j, k : ~ValidAt(e.c.flash, p, j, k)
<1> DEFINE r == OverSlots(DefragKey, d, p)
           Done(e, n) ==
             /\ Fills(e, f, W)
             /\ e.c.ret = OK => /\ d.c.ret = OK /\ Frames(d.c.flash, e.c.flash)
                                /\ \A j, k : ValidAt(e.c.flash, p, j, k) => j \notin 1 .. n
<1>0. PageCap \in Nat \ {0} BY DEF Sized
<1>1. PICK run : Ran("defragKey", p, d, PageCap, run) /\ run[PageCap] = r
  BY <1>0, OverDefragKey DEF Ended
<1> HIDE DEF r
<1>2. run[0] = d BY <1>1 DEF Ran
<1>3. ASSUME NEW i \in 1 .. PageCap PROVE run[i] = DefragKey(run[i - 1], [p |-> p, i |-> i])
  BY <1>1 DEF Ran, Visit
<1> DEFINE S == {n \in Nat : n <= PageCap => Done(run[n], n)}
<1>4. 0 \in S
  <2>1. d.c.flash \in Flashes BY FillsFlash
  <2>2. Done(d, 0) BY <2>1, FramesRefl DEF Frames
  <2> HIDE DEF Done
  <2> QED BY <1>2, <2>2
<1>5. ASSUME NEW n \in Nat, n \in S PROVE n + 1 \in S
  <2> SUFFICES ASSUME n + 1 <= PageCap PROVE Done(run[n + 1], n + 1)
    <3> HIDE DEF Done
    <3> QED OBVIOUS
  <2> DEFINE e == run[n]
             h == run[n + 1]
  <2>1. Done(e, n)
    <3> HIDE DEF Done
    <3> QED BY <1>0, <1>5
  <2>2. n + 1 \in 1 .. PageCap /\ (n + 1) - 1 = n BY <1>0
  <2>3. h = DefragKey(e, [p |-> p, i |-> n + 1]) BY <1>3, <2>2
  <2> HIDE DEF e, h
  <2>4. e.c.ret = OK => e.c.flash[p].st = "defragging"
    BY <2>1 DEF Frames, Stays, StaysAt
  <2>5. /\ Fills(h, f, W)
        /\ h.c.ret = OK => /\ e.c.ret = OK /\ Frames(e.c.flash, h.c.flash)
                           /\ Emptier(e.c.flash, h.c.flash, p, n + 1)
    BY <2>1, <2>2, <2>3, <2>4, DefragKeyFills
  <2>6. ASSUME h.c.ret = OK
        PROVE  /\ d.c.ret = OK /\ Frames(d.c.flash, h.c.flash)
               /\ \A j, k : ValidAt(h.c.flash, p, j, k) => j \notin 1 .. n + 1
    <3>1. /\ e.c.ret = OK /\ Frames(e.c.flash, h.c.flash) /\ Frames(d.c.flash, e.c.flash)
          /\ Emptier(e.c.flash, h.c.flash, p, n + 1) /\ d.c.ret = OK
      BY <2>1, <2>5, <2>6
    <3>2. d.c.flash \in Flashes /\ e.c.flash \in Flashes /\ h.c.flash \in Flashes
      BY <2>1, <2>5, FillsFlash
    <3>3. \A j, k : ValidAt(h.c.flash, p, j, k) => j \notin 1 .. n /\ j # n + 1
      BY <2>1, <3>1 DEF Emptier
    <3>4. \A j : j \notin 1 .. n /\ j # n + 1 => j \notin 1 .. n + 1 OBVIOUS
    <3> QED BY <3>1, <3>2, <3>3, <3>4, FramesOn
  <2> QED BY <2>5, <2>6 DEF h
<1> HIDE DEF S
<1>6. PageCap \in S
  <2>1. \A n \in Nat : n \in S BY <1>4, <1>5, Inductive
  <2> QED BY <1>0, <2>1
<1>7. Done(r, PageCap)
  <2> HIDE DEF Done
  <2> QED BY <1>0, <1>1, <1>6 DEF S
<1>8. ASSUME r.c.ret = OK, NEW j, NEW k, ValidAt(r.c.flash, p, j, k) PROVE FALSE
  <2>1. r.c.flash \in Flashes BY <1>7, FillsFlash
  <2>2. j \in Nat \ {0} /\ j <= PageCap BY <1>8, <2>1, ThereFacts DEF ValidAt
  <2> QED BY <1>0, <1>7, <1>8, <2>2
<1> QED BY <1>7, <1>8 DEF r
\* A page that is to be emptied is marked first.
LEMMA DefragPageBegins ==
  ASSUME Sized, NEW d, NEW f, NEW W, NEW p \in Pages, p \notin W, Fills(d, f, W \cup {p})
  PROVE  LET c == SetPageState(d.c, p, "defragging")
             e == [d EXCEPT !.c = c]
         IN  /\ Fills(e, f, W) /\ e.c = c
             /\ e.c.ret = OK => d.c.ret = OK /\ e.c.flash[p].st = "defragging"
             /\ d.c.ret = OK =>
                  /\ Sound(c, f) /\ c.ret = OK /\ c.flash[p].st = "defragging"
                  /\ OnlyPage(d.c.flash, c.flash, p) /\ d.c.flash[p].st = "using"
                  /\ SameReads(d.c.flash, c.flash) /\ Tidy(d.c.flash, c.flash)
<1> DEFINE c1 == SetPageState(d.c, p, "defragging")
           d1 == [d EXCEPT !.c = c1]
           g == d.c.flash
<1>1. /\ d \in DefragRuns /\ Sound(d.c, f) /\ d.c.ret \in {OK, "assert"} /\ g \in Flashes
      /\ d = [c |-> d.c, empty |-> d.empty, index |-> d.index, slot |-> d.slot]
      /\ d.empty \in Seq(Pages) /\ d.index \in Nat /\ d.slot \in Nat
  BY SoundFacts DEF Fills, DefragRuns
<1>2. d1 = [c |-> c1, empty |-> d.empty, index |-> d.index, slot |-> d.slot]
  <2> HIDE DEF c1
  <2> QED BY <1>1
<1> HIDE DEF d1
<1>3. ASSUME d.c.ret = OK
      PROVE  /\ Sound(c1, f) /\ c1.ret = OK /\ c1.flash[p].st = "defragging"
             /\ OnlyPage(g, c1.flash, p) /\ Line(d1, W) /\ g[p].st = "using"
             /\ SameReads(g, c1.flash) /\ Tidy(g, c1.flash)
  <2>1. Line(d, W \cup {p}) BY <1>3 DEF Fills
  <2>2. g[p].st = "using" BY <2>1 DEF Line
  <2>3. /\ Sound(c1, f) /\ c1.ret = OK /\ OnlyPage(g, c1.flash, p) /\ c1.flash[p].kv = g[p].kv
        /\ c1.flash[p].st = "defragging"
    <3>1. /\ d.c.flash[p].st # "erased"
          /\ "defragging" = "using" /\ d.c.flash[p].st = "empty" =>
               \E q \in Pages : q # p /\ d.c.flash[q].st \in Spares
      BY <2>2
    <3>2. LET r == SetPageState(d.c, p, "defragging")
          IN  /\ Sound(r, f) /\ r.ret = OK /\ OnlyPage(d.c.flash, r.flash, p)
              /\ r.flash[p].kv = d.c.flash[p].kv
              /\ r.flash[p].st = IF d.c.flash[p].st = "defragging" THEN "defragging" ELSE "defragging"
      BY SMTT(20), <1>1, <1>3, <3>1, SetUsing
    <3> QED BY <3>2
  <2> HIDE DEF c1
  <2>4. Line(d1, W)
    <3> DEFINE q == d.empty[d.index]
    <3>1. q \in Pages /\ q # p /\ q \notin W BY <2>1 DEF Line
    <3>2. c1.flash[q] = g[q] BY Zenon, <2>3, <3>1 DEF OnlyPage
    <3>3. /\ d.index \in 1 .. Len(d.empty) /\ d.slot \in 1 .. PageCap + 1
          /\ g[q].st \in {"empty", "using"} /\ Len(g[q].kv) = d.slot - 1
          /\ \A m, n \in 1 .. Len(d.empty) :
               m >= d.index /\ n >= d.index /\ d.empty[m] = d.empty[n] => m = n
      BY <2>1 DEF Line
    <3>4. ASSUME NEW m \in 1 .. Len(d.empty), m > d.index PROVE c1.flash[d.empty[m]].st = "empty"
      <4>1. g[d.empty[m]].st = "empty" BY <2>1, <3>4 DEF Line
      <4>2. d.empty[m] \in Pages /\ d.empty[m] # p BY <1>1, <2>2, <4>1
      <4> QED BY <2>3, <4>1, <4>2 DEF OnlyPage
    <3>5. ASSUME NEW w \in W PROVE w \in Pages /\ c1.flash[w].st = "using"
      <4>1. w \in Pages /\ g[w].st = "using" /\ w # p BY <2>1 DEF Line
      <4> QED BY <2>3, <4>1 DEF OnlyPage
    <3> HIDE DEF g
    <3>6. q \in Pages /\ q \notin W /\ c1.flash[q].st \in {"empty", "using"}
          /\ Len(c1.flash[q].kv) = d.slot - 1
      BY <3>1, <3>2, <3>3
    <3> QED BY <1>2, <3>3, <3>4, <3>5, <3>6 DEF Line
  <2>5. SameReads(g, c1.flash) /\ Tidy(g, c1.flash) BY <2>3, PageFrames
  <2> QED BY <2>2, <2>3, <2>4, <2>5
<1>4. /\ Fills(d1, f, W) /\ d1.c = c1
      /\ d1.c.ret = OK => d.c.ret = OK /\ d1.c.flash[p].st = "defragging"
  <2>1. CASE d.c.ret = OK
    <3>1. Sound(c1, f) /\ c1.ret = OK /\ c1.flash[p].st = "defragging" /\ Line(d1, W) BY <1>3, <2>1
    <3>2. c1 \in Runs BY <3>1 DEF Sound
    <3> HIDE DEF c1
    <3>3. d1 \in DefragRuns /\ d1.c = c1 BY <1>1, <1>2, <3>2 DEF DefragRuns
    <3> QED BY <2>1, <3>1, <3>3 DEF Fills
  <2>2. CASE d.c.ret # OK
    <3>1. c1 = d.c BY <2>2, Stuck
    <3> HIDE DEF c1
    <3>2. d1 = d BY <1>1, <1>2, <3>1
    <3> QED BY <1>1, <2>2, <3>1, <3>2 DEF Fills
  <2> QED BY <2>1, <2>2
<1> HIDE DEF c1, g
<1> QED BY <1>3, <1>4 DEF c1, d1, g

LEMMA DefragPageFills ==
  ASSUME Sized, NEW d, NEW f, NEW W, NEW p \in Pages, p \notin W, Fills(d, f, W \cup {p})
  PROVE  LET e == DefragPage(d, p)
         IN  /\ Fills(e, f, W)
             /\ e.c.ret = OK => d.c.ret = OK /\ Frames(d.c.flash, e.c.flash)
<1> DEFINE c1 == SetPageState(d.c, p, "defragging")
           d1 == [d EXCEPT !.c = c1]
           moved == OverSlots(DefragKey, d1, p)
           c2 == PageFormat(moved.c, p)
           done == [moved EXCEPT !.c = c2, !.empty = Append(@, p)]
           last == NextEmpty(done)
           g == d.c.flash
<1>0. DefragPage(d, p) = IF done.slot > PageCap THEN last ELSE done BY DEF DefragPage
<1>1. /\ d \in DefragRuns /\ Sound(d.c, f) /\ d.c.ret \in {OK, "assert"} /\ g \in Flashes
      /\ d = [c |-> d.c, empty |-> d.empty, index |-> d.index, slot |-> d.slot]
      /\ d.empty \in Seq(Pages) /\ d.index \in Nat /\ d.slot \in Nat
  BY SoundFacts DEF Fills, DefragRuns
<1>2. d1 = [c |-> c1, empty |-> d.empty, index |-> d.index, slot |-> d.slot]
  <2> HIDE DEF c1
  <2> QED BY <1>1
<1> HIDE DEF d1
<1>3. ASSUME d.c.ret = OK
      PROVE  /\ Sound(c1, f) /\ c1.ret = OK /\ c1.flash[p].st = "defragging"
             /\ OnlyPage(g, c1.flash, p) /\ g[p].st = "using"
             /\ SameReads(g, c1.flash) /\ Tidy(g, c1.flash)
  BY <1>3, DefragPageBegins
<1>4. /\ Fills(d1, f, W) /\ d1.c = c1
      /\ d1.c.ret = OK => d.c.ret = OK /\ d1.c.flash[p].st = "defragging"
  BY DefragPageBegins DEF d1
<1>5. /\ Fills(moved, f, W)
      /\ moved.c.ret = OK => /\ c1.ret = OK /\ d.c.ret = OK /\ Frames(c1.flash, moved.c.flash)
                             /\ \A j, k : ~ValidAt(moved.c.flash, p, j, k)
                             /\ c1.flash[p].st = "defragging"
  <2> HIDE DEF c1
  <2> QED BY <1>4, DefragKeysFill
<1> HIDE DEF moved
<1>6. /\ moved \in DefragRuns /\ Sound(moved.c, f) /\ moved.c.ret \in {OK, "assert"}
      /\ moved = [c |-> moved.c, empty |-> moved.empty, index |-> moved.index, slot |-> moved.slot]
      /\ moved.empty \in Seq(Pages) /\ moved.index \in Nat /\ moved.slot \in Nat
      /\ Len(moved.empty) \in Nat
  BY <1>5 DEF Fills, DefragRuns
<1>7. /\ Sound(c2, f) /\ c2.ret = moved.c.ret
      /\ c2.ret = OK => /\ OnlyPage(moved.c.flash, c2.flash, p)
                        /\ c2.flash[p].st = "empty" /\ c2.flash[p].kv = <<>>
  <2>1. CASE moved.c.ret = OK BY <1>6, <2>1, FormatSound
  <2>2. CASE moved.c.ret # OK
    <3>1. c2 = moved.c BY <2>2, Stuck
    <3> QED BY <1>6, <2>2, <3>1
  <2> QED BY <2>1, <2>2
<1> HIDE DEF c2
<1>8. c2 \in Runs /\ c2.flash \in Flashes BY <1>7, SoundFacts
<1> DEFINE l == Append(moved.empty, p)
<1>9. done = [c |-> c2, empty |-> l, index |-> moved.index, slot |-> moved.slot]
  <2>1. done = [moved EXCEPT !.c = c2, !.empty = Append(moved.empty, p)] OBVIOUS
  <2> HIDE DEF l, done
  <2> QED BY <1>6, <2>1 DEF l
<1> HIDE DEF done
<1>10. /\ l \in Seq(Pages) /\ Len(l) = Len(moved.empty) + 1 /\ l[Len(l)] = p
       /\ \A m \in 1 .. Len(moved.empty) : l[m] = moved.empty[m]
  BY <1>6
<1> HIDE DEF l
<1>11. ASSUME c2.ret = OK
       PROVE  Line(done, W) /\ moved.index < Len(l) /\ Frames(g, c2.flash)
  <2> DEFINE h == moved.c.flash
             q == moved.empty[moved.index]
  <2>1. /\ Line(moved, W) /\ Frames(c1.flash, h) /\ d.c.ret = OK /\ c1.ret = OK
        /\ c1.flash[p].st = "defragging" /\ \A j, k : ~ValidAt(h, p, j, k)
    BY <1>5, <1>7, <1>11 DEF Fills
  <2>2. /\ Sound(c1, f) /\ OnlyPage(g, c1.flash, p) /\ SameReads(g, c1.flash) /\ Tidy(g, c1.flash)
        /\ g[p].st = "using"
    BY <1>3, <2>1
  <2> HIDE DEF c1
  <2>3. h \in Flashes /\ c1.flash \in Flashes BY <1>6, <2>2, SoundFacts
  <2>4. h[p].st = "defragging" BY <2>1 DEF Frames, Stays, StaysAt
  <2>5. OnlyPage(h, c2.flash, p) /\ c2.flash[p].st = "empty" /\ c2.flash[p].kv = <<>>
    BY <1>7, <1>11
  <2>6. Frames(g, c2.flash)
    <3>1. SameReads(h, c2.flash) /\ Tidy(h, c2.flash) BY <2>1, <2>5, PageFrames
    <3>2. SameReads(g, c2.flash) /\ Tidy(g, c2.flash)
      <4>1. SameReads(g, h) /\ Tidy(g, h) BY <1>1, <2>1, <2>2, <2>3, FramesTrans DEF Frames
      <4> QED BY <1>1, <1>8, <2>3, <3>1, <4>1, FramesTrans
    <3>3. ASSUME NEW x \in Pages PROVE StaysAt(g, c2.flash, x)
      <4>1. CASE x = p BY <4>1, <2>2, <2>5 DEF StaysAt
      <4>2. CASE x # p
        <5>1. StaysAt(c1.flash, h, x) BY <2>1 DEF Frames, Stays
        <5>2. g[x] = c1.flash[x] /\ h[x] = c2.flash[x] BY Zenon, <4>2, <2>2, <2>5 DEF OnlyPage
        <5> HIDE DEF g, h
        <5> QED BY <5>1, <5>2 DEF StaysAt
      <4> QED BY <4>1, <4>2
    <3> QED BY <3>2, <3>3 DEF Frames, Stays
  <2>7. /\ moved.index \in 1 .. Len(moved.empty) /\ moved.slot \in 1 .. PageCap + 1
        /\ q \in Pages /\ q \notin W /\ h[q].st \in {"empty", "using"}
        /\ Len(h[q].kv) = moved.slot - 1
        /\ \A m \in 1 .. Len(moved.empty) : m > moved.index => h[moved.empty[m]].st = "empty"
        /\ \A m, n \in 1 .. Len(moved.empty) :
             m >= moved.index /\ n >= moved.index /\ moved.empty[m] = moved.empty[n] => m = n
        /\ \A w \in W : w \in Pages /\ h[w].st = "using"
    BY <2>1 DEF Line
  <2>8. moved.index \in 1 .. Len(l) /\ moved.index < Len(l) /\ l[moved.index] = q
    BY <1>6, <1>10, <2>7
  <2>9. q # p /\ c2.flash[q] = h[q] BY Zenon, <2>4, <2>5, <2>7 DEF OnlyPage
  <2>10. \A m \in 1 .. Len(l) :
           \/ m = Len(l) /\ l[m] = p
           \/ m \in 1 .. Len(moved.empty) /\ l[m] = moved.empty[m] /\ l[m] \in Pages
    BY <1>6, <1>10
  <2>11. ASSUME NEW m \in 1 .. Len(moved.empty), m >= moved.index PROVE moved.empty[m] # p
    <3>1. CASE m = moved.index BY Zenon, <3>1, <2>9
    <3>2. CASE m > moved.index BY <3>2, <2>4, <2>7
    <3> QED BY <3>1, <3>2, <2>11, <2>7
  <2>12. ASSUME NEW m \in 1 .. Len(l), m > moved.index PROVE c2.flash[l[m]].st = "empty"
    <3>1. CASE m = Len(l) /\ l[m] = p BY <3>1, <2>5
    <3>2. CASE m \in 1 .. Len(moved.empty) /\ l[m] = moved.empty[m] /\ l[m] \in Pages
      <4>1. m >= moved.index BY <2>12, <2>7
      <4>2. l[m] # p /\ h[l[m]].st = "empty" BY <3>2, <4>1, <2>7, <2>11, <2>12
      <4> QED BY <3>2, <4>2, <2>5 DEF OnlyPage
    <3> QED BY <3>1, <3>2, <2>10
  <2>13. ASSUME NEW m \in 1 .. Len(l), NEW n \in 1 .. Len(l), m >= moved.index, n >= moved.index,
                l[m] = l[n]
         PROVE  m = n
    <3>1. CASE m \in 1 .. Len(moved.empty) /\ n \in 1 .. Len(moved.empty)
      <4>1. moved.empty[m] = moved.empty[n] BY <3>1, <1>10, <2>13
      <4> QED BY <3>1, <4>1, <2>7, <2>13
    <3>2. CASE m = Len(l) /\ l[m] = p
      <4>1. \/ n = Len(l)
            \/ n \in 1 .. Len(moved.empty) /\ l[n] = moved.empty[n]
        BY <2>10
      <4> QED BY <3>2, <4>1, <2>11, <2>13
    <3>3. CASE n = Len(l) /\ l[n] = p
      <4>1. \/ m = Len(l)
            \/ m \in 1 .. Len(moved.empty) /\ l[m] = moved.empty[m]
        BY <2>10
      <4> QED BY <3>3, <4>1, <2>11, <2>13
    <3> QED BY <3>1, <3>2, <3>3, <2>10
  <2>14. ASSUME NEW w \in W PROVE w \in Pages /\ c2.flash[w].st = "using"
    <3>1. w \in Pages /\ h[w].st = "using" /\ w # p BY <2>4, <2>7
    <3> QED BY <3>1, <2>5 DEF OnlyPage
  <2>15. Line(done, W)
    <3> HIDE DEF h, q
    <3> QED BY <1>9, <2>7, <2>8, <2>9, <2>12, <2>13, <2>14 DEF Line
  <2> QED BY <2>6, <2>8, <2>15
<1>12. done \in DefragRuns /\ done.c = c2
  BY <1>6, <1>8, <1>9, <1>10 DEF DefragRuns
<1>13. Fills(done, f, W) BY <1>6, <1>7, <1>11, <1>12 DEF Fills
<1>14. ASSUME c2.ret = OK PROVE d.c.ret = OK BY <1>5, <1>7, <1>14
<1>15. /\ Fills(last, f, W) /\ last.c.flash = c2.flash /\ (last.c.ret = OK => c2.ret = OK)
  BY <1>12, <1>13, NextEmptyFills
<1> HIDE DEF last, g
<1> QED BY <1>0, <1>11, <1>12, <1>13, <1>14, <1>15 DEF g

-----------------------------------------------------------------------------
(* Compaction has pages enough: what it has emptied is ahead of what it has *)
(* filled.  When n pages are done and i places of the next one are visited, *)
(* no more than n pages and i entries have been written.                    *)

Ahead(d, n, i) ==
  /\ d.c.ret = OK /\ Len(d.empty) >= n + 1
  /\ d.index <= n + 1 /\ (d.index = n + 1 => d.slot <= i + 1)

LEMMA DefragKeyAhead ==
  ASSUME Sized, NEW d, NEW f, NEW W, Fills(d, f, W), NEW p \in Pages, NEW i \in 1 .. PageCap,
         d.c.flash[p].st = "defragging", NEW n \in Nat, Ahead(d, n, i - 1)
  PROVE  Ahead(DefragKey(d, [p |-> p, i |-> i]), n, i)
<1> DEFINE a == [p |-> p, i |-> i]
           g == d.c.flash
           k == g[p].kv[i].key
           r == DefragKey(d, a)
           e == IF d.slot <= PageCap THEN d ELSE NextEmpty(d)
           m == MoveKey(e.c, [p |-> e.empty[e.index], i |-> e.slot], a)
<1>1. /\ d \in DefragRuns /\ Sound(d.c, f) /\ PageCap \in Nat \ {0} /\ d.c.ret = OK
      /\ d.slot \in Nat /\ d.index \in Nat /\ Len(d.empty) \in Nat
  BY DEF Fills, DefragRuns, Sized, Ahead
<1>2. g \in Flashes /\ Good(g) BY <1>1, SoundFacts
<1>3. CASE i > Len(g[p].kv) \/ g[p].kv[i].st # "valid"
  <2>1. r = d BY <1>1, <1>3 DEF DefragKey, Entry, OK
  <2>2. Ahead(d, n, i) BY <1>1 DEF Ahead
  <2> QED BY <2>1, <2>2
<1>4. CASE ~(i > Len(g[p].kv)) /\ g[p].kv[i].st = "valid"
  <2>1. r = [e EXCEPT !.c = m, !.slot = @ + 1] BY <1>1, <1>4 DEF DefragKey, Entry, OK
  <2>2. ValidAt(g, p, i, k)
    <3>1. Len(g[p].kv) \in Nat BY <1>2, FlashFacts
    <3> QED BY <1>4, <3>1 DEF ValidAt, There
  <2> HIDE DEF k
  <2>3. /\ Fills(e, f, W) /\ e.c.flash = g /\ e.c.ret = OK /\ e.slot <= PageCap
        /\ Len(e.empty) >= n + 1 /\ e.index <= n + 1 /\ (e.index = n + 1 => e.slot <= i)
    <3>1. CASE d.slot <= PageCap BY <1>1, <3>1 DEF Ahead
    <3>2. CASE ~(d.slot <= PageCap)
      <4>1. d.index <= n /\ d.index < Len(d.empty) BY <1>1, <3>2 DEF Ahead
      <4>2. e = [d EXCEPT !.index = @ + 1, !.slot = 1] BY <3>2, <4>1 DEF NextEmpty
      <4>3. e.index = d.index + 1 /\ e.slot = 1 /\ e.empty = d.empty BY <1>1, <4>2 DEF DefragRuns
      <4>4. Fills(e, f, W) /\ e.c.flash = g /\ e.c.ret = OK BY <1>1, <3>2, <4>1, NextEmptyFills
      <4> HIDE DEF e
      <4> QED BY <1>1, <4>1, <4>3, <4>4 DEF Ahead
    <3> QED BY <3>1, <3>2
  <2> HIDE DEF e
  <2>4. /\ e \in DefragRuns /\ e.slot \in Nat
        /\ e = [c |-> e.c, empty |-> e.empty, index |-> e.index, slot |-> e.slot]
    BY <2>3 DEF Fills, DefragRuns
  <2>5. r.c.ret = OK
    <3>1. ValidAt(e.c.flash, p, i, k) /\ e.c.flash[p].st = "defragging" BY <2>2, <2>3
    <3> HIDE DEF r
    <3> QED BY Zenon, <2>1, <2>3, <3>1, MoveFills
  <2> HIDE DEF m, r
  <2>6. r.empty = e.empty /\ r.index = e.index /\ r.slot = e.slot + 1 BY <2>1, <2>4
  <2> QED BY <2>3, <2>4, <2>5, <2>6 DEF Ahead, r
<1> QED BY <1>3, <1>4

LEMMA DefragKeysAhead ==
  ASSUME Sized, NEW d, NEW f, NEW W, Fills(d, f, W), NEW p \in Pages,
         d.c.flash[p].st = "defragging", NEW n \in Nat, Ahead(d, n, 0)
  PROVE  Ahead(OverSlots(DefragKey, d, p), n, PageCap)
<1> DEFINE r == OverSlots(DefragKey, d, p)
           Done(e, i) == /\ Fills(e, f, W) /\ Ahead(e, n, i)
                         /\ e.c.flash[p].st = "defragging"
<1>0. PageCap \in Nat \ {0} BY DEF Sized
<1>1. PICK run : Ran("defragKey", p, d, PageCap, run) /\ run[PageCap] = r
  BY <1>0, OverDefragKey DEF Ended
<1> HIDE DEF r
<1>2. run[0] = d BY <1>1 DEF Ran
<1>3. ASSUME NEW i \in 1 .. PageCap PROVE run[i] = DefragKey(run[i - 1], [p |-> p, i |-> i])
  BY <1>1 DEF Ran, Visit
<1> DEFINE S == {i \in Nat : i <= PageCap => Done(run[i], i)}
<1>4. 0 \in S BY <1>2
<1>5. ASSUME NEW i \in Nat, i \in S PROVE i + 1 \in S
  <2> SUFFICES ASSUME i + 1 <= PageCap PROVE Done(run[i + 1], i + 1)
    <3> HIDE DEF Done
    <3> QED OBVIOUS
  <2> DEFINE e == run[i]
             h == run[i + 1]
  <2>1. Done(e, i)
    <3> HIDE DEF Done
    <3> QED BY <1>0, <1>5
  <2>2. i + 1 \in 1 .. PageCap /\ (i + 1) - 1 = i BY <1>0
  <2>3. h = DefragKey(e, [p |-> p, i |-> i + 1]) BY <1>3, <2>2
  <2> HIDE DEF e, h
  <2>4. Ahead(e, n, (i + 1) - 1) BY <2>1, <2>2
  <2>5. Ahead(h, n, i + 1) BY <2>1, <2>2, <2>3, <2>4, DefragKeyAhead
  <2>6. Fills(h, f, W) /\ Frames(e.c.flash, h.c.flash)
    <3>1. h.c.ret = OK BY <2>5 DEF Ahead
    <3> QED BY <2>1, <2>2, <2>3, <3>1, DefragKeyFills
  <2>7. h.c.flash[p].st = "defragging" BY <2>1, <2>6 DEF Frames, Stays, StaysAt
  <2> QED BY <2>5, <2>6, <2>7 DEF h
<1> HIDE DEF S
<1>6. PageCap \in S
  <2>1. \A i \in Nat : i \in S BY <1>4, <1>5, Inductive
  <2> QED BY <1>0, <2>1
<1>7. Done(r, PageCap)
  <2> HIDE DEF Done
  <2> QED BY <1>0, <1>1, <1>6 DEF S
<1> QED BY <1>7 DEF r

LEMMA DefragPageAhead ==
  ASSUME Sized, NEW d, NEW f, NEW W, NEW p \in Pages, p \notin W, Fills(d, f, W \cup {p}),
         NEW n \in Nat, Ahead(d, n, 0)
  PROVE  Ahead(DefragPage(d, p), n + 1, 0)
<1> DEFINE c1 == SetPageState(d.c, p, "defragging")
           d1 == [d EXCEPT !.c = c1]
           moved == OverSlots(DefragKey, d1, p)
           c2 == PageFormat(moved.c, p)
           done == [moved EXCEPT !.c = c2, !.empty = Append(@, p)]
           last == NextEmpty(done)
           e == DefragPage(d, p)
<1>0. e = IF done.slot > PageCap THEN last ELSE done BY DEF DefragPage
<1>1. /\ d \in DefragRuns /\ Sound(d.c, f) /\ d.c.ret = OK
      /\ d = [c |-> d.c, empty |-> d.empty, index |-> d.index, slot |-> d.slot]
  BY DEF Fills, DefragRuns, Ahead
<1>2. d1 = [c |-> c1, empty |-> d.empty, index |-> d.index, slot |-> d.slot]
  <2> HIDE DEF c1
  <2> QED BY <1>1
<1>3. Fills(d1, f, W) /\ d1.c = c1 /\ c1.ret = OK /\ c1.flash[p].st = "defragging"
  <2>1. Fills(d1, f, W) /\ d1.c = c1 BY ZenonT(60), DefragPageBegins
  <2>2. d.c.ret = OK => c1.ret = OK /\ c1.flash[p].st = "defragging"
    BY ZenonT(60), DefragPageBegins
  <2> HIDE DEF c1, d1
  <2> QED BY <1>1, <2>1, <2>2
<1> HIDE DEF c1, d1
<1>4. Ahead(d1, n, 0) BY <1>2, <1>3 DEF Ahead
<1>5. Ahead(moved, n, PageCap) BY <1>3, <1>4, DefragKeysAhead
<1>6. Fills(moved, f, W) BY <1>3, DefragKeysFill
<1> HIDE DEF moved
<1>7. /\ moved = [c |-> moved.c, empty |-> moved.empty, index |-> moved.index, slot |-> moved.slot]
      /\ moved.empty \in Seq(Pages) /\ moved.index \in Nat /\ moved.slot \in Nat
      /\ Sound(moved.c, f) /\ moved.c.ret = OK /\ Len(moved.empty) \in Nat
  BY <1>5, <1>6 DEF Fills, DefragRuns, Ahead
<1>8. c2.ret = OK BY <1>7, FormatSound
<1> HIDE DEF c2
<1> DEFINE l == Append(moved.empty, p)
<1>9. done = [c |-> c2, empty |-> l, index |-> moved.index, slot |-> moved.slot]
  <2>1. done = [moved EXCEPT !.c = c2, !.empty = Append(moved.empty, p)] OBVIOUS
  <2> HIDE DEF l, done
  <2> QED BY <1>7, <2>1 DEF l
<1> HIDE DEF done
<1>10. Len(l) = Len(moved.empty) + 1 BY <1>7
<1> HIDE DEF l
<1>11. Len(l) \in Nat /\ Len(l) >= (n + 1) + 1 /\ moved.index <= n + 1 BY <1>5, <1>7, <1>10 DEF Ahead
<1>12. Ahead(done, n + 1, 0) BY <1>7, <1>8, <1>9, <1>11 DEF Ahead
<1>13. Ahead(last, n + 1, 0)
  <2>1. done.index < Len(done.empty) BY <1>7, <1>9, <1>11
  <2>2. last = [done EXCEPT !.index = @ + 1, !.slot = 1] BY <2>1 DEF NextEmpty
  <2>3. last = [c |-> c2, empty |-> l, index |-> moved.index + 1, slot |-> 1] BY <1>9, <2>2
  <2> HIDE DEF last
  <2> QED BY <1>7, <1>8, <1>11, <2>3 DEF Ahead
<1> HIDE DEF e, last
<1> QED BY <1>0, <1>12, <1>13 DEF e

\* key_value_defrag keeps every key and its value, and leaves no entry behind
\* that recovery would have to deal with.
LEMMA DefragSound ==
  ASSUME Sized, NEW c, NEW f, Sound(c, f), c.ret = OK
  PROVE  LET e == Defrag(c)
         IN  /\ Sound(e, f) /\ e.ret \in {OK, "assert"}
             /\ e.ret = OK => Frames(c.flash, e.flash)
             /\ (\E p \in Pages : c.flash[p].st = "empty") => e.ret = OK
<1> DEFINE g == c.flash
           em == PagesIn(g, "empty")
           u == PagesIn(g, "using")
           d0 == DefragInfo(c)
           W(n) == {u[m] : m \in n + 1 .. Len(u)}
           r == FoldLeft(DefragPage, d0, u)
           Done(e, n) == /\ Fills(e, f, W(n))
                         /\ Frames(g, e.c.flash) /\ Ahead(e, n, 0)
<1>1. g \in Flashes /\ Good(g) /\ c \in Runs BY SoundFacts
<1>2. CASE em = <<>>
  <2>1. Defrag(c) = Fail(c, "assert") BY <1>2 DEF Defrag
  <2>2. "assert" \in Rets /\ OK # "assert" BY DEF Rets, OK
  <2>3. /\ Sound(Defrag(c), f) /\ Defrag(c).ret = "assert" BY <2>1, <2>2, SoundFail
  <2>4. \A p \in Pages : g[p].st # "empty" BY <1>2, PagesInFacts
  <2> QED BY <2>2, <2>3, <2>4
<1>3. CASE em # <<>>
  <2>1. Defrag(c) = r.c BY <1>3 DEF Defrag
  <2>2. /\ em \in Seq(Pages) /\ \A m \in 1 .. Len(em) : em[m] \in Pages /\ g[em[m]].st = "empty"
        /\ \A m, n \in 1 .. Len(em) : em[m] = em[n] => m = n
    BY PagesInFacts
  <2>3. /\ u \in Seq(Pages) /\ \A m \in 1 .. Len(u) : u[m] \in Pages /\ g[u[m]].st = "using"
        /\ \A m, n \in 1 .. Len(u) : u[m] = u[n] => m = n
    BY PagesInFacts
  <2>4. d0 = [c |-> c, empty |-> em, index |-> 1, slot |-> 1] BY DEF DefragInfo
  <2>5. Ended("defragPage", u, d0, Len(u), r) BY <2>3, OverDefragPage
  <2> HIDE DEF em, u, d0, r
  <2>6. PICK run : Ran("defragPage", u, d0, Len(u), run) /\ run[Len(u)] = r BY <2>5 DEF Ended
  <2>7. run[0] = d0 BY <2>6 DEF Ran
  <2>8. ASSUME NEW i \in 1 .. Len(u) PROVE run[i] = DefragPage(run[i - 1], u[i])
    BY <2>6 DEF Ran, Visit
  <2>9. Len(em) \in Nat \ {0} /\ Len(u) \in Nat BY <1>3, <2>2, <2>3
  <2> DEFINE S == {n \in Nat : n <= Len(u) => Done(run[n], n)}
  <2>10. 0 \in S
    <3>1. 1 \in 1 .. Len(em) /\ em[1] \in Pages /\ g[em[1]].st = "empty" BY <2>2, <2>9
    <3>2. g[em[1]].kv = <<>> /\ Len(<<>>) = 0 BY <1>1, <3>1 DEF Good, Blanks
    <3>3. \A w \in W(0) : w \in Pages /\ g[w].st = "using" BY <2>3
    <3>4. em[1] \notin W(0) BY <3>1, <3>3
    <3> HIDE DEF W, g
    <3>5. 1 \in 1 .. PageCap + 1 /\ 1 - 1 = 0 BY DEF Sized
    <3>6. Line(d0, W(0)) BY <2>2, <2>4, <3>1, <3>2, <3>3, <3>4, <3>5 DEF Line, g
    <3>7. d0 \in DefragRuns BY <1>1, <2>2, <2>4 DEF DefragRuns
    <3>8. Fills(d0, f, W(0)) BY <2>4, <3>6, <3>7 DEF Fills
    <3>9. d0.c.flash = g BY <2>4 DEF g
    <3>10. Frames(g, g) BY <1>1, FramesRefl DEF Frames
    <3>11. Ahead(d0, 0, 0) BY <2>4, <2>9 DEF Ahead
    <3>12. Done(d0, 0) BY <3>8, <3>9, <3>10, <3>11
    <3> HIDE DEF Done
    <3> QED BY <2>7, <3>12
  <2>11. ASSUME NEW n \in Nat, n \in S PROVE n + 1 \in S
    <3> SUFFICES ASSUME n + 1 <= Len(u) PROVE Done(run[n + 1], n + 1)
      <4> HIDE DEF Done
      <4> QED OBVIOUS
    <3> DEFINE e == run[n]
               h == run[n + 1]
               p == u[n + 1]
    <3>1. Done(e, n)
      <4> HIDE DEF Done
      <4> QED BY <2>9, <2>11
    <3>2. n + 1 \in 1 .. Len(u) /\ (n + 1) - 1 = n BY <2>9
    <3>3. h = DefragPage(e, p) BY <2>8, <3>2
    <3>4. p \in Pages /\ p \notin W(n + 1) /\ W(n) = W(n + 1) \cup {p}
      <4>1. \A m \in (n + 1) + 1 .. Len(u) : m \in 1 .. Len(u) /\ m # n + 1 BY <2>9
      <4>2. p \notin W(n + 1) BY <2>3, <3>2, <4>1
      <4>3. \A m : m \in n + 1 .. Len(u) <=> m = n + 1 \/ m \in (n + 1) + 1 .. Len(u)
        BY <2>9, <3>2
      <4>4. W(n) = W(n + 1) \cup {p} BY <4>3
      <4> QED BY <2>3, <3>2, <4>2, <4>4
    <3> HIDE DEF e, h, p, W
    <3>5. Fills(e, f, W(n + 1) \cup {p}) BY <3>1, <3>4
    <3>6. Fills(h, f, W(n + 1)) /\ (h.c.ret = OK => Frames(e.c.flash, h.c.flash))
      BY <3>3, <3>4, <3>5, DefragPageFills
    <3>7. Ahead(h, n + 1, 0) /\ h.c.ret = OK
      <4>1. Ahead(h, n + 1, 0) BY <3>1, <3>3, <3>4, <3>5, DefragPageAhead
      <4> QED BY <4>1 DEF Ahead
    <3>8. e.c.flash \in Flashes /\ h.c.flash \in Flashes BY <3>1, <3>6, FillsFlash
    <3>9. Frames(g, h.c.flash) BY <1>1, <3>1, <3>6, <3>7, <3>8, FramesOn
    <3> QED BY <3>6, <3>7, <3>9 DEF h
  <2> HIDE DEF S
  <2>12. Len(u) \in S
    <3>1. \A n \in Nat : n \in S BY <2>10, <2>11, Inductive
    <3> QED BY <2>9, <3>1
  <2>13. Done(r, Len(u))
    <3> HIDE DEF Done
    <3> QED BY <2>6, <2>9, <2>12 DEF S
  <2>14. Sound(r.c, f) /\ r.c.ret = OK BY <2>13 DEF Fills, Ahead
  <2> QED BY <2>1, <2>13, <2>14
<1> QED BY <1>2, <1>3
-----------------------------------------------------------------------------
(* Allocation, and the two writes of the interface. *)

NoErased(f) == \A p \in Pages : f[p].st # "erased"
NoneUnderway(f) == \A p \in Pages : f[p].st # "defragging"

LEMMA StaysNone ==
  ASSUME NEW f, NEW g, Stays(f, g)
  PROVE  (NoErased(f) => NoErased(g)) /\ (NoneUnderway(f) => NoneUnderway(g))
BY DEF Stays, StaysAt, NoErased, NoneUnderway

LEMMA SpareIsEmpty ==
  ASSUME NEW f, Good(f), NoErased(f), NoneUnderway(f)
  PROVE  \E p \in Pages : f[p].st = "empty"
<1>1. PICK p \in Pages : f[p].st \in Spares BY DEF Good, Spare
<1> QED BY <1>1 DEF NoErased, NoneUnderway, Spares

\* The place behind the last entry of a page, which may be written.
Free(g, a) ==
  /\ a.p \in Pages /\ a.i = Len(g[a.p].kv) + 1 /\ a.i <= PageCap
  /\ g[a.p].st \in {"using", "empty"}
  /\ g[a.p].st = "empty" => \E q \in Pages : q # a.p /\ g[q].st \in Spares

LEMMA FreeFits ==
  ASSUME Sized, NEW g \in Flashes, NEW a, Free(g, a)
  PROVE  \A k : Fits(g, a, k)
<1>1. a.p \in Pages BY DEF Free
<1>2. Len(g[a.p].kv) \in Nat BY <1>1, FlashFacts
<1> QED BY <1>2 DEF Free, Fits

LEMMA AtSound ==
  ASSUME NEW c, NEW f, Sound(c, f), NEW p \in Int, NEW i \in Int
  PROVE  LET d == [c EXCEPT !.at = [p |-> p, i |-> i]]
         IN  /\ Sound(d, f) /\ d.flash = c.flash /\ d.ret = c.ret /\ d.at.p = p /\ d.at.i = i
<1>1. c \in Runs BY DEF Sound
<1> DEFINE d == [c EXCEPT !.at = [p |-> p, i |-> i]]
<1>2. d = [flash |-> c.flash, ws |-> c.ws, at |-> [p |-> p, i |-> i], ret |-> c.ret]
  BY <1>1 DEF Runs
<1> HIDE DEF d
<1>3. d \in Runs BY <1>1, <1>2 DEF Runs
<1> QED BY <1>2, <1>3 DEF Sound, d

\* key_value_alloc_space
LEMMA AllocSound ==
  ASSUME Sized, NEW c, NEW f, Sound(c, f)
  PROVE  LET a == AllocSpace(c)
         IN  /\ Sound(a, f) /\ a.flash = c.flash
             /\ c.ret # OK => a.ret = c.ret
             /\ a.ret = OK => Free(a.flash, a.at)
             /\ c.ret = OK /\ a.ret = "assert" => \A p \in Pages : c.flash[p].st # "empty"
<1> DEFINE g == c.flash
           using == {p \in Pages : g[p].st = "using" /\ HasRoom(g, p)}
           empty == {p \in Pages : g[p].st = "empty"}
           At(p) == [c EXCEPT !.at = NextFree(g, p)]
           r == AllocSpace(c)
<1>0. r = IF using # {} THEN At(Min(using))
          ELSE IF empty = {} THEN Fail(c, "assert")
          ELSE IF Cardinality(empty) > 1 THEN At(Min(empty))
          ELSE Fail(c, "KV_NO_ENOUGH_SPACE")
  BY DEF AllocSpace
<1>1. /\ Good(g) /\ g \in Flashes /\ PageCap \in Nat \ {0}
      /\ OK # "assert" /\ OK # "KV_NO_ENOUGH_SPACE"
  BY SoundFacts DEF Sized, OK
<1>2. ASSUME NEW p \in Pages
      PROVE  /\ Sound(At(p), f) /\ At(p).flash = g /\ At(p).ret = c.ret
             /\ At(p).at.p = p /\ At(p).at.i = Len(g[p].kv) + 1
  <2>1. NextFree(g, p) = [p |-> p, i |-> Len(g[p].kv) + 1] BY DEF NextFree
  <2>2. p \in Int /\ Len(g[p].kv) + 1 \in Int
    <3>1. Len(g[p].kv) \in Nat BY <1>1, FlashFacts
    <3> QED BY <3>1 DEF Pages
  <2> QED BY <2>1, <2>2, AtSound
<1> HIDE DEF At
<1>3. CASE using # {}
  <2> DEFINE p == Min(using)
  <2>1. p \in using
    <3>1. using \in SUBSET Pages OBVIOUS
    <3> HIDE DEF using
    <3> QED BY <1>3, <3>1, MinIn
  <2> HIDE DEF p
  <2>2. p \in Pages /\ g[p].st = "using" /\ Len(g[p].kv) < PageCap BY <2>1 DEF HasRoom
  <2>3. Len(g[p].kv) \in Nat BY <1>1, <2>2, FlashFacts
  <2>4. r = At(p) BY <1>0, <1>3 DEF p
  <2> HIDE DEF r, using, empty
  <2>5. /\ Sound(r, f) /\ r.flash = g /\ r.ret = c.ret /\ r.at.p = p /\ r.at.i = Len(g[p].kv) + 1
    BY <1>2, <2>2, <2>4
  <2>6. Free(g, r.at) BY <1>1, <2>2, <2>3, <2>5 DEF Free
  <2> QED BY <1>1, <2>5, <2>6 DEF r
<1>4. CASE using = {} /\ empty # {} /\ Cardinality(empty) > 1
  <2> DEFINE p == Min(empty)
  <2>1. p \in empty
    <3>1. empty \in SUBSET Pages OBVIOUS
    <3> HIDE DEF empty
    <3> QED BY <1>4, <3>1, MinIn
  <2>2. \E q \in empty : q # p
    <3> SUFFICES ASSUME \A q \in empty : q = p PROVE FALSE OBVIOUS
    <3>1. empty = {p} BY <2>1
    <3>2. Cardinality(empty) = 1 BY <3>1, FS_Singleton
    <3> QED BY <1>4, <3>2
  <2> HIDE DEF p
  <2>3. p \in Pages /\ g[p].st = "empty" /\ \E q \in Pages : q # p /\ g[q].st \in Spares
    BY <2>1, <2>2 DEF Spares
  <2>4. g[p].kv = <<>> /\ Len(<<>>) = 0 BY <1>1, <2>3 DEF Good, Blanks
  <2>5. r = At(p) BY <1>0, <1>4 DEF p
  <2> HIDE DEF r, using, empty
  <2>6. /\ Sound(r, f) /\ r.flash = g /\ r.ret = c.ret /\ r.at.p = p /\ r.at.i = Len(g[p].kv) + 1
    BY <1>2, <2>3, <2>5
  <2>7. Free(g, r.at) BY <1>1, <2>3, <2>4, <2>6 DEF Free
  <2> QED BY <1>1, <2>6, <2>7 DEF r
<1>5. CASE using = {} /\ (empty = {} \/ ~(Cardinality(empty) > 1))
  <2>1. PICK s \in {"assert", "KV_NO_ENOUGH_SPACE"} :
          r = Fail(c, s) /\ (s = "assert" => \A p \in Pages : g[p].st # "empty")
    BY <1>0, <1>5
  <2>2. s \in Rets /\ s # OK BY DEF Rets, OK
  <2> HIDE DEF r, using, empty
  <2>3. Sound(r, f) /\ r.flash = g /\ r.ret = IF c.ret = OK THEN s ELSE c.ret
    BY <2>1, <2>2, SoundFail
  <2> QED BY <2>1, <2>2, <2>3 DEF r
<1> QED BY <1>3, <1>4, <1>5

\* key_value_try_alloc
LEMMA TryAllocSound ==
  ASSUME Sized, NEW c, NEW f, Sound(c, f)
  PROVE  LET a == TryAlloc(c)
         IN  /\ Sound(a, f)
             /\ c.ret # OK => a.ret = c.ret
             /\ a.ret = OK => Free(a.flash, a.at)
             /\ c.ret = OK /\ a.ret # "assert" => Frames(c.flash, a.flash)
             /\ c.ret = OK /\ NoErased(c.flash) /\ NoneUnderway(c.flash) => a.ret # "assert"
<1> DEFINE a == AllocSpace(c)
           e == Defrag(c)
           b == AllocSpace(e)
           r == TryAlloc(c)
<1>1. /\ Sound(a, f) /\ a.flash = c.flash /\ (c.ret # OK => a.ret = c.ret)
      /\ a.ret = OK => Free(a.flash, a.at)
      /\ c.ret = OK /\ a.ret = "assert" => \A p \in Pages : c.flash[p].st # "empty"
  BY AllocSound
<1>2. c.flash \in Flashes /\ Good(c.flash) BY SoundFacts
<1>3. Frames(c.flash, c.flash) BY <1>2, FramesRefl DEF Frames
<1>4. CASE c.ret = OK /\ a.ret = "KV_NO_ENOUGH_SPACE"
  <2>1. r = b BY <1>4 DEF TryAlloc, OK
  <2>2. /\ Sound(e, f) /\ e.ret \in {OK, "assert"} /\ (e.ret = OK => Frames(c.flash, e.flash))
        /\ (\E p \in Pages : c.flash[p].st = "empty") => e.ret = OK
    BY <1>4, DefragSound
  <2> HIDE DEF e
  <2>3. /\ Sound(b, f) /\ b.flash = e.flash /\ (e.ret # OK => b.ret = e.ret)
        /\ b.ret = OK => Free(b.flash, b.at)
        /\ e.ret = OK /\ b.ret = "assert" => \A p \in Pages : e.flash[p].st # "empty"
    BY <2>2, AllocSound
  <2> HIDE DEF b, r
  <2>4. ASSUME NoErased(c.flash), NoneUnderway(c.flash) PROVE b.ret # "assert"
    <3>1. \E p \in Pages : c.flash[p].st = "empty" BY <1>2, <2>4, SpareIsEmpty
    <3>2. e.ret = OK /\ NoErased(e.flash) /\ NoneUnderway(e.flash)
      BY <2>2, <2>4, <3>1, StaysNone DEF Frames
    <3>3. \E p \in Pages : e.flash[p].st = "empty"
      <4>1. Good(e.flash) BY <2>2, SoundFacts
      <4> QED BY <3>2, <4>1, SpareIsEmpty
    <3> QED BY <2>3, <3>2, <3>3
  <2> QED BY <1>4, <2>1, <2>2, <2>3, <2>4 DEF r
<1>5. CASE ~(c.ret = OK /\ a.ret = "KV_NO_ENOUGH_SPACE")
  <2>1. r = a BY <1>5 DEF TryAlloc, OK
  <2> HIDE DEF a, r
  <2>2. NoErased(c.flash) /\ NoneUnderway(c.flash) => \E p \in Pages : c.flash[p].st = "empty"
    BY <1>2, SpareIsEmpty
  <2> QED BY <1>1, <1>3, <2>1, <2>2 DEF r
<1> QED BY <1>4, <1>5

LEMMA WrittenOthers ==
  ASSUME Sized, NEW f \in Flashes, NEW g \in Flashes, NEW a, NEW k, NEW v,
         Written(f, g, a, k, v), a.p \in Pages, a.i = Len(f[a.p].kv) + 1
  PROVE  Others(f, g, a, a) /\ ~There(f, a.p, a.i) /\ Stays(f, g)
<1>1. /\ Len(f[a.p].kv) \in Nat /\ Len(g[a.p].kv) = a.i
      /\ g[a.p].st = IF f[a.p].st = "defragging" THEN "defragging" ELSE "using"
  BY FlashFacts DEF Written
<1>2. ~There(f, a.p, a.i) BY <1>1 DEF There
<1>3. ASSUME NEW p, NEW j, ~(p = a.p /\ j = a.i)
      PROVE  /\ There(g, p, j) <=> There(f, p, j)
             /\ There(f, p, j) => g[p].kv[j] = f[p].kv[j]
  <2>1. CASE p = a.p
    <3>1. j # a.i BY <2>1, <1>3
    <3>2. j \in 1 .. a.i <=> j \in 1 .. Len(f[a.p].kv)
      <4> DEFINE n == Len(f[a.p].kv)
      <4>1. n \in Nat /\ a.i = n + 1 BY <1>1
      <4> HIDE DEF n
      <4>2. j \in 1 .. a.i <=> j \in 1 .. n BY <3>1, <4>1
      <4> QED BY <4>2 DEF n
    <3>3. There(g, p, j) <=> There(f, p, j) BY <2>1, <3>2, <1>1 DEF There
    <3>4. There(f, p, j) => g[p].kv[j] = f[p].kv[j] BY <2>1, <3>1 DEF There, Written
    <3> QED BY <3>3, <3>4
  <2>2. CASE p # a.p BY <2>2 DEF There, Written, OnlyPage
  <2> QED BY <2>1, <2>2
<1>4. ASSUME NEW p \in Pages PROVE StaysAt(f, g, p)
  <2>1. CASE p = a.p BY <1>1, <2>1 DEF StaysAt
  <2>2. CASE p # a.p
    <3>1. g[p] = f[p] /\ Len(f[p].kv) \in Nat BY <2>2, FlashFacts DEF Written, OnlyPage
    <3> QED BY SMTT(20), <3>1 DEF StaysAt
  <2> QED BY <2>1, <2>2
<1> QED BY Zenon, <1>2, <1>3, <1>4 DEF Others, Stays

\* What is read after a write of value v to key k.
Updates(f, g, k, v) ==
  /\ Reads(g, k, v)
  /\ \A k2, w : k2 # k => (Reads(g, k2, w) <=> Reads(f, k2, w))

\* key_value_write_key
LEMMA WriteKeySound ==
  ASSUME Sized, NEW c, NEW f, Sound(c, f), NEW k \in Keys, NEW v \in Datas
  PROVE  LET d == WriteKey(c, k, v)
         IN  /\ Sound(d, f)
             /\ c.ret # OK => d.ret = c.ret
             /\ c.ret = OK /\ d.ret = OK =>
                  Stays(c.flash, d.flash) /\ Tidy(c.flash, d.flash) /\ Updates(c.flash, d.flash, k, v)
             /\ c.ret = OK /\ d.ret = "KV_NO_ENOUGH_SPACE" => Frames(c.flash, d.flash)
             /\ d.ret = TryAlloc(c).ret
<1> DEFINE c1 == TryAlloc(c)
           g == c1.flash
           olds == Found(g, k, "valid")
           old == First(olds)
           w == KeyWrite(c1, c1.at, k, v)
           marked == SetKeyState(c1, old, "deleting")
           x == SetKeyState(KeyWrite(marked, c1.at, k, v), old, "invalid")
           d == WriteKey(c, k, v)
<1>0. d = IF c1.ret # OK THEN c1 ELSE IF olds = {} THEN w
          ELSE IF g[old.p].kv[old.i].val = v THEN c1 ELSE x
  BY DEF WriteKey, Entry, OK
<1>1. /\ Sound(c1, f) /\ (c.ret # OK => c1.ret = c.ret)
      /\ c1.ret = OK => Free(c1.flash, c1.at)
      /\ c.ret = OK /\ c1.ret # "assert" => Frames(c.flash, c1.flash)
  BY TryAllocSound
<1> HIDE DEF c1
<1>2. g \in Flashes /\ Good(g) /\ c.flash \in Flashes BY <1>1, SoundFacts
<1>3. /\ olds = {} <=> NoValid(g, k)
      /\ olds # {} => ValidAt(g, old.p, old.i, k)
  BY <1>2, ValidFound
<1> HIDE DEF d, old, olds
<1>4. CASE c1.ret # OK
  <2>1. d = c1 BY <1>0, <1>4
  <2>2. OK # "KV_NO_ENOUGH_SPACE" /\ "assert" # "KV_NO_ENOUGH_SPACE" BY DEF OK
  <2>3. c1.ret = TryAlloc(c).ret BY DEF c1
  <2> HIDE DEF g
  <2> QED BY <1>1, <1>4, <2>1, <2>2, <2>3 DEF d
<1>5. CASE c1.ret = OK
  <2>1. c.ret = OK /\ Free(g, c1.at) /\ Frames(c.flash, g)
    <3>1. OK # "assert" BY DEF OK
    <3> QED BY <1>1, <1>5, <3>1
  <2>2. /\ Fits(g, c1.at, k) /\ c1.at.p \in Pages /\ c1.at.i = Len(g[c1.at.p].kv) + 1
    BY <1>2, <2>1, FreeFits DEF Free
  <2>3. /\ Sound(d, f) /\ d.ret = OK
        /\ Stays(g, d.flash) /\ Tidy(g, d.flash) /\ Updates(g, d.flash, k, v)
    <3>1. CASE olds = {}
      <4>1. d = w BY <1>0, <1>5, <3>1
      <4>2. NoValid(g, k) BY <1>3, <3>1
      <4>3. Sound(w, f) /\ w.ret = OK /\ Written(g, w.flash, c1.at, k, v)
        BY <1>1, <1>5, <2>2, <4>2, KeyWriteSound
      <4> HIDE DEF w
      <4>4. w.flash \in Flashes /\ Good(w.flash) BY <4>3, SoundFacts
      <4>5. /\ Others(g, w.flash, c1.at, c1.at) /\ ~There(g, c1.at.p, c1.at.i) /\ Stays(g, w.flash)
        BY <1>2, <2>2, <4>3, <4>4, WrittenOthers
      <4>6. /\ ValidAt(w.flash, c1.at.p, c1.at.i, k) /\ w.flash[c1.at.p].kv[c1.at.i].val = v
        BY Zenon, <2>2, <4>3 DEF Written, ValidAt
      <4>7. Replaces(g, w.flash, c1.at, c1.at, k) BY <4>2 DEF Replaces
      <4>8. Tidy(g, w.flash) /\ Updates(g, w.flash, k, v)
        <5> HIDE DEF g
        <5> QED BY <1>2, <4>4, <4>5, <4>6, <4>7, WrittenFrames DEF Updates
      <4> QED BY <4>1, <4>3, <4>5, <4>8
    <3>2. CASE olds # {} /\ g[old.p].kv[old.i].val = v
      <4>1. d = c1 BY <1>0, <1>5, <3>2
      <4>2. Reads(g, k, v) BY <1>3, <3>2 DEF Reads
      <4> QED BY <1>1, <1>2, <1>5, <4>1, <4>2, FramesRefl DEF Updates
    <3>3. CASE olds # {} /\ g[old.p].kv[old.i].val # v
      <4>1. d = x BY <1>0, <1>5, <3>3
      <4>2. ValidAt(g, old.p, old.i, k) BY <1>3, <3>3
      <4>3. There(g, old.p, old.i) /\ g[old.p].kv[old.i].st = "valid" /\ g[old.p].kv[old.i].key = k
        BY <4>2 DEF ValidAt
      <4>4. d = Rewrite(c1, c1.at, old, v) BY <4>1, <4>3 DEF Rewrite
      <4>5. /\ c1.flash[old.p].kv[old.i].key = k /\ There(c1.flash, old.p, old.i)
            /\ c1.flash[old.p].kv[old.i].st = "valid"
            /\ Fits(c1.flash, c1.at, c1.flash[old.p].kv[old.i].key)
        BY <2>2, <4>3
      <4>6. Sound(d, f) /\ d.ret = OK /\ Moved(g, d.flash, c1.at, old, v)
        <5> HIDE DEF g, x, w
        <5>1. LET z == Rewrite(c1, c1.at, old, v)
              IN  Sound(z, f) /\ z.ret = OK /\ Moved(c1.flash, z.flash, c1.at, old, v)
          BY <1>1, <1>5, <4>5, RewriteSound
        <5> QED BY Zenon, <4>4, <5>1 DEF g
      <4>7. Good(d.flash) BY Zenon, <4>6, SoundFacts
      <4>8. /\ Stays(g, d.flash) /\ Tidy(g, d.flash)
            /\ Reads(d.flash, g[old.p].kv[old.i].key, v)
            /\ \A k2, y : k2 # g[old.p].kv[old.i].key => (Reads(d.flash, k2, y) <=> Reads(g, k2, y))
        <5> HIDE DEF g
        <5> QED BY <1>2, <2>2, <4>3, <4>6, <4>7, MovedFrames
      <4> QED BY <4>3, <4>6, <4>8 DEF Updates
    <3> QED BY <3>1, <3>2, <3>3
  <2>4. d.flash \in Flashes BY <2>3, SoundFacts
  <2> HIDE DEF g
  <2>5. Stays(c.flash, d.flash) /\ Tidy(c.flash, d.flash)
    BY <1>2, <2>1, <2>3, <2>4, FramesTrans DEF Frames
  <2>6. Updates(c.flash, d.flash, k, v) BY <2>1, <2>3 DEF Frames, SameReads, Updates
  <2>7. OK # "KV_NO_ENOUGH_SPACE" BY DEF OK
  <2>8. d.ret = TryAlloc(c).ret BY <1>5, <2>3 DEF c1
  <2> QED BY <2>1, <2>3, <2>5, <2>6, <2>7, <2>8 DEF d
<1> QED BY <1>4, <1>5

NoDeleting(f) == \A p, i : There(f, p, i) => f[p].kv[i].st # "deleting"
Clean(f) == \A p, i : ~Bad(f, p, i)

\* key_value_remove_key
LEMMA RemoveKeySound ==
  ASSUME Sized, NEW c, NEW f, Sound(c, f), c.ret = OK, NEW k
  PROVE  LET d == RemoveKey(c, k)
         IN  /\ Sound(d, f) /\ d.ret = OK /\ Stays(c.flash, d.flash) /\ NoValid(d.flash, k)
             /\ \A k2, w : k2 # k => (Reads(d.flash, k2, w) <=> Reads(c.flash, k2, w))
             /\ Clean(c.flash) /\ NoDeleting(c.flash) => Clean(d.flash)
<1> DEFINE g == c.flash
           olds == Found(g, k, "valid")
           old == First(olds)
           d == RemoveKey(c, k)
<1>1. g \in Flashes /\ Good(g) BY SoundFacts
<1>2. /\ olds = {} <=> NoValid(g, k)
      /\ olds # {} => ValidAt(g, old.p, old.i, k)
  BY <1>1, ValidFound
<1>3. d = IF olds = {} THEN c ELSE SetKeyState(c, old, "invalid") BY DEF RemoveKey
<1> HIDE DEF d, old, olds
<1>4. CASE olds = {} BY <1>1, <1>2, <1>3, <1>4, FramesRefl DEF d
<1>5. CASE olds # {}
  <2>1. ValidAt(g, old.p, old.i, k) /\ d = SetKeyState(c, old, "invalid") BY <1>2, <1>3, <1>5
  <2>2. There(g, old.p, old.i) /\ g[old.p].kv[old.i].key = k BY <2>1 DEF ValidAt
  <2>3. /\ Sound(d, f) /\ d.ret = OK /\ OnlyEntry(g, d.flash, old.p, old.i)
        /\ d.flash[old.p].kv[old.i].st = "invalid"
    BY <2>1, <2>2, SetInvalid
  <2>4. d.flash \in Flashes BY <2>3, SoundFacts
  <2>5. /\ Stays(g, d.flash) /\ NoValid(d.flash, k)
        /\ \A k2, w : k2 # k => (Reads(d.flash, k2, w) <=> Reads(g, k2, w))
        /\ ~Bad(d.flash, old.p, old.i)
    <3> HIDE DEF g
    <3> QED BY <1>1, <2>1, <2>2, <2>3, <2>4, InvalidFrames
  <2>6. ASSUME Clean(g), NoDeleting(g), NEW p, NEW i, Bad(d.flash, p, i) PROVE FALSE
    <3>1. ~(p = old.p /\ i = old.i) BY <2>5, <2>6
    <3>2. There(g, p, i) /\ d.flash[p].kv[i] = g[p].kv[i]
      BY <2>3, <2>6, <3>1 DEF Bad, There, OnlyEntry, OnlyPage
    <3>3. g[p].kv[i].st # "deleting" /\ ~Bad(g, p, i) BY <2>6, <3>2 DEF NoDeleting, Clean
    <3> QED BY <2>6, <3>2, <3>3 DEF Bad
  <2> QED BY <2>3, <2>5, <2>6 DEF Clean, d
<1> QED BY <1>4, <1>5
-----------------------------------------------------------------------------
(* Recovery. *)

\* key_value_page_magic_check
LEMMA MagicSound ==
  ASSUME Sized, NEW c, NEW f, Sound(c, f), c.ret = OK
  PROVE  LET d == MagicCheck(c)
         IN  /\ Sound(d, f) /\ d.ret = OK /\ NoErased(d.flash)
             /\ NoErased(c.flash) => d = c
<1> DEFINE r == MagicCheck(c)
           Done(e, n) == /\ Sound(e, f) /\ e.ret = OK
                         /\ \A p \in Pages : p <= n => e.flash[p].st # "erased"
                         /\ NoErased(c.flash) => e = c
<1>0. NPages \in Nat \ {0} /\ Pages = 1 .. NPages BY DEF Sized, Pages
<1>1. PICK run : Ran("magic", 0, c, NPages, run) /\ run[NPages] = r
  BY <1>0, OverMagic DEF Ended
<1> HIDE DEF r
<1>2. run[0] = c BY <1>1 DEF Ran
<1>3. ASSUME NEW i \in 1 .. NPages
      PROVE  run[i] = IF run[i - 1].flash[i].st = "erased" THEN PageFormat(run[i - 1], i)
                      ELSE run[i - 1]
  BY <1>1 DEF Ran, Visit
<1> DEFINE S == {n \in Nat : n <= NPages => Done(run[n], n)}
<1>4. 0 \in S
  <2>1. \A p \in Pages : ~(p <= 0) BY <1>0
  <2>2. Done(c, 0) BY <2>1
  <2> HIDE DEF Done
  <2> QED BY <1>2, <2>2
<1>5. ASSUME NEW n \in Nat, n \in S PROVE n + 1 \in S
  <2> SUFFICES ASSUME n + 1 <= NPages PROVE Done(run[n + 1], n + 1)
    <3> HIDE DEF Done
    <3> QED OBVIOUS
  <2> DEFINE e == run[n]
             h == run[n + 1]
  <2>1. Done(e, n)
    <3> HIDE DEF Done
    <3> QED BY <1>0, <1>5
  <2>2. n + 1 \in 1 .. NPages /\ (n + 1) - 1 = n /\ n + 1 \in Pages BY <1>0
  <2>3. h = IF e.flash[n + 1].st = "erased" THEN PageFormat(e, n + 1) ELSE e BY <1>3, <2>2
  <2>4. \A p \in Pages : p <= n + 1 <=> p <= n \/ p = n + 1 BY <1>0
  <2> HIDE DEF e, h
  <2>5. CASE e.flash[n + 1].st = "erased"
    <3>1. h = PageFormat(e, n + 1) BY <2>3, <2>5
    <3>2. /\ Sound(h, f) /\ h.ret = OK /\ OnlyPage(e.flash, h.flash, n + 1)
          /\ h.flash[n + 1].st = "empty"
      BY <2>1, <2>2, <3>1, FormatSound
    <3>3. \A p \in Pages : p <= n + 1 => h.flash[p].st # "erased"
      BY <2>1, <2>4, <3>2 DEF OnlyPage
    <3>4. ~NoErased(c.flash) BY <2>1, <2>2, <2>5 DEF NoErased
    <3> QED BY <3>2, <3>3, <3>4 DEF h
  <2>6. CASE e.flash[n + 1].st # "erased" BY <2>1, <2>3, <2>4, <2>6 DEF h
  <2> QED BY <2>5, <2>6
<1> HIDE DEF S
<1>6. NPages \in S
  <2>1. \A n \in Nat : n \in S BY <1>4, <1>5, Inductive
  <2> QED BY <1>0, <2>1
<1>7. Done(r, NPages)
  <2> HIDE DEF Done
  <2> QED BY <1>0, <1>1, <1>6 DEF S
<1>8. NoErased(r.flash) BY <1>0, <1>7 DEF NoErased
<1> QED BY <1>7, <1>8 DEF r

\* key_value_recovery_defragging_page_key_cb
LEMMA RecoverDefragKeySound ==
  ASSUME Sized, NEW c, NEW f, Sound(c, f), NEW p \in Pages, NEW i \in 1 .. PageCap,
         c.ret = OK => NoErased(c.flash) /\ c.flash[p].st = "defragging"
  PROVE  LET d == RecoverDefragKey(c, [p |-> p, i |-> i])
         IN  Sound(d, f) /\ (d.ret = OK => c.ret = OK /\ Stays(c.flash, d.flash))
<1> DEFINE a == [p |-> p, i |-> i]
           g == c.flash
           e == g[p].kv[i]
           valid == Found(g, e.key, "valid")
           writing == Found(g, e.key, "writing")
           d == RecoverDefragKey(c, a)
<1>1. g \in Flashes /\ Good(g) BY SoundFacts
<1>2. Len(g[p].kv) \in Nat BY <1>1, FlashFacts
<1>3. Stays(g, g) BY <1>1, FramesRefl
<1>4. CASE i > Len(g[p].kv)
  <2>1. d = c BY <1>4 DEF RecoverDefragKey
  <2> QED BY <1>3, <2>1
<1>5. CASE ~(i > Len(g[p].kv))
  <2>1. There(g, p, i) BY <1>2, <1>5 DEF There
  <2>2. e.st \in KeySts /\ (e.st \in Named => e.key \in Keys /\ e.val \in Datas)
    BY <1>1, <2>1, ThereFacts
  <2>3. CASE e.st = "valid"
    <3> DEFINE c1 == SetKeyState(c, a, "deleting")
               free == {q \in Pages : HasRoom(c1.flash, q)}
               dst == NextFree(c1.flash, Min(free))
               x == RescueKey(c1, a, e)
    <3>1. d = SetKeyState(x, a, "invalid")
      BY Zenon, <1>5, <2>3 DEF RecoverDefragKey, Entry
    <3>2. x = IF free = {} THEN Fail(c1, "assert") ELSE KeyWrite(c1, dst, e.key, e.val)
      BY DEF RescueKey
    <3>3. CASE c.ret # OK
      <4>1. c1 = c BY <3>3, Stuck
      <4>2. x = c
        <5> HIDE DEF x, c1, free, dst, e
        <5> QED BY <3>2, <3>3, <4>1, Stuck
      <4>3. d = c
        <5> HIDE DEF x, d, a
        <5> QED BY <3>1, <3>3, <4>2, Stuck
      <4> QED BY <3>3, <4>3
    <3>4. CASE c.ret = OK
      <4>1. /\ Sound(c1, f) /\ c1.ret = OK /\ OnlyEntry(g, c1.flash, p, i)
        <5>1. /\ There(c.flash, a.p, a.i) /\ c.flash[a.p].kv[a.i].st \in {"valid", "deleting"}
              /\ a.p = p /\ a.i = i
          BY Zenon, <2>1, <2>3
        <5> HIDE DEF a, g
        <5>2. LET y == SetKeyState(c, a, "deleting")
              IN  Sound(y, f) /\ y.ret = OK /\ OnlyEntry(c.flash, y.flash, a.p, a.i)
          BY <3>4, <5>1, SetDeleting
        <5> QED BY <5>1, <5>2 DEF g
      <4> HIDE DEF x, c1
      <4>2. CASE free = {}
        <5>1. x = Fail(c1, "assert") BY <3>2, <4>2
        <5>2. "assert" \in Rets /\ OK # "assert" BY DEF Rets, OK
        <5>3. Sound(x, f) /\ x.ret # OK BY <4>1, <5>1, <5>2, SoundFail
        <5>4. d = x
          <6> HIDE DEF d, a, free, e, g
          <6> QED BY <3>1, <5>3, Stuck
        <5> QED BY <5>3, <5>4
      <4>3. CASE free # {}
        <5> DEFINE q == Min(free)
        <5>1. q \in free
          <6>1. free \in SUBSET Pages OBVIOUS
          <6> HIDE DEF free
          <6> QED BY <4>3, <6>1, MinIn
        <5> HIDE DEF q
        <5>2. q \in Pages /\ Len(c1.flash[q].kv) < PageCap BY <5>1 DEF HasRoom
        <5>3. c1.flash[q].st = g[q].st /\ Len(c1.flash[q].kv) = Len(g[q].kv) /\ Len(g[q].kv) \in Nat
          BY Zenon, <1>1, <4>1, <5>2, FlashFacts DEF OnlyEntry, OnlyPage
        <5>4. dst = [p |-> q, i |-> Len(g[q].kv) + 1] BY <5>3 DEF NextFree, q
        <5>5. d = Rewrite(c, dst, a, e.val)
          <6>1. x = KeyWrite(c1, dst, e.key, e.val) BY <3>2, <4>3
          <6> QED BY <3>1, <6>1 DEF Rewrite, c1
        <5> HIDE DEF dst, d
        <5>6. Fits(g, dst, e.key)
          <6>1. g[q].st # "erased" BY <3>4, <5>2 DEF NoErased
          <6>2. g[q].st = "empty" => q # p /\ g[p].st \in Spares BY <3>4 DEF Spares
          <6>3. PageCap \in Nat BY DEF Sized
          <6> HIDE DEF g
          <6> QED BY <5>2, <5>3, <5>4, <6>1, <6>2, <6>3 DEF Fits
        <5>7. Sound(d, f) /\ d.ret = OK /\ Moved(g, d.flash, dst, a, e.val)
          <6>1. /\ There(c.flash, a.p, a.i) /\ c.flash[a.p].kv[a.i].st = "valid"
                /\ Fits(c.flash, dst, c.flash[a.p].kv[a.i].key) /\ e.val \in Datas
            BY <2>1, <2>2, <2>3, <5>6 DEF Named
          <6> HIDE DEF a, g, e
          <6>2. LET y == Rewrite(c, dst, a, e.val)
                IN  Sound(y, f) /\ y.ret = OK /\ Moved(c.flash, y.flash, dst, a, e.val)
            BY Zenon, <3>4, <6>1, RewriteSound
          <6> QED BY <5>5, <6>2 DEF g
        <5>8. d.flash \in Flashes /\ dst.p \in Pages BY <5>2, <5>4, <5>7, SoundFacts
        <5>9. Stays(g, d.flash)
          <6> HIDE DEF g, a, e
          <6> QED BY <1>1, <5>7, <5>8, MovedStays
        <5> QED BY <3>4, <5>7, <5>9 DEF d
      <4> QED BY <4>2, <4>3
    <3> QED BY <3>3, <3>4
  <2>4. CASE e.st = "deleting" /\ valid # {}
    <3>1. d = SetKeyState(c, a, "invalid") BY Zenon, <1>5, <2>4 DEF RecoverDefragKey, Entry
    <3>2. CASE c.ret # OK
      <4>1. d = c
        <5> HIDE DEF d
        <5> QED BY <3>1, <3>2, Stuck
      <4> QED BY <3>2, <4>1
    <3>3. CASE c.ret = OK
      <4> HIDE DEF d
      <4>1. There(c.flash, a.p, a.i) /\ a.p = p /\ a.i = i BY <2>1
      <4>2. /\ Sound(d, f) /\ d.ret = OK /\ OnlyEntry(g, d.flash, p, i)
            /\ d.flash[p].kv[i].st = "invalid"
        <5> HIDE DEF a, g
        <5> QED BY <3>1, <3>3, <4>1, SetInvalid DEF g
      <4>3. d.flash \in Flashes BY <4>2, SoundFacts
      <4>4. Stays(g, d.flash)
        <5> HIDE DEF g
        <5> QED BY <1>1, <2>1, <4>2, <4>3, InvalidFrames
      <4> QED BY <3>3, <4>2, <4>4 DEF d
    <3> QED BY <3>2, <3>3
  <2>5. CASE e.st = "deleting" /\ valid = {} /\ writing # {}
    <3> DEFINE b == First(writing)
               x == MoveKey(c, b, a)
    <3>1. d = SetKeyState(x, a, "invalid") BY Zenon, <1>5, <2>5 DEF RecoverDefragKey, Entry
    <3>2. CASE c.ret # OK
      <4>1. x = c BY <3>2, Stuck
      <4>2. d = c
        <5> HIDE DEF d, x
        <5> QED BY <3>1, <3>2, <4>1, Stuck
      <4> QED BY <3>2, <4>2
    <3>3. CASE c.ret = OK
      <4> HIDE DEF d
      <4>1. There(g, b.p, b.i) /\ g[b.p].kv[b.i].st = "writing" /\ g[b.p].kv[b.i].key = e.key
        <5>1. /\ writing \in SUBSET [p : Pages, i : 1 .. PageCap]
              /\ \A y \in writing :
                   There(g, y.p, y.i) /\ g[y.p].kv[y.i].st = "writing" /\ g[y.p].kv[y.i].key = e.key
          BY <1>1, FoundFacts
        <5> HIDE DEF writing
        <5>2. b \in writing BY <2>5, <5>1, FirstIn
        <5> QED BY <5>1, <5>2
      <4> HIDE DEF b
      <4>2. NoValid(g, e.key) BY <1>1, <2>5, ValidFound
      <4>3. Fits(g, b, e.key)
        <5>1. b.p \in Pages /\ b.i \in Nat \ {0} /\ b.i <= PageCap /\ g[b.p].kv # <<>>
          BY <1>1, <4>1, ThereFacts
        <5>2. g[b.p].st \notin {"erased", "empty"} BY <1>1, <5>1 DEF Good, Blanks
        <5> HIDE DEF g
        <5> QED BY Zenon, <4>1, <5>1, <5>2 DEF Fits
      <4>4. Sound(x, f) /\ x.ret = OK /\ Moved(g, x.flash, b, a, e.val)
        <5>1. /\ There(c.flash, a.p, a.i) /\ e.val \in Datas /\ e = c.flash[a.p].kv[a.i]
              /\ c.flash[a.p].kv[a.i].st = "deleting" /\ NoValid(c.flash, c.flash[a.p].kv[a.i].key)
              /\ Fits(c.flash, b, c.flash[a.p].kv[a.i].key)
          BY <2>1, <2>2, <2>5, <4>2, <4>3 DEF Named
        <5>2. x = Rewrite(c, b, a, c.flash[a.p].kv[a.i].val) BY MoveIsRewrite
        <5> HIDE DEF a, g, e, x, valid, writing
        <5>3. LET y == Rewrite(c, b, a, e.val)
              IN  Sound(y, f) /\ y.ret = OK /\ Moved(c.flash, y.flash, b, a, e.val)
          BY Zenon, <3>3, <5>1, RewriteSound
        <5> QED BY Zenon, <5>1, <5>2, <5>3 DEF g
      <4> HIDE DEF x
      <4>5. There(x.flash, p, i) BY <4>4 DEF Moved
      <4>6. There(x.flash, a.p, a.i) /\ a.p = p /\ a.i = i BY <4>5
      <4>7. /\ Sound(d, f) /\ d.ret = OK /\ OnlyEntry(x.flash, d.flash, p, i)
            /\ d.flash[p].kv[i].st = "invalid"
        <5> HIDE DEF a, g, e
        <5> QED BY <3>1, <4>4, <4>6, SetInvalid
      <4>8. d.flash \in Flashes /\ x.flash \in Flashes /\ b.p \in Pages
        BY <4>1, <4>4, <4>7, SoundFacts DEF There
      <4>9. Stays(g, x.flash)
        <5> HIDE DEF g, a, e
        <5> QED BY <1>1, <4>4, <4>8, MovedStays
      <4>10. Stays(x.flash, d.flash) BY <4>5, <4>7, <4>8, InvalidFrames
      <4>11. Stays(g, d.flash)
        <5> HIDE DEF g
        <5> QED BY <1>1, <4>8, <4>9, <4>10, FramesTrans
      <4> QED BY <3>3, <4>7, <4>11 DEF d
    <3> QED BY <3>2, <3>3
  <2>6. CASE e.st = "deleting" /\ valid = {} /\ writing = {}
    <3> DEFINE x == WriteKey(c, e.key, e.val)
    <3>1. d = SetKeyState(x, a, "invalid") BY Zenon, <1>5, <2>6 DEF RecoverDefragKey, Entry
    <3>2. e.key \in Keys /\ e.val \in Datas BY <2>2, <2>6 DEF Named
    <3>3. /\ Sound(x, f) /\ (c.ret # OK => x.ret = c.ret)
          /\ c.ret = OK /\ x.ret = OK => Stays(c.flash, x.flash)
      <4> HIDE DEF e
      <4> QED BY <3>2, WriteKeySound
    <3> HIDE DEF x, d
    <3>4. CASE x.ret # OK
      <4>1. d = x BY <3>1, <3>4, Stuck
      <4> QED BY <3>3, <3>4, <4>1 DEF d
    <3>5. CASE x.ret = OK
      <4>1. c.ret = OK /\ Stays(g, x.flash) BY <3>3, <3>5
      <4>2. x.flash \in Flashes BY <3>3, SoundFacts
      <4>3. There(x.flash, p, i)
        <5>1. Len(x.flash[p].kv) \in Nat BY <4>2, FlashFacts
        <5>2. Len(g[p].kv) <= Len(x.flash[p].kv) BY <4>1 DEF Stays, StaysAt
        <5> QED BY <1>2, <1>5, <5>1, <5>2 DEF There
      <4>4. There(x.flash, a.p, a.i) /\ a.p = p /\ a.i = i BY <4>3
      <4>5. /\ Sound(d, f) /\ d.ret = OK /\ OnlyEntry(x.flash, d.flash, p, i)
            /\ d.flash[p].kv[i].st = "invalid"
        <5> HIDE DEF a, g, e
        <5> QED BY <3>1, <3>3, <3>5, <4>4, SetInvalid
      <4>6. d.flash \in Flashes BY <4>5, SoundFacts
      <4>7. Stays(x.flash, d.flash) BY <4>2, <4>3, <4>5, <4>6, InvalidFrames
      <4>8. Stays(g, d.flash)
        <5> HIDE DEF g
        <5> QED BY <1>1, <4>1, <4>2, <4>6, <4>7, FramesTrans
      <4> QED BY <4>1, <4>5, <4>8 DEF d
    <3> QED BY <3>4, <3>5
  <2>7. CASE e.st \notin {"valid", "deleting"}
    <3>1. d = c BY Zenon, <1>5, <2>7 DEF RecoverDefragKey, Entry
    <3> QED BY <1>3, <3>1
  <2> QED BY <2>3, <2>4, <2>5, <2>6, <2>7
<1> QED BY <1>4, <1>5
LEMMA RecoverDefragKeysSound ==
  ASSUME Sized, NEW c, NEW f, Sound(c, f), NEW p \in Pages,
         c.ret = OK => NoErased(c.flash) /\ c.flash[p].st = "defragging"
  PROVE  LET d == OverSlots(RecoverDefragKey, c, p)
         IN  Sound(d, f) /\ (d.ret = OK => c.ret = OK /\ Stays(c.flash, d.flash))
<1> DEFINE r == OverSlots(RecoverDefragKey, c, p)
           Done(e) == Sound(e, f) /\ (e.ret = OK => c.ret = OK /\ Stays(c.flash, e.flash))
<1>0. PageCap \in Nat \ {0} /\ c.flash \in Flashes BY SoundFacts DEF Sized
<1>1. PICK run : Ran("recoverDefragKey", p, c, PageCap, run) /\ run[PageCap] = r
  BY <1>0, OverRecoverDefragKey DEF Ended
<1> HIDE DEF r
<1>2. run[0] = c BY <1>1 DEF Ran
<1>3. ASSUME NEW i \in 1 .. PageCap
      PROVE  run[i] = RecoverDefragKey(run[i - 1], [p |-> p, i |-> i])
  BY <1>1 DEF Ran, Visit
<1> DEFINE S == {n \in Nat : n <= PageCap => Done(run[n])}
<1>4. 0 \in S
  <2>1. Done(c) BY <1>0, FramesRefl
  <2> HIDE DEF Done
  <2> QED BY <1>2, <2>1
<1>5. ASSUME NEW n \in Nat, n \in S PROVE n + 1 \in S
  <2> SUFFICES ASSUME n + 1 <= PageCap PROVE Done(run[n + 1])
    <3> HIDE DEF Done
    <3> QED OBVIOUS
  <2> DEFINE e == run[n]
             h == run[n + 1]
  <2>1. Done(e)
    <3> HIDE DEF Done
    <3> QED BY <1>0, <1>5
  <2>2. n + 1 \in 1 .. PageCap /\ (n + 1) - 1 = n BY <1>0
  <2>3. h = RecoverDefragKey(e, [p |-> p, i |-> n + 1]) BY <1>3, <2>2
  <2> HIDE DEF e, h
  <2>4. Sound(e, f) /\ (e.ret = OK => NoErased(e.flash) /\ e.flash[p].st = "defragging")
    BY <2>1, StaysNone DEF Stays, StaysAt
  <2>5. Sound(h, f) /\ (h.ret = OK => e.ret = OK /\ Stays(e.flash, h.flash))
    BY <2>2, <2>3, <2>4, RecoverDefragKeySound
  <2>6. e.flash \in Flashes /\ h.flash \in Flashes BY <2>4, <2>5, SoundFacts
  <2> QED BY <1>0, <2>1, <2>5, <2>6, FramesTrans DEF h
<1> HIDE DEF S
<1>6. PageCap \in S
  <2>1. \A n \in Nat : n \in S BY <1>4, <1>5, Inductive
  <2> QED BY <1>0, <2>1
<1>7. Done(r)
  <2> HIDE DEF Done
  <2> QED BY <1>0, <1>1, <1>6 DEF S
<1> QED BY <1>7 DEF r

\* key_value_recovery, the pages under compaction.
LEMMA DefraggedSound ==
  ASSUME Sized, NEW c, NEW f, Sound(c, f), c.ret = OK, NoErased(c.flash)
  PROVE  LET d == Defragged(c)
         IN  /\ Sound(d, f)
             /\ d.ret = OK => NoErased(d.flash) /\ NoneUnderway(d.flash)
             /\ NoneUnderway(c.flash) => d = c
<1> DEFINE r == Defragged(c)
           Done(e, n) == /\ Sound(e, f)
                         /\ e.ret = OK => NoErased(e.flash)
                         /\ e.ret = OK => \A p \in Pages : p <= n => e.flash[p].st # "defragging"
                         /\ NoneUnderway(c.flash) => e = c
<1>0. NPages \in Nat \ {0} /\ Pages = 1 .. NPages BY DEF Sized, Pages
<1>1. PICK run : Ran("defragging", 0, c, NPages, run) /\ run[NPages] = r
  BY <1>0, OverDefragging DEF Ended
<1> HIDE DEF r
<1>2. run[0] = c BY <1>1 DEF Ran
<1>3. ASSUME NEW i \in 1 .. NPages
      PROVE  run[i] = IF run[i - 1].flash[i].st = "defragging"
                      THEN PageFormat(OverSlots(RecoverDefragKey, run[i - 1], i), i)
                      ELSE run[i - 1]
  BY <1>1 DEF Ran, Visit
<1> DEFINE S == {n \in Nat : n <= NPages => Done(run[n], n)}
<1>4. 0 \in S
  <2>1. \A p \in Pages : ~(p <= 0) BY <1>0
  <2>2. Done(c, 0) BY <2>1
  <2> HIDE DEF Done
  <2> QED BY <1>2, <2>2
<1>5. ASSUME NEW n \in Nat, n \in S PROVE n + 1 \in S
  <2> SUFFICES ASSUME n + 1 <= NPages PROVE Done(run[n + 1], n + 1)
    <3> HIDE DEF Done
    <3> QED OBVIOUS
  <2> DEFINE e == run[n]
             m == OverSlots(RecoverDefragKey, e, n + 1)
             h == run[n + 1]
  <2>1. Done(e, n)
    <3> HIDE DEF Done
    <3> QED BY <1>0, <1>5
  <2>2. n + 1 \in 1 .. NPages /\ (n + 1) - 1 = n /\ n + 1 \in Pages BY <1>0
  <2>3. h = IF e.flash[n + 1].st = "defragging" THEN PageFormat(m, n + 1) ELSE e
    BY <1>3, <2>2
  <2>4. \A p \in Pages : p <= n + 1 <=> p <= n \/ p = n + 1 BY <1>0
  <2> HIDE DEF e, h
  <2>5. CASE e.flash[n + 1].st = "defragging"
    <3>1. h = PageFormat(m, n + 1) BY <2>3, <2>5
    <3>2. ~NoneUnderway(c.flash) BY <2>1, <2>2, <2>5 DEF NoneUnderway
    <3>3. Sound(m, f) /\ (m.ret = OK => e.ret = OK /\ Stays(e.flash, m.flash))
      BY <2>1, <2>2, <2>5, RecoverDefragKeysSound
    <3> HIDE DEF m
    <3>4. CASE m.ret # OK
      <4>1. h = m BY <3>1, <3>4, Stuck
      <4> QED BY <3>2, <3>3, <3>4, <4>1 DEF h
    <3>5. CASE m.ret = OK
      <4>1. /\ Sound(h, f) /\ OnlyPage(m.flash, h.flash, n + 1) /\ h.flash[n + 1].st = "empty"
        BY <2>2, <3>1, <3>3, <3>5, FormatSound
      <4>2. NoErased(m.flash) BY <2>1, <3>3, <3>5, StaysNone
      <4>3. \A p \in Pages : p <= n => m.flash[p].st # "defragging"
        BY <2>1, <3>3, <3>5 DEF Stays, StaysAt
      <4>4. NoErased(h.flash) BY <4>1, <4>2 DEF NoErased, OnlyPage
      <4>5. \A p \in Pages : p <= n + 1 => h.flash[p].st # "defragging"
        BY <2>4, <4>1, <4>3 DEF OnlyPage
      <4> QED BY <3>2, <4>1, <4>4, <4>5 DEF h
    <3> QED BY <3>4, <3>5
  <2>6. CASE e.flash[n + 1].st # "defragging" BY <2>1, <2>3, <2>4, <2>6 DEF h
  <2> QED BY <2>5, <2>6
<1> HIDE DEF S
<1>6. NPages \in S
  <2>1. \A n \in Nat : n \in S BY <1>4, <1>5, Inductive
  <2> QED BY <1>0, <2>1
<1>7. Done(r, NPages)
  <2> HIDE DEF Done
  <2> QED BY <1>0, <1>1, <1>6 DEF S
<1>8. r.ret = OK => NoneUnderway(r.flash) BY <1>0, <1>7 DEF NoneUnderway
<1> QED BY <1>7, <1>8 DEF r

\* key_value_recovery_key_cb
LEMMA RecoverKeySound ==
  ASSUME Sized, NEW c, NEW f, Sound(c, f), NEW p \in Pages, NEW i \in 1 .. PageCap
  PROVE  LET d == RecoverKey(c, [p |-> p, i |-> i])
         IN  /\ Sound(d, f)
             /\ d.ret = OK => /\ c.ret = OK /\ Stays(c.flash, d.flash) /\ Tidy(c.flash, d.flash)
                              /\ ~Bad(d.flash, p, i)
             /\ c.ret = OK /\ ~Bad(c.flash, p, i) => d.ret = OK /\ SameReads(c.flash, d.flash)
<1> DEFINE a == [p |-> p, i |-> i]
           g == c.flash
           e == g[p].kv[i]
           valid == Found(g, e.key, "valid")
           d == RecoverKey(c, a)
<1>1. g \in Flashes /\ Good(g) BY SoundFacts
<1>2. Len(g[p].kv) \in Nat BY <1>1, FlashFacts
<1>3. Stays(g, g) /\ Tidy(g, g) /\ SameReads(g, g) BY <1>1, FramesRefl
<1>4. CASE i > Len(g[p].kv)
  <2>1. d = c BY <1>4 DEF RecoverKey
  <2>2. ~Bad(g, p, i) BY <1>2, <1>4 DEF Bad, There
  <2> QED BY <1>3, <2>1, <2>2
<1>5. CASE ~(i > Len(g[p].kv))
  <2>1. There(g, p, i) BY <1>2, <1>5 DEF There
  <2>2. e.st \in KeySts /\ (e.st \in Named => e.key \in Keys /\ e.val \in Datas)
    BY <1>1, <2>1, ThereFacts
  <2>v. valid = {} <=> NoValid(g, e.key) BY <1>1, ValidFound
  <2>3. CASE e.st \in {"torn", "writing"} \/ (e.st = "deleting" /\ valid # {})
    <3>1. d = SetKeyState(c, a, "invalid") BY <1>5, <2>3 DEF RecoverKey, Entry
    <3>2. CASE c.ret # OK
      <4>1. d = c
        <5> HIDE DEF d
        <5> QED BY <3>1, <3>2, Stuck
      <4> QED BY <3>2, <4>1
    <3>3. CASE c.ret = OK
      <4> HIDE DEF d
      <4>1. There(c.flash, a.p, a.i) /\ a.p = p /\ a.i = i BY <2>1
      <4>2. /\ Sound(d, f) /\ d.ret = OK /\ OnlyEntry(g, d.flash, p, i)
            /\ d.flash[p].kv[i].st = "invalid"
        <5> HIDE DEF a, g
        <5> QED BY <3>1, <3>3, <4>1, SetInvalid DEF g
      <4>3. d.flash \in Flashes /\ g[p].kv[i].st # "valid" BY <2>3, <4>2, SoundFacts
      <4>4. Stays(g, d.flash) /\ Tidy(g, d.flash) /\ SameReads(g, d.flash) /\ ~Bad(d.flash, p, i)
        <5> HIDE DEF g
        <5> QED BY <1>1, <2>1, <4>2, <4>3, InvalidFrames
      <4> QED BY <3>3, <4>2, <4>4 DEF d
    <3> QED BY Zenon, <3>2, <3>3
  <2>4. CASE e.st = "deleting" /\ valid = {}
    <3>1. d = WriteKey(c, e.key, e.val) BY <1>5, <2>4 DEF RecoverKey, Entry
    <3>2. e.key \in Keys /\ e.val \in Datas BY <2>2, <2>4 DEF Named
    <3> HIDE DEF d
    <3>3. /\ Sound(d, f) /\ (c.ret # OK => d.ret = c.ret)
          /\ c.ret = OK /\ d.ret = OK =>
               /\ Stays(c.flash, d.flash) /\ Tidy(c.flash, d.flash)
               /\ Updates(c.flash, d.flash, e.key, e.val)
      <4> HIDE DEF e
      <4> QED BY <3>1, <3>2, WriteKeySound
    <3>4. Bad(g, p, i) BY <2>1, <2>4, <2>v DEF Bad
    <3>5. ASSUME c.ret = OK, d.ret = OK PROVE ~Bad(d.flash, p, i)
      <4> SUFFICES ASSUME Bad(d.flash, p, i) PROVE FALSE OBVIOUS
      <4>1. d.flash[p].kv[i] = e BY <3>3, <3>5 DEF Tidy
      <4>2. NoValid(d.flash, e.key) BY <2>4, <4>1 DEF Bad
      <4>3. Reads(d.flash, e.key, e.val) BY <3>3, <3>5 DEF Updates
      <4> HIDE DEF e
      <4> QED BY <4>2, <4>3, NoReads
    <3> QED BY <3>3, <3>4, <3>5 DEF d
  <2>5. CASE e.st \notin {"torn", "writing", "deleting"}
    <3>1. d = c BY <1>5, <2>5 DEF RecoverKey, Entry
    <3>2. ~Bad(g, p, i) BY <2>5 DEF Bad
    <3> QED BY <1>3, <3>1, <3>2
  <2> QED BY <2>3, <2>4, <2>5
<1> QED BY <1>4, <1>5

LEMMA RecoverKeysSound ==
  ASSUME Sized, NEW c, NEW f, Sound(c, f), NEW p \in Pages
  PROVE  LET d == OverSlots(RecoverKey, c, p)
         IN  /\ Sound(d, f)
             /\ d.ret = OK => /\ c.ret = OK /\ Stays(c.flash, d.flash) /\ Tidy(c.flash, d.flash)
                              /\ \A i : ~Bad(d.flash, p, i)
             /\ c.ret = OK /\ Clean(c.flash) => d.ret = OK /\ SameReads(c.flash, d.flash)
<1> DEFINE r == OverSlots(RecoverKey, c, p)
           Done(e, n) ==
             /\ Sound(e, f)
             /\ e.ret = OK => c.ret = OK /\ Stays(c.flash, e.flash) /\ Tidy(c.flash, e.flash)
             /\ e.ret = OK => \A i \in 1 .. n : ~Bad(e.flash, p, i)
             /\ c.ret = OK /\ Clean(c.flash) => e.ret = OK /\ SameReads(c.flash, e.flash)
<1>0. PageCap \in Nat \ {0} /\ c.flash \in Flashes BY SoundFacts DEF Sized
<1>1. PICK run : Ran("recoverKey", p, c, PageCap, run) /\ run[PageCap] = r
  BY <1>0, OverRecoverKey DEF Ended
<1> HIDE DEF r
<1>2. run[0] = c BY <1>1 DEF Ran
<1>3. ASSUME NEW i \in 1 .. PageCap
      PROVE  run[i] = RecoverKey(run[i - 1], [p |-> p, i |-> i])
  BY <1>1 DEF Ran, Visit
<1> DEFINE S == {n \in Nat : n <= PageCap => Done(run[n], n)}
<1>4. 0 \in S
  <2>1. Done(c, 0) BY <1>0, FramesRefl
  <2> HIDE DEF Done
  <2> QED BY <1>2, <2>1
<1>5. ASSUME NEW n \in Nat, n \in S PROVE n + 1 \in S
  <2> SUFFICES ASSUME n + 1 <= PageCap PROVE Done(run[n + 1], n + 1)
    <3> HIDE DEF Done
    <3> QED OBVIOUS
  <2> DEFINE e == run[n]
             h == run[n + 1]
  <2>1. Done(e, n)
    <3> HIDE DEF Done
    <3> QED BY <1>0, <1>5
  <2>2. n + 1 \in 1 .. PageCap /\ (n + 1) - 1 = n BY <1>0
  <2>3. h = RecoverKey(e, [p |-> p, i |-> n + 1]) BY <1>3, <2>2
  <2> HIDE DEF e, h
  <2>4. Sound(e, f) BY <2>1
  <2>5. /\ Sound(h, f)
        /\ h.ret = OK => /\ e.ret = OK /\ Stays(e.flash, h.flash) /\ Tidy(e.flash, h.flash)
                         /\ ~Bad(h.flash, p, n + 1)
        /\ e.ret = OK /\ ~Bad(e.flash, p, n + 1) => h.ret = OK /\ SameReads(e.flash, h.flash)
    BY <2>2, <2>3, <2>4, RecoverKeySound
  <2>6. e.flash \in Flashes /\ h.flash \in Flashes BY <2>4, <2>5, SoundFacts
  <2>7. h.ret = OK => c.ret = OK /\ Stays(c.flash, h.flash) /\ Tidy(c.flash, h.flash)
    BY <1>0, <2>1, <2>5, <2>6, FramesTrans
  <2>8. h.ret = OK => \A i \in 1 .. n + 1 : ~Bad(h.flash, p, i)
    <3> SUFFICES ASSUME h.ret = OK, NEW i \in 1 .. n + 1, Bad(h.flash, p, i) PROVE FALSE OBVIOUS
    <3>1. i # n + 1 BY <2>5
    <3>2. i \in 1 .. n BY <3>1
    <3>3. e.ret = OK /\ Bad(e.flash, p, i) BY <2>5 DEF Tidy
    <3> QED BY <2>1, <3>2, <3>3
  <2>9. c.ret = OK /\ Clean(c.flash) => h.ret = OK /\ SameReads(c.flash, h.flash)
    <3> SUFFICES ASSUME c.ret = OK, Clean(c.flash) PROVE h.ret = OK /\ SameReads(c.flash, h.flash)
      OBVIOUS
    <3>1. e.ret = OK /\ SameReads(c.flash, e.flash) /\ Tidy(c.flash, e.flash) BY <2>1
    <3>2. ~Bad(e.flash, p, n + 1) BY <3>1 DEF Tidy, Clean
    <3> QED BY <1>0, <2>5, <2>6, <3>1, <3>2, FramesTrans
  <2> QED BY <2>5, <2>7, <2>8, <2>9 DEF h
<1> HIDE DEF S
<1>6. PageCap \in S
  <2>1. \A n \in Nat : n \in S BY <1>4, <1>5, Inductive
  <2> QED BY <1>0, <2>1
<1>7. Done(r, PageCap)
  <2> HIDE DEF Done
  <2> QED BY <1>0, <1>1, <1>6 DEF S
<1>8. r.ret = OK => \A i : ~Bad(r.flash, p, i)
  <2> SUFFICES ASSUME r.ret = OK, NEW i, Bad(r.flash, p, i) PROVE FALSE OBVIOUS
  <2>1. There(r.flash, p, i) /\ r.flash \in Flashes BY <1>7, SoundFacts DEF Bad
  <2>2. i \in 1 .. PageCap BY <1>0, <2>1, ThereFacts
  <2> QED BY <1>7, <2>2
<1> QED BY <1>7, <1>8 DEF r

\* key_value_recovery, the pages in use.
LEMMA ReusedSound ==
  ASSUME Sized, NEW c, NEW f, Sound(c, f),
         c.ret = OK => NoErased(c.flash) /\ NoneUnderway(c.flash)
  PROVE  LET d == Reused(c)
         IN  /\ Sound(d, f)
             /\ d.ret = OK => c.ret = OK /\ Stays(c.flash, d.flash) /\ Clean(d.flash)
             /\ c.ret = OK /\ Clean(c.flash) => d.ret = OK /\ SameReads(c.flash, d.flash)
<1> DEFINE r == Reused(c)
           Done(e, n) ==
             /\ Sound(e, f)
             /\ e.ret = OK => c.ret = OK /\ Stays(c.flash, e.flash) /\ Tidy(c.flash, e.flash)
             /\ e.ret = OK => \A p \in Pages : p <= n => \A i : ~Bad(e.flash, p, i)
             /\ c.ret = OK /\ Clean(c.flash) => e.ret = OK /\ SameReads(c.flash, e.flash)
<1>0. NPages \in Nat \ {0} /\ Pages = 1 .. NPages /\ c.flash \in Flashes
  BY SoundFacts DEF Sized, Pages
<1>1. PICK run : Ran("using", 0, c, NPages, run) /\ run[NPages] = r
  BY <1>0, OverUsing DEF Ended
<1> HIDE DEF r
<1>2. run[0] = c BY <1>1 DEF Ran
<1>3. ASSUME NEW i \in 1 .. NPages
      PROVE  run[i] = IF run[i - 1].flash[i].st = "using"
                      THEN OverSlots(RecoverKey, run[i - 1], i) ELSE run[i - 1]
  BY <1>1 DEF Ran, Visit
<1> DEFINE S == {n \in Nat : n <= NPages => Done(run[n], n)}
<1>4. 0 \in S
  <2>1. \A p \in Pages : ~(p <= 0) BY <1>0
  <2>2. Done(c, 0) BY <1>0, <2>1, FramesRefl
  <2> HIDE DEF Done
  <2> QED BY <1>2, <2>2
<1>5. ASSUME NEW n \in Nat, n \in S PROVE n + 1 \in S
  <2> SUFFICES ASSUME n + 1 <= NPages PROVE Done(run[n + 1], n + 1)
    <3> HIDE DEF Done
    <3> QED OBVIOUS
  <2> DEFINE e == run[n]
             h == run[n + 1]
  <2>1. Done(e, n)
    <3> HIDE DEF Done
    <3> QED BY <1>0, <1>5
  <2>2. n + 1 \in 1 .. NPages /\ (n + 1) - 1 = n /\ n + 1 \in Pages BY <1>0
  <2>3. h = IF e.flash[n + 1].st = "using" THEN OverSlots(RecoverKey, e, n + 1) ELSE e
    BY <1>3, <2>2
  <2>4. \A p \in Pages : p <= n + 1 <=> p <= n \/ p = n + 1 BY <1>0
  <2> HIDE DEF e, h
  <2>5. Sound(e, f) /\ e.flash \in Flashes /\ Good(e.flash) BY <2>1, SoundFacts
  <2>6. CASE e.flash[n + 1].st = "using"
    <3>1. h = OverSlots(RecoverKey, e, n + 1) BY <2>3, <2>6
    <3>2. /\ Sound(h, f)
          /\ h.ret = OK => /\ e.ret = OK /\ Stays(e.flash, h.flash) /\ Tidy(e.flash, h.flash)
                           /\ \A i : ~Bad(h.flash, n + 1, i)
          /\ e.ret = OK /\ Clean(e.flash) => h.ret = OK /\ SameReads(e.flash, h.flash)
      BY <2>2, <2>5, <3>1, RecoverKeysSound
    <3>3. h.flash \in Flashes BY <3>2, SoundFacts
    <3>4. h.ret = OK => c.ret = OK /\ Stays(c.flash, h.flash) /\ Tidy(c.flash, h.flash)
      BY <1>0, <2>1, <2>5, <3>2, <3>3, FramesTrans
    <3>5. h.ret = OK => \A p \in Pages : p <= n + 1 => \A i : ~Bad(h.flash, p, i)
      BY <2>1, <2>4, <3>2 DEF Tidy
    <3>6. c.ret = OK /\ Clean(c.flash) => h.ret = OK /\ SameReads(c.flash, h.flash)
      <4> SUFFICES ASSUME c.ret = OK, Clean(c.flash)
                   PROVE  h.ret = OK /\ SameReads(c.flash, h.flash)
        OBVIOUS
      <4>1. e.ret = OK /\ SameReads(c.flash, e.flash) /\ Tidy(c.flash, e.flash) BY <2>1
      <4>2. Clean(e.flash) BY <4>1 DEF Tidy, Clean
      <4> QED BY <1>0, <2>5, <3>2, <3>3, <4>1, <4>2, FramesTrans
    <3> QED BY <3>2, <3>4, <3>5, <3>6 DEF h
  <2>7. CASE e.flash[n + 1].st # "using"
    <3>1. h = e BY <2>3, <2>7
    <3>2. e.ret = OK => \A i : ~Bad(e.flash, n + 1, i)
      <4> SUFFICES ASSUME e.ret = OK PROVE \A i : ~Bad(e.flash, n + 1, i) OBVIOUS
      <4>1. NoErased(e.flash) /\ NoneUnderway(e.flash) BY <2>1, StaysNone
      <4>2. e.flash[n + 1].st \in PageSts BY <2>2, <2>5, FlashFacts
      <4>3. e.flash[n + 1].st = "empty"
        BY <2>2, <2>7, <4>1, <4>2 DEF NoErased, NoneUnderway, PageSts
      <4>4. e.flash[n + 1].kv = <<>> /\ Len(<<>>) = 0
        BY <2>2, <2>5, <4>3 DEF Good, Blanks
      <4> QED BY <4>4 DEF Bad, There
    <3> QED BY <2>1, <2>4, <3>1, <3>2 DEF h
  <2> QED BY <2>6, <2>7
<1> HIDE DEF S
<1>6. NPages \in S
  <2>1. \A n \in Nat : n \in S BY <1>4, <1>5, Inductive
  <2> QED BY <1>0, <2>1
<1>7. Done(r, NPages)
  <2> HIDE DEF Done
  <2> QED BY <1>0, <1>1, <1>6 DEF S
<1>8. r.ret = OK => Clean(r.flash)
  <2> SUFFICES ASSUME r.ret = OK, NEW p, NEW i, Bad(r.flash, p, i) PROVE FALSE BY DEF Clean
  <2>1. p \in Pages /\ p <= NPages BY <1>0 DEF Bad, There
  <2> QED BY <1>7, <2>1
<1> QED BY <1>7, <1>8 DEF r

\* key_value_init: what every start leaves, and what it does to a store that
\* has nothing to recover.
Settled(f) == NoErased(f) /\ NoneUnderway(f) /\ Clean(f)

LEMMA StartSound ==
  ASSUME Sized, NEW f, Good(f)
  PROVE  LET d == Start(f)
         IN  /\ Sound(d, f)
             /\ d.ret = OK => Settled(d.flash)
             /\ Settled(f) => d.ret = OK /\ SameReads(f, d.flash)
<1> DEFINE c == Run(f)
           m == MagicCheck(c)
           e == Defragged(m)
           d == Reused(e)
<1>0. Start(f) = d BY DEF Start, Recovery, Defragged, Reused
<1>1. Sound(c, f) /\ c.flash = f /\ c.ret = OK BY SoundRun
<1> HIDE DEF c
<1>2. /\ Sound(m, f) /\ m.ret = OK /\ NoErased(m.flash)
      /\ NoErased(c.flash) => m = c
  BY <1>1, MagicSound
<1> HIDE DEF m
<1>3. /\ Sound(e, f) /\ (e.ret = OK => NoErased(e.flash) /\ NoneUnderway(e.flash))
      /\ NoneUnderway(m.flash) => e = m
  BY <1>2, DefraggedSound
<1> HIDE DEF e
<1>4. /\ Sound(d, f)
      /\ d.ret = OK => e.ret = OK /\ Stays(e.flash, d.flash) /\ Clean(d.flash)
      /\ e.ret = OK /\ Clean(e.flash) => d.ret = OK /\ SameReads(e.flash, d.flash)
  BY <1>3, ReusedSound
<1> HIDE DEF d
<1>5. d.ret = OK => Settled(d.flash) BY <1>3, <1>4, StaysNone DEF Settled
<1>6. Settled(f) => d.ret = OK /\ SameReads(f, d.flash)
  BY <1>1, <1>2, <1>3, <1>4 DEF Settled
<1> QED BY <1>0, <1>4, <1>5, <1>6

-----------------------------------------------------------------------------
(* What the interface reads, and what a running function leaves behind. *)

LEMMA ContentsAre ==
  ASSUME Sized, NEW f, Good(f), NEW k \in Keys
  PROVE  /\ NoValid(f, k) => Contents(f)[k] = None
         /\ \A v : Reads(f, k, v) => Contents(f)[k] = v
<1> DEFINE A == Found(f, k, "valid")
           a == First(A)
<1>1. Contents(f)[k] = IF A = {} THEN None ELSE Entry(f, a).val BY DEF Contents
<1>2. /\ A = {} <=> NoValid(f, k)
      /\ A # {} => ValidAt(f, a.p, a.i, k)
  BY ValidFound
<1> HIDE DEF A, a
<1>3. \A v : Reads(f, k, v) => ~NoValid(f, k) BY NoReads
<1>4. \A v : Reads(f, k, v) => f[a.p].kv[a.i].val = v BY <1>2, <1>3, OnlyOne
<1> QED BY <1>1, <1>2, <1>3, <1>4 DEF Entry

LEMMA SameContents ==
  ASSUME Sized, NEW f, NEW g, Good(f), Good(g), SameReads(f, g)
  PROVE  Contents(f) = Contents(g)
<1>1. ASSUME NEW k \in Keys PROVE Contents(f)[k] = Contents(g)[k]
  <2>1. CASE NoValid(f, k)
    <3>1. NoValid(g, k) BY <2>1, NoReads DEF SameReads
    <3> QED BY <2>1, <3>1, ContentsAre
  <2>2. CASE ~NoValid(f, k)
    <3>1. PICK v : Reads(f, k, v) BY <2>2, NoReads
    <3>2. Reads(g, k, v) BY <3>1 DEF SameReads
    <3> QED BY <3>1, <3>2, ContentsAre
  <2> QED BY <2>1, <2>2
<1>2. \A h : Contents(h) = [k \in Keys |-> Contents(h)[k]] BY DEF Contents
<1> QED BY <1>1, <1>2

LEMMA UpdatedContents ==
  ASSUME Sized, NEW f, NEW g, Good(f), Good(g), NEW k \in Keys, NEW v,
         \/ Reads(g, k, v)
         \/ NoValid(g, k) /\ v = None,
         \A k2, w : k2 # k => (Reads(g, k2, w) <=> Reads(f, k2, w))
  PROVE  Contents(g) = [Contents(f) EXCEPT ![k] = v]
<1>1. ASSUME NEW j \in Keys, j # k PROVE Contents(f)[j] = Contents(g)[j]
  <2>1. CASE NoValid(f, j)
    <3>1. NoValid(g, j) BY <1>1, <2>1, NoReads
    <3> QED BY <2>1, <3>1, ContentsAre
  <2>2. CASE ~NoValid(f, j)
    <3>1. PICK w : Reads(f, j, w) BY <2>2, NoReads
    <3>2. Reads(g, j, w) BY <1>1, <3>1
    <3> QED BY <3>1, <3>2, ContentsAre
  <2> QED BY <2>1, <2>2
<1>2. \A h : Contents(h) = [j \in Keys |-> Contents(h)[j]] BY DEF Contents
<1>3. Contents(g)[k] = v BY ContentsAre
<1> QED BY <1>1, <1>2, <1>3

-----------------------------------------------------------------------------
(* The store as it runs.  The writes still to be made lead through good flash *)
(* to the flash the function under way has in mind; when it ends well, or has *)
(* ended, that one holds no page recovery would have to deal with.  The last  *)
(* part is for behaviours in which recovery completes.                        *)

Succeeding ==
  \/ op.kind = "idle"
  \/ op.kind = "write" /\ op.ret # "assert"
  \/ op.kind = "start" /\ op.ret = OK
Resolved(g) == NoErased(g) /\ NoneUnderway(g) /\ (~StaleWrites => Clean(g))

FlashInv(recovering) ==
  /\ FlashOK
  /\ todo \in Seq(FlashWrites)
  /\ op.kind \in {"idle", "off"} => todo = <<>>
  /\ \E g : Leads(pages, todo, g) /\ (recovering /\ Succeeding => Resolved(g))

LEMMA SizedBy == Sized /\ MaxCrashes \in Nat
BY KvFlashAssumption DEF Sized

LEMMA TypedBy ==
  FlashOK <=> /\ pages \in Flashes
               /\ op \in [kind : {"idle", "off", "start"}, key : {None}, val : {None}, ret : Rets]
                      \cup [kind : {"write"}, key : Keys, val : Vals \cup {None}, ret : Rets]
               /\ crashes \in 0 .. MaxCrashes
BY DEF FlashOK, Flashes, Rets, OK

\* A function that begins.
LEMMA BeginsWell ==
  ASSUME NEW recovering \in BOOLEAN, FlashOK, NEW c, Sound(c, pages),
         NEW kind, NEW k, NEW v, Begin(kind, k, v, c),
         \/ kind = "start" /\ k = None /\ v = None
         \/ kind = "write" /\ k \in Keys /\ v \in Vals \cup {None},
         recovering => \/ kind = "start" /\ c.ret # OK
                       \/ kind = "write" /\ c.ret = "assert"
                       \/ Resolved(c.flash)
  PROVE  FlashInv(recovering)'
<1>1. /\ todo' = c.ws /\ pages' = pages /\ crashes' = crashes
      /\ op' = [kind |-> kind, key |-> k, val |-> v, ret |-> c.ret]
  BY DEF Begin
<1>2. c.ws \in Seq(FlashWrites) /\ c.ret \in Rets /\ Leads(pages, c.ws, c.flash)
  BY SoundFacts DEF Sound
<1>3. /\ pages' \in Flashes /\ crashes' \in 0 .. MaxCrashes
      /\ op' \in [kind : {"idle", "off", "start"}, key : {None}, val : {None}, ret : Rets]
              \cup [kind : {"write"}, key : Keys, val : Vals \cup {None}, ret : Rets]
  BY <1>1, <1>2, TypedBy
<1>4. FlashOK' BY <1>3 DEF FlashOK, Flashes, Rets, OK
<1>5. op'.kind \notin {"idle", "off"} BY <1>1
<1>6. Succeeding' => ~(kind = "start" /\ c.ret # OK) /\ ~(kind = "write" /\ c.ret = "assert")
  BY <1>1 DEF Succeeding
<1>7. Resolved(c.flash) => Resolved(c.flash)' BY DEF Resolved
<1>8. Leads(pages, todo, c.flash)' BY <1>1, <1>2
<1>9. (\E g : Leads(pages, todo, g) /\ (recovering /\ Succeeding => Resolved(g)))'
  BY <1>6, <1>7, <1>8
<1> QED BY <1>1, <1>2, <1>4, <1>5, <1>9 DEF FlashInv

\* Between functions flash is what the last one left.
LEMMA AtRest ==
  ASSUME NEW recovering \in BOOLEAN, FlashInv(recovering), op.kind \in {"idle", "off"}
  PROVE  todo = <<>> /\ Good(pages) /\ (recovering /\ op.kind = "idle" => Resolved(pages))
<1>1. PICK g : Leads(pages, todo, g) /\ (recovering /\ Succeeding => Resolved(g)) BY DEF FlashInv
<1>2. todo = <<>> /\ todo \in Seq(FlashWrites) BY DEF FlashInv
<1>3. Good(pages) /\ g = pages
  <2>1. Leads(pages, todo, g) /\ todo \in Seq(FlashWrites) BY <1>1, <1>2
  <2>2. Good(pages) /\ (todo = <<>> => pages = g) BY <2>1, LeadsFacts
  <2> QED BY <1>2, <2>2
<1> QED BY <1>1, <1>2, <1>3 DEF Succeeding

LEMMA ResolvedOn ==
  ASSUME NEW f, NEW g, Resolved(f), Stays(f, g), Tidy(f, g)
  PROVE  Resolved(g)
<1>1. NoErased(g) /\ NoneUnderway(g) BY StaysNone DEF Resolved
<1>2. Clean(f) => Clean(g) BY DEF Clean, Tidy
<1> QED BY <1>1, <1>2 DEF Resolved

LEMMA WriteStep ==
  ASSUME Sized, NEW recovering \in BOOLEAN, FlashInv(recovering),
         NEW k \in Keys, NEW v \in Vals, Write(k, v)
  PROVE  FlashInv(recovering)'
<1> DEFINE r == Run(pages)
           c == WriteKey(r, k, v)
<1>1. op.kind = "idle" /\ Begin("write", k, v, c) /\ FlashOK /\ v \in Datas
  BY DEF Write, FlashInv, Datas
<1>2. Good(pages) /\ (recovering => Resolved(pages)) BY <1>1, AtRest
<1>3. Sound(r, pages) /\ r.flash = pages /\ r.ret = OK BY <1>2, SoundRun
<1> HIDE DEF r
<1>4. /\ Sound(c, pages)
      /\ c.ret = OK => Stays(pages, c.flash) /\ Tidy(pages, c.flash)
      /\ c.ret = "KV_NO_ENOUGH_SPACE" => Frames(pages, c.flash)
  BY <1>1, <1>3, WriteKeySound
<1> HIDE DEF c
<1>5. c.ret \in Rets BY <1>4, SoundFacts
<1>6. c.ret # "assert" => Stays(pages, c.flash) /\ Tidy(pages, c.flash)
  BY <1>4, <1>5 DEF Rets, Frames
<1>7. recovering => c.ret = "assert" \/ Resolved(c.flash) BY <1>2, <1>6, ResolvedOn
<1> QED BY <1>1, <1>4, <1>7, BeginsWell

LEMMA DeletingFacts ==
  ASSUME Sized, NEW f \in Flashes, Deleting(f) = {}
  PROVE  NoDeleting(f)
<1> SUFFICES ASSUME NEW p, NEW i, There(f, p, i), f[p].kv[i].st = "deleting" PROVE FALSE
  BY DEF NoDeleting
<1>1. p \in Pages /\ i \in 1 .. PageCap /\ i <= Len(f[p].kv)
  <2>1. PageCap \in Nat BY DEF Sized
  <2> QED BY <2>1, ThereFacts
<1>2. [p |-> p, i |-> i] \in Deleting(f) BY <1>1 DEF Deleting, Entry
<1> QED BY <1>2

LEMMA DeleteStep ==
  ASSUME Sized, NEW recovering \in BOOLEAN, FlashInv(recovering), NEW k \in Keys, Delete(k)
  PROVE  FlashInv(recovering)'
<1> DEFINE r == Run(pages)
           c == RemoveKey(r, k)
<1>1. /\ op.kind = "idle" /\ Begin("write", k, None, c) /\ FlashOK
      /\ StaleWrites \/ Deleting(pages) = {}
  BY DEF Delete, FlashInv
<1>2. Good(pages) /\ (recovering => Resolved(pages)) /\ pages \in Flashes BY <1>1, AtRest DEF Good
<1>3. Sound(r, pages) /\ r.flash = pages /\ r.ret = OK BY <1>2, SoundRun
<1> HIDE DEF r
<1>4. /\ Sound(c, pages) /\ Stays(pages, c.flash)
      /\ Clean(pages) /\ NoDeleting(pages) => Clean(c.flash)
  BY <1>3, RemoveKeySound
<1> HIDE DEF c
<1>5. recovering => Resolved(c.flash)
  <2>1. ~StaleWrites => NoDeleting(pages) BY <1>1, <1>2, DeletingFacts
  <2> QED BY <1>2, <1>4, <2>1, StaysNone DEF Resolved
<1> QED BY <1>1, <1>4, <1>5, BeginsWell

LEMMA StartStep ==
  ASSUME Sized, NEW recovering \in BOOLEAN, FlashInv(recovering), PowerUp
  PROVE  FlashInv(recovering)'
<1> DEFINE c == Start(pages)
<1>1. op.kind = "off" /\ Begin("start", None, None, c) /\ FlashOK BY DEF PowerUp, FlashInv
<1>2. Good(pages) BY <1>1, AtRest
<1>3. Sound(c, pages) /\ (c.ret = OK => Settled(c.flash)) BY <1>2, StartSound
<1> HIDE DEF c
<1>4. c.ret # OK \/ Resolved(c.flash) BY <1>3 DEF Settled, Resolved
<1> QED BY <1>1, <1>3, <1>4, BeginsWell

LEMMA FlashWriteStep ==
  ASSUME NEW recovering \in BOOLEAN, FlashInv(recovering), FlashWrite
  PROVE  FlashInv(recovering)'
<1>1. /\ todo # <<>> /\ pages' = Program(pages, Head(todo)) /\ todo' = Tail(todo)
      /\ op' = op /\ crashes' = crashes
  BY DEF FlashWrite
<1>2. PICK g : Leads(pages, todo, g) /\ (recovering /\ Succeeding => Resolved(g)) BY DEF FlashInv
<1>3. todo \in Seq(FlashWrites) /\ FlashOK BY DEF FlashInv
<1>4. Good(pages') /\ Leads(pages', todo', g) /\ todo' \in Seq(FlashWrites)
  BY <1>1, <1>2, <1>3, LeadsRest
<1>5. FlashOK'
  <2>1. pages' \in Flashes BY <1>4 DEF Good
  <2> QED BY <1>1, <1>3, <2>1 DEF FlashOK, Flashes
<1>6. op'.kind \notin {"idle", "off"} BY <1>1 DEF FlashInv
<1>7. (recovering /\ Succeeding => Resolved(g)) => (recovering /\ Succeeding => Resolved(g))'
  BY <1>1 DEF Succeeding, Resolved
<1> QED BY <1>2, <1>4, <1>5, <1>6, <1>7 DEF FlashInv

LEMMA FlashReturnStep ==
  ASSUME NEW recovering \in BOOLEAN, recovering => RecoveryCompletes,
         FlashInv(recovering), Returns
  PROVE  FlashInv(recovering)'
<1>1. /\ op.kind \in {"write", "start"} /\ todo = <<>>
      /\ op' = Resting(IF op.ret = "assert" THEN "off" ELSE "idle")
      /\ pages' = pages /\ todo' = todo /\ crashes' = crashes
  BY DEF Returns
<1>2. PICK g : Leads(pages, todo, g) /\ (recovering /\ Succeeding => Resolved(g)) BY DEF FlashInv
<1>3. todo \in Seq(FlashWrites) /\ FlashOK BY DEF FlashInv
<1>4. Leads(pages', todo', g) /\ todo' \in Seq(FlashWrites) BY <1>1, <1>2, <1>3
<1>5. FlashOK'
  <2>1. op' \in [kind : {"idle", "off", "start"}, key : {None}, val : {None}, ret : Rets]
    BY <1>1 DEF Resting, Rets, OK
  <2> QED BY <1>1, <1>3, <2>1 DEF FlashOK, Rets, OK
<1>6. (recovering /\ Succeeding => Resolved(g))'
  <2> SUFFICES ASSUME recovering, Succeeding' PROVE Resolved(g) BY DEF Resolved
  <2>1. op.ret # "assert" BY <1>1 DEF Succeeding, Resting
  <2>2. op.kind = "start" => op.ret = OK BY DEF RecoveryCompletes, OK
  <2>3. Succeeding BY <1>1, <2>1, <2>2 DEF Succeeding
  <2> QED BY <1>2, <2>3
<1> QED BY <1>1, <1>4, <1>5, <1>6 DEF FlashInv

\* Power fails between two writes, or in the middle of a header.
LEMMA PowerLossStep ==
  ASSUME Sized, MaxCrashes \in Nat, NEW recovering \in BOOLEAN, FlashInv(recovering), PowerLoss
  PROVE  FlashInv(recovering)'
<1>1. crashes < MaxCrashes /\ crashes' = crashes + 1 /\ op' = Resting("off") /\ todo' = <<>>
  BY DEF PowerLoss
<1>2. PICK g : Leads(pages, todo, g) BY DEF FlashInv
<1>3. todo \in Seq(FlashWrites) /\ FlashOK BY DEF FlashInv
<1>4. Good(pages) /\ pages \in Flashes BY <1>2, <1>3, LeadsFacts DEF Good
<1>5. Good(pages')
  <2>1. CASE UNCHANGED pages BY <1>4, <2>1
  <2>2. CASE /\ todo # <<>> /\ Head(todo).op = "header"
             /\ Head(todo).i > Len(pages[Head(todo).p].kv)
             /\ pages' = [pages EXCEPT ![Head(todo).p].kv = Append(@, Torn)]
    <3> DEFINE w == Head(todo)
               l == pages[w.p].kv
               h == Program(pages, w)
               e == [st |-> "writing", key |-> w.key, val |-> None]
    <3>1. Good(h) /\ w \in FlashWrites BY <1>2, <1>3, <2>2, LeadsRest
    <3>2. w.p \in Pages /\ w.i \in Nat /\ w.key \in Keys BY <2>2, <3>1 DEF FlashWrites
    <3> HIDE DEF w
    <3>3. /\ l \in Seq(Entries) /\ Len(l) \in Nat /\ Len(l) <= PageCap
          /\ pages[w.p] = [st |-> pages[w.p].st, kv |-> l] /\ pages[w.p].st \in PageSts
      BY <1>4, <3>2, FlashFacts
    <3>4. h = [pages EXCEPT ![w.p].kv = Append(@, e)] BY Zenon, <2>2 DEF Program, w
    <3>5. h[w.p].kv = Append(l, e) /\ h[w.p].st = pages[w.p].st
      BY <1>4, <3>2, <3>3, <3>4 DEF Flashes
    <3>e. e \in Entries BY <3>2, EntryMade DEF Named, Datas
    <3> HIDE DEF h, e
    <3>6. Len(l) + 1 <= PageCap /\ pages[w.p].st \notin {"erased", "empty"}
      <4>1. h \in Flashes BY <3>1 DEF Good
      <4>2. Len(h[w.p].kv) <= PageCap BY <3>2, <4>1, FlashFacts
      <4>3. Len(Append(l, e)) = Len(l) + 1 /\ Append(l, e) # <<>> BY <3>3, <3>e
      <4>4. h[w.p].st \notin {"erased", "empty"} BY <3>1, <3>2, <3>5, <4>3 DEF Good, Blanks
      <4> QED BY <3>5, <4>2, <4>3, <4>4
    <3> DEFINE m == Append(l, Torn)
    <3>7. /\ m \in Seq(Entries) /\ Len(m) = Len(l) + 1 /\ m[Len(l) + 1] = Torn
          /\ \A j \in 1 .. Len(l) : m[j] = l[j]
      BY <3>3, EntryMade
    <3>8. [st |-> pages[w.p].st, kv |-> m] \in PageType BY <3>3, <3>6, <3>7, PageMade
    <3>9. pages' = [pages EXCEPT ![w.p] = [st |-> pages[w.p].st, kv |-> m]]
      <4>1. pages' = [pages EXCEPT ![w.p].kv = m] BY <2>2 DEF w
      <4> HIDE DEF m, l
      <4>2. \A r, x : r = [st |-> r.st, kv |-> r.kv] => [r EXCEPT !.kv = x] = [st |-> r.st, kv |-> x]
        OBVIOUS
      <4>3. [pages[w.p] EXCEPT !.kv = m] = [st |-> pages[w.p].st, kv |-> m] BY <3>3, <4>2
      <4>4. pages' = [pages EXCEPT ![w.p] = [pages[w.p] EXCEPT !.kv = m]] BY <4>1
      <4> QED BY <4>3, <4>4
    <3> HIDE DEF m
    <3>10. /\ pages' \in Flashes /\ OnlyPage(pages, pages', w.p)
           /\ pages'[w.p].st = pages[w.p].st /\ pages'[w.p].kv = m
      BY <1>4, <3>2, <3>8, <3>9 DEF Flashes, OnlyPage
    <3>11. m[Len(l) + 1].st # "valid" BY <3>7, EntryMade
    <3> QED BY <1>4, <3>2, <3>6, <3>7, <3>10, <3>11, GoodHeader
  <2> QED BY <2>1, <2>2 DEF PowerLoss
<1>6. Leads(pages', todo', pages') BY <1>1, <1>5, LeadsEmpty
<1>7. FlashOK'
  <2>1. op' \in [kind : {"idle", "off", "start"}, key : {None}, val : {None}, ret : Rets]
    BY <1>1 DEF Resting, Rets, OK
  <2>2. crashes' \in 0 .. MaxCrashes
    <3>1. crashes \in 0 .. MaxCrashes BY <1>3 DEF FlashOK
    <3> QED BY <1>1, <3>1
  <2>3. pages' \in Flashes BY <1>5 DEF Good
  <2> QED BY <2>1, <2>2, <2>3 DEF FlashOK, Flashes, Rets, OK
<1>8. ~Succeeding' BY <1>1 DEF Succeeding, Resting
<1>9. todo' \in Seq(FlashWrites) BY <1>1
<1> QED BY <1>1, <1>6, <1>7, <1>8, <1>9 DEF FlashInv

LEMMA FlashStarts ==
  ASSUME Sized, MaxCrashes \in Nat, NEW recovering \in BOOLEAN, FlashInit
  PROVE  FlashInv(recovering)
<1>1. /\ pages = [p \in Pages |-> [st |-> "empty", kv |-> <<>>]]
      /\ todo = <<>> /\ op = Resting("idle") /\ crashes = 0
  BY DEF FlashInit
<1>2. [st |-> "empty", kv |-> <<>>] \in PageType
  <2>1. <<>> \in Seq(Entries) /\ Len(<<>>) = 0 /\ "empty" \in PageSts BY DEF PageSts
  <2>2. 0 <= PageCap BY DEF Sized
  <2> QED BY <2>1, <2>2, PageMade
<1>3. pages \in Flashes BY <1>1, <1>2 DEF Flashes
<1>4. \A p \in Pages : pages[p].st = "empty" /\ pages[p].kv = <<>> BY <1>1
<1>5. \A p, i : ~There(pages, p, i)
  <2>1. Len(<<>>) = 0 OBVIOUS
  <2> QED BY <1>4, <2>1 DEF There
<1>6. Good(pages)
  <2>1. 1 \in Pages BY DEF Pages, Sized
  <2>2. Spare(pages) BY <1>4, <2>1 DEF Spare, Spares
  <2>3. OneEach(pages) BY <1>5 DEF OneEach, ValidAt
  <2>4. Blanks(pages) BY <1>4 DEF Blanks
  <2> QED BY <1>3, <2>2, <2>3, <2>4 DEF Good
<1>7. Leads(pages, todo, pages) BY <1>1, <1>6, LeadsEmpty
<1>8. Resolved(pages) BY <1>4, <1>5 DEF Resolved, NoErased, NoneUnderway, Clean, Bad
<1>9. FlashOK
  <2>1. op \in [kind : {"idle", "off", "start"}, key : {None}, val : {None}, ret : Rets]
    BY <1>1 DEF Resting, Rets, OK
  <2>2. crashes \in 0 .. MaxCrashes BY <1>1
  <2> QED BY <1>3, <2>1, <2>2, TypedBy
<1>10. todo \in Seq(FlashWrites) BY <1>1
<1> QED BY <1>1, <1>7, <1>8, <1>9, <1>10 DEF FlashInv

LEMMA FlashSteps ==
  ASSUME NEW recovering \in BOOLEAN, recovering => RecoveryCompletes,
         FlashInv(recovering), [FlashNext]_flashVars
  PROVE  FlashInv(recovering)'
<1>0. Sized /\ MaxCrashes \in Nat BY SizedBy
<1>1. ASSUME NEW k \in Keys, Delete(k) PROVE FlashInv(recovering)' BY <1>0, <1>1, DeleteStep
<1>2. ASSUME NEW k \in Keys, NEW v \in Vals, Write(k, v) PROVE FlashInv(recovering)'
  BY <1>0, <1>2, WriteStep
<1>3. CASE FlashWrite BY <1>3, FlashWriteStep
<1>4. CASE Returns BY <1>4, FlashReturnStep
<1>5. CASE PowerLoss BY <1>0, <1>5, PowerLossStep
<1>6. CASE PowerUp BY <1>0, <1>6, StartStep
<1>7. CASE UNCHANGED flashVars
  <2>1. pages' = pages /\ todo' = todo /\ op' = op /\ crashes' = crashes BY <1>7 DEF flashVars
  <2>2. FlashOK' BY <2>1 DEF FlashInv, FlashOK
  <2>3. PICK g : Leads(pages, todo, g) /\ (recovering /\ Succeeding => Resolved(g)) BY DEF FlashInv
  <2>4. Leads(pages', todo', g) BY <2>1, <2>3
  <2>5. (recovering /\ Succeeding => Resolved(g)) => (recovering /\ Succeeding => Resolved(g))'
    BY <2>1 DEF Succeeding, Resolved
  <2>6. todo' \in Seq(FlashWrites) /\ (op'.kind \in {"idle", "off"} => todo' = <<>>)
    BY <2>1 DEF FlashInv
  <2> QED BY <2>2, <2>3, <2>4, <2>5, <2>6 DEF FlashInv
<1> QED BY <1>1, <1>2, <1>3, <1>4, <1>5, <1>6, <1>7 DEF FlashNext

LEMMA FlashSound ==
  ASSUME NEW recovering \in BOOLEAN, FlashInv(recovering)
  PROVE  /\ FlashOK /\ OneValid
         /\ recovering => CompactionFinished /\ RoomToCompact
<1>1. PICK g : Leads(pages, todo, g) BY DEF FlashInv
<1>2. Sized /\ todo \in Seq(FlashWrites) /\ FlashOK BY SizedBy DEF FlashInv
<1>3. Good(pages) BY <1>1, <1>2, LeadsFacts
<1>4. OneValid BY <1>2, <1>3, ValidFound DEF OneValid
<1>5. ASSUME recovering, op.kind = "idle"
      PROVE  NoneUnderway(pages) /\ \E p \in Pages : pages[p].st = "empty"
  <2>1. NoErased(pages) /\ NoneUnderway(pages) BY <1>5, AtRest DEF Resolved
  <2>2. PICK p \in Pages : pages[p].st \in Spares BY <1>3 DEF Good, Spare
  <2> QED BY <2>1, <2>2 DEF NoErased, NoneUnderway, Spares
<1> QED BY <1>2, <1>4, <1>5 DEF CompactionFinished, RoomToCompact, NoneUnderway

\* Whatever is written and wherever power is lost, a key never has two valid
\* entries, so that key_value_find_key has one to find (key_value.c:288-332).
THEOREM KeyHasOneEntry ==
  FlashSpec => [](FlashOK /\ OneValid)
<1>0. Sized /\ MaxCrashes \in Nat BY SizedBy
<1>1. FlashInit => FlashInv(FALSE) BY <1>0, FlashStarts
<1>2. FlashInv(FALSE) /\ [FlashNext]_flashVars => FlashInv(FALSE)' BY FlashSteps
<1>3. FlashInv(FALSE) => FlashOK /\ OneValid BY FlashSound
<1> QED BY <1>1, <1>2, <1>3, PTL DEF FlashSpec

\* The assertion of key_value_alloc_space that a page is empty, and those of
\* compaction that one is left to fill, "At least one page has been defragged"
\* (key_value.c:383, 606, 642, 670), never fail, as long as recovery completes.
THEOREM AssertionsHold ==
  FlashSpec /\ []RecoveryCompletes => []FunctionsComplete
<1>0. Sized /\ MaxCrashes \in Nat BY SizedBy
<1>1. FlashInit => FlashInv(TRUE) /\ FunctionsComplete
  <2>1. FlashInit => op.kind = "idle" BY DEF FlashInit, Resting
  <2> QED BY <1>0, <2>1, FlashStarts DEF FunctionsComplete
<1>2. RecoveryCompletes /\ FlashInv(TRUE) /\ [FlashNext]_flashVars => FlashInv(TRUE)' BY FlashSteps
<1>3. FlashInv(TRUE) /\ FunctionsComplete /\ [FlashNext]_flashVars => FunctionsComplete'
  <2> SUFFICES ASSUME FlashInv(TRUE), FunctionsComplete, [FlashNext]_flashVars PROVE FunctionsComplete'
    OBVIOUS
  <2> DEFINE r == Run(pages)
  <2>1. ASSUME op.kind = "idle"
        PROVE  Sound(r, pages) /\ r.ret = OK /\ NoErased(r.flash) /\ NoneUnderway(r.flash)
    <3>1. Good(pages) /\ Resolved(pages) BY <2>1, AtRest
    <3>2. Sound(r, pages) /\ r.flash = pages /\ r.ret = OK BY <3>1, SoundRun
    <3> HIDE DEF r
    <3> QED BY <3>1, <3>2 DEF Resolved
  <2>2. ASSUME NEW k \in Keys, Delete(k) PROVE FunctionsComplete'
    <3> DEFINE c == RemoveKey(r, k)
    <3>1. op.kind = "idle" /\ Begin("write", k, None, c) BY <2>2 DEF Delete
    <3> HIDE DEF r
    <3>2. c.ret = OK BY <1>0, <2>1, <3>1, RemoveKeySound
    <3> HIDE DEF c
    <3>3. op'.ret = OK BY <3>1, <3>2 DEF Begin
    <3> QED BY <3>3 DEF FunctionsComplete, OK
  <2>3. ASSUME NEW k \in Keys, NEW v \in Vals, Write(k, v) PROVE FunctionsComplete'
    <3> DEFINE c == WriteKey(r, k, v)
    <3>1. op.kind = "idle" /\ Begin("write", k, v, c) /\ v \in Datas BY <2>3 DEF Write, Datas
    <3> HIDE DEF r
    <3>2. c.ret = TryAlloc(r).ret BY <1>0, <2>1, <3>1, WriteKeySound
    <3>3. TryAlloc(r).ret # "assert" BY <1>0, <2>1, <3>1, TryAllocSound
    <3> HIDE DEF c
    <3>4. op'.ret # "assert" BY <3>1, <3>2, <3>3 DEF Begin
    <3> QED BY <3>4 DEF FunctionsComplete
  <2>4. CASE FlashWrite BY <2>4 DEF FlashWrite, FunctionsComplete
  <2>5. CASE Returns BY <2>5 DEF Returns, Resting, FunctionsComplete
  <2>6. CASE PowerLoss BY <2>6 DEF PowerLoss, Resting, FunctionsComplete
  <2>7. CASE PowerUp BY <2>7 DEF PowerUp, Begin, FunctionsComplete
  <2>8. CASE UNCHANGED flashVars BY <2>8 DEF flashVars, FunctionsComplete
  <2> QED BY <2>2, <2>3, <2>4, <2>5, <2>6, <2>7, <2>8 DEF FlashNext
<1> QED BY <1>1, <1>2, <1>3, PTL DEF FlashSpec

\* As long as every recovery completes, every function ends and leaves the pages
\* as the next one needs them: no page under compaction and one that is empty.
THEOREM FlashStaysSound ==
  FlashSpec /\ []RecoveryCompletes => []PagesSound
<1>0. Sized /\ MaxCrashes \in Nat BY SizedBy
<1>1. FlashInit => FlashInv(TRUE) BY <1>0, FlashStarts
<1>2. RecoveryCompletes /\ FlashInv(TRUE) /\ [FlashNext]_flashVars => FlashInv(TRUE)' BY FlashSteps
<1>3. RecoveryCompletes /\ FlashInv(TRUE) /\ FunctionsComplete => PagesSound
  BY FlashSound DEF PagesSound
<1> QED BY <1>1, <1>2, <1>3, AssertionsHold, PTL DEF FlashSpec

KeptInv == kept = Restored(pages, todo, op.kind)

\* Between calls the store reads what it would read after a loss of power.
THEOREM StoreReadsWhatIsKept ==
  ASSUME ~StaleWrites
  PROVE  MCSpec /\ []RecoveryCompletes => []ReadsWhatIsKept
<1>0. Sized /\ MaxCrashes \in Nat BY SizedBy
<1>1. MCInit => FlashInv(TRUE) /\ KeptInv BY <1>0, FlashStarts DEF MCInit, KeptInv
<1>2. RecoveryCompletes /\ FlashInv(TRUE) /\ [MCNext]_<<flashVars, kept>> => FlashInv(TRUE)'
  <2>1. [MCNext]_<<flashVars, kept>> => [FlashNext]_flashVars BY DEF MCNext
  <2> QED BY <2>1, FlashSteps
<1>3. KeptInv /\ [MCNext]_<<flashVars, kept>> => KeptInv'
  <2>1. MCNext => KeptInv' BY DEF MCNext, KeptInv
  <2>2. KeptInv /\ UNCHANGED <<flashVars, kept>> => KeptInv' BY DEF flashVars, KeptInv
  <2> QED BY <2>1, <2>2
<1>4. FlashInv(TRUE) /\ KeptInv => ReadsWhatIsKept
  <2> SUFFICES ASSUME FlashInv(TRUE), KeptInv, op.kind = "idle" PROVE Contents(pages) = kept
    BY DEF ReadsWhatIsKept
  <2> DEFINE d == Start(pages)
  <2>1. Good(pages) /\ Resolved(pages) BY AtRest
  <2>2. Settled(pages) BY <2>1 DEF Settled, Resolved
  <2>3. Sound(d, pages) /\ SameReads(pages, d.flash) BY <1>0, <2>1, <2>2, StartSound
  <2>4. Good(d.flash) BY <2>3, SoundFacts
  <2>5. kept = Contents(d.flash) BY DEF KeptInv, Restored
  <2> HIDE DEF d
  <2> QED BY <1>0, <2>1, <2>3, <2>4, <2>5, SameContents
<1> QED BY <1>1, <1>2, <1>3, <1>4, PTL DEF MCSpec

\* A function called now and not cut short, as a caller of key_value.h sees it:
\* an entry written is read back, one removed is gone, a write refused and a
\* compaction change nothing, and no other key is ever touched.
FunctionsUpdateTheMap ==
  LET r == Run(pages)
      now == Contents(pages)
  IN  /\ \A k \in Keys :
           /\ \A v \in Vals :
                /\ WriteKey(r, k, v).ret = OK =>
                     Contents(WriteKey(r, k, v).flash) = [now EXCEPT ![k] = v]
                /\ WriteKey(r, k, v).ret = "KV_NO_ENOUGH_SPACE" =>
                     Contents(WriteKey(r, k, v).flash) = now
           /\ Contents(RemoveKey(r, k).flash) = [now EXCEPT ![k] = None]
      /\ Defrag(r).ret = OK => Contents(Defrag(r).flash) = now

LEMMA WriteUpdates ==
  ASSUME Sized, NEW c, NEW f, Sound(c, f), c.ret = OK, NEW k \in Keys, NEW v \in Datas
  PROVE  LET d == WriteKey(c, k, v)
             now == Contents(c.flash)
         IN  /\ d.ret = OK => Contents(d.flash) = [now EXCEPT ![k] = v]
             /\ d.ret = "KV_NO_ENOUGH_SPACE" => Contents(d.flash) = now
<1> DEFINE d == WriteKey(c, k, v)
<1>1. /\ Sound(d, f)
      /\ d.ret = OK => Updates(c.flash, d.flash, k, v)
      /\ d.ret = "KV_NO_ENOUGH_SPACE" => SameReads(c.flash, d.flash)
  BY WriteKeySound DEF Frames
<1> HIDE DEF d
<1>2. Good(c.flash) /\ Good(d.flash) BY <1>1, SoundFacts
<1>3. d.ret = OK => Contents(d.flash) = [Contents(c.flash) EXCEPT ![k] = v]
  BY <1>1, <1>2, UpdatedContents DEF Updates
<1>4. d.ret = "KV_NO_ENOUGH_SPACE" => Contents(d.flash) = Contents(c.flash)
  BY <1>1, <1>2, SameContents
<1> QED BY <1>3, <1>4 DEF d

LEMMA RemoveUpdates ==
  ASSUME Sized, NEW c, NEW f, Sound(c, f), c.ret = OK, NEW k \in Keys
  PROVE  Contents(RemoveKey(c, k).flash) = [Contents(c.flash) EXCEPT ![k] = None]
<1> DEFINE d == RemoveKey(c, k)
<1>1. /\ Sound(d, f) /\ NoValid(d.flash, k)
      /\ \A k2, w : k2 # k => (Reads(d.flash, k2, w) <=> Reads(c.flash, k2, w))
  BY RemoveKeySound
<1> HIDE DEF d
<1>2. Good(c.flash) /\ Good(d.flash) BY <1>1, SoundFacts
<1>3. Contents(d.flash) = [Contents(c.flash) EXCEPT ![k] = None]
  BY <1>1, <1>2, UpdatedContents
<1> QED BY <1>3 DEF d

LEMMA DefragKeeps ==
  ASSUME Sized, NEW c, NEW f, Sound(c, f), c.ret = OK, Defrag(c).ret = OK
  PROVE  Contents(Defrag(c).flash) = Contents(c.flash)
<1> DEFINE d == Defrag(c)
<1>1. Sound(d, f) /\ SameReads(c.flash, d.flash) BY DefragSound DEF Frames
<1> HIDE DEF d
<1>2. Good(c.flash) /\ Good(d.flash) BY <1>1, SoundFacts
<1>3. Contents(d.flash) = Contents(c.flash) BY <1>1, <1>2, SameContents
<1> QED BY <1>3 DEF d

\* In every state a power loss or a running function can leave, the functions
\* of key_value.h update the map they stand for and nothing else: compaction
\* loses no key and brings none back (key_value.c:581-803).
THEOREM StoreIsUpdatedAsAMap ==
  FlashSpec => []FunctionsUpdateTheMap
<1>0. Sized /\ MaxCrashes \in Nat BY SizedBy
<1>1. FlashInit => FlashInv(FALSE) BY <1>0, FlashStarts
<1>2. FlashInv(FALSE) /\ [FlashNext]_flashVars => FlashInv(FALSE)' BY FlashSteps
<1>3. FlashInv(FALSE) => FunctionsUpdateTheMap
  <2> SUFFICES ASSUME FlashInv(FALSE) PROVE FunctionsUpdateTheMap OBVIOUS
  <2> DEFINE r == Run(pages)
  <2>1. Good(pages) BY LeadsFacts DEF FlashInv
  <2>2. Sound(r, pages) /\ r.flash = pages /\ r.ret = OK BY <2>1, SoundRun
  <2> HIDE DEF r
  <2>3. ASSUME NEW k \in Keys, NEW v \in Vals
        PROVE  /\ WriteKey(r, k, v).ret = OK =>
                    Contents(WriteKey(r, k, v).flash) = [Contents(pages) EXCEPT ![k] = v]
               /\ WriteKey(r, k, v).ret = "KV_NO_ENOUGH_SPACE" =>
                    Contents(WriteKey(r, k, v).flash) = Contents(pages)
    <3>1. v \in Datas BY DEF Datas
    <3> QED BY <1>0, <2>2, <3>1, WriteUpdates
  <2>4. \A k \in Keys : Contents(RemoveKey(r, k).flash) = [Contents(pages) EXCEPT ![k] = None]
    BY <1>0, <2>2, RemoveUpdates
  <2>5. Defrag(r).ret = OK => Contents(Defrag(r).flash) = Contents(pages)
    BY <1>0, <2>2, DefragKeeps
  <2> QED BY <2>3, <2>4, <2>5 DEF FunctionsUpdateTheMap, r
<1> QED BY <1>1, <1>2, <1>3, PTL DEF FlashSpec

\* A write or a removal that is about to return KV_OK can be read back, its
\* last flash write made (key_value.c:289-329, 682-733).
WrittenIsThere ==
  op.kind = "write" /\ op.ret = OK /\ todo = <<>> => Contents(pages)[op.key] = op.val

\* What is under way is on its way there.
WriteHeads ==
  op.kind = "write" /\ op.ret = OK =>
    \E g : Leads(pages, todo, g) /\ Contents(g)[op.key] = op.val

LEMMA FunctionHeads ==
  ASSUME Sized, FlashInv(FALSE), NEW k \in Keys, NEW v \in Vals \cup {None},
         \/ Delete(k) /\ v = None
         \/ v \in Vals /\ Write(k, v)
  PROVE  WriteHeads'
<1> DEFINE r == Run(pages)
<1>1. Good(pages) BY LeadsFacts DEF FlashInv
<1>2. Sound(r, pages) /\ r.flash = pages /\ r.ret = OK BY <1>1, SoundRun
<1>3. k \in DOMAIN Contents(pages) BY DEF Contents
<1> HIDE DEF r
<1>4. PICK c : /\ pages' = pages /\ todo' = c.ws
               /\ op' = [kind |-> "write", key |-> k, val |-> v, ret |-> c.ret]
               /\ Sound(c, pages)
               /\ c.ret = OK => Contents(c.flash) = [Contents(pages) EXCEPT ![k] = v]
  <2>1. CASE Delete(k) /\ v = None
    <3> DEFINE c == RemoveKey(r, k)
    <3>1. Begin("write", k, None, c) BY <2>1 DEF Delete, r
    <3>2. Sound(c, pages) BY <1>2, RemoveKeySound
    <3>3. Contents(c.flash) = [Contents(pages) EXCEPT ![k] = v] BY <1>2, <2>1, RemoveUpdates
    <3> HIDE DEF c
    <3> QED BY <2>1, <3>1, <3>2, <3>3 DEF Begin
  <2>2. CASE v \in Vals /\ Write(k, v)
    <3> DEFINE c == WriteKey(r, k, v)
    <3>1. Begin("write", k, v, c) /\ v \in Datas BY <2>2 DEF Write, r, Datas
    <3>2. Sound(c, pages) BY <1>2, <3>1, WriteKeySound
    <3>3. c.ret = OK => Contents(c.flash) = [Contents(pages) EXCEPT ![k] = v]
      BY <1>2, <3>1, WriteUpdates
    <3> HIDE DEF c
    <3> QED BY <3>1, <3>2, <3>3 DEF Begin
  <2> QED BY <2>1, <2>2
<1>5. Leads(pages', todo', c.flash) BY <1>4 DEF Sound
<1>6. op'.ret = OK => Contents(c.flash)[op'.key] = op'.val BY <1>3, <1>4
<1> QED BY <1>5, <1>6 DEF WriteHeads

\* Whatever compaction a write took, once it says KV_OK its value is there.
THEOREM WriteTakesEffect ==
  FlashSpec => []WrittenIsThere
<1>0. Sized /\ MaxCrashes \in Nat BY SizedBy
<1>1. FlashInit => FlashInv(FALSE) /\ WriteHeads
  <2>1. FlashInit => op.kind = "idle" BY DEF FlashInit, Resting
  <2> QED BY <1>0, <2>1, FlashStarts DEF WriteHeads
<1>2. FlashInv(FALSE) /\ [FlashNext]_flashVars => FlashInv(FALSE)' BY FlashSteps
<1>3. FlashInv(FALSE) /\ WriteHeads /\ [FlashNext]_flashVars => WriteHeads'
  <2> SUFFICES ASSUME FlashInv(FALSE), WriteHeads, [FlashNext]_flashVars PROVE WriteHeads' OBVIOUS
  <2>1. ASSUME NEW k \in Keys, Delete(k) PROVE WriteHeads'
    <3>1. None \in Vals \cup {None} OBVIOUS
    <3> QED BY <1>0, <2>1, <3>1, FunctionHeads
  <2>2. ASSUME NEW k \in Keys, NEW v \in Vals, Write(k, v) PROVE WriteHeads'
    <3>1. v \in Vals \cup {None} OBVIOUS
    <3> QED BY <1>0, <2>2, <3>1, FunctionHeads
  <2>3. CASE FlashWrite
    <3>1. /\ todo # <<>> /\ pages' = Program(pages, Head(todo)) /\ todo' = Tail(todo) /\ op' = op
      BY <2>3 DEF FlashWrite
    <3>2. todo \in Seq(FlashWrites) BY DEF FlashInv
    <3>3. \A g : Leads(pages, todo, g) => Leads(pages', todo', g) BY <3>1, <3>2, LeadsRest
    <3> QED BY <3>1, <3>3 DEF WriteHeads
  <2>4. CASE Returns BY <2>4 DEF Returns, Resting, WriteHeads
  <2>5. CASE PowerLoss BY <2>5 DEF PowerLoss, Resting, WriteHeads
  <2>6. CASE PowerUp BY <2>6 DEF PowerUp, Begin, WriteHeads
  <2>7. CASE UNCHANGED flashVars BY <2>7 DEF flashVars, WriteHeads
  <2> QED BY <2>1, <2>2, <2>3, <2>4, <2>5, <2>6, <2>7 DEF FlashNext
<1>4. FlashInv(FALSE) /\ WriteHeads => WrittenIsThere
  <2> SUFFICES ASSUME FlashInv(FALSE), WriteHeads, op.kind = "write", op.ret = OK, todo = <<>>
               PROVE  Contents(pages)[op.key] = op.val
    BY DEF WrittenIsThere
  <2>1. PICK g : Leads(pages, todo, g) /\ Contents(g)[op.key] = op.val BY DEF WriteHeads
  <2>2. todo \in Seq(FlashWrites) BY DEF FlashInv
  <2>3. todo = <<>> => pages = g BY <2>1, <2>2, LeadsFacts
  <2> QED BY <2>1, <2>3
<1> QED BY <1>1, <1>2, <1>3, <1>4, PTL DEF FlashSpec

=============================================================================
