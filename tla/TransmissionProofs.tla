------------------------- MODULE TransmissionProofs -------------------------
(***************************************************************************)
(* What Transmission guarantees for any number of cores, buffer and header *)
(* length, lengths of records and wrap of the totals and of time: that     *)
(* each ring buffer is a queue of whole records (Pipe), and that no record *)
(* is left to a consumer that sleeps, if none is stamped exactly one tick  *)
(* before the last one that was sent; and that the merge of the cores goes *)
(* back in time for late records only, if none gets half the wrap old.     *)
(***************************************************************************)
EXTENDS Transmission, SequenceTheorems, TLAPS

\* A record r lies at index i, header and data.
Size(r) == HdrLen + r.len
At(cells, i, r) == \A k \in 1 .. Size(r) : cells[Advance(i, k - 1)] = <<r, k>>

\* The records of a list lie one after the other from index base, the i-th off[i]
\* bytes from it, and take end bytes.  That off increases follows from its steps,
\* but by induction only.
Laid(cells, base, list, end, off) ==
  /\ \A i \in 1 .. Len(list) + 1 : off[i] \in 0 .. end
  /\ \A i, j \in 1 .. Len(list) + 1 : i <= j => off[i] <= off[j]
  /\ off[1] = 0 /\ off[Len(list) + 1] = end
  /\ \A i \in 1 .. Len(list) :
       off[i + 1] = off[i] + Size(list[i]) /\ At(cells, Advance(base, off[i]), list[i])

\* What is stored in the buffer of c, what of it has been sent and what comes.
Held(c) == Cached(write_size[c], read_size[c])
Gone(c) == IF con.pc = "sent" /\ con.best.core = c THEN Size(con.best.head) ELSE 0
Coming(c) == IF pc[c] = "written" THEN Size(rec[c]) ELSE 0

Ring(c) ==
  /\ Held(c) \in Nat /\ Gone(c) <= Held(c) /\ Held(c) + Coming(c) <= FifoLen
  /\ write_idx[c] = Advance(read_idx[c], Held(c) + Coming(c))
  /\ pc[c] = "written" => At(fifo[c], Advance(read_idx[c], Held(c)), rec[c])
  /\ \E off : Laid(fifo[c], Advance(read_idx[c], Gone(c)), todo[c], Held(c) - Gone(c), off)

\* TypeOK but for the totals, and of what the program counters say.
Cells == [0 .. FifoLen - 1 -> {None} \cup (Records \X Nat)]
Bests == [core : Cores, head : Records]
Typed ==
  /\ fifo \in [Cores -> Cells]
  /\ write_idx \in [Cores -> 0 .. FifoLen - 1] /\ read_idx \in [Cores -> 0 .. FifoLen - 1]
  /\ write_size \in [Cores -> 0 .. SizeMod - 1] /\ read_size \in [Cores -> 0 .. SizeMod - 1]
  /\ pc \in [Cores -> {"out", "written", "published"}]
  /\ rec \in [Cores -> {None} \cup Records]
  /\ \A c \in Cores : IF pc[c] = "out" THEN rec[c] = None ELSE rec[c] \in Records
  /\ owed \in [Cores -> BOOLEAN] /\ todo \in [Cores -> Seq(Records)]
  /\ notify_sem \in {0, 1} /\ last_timestamp \in 0 .. TimeMod - 1
  /\ now \in 0 .. TimeMod - 1 /\ count \in Nat
  /\ con \in [pc : {"pend", "scan", "sent"}, core : 0 .. CoreNum, best : {None} \cup Bests]
  /\ con.pc = "sent" => con.best # None

\* The earliest head so far is still the head of its core.
BestIsHead ==
  con.pc = "scan" /\ con.best # None =>
    /\ todo[con.best.core] # <<>>
    /\ con.best.head = Head(todo[con.best.core])

IInv == Typed /\ (\A c \in Cores : Ring(c)) /\ BestIsHead

-----------------------------------------------------------------------------
(* Arithmetic of the indices and of the totals.                             *)

LEMMA Positive ==
  /\ CoreNum \in Nat \ {0} /\ HdrLen \in Nat \ {0} /\ FifoLen \in Nat \ {0} /\ FifoLen > HdrLen
  /\ SizeMod \in Nat \ {0} /\ SizeMod > 2 * FifoLen + 1 /\ SizeMod \div 2 > FifoLen
  /\ SizeMod \div 2 \in Nat /\ SizeMod \div 2 + SizeMod \div 2 <= SizeMod
  /\ TimeMod \in Nat \ {0}
  BY TransmissionAssumption

LEMMA ModOnce ==
  ASSUME NEW m \in Nat, m > 0, NEW x \in Nat, x < m + m
  PROVE  x % m = IF x < m THEN x ELSE x - m
  <1> DEFINE q == x \div m
             r == x % m
  <1>1. q \in Int /\ r \in 0 .. m - 1 /\ x = m * q + r
    OBVIOUS
  <1> HIDE DEF q, r
  <1>2. q >= 2 => m * q >= 2 * m
    BY <1>1
  <1>3. q <= -1 => m * q <= -m
    BY <1>1
  <1>4. q \in {0, 1}
    BY <1>1, <1>2, <1>3
  <1>5. r = IF x < m THEN x ELSE x - m
    BY <1>1, <1>4
  <1> QED BY <1>5 DEF r

LEMMA AdvanceFacts ==
  ASSUME NEW i \in 0 .. FifoLen - 1, NEW n \in 0 .. FifoLen
  PROVE  /\ Advance(i, n) \in 0 .. FifoLen - 1
         /\ (i + n) % FifoLen = Advance(i, n)
         /\ n = 0 => Advance(i, n) = i
  <1>1. /\ Advance(i, n) = IF i + n < FifoLen THEN i + n ELSE i + n - FifoLen
        /\ i + n \in Nat /\ i + n < FifoLen + FifoLen
    BY Positive DEF Advance
  <1>2. (i + n) % FifoLen = IF i + n < FifoLen THEN i + n ELSE i + n - FifoLen
    BY <1>1, Positive, ModOnce
  <1> QED BY <1>1, <1>2, Positive

LEMMA AdvanceTwice ==
  ASSUME NEW i \in 0 .. FifoLen - 1, NEW n \in Nat, NEW m \in Nat, n + m <= FifoLen
  PROVE  Advance(Advance(i, n), m) = Advance(i, n + m)
  BY Positive DEF Advance

\* Going round from the end of what is stored leads to its start.
LEMMA AdvanceRound ==
  ASSUME NEW i \in 0 .. FifoLen - 1, NEW e \in 0 .. FifoLen, NEW o \in 0 .. e - 1
  PROVE  Advance(Advance(i, e), FifoLen + o - e) = Advance(i, o)
  BY Positive DEF Advance

LEMMA CachedFacts ==
  ASSUME NEW w \in 0 .. SizeMod - 1, NEW r \in 0 .. SizeMod - 1
  PROVE  Cached(w, r) =
           LET d == IF w < r THEN w + SizeMod - r ELSE w - r
           IN  IF d >= SizeMod \div 2 THEN d - SizeMod ELSE d
  <1>1. (w + SizeMod - r) % SizeMod = IF w < r THEN w + SizeMod - r ELSE w - r
    <2>1. w + SizeMod - r \in Nat /\ w + SizeMod - r < SizeMod + SizeMod
      BY Positive
    <2>2. (w + SizeMod - r) % SizeMod =
            IF w + SizeMod - r < SizeMod THEN w + SizeMod - r ELSE w + SizeMod - r - SizeMod
      BY <2>1, Positive, ModOnce
    <2> QED BY <2>2, Positive
  <1> QED BY <1>1 DEF Cached

LEMMA CachedIs ==
  ASSUME NEW w \in 0 .. SizeMod - 1, NEW r \in 0 .. SizeMod - 1, NEW n \in 0 .. FifoLen
  PROVE  Cached(w, r) = n <=> w = IF r + n < SizeMod THEN r + n ELSE r + n - SizeMod
  <1> DEFINE h == SizeMod \div 2
             d == IF w < r THEN w + SizeMod - r ELSE w - r
  <1>1. Cached(w, r) = IF d >= h THEN d - SizeMod ELSE d
    BY CachedFacts
  <1>2. h \in Nat /\ h > FifoLen /\ h + h <= SizeMod
    BY Positive
  <1>3. d \in 0 .. SizeMod - 1
    BY Positive
  <1> HIDE DEF h
  <1>4. Cached(w, r) = n <=> d = n
    BY <1>1, <1>2, <1>3, Positive
  <1> QED BY <1>4, Positive

\* A total that grows by what is written, or by what is read.
LEMMA CachedGrows ==
  ASSUME NEW w \in 0 .. SizeMod - 1, NEW r \in 0 .. SizeMod - 1, NEW m \in Nat,
         Cached(w, r) \in Nat, Cached(w, r) + m <= FifoLen
  PROVE  (w + m) % SizeMod \in 0 .. SizeMod - 1 /\ Cached((w + m) % SizeMod, r) = Cached(w, r) + m
  <1> DEFINE n == Cached(w, r)
             v == IF w + m < SizeMod THEN w + m ELSE w + m - SizeMod
  <1>1. (w + m) % SizeMod = v
    <2>1. w + m \in Nat /\ w + m < SizeMod + SizeMod
      BY Positive
    <2> QED BY <2>1, Positive, ModOnce
  <1>2. n \in 0 .. FifoLen /\ n + m \in 0 .. FifoLen
    BY Positive
  <1>3. w = IF r + n < SizeMod THEN r + n ELSE r + n - SizeMod
    BY <1>2, CachedIs
  <1> HIDE DEF n
  <1>4. v \in 0 .. SizeMod - 1
    BY <1>2, Positive
  <1>5. v = IF r + (n + m) < SizeMod THEN r + (n + m) ELSE r + (n + m) - SizeMod
    BY <1>2, <1>3, Positive
  <1> HIDE DEF v
  <1>6. Cached(v, r) = n + m
    BY <1>2, <1>4, <1>5, CachedIs
  <1> QED BY <1>1, <1>4, <1>6 DEF n

LEMMA CachedShrinks ==
  ASSUME NEW w \in 0 .. SizeMod - 1, NEW r \in 0 .. SizeMod - 1, NEW m \in Nat,
         Cached(w, r) \in Nat, Cached(w, r) <= FifoLen, m <= Cached(w, r)
  PROVE  (r + m) % SizeMod \in 0 .. SizeMod - 1 /\ Cached(w, (r + m) % SizeMod) = Cached(w, r) - m
  <1> DEFINE n == Cached(w, r)
             v == IF r + m < SizeMod THEN r + m ELSE r + m - SizeMod
  <1>1. (r + m) % SizeMod = v
    <2>1. r + m \in Nat /\ r + m < SizeMod + SizeMod
      BY Positive
    <2> QED BY <2>1, Positive, ModOnce
  <1>2. n \in 0 .. FifoLen /\ n - m \in 0 .. FifoLen
    BY Positive
  <1>3. w = IF r + n < SizeMod THEN r + n ELSE r + n - SizeMod
    BY <1>2, CachedIs
  <1> HIDE DEF n
  <1>4. v \in 0 .. SizeMod - 1
    BY <1>2, Positive
  <1>5. w = IF v + (n - m) < SizeMod THEN v + (n - m) ELSE v + (n - m) - SizeMod
    BY <1>2, <1>3, Positive
  <1> HIDE DEF v
  <1>6. Cached(w, v) = n - m
    BY <1>2, <1>4, <1>5, CachedIs
  <1> QED BY <1>1, <1>4, <1>6 DEF n

-----------------------------------------------------------------------------
(* Records in the buffer.                                                   *)

LEMMA SizeFacts ==
  ASSUME NEW r \in Records
  PROVE  r.len \in Nat /\ Size(r) \in Nat \ {0} /\ Size(r) >= HdrLen /\ Size(r) = HdrLen + r.len
  BY Positive DEF Records, Size

\* Reading n bytes from index i.
LEMMA LoadedFacts ==
  ASSUME NEW cells, NEW i \in 0 .. FifoLen - 1, NEW n \in 0 .. FifoLen
  PROVE  \A k \in 1 .. n : Loaded(cells, i, n)[k] = cells[Advance(i, k - 1)]
  <1>1. ASSUME NEW k \in 1 .. n
        PROVE  (i + k - 1) % FifoLen = Advance(i, k - 1)
    <2>1. k - 1 \in 0 .. FifoLen /\ i + (k - 1) = i + k - 1
      BY Positive
    <2> QED BY <2>1, AdvanceFacts
  <1> QED BY <1>1 DEF Loaded

\* Storing a record changes its own bytes only.
LEMMA StoredFacts ==
  ASSUME NEW cells \in Cells, NEW i \in 0 .. FifoLen - 1, NEW r \in Records, Size(r) <= FifoLen,
         NEW new, new = Stored(cells, i, r)
  PROVE  /\ new \in Cells
         /\ At(new, i, r)
         /\ \A n \in Size(r) .. FifoLen - 1 : new[Advance(i, n)] = cells[Advance(i, n)]
  <1>1. ASSUME NEW n \in 0 .. FifoLen - 1
        PROVE  /\ Advance(i, n) \in 0 .. FifoLen - 1
               /\ (Advance(i, n) + FifoLen - i) % FifoLen = n
    <2> DEFINE a == Advance(i, n)
    <2>1. a \in 0 .. FifoLen - 1 /\ a = IF i + n < FifoLen THEN i + n ELSE i + n - FifoLen
      BY Positive DEF Advance
    <2> HIDE DEF a
    <2> DEFINE x == a + FifoLen - i
    <2>2. x \in Nat /\ x < FifoLen + FifoLen
      BY <2>1, Positive
    <2> HIDE DEF x
    <2>3. x % FifoLen = IF x < FifoLen THEN x ELSE x - FifoLen
      BY <2>2, Positive, ModOnce
    <2>4. x % FifoLen = n
      BY <2>1, <2>3, Positive DEF x
    <2> QED BY <2>1, <2>4 DEF a, x
  <1>2. \A n \in 0 .. FifoLen - 1 :
          new[Advance(i, n)] = IF n + 1 <= Size(r) THEN <<r, n + 1>> ELSE cells[Advance(i, n)]
    BY <1>1 DEF Stored, Size
  <1>3. At(new, i, r)
    <2> SUFFICES ASSUME NEW k \in 1 .. Size(r) PROVE new[Advance(i, k - 1)] = <<r, k>>
      BY DEF At
    <2>1. k - 1 \in 0 .. FifoLen - 1 /\ (k - 1) + 1 = k /\ k <= Size(r)
      BY Positive, SizeFacts
    <2> QED BY <1>2, <2>1
  <1>4. \A n \in Size(r) .. FifoLen - 1 : new[Advance(i, n)] = cells[Advance(i, n)]
    <2> TAKE n \in Size(r) .. FifoLen - 1
    <2>1. n \in 0 .. FifoLen - 1 /\ ~(n + 1 <= Size(r))
      BY SizeFacts, Positive
    <2> QED BY <1>2, <2>1
  <1>5. new \in Cells
    <2>1. ASSUME NEW a \in 0 .. FifoLen - 1
          PROVE  ((a + FifoLen - i) % FifoLen) + 1 \in Nat
      BY Positive
    <2> QED BY <2>1 DEF Stored, Cells
  <1> QED BY <1>3, <1>4, <1>5

\* What a layout says of its records.
LEMMA LaidFacts ==
  ASSUME NEW cells, NEW base, NEW list \in Seq(Records), NEW end \in 0 .. FifoLen, NEW off,
         Laid(cells, base, list, end, off)
  PROVE  /\ Len(list) \in Nat
         /\ \A i \in 1 .. Len(list) :
              /\ list[i] \in Records /\ Size(list[i]) \in Nat \ {0} /\ Size(list[i]) >= HdrLen
              /\ i \in 1 .. Len(list) + 1 /\ i + 1 \in 1 .. Len(list) + 1
              /\ off[i] \in 0 .. FifoLen - 1 /\ off[i] + Size(list[i]) <= end
              /\ off[i + 1] = off[i] + Size(list[i])
         /\ list = <<>> <=> end = 0
         /\ list # <<>> =>
              /\ Head(list) = list[1] /\ Head(list) \in Records
              /\ Size(Head(list)) <= end /\ 1 \in 1 .. Len(list)
  <1>1. Len(list) \in Nat /\ \A i \in 1 .. Len(list) : list[i] \in Records
    BY LenProperties, ElementOfSeq
  <1>2. ASSUME NEW i \in 1 .. Len(list)
        PROVE  /\ Size(list[i]) \in Nat \ {0} /\ Size(list[i]) >= HdrLen
               /\ i \in 1 .. Len(list) + 1 /\ i + 1 \in 1 .. Len(list) + 1
               /\ off[i] \in 0 .. FifoLen - 1 /\ off[i] + Size(list[i]) <= end
               /\ off[i + 1] = off[i] + Size(list[i])
    <2>1. /\ i \in 1 .. Len(list) + 1 /\ i + 1 \in 1 .. Len(list) + 1
          /\ Size(list[i]) \in Nat \ {0} /\ Size(list[i]) >= HdrLen
      BY <1>1, SizeFacts
    <2>2. /\ off[i] \in 0 .. end /\ off[i + 1] \in 0 .. end
          /\ off[i + 1] = off[i] + Size(list[i])
      BY <2>1 DEF Laid
    <2> QED BY <2>1, <2>2, Positive
  <1>3. list = <<>> <=> Len(list) = 0
    BY EmptySeq
  <1>4. Len(list) = 0 => end = 0
    BY DEF Laid
  <1>5. list # <<>> => 1 \in 1 .. Len(list) /\ Head(list) = list[1] /\ off[1] = 0
    BY <1>1, <1>3 DEF Laid
  <1>6. list # <<>> => Size(Head(list)) <= end /\ end # 0 /\ Head(list) \in Records
    <2> SUFFICES ASSUME list # <<>> PROVE Size(Head(list)) <= end /\ end # 0 /\ Head(list) \in Records
      OBVIOUS
    <2>1. 0 + Size(list[1]) <= end /\ Size(list[1]) \in Nat \ {0}
      BY <1>2, <1>5
    <2> QED BY <1>1, <1>5, <2>1
  <1> QED BY <1>1, <1>2, <1>3, <1>4, <1>5, <1>6

LEMMA LaidEmpty ==
  ASSUME NEW cells, NEW base, NEW list \in Seq(Records), NEW end \in 0 .. FifoLen, NEW off,
         Laid(cells, base, list, end, off)
  PROVE  list = <<>> <=> end = 0
  BY LaidFacts

\* A record is stored behind the others, which stay.
LEMMA LaidStored ==
  ASSUME NEW cells \in Cells, NEW base \in 0 .. FifoLen - 1, NEW list \in Seq(Records),
         NEW end \in 0 .. FifoLen, NEW off, Laid(cells, base, list, end, off),
         NEW r \in Records, end + Size(r) <= FifoLen,
         NEW new, new = Stored(cells, Advance(base, end), r)
  PROVE  new \in Cells /\ At(new, Advance(base, end), r) /\ Laid(new, base, list, end, off)
  <1> DEFINE idx == Advance(base, end)
  <1>1. idx \in 0 .. FifoLen - 1 /\ Size(r) \in Nat \ {0} /\ Size(r) <= FifoLen
    <2>1. Advance(base, end) \in 0 .. FifoLen - 1
      BY AdvanceFacts
    <2>2. Size(r) \in Nat \ {0}
      BY SizeFacts
    <2> QED BY <2>1, <2>2, Positive
  <1>2. /\ new \in Cells /\ At(new, idx, r)
        /\ \A n \in Size(r) .. FifoLen - 1 : new[Advance(idx, n)] = cells[Advance(idx, n)]
    <2> HIDE DEF idx
    <2>1. new = Stored(cells, idx, r)
      BY DEF idx
    <2> QED BY <1>1, <2>1, StoredFacts
  <1>3. ASSUME NEW o \in 0 .. end - 1
        PROVE  new[Advance(base, o)] = cells[Advance(base, o)]
    <2>1. FifoLen + o - end \in Size(r) .. FifoLen - 1
      BY <1>1, Positive
    <2>2. Advance(idx, FifoLen + o - end) = Advance(base, o)
      BY AdvanceRound
    <2> HIDE DEF idx
    <2> QED BY <1>2, <2>1, <2>2
  <1>4. ASSUME NEW i \in 1 .. Len(list)
        PROVE  At(new, Advance(base, off[i]), list[i])
    <2>1. /\ list[i] \in Records /\ Size(list[i]) \in Nat \ {0}
          /\ off[i] \in 0 .. FifoLen - 1 /\ off[i] + Size(list[i]) <= end
      BY LaidFacts
    <2>2. At(cells, Advance(base, off[i]), list[i])
      BY DEF Laid
    <2> SUFFICES ASSUME NEW k \in 1 .. Size(list[i])
                 PROVE  new[Advance(Advance(base, off[i]), k - 1)] = <<list[i], k>>
      BY DEF At
    <2>3. /\ off[i] \in Nat /\ k - 1 \in Nat /\ off[i] + (k - 1) <= FifoLen
          /\ off[i] + (k - 1) \in 0 .. end - 1
      BY <2>1, Positive
    <2>4. Advance(Advance(base, off[i]), k - 1) = Advance(base, off[i] + (k - 1))
      BY <2>3, AdvanceTwice
    <2>5. cells[Advance(Advance(base, off[i]), k - 1)] = <<list[i], k>>
      BY <2>2 DEF At
    <2> QED BY <1>3, <2>3, <2>4, <2>5
  <1> QED BY <1>2, <1>4 DEF Laid

\* It is published: the list is longer by a record.
LEMMA LaidAppend ==
  ASSUME NEW cells, NEW base \in 0 .. FifoLen - 1, NEW list \in Seq(Records),
         NEW end \in 0 .. FifoLen, NEW off, Laid(cells, base, list, end, off),
         NEW r \in Records, end + Size(r) <= FifoLen, At(cells, Advance(base, end), r),
         NEW new, new = Append(list, r)
  PROVE  new \in Seq(Records) /\ \E o : Laid(cells, base, new, end + Size(r), o)
  <1> DEFINE m == Len(list)
             o == [i \in 1 .. m + 2 |-> IF i <= m + 1 THEN off[i] ELSE end + Size(r)]
  <1>1. /\ new \in Seq(Records) /\ Len(new) = m + 1 /\ m \in Nat
        /\ \A i \in 1 .. m : new[i] = list[i]
        /\ new[m + 1] = r
    BY AppendProperties, LenProperties
  <1>2. Size(r) \in Nat \ {0}
    BY SizeFacts
  <1>3. /\ \A i \in 1 .. m + 1 : off[i] \in 0 .. end
        /\ off[1] = 0 /\ off[m + 1] = end
        /\ \A i \in 1 .. m : off[i + 1] = off[i] + Size(list[i])
        /\ \A i \in 1 .. m : At(cells, Advance(base, off[i]), list[i])
        /\ \A i, j \in 1 .. m + 1 : i <= j => off[i] <= off[j]
    BY DEF Laid
  <1> HIDE DEF m
  <1>4. /\ \A i \in 1 .. m + 1 : o[i] = off[i]
        /\ o[m + 2] = end + Size(r)
    BY <1>1
  <1> HIDE DEF o
  <1>5. ASSUME NEW i \in 1 .. (m + 1) + 1 PROVE o[i] \in 0 .. end + Size(r)
    <2>1. CASE i \in 1 .. m + 1
      <3>1. off[i] \in 0 .. end /\ o[i] = off[i]
        BY <1>3, <1>4, <2>1
      <3> QED BY <1>2, <3>1
    <2>2. CASE i = m + 2
      BY <1>2, <1>4, <2>2
    <2> QED BY <1>1, <2>1, <2>2
  <1>6. o[1] = 0 /\ o[(m + 1) + 1] = end + Size(r)
    <2>1. 1 \in 1 .. m + 1 /\ (m + 1) + 1 = m + 2
      BY <1>1
    <2> QED BY <1>3, <1>4, <2>1
  <1>7. ASSUME NEW i \in 1 .. m + 1
        PROVE  o[i + 1] = o[i] + Size(new[i]) /\ At(cells, Advance(base, o[i]), new[i])
    <2>1. CASE i \in 1 .. m
      <3>1. i \in 1 .. m + 1 /\ i + 1 \in 1 .. m + 1
        BY <1>1, <2>1
      <3> QED BY <1>1, <1>3, <1>4, <2>1, <3>1
    <2>2. CASE i = m + 1
      <3>1. i + 1 = m + 2 /\ m + 1 \in 1 .. m + 1
        BY <1>1, <2>2
      <3>2. o[i + 1] = end + Size(r) /\ o[i] = end /\ new[i] = r
        BY <1>1, <1>3, <1>4, <2>2, <3>1
      <3> QED BY <3>2
    <2> QED BY <1>1, <2>1, <2>2
  <1>8. ASSUME NEW i \in 1 .. (m + 1) + 1, NEW j \in 1 .. (m + 1) + 1, i <= j
        PROVE  o[i] <= o[j]
    <2>1. CASE j \in 1 .. m + 1
      <3>1. i \in 1 .. m + 1
        BY <1>1, <1>8, <2>1
      <3> QED BY <1>3, <1>4, <1>8, <2>1, <3>1
    <2>2. CASE j = m + 2
      BY <1>2, <1>4, <1>5, <2>2
    <2> QED BY <1>1, <2>1, <2>2
  <1>9. Laid(cells, base, new, end + Size(r), o)
    BY <1>1, <1>5, <1>6, <1>7, <1>8 DEF Laid
  <1> QED BY <1>1, <1>9

LEMMA AppendHead ==
  ASSUME NEW list \in Seq(Records), list # <<>>, NEW r \in Records, NEW new, new = Append(list, r)
  PROVE  new # <<>> /\ Head(new) = Head(list)
  <1>1. /\ new \in Seq(Records) /\ Len(new) = Len(list) + 1
        /\ \A i \in 1 .. Len(list) : new[i] = list[i]
    BY AppendProperties
  <1>2. Len(list) \in Nat /\ Len(list) # 0
    BY LenProperties, EmptySeq
  <1>3. new # <<>>
    BY <1>1, <1>2, EmptySeq
  <1> QED BY <1>1, <1>2, <1>3

\* The first record is taken off the list.
LEMMA LaidTail ==
  ASSUME NEW cells, NEW base \in 0 .. FifoLen - 1, NEW list \in Seq(Records), list # <<>>,
         NEW end \in 0 .. FifoLen, NEW off, Laid(cells, base, list, end, off),
         NEW r, r = Head(list), NEW new, new = Tail(list)
  PROVE  /\ new \in Seq(Records) /\ r \in Records /\ Size(r) <= end
         /\ At(cells, base, r)
         /\ \E o : Laid(cells, Advance(base, Size(r)), new, end - Size(r), o)
  <1> DEFINE m == Len(list)
             o == [i \in 1 .. m |-> off[i + 1] - Size(r)]
             b == Advance(base, Size(r))
  <1>1. /\ new \in Seq(Records) /\ Len(new) = m - 1
        /\ \A i \in 1 .. Len(new) : new[i] = list[i + 1]
    BY HeadTailProperties
  <1>2. /\ m \in Nat /\ 1 \in 1 .. m /\ r = list[1] /\ r \in Records /\ Size(r) <= end
    BY LaidFacts
  <1>3. Size(r) \in Nat \ {0} /\ Size(r) <= FifoLen
    BY <1>2, SizeFacts, Positive
  <1>4. /\ off[1] = 0 /\ off[m + 1] = end
        /\ \A i \in 1 .. m : At(cells, Advance(base, off[i]), list[i])
    BY DEF Laid
  <1>5. \A i \in 1 .. m : /\ list[i] \in Records /\ Size(list[i]) \in Nat \ {0}
                          /\ off[i] \in 0 .. FifoLen - 1 /\ off[i] + Size(list[i]) <= end
                          /\ off[i + 1] = off[i] + Size(list[i])
    BY LaidFacts
  <1>6. At(cells, base, r)
    <2>1. Advance(base, 0) = base
      BY AdvanceFacts, Positive
    <2> QED BY <1>2, <1>4, <2>1
  <1>7. ASSUME NEW i \in 1 .. m PROVE off[i + 1] \in Size(r) .. end /\ i + 1 \in 1 .. m + 1
    <2>1. off[1 + 1] = 0 + Size(r) /\ 1 + 1 \in 1 .. m + 1 /\ i + 1 \in 1 .. m + 1 /\ 1 + 1 <= i + 1
      BY <1>2, <1>4, <1>5
    <2>2. off[1 + 1] <= off[i + 1] /\ off[i + 1] \in 0 .. end
      BY <2>1 DEF Laid
    <2> QED BY <1>3, <2>1, <2>2
  <1>8. \A i, j \in 1 .. m : i <= j => off[i + 1] <= off[j + 1]
    <2> TAKE i, j \in 1 .. m
    <2>1. i + 1 \in 1 .. m + 1 /\ j + 1 \in 1 .. m + 1 /\ (i <= j => i + 1 <= j + 1)
      BY <1>2
    <2> QED BY <2>1 DEF Laid
  <1> HIDE DEF m, b
  <1>9. \A i \in 1 .. m : o[i] = off[i + 1] - Size(r)
    OBVIOUS
  <1> HIDE DEF o
  <1>10. ASSUME NEW i \in 1 .. m PROVE o[i] \in 0 .. end - Size(r)
    BY <1>3, <1>7, <1>9
  <1>11. ASSUME NEW i \in 1 .. m, NEW j \in 1 .. m, i <= j PROVE o[i] <= o[j]
    BY SMTT(60), <1>3, <1>7, <1>8, <1>9, <1>11
  <1>12. o[1] = 0 /\ o[m] = end - Size(r)
    <2>1. off[1 + 1] = 0 + Size(r) /\ m \in 1 .. m
      BY <1>2, <1>4, <1>5
    <2> QED BY <1>2, <1>3, <1>4, <1>9, <2>1
  <1>13. ASSUME NEW i \in 1 .. m - 1
         PROVE  o[i + 1] = o[i] + Size(new[i]) /\ At(cells, Advance(b, o[i]), new[i])
    <2>1. i \in 1 .. m /\ i + 1 \in 1 .. m /\ new[i] = list[i + 1]
      BY <1>1, <1>2
    <2>2. /\ off[i + 1] \in Size(r) .. end
          /\ off[(i + 1) + 1] = off[i + 1] + Size(list[i + 1]) /\ Size(list[i + 1]) \in Nat
      BY <1>5, <1>7, <2>1
    <2>3. o[i] = off[i + 1] - Size(r) /\ o[i + 1] = off[(i + 1) + 1] - Size(r)
      BY <1>9, <2>1
    <2> DEFINE s == Size(r)
               x == off[i + 1]
               z == Size(list[i + 1])
    <2>4. s \in Nat /\ x \in Nat /\ z \in Nat /\ s <= x /\ x <= FifoLen
      BY <1>3, <2>2, Positive
    <2>5. o[i] = x - s /\ o[i + 1] = (x + z) - s /\ Size(new[i]) = z
      <3>1. Size(new[i]) = z
        BY <2>1
      <3>2. o[i] = x - s
        BY <2>3
      <3>3. o[i + 1] = (x + z) - s
        BY <2>2, <2>3
      <3> QED BY <3>1, <3>2, <3>3
    <2> HIDE DEF s, x, z
    <2>6. o[i + 1] = o[i] + Size(new[i]) /\ o[i] \in Nat /\ s + o[i] = x /\ s + o[i] <= FifoLen
      <3>1. o[i] \in Nat /\ s + o[i] = x
        BY <2>4, <2>5
      <3>2. s + o[i] <= FifoLen
        BY <2>4, <3>1
      <3>3. (x + z) - s = (x - s) + z
        BY <2>4
      <3> QED BY <2>5, <3>1, <3>2, <3>3
    <2>7. Advance(b, o[i]) = Advance(base, off[i + 1])
      BY <2>4, <2>6, AdvanceTwice DEF b, s, x
    <2> QED BY <1>4, <2>1, <2>6, <2>7
  <1>14. Laid(cells, b, new, end - Size(r), o)
    <2>1. Len(new) + 1 = m /\ Len(new) = m - 1
      BY <1>1, <1>2
    <2> QED BY <1>10, <1>11, <1>12, <1>13, <2>1 DEF Laid
  <1> QED BY <1>1, <1>2, <1>6, <1>14 DEF b

-----------------------------------------------------------------------------
(* The steps.                                                               *)

LEMMA RingFacts ==
  ASSUME Typed, NEW c \in Cores, Ring(c)
  PROVE  /\ Held(c) \in 0 .. FifoLen /\ Gone(c) \in Nat /\ Coming(c) \in Nat
         /\ Held(c) - Gone(c) \in 0 .. FifoLen
         /\ fifo[c] \in Cells /\ todo[c] \in Seq(Records)
         /\ write_idx[c] \in 0 .. FifoLen - 1 /\ read_idx[c] \in 0 .. FifoLen - 1
         /\ write_size[c] \in 0 .. SizeMod - 1 /\ read_size[c] \in 0 .. SizeMod - 1
         /\ Advance(read_idx[c], Gone(c)) \in 0 .. FifoLen - 1
         /\ Advance(read_idx[c], Held(c)) =
              Advance(Advance(read_idx[c], Gone(c)), Held(c) - Gone(c))
  <1>1. /\ fifo[c] \in Cells /\ todo[c] \in Seq(Records)
        /\ write_idx[c] \in 0 .. FifoLen - 1 /\ read_idx[c] \in 0 .. FifoLen - 1
        /\ write_size[c] \in 0 .. SizeMod - 1 /\ read_size[c] \in 0 .. SizeMod - 1
    BY DEF Typed
  <1>2. Gone(c) \in Nat
    BY SizeFacts DEF Gone, Typed, Bests
  <1>3. Coming(c) \in Nat
    <2>1. pc[c] = "written" => rec[c] \in Records
      BY DEF Typed
    <2> QED BY <2>1, SizeFacts DEF Coming
  <1>4. Held(c) \in 0 .. FifoLen /\ Held(c) - Gone(c) \in 0 .. FifoLen /\ Gone(c) \in 0 .. FifoLen
    <2>1. Held(c) \in Nat /\ Gone(c) <= Held(c) /\ Held(c) + Coming(c) <= FifoLen
      BY DEF Ring
    <2> HIDE DEF Held, Gone, Coming
    <2> QED BY <1>2, <1>3, <2>1, Positive
  <1>5. Advance(read_idx[c], Gone(c)) \in 0 .. FifoLen - 1
    BY <1>1, <1>4, AdvanceFacts
  <1>6. Advance(read_idx[c], Held(c)) =
          Advance(Advance(read_idx[c], Gone(c)), Held(c) - Gone(c))
    <2>1. /\ Held(c) - Gone(c) \in Nat /\ Gone(c) + (Held(c) - Gone(c)) = Held(c)
          /\ Held(c) <= FifoLen
      BY <1>2, <1>4, Positive
    <2> QED BY <1>1, <1>2, <2>1, AdvanceTwice
  <1> QED BY <1>1, <1>2, <1>3, <1>4, <1>5, <1>6

\* A step that leaves the buffer of c alone.
LEMMA RingFrame ==
  ASSUME NEW c \in Cores, Ring(c),
         fifo'[c] = fifo[c], todo'[c] = todo[c], Gone(c)' = Gone(c),
         write_idx'[c] = write_idx[c], read_idx'[c] = read_idx[c],
         write_size'[c] = write_size[c], read_size'[c] = read_size[c],
         pc'[c] = "written" <=> pc[c] = "written",
         pc[c] = "written" => rec'[c] = rec[c]
  PROVE  Ring(c)'
  BY DEF Ring, Held, Coming

\* Steps of the clock, of notification and of the loop that looks for a head.
Aside == UNCHANGED <<ring, pc, rec, todo>>

LEMMA AsideFrame ==
  ASSUME IInv, Aside, con.pc # "sent", con'.pc # "sent"
  PROVE  \A c \in Cores : Ring(c)'
  <1> TAKE c \in Cores
  <1>1. Gone(c)' = Gone(c)
    BY DEF Gone
  <1>2. Ring(c)
    BY DEF IInv
  <1> QED BY <1>1, <1>2, RingFrame DEF Aside, ring

\* The first header of a buffer is that of the record published first.
LEMMA HeadFacts ==
  ASSUME IInv, con.pc = "scan", NEW c \in Cores
  PROVE  /\ NotEmpty(c) <=> todo[c] # <<>>
         /\ todo[c] # <<>> => /\ Head(todo[c]) \in Records /\ HeadOf(c) = Head(todo[c])
                              /\ At(fifo[c], read_idx[c], Head(todo[c]))
                              /\ Size(Head(todo[c])) <= Held(c)
  <1>1. Ring(c) /\ Typed
    BY DEF IInv
  <1>2. Gone(c) = 0 /\ Held(c) \in 0 .. FifoLen /\ todo[c] \in Seq(Records)
        /\ read_idx[c] \in 0 .. FifoLen - 1
    BY <1>1, RingFacts DEF Gone
  <1>3. PICK off : Laid(fifo[c], read_idx[c], todo[c], Held(c), off)
    <2>1. PICK off : Laid(fifo[c], Advance(read_idx[c], 0), todo[c], Held(c) - 0, off)
      BY <1>1, <1>2 DEF Ring
    <2>2. Held(c) - 0 = Held(c) /\ 0 \in 0 .. FifoLen
      BY <1>2, Positive
    <2>3. Advance(read_idx[c], 0) = read_idx[c]
      BY <1>2, <2>2, AdvanceFacts
    <2> QED BY <2>1, <2>2, <2>3
  <1>4. CASE todo[c] = <<>>
    <2>1. todo[c] = <<>> <=> Held(c) = 0
      BY <1>2, <1>3, LaidEmpty, Zenon
    <2> QED BY <1>4, <2>1, Positive DEF NotEmpty, Held
  <1>5. CASE todo[c] # <<>>
    <2> DEFINE r == Head(todo[c])
    <2>1. /\ r \in Records /\ Size(r) <= Held(c) /\ At(fifo[c], read_idx[c], r)
      BY <1>2, <1>3, <1>5, LaidTail
    <2> HIDE DEF r
    <2>2. Size(r) \in Nat /\ Size(r) >= HdrLen
      BY <2>1, SizeFacts
    <2>3. NotEmpty(c)
      BY <1>2, <2>1, <2>2, Positive DEF NotEmpty, Held
    <2> DEFINE h == Loaded(fifo[c], read_idx[c], HdrLen)
    <2>4. \A k \in 1 .. HdrLen : h[k] = fifo[c][Advance(read_idx[c], k - 1)]
      <3>1. HdrLen \in 0 .. FifoLen
        BY Positive
      <3> QED BY <1>2, <3>1, LoadedFacts
    <2> HIDE DEF h
    <2>5. \A k \in 1 .. HdrLen : h[k] = <<r, k>>
      <3> TAKE k \in 1 .. HdrLen
      <3>1. k \in 1 .. Size(r)
        BY <2>2, Positive
      <3> QED BY <2>1, <2>4, <3>1 DEF At
    <2>6. 1 \in 1 .. HdrLen /\ h[1] = <<r, 1>> /\ h[1][1] = r /\ h[1] # None
      <3>1. 1 \in 1 .. HdrLen
        BY Positive
      <3>2. <<r, 1>> \in Records \X Nat
        BY <2>1
      <3> QED BY <2>5, <3>1, <3>2, TransmissionAssumption
    <2>7. HeadOf(c) = r
      BY <2>5, <2>6 DEF HeadOf, h
    <2> QED BY <1>5, <2>1, <2>3, <2>7 DEF r
  <1> QED BY <1>4, <1>5

LEMMA AsideStep ==
  ASSUME IInv, Tick \/ Pend \/ Look \/ Idle \/ \E c \in Cores : Notify(c)
  PROVE  IInv'
  <1>1. CASE Tick
    <2>0. now' \in 0 .. TimeMod - 1
      <3>0. now \in 0 .. TimeMod - 1 /\ now' = (now + TickStep) % TimeMod
        BY <1>1 DEF Tick, IInv, Typed
      <3>1. now + TickStep \in Nat
        <4>1. TickStep \in 0 .. TimeMod - 1
          BY TransmissionAssumption
        <4> QED BY <3>0, <4>1
      <3> QED BY <3>0, <3>1, Positive
    <2>1. Typed' /\ BestIsHead' /\ Aside /\ con' = con
      BY <1>1, <2>0 DEF Tick, IInv, Typed, BestIsHead, Aside, ring
    <2>2. \A c \in Cores : Ring(c)'
      <3> TAKE c \in Cores
      <3>1. Gone(c)' = Gone(c) /\ Ring(c)
        BY <2>1 DEF Gone, IInv
      <3> QED BY <2>1, <3>1, RingFrame DEF Aside, ring
    <2> QED BY <2>1, <2>2 DEF IInv
  <1>2. CASE \E c \in Cores : Notify(c)
    <2>1. Typed' /\ BestIsHead' /\ Aside /\ con' = con
      BY <1>2 DEF Notify, IInv, Typed, BestIsHead, Aside, ring
    <2>2. \A c \in Cores : Ring(c)'
      <3> TAKE c \in Cores
      <3>1. Gone(c)' = Gone(c) /\ Ring(c)
        BY <2>1 DEF Gone, IInv
      <3> QED BY <2>1, <3>1, RingFrame DEF Aside, ring
    <2> QED BY <2>1, <2>2 DEF IInv
  <1>3. CASE Pend
    <2>1. con' = Scan /\ con'.pc = "scan" /\ con'.best = None /\ con.pc = "pend" /\ Aside
      BY <1>3 DEF Pend, Scan, Aside, ring
    <2>2. Scan \in [pc : {"pend", "scan", "sent"}, core : 0 .. CoreNum, best : {None} \cup Bests]
      BY Positive DEF Scan
    <2>3. Typed' /\ BestIsHead'
      BY <1>3, <2>1, <2>2 DEF Pend, IInv, Typed, BestIsHead, ring
    <2> QED BY <2>1, <2>3, AsideFrame DEF IInv
  <1>4. CASE Idle
    <2>1. con'.pc = "pend" /\ con.pc = "scan" /\ Aside
      BY <1>4 DEF Idle, Aside, ring, IInv, Typed
    <2>2. Typed' /\ BestIsHead'
      BY <1>4, <2>1 DEF Idle, IInv, Typed, BestIsHead, ring
    <2> QED BY <2>1, <2>2, AsideFrame DEF IInv
  <1>5. CASE Look
    <2> DEFINE c == con.core
               best == IF NotEmpty(c) /\ HeadOf(c) # None /\ Earlier(HeadOf(c))
                       THEN [core |-> c, head |-> HeadOf(c)] ELSE con.best
    <2>1. /\ con.pc = "scan" /\ c < CoreNum /\ Aside
          /\ con' = [con EXCEPT !.core = c + 1, !.best = best]
          /\ UNCHANGED <<owed, notify_sem, last_timestamp, now, count>>
      BY <1>5 DEF Look, Aside, ring
    <2>2. c \in Cores
      BY <2>1, Positive DEF IInv, Typed, Cores
    <2>3. best # con.best => /\ best = [core |-> c, head |-> Head(todo[c])] /\ best \in Bests
                             /\ todo[c] # <<>>
      <3> SUFFICES ASSUME best # con.best
                   PROVE  /\ best = [core |-> c, head |-> Head(todo[c])] /\ best \in Bests
                          /\ todo[c] # <<>>
        OBVIOUS
      <3>1. NotEmpty(c) /\ best = [core |-> c, head |-> HeadOf(c)]
        OBVIOUS
      <3> HIDE DEF best
      <3> QED BY <2>1, <2>2, <3>1, HeadFacts DEF Bests
    <2> HIDE DEF best
    <2>4. best \in {None} \cup Bests /\ c + 1 \in 0 .. CoreNum
      <3>1. con.best \in {None} \cup Bests
        BY DEF IInv, Typed
      <3>2. c + 1 \in 0 .. CoreNum
        BY <2>2, Positive DEF Cores
      <3> QED BY <2>3, <3>1, <3>2
    <2>5. con'.pc = "scan" /\ con'.best = best
          /\ con' \in [pc : {"pend", "scan", "sent"}, core : 0 .. CoreNum, best : {None} \cup Bests]
      BY <2>1, <2>4 DEF IInv, Typed
    <2>6. Typed'
      BY <2>1, <2>5 DEF IInv, Typed, Aside, ring
    <2>7. BestIsHead'
      <3>1. CASE best = con.best
        BY <2>1, <2>5, <3>1 DEF IInv, BestIsHead, Aside
      <3>2. CASE best # con.best
        BY <2>1, <2>3, <2>5, <3>2 DEF BestIsHead, Aside
      <3> QED BY <3>1, <3>2
    <2> QED BY <2>1, <2>5, <2>6, <2>7, AsideFrame DEF IInv
  <1> QED BY <1>1, <1>2, <1>3, <1>4, <1>5

LEMMA WriteStep ==
  ASSUME IInv, NEW c \in Cores, Write(c)
  PROVE  IInv'
  <1> DEFINE Writes(mode, len, r) ==
      /\ r = [n |-> count + 1, mode |-> mode, stamp |-> now,
              len |-> IF Free(c) - HdrLen < len THEN Free(c) - HdrLen ELSE len]
      /\ pc[c] = "out" /\ Fits(c, mode, len)
      /\ fifo' = [fifo EXCEPT ![c] = Stored(fifo[c], write_idx[c], r)]
      /\ write_idx' = [write_idx EXCEPT
           ![c] = Advance(Advance(write_idx[c], HdrLen), r.len)]
      /\ rec' = [rec EXCEPT ![c] = r] /\ pc' = [pc EXCEPT ![c] = "written"]
      /\ count' = count + 1
      /\ UNCHANGED <<write_size, read_idx, read_size, owed, notify_sem, last_timestamp, con,
                     now, todo>>
  <1>0. PICK mode \in Modes, len \in Lens : \E r : Writes(mode, len, r)
    BY DEF Write
  <1>1. PICK r : mode \in Modes /\ len \in Lens /\ Writes(mode, len, r)
    BY <1>0
  <1> DEFINE base == Advance(read_idx[c], Gone(c))
             end == Held(c) - Gone(c)
  <1>2. Ring(c) /\ Typed
    BY DEF IInv
  <1>3. /\ Held(c) \in 0 .. FifoLen /\ Gone(c) \in Nat /\ end \in 0 .. FifoLen
        /\ fifo[c] \in Cells /\ todo[c] \in Seq(Records)
        /\ write_idx[c] \in 0 .. FifoLen - 1 /\ read_idx[c] \in 0 .. FifoLen - 1
        /\ base \in 0 .. FifoLen - 1 /\ Advance(read_idx[c], Held(c)) = Advance(base, end)
    BY <1>2, RingFacts
  <1>4. Coming(c) = 0 /\ write_idx[c] = Advance(base, end)
    <2>1. Coming(c) = 0
      BY <1>1 DEF Coming
    <2>2. write_idx[c] = Advance(read_idx[c], Held(c) + Coming(c))
      BY <1>2 DEF Ring
    <2>3. Held(c) + 0 = Held(c)
      BY <1>3, Positive
    <2> QED BY <1>3, <2>1, <2>2, <2>3
  <1>5. r \in Records /\ Size(r) \in Nat \ {0} /\ Held(c) + Size(r) <= FifoLen
    <2> DEFINE free == Free(c)
               held == Held(c)
               room == free - HdrLen
               l == IF room < len THEN room ELSE len
    <2>1. free = FifoLen - held /\ free > HdrLen /\ held \in Nat
      BY <1>1, <1>3 DEF Free, Held, Fits
    <2>2. len \in Nat \ {0}
      BY TransmissionAssumption
    <2> HIDE DEF free, held
    <2>3. room \in Nat \ {0} /\ held + HdrLen + room = FifoLen
      BY <2>1, Positive
    <2> HIDE DEF room
    <2>4. l \in Nat \ {0} /\ held + (HdrLen + l) <= FifoLen
      BY <2>1, <2>2, <2>3, Positive
    <2>5. r = [n |-> count + 1, mode |-> mode, stamp |-> now, len |-> l]
      BY <1>1 DEF room, free
    <2> HIDE DEF l
    <2>6. r \in Records /\ r.len = l
      BY <1>2, <2>4, <2>5 DEF Records, Typed
    <2> QED BY <2>4, <2>6, SizeFacts DEF held
  <1> HIDE DEF base, end
  <1>6. PICK off : Laid(fifo[c], base, todo[c], end, off)
    BY <1>2 DEF Ring, base, end
  <1>7. end + Size(r) <= FifoLen
    BY <1>3, <1>5, Positive DEF end
  <1>8. /\ fifo'[c] \in Cells /\ At(fifo'[c], Advance(base, end), r)
        /\ Laid(fifo'[c], base, todo[c], end, off)
    <2>1. fifo'[c] = Stored(fifo[c], Advance(base, end), r)
      BY <1>1, <1>2, <1>4 DEF Typed
    <2> QED BY <1>3, <1>5, <1>6, <1>7, <2>1, LaidStored
  <1>9. /\ write_idx'[c] = Advance(read_idx[c], Held(c) + Size(r))
        /\ write_idx'[c] \in 0 .. FifoLen - 1
    <2>1. /\ HdrLen \in Nat /\ r.len \in Nat /\ Size(r) = HdrLen + r.len
          /\ HdrLen + r.len <= FifoLen /\ Held(c) + (HdrLen + r.len) <= FifoLen
          /\ Held(c) \in Nat /\ HdrLen + r.len \in Nat
      <3> DEFINE held == Held(c)
                 l == r.len
                 n == Size(r)
      <3>1. l \in Nat /\ n = HdrLen + l /\ held \in Nat /\ held + n <= FifoLen
        BY <1>3, <1>5, SizeFacts
      <3> HIDE DEF held, l, n
      <3>2. /\ HdrLen \in Nat /\ HdrLen + l <= FifoLen /\ held + (HdrLen + l) <= FifoLen
            /\ HdrLen + l \in Nat
        BY <3>1, Positive
      <3> QED BY <3>1, <3>2 DEF held, l, n
    <2>2. Advance(Advance(write_idx[c], HdrLen), r.len) = Advance(write_idx[c], HdrLen + r.len)
      BY <1>3, <2>1, AdvanceTwice
    <2>3. Advance(write_idx[c], HdrLen + r.len) = Advance(read_idx[c], Held(c) + (HdrLen + r.len))
      BY <1>3, <1>4, <2>1, AdvanceTwice
    <2>4. Held(c) + Size(r) \in 0 .. FifoLen
      BY <2>1, Positive
    <2>5. write_idx'[c] = Advance(Advance(write_idx[c], HdrLen), r.len)
      BY <1>1, <1>2 DEF Typed
    <2>6. write_idx'[c] = Advance(read_idx[c], Held(c) + Size(r))
      BY <2>1, <2>2, <2>3, <2>5
    <2> QED BY <1>3, <2>4, <2>6, AdvanceFacts
  <1>10. Typed'
    <2>1. fifo' \in [Cores -> Cells]
      BY <1>1, <1>2, <1>8 DEF Typed
    <2>2. write_idx' \in [Cores -> 0 .. FifoLen - 1]
      BY <1>1, <1>2, <1>9 DEF Typed
    <2>3. /\ pc' \in [Cores -> {"out", "written", "published"}]
          /\ rec' \in [Cores -> {None} \cup Records] /\ count' \in Nat
      BY <1>1, <1>2, <1>5 DEF Typed
    <2>4. \A d \in Cores : IF pc'[d] = "out" THEN rec'[d] = None ELSE rec'[d] \in Records
      BY <1>1, <1>2, <1>5 DEF Typed
    <2> QED BY <1>1, <1>2, <2>1, <2>2, <2>3, <2>4 DEF Typed
  <1>11. Ring(c)'
    <2>1. Held(c)' = Held(c) /\ Gone(c)' = Gone(c)
      BY <1>1 DEF Held, Gone
    <2>2. pc'[c] = "written" /\ rec'[c] = r /\ Coming(c)' = Size(r)
      BY <1>1, <1>2 DEF Typed, Coming
    <2>3. Gone(c) <= Held(c) /\ Held(c) \in Nat
      BY <1>2 DEF Ring
    <2>4. UNCHANGED <<read_idx, todo>>
      BY <1>1
    <2>5. \E o : Laid(fifo'[c], Advance(read_idx[c], Gone(c)), todo[c], Held(c) - Gone(c), o)
      BY <1>8 DEF base, end
    <2>6. At(fifo'[c], Advance(read_idx[c], Held(c)), r)
      BY <1>3, <1>8
    <2> QED BY <1>5, <1>9, <2>1, <2>2, <2>3, <2>4, <2>5, <2>6 DEF Ring
  <1>12. ASSUME NEW d \in Cores, d # c PROVE Ring(d)'
    <2>1. Ring(d) /\ Gone(d)' = Gone(d)
      BY <1>1 DEF IInv, Gone
    <2> QED BY <1>1, <1>2, <1>12, <2>1, RingFrame DEF Typed
  <1>13. BestIsHead'
    BY <1>1 DEF IInv, BestIsHead
  <1> QED BY <1>10, <1>11, <1>12, <1>13 DEF IInv

LEMMA PublishStep ==
  ASSUME IInv, NEW c \in Cores, Publish(c)
  PROVE  /\ IInv'
         /\ rec[c] \in Records /\ todo' = [todo EXCEPT ![c] = Append(todo[c], rec[c])]
         /\ Held(c)' = Held(c) + Size(rec[c])
  <1>1. /\ pc[c] = "written" /\ pc' = [pc EXCEPT ![c] = "published"]
        /\ write_size' = [write_size EXCEPT ![c] = (write_size[c] + HdrLen + rec[c].len) % SizeMod]
        /\ todo' = [todo EXCEPT ![c] = Append(todo[c], rec[c])]
        /\ UNCHANGED <<fifo, write_idx, read_idx, read_size, rec, owed, notify_sem, last_timestamp,
                       con, now, count>>
    BY DEF Publish
  <1> DEFINE base == Advance(read_idx[c], Gone(c))
             end == Held(c) - Gone(c)
             r == rec[c]
  <1>2. Ring(c) /\ Typed
    BY DEF IInv
  <1>3. /\ Held(c) \in 0 .. FifoLen /\ Gone(c) \in Nat /\ end \in 0 .. FifoLen
        /\ todo[c] \in Seq(Records)
        /\ write_size[c] \in 0 .. SizeMod - 1 /\ read_size[c] \in 0 .. SizeMod - 1
        /\ base \in 0 .. FifoLen - 1 /\ Advance(read_idx[c], Held(c)) = Advance(base, end)
    BY <1>2, RingFacts
  <1>4. /\ r \in Records /\ r.len \in Nat /\ Size(r) \in Nat \ {0} /\ Size(r) = HdrLen + r.len
    BY <1>1, <1>2, SizeFacts DEF Typed
  <1>5. /\ Coming(c) = Size(r) /\ Held(c) + Size(r) <= FifoLen
        /\ write_idx[c] = Advance(read_idx[c], Held(c) + Size(r))
        /\ At(fifo[c], Advance(base, end), r)
    BY <1>1, <1>2, <1>3 DEF Ring, Coming
  <1> HIDE DEF base, end, r
  <1>6. write_size'[c] \in 0 .. SizeMod - 1 /\ Held(c)' = Held(c) + Size(r)
    <2>1. (write_size[c] + HdrLen) + r.len = write_size[c] + Size(r)
      BY <1>3, <1>4, Positive
    <2>2. write_size'[c] = (write_size[c] + Size(r)) % SizeMod
      BY <1>1, <1>2, <2>1 DEF Typed, r
    <2>3. /\ Size(r) \in Nat /\ Cached(write_size[c], read_size[c]) \in Nat
          /\ Cached(write_size[c], read_size[c]) + Size(r) <= FifoLen
      BY <1>3, <1>4, <1>5 DEF Held
    <2>4. /\ (write_size[c] + Size(r)) % SizeMod \in 0 .. SizeMod - 1
          /\ Cached((write_size[c] + Size(r)) % SizeMod, read_size[c]) =
               Cached(write_size[c], read_size[c]) + Size(r)
      BY <1>3, <2>3, CachedGrows
    <2> QED BY <1>1, <2>2, <2>4 DEF Held
  <1>7. PICK off : Laid(fifo[c], base, todo[c], end, off)
    BY <1>2 DEF Ring, base, end
  <1>8. /\ todo'[c] = Append(todo[c], r) /\ todo'[c] \in Seq(Records)
        /\ \E o : Laid(fifo[c], base, todo'[c], end + Size(r), o)
    <2>1. todo'[c] = Append(todo[c], r)
      BY <1>1, <1>2 DEF Typed, r
    <2>2. end + Size(r) <= FifoLen
      <3> DEFINE held == Held(c)
                 gone == Gone(c)
                 n == Size(r)
      <3>1. held \in Nat /\ gone \in Nat /\ n \in Nat /\ held + n <= FifoLen /\ end = held - gone
        BY <1>3, <1>4, <1>5 DEF end
      <3> HIDE DEF held, gone, n
      <3>2. end + n <= FifoLen
        BY <3>1, Positive
      <3> QED BY <3>2 DEF n
    <2> QED BY <1>3, <1>4, <1>5, <1>7, <2>1, <2>2, LaidAppend, Zenon
  <1>9. Typed'
    BY <1>1, <1>2, <1>4, <1>6, <1>8 DEF Typed, r
  <1>10. Ring(c)'
    <2>1. Gone(c)' = Gone(c) /\ pc'[c] = "published" /\ Coming(c)' = 0
      BY <1>1, <1>2 DEF Gone, Coming, Typed
    <2>2. /\ Held(c) + Size(r) \in Nat /\ Gone(c) <= Held(c) + Size(r)
          /\ (Held(c) + Size(r)) + 0 = Held(c) + Size(r)
          /\ end + Size(r) = (Held(c) + Size(r)) - Gone(c)
      <3> DEFINE held == Held(c)
                 gone == Gone(c)
                 n == Size(r)
      <3>1. held \in Nat /\ gone \in Nat /\ n \in Nat /\ gone <= held /\ end = held - gone
        BY <1>2, <1>3, <1>4 DEF end, Ring
      <3> HIDE DEF held, gone, n
      <3>2. /\ held + n \in Nat /\ gone <= held + n /\ (held + n) + 0 = held + n
            /\ end + n = (held + n) - gone
        BY <3>1
      <3> QED BY <3>2 DEF held, gone, n
    <2>3. UNCHANGED <<fifo, write_idx, read_idx>>
      BY <1>1
    <2>4. \E o : Laid(fifo[c], Advance(read_idx[c], Gone(c)), todo'[c],
                      (Held(c) + Size(r)) - Gone(c), o)
      BY <1>8, <2>2 DEF base
    <2> QED BY <1>5, <1>6, <2>1, <2>2, <2>3, <2>4 DEF Ring
  <1>11. ASSUME NEW d \in Cores, d # c PROVE Ring(d)'
    <2>1. Ring(d) /\ Gone(d)' = Gone(d)
      BY <1>1 DEF IInv, Gone
    <2> QED BY <1>1, <1>2, <1>11, <2>1, RingFrame DEF Typed
  <1>12. BestIsHead'
    <2> SUFFICES ASSUME con.pc = "scan", con.best # None
                 PROVE  /\ todo'[con.best.core] # <<>>
                        /\ con.best.head = Head(todo'[con.best.core])
      BY <1>1 DEF BestIsHead
    <2>1. todo[con.best.core] # <<>> /\ con.best.head = Head(todo[con.best.core])
      BY DEF IInv, BestIsHead
    <2>2. CASE con.best.core = c
      <3>1. todo'[c] # <<>> /\ Head(todo'[c]) = Head(todo[c])
        BY <1>3, <1>4, <1>8, <2>1, <2>2, AppendHead
      <3> QED BY <2>1, <2>2, <3>1
    <2>3. CASE con.best.core # c
      BY <1>1, <1>2, <2>1, <2>3 DEF Typed, Bests
    <2> QED BY <2>2, <2>3
  <1> QED BY <1>1, <1>4, <1>6, <1>9, <1>10, <1>11, <1>12 DEF IInv, r

LEMMA LeaveStep ==
  ASSUME IInv, NEW c \in Cores, Leave(c)
  PROVE  IInv'
  <1>1. /\ pc[c] = "published" /\ pc' = [pc EXCEPT ![c] = "out"]
        /\ owed' = [owed EXCEPT ![c] = owed[c] \/ WasEmpty(c)]
        /\ rec' = [rec EXCEPT ![c] = None]
        /\ UNCHANGED <<ring, notify_sem, last_timestamp, con, now, count, todo>>
    BY DEF Leave
  <1>2. Typed
    BY DEF IInv
  <1>3. Typed'
    <2>1. (owed[c] \/ WasEmpty(c)) \in BOOLEAN
      BY <1>2 DEF Typed
    <2>2. owed' \in [Cores -> BOOLEAN]
      BY <1>1, <1>2, <2>1 DEF Typed
    <2> QED BY <1>1, <1>2, <2>2 DEF Typed, ring
  <1>4. ASSUME NEW d \in Cores PROVE Ring(d)'
    <2>1. Ring(d) /\ Gone(d)' = Gone(d)
      BY <1>1 DEF IInv, Gone
    <2> QED BY <1>1, <1>2, <2>1, RingFrame DEF Typed, ring
  <1>5. BestIsHead'
    BY <1>1 DEF IInv, BestIsHead
  <1> QED BY <1>3, <1>4, <1>5 DEF IInv

LEMMA TransmitStep ==
  ASSUME IInv, Transmit, NEW c, c = con.best.core
  PROVE  /\ IInv'
         /\ c \in Cores /\ todo[c] # <<>> /\ con.best.head = Head(todo[c])
         /\ todo' = [todo EXCEPT ![c] = Tail(todo[c])]
         /\ \/ out' = <<c, P!Bytes(Head(todo[c]))>>
            \/ Head(todo[c]).mode = "lazy" /\ out' = out
  <1> DEFINE r == con.best.head
             bytes == Loaded(fifo[c], Advance(read_idx[c], HdrLen), r.len)
  <1>1. /\ con.pc = "scan" /\ con.best # None /\ last_timestamp' = r.stamp
        /\ \/ out' = <<c, [k \in 1 .. r.len |-> <<bytes[k][1], bytes[k][2] - HdrLen>>]>>
           \/ NeedsMemory(c, r) /\ out' = out
        /\ todo' = [todo EXCEPT ![c] = Tail(todo[c])]
        /\ con' = [con EXCEPT !.pc = "sent"]
        /\ UNCHANGED <<ring, pc, rec, owed, notify_sem, now, count>>
    BY DEF Transmit
  <1>2. Typed /\ c \in Cores /\ r \in Records
    BY <1>1 DEF IInv, Typed, Bests
  <1>3. Ring(c) /\ todo[c] # <<>> /\ r = Head(todo[c])
    BY <1>1, <1>2 DEF IInv, BestIsHead
  <1>4. /\ con'.pc = "sent" /\ con'.best = con.best /\ con' \in
             [pc : {"pend", "scan", "sent"}, core : 0 .. CoreNum, best : {None} \cup Bests]
    BY <1>1, <1>2 DEF Typed
  <1> HIDE DEF r, bytes
  <1>5. /\ Held(c) \in 0 .. FifoLen /\ Gone(c) = 0 /\ todo[c] \in Seq(Records)
        /\ read_idx[c] \in 0 .. FifoLen - 1
    BY <1>1, <1>2, <1>3, RingFacts DEF Gone
  <1>6. PICK off : Laid(fifo[c], read_idx[c], todo[c], Held(c), off)
    <2>1. PICK off : Laid(fifo[c], Advance(read_idx[c], 0), todo[c], Held(c) - 0, off)
      BY <1>3, <1>5 DEF Ring
    <2>2. Held(c) - 0 = Held(c) /\ 0 \in 0 .. FifoLen
      BY <1>5, Positive
    <2>3. Advance(read_idx[c], 0) = read_idx[c]
      BY <1>5, <2>2, AdvanceFacts
    <2> QED BY <2>1, <2>2, <2>3
  <1>7. todo'[c] = Tail(todo[c])
    BY <1>1, <1>2 DEF Typed
  <1>8. /\ todo'[c] \in Seq(Records) /\ Size(r) <= Held(c) /\ At(fifo[c], read_idx[c], r)
        /\ \E o : Laid(fifo[c], Advance(read_idx[c], Size(r)), todo'[c], Held(c) - Size(r), o)
    BY ZenonT(60), <1>3, <1>5, <1>6, <1>7, LaidTail
  <1>9. r.len \in Nat /\ Size(r) \in Nat \ {0} /\ Size(r) = HdrLen + r.len /\ Size(r) <= FifoLen
    <2>1. r.len \in Nat /\ Size(r) \in Nat \ {0} /\ Size(r) = HdrLen + r.len
      BY <1>2, SizeFacts
    <2> DEFINE held == Held(c)
               n == Size(r)
    <2>2. n \in Nat /\ held \in 0 .. FifoLen /\ n <= held
      BY <1>5, <1>8, <2>1
    <2> HIDE DEF held, n
    <2>3. n <= FifoLen
      BY <2>2, Positive
    <2> QED BY <2>1, <2>3 DEF n
  <1>10. Typed'
    <2>1. todo' \in [Cores -> Seq(Records)]
      BY <1>1, <1>2, <1>8 DEF Typed
    <2>2. last_timestamp' \in 0 .. TimeMod - 1
      BY <1>1, <1>2 DEF Records
    <2> QED BY <1>1, <1>2, <1>4, <2>1, <2>2 DEF Typed, ring
  <1>11. Ring(c)'
    <2>1. Held(c)' = Held(c) /\ Coming(c)' = Coming(c) /\ Gone(c)' = Size(r)
      BY <1>1, <1>2, <1>4 DEF Held, Coming, Gone, ring, r
    <2> QED BY <1>1, <1>3, <1>8, <1>9, <2>1 DEF Ring, ring
  <1>12. ASSUME NEW d \in Cores, d # c PROVE Ring(d)'
    <2>1. Ring(d) /\ Gone(d)' = Gone(d)
      BY <1>1, <1>4, <1>12 DEF IInv, Gone
    <2> QED BY <1>1, <1>2, <1>12, <2>1, RingFrame DEF Typed, ring
  <1>13. BestIsHead'
    BY <1>4 DEF BestIsHead
  <1>14. ASSUME NEW k \in 1 .. r.len
         PROVE  <<bytes[k][1], bytes[k][2] - HdrLen>> = <<r, k>>
    <2> DEFINE l == r.len
    <2>1. l \in Nat /\ k \in 1 .. l /\ HdrLen + l <= FifoLen
      BY <1>9
    <2> HIDE DEF l
    <2>2. /\ HdrLen \in Nat /\ HdrLen \in 0 .. FifoLen /\ l \in 0 .. FifoLen
          /\ k - 1 \in Nat /\ HdrLen + (k - 1) <= FifoLen
          /\ HdrLen + k \in 1 .. HdrLen + l /\ (HdrLen + k) - 1 = HdrLen + (k - 1)
          /\ (HdrLen + k) - HdrLen = k
      BY <2>1, Positive
    <2>3. Advance(read_idx[c], HdrLen) \in 0 .. FifoLen - 1
      BY <1>5, <2>2, AdvanceFacts
    <2>4. bytes[k] = fifo[c][Advance(Advance(read_idx[c], HdrLen), k - 1)]
      BY <2>1, <2>2, <2>3, LoadedFacts DEF bytes, l
    <2>5. Advance(Advance(read_idx[c], HdrLen), k - 1) = Advance(read_idx[c], HdrLen + (k - 1))
      BY <1>5, <2>2, AdvanceTwice
    <2>6. fifo[c][Advance(read_idx[c], (HdrLen + k) - 1)] = <<r, HdrLen + k>>
      BY <1>8, <1>9, <2>2 DEF At, l
    <2> QED BY <2>2, <2>4, <2>5, <2>6
  <1>15. [k \in 1 .. r.len |-> <<bytes[k][1], bytes[k][2] - HdrLen>>] = P!Bytes(r)
    BY <1>14 DEF P!Bytes
  <1>16. NeedsMemory(c, r) => r.mode = "lazy"
    BY DEF NeedsMemory
  <1> QED BY <1>1, <1>2, <1>3, <1>10, <1>11, <1>12, <1>13, <1>15, <1>16 DEF IInv, r

LEMMA ReleaseStep ==
  ASSUME IInv, Release
  PROVE  IInv' /\ con'.pc = "scan" /\ con'.core = 0 /\ UNCHANGED <<todo, out>>
  <1> DEFINE c == con.best.core
             r == con.best.head
             n == Size(r)
  <1>1. /\ con.pc = "sent" /\ con' = Scan
        /\ read_idx' = [read_idx EXCEPT ![c] = Advance(Advance(read_idx[c], HdrLen), r.len)]
        /\ read_size' = [read_size EXCEPT ![c] = (read_size[c] + HdrLen + r.len) % SizeMod]
        /\ UNCHANGED <<fifo, write_idx, write_size, pc, rec, owed, notify_sem, last_timestamp, now,
                       count, todo, out>>
    BY DEF Release
  <1>2. Typed /\ c \in Cores /\ r \in Records /\ Ring(c)
    BY <1>1 DEF IInv, Typed, Bests
  <1>3. /\ Held(c) \in 0 .. FifoLen /\ Gone(c) \in Nat /\ Coming(c) \in Nat
        /\ read_idx[c] \in 0 .. FifoLen - 1
        /\ write_size[c] \in 0 .. SizeMod - 1 /\ read_size[c] \in 0 .. SizeMod - 1
        /\ Advance(read_idx[c], Held(c)) =
             Advance(Advance(read_idx[c], Gone(c)), Held(c) - Gone(c))
    BY <1>2, RingFacts
  <1>4. r.len \in Nat /\ n \in Nat \ {0} /\ n = HdrLen + r.len /\ Gone(c) = n
    BY <1>1, <1>2, SizeFacts DEF Gone
  <1>5. /\ n <= Held(c) /\ Held(c) + Coming(c) <= FifoLen
        /\ write_idx[c] = Advance(read_idx[c], Held(c) + Coming(c))
        /\ pc[c] = "written" => At(fifo[c], Advance(read_idx[c], Held(c)), rec[c])
        /\ \E off : Laid(fifo[c], Advance(read_idx[c], n), todo[c], Held(c) - n, off)
    BY <1>2, <1>4 DEF Ring
  <1>6. con'.pc = "scan" /\ con'.core = 0 /\ con'.best = None /\ con' \in
             [pc : {"pend", "scan", "sent"}, core : 0 .. CoreNum, best : {None} \cup Bests]
    <2>1. 0 \in 0 .. CoreNum
      BY Positive
    <2> QED BY <1>1, <2>1 DEF Scan
  <1> DEFINE held == Held(c)
             coming == Coming(c)
             l == r.len
  <1>7. /\ held \in 0 .. FifoLen /\ n \in Nat \ {0} /\ n <= held /\ coming \in Nat
        /\ held + coming <= FifoLen /\ l \in Nat /\ n = HdrLen + l
    BY <1>3, <1>4, <1>5
  <1> HIDE DEF held, coming, l, n, c, r
  <1>8. /\ held - n \in Nat /\ held - n \in 0 .. FifoLen /\ n <= FifoLen /\ held <= FifoLen
        /\ n + ((held - n) + coming) = held + coming /\ (held - n) + coming \in Nat
        /\ (held - n) + coming <= FifoLen /\ n + ((held - n) + coming) <= FifoLen
        /\ HdrLen \in Nat /\ HdrLen + l <= FifoLen /\ n \in 0 .. FifoLen
    BY <1>7, Positive
  <1>9. read_idx'[c] = Advance(read_idx[c], n) /\ read_idx'[c] \in 0 .. FifoLen - 1
    <2>1. read_idx'[c] = Advance(Advance(read_idx[c], HdrLen), l)
      BY <1>1, <1>2 DEF Typed, l, c, r
    <2>2. Advance(Advance(read_idx[c], HdrLen), l) = Advance(read_idx[c], HdrLen + l)
      BY <1>3, <1>7, <1>8, AdvanceTwice
    <2>3. Advance(read_idx[c], n) \in 0 .. FifoLen - 1
      BY <1>3, <1>8, AdvanceFacts
    <2> QED BY <1>7, <2>1, <2>2, <2>3
  <1>10. read_size'[c] \in 0 .. SizeMod - 1 /\ Cached(write_size[c], read_size'[c]) = held - n
    <2>1. (read_size[c] + HdrLen) + l = read_size[c] + n
      BY <1>3, <1>7, Positive
    <2>2. read_size'[c] = (read_size[c] + n) % SizeMod
      BY <1>1, <1>2, <2>1 DEF Typed, l, c, r
    <2>3. /\ n \in Nat /\ Cached(write_size[c], read_size[c]) \in Nat
          /\ Cached(write_size[c], read_size[c]) <= FifoLen
          /\ n <= Cached(write_size[c], read_size[c])
      BY <1>7, <1>8 DEF held, Held
    <2>4. /\ (read_size[c] + n) % SizeMod \in 0 .. SizeMod - 1
          /\ Cached(write_size[c], (read_size[c] + n) % SizeMod) =
               Cached(write_size[c], read_size[c]) - n
      BY <1>3, <2>3, CachedShrinks
    <2> QED BY <2>2, <2>4 DEF held, Held
  <1>11. Typed'
    <2>1. read_idx' \in [Cores -> 0 .. FifoLen - 1]
      BY <1>1, <1>2, <1>9 DEF Typed, c
    <2>2. read_size' \in [Cores -> 0 .. SizeMod - 1]
      BY <1>1, <1>2, <1>10 DEF Typed, c
    <2> QED BY <1>1, <1>2, <1>6, <2>1, <2>2 DEF Typed
  <1>12. ASSUME NEW d \in Cores PROVE Ring(d)'
    <2>1. CASE d = c
      <3>1. Held(d)' = held - n /\ Gone(d)' = 0 /\ Coming(d)' = coming
        BY <1>1, <1>6, <1>10, <2>1 DEF Held, Gone, Coming, coming
      <3>2. write_idx'[d] = Advance(read_idx'[d], (held - n) + coming)
        <4>1. Advance(Advance(read_idx[c], n), (held - n) + coming) =
                Advance(read_idx[c], n + ((held - n) + coming))
          BY <1>3, <1>7, <1>8, AdvanceTwice
        <4> QED BY <1>1, <1>5, <1>8, <1>9, <2>1, <4>1 DEF held, coming
      <3>3. pc'[d] = "written" => At(fifo'[d], Advance(read_idx'[d], held - n), rec'[d])
        <4>1. Advance(read_idx[c], held) = Advance(Advance(read_idx[c], n), held - n)
          BY <1>3, <1>4 DEF held
        <4> QED BY <1>1, <1>5, <1>9, <2>1, <4>1 DEF held
      <3>4. Advance(read_idx'[d], 0) = read_idx'[d] /\ (held - n) - 0 = held - n /\ 0 <= held - n
        <4>1. 0 \in 0 .. FifoLen /\ (held - n) - 0 = held - n /\ 0 <= held - n
          BY <1>8, Positive
        <4> QED BY <1>9, <2>1, <4>1, AdvanceFacts
      <3>5. \E off : Laid(fifo'[d], Advance(read_idx'[d], 0), todo'[d], (held - n) - 0, off)
        BY <1>1, <1>5, <1>9, <2>1, <3>4 DEF held
      <3> QED BY <1>8, <3>1, <3>2, <3>3, <3>4, <3>5 DEF Ring
    <2>2. CASE d # c
      <3>1. Ring(d) /\ Gone(d)' = Gone(d)
        BY <1>1, <1>6, <2>2 DEF IInv, Gone, c
      <3> QED BY <1>1, <1>2, <2>2, <3>1, RingFrame DEF Typed, c
    <2> QED BY <2>1, <2>2
  <1>13. BestIsHead'
    BY <1>6 DEF BestIsHead
  <1> QED BY <1>1, <1>6, <1>11, <1>12, <1>13 DEF IInv

LEMMA InitHolds == Init => IInv
  <1> SUFFICES ASSUME Init PROVE IInv
    OBVIOUS
  <1>1. Typed
    <2>1. 0 \in 0 .. FifoLen - 1 /\ 0 \in 0 .. CoreNum /\ <<>> \in Seq(Records)
      BY Positive
    <2>2. [a \in 0 .. FifoLen - 1 |-> None] \in Cells
      BY DEF Cells
    <2>3. fifo \in [Cores -> Cells] /\ todo \in [Cores -> Seq(Records)]
      BY <2>1, <2>2 DEF Init
    <2>4. con \in [pc : {"pend", "scan", "sent"}, core : 0 .. CoreNum, best : {None} \cup Bests]
      BY <2>1 DEF Init
    <2> QED BY <2>1, <2>3, <2>4, TransmissionAssumption DEF Init, Typed
  <1>2. ASSUME NEW c \in Cores PROVE Ring(c)
    <2>1. /\ write_size[c] = StartSize /\ read_size[c] = StartSize /\ pc[c] = "out"
          /\ todo[c] = <<>> /\ con.pc = "pend" /\ write_idx[c] = 0 /\ read_idx[c] = 0
      BY DEF Init
    <2>2. Held(c) = 0
      <3>1. /\ StartSize \in 0 .. SizeMod - 1 /\ 0 \in 0 .. FifoLen
            /\ StartSize = IF StartSize + 0 < SizeMod THEN StartSize + 0 ELSE StartSize + 0 - SizeMod
        BY Positive, TransmissionAssumption
      <3>2. Cached(StartSize, StartSize) = 0
        BY <3>1, CachedIs
      <3> QED BY <2>1, <3>2 DEF Held
    <2>3. Gone(c) = 0 /\ Coming(c) = 0
      BY <2>1 DEF Gone, Coming
    <2>4. Advance(0, 0) = 0 /\ 0 + 0 <= FifoLen
      <3>1. 0 \in 0 .. FifoLen - 1 /\ 0 \in 0 .. FifoLen
        BY Positive
      <3> QED BY <3>1, Positive, AdvanceFacts
    <2>5. Laid(fifo[c], 0, <<>>, 0, [i \in {1} |-> 0])
      <3>1. Len(<<>>) = 0
        BY EmptySeq
      <3> QED BY <3>1 DEF Laid
    <2> QED BY <2>1, <2>2, <2>3, <2>4, <2>5 DEF Ring
  <1>3. BestIsHead
    BY DEF Init, BestIsHead
  <1> QED BY <1>1, <1>2, <1>3 DEF IInv

LEMMA StepHolds == IInv /\ [Next]_vars => IInv'
  <1> SUFFICES ASSUME IInv, [Next]_vars PROVE IInv'
    OBVIOUS
  <1>1. CASE Tick \/ Pend \/ Look \/ Idle \/ \E c \in Cores : Notify(c)
    BY <1>1, AsideStep
  <1>2. CASE \E c \in Cores : Write(c)
    BY <1>2, WriteStep
  <1>3. CASE \E c \in Cores : Publish(c)
    BY <1>3, PublishStep
  <1>4. CASE \E c \in Cores : Leave(c)
    BY <1>4, LeaveStep
  <1>5. CASE Transmit
    BY <1>5, TransmitStep
  <1>6. CASE Release
    BY <1>6, ReleaseStep
  <1>7. CASE UNCHANGED vars
    <2>1. Typed' /\ BestIsHead' /\ con' = con /\ Aside
      BY <1>7 DEF vars, ring, IInv, Typed, BestIsHead, Aside
    <2>2. \A c \in Cores : Ring(c)'
      <3> TAKE c \in Cores
      <3>1. Gone(c)' = Gone(c) /\ Ring(c)
        BY <2>1 DEF Gone, IInv
      <3> QED BY <2>1, <3>1, RingFrame DEF Aside, ring
    <2> QED BY <2>1, <2>2 DEF IInv
  <1> QED BY <1>1, <1>2, <1>3, <1>4, <1>5, <1>6, <1>7 DEF Next, Consume, Produce

\* From the read index on lie the records not yet sent, whole and in order, and
\* behind them the one being written: what write_idx, write_size, read_idx and
\* read_size say is true of the bytes (generic_transmission.c:516-600).
THEOREM IInvInvariant == Spec => []IInv
  BY InitHolds, StepHolds, PTL DEF Spec

\* Types, and that the totals, which wrap, and the indices, which wrap elsewhere,
\* agree: the assertion of generic_transmission.c:521 cannot fail.
THEOREM TypeCorrect == Spec => []TypeOK
  <1>1. IInv => TypeOK
    <2> SUFFICES ASSUME IInv PROVE TypeOK
      OBVIOUS
    <2>1. TotalsAgree
      <3> SUFFICES ASSUME NEW c \in Cores
                   PROVE  LET cached == Cached(write_size[c], read_size[c])
                              unpublished == IF pc[c] = "written" THEN HdrLen + rec[c].len ELSE 0
                          IN  /\ cached \in 0 .. FifoLen /\ cached + unpublished <= FifoLen
                              /\ (read_idx[c] + cached + unpublished) % FifoLen = write_idx[c]
        BY DEF TotalsAgree
      <3> DEFINE held == Held(c)
                 coming == Coming(c)
      <3>1. /\ held \in 0 .. FifoLen /\ coming \in Nat /\ held + coming <= FifoLen
            /\ write_idx[c] = Advance(read_idx[c], held + coming)
            /\ read_idx[c] \in 0 .. FifoLen - 1
        BY RingFacts DEF IInv, Ring
      <3>2. /\ held = Cached(write_size[c], read_size[c])
            /\ coming = IF pc[c] = "written" THEN HdrLen + rec[c].len ELSE 0
        BY DEF Held, Coming, Size
      <3> HIDE DEF held, coming
      <3>3. held + coming \in 0 .. FifoLen /\ read_idx[c] + held + coming = read_idx[c] + (held + coming)
        BY <3>1, Positive
      <3>4. (read_idx[c] + (held + coming)) % FifoLen = Advance(read_idx[c], held + coming)
        BY <3>1, <3>3, AdvanceFacts
      <3> QED BY <3>1, <3>2, <3>3, <3>4
    <2> QED BY <2>1 DEF IInv, Typed, TypeOK, Cells
  <1> QED BY <1>1, IInvInvariant, PTL

\* Each buffer is a queue of whole records: a step accepts a record, delivers or
\* gives up the oldest one, or changes nothing of it (generic_transmission.c:380-600).
THEOREM WholeAndInOrder == Spec => IsPipe
  <1>1. Init => P!Init
    BY DEF Init, P!Init
  <1>2. IInv /\ [Next]_vars => [P!Next]_(P!pipeVars)
    <2> SUFFICES ASSUME IInv, [Next]_vars PROVE P!Next \/ UNCHANGED P!pipeVars
      OBVIOUS
    <2>1. ASSUME NEW c \in Cores, Publish(c) PROVE P!Accept(c)
      <3>1. /\ todo[c] \in Seq(Records) /\ rec[c] \in Records
            /\ todo' = [todo EXCEPT ![c] = Append(todo[c], rec[c])] /\ out' = out
            /\ todo'[c] = Append(todo[c], rec[c])
        BY <2>1, PublishStep DEF IInv, Typed, Publish
      <3>2. /\ Len(todo'[c]) = Len(todo[c]) + 1 /\ todo'[c] \in Seq(Records)
            /\ todo'[c][Len(todo[c]) + 1] = rec[c] /\ Len(todo[c]) \in Nat
        BY <3>1, AppendProperties, LenProperties
      <3>3. todo'[c] # <<>>
        BY <3>2, EmptySeq
      <3> QED BY <3>1, <3>2, <3>3 DEF P!Accept
    <2>2. CASE Transmit
      <3> DEFINE c == con.best.core
      <3>1. /\ c \in Cores /\ todo[c] # <<>>
            /\ todo' = [todo EXCEPT ![c] = Tail(todo[c])]
            /\ \/ out' = <<c, P!Bytes(Head(todo[c]))>>
               \/ Head(todo[c]).mode = "lazy" /\ out' = out
        BY <2>2, TransmitStep
      <3> HIDE DEF c
      <3>2. P!Deliver(c) \/ P!GiveUp(c)
        BY <3>1 DEF P!Deliver, P!GiveUp
      <3> QED BY <3>1, <3>2 DEF P!Next
    <2>3. CASE Release
      BY <2>3, ReleaseStep DEF P!pipeVars
    <2>4. CASE \/ Tick \/ Pend \/ Look \/ Idle \/ UNCHANGED vars
               \/ \E c \in Cores : Write(c) \/ Leave(c) \/ Notify(c)
      BY ZenonT(60), <2>4 DEF Tick, Pend, Look, Idle, Write, Leave, Notify, vars, P!pipeVars
    <2> QED BY <2>1, <2>2, <2>3, <2>4 DEF Next, Consume, Produce, P!Next
  <1> QED BY <1>1, <1>2, IInvInvariant, PTL DEF Spec, IsPipe, P!Spec

-----------------------------------------------------------------------------
(* The consumer is woken.                                                   *)

\* No record the loop may look at is stamped one tick before the last one sent: such
\* a record is as far away as the distance to beat, and is never chosen.
NoneOneTickBefore ==
  con.pc = "scan" => \A c \in Cores : todo[c] # <<>> => Delta(Head(todo[c]).stamp) # TimeMod - 1

\* A record waits in the buffer of c, and no one is to say so.
Unwoken(c) == todo[c] # <<>> /\ ~owed[c] /\ ~(pc[c] = "published" /\ WasEmpty(c))

\* Nor are there such cores among those that the loop has passed without a find.
Waking ==
  notify_sem = 0 =>
    /\ con.pc = "pend" => \A c \in Cores : ~Unwoken(c)
    /\ con.pc = "scan" /\ con.best = None => \A c \in Cores : c < con.core => ~Unwoken(c)

LEMMA UnwokenFrame ==
  ASSUME NEW c, todo'[c] = todo[c], owed'[c] = owed[c], pc'[c] = "published" <=> pc[c] = "published",
         pc[c] = "published" => rec'[c] = rec[c],
         write_size'[c] = write_size[c], read_size'[c] = read_size[c]
  PROVE  Unwoken(c)' <=> Unwoken(c)
  BY DEF Unwoken, WasEmpty

\* A step of core c's producer: the others' are as they were.
LEMMA WakingProducer ==
  ASSUME Waking, NEW c \in Cores, UNCHANGED <<notify_sem, con>>,
         ~Unwoken(c) => ~Unwoken(c)',
         \A d \in Cores : d # c => (Unwoken(d)' <=> Unwoken(d))
  PROVE  Waking'
  BY DEF Waking

LEMMA PublishWakes ==
  ASSUME IInv, NEW c \in Cores, Publish(c), con.pc # "sent", Unwoken(c)'
  PROVE  Unwoken(c)
  <1>1. /\ pc[c] = "written" /\ pc'[c] = "published"
        /\ write_size'[c] = (write_size[c] + HdrLen + rec[c].len) % SizeMod
        /\ UNCHANGED <<read_size, rec, owed>>
    BY DEF Publish, IInv, Typed
  <1>2. CASE todo[c] = <<>>
    <2>1. Ring(c) /\ Typed
      BY DEF IInv
    <2>2. /\ Held(c) \in 0 .. FifoLen /\ Gone(c) = 0 /\ todo[c] \in Seq(Records)
          /\ write_size[c] \in 0 .. SizeMod - 1 /\ read_size[c] \in 0 .. SizeMod - 1
          /\ rec[c] \in Records /\ rec[c].len \in Nat
      BY <1>1, <2>1, RingFacts, SizeFacts DEF Gone, Typed
    <2>3. PICK off : Laid(fifo[c], Advance(read_idx[c], 0), todo[c], Held(c) - 0, off)
      BY <2>1, <2>2 DEF Ring
    <2>4. Held(c) - 0 = Held(c)
      BY <2>2, Positive
    <2>5. Held(c) = 0
      BY <1>2, <2>2, <2>3, <2>4, LaidEmpty
    <2>6. write_size[c] = read_size[c]
      <3>1. /\ Cached(write_size[c], read_size[c]) = 0 /\ 0 \in 0 .. FifoLen
        BY <2>5, Positive DEF Held
      <3>2. write_size[c] = IF read_size[c] + 0 < SizeMod THEN read_size[c] + 0
                                                         ELSE read_size[c] + 0 - SizeMod
        BY <2>2, <3>1, CachedIs
      <3> QED BY <2>2, <3>2, Positive
    <2>7. write_size[c] + HdrLen + rec[c].len = HdrLen + rec[c].len + read_size[c]
      <3> DEFINE l == rec[c].len
                 n == read_size[c]
      <3>1. l \in Nat /\ n \in Nat
        BY <2>2, Positive
      <3> HIDE DEF l, n
      <3>2. n + HdrLen + l = HdrLen + l + n
        BY <3>1, Positive
      <3> QED BY <2>6, <3>2 DEF l, n
    <2>8. WasEmpty(c)'
      BY <1>1, <2>7 DEF WasEmpty
    <2> QED BY <1>1, <2>8 DEF Unwoken
  <1>3. CASE todo[c] # <<>>
    BY <1>1, <1>3 DEF Unwoken
  <1> QED BY <1>2, <1>3

LEMMA WakingStep ==
  ASSUME IInv, NoneOneTickBefore, Waking, [Next]_vars
  PROVE  Waking'
  <1>0. Typed
    BY DEF IInv
  <1>1. ASSUME NEW c \in Cores, Write(c) PROVE Waking'
    <2>1. /\ pc' = [pc EXCEPT ![c] = "written"] /\ pc[c] = "out"
          /\ \E r : rec' = [rec EXCEPT ![c] = r]
          /\ UNCHANGED <<todo, owed, write_size, read_size, notify_sem, con>>
      BY <1>1 DEF Write
    <2>2. ASSUME NEW d \in Cores PROVE Unwoken(d)' <=> Unwoken(d)
      BY <1>0, <2>1, UnwokenFrame DEF Typed
    <2> QED BY <2>1, <2>2, WakingProducer
  <1>2. ASSUME NEW c \in Cores, Publish(c) PROVE Waking'
    <2>1. /\ pc' = [pc EXCEPT ![c] = "published"] /\ todo' = [todo EXCEPT ![c] = Append(@, rec[c])]
          /\ \E w : write_size' = [write_size EXCEPT ![c] = w]
          /\ UNCHANGED <<rec, owed, read_size, notify_sem, con>>
      BY <1>2 DEF Publish
    <2>2. ASSUME NEW d \in Cores, d # c PROVE Unwoken(d)' <=> Unwoken(d)
      BY <1>0, <2>1, <2>2, UnwokenFrame DEF Typed
    <2>3. CASE con.pc = "sent"
      BY <2>1, <2>3 DEF Waking
    <2>4. CASE con.pc # "sent"
      BY <1>2, <2>1, <2>2, <2>4, PublishWakes, WakingProducer
    <2> QED BY <2>3, <2>4
  <1>3. ASSUME NEW c \in Cores, Leave(c) PROVE Waking'
    <2>1. /\ pc[c] = "published" /\ pc' = [pc EXCEPT ![c] = "out"]
          /\ owed' = [owed EXCEPT ![c] = @ \/ WasEmpty(c)]
          /\ rec' = [rec EXCEPT ![c] = None]
          /\ UNCHANGED <<todo, write_size, read_size, notify_sem, con>>
      BY <1>3 DEF Leave, ring
    <2>2. ASSUME NEW d \in Cores, d # c PROVE Unwoken(d)' <=> Unwoken(d)
      BY <1>0, <2>1, <2>2, UnwokenFrame DEF Typed
    <2>3. owed'[c] <=> owed[c] \/ WasEmpty(c)
      BY <1>0, <2>1 DEF Typed
    <2>4. ~Unwoken(c) => ~Unwoken(c)'
      BY <2>1, <2>3 DEF Unwoken
    <2> QED BY <2>1, <2>2, <2>4, WakingProducer
  <1>4. ASSUME NEW c \in Cores, Notify(c) PROVE Waking'
    BY <1>4 DEF Notify, Waking
  <1>5. CASE Tick \/ UNCHANGED vars
    <2>1. UNCHANGED <<todo, owed, pc, rec, write_size, read_size, notify_sem, con>>
      BY <1>5 DEF Tick, vars, ring
    <2> QED BY <2>1 DEF Waking, Unwoken, WasEmpty
  <1>6. CASE Pend
    <2>1. con'.pc = "scan" /\ con'.core = 0
      BY <1>6 DEF Pend, Scan
    <2>2. \A c \in Cores : ~(c < 0)
      BY Positive DEF Cores
    <2> QED BY <2>1, <2>2 DEF Waking
  <1>7. CASE Release
    <2>1. con'.pc = "scan" /\ con'.core = 0
      BY <1>7, ReleaseStep
    <2>2. \A c \in Cores : ~(c < 0)
      BY Positive DEF Cores
    <2> QED BY <2>1, <2>2 DEF Waking
  <1>8. CASE Transmit
    <2>1. con'.pc = "sent"
      BY <1>8, <1>0 DEF Transmit, Typed
    <2> QED BY <2>1 DEF Waking
  <1>9. CASE Idle
    <2>1. /\ con.pc = "scan" /\ con.core = CoreNum /\ con.best = None /\ con'.pc = "pend"
          /\ UNCHANGED <<todo, owed, pc, rec, write_size, read_size, notify_sem>>
      BY <1>9, <1>0 DEF Idle, ring, Typed
    <2>2. \A c \in Cores : c < CoreNum
      BY Positive DEF Cores
    <2>3. \A c \in Cores : Unwoken(c)' <=> Unwoken(c)
      BY <2>1, UnwokenFrame
    <2> QED BY <2>1, <2>2, <2>3 DEF Waking
  <1>10. CASE Look
    <2> DEFINE c == con.core
               best == IF NotEmpty(c) /\ HeadOf(c) # None /\ Earlier(HeadOf(c))
                       THEN [core |-> c, head |-> HeadOf(c)] ELSE con.best
    <2>1. /\ con.pc = "scan" /\ c < CoreNum /\ con'.pc = "scan" /\ con'.core = c + 1
          /\ con'.best = best
          /\ UNCHANGED <<todo, owed, pc, rec, write_size, read_size, notify_sem>>
      BY <1>10, <1>0 DEF Look, ring, Typed
    <2>2. c \in Cores
      BY SMTT(60), <1>0, <2>1, Positive DEF Typed, Cores
    <2>3. \A d \in Cores : Unwoken(d)' <=> Unwoken(d)
      BY <2>1, UnwokenFrame
    <2>4. best = None => con.best = None /\ todo[c] = <<>>
      <3> SUFFICES ASSUME best = None, con.best # None \/ todo[c] # <<>> PROVE FALSE
        OBVIOUS
      <3>1. [core |-> c, head |-> HeadOf(c)] \in Bests
             \/ ~(NotEmpty(c) /\ HeadOf(c) # None /\ Earlier(HeadOf(c)))
        <4>1. NotEmpty(c) => HeadOf(c) \in Records
          BY <2>1, <2>2, HeadFacts
        <4> QED BY <2>2, <4>1 DEF Bests
      <3>2. None \notin Bests
        BY TransmissionAssumption DEF Bests
      <3>3. ~(NotEmpty(c) /\ HeadOf(c) # None /\ Earlier(HeadOf(c))) /\ con.best = None
        BY <3>1, <3>2
      <3>4. todo[c] # <<>>
        BY <3>3
      <3> DEFINE r == Head(todo[c])
      <3>5. /\ NotEmpty(c) /\ r \in Records /\ HeadOf(c) = r
            /\ Size(r) \in Nat \ {0} /\ At(fifo[c], read_idx[c], r)
        BY <2>1, <2>2, <3>4, HeadFacts, SizeFacts
      <3>6. HeadOf(c) # None
        <4>1. None \notin Records
          BY TransmissionAssumption
        <4> QED BY <3>5, <4>1
      <3>7. Delta(r.stamp) # TimeMod - 1 /\ Delta(r.stamp) \in 0 .. TimeMod - 1
        <4>1. r.stamp \in 0 .. TimeMod - 1 /\ last_timestamp \in 0 .. TimeMod - 1
          BY <1>0, <3>5 DEF Records, Typed
        <4>2. (r.stamp + TimeMod - last_timestamp) % TimeMod \in 0 .. TimeMod - 1
          BY <4>1, Positive
        <4> QED BY <2>1, <2>2, <3>4, <4>2 DEF NoneOneTickBefore, Delta
      <3>8. Earlier(r)
        BY <3>3, <3>7, Positive DEF Earlier
      <3> QED BY <3>3, <3>5, <3>6, <3>8
    <2>5. c \in Int /\ \A d \in Cores : d < c + 1 => d < c \/ d = c
      BY <2>2, Positive DEF Cores
    <2>6. todo[c] = <<>> => ~Unwoken(c)
      BY DEF Unwoken
    <2> HIDE DEF best
    <2> QED BY <2>1, <2>3, <2>4, <2>5, <2>6 DEF Waking
  <1> QED BY <1>1, <1>2, <1>3, <1>4, <1>5, <1>6, <1>7, <1>8, <1>9, <1>10 DEF Next, Consume, Produce

\* A consumer that sleeps is woken for whatever has been published, though producer and
\* consumer decide with counters that both change without a lock, unless a record is
\* stamped one tick before the last one sent (generic_transmission.c:547, 588-595).
THEOREM ConsumerIsWoken == Spec /\ []NoneOneTickBefore => []WakeupComing
  <1>1. Init => Waking
    BY DEF Init, Waking, Unwoken
  <1>2. IInv /\ NoneOneTickBefore /\ Waking /\ [Next]_vars => Waking'
    BY WakingStep
  <1>3. Waking => WakeupComing
    BY DEF Waking, WakeupComing, Unwoken
  <1> QED BY <1>1, <1>2, <1>3, IInvInvariant, PTL DEF Spec

-----------------------------------------------------------------------------
(* The merge goes back for late records only.                               *)

\* How long before the time n the stamp s was taken, unless the modulus has passed since.
Ago(n, s) == (n + TimeMod - s) % TimeMod
Half == TimeMod \div 2

\* No record in a buffer or being written, nor the last one sent, is older than b.
Within(b, n, last, list, p, r) ==
  /\ Ago(n, last) <= b
  /\ \A c \in Cores : /\ \A i \in 1 .. Len(list[c]) : Ago(n, list[c][i].stamp) <= b
                      /\ p[c] = "written" => Ago(n, r[c].stamp) <= b

\* Then distances between stamps say which is the older.
InTime == Within(Half - 1, now, last_timestamp, todo, pc, rec)

\* The records of a core, the one being written included, are ever younger, and none is
\* older than the last one sent unless the core was seen empty.
Younger(n, list, p, r) ==
  /\ \A i, j \in 1 .. Len(list) : i <= j => Ago(n, list[j].stamp) <= Ago(n, list[i].stamp)
  /\ p = "written" => \A i \in 1 .. Len(list) : Ago(n, r.stamp) <= Ago(n, list[i].stamp)
NoneBack(n, last, list, p, r) ==
  /\ \A i \in 1 .. Len(list) : Ago(n, list[i].stamp) <= Ago(n, last)
  /\ p = "written" => Ago(n, r.stamp) <= Ago(n, last)
Ordered ==
  \A c \in Cores :
    /\ Younger(now, todo[c], pc[c], rec[c])
    /\ c \notin late => NoneBack(now, last_timestamp, todo[c], pc[c], rec[c])

\* The earliest head so far is nearest after the last stamp of those this pass has seen.
Distance(best) == IF best = None THEN TimeMod - 1 ELSE Delta(best.head.stamp)
Nearest ==
  con.pc = "scan" =>
    \A c \in Cores : c < con.core /\ c \notin empty =>
      todo[c] # <<>> /\ Delta(Head(todo[c]).stamp) >= Distance(con.best)

LEMMA AgoFacts ==
  ASSUME NEW n \in 0 .. TimeMod - 1, NEW s \in 0 .. TimeMod - 1
  PROVE  /\ Ago(n, s) = IF s <= n THEN n - s ELSE n + TimeMod - s
         /\ Ago(n, s) \in 0 .. TimeMod - 1
  <1>1. n + TimeMod - s \in Nat /\ n + TimeMod - s < TimeMod + TimeMod /\ TimeMod \in Nat /\ TimeMod > 0
    BY Positive
  <1>2. Ago(n, s) = IF n + TimeMod - s < TimeMod THEN n + TimeMod - s ELSE n + TimeMod - s - TimeMod
    BY <1>1, ModOnce DEF Ago
  <1> QED BY <1>1, <1>2

LEMMA HalfFacts == Half \in Nat /\ Half + Half <= TimeMod
  BY Positive DEF Half

\* Distances from the last stamp in terms of ages.
LEMMA DeltaFacts ==
  ASSUME NEW n \in 0 .. TimeMod - 1, NEW s \in 0 .. TimeMod - 1, last_timestamp \in 0 .. TimeMod - 1
  PROVE  Delta(s) = IF Ago(n, s) <= Ago(n, last_timestamp)
                    THEN Ago(n, last_timestamp) - Ago(n, s)
                    ELSE TimeMod + Ago(n, last_timestamp) - Ago(n, s)
  <1>1. Delta(s) = Ago(s, last_timestamp)
    BY DEF Delta, Ago
  <1>2. /\ Ago(n, s) = IF s <= n THEN n - s ELSE n + TimeMod - s
        /\ Ago(n, last_timestamp) = IF last_timestamp <= n THEN n - last_timestamp
                                                           ELSE n + TimeMod - last_timestamp
        /\ Ago(s, last_timestamp) = IF last_timestamp <= s THEN s - last_timestamp
                                                           ELSE s + TimeMod - last_timestamp
    BY AgoFacts
  <1> QED BY <1>1, <1>2, Positive

\* Time goes on: ages grow together.
LEMMA TickFacts ==
  ASSUME NEW n \in 0 .. TimeMod - 1, NEW m, m = (n + TickStep) % TimeMod
  PROVE  /\ m \in 0 .. TimeMod - 1
         /\ \A s \in 0 .. TimeMod - 1 : Ago(m, s) <= Ago(n, s) + TickStep
         /\ \A s, t \in 0 .. TimeMod - 1 :
              /\ Ago(n, s) <= Half - 1 /\ Ago(n, t) <= Half - 1
              /\ Ago(m, s) <= Half - 1 /\ Ago(m, t) <= Half - 1
              /\ Ago(n, s) <= Ago(n, t)
              => Ago(m, s) <= Ago(m, t)
  <1>1. TickStep \in 0 .. TimeMod - 1 /\ TimeMod \in Nat \ {0}
    BY TransmissionAssumption
  <1>2. m = IF n + TickStep < TimeMod THEN n + TickStep ELSE n + TickStep - TimeMod
    BY <1>1, ModOnce
  <1>3. m \in 0 .. TimeMod - 1
    BY <1>1, <1>2
  <1>4. ASSUME NEW s \in 0 .. TimeMod - 1
        PROVE  /\ Ago(n, s) = IF s <= n THEN n - s ELSE n + TimeMod - s
               /\ Ago(m, s) = IF s <= m THEN m - s ELSE m + TimeMod - s
    BY <1>3, AgoFacts
  <1>5. ASSUME NEW s \in 0 .. TimeMod - 1
        PROVE  \/ Ago(m, s) = Ago(n, s) + TickStep
               \/ Ago(m, s) = Ago(n, s) + TickStep - TimeMod
    BY <1>1, <1>2, <1>4
  <1>6. \A s \in 0 .. TimeMod - 1 : Ago(n, s) \in 0 .. TimeMod - 1 /\ Ago(m, s) \in 0 .. TimeMod - 1
    BY <1>3, AgoFacts
  <1>7. ASSUME NEW s \in 0 .. TimeMod - 1, NEW t \in 0 .. TimeMod - 1,
               Ago(n, s) <= Half - 1, Ago(n, t) <= Half - 1,
               Ago(m, s) <= Half - 1, Ago(m, t) <= Half - 1, Ago(n, s) <= Ago(n, t)
        PROVE  Ago(m, s) <= Ago(m, t)
    BY <1>1, <1>5, <1>6, <1>7, HalfFacts
  <1>8. \A s \in 0 .. TimeMod - 1 : Ago(m, s) <= Ago(n, s) + TickStep
    BY <1>1, <1>5, <1>6
  <1> QED BY <1>3, <1>7, <1>8

\* What ages are taken of.
LEMMA StampFacts ==
  ASSUME Typed
  PROVE  /\ now \in 0 .. TimeMod - 1 /\ last_timestamp \in 0 .. TimeMod - 1
         /\ \A c \in Cores :
              /\ todo[c] \in Seq(Records) /\ Len(todo[c]) \in Nat
              /\ \A i \in 1 .. Len(todo[c]) :
                   todo[c][i] \in Records /\ todo[c][i].stamp \in 0 .. TimeMod - 1
              /\ pc[c] = "written" => rec[c] \in Records /\ rec[c].stamp \in 0 .. TimeMod - 1
  <1>1. \A r \in Records : r.stamp \in 0 .. TimeMod - 1
    BY DEF Records
  <1>2. \A c \in Cores : todo[c] \in Seq(Records)
    BY DEF Typed
  <1>3. \A c \in Cores : Len(todo[c]) \in Nat /\ \A i \in 1 .. Len(todo[c]) : todo[c][i] \in Records
    BY <1>2, LenProperties, ElementOfSeq
  <1> QED BY <1>1, <1>2, <1>3 DEF Typed

LEMMA AgesFacts ==
  ASSUME Typed
  PROVE  /\ Ago(now, now) = 0 /\ Ago(now, last_timestamp) \in 0 .. TimeMod - 1
         /\ \A c \in Cores :
              /\ \A i \in 1 .. Len(todo[c]) : Ago(now, todo[c][i].stamp) \in 0 .. TimeMod - 1
              /\ pc[c] = "written" => Ago(now, rec[c].stamp) \in 0 .. TimeMod - 1
  <1>1. \A s \in 0 .. TimeMod - 1 : Ago(now, s) \in 0 .. TimeMod - 1
    BY StampFacts, AgoFacts
  <1>2. Ago(now, now) = 0
    <2>1. now \in 0 .. TimeMod - 1
      BY StampFacts
    <2>2. Ago(now, now) = IF now <= now THEN now - now ELSE now + TimeMod - now
      BY <2>1, AgoFacts
    <2> QED BY <2>1, <2>2
  <1> QED BY <1>1, <1>2, StampFacts

\* What is not Tick, Transmit, Write or Publish changes neither records nor times.
LEMMA SameRecords ==
  ASSUME IInv, Next, ~Tick, ~Transmit, \A c \in Cores : ~Write(c) /\ ~Publish(c)
  PROVE  /\ UNCHANGED <<todo, now, last_timestamp, late>>
         /\ \A c \in Cores : /\ pc'[c] = "written" <=> pc[c] = "written"
                             /\ pc[c] = "written" => rec'[c] = rec[c]
  <1>0. Typed
    BY DEF IInv
  <1>1. CASE Pend \/ Look \/ Idle \/ Release
    BY <1>1 DEF Pend, Look, Idle, Release
  <1>2. ASSUME NEW d \in Cores, Leave(d)
        PROVE  /\ UNCHANGED <<todo, now, last_timestamp, late>>
               /\ \A c \in Cores : /\ pc'[c] = "written" <=> pc[c] = "written"
                                   /\ pc[c] = "written" => rec'[c] = rec[c]
    <2>1. /\ pc[d] = "published" /\ pc' = [pc EXCEPT ![d] = "out"] /\ rec' = [rec EXCEPT ![d] = None]
          /\ UNCHANGED <<todo, now, last_timestamp, late>>
      BY <1>2 DEF Leave
    <2> QED BY <1>0, <2>1 DEF Typed
  <1>3. ASSUME NEW d \in Cores, Notify(d)
        PROVE  /\ UNCHANGED <<todo, now, last_timestamp, late>>
               /\ \A c \in Cores : /\ pc'[c] = "written" <=> pc[c] = "written"
                                   /\ pc[c] = "written" => rec'[c] = rec[c]
    BY <1>3 DEF Notify
  <1> QED BY <1>1, <1>2, <1>3 DEF Next, Consume, Produce

\* A record given up or sent leaves the list of its core; the rest keep their order.
LEMMA TailIndex ==
  ASSUME NEW l \in Seq(Records), l # <<>>
  PROVE  /\ Len(l) \in Nat /\ Len(l) >= 1 /\ Len(Tail(l)) = Len(l) - 1 /\ Head(l) = l[1]
         /\ Head(l) \in Records
         /\ \A i \in 1 .. Len(Tail(l)) : Tail(l)[i] = l[i + 1] /\ i + 1 \in 1 .. Len(l)
  <1>1. Len(l) \in Nat /\ Len(l) # 0
    BY LenProperties, EmptySeq
  <1>2. Head(l) = l[1] /\ Len(Tail(l)) = Len(l) - 1 /\ \A i \in 1 .. Len(Tail(l)) : Tail(l)[i] = l[i + 1]
    BY HeadTailProperties
  <1>3. l[1] \in Records
    BY <1>1, ElementOfSeq
  <1> QED BY <1>1, <1>2, <1>3

LEMMA WriteFacts ==
  ASSUME NEW c \in Cores, Write(c)
  PROVE  \E r : /\ r.stamp = now /\ pc' = [pc EXCEPT ![c] = "written"] /\ rec' = [rec EXCEPT ![c] = r]
                /\ UNCHANGED <<todo, now, last_timestamp, late>>
  <1>1. PICK mode \in Modes, len \in Lens :
          LET room == Free(c) - HdrLen
              r == [n |-> count + 1, mode |-> mode, stamp |-> now,
                    len |-> IF room < len THEN room ELSE len]
          IN /\ rec' = [rec EXCEPT ![c] = r] /\ pc' = [pc EXCEPT ![c] = "written"]
             /\ UNCHANGED <<todo, now, last_timestamp, late>>
    BY DEF Write
  <1> DEFINE size == IF Free(c) - HdrLen < len THEN Free(c) - HdrLen ELSE len
             r == [n |-> count + 1, mode |-> mode, stamp |-> now, len |-> size]
  <1>2. rec' = [rec EXCEPT ![c] = r]
    BY <1>1
  <1> HIDE DEF size
  <1>3. r.stamp = now
    OBVIOUS
  <1> QED BY <1>1, <1>2, <1>3

LEMMA OrderedWrite ==
  ASSUME IInv, Ordered, NEW c \in Cores, Write(c)
  PROVE  Ordered'
  <1>1. PICK r : /\ r.stamp = now /\ pc' = [pc EXCEPT ![c] = "written"] /\ rec' = [rec EXCEPT ![c] = r]
                 /\ UNCHANGED <<todo, now, last_timestamp, late>>
    BY WriteFacts
  <1>2. Typed
    BY DEF IInv
  <1>3. /\ pc'[c] = "written" /\ rec'[c] = r
        /\ \A d \in Cores : d # c => pc'[d] = pc[d] /\ rec'[d] = rec[d]
    BY <1>1, <1>2 DEF Typed
  <1>4. /\ Ago(now, now) = 0 /\ Ago(now, last_timestamp) \in Nat
        /\ \A i \in 1 .. Len(todo[c]) : Ago(now, todo[c][i].stamp) \in Nat
    BY <1>2, AgesFacts
  <1>5. ASSUME NEW d \in Cores
        PROVE  /\ Younger(now', todo'[d], pc'[d], rec'[d])
               /\ d \notin late' => NoneBack(now', last_timestamp', todo'[d], pc'[d], rec'[d])
    <2>1. CASE d = c
      BY <1>1, <1>3, <1>4, <2>1 DEF Ordered, Younger, NoneBack
    <2>2. CASE d # c
      BY <1>1, <1>3, <2>2 DEF Ordered
    <2> QED BY <2>1, <2>2
  <1> QED BY <1>5 DEF Ordered

LEMMA OrderedPublish ==
  ASSUME IInv, Ordered, NEW c \in Cores, Publish(c)
  PROVE  Ordered'
  <1>1. /\ pc[c] = "written" /\ pc' = [pc EXCEPT ![c] = "published"]
        /\ todo' = [todo EXCEPT ![c] = Append(todo[c], rec[c])]
        /\ UNCHANGED <<rec, now, last_timestamp, late>>
    BY DEF Publish
  <1>2. Typed
    BY DEF IInv
  <1>3. /\ pc'[c] = "published" /\ todo'[c] = Append(todo[c], rec[c])
        /\ \A d \in Cores : d # c => pc'[d] = pc[d] /\ todo'[d] = todo[d]
    BY <1>1, <1>2 DEF Typed
  <1>4. /\ Len(todo'[c]) = Len(todo[c]) + 1 /\ todo'[c][Len(todo[c]) + 1] = rec[c]
        /\ \A i \in 1 .. Len(todo[c]) : todo'[c][i] = todo[c][i]
    BY <1>1, <1>2, <1>3, StampFacts, AppendProperties
  <1>5. \A i \in 1 .. Len(todo'[c]) : i \in 1 .. Len(todo[c]) \/ i = Len(todo[c]) + 1
    BY <1>2, <1>4, StampFacts
  <1>6. /\ Ago(now, rec[c].stamp) \in Nat /\ Len(todo[c]) \in Nat
        /\ \A i \in 1 .. Len(todo[c]) : Ago(now, todo[c][i].stamp) \in Nat
    BY <1>1, <1>2, StampFacts, AgesFacts
  <1>7. Younger(now, todo[c], "written", rec[c])
    BY <1>1 DEF Ordered
  <1>8. Younger(now, todo'[c], "published", rec[c])
    <2> SUFFICES ASSUME NEW i \in 1 .. Len(todo'[c]), NEW j \in 1 .. Len(todo'[c]), i <= j
                 PROVE  Ago(now, todo'[c][j].stamp) <= Ago(now, todo'[c][i].stamp)
      BY DEF Younger
    <2>1. CASE i \in 1 .. Len(todo[c]) /\ j \in 1 .. Len(todo[c])
      BY <1>4, <1>7, <2>1 DEF Younger
    <2>2. CASE i \in 1 .. Len(todo[c]) /\ j = Len(todo[c]) + 1
      BY <1>4, <1>7, <2>2 DEF Younger
    <2>3. CASE i = Len(todo[c]) + 1
      <3>1. j = i
        BY <1>5, <1>6, <2>3
      <3> QED BY <1>4, <1>6, <2>3, <3>1
    <2> QED BY <1>5, <2>1, <2>2, <2>3
  <1>9. ASSUME c \notin late PROVE NoneBack(now, last_timestamp, todo'[c], "published", rec[c])
    <2>1. NoneBack(now, last_timestamp, todo[c], "written", rec[c])
      BY <1>1, <1>9 DEF Ordered
    <2> QED BY <1>4, <1>5, <2>1 DEF NoneBack
  <1>10. ASSUME NEW d \in Cores
         PROVE  /\ Younger(now', todo'[d], pc'[d], rec'[d])
                /\ d \notin late' => NoneBack(now', last_timestamp', todo'[d], pc'[d], rec'[d])
    <2>1. CASE d = c
      BY <1>1, <1>3, <1>8, <1>9, <2>1
    <2>2. CASE d # c
      BY <1>1, <1>3, <2>2 DEF Ordered
    <2> QED BY <2>1, <2>2
  <1> QED BY <1>10 DEF Ordered

\* Ages that stay below half the modulus keep their order as time goes on.
LEMMA OrderedTick ==
  ASSUME IInv, InTime, InTime', Ordered, Tick
  PROVE  Ordered'
  <1>1. /\ now' = (now + TickStep) % TimeMod
        /\ UNCHANGED <<todo, pc, rec, last_timestamp, late>>
    BY DEF Tick
  <1>2. Typed
    BY DEF IInv
  <1>3. \A s, t \in 0 .. TimeMod - 1 :
          /\ Ago(now, s) <= Half - 1 /\ Ago(now, t) <= Half - 1
          /\ Ago(now', s) <= Half - 1 /\ Ago(now', t) <= Half - 1
          /\ Ago(now, s) <= Ago(now, t)
          => Ago(now', s) <= Ago(now', t)
    BY <1>1, <1>2, StampFacts, TickFacts
  <1>4. ASSUME NEW c \in Cores
        PROVE  /\ Younger(now', todo[c], pc[c], rec[c])
               /\ c \notin late => NoneBack(now', last_timestamp, todo[c], pc[c], rec[c])
    <2>1. /\ last_timestamp \in 0 .. TimeMod - 1
          /\ \A i \in 1 .. Len(todo[c]) : todo[c][i].stamp \in 0 .. TimeMod - 1
          /\ pc[c] = "written" => rec[c].stamp \in 0 .. TimeMod - 1
      BY <1>2, StampFacts
    <2>2. /\ Ago(now, last_timestamp) <= Half - 1 /\ Ago(now', last_timestamp) <= Half - 1
          /\ \A i \in 1 .. Len(todo[c]) :
               Ago(now, todo[c][i].stamp) <= Half - 1 /\ Ago(now', todo[c][i].stamp) <= Half - 1
          /\ pc[c] = "written" =>
               Ago(now, rec[c].stamp) <= Half - 1 /\ Ago(now', rec[c].stamp) <= Half - 1
      BY <1>1 DEF InTime, Within
    <2>3. /\ Younger(now, todo[c], pc[c], rec[c])
          /\ c \notin late => NoneBack(now, last_timestamp, todo[c], pc[c], rec[c])
      BY DEF Ordered
    <2>4. Younger(now', todo[c], pc[c], rec[c])
      BY <1>3, <2>1, <2>2, <2>3 DEF Younger
    <2>5. c \notin late => NoneBack(now', last_timestamp, todo[c], pc[c], rec[c])
      BY <1>3, <2>1, <2>2, <2>3 DEF NoneBack
    <2> QED BY <2>4, <2>5
  <1> QED BY <1>1, <1>4 DEF Ordered

\* The record sent is the oldest of its core, and no younger than the head of any other
\* core this pass has found with one.
LEMMA OrderedTransmit ==
  ASSUME IInv, Ordered, Nearest, Transmit
  PROVE  Ordered'
  <1> DEFINE c == con.best.core
             r == con.best.head
  <1>1. /\ con.pc = "scan" /\ con.core = CoreNum /\ con.best # None /\ last_timestamp' = r.stamp
        /\ late' = (late \cup empty) \ {c}
        /\ UNCHANGED <<pc, rec, now>>
    BY DEF Transmit
  <1>2. /\ c \in Cores /\ todo[c] # <<>> /\ r = Head(todo[c])
        /\ todo' = [todo EXCEPT ![c] = Tail(todo[c])]
    BY TransmitStep
  <1>3. Typed
    BY DEF IInv
  <1> HIDE DEF c, r
  <1>4. /\ todo'[c] = Tail(todo[c]) /\ \A d \in Cores : d # c => todo'[d] = todo[d]
    BY <1>2, <1>3 DEF Typed
  <1>5. /\ Len(todo[c]) \in Nat /\ Len(todo[c]) >= 1 /\ Len(todo'[c]) = Len(todo[c]) - 1
        /\ r = todo[c][1]
        /\ \A i \in 1 .. Len(todo'[c]) : todo'[c][i] = todo[c][i + 1] /\ i + 1 \in 1 .. Len(todo[c])
    <2>1. todo[c] \in Seq(Records)
      BY <1>2, <1>3, StampFacts
    <2> QED BY <1>2, <1>4, <2>1, TailIndex
  <1>6. Younger(now, todo[c], pc[c], rec[c])
    BY <1>2 DEF Ordered
  <1>7. Younger(now, todo'[c], pc[c], rec[c])
    <2>1. ASSUME NEW i \in 1 .. Len(todo'[c]), NEW j \in 1 .. Len(todo'[c]), i <= j
          PROVE  Ago(now, todo'[c][j].stamp) <= Ago(now, todo'[c][i].stamp)
      <3>1. i + 1 \in 1 .. Len(todo[c]) /\ j + 1 \in 1 .. Len(todo[c]) /\ i + 1 <= j + 1
        BY <1>5, <2>1
      <3>2. todo'[c][i] = todo[c][i + 1] /\ todo'[c][j] = todo[c][j + 1]
        BY <1>5, <2>1
      <3> QED BY <1>6, <3>1, <3>2 DEF Younger
    <2>2. pc[c] = "written" =>
            \A i \in 1 .. Len(todo'[c]) : Ago(now, rec[c].stamp) <= Ago(now, todo'[c][i].stamp)
      BY <1>5, <1>6 DEF Younger
    <2> QED BY <2>1, <2>2 DEF Younger
  <1>8. NoneBack(now, r.stamp, todo'[c], pc[c], rec[c])
    <2>1. 1 \in 1 .. Len(todo[c])
      BY <1>5
    <2> QED BY <1>5, <1>6, <2>1 DEF Younger, NoneBack
  <1>9. ASSUME NEW d \in Cores, d # c, d \notin late, d \notin empty
        PROVE  NoneBack(now, r.stamp, todo[d], pc[d], rec[d])
    <2> DEFINE h == Head(todo[d])
    <2>1. d < con.core
      BY <1>1, Positive DEF Cores
    <2>2. todo[d] # <<>> /\ Delta(h.stamp) >= Delta(r.stamp)
      BY <1>1, <1>9, <2>1 DEF Nearest, Distance, r
    <2>3. NoneBack(now, last_timestamp, todo[d], pc[d], rec[d]) /\ Younger(now, todo[d], pc[d], rec[d])
      BY <1>9 DEF Ordered
    <2>4. 1 \in 1 .. Len(todo[d]) /\ h = todo[d][1]
      BY <1>3, <2>2, StampFacts, TailIndex
    <2>5. Ago(now, h.stamp) <= Ago(now, last_timestamp)
      BY <2>3, <2>4 DEF NoneBack
    <2>6. /\ h.stamp \in 0 .. TimeMod - 1 /\ r.stamp \in 0 .. TimeMod - 1
          /\ now \in 0 .. TimeMod - 1 /\ last_timestamp \in 0 .. TimeMod - 1
      BY <1>2, <1>3, <1>5, <2>4, StampFacts
    <2> HIDE DEF h
    <2>7. /\ Ago(now, h.stamp) \in 0 .. TimeMod - 1 /\ Ago(now, r.stamp) \in 0 .. TimeMod - 1
          /\ Ago(now, last_timestamp) \in 0 .. TimeMod - 1
      BY <2>6, AgoFacts
    <2>8. /\ Delta(h.stamp) = Ago(now, last_timestamp) - Ago(now, h.stamp)
          /\ Delta(r.stamp) = IF Ago(now, r.stamp) <= Ago(now, last_timestamp)
                              THEN Ago(now, last_timestamp) - Ago(now, r.stamp)
                              ELSE TimeMod + Ago(now, last_timestamp) - Ago(now, r.stamp)
      BY <2>5, <2>6, DeltaFacts
    <2>9. Ago(now, h.stamp) <= Ago(now, r.stamp)
      BY <2>2, <2>5, <2>7, <2>8
    <2>10. \A i \in 1 .. Len(todo[d]) : 1 <= i /\ Ago(now, todo[d][i].stamp) <= Ago(now, h.stamp)
      BY <2>3, <2>4 DEF Younger
    <2>11. /\ \A i \in 1 .. Len(todo[d]) : Ago(now, todo[d][i].stamp) \in 0 .. TimeMod - 1
           /\ pc[d] = "written" => /\ Ago(now, rec[d].stamp) \in 0 .. TimeMod - 1
                                   /\ Ago(now, rec[d].stamp) <= Ago(now, h.stamp)
      BY <1>3, <2>3, <2>4, AgesFacts DEF Younger
    <2> QED BY <2>7, <2>9, <2>10, <2>11 DEF NoneBack
  <1>10. ASSUME NEW d \in Cores
         PROVE  /\ Younger(now', todo'[d], pc'[d], rec'[d])
                /\ d \notin late' => NoneBack(now', last_timestamp', todo'[d], pc'[d], rec'[d])
    <2>1. CASE d = c
      BY <1>1, <1>7, <1>8, <2>1
    <2>2. CASE d # c
      BY <1>1, <1>4, <1>9, <2>2 DEF Ordered
    <2> QED BY <2>1, <2>2
  <1> QED BY <1>10 DEF Ordered

LEMMA OrderedStep ==
  ASSUME IInv, InTime, InTime', Ordered, Nearest, [Next]_vars
  PROVE  Ordered'
  <1>1. CASE UNCHANGED vars
    BY <1>1 DEF vars, Ordered
  <1>2. CASE Next /\ ~Tick /\ ~Transmit /\ \A c \in Cores : ~Write(c) /\ ~Publish(c)
    <2>1. /\ UNCHANGED <<todo, now, last_timestamp, late>>
          /\ \A c \in Cores : /\ pc'[c] = "written" <=> pc[c] = "written"
                              /\ pc[c] = "written" => rec'[c] = rec[c]
      BY <1>2, SameRecords
    <2> QED BY <2>1 DEF Ordered, Younger, NoneBack
  <1> QED BY <1>1, <1>2, OrderedTick, OrderedTransmit, OrderedWrite, OrderedPublish

LEMMA NearestStep ==
  ASSUME IInv, Nearest, [Next]_vars
  PROVE  Nearest'
  <1>0. Typed
    BY DEF IInv
  <1>1. CASE Pend \/ Release
    <2>1. con'.core = 0
      BY <1>1, ReleaseStep DEF Pend, Scan
    <2>2. \A c \in Cores : ~(c < 0)
      BY Positive DEF Cores
    <2> QED BY <2>1, <2>2 DEF Nearest
  <1>2. CASE Idle \/ Transmit
    <2>1. con'.pc # "scan"
      BY <1>0, <1>2 DEF Idle, Transmit, Typed
    <2> QED BY <2>1 DEF Nearest
  <1>3. ASSUME NEW c \in Cores, Publish(c) PROVE Nearest'
    <2>1. /\ pc[c] = "written" /\ todo' = [todo EXCEPT ![c] = Append(todo[c], rec[c])]
          /\ UNCHANGED <<con, empty, last_timestamp>>
      BY <1>3 DEF Publish
    <2>2. /\ todo[c] \in Seq(Records) /\ rec[c] \in Records /\ todo'[c] = Append(todo[c], rec[c])
          /\ \A d \in Cores : d # c => todo'[d] = todo[d]
      BY <1>0, <2>1, StampFacts DEF Typed
    <2>3. \A d \in Cores : todo[d] # <<>> => todo'[d] # <<>> /\ Head(todo'[d]) = Head(todo[d])
      BY <2>2, AppendHead
    <2> QED BY <2>1, <2>3 DEF Nearest, Distance, Delta
  <1>4. CASE Tick \/ UNCHANGED vars \/ \E c \in Cores : Write(c) \/ Leave(c) \/ Notify(c)
    <2>1. UNCHANGED <<todo, con, empty, last_timestamp>>
      BY <1>4 DEF Tick, vars, Write, Leave, Notify
    <2> QED BY <2>1 DEF Nearest, Distance, Delta
  <1>5. CASE Look
    <2> DEFINE c == con.core
               better == NotEmpty(c) /\ HeadOf(c) # None /\ Earlier(HeadOf(c))
    <2>1. /\ con.pc = "scan" /\ c < CoreNum /\ con'.pc = "scan" /\ con'.core = c + 1
          /\ con'.best = IF better THEN [core |-> c, head |-> HeadOf(c)] ELSE con.best
          /\ empty' = IF NotEmpty(c) THEN empty ELSE empty \cup {c}
          /\ UNCHANGED <<todo, last_timestamp>>
      BY <1>0, <1>5 DEF Look, Typed
    <2>2. c \in Cores
      BY SMTT(60), <1>0, <2>1, Positive DEF Typed, Cores
    <2>3. /\ NotEmpty(c) <=> todo[c] # <<>>
          /\ todo[c] # <<>> => Head(todo[c]) \in Records /\ HeadOf(c) = Head(todo[c])
      BY <2>1, <2>2, HeadFacts
    <2>4. todo[c] # <<>> => HeadOf(c) # None
      <3>1. None \notin Records
        BY TransmissionAssumption
      <3> QED BY <2>3, <3>1
    <2>5. \A d \in Cores : todo[d] # <<>> => Delta(Head(todo[d]).stamp) \in 0 .. TimeMod - 1
      <3> SUFFICES ASSUME NEW d \in Cores, todo[d] # <<>>
                   PROVE  Delta(Head(todo[d]).stamp) \in 0 .. TimeMod - 1
        OBVIOUS
      <3>1. Head(todo[d]) \in Records
        BY <1>0, StampFacts, TailIndex
      <3>2. Head(todo[d]).stamp \in 0 .. TimeMod - 1 /\ last_timestamp \in 0 .. TimeMod - 1
        BY <1>0, <3>1 DEF Records, Typed
      <3>3. Delta(Head(todo[d]).stamp) = Ago(Head(todo[d]).stamp, last_timestamp)
        BY DEF Delta, Ago
      <3> QED BY <3>2, <3>3, AgoFacts
    <2>6. Distance(con.best) \in 0 .. TimeMod - 1
      <3>1. CASE con.best = None
        BY <3>1, Positive DEF Distance
      <3>2. CASE con.best # None
        <4>1. con.best.core \in Cores /\ todo[con.best.core] # <<>> /\ con.best.head = Head(todo[con.best.core])
          BY <1>0, <2>1, <3>2 DEF IInv, BestIsHead, Typed, Bests
        <4> QED BY <2>5, <3>2, <4>1 DEF Distance
      <3> QED BY <3>1, <3>2
    <2>7. CASE better
      <3> DEFINE b == [core |-> c, head |-> HeadOf(c)]
      <3>1. b \in Bests /\ None \notin Bests /\ b.head = Head(todo[c]) /\ todo[c] # <<>>
        BY <2>2, <2>3, <2>7, TransmissionAssumption DEF Bests
      <3>2. Delta(Head(todo[c]).stamp) < Distance(con.best)
        BY <2>3, <3>1, <2>7 DEF Earlier, Distance
      <3>3. Distance(con.best)' = Delta(Head(todo[c]).stamp)
        <4>1. con'.best = b /\ b # None
          BY <2>1, <2>7, <3>1
        <4> HIDE DEF b
        <4> QED BY <2>1, <3>1, <4>1 DEF Distance, Delta
      <3>4. ASSUME NEW d \in Cores, d < c + 1, d \notin empty'
            PROVE  todo[d] # <<>> /\ Delta(Head(todo[d]).stamp) >= Delta(Head(todo[c]).stamp)
        <4>1. CASE d = c
          BY <2>5, <3>1, <4>1
        <4>2. CASE d # c
          <5>1. d < c /\ d \notin empty
            BY <2>1, <2>2, <3>4, <4>2 DEF Cores
          <5>2. todo[d] # <<>> /\ Delta(Head(todo[d]).stamp) >= Distance(con.best)
            BY <2>1, <5>1 DEF Nearest
          <5> HIDE DEF c
          <5> QED BY <2>2, <2>5, <2>6, <3>1, <3>2, <5>2
        <4> QED BY <4>1, <4>2
      <3> QED BY <2>1, <3>3, <3>4 DEF Nearest, Delta, Distance
    <2>8. CASE ~better
      <3>1. ASSUME NEW d \in Cores, d < c + 1, d \notin empty'
            PROVE  todo[d] # <<>> /\ Delta(Head(todo[d]).stamp) >= Distance(con.best)
        <4>1. CASE d = c
          <5>1. todo[c] # <<>>
            BY <2>1, <2>3, <3>1, <4>1
          <5>2. ~(Delta(Head(todo[c]).stamp) < Distance(con.best))
            BY <2>3, <2>4, <2>8, <5>1 DEF Earlier, Distance
          <5> HIDE DEF c
          <5> QED BY <2>2, <2>5, <2>6, <4>1, <5>1, <5>2
        <4>2. CASE d # c
          <5>1. d < c /\ d \notin empty
            BY <2>1, <2>2, <3>1, <4>2 DEF Cores
          <5> QED BY <2>1, <5>1 DEF Nearest
        <4> QED BY <4>1, <4>2
      <3> QED BY <2>1, <2>8, <3>1 DEF Nearest, Distance, Delta
    <2> QED BY <2>7, <2>8
  <1> QED BY <1>1, <1>2, <1>3, <1>4, <1>5 DEF Next, Consume, Produce

\* A record that lies back by the distance is older than the last one sent.
LEMMA BackIsOlder ==
  ASSUME IInv, InTime, Ordered, Transmit, Delta(con.best.head.stamp) >= Half
  PROVE  con.best.core \in late
  <1> DEFINE c == con.best.core
             r == con.best.head
  <1>1. c \in Cores /\ todo[c] # <<>> /\ r = Head(todo[c])
    BY TransmitStep
  <1>2. Typed
    BY DEF IInv
  <1>3. 1 \in 1 .. Len(todo[c]) /\ r = todo[c][1]
    BY <1>1, <1>2, StampFacts, TailIndex
  <1>4. /\ r.stamp \in 0 .. TimeMod - 1 /\ now \in 0 .. TimeMod - 1
        /\ last_timestamp \in 0 .. TimeMod - 1
    BY <1>1, <1>2, <1>3, StampFacts
  <1>5. Ago(now, last_timestamp) <= Half - 1
    BY DEF InTime, Within
  <1>6. c \notin late => Ago(now, r.stamp) <= Ago(now, last_timestamp)
    BY <1>1, <1>3 DEF Ordered, NoneBack
  <1>7. Delta(r.stamp) >= Half
    OBVIOUS
  <1> HIDE DEF c, r
  <1>8. Ago(now, r.stamp) > Ago(now, last_timestamp)
    <2>1. Ago(now, r.stamp) \in 0 .. TimeMod - 1 /\ Ago(now, last_timestamp) \in 0 .. TimeMod - 1
      BY <1>4, AgoFacts
    <2>2. Ago(now, r.stamp) <= Ago(now, last_timestamp) =>
            Delta(r.stamp) = Ago(now, last_timestamp) - Ago(now, r.stamp)
      BY <1>4, DeltaFacts
    <2> QED BY <1>5, <1>7, <2>1, <2>2, HalfFacts
  <1>9. c \in late
    <2>1. Ago(now, r.stamp) \in 0 .. TimeMod - 1 /\ Ago(now, last_timestamp) \in 0 .. TimeMod - 1
      BY <1>4, AgoFacts
    <2> QED BY <1>6, <1>8, <2>1
  <1> QED BY <1>9 DEF c

\* The merge goes back in time only for a record that was stamped in time and published
\* late, as long as nothing is half the wrap of time old (generic_transmission.c:234, 588).
THEOREM MergeInOrder == Spec /\ []InTime => BackOnlyIfLate
  <1>1. Init => Ordered /\ Nearest
    <2> SUFFICES ASSUME Init PROVE Ordered /\ Nearest
      OBVIOUS
    <2>1. \A c \in Cores : todo[c] = <<>> /\ pc[c] = "out"
      BY DEF Init
    <2>2. con.pc = "pend"
      BY DEF Init
    <2> QED BY <2>1, <2>2 DEF Ordered, Younger, NoneBack, Nearest
  <1>2. IInv /\ InTime /\ InTime' /\ Ordered /\ Nearest /\ [Next]_vars => Ordered' /\ Nearest'
    BY OrderedStep, NearestStep
  <1>3. IInv /\ InTime /\ Ordered =>
          [Transmit => LET c == con.best.core
                       IN  Delta(con.best.head.stamp) >= TimeMod \div 2 => c \in late]_vars
    BY BackIsOlder DEF Half
  <1> QED BY <1>1, <1>2, <1>3, IInvInvariant, PTL DEF Spec, BackOnlyIfLate

\* What is true of the stamp of every record and of the last one sent stays true if it is
\* of the time.  The set ok has the stamps it is true of.
AllIn(ok, last, list, p, r) ==
  /\ last \in ok
  /\ \A c \in Cores : /\ \A i \in 1 .. Len(list[c]) : list[c][i].stamp \in ok
                      /\ p[c] = "written" => r[c].stamp \in ok

LEMMA AllInStep ==
  ASSUME IInv, [Next]_vars, NEW ok, AllIn(ok, last_timestamp, todo, pc, rec), now \in ok
  PROVE  AllIn(ok, last_timestamp', todo', pc', rec')
  <1>0. Typed
    BY DEF IInv
  <1>1. CASE UNCHANGED vars
    BY <1>1 DEF vars, AllIn
  <1>2. CASE Tick
    BY <1>2 DEF Tick, AllIn
  <1>3. CASE Next /\ ~Tick /\ ~Transmit /\ \A c \in Cores : ~Write(c) /\ ~Publish(c)
    <2>1. /\ UNCHANGED <<todo, now, last_timestamp, late>>
          /\ \A c \in Cores : /\ pc'[c] = "written" <=> pc[c] = "written"
                              /\ pc[c] = "written" => rec'[c] = rec[c]
      BY <1>3, SameRecords
    <2> QED BY <2>1 DEF AllIn
  <1>4. ASSUME NEW c \in Cores, Write(c) PROVE AllIn(ok, last_timestamp', todo', pc', rec')
    <2>1. PICK r : /\ r.stamp = now /\ pc' = [pc EXCEPT ![c] = "written"] /\ rec' = [rec EXCEPT ![c] = r]
                   /\ UNCHANGED <<todo, now, last_timestamp, late>>
      BY <1>4, WriteFacts
    <2>2. /\ pc'[c] = "written" /\ rec'[c] = r
          /\ \A d \in Cores : d # c => pc'[d] = pc[d] /\ rec'[d] = rec[d]
      BY <1>0, <2>1 DEF Typed
    <2> QED BY <2>1, <2>2 DEF AllIn
  <1>5. ASSUME NEW c \in Cores, Publish(c) PROVE AllIn(ok, last_timestamp', todo', pc', rec')
    <2>1. /\ pc[c] = "written" /\ pc' = [pc EXCEPT ![c] = "published"]
          /\ todo' = [todo EXCEPT ![c] = Append(todo[c], rec[c])]
          /\ UNCHANGED <<rec, now, last_timestamp, late>>
      BY <1>5 DEF Publish
    <2>2. /\ pc'[c] = "published" /\ todo'[c] = Append(todo[c], rec[c])
          /\ \A d \in Cores : d # c => pc'[d] = pc[d] /\ todo'[d] = todo[d]
      BY <1>0, <2>1 DEF Typed
    <2>3. /\ Len(todo'[c]) = Len(todo[c]) + 1 /\ todo'[c][Len(todo[c]) + 1] = rec[c]
          /\ \A i \in 1 .. Len(todo[c]) : todo'[c][i] = todo[c][i]
      BY <1>0, <2>1, <2>2, StampFacts, AppendProperties
    <2>4. \A i \in 1 .. Len(todo'[c]) : i \in 1 .. Len(todo[c]) \/ i = Len(todo[c]) + 1
      BY <1>0, <2>3, StampFacts
    <2>5. \A i \in 1 .. Len(todo'[c]) : todo'[c][i].stamp \in ok
      BY <2>1, <2>3, <2>4 DEF AllIn
    <2> QED BY <2>1, <2>2, <2>5 DEF AllIn
  <1>6. CASE Transmit
    <2> DEFINE c == con.best.core
               r == con.best.head
    <2>1. last_timestamp' = r.stamp /\ UNCHANGED <<pc, rec, now>>
      BY <1>6 DEF Transmit
    <2>2. /\ c \in Cores /\ todo[c] # <<>> /\ r = Head(todo[c])
          /\ todo' = [todo EXCEPT ![c] = Tail(todo[c])]
      BY <1>6, TransmitStep
    <2> HIDE DEF c, r
    <2>3. /\ todo'[c] = Tail(todo[c]) /\ \A d \in Cores : d # c => todo'[d] = todo[d]
      BY <1>0, <2>2 DEF Typed
    <2>4. todo[c] \in Seq(Records)
      BY <1>0, <2>2, StampFacts
    <2>5. /\ 1 \in 1 .. Len(todo[c]) /\ r = todo[c][1]
          /\ \A i \in 1 .. Len(todo'[c]) : todo'[c][i] = todo[c][i + 1] /\ i + 1 \in 1 .. Len(todo[c])
      <3> DEFINE l == todo[c]
      <3>1. l # <<>> /\ l \in Seq(Records) /\ r = Head(l) /\ todo'[c] = Tail(l)
        BY <2>2, <2>3, <2>4
      <3> HIDE DEF l
      <3>2. /\ Len(l) \in Nat /\ Len(l) >= 1 /\ Head(l) = l[1]
            /\ \A i \in 1 .. Len(Tail(l)) : Tail(l)[i] = l[i + 1] /\ i + 1 \in 1 .. Len(l)
        BY <3>1, TailIndex
      <3>3. 1 \in 1 .. Len(l)
        BY <3>2
      <3>4. r = l[1] /\ \A i \in 1 .. Len(todo'[c]) : todo'[c][i] = l[i + 1] /\ i + 1 \in 1 .. Len(l)
        BY <3>1, <3>2
      <3> QED BY <3>3, <3>4 DEF l
    <2>6. r.stamp \in ok /\ \A i \in 1 .. Len(todo'[c]) : todo'[c][i].stamp \in ok
      BY <2>2, <2>5 DEF AllIn
    <2> QED BY <2>1, <2>3, <2>6 DEF AllIn
  <1> QED BY <1>1, <1>2, <1>3, <1>4, <1>5, <1>6

LEMMA AllInInit ==
  ASSUME Init, NEW ok, StartTime \in ok
  PROVE  now \in ok /\ AllIn(ok, last_timestamp, todo, pc, rec)
  <1>1. \A c \in Cores : todo[c] = <<>> /\ pc[c] = "out"
    BY DEF Init
  <1> QED BY <1>1 DEF Init, AllIn

\* Time begins with StartTime and goes on by TickStep.
Elapsed == ticks * TickStep
Young ==
  /\ ticks \in 0 .. MaxTicks
  /\ AllIn({s \in 0 .. TimeMod - 1 : Ago(now, s) <= Elapsed}, last_timestamp, todo, pc, rec)

LEMMA Times ==
  ASSUME NEW a \in Nat, NEW b \in Nat, NEW c \in Nat, a <= b
  PROVE  a * c \in Nat /\ a * c <= b * c /\ (a + 1) * c = a * c + c
  <1>1. PICK d \in Nat : b = a + d
    <2>1. b - a \in Nat /\ b = a + (b - a)
      OBVIOUS
    <2> QED BY <2>1
  <1>2. (a + d) * c = a * c + d * c /\ (a + 1) * c = a * c + c
    OBVIOUS
  <1>3. a * c \in Nat /\ d * c \in Nat
    OBVIOUS
  <1>4. a * c <= a * c + d * c
    BY <1>3
  <1> QED BY <1>1, <1>2, <1>3, <1>4

LEMMA YoungStep ==
  ASSUME IInv, Young, [Next]_vars
  PROVE  Young'
  <1> DEFINE ok == {s \in 0 .. TimeMod - 1 : Ago(now, s) <= Elapsed}
             Q == {s \in 0 .. TimeMod - 1 : Ago(now', s) <= Elapsed'}
  <1>0. Typed
    BY DEF IInv
  <1>1. ticks \in Nat /\ MaxTicks \in Nat /\ TickStep \in Nat /\ Elapsed \in Nat
    BY TransmissionAssumption, Times DEF Young, Elapsed
  <1>2. now \in ok
    BY <1>0, <1>1, StampFacts, AgesFacts
  <1>3. AllIn(ok, last_timestamp', todo', pc', rec')
    <2>1. AllIn(ok, last_timestamp, todo, pc, rec)
      BY DEF Young
    <2> HIDE DEF ok
    <2> QED BY <1>2, <2>1, AllInStep
  <1>4. ok \subseteq Q /\ ticks' \in 0 .. MaxTicks
    <2>1. CASE Tick
      <3>1. ticks < MaxTicks /\ ticks' = ticks + 1 /\ now' = (now + TickStep) % TimeMod
        BY <2>1 DEF Tick
      <3>2. Elapsed' = Elapsed + TickStep
        BY <1>1, <3>1, Times DEF Elapsed
      <3>3. \A s \in 0 .. TimeMod - 1 : Ago(now', s) <= Ago(now, s) + TickStep
        BY <1>0, <3>1, StampFacts, TickFacts
      <3>4. \A s \in 0 .. TimeMod - 1 : Ago(now, s) \in Nat /\ Ago(now', s) \in Nat
        <4>1. now \in 0 .. TimeMod - 1
          BY <1>0, StampFacts
        <4>2. now' \in 0 .. TimeMod - 1
          BY <3>1, <4>1, TickFacts
        <4> QED BY <4>1, <4>2, AgoFacts
      <3>5. ASSUME NEW s \in 0 .. TimeMod - 1, Ago(now, s) <= Elapsed PROVE Ago(now', s) <= Elapsed'
        BY <1>1, <3>2, <3>3, <3>4, <3>5
      <3> QED BY <1>1, <3>1, <3>5
    <2>2. CASE ~Tick
      <3>1. UNCHANGED <<ticks, now>>
        BY <2>2 DEF Next, vars, Consume, Produce, Pend, Look, Idle, Transmit, Release, Write, Publish, Leave, Notify
      <3>2. ticks' \in 0 .. MaxTicks
        BY <3>1 DEF Young
      <3> QED BY <3>1, <3>2 DEF Elapsed
    <2> QED BY <2>1, <2>2
  <1>5. AllIn(Q, last_timestamp', todo', pc', rec')
    <2> HIDE DEF ok, Q
    <2> QED BY <1>3, <1>4 DEF AllIn
  <1> QED BY <1>4, <1>5 DEF Young

LEMMA YoungInTime ==
  ASSUME IInv, Young, MaxTicks * TickStep < Half
  PROVE  InTime
  <1>1. ticks \in Nat /\ MaxTicks \in Nat /\ TickStep \in Nat /\ ticks <= MaxTicks
    BY TransmissionAssumption DEF Young
  <1>2. Elapsed \in Nat /\ Elapsed <= MaxTicks * TickStep /\ MaxTicks * TickStep \in Nat
    BY <1>1, Times DEF Elapsed
  <1>3. Elapsed <= Half - 1
    <2> DEFINE most == MaxTicks * TickStep
    <2>1. most \in Nat /\ most < Half /\ Elapsed <= most
      BY <1>2
    <2> HIDE DEF most
    <2> QED BY <1>2, <2>1, HalfFacts
  <1>4. now \in 0 .. TimeMod - 1
    BY StampFacts DEF IInv
  <1>5. ASSUME NEW s \in 0 .. TimeMod - 1, Ago(now, s) <= Elapsed PROVE Ago(now, s) <= Half - 1
    <2>1. Ago(now, s) \in Nat
      BY <1>4, AgoFacts
    <2> QED BY <1>2, <1>3, <1>5, <2>1, HalfFacts
  <1> QED BY <1>5 DEF Young, AllIn, InTime, Within

\* In particular it does so while time has not gone on by half its wrap.
THEOREM MergeInOrderAtFirst == MaxTicks * TickStep < TimeMod \div 2 => (Spec => BackOnlyIfLate)
  <1> SUFFICES ASSUME MaxTicks * TickStep < Half PROVE Spec => BackOnlyIfLate
    BY DEF Half
  <1>1. Init => Young
    <2> SUFFICES ASSUME Init PROVE Young
      OBVIOUS
    <2> DEFINE ok == {s \in 0 .. TimeMod - 1 : Ago(now, s) <= Elapsed}
    <2>1. now = StartTime /\ ticks = 0 /\ StartTime \in 0 .. TimeMod - 1 /\ TickStep \in Nat /\ MaxTicks \in Nat
      BY TransmissionAssumption DEF Init
    <2>2. Elapsed = 0
      BY <2>1 DEF Elapsed
    <2>3. Ago(StartTime, StartTime) = 0
      <3>1. Ago(StartTime, StartTime) = IF StartTime <= StartTime THEN StartTime - StartTime
                                                                ELSE StartTime + TimeMod - StartTime
        BY <2>1, AgoFacts
      <3> QED BY <2>1, <3>1
    <2>4. StartTime \in ok
      BY <2>1, <2>2, <2>3
    <2> HIDE DEF ok
    <2>5. AllIn(ok, last_timestamp, todo, pc, rec)
      BY <2>4, AllInInit
    <2> QED BY <2>1, <2>5 DEF Young, ok
  <1>2. IInv /\ Young /\ [Next]_vars => Young'
    BY YoungStep
  <1>3. IInv /\ Young => InTime
    BY YoungInTime
  <1> QED BY <1>1, <1>2, <1>3, IInvInvariant, MergeInOrder, PTL DEF Spec

\* Stamps that differ by an even number.
Alike == {s \in 0 .. TimeMod - 1 : s % 2 = StartTime % 2}
Even == now \in Alike /\ AllIn(Alike, last_timestamp, todo, pc, rec)

LEMMA EvenStep ==
  ASSUME IInv, Even, [Next]_vars, TickStep % 2 = 0, TimeMod % 2 = 0
  PROVE  Even'
  <1>1. AllIn(Alike, last_timestamp', todo', pc', rec')
    BY AllInStep DEF Even
  <1>2. CASE Tick
    <2>1. now \in Alike /\ now' = (now + TickStep) % TimeMod
      BY <1>2 DEF Tick, Even
    <2>2. TickStep \in 0 .. TimeMod - 1 /\ TimeMod \in Nat \ {0} /\ StartTime \in 0 .. TimeMod - 1
      BY TransmissionAssumption
    <2>3. now' = IF now + TickStep < TimeMod THEN now + TickStep ELSE now + TickStep - TimeMod
      BY <2>1, <2>2, ModOnce DEF Alike
    <2>4. now' \in 0 .. TimeMod - 1 /\ now' % 2 = now % 2
      BY <2>1, <2>2, <2>3 DEF Alike
    <2>5. now' \in Alike
      BY <2>1, <2>4 DEF Alike
    <2> QED BY <1>1, <2>5 DEF Even
  <1>3. CASE ~Tick
    <2>1. now' = now
      BY ZenonT(60), <1>3 DEF Next, vars, Consume, Produce, Pend, Look, Idle, Transmit, Release, Write, Publish, Leave, Notify
    <2> QED BY <1>1, <2>1 DEF Even
  <1> QED BY <1>2, <1>3

LEMMA EvenDistance ==
  ASSUME IInv, Even, TimeMod % 2 = 0
  PROVE  NoneOneTickBefore
  <1> SUFFICES ASSUME NEW c \in Cores, todo[c] # <<>>
               PROVE  Delta(Head(todo[c]).stamp) # TimeMod - 1
    BY DEF NoneOneTickBefore
  <1> DEFINE s == Head(todo[c]).stamp
  <1>1. todo[c] \in Seq(Records)
    BY StampFacts DEF IInv
  <1>2. 1 \in 1 .. Len(todo[c]) /\ Head(todo[c]) = todo[c][1]
    BY <1>1, TailIndex
  <1>3. s \in Alike /\ last_timestamp \in Alike
    BY <1>2 DEF Even, AllIn
  <1>4. Delta(s) = Ago(s, last_timestamp)
    BY DEF Delta, Ago
  <1> HIDE DEF s
  <1>5. Ago(s, last_timestamp) = IF last_timestamp <= s THEN s - last_timestamp ELSE s + TimeMod - last_timestamp
    BY <1>3, AgoFacts DEF Alike
  <1>6. TimeMod \in Nat
    BY Positive
  <1>7. Delta(s) # TimeMod - 1
    BY <1>3, <1>4, <1>5, <1>6 DEF Alike
  <1> QED BY <1>7 DEF s

\* In particular none is left asleep by a clock whose ticks come in pairs.
THEOREM ConsumerIsWokenByEvenClock ==
  TickStep % 2 = 0 /\ TimeMod % 2 = 0 => (Spec => []WakeupComing)
  <1> SUFFICES ASSUME TickStep % 2 = 0, TimeMod % 2 = 0 PROVE Spec => []WakeupComing
    OBVIOUS
  <1>1. Init => Even
    <2>1. StartTime \in Alike
      BY TransmissionAssumption DEF Alike
    <2> QED BY <2>1, AllInInit DEF Even
  <1>2. IInv /\ Even /\ [Next]_vars => Even'
    BY EvenStep
  <1>3. IInv /\ Even => NoneOneTickBefore
    BY EvenDistance
  <1> QED BY <1>1, <1>2, <1>3, IInvInvariant, ConsumerIsWoken, PTL DEF Spec

=============================================================================
