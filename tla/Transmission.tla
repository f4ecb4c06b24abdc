---------------------------- MODULE Transmission ----------------------------
(***************************************************************************)
(* generic_transmission.c: each core writes records into a ring buffer of  *)
(* its own in shared memory; one task of core 0 sends them all, merged by  *)
(* time stamp.  No lock is shared: a producer writes write_size, the       *)
(* consumer read_size, and a producer wakes the consumer only if its       *)
(* buffer was empty.                                                       *)
(***************************************************************************)
EXTENDS Integers, Sequences

CONSTANTS
  CoreNum,       \* GENERIC_TRANSMISSION_BUF_CORE_NUM; core 0 is DTOP, which has the consumer
  None,          \* no record
  FifoLen,       \* fifo_len
  HdrLen,        \* sizeof(generic_transmission_buf_hdr_t)
  Lens,          \* lengths of the data given to generic_transmission_data_tx
  Modes,         \* subset of {"lazy", "asap"}
  PrefixLen,     \* GENERIC_TRANSMISSION_BUF_PREFIX_EXTRA_SIZE
  SizeMod,       \* modulus of write_size and read_size
  TimeMod,       \* modulus of time stamps
  StartTime,     \* the time, and the totals, from which a behaviour starts
  StartSize,
  TickStep,      \* by how much the clock advances
  MaxTicks,      \* bound: ticks of a behaviour
  MaxRecords     \* bound: records written

Cores == 0 .. CoreNum - 1
Records == [n : Nat, mode : Modes, stamp : 0 .. TimeMod - 1, len : Nat]

ASSUME TransmissionAssumption ==
  /\ None \notin Records /\ None \notin Records \X Nat
  /\ None \notin [core : Cores, head : Records]
  /\ CoreNum \in Nat \ {0}
  /\ HdrLen \in Nat \ {0} /\ FifoLen \in Nat /\ FifoLen > HdrLen
  /\ Lens \subseteq Nat \ {0} /\ Modes \subseteq {"lazy", "asap"}
  /\ PrefixLen \in Nat
  /\ SizeMod \in Nat /\ SizeMod \div 2 > FifoLen
  /\ TimeMod \in Nat \ {0} /\ {StartTime, TickStep} \subseteq 0 .. TimeMod - 1
  /\ StartSize \in 0 .. SizeMod - 1
  /\ MaxTicks \in Nat /\ MaxRecords \in Nat

VARIABLES
  fifo,            \* contents of the ring buffers: bytes are pairs <<record, k>>
  write_idx, write_size, read_idx, read_size,   \* ctrl of each core
  pc, rec,         \* each core: where its critical section stands, the record it writes
  owed,            \* each core: a caller has yet to notify (to_notify)
  notify_sem,      \* s_generic_transmission_consumer_env
  last_timestamp,
  con,             \* the consumer: program counter, next core, earliest head so far
  now, ticks,
  count, todo, out, empty, late      \* history: records accepted, published and not sent,
                                     \* the last one sent; cores found empty by this pass,
                                     \* and those whose next record may be late

ring == <<fifo, write_idx, write_size, read_idx, read_size>>
vars == <<ring, pc, rec, owed, notify_sem, last_timestamp, con, now, ticks,
          count, todo, out, empty, late>>

-----------------------------------------------------------------------------
(* The ring buffer. *)


\* An index n bytes further on: past the end it continues at the start.
Advance(i, n) == IF i + n >= FifoLen THEN n - (FifoLen - i) ELSE i + n

\* fifo_cached_size, an int32_t: what has been written and not yet read.
Cached(w, r) == LET d == (w + SizeMod - r) % SizeMod
                IN  IF d >= SizeMod \div 2 THEN d - SizeMod ELSE d

\* The bytes of record r, of which the first HdrLen are its header, laid down from index i.
Stored(cells, i, r) ==
  [a \in 0 .. FifoLen - 1 |->
     LET k == ((a + FifoLen - i) % FifoLen) + 1
     IN  IF k <= HdrLen + r.len THEN <<r, k>> ELSE cells[a]]

Loaded_Straight(cells, i, n) ==
  [k \in 1 .. n |-> cells[IF i + k > FifoLen THEN FifoLen - 1 ELSE i + k - 1]]

\* n bytes read from index i.
Loaded(cells, i, n) == [k \in 1 .. n |-> cells[(i + k - 1) % FifoLen]]

Init ==
  /\ fifo = [c \in Cores |-> [a \in 0 .. FifoLen - 1 |-> None]]
  /\ write_idx = [c \in Cores |-> 0] /\ write_size = [c \in Cores |-> StartSize]
  /\ read_idx = [c \in Cores |-> 0]  /\ read_size = [c \in Cores |-> StartSize]
  /\ pc = [c \in Cores |-> "out"] /\ rec = [c \in Cores |-> None]
  /\ owed = [c \in Cores |-> FALSE]
  /\ notify_sem = 0 /\ last_timestamp = StartTime
  /\ con = [pc |-> "pend", core |-> 0, best |-> None]
  /\ now = StartTime /\ ticks = 0
  /\ count = 0 /\ todo = [c \in Cores |-> <<>>] /\ out = <<>>
  /\ empty = {} /\ late = {}

-----------------------------------------------------------------------------
(* Producers: generic_transmission_data_tx_implement.  Its critical section *)
(* excludes the other tasks of the same core only.                          *)

Free(c) == FifoLen - Cached(write_size[c], read_size[c])

\* Room is there, or the mode accepts less.
Fits(c, mode, len) ==
  /\ Free(c) > HdrLen
  /\ mode = "lazy" => Free(c) >= HdrLen + len

\* Enter the critical section, stamp the header and copy header and data; a record that
\* does not fit is refused, which changes nothing.
Write(c) == \E mode \in Modes, len \in Lens :
  LET room == Free(c) - HdrLen
      r == [n |-> count + 1, mode |-> mode, stamp |-> now,
            len |-> IF room < len THEN room ELSE len]
  IN /\ pc[c] = "out" /\ count < MaxRecords
     /\ Fits(c, mode, len)
     /\ fifo' = [fifo EXCEPT ![c] = Stored(@, write_idx[c], r)]
     /\ write_idx' = [write_idx EXCEPT ![c] = Advance(Advance(@, HdrLen), r.len)]
     /\ rec' = [rec EXCEPT ![c] = r] /\ pc' = [pc EXCEPT ![c] = "written"]
     /\ count' = count + 1
     /\ UNCHANGED <<write_size, read_idx, read_size, owed, notify_sem, last_timestamp, con,
                    now, ticks, todo, out, empty, late>>

\* write_size is advanced: the consumer can see the record.
Publish(c) ==
  /\ pc[c] = "written" /\ pc' = [pc EXCEPT ![c] = "published"]
  /\ write_size' = [write_size EXCEPT ![c] = (@ + HdrLen + rec[c].len) % SizeMod]
  /\ todo' = [todo EXCEPT ![c] = Append(@, rec[c])]
  /\ UNCHANGED <<fifo, write_idx, read_idx, read_size, rec, owed, notify_sem, last_timestamp,
                 con, now, ticks, count, out, empty, late>>

WasEmpty_Now(c) == write_size[c] = read_size[c]

\* Was the buffer empty before this record?  Then leave the critical section owing a
\* notification.
WasEmpty(c) == write_size[c] = (HdrLen + rec[c].len + read_size[c]) % SizeMod

Leave(c) ==
  /\ pc[c] = "published" /\ pc' = [pc EXCEPT ![c] = "out"]
  /\ owed' = [owed EXCEPT ![c] = @ \/ WasEmpty(c)]
  /\ rec' = [rec EXCEPT ![c] = None]
  /\ UNCHANGED <<ring, notify_sem, last_timestamp, con, now, ticks, count, todo, out, empty, late>>

\* generic_transmission_notify: the semaphore is posted, from another core through an
\* interrupt.  Its count is at most one.
Notify(c) ==
  /\ owed[c] /\ owed' = [owed EXCEPT ![c] = FALSE]
  /\ c = 0 => pc[c] = "out"
  /\ notify_sem' = 1
  /\ UNCHANGED <<ring, pc, rec, last_timestamp, con, now, ticks, count, todo, out, empty, late>>

Tick ==
  /\ ticks < MaxTicks /\ ticks' = ticks + 1 /\ now' = (now + TickStep) % TimeMod
  /\ UNCHANGED <<ring, pc, rec, owed, notify_sem, last_timestamp, con, count, todo, out, empty, late>>

-----------------------------------------------------------------------------
(* The consumer task, which does not run inside the critical section of core 0. *)

Scan == [pc |-> "scan", core |-> 0, best |-> None]

Pend ==
  /\ con.pc = "pend" /\ pc[0] = "out"
  /\ notify_sem = 1 /\ notify_sem' = 0
  /\ con' = Scan /\ empty' = {}
  /\ UNCHANGED <<ring, pc, rec, owed, last_timestamp, now, ticks, count, todo, out, late>>

Delta(stamp) == (stamp + TimeMod - last_timestamp) % TimeMod

\* The header at the read index; a header that is not whole is None.
HeadOf(c) == LET h == Loaded(fifo[c], read_idx[c], HdrLen)
            IN  IF h[1] # None /\ \A k \in 1 .. HdrLen : h[k] = <<h[1][1], k>> THEN h[1][1] ELSE None

NotEmpty(c) == Cached(write_size[c], read_size[c]) >= HdrLen

Earlier_Absolute(r) == con.best = None \/ r.stamp < con.best.head.stamp

\* A head replaces the earliest so far if its distance from the last stamp is smaller; the
\* distance to beat is 0xFFFFFFFF at first.
Earlier(r) == LET d == IF con.best = None THEN TimeMod - 1 ELSE Delta(con.best.head.stamp)
              IN  Delta(r.stamp) < d

\* One core of generic_transmission_consumer_tx_process_next's loop.
Look ==
  LET c == con.core
      best == IF NotEmpty(c) /\ HeadOf(c) # None /\ Earlier(HeadOf(c))
              THEN [core |-> c, head |-> HeadOf(c)] ELSE con.best
  IN /\ con.pc = "scan" /\ c < CoreNum /\ pc[0] = "out"
     /\ con' = [con EXCEPT !.core = c + 1, !.best = best]
     /\ empty' = IF NotEmpty(c) THEN empty ELSE empty \cup {c}
     /\ UNCHANGED <<ring, pc, rec, owed, notify_sem, last_timestamp, now, ticks, count, todo, out,
                    late>>

Idle_Clears ==
  /\ con.pc = "scan" /\ con.core = CoreNum /\ con.best = None /\ pc[0] = "out"
  /\ con' = [con EXCEPT !.pc = "pend"] /\ notify_sem' = 0
  /\ UNCHANGED <<ring, pc, rec, owed, last_timestamp, now, ticks, count, todo, out, empty, late>>

\* No record to send: wait.
Idle ==
  /\ con.pc = "scan" /\ con.core = CoreNum /\ con.best = None /\ pc[0] = "out"
  /\ con' = [con EXCEPT !.pc = "pend"]
  /\ UNCHANGED <<ring, pc, rec, owed, notify_sem, last_timestamp, now, ticks, count, todo, out, empty,
                 late>>

\* A lazy record that wraps, with more before the end than fits into the prefix area, is
\* put together in memory from the heap; without memory it is given up.
NeedsMemory(c, r) ==
  LET i == Advance(read_idx[c], HdrLen)
  IN  r.mode = "lazy" /\ i + r.len >= FifoLen /\ FifoLen - i > PrefixLen

Transmit ==
  /\ con.pc = "scan" /\ con.core = CoreNum /\ con.best # None /\ pc[0] = "out"
  /\ LET c == con.best.core
         r == con.best.head
         bytes == Loaded(fifo[c], Advance(read_idx[c], HdrLen), r.len)
     IN /\ last_timestamp' = r.stamp
        /\ \/ out' = <<c, [k \in 1 .. r.len |-> <<bytes[k][1], bytes[k][2] - HdrLen>>]>>
           \/ NeedsMemory(c, r) /\ UNCHANGED out
        /\ todo' = [todo EXCEPT ![c] = Tail(@)]
        /\ late' = (late \cup empty) \ {c}
  /\ con' = [con EXCEPT !.pc = "sent"]
  /\ UNCHANGED <<ring, pc, rec, owed, notify_sem, now, ticks, count, empty>>

Release_Data ==
  /\ con.pc = "sent" /\ pc[0] = "out"
  /\ LET c == con.best.core
         r == con.best.head
     IN /\ read_idx' = [read_idx EXCEPT ![c] = Advance(Advance(@, HdrLen), r.len)]
        /\ read_size' = [read_size EXCEPT ![c] = (@ + r.len) % SizeMod]
  /\ con' = Scan /\ empty' = {}
  /\ UNCHANGED <<fifo, write_idx, write_size, pc, rec, owed, notify_sem, last_timestamp, now, ticks,
                 count, todo, out, late>>

\* read_idx and read_size give the room back, and the loop starts again.
Release ==
  /\ con.pc = "sent" /\ pc[0] = "out"
  /\ LET c == con.best.core
         r == con.best.head
     IN /\ read_idx' = [read_idx EXCEPT ![c] = Advance(Advance(@, HdrLen), r.len)]
        /\ read_size' = [read_size EXCEPT ![c] = (@ + HdrLen + r.len) % SizeMod]
  /\ con' = Scan /\ empty' = {}
  /\ UNCHANGED <<fifo, write_idx, write_size, pc, rec, owed, notify_sem, last_timestamp, now, ticks,
                 count, todo, out, late>>

-----------------------------------------------------------------------------
Produce(c) == Publish(c) \/ Leave(c) \/ Notify(c)
Consume == Pend \/ Look \/ Idle \/ Transmit \/ Release

Next == Tick \/ Consume \/ \E c \in Cores : Write(c) \/ Produce(c)

Spec == Init /\ [][Next]_vars

\* A critical section and the notification after it end; the task that sends runs when it can.
FairSpec == Spec /\ WF_vars(Consume) /\ \A c \in Cores : WF_vars(Produce(c))

-----------------------------------------------------------------------------
(* Properties. *)

\* The running totals, which wrap, and the indices, which wrap elsewhere, agree: the
\* assertion of generic_transmission.c:521 holds, no more is stored than there is room
\* for, and the writer is where the reader will be once it has read everything.
TotalsAgree ==
  \A c \in Cores :
    LET cached == Cached(write_size[c], read_size[c])
        unpublished == IF pc[c] = "written" THEN HdrLen + rec[c].len ELSE 0
    IN  /\ cached \in 0 .. FifoLen /\ cached + unpublished <= FifoLen
        /\ (read_idx[c] + cached + unpublished) % FifoLen = write_idx[c]

\* Types, what the program counters say of the locals, and the totals.
TypeOK ==
  /\ \A c \in Cores :
       /\ fifo[c] \in [0 .. FifoLen - 1 -> {None} \cup (Records \X Nat)]
       /\ write_idx[c] \in 0 .. FifoLen - 1 /\ read_idx[c] \in 0 .. FifoLen - 1
       /\ write_size[c] \in 0 .. SizeMod - 1 /\ read_size[c] \in 0 .. SizeMod - 1
       /\ pc[c] \in {"out", "written", "published"}
       /\ IF pc[c] = "out" THEN rec[c] = None ELSE rec[c] \in Records
       /\ owed[c] \in BOOLEAN /\ todo[c] \in Seq(Records)
  /\ notify_sem \in {0, 1} /\ last_timestamp \in 0 .. TimeMod - 1
  /\ con.pc \in {"pend", "scan", "sent"} /\ con.core \in 0 .. CoreNum
  /\ con.pc = "sent" => con.best # None
  /\ TotalsAgree

\* The consumer never sleeps on a record that nobody will wake it for: if it waits and the
\* semaphore is not posted, then whoever wrote into a buffer that is not empty owes a
\* notification or is about to find out that it does.  The decision is made with two
\* counters that two cores change without a lock (generic_transmission.c:588-595).
WakeupComing ==
  con.pc = "pend" /\ notify_sem = 0 =>
    \A c \in Cores : todo[c] # <<>> => owed[c] \/ (pc[c] = "published" /\ WasEmpty(c))

\* Each buffer is a queue of whole records: nothing is overwritten before it was sent, torn
\* where the buffer wraps, sent twice or out of the order of its core.
P == INSTANCE Pipe WITH queue <- todo
IsPipe == P!Spec

\* The merge goes back in time only for a record whose core was seen empty when a record
\* was sent, that is, one that was stamped in time and published late
\* (generic_transmission.c:234, 547, 588).
BackOnlyIfLate ==
  [][Transmit => LET c == con.best.core
                 IN  Delta(con.best.head.stamp) >= TimeMod \div 2 => c \in late]_vars

\* What a core has written is sent.
EverythingIsSent == \A c \in Cores : todo[c] # <<>> ~> todo[c] = <<>>
=============================================================================
