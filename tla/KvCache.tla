------------------------------ MODULE KvCache ------------------------------
(***************************************************************************)
(* lib/key_value/src/key_value_cache.c with key_value_set_key and           *)
(* key_value_get_key of key_value.c: the cache in front of the flash store.  *)
(* A value set goes to the write list, and the slow share task writes the    *)
(* list to flash later, under the mutex of the cache but not under the mutex *)
(* of the store, which a call of the interface holds from start to end.      *)
(*                                                                         *)
(* The flash store is what KvFlash shows it to be, a map; what can be seen   *)
(* of it from the other task is that a key that is being written or moved    *)
(* has no valid entry for a while.  Values are of one size.                 *)
(* An operator X_Y before X is X with a bug Y.                              *)
(***************************************************************************)
EXTENDS KvData, Integers, FiniteSets, SequencesExt

CONSTANTS
  CacheCap,  \* values in CONFIG_KEY_VALUE_CACHE_LENGTH
  Width,     \* length is unsigned, and counted modulo Width
  Overlaps,  \* TRUE: the flush may move a key while it is read, as no mutex prevents
  SetsBack   \* TRUE: a key may be set to what flash has while another value waits

ASSUME KvCacheAssumption ==
  /\ CacheCap \in Nat \ {0}
  /\ Width \in Nat /\ Width > CacheCap + 1
  /\ {Overlaps, SetsBack} \subseteq BOOLEAN

VARIABLES
  flash,      \* what the store holds
  hidden,     \* the keys that have no valid entry just now
  readList,   \* values that are also in flash, the least recently used first
  writeList,  \* values waiting to be written
  length,     \* what the read list is held to occupy
  flag,       \* write_flush
  event,      \* IOT_SHARE_EVENT_KV_CACHE_EVENT is set
  flushing,   \* key_value_cache_flush_write runs, holding the mutex of the cache
  call        \* the call of the interface under way

vars == <<flash, hidden, readList, writeList, length, flag, event, flushing, call>>

Values == Vals \cup {None}
Item == [key : Keys, val : Values \cup {Garbled}]
Idle == [pc |-> "idle", key |-> None, val |-> None]
Pcs == {"setFind", "setCache", "setFlush", "setDone",
        "getCache", "getRead", "getEvict", "getAdd", "getDone"}

TypeOK ==
  /\ flash \in [Keys -> Values]
  /\ hidden \subseteq Keys
  /\ {readList, writeList} \subseteq Seq(Item)
  /\ length \in 0 .. Width - 1
  /\ {flag, event, flushing} \subseteq BOOLEAN
  /\ call \in [pc : Pcs, key : Keys, val : Values \cup {Garbled}] \cup {Idle}

\* key_value_cache_init: after a boot the lists are empty, and flash may hold values.
Init ==
  /\ flash \in [Keys -> Values]
  /\ hidden = {}
  /\ readList = <<>> /\ writeList = <<>>
  /\ length = 0
  /\ flag = FALSE /\ event = FALSE /\ flushing = FALSE
  /\ call = Idle

Size(v) == IF v = None THEN 0 ELSE 1
Less_Signed(n) == length - n
Less(n) == (length - n) % Width

\* key_value_cache_find
In(list, k) == \E i \in DOMAIN list : list[i].key = k
Place(list, k) == CHOOSE i \in DOMAIN list : list[i].key = k
Find(list, k) == list[Place(list, k)]
Without(list, k) == IF In(list, k) THEN RemoveAt(list, Place(list, k)) ELSE list

\* key_value_find_key, and the value it finds.
Valid(k) == flash[k] # None /\ k \notin hidden

Goto(pc) == call' = [call EXCEPT !.pc = pc]
Result(v) == call' = [call EXCEPT !.pc = "getDone", !.val = v]

----------------------------------------------------------------------------
\* key_value_set_key

SetKey(k, v) ==
  /\ call = Idle
  /\ SetsBack \/ ~(In(writeList, k) /\ v = flash[k])
  /\ call' = [pc |-> "setFind", key |-> k, val |-> v]
  /\ UNCHANGED <<flash, hidden, readList, writeList, length, flag, event, flushing>>

SetFind ==
  /\ call.pc = "setFind"
  /\ Goto(IF Valid(call.key) /\ flash[call.key] = call.val THEN "setDone" ELSE "setCache")
  /\ UNCHANGED <<flash, hidden, readList, writeList, length, flag, event, flushing>>

\* key_value_cache_write_key: the key leaves the list it is in for the tail of
\* the write list.  Other data of the same length replaces the data where it
\* is, and no flush is asked for.
InPlace(k, v) ==
  /\ In(writeList, k)
  /\ Find(writeList, k).val # v
  /\ Size(Find(writeList, k).val) = Size(v)

Requeued_Twice(k, v) == Append(writeList, [key |-> k, val |-> v])
Requeued(k, v) == Append(Without(writeList, k), [key |-> k, val |-> v])

SetCache ==
  LET k == call.key
      v == call.val
  IN /\ call.pc = "setCache"
     /\ ~flushing
     /\ \/ /\ In(readList, k)
           /\ length' = Less(Size(Find(readList, k).val))
           /\ readList' = Without(readList, k)
           /\ writeList' = Append(writeList, [key |-> k, val |-> v])
           /\ Goto("setFlush")
        \/ /\ ~In(readList, k) /\ InPlace(k, v)
           /\ writeList' = [i \in DOMAIN writeList |->
                 IF writeList[i].key = k THEN [key |-> k, val |-> v] ELSE writeList[i]]
           /\ Goto("setDone")
           /\ UNCHANGED <<length, readList>>
        \/ /\ ~In(readList, k) /\ ~InPlace(k, v)
           /\ writeList' = Requeued(k, v)
           /\ Goto("setFlush")
           /\ UNCHANGED <<length, readList>>
     /\ UNCHANGED <<flash, hidden, flag, event, flushing>>

\* key_value_cache_flush
SetFlush_NoEvent ==
  /\ call.pc = "setFlush"
  /\ ~flushing
  /\ flag' = TRUE
  /\ Goto("setDone")
  /\ UNCHANGED <<flash, hidden, readList, writeList, length, event, flushing>>
SetFlush ==
  /\ call.pc = "setFlush"
  /\ ~flushing
  /\ flag' = TRUE
  /\ event' = (event \/ ~flag)
  /\ Goto("setDone")
  /\ UNCHANGED <<flash, hidden, readList, writeList, length, flushing>>

----------------------------------------------------------------------------
\* key_value_get_key

GetKey(k) ==
  /\ call = Idle
  /\ call' = [pc |-> "getCache", key |-> k, val |-> None]
  /\ UNCHANGED <<flash, hidden, readList, writeList, length, flag, event, flushing>>

\* key_value_cache_get_key: a value read moves to the tail of the read list.
Waiting(k) == In(writeList, k)

GetCache ==
  LET k == call.key
  IN /\ call.pc = "getCache"
     /\ ~flushing
     /\ \/ /\ Waiting(k)
           /\ Result(Find(writeList, k).val)
           /\ UNCHANGED readList
        \/ /\ ~Waiting(k) /\ In(readList, k)
           /\ Result(Find(readList, k).val)
           /\ readList' = Append(Without(readList, k), Find(readList, k))
        \/ /\ ~Waiting(k) /\ ~In(readList, k)
           /\ Goto("getRead")
           /\ UNCHANGED readList
     /\ UNCHANGED <<flash, hidden, writeList, length, flag, event, flushing>>

\* key_value_read_key: a pointer into flash.
GetRead ==
  /\ call.pc = "getRead"
  /\ Overlaps \/ call.key \notin hidden
  /\ \/ /\ Valid(call.key)
        /\ call' = [call EXCEPT !.pc = "getEvict", !.val = flash[call.key]]
     \/ /\ ~Valid(call.key)
        /\ Result(None)
  /\ UNCHANGED <<flash, hidden, readList, writeList, length, flag, event, flushing>>

\* key_value_cache_add_key: values leave at the head until there is room ...
Occupied(n) == Cardinality({i \in 1 .. n : readList[i].val # None})
Room(n) == (Less(Occupied(n)) + 1) % Width <= CacheCap
Evictions == {n \in 0 .. Len(readList) :
  (\A m \in 0 .. n - 1 : ~Room(m)) /\ (Room(n) \/ n = Len(readList))}

GetEvict ==
  /\ call.pc = "getEvict"
  /\ ~flushing
  /\ \E n \in Evictions :
       /\ readList' = SubSeq(readList, n + 1, Len(readList))
       /\ length' = Less(Occupied(n))
  /\ Goto("getAdd")
  /\ UNCHANGED <<flash, hidden, writeList, flag, event, flushing>>

\* ... and the value is copied and added, with no mutex of the cache held.
GetAdd ==
  /\ call.pc = "getAdd"
  /\ readList' = Append(readList, [key |-> call.key, val |-> call.val])
  /\ length' = (length + 1) % Width
  /\ Goto("getDone")
  /\ UNCHANGED <<flash, hidden, writeList, flag, event, flushing>>

Return ==
  /\ call.pc \in {"setDone", "getDone"}
  /\ call' = Idle
  /\ UNCHANGED <<flash, hidden, readList, writeList, length, flag, event, flushing>>

----------------------------------------------------------------------------
\* key_value_cache_flush_write, in the slow share task.

FlushStart ==
  /\ event /\ ~flushing
  /\ event' = FALSE
  /\ flushing' = TRUE
  /\ UNCHANGED <<flash, hidden, readList, writeList, length, flag, call>>

\* key_value_write_key moves another key: its entry goes, then the new one is valid.
FlushMove(k) ==
  /\ flushing /\ writeList # <<>>
  /\ hidden = {} /\ flash[k] # None
  /\ Overlaps \/ call.key # k \/ call.pc \notin {"getEvict", "getAdd"}
  /\ hidden' = {k}
  /\ UNCHANGED <<flash, readList, writeList, length, flag, event, flushing, call>>

\* ... and the page it was in is erased.
FlushMoved ==
  /\ flushing /\ hidden # {} /\ hidden # {Head(writeList).key}
  /\ hidden' = {}
  /\ call' = IF call.pc \in {"getEvict", "getAdd"} /\ call.key \in hidden
             THEN [call EXCEPT !.val = Garbled] ELSE call
  /\ UNCHANGED <<flash, readList, writeList, length, flag, event, flushing>>

\* It writes the key itself: the old entry goes first.
FlushHide ==
  /\ flushing /\ writeList # <<>> /\ hidden = {}
  /\ hidden' = {Head(writeList).key}
  /\ UNCHANGED <<flash, readList, writeList, length, flag, event, flushing, call>>

FlushWrite_UpdatesOnly ==
  /\ flushing /\ writeList # <<>> /\ hidden = {Head(writeList).key}
  /\ flash' = [flash EXCEPT ![Head(writeList).key] =
                 IF @ = None THEN None ELSE Head(writeList).val]
  /\ hidden' = {}
  /\ writeList' = Tail(writeList)
  /\ readList' = Append(readList, Head(writeList))
  /\ UNCHANGED <<length, flag, event, flushing, call>>
FlushWrite ==
  /\ flushing /\ writeList # <<>> /\ hidden = {Head(writeList).key}
  /\ flash' = [flash EXCEPT ![Head(writeList).key] = Head(writeList).val]
  /\ hidden' = {}
  /\ writeList' = Tail(writeList)
  /\ readList' = Append(readList, Head(writeList))
  /\ UNCHANGED <<length, flag, event, flushing, call>>

FlushEnd ==
  /\ flushing /\ writeList = <<>>
  /\ flag' = FALSE
  /\ flushing' = FALSE
  /\ UNCHANGED <<flash, hidden, readList, writeList, length, event, call>>

----------------------------------------------------------------------------
Calls == SetFind \/ SetCache \/ SetFlush \/ GetCache \/ GetRead \/ GetEvict \/ GetAdd \/ Return
Flush == FlushStart \/ FlushMoved \/ FlushHide \/ FlushWrite \/ FlushEnd

Next ==
  \/ \E k \in Keys : GetKey(k) \/ FlushMove(k) \/ \E v \in Values : SetKey(k, v)
  \/ Calls
  \/ Flush

Spec == Init /\ [][Next]_vars

\* The tasks above the share task sleep again, and the mutex of the cache is
\* given to the one that has waited for it longest of its priority.  A write moves
\* the keys of one page, once each, before it writes its own.
FairSpec == Spec /\ WF_vars(Calls) /\ WF_vars(Flush) /\ SF_vars(FlushHide)

----------------------------------------------------------------------------
\* Properties

\* What key_value_get_key is to return.
View == [k \in Keys |->
  CASE In(writeList, k) -> Find(writeList, k).val
    [] ~In(writeList, k) /\ In(readList, k) -> Find(readList, k).val
    [] OTHER -> flash[k]]

Setting == call.pc \in {"setFind", "setCache", "setFlush", "setDone"}

Map == INSTANCE KeyStore WITH
  store <- View,
  pending <- IF Setting THEN [key |-> call.key, val |-> call.val, refused |-> FALSE]
             ELSE [key |-> None, val |-> None, refused |-> FALSE]

\* Cache and flash together are the map of key_value.h: a value set is read from
\* its write on, as the caller of key_value_set_key is told, and flushing,
\* evicting and reading change nothing that is read (key_value_cache.c:84-268).
IsMap == Map!Powered

\* A key is in one list, and once: no value that was replaced is kept, to be
\* read or flushed over the new one.
Once(list) == \A i, j \in DOMAIN list : list[i].key = list[j].key => i = j
OneCopy ==
  /\ Once(readList) /\ Once(writeList)
  /\ \A k \in Keys : ~(In(readList, k) /\ In(writeList, k))

\* Whenever values wait to be written a flush is coming for them: the event is
\* set, the flush runs or the call that has queued one is about to ask for it.
\* The path that asks for none relies on it (key_value_cache.c:204-210).
FlushIsComing ==
  writeList # <<>> => event \/ flushing \/ call.pc = "setFlush"

\* key_value_get_key returns the value set last, though it reads flash while
\* the share task may be writing it (key_value.c:1105-1135).
GetIsCurrent == call.pc = "getDone" => call.val = View[call.key]

\* What is read is what was set last, there is no other copy of it, and what
\* waits to be written will be.
CacheSound == OneCopy /\ GetIsCurrent /\ FlushIsComing

\* Every value set reaches flash, or is replaced by one that does.
ReachesFlash == \A k \in Keys : In(writeList, k) ~> ~In(writeList, k)

\* key_value.c:1080, "set key same with old one, nothing to do.": when
\* key_value_set_key returns KV_OK the value is the one that is read.
SetTakesEffect == call.pc = "setDone" => View[call.key] = call.val
=============================================================================
