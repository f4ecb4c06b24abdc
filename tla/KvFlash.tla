------------------------------ MODULE KvFlash ------------------------------
(***************************************************************************)
(* lib/key_value/src/key_value.c: the key-value store on NOR flash.  A page *)
(* is a log of entries whose state only moves forward, because programming  *)
(* flash only clears bits; a value is replaced by writing a new entry and   *)
(* invalidating the old one, and a full store is compacted into the page    *)
(* that is kept empty.                                                      *)
(*                                                                         *)
(* The functions of the file are deterministic and run under a mutex, so    *)
(* each is an operator that yields the flash writes it makes, in order; the *)
(* behaviour executes them one at a time and power may be lost between any  *)
(* two, or in the middle of an entry's header.  Entries are of one size.    *)
(* An operator X_Y before X is X with a bug Y.                              *)
(***************************************************************************)
EXTENDS KvData, Naturals, Sequences, FiniteSets, FiniteSetsExt, SequencesExt

CONSTANTS
  NPages,       \* KEY_VALUE_PAGE_NUM
  PageCap,      \* entries of a page
  MaxCrashes,   \* bound: losses of power in one behaviour
  TornHeaders,  \* when power may fail while the header of an entry is written
  StaleWrites   \* TRUE: the application writes although recovery left an old entry

ASSUME KvFlashAssumption ==
  /\ NPages \in Nat \ {0, 1}
  /\ PageCap \in Nat \ {0}
  /\ MaxCrashes \in Nat
  /\ TornHeaders \subseteq {"appending", "compacting"}
  /\ StaleWrites \in BOOLEAN

VARIABLES
  pages,   \* what flash holds
  todo,    \* the flash writes the function under way has still to make
  op,      \* the function under way
  crashes  \* losses of power so far

flashVars == <<pages, todo, op, crashes>>

Pages == 1 .. NPages

\* In the order their codes take: a state is only ever left for a later one.
\* A torn entry has its state but neither its id nor its length.
KeyStates == <<"torn", "writing", "valid", "deleting", "invalid">>
PageStates == <<"erased", "empty", "using", "defragging">>
Code(states, s) == CHOOSE i \in DOMAIN states : states[i] = s

Torn == [st |-> "torn", key |-> None, val |-> None]
Invalid == [st |-> "invalid", key |-> None, val |-> None]
Entries == [st : {"writing", "valid", "deleting"}, key : Keys,
            val : Vals \cup {None, Garbled}] \cup {Torn, Invalid}
PageType == [st : Range(PageStates), kv : BoundedSeq(Entries, PageCap)]

----------------------------------------------------------------------------
\* Flash writes.

SetPage(p, s) == [op |-> "page", p |-> p, st |-> s]
Header(a, k) == [op |-> "header", p |-> a.p, i |-> a.i, key |-> k]
Data(a, v) == [op |-> "data", p |-> a.p, i |-> a.i, val |-> v]
SetState(a, s) == [op |-> "state", p |-> a.p, i |-> a.i, st |-> s]
Erase(p) == [op |-> "erase", p |-> p]
Blank(p) == [op |-> "blank", p |-> p]

\* key_value_flash_write, key_value_page_erase.  What an invalid entry said
\* is never looked at again.
Program(f, w) ==
  CASE w.op = "page" -> [f EXCEPT ![w.p].st = w.st]
    [] w.op = "header" ->
         IF w.i > Len(f[w.p].kv)
         THEN [f EXCEPT ![w.p].kv = Append(@, [st |-> "writing", key |-> w.key, val |-> None])]
         ELSE f   \* the same header over itself
    [] w.op = "data" ->
         [f EXCEPT ![w.p].kv[w.i].val = IF @ \in {None, w.val} THEN w.val ELSE Garbled]
    [] w.op = "state" ->
         [f EXCEPT ![w.p].kv[w.i] = IF w.st = "invalid" THEN Invalid ELSE [@ EXCEPT !.st = w.st]]
    [] w.op = "erase" -> [f EXCEPT ![w.p] = [st |-> "erased", kv |-> <<>>]]
    [] w.op = "blank" -> [f EXCEPT ![w.p] = [st |-> "empty", kv |-> <<>>]]

\* A function as it runs: the flash it sees, its writes, the entry it has
\* allocated and its return code.  Nothing is done after an error.
Run(f) == [flash |-> f, ws |-> <<>>, at |-> [p |-> 0, i |-> 0], ret |-> "KV_OK"]
Do(c, w) ==
  IF c.ret # "KV_OK" THEN c
  ELSE [c EXCEPT !.flash = Program(@, w), !.ws = Append(@, w)]
Fail(c, r) == IF c.ret # "KV_OK" THEN c ELSE [c EXCEPT !.ret = r]

Entry(f, a) == f[a.p].kv[a.i]

\* key_value_set_page_state, key_value_set_key_state: forward, or not at all.
SetPageState(c, p, s) ==
  IF c.ret # "KV_OK" \/ Code(PageStates, c.flash[p].st) >= Code(PageStates, s) THEN c ELSE Do(c, SetPage(p, s))
SetKeyState(c, a, s) ==
  IF c.ret # "KV_OK" THEN c
  ELSE IF Code(KeyStates, Entry(c.flash, a).st) >= Code(KeyStates, s) THEN c ELSE Do(c, SetState(a, s))

\* key_value_page_format
PageFormat(c, p) == Do(Do(c, Erase(p)), Blank(p))

\* key_value_key_write
KeyWrite(c, a, k, v) ==
  SetKeyState(Do(Do(SetPageState(c, a.p, "using"), Header(a, k)), Data(a, v)), a, "valid")

\* key_value_find_key: the first entry of key k in state s, by page and place.
Found(f, k, s) ==
  {a \in [p : Pages, i : 1 .. PageCap] :
     a.i <= Len(f[a.p].kv) /\ Entry(f, a).key = k /\ Entry(f, a).st = s}
First(A) == CHOOSE a \in A : \A b \in A : a.p < b.p \/ (a.p = b.p /\ a.i <= b.i)

\* key_value_get_page_remaining
HasRoom(f, p) == Len(f[p].kv) < PageCap
NextFree(f, p) == [p |-> p, i |-> Len(f[p].kv) + 1]

\* key_value_move_key
MoveKey_NotMarked(c, dst, src) ==
  LET e == Entry(c.flash, src)
  IN SetKeyState(KeyWrite(c, dst, e.key, e.val), src, "invalid")
MoveKey(c, dst, src) ==
  LET e == Entry(c.flash, src)
  IN SetKeyState(KeyWrite(SetKeyState(c, src, "deleting"), dst, e.key, e.val), src, "invalid")

\* The two iterators.  Slots are visited live: an entry written behind the
\* one being visited is visited in its turn.
OverPages(Op(_, _), c) == FoldLeft(Op, c, [p \in Pages |-> p])
OverSlots(Op(_, _), c, p) == FoldLeft(Op, c, [i \in 1 .. PageCap |-> [p |-> p, i |-> i]])

----------------------------------------------------------------------------
\* Compaction.

\* key_value_get_all_page_state: the pages in state s.
PagesIn(f, s) ==
  OverPages(LAMBDA found, p : IF f[p].st = s THEN Append(found, p) ELSE found, <<>>)

\* The empty pages in the order they are filled, which of them is being filled
\* and the next place in it.
DefragInfo(c) == [c |-> c, empty |-> PagesIn(c.flash, "empty"), index |-> 1, slot |-> 1]

NextEmpty(d) ==
  IF d.index < Len(d.empty) THEN [d EXCEPT !.index = @ + 1, !.slot = 1]
  ELSE [d EXCEPT !.c = Fail(@, "assert")]

\* key_value_defrag_key_cb
DefragKey(d, a) ==
  IF a.i > Len(d.c.flash[a.p].kv) \/ d.c.ret # "KV_OK" THEN d
  ELSE IF Entry(d.c.flash, a).st # "valid" THEN d
  ELSE LET e == IF d.slot <= PageCap THEN d ELSE NextEmpty(d)
       IN [e EXCEPT !.c = MoveKey(@, [p |-> e.empty[e.index], i |-> e.slot], a), !.slot = @ + 1]

DefragPage(d, p) ==
  LET moved == OverSlots(DefragKey, [d EXCEPT !.c = SetPageState(@, p, "defragging")], p)
      done == [moved EXCEPT !.c = PageFormat(@, p), !.empty = Append(@, p)]
  IN IF done.slot > PageCap THEN NextEmpty(done) ELSE done

\* key_value_defrag
Defrag(c) ==
  IF PagesIn(c.flash, "empty") = <<>> THEN Fail(c, "assert")
  ELSE FoldLeft(DefragPage, DefragInfo(c), PagesIn(c.flash, "using")).c

----------------------------------------------------------------------------
\* Allocation and the two writes of the interface.

\* key_value_alloc_space: the last empty page is kept for compaction.
AllocSpace(c) ==
  LET using == {p \in Pages : c.flash[p].st = "using" /\ HasRoom(c.flash, p)}
      empty == {p \in Pages : c.flash[p].st = "empty"}
  IN IF using # {} THEN [c EXCEPT !.at = NextFree(c.flash, Min(using))]
     ELSE IF empty = {} THEN Fail(c, "assert")
     ELSE IF Cardinality(empty) > 1 THEN [c EXCEPT !.at = NextFree(c.flash, Min(empty))]
     ELSE Fail(c, "KV_NO_ENOUGH_SPACE")

\* key_value_try_alloc
TryAlloc(c) ==
  LET a == AllocSpace(c)
  IN IF c.ret = "KV_OK" /\ a.ret = "KV_NO_ENOUGH_SPACE" THEN AllocSpace(Defrag(c)) ELSE a

\* key_value_write_key of a value
WriteKey(c, k, v) ==
  LET c1 == TryAlloc(c)
      olds == Found(c1.flash, k, "valid")
      old == First(olds)
  IN IF c1.ret # "KV_OK" THEN c1
     ELSE IF olds = {} THEN KeyWrite(c1, c1.at, k, v)
     ELSE IF Entry(c1.flash, old).val = v THEN c1
     ELSE SetKeyState(KeyWrite(SetKeyState(c1, old, "deleting"), c1.at, k, v), old, "invalid")

\* key_value_remove_key, and key_value_write_key with length 0
RemoveKey_Marks(c, k) ==
  LET olds == Found(c.flash, k, "valid")
  IN IF olds = {} THEN c ELSE SetKeyState(c, First(olds), "deleting")
RemoveKey(c, k) ==
  LET olds == Found(c.flash, k, "valid")
  IN IF olds = {} THEN c ELSE SetKeyState(c, First(olds), "invalid")

----------------------------------------------------------------------------
\* Recovery, at every start.

\* key_value_page_magic_check
MagicCheck(c) ==
  OverPages(LAMBDA d, p : IF d.flash[p].st = "erased" THEN PageFormat(d, p) ELSE d, c)

\* key_value_recovery_defragging_page_key_cb
RescueKey(c, a, e) ==
  LET roomy == {p \in Pages : HasRoom(c.flash, p)}
  IN IF roomy = {} THEN Fail(c, "assert")
     ELSE KeyWrite(c, NextFree(c.flash, Min(roomy)), e.key, e.val)

RecoverDefragKey(c, a) ==
  IF a.i > Len(c.flash[a.p].kv) THEN c
  ELSE
  LET e == Entry(c.flash, a)
      valid == Found(c.flash, e.key, "valid")
      writing == Found(c.flash, e.key, "writing")
  IN CASE e.st = "valid" ->
            SetKeyState(RescueKey(SetKeyState(c, a, "deleting"), a, e), a, "invalid")
       [] e.st = "deleting" /\ valid # {} -> SetKeyState(c, a, "invalid")
       [] e.st = "deleting" /\ valid = {} /\ writing # {} ->
            SetKeyState(MoveKey(c, First(writing), a), a, "invalid")
       [] e.st = "deleting" /\ valid = {} /\ writing = {} ->
            SetKeyState(WriteKey(c, e.key, e.val), a, "invalid")
       [] OTHER -> c

\* key_value_recovery_key_cb.  A key that was being deleted is written again;
\* its old entry stays as it is.
RecoverKey_Drops(c, a) ==
  IF a.i <= Len(c.flash[a.p].kv) /\ Entry(c.flash, a).st \in {"torn", "writing", "deleting"}
  THEN SetKeyState(c, a, "invalid") ELSE c
RecoverKey(c, a) ==
  IF a.i > Len(c.flash[a.p].kv) THEN c
  ELSE
  LET e == Entry(c.flash, a)
  IN CASE e.st \in {"torn", "writing"} -> SetKeyState(c, a, "invalid")
       [] e.st = "deleting" ->
            IF Found(c.flash, e.key, "valid") # {} THEN SetKeyState(c, a, "invalid")
            ELSE WriteKey(c, e.key, e.val)
       [] OTHER -> c

\* key_value_recovery: the pages under compaction first.
Recovery(c) ==
  LET defragged == OverPages(LAMBDA d, p :
        IF d.flash[p].st = "defragging"
        THEN PageFormat(OverSlots(RecoverDefragKey, d, p), p) ELSE d, c)
  IN OverPages(LAMBDA d, p :
        IF d.flash[p].st = "using" THEN OverSlots(RecoverKey, d, p) ELSE d, defragged)

\* key_value_init
Start(f) == Recovery(MagicCheck(Run(f)))

----------------------------------------------------------------------------
\* Behaviours.

Resting(kind) == [kind |-> kind, key |-> None, val |-> None, ret |-> "KV_OK"]

FlashOK ==
  /\ pages \in [Pages -> PageType]
  /\ op \in [kind : {"idle", "off", "start"}, key : {None}, val : {None},
             ret : {"KV_OK", "KV_NO_ENOUGH_SPACE", "assert"}]
         \cup [kind : {"write"}, key : Keys, val : Vals \cup {None},
               ret : {"KV_OK", "KV_NO_ENOUGH_SPACE", "assert"}]
  /\ crashes \in 0 .. MaxCrashes

FlashInit ==
  /\ pages = [p \in Pages |-> [st |-> "empty", kv |-> <<>>]]
  /\ todo = <<>>
  /\ op = Resting("idle")
  /\ crashes = 0

Begin(kind, k, v, c) ==
  /\ todo' = c.ws
  /\ op' = [kind |-> kind, key |-> k, val |-> v, ret |-> c.ret]
  /\ UNCHANGED <<pages, crashes>>

\* An entry that recovery has copied and left as it was.
Deleting(f) == {a \in [p : Pages, i : 1 .. PageCap] :
                  a.i <= Len(f[a.p].kv) /\ Entry(f, a).st = "deleting"}

\* The interface is used by one caller at a time.
Write(k, v) ==
  /\ op.kind = "idle"
  /\ StaleWrites \/ Deleting(pages) = {}
  /\ Begin("write", k, v, WriteKey(Run(pages), k, v))

Delete(k) ==
  /\ op.kind = "idle"
  /\ StaleWrites \/ Deleting(pages) = {}
  /\ Begin("write", k, None, RemoveKey(Run(pages), k))

FlashWrite ==
  /\ todo # <<>>
  /\ pages' = Program(pages, Head(todo))
  /\ todo' = Tail(todo)
  /\ UNCHANGED <<op, crashes>>

Returns ==
  /\ op.kind \in {"write", "start"}
  /\ todo = <<>>
  /\ op' = Resting(IF op.ret = "assert" THEN "off" ELSE "idle")
  /\ UNCHANGED <<pages, todo, crashes>>

PowerLoss ==
  /\ op.kind # "off"
  /\ crashes < MaxCrashes
  /\ crashes' = crashes + 1
  /\ op' = Resting("off")
  /\ todo' = <<>>
  /\ \/ UNCHANGED pages
     \/ /\ todo # <<>> /\ Head(todo).op = "header"
        /\ (IF \E p \in Pages : pages[p].st = "defragging" THEN "compacting" ELSE "appending")
             \in TornHeaders
        /\ Head(todo).i > Len(pages[Head(todo).p].kv)
        /\ pages' = [pages EXCEPT ![Head(todo).p].kv = Append(@, Torn)]

PowerUp ==
  /\ op.kind = "off"
  /\ Begin("start", None, None, Start(pages))

FlashNext ==
  \/ \E k \in Keys : Delete(k) \/ \E v \in Vals : Write(k, v)
  \/ FlashWrite \/ Returns \/ PowerLoss \/ PowerUp

FlashSpec == FlashInit /\ [][FlashNext]_flashVars

----------------------------------------------------------------------------
\* Properties

\* What the interface reads.
Contents(f) == [k \in Keys |->
  LET valid == Found(f, k, "valid") IN IF valid = {} THEN None ELSE Entry(f, First(valid)).val]

\* What it will read after the start under way, or after a loss of power now.
Restored(f, ws, kind) ==
  Contents(IF kind = "start" THEN FoldLeft(Program, f, ws) ELSE Start(f).flash)

\* Only one entry of a key is ever valid, so that key_value_find_key, which
\* stops at the first, has no choice (key_value.c:288-332).
OneValid == \A k \in Keys : Cardinality(Found(pages, k, "valid")) <= 1

\* Recovery fails no assertion and finds room for everything it moves, wherever
\* power was lost (key_value.c:542, 383).
RecoveryCompletes == op.kind = "start" => op.ret = "KV_OK"

\* key_value.c:781, "For defragging page, continue to finash it."
CompactionFinished == op.kind = "idle" => \A p \in Pages : pages[p].st # "defragging"

\* Between calls a page is empty, so that compaction has somewhere to start
\* (KEY_VALUE_DEFRAG_PAGE_NUM).
RoomToCompact == op.kind = "idle" => \E p \in Pages : pages[p].st = "empty"

\* No write runs out of the pages it counts on (key_value.c:383, 606, 642, 670,
\* "At least one page has been defragged").
FunctionsComplete == op.kind = "write" => op.ret # "assert"

\* What every write, compaction and recovery has to leave behind for the next one.
PagesSound ==
  /\ FlashOK /\ OneValid /\ CompactionFinished /\ RoomToCompact
  /\ RecoveryCompletes /\ FunctionsComplete

=============================================================================
