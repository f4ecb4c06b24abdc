--------------------------- MODULE OtaSyncProofs ---------------------------
(***************************************************************************)
(* What OtaSync guarantees for images of any size, any pool, any number of *)
(* lost links and of messages under way: types, that no block below the    *)
(* follower's offset is missing, and that a follower that reports to be    *)
(* done has the whole image, both unless its flash refused a block.        *)
(***************************************************************************)
EXTENDS OtaSync, SequenceTheorems, TLAPS

Has(q, id) == \E i \in 1 .. Len(q) : q[i].id = id
NoneAfter(q, i, id) == \A j \in i + 1 .. Len(q) : q[j].id # id

\* The flash of a source that has written w blocks.
Image(w) == [b \in Blocks |-> IF b < w THEN "data" ELSE "erased"]

\* The source has written its blocks in order, the rest waits in order for the
\* ota task, and nothing else does but the end.
Pending(s, i) == s.task[i] = Write(s.written + i - 1, "data") /\ s.written + i <= N
Ending(s, i) == i = Len(s.task) /\ s.task[i] = Plain("finish")
SrcSound(s) ==
  IF s.phase = "entering"
    THEN s.task = <<Plain("start")>> /\ s.written = 0 /\ s.off = 0 /\ ~s.verified
    ELSE /\ s.flash = Image(s.written)
         /\ \A i \in 1 .. Len(s.task) : Pending(s, i) \/ Ending(s, i)
         /\ s.phase = "update" =>
              \/ s.off = N
              \/ s.off = s.written + Len(s.task) /\ ~Has(s.task, "finish")
         /\ s.phase = "idle" => s.off = 0

\* Nothing of a synchronisation is left at the follower or on its way to or from it.
Idle ==
  /\ ~fol.size /\ ~fol.sync /\ fol.off = 0 /\ fol.now = 0 /\ ~fol.later /\ ~fol.stop
  /\ fol.task = <<>> /\ toSrc = <<>> /\ ~Has(toFol, "GET_DATA_RSP")

\* Before the phone first enters update mode.
Unstarted == enters = 0 => src = Source /\ toFol = <<>> /\ Idle

\* One kind of update at a time: the phone's BLE update is copied whole and may
\* be started more than once, the other fills gaps and starts once, after the
\* source's own end.
ModeOf == IF ble THEN "complete" ELSE "partial"
Clear == \A b \in Blocks : fol.flash[b] \in {"erased", "data"}
OneMode ==
  /\ \A i \in 1 .. Len(toFol) : toFol[i].id = "START" => toFol[i].mode = ModeOf
  /\ fol.size => fol.mode = ModeOf
  /\ ~ble => ~Has(fol.task, "start")
StartsOnce ==
  ~ble =>
    /\ src.phase \in {"entering", "update"} => Idle /\ ~Has(toFol, "START")
    /\ Has(toFol, "START") => Idle /\ (failed \/ (fol.handle /\ Clear))
    /\ \A i \in 1 .. Len(toFol) : toFol[i].id = "START" => NoneAfter(toFol, i, "START")

\* An answer carries what the source has written, and the last block's comes
\* after the last START.
Answers ==
  \A i \in 1 .. Len(toFol) :
    toFol[i].id = "GET_DATA_RSP" /\ toFol[i].data # "none" =>
      /\ toFol[i].data = "data" /\ toFol[i].off < src.written
      /\ toFol[i].off = N - 1 => NoneAfter(toFol, i, "START")

\* The follower at its end will not be started again.
Closed == ble /\ fol.off = N => ~Has(toFol, "START") /\ src.written = N

\* Each block below the offset is on flash, with no erase to come, or on its way
\* there after the last erase.
Queued(b) ==
  \E i \in 1 .. Len(fol.task) :
    fol.task[i] = Write(b, "data") /\ NoneAfter(fol.task, i, "start")
Kept ==
  /\ \A i \in 1 .. Len(fol.task) : fol.task[i].id = "write" => fol.task[i].data = "data"
  /\ fol.size /\ ~failed =>
       \A b \in 0 .. fol.off - 1 :
         (fol.flash[b] = "data" /\ ~Has(fol.task, "start")) \/ Queued(b)

\* What is written then is written on erased flash.
Open == fol.size /\ ~failed /\ ~Has(fol.task, "start") => fol.handle /\ Clear

\* The end of a synchronisation comes after everything else, and once.
Ends ==
  /\ fol.stop \/ Has(toSrc, "DONE_REPORT") => ~fol.size
  /\ fol.size /\ Has(fol.task, "finish") => fol.off = N
  /\ fol.size => \A i, j \in 1 .. Len(fol.task) :
                   fol.task[i].id = "finish" /\ i <= j => fol.task[j].id = "finish"
Done ==
  ~fol.size =>
    /\ ~Has(fol.task, "start")
    /\ ~Idle => /\ ~failed => fol.flash = Whole
                /\ ~fol.handle /\ ~Has(toFol, "START")
                /\ ble => src.written = N

IInv ==
  /\ TypeOK /\ Unstarted /\ SrcSound(src) /\ OneMode /\ StartsOnce /\ Answers /\ Closed
  /\ Kept /\ Open /\ Ends /\ Done

----------------------------------------------------------------------------
\* Sequences of messages: what appending, taking one and losing the last do to
\* what is in them.
LEMMA AppendFacts ==
  ASSUME NEW S, NEW q \in Seq(S), NEW m \in S
  PROVE  /\ Append(q, m) \in Seq(S) /\ Len(Append(q, m)) = Len(q) + 1 /\ Len(q) \in Nat
         /\ \A i \in 1 .. Len(q) : Append(q, m)[i] = q[i]
         /\ Append(q, m)[Len(q) + 1] = m
         /\ \A id : Has(Append(q, m), id) <=> Has(q, id) \/ m.id = id
         /\ \A id : \A i \in Nat : NoneAfter(q, i, id) /\ m.id # id => NoneAfter(Append(q, m), i, id)
         /\ \A id : NoneAfter(Append(q, m), Len(q) + 1, id)
         /\ \A id : \A i \in Nat : NoneAfter(Append(q, m), i, id) => NoneAfter(q, i, id)
  <1>1. /\ Append(q, m) \in Seq(S) /\ Len(Append(q, m)) = Len(q) + 1 /\ Len(q) \in Nat
        /\ \A i \in 1 .. Len(q) : Append(q, m)[i] = q[i]
        /\ Append(q, m)[Len(q) + 1] = m
    BY AppendProperties
  <1>2. \A i \in 1 .. Len(q) + 1 : i \in 1 .. Len(q) \/ i = Len(q) + 1
    BY <1>1
  <1>3. ASSUME NEW id PROVE Has(Append(q, m), id) <=> Has(q, id) \/ m.id = id
    <2>1. Len(q) + 1 \in 1 .. Len(q) + 1 /\ \A i \in 1 .. Len(q) : i \in 1 .. Len(q) + 1
      BY <1>1
    <2>2. Has(q, id) => Has(Append(q, m), id)
      BY <1>1, <2>1 DEF Has
    <2>3. m.id = id => Has(Append(q, m), id)
      BY <1>1, <2>1 DEF Has
    <2>4. ASSUME NEW i \in 1 .. Len(q) + 1, Append(q, m)[i].id = id PROVE Has(q, id) \/ m.id = id
      BY <1>1, <1>2, <2>4 DEF Has
    <2> QED BY <1>1, <2>2, <2>3, <2>4 DEF Has
  <1>4. ASSUME NEW i \in Nat, NEW id, NoneAfter(q, i, id), m.id # id
        PROVE  NoneAfter(Append(q, m), i, id)
    BY <1>1, <1>4 DEF NoneAfter
  <1>5. ASSUME NEW id PROVE NoneAfter(Append(q, m), Len(q) + 1, id)
    BY <1>1 DEF NoneAfter
  <1>6. ASSUME NEW i \in Nat, NEW id, NoneAfter(Append(q, m), i, id)
        PROVE  NoneAfter(q, i, id)
    BY <1>1, <1>6 DEF NoneAfter
  <1> QED BY <1>1, <1>3, <1>4, <1>5, <1>6

LEMMA TailFacts ==
  ASSUME NEW S, NEW q \in Seq(S), q # <<>>
  PROVE  /\ Tail(q) \in Seq(S) /\ Head(q) \in S /\ Len(Tail(q)) = Len(q) - 1
         /\ Len(q) \in Nat \ {0} /\ Head(q) = q[1]
         /\ \A i \in 1 .. Len(Tail(q)) : i + 1 \in 1 .. Len(q) /\ Tail(q)[i] = q[i + 1]
         /\ \A id : Has(q, id) <=> Has(Tail(q), id) \/ Head(q).id = id
         /\ \A id : \A i \in Nat : NoneAfter(q, i + 1, id) <=> NoneAfter(Tail(q), i, id)
         /\ \A id : NoneAfter(q, 1, id) <=> ~Has(Tail(q), id)
  <1>1. /\ Tail(q) \in Seq(S) /\ Head(q) \in S /\ Len(Tail(q)) = Len(q) - 1
        /\ Len(q) \in Nat \ {0} /\ Head(q) = q[1]
        /\ \A i \in 1 .. Len(Tail(q)) : Tail(q)[i] = q[i + 1]
    BY HeadTailProperties
  <1>2. /\ \A i \in 1 .. Len(Tail(q)) : i + 1 \in 1 .. Len(q)
        /\ \A i \in 1 .. Len(q) : i = 1 \/ (i - 1 \in 1 .. Len(Tail(q)) /\ (i - 1) + 1 = i)
    BY <1>1
  <1>3. ASSUME NEW id PROVE Has(q, id) <=> Has(Tail(q), id) \/ Head(q).id = id
    <2>1. 1 \in 1 .. Len(q)
      BY <1>1
    <2>2. Head(q).id = id => Has(q, id)
      BY <1>1, <2>1 DEF Has
    <2>3. ASSUME NEW i \in 1 .. Len(Tail(q)), Tail(q)[i].id = id PROVE Has(q, id)
      BY <1>1, <1>2, <2>3 DEF Has
    <2>4. ASSUME NEW i \in 1 .. Len(q), q[i].id = id, i # 1 PROVE Has(Tail(q), id)
      BY <1>1, <1>2, <2>4 DEF Has
    <2> QED BY <1>1, <2>2, <2>3, <2>4 DEF Has
  <1>4. ASSUME NEW i \in Nat, NEW id
        PROVE  NoneAfter(q, i + 1, id) <=> NoneAfter(Tail(q), i, id)
    <2>1. \A j \in (i + 1) + 1 .. Len(q) : j - 1 \in i + 1 .. Len(Tail(q)) /\ Tail(q)[j - 1] = q[j]
      BY <1>1
    <2>2. \A j \in i + 1 .. Len(Tail(q)) : j + 1 \in (i + 1) + 1 .. Len(q) /\ Tail(q)[j] = q[j + 1]
      BY <1>1
    <2> QED BY <2>1, <2>2 DEF NoneAfter
  <1>5. ASSUME NEW id PROVE NoneAfter(q, 1, id) <=> ~Has(Tail(q), id)
    <2>1. NoneAfter(q, 0 + 1, id) <=> NoneAfter(Tail(q), 0, id)
      BY <1>4
    <2> QED BY <2>1 DEF NoneAfter, Has
  <1> QED BY <1>1, <1>2, <1>3, <1>4, <1>5

LEMMA PrefixFacts ==
  ASSUME NEW S, NEW q \in Seq(S), NEW n \in 0 .. Len(q)
  PROVE  /\ SubSeq(q, 1, n) \in Seq(S) /\ Len(SubSeq(q, 1, n)) = n
         /\ \A i \in 1 .. n : i \in 1 .. Len(q) /\ SubSeq(q, 1, n)[i] = q[i]
         /\ \A id : Has(SubSeq(q, 1, n), id) => Has(q, id)
         /\ \A id : \A i \in Nat : NoneAfter(q, i, id) => NoneAfter(SubSeq(q, 1, n), i, id)
  <1>1. Len(q) \in Nat
    BY LenProperties
  <1>2. /\ SubSeq(q, 1, n) \in Seq(S) /\ Len(SubSeq(q, 1, n)) = n
        /\ \A i \in 1 .. n : i \in 1 .. Len(q) /\ SubSeq(q, 1, n)[i] = q[i]
    BY <1>1
  <1> QED BY <1>1, <1>2 DEF Has, NoneAfter

LEMMA EmptyFacts == \A id : ~Has(<<>>, id) /\ \A i \in Nat : NoneAfter(<<>>, i, id)
  BY DEF Has, NoneAfter

----------------------------------------------------------------------------
LEMMA Shapes ==
  /\ \A m \in FolMsgs :
       /\ m.id \in {"STOP", "REBOOT", "START", "GET_DATA_RSP"}
       /\ m.id = "START" => m.mode \in Modes
       /\ m.id = "GET_DATA_RSP" => m.off \in Blocks /\ m.data \in Pages \cup {"none"}
  /\ \A m \in SrcMsgs :
       m.id \in {"DONE_REPORT", "GET_DATA_REQ"} /\ (m.id = "GET_DATA_REQ" => m.off \in Blocks)
  /\ \A m \in TaskMsgs :
       /\ m.id \in {"start", "finish", "write"}
       /\ m.id = "write" => m.off \in Blocks /\ m.data \in Pages /\ m = Write(m.off, m.data)
       /\ m.id # "write" => m = Plain(m.id)
  BY DEF FolMsgs, SrcMsgs, TaskMsgs, Write, Plain

LEMMA Made ==
  /\ Plain("STOP") \in FolMsgs /\ Plain("REBOOT") \in FolMsgs
  /\ Plain("DONE_REPORT") \in SrcMsgs /\ Plain("start") \in TaskMsgs /\ Plain("finish") \in TaskMsgs
  /\ \A id : Plain(id).id = id
  /\ \A m \in Modes : Start(m) \in FolMsgs /\ Start(m).id = "START" /\ Start(m).mode = m
  /\ \A b \in Blocks, d \in Pages \cup {"none"} :
       /\ Rsp(b, d) \in FolMsgs /\ Rsp(b, d).id = "GET_DATA_RSP" /\ Rsp(b, d).off = b
       /\ Rsp(b, d).data = d
  /\ \A b \in Blocks : Req(b) \in SrcMsgs /\ Req(b).id = "GET_DATA_REQ"
  /\ \A b \in Blocks, d \in Pages : Write(b, d) \in TaskMsgs
  /\ \A b, d : Write(b, d).id = "write" /\ Write(b, d).off = b /\ Write(b, d).data = d
  BY DEF FolMsgs, SrcMsgs, TaskMsgs, Write, Plain, Start, Rsp, Req, Pages

----------------------------------------------------------------------------
\* A step of the source that may tell the follower to stop, to restart or to
\* resume, but does not answer it.
LEMMA SourceSide ==
  ASSUME IInv, UNCHANGED <<fol, toSrc, ble, failed>>, src' \in SrcType, SrcSound(src'),
         link' \in BOOLEAN, enters' \in 1 .. MaxEnters, drops' \in 0 .. MaxDrops,
         gap' \subseteq {"lapse", "stop"}, src'.written >= src.written,
         ~ble /\ src'.phase \in {"entering", "update"} => Idle /\ ~Has(toFol, "START"),
         \/ toFol' = toFol
         \/ \E id \in {"STOP", "REBOOT"} : toFol' = Append(toFol, Plain(id))
         \/ toFol' = Append(toFol, Start("complete")) /\ ble /\ src.written < N
  PROVE  IInv'
  <1>1. /\ toFol \in Seq(FolMsgs) /\ src.written \in 0 .. N /\ src'.written \in 0 .. N /\ N \in Nat \ {0}
        /\ fol \in FolType /\ ble \in BOOLEAN
    BY OtaSyncAssumption DEF IInv, TypeOK, SrcType
  <1> DEFINE Added(m) == toFol' = Append(toFol, m) /\ m \in FolMsgs
                           /\ m.id \in {"STOP", "REBOOT", "START"}
  <1>2. \/ toFol' = toFol
        \/ \E m : Added(m) /\ (m.id = "START" => m.mode = "complete" /\ ble /\ src.written < N)
    BY Made DEF Modes
  <1>3. PICK m : \/ toFol' = toFol
                 \/ Added(m) /\ (m.id = "START" => m.mode = "complete" /\ ble /\ src.written < N)
    BY <1>2
  <1>4. CASE toFol' = toFol
    <2>1. Idle' = Idle
      BY <1>4 DEF Idle
    <2>2. TypeOK'
      BY <1>1, <1>4 DEF IInv, TypeOK
    <2>3. Unstarted' /\ SrcSound(src)'
      BY DEF Unstarted
    <2>4. OneMode' /\ StartsOnce'
      BY <1>4, <2>1 DEF IInv, OneMode, ModeOf, StartsOnce, Clear
    <2>5. Answers'
      <3>1. SUFFICES ASSUME NEW i \in 1 .. Len(toFol), toFol[i].id = "GET_DATA_RSP", toFol[i].data # "none"
                     PROVE  /\ toFol[i].data = "data" /\ toFol[i].off < src'.written
                            /\ toFol[i].off = N - 1 => NoneAfter(toFol, i, "START")
        BY <1>4 DEF Answers
      <3>2. toFol[i] \in FolMsgs
        BY <1>1
      <3>3. /\ toFol[i].data = "data" /\ toFol[i].off < src.written /\ toFol[i].off \in Blocks
            /\ toFol[i].off = N - 1 => NoneAfter(toFol, i, "START")
        BY <3>1, <3>2, Shapes DEF IInv, Answers
      <3> QED BY <1>1, <3>3 DEF Blocks
    <2>6. Closed' /\ Kept' /\ Open' /\ Ends'
      BY <1>1, <1>4 DEF IInv, Closed, Kept, Queued, Open, Ends, Clear
    <2>7. Done'
      BY <1>1, <1>4, <2>1 DEF IInv, Done
    <2> QED BY <2>2, <2>3, <2>4, <2>5, <2>6, <2>7 DEF IInv
  <1>5. CASE Added(m) /\ (m.id = "START" => m.mode = "complete" /\ ble /\ src.written < N)
    <2>1. /\ toFol' \in Seq(FolMsgs) /\ Len(toFol') = Len(toFol) + 1 /\ Len(toFol) \in Nat
          /\ \A i \in 1 .. Len(toFol) : toFol'[i] = toFol[i]
          /\ toFol'[Len(toFol) + 1] = m
          /\ \A id : Has(toFol', id) <=> Has(toFol, id) \/ m.id = id
          /\ \A id : \A i \in Nat : NoneAfter(toFol, i, id) /\ m.id # id => NoneAfter(toFol', i, id)
          /\ \A id : NoneAfter(toFol', Len(toFol) + 1, id)
      BY <1>1, <1>5, AppendFacts
    <2>2. \A i \in 1 .. Len(toFol') : i \in 1 .. Len(toFol) \/ i = Len(toFol) + 1
      BY <2>1
    <2>3. Idle' = Idle
      BY <1>5, <2>1 DEF Idle
    <2>4. TypeOK'
      BY <1>1, <2>1 DEF IInv, TypeOK
    <2>5. Unstarted' /\ SrcSound(src)'
      BY DEF Unstarted
    <2>6. OneMode'
      BY <1>5, <2>1, <2>2 DEF IInv, OneMode, ModeOf
    <2>7. StartsOnce'
      BY <1>5, <2>1, <2>2, <2>3 DEF IInv, StartsOnce, Clear
    <2>8. Answers'
      <3>1. SUFFICES ASSUME NEW i \in 1 .. Len(toFol'), toFol'[i].id = "GET_DATA_RSP", toFol'[i].data # "none"
                     PROVE  /\ toFol'[i].data = "data" /\ toFol'[i].off < src'.written
                            /\ toFol'[i].off = N - 1 => NoneAfter(toFol', i, "START")
        BY DEF Answers
      <3>2. i \in 1 .. Len(toFol) /\ toFol'[i] = toFol[i] /\ toFol[i] \in FolMsgs
        BY <1>1, <1>5, <2>1, <2>2, <3>1
      <3>3. /\ toFol[i].data = "data" /\ toFol[i].off < src.written /\ toFol[i].off \in Blocks
            /\ toFol[i].off = N - 1 => NoneAfter(toFol, i, "START")
        BY <3>1, <3>2, Shapes DEF IInv, Answers
      <3>4. toFol[i].off < src'.written
        BY <1>1, <3>3 DEF Blocks
      <3>5. toFol[i].off = N - 1 => m.id # "START"
        BY <1>1, <1>5, <3>3
      <3> QED BY <2>1, <3>2, <3>3, <3>4, <3>5
    <2>9. Closed' /\ Kept' /\ Open' /\ Ends'
      BY SMTT(60), <1>1, <1>5, <2>1 DEF IInv, Closed, Kept, Queued, Open, Ends, Clear
    <2>10. Done'
      BY <1>1, <1>5, <2>1, <2>3 DEF IInv, Done
    <2> QED BY <2>4, <2>5, <2>6, <2>7, <2>8, <2>9, <2>10 DEF IInv
  <1> QED BY <1>3, <1>4, <1>5

----------------------------------------------------------------------------
\* The updates of the source.
LEMMA SrcSet ==
  ASSUME NEW s \in SrcType
  PROVE  /\ s.off \in 0 .. N /\ s.written \in 0 .. N /\ s.task \in Seq(TaskMsgs)
         /\ s.flash \in [Blocks -> Pages]
         /\ s.phase \in {"idle", "entering", "update", "rebooting"}
         /\ N \in Nat \ {0} /\ MaxEnters \in Nat /\ MaxDrops \in Nat
  BY OtaSyncAssumption DEF SrcType

LEMMA SyncStartFacts ==
  ASSUME NEW s \in SrcType, NEW m, SyncStart(s, m), link \in BOOLEAN
  PROVE  /\ src' \in SrcType /\ (SrcSound(s) => SrcSound(src'))
         /\ src'.written = s.written /\ src'.phase = s.phase
         /\ toFol' = toFol \/ toFol' = Append(toFol, Start(m))
  <1> DEFINE y == IF link THEN TRUE ELSE s.sync
  <1>1. y \in BOOLEAN
    BY DEF SrcType
  <1>2. src' = [s EXCEPT !.size = TRUE, !.sync = y]
    BY DEF SyncStart, SrcType
  <1> HIDE DEF y
  <1>3. /\ src' \in SrcType /\ src'.written = s.written /\ src'.phase = s.phase /\ src'.flash = s.flash
        /\ src'.task = s.task /\ src'.off = s.off /\ src'.verified = s.verified
    BY <1>1, <1>2 DEF SrcType
  <1>4. SrcSound(s) => SrcSound(src')
    BY <1>3 DEF SrcSound, Pending, Ending
  <1> QED BY <1>3, <1>4 DEF SyncStart, Sent

LEMMA EnterStep == IInv /\ Enter => IInv'
  <1> SUFFICES ASSUME IInv, Enter PROVE IInv'
    OBVIOUS
  <1> DEFINE resume == src.phase = "update" /\ src.off > 0
             a == [src EXCEPT !.phase = "entering", !.off = 0, !.verified = FALSE,
                              !.task = Append(@, Plain("start"))]
             s == IF resume THEN src ELSE a
  <1>1. /\ src \in SrcType /\ SrcSound(src) /\ link \in BOOLEAN /\ ble \in BOOLEAN
        /\ enters \in Nat /\ enters' \in 1 .. MaxEnters
        /\ UNCHANGED <<fol, toSrc, ble, failed, link, drops, gap>>
        /\ drops \in 0 .. MaxDrops /\ gap \subseteq {"lapse", "stop"}
    BY OtaSyncAssumption DEF IInv, TypeOK, Enter
  <1>2. ~resume => enters = 0 /\ src = Source
    <2>1. src.phase = "update" /\ src.off < N => src.off > 0 \/ src.off = 0
      BY <1>1, SrcSet
    <2>2. src.phase = "idle" => src.off = 0
      BY DEF IInv, SrcSound
    <2>3. enters = 0 => src = Source
      BY DEF IInv, Unstarted
    <2> QED BY <1>1, <2>1, <2>2, <2>3, SrcSet DEF Enter
  <1>3. resume => src.written < N
    <2>1. resume => src.off < N /\ src.off = src.written + Len(src.task)
      BY <1>1, SrcSet DEF Enter, SrcSound
    <2> QED BY <1>1, <2>1, SrcSet, LenProperties
  <1>4. s \in SrcType /\ SrcSound(s) /\ s.written = src.written
    <2>1. ~resume => /\ a \in SrcType /\ a.phase = "entering" /\ a.off = 0 /\ ~a.verified
                     /\ a.task = <<Plain("start")>> /\ a.written = 0 /\ src.written = 0
      <3>1. ~resume => Append(src.task, Plain("start")) = <<Plain("start")>> /\ src.written = 0
        <4> DEFINE p == Plain("start")
        <4>1. Append(<<>>, p) = <<p>>
          OBVIOUS
        <4>2. ~resume => src.task = <<>> /\ src.written = 0
          BY <1>2 DEF Source
        <4> HIDE DEF p, resume
        <4>3. ~resume => Append(src.task, p) = <<p>>
          BY <4>1, <4>2
        <4> QED BY <4>2, <4>3 DEF p
      <3>2. <<Plain("start")>> \in Seq(TaskMsgs)
        BY Made
      <3> QED BY <1>1, <3>1, <3>2, SrcSet DEF SrcType
    <2> QED BY <1>1, <2>1 DEF SrcSound
  <1>5. src.written < N
    BY <1>2, <1>3, SrcSet, <1>1 DEF Source
  <1>6. ~ble => Idle /\ ~Has(toFol, "START")
    <2>1. enters = 0 => Idle /\ toFol = <<>>
      BY DEF IInv, Unstarted
    <2> QED BY <1>2, <2>1, EmptyFacts DEF IInv, StartsOnce
  <1> HIDE DEF s, resume
  <1>7. /\ src' \in SrcType /\ SrcSound(src') /\ src'.written = src.written
        /\ toFol' = toFol \/ (toFol' = Append(toFol, Start("complete")) /\ ble)
    <2>1. CASE ble
      <3>1. SyncStart(s, "complete")
        BY <2>1 DEF Enter, s, resume
      <3> QED BY <1>1, <1>4, <2>1, <3>1, SyncStartFacts
    <2>2. CASE ~ble
      <3>1. src' = s /\ UNCHANGED toFol
        BY <2>2 DEF Enter, s, resume
      <3> QED BY <1>4, <3>1
    <2> QED BY <2>1, <2>2
  <1>8. src'.written >= src.written
    BY <1>7, <1>1, SrcSet
  <1> QED BY <1>1, <1>5, <1>6, <1>7, <1>8, SourceSide

LEMMA BlockStep == IInv /\ Block => IInv'
  <1> SUFFICES ASSUME IInv, Block PROVE IInv'
    OBVIOUS
  <1>1. /\ src \in SrcType /\ SrcSound(src) /\ link \in BOOLEAN /\ ble \in BOOLEAN
        /\ enters \in 0 .. MaxEnters /\ src.phase = "update" /\ src.off < N /\ enters' = enters
        /\ UNCHANGED <<fol, toFol, toSrc, ble, failed, link, drops, gap>>
        /\ drops \in 0 .. MaxDrops /\ gap \subseteq {"lapse", "stop"}
    BY DEF IInv, TypeOK, Block
  <1>2. enters # 0
    BY <1>1 DEF IInv, Unstarted, Source
  <1>3. src.off \in Blocks /\ src.off + 1 \in 0 .. N
    BY <1>1, SrcSet DEF Blocks
  <1> DEFINE t == Append(src.task, Write(src.off, "data"))
  <1>4. /\ t \in Seq(TaskMsgs) /\ Len(t) = Len(src.task) + 1 /\ Len(src.task) \in Nat
        /\ \A i \in 1 .. Len(src.task) : t[i] = src.task[i]
        /\ t[Len(src.task) + 1] = Write(src.off, "data")
        /\ \A id : Has(t, id) <=> Has(src.task, id) \/ "write" = id
    <2>1. "data" \in Pages
      BY DEF Pages
    <2>2. Write(src.off, "data") \in TaskMsgs /\ Write(src.off, "data").id = "write"
      BY <1>3, <2>1, Made
    <2>3. src.task \in Seq(TaskMsgs)
      BY <1>1, SrcSet
    <2> QED BY <2>2, <2>3, AppendFacts
  <1>5. src' = [src EXCEPT !.off = src.off + 1, !.task = t]
    BY <1>1 DEF Block, SrcType
  <1> HIDE DEF t
  <1>6. /\ src' \in SrcType /\ src'.off = src.off + 1 /\ src'.task = t /\ src'.flash = src.flash
        /\ src'.written = src.written /\ src'.phase = src.phase
    BY <1>1, <1>3, <1>4, <1>5 DEF SrcType
  <1>7. SrcSound(src')
    <2>1. /\ src.off = src.written + Len(src.task) /\ ~Has(src.task, "finish")
          /\ src.flash = Image(src.written)
      BY <1>1, SrcSet DEF SrcSound
    <2>2. \A i \in 1 .. Len(src.task) : Pending(src, i)
      <3>1. \A i \in 1 .. Len(src.task) : ~Ending(src, i)
        BY <2>1, Made DEF Ending, Has
      <3> QED BY <1>1, <3>1 DEF SrcSound
    <2>3. ASSUME NEW i \in 1 .. Len(t) PROVE Pending(src', i)
      <3>1. CASE i \in 1 .. Len(src.task)
        BY <1>4, <1>6, <2>2, <3>1 DEF Pending
      <3>2. CASE i = Len(src.task) + 1
        <4>1. src.written + i - 1 = src.off /\ src.written + i <= N
          BY SMTT(60), <1>1, <1>4, <2>1, <3>2, SrcSet
        <4> QED BY <1>4, <1>6, <3>2, <4>1 DEF Pending
      <3> QED BY <1>4, <3>1, <3>2
    <2>4. src'.off = src'.written + Len(t)
      BY <1>1, <1>4, <1>6, <2>1, SrcSet
    <2> QED BY <1>1, <1>4, <1>6, <2>1, <2>3, <2>4 DEF SrcSound
  <1>8. ~ble => Idle /\ ~Has(toFol, "START")
    BY <1>1 DEF IInv, StartsOnce
  <1>9. src'.written >= src.written /\ enters' \in 1 .. MaxEnters
    BY <1>1, <1>2, <1>6, SrcSet
  <1> QED BY <1>1, <1>6, <1>7, <1>8, <1>9, SourceSide

LEMMA FinishStep == IInv /\ Finish => IInv'
  <1> SUFFICES ASSUME IInv, Finish PROVE IInv'
    OBVIOUS
  <1>1. /\ src \in SrcType /\ SrcSound(src) /\ link \in BOOLEAN /\ ble \in BOOLEAN
        /\ enters \in 0 .. MaxEnters /\ src.phase = "update" /\ src.off = N /\ enters' = enters
        /\ UNCHANGED <<fol, toFol, toSrc, ble, failed, link, drops, gap>>
        /\ drops \in 0 .. MaxDrops /\ gap \subseteq {"lapse", "stop"}
    BY DEF IInv, TypeOK, Finish
  <1>2. enters # 0
    BY <1>1 DEF IInv, Unstarted, Source
  <1> DEFINE t == Append(src.task, Plain("finish"))
  <1>3. /\ t \in Seq(TaskMsgs) /\ Len(t) = Len(src.task) + 1 /\ Len(src.task) \in Nat
        /\ \A i \in 1 .. Len(src.task) : t[i] = src.task[i]
        /\ t[Len(src.task) + 1] = Plain("finish")
    <2>1. Plain("finish") \in TaskMsgs /\ src.task \in Seq(TaskMsgs)
      BY <1>1, Made, SrcSet
    <2> QED BY <2>1, AppendFacts
  <1>4. src' = [src EXCEPT !.task = t]
    BY DEF Finish
  <1>5. \A i \in 1 .. Len(src.task) : src.task[i] # Plain("finish")
    BY <1>1, <1>3, SrcSet, LenProperties DEF Finish
  <1> HIDE DEF t
  <1>6. /\ src' \in SrcType /\ src'.off = src.off /\ src'.task = t /\ src'.flash = src.flash
        /\ src'.written = src.written /\ src'.phase = src.phase
    BY <1>1, <1>3, <1>4 DEF SrcType
  <1>7. SrcSound(src')
    <2>1. \A i \in 1 .. Len(src.task) : Pending(src, i)
      BY <1>1, <1>5 DEF SrcSound, Ending
    <2>2. ASSUME NEW i \in 1 .. Len(t) PROVE Pending(src', i) \/ Ending(src', i)
      <3>1. CASE i \in 1 .. Len(src.task)
        BY <1>3, <1>6, <2>1, <3>1 DEF Pending
      <3>2. CASE i = Len(src.task) + 1
        BY <1>3, <1>6, <3>2 DEF Ending
      <3> QED BY <1>3, <3>1, <3>2
    <2> QED BY <1>1, <1>6, <2>2 DEF SrcSound
  <1>8. ~ble => Idle /\ ~Has(toFol, "START")
    BY <1>1 DEF IInv, StartsOnce
  <1>9. src'.written >= src.written /\ enters' \in 1 .. MaxEnters
    BY <1>1, <1>2, <1>6, SrcSet
  <1> QED BY <1>1, <1>6, <1>7, <1>8, <1>9, SourceSide

LEMMA ExitStep == IInv /\ Exit => IInv'
  <1> SUFFICES ASSUME IInv, Exit PROVE IInv'
    OBVIOUS
  <1>1. /\ src \in SrcType /\ SrcSound(src) /\ link \in BOOLEAN /\ ble \in BOOLEAN
        /\ enters \in 0 .. MaxEnters /\ src.phase = "update" /\ enters' = enters
        /\ UNCHANGED <<fol, toSrc, ble, failed, link, drops>>
        /\ drops \in 0 .. MaxDrops /\ gap' \subseteq {"lapse", "stop"}
        /\ toFol' = toFol \/ toFol' = Append(toFol, Plain("STOP"))
        /\ src' = [src EXCEPT !.phase = "idle", !.off = 0, !.sync = FALSE]
    BY DEF IInv, TypeOK, Exit, Sent
  <1>2. enters # 0
    BY <1>1 DEF IInv, Unstarted, Source
  <1>3. /\ src' \in SrcType /\ src'.off = 0 /\ src'.task = src.task /\ src'.flash = src.flash
        /\ src'.written = src.written /\ src'.phase = "idle"
    <2>1. 0 \in 0 .. N
      BY <1>1, SrcSet
    <2> QED BY <1>1, <2>1 DEF SrcType
  <1>4. SrcSound(src')
    BY <1>1, <1>3 DEF SrcSound, Pending, Ending
  <1>5. src'.written >= src.written /\ enters' \in 1 .. MaxEnters
    BY <1>1, <1>2, <1>3, SrcSet
  <1> QED BY <1>1, <1>3, <1>4, <1>5, SourceSide

LEMMA RebootStep == IInv /\ Reboot => IInv'
  <1> SUFFICES ASSUME IInv, Reboot PROVE IInv'
    OBVIOUS
  <1>1. /\ src \in SrcType /\ SrcSound(src) /\ link \in BOOLEAN /\ ble \in BOOLEAN
        /\ enters \in 0 .. MaxEnters /\ src.verified /\ enters' = enters
        /\ UNCHANGED <<fol, toSrc, ble, failed, link, drops, gap>>
        /\ drops \in 0 .. MaxDrops /\ gap \subseteq {"lapse", "stop"}
        /\ toFol' = toFol \/ toFol' = Append(toFol, Plain("REBOOT"))
        /\ src' = [src EXCEPT !.phase = "rebooting"]
    BY DEF IInv, TypeOK, Reboot, Sent
  <1>2. enters # 0
    BY <1>1 DEF IInv, Unstarted, Source
  <1>3. /\ src' \in SrcType /\ src'.off = src.off /\ src'.task = src.task /\ src'.flash = src.flash
        /\ src'.written = src.written /\ src'.phase = "rebooting"
    BY <1>1 DEF SrcType
  <1>4. SrcSound(src')
    BY <1>1, <1>3 DEF SrcSound, Pending, Ending
  <1>5. src'.written >= src.written /\ enters' \in 1 .. MaxEnters
    BY <1>1, <1>2, <1>3, SrcSet
  <1> QED BY <1>1, <1>3, <1>4, <1>5, SourceSide

----------------------------------------------------------------------------
\* The source's end sets the follower going, whatever the follower has overheard.
LEMMA Overheard ==
  ASSUME IInv, UNCHANGED <<toSrc, ble, link, drops, enters, gap>>, src' \in SrcType, SrcSound(src'),
         enters # 0, ~ble, src.phase = "update", src'.phase = "idle", failed' = ~fol'.handle,
         toFol' = toFol \/ toFol' = Append(toFol, Start("partial")),
         NEW heard \in SUBSET Blocks, NEW begun \in BOOLEAN,
         fol' = [fol EXCEPT !.handle = begun, !.started = begun,
                   !.flash = IF ~begun THEN @
                             ELSE [b \in Blocks |-> IF b \in heard THEN "data" ELSE "erased"]]
  PROVE  IInv'
  <1>1. fol \in FolType /\ toFol \in Seq(FolMsgs) /\ ble \in BOOLEAN
    BY DEF IInv, TypeOK
  <1>2. Idle /\ ~Has(toFol, "START")
    BY DEF IInv, StartsOnce
  <1> DEFINE g == IF ~begun THEN fol.flash ELSE [b \in Blocks |-> IF b \in heard THEN "data" ELSE "erased"]
  <1>3. g \in [Blocks -> Pages] /\ (begun => \A b \in Blocks : g[b] \in {"erased", "data"})
    BY <1>1 DEF FolType, Pages
  <1>4. fol' = [fol EXCEPT !.handle = begun, !.started = begun, !.flash = g]
    BY <1>1 DEF FolType
  <1> HIDE DEF g
  <1>5. /\ fol' \in FolType /\ fol'.handle = begun /\ fol'.flash = g /\ fol'.size = fol.size
        /\ fol'.sync = fol.sync /\ fol'.off = fol.off /\ fol'.now = fol.now /\ fol'.later = fol.later
        /\ fol'.stop = fol.stop /\ fol'.task = fol.task /\ fol'.mode = fol.mode
    <2>1. fol' \in FolType
      <3>1. begun \in BOOLEAN /\ g \in [Blocks -> Pages]
        BY <1>3
      <3> QED BY <1>1, <1>4, <3>1, ZenonT(40) DEF FolType
    <2>2. fol'.handle = begun /\ fol'.flash = g
      BY <1>1, <1>4 DEF FolType
    <2>3. /\ fol'.size = fol.size /\ fol'.sync = fol.sync /\ fol'.off = fol.off
          /\ fol'.now = fol.now /\ fol'.later = fol.later
      BY <1>1, <1>4 DEF FolType
    <2>4. fol'.stop = fol.stop /\ fol'.task = fol.task /\ fol'.mode = fol.mode
      BY <1>1, <1>4 DEF FolType
    <2> QED BY <2>1, <2>2, <2>3, <2>4
  <1>6. failed' \in BOOLEAN /\ (failed' \/ (fol'.handle /\ Clear'))
    BY <1>3, <1>5 DEF Clear
  <1> DEFINE m == Start("partial")
  <1>7. m \in FolMsgs /\ m.id = "START" /\ m.mode = "partial"
    BY Made DEF Modes
  <1> HIDE DEF m
  <1>8. /\ toFol' \in Seq(FolMsgs) /\ ~Has(toFol', "GET_DATA_RSP")
        /\ \A i \in 1 .. Len(toFol') : toFol'[i].id = "START" =>
              toFol'[i].mode = "partial" /\ NoneAfter(toFol', i, "START")
    <2>1. CASE toFol' = toFol
      BY <1>1, <1>2, <2>1 DEF Idle, Has
    <2>2. CASE toFol' = Append(toFol, m)
      <3>1. /\ toFol' \in Seq(FolMsgs) /\ Len(toFol') = Len(toFol) + 1 /\ Len(toFol) \in Nat
            /\ \A i \in 1 .. Len(toFol) : toFol'[i] = toFol[i]
            /\ toFol'[Len(toFol) + 1] = m
            /\ \A id : Has(toFol', id) <=> Has(toFol, id) \/ m.id = id
            /\ \A id : NoneAfter(toFol', Len(toFol) + 1, id)
        BY <1>1, <1>7, <2>2, AppendFacts
      <3>2. \A i \in 1 .. Len(toFol) : toFol'[i].id # "START"
        BY <1>2, <3>1 DEF Has
      <3>3. \A i \in 1 .. Len(toFol') : toFol'[i].id = "START" => i = Len(toFol) + 1
        BY <3>1, <3>2
      <3> QED BY <1>2, <1>7, <3>1, <3>3 DEF Idle
    <2> QED BY <2>1, <2>2 DEF m
  <1>9. Idle'
    BY <1>2, <1>5, <1>8 DEF Idle
  <1>10. TypeOK'
    BY <1>5, <1>6, <1>8 DEF IInv, TypeOK
  <1>11. Unstarted' /\ SrcSound(src)'
    BY DEF Unstarted
  <1>12. OneMode' /\ StartsOnce'
    BY <1>1, <1>2, <1>5, <1>6, <1>8, <1>9, EmptyFacts DEF OneMode, ModeOf, StartsOnce, Idle
  <1>13. Answers' /\ Closed'
    BY <1>8 DEF Answers, Closed, Has
  <1>14. Kept' /\ Open' /\ Ends' /\ Done'
    BY <1>9, EmptyFacts DEF Kept, Open, Ends, Done, Idle
  <1> QED BY <1>10, <1>11, <1>12, <1>13, <1>14 DEF IInv

\* The source's ota task erases, writes a block or ends.
LEMMA SrcTaskStep == IInv /\ SrcTask => IInv'
  <1> SUFFICES ASSUME IInv, SrcTask PROVE IInv'
    OBVIOUS
  <1> DEFINE m == Head(src.task)
             t == Tail(src.task)
             s == [src EXCEPT !.task = Tail(@)]
  <1>1. /\ src \in SrcType /\ SrcSound(src) /\ link \in BOOLEAN /\ ble \in BOOLEAN /\ fol \in FolType
        /\ enters \in 0 .. MaxEnters /\ enters' = enters /\ src.task # <<>>
        /\ UNCHANGED <<toSrc, ble, link, drops, gap>>
        /\ drops \in 0 .. MaxDrops /\ gap \subseteq {"lapse", "stop"}
    BY DEF IInv, TypeOK, SrcTask
  <1>2. enters # 0 /\ enters' \in 1 .. MaxEnters
    <2>1. enters # 0
      BY <1>1 DEF IInv, Unstarted, Source
    <2> QED BY <1>1, <2>1, SrcSet
  <1>3. /\ t \in Seq(TaskMsgs) /\ m \in TaskMsgs /\ Len(t) = Len(src.task) - 1
        /\ Len(src.task) \in Nat \ {0} /\ m = src.task[1]
        /\ \A i \in 1 .. Len(t) : i + 1 \in 1 .. Len(src.task) /\ t[i] = src.task[i + 1]
        /\ \A id : Has(src.task, id) <=> Has(t, id) \/ m.id = id
    <2>1. src.task \in Seq(TaskMsgs)
      BY <1>1, SrcSet
    <2> QED BY <1>1, <2>1, TailFacts
  <1>4. 1 \in 1 .. Len(src.task)
    BY <1>3
  <1>5. s \in SrcType /\ s.task = t /\ s.written = src.written /\ s.phase = src.phase
        /\ s.flash = src.flash /\ s.off = src.off /\ s.verified = src.verified
    BY <1>1, <1>3 DEF SrcType
  <1>6. src.phase # "entering" =>
          /\ \A i \in 1 .. Len(t) : (t[i] = Write(src.written + i, "data") /\ src.written + i + 1 <= N)
                                   \/ Ending(s, i)
          /\ m.id = "write" => m = Write(src.written, "data") /\ src.written + 1 <= N
          /\ m.id # "start"
          /\ m.id = "finish" => t = <<>>
    <2>1. ASSUME src.phase # "entering", NEW i \in 1 .. Len(t)
          PROVE  (t[i] = Write(src.written + i, "data") /\ src.written + i + 1 <= N) \/ Ending(s, i)
      <3>1. Pending(src, i + 1) \/ Ending(src, i + 1)
        BY <1>1, <1>3, <2>1 DEF SrcSound
      <3>2. src.written + (i + 1) - 1 = src.written + i /\ src.written + (i + 1) = src.written + i + 1
        BY <1>1, SrcSet
      <3>3. i + 1 = Len(src.task) => i = Len(t)
        BY <1>3
      <3> QED BY <1>3, <1>5, <3>1, <3>2, <3>3 DEF Pending, Ending
    <2>2. src.phase # "entering" => Pending(src, 1) \/ Ending(src, 1)
      BY <1>1, <1>4 DEF SrcSound
    <2>3. Pending(src, 1) => m = Write(src.written, "data") /\ src.written + 1 <= N /\ m.id = "write"
      <3>1. src.written + 1 - 1 = src.written
        BY <1>1, SrcSet
      <3> QED BY <1>3, <3>1, Made DEF Pending
    <2>4. Ending(src, 1) => m.id = "finish" /\ t = <<>>
      <3>1. Ending(src, 1) => Len(t) = 0 /\ m.id = "finish"
        BY <1>3, Made DEF Ending
      <3> QED BY <1>3, <3>1, EmptySeq
    <2> QED BY <2>1, <2>2, <2>3, <2>4
  <1> HIDE DEF m, t, s
  <1>7. CASE m.id = "start"
    <2>1. src.phase = "entering"
      BY <1>6, <1>7
    <2>2. src.task = <<Plain("start")>> /\ src.written = 0 /\ src.off = 0 /\ t = <<>>
      <3>1. src.task = <<Plain("start")>> /\ src.written = 0 /\ src.off = 0
        BY <1>1, <2>1 DEF SrcSound
      <3> QED BY <3>1 DEF t
    <2>3. /\ src' = [s EXCEPT !.written = 0, !.flash = [b \in Blocks |-> "erased"], !.phase = "update"]
          /\ UNCHANGED <<fol, toFol, failed>>
      BY <1>1, <1>5, <1>7, <2>1 DEF SrcTask, m, s
    <2>4. [b \in Blocks |-> "erased"] \in [Blocks -> Pages] /\ 0 \in 0 .. N
      BY <1>1, SrcSet DEF Pages
    <2>5. /\ src' \in SrcType /\ src'.written = 0 /\ src'.flash = [b \in Blocks |-> "erased"]
          /\ src'.phase = "update" /\ src'.task = <<>> /\ src'.off = 0
      BY <1>5, <2>2, <2>3, <2>4 DEF SrcType
    <2>6. SrcSound(src')
      <3>1. src'.flash = Image(0)
        BY <2>5 DEF Image, Blocks
      <3>2. Len(src'.task) = 0 /\ ~Has(src'.task, "finish")
        BY <2>5, EmptyFacts
      <3> QED BY <2>5, <3>1, <3>2 DEF SrcSound
    <2>7. ~ble => Idle /\ ~Has(toFol, "START")
      BY <2>1 DEF IInv, StartsOnce
    <2>8. src'.written >= src.written
      BY <2>2, <2>5
    <2> QED BY <1>1, <1>2, <2>3, <2>5, <2>6, <2>7, <2>8, SourceSide
  <1>8. CASE m.id = "write"
    <2>1. src.phase # "entering"
      <3>1. src.phase = "entering" => m.id = "start"
        BY <1>1, <1>3, Made DEF SrcSound
      <3> QED BY <1>8, <3>1
    <2>2. m.off = src.written /\ m.data = "data" /\ src.written + 1 \in 0 .. N /\ src.written \in Blocks
          /\ src.written \in 0 .. N
      BY <1>1, <1>6, <1>8, <2>1, Made, SrcSet DEF Blocks
    <2> DEFINE g == [src.flash EXCEPT ![src.written] = Programmed(@, "data")]
    <2>3. /\ src' = [s EXCEPT !.written = src.written + 1, !.flash = g]
          /\ UNCHANGED <<fol, toFol, failed>>
      BY <1>1, <1>5, <1>8, <2>2 DEF SrcTask, m, s
    <2>4. src.flash = Image(src.written)
      BY <1>1, <2>1 DEF SrcSound
    <2>5. g = Image(src.written + 1) /\ g \in [Blocks -> Pages]
      <3>1. src.flash \in [Blocks -> Pages]
        BY <1>1, SrcSet
      <3>2. g \in [Blocks -> Pages] /\ g[src.written] = "data"
        BY <2>2, <2>4, <3>1 DEF Image, Programmed, Pages
      <3>3. ASSUME NEW b \in Blocks PROVE g[b] = IF b < src.written + 1 THEN "data" ELSE "erased"
        <4>1. CASE b = src.written
          BY <2>2, <3>2, <4>1
        <4>2. CASE b # src.written
          <5>1. g[b] = src.flash[b]
            BY <3>1, <4>2
          <5>2. b < src.written + 1 <=> b < src.written
            BY <2>2, <4>2 DEF Blocks
          <5> QED BY <2>4, <5>1, <5>2 DEF Image
        <4> QED BY <4>1, <4>2
      <3> HIDE DEF g
      <3> QED BY <3>2, <3>3 DEF Image
    <2> HIDE DEF g
    <2>6. /\ src' \in SrcType /\ src'.written = src.written + 1 /\ src'.flash = g
          /\ src'.phase = src.phase /\ src'.task = t /\ src'.off = src.off
      BY <1>5, <2>2, <2>3, <2>5 DEF SrcType
    <2>7. SrcSound(src')
      <3>1. ASSUME NEW i \in 1 .. Len(t) PROVE Pending(src', i) \/ Ending(src', i)
        <4>1. (src.written + 1) + i - 1 = src.written + i /\ (src.written + 1) + i = src.written + i + 1
          BY <2>2
        <4>2. Ending(s, i) => Ending(src', i)
          BY <1>5, <2>6 DEF Ending
        <4> QED BY <1>6, <2>1, <2>6, <4>1, <4>2 DEF Pending
      <3>2. src.off = src.written + Len(src.task) => src.off = (src.written + 1) + Len(t)
        <4>1. Len(t) = Len(src.task) - 1 /\ Len(src.task) \in Nat
          BY <1>3
        <4>2. src.written \in Int
          BY <2>2
        <4> QED BY <4>1, <4>2
      <3> QED BY <1>1, <1>3, <2>1, <2>5, <2>6, <3>1, <3>2 DEF SrcSound
    <2>8. ~ble /\ src'.phase \in {"entering", "update"} => Idle /\ ~Has(toFol, "START")
      BY <2>6 DEF IInv, StartsOnce
    <2>9. src'.written >= src.written
      BY <2>2, <2>6
    <2> QED BY <1>1, <1>2, <2>3, <2>6, <2>7, <2>8, <2>9, SourceSide
  <1>9. CASE m.id = "finish"
    <2> DEFINE v == (src.flash = Whole)
               done == [s EXCEPT !.phase = "idle", !.off = 0, !.verified = v]
    <2>1. v \in BOOLEAN /\ 0 \in 0 .. N
      BY <1>1, SrcSet
    <2> HIDE DEF v
    <2>2. /\ done \in SrcType /\ done.phase = "idle" /\ done.off = 0 /\ done.task = t
          /\ done.flash = src.flash /\ done.written = src.written
      BY <1>5, <2>1 DEF SrcType
    <2>3. t = <<>> /\ src.phase # "entering"
      <3>1. src.phase = "entering" => m.id = "start"
        BY <1>1, <1>3, Made DEF SrcSound
      <3> QED BY <1>6, <1>9, <3>1
    <2>4. SrcSound(done)
      <3>1. Len(done.task) = 0
        BY <2>2, <2>3
      <3> QED BY <1>1, <2>2, <2>3, <3>1 DEF SrcSound
    <2>5. \/ src' = done /\ UNCHANGED <<fol, toFol, failed>>
          \/ /\ ~ble /\ src.phase = "update" /\ SyncStart(done, "partial") /\ failed' = ~fol'.handle
             /\ \E heard \in SUBSET Blocks, begun \in BOOLEAN :
                  fol' = [fol EXCEPT !.handle = begun, !.started = begun,
                            !.flash = IF ~begun THEN @
                                      ELSE [b \in Blocks |-> IF b \in heard THEN "data" ELSE "erased"]]
      BY <1>1, <1>9 DEF SrcTask, m, s, v
    <2> HIDE DEF done
    <2>6. CASE src' = done /\ UNCHANGED <<fol, toFol, failed>>
      <3>1. src'.written >= src.written
        BY <1>1, <2>2, <2>6, SrcSet
      <3> QED BY <1>1, <1>2, <2>2, <2>4, <2>6, <3>1, SourceSide
    <2>7. CASE ~ble /\ src.phase = "update" /\ SyncStart(done, "partial") /\ failed' = ~fol'.handle
               /\ \E heard \in SUBSET Blocks, begun \in BOOLEAN :
                  fol' = [fol EXCEPT !.handle = begun, !.started = begun,
                            !.flash = IF ~begun THEN @
                                      ELSE [b \in Blocks |-> IF b \in heard THEN "data" ELSE "erased"]]
      <3>1. /\ src' \in SrcType /\ SrcSound(src') /\ src'.phase = "idle"
            /\ toFol' = toFol \/ toFol' = Append(toFol, Start("partial"))
        BY <1>1, <2>2, <2>4, <2>7, SyncStartFacts
      <3>2. PICK heard \in SUBSET Blocks, begun \in BOOLEAN :
                  fol' = [fol EXCEPT !.handle = begun, !.started = begun,
                            !.flash = IF ~begun THEN @
                                      ELSE [b \in Blocks |-> IF b \in heard THEN "data" ELSE "erased"]]
        BY <2>7
      <3> QED BY <1>1, <1>2, <2>7, <3>1, <3>2, Overheard
    <2> QED BY <2>5, <2>6, <2>7
  <1> QED BY <1>3, <1>7, <1>8, <1>9, Shapes

----------------------------------------------------------------------------
\* The follower and what is on its way to it.

\* b is a but for the fields of F.
AllBut(a, b, F) ==
  \A x \in {"size", "sync", "mode", "off", "now", "later", "stop", "reboot", "down", "flash",
            "task", "handle", "started", "verified"} \ F :
    b[x] = a[x]

\* While a synchronisation is going on, the source cannot begin one of the other kind.
LEMMA BusyFrame ==
  ASSUME IInv, ~Idle, src'.phase = src.phase, UNCHANGED <<ble, enters>>,
         Has(toFol', "START") => Has(toFol, "START")
  PROVE  Unstarted' /\ StartsOnce'
  <1>1. Unstarted'
    BY DEF IInv, Unstarted
  <1>2. ~ble => src.phase \notin {"entering", "update"} /\ ~Has(toFol', "START")
    BY DEF IInv, StartsOnce
  <1>3. ~ble => \A i \in 1 .. Len(toFol') : toFol'[i].id # "START"
    BY <1>2 DEF Has
  <1>4. StartsOnce'
    BY <1>2, <1>3 DEF StartsOnce
  <1> QED BY <1>1, <1>4

\* A message is taken from the link: those behind it are as sound as they were.
LEMMA TakenFrame ==
  ASSUME IInv, toFol # <<>>, toFol' = Tail(toFol), src'.written = src.written, UNCHANGED ble
  PROVE  /\ toFol' \in Seq(FolMsgs) /\ Answers' /\ Head(toFol) \in FolMsgs /\ Head(toFol) = toFol[1]
         /\ 1 \in 1 .. Len(toFol)
         /\ \A i \in 1 .. Len(toFol') : toFol'[i].id = "START" => toFol'[i].mode = ModeOf
         /\ \A id : Has(toFol, id) <=> Has(toFol', id) \/ Head(toFol).id = id
         /\ NoneAfter(toFol, 1, "START") <=> ~Has(toFol', "START")
         /\ StartsOnce => (~ble => \A i \in 1 .. Len(toFol') :
                                    toFol'[i].id = "START" => NoneAfter(toFol', i, "START"))
  <1>1. toFol \in Seq(FolMsgs)
    BY DEF IInv, TypeOK
  <1>2. /\ toFol' \in Seq(FolMsgs) /\ Head(toFol) \in FolMsgs /\ Len(toFol') = Len(toFol) - 1
        /\ Len(toFol) \in Nat \ {0} /\ Head(toFol) = toFol[1]
        /\ \A i \in 1 .. Len(toFol') : i + 1 \in 1 .. Len(toFol) /\ toFol'[i] = toFol[i + 1]
        /\ \A id : Has(toFol, id) <=> Has(toFol', id) \/ Head(toFol).id = id
        /\ \A id : \A i \in Nat : NoneAfter(toFol, i + 1, id) <=> NoneAfter(toFol', i, id)
        /\ \A id : NoneAfter(toFol, 1, id) <=> ~Has(toFol', id)
    BY <1>1, TailFacts
  <1>3. Answers'
    <2>1. SUFFICES ASSUME NEW i \in 1 .. Len(toFol'), toFol'[i].id = "GET_DATA_RSP", toFol'[i].data # "none"
                   PROVE  /\ toFol'[i].data = "data" /\ toFol'[i].off < src.written
                          /\ toFol'[i].off = N - 1 => NoneAfter(toFol', i, "START")
      BY DEF Answers
    <2>2. i + 1 \in 1 .. Len(toFol) /\ toFol'[i] = toFol[i + 1] /\ i \in Nat
      BY <1>2
    <2>3. /\ toFol[i + 1].data = "data" /\ toFol[i + 1].off < src.written
          /\ toFol[i + 1].off = N - 1 => NoneAfter(toFol, i + 1, "START")
      BY <2>1, <2>2 DEF IInv, Answers
    <2> QED BY <1>2, <2>2, <2>3
  <1>4. ASSUME NEW i \in 1 .. Len(toFol'), toFol'[i].id = "START" PROVE toFol'[i].mode = ModeOf
    BY <1>2, <1>4 DEF IInv, OneMode
  <1>5. ASSUME StartsOnce, ~ble, NEW i \in 1 .. Len(toFol'), toFol'[i].id = "START"
        PROVE  NoneAfter(toFol', i, "START")
    <2>1. i + 1 \in 1 .. Len(toFol) /\ toFol'[i] = toFol[i + 1] /\ i \in Nat
      BY <1>2
    <2>2. NoneAfter(toFol, i + 1, "START")
      BY <1>5, <2>1 DEF StartsOnce
    <2> QED BY <1>2, <2>1, <2>2
  <1>6. 1 \in 1 .. Len(toFol)
    BY <1>2
  <1> QED BY <1>2, <1>3, <1>4, <1>5, <1>6

\* The source answers, or learns that the follower is done.
LEMMA SrcRecvStep == IInv /\ SrcRecv => IInv'
  <1> SUFFICES ASSUME IInv, SrcRecv PROVE IInv'
    OBVIOUS
  <1> DEFINE m == Head(toSrc)
  <1>1. /\ src \in SrcType /\ SrcSound(src) /\ toFol \in Seq(FolMsgs) /\ toSrc \in Seq(SrcMsgs)
        /\ toSrc # <<>> /\ toSrc' = Tail(toSrc) /\ link \in BOOLEAN
        /\ UNCHANGED <<fol, link, ble, enters, drops, failed, gap>>
    BY DEF IInv, TypeOK, SrcRecv
  <1>2. /\ m \in SrcMsgs /\ toSrc' \in Seq(SrcMsgs)
        /\ \A id : Has(toSrc', id) => Has(toSrc, id)
    BY <1>1, TailFacts
  <1>3. ~Idle
    BY <1>1 DEF Idle
  <1>4. CASE m.id = "GET_DATA_REQ"
    <2> DEFINE a == Answer(m.off)
    <2>1. m.off \in Blocks /\ src.written \in 0 .. N /\ src.flash \in [Blocks -> Pages]
      BY <1>1, <1>2, <1>4, Shapes, SrcSet
    <2>2. /\ a \in FolMsgs /\ a.id = "GET_DATA_RSP" /\ a.off = m.off
          /\ a.data # "none" => a.data = "data" /\ m.off < src.written
      <3> DEFINE d == IF m.off >= src.written THEN "none" ELSE src.flash[m.off]
      <3>1. a = Rsp(m.off, d)
        BY DEF Answer
      <3>2. d \in Pages \cup {"none"}
        BY <2>1
      <3>3. d # "none" => m.off < src.written
        BY <2>1 DEF Blocks
      <3>4. d # "none" => d = "data"
        <4>1. src.phase = "entering" => src.written = 0
          BY <1>1 DEF SrcSound
        <4>2. src.phase # "entering" => src.flash = Image(src.written)
          BY <1>1 DEF SrcSound
        <4>3. m.off < src.written => src.flash = Image(src.written)
          BY <2>1, <4>1, <4>2 DEF Blocks
        <4>4. m.off < src.written => Image(src.written)[m.off] = "data"
          BY <2>1 DEF Image
        <4>5. d # "none" => d = src.flash[m.off]
          OBVIOUS
        <4> QED BY <3>3, <4>3, <4>4, <4>5
      <3> HIDE DEF d
      <3> QED BY <2>1, <3>1, <3>2, <3>3, <3>4, Made
    <2>3. src' = src /\ (toFol' = toFol \/ toFol' = Append(toFol, a))
      BY <1>4, Shapes DEF SrcRecv, Sent
    <2> HIDE DEF a
    <2>4. /\ toFol' \in Seq(FolMsgs) /\ (Has(toFol', "START") => Has(toFol, "START")) /\ Answers'
          /\ \A i \in 1 .. Len(toFol') : toFol'[i].id = "START" => toFol'[i].mode = ModeOf
      <3>1. CASE toFol' = toFol
        BY <1>1, <2>3, <3>1 DEF IInv, Answers, OneMode
      <3>2. CASE toFol' = Append(toFol, a)
        <4>1. /\ toFol' \in Seq(FolMsgs) /\ Len(toFol') = Len(toFol) + 1 /\ Len(toFol) \in Nat
              /\ \A i \in 1 .. Len(toFol) : toFol'[i] = toFol[i]
              /\ toFol'[Len(toFol) + 1] = a
              /\ \A id : Has(toFol', id) <=> Has(toFol, id) \/ a.id = id
              /\ \A id : \A i \in Nat : NoneAfter(toFol, i, id) /\ a.id # id => NoneAfter(toFol', i, id)
              /\ \A id : NoneAfter(toFol', Len(toFol) + 1, id)
          BY <1>1, <2>2, <3>2, AppendFacts
        <4>2. \A i \in 1 .. Len(toFol') : (i \in 1 .. Len(toFol) /\ i \in Nat) \/ i = Len(toFol) + 1
          BY <4>1
        <4>3. Answers'
          BY <2>2, <2>3, <4>1, <4>2 DEF IInv, Answers
        <4> QED BY <2>2, <4>1, <4>2, <4>3 DEF IInv, OneMode
      <3> QED BY <2>3, <3>1, <3>2
    <2>5. TypeOK' /\ SrcSound(src)'
      BY <1>1, <1>2, <2>3, <2>4 DEF IInv, TypeOK
    <2>6. Unstarted' /\ StartsOnce'
      BY <1>1, <1>3, <2>3, <2>4, BusyFrame
    <2>7. OneMode' /\ Closed' /\ Kept' /\ Open' /\ Ends'
      BY <1>1, <1>2, <2>3, <2>4 DEF IInv, OneMode, ModeOf, Closed, Kept, Queued, Open, Clear, Ends
    <2>8. Done'
      BY <1>1, <1>3, <2>3, <2>4 DEF IInv, Done
    <2> QED BY <2>4, <2>5, <2>6, <2>7, <2>8 DEF IInv
  <1>5. CASE m.id = "DONE_REPORT"
    <2>1. src' = [src EXCEPT !.sync = FALSE] /\ toFol' = toFol
      BY <1>5 DEF SrcRecv
    <2>2. /\ src' \in SrcType /\ src'.off = src.off /\ src'.task = src.task /\ src'.flash = src.flash
          /\ src'.written = src.written /\ src'.phase = src.phase /\ src'.verified = src.verified
      BY <1>1, <2>1 DEF SrcType
    <2>3. SrcSound(src')
      BY <1>1, <2>2 DEF SrcSound, Pending, Ending
    <2>4. TypeOK'
      BY <1>1, <1>2, <2>1, <2>2 DEF IInv, TypeOK
    <2>5. Unstarted' /\ StartsOnce'
      BY <1>1, <1>3, <2>1, <2>2, BusyFrame
    <2>6. OneMode' /\ Answers' /\ Closed' /\ Kept' /\ Open' /\ Ends'
      BY <1>1, <1>2, <2>1, <2>2 DEF IInv, OneMode, ModeOf, Answers, Closed, Kept, Queued, Open, Clear, Ends
    <2>7. Done'
      BY <1>1, <1>3, <2>1, <2>2 DEF IInv, Done
    <2> QED BY <2>3, <2>4, <2>5, <2>6, <2>7 DEF IInv
  <1> QED BY <1>2, <1>4, <1>5, Shapes

LEMMA FolFields ==
  ASSUME NEW f \in FolType
  PROVE  /\ f.off \in 0 .. N /\ f.now \in Nat /\ f.task \in Seq(TaskMsgs) /\ f.flash \in [Blocks -> Pages]
         /\ f.mode \in Modes /\ f.size \in BOOLEAN /\ N \in Nat \ {0}
  BY OtaSyncAssumption DEF FolType

\* send_get_data_req: nothing, the end, or a request.
LEMMA GetDataFacts ==
  ASSUME NEW f \in FolType, AllBut(fol, f, {"now", "later"}), fol \in FolType, GetData(f)
  PROVE  /\ fol' \in FolType /\ AllBut(fol, fol', {"now", "later", "off", "task"}) /\ fol'.off >= fol.off
         /\ \/ fol'.off = fol.off /\ fol'.task = fol.task /\ UNCHANGED toSrc
            \/ /\ IF fol.mode = "complete" \/ ~fol.size THEN fol'.off = fol.off
                  ELSE \A c \in fol.off .. fol'.off - 1 : fol.flash[c] # "erased"
               /\ \/ /\ ~fol.size \/ fol'.off = N
                     /\ fol'.task = Append(fol.task, Plain("finish")) /\ UNCHANGED toSrc
                  \/ /\ fol'.off \in Blocks /\ fol'.task = fol.task
                     /\ toSrc' = Append(toSrc, Req(fol'.off)) /\ fol.size
  <1>1. f.off = fol.off /\ f.task = fol.task /\ f.flash = fol.flash /\ f.mode = fol.mode /\ f.size = fol.size
    BY DEF AllBut
  <1>2. CASE fol' = f /\ UNCHANGED toSrc
    BY <1>1, <1>2, FolFields DEF AllBut
  <1>3. ASSUME NEW b \in Validated(f),
               LET g == [f EXCEPT !.now = 0, !.later = FALSE, !.off = b]
               IN IF ~g.size \/ b >= N
                    THEN fol' = [g EXCEPT !.task = Append(@, Plain("finish"))] /\ UNCHANGED toSrc
                    ELSE fol' = [g EXCEPT !.later = TRUE] /\ toSrc' = Append(toSrc, Req(b))
        PROVE  /\ fol' \in FolType /\ AllBut(fol, fol', {"now", "later", "off", "task"}) /\ fol'.off >= fol.off
               /\ IF fol.mode = "complete" \/ ~fol.size THEN fol'.off = fol.off
                  ELSE \A c \in fol.off .. fol'.off - 1 : fol.flash[c] # "erased"
               /\ \/ /\ ~fol.size \/ fol'.off = N
                     /\ fol'.task = Append(fol.task, Plain("finish")) /\ UNCHANGED toSrc
                  \/ /\ fol'.off \in Blocks /\ fol'.task = fol.task
                     /\ toSrc' = Append(toSrc, Req(fol'.off)) /\ fol.size
    <2>1. b \in f.off .. N /\ f.off \in 0 .. N /\ N \in Nat
      BY FolFields DEF Validated
    <2>2. b \in 0 .. N /\ (b >= N => b = N) /\ (~(b >= N) => b \in Blocks)
      BY <2>1 DEF Blocks
    <2>3. IF f.mode = "complete" \/ ~f.size THEN b = f.off
          ELSE \A c \in f.off .. b - 1 : f.flash[c] # "erased"
      BY DEF Validated
    <2> DEFINE g == [f EXCEPT !.now = 0, !.later = FALSE, !.off = b]
    <2>4. /\ g \in FolType /\ AllBut(f, g, {"now", "later", "off"}) /\ g.off = b
      <3>1. 0 \in Nat
        OBVIOUS
      <3> QED BY <2>2, <3>1 DEF FolType, AllBut
    <2>5. g.size = f.size /\ g.task = f.task /\ g.task \in Seq(TaskMsgs)
      BY <2>4, FolFields DEF AllBut
    <2>6. CASE ~g.size \/ b >= N
      <3> DEFINE t == Append(g.task, Plain("finish"))
      <3>1. t \in Seq(TaskMsgs)
        BY <2>5, Made, AppendFacts
      <3>2. fol' = [g EXCEPT !.task = t] /\ UNCHANGED toSrc
        BY <1>3, <2>4, <2>6 DEF FolType
      <3> HIDE DEF g, t
      <3>3. /\ fol' \in FolType /\ AllBut(g, fol', {"task"}) /\ fol'.task = t
        BY <2>4, <3>1, <3>2 DEF FolType, AllBut
      <3>4. fol'.off = b /\ AllBut(fol, fol', {"now", "later", "off", "task"})
        BY <2>4, <3>3 DEF AllBut
      <3> QED BY <1>1, <2>1, <2>2, <2>3, <2>5, <2>6, <3>2, <3>3, <3>4 DEF t
    <2>7. CASE ~(~g.size \/ b >= N)
      <3>1. fol' = [g EXCEPT !.later = TRUE] /\ toSrc' = Append(toSrc, Req(b))
        BY <1>3, <2>7
      <3> HIDE DEF g
      <3>2. /\ fol' \in FolType /\ AllBut(g, fol', {"later"})
        BY <2>4, <3>1 DEF FolType, AllBut
      <3>3. fol'.off = b /\ fol'.task = g.task /\ AllBut(fol, fol', {"now", "later", "off", "task"})
        BY <2>4, <3>2 DEF AllBut
      <3> QED BY <1>1, <2>1, <2>2, <2>3, <2>5, <2>7, <3>1, <3>2, <3>3
    <2> QED BY <2>6, <2>7
  <1> QED BY <1>2, <1>3 DEF GetData

LEMMA FolGetDataStep == IInv /\ FolGetData => IInv'
  <1> SUFFICES ASSUME IInv, FolGetData PROVE IInv'
    OBVIOUS
  <1>1. /\ fol \in FolType /\ toSrc \in Seq(SrcMsgs) /\ N \in Nat \ {0} /\ ble \in BOOLEAN
        /\ UNCHANGED <<src, toFol, link, ble, enters, drops, failed>> /\ gap' \subseteq {"lapse", "stop"}
    BY OtaSyncAssumption DEF IInv, TypeOK, FolGetData, Lapse
  <1>2. ~Idle
    BY DEF Idle, FolGetData
  <1>3. /\ fol' \in FolType /\ AllBut(fol, fol', {"now", "later", "off", "task"}) /\ fol'.off >= fol.off
        /\ \/ fol'.off = fol.off /\ fol'.task = fol.task /\ UNCHANGED toSrc
           \/ /\ IF fol.mode = "complete" \/ ~fol.size THEN fol'.off = fol.off
                 ELSE \A c \in fol.off .. fol'.off - 1 : fol.flash[c] # "erased"
              /\ \/ /\ ~fol.size \/ fol'.off = N
                    /\ fol'.task = Append(fol.task, Plain("finish")) /\ UNCHANGED toSrc
                 \/ /\ fol'.off \in Blocks /\ fol'.task = fol.task
                    /\ toSrc' = Append(toSrc, Req(fol'.off)) /\ fol.size
    <2>1. CASE fol.now > 0 /\ GetData([fol EXCEPT !.now = @ - 1])
      <3> DEFINE n == fol.now - 1
                 f == [fol EXCEPT !.now = n]
      <3>1. n \in Nat
        BY <1>1, <2>1, FolFields
      <3>2. f = [fol EXCEPT !.now = @ - 1]
        OBVIOUS
      <3> HIDE DEF n
      <3>3. f \in FolType /\ AllBut(fol, f, {"now", "later"})
        BY <1>1, <3>1 DEF FolType, AllBut
      <3> HIDE DEF f
      <3> QED BY <1>1, <2>1, <3>2, <3>3, GetDataFacts
    <2>2. CASE fol.later /\ GetData([fol EXCEPT !.later = FALSE])
      <3> DEFINE f == [fol EXCEPT !.later = FALSE]
      <3>1. f \in FolType /\ AllBut(fol, f, {"now", "later"})
        BY <1>1 DEF FolType, AllBut
      <3> HIDE DEF f
      <3>2. GetData(f)
        BY <2>2 DEF f
      <3> QED BY <1>1, <3>1, <3>2, GetDataFacts
    <2> QED BY <2>1, <2>2 DEF FolGetData
  <1>4. /\ fol'.size = fol.size /\ fol'.sync = fol.sync /\ fol'.mode = fol.mode /\ fol'.stop = fol.stop
        /\ fol'.flash = fol.flash /\ fol'.handle = fol.handle
    BY <1>3 DEF AllBut
  <1>5. fol.off \in 0 .. N /\ fol'.off \in 0 .. N /\ fol.task \in Seq(TaskMsgs) /\ fol.mode \in Modes
    BY <1>1, <1>3, FolFields
  <1>6. /\ toSrc' \in Seq(SrcMsgs) /\ (Has(toSrc', "DONE_REPORT") <=> Has(toSrc, "DONE_REPORT"))
    <2>1. CASE fol'.off \in Blocks /\ toSrc' = Append(toSrc, Req(fol'.off))
      <3>1. Req(fol'.off) \in SrcMsgs /\ Req(fol'.off).id # "DONE_REPORT"
        BY <2>1, Made
      <3> QED BY <1>1, <2>1, <3>1, AppendFacts
    <2>2. CASE UNCHANGED toSrc
      BY <1>1, <2>2
    <2> QED BY <1>3, <2>1, <2>2
  \* The queue of the ota task.
  <1>7. /\ \A id : Has(fol'.task, id) <=> Has(fol.task, id) \/ (id = "finish" /\ fol'.task # fol.task)
        /\ \A i \in 1 .. Len(fol'.task) :
              \/ i \in 1 .. Len(fol.task) /\ fol'.task[i] = fol.task[i]
              \/ fol'.task[i] = Plain("finish") /\ fol'.task # fol.task /\ i = Len(fol.task) + 1
        /\ \A i \in 1 .. Len(fol.task) :
              /\ i \in 1 .. Len(fol'.task) /\ fol'.task[i] = fol.task[i]
              /\ NoneAfter(fol.task, i, "start") => NoneAfter(fol'.task, i, "start")
        /\ Len(fol.task) \in Nat
        /\ fol'.task # fol.task => ~fol.size \/ fol'.off = N
    <2>1. CASE fol'.task = fol.task
      BY <1>5, <2>1, LenProperties
    <2>2. CASE fol'.task = Append(fol.task, Plain("finish")) /\ (~fol.size \/ fol'.off = N)
      <3> DEFINE p == Plain("finish")
      <3>1. p \in TaskMsgs /\ p.id = "finish"
        BY Made
      <3> HIDE DEF p
      <3>2. /\ Len(fol'.task) = Len(fol.task) + 1 /\ Len(fol.task) \in Nat
            /\ \A i \in 1 .. Len(fol.task) : fol'.task[i] = fol.task[i]
            /\ fol'.task[Len(fol.task) + 1] = p
            /\ \A id : Has(fol'.task, id) <=> Has(fol.task, id) \/ p.id = id
            /\ \A id : \A i \in Nat : NoneAfter(fol.task, i, id) /\ p.id # id => NoneAfter(fol'.task, i, id)
        BY <1>5, <2>2, <3>1, AppendFacts DEF p
      <3>3. fol'.task # fol.task
        BY <3>2
      <3>4. \A i \in 1 .. Len(fol'.task) : i \in 1 .. Len(fol.task) \/ i = Len(fol.task) + 1
        BY <3>2
      <3>5. \A i \in 1 .. Len(fol.task) : i \in 1 .. Len(fol'.task) /\ i \in Nat
        BY <3>2
      <3> QED BY <2>2, <3>1, <3>2, <3>3, <3>4, <3>5 DEF p
    <2> QED BY <1>3, <2>1, <2>2
  \* Blocks are skipped only where they are on flash.
  <1>8. fol.size /\ ~failed => \A c \in fol.off .. fol'.off - 1 : fol.flash[c] = "data" /\ ~Has(fol.task, "start")
    <2>1. SUFFICES ASSUME fol.size, ~failed, NEW c \in fol.off .. fol'.off - 1
                   PROVE  fol.flash[c] = "data" /\ ~Has(fol.task, "start")
      OBVIOUS
    <2>2. fol'.off # fol.off /\ c \in Blocks
      BY <1>1, <1>5 DEF Blocks
    <2>3. fol.mode # "complete" /\ fol.flash[c] # "erased"
      BY <1>3, <2>1, <2>2
    <2>4. ~ble
      BY <2>1, <2>3 DEF IInv, OneMode, ModeOf
    <2>5. ~Has(fol.task, "start")
      BY <2>4 DEF IInv, OneMode
    <2> QED BY <2>1, <2>2, <2>3, <2>5 DEF IInv, Open, Clear
  <1>9. TypeOK' /\ SrcSound(src)'
    BY <1>1, <1>3, <1>6 DEF IInv, TypeOK
  <1>10. Unstarted' /\ StartsOnce'
    BY <1>1, <1>2, BusyFrame
  <1>11. OneMode' /\ Answers'
    BY <1>1, <1>4, <1>7 DEF IInv, OneMode, ModeOf, Answers
  <1>12. Closed'
    <2>1. ble => fol'.off = fol.off
      BY <1>3, <1>4 DEF IInv, OneMode, ModeOf
    <2> QED BY <1>1, <2>1 DEF IInv, Closed
  <1>13. Kept'
    <2>1. \A i \in 1 .. Len(fol'.task) : fol'.task[i].id = "write" => fol'.task[i].data = "data"
      BY <1>7, Made DEF IInv, Kept
    <2>2. ASSUME fol.size, ~failed, NEW b \in 0 .. fol'.off - 1
          PROVE  (fol.flash[b] = "data" /\ ~Has(fol'.task, "start")) \/ Queued(b)'
      <3>1. CASE b \in fol.off .. fol'.off - 1
        BY <1>7, <1>8, <2>2, <3>1
      <3>2. CASE b \in 0 .. fol.off - 1
        <4>1. CASE Queued(b)
          BY <1>7, <4>1 DEF Queued
        <4> QED BY <1>7, <2>2, <3>2, <4>1 DEF IInv, Kept
      <3> QED BY <1>5, <2>2, <3>1, <3>2
    <2> QED BY <1>1, <1>4, <2>1, <2>2 DEF Kept
  <1>14. Open'
    BY <1>1, <1>4, <1>7 DEF IInv, Open, Clear
  <1>15. Ends'
    <2>1. fol.stop \/ Has(toSrc', "DONE_REPORT") => ~fol.size
      BY <1>6 DEF IInv, Ends
    <2>2. fol.size /\ Has(fol'.task, "finish") => fol'.off = N
      <3>1. fol.off = N => fol'.off = N
        BY <1>1, <1>3, <1>5
      <3> QED BY <1>7, <3>1 DEF IInv, Ends
    <2>3. ASSUME fol.size, NEW i \in 1 .. Len(fol'.task), NEW j \in 1 .. Len(fol'.task),
                 fol'.task[i].id = "finish", i <= j
          PROVE  fol'.task[j].id = "finish"
      <3>1. CASE j \in 1 .. Len(fol.task) /\ fol'.task[j] = fol.task[j]
        <4>1. i \in 1 .. Len(fol.task) /\ fol'.task[i] = fol.task[i]
          BY <1>7, <2>3, <3>1
        <4> QED BY <2>3, <3>1, <4>1 DEF IInv, Ends
      <3>2. CASE fol'.task[j] = Plain("finish")
        BY <3>2, Made
      <3> QED BY <1>7, <3>1, <3>2
    <2> QED BY <1>4, <2>1, <2>2, <2>3 DEF Ends
  <1>16. Done'
    BY <1>1, <1>2, <1>4, <1>7 DEF IInv, Done
  <1> QED BY <1>9, <1>10, <1>11, <1>12, <1>13, <1>14, <1>15, <1>16 DEF IInv

\* What is neither the source's nor told below may change at the follower.
LEMMA SameFollower ==
  ASSUME IInv, UNCHANGED <<src, toFol, toSrc, ble, enters, failed>>, fol' \in FolType,
         AllBut(fol, fol', {"down", "reboot"}), link' \in BOOLEAN, drops' \in 0 .. MaxDrops,
         gap' \subseteq {"lapse", "stop"}
  PROVE  IInv'
  <1>1. /\ fol'.size = fol.size /\ fol'.sync = fol.sync /\ fol'.mode = fol.mode /\ fol'.off = fol.off
        /\ fol'.now = fol.now /\ fol'.later = fol.later /\ fol'.stop = fol.stop
        /\ fol'.flash = fol.flash /\ fol'.handle = fol.handle /\ fol'.task = fol.task
    BY DEF AllBut
  <1>2. Idle' = Idle
    BY <1>1 DEF Idle
  <1>3. TypeOK' /\ SrcSound(src)'
    BY DEF IInv, TypeOK
  <1>4. Unstarted' /\ OneMode' /\ StartsOnce' /\ Answers' /\ Closed'
    BY <1>1, <1>2 DEF IInv, Unstarted, OneMode, ModeOf, StartsOnce, Clear, Answers, Closed
  <1>5. Kept' /\ Open' /\ Ends' /\ Done'
    BY <1>1, <1>2 DEF IInv, Kept, Queued, Open, Clear, Ends, Done
  <1> QED BY <1>3, <1>4, <1>5 DEF IInv

LEMMA FolStopStep == IInv /\ FolStop => IInv'
  <1> SUFFICES ASSUME IInv, FolStop PROVE IInv'
    OBVIOUS
  <1>1. /\ fol \in FolType /\ toSrc \in Seq(SrcMsgs) /\ fol.stop
        /\ UNCHANGED <<src, toFol, link, ble, enters, drops, failed, gap>>
        /\ toSrc' = toSrc \/ toSrc' = Append(toSrc, Plain("DONE_REPORT"))
        /\ fol' = [fol EXCEPT !.stop = FALSE, !.sync = FALSE]
    BY DEF IInv, TypeOK, FolStop, Sent
  <1>2. ~Idle /\ ~fol.size
    BY <1>1 DEF Idle, IInv, Ends
  <1>3. fol' \in FolType /\ AllBut(fol, fol', {"stop", "sync"}) /\ ~fol'.stop
    BY <1>1 DEF FolType, AllBut
  <1>4. /\ fol'.size = fol.size /\ fol'.mode = fol.mode /\ fol'.task = fol.task /\ fol'.off = fol.off
        /\ fol'.flash = fol.flash /\ fol'.handle = fol.handle
    BY <1>3 DEF AllBut
  <1>5. toSrc' \in Seq(SrcMsgs)
    BY <1>1, Made, AppendFacts
  <1>6. TypeOK' /\ SrcSound(src)'
    BY <1>1, <1>3, <1>5 DEF IInv, TypeOK
  <1>7. Unstarted' /\ StartsOnce'
    BY <1>1, <1>2, BusyFrame
  <1>8. OneMode' /\ Answers' /\ Closed' /\ Kept' /\ Open'
    BY <1>1, <1>4 DEF IInv, OneMode, ModeOf, Answers, Closed, Kept, Queued, Open, Clear
  <1>9. Ends' /\ Done'
    BY <1>1, <1>2, <1>3, <1>4 DEF IInv, Ends, Done
  <1> QED BY <1>6, <1>7, <1>8, <1>9 DEF IInv

LEMMA DoRebootStep == IInv /\ DoReboot => IInv'
  <1> SUFFICES ASSUME IInv, DoReboot PROVE IInv'
    OBVIOUS
  <1>1. /\ fol \in FolType
        /\ UNCHANGED <<src, toFol, toSrc, link, ble, enters, drops, failed, gap>>
        /\ fol' = [fol EXCEPT !.down = TRUE]
    BY DEF IInv, TypeOK, DoReboot
  <1>2. fol' \in FolType /\ AllBut(fol, fol', {"down", "reboot"})
    BY <1>1 DEF FolType, AllBut
  <1>3. link' \in BOOLEAN /\ drops' \in 0 .. MaxDrops /\ gap' \subseteq {"lapse", "stop"}
    BY <1>1 DEF IInv, TypeOK
  <1> QED BY <1>1, <1>2, <1>3, SameFollower

\* The follower's ota task erases, writes, fails to write or ends.
LEMMA FolTaskStep == IInv /\ FolTask => IInv'
  <1> SUFFICES ASSUME IInv, FolTask PROVE IInv'
    OBVIOUS
  <1> DEFINE m == Head(fol.task)
             t == Tail(fol.task)
             f == [fol EXCEPT !.task = Tail(@)]
  <1>1. /\ fol \in FolType /\ toSrc \in Seq(SrcMsgs) /\ N \in Nat \ {0} /\ fol.task # <<>>
        /\ failed \in BOOLEAN /\ ble \in BOOLEAN
        /\ UNCHANGED <<src, toFol, toSrc, link, ble, enters, drops, gap>>
    BY OtaSyncAssumption DEF IInv, TypeOK, FolTask
  <1>2. ~Idle
    BY <1>1 DEF Idle
  <1>3. /\ t \in Seq(TaskMsgs) /\ m \in TaskMsgs /\ Len(t) = Len(fol.task) - 1
        /\ Len(fol.task) \in Nat \ {0} /\ m = fol.task[1]
        /\ \A i \in 1 .. Len(t) : i + 1 \in 1 .. Len(fol.task) /\ t[i] = fol.task[i + 1]
        /\ \A id : Has(fol.task, id) <=> Has(t, id) \/ m.id = id
        /\ \A id : \A i \in Nat : NoneAfter(fol.task, i + 1, id) <=> NoneAfter(t, i, id)
        /\ \A id : NoneAfter(fol.task, 1, id) <=> ~Has(t, id)
    <2>1. fol.task \in Seq(TaskMsgs)
      BY <1>1, FolFields
    <2> QED BY <1>1, <2>1, TailFacts
  <1>4. 1 \in 1 .. Len(fol.task) /\ \A i \in 1 .. Len(fol.task) : i = 1 \/ (i - 1 \in 1 .. Len(t) /\ (i - 1) + 1 = i /\ i - 1 \in Nat)
    BY <1>3
  <1>5. f \in FolType /\ AllBut(fol, f, {"task"}) /\ f.task = t
    BY <1>1, <1>3 DEF FolType, AllBut
  <1>6. /\ f.size = fol.size /\ f.sync = fol.sync /\ f.mode = fol.mode /\ f.off = fol.off
        /\ f.now = fol.now /\ f.stop = fol.stop /\ f.flash = fol.flash /\ f.handle = fol.handle
        /\ f.verified = fol.verified
    BY <1>5 DEF AllBut
  \* Whatever comes of the message, the queue behind it.
  <1>7. /\ ~ble => ~Has(t, "start")
        /\ \A i \in 1 .. Len(t) : t[i].id = "write" => t[i].data = "data"
        /\ fol.size => \A i, j \in 1 .. Len(t) : t[i].id = "finish" /\ i <= j => t[j].id = "finish"
        /\ fol.size /\ Has(t, "finish") => fol.off = N
        /\ ~fol.size => ~Has(t, "start") /\ m.id # "start"
        /\ m.id = "write" => m.data = "data"
        /\ fol.size /\ m.id = "finish" => fol.off = N /\ \A i \in 1 .. Len(t) : t[i].id = "finish"
    <2>1. ~ble => ~Has(t, "start")
      BY <1>3 DEF IInv, OneMode
    <2>2. \A i \in 1 .. Len(t) : t[i].id = "write" => t[i].data = "data"
      BY <1>3 DEF IInv, Kept
    <2>3. ASSUME fol.size, NEW i \in 1 .. Len(t), NEW j \in 1 .. Len(t), t[i].id = "finish", i <= j
          PROVE  t[j].id = "finish"
      <3>1. i + 1 <= j + 1
        BY <2>3
      <3> QED BY <1>3, <2>3, <3>1 DEF IInv, Ends
    <2>4. fol.size /\ Has(t, "finish") => fol.off = N
      BY <1>3 DEF IInv, Ends
    <2>5. ~fol.size => ~Has(t, "start") /\ m.id # "start"
      BY <1>3 DEF IInv, Done
    <2>6. m.id = "write" => m.data = "data"
      BY <1>3, <1>4 DEF IInv, Kept
    <2>7. ASSUME fol.size, m.id = "finish", NEW i \in 1 .. Len(t)
          PROVE  t[i].id = "finish"
      <3>1. 1 <= i + 1
        OBVIOUS
      <3> QED BY <1>3, <1>4, <2>7, <3>1 DEF IInv, Ends
    <2>8. fol.size /\ m.id = "finish" => fol.off = N
      BY <1>3 DEF IInv, Ends
    <2> QED BY <2>1, <2>2, <2>3, <2>4, <2>5, <2>6, <2>7, <2>8
  <1>8. Unstarted' /\ StartsOnce' /\ SrcSound(src)' /\ Answers'
    BY <1>1, <1>2, BusyFrame DEF IInv, Answers
  \* A queued write that is not the first stays queued.
  <1>9. ASSUME NEW b, Queued(b) PROVE \/ m = Write(b, "data") /\ ~Has(t, "start")
                                     \/ \E i \in 1 .. Len(t) : t[i] = Write(b, "data") /\ NoneAfter(t, i, "start")
    <2>1. PICK i \in 1 .. Len(fol.task) : fol.task[i] = Write(b, "data") /\ NoneAfter(fol.task, i, "start")
      BY <1>9 DEF Queued
    <2>2. CASE i = 1
      BY <1>3, <2>1, <2>2
    <2>3. CASE i # 1
      <3>1. i - 1 \in 1 .. Len(t) /\ (i - 1) + 1 = i /\ i - 1 \in Nat
        BY <1>4, <2>3
      <3>2. t[i - 1] = Write(b, "data")
        BY <1>3, <2>1, <3>1
      <3>3. NoneAfter(t, i - 1, "start")
        BY <1>3, <2>1, <3>1
      <3> QED BY <3>1, <3>2, <3>3
    <2> QED BY <2>2, <2>3
  <1> HIDE DEF m, t, f
  <1>10. CASE m.id = "start"
    <2> DEFINE e == [b \in Blocks |-> "erased"]
               n == fol.now + 1
    <2>1. e \in [Blocks -> Pages] /\ n \in Nat
      BY <1>1, FolFields DEF Pages
    <2>2. fol' = [f EXCEPT !.handle = TRUE, !.now = n, !.flash = e] /\ failed' = failed
      BY <1>6, <1>10 DEF FolTask, m, f
    <2> HIDE DEF e, n
    <2>3. fol' \in FolType /\ AllBut(f, fol', {"handle", "now", "flash"}) /\ fol'.handle /\ fol'.flash = e
      BY <1>5, <2>1, <2>2 DEF FolType, AllBut
    <2>4. /\ fol'.size = fol.size /\ fol'.mode = fol.mode /\ fol'.off = fol.off /\ fol'.stop = fol.stop
          /\ fol'.task = t
      BY <1>5, <1>6, <2>3 DEF AllBut
    <2>5. fol.size /\ Has(fol.task, "start")
      BY <1>3, <1>7, <1>10
    <2>6. TypeOK'
      BY <1>1, <2>2, <2>3 DEF IInv, TypeOK
    <2>7. OneMode' /\ Closed'
      BY <1>1, <1>7, <2>4 DEF IInv, OneMode, ModeOf, Closed
    <2>8. Kept'
      <3>1. ASSUME ~failed, NEW b \in 0 .. fol.off - 1 PROVE Queued(b)'
        <4>1. Queued(b)
          BY <2>5, <3>1 DEF IInv, Kept
        <4>2. m # Write(b, "data")
          BY <1>10, Made
        <4> QED BY <1>9, <2>4, <4>1, <4>2 DEF Queued
      <3> QED BY <1>7, <2>2, <2>4, <3>1 DEF Kept
    <2>9. Open'
      BY <2>3 DEF Open, Clear, e
    <2>10. Ends' /\ Done'
      BY <1>1, <1>7, <2>4, <2>5 DEF IInv, Ends, Done
    <2> QED BY <1>8, <2>6, <2>7, <2>8, <2>9, <2>10 DEF IInv
  <1>11. CASE m.id = "write" /\ failed' = TRUE /\ fol' = f
    <2>1. TypeOK'
      BY <1>1, <1>5, <1>11 DEF IInv, TypeOK
    <2>2. OneMode' /\ Closed' /\ Kept' /\ Open' /\ Ends'
      BY <1>1, <1>5, <1>6, <1>7, <1>11 DEF IInv, OneMode, ModeOf, Closed, Kept, Open, Ends
    <2>3. Done'
      BY <1>1, <1>2, <1>5, <1>6, <1>7, <1>11 DEF IInv, Done
    <2> QED BY <1>8, <2>1, <2>2, <2>3 DEF IInv
  <1>12. CASE m.id = "write" /\ ~(failed' = TRUE /\ fol' = f)
    <2> DEFINE g == IF fol.handle THEN [fol.flash EXCEPT ![m.off] = Programmed(@, "data")] ELSE fol.flash
    <2>1. m.off \in Blocks /\ m.data = "data" /\ fol.flash \in [Blocks -> Pages]
      BY <1>1, <1>3, <1>7, <1>12, Shapes, FolFields
    <2>2. g \in [Blocks -> Pages] /\ \A b \in Blocks : g[b] = IF fol.handle /\ b = m.off THEN Programmed(fol.flash[b], "data") ELSE fol.flash[b]
      BY <2>1 DEF Programmed, Pages
    <2>3. /\ fol' = IF fol.handle THEN [f EXCEPT !.flash = g] ELSE f
          /\ failed' = failed
      BY <1>6, <1>12, <2>1 DEF FolTask, m, f
    <2> HIDE DEF g
    <2>4. fol' \in FolType /\ AllBut(f, fol', {"flash"}) /\ fol'.flash = g
      <3>1. ~fol.handle => g = fol.flash
        BY DEF g
      <3> QED BY <1>5, <1>6, <2>2, <2>3, <3>1 DEF FolType, AllBut
    <2>5. /\ fol'.size = fol.size /\ fol'.mode = fol.mode /\ fol'.off = fol.off /\ fol'.stop = fol.stop
          /\ fol'.task = t /\ fol'.handle = fol.handle
      BY <1>5, <1>6, <2>4 DEF AllBut
    <2>6. TypeOK'
      BY <1>1, <2>3, <2>4 DEF IInv, TypeOK
    <2>7. OneMode' /\ Closed'
      BY <1>1, <1>7, <2>5 DEF IInv, OneMode, ModeOf, Closed
    <2>8. fol.size /\ ~failed /\ ~Has(t, "start") => fol.handle /\ Clear
      BY <1>3, <1>12 DEF IInv, Open
    <2>9. Open'
      <3>1. Clear => \A b \in Blocks : g[b] \in {"erased", "data"}
        BY <2>2 DEF Clear, Programmed
      <3> QED BY <2>3, <2>4, <2>5, <2>8, <3>1 DEF Open, Clear
    <2>10. Kept'
      <3>1. ASSUME fol.size, ~failed, NEW b \in 0 .. fol.off - 1
            PROVE  (g[b] = "data" /\ ~Has(t, "start")) \/ Queued(b)'
        <4>1. b \in Blocks
          BY <1>1, FolFields DEF Blocks
        <4>2. CASE fol.flash[b] = "data" /\ ~Has(fol.task, "start")
          BY <1>3, <2>2, <4>1, <4>2 DEF Programmed
        <4>3. CASE Queued(b)
          <5>1. CASE m = Write(b, "data") /\ ~Has(t, "start")
            <6>1. fol.handle /\ fol.flash[b] \in {"erased", "data"}
              BY <2>8, <3>1, <4>1, <5>1 DEF Clear
            <6>2. m.off = b
              BY <5>1, Made
            <6> QED BY <2>2, <4>1, <5>1, <6>1, <6>2 DEF Programmed
          <5>2. CASE \E i \in 1 .. Len(t) : t[i] = Write(b, "data") /\ NoneAfter(t, i, "start")
            BY <2>5, <5>2 DEF Queued
          <5> QED BY <1>9, <4>3, <5>1, <5>2
        <4> QED BY <3>1, <4>2, <4>3 DEF IInv, Kept
      <3> QED BY <1>7, <2>3, <2>4, <2>5, <3>1 DEF Kept
    <2>11. Ends'
      BY <1>1, <1>7, <2>5 DEF IInv, Ends
    <2>12. Done'
      <3>1. ~fol.size => /\ ~fol.handle /\ ~Has(toFol, "START") /\ (ble => src.written = N)
                         /\ ~failed => fol.flash = Whole
        BY <1>2 DEF IInv, Done
      <3>2. ~fol.size => g = fol.flash
        BY <3>1 DEF g
      <3> QED BY <1>1, <1>7, <2>3, <2>4, <2>5, <3>1, <3>2 DEF Done
    <2> QED BY <1>8, <2>6, <2>7, <2>9, <2>10, <2>11, <2>12 DEF IInv
  <1>13. CASE m.id = "finish"
    <2> DEFINE v == IF fol.handle THEN fol.flash = Whole ELSE fol.verified
    <2>1. v \in BOOLEAN
      BY <1>1 DEF FolType
    <2>2. fol' = [f EXCEPT !.handle = FALSE, !.size = FALSE, !.off = 0, !.stop = TRUE, !.verified = v]
          /\ failed' = failed
      BY <1>5, <1>6, <1>13 DEF FolTask, m, f, FolType
    <2> HIDE DEF v
    <2>3. 0 \in 0 .. N
      BY <1>1
    <2>4. /\ fol' \in FolType /\ ~fol'.handle /\ ~fol'.size /\ fol'.off = 0
          /\ fol'.task = t /\ fol'.flash = fol.flash /\ fol'.mode = fol.mode
      BY <1>5, <1>6, <2>1, <2>2, <2>3 DEF FolType
    <2>5. TypeOK'
      BY <1>1, <2>2, <2>4 DEF IInv, TypeOK
    <2>6. OneMode' /\ Closed' /\ Open' /\ Ends'
      BY <1>1, <1>7, <2>4 DEF IInv, OneMode, ModeOf, Closed, Open, Ends
    <2>7. Kept'
      BY <1>7, <2>4 DEF Kept
    <2>8. ~Has(t, "start")
      BY <1>7, <1>13 DEF Has
    <2>9. ~failed => fol.flash = Whole
      <3>1. CASE ~fol.size
        BY <1>2, <3>1 DEF IInv, Done
      <3>2. CASE fol.size
        <4>1. ASSUME ~failed, NEW b \in Blocks PROVE fol.flash[b] = "data"
          <5>1. b \in 0 .. fol.off - 1
            BY <1>7, <1>13, <3>2 DEF Blocks
          <5>2. ~Queued(b)
            <6>1. m # Write(b, "data") /\ \A i \in 1 .. Len(t) : t[i] # Write(b, "data")
              BY <1>7, <1>13, <3>2, Made
            <6> QED BY <1>9, <6>1
          <5> QED BY <3>2, <4>1, <5>1, <5>2 DEF IInv, Kept
        <4>2. fol.flash \in [Blocks -> Pages]
          BY <1>1, FolFields
        <4> QED BY <4>1, <4>2 DEF Whole
      <3> QED BY <3>1, <3>2
    <2>10. ~Has(toFol, "START") /\ (ble => src.written = N)
      <3>1. CASE ~fol.size
        BY <1>2, <3>1 DEF IInv, Done
      <3>2. CASE fol.size
        <4>1. fol.off = N
          BY <1>7, <1>13, <3>2
        <4>2. ~ble => ~Has(toFol, "START")
          BY <1>2 DEF IInv, StartsOnce
        <4> QED BY <4>1, <4>2 DEF IInv, Closed
      <3> QED BY <3>1, <3>2
    <2>11. Done'
      BY <1>1, <2>2, <2>4, <2>8, <2>9, <2>10 DEF Done
    <2> QED BY <1>8, <2>5, <2>6, <2>7, <2>11 DEF IInv
  <1> QED BY <1>3, <1>10, <1>11, <1>12, <1>13, Shapes DEF FolTask, m, f

----------------------------------------------------------------------------
\* The follower receives an answer: it stores the block, or asks again later.
LEMMA FolRecvRsp ==
  ASSUME IInv, FolRecv, Head(toFol).id = "GET_DATA_RSP"
  PROVE  IInv'
  <1> DEFINE m == Head(toFol)
             b == m.off
             w == Write(b, "data")
  <1>1. /\ fol \in FolType /\ toFol # <<>> /\ toFol' = Tail(toFol) /\ N \in Nat \ {0}
        /\ toFol \in Seq(FolMsgs) /\ src.written \in 0 .. N /\ toSrc \in Seq(SrcMsgs)
        /\ UNCHANGED <<src, toSrc, link, ble, enters, drops, failed>> /\ gap' \subseteq {"lapse", "stop"}
    BY OtaSyncAssumption, SrcSet DEF IInv, TypeOK, FolRecv
  <1>2. /\ toFol' \in Seq(FolMsgs) /\ Answers' /\ m \in FolMsgs /\ m = toFol[1] /\ 1 \in 1 .. Len(toFol)
        /\ \A i \in 1 .. Len(toFol') : toFol'[i].id = "START" => toFol'[i].mode = ModeOf
        /\ \A id : Has(toFol, id) <=> Has(toFol', id) \/ m.id = id
        /\ NoneAfter(toFol, 1, "START") <=> ~Has(toFol', "START")
    BY <1>1, TakenFrame
  <1>3. ~Idle
    BY <1>2 DEF Idle
  <1>4. Unstarted' /\ StartsOnce' /\ SrcSound(src)'
    BY <1>1, <1>2, <1>3, BusyFrame DEF IInv
  <1>5. /\ b \in Blocks
        /\ m.data # "none" => /\ m.data = "data" /\ b < src.written
                              /\ b = N - 1 => ~Has(toFol', "START")
    BY <1>2, Shapes DEF IInv, Answers
  <1>6. \/ fol' = RetryLater(fol)
        \/ fol' = [fol EXCEPT !.off = @ + 1, !.now = @ + 1, !.task = Append(@, Write(b, m.data))]
           /\ m.data # "none" /\ b = fol.off
    BY DEF FolRecv, Stored
  <1> HIDE DEF m, b
  <1>7. CASE fol' = RetryLater(fol)
    <2>1. fol' \in FolType /\ AllBut(fol, fol', {"now", "later"})
      BY <1>1, <1>7 DEF RetryLater, FolType, AllBut
    <2>2. /\ fol'.size = fol.size /\ fol'.mode = fol.mode /\ fol'.off = fol.off /\ fol'.stop = fol.stop
          /\ fol'.flash = fol.flash /\ fol'.handle = fol.handle /\ fol'.task = fol.task
      BY <2>1 DEF AllBut
    <2>3. TypeOK'
      BY <1>1, <1>2, <2>1 DEF IInv, TypeOK
    <2>4. OneMode' /\ Closed'
      BY <1>1, <1>2, <2>2 DEF IInv, OneMode, ModeOf, Closed
    <2>5. Kept' /\ Open' /\ Ends'
      <3>1. Kept'
        BY <1>1, <2>2 DEF IInv, Kept, Queued
      <3>2. Open'
        BY <1>1, <2>2 DEF IInv, Open, Clear
      <3>3. Ends'
        BY <1>1, <2>2 DEF IInv, Ends
      <3> QED BY <3>1, <3>2, <3>3
    <2>6. Done'
      BY <1>1, <1>2, <1>3, <2>2 DEF IInv, Done
    <2> QED BY <1>2, <1>4, <2>3, <2>4, <2>5, <2>6 DEF IInv
  <1>8. CASE /\ fol' = [fol EXCEPT !.off = @ + 1, !.now = @ + 1, !.task = Append(@, Write(b, m.data))]
             /\ m.data # "none" /\ b = fol.off
    <2> DEFINE o == fol.off + 1
               n == fol.now + 1
               t == Append(fol.task, w)
    <2>1. w \in TaskMsgs /\ w.id = "write" /\ w.data = "data"
      BY <1>5, Made DEF Pages
    <2> HIDE DEF w
    <2>2. /\ t \in Seq(TaskMsgs) /\ Len(t) = Len(fol.task) + 1 /\ Len(fol.task) \in Nat
          /\ \A i \in 1 .. Len(fol.task) : t[i] = fol.task[i]
          /\ t[Len(fol.task) + 1] = w
          /\ \A id : Has(t, id) <=> Has(fol.task, id) \/ w.id = id
          /\ \A id : \A i \in Nat : NoneAfter(fol.task, i, id) /\ w.id # id => NoneAfter(t, i, id)
          /\ \A id : NoneAfter(t, Len(fol.task) + 1, id)
      <3>1. fol.task \in Seq(TaskMsgs)
        BY <1>1, FolFields
      <3> QED BY <2>1, <3>1, AppendFacts
    <2>3. fol' = [fol EXCEPT !.off = o, !.now = n, !.task = t]
      BY <1>1, <1>5, <1>8 DEF w, FolType
    <2>4. o \in 0 .. N /\ n \in Nat /\ fol.off \in 0 .. N /\ (o = N => b = N - 1) /\ b # N
      <3>1. fol.off \in 0 .. N /\ fol.now \in Nat
        BY <1>1, FolFields
      <3>2. b \in 0 .. N - 1 /\ b = fol.off
        BY <1>5, <1>8 DEF Blocks
      <3> QED BY <3>1, <3>2, OtaSyncAssumption
    <2> HIDE DEF o, n, t
    <2>5. fol' \in FolType /\ AllBut(fol, fol', {"off", "now", "task"}) /\ fol'.off = o /\ fol'.task = t
      BY <1>1, <2>2, <2>3, <2>4 DEF FolType, AllBut
    <2>6. /\ fol'.size = fol.size /\ fol'.mode = fol.mode /\ fol'.stop = fol.stop
          /\ fol'.flash = fol.flash /\ fol'.handle = fol.handle
      BY <2>5 DEF AllBut
    <2>7. \A i \in 1 .. Len(t) : i \in 1 .. Len(fol.task) \/ i = Len(fol.task) + 1
      BY <2>2
    <2>8. TypeOK'
      BY <1>1, <1>2, <2>5 DEF IInv, TypeOK
    <2>9. OneMode'
      BY <1>1, <1>2, <2>1, <2>2, <2>5, <2>6 DEF IInv, OneMode, ModeOf
    <2>10. Closed'
      <3>1. o = N => ~Has(toFol', "START") /\ src.written = N
        BY <1>1, <1>5, <1>8, <2>4
      <3> QED BY <1>1, <2>5, <3>1 DEF Closed
    <2>11. Kept'
      <3>1. \A i \in 1 .. Len(t) : t[i].id = "write" => t[i].data = "data"
        BY <2>1, <2>2, <2>7 DEF IInv, Kept
      <3>2. ASSUME fol.size, ~failed, NEW c \in 0 .. o - 1
            PROVE  (fol.flash[c] = "data" /\ ~Has(t, "start")) \/ Queued(c)'
        <4>1. CASE c = b
          <5>1. Len(fol.task) + 1 \in 1 .. Len(t) /\ t[Len(fol.task) + 1] = Write(c, "data")
            BY <2>2, <4>1 DEF w
          <5> QED BY <2>2, <2>5, <5>1 DEF Queued
        <4>2. CASE c # b
          <5>1. c \in 0 .. fol.off - 1
            BY <1>8, <2>4, <3>2, <4>2 DEF o
          <5>2. CASE Queued(c)
            <6>1. PICK i \in 1 .. Len(fol.task) : fol.task[i] = Write(c, "data") /\ NoneAfter(fol.task, i, "start")
              BY <5>2 DEF Queued
            <6>2. i \in 1 .. Len(t) /\ t[i] = Write(c, "data") /\ NoneAfter(t, i, "start")
              BY <2>1, <2>2, <6>1
            <6> QED BY <2>5, <6>2 DEF Queued
          <5>3. CASE fol.flash[c] = "data" /\ ~Has(fol.task, "start")
            BY <2>1, <2>2, <5>3
          <5> QED BY <3>2, <5>1, <5>2, <5>3 DEF IInv, Kept
        <4> QED BY <4>1, <4>2
      <3> QED BY <1>1, <2>5, <2>6, <3>1, <3>2 DEF Kept
    <2>12. Open'
      BY <1>1, <2>1, <2>2, <2>5, <2>6 DEF IInv, Open, Clear
    <2>13. Ends'
      <3>1. fol.size => ~Has(fol.task, "finish")
        BY <1>8, <2>4 DEF IInv, Ends
      <3>2. fol.size => ~Has(t, "finish") /\ \A i \in 1 .. Len(t) : t[i].id # "finish"
        <4>1. fol.size => ~Has(t, "finish")
          BY <2>1, <2>2, <3>1
        <4> QED BY <4>1 DEF Has
      <3> QED BY <1>1, <2>5, <2>6, <3>2 DEF IInv, Ends
    <2>14. Done'
      BY <1>1, <1>2, <1>3, <2>1, <2>2, <2>5, <2>6 DEF IInv, Done
    <2> QED BY <1>2, <1>4, <2>8, <2>9, <2>10, <2>11, <2>12, <2>13, <2>14 DEF IInv
  <1> QED BY <1>6, <1>7, <1>8

\* The follower is told to stop or to restart.
LEMMA FolRecvOther ==
  ASSUME IInv, FolRecv, Head(toFol).id \in {"STOP", "REBOOT"}
  PROVE  IInv'
  <1> DEFINE m == Head(toFol)
  <1>1. /\ fol \in FolType /\ toFol # <<>> /\ toFol' = Tail(toFol)
        /\ UNCHANGED <<src, toSrc, link, ble, enters, drops, failed>> /\ gap' \subseteq {"lapse", "stop"}
        /\ fol' = [fol EXCEPT !.sync = FALSE] \/ fol' = [fol EXCEPT !.reboot = TRUE]
    BY DEF IInv, TypeOK, FolRecv
  <1>2. /\ toFol' \in Seq(FolMsgs) /\ Answers'
        /\ \A i \in 1 .. Len(toFol') : toFol'[i].id = "START" => toFol'[i].mode = ModeOf
        /\ \A id : Has(toFol, id) <=> Has(toFol', id) \/ m.id = id
        /\ StartsOnce => (~ble => \A i \in 1 .. Len(toFol') :
                                    toFol'[i].id = "START" => NoneAfter(toFol', i, "START"))
    BY <1>1, TakenFrame
  <1>3. fol' \in FolType /\ AllBut(fol, fol', {"sync", "reboot"}) /\ (fol'.sync => fol.sync)
    BY <1>1 DEF FolType, AllBut
  <1>4. /\ fol'.size = fol.size /\ fol'.mode = fol.mode /\ fol'.off = fol.off /\ fol'.stop = fol.stop
        /\ fol'.flash = fol.flash /\ fol'.handle = fol.handle /\ fol'.task = fol.task
        /\ fol'.now = fol.now /\ fol'.later = fol.later
    BY <1>3 DEF AllBut
  <1> HIDE DEF m
  <1>5. Idle => Idle'
    BY <1>1, <1>2, <1>3, <1>4 DEF Idle
  <1>6. TypeOK' /\ SrcSound(src)'
    BY <1>1, <1>2, <1>3 DEF IInv, TypeOK
  <1>7. Unstarted' /\ StartsOnce'
    <2>1. Unstarted'
      BY <1>1 DEF IInv, Unstarted
    <2>2. StartsOnce'
      BY <1>1, <1>2, <1>4, <1>5 DEF IInv, StartsOnce, Clear
    <2> QED BY <2>1, <2>2
  <1>8. OneMode' /\ Closed'
    BY <1>1, <1>2, <1>4 DEF IInv, OneMode, ModeOf, Closed
  <1>9. Kept' /\ Open' /\ Ends'
    BY <1>1, <1>4 DEF IInv, Kept, Queued, Open, Clear, Ends
  <1>10. Done'
    BY <1>1, <1>2, <1>4, <1>5 DEF IInv, Done
  <1> QED BY <1>2, <1>6, <1>7, <1>8, <1>9, <1>10 DEF IInv

\* The follower is started: from nothing by an erase, after what it has overheard,
\* or once more.
LEMMA FolRecvStart ==
  ASSUME IInv, FolRecv, Head(toFol).id = "START"
  PROVE  IInv'
  <1> DEFINE m == Head(toFol)
             mode == m.mode
  <1>1. /\ fol \in FolType /\ toFol # <<>> /\ toFol' = Tail(toFol) /\ ble \in BOOLEAN /\ N \in Nat \ {0}
        /\ UNCHANGED <<src, toSrc, link, ble, enters, drops, failed>> /\ gap' \subseteq {"lapse", "stop"}
        /\ fol' = Started(mode)
    BY OtaSyncAssumption DEF IInv, TypeOK, FolRecv
  <1>2. /\ toFol' \in Seq(FolMsgs) /\ Answers' /\ m \in FolMsgs /\ m = toFol[1] /\ 1 \in 1 .. Len(toFol)
        /\ \A i \in 1 .. Len(toFol') : toFol'[i].id = "START" => toFol'[i].mode = ModeOf
        /\ \A id : Has(toFol, id) <=> Has(toFol', id) \/ m.id = id
        /\ NoneAfter(toFol, 1, "START") <=> ~Has(toFol', "START")
    BY <1>1, TakenFrame
  <1>3. mode = ModeOf /\ mode \in Modes /\ Has(toFol, "START")
    BY <1>2 DEF IInv, OneMode, ModeOf, Modes
  <1>4. ~fol.size => Idle
    BY <1>3 DEF IInv, Done
  <1>5. ~ble => /\ Idle /\ (failed \/ (fol.handle /\ Clear)) /\ ~Has(toFol', "START")
                /\ src.phase \notin {"entering", "update"}
    <2>1. ~ble => NoneAfter(toFol, 1, "START")
      BY <1>2 DEF IInv, StartsOnce
    <2> QED BY <1>2, <1>3, <2>1 DEF IInv, StartsOnce
  <1>6. TypeOK' /\ SrcSound(src)' /\ Unstarted' /\ StartsOnce'
    <2>1. fol' \in FolType
      <3> DEFINE o == IF mode = "partial" \/ ~fol.size THEN 0 ELSE fol.off
                 n == fol.now + 1
                 t == Append(fol.task, Plain("start"))
      <3>1. o \in 0 .. N /\ n \in Nat /\ t \in Seq(TaskMsgs)
        BY <1>1, FolFields, Made, AppendFacts
      <3> DEFINE f == [fol EXCEPT !.mode = mode, !.started = TRUE, !.sync = TRUE, !.off = o]
      <3>2. f \in FolType /\ f.now = fol.now /\ f.task = fol.task
        BY <1>1, <1>3, <3>1 DEF FolType
      <3>3. fol' = IF mode = "partial" \/ fol.size THEN [f EXCEPT !.size = TRUE, !.now = n]
                   ELSE [f EXCEPT !.size = TRUE, !.task = t, !.verified = FALSE]
        BY <1>1, <3>2 DEF Started, FolType
      <3> HIDE DEF f, n, t
      <3>4. [f EXCEPT !.size = TRUE, !.now = n] \in FolType
        BY <3>1, <3>2 DEF FolType
      <3>5. [f EXCEPT !.size = TRUE, !.task = t, !.verified = FALSE] \in FolType
        BY <3>1, <3>2 DEF FolType
      <3> QED BY <3>3, <3>4, <3>5
    <2>2. TypeOK' /\ SrcSound(src)'
      BY <1>1, <1>2, <2>1 DEF IInv, TypeOK
    <2>3. Unstarted'
      BY <1>1 DEF IInv, Unstarted
    <2>4. ~ble => \A i \in 1 .. Len(toFol') : toFol'[i].id # "START"
      BY <1>5 DEF Has
    <2>5. StartsOnce'
      BY <1>1, <1>5, <2>4 DEF StartsOnce
    <2> QED BY <2>2, <2>3, <2>5
  <1>7. fol'.mode = mode /\ fol'.size /\ fol'.stop = fol.stop /\ fol'.handle = fol.handle /\ fol'.flash = fol.flash
    BY <1>1 DEF Started, FolType
  <1>8. CASE ~fol.size /\ ble
    <2> DEFINE p == Plain("start")
    <2>1. mode = "complete" /\ Append(<<>>, p) = <<p>>
      BY <1>3, <1>8 DEF ModeOf
    <2>2. Idle
      BY <1>4, <1>8
    <2>3. fol'.off = 0 /\ fol'.task = Append(fol.task, Plain("start"))
      BY <1>1, <1>8, <2>1 DEF Started, FolType
    <2>4. fol.task = <<>>
      BY <2>2 DEF Idle
    <2> HIDE DEF p
    <2>5. p.id = "start" /\ fol'.task = <<p>>
      <3>1. Append(fol.task, p) = <<p>>
        BY <2>1, <2>4
      <3> QED BY <2>3, <3>1, Made DEF p
    <2>6. Len(fol'.task) = 1 /\ fol'.task[1] = p
      BY <2>5
    <2>7. Has(fol'.task, "start") /\ ~Has(fol'.task, "finish")
      BY <2>5, <2>6 DEF Has
    <2>8. OneMode' /\ Closed'
      BY <1>1, <1>2, <1>3, <1>7, <1>8, <2>3 DEF OneMode, ModeOf, Closed
    <2>9. Kept' /\ Open'
      <3>1. \A i \in 1 .. Len(fol'.task) : fol'.task[i].id # "write"
        BY <2>5, <2>6
      <3>2. \A b \in 0 .. fol'.off - 1 : FALSE
        BY <2>3
      <3> QED BY <2>7, <3>1, <3>2 DEF Kept, Open
    <2>10. Ends'
      BY <1>1, <1>7, <2>2, <2>5, <2>6, <2>7, EmptyFacts DEF Ends, Idle
    <2>11. Done'
      BY <1>7 DEF Done
    <2> QED BY <1>2, <1>6, <2>8, <2>9, <2>10, <2>11 DEF IInv
  <1>9. CASE ~ble
    <2>1. mode = "partial" /\ Idle
      BY <1>3, <1>5, <1>9 DEF ModeOf
    <2>2. fol'.off = 0 /\ fol'.task = fol.task /\ fol.task = <<>>
      BY <1>1, <2>1 DEF Started, FolType, Idle
    <2>3. Len(fol'.task) = 0 /\ \A id : ~Has(fol'.task, id)
      BY <2>2, EmptyFacts
    <2>4. OneMode' /\ Closed'
      BY <1>1, <1>2, <1>3, <1>7, <1>9, <2>3 DEF OneMode, ModeOf, Closed
    <2>5. Kept'
      <3>1. \A b \in 0 .. fol'.off - 1 : FALSE
        BY <2>2
      <3> QED BY <2>3, <3>1 DEF Kept
    <2>6. Open'
      BY <1>1, <1>5, <1>7, <1>9 DEF Open, Clear
    <2>7. Ends'
      BY <1>1, <1>7, <2>1, <2>2, <2>3, EmptyFacts DEF Ends, Idle
    <2>8. Done'
      BY <1>7 DEF Done
    <2> QED BY <1>2, <1>6, <2>4, <2>5, <2>6, <2>7, <2>8 DEF IInv
  <1>10. CASE fol.size /\ ble
    <2>1. mode = "complete"
      BY <1>3, <1>10 DEF ModeOf
    <2>2. fol'.off = fol.off /\ fol'.task = fol.task
      BY <1>1, <1>10, <2>1 DEF Started, FolType
    <2>3. OneMode' /\ Closed'
      BY <1>1, <1>2, <1>3, <1>7, <1>10, <2>2 DEF IInv, OneMode, ModeOf, Closed
    <2>4. Kept' /\ Open'
      BY <1>1, <1>7, <1>10, <2>2 DEF IInv, Kept, Queued, Open, Clear
    <2>5. Ends'
      BY <1>1, <1>7, <1>10, <2>2 DEF IInv, Ends
    <2>6. Done'
      BY <1>7 DEF Done
    <2> QED BY <1>2, <1>6, <2>3, <2>4, <2>5, <2>6 DEF IInv
  <1> QED BY <1>1, <1>8, <1>9, <1>10

LEMMA FolRecvStep == IInv /\ FolRecv => IInv'
  <1>1. IInv /\ FolRecv => Head(toFol).id \in {"STOP", "REBOOT", "START", "GET_DATA_RSP"}
    <2> SUFFICES ASSUME IInv, FolRecv PROVE Head(toFol).id \in {"STOP", "REBOOT", "START", "GET_DATA_RSP"}
      OBVIOUS
    <2>1. toFol \in Seq(FolMsgs) /\ toFol # <<>>
      BY DEF IInv, TypeOK, FolRecv
    <2>2. Head(toFol) \in FolMsgs
      BY <2>1, TailFacts
    <2> QED BY <2>2, Shapes
  <1> QED BY <1>1, FolRecvStart, FolRecvRsp, FolRecvOther

----------------------------------------------------------------------------
\* The link takes with it the end of what it carries.
LEMMA DownStep == IInv /\ Down => IInv'
  <1> SUFFICES ASSUME IInv, Down PROVE IInv'
    OBVIOUS
  <1>1. PICK n \in 0 .. Len(toFol), k \in 0 .. Len(toSrc) :
          /\ toFol' = SubSeq(toFol, 1, n) /\ toSrc' = SubSeq(toSrc, 1, k)
          /\ gap' = gap \cup {"stop" : x \in {x \in n + 1 .. Len(toFol) : toFol[x].id = "STOP"}}
    BY DEF Down
  <1>2. /\ UNCHANGED <<src, fol, ble, enters, failed>> /\ link' \in BOOLEAN /\ drops' \in 0 .. MaxDrops
        /\ toFol \in Seq(FolMsgs) /\ toSrc \in Seq(SrcMsgs)
    <2>1. drops' = drops + 1 /\ drops < MaxDrops /\ drops \in 0 .. MaxDrops /\ MaxDrops \in Nat
      BY OtaSyncAssumption DEF Down, IInv, TypeOK
    <2>2. drops' \in 0 .. MaxDrops
      BY <2>1
    <2>3. /\ UNCHANGED <<src, fol, ble, enters, failed>> /\ link' \in BOOLEAN
          /\ toFol \in Seq(FolMsgs) /\ toSrc \in Seq(SrcMsgs)
      BY DEF Down, IInv, TypeOK
    <2> QED BY <2>2, <2>3
  <1>3. gap' \subseteq {"lapse", "stop"}
    BY <1>1 DEF IInv, TypeOK
  <1>4. /\ toFol' \in Seq(FolMsgs) /\ Len(toFol') = n
        /\ \A i \in 1 .. n : i \in 1 .. Len(toFol) /\ toFol'[i] = toFol[i] /\ i \in Nat
        /\ \A id : Has(toFol', id) => Has(toFol, id)
        /\ \A id : \A i \in Nat : NoneAfter(toFol, i, id) => NoneAfter(toFol', i, id)
    <2>1. \A i \in 1 .. n : i \in Nat
      OBVIOUS
    <2> QED BY <1>1, <1>2, <2>1, PrefixFacts
  <1>5. /\ toSrc' \in Seq(SrcMsgs) /\ (\A id : Has(toSrc', id) => Has(toSrc, id))
        /\ toSrc = <<>> => toSrc' = <<>>
    <2>1. /\ toSrc' \in Seq(SrcMsgs) /\ (\A id : Has(toSrc', id) => Has(toSrc, id)) /\ Len(toSrc') = k
      BY <1>1, <1>2, PrefixFacts
    <2>2. toSrc = <<>> => Len(toSrc') = 0
      BY <1>1, <2>1
    <2> QED BY <2>1, <2>2, EmptySeq
  <1>6. Idle => Idle'
    BY <1>2, <1>4, <1>5 DEF Idle
  <1>7. TypeOK' /\ SrcSound(src)'
    BY <1>2, <1>3, <1>4, <1>5 DEF IInv, TypeOK
  <1>8. Unstarted'
    <2>1. toFol = <<>> => toFol' = <<>>
      <3>1. toFol = <<>> => Len(toFol') = 0
        BY <1>1, <1>4
      <3> QED BY <1>4, <3>1, EmptySeq
    <2> QED BY <1>2, <1>6, <2>1 DEF IInv, Unstarted
  <1>9. OneMode' /\ StartsOnce'
    <2>1. OneMode'
      BY <1>2, <1>4 DEF IInv, OneMode, ModeOf
    <2>2. StartsOnce'
      BY <1>2, <1>4, <1>6 DEF IInv, StartsOnce, Clear
    <2> QED BY <2>1, <2>2
  <1>10. Answers' /\ Closed'
    BY <1>2, <1>4 DEF IInv, Answers, Closed
  <1>11. Kept' /\ Open' /\ Ends'
    BY <1>2, <1>5 DEF IInv, Kept, Queued, Open, Clear, Ends
  <1>12. Done'
    BY <1>2, <1>4, <1>6 DEF IInv, Done
  <1> QED BY <1>7, <1>8, <1>9, <1>10, <1>11, <1>12 DEF IInv

LEMMA UpStep == IInv /\ Up => IInv'
  <1> SUFFICES ASSUME IInv, Up PROVE IInv'
    OBVIOUS
  <1>1. /\ UNCHANGED <<src, fol, toFol, toSrc, ble, enters, drops, failed, gap>> /\ link' \in BOOLEAN
        /\ fol \in FolType /\ drops \in 0 .. MaxDrops /\ gap \subseteq {"lapse", "stop"}
    BY DEF IInv, TypeOK, Up
  <1>2. AllBut(fol, fol', {"down", "reboot"})
    BY <1>1 DEF AllBut
  <1> QED BY <1>1, <1>2, SameFollower

LEMMA StutterStep == IInv /\ UNCHANGED vars => IInv'
  <1> SUFFICES ASSUME IInv, UNCHANGED vars PROVE IInv'
    OBVIOUS
  <1>1. /\ UNCHANGED <<src, fol, toFol, toSrc, ble, enters, drops, failed, gap, link>>
        /\ fol \in FolType /\ drops \in 0 .. MaxDrops /\ gap \subseteq {"lapse", "stop"} /\ link \in BOOLEAN
    BY DEF IInv, TypeOK, vars
  <1>2. AllBut(fol, fol', {"down", "reboot"})
    BY <1>1 DEF AllBut
  <1> QED BY <1>1, <1>2, SameFollower

LEMMA InitStep == Init => IInv
  <1> SUFFICES ASSUME Init PROVE IInv
    OBVIOUS
  <1>1. /\ src = Source /\ fol = Follower /\ toFol = <<>> /\ toSrc = <<>> /\ enters = 0 /\ drops = 0
        /\ failed = FALSE /\ gap = {} /\ link \in BOOLEAN /\ ble \in BOOLEAN
        /\ N \in Nat \ {0} /\ MaxEnters \in Nat /\ MaxDrops \in Nat
    BY OtaSyncAssumption DEF Init
  <1>2. src \in SrcType
    <2>1. <<>> \in Seq(TaskMsgs) /\ 0 \in 0 .. N /\ [b \in Blocks |-> "erased"] \in [Blocks -> Pages]
      BY <1>1 DEF Pages
    <2> QED BY <1>1, <2>1 DEF Source, SrcType
  <1>3. fol \in FolType
    <2>1. /\ <<>> \in Seq(TaskMsgs) /\ 0 \in 0 .. N /\ [b \in Blocks |-> "other"] \in [Blocks -> Pages]
          /\ 0 \in Nat /\ "complete" \in Modes
      BY <1>1 DEF Pages, Modes
    <2> QED BY <1>1, <2>1 DEF Follower, FolType
  <1>4. TypeOK
    <2>1. /\ 0 \in 0 .. MaxEnters /\ 0 \in 0 .. MaxDrops /\ FALSE \in BOOLEAN
          /\ <<>> \in Seq(FolMsgs) /\ <<>> \in Seq(SrcMsgs)
      BY <1>1
    <2> QED BY <1>1, <1>2, <1>3, <2>1 DEF TypeOK
  <1>5. Len(toFol) = 0 /\ Len(fol.task) = 0 /\ Len(src.task) = 0 /\ fol.task = <<>> /\ src.task = <<>>
    BY <1>1 DEF Source, Follower
  <1>6. Idle
    BY <1>1, EmptyFacts DEF Follower, Idle
  <1>7. SrcSound(src)
    BY <1>1, <1>5 DEF SrcSound, Source, Image, Blocks
  <1>8. Unstarted /\ OneMode /\ StartsOnce /\ Answers
    BY <1>1, <1>5, <1>6, EmptyFacts DEF Unstarted, OneMode, StartsOnce, Answers, Source, Follower
  <1>9. Closed /\ Kept /\ Open /\ Ends /\ Done
    BY <1>1, <1>5, <1>6, EmptyFacts DEF Closed, Kept, Open, Ends, Done, Follower
  <1> QED BY <1>4, <1>6, <1>7, <1>8, <1>9 DEF IInv

----------------------------------------------------------------------------
\* The inductive invariant: what the source has written, what waits in the two
\* ota tasks' queues and what is on its way between the buds agree with the
\* follower's offset (app_ota_sync.c, ota_task.c).
THEOREM IInvInvariant == Spec => []IInv
  <1>1. IInv /\ [Next]_vars => IInv'
    BY EnterStep, BlockStep, FinishStep, ExitStep, RebootStep, SrcTaskStep, SrcRecvStep, FolGetDataStep,
       FolStopStep, FolRecvStep, FolTaskStep, DoRebootStep, DownStep, UpStep, StutterStep DEF Next
  <1> QED BY <1>1, InitStep, PTL DEF Spec

\* Types: no offset passes the end of the image, and no message of the wrong
\* kind is on its way.
THEOREM TypeCorrect == Spec => []TypeOK
  <1>1. IInv => TypeOK
    BY DEF IInv
  <1> QED BY <1>1, IInvInvariant, PTL

\* No block below the follower's offset is missing (m_file_offset in
\* app_ota_sync.c), for images of any size and links lost any number of times.
THEOREM NothingSkipped == Spec => []NoHole
  <1>1. IInv => NoHole
    <2> SUFFICES ASSUME IInv, fol.size, ~failed, NEW b \in 0 .. fol.off - 1
                 PROVE  \/ fol.flash[b] = "data"
                        \/ \E i \in DOMAIN fol.task : fol.task[i] = Write(b, "data")
      BY DEF NoHole
    <2>1. fol.task \in Seq(TaskMsgs)
      BY FolFields DEF IInv, TypeOK
    <2>2. DOMAIN fol.task = 1 .. Len(fol.task)
      BY <2>1, LenProperties
    <2>3. fol.flash[b] = "data" \/ Queued(b)
      BY DEF IInv, Kept
    <2> QED BY <2>2, <2>3 DEF Queued
  <1> QED BY <1>1, IInvInvariant, PTL

\* When the source takes the report that the follower is done, the follower has
\* the whole image (OTA_SYNC_REMOTE_MSG_ID_DONE_REPORT).
THEOREM DoneIsComplete == Spec => DoneMeansComplete
  <1>1. IInv /\ [Next]_vars =>
          [src.sync /\ ~src'.sync /\ toSrc # <<>> /\ toSrc' = Tail(toSrc) /\ ~failed
             => fol.flash = Whole]_vars
    <2> SUFFICES ASSUME IInv, [Next]_vars, src.sync, ~src'.sync, toSrc # <<>>, toSrc' = Tail(toSrc), ~failed
                 PROVE  fol.flash = Whole
      OBVIOUS
    <2>1. Has(toSrc, "DONE_REPORT") => fol.flash = Whole
      <3>1. ~Idle
        BY DEF Idle
      <3> QED BY <3>1 DEF IInv, Ends, Done
    <2>2. toSrc \in Seq(SrcMsgs)
      BY DEF IInv, TypeOK
    <2>3. Head(toSrc) \in SrcMsgs /\ (Head(toSrc).id = "DONE_REPORT" => Has(toSrc, "DONE_REPORT"))
          /\ toSrc' # toSrc
      <3>1. Len(Tail(toSrc)) = Len(toSrc) - 1 /\ Len(toSrc) \in Nat
        BY <2>2, TailFacts
      <3>2. Tail(toSrc) # toSrc
        <4> DEFINE t == Tail(toSrc)
        <4>1. Len(t) = Len(toSrc) - 1 /\ Len(toSrc) \in Nat
          BY <3>1
        <4> HIDE DEF t
        <4>2. t # toSrc
          BY <4>1
        <4> QED BY <4>2 DEF t
      <3> QED BY <2>2, <3>2, TailFacts
    <2>4. SrcRecv \/ UNCHANGED src \/ UNCHANGED toSrc
      BY DEF Next, vars, Enter, Block, Finish, Exit, Reboot, SrcTask, FolGetData, FolStop, FolRecv, FolTask,
             DoReboot, Down, Up
    <2>5. SrcRecv => Head(toSrc).id = "DONE_REPORT"
      BY DEF SrcRecv
    <2> QED BY <2>1, <2>3, <2>4, <2>5
  <1> QED BY <1>1, IInvInvariant, PTL DEF Spec, DoneMeansComplete
=============================================================================
