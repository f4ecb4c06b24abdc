--------------------------- MODULE AppMainProofs ---------------------------
(***************************************************************************)
(* What AppMain guarantees for every number of slots, queue length and set *)
(* of keys: types, the soundness of queued triggers, the marker of a       *)
(* cancellation and the ownership of messages; and what app_cancel_msg     *)
(* guarantees its caller and everyone else: nothing of its key stays       *)
(* pending, and the rotation of the queue neither reorders nor loses what  *)
(* is not its own unless something arrives while it is under way.          *)
(***************************************************************************)
EXTENDS AppMain, TLAPS

USE DEF HasRoom, RotateTurns, Taken

Rotating == pc \in {"rotateTake", "rotatePut"}

\* The turns left to the rotation, the one under way not counted.
Left == IF pc = "rotatePut" THEN QSize - cancel.i - 1 ELSE QSize - cancel.i

\* A timer that exists belongs to a slot in use with a message.
TimerOwned == \A s \in Slots :
  timers[s].tid # "null" => timers[s].used /\ timers[s].msg # 0

\* While the slot is examined it is a slot; from then on its timer is gone, so
\* that no trigger of its own can still arrive behind the marker.
CancelSlot ==
  /\ pc \in {"cancelTest", "cancelDelete"} => cancel.slot \in Slots
  /\ pc \in {"cancelMark", "rotateTake", "rotatePut"} =>
       (cancel.slot \in Slots => timers[cancel.slot].tid = "null")

\* cancel.i turns are done; the one under way took cancel.msg.
CancelTurns ==
  /\ pc \in {"cancelTest", "cancelDelete", "cancelMark"} =>
       cancel.i = 0 /\ cancel.head = FALSE
  /\ pc = "rotatePut" => cancel.i < QSize /\ cancel.msg # Marker
  /\ pc = "rotatePut" => cancel.msg # Trigger(cancel.slot)

\* One marker, within the turns left, exactly while a rotation that sent it runs.
MarkerSound ==
  /\ \A i \in DOMAIN queue : queue[i] = Marker =>
       /\ Rotating /\ cancel.head /\ i <= Left
       /\ \A j \in DOMAIN queue : queue[j] = Marker => i = j
  /\ Rotating /\ cancel.head => \E i \in DOMAIN queue : queue[i] = Marker

\* The trigger of the freed slot is ahead of the marker, or within the turns.
StaleAhead ==
  Rotating => \A j \in DOMAIN queue : queue[j] = Trigger(cancel.slot) =>
    /\ j <= Left
    /\ \A p \in DOMAIN queue : queue[p] = Marker => j < p

\* Messages not yet generated have no owner.
Fresh ==
  /\ \A i \in DOMAIN queue : queue[i].kind = "msg" => queue[i].n <= sent
  /\ pc = "rotatePut" /\ cancel.msg.kind = "msg" => cancel.msg.n <= sent
  /\ \A s \in Slots : timers[s].msg <= sent

IInv ==
  /\ TypeOK /\ TimerOwned /\ CancelSlot /\ CancelTurns
  /\ MarkerSound /\ StaleAhead /\ TriggerSound
  /\ Fresh /\ OneOwner

----------------------------------------------------------------------------
\* What sending to the queue does: it grows by one item, at its end.
LEMMA AppendFacts ==
  ASSUME NEW S, NEW q \in Seq(S), NEW x \in S
  PROVE  LET r == Append(q, x)
         IN /\ r \in Seq(S)
            /\ Len(r) = Len(q) + 1
            /\ DOMAIN r = 1 .. Len(q) + 1
            /\ DOMAIN q = 1 .. Len(q)
            /\ Len(q) \in Nat
            /\ \A i \in 1 .. Len(q) : r[i] = q[i]
            /\ r[Len(q) + 1] = x
  OBVIOUS

\* What receiving from the queue does: it loses its head, the rest moves up.
LEMMA TailFacts ==
  ASSUME NEW S, NEW q \in Seq(S), q # <<>>
  PROVE  LET r == Tail(q)
         IN /\ r \in Seq(S)
            /\ Len(r) = Len(q) - 1
            /\ Len(q) \in Nat \ {0}
            /\ DOMAIN r = 1 .. Len(q) - 1
            /\ DOMAIN q = 1 .. Len(q)
            /\ \A i \in 1 .. Len(q) - 1 : r[i] = q[i + 1]
            /\ Head(q) = q[1]
            /\ Head(q) \in S
  OBVIOUS

\* The three kinds of item, and what their number is.
LEMMA ItemFacts ==
  /\ \A m \in Msgs : Message(m) \in Items
  /\ \A s \in Slots : Trigger(s) \in Items
  /\ Marker \in Items
  /\ \A x \in Items :
       /\ x.kind = "msg" => x.n \in Msgs /\ x = Message(x.n)
       /\ x.kind = "trigger" => x.n \in Slots /\ x = Trigger(x.n)
       /\ x.kind \notin {"msg", "trigger"} => x = Marker
       /\ x = Marker => x.kind = "head"
  /\ \A m : Message(m).kind = "msg" /\ Message(m).n = m
  /\ \A s : Trigger(s).kind = "trigger" /\ Trigger(s).n = s
  BY DEF Message, Trigger, Marker, Items

\* The locals with which app_cancel_msg starts, and the idle ones, have their type.
LEMMA CancelOfFacts ==
  /\ \A s \in 0 .. NSlots, k \in Keys, n \in 0 .. MaxMsgs :
       LET c == CancelOf(s, k, n)
       IN c \in CancelType /\ c.slot = s /\ c.i = 0 /\ c.head = FALSE
  /\ NoCancel \in CancelType /\ NoCancel.slot = 0 /\ NoCancel.i = 0
  <1>1. ASSUME NEW s \in 0 .. NSlots, NEW k \in Keys, NEW n \in 0 .. MaxMsgs
        PROVE  LET c == CancelOf(s, k, n)
               IN c \in CancelType /\ c.slot = s /\ c.i = 0 /\ c.head = FALSE
    BY AppMainAssumption DEF CancelOf, CancelType, Items
  <1>2. (CHOOSE k \in Keys : TRUE) \in Keys /\ 0 \in 0 .. NSlots /\ 0 \in 0 .. MaxMsgs
    BY AppMainAssumption
  <1> QED BY <1>1, <1>2 DEF NoCancel

\* What app_cancel_msg does to its locals.
LEMMA CancelFacts ==
  ASSUME NEW c \in CancelType
  PROVE  /\ LET d == [c EXCEPT !.head = TRUE]
            IN d \in CancelType /\ d.slot = c.slot /\ d.i = c.i /\ d.head = TRUE
         /\ \A x \in Items :
              LET d == [c EXCEPT !.msg = x]
              IN /\ d \in CancelType /\ d.slot = c.slot /\ d.i = c.i /\ d.head = c.head
                 /\ d.msg = x
         /\ c.i < QSize =>
              \A x \in Items :
                LET d == [c EXCEPT !.i = @ + 1, !.msg = x]
                IN /\ d \in CancelType /\ d.slot = c.slot /\ d.i = c.i + 1
                   /\ d.head = c.head /\ d.msg = x
         /\ c.i < QSize =>
              LET d == [c EXCEPT !.i = @ + 1]
              IN /\ d \in CancelType /\ d.slot = c.slot /\ d.i = c.i + 1
                 /\ d.head = c.head /\ d.msg = c.msg
  <1> USE DEF CancelType
  <1>3. LET d == [c EXCEPT !.head = TRUE]
        IN d \in CancelType /\ d.slot = c.slot /\ d.i = c.i /\ d.head = TRUE
    OBVIOUS
  <1>4. ASSUME NEW x \in Items
        PROVE  LET d == [c EXCEPT !.msg = x]
               IN /\ d \in CancelType /\ d.slot = c.slot /\ d.i = c.i /\ d.head = c.head
                  /\ d.msg = x
    OBVIOUS
  <1>5. ASSUME c.i < QSize, NEW x \in Items
        PROVE  LET d == [c EXCEPT !.i = @ + 1, !.msg = x]
               IN /\ d \in CancelType /\ d.slot = c.slot /\ d.i = c.i + 1
                  /\ d.head = c.head /\ d.msg = x
    <2>1. c.i + 1 \in 0 .. QSize
      BY <1>5, AppMainAssumption
    <2> DEFINE b == [c EXCEPT !.i = @ + 1]
               d == [c EXCEPT !.i = @ + 1, !.msg = x]
    <2>2. d = [b EXCEPT !.msg = x]
      BY Zenon
    <2>3. b \in CancelType /\ b.slot = c.slot /\ b.i = c.i + 1 /\ b.head = c.head
      BY <2>1
    <2> HIDE DEF b
    <2>4. LET e == [b EXCEPT !.msg = x]
          IN /\ e \in CancelType /\ e.slot = c.slot /\ e.i = c.i + 1
             /\ e.head = c.head /\ e.msg = x
      BY <2>3
    <2> QED BY <2>2, <2>4
  <1>6. ASSUME c.i < QSize
        PROVE  LET d == [c EXCEPT !.i = @ + 1]
               IN /\ d \in CancelType /\ d.slot = c.slot /\ d.i = c.i + 1
                  /\ d.head = c.head /\ d.msg = c.msg
    BY <1>6, AppMainAssumption
  <1> HIDE DEF CancelType
  <1> QED BY <1>3, <1>4, <1>5, <1>6

\* The types in the form the steps below need them.
LEMMA TypeFacts ==
  ASSUME TypeOK
  PROVE  /\ queue \in Seq(Items)
         /\ Len(queue) \in 0 .. QSize /\ DOMAIN queue = 1 .. Len(queue)
         /\ \A i \in DOMAIN queue :
              /\ queue[i] \in Items
              /\ queue[i].kind = "msg" => queue[i].n \in Msgs
              /\ queue[i].kind = "trigger" => queue[i].n \in Slots
         /\ \A s \in Slots :
              /\ timers[s] \in SlotType
              /\ timers[s].msg \in 0 .. MaxMsgs
              /\ timers[s].msg # 0 => timers[s].msg \in Msgs
         /\ cancel \in CancelType
         /\ cancel.slot \in 0 .. NSlots /\ cancel.i \in 0 .. QSize
         /\ cancel.msg \in Items
         /\ cancel.msg.kind = "msg" => cancel.msg.n \in Msgs
         /\ cancel.msg.kind = "trigger" => cancel.msg.n \in Slots
         /\ sent \in 0 .. MaxMsgs
  <1>1. queue \in Seq(Items) /\ Len(queue) <= QSize
    BY DEF TypeOK
  <1>2. Len(queue) \in 0 .. QSize /\ DOMAIN queue = 1 .. Len(queue)
    BY <1>1, AppMainAssumption
  <1>3. \A i \in DOMAIN queue : queue[i] \in Items
    BY <1>1
  <1>4. \A s \in Slots : timers[s] \in SlotType
    BY DEF TypeOK
  <1>5. \A t \in SlotType : t.msg \in 0 .. MaxMsgs /\ (t.msg # 0 => t.msg \in Msgs)
    BY AppMainAssumption DEF SlotType, Msgs
  <1>6. cancel \in CancelType /\ sent \in 0 .. MaxMsgs
    BY DEF TypeOK
  <1>7. cancel.slot \in 0 .. NSlots /\ cancel.i \in 0 .. QSize /\ cancel.msg \in Items
    BY <1>6 DEF CancelType
  <1> QED BY <1>1, <1>2, <1>3, <1>4, <1>5, <1>6, <1>7, ItemFacts

\* With an empty queue and no slot in use there is nothing to own.
LEMMA InitIInv == Init => IInv
  <1> SUFFICES ASSUME Init PROVE IInv
    OBVIOUS
  <1> USE AppMainAssumption DEF Init
  <1>1. TypeOK
    <2>1. (CHOOSE k \in Keys : TRUE) \in Keys
      OBVIOUS
    <2>2. FreeSlot \in SlotType
      BY DEF FreeSlot, SlotType
    <2>3. cancel \in CancelType
      BY CancelOfFacts
    <2>4. queue \in Seq(Items) /\ Len(queue) <= QSize
      OBVIOUS
    <2>5. keyOf \in [Msgs -> Keys] /\ fate \in [Msgs -> Fates]
      BY <2>1 DEF Fates
    <2>6. timers \in [Slots -> SlotType]
      BY <2>2
    <2>7. pc \in Pcs
      BY DEF Pcs
    <2>8. ft \in BOOLEAN /\ mixed \in BOOLEAN
      BY Zenon
    <2>9. sent \in 0 .. MaxMsgs
      OBVIOUS
    <2> QED BY <2>3, <2>4, <2>5, <2>6, <2>7, <2>8, <2>9 DEF TypeOK
  <1>2. /\ TimerOwned /\ CancelSlot /\ CancelTurns
        /\ MarkerSound /\ StaleAhead /\ TriggerSound
        /\ Fresh /\ OneOwner
    BY DEF TimerOwned, CancelSlot, CancelTurns, MarkerSound, StaleAhead, TriggerSound, Fresh,
           OneOwner, Rotating, FreeSlot
  <1> QED BY <1>1, <1>2 DEF IInv

\* A message sent goes to the tail of the queue and is nobody else's.
LEMMA SendMsgIInv ==
  ASSUME IInv, NEW k \in Keys, SendMsg(k), pc # "fault", mixed' \in BOOLEAN
  PROVE  IInv'
  <1> USE AppMainAssumption DEF IInv, SendMsg, GenMsg
  <1> DEFINE x == Message(sent + 1)
  <1>1. x \in Items /\ x.kind = "msg" /\ x.n = sent + 1 /\ x # Marker
    BY DEF TypeOK, Message, Items, Marker, Msgs
  <1>2. /\ queue' \in Seq(Items)
        /\ DOMAIN queue' = 1 .. Len(queue) + 1
        /\ DOMAIN queue = 1 .. Len(queue)
        /\ Len(queue) \in Nat
        /\ Len(queue') = Len(queue) + 1
        /\ \A i \in 1 .. Len(queue) : queue'[i] = queue[i]
        /\ queue'[Len(queue) + 1] = x
    BY <1>1, AppendFacts DEF TypeOK
  <1>3. TypeOK'
    BY <1>2 DEF TypeOK, Msgs, Fates
  <1>4. sent + 1 \in Msgs /\ fate' = [fate EXCEPT ![sent + 1] = "queued"]
    BY DEF TypeOK, Msgs
  <1>5. TimerOwned' /\ CancelSlot' /\ CancelTurns'
    BY DEF TimerOwned, CancelSlot, CancelTurns, Trigger
  <1>6. MarkerSound'
    BY <1>1, <1>2 DEF MarkerSound, Rotating, Left
  <1>7. StaleAhead'
    BY <1>1, <1>2 DEF StaleAhead, Rotating, Left, Trigger
  <1>8. TriggerSound'
    BY <1>1, <1>2 DEF TriggerSound, AwaitsTrigger, InHand
  <1>9. Fresh'
    <2>1. sent \in Nat /\ \A s \in Slots : timers[s].msg \in Nat
      BY DEF TypeOK, SlotType
    <2>2. \A i \in DOMAIN queue : queue[i] \in Items
      BY DEF TypeOK
    <2>3. cancel.msg \in Items
      BY TypeFacts
    <2> QED BY <1>1, <1>2, <2>1, <2>2, <2>3, ItemFacts DEF Fresh, Msgs
  <1>10. OneOwner'
    BY <1>1, <1>2, <1>3, <1>4 DEF OneOwner, Fresh, InHand, TypeOK, SlotType, Items
  <1> QED BY <1>3, <1>5, <1>6, <1>7, <1>8, <1>9, <1>10

\* The daemon posts the trigger of a running timer, for which there is none
\* yet, or frees the slot, whose message no one else has.
LEMMA TimerFireIInv ==
  ASSUME IInv, NEW s \in Slots, TimerFire(s)
  PROVE  IInv'
  <1> USE AppMainAssumption DEF IInv, TimerFire
  <1> DEFINE x == Trigger(s)
  <1>1. x \in Items /\ x.kind = "trigger" /\ x.n = s /\ x # Marker
    BY ItemFacts DEF Trigger, Marker
  <1>2. timers[s] \in SlotType /\ timers[s].used /\ timers[s].msg # 0
    BY DEF TypeOK, TimerOwned
  <1>3. CASE TriggerPosted(s)
    <2> USE <1>3 DEF TriggerPosted
    <2>1. /\ queue' \in Seq(Items)
          /\ DOMAIN queue' = 1 .. Len(queue) + 1
          /\ DOMAIN queue = 1 .. Len(queue)
          /\ Len(queue) \in Nat
          /\ Len(queue') = Len(queue) + 1
          /\ \A i \in 1 .. Len(queue) : queue'[i] = queue[i]
          /\ queue'[Len(queue) + 1] = x
      BY <1>1, <1>3, TypeFacts, AppendFacts
    <2>2. /\ timers' = [timers EXCEPT ![s].tid = "expired"]
          /\ UNCHANGED <<pc, cancel, ft, sent, keyOf, fate>>
          /\ mixed' = (mixed \/ pc \in {"rotateTake", "rotatePut"})
      BY <1>3, <2>1 DEF TypeOK
    <2>3. timers' \in [Slots -> SlotType]
      BY <1>2, <2>2 DEF TypeOK, SlotType
    <2>20. mixed' \in BOOLEAN
      BY <2>2, Zenon
    <2>4. TypeOK'
      BY <1>3, <2>1, <2>2, <2>3, <2>20 DEF TypeOK
    <2>5. /\ \A r \in Slots : r # s => timers'[r] = timers[r]
          /\ timers'[s].used /\ timers'[s].tid = "expired" /\ timers'[s].msg = timers[s].msg
      BY <1>2, <2>2 DEF TypeOK, SlotType
    <2>6. TimerOwned' /\ CancelTurns'
      BY <1>2, <2>2, <2>5 DEF TimerOwned, CancelTurns
    <2>7. CancelSlot'
      BY <1>2, <2>2, <2>5 DEF CancelSlot
    <2>8. MarkerSound'
      BY <1>1, <2>1, <2>2 DEF MarkerSound, Rotating, Left
    <2>9. Rotating => x # Trigger(cancel.slot)
      BY <1>1, ItemFacts DEF CancelSlot, Rotating
    <2>10. StaleAhead'
      BY <1>1, <2>1, <2>2, <2>9 DEF StaleAhead, Rotating, Left
    <2>11. \A i \in DOMAIN queue : queue[i] # x
      BY <1>1 DEF TriggerSound, AwaitsTrigger, CancelSlot
    <2>12. ~InHand(x)
      BY <1>1 DEF InHand, TriggerSound, AwaitsTrigger, CancelSlot
    <2>13. \A r \in Slots : AwaitsTrigger(r) => AwaitsTrigger(r)'
      BY <2>2, <2>5, <1>2 DEF AwaitsTrigger
    <2>14. AwaitsTrigger(s)'
      BY <2>5, <1>2 DEF AwaitsTrigger
    <2>15. \A i \in DOMAIN queue : queue[i].kind = "trigger" => queue[i].n \in Slots
      BY ItemFacts DEF TypeOK
    <2>16. TriggerSound'
      <3>1. (\A i \in DOMAIN queue : queue[i].kind = "trigger" => AwaitsTrigger(queue[i].n))'
        BY <1>1, <2>1, <2>13, <2>14, <2>15 DEF TriggerSound
      <3>2. (\A i \in DOMAIN queue : queue[i].kind = "trigger" => ~InHand(queue[i]))'
        BY <1>1, <2>1, <2>2, <2>12 DEF TriggerSound, InHand
      <3>3. (\A i, j \in DOMAIN queue :
               queue[i].kind = "trigger" /\ queue[j] = queue[i] => i = j)'
        BY <1>1, <2>1, <2>11 DEF TriggerSound
      <3>4. (pc = "rotatePut" /\ cancel.msg.kind = "trigger" => AwaitsTrigger(cancel.msg.n))'
        BY <2>2, <2>13, TypeFacts DEF TriggerSound
      <3> QED BY <3>1, <3>2, <3>3, <3>4 DEF TriggerSound, InHand
    <2>17. \A r \in Slots : timers'[r].msg = timers[r].msg
      BY <2>5
    <2>18. Fresh'
      BY <1>1, <2>1, <2>2, <2>17 DEF Fresh
    <2>19. OneOwner'
      BY <1>1, <2>1, <2>2, <2>17 DEF OneOwner, InHand
    <2> QED BY <2>4, <2>6, <2>7, <2>8, <2>10, <2>16, <2>18, <2>19
  <1>4. CASE TriggerRefused(s)
    <2> USE <1>4 DEF TriggerRefused
    <2>1. /\ timers' = [timers EXCEPT ![s] = FreeSlot]
          /\ fate' = [fate EXCEPT ![timers[s].msg] = "expiredLost"]
          /\ UNCHANGED <<queue, pc, cancel, ft, sent, keyOf, mixed>>
      BY <1>4 DEF TypeOK
    <2>2. timers[s].msg \in Msgs
      BY <1>2 DEF SlotType, Msgs
    <2>3. TypeOK'
      BY <2>1, <2>2 DEF TypeOK, FreeSlot, SlotType, Fates
    <2>4. /\ \A r \in Slots : r # s => timers'[r] = timers[r]
          /\ timers'[s].tid = "null" /\ timers'[s].msg = 0
      BY <2>1 DEF TypeOK, FreeSlot
    <2>5. TimerOwned' /\ CancelTurns' /\ CancelSlot' /\ MarkerSound' /\ StaleAhead'
      BY <2>1, <2>4 DEF TimerOwned, CancelTurns, CancelSlot, MarkerSound, StaleAhead, Rotating,
         Left, Trigger
    <2>6. TriggerSound'
      BY <2>1, <2>4 DEF TriggerSound, AwaitsTrigger, InHand
    <2>7. Fresh'
      BY <2>1, <2>4 DEF Fresh, TypeOK
    <2>8. \A i \in DOMAIN queue : queue[i].kind = "msg" => queue[i].n # timers[s].msg
      BY <1>2 DEF OneOwner
    <2>9. pc = "rotatePut" /\ cancel.msg.kind = "msg" => cancel.msg.n # timers[s].msg
      BY <1>2 DEF OneOwner
    <2>10. \A m \in Msgs : m # timers[s].msg => fate'[m] = fate[m]
      BY <2>1 DEF TypeOK
    <2>11. /\ \A i \in DOMAIN queue : queue[i].kind = "msg" => queue[i].n \in Msgs
           /\ cancel.msg.kind = "msg" => cancel.msg.n \in Msgs
           /\ \A r \in Slots : timers[r].msg # 0 => timers[r].msg \in Msgs
      BY TypeFacts
    <2>12. OneOwner'
      BY <1>2, <2>1, <2>4, <2>8, <2>9, <2>10, <2>11 DEF OneOwner, InHand
    <2> QED BY <2>3, <2>5, <2>6, <2>7, <2>12
  <1> QED BY <1>3, <1>4

\* A slot is taken only when it is free, and so has no trigger under way.
LEMMA SendDelayIInv ==
  ASSUME IInv, NEW k \in Keys, SendDelay(k)
  PROVE  IInv'
  <1> USE AppMainAssumption DEF IInv, SendDelay
  <1>1. PICK s \in Slots : /\ AllocSlot(s)
                           /\ DelayStarted(s, k) \/ DelayNoMsg(s) \/ DelayNoTimer(k)
    OBVIOUS
  <1>2. /\ UNCHANGED <<queue, pc, cancel, ft, mixed>>
        /\ pc = "handler"
    OBVIOUS
  <1>3. ~timers[s].used /\ timers[s] \in SlotType /\ timers[s].tid = "null"
    BY <1>1 DEF AllocSlot, TypeOK, TimerOwned
  <1>4. \A i \in DOMAIN queue : queue[i].kind = "trigger" => queue[i].n # s
    BY <1>2, <1>3 DEF TriggerSound, AwaitsTrigger
  <1>5. CancelTurns' /\ MarkerSound' /\ StaleAhead' /\ CancelSlot'
    BY <1>2 DEF CancelSlot, CancelTurns, MarkerSound, StaleAhead, Rotating, Left
  <1>6. \A i \in DOMAIN queue : queue[i].kind = "trigger" => queue[i].n \in Slots
    BY ItemFacts DEF TypeOK
  <1>7. \A i \in DOMAIN queue : queue[i].kind = "msg" => queue[i].n \in Msgs
    BY ItemFacts DEF TypeOK
  <1>8. ASSUME \A r \in Slots : r # s => timers'[r] = timers[r]
        PROVE  TriggerSound'
    BY <1>2, <1>4, <1>6, <1>8 DEF TriggerSound, AwaitsTrigger, InHand
  <1>9. CASE DelayStarted(s, k)
    <2> USE <1>9 DEF DelayStarted, GenMsg
    <2>1. sent + 1 \in Msgs /\ sent \in Nat
      BY DEF TypeOK, Msgs
    <2>2. TypeOK'
      BY <1>2, <2>1 DEF TypeOK, SlotType, Fates, Msgs
    <2>3. /\ \A r \in Slots : r # s => timers'[r] = timers[r]
          /\ timers'[s] = [used |-> TRUE, tid |-> "running", msg |-> sent + 1]
      BY DEF TypeOK
    <2>4. TimerOwned'
      BY <2>1, <2>3 DEF TimerOwned
    <2>5. TriggerSound'
      BY <1>8, <2>3
    <2>6. Fresh'
      BY <1>2, <1>7, <2>1, <2>3 DEF Fresh, TypeOK, SlotType, Msgs
    <2>7. /\ fate'[sent + 1] = "delayed"
          /\ \A m \in Msgs : m # sent + 1 => fate'[m] = fate[m]
      BY <2>1 DEF TypeOK
    <2>8. \A r \in Slots : timers[r].msg \in 0 .. sent
      BY <2>1 DEF Fresh, TypeOK, SlotType
    <2>9. OneOwner'
      BY <1>2, <1>7, <2>1, <2>3, <2>7, <2>8 DEF OneOwner, InHand, Fresh, Msgs
    <2> QED BY <1>5, <2>2, <2>4, <2>5, <2>6, <2>9
  <1>10. CASE DelayNoMsg(s)
    <2> USE <1>10 DEF DelayNoMsg
    <2>1. TypeOK'
      BY <1>2 DEF TypeOK, SlotType
    <2>2. /\ \A r \in Slots : r # s => timers'[r] = timers[r]
          /\ timers'[s].tid = "null" /\ timers'[s].msg = timers[s].msg
      BY <1>3 DEF TypeOK, SlotType
    <2>3. TriggerSound'
      BY <1>8, <2>2
    <2>4. TimerOwned' /\ Fresh' /\ OneOwner'
      BY <1>2, <2>2 DEF TimerOwned, Fresh, OneOwner, InHand
    <2> QED BY <1>5, <2>1, <2>3, <2>4
  <1>11. CASE DelayNoTimer(k)
    <2> USE <1>11 DEF DelayNoTimer, GenMsg
    <2>1. sent + 1 \in Msgs /\ sent \in Nat
      BY DEF TypeOK, Msgs
    <2>2. TypeOK'
      BY <1>2, <2>1 DEF TypeOK, Fates, Msgs
    <2>3. TriggerSound' /\ TimerOwned'
      BY <1>2, <1>8 DEF TimerOwned
    <2>4. Fresh'
      BY <1>2, <1>7, <2>1 DEF Fresh, TypeOK, SlotType, Msgs
    <2>5. \A m \in Msgs : m <= sent => fate'[m] = fate[m]
      BY <2>1 DEF TypeOK
    <2>6. \A r \in Slots : timers[r].msg \in 0 .. sent
      BY <2>1 DEF Fresh, TypeOK, SlotType
    <2>7. OneOwner'
      BY <1>2, <1>7, <2>1, <2>5, <2>6 DEF OneOwner, InHand, Fresh, Msgs
    <2> QED BY <1>5, <2>2, <2>3, <2>4, <2>7
  <1> QED BY <1>1, <1>9, <1>10, <1>11

\* The head of the queue leaves it; a trigger frees the slot it was the only
\* trigger of.
LEMMA DispatchIInv ==
  ASSUME IInv, pc \in {"receive", "handler"}, Dispatch
  PROVE  IInv'
  <1> USE AppMainAssumption DEF IInv, Dispatch
  <1>1. /\ queue' \in Seq(Items)
        /\ DOMAIN queue' = 1 .. Len(queue) - 1
        /\ DOMAIN queue = 1 .. Len(queue)
        /\ Len(queue) \in Nat \ {0}
        /\ Len(queue') = Len(queue) - 1
        /\ \A i \in 1 .. Len(queue) - 1 : queue'[i] = queue[i + 1]
        /\ Head(queue) = queue[1]
        /\ Head(queue) \in Items
    BY TailFacts DEF TypeOK
  <1>2. /\ UNCHANGED <<cancel, ft, sent, keyOf>>
        /\ pc' \in {"receive", "handler"}
    BY DEF DispatchMsg, DispatchTrigger
  <1>3. mixed' \in BOOLEAN
    BY Zenon
  <1>4. Head(queue).kind \in {"msg", "trigger"}
    BY <1>1, ItemFacts DEF MarkerSound, Rotating
  <1>5. CancelSlot' /\ CancelTurns' /\ MarkerSound' /\ StaleAhead'
    BY <1>1, <1>2 DEF CancelSlot, CancelTurns, MarkerSound, StaleAhead, Rotating
  <1>6. /\ \A i \in DOMAIN queue : queue[i].kind = "msg" => queue[i].n \in Msgs
        /\ \A i \in DOMAIN queue : queue[i].kind = "trigger" => queue[i].n \in Slots
    BY ItemFacts DEF TypeOK
  <1>9. 1 \in DOMAIN queue /\ \A i \in DOMAIN queue : queue[i] \in Items
    BY <1>1 DEF TypeOK
  <1>7. CASE Head(queue).kind = "msg"
    <2> DEFINE m == Head(queue).n
    <2>1. DispatchMsg(m)
      BY <1>7
    <2>2. UNCHANGED timers /\ m \in Msgs
      BY <1>1, <1>6, <1>7, <2>1 DEF DispatchMsg
    <2>3. fate' = [fate EXCEPT ![m] = IF ft THEN "ignored" ELSE "handled"]
      BY <2>1 DEF DispatchMsg
    <2>4. TypeOK'
      BY <1>1, <1>2, <1>3, <2>2, <2>3 DEF TypeOK, Pcs, Fates
    <2>5. TimerOwned'
      BY <2>2 DEF TimerOwned
    <2>6. TriggerSound'
      BY <1>1, <1>2, <2>2 DEF TriggerSound, AwaitsTrigger, InHand
    <2>7. Fresh'
      BY <1>1, <1>2, <2>2 DEF Fresh
    <2>8. \A n \in Msgs : n # m => fate'[n] = fate[n]
      BY <2>3 DEF TypeOK
    <2>9. \A i \in DOMAIN queue' : queue'[i].kind = "msg" => queue'[i].n # m
      <3>1. SUFFICES ASSUME NEW i \in 1 .. Len(queue) - 1,
                            queue[i + 1].kind = "msg", queue[i + 1].n = m
                     PROVE  FALSE
        BY <1>1
      <3>2. queue[i + 1] = queue[1] /\ i + 1 \in DOMAIN queue
        BY <1>1, <1>7, <1>9, <3>1, ItemFacts
      <3> QED BY SMTT(60), <1>1, <1>7, <1>9, <3>2 DEF OneOwner
    <2>12. fate[m] = "queued"
      BY <1>1, <1>7, <1>9 DEF OneOwner
    <2>13. \A s \in Slots : timers[s].msg # 0 => fate[timers[s].msg] # "queued"
      BY DEF OneOwner
    <2>10. \A s \in Slots : timers[s].msg # 0 => timers[s].msg # m /\ timers[s].msg \in Msgs
      BY <2>12, <2>13 DEF TypeOK, SlotType, Msgs
    <2>11. OneOwner'
      BY SMTT(60), <1>1, <1>2, <1>6, <2>2, <2>8, <2>9, <2>10 DEF OneOwner, InHand
    <2> QED BY <1>5, <2>4, <2>5, <2>6, <2>7, <2>11
  <1>8. CASE Head(queue).kind = "trigger"
    <2> DEFINE s == Head(queue).n
    <2>1. DispatchTrigger(s) /\ s \in Slots
      BY <1>1, <1>6, <1>8
    <2>2. CASE ft
      <3>1. UNCHANGED <<timers, fate>>
        BY <2>1, <2>2 DEF DispatchTrigger
      <3>2. TypeOK'
        BY <1>1, <1>2, <1>3, <3>1 DEF TypeOK, Pcs
      <3>3. TriggerSound'
        BY <1>1, <1>2, <3>1, SMTT(20) DEF TriggerSound, AwaitsTrigger, InHand
      <3>4. TimerOwned' /\ Fresh'
        BY <1>1, <1>2, <3>1 DEF TimerOwned, Fresh
      <3>5. \A i \in DOMAIN queue' : queue'[i].kind = "msg" =>
              /\ fate'[queue'[i].n] = "queued"
              /\ \A j \in DOMAIN queue' : queue'[j] = queue'[i] => i = j
        <4>1. SUFFICES ASSUME NEW i \in 1 .. Len(queue) - 1, queue[i + 1].kind = "msg"
                       PROVE  /\ fate[queue[i + 1].n] = "queued"
                              /\ \A j \in 1 .. Len(queue) - 1 :
                                   queue[j + 1] = queue[i + 1] => i = j
          BY <1>1, <3>1
        <4>2. /\ i + 1 \in DOMAIN queue
              /\ \A j \in 1 .. Len(queue) - 1 : j + 1 \in DOMAIN queue
          BY <1>1
        <4> QED BY <4>1, <4>2 DEF OneOwner
      <3>6. OneOwner'
        BY <1>2, <3>1, <3>5 DEF OneOwner, InHand
      <3> QED BY <1>5, <3>2, <3>3, <3>4, <3>6
    <2>3. CASE ~ft
      <3>1. timers[s].msg # 0 /\ timers[s].msg \in Msgs
        <4>1. AwaitsTrigger(s)
          BY <1>1, <1>8, <1>9 DEF TriggerSound
        <4>2. timers[s].msg # 0
          BY <4>1 DEF AwaitsTrigger
        <4> QED BY <2>1, <4>2 DEF TypeOK, SlotType, Msgs
      <3>2. /\ timers' = [timers EXCEPT ![s] = FreeSlot]
            /\ fate' = [fate EXCEPT ![timers[s].msg] = "handled"]
        BY <2>1, <2>3, <3>1 DEF DispatchTrigger
      <3>13. FreeSlot \in SlotType
        BY DEF FreeSlot, SlotType
      <3>14. timers' \in [Slots -> SlotType] /\ fate' \in [Msgs -> Fates]
        BY <3>1, <3>2, <3>13 DEF TypeOK, Fates
      <3>3. TypeOK'
        BY <1>1, <1>2, <1>3, <3>14 DEF TypeOK, Pcs
      <3>4. /\ \A r \in Slots : r # s => timers'[r] = timers[r]
            /\ timers'[s].tid = "null" /\ timers'[s].msg = 0
        BY <2>1, <3>2 DEF TypeOK, FreeSlot
      <3>5. TimerOwned'
        BY <3>4 DEF TimerOwned
      <3>6. \A i \in DOMAIN queue' : queue'[i].kind = "trigger" => queue'[i].n # s
        BY SMTT(60), <1>1, <1>8, ItemFacts DEF TriggerSound
      <3>7. TriggerSound'
        BY <1>1, <1>2, <1>6, <3>4, <3>6, SMTT(20) DEF TriggerSound, AwaitsTrigger, InHand
      <3>8. Fresh'
        BY <1>1, <1>2, <3>4 DEF Fresh, TypeOK
      <3>9. \A n \in Msgs : n # timers[s].msg => fate'[n] = fate[n]
        BY <3>1, <3>2 DEF TypeOK
      <3>10. \A i \in DOMAIN queue : queue[i].kind = "msg" => queue[i].n # timers[s].msg
        BY <2>1, <3>1 DEF OneOwner
      <3>11. \A r \in Slots : timers[r].msg # 0 => timers[r].msg \in Msgs
        BY DEF TypeOK, SlotType, Msgs
      <3>15. \A r \in Slots : r # s /\ timers[r].msg # 0 => timers[r].msg # timers[s].msg
        BY <2>1 DEF OneOwner
      <3>16. /\ \A i \in DOMAIN queue' : queue'[i].kind = "msg" =>
                  /\ fate'[queue'[i].n] = "queued"
                  /\ \A j \in DOMAIN queue' : queue'[j] = queue'[i] => i = j
        <4>1. SUFFICES ASSUME NEW i \in 1 .. Len(queue) - 1, queue[i + 1].kind = "msg"
                       PROVE  /\ fate'[queue[i + 1].n] = "queued"
                              /\ \A j \in 1 .. Len(queue) - 1 :
                                   queue[j + 1] = queue[i + 1] => i = j
          BY <1>1
        <4>2. /\ i + 1 \in DOMAIN queue
              /\ \A j \in 1 .. Len(queue) - 1 : j + 1 \in DOMAIN queue
          BY <1>1
        <4>3. /\ fate[queue[i + 1].n] = "queued"
              /\ \A j \in DOMAIN queue : queue[j] = queue[i + 1] => i + 1 = j
          BY <4>1, <4>2 DEF OneOwner
        <4>4. fate'[queue[i + 1].n] = fate[queue[i + 1].n]
          BY <1>6, <3>9, <3>10, <4>1, <4>2
        <4> QED BY <4>2, <4>3, <4>4
      <3>17. \A r \in Slots : timers'[r].msg # 0 =>
               /\ fate'[timers'[r].msg] \in {"delayed", "requeueLost"}
               /\ \A q \in Slots : timers'[q].msg = timers'[r].msg => q = r
        <4>1. SUFFICES ASSUME NEW r \in Slots, timers'[r].msg # 0
                       PROVE  /\ fate'[timers'[r].msg] \in {"delayed", "requeueLost"}
                              /\ \A q \in Slots : timers'[q].msg = timers'[r].msg => q = r
          OBVIOUS
        <4>2. r # s /\ timers'[r] = timers[r]
          BY <3>4, <4>1
        <4>3. fate'[timers[r].msg] = fate[timers[r].msg]
          BY <3>9, <3>11, <3>15, <4>1, <4>2
        <4>4. fate'[timers'[r].msg] \in {"delayed", "requeueLost"}
          BY <4>1, <4>2, <4>3 DEF OneOwner
        <4>5. ASSUME NEW q \in Slots, timers'[q].msg = timers'[r].msg
              PROVE  q = r
          <5>1. q # s /\ timers'[q] = timers[q]
            BY <3>4, <4>1, <4>5
          <5> QED BY <4>1, <4>2, <4>5, <5>1 DEF OneOwner
        <4> QED BY <4>4, <4>5
      <3>12. OneOwner'
        BY <1>2, <3>16, <3>17 DEF OneOwner, InHand
      <3> QED BY <1>5, <3>3, <3>5, <3>7, <3>8, <3>12
    <2> QED BY <2>2, <2>3
  <1> QED BY <1>4, <1>7, <1>8

\* The scan of app_cancel_msg only notes the slot it has found.
LEMMA CancelFindIInv ==
  ASSUME IInv, NEW k \in Keys, CancelFind(k)
  PROVE  IInv'
  <1> USE AppMainAssumption DEF IInv, CancelFind
  <1>1. /\ UNCHANGED <<queue, timers, ft, sent, keyOf, fate, mixed>>
        /\ pc = "handler" /\ pc' \in {"cancelTest", "cancelMark"}
    OBVIOUS
  <1>2. /\ cancel' \in CancelType
        /\ cancel'.i = 0 /\ cancel'.head = FALSE
        /\ pc' = "cancelTest" => cancel'.slot \in Slots
        /\ pc' = "cancelMark" => cancel'.slot = 0
    <2>1. sent \in 0 .. MaxMsgs
      BY DEF TypeOK
    <2>2. CASE \E s \in Slots : /\ cancel' = CancelOf(s, k, sent)
                               /\ pc' = "cancelTest"
      BY <2>1, <2>2, CancelOfFacts DEF Slots
    <2>3. CASE /\ cancel' = CancelOf(0, k, sent)
               /\ pc' = "cancelMark"
      BY <2>1, <2>3, CancelOfFacts
    <2> QED BY <2>2, <2>3
  <1>3. TypeOK'
    BY <1>1, <1>2 DEF TypeOK, Pcs, InCancel
  <1>4. CancelSlot' /\ CancelTurns' /\ MarkerSound' /\ StaleAhead'
    BY <1>1, <1>2 DEF CancelSlot, CancelTurns, MarkerSound, StaleAhead, Rotating, Slots
  <1>5. TimerOwned' /\ TriggerSound' /\ Fresh' /\ OneOwner'
    BY <1>1 DEF TimerOwned, TriggerSound, AwaitsTrigger, InHand, Fresh, OneOwner
  <1> QED BY <1>3, <1>4, <1>5

\* The test of timer->tid only decides whether the timer is to be deleted.
LEMMA CancelTestIInv == ASSUME IInv, CancelTest PROVE IInv'
  <1> USE DEF IInv, CancelTest
  <1>1. TypeOK' /\ TimerOwned' /\ Fresh' /\ MarkerSound' /\ StaleAhead'
    BY DEF TypeOK, Pcs, InCancel, TimerOwned, Fresh, MarkerSound, StaleAhead, Rotating
  <1>2. CancelSlot'
    BY DEF CancelSlot
  <1>3. CancelTurns' /\ TriggerSound' /\ OneOwner'
    BY DEF CancelTurns, TriggerSound, AwaitsTrigger, InHand, OneOwner
  <1> QED BY <1>1, <1>2, <1>3

\* The slot goes; its trigger, if it was posted, is now the stale one.
LEMMA CancelDeleteIInv == ASSUME IInv, CancelDelete PROVE IInv'
  <1> USE AppMainAssumption DEF IInv, CancelDelete
  <1> DEFINE s == cancel.slot
  <1>1. s \in Slots /\ timers[s] \in SlotType
    BY DEF CancelSlot, TypeOK
  <1>2. /\ UNCHANGED <<queue, cancel, ft, sent, keyOf, mixed>>
        /\ pc = "cancelDelete" /\ pc' \in {"cancelMark", "fault"}
    OBVIOUS
  <1>3. MarkerSound' /\ StaleAhead'
    BY <1>2 DEF MarkerSound, StaleAhead, Rotating
  <1>4. CASE timers[s].tid = "null"
    <2>1. UNCHANGED <<timers, fate>> /\ pc' = "fault"
      BY <1>4
    <2>2. TypeOK' /\ TimerOwned' /\ CancelSlot' /\ CancelTurns' /\ Fresh'
      BY <1>2, <2>1 DEF TypeOK, Pcs, TimerOwned, CancelSlot, CancelTurns, Fresh
    <2>3. TriggerSound' /\ OneOwner'
      BY <1>2, <2>1 DEF TriggerSound, AwaitsTrigger, InHand, OneOwner
    <2> QED BY <1>3, <2>2, <2>3
  <1>5. CASE timers[s].tid # "null"
    <2>1. /\ timers' = [timers EXCEPT ![s] = FreeSlot]
          /\ fate' = [fate EXCEPT ![timers[s].msg] = "cancelled"]
          /\ pc' = "cancelMark"
      BY <1>5
    <2>2. timers[s].msg # 0 /\ timers[s].msg \in Msgs
      BY <1>1, <1>5 DEF TimerOwned, SlotType, Msgs
    <2>3. FreeSlot \in SlotType
      BY DEF FreeSlot, SlotType
    <2>4. TypeOK'
      BY <1>1, <1>2, <2>1, <2>2, <2>3 DEF TypeOK, Pcs, InCancel, Fates
    <2>5. /\ \A r \in Slots : r # s => timers'[r] = timers[r]
          /\ timers'[s].tid = "null" /\ timers'[s].msg = 0
      BY <1>1, <2>1 DEF TypeOK, FreeSlot
    <2>6. TimerOwned'
      BY <2>5 DEF TimerOwned
    <2>7. CancelSlot'
      BY <1>1, <1>2, <2>1, <2>5 DEF CancelSlot
    <2>9. CancelTurns'
      BY <1>2, <2>1 DEF CancelTurns
    <2>10. \A i \in DOMAIN queue : queue[i].kind = "trigger" => queue[i].n \in Slots
      BY ItemFacts DEF TypeOK
    <2>11. TriggerSound'
      BY <1>2, <2>1, <2>5, <2>10 DEF TriggerSound, AwaitsTrigger, InHand
    <2>12. Fresh'
      BY <1>2, <2>5 DEF Fresh, TypeOK
    <2>13. \A n \in Msgs : n # timers[s].msg => fate'[n] = fate[n]
      BY <2>1, <2>2 DEF TypeOK
    <2>14. \A i \in DOMAIN queue : queue[i].kind = "msg" =>
             queue[i].n \in Msgs /\ queue[i].n # timers[s].msg
      BY <1>1, <2>2, TypeFacts DEF OneOwner
    <2>15. \A r \in Slots : r # s /\ timers[r].msg # 0 =>
             timers[r].msg \in Msgs /\ timers[r].msg # timers[s].msg
      BY <1>1, <2>2 DEF OneOwner, TypeOK, SlotType, Msgs
    <2>16. OneOwner'
      BY <1>1, <1>2, <2>1, <2>5, <2>13, <2>14, <2>15 DEF OneOwner, InHand
    <2> QED BY <1>3, <2>4, <2>6, <2>7, <2>9, <2>11, <2>12, <2>16
  <1> QED BY <1>4, <1>5

\* The marker goes behind everything queued, the stale trigger included; with
\* no room for it, everything queued is within the turns.
LEMMA CancelMarkIInv == ASSUME IInv, CancelMark PROVE IInv'
  <1> USE AppMainAssumption DEF IInv, CancelMark
  <1>1. /\ UNCHANGED <<timers, ft, sent, keyOf, fate, mixed>>
        /\ pc = "cancelMark" /\ pc' = "rotateTake"
    OBVIOUS
  <1>2. /\ cancel' \in CancelType
        /\ cancel'.i = 0 /\ cancel'.slot = cancel.slot
        /\ DOMAIN queue = 1 .. Len(queue) /\ Len(queue) \in 0 .. QSize
    <2>1. cancel \in CancelType /\ cancel.i = 0
      BY <1>1 DEF TypeOK, CancelTurns
    <2>2. cancel' \in CancelType /\ cancel'.i = 0 /\ cancel'.slot = cancel.slot
      BY <2>1, CancelFacts
    <2> QED BY <2>2 DEF TypeOK
  <1>3. \A i \in DOMAIN queue : queue[i] # Marker
    BY <1>1 DEF MarkerSound, Rotating
  <1>4. \A s \in Slots : AwaitsTrigger(s)' <=> AwaitsTrigger(s)
    BY <1>1, <1>2 DEF AwaitsTrigger
  <1>5. \A i \in DOMAIN queue : queue[i].kind = "trigger" => queue[i].n \in Slots
    BY ItemFacts DEF TypeOK
  <1>6. TimerOwned' /\ CancelSlot' /\ CancelTurns'
    BY <1>1, <1>2 DEF TimerOwned, CancelSlot, CancelTurns
  <1>7. Marker \in Items /\ Marker.kind = "head" /\ Marker # Trigger(cancel.slot)
    BY DEF Marker, Items, Trigger
  <1>8. CASE Len(queue) < QSize
    <2>1. /\ queue' \in Seq(Items)
          /\ DOMAIN queue' = 1 .. Len(queue) + 1
          /\ Len(queue') = Len(queue) + 1
          /\ \A i \in 1 .. Len(queue) : queue'[i] = queue[i]
          /\ queue'[Len(queue) + 1] = Marker
      BY SMTT(60), <1>7, <1>8, TypeFacts, AppendFacts
    <2>2. TypeOK'
      BY <1>1, <1>2, <1>8, <2>1 DEF TypeOK, Pcs, InCancel
    <2>3. cancel'.head = TRUE
      <3>1. cancel' = [cancel EXCEPT !.head = TRUE]
        BY <1>2, <1>8
      <3> QED BY <3>1, TypeFacts, CancelFacts
    <2>4. MarkerSound'
      BY <1>1, <1>2, <1>3, <1>8, <2>1, <2>3 DEF MarkerSound, Rotating, Left
    <2>5. StaleAhead'
      BY <1>1, <1>2, <1>3, <1>7, <1>8, <2>1 DEF StaleAhead, Rotating, Left
    <2>6. TriggerSound'
      BY <1>1, <1>2, <1>4, <1>5, <1>7, <2>1 DEF TriggerSound, InHand
    <2>7. Fresh' /\ OneOwner'
      BY SMTT(60), <1>1, <1>2, <1>7, <2>1 DEF Fresh, OneOwner, InHand
    <2> QED BY <1>6, <2>2, <2>4, <2>5, <2>6, <2>7
  <1>9. CASE Len(queue) >= QSize
    <2>1. queue' = queue /\ cancel' = cancel
      BY <1>2, <1>9
    <2>2. TypeOK'
      BY <1>1, <1>2, <2>1 DEF TypeOK, Pcs, InCancel
    <2>3. cancel'.head = FALSE
      BY <1>1, <2>1 DEF CancelTurns
    <2>4. MarkerSound'
      BY <1>1, <1>3, <2>1, <2>3 DEF MarkerSound, Rotating
    <2>5. StaleAhead'
      <3>1. Left' = QSize /\ cancel'.slot = cancel.slot
        BY <1>1, <1>2 DEF Left
      <3>4. \A j \in DOMAIN queue : j <= QSize
        BY <1>2
      <3>2. \A j \in DOMAIN queue' : j <= QSize
        BY <2>1, <3>4
      <3>3. \A p \in DOMAIN queue' : queue'[p] # Marker
        BY <1>3, <2>1
      <3> QED BY <3>1, <3>2, <3>3 DEF StaleAhead
    <2>6. TriggerSound'
      BY <1>1, <1>2, <1>4, <1>5, <2>1 DEF TriggerSound, InHand
    <2>7. pc # "rotatePut" /\ pc' # "rotatePut"
      BY <1>1
    <2>8. Fresh'
      BY <1>1, <2>1, <2>7 DEF Fresh
    <2>9. OneOwner'
      BY <1>1, <2>1, <2>7 DEF OneOwner, InHand
    <2> QED BY <1>6, <2>2, <2>4, <2>5, <2>6, <2>8, <2>9
  <1> QED BY <1>2, <1>8, <1>9

\* The rotation ends out of turns, with an empty queue or at the marker: in each
\* case neither the marker nor a trigger of the freed slot is left in the queue.
LEMMA RotateEndIInv ==
  ASSUME IInv, RotateTake, pc' = "handler"
  PROVE  IInv'
  <1> USE AppMainAssumption DEF IInv, RotateTake
  <1>1. /\ UNCHANGED <<timers, ft, sent, keyOf, fate, mixed>>
        /\ pc = "rotateTake" /\ cancel' = NoCancel
    OBVIOUS
  <1>2. Left = QSize - cancel.i /\ Rotating
    BY <1>1 DEF Left, Rotating
  <1>3. /\ queue' \in Seq(Items)
        /\ Len(queue') <= QSize
        /\ \A i \in DOMAIN queue' :
             /\ queue'[i] # Marker /\ queue'[i] # Trigger(cancel.slot)
             /\ \E j \in DOMAIN queue : queue'[i] = queue[j]
        /\ \A i, j \in DOMAIN queue' : queue'[i] = queue'[j] /\ i # j =>
             \E k, l \in DOMAIN queue :
               k # l /\ queue'[i] = queue[k] /\ queue'[j] = queue[l]
    <2>1. CASE cancel.i = QSize \/ queue = <<>>
      <3>1. queue' = queue
        BY <2>1, TypeFacts
      <3>2. \A i \in DOMAIN queue : queue[i] # Marker /\ queue[i] # Trigger(cancel.slot)
        BY <1>2, <2>1, TypeFacts DEF MarkerSound, StaleAhead
      <3>3. queue \in Seq(Items) /\ Len(queue) <= QSize
        BY DEF TypeOK
      <3>4. \A i \in DOMAIN queue' : i \in DOMAIN queue /\ queue'[i] = queue[i]
        BY <3>1
      <3> QED BY <3>1, <3>2, <3>3, <3>4
    <2>2. CASE cancel.i < QSize /\ queue # <<>>
      <3>1. Head(queue) = Marker /\ queue' = Tail(queue)
        BY <1>1, <2>2, TypeFacts
      <3>2. /\ queue' \in Seq(Items)
            /\ Len(queue') = Len(queue) - 1 /\ Len(queue) \in Nat \ {0}
            /\ DOMAIN queue' = 1 .. Len(queue) - 1 /\ DOMAIN queue = 1 .. Len(queue)
            /\ \A i \in 1 .. Len(queue) - 1 : queue'[i] = queue[i + 1]
            /\ Head(queue) = queue[1]
        BY <2>2, <3>1, TypeFacts, TailFacts
      <3>10. queue[1] = Marker
        BY <3>1, <3>2, Zenon
      <3>11. 1 \in DOMAIN queue
        BY <3>2
      <3>7. 1 \in DOMAIN queue /\ queue[1] = Marker
        BY <3>10, <3>11
      <3>8. \A i \in DOMAIN queue : i # 1 => queue[i] # Marker
        BY <3>7 DEF MarkerSound
      <3>9. \A i \in DOMAIN queue : queue[i] = Trigger(cancel.slot) => i < 1
        BY <1>2, <3>7, Zenon DEF StaleAhead
      <3>3. \A i \in DOMAIN queue : i # 1 =>
              queue[i] # Marker /\ queue[i] # Trigger(cancel.slot)
        BY <3>2, <3>8, <3>9
      <3>4. \A i \in 1 .. Len(queue) - 1 : i + 1 \in DOMAIN queue /\ i + 1 # 1
        BY <3>2
      <3>5. Len(queue') <= QSize
        BY <3>2, TypeFacts
      <3>6. \A i, j \in DOMAIN queue' : queue'[i] = queue'[j] /\ i # j =>
             i + 1 # j + 1 /\ queue'[i] = queue[i + 1] /\ queue'[j] = queue[j + 1]
        BY <3>2
      <3> QED BY <3>2, <3>3, <3>4, <3>5, <3>6
    <2>3. cancel.i = QSize \/ queue = <<>> \/ (cancel.i < QSize /\ queue # <<>>)
      OBVIOUS
    <2> QED BY <2>1, <2>2, <2>3
  <1>4. TypeOK'
    BY <1>1, <1>3, CancelOfFacts DEF TypeOK, Pcs
  <1>5. TimerOwned' /\ CancelSlot' /\ CancelTurns'
    BY <1>1 DEF TimerOwned, CancelSlot, CancelTurns
  <1>6. MarkerSound' /\ StaleAhead'
    BY <1>3 DEF MarkerSound, StaleAhead, Rotating
  <1>7. \A s \in Slots : s # cancel.slot /\ AwaitsTrigger(s) => AwaitsTrigger(s)'
    BY <1>1 DEF AwaitsTrigger
  <1>8. TriggerSound'
    <2>1. ASSUME NEW i \in DOMAIN queue', queue'[i].kind = "trigger"
          PROVE  /\ AwaitsTrigger(queue[i].n)'
                 /\ \A j \in DOMAIN queue' : queue'[j] = queue'[i] => i = j
      <3>1. PICK k \in DOMAIN queue : queue'[i] = queue[k]
        BY <1>3
      <3>2. queue[k].n \in Slots /\ AwaitsTrigger(queue[k].n)
        BY <2>1, <3>1, TypeFacts DEF TriggerSound
      <3>3. queue[k].n # cancel.slot
        BY <1>3, <2>1, <3>1, TypeFacts, ItemFacts
      <3>4. \A l, m \in DOMAIN queue : queue[l].kind = "trigger" /\ queue[l] = queue[m] => l = m
        BY DEF TriggerSound
      <3>5. \A j \in DOMAIN queue' : queue'[j] = queue'[i] => i = j
        BY <1>3, <2>1, <3>4
      <3> QED BY <1>7, <3>1, <3>2, <3>3, <3>5
    <2> QED BY <2>1 DEF TriggerSound, InHand
  <1>9. Fresh'
    BY <1>1, <1>3 DEF Fresh
  <1>10. OneOwner'
    <2>1. \A l, m \in DOMAIN queue : queue[l].kind = "msg" /\ queue[l] = queue[m] => l = m
      BY DEF OneOwner
    <2>2. \A i, j \in DOMAIN queue' :
            queue'[i].kind = "msg" /\ queue'[j] = queue'[i] => i = j
      BY <1>3, <2>1
    <2>3. \A i \in DOMAIN queue' : queue'[i].kind = "msg" => fate[queue'[i].n] = "queued"
      BY <1>3 DEF OneOwner
    <2> QED BY <1>1, <2>2, <2>3 DEF OneOwner, InHand
  <1> QED BY <1>4, <1>5, <1>6, <1>8, <1>9, <1>10

\* A turn takes the head of the queue and frees it or keeps it in hand.
LEMMA RotateTurnIInv ==
  ASSUME IInv, RotateTake, pc' # "handler"
  PROVE  IInv'
  <1> USE AppMainAssumption DEF IInv
  <1> DEFINE x == Head(queue)
  <1>1. /\ UNCHANGED <<timers, ft, sent, keyOf, mixed>>
        /\ pc = "rotateTake" /\ cancel.i < QSize /\ queue # <<>>
        /\ queue' = Tail(queue) /\ x # Marker
    BY DEF RotateTake
  <1>2. /\ \/ /\ Matches(x) /\ pc' = "rotateTake" /\ cancel' = [cancel EXCEPT !.i = @ + 1]
              /\ fate' = IF x.kind = "msg" THEN [fate EXCEPT ![x.n] = "cancelled"] ELSE fate
           \/ /\ ~Matches(x) /\ pc' = "rotatePut" /\ cancel' = [cancel EXCEPT !.msg = x]
              /\ fate' = fate
    BY DEF RotateTake
  <1>3. /\ queue' \in Seq(Items)
        /\ Len(queue') = Len(queue) - 1 /\ Len(queue) \in Nat \ {0}
        /\ DOMAIN queue' = 1 .. Len(queue) - 1 /\ DOMAIN queue = 1 .. Len(queue)
        /\ \A i \in 1 .. Len(queue) - 1 : queue'[i] = queue[i + 1]
        /\ x = queue[1] /\ x \in Items
    BY <1>1, TypeFacts, TailFacts
  <1> HIDE DEF x
  <1>4. /\ 1 \in DOMAIN queue
        /\ \A i \in DOMAIN queue' : i + 1 \in DOMAIN queue /\ i + 1 # 1
    BY <1>3
  <1>5. /\ cancel' \in CancelType
        /\ cancel'.slot = cancel.slot /\ cancel'.head = cancel.head
        /\ pc' = "rotateTake" => cancel'.i = cancel.i + 1
        /\ pc' = "rotatePut" => cancel'.i = cancel.i /\ cancel'.msg = x
    <2>1. cancel \in CancelType
      BY TypeFacts
    <2>2. CASE pc' = "rotateTake" /\ cancel' = [cancel EXCEPT !.i = @ + 1]
      BY <1>1, <2>1, <2>2, CancelFacts
    <2>3. CASE pc' = "rotatePut" /\ cancel' = [cancel EXCEPT !.msg = x]
      BY ZenonT(60), <1>3, <2>1, <2>3, CancelFacts
    <2> QED BY <1>2, <2>2, <2>3
  <1>6. Left = QSize - cancel.i /\ Left' = Left - 1 /\ Rotating /\ Rotating'
    BY <1>1, <1>2, <1>5, TypeFacts DEF Left, Rotating
  <1>7. /\ x.kind = "msg" => x.n \in Msgs /\ fate[x.n] = "queued" /\ x.n <= sent
        /\ x.kind = "trigger" => x.n \in Slots /\ AwaitsTrigger(x.n)
        /\ x.kind \in {"msg", "trigger"} => \A i \in DOMAIN queue : queue[i] = x => i = 1
    BY <1>3, <1>4, TypeFacts DEF OneOwner, TriggerSound, Fresh
  <1>8. \A i \in DOMAIN queue' : queue'[i] = queue[i + 1] /\ queue'[i] \in Items
    BY <1>3, <1>4, TypeFacts
  <1>9. \A i \in DOMAIN queue' : queue'[i].kind \in {"msg", "trigger"} => queue'[i] # x
    BY <1>4, <1>7, <1>8
  <1>10. TypeOK'
    <2>1. pc' \in Pcs
      BY <1>2 DEF Pcs, InCancel
    <2>2. fate' \in [Msgs -> Fates]
      BY <1>2, <1>7 DEF TypeOK, Fates
    <2>3. Len(queue') <= QSize
      BY <1>3 DEF TypeOK
    <2> QED BY <1>1, <1>3, <1>5, <2>1, <2>2, <2>3 DEF TypeOK
  <1>11. TimerOwned'
    BY <1>1 DEF TimerOwned
  <1>12. CancelSlot'
    BY <1>1, <1>2, <1>5 DEF CancelSlot
  <1>13. CancelTurns'
    <2>1. pc' = "rotatePut" => x # Trigger(cancel.slot)
      BY <1>2, ItemFacts DEF Matches
    <2> QED BY <1>1, <1>2, <1>5, <2>1 DEF CancelTurns
  <1>14. MarkerSound'
    <2>1. ASSUME NEW i \in DOMAIN queue', queue'[i] = Marker
          PROVE  /\ cancel'.head /\ i <= Left'
                 /\ \A j \in DOMAIN queue' : queue'[j] = Marker => i = j
      <3>1. /\ cancel.head /\ i + 1 <= Left
            /\ \A j \in DOMAIN queue : queue[j] = Marker => i + 1 = j
        BY <1>4, <1>8, <2>1 DEF MarkerSound
      <3>2. i <= Left - 1
        BY <1>3, <1>6, <3>1, TypeFacts
      <3>3. \A j \in DOMAIN queue' : queue'[j] = Marker => i + 1 = j + 1
        BY <1>4, <1>8, <3>1
      <3>4. i \in Int /\ \A j \in DOMAIN queue' : j \in Int
        BY <1>3
      <3>5. \A j \in DOMAIN queue' : queue'[j] = Marker => i = j
        BY <3>3, <3>4
      <3>6. i <= Left'
        BY <1>6, <3>2
      <3>7. cancel'.head
        BY <1>5, <3>1
      <3> QED BY <3>5, <3>6, <3>7
    <2>2. ASSUME cancel'.head
          PROVE  \E i \in DOMAIN queue' : queue'[i] = Marker
      <3>1. PICK i \in DOMAIN queue : queue[i] = Marker
        BY <1>5, <1>6, <2>2 DEF MarkerSound
      <3>2. i - 1 \in DOMAIN queue' /\ (i - 1) + 1 = i
        BY <1>1, <1>3, <3>1
      <3>3. queue'[i - 1] = Marker
        BY <1>8, <3>1, <3>2
      <3> QED BY <3>2, <3>3
    <2> QED BY <1>6, <2>1, <2>2 DEF MarkerSound
  <1>15. StaleAhead'
    <2>1. ASSUME NEW j \in DOMAIN queue', queue'[j] = Trigger(cancel.slot)
          PROVE  /\ j <= Left'
                 /\ \A p \in DOMAIN queue' : queue'[p] = Marker => j < p
      <3>1. /\ j + 1 <= Left
            /\ \A p \in DOMAIN queue : queue[p] = Marker => j + 1 < p
        BY <1>4, <1>6, <1>8, <2>1 DEF StaleAhead
      <3>2. \A p \in DOMAIN queue' : queue'[p] = Marker => j + 1 < p + 1
        BY <1>4, <1>8, <3>1
      <3>3. j \in Int /\ \A p \in DOMAIN queue' : p \in Int
        BY <1>3
      <3>4. \A p \in DOMAIN queue' : queue'[p] = Marker => j < p
        BY <3>2, <3>3
      <3>5. Left \in Int /\ Left' = Left - 1
        BY <1>6, TypeFacts
      <3>6. j <= Left'
        BY <3>1, <3>3, <3>5
      <3> QED BY <3>4, <3>6
    <2> QED BY <1>5, <2>1 DEF StaleAhead
  <1>16. \A s \in Slots : AwaitsTrigger(s) => AwaitsTrigger(s)'
    BY <1>1, <1>2, <1>5 DEF AwaitsTrigger
  <1>17. TriggerSound'
    <2>1. ASSUME NEW i \in DOMAIN queue', queue'[i].kind = "trigger"
          PROVE  /\ AwaitsTrigger(queue[i].n)'
                 /\ queue'[i] # x
                 /\ \A j \in DOMAIN queue' : queue'[j] = queue'[i] => i = j
      <3>1. /\ queue[i + 1].n \in Slots /\ AwaitsTrigger(queue[i + 1].n)
            /\ \A j \in DOMAIN queue : queue[j] = queue[i + 1] => i + 1 = j
        BY <1>4, <1>8, <2>1, TypeFacts DEF TriggerSound
      <3>2. \A j \in DOMAIN queue' : queue'[j] = queue'[i] => i + 1 = j + 1
        BY <1>4, <1>8, <3>1
      <3>3. \A j \in DOMAIN queue' : queue'[j] = queue'[i] => i = j
        BY <1>3, <3>2
      <3> QED BY <1>8, <1>9, <1>16, <2>1, <3>1, <3>3
    <2>2. (pc = "rotatePut" /\ cancel.msg.kind = "trigger" => AwaitsTrigger(cancel.msg.n))'
      BY <1>5, <1>7, <1>16
    <2> QED BY <1>5, <2>1, <2>2 DEF TriggerSound, InHand
  <1>18. Fresh'
    BY <1>1, <1>4, <1>5, <1>7, <1>8 DEF Fresh
  <1>19. OneOwner'
    <2>1. \A n \in Msgs : x.kind = "msg" => (n # x.n => fate'[n] = fate[n])
      BY <1>2, <1>7 DEF TypeOK
    <2>2. x.kind # "msg" => fate' = fate
      BY <1>2
    <2>3. ASSUME NEW i \in DOMAIN queue', queue'[i].kind = "msg"
          PROVE  /\ fate'[queue'[i].n] = "queued"
                 /\ queue'[i] # x
                 /\ \A j \in DOMAIN queue' : queue'[j] = queue'[i] => i = j
      <3>1. /\ queue[i + 1].n \in Msgs /\ fate[queue[i + 1].n] = "queued"
            /\ \A j \in DOMAIN queue : queue[j] = queue[i + 1] => i + 1 = j
        BY <1>4, <1>8, <2>3, TypeFacts DEF OneOwner
      <3>2. \A j \in DOMAIN queue' : queue'[j] = queue'[i] => i + 1 = j + 1
        BY <1>4, <1>8, <3>1
      <3>3. \A j \in DOMAIN queue' : queue'[j] = queue'[i] => i = j
        BY <1>3, <3>2
      <3>4. x.kind = "msg" => queue'[i].n # x.n
        BY <1>3, <1>8, <1>9, <2>3, ItemFacts
      <3> QED BY <1>8, <1>9, <2>1, <2>2, <2>3, <3>1, <3>3, <3>4
    <2>4. (pc = "rotatePut" /\ cancel.msg.kind = "msg" => fate[cancel.msg.n] = "queued")'
      BY <1>2, <1>5, <1>7
    <2>5. \A s \in Slots : timers[s].msg # 0 =>
            /\ timers[s].msg \in Msgs
            /\ fate[timers[s].msg] \in {"delayed", "requeueLost"}
            /\ \A r \in Slots : timers[r].msg = timers[s].msg => r = s
      BY TypeFacts DEF OneOwner
    <2>6. \A s \in Slots : timers[s].msg # 0 => fate'[timers[s].msg] = fate[timers[s].msg]
      BY <1>7, <2>1, <2>2, <2>5
    <2> QED BY <1>1, <1>5, <2>3, <2>4, <2>5, <2>6 DEF OneOwner, InHand
  <1> QED BY <1>10, <1>11, <1>12, <1>13, <1>14, <1>15, <1>17, <1>18, <1>19

\* The message in hand goes back to the tail, or is lost with the queue full.
LEMMA RotatePutIInv == ASSUME IInv, RotatePut PROVE IInv'
  <1> USE AppMainAssumption DEF IInv
  <1> DEFINE x == cancel.msg
  <1>1. /\ UNCHANGED <<timers, ft, sent, keyOf, mixed>>
        /\ pc = "rotatePut" /\ pc' = "rotateTake"
        /\ cancel' = [cancel EXCEPT !.i = @ + 1, !.msg = Marker]
    BY DEF RotatePut
  <1>2. /\ x \in Items /\ x # Marker /\ x # Trigger(cancel.slot) /\ cancel.i < QSize
        /\ x.kind = "msg" => x.n \in Msgs /\ fate[x.n] = "queued" /\ x.n <= sent
        /\ x.kind = "trigger" => x.n \in Slots /\ x.n # cancel.slot /\ AwaitsTrigger(x.n)
        /\ x.kind \in {"msg", "trigger"}
    BY <1>1, TypeFacts, ItemFacts DEF CancelTurns, OneOwner, TriggerSound, Fresh
  <1>3. /\ cancel' \in CancelType
        /\ cancel'.slot = cancel.slot /\ cancel'.head = cancel.head
        /\ cancel'.i = cancel.i + 1
    <2>1. cancel \in CancelType /\ cancel.i < QSize /\ Marker \in Items
      BY <1>2, TypeFacts, ItemFacts
    <2>2. LET d == [cancel EXCEPT !.i = @ + 1, !.msg = Marker]
          IN /\ d \in CancelType /\ d.slot = cancel.slot /\ d.i = cancel.i + 1
             /\ d.head = cancel.head
      BY <2>1, CancelFacts, Zenon
    <2> QED BY <1>1, <2>2
  <1>4. Left' = Left /\ Left \in Nat /\ Rotating /\ Rotating'
    BY <1>1, <1>2, <1>3, TypeFacts DEF Left, Rotating
  <1>5. /\ \A i \in DOMAIN queue : queue[i] # x
        /\ DOMAIN queue = 1 .. Len(queue) /\ Len(queue) \in 0 .. QSize
    BY <1>1, <1>2, TypeFacts DEF OneOwner, TriggerSound, InHand
  <1>6. TimerOwned' /\ CancelSlot' /\ CancelTurns'
    BY <1>1, <1>3 DEF TimerOwned, CancelSlot, CancelTurns
  <1>7. \A s \in Slots : AwaitsTrigger(s) => AwaitsTrigger(s)'
    BY <1>1, <1>3 DEF AwaitsTrigger
  <1>8. CASE Len(queue) < QSize
    <2>1. queue' = Append(queue, x) /\ UNCHANGED fate
      BY <1>5, <1>8 DEF RotatePut
    <2>2. /\ queue' \in Seq(Items)
          /\ DOMAIN queue' = 1 .. Len(queue) + 1
          /\ Len(queue') = Len(queue) + 1
          /\ \A i \in 1 .. Len(queue) : queue'[i] = queue[i]
          /\ queue'[Len(queue) + 1] = x
      BY <1>2, <2>1, TypeFacts, AppendFacts
    <2> HIDE DEF x
    <2>3. TypeOK'
      BY <1>1, <1>3, <1>8, <2>1, <2>2 DEF TypeOK, Pcs, InCancel
    <2>4. MarkerSound'
      <3>1. ASSUME NEW i \in DOMAIN queue', queue'[i] = Marker
            PROVE  /\ cancel'.head /\ i <= Left'
                   /\ \A j \in DOMAIN queue' : queue'[j] = Marker => i = j
        <4>1. i \in DOMAIN queue /\ queue[i] = Marker
          BY <1>2, <1>5, <2>2, <3>1
        <4> QED BY <1>2, <1>3, <1>4, <1>5, <2>2, <4>1 DEF MarkerSound
      <3>2. cancel'.head => \E i \in DOMAIN queue' : queue'[i] = Marker
        BY <1>3, <1>4, <1>5, <2>2 DEF MarkerSound
      <3> QED BY <1>4, <3>1, <3>2 DEF MarkerSound
    <2>5. StaleAhead'
      BY <1>2, <1>3, <1>4, <1>5, <2>2 DEF StaleAhead
    <2>6. TriggerSound'
      <3>1. ASSUME NEW i \in DOMAIN queue', queue'[i].kind = "trigger"
            PROVE  /\ AwaitsTrigger(queue[i].n)'
                   /\ \A j \in DOMAIN queue' : queue'[j] = queue'[i] => i = j
        <4>1. CASE i = Len(queue) + 1
          BY <1>2, <1>5, <1>7, <2>2, <3>1, <4>1
        <4>2. CASE i \in DOMAIN queue
          <5>1. /\ queue[i].n \in Slots /\ AwaitsTrigger(queue[i].n)
                /\ \A j \in DOMAIN queue : queue[j] = queue[i] => i = j
            BY <1>5, <2>2, <3>1, <4>2, TypeFacts DEF TriggerSound
          <5> QED BY <1>5, <1>7, <2>2, <4>2, <5>1
        <4> QED BY <1>5, <2>2, <4>1, <4>2
      <3> QED BY <1>1, <3>1 DEF TriggerSound, InHand
    <2>7. Fresh'
      BY <1>1, <1>2, <1>5, <2>2 DEF Fresh
    <2>8. OneOwner'
      BY <1>1, <1>2, <1>5, <2>1, <2>2 DEF OneOwner, InHand
    <2> QED BY <1>6, <2>3, <2>4, <2>5, <2>6, <2>7, <2>8
  <1>9. CASE Len(queue) >= QSize
    <2> DEFINE m == IF x.kind = "msg" THEN x.n ELSE timers[x.n].msg
    <2>1. queue' = queue /\ fate' = [fate EXCEPT ![m] = "requeueLost"]
      BY <1>5, <1>9 DEF RotatePut
    <2>2. m \in Msgs
      BY <1>2, TypeFacts DEF AwaitsTrigger
    <2>3. TypeOK'
      BY <1>1, <1>3, <2>1, <2>2 DEF TypeOK, Pcs, InCancel, Fates
    <2>4. MarkerSound' /\ StaleAhead'
      BY <1>3, <1>4, <2>1 DEF MarkerSound, StaleAhead
    <2>5. TriggerSound'
      BY <1>1, <1>7, <2>1, TypeFacts DEF TriggerSound, InHand
    <2>6. Fresh'
      BY <1>1, <2>1 DEF Fresh
    <2>7. /\ \A n \in Msgs : n # m => fate'[n] = fate[n]
          /\ fate'[m] = "requeueLost"
      BY <2>1, <2>2 DEF TypeOK
    <2>8. \A i \in DOMAIN queue : queue[i].kind = "msg" =>
            queue[i].n \in Msgs /\ queue[i].n # m
      <3>1. ASSUME NEW i \in DOMAIN queue, queue[i].kind = "msg", queue[i].n = m PROVE FALSE
        <4>1. CASE x.kind = "msg"
          <5>1. queue[i] = x
            BY <1>2, <3>1, <4>1, TypeFacts, ItemFacts
          <5> QED BY <1>5, <5>1
        <4>2. CASE x.kind = "trigger"
          <5>1. m = timers[x.n].msg /\ x.n \in Slots /\ timers[x.n].msg # 0
            BY <1>2, <2>2, <4>2, TypeFacts DEF AwaitsTrigger
          <5>2. fate[queue[i].n] = "queued" /\ fate[m] # "queued"
            BY <3>1, <5>1 DEF OneOwner
          <5> QED BY <3>1, <5>2
        <4> QED BY <1>2, <4>1, <4>2
      <3> QED BY <3>1, TypeFacts
    <2> HIDE DEF m
    <2>9. OneOwner'
      <3>1. \A s \in Slots : timers[s].msg # 0 =>
              /\ timers[s].msg \in Msgs
              /\ fate'[timers[s].msg] \in {"delayed", "requeueLost"}
        BY <2>7, TypeFacts DEF OneOwner
      <3>2. pc' # "rotatePut"
        BY <1>1
      <3> QED BY <1>1, <2>1, <2>7, <2>8, <3>1, <3>2 DEF OneOwner, InHand
    <2> QED BY <1>6, <2>3, <2>4, <2>5, <2>6, <2>9
  <1> QED BY <1>5, <1>8, <1>9

\* Returning from a handler, or entering factory test mode, moves no message.
LEMMA HandlerIInv == ASSUME IInv, HandlerReturn \/ EnterFt PROVE IInv'
  <1> USE DEF IInv, HandlerReturn, EnterFt
  <1>1. /\ UNCHANGED <<queue, timers, cancel, sent, keyOf, fate, mixed>>
        /\ pc = "handler" /\ pc' \in {"handler", "receive"}
    OBVIOUS
  <1>2. ft' \in BOOLEAN
    BY Zenon DEF TypeOK
  <1>3. TypeOK'
    BY <1>1, <1>2 DEF TypeOK, Pcs
  <1>4. TimerOwned' /\ CancelSlot' /\ CancelTurns' /\ MarkerSound' /\ StaleAhead' /\ Fresh'
    BY <1>1 DEF TimerOwned, CancelSlot, CancelTurns, MarkerSound, StaleAhead, Fresh, Rotating
  <1>5. TriggerSound' /\ OneOwner'
    BY <1>1 DEF TriggerSound, OneOwner, AwaitsTrigger, InHand
  <1> QED BY <1>3, <1>4, <1>5

\* IInv is about the variables only.
LEMMA StutterIInv == ASSUME IInv, UNCHANGED vars PROVE IInv'
  BY DEF vars, IInv, TypeOK, TimerOwned, CancelSlot, CancelTurns, MarkerSound, StaleAhead,
         TriggerSound, Fresh, OneOwner, Rotating, Left, AwaitsTrigger, InHand

\* IInv is inductive.
LEMMA NextIInv == ASSUME IInv, [Next]_vars PROVE IInv'
  <1>1. CASE Receive \/ HandlePending
    BY <1>1, DispatchIInv DEF Receive, HandlePending
  <1>2. CASE HandlerReturn \/ EnterFt
    BY <1>2, HandlerIInv
  <1>3. ASSUME NEW k \in Keys, AppSend(k) \/ Send(k)
        PROVE  IInv'
    <2>1. mixed \in BOOLEAN
      BY DEF IInv, TypeOK
    <2>2. SendMsg(k) /\ pc # "fault"
      BY <1>3 DEF AppSend, Send
    <2>3. mixed' = mixed \/ mixed' = (mixed \/ pc \in {"rotateTake", "rotatePut"})
      BY <1>3 DEF AppSend, Send
    <2>4. mixed' \in BOOLEAN
      BY <2>1, <2>3, Zenon
    <2> QED BY <2>2, <2>4, SendMsgIInv
  <1>4. ASSUME NEW k \in Keys, SendDelay(k) PROVE IInv'
    BY <1>4, SendDelayIInv
  <1>5. ASSUME NEW k \in Keys, CancelFind(k) PROVE IInv'
    BY <1>5, CancelFindIInv
  <1>6. CASE CancelTest \/ CancelDelete \/ CancelMark
    BY <1>6, CancelTestIInv, CancelDeleteIInv, CancelMarkIInv
  <1>7. CASE RotateTake \/ RotatePut
    BY <1>7, RotateEndIInv, RotateTurnIInv, RotatePutIInv
  <1>8. ASSUME NEW s \in Slots, TimerFire(s) PROVE IInv'
    BY <1>8, TimerFireIInv
  <1>9. CASE UNCHANGED vars
    BY <1>9, StutterIInv
  <1> QED BY <1>1, <1>2, <1>3, <1>4, <1>5, <1>6, <1>7, <1>8, <1>9 DEF Next, AppMainStep

\* The inductive invariant of app_main.c holds in every state: the types, the
\* marker within the turns left, the trigger of a freed slot ahead of the
\* marker, each trigger for its slot and each message with one owner.
THEOREM IInvInvariant == Spec => []IInv
  <1> QED BY InitIInv, NextIInv, PTL DEF Spec

\* Every variable has its type: in particular the queue is never longer than
\* APP_MSG_QUEUE_SIZE and a cancellation makes at most that many turns.
THEOREM TypeCorrect == Spec => []TypeOK
  <1>1. IInv => TypeOK
    BY DEF IInv
  <1> QED BY <1>1, IInvInvariant, PTL

\* A TIMER_TRIGGER never outlives its slot: whatever the number of slots and the
\* length of the queue, the pointer it carries is to the slot of the message it
\* was posted for, or app_cancel_msg is about to throw it away.
THEOREM TriggersSound == Spec => []TriggerSound
  <1>1. IInv => TriggerSound
    BY DEF IInv
  <1> QED BY <1>1, IInvInvariant, PTL

\* No marker of app_cancel_msg reaches handle_msg: the turns it allows itself
\* are enough to meet it.
THEOREM MarkersOwned == Spec => []MarkerOwned
  <1>1. ASSUME IInv PROVE MarkerOwned
    <2>1. TypeOK /\ MarkerSound
      BY <1>1 DEF IInv
    <2>2. QSize \in Nat /\ cancel.i \in 0 .. QSize
      BY <2>1, TypeFacts, AppMainAssumption
    <2>3. \A i \in DOMAIN queue : i \in Nat
      BY <2>1, TypeFacts
    <2>4. ASSUME NEW i \in DOMAIN queue, queue[i].kind = "head"
          PROVE  pc \in {"rotateTake", "rotatePut"} /\ cancel.head /\ i <= QSize - cancel.i
      <3>1. queue[i] = Marker
        BY <2>1, <2>4, TypeFacts, ItemFacts
      <3>2. Rotating /\ cancel.head /\ i <= Left
        BY <2>1, <3>1 DEF MarkerSound
      <3>3. i <= QSize - cancel.i
        BY <2>2, <2>3, <3>2 DEF Left
      <3> QED BY <3>2, <3>3 DEF Rotating
    <2> QED BY <2>4 DEF MarkerOwned
  <1> QED BY <1>1, IInvInvariant, PTL

\* Every message has one owner at a time, so none is freed twice or used after
\* it was freed, whatever the timers and the cancellations do.
THEOREM OneOwnerEach == Spec => []OneOwner
  <1>1. IInv => OneOwner
    BY DEF IInv
  <1> QED BY <1>1, IInvInvariant, PTL
-----------------------------------------------------------------------------
(* Order and cancellation.                                                  *)

\* The rotation has not come to position i yet: it is ahead of the marker or,
\* if the queue had no room for one, within the turns left.
Unturned(i) ==
  IF cancel.head THEN \A p \in DOMAIN queue : queue[p] = Marker => i < p
  ELSE i <= Left

\* Without a marker every turn left has an item to take.
TurnsSound == Rotating /\ ~cancel.head => Left <= Len(queue)

\* What is taken has its place kept, unless something arrives.
HandRoom == pc = "rotatePut" /\ ~mixed => Len(queue) < QSize

\* The messages turned follow those to be turned, each part in order.
InOrder ==
  ~mixed => \A i, j \in DOMAIN queue :
    queue[i].kind = "msg" /\ queue[j].kind = "msg" =>
      /\ i < j /\ (Rotating => (Unturned(i) <=> Unturned(j))) => queue[i].n < queue[j].n
      /\ Rotating /\ Unturned(i) /\ ~Unturned(j) => queue[j].n < queue[i].n

HandInOrder ==
  ~mixed /\ pc = "rotatePut" /\ cancel.msg.kind = "msg" =>
    \A i \in DOMAIN queue : queue[i].kind = "msg" =>
      /\ Unturned(i) => cancel.msg.n < queue[i].n
      /\ ~Unturned(i) => queue[i].n < cancel.msg.n

OrderInv == TurnsSound /\ HandRoom /\ InOrder /\ HandInOrder

\* A message that is pending is somewhere.
Located ==
  \A m \in Msgs :
    /\ fate[m] = "queued" => InHand(Message(m)) \/ \E i \in DOMAIN queue : queue[i] = Message(m)
    /\ fate[m] = "delayed" => \E s \in Slots : timers[s].msg = m

\* One message of a key is delayed at a time, in a slot that has its timer.
OneKey ==
  /\ \A s \in Slots : timers[s].msg # 0 => timers[s].used /\ timers[s].tid # "null"
  /\ \A r, s \in Slots :
       timers[r].msg # 0 /\ timers[s].msg # 0 /\ keyOf[timers[r].msg] = keyOf[timers[s].msg]
         => r = s

\* What is left of the key that is being cancelled.
CancelKey ==
  /\ pc \in InCancel => cancel.since <= sent
  /\ pc \in {"cancelTest", "cancelDelete"} => \A s \in Slots :
       timers[s].msg # 0 /\ keyOf[timers[s].msg] = cancel.key => s = cancel.slot
  /\ pc \in {"cancelMark", "rotateTake", "rotatePut"} => \A s \in Slots :
       timers[s].msg # 0 => keyOf[timers[s].msg] # cancel.key
  /\ Rotating => \A i \in DOMAIN queue :
       queue[i].kind = "msg" /\ queue[i].n <= cancel.since /\ keyOf[queue[i].n] = cancel.key
         => Unturned(i)
  /\ pc = "rotatePut" /\ cancel.msg.kind = "msg" => keyOf[cancel.msg.n] # cancel.key

KeyInv == Located /\ OneKey /\ CancelKey

----------------------------------------------------------------------------
\* Outside a rotation only the order in the queue is claimed.
LEMMA OutsideOrder ==
  ASSUME ~Rotating
  PROVE  /\ OrderInv => (~mixed => \A i, j \in DOMAIN queue :
              queue[i].kind = "msg" /\ queue[j].kind = "msg" /\ i < j => queue[i].n < queue[j].n)
         /\ (~mixed => \A i, j \in DOMAIN queue :
              queue[i].kind = "msg" /\ queue[j].kind = "msg" /\ i < j => queue[i].n < queue[j].n)
            => OrderInv
  BY DEF Rotating, OrderInv, TurnsSound, HandRoom, InOrder, HandInOrder

\* What does not touch the queue, the rotation or mixed does not touch the order.
LEMMA SameOrder ==
  ASSUME OrderInv, UNCHANGED <<queue, mixed>>,
         \/ UNCHANGED <<pc, cancel>>
         \/ ~Rotating /\ ~Rotating'
  PROVE  OrderInv'
  <1>1. CASE UNCHANGED <<pc, cancel>>
    BY <1>1 DEF OrderInv, TurnsSound, HandRoom, InOrder, HandInOrder, Rotating, Left, Unturned
  <1>2. CASE ~Rotating /\ ~Rotating'
    BY <1>2 DEF OrderInv, TurnsSound, HandRoom, InOrder, HandInOrder, Rotating
  <1> QED BY <1>1, <1>2

\* What is appended during a rotation is admitted by mixed; outside it a message
\* is appended with the highest number so far.
LEMMA AppendOrder ==
  ASSUME IInv, OrderInv, NEW x \in Items, queue' = Append(queue, x),
         UNCHANGED <<pc, cancel>>,
         IF Rotating THEN mixed' = TRUE ELSE mixed' = mixed,
         x.kind = "msg" => x.n = sent + 1
  PROVE  OrderInv'
  <1>1. TypeOK /\ Fresh
    BY DEF IInv
  <1>2. /\ DOMAIN queue' = 1 .. Len(queue) + 1 /\ DOMAIN queue = 1 .. Len(queue)
        /\ Len(queue) \in Nat /\ Len(queue') = Len(queue) + 1
        /\ \A i \in 1 .. Len(queue) : queue'[i] = queue[i]
        /\ queue'[Len(queue) + 1] = x
    BY <1>1, TypeFacts, AppendFacts
  <1>3. CASE Rotating
    <2>1. TurnsSound'
      <3>1. cancel.i \in 0 .. QSize /\ QSize \in Nat
        BY <1>1, TypeFacts, AppMainAssumption
      <3> QED BY <1>2, <3>1 DEF OrderInv, TurnsSound, Rotating, Left
    <2> QED BY <1>3, <2>1 DEF OrderInv, HandRoom, InOrder, HandInOrder
  <1>4. CASE ~Rotating
    <2>1. \A i \in DOMAIN queue : queue[i].kind = "msg" =>
            queue[i].n \in Nat /\ queue[i].n <= sent /\ sent \in Nat
      BY <1>1, TypeFacts, AppMainAssumption DEF Fresh, Msgs
    <2>2. ~mixed => \A i, j \in DOMAIN queue :
            queue[i].kind = "msg" /\ queue[j].kind = "msg" /\ i < j => queue[i].n < queue[j].n
      BY <1>4, OutsideOrder
    <2>3. ~mixed' => \A i, j \in DOMAIN queue' :
            queue'[i].kind = "msg" /\ queue'[j].kind = "msg" /\ i < j
              => queue'[i].n < queue'[j].n
      <3> SUFFICES ASSUME ~mixed', NEW i \in DOMAIN queue', NEW j \in DOMAIN queue',
                          queue'[i].kind = "msg", queue'[j].kind = "msg", i < j
                   PROVE  queue'[i].n < queue'[j].n
        OBVIOUS
      <3>1. i \in DOMAIN queue /\ queue'[i] = queue[i]
        BY <1>2
      <3>2. CASE j \in DOMAIN queue
        BY <1>2, <1>4, <2>2, <3>1, <3>2
      <3>3. CASE j = Len(queue) + 1
        BY <1>2, <2>1, <3>1, <3>3
      <3> QED BY <1>2, <3>2, <3>3
    <2> QED BY <1>4, <2>3 DEF Rotating, OrderInv, TurnsSound, HandRoom, InOrder, HandInOrder
  <1> QED BY <1>3, <1>4

\* What is received leaves the rest in order; an empty queue starts afresh.
LEMMA DispatchOrder ==
  ASSUME IInv, OrderInv, ~Rotating, ~Rotating', queue # <<>>, queue' = Tail(queue),
         mixed' = (mixed /\ Tail(queue) # <<>>)
  PROVE  OrderInv'
  <1>1. TypeOK
    BY DEF IInv
  <1>2. /\ DOMAIN queue' = 1 .. Len(queue) - 1 /\ DOMAIN queue = 1 .. Len(queue)
        /\ Len(queue) \in Nat
        /\ \A i \in 1 .. Len(queue) - 1 : queue'[i] = queue[i + 1]
    BY <1>1, TypeFacts, TailFacts
  <1>3. ~mixed => \A i, j \in DOMAIN queue :
          queue[i].kind = "msg" /\ queue[j].kind = "msg" /\ i < j => queue[i].n < queue[j].n
    BY OutsideOrder
  <1>4. ~mixed' => \A i, j \in DOMAIN queue' :
          queue'[i].kind = "msg" /\ queue'[j].kind = "msg" /\ i < j
            => queue'[i].n < queue'[j].n
    <2>1. CASE mixed
      <3>1. ~mixed' => queue' = <<>>
        BY <2>1, Zenon
      <3>2. queue' = <<>> => DOMAIN queue' = {}
        OBVIOUS
      <3> QED BY <3>1, <3>2
    <2>2. CASE ~mixed
      <3> SUFFICES ASSUME NEW i \in DOMAIN queue', NEW j \in DOMAIN queue',
                          queue'[i].kind = "msg", queue'[j].kind = "msg", i < j
                   PROVE  queue'[i].n < queue'[j].n
        OBVIOUS
      <3>1. i + 1 \in DOMAIN queue /\ j + 1 \in DOMAIN queue /\ i + 1 < j + 1
        BY <1>2
      <3> QED BY <1>2, <1>3, <2>2, <3>1
    <2> QED BY <2>1, <2>2
  <1> QED BY <1>4 DEF Rotating, OrderInv, TurnsSound, HandRoom, InOrder, HandInOrder

\* The marker, or none if the queue is full, puts everything ahead of the turns.
LEMMA CancelMarkOrder == ASSUME IInv, OrderInv, CancelMark PROVE OrderInv'
  <1>1. TypeOK /\ MarkerSound /\ CancelTurns
    BY DEF IInv
  <1>2. /\ pc = "cancelMark" /\ pc' = "rotateTake" /\ mixed' = mixed
        /\ DOMAIN queue = 1 .. Len(queue) /\ Len(queue) \in 0 .. QSize /\ QSize \in Nat
        /\ cancel \in CancelType /\ cancel.i = 0 /\ cancel.head = FALSE
        /\ \A i \in DOMAIN queue : queue[i] # Marker
        /\ ~Rotating /\ Rotating'
    BY <1>1, TypeFacts, AppMainAssumption
    DEF CancelMark, CancelTurns, MarkerSound, Rotating
  <1>3. ~mixed => \A i, j \in DOMAIN queue :
          queue[i].kind = "msg" /\ queue[j].kind = "msg" /\ i < j => queue[i].n < queue[j].n
    BY <1>2, OutsideOrder
  <1>4. CASE HasRoom
    <2>1. queue' = Append(queue, Marker) /\ cancel' = [cancel EXCEPT !.head = TRUE]
      BY <1>4 DEF CancelMark
    <2>2. cancel'.head = TRUE /\ cancel'.i = 0
      BY <1>2, <2>1, CancelFacts
    <2>3. /\ DOMAIN queue' = 1 .. Len(queue) + 1
          /\ \A i \in 1 .. Len(queue) : queue'[i] = queue[i]
          /\ queue'[Len(queue) + 1] = Marker
      BY <1>1, <2>1, TypeFacts, ItemFacts, AppendFacts
    <2>4. \A i \in DOMAIN queue' : queue'[i].kind = "msg" => i \in DOMAIN queue /\ Unturned(i)'
      BY <1>2, <2>2, <2>3, ItemFacts DEF Unturned
    <2>5. TurnsSound' /\ HandRoom' /\ HandInOrder'
      BY <1>2, <2>2 DEF TurnsSound, HandRoom, HandInOrder
    <2>6. InOrder'
      BY <1>2, <1>3, <2>3, <2>4 DEF InOrder
    <2> QED BY <2>5, <2>6 DEF OrderInv
  <1>5. CASE ~HasRoom
    <2>1. UNCHANGED <<queue, cancel>>
      BY <1>5 DEF CancelMark
    <2>2. Len(queue) = QSize /\ Left' = QSize
      <3>1. Len(queue) = QSize
        <4>1. Len(queue) \in 0 .. QSize /\ QSize \in Nat
          BY <1>2
        <4>2. ~(Len(queue) < QSize)
          BY <1>5
        <4> QED BY <4>1, <4>2
      <3>2. Left' = QSize - cancel.i
        BY <1>2, <2>1 DEF Left
      <3> QED BY <1>2, <3>1, <3>2
    <2>3. \A i \in DOMAIN queue' : Unturned(i)'
      BY <1>2, <2>1, <2>2 DEF Unturned
    <2>4. TurnsSound' /\ HandRoom' /\ HandInOrder'
      BY <1>2, <2>1, <2>2 DEF TurnsSound, HandRoom, HandInOrder
    <2>5. InOrder'
      BY <1>2, <1>3, <2>1, <2>3 DEF InOrder
    <2> QED BY <2>4, <2>5 DEF OrderInv
  <1> QED BY <1>4, <1>5

\* Nothing is left to turn when a rotation ends.
LEMMA RotateEndFacts ==
  ASSUME IInv, RotateTake, pc' = "handler"
  PROVE  /\ pc = "rotateTake" /\ fate' = fate
         /\ \A i \in DOMAIN queue : ~Unturned(i)
         /\ \/ queue' = queue
            \/ queue # <<>> /\ queue' = Tail(queue) /\ Head(queue) = Marker
  <1>1. TypeOK /\ MarkerSound
    BY DEF IInv
  <1>2. /\ pc = "rotateTake" /\ Rotating
        /\ DOMAIN queue = 1 .. Len(queue) /\ Len(queue) \in 0 .. QSize /\ QSize \in Nat
        /\ cancel.i \in 0 .. QSize /\ Left = QSize - cancel.i
    BY <1>1, TypeFacts, AppMainAssumption DEF RotateTake, Rotating, Left
  <1>3. /\ fate' = fate
        /\ \/ (cancel.i = QSize \/ queue = <<>>) /\ queue' = queue
           \/ queue # <<>> /\ Head(queue) = Marker /\ queue' = Tail(queue)
    BY DEF RotateTake
  <1>4. CASE queue = <<>>
    <2>1. DOMAIN queue = {}
      BY <1>4
    <2> QED BY <1>2, <1>3, <1>4, <2>1
  <1>5. CASE cancel.i = QSize /\ queue' = queue
    <2>1. ~cancel.head /\ \A i \in DOMAIN queue : ~Unturned(i)
      BY <1>1, <1>2, <1>5 DEF MarkerSound, Unturned
    <2> QED BY <1>2, <1>3, <2>1
  <1>6. CASE queue # <<>> /\ Head(queue) = Marker /\ queue' = Tail(queue)
    <2>1. queue[1] = Marker /\ 1 \in DOMAIN queue
      BY <1>1, <1>6, TypeFacts, TailFacts
    <2>2. cancel.head
      BY <1>1, <2>1 DEF MarkerSound
    <2>3. \A i \in DOMAIN queue : ~Unturned(i)
      BY <1>2, <2>1, <2>2 DEF Unturned
    <2> QED BY <1>2, <1>3, <1>6, <2>3
  <1> QED BY <1>3, <1>4, <1>5, <1>6

\* A rotation ends with nothing left to turn, so with everything in order.
LEMMA RotateEndOrder ==
  ASSUME IInv, OrderInv, RotateTake, pc' = "handler"
  PROVE  OrderInv'
  <1>1. /\ pc = "rotateTake" /\ Rotating /\ ~Rotating' /\ mixed' = mixed
        /\ \A i \in DOMAIN queue : ~Unturned(i)
    BY RotateEndFacts DEF RotateTake, Rotating
  <1>2. ~mixed => \A i, j \in DOMAIN queue :
          queue[i].kind = "msg" /\ queue[j].kind = "msg" /\ i < j => queue[i].n < queue[j].n
    BY <1>1 DEF OrderInv, InOrder
  <1>3. ~mixed' => \A i, j \in DOMAIN queue' :
          queue'[i].kind = "msg" /\ queue'[j].kind = "msg" /\ i < j => queue'[i].n < queue'[j].n
    <2>1. CASE queue' = queue
      BY <1>1, <1>2, <2>1
    <2>2. CASE queue # <<>> /\ queue' = Tail(queue)
      <3>1. /\ DOMAIN queue = 1 .. Len(queue) /\ Len(queue) \in Nat
            /\ DOMAIN queue' = 1 .. Len(queue) - 1
            /\ \A i \in 1 .. Len(queue) - 1 : queue'[i] = queue[i + 1]
        BY <2>2, TypeFacts, TailFacts DEF IInv
      <3> SUFFICES ASSUME ~mixed', NEW i \in DOMAIN queue', NEW j \in DOMAIN queue',
                          queue'[i].kind = "msg", queue'[j].kind = "msg", i < j
                   PROVE  queue'[i].n < queue'[j].n
        OBVIOUS
      <3>2. i + 1 \in DOMAIN queue /\ j + 1 \in DOMAIN queue /\ i + 1 < j + 1
        BY <3>1
      <3> QED BY <1>1, <1>2, <3>1, <3>2
    <2> QED BY <2>1, <2>2, RotateEndFacts
  <1> QED BY <1>1, <1>3 DEF Rotating, OrderInv, TurnsSound, HandRoom, InOrder, HandInOrder

\* A turn brings everything one place nearer; what it takes was first of all.
LEMMA RotateTurnFacts ==
  ASSUME IInv, OrderInv, RotateTake, pc' # "handler"
  PROVE  /\ queue # <<>> /\ queue' = Tail(queue) /\ mixed' = mixed
         /\ pc = "rotateTake" /\ pc' \in {"rotateTake", "rotatePut"}
         /\ pc' = "rotatePut" => cancel'.msg = Head(queue) /\ ~Matches(Head(queue))
         /\ pc' = "rotateTake" => Matches(Head(queue))
         /\ cancel'.head = cancel.head /\ cancel'.slot = cancel.slot
         /\ cancel'.key = cancel.key /\ cancel'.since = cancel.since
         /\ Left' = Left - 1 /\ Left \in Nat \ {0}
         /\ DOMAIN queue = 1 .. Len(queue) /\ Len(queue) \in 1 .. QSize
         /\ DOMAIN queue' = 1 .. Len(queue) - 1 /\ Len(queue') = Len(queue) - 1
         /\ \A i \in 1 .. Len(queue) - 1 : queue'[i] = queue[i + 1]
         /\ Head(queue) = queue[1]
         /\ Unturned(1)
         /\ \A i \in DOMAIN queue' : i + 1 \in DOMAIN queue /\ (Unturned(i)' <=> Unturned(i + 1))
  <1>1. TypeOK
    BY DEF IInv
  <1>2. /\ cancel.i < QSize /\ queue # <<>> /\ queue' = Tail(queue) /\ mixed' = mixed
        /\ Head(queue) # Marker
        /\ pc = "rotateTake"
        /\ \/ /\ Matches(Head(queue)) /\ pc' = "rotateTake"
              /\ cancel' = [cancel EXCEPT !.i = @ + 1]
           \/ /\ ~Matches(Head(queue)) /\ pc' = "rotatePut"
              /\ cancel' = [cancel EXCEPT !.msg = Head(queue)]
    BY <1>1, TypeFacts, AppMainAssumption DEF RotateTake
  <1>3. /\ cancel \in CancelType /\ cancel.i \in 0 .. QSize /\ QSize \in Nat
        /\ Head(queue) \in Items
    BY <1>1, <1>2, TypeFacts, AppMainAssumption, TailFacts
  <1>4. /\ DOMAIN queue = 1 .. Len(queue) /\ Len(queue) \in 1 .. QSize
        /\ DOMAIN queue' = 1 .. Len(queue) - 1 /\ Len(queue') = Len(queue) - 1
        /\ \A i \in 1 .. Len(queue) - 1 : queue'[i] = queue[i + 1]
        /\ Head(queue) = queue[1]
    BY <1>1, <1>2, TypeFacts, TailFacts
  <1>5. /\ cancel'.head = cancel.head /\ cancel'.slot = cancel.slot
        /\ cancel'.key = cancel.key /\ cancel'.since = cancel.since
        /\ pc' = "rotateTake" => cancel'.i = cancel.i + 1
        /\ pc' = "rotatePut" => cancel'.i = cancel.i /\ cancel'.msg = Head(queue)
    BY <1>2, <1>3 DEF CancelType
  <1>6. Left' = Left - 1 /\ Left \in Nat \ {0}
    BY <1>2, <1>3, <1>5 DEF Left
  <1>7. Unturned(1)
    BY <1>2, <1>4, <1>6 DEF Unturned
  <1>8. ASSUME NEW i \in DOMAIN queue'
        PROVE  i + 1 \in DOMAIN queue /\ (Unturned(i)' <=> Unturned(i + 1))
    <2>1. i + 1 \in DOMAIN queue
      BY <1>4
    <2>2. CASE cancel.head
      <3>1. (\A p \in DOMAIN queue' : queue'[p] = Marker => i < p)
              <=> (\A p \in DOMAIN queue : queue[p] = Marker => i + 1 < p)
        <4>1. ASSUME \A p \in DOMAIN queue' : queue'[p] = Marker => i < p,
                     NEW p \in DOMAIN queue, queue[p] = Marker
              PROVE  i + 1 < p
          <5>1. p # 1 /\ p - 1 \in DOMAIN queue' /\ queue'[p - 1] = queue[p]
            BY <1>2, <1>4, <4>1
          <5> QED BY <1>4, <4>1, <5>1
        <4>2. ASSUME \A p \in DOMAIN queue : queue[p] = Marker => i + 1 < p,
                     NEW p \in DOMAIN queue', queue'[p] = Marker
              PROVE  i < p
          <5>1. p + 1 \in DOMAIN queue /\ queue'[p] = queue[p + 1]
            BY <1>4
          <5> QED BY <1>4, <4>2, <5>1
        <4> QED BY <4>1, <4>2
      <3>2. Unturned(i)' <=> \A p \in DOMAIN queue' : queue'[p] = Marker => i < p
        BY <1>5, <2>2, Zenon DEF Unturned
      <3>3. Unturned(i + 1) <=> \A p \in DOMAIN queue : queue[p] = Marker => i + 1 < p
        BY <2>2, Zenon DEF Unturned
      <3> QED BY <2>1, <3>1, <3>2, <3>3, Zenon
    <2>3. CASE ~cancel.head
      BY <1>4, <1>5, <1>6, <2>3 DEF Unturned
    <2> QED BY <2>1, <2>2, <2>3
  <1> QED BY <1>2, <1>4, <1>5, <1>6, <1>7, <1>8

\* A turn moves the border between the two parts, and neither part.
LEMMA RotateTurnOrder ==
  ASSUME IInv, OrderInv, RotateTake, pc' # "handler"
  PROVE  OrderInv'
  <1>1. /\ queue # <<>> /\ mixed' = mixed
        /\ pc = "rotateTake" /\ Rotating /\ Rotating'
        /\ pc' = "rotatePut" => cancel'.msg = queue[1]
        /\ cancel'.head = cancel.head
        /\ Left' = Left - 1 /\ Left \in Nat \ {0}
        /\ DOMAIN queue = 1 .. Len(queue) /\ Len(queue) \in 1 .. QSize
        /\ DOMAIN queue' = 1 .. Len(queue) - 1 /\ Len(queue') = Len(queue) - 1
        /\ \A i \in 1 .. Len(queue) - 1 : queue'[i] = queue[i + 1]
        /\ Unturned(1)
        /\ \A i \in DOMAIN queue' : i + 1 \in DOMAIN queue /\ (Unturned(i)' <=> Unturned(i + 1))
    BY RotateTurnFacts DEF Rotating
  <1>2. TurnsSound'
    BY <1>1 DEF OrderInv, TurnsSound
  <1>3. HandRoom'
    BY <1>1, AppMainAssumption DEF HandRoom
  <1>4. InOrder'
    <2> SUFFICES ASSUME ~mixed', NEW i \in DOMAIN queue', NEW j \in DOMAIN queue',
                        queue'[i].kind = "msg", queue'[j].kind = "msg"
                 PROVE  /\ i < j /\ (Unturned(i)' <=> Unturned(j)') => queue'[i].n < queue'[j].n
                        /\ Unturned(i)' /\ ~Unturned(j)' => queue'[j].n < queue'[i].n
      BY <1>1 DEF InOrder
    <2>1. /\ i + 1 \in DOMAIN queue /\ queue'[i] = queue[i + 1]
          /\ j + 1 \in DOMAIN queue /\ queue'[j] = queue[j + 1]
          /\ i < j => i + 1 < j + 1
      BY <1>1
    <2> QED BY <1>1, <2>1 DEF OrderInv, InOrder
  <1>5. HandInOrder'
    <2> SUFFICES ASSUME ~mixed', pc' = "rotatePut", queue[1].kind = "msg",
                        NEW i \in DOMAIN queue', queue'[i].kind = "msg"
                 PROVE  /\ Unturned(i)' => queue[1].n < queue'[i].n
                        /\ ~Unturned(i)' => queue'[i].n < queue[1].n
      BY <1>1 DEF HandInOrder
    <2>1. i + 1 \in DOMAIN queue /\ queue'[i] = queue[i + 1] /\ 1 < i + 1 /\ 1 \in DOMAIN queue
      BY <1>1
    <2> QED BY <1>1, <2>1 DEF OrderInv, InOrder
  <1> QED BY <1>2, <1>3, <1>4, <1>5 DEF OrderInv

\* A turn that gives back what it took was counted when it took it.
LEMMA RotatePutLocals ==
  ASSUME IInv, RotatePut
  PROVE  /\ cancel'.head = cancel.head /\ cancel'.slot = cancel.slot
         /\ cancel'.key = cancel.key /\ cancel'.since = cancel.since
         /\ cancel.i < QSize /\ cancel'.i = cancel.i + 1 /\ Left' = Left /\ Left \in Nat
  <1>1. TypeOK /\ CancelTurns
    BY DEF IInv
  <1>2. /\ pc = "rotatePut" /\ pc' = "rotateTake"
        /\ cancel' = [cancel EXCEPT !.i = @ + 1, !.msg = Marker]
        /\ cancel.i < QSize
    BY <1>1 DEF RotatePut, CancelTurns
  <1>3. cancel \in CancelType /\ cancel.i \in 0 .. QSize /\ QSize \in Nat
    BY <1>1, TypeFacts, AppMainAssumption
  <1>4. /\ cancel'.head = cancel.head /\ cancel'.slot = cancel.slot
        /\ cancel'.key = cancel.key /\ cancel'.since = cancel.since
        /\ cancel'.i = cancel.i + 1
    BY <1>2, <1>3 DEF CancelType
  <1> QED BY <1>2, <1>3, <1>4 DEF Left

\* What was taken comes back behind everything, as the last of those turned.
LEMMA RotatePutFacts ==
  ASSUME IInv, OrderInv, RotatePut, Len(queue) < QSize
  PROVE  /\ queue' = Append(queue, cancel.msg)
         /\ DOMAIN queue = 1 .. Len(queue) /\ Len(queue) \in Nat
         /\ DOMAIN queue' = 1 .. Len(queue) + 1 /\ Len(queue') = Len(queue) + 1
         /\ \A i \in 1 .. Len(queue) : queue'[i] = queue[i]
         /\ queue'[Len(queue) + 1] = cancel.msg
         /\ \A i \in DOMAIN queue' : Unturned(i)' <=> i \in DOMAIN queue /\ Unturned(i)
  <1>1. TypeOK /\ MarkerSound /\ CancelTurns
    BY DEF IInv
  <1>2. /\ pc = "rotatePut" /\ pc' = "rotateTake"
        /\ queue' = Append(queue, cancel.msg)
        /\ cancel.msg \in Items /\ cancel.msg # Marker
    BY <1>1, TypeFacts DEF RotatePut, CancelTurns
  <1>3. cancel'.head = cancel.head /\ Left' = Left /\ Left \in Nat
    BY RotatePutLocals
  <1>5. /\ DOMAIN queue = 1 .. Len(queue) /\ Len(queue) \in Nat
        /\ DOMAIN queue' = 1 .. Len(queue) + 1 /\ Len(queue') = Len(queue) + 1
        /\ \A i \in 1 .. Len(queue) : queue'[i] = queue[i]
        /\ queue'[Len(queue) + 1] = cancel.msg
    BY <1>1, <1>2, TypeFacts, AppendFacts
  <1>6. ASSUME NEW i \in DOMAIN queue', i \notin DOMAIN queue PROVE ~Unturned(i)'
    <2>1. CASE cancel.head
      <3>1. PICK p \in DOMAIN queue : queue[p] = Marker
        BY <1>1, <1>2, <2>1 DEF MarkerSound, Rotating
      <3>2. p \in DOMAIN queue' /\ queue'[p] = Marker /\ ~(i < p)
        BY <1>5, <1>6, <3>1
      <3> QED BY <1>3, <2>1, <3>2 DEF Unturned
    <2>2. CASE ~cancel.head
      BY <1>2, <1>3, <1>5, <1>6, <2>2 DEF Unturned, OrderInv, TurnsSound, Rotating
    <2> QED BY <2>1, <2>2
  <1>7. ASSUME NEW i \in DOMAIN queue PROVE Unturned(i)' <=> Unturned(i)
    <2>1. (\A p \in DOMAIN queue' : queue'[p] = Marker => i < p)
            <=> (\A p \in DOMAIN queue : queue[p] = Marker => i < p)
      BY <1>2, <1>5
    <2>2. i <= Left' <=> i <= Left
      BY <1>3
    <2> QED BY <1>3, <2>1, <2>2, Zenon DEF Unturned
  <1>8. ASSUME NEW i \in DOMAIN queue' PROVE Unturned(i)' <=> i \in DOMAIN queue /\ Unturned(i)
    <2>1. CASE i \in DOMAIN queue
      BY <1>7, <2>1
    <2>2. CASE i \notin DOMAIN queue
      BY <1>6, <2>2
    <2> QED BY <2>1, <2>2
  <1> QED BY <1>2, <1>5, <1>8

\* What is put back is in order behind those turned, or the queue has filled up.
LEMMA RotatePutOrder == ASSUME IInv, OrderInv, RotatePut PROVE OrderInv'
  <1>1. TypeOK /\ CancelTurns
    BY DEF IInv
  <1>2. /\ pc = "rotatePut" /\ pc' = "rotateTake" /\ mixed' = mixed
        /\ Rotating /\ Rotating'
        /\ Len(queue) \in 0 .. QSize /\ QSize \in Nat
    BY <1>1, TypeFacts, AppMainAssumption DEF RotatePut, Rotating
  <1>3. CASE Len(queue) < QSize
    <2>1. /\ DOMAIN queue = 1 .. Len(queue) /\ Len(queue) \in Nat
          /\ DOMAIN queue' = 1 .. Len(queue) + 1 /\ Len(queue') = Len(queue) + 1
          /\ \A i \in 1 .. Len(queue) : queue'[i] = queue[i]
          /\ queue'[Len(queue) + 1] = cancel.msg
          /\ \A i \in DOMAIN queue' : Unturned(i)' <=> i \in DOMAIN queue /\ Unturned(i)
      BY <1>3, RotatePutFacts
    <2>2. TurnsSound'
      BY <1>2, <2>1, RotatePutLocals DEF OrderInv, TurnsSound
    <2>3. HandRoom' /\ HandInOrder'
      BY <1>2 DEF HandRoom, HandInOrder
    <2>4. InOrder'
      <3> SUFFICES ASSUME ~mixed, NEW i \in DOMAIN queue', NEW j \in DOMAIN queue',
                          queue'[i].kind = "msg", queue'[j].kind = "msg"
                   PROVE  /\ i < j /\ (Unturned(i)' <=> Unturned(j)') => queue'[i].n < queue'[j].n
                          /\ Unturned(i)' /\ ~Unturned(j)' => queue'[j].n < queue'[i].n
        BY <1>2 DEF InOrder
      <3>1. CASE i \in DOMAIN queue /\ j \in DOMAIN queue
        BY <1>2, <2>1, <3>1 DEF OrderInv, InOrder
      <3>2. CASE i \in DOMAIN queue /\ j \notin DOMAIN queue
        <4>1. /\ queue'[i] = queue[i] /\ queue[i].kind = "msg"
              /\ queue'[j] = cancel.msg /\ cancel.msg.kind = "msg"
              /\ ~Unturned(j)' /\ (Unturned(i)' <=> Unturned(i))
          BY <2>1, <3>2
        <4>2. /\ Unturned(i) => cancel.msg.n < queue[i].n
              /\ ~Unturned(i) => queue[i].n < cancel.msg.n
          BY <1>2, <3>2, <4>1 DEF OrderInv, HandInOrder
        <4> QED BY <4>1, <4>2
      <3>3. CASE i \notin DOMAIN queue
        <4>1. ~Unturned(i)' /\ ~(i < j)
          BY <2>1, <3>3
        <4> QED BY <4>1
      <3> QED BY <2>1, <3>1, <3>2, <3>3
    <2> QED BY <2>2, <2>3, <2>4 DEF OrderInv
  <1>4. CASE Len(queue) >= QSize
    <2>1. mixed /\ mixed'
      BY <1>2, <1>4 DEF OrderInv, HandRoom
    <2>2. TurnsSound'
      <3>1. queue' = queue
        BY <1>2, <1>4 DEF RotatePut
      <3> QED BY <1>2, <3>1, RotatePutLocals DEF OrderInv, TurnsSound
    <2> QED BY <2>1, <2>2 DEF OrderInv, HandRoom, InOrder, HandInOrder
  <1> QED BY <1>2, <1>3, <1>4

\* OrderInv is inductive, given IInv.
LEMMA NextOrder == ASSUME IInv, OrderInv, [Next]_vars PROVE OrderInv'
  <1>1. TypeOK /\ mixed \in BOOLEAN
    BY DEF IInv, TypeOK
  <1>2. CASE Receive \/ HandlePending
    <2>1. /\ queue # <<>> /\ queue' = Tail(queue) /\ mixed' = (mixed /\ Tail(queue) # <<>>)
      BY <1>2 DEF Receive, HandlePending, Dispatch
    <2>2. ~Rotating /\ pc' \in {pc, "handler"}
      BY <1>2 DEF Receive, HandlePending, Dispatch, DispatchMsg, DispatchTrigger, Rotating
    <2> QED BY <2>1, <2>2, DispatchOrder DEF Rotating
  <1>3. ASSUME NEW k \in Keys, AppSend(k) \/ Send(k) PROVE OrderInv'
    <2>1. SendMsg(k) /\ Message(sent + 1) \in Items
      BY <1>1, <1>3, TypeFacts, ItemFacts, AppMainAssumption DEF AppSend, Send, SendMsg, GenMsg, Msgs
    <2>2. queue' = Append(queue, Message(sent + 1)) /\ UNCHANGED <<pc, cancel>>
      BY <2>1 DEF SendMsg
    <2>3. IF Rotating THEN mixed' = TRUE ELSE mixed' = mixed
      BY <1>1, <1>3, Zenon DEF AppSend, Send, Rotating
    <2> QED BY <2>1, <2>2, <2>3, ItemFacts, AppendOrder
  <1>4. ASSUME NEW s \in Slots, TimerFire(s) PROVE OrderInv'
    <2>1. CASE TriggerPosted(s)
      <3>1. IF Rotating THEN mixed' = TRUE ELSE mixed' = mixed
        BY <1>1, <2>1, Zenon DEF TriggerPosted, Rotating
      <3> QED BY <1>4, <2>1, <3>1, ItemFacts, AppendOrder DEF TimerFire, TriggerPosted
    <2>2. CASE TriggerRefused(s)
      BY <1>4, <2>2, SameOrder DEF TimerFire, TriggerRefused
    <2> QED BY <1>4, <2>1, <2>2 DEF TimerFire
  <1>5. CASE CancelMark
    BY <1>5, CancelMarkOrder
  <1>6. CASE RotateTake
    BY <1>6, RotateEndOrder, RotateTurnOrder
  <1>7. CASE RotatePut
    BY <1>7, RotatePutOrder
  <1>8. CASE HandlerReturn \/ EnterFt \/ CancelTest \/ CancelDelete
    BY <1>8, SameOrder DEF HandlerReturn, EnterFt, CancelTest, CancelDelete, Rotating
  <1>9. ASSUME NEW k \in Keys, SendDelay(k) \/ CancelFind(k) PROVE OrderInv'
    BY <1>9, SameOrder DEF SendDelay, CancelFind, Rotating
  <1>10. CASE UNCHANGED vars
    BY <1>10, SameOrder DEF vars
  <1> QED BY <1>2, <1>3, <1>4, <1>5, <1>6, <1>7, <1>8, <1>9, <1>10 DEF Next, AppMainStep

\* The rotation keeps the two parts of the queue in order and the parts in order
\* of each other, as long as nothing arrives while it is under way.
THEOREM OrderInvariant == Spec => []OrderInv
  <1>1. Init => OrderInv
    BY DEF Init, OrderInv, TurnsSound, HandRoom, InOrder, HandInOrder, Rotating
  <1> QED BY <1>1, NextOrder, IInvInvariant, PTL DEF Spec

\* Messages are handled in the order they were sent: handle_msg takes the head
\* of the queue, and outside a cancellation its messages are in that order.
THEOREM Fifo == Spec => []FifoUnlessMixed
  <1>1. OrderInv => FifoUnlessMixed
    BY DEF OrderInv, InOrder, FifoUnlessMixed, Rotating
  <1> QED BY <1>1, OrderInvariant, PTL

\* A message is given up by a rotation only when the queue has filled up.
LEMMA LossStep ==
  ASSUME IInv, OrderInv, [Next]_vars, NEW m \in Msgs, fate'[m] = "requeueLost"
  PROVE  fate[m] = "requeueLost" \/ mixed
  <1>1. fate \in [Msgs -> Fates] /\ TypeOK
    BY DEF IInv, TypeOK
  <1>2. CASE Receive \/ HandlePending
    BY <1>1, <1>2 DEF Receive, HandlePending, Dispatch, DispatchMsg, DispatchTrigger
  <1>3. ASSUME NEW k \in Keys, AppSend(k) \/ Send(k) \/ SendDelay(k) \/ CancelFind(k)
        PROVE  fate[m] = "requeueLost"
    BY <1>1, <1>3 DEF AppSend, Send, SendMsg, SendDelay, CancelFind, DelayStarted, DelayNoMsg,
                      DelayNoTimer
  <1>4. ASSUME NEW s \in Slots, TimerFire(s) PROVE fate[m] = "requeueLost"
    BY <1>1, <1>4 DEF TimerFire, TriggerPosted, TriggerRefused
  <1>5. CASE CancelTest \/ CancelDelete \/ CancelMark \/ HandlerReturn \/ EnterFt \/ UNCHANGED vars
    BY <1>1, <1>5 DEF CancelTest, CancelDelete, CancelMark, HandlerReturn, EnterFt, vars
  <1>6. CASE RotateTake
    BY <1>1, <1>6 DEF RotateTake
  <1>7. CASE RotatePut
    BY <1>1, <1>7, TypeFacts DEF RotatePut, OrderInv, HandRoom
  <1> QED BY <1>2, <1>3, <1>4, <1>5, <1>6, <1>7 DEF Next, AppMainStep

\* A cancellation gives up a message of another key only if one arrived while
\* it was rotating the queue.
THEOREM CancelLoses == Spec => CancelLosesOnlyIfMixed
  <1>1. IInv /\ OrderInv /\ [Next]_vars =>
          [\A m \in Msgs : fate'[m] = "requeueLost" => fate[m] = "requeueLost" \/ mixed]_vars
    BY LossStep
  <1> QED BY <1>1, IInvInvariant, OrderInvariant, PTL DEF Spec, CancelLosesOnlyIfMixed

----------------------------------------------------------------------------
\* What is appended changes nothing about what is still to be turned.
LEMMA AppendUnturned ==
  ASSUME IInv, NEW x \in Items, x # Marker, queue' = Append(queue, x), UNCHANGED <<pc, cancel>>
  PROVE  \A i \in DOMAIN queue : Unturned(i)' <=> Unturned(i)
  <1>1. TypeOK
    BY DEF IInv
  <1>2. /\ DOMAIN queue = 1 .. Len(queue) /\ Len(queue) \in Nat
        /\ DOMAIN queue' = 1 .. Len(queue) + 1
        /\ \A i \in 1 .. Len(queue) : queue'[i] = queue[i]
        /\ queue'[Len(queue) + 1] = x
    BY <1>1, TypeFacts, AppendFacts
  <1>3. ASSUME NEW i \in DOMAIN queue PROVE Unturned(i)' <=> Unturned(i)
    <2>1. (\A p \in DOMAIN queue' : queue'[p] = Marker => i < p)
            <=> (\A p \in DOMAIN queue : queue[p] = Marker => i < p)
      BY <1>2
    <2>2. Left' = Left
      BY DEF Left
    <2> QED BY <2>1, <2>2, Zenon DEF Unturned
  <1> QED BY <1>3

\* The slots without their timers: all that Located and OneKey say of them.
LEMMA SlotKeys ==
  ASSUME IInv, KeyInv
  PROVE  /\ \A s \in Slots :
              timers[s].msg # 0 => /\ timers[s].used /\ timers[s].tid # "null"
                                  /\ timers[s].msg \in Msgs /\ timers[s].msg <= sent
         /\ \A s \in Slots : timers[s] \in SlotType
         /\ fate \in [Msgs -> Fates] /\ keyOf \in [Msgs -> Keys]
         /\ timers \in [Slots -> SlotType]
         /\ sent \in 0 .. MaxMsgs /\ MaxMsgs \in Nat
  BY TypeFacts, AppMainAssumption DEF IInv, KeyInv, OneKey, Fresh, TypeOK

\* A message sent is in the queue, with a number above that of any the
\* cancellation under way, if there is one, is to remove.
LEMMA SendMsgKey == ASSUME IInv, KeyInv, NEW k \in Keys, SendMsg(k) PROVE KeyInv'
  <1>1. TypeOK /\ Fresh
    BY DEF IInv
  <1>2. /\ sent + 1 \in Msgs /\ sent' = sent + 1
        /\ keyOf' = [keyOf EXCEPT ![sent + 1] = k]
        /\ fate' = [fate EXCEPT ![sent + 1] = "queued"]
        /\ queue' = Append(queue, Message(sent + 1))
        /\ UNCHANGED <<timers, pc, cancel>>
        /\ Message(sent + 1) \in Items /\ Message(sent + 1) # Marker
        /\ Message(sent + 1).n = sent + 1
    BY SlotKeys, ItemFacts DEF SendMsg, GenMsg, Msgs
  <1>3. /\ DOMAIN queue = 1 .. Len(queue) /\ Len(queue) \in Nat
        /\ DOMAIN queue' = 1 .. Len(queue) + 1
        /\ \A i \in 1 .. Len(queue) : queue'[i] = queue[i]
        /\ queue'[Len(queue) + 1] = Message(sent + 1)
    BY <1>1, <1>2, TypeFacts, AppendFacts
  <1>4. /\ \A m \in Msgs : m # sent + 1 => fate'[m] = fate[m] /\ keyOf'[m] = keyOf[m]
        /\ sent \in 0 .. MaxMsgs
    BY <1>2, SlotKeys
  <1>5. \A s \in Slots : timers[s].msg # 0 => keyOf'[timers[s].msg] = keyOf[timers[s].msg]
    BY <1>4, SlotKeys
  <1>6. Located'
    <2>1. ASSUME NEW m \in Msgs, fate'[m] = "queued"
          PROVE  InHand(Message(m))' \/ \E i \in DOMAIN queue' : queue'[i] = Message(m)
      <3>1. CASE m = sent + 1
        BY <1>3, <3>1
      <3>2. CASE m # sent + 1
        <4>1. InHand(Message(m)) \/ \E i \in DOMAIN queue : queue[i] = Message(m)
          BY <1>4, <2>1, <3>2 DEF KeyInv, Located
        <4>2. InHand(Message(m)) => InHand(Message(m))'
          BY <1>2 DEF InHand
        <4> QED BY <1>3, <4>1, <4>2
      <3> QED BY <3>1, <3>2
    <2>2. ASSUME NEW m \in Msgs, fate'[m] = "delayed" PROVE \E s \in Slots : timers'[s].msg = m
      <3>1. m # sent + 1
        BY <1>2, <2>2, SlotKeys
      <3> QED BY <1>2, <1>4, <2>2, <3>1 DEF KeyInv, Located
    <2> QED BY <2>1, <2>2 DEF Located
  <1>7. OneKey'
    BY <1>2, <1>5 DEF KeyInv, OneKey
  <1>8. CancelKey'
    <2>1. cancel.since \in 0 .. MaxMsgs
      BY <1>1, TypeFacts DEF CancelType
    <2>2. pc' \in InCancel => cancel'.since <= sent'
      BY <1>2, <1>4, <2>1 DEF KeyInv, CancelKey
    <2>3. pc' = "rotatePut" /\ cancel'.msg.kind = "msg" => keyOf'[cancel'.msg.n] # cancel'.key
      <3>1. pc = "rotatePut" /\ cancel.msg.kind = "msg" =>
              cancel.msg.n \in Msgs /\ cancel.msg.n <= sent
        BY <1>1, TypeFacts DEF Fresh
      <3> QED BY <1>2, <1>4, <3>1 DEF KeyInv, CancelKey
    <2>4. ASSUME Rotating', NEW i \in DOMAIN queue', queue'[i].kind = "msg",
                 queue'[i].n <= cancel'.since, keyOf'[queue'[i].n] = cancel'.key
          PROVE  Unturned(i)'
      <3>1. Rotating /\ cancel.since <= sent
        BY <1>2, <2>4 DEF Rotating, KeyInv, CancelKey, InCancel
      <3>2. i \in DOMAIN queue /\ queue'[i] = queue[i]
        BY <1>2, <1>3, <1>4, <2>1, <2>4, <3>1
      <3>3. queue[i].n \in Msgs /\ queue[i].n <= sent
        BY <1>1, <2>4, <3>2, TypeFacts DEF Fresh
      <3>4. Unturned(i)
        BY <1>2, <1>4, <2>4, <3>1, <3>2, <3>3 DEF KeyInv, CancelKey
      <3> QED BY <1>2, <3>2, <3>4, AppendUnturned
    <2>5. /\ pc' \in {"cancelTest", "cancelDelete"} => \A s \in Slots :
               timers'[s].msg # 0 /\ keyOf'[timers'[s].msg] = cancel'.key => s = cancel'.slot
          /\ pc' \in {"cancelMark", "rotateTake", "rotatePut"} => \A s \in Slots :
               timers'[s].msg # 0 => keyOf'[timers'[s].msg] # cancel'.key
      BY <1>2, <1>5 DEF KeyInv, CancelKey
    <2> QED BY <2>2, <2>3, <2>4, <2>5 DEF CancelKey
  <1> QED BY <1>6, <1>7, <1>8 DEF KeyInv

\* A message is delayed in a slot that was free, if none of its key is.
LEMMA SendDelayKey == ASSUME IInv, KeyInv, NEW k \in Keys, SendDelay(k) PROVE KeyInv'
  <1>1. TypeOK
    BY DEF IInv
  <1>2. /\ pc = "handler" /\ UNCHANGED <<queue, pc, cancel>>
        /\ \A s \in Slots : ~Holds(s, k)
    BY DEF SendDelay
  <1>3. PICK s \in Slots :
          /\ AllocSlot(s)
          /\ DelayStarted(s, k) \/ DelayNoMsg(s) \/ DelayNoTimer(k)
    BY DEF SendDelay
  <1>4. /\ timers[s].msg = 0
        /\ \A r \in Slots : timers[r].msg # 0 => keyOf[timers[r].msg] # k
    BY <1>2, <1>3, SlotKeys DEF AllocSlot, Holds
  <1>5. CancelKey'
    BY <1>2 DEF CancelKey, InCancel, Rotating
  <1>6. CASE DelayStarted(s, k)
    <2>1. /\ sent + 1 \in Msgs
          /\ \A m \in Msgs : m # sent + 1 => fate'[m] = fate[m] /\ keyOf'[m] = keyOf[m]
          /\ fate'[sent + 1] = "delayed" /\ keyOf'[sent + 1] = k
      BY <1>6, SlotKeys DEF DelayStarted, GenMsg, Msgs
    <2>2. /\ \A r \in Slots : r # s => timers'[r] = timers[r]
          /\ timers'[s].used /\ timers'[s].tid = "running" /\ timers'[s].msg = sent + 1
      BY <1>6, SlotKeys DEF DelayStarted
    <2>3. \A r \in Slots : timers[r].msg # 0 => keyOf'[timers[r].msg] = keyOf[timers[r].msg]
      BY <2>1, SlotKeys
    <2>4. Located'
      BY <1>2, <1>4, <2>1, <2>2 DEF KeyInv, Located, InHand, Msgs
    <2>5. OneKey'
      BY <1>4, <2>1, <2>2, <2>3 DEF KeyInv, OneKey
    <2> QED BY <1>5, <2>4, <2>5 DEF KeyInv
  <1>7. CASE DelayNoMsg(s)
    <2>1. /\ UNCHANGED <<sent, keyOf, fate>>
          /\ \A r \in Slots : r # s => timers'[r] = timers[r]
          /\ timers'[s].msg = 0
      BY <1>4, <1>7, SlotKeys DEF DelayNoMsg, SlotType
    <2>2. Located' /\ OneKey'
      BY <1>2, <1>4, <2>1 DEF KeyInv, Located, OneKey, InHand, Msgs
    <2> QED BY <1>5, <2>2 DEF KeyInv
  <1>8. CASE DelayNoTimer(k)
    <2>1. /\ UNCHANGED timers
          /\ \A m \in Msgs : m # sent + 1 => fate'[m] = fate[m] /\ keyOf'[m] = keyOf[m]
          /\ sent + 1 \in Msgs /\ fate'[sent + 1] = "vanished"
      BY <1>8, SlotKeys DEF DelayNoTimer, GenMsg, Msgs
    <2>2. \A r \in Slots : timers[r].msg # 0 => keyOf'[timers[r].msg] = keyOf[timers[r].msg]
      BY <2>1, SlotKeys
    <2>3. Located' /\ OneKey'
      BY <1>2, <2>1, <2>2 DEF KeyInv, Located, OneKey, InHand
    <2> QED BY <1>5, <2>3 DEF KeyInv
  <1> QED BY <1>3, <1>6, <1>7, <1>8

\* What freeing a slot leaves of the table.
LEMMA FreedFacts ==
  ASSUME IInv, KeyInv, NEW s \in Slots, timers' = [timers EXCEPT ![s] = FreeSlot]
  PROVE  /\ timers'[s].msg = 0
         /\ \A r \in Slots : r # s => timers'[r] = timers[r]
         /\ keyOf' = keyOf => OneKey'
  <1>1. /\ timers'[s].msg = 0
        /\ \A r \in Slots : r # s => timers'[r] = timers[r]
    BY SlotKeys DEF FreeSlot
  <1> QED BY <1>1 DEF KeyInv, OneKey

\* The daemon posts a trigger, or frees the slot and gives its message up.
LEMMA TimerFireKey == ASSUME IInv, KeyInv, NEW s \in Slots, TimerFire(s) PROVE KeyInv'
  <1>1. TypeOK /\ TimerOwned
    BY DEF IInv
  <1>2. /\ UNCHANGED <<pc, cancel, sent, keyOf>> /\ timers[s].tid = "running"
        /\ timers[s].msg \in Msgs /\ timers[s].used /\ timers[s] \in SlotType
    BY <1>1, TypeFacts DEF TimerFire, TimerOwned
  <1>3. CASE TriggerPosted(s)
    <2>1. /\ queue' = Append(queue, Trigger(s)) /\ fate' = fate
          /\ timers' = [timers EXCEPT ![s].tid = "expired"]
          /\ Trigger(s) \in Items /\ Trigger(s) # Marker /\ Trigger(s).kind = "trigger"
      BY <1>3, ItemFacts DEF TriggerPosted
    <2>2. /\ DOMAIN queue = 1 .. Len(queue) /\ Len(queue) \in Nat
          /\ DOMAIN queue' = 1 .. Len(queue) + 1
          /\ \A i \in 1 .. Len(queue) : queue'[i] = queue[i]
          /\ queue'[Len(queue) + 1] = Trigger(s)
      BY <1>1, <2>1, TypeFacts, AppendFacts
    <2>3. /\ \A r \in Slots : /\ timers'[r].msg = timers[r].msg
                             /\ timers'[r].used = timers[r].used
          /\ timers'[s].tid = "expired"
          /\ \A r \in Slots : r # s => timers'[r] = timers[r]
      BY <1>2, <2>1, SlotKeys DEF SlotType
    <2>4. Located' /\ OneKey'
      BY <1>2, <2>1, <2>2, <2>3 DEF KeyInv, Located, OneKey, InHand
    <2>5. \A i \in DOMAIN queue : Unturned(i)' <=> Unturned(i)
      BY <1>2, <2>1, AppendUnturned
    <2>6. CancelKey'
      <3>1. ASSUME Rotating', NEW i \in DOMAIN queue', queue'[i].kind = "msg",
                   queue'[i].n <= cancel'.since, keyOf'[queue'[i].n] = cancel'.key
            PROVE  Unturned(i)'
        <4>1. i \in DOMAIN queue /\ queue'[i] = queue[i] /\ Rotating
          BY <1>2, <2>1, <2>2, <3>1 DEF Rotating
        <4> QED BY <1>2, <2>5, <3>1, <4>1 DEF KeyInv, CancelKey
      <3> QED BY <1>2, <2>3, <3>1 DEF KeyInv, CancelKey
    <2> QED BY <2>4, <2>6 DEF KeyInv
  <1>4. CASE TriggerRefused(s)
    <2>1. /\ timers' = [timers EXCEPT ![s] = FreeSlot] /\ queue' = queue
          /\ \A m \in Msgs : m # timers[s].msg => fate'[m] = fate[m]
          /\ fate'[timers[s].msg] = "expiredLost"
      BY <1>2, <1>4, SlotKeys DEF TriggerRefused
    <2>2. /\ timers'[s].msg = 0 /\ OneKey'
          /\ \A r \in Slots : r # s => timers'[r] = timers[r]
      BY <1>2, <2>1, FreedFacts
    <2>3. Located'
      BY <1>2, <2>1, <2>2 DEF KeyInv, Located, InHand
    <2>4. CancelKey'
      BY <1>2, <2>1, <2>2 DEF KeyInv, CancelKey, Rotating, Unturned, Left
    <2> QED BY <2>2, <2>3, <2>4 DEF KeyInv
  <1> QED BY <1>3, <1>4 DEF TimerFire

\* What is received was the first of the queue; a delayed message leaves its slot.
LEMMA DispatchKey ==
  ASSUME IInv, KeyInv, Dispatch, pc \in {"receive", "handler"}
  PROVE  KeyInv'
  <1> DEFINE x == Head(queue)
  <1>1. TypeOK
    BY DEF IInv
  <1>2. /\ UNCHANGED <<cancel, sent, keyOf>> /\ queue # <<>> /\ queue' = Tail(queue)
        /\ pc' \in {"receive", "handler"}
    BY DEF Dispatch, DispatchMsg, DispatchTrigger
  <1>3. /\ DOMAIN queue = 1 .. Len(queue) /\ Len(queue) \in Nat
        /\ DOMAIN queue' = 1 .. Len(queue) - 1
        /\ \A i \in 1 .. Len(queue) - 1 : queue'[i] = queue[i + 1]
        /\ x = queue[1] /\ x \in Items
    BY <1>1, <1>2, TypeFacts, TailFacts
  <1>4. CancelKey'
    BY <1>2 DEF CancelKey, InCancel, Rotating
  <1>5. ASSUME NEW m \in Msgs, fate[m] = "queued", Message(m) # x
        PROVE  \E i \in DOMAIN queue' : queue'[i] = Message(m)
    <2>1. PICK i \in DOMAIN queue : queue[i] = Message(m)
      BY <1>5 DEF KeyInv, Located, InHand
    <2>2. i - 1 \in DOMAIN queue' /\ queue'[i - 1] = queue[i]
      BY <1>3, <1>5, <2>1
    <2> QED BY <2>1, <2>2
  <1>6. CASE x.kind = "msg"
    <2>1. x.n \in Msgs /\ x = Message(x.n) /\ UNCHANGED timers
      BY <1>3, <1>6, ItemFacts DEF Dispatch, DispatchMsg
    <2>2. fate' = [fate EXCEPT ![x.n] = IF ft THEN "ignored" ELSE "handled"]
      BY <1>6 DEF Dispatch, DispatchMsg
    <2>3. /\ \A m \in Msgs : m # x.n => fate'[m] = fate[m]
          /\ fate'[x.n] \in {"ignored", "handled"}
      BY <2>1, <2>2, SlotKeys
    <2>4. \A m \in Msgs : m # x.n => Message(m) # x
      BY ItemFacts
    <2> HIDE DEF x
    <2>5. Located' /\ OneKey'
      BY <1>2, <1>5, <2>1, <2>3, <2>4 DEF KeyInv, Located, OneKey
    <2> QED BY <1>4, <2>5 DEF KeyInv
  <1>7. CASE x.kind = "trigger"
    <2> DEFINE s == x.n
    <2>1. s \in Slots /\ DispatchTrigger(s)
      BY <1>3, <1>7, ItemFacts DEF Dispatch
    <2>2. \A m \in Msgs : Message(m) # x
      BY <1>7, ItemFacts
    <2> HIDE DEF x, s
    <2>3. CASE ft
      <3>1. UNCHANGED <<timers, fate, pc>>
        BY <2>1, <2>3 DEF DispatchTrigger
      <3>2. Located' /\ OneKey'
        BY <1>2, <1>5, <2>2, <3>1 DEF KeyInv, Located, OneKey
      <3> QED BY <1>4, <3>2 DEF KeyInv
    <2>4. CASE ~ft
      <3>1. /\ timers' = [timers EXCEPT ![s] = FreeSlot]
            /\ IF timers[s].msg # 0 THEN fate' = [fate EXCEPT ![timers[s].msg] = "handled"]
                                    ELSE fate' = fate
        BY <2>1, <2>4 DEF DispatchTrigger
      <3>2. /\ timers'[s].msg = 0 /\ OneKey'
            /\ \A r \in Slots : r # s => timers'[r] = timers[r]
        BY <1>2, <2>1, <3>1, FreedFacts
      <3>3. /\ \A m \in Msgs : m # timers[s].msg => fate'[m] = fate[m]
            /\ timers[s].msg # 0 => fate'[timers[s].msg] = "handled"
        BY <2>1, <3>1, SlotKeys
      <3>4. Located'
        BY <1>5, <2>1, <2>2, <3>2, <3>3 DEF KeyInv, Located, Msgs
      <3> QED BY <1>4, <3>2, <3>4 DEF KeyInv
    <2> QED BY <2>3, <2>4
  <1>8. CASE x.kind \notin {"msg", "trigger"}
    <2>1. UNCHANGED <<timers, fate>>
      BY <1>8 DEF Dispatch
    <2>2. \A m \in Msgs : Message(m) # x
      BY <1>8, ItemFacts
    <2>3. Located' /\ OneKey'
      BY <1>2, <1>5, <2>1, <2>2 DEF KeyInv, Located, OneKey
    <2> QED BY <1>4, <2>3 DEF KeyInv
  <1> QED BY <1>6, <1>7, <1>8

\* The scan finds the one slot of the key, or that there is none.
LEMMA CancelFindKey == ASSUME IInv, KeyInv, NEW k \in Keys, CancelFind(k) PROVE KeyInv'
  <1>1. /\ UNCHANGED <<queue, timers, sent, keyOf, fate>> /\ pc = "handler"
        /\ pc' \in {"cancelTest", "cancelMark"}
    BY DEF CancelFind
  <1>2. Located' /\ OneKey'
    BY <1>1 DEF KeyInv, Located, OneKey, InHand
  <1>3. cancel'.since = sent /\ cancel'.key = k /\ sent \in Nat
    BY SlotKeys DEF CancelFind, CancelOf
  <1>4. \A s \in Slots : timers[s].msg # 0 /\ keyOf[timers[s].msg] = k => Holds(s, k)
    BY SlotKeys DEF Holds
  <1>5. ASSUME pc' = "cancelTest" PROVE CancelKey'
    <2>1. \E s \in Slots : Holds(s, k) /\ cancel'.slot = s
      BY <1>5 DEF CancelFind, CancelOf
    <2>2. \A s \in Slots : timers[s].msg # 0 /\ keyOf[timers[s].msg] = k => s = cancel'.slot
      BY <2>1 DEF KeyInv, OneKey, Holds
    <2> QED BY <1>1, <1>3, <1>5, <2>2 DEF CancelKey, Rotating
  <1>6. ASSUME pc' = "cancelMark" PROVE CancelKey'
    <2>1. \A s \in Slots : ~Holds(s, k)
      BY <1>6 DEF CancelFind
    <2> QED BY <1>1, <1>3, <1>4, <1>6, <2>1 DEF CancelKey, Rotating
  <1>7. CancelKey'
    BY <1>1, <1>5, <1>6
  <1> QED BY <1>2, <1>7 DEF KeyInv

\* The slot is freed with its message, unless a trigger has freed it already.
LEMMA CancelDeleteKey == ASSUME IInv, KeyInv, CancelTest \/ CancelDelete PROVE KeyInv'
  <1>1. CancelSlot /\ TimerOwned /\ TypeOK
    BY DEF IInv
  <1>2. /\ UNCHANGED <<queue, cancel, sent, keyOf>>
        /\ pc \in {"cancelTest", "cancelDelete"}
        /\ pc' \in {"cancelDelete", "cancelMark", "fault"}
        /\ cancel.slot \in Slots
    BY <1>1 DEF CancelTest, CancelDelete, CancelSlot
  <1>3. CASE CancelTest
    <2>1. /\ UNCHANGED <<timers, fate>> /\ pc = "cancelTest"
          /\ pc' = "cancelMark" => timers[cancel.slot].tid = "null"
      BY <1>3 DEF CancelTest
    <2>2. Located' /\ OneKey'
      BY <1>2, <2>1 DEF KeyInv, Located, OneKey, InHand
    <2>3. pc' = "cancelMark" => timers[cancel.slot].msg = 0
      BY <1>2, <2>1, SlotKeys
    <2>4. CancelKey'
      BY <1>2, <2>1, <2>3 DEF KeyInv, CancelKey, InCancel, Rotating
    <2> QED BY <2>2, <2>4 DEF KeyInv
  <1>4. CASE CancelDelete
    <2> DEFINE t == timers[cancel.slot]
    <2>1. CASE t.tid = "null"
      <3>1. UNCHANGED <<timers, fate>> /\ pc' = "fault"
        BY <1>4, <2>1 DEF CancelDelete
      <3>2. Located' /\ OneKey'
        BY <1>2, <3>1 DEF KeyInv, Located, OneKey, InHand
      <3>3. CancelKey'
        BY <3>1 DEF CancelKey, InCancel, Rotating
      <3> QED BY <3>2, <3>3 DEF KeyInv
    <2>2. CASE t.tid # "null"
      <3>1. /\ timers' = [timers EXCEPT ![cancel.slot] = FreeSlot]
            /\ fate' = [fate EXCEPT ![t.msg] = "cancelled"]
            /\ pc' = "cancelMark" /\ t.msg \in Msgs /\ pc = "cancelDelete"
        BY <1>1, <1>2, <1>4, <2>2, TypeFacts DEF CancelDelete, TimerOwned
      <3>2. /\ timers'[cancel.slot].msg = 0 /\ OneKey'
            /\ \A r \in Slots : r # cancel.slot => timers'[r] = timers[r]
        BY <1>2, <3>1, FreedFacts
      <3>3. /\ \A m \in Msgs : m # t.msg => fate'[m] = fate[m]
            /\ fate'[t.msg] = "cancelled"
        BY <3>1, SlotKeys
      <3>4. Located'
        BY <1>2, <3>1, <3>2, <3>3 DEF KeyInv, Located, InHand
      <3>5. CancelKey'
        BY <1>2, <3>1, <3>2 DEF KeyInv, CancelKey, InCancel, Rotating
      <3> QED BY <3>2, <3>4, <3>5 DEF KeyInv
    <2> QED BY <2>1, <2>2
  <1> QED BY <1>3, <1>4

\* The marker goes behind every message of the key.
LEMMA CancelMarkKey == ASSUME IInv, KeyInv, CancelMark PROVE KeyInv'
  <1>1. TypeOK /\ CancelTurns /\ MarkerSound
    BY DEF IInv
  <1>2. /\ UNCHANGED <<timers, sent, keyOf, fate>>
        /\ pc = "cancelMark" /\ pc' = "rotateTake" /\ cancel \in CancelType
        /\ cancel.i = 0 /\ cancel.head = FALSE /\ QSize \in Nat
        /\ DOMAIN queue = 1 .. Len(queue) /\ Len(queue) \in 0 .. QSize
        /\ \A i \in DOMAIN queue : queue[i] # Marker
    BY <1>1, TypeFacts, AppMainAssumption DEF CancelMark, CancelTurns, MarkerSound, Rotating
  <1>3. /\ \A i \in DOMAIN queue : i \in DOMAIN queue' /\ queue'[i] = queue[i]
        /\ \A i \in DOMAIN queue' : queue'[i].kind = "msg" => Unturned(i)'
        /\ cancel'.since = cancel.since /\ cancel'.key = cancel.key
        /\ cancel'.slot = cancel.slot
    <2>1. CASE HasRoom
      <3>1. queue' = Append(queue, Marker) /\ cancel' = [cancel EXCEPT !.head = TRUE]
        BY <2>1 DEF CancelMark
      <3>2. /\ DOMAIN queue' = 1 .. Len(queue) + 1
            /\ \A i \in 1 .. Len(queue) : queue'[i] = queue[i]
            /\ queue'[Len(queue) + 1] = Marker
        BY <1>1, <3>1, TypeFacts, ItemFacts, AppendFacts
      <3>3. /\ cancel'.head /\ cancel'.since = cancel.since /\ cancel'.key = cancel.key
            /\ cancel'.slot = cancel.slot
        BY <1>2, <3>1 DEF CancelType
      <3> QED BY <1>2, <3>2, <3>3, ItemFacts DEF Unturned
    <2>2. CASE ~HasRoom
      <3>1. UNCHANGED <<queue, cancel>>
        BY <2>2 DEF CancelMark
      <3>2. ~(Len(queue) < QSize)
        BY <2>2
      <3>3. Left' = QSize
        BY <1>2, <3>1 DEF Left
      <3> QED BY <1>2, <3>1, <3>2, <3>3 DEF Unturned
    <2> QED BY <2>1, <2>2
  <1>4. Located' /\ OneKey'
    BY <1>2, <1>3 DEF KeyInv, Located, OneKey, InHand
  <1>5. CancelKey'
    BY <1>2, <1>3 DEF KeyInv, CancelKey, InCancel
  <1> QED BY <1>4, <1>5 DEF KeyInv

\* A rotation ends: it may have taken its marker off, no message.
LEMMA RotateEndKey == ASSUME IInv, KeyInv, RotateTake, pc' = "handler" PROVE KeyInv'
  <1>1. TypeOK
    BY DEF IInv
  <1>2. /\ UNCHANGED <<timers, sent, keyOf>> /\ fate' = fate /\ pc = "rotateTake"
        /\ \/ queue' = queue
           \/ queue # <<>> /\ queue' = Tail(queue) /\ Head(queue) = Marker
    BY RotateEndFacts DEF RotateTake
  <1>3. ASSUME NEW m \in Msgs, fate'[m] = "queued"
        PROVE  \E i \in DOMAIN queue' : queue'[i] = Message(m)
    <2>1. PICK i \in DOMAIN queue : queue[i] = Message(m)
      BY <1>2, <1>3 DEF KeyInv, Located, InHand
    <2>2. CASE queue' = queue
      BY <2>1, <2>2
    <2>3. CASE queue # <<>> /\ queue' = Tail(queue) /\ Head(queue) = Marker
      <3>1. /\ DOMAIN queue = 1 .. Len(queue) /\ Len(queue) \in Nat
            /\ DOMAIN queue' = 1 .. Len(queue) - 1
            /\ \A j \in 1 .. Len(queue) - 1 : queue'[j] = queue[j + 1]
            /\ queue[1] = Marker
        BY <1>1, <2>3, TypeFacts, TailFacts
      <3>2. i # 1
        BY <2>1, <3>1, ItemFacts
      <3>3. i - 1 \in DOMAIN queue' /\ queue'[i - 1] = queue[i]
        BY <3>1, <3>2
      <3> QED BY <2>1, <3>3
    <2> QED BY <1>2, <2>2, <2>3
  <1>4. Located' /\ OneKey'
    BY <1>2, <1>3 DEF KeyInv, Located, OneKey
  <1>5. CancelKey'
    BY DEF CancelKey, InCancel, Rotating
  <1> QED BY <1>4, <1>5 DEF KeyInv

\* A turn takes a message to hand, or frees one of the key.
LEMMA RotateTurnKey ==
  ASSUME IInv, OrderInv, KeyInv, RotateTake, pc' # "handler"
  PROVE  KeyInv'
  <1> DEFINE x == Head(queue)
  <1>1. TypeOK
    BY DEF IInv
  <1>2. /\ queue # <<>>
        /\ pc = "rotateTake" /\ pc' \in {"rotateTake", "rotatePut"}
        /\ pc' = "rotatePut" => cancel'.msg = x /\ ~Matches(x)
        /\ pc' = "rotateTake" => Matches(x)
        /\ cancel'.key = cancel.key /\ cancel'.since = cancel.since
        /\ DOMAIN queue = 1 .. Len(queue) /\ Len(queue) \in 1 .. QSize
        /\ DOMAIN queue' = 1 .. Len(queue) - 1
        /\ \A i \in 1 .. Len(queue) - 1 : queue'[i] = queue[i + 1]
        /\ x = queue[1] /\ x \in Items
        /\ \A i \in DOMAIN queue' : i + 1 \in DOMAIN queue /\ (Unturned(i)' <=> Unturned(i + 1))
    BY <1>1, RotateTurnFacts, TailFacts, TypeFacts
  <1>3. /\ UNCHANGED <<timers, sent, keyOf>>
        /\ pc' = "rotatePut" => fate' = fate
        /\ pc' = "rotateTake" =>
             fate' = IF x.kind = "msg" THEN [fate EXCEPT ![x.n] = "cancelled"] ELSE fate
    BY DEF RotateTake
  <1>4. x.kind = "msg" => x.n \in Msgs /\ x = Message(x.n)
    BY <1>2, ItemFacts
  <1>5. \A m \in Msgs : /\ fate'[m] \in {"queued", "delayed"} => fate'[m] = fate[m]
                        /\ fate'[m] = "queued" => pc' = "rotatePut" \/ x # Message(m)
    <2>1. CASE pc' = "rotatePut"
      BY <1>3, <2>1
    <2>2. CASE pc' = "rotateTake"
      <3>1. CASE x.kind = "msg"
        <4>1. /\ \A m \in Msgs : m # x.n => fate'[m] = fate[m]
              /\ fate'[x.n] = "cancelled"
          BY <1>3, <1>4, <2>2, <3>1, SlotKeys
        <4> QED BY <4>1, ItemFacts
      <3>2. CASE x.kind # "msg"
        BY <1>3, <2>2, <3>2, ItemFacts
      <3> QED BY <3>1, <3>2
    <2> QED BY <1>2, <2>1, <2>2
  <1>6. ASSUME NEW m \in Msgs, fate'[m] = "queued"
        PROVE  InHand(Message(m))' \/ \E i \in DOMAIN queue' : queue'[i] = Message(m)
    <2>1. PICK i \in DOMAIN queue : queue[i] = Message(m)
      BY <1>2, <1>5, <1>6 DEF KeyInv, Located, InHand
    <2>2. CASE i = 1
      <3>1. x = Message(m)
        BY <1>2, <2>1, <2>2
      <3>2. pc' = "rotatePut" /\ cancel'.msg = x
        BY <1>2, <1>5, <1>6, <3>1
      <3> QED BY <3>1, <3>2 DEF InHand
    <2>3. CASE i # 1
      <3>1. i - 1 \in DOMAIN queue' /\ queue'[i - 1] = queue[i]
        BY <1>2, <2>3
      <3> QED BY <2>1, <3>1
    <2> QED BY <2>2, <2>3
  <1> HIDE DEF x
  <1>7. Located' /\ OneKey'
    BY <1>3, <1>5, <1>6 DEF KeyInv, Located, OneKey
  <1>8. CancelKey'
    <2>1. ASSUME NEW i \in DOMAIN queue', queue'[i].kind = "msg",
                 queue'[i].n <= cancel'.since, keyOf'[queue'[i].n] = cancel'.key
          PROVE  Unturned(i)'
      <3>1. i + 1 \in DOMAIN queue /\ queue'[i] = queue[i + 1] /\ (Unturned(i)' <=> Unturned(i + 1))
        BY <1>2
      <3>2. Unturned(i + 1)
        BY <1>2, <1>3, <2>1, <3>1 DEF KeyInv, CancelKey, Rotating
      <3> QED BY <3>1, <3>2
    <2>2. pc' = "rotatePut" /\ cancel'.msg.kind = "msg" => keyOf'[cancel'.msg.n] # cancel'.key
      BY <1>2, <1>3 DEF Matches
    <2> QED BY <1>2, <1>3, <2>1, <2>2 DEF KeyInv, CancelKey, InCancel
  <1> QED BY <1>7, <1>8 DEF KeyInv

\* What is given back is not of the key.
LEMMA RotatePutKey == ASSUME IInv, OrderInv, KeyInv, RotatePut PROVE KeyInv'
  <1> DEFINE x == cancel.msg
  <1>1. TypeOK /\ CancelTurns /\ TriggerSound
    BY DEF IInv
  <1>2. /\ pc = "rotatePut" /\ pc' = "rotateTake" /\ UNCHANGED <<timers, sent, keyOf>>
        /\ cancel'.key = cancel.key /\ cancel'.since = cancel.since
        /\ Len(queue) \in 0 .. QSize /\ QSize \in Nat
        /\ x \in Items /\ x # Marker
    BY <1>1, RotatePutLocals, TypeFacts, AppMainAssumption DEF RotatePut, CancelTurns
  <1>3. OneKey'
    BY <1>2 DEF KeyInv, OneKey
  <1>4. CASE Len(queue) < QSize
    <2>1. /\ DOMAIN queue = 1 .. Len(queue) /\ Len(queue) \in Nat
          /\ DOMAIN queue' = 1 .. Len(queue) + 1
          /\ \A i \in 1 .. Len(queue) : queue'[i] = queue[i]
          /\ queue'[Len(queue) + 1] = x
          /\ \A i \in DOMAIN queue' : Unturned(i)' <=> i \in DOMAIN queue /\ Unturned(i)
          /\ fate' = fate
      BY <1>2, <1>4, RotatePutFacts DEF RotatePut
    <2> HIDE DEF x
    <2>2. Located'
      <3>1. \A m \in Msgs : InHand(Message(m)) => x = Message(m)
        BY DEF InHand, x
      <3> QED BY <1>2, <2>1, <3>1 DEF KeyInv, Located
    <2>3. CancelKey'
      <3>1. ASSUME NEW i \in DOMAIN queue', queue'[i].kind = "msg",
                   queue'[i].n <= cancel'.since, keyOf'[queue'[i].n] = cancel'.key
            PROVE  Unturned(i)'
        <4>1. CASE i \in DOMAIN queue
          BY <1>2, <2>1, <3>1, <4>1 DEF KeyInv, CancelKey, Rotating
        <4>2. CASE i \notin DOMAIN queue
          <5>1. queue'[i] = x
            BY <2>1, <4>2
          <5> QED BY <1>2, <3>1, <5>1 DEF KeyInv, CancelKey, x
        <4> QED BY <4>1, <4>2
      <3> QED BY <1>2, <3>1 DEF KeyInv, CancelKey, InCancel
    <2> QED BY <1>3, <2>2, <2>3 DEF KeyInv
  <1>5. CASE Len(queue) >= QSize
    <2> DEFINE m == IF x.kind = "msg" THEN x.n ELSE timers[x.n].msg
    <2>1. queue' = queue /\ fate' = [fate EXCEPT ![m] = "requeueLost"]
      BY <1>2, <1>5 DEF RotatePut
    <2>2. \A n \in Msgs : fate'[n] \in {"queued", "delayed"} => n # m /\ fate'[n] = fate[n]
      BY <2>1, SlotKeys
    <2>3. \A n \in Msgs : n # m => x # Message(n)
      BY ItemFacts
    <2> HIDE DEF m, x
    <2>4. Located'
      <3>1. \A n \in Msgs : InHand(Message(n)) => x = Message(n)
        BY DEF InHand, x
      <3> QED BY <1>2, <2>1, <2>2, <2>3, <3>1 DEF KeyInv, Located
    <2>5. \A i \in DOMAIN queue : Unturned(i)' <=> Unturned(i)
      BY <2>1, RotatePutLocals, Zenon DEF Unturned
    <2>6. CancelKey'
      BY <1>2, <2>1, <2>5 DEF KeyInv, CancelKey, InCancel, Rotating
    <2> QED BY <1>3, <2>4, <2>6 DEF KeyInv
  <1> QED BY <1>2, <1>4, <1>5

\* KeyInv is inductive, given IInv and OrderInv.
LEMMA NextKey == ASSUME IInv, OrderInv, KeyInv, [Next]_vars PROVE KeyInv'
  <1>1. CASE Receive \/ HandlePending
    BY <1>1, DispatchKey DEF Receive, HandlePending
  <1>2. ASSUME NEW k \in Keys, AppSend(k) \/ Send(k) PROVE KeyInv'
    BY <1>2, SendMsgKey DEF AppSend, Send
  <1>3. ASSUME NEW k \in Keys, SendDelay(k) \/ CancelFind(k) PROVE KeyInv'
    BY <1>3, SendDelayKey, CancelFindKey
  <1>4. ASSUME NEW s \in Slots, TimerFire(s) PROVE KeyInv'
    BY <1>4, TimerFireKey
  <1>5. CASE CancelTest \/ CancelDelete \/ CancelMark
    BY <1>5, CancelDeleteKey, CancelMarkKey
  <1>6. CASE RotateTake \/ RotatePut
    BY <1>6, RotateEndKey, RotateTurnKey, RotatePutKey
  <1>7. CASE HandlerReturn \/ EnterFt
    <2>1. /\ UNCHANGED <<queue, timers, cancel, sent, keyOf, fate>>
          /\ pc = "handler" /\ pc' \in {"receive", "handler"}
      BY <1>7 DEF HandlerReturn, EnterFt
    <2>2. Located' /\ OneKey'
      BY <2>1 DEF KeyInv, Located, OneKey, InHand
    <2>3. CancelKey'
      BY <2>1 DEF CancelKey, InCancel, Rotating
    <2> QED BY <2>2, <2>3 DEF KeyInv
  <1>8. CASE UNCHANGED vars
    <2>1. UNCHANGED <<queue, timers, cancel, sent, keyOf, fate, pc>>
      BY <1>8 DEF vars
    <2> QED BY <2>1 DEF KeyInv, Located, OneKey, InHand, CancelKey, Rotating, Unturned, Left
  <1> QED BY <1>1, <1>2, <1>3, <1>4, <1>5, <1>6, <1>7, <1>8 DEF Next, AppMainStep

\* Where every pending message is, and what is left of the key being cancelled.
THEOREM KeyInvariant == Spec => []KeyInv
  <1>1. Init => KeyInv
    BY DEF Init, KeyInv, Located, OneKey, CancelKey, FreeSlot, InCancel, Rotating
  <1> QED BY <1>1, NextKey, IInvInvariant, OrderInvariant, PTL DEF Spec

\* When app_cancel_msg returns, nothing sent under its key before the call is
\* still delayed or queued.
LEMMA CancelStep ==
  ASSUME IInv, KeyInv, [Next]_vars, pc \in InCancel, pc' = "handler",
         NEW m \in 1 .. cancel.since, keyOf[m] = cancel.key
  PROVE  fate'[m] \notin Pending
  <1>1. RotateTake
    <2>1. pc # "handler" /\ pc # "receive" /\ pc # pc'
      BY DEF InCancel
    <2> QED BY <2>1 DEF Next, AppMainStep, Receive, HandlePending, HandlerReturn, EnterFt, AppSend,
                        SendDelay, CancelFind, CancelTest, CancelDelete, CancelMark, RotatePut,
                        Send, SendMsg, TimerFire, vars
  <1>2. /\ pc = "rotateTake" /\ fate' = fate /\ Rotating
        /\ \A i \in DOMAIN queue : ~Unturned(i)
    BY <1>1, RotateEndFacts DEF Rotating
  <1>3. m \in Msgs /\ m <= cancel.since /\ m # 0
    <2>1. cancel.since <= sent /\ cancel.since \in 0 .. MaxMsgs /\ sent \in 0 .. MaxMsgs
      BY TypeFacts DEF IInv, KeyInv, CancelKey, CancelType
    <2> QED BY <2>1, AppMainAssumption DEF Msgs
  <1>4. fate[m] # "delayed"
    BY <1>2, <1>3 DEF KeyInv, Located, CancelKey
  <1>5. fate[m] # "queued"
    <2>1. SUFFICES ASSUME fate[m] = "queued" PROVE FALSE
      OBVIOUS
    <2>2. PICK i \in DOMAIN queue : queue[i] = Message(m)
      BY <1>2, <1>3, <2>1 DEF KeyInv, Located, InHand
    <2>3. Unturned(i)
      BY <1>2, <1>3, <2>2, ItemFacts DEF KeyInv, CancelKey
    <2> QED BY <1>2, <2>3
  <1> QED BY <1>2, <1>4, <1>5 DEF Pending

\* app_cancel_msg leaves nothing of its key behind, whatever the queue held,
\* whether or not there was room for the marker, and whatever arrived meanwhile.
THEOREM CancelIsComplete == Spec => CancelComplete
  <1>1. IInv /\ KeyInv /\ [Next]_vars =>
          [(pc \in InCancel /\ pc' = "handler") =>
             \A m \in 1 .. cancel.since :
               keyOf[m] = cancel.key => fate'[m] \notin Pending]_vars
    BY CancelStep
  <1> QED BY <1>1, IInvInvariant, KeyInvariant, PTL DEF Spec, CancelComplete
=============================================================================
