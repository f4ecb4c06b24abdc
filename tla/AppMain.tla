------------------------------ MODULE AppMain ------------------------------
(***************************************************************************)
(* app/tws/user_app/app_main.c: the message loop every application module  *)
(* runs in.  One queue of messages, written by every task of the firmware  *)
(* and read by the app_main task; a table of one-shot timers that turn a   *)
(* delayed message into a TIMER_TRIGGER in the same queue; and a           *)
(* cancellation that removes a message from the table and, by rotating the *)
(* queue once, from the queue.                                             *)
(*                                                                         *)
(* Actors: the app_main task (pc is where it stands), the timer daemon     *)
(* (TimerFire: it outranks app_main and never blocks, so its handler is    *)
(* one step) and the other tasks (Send).  Every access to the queue is a   *)
(* step of its own.                                                        *)
(*                                                                         *)
(* An operator X_Y that stands before X is X with the bug Y: a property is *)
(* checked to fail when X is replaced by it.                               *)
(***************************************************************************)
EXTENDS Integers, Sequences

CONSTANTS
  Keys,       \* the <<type, id>> pairs a message is sent and cancelled by
  NSlots,     \* MAX_DELAYED_MSG_COUNT
  QSize,      \* APP_MSG_QUEUE_SIZE
  MaxMsgs,    \* bound: messages generated in one behaviour
  AllocFails  \* TRUE: os_mem_malloc and os_create_timer may fail for lack of heap

ASSUME AppMainAssumption ==
  /\ Keys # {}
  /\ NSlots \in Nat \ {0}
  /\ QSize \in Nat \ {0}
  /\ MaxMsgs \in Nat
  /\ AllocFails \in BOOLEAN

VARIABLES
  queue,   \* main_queue_handle
  timers,  \* timers[]
  pc,      \* where the app_main task stands
  cancel,  \* the locals of app_cancel_msg
  ft,      \* context->in_ft_mode of app_bt.c
  sent,    \* messages generated so far: they are numbered in that order
  keyOf,   \* type and id of each message generated
  fate,    \* history: what has become of each message
  mixed    \* history: a message arrived while the queue was being rotated

vars == <<queue, timers, pc, cancel, ft, sent, keyOf, fate, mixed>>

Slots == 1 .. NSlots
Msgs == 1 .. MaxMsgs

\* An app_msg_t in the queue: an application message, the TIMER_TRIGGER of a
\* slot, or the marker that app_cancel_msg rotates up to.
Message(m) == [kind |-> "msg", n |-> m]
Trigger(s) == [kind |-> "trigger", n |-> s]
Marker == [kind |-> "head", n |-> 0]
Items == [kind : {"msg"}, n : Msgs] \cup [kind : {"trigger"}, n : Slots] \cup {Marker}

\* A timer_context_t.  tid is NULL, a started timer or one that has expired.
FreeSlot == [used |-> FALSE, tid |-> "null", msg |-> 0]
SlotType == [used : BOOLEAN, tid : {"null", "running", "expired"}, msg : 0 .. MaxMsgs]

\* The locals of app_cancel_msg as it starts; since is history, the number of
\* messages there were.
CancelOf(s, k, n) ==
  [slot |-> s, key |-> k, head |-> FALSE, i |-> 0, msg |-> Marker, since |-> n]
NoCancel == CancelOf(0, CHOOSE k \in Keys : TRUE, 0)
CancelType == [slot : 0 .. NSlots, key : Keys, head : BOOLEAN,
               i : 0 .. QSize, msg : Items, since : 0 .. MaxMsgs]

InCancel == {"cancelTest", "cancelDelete", "cancelMark", "rotateTake", "rotatePut"}
Pcs == {"receive", "handler", "fault"} \cup InCancel

Fates == {"new", "delayed", "queued", "handled", "ignored", "cancelled",
          "expiredLost", "requeueLost", "vanished"}
Pending == {"delayed", "queued"}

TypeOK ==
  /\ queue \in Seq(Items)
  /\ Len(queue) <= QSize
  /\ timers \in [Slots -> SlotType]
  /\ pc \in Pcs
  /\ cancel \in CancelType
  /\ ft \in BOOLEAN
  /\ sent \in 0 .. MaxMsgs
  /\ keyOf \in [Msgs -> Keys]
  /\ fate \in [Msgs -> Fates]
  /\ mixed \in BOOLEAN

Init ==
  /\ queue = <<>>
  /\ timers = [s \in Slots |-> FreeSlot]
  /\ pc = "receive"
  /\ cancel = NoCancel
  /\ ft = FALSE
  /\ sent = 0
  /\ keyOf = [m \in Msgs |-> CHOOSE k \in Keys : TRUE]
  /\ fate = [m \in Msgs |-> "new"]
  /\ mixed = FALSE

\* os_queue_send waits 0 ticks: it fails on a full queue.
HasRoom_OffByOne == Len(queue) <= QSize
HasRoom == Len(queue) < QSize

----------------------------------------------------------------------------
\* Sending.  A refused send (no heap, queue full) frees the message and changes
\* nothing, so only the accepted ones are steps.

\* gen_msg: the message after the last one, carrying key k.
GenMsg(k) ==
  /\ sent < MaxMsgs
  /\ sent' = sent + 1
  /\ keyOf' = [keyOf EXCEPT ![sent + 1] = k]

\* app_send_msg
SendMsg(k) ==
  /\ GenMsg(k)
  /\ HasRoom
  /\ queue' = Append(queue, Message(sent + 1))
  /\ fate' = [fate EXCEPT ![sent + 1] = "queued"]
  /\ UNCHANGED <<timers, pc, cancel, ft>>

\* Another task, at any time.
Send(k) ==
  /\ pc # "fault"
  /\ SendMsg(k)
  /\ mixed' = (mixed \/ pc \in {"rotateTake", "rotatePut"})

\* A handler running in app_main.
AppSend(k) ==
  /\ pc = "handler"
  /\ SendMsg(k)
  /\ UNCHANGED mixed

\* The slot whose message has key k, as the scans of app_send_msg_delay and
\* app_cancel_msg see it.
Holds_RunningOnly(s, k) ==
  timers[s].tid = "running" /\ timers[s].msg # 0 /\ keyOf[timers[s].msg] = k
Holds(s, k) == timers[s].used /\ timers[s].msg # 0 /\ keyOf[timers[s].msg] = k

\* app_send_msg_delay with a delay: the first free slot, unless k is pending.
\* What happens to the slot after it has been marked used depends on the heap.
AllocSlot(s) ==
  /\ ~timers[s].used
  /\ \A r \in 1 .. s - 1 : timers[r].used

DelayStarted(s, k) ==
  /\ GenMsg(k)
  /\ timers' = [timers EXCEPT ![s] = [used |-> TRUE, tid |-> "running", msg |-> sent + 1]]
  /\ fate' = [fate EXCEPT ![sent + 1] = "delayed"]

\* gen_msg failed: RET_FAIL, and the slot stays marked used.
DelayNoMsg(s) ==
  /\ AllocFails
  /\ timers' = [timers EXCEPT ![s].used = TRUE]
  /\ UNCHANGED <<sent, keyOf, fate>>

\* os_create_timer failed: the slot and the message are freed, 0 is returned.
DelayNoTimer(k) ==
  /\ AllocFails
  /\ GenMsg(k)
  /\ fate' = [fate EXCEPT ![sent + 1] = "vanished"]
  /\ UNCHANGED timers

SendDelay(k) ==
  /\ pc = "handler"
  /\ ~ \E s \in Slots : Holds(s, k)
  /\ \E s \in Slots :
       /\ AllocSlot(s)
       /\ DelayStarted(s, k) \/ DelayNoMsg(s) \/ DelayNoTimer(k)
  /\ UNCHANGED <<queue, pc, cancel, ft, mixed>>

----------------------------------------------------------------------------
\* The timer daemon.

\* timer_handler: post the trigger, or give the message up if the queue is full
\* or there is no heap for the trigger.
TriggerPosted(s) ==
  /\ HasRoom
  /\ queue' = Append(queue, Trigger(s))
  /\ timers' = [timers EXCEPT ![s].tid = "expired"]
  /\ mixed' = (mixed \/ pc \in {"rotateTake", "rotatePut"})
  /\ UNCHANGED fate

TriggerRefused_Kept(s) ==
  /\ ~HasRoom \/ AllocFails
  /\ timers' = [timers EXCEPT ![s].tid = "expired"]
  /\ UNCHANGED <<queue, mixed, fate>>
TriggerRefused(s) ==
  /\ ~HasRoom \/ AllocFails
  /\ timers' = [timers EXCEPT ![s] = FreeSlot]
  /\ fate' = [fate EXCEPT ![timers[s].msg] = "expiredLost"]
  /\ UNCHANGED <<queue, mixed>>

TimerFire(s) ==
  /\ pc # "fault"
  /\ timers[s].tid = "running"
  /\ TriggerPosted(s) \/ TriggerRefused(s)
  /\ UNCHANGED <<pc, cancel, ft, sent, keyOf>>

----------------------------------------------------------------------------
\* The app_main task: receive, dispatch, run a handler.

\* handle_msg on the message m: its handler runs, unless in factory test mode.
DispatchMsg(m) ==
  /\ fate' = [fate EXCEPT ![m] = IF ft THEN "ignored" ELSE "handled"]
  /\ pc' = IF ft THEN pc ELSE "handler"
  /\ UNCHANGED timers

\* app_main_handle_msg: the timer is deleted and its slot freed before the
\* delayed message is handled.  In factory test mode handle_msg returns first.
DispatchTrigger_KeepsMsg(s) ==
  IF ft THEN UNCHANGED <<timers, fate, pc>>
  ELSE /\ timers' = [timers EXCEPT ![s].used = FALSE, ![s].tid = "null"]
       /\ fate' = [fate EXCEPT ![timers[s].msg] = "handled"]
       /\ pc' = "handler"
DispatchTrigger(s) ==
  IF ft THEN UNCHANGED <<timers, fate, pc>>
  ELSE /\ timers' = [timers EXCEPT ![s] = FreeSlot]
       /\ IF timers[s].msg # 0
          THEN /\ fate' = [fate EXCEPT ![timers[s].msg] = "handled"]
               /\ pc' = "handler"
          ELSE UNCHANGED <<fate, pc>>

Dispatch ==
  /\ queue # <<>>
  /\ queue' = Tail(queue)
  /\ CASE Head(queue).kind = "msg" -> DispatchMsg(Head(queue).n)
       [] Head(queue).kind = "trigger" -> DispatchTrigger(Head(queue).n)
       [] OTHER -> UNCHANGED <<timers, fate, pc>>   \* type error, freed
  /\ mixed' = (mixed /\ Tail(queue) # <<>>)
  /\ UNCHANGED <<cancel, ft, sent, keyOf>>

\* app_main_task_func
Receive == pc = "receive" /\ Dispatch

\* app_handle_pending_message, called by a handler (wait_tone_led_done).
HandlePending == pc = "handler" /\ Dispatch

HandlerReturn ==
  /\ pc = "handler"
  /\ pc' = "receive"
  /\ UNCHANGED <<queue, timers, cancel, ft, sent, keyOf, fate, mixed>>

\* app_bt_enter_ft_mode, called by a handler.
EnterFt ==
  /\ pc = "handler"
  /\ ft' = TRUE
  /\ UNCHANGED <<queue, timers, pc, cancel, sent, keyOf, fate, mixed>>

----------------------------------------------------------------------------
\* app_cancel_msg, called by a handler.

\* The scan of the table.
CancelFind(k) ==
  /\ pc = "handler"
  /\ \/ \E s \in Slots :
          /\ Holds(s, k)
          /\ \A r \in 1 .. s - 1 : ~Holds(r, k)
          /\ cancel' = CancelOf(s, k, sent)
          /\ pc' = "cancelTest"
     \/ /\ \A s \in Slots : ~Holds(s, k)
        /\ cancel' = CancelOf(0, k, sent)
        /\ pc' = "cancelMark"
  /\ UNCHANGED <<queue, timers, ft, sent, keyOf, fate, mixed>>

\* if (timer->tid): the stop command is issued on the value read here.
CancelTest ==
  /\ pc = "cancelTest"
  /\ pc' = IF timers[cancel.slot].tid # "null" THEN "cancelDelete" ELSE "cancelMark"
  /\ UNCHANGED <<queue, timers, cancel, ft, sent, keyOf, fate, mixed>>

\* Once the stop command is queued the daemon has run: os_delete_timer reads
\* timer->tid again, and a NULL there fails configASSERT(xTimer).
CancelDelete ==
  /\ pc = "cancelDelete"
  /\ LET t == timers[cancel.slot]
     IN \/ /\ t.tid # "null"
           /\ timers' = [timers EXCEPT ![cancel.slot] = FreeSlot]
           /\ fate' = [fate EXCEPT ![t.msg] = "cancelled"]
           /\ pc' = "cancelMark"
        \/ /\ t.tid = "null"
           /\ pc' = "fault"
           /\ UNCHANGED <<timers, fate>>
  /\ UNCHANGED <<queue, cancel, ft, sent, keyOf, mixed>>

\* The marker; a full queue has no room for it.
CancelMark ==
  /\ pc = "cancelMark"
  /\ pc' = "rotateTake"
  /\ \/ /\ HasRoom
        /\ queue' = Append(queue, Marker)
        /\ cancel' = [cancel EXCEPT !.head = TRUE]
     \/ /\ ~HasRoom
        /\ UNCHANGED <<queue, cancel>>
  /\ UNCHANGED <<timers, ft, sent, keyOf, fate, mixed>>

\* for (i = 0; i < APP_MSG_QUEUE_SIZE; i++)
RotateTurns_OneShort == QSize - 1
RotateTurns == QSize

\* os_queue_peek is a receive that does not wait: it takes what it returns.
Taken_NotRemoved == queue
Taken == Tail(queue)

\* The rotation takes a message off the queue and frees the marker, the messages
\* of the key and the trigger of the slot.
Matches_MsgOnly(item) == item.kind = "msg" /\ keyOf[item.n] = cancel.key
Matches(item) ==
  \/ item.kind = "msg" /\ keyOf[item.n] = cancel.key
  \/ item.kind = "trigger" /\ item.n = cancel.slot

RotateTake ==
  /\ pc = "rotateTake"
  /\ \/ /\ cancel.i = RotateTurns \/ queue = <<>>
        /\ pc' = "handler"
        /\ cancel' = NoCancel
        /\ UNCHANGED <<queue, fate>>
     \/ /\ cancel.i < RotateTurns /\ queue # <<>>
        /\ queue' = Taken
        /\ \/ /\ Head(queue) = Marker
              /\ pc' = "handler"
              /\ cancel' = NoCancel
              /\ UNCHANGED fate
           \/ /\ Head(queue) # Marker /\ Matches(Head(queue))
              /\ pc' = "rotateTake"
              /\ cancel' = [cancel EXCEPT !.i = @ + 1]
              /\ fate' = IF Head(queue).kind = "msg"
                         THEN [fate EXCEPT ![Head(queue).n] = "cancelled"] ELSE fate
           \/ /\ Head(queue) # Marker /\ ~Matches(Head(queue))
              /\ pc' = "rotatePut"
              /\ cancel' = [cancel EXCEPT !.msg = Head(queue)]
              /\ UNCHANGED fate
  /\ UNCHANGED <<timers, ft, sent, keyOf, mixed>>

\* ... and sends the others again, unless the queue has filled up meanwhile: a
\* message lost, or a trigger, without which its slot stays used for ever.
RotatePut ==
  /\ pc = "rotatePut"
  /\ pc' = "rotateTake"
  /\ cancel' = [cancel EXCEPT !.i = @ + 1, !.msg = Marker]
  /\ \/ /\ HasRoom
        /\ queue' = Append(queue, cancel.msg)
        /\ UNCHANGED fate
     \/ /\ ~HasRoom
        /\ fate' = [fate EXCEPT ![IF cancel.msg.kind = "msg" THEN cancel.msg.n
                                  ELSE timers[cancel.msg.n].msg] = "requeueLost"]
        /\ UNCHANGED queue
  /\ UNCHANGED <<timers, ft, sent, keyOf, mixed>>

----------------------------------------------------------------------------
AppMainStep ==
  \/ Receive \/ HandlePending \/ HandlerReturn \/ EnterFt
  \/ \E k \in Keys : AppSend(k) \/ SendDelay(k) \/ CancelFind(k)
  \/ CancelTest \/ CancelDelete \/ CancelMark \/ RotateTake \/ RotatePut

Next ==
  \/ AppMainStep
  \/ \E k \in Keys : Send(k)
  \/ \E s \in Slots : TimerFire(s)

Spec == Init /\ [][Next]_vars

\* app_main outranks the tasks that only compute, the daemon outranks app_main
\* and a timer that is not stopped expires.  A handler makes finitely many
\* calls, each of which may leave and re-enter "handler": strong fairness.
Fairness ==
  /\ WF_vars(Receive)
  /\ SF_vars(HandlerReturn)
  /\ WF_vars(CancelTest) /\ WF_vars(CancelDelete) /\ WF_vars(CancelMark)
  /\ WF_vars(RotateTake) /\ WF_vars(RotatePut)
  /\ \A s \in Slots : WF_vars(TimerFire(s))

FairSpec == Spec /\ Fairness

----------------------------------------------------------------------------
\* Properties

\* In "rotatePut" app_main has cancel.msg in its hand, off the queue.
InHand(item) == pc = "rotatePut" /\ cancel.msg = item

\* The slot has expired and waits for its trigger to be handled; one that
\* app_cancel_msg has just freed waits for it to be thrown away.
AwaitsTrigger(s) ==
  \/ timers[s].used /\ timers[s].tid = "expired" /\ timers[s].msg # 0
  \/ pc \in {"cancelMark", "rotateTake", "rotatePut"} /\ cancel.slot = s

\* A TIMER_TRIGGER carries a raw pointer to its slot.  It is only ever in the
\* queue for a slot in use, whose timer has expired and whose message is still
\* there, and there is one per slot: a slot is never freed, and so never
\* handed to the next app_send_msg_delay, under a trigger that is still to be
\* handled.  The slot app_cancel_msg has just freed is the exception, until the
\* rotation has thrown its trigger away (app_main.c:153-177, 379-395, 419-425).
TriggerSound ==
  /\ \A i \in DOMAIN queue :
       queue[i].kind = "trigger" =>
         /\ AwaitsTrigger(queue[i].n)
         /\ ~InHand(queue[i])
         /\ \A j \in DOMAIN queue : queue[j] = queue[i] => i = j
  /\ (pc = "rotatePut" /\ cancel.msg.kind = "trigger") => AwaitsTrigger(cancel.msg.n)

\* The rotation always meets its marker within its APP_MSG_QUEUE_SIZE turns: no
\* marker is left behind for handle_msg, whatever other tasks enqueue meanwhile.
MarkerOwned ==
  \A i \in DOMAIN queue :
    queue[i].kind = "head" =>
      pc \in {"rotateTake", "rotatePut"} /\ cancel.head /\ i <= QSize - cancel.i

\* Every message the heap gave out has one owner, the queue, the hand of
\* app_cancel_msg or a slot, and is pending; none is owned after it was freed.
OneOwner ==
  /\ \A i \in DOMAIN queue :
       queue[i].kind = "msg" =>
         /\ fate[queue[i].n] = "queued"
         /\ ~InHand(queue[i])
         /\ \A j \in DOMAIN queue : queue[j] = queue[i] => i = j
  /\ (pc = "rotatePut" /\ cancel.msg.kind = "msg") => fate[cancel.msg.n] = "queued"
  /\ \A s \in Slots :
       timers[s].msg # 0 =>
         /\ fate[timers[s].msg] \in {"delayed", "requeueLost"}
         /\ \A r \in Slots : timers[r].msg = timers[s].msg => r = s

\* app_cancel_msg leaves nothing of its key behind: no message sent before the
\* call, delayed, expired or queued, is handled after it returns.
CancelComplete ==
  [][(pc \in InCancel /\ pc' = "handler") =>
       \A m \in 1 .. cancel.since :
         keyOf[m] = cancel.key => fate'[m] \notin Pending]_vars

\* Messages are handled in the order they were sent, unless another task or a
\* timer enqueued while a cancellation was rotating the queue.
FifoUnlessMixed ==
  \A i, j \in DOMAIN queue :
    (i < j /\ queue[i].kind = "msg" /\ queue[j].kind = "msg" /\ ~mixed
     /\ pc \notin {"rotateTake", "rotatePut"})
      => queue[i].n < queue[j].n

\* ... and only then does a cancellation lose a message that is not its own.
CancelLosesOnlyIfMixed ==
  [][\A m \in Msgs : fate'[m] = "requeueLost" => fate[m] = "requeueLost" \/ mixed]_vars

\* Every message accepted by app_send_msg or app_send_msg_delay is handled,
\* cancelled or given up on, unless the device enters factory test mode.
EveryMessageSettles ==
  \A m \in Msgs : fate[m] \in Pending ~> (fate[m] \notin Pending \/ ft \/ pc = "fault")

\* timers.c:973, configASSERT(xTimer) in xTimerIsTimerActive, which
\* os_delete_timer calls first: app_cancel_msg never deletes a NULL timer.
DeletesLiveTimer == pc # "fault"
=============================================================================
