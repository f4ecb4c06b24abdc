------------------------------- MODULE TwsSync -------------------------------
(***************************************************************************)
(* app/tws/user_app/app_wws.c with its callers in app_evt.c, app_audio.c   *)
(* and app_charger.c: how the two earbuds keep each other's charging state *)
(* and the settings of the master, and when the master hands its role over *)
(* because it charges and its peer does not.                               *)
(*                                                                         *)
(* bud[b] is what the app_main task of b knows: one handler runs at a time *)
(* and is a function from bud to bud, whose .out is what it sends to the   *)
(* peer and whose .ask is BT_CMD_TWS_ROLE_SWITCH.  stack and evts are the  *)
(* Bluetooth stacks of both buds and their events on the way to app_main;  *)
(* they are a library and modelled from what app_bt.c handles.  setting    *)
(* stands for volume, listening mode, its levels and game mode, which are  *)
(* changed, sent and received alike.                                       *)
(*                                                                         *)
(* An operator X_Y that stands before X is X with the bug Y.               *)
(***************************************************************************)
EXTENDS Integers, Sequences

CONSTANTS
  Settings,  \* values of setting are 0 .. Settings - 1
  MaxInputs, \* bound: what the users do
  MaxFaults, \* bound: what the radio, the phone and the stacks do of themselves
  MaxEvts    \* bound: the stacks wait rather than fill a queue further

ASSUME TwsSyncAssumption ==
  Settings \in Nat \ {0} /\ MaxInputs \in Nat /\ MaxFaults \in Nat /\ MaxEvts \in Nat \ {0}

VARIABLES
  bud, stack, evts,
  inputs, faults  \* bounds

vars == <<bud, stack, evts, inputs, faults>>

Buds == {"left", "right"}
Peer(b) == CHOOSE p \in Buds : p # b

Roles == {"master", "slave"}

\* bt_tws_state_t: "down" stands for the four states below TWS_STATE_CONNECTED.
Links == {"down", "connected", "switching"}

\* unsaid is history: what this bud has not told its peer, or has from one that
\* did not tell it as master, see Send, BtPowerOn, HandleSync, PeerEvt and
\* Crossed.  due is history too: the role is to be handed over, see Trigger.
BudType ==
  [link : Links, role : Roles, phone : BOOLEAN, ota : BOOLEAN,
   charging : BOOLEAN, peerCharging : BOOLEAN, setting : 0 .. Settings - 1,
   later : BOOLEAN, recent : BOOLEAN, due : BOOLEAN,
   unsaid : SUBSET {"charging", "setting"}, out : {<<>>}, ask : {FALSE}]

Message ==
  [kind : {"sync"}, charging : BOOLEAN, setting : 0 .. Settings - 1, role : Roles]
    \cup [kind : {"charger"}, charging : BOOLEAN]
    \cup [kind : {"setting"}, setting : 0 .. Settings - 1]
    \cup [kind : {"usr_evt"}, phone : BOOLEAN]
Event ==
  [kind : {"state"}, link : Links] \cup [kind : {"role"}, role : Roles]
    \cup [kind : {"phone"}, up : BOOLEAN] \cup [kind : {"on", "off", "dual"}]

TypeOK ==
  /\ bud \in [Buds -> BudType]
  /\ stack \in [link : Links, asked : BOOLEAN, on : [Buds -> BOOLEAN], role : [Buds -> Roles]]
  /\ evts \in [Buds -> Seq(Message \cup Event)]
  /\ inputs \in 0 .. MaxInputs /\ faults \in 0 .. MaxFaults

----------------------------------------------------------------------------
\* app_wws_is_connected, app_wws_is_connected_master, .._slave
Connected(b) == b.link # "down"
ConnectedMaster(b) == Connected(b) /\ b.role = "master"
ConnectedSlave(b) == Connected(b) /\ b.role = "slave"

\* What of the sender's state the peer knows from m.
Tells(m) ==
  (IF m.kind \in {"sync", "charger"} THEN {"charging"} ELSE {})
    \cup (IF m.kind = "setting" \/ (m.kind = "sync" /\ m.role = "master")
          THEN {"setting"} ELSE {})

\* wws_send_data.  While the roles switch, which app_wws_is_connected takes for
\* connected, it sends nothing either, and nobody sends again.
Send(b, m) ==
  IF b.link = "connected"
    THEN [b EXCEPT !.out = Append(@, m), !.unsaid = @ \ Tells(m)]
  ELSE IF b.link = "switching" THEN [b EXCEPT !.unsaid = @ \cup Tells(m)] ELSE b

SyncOf(b) ==
  [kind |-> "sync", charging |-> b.charging, setting |-> b.setting, role |-> b.role]

\* wws_connected_sync
ConnectedSync_MasterOnly(b) == IF b.role = "slave" THEN b ELSE Send(b, SyncOf(b))
ConnectedSync(b) == Send(b, SyncOf(b))

\* app_wws_role_switch: the result of the command is not looked at.
RoleSwitch(b) == [b EXCEPT !.ask = TRUE, !.recent = TRUE]

\* The master should hand its role over (wws_triger_role_switch:336-349).
ShouldHandOver(b) ==
  ConnectedMaster(b) /\ ~b.ota /\ b.phone /\ b.charging /\ ~b.peerCharging

\* wws_triger_role_switch.  later is APP_WWS_MSG_ID_TRIGGER_ROLE_SWITCH, delayed
\* or in the queue; recent says that last_role_switch_time_ms is less than
\* TWS_ROLE_SWITCH_ANTI_SHAKE_TIME_MS ago.  What it does for ears and batteries
\* is switched off in this build.
Trigger_Delays(b, reason) ==
  IF ~ShouldHandOver(b) THEN b
  ELSE IF reason = "charging" /\ ~b.recent
    THEN [RoleSwitch(b) EXCEPT !.later = FALSE]
  ELSE [b EXCEPT !.later = TRUE, !.due = TRUE]
Trigger(b, reason) ==
  IF ~ShouldHandOver(b) THEN b
  ELSE IF reason \in {"charging", "timer"} /\ ~b.recent
    THEN [RoleSwitch(b) EXCEPT !.later = FALSE]
  ELSE [b EXCEPT !.later = TRUE, !.due = TRUE]

----------------------------------------------------------------------------
\* Settings and what the user does

\* listen_mode_change_handler
SetSetting(b, v) ==
  IF v = b.setting THEN b
  ELSE LET c == [b EXCEPT !.setting = v]
       IN IF ConnectedMaster(b) THEN Send(c, [kind |-> "setting", setting |-> v]) ELSE c

\* app_audio_listen_mode_toggle, with all modes in the cycle
Toggle_NoWrap(b) == SetSetting(b, b.setting + 1)
Toggle(b) == SetSetting(b, (b.setting + 1) % Settings)

\* handle_usr_evt of an event that is not forced to be local
UsrEvt(b) ==
  IF ConnectedSlave(b) THEN Send(b, [kind |-> "usr_evt", phone |-> b.phone]) ELSE Toggle(b)

\* handle_charger_box_evt, CHARGER_EVT_PUT_IN and _TAKE_OUT, and app_wws_send_charger
ChargerChanged(b) ==
  LET c == [b EXCEPT !.charging = ~@]
  IN Trigger(Send(c, [kind |-> "charger", charging |-> c.charging]), "charging")

----------------------------------------------------------------------------
\* What app_wws.c does with an event of the stack

\* app_wws_handle_state_changed
StateChanged(b, link) ==
  LET c == [b EXCEPT !.link = link]
  IN IF link = "connected" /\ ~Connected(b) THEN ConnectedSync(c) ELSE c

\* app_wws_handle_role_changed
RoleChanged(b, role) == [b EXCEPT !.role = role, !.recent = TRUE]

\* app_wws_handle_bt_power_on: the state that BT_CMD_TWS_GET_STATE returns may be
\* newer than the events in the queue, and a connection that is seen here is not
\* one that StateChanged tells the peer of.
BtPowerOn(b, me) ==
  LET c == [b EXCEPT !.link = stack.link, !.role = stack.role[me]]
  IN IF Connected(c) THEN [c EXCEPT !.unsaid = {"charging", "setting"}] ELSE c

\* app_wws_handle_bt_power_off
BtPowerOff(b) == [b EXCEPT !.link = "down", !.phone = FALSE]

\* bt_evt_connection_state_changed_handler and app_wws_handle_bt_connected
PhoneChanged(b, up) ==
  IF up /\ ~b.phone THEN Trigger([b EXCEPT !.phone = TRUE, !.recent = TRUE], "connected")
  ELSE [b EXCEPT !.phone = up]

\* app_wws_handle_mode_changed, of two buds
ModeChanged(b) ==
  IF b.role = "master" THEN Send(b, [kind |-> "setting", setting |-> b.setting]) ELSE b

----------------------------------------------------------------------------
\* What app_wws.c does with a message of the peer

\* Whoever is not the slave leaves it (wws_handle_volume .. _transparency_level).
HandleSetting(b, v) ==
  IF b.role = "slave" THEN [SetSetting(b, v) EXCEPT !.unsaid = @ \ {"setting"}] ELSE b

\* wws_handle_connected_sync.  The role of the sender is not in the message: it
\* is here to tell a slave's, which a master leaves, from one that went astray.
HandleSync(b, m) ==
  LET c == [b EXCEPT !.peerCharging = m.charging]
  IN IF m.role = "master" THEN HandleSetting(c, m.setting)
     ELSE IF b.role = "slave"
       THEN [SetSetting(c, m.setting) EXCEPT !.unsaid = @ \cup {"setting"}] ELSE c

\* wws_handle_charger
HandleCharger(b, m) == Trigger([b EXCEPT !.peerCharging = m.charging], "peer_charging")

\* wws_handle_usr_evt and handle_usr_evt(event, true)
PeerEvt(b, m) ==
  IF ~m.phone /\ b.phone THEN b
  ELSE IF b.role = "slave" THEN [Toggle(b) EXCEPT !.unsaid = @ \cup {"setting"}]
  ELSE Toggle(b)

\* app_bt_handle_msg and app_wws_handle_recv_data
Handle(b, me, e) ==
  CASE e.kind = "state" -> StateChanged(b, e.link)
    [] e.kind = "role" -> RoleChanged(b, e.role)
    [] e.kind = "on" -> BtPowerOn(b, me)
    [] e.kind = "off" -> BtPowerOff(b)
    [] e.kind = "dual" -> ModeChanged(b)
    [] e.kind = "phone" -> PhoneChanged(b, e.up)
    [] e.kind = "sync" -> HandleSync(b, e)
    [] e.kind = "setting" -> HandleSetting(b, e.setting)
    [] e.kind = "charger" -> HandleCharger(b, e)
    [] e.kind = "usr_evt" -> PeerEvt(b, e)

----------------------------------------------------------------------------
\* A bud that has yet to hear of a change of roles tells settings, or would forget
\* that they are not told.
Crossed(b, new, rest) ==
  /\ \E i \in DOMAIN rest : rest[i].kind = "role"
  /\ \/ "setting" \in bud[b].unsaid
     \/ \E i \in DOMAIN new.out : "setting" \in Tells(new.out[i])

\* A handler of b ends in new: what it sends reaches the peer's queue if the
\* stacks are linked and is lost if they are not any more.
Finish(b, new, rest) ==
  /\ bud' = [bud EXCEPT ![b] =
       [new EXCEPT !.out = <<>>, !.ask = FALSE,
                   !.due = @ /\ ~new.ask /\ ShouldHandOver(new),
                   !.unsaid = IF Crossed(b, new, rest) THEN @ \cup {"setting"} ELSE @]]
  /\ evts' = [evts EXCEPT ![b] = rest,
                          ![Peer(b)] = IF stack.link = "down" THEN @ ELSE @ \o new.out]
  /\ stack' = [stack EXCEPT !.asked = @ \/ (new.ask /\ stack.link = "connected")]

Input == inputs < MaxInputs /\ inputs' = inputs + 1 /\ UNCHANGED faults
Fault == faults < MaxFaults /\ faults' = faults + 1 /\ UNCHANGED inputs

HandleEvt(b) ==
  /\ evts[b] # <<>>
  /\ Finish(b, Handle(bud[b], b, Head(evts[b])), Tail(evts[b]))
  /\ UNCHANGED <<inputs, faults>>

\* app_wws_handle_msg, APP_WWS_MSG_ID_TRIGGER_ROLE_SWITCH
TimerFires(b) ==
  /\ bud[b].later
  /\ Finish(b, Trigger([bud[b] EXCEPT !.later = FALSE], "timer"), evts[b])
  /\ UNCHANGED <<inputs, faults>>

\* TWS_ROLE_SWITCH_ANTI_SHAKE_TIME_MS pass.
NotRecent(b) ==
  /\ bud[b].recent
  /\ bud' = [bud EXCEPT ![b].recent = FALSE]
  /\ UNCHANGED <<stack, evts, inputs, faults>>

Press(b) == Input /\ Finish(b, UsrEvt(bud[b]), evts[b])
PutInOrOut(b) == Input /\ Finish(b, ChargerChanged(bud[b]), evts[b])

\* EVTUSR_WWS_ROLE_SWITCH, and the role switch for the sake of the radio
AskSwitch(b) == ~bud[b].ota /\ Input /\ Finish(b, RoleSwitch(bud[b]), evts[b])

\* ota_task_is_running
OtaChanges(b) == Fault /\ Finish(b, [bud[b] EXCEPT !.ota = ~@], evts[b])

----------------------------------------------------------------------------
\* The stacks

\* more[b] are the events b is sent.
Post(more) ==
  /\ \A b \in Buds : Len(evts[b]) + Len(more[b]) <= MaxEvts
  /\ evts' = [b \in Buds |-> evts[b] \o more[b]]
State(l) == <<[kind |-> "state", link |-> l]>>
Role(r) == <<[kind |-> "role", role |-> r]>>
ToBoth(es) == [b \in Buds |-> es]
ToOne(b, es) == [c \in Buds |-> IF c = b THEN es ELSE <<>>]

\* Two masters that meet become master and slave; the roles are told before or
\* after the link.
LinkUp ==
  /\ stack.link = "down" /\ \A b \in Buds : stack.on[b]
  /\ \E b \in Buds :
       /\ stack.role[b] = "master"
       /\ LET p == Peer(b)
              slave == IF stack.role[p] = "slave" THEN <<>> ELSE Role("slave")
          IN /\ stack' = [stack EXCEPT !.link = "connected", !.role[p] = "slave"]
             /\ \/ Post([c \in Buds |-> State("connected") \o ToOne(p, slave)[c]])
                \/ Post([c \in Buds |-> ToOne(p, slave)[c] \o State("connected")])
  /\ UNCHANGED <<bud, inputs, faults>>

LinkLoss ==
  /\ stack.link # "down" /\ Fault
  /\ stack' = [stack EXCEPT !.link = "down", !.asked = FALSE]
  /\ Post(ToBoth(State("down")))
  /\ UNCHANGED bud

\* A slave that has lost its master, TWS_ROLE_CHANGED_REASON_LINK_LOSS and others
BecomeMaster(b) ==
  /\ stack.link = "down" /\ stack.on[b] /\ stack.role[b] = "slave" /\ Fault
  /\ stack' = [stack EXCEPT !.role[b] = "master"]
  /\ Post(ToOne(b, Role("master")))
  /\ UNCHANGED bud

\* A command that the stack refuses is one that it does not get to.
SwitchStart ==
  /\ stack.link = "connected" /\ stack.asked
  /\ stack' = [stack EXCEPT !.link = "switching", !.asked = FALSE]
  /\ Post(ToBoth(State("switching")))
  /\ UNCHANGED <<bud, inputs, faults>>

SwitchEnd ==
  /\ stack.link = "switching"
  /\ stack' = [stack EXCEPT !.link = "connected",
                            !.role = [b \in Buds |-> stack.role[Peer(b)]]]
  /\ Post([b \in Buds |-> Role(stack.role[Peer(b)]) \o State("connected")])
  /\ UNCHANGED <<bud, inputs, faults>>

SwitchFails ==
  /\ stack.link = "switching"
  /\ stack' = [stack EXCEPT !.link = "connected"]
  /\ Post(ToBoth(State("connected")))
  /\ UNCHANGED <<bud, inputs, faults>>

TurnOff(b) ==
  /\ stack.on[b] /\ Fault
  /\ stack' = [stack EXCEPT !.link = "down", !.asked = FALSE, !.on[b] = FALSE]
  /\ LET down == IF stack.link = "down" THEN <<>> ELSE State("down")
     IN Post([c \in Buds |-> down \o ToOne(b, <<[kind |-> "off"]>>)[c]])
  /\ UNCHANGED bud

TurnOn(b) ==
  /\ ~stack.on[b]
  /\ stack' = [stack EXCEPT !.on[b] = TRUE]
  /\ Post(ToOne(b, <<[kind |-> "on"]>>))
  /\ UNCHANGED <<bud, inputs, faults>>

PhoneEvt(b) ==
  /\ stack.on[b] /\ Fault
  /\ Post(ToOne(b, <<[kind |-> "phone", up |-> ~bud[b].phone]>>))
  /\ UNCHANGED <<bud, stack>>

ModeEvt(b) ==
  /\ stack.on[b] /\ Fault
  /\ Post(ToOne(b, <<[kind |-> "dual"]>>))
  /\ UNCHANGED <<bud, stack>>

----------------------------------------------------------------------------
\* Both are on and not linked yet.  What they remember of each other from the
\* last time is wrong, and their settings differ.
Init ==
  \E charging \in {[b \in Buds |-> FALSE], [b \in Buds |-> b = "left"]} :
    /\ bud = [b \in Buds |->
         [link |-> "down", role |-> IF b = "left" THEN "master" ELSE "slave",
          phone |-> TRUE, ota |-> FALSE, charging |-> charging[b],
          peerCharging |-> ~charging[Peer(b)],
          setting |-> IF b = "left" THEN 0 ELSE 1 % Settings,
          later |-> FALSE, recent |-> FALSE, due |-> FALSE,
          unsaid |-> {}, out |-> <<>>, ask |-> FALSE]]
    /\ stack = [link |-> "down", asked |-> FALSE, on |-> [b \in Buds |-> TRUE],
                role |-> [b \in Buds |-> IF b = "left" THEN "master" ELSE "slave"]]
    /\ evts = [b \in Buds |-> <<>>]
    /\ inputs = 0 /\ faults = 0

App(b) == HandleEvt(b) \/ TimerFires(b)
User(b) == Press(b) \/ PutInOrOut(b) \/ AskSwitch(b) \/ OtaChanges(b)
Stack(b) == BecomeMaster(b) \/ TurnOff(b) \/ TurnOn(b) \/ PhoneEvt(b) \/ ModeEvt(b)
Next ==
  \/ \E b \in Buds : App(b) \/ NotRecent(b) \/ User(b) \/ Stack(b)
  \/ LinkUp \/ LinkLoss \/ SwitchStart \/ SwitchEnd \/ SwitchFails

Spec == Init /\ [][Next]_vars

\* Delayed messages expire and time passes; HandsOver asks nothing of the rest.
FairSpec ==
  /\ Spec
  /\ \A b \in Buds : WF_vars(TimerFires(b)) /\ WF_vars(NotRecent(b))

----------------------------------------------------------------------------
\* When everything sent has been handled, each bud knows whether its peer
\* charges, one is the master and both have its settings, whatever links were
\* lost, roles switched and buds switched off on the way (wws_connected_sync,
\* wws_handle_connected_sync).  unsaid are the exceptions: what is sent while the
\* roles switch, a message that crosses a change of roles, and a connection that
\* is there before app_wws_handle_bt_power_on.
Settled ==
  /\ stack.link = "connected"
  /\ \A b \in Buds : bud[b].link = "connected" /\ evts[b] = <<>>
BudsAgree ==
  Settled =>
    /\ bud["left"].role # bud["right"].role
    /\ \A b \in Buds : "charging" \in bud[b].unsaid \/ bud[Peer(b)].peerCharging = bud[b].charging
    /\ \/ \E b \in Buds : "setting" \in bud[b].unsaid
       \/ bud["left"].setting = bud["right"].setting

\* A master that has seen that it charges while its peer does not asks for the
\* role switch in the end, or sees that it need not any more, though the switch is
\* put off after every change of roles (wws_triger_role_switch:349-368).
HandsOver == \A b \in Buds : bud[b].due ~> ~bud[b].due

=============================================================================
