------------------------------ MODULE Connect ------------------------------
(***************************************************************************)
(* app/tws/user_app/app_conn.c, with the connection and visibility half of *)
(* app_bt.c: how an earbud gets back to its phone after power on, a lost   *)
(* link or a change of role, and when it gives up and lets phones find it. *)
(*                                                                         *)
(* bud is what the app_main task knows: one handler runs at a time and is  *)
(* a function from bud to bud, whose .cmd is the command it sends to the   *)
(* Bluetooth stack.  stack and evts are the stack and its events on their  *)
(* way to app_main; the stack is delivered as a library and modelled from  *)
(* the events app_bt.c handles.                                            *)
(*                                                                         *)
(* An operator X_Y that stands before X is X with the bug Y.               *)
(***************************************************************************)
EXTENDS Integers, Sequences

CONSTANTS
  Retries,     \* power_on_ and link_loss_reconnect_retry_count
  Discoverable,\* discoverable_disconnect
  MaxInputs,   \* bound: what the phone, the peer and the user do
  MaxEvts,     \* bound: events of the stack waiting for app_main
  MaxQueued    \* bound: expired messages of one kind waiting for app_main

ASSUME ConnectAssumption ==
  /\ Retries \in 1 .. 254 /\ Discoverable \in BOOLEAN
  /\ MaxInputs \in Nat /\ MaxEvts \in Nat \ {0} /\ MaxQueued \in Nat \ {0}
  /\ Retries + MaxQueued < 255  \* retry_count is a byte

VARIABLES
  bud, stack, evts,
  inputs,  \* bound
  lapsed   \* history: see Lapse

vars == <<bud, stack, evts, inputs, lapsed>>

\* STATE_..., in the order of app_bt.h
DISABLED == 0
WWS_PAIRING == 1
IDLE == 2
CONNECTABLE == 3
AG_PAIRING == 4
CONNECTED == 5

\* BT_DISCONNECT_REASON_...; "refused" stands for the five that
\* handle_bt_disconnect treats alike, "loss" for LMP_TIMEOUT too.
Reasons == {"none", "timeout", "loss", "exists", "refused", "local", "switched"}
Automatic == {"power_on", "link_loss"}

BudType ==
  [enabled : BOOLEAN, conn : {"disconnected", "connecting", "connected"},
   visible : BOOLEAN, connectable : BOOLEAN, pairing : BOOLEAN, slave : BOOLEAN,
   linked : BOOLEAN, peerVisible : BOOLEAN, sys : DISABLED .. CONNECTED, pdl : BOOLEAN,
   retry : 0 .. Retries + MaxQueued + 1, why : Automatic \cup {"none", "user"}, disc : Reasons,
   powerOnPairing : BOOLEAN, rolePairing : BOOLEAN,
   reconnect : 0 .. MaxQueued, reconnectLater : BOOLEAN,
   powerOn : 0 .. MaxQueued + 1, powerOnLater : BOOLEAN,
   cmd : {"none", "connect", "disconnect"}]

EventType ==
  [id : {"ENABLE"}, on : BOOLEAN]
  \cup [id : {"CONN"}, state : {"connecting", "connected"}, reason : {"none"}]
  \cup [id : {"CONN"}, state : {"disconnected"}, reason : Reasons \ {"none"}]
  \cup [id : {"ROLE"}, master : BOOLEAN, reason : {"user", "link_loss", "not_found"}]
  \cup [id : {"TWS"}, up : BOOLEAN] \cup [id : {"VISIBILITY"}, visible : BOOLEAN]
  \cup [id : {"PAIR_RESULT"}]

TypeOK ==
  /\ bud \in BudType
  /\ stack \in [on : BOOLEAN, phone : {"none", "trying", "up"}]
  /\ evts \in Seq(EventType)
  /\ inputs \in 0 .. MaxInputs /\ lapsed \in BOOLEAN

----------------------------------------------------------------------------
\* app_bt.c

\* generate_sys_state: linked slaves show what the master shows, of which
\* peerVisible stands for both halves.
SysState(b) ==
  LET peers == b.linked /\ b.slave
      visible == IF peers THEN b.peerVisible ELSE b.visible
      connectable == IF peers THEN b.peerVisible ELSE b.connectable
  IN IF ~b.enabled THEN DISABLED
     ELSE IF b.pairing THEN WWS_PAIRING
     ELSE IF b.conn = "connected" THEN CONNECTED
     ELSE IF visible /\ connectable THEN AG_PAIRING
     ELSE IF visible \/ connectable THEN CONNECTABLE ELSE IDLE
Generate(b) == [b EXCEPT !.sys = SysState(b)]

\* app_bt_set_discoverable_and_connectable and its two halves.
SetVisibility(b, v, c) == Generate([b EXCEPT !.visible = v, !.connectable = c])
SetConnectable(b) == IF b.connectable THEN b ELSE Generate([b EXCEPT !.connectable = TRUE])
HideFromPhones(b) == IF b.visible THEN Generate([b EXCEPT !.visible = FALSE]) ELSE b

\* app_bt_enter_ag_pairing
EnterAgPairing(b) ==
  IF b.slave THEN b
  ELSE SetVisibility(
         [b EXCEPT !.cmd = IF b.conn = "disconnected" THEN @ ELSE "disconnect"], TRUE, TRUE)
PairingIfMaster(b) == IF b.slave THEN b ELSE EnterAgPairing(b)

----------------------------------------------------------------------------
\* app_conn.c.  reconnect and powerOn count MSG_ID_RECONNECT and
\* MSG_ID_POWER_ON_CONNECT in the queue of app_main, reconnectLater and
\* powerOnLater say that one is delayed.  app_send_msg_delay does not delay the
\* same message twice.
CancelReconnect(b) == [b EXCEPT !.reconnect = 0, !.reconnectLater = FALSE]
CancelPowerOn(b) == [b EXCEPT !.powerOn = 0, !.powerOnLater = FALSE]

\* connect_last.  The stack refuses (BT_RESULT_ALREADY_EXISTS, _DISABLED) what it
\* is doing already, although app_main may not have heard of it.
ConnectLast(b) ==
  IF b.sys < IDLE \/ b.sys >= CONNECTED \/ b.slave THEN b
  ELSE IF ~b.pdl \/ b.conn # "disconnected" \/ stack.phone # "none" \/ ~stack.on
    THEN SetVisibility(b, TRUE, TRUE)
  ELSE [b EXCEPT !.cmd = "connect"]

\* handle_bt_link_loss
LinkLoss(b) == [b EXCEPT !.why = "link_loss", !.retry = 0, !.reconnectLater = TRUE]

\* handle_bt_conn_timeout
ConnTimeout_Forever(b) ==
  IF b.why \in Automatic THEN [b EXCEPT !.reconnectLater = TRUE, !.retry = 1]
  ELSE PairingIfMaster(b)
ConnTimeout(b) ==
  IF b.why \in Automatic /\ b.retry < Retries THEN [b EXCEPT !.reconnectLater = TRUE]
  ELSE PairingIfMaster(b)

\* retry_count -= 1, of an attempt that does not count.
Uncounted_Wraps(n) == (n - 1) % 256
Uncounted(n) == IF n > 0 THEN n - 1 ELSE n

\* handle_bt_disconnect
Disconnected(b, r) ==
  LET d == [b EXCEPT !.disc = r] IN
    CASE r = "timeout" -> ConnTimeout(d)
      [] r = "loss" -> LinkLoss(d)
      [] r = "exists" ->
           IF b.linked /\ ~b.slave
             THEN ConnTimeout([d EXCEPT !.retry = Uncounted(@)])
             ELSE d
      [] r = "refused" -> IF Discoverable THEN PairingIfMaster(d) ELSE d
      [] r = "local" -> d
      [] r = "switched" -> [d EXCEPT !.disc = "none", !.retry = 0]

\* app_conn_handle_bt_conn_state
ConnState(b, connected, r) ==
  IF connected
    THEN SetVisibility(CancelReconnect(CancelPowerOn(
           [b EXCEPT !.retry = 0, !.why = "none", !.powerOnPairing = FALSE])), FALSE, FALSE)
    ELSE Disconnected(IF b.slave THEN b ELSE SetConnectable(b), r)

\* app_conn_handle_msg
OnPowerOnConnect(b) == ConnectLast([b EXCEPT !.why = "power_on", !.retry = 1])
OnReconnect(b) ==
  IF b.sys >= AG_PAIRING THEN b ELSE ConnectLast([b EXCEPT !.retry = @ + 1])

\* app_conn_handle_bt_power_on, app_conn_handle_bt_power_off
BtPowerOn(b) ==
  LET n == [b EXCEPT !.disc = "none", !.retry = 0] IN
    IF b.slave THEN n
    ELSE IF b.powerOnPairing \/ ~b.pdl
      THEN EnterAgPairing([n EXCEPT !.powerOnPairing = FALSE])
    ELSE SetConnectable([n EXCEPT !.powerOn = @ + 1])
BtPowerOff(b) == CancelReconnect(CancelPowerOn([b EXCEPT !.powerOnPairing = FALSE]))

\* app_conn_handle_wws_role_changed
ToSlave(b) == [SetVisibility(b, FALSE, FALSE) EXCEPT !.rolePairing = FALSE]
BackAfter_Unreachable(d) ==
  CASE d.disc \in {"none", "timeout"} ->
         SetConnectable([CancelPowerOn(d) EXCEPT !.powerOnLater = TRUE])
    [] d.disc = "loss" -> LinkLoss(d)
    [] OTHER -> SetVisibility(d, TRUE, TRUE)
BackAfter(d) ==
  CASE d.disc \in {"none", "timeout"} ->
         SetConnectable([CancelPowerOn(d) EXCEPT !.powerOnLater = TRUE])
    [] d.disc = "loss" -> LinkLoss(SetConnectable(d))
    [] OTHER -> SetVisibility(d, TRUE, TRUE)
ToMaster(b, r) ==
  LET done == [b EXCEPT !.rolePairing = FALSE] IN
    IF b.sys >= CONNECTED THEN done
    ELSE IF b.rolePairing THEN EnterAgPairing(done)
    ELSE IF b.linked /\ b.peerVisible THEN SetVisibility(b, TRUE, TRUE)
    ELSE IF ~b.linked /\ b.powerOnPairing
      THEN EnterAgPairing([b EXCEPT !.powerOnPairing = FALSE])
    ELSE IF ~b.linked /\ ~b.pdl
      THEN IF r = "not_found" THEN EnterAgPairing(b) ELSE SetVisibility(b, TRUE, TRUE)
    ELSE BackAfter(IF r = "link_loss" THEN [b EXCEPT !.disc = "loss"] ELSE b)
RoleChanged(b, toMaster, r) ==
  LET n == [b EXCEPT !.slave = ~toMaster] IN IF toMaster THEN ToMaster(n, r) ELSE ToSlave(n)

----------------------------------------------------------------------------
\* The handlers of app_bt.c for what the stack reports.
OnEnabled(b, on) ==
  IF on THEN BtPowerOn(Generate([b EXCEPT !.enabled = TRUE, !.conn = "disconnected"]))
  ELSE BtPowerOff(SetVisibility([b EXCEPT !.enabled = FALSE], FALSE, FALSE))

OnConn(b, state, r) ==
  LET n == Generate([b EXCEPT !.conn = state])
      up == IF state = "connected" /\ b.conn # "connected"
              THEN ConnState([n EXCEPT !.pdl = TRUE], TRUE, r) ELSE n
  IN IF state = "disconnected" THEN ConnState(up, FALSE, r) ELSE up

Handled(b, e) ==
  CASE e.id = "ENABLE" -> OnEnabled(b, e.on)
    [] e.id = "CONN" -> OnConn(b, e.state, e.reason)
    [] e.id = "ROLE" -> RoleChanged(b, e.master, e.reason)
    [] e.id = "TWS" -> [b EXCEPT !.linked = e.up]
    [] e.id = "VISIBILITY" -> Generate([b EXCEPT !.peerVisible = e.visible])
    [] e.id = "PAIR_RESULT" -> Generate([b EXCEPT !.pairing = FALSE])

Conn(s, r) == [id |-> "CONN", state |-> s, reason |-> r]

\* app_main is in state b, with the events q before it, after the stack has
\* obeyed the command of the handler.
Becomes(b, q) ==
  /\ bud' = [b EXCEPT !.cmd = "none"]
  /\ CASE b.cmd = "connect" ->
            /\ stack' = [stack EXCEPT !.phone = "trying"]
            /\ evts' = Append(q, Conn("connecting", "none"))
       [] b.cmd = "disconnect" /\ stack.phone # "none" ->
            /\ stack' = [stack EXCEPT !.phone = "none"]
            /\ evts' = Append(q, Conn("disconnected", "local"))
       [] OTHER -> evts' = q /\ UNCHANGED stack

\* app_main takes the next event.
Event ==
  /\ evts # <<>>
  /\ Becomes(Handled(bud, Head(evts)), Tail(evts))
  /\ UNCHANGED <<inputs, lapsed>>

\* Asked to reconnect while it pairs with the other earbud or is a slave, the
\* bud lets it be: nothing brings it back but a change of role.
Lapse == lapsed' = (lapsed \/ bud.sys < IDLE)

PowerOnMsg ==
  /\ bud.powerOn > 0
  /\ Becomes(OnPowerOnConnect([bud EXCEPT !.powerOn = @ - 1]), evts)
  /\ Lapse /\ UNCHANGED inputs
ReconnectMsg ==
  /\ bud.reconnect > 0
  /\ Becomes(OnReconnect([bud EXCEPT !.reconnect = @ - 1]), evts)
  /\ Lapse /\ UNCHANGED inputs

\* The timers of the delayed messages.
PowerOnTimer ==
  /\ bud.powerOnLater /\ bud.powerOn < MaxQueued
  /\ bud' = [bud EXCEPT !.powerOnLater = FALSE, !.powerOn = @ + 1]
  /\ UNCHANGED <<stack, evts, inputs, lapsed>>
ReconnectTimer ==
  /\ bud.reconnectLater /\ bud.reconnect < MaxQueued
  /\ bud' = [bud EXCEPT !.reconnectLater = FALSE, !.reconnect = @ + 1]
  /\ UNCHANGED <<stack, evts, inputs, lapsed>>

----------------------------------------------------------------------------
\* What the user, the phone and the peer do.
Input == inputs < MaxInputs /\ inputs' = inputs + 1
Reports(e) == Len(evts) + Len(e) <= MaxEvts /\ evts' = evts \o e

\* EVTUSR_ENTER_PAIRING (the role switch it asks for as a slave is one of
\* RoleChanges), EVTUSR_CONNECT_LAST, EVTUSR_CLEAR_PDL, EVTUSR_START_WWS_PAIR;
\* a linked slave forwards them.
UserPairing ==
  /\ Input /\ bud.sys > DISABLED /\ stack.on /\ ~(bud.slave /\ bud.linked)
  /\ Becomes(IF bud.slave THEN [bud EXCEPT !.rolePairing = TRUE] ELSE EnterAgPairing(bud), evts)
  /\ UNCHANGED lapsed
UserConnect ==
  /\ Input /\ ~(bud.slave /\ bud.linked)
  /\ Becomes(ConnectLast(HideFromPhones([bud EXCEPT !.why = "user"])), evts)
  /\ UNCHANGED lapsed
UserClear ==
  /\ Input /\ ~(bud.slave /\ bud.linked)
  /\ Becomes(PairingIfMaster([bud EXCEPT !.pdl = FALSE]), evts)
  /\ UNCHANGED lapsed
UserWwsPair ==
  /\ Input /\ stack.on /\ bud.enabled /\ ~bud.pairing /\ ~(bud.slave /\ bud.linked)
  /\ bud' = Generate([bud EXCEPT !.pairing = TRUE])
  /\ UNCHANGED <<stack, evts, lapsed>>

\* CHARGER_EVT_AG_PAIR with Bluetooth off.
BoxPairing ==
  /\ Input /\ bud.sys <= DISABLED
  /\ bud' = [bud EXCEPT !.powerOnPairing = TRUE]
  /\ UNCHANGED <<stack, evts, lapsed>>

WwsPaired ==
  /\ bud.pairing /\ Reports(<<[id |-> "PAIR_RESULT"]>>)
  /\ \A i \in DOMAIN evts : evts[i].id # "PAIR_RESULT"
  /\ UNCHANGED <<bud, stack, inputs, lapsed>>

Enable ==
  /\ Input /\ ~stack.on
  /\ stack' = [stack EXCEPT !.on = TRUE] /\ Reports(<<[id |-> "ENABLE", on |-> TRUE]>>)
  /\ UNCHANGED <<bud, lapsed>>
Disable ==
  /\ Input /\ stack.on
  /\ stack' = [stack EXCEPT !.on = FALSE, !.phone = "none"]
  /\ Reports(IF stack.phone = "none" THEN <<[id |-> "ENABLE", on |-> FALSE]>>
             ELSE <<Conn("disconnected", "local"), [id |-> "ENABLE", on |-> FALSE]>>)
  /\ UNCHANGED <<bud, lapsed>>

\* A phone connects: to a master that lets it, or to the master of this slave.
PhoneCalls ==
  /\ Input /\ stack.on /\ stack.phone = "none"
  /\ \/ /\ bud.connectable /\ ~bud.slave
        /\ stack' = [stack EXCEPT !.phone = "trying"]
        /\ Reports(<<Conn("connecting", "none")>>)
     \/ /\ bud.slave /\ bud.linked
        /\ stack' = [stack EXCEPT !.phone = "up"]
        /\ Reports(<<Conn("connected", "none")>>)
  /\ UNCHANGED <<bud, lapsed>>

\* An attempt to connect succeeds, or times out, or comes to nothing.
Succeeds ==
  /\ stack.phone = "trying"
  /\ stack' = [stack EXCEPT !.phone = "up"] /\ Reports(<<Conn("connected", "none")>>)
  /\ UNCHANGED <<bud, inputs, lapsed>>
TimesOut ==
  /\ stack.phone = "trying"
  /\ stack' = [stack EXCEPT !.phone = "none"] /\ Reports(<<Conn("disconnected", "timeout")>>)
  /\ UNCHANGED <<bud, inputs, lapsed>>
ComesToNothing ==
  /\ Input /\ stack.phone = "trying"
  /\ stack' = [stack EXCEPT !.phone = "none"]
  /\ \E r \in {"exists", "refused"} : Reports(<<Conn("disconnected", r)>>)
  /\ UNCHANGED <<bud, lapsed>>

LosesPhone ==
  /\ Input /\ stack.phone = "up"
  /\ stack' = [stack EXCEPT !.phone = "none"]
  /\ \E r \in {"loss", "refused"} : Reports(<<Conn("disconnected", r)>>)
  /\ UNCHANGED <<bud, lapsed>>

\* The role changes, with or without the phone; the earbuds meet or part.
RoleChanges ==
  /\ Input /\ stack.on
  /\ \E toMaster \in BOOLEAN, r \in {"user", "link_loss", "not_found"}, keeps \in BOOLEAN :
       LET role == [id |-> "ROLE", master |-> toMaster, reason |-> r] IN
         /\ toMaster => keeps
         /\ IF keeps \/ stack.phone = "none"
              THEN Reports(<<role>>) /\ UNCHANGED stack
              ELSE /\ Reports(<<Conn("disconnected", "switched"), role>>)
                   /\ stack' = [stack EXCEPT !.phone = "none"]
  /\ UNCHANGED <<bud, lapsed>>
Meets ==
  /\ Input /\ stack.on
  /\ \E e \in {[id |-> "TWS", up |-> u] : u \in BOOLEAN}
              \cup {[id |-> "VISIBILITY", visible |-> v] : v \in BOOLEAN} : Reports(<<e>>)
  /\ UNCHANGED <<bud, stack, lapsed>>

Init ==
  /\ \E known \in BOOLEAN :
       bud = [enabled |-> FALSE, conn |-> "disconnected", visible |-> FALSE,
              connectable |-> FALSE, pairing |-> FALSE, slave |-> FALSE, linked |-> FALSE,
              peerVisible |-> FALSE, sys |-> DISABLED, pdl |-> known,
              retry |-> 0, why |-> "none", disc |-> "none", powerOnPairing |-> FALSE,
              rolePairing |-> FALSE, reconnect |-> 0, reconnectLater |-> FALSE,
              powerOn |-> 0, powerOnLater |-> FALSE, cmd |-> "none"]
  /\ stack = [on |-> TRUE, phone |-> "none"]
  /\ evts = <<[id |-> "ENABLE", on |-> TRUE]>>
  /\ inputs = 0 /\ lapsed = FALSE

Next ==
  \/ Event \/ PowerOnMsg \/ ReconnectMsg \/ PowerOnTimer \/ ReconnectTimer
  \/ UserPairing \/ UserConnect \/ UserClear \/ UserWwsPair \/ BoxPairing \/ WwsPaired
  \/ Enable \/ Disable \/ PhoneCalls \/ Succeeds \/ TimesOut \/ ComesToNothing
  \/ LosesPhone \/ RoleChanges \/ Meets

Spec == Init /\ [][Next]_vars

\* app_main handles what it is sent, its timers expire, and the stack brings
\* an attempt to an end.
FairSpec ==
  /\ Spec
  /\ WF_vars(Event) /\ WF_vars(PowerOnMsg) /\ WF_vars(ReconnectMsg)
  /\ WF_vars(PowerOnTimer) /\ WF_vars(ReconnectTimer)
  /\ WF_vars(Succeeds \/ TimesOut) /\ WF_vars(WwsPaired)

----------------------------------------------------------------------------
\* A master without a phone can be reached by one, whatever roles, losses and
\* retries it went through (app_bt_set_connectable and its callers).
Reachable ==
  bud.enabled /\ ~bud.slave /\ bud.conn = "disconnected" => bud.connectable

\* A bud on its own way back to a phone that does not answer.
Trying ==
  /\ bud.enabled /\ ~bud.slave /\ bud.conn # "connected"
  /\ bud.disc \in {"timeout", "loss"} /\ bud.why \in Automatic

\* It gets there, or gives up and lets phones find it; it does not go on
\* trying, and it does not stop without a word (retry_count and the
\* MSG_ID_RECONNECT of handle_bt_conn_timeout).
ReconnectSettles == Trying ~> (~Trying \/ bud.visible \/ lapsed)
=============================================================================
