------------------------------- MODULE Power -------------------------------
(***************************************************************************)
(* app/tws/user_app/app_pm.c and the enabling half of app_bt.c: switching  *)
(* the earbud on, off and over, against a Bluetooth core that takes its    *)
(* time or hangs.                                                          *)
(*                                                                         *)
(* The app_main task runs one handler at a time: a handler is one step on  *)
(* app, the two modules' contexts and the messages they have under way.    *)
(* Delayed messages expire at any time (their delays are not compared).    *)
(* do_shutdown and do_reboot wait for tones and lights and handle messages *)
(* while they wait: that is app.ending, which End finishes.  Test modes,   *)
(* the peer's half of auto power off and messages lost for lack of room    *)
(* are left out.                                                           *)
(*                                                                         *)
(* An operator X_Y that stands before X is X with the bug Y.               *)
(***************************************************************************)
EXTENDS Integers, Sequences

CONSTANT MaxInputs   \* bound: requests, link changes, hangs and crashes in a behaviour

ASSUME PowerAssumption == MaxInputs \in Nat

VARIABLES
  app,     \* the contexts of app_pm.c, app_bt.c and app_charger.c
  dev,     \* "up", "off", or "reset": on its way through the boot code
  why,     \* boot_reason_get_reason(), for the boot to come
  flag,    \* the register that holds the soft reset flag and the crash flag
  radio,   \* the Bluetooth core
  cmds,    \* BT_CMD_SET_ENABLED on their way to it
  inputs   \* bound: inputs so far

vars == <<app, dev, why, flag, radio, cmds, inputs>>

Timers == {"POWER_OFF", "AUTO_POWER_OFF"}
Later == Timers \cup {"ENABLE_POWER_OFF", "FORCE_SHUTDOWN", "FORCE_REBOOT"}
Events == {"on", "off", "connected", "disconnected", "done"}
Reasons == {"USER", "CHARGER", "FACTORY_RESET", "OTA"}
Flags == Reasons \cup {"SHUTDOWN_FAILED", "POWER_ON", "POWER_OFF"}

\* The states of app_bt.h that app_pm.c tells apart, in their order.
Off(a) == a.sys \in {"none", "disabled"}

AppType ==
  [sys : {"none", "disabled", "idle", "connected"}, enabled : BOOLEAN, user : BOOLEAN,
   pending : BOOLEAN, conn : BOOLEAN, charging : BOOLEAN, shutdown : BOOLEAN, reboot : BOOLEAN,
   reason : Reasons, noOff : BOOLEAN, noAuto : BOOLEAN, ending : {"no", "shutdown", "reboot"},
   queue : Seq(Events), later : SUBSET Later, cmds : Seq(BOOLEAN),
   reset : {"no", "SHUTDOWN_FAILED"} \cup Reasons, crash : {"keep", "POWER_ON", "POWER_OFF"}]

TypeOK ==
  /\ app \in AppType
  /\ ~(Timers \subseteq app.later)
  /\ app.cmds = <<>> /\ app.reset = "no" /\ app.crash = "keep"
  /\ dev \in {"up", "off", "reset"}
  /\ why \in {"soft", "crash", "pin", "power"}
  /\ flag \in Flags
  /\ radio \in {"boot", "off", "idle", "linked", "hung"}
  /\ cmds \in Seq(BOOLEAN)
  /\ inputs \in 0 .. MaxInputs

\* What a handler leaves to the rest of the firmware: commands for the core
\* (cmds), a soft reset (reset) and the crash flag (crash) are fields it sets
\* and Run takes away.
Booted ==
  [sys |-> "none", enabled |-> FALSE, user |-> FALSE, pending |-> FALSE,
   conn |-> FALSE, charging |-> FALSE, shutdown |-> FALSE, reboot |-> FALSE,
   reason |-> "USER", noOff |-> FALSE, noAuto |-> FALSE, ending |-> "no",
   queue |-> <<>>, later |-> {}, cmds |-> <<>>, reset |-> "no", crash |-> "keep"]

----------------------------------------------------------------------------
\* app_bt.c

\* generate_sys_state
SysState(a) ==
  [a EXCEPT !.sys = IF ~a.enabled THEN "disabled"
                    ELSE IF a.conn THEN "connected" ELSE "idle"]

\* app_bt_power_on
BtPowerOn(a) ==
  IF a.enabled THEN [a EXCEPT !.user = TRUE]
  ELSE IF a.sys = "none" THEN [a EXCEPT !.user = TRUE, !.pending = TRUE]
  ELSE [a EXCEPT !.user = TRUE, !.cmds = Append(@, TRUE)]

\* app_bt_power_off
BtPowerOff(a) ==
  [a EXCEPT !.user = FALSE, !.pending = FALSE,
            !.cmds = IF a.enabled THEN Append(@, FALSE) ELSE @]

----------------------------------------------------------------------------
\* app_pm.c

StopAuto(a) == [a EXCEPT !.later = @ \ Timers]
StartAuto_Adds(a) ==
  [a EXCEPT !.later = @ \cup {IF Off(a) THEN "POWER_OFF" ELSE "AUTO_POWER_OFF"}]
StartAuto(a) ==
  [StopAuto(a) EXCEPT !.later = @ \cup {IF Off(a) THEN "POWER_OFF" ELSE "AUTO_POWER_OFF"}]

DoShutdown(a) == IF a.ending # "no" THEN a ELSE [a EXCEPT !.ending = "shutdown"]

\* do_reboot; a closed box keeps Bluetooth off after the restart.
DoReboot(a, closed) ==
  IF a.ending # "no" THEN a
  ELSE [a EXCEPT !.ending = "reboot",
                 !.reason = IF closed /\ @ \in {"FACTORY_RESET", "OTA"} THEN "CHARGER" ELSE @]

\* pm_power_off
PmPowerOff_NoTimeout(a, full) ==
  LET b == [BtPowerOff(StopAuto(a)) EXCEPT !.crash = "POWER_OFF"] IN
  IF a.charging /\ ~full THEN b
  ELSE IF Off(b) THEN DoShutdown(b)
  ELSE [b EXCEPT !.shutdown = TRUE]
PmPowerOff(a, full) ==
  LET b == [BtPowerOff(StopAuto(a)) EXCEPT !.crash = "POWER_OFF"] IN
  IF a.charging /\ ~full THEN b
  ELSE IF Off(b) THEN DoShutdown(b)
  ELSE [b EXCEPT !.shutdown = TRUE, !.later = @ \cup {"FORCE_SHUTDOWN"}]

\* app_pm_power_on, with auto power off configured; guard is
\* disable_power_off_after_power_on, which a power-on reset leaves out.
PmPowerOn(a, guard) ==
  LET b == [a EXCEPT !.crash = "POWER_ON"]
      c == IF ~Off(b) /\ (b.conn \/ b.noAuto) THEN b ELSE StartAuto(b)
      d == BtPowerOn(c)
  IN IF a.ending = "shutdown" THEN [b EXCEPT !.reset = "USER"]
     ELSE IF guard THEN [d EXCEPT !.noOff = TRUE, !.later = @ \cup {"ENABLE_POWER_OFF"}]
     ELSE d

\* app_pm_reboot.  Shutting down, it resets at once and leaves its flag.
PmReboot(a, reason, closed) ==
  LET b == [BtPowerOff(StopAuto(a)) EXCEPT !.reason = reason]
  IN IF a.ending = "shutdown" THEN [a EXCEPT !.reset = reason]
     ELSE IF Off(b) THEN DoReboot(b, closed)
     ELSE [b EXCEPT !.reboot = TRUE, !.later = @ \cup {"FORCE_REBOOT"}]

\* app_pm_handle_charger_disable_bt
DisableBt_KeepsFlag(a) ==
  BtPowerOff([a EXCEPT !.later = @ \ {"ENABLE_POWER_OFF"}, !.noOff = FALSE])
DisableBt(a) ==
  BtPowerOff([a EXCEPT !.later = @ \ {"ENABLE_POWER_OFF"}, !.noOff = FALSE,
                       !.crash = "POWER_OFF"])

\* app_pm_handle_bt_power_on and app_pm_handle_bt_disconnected.
BtIsOn(a) == IF a.noAuto THEN StopAuto(a) ELSE StartAuto(a)
BtIsDisconnected(a) == IF a.noAuto THEN a ELSE StartAuto(a)

\* PM_MSG_ID_BT_POWER_OFF_DONE
PowerOffDone_LeavesItOn(a, closed) ==
  IF a.shutdown
    THEN DoShutdown([a EXCEPT !.shutdown = FALSE, !.later = @ \ {"FORCE_SHUTDOWN"}])
  ELSE IF a.reboot
    THEN DoReboot([a EXCEPT !.reboot = FALSE, !.later = @ \ {"FORCE_REBOOT"}], closed)
  ELSE a
PowerOffDone(a, closed) ==
  IF a.shutdown
    THEN DoShutdown([a EXCEPT !.shutdown = FALSE, !.later = @ \ {"FORCE_SHUTDOWN"}])
  ELSE IF a.reboot
    THEN DoReboot([a EXCEPT !.reboot = FALSE, !.later = @ \ {"FORCE_REBOOT"}], closed)
  ELSE IF ~a.charging /\ Off(a) THEN StartAuto(a)
  ELSE a

\* app_pm_handle_msg, for a delayed message.  ota is ota_task_is_running.
PmHandleMsg(a, id, ota, full, closed) ==
  CASE id = "POWER_OFF" -> IF ota THEN StartAuto(a) ELSE PmPowerOff(a, full)
    [] id = "AUTO_POWER_OFF" -> [StopAuto(a) EXCEPT !.later = @ \cup {"POWER_OFF"}]
    [] id = "ENABLE_POWER_OFF" -> [a EXCEPT !.noOff = FALSE]
    [] id = "FORCE_SHUTDOWN" -> [a EXCEPT !.reset = "SHUTDOWN_FAILED"]
    [] id = "FORCE_REBOOT" -> DoReboot(a, closed)

\* bt_evt_enable_state_changed_handler
EnableStateChanged_Blind(a, on) ==
  LET b == SysState(IF on THEN [a EXCEPT !.enabled = TRUE, !.conn = FALSE]
                          ELSE [a EXCEPT !.enabled = FALSE])
  IN IF a.enabled /\ ~on THEN [b EXCEPT !.queue = Append(@, "done")]
     ELSE IF ~a.enabled /\ on THEN BtIsOn(b) ELSE b
EnableStateChanged(a, on) ==
  LET b == IF on THEN [a EXCEPT !.enabled = TRUE, !.conn = FALSE]
                 ELSE [a EXCEPT !.enabled = FALSE]
      c == SysState(b)
      d == IF a.pending \/ (~on /\ a.user) THEN BtPowerOn([c EXCEPT !.pending = FALSE]) ELSE c
  IN IF on /\ ~a.user THEN BtPowerOff(b)
     ELSE IF a.enabled /\ ~on THEN [d EXCEPT !.queue = Append(@, "done")]
     ELSE IF ~a.enabled /\ on THEN BtIsOn(d)
     ELSE d

\* bt_evt_connection_state_changed_handler, as far as app_pm.c is concerned
ConnStateChanged(a, on) ==
  LET b == SysState([a EXCEPT !.conn = on])
  IN IF ~a.conn /\ on THEN StopAuto(b)
     ELSE IF a.conn /\ ~on THEN BtIsDisconnected(b)
     ELSE b

Handle(a, e, closed) ==
  CASE e = "on" -> EnableStateChanged(a, TRUE)
    [] e = "off" -> EnableStateChanged(a, FALSE)
    [] e = "connected" -> ConnStateChanged(a, TRUE)
    [] e = "disconnected" -> ConnStateChanged(a, FALSE)
    [] e = "done" -> PowerOffDone(a, closed)

----------------------------------------------------------------------------
\* A handler has run and left b.
Run(b) ==
  /\ app' = [b EXCEPT !.cmds = <<>>, !.reset = "no", !.crash = "keep"]
  /\ cmds' = cmds \o b.cmds
  /\ flag' = IF b.reset # "no" THEN b.reset
             ELSE IF b.crash # "keep" THEN b.crash ELSE flag
  /\ dev' = IF b.reset # "no" THEN "reset" ELSE dev
  /\ why' = IF b.reset # "no" THEN "soft" ELSE why
  /\ UNCHANGED radio

Input == inputs < MaxInputs /\ inputs' = inputs + 1

\* The next message of the queue.
HandleEvent ==
  /\ dev = "up" /\ app.queue # <<>>
  /\ \E closed \in BOOLEAN :
       Run(Handle([app EXCEPT !.queue = Tail(@)], Head(app.queue), closed))
  /\ UNCHANGED inputs

\* A delayed message expires and is handled.
Expire(id) ==
  /\ dev = "up" /\ id \in app.later
  /\ \E ota, full, closed \in BOOLEAN :
       Run(PmHandleMsg([app EXCEPT !.later = @ \ {id}], id, ota, full, closed))
  /\ UNCHANGED inputs

\* Requests: the user's, the charging box's, the battery's, the peer's, and a
\* hardware error of the Bluetooth core.
UserPowerOn == \E guard \in BOOLEAN : Run(PmPowerOn(app, guard))
UserPowerOff == ~app.noOff /\ \E full \in BOOLEAN : Run(PmPowerOff(app, full))
CriticalLow == ~app.charging /\ Run(PmPowerOff(app, FALSE))
Reboot(reason) == \E closed \in BOOLEAN : Run(PmReboot(app, reason, closed))
HwError == Reboot(IF app.user THEN "USER" ELSE "CHARGER")
PutIn == Run([app EXCEPT !.charging = TRUE])
TakeOut ==
  /\ app.charging
  /\ LET a == [app EXCEPT !.charging = FALSE] IN Run(IF Off(a) THEN StartAuto(a) ELSE a)
BatteryFull == app.charging /\ Off(app) /\ Run(StartAuto(app))
\* app_pm_set_auto_power_off_enabled
SetAuto(on) ==
  LET a == [app EXCEPT !.noAuto = ~on] IN
  Run(IF a.sys # "idle" THEN a ELSE IF on THEN StartAuto(a) ELSE StopAuto(a))
\* PM_REMOTE_MSG_ID_SYNC_POWER_OFF, PM_REMOTE_MSG_ID_START_POWER_OFF
Remote(id) ==
  /\ ~app.noAuto /\ app.sys = "idle"
  /\ Run([StopAuto(app) EXCEPT !.later = @ \cup {id}])

Request ==
  /\ dev = "up" /\ Input
  /\ \/ UserPowerOn \/ UserPowerOff \/ CriticalLow \/ HwError
     \/ \E reason \in Reasons : Reboot(reason)
     \/ Run(DisableBt(app)) \/ PutIn \/ TakeOut \/ BatteryFull
     \/ \E on \in BOOLEAN : SetAuto(on)
     \/ \E id \in Timers : Remote(id)

\* charger_box_callback, in the charger's task.
BoxOpen ==
  /\ dev = "up" /\ app.ending = "shutdown" /\ Input
  /\ Run(PmReboot(app, "USER", FALSE))

\* The rest of do_shutdown and of do_reboot.
End ==
  /\ dev = "up" /\ app.ending # "no"
  /\ \/ /\ app.ending = "shutdown"
        /\ dev' = "off"
        /\ UNCHANGED <<why, flag>>
     \/ /\ dev' = "reset" /\ why' = "soft"
        /\ flag' = IF app.ending = "shutdown" THEN "SHUTDOWN_FAILED" ELSE app.reason
  /\ UNCHANGED <<app, radio, cmds, inputs>>

Crash ==
  /\ dev = "up" /\ Input
  /\ dev' = "reset" /\ why' = "crash"
  /\ UNCHANGED <<app, flag, radio, cmds>>

Wake ==
  /\ dev = "off" /\ Input
  /\ dev' = "reset"
  /\ \/ why' = "pin" /\ UNCHANGED flag      \* a button, the touch key, the charger
     \/ why' = "power" /\ flag' = "USER"     \* a power-on reset: the register is 0
  /\ UNCHANGED <<app, radio, cmds>>

\* generate_power_on_reason and do_init: charged is battery_charger_get_flag,
\* which tells a reset in the box from one out of it.
Boot ==
  /\ dev = "reset"
  /\ radio' = "boot"
  /\ IF why = "soft" /\ flag = "SHUTDOWN_FAILED"
       THEN dev' = "off" /\ app' = Booted /\ cmds' = <<>> /\ UNCHANGED flag
       ELSE \E charged, guard \in BOOLEAN :
         LET on == \/ why = "crash" /\ flag = "POWER_ON"
                   \/ why = "power" /\ ~charged
                   \/ why = "soft" /\ flag \in {"USER", "FACTORY_RESET", "OTA"}
             b == IF on THEN PmPowerOn(Booted, guard /\ why # "power") ELSE StartAuto(Booted)
         IN /\ dev' = "up"
            /\ app' = [b EXCEPT !.cmds = <<>>, !.crash = "keep"]
            /\ cmds' = b.cmds
            /\ flag' = IF on THEN "POWER_ON" ELSE flag
  /\ UNCHANGED <<why, inputs>>

----------------------------------------------------------------------------
\* The Bluetooth core: it reports being up, then every change of its state.

Report(e) == app' = [app EXCEPT !.queue = @ \o e]

BtBoot == radio = "boot" /\ radio' = "off" /\ Report(<<"off">>) /\ UNCHANGED cmds

SetEnabled ==
  /\ radio \in {"off", "idle", "linked"} /\ cmds # <<>>
  /\ cmds' = Tail(cmds)
  /\ IF Head(cmds)
       THEN IF radio = "off" THEN radio' = "idle" /\ Report(<<"on">>)
                             ELSE UNCHANGED <<radio, app>>
       ELSE /\ radio' = "off"
            /\ Report(CASE radio = "off" -> <<>>
                        [] radio = "idle" -> <<"off">>
                        [] radio = "linked" -> <<"disconnected", "off">>)

Bt ==
  /\ dev = "up"
  /\ BtBoot \/ SetEnabled
  /\ UNCHANGED <<dev, why, flag, inputs>>

\* The phone comes and goes.
Link ==
  /\ dev = "up" /\ Input
  /\ \/ radio = "idle" /\ radio' = "linked" /\ Report(<<"connected">>)
     \/ radio = "linked" /\ radio' = "idle" /\ Report(<<"disconnected">>)
  /\ UNCHANGED <<dev, why, flag, cmds>>

Hang ==
  /\ dev = "up" /\ radio # "hung" /\ Input
  /\ radio' = "hung"
  /\ UNCHANGED <<app, dev, why, flag, cmds>>

----------------------------------------------------------------------------
\* A reset, or a button pressed on an earbud that was switched off.
Init ==
  /\ app = Booted /\ dev = "reset"
  /\ \/ why = "power" /\ flag = "USER"
     \/ why = "pin" /\ flag = "POWER_OFF"
  /\ radio = "boot" /\ cmds = <<>> /\ inputs = 0

Next ==
  \/ HandleEvent \/ Request \/ BoxOpen \/ End \/ Crash \/ Wake \/ Boot
  \/ Bt \/ Link \/ Hang
  \/ \E id \in Later : Expire(id)

Spec == Init /\ [][Next]_vars

\* app_main runs, timers expire, the waits of do_shutdown and do_reboot are
\* bounded; a Bluetooth core that does not hang answers.
FairSpec ==
  /\ Spec
  /\ WF_vars(HandleEvent) /\ WF_vars(End) /\ WF_vars(Bt)
  /\ WF_vars(Expire("FORCE_SHUTDOWN")) /\ WF_vars(Expire("FORCE_REBOOT"))

----------------------------------------------------------------------------
\* An earbud out of its box with Bluetooth off, or on and unused while auto
\* power off is enabled, never waits without a timer that will switch it off,
\* whatever order requests, charging and Bluetooth's answers came in; one that
\* is connected, or told not to switch itself off, has none; and a power-off
\* button that is disabled will be enabled (start_auto_power_off and the
\* places that start and stop it).
TimerAsNeeded ==
  dev = "up" /\ app.ending = "no" =>
    /\ \/ app.later \cap Timers # {} \/ app.charging \/ app.queue # <<>>
       \/ app.shutdown \/ app.reboot \/ app.conn
       \/ app.enabled /\ (app.noAuto \/ cmds # <<>> \/ radio = "hung")
    /\ app.sys = "connected" \/ (app.sys = "idle" /\ app.noAuto) => app.later \cap Timers = {}
    /\ app.noOff => "ENABLE_POWER_OFF" \in app.later

\* The crash flag survives a crash and says what the lost context said: an
\* earbud that wanted Bluetooth on comes back with it on, one that did not
\* comes back with it off, a restart under way apart.  A wake-up by a pin keeps
\* the flag of the shutdown before it, which a power on that came too late for
\* the shutdown has set
\* (boot_reason_set_crash_flag in app_pm.c, handle_crash_power_on).
CrashKeepsWish ==
  dev = "up" =>
    /\ app.user => flag = "POWER_ON"
    /\ ~app.user /\ ~app.reboot /\ app.ending = "no" /\ why # "pin" => flag # "POWER_ON"

\* A shutdown or a restart that waits for Bluetooth to be off takes place, even
\* if the core hangs (PM_MSG_ID_FORCE_SHUTDOWN, PM_MSG_ID_FORCE_REBOOT).
PendingEnds ==
  (dev = "up" /\ (app.shutdown \/ app.reboot \/ app.ending # "no")) ~> (dev # "up")

\* Bluetooth ends up as it was last wanted, whatever was asked while it was
\* being enabled or disabled (app_bt_power_on, app_bt_power_off,
\* bt_evt_enable_state_changed_handler).
BtAsWanted == []<>(dev # "up" \/ radio = "hung" \/ app.enabled = app.user)
=============================================================================
