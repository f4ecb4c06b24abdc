---------------------------- MODULE TwsSyncProofs ----------------------------
(***************************************************************************)
(* What TwsSync guarantees for any number of settings, of inputs and       *)
(* faults, and any length of the queues: when nothing is on the way any    *)
(* more one bud is the master, each knows whether the other charges, and   *)
(* both have the settings of the master, but for what unsaid records.      *)
(***************************************************************************)
EXTENDS TwsSync, SequenceTheorems, TLAPS

Items == Message \cup Event
Outs == {<<>>} \cup {<<m>> : m \in Message}

\* A bud within a handler.
Acting ==
  [link : Links, role : Roles, phone : BOOLEAN, ota : BOOLEAN,
   charging : BOOLEAN, peerCharging : BOOLEAN, setting : 0 .. Settings - 1,
   later : BOOLEAN, recent : BOOLEAN, due : BOOLEAN,
   unsaid : SUBSET {"charging", "setting"}, out : Outs, ask : BOOLEAN]

\* Events that tell of the link, and of the end of it; that it is there; of the sender's
\* charging; and of the settings of the master.
OfLink(e) == e.kind \in {"state", "off"}
IsDown(e) == e.kind = "off" \/ (e.kind = "state" /\ e.link = "down")
IsUp(e) == e.kind = "state" /\ e.link = "connected"
TellsCharging(e) == e.kind \in {"sync", "charger"}
TellsSetting(e) == e.kind = "setting" \/ (e.kind = "sync" /\ e.role = "master")

\* No event: what a bud does of itself.
Nothing == [kind |-> "none"]

\* Link and role of x when it has handled h; at stands for what the stack has.
LinkAfter(x, h, at) ==
  IF h.kind = "state" THEN h.link ELSE IF h.kind = "off" THEN "down"
  ELSE IF h.kind = "on" THEN at ELSE x.link
RoleAfter(x, h, at) ==
  IF h.kind = "role" THEN h.role ELSE IF h.kind = "on" THEN at ELSE x.role

\* What x sends becoming y.
Says(y, m) == y.out = <<m>> /\ m \in Message
SaysCharging(y) == \E m : Says(y, m) /\ TellsCharging(m) /\ m.charging = y.charging
SaysSetting(y) == \E m : Says(y, m) /\ TellsSetting(m) /\ m.setting = y.setting
SaysOther(y, tells) == y.out = <<>> \/ \E m : Says(y, m) /\ tells \notin Tells(m)

\* A handler has made y of x, having taken h.
ChargingEffect(x, y, h) ==
  /\ y.peerCharging = IF TellsCharging(h) THEN h.charging ELSE x.peerCharging
  /\ SaysCharging(y) \/ SaysOther(y, "charging")
  /\ ~SaysCharging(y) =>
       /\ ~(IsUp(h) /\ x.link = "down")
       /\ "charging" \in x.unsaid => "charging" \in y.unsaid
       /\ \/ y.charging = x.charging \/ "charging" \in y.unsaid
          \/ h = Nothing /\ x.link = "down"

SettingEffect(x, y, h) ==
  /\ \/ SaysSetting(y) /\ y.role = "master" /\ x.role = "master" /\ y.link = "connected"
     \/ SaysOther(y, "setting")
  /\ ~SaysSetting(y) =>
       /\ ~(IsUp(h) /\ x.link = "down" /\ x.role = "master")
       /\ \/ y.setting = x.setting /\ ("setting" \in x.unsaid => "setting" \in y.unsaid)
          \/ "setting" \in y.unsaid
          \/ TellsSetting(h) /\ x.role = "slave" /\ y.setting = h.setting
          \/ x.link = "down" /\ ~OfLink(h) /\ ("setting" \in x.unsaid => "setting" \in y.unsaid)
  /\ TellsSetting(h) /\ x.role = "slave" => y.setting = h.setting

Effect(x, y, h, me) ==
  /\ y \in Acting
  /\ y.link = LinkAfter(x, h, stack.link) /\ y.role = RoleAfter(x, h, stack.role[me])
  /\ h.kind = "on" /\ stack.link # "down" => y.unsaid = {"charging", "setting"}
  /\ ChargingEffect(x, y, h) /\ SettingEffect(x, y, h)

-----------------------------------------------------------------------------
(* Handlers.                                                                *)

LEMMA PeerFacts ==
  /\ Peer("left") = "right" /\ Peer("right") = "left"
  /\ \A b \in Buds : Peer(b) \in Buds /\ Peer(b) # b /\ Peer(Peer(b)) = b
                     /\ \A c \in Buds : c = b \/ c = Peer(b)
  <1>1. Peer("left") = "right"
    <2>1. \A p \in Buds : p # "left" <=> p = "right"
      BY DEF Buds
    <2> QED BY <2>1 DEF Peer, Buds
  <1>2. Peer("right") = "left"
    <2>1. \A p \in Buds : p # "right" <=> p = "left"
      BY DEF Buds
    <2> QED BY <2>1 DEF Peer, Buds
  <1> QED BY <1>1, <1>2 DEF Buds

LEMMA ItemFacts ==
  ASSUME NEW e \in Items
  PROVE  /\ e.kind \in {"sync", "charger", "setting", "usr_evt", "state", "role", "phone",
                        "on", "off", "dual"}
         /\ e.kind = "state" => e.link \in Links
         /\ e.kind = "role" => e.role \in Roles
         /\ e.kind = "phone" => e.up \in BOOLEAN
         /\ TellsCharging(e) => e.charging \in BOOLEAN
         /\ e.kind \in {"sync", "setting"} => e.setting \in 0 .. Settings - 1
         /\ e.kind = "sync" => e.role \in Roles
         /\ e.kind = "usr_evt" => e.phone \in BOOLEAN
  BY DEF Items, Message, Event, TellsCharging

LEMMA TellsFacts ==
  ASSUME NEW m \in Message
  PROVE  /\ "charging" \in Tells(m) <=> TellsCharging(m)
         /\ "setting" \in Tells(m) <=> TellsSetting(m)
         /\ Tells(m) \subseteq {"charging", "setting"}
  BY DEF Tells, TellsCharging, TellsSetting

LEMMA SendFacts ==
  ASSUME NEW b \in Acting, b.out = <<>>, NEW m \in Message, NEW y, y = Send(b, m)
  PROVE  /\ y \in Acting
         /\ y.link = b.link /\ y.role = b.role /\ y.phone = b.phone /\ y.charging = b.charging
         /\ y.peerCharging = b.peerCharging /\ y.setting = b.setting
         /\ b.link = "connected" => y.out = <<m>> /\ y.unsaid = b.unsaid \ Tells(m)
         /\ b.link = "switching" => y.out = <<>> /\ y.unsaid = b.unsaid \cup Tells(m)
         /\ b.link = "down" => y = b
  <1>1. Append(b.out, m) = <<m>> /\ <<m>> \in Outs
    BY DEF Outs
  <1>2. Tells(m) \subseteq {"charging", "setting"}
    BY TellsFacts
  <1>3. b.link \in {"down", "connected", "switching"}
    BY DEF Acting, Links
  <1>4. CASE b.link = "connected"
    <2>1. y = [b EXCEPT !.out = <<m>>, !.unsaid = b.unsaid \ Tells(m)]
      BY <1>1, <1>4 DEF Send
    <2>2. b.unsaid \ Tells(m) \in SUBSET {"charging", "setting"} /\ <<m>> \in Outs
      BY <1>1 DEF Acting
    <2>3. y \in Acting
      BY <2>1, <2>2 DEF Acting
    <2>4. y.out = <<m>> /\ y.unsaid = b.unsaid \ Tells(m)
      BY <2>1 DEF Acting
    <2> QED BY <1>4, <2>1, <2>3, <2>4 DEF Acting
  <1>5. CASE b.link = "switching"
    <2>1. y = [b EXCEPT !.unsaid = b.unsaid \cup Tells(m)]
      BY <1>5 DEF Send
    <2> QED BY <1>2, <1>5, <2>1 DEF Acting
  <1>6. CASE b.link = "down"
    BY <1>6 DEF Send
  <1> QED BY <1>3, <1>4, <1>5, <1>6

LEMMA TriggerFacts ==
  ASSUME NEW b \in Acting, NEW reason, NEW y, y = Trigger(b, reason)
  PROVE  /\ y \in Acting
         /\ y.link = b.link /\ y.role = b.role /\ y.charging = b.charging
         /\ y.peerCharging = b.peerCharging /\ y.setting = b.setting
         /\ y.unsaid = b.unsaid /\ y.out = b.out
  BY DEF Trigger, RoleSwitch, Acting

LEMMA SetSettingFacts ==
  ASSUME NEW b \in Acting, b.out = <<>>, NEW v \in 0 .. Settings - 1, NEW y, y = SetSetting(b, v)
  PROVE  /\ y \in Acting
         /\ y.link = b.link /\ y.role = b.role /\ y.phone = b.phone /\ y.charging = b.charging
         /\ y.peerCharging = b.peerCharging /\ y.setting = v
         /\ "charging" \in y.unsaid <=> "charging" \in b.unsaid
         /\ SaysOther(y, "charging")
         /\ \/ SaysSetting(y) /\ y.role = "master" /\ y.link = "connected"
            \/ /\ y.out = <<>>
               /\ \/ "setting" \in y.unsaid
                  \/ y.unsaid = b.unsaid /\ (v = b.setting \/ b.link = "down" \/ b.role = "slave")
         /\ b.role = "slave" => y.out = <<>> /\ y.unsaid = b.unsaid
  <1> DEFINE c == [b EXCEPT !.setting = v]
             m == [kind |-> "setting", setting |-> v]
  <1>1. /\ c \in Acting /\ c.out = <<>> /\ c.link = b.link /\ c.role = b.role /\ c.phone = b.phone
        /\ c.charging = b.charging /\ c.peerCharging = b.peerCharging /\ c.setting = v
        /\ c.unsaid = b.unsaid
    BY DEF Acting
  <1>2. /\ m \in Message /\ TellsSetting(m) /\ m.setting = v /\ Tells(m) = {"setting"}
    BY DEF Message, TellsSetting, Tells
  <1>3. CASE v = b.setting
    BY <1>3 DEF SetSetting, SaysOther
  <1>4. CASE v # b.setting /\ ~ConnectedMaster(c)
    <2>1. y = c
      <3>1. SetSetting(b, v) = IF v = b.setting THEN b ELSE IF ConnectedMaster(c) THEN Send(c, m) ELSE c
        BY DEF SetSetting, ConnectedMaster, Connected
      <3> HIDE DEF c, m
      <3> QED BY <1>4, <3>1
    <2>2. b.link = "down" \/ b.role = "slave"
      BY <1>1, <1>4 DEF ConnectedMaster, Connected, Acting, Roles
    <2> QED BY <1>1, <2>1, <2>2 DEF SaysOther
  <1>5. CASE v # b.setting /\ ConnectedMaster(c)
    <2>1. y = Send(c, m) /\ c.role = "master" /\ c.link # "down" /\ c.link \in Links
      BY <1>1, <1>5 DEF SetSetting, ConnectedMaster, Connected, Acting
    <2> HIDE DEF c, m
    <2>2. /\ y \in Acting
          /\ y.link = b.link /\ y.role = "master" /\ b.role = "master" /\ y.phone = b.phone
          /\ y.charging = b.charging
          /\ y.peerCharging = b.peerCharging /\ y.setting = v
          /\ \/ c.link = "connected" /\ y.out = <<m>> /\ y.unsaid = c.unsaid \ {"setting"}
             \/ y.out = <<>> /\ y.unsaid = c.unsaid \cup {"setting"}
      BY <1>1, <1>2, <2>1, SendFacts DEF Links
    <2>3. CASE y.out = <<m>> /\ c.link = "connected" /\ y.unsaid = c.unsaid \ {"setting"}
      <3>1. SaysSetting(y) /\ SaysOther(y, "charging")
        BY <1>2, <2>2, <2>3 DEF SaysSetting, SaysOther, Says
      <3> QED BY <1>1, <2>2, <2>3, <3>1
    <2>4. CASE y.out = <<>> /\ y.unsaid = c.unsaid \cup {"setting"}
      BY <1>1, <2>2, <2>4 DEF SaysOther
    <2> QED BY <2>2, <2>3, <2>4
  <1> QED BY <1>3, <1>4, <1>5

LEMMA ToggleFacts ==
  ASSUME NEW b \in Acting
  PROVE  (b.setting + 1) % Settings \in 0 .. Settings - 1
  <1>1. Settings \in Nat \ {0} /\ b.setting + 1 \in Nat
    BY TwsSyncAssumption DEF Acting
  <1> QED BY <1>1

LEMMA ActingFacts ==
  ASSUME NEW x \in BudType
  PROVE  x \in Acting /\ x.out = <<>> /\ x.link \in Links /\ x.role \in Roles
         /\ x.charging \in BOOLEAN /\ x.setting \in 0 .. Settings - 1
  <1>1. <<>> \in Outs
    BY DEF Outs
  <1> QED BY <1>1 DEF BudType, Acting

\* A handler that touches neither settings nor charging.
LEMMA PlainEffect ==
  ASSUME NEW x \in BudType, NEW y \in Acting, NEW h, NEW me \in Buds,
         h.kind \in {"role", "off", "phone", "state", "none"},
         IsUp(h) => x.link # "down",
         y.link = LinkAfter(x, h, stack.link), y.role = RoleAfter(x, h, stack.role[me]),
         y.charging = x.charging, y.peerCharging = x.peerCharging, y.setting = x.setting,
         y.unsaid = x.unsaid, y.out = <<>>
  PROVE  Effect(x, y, h, me)
  <1>1. ~TellsCharging(h) /\ ~TellsSetting(h)
    BY DEF TellsCharging, TellsSetting
  <1> QED BY <1>1 DEF Effect, ChargingEffect, SettingEffect, SaysOther

LEMMA StateEffect ==
  ASSUME NEW x \in BudType, NEW me \in Buds, NEW h \in Items, h.kind = "state",
         NEW y, y = StateChanged(x, h.link)
  PROVE  Effect(x, y, h, me)
  <1> DEFINE c == [x EXCEPT !.link = h.link]
  <1>1. h.link \in Links /\ x \in Acting /\ x.out = <<>>
    BY ItemFacts, ActingFacts
  <1>2. /\ c \in Acting /\ c.out = <<>> /\ c.link = h.link /\ c.role = x.role
        /\ c.charging = x.charging /\ c.peerCharging = x.peerCharging /\ c.setting = x.setting
        /\ c.unsaid = x.unsaid
    BY <1>1 DEF Acting
  <1>3. y = IF h.link = "connected" /\ x.link = "down" THEN Send(c, SyncOf(c)) ELSE c
    BY DEF StateChanged, Connected, ConnectedSync
  <1> HIDE DEF c
  <1>4. LinkAfter(x, h, stack.link) = h.link /\ RoleAfter(x, h, stack.role[me]) = x.role
    BY DEF LinkAfter, RoleAfter
  <1>5. CASE ~(h.link = "connected" /\ x.link = "down")
    BY <1>2, <1>3, <1>4, <1>5, PlainEffect DEF IsUp
  <1>6. CASE h.link = "connected" /\ x.link = "down"
    <2> DEFINE m == SyncOf(c)
    <2>1. m \in Message /\ m.kind = "sync" /\ m.charging = c.charging /\ m.setting = c.setting
          /\ m.role = c.role
      BY <1>2 DEF SyncOf, Message, Acting
    <2>2. y = Send(c, m)
      BY <1>3, <1>6
    <2> HIDE DEF m
    <2>3. /\ y \in Acting /\ y.link = "connected" /\ y.role = x.role /\ y.charging = x.charging
          /\ y.peerCharging = x.peerCharging /\ y.setting = x.setting
          /\ y.out = <<m>> /\ y.unsaid = x.unsaid \ Tells(m)
      BY <1>2, <1>6, <2>1, <2>2, SendFacts
    <2>4. Says(y, m) /\ TellsCharging(m) /\ (TellsSetting(m) <=> x.role = "master")
      BY <1>2, <2>1, <2>3 DEF Says, TellsCharging, TellsSetting
    <2>5. SaysCharging(y) /\ (x.role = "master" => SaysSetting(y))
      BY <1>2, <2>1, <2>3, <2>4 DEF SaysCharging, SaysSetting
    <2>6. x.role # "master" => SaysOther(y, "setting") /\ ("setting" \in x.unsaid => "setting" \in y.unsaid)
      BY <2>1, <2>3, <2>4, TellsFacts DEF SaysOther
    <2>7. ~TellsCharging(h) /\ ~TellsSetting(h) /\ h.kind # "on"
      BY DEF TellsCharging, TellsSetting
    <2>8. ChargingEffect(x, y, h)
      BY <2>3, <2>5, <2>7 DEF ChargingEffect
    <2>9. SettingEffect(x, y, h)
      BY <2>3, <2>5, <2>6, <2>7 DEF SettingEffect
    <2> QED BY <1>4, <1>6, <2>3, <2>7, <2>8, <2>9 DEF Effect
  <1> QED BY <1>5, <1>6

LEMMA StackEffect ==
  ASSUME TypeOK, NEW x \in BudType, NEW me \in Buds, NEW h \in Items,
         h.kind \in {"role", "on", "off", "dual", "phone"}, NEW y, y = Handle(x, me, h)
  PROVE  Effect(x, y, h, me)
  <1>1. /\ x \in Acting /\ x.out = <<>> /\ x.role \in Roles /\ x.link \in Links
        /\ stack.link \in Links /\ stack.role[me] \in Roles
    BY ActingFacts DEF TypeOK
  <1>2. ~TellsCharging(h) /\ ~TellsSetting(h) /\ ~IsUp(h)
    BY DEF TellsCharging, TellsSetting, IsUp
  <1>3. CASE h.kind = "role"
    <2>1. y = [x EXCEPT !.role = h.role, !.recent = TRUE] /\ h.role \in Roles
      BY <1>3, ItemFacts DEF Handle, RoleChanged
    <2>2. /\ y \in Acting /\ y.link = x.link /\ y.role = h.role
          /\ y.charging = x.charging /\ y.peerCharging = x.peerCharging /\ y.setting = x.setting
          /\ y.unsaid = x.unsaid /\ y.out = <<>>
      BY <1>1, <2>1 DEF Acting
    <2> QED BY <1>2, <1>3, <2>2, PlainEffect DEF LinkAfter, RoleAfter
  <1>4. CASE h.kind = "off"
    <2>1. y = [x EXCEPT !.link = "down", !.phone = FALSE]
      BY <1>4 DEF Handle, BtPowerOff
    <2>2. /\ y \in Acting /\ y.link = "down" /\ y.role = x.role
          /\ y.charging = x.charging /\ y.peerCharging = x.peerCharging /\ y.setting = x.setting
          /\ y.unsaid = x.unsaid /\ y.out = <<>>
      BY <1>1, <2>1 DEF Acting, Links
    <2> QED BY <1>2, <1>4, <2>2, PlainEffect DEF LinkAfter, RoleAfter
  <1>5. CASE h.kind = "phone"
    <2> DEFINE c == [x EXCEPT !.phone = TRUE, !.recent = TRUE]
    <2>1. h.up \in BOOLEAN /\ (y = Trigger(c, "connected") \/ y = [x EXCEPT !.phone = h.up])
      BY <1>5, ItemFacts DEF Handle, PhoneChanged
    <2>2. /\ c \in Acting /\ c.link = x.link /\ c.role = x.role /\ c.charging = x.charging
          /\ c.peerCharging = x.peerCharging /\ c.setting = x.setting
          /\ c.unsaid = x.unsaid /\ c.out = <<>>
      BY <1>1 DEF Acting
    <2> HIDE DEF c
    <2>3. /\ y \in Acting /\ y.link = x.link /\ y.role = x.role
          /\ y.charging = x.charging /\ y.peerCharging = x.peerCharging /\ y.setting = x.setting
          /\ y.unsaid = x.unsaid /\ y.out = <<>>
      <3>1. CASE y = Trigger(c, "connected")
        BY <2>2, <3>1, TriggerFacts
      <3>2. CASE y = [x EXCEPT !.phone = h.up]
        BY <1>1, <2>1, <3>2 DEF Acting
      <3> QED BY <2>1, <3>1, <3>2
    <2> QED BY <1>2, <1>5, <2>3, PlainEffect DEF LinkAfter, RoleAfter
  <1>6. CASE h.kind = "on"
    <2> DEFINE c == [x EXCEPT !.link = stack.link, !.role = stack.role[me]]
    <2>1. y = IF stack.link # "down" THEN [c EXCEPT !.unsaid = {"charging", "setting"}] ELSE c
      BY <1>1, <1>6 DEF Handle, BtPowerOn, Connected, BudType
    <2>2. /\ y \in Acting /\ y.link = stack.link /\ y.role = stack.role[me]
          /\ y.charging = x.charging /\ y.peerCharging = x.peerCharging /\ y.setting = x.setting
          /\ stack.link # "down" => y.unsaid = {"charging", "setting"}
          /\ stack.link = "down" => y.unsaid = x.unsaid
          /\ y.out = <<>>
      <3>1. /\ c \in Acting /\ c.link = stack.link /\ c.role = stack.role[me]
            /\ c.charging = x.charging /\ c.peerCharging = x.peerCharging
            /\ c.setting = x.setting /\ c.unsaid = x.unsaid /\ c.out = <<>>
        BY <1>1 DEF Acting
      <3> HIDE DEF c
      <3>2. CASE stack.link = "down"
        BY <2>1, <3>1, <3>2
      <3>3. CASE stack.link # "down"
        <4>1. y = [c EXCEPT !.unsaid = {"charging", "setting"}]
          BY <2>1, <3>3
        <4>2. y \in Acting /\ y.unsaid = {"charging", "setting"}
          BY <3>1, <4>1 DEF Acting
        <4>3. /\ y.link = c.link /\ y.role = c.role /\ y.charging = c.charging
              /\ y.peerCharging = c.peerCharging /\ y.setting = c.setting /\ y.out = c.out
          BY <3>1, <4>1 DEF Acting
        <4> QED BY <3>1, <3>3, <4>2, <4>3
      <3> QED BY <3>2, <3>3
    <2>3. ("charging" \in x.unsaid => "charging" \in y.unsaid)
          /\ ("setting" \in x.unsaid => "setting" \in y.unsaid)
      BY <2>2
    <2>4. ChargingEffect(x, y, h) /\ SettingEffect(x, y, h)
      BY <1>2, <2>2, <2>3 DEF ChargingEffect, SettingEffect, SaysOther
    <2> QED BY <1>6, <2>2, <2>4 DEF Effect, LinkAfter, RoleAfter
  <1>7. CASE h.kind = "dual"
    <2> DEFINE m == [kind |-> "setting", setting |-> x.setting]
    <2>1. y = IF x.role = "master" THEN Send(x, m) ELSE x
      BY <1>7 DEF Handle, ModeChanged
    <2>2. m \in Message /\ TellsSetting(m) /\ m.setting = x.setting /\ Tells(m) = {"setting"}
      BY <1>1 DEF Message, TellsSetting, Tells, Acting
    <2> HIDE DEF m
    <2>3. /\ y \in Acting /\ y.link = x.link /\ y.role = x.role
          /\ y.charging = x.charging /\ y.peerCharging = x.peerCharging /\ y.setting = x.setting
          /\ "charging" \in x.unsaid => "charging" \in y.unsaid
      BY <1>1, <2>1, <2>2, SendFacts DEF Links
    <2>4. \/ x.role = "master" /\ x.link = "connected" /\ Says(y, m)
          \/ y.out = <<>> /\ ("setting" \in x.unsaid => "setting" \in y.unsaid)
      BY <1>1, <2>1, <2>2, SendFacts DEF Links, Says
    <2>5. ChargingEffect(x, y, h)
      <3>1. SaysOther(y, "charging")
        BY <2>2, <2>4 DEF SaysOther
      <3> QED BY <1>2, <2>3, <3>1 DEF ChargingEffect
    <2>6. SettingEffect(x, y, h)
      <3>1. CASE x.role = "master" /\ x.link = "connected" /\ Says(y, m)
        <4>1. SaysSetting(y)
          BY <2>2, <2>3, <3>1 DEF SaysSetting
        <4> QED BY <1>2, <2>3, <3>1, <4>1 DEF SettingEffect
      <3>2. CASE y.out = <<>> /\ ("setting" \in x.unsaid => "setting" \in y.unsaid)
        BY <1>2, <2>3, <3>2 DEF SettingEffect, SaysOther
      <3> QED BY <2>4, <3>1, <3>2
    <2> QED BY <1>7, <2>3, <2>5, <2>6 DEF Effect, LinkAfter, RoleAfter
  <1> QED BY <1>3, <1>4, <1>5, <1>6, <1>7

LEMMA MessageEffect ==
  ASSUME NEW x \in BudType, NEW me \in Buds, NEW h \in Items,
         h.kind \in {"sync", "setting", "charger", "usr_evt"}, NEW y, y = Handle(x, me, h)
  PROVE  Effect(x, y, h, me)
  <1>1. /\ x \in Acting /\ x.out = <<>> /\ x.role \in {"master", "slave"} /\ x.link \in Links
        /\ x.setting \in 0 .. Settings - 1
    BY ActingFacts DEF Roles
  <1>2. /\ ~IsUp(h) /\ ~OfLink(h) /\ LinkAfter(x, h, stack.link) = x.link
        /\ RoleAfter(x, h, stack.role[me]) = x.role /\ h.kind # "on" /\ h # Nothing
    BY DEF IsUp, OfLink, LinkAfter, RoleAfter, Nothing
  <1>3. ASSUME NEW c \in Acting, NEW v \in 0 .. Settings - 1, NEW told, c.out = <<>>, c.role = x.role,
               c.link = x.link, c.charging = x.charging, c.unsaid = x.unsaid, x.role = "slave",
               y = [SetSetting(c, v) EXCEPT !.unsaid = told],
               told \in {x.unsaid \ {"setting"}, x.unsaid \cup {"setting"}}
        PROVE  /\ y \in Acting /\ y.link = x.link /\ y.role = x.role /\ y.charging = x.charging
               /\ y.peerCharging = c.peerCharging /\ y.setting = v /\ y.unsaid = told /\ y.out = <<>>
               /\ "charging" \in x.unsaid => "charging" \in y.unsaid
    <2> DEFINE z == SetSetting(c, v)
    <2>1. /\ z \in Acting /\ z.link = x.link /\ z.role = x.role /\ z.charging = x.charging
          /\ z.peerCharging = c.peerCharging /\ z.setting = v
          /\ z.out = <<>> /\ z.unsaid = x.unsaid
      BY <1>3, SetSettingFacts
    <2> HIDE DEF z
    <2>2. y = [z EXCEPT !.unsaid = told] /\ told \in SUBSET {"charging", "setting"}
      BY <1>1, <1>3 DEF z, Acting
    <2> QED BY <1>3, <2>1, <2>2 DEF Acting
  <1>4. CASE h.kind = "charger"
    <2> DEFINE c == [x EXCEPT !.peerCharging = h.charging]
    <2>1. y = Trigger(c, "peer_charging") /\ h.charging \in BOOLEAN /\ TellsCharging(h) /\ ~TellsSetting(h)
      BY <1>4, ItemFacts DEF Handle, HandleCharger, TellsCharging, TellsSetting
    <2>2. /\ c \in Acting /\ c.link = x.link /\ c.role = x.role /\ c.charging = x.charging
          /\ c.peerCharging = h.charging /\ c.setting = x.setting
          /\ c.unsaid = x.unsaid /\ c.out = <<>>
      BY <1>1, <2>1 DEF Acting
    <2> HIDE DEF c
    <2>3. /\ y \in Acting /\ y.link = x.link /\ y.role = x.role
          /\ y.charging = x.charging /\ y.peerCharging = h.charging /\ y.setting = x.setting
          /\ y.unsaid = x.unsaid /\ y.out = <<>>
      BY <2>1, <2>2, TriggerFacts
    <2> QED BY <1>2, <2>1, <2>3 DEF Effect, ChargingEffect, SettingEffect, SaysOther
  <1>5. CASE h.kind = "setting"
    <2>1. y = HandleSetting(x, h.setting) /\ h.setting \in 0 .. Settings - 1
          /\ ~TellsCharging(h) /\ TellsSetting(h)
      BY <1>5, ItemFacts DEF Handle, TellsCharging, TellsSetting
    <2>2. CASE x.role = "slave"
      <3>0. SetSetting(x, h.setting).unsaid = x.unsaid
        BY <1>1, <2>1, <2>2, SetSettingFacts
      <3>1. /\ y \in Acting /\ y.link = x.link /\ y.role = x.role /\ y.charging = x.charging
            /\ y.peerCharging = x.peerCharging /\ y.setting = h.setting /\ y.out = <<>>
            /\ "charging" \in x.unsaid => "charging" \in y.unsaid
        <4>1. y = [SetSetting(x, h.setting) EXCEPT !.unsaid = x.unsaid \ {"setting"}]
          BY <2>1, <2>2, <3>0 DEF HandleSetting
        <4> QED BY <1>1, <1>3, <2>1, <2>2, <4>1
      <3> QED BY <1>2, <2>1, <2>2, <3>1 DEF Effect, ChargingEffect, SettingEffect, SaysOther
    <2>3. CASE x.role # "slave"
      <3>1. y = x
        BY <2>1, <2>3 DEF HandleSetting
      <3> QED BY <1>1, <1>2, <2>1, <2>3, <3>1 DEF Effect, ChargingEffect, SettingEffect, SaysOther
    <2> QED BY <2>2, <2>3
  <1>6. CASE h.kind = "sync"
    <2> DEFINE c == [x EXCEPT !.peerCharging = h.charging]
    <2>1. /\ h.charging \in BOOLEAN /\ h.setting \in 0 .. Settings - 1 /\ h.role \in {"master", "slave"}
          /\ TellsCharging(h) /\ (TellsSetting(h) <=> h.role = "master")
      BY <1>6, ItemFacts DEF TellsCharging, TellsSetting, Roles
    <2>2. /\ c \in Acting /\ c.link = x.link /\ c.role = x.role /\ c.charging = x.charging
          /\ c.peerCharging = h.charging /\ c.setting = x.setting
          /\ c.unsaid = x.unsaid /\ c.out = <<>>
      BY <1>1, <2>1 DEF Acting
    <2>3. y = IF h.role = "master" THEN HandleSetting(c, h.setting)
              ELSE IF x.role = "slave"
                THEN [SetSetting(c, h.setting) EXCEPT
                        !.unsaid = SetSetting(c, h.setting).unsaid \cup {"setting"}] ELSE c
      BY <1>6 DEF Handle, HandleSync
    <2> HIDE DEF c
    <2>4. CASE x.role = "slave"
      <3> DEFINE told == IF h.role = "master" THEN x.unsaid \ {"setting"} ELSE x.unsaid \cup {"setting"}
      <3>1. SetSetting(c, h.setting).unsaid = x.unsaid
        BY <2>1, <2>2, <2>4, SetSettingFacts
      <3>2. y = [SetSetting(c, h.setting) EXCEPT !.unsaid = told]
        BY <2>2, <2>3, <2>4, <3>1 DEF HandleSetting
      <3>3. told \in {x.unsaid \ {"setting"}, x.unsaid \cup {"setting"}}
        OBVIOUS
      <3>4. (h.role = "master" => told = x.unsaid \ {"setting"})
            /\ (h.role # "master" => told = x.unsaid \cup {"setting"})
        OBVIOUS
      <3> HIDE DEF told
      <3>5. /\ y \in Acting /\ y.link = x.link /\ y.role = x.role /\ y.charging = x.charging
            /\ y.peerCharging = c.peerCharging /\ y.setting = h.setting /\ y.unsaid = told /\ y.out = <<>>
            /\ "charging" \in x.unsaid => "charging" \in y.unsaid
        BY <1>3, <2>1, <2>2, <2>4, <3>2, <3>3
      <3> QED BY <1>2, <2>1, <2>2, <2>4, <3>4, <3>5 DEF Effect, ChargingEffect, SettingEffect, SaysOther
    <2>5. CASE x.role # "slave"
      <3>1. y = c
        BY <2>2, <2>3, <2>5 DEF HandleSetting
      <3> QED BY <1>2, <2>1, <2>2, <2>5, <3>1 DEF Effect, ChargingEffect, SettingEffect, SaysOther
    <2> QED BY <2>4, <2>5
  <1>7. CASE h.kind = "usr_evt"
    <2> DEFINE v == (x.setting + 1) % Settings
               z == SetSetting(x, v)
    <2>1. /\ v \in 0 .. Settings - 1 /\ ~TellsCharging(h) /\ ~TellsSetting(h)
          /\ \/ y = x
             \/ x.role = "slave" /\ y = [z EXCEPT !.unsaid = z.unsaid \cup {"setting"}]
             \/ x.role = "master" /\ y = z
      BY <1>1, <1>7, ToggleFacts DEF Handle, PeerEvt, Toggle, TellsCharging, TellsSetting
    <2> HIDE DEF v
    <2>2. CASE y = x
      BY <1>1, <1>2, <2>1, <2>2 DEF Effect, ChargingEffect, SettingEffect, SaysOther
    <2>3. CASE x.role = "slave" /\ y = [z EXCEPT !.unsaid = z.unsaid \cup {"setting"}]
      <3>1. z.unsaid = x.unsaid
        BY <1>1, <2>1, <2>3, SetSettingFacts
      <3>2. y = [SetSetting(x, v) EXCEPT !.unsaid = x.unsaid \cup {"setting"}]
        BY <2>3, <3>1
      <3> DEFINE told == x.unsaid \cup {"setting"}
      <3>3. told \in {x.unsaid \ {"setting"}, x.unsaid \cup {"setting"}} /\ "setting" \in told
        OBVIOUS
      <3>4. y = [SetSetting(x, v) EXCEPT !.unsaid = told]
        BY <3>2
      <3> HIDE DEF told
      <3>5. /\ y \in Acting /\ y.link = x.link /\ y.role = x.role /\ y.charging = x.charging
            /\ y.peerCharging = x.peerCharging /\ y.unsaid = told /\ y.out = <<>>
            /\ "charging" \in x.unsaid => "charging" \in y.unsaid
        <4>1. /\ x \in Acting /\ v \in 0 .. Settings - 1 /\ x.out = <<>> /\ x.role = "slave"
              /\ y = [SetSetting(x, v) EXCEPT !.unsaid = told]
              /\ told \in {x.unsaid \ {"setting"}, x.unsaid \cup {"setting"}}
          BY <1>1, <2>1, <2>3, <3>3, <3>4
        <4> HIDE DEF z
        <4> QED BY <1>3, <4>1, ZenonT(40)
      <3> QED BY <1>2, <2>1, <2>3, <3>3, <3>5 DEF Effect, ChargingEffect, SettingEffect, SaysOther
    <2>4. CASE x.role = "master" /\ y = z
      <3>1. /\ y \in Acting /\ y.link = x.link /\ y.role = x.role /\ y.charging = x.charging
            /\ y.peerCharging = x.peerCharging /\ y.setting = v
            /\ "charging" \in x.unsaid => "charging" \in y.unsaid
            /\ SaysOther(y, "charging")
            /\ \/ SaysSetting(y) /\ y.role = "master" /\ y.link = "connected"
               \/ y.out = <<>> /\ "setting" \in y.unsaid
               \/ y.out = <<>> /\ y.unsaid = x.unsaid /\ (v = x.setting \/ x.link = "down")
        BY <1>1, <2>1, <2>4, SetSettingFacts
      <3>2. ChargingEffect(x, y, h)
        BY <1>2, <2>1, <3>1 DEF ChargingEffect
      <3>3. SettingEffect(x, y, h)
        BY <1>2, <2>1, <2>4, <3>1 DEF SettingEffect, SaysOther
      <3> QED BY <1>2, <3>1, <3>2, <3>3 DEF Effect
    <2> QED BY <2>1, <2>2, <2>3, <2>4
  <1> QED BY <1>4, <1>5, <1>6, <1>7

\* What a bud does without an event.
LEMMA OwnEffect ==
  ASSUME NEW x \in BudType, NEW me \in Buds, NEW y,
         \/ y = Trigger([x EXCEPT !.later = FALSE], "timer")
         \/ y = UsrEvt(x) \/ y = ChargerChanged(x) \/ y = RoleSwitch(x) \/ y = [x EXCEPT !.ota = ~x.ota]
  PROVE  Effect(x, y, Nothing, me)
  <1>1. /\ x \in Acting /\ x.out = <<>> /\ x.role \in {"master", "slave"} /\ x.link \in Links
        /\ x.setting \in 0 .. Settings - 1 /\ x.charging \in BOOLEAN
    BY ActingFacts DEF Roles
  <1>2. /\ Nothing.kind = "none" /\ LinkAfter(x, Nothing, stack.link) = x.link
        /\ RoleAfter(x, Nothing, stack.role[me]) = x.role
        /\ ~TellsCharging(Nothing) /\ ~TellsSetting(Nothing) /\ ~IsUp(Nothing) /\ ~OfLink(Nothing)
    BY DEF Nothing, LinkAfter, RoleAfter, TellsCharging, TellsSetting, IsUp, OfLink
  <1>3. CASE y = Trigger([x EXCEPT !.later = FALSE], "timer")
    <2> DEFINE c == [x EXCEPT !.later = FALSE]
    <2>1. /\ c \in Acting /\ c.link = x.link /\ c.role = x.role /\ c.charging = x.charging
          /\ c.peerCharging = x.peerCharging /\ c.setting = x.setting
          /\ c.unsaid = x.unsaid /\ c.out = <<>>
      BY <1>1 DEF Acting
    <2> HIDE DEF c
    <2>2. y = Trigger(c, "timer")
      BY <1>3 DEF c
    <2>3. /\ y \in Acting /\ y.link = x.link /\ y.role = x.role
          /\ y.charging = x.charging /\ y.peerCharging = x.peerCharging /\ y.setting = x.setting
          /\ y.unsaid = x.unsaid /\ y.out = <<>>
      BY <2>1, <2>2, TriggerFacts
    <2> QED BY <1>2, <2>3, PlainEffect
  <1>4. CASE y = RoleSwitch(x) \/ y = [x EXCEPT !.ota = ~x.ota]
    <2>1. /\ y \in Acting /\ y.link = x.link /\ y.role = x.role
          /\ y.charging = x.charging /\ y.peerCharging = x.peerCharging /\ y.setting = x.setting
          /\ y.unsaid = x.unsaid /\ y.out = <<>>
      BY <1>1, <1>4 DEF Acting, RoleSwitch
    <2> QED BY <1>2, <2>1, PlainEffect
  <1>5. CASE y = ChargerChanged(x)
    <2> DEFINE c == [x EXCEPT !.charging = ~x.charging]
               m == [kind |-> "charger", charging |-> c.charging]
               z == Send(c, m)
    <2>1. /\ c \in Acting /\ c.link = x.link /\ c.role = x.role
          /\ c.peerCharging = x.peerCharging /\ c.setting = x.setting
          /\ c.unsaid = x.unsaid /\ c.out = <<>>
      BY <1>1 DEF Acting
    <2>2. /\ m \in Message /\ TellsCharging(m) /\ ~TellsSetting(m) /\ m.charging = c.charging
          /\ Tells(m) = {"charging"}
      BY <2>1 DEF Message, TellsCharging, TellsSetting, Tells, Acting
    <2>3. y = Trigger(z, "charging")
      BY <1>5 DEF ChargerChanged
    <2> HIDE DEF c, m
    <2>4. /\ z \in Acting /\ z.link = x.link /\ z.role = x.role /\ z.charging = c.charging
          /\ z.peerCharging = x.peerCharging /\ z.setting = x.setting
          /\ "setting" \in x.unsaid => "setting" \in z.unsaid
      BY <1>1, <2>1, <2>2, SendFacts DEF Links
    <2>5. \/ z.out = <<m>>
          \/ z.out = <<>> /\ "charging" \in z.unsaid
          \/ z.out = <<>> /\ x.link = "down" /\ z.unsaid = x.unsaid
      BY <1>1, <2>1, <2>2, SendFacts DEF Links
    <2> HIDE DEF z
    <2>6. /\ y \in Acting /\ y.link = x.link /\ y.role = x.role /\ y.charging = c.charging
          /\ y.peerCharging = x.peerCharging /\ y.setting = x.setting
          /\ y.unsaid = z.unsaid /\ y.out = z.out
      BY <2>3, <2>4, TriggerFacts
    <2>7. SaysOther(y, "setting")
      BY <2>2, <2>5, <2>6 DEF SaysOther, Says
    <2>8. ChargingEffect(x, y, Nothing)
      <3>1. CASE z.out = <<m>>
        <4>1. SaysCharging(y)
          BY <2>2, <2>6, <3>1 DEF SaysCharging, Says
        <4> QED BY <1>2, <2>6, <4>1 DEF ChargingEffect
      <3>2. CASE z.out = <<>>
        BY <1>2, <2>5, <2>6, <2>2, <3>2 DEF ChargingEffect, SaysOther
      <3> QED BY <2>5, <3>1, <3>2
    <2>9. SettingEffect(x, y, Nothing)
      BY <1>2, <2>4, <2>6, <2>7 DEF SettingEffect
    <2> QED BY <1>2, <2>6, <2>8, <2>9 DEF Effect
  <1>6. CASE y = UsrEvt(x)
    <2>1. CASE ConnectedSlave(x)
      <3> DEFINE m == [kind |-> "usr_evt", phone |-> x.phone]
      <3>1. y = Send(x, m) /\ m \in Message /\ Tells(m) = {}
        BY <1>1, <1>6, <2>1 DEF UsrEvt, Message, Tells, Acting
      <3> HIDE DEF m
      <3>2. /\ y \in Acting /\ y.link = x.link /\ y.role = x.role /\ y.charging = x.charging
            /\ y.peerCharging = x.peerCharging /\ y.setting = x.setting /\ y.unsaid = x.unsaid
            /\ y.out = <<>> \/ y.out = <<m>>
        <4>0. y = Send(x, m) /\ m \in Message
          BY <3>1
        <4>1. x.unsaid \ Tells(m) = x.unsaid /\ x.unsaid \cup Tells(m) = x.unsaid
          BY <3>1
        <4>2. /\ y \in Acting /\ y.link = x.link /\ y.role = x.role /\ y.charging = x.charging
              /\ y.peerCharging = x.peerCharging /\ y.setting = x.setting
          BY <1>1, <3>1, SendFacts
        <4>3. CASE x.link = "connected"
          <5>1. y.out = <<m>> /\ y.unsaid = x.unsaid \ Tells(m)
            BY <1>1, <4>0, <4>3, SendFacts
          <5> QED BY <4>1, <4>2, <5>1
        <4>4. CASE x.link = "switching"
          <5>1. y.out = <<>> /\ y.unsaid = x.unsaid \cup Tells(m)
            BY <1>1, <4>0, <4>4, SendFacts
          <5> QED BY <4>1, <4>2, <5>1
        <4>5. CASE x.link = "down"
          BY <1>1, <3>1, <4>2, <4>5, SendFacts
        <4> QED BY <1>1, <4>3, <4>4, <4>5 DEF Links
      <3>3. SaysOther(y, "charging") /\ SaysOther(y, "setting")
        BY <3>1, <3>2 DEF SaysOther, Says
      <3> QED BY <1>2, <3>2, <3>3 DEF Effect, ChargingEffect, SettingEffect
    <2>2. CASE ~ConnectedSlave(x)
      <3> DEFINE v == (x.setting + 1) % Settings
      <3>1. y = SetSetting(x, v) /\ v \in 0 .. Settings - 1 /\ (x.role = "slave" => x.link = "down")
        <4>1. v \in 0 .. Settings - 1 /\ (x.role = "slave" => x.link = "down")
          BY <1>1, <2>2, ToggleFacts DEF ConnectedSlave, Connected
        <4>2. y = Toggle(x)
          BY <1>6, <2>2 DEF UsrEvt, ConnectedSlave, Connected
        <4> QED BY <4>1, <4>2 DEF Toggle
      <3> HIDE DEF v
      <3>2. /\ y \in Acting /\ y.link = x.link /\ y.role = x.role /\ y.charging = x.charging
            /\ y.peerCharging = x.peerCharging /\ y.setting = v
            /\ "charging" \in x.unsaid => "charging" \in y.unsaid
            /\ SaysOther(y, "charging")
            /\ \/ SaysSetting(y) /\ y.role = "master" /\ y.link = "connected"
               \/ y.out = <<>> /\ "setting" \in y.unsaid
               \/ y.out = <<>> /\ y.unsaid = x.unsaid /\ (v = x.setting \/ x.link = "down")
        BY <1>1, <3>1, SetSettingFacts
      <3>3. ChargingEffect(x, y, Nothing)
        BY <1>2, <3>2 DEF ChargingEffect
      <3>4. SettingEffect(x, y, Nothing)
        BY <1>2, <3>2 DEF SettingEffect, SaysOther
      <3> QED BY <1>2, <3>2, <3>3, <3>4 DEF Effect
    <2> QED BY <2>1, <2>2
  <1> QED BY <1>3, <1>4, <1>5, <1>6

LEMMA HandleEffect ==
  ASSUME TypeOK, NEW x \in BudType, NEW me \in Buds, NEW h \in Items, NEW y, y = Handle(x, me, h)
  PROVE  Effect(x, y, h, me)
  <1>1. CASE h.kind = "state"
    <2>1. y = StateChanged(x, h.link)
      BY <1>1 DEF Handle
    <2> QED BY <1>1, <2>1, StateEffect
  <1> QED BY <1>1, ItemFacts, StackEffect, MessageEffect

-----------------------------------------------------------------------------
(* What the queue q of a bud x will make of it.                             *)

\* x has role r when it comes to the event at j.
RoleIs(q, role, j, r) ==
  \E m \in 0 .. j - 1 :
    /\ IF m = 0 THEN role = r ELSE q[m].kind = "role" /\ q[m].role = r
    /\ \A k \in m + 1 .. j - 1 : q[k].kind # "role"

\* It sees the link go down at d, or has already.
DownAt(q, link, d) == IF d = 0 THEN link = "down" ELSE IsDown(q[d])
EndComes(q, link) ==
  \E d \in 0 .. Len(q) : DownAt(q, link, d) /\ \A k \in d + 1 .. Len(q) : ~OfLink(q[k])

\* The event at j is the connection that is still there, so that x will tell of itself.
Restart(q, link, j) ==
  /\ j \in 1 .. Len(q) /\ IsUp(q[j])
  /\ \E d \in 0 .. j - 1 : DownAt(q, link, d) /\ \A k \in d + 1 .. j - 1 : ~OfLink(q[k])
  /\ \A k \in j + 1 .. Len(q) : ~IsDown(q[k])
Restarts(q, link) == \E j \in 1 .. Len(q) : Restart(q, link, j)
RestartsAsMaster(q, x) ==
  \E j \in 1 .. Len(q) : Restart(q, x.link, j) /\ RoleIs(q, x.role, j, "master")

\* x will believe that its peer charges or not.
KnownAt(q, x, charging, j) ==
  IF j = 0 THEN x.peerCharging = charging ELSE TellsCharging(q[j]) /\ q[j].charging = charging
Known(q, x, charging) ==
  \E j \in 0 .. Len(q) :
    KnownAt(q, x, charging, j) /\ \A k \in j + 1 .. Len(q) : ~TellsCharging(q[k])

\* x has v, or takes it from a master, and will neither take another nor be what
\* its peer knows nothing of.
FirmAt(q, x, v, j) ==
  IF j = 0 THEN x.setting = v
  ELSE TellsSetting(q[j]) /\ q[j].setting = v /\ RoleIs(q, x.role, j, "slave")
Stays(q, x, j) ==
  \A k \in j + 1 .. Len(q) :
    /\ TellsSetting(q[k]) => RoleIs(q, x.role, k, "master")
    /\ ~Restart(q, x.link, k)
Firm(q, x, v) == \E j \in 0 .. Len(q) : FirmAt(q, x, v, j) /\ Stays(q, x, j)

\* x will tell its settings, or says that it did not.
Excused(q, x) == RestartsAsMaster(q, x) \/ "setting" \in x.unsaid

\* No role, no settings, come after j.
NoRole(q, j) == \A k \in j + 1 .. Len(q) : q[k].kind # "role"
NoSetting(q, j) == \A k \in j + 1 .. Len(q) : ~TellsSetting(q[k])

\* The master, with queue r, told of itself in q, or will.
ToldAt(q, x, j) == (TellsSetting(q[j]) \/ Restart(q, x.link, j)) /\ NoRole(q, j)
Answered(q, r, y, j) ==
  \/ Excused(r, y)
  \/ \E i \in j .. Len(q) : TellsSetting(q[i]) /\ NoSetting(q, i) /\ Firm(r, y, q[i].setting)
ToldIsFirm(q, x, r, y) == \A j \in 1 .. Len(q) : ToldAt(q, x, j) => Answered(q, r, y, j)

\* A bud takes h from q or, if d = 0, does something of itself.
Takes(q, rest, d, h) ==
  /\ q \in Seq(Items) /\ rest \in Seq(Items) /\ d \in {0, 1} /\ Len(q) = Len(rest) + d
  /\ \A k \in 1 .. Len(rest) : rest[k] = q[k + d]
  /\ IF d = 1 THEN h = q[1] ELSE h = Nothing

Extends(q, q2) ==
  /\ q \in Seq(Items) /\ q2 \in Seq(Items) /\ Len(q) <= Len(q2)
  /\ \A k \in 1 .. Len(q) : q2[k] = q[k]

LEMMA TakesFacts ==
  ASSUME NEW q, NEW rest, NEW d, NEW h, Takes(q, rest, d, h)
  PROVE  /\ Len(q) \in Nat /\ Len(rest) \in Nat /\ d \in {0, 1} /\ Len(q) = Len(rest) + d
         /\ \A k \in 1 .. Len(rest) : rest[k] = q[k + d]
         /\ d = 1 => h = q[1]
         /\ d = 0 => h = Nothing
         /\ d = 0 => h.kind = "none" /\ ~OfLink(h) /\ ~IsDown(h) /\ ~IsUp(h) /\ ~TellsSetting(h)
                     /\ ~TellsCharging(h)
         /\ IsDown(h) => OfLink(h)
         /\ IsUp(h) => OfLink(h) /\ ~IsDown(h)
  BY DEF Takes, Nothing, OfLink, IsDown, IsUp, TellsSetting, TellsCharging

LEMMA RoleShift ==
  ASSUME NEW q, NEW rest, NEW d, NEW h, Takes(q, rest, d, h),
         NEW role, NEW role2, role2 = IF h.kind = "role" THEN h.role ELSE role,
         NEW j \in Nat, d < j, j <= Len(q) + 1, NEW r
  PROVE  RoleIs(q, role, j, r) <=> RoleIs(rest, role2, j - d, r)
  <1>1. /\ Len(q) \in Nat /\ Len(rest) \in Nat /\ d \in {0, 1} /\ Len(q) = Len(rest) + d
        /\ \A k \in 1 .. Len(rest) : rest[k] = q[k + d]
        /\ d = 1 => h = q[1]
        /\ d = 0 => role2 = role
    BY TakesFacts
  <1> DEFINE n == Len(q)
             l == Len(rest)
  <1> HIDE DEF n, l
  <1>2. /\ n \in Nat /\ l \in Nat /\ d \in {0, 1} /\ n = l + d
        /\ \A k \in 1 .. l : rest[k] = q[k + d]
        /\ j <= n + 1
    BY <1>1 DEF n, l
  <1>3. ASSUME RoleIs(q, role, j, r) PROVE RoleIs(rest, role2, j - d, r)
    <2>1. PICK m \in 0 .. j - 1 : /\ IF m = 0 THEN role = r ELSE q[m].kind = "role" /\ q[m].role = r
                                  /\ \A k \in m + 1 .. j - 1 : q[k].kind # "role"
      BY <1>3 DEF RoleIs
    <2> DEFINE i == IF m <= d THEN 0 ELSE m - d
    <2>0. m \in Nat /\ m < j
      BY <2>1
    <2>2. i \in 0 .. (j - d) - 1
      BY <1>2, <2>0
    <2>3. IF i = 0 THEN role2 = r ELSE rest[i].kind = "role" /\ rest[i].role = r
      BY <1>1, <1>2, <2>1
    <2>4. \A k \in i + 1 .. (j - d) - 1 : k \in 1 .. l /\ k + d \in m + 1 .. j - 1
      <3>1. TAKE k \in i + 1 .. (j - d) - 1
      <3>2. m <= i + d /\ i \in Nat
        BY <1>2, <2>0
      <3> HIDE DEF i
      <3>3. k \in Int /\ i + 1 <= k /\ k <= (j - d) - 1
        BY <1>2, <2>0, <3>1, <3>2
      <3>4. k + d >= m + 1 /\ k + d <= j - 1
        BY <1>2, <2>0, <3>2, <3>3
      <3>5. 1 <= k /\ k <= l
        BY <1>2, <2>0, <3>2, <3>3
      <3> QED BY <1>2, <2>0, <3>3, <3>4, <3>5
    <2>5. \A k \in i + 1 .. (j - d) - 1 : rest[k].kind # "role"
      BY <1>2, <2>1, <2>4
    <2> QED BY <2>2, <2>3, <2>5 DEF RoleIs
  <1>4. ASSUME RoleIs(rest, role2, j - d, r) PROVE RoleIs(q, role, j, r)
    <2>1. PICK i \in 0 .. (j - d) - 1 :
            /\ IF i = 0 THEN role2 = r ELSE rest[i].kind = "role" /\ rest[i].role = r
            /\ \A k \in i + 1 .. (j - d) - 1 : rest[k].kind # "role"
      BY <1>4 DEF RoleIs
    <2> DEFINE m == IF i = 0 /\ (d = 0 \/ h.kind # "role") THEN 0 ELSE i + d
    <2>2. m \in 0 .. j - 1
      BY <1>2, <2>1
    <2>3. IF m = 0 THEN role = r ELSE q[m].kind = "role" /\ q[m].role = r
      BY <1>1, <1>2, <2>1
    <2>4. \A k \in m + 1 .. j - 1 : q[k].kind # "role"
      <3>1. TAKE k \in m + 1 .. j - 1
      <3>2. CASE k <= d
        <4>1. k \in Int /\ m \in Nat /\ k > m
          BY <2>2, <3>1
        <4>2. m = 0 /\ k = 1 /\ d = 1
          BY <1>2, <3>2, <4>1, <2>1
        <4>3. q[1].kind # "role"
          BY <1>1, <2>1, <4>2
        <4> QED BY <4>2, <4>3
      <3>3. CASE k > d
        <4>0. i \in Nat /\ i < j - d /\ (m = 0 => i = 0) /\ (m # 0 => m = i + d)
          BY <1>2, <2>1
        <4>1. k - d \in 1 .. l /\ k - d \in i + 1 .. (j - d) - 1 /\ (k - d) + d = k
          <5> HIDE DEF m
          <5> QED BY <1>2, <2>2, <3>1, <3>3, <4>0
        <4> QED BY <1>2, <2>1, <4>1
      <3> QED BY <1>2, <3>2, <3>3
    <2> QED BY <2>2, <2>3, <2>4 DEF RoleIs
  <1> QED BY <1>3, <1>4

LEMMA RestartShift ==
  ASSUME NEW q, NEW rest, NEW d, NEW h, Takes(q, rest, d, h),
         NEW link, NEW link2,
         link2 = IF h.kind = "state" THEN h.link ELSE IF h.kind = "off" THEN "down" ELSE link,
         NEW j \in Nat, d < j
  PROVE  Restart(q, link, j) <=> Restart(rest, link2, j - d)
  <1> DEFINE n == Len(q)
             l == Len(rest)
  <1>1. /\ n \in Nat /\ l \in Nat /\ d \in {0, 1} /\ n = l + d
        /\ \A k \in 1 .. l : rest[k] = q[k + d]
        /\ d = 1 => h = q[1]
        /\ d = 0 => link2 = link /\ ~OfLink(h)
        /\ IsDown(h) => link2 = "down"
        /\ OfLink(h) /\ link2 = "down" => IsDown(h)
        /\ ~OfLink(h) => link2 = link
    BY TakesFacts DEF OfLink, IsDown, Nothing
  <1> HIDE DEF n, l
  <1>2. ASSUME Restart(q, link, j) PROVE Restart(rest, link2, j - d)
    <2>1. /\ j \in 1 .. n /\ IsUp(q[j]) /\ \A k \in j + 1 .. n : ~IsDown(q[k])
      BY <1>2 DEF Restart, n
    <2>2. PICK m \in 0 .. j - 1 : DownAt(q, link, m) /\ \A k \in m + 1 .. j - 1 : ~OfLink(q[k])
      BY <1>2 DEF Restart
    <2>3. j - d \in 1 .. l /\ IsUp(rest[j - d]) /\ \A k \in (j - d) + 1 .. l : ~IsDown(rest[k])
      <3>1. j - d \in 1 .. l /\ (j - d) + d = j
        BY <1>1, <2>1
      <3>2. \A k \in (j - d) + 1 .. l : k \in 1 .. l /\ k + d \in j + 1 .. n
        BY <1>1, <2>1
      <3> QED BY <1>1, <2>1, <3>1, <3>2
    <2> DEFINE i == IF m <= d THEN 0 ELSE m - d
    <2>4. i \in 0 .. (j - d) - 1
      BY <1>1, <2>2
    <2>5. DownAt(rest, link2, i)
      <3>1. CASE m > d
        <4>1. m - d \in 1 .. l /\ (m - d) + d = m
          BY <1>1, <2>1, <2>2, <3>1
        <4> QED BY <1>1, <2>2, <3>1, <4>1 DEF DownAt
      <3>2. CASE m <= d
        <4>1. i = 0 /\ (m = 0 \/ (m = 1 /\ d = 1))
          BY <1>1, <2>2, <3>2
        <4>2. CASE m = 0 /\ d = 1
          BY <1>1, <2>2, <4>1, <4>2 DEF DownAt
        <4> QED BY <1>1, <2>2, <4>1, <4>2 DEF DownAt
      <3> QED BY <1>1, <2>2, <3>1, <3>2
    <2>6. \A k \in i + 1 .. (j - d) - 1 : k \in 1 .. l /\ k + d \in m + 1 .. j - 1
      BY <1>1, <2>1, <2>2
    <2>7. \A k \in i + 1 .. (j - d) - 1 : ~OfLink(rest[k])
      BY <1>1, <2>2, <2>6
    <2> HIDE DEF i
    <2> QED BY <2>3, <2>4, <2>5, <2>7 DEF Restart, l
  <1>3. ASSUME Restart(rest, link2, j - d) PROVE Restart(q, link, j)
    <2>1. /\ j - d \in 1 .. l /\ IsUp(rest[j - d]) /\ \A k \in (j - d) + 1 .. l : ~IsDown(rest[k])
      BY <1>3 DEF Restart, l
    <2>2. PICK i \in 0 .. (j - d) - 1 :
            DownAt(rest, link2, i) /\ \A k \in i + 1 .. (j - d) - 1 : ~OfLink(rest[k])
      BY <1>3 DEF Restart
    <2>3. j \in 1 .. n /\ IsUp(q[j]) /\ \A k \in j + 1 .. n : ~IsDown(q[k])
      <3>1. j \in 1 .. n /\ (j - d) + d = j
        BY <1>1, <2>1
      <3>2. \A k \in j + 1 .. n : k - d \in 1 .. l /\ k - d \in (j - d) + 1 .. l /\ (k - d) + d = k
        BY <1>1, <2>1
      <3> QED BY <1>1, <2>1, <3>1, <3>2
    <2> DEFINE m == IF i = 0 /\ (d = 0 \/ ~OfLink(h)) THEN 0 ELSE i + d
    <2>4. m \in 0 .. j - 1
      BY <1>1, <2>2
    <2>5. DownAt(q, link, m)
      <3>1. CASE i = 0 /\ (d = 0 \/ ~OfLink(h))
        BY <1>1, <2>2, <3>1 DEF DownAt
      <3>2. CASE i = 0 /\ d = 1 /\ OfLink(h)
        BY <1>1, <2>2, <3>2 DEF DownAt
      <3>3. CASE i > 0
        <4>1. i \in 1 .. l /\ m = i + d /\ m # 0
          BY <1>1, <2>1, <2>2, <3>3
        <4> QED BY <1>1, <2>2, <3>3, <4>1 DEF DownAt
      <3> QED BY <1>1, <2>2, <3>1, <3>2, <3>3
    <2>6. \A k \in m + 1 .. j - 1 : ~OfLink(q[k])
      <3>1. TAKE k \in m + 1 .. j - 1
      <3>2. CASE k <= d
        BY <1>1, <2>2, <3>2
      <3>3. CASE k > d
        <4>1. k - d \in 1 .. l /\ k - d \in i + 1 .. (j - d) - 1 /\ (k - d) + d = k
          BY <1>1, <2>1, <2>2, <3>3
        <4> QED BY <1>1, <2>2, <4>1
      <3> QED BY <1>1, <3>2, <3>3
    <2> HIDE DEF m
    <2> QED BY <2>3, <2>4, <2>5, <2>6 DEF Restart, n
  <1> QED BY <1>2, <1>3

\* A queue that x has taken an event from, h; what it makes of "on" is left aside.
After(x, z, h) ==
  /\ z.link = IF h.kind = "state" THEN h.link ELSE IF h.kind = "off" THEN "down" ELSE x.link
  /\ z.role = IF h.kind = "role" THEN h.role ELSE x.role

LEMMA EndShift ==
  ASSUME NEW q, NEW rest, NEW d, NEW h, Takes(q, rest, d, h), NEW x, NEW z, After(x, z, h),
         EndComes(q, x.link)
  PROVE  EndComes(rest, z.link)
  <1> DEFINE n == Len(q)
             l == Len(rest)
  <1>1. /\ n \in Nat /\ l \in Nat /\ d \in {0, 1} /\ n = l + d
        /\ \A k \in 1 .. l : rest[k] = q[k + d]
        /\ d = 1 => h = q[1]
        /\ d = 0 => z.link = x.link /\ ~OfLink(h)
        /\ IsDown(h) => z.link = "down"
        /\ ~OfLink(h) => z.link = x.link
    BY TakesFacts DEF After, OfLink, IsDown, Nothing
  <1> HIDE DEF n, l
  <1>2. PICK m \in 0 .. n : DownAt(q, x.link, m) /\ \A k \in m + 1 .. n : ~OfLink(q[k])
    BY DEF EndComes, n
  <1> DEFINE i == IF m <= d THEN 0 ELSE m - d
  <1>3. i \in 0 .. l
    BY <1>1, <1>2
  <1>4. DownAt(rest, z.link, i)
    <2>1. CASE m > d
      <3>1. m - d \in 1 .. l /\ (m - d) + d = m
        BY <1>1, <1>2, <2>1
      <3> QED BY <1>1, <1>2, <2>1, <3>1 DEF DownAt
    <2>2. CASE m <= d
      <3>1. i = 0 /\ (m = 0 \/ (m = 1 /\ d = 1))
        BY <1>1, <1>2, <2>2
      <3>2. CASE m = 0 /\ d = 1
        <4>1. 1 \in m + 1 .. n
          BY <1>1, <3>2
        <4> QED BY <1>1, <1>2, <3>1, <3>2, <4>1 DEF DownAt
      <3> QED BY <1>1, <1>2, <3>1, <3>2 DEF DownAt
    <2> QED BY <1>1, <1>2, <2>1, <2>2
  <1>5. \A k \in i + 1 .. l : k \in 1 .. l /\ k + d \in m + 1 .. n
    BY <1>1, <1>2
  <1>6. \A k \in i + 1 .. l : ~OfLink(rest[k])
    BY <1>1, <1>2, <1>5
  <1> HIDE DEF i
  <1> QED BY <1>3, <1>4, <1>6 DEF EndComes, l

LEMMA AfterShift ==
  ASSUME NEW q, NEW rest, NEW d, NEW h, Takes(q, rest, d, h), NEW x, NEW z, After(x, z, h)
  PROVE  /\ \A j \in 1 .. Len(rest) : Restart(q, x.link, j + d) <=> Restart(rest, z.link, j)
         /\ \A j \in 1 .. Len(rest) + 1 : \A r : RoleIs(q, x.role, j + d, r) <=> RoleIs(rest, z.role, j, r)
  <1>1. Len(q) \in Nat /\ Len(rest) \in Nat /\ d \in {0, 1} /\ Len(q) = Len(rest) + d
    BY TakesFacts
  <1>2. ASSUME NEW j \in 1 .. Len(rest) PROVE Restart(q, x.link, j + d) <=> Restart(rest, z.link, j)
    <2>1. j + d \in Nat /\ d < j + d /\ (j + d) - d = j
      BY <1>1
    <2>2. z.link = IF h.kind = "state" THEN h.link ELSE IF h.kind = "off" THEN "down" ELSE x.link
      BY DEF After
    <2>3. Restart(q, x.link, j + d) <=> Restart(rest, z.link, (j + d) - d)
      BY <2>1, <2>2, RestartShift, Zenon
    <2> QED BY <2>1, <2>3
  <1>3. ASSUME NEW j \in 1 .. Len(rest) + 1, NEW r
        PROVE  RoleIs(q, x.role, j + d, r) <=> RoleIs(rest, z.role, j, r)
    <2>1. j + d \in Nat /\ d < j + d /\ (j + d) - d = j /\ j + d <= Len(q) + 1
      BY <1>1
    <2>2. z.role = IF h.kind = "role" THEN h.role ELSE x.role
      BY DEF After
    <2>3. RoleIs(q, x.role, j + d, r) <=> RoleIs(rest, z.role, (j + d) - d, r)
      BY SMTT(60), <2>1, <2>2, RoleShift, Zenon
    <2> QED BY <2>1, <2>3
  <1> QED BY <1>2, <1>3

\* A connection comes for a bud that is not linked or will not be.
RestartDue(q, link) ==
  link = "down" \/ (\E k \in 1 .. Len(q) : IsDown(q[k])) => Restarts(q, link)

LEMMA FirstRestart ==
  ASSUME NEW q, NEW link, Restart(q, link, 1)
  PROVE  IsUp(q[1]) /\ link = "down" /\ \A k \in 2 .. Len(q) : ~IsDown(q[k])
  <1>1. PICK m \in 0 .. 1 - 1 : DownAt(q, link, m)
    BY DEF Restart
  <1>2. m = 0
    BY <1>1
  <1> QED BY <1>1, <1>2 DEF Restart, DownAt

LEMMA RestartsShift ==
  ASSUME NEW q, NEW rest, NEW d, NEW h, Takes(q, rest, d, h), NEW x, NEW z, After(x, z, h)
  PROVE  /\ Restarts(q, x.link) /\ ~(IsUp(h) /\ x.link = "down") => Restarts(rest, z.link)
         /\ RestartDue(q, x.link) => RestartDue(rest, z.link)
         /\ \/ ~RestartsAsMaster(q, x) \/ RestartsAsMaster(rest, z)
            \/ IsUp(h) /\ x.link = "down" /\ x.role = "master"
  <1>1. /\ Len(q) \in Nat /\ Len(rest) \in Nat /\ d \in {0, 1} /\ Len(q) = Len(rest) + d
        /\ \A k \in 1 .. Len(rest) : rest[k] = q[k + d]
        /\ d = 1 => h = q[1]
        /\ d = 0 => z.link = x.link /\ ~OfLink(h)
        /\ IsUp(h) => OfLink(h) /\ z.link = "connected"
        /\ IsDown(h) => d = 1
        /\ OfLink(h) /\ z.link = "down" => IsDown(h)
        /\ ~OfLink(h) => z.link = x.link
    BY TakesFacts DEF After, OfLink, IsDown, IsUp, Nothing
  <1>2. ASSUME NEW j \in 1 .. Len(q), j > d
        PROVE  j - d \in 1 .. Len(rest) /\ (j - d) + d = j
    BY <1>1, <1>2
  <1>3. ASSUME NEW j \in 1 .. Len(q), Restart(q, x.link, j), j > d
        PROVE  j - d \in 1 .. Len(rest) /\ Restart(rest, z.link, j - d)
    <2>1. j - d \in 1 .. Len(rest) /\ (j - d) + d = j
      BY <1>2, <1>3
    <2>2. Restart(q, x.link, (j - d) + d)
      BY <1>3, <2>1
    <2> QED BY <2>1, <2>2, AfterShift
  <1>4. ASSUME NEW j \in 1 .. Len(q), Restart(q, x.link, j), ~(j > d)
        PROVE  /\ j = 1 /\ d = 1 /\ IsUp(h) /\ x.link = "down" /\ z.link = "connected"
               /\ \A k \in 1 .. Len(rest) : ~IsDown(rest[k])
    <2>1. j = 1 /\ d = 1
      BY <1>1, <1>4
    <2>2. IsUp(q[1]) /\ x.link = "down" /\ \A k \in 2 .. Len(q) : ~IsDown(q[k])
      BY <1>4, <2>1, FirstRestart
    <2> QED BY <1>1, <2>1, <2>2
  <1>5. Restarts(q, x.link) /\ ~(IsUp(h) /\ x.link = "down") => Restarts(rest, z.link)
    BY <1>3, <1>4 DEF Restarts
  <1>6. ASSUME RestartDue(q, x.link), z.link = "down" \/ \E k \in 1 .. Len(rest) : IsDown(rest[k])
        PROVE  Restarts(rest, z.link)
    <2>1. x.link = "down" \/ \E k \in 1 .. Len(q) : IsDown(q[k])
      <3>1. CASE z.link = "down"
        <4>1. CASE OfLink(h)
          <5>1. d = 1 /\ IsDown(q[1]) /\ 1 \in 1 .. Len(q)
            BY <1>1, <3>1, <4>1
          <5> QED BY <5>1
        <4> QED BY <1>1, <3>1, <4>1
      <3>2. ASSUME NEW k \in 1 .. Len(rest), IsDown(rest[k]) PROVE \E i \in 1 .. Len(q) : IsDown(q[i])
        <4>1. k + d \in 1 .. Len(q) /\ IsDown(q[k + d])
          BY <1>1, <3>2
        <4> QED BY <4>1
      <3> QED BY <1>6, <3>1, <3>2
    <2>2. PICK j \in 1 .. Len(q) : Restart(q, x.link, j)
      BY <1>6, <2>1 DEF RestartDue, Restarts
    <2>3. j > d
      BY <1>4, <1>6, <2>2
    <2> QED BY <1>3, <2>2, <2>3 DEF Restarts
  <1>7. ASSUME RestartsAsMaster(q, x), ~(IsUp(h) /\ x.link = "down" /\ x.role = "master")
        PROVE  RestartsAsMaster(rest, z)
    <2>1. PICK j \in 1 .. Len(q) : Restart(q, x.link, j) /\ RoleIs(q, x.role, j, "master")
      BY <1>7 DEF RestartsAsMaster
    <2>2. CASE j > d
      <3>1. j - d \in 1 .. Len(rest) /\ (j - d) + d = j /\ Restart(rest, z.link, j - d)
        BY <1>2, <1>3, <2>1, <2>2
      <3>2. j - d \in 1 .. Len(rest) + 1 /\ RoleIs(q, x.role, (j - d) + d, "master")
        BY <1>1, <2>1, <3>1
      <3>3. RoleIs(rest, z.role, j - d, "master")
        BY <3>2, AfterShift
      <3> QED BY <3>1, <3>3 DEF RestartsAsMaster
    <2>3. CASE ~(j > d)
      <3>1. j = 1 /\ IsUp(h) /\ x.link = "down"
        BY <1>4, <2>1, <2>3
      <3>2. x.role = "master"
        <4>1. PICK m \in 0 .. 1 - 1 : IF m = 0 THEN x.role = "master" ELSE q[m].kind = "role" /\ q[m].role = "master"
          BY <2>1, <3>1 DEF RoleIs
        <4> QED BY <4>1
      <3> QED BY <1>7, <3>1, <3>2
    <2> QED BY <2>2, <2>3
  <1>8. RestartDue(q, x.link) => RestartDue(rest, z.link)
    BY <1>6 DEF RestartDue
  <1> QED BY <1>5, <1>7, <1>8

LEMMA KnownShift ==
  ASSUME NEW q, NEW rest, NEW d, NEW h, Takes(q, rest, d, h), NEW x, NEW z, NEW charging,
         z.peerCharging = IF TellsCharging(h) THEN h.charging ELSE x.peerCharging,
         Known(q, x, charging)
  PROVE  Known(rest, z, charging)
  <1> DEFINE n == Len(q)
             l == Len(rest)
  <1>1. /\ n \in Nat /\ l \in Nat /\ d \in {0, 1} /\ n = l + d
        /\ \A k \in 1 .. l : rest[k] = q[k + d]
        /\ d = 1 => h = q[1]
        /\ d = 0 => ~TellsCharging(h)
    BY TakesFacts
  <1> HIDE DEF n, l
  <1>2. PICK m \in 0 .. n : KnownAt(q, x, charging, m) /\ \A k \in m + 1 .. n : ~TellsCharging(q[k])
    BY DEF Known, n
  <1> DEFINE i == IF m <= d THEN 0 ELSE m - d
  <1>3. i \in 0 .. l
    BY <1>1, <1>2
  <1>4. KnownAt(rest, z, charging, i)
    <2>1. CASE m > d
      <3>1. m - d \in 1 .. l /\ (m - d) + d = m
        BY <1>1, <1>2, <2>1
      <3> QED BY <1>1, <1>2, <2>1, <3>1 DEF KnownAt
    <2>2. CASE m <= d
      <3>1. i = 0 /\ (m = 0 \/ (m = 1 /\ d = 1))
        BY <1>1, <1>2, <2>2
      <3>2. CASE m = 0 /\ d = 1
        <4>1. 1 \in m + 1 .. n
          BY <1>1, <3>2
        <4> QED BY <1>1, <1>2, <3>1, <3>2, <4>1 DEF KnownAt
      <3> QED BY <1>1, <1>2, <3>1, <3>2 DEF KnownAt
    <2> QED BY <1>1, <1>2, <2>1, <2>2
  <1>5. \A k \in i + 1 .. l : k \in 1 .. l /\ k + d \in m + 1 .. n
    BY <1>1, <1>2
  <1>6. \A k \in i + 1 .. l : ~TellsCharging(rest[k])
    BY <1>1, <1>2, <1>5
  <1> HIDE DEF i
  <1> QED BY <1>3, <1>4, <1>6 DEF Known, l

LEMMA FirmShift ==
  ASSUME NEW q, NEW rest, NEW d, NEW h, Takes(q, rest, d, h), NEW x, NEW z, After(x, z, h), NEW v,
         Firm(q, x, v), TellsSetting(h) /\ x.role = "slave" => z.setting = h.setting,
         \/ z.setting = x.setting
         \/ TellsSetting(h) /\ x.role = "slave"
         \/ \E j \in 1 .. Len(q) : d < j /\ Restart(q, x.link, j)
  PROVE  Firm(rest, z, v)
  <1>1. /\ Len(q) \in Nat /\ Len(rest) \in Nat /\ d \in {0, 1} /\ Len(q) = Len(rest) + d
        /\ \A k \in 1 .. Len(rest) : rest[k] = q[k + d]
        /\ d = 1 => h = q[1]
        /\ d = 0 => ~TellsSetting(h)
    BY TakesFacts
  <1>2. PICK m \in 0 .. Len(q) : FirmAt(q, x, v, m) /\ Stays(q, x, m)
    BY DEF Firm
  <1>3. ASSUME NEW i \in Nat, m <= i + d PROVE Stays(rest, z, i)
    <2>1. ASSUME NEW k \in i + 1 .. Len(rest)
          PROVE  /\ TellsSetting(rest[k]) => RoleIs(rest, z.role, k, "master")
                 /\ ~Restart(rest, z.link, k)
      <3>1. k \in 1 .. Len(rest) /\ k \in 1 .. Len(rest) + 1 /\ k + d \in m + 1 .. Len(q)
        BY <1>1, <1>2, <1>3, <2>1
      <3>2. /\ TellsSetting(q[k + d]) => RoleIs(q, x.role, k + d, "master")
            /\ ~Restart(q, x.link, k + d)
        BY <1>2, <3>1 DEF Stays
      <3> QED BY <1>1, <3>1, <3>2, AfterShift
    <2> QED BY <2>1 DEF Stays
  <1>4. CASE m > d
    <2>1. m - d \in 1 .. Len(rest) /\ m - d \in 1 .. Len(rest) + 1 /\ (m - d) + d = m /\ m # 0
          /\ m - d # 0 /\ m - d \in 0 .. Len(rest) /\ m - d \in Nat
      BY <1>1, <1>2, <1>4
    <2>2. TellsSetting(q[m]) /\ q[m].setting = v /\ RoleIs(q, x.role, (m - d) + d, "slave")
      BY <1>2, <2>1 DEF FirmAt
    <2>3. RoleIs(rest, z.role, m - d, "slave")
      BY <2>1, <2>2, AfterShift
    <2>4. rest[m - d] = q[m]
      BY <1>1, <2>1
    <2>5. FirmAt(rest, z, v, m - d)
      BY <2>1, <2>2, <2>3, <2>4 DEF FirmAt
    <2>6. Stays(rest, z, m - d)
      BY <1>1, <1>2, <1>3, <2>1
    <2> QED BY <2>1, <2>5, <2>6 DEF Firm
  <1>5. CASE m <= d
    <2>1. Stays(rest, z, 0)
      BY <1>1, <1>2, <1>3, <1>5
    <2>2. ~ \E j \in 1 .. Len(q) : d < j /\ Restart(q, x.link, j)
      <3>1. ASSUME NEW j \in 1 .. Len(q), d < j PROVE ~Restart(q, x.link, j)
        <4>1. j \in m + 1 .. Len(q)
          BY <1>1, <1>2, <1>5, <3>1
        <4> QED BY <1>2, <4>1 DEF Stays
      <3> QED BY <3>1
    <2>3. z.setting = v
      <3>1. CASE m = 0 /\ d = 0
        BY <1>1, <1>2, <2>2, <3>1 DEF FirmAt
      <3>2. CASE m = 0 /\ d = 1
        <4>1. 1 \in m + 1 .. Len(q)
          BY <1>1, <3>2
        <4>2. TellsSetting(h) => RoleIs(q, x.role, 1, "master")
          BY <1>1, <1>2, <3>2, <4>1 DEF Stays
        <4>3. TellsSetting(h) => x.role = "master"
          <5>1. SUFFICES ASSUME RoleIs(q, x.role, 1, "master") PROVE x.role = "master"
            BY <4>2
          <5>2. PICK i \in 0 .. 1 - 1 :
                  IF i = 0 THEN x.role = "master" ELSE q[i].kind = "role" /\ q[i].role = "master"
            BY <5>1 DEF RoleIs
          <5> QED BY <5>2
        <4> QED BY <1>2, <2>2, <3>2, <4>3 DEF FirmAt
      <3>3. CASE m = 1 /\ d = 1
        <4>1. TellsSetting(h) /\ h.setting = v /\ RoleIs(q, x.role, 1, "slave")
          BY <1>1, <1>2, <3>3 DEF FirmAt
        <4>2. x.role = "slave"
          <5>1. PICK i \in 0 .. 1 - 1 :
                  IF i = 0 THEN x.role = "slave" ELSE q[i].kind = "role" /\ q[i].role = "slave"
            BY <4>1 DEF RoleIs
          <5> QED BY <5>1
        <4> QED BY <4>1, <4>2
      <3> QED BY <1>1, <1>2, <1>5, <3>1, <3>2, <3>3
    <2>4. FirmAt(rest, z, v, 0) /\ 0 \in 0 .. Len(rest)
      BY <1>1, <2>3 DEF FirmAt
    <2> QED BY <2>1, <2>4 DEF Firm
  <1> QED BY <1>1, <1>2, <1>4, <1>5

LEMMA ToldShift ==
  ASSUME NEW q, NEW rest, NEW d, NEW h, Takes(q, rest, d, h), NEW x, NEW z, After(x, z, h),
         NEW r, NEW y, ToldIsFirm(q, x, r, y)
  PROVE  ToldIsFirm(rest, z, r, y)
  <1>1. /\ Len(q) \in Nat /\ Len(rest) \in Nat /\ d \in {0, 1} /\ Len(q) = Len(rest) + d
        /\ \A k \in 1 .. Len(rest) : rest[k] = q[k + d]
    BY TakesFacts
  <1>2. ASSUME NEW k \in 1 .. Len(q), k > d
        PROVE  k - d \in 1 .. Len(rest) /\ (k - d) + d = k /\ rest[k - d] = q[k]
    BY <1>1, <1>2
  <1>3. SUFFICES ASSUME NEW j \in 1 .. Len(rest), ToldAt(rest, z, j) PROVE Answered(rest, r, y, j)
    BY DEF ToldIsFirm
  <1>4. j + d \in 1 .. Len(q) /\ q[j + d] = rest[j]
    BY <1>1, <1>3
  <1>5. NoRole(q, j + d)
    <2>1. ASSUME NEW k \in (j + d) + 1 .. Len(q) PROVE q[k].kind # "role"
      <3>1. k \in 1 .. Len(q) /\ k > d /\ k - d \in j + 1 .. Len(rest)
        BY <1>1, <1>3, <2>1
      <3> QED BY <1>2, <1>3, <3>1 DEF ToldAt, NoRole
    <2> QED BY <2>1 DEF NoRole
  <1>6. ToldAt(q, x, j + d)
    BY <1>3, <1>4, <1>5, AfterShift DEF ToldAt
  <1>7. Answered(q, r, y, j + d)
    BY <1>4, <1>6 DEF ToldIsFirm
  <1>8. ASSUME NEW i \in j + d .. Len(q), TellsSetting(q[i]), NoSetting(q, i), Firm(r, y, q[i].setting)
        PROVE  Answered(rest, r, y, j)
    <2>1. i \in 1 .. Len(q) /\ i > d /\ i - d \in j .. Len(rest) /\ i - d \in 1 .. Len(rest)
      BY <1>1, <1>3, <1>8
    <2>2. rest[i - d] = q[i]
      BY <1>2, <2>1
    <2>3. ASSUME NEW k \in (i - d) + 1 .. Len(rest) PROVE ~TellsSetting(rest[k])
      <3>1. k \in 1 .. Len(rest) /\ k + d \in i + 1 .. Len(q)
        BY <1>1, <2>1, <2>3
      <3> QED BY <1>1, <1>8, <3>1 DEF NoSetting
    <2> QED BY <1>8, <2>1, <2>2, <2>3 DEF Answered, NoSetting
  <1> QED BY <1>7, <1>8 DEF Answered

LEMMA ToldAnswer ==
  ASSUME NEW q, NEW x, NEW r, NEW y, NEW r2, NEW y2, ToldIsFirm(q, x, r, y),
         Excused(r, y) => Excused(r2, y2),
         \A v : Firm(r, y, v) => Firm(r2, y2, v) \/ Excused(r2, y2)
  PROVE  ToldIsFirm(q, x, r2, y2)
  BY DEF ToldIsFirm, Answered

-----------------------------------------------------------------------------
(* Queues that grow, by events that do not end the link.                    *)

Grows(q, q2) == Extends(q, q2) /\ \A k \in Len(q) + 1 .. Len(q2) : ~IsDown(q2[k])

LEMMA ExtendsFacts ==
  ASSUME NEW q, NEW q2, Extends(q, q2)
  PROVE  /\ Len(q) \in Nat /\ Len(q2) \in Nat /\ Len(q) <= Len(q2)
         /\ \A k \in 1 .. Len(q) : q2[k] = q[k]
         /\ \A k \in 1 .. Len(q2) : k \in 1 .. Len(q) \/ k \in Len(q) + 1 .. Len(q2)
         /\ \A k \in 1 .. Len(q) : k \in 1 .. Len(q2)
         /\ \A k \in 0 .. Len(q) : k \in 0 .. Len(q2)
  <1>1. /\ Len(q) \in Nat /\ Len(q2) \in Nat /\ Len(q) <= Len(q2)
        /\ \A k \in 1 .. Len(q) : q2[k] = q[k]
    BY DEF Extends
  <1> QED BY <1>1

LEMMA RoleExtend ==
  ASSUME NEW q, NEW q2, Extends(q, q2), NEW role, NEW r
  PROVE  /\ \A j \in 1 .. Len(q) + 1 : RoleIs(q2, role, j, r) <=> RoleIs(q, role, j, r)
         /\ \A j \in Len(q) + 1 .. Len(q2) + 1 :
              RoleIs(q, role, Len(q) + 1, r) /\ (\A k \in Len(q) + 1 .. j - 1 : q2[k].kind # "role")
                => RoleIs(q2, role, j, r)
  <1> DEFINE n == Len(q)
  <1>1. n \in Nat /\ \A k \in 1 .. n : q2[k] = q[k]
    BY ExtendsFacts
  <1> HIDE DEF n
  <1>2. ASSUME NEW j \in 1 .. n + 1 PROVE RoleIs(q2, role, j, r) <=> RoleIs(q, role, j, r)
    <2>1. ASSUME NEW m \in 0 .. j - 1 PROVE m = 0 \/ q2[m] = q[m]
      BY <1>1, <1>2
    <2>2. ASSUME NEW m \in 0 .. j - 1, NEW k \in m + 1 .. j - 1 PROVE q2[k] = q[k]
      BY <1>1, <1>2
    <2> QED BY <2>1, <2>2 DEF RoleIs
  <1>3. ASSUME NEW j \in n + 1 .. Len(q2) + 1, RoleIs(q, role, n + 1, r),
               \A k \in n + 1 .. j - 1 : q2[k].kind # "role"
        PROVE  RoleIs(q2, role, j, r)
    <2>1. PICK m \in 0 .. (n + 1) - 1 : /\ IF m = 0 THEN role = r ELSE q[m].kind = "role" /\ q[m].role = r
                                       /\ \A k \in m + 1 .. (n + 1) - 1 : q[k].kind # "role"
      BY <1>3 DEF RoleIs
    <2>2. m \in 0 .. j - 1 /\ (m = 0 \/ q2[m] = q[m])
      BY <1>1, <1>3
    <2>3. ASSUME NEW k \in m + 1 .. j - 1 PROVE q2[k].kind # "role"
      <3>1. CASE k <= n
        <4>1. k \in m + 1 .. (n + 1) - 1 /\ k \in 1 .. n
          BY <1>1, <2>3, <3>1
        <4> QED BY <1>1, <2>1, <4>1
      <3>2. CASE k > n
        <4>1. k \in n + 1 .. j - 1
          BY <1>1, <1>3, <2>3, <3>2
        <4> QED BY <1>3, <4>1
      <3> QED BY <1>1, <2>3, <3>1, <3>2
    <2> QED BY <2>1, <2>2, <2>3 DEF RoleIs
  <1> QED BY <1>2, <1>3 DEF n

LEMMA RestartGrows ==
  ASSUME NEW q, NEW q2, Grows(q, q2), NEW link, RestartDue(q, link)
  PROVE  /\ \A j \in 1 .. Len(q2) : Restart(q2, link, j) <=> j \in 1 .. Len(q) /\ Restart(q, link, j)
         /\ RestartDue(q2, link)
  <1> DEFINE n == Len(q)
             n2 == Len(q2)
  <1>1. /\ n \in Nat /\ n2 \in Nat /\ n <= n2
        /\ \A k \in 1 .. n : q2[k] = q[k]
        /\ \A k \in n + 1 .. n2 : ~IsDown(q2[k])
    BY ExtendsFacts DEF Grows
  <1> HIDE DEF n, n2
  <1>2. ASSUME NEW j \in 1 .. n, Restart(q, link, j) PROVE Restart(q2, link, j)
    <2>1. IsUp(q[j]) /\ \A k \in j + 1 .. n : ~IsDown(q[k])
      BY <1>2 DEF Restart, n
    <2>2. PICK m \in 0 .. j - 1 : DownAt(q, link, m) /\ \A k \in m + 1 .. j - 1 : ~OfLink(q[k])
      BY <1>2 DEF Restart
    <2>3. j \in 1 .. n2 /\ IsUp(q2[j])
      BY <1>1, <1>2, <2>1
    <2>4. DownAt(q2, link, m)
      <3>1. m = 0 \/ m \in 1 .. n
        BY <1>1, <1>2
      <3> QED BY <1>1, <2>2, <3>1 DEF DownAt
    <2>5. \A k \in m + 1 .. j - 1 : ~OfLink(q2[k])
      <3>1. \A k \in m + 1 .. j - 1 : k \in 1 .. n
        BY <1>1, <1>2
      <3> QED BY <1>1, <2>2, <3>1
    <2>6. \A k \in j + 1 .. n2 : ~IsDown(q2[k])
      <3>1. \A k \in j + 1 .. n2 : (k \in j + 1 .. n /\ k \in 1 .. n) \/ k \in n + 1 .. n2
        BY <1>1, <1>2
      <3> QED BY <1>1, <2>1, <3>1
    <2> QED BY <2>3, <2>4, <2>5, <2>6 DEF Restart, n2
  <1>3. ASSUME NEW j \in 1 .. n2, Restart(q2, link, j) PROVE j \in 1 .. n /\ Restart(q, link, j)
    <2>1. IsUp(q2[j]) /\ \A k \in j + 1 .. n2 : ~IsDown(q2[k])
      BY <1>3 DEF Restart, n2
    <2>2. PICK m \in 0 .. j - 1 : DownAt(q2, link, m) /\ \A k \in m + 1 .. j - 1 : ~OfLink(q2[k])
      BY <1>3 DEF Restart
    <2>3. m = 0 \/ m \in 1 .. n
      <3>1. m = 0 \/ m \in 1 .. n \/ m \in n + 1 .. n2
        BY <1>1, <1>3
      <3> QED BY <1>1, <2>2, <3>1 DEF DownAt
    <2>4. DownAt(q, link, m)
      BY <1>1, <2>2, <2>3 DEF DownAt
    <2>5. j <= n
      <3>1. SUFFICES ASSUME j > n PROVE FALSE
        BY <1>1, <1>3
      <3>2. link = "down" \/ \E k \in 1 .. n : IsDown(q[k])
        BY <2>3, <2>4 DEF DownAt
      <3>3. PICK i \in 1 .. n : Restart(q, link, i)
        BY <3>2 DEF RestartDue, Restarts, n
      <3>4. IsUp(q[i]) /\ \A k \in i + 1 .. n : ~IsDown(q[k])
        BY <3>3 DEF Restart, n
      <3>5. CASE m < i
        <4>1. i \in m + 1 .. j - 1
          BY <1>1, <1>3, <3>1, <3>5
        <4>2. ~OfLink(q2[i])
          BY <2>2, <4>1
        <4> QED BY <1>1, <3>4, <4>2 DEF OfLink, IsUp
      <3>6. CASE m = i
        <4>1. IsDown(q[m])
          BY <2>4, <3>6 DEF DownAt
        <4> QED BY <3>4, <3>6, <4>1 DEF IsDown, IsUp
      <3>7. CASE m > i
        <4>1. m \in i + 1 .. n /\ m # 0
          BY <1>1, <2>3, <3>7
        <4> QED BY <2>4, <3>4, <4>1 DEF DownAt
      <3> QED BY <1>1, <3>5, <3>6, <3>7
    <2>6. j \in 1 .. n
      BY <1>1, <1>3, <2>5
    <2>7. IsUp(q[j]) /\ \A k \in m + 1 .. j - 1 : ~OfLink(q[k])
      <3>1. \A k \in m + 1 .. j - 1 : k \in 1 .. n
        BY <1>1, <2>6
      <3> QED BY <1>1, <2>1, <2>2, <2>6, <3>1
    <2>8. \A k \in j + 1 .. n : ~IsDown(q[k])
      <3>1. \A k \in j + 1 .. n : k \in 1 .. n /\ k \in j + 1 .. n2
        BY <1>1, <2>6
      <3> QED BY <1>1, <2>1, <3>1
    <2> QED BY <2>4, <2>6, <2>7, <2>8 DEF Restart, n
  <1>4. RestartDue(q2, link)
    <2>1. SUFFICES ASSUME link = "down" \/ \E k \in 1 .. n2 : IsDown(q2[k]) PROVE Restarts(q2, link)
      BY DEF RestartDue, n2
    <2>2. link = "down" \/ \E k \in 1 .. n : IsDown(q[k])
      <3>1. \A k \in 1 .. n2 : k \in 1 .. n \/ k \in n + 1 .. n2
        BY <1>1
      <3> QED BY <1>1, <2>1, <3>1
    <2>3. PICK j \in 1 .. n : Restart(q, link, j)
      BY <2>2 DEF RestartDue, Restarts, n
    <2>4. j \in 1 .. n2 /\ Restart(q2, link, j)
      BY <1>1, <1>2, <2>3
    <2> QED BY <2>4 DEF Restarts, n2
  <1> QED BY <1>1, <1>2, <1>3, <1>4 DEF n, n2

LEMMA ExcusedGrows ==
  ASSUME NEW q, NEW q2, Grows(q, q2), NEW x, RestartDue(q, x.link)
  PROVE  /\ Restarts(q, x.link) => Restarts(q2, x.link)
         /\ RestartsAsMaster(q, x) => RestartsAsMaster(q2, x)
         /\ Excused(q, x) => Excused(q2, x)
  <1>1. /\ \A k \in 1 .. Len(q) : k \in 1 .. Len(q2) /\ k \in 1 .. Len(q) + 1
        /\ \A k \in 1 .. Len(q) : Restart(q, x.link, k) => Restart(q2, x.link, k)
    BY ExtendsFacts, RestartGrows DEF Grows
  <1>2. Restarts(q, x.link) => Restarts(q2, x.link)
    BY <1>1 DEF Restarts
  <1>3. RestartsAsMaster(q, x) => RestartsAsMaster(q2, x)
    BY <1>1, RoleExtend DEF RestartsAsMaster, Grows
  <1> QED BY <1>2, <1>3 DEF Excused

LEMMA KnownGrows ==
  ASSUME NEW q, NEW q2, Extends(q, q2), NEW x, NEW charging
  PROVE  /\ Known(q, x, charging) /\ (\A k \in Len(q) + 1 .. Len(q2) : ~TellsCharging(q2[k]))
              => Known(q2, x, charging)
         /\ \A k \in 1 .. Len(q2) : k = Len(q2) /\ TellsCharging(q2[k]) /\ q2[k].charging = charging
              => Known(q2, x, charging)
  <1>1. /\ Len(q) \in Nat /\ Len(q2) \in Nat /\ Len(q) <= Len(q2)
        /\ \A k \in 1 .. Len(q) : q2[k] = q[k]
    BY ExtendsFacts
  <1>2. ASSUME Known(q, x, charging), \A k \in Len(q) + 1 .. Len(q2) : ~TellsCharging(q2[k])
        PROVE  Known(q2, x, charging)
    <2>1. PICK j \in 0 .. Len(q) : KnownAt(q, x, charging, j) /\ \A k \in j + 1 .. Len(q) : ~TellsCharging(q[k])
      BY <1>2 DEF Known
    <2>2. j \in 0 .. Len(q2) /\ (j = 0 \/ q2[j] = q[j])
      BY <1>1
    <2>3. ASSUME NEW k \in j + 1 .. Len(q2) PROVE ~TellsCharging(q2[k])
      <3>1. (k \in j + 1 .. Len(q) /\ k \in 1 .. Len(q)) \/ k \in Len(q) + 1 .. Len(q2)
        BY <1>1, <2>3
      <3> QED BY <1>1, <1>2, <2>1, <3>1
    <2> QED BY <2>1, <2>2, <2>3 DEF Known, KnownAt
  <1>3. ASSUME NEW j \in 1 .. Len(q2), j = Len(q2), TellsCharging(q2[j]), q2[j].charging = charging
        PROVE  Known(q2, x, charging)
    <2>1. j \in 0 .. Len(q2) /\ j # 0 /\ j + 1 .. Len(q2) = {}
      BY <1>1, <1>3
    <2> QED BY <1>3, <2>1 DEF Known, KnownAt
  <1> QED BY <1>2, <1>3

LEMMA FirmGrows ==
  ASSUME NEW q, NEW q2, Grows(q, q2), NEW x, RestartDue(q, x.link), NEW v, Firm(q, x, v),
         \A k \in Len(q) + 1 .. Len(q2) : TellsSetting(q2[k]) => RoleIs(q2, x.role, k, "master")
  PROVE  Firm(q2, x, v)
  <1>1. /\ Len(q) \in Nat /\ Len(q2) \in Nat /\ Len(q) <= Len(q2)
        /\ \A k \in 1 .. Len(q) : q2[k] = q[k]
    BY ExtendsFacts DEF Grows
  <1>2. PICK j \in 0 .. Len(q) : FirmAt(q, x, v, j) /\ Stays(q, x, j)
    BY DEF Firm
  <1>3. j \in 0 .. Len(q2) /\ (j = 0 \/ (j \in 1 .. Len(q) /\ j \in 1 .. Len(q) + 1))
    BY <1>1
  <1>4. \A k \in 1 .. Len(q) + 1 : \A r : RoleIs(q2, x.role, k, r) <=> RoleIs(q, x.role, k, r)
    BY RoleExtend DEF Grows
  <1>5. FirmAt(q2, x, v, j)
    BY <1>1, <1>2, <1>3, <1>4 DEF FirmAt
  <1>6. ASSUME NEW k \in j + 1 .. Len(q2)
        PROVE  /\ TellsSetting(q2[k]) => RoleIs(q2, x.role, k, "master")
               /\ ~Restart(q2, x.link, k)
    <2>1. CASE k \in 1 .. Len(q)
      <3>1. k \in j + 1 .. Len(q) /\ k \in 1 .. Len(q) + 1 /\ k \in 1 .. Len(q2)
        BY <1>1, <1>6, <2>1
      <3>2. (TellsSetting(q[k]) => RoleIs(q, x.role, k, "master")) /\ ~Restart(q, x.link, k)
        BY <1>2, <3>1 DEF Stays
      <3>3. ~Restart(q2, x.link, k)
        BY <3>1, <3>2, RestartGrows
      <3> QED BY <1>1, <1>4, <2>1, <3>1, <3>2, <3>3
    <2>2. CASE k \notin 1 .. Len(q)
      <3>1. k \in Len(q) + 1 .. Len(q2) /\ k \in 1 .. Len(q2)
        BY <1>1, <1>6, <2>2
      <3>2. ~Restart(q2, x.link, k)
        BY <2>2, <3>1, RestartGrows
      <3> QED BY <3>1, <3>2
    <2> QED BY <2>1, <2>2
  <1> QED BY <1>3, <1>5, <1>6 DEF Firm, Stays

\* The slave will have what the master has just said.
LEMMA FirmNew ==
  ASSUME NEW q, NEW q2, Grows(q, q2), NEW x, RestartDue(q, x.link), Len(q2) = Len(q) + 1,
         TellsSetting(q2[Len(q2)]), RoleIs(q, x.role, Len(q) + 1, "slave")
  PROVE  Firm(q2, x, q2[Len(q2)].setting)
  <1>1. Len(q) \in Nat /\ Len(q2) \in Nat
    BY ExtendsFacts DEF Grows
  <1>2. Len(q2) \in 0 .. Len(q2) /\ Len(q2) # 0 /\ Len(q2) + 1 .. Len(q2) = {}
        /\ Len(q2) \in 1 .. Len(q) + 1
    BY <1>1
  <1>3. RoleIs(q2, x.role, Len(q2), "slave")
    BY <1>2, RoleExtend DEF Grows
  <1> QED BY <1>2, <1>3 DEF Firm, FirmAt, Stays

LEMMA ToldGrows ==
  ASSUME NEW q, NEW q2, Grows(q, q2), NEW x, RestartDue(q, x.link), NEW r, NEW y,
         ToldIsFirm(q, x, r, y),
         \A k \in Len(q) + 1 .. Len(q2) : ~TellsSetting(q2[k])
  PROVE  ToldIsFirm(q2, x, r, y)
  <1>1. /\ Len(q) \in Nat /\ Len(q2) \in Nat /\ Len(q) <= Len(q2)
        /\ \A k \in 1 .. Len(q) : q2[k] = q[k]
    BY ExtendsFacts DEF Grows
  <1>2. SUFFICES ASSUME NEW j \in 1 .. Len(q2), ToldAt(q2, x, j) PROVE Answered(q2, r, y, j)
    BY DEF ToldIsFirm
  <1>3. j \in 1 .. Len(q) /\ (TellsSetting(q[j]) \/ Restart(q, x.link, j))
    <2>1. j \in 1 .. Len(q) \/ j \in Len(q) + 1 .. Len(q2)
      BY <1>1
    <2>2. CASE TellsSetting(q2[j])
      BY <1>1, <2>1, <2>2
    <2>3. CASE Restart(q2, x.link, j)
      BY <2>3, RestartGrows
    <2> QED BY <1>2, <2>2, <2>3 DEF ToldAt
  <1>4. NoRole(q, j)
    <2>1. ASSUME NEW k \in j + 1 .. Len(q) PROVE q[k].kind # "role"
      <3>1. k \in 1 .. Len(q) /\ k \in j + 1 .. Len(q2)
        BY <1>1, <1>3, <2>1
      <3> QED BY <1>1, <1>2, <3>1 DEF ToldAt, NoRole
    <2> QED BY <2>1 DEF NoRole
  <1>5. Answered(q, r, y, j)
    BY <1>3, <1>4 DEF ToldIsFirm, ToldAt
  <1>6. ASSUME NEW i \in j .. Len(q), TellsSetting(q[i]), NoSetting(q, i), Firm(r, y, q[i].setting)
        PROVE  Answered(q2, r, y, j)
    <2>1. i \in j .. Len(q2) /\ i \in 1 .. Len(q)
      BY <1>1, <1>3, <1>6
    <2>2. ASSUME NEW k \in i + 1 .. Len(q2) PROVE ~TellsSetting(q2[k])
      <3>1. (k \in i + 1 .. Len(q) /\ k \in 1 .. Len(q)) \/ k \in Len(q) + 1 .. Len(q2)
        BY <1>1, <2>1, <2>2
      <3> QED BY <1>1, <1>6, <3>1 DEF NoSetting
    <2> QED BY <1>1, <1>6, <2>1, <2>2 DEF Answered, NoSetting
  <1> QED BY <1>5, <1>6 DEF Answered

-----------------------------------------------------------------------------
(* A bud that tells its settings, and one that does not.                    *)

\* What a handler says, at the end of the peer's queue.
Said(q, out, q2) == q \in Seq(Items) /\ out \in Outs /\ q2 = q \o out

Joins(q, out, q2) ==
  /\ Grows(q, q2)
  /\ \A k \in Len(q) + 1 .. Len(q2) :
       ~OfLink(q2[k]) /\ q2[k].kind # "role" /\ k = Len(q2) /\ out = <<q2[k]>>
  /\ out = <<>> => q2 = q
  /\ out # <<>> => Len(q2) = Len(q) + 1
  /\ \A m : out = <<m>> => Len(q2) = Len(q) + 1 /\ q2[Len(q2)] = m

LEMMA OutGrows ==
  ASSUME NEW q, NEW out, NEW q2, Said(q, out, q2)
  PROVE  Joins(q, out, q2)
  <1>1. q \in Seq(Items) /\ out \in Outs /\ q2 = q \o out /\ Len(q) \in Nat
    BY DEF Said
  <1>2. CASE out = <<>>
    <2>1. q2 = q
      BY <1>1, <1>2, ConcatEmptySeq
    <2>2. \A m : out # <<m>>
      BY <1>2
    <2>3. Len(q) + 1 .. Len(q2) = {}
      BY <1>1, <2>1
    <2>4. Extends(q, q2)
      BY <1>1, <2>1 DEF Extends
    <2>5. Grows(q, q2)
      BY <2>3, <2>4 DEF Grows
    <2> QED BY <1>2, <2>1, <2>2, <2>3, <2>5 DEF Joins
  <1>3. ASSUME NEW m \in Message, out = <<m>> PROVE Joins(q, out, q2)
    <2>1. m \in Items /\ ~OfLink(m) /\ ~IsDown(m) /\ m.kind # "role"
      BY <1>3 DEF Items, Message, OfLink, IsDown
    <2>2. q2 = Append(q, m)
      BY <1>1, <1>3, <2>1, AppendIsConcat
    <2>3. /\ q2 \in Seq(Items) /\ Len(q2) = Len(q) + 1 /\ q2[Len(q) + 1] = m
          /\ \A k \in 1 .. Len(q) : q2[k] = q[k]
      BY <1>1, <2>1, <2>2, AppendProperties
    <2> DEFINE n == Len(q)
               l == Len(q2)
    <2>4. n \in Nat /\ l = n + 1 /\ q2[n + 1] = m /\ q2[l] = m
      BY <1>1, <2>3
    <2>5. Extends(q, q2)
      BY <1>1, <2>3 DEF Extends
    <2> HIDE DEF n, l
    <2>6. n <= l /\ \A k \in n + 1 .. l : k = l
      BY <2>4
    <2>7. \A k \in n + 1 .. l : q2[k] = m
      BY <2>4, <2>6
    <2>8. Grows(q, q2)
      BY <2>1, <2>5, <2>7 DEF Grows, n, l
    <2>9. out # <<>> /\ \A k : out = <<k>> => k = m
      BY <1>3
    <2>10. \A k \in Len(q) + 1 .. Len(q2) :
             ~OfLink(q2[k]) /\ q2[k].kind # "role" /\ k = Len(q2) /\ out = <<q2[k]>>
      BY <1>3, <2>1, <2>6, <2>7 DEF n, l
    <2>11. Len(q2) = Len(q) + 1 /\ q2[Len(q2)] = m
      BY <2>4 DEF n, l
    <2> QED BY <2>8, <2>9, <2>10, <2>11 DEF Joins
  <1>4. out # <<>> => \E m \in Message : out = <<m>>
    BY <1>1 DEF Outs
  <1> QED BY <1>2, <1>3, <1>4

\* The stack's state as "on" finds it.
LEMMA Relink ==
  ASSUME NEW q \in Seq(Items), NEW x, NEW x1, NEW r, NEW y
  PROVE  /\ RoleIs(q, x.role, Len(q) + 1, x1.role) => RoleIs(q, x1.role, Len(q) + 1, x1.role)
         /\ x1.link = "down" /\ EndComes(q, x.link) => EndComes(q, x1.link)
         /\ x1.link # "down" /\ RestartDue(q, x.link) => RestartDue(q, x1.link)
         /\ x1.link # "down" /\ ToldIsFirm(q, x, r, y) => ToldIsFirm(q, x1, r, y)
  <1> DEFINE n == Len(q)
  <1>0. n \in Nat
    OBVIOUS
  <1> HIDE DEF n
  <1>1. ASSUME RoleIs(q, x.role, n + 1, x1.role) PROVE RoleIs(q, x1.role, n + 1, x1.role)
    <2>1. PICK m \in 0 .. (n + 1) - 1 :
            /\ IF m = 0 THEN x.role = x1.role ELSE q[m].kind = "role" /\ q[m].role = x1.role
            /\ \A k \in m + 1 .. (n + 1) - 1 : q[k].kind # "role"
      BY <1>1 DEF RoleIs
    <2> QED BY <2>1 DEF RoleIs
  <1>2. ASSUME x1.link = "down", EndComes(q, x.link) PROVE EndComes(q, x1.link)
    BY <1>2 DEF EndComes, DownAt
  <1>3. ASSUME NEW j, x1.link # "down", Restart(q, x1.link, j) PROVE Restart(q, x.link, j)
    <2>1. PICK m \in 0 .. j - 1 : DownAt(q, x1.link, m) /\ \A k \in m + 1 .. j - 1 : ~OfLink(q[k])
      BY <1>3 DEF Restart
    <2>2. m # 0
      BY <1>3, <2>1 DEF DownAt
    <2> QED BY <1>3, <2>1, <2>2 DEF Restart, DownAt
  <1>4. ASSUME x1.link # "down", RestartDue(q, x.link) PROVE RestartDue(q, x1.link)
    <2>1. SUFFICES ASSUME NEW k \in 1 .. n, IsDown(q[k]) PROVE Restarts(q, x1.link)
      BY <1>4 DEF RestartDue, n
    <2>2. PICK j \in 1 .. n : Restart(q, x.link, j)
      BY <1>4, <2>1 DEF RestartDue, Restarts, n
    <2>3. IsUp(q[j]) /\ \A i \in j + 1 .. n : ~IsDown(q[i])
      BY <2>2 DEF Restart, n
    <2>4. k < j
      <3>1. k # j
        BY <2>1, <2>3 DEF IsUp, IsDown
      <3>2. k \notin j + 1 .. n
        BY <2>1, <2>3
      <3> QED BY <1>0, <2>1, <2>2, <3>1, <3>2
    <2>5. PICK m \in 0 .. j - 1 : DownAt(q, x.link, m) /\ \A i \in m + 1 .. j - 1 : ~OfLink(q[i])
      BY <2>2 DEF Restart
    <2>6. m # 0
      <3>1. k \notin m + 1 .. j - 1
        BY <2>1, <2>5 DEF OfLink, IsDown
      <3> QED BY <1>0, <2>1, <2>4, <3>1
    <2>7. Restart(q, x1.link, j)
      BY <2>2, <2>5, <2>6 DEF Restart, DownAt
    <2> QED BY <2>2, <2>7 DEF Restarts, n
  <1>5. ASSUME x1.link # "down", ToldIsFirm(q, x, r, y) PROVE ToldIsFirm(q, x1, r, y)
    BY <1>3, <1>5 DEF ToldIsFirm, ToldAt
  <1> QED BY <1>1, <1>2, <1>4, <1>5 DEF n

LEMMA RoleNow ==
  ASSUME NEW q \in Seq(Items), NEW role, NEW r
  PROVE  /\ NoRole(q, 0) /\ RoleIs(q, role, Len(q) + 1, r) => role = r
         /\ NoRole(q, 0) => \A k \in 1 .. Len(q) + 1 : RoleIs(q, role, k, role)
         /\ \A k \in 1 .. Len(q) : RoleIs(q, role, Len(q) + 1, r) /\ NoRole(q, k) /\ q[k].kind # "role"
              => RoleIs(q, role, k, r)
  <1> DEFINE n == Len(q)
  <1>0. n \in Nat
    OBVIOUS
  <1> HIDE DEF n
  <1>1. ASSUME RoleIs(q, role, n + 1, r)
        PROVE  \E m \in 0 .. n : /\ IF m = 0 THEN role = r ELSE q[m].kind = "role" /\ q[m].role = r
                                 /\ \A i \in m + 1 .. n : q[i].kind # "role"
    <2>1. PICK m \in 0 .. (n + 1) - 1 :
            /\ IF m = 0 THEN role = r ELSE q[m].kind = "role" /\ q[m].role = r
            /\ \A i \in m + 1 .. (n + 1) - 1 : q[i].kind # "role"
      BY <1>1 DEF RoleIs
    <2>2. (n + 1) - 1 = n
      BY <1>0
    <2> QED BY <2>1, <2>2
  <1>2. ASSUME NoRole(q, 0), RoleIs(q, role, n + 1, r) PROVE role = r
    <2>1. PICK m \in 0 .. n : IF m = 0 THEN role = r ELSE q[m].kind = "role" /\ q[m].role = r
      BY <1>1, <1>2
    <2>2. m = 0 \/ m \in 0 + 1 .. n
      BY <1>0
    <2>3. \A k \in 0 + 1 .. n : q[k].kind # "role"
      BY <1>2 DEF NoRole, n
    <2> QED BY <2>1, <2>2, <2>3
  <1>3. ASSUME NoRole(q, 0), NEW k \in 1 .. n + 1 PROVE RoleIs(q, role, k, role)
    <2>1. 0 \in 0 .. k - 1 /\ \A i \in 0 + 1 .. k - 1 : i \in 0 + 1 .. n
      BY <1>0, <1>3
    <2>2. \A i \in 0 + 1 .. k - 1 : q[i].kind # "role"
      BY <1>3, <2>1 DEF NoRole, n
    <2> QED BY <2>1, <2>2 DEF RoleIs
  <1>4. ASSUME NEW k \in 1 .. n, RoleIs(q, role, n + 1, r), NoRole(q, k), q[k].kind # "role"
        PROVE  RoleIs(q, role, k, r)
    <2>1. PICK m \in 0 .. n : /\ IF m = 0 THEN role = r ELSE q[m].kind = "role" /\ q[m].role = r
                              /\ \A i \in m + 1 .. n : q[i].kind # "role"
      BY <1>1, <1>4
    <2>2. m < k
      <3>1. SUFFICES ASSUME m >= k PROVE FALSE
        BY <1>0
      <3>2. m = k \/ m \in k + 1 .. n
        BY <1>0, <3>1
      <3>3. q[m].kind # "role"
        BY <1>4, <3>2 DEF NoRole, n
      <3> QED BY <1>0, <2>1, <3>1, <3>3
    <2>3. m \in 0 .. k - 1 /\ \A i \in m + 1 .. k - 1 : i \in m + 1 .. n
      BY <1>0, <2>2
    <2> QED BY <2>1, <2>3 DEF RoleIs
  <1> QED BY <1>2, <1>3, <1>4 DEF n

\* Both have the same setting in the end, or one of them is excused.
Agreeing(q, x, r, y) ==
  Excused(q, x) \/ Excused(r, y) \/ \E v : Firm(q, x, v) /\ Firm(r, y, v)

\* A bud x with queue q handles h, other than "on", and becomes z, while its peer
\* y has queue r; mine and other are the roles the stacks have.
Turn(x, z, new, h, d, q, rest, y, r, r2, mine, other) ==
  /\ Takes(q, rest, d, h) /\ After(x, z, h)
  /\ RestartDue(q, x.link) /\ RestartDue(r, y.link)
  /\ RoleIs(rest, z.role, Len(rest) + 1, mine) /\ RoleIs(r, y.role, Len(r) + 1, other)
  /\ mine \in Roles /\ other \in Roles /\ mine # other
  /\ Said(r, new.out, r2)
  /\ SettingEffect(x, new, h)
  /\ z.setting = new.setting /\ z.link = new.link /\ z.role = new.role
  /\ "setting" \in new.unsaid => "setting" \in z.unsaid
  /\ ~NoRole(rest, 0) /\ (SaysSetting(new) \/ "setting" \in x.unsaid) => "setting" \in z.unsaid

LEMMA TellingStep ==
  ASSUME NEW x, NEW z, NEW new, NEW h, NEW d, NEW q, NEW rest, NEW y, NEW r, NEW r2,
         NEW mine, NEW other, Turn(x, z, new, h, d, q, rest, y, r, r2, mine, other),
         SaysSetting(new), other = "master" => ToldIsFirm(q, x, r, y)
  PROVE  /\ Agreeing(rest, z, r2, y)
         /\ other = "master" => ToldIsFirm(rest, z, r2, y)
         /\ mine = "master" => ToldIsFirm(r2, y, rest, z)
  <1>1. PICK m \in Message : new.out = <<m>> /\ TellsSetting(m) /\ m.setting = z.setting
    BY DEF SaysSetting, Says, Turn
  <1>2. z.role = "master"
    <2>1. ~SaysOther(new, "setting")
      <3>1. ASSUME NEW k \in Message, new.out = <<k>> PROVE "setting" \in Tells(k)
        <4>1. k = m
          BY <1>1, <3>1
        <4> QED BY <1>1, <4>1, TellsFacts
      <3>2. new.out # <<>>
        BY <1>1
      <3> QED BY <3>1, <3>2 DEF SaysOther, Says
    <2> QED BY <2>1 DEF Turn, SettingEffect
  <1>3. /\ r \in Seq(Items) /\ rest \in Seq(Items) /\ Len(r) \in Nat /\ Len(rest) \in Nat
        /\ RestartDue(r, y.link) /\ mine # other /\ {mine, other} \subseteq {"master", "slave"}
    BY DEF Turn, Takes, Roles, Said
  <1>4. /\ Grows(r, r2) /\ Extends(r, r2) /\ Len(r2) = Len(r) + 1 /\ r2[Len(r2)] = m
        /\ \A k \in Len(r) + 1 .. Len(r2) : k = Len(r) + 1
    <2> DEFINE out == new.out
    <2>1. Said(r, out, r2)
      BY DEF Turn
    <2> HIDE DEF out
    <2>2. Joins(r, out, r2)
      BY <2>1, OutGrows, Zenon
    <2>3. Grows(r, r2) /\ Len(r2) = Len(r) + 1 /\ r2[Len(r2)] = m
      BY <1>1, <2>2 DEF out, Joins
    <2> QED BY <1>3, <2>3 DEF Grows
  <1>5. RoleIs(r, y.role, Len(r) + 1, other) /\ RoleIs(rest, z.role, Len(rest) + 1, mine)
    BY DEF Turn
  <1>6. ASSUME other = "master" PROVE ToldIsFirm(rest, z, r2, y)
    <2>1. ToldIsFirm(rest, z, r, y)
      <3>1. Takes(q, rest, d, h) /\ After(x, z, h) /\ ToldIsFirm(q, x, r, y)
        BY <1>6 DEF Turn
      <3> QED BY <3>1, ToldShift, Zenon
    <2>2. \A k \in Len(r) + 1 .. Len(r2) : RoleIs(r2, y.role, k, "master")
      <3>1. Len(r) + 1 \in 1 .. Len(r) + 1 /\ RoleIs(r, y.role, Len(r) + 1, "master")
        BY <1>3, <1>5, <1>6
      <3>2. RoleIs(r2, y.role, Len(r) + 1, "master")
        BY <1>4, <3>1, RoleExtend
      <3> QED BY <1>4, <3>2
    <2>3. \A v : Firm(r, y, v) => Firm(r2, y, v)
      BY <1>3, <1>4, <2>2, FirmGrows
    <2>4. Excused(r, y) => Excused(r2, y)
      BY <1>3, <1>4, ExcusedGrows
    <2> QED BY <2>1, <2>3, <2>4, ToldAnswer
  <1>7. CASE ~NoRole(rest, 0)
    <2>1. Excused(rest, z)
      BY <1>7 DEF Turn, Excused
    <2> QED BY <1>6, <2>1 DEF Agreeing, ToldIsFirm, Answered
  <1>8. CASE NoRole(rest, 0)
    <2>1. mine = "master" /\ other = "slave"
      <3>1. z.role = mine
        BY <1>3, <1>5, <1>8, RoleNow
      <3> QED BY <1>2, <1>3, <3>1
    <2>2. Firm(r2, y, z.setting)
      <3>1. Firm(r2, y, r2[Len(r2)].setting)
        BY <1>1, <1>3, <1>4, <1>5, <2>1, FirmNew
      <3> QED BY <1>1, <1>4, <3>1
    <2>3. \A k \in 1 .. Len(rest) + 1 : RoleIs(rest, z.role, k, "master")
      <3>1. \A k \in 1 .. Len(rest) + 1 : RoleIs(rest, z.role, k, z.role)
        BY <1>3, <1>8, RoleNow, Zenon
      <3> QED BY <1>2, <3>1
    <2>4. Excused(rest, z) \/ Firm(rest, z, z.setting)
      <3>1. CASE \E k \in 1 .. Len(rest) : Restart(rest, z.link, k)
        <4>1. PICK k \in 1 .. Len(rest) : Restart(rest, z.link, k)
          BY <3>1
        <4>2. k \in 1 .. Len(rest) + 1
          BY <1>3
        <4> QED BY <2>3, <4>1, <4>2 DEF Excused, RestartsAsMaster
      <3>2. CASE ~ \E k \in 1 .. Len(rest) : Restart(rest, z.link, k)
        <4>1. 0 \in 0 .. Len(rest) /\ \A k \in 0 + 1 .. Len(rest) : k \in 1 .. Len(rest) /\ k \in 1 .. Len(rest) + 1
          BY <1>3
        <4>2. Stays(rest, z, 0)
          BY <2>3, <3>2, <4>1 DEF Stays
        <4>3. FirmAt(rest, z, z.setting, 0)
          BY DEF FirmAt
        <4> QED BY <4>1, <4>2, <4>3 DEF Firm
      <3> QED BY <3>1, <3>2
    <2>5. ToldIsFirm(r2, y, rest, z)
      <3>1. SUFFICES ASSUME NEW j \in 1 .. Len(r2) PROVE Answered(r2, rest, z, j)
        BY DEF ToldIsFirm
      <3>2. Len(r2) \in j .. Len(r2) /\ Len(r2) + 1 .. Len(r2) = {}
        BY <1>3, <1>4
      <3>3. NoSetting(r2, Len(r2))
        BY <3>2 DEF NoSetting
      <3>4. TellsSetting(r2[Len(r2)]) /\ r2[Len(r2)].setting = z.setting
        BY <1>1, <1>4
      <3> QED BY <2>4, <3>2, <3>3, <3>4 DEF Answered
    <2> QED BY <2>1, <2>2, <2>4, <2>5 DEF Agreeing
  <1> QED BY <1>7, <1>8

LEMMA SilentStep ==
  ASSUME NEW x, NEW z, NEW new, NEW h, NEW d, NEW q, NEW rest, NEW y, NEW r, NEW r2,
         NEW mine, NEW other, Turn(x, z, new, h, d, q, rest, y, r, r2, mine, other),
         ~SaysSetting(new), Agreeing(q, x, r, y),
         other = "master" => ToldIsFirm(q, x, r, y), mine = "master" => ToldIsFirm(r, y, q, x)
  PROVE  /\ Agreeing(rest, z, r2, y)
         /\ other = "master" => ToldIsFirm(rest, z, r2, y)
         /\ mine = "master" => ToldIsFirm(r2, y, rest, z)
  <1>1. /\ Takes(q, rest, d, h) /\ After(x, z, h) /\ q \in Seq(Items)
        /\ r \in Seq(Items) /\ rest \in Seq(Items) /\ Len(r) \in Nat /\ Len(rest) \in Nat
        /\ RestartDue(q, x.link)
        /\ RestartDue(r, y.link) /\ mine # other /\ {mine, other} \subseteq {"master", "slave"}
        /\ RoleIs(rest, z.role, Len(rest) + 1, mine)
    BY DEF Turn, Takes, Roles, Said
  <1>2. /\ SaysOther(new, "setting") /\ ~(IsUp(h) /\ x.link = "down" /\ x.role = "master")
        /\ \/ z.setting = x.setting /\ ("setting" \in x.unsaid => "setting" \in z.unsaid)
           \/ "setting" \in z.unsaid
           \/ TellsSetting(h) /\ x.role = "slave" /\ z.setting = h.setting
           \/ x.link = "down" /\ ~OfLink(h) /\ ("setting" \in x.unsaid => "setting" \in z.unsaid)
        /\ TellsSetting(h) /\ x.role = "slave" => z.setting = h.setting
        /\ ~NoRole(rest, 0) /\ "setting" \in x.unsaid => "setting" \in z.unsaid
    BY DEF Turn, SettingEffect
  <1>3. /\ Grows(r, r2) /\ \A k \in Len(r) + 1 .. Len(r2) : ~TellsSetting(r2[k])
    <2> DEFINE out == new.out
    <2>1. Said(r, out, r2)
      BY DEF Turn
    <2> HIDE DEF out
    <2>2. Joins(r, out, r2)
      BY <2>1, OutGrows, Zenon
    <2>3. ASSUME NEW k \in Len(r) + 1 .. Len(r2) PROVE ~TellsSetting(r2[k])
      <3>1. new.out = <<r2[k]>>
        BY <2>2, <2>3 DEF out, Joins
      <3>2. PICK m : m \in Message /\ new.out = <<m>> /\ "setting" \notin Tells(m)
        BY <1>2, <3>1 DEF SaysOther, Says
      <3>3. m = r2[k]
        BY <3>1, <3>2
      <3> QED BY <3>2, <3>3, TellsFacts
    <2> QED BY <2>2, <2>3 DEF Joins
  <1>4. Excused(r, y) => Excused(r2, y)
    BY <1>1, <1>3, ExcusedGrows
  <1>5. \A v : Firm(r, y, v) => Firm(r2, y, v)
    BY <1>1, <1>3, FirmGrows
  <1>6. \A v : Firm(q, x, v) => Firm(rest, z, v) \/ Excused(rest, z)
    <2>1. SUFFICES ASSUME NEW v, Firm(q, x, v), "setting" \notin z.unsaid PROVE Firm(rest, z, v)
      BY DEF Excused
    <2>2. \/ z.setting = x.setting
          \/ TellsSetting(h) /\ x.role = "slave"
          \/ \E j \in 1 .. Len(q) : d < j /\ Restart(q, x.link, j)
      <3>1. SUFFICES ASSUME x.link = "down", ~OfLink(h)
                     PROVE  \E j \in 1 .. Len(q) : d < j /\ Restart(q, x.link, j)
        BY <1>2, <2>1
      <3>2. PICK j \in 1 .. Len(q) : Restart(q, x.link, j)
        BY <1>1, <3>1 DEF RestartDue, Restarts
      <3>3. d < j
        <4>1. CASE j = 1
          <5>1. IsUp(q[1])
            BY <3>2, <4>1, FirstRestart
          <5>2. d # 1
            BY <1>1, <3>1, <5>1, TakesFacts DEF OfLink, IsUp
          <5> QED BY <1>1, <4>1, <5>2, TakesFacts
        <4> QED BY <1>1, <4>1, TakesFacts
      <3> QED BY <3>2, <3>3
    <2> QED BY <1>1, <1>2, <2>1, <2>2, FirmShift, Zenon
  <1> DEFINE heard == TellsSetting(h) /\ x.role = "slave" /\ NoRole(rest, 0)
  <1>7. Excused(q, x) => Excused(rest, z) \/ heard
    <2>1. RestartsAsMaster(q, x) => RestartsAsMaster(rest, z)
      BY <1>1, <1>2, RestartsShift
    <2> QED BY <1>2, <2>1 DEF Excused
  <1>8. heard => mine = "slave" /\ other = "master" /\ z.role = "slave" /\ z.setting = h.setting
                 /\ d = 1 /\ h = q[1]
    <2>1. SUFFICES ASSUME heard
                   PROVE  mine = "slave" /\ other = "master" /\ z.role = "slave" /\ d = 1 /\ h = q[1]
      BY <1>2
    <2>2. z.role = "slave"
      BY <1>1, <2>1 DEF After, TellsSetting
    <2>3. z.role = mine
      BY <1>1, <2>1, RoleNow
    <2>4. d = 1 /\ h = q[1]
      BY <1>1, <2>1, TakesFacts
    <2> QED BY <1>1, <2>2, <2>3, <2>4
  <1>9. ASSUME heard PROVE Excused(r, y) \/ \E v : Firm(rest, z, v) /\ Firm(r, y, v)
    <2>1. SUFFICES ASSUME ~Excused(r, y) PROVE \E v : Firm(rest, z, v) /\ Firm(r, y, v)
      OBVIOUS
    <2>2. /\ ToldIsFirm(q, x, r, y) /\ z.role = "slave" /\ d = 1 /\ h = q[1] /\ z.setting = h.setting
          /\ NoRole(rest, 0) /\ TellsSetting(q[1])
      BY <1>8, <1>9
    <2>3. Len(q) \in Nat /\ Len(q) = Len(rest) + 1 /\ \A k \in 1 .. Len(rest) : rest[k] = q[k + 1]
      BY <1>1, <2>2, TakesFacts
    <2>4. ASSUME NEW k \in 1 .. Len(q) PROVE NoRole(q, k)
      <3>1. ASSUME NEW i \in k + 1 .. Len(q) PROVE q[i].kind # "role"
        <4>1. i - 1 \in 1 .. Len(rest) /\ i - 1 \in 0 + 1 .. Len(rest) /\ (i - 1) + 1 = i
          BY <1>1, <2>3, <2>4, <3>1
        <4>2. rest[i - 1].kind # "role"
          BY <2>2, <4>1 DEF NoRole
        <4> QED BY <2>3, <4>1, <4>2
      <3> QED BY <3>1 DEF NoRole
    <2>5. 1 \in 1 .. Len(q)
      BY <1>1, <2>3
    <2>6. Answered(q, r, y, 1)
      BY <2>2, <2>4, <2>5 DEF ToldIsFirm, ToldAt
    <2>7. PICK i \in 1 .. Len(q) : TellsSetting(q[i]) /\ NoSetting(q, i) /\ Firm(r, y, q[i].setting)
      BY <2>1, <2>6 DEF Answered
    <2>8. i - 1 \in 0 .. Len(rest) /\ (i = 1 \/ i - 1 \in 1 .. Len(rest)) /\ (i - 1) + 1 = i
      BY <1>1, <2>3, <2>7
    <2>9. FirmAt(rest, z, q[i].setting, i - 1)
      <3>1. CASE i = 1
        BY <2>2, <2>8, <3>1 DEF FirmAt
      <3>2. CASE i # 1
        <4>1. rest[i - 1] = q[i] /\ i - 1 # 0 /\ i - 1 \in 1 .. Len(rest) + 1
          BY <1>1, <2>3, <2>8, <3>2
        <4>2. RoleIs(rest, z.role, i - 1, "slave")
          BY <1>1, <2>2, <4>1, RoleNow
        <4> QED BY <2>7, <4>1, <4>2 DEF FirmAt
      <3> QED BY <3>1, <3>2
    <2>10. ASSUME NEW k \in (i - 1) + 1 .. Len(rest)
           PROVE  ~TellsSetting(rest[k]) /\ ~Restart(rest, z.link, k)
      <3>1. k \in 1 .. Len(rest) /\ k + 1 \in i + 1 .. Len(q) /\ k + 1 \in 1 .. Len(q)
        BY <1>1, <2>3, <2>8, <2>10
      <3>2. ~TellsSetting(q[k + 1])
        BY <2>7, <3>1 DEF NoSetting
      <3>3. ASSUME Restart(rest, z.link, k) PROVE FALSE
        <4>1. Restart(q, x.link, k + d)
          BY <1>1, <3>1, <3>3, AfterShift
        <4>2. ToldAt(q, x, k + 1)
          BY <2>2, <2>4, <3>1, <4>1 DEF ToldAt
        <4>3. Answered(q, r, y, k + 1)
          BY <2>2, <3>1, <4>2 DEF ToldIsFirm
        <4>4. PICK j \in k + 1 .. Len(q) : TellsSetting(q[j])
          BY <2>1, <4>3 DEF Answered
        <4>5. j \in i + 1 .. Len(q)
          BY <1>1, <2>3, <2>7, <3>1, <4>4
        <4> QED BY <2>7, <4>4, <4>5 DEF NoSetting
      <3> QED BY <2>3, <3>1, <3>2, <3>3
    <2>11. Stays(rest, z, i - 1)
      BY <2>10 DEF Stays
    <2> QED BY <2>7, <2>8, <2>9, <2>11 DEF Firm
  <1> HIDE DEF heard
  <1>10. Agreeing(rest, z, r2, y)
    <2>1. CASE Excused(r, y)
      BY <1>4, <2>1 DEF Agreeing
    <2>2. CASE Excused(q, x)
      BY <1>4, <1>5, <1>7, <1>9, <2>2 DEF Agreeing
    <2>3. ASSUME NEW v, Firm(q, x, v), Firm(r, y, v) PROVE Agreeing(rest, z, r2, y)
      BY <1>5, <1>6, <2>3 DEF Agreeing
    <2> QED BY <2>1, <2>2, <2>3 DEF Agreeing
  <1>11. ASSUME other = "master" PROVE ToldIsFirm(rest, z, r2, y)
    <2>1. ToldIsFirm(q, x, r, y)
      BY <1>11
    <2>2. ToldIsFirm(rest, z, r, y)
      BY <1>1, <2>1, ToldShift, Zenon
    <2> QED BY <1>4, <1>5, <2>2, ToldAnswer
  <1>12. ASSUME mine = "master" PROVE ToldIsFirm(r2, y, rest, z)
    <2>1. ToldIsFirm(r, y, q, x)
      BY <1>12
    <2>2. ToldIsFirm(r2, y, q, x)
      BY <1>1, <1>3, <2>1, ToldGrows
    <2>3. ~heard
      BY <1>8, <1>12
    <2> QED BY <1>6, <1>7, <2>2, <2>3, ToldAnswer
  <1> QED BY <1>10, <1>11, <1>12

-----------------------------------------------------------------------------
(* Whatever a bud does.                                                     *)

\* What can be said of a bud x with queue q whose peer is y with queue r; l is the
\* link that the stacks have, mine and other their roles.
Sound(l, x, q, y, r, mine, other) ==
  /\ RoleIs(q, x.role, Len(q) + 1, mine)
  /\ l = "down" => EndComes(q, x.link)
  /\ l # "down" =>
       /\ RestartDue(q, x.link)
       /\ "charging" \in x.unsaid \/ Restarts(q, x.link) \/ Known(r, y, x.charging)
       /\ Agreeing(q, x, r, y)
       /\ other = "master" => ToldIsFirm(q, x, r, y)

\* x handles h, which makes new of it, and is z in the end.
Moves(l, x, z, new, h, d, q, rest, r, r2, mine) ==
  /\ Takes(q, rest, d, h)
  /\ new.link = LinkAfter(x, h, l) /\ new.role = RoleAfter(x, h, mine)
  /\ h.kind = "on" => new.out = <<>> /\ (l # "down" => new.unsaid = {"charging", "setting"})
  /\ ChargingEffect(x, new, h) /\ SettingEffect(x, new, h)
  /\ r \in Seq(Items) /\ (l = "down" => r2 = r) /\ (l # "down" => Said(r, new.out, r2))
  /\ z.link = new.link /\ z.role = new.role /\ z.setting = new.setting
  /\ z.charging = new.charging /\ z.peerCharging = new.peerCharging
  /\ "charging" \in new.unsaid => "charging" \in z.unsaid
  /\ "setting" \in new.unsaid => "setting" \in z.unsaid
  /\ ~NoRole(rest, 0) /\ (SaysSetting(new) \/ "setting" \in x.unsaid) => "setting" \in z.unsaid

\* Before "on" makes what the stack has of link and role.
Relinked(x, h, l, mine) ==
  [link |-> IF h.kind = "on" THEN l ELSE x.link, role |-> IF h.kind = "on" THEN mine ELSE x.role]

LEMMA RelinkedAfter ==
  ASSUME NEW l, NEW x, NEW z, NEW new, NEW h, NEW d, NEW q, NEW rest, NEW r, NEW r2, NEW mine,
         Moves(l, x, z, new, h, d, q, rest, r, r2, mine)
  PROVE  /\ After(Relinked(x, h, l, mine), z, h)
         /\ h.kind # "on" => After(x, z, h)
  BY DEF Moves, Relinked, After, LinkAfter, RoleAfter

LEMMA RoleTurn ==
  ASSUME NEW l, NEW x, NEW z, NEW new, NEW h, NEW d, NEW q, NEW rest, NEW r, NEW r2, NEW mine,
         Moves(l, x, z, new, h, d, q, rest, r, r2, mine),
         RoleIs(q, x.role, Len(q) + 1, mine)
  PROVE  /\ RoleIs(rest, z.role, Len(rest) + 1, mine)
         /\ l = "down" /\ EndComes(q, x.link) => EndComes(rest, z.link)
         /\ l # "down" /\ RestartDue(q, x.link) => RestartDue(rest, z.link)
  <1> DEFINE x1 == Relinked(x, h, l, mine)
  <1>1. Takes(q, rest, d, h) /\ q \in Seq(Items)
    BY DEF Moves, Takes
  <1>2. After(x1, z, h)
    BY RelinkedAfter, Zenon
  <1>3. /\ x1.role \in {x.role, mine} /\ x1.link \in {x.link, l}
        /\ h.kind = "on" => x1.role = mine /\ x1.link = l
        /\ h.kind # "on" => x1.role = x.role /\ x1.link = x.link
    BY DEF Relinked
  <1> HIDE DEF x1
  <1>4. RoleIs(q, x1.role, Len(q) + 1, mine)
    <2>1. CASE h.kind = "on"
      <3>1. RoleIs(q, x.role, Len(q) + 1, x1.role)
        BY <1>3, <2>1
      <3>2. RoleIs(q, x1.role, Len(q) + 1, x1.role)
        BY <1>1, <3>1, Relink, Zenon
      <3> QED BY <1>3, <2>1, <3>2
    <2> QED BY <1>3, <2>1
  <1>5. RoleIs(rest, z.role, Len(rest) + 1, mine)
    <2>1. /\ Len(rest) \in Nat /\ Len(rest) + 1 \in 1 .. Len(rest) + 1
          /\ (Len(rest) + 1) + d = Len(q) + 1
      BY <1>1, TakesFacts
    <2>2. \A j \in 1 .. Len(rest) + 1 :
            \A s : RoleIs(q, x1.role, j + d, s) <=> RoleIs(rest, z.role, j, s)
      BY <1>1, <1>2, AfterShift, Zenon
    <2> QED BY <1>4, <2>1, <2>2
  <1>6. ASSUME l = "down", EndComes(q, x.link) PROVE EndComes(rest, z.link)
    <2>1. EndComes(q, x1.link)
      <3>1. CASE h.kind = "on"
        <4>1. x1.link = "down"
          BY <1>3, <1>6, <3>1
        <4> QED BY <1>1, <1>6, <4>1, Relink, Zenon
      <3> QED BY <1>3, <1>6, <3>1
    <2> QED BY <1>1, <1>2, <2>1, EndShift, Zenon
  <1>7. ASSUME l # "down", RestartDue(q, x.link) PROVE RestartDue(rest, z.link)
    <2>1. RestartDue(q, x1.link)
      <3>1. CASE h.kind = "on"
        <4>1. x1.link # "down"
          BY <1>3, <1>7, <3>1
        <4> QED BY <1>1, <1>7, <4>1, Relink, Zenon
      <3> QED BY <1>3, <1>7, <3>1
    <2> QED BY <1>1, <1>2, <2>1, RestartsShift, Zenon
  <1> QED BY <1>5, <1>6, <1>7

LEMMA PeerTurn ==
  ASSUME NEW l, NEW x, NEW z, NEW new, NEW h, NEW d, NEW q, NEW rest, NEW r, NEW r2, NEW mine,
         Moves(l, x, z, new, h, d, q, rest, r, r2, mine), NEW y, NEW other, l # "down",
         RoleIs(r, y.role, Len(r) + 1, other), RestartDue(r, y.link)
  PROVE  /\ RoleIs(r2, y.role, Len(r2) + 1, other) /\ RestartDue(r2, y.link)
         /\ \/ "charging" \in y.unsaid \/ Restarts(r, y.link) \/ Known(q, x, y.charging)
            => "charging" \in y.unsaid \/ Restarts(r2, y.link) \/ Known(rest, z, y.charging)
  <1>1. Joins(r, new.out, r2)
    <2>1. Said(r, new.out, r2)
      BY DEF Moves
    <2> QED BY <2>1, OutGrows, Zenon
  <1>2. Grows(r, r2) /\ Extends(r, r2)
    BY <1>1 DEF Joins, Grows
  <1>3. Len(r) \in Nat /\ Len(r2) \in Nat /\ Len(r) <= Len(r2)
    BY <1>2, ExtendsFacts
  <1>4. RoleIs(r2, y.role, Len(r2) + 1, other)
    <2>1. Len(r2) + 1 \in Len(r) + 1 .. Len(r2) + 1
      BY <1>3
    <2>2. \A k \in Len(r) + 1 .. (Len(r2) + 1) - 1 : r2[k].kind # "role"
      <3>1. \A k \in Len(r) + 1 .. Len(r2) : r2[k].kind # "role"
        BY <1>1 DEF Joins
      <3>2. (Len(r2) + 1) - 1 = Len(r2)
        BY <1>3
      <3> QED BY <3>1, <3>2
    <2>3. \A j \in Len(r) + 1 .. Len(r2) + 1 :
            RoleIs(r, y.role, Len(r) + 1, other) /\ (\A k \in Len(r) + 1 .. j - 1 : r2[k].kind # "role")
                => RoleIs(r2, y.role, j, other)
      BY <1>2, RoleExtend, Zenon
    <2> QED BY <2>1, <2>2, <2>3
  <1>5. RestartDue(r2, y.link) /\ (Restarts(r, y.link) => Restarts(r2, y.link))
    BY <1>2, RestartGrows, ExcusedGrows
  <1>6. ASSUME Known(q, x, y.charging) PROVE Known(rest, z, y.charging)
    <2>1. /\ Takes(q, rest, d, h)
          /\ z.peerCharging = IF TellsCharging(h) THEN h.charging ELSE x.peerCharging
      BY DEF Moves, ChargingEffect
    <2> QED BY <1>6, <2>1, KnownShift
  <1> QED BY <1>4, <1>5, <1>6

LEMMA ChargingTurn ==
  ASSUME NEW l, NEW x, NEW z, NEW new, NEW h, NEW d, NEW q, NEW rest, NEW r, NEW r2, NEW mine,
         Moves(l, x, z, new, h, d, q, rest, r, r2, mine), NEW y, l # "down",
         RestartDue(q, x.link),
         "charging" \in x.unsaid \/ Restarts(q, x.link) \/ Known(r, y, x.charging)
  PROVE  "charging" \in z.unsaid \/ Restarts(rest, z.link) \/ Known(r2, y, z.charging)
  <1>1. Joins(r, new.out, r2)
    <2>1. Said(r, new.out, r2)
      BY DEF Moves
    <2> QED BY <2>1, OutGrows, Zenon
  <1>2. Grows(r, r2) /\ Extends(r, r2)
    BY <1>1 DEF Joins, Grows
  <1>3. Len(r) \in Nat /\ Len(r2) \in Nat /\ Len(r) <= Len(r2)
    BY <1>2, ExtendsFacts
  <1>4. CASE h.kind = "on"
    BY <1>4 DEF Moves
  <1>5. CASE SaysCharging(new)
    <2>1. PICK m \in Message : new.out = <<m>> /\ TellsCharging(m) /\ m.charging = z.charging
      BY <1>5 DEF SaysCharging, Says, Moves
    <2>2. Len(r2) = Len(r) + 1 /\ r2[Len(r2)] = m
      BY <1>1, <2>1 DEF Joins
    <2>3. Len(r2) \in 1 .. Len(r2) /\ TellsCharging(r2[Len(r2)]) /\ r2[Len(r2)].charging = z.charging
      BY <1>3, <2>1, <2>2
    <2>4. \A k \in 1 .. Len(r2) : k = Len(r2) /\ TellsCharging(r2[k]) /\ r2[k].charging = z.charging
              => Known(r2, y, z.charging)
      BY <1>2, KnownGrows, Zenon
    <2> QED BY <2>3, <2>4
  <1>6. CASE h.kind # "on" /\ ~SaysCharging(new)
    <2>1. Takes(q, rest, d, h) /\ After(x, z, h)
      BY <1>6, RelinkedAfter DEF Moves
    <2>2. /\ SaysOther(new, "charging") /\ ~(IsUp(h) /\ x.link = "down")
          /\ "charging" \in x.unsaid => "charging" \in z.unsaid
          /\ z.charging = x.charging \/ "charging" \in z.unsaid \/ x.link = "down"
      BY <1>6 DEF Moves, ChargingEffect
    <2>3. Restarts(q, x.link) => Restarts(rest, z.link)
      BY <2>1, <2>2, RestartsShift
    <2>4. x.link = "down" => Restarts(q, x.link)
      BY DEF RestartDue
    <2>5. \A k \in Len(r) + 1 .. Len(r2) : ~TellsCharging(r2[k])
      <3>1. SUFFICES ASSUME NEW k \in Len(r) + 1 .. Len(r2) PROVE ~TellsCharging(r2[k])
        OBVIOUS
      <3>2. new.out = <<r2[k]>>
        BY <1>1, <3>1 DEF Joins
      <3>3. PICK m : m \in Message /\ new.out = <<m>> /\ "charging" \notin Tells(m)
        BY <2>2, <3>2 DEF SaysOther, Says
      <3>4. m = r2[k]
        BY <3>2, <3>3
      <3> QED BY <3>3, <3>4, TellsFacts
    <2>6. Known(r, y, x.charging) => Known(r2, y, x.charging)
      BY <1>2, <2>5, KnownGrows
    <2> QED BY <2>2, <2>3, <2>4, <2>6
  <1> QED BY <1>4, <1>5, <1>6

LEMMA SettingTurn ==
  ASSUME NEW l, NEW x, NEW z, NEW new, NEW h, NEW d, NEW q, NEW rest, NEW r, NEW r2, NEW mine,
         Moves(l, x, z, new, h, d, q, rest, r, r2, mine), NEW y, NEW other, l # "down",
         mine \in Roles, other \in Roles, mine # other,
         RoleIs(q, x.role, Len(q) + 1, mine), RoleIs(r, y.role, Len(r) + 1, other),
         RestartDue(q, x.link), RestartDue(r, y.link), Agreeing(q, x, r, y),
         other = "master" => ToldIsFirm(q, x, r, y), mine = "master" => ToldIsFirm(r, y, q, x)
  PROVE  /\ Agreeing(rest, z, r2, y)
         /\ other = "master" => ToldIsFirm(rest, z, r2, y)
         /\ mine = "master" => ToldIsFirm(r2, y, rest, z)
  <1>1. CASE h.kind = "on"
    <2> DEFINE x1 == Relinked(x, h, l, mine)
    <2>1. Takes(q, rest, d, h) /\ q \in Seq(Items) /\ After(x1, z, h)
      BY <1>1, RelinkedAfter DEF Moves, Takes
    <2>2. r2 = r
      <3>1. Joins(r, new.out, r2)
        <4>1. Said(r, new.out, r2)
          BY DEF Moves
        <4> QED BY <4>1, OutGrows, Zenon
      <3>2. new.out = <<>>
        BY <1>1 DEF Moves
      <3> QED BY <3>1, <3>2 DEF Joins
    <2>3. Excused(rest, z)
      BY <1>1 DEF Excused, Moves
    <2>4. ASSUME other = "master" PROVE ToldIsFirm(rest, z, r, y)
      <3>1. x1.link # "down"
        BY <1>1 DEF Relinked
      <3> HIDE DEF x1
      <3>2. ToldIsFirm(q, x, r, y)
        BY <2>4
      <3>3. ToldIsFirm(q, x1, r, y)
        BY <2>1, <3>1, <3>2, Relink, Zenon
      <3>4. Takes(q, rest, d, h) /\ After(x1, z, h)
        BY <2>1
      <3> QED BY <3>3, <3>4, ToldShift, Zenon
    <2>5. ToldIsFirm(r2, y, rest, z)
      BY <2>3 DEF ToldIsFirm, Answered
    <2> QED BY <2>2, <2>3, <2>4, <2>5 DEF Agreeing
  <1>2. ASSUME h.kind # "on" PROVE Turn(x, z, new, h, d, q, rest, y, r, r2, mine, other)
    <2>1. RoleIs(rest, z.role, Len(rest) + 1, mine)
      BY RoleTurn
    <2>2. After(x, z, h)
      BY <1>2, RelinkedAfter
    <2> QED BY <2>1, <2>2 DEF Turn, Moves
  <1>3. CASE h.kind # "on" /\ SaysSetting(new)
    <2>1. Turn(x, z, new, h, d, q, rest, y, r, r2, mine, other)
      BY <1>2, <1>3
    <2>2. SaysSetting(new) /\ (other = "master" => ToldIsFirm(q, x, r, y))
      BY <1>3
    <2> QED BY <2>1, <2>2, TellingStep, Zenon
  <1>4. CASE h.kind # "on" /\ ~SaysSetting(new)
    <2>1. Turn(x, z, new, h, d, q, rest, y, r, r2, mine, other)
      BY <1>2, <1>4
    <2>2. ~SaysSetting(new) /\ Agreeing(q, x, r, y)
      BY <1>4
    <2>3. other = "master" => ToldIsFirm(q, x, r, y)
      OBVIOUS
    <2>4. mine = "master" => ToldIsFirm(r, y, q, x)
      OBVIOUS
    <2> QED BY <2>1, <2>2, <2>3, <2>4, SilentStep, Zenon
  <1> QED BY <1>1, <1>3, <1>4

LEMMA AgreeingIsMutual ==
  ASSUME NEW q, NEW x, NEW r, NEW y
  PROVE  Agreeing(q, x, r, y) <=> Agreeing(r, y, q, x)
  BY DEF Agreeing

\* Both buds, and their roles.
SoundPair(l, x, q, y, r, mine, other) ==
  /\ Sound(l, x, q, y, r, mine, other) /\ Sound(l, y, r, x, q, other, mine)
  /\ mine \in Roles /\ other \in Roles /\ (l # "down" => mine # other)

LEMMA SoundTurn ==
  ASSUME NEW l, NEW x, NEW z, NEW new, NEW h, NEW d, NEW q, NEW rest, NEW r, NEW r2, NEW mine,
         Moves(l, x, z, new, h, d, q, rest, r, r2, mine), NEW y, NEW other,
         SoundPair(l, x, q, y, r, mine, other)
  PROVE  SoundPair(l, z, rest, y, r2, mine, other)
  <1>0. /\ Sound(l, x, q, y, r, mine, other) /\ Sound(l, y, r, x, q, other, mine)
        /\ mine \in Roles /\ other \in Roles /\ (l # "down" => mine # other)
    BY DEF SoundPair
  <1>1. RoleIs(q, x.role, Len(q) + 1, mine) /\ RoleIs(r, y.role, Len(r) + 1, other)
    BY <1>0 DEF Sound
  <1>2. CASE l = "down"
    <2>1. EndComes(q, x.link) /\ EndComes(r, y.link)
      BY <1>0, <1>2 DEF Sound
    <2>2. RoleIs(rest, z.role, Len(rest) + 1, mine) /\ EndComes(rest, z.link)
      BY <1>1, <1>2, <2>1, RoleTurn
    <2>3. r2 = r
      BY <1>2 DEF Moves
    <2> QED BY <1>0, <1>1, <1>2, <2>1, <2>2, <2>3 DEF Sound, SoundPair
  <1>3. CASE l # "down"
    <2>1. /\ RestartDue(q, x.link) /\ RestartDue(r, y.link) /\ Agreeing(q, x, r, y)
          /\ "charging" \in x.unsaid \/ Restarts(q, x.link) \/ Known(r, y, x.charging)
          /\ "charging" \in y.unsaid \/ Restarts(r, y.link) \/ Known(q, x, y.charging)
          /\ other = "master" => ToldIsFirm(q, x, r, y)
          /\ mine = "master" => ToldIsFirm(r, y, q, x)
      BY <1>0, <1>3 DEF Sound
    <2>2. RoleIs(rest, z.role, Len(rest) + 1, mine) /\ RestartDue(rest, z.link)
      BY <1>1, <1>3, <2>1, RoleTurn
    <2>3. /\ RoleIs(r2, y.role, Len(r2) + 1, other) /\ RestartDue(r2, y.link)
          /\ "charging" \in y.unsaid \/ Restarts(r2, y.link) \/ Known(rest, z, y.charging)
      BY <1>1, <1>3, <2>1, PeerTurn
    <2>4. "charging" \in z.unsaid \/ Restarts(rest, z.link) \/ Known(r2, y, z.charging)
      BY <1>3, <2>1, ChargingTurn
    <2>5. mine # other /\ mine \in Roles /\ other \in Roles
      BY <1>0, <1>3
    <2>6. /\ Agreeing(rest, z, r2, y)
          /\ other = "master" => ToldIsFirm(rest, z, r2, y)
          /\ mine = "master" => ToldIsFirm(r2, y, rest, z)
      BY <1>1, <1>3, <2>1, <2>5, SettingTurn
    <2>7. Agreeing(r2, y, rest, z)
      BY <2>6, AgreeingIsMutual
    <2> QED BY <1>0, <1>3, <2>2, <2>3, <2>4, <2>6, <2>7 DEF Sound, SoundPair
  <1> QED BY <1>2, <1>3

-----------------------------------------------------------------------------
(* The inductive invariant.                                                 *)

\* A bud's role follows the stack's (app_wws_handle_role_changed), one of two stacks
\* that are linked is the master, and what Sound says of each bud is true.
OneMaster == stack.link # "down" => stack.role["left"] # stack.role["right"]
BudsSound ==
  \A b \in Buds :
    Sound(stack.link, bud[b], evts[b], bud[Peer(b)], evts[Peer(b)], stack.role[b], stack.role[Peer(b)])
IInv == TypeOK /\ OneMaster /\ BudsSound

LEMMA StackTypes ==
  ASSUME TypeOK
  PROVE  /\ stack.link \in Links /\ stack.asked \in BOOLEAN
         /\ \A b \in Buds : stack.on[b] \in BOOLEAN /\ stack.role[b] \in Roles
         /\ \A b \in Buds : bud[b] \in BudType /\ evts[b] \in Seq(Items)
         /\ stack.on \in [Buds -> BOOLEAN] /\ stack.role \in [Buds -> Roles]
  BY DEF TypeOK, Items

LEMMA OneMasterFacts ==
  ASSUME NEW role \in [Buds -> Roles]
  PROVE  role["left"] # role["right"] <=> \A b \in Buds : role[b] # role[Peer(b)]
  BY PeerFacts DEF Buds

\* Finish changes the bud, its queue, and its peer's queue.
LEMMA FinishFacts ==
  ASSUME TypeOK, NEW b \in Buds, NEW new \in Acting, NEW rest \in Seq(Items), Finish(b, new, rest)
  PROVE  LET p == Peer(b)
             z == bud'[b] IN
         /\ bud' \in [Buds -> BudType] /\ evts' \in [Buds -> Seq(Items)]
         /\ stack' \in [link : Links, asked : BOOLEAN, on : [Buds -> BOOLEAN], role : [Buds -> Roles]]
         /\ stack'.link = stack.link /\ stack'.role = stack.role
         /\ bud'[p] = bud[p] /\ evts'[b] = rest
         /\ stack.link = "down" => evts'[p] = evts[p]
         /\ stack.link # "down" => Said(evts[p], new.out, evts'[p])
         /\ z.link = new.link /\ z.role = new.role /\ z.setting = new.setting
         /\ z.charging = new.charging /\ z.peerCharging = new.peerCharging
         /\ "charging" \in new.unsaid => "charging" \in z.unsaid
         /\ "setting" \in new.unsaid => "setting" \in z.unsaid
         /\ ~NoRole(rest, 0) /\ (SaysSetting(new) \/ "setting" \in bud[b].unsaid)
              => "setting" \in z.unsaid
  <1> DEFINE p == Peer(b)
             z == [new EXCEPT !.out = <<>>, !.ask = FALSE,
                      !.due = @ /\ ~new.ask /\ ShouldHandOver(new),
                      !.unsaid = IF Crossed(b, new, rest) THEN @ \cup {"setting"} ELSE @]
             r2 == IF stack.link = "down" THEN evts[p] ELSE evts[p] \o new.out
  <1>0. p \in Buds /\ p # b
    BY PeerFacts
  <1>1. /\ bud' = [bud EXCEPT ![b] = z]
        /\ evts' = [evts EXCEPT ![b] = rest,
                     ![p] = IF stack.link = "down" THEN @ ELSE @ \o new.out]
        /\ stack' = [stack EXCEPT !.asked = @ \/ (new.ask /\ stack.link = "connected")]
    BY DEF Finish
  <1>2. /\ z.link = new.link /\ z.role = new.role /\ z.setting = new.setting
        /\ z.charging = new.charging /\ z.peerCharging = new.peerCharging
        /\ z.unsaid = IF Crossed(b, new, rest) THEN new.unsaid \cup {"setting"} ELSE new.unsaid
    BY DEF Acting
  <1>3. z \in BudType
    <2>1. ShouldHandOver(new) \in BOOLEAN
      BY DEF ShouldHandOver, ConnectedMaster, Connected, Acting
    <2>2. (new.due /\ ~new.ask /\ ShouldHandOver(new)) \in BOOLEAN
      BY <2>1 DEF Acting
    <2>3. (IF Crossed(b, new, rest) THEN new.unsaid \cup {"setting"} ELSE new.unsaid)
            \in SUBSET {"charging", "setting"}
      BY DEF Acting
    <2> QED BY <2>2, <2>3 DEF Acting, BudType
  <1>4. ASSUME ~NoRole(rest, 0), SaysSetting(new) \/ "setting" \in bud[b].unsaid
        PROVE  Crossed(b, new, rest)
    <2>1. \E i \in DOMAIN rest : rest[i].kind = "role"
      <3>1. PICK i \in 0 + 1 .. Len(rest) : rest[i].kind = "role"
        BY <1>4 DEF NoRole
      <3>2. i \in DOMAIN rest
        BY <3>1
      <3> QED BY <3>1, <3>2
    <2>2. SaysSetting(new) => \E i \in DOMAIN new.out : "setting" \in Tells(new.out[i])
      <3>1. SUFFICES ASSUME NEW m \in Message, new.out = <<m>>, TellsSetting(m)
                     PROVE  \E i \in DOMAIN new.out : "setting" \in Tells(new.out[i])
        BY DEF SaysSetting, Says
      <3>2. "setting" \in Tells(m)
        BY <3>1, TellsFacts
      <3>3. 1 \in DOMAIN new.out /\ new.out[1] = m
        BY <3>1
      <3> QED BY <3>2, <3>3
    <2> QED BY <1>4, <2>1, <2>2 DEF Crossed
  <1>5. /\ stack' \in [link : Links, asked : BOOLEAN, on : [Buds -> BOOLEAN], role : [Buds -> Roles]]
        /\ stack'.link = stack.link /\ stack'.role = stack.role
    <2>1. (stack.asked \/ (new.ask /\ stack.link = "connected")) \in BOOLEAN
      BY StackTypes DEF Acting
    <2> QED BY <1>1, <2>1 DEF TypeOK
  <1> HIDE DEF z, p
  <1>6. bud' \in [Buds -> BudType] /\ bud'[b] = z /\ bud'[p] = bud[p]
    BY <1>0, <1>1, <1>3 DEF TypeOK
  <1>7. evts[p] \in Seq(Items) /\ new.out \in Outs
    BY <1>0, StackTypes DEF Acting
  <1>8. r2 \in Seq(Items)
    <2>1. new.out \in Seq(Items)
      <3>1. Message \subseteq Items
        BY DEF Items
      <3>2. new.out = <<>> \/ \E m \in Message : new.out = <<m>>
        BY <1>7 DEF Outs
      <3>3. \A m \in Items : <<m>> \in Seq(Items)
        OBVIOUS
      <3>4. CASE new.out = <<>>
        BY <3>4
      <3>5. ASSUME NEW m \in Message, new.out = <<m>> PROVE new.out \in Seq(Items)
        BY <3>1, <3>3, <3>5
      <3> QED BY <3>2, <3>4, <3>5
    <2> QED BY <1>7, <2>1, ConcatProperties
  <1>9. evts \in [Buds -> Seq(Items)]
    BY DEF TypeOK, Items
  <1>10. evts' = [evts EXCEPT ![b] = rest, ![p] = r2]
    BY <1>0, <1>1, <1>9
  <1>11. stack.link = "down" => r2 = evts[p]
    OBVIOUS
  <1>12. stack.link # "down" => Said(evts[p], new.out, r2)
    BY <1>7 DEF Said
  <1> HIDE DEF r2
  <1>13. evts' \in [Buds -> Seq(Items)] /\ evts'[b] = rest /\ evts'[p] = r2
    BY <1>0, <1>8, <1>9, <1>10
  <1> QED BY <1>2, <1>4, <1>5, <1>6, <1>11, <1>12, <1>13 DEF p

LEMMA FinishMoves ==
  ASSUME TypeOK, NEW b \in Buds, NEW new, NEW rest, NEW d, NEW h,
         Effect(bud[b], new, h, b), h.kind = "on" => new.out = <<>>,
         Takes(evts[b], rest, d, h), Finish(b, new, rest)
  PROVE  /\ Moves(stack.link, bud[b], bud'[b], new, h, d, evts[b], evts'[b],
                  evts[Peer(b)], evts'[Peer(b)], stack.role[b])
         /\ bud'[Peer(b)] = bud[Peer(b)]
         /\ stack'.link = stack.link /\ stack'.role = stack.role
         /\ bud' \in [Buds -> BudType] /\ evts' \in [Buds -> Seq(Items)]
         /\ stack' \in [link : Links, asked : BOOLEAN, on : [Buds -> BOOLEAN], role : [Buds -> Roles]]
  <1>1. new \in Acting /\ rest \in Seq(Items)
    BY DEF Effect, Takes
  <1>2. LET p == Peer(b)
            z == bud'[b] IN
         /\ bud' \in [Buds -> BudType] /\ evts' \in [Buds -> Seq(Items)]
         /\ stack' \in [link : Links, asked : BOOLEAN, on : [Buds -> BOOLEAN], role : [Buds -> Roles]]
         /\ stack'.link = stack.link /\ stack'.role = stack.role
         /\ bud'[p] = bud[p] /\ evts'[b] = rest
         /\ stack.link = "down" => evts'[p] = evts[p]
         /\ stack.link # "down" => Said(evts[p], new.out, evts'[p])
         /\ z.link = new.link /\ z.role = new.role /\ z.setting = new.setting
         /\ z.charging = new.charging /\ z.peerCharging = new.peerCharging
         /\ "charging" \in new.unsaid => "charging" \in z.unsaid
         /\ "setting" \in new.unsaid => "setting" \in z.unsaid
         /\ ~NoRole(rest, 0) /\ (SaysSetting(new) \/ "setting" \in bud[b].unsaid)
              => "setting" \in z.unsaid
    BY <1>1, FinishFacts
  <1>3. Peer(b) \in Buds /\ evts[Peer(b)] \in Seq(Items)
    BY PeerFacts, StackTypes
  <1>4. Moves(stack.link, bud[b], bud'[b], new, h, d, evts[b], rest,
              evts[Peer(b)], evts'[Peer(b)], stack.role[b])
    BY <1>2, <1>3 DEF Moves, Effect
  <1> QED BY <1>2, <1>4

LEMMA TakesAll ==
  ASSUME NEW q \in Seq(Items)
  PROVE  /\ q # <<>> => Head(q) \in Items /\ Takes(q, Tail(q), 1, Head(q))
         /\ Takes(q, q, 0, Nothing)
  <1>1. Takes(q, q, 0, Nothing)
    <2>1. Len(q) \in Nat /\ \A k \in 1 .. Len(q) : k + 0 = k
      OBVIOUS
    <2> QED BY <2>1 DEF Takes
  <1>2. ASSUME q # <<>> PROVE Head(q) \in Items /\ Takes(q, Tail(q), 1, Head(q))
    <2>1. /\ Len(q) \in Nat /\ Tail(q) \in Seq(Items) /\ Len(Tail(q)) = Len(q) - 1
          /\ \A k \in 1 .. Len(q) - 1 : Tail(q)[k] = q[k + 1]
          /\ Head(q) = q[1] /\ Head(q) \in Items
      BY <1>2, HeadTailProperties
    <2> QED BY <2>1 DEF Takes
  <1> QED BY <1>1, <1>2

\* Every step in which Finish ends a handler.
LEMMA BudSteps ==
  ASSUME IInv, NEW b \in Buds, NEW new, NEW rest, NEW d, NEW h,
         Effect(bud[b], new, h, b), h.kind = "on" => new.out = <<>>,
         Takes(evts[b], rest, d, h), Finish(b, new, rest),
         inputs' \in 0 .. MaxInputs, faults' \in 0 .. MaxFaults
  PROVE  IInv'
  <1> DEFINE p == Peer(b)
             l == stack.link
  <1>0. p \in Buds /\ Peer(p) = b /\ \A c \in Buds : c = b \/ c = p
    BY PeerFacts
  <1>1. TypeOK
    BY DEF IInv
  <1>2. /\ Moves(l, bud[b], bud'[b], new, h, d, evts[b], evts'[b], evts[p], evts'[p], stack.role[b])
        /\ bud'[p] = bud[p]
        /\ stack'.link = l /\ stack'.role = stack.role
        /\ bud' \in [Buds -> BudType] /\ evts' \in [Buds -> Seq(Items)]
        /\ stack' \in [link : Links, asked : BOOLEAN, on : [Buds -> BOOLEAN], role : [Buds -> Roles]]
    BY <1>1, FinishMoves
  <1>3. /\ Sound(l, bud[b], evts[b], bud[p], evts[p], stack.role[b], stack.role[p])
        /\ Sound(l, bud[p], evts[p], bud[b], evts[b], stack.role[p], stack.role[b])
    BY <1>0 DEF IInv, BudsSound
  <1>4. /\ stack.role[b] \in Roles /\ stack.role[p] \in Roles
        /\ l # "down" => stack.role[b] # stack.role[p]
    BY <1>0, <1>1, StackTypes, OneMasterFacts DEF IInv, OneMaster
  <1>5. /\ Sound(l, bud'[b], evts'[b], bud[p], evts'[p], stack.role[b], stack.role[p])
        /\ Sound(l, bud[p], evts'[p], bud'[b], evts'[b], stack.role[p], stack.role[b])
    <2> DEFINE mine == stack.role[b]
               other == stack.role[p]
               r2 == evts'[p]
    <2>1. Moves(l, bud[b], bud'[b], new, h, d, evts[b], evts'[b], evts[p], r2, mine)
      BY <1>2
    <2>2. SoundPair(l, bud[b], evts[b], bud[p], evts[p], mine, other)
      BY <1>3, <1>4 DEF SoundPair
    <2> HIDE DEF l, p, mine, other, r2
    <2>3. SoundPair(l, bud'[b], evts'[b], bud[p], r2, mine, other)
      BY <2>1, <2>2, SoundTurn, Zenon
    <2> QED BY <2>3 DEF mine, other, r2, SoundPair
  <1>6. TypeOK'
    BY <1>2 DEF TypeOK, Items
  <1>7. OneMaster'
    BY <1>2 DEF OneMaster, IInv
  <1>8. BudsSound'
    <2>1. SUFFICES ASSUME NEW c \in Buds
                   PROVE  Sound(stack'.link, bud'[c], evts'[c], bud'[Peer(c)], evts'[Peer(c)],
                                stack'.role[c], stack'.role[Peer(c)])
      BY DEF BudsSound
    <2>2. CASE c = b
      BY <1>2, <1>5, <2>2
    <2>3. CASE c = p
      BY <1>0, <1>2, <1>5, <2>3
    <2> QED BY <1>0, <2>2, <2>3
  <1> QED BY <1>6, <1>7, <1>8 DEF IInv

LEMMA AppStep ==
  ASSUME IInv, NEW b \in Buds, App(b) \/ User(b)
  PROVE  IInv'
  <1>1. /\ TypeOK /\ bud[b] \in BudType /\ evts[b] \in Seq(Items)
        /\ inputs \in 0 .. MaxInputs /\ faults \in 0 .. MaxFaults
    BY StackTypes DEF IInv, TypeOK
  <1>2. MaxInputs \in Nat /\ MaxFaults \in Nat
    BY TwsSyncAssumption
  <1>3. CASE HandleEvt(b)
    <2> DEFINE h == Head(evts[b])
               new == Handle(bud[b], b, h)
    <2>1. /\ evts[b] # <<>> /\ Finish(b, new, Tail(evts[b]))
          /\ inputs' = inputs /\ faults' = faults
      BY <1>3 DEF HandleEvt
    <2>2. h \in Items /\ Takes(evts[b], Tail(evts[b]), 1, h)
      BY <1>1, <2>1, TakesAll
    <2>3. Effect(bud[b], new, h, b)
      <3> HIDE DEF h
      <3> QED BY <1>1, <2>2, HandleEffect
    <2>4. h.kind = "on" => new.out = <<>>
      <3>1. SUFFICES ASSUME h.kind = "on" PROVE new.out = <<>>
        OBVIOUS
      <3>2. new = BtPowerOn(bud[b], b)
        BY <3>1 DEF Handle
      <3>3. bud[b] \in [link : Links, role : Roles, phone : BOOLEAN, ota : BOOLEAN,
                 charging : BOOLEAN, peerCharging : BOOLEAN, setting : 0 .. Settings - 1,
                 later : BOOLEAN, recent : BOOLEAN, due : BOOLEAN,
                 unsaid : SUBSET {"charging", "setting"}, out : {<<>>}, ask : {FALSE}]
        BY <1>1 DEF BudType
      <3> QED BY <3>2, <3>3 DEF BtPowerOn
    <2> HIDE DEF h, new
    <2> QED BY <1>1, <2>1, <2>2, <2>3, <2>4, BudSteps
  <1>4. ASSUME NEW new, Effect(bud[b], new, Nothing, b), Finish(b, new, evts[b]),
               inputs' \in 0 .. MaxInputs, faults' \in 0 .. MaxFaults
        PROVE  IInv'
    <2>1. Takes(evts[b], evts[b], 0, Nothing)
      BY <1>1, TakesAll
    <2>2. Nothing.kind # "on"
      BY DEF Nothing
    <2> QED BY <1>4, <2>1, <2>2, BudSteps
  <1>5. /\ Input => inputs' \in 0 .. MaxInputs /\ faults' \in 0 .. MaxFaults
        /\ Fault => inputs' \in 0 .. MaxInputs /\ faults' \in 0 .. MaxFaults
    BY <1>1, <1>2 DEF Input, Fault
  <1>6. CASE TimerFires(b)
    BY <1>1, <1>4, <1>6, OwnEffect DEF TimerFires
  <1>7. CASE Press(b)
    BY <1>1, <1>4, <1>5, <1>7, OwnEffect DEF Press
  <1>8. CASE PutInOrOut(b)
    BY <1>1, <1>4, <1>5, <1>8, OwnEffect DEF PutInOrOut
  <1>9. CASE AskSwitch(b)
    BY <1>1, <1>4, <1>5, <1>9, OwnEffect DEF AskSwitch
  <1>10. CASE OtaChanges(b)
    BY <1>1, <1>4, <1>5, <1>10, OwnEffect DEF OtaChanges
  <1> QED BY <1>3, <1>6, <1>7, <1>8, <1>9, <1>10 DEF App, User

-----------------------------------------------------------------------------
(* What the stacks post.                                                    *)

LEMMA PairOf ==
  ASSUME IInv, NEW b \in Buds
  PROVE  SoundPair(stack.link, bud[b], evts[b], bud[Peer(b)], evts[Peer(b)],
                   stack.role[b], stack.role[Peer(b)])
  <1> DEFINE p == Peer(b)
  <1>0. p \in Buds /\ Peer(p) = b
    BY PeerFacts
  <1>1. /\ stack.role[b] \in Roles /\ stack.role[p] \in Roles
        /\ stack.link # "down" => stack.role[b] # stack.role[p]
    BY <1>0, StackTypes, OneMasterFacts DEF IInv, OneMaster
  <1>2. /\ Sound(stack.link, bud[b], evts[b], bud[p], evts[p], stack.role[b], stack.role[p])
        /\ Sound(stack.link, bud[p], evts[p], bud[b], evts[b], stack.role[p], stack.role[b])
    BY <1>0 DEF IInv, BudsSound
  <1> QED BY <1>1, <1>2 DEF SoundPair

LEMMA PairIsEnough ==
  ASSUME TypeOK', NEW b \in Buds,
         SoundPair(stack'.link, bud'[b], evts'[b], bud'[Peer(b)], evts'[Peer(b)],
                   stack'.role[b], stack'.role[Peer(b)])
  PROVE  IInv'
  <1> DEFINE p == Peer(b)
  <1>0. p \in Buds /\ Peer(p) = b /\ \A c \in Buds : c = b \/ c = p
    BY PeerFacts
  <1>1. /\ Sound(stack'.link, bud'[b], evts'[b], bud'[p], evts'[p], stack'.role[b], stack'.role[p])
        /\ Sound(stack'.link, bud'[p], evts'[p], bud'[b], evts'[b], stack'.role[p], stack'.role[b])
        /\ stack'.link # "down" => stack'.role[b] # stack'.role[p]
    BY DEF SoundPair
  <1>2. BudsSound'
    <2>1. SUFFICES ASSUME NEW c \in Buds
                   PROVE  Sound(stack'.link, bud'[c], evts'[c], bud'[Peer(c)], evts'[Peer(c)],
                                stack'.role[c], stack'.role[Peer(c)])
      BY DEF BudsSound
    <2>2. CASE c = b
      BY <1>1, <2>2
    <2>3. CASE c = p
      BY <1>0, <1>1, <2>3
    <2> QED BY <1>0, <2>2, <2>3
  <1>3. OneMaster'
    <2>1. b \in {"left", "right"} /\ (b = "left" => p = "right") /\ (b = "right" => p = "left")
      BY PeerFacts DEF Buds
    <2> QED BY <1>1, <2>1 DEF OneMaster
  <1> QED BY <1>2, <1>3 DEF IInv

\* The stack adds the events m to q.
Posted(q, m, q2) == q \in Seq(Items) /\ m \in Seq(Event) /\ q2 = q \o m

LEMMA PostedFacts ==
  ASSUME NEW q, NEW m, NEW q2, Posted(q, m, q2)
  PROVE  /\ Extends(q, q2) /\ Len(q) \in Nat /\ Len(m) \in Nat /\ Len(q2) = Len(q) + Len(m)
         /\ \A i \in 1 .. Len(m) : m[i] \in Event /\ q2[Len(q) + i] = m[i]
         /\ \A k \in Len(q) + 1 .. Len(q2) : \E i \in 1 .. Len(m) : k = Len(q) + i /\ q2[k] = m[i]
  <1>1. q \in Seq(Items) /\ m \in Seq(Event) /\ q2 = q \o m
    BY DEF Posted
  <1>2. m \in Seq(Items) /\ Len(q) \in Nat /\ Len(m) \in Nat
    BY <1>1 DEF Items
  <1>3. /\ q2 \in Seq(Items) /\ Len(q2) = Len(q) + Len(m)
        /\ \A i \in 1 .. Len(q) + Len(m) : q2[i] = IF i <= Len(q) THEN q[i] ELSE m[i - Len(q)]
    BY <1>1, <1>2, ConcatProperties
  <1> DEFINE n == Len(q)
             k0 == Len(m)
             l == Len(q2)
  <1>4. \A i \in 1 .. k0 : m[i] \in Event
    BY <1>1
  <1>5. n \in Nat /\ k0 \in Nat /\ l = n + k0
    BY <1>2, <1>3
  <1>6. \A i \in 1 .. n + k0 : q2[i] = IF i <= n THEN q[i] ELSE m[i - n]
    BY <1>3
  <1> HIDE DEF n, k0, l
  <1>7. \A i \in 1 .. n : q2[i] = q[i]
    BY <1>5, <1>6
  <1>8. ASSUME NEW i \in 1 .. k0 PROVE q2[n + i] = m[i]
    <2>1. n + i \in 1 .. n + k0 /\ ~(n + i <= n) /\ (n + i) - n = i
      BY <1>5, <1>8
    <2>2. q2[n + i] = m[(n + i) - n]
      BY <1>6, <2>1
    <2> QED BY <2>1, <2>2
  <1>9. ASSUME NEW k \in n + 1 .. l PROVE \E i \in 1 .. k0 : k = n + i /\ q2[k] = m[i]
    <2>1. k - n \in 1 .. k0 /\ k = n + (k - n)
      BY <1>5, <1>9
    <2> QED BY <1>8, <2>1
  <1>10. n <= l
    BY <1>5
  <1>11. Extends(q, q2)
    BY <1>1, <1>3, <1>7, <1>10 DEF Extends, n, l
  <1> QED BY <1>4, <1>5, <1>8, <1>9, <1>11 DEF n, k0, l

LEMMA PostFacts ==
  ASSUME TypeOK, NEW more, \A b \in Buds : more[b] \in Seq(Event), Post(more)
  PROVE  /\ evts' \in [Buds -> Seq(Items)]
         /\ \A b \in Buds : Posted(evts[b], more[b], evts'[b])
  <1>1. \A b \in Buds : Posted(evts[b], more[b], evts'[b])
    BY StackTypes DEF Post, Posted
  <1>2. \A b \in Buds : evts'[b] \in Seq(Items)
    <2>1. SUFFICES ASSUME NEW b \in Buds PROVE evts'[b] \in Seq(Items)
      OBVIOUS
    <2>2. Posted(evts[b], more[b], evts'[b])
      BY <1>1
    <2>3. Extends(evts[b], evts'[b])
      BY <2>2, PostedFacts, Zenon
    <2> QED BY <2>3 DEF Extends
  <1> QED BY <1>1, <1>2 DEF Post

\* What the events posted can be.
LEMMA EventFacts ==
  /\ \A e \in Event : ~TellsCharging(e) /\ ~TellsSetting(e)
                      /\ (e.kind \in {"role", "phone", "on", "dual"} => ~OfLink(e) /\ ~IsDown(e) /\ ~IsUp(e))
  /\ \A link \in Links : /\ State(link) \in Seq(Event) /\ Len(State(link)) = 1
                         /\ State(link)[1].kind = "state" /\ State(link)[1].link = link
  /\ \A role \in Roles : /\ Role(role) \in Seq(Event) /\ Len(Role(role)) = 1
                         /\ Role(role)[1].kind = "role" /\ Role(role)[1].role = role
  /\ \A e \in Event : <<e>> \in Seq(Event) /\ Len(<<e>>) = 1 /\ <<e>>[1] = e
  /\ <<>> \in Seq(Event) /\ Len(<<>>) = 0
  <1>1. \A e \in Event : ~TellsCharging(e) /\ ~TellsSetting(e)
             /\ (e.kind \in {"role", "phone", "on", "dual"} => ~OfLink(e) /\ ~IsDown(e) /\ ~IsUp(e))
    BY DEF Event, TellsCharging, TellsSetting, OfLink, IsDown, IsUp
  <1>2. \A e \in Event : <<e>> \in Seq(Event) /\ Len(<<e>>) = 1 /\ <<e>>[1] = e
    OBVIOUS
  <1>3. ASSUME NEW link \in Links
        PROVE  /\ State(link) \in Seq(Event) /\ Len(State(link)) = 1
               /\ State(link)[1].kind = "state" /\ State(link)[1].link = link
    <2>1. [kind |-> "state", link |-> link] \in Event
      BY DEF Event
    <2> QED BY <1>2, <2>1 DEF State
  <1>4. ASSUME NEW role \in Roles
        PROVE  /\ Role(role) \in Seq(Event) /\ Len(Role(role)) = 1
               /\ Role(role)[1].kind = "role" /\ Role(role)[1].role = role
    <2>1. [kind |-> "role", role |-> role] \in Event
      BY DEF Event
    <2> QED BY <1>2, <2>1 DEF Role
  <1> QED BY <1>1, <1>2, <1>3, <1>4

LEMMA JoinFacts ==
  ASSUME NEW s \in Seq(Event), Len(s) = 1, NEW t \in Seq(Event), Len(t) <= 1
  PROVE  /\ s \o t \in Seq(Event) /\ Len(s \o t) = 1 + Len(t) /\ (s \o t)[1] = s[1]
         /\ Len(t) = 1 => (s \o t)[2] = t[1]
         /\ t \o s \in Seq(Event) /\ Len(t \o s) = 1 + Len(t) /\ (t \o s)[1 + Len(t)] = s[1]
         /\ Len(t) = 1 => (t \o s)[1] = t[1]
  <1>1. Len(t) \in Nat
    OBVIOUS
  <1> QED BY <1>1, ConcatProperties

\* Neither a role nor the end of the link nor a message is added.
Quiet(q, q2) ==
  Extends(q, q2) /\ \A k \in Len(q) + 1 .. Len(q2) :
    ~IsDown(q2[k]) /\ ~TellsCharging(q2[k]) /\ ~TellsSetting(q2[k])
NoNewRole(q, q2) == \A k \in Len(q) + 1 .. Len(q2) : q2[k].kind # "role"

\* The last role added, or the one before, is what the bud will have.
LEMMA RoleAppend ==
  ASSUME NEW q, NEW q2, Extends(q, q2), NEW role
  PROVE  /\ \A r : RoleIs(q, role, Len(q) + 1, r) /\ NoNewRole(q, q2)
                     => RoleIs(q2, role, Len(q2) + 1, r)
         /\ \A k \in 1 .. Len(q2) : q2[k].kind = "role" /\ NoRole(q2, k)
                     => RoleIs(q2, role, Len(q2) + 1, q2[k].role)
  <1>1. Len(q) \in Nat /\ Len(q2) \in Nat /\ Len(q) <= Len(q2)
    BY ExtendsFacts
  <1>2. (Len(q2) + 1) - 1 = Len(q2) /\ Len(q2) + 1 \in Len(q) + 1 .. Len(q2) + 1
    BY <1>1
  <1>3. ASSUME NEW r, RoleIs(q, role, Len(q) + 1, r), NoNewRole(q, q2)
        PROVE  RoleIs(q2, role, Len(q2) + 1, r)
    <2>1. \A j \in Len(q) + 1 .. Len(q2) + 1 :
            RoleIs(q, role, Len(q) + 1, r) /\ (\A k \in Len(q) + 1 .. j - 1 : q2[k].kind # "role")
                => RoleIs(q2, role, j, r)
      BY RoleExtend, Zenon
    <2>2. \A k \in Len(q) + 1 .. (Len(q2) + 1) - 1 : q2[k].kind # "role"
      BY <1>2, <1>3 DEF NoNewRole
    <2> QED BY <1>2, <1>3, <2>1, <2>2
  <1>4. ASSUME NEW k \in 1 .. Len(q2), q2[k].kind = "role", NoRole(q2, k)
        PROVE  RoleIs(q2, role, Len(q2) + 1, q2[k].role)
    <2>1. k # 0 /\ k \in 0 .. (Len(q2) + 1) - 1
      BY <1>1
    <2>2. \A i \in k + 1 .. (Len(q2) + 1) - 1 : q2[i].kind # "role"
      BY <1>2, <1>4 DEF NoRole
    <2> QED BY <1>4, <2>1, <2>2 DEF RoleIs
  <1> QED BY <1>3, <1>4

\* The link is down at last.
LEMMA EndAppend ==
  ASSUME NEW q, NEW q2, Extends(q, q2), NEW link
  PROVE  /\ EndComes(q, link) /\ (\A k \in Len(q) + 1 .. Len(q2) : ~OfLink(q2[k])) => EndComes(q2, link)
         /\ \A k \in 1 .. Len(q2) : k = Len(q2) /\ IsDown(q2[k]) => EndComes(q2, link)
  <1> DEFINE n == Len(q)
             l == Len(q2)
  <1>1. n \in Nat /\ l \in Nat /\ n <= l /\ \A k \in 1 .. n : q2[k] = q[k]
    BY ExtendsFacts
  <1> HIDE DEF n, l
  <1>2. ASSUME EndComes(q, link), \A k \in n + 1 .. l : ~OfLink(q2[k]) PROVE EndComes(q2, link)
    <2>1. PICK d \in 0 .. n : DownAt(q, link, d) /\ \A k \in d + 1 .. n : ~OfLink(q[k])
      BY <1>2 DEF EndComes, n
    <2>2. d \in 0 .. l /\ (d = 0 \/ d \in 1 .. n)
      BY <1>1
    <2>3. DownAt(q2, link, d)
      BY <1>1, <2>1, <2>2 DEF DownAt
    <2>4. ASSUME NEW k \in d + 1 .. l PROVE ~OfLink(q2[k])
      <3>1. (k \in d + 1 .. n /\ k \in 1 .. n) \/ k \in n + 1 .. l
        BY <1>1, <2>4
      <3> QED BY <1>1, <1>2, <2>1, <3>1
    <2> QED BY <2>2, <2>3, <2>4 DEF EndComes, l
  <1>3. ASSUME NEW k \in 1 .. l, k = l, IsDown(q2[k]) PROVE EndComes(q2, link)
    <2>1. k \in 0 .. l /\ k # 0 /\ k + 1 .. l = {}
      BY <1>1, <1>3
    <2> QED BY <1>3, <2>1 DEF EndComes, DownAt, l
  <1> QED BY <1>2, <1>3 DEF n, l

\* The link is there again, and a bud that is not linked sees it come.
LEMMA RestartAppend ==
  ASSUME NEW q, NEW q2, Extends(q, q2), NEW link, EndComes(q, link),
         NEW j \in Len(q) + 1 .. Len(q2), IsUp(q2[j]),
         \A k \in Len(q) + 1 .. Len(q2) : k # j => ~OfLink(q2[k])
  PROVE  Restart(q2, link, j)
  <1> DEFINE n == Len(q)
             l == Len(q2)
  <1>1. n \in Nat /\ l \in Nat /\ n <= l /\ \A k \in 1 .. n : q2[k] = q[k]
    BY ExtendsFacts
  <1>2. j \in n + 1 .. l
    OBVIOUS
  <1>3. \A k \in n + 1 .. l : k # j => ~OfLink(q2[k])
    OBVIOUS
  <1> HIDE DEF n, l
  <1>4. PICK d \in 0 .. n : DownAt(q, link, d) /\ \A k \in d + 1 .. n : ~OfLink(q[k])
    BY DEF EndComes, n
  <1>5. d \in 0 .. j - 1 /\ (d = 0 \/ d \in 1 .. n) /\ j \in 1 .. l
    BY <1>1, <1>2
  <1>6. DownAt(q2, link, d)
    BY <1>1, <1>4, <1>5 DEF DownAt
  <1>7. ASSUME NEW k \in d + 1 .. j - 1 PROVE ~OfLink(q2[k])
    <2>1. (k \in d + 1 .. n /\ k \in 1 .. n) \/ (k \in n + 1 .. l /\ k # j)
      BY <1>1, <1>2, <1>7
    <2> QED BY <1>1, <1>3, <1>4, <2>1
  <1>8. ASSUME NEW k \in j + 1 .. l PROVE ~IsDown(q2[k])
    <2>1. k \in n + 1 .. l /\ k # j
      BY <1>1, <1>2, <1>8
    <2>2. ~OfLink(q2[k])
      BY <1>3, <2>1
    <2> QED BY <2>2 DEF OfLink, IsDown
  <1> QED BY <1>5, <1>6, <1>7, <1>8 DEF Restart, l

\* What the buds know of each other, when the events posted do not end the link.
LEMMA QuietFacts ==
  ASSUME NEW q, NEW q2, Quiet(q, q2), NEW x, RestartDue(q, x.link)
  PROVE  /\ Grows(q, q2) /\ RestartDue(q2, x.link)
         /\ Restarts(q, x.link) => Restarts(q2, x.link)
         /\ Excused(q, x) => Excused(q2, x)
         /\ \A charging : Known(q, x, charging) => Known(q2, x, charging)
         /\ \A v : Firm(q, x, v) => Firm(q2, x, v)
  <1>1. Grows(q, q2) /\ Extends(q, q2)
    BY DEF Quiet, Grows
  <1>2. \A k \in Len(q) + 1 .. Len(q2) : ~TellsCharging(q2[k]) /\ ~TellsSetting(q2[k])
    BY DEF Quiet
  <1>3. RestartDue(q2, x.link)
    BY <1>1, RestartGrows
  <1>4. (Restarts(q, x.link) => Restarts(q2, x.link)) /\ (Excused(q, x) => Excused(q2, x))
    BY <1>1, ExcusedGrows
  <1>5. \A charging : Known(q, x, charging) => Known(q2, x, charging)
    BY <1>1, <1>2, KnownGrows
  <1>6. \A v : Firm(q, x, v) => Firm(q2, x, v)
    BY <1>1, <1>2, FirmGrows
  <1> QED BY <1>1, <1>3, <1>4, <1>5, <1>6

\* Both buds' queues grow quietly: the roles may be others then.
LEMMA QuietSound ==
  ASSUME NEW l, NEW l2, NEW x, NEW q, NEW y, NEW r, NEW mine, NEW other, NEW q2, NEW r2,
         Sound(l, x, q, y, r, mine, other), RestartDue(r, y.link), l # "down", l2 # "down",
         Quiet(q, q2), Quiet(r, r2), NEW mine2, NEW other2,
         RoleIs(q2, x.role, Len(q2) + 1, mine2),
         other2 = "master" => ToldIsFirm(q2, x, r2, y)
  PROVE  Sound(l2, x, q2, y, r2, mine2, other2)
  <1>1. /\ RestartDue(q, x.link) /\ Agreeing(q, x, r, y)
        /\ "charging" \in x.unsaid \/ Restarts(q, x.link) \/ Known(r, y, x.charging)
    BY DEF Sound
  <1>2. /\ RestartDue(q2, x.link) /\ (Restarts(q, x.link) => Restarts(q2, x.link))
        /\ Excused(q, x) => Excused(q2, x)
        /\ \A v : Firm(q, x, v) => Firm(q2, x, v)
    BY <1>1, QuietFacts
  <1>3. /\ Excused(r, y) => Excused(r2, y)
        /\ \A charging : Known(r, y, charging) => Known(r2, y, charging)
        /\ \A v : Firm(r, y, v) => Firm(r2, y, v)
    BY QuietFacts
  <1>4. Agreeing(q2, x, r2, y)
    BY <1>1, <1>2, <1>3 DEF Agreeing
  <1> QED BY <1>1, <1>2, <1>3, <1>4 DEF Sound

LEMMA QuietTold ==
  ASSUME NEW q, NEW q2, NEW x, NEW r, NEW r2, NEW y, Quiet(q, q2), Quiet(r, r2),
         RestartDue(q, x.link), RestartDue(r, y.link), ToldIsFirm(q, x, r, y)
  PROVE  ToldIsFirm(q2, x, r2, y)
  <1>1. Grows(q, q2) /\ \A k \in Len(q) + 1 .. Len(q2) : ~TellsSetting(q2[k])
    BY DEF Quiet, Grows
  <1>2. ToldIsFirm(q2, x, r, y)
    BY <1>1, ToldGrows
  <1>3. /\ Excused(r, y) => Excused(r2, y)
        /\ \A v : Firm(r, y, v) => Firm(r2, y, v) \/ Excused(r2, y)
    BY QuietFacts
  <1> QED BY <1>2, <1>3, ToldAnswer

\* Nothing changes but the queues.
LEMMA QuietPair ==
  ASSUME NEW l, NEW l2, NEW x, NEW q, NEW y, NEW r, NEW mine, NEW other, NEW q2, NEW r2,
         SoundPair(l, x, q, y, r, mine, other), l # "down", l2 # "down",
         Quiet(q, q2), Quiet(r, r2), NoNewRole(q, q2), NoNewRole(r, r2)
  PROVE  SoundPair(l2, x, q2, y, r2, mine, other)
  <1>1. /\ Sound(l, x, q, y, r, mine, other) /\ Sound(l, y, r, x, q, other, mine)
        /\ mine \in Roles /\ other \in Roles /\ mine # other
    BY DEF SoundPair
  <1>2. /\ RestartDue(q, x.link) /\ RestartDue(r, y.link)
        /\ RoleIs(q, x.role, Len(q) + 1, mine) /\ RoleIs(r, y.role, Len(r) + 1, other)
        /\ other = "master" => ToldIsFirm(q, x, r, y)
        /\ mine = "master" => ToldIsFirm(r, y, q, x)
    BY <1>1 DEF Sound
  <1>3. Extends(q, q2) /\ Extends(r, r2)
    BY DEF Quiet
  <1>4. RoleIs(q2, x.role, Len(q2) + 1, mine) /\ RoleIs(r2, y.role, Len(r2) + 1, other)
    BY <1>2, <1>3, RoleAppend
  <1>5. other = "master" => ToldIsFirm(q2, x, r2, y)
    BY <1>2, QuietTold
  <1>6. mine = "master" => ToldIsFirm(r2, y, q2, x)
    BY <1>2, QuietTold
  <1>7. Sound(l2, x, q2, y, r2, mine, other)
    BY <1>1, <1>2, <1>4, <1>5, QuietSound
  <1>8. Sound(l2, y, r2, x, q2, other, mine)
    BY <1>1, <1>2, <1>4, <1>6, QuietSound
  <1> QED BY <1>1, <1>7, <1>8 DEF SoundPair

\* The roles have been switched, which both buds are told before they are told that
\* the switch is over (SwitchEnd).
Switched(q, q2, role) ==
  /\ Extends(q, q2) /\ Len(q2) = Len(q) + 2
  /\ q2[Len(q) + 1].kind = "role" /\ q2[Len(q) + 1].role = role
  /\ q2[Len(q) + 2].kind = "state" /\ q2[Len(q) + 2].link = "connected"

LEMMA SwitchedFacts ==
  ASSUME NEW q, NEW q2, NEW role, Switched(q, q2, role), NEW x, RestartDue(q, x.link), NEW r, NEW y
  PROVE  /\ Quiet(q, q2) /\ RoleIs(q2, x.role, Len(q2) + 1, role)
         /\ ToldIsFirm(q2, x, r, y)
  <1> DEFINE n == Len(q)
  <1>1. n \in Nat
    BY ExtendsFacts DEF Switched
  <1>2. /\ Extends(q, q2) /\ Len(q2) = n + 2
        /\ q2[n + 1].kind = "role" /\ q2[n + 1].role = role
        /\ q2[n + 2].kind = "state" /\ q2[n + 2].link = "connected"
    BY DEF Switched
  <1> HIDE DEF n
  <1>3. \A k \in n + 1 .. Len(q2) : k = n + 1 \/ k = n + 2
    BY <1>1, <1>2
  <1>4. Quiet(q, q2)
    BY <1>2, <1>3 DEF Quiet, IsDown, TellsCharging, TellsSetting, n
  <1>5. NoRole(q2, n + 1)
    <2>1. \A k \in (n + 1) + 1 .. Len(q2) : k = n + 2
      BY <1>1, <1>2
    <2> QED BY <1>2, <2>1 DEF NoRole
  <1>6. n + 1 \in 1 .. Len(q2)
    BY <1>1, <1>2
  <1>7. RoleIs(q2, x.role, Len(q2) + 1, role)
    <2>1. RoleIs(q2, x.role, Len(q2) + 1, q2[n + 1].role)
      BY <1>2, <1>5, <1>6, RoleAppend
    <2> QED BY <1>2, <2>1
  <1>8. ASSUME NEW j \in 1 .. Len(q2), ToldAt(q2, x, j) PROVE FALSE
    <2>1. j \notin 1 .. n
      <3>1. SUFFICES ASSUME j \in 1 .. n PROVE FALSE
        OBVIOUS
      <3>2. n + 1 \in j + 1 .. Len(q2)
        BY <1>1, <1>2, <3>1
      <3> QED BY <1>2, <1>8, <3>2 DEF ToldAt, NoRole
    <2>2. j = n + 1 \/ j = n + 2
      BY <1>1, <1>2, <1>8, <2>1
    <2>3. ~TellsSetting(q2[j])
      BY <1>2, <2>2 DEF TellsSetting
    <2>4. ~Restart(q2, x.link, j)
      <3>1. Grows(q, q2)
        BY <1>4 DEF Quiet, Grows
      <3>2. \A i \in 1 .. Len(q2) : Restart(q2, x.link, i) => i \in 1 .. Len(q)
        BY <3>1, RestartGrows
      <3> QED BY <1>8, <2>1, <3>2 DEF n
    <2> QED BY <1>8, <2>3, <2>4 DEF ToldAt
  <1>9. ToldIsFirm(q2, x, r, y)
    BY <1>8 DEF ToldIsFirm
  <1> QED BY <1>4, <1>7, <1>9

LEMMA SwitchPair ==
  ASSUME NEW l, NEW l2, NEW x, NEW q, NEW y, NEW r, NEW mine, NEW other, NEW q2, NEW r2,
         SoundPair(l, x, q, y, r, mine, other), l # "down", l2 # "down",
         Switched(q, q2, other), Switched(r, r2, mine)
  PROVE  SoundPair(l2, x, q2, y, r2, other, mine)
  <1>1. /\ Sound(l, x, q, y, r, mine, other) /\ Sound(l, y, r, x, q, other, mine)
        /\ mine \in Roles /\ other \in Roles /\ mine # other
    BY DEF SoundPair
  <1>2. RestartDue(q, x.link) /\ RestartDue(r, y.link)
    BY <1>1 DEF Sound
  <1>3. Quiet(q, q2) /\ RoleIs(q2, x.role, Len(q2) + 1, other) /\ ToldIsFirm(q2, x, r2, y)
    BY <1>2, SwitchedFacts
  <1>4. Quiet(r, r2) /\ RoleIs(r2, y.role, Len(r2) + 1, mine) /\ ToldIsFirm(r2, y, q2, x)
    BY <1>2, SwitchedFacts
  <1>5. Sound(l2, x, q2, y, r2, other, mine)
    BY <1>1, <1>2, <1>3, <1>4, QuietSound
  <1>6. Sound(l2, y, r2, x, q2, mine, other)
    BY <1>1, <1>2, <1>3, <1>4, QuietSound
  <1> QED BY <1>1, <1>5, <1>6 DEF SoundPair

\* The stacks are linked: a bud is told, and of its role if that is another now.
Linked(q, q2, was, role) ==
  /\ Extends(q, q2) /\ \A k \in Len(q) + 1 .. Len(q2) : q2[k].kind = "role" \/ IsUp(q2[k])
  /\ \E j \in Len(q) + 1 .. Len(q2) :
       IsUp(q2[j]) /\ \A k \in Len(q) + 1 .. Len(q2) : k # j => ~IsUp(q2[k])
  /\ \/ role = was /\ NoNewRole(q, q2)
     \/ \E k \in Len(q) + 1 .. Len(q2) : q2[k].kind = "role" /\ q2[k].role = role /\ NoRole(q2, k)

LEMMA LinkedFacts ==
  ASSUME NEW q, NEW q2, NEW was, NEW role, Linked(q, q2, was, role), NEW x,
         EndComes(q, x.link), RoleIs(q, x.role, Len(q) + 1, was)
  PROVE  /\ RoleIs(q2, x.role, Len(q2) + 1, role)
         /\ RestartDue(q2, x.link) /\ Restarts(q2, x.link)
         /\ role = was /\ NoNewRole(q, q2) /\ role = "master" => RestartsAsMaster(q2, x)
  <1>1. /\ Extends(q, q2) /\ Len(q) \in Nat /\ Len(q2) \in Nat /\ Len(q) <= Len(q2)
        /\ \A k \in Len(q) + 1 .. Len(q2) : k \in 1 .. Len(q2)
    BY ExtendsFacts DEF Linked
  <1>2. RoleIs(q2, x.role, Len(q2) + 1, role)
    BY <1>1, RoleAppend DEF Linked
  <1>3. PICK j \in Len(q) + 1 .. Len(q2) :
          IsUp(q2[j]) /\ \A k \in Len(q) + 1 .. Len(q2) : k # j => ~IsUp(q2[k])
    BY DEF Linked
  <1>4. \A k \in Len(q) + 1 .. Len(q2) : k # j => ~OfLink(q2[k])
    <2>1. SUFFICES ASSUME NEW k \in Len(q) + 1 .. Len(q2), k # j PROVE ~OfLink(q2[k])
      OBVIOUS
    <2>2. q2[k].kind = "role"
      BY <1>3, <2>1 DEF Linked
    <2> QED BY <2>2 DEF OfLink
  <1>5. Restart(q2, x.link, j)
    BY <1>1, <1>3, <1>4, RestartAppend
  <1>6. Restarts(q2, x.link)
    BY <1>1, <1>5 DEF Restarts
  <1>7. ASSUME role = was, NoNewRole(q, q2), role = "master" PROVE RestartsAsMaster(q2, x)
    <2>1. \A i \in Len(q) + 1 .. Len(q2) + 1 :
            RoleIs(q, x.role, Len(q) + 1, "master") /\ (\A k \in Len(q) + 1 .. i - 1 : q2[k].kind # "role")
                => RoleIs(q2, x.role, i, "master")
      BY <1>1, RoleExtend, Zenon
    <2>2. j \in Len(q) + 1 .. Len(q2) + 1 /\ \A k \in Len(q) + 1 .. j - 1 : k \in Len(q) + 1 .. Len(q2)
      BY <1>1, <1>3
    <2>3. \A k \in Len(q) + 1 .. j - 1 : q2[k].kind # "role"
      BY <1>7, <2>2 DEF NoNewRole
    <2>4. RoleIs(q2, x.role, j, "master")
      BY <1>7, <2>1, <2>2, <2>3
    <2> QED BY <1>1, <1>3, <1>5, <2>4 DEF RestartsAsMaster
  <1> QED BY <1>2, <1>6, <1>7 DEF RestartDue

\* x is the master of the two.
LEMMA LinkPair ==
  ASSUME NEW l, NEW l2, NEW x, NEW q, NEW y, NEW r, NEW other, NEW q2, NEW r2,
         SoundPair(l, x, q, y, r, "master", other), l = "down", l2 # "down",
         Linked(q, q2, "master", "master"), NoNewRole(q, q2), Linked(r, r2, other, "slave")
  PROVE  SoundPair(l2, x, q2, y, r2, "master", "slave")
  <1>1. /\ EndComes(q, x.link) /\ EndComes(r, y.link)
        /\ RoleIs(q, x.role, Len(q) + 1, "master") /\ RoleIs(r, y.role, Len(r) + 1, other)
    BY DEF SoundPair, Sound
  <1>2. /\ RoleIs(q2, x.role, Len(q2) + 1, "master") /\ RestartDue(q2, x.link) /\ Restarts(q2, x.link)
        /\ RestartsAsMaster(q2, x)
    BY <1>1, LinkedFacts
  <1>3. RoleIs(r2, y.role, Len(r2) + 1, "slave") /\ RestartDue(r2, y.link) /\ Restarts(r2, y.link)
    BY <1>1, LinkedFacts
  <1>4. Agreeing(q2, x, r2, y) /\ Agreeing(r2, y, q2, x)
    BY <1>2 DEF Agreeing, Excused
  <1>5. ToldIsFirm(r2, y, q2, x)
    BY <1>2 DEF ToldIsFirm, Answered, Excused
  <1> QED BY <1>2, <1>3, <1>4, <1>5 DEF SoundPair, Sound, Roles

\* The link is down, or goes down.
Unlinked(l, q, q2) ==
  \/ l = "down" /\ q2 = q
  \/ l = "down" /\ Extends(q, q2) /\ \A k \in Len(q) + 1 .. Len(q2) : ~OfLink(q2[k])
  \/ Extends(q, q2) /\ Len(q2) > 0 /\ IsDown(q2[Len(q2)])

LEMMA UnlinkedFacts ==
  ASSUME NEW l, NEW q, NEW q2, Unlinked(l, q, q2), NEW link, l = "down" => EndComes(q, link)
  PROVE  EndComes(q2, link)
  <1>1. CASE l = "down" /\ q2 = q
    BY <1>1
  <1>2. CASE l = "down" /\ Extends(q, q2) /\ \A k \in Len(q) + 1 .. Len(q2) : ~OfLink(q2[k])
    BY <1>2, EndAppend
  <1>3. CASE Extends(q, q2) /\ Len(q2) > 0 /\ IsDown(q2[Len(q2)])
    <2>1. Len(q2) \in 1 .. Len(q2)
      BY <1>3, ExtendsFacts
    <2> QED BY <1>3, <2>1, EndAppend
  <1> QED BY <1>1, <1>2, <1>3 DEF Unlinked

LEMMA DownPair ==
  ASSUME NEW l, NEW x, NEW q, NEW y, NEW r, NEW mine, NEW other, NEW q2, NEW r2,
         SoundPair(l, x, q, y, r, mine, other), Unlinked(l, q, q2), Unlinked(l, r, r2),
         NEW mine2 \in Roles, NEW other2 \in Roles,
         RoleIs(q2, x.role, Len(q2) + 1, mine2), RoleIs(r2, y.role, Len(r2) + 1, other2)
  PROVE  SoundPair("down", x, q2, y, r2, mine2, other2)
  <1>1. l = "down" => EndComes(q, x.link) /\ EndComes(r, y.link)
    BY DEF SoundPair, Sound
  <1>2. EndComes(q2, x.link) /\ EndComes(r2, y.link)
    BY <1>1, UnlinkedFacts
  <1> QED BY <1>2 DEF SoundPair, Sound

StackType == [link : Links, asked : BOOLEAN, on : [Buds -> BOOLEAN], role : [Buds -> Roles]]

\* Steps of the stacks leave the buds alone.
LEMMA StackStep ==
  ASSUME IInv, UNCHANGED bud, stack' \in StackType, inputs' \in 0 .. MaxInputs,
         faults' \in 0 .. MaxFaults, NEW more, \A c \in Buds : more[c] \in Seq(Event), Post(more),
         NEW b \in Buds
  PROVE  /\ Posted(evts[b], more[b], evts'[b]) /\ Posted(evts[Peer(b)], more[Peer(b)], evts'[Peer(b)])
         /\ SoundPair(stack'.link, bud[b], evts'[b], bud[Peer(b)], evts'[Peer(b)],
                      stack'.role[b], stack'.role[Peer(b)]) => IInv'
  <1>1. TypeOK /\ Peer(b) \in Buds
    BY PeerFacts DEF IInv
  <1>2. /\ evts' \in [Buds -> Seq(Items)]
        /\ \A c \in Buds : Posted(evts[c], more[c], evts'[c])
    BY <1>1, PostFacts
  <1>3. TypeOK'
    BY <1>1, <1>2 DEF TypeOK, Items, StackType
  <1>4. SoundPair(stack'.link, bud[b], evts'[b], bud[Peer(b)], evts'[Peer(b)],
                  stack'.role[b], stack'.role[Peer(b)]) => IInv'
    BY <1>3, PairIsEnough
  <1> QED BY <1>1, <1>2, <1>4

\* The queue of a bud that is told nothing, of one that is told one event.
LEMMA PostedOne ==
  ASSUME NEW q, NEW m, NEW q2, Posted(q, m, q2)
  PROVE  /\ Len(m) = 0 => q2 = q /\ Len(q2) = Len(q)
         /\ Len(m) = 1 => Len(q2) = Len(q) + 1 /\ q2[Len(q2)] = m[1]
         /\ Extends(q, q2) /\ Len(q) \in Nat
         /\ \A k \in Len(q) + 1 .. Len(q2) : \E i \in 1 .. Len(m) : k = Len(q) + i /\ q2[k] = m[i]
  <1>1. /\ Extends(q, q2) /\ Len(q) \in Nat /\ Len(m) \in Nat /\ Len(q2) = Len(q) + Len(m)
        /\ \A i \in 1 .. Len(m) : m[i] \in Event /\ q2[Len(q) + i] = m[i]
        /\ \A k \in Len(q) + 1 .. Len(q2) : \E i \in 1 .. Len(m) : k = Len(q) + i /\ q2[k] = m[i]
    BY PostedFacts
  <1>2. ASSUME Len(m) = 0 PROVE q2 = q /\ Len(q2) = Len(q)
    <2>1. q \in Seq(Items) /\ m \in Seq(Event) /\ q2 = q \o m
      BY DEF Posted
    <2>2. m = <<>>
      BY <1>2, <2>1, EmptySeq
    <2> QED BY <2>1, <2>2, ConcatEmptySeq
  <1>3. ASSUME Len(m) = 1 PROVE Len(q2) = Len(q) + 1 /\ q2[Len(q2)] = m[1]
    <2>1. 1 \in 1 .. Len(m)
      BY <1>3
    <2> QED BY <1>1, <1>3, <2>1
  <1> QED BY <1>1, <1>2, <1>3

LEMMA OneEvent ==
  ASSUME IInv, UNCHANGED bud, stack' \in StackType, inputs' \in 0 .. MaxInputs,
         faults' \in 0 .. MaxFaults, stack'.link = stack.link, stack'.role = stack.role,
         NEW b \in Buds, NEW e \in Event, e.kind \in {"on", "phone", "dual"},
         Post(ToOne(b, <<e>>))
  PROVE  IInv'
  <1> DEFINE p == Peer(b)
             more == ToOne(b, <<e>>)
             l == stack.link
  <1>1. /\ more[b] = <<e>> /\ more[p] = <<>> /\ \A c \in Buds : more[c] \in Seq(Event)
        /\ Len(more[b]) = 1 /\ more[b][1] = e /\ Len(more[p]) = 0
    BY PeerFacts, EventFacts DEF ToOne
  <1> HIDE DEF more
  <1>2. /\ Posted(evts[b], more[b], evts'[b]) /\ Posted(evts[p], more[p], evts'[p])
        /\ SoundPair(l, bud[b], evts'[b], bud[p], evts'[p], stack.role[b], stack.role[p]) => IInv'
    BY <1>1, StackStep DEF more
  <1>3. SoundPair(l, bud[b], evts[b], bud[p], evts[p], stack.role[b], stack.role[p])
    BY PairOf
  <1> HIDE DEF p, l
  <1>4. /\ Extends(evts[b], evts'[b]) /\ \A k \in Len(evts[b]) + 1 .. Len(evts'[b]) : evts'[b][k] = e
        /\ Extends(evts[p], evts'[p]) /\ Len(evts[p]) + 1 .. Len(evts'[p]) = {} /\ evts'[p] = evts[p]
    <2>1. /\ Extends(evts[b], evts'[b])
          /\ \A k \in Len(evts[b]) + 1 .. Len(evts'[b]) :
               \E i \in 1 .. Len(more[b]) : k = Len(evts[b]) + i /\ evts'[b][k] = more[b][i]
      <3> DEFINE q == evts[b]
                 q2 == evts'[b]
                 m == more[b]
      <3>1. Posted(q, m, q2)
        BY <1>2
      <3> HIDE DEF q, q2, m
      <3>2. /\ Extends(q, q2)
            /\ \A k \in Len(q) + 1 .. Len(q2) : \E i \in 1 .. Len(m) : k = Len(q) + i /\ q2[k] = m[i]
        BY <3>1, PostedOne
      <3> QED BY <3>2 DEF q, q2, m
    <2>2. \A i \in 1 .. Len(more[b]) : more[b][i] = e
      BY <1>1
    <2>3. Extends(evts[p], evts'[p]) /\ evts'[p] = evts[p] /\ Len(evts[p]) \in Nat
      BY <1>1, <1>2, PostedOne
    <2>4. Len(evts[p]) + 1 .. Len(evts'[p]) = {}
      BY <2>3
    <2> QED BY <2>1, <2>2, <2>3, <2>4
  <1>5. ~OfLink(e) /\ ~IsDown(e) /\ ~TellsCharging(e) /\ ~TellsSetting(e) /\ e.kind # "role"
    BY EventFacts
  <1>6. NoNewRole(evts[b], evts'[b]) /\ NoNewRole(evts[p], evts'[p])
    BY <1>4, <1>5 DEF NoNewRole
  <1>7. CASE l = "down"
    <2>1. Unlinked(l, evts[b], evts'[b]) /\ Unlinked(l, evts[p], evts'[p])
      BY <1>4, <1>5, <1>7 DEF Unlinked
    <2>2. /\ RoleIs(evts[b], bud[b].role, Len(evts[b]) + 1, stack.role[b])
          /\ RoleIs(evts[p], bud[p].role, Len(evts[p]) + 1, stack.role[p])
          /\ stack.role[b] \in Roles /\ stack.role[p] \in Roles
      BY <1>3 DEF SoundPair, Sound
    <2>3. /\ RoleIs(evts'[b], bud[b].role, Len(evts'[b]) + 1, stack.role[b])
          /\ RoleIs(evts'[p], bud[p].role, Len(evts'[p]) + 1, stack.role[p])
      BY <1>4, <1>6, <2>2, RoleAppend
    <2>4. SoundPair("down", bud[b], evts'[b], bud[p], evts'[p], stack.role[b], stack.role[p])
      BY <1>3, <2>1, <2>2, <2>3, DownPair
    <2> QED BY <1>2, <1>7, <2>4
  <1>8. CASE l # "down"
    <2>1. Quiet(evts[b], evts'[b]) /\ Quiet(evts[p], evts'[p])
      BY <1>4, <1>5 DEF Quiet
    <2>2. SoundPair(l, bud[b], evts'[b], bud[p], evts'[p], stack.role[b], stack.role[p])
      BY <1>3, <1>6, <1>8, <2>1, QuietPair
    <2> QED BY <1>2, <2>2
  <1> QED BY <1>7, <1>8

LEMMA BecomeMasterStep ==
  ASSUME IInv, NEW b \in Buds, BecomeMaster(b), inputs' \in 0 .. MaxInputs,
         faults' \in 0 .. MaxFaults, stack' \in StackType
  PROVE  IInv'
  <1> DEFINE p == Peer(b)
             more == ToOne(b, Role("master"))
             q == evts[b]
             q2 == evts'[b]
             r == evts[p]
             r2 == evts'[p]
  <1>0. p \in Buds /\ p # b /\ "master" \in Roles
    BY PeerFacts DEF Roles
  <1>1. /\ stack.link = "down" /\ stack'.link = "down" /\ UNCHANGED bud
        /\ stack'.role = [stack.role EXCEPT ![b] = "master"] /\ Post(more)
    BY StackTypes DEF BecomeMaster, IInv, TypeOK
  <1>2. stack'.role[b] = "master" /\ stack'.role[p] = stack.role[p] /\ stack.role[p] \in Roles
    BY <1>0, <1>1, StackTypes DEF IInv
  <1>3. /\ more[b] = Role("master") /\ more[p] = <<>> /\ \A c \in Buds : more[c] \in Seq(Event)
        /\ Len(more[b]) = 1 /\ more[b][1].kind = "role" /\ more[b][1].role = "master"
        /\ Len(more[p]) = 0
    BY <1>0, EventFacts DEF ToOne
  <1> HIDE DEF more
  <1>4. /\ Posted(q, more[b], q2) /\ Posted(r, more[p], r2)
        /\ SoundPair(stack'.link, bud[b], q2, bud[p], r2, stack'.role[b], stack'.role[p]) => IInv'
    BY <1>1, <1>3, StackStep
  <1>5. SoundPair(stack.link, bud[b], q, bud[p], r, stack.role[b], stack.role[p])
    BY PairOf
  <1> HIDE DEF p, q, q2, r, r2
  <1>6. Extends(q, q2) /\ Len(q) \in Nat /\ Len(q2) = Len(q) + 1 /\ q2[Len(q2)] = more[b][1]
    BY <1>3, <1>4, PostedOne
  <1>7. r2 = r /\ Len(r2) = Len(r)
    BY <1>3, <1>4, PostedOne
  <1>8. Unlinked("down", q, q2) /\ Unlinked("down", r, r2)
    <2>1. \A k \in Len(q) + 1 .. Len(q2) : k = Len(q2)
      BY <1>6
    <2>2. \A k \in Len(q) + 1 .. Len(q2) : ~OfLink(q2[k])
      BY <1>3, <1>6, <2>1 DEF OfLink
    <2> QED BY <1>6, <1>7, <2>2 DEF Unlinked
  <1>9. RoleIs(q2, bud[b].role, Len(q2) + 1, "master")
    <2>1. Len(q2) \in 1 .. Len(q2) /\ Len(q2) + 1 .. Len(q2) = {}
      BY <1>6
    <2>2. q2[Len(q2)].kind = "role" /\ q2[Len(q2)].role = "master" /\ NoRole(q2, Len(q2))
      BY <1>3, <1>6, <2>1 DEF NoRole
    <2> QED BY <1>6, <2>1, <2>2, RoleAppend
  <1>10. RoleIs(r2, bud[p].role, Len(r2) + 1, stack.role[p])
    BY <1>5, <1>7 DEF SoundPair, Sound
  <1>11. SoundPair("down", bud[b], q2, bud[p], r2, "master", stack.role[p])
    BY <1>0, <1>1, <1>2, <1>5, <1>8, <1>9, <1>10, DownPair
  <1> QED BY <1>1, <1>2, <1>4, <1>11

\* Both buds are told of the link what is not its end.
LEMMA LinkToBoth ==
  ASSUME IInv, UNCHANGED bud, stack' \in StackType, inputs' \in 0 .. MaxInputs,
         faults' \in 0 .. MaxFaults, stack.link # "down", stack'.role = stack.role,
         NEW link \in Links, link # "down", stack'.link = link, Post(ToBoth(State(link)))
  PROVE  IInv'
  <1> DEFINE more == ToBoth(State(link))
  <1>1. \A c \in Buds : /\ more[c] \in Seq(Event) /\ Len(more[c]) = 1
                        /\ more[c][1].kind = "state" /\ more[c][1].link = link
    BY EventFacts DEF ToBoth
  <1> HIDE DEF more
  <1>2. PICK b \in Buds : TRUE
    BY DEF Buds
  <1> DEFINE p == Peer(b)
  <1>3. p \in Buds
    BY PeerFacts
  <1>4. /\ Posted(evts[b], more[b], evts'[b]) /\ Posted(evts[p], more[p], evts'[p])
        /\ SoundPair(stack'.link, bud[b], evts'[b], bud[p], evts'[p], stack'.role[b], stack'.role[p]) => IInv'
    BY <1>1, StackStep DEF more
  <1>5. SoundPair(stack.link, bud[b], evts[b], bud[p], evts[p], stack.role[b], stack.role[p])
    BY PairOf
  <1> HIDE DEF p
  <1>6. ASSUME NEW c \in Buds, Posted(evts[c], more[c], evts'[c])
        PROVE  Quiet(evts[c], evts'[c]) /\ NoNewRole(evts[c], evts'[c])
    <2>1. /\ Extends(evts[c], evts'[c]) /\ Len(evts[c]) \in Nat /\ Len(evts'[c]) = Len(evts[c]) + 1
          /\ evts'[c][Len(evts'[c])] = more[c][1]
      BY <1>1, <1>6, PostedOne
    <2>2. \A k \in Len(evts[c]) + 1 .. Len(evts'[c]) : k = Len(evts'[c])
      BY <2>1
    <2>3. \A k \in Len(evts[c]) + 1 .. Len(evts'[c]) : evts'[c][k].kind = "state" /\ evts'[c][k].link # "down"
      BY <1>1, <2>1, <2>2
    <2> QED BY <2>1, <2>3 DEF Quiet, NoNewRole, IsDown, TellsCharging, TellsSetting
  <1>7. /\ Quiet(evts[b], evts'[b]) /\ NoNewRole(evts[b], evts'[b])
        /\ Quiet(evts[p], evts'[p]) /\ NoNewRole(evts[p], evts'[p])
    BY <1>3, <1>4, <1>6
  <1>8. SoundPair(link, bud[b], evts'[b], bud[p], evts'[p], stack.role[b], stack.role[p])
    BY <1>5, <1>7, QuietPair
  <1> QED BY <1>4, <1>8

\* The link ends: a bud hears of it, or is switched off, or both.
LEMMA LinkEnds ==
  ASSUME IInv, UNCHANGED bud, stack' \in StackType, inputs' \in 0 .. MaxInputs,
         faults' \in 0 .. MaxFaults, stack'.link = "down", stack'.role = stack.role,
         NEW more, \A c \in Buds : more[c] \in Seq(Event), Post(more),
         \A c \in Buds :
           \/ stack.link = "down" /\ Len(more[c]) = 0
           \/ Len(more[c]) > 0 /\ IsDown(more[c][Len(more[c])])
                /\ \A i \in 1 .. Len(more[c]) : more[c][i].kind # "role"
  PROVE  IInv'
  <1>2. PICK b \in Buds : TRUE
    BY DEF Buds
  <1> DEFINE p == Peer(b)
             l == stack.link
  <1>3. p \in Buds
    BY PeerFacts
  <1>4. /\ Posted(evts[b], more[b], evts'[b]) /\ Posted(evts[p], more[p], evts'[p])
        /\ SoundPair(stack'.link, bud[b], evts'[b], bud[p], evts'[p], stack'.role[b], stack'.role[p]) => IInv'
    BY StackStep
  <1>5. SoundPair(l, bud[b], evts[b], bud[p], evts[p], stack.role[b], stack.role[p])
    BY PairOf
  <1> HIDE DEF p
  <1>6. ASSUME NEW c \in Buds, Posted(evts[c], more[c], evts'[c]), NEW role,
               RoleIs(evts[c], bud[c].role, Len(evts[c]) + 1, role)
        PROVE  /\ Unlinked(l, evts[c], evts'[c])
               /\ RoleIs(evts'[c], bud[c].role, Len(evts'[c]) + 1, role)
    <2> DEFINE q == evts[c]
               q2 == evts'[c]
               m == more[c]
    <2>1. Posted(q, m, q2) /\ RoleIs(q, bud[c].role, Len(q) + 1, role)
      BY <1>6
    <2>2. \/ l = "down" /\ Len(m) = 0
          \/ Len(m) > 0 /\ IsDown(m[Len(m)]) /\ \A i \in 1 .. Len(m) : m[i].kind # "role"
      OBVIOUS
    <2> HIDE DEF q, q2, m, l
    <2>3. CASE l = "down" /\ Len(m) = 0
      <3>1. q2 = q
        BY <2>1, <2>3, PostedOne
      <3> QED BY <2>1, <2>3, <3>1 DEF Unlinked, q, q2
    <2>4. CASE Len(m) > 0 /\ IsDown(m[Len(m)]) /\ \A i \in 1 .. Len(m) : m[i].kind # "role"
      <3>1. /\ Extends(q, q2) /\ Len(q) \in Nat /\ Len(m) \in Nat /\ Len(q2) = Len(q) + Len(m)
            /\ \A i \in 1 .. Len(m) : m[i] \in Event /\ q2[Len(q) + i] = m[i]
            /\ \A k \in Len(q) + 1 .. Len(q2) : \E i \in 1 .. Len(m) : k = Len(q) + i /\ q2[k] = m[i]
        BY <2>1, PostedFacts
      <3>2. Len(m) \in 1 .. Len(m) /\ Len(q2) > 0
        BY <2>4, <3>1
      <3>3. Unlinked(l, q, q2)
        BY <2>4, <3>1, <3>2 DEF Unlinked
      <3>4. NoNewRole(q, q2)
        BY <2>4, <3>1 DEF NoNewRole
      <3>5. RoleIs(q2, bud[c].role, Len(q2) + 1, role)
        BY <2>1, <3>1, <3>4, RoleAppend
      <3> QED BY <3>3, <3>5 DEF q, q2
    <2> QED BY <2>2, <2>3, <2>4
  <1>7. /\ RoleIs(evts[b], bud[b].role, Len(evts[b]) + 1, stack.role[b])
        /\ RoleIs(evts[p], bud[p].role, Len(evts[p]) + 1, stack.role[p])
        /\ stack.role[b] \in Roles /\ stack.role[p] \in Roles
    BY <1>5 DEF SoundPair, Sound
  <1>8. /\ Unlinked(l, evts[b], evts'[b]) /\ Unlinked(l, evts[p], evts'[p])
        /\ RoleIs(evts'[b], bud[b].role, Len(evts'[b]) + 1, stack.role[b])
        /\ RoleIs(evts'[p], bud[p].role, Len(evts'[p]) + 1, stack.role[p])
    BY <1>3, <1>4, <1>6, <1>7
  <1>9. SoundPair("down", bud[b], evts'[b], bud[p], evts'[p], stack.role[b], stack.role[p])
    BY <1>5, <1>7, <1>8, DownPair
  <1> QED BY <1>4, <1>9

LEMMA TurnOffStep ==
  ASSUME IInv, NEW b \in Buds, TurnOff(b), inputs' \in 0 .. MaxInputs,
         faults' \in 0 .. MaxFaults, stack' \in StackType
  PROVE  IInv'
  <1> DEFINE down == IF stack.link = "down" THEN <<>> ELSE State("down")
             off == <<[kind |-> "off"]>>
             more == [c \in Buds |-> down \o ToOne(b, off)[c]]
  <1>1. /\ stack'.link = "down" /\ stack'.role = stack.role /\ UNCHANGED bud /\ Post(more)
    BY DEF TurnOff, IInv, TypeOK
  <1>2. [kind |-> "off"] \in Event
    BY DEF Event
  <1>3. off \in Seq(Event) /\ Len(off) = 1 /\ off[1].kind = "off"
    BY <1>2
  <1>4. /\ down \in Seq(Event)
        /\ stack.link = "down" => down = <<>>
        /\ stack.link # "down" => Len(down) = 1 /\ down[1].kind = "state" /\ down[1].link = "down"
    BY EventFacts DEF Links
  <1> HIDE DEF down, off
  <1>5. ASSUME NEW c \in Buds
        PROVE  /\ more[c] \in Seq(Event)
               /\ \/ stack.link = "down" /\ Len(more[c]) = 0
                  \/ Len(more[c]) > 0 /\ IsDown(more[c][Len(more[c])])
                       /\ \A i \in 1 .. Len(more[c]) : more[c][i].kind # "role"
    <2> DEFINE t == ToOne(b, off)[c]
               m == down \o t
    <2>1. more[c] = m
      BY <1>5
    <2>2. t = (IF c = b THEN off ELSE <<>>)
      BY <1>5 DEF ToOne
    <2>3. t \in Seq(Event) /\ (t = <<>> \/ (Len(t) = 1 /\ t[1].kind = "off"))
      BY <1>3, <2>2, EventFacts
    <2> HIDE DEF t, m, more
    <2>4. SUFFICES /\ m \in Seq(Event)
                   /\ \/ stack.link = "down" /\ Len(m) = 0
                      \/ Len(m) > 0 /\ IsDown(m[Len(m)]) /\ \A i \in 1 .. Len(m) : m[i].kind # "role"
      BY <2>1
    <2>5. CASE m = t /\ t = <<>> /\ stack.link = "down"
      BY <2>3, <2>5
    <2>6. CASE m \in Seq(Event) /\ Len(m) = 1 /\ IsDown(m[1])
      <3>1. \A i \in 1 .. Len(m) : i = 1 /\ m[i].kind # "role"
        BY <2>6 DEF IsDown
      <3> QED BY <2>6, <3>1
    <2>7. CASE m \in Seq(Event) /\ Len(m) = 2 /\ IsDown(m[1]) /\ IsDown(m[2])
      <3>1. \A i \in 1 .. Len(m) : m[i].kind # "role"
        <4>1. \A i \in 1 .. Len(m) : i = 1 \/ i = 2
          BY <2>7
        <4>2. m[1].kind # "role" /\ m[2].kind # "role"
          BY <2>7 DEF IsDown
        <4> QED BY <4>1, <4>2
      <3> QED BY <2>7, <3>1
    <2>8. CASE stack.link = "down"
      <3>1. m = t
        BY <1>4, <2>3, <2>8, ConcatEmptySeq DEF m
      <3>2. t # <<>> => IsDown(t[1]) /\ Len(t) = 1
        BY <2>3 DEF IsDown
      <3> QED BY <2>3, <2>5, <2>6, <2>8, <3>1, <3>2
    <2>9. CASE stack.link # "down" /\ t = <<>>
      <3>1. m = down
        BY <1>4, <2>9, ConcatEmptySeq DEF m
      <3>2. IsDown(down[1])
        BY <1>4, <2>9 DEF IsDown
      <3> QED BY <1>4, <2>6, <2>9, <3>1, <3>2
    <2>10. CASE stack.link # "down" /\ Len(t) = 1 /\ t[1].kind = "off"
      <3>1. m \in Seq(Event) /\ Len(m) = 2 /\ m[1] = down[1] /\ m[2] = t[1]
        BY <1>4, <2>3, <2>10, JoinFacts DEF m
      <3>2. IsDown(down[1]) /\ IsDown(t[1])
        BY <1>4, <2>10 DEF IsDown
      <3> QED BY <2>7, <3>1, <3>2
    <2> QED BY <2>3, <2>8, <2>9, <2>10
  <1> HIDE DEF more
  <1> QED BY <1>1, <1>5, LinkEnds

LEMMA SwitchEndStep ==
  ASSUME IInv, SwitchEnd, inputs' \in 0 .. MaxInputs, faults' \in 0 .. MaxFaults, stack' \in StackType
  PROVE  IInv'
  <1> DEFINE more == [c \in Buds |-> Role(stack.role[Peer(c)]) \o State("connected")]
  <1>1. /\ stack.link = "switching" /\ stack'.link = "connected" /\ UNCHANGED bud
        /\ stack'.role = [c \in Buds |-> stack.role[Peer(c)]] /\ Post(more)
    BY DEF SwitchEnd, IInv, TypeOK
  <1>2. ASSUME NEW c \in Buds
        PROVE  /\ more[c] \in Seq(Event) /\ Len(more[c]) = 2
               /\ more[c][1].kind = "role" /\ more[c][1].role = stack.role[Peer(c)]
               /\ more[c][2].kind = "state" /\ more[c][2].link = "connected"
    <2> DEFINE role == stack.role[Peer(c)]
    <2>1. role \in Roles /\ "connected" \in Links
      BY PeerFacts, StackTypes DEF IInv, Links
    <2>2. more[c] = Role(role) \o State("connected")
      OBVIOUS
    <2> HIDE DEF role, more
    <2>3. /\ Role(role) \in Seq(Event) /\ Len(Role(role)) = 1 
          /\ Role(role)[1].kind = "role" /\ Role(role)[1].role = role
          /\ State("connected") \in Seq(Event) /\ Len(State("connected")) = 1
          /\ State("connected")[1].kind = "state" /\ State("connected")[1].link = "connected"
      BY <2>1, EventFacts
    <2>4. /\ more[c] \in Seq(Event) /\ Len(more[c]) = 1 + 1
          /\ more[c][1] = Role(role)[1] /\ more[c][2] = State("connected")[1]
      BY <2>2, <2>3, JoinFacts
    <2> QED BY <2>3, <2>4 DEF role
  <1> HIDE DEF more
  <1>3. PICK b \in Buds : TRUE
    BY DEF Buds
  <1> DEFINE p == Peer(b)
  <1>4. p \in Buds /\ Peer(p) = b
    BY PeerFacts
  <1>5. /\ Posted(evts[b], more[b], evts'[b]) /\ Posted(evts[p], more[p], evts'[p])
        /\ SoundPair(stack'.link, bud[b], evts'[b], bud[p], evts'[p], stack'.role[b], stack'.role[p]) => IInv'
    BY <1>1, <1>2, StackStep
  <1>6. SoundPair("switching", bud[b], evts[b], bud[p], evts[p], stack.role[b], stack.role[p])
    BY <1>1, PairOf
  <1>7. stack'.role[b] = stack.role[p] /\ stack'.role[p] = stack.role[b]
    BY <1>1, <1>4
  <1> HIDE DEF p
  <1>8. ASSUME NEW c \in Buds, Posted(evts[c], more[c], evts'[c])
        PROVE  Switched(evts[c], evts'[c], stack.role[Peer(c)])
    <2> DEFINE q == evts[c]
               q2 == evts'[c]
               m == more[c]
               role == stack.role[Peer(c)]
    <2>1. Posted(q, m, q2)
      BY <1>8
    <2>2. /\ Len(m) = 2 /\ m[1].kind = "role" /\ m[1].role = role
          /\ m[2].kind = "state" /\ m[2].link = "connected"
      BY <1>2
    <2> HIDE DEF q, q2, m, role
    <2>3. /\ Extends(q, q2) /\ Len(q) \in Nat /\ Len(q2) = Len(q) + Len(m)
          /\ \A i \in 1 .. Len(m) : m[i] \in Event /\ q2[Len(q) + i] = m[i]
      BY <2>1, PostedFacts
    <2>4. 1 \in 1 .. Len(m) /\ 2 \in 1 .. Len(m)
      BY <2>2
    <2>5. q2[Len(q) + 1] = m[1] /\ q2[Len(q) + 2] = m[2]
      BY <2>3, <2>4
    <2>6. Switched(q, q2, role)
      BY <2>2, <2>3, <2>5 DEF Switched
    <2> QED BY <2>6 DEF q, q2, role
  <1>9. Switched(evts[b], evts'[b], stack.role[p])
    BY <1>5, <1>8 DEF p
  <1>10. Switched(evts[p], evts'[p], stack.role[b])
    BY <1>4, <1>5, <1>8
  <1>11. SoundPair("connected", bud[b], evts'[b], bud[p], evts'[p], stack.role[p], stack.role[b])
    BY <1>6, <1>9, <1>10, SwitchPair
  <1> QED BY <1>1, <1>5, <1>7, <1>11

LEMMA LinkUpStep ==
  ASSUME IInv, LinkUp, inputs' \in 0 .. MaxInputs, faults' \in 0 .. MaxFaults, stack' \in StackType
  PROVE  IInv'
  <1>1. PICK b \in Buds :
          /\ stack.role[b] = "master"
          /\ LET p == Peer(b)
                 slave == IF stack.role[p] = "slave" THEN <<>> ELSE Role("slave")
             IN /\ stack' = [stack EXCEPT !.link = "connected", !.role[p] = "slave"]
                /\ \/ Post([c \in Buds |-> State("connected") \o ToOne(p, slave)[c]])
                   \/ Post([c \in Buds |-> ToOne(p, slave)[c] \o State("connected")])
    BY DEF LinkUp
  <1> DEFINE p == Peer(b)
             other == stack.role[p]
             slave == IF other = "slave" THEN <<>> ELSE Role("slave")
             up == State("connected")
             first == [c \in Buds |-> up \o ToOne(p, slave)[c]]
             last == [c \in Buds |-> ToOne(p, slave)[c] \o up]
  <1>2. p \in Buds /\ Peer(p) = b /\ p # b
    BY PeerFacts
  <1>3. /\ stack.link = "down" /\ stack'.link = "connected" /\ UNCHANGED bud
        /\ stack'.role[b] = "master" /\ stack'.role[p] = "slave"
        /\ Post(first) \/ Post(last)
    BY <1>1, <1>2, StackTypes DEF LinkUp, IInv, TypeOK
  <1>4. /\ up \in Seq(Event) /\ Len(up) = 1 /\ IsUp(up[1]) /\ up[1].kind # "role"
        /\ slave \in Seq(Event)
        /\ \/ slave = <<>> /\ other = "slave"
           \/ Len(slave) = 1 /\ slave[1].kind = "role" /\ slave[1].role = "slave"
        /\ Len(slave) <= 1
    <2>1. "connected" \in Links /\ "slave" \in Roles
      BY DEF Links, Roles
    <2>2. /\ up \in Seq(Event) /\ Len(up) = 1
          /\ up[1].kind = "state" /\ up[1].link = "connected"
      BY <2>1, EventFacts
    <2>3. /\ Role("slave") \in Seq(Event) /\ Len(Role("slave")) = 1
          /\ Role("slave")[1].kind = "role" /\ Role("slave")[1].role = "slave"
      BY <2>1, EventFacts
    <2>4. <<>> \in Seq(Event) /\ Len(<<>>) = 0
      BY EventFacts
    <2> HIDE DEF up
    <2>5. CASE other = "slave"
      BY <2>2, <2>4, <2>5 DEF IsUp
    <2>6. CASE other # "slave"
      <3>1. slave = Role("slave")
        BY <2>6
      <3> HIDE DEF slave
      <3>2. /\ slave \in Seq(Event) /\ Len(slave) = 1
            /\ slave[1].kind = "role" /\ slave[1].role = "slave"
        BY <2>3, <3>1
      <3>3. IsUp(up[1]) /\ up[1].kind # "role"
        BY <2>2 DEF IsUp
      <3>4. Len(slave) <= 1
        BY <3>2
      <3> QED BY <2>2, <3>2, <3>3, <3>4
    <2> QED BY <2>5, <2>6
  <1>5. ToOne(p, slave)[b] = <<>> /\ ToOne(p, slave)[p] = slave
    BY <1>2 DEF ToOne
  \* What the master is told, and the slave.
  <1>6. first[b] = up /\ last[b] = up /\ first[p] = up \o slave /\ last[p] = slave \o up
    BY <1>2, <1>4, <1>5, ConcatEmptySeq
  <1>7. \A c \in Buds : c = b \/ c = p
    BY PeerFacts
  <1> HIDE DEF first, last, up, slave, p, other
  <1>8. /\ up \o slave \in Seq(Event) /\ slave \o up \in Seq(Event)
        /\ Len(up \o slave) = 1 + Len(slave) /\ Len(slave \o up) = 1 + Len(slave)
        /\ (up \o slave)[1] = up[1] /\ (slave \o up)[1 + Len(slave)] = up[1]
        /\ Len(slave) = 1 => (up \o slave)[2] = slave[1] /\ (slave \o up)[1] = slave[1]
    BY <1>4, JoinFacts
  <1>9. PICK more : more \in {first, last} /\ Post(more)
    BY <1>3
  <1>10. /\ \A c \in Buds : more[c] \in Seq(Event)
         /\ more[b] = up /\ more[p] \in {up \o slave, slave \o up}
    BY <1>4, <1>6, <1>7, <1>8, <1>9
  <1>11. /\ Posted(evts[b], more[b], evts'[b]) /\ Posted(evts[p], more[p], evts'[p])
         /\ SoundPair("connected", bud[b], evts'[b], bud[p], evts'[p], "master", "slave") => IInv'
    BY <1>3, <1>9, <1>10, StackStep DEF p
  <1>12. SoundPair("down", bud[b], evts[b], bud[p], evts[p], "master", other)
    BY <1>1, <1>3, PairOf DEF p, other
  <1>13. Linked(evts[b], evts'[b], "master", "master") /\ NoNewRole(evts[b], evts'[b])
    <2> DEFINE q == evts[b]
               q2 == evts'[b]
    <2>0. Posted(q, up, q2)
      BY <1>10, <1>11
    <2> HIDE DEF q, q2
    <2>1. /\ Extends(q, q2) /\ Len(q) \in Nat /\ Len(q2) = Len(q) + 1 /\ q2[Len(q2)] = up[1]
      BY <1>4, <2>0, PostedOne
    <2>2. Len(q2) \in Len(q) + 1 .. Len(q2) /\ \A k \in Len(q) + 1 .. Len(q2) : k = Len(q2)
      BY <2>1
    <2>3. NoNewRole(q, q2)
      BY <1>4, <2>1, <2>2 DEF NoNewRole
    <2>4. Linked(q, q2, "master", "master")
      BY <1>4, <2>1, <2>2, <2>3 DEF Linked
    <2> QED BY <2>3, <2>4 DEF q, q2
  <1>14. Linked(evts[p], evts'[p], other, "slave")
    <2> DEFINE q == evts[p]
               q2 == evts'[p]
               m == more[p]
               n == Len(q)
    <2>0. Posted(q, m, q2)
      BY <1>11
    <2>2. m = up \o slave \/ m = slave \o up
      BY <1>10
    <2> HIDE DEF q, q2, m
    <2>1. /\ Extends(q, q2) /\ n \in Nat /\ Len(q2) = n + Len(m)
          /\ \A i \in 1 .. Len(m) : m[i] \in Event /\ q2[n + i] = m[i]
      BY <2>0, PostedFacts
    <2>3. CASE slave = <<>> /\ other = "slave"
      <3>1. Len(m) = 1 /\ m[1] = up[1]
        BY <1>8, <2>2, <2>3
      <3>2. 1 \in 1 .. Len(m)
        BY <3>1
      <3>3. Len(q2) = n + 1 /\ q2[n + 1] = up[1]
        BY <2>1, <3>1, <3>2
      <3> HIDE DEF n
      <3>4. n + 1 \in n + 1 .. Len(q2) /\ \A k \in n + 1 .. Len(q2) : k = n + 1
        BY <2>1, <3>3
      <3>5. NoNewRole(q, q2)
        BY <1>4, <3>3, <3>4 DEF NoNewRole, n
      <3>6. /\ \A k \in n + 1 .. Len(q2) : q2[k].kind = "role" \/ IsUp(q2[k])
            /\ \E j \in n + 1 .. Len(q2) :
                 IsUp(q2[j]) /\ \A k \in n + 1 .. Len(q2) : k # j => ~IsUp(q2[k])
        BY <1>4, <3>3, <3>4
      <3> QED BY <2>1, <2>3, <3>5, <3>6 DEF Linked, n, q, q2
    <2>4. CASE Len(slave) = 1 /\ slave[1].kind = "role" /\ slave[1].role = "slave"
      <3>1. /\ Len(m) = 2 
            /\ \/ m[1] = up[1] /\ m[2] = slave[1]
               \/ m[1] = slave[1] /\ m[2] = up[1]
        <4>1. 1 + Len(slave) = 2
          BY <2>4
        <4>2. CASE m = up \o slave
          BY <1>8, <2>4, <4>1, <4>2
        <4>3. CASE m = slave \o up
          BY <1>8, <2>4, <4>1, <4>3
        <4> QED BY <2>2, <4>2, <4>3
      <3>2. 1 \in 1 .. Len(m) /\ 2 \in 1 .. Len(m)
        BY <3>1
      <3>3. /\ Len(q2) = n + 2
            /\ \/ q2[n + 1] = up[1] /\ q2[n + 2] = slave[1]
               \/ q2[n + 1] = slave[1] /\ q2[n + 2] = up[1]
        BY <2>1, <3>1, <3>2
      <3> HIDE DEF n
      <3>4. /\ n + 1 \in n + 1 .. Len(q2) /\ n + 2 \in n + 1 .. Len(q2)
            /\ \A k \in n + 1 .. Len(q2) : k = n + 1 \/ k = n + 2
            /\ n + 1 # n + 2
        BY <2>1, <3>3
      <3>5. PICK j \in n + 1 .. Len(q2), i \in n + 1 .. Len(q2) :
              /\ q2[j] = up[1] /\ q2[i] = slave[1] /\ i # j
              /\ \A k \in n + 1 .. Len(q2) : k = i \/ k = j
        BY <3>3, <3>4
      <3>6. /\ IsUp(q2[j]) /\ q2[j].kind # "role" /\ q2[i].kind = "role" /\ q2[i].role = "slave"
            /\ ~IsUp(q2[i])
        BY <1>4, <2>4, <3>5 DEF IsUp
      <3>7. NoRole(q2, i)
        <4>1. \A k \in i + 1 .. Len(q2) : k \in n + 1 .. Len(q2) /\ k # i
          BY <2>1, <3>3, <3>5
        <4>2. \A k \in i + 1 .. Len(q2) : k = j
          BY <3>5, <4>1
        <4> QED BY <3>6, <4>2 DEF NoRole
      <3>8. /\ \A k \in n + 1 .. Len(q2) : q2[k].kind = "role" \/ IsUp(q2[k])
            /\ \A k \in n + 1 .. Len(q2) : k # j => ~IsUp(q2[k])
        BY <3>5, <3>6
      <3> QED BY <2>1, <3>5, <3>6, <3>7, <3>8 DEF Linked, n, q, q2
    <2> QED BY <1>4, <2>3, <2>4
  <1>15. SoundPair("connected", bud[b], evts'[b], bud[p], evts'[p], "master", "slave")
    BY <1>12, <1>13, <1>14, LinkPair
  <1> QED BY <1>11, <1>15

LEMMA StackTypeStep ==
  ASSUME TypeOK, NEW b \in Buds,
         Stack(b) \/ LinkUp \/ LinkLoss \/ SwitchStart \/ SwitchEnd \/ SwitchFails
  PROVE  /\ stack' \in StackType /\ UNCHANGED bud
         /\ inputs' \in 0 .. MaxInputs /\ faults' \in 0 .. MaxFaults
  <1>0. /\ stack \in StackType /\ MaxFaults \in Nat /\ MaxInputs \in Nat
        /\ inputs \in 0 .. MaxInputs /\ faults \in 0 .. MaxFaults
    BY TwsSyncAssumption DEF TypeOK, StackType
  <1>1. Fault => inputs' \in 0 .. MaxInputs /\ faults' \in 0 .. MaxFaults
    BY <1>0 DEF Fault
  <1>2. {"down", "connected", "switching"} \subseteq Links /\ {"master", "slave"} \subseteq Roles
    BY DEF Links, Roles
  <1>3. CASE BecomeMaster(b)
    BY <1>0, <1>1, <1>2, <1>3 DEF BecomeMaster, StackType
  <1>4. CASE TurnOff(b)
    BY <1>0, <1>1, <1>2, <1>4 DEF TurnOff, StackType
  <1>5. CASE TurnOn(b)
    BY <1>0, <1>1, <1>2, <1>5 DEF TurnOn, StackType
  <1>6. CASE PhoneEvt(b) \/ ModeEvt(b)
    BY <1>0, <1>1, <1>6 DEF PhoneEvt, ModeEvt
  <1>7. CASE LinkUp
    <2>1. PICK c \in Buds : stack' = [stack EXCEPT !.link = "connected", !.role[Peer(c)] = "slave"]
      BY <1>7 DEF LinkUp
    <2> QED BY <1>0, <1>2, <1>7, <2>1 DEF LinkUp, StackType
  <1>8. CASE LinkLoss
    BY <1>0, <1>1, <1>2, <1>8 DEF LinkLoss, StackType
  <1>9. CASE SwitchStart
    BY <1>0, <1>2, <1>9 DEF SwitchStart, StackType
  <1>10. CASE SwitchEnd
    <2>1. [c \in Buds |-> stack.role[Peer(c)]] \in [Buds -> Roles]
      BY <1>0, PeerFacts DEF StackType
    <2> QED BY <1>0, <1>2, <1>10, <2>1 DEF SwitchEnd, StackType
  <1>11. CASE SwitchFails
    BY <1>0, <1>2, <1>11 DEF SwitchFails, StackType
  <1> QED BY <1>3, <1>4, <1>5, <1>6, <1>7, <1>8, <1>9, <1>10, <1>11 DEF Stack

LEMMA StackSteps ==
  ASSUME IInv, NEW b \in Buds,
         Stack(b) \/ LinkUp \/ LinkLoss \/ SwitchStart \/ SwitchEnd \/ SwitchFails
  PROVE  IInv'
  <1>1. TypeOK
    BY DEF IInv
  <1>2. /\ stack' \in StackType /\ UNCHANGED bud
        /\ inputs' \in 0 .. MaxInputs /\ faults' \in 0 .. MaxFaults
    BY <1>1, StackTypeStep
  <1>3. stack.link \in Links /\ {"connected", "switching", "down"} \subseteq Links
    BY <1>1, StackTypes DEF Links
  <1>4. CASE BecomeMaster(b)
    BY <1>2, <1>4, BecomeMasterStep
  <1>5. CASE TurnOff(b)
    BY <1>2, <1>5, TurnOffStep
  <1>6. CASE TurnOn(b)
    <2>1. [kind |-> "on"] \in Event
      BY DEF Event
    <2>2. stack'.link = stack.link /\ stack'.role = stack.role /\ Post(ToOne(b, <<[kind |-> "on"]>>))
      BY <1>1, <1>6 DEF TurnOn, TypeOK
    <2> QED BY <1>2, <2>1, <2>2, OneEvent
  <1>7. CASE PhoneEvt(b)
    <2>1. [kind |-> "phone", up |-> ~bud[b].phone] \in Event
      BY DEF Event
    <2>2. /\ stack'.link = stack.link /\ stack'.role = stack.role
          /\ Post(ToOne(b, <<[kind |-> "phone", up |-> ~bud[b].phone]>>))
      BY <1>7 DEF PhoneEvt
    <2> QED BY <1>2, <2>1, <2>2, OneEvent
  <1>8. CASE ModeEvt(b)
    <2>1. [kind |-> "dual"] \in Event
      BY DEF Event
    <2>2. /\ stack'.link = stack.link /\ stack'.role = stack.role
          /\ Post(ToOne(b, <<[kind |-> "dual"]>>))
      BY <1>8 DEF ModeEvt
    <2> QED BY <1>2, <2>1, <2>2, OneEvent
  <1>9. CASE LinkUp
    BY <1>2, <1>9, LinkUpStep
  <1>10. CASE LinkLoss
    <2> DEFINE more == ToBoth(State("down"))
    <2>1. stack'.link = "down" /\ stack'.role = stack.role /\ Post(more)
      BY <1>1, <1>10 DEF LinkLoss, TypeOK
    <2>2. ASSUME NEW c \in Buds
          PROVE  /\ more[c] \in Seq(Event) /\ Len(more[c]) = 1 /\ IsDown(more[c][1])
                 /\ more[c][1].kind # "role"
      BY <1>3, EventFacts DEF ToBoth, IsDown
    <2> HIDE DEF more
    <2>3. \A c \in Buds : /\ more[c] \in Seq(Event)
                          /\ Len(more[c]) > 0 /\ IsDown(more[c][Len(more[c])])
                          /\ \A i \in 1 .. Len(more[c]) : more[c][i].kind # "role"
      <3>1. SUFFICES ASSUME NEW c \in Buds
                     PROVE  /\ more[c] \in Seq(Event)
                            /\ Len(more[c]) > 0 /\ IsDown(more[c][Len(more[c])])
                            /\ \A i \in 1 .. Len(more[c]) : more[c][i].kind # "role"
        OBVIOUS
      <3>2. /\ more[c] \in Seq(Event) /\ Len(more[c]) = 1 /\ IsDown(more[c][1])
            /\ more[c][1].kind # "role"
        BY <2>2
      <3>3. \A i \in 1 .. Len(more[c]) : i = 1
        BY <3>2
      <3> QED BY <3>2, <3>3
    <2> QED BY <1>2, <2>1, <2>3, LinkEnds
  <1>11. CASE SwitchStart
    <2>1. /\ stack.link # "down" /\ stack'.link = "switching" /\ stack'.role = stack.role
          /\ Post(ToBoth(State("switching")))
      BY <1>1, <1>11 DEF SwitchStart, TypeOK
    <2> QED BY <1>2, <1>3, <2>1, LinkToBoth
  <1>12. CASE SwitchEnd
    BY <1>2, <1>12, SwitchEndStep
  <1>13. CASE SwitchFails
    <2>1. /\ stack.link # "down" /\ stack'.link = "connected" /\ stack'.role = stack.role
          /\ Post(ToBoth(State("connected")))
      BY <1>1, <1>13 DEF SwitchFails, TypeOK
    <2> QED BY <1>2, <1>3, <2>1, LinkToBoth
  <1> QED BY <1>4, <1>5, <1>6, <1>7, <1>8, <1>9, <1>10, <1>11, <1>12, <1>13 DEF Stack

LEMMA NotRecentStep ==
  ASSUME IInv, NEW b \in Buds, NotRecent(b)
  PROVE  IInv'
  <1> DEFINE p == Peer(b)
             x == bud[b]
             z == [bud[b] EXCEPT !.recent = FALSE]
             l == stack.link
             mine == stack.role[b]
             other == stack.role[p]
             q == evts[b]
             r == evts[p]
             y == bud[p]
  <1>0. p \in Buds /\ p # b /\ TypeOK
    BY PeerFacts DEF IInv
  <1>1. /\ x \in BudType /\ q \in Seq(Items) /\ r \in Seq(Items)
        /\ bud \in [Buds -> BudType]
    BY <1>0, StackTypes DEF TypeOK
  <1>2. bud' = [bud EXCEPT ![b] = z] /\ UNCHANGED <<stack, evts, inputs, faults>>
    BY DEF NotRecent
  <1>3. /\ z \in BudType /\ z.link = x.link /\ z.role = x.role /\ z.setting = x.setting
        /\ z.charging = x.charging /\ z.peerCharging = x.peerCharging /\ z.unsaid = x.unsaid
        /\ z.out = <<>>
    BY <1>1 DEF BudType
  <1>4. TypeOK'
    BY <1>0, <1>2, <1>3 DEF TypeOK
  <1>5. SoundPair(l, x, q, y, r, mine, other)
    BY PairOf
  <1>6. bud'[b] = z /\ bud'[p] = y
    BY <1>0, <1>1, <1>2
  <1> HIDE DEF z
  <1>7. Effect(x, z, Nothing, b)
    <2>1. z \in Acting
      BY <1>3, ActingFacts
    <2>2. Nothing.kind = "none" /\ ~IsUp(Nothing)
      BY DEF Nothing, IsUp
    <2>3. z.link = LinkAfter(x, Nothing, stack.link) /\ z.role = RoleAfter(x, Nothing, stack.role[b])
      BY <1>3 DEF Nothing, LinkAfter, RoleAfter
    <2> QED BY <1>1, <1>3, <2>1, <2>2, <2>3, PlainEffect
  <1>8. Moves(l, x, z, z, Nothing, 0, q, q, r, r, mine)
    <2>1. Takes(q, q, 0, Nothing)
      BY <1>1, TakesAll
    <2>2. Said(r, z.out, r)
      BY <1>1, <1>3, ConcatEmptySeq DEF Said, Outs
    <2>3. Nothing.kind # "on"
      BY DEF Nothing
    <2>4. ~SaysSetting(z)
      BY <1>3 DEF SaysSetting, Says
    <2> QED BY <1>1, <1>3, <1>7, <2>1, <2>2, <2>3, <2>4 DEF Moves, Effect
  <1> HIDE DEF x, l, mine, other, q, r, y, p
  <1>9. SoundPair(l, z, q, y, r, mine, other)
    BY <1>5, <1>8, SoundTurn, Zenon
  <1>10. SoundPair(stack'.link, bud'[b], evts'[b], bud'[p], evts'[p], stack'.role[b], stack'.role[p])
    BY <1>2, <1>6, <1>9 DEF l, q, r, mine, other
  <1> QED BY <1>4, <1>10, PairIsEnough DEF p

-----------------------------------------------------------------------------
(* The theorems.                                                            *)

LEMMA InitIInv == Init => IInv
  <1> SUFFICES ASSUME Init PROVE IInv
    OBVIOUS
  <1>1. PICK charging \in {[b \in Buds |-> FALSE], [b \in Buds |-> b = "left"]} :
         bud = [b \in Buds |->
         [link |-> "down", role |-> IF b = "left" THEN "master" ELSE "slave",
          phone |-> TRUE, ota |-> FALSE, charging |-> charging[b],
          peerCharging |-> ~charging[Peer(b)],
          setting |-> IF b = "left" THEN 0 ELSE 1 % Settings,
          later |-> FALSE, recent |-> FALSE, due |-> FALSE,
          unsaid |-> {}, out |-> <<>>, ask |-> FALSE]]
    BY DEF Init
  <1>2. /\ stack = [link |-> "down", asked |-> FALSE, on |-> [b \in Buds |-> TRUE],
                    role |-> [b \in Buds |-> IF b = "left" THEN "master" ELSE "slave"]]
        /\ evts = [b \in Buds |-> <<>>] /\ inputs = 0 /\ faults = 0
    BY DEF Init
  <1>3. Settings \in Nat \ {0} /\ MaxInputs \in Nat /\ MaxFaults \in Nat
    BY TwsSyncAssumption
  <1>4. \A b \in Buds : charging[b] \in BOOLEAN
    BY <1>1
  <1>5. 0 \in 0 .. Settings - 1 /\ 1 % Settings \in 0 .. Settings - 1
    BY <1>3
  <1>6. TypeOK
    <2>1. \A b \in Buds : bud[b] \in BudType
      BY <1>1, <1>4, <1>5, PeerFacts DEF BudType, Links, Roles
    <2>2. bud \in [Buds -> BudType]
      BY <1>1, <2>1
    <2>3. stack \in [link : Links, asked : BOOLEAN, on : [Buds -> BOOLEAN], role : [Buds -> Roles]]
      BY <1>2 DEF Links, Roles
    <2>4. evts \in [Buds -> Seq(Message \cup Event)]
      BY <1>2
    <2> QED BY <1>2, <1>3, <2>2, <2>3, <2>4 DEF TypeOK
  <1>7. stack.link = "down"
    BY <1>2
  <1>8. \A b \in Buds : bud[b].role = stack.role[b] /\ bud[b].link = "down" /\ evts[b] = <<>>
    BY <1>1, <1>2
  <1>9. ASSUME NEW b \in Buds
        PROVE  RoleIs(evts[b], bud[b].role, Len(evts[b]) + 1, stack.role[b]) /\ EndComes(evts[b], bud[b].link)
    <2>1. Len(evts[b]) = 0
      BY <1>8
    <2>2. /\ 0 \in 0 .. (Len(evts[b]) + 1) - 1 /\ 0 \in 0 .. Len(evts[b])
          /\ 0 + 1 .. (Len(evts[b]) + 1) - 1 = {} /\ 0 + 1 .. Len(evts[b]) = {}
      BY <2>1
    <2>3. RoleIs(evts[b], bud[b].role, Len(evts[b]) + 1, stack.role[b])
      BY <1>8, <2>2 DEF RoleIs
    <2>4. EndComes(evts[b], bud[b].link)
      BY <1>8, <2>2 DEF EndComes, DownAt
    <2> QED BY <2>3, <2>4
  <1> QED BY <1>6, <1>7, <1>9 DEF IInv, OneMaster, BudsSound, Sound

LEMMA NextIInv == IInv /\ [Next]_vars => IInv'
  <1> SUFFICES ASSUME IInv, [Next]_vars PROVE IInv'
    OBVIOUS
  <1>1. ASSUME NEW b \in Buds, App(b) \/ User(b) PROVE IInv'
    BY <1>1, AppStep
  <1>2. ASSUME NEW b \in Buds, NotRecent(b) PROVE IInv'
    BY <1>2, NotRecentStep
  <1>3. ASSUME NEW b \in Buds,
               Stack(b) \/ LinkUp \/ LinkLoss \/ SwitchStart \/ SwitchEnd \/ SwitchFails
        PROVE  IInv'
    BY <1>3, StackSteps
  <1>4. CASE UNCHANGED vars
    BY <1>4 DEF vars, IInv, TypeOK, OneMaster, BudsSound
  <1>5. \E b \in Buds : TRUE
    BY DEF Buds
  <1> QED BY <1>1, <1>2, <1>3, <1>4, <1>5 DEF Next

\* The invariant that the rest follows from: whatever is still on the way, a bud ends
\* in the role that its stack has, knows that the link is there or is gone, and knows of
\* its peer what wws_connected_sync and the handlers of app_wws.c tell it.
THEOREM IInvInvariant == Spec => []IInv
  BY InitIInv, NextIInv, PTL DEF Spec

\* The state keeps its types, whatever the handlers of app_wws.c and the stacks do.
THEOREM TypeCorrect == Spec => []TypeOK
  <1>1. IInv => TypeOK
    BY DEF IInv
  <1> QED BY <1>1, IInvInvariant, PTL

LEMMA EmptyQueue ==
  ASSUME NEW q, q = <<>>, NEW x
  PROVE  /\ \A r : RoleIs(q, x.role, Len(q) + 1, r) => x.role = r
         /\ ~Restarts(q, x.link) /\ (Excused(q, x) => "setting" \in x.unsaid)
         /\ \A charging : Known(q, x, charging) => x.peerCharging = charging
         /\ \A v : Firm(q, x, v) => x.setting = v
  <1>1. Len(q) = 0 /\ 1 .. Len(q) = {} /\ 0 .. Len(q) = {0} /\ 0 .. (Len(q) + 1) - 1 = {0}
    OBVIOUS
  <1>2. \A r : RoleIs(q, x.role, Len(q) + 1, r) => x.role = r
    BY <1>1 DEF RoleIs
  <1>3. ~Restarts(q, x.link) /\ ~RestartsAsMaster(q, x)
    BY <1>1 DEF Restarts, RestartsAsMaster
  <1>4. \A charging : Known(q, x, charging) => x.peerCharging = charging
    BY <1>1 DEF Known, KnownAt
  <1>5. \A v : Firm(q, x, v) => x.setting = v
    BY <1>1 DEF Firm, FirmAt
  <1> QED BY <1>2, <1>3, <1>4, <1>5 DEF Excused

LEMMA SoundAgree == IInv => BudsAgree
  <1> SUFFICES ASSUME IInv, Settled PROVE BudsAgree
    BY DEF BudsAgree
  <1>1. /\ stack.link # "down" /\ \A b \in Buds : evts[b] = <<>> /\ Peer(b) \in Buds
        /\ "left" \in Buds /\ "right" \in Buds /\ Peer("left") = "right" /\ Peer("right") = "left"
    BY PeerFacts DEF Settled, Buds
  <1>2. ASSUME NEW b \in Buds
        PROVE  /\ bud[b].role = stack.role[b]
               /\ "charging" \in bud[b].unsaid \/ bud[Peer(b)].peerCharging = bud[b].charging
               /\ \/ "setting" \in bud[b].unsaid \/ "setting" \in bud[Peer(b)].unsaid
                  \/ bud[b].setting = bud[Peer(b)].setting
    <2> DEFINE x == bud[b]
               y == bud[Peer(b)]
               q == evts[b]
               r == evts[Peer(b)]
    <2>1. /\ RoleIs(q, x.role, Len(q) + 1, stack.role[b])
          /\ "charging" \in x.unsaid \/ Restarts(q, x.link) \/ Known(r, y, x.charging)
          /\ Agreeing(q, x, r, y)
      BY <1>1, <1>2 DEF IInv, BudsSound, Sound
    <2>2. q = <<>> /\ r = <<>>
      BY <1>1, <1>2
    <2> HIDE DEF x, y, q, r
    <2>3. /\ \A role : RoleIs(q, x.role, Len(q) + 1, role) => x.role = role
          /\ ~Restarts(q, x.link) /\ (Excused(q, x) => "setting" \in x.unsaid)
          /\ \A v : Firm(q, x, v) => x.setting = v
      BY <2>2, EmptyQueue
    <2>4. /\ Excused(r, y) => "setting" \in y.unsaid
          /\ \A charging : Known(r, y, charging) => y.peerCharging = charging
          /\ \A v : Firm(r, y, v) => y.setting = v
      BY <2>2, EmptyQueue
    <2>5. "setting" \in x.unsaid \/ "setting" \in y.unsaid \/ x.setting = y.setting
      BY <2>1, <2>3, <2>4 DEF Agreeing
    <2>6. x.role = stack.role[b]
      BY <2>1, <2>3
    <2>7. "charging" \in x.unsaid \/ y.peerCharging = x.charging
      BY <2>1, <2>3, <2>4
    <2> QED BY <2>5, <2>6, <2>7 DEF x, y
  <1>3. bud["left"].role # bud["right"].role
    BY <1>1, <1>2 DEF IInv, OneMaster
  <1> QED BY <1>1, <1>2, <1>3 DEF BudsAgree

\* When everything sent has been handled, one bud is the master, each knows whether the
\* other charges and both have one setting, but for what unsaid records
\* (wws_connected_sync, wws_handle_connected_sync).
THEOREM Agree == Spec => []BudsAgree
  BY IInvInvariant, SoundAgree, PTL

=============================================================================
