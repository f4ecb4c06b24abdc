---------------------------- MODULE PowerProofs ----------------------------
(***************************************************************************)
(* What Power guarantees whatever requests, chargers, phones, crashes and  *)
(* answers of the Bluetooth core come, in any order and number: types,     *)
(* that an earbud left alone has a timer that will switch it off, and that *)
(* the crash flag says what the user wanted.                               *)
(*                                                                         *)
(* A handler's result b is judged as Fine: sound once Run has passed on    *)
(* the commands, the reset and the crash flag it left.  A lemma per        *)
(* handler shows it Fine; a lemma per action of Next brings the invariant  *)
(* over the step.                                                          *)
(***************************************************************************)
EXTENDS Power, SequenceTheorems, TLAPS

\* A command to disable the core is among those of q.
Orders(q) == \E i \in 1 .. Len(q) : q[i] = FALSE
Holds(q, e) == \E i \in 1 .. Len(q) : q[i] = e

\* Where app_bt.c believes the core to be.
BtState(a) == IF ~a.enabled THEN "off" ELSE IF a.conn THEN "linked" ELSE "idle"

\* The report e takes app_bt.c from s to t.
Follows(e, s, t) ==
  CASE e = "on" -> s = "off" /\ t = "idle"
    [] e = "off" -> s \in {"off", "idle"} /\ t = "off"
    [] e = "connected" -> s = "idle" /\ t = "linked"
    [] e = "disconnected" -> s = "linked" /\ t = "idle"
    [] e = "done" -> t = s

\* The reports of q lead app_bt.c from s to where the core r is, one step each;
\* a core that is off has said so.
Tracks(q, s, r) ==
  \E h \in [0 .. Len(q) -> {"off", "idle", "linked"}] :
    /\ h[0] = s
    /\ r \in {"idle", "linked"} => h[Len(q)] = r
    /\ r \in {"off", "boot"} => h[Len(q)] = "off"
    /\ \A i \in 1 .. Len(q) : Follows(q[i], h[i - 1], h[i])
    /\ r \in {"off", "boot"} =>
         \A i \in 0 .. Len(q) : h[i] # "off" => \E j \in i + 1 .. Len(q) : q[j] = "off"

\* The contexts of app_bt.c and app_pm.c agree.  c: the core will be off or is hung.
BtSound(a, c) ==
  /\ a.conn => a.enabled /\ a.sys = "connected"
  /\ a.sys = "connected" => a.conn
  /\ a.sys = "idle" => a.enabled
  /\ a.enabled /\ Off(a) => c
  /\ a.pending => a.user
  /\ a.noOff => "ENABLE_POWER_OFF" \in a.later

\* What TimerAsNeeded says, without counting on the queue or the charger where
\* they would be of no help.
Watched(a, c) ==
  a.ending = "no" =>
    /\ a.enabled => c \/ a.later \cap Timers # {} \/ a.shutdown \/ a.reboot \/ a.conn \/ a.noAuto
    /\ ~a.enabled => \/ a.later \cap Timers # {} \/ a.charging \/ a.shutdown \/ a.reboot
                     \/ Holds(a.queue, "done")
    /\ a.sys = "connected" \/ (a.sys = "idle" /\ a.noAuto) => a.later \cap Timers = {}

\* What CrashKeepsWish says, of a flag f and a boot reason w.
Kept(a, f, w) ==
  /\ a.user => f = "POWER_ON"
  /\ ~a.user /\ ~a.reboot /\ a.ending = "no" /\ w # "pin" => f # "POWER_ON"
OffComes == radio = "hung" \/ Orders(cmds) \/ Holds(app.queue, "off")

\* The inductive invariant.
IInv ==
  /\ TypeOK
  /\ dev = "up" => /\ BtSound(app, OffComes) /\ Watched(app, OffComes) /\ Kept(app, flag, why)
                   /\ Tracks(app.queue, BtState(app), radio)
  /\ dev = "reset" /\ why = "power" => flag = "USER"
  /\ dev = "reset" /\ why = "soft" => flag \in Reasons \cup {"SHUTDOWN_FAILED"}

\* The crash flag once a handler's result is passed on.
Flagged(a, f) == IF a.crash = "keep" THEN f ELSE a.crash

\* A handler's result.
Fine(a, c, f, w) ==
  /\ a \in AppType /\ ~(Timers \subseteq a.later)
  /\ a.reset = "no" =>
       /\ BtSound(a, c \/ Orders(a.cmds)) /\ Watched(a, c \/ Orders(a.cmds))
       /\ Kept(a, Flagged(a, f), w)

\* The contexts between two handlers.
Settled(a, c, f, w) ==
  /\ Fine(a, c, f, w) /\ a.cmds = <<>> /\ a.reset = "no" /\ a.crash = "keep"

\* Nothing that reports tell has changed.
SameBt(a, b) ==
  b.enabled = a.enabled /\ b.conn = a.conn /\ b.queue = a.queue

\* In use, or told not to switch itself off: no timer may run.
Manned(a) == a.sys = "connected" \/ (a.sys = "idle" /\ a.noAuto)

\* b is a but for the fields of F.
AllBut(a, b, F) ==
  \A x \in {"sys", "enabled", "user", "pending", "conn", "charging", "shutdown", "reboot",
            "reason", "noOff", "noAuto", "ending", "queue", "later", "cmds", "reset", "crash"} \ F :
    b[x] = a[x]

\* Sequences of commands: what appending, joining and taking one do to Orders.
LEMMA OrderFacts ==
  /\ ~Orders(<<>>) /\ <<>> \in Seq(BOOLEAN)
  /\ \A q \in Seq(BOOLEAN), v \in BOOLEAN :
       /\ Append(q, v) \in Seq(BOOLEAN)
       /\ Orders(Append(q, v)) <=> Orders(q) \/ v = FALSE
  /\ \A q \in Seq(BOOLEAN) : Append(q, FALSE) \in Seq(BOOLEAN) /\ Orders(Append(q, FALSE))
  /\ \A p, q \in Seq(BOOLEAN) :
       p \o q \in Seq(BOOLEAN) /\ (Orders(p \o q) <=> Orders(p) \/ Orders(q))
  /\ \A q \in Seq(BOOLEAN) : q # <<>> =>
       /\ Tail(q) \in Seq(BOOLEAN) /\ Head(q) \in BOOLEAN
       /\ Orders(q) <=> Orders(Tail(q)) \/ Head(q) = FALSE
  <1>1. ~Orders(<<>>) /\ <<>> \in Seq(BOOLEAN)
    BY DEF Orders
  <1>2. ASSUME NEW q \in Seq(BOOLEAN), NEW v \in BOOLEAN
        PROVE  /\ Append(q, v) \in Seq(BOOLEAN)
               /\ Orders(Append(q, v)) <=> Orders(q) \/ v = FALSE
    <2>1. Append(q, v) \in Seq(BOOLEAN)
      BY AppendProperties, Zenon
    <2>2. /\ Len(Append(q, v)) = Len(q) + 1 /\ Len(q) \in Nat
          /\ \A i \in 1 .. Len(q) : Append(q, v)[i] = q[i]
          /\ Append(q, v)[Len(q) + 1] = v
      BY AppendProperties
    <2> QED BY <2>1, <2>2 DEF Orders
  <1>3. ASSUME NEW p \in Seq(BOOLEAN), NEW q \in Seq(BOOLEAN)
        PROVE  p \o q \in Seq(BOOLEAN) /\ (Orders(p \o q) <=> Orders(p) \/ Orders(q))
    <2>1. p \o q \in Seq(BOOLEAN)
      BY ConcatProperties, Zenon
    <2>2. /\ Len(p \o q) = Len(p) + Len(q) /\ Len(p) \in Nat /\ Len(q) \in Nat
          /\ \A i \in 1 .. Len(p) + Len(q) :
               (p \o q)[i] = IF i <= Len(p) THEN p[i] ELSE q[i - Len(p)]
      BY ConcatProperties
    <2>3. Orders(p \o q) => Orders(p) \/ Orders(q)
      BY <2>2 DEF Orders
    <2>4. Orders(p) => Orders(p \o q)
      BY <2>2 DEF Orders
    <2>5. ASSUME NEW i \in 1 .. Len(q), q[i] = FALSE PROVE Orders(p \o q)
      <3>1. i + Len(p) \in 1 .. Len(p) + Len(q) /\ ~(i + Len(p) <= Len(p)) /\ (i + Len(p)) - Len(p) = i
        BY <2>2
      <3> QED BY <2>2, <2>5, <3>1 DEF Orders
    <2> QED BY <2>1, <2>3, <2>4, <2>5 DEF Orders
  <1>4. ASSUME NEW q \in Seq(BOOLEAN), q # <<>>
        PROVE  /\ Tail(q) \in Seq(BOOLEAN) /\ Head(q) \in BOOLEAN
               /\ Orders(q) <=> Orders(Tail(q)) \/ Head(q) = FALSE
    <2>1. /\ Tail(q) \in Seq(BOOLEAN) /\ Head(q) \in BOOLEAN
      BY <1>4, HeadTailProperties, Zenon
    <2>2. /\ Len(Tail(q)) = Len(q) - 1 /\ Len(q) \in Nat \ {0} /\ Head(q) = q[1]
          /\ \A i \in 1 .. Len(Tail(q)) : Tail(q)[i] = q[i + 1]
      BY <1>4, HeadTailProperties
    <2>3. ASSUME NEW i \in 1 .. Len(q), q[i] = FALSE, i # 1 PROVE Orders(Tail(q))
      <3>1. i - 1 \in 1 .. Len(Tail(q)) /\ (i - 1) + 1 = i
        BY <2>2, <2>3
      <3> QED BY <2>2, <2>3, <3>1 DEF Orders
    <2>4. ASSUME NEW i \in 1 .. Len(Tail(q)), Tail(q)[i] = FALSE PROVE Orders(q)
      <3>1. i + 1 \in 1 .. Len(q)
        BY <2>2
      <3> QED BY <2>2, <2>4, <3>1 DEF Orders
    <2>5. 1 \in 1 .. Len(q)
      BY <2>2
    <2> QED BY <2>1, <2>2, <2>3, <2>4, <2>5 DEF Orders
  <1>5. ASSUME NEW q \in Seq(BOOLEAN) PROVE Append(q, FALSE) \in Seq(BOOLEAN) /\ Orders(Append(q, FALSE))
    <2> DEFINE v == FALSE
    <2>1. v \in BOOLEAN /\ v = FALSE
      OBVIOUS
    <2> HIDE DEF v
    <2>2. Append(q, v) \in Seq(BOOLEAN) /\ Orders(Append(q, v))
      BY <1>2, <2>1
    <2> QED BY <2>1, <2>2
  <1> QED BY <1>1, <1>2, <1>3, <1>4, <1>5

LEMMA SettledFacts ==
  ASSUME NEW a, NEW c \in BOOLEAN, NEW f, NEW w, Settled(a, c, f, w)
  PROVE  /\ a \in AppType /\ ~(Timers \subseteq a.later)
         /\ a.cmds = <<>> /\ a.reset = "no" /\ a.crash = "keep"
         /\ BtSound(a, c) /\ Watched(a, c) /\ Kept(a, f, w)
  <1>1. (c \/ Orders(a.cmds)) = c
    BY OrderFacts DEF Settled
  <1> QED BY <1>1 DEF Settled, Fine, Flagged

\* What the helpers of app_pm.c and app_bt.c change.
LEMMA StopAutoFacts ==
  ASSUME NEW a \in AppType
  PROVE  LET b == StopAuto(a) IN
         /\ b \in AppType /\ AllBut(a, b, {"later"}) /\ b.later = a.later \ Timers
  BY DEF StopAuto, AppType, AllBut

LEMMA StartAutoFacts ==
  ASSUME NEW a \in AppType
  PROVE  LET b == StartAuto(a) IN
         /\ b \in AppType /\ AllBut(a, b, {"later"}) 
         /\ b.later = (a.later \ Timers) \cup {IF Off(a) THEN "POWER_OFF" ELSE "AUTO_POWER_OFF"}
  <1> DEFINE c == StopAuto(a)
             k == IF Off(a) THEN "POWER_OFF" ELSE "AUTO_POWER_OFF"
             b == StartAuto(a)
  <1>1. c \in AppType /\ AllBut(a, c, {"later"}) /\ c.later = a.later \ Timers
    BY StopAutoFacts, Zenon
  <1>2. k \in Timers /\ k \in Later
    BY DEF Later, Timers
  <1>3. b = [c EXCEPT !.later = @ \cup {k}]
    BY DEF StartAuto
  <1> HIDE DEF b, c, k
  <1>4. b \in AppType
    BY <1>1, <1>2, <1>3 DEF AppType
  <1>5. b.later = c.later \cup {k}
    BY <1>1, <1>3 DEF AppType
  <1>6. AllBut(a, b, {"later"})
    BY <1>1, <1>3 DEF AllBut, AppType
  <1>7. b.later = (a.later \ Timers) \cup {k}
    BY <1>1, <1>5
  <1> QED BY <1>4, <1>6, <1>7 DEF b, k

LEMMA SetCmds ==
  ASSUME NEW a \in AppType, NEW u \in BOOLEAN, NEW p \in BOOLEAN, NEW q \in Seq(BOOLEAN)
  PROVE  LET b == [a EXCEPT !.user = u, !.pending = p, !.cmds = q] IN
         /\ b \in AppType /\ AllBut(a, b, {"user", "pending", "cmds"}) 
         /\ b.user = u /\ b.pending = p /\ b.cmds = q
  BY DEF AppType, AllBut

LEMMA BtPowerOffFacts ==
  ASSUME NEW a \in AppType
  PROVE  LET b == BtPowerOff(a) IN
         /\ b \in AppType /\ AllBut(a, b, {"user", "pending", "cmds"}) 
         /\ b.user = FALSE /\ b.pending = FALSE
         /\ b.cmds = IF a.enabled THEN Append(a.cmds, FALSE) ELSE a.cmds
  <1> DEFINE q == IF a.enabled THEN Append(a.cmds, FALSE) ELSE a.cmds
  <1>0. a.cmds \in Seq(BOOLEAN)
    BY DEF AppType
  <1>1. q \in Seq(BOOLEAN)
    BY <1>0, OrderFacts
  <1>2. BtPowerOff(a) = [a EXCEPT !.user = FALSE, !.pending = FALSE, !.cmds = q]
    BY DEF BtPowerOff
  <1> HIDE DEF q
  <1>3. LET b == [a EXCEPT !.user = FALSE, !.pending = FALSE, !.cmds = q] IN
         /\ b \in AppType /\ AllBut(a, b, {"user", "pending", "cmds"}) 
         /\ b.user = FALSE /\ b.pending = FALSE /\ b.cmds = q
    BY <1>1, SetCmds
  <1> QED BY <1>2, <1>3 DEF q

LEMMA BtPowerOnFacts ==
  ASSUME NEW a \in AppType
  PROVE  LET b == BtPowerOn(a) IN
         /\ b \in AppType /\ AllBut(a, b, {"user", "pending", "cmds"})
         /\ b.user = TRUE /\ b.cmds \in Seq(BOOLEAN)
         /\ Orders(a.cmds) => Orders(b.cmds)
  <1> DEFINE p == IF a.enabled THEN a.pending ELSE IF a.sys = "none" THEN TRUE ELSE a.pending
             q == IF a.enabled THEN a.cmds ELSE IF a.sys = "none" THEN a.cmds ELSE Append(a.cmds, TRUE)
  <1>1. a.cmds \in Seq(BOOLEAN) /\ a.pending \in BOOLEAN
    BY DEF AppType
  <1>2. Append(a.cmds, TRUE) \in Seq(BOOLEAN) /\ (Orders(a.cmds) => Orders(Append(a.cmds, TRUE)))
    BY <1>1, OrderFacts
  <1>3. q \in Seq(BOOLEAN) /\ p \in BOOLEAN /\ (Orders(a.cmds) => Orders(q))
    BY <1>1, <1>2
  <1>4. BtPowerOn(a) = [a EXCEPT !.user = TRUE, !.pending = p, !.cmds = q]
    BY DEF BtPowerOn, AppType
  <1> HIDE DEF p, q
  <1>5. LET b == [a EXCEPT !.user = TRUE, !.pending = p, !.cmds = q] IN
         /\ b \in AppType /\ AllBut(a, b, {"user", "pending", "cmds"})
         /\ b.user = TRUE /\ b.pending = p /\ b.cmds = q
    <2> DEFINE u == TRUE
    <2>1. u \in BOOLEAN /\ u = TRUE
      OBVIOUS
    <2> HIDE DEF u
    <2>2. LET b == [a EXCEPT !.user = u, !.pending = p, !.cmds = q] IN
         /\ b \in AppType /\ AllBut(a, b, {"user", "pending", "cmds"})
         /\ b.user = u /\ b.pending = p /\ b.cmds = q
      BY <1>3, <2>1 DEF AppType, AllBut
    <2> QED BY <2>1, <2>2
  <1> QED BY <1>3, <1>4, <1>5

\* app_bt_power_off of an enabled core leaves a command to disable it.
LEMMA OrdersGiven ==
  ASSUME NEW a \in AppType
  PROVE  Orders(Append(a.cmds, FALSE))
  <1>1. a.cmds \in Seq(BOOLEAN)
    BY DEF AppType
  <1> QED BY <1>1, OrderFacts

\* do_shutdown and do_reboot.
LEMMA EndingFacts ==
  ASSUME NEW a \in AppType, NEW closed \in BOOLEAN
  PROVE  /\ DoShutdown(a) \in AppType /\ AllBut(a, DoShutdown(a), {"ending"})
         /\ DoShutdown(a).ending # "no"
         /\ DoReboot(a, closed) \in AppType /\ AllBut(a, DoReboot(a, closed), {"ending", "reason"})
         /\ DoReboot(a, closed).ending # "no"
  <1>1. /\ DoShutdown(a) \in AppType /\ AllBut(a, DoShutdown(a), {"ending"})
         /\ DoShutdown(a).ending # "no"
    BY DEF DoShutdown, AppType, AllBut
  <1> DEFINE r == IF closed /\ a.reason \in {"FACTORY_RESET", "OTA"} THEN "CHARGER" ELSE a.reason
  <1>2. r \in Reasons
    BY DEF Reasons, AppType
  <1>3. DoReboot(a, closed) = IF a.ending # "no" THEN a ELSE [a EXCEPT !.ending = "reboot", !.reason = r]
    BY DEF DoReboot, AppType
  <1> HIDE DEF r
  <1>4. LET b == [a EXCEPT !.ending = "reboot", !.reason = r] IN
         /\ b \in AppType /\ AllBut(a, b, {"ending", "reason"}) /\ b.ending = "reboot"
    BY <1>2 DEF AppType, AllBut
  <1>5. AllBut(a, a, {"ending", "reason"})
    BY DEF AllBut
  <1> QED BY <1>1, <1>3, <1>4, <1>5

LEMMA SetLater ==
  ASSUME NEW a \in AppType, NEW l \in SUBSET Later
  PROVE  LET b == [a EXCEPT !.later = l] IN
         b \in AppType /\ AllBut(a, b, {"later"}) /\ b.later = l
  BY DEF AppType, AllBut

\* One timer, after the others are stopped: sound where none is forbidden.
LEMMA ArmSound ==
  ASSUME NEW a \in AppType, NEW e, BtSound(a, e), ~Manned(a) \/ a.ending # "no", NEW id \in Timers
  PROVE  LET b == [StopAuto(a) EXCEPT !.later = @ \cup {id}] IN
         /\ b \in AppType /\ ~(Timers \subseteq b.later) /\ AllBut(a, b, {"later"})
         /\ BtSound(b, e) /\ Watched(b, e)
  <1> DEFINE s == StopAuto(a)
             b == [s EXCEPT !.later = @ \cup {id}]
  <1>1. s \in AppType /\ AllBut(a, s, {"later"}) /\ s.later = a.later \ Timers
    BY StopAutoFacts
  <1> HIDE DEF s
  <1>2. s.later \cup {id} \in SUBSET Later
    BY <1>1 DEF AppType, Timers, Later
  <1>3. b \in AppType /\ AllBut(s, b, {"later"}) /\ b.later = s.later \cup {id}
    BY <1>1, <1>2, SetLater
  <1> HIDE DEF b
  <1>4. /\ b.enabled = a.enabled /\ b.conn = a.conn /\ b.sys = a.sys /\ b.noAuto = a.noAuto
        /\ b.user = a.user /\ b.pending = a.pending /\ b.noOff = a.noOff /\ b.ending = a.ending
        /\ AllBut(a, b, {"later"})
    BY <1>1, <1>3 DEF AllBut
  <1>5. /\ ~(Timers \subseteq b.later) /\ b.later \cap Timers # {}
        /\ "ENABLE_POWER_OFF" \in a.later => "ENABLE_POWER_OFF" \in b.later
    BY <1>1, <1>3 DEF Timers
  <1>6. BtSound(b, e)
    BY <1>4, <1>5 DEF BtSound, Off
  <1>7. Watched(b, e)
    BY <1>4, <1>5 DEF Watched, Manned
  <1> QED BY <1>3, <1>4, <1>5, <1>6, <1>7 DEF b, s

\* start_auto_power_off.
LEMMA StartAutoSound ==
  ASSUME NEW a \in AppType, NEW e, BtSound(a, e), ~Manned(a) \/ a.ending # "no"
  PROVE  LET b == StartAuto(a) IN
         /\ b \in AppType /\ ~(Timers \subseteq b.later) /\ AllBut(a, b, {"later"})
         /\ BtSound(b, e) /\ Watched(b, e)
  <1> DEFINE id == IF Off(a) THEN "POWER_OFF" ELSE "AUTO_POWER_OFF"
  <1>1. id \in Timers
    BY DEF Timers
  <1>2. StartAuto(a) = [StopAuto(a) EXCEPT !.later = @ \cup {id}]
    BY DEF StartAuto
  <1> HIDE DEF id
  <1> QED BY <1>1, <1>2, ArmSound

\* A handler that leaves the wish and the flag alone has only to be sound.
LEMMA SameWish ==
  ASSUME NEW a, NEW b \in AppType, NEW c, NEW f, NEW w, Kept(a, f, w),
         b.user = a.user, b.reboot = a.reboot, b.ending = a.ending, b.crash = "keep",
         BtSound(b, c), Watched(b, c), ~(Timers \subseteq b.later)
  PROVE  Fine(b, c, f, w)
  <1>1. BtSound(b, c \/ Orders(b.cmds))
    BY DEF BtSound
  <1>2. Watched(b, c \/ Orders(b.cmds))
    BY DEF Watched
  <1>3. Kept(b, Flagged(b, f), w)
    BY DEF Kept, Flagged
  <1> QED BY <1>1, <1>2, <1>3 DEF Fine

\* A handler that stops the timers and asks for Bluetooth to be off: the charger, the
\* shutdown, the restart or the end takes the place of the timers.
LEMMA StoppedFine ==
  ASSUME NEW a \in AppType, NEW b \in AppType, NEW c, NEW f, NEW w, BtSound(a, c),
         b.later \cap Timers = {}, SameBt(a, b), b.sys = a.sys, b.noOff = a.noOff,
         "ENABLE_POWER_OFF" \in a.later => "ENABLE_POWER_OFF" \in b.later,
         b.user = FALSE, b.pending = FALSE, a.enabled => Orders(b.cmds),
         b.crash = "POWER_OFF" \/ b.reboot \/ b.ending # "no",
         b.charging \/ b.shutdown \/ b.reboot \/ b.ending # "no"
  PROVE  Fine(b, c, f, w)
  <1>1. ~(Timers \subseteq b.later)
    BY DEF Timers
  <1>2. BtSound(b, c \/ Orders(b.cmds))
    BY DEF BtSound, SameBt, Off
  <1>3. Watched(b, c \/ Orders(b.cmds))
    BY DEF Watched, SameBt
  <1>4. Kept(b, Flagged(b, f), w)
    BY DEF Kept, Flagged
  <1> QED BY <1>1, <1>2, <1>3, <1>4 DEF Fine

\* pm_power_off.
LEMMA PmPowerOffFine ==
  ASSUME NEW a \in AppType, NEW c, NEW f, NEW w, BtSound(a, c), NEW full \in BOOLEAN
  PROVE  LET b == PmPowerOff(a, full) IN Fine(b, c, f, w) /\ SameBt(a, b)
  <1> DEFINE s == StopAuto(a)
             o == BtPowerOff(s)
             p == [o EXCEPT !.crash = "POWER_OFF"]
             q == [p EXCEPT !.shutdown = TRUE, !.later = @ \cup {"FORCE_SHUTDOWN"}]
  <1>1. a \in AppType /\ BtSound(a, c)
    OBVIOUS
  <1>2. s \in AppType /\ AllBut(a, s, {"later"}) /\ s.later = a.later \ Timers
    BY <1>1, StopAutoFacts
  <1>3. /\ o \in AppType /\ AllBut(s, o, {"user", "pending", "cmds"})
        /\ o.user = FALSE /\ o.pending = FALSE
        /\ o.cmds = IF s.enabled THEN Append(s.cmds, FALSE) ELSE s.cmds
    BY <1>2, BtPowerOffFacts
  <1> HIDE DEF s, o
  <1>4. p \in AppType /\ AllBut(o, p, {"crash"}) /\ p.crash = "POWER_OFF"
    BY <1>3 DEF AppType, AllBut
  <1> HIDE DEF p
  <1>5. /\ q \in AppType /\ AllBut(p, q, {"shutdown", "later"})
        /\ q.shutdown = TRUE /\ q.later = p.later \cup {"FORCE_SHUTDOWN"}
    BY <1>4 DEF AppType, AllBut, Later
  <1>6. PmPowerOff(a, full) = IF a.charging /\ ~full THEN p ELSE IF Off(p) THEN DoShutdown(p) ELSE q
    BY DEF PmPowerOff, s, o, p
  <1> HIDE DEF q
  <1>7. /\ p.later = a.later \ Timers /\ p.user = FALSE /\ p.pending = FALSE /\ p.sys = a.sys
        /\ p.noOff = a.noOff /\ SameBt(a, p) /\ p.charging = a.charging
        /\ p.cmds = IF a.enabled THEN Append(a.cmds, FALSE) ELSE a.cmds
    BY <1>1, <1>2, <1>3, <1>4 DEF AllBut, SameBt
  <1>8. a.enabled => Orders(p.cmds)
    BY <1>1, <1>7, OrdersGiven
  <1>9. /\ p.later \cap Timers = {} /\ q.later \cap Timers = {}
        /\ "ENABLE_POWER_OFF" \in a.later => "ENABLE_POWER_OFF" \in p.later /\ "ENABLE_POWER_OFF" \in q.later
    BY <1>5, <1>7 DEF Timers
  <1>11. ASSUME a.charging /\ ~full PROVE Fine(p, c, f, w)
    BY <1>1, <1>4, <1>7, <1>8, <1>9, <1>11, StoppedFine
  <1>12. Fine(DoShutdown(p), c, f, w) /\ SameBt(a, DoShutdown(p))
    <2> DEFINE d == DoShutdown(p)
    <2>1. d \in AppType /\ AllBut(p, d, {"ending"}) /\ d.ending # "no"
      BY <1>4, EndingFacts
    <2> HIDE DEF d
    <2>2. /\ d.later = p.later /\ SameBt(a, d) /\ d.sys = a.sys /\ d.noOff = a.noOff
          /\ d.user = FALSE /\ d.pending = FALSE /\ d.cmds = p.cmds
      BY <1>7, <2>1 DEF AllBut, SameBt
    <2>3. Fine(d, c, f, w)
      BY <1>1, <1>8, <1>9, <2>1, <2>2, StoppedFine
    <2> QED BY <2>2, <2>3 DEF d
  <1>13. Fine(q, c, f, w) /\ SameBt(a, q)
    <2>1. /\ SameBt(a, q) /\ q.sys = a.sys /\ q.noOff = a.noOff /\ q.crash = "POWER_OFF"
          /\ q.user = FALSE /\ q.pending = FALSE /\ q.cmds = p.cmds
      BY <1>4, <1>5, <1>7 DEF AllBut, SameBt
    <2> QED BY <1>1, <1>5, <1>8, <1>9, <2>1, StoppedFine
  <1> QED BY <1>6, <1>7, <1>11, <1>12, <1>13

\* app_pm_handle_charger_disable_bt.
LEMMA DisableBtFine ==
  ASSUME NEW a, NEW c \in BOOLEAN, NEW f, NEW w, Settled(a, c, f, w)
  PROVE  LET b == DisableBt(a) IN Fine(b, c, f, w) /\ SameBt(a, b)
  <1> DEFINE m == [a EXCEPT !.later = @ \ {"ENABLE_POWER_OFF"}, !.noOff = FALSE, !.crash = "POWER_OFF"]
             b == BtPowerOff(m)
  <1>1. /\ a \in AppType /\ BtSound(a, c) /\ Watched(a, c) /\ ~(Timers \subseteq a.later)
    BY SettledFacts
  <1>2. /\ m \in AppType /\ AllBut(a, m, {"later", "noOff", "crash"})
        /\ m.later = a.later \ {"ENABLE_POWER_OFF"} /\ m.noOff = FALSE /\ m.crash = "POWER_OFF"
    BY <1>1 DEF AppType, AllBut
  <1> HIDE DEF m
  <1>3. /\ b \in AppType /\ AllBut(m, b, {"user", "pending", "cmds"})
        /\ b.user = FALSE /\ b.pending = FALSE
        /\ b.cmds = IF m.enabled THEN Append(m.cmds, FALSE) ELSE m.cmds
    BY <1>2, BtPowerOffFacts
  <1>4. b = DisableBt(a)
    BY DEF DisableBt, m
  <1> HIDE DEF b
  <1>5. /\ b.enabled = a.enabled /\ b.conn = a.conn /\ b.sys = a.sys /\ b.noAuto = a.noAuto
        /\ b.queue = a.queue /\ b.noOff = FALSE /\ b.ending = a.ending /\ b.charging = a.charging
        /\ b.shutdown = a.shutdown /\ b.reboot = a.reboot /\ b.crash = "POWER_OFF"
        /\ b.later = a.later \ {"ENABLE_POWER_OFF"}
    BY <1>2, <1>3 DEF AllBut
  <1>6. a.enabled => Orders(b.cmds)
    BY <1>2, <1>3, <1>5, OrdersGiven DEF AllBut
  <1>7. b.later \cap Timers = a.later \cap Timers /\ ~(Timers \subseteq b.later)
    BY <1>1, <1>5 DEF Timers
  <1>8. BtSound(b, c \/ Orders(b.cmds))
    BY <1>1, <1>3, <1>5, <1>6 DEF BtSound, Off
  <1>9. Watched(b, c \/ Orders(b.cmds))
    BY <1>1, <1>5, <1>6, <1>7 DEF Watched
  <1>10. Kept(b, Flagged(b, f), w)
    BY <1>3, <1>5 DEF Kept, Flagged
  <1> QED BY <1>3, <1>4, <1>5, <1>7, <1>8, <1>9, <1>10 DEF Fine, SameBt

\* app_pm_reboot.
LEMMA PmRebootFine ==
  ASSUME NEW a, NEW c \in BOOLEAN, NEW f, NEW w, Settled(a, c, f, w),
         NEW reason \in Reasons, NEW closed \in BOOLEAN
  PROVE  LET b == PmReboot(a, reason, closed) IN Fine(b, c, f, w) /\ SameBt(a, b)
  <1> DEFINE r == [a EXCEPT !.reset = reason]
             s == StopAuto(a)
             o == BtPowerOff(s)
             p == [o EXCEPT !.reason = reason]
             q == [p EXCEPT !.reboot = TRUE, !.later = @ \cup {"FORCE_REBOOT"}]
             d == DoReboot(p, closed)
  <1>1. a \in AppType /\ BtSound(a, c) /\ ~(Timers \subseteq a.later)
    BY SettledFacts
  <1>2. s \in AppType /\ AllBut(a, s, {"later"}) /\ s.later = a.later \ Timers
    BY <1>1, StopAutoFacts
  <1>3. /\ o \in AppType /\ AllBut(s, o, {"user", "pending", "cmds"})
        /\ o.user = FALSE /\ o.pending = FALSE
        /\ o.cmds = IF s.enabled THEN Append(s.cmds, FALSE) ELSE s.cmds
    BY <1>2, BtPowerOffFacts
  <1>4. r \in AppType /\ AllBut(a, r, {"reset"}) /\ r.reset # "no"
    BY <1>1 DEF AppType, AllBut, Reasons
  <1>5. PmReboot(a, reason, closed) = IF a.ending = "shutdown" THEN r ELSE IF Off(p) THEN d ELSE q
    BY DEF PmReboot
  <1> HIDE DEF r, s, o
  <1>6. p \in AppType /\ AllBut(o, p, {"reason"})
    BY <1>3 DEF AppType, AllBut
  <1> HIDE DEF p
  <1>7. /\ q \in AppType /\ AllBut(p, q, {"reboot", "later"})
        /\ q.reboot = TRUE /\ q.later = p.later \cup {"FORCE_REBOOT"}
    BY <1>6 DEF AppType, AllBut, Later
  <1>8. d \in AppType /\ AllBut(p, d, {"ending", "reason"}) /\ d.ending # "no"
    BY <1>6, EndingFacts
  <1> HIDE DEF q, d
  <1>9. /\ p.later = a.later \ Timers /\ p.user = FALSE /\ p.pending = FALSE /\ p.sys = a.sys
        /\ p.noOff = a.noOff /\ SameBt(a, p)
        /\ p.cmds = IF a.enabled THEN Append(a.cmds, FALSE) ELSE a.cmds
    BY <1>2, <1>3, <1>6 DEF AllBut, SameBt
  <1>10. a.enabled => Orders(p.cmds)
    BY <1>1, <1>9, OrdersGiven
  <1>11. Fine(r, c, f, w) /\ SameBt(a, r)
    BY <1>1, <1>4 DEF Fine, AllBut, SameBt
  <1>12. /\ SameBt(a, q) /\ q.sys = a.sys /\ q.noOff = a.noOff
         /\ q.user = FALSE /\ q.pending = FALSE /\ q.cmds = p.cmds
    BY <1>7, <1>9 DEF AllBut, SameBt
  <1>13. /\ SameBt(a, d) /\ d.sys = a.sys /\ d.noOff = a.noOff /\ d.later = p.later
         /\ d.user = FALSE /\ d.pending = FALSE /\ d.cmds = p.cmds
    BY <1>8, <1>9 DEF AllBut, SameBt
  <1>14. /\ d.later \cap Timers = {} /\ q.later \cap Timers = {}
         /\ "ENABLE_POWER_OFF" \in a.later => "ENABLE_POWER_OFF" \in d.later /\ "ENABLE_POWER_OFF" \in q.later
    BY <1>7, <1>9, <1>13 DEF Timers
  <1>15. Fine(q, c, f, w)
    BY <1>1, <1>7, <1>10, <1>12, <1>14, StoppedFine
  <1>16. Fine(d, c, f, w)
    BY <1>1, <1>8, <1>10, <1>13, <1>14, StoppedFine
  <1> QED BY <1>5, <1>11, <1>12, <1>13, <1>15, <1>16

\* app_pm_power_on, of an earbud that runs or of one that boots.
LEMMA PmPowerOnFine ==
  ASSUME NEW a \in AppType, NEW c, NEW f, NEW w, NEW guard \in BOOLEAN,
         ~(Timers \subseteq a.later), BtSound(a, c), Off(a) \/ Watched(a, c)
  PROVE  LET b == PmPowerOn(a, guard) IN
         /\ Fine(b, c, f, w) /\ SameBt(a, b)
         /\ a.ending # "shutdown" => b.reset = a.reset /\ b.crash = "POWER_ON"
  <1> DEFINE b == [a EXCEPT !.crash = "POWER_ON"]
             k == IF ~Off(b) /\ (b.conn \/ b.noAuto) THEN b ELSE StartAuto(b)
             d == BtPowerOn(k)
             g == [d EXCEPT !.noOff = TRUE, !.later = @ \cup {"ENABLE_POWER_OFF"}]
             r == [b EXCEPT !.reset = "USER"]
  <1>1. b \in AppType /\ AllBut(a, b, {"crash"}) /\ b.crash = "POWER_ON"
    BY DEF AppType, AllBut
  <1>2. PmPowerOn(a, guard) = IF a.ending = "shutdown" THEN r ELSE IF guard THEN g ELSE d
    BY DEF PmPowerOn
  <1> HIDE DEF b
  <1>3. r \in AppType /\ AllBut(b, r, {"reset"}) /\ r.reset # "no"
    BY <1>1 DEF AppType, AllBut, Reasons
  <1> HIDE DEF r
  <1>4. /\ b.later = a.later /\ b.enabled = a.enabled /\ b.conn = a.conn /\ b.sys = a.sys
        /\ b.noAuto = a.noAuto /\ b.user = a.user /\ b.pending = a.pending /\ b.noOff = a.noOff
        /\ b.ending = a.ending /\ b.shutdown = a.shutdown /\ b.reboot = a.reboot
        /\ b.charging = a.charging /\ b.queue = a.queue
    BY <1>1 DEF AllBut
  <1>5. BtSound(b, c) /\ (Off(b) \/ Watched(b, c)) /\ ~(Timers \subseteq b.later)
    BY <1>4 DEF BtSound, Watched, Off
  <1>6. /\ k \in AppType /\ ~(Timers \subseteq k.later) /\ AllBut(b, k, {"later"})
        /\ BtSound(k, c) /\ Watched(k, c)
    <2>1. CASE ~Off(b) /\ (b.conn \/ b.noAuto)
      BY <1>1, <1>5, <2>1 DEF AllBut
    <2>2. CASE ~(~Off(b) /\ (b.conn \/ b.noAuto))
      <3>1. ~Manned(b)
        BY <1>5, <2>2 DEF Manned, Off, BtSound
      <3>2. k = StartAuto(b)
        BY <2>2
      <3> HIDE DEF k
      <3> QED BY <1>1, <1>5, <3>1, <3>2, StartAutoSound
    <2> QED BY <2>1, <2>2
  <1> HIDE DEF k
  <1>7. /\ d \in AppType /\ AllBut(k, d, {"user", "pending", "cmds"})
        /\ d.user = TRUE
    BY <1>6, BtPowerOnFacts
  <1> HIDE DEF d
  <1>8. /\ d.enabled = k.enabled /\ d.conn = k.conn /\ d.sys = k.sys /\ d.queue = k.queue
        /\ d.noAuto = k.noAuto /\ d.noOff = k.noOff /\ d.ending = k.ending /\ d.shutdown = k.shutdown
        /\ d.reboot = k.reboot /\ d.charging = k.charging /\ d.later = k.later
        /\ SameBt(a, d) /\ d.crash = "POWER_ON" /\ d.reset = a.reset
    BY <1>1, <1>6, <1>7 DEF AllBut, SameBt
  <1>9. /\ BtSound(d, c \/ Orders(d.cmds)) /\ Watched(d, c \/ Orders(d.cmds))
        /\ Kept(d, Flagged(d, f), w)
    BY <1>6, <1>7, <1>8 DEF BtSound, Watched, Off, Kept, Flagged
  <1>10. /\ g \in AppType /\ AllBut(d, g, {"noOff", "later"})
         /\ g.noOff = TRUE /\ g.later = d.later \cup {"ENABLE_POWER_OFF"}
    BY <1>7 DEF AppType, AllBut, Later
  <1> HIDE DEF g
  <1>11. /\ g.enabled = d.enabled /\ g.conn = d.conn /\ g.sys = d.sys /\ g.queue = d.queue
         /\ g.noAuto = d.noAuto /\ g.ending = d.ending /\ g.shutdown = d.shutdown /\ g.cmds = d.cmds
         /\ g.reboot = d.reboot /\ g.charging = d.charging /\ g.user = d.user
         /\ g.pending = d.pending
         /\ SameBt(a, g) /\ g.crash = "POWER_ON" /\ g.reset = a.reset
    BY <1>8, <1>10 DEF AllBut, SameBt
  <1>12. g.later \cap Timers = d.later \cap Timers /\ ~(Timers \subseteq g.later) /\ ~(Timers \subseteq d.later)
    BY <1>6, <1>8, <1>10 DEF Timers
  <1>13. /\ BtSound(g, c \/ Orders(g.cmds)) /\ Watched(g, c \/ Orders(g.cmds))
         /\ Kept(g, Flagged(g, f), w)
    BY <1>9, <1>10, <1>11, <1>12, <1>7 DEF BtSound, Watched, Off, Kept, Flagged
  <1>14. Fine(r, c, f, w) /\ SameBt(a, r)
    <2>1. r.later = a.later
      BY <1>1, <1>3 DEF AllBut
    <2> QED BY <1>1, <1>3, <2>1 DEF Fine, AllBut, SameBt
  <1> QED BY <1>2, <1>7, <1>8, <1>9, <1>10, <1>11, <1>12, <1>13, <1>14 DEF Fine

\* app_pm_handle_msg, whichever delayed message expired.
LEMMA PmHandleMsgFine ==
  ASSUME NEW a, NEW c \in BOOLEAN, NEW f, NEW w, Settled(a, c, f, w),
         NEW id \in a.later, NEW ota \in BOOLEAN, NEW full \in BOOLEAN, NEW closed \in BOOLEAN
  PROVE  LET b == PmHandleMsg([a EXCEPT !.later = @ \ {id}], id, ota, full, closed)
         IN Fine(b, c, f, w) /\ SameBt(a, b)
  <1> DEFINE m == [a EXCEPT !.later = @ \ {id}]
             b == PmHandleMsg(m, id, ota, full, closed)
  <1>1. /\ a \in AppType /\ BtSound(a, c) /\ Watched(a, c) /\ Kept(a, f, w)
        /\ ~(Timers \subseteq a.later) /\ a.crash = "keep"
    BY SettledFacts
  <1>2. a.later \ {id} \in SUBSET Later /\ id \in Later
    BY <1>1 DEF AppType
  <1>3. m \in AppType /\ AllBut(a, m, {"later"}) /\ m.later = a.later \ {id}
    BY <1>1, <1>2, SetLater
  <1> HIDE DEF m
  <1>4. /\ m.enabled = a.enabled /\ m.conn = a.conn /\ m.sys = a.sys /\ m.noAuto = a.noAuto
        /\ m.user = a.user /\ m.pending = a.pending /\ m.noOff = a.noOff /\ m.ending = a.ending
        /\ m.reboot = a.reboot /\ m.shutdown = a.shutdown /\ m.charging = a.charging
        /\ m.queue = a.queue /\ m.crash = "keep" /\ SameBt(a, m)
    BY <1>1, <1>3 DEF AllBut, SameBt
  <1>5. id # "ENABLE_POWER_OFF" => BtSound(m, c)
    BY <1>1, <1>3, <1>4 DEF BtSound, Off
  <1>6. id \in Timers => ~Manned(m) \/ m.ending # "no"
    BY <1>1, <1>4 DEF Watched, Manned
  <1>7. ~(Timers \subseteq m.later)
    BY <1>1, <1>3
  <1>8. ASSUME NEW x \in AppType, AllBut(m, x, {"later"}), BtSound(x, c), Watched(x, c),
               ~(Timers \subseteq x.later)
        PROVE  Fine(x, c, f, w) /\ SameBt(a, x)
    <2>1. /\ x.user = a.user /\ x.reboot = a.reboot /\ x.ending = a.ending /\ x.crash = "keep"
          /\ SameBt(a, x)
      BY <1>4, <1>8 DEF AllBut, SameBt
    <2> QED BY <1>1, <1>8, <2>1, SameWish
  <1>9. ASSUME id = "POWER_OFF" PROVE Fine(b, c, f, w) /\ SameBt(a, b)
    <2>1. b = IF ota THEN StartAuto(m) ELSE PmPowerOff(m, full)
      BY <1>9 DEF PmHandleMsg
    <2>2. Fine(StartAuto(m), c, f, w) /\ SameBt(a, StartAuto(m))
      <3>1. id \in Timers
        BY <1>9 DEF Timers
      <3> QED BY <1>3, <1>5, <1>6, <1>8, <1>9, <3>1, StartAutoSound
    <2>3. Fine(PmPowerOff(m, full), c, f, w) /\ SameBt(m, PmPowerOff(m, full))
      BY <1>3, <1>5, <1>9, PmPowerOffFine
    <2> QED BY <1>4, <2>1, <2>2, <2>3 DEF SameBt
  <1>10. ASSUME id = "AUTO_POWER_OFF" PROVE Fine(b, c, f, w) /\ SameBt(a, b)
    <2> DEFINE x == [StopAuto(m) EXCEPT !.later = @ \cup {"POWER_OFF"}]
    <2>1. b = x
      BY <1>10 DEF PmHandleMsg
    <2>2. id \in Timers /\ "POWER_OFF" \in Timers
      BY <1>10 DEF Timers
    <2>3. /\ x \in AppType /\ ~(Timers \subseteq x.later) /\ AllBut(m, x, {"later"})
          /\ BtSound(x, c) /\ Watched(x, c)
      BY <1>3, <1>5, <1>6, <1>10, <2>2, ArmSound
    <2> HIDE DEF x, b
    <2> QED BY <1>8, <2>1, <2>3
  <1>11. ASSUME id = "ENABLE_POWER_OFF" PROVE Fine(b, c, f, w) /\ SameBt(a, b)
    <2> DEFINE x == [m EXCEPT !.noOff = FALSE]
    <2>1. b = x
      BY <1>11 DEF PmHandleMsg
    <2>2. x \in AppType /\ AllBut(m, x, {"noOff"}) /\ x.noOff = FALSE
      BY <1>3 DEF AppType, AllBut
    <2> HIDE DEF x, b
    <2>3. /\ x.enabled = a.enabled /\ x.conn = a.conn /\ x.sys = a.sys /\ x.noAuto = a.noAuto
          /\ x.user = a.user /\ x.pending = a.pending /\ x.ending = a.ending
          /\ x.reboot = a.reboot /\ x.shutdown = a.shutdown /\ x.charging = a.charging
          /\ x.queue = a.queue /\ x.crash = "keep" /\ SameBt(a, x) /\ x.later = m.later
      BY <1>4, <2>2 DEF AllBut, SameBt
    <2>4. x.later \cap Timers = a.later \cap Timers
      BY <1>3, <1>11, <2>3 DEF Timers
    <2>5. BtSound(x, c) /\ Watched(x, c)
      BY <1>1, <2>2, <2>3, <2>4 DEF BtSound, Watched, Off
    <2> QED BY <1>1, <1>7, <2>1, <2>2, <2>3, <2>5, SameWish
  <1>12. ASSUME id = "FORCE_SHUTDOWN" PROVE Fine(b, c, f, w) /\ SameBt(a, b)
    <2> DEFINE x == [m EXCEPT !.reset = "SHUTDOWN_FAILED"]
    <2>1. b = x
      BY <1>12 DEF PmHandleMsg
    <2>2. x \in AppType /\ AllBut(m, x, {"reset"}) /\ x.reset # "no"
      BY <1>3 DEF AppType, AllBut
    <2> HIDE DEF x, b
    <2>3. SameBt(a, x) /\ x.later = m.later
      BY <1>4, <2>2 DEF AllBut, SameBt
    <2> QED BY <1>7, <2>1, <2>2, <2>3 DEF Fine
  <1>13. ASSUME id = "FORCE_REBOOT" PROVE Fine(b, c, f, w) /\ SameBt(a, b)
    <2> DEFINE x == DoReboot(m, closed)
    <2>1. b = x
      BY <1>13 DEF PmHandleMsg
    <2>2. x \in AppType /\ AllBut(m, x, {"ending", "reason"}) /\ x.ending # "no"
      BY <1>3, EndingFacts
    <2> HIDE DEF x, b
    <2>3. /\ x.enabled = a.enabled /\ x.conn = a.conn /\ x.sys = a.sys
          /\ x.user = a.user /\ x.pending = a.pending /\ x.noOff = a.noOff
          /\ x.crash = "keep" /\ SameBt(a, x) /\ x.later = m.later
      BY <1>4, <2>2 DEF AllBut, SameBt
    <2>4. BtSound(x, c \/ Orders(x.cmds)) /\ Watched(x, c \/ Orders(x.cmds)) /\ Kept(x, Flagged(x, f), w)
      BY <1>1, <1>3, <1>13, <2>2, <2>3 DEF BtSound, Watched, Kept, Flagged, Off
    <2> QED BY <1>7, <2>1, <2>2, <2>3, <2>4 DEF Fine
  <1>14. id \in {"POWER_OFF", "AUTO_POWER_OFF", "ENABLE_POWER_OFF", "FORCE_SHUTDOWN", "FORCE_REBOOT"}
    BY <1>2 DEF Later, Timers
  <1>15. Fine(b, c, f, w) /\ SameBt(a, b)
    BY <1>9, <1>10, <1>11, <1>12, <1>13, <1>14
  <1> QED BY <1>15 DEF m

\* bt_evt_enable_state_changed_handler: the core is on ...
LEMMA OnFine ==
  ASSUME NEW a \in AppType, NEW e, NEW f, NEW w, ~a.enabled, a.crash = "keep",
         ~(Timers \subseteq a.later), BtSound(a, e), Kept(a, f, w)
  PROVE  LET b == EnableStateChanged(a, TRUE) IN
         Fine(b, e, f, w) /\ b.enabled /\ ~b.conn /\ b.queue = a.queue
  <1> DEFINE b == [a EXCEPT !.enabled = TRUE, !.conn = FALSE]
             o == BtPowerOff(b)
             s == SysState(b)
             d == IF a.pending THEN BtPowerOn([s EXCEPT !.pending = FALSE]) ELSE s
             u == BtIsOn(d)
             r == EnableStateChanged(a, TRUE)
  <1>1. /\ b \in AppType /\ AllBut(a, b, {"enabled", "conn"}) /\ b.enabled = TRUE /\ b.conn = FALSE
    BY DEF AppType, AllBut
  <1>2. r = IF ~a.user THEN o ELSE u
    BY DEF EnableStateChanged
  <1> HIDE DEF b, r
  <1>3. /\ b.sys = a.sys /\ b.noAuto = a.noAuto /\ b.user = a.user /\ b.pending = a.pending
        /\ b.noOff = a.noOff /\ b.ending = a.ending /\ b.reboot = a.reboot
        /\ b.later = a.later /\ b.queue = a.queue /\ b.crash = "keep"
    BY <1>1 DEF AllBut
  <1>4. a.sys \in {"none", "disabled"}
    BY DEF BtSound, AppType
  <1>5. ASSUME ~a.user PROVE Fine(o, e, f, w) /\ o.enabled /\ ~o.conn /\ o.queue = a.queue
    <2>1. /\ o \in AppType /\ AllBut(b, o, {"user", "pending", "cmds"})
          /\ o.user = FALSE /\ o.pending = FALSE
          /\ o.cmds = IF b.enabled THEN Append(b.cmds, FALSE) ELSE b.cmds
      BY <1>1, BtPowerOffFacts
    <2>2. Orders(o.cmds)
      BY <1>1, <2>1, OrdersGiven
    <2> HIDE DEF o
    <2>3. /\ o.enabled = TRUE /\ o.conn = FALSE /\ o.sys = a.sys /\ o.noOff = a.noOff
          /\ o.ending = a.ending /\ o.reboot = a.reboot /\ o.later = a.later
          /\ o.queue = a.queue /\ o.crash = "keep"
      BY <1>1, <1>3, <2>1 DEF AllBut
    <2>4. BtSound(o, e \/ Orders(o.cmds)) /\ Watched(o, e \/ Orders(o.cmds)) /\ Kept(o, Flagged(o, f), w)
      BY <1>4, <1>5, <2>1, <2>2, <2>3 DEF BtSound, Watched, Kept, Flagged
    <2> QED BY <2>1, <2>3, <2>4 DEF Fine
  <1>6. ASSUME a.user = TRUE PROVE Fine(u, e, f, w) /\ u.enabled /\ ~u.conn /\ u.queue = a.queue
    <2> DEFINE v == [s EXCEPT !.pending = FALSE]
    <2>1. s \in AppType /\ AllBut(b, s, {"sys"}) /\ s.sys = "idle"
      BY <1>1 DEF SysState, AppType, AllBut
    <2> HIDE DEF s
    <2>2. v \in AppType /\ AllBut(s, v, {"pending"})
      BY <2>1 DEF AppType, AllBut
    <2> HIDE DEF v
    <2>3. /\ BtPowerOn(v) \in AppType /\ AllBut(v, BtPowerOn(v), {"user", "pending", "cmds"})
          /\ BtPowerOn(v).user = TRUE
      BY <2>2, BtPowerOnFacts
    <2>4. d = IF a.pending THEN BtPowerOn(v) ELSE s
      BY DEF v
    <2> HIDE DEF d
    <2>5. /\ d \in AppType /\ d.user = TRUE /\ d.enabled = TRUE /\ d.conn = FALSE /\ d.sys = "idle"
          /\ d.noAuto = a.noAuto /\ d.noOff = a.noOff /\ d.ending = a.ending /\ d.reboot = a.reboot
          /\ d.later = a.later /\ d.queue = a.queue /\ d.crash = "keep"
      <3>1. CASE a.pending
        BY <1>1, <1>3, <1>6, <2>1, <2>2, <2>3, <2>4, <3>1 DEF AllBut
      <3>2. CASE ~a.pending
        BY <1>1, <1>3, <1>6, <2>1, <2>4, <3>2 DEF AllBut
      <3> QED BY <3>1, <3>2
    <2>6. BtSound(d, e)
      BY <2>5 DEF BtSound, Off
    <2>7. u = IF d.noAuto THEN StopAuto(d) ELSE StartAuto(d)
      BY DEF BtIsOn
    <2> HIDE DEF u
    <2>8. /\ u \in AppType /\ AllBut(d, u, {"later"}) /\ ~(Timers \subseteq u.later)
          /\ BtSound(u, e) /\ Watched(u, e)
      <3>1. CASE d.noAuto
        <4>1. /\ u \in AppType /\ AllBut(d, u, {"later"}) /\ u.later = d.later \ Timers
          BY <2>5, <2>7, <3>1, StopAutoFacts
        <4>2. /\ u.later \cap Timers = {} /\ ~(Timers \subseteq u.later)
              /\ "ENABLE_POWER_OFF" \in d.later => "ENABLE_POWER_OFF" \in u.later
          BY <4>1 DEF Timers
        <4>3. /\ u.enabled = TRUE /\ u.conn = FALSE /\ u.sys = "idle" /\ u.noAuto = TRUE
              /\ u.user = TRUE /\ u.noOff = d.noOff
          BY <2>5, <3>1, <4>1 DEF AllBut, AppType
        <4>4. BtSound(u, e) /\ Watched(u, e)
          BY <2>6, <4>2, <4>3 DEF BtSound, Watched, Off
        <4> QED BY <4>1, <4>2, <4>4
      <3>2. CASE ~d.noAuto
        <4>1. ~Manned(d)
          BY <2>5, <3>2 DEF Manned
        <4> QED BY <2>5, <2>6, <2>7, <3>2, <4>1, StartAutoSound
      <3> QED BY <3>1, <3>2
    <2>9. /\ u.user = a.user /\ u.reboot = a.reboot /\ u.ending = a.ending /\ u.crash = "keep"
          /\ u.enabled = TRUE /\ u.conn = FALSE /\ u.queue = a.queue
      BY <1>6, <2>5, <2>8 DEF AllBut
    <2> QED BY <2>8, <2>9, SameWish
  <1>7. a.user \in BOOLEAN
    BY DEF AppType
  <1> QED BY <1>2, <1>5, <1>6, <1>7 DEF r

\* ... and the core is off.
LEMMA OffFine ==
  ASSUME NEW a \in AppType, NEW e, NEW f, NEW w, ~a.conn, a.crash = "keep",
         ~(Timers \subseteq a.later), BtSound(a, TRUE), Kept(a, f, w),
         a.enabled \/ Watched(a, TRUE)
  PROVE  LET b == EnableStateChanged(a, FALSE) IN
         /\ Fine(b, e, f, w) /\ ~b.enabled /\ ~b.conn
         /\ b.queue = IF a.enabled THEN Append(a.queue, "done") ELSE a.queue
  <1> DEFINE b == [a EXCEPT !.enabled = FALSE]
             s == SysState(b)
             v == [s EXCEPT !.pending = FALSE]
             d == IF a.pending \/ a.user THEN BtPowerOn(v) ELSE s
             q == IF a.enabled THEN Append(a.queue, "done") ELSE a.queue
             r == [d EXCEPT !.queue = q]
             z == EnableStateChanged(a, FALSE)
  <1>1. b \in AppType /\ AllBut(a, b, {"enabled"}) /\ b.enabled = FALSE
    BY DEF AppType, AllBut
  <1> HIDE DEF b
  <1>2. s \in AppType /\ AllBut(b, s, {"sys"}) /\ s.sys = "disabled"
    BY <1>1 DEF SysState, AppType, AllBut
  <1> HIDE DEF s
  <1>3. v \in AppType /\ AllBut(s, v, {"pending"}) /\ v.pending = FALSE
    BY <1>2 DEF AppType, AllBut
  <1> HIDE DEF v
  <1>4. /\ BtPowerOn(v) \in AppType /\ AllBut(v, BtPowerOn(v), {"user", "pending", "cmds"})
        /\ BtPowerOn(v).user = TRUE
    BY <1>3, BtPowerOnFacts
  <1>5. a.pending => a.user = TRUE
    BY DEF BtSound, AppType
  <1> HIDE DEF d
  <1>6. /\ d \in AppType /\ d.user = a.user /\ (d.pending => d.user) /\ d.enabled = FALSE
        /\ d.conn = a.conn /\ d.sys = "disabled" /\ d.noAuto = a.noAuto /\ d.noOff = a.noOff
        /\ d.ending = a.ending /\ d.reboot = a.reboot /\ d.shutdown = a.shutdown
        /\ d.charging = a.charging /\ d.later = a.later /\ d.queue = a.queue /\ d.crash = "keep"
    <2>1. a.user \in BOOLEAN /\ a.pending \in BOOLEAN
      BY DEF AppType
    <2>2. CASE a.pending \/ a.user
      <3>1. d = BtPowerOn(v) /\ a.user = TRUE
        BY <1>5, <2>1, <2>2 DEF d
      <3>2. AllBut(a, d, {"enabled", "sys", "pending", "user", "cmds"})
        BY <1>1, <1>2, <1>3, <1>4, <3>1 DEF AllBut
      <3>3. d.enabled = FALSE /\ d.sys = "disabled" /\ d.user = TRUE
        <4>1. v.enabled = FALSE /\ v.sys = "disabled"
          BY <1>1, <1>2, <1>3 DEF AllBut
        <4> QED BY <1>4, <3>1, <4>1 DEF AllBut
      <3> QED BY <1>4, <3>1, <3>2, <3>3 DEF AllBut
    <2>3. CASE ~(a.pending \/ a.user)
      <3>1. d = s
        BY <2>3 DEF d
      <3> QED BY <1>1, <1>2, <2>3, <3>1 DEF AllBut
    <2> QED BY <2>2, <2>3
  <1>7. a.queue \in Seq(Events) /\ q \in Seq(Events) /\ (a.enabled => Holds(q, "done"))
    <2>1. a.queue \in Seq(Events) /\ "done" \in Events
      BY DEF AppType, Events
    <2> DEFINE p == Append(a.queue, "done")
    <2>2. p \in Seq(Events) /\ Len(p) \in 1 .. Len(p) /\ p[Len(p)] = "done"
      BY <2>1
    <2>3. Holds(p, "done")
      BY <2>2 DEF Holds
    <2> QED BY <2>1, <2>2, <2>3
  <1> HIDE DEF q
  <1>8. r \in AppType /\ AllBut(d, r, {"queue"}) /\ r.queue = q
    BY <1>6, <1>7 DEF AppType, AllBut
  <1>9. d = [d EXCEPT !.queue = d.queue]
    BY <1>6 DEF AppType
  <1>10. z = r
    <2>1. z = IF a.enabled THEN [d EXCEPT !.queue = Append(@, "done")] ELSE d
      BY DEF EnableStateChanged, d, v, s, b
    <2>2. a.enabled => r = [d EXCEPT !.queue = Append(d.queue, "done")]
      BY <1>6 DEF q
    <2>3. ~a.enabled => r = d
      BY <1>6, <1>9 DEF q
    <2> QED BY <2>1, <2>2, <2>3
  <1> HIDE DEF r, z
  <1>11. /\ r.user = a.user /\ (r.pending => r.user) /\ r.enabled = FALSE /\ r.conn = FALSE
         /\ r.sys = "disabled" /\ r.noOff = a.noOff /\ r.ending = a.ending /\ r.reboot = a.reboot
         /\ r.shutdown = a.shutdown /\ r.charging = a.charging /\ r.later = a.later
         /\ r.crash = "keep"
    <2>1. a.conn = FALSE
      BY DEF AppType
    <2> QED BY <1>6, <1>8, <2>1 DEF AllBut
  <1>12. BtSound(r, e)
    BY <1>11 DEF BtSound
  <1>13. Watched(r, e)
    BY <1>7, <1>8, <1>11 DEF Watched, q
  <1>14. Fine(r, e, f, w)
    BY <1>8, <1>11, <1>12, <1>13, SameWish
  <1> QED BY <1>8, <1>10, <1>11, <1>14 DEF z, q

\* bt_evt_connection_state_changed_handler.
LEMMA ConnFine ==
  ASSUME NEW a \in AppType, NEW e, NEW f, NEW w, NEW on \in BOOLEAN, a.enabled, a.conn = ~on,
         a.crash = "keep", ~(Timers \subseteq a.later), BtSound(a, e), Watched(a, e), Kept(a, f, w)
  PROVE  LET b == ConnStateChanged(a, on) IN
         Fine(b, e, f, w) /\ b.enabled /\ (b.conn <=> on) /\ b.queue = a.queue
  <1> DEFINE m == [a EXCEPT !.conn = on]
             b == SysState(m)
             z == ConnStateChanged(a, on)
  <1>1. m \in AppType /\ AllBut(a, m, {"conn"}) /\ m.conn = on
    BY DEF AppType, AllBut
  <1>2. z = IF ~a.conn /\ on THEN StopAuto(b) ELSE IF a.conn /\ ~on THEN BtIsDisconnected(b) ELSE b
    BY DEF ConnStateChanged
  <1> HIDE DEF m, z
  <1>3. m.enabled = TRUE
    BY <1>1 DEF AllBut, AppType
  <1>4. /\ b \in AppType /\ AllBut(m, b, {"sys"})
        /\ b.sys = IF on THEN "connected" ELSE "idle"
    BY <1>1, <1>3 DEF SysState, AppType, AllBut
  <1> HIDE DEF b
  <1>5. /\ b.enabled = TRUE /\ b.conn = on /\ b.noAuto = a.noAuto /\ b.user = a.user
        /\ b.pending = a.pending /\ b.noOff = a.noOff /\ b.ending = a.ending /\ b.reboot = a.reboot
        /\ b.later = a.later /\ b.queue = a.queue /\ b.crash = "keep"
    BY <1>1, <1>3, <1>4 DEF AllBut
  <1>6. BtSound(b, e)
    BY <1>4, <1>5 DEF BtSound, Off
  <1>7. ASSUME NEW x \in AppType, AllBut(b, x, {"later"}), BtSound(x, e), Watched(x, e),
               ~(Timers \subseteq x.later)
        PROVE  Fine(x, e, f, w) /\ x.enabled /\ (x.conn <=> on) /\ x.queue = a.queue
    <2>1. /\ x.user = a.user /\ x.reboot = a.reboot /\ x.ending = a.ending /\ x.crash = "keep"
          /\ x.enabled = TRUE /\ x.conn = on /\ x.queue = a.queue
      BY <1>5, <1>7 DEF AllBut
    <2> QED BY <1>7, <2>1, SameWish
  <1>8. CASE on
    <2> DEFINE x == StopAuto(b)
    <2>1. z = x
      BY <1>2, <1>8
    <2>2. x \in AppType /\ AllBut(b, x, {"later"}) /\ x.later = b.later \ Timers
      BY <1>4, StopAutoFacts
    <2> HIDE DEF x
    <2>3. /\ x.later \cap Timers = {} /\ ~(Timers \subseteq x.later)
          /\ "ENABLE_POWER_OFF" \in b.later => "ENABLE_POWER_OFF" \in x.later
      BY <2>2 DEF Timers
    <2>4. /\ x.enabled = TRUE /\ x.conn = TRUE /\ x.sys = "connected"
          /\ x.user = b.user /\ x.pending = b.pending /\ x.noOff = b.noOff
      BY <1>4, <1>5, <1>8, <2>2 DEF AllBut
    <2>5. BtSound(x, e) /\ Watched(x, e)
      BY <1>6, <2>3, <2>4 DEF BtSound, Watched, Off
    <2> QED BY <1>7, <2>1, <2>2, <2>3, <2>5 DEF z
  <1>9. CASE ~on
    <2>1. z = IF b.noAuto THEN b ELSE StartAuto(b)
      BY <1>2, <1>9 DEF BtIsDisconnected
    <2>2. CASE b.noAuto
      <3>1. a.sys = "connected"
        BY <1>9 DEF BtSound
      <3>2. Watched(b, e)
        BY <1>4, <1>5, <1>9, <2>2, <3>1 DEF Watched
      <3>3. AllBut(b, b, {"later"})
        BY DEF AllBut
      <3> QED BY <1>4, <1>5, <1>6, <1>7, <2>1, <2>2, <3>2, <3>3 DEF z
    <2>3. CASE ~b.noAuto
      <3>1. ~Manned(b)
        BY <1>4, <1>9, <2>3 DEF Manned
      <3>2. z = StartAuto(b)
        BY <2>1, <2>3
      <3> QED BY <1>4, <1>6, <1>7, <3>1, <3>2, StartAutoSound DEF z
    <2> QED BY <2>2, <2>3
  <1> QED BY <1>8, <1>9

\* PM_MSG_ID_BT_POWER_OFF_DONE.
LEMMA DoneFine ==
  ASSUME NEW a \in AppType, NEW e, NEW f, NEW w, NEW closed \in BOOLEAN, a.crash = "keep",
         ~(Timers \subseteq a.later), BtSound(a, e), Kept(a, f, w),
         a.ending = "no" /\ a.enabled => Watched(a, e),
         a.ending = "no" => (Manned(a) => a.later \cap Timers = {})
  PROVE  LET b == PowerOffDone(a, closed) IN Fine(b, e, f, w) /\ SameBt(a, b)
  <1> DEFINE s == [a EXCEPT !.shutdown = FALSE, !.later = @ \ {"FORCE_SHUTDOWN"}]
             r == [a EXCEPT !.reboot = FALSE, !.later = @ \ {"FORCE_REBOOT"}]
             x == DoShutdown(s)
             y == DoReboot(r, closed)
             z == PowerOffDone(a, closed)
  <1>1. /\ s \in AppType /\ AllBut(a, s, {"shutdown", "later"})
        /\ s.later = a.later \ {"FORCE_SHUTDOWN"}
    BY DEF AppType, AllBut
  <1>2. /\ r \in AppType /\ AllBut(a, r, {"reboot", "later"})
        /\ r.later = a.later \ {"FORCE_REBOOT"}
    BY DEF AppType, AllBut
  <1>3. z = IF a.shutdown THEN x ELSE IF a.reboot THEN y
            ELSE IF ~a.charging /\ Off(a) THEN StartAuto(a) ELSE a
    BY DEF PowerOffDone
  <1> HIDE DEF s, r, z
  <1>4. /\ x \in AppType /\ AllBut(s, x, {"ending"}) /\ x.ending # "no"
        /\ y \in AppType /\ AllBut(r, y, {"ending", "reason"}) /\ y.ending # "no"
    BY <1>1, <1>2, EndingFacts
  <1> HIDE DEF x, y
  <1>5. ASSUME NEW b \in AppType, b.ending # "no", SameBt(a, b), b.sys = a.sys, b.user = a.user,
               b.pending = a.pending, b.noOff = a.noOff, b.crash = "keep",
               ~(Timers \subseteq b.later),
               "ENABLE_POWER_OFF" \in a.later => "ENABLE_POWER_OFF" \in b.later
        PROVE  Fine(b, e, f, w) /\ SameBt(a, b)
    <2>1. BtSound(b, e \/ Orders(b.cmds))
      BY <1>5 DEF BtSound, Off, SameBt
    <2>2. Watched(b, e \/ Orders(b.cmds)) /\ Kept(b, Flagged(b, f), w)
      BY <1>5 DEF Watched, Kept, Flagged
    <2> QED BY <1>5, <2>1, <2>2 DEF Fine
  <1>6. Fine(x, e, f, w) /\ SameBt(a, x)
    <2>1. /\ SameBt(a, x) /\ x.sys = a.sys /\ x.user = a.user /\ x.pending = a.pending
          /\ x.noOff = a.noOff /\ x.crash = "keep" /\ x.later = a.later \ {"FORCE_SHUTDOWN"}
      BY <1>1, <1>4 DEF AllBut, SameBt
    <2>2. /\ ~(Timers \subseteq x.later)
          /\ "ENABLE_POWER_OFF" \in a.later => "ENABLE_POWER_OFF" \in x.later
      BY <2>1
    <2> QED BY <1>4, <1>5, <2>1, <2>2
  <1>7. Fine(y, e, f, w) /\ SameBt(a, y)
    <2>1. /\ SameBt(a, y) /\ y.sys = a.sys /\ y.user = a.user /\ y.pending = a.pending
          /\ y.noOff = a.noOff /\ y.crash = "keep" /\ y.later = a.later \ {"FORCE_REBOOT"}
      BY <1>2, <1>4 DEF AllBut, SameBt
    <2>2. /\ ~(Timers \subseteq y.later)
          /\ "ENABLE_POWER_OFF" \in a.later => "ENABLE_POWER_OFF" \in y.later
      BY <2>1
    <2> QED BY <1>4, <1>5, <2>1, <2>2
  <1>8. ASSUME Off(a) PROVE Fine(StartAuto(a), e, f, w) /\ SameBt(a, StartAuto(a))
    <2> DEFINE u == StartAuto(a)
    <2>1. ~Manned(a)
      BY <1>8 DEF Manned, Off
    <2>2. /\ u \in AppType /\ ~(Timers \subseteq u.later) /\ AllBut(a, u, {"later"})
          /\ BtSound(u, e) /\ Watched(u, e)
      BY <2>1, StartAutoSound
    <2> HIDE DEF u
    <2>3. /\ u.user = a.user /\ u.reboot = a.reboot /\ u.ending = a.ending /\ u.crash = "keep"
          /\ SameBt(a, u)
      BY <2>2 DEF AllBut, SameBt
    <2>4. Fine(u, e, f, w)
      BY <2>2, <2>3, SameWish
    <2> QED BY <2>3, <2>4 DEF u
  <1>9. ASSUME ~(~a.charging /\ Off(a)) PROVE Fine(a, e, f, w) /\ SameBt(a, a)
    <2>1. a.enabled \/ a.charging
      BY <1>9 DEF Off, BtSound, AppType
    <2>2. Watched(a, e)
      BY <2>1 DEF Watched, Manned
    <2> QED BY <2>2, SameWish DEF SameBt
  <1> QED BY <1>3, <1>6, <1>7, <1>8, <1>9 DEF z

\* The charger, plugged in, taken away, or done.
LEMMA TakeOutFine ==
  ASSUME NEW a, NEW c \in BOOLEAN, NEW f, NEW w, Settled(a, c, f, w)
  PROVE  /\ LET b == [a EXCEPT !.charging = TRUE] IN Fine(b, c, f, w) /\ SameBt(a, b)
         /\ LET m == [a EXCEPT !.charging = FALSE]
                b == IF Off(m) THEN StartAuto(m) ELSE m
            IN Fine(b, c, f, w) /\ SameBt(a, b)
         /\ Off(a) => Fine(StartAuto(a), c, f, w) /\ SameBt(a, StartAuto(a))
  <1>1. /\ a \in AppType /\ BtSound(a, c) /\ Watched(a, c) /\ Kept(a, f, w)
        /\ ~(Timers \subseteq a.later) /\ a.crash = "keep"
    BY SettledFacts
  <1>2. ASSUME NEW v \in BOOLEAN
        PROVE  LET m == [a EXCEPT !.charging = v] IN
               /\ m \in AppType /\ AllBut(a, m, {"charging"}) /\ m.charging = v
               /\ m.enabled = a.enabled /\ m.conn = a.conn /\ m.sys = a.sys /\ m.noAuto = a.noAuto
               /\ m.user = a.user /\ m.pending = a.pending /\ m.noOff = a.noOff /\ m.later = a.later
               /\ m.ending = a.ending /\ m.reboot = a.reboot /\ m.shutdown = a.shutdown
               /\ m.queue = a.queue /\ m.crash = "keep" /\ SameBt(a, m)
    BY <1>1 DEF AppType, AllBut, SameBt
  <1>3. ASSUME NEW m \in AppType, BtSound(m, c), Off(m), SameBt(a, m), m.user = a.user,
               m.reboot = a.reboot, m.ending = a.ending, m.crash = "keep"
        PROVE  Fine(StartAuto(m), c, f, w) /\ SameBt(a, StartAuto(m))
    <2> DEFINE u == StartAuto(m)
    <2>1. ~Manned(m)
      BY <1>3 DEF Manned, Off
    <2>2. /\ u \in AppType /\ ~(Timers \subseteq u.later) /\ AllBut(m, u, {"later"})
          /\ BtSound(u, c) /\ Watched(u, c)
      BY <1>3, <2>1, StartAutoSound
    <2> HIDE DEF u
    <2>3. /\ u.user = a.user /\ u.reboot = a.reboot /\ u.ending = a.ending /\ u.crash = "keep"
          /\ SameBt(a, u)
      BY <1>3, <2>2 DEF AllBut, SameBt
    <2>4. Fine(u, c, f, w)
      BY <1>1, <2>2, <2>3, SameWish
    <2> QED BY <2>3, <2>4 DEF u
  <1>4. Off(a) => Fine(StartAuto(a), c, f, w) /\ SameBt(a, StartAuto(a))
    BY <1>1, <1>3 DEF SameBt
  <1> DEFINE p == [a EXCEPT !.charging = TRUE]
             m == [a EXCEPT !.charging = FALSE]
  <1>5. /\ p \in AppType /\ p.charging = TRUE
        /\ p.enabled = a.enabled /\ p.conn = a.conn /\ p.sys = a.sys /\ p.noAuto = a.noAuto
        /\ p.user = a.user /\ p.pending = a.pending /\ p.noOff = a.noOff /\ p.later = a.later
        /\ p.ending = a.ending /\ p.reboot = a.reboot /\ p.shutdown = a.shutdown
        /\ p.queue = a.queue /\ p.crash = "keep" /\ SameBt(a, p)
    BY <1>2
  <1>6. /\ m \in AppType
        /\ m.enabled = a.enabled /\ m.conn = a.conn /\ m.sys = a.sys /\ m.noAuto = a.noAuto
        /\ m.user = a.user /\ m.pending = a.pending /\ m.noOff = a.noOff /\ m.later = a.later
        /\ m.ending = a.ending /\ m.reboot = a.reboot /\ m.shutdown = a.shutdown
        /\ m.queue = a.queue /\ m.crash = "keep" /\ SameBt(a, m)
    BY <1>2
  <1> HIDE DEF p, m
  <1>7. Fine(p, c, f, w) /\ SameBt(a, p)
    <2>1. BtSound(p, c) /\ Watched(p, c)
      BY <1>1, <1>5 DEF BtSound, Watched, Off
    <2> QED BY <1>1, <1>5, <2>1, SameWish
  <1>8. BtSound(m, c)
    BY <1>1, <1>6 DEF BtSound, Off
  <1>9. ASSUME ~Off(m) PROVE Fine(m, c, f, w)
    <2>1. m.enabled
      BY <1>6, <1>8, <1>9 DEF Off, BtSound, AppType
    <2>2. Watched(m, c)
      BY <1>1, <1>6, <2>1 DEF Watched
    <2> QED BY <1>1, <1>6, <1>8, <2>2, SameWish
  <1>10. Off(m) => Fine(StartAuto(m), c, f, w) /\ SameBt(a, StartAuto(m))
    BY <1>3, <1>6, <1>8
  <1> QED BY <1>4, <1>6, <1>7, <1>9, <1>10 DEF p, m

\* app_pm_set_auto_power_off_enabled, and the peer's messages.
LEMMA AutoFine ==
  ASSUME NEW a, NEW c \in BOOLEAN, NEW f, NEW w, Settled(a, c, f, w)
  PROVE  /\ \A on \in BOOLEAN :
              LET m == [a EXCEPT !.noAuto = ~on]
                  b == IF m.sys # "idle" THEN m ELSE IF on THEN StartAuto(m) ELSE StopAuto(m)
              IN Fine(b, c, f, w) /\ SameBt(a, b)
         /\ \A id \in Timers : ~a.noAuto /\ a.sys = "idle" =>
              LET b == [StopAuto(a) EXCEPT !.later = @ \cup {id}]
              IN Fine(b, c, f, w) /\ SameBt(a, b)
  <1>1. /\ a \in AppType /\ BtSound(a, c) /\ Watched(a, c) /\ Kept(a, f, w)
        /\ ~(Timers \subseteq a.later) /\ a.crash = "keep"
    BY SettledFacts
  <1>2. ASSUME NEW on \in BOOLEAN
        PROVE  LET m == [a EXCEPT !.noAuto = ~on]
                  b == IF m.sys # "idle" THEN m ELSE IF on THEN StartAuto(m) ELSE StopAuto(m)
               IN Fine(b, c, f, w) /\ SameBt(a, b)
    <2> DEFINE m == [a EXCEPT !.noAuto = ~on]
    <2>1. m \in AppType /\ AllBut(a, m, {"noAuto"}) /\ m.noAuto = ~on
      BY <1>1 DEF AppType, AllBut
    <2> HIDE DEF m
    <2>2. /\ m.enabled = a.enabled /\ m.conn = a.conn /\ m.sys = a.sys
          /\ m.user = a.user /\ m.pending = a.pending /\ m.noOff = a.noOff /\ m.later = a.later
          /\ m.ending = a.ending /\ m.reboot = a.reboot /\ m.shutdown = a.shutdown
          /\ m.queue = a.queue /\ m.crash = "keep" /\ m.charging = a.charging /\ SameBt(a, m)
      BY <1>1, <2>1 DEF AllBut, SameBt
    <2>3. BtSound(m, c)
      BY <1>1, <2>2 DEF BtSound, Off
    <2>4. ASSUME NEW x \in AppType, AllBut(m, x, {"later"}), BtSound(x, c), Watched(x, c),
                 ~(Timers \subseteq x.later)
          PROVE  Fine(x, c, f, w) /\ SameBt(a, x)
      <3>1. /\ x.user = a.user /\ x.reboot = a.reboot /\ x.ending = a.ending /\ x.crash = "keep"
            /\ SameBt(a, x)
        BY <2>2, <2>4 DEF AllBut, SameBt
      <3> QED BY <1>1, <2>4, <3>1, SameWish
    <2>5. ASSUME m.sys # "idle" PROVE Fine(m, c, f, w) /\ SameBt(a, m)
      <3>1. m.sys \in {"none", "disabled", "connected"}
        BY <2>1, <2>5 DEF AppType
      <3>2. Watched(m, c)
        BY <1>1, <2>2, <2>3, <2>5, <3>1 DEF Watched, BtSound, Off
      <3>3. AllBut(m, m, {"later"})
        BY DEF AllBut
      <3> QED BY <1>1, <2>1, <2>2, <2>3, <2>4, <3>2, <3>3
    <2>6. ASSUME m.sys = "idle", on PROVE Fine(StartAuto(m), c, f, w) /\ SameBt(a, StartAuto(m))
      <3>1. ~Manned(m)
        BY <2>1, <2>6 DEF Manned
      <3> QED BY <2>1, <2>3, <2>4, <3>1, StartAutoSound
    <2>7. ASSUME m.sys = "idle", ~on PROVE Fine(StopAuto(m), c, f, w) /\ SameBt(a, StopAuto(m))
      <3> DEFINE x == StopAuto(m)
      <3>1. x \in AppType /\ AllBut(m, x, {"later"}) /\ x.later = m.later \ Timers
        BY <2>1, StopAutoFacts
      <3> HIDE DEF x
      <3>2. /\ x.later \cap Timers = {} /\ ~(Timers \subseteq x.later)
            /\ "ENABLE_POWER_OFF" \in m.later => "ENABLE_POWER_OFF" \in x.later
        BY <3>1 DEF Timers
      <3>3. /\ x.enabled = m.enabled /\ x.conn = m.conn /\ x.sys = "idle" /\ x.noAuto = TRUE
            /\ x.user = m.user /\ x.pending = m.pending /\ x.noOff = m.noOff
        BY <2>1, <2>7, <3>1 DEF AllBut
      <3>4. BtSound(x, c) /\ Watched(x, c)
        BY <2>3, <2>7, <3>2, <3>3 DEF BtSound, Watched, Off
      <3>5. Fine(x, c, f, w) /\ SameBt(a, x)
        BY <2>4, <3>1, <3>2, <3>4
      <3> QED BY <3>5 DEF x
    <2> QED BY <2>5, <2>6, <2>7 DEF m
  <1>3. ASSUME NEW id \in Timers, ~a.noAuto, a.sys = "idle"
        PROVE  LET b == [StopAuto(a) EXCEPT !.later = @ \cup {id}]
               IN Fine(b, c, f, w) /\ SameBt(a, b)
    <2> DEFINE b == [StopAuto(a) EXCEPT !.later = @ \cup {id}]
    <2>1. ~Manned(a)
      BY <1>3 DEF Manned
    <2>2. /\ b \in AppType /\ ~(Timers \subseteq b.later) /\ AllBut(a, b, {"later"})
          /\ BtSound(b, c) /\ Watched(b, c)
      BY <1>1, <2>1, ArmSound
    <2> HIDE DEF b
    <2>3. /\ b.user = a.user /\ b.reboot = a.reboot /\ b.ending = a.ending /\ b.crash = "keep"
          /\ SameBt(a, b)
      BY <1>1, <2>2 DEF AllBut, SameBt
    <2>4. Fine(b, c, f, w) /\ SameBt(a, b)
      BY <1>1, <2>2, <2>3, SameWish
    <2> QED BY <2>4 DEF b
  <1> QED BY <1>2, <1>3

RadioState(r) == IF r \in {"idle", "linked"} THEN r ELSE "off"
BtStates == {"off", "idle", "linked"}
Radios == {"boot", "off", "idle", "linked", "hung"}

LEMMA HoldsFacts ==
  ASSUME NEW q \in Seq(Events)
  PROVE  /\ \A e, d \in Events : Holds(q, e) => Holds(Append(q, d), e)
         /\ q # <<>> => /\ Head(q) \in Events /\ Tail(q) \in Seq(Events)
                        /\ \A e \in Events : Holds(q, e) /\ Head(q) # e => Holds(Tail(q), e)
  <1>1. ASSUME NEW e \in Events, NEW d \in Events, Holds(q, e) PROVE Holds(Append(q, d), e)
    BY <1>1 DEF Holds
  <1>2. ASSUME q # <<>>, NEW e \in Events, Holds(q, e), Head(q) # e PROVE Holds(Tail(q), e)
    <2>1. PICK i \in 1 .. Len(q) : q[i] = e
      BY <1>2 DEF Holds
    <2>2. i # 1 /\ i - 1 \in 1 .. Len(Tail(q)) /\ Tail(q)[i - 1] = e
      BY <1>2, <2>1
    <2> QED BY <2>2 DEF Holds
  <1> QED BY <1>1, <1>2

\* Taking the first report brings app_bt.c one step nearer to the core.
LEMMA TailTracks ==
  ASSUME NEW q \in Seq(Events), q # <<>>, NEW s, NEW r, Tracks(q, s, r)
  PROVE  \E t \in BtStates : Follows(Head(q), s, t) /\ Tracks(Tail(q), t, r)
  <1>1. PICK h \in [0 .. Len(q) -> {"off", "idle", "linked"}] :
          /\ h[0] = s
          /\ r \in {"idle", "linked"} => h[Len(q)] = r
          /\ r \in {"off", "boot"} => h[Len(q)] = "off"
          /\ \A i \in 1 .. Len(q) : Follows(q[i], h[i - 1], h[i])
          /\ r \in {"off", "boot"} =>
               \A i \in 0 .. Len(q) : h[i] # "off" => \E j \in i + 1 .. Len(q) : q[j] = "off"
    BY DEF Tracks
  <1> DEFINE n == Len(q) - 1
             g == [i \in 0 .. n |-> h[i + 1]]
             p == Tail(q)
  <1>2. /\ n \in Nat /\ n + 1 = Len(q) /\ Len(p) = n /\ Head(q) = q[1]
        /\ \A i \in 1 .. n : p[i] = q[i + 1]
    OBVIOUS
  <1> HIDE DEF n, p
  <1>3. g \in [0 .. n -> {"off", "idle", "linked"}] /\ \A i \in 0 .. n : g[i] = h[i + 1]
    BY <1>2
  <1> HIDE DEF g
  <1>4. Follows(Head(q), s, g[0]) /\ g[0] \in BtStates
    <2>1. 0 \in 0 .. n /\ 1 \in 1 .. Len(q) /\ 0 + 1 = 1 /\ 1 - 1 = 0
      BY <1>2
    <2> QED BY <1>1, <1>2, <1>3, <2>1 DEF BtStates
  <1>5. n \in 0 .. n /\ g[n] = h[Len(q)]
    BY <1>2, <1>3
  <1>6. ASSUME NEW i \in 1 .. n PROVE Follows(p[i], g[i - 1], g[i])
    <2>1. i + 1 \in 1 .. Len(q) /\ (i + 1) - 1 = i /\ i - 1 \in 0 .. n /\ (i - 1) + 1 = i /\ i \in 0 .. n
      BY <1>2
    <2>2. Follows(q[i + 1], h[(i + 1) - 1], h[i + 1])
      BY <1>1, <2>1
    <2> QED BY <1>2, <1>3, <2>1, <2>2
  <1>7. ASSUME r \in {"off", "boot"}, NEW i \in 0 .. n, g[i] # "off"
        PROVE  \E j \in i + 1 .. n : p[j] = "off"
    <2>1. i + 1 \in 0 .. Len(q) /\ h[i + 1] # "off"
      BY <1>2, <1>3, <1>7
    <2>2. PICK j \in (i + 1) + 1 .. Len(q) : q[j] = "off"
      BY <1>1, <1>7, <2>1
    <2>3. j - 1 \in i + 1 .. n /\ j - 1 \in 1 .. n /\ (j - 1) + 1 = j
      BY <1>2, <2>2
    <2> QED BY <1>2, <2>2, <2>3
  <1>8. Tracks(p, g[0], r)
    BY ZenonT(60), <1>1, <1>2, <1>3, <1>5, <1>6, <1>7 DEF Tracks
  <1> QED BY <1>4, <1>8 DEF p

\* The core's next report, and app_bt.c's own message, keep the track.
LEMMA AppendTracks ==
  ASSUME NEW q \in Seq(Events), NEW e \in Events, NEW s, NEW r \in Radios, NEW r2 \in Radios,
         Tracks(q, s, r),
         \/ e = "done" /\ r2 = r
         \/ /\ r # "hung" /\ r2 \in {"off", "idle", "linked"}
            /\ Follows(e, RadioState(r), RadioState(r2)) /\ (r2 = "off" => e = "off")
  PROVE  Append(q, e) \in Seq(Events) /\ Tracks(Append(q, e), s, r2)
  <1>1. PICK h \in [0 .. Len(q) -> {"off", "idle", "linked"}] :
          /\ h[0] = s
          /\ r \in {"idle", "linked"} => h[Len(q)] = r
          /\ r \in {"off", "boot"} => h[Len(q)] = "off"
          /\ \A i \in 1 .. Len(q) : Follows(q[i], h[i - 1], h[i])
          /\ r \in {"off", "boot"} =>
               \A i \in 0 .. Len(q) : h[i] # "off" => \E j \in i + 1 .. Len(q) : q[j] = "off"
    BY DEF Tracks
  <1> DEFINE p == Append(q, e)
             m == Len(q)
             x == IF e = "done" THEN h[m] ELSE RadioState(r2)
             g == [i \in 0 .. m + 1 |-> IF i = m + 1 THEN x ELSE h[i]]
  <1>2. /\ p \in Seq(Events) /\ m \in Nat /\ Len(p) = m + 1 /\ p[m + 1] = e
        /\ \A i \in 1 .. m : p[i] = q[i]
    OBVIOUS
  <1>3. x \in {"off", "idle", "linked"}
    BY <1>1, <1>2 DEF RadioState, Radios
  <1> HIDE DEF p, x
  <1>4. m \in 0 .. m /\ 0 \in 0 .. m
    BY <1>2
  <1>5. /\ g \in [0 .. m + 1 -> {"off", "idle", "linked"}] /\ g[m + 1] = x
        /\ \A i \in 0 .. m : g[i] = h[i]
    BY <1>2, <1>3
  <1> HIDE DEF g
  <1>6. Follows(e, h[m], x)
    <2>1. CASE e = "done"
      BY <2>1 DEF x, Follows
    <2>2. CASE e # "done"
      <3>1. h[m] = RadioState(r)
        BY <1>1, <2>2 DEF RadioState, Radios
      <3> QED BY <2>2, <3>1 DEF x
    <2> QED BY <2>1, <2>2
  <1>7. ASSUME NEW i \in 1 .. m + 1 PROVE Follows(p[i], g[i - 1], g[i])
    <2>1. CASE i = m + 1
      <3>1. i - 1 = m
        BY <1>2, <2>1
      <3> QED BY <1>2, <1>4, <1>5, <1>6, <2>1, <3>1
    <2>2. CASE i # m + 1
      <3>1. i \in 1 .. m /\ i - 1 \in 0 .. m /\ i \in 0 .. m
        BY <1>2, <2>2
      <3>2. Follows(q[i], h[i - 1], h[i])
        BY <1>1, <3>1
      <3> QED BY <1>2, <1>5, <3>1, <3>2
    <2> QED BY <2>1, <2>2
  <1>8. /\ r2 \in {"idle", "linked"} => x = r2
        /\ r2 \in {"off", "boot"} => x = "off"
    BY <1>1 DEF x, RadioState, Radios, Follows
  <1>9. ASSUME r2 \in {"off", "boot"}, NEW i \in 0 .. m + 1, g[i] # "off"
        PROVE  \E j \in i + 1 .. m + 1 : p[j] = "off"
    <2>1. i # m + 1 /\ i \in 0 .. m
      BY <1>2, <1>5, <1>8, <1>9
    <2>2. CASE e = "done"
      <3>1. PICK j \in i + 1 .. m : q[j] = "off"
        BY <1>1, <1>5, <1>9, <2>1, <2>2 DEF Follows
      <3>2. j \in 1 .. m /\ j \in i + 1 .. m + 1
        BY <1>2, <2>1, <3>1
      <3> QED BY <1>2, <3>1, <3>2
    <2>3. CASE e # "done"
      <3>1. e = "off" /\ m + 1 \in i + 1 .. m + 1
        BY <1>2, <1>9, <2>1, <2>3
      <3> QED BY <1>2, <3>1
    <2> QED BY <2>2, <2>3
  <1>10. 0 \in 0 .. m + 1 /\ g[0] = s
    BY <1>1, <1>2, <1>4, <1>5
  <1>11. Tracks(p, s, r2)
    <2>1. /\ g \in [0 .. Len(p) -> {"off", "idle", "linked"}] /\ g[0] = s /\ g[Len(p)] = x
      BY <1>2, <1>5, <1>10
    <2>2. \A i \in 1 .. Len(p) : Follows(p[i], g[i - 1], g[i])
      BY <1>2, <1>7
    <2>3. r2 \in {"off", "boot"} =>
            \A i \in 0 .. Len(p) : g[i] # "off" => \E j \in i + 1 .. Len(p) : p[j] = "off"
      BY <1>2, <1>9
    <2> QED BY <1>8, <2>1, <2>2, <2>3 DEF Tracks
  <1> QED BY <1>2, <1>11 DEF p

LEMMA TracksFacts ==
  ASSUME NEW q \in Seq(Events), NEW s, NEW r \in Radios, Tracks(q, s, r)
  PROVE  /\ Tracks(q, s, "hung")
         /\ s # "off" /\ r \in {"off", "boot"} => Holds(q, "off")
  <1>1. Tracks(q, s, "hung")
    BY DEF Tracks
  <1>2. ASSUME s # "off", r \in {"off", "boot"} PROVE Holds(q, "off")
    <2>1. Len(q) \in Nat /\ 0 \in 0 .. Len(q) /\ 0 + 1 = 1
      OBVIOUS
    <2> QED BY <1>2, <2>1 DEF Tracks, Holds
  <1> QED BY <1>1, <1>2

LEMMA NoneTracked == \A s \in BtStates, r \in Radios : RadioState(r) = s => Tracks(<<>>, s, r)
  <1> SUFFICES ASSUME NEW s \in BtStates, NEW r \in Radios, RadioState(r) = s
               PROVE  Tracks(<<>>, s, r)
    OBVIOUS
  <1> DEFINE h == [i \in 0 .. 0 |-> s]
  <1>1. Len(<<>>) = 0 /\ 0 .. 0 = {0}
    OBVIOUS
  <1>2. h \in [0 .. 0 -> {"off", "idle", "linked"}] /\ h[0] = s
    BY DEF BtStates
  <1> HIDE DEF h
  <1> QED BY <1>1, <1>2 DEF Tracks, RadioState, Radios, BtStates

\* Run, of any handler whose result is Fine.
LEMMA RunIInv ==
  ASSUME IInv, dev = "up", NEW b, NEW e \in BOOLEAN, Fine(b, e, flag, why), Run(b),
         inputs' \in 0 .. MaxInputs,
         e => radio = "hung" \/ Orders(cmds) \/ Holds(b.queue, "off"),
         Tracks(b.queue, BtState(b), radio)
  PROVE  IInv'
  <1> DEFINE a == [b EXCEPT !.cmds = <<>>, !.reset = "no", !.crash = "keep"]
  <1>1. b \in AppType /\ ~(Timers \subseteq b.later)
    BY DEF Fine
  <1>2. /\ a \in AppType /\ AllBut(b, a, {"cmds", "reset", "crash"})
        /\ a.cmds = <<>> /\ a.reset = "no" /\ a.crash = "keep"
    <2>1. <<>> \in Seq(BOOLEAN)
      BY OrderFacts
    <2> QED BY <1>1, <2>1 DEF AppType, AllBut
  <1>3. app' = a /\ radio' = radio
    BY DEF Run
  <1> HIDE DEF a
  <1>4. /\ a.enabled = b.enabled /\ a.conn = b.conn /\ a.sys = b.sys /\ a.noAuto = b.noAuto
        /\ a.user = b.user /\ a.pending = b.pending /\ a.noOff = b.noOff /\ a.ending = b.ending
        /\ a.reboot = b.reboot /\ a.shutdown = b.shutdown /\ a.charging = b.charging
        /\ a.later = b.later /\ a.queue = b.queue
    BY <1>2 DEF AllBut
  <1>5. b.cmds \in Seq(BOOLEAN) /\ cmds \in Seq(BOOLEAN)
    BY <1>1 DEF AppType, IInv, TypeOK
  <1>6. /\ cmds' = cmds \o b.cmds /\ cmds' \in Seq(BOOLEAN)
        /\ Orders(cmds) \/ Orders(b.cmds) => Orders(cmds')
    <2>1. cmds' = cmds \o b.cmds
      BY DEF Run
    <2>2. cmds \o b.cmds \in Seq(BOOLEAN) /\ (Orders(cmds) \/ Orders(b.cmds) => Orders(cmds \o b.cmds))
      BY <1>5, OrderFacts
    <2> QED BY <2>1, <2>2
  <1>7. CASE b.reset # "no"
    <2>1. b.reset \in Reasons \cup {"SHUTDOWN_FAILED"} /\ dev' = "reset" /\ why' = "soft" /\ flag' = b.reset
      BY <1>1, <1>7 DEF Run, AppType
    <2> QED BY <1>1, <1>2, <1>3, <1>4, <1>6, <2>1 DEF IInv, TypeOK, Flags
  <1>8. CASE b.reset = "no"
    <2>1. dev' = "up" /\ why' = why /\ flag' = Flagged(b, flag)
      BY <1>8 DEF Run, Flagged
    <2>2. flag' \in Flags
      BY <1>1, <2>1 DEF Flagged, AppType, Flags, IInv, TypeOK
    <2> DEFINE o == radio = "hung" \/ Orders(cmds') \/ Holds(a.queue, "off")
    <2>3. OffComes' = o
      BY <1>3 DEF OffComes, Orders, Holds
    <2>4. e \/ Orders(b.cmds) => o
      BY <1>4, <1>6
    <2> HIDE DEF o
    <2>5. BtSound(b, e \/ Orders(b.cmds)) /\ Watched(b, e \/ Orders(b.cmds)) /\ Kept(b, Flagged(b, flag), why)
      BY <1>8 DEF Fine
    <2>6. BtSound(a, o)
      BY <1>4, <2>4, <2>5 DEF BtSound, Off
    <2>7. Watched(a, o)
      BY <1>4, <2>4, <2>5 DEF Watched
    <2>8. Kept(a, flag', why')
      BY <1>4, <2>1, <2>5 DEF Kept
    <2>9. Tracks(a.queue, BtState(a), radio')
      BY <1>3, <1>4 DEF BtState
    <2>10. TypeOK'
      BY <1>1, <1>2, <1>3, <1>4, <1>6, <2>1, <2>2 DEF IInv, TypeOK
    <2>11. /\ BtSound(app', OffComes') /\ Watched(app', OffComes') /\ Kept(app', flag', why')
           /\ Tracks(app'.queue, BtState(app'), radio')
      BY <1>3, <2>3, <2>6, <2>7, <2>8, <2>9
    <2> QED BY <2>1, <2>10, <2>11 DEF IInv
  <1> QED BY <1>1, <1>7, <1>8 DEF AppType

\* What the invariant says of an earbud that runs.
LEMMA UpFacts ==
  ASSUME IInv, dev = "up"
  PROVE  /\ Settled(app, OffComes, flag, why) /\ OffComes \in BOOLEAN
         /\ app \in AppType /\ ~(Timers \subseteq app.later)
         /\ app.cmds = <<>> /\ app.reset = "no" /\ app.crash = "keep"
         /\ BtSound(app, OffComes) /\ Watched(app, OffComes) /\ Kept(app, flag, why)
         /\ Tracks(app.queue, BtState(app), radio) /\ radio \in Radios
         /\ app.queue \in Seq(Events) /\ inputs \in 0 .. MaxInputs
         /\ flag \in Flags /\ cmds \in Seq(BOOLEAN)
  <1>1. /\ app \in AppType /\ ~(Timers \subseteq app.later)
        /\ app.cmds = <<>> /\ app.reset = "no" /\ app.crash = "keep"
        /\ radio \in Radios /\ inputs \in 0 .. MaxInputs /\ flag \in Flags /\ cmds \in Seq(BOOLEAN)
    BY DEF IInv, TypeOK, Radios
  <1>2. /\ BtSound(app, OffComes) /\ Watched(app, OffComes) /\ Kept(app, flag, why)
        /\ Tracks(app.queue, BtState(app), radio)
    BY DEF IInv
  <1>3. OffComes \in BOOLEAN
    BY DEF OffComes, Orders, Holds
  <1>4. Fine(app, OffComes, flag, why)
    BY <1>1, <1>2, SameWish
  <1> QED BY <1>1, <1>2, <1>3, <1>4 DEF Settled, AppType

\* Run, of a handler that leaves the reports alone.
LEMMA RunSame ==
  ASSUME IInv, dev = "up", NEW b, Fine(b, OffComes, flag, why), SameBt(app, b), Run(b),
         inputs' \in 0 .. MaxInputs
  PROVE  IInv'
  <1>1. OffComes => radio = "hung" \/ Orders(cmds) \/ Holds(b.queue, "off")
    BY DEF OffComes, SameBt
  <1>2. BtState(b) = BtState(app) /\ b.queue = app.queue
    BY DEF BtState, SameBt
  <1> QED BY <1>1, <1>2, UpFacts, RunIInv

\* The steps, one lemma for each kind.
LEMMA RequestIInv == ASSUME IInv, Request \/ BoxOpen PROVE IInv'
  <1>1. dev = "up" /\ inputs' \in 0 .. MaxInputs
    <2>1. dev = "up" /\ inputs < MaxInputs /\ inputs' = inputs + 1
      BY DEF Request, BoxOpen, Input
    <2>2. inputs \in 0 .. MaxInputs
      BY DEF IInv, TypeOK
    <2> QED BY <2>1, <2>2, PowerAssumption
  <1>2. ASSUME NEW b, Fine(b, OffComes, flag, why), SameBt(app, b), Run(b) PROVE IInv'
    BY <1>1, <1>2, RunSame
  <1>3. /\ Settled(app, OffComes, flag, why) /\ OffComes \in BOOLEAN /\ app \in AppType
        /\ ~(Timers \subseteq app.later) /\ BtSound(app, OffComes) /\ Watched(app, OffComes)
        /\ app.user \in BOOLEAN
    BY <1>1, UpFacts DEF AppType
  <1>4. ASSUME NEW guard \in BOOLEAN, Run(PmPowerOn(app, guard)) PROVE IInv'
    BY <1>2, <1>3, <1>4, PmPowerOnFine
  <1>5. ASSUME NEW full \in BOOLEAN, Run(PmPowerOff(app, full)) PROVE IInv'
    BY <1>2, <1>3, <1>5, PmPowerOffFine
  <1>6. ASSUME NEW reason \in Reasons, NEW closed \in BOOLEAN, Run(PmReboot(app, reason, closed))
        PROVE  IInv'
    BY <1>2, <1>3, <1>6, PmRebootFine
  <1>7. CASE UserPowerOn
    BY <1>4, <1>7 DEF UserPowerOn
  <1>8. CASE UserPowerOff
    BY <1>5, <1>8 DEF UserPowerOff
  <1>9. CASE CriticalLow
    <2>1. FALSE \in BOOLEAN /\ Run(PmPowerOff(app, FALSE))
      BY <1>9 DEF CriticalLow
    <2> QED BY <1>5, <2>1
  <1>10. CASE HwError
    <2> DEFINE reason == IF app.user THEN "USER" ELSE "CHARGER"
    <2>1. reason \in Reasons /\ \E closed \in BOOLEAN : Run(PmReboot(app, reason, closed))
      BY <1>10 DEF HwError, Reboot, Reasons
    <2> HIDE DEF reason
    <2> QED BY <1>6, <2>1
  <1>11. CASE \E reason \in Reasons : Reboot(reason)
    BY <1>6, <1>11 DEF Reboot
  <1>12. CASE Run(DisableBt(app))
    BY <1>2, <1>3, <1>12, DisableBtFine
  <1>13. CASE PutIn
    BY <1>2, <1>3, <1>13, TakeOutFine DEF PutIn
  <1>14. CASE TakeOut
    <2> DEFINE m == [app EXCEPT !.charging = FALSE]
               b == IF Off(m) THEN StartAuto(m) ELSE m
    <2>1. Run(b)
      BY <1>14 DEF TakeOut
    <2>2. Fine(b, OffComes, flag, why) /\ SameBt(app, b)
      BY <1>3, TakeOutFine
    <2> HIDE DEF b
    <2> QED BY <1>2, <2>1, <2>2
  <1>15. CASE BatteryFull
    BY <1>2, <1>3, <1>15, TakeOutFine DEF BatteryFull
  <1>16. CASE \E on \in BOOLEAN : SetAuto(on)
    <2>1. PICK on \in BOOLEAN : SetAuto(on)
      BY <1>16
    <2> DEFINE m == [app EXCEPT !.noAuto = ~on]
               b == IF m.sys # "idle" THEN m ELSE IF on THEN StartAuto(m) ELSE StopAuto(m)
    <2>2. Run(b)
      BY <2>1 DEF SetAuto
    <2>3. Fine(b, OffComes, flag, why) /\ SameBt(app, b)
      BY <1>3, AutoFine
    <2> HIDE DEF b
    <2> QED BY <1>2, <2>2, <2>3
  <1>17. CASE \E id \in Timers : Remote(id)
    <2>1. PICK id \in Timers : Remote(id)
      BY <1>17
    <2> DEFINE b == [StopAuto(app) EXCEPT !.later = @ \cup {id}]
    <2>2. Run(b) /\ ~app.noAuto /\ app.sys = "idle"
      BY <2>1 DEF Remote
    <2>3. Fine(b, OffComes, flag, why) /\ SameBt(app, b)
      BY <1>3, <2>2, AutoFine
    <2> HIDE DEF b
    <2> QED BY <1>2, <2>2, <2>3
  <1>18. CASE BoxOpen
    <2>1. "USER" \in Reasons /\ FALSE \in BOOLEAN /\ Run(PmReboot(app, "USER", FALSE))
      BY <1>18 DEF BoxOpen, Reasons
    <2> QED BY <1>6, <2>1
  <1> QED BY <1>7, <1>8, <1>9, <1>10, <1>11, <1>12, <1>13, <1>14, <1>15, <1>16, <1>17, <1>18
          DEF Request

LEMMA ExpireIInv == ASSUME IInv, NEW id \in Later, Expire(id) PROVE IInv'
  <1>1. dev = "up" /\ id \in app.later /\ inputs' = inputs
    BY DEF Expire
  <1>2. PICK ota \in BOOLEAN, full \in BOOLEAN, closed \in BOOLEAN :
          Run(PmHandleMsg([app EXCEPT !.later = @ \ {id}], id, ota, full, closed))
    BY DEF Expire
  <1> DEFINE b == PmHandleMsg([app EXCEPT !.later = @ \ {id}], id, ota, full, closed)
  <1>3. Fine(b, OffComes, flag, why) /\ SameBt(app, b)
    BY ZenonT(60), <1>1, UpFacts, PmHandleMsgFine
  <1>4. Run(b)
    BY <1>2
  <1> HIDE DEF b
  <1> QED BY <1>1, <1>3, <1>4, UpFacts, RunSame

LEMMA HandleEventIInv == ASSUME IInv, HandleEvent PROVE IInv'
  <1>1. dev = "up" /\ app.queue # <<>> /\ inputs' = inputs
    BY DEF HandleEvent
  <1> DEFINE a == [app EXCEPT !.queue = Tail(@)]
             x == Head(app.queue)
             e == radio = "hung" \/ Orders(cmds) \/ Holds(Tail(app.queue), "off")
  <1>2. PICK closed \in BOOLEAN : Run(Handle(a, x, closed))
    BY DEF HandleEvent
  <1>3. /\ app \in AppType /\ ~(Timers \subseteq app.later) /\ app.crash = "keep"
        /\ BtSound(app, OffComes) /\ Watched(app, OffComes) /\ Kept(app, flag, why)
        /\ Tracks(app.queue, BtState(app), radio) /\ radio \in Radios
        /\ app.queue \in Seq(Events) /\ inputs \in 0 .. MaxInputs
    BY <1>1, UpFacts
  <1>4. /\ x \in Events /\ Tail(app.queue) \in Seq(Events)
        /\ \A y \in Events : Holds(app.queue, y) /\ x # y => Holds(Tail(app.queue), y)
    BY <1>1, <1>3, HoldsFacts
  <1>5. PICK t \in BtStates : Follows(x, BtState(app), t) /\ Tracks(Tail(app.queue), t, radio)
    BY <1>1, <1>3, TailTracks
  <1>6. e \in BOOLEAN /\ (x # "off" /\ OffComes => e)
    <2>1. "off" \in Events
      BY DEF Events
    <2> QED BY <1>4, <2>1 DEF OffComes, Orders, Holds
  <1>7. a \in AppType /\ AllBut(app, a, {"queue"}) /\ a.queue = Tail(app.queue)
    BY <1>3, <1>4 DEF AppType, AllBut
  <1> HIDE DEF a, x, e
  <1>8. /\ a.enabled = app.enabled /\ a.conn = app.conn /\ a.sys = app.sys /\ a.noAuto = app.noAuto
        /\ a.user = app.user /\ a.pending = app.pending /\ a.noOff = app.noOff
        /\ a.ending = app.ending /\ a.reboot = app.reboot /\ a.shutdown = app.shutdown
        /\ a.charging = app.charging /\ a.later = app.later /\ a.crash = "keep"
        /\ a.enabled \in BOOLEAN /\ a.conn \in BOOLEAN
    BY <1>3, <1>7 DEF AllBut, AppType
  <1>9. BtState(app) = BtState(a) /\ ~(Timers \subseteq a.later) /\ Kept(a, flag, why)
    BY <1>3, <1>8 DEF BtState, Kept
  <1>10. /\ BtSound(a, TRUE)
         /\ x # "off" => BtSound(a, e)
    BY <1>3, <1>6, <1>8 DEF BtSound, Off
  <1>11. /\ x # "done" /\ ~a.enabled => Watched(a, TRUE)
         /\ x \notin {"off", "done"} => Watched(a, e)
         /\ x # "off" /\ a.enabled => Watched(a, e)
         /\ a.ending = "no" => (Manned(a) => a.later \cap Timers = {})
    <2>1. "done" \in Events /\ "off" \in Events
      BY DEF Events
    <2>2. x # "done" /\ Holds(app.queue, "done") => Holds(a.queue, "done")
      BY <1>4, <1>7, <2>1
    <2> QED BY <1>3, <1>6, <1>8, <2>2 DEF Watched, Manned
  <1>12. ASSUME NEW b, Fine(b, e, flag, why), b.queue = a.queue, BtState(b) = t, Run(b)
         PROVE  IInv'
    <2>1. e => radio = "hung" \/ Orders(cmds) \/ Holds(b.queue, "off")
      BY <1>7, <1>12 DEF e
    <2>2. Tracks(b.queue, BtState(b), radio)
      BY <1>5, <1>7, <1>12
    <2> QED BY <1>1, <1>3, <1>6, <1>12, <2>1, <2>2, RunIInv
  <1>13. CASE x = "on"
    <2> DEFINE b == EnableStateChanged(a, TRUE)
    <2>1. Run(b)
      BY <1>2, <1>13 DEF Handle
    <2>2. ~a.enabled /\ t = "idle"
      BY <1>5, <1>9, <1>13 DEF Follows, BtState
    <2>3. Fine(b, e, flag, why) /\ b.enabled /\ ~b.conn /\ b.queue = a.queue
      BY <1>7, <1>8, <1>9, <1>10, <1>13, <2>2, OnFine
    <2> HIDE DEF b
    <2> QED BY <1>12, <2>1, <2>2, <2>3 DEF BtState
  <1>14. CASE x = "off"
    <2> DEFINE b == EnableStateChanged(a, FALSE)
    <2>1. Run(b)
      BY <1>2, <1>14 DEF Handle
    <2>2. t = "off" /\ ~a.conn
      <3>1. BtState(a) # "linked" /\ t = "off"
        BY <1>5, <1>9, <1>14 DEF Follows
      <3> QED BY <1>10, <3>1 DEF BtState, BtSound
    <2>3. a.enabled \/ Watched(a, TRUE)
      BY <1>11, <1>14
    <2>4. /\ Fine(b, e, flag, why) /\ ~b.enabled /\ ~b.conn
          /\ b.queue = IF a.enabled THEN Append(a.queue, "done") ELSE a.queue
      BY <1>7, <1>8, <1>9, <1>10, <2>2, <2>3, OffFine
    <2> HIDE DEF b
    <2>5. CASE ~a.enabled
      BY <1>12, <2>1, <2>2, <2>4, <2>5 DEF BtState
    <2>6. CASE a.enabled
      <3>1. "done" \in Events /\ "off" \in Events /\ b.queue = Append(a.queue, "done")
        BY <2>4, <2>6 DEF Events
      <3>2. Tracks(b.queue, t, radio)
        <4>1. a.queue \in Seq(Events) /\ Tracks(a.queue, t, radio) /\ radio \in Radios
          BY <1>3, <1>4, <1>5, <1>7
        <4>2. Tracks(Append(a.queue, "done"), t, radio)
          BY <3>1, <4>1, AppendTracks
        <4> QED BY <3>1, <4>2
      <3>3. BtState(b) = t
        BY <2>2, <2>4 DEF BtState
      <3>4. e => radio = "hung" \/ Orders(cmds) \/ Holds(b.queue, "off")
        <4>1. Holds(a.queue, "off") => Holds(b.queue, "off")
          BY <1>4, <1>7, <3>1, HoldsFacts
        <4> QED BY <1>7, <4>1 DEF e
      <3> QED BY <1>1, <1>3, <1>6, <2>1, <2>4, <3>2, <3>3, <3>4, RunIInv
    <2> QED BY <1>8, <2>5, <2>6
  <1>15. ASSUME NEW on \in BOOLEAN, x = IF on THEN "connected" ELSE "disconnected" PROVE IInv'
    <2> DEFINE b == ConnStateChanged(a, on)
    <2>1. Run(b) /\ x \notin {"off", "done"}
      BY <1>2, <1>15 DEF Handle
    <2>2. a.enabled /\ a.conn = ~on /\ t = IF on THEN "linked" ELSE "idle"
      BY <1>5, <1>8, <1>9, <1>15 DEF Follows, BtState
    <2>3. Fine(b, e, flag, why) /\ b.enabled /\ (b.conn <=> on) /\ b.queue = a.queue
      BY <1>7, <1>8, <1>9, <1>10, <1>11, <2>1, <2>2, ConnFine
    <2> HIDE DEF b
    <2> QED BY <1>12, <2>1, <2>2, <2>3 DEF BtState
  <1>16. CASE x = "done"
    <2> DEFINE b == PowerOffDone(a, closed)
    <2>1. Run(b)
      BY <1>2, <1>16 DEF Handle
    <2>2. t = BtState(a)
      BY <1>5, <1>9, <1>16 DEF Follows
    <2>3. Fine(b, e, flag, why) /\ SameBt(a, b)
      BY <1>7, <1>8, <1>9, <1>10, <1>11, <1>16, DoneFine
    <2> HIDE DEF b
    <2> QED BY <1>12, <2>1, <2>2, <2>3 DEF BtState, SameBt
  <1>17. CASE x = "connected"
    BY <1>15, <1>17
  <1>18. CASE x = "disconnected"
    BY <1>15, <1>18
  <1> QED BY <1>4, <1>13, <1>14, <1>16, <1>17, <1>18 DEF Events

LEMMA BootIInv == ASSUME IInv, Boot PROVE IInv'
  <1>1. dev = "reset" /\ radio' = "boot" /\ why' = why /\ inputs' = inputs
    BY DEF Boot
  <1>2. /\ Booted \in AppType /\ Booted.later = {} /\ Booted.cmds = <<>> /\ Booted.reset = "no"
        /\ Booted.crash = "keep" /\ Booted.queue = <<>> /\ ~Booted.enabled /\ ~Booted.conn
        /\ Booted.sys = "none" /\ ~Booted.user /\ ~Booted.pending /\ ~Booted.noOff
        /\ Booted.ending = "no" /\ ~Booted.reboot
    <2>1. <<>> \in Seq(Events) /\ {} \in SUBSET Later
      OBVIOUS
    <2>2. <<>> \in Seq(BOOLEAN)
      BY OrderFacts
    <2> QED BY <2>1, <2>2 DEF Booted, AppType, Reasons
  <1> HIDE DEF Booted
  <1>3. /\ why \in {"soft", "crash", "pin", "power"} /\ flag \in Flags /\ inputs \in 0 .. MaxInputs
        /\ why = "power" => flag = "USER"
        /\ why = "soft" => flag \in Reasons \cup {"SHUTDOWN_FAILED"}
    BY <1>1 DEF IInv, TypeOK
  <1>4. /\ \A e : BtSound(Booted, e) /\ Off(Booted) /\ ~Manned(Booted)
        /\ ~(Timers \subseteq Booted.later)
    BY <1>2 DEF BtSound, Off, Manned, Timers
  <1>5. CASE why = "soft" /\ flag = "SHUTDOWN_FAILED"
    <2>1. dev' = "off" /\ app' = Booted /\ cmds' = <<>> /\ flag' = flag
      BY <1>5 DEF Boot
    <2>2. <<>> \in Seq(BOOLEAN)
      BY OrderFacts
    <2> QED BY <1>1, <1>2, <1>3, <1>4, <2>1, <2>2 DEF IInv, TypeOK
  <1>6. CASE ~(why = "soft" /\ flag = "SHUTDOWN_FAILED")
    <2>1. PICK charged \in BOOLEAN, guard \in BOOLEAN :
            LET on == \/ why = "crash" /\ flag = "POWER_ON"
                      \/ why = "power" /\ ~charged
                      \/ why = "soft" /\ flag \in {"USER", "FACTORY_RESET", "OTA"}
                b == IF on THEN PmPowerOn(Booted, guard /\ why # "power") ELSE StartAuto(Booted)
            IN /\ dev' = "up"
               /\ app' = [b EXCEPT !.cmds = <<>>, !.crash = "keep"]
               /\ cmds' = b.cmds
               /\ flag' = IF on THEN "POWER_ON" ELSE flag
      BY <1>6 DEF Boot
    <2> DEFINE on == \/ why = "crash" /\ flag = "POWER_ON"
                     \/ why = "power" /\ ~charged
                     \/ why = "soft" /\ flag \in {"USER", "FACTORY_RESET", "OTA"}
               g == guard /\ why # "power"
               b == IF on THEN PmPowerOn(Booted, g) ELSE StartAuto(Booted)
               a == [b EXCEPT !.cmds = <<>>, !.crash = "keep"]
    <2>2. dev' = "up" /\ app' = a /\ cmds' = b.cmds /\ flag' = IF on THEN "POWER_ON" ELSE flag
      BY <2>1
    <2>3. g \in BOOLEAN
      OBVIOUS
    <2>4. ~on /\ why # "pin" => flag # "POWER_ON"
      BY <1>3 DEF Reasons
    <2>5. on \/ ~on
      OBVIOUS
    <2> HIDE DEF g
    <2>6. /\ b \in AppType /\ b.reset = "no" /\ SameBt(Booted, b) /\ ~(Timers \subseteq b.later)
          /\ BtSound(b, Orders(b.cmds)) /\ Watched(b, Orders(b.cmds))
          /\ Kept(b, flag', why)
      <3>1. CASE on
        <4> DEFINE p == PmPowerOn(Booted, g)
        <4>1. /\ Fine(p, FALSE, flag, why) /\ SameBt(Booted, p)
              /\ p.reset = "no" /\ p.crash = "POWER_ON"
          BY <1>2, <1>4, <2>3, PmPowerOnFine
        <4>2. b = p /\ flag' = "POWER_ON"
          BY <2>2, <3>1
        <4> HIDE DEF p, b, on
        <4>3. /\ p \in AppType /\ ~(Timers \subseteq p.later)
              /\ BtSound(p, FALSE \/ Orders(p.cmds)) /\ Watched(p, FALSE \/ Orders(p.cmds))
              /\ Kept(p, "POWER_ON", why)
          BY <4>1 DEF Fine, Flagged
        <4>4. BtSound(p, Orders(p.cmds)) /\ Watched(p, Orders(p.cmds))
          BY <4>3 DEF BtSound, Watched
        <4> QED BY <4>1, <4>2, <4>3, <4>4
      <3>2. CASE ~on
        <4> DEFINE p == StartAuto(Booted)
        <4>1. /\ p \in AppType /\ ~(Timers \subseteq p.later) /\ AllBut(Booted, p, {"later"})
              /\ BtSound(p, FALSE) /\ Watched(p, FALSE)
          BY <1>2, <1>4, StartAutoSound
        <4>2. b = p /\ flag' = flag /\ (why # "pin" => flag # "POWER_ON")
          BY <2>2, <2>4, <3>2
        <4> HIDE DEF p, b, on
        <4>3. p.reset = "no" /\ SameBt(Booted, p) /\ ~p.user
          BY <1>2, <4>1 DEF AllBut, SameBt
        <4>4. BtSound(p, Orders(p.cmds)) /\ Watched(p, Orders(p.cmds))
          BY <4>1 DEF BtSound, Watched
        <4> QED BY <4>1, <4>2, <4>3, <4>4 DEF Kept
      <3> QED BY <2>5, <3>1, <3>2
    <2> HIDE DEF b
    <2>7. /\ a \in AppType /\ AllBut(b, a, {"cmds", "crash"}) /\ a.cmds = <<>> /\ a.crash = "keep"
      <3>1. <<>> \in Seq(BOOLEAN)
        BY OrderFacts
      <3> QED BY <2>6, <3>1 DEF AppType, AllBut
    <2> HIDE DEF a
    <2>8. /\ a.enabled = b.enabled /\ a.conn = b.conn /\ a.sys = b.sys /\ a.noAuto = b.noAuto
          /\ a.user = b.user /\ a.pending = b.pending /\ a.noOff = b.noOff /\ a.ending = b.ending
          /\ a.reboot = b.reboot /\ a.shutdown = b.shutdown /\ a.charging = b.charging
          /\ a.later = b.later /\ a.queue = <<>> /\ a.reset = "no" /\ b.queue = <<>>
          /\ a.enabled = FALSE
      BY <1>2, <2>6, <2>7 DEF AllBut, SameBt, AppType
    <2>9. cmds' \in Seq(BOOLEAN) /\ (Orders(b.cmds) => OffComes')
      BY <2>2, <2>6 DEF AppType, OffComes, Orders
    <2>10. BtSound(a, OffComes') /\ Watched(a, OffComes') /\ Kept(a, flag', why')
      <3>1. BtSound(a, OffComes')
        BY <2>6, <2>8, <2>9 DEF BtSound, Off
      <3>2. Watched(a, OffComes')
        BY <2>6, <2>8, <2>9 DEF Watched
      <3>3. Kept(a, flag', why')
        BY <1>1, <2>6, <2>8 DEF Kept
      <3> QED BY <3>1, <3>2, <3>3
    <2>11. Tracks(a.queue, BtState(a), radio')
      <3>1. BtState(a) = "off"
        BY <2>8 DEF BtState
      <3>2. "off" \in BtStates /\ "boot" \in Radios /\ RadioState("boot") = "off"
        BY DEF BtStates, Radios, RadioState
      <3> QED BY <1>1, <2>8, <3>1, <3>2, NoneTracked
    <2>12. flag' \in Flags
      BY <1>3, <2>2, <2>5 DEF Flags
    <2>13. TypeOK'
      BY <1>1, <1>3, <2>2, <2>6, <2>7, <2>8, <2>9, <2>12 DEF TypeOK
    <2>14. /\ BtSound(app', OffComes') /\ Watched(app', OffComes') /\ Kept(app', flag', why')
           /\ Tracks(app'.queue, BtState(app'), radio')
      BY <2>2, <2>10, <2>11
    <2> QED BY <2>2, <2>13, <2>14 DEF IInv
  <1> QED BY <1>5, <1>6

LEMMA EndsIInv == ASSUME IInv, End \/ Crash \/ Wake PROVE IInv'
  <1>1. /\ app' = app /\ radio' = radio /\ cmds' = cmds /\ dev' \in {"off", "reset"}
        /\ inputs' = inputs \/ (inputs' = inputs + 1 /\ inputs < MaxInputs)
    BY DEF End, Crash, Wake, Input
  <1>2. /\ why' \in {"soft", "crash", "pin", "power"} /\ flag' \in Flags
        /\ dev' = "reset" /\ why' = "power" => flag' = "USER"
        /\ dev' = "reset" /\ why' = "soft" => flag' \in Reasons \cup {"SHUTDOWN_FAILED"}
    <2>1. app \in AppType /\ flag \in Flags /\ why \in {"soft", "crash", "pin", "power"}
      BY DEF IInv, TypeOK
    <2>2. app.reason \in Reasons
      BY <2>1 DEF AppType
    <2>3. CASE End
      BY <2>1, <2>2, <2>3 DEF End, Flags
    <2>4. CASE Crash
      BY <2>1, <2>4 DEF Crash
    <2>5. CASE Wake
      BY <2>1, <2>5 DEF Wake, Flags, Reasons
    <2> QED BY <2>3, <2>4, <2>5
  <1>3. inputs' \in 0 .. MaxInputs
    <2>1. inputs \in 0 .. MaxInputs
      BY DEF IInv, TypeOK
    <2> QED BY <1>1, <2>1, PowerAssumption
  <1> QED BY <1>1, <1>2, <1>3 DEF IInv, TypeOK

\* A step of the core.
LEMMA RadioIInv ==
  ASSUME IInv, dev = "up", NEW q \in Seq(Events), NEW r \in Radios,
         app' = [app EXCEPT !.queue = q], radio' = r, cmds' \in Seq(BOOLEAN),
         UNCHANGED <<dev, why, flag>>, inputs' \in 0 .. MaxInputs,
         Tracks(q, BtState(app), r),
         Holds(app.queue, "done") => Holds(q, "done"),
         OffComes /\ app.enabled => r = "hung" \/ Orders(cmds') \/ Holds(q, "off")
  PROVE  IInv'
  <1> DEFINE a == [app EXCEPT !.queue = q]
  <1>1. /\ app \in AppType /\ ~(Timers \subseteq app.later)
        /\ app.cmds = <<>> /\ app.reset = "no" /\ app.crash = "keep"
        /\ BtSound(app, OffComes) /\ Watched(app, OffComes) /\ Kept(app, flag, why)
        /\ flag \in Flags
    BY UpFacts
  <1>2. a \in AppType /\ AllBut(app, a, {"queue"}) /\ a.queue = q
    BY <1>1 DEF AppType, AllBut
  <1>3. app' = a
    OBVIOUS
  <1> HIDE DEF a
  <1>4. /\ a.enabled = app.enabled /\ a.conn = app.conn /\ a.sys = app.sys /\ a.noAuto = app.noAuto
        /\ a.user = app.user /\ a.pending = app.pending /\ a.noOff = app.noOff
        /\ a.ending = app.ending /\ a.reboot = app.reboot /\ a.shutdown = app.shutdown
        /\ a.charging = app.charging /\ a.later = app.later /\ a.crash = "keep"
        /\ a.cmds = <<>> /\ a.reset = "no"
    BY <1>1, <1>2 DEF AllBut
  <1> DEFINE o == r = "hung" \/ Orders(cmds') \/ Holds(q, "off")
  <1>5. OffComes' = o
    BY <1>2, <1>3 DEF OffComes, Orders, Holds
  <1>6. app.enabled /\ OffComes => o
    OBVIOUS
  <1> HIDE DEF o
  <1>7. BtSound(a, o)
    BY <1>1, <1>4, <1>6 DEF BtSound, Off
  <1>8. Watched(a, o)
    BY <1>1, <1>2, <1>4, <1>6 DEF Watched
  <1>9. Kept(a, flag', why')
    BY <1>1, <1>4 DEF Kept
  <1>10. Tracks(a.queue, BtState(a), radio')
    BY <1>2, <1>4 DEF BtState
  <1>11. TypeOK'
    BY <1>1, <1>2, <1>3, <1>4 DEF IInv, TypeOK, Radios
  <1>12. /\ BtSound(app', OffComes') /\ Watched(app', OffComes') /\ Kept(app', flag', why')
         /\ Tracks(app'.queue, BtState(app'), radio')
    BY <1>3, <1>5, <1>7, <1>8, <1>9, <1>10
  <1> QED BY <1>11, <1>12 DEF IInv

LEMMA ReportFacts ==
  ASSUME NEW q \in Seq(Events)
  PROVE  /\ \A e \in Events : q \o <<e>> = Append(q, e)
         /\ \A d, e \in Events : q \o <<d, e>> = Append(Append(q, d), e)
         /\ q \o <<>> = q
  <1>1. \A e \in Events : q \o <<e>> = Append(q, e)
    OBVIOUS
  <1>2. ASSUME NEW d \in Events, NEW e \in Events PROVE q \o <<d, e>> = Append(Append(q, d), e)
    <2>1. <<d, e>> = Append(<<d>>, e) /\ <<d>> \in Seq(Events)
      OBVIOUS
    <2> DEFINE l == q \o <<d, e>>
               r == Append(Append(q, d), e)
    <2>2. l \in Seq(Events) /\ r \in Seq(Events) /\ Len(l) = Len(q) + 2 /\ Len(r) = Len(q) + 2
      OBVIOUS
    <2>3. \A i \in 1 .. Len(q) + 2 : l[i] = r[i]
      OBVIOUS
    <2> QED BY <2>2, <2>3
  <1>3. q \o <<>> = q
    OBVIOUS
  <1> QED BY <1>1, <1>2, <1>3

LEMMA RadiosIInv == ASSUME IInv, Bt \/ Link \/ Hang PROVE IInv'
  <1>1. /\ dev = "up" /\ UNCHANGED <<dev, why, flag>>
        /\ inputs' = inputs \/ (inputs' = inputs + 1 /\ inputs < MaxInputs)
    BY DEF Bt, Link, Hang, Input
  <1>2. inputs' \in 0 .. MaxInputs
    <2>1. inputs \in 0 .. MaxInputs
      BY <1>1, UpFacts
    <2> QED BY <1>1, <2>1, PowerAssumption
  <1>3. /\ app \in AppType /\ app.queue \in Seq(Events) /\ radio \in Radios /\ cmds \in Seq(BOOLEAN)
        /\ Tracks(app.queue, BtState(app), radio) /\ BtState(app) \in BtStates
    BY <1>1, UpFacts DEF BtState, BtStates
  <1>4. /\ "on" \in Events /\ "off" \in Events /\ "done" \in Events
        /\ "connected" \in Events /\ "disconnected" \in Events
    BY DEF Events
  <1>5. app = [app EXCEPT !.queue = app.queue]
    BY <1>3 DEF AppType
  <1>6. ASSUME NEW e \in Events, e # "done", NEW r \in {"off", "idle", "linked"},
               Report(<<e>>), radio' = r, radio # "hung",
               Follows(e, RadioState(radio), RadioState(r)), r = "off" => e = "off",
               cmds' \in Seq(BOOLEAN), e = "off" \/ (Orders(cmds) => Orders(cmds'))
        PROVE  IInv'
    <2> DEFINE q == Append(app.queue, e)
    <2>1. app' = [app EXCEPT !.queue = q]
      BY <1>3, <1>6, ReportFacts DEF Report
    <2>2. r \in Radios
      BY DEF Radios
    <2>3. q \in Seq(Events) /\ Tracks(q, BtState(app), r)
      BY <1>3, <1>6, <2>2, AppendTracks
    <2>4. \A d \in Events : Holds(app.queue, d) => Holds(q, d)
      BY <1>3, HoldsFacts
    <2>5. e = "off" => Holds(q, "off")
      <3>1. Len(q) \in 1 .. Len(q) /\ q[Len(q)] = e
        BY <1>3
      <3> QED BY <3>1 DEF Holds
    <2> HIDE DEF q
    <2>6. OffComes => r = "hung" \/ Orders(cmds') \/ Holds(q, "off")
      BY <1>4, <1>6, <2>4, <2>5 DEF OffComes
    <2> QED BY <1>1, <1>2, <1>4, <1>6, <2>1, <2>2, <2>3, <2>4, <2>6, RadioIInv
  <1>7. CASE BtBoot /\ Bt
    <2>1. radio = "boot" /\ radio' = "off" /\ Report(<<"off">>) /\ cmds' = cmds
      BY <1>7 DEF BtBoot
    <2> QED BY <1>3, <1>4, <1>6, <2>1 DEF Follows, RadioState
  <1>8. CASE SetEnabled /\ Bt
    <2>1. radio \in {"off", "idle", "linked"} /\ cmds # <<>> /\ cmds' = Tail(cmds)
      BY <1>8 DEF SetEnabled
    <2>2. /\ cmds' \in Seq(BOOLEAN) /\ Head(cmds) \in BOOLEAN
          /\ Orders(cmds) <=> Orders(cmds') \/ Head(cmds) = FALSE
      BY <1>3, <2>1, OrderFacts
    <2>3. ASSUME app' = app, radio' = radio, Head(cmds) = TRUE \/ radio = "off" PROVE IInv'
      <3>1. Holds(app.queue, "off") \/ ~app.enabled \/ radio # "off"
        <4>1. app.enabled => BtState(app) # "off"
          BY DEF BtState
        <4> QED BY <1>3, <4>1, TracksFacts
      <3>2. OffComes /\ app.enabled => radio = "hung" \/ Orders(cmds') \/ Holds(app.queue, "off")
        BY <2>2, <2>3, <3>1 DEF OffComes
      <3>3. app' = [app EXCEPT !.queue = app.queue]
        BY <1>5, <2>3
      <3> QED BY <1>1, <1>2, <1>3, <2>2, <2>3, <3>2, <3>3, RadioIInv
    <2>4. CASE Head(cmds)
      <3>1. Head(cmds) = TRUE
        BY <2>2, <2>4
      <3>2. CASE radio = "off"
        <4>1. radio' = "idle" /\ Report(<<"on">>)
          BY <1>8, <2>4, <3>2 DEF SetEnabled
        <4>2. Orders(cmds) => Orders(cmds')
          BY <2>2, <3>1
        <4> QED BY <1>3, <1>4, <1>6, <2>2, <3>2, <4>1, <4>2 DEF Follows, RadioState
      <3>3. CASE radio # "off"
        <4>1. radio' = radio /\ app' = app
          BY <1>8, <2>4, <3>3 DEF SetEnabled
        <4> QED BY <2>3, <3>1, <4>1
      <3> QED BY <3>2, <3>3
    <2>5. CASE ~Head(cmds)
      <3>1. /\ radio' = "off"
            /\ Report(CASE radio = "off" -> <<>>
                        [] radio = "idle" -> <<"off">>
                        [] radio = "linked" -> <<"disconnected", "off">>)
        BY <1>8, <2>5 DEF SetEnabled
      <3>2. CASE radio = "off"
        <4>1. Report(<<>>)
          BY <3>1, <3>2
        <4>2. app' = app
          BY <1>3, <1>5, <4>1, ReportFacts DEF Report
        <4> QED BY <2>3, <3>1, <3>2, <4>2
      <3>3. CASE radio = "idle"
        <4>1. Report(<<"off">>)
          BY <3>1, <3>3
        <4> QED BY <1>4, <1>6, <2>2, <3>1, <3>3, <4>1 DEF Follows, RadioState
      <3>4. CASE radio = "linked"
        <4> DEFINE p == Append(app.queue, "disconnected")
                   q == Append(p, "off")
        <4>1. Report(<<"disconnected", "off">>)
          BY <3>1, <3>4
        <4>2. app' = [app EXCEPT !.queue = q]
          BY ZenonT(60), <1>3, <1>4, <4>1, ReportFacts DEF Report
        <4>3. "idle" \in Radios /\ "off" \in Radios
          BY DEF Radios
        <4>4. Follows("disconnected", RadioState(radio), RadioState("idle"))
          BY <3>4 DEF Follows, RadioState
        <4>5. Follows("off", RadioState("idle"), RadioState("off"))
          BY DEF Follows, RadioState
        <4>6. p \in Seq(Events) /\ Tracks(p, BtState(app), "idle")
          BY <1>3, <1>4, <3>4, <4>3, <4>4, AppendTracks
        <4> HIDE DEF p
        <4>7. q \in Seq(Events) /\ Tracks(q, BtState(app), "off")
          BY <1>4, <4>3, <4>5, <4>6, AppendTracks
        <4>8. \A d \in Events : Holds(app.queue, d) => Holds(q, d)
          <5>1. \A d \in Events : Holds(app.queue, d) => Holds(p, d)
            BY <1>3, <1>4, HoldsFacts DEF p
          <5>2. \A d \in Events : Holds(p, d) => Holds(q, d)
            BY <1>4, <4>6, HoldsFacts
          <5> QED BY <5>1, <5>2
        <4>9. Holds(q, "off")
          <5>1. Len(q) \in 1 .. Len(q) /\ q[Len(q)] = "off"
            BY <4>6
          <5> QED BY <5>1 DEF Holds
        <4> HIDE DEF q
        <4> QED BY <1>1, <1>2, <1>4, <2>2, <3>1, <4>2, <4>3, <4>7, <4>8, <4>9, RadioIInv
      <3> QED BY <2>1, <3>2, <3>3, <3>4
    <2> QED BY <2>4, <2>5
  <1>9. CASE Link
    <2>1. cmds' = cmds /\ \/ radio = "idle" /\ radio' = "linked" /\ Report(<<"connected">>)
                          \/ radio = "linked" /\ radio' = "idle" /\ Report(<<"disconnected">>)
      BY <1>9 DEF Link
    <2> QED BY <1>3, <1>4, <1>6, <2>1 DEF Follows, RadioState
  <1>10. CASE Hang
    <2>1. app' = app /\ cmds' = cmds /\ radio' = "hung" /\ "hung" \in Radios
      BY <1>10 DEF Hang, Radios
    <2>2. Tracks(app.queue, BtState(app), "hung")
      BY <1>3, TracksFacts
    <2>3. app' = [app EXCEPT !.queue = app.queue]
      BY <1>5, <2>1
    <2> QED BY <1>1, <1>2, <1>3, <2>1, <2>2, <2>3, RadioIInv
  <1> QED BY <1>7, <1>8, <1>9, <1>10 DEF Bt

LEMMA InitIInv == Init => IInv
  <1> SUFFICES ASSUME Init PROVE IInv
    OBVIOUS
  <1>1. /\ Booted \in AppType /\ Booted.later = {} /\ Booted.cmds = <<>> /\ Booted.reset = "no"
        /\ Booted.crash = "keep"
    <2>1. <<>> \in Seq(Events) /\ {} \in SUBSET Later
      OBVIOUS
    <2>2. <<>> \in Seq(BOOLEAN)
      BY OrderFacts
    <2> QED BY <2>1, <2>2 DEF Booted, AppType, Reasons
  <1> HIDE DEF Booted
  <1>2. ~(Timers \subseteq Booted.later)
    BY <1>1 DEF Timers
  <1>3. <<>> \in Seq(BOOLEAN)
    BY OrderFacts
  <1>4. flag \in Flags /\ 0 \in 0 .. MaxInputs
    BY PowerAssumption DEF Init, Flags, Reasons
  <1> QED BY <1>1, <1>2, <1>3, <1>4 DEF Init, IInv, TypeOK

LEMMA NextIInv == ASSUME IInv, [Next]_vars PROVE IInv'
  <1>1. CASE \E id \in Later : Expire(id)
    BY <1>1, ExpireIInv
  <1>2. CASE HandleEvent
    BY <1>2, HandleEventIInv
  <1>3. CASE Request \/ BoxOpen
    BY <1>3, RequestIInv
  <1>4. CASE End \/ Crash \/ Wake
    BY <1>4, EndsIInv
  <1>5. CASE Boot
    BY <1>5, BootIInv
  <1>6. CASE Bt \/ Link \/ Hang
    BY <1>6, RadiosIInv
  <1>7. CASE UNCHANGED vars
    <2>1. /\ app' = app /\ dev' = dev /\ why' = why /\ flag' = flag /\ radio' = radio
          /\ cmds' = cmds /\ inputs' = inputs
      BY <1>7 DEF vars
    <2>2. OffComes' = OffComes
      BY <2>1 DEF OffComes, Orders, Holds
    <2> QED BY <2>1, <2>2 DEF IInv, TypeOK
  <1> QED BY <1>1, <1>2, <1>3, <1>4, <1>5, <1>6, <1>7 DEF Next

\* Power keeps its inductive invariant.
THEOREM IInvInvariant == Spec => []IInv
  BY InitIInv, NextIInv, PTL DEF Spec

\* Every variable has its type, and never do both timers run.
THEOREM TypeCorrect == Spec => []TypeOK
  <1>1. IInv => TypeOK
    BY DEF IInv
  <1> QED BY <1>1, IInvInvariant, PTL

\* An earbud left alone always has a timer that will switch it off, and one in use
\* has none, in any order of requests, charging and Bluetooth's answers.
THEOREM AlwaysWatched == Spec => []TimerAsNeeded
  <1>1. IInv => TimerAsNeeded
    <2> SUFFICES ASSUME IInv, dev = "up", app.ending = "no" PROVE TimerAsNeeded
      BY DEF TimerAsNeeded
    <2>1. /\ BtSound(app, OffComes) /\ Watched(app, OffComes) /\ app \in AppType
          /\ app.queue \in Seq(Events) /\ cmds \in Seq(BOOLEAN)
      BY UpFacts
    <2>2. /\ Orders(cmds) => cmds # <<>>
          /\ \A e : Holds(app.queue, e) => app.queue # <<>>
      BY <2>1 DEF Orders, Holds
    <2> QED BY <2>1, <2>2 DEF TimerAsNeeded, BtSound, Watched, OffComes, AppType
  <1> QED BY <1>1, IInvInvariant, PTL

\* What the register says after a crash is what was wanted before it, whatever came
\* between.
THEOREM WishKept == Spec => []CrashKeepsWish
  <1>1. IInv => CrashKeepsWish
    BY DEF IInv, Kept, CrashKeepsWish
  <1> QED BY <1>1, IInvInvariant, PTL
=============================================================================
