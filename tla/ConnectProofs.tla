--------------------------- MODULE ConnectProofs ---------------------------
(***************************************************************************)
(* What Connect guarantees for every number of retries and whatever the    *)
(* stack, the peer and the user do: types, the alternation of the stack's  *)
(* reports, and that a master without a phone can be reached by one.       *)
(***************************************************************************)
EXTENDS Connect, TLAPS

\* The state shown to the rest of the application is the connection's.
SysSound(b) == b.sys = CONNECTED => b.conn = "connected"

\* The attempts made, queued and delayed.
Attempts(b) == b.retry + b.reconnect + (IF b.reconnectLater THEN 1 ELSE 0)

Reached(b) == b.enabled /\ ~b.slave /\ b.conn = "disconnected" => b.connectable

\* A bud between two handlers.
Sane(b) == b \in BudType /\ SysSound(b) /\ Attempts(b) <= Retries + MaxQueued + 1
BudOK(b) == Sane(b) /\ Reached(b)

\* The stack reports that it is on and that it is off in turn, from what the bud
\* has heard up to what it is.
Alternates(q, first, last) ==
  \E h \in [0 .. Len(q) -> BOOLEAN] :
    /\ h[0] = first /\ h[Len(q)] = last
    /\ \A i \in 1 .. Len(q) :
         IF q[i].id = "ENABLE" THEN q[i].on # h[i - 1] /\ h[i] = q[i].on
                               ELSE h[i] = h[i - 1]

IInv ==
  /\ TypeOK /\ BudOK(bud)
  /\ Alternates(evts, bud.enabled, stack.on)
  /\ bud.enabled \/ bud.powerOn <= MaxQueued

\* What no handler but those of ENABLE, CONN and ROLE changes.
Keeps(b, c) ==
  /\ c.enabled = b.enabled /\ c.slave = b.slave /\ c.conn = b.conn
  /\ c.powerOn <= b.powerOn

\* ... and none of those takes a bud away from the phones that could reach it.
Good(b, c) == Sane(c) /\ Keeps(b, c) /\ (b.connectable => c.connectable)

----------------------------------------------------------------------------
\* generate_sys_state changes the state shown, and makes it sound.
LEMMA GenerateFacts ==
  ASSUME NEW b \in BudType
  PROVE  LET r == Generate(b)
         IN /\ r \in BudType /\ SysSound(r) /\ Attempts(r) = Attempts(b) /\ Keeps(b, r)
            /\ r.connectable = b.connectable /\ r.cmd = b.cmd /\ r.powerOn = b.powerOn
  <1>1. SysState(b) \in DISABLED .. CONNECTED
    BY DEF SysState, DISABLED, WWS_PAIRING, IDLE, CONNECTABLE, AG_PAIRING, CONNECTED
  <1>2. SysState(b) = CONNECTED => b.conn = "connected"
    BY DEF SysState, DISABLED, WWS_PAIRING, IDLE, CONNECTABLE, AG_PAIRING, CONNECTED
  <1> HIDE DEF SysState
  <1>3. LET r == [b EXCEPT !.sys = SysState(b)]
        IN /\ r \in BudType /\ r.sys = SysState(b) /\ r.conn = b.conn /\ r.enabled = b.enabled
           /\ r.slave = b.slave /\ r.powerOn = b.powerOn /\ r.connectable = b.connectable
           /\ r.cmd = b.cmd
           /\ r.retry = b.retry /\ r.reconnect = b.reconnect /\ r.reconnectLater = b.reconnectLater
    BY <1>1 DEF BudType
  <1>4. b.powerOn <= b.powerOn
    BY ConnectAssumption DEF BudType
  <1> QED BY <1>2, <1>3, <1>4 DEF Generate, SysSound, Attempts, Keeps

\* Setting scan modes: app_bt_set_discoverable_and_connectable and its halves.
LEMMA SetVisibilityFacts ==
  ASSUME NEW b \in BudType, Attempts(b) <= Retries + MaxQueued + 1,
         NEW v \in BOOLEAN, NEW c \in BOOLEAN
  PROVE  LET r == SetVisibility(b, v, c)
         IN Sane(r) /\ Keeps(b, r) /\ r.connectable = c
  <1> DEFINE a == [b EXCEPT !.visible = v, !.connectable = c]
  <1>1. /\ a \in BudType /\ Attempts(a) = Attempts(b) /\ a.connectable = c
        /\ a.enabled = b.enabled /\ a.slave = b.slave /\ a.conn = b.conn /\ a.powerOn = b.powerOn
    BY DEF BudType, Attempts
  <1> HIDE DEF a
  <1>2. LET r == Generate(a)
        IN /\ r \in BudType /\ SysSound(r) /\ Attempts(r) = Attempts(a) /\ Keeps(a, r)
           /\ r.connectable = a.connectable
    BY <1>1, GenerateFacts
  <1> QED BY <1>1, <1>2 DEF SetVisibility, Sane, Keeps, a

\* Letting phones connect, and hiding from new ones: the two halves, which do nothing
\* when nothing changes.
LEMMA SetConnectableFacts ==
  ASSUME NEW b, Sane(b)
  PROVE  /\ Good(b, SetConnectable(b)) /\ SetConnectable(b).connectable
         /\ Good(b, HideFromPhones(b)) /\ Good(b, b)
  <1>1. b \in BudType /\ b.powerOn <= b.powerOn
    BY ConnectAssumption DEF Sane, BudType
  <1>2. Good(b, b)
    BY <1>1 DEF Good, Keeps
  <1>3. Good(b, SetConnectable(b)) /\ SetConnectable(b).connectable
    <2> DEFINE a == [b EXCEPT !.connectable = TRUE]
    <2>1. /\ a \in BudType /\ Attempts(a) = Attempts(b) /\ a.connectable
          /\ a.enabled = b.enabled /\ a.slave = b.slave /\ a.conn = b.conn
          /\ a.powerOn = b.powerOn
      BY <1>1 DEF BudType, Attempts
    <2> HIDE DEF a
    <2>2. LET r == Generate(a)
          IN /\ r \in BudType /\ SysSound(r) /\ Attempts(r) = Attempts(a) /\ Keeps(a, r)
             /\ r.connectable = a.connectable
      BY <2>1, GenerateFacts
    <2>3. SetConnectable(b) = IF b.connectable THEN b ELSE Generate(a)
      BY DEF SetConnectable, a
    <2> QED BY <1>2, <2>1, <2>2, <2>3 DEF Good, Sane, Keeps
  <1>4. Good(b, HideFromPhones(b))
    <2> DEFINE a == [b EXCEPT !.visible = FALSE]
    <2>1. /\ a \in BudType /\ Attempts(a) = Attempts(b) /\ a.connectable = b.connectable
          /\ a.enabled = b.enabled /\ a.slave = b.slave /\ a.conn = b.conn
          /\ a.powerOn = b.powerOn
      BY <1>1 DEF BudType, Attempts
    <2> HIDE DEF a
    <2>2. LET r == Generate(a)
          IN /\ r \in BudType /\ SysSound(r) /\ Attempts(r) = Attempts(a) /\ Keeps(a, r)
             /\ r.connectable = a.connectable
      BY <2>1, GenerateFacts
    <2>3. HideFromPhones(b) = IF b.visible THEN Generate(a) ELSE b
      BY DEF HideFromPhones, a
    <2> QED BY <1>2, <2>1, <2>2, <2>3 DEF Good, Sane, Keeps
  <1> QED BY <1>2, <1>3, <1>4

\* app_bt_enter_ag_pairing makes a master connectable and leaves a slave alone.
LEMMA EnterAgPairingFacts ==
  ASSUME NEW b, Sane(b)
  PROVE  /\ Good(b, EnterAgPairing(b)) /\ (~b.slave => EnterAgPairing(b).connectable)
         /\ Good(b, PairingIfMaster(b))
  <1> DEFINE a == [b EXCEPT !.cmd = IF b.conn = "disconnected" THEN @ ELSE "disconnect"]
  <1>1. /\ a \in BudType /\ Attempts(a) = Attempts(b)
        /\ a.enabled = b.enabled /\ a.slave = b.slave /\ a.conn = b.conn /\ a.powerOn = b.powerOn
    BY DEF BudType, Attempts, Sane
  <1> HIDE DEF a
  <1>2. LET r == SetVisibility(a, TRUE, TRUE)
        IN Sane(r) /\ Keeps(a, r) /\ r.connectable = TRUE
    BY <1>1, SetVisibilityFacts DEF Sane
  <1>3. EnterAgPairing(b) = IF b.slave THEN b ELSE SetVisibility(a, TRUE, TRUE)
    BY DEF EnterAgPairing, a
  <1>4. Good(b, EnterAgPairing(b)) /\ (~b.slave => EnterAgPairing(b).connectable)
    BY <1>1, <1>2, <1>3, SetConnectableFacts DEF Good, Keeps
  <1> QED BY <1>4, SetConnectableFacts DEF PairingIfMaster

\* connect_last, from whatever it is called.
LEMMA ConnectLastFacts == ASSUME NEW b, Sane(b) PROVE Good(b, ConnectLast(b))
  <1> DEFINE a == [b EXCEPT !.cmd = "connect"]
  <1>1. Good(b, b)
    BY SetConnectableFacts
  <1>2. LET r == SetVisibility(b, TRUE, TRUE) IN Good(b, r)
    BY SetVisibilityFacts DEF Sane, Good
  <1>3. Good(b, a)
    <2>1. /\ a \in BudType /\ Attempts(a) = Attempts(b) /\ a.connectable = b.connectable
          /\ a.enabled = b.enabled /\ a.slave = b.slave /\ a.conn = b.conn
          /\ a.powerOn = b.powerOn /\ a.sys = b.sys
      BY DEF BudType, Attempts, Sane
    <2> QED BY <1>1, <2>1 DEF Good, Sane, Keeps, SysSound
  <1>4. ConnectLast(b) \in {b, SetVisibility(b, TRUE, TRUE), a}
    BY DEF ConnectLast
  <1> QED BY <1>1, <1>2, <1>3, <1>4

\* Two handlers in a row keep what each of them keeps.
LEMMA KeepsTrans ==
  ASSUME NEW b \in BudType, NEW c \in BudType, NEW d \in BudType, Keeps(b, c), Keeps(c, d)
  PROVE  Keeps(b, d)
  BY ConnectAssumption DEF Keeps, BudType

\* ... and so are those a phone can still reach.
LEMMA GoodTrans ==
  ASSUME NEW b, NEW c, NEW d, b \in BudType, Good(b, c), Good(c, d)
  PROVE  Good(b, d)
  BY ConnectAssumption DEF Good, Keeps, Sane, BudType

\* What has no part in the connection.
LEMMA AsideFacts ==
  ASSUME NEW b, Sane(b), NEW v \in BOOLEAN
  PROVE  /\ Good(b, [b EXCEPT !.rolePairing = v]) /\ Good(b, [b EXCEPT !.powerOnPairing = v])
         /\ Good(b, [b EXCEPT !.pdl = v]) /\ Good(b, [b EXCEPT !.linked = v])
         /\ b.powerOn \in 0 .. MaxQueued + 1 /\ b.powerOn \in Int
  <1>1. b \in BudType /\ b.powerOn \in 0 .. MaxQueued + 1 /\ b.powerOn \in Int
    <2>1. b \in BudType /\ b.powerOn \in 0 .. MaxQueued + 1
      BY DEF Sane, BudType
    <2> QED BY <2>1, ConnectAssumption
  <1>2. \A a \in {[b EXCEPT !.rolePairing = v], [b EXCEPT !.powerOnPairing = v],
                 [b EXCEPT !.pdl = v], [b EXCEPT !.linked = v]} :
          /\ a \in BudType /\ Attempts(a) = Attempts(b) /\ a.connectable = b.connectable
          /\ a.enabled = b.enabled /\ a.slave = b.slave /\ a.conn = b.conn
          /\ a.powerOn = b.powerOn /\ a.sys = b.sys
    BY <1>1 DEF BudType, Attempts
  <1>3. b.powerOn <= b.powerOn
    BY <1>1
  <1>4. \A a \in {[b EXCEPT !.rolePairing = v], [b EXCEPT !.powerOnPairing = v],
                 [b EXCEPT !.pdl = v], [b EXCEPT !.linked = v]} : Good(b, a)
    BY <1>2, <1>3 DEF Good, Sane, Keeps, SysSound
  <1> QED BY <1>1, <1>4

\* What handle_bt_disconnect does to the attempts, with the counter a byte.
LEMMA RetryFacts ==
  ASSUME NEW b, Sane(b)
  PROVE  /\ Good(b, LinkLoss(b)) /\ Good(b, ConnTimeout(b))
         /\ \A r \in Reasons : Good(b, [b EXCEPT !.disc = r])
         /\ Good(b, [b EXCEPT !.retry = Uncounted(@)])
         /\ Good(b, [b EXCEPT !.disc = "none", !.retry = 0])
  <1>1. b \in BudType /\ Good(b, b)
    BY SetConnectableFacts DEF Sane
  <1>0. 0 \in 0 .. Retries + MaxQueued + 1
    BY ConnectAssumption
  <1>2. Good(b, LinkLoss(b))
    <2> DEFINE a == LinkLoss(b)
    <2>1. /\ a \in BudType /\ a.retry = 0 /\ a.reconnect = b.reconnect /\ a.reconnectLater
          /\ a.connectable = b.connectable
          /\ a.enabled = b.enabled /\ a.slave = b.slave /\ a.conn = b.conn
          /\ a.powerOn = b.powerOn /\ a.sys = b.sys
      BY <1>0, <1>1 DEF LinkLoss, BudType, Automatic
    <2>2. Attempts(a) <= Retries + MaxQueued + 1
      BY <1>1, <2>1, ConnectAssumption DEF Attempts, BudType
    <2> QED BY <1>1, <2>1, <2>2 DEF Good, Sane, Keeps, SysSound
  <1>3. Good(b, ConnTimeout(b))
    <2> DEFINE a == [b EXCEPT !.reconnectLater = TRUE]
    <2>1. ASSUME b.retry < Retries PROVE Good(b, a)
      <3>1. /\ a \in BudType /\ a.retry = b.retry /\ a.reconnect = b.reconnect
            /\ a.reconnectLater /\ a.connectable = b.connectable
            /\ a.enabled = b.enabled /\ a.slave = b.slave /\ a.conn = b.conn
            /\ a.powerOn = b.powerOn /\ a.sys = b.sys
        BY <1>1 DEF BudType
      <3>2. Attempts(a) <= Retries + MaxQueued + 1
        BY <1>1, <2>1, <3>1, ConnectAssumption DEF Attempts, BudType
      <3> QED BY <1>1, <3>1, <3>2 DEF Good, Sane, Keeps, SysSound
    <2> QED BY <2>1, EnterAgPairingFacts DEF ConnTimeout
  <1>4. ASSUME NEW r \in Reasons PROVE Good(b, [b EXCEPT !.disc = r])
    <2> DEFINE a == [b EXCEPT !.disc = r]
    <2>1. /\ a \in BudType /\ Attempts(a) = Attempts(b) /\ a.connectable = b.connectable
          /\ a.enabled = b.enabled /\ a.slave = b.slave /\ a.conn = b.conn
          /\ a.powerOn = b.powerOn /\ a.sys = b.sys
      BY <1>1 DEF BudType, Attempts
    <2> QED BY <1>1, <2>1 DEF Good, Sane, Keeps, SysSound
  <1>5. Good(b, [b EXCEPT !.retry = Uncounted(@)])
    <2> DEFINE a == [b EXCEPT !.retry = Uncounted(@)]
    <2>1. Uncounted(b.retry) \in 0 .. b.retry
      BY <1>1, ConnectAssumption DEF BudType, Uncounted
    <2>2. /\ a \in BudType /\ a.retry <= b.retry /\ a.reconnect = b.reconnect
          /\ a.reconnectLater = b.reconnectLater /\ a.connectable = b.connectable
          /\ a.enabled = b.enabled /\ a.slave = b.slave /\ a.conn = b.conn
          /\ a.powerOn = b.powerOn /\ a.sys = b.sys
      BY <1>1, <2>1, ConnectAssumption DEF BudType
    <2>3. Attempts(a) <= Attempts(b)
      BY <1>1, <2>2, ConnectAssumption DEF Attempts, BudType
    <2>4. Attempts(a) \in Int /\ Attempts(b) \in Int
      BY <1>1, <2>2 DEF Attempts, BudType
    <2> QED BY <1>1, <2>2, <2>3, <2>4, ConnectAssumption DEF Good, Sane, Keeps, SysSound
  <1>6. Good(b, [b EXCEPT !.disc = "none", !.retry = 0])
    <2> DEFINE a == [b EXCEPT !.disc = "none", !.retry = 0]
    <2>1. /\ a \in BudType /\ a.retry = 0 /\ a.reconnect = b.reconnect
          /\ a.reconnectLater = b.reconnectLater /\ a.connectable = b.connectable
          /\ a.enabled = b.enabled /\ a.slave = b.slave /\ a.conn = b.conn
          /\ a.powerOn = b.powerOn /\ a.sys = b.sys
      BY <1>0, <1>1 DEF BudType, Reasons
    <2>2. Attempts(a) <= Retries + MaxQueued + 1
      BY <1>1, <2>1, ConnectAssumption DEF Attempts, BudType
    <2> QED BY <1>1, <2>1, <2>2 DEF Good, Sane, Keeps, SysSound
  <1> QED BY <1>2, <1>3, <1>4, <1>5, <1>6

\* handle_bt_disconnect
LEMMA DisconnectedFacts ==
  ASSUME NEW b, Sane(b), NEW r \in Reasons \ {"none"}
  PROVE  Good(b, Disconnected(b, r))
  <1> DEFINE d == [b EXCEPT !.disc = r]
             u == [d EXCEPT !.retry = Uncounted(@)]
             z == [d EXCEPT !.disc = "none", !.retry = 0]
  <1>1. b \in BudType /\ Good(b, d) /\ Sane(d)
    BY RetryFacts DEF Good, Sane
  <1> HIDE DEF d
  <1>2. Good(d, u) /\ Sane(u) /\ Good(d, z) /\ Good(d, LinkLoss(d)) /\ Good(d, ConnTimeout(d))
        /\ Good(d, PairingIfMaster(d)) /\ Good(d, d)
    BY <1>1, RetryFacts, EnterAgPairingFacts, SetConnectableFacts DEF Good
  <1>3. Good(u, ConnTimeout(u))
    BY <1>2, RetryFacts
  <1> HIDE DEF u, z
  <1>4. Good(d, ConnTimeout(u))
    BY <1>1, <1>2, <1>3, GoodTrans DEF Sane
  <1>5. Disconnected(b, r) \in {ConnTimeout(d), LinkLoss(d), ConnTimeout(u), d, PairingIfMaster(d), z}
    BY DEF Disconnected, Reasons, d, u, z
  <1> QED BY <1>1, <1>2, <1>4, <1>5, GoodTrans

\* app_conn_handle_bt_conn_state
LEMMA ConnStateFacts ==
  ASSUME NEW b, Sane(b), NEW r \in Reasons
  PROVE  /\ LET c == ConnState(b, TRUE, r) IN Sane(c) /\ Keeps(b, c)
         /\ r # "none" =>
              LET c == ConnState(b, FALSE, r)
              IN Sane(c) /\ Keeps(b, c) /\ (~b.slave => c.connectable)
  <1>1. LET c == ConnState(b, TRUE, r) IN Sane(c) /\ Keeps(b, c)
    <2> DEFINE a == CancelReconnect(CancelPowerOn(
                      [b EXCEPT !.retry = 0, !.why = "none", !.powerOnPairing = FALSE]))
    <2>1. 0 \in 0 .. Retries + MaxQueued + 1 /\ 0 \in 0 .. MaxQueued /\ 0 \in 0 .. MaxQueued + 1
      BY ConnectAssumption
    <2>2. /\ a \in BudType /\ a.retry = 0 /\ a.reconnect = 0 /\ a.reconnectLater = FALSE
          /\ a.enabled = b.enabled /\ a.slave = b.slave /\ a.conn = b.conn /\ a.powerOn = 0
      BY <2>1 DEF Sane, BudType, CancelReconnect, CancelPowerOn
    <2>3. Attempts(a) <= Retries + MaxQueued + 1 /\ a.powerOn <= b.powerOn
      BY <2>2, ConnectAssumption DEF Attempts, Sane, BudType
    <2> HIDE DEF a
    <2>4. LET c == SetVisibility(a, FALSE, FALSE) IN Sane(c) /\ Keeps(a, c)
      BY <2>2, <2>3, SetVisibilityFacts
    <2>5. Keeps(b, a)
      BY <2>2, <2>3 DEF Keeps
    <2>6. ConnState(b, TRUE, r) = SetVisibility(a, FALSE, FALSE)
      BY DEF ConnState, a
    <2> QED BY <2>2, <2>4, <2>5, <2>6, KeepsTrans DEF Sane
  <1>2. ASSUME r # "none"
        PROVE  LET c == ConnState(b, FALSE, r)
               IN Sane(c) /\ Keeps(b, c) /\ (~b.slave => c.connectable)
    <2> DEFINE a == IF b.slave THEN b ELSE SetConnectable(b)
    <2>1. Good(b, a) /\ (~b.slave => a.connectable)
      BY SetConnectableFacts
    <2>2. ConnState(b, FALSE, r) = Disconnected(a, r)
      BY DEF ConnState
    <2> HIDE DEF a
    <2>3. Good(a, Disconnected(a, r))
      BY <1>2, <2>1, DisconnectedFacts DEF Good
    <2>4. Good(b, Disconnected(a, r))
      BY <2>1, <2>3, GoodTrans DEF Sane
    <2> QED BY <2>1, <2>2, <2>3, <2>4 DEF Good
  <1> QED BY <1>1, <1>2

\* app_conn_handle_msg: one message fewer is queued when the handler runs.
LEMMA ConnMsgFacts ==
  ASSUME NEW b, Sane(b)
  PROVE  /\ b.powerOn > 0 =>
              LET c == OnPowerOnConnect([b EXCEPT !.powerOn = @ - 1])
              IN /\ Sane(c) /\ Keeps(b, c) /\ (b.connectable => c.connectable)
                 /\ c.powerOn < b.powerOn
         /\ b.reconnect > 0 => Good(b, OnReconnect([b EXCEPT !.reconnect = @ - 1]))
  <1>1. b \in BudType /\ b.powerOn \in 0 .. MaxQueued + 1
    BY DEF Sane, BudType
  <1>2. ASSUME b.powerOn > 0
        PROVE  LET c == OnPowerOnConnect([b EXCEPT !.powerOn = @ - 1])
               IN /\ Sane(c) /\ Keeps(b, c) /\ (b.connectable => c.connectable)
                  /\ c.powerOn < b.powerOn
    <2> DEFINE a == [[b EXCEPT !.powerOn = @ - 1] EXCEPT !.why = "power_on", !.retry = 1]
    <2>1. 1 \in 0 .. Retries + MaxQueued + 1 /\ b.powerOn - 1 \in 0 .. MaxQueued + 1
      BY <1>1, <1>2, ConnectAssumption
    <2>2. /\ a \in BudType /\ a.retry = 1 /\ a.reconnect = b.reconnect
          /\ a.reconnectLater = b.reconnectLater /\ a.connectable = b.connectable
          /\ a.enabled = b.enabled /\ a.slave = b.slave /\ a.conn = b.conn
          /\ a.powerOn = b.powerOn - 1 /\ a.sys = b.sys
      BY <1>1, <2>1 DEF BudType, Automatic
    <2>3. Attempts(a) <= Retries + MaxQueued + 1
      BY <1>1, <2>2, ConnectAssumption DEF Attempts, BudType
    <2>4. Sane(a) /\ OnPowerOnConnect([b EXCEPT !.powerOn = @ - 1]) = ConnectLast(a)
      BY <2>2, <2>3 DEF OnPowerOnConnect, Sane, SysSound
    <2> HIDE DEF a
    <2>5. Good(a, ConnectLast(a)) /\ ConnectLast(a).powerOn \in 0 .. MaxQueued + 1
      BY <2>4, ConnectLastFacts DEF Good, Sane, BudType
    <2>6. ConnectLast(a).powerOn < b.powerOn /\ ConnectLast(a).powerOn <= b.powerOn
      BY <1>1, <2>2, <2>5, ConnectAssumption DEF Good, Keeps
    <2> QED BY <2>2, <2>4, <2>5, <2>6 DEF Good, Keeps
  <1>3. ASSUME b.reconnect > 0 PROVE Good(b, OnReconnect([b EXCEPT !.reconnect = @ - 1]))
    <2> DEFINE a == [b EXCEPT !.reconnect = @ - 1]
               n == [a EXCEPT !.retry = @ + 1]
    <2>1. /\ b.reconnect - 1 \in 0 .. MaxQueued /\ b.retry + 1 \in 0 .. Retries + MaxQueued + 1
          /\ b.powerOn <= b.powerOn
      BY <1>1, <1>3, ConnectAssumption DEF Attempts, Sane, BudType
    <2>2. /\ a \in BudType /\ a.retry = b.retry /\ a.reconnect = b.reconnect - 1
          /\ a.reconnectLater = b.reconnectLater /\ a.connectable = b.connectable
          /\ a.enabled = b.enabled /\ a.slave = b.slave /\ a.conn = b.conn
          /\ a.powerOn = b.powerOn /\ a.sys = b.sys
      BY <1>1, <2>1 DEF BudType
    <2> HIDE DEF a
    <2>3. /\ n \in BudType /\ n.retry = b.retry + 1 /\ n.reconnect = b.reconnect - 1
          /\ n.reconnectLater = b.reconnectLater /\ n.connectable = b.connectable
          /\ n.enabled = b.enabled /\ n.slave = b.slave /\ n.conn = b.conn
          /\ n.powerOn = b.powerOn /\ n.sys = b.sys
      BY <2>1, <2>2 DEF BudType
    <2> HIDE DEF n
    <2>4. Attempts(a) <= Attempts(b) /\ Attempts(n) = Attempts(b)
      BY <1>1, <2>2, <2>3, ConnectAssumption DEF Attempts, BudType
    <2>5. Attempts(a) \in Int /\ Attempts(b) \in Int
      BY <1>1, <2>2 DEF Attempts, BudType
    <2>6. Sane(a) /\ Sane(n) /\ Good(b, a) /\ Good(b, n)
      BY <2>1, <2>2, <2>3, <2>4, <2>5, ConnectAssumption DEF Good, Sane, Keeps, SysSound
    <2>7. Good(n, ConnectLast(n))
      BY <2>6, ConnectLastFacts
    <2>8. Good(b, ConnectLast(n))
      BY <1>1, <2>6, <2>7, GoodTrans
    <2>9. OnReconnect(a) \in {a, ConnectLast(n)}
      BY DEF OnReconnect, n
    <2> QED BY <2>6, <2>8, <2>9 DEF a
  <1> QED BY <1>2, <1>3

\* app_conn_handle_bt_power_on, app_conn_handle_bt_power_off
LEMMA BtPowerFacts ==
  ASSUME NEW b, Sane(b)
  PROVE  /\ b.powerOn <= MaxQueued =>
              LET c == BtPowerOn(b)
              IN Sane(c) /\ c.enabled = b.enabled /\ (~c.slave => c.connectable)
         /\ LET c == BtPowerOff(b) IN Sane(c) /\ c.enabled = b.enabled /\ c.powerOn = 0
  <1>1. b \in BudType
    BY DEF Sane
  <1>2. ASSUME b.powerOn <= MaxQueued
        PROVE  LET c == BtPowerOn(b)
               IN Sane(c) /\ c.enabled = b.enabled /\ (~c.slave => c.connectable)
    <2> DEFINE n == [b EXCEPT !.disc = "none", !.retry = 0]
               m == [n EXCEPT !.powerOnPairing = FALSE]
               l == [n EXCEPT !.powerOn = @ + 1]
    <2>1. Good(b, n) /\ Sane(n) /\ n \in BudType
      BY RetryFacts DEF Good, Sane
    <2>2. n.powerOn + 1 \in 0 .. MaxQueued + 1
      BY <1>1, <1>2, <2>1, ConnectAssumption DEF Good, Keeps, BudType
    <2>3. n.enabled = b.enabled /\ n.slave = b.slave
      BY <2>1 DEF Good, Keeps
    <2>5. BtPowerOn(b) = IF n.slave THEN n
                        ELSE IF b.powerOnPairing \/ ~b.pdl THEN EnterAgPairing(m)
                        ELSE SetConnectable(l)
      BY <2>3 DEF BtPowerOn
    <2> HIDE DEF n
    <2>6. Sane(m) /\ m.enabled = n.enabled /\ m.slave = n.slave
      <3>1. m \in BudType
        BY <2>1 DEF BudType
      <3>2. /\ m.enabled = n.enabled /\ m.slave = n.slave /\ m.sys = n.sys /\ m.conn = n.conn
        BY <2>1 DEF BudType
      <3>3. m.retry = n.retry /\ m.reconnect = n.reconnect /\ m.reconnectLater = n.reconnectLater
        BY <2>1 DEF BudType
      <3> HIDE DEF m
      <3> QED BY <2>1, <3>1, <3>2, <3>3 DEF Sane, SysSound, Attempts
    <2>7. Sane(l) /\ l.enabled = n.enabled /\ l.slave = n.slave
      BY <2>1, <2>2 DEF BudType, Sane, SysSound, Attempts
    <2> HIDE DEF m, l
    <2>8. LET c == EnterAgPairing(m)
          IN Sane(c) /\ c.enabled = m.enabled /\ c.slave = m.slave /\ (~c.slave => c.connectable)
      BY <2>6, EnterAgPairingFacts DEF Good, Keeps
    <2>9. LET c == SetConnectable(l) IN Sane(c) /\ c.enabled = l.enabled /\ c.connectable
      BY <2>7, SetConnectableFacts DEF Good, Keeps
    <2> QED BY <2>1, <2>3, <2>5, <2>6, <2>7, <2>8, <2>9
  <1>3. LET c == BtPowerOff(b) IN Sane(c) /\ c.enabled = b.enabled /\ c.powerOn = 0
    <2> DEFINE c == BtPowerOff(b)
    <2>1. 0 \in 0 .. MaxQueued /\ 0 \in 0 .. MaxQueued + 1
      BY ConnectAssumption
    <2>2. /\ c \in BudType /\ c.retry = b.retry /\ c.reconnect = 0 /\ c.reconnectLater = FALSE
          /\ c.enabled = b.enabled /\ c.powerOn = 0 /\ c.sys = b.sys /\ c.conn = b.conn
      BY <1>1, <2>1 DEF BtPowerOff, CancelReconnect, CancelPowerOn, BudType
    <2>3. Attempts(c) <= Attempts(b) /\ Attempts(c) \in Int /\ Attempts(b) \in Int
      BY <1>1, <2>2, ConnectAssumption DEF Attempts, BudType
    <2> QED BY <2>2, <2>3, ConnectAssumption DEF Sane, SysSound
  <1> QED BY <1>2, <1>3

\* app_conn_handle_wws_role_changed
LEMMA RoleChangedFacts ==
  ASSUME NEW b, Sane(b), NEW m \in BOOLEAN, NEW r \in {"user", "link_loss", "not_found"}
  PROVE  LET c == RoleChanged(b, m, r)
         IN BudOK(c) /\ c.enabled = b.enabled /\ c.powerOn <= b.powerOn
  <1> DEFINE n == [b EXCEPT !.slave = ~m]
  <1>1. /\ n \in BudType /\ Sane(n) /\ n.slave = ~m /\ n.enabled = b.enabled
        /\ n.powerOn = b.powerOn
    BY ZenonT(60) DEF Sane, BudType, SysSound, Attempts
  <1>2. RoleChanged(b, m, r) = IF m THEN ToMaster(n, r) ELSE ToSlave(n)
    BY DEF RoleChanged
  <1> HIDE DEF n
  <1>3. CASE ~m
    <2> DEFINE a == SetVisibility(n, FALSE, FALSE)
               c == [a EXCEPT !.rolePairing = FALSE]
    <2>1. Sane(a) /\ Keeps(n, a)
      BY <1>1, SetVisibilityFacts DEF Sane
    <2> HIDE DEF a
    <2>2. Sane(c) /\ Keeps(a, c)
      BY <2>1, AsideFacts DEF Good
    <2>4. Keeps(n, c)
      BY <1>1, <2>1, <2>2, KeepsTrans DEF Sane
    <2>5. c.slave
      BY <1>1, <1>3, <2>4 DEF Keeps
    <2>3. RoleChanged(b, m, r) = c
      BY <1>2, <1>3 DEF ToSlave, a
    <2> QED BY <1>1, <2>2, <2>3, <2>4, <2>5 DEF BudOK, Reached, Keeps
  <1>4. CASE m
    <2> DEFINE done == [n EXCEPT !.rolePairing = FALSE]
               lost == [n EXCEPT !.disc = "loss"]
               free == [n EXCEPT !.powerOnPairing = FALSE]
    <2>1. /\ Good(n, n) /\ Good(n, done) /\ Good(n, lost) /\ Good(n, free) /\ ~n.slave
          /\ n.sys >= CONNECTED => n.conn = "connected"
      <3>1. Good(n, n) /\ Good(n, lost) /\ ~n.slave
        BY <1>1, <1>4, SetConnectableFacts, RetryFacts DEF Reasons
      <3>2. Good(n, done) /\ Good(n, free)
        BY <1>1, AsideFacts
      <3>3. n.sys >= CONNECTED => n.conn = "connected"
        BY <1>1 DEF Sane, SysSound, BudType, DISABLED, CONNECTED
      <3> QED BY <3>1, <3>2, <3>3
    <2>2. \A a \in {done, free, n} :
            Good(n, EnterAgPairing(a)) /\ EnterAgPairing(a).connectable
      <3>1. ASSUME NEW a, Good(n, a) PROVE Good(n, EnterAgPairing(a)) /\ EnterAgPairing(a).connectable
        <4>1. Sane(a) /\ ~a.slave
          BY <2>1, <3>1 DEF Good, Keeps
        <4> QED BY <1>1, <3>1, <4>1, EnterAgPairingFacts, GoodTrans
      <3> QED BY <2>1, <3>1
    <2>3. \A a : Good(n, a) =>
            Good(n, SetVisibility(a, TRUE, TRUE)) /\ SetVisibility(a, TRUE, TRUE).connectable
      <3>1. ASSUME NEW a, Good(n, a)
            PROVE  Good(n, SetVisibility(a, TRUE, TRUE)) /\ SetVisibility(a, TRUE, TRUE).connectable
        <4>1. /\ Good(a, SetVisibility(a, TRUE, TRUE))
              /\ SetVisibility(a, TRUE, TRUE).connectable
          BY <3>1, SetVisibilityFacts DEF Good, Sane
        <4> QED BY <1>1, <3>1, <4>1, GoodTrans
      <3> QED BY <3>1
    <2>4. \A a \in {n, lost} : Good(n, BackAfter(a)) /\ BackAfter(a).connectable
      <3>1. ASSUME NEW a, Good(n, a) PROVE Good(n, BackAfter(a)) /\ BackAfter(a).connectable
        <4> DEFINE p == [CancelPowerOn(a) EXCEPT !.powerOnLater = TRUE]
        <4>0. a \in BudType /\ Sane(a) /\ 0 \in 0 .. MaxQueued + 1
          BY <3>1, ConnectAssumption DEF Good, Sane
        <4>1. /\ p \in BudType /\ p.retry = a.retry /\ p.reconnect = a.reconnect
              /\ p.reconnectLater = a.reconnectLater /\ p.connectable = a.connectable
              /\ p.enabled = a.enabled /\ p.slave = a.slave /\ p.conn = a.conn
              /\ p.powerOn = 0 /\ p.sys = a.sys
          BY <4>0 DEF CancelPowerOn, BudType
        <4>2. Attempts(p) = Attempts(a) /\ p.powerOn <= a.powerOn
          BY <4>0, <4>1, ConnectAssumption DEF Attempts, BudType
        <4>3. Good(a, p) /\ Sane(p)
          BY <4>0, <4>1, <4>2 DEF Good, Sane, Keeps, SysSound
        <4> HIDE DEF p
        <4>4. Good(p, SetConnectable(p)) /\ SetConnectable(p).connectable
          BY <4>3, SetConnectableFacts
        <4>5. Good(a, SetConnectable(p))
          BY <4>0, <4>3, <4>4, GoodTrans
        <4> DEFINE q == SetConnectable(a)
        <4>6. Good(a, q) /\ q.connectable /\ Sane(q)
          BY <4>0, SetConnectableFacts DEF Good
        <4> HIDE DEF q
        <4>7. Good(q, LinkLoss(q)) /\ LinkLoss(q).connectable
          BY <4>6, RetryFacts DEF Good
        <4>8. Good(a, LinkLoss(q))
          BY <4>0, <4>6, <4>7, GoodTrans
        <4>9. BackAfter(a) \in {SetConnectable(p), LinkLoss(q), SetVisibility(a, TRUE, TRUE)}
          BY DEF BackAfter, p, q
        <4>10. Good(n, SetConnectable(p)) /\ Good(n, LinkLoss(q))
          BY <1>1, <3>1, <4>5, <4>8, GoodTrans
        <4> QED BY <2>3, <3>1, <4>4, <4>7, <4>9, <4>10
      <3> QED BY <2>1, <3>1
    <2>5. \/ RoleChanged(b, m, r) = done /\ n.sys >= CONNECTED
          \/ \E a \in {done, free, n} : RoleChanged(b, m, r) = EnterAgPairing(a)
          \/ RoleChanged(b, m, r) = SetVisibility(n, TRUE, TRUE)
          \/ \E a \in {n, lost} : RoleChanged(b, m, r) = BackAfter(a)
      BY <1>2, <1>4 DEF ToMaster
    <2> HIDE DEF done, free, lost
    <2> DEFINE c == RoleChanged(b, m, r)
    <2> HIDE DEF c
    <2>6. c = done /\ n.sys >= CONNECTED => Good(n, c) /\ c.conn = "connected"
      BY <2>1 DEF Good, Keeps
    <2>7. ~(c = done /\ n.sys >= CONNECTED) => Good(n, c) /\ c.connectable
      BY <2>1, <2>2, <2>3, <2>4, <2>5 DEF c
    <2>8. Good(n, c) /\ (c.connectable \/ c.conn = "connected")
      BY <2>6, <2>7
    <2> QED BY <1>1, <2>8 DEF c, Good, Keeps, BudOK, Reached
  <1> QED BY <1>3, <1>4

\* The event of a change of connection.
LEMMA OnConnFacts ==
  ASSUME NEW b, BudOK(b), NEW s \in {"connecting", "connected", "disconnected"},
         NEW r \in Reasons, s = "disconnected" => r # "none"
  PROVE  LET c == OnConn(b, s, r)
         IN BudOK(c) /\ c.enabled = b.enabled /\ c.powerOn <= b.powerOn
  <1> DEFINE a == [b EXCEPT !.conn = s]
             n == Generate(a)
             k == [n EXCEPT !.pdl = TRUE]
  <1>1. /\ a \in BudType /\ Attempts(a) = Attempts(b) /\ a.conn = s
        /\ a.enabled = b.enabled /\ a.slave = b.slave /\ a.powerOn = b.powerOn
    BY DEF BudOK, Sane, BudType, Attempts
  <1> HIDE DEF a
  <1>2. Sane(n) /\ Keeps(a, n) /\ n.powerOn = b.powerOn
    BY <1>1, GenerateFacts DEF BudOK, Sane
  <1>3. OnConn(b, s, r) = IF s = "disconnected" THEN ConnState(n, FALSE, r)
                         ELSE IF s = "connected" /\ b.conn # "connected" THEN ConnState(k, TRUE, r)
                         ELSE n
    BY DEF OnConn, a
  <1> HIDE DEF n
  <1>4. Sane(k) /\ Keeps(n, k)
    BY <1>2, AsideFacts DEF Good
  <1> HIDE DEF k
  <1>5. n.powerOn \in Int /\ k.powerOn \in Int /\ b.powerOn \in Int
    BY <1>2, <1>4, AsideFacts DEF BudOK
  <1>6. CASE s = "disconnected"
    <2>1. LET c == ConnState(n, FALSE, r)
          IN Sane(c) /\ Keeps(n, c) /\ (~n.slave => c.connectable)
      BY <1>2, <1>6, ConnStateFacts
    <2> QED BY <1>1, <1>2, <1>3, <1>6, <2>1 DEF BudOK, Reached, Keeps
  <1>7. CASE s = "connected" /\ b.conn # "connected"
    <2>1. LET c == ConnState(k, TRUE, r) IN Sane(c) /\ Keeps(k, c)
      BY <1>4, ConnStateFacts
    <2>2. LET c == ConnState(k, TRUE, r) IN Keeps(n, c)
      BY <1>2, <1>4, <2>1, KeepsTrans DEF Sane
    <2>3. Keeps(a, ConnState(k, TRUE, r))
      BY <1>1, <1>2, <2>1, <2>2, KeepsTrans DEF Sane
    <2> QED BY <1>1, <1>3, <1>7, <2>1, <2>3 DEF BudOK, Reached, Keeps
  <1>8. CASE s # "disconnected" /\ ~(s = "connected" /\ b.conn # "connected")
    BY <1>1, <1>2, <1>3, <1>5, <1>8 DEF BudOK, Reached, Keeps
  <1> QED BY <1>6, <1>7, <1>8

\* A handler leaves the bud as an event finds it, on or off as reported.
LEMMA HandledFacts ==
  ASSUME NEW b, BudOK(b), NEW e \in EventType,
         e.id = "ENABLE" => e.on # b.enabled,
         b.enabled \/ b.powerOn <= MaxQueued
  PROVE  LET c == Handled(b, e)
         IN /\ BudOK(c) /\ (c.enabled \/ c.powerOn <= MaxQueued)
            /\ c.enabled = IF e.id = "ENABLE" THEN e.on ELSE b.enabled
  <1>0. b \in BudType /\ Sane(b) /\ b.powerOn \in Int
    BY DEF BudOK, Sane, BudType
  <1> DEFINE c == Handled(b, e)
  <1>A. ASSUME BudOK(c), c.enabled = b.enabled, c.powerOn <= b.powerOn
        PROVE  BudOK(c) /\ (c.enabled \/ c.powerOn <= MaxQueued)
    <2>1. c.powerOn \in Int
      BY <1>A DEF BudOK, Sane, BudType
    <2> QED BY <1>0, <1>A, <2>1, ConnectAssumption
  <1>1. CASE e.id = "ENABLE"
    <2>1. e.on \in BOOLEAN /\ Handled(b, e) = OnEnabled(b, e.on)
      BY <1>1 DEF EventType, Handled
    <2>2. CASE e.on
      <3> DEFINE a == [b EXCEPT !.enabled = TRUE, !.conn = "disconnected"]
                 n == Generate(a)
      <3>1. /\ a \in BudType /\ Attempts(a) = Attempts(b) /\ a.enabled /\ a.powerOn = b.powerOn
        BY <1>0 DEF BudType, Attempts
      <3>2. b.powerOn <= MaxQueued
        BY <1>1, <2>2
      <3> HIDE DEF a
      <3>3. Sane(n) /\ n.enabled = a.enabled /\ n.powerOn <= MaxQueued
        BY <3>1, <3>2, GenerateFacts DEF BudOK, Sane, Keeps
      <3> HIDE DEF n
      <3>4. LET d == BtPowerOn(n)
            IN Sane(d) /\ d.enabled = n.enabled /\ (~d.slave => d.connectable)
        BY <3>3, BtPowerFacts
      <3>5. Handled(b, e) = BtPowerOn(n)
        BY <2>1, <2>2 DEF OnEnabled, n, a
      <3>6. e.on = TRUE /\ a.enabled = TRUE
        BY <2>1, <2>2, <3>1 DEF BudType
      <3> QED BY <1>1, <3>3, <3>4, <3>5, <3>6 DEF BudOK, Reached
    <2>3. CASE ~e.on
      <3> DEFINE a == [b EXCEPT !.enabled = FALSE]
                 n == SetVisibility(a, FALSE, FALSE)
      <3>1. /\ a \in BudType /\ Attempts(a) = Attempts(b) /\ a.enabled = FALSE
        BY <1>0 DEF BudType, Attempts
      <3> HIDE DEF a
      <3>2. Sane(n) /\ n.enabled = FALSE
        BY <3>1, SetVisibilityFacts DEF BudOK, Sane, Keeps
      <3> HIDE DEF n
      <3>3. LET d == BtPowerOff(n) IN Sane(d) /\ d.enabled = FALSE /\ d.powerOn = 0
        BY <3>2, BtPowerFacts
      <3>4. Handled(b, e) = BtPowerOff(n)
        BY <2>1, <2>3 DEF OnEnabled, n, a
      <3>5. e.on = FALSE /\ 0 <= MaxQueued
        BY <2>1, <2>3, ConnectAssumption
      <3> QED BY <1>1, <3>3, <3>4, <3>5 DEF BudOK, Reached
    <2> QED BY <2>1, <2>2, <2>3
  <1>2. CASE e.id = "CONN"
    <2>1. /\ e.state \in {"connecting", "connected", "disconnected"} /\ e.reason \in Reasons
          /\ e.state = "disconnected" => e.reason # "none"
          /\ Handled(b, e) = OnConn(b, e.state, e.reason)
      BY <1>2 DEF EventType, Handled, Reasons
    <2>2. LET d == OnConn(b, e.state, e.reason)
          IN BudOK(d) /\ d.enabled = b.enabled /\ d.powerOn <= b.powerOn
      BY <2>1, OnConnFacts
    <2> QED BY <1>2, <1>A, <2>1, <2>2
  <1>3. CASE e.id = "ROLE"
    <2>1. /\ e.master \in BOOLEAN /\ e.reason \in {"user", "link_loss", "not_found"}
          /\ Handled(b, e) = RoleChanged(b, e.master, e.reason)
      BY <1>3 DEF EventType, Handled
    <2>2. BudOK(c) /\ c.enabled = b.enabled /\ c.powerOn <= b.powerOn
      BY <1>0, <2>1, RoleChangedFacts
    <2> QED BY <1>3, <1>A, <2>2
  <1>4. CASE e.id = "TWS"
    <2>1. e.up \in BOOLEAN /\ Handled(b, e) = [b EXCEPT !.linked = e.up]
      BY <1>4 DEF EventType, Handled
    <2>2. BudOK(c) /\ c.enabled = b.enabled /\ c.powerOn <= b.powerOn
      BY <1>0, <2>1 DEF BudOK, Sane, BudType, SysSound, Attempts, Reached
    <2> QED BY <1>4, <1>A, <2>2
  <1>5. CASE e.id \in {"VISIBILITY", "PAIR_RESULT"}
    <2> DEFINE a == IF e.id = "VISIBILITY" THEN [b EXCEPT !.peerVisible = e.visible]
                                           ELSE [b EXCEPT !.pairing = FALSE]
    <2>1. e.id = "VISIBILITY" => e.visible \in BOOLEAN
      BY DEF EventType
    <2>2. Handled(b, e) = Generate(a)
      BY <1>5 DEF Handled
    <2>3. /\ a \in BudType /\ Attempts(a) = Attempts(b) /\ a.connectable = b.connectable
          /\ a.enabled = b.enabled /\ a.slave = b.slave /\ a.conn = b.conn
          /\ a.powerOn = b.powerOn
      BY <1>0, <2>1 DEF BudType, Attempts
    <2> HIDE DEF a
    <2>4. BudOK(c) /\ c.enabled = b.enabled /\ c.powerOn <= b.powerOn
      BY <1>0, <2>2, <2>3, GenerateFacts DEF BudOK, Sane, Reached, Keeps
    <2> QED BY <1>5, <1>A, <2>4
  <1>6. e.id \in {"ENABLE", "CONN", "ROLE", "TWS", "VISIBILITY", "PAIR_RESULT"}
    BY DEF EventType
  <1> QED BY <1>1, <1>2, <1>3, <1>4, <1>5, <1>6

----------------------------------------------------------------------------
\* A report more at the end, or one heard at the head.
LEMMA AppendAlternates ==
  ASSUME NEW q \in Seq(EventType), NEW e \in EventType, NEW f \in BOOLEAN, NEW l \in BOOLEAN,
         Alternates(q, f, l)
  PROVE  /\ Append(q, e) \in Seq(EventType)
         /\ e.id # "ENABLE" => Alternates(Append(q, e), f, l)
         /\ e.id = "ENABLE" /\ e.on # l => Alternates(Append(q, e), f, e.on)
  <1>1. PICK h \in [0 .. Len(q) -> BOOLEAN] :
          /\ h[0] = f /\ h[Len(q)] = l
          /\ \A i \in 1 .. Len(q) :
               IF q[i].id = "ENABLE" THEN q[i].on # h[i - 1] /\ h[i] = q[i].on
                                     ELSE h[i] = h[i - 1]
    BY DEF Alternates
  <1> DEFINE r == Append(q, e)
             x == IF e.id = "ENABLE" THEN e.on ELSE l
             g == [i \in 0 .. Len(r) |-> IF i = Len(r) THEN x ELSE h[i]]
  <1>2. /\ r \in Seq(EventType) /\ Len(r) = Len(q) + 1 /\ Len(q) \in Nat
        /\ \A i \in 1 .. Len(q) : r[i] = q[i]
        /\ r[Len(r)] = e
    OBVIOUS
  <1> HIDE DEF r
  <1>3. x \in BOOLEAN
    BY DEF EventType
  <1> HIDE DEF x
  <1>4. /\ g \in [0 .. Len(r) -> BOOLEAN] /\ g[0] = f /\ g[Len(r)] = x
        /\ \A i \in 0 .. Len(q) : g[i] = h[i]
    BY <1>1, <1>2, <1>3
  <1> HIDE DEF g
  <1>5. ASSUME e.id # "ENABLE" \/ e.on # l, NEW i \in 1 .. Len(r)
        PROVE  IF r[i].id = "ENABLE" THEN r[i].on # g[i - 1] /\ g[i] = r[i].on
                                     ELSE g[i] = g[i - 1]
    <2>1. CASE i \in 1 .. Len(q)
      <3>1. i \in 0 .. Len(q) /\ i - 1 \in 0 .. Len(q)
        BY <1>2, <2>1
      <3> QED BY <1>1, <1>2, <1>4, <2>1, <3>1
    <2>2. CASE i = Len(r)
      <3>1. i - 1 = Len(q) /\ Len(q) \in 0 .. Len(q)
        BY <1>2, <2>2
      <3>2. g[i - 1] = l /\ g[i] = x /\ r[i] = e
        BY <1>1, <1>2, <1>4, <2>2, <3>1
      <3> QED BY <1>5, <3>2 DEF x
    <2> QED BY <1>2, <2>1, <2>2
  <1>6. e.id # "ENABLE" \/ e.on # l => Alternates(r, f, x)
    BY <1>4, <1>5 DEF Alternates
  <1> QED BY <1>2, <1>6 DEF r, x

\* Taking the first report: what the bud has heard moves with it.
LEMMA TailAlternates ==
  ASSUME NEW q \in Seq(EventType), q # <<>>, NEW f \in BOOLEAN, NEW l \in BOOLEAN,
         Alternates(q, f, l)
  PROVE  LET e == Head(q)
         IN /\ e \in EventType /\ Tail(q) \in Seq(EventType)
            /\ e.id = "ENABLE" => e.on # f
            /\ Alternates(Tail(q), IF e.id = "ENABLE" THEN e.on ELSE f, l)
  <1>1. PICK h \in [0 .. Len(q) -> BOOLEAN] :
          /\ h[0] = f /\ h[Len(q)] = l
          /\ \A i \in 1 .. Len(q) :
               IF q[i].id = "ENABLE" THEN q[i].on # h[i - 1] /\ h[i] = q[i].on
                                     ELSE h[i] = h[i - 1]
    BY DEF Alternates
  <1> DEFINE r == Tail(q)
             e == Head(q)
             g == [i \in 0 .. Len(r) |-> h[i + 1]]
  <1>2. /\ e \in EventType /\ e = q[1] /\ r \in Seq(EventType)
        /\ Len(q) \in Nat \ {0} /\ Len(r) = Len(q) - 1
        /\ \A i \in 1 .. Len(r) : r[i] = q[i + 1]
    OBVIOUS
  <1> HIDE DEF r, e
  <1>3. /\ g \in [0 .. Len(r) -> BOOLEAN]
        /\ \A i \in 0 .. Len(r) : g[i] = h[i + 1]
    <2>1. \A i \in 0 .. Len(r) : i + 1 \in 0 .. Len(q)
      BY <1>2
    <2> QED BY <1>1, <2>1
  <1> HIDE DEF g
  <1>4. /\ e.id = "ENABLE" => e.on # f /\ h[1] = e.on
        /\ e.id # "ENABLE" => h[1] = f
    <2>1. 1 \in 1 .. Len(q) /\ 1 - 1 = 0
      BY <1>2
    <2> QED BY <1>1, <1>2, <2>1
  <1>5. g[0] = (IF e.id = "ENABLE" THEN e.on ELSE f) /\ g[Len(r)] = l
    <2>1. 0 \in 0 .. Len(r) /\ Len(r) \in 0 .. Len(r) /\ Len(r) + 1 = Len(q) /\ 0 + 1 = 1
      BY <1>2
    <2>2. g[0] = h[1] /\ g[Len(r)] = h[Len(q)]
      BY <1>3, <2>1
    <2> QED BY <1>1, <1>4, <2>2
  <1>6. ASSUME NEW i \in 1 .. Len(r)
        PROVE  IF r[i].id = "ENABLE" THEN r[i].on # g[i - 1] /\ g[i] = r[i].on
                                     ELSE g[i] = g[i - 1]
    <2>1. /\ i + 1 \in 1 .. Len(q) /\ (i + 1) - 1 = i /\ (i - 1) + 1 = i
          /\ i \in 0 .. Len(r) /\ i - 1 \in 0 .. Len(r)
      BY <1>2
    <2>2. g[i] = h[i + 1] /\ g[i - 1] = h[i] /\ r[i] = q[i + 1]
      BY <1>2, <1>3, <2>1
    <2> QED BY <1>1, <2>1, <2>2
  <1>7. Alternates(r, IF e.id = "ENABLE" THEN e.on ELSE f, l)
    BY <1>3, <1>5, <1>6 DEF Alternates
  <1> QED BY <1>2, <1>4, <1>7 DEF r, e

\* app_main between two handlers, whatever command the last one sent.
LEMMA BecomesIInv ==
  ASSUME IInv, NEW b, BudOK(b), b.enabled \/ b.powerOn <= MaxQueued,
         NEW q \in Seq(EventType), Alternates(q, b.enabled, stack.on), Becomes(b, q),
         inputs' \in 0 .. MaxInputs, lapsed' \in BOOLEAN
  PROVE  IInv'
  <1>1. stack \in [on : BOOLEAN, phone : {"none", "trying", "up"}] /\ stack.on \in BOOLEAN
    BY DEF IInv, TypeOK
  <1>2. b \in BudType /\ b.enabled \in BOOLEAN
    BY DEF BudOK, Sane, BudType
  <1>3. /\ bud' \in BudType /\ Attempts(bud') = Attempts(b) /\ bud'.connectable = b.connectable
        /\ bud'.enabled = b.enabled /\ bud'.slave = b.slave /\ bud'.conn = b.conn
        /\ bud'.powerOn = b.powerOn /\ bud'.sys = b.sys
    BY <1>2 DEF Becomes, BudType, Attempts
  <1>4. BudOK(bud') /\ (bud'.enabled \/ bud'.powerOn <= MaxQueued)
    BY <1>3 DEF BudOK, Sane, SysSound, Reached
  <1>5. /\ stack' \in [on : BOOLEAN, phone : {"none", "trying", "up"}] /\ stack'.on = stack.on
        /\ evts' = q \/ \E e \in EventType : e.id = "CONN" /\ evts' = Append(q, e)
    <2>1. /\ Conn("connecting", "none") \in EventType /\ Conn("connecting", "none").id = "CONN"
          /\ Conn("disconnected", "local") \in EventType /\ Conn("disconnected", "local").id = "CONN"
      BY DEF Conn, EventType, Reasons
    <2>2. CASE b.cmd = "connect"
      BY <1>1, <2>1, <2>2 DEF Becomes
    <2>3. CASE b.cmd = "disconnect" /\ stack.phone # "none"
      BY <1>1, <2>1, <2>3 DEF Becomes
    <2>4. CASE b.cmd # "connect" /\ ~(b.cmd = "disconnect" /\ stack.phone # "none")
      BY <1>1, <2>4 DEF Becomes
    <2> QED BY <2>2, <2>3, <2>4
  <1>6. evts' \in Seq(EventType) /\ Alternates(evts', b.enabled, stack.on)
    BY <1>1, <1>2, <1>5, AppendAlternates
  <1> QED BY <1>3, <1>4, <1>5, <1>6 DEF IInv, TypeOK, BudOK, Sane, Reached, Attempts, SysSound

\* The types in the form the steps below need them.
LEMMA TypeFacts ==
  ASSUME IInv
  PROVE  /\ bud \in BudType /\ BudOK(bud) /\ Sane(bud) /\ Reached(bud)
         /\ bud.enabled \in BOOLEAN /\ bud.powerOn \in 0 .. MaxQueued + 1
         /\ stack \in [on : BOOLEAN, phone : {"none", "trying", "up"}] /\ stack.on \in BOOLEAN
         /\ evts \in Seq(EventType) /\ inputs \in 0 .. MaxInputs /\ lapsed \in BOOLEAN
         /\ inputs < MaxInputs => inputs + 1 \in 0 .. MaxInputs
         /\ Alternates(evts, bud.enabled, stack.on)
         /\ bud.enabled \/ bud.powerOn <= MaxQueued
  <1>1. /\ bud \in BudType /\ BudOK(bud) /\ Sane(bud) /\ Reached(bud)
        /\ stack \in [on : BOOLEAN, phone : {"none", "trying", "up"}]
        /\ evts \in Seq(EventType) /\ inputs \in 0 .. MaxInputs /\ lapsed \in BOOLEAN
        /\ Alternates(evts, bud.enabled, stack.on)
        /\ bud.enabled \/ bud.powerOn <= MaxQueued
    BY DEF IInv, TypeOK, BudOK
  <1>2. bud.enabled \in BOOLEAN /\ bud.powerOn \in 0 .. MaxQueued + 1
    BY <1>1 DEF BudType
  <1>3. inputs < MaxInputs => inputs + 1 \in 0 .. MaxInputs
    BY <1>1, ConnectAssumption
  <1> QED BY <1>1, <1>2, <1>3

\* A handler that leaves the bud fit to be seen and on or off as it was.
LEMMA HandlerIInv ==
  ASSUME IInv, NEW b, Sane(b), Keeps(bud, b), bud.connectable => b.connectable,
         Becomes(b, evts), inputs' \in 0 .. MaxInputs, lapsed' \in BOOLEAN
  PROVE  IInv'
  <1>1. b.powerOn \in Int /\ bud.powerOn \in 0 .. MaxQueued + 1
    BY TypeFacts, AsideFacts
  <1>2. BudOK(b) /\ b.enabled = bud.enabled
    BY TypeFacts DEF BudOK, Reached, Keeps
  <1>3. b.enabled \/ b.powerOn <= MaxQueued
    BY <1>1, <1>2, TypeFacts, ConnectAssumption DEF Keeps
  <1> QED BY <1>2, <1>3, TypeFacts, BecomesIInv

\* The stack reports something that leaves it on or off.
LEMMA ReportIInv ==
  ASSUME IInv, bud' = bud, stack' \in [on : BOOLEAN, phone : {"none", "trying", "up"}],
         evts' \in Seq(EventType), Alternates(evts', bud.enabled, stack'.on),
         inputs' \in 0 .. MaxInputs, lapsed' \in BOOLEAN
  PROVE  IInv'
  BY TypeFacts DEF IInv, TypeOK, BudOK, Sane, Reached, Attempts, SysSound

\* One report, or two.
LEMMA ReportsFacts ==
  ASSUME IInv
  PROVE  /\ \A e \in EventType : Reports(<<e>>) => evts' = Append(evts, e)
         /\ \A e, d \in EventType : Reports(<<e, d>>) => evts' = Append(Append(evts, e), d)
  <1>1. evts \in Seq(EventType)
    BY TypeFacts
  <1>2. \A e \in EventType : evts \o <<e>> = Append(evts, e)
    BY <1>1
  <1>3. \A e, d \in EventType : evts \o <<e, d>> = Append(Append(evts, e), d)
    <2> SUFFICES ASSUME NEW e \in EventType, NEW d \in EventType
                 PROVE  evts \o <<e, d>> = Append(Append(evts, e), d)
      OBVIOUS
    <2>1. <<e, d>> \in Seq(EventType)
      OBVIOUS
    <2> QED BY <1>1, <2>1
  <1> QED BY <1>2, <1>3 DEF Reports

\* app_main takes an event.
LEMMA EventIInv == ASSUME IInv, Event PROVE IInv'
  <1> DEFINE e == Head(evts)
             b == Handled(bud, e)
             q == Tail(evts)
  <1>1. /\ evts # <<>> /\ Becomes(b, q) /\ inputs' \in 0 .. MaxInputs /\ lapsed' \in BOOLEAN
    BY TypeFacts DEF Event
  <1>2. /\ e \in EventType /\ q \in Seq(EventType)
        /\ e.id = "ENABLE" => e.on # bud.enabled
        /\ Alternates(q, IF e.id = "ENABLE" THEN e.on ELSE bud.enabled, stack.on)
    BY <1>1, TypeFacts, TailAlternates
  <1>3. /\ BudOK(b) /\ (b.enabled \/ b.powerOn <= MaxQueued)
        /\ b.enabled = IF e.id = "ENABLE" THEN e.on ELSE bud.enabled
    BY <1>2, TypeFacts, HandledFacts
  <1> HIDE DEF e, b, q
  <1> QED BY <1>1, <1>2, <1>3, BecomesIInv

\* app_main takes one of its own messages, or a timer posts one.
LEMMA MsgIInv ==
  ASSUME IInv, PowerOnMsg \/ ReconnectMsg \/ PowerOnTimer \/ ReconnectTimer
  PROVE  IInv'
  <1>1. CASE PowerOnMsg
    <2> DEFINE c == OnPowerOnConnect([bud EXCEPT !.powerOn = @ - 1])
    <2>1. /\ Sane(c) /\ Keeps(bud, c) /\ (bud.connectable => c.connectable)
      BY <1>1, TypeFacts, ConnMsgFacts DEF PowerOnMsg
    <2>2. Becomes(c, evts) /\ inputs' = inputs
      BY <1>1 DEF PowerOnMsg
    <2>3. lapsed' \in BOOLEAN
      BY <1>1, TypeFacts, Zenon DEF PowerOnMsg, Lapse
    <2> HIDE DEF c
    <2> QED BY <2>1, <2>2, <2>3, TypeFacts, HandlerIInv
  <1>2. CASE ReconnectMsg
    <2> DEFINE c == OnReconnect([bud EXCEPT !.reconnect = @ - 1])
    <2>1. /\ Sane(c) /\ Keeps(bud, c) /\ (bud.connectable => c.connectable)
      BY <1>2, TypeFacts, ConnMsgFacts DEF ReconnectMsg, Good
    <2>2. Becomes(c, evts) /\ inputs' = inputs
      BY <1>2 DEF ReconnectMsg
    <2>3. lapsed' \in BOOLEAN
      BY <1>2, TypeFacts, Zenon DEF ReconnectMsg, Lapse
    <2> HIDE DEF c
    <2> QED BY <2>1, <2>2, <2>3, TypeFacts, HandlerIInv
  <1>3. CASE PowerOnTimer
    <2>1. bud.powerOn + 1 \in 0 .. MaxQueued + 1 /\ bud.powerOn + 1 <= MaxQueued
      BY <1>3, TypeFacts, ConnectAssumption DEF PowerOnTimer
    <2>2. UNCHANGED <<stack, evts, inputs, lapsed>>
      BY <1>3 DEF PowerOnTimer
    <2>3. /\ bud' \in BudType /\ Attempts(bud') = Attempts(bud)
          /\ bud'.connectable = bud.connectable
          /\ bud'.enabled = bud.enabled /\ bud'.slave = bud.slave /\ bud'.conn = bud.conn
          /\ bud'.powerOn = bud.powerOn + 1 /\ bud'.sys = bud.sys
      BY <1>3, <2>1, TypeFacts DEF PowerOnTimer, BudType, Attempts
    <2> QED BY <2>1, <2>2, <2>3, TypeFacts DEF IInv, TypeOK, BudOK, Sane, Reached, SysSound, Attempts
  <1>4. CASE ReconnectTimer
    <2>1. bud.reconnect + 1 \in 0 .. MaxQueued /\ bud.reconnectLater
      BY <1>4, TypeFacts, ConnectAssumption DEF ReconnectTimer, BudType
    <2>2. UNCHANGED <<stack, evts, inputs, lapsed>>
      BY <1>4 DEF ReconnectTimer
    <2>3. /\ bud' \in BudType /\ bud'.retry = bud.retry /\ bud'.reconnect = bud.reconnect + 1
          /\ bud'.reconnectLater = FALSE
          /\ bud'.connectable = bud.connectable
          /\ bud'.enabled = bud.enabled /\ bud'.slave = bud.slave /\ bud'.conn = bud.conn
          /\ bud'.powerOn = bud.powerOn /\ bud'.sys = bud.sys
      BY <1>4, <2>1, TypeFacts DEF ReconnectTimer, BudType
    <2>4. Attempts(bud') = Attempts(bud)
      BY <2>1, <2>3, TypeFacts, ConnectAssumption DEF Attempts, BudType
    <2> QED BY <2>2, <2>3, <2>4, TypeFacts DEF IInv, TypeOK, BudOK, Sane, Reached, SysSound, Attempts
  <1> QED BY <1>1, <1>2, <1>3, <1>4

\* The user, and the charging box.
LEMMA UserIInv ==
  ASSUME IInv, UserPairing \/ UserConnect \/ UserClear \/ UserWwsPair \/ BoxPairing
  PROVE  IInv'
  <1>1. inputs' \in 0 .. MaxInputs /\ lapsed' \in BOOLEAN
    BY TypeFacts DEF UserPairing, UserConnect, UserClear, UserWwsPair, BoxPairing, Input
  <1>2. CASE UserPairing
    <2> DEFINE c == IF bud.slave THEN [bud EXCEPT !.rolePairing = TRUE] ELSE EnterAgPairing(bud)
    <2>1. Good(bud, c) /\ Becomes(c, evts)
      BY <1>2, TypeFacts, AsideFacts, EnterAgPairingFacts DEF UserPairing
    <2> HIDE DEF c
    <2> QED BY <1>1, <2>1, HandlerIInv DEF Good
  <1>3. CASE UserConnect
    <2> DEFINE u == [bud EXCEPT !.why = "user"]
               h == HideFromPhones(u)
               c == ConnectLast(h)
    <2>1. Becomes(c, evts)
      BY <1>3 DEF UserConnect
    <2>2. /\ u \in BudType /\ Attempts(u) = Attempts(bud) /\ u.connectable = bud.connectable
          /\ u.enabled = bud.enabled /\ u.slave = bud.slave /\ u.conn = bud.conn
          /\ u.powerOn = bud.powerOn /\ u.sys = bud.sys
      BY TypeFacts DEF BudType, Attempts
    <2> HIDE DEF u
    <2>3. Good(bud, u)
      BY <2>2, TypeFacts, SetConnectableFacts DEF Good, Sane, Keeps, SysSound
    <2>4. Good(u, h)
      BY <2>3, SetConnectableFacts DEF Good
    <2> HIDE DEF h
    <2>5. Good(h, c)
      BY <2>4, ConnectLastFacts DEF Good
    <2> HIDE DEF c
    <2>6. Good(bud, c)
      BY <2>3, <2>4, <2>5, TypeFacts, GoodTrans
    <2> QED BY <1>1, <2>1, <2>6, HandlerIInv DEF Good
  <1>4. CASE UserClear
    <2> DEFINE u == [bud EXCEPT !.pdl = FALSE]
               c == PairingIfMaster(u)
    <2>1. Good(bud, u) /\ Becomes(c, evts)
      BY <1>4, TypeFacts, AsideFacts DEF UserClear
    <2> HIDE DEF u
    <2>2. Good(u, c)
      BY <2>1, EnterAgPairingFacts DEF Good
    <2> HIDE DEF c
    <2>3. Good(bud, c)
      BY <2>1, <2>2, TypeFacts, GoodTrans
    <2> QED BY <1>1, <2>1, <2>3, HandlerIInv DEF Good
  <1>5. CASE UserWwsPair
    <2> DEFINE u == [bud EXCEPT !.pairing = TRUE]
    <2>1. bud' = Generate(u) /\ UNCHANGED <<stack, evts>>
      BY <1>5 DEF UserWwsPair
    <2>2. /\ u \in BudType /\ Attempts(u) = Attempts(bud) /\ u.connectable = bud.connectable
          /\ u.enabled = bud.enabled /\ u.slave = bud.slave /\ u.conn = bud.conn
          /\ u.powerOn = bud.powerOn /\ u.sys = bud.sys
      BY TypeFacts DEF BudType, Attempts
    <2> HIDE DEF u
    <2>3. /\ bud' \in BudType /\ Attempts(bud') = Attempts(bud)
          /\ bud'.connectable = bud.connectable /\ SysSound(bud')
          /\ bud'.enabled = bud.enabled /\ bud'.slave = bud.slave /\ bud'.conn = bud.conn
          /\ bud'.powerOn = bud.powerOn
      BY <2>1, <2>2, GenerateFacts DEF Keeps
    <2> QED BY <1>1, <2>1, <2>3, TypeFacts DEF IInv, TypeOK, BudOK, Sane, Reached, SysSound, Attempts
  <1>6. CASE BoxPairing
    <2>1. bud' = [bud EXCEPT !.powerOnPairing = TRUE] /\ UNCHANGED <<stack, evts>>
      BY <1>6 DEF BoxPairing
    <2>2. /\ bud' \in BudType /\ Attempts(bud') = Attempts(bud)
          /\ bud'.connectable = bud.connectable /\ bud'.sys = bud.sys
          /\ bud'.enabled = bud.enabled /\ bud'.slave = bud.slave /\ bud'.conn = bud.conn
          /\ bud'.powerOn = bud.powerOn
      BY <2>1, TypeFacts DEF BudType, Attempts
    <2> QED BY <1>1, <2>1, <2>2, TypeFacts DEF IInv, TypeOK, BudOK, Sane, Reached, SysSound, Attempts
  <1> QED BY <1>2, <1>3, <1>4, <1>5, <1>6

\* The stack, the phone and the peer.
LEMMA StackIInv ==
  ASSUME IInv,
         \/ WwsPaired \/ Enable \/ Disable \/ PhoneCalls \/ Succeeds \/ TimesOut
         \/ ComesToNothing \/ LosesPhone \/ RoleChanges \/ Meets
  PROVE  IInv'
  <1>1. inputs' \in 0 .. MaxInputs /\ lapsed' \in BOOLEAN /\ bud' = bud
    BY TypeFacts DEF WwsPaired, Enable, Disable, PhoneCalls, Succeeds, TimesOut, ComesToNothing,
                     LosesPhone, RoleChanges, Meets, Input
  <1>2. ASSUME NEW e \in EventType, e.id # "ENABLE", Reports(<<e>>),
               stack' \in [on : BOOLEAN, phone : {"none", "trying", "up"}], stack'.on = stack.on
        PROVE  IInv'
    <2>1. evts' = Append(evts, e)
      BY <1>2, ReportsFacts
    <2>2. evts' \in Seq(EventType) /\ Alternates(evts', bud.enabled, stack'.on)
      BY <1>2, <2>1, TypeFacts, AppendAlternates
    <2> QED BY <1>1, <1>2, <2>2, ReportIInv
  <1>3. /\ \A r \in Reasons \ {"none"} : Conn("disconnected", r) \in EventType
        /\ \A s \in {"connecting", "connected"} : Conn(s, "none") \in EventType
        /\ \A s, r : Conn(s, r).id = "CONN"
    BY DEF Conn, EventType
  <1>4. /\ stack' = stack => /\ stack' \in [on : BOOLEAN, phone : {"none", "trying", "up"}]
                             /\ stack'.on = stack.on
        /\ \A p \in {"none", "trying", "up"} : stack' = [stack EXCEPT !.phone = p] =>
             /\ stack' \in [on : BOOLEAN, phone : {"none", "trying", "up"}]
             /\ stack'.on = stack.on
    BY TypeFacts
  <1>5. CASE WwsPaired
    <2>1. [id |-> "PAIR_RESULT"] \in EventType
      BY DEF EventType
    <2> QED BY <1>2, <1>4, <1>5, <2>1 DEF WwsPaired
  <1>6. CASE Enable
    <2> DEFINE e == [id |-> "ENABLE", on |-> TRUE]
    <2>1. e \in EventType /\ e.id = "ENABLE" /\ e.on = TRUE /\ stack.on = FALSE
      BY <1>6, TypeFacts DEF EventType, Enable
    <2>2. evts' = Append(evts, e) /\ stack' = [stack EXCEPT !.on = TRUE]
      BY <1>6, <2>1, ReportsFacts DEF Enable
    <2>3. stack' \in [on : BOOLEAN, phone : {"none", "trying", "up"}] /\ stack'.on = TRUE
      BY <2>2, TypeFacts
    <2> HIDE DEF e
    <2>4. evts' \in Seq(EventType) /\ Alternates(evts', bud.enabled, stack'.on)
      BY <2>1, <2>2, <2>3, TypeFacts, AppendAlternates
    <2> QED BY <1>1, <2>3, <2>4, ReportIInv
  <1>7. CASE Disable
    <2> DEFINE e == [id |-> "ENABLE", on |-> FALSE]
               c == Conn("disconnected", "local")
    <2>1. /\ e \in EventType /\ e.id = "ENABLE" /\ e.on = FALSE /\ stack.on = TRUE
          /\ c \in EventType /\ c.id = "CONN"
      BY <1>3, <1>7, TypeFacts DEF EventType, Disable, Reasons
    <2>2. /\ evts' \in {Append(evts, e), Append(Append(evts, c), e)}
          /\ stack' = [stack EXCEPT !.on = FALSE, !.phone = "none"]
      BY <1>7, <2>1, ReportsFacts DEF Disable
    <2>3. stack' \in [on : BOOLEAN, phone : {"none", "trying", "up"}] /\ stack'.on = FALSE
      BY <2>2, TypeFacts
    <2> HIDE DEF e, c
    <2>4. /\ Append(evts, c) \in Seq(EventType)
          /\ Alternates(Append(evts, c), bud.enabled, stack.on)
      BY <2>1, TypeFacts, AppendAlternates
    <2>5. ASSUME NEW q \in Seq(EventType), Alternates(q, bud.enabled, stack.on)
          PROVE  Append(q, e) \in Seq(EventType) /\ Alternates(Append(q, e), bud.enabled, FALSE)
      <3>1. e \in EventType /\ e.id = "ENABLE" /\ e.on # stack.on /\ e.on = FALSE
        BY <2>1
      <3>2. Alternates(Append(q, e), bud.enabled, e.on)
        BY <2>5, <3>1, TypeFacts, AppendAlternates
      <3>3. Append(q, e) \in Seq(EventType)
        BY <2>5, <3>1
      <3>4. Alternates(Append(q, e), bud.enabled, FALSE)
        BY <3>1, <3>2, Zenon
      <3> QED BY <3>3, <3>4
    <2>6. /\ Append(evts, e) \in Seq(EventType) /\ Append(Append(evts, c), e) \in Seq(EventType)
          /\ Alternates(Append(evts, e), bud.enabled, FALSE)
          /\ Alternates(Append(Append(evts, c), e), bud.enabled, FALSE)
      BY <2>4, <2>5, TypeFacts
    <2>7. evts' \in Seq(EventType) /\ Alternates(evts', bud.enabled, stack'.on)
      BY <2>2, <2>3, <2>6
    <2> QED BY <1>1, <2>3, <2>7, ReportIInv
  <1>8. CASE PhoneCalls \/ Succeeds \/ TimesOut \/ ComesToNothing \/ LosesPhone
    <2>1. \E e : /\ e \in {Conn("connecting", "none"), Conn("connected", "none")}
                         \cup {Conn("disconnected", r) : r \in Reasons \ {"none"}}
                 /\ Reports(<<e>>)
      BY <1>8 DEF PhoneCalls, Succeeds, TimesOut, ComesToNothing, LosesPhone, Reasons
    <2>2. \E p \in {"none", "trying", "up"} : stack' = [stack EXCEPT !.phone = p]
      BY <1>8 DEF PhoneCalls, Succeeds, TimesOut, ComesToNothing, LosesPhone
    <2> QED BY <1>2, <1>3, <1>4, <2>1, <2>2
  <1>9. CASE RoleChanges
    <2>1. PICK toMaster \in BOOLEAN, r \in {"user", "link_loss", "not_found"} :
            LET role == [id |-> "ROLE", master |-> toMaster, reason |-> r]
            IN \/ Reports(<<role>>) /\ UNCHANGED stack
               \/ /\ Reports(<<Conn("disconnected", "switched"), role>>)
                  /\ stack' = [stack EXCEPT !.phone = "none"]
      BY <1>9 DEF RoleChanges
    <2> DEFINE role == [id |-> "ROLE", master |-> toMaster, reason |-> r]
               c == Conn("disconnected", "switched")
    <2>2. role \in EventType /\ role.id = "ROLE" /\ c \in EventType /\ c.id = "CONN"
      BY <1>3 DEF EventType, Reasons
    <2>3. \/ Reports(<<role>>) /\ UNCHANGED stack
          \/ Reports(<<c, role>>) /\ stack' = [stack EXCEPT !.phone = "none"]
      BY <2>1
    <2> HIDE DEF role, c
    <2>4. CASE Reports(<<role>>) /\ UNCHANGED stack
      BY <1>2, <1>4, <2>2, <2>4
    <2>5. CASE Reports(<<c, role>>) /\ stack' = [stack EXCEPT !.phone = "none"]
      <3>1. evts' = Append(Append(evts, c), role)
        BY <2>2, <2>5, ReportsFacts
      <3>2. /\ Append(evts, c) \in Seq(EventType)
            /\ Alternates(Append(evts, c), bud.enabled, stack.on)
        BY <2>2, TypeFacts, AppendAlternates
      <3>3. evts' \in Seq(EventType) /\ Alternates(evts', bud.enabled, stack.on)
        BY <2>2, <3>1, <3>2, TypeFacts, AppendAlternates
      <3> QED BY <1>1, <1>4, <2>5, <3>3, ReportIInv
    <2> QED BY <2>3, <2>4, <2>5
  <1>10. CASE Meets
    <2>1. \E e \in {[id |-> "TWS", up |-> u] : u \in BOOLEAN}
                   \cup {[id |-> "VISIBILITY", visible |-> v] : v \in BOOLEAN} :
             Reports(<<e>>)
      BY <1>10 DEF Meets
    <2>2. \A e \in {[id |-> "TWS", up |-> u] : u \in BOOLEAN}
                   \cup {[id |-> "VISIBILITY", visible |-> v] : v \in BOOLEAN} :
            e \in EventType /\ e.id # "ENABLE"
      BY DEF EventType
    <2>3. stack' = stack
      BY <1>10 DEF Meets
    <2> QED BY <1>2, <1>4, <2>1, <2>2, <2>3
  <1> QED BY <1>5, <1>6, <1>7, <1>8, <1>9, <1>10

\* IInv is inductive.
LEMMA NextIInv == ASSUME IInv, [Next]_vars PROVE IInv'
  <1>1. CASE UNCHANGED vars
    BY <1>1 DEF vars, IInv, TypeOK, BudOK, Sane, Reached, Attempts, SysSound
  <1> QED BY <1>1, EventIInv, MsgIInv, UserIInv, StackIInv DEF Next

\* The invariant holds at power on.
LEMMA InitIInv == Init => IInv
  <1> SUFFICES ASSUME Init PROVE IInv
    OBVIOUS
  <1> DEFINE e == [id |-> "ENABLE", on |-> TRUE]
  <1>1. /\ 0 \in 0 .. Retries + MaxQueued + 1 /\ 0 \in 0 .. MaxQueued
        /\ 0 \in 0 .. MaxQueued + 1 /\ 0 \in 0 .. MaxInputs
        /\ 0 + 0 + 0 <= Retries + MaxQueued + 1 /\ 0 <= MaxQueued
    BY ConnectAssumption
  <1>2. /\ bud \in BudType /\ bud.retry = 0 /\ bud.reconnect = 0 /\ bud.reconnectLater = FALSE
        /\ bud.enabled = FALSE /\ bud.powerOn = 0 /\ bud.sys = DISABLED
    BY <1>1 DEF Init, BudType, DISABLED, CONNECTED, Reasons
  <1>3. BudOK(bud) /\ bud.powerOn <= MaxQueued
    BY <1>1, <1>2 DEF BudOK, Sane, SysSound, Attempts, Reached, DISABLED, CONNECTED
  <1>4. Alternates(<<>>, FALSE, FALSE)
    <2> DEFINE h == [i \in 0 .. 0 |-> FALSE]
    <2>1. h \in [0 .. Len(<<>>) -> BOOLEAN] /\ h[0] = FALSE /\ h[Len(<<>>)] = FALSE
          /\ 1 .. Len(<<>>) = {}
      OBVIOUS
    <2> HIDE DEF h
    <2> QED BY <2>1 DEF Alternates
  <1>5. e \in EventType /\ e.id = "ENABLE" /\ e.on = TRUE
    BY DEF EventType
  <1>6. Append(<<>>, e) \in Seq(EventType) /\ Alternates(Append(<<>>, e), FALSE, TRUE)
    <2>1. <<>> \in Seq(EventType)
      OBVIOUS
    <2> HIDE DEF e
    <2>2. e.on \in BOOLEAN /\ e.on # FALSE
      BY <1>5
    <2> QED BY <1>4, <1>5, <2>1, <2>2, AppendAlternates
  <1>7. evts = Append(<<>>, e)
    BY DEF Init
  <1>8. /\ stack \in [on : BOOLEAN, phone : {"none", "trying", "up"}] /\ stack.on = TRUE
        /\ inputs \in 0 .. MaxInputs /\ lapsed \in BOOLEAN
    BY <1>1 DEF Init
  <1> HIDE DEF e
  <1> QED BY <1>2, <1>3, <1>6, <1>7, <1>8 DEF IInv, TypeOK

\* The inductive invariant of app_conn.c and the half of app_bt.c it drives.
THEOREM IInvInvariant == Spec => []IInv
  BY InitIInv, NextIInv, PTL DEF Spec

\* Every variable has its type: in particular retry_count stays below its 256,
\* whatever attempts are counted, not counted, queued and delayed.
THEOREM TypeCorrect == Spec => []TypeOK
  <1>1. IInv => TypeOK
    BY DEF IInv
  <1> QED BY <1>1, IInvInvariant, PTL

\* A master that is on and has no phone can be reached by one, whatever it went
\* through: changes of role, losses, retries, pairing, in any order of events.
THEOREM MasterReachable == Spec => []Reachable
  <1>1. IInv => Reachable
    BY DEF IInv, BudOK, Reached, Reachable
  <1> QED BY <1>1, IInvInvariant, PTL
=============================================================================
