--------------------------------- MODULE Dfs ---------------------------------
(***************************************************************************)
(* lib/dfs/src/callee/dtop/dfs.c: objects (streams, links, an update) hold *)
(* clocks, some for a limited time; the cores run at the lowest mode that  *)
(* serves all that is held.                                                *)
(*                                                                         *)
(* Four actors.  The fast share task takes requests one at a time, under a *)
(* mutex; work says where it stands.  The timer daemon outranks it and     *)
(* runs dfs_timeout_handler between any two of its steps, each of which is *)
(* a critical section or a call.  Some task writes flash: a clock must not *)
(* change while the flash programs or erases (PE), so that a change waits  *)
(* in pending_mode for the driver to call back.  The power manager puts    *)
(* the cores to sleep, after which they run at the lowest mode.            *)
(*                                                                         *)
(* An operator X_Y that stands before X is X with the bug Y.               *)
(***************************************************************************)
EXTENDS Integers, SequencesExt

CONSTANTS
  Objs,        \* the objects used, of those in Need
  Timeouts,    \* time-outs asked for; 0 is none
  MaxTimeout,  \* DFS_TIMEOUT_MS_MAX, or the longest of them
  MaxInputs,   \* bound: requests, flash operations and sleeps
  None

VARIABLES
  held,        \* obj_mask of the groups
  list,        \* timeout_list
  timeout_obj, timer,        \* timer: when it expires, or None
  curr_mode, pending_mode,   \* IOT_CLOCK_MODE_MAX is None
  clock,       \* iot_clock_state
  queue, work, \* the share task
  flash, pe_cb,              \* the flash driver and flash_pe_cb # NULL
  ready,       \* status
  inputs,
  stale, raced \* history: a pending mode was left behind; a hold was renewed
               \* after the daemon had decided to end it

holds == <<held, list, timeout_obj>>
modes == <<curr_mode, pending_mode, clock>>
driver == <<flash, pe_cb>>
vars == <<holds, timer, modes, queue, work, driver, ready, inputs, stale, raced>>

-----------------------------------------------------------------------------
(* Clocks: a mode is a pair, the clock of this core and Bluetooth's, and    *)
(* the one of the DSP (s_dfs_..._table with the modes they name).           *)

Need == [init |-> <<32, 32>>,  \* DFS_OBJ_SHARED_ATLEAST_32_32_32M
         tone |-> <<32, 32>>, voice |-> <<32, 64>>, ota |-> <<64, 64>>,
         dsp80 |-> <<16, 80>>, \* DFS_OBJ_SHARED_ATLEAST_16_16_80M
         fixed |-> <<16, 16>>] \* DFS_OBJ_SHARED_FIXED_16_16_16M
Fixed == {"fixed"}

\* The modes of iot_clock.h that iot_clock.c supports.
Modes == {<<16, 16>>, <<32, 32>>, <<64, 64>>, <<80, 80>>}
           \cup {<<16, d>> : d \in {64, 80, 128, 160}}
           \cup {<<32, d>> : d \in {64, 128, 160}} \cup {<<64, 128>>, <<80, 160>>}
Lowest == <<16, 16>>

Highest(objs) ==
  [i \in 1 .. 2 |-> Max({16} \cup {Need[o][i] : o \in objs})]

\* What the objects ask for: a fixed one overrides the others.
Demand(objs) == Highest(IF objs \cap Fixed # {} THEN objs \cap Fixed ELSE objs)

-----------------------------------------------------------------------------
(* Time.  An end, and the expiry of the timer, is the time left until then, *)
(* 0 when it is past: dfs.c compares differences only, and no time-out is   *)
(* longer than half the range of the clock (DFS_TIMEOUT_MS_MAX).            *)
(* The margin of 30 ms, and the shortest period of 5 ms, are below a tick.  *)

Times == 0 .. MaxTimeout

ASSUME DfsAssumption ==
  /\ Objs \subseteq DOMAIN Need /\ "init" \in Objs
  /\ MaxTimeout \in Nat /\ Timeouts \subseteq Times /\ MaxInputs \in Nat
  /\ None \notin Objs /\ None \notin Times /\ None \notin Modes

Requests == [act : {"START"}, obj : Objs, timeout : Timeouts]
              \cup [act : {"STOP"}, obj : Objs, auto : BOOLEAN] \cup {[act |-> "RESTORE"]}

TypeOK ==
  /\ held \subseteq Objs
  /\ list \in Seq([obj : held, left : Times])
  /\ \A i, j \in DOMAIN list : list[i].obj = list[j].obj => i = j
  /\ timeout_obj \in Objs \cup {None} /\ timer \in Times \cup {None}
  /\ curr_mode \in Modes /\ pending_mode \in Modes \cup {None} /\ clock \in Modes
  /\ queue \in Seq(Requests)
  /\ work \in [at : {"idle", "restart", "timer", "look", "check", "set", "restore"},
              force : BOOLEAN, more : BOOLEAN, period : Times \cup {None}]
  /\ flash \in {"idle", "pe", "after", "call"} /\ {pe_cb, ready, stale} \subseteq BOOLEAN
  /\ inputs \in 0 .. MaxInputs /\ raced \subseteq Objs

-----------------------------------------------------------------------------
(* The time-out list, in the order of the ends when an item was added.      *)

InList(o) == \E i \in DOMAIN list : list[i].obj = o

\* dfs_timeout_add: before the first item that ends with it or later, else last.
Places(t) == {at \in 1 .. Len(list) + 1 :
  /\ \A i \in 1 .. at - 1 : list[i].left < t
  /\ at <= Len(list) => list[at].left >= t}
Added(o, t) == {InsertAt(list, at, [obj |-> o, left |-> t]) : at \in Places(t)}

Deleted(o) ==
  IF InList(o) THEN RemoveAt(list, CHOOSE i \in DOMAIN list : list[i].obj = o) ELSE list

\* dfs_timeout_modify: the later end counts; 0 is for ever.
Modified(o, t) ==
  IF t = 0 THEN Deleted(o)
  ELSE [i \in DOMAIN list |->
          IF list[i].obj = o /\ list[i].left < t THEN [list[i] EXCEPT !.left = t] ELSE list[i]]

\* The timer's request to stop o is on its way.
Stopping(o) == \E i \in DOMAIN queue :
  queue[i].act = "STOP" /\ queue[i].obj = o /\ queue[i].auto

-----------------------------------------------------------------------------
(* The share task: dfs_share_task_handler and dfs_request_process.          *)

Idle == [at |-> "idle", force |-> FALSE, more |-> FALSE, period |-> None]
Locked == work.at \notin {"idle", "restore"}   \* it has the mutex

\* Whether the mode is to be computed: an object under a fixed one has to wait.
Counts(o, objs) == o \in Fixed \/ objs \cap Fixed = {}

Start_AlwaysAdds(o, t) ==
  /\ IF o \in held
       THEN /\ list' \in IF t = 0 THEN {Deleted(o)} ELSE Added(o, t)
            /\ work' = [Idle EXCEPT !.at = "restart", !.force = TRUE]
            /\ UNCHANGED held
       ELSE /\ held' = held \cup {o}
            /\ list' \in IF t = 0 THEN {list} ELSE Added(o, t)
            /\ work' = [Idle EXCEPT !.at = IF t # 0 THEN "restart"
                                          ELSE IF Counts(o, held') THEN "look" ELSE "idle",
                                   !.more = Counts(o, held')]
  /\ raced' = IF Stopping(o) THEN raced \cup {o} ELSE raced
  /\ UNCHANGED timeout_obj

Start(o, t) ==
  /\ IF o \in held
       THEN /\ list' = Modified(o, t)
            /\ work' = [Idle EXCEPT !.at = "restart", !.force = TRUE]
            /\ UNCHANGED held
       ELSE /\ held' = held \cup {o}
            /\ list' \in IF t = 0 THEN {list} ELSE Added(o, t)
            /\ work' = [Idle EXCEPT !.at = IF t # 0 THEN "restart"
                                          ELSE IF Counts(o, held') THEN "look" ELSE "idle",
                                   !.more = Counts(o, held')]
  /\ raced' = IF Stopping(o) THEN raced \cup {o} ELSE raced
  /\ UNCHANGED timeout_obj

Stop(o) ==
  /\ held' = held \ {o} /\ list' = Deleted(o)
  /\ timeout_obj' = IF InList(o) /\ timeout_obj = o THEN None ELSE timeout_obj
  /\ work' = [Idle EXCEPT !.at = "restart", !.more = Counts(o, held')]
  /\ UNCHANGED raced

Take ==
  /\ work.at = "idle" /\ queue # <<>>
  /\ queue' = Tail(queue)
  /\ LET m == Head(queue) IN
       \/ /\ m.act = "START" /\ ready /\ Start(m.obj, m.timeout)
       \/ /\ m.act = "STOP" /\ ready /\ m.obj \in held /\ Stop(m.obj)
       \/ /\ \/ m.act # "RESTORE" /\ ~ready
             \/ m.act = "STOP" /\ m.obj \notin held
             \/ m.act = "RESTORE" /\ curr_mode = Lowest
          /\ UNCHANGED <<holds, work, raced>>
       \/ /\ m.act = "RESTORE" /\ curr_mode # Lowest
          /\ work' = [Idle EXCEPT !.at = "restore"]
          /\ UNCHANGED <<holds, raced>>
  /\ UNCHANGED <<timer, modes, driver, ready, inputs, stale>>

\* dfs_timeout_restart_timer: its critical section, then the timer.
Then(w) == IF w.more THEN [Idle EXCEPT !.at = "look"] ELSE Idle
Restart_Unforced ==
  /\ work.at = "restart"
  /\ IF list = <<>> \/ timeout_obj # Head(list).obj
       THEN /\ timeout_obj' = IF list = <<>> THEN None ELSE Head(list).obj
            /\ work' = [work EXCEPT !.at = "timer", !.period =
                          IF list = <<>> THEN None ELSE Head(list).left]
       ELSE work' = Then(work) /\ UNCHANGED timeout_obj
  /\ UNCHANGED <<held, list, timer, modes, queue, driver, ready, inputs, stale, raced>>
Restart ==
  /\ work.at = "restart"
  /\ IF list = <<>> \/ work.force \/ timeout_obj # Head(list).obj
       THEN /\ timeout_obj' = IF list = <<>> THEN None ELSE Head(list).obj
            /\ work' = [work EXCEPT !.at = "timer", !.period =
                          IF list = <<>> THEN None ELSE Head(list).left]
       ELSE work' = Then(work) /\ UNCHANGED timeout_obj
  /\ UNCHANGED <<held, list, timer, modes, queue, driver, ready, inputs, stale, raced>>

SetTimer ==
  /\ work.at = "timer"
  /\ timer' = work.period
  /\ work' = Then(work)
  /\ UNCHANGED <<holds, modes, queue, driver, ready, inputs, stale, raced>>

\* The new mode, if there is one that serves; a change is announced to the driver
\* before PE is looked at.
Look ==
  /\ work.at = "look"
  /\ LET mode == Demand(held) IN
       IF mode \notin Modes \/ mode = curr_mode
         THEN /\ work' = Idle
              /\ stale' = (stale \/ (mode = curr_mode /\ pending_mode # None))
              /\ UNCHANGED <<pending_mode, pe_cb>>
         ELSE /\ pending_mode' = mode /\ pe_cb' = TRUE
              /\ work' = [Idle EXCEPT !.at = "check"]
              /\ stale' = FALSE
  /\ UNCHANGED <<holds, timer, curr_mode, clock, queue, flash, ready, inputs, raced>>

Check_KeepsPending ==
  /\ work.at = "check"
  /\ IF flash = "pe" THEN work' = Idle /\ UNCHANGED pe_cb
     ELSE pe_cb' = FALSE /\ work' = [Idle EXCEPT !.at = "set"]
  /\ UNCHANGED <<holds, timer, modes, queue, flash, ready, inputs, stale, raced>>
Check ==
  /\ work.at = "check"
  /\ IF flash = "pe"
       THEN work' = Idle /\ UNCHANGED <<pending_mode, pe_cb>>
       ELSE /\ pe_cb' = FALSE /\ pending_mode' = None
            /\ work' = [Idle EXCEPT !.at = "set"]
  /\ UNCHANGED <<holds, timer, curr_mode, clock, queue, flash, ready, inputs, stale, raced>>

\* dfs_set_clock_mode waits for the other cores: others run meanwhile.
Set ==
  /\ work.at = "set"
  /\ clock' = Demand(held) /\ curr_mode' = Demand(held)
  /\ work' = Idle
  /\ UNCHANGED <<holds, timer, pending_mode, queue, driver, ready, inputs, stale, raced>>

\* The rest of DFS_SHARE_TASK_MSG_CMD_PM_RESTORE.
Restore ==
  /\ work.at = "restore"
  /\ clock' = IF ready THEN curr_mode ELSE clock
  /\ work' = Idle
  /\ UNCHANGED <<holds, timer, curr_mode, pending_mode, queue, driver, ready, inputs,
                 stale, raced>>

-----------------------------------------------------------------------------
(* The timer daemon: dfs_timeout_handler.                                   *)

Fire_Blind ==
  /\ timer = 0
  /\ timer' = None
  /\ IF ready /\ timeout_obj # None /\ list # <<>>
       THEN /\ timeout_obj' = None
            /\ queue' = Append(queue, [act |-> "STOP", obj |-> Head(list).obj, auto |-> TRUE])
       ELSE UNCHANGED <<timeout_obj, queue>>
  /\ UNCHANGED <<held, list, modes, work, driver, ready, inputs, stale, raced>>
Fire_NotRetried ==
  /\ timer = 0
  /\ timer' = None
  /\ IF /\ ready /\ timeout_obj # None /\ list # <<>>
        /\ timeout_obj = Head(list).obj /\ Head(list).left = 0
       THEN timeout_obj' = None /\ UNCHANGED queue
       ELSE UNCHANGED <<timeout_obj, queue>>
  /\ UNCHANGED <<held, list, modes, work, driver, ready, inputs, stale, raced>>
Fire ==
  /\ timer = 0
  /\ timer' = None
  /\ IF /\ ready /\ timeout_obj # None /\ list # <<>>
        /\ timeout_obj = Head(list).obj /\ Head(list).left = 0
       THEN /\ timeout_obj' = None
            /\ queue' = Append(queue, [act |-> "STOP", obj |-> timeout_obj, auto |-> TRUE])
       ELSE UNCHANGED <<timeout_obj, queue>>
  /\ UNCHANGED <<held, list, modes, work, driver, ready, inputs, stale, raced>>

Tick ==
  LET Past(t) == IF t \in {0, None} THEN t ELSE t - 1 IN
  /\ timer' = Past(timer)
  /\ list' = [i \in DOMAIN list |-> [list[i] EXCEPT !.left = Past(@)]]
  /\ UNCHANGED <<held, timeout_obj, modes, queue, work, driver, ready, inputs, stale,
                 raced>>

-----------------------------------------------------------------------------
(* The flash driver: iot_flash_erase, iot_flash_write_without_erase.        *)

Input == ready /\ inputs < MaxInputs /\ inputs' = inputs + 1

Program ==
  /\ Input /\ flash = "idle" /\ flash' = "pe"
  /\ UNCHANGED <<holds, timer, modes, queue, work, pe_cb, ready, stale, raced>>

\* PE is over, then the driver looks for a callback.
Programmed ==
  /\ \/ flash = "pe" /\ flash' = "after"
     \/ flash = "after" /\ flash' = IF pe_cb THEN "call" ELSE "idle"
  /\ UNCHANGED <<holds, timer, modes, queue, work, pe_cb, ready, inputs, stale, raced>>

\* dfs_pending_list_handler
Callback ==
  /\ flash = "call" /\ ~Locked
  /\ flash' = "idle"
  /\ IF ready
       THEN /\ pe_cb' = FALSE /\ pending_mode' = None
            /\ curr_mode' = IF pending_mode # None THEN pending_mode ELSE curr_mode
            /\ clock' = IF pending_mode # None THEN pending_mode ELSE clock
       ELSE UNCHANGED <<modes, pe_cb>>
  /\ UNCHANGED <<holds, timer, queue, work, ready, inputs, stale, raced>>

-----------------------------------------------------------------------------
\* dfs_start and dfs_stop of any core.
Request ==
  /\ Input
  /\ \E m \in [act : {"START"}, obj : Objs, timeout : Timeouts]
              \cup [act : {"STOP"}, obj : Objs, auto : {FALSE}] : queue' = Append(queue, m)
  /\ UNCHANGED <<holds, timer, modes, work, driver, ready, stale, raced>>

\* The cores sleep when nothing is under way; dfs_pm_restore runs when they wake.
Sleep ==
  /\ Input /\ queue = <<>> /\ work.at = "idle" /\ flash = "idle"
  /\ clock' = Lowest /\ queue' = <<[act |-> "RESTORE"]>>
  /\ UNCHANGED <<holds, timer, curr_mode, pending_mode, work, driver, ready, stale, raced>>

\* dfs_deinit, on the way to power off.
Deinit ==
  /\ ready /\ ~Locked
  /\ ready' = FALSE /\ list' = <<>> /\ timer' = None
  /\ UNCHANGED <<held, timeout_obj, modes, queue, work, driver, inputs, stale, raced>>

\* After dfs_init, whose own request is the first to be processed.
Init ==
  /\ held = {} /\ list = <<>> /\ timeout_obj = None /\ timer = None
  /\ curr_mode = Lowest /\ pending_mode = None /\ clock = Lowest
  /\ \E t \in Timeouts : queue = <<[act |-> "START", obj |-> "init", timeout |-> t]>>
  /\ work = Idle
  /\ flash = "idle" /\ pe_cb = FALSE /\ ready = TRUE
  /\ inputs = 0 /\ stale = FALSE /\ raced = {}

Task == Take \/ Restart \/ SetTimer \/ Look \/ Check \/ Set \/ Restore

Next == Task \/ Fire \/ Tick \/ Program \/ Programmed \/ Callback \/ Request \/ Sleep \/ Deinit

Spec == Init /\ [][Next]_vars

\* The share task and the daemon run, time passes, a flash operation ends and
\* its task goes on.
FairSpec ==
  /\ Spec
  /\ WF_vars(Task) /\ WF_vars(Fire) /\ WF_vars(Tick)
  /\ WF_vars(Programmed) /\ WF_vars(Callback)

-----------------------------------------------------------------------------
\* Between requests the cores run at the mode that serves all that is held, or
\* the flash driver will call back and set it; after a sleep, once the mode has
\* been restored.  Not so when no mode serves (RET_FAIL), and when a request came
\* back to the mode in use while another was pending: that one is not taken
\* back (dfs_request_process).
ClockServes ==
  /\ ready /\ work.at = "idle" /\ Demand(held) \in Modes /\ ~stale
  /\ \A i \in DOMAIN queue : queue[i].act # "RESTORE"
  => \/ curr_mode = Demand(held) /\ clock = curr_mode /\ pending_mode = None
     \/ pending_mode = Demand(held) /\ pe_cb /\ flash # "idle"

\* A hold with a time-out is never forgotten: while there is one the timer is
\* set, or what it asked for is on its way (dfs_timeout_handler does not set the
\* timer again, dfs_timeout_restart_timer not if it believes it is set).
TimeoutComing ==
  ready /\ list # <<>> /\ work.at \notin {"restart", "timer"} =>
    timer # None \/ Stopping(Head(list).obj)

\* The timer ends a hold before its time only if the hold was renewed while
\* the timer's request was waiting (dfs_timeout_handler, dfs_timeout_modify).
CutsShort(o) ==
  /\ queue # <<>> /\ queue' = Tail(queue) /\ Head(queue).act = "STOP" /\ Head(queue).obj = o
  /\ Head(queue).auto /\ o \in held \ held'
  /\ ~\E i \in DOMAIN list : list[i].obj = o /\ list[i].left = 0
EarlyOnlyIfRenewed == [][\A o \in Objs : CutsShort(o) => o \in raced]_vars

\* Every hold with a time-out ends, or is made to last, whatever else is held,
\* started, stopped and renewed meanwhile.
HoldsEnd == \A o \in Objs : InList(o) ~> ~InList(o)
=============================================================================
