------------------------------ MODULE OtaSync ------------------------------
(***************************************************************************)
(* app/tws/user_app/app_ota_sync.c with ota_task.c, and what app_wqota.c   *)
(* and lib/ota do for it: the earbud the phone updates (the source) hands  *)
(* the image to the other one (the follower), block by block, while it is  *)
(* still receiving it (mode COMPLETE) or after that, to fill the gaps of   *)
(* what the follower has overheard (PARTIAL).                              *)
(*                                                                         *)
(* In each earbud the app_main task handles one message at a time and the  *)
(* ota task erases, writes and verifies behind it: src and fol are their   *)
(* states, src.task and fol.task the queues between the two tasks.  toFol  *)
(* and toSrc are the radio link: FIFO, but a lost link loses what it       *)
(* carries.  Block n stands for 512 bytes, an image for its blocks.        *)
(*                                                                         *)
(* An operator X_Y that stands before X is X with the bug Y.               *)
(***************************************************************************)
EXTENDS Integers, Sequences, FiniteSets

CONSTANTS
  N,          \* blocks of the image
  PoolSize,   \* OTA_MAX_SYNC_DATA_COUNT
  MaxEnters,  \* bound: times the phone enters update mode
  MaxDrops,   \* bound: times the link between the earbuds is lost
  MaxAir      \* bound: messages under way when the follower asks once more,
              \* which it does after 5 s without an answer

ASSUME OtaSyncAssumption ==
  /\ N \in Nat \ {0} /\ PoolSize \in Nat \ {0}
  /\ MaxEnters \in Nat /\ MaxDrops \in Nat /\ MaxAir \in Nat \ {0}

VARIABLES
  src, fol,      \* the two earbuds
  toFol, toSrc,  \* the link between them
  link,          \* app_wws_is_connected
  ble,           \* ota_ch = OTA_CH_BLE: the phone updates one earbud only
  enters, drops, \* bounds
  failed,        \* history: a write of the follower failed
  gap            \* history: the follower has lapsed, a STOP was lost

vars == <<src, fol, toFol, toSrc, link, ble, enters, drops, failed, gap>>

Blocks == 0 .. N - 1
Modes == {"complete", "partial"}
Pages == {"erased", "data", "other"}
Whole == [b \in Blocks |-> "data"]

\* What travels on the link, and what waits in the queue of an ota task.
Plain(id) == [id |-> id]
Start(m) == [id |-> "START", mode |-> m]
Rsp(b, d) == [id |-> "GET_DATA_RSP", off |-> b, data |-> d]
Req(b) == [id |-> "GET_DATA_REQ", off |-> b]
Write(b, d) == [id |-> "write", off |-> b, data |-> d]

FolMsgs ==
  [id : {"STOP", "REBOOT"}] \cup [id : {"START"}, mode : Modes]
    \cup [id : {"GET_DATA_RSP"}, off : Blocks, data : Pages \cup {"none"}]
SrcMsgs == [id : {"DONE_REPORT"}] \cup [id : {"GET_DATA_REQ"}, off : Blocks]
TaskMsgs == [id : {"start", "finish"}] \cup [id : {"write"}, off : Blocks, data : Pages]

SrcType ==
  [phase : {"idle", "entering", "update", "rebooting"}, off : 0 .. N, size : BOOLEAN,
   sync : BOOLEAN, written : 0 .. N, flash : [Blocks -> Pages], task : Seq(TaskMsgs),
   verified : BOOLEAN]
FolType ==
  [size : BOOLEAN, sync : BOOLEAN, mode : Modes, off : 0 .. N, now : Nat,
   later : BOOLEAN, stop : BOOLEAN, reboot : BOOLEAN, down : BOOLEAN,
   flash : [Blocks -> Pages], task : Seq(TaskMsgs), handle : BOOLEAN,
   started : BOOLEAN, verified : BOOLEAN]

TypeOK ==
  /\ src \in SrcType /\ fol \in FolType
  /\ toFol \in Seq(FolMsgs) /\ toSrc \in Seq(SrcMsgs)
  /\ link \in BOOLEAN /\ ble \in BOOLEAN /\ failed \in BOOLEAN
  /\ gap \subseteq {"lapse", "stop"}
  /\ enters \in 0 .. MaxEnters /\ drops \in 0 .. MaxDrops

\* size stands for m_file_length and m_file_crc, in which the image is 0 or
\* this one; sync for m_sync_flag; off for ota_file_offset and m_file_offset;
\* written for write_offset; now counts OTA_SYNC_MSG_ID_GET_DATA in the queue
\* of app_main, later says that one is delayed, stop and reboot that STOP and
\* DO_REBOOT are under way; verified that the last ota_end was correct.
Source ==
  [phase |-> "idle", off |-> 0, size |-> FALSE, sync |-> FALSE, written |-> 0,
   flash |-> [b \in Blocks |-> "erased"], task |-> <<>>, verified |-> FALSE]
Follower ==
  [size |-> FALSE, sync |-> FALSE, mode |-> "complete", off |-> 0, now |-> 0,
   later |-> FALSE, stop |-> FALSE, reboot |-> FALSE, down |-> FALSE,
   flash |-> [b \in Blocks |-> "other"], task |-> <<>>, handle |-> FALSE,
   started |-> FALSE, verified |-> FALSE]

\* wws_send_data: nothing is sent without a link.
Sent(q, m) == IF link THEN Append(q, m) ELSE q

\* Flash only clears bits: what is written over something else is neither.
Programmed(old, new) == IF old \in {"erased", new} THEN new ELSE "other"

----------------------------------------------------------------------------
\* The source: app_wqota.c and its ota task.

\* app_ota_sync_start
SyncStart(s, m) ==
  /\ src' = [s EXCEPT !.size = TRUE, !.sync = IF link THEN TRUE ELSE @]
  /\ toFol' = Sent(toFol, Start(m))

\* handle_ota_enter_update_mode_command: the first time, and again to resume.
Enter ==
  /\ src.phase = "idle" \/ (src.phase = "update" /\ src.off < N)
  /\ enters = 0 \/ src.off > 0
  /\ enters < MaxEnters /\ enters' = enters + 1
  /\ LET resume == src.phase = "update" /\ src.off > 0
         s == IF resume THEN src
              ELSE [src EXCEPT !.phase = "entering", !.off = 0, !.verified = FALSE,
                               !.task = Append(@, Plain("start"))]
     IN IF ble THEN SyncStart(s, "complete") ELSE src' = s /\ UNCHANGED toFol
  /\ UNCHANGED <<fol, toSrc, link, ble, drops, failed, gap>>

\* handle_ota_firmware_block_command: the next block, which the ota task writes.
Block ==
  /\ src.phase = "update" /\ src.off < N
  /\ Len(src.task) < PoolSize
  /\ src' = [src EXCEPT !.off = @ + 1, !.task = Append(@, Write(src.off, "data"))]
  /\ UNCHANGED <<fol, toFol, toSrc, link, ble, enters, drops, failed, gap>>

\* handle_ota_get_refresh_firmware_status_command, when all has been sent.
Finish ==
  /\ src.phase = "update" /\ src.off = N
  /\ \A i \in DOMAIN src.task : src.task[i] # Plain("finish")
  /\ src' = [src EXCEPT !.task = Append(@, Plain("finish"))]
  /\ UNCHANGED <<fol, toFol, toSrc, link, ble, enters, drops, failed, gap>>

\* handle_ota_exit_update_mode_command
Exit ==
  /\ src.phase = "update"
  /\ src' = [src EXCEPT !.phase = "idle", !.off = 0, !.sync = FALSE]
  /\ toFol' = Sent(toFol, Plain("STOP"))
  /\ gap' = IF link THEN gap ELSE gap \cup {"stop"}
  /\ UNCHANGED <<fol, toSrc, link, ble, enters, drops, failed>>

\* handle_ota_reboot_command.  The phone asks for it when the image has been
\* verified and handle_ota_get_sync_state_command says that nothing is being
\* synchronised; the source restarts 2 s later.
Reboot ==
  /\ src.phase # "rebooting" /\ src.verified /\ ~src.sync /\ ble
  /\ src' = [src EXCEPT !.phase = "rebooting"]
  /\ toFol' = Sent(toFol, Plain("REBOOT"))
  /\ UNCHANGED <<fol, toSrc, link, ble, enters, drops, failed, gap>>

\* The ota task of the source.  In a PARTIAL update the follower has overheard
\* some blocks, after an erase of its own; or it was not there.
SrcTask ==
  /\ src.task # <<>>
  /\ LET m == Head(src.task)
         s == [src EXCEPT !.task = Tail(@)]
     IN \/ /\ m.id = "start"
           /\ src' = [s EXCEPT !.written = 0, !.flash = [b \in Blocks |-> "erased"],
                               !.phase = IF @ = "entering" THEN "update" ELSE @]
           /\ UNCHANGED <<fol, toFol, failed>>
        \/ /\ m.id = "write"
           /\ src' = [s EXCEPT !.written = m.off + 1,
                               !.flash[m.off] = Programmed(@, m.data)]
           /\ UNCHANGED <<fol, toFol, failed>>
        \/ /\ m.id = "finish"
           /\ LET done == [s EXCEPT !.phase = "idle", !.off = 0,
                                    !.verified = src.flash = Whole]
              IN IF ~ble /\ done.verified /\ src.phase = "update"
                   THEN /\ SyncStart(done, "partial")
                        /\ \E heard \in SUBSET Blocks, begun \in BOOLEAN :
                             fol' = [fol EXCEPT !.handle = begun, !.started = begun,
                                       !.flash = IF ~begun THEN @
                                         ELSE [b \in Blocks |->
                                                 IF b \in heard THEN "data" ELSE "erased"]]
                        /\ failed' = ~fol'.handle
                   ELSE src' = done /\ UNCHANGED <<fol, toFol, failed>>
  /\ UNCHANGED <<toSrc, link, ble, enters, drops, gap>>

\* send_get_data_rsp
Answer_Unwritten(b) == Rsp(b, src.flash[b])
Answer(b) == Rsp(b, IF b >= src.written THEN "none" ELSE src.flash[b])

\* handle_msg at the source.
SrcRecv ==
  /\ toSrc # <<>>
  /\ LET m == Head(toSrc) IN
       \/ /\ m.id = "GET_DATA_REQ"
          /\ toFol' = Sent(toFol, Answer(m.off))
          /\ UNCHANGED src
       \/ /\ m.id = "DONE_REPORT"
          /\ src' = [src EXCEPT !.sync = FALSE]
          /\ UNCHANGED toFol
  /\ toSrc' = Tail(toSrc)
  /\ UNCHANGED <<fol, link, ble, enters, drops, failed, gap>>

----------------------------------------------------------------------------
\* The follower: app_ota_sync.c and its ota task.

\* offset_validate: the blocks that are written already are skipped.
\* The set has one element, the offset the loop stops at.
Validated_Past(f) ==
  {IF f.mode = "partial" /\ f.off < N /\ f.flash[f.off] # "erased" THEN f.off + 2 ELSE f.off}
Validated(f) ==
  {b \in f.off .. N :
     IF f.mode = "complete" \/ ~f.size THEN b = f.off
     ELSE /\ \A c \in f.off .. b - 1 : f.flash[c] # "erased"
          /\ b = N \/ f.flash[b] = "erased"}

\* app_cancel_msg and app_send_msg_delay of OTA_SYNC_MSG_ID_GET_DATA.
RetryLater(f) == [f EXCEPT !.now = 0, !.later = TRUE]

\* OTA_SYNC_MSG_ID_GET_DATA with send_get_data_req, from what it was delayed or
\* queued as.
GetData(f) ==
  IF ~(f.sync /\ link) THEN fol' = f /\ UNCHANGED toSrc
  ELSE \E b \in Validated(f) :
         LET g == [f EXCEPT !.now = 0, !.later = FALSE, !.off = b]
         IN IF ~g.size \/ b >= N
              THEN fol' = [g EXCEPT !.task = Append(@, Plain("finish"))] /\ UNCHANGED toSrc
              ELSE fol' = [g EXCEPT !.later = TRUE] /\ toSrc' = Append(toSrc, Req(b))

\* Asked to go on without a link, the follower stops asking: nothing but
\* another START sets it going again.
Lapse == gap' = IF fol.sync /\ ~link THEN gap \cup {"lapse"} ELSE gap

FolGetData ==
  /\ ~fol.down
  /\ \/ fol.now > 0 /\ GetData([fol EXCEPT !.now = @ - 1])
     \/ fol.later /\ Len(toSrc) + Len(toFol) < MaxAir /\ GetData([fol EXCEPT !.later = FALSE])
  /\ Lapse
  /\ UNCHANGED <<src, toFol, link, ble, enters, drops, failed>>

\* OTA_SYNC_MSG_ID_STOP
FolStop ==
  /\ ~fol.down /\ fol.stop
  /\ fol' = [fol EXCEPT !.stop = FALSE, !.sync = FALSE]
  /\ toSrc' = Sent(toSrc, Plain("DONE_REPORT"))
  /\ UNCHANGED <<src, toFol, link, ble, enters, drops, failed, gap>>

\* OTA_SYNC_REMOTE_MSG_ID_START
Started(m) ==
  LET f == [fol EXCEPT !.mode = m, !.started = TRUE, !.sync = TRUE,
                       !.off = IF m = "partial" \/ ~fol.size THEN 0 ELSE @]
  IN IF m = "partial" \/ fol.size
       THEN [f EXCEPT !.size = TRUE, !.now = @ + 1]
       ELSE [f EXCEPT !.size = TRUE, !.task = Append(@, Plain("start")), !.verified = FALSE]

\* The buffers of the pool that the ota task has not given back.
Buffered(q) == Cardinality({i \in DOMAIN q : q[i].id = "write"})

\* OTA_SYNC_REMOTE_MSG_ID_GET_DATA_RSP: the block it waits for, if there is a
\* buffer to carry it to the ota task.
Stored_NoRetry(b, d) ==
  IF d # "none" /\ b = fol.off
    THEN [fol EXCEPT !.off = @ + 1, !.now = @ + 1, !.task = Append(@, Write(b, d))]
    ELSE [fol EXCEPT !.now = 0, !.later = FALSE]
Stored(b, d) ==
  IF d # "none" /\ b = fol.off /\ Buffered(fol.task) < PoolSize
    THEN [fol EXCEPT !.off = @ + 1, !.now = @ + 1, !.task = Append(@, Write(b, d))]
    ELSE RetryLater(fol)

FolRecv ==
  /\ ~fol.down /\ toFol # <<>>
  /\ LET m == Head(toFol) IN
       /\ fol' = CASE m.id = "START" -> Started(m.mode)
                   [] m.id = "GET_DATA_RSP" -> Stored(m.off, m.data)
                   [] m.id = "STOP" -> [fol EXCEPT !.sync = FALSE]
                   [] m.id = "REBOOT" -> [fol EXCEPT !.reboot = TRUE]
       /\ gap' = IF m.id = "START" THEN gap \ {"lapse"} ELSE gap
  /\ toFol' = Tail(toFol)
  /\ UNCHANGED <<src, toSrc, link, ble, enters, drops, failed>>

\* The ota task of the follower and ota_task_callback, which it calls.
FolTask ==
  /\ ~fol.down /\ fol.task # <<>>
  /\ LET m == Head(fol.task)
         f == [fol EXCEPT !.task = Tail(@)]
     IN \/ /\ m.id = "start"
           /\ fol' = [f EXCEPT !.handle = TRUE, !.now = @ + 1,
                               !.flash = [b \in Blocks |-> "erased"]]
           /\ UNCHANGED failed
        \/ /\ m.id = "write"
           /\ fol' = IF f.handle THEN [f EXCEPT !.flash[m.off] = Programmed(@, m.data)] ELSE f
           /\ UNCHANGED failed
        \/ /\ m.id = "write" /\ f.handle   \* the flash refuses
           /\ fol' = f
           /\ failed' = TRUE
        \/ /\ m.id = "finish"
           /\ fol' = [f EXCEPT !.handle = FALSE, !.size = FALSE, !.off = 0, !.stop = TRUE,
                               !.verified = IF f.handle THEN f.flash = Whole ELSE @]
           /\ UNCHANGED failed
  /\ UNCHANGED <<src, toFol, toSrc, link, ble, enters, drops, gap>>

\* OTA_SYNC_MSG_ID_DO_REBOOT: ota_task_commit, and a restart.
Commits == fol.reboot /\ ~fol.down /\ fol.started
DoReboot ==
  /\ fol.reboot /\ ~fol.down
  /\ fol' = [fol EXCEPT !.down = TRUE]
  /\ UNCHANGED <<src, toFol, toSrc, link, ble, enters, drops, failed, gap>>

----------------------------------------------------------------------------
\* The link is lost, and with it what had not been handed to app_main yet.
Down ==
  /\ link /\ drops < MaxDrops
  /\ link' = FALSE /\ drops' = drops + 1
  /\ \E i \in 0 .. Len(toFol), j \in 0 .. Len(toSrc) :
       /\ toFol' = SubSeq(toFol, 1, i)
       /\ toSrc' = SubSeq(toSrc, 1, j)
       /\ gap' = gap \cup {"stop" : k \in {k \in i + 1 .. Len(toFol) : toFol[k].id = "STOP"}}
  /\ UNCHANGED <<src, fol, ble, enters, failed>>

Up ==
  /\ ~link /\ link' = TRUE
  /\ UNCHANGED <<src, fol, toFol, toSrc, ble, enters, drops, failed, gap>>

Init ==
  /\ src = Source /\ fol = Follower
  /\ toFol = <<>> /\ toSrc = <<>>
  /\ link \in BOOLEAN /\ ble \in BOOLEAN
  /\ enters = 0 /\ drops = 0 /\ failed = FALSE /\ gap = {}

Next ==
  \/ Enter \/ Block \/ Finish \/ Exit \/ Reboot \/ SrcTask \/ SrcRecv
  \/ FolGetData \/ FolStop \/ FolRecv \/ FolTask \/ DoReboot
  \/ Down \/ Up

Spec == Init /\ [][Next]_vars

\* Both earbuds' tasks run and their timers expire; the phone that has entered
\* update mode sends what it is asked for.
FairSpec ==
  /\ Spec
  /\ WF_vars(Block) /\ WF_vars(Finish) /\ WF_vars(SrcTask) /\ WF_vars(SrcRecv)
  /\ WF_vars(FolGetData) /\ WF_vars(FolStop) /\ WF_vars(FolRecv) /\ WF_vars(FolTask)

----------------------------------------------------------------------------
\* Every block below the follower's offset is the image's, on its flash or on
\* its way there, whatever was lost, asked for twice, resumed or skipped,
\* unless the flash refused one (m_file_offset in app_ota_sync.c, which moves
\* before the block is written).
NoHole ==
  fol.size /\ fol.sync /\ ~failed =>
    \A b \in 0 .. fol.off - 1 :
      \/ fol.flash[b] = "data"
      \/ \E i \in DOMAIN fol.task : fol.task[i] = Write(b, "data")

\* When the source learns that the follower is done, the follower has the whole
\* image, unless its flash refused a block (OTA_SYNC_REMOTE_MSG_ID_DONE_REPORT).
DoneMeansComplete ==
  [][src.sync /\ ~src'.sync /\ toSrc # <<>> /\ toSrc' = Tail(toSrc) /\ ~failed
       => fol.flash = Whole]_vars

\* A synchronisation comes to its end, although the link loses requests and
\* answers, unless it loses the STOP or the follower has lapsed (the 5 s and
\* 500 ms retries of app_ota_sync.c).
SyncEnds == fol.sync ~> (~fol.sync \/ gap # {})

\* ota.h:174 of ota_commit: "Pleace call this API After calling ota_end()
\* finished correctly".
CommitsVerified == [][Commits /\ fol'.down => fol.verified]_vars
=============================================================================
