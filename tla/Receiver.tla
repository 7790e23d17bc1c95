------------------------------ MODULE Receiver ------------------------------
(***************************************************************************)
(* The ESP-NOW receiver firmware (espnow_receiver/main/main.c): the        *)
(* initialisation in app_main, the receive callback of the Wi-Fi task and  *)
(* test_espnow_task, which prints one line per valid packet.               *)
(*                                                                         *)
(* The callback copies a frame into the next slot of a static pool and     *)
(* queues a reference to the slot; nothing says when a slot is free again. *)
(* The Wi-Fi task preempts the others, so that they run only while no      *)
(* callback does, or while one is blocked on a full queue.                 *)
(*                                                                         *)
(* A frame is the number of its arrival since the last reset.  Frames with *)
(* impossible arguments are refused before anything changes (main.c:72) and*)
(* do not count.                                                           *)
(***************************************************************************)
EXTENDS Integers, Sequences

CONSTANTS
  Faults,     \* the kinds of failure of the initialisation that may happen
  Short,      \* the frames that are not as long as a packet
  Damaged,    \* the frames with a wrong start flag or CRC
  Backlog,    \* environment: frames that may be on their way to the line
  MaxFrames   \* bound: frames that arrive between two resets

FaultKinds == {"abort",   \* a call under ESP_ERROR_CHECK: reset
               "queue",   \* xQueueCreate
               "peer",    \* the peer's malloc or esp_now_add_peer
               "task"}    \* xTaskCreate: ignored

ASSUME ReceiverAssumption ==
  /\ Faults \subseteq FaultKinds
  /\ Short \subseteq Nat /\ Damaged \subseteq Nat
  /\ Backlog \in Nat /\ MaxFrames \in Nat

ESPNOW_QUEUE_SIZE == 6
Uint8 == 256

Slots == 0 .. ESPNOW_QUEUE_SIZE - 1

VARIABLES
  main,               \* program counter of app_main
  live,               \* what test_espnow_init has created
  data_buffer_index,  \* uint8_t
  data_buffer_pool,   \* slot -> the frame it holds, 0 for zeros
  queue,              \* s_event_queue
  cb,                 \* the event a running callback has not queued yet
  task,               \* program counter of test_espnow_task
  recv_cb,            \* the event that task is working on
  received,           \* history: frames that arrived since the last reset
  line                \* the last line printed: its number, the event it is
                      \* for, and the frame it shows

vars == <<main, live, data_buffer_index, data_buffer_pool, queue, cb, task,
          recv_cb, received, line>>
dataVars == <<data_buffer_index, data_buffer_pool, queue, cb, recv_cb,
              received, line>>

Event == [frame : Nat, slot : Slots]
NoEvent == [frame |-> 0, slot |-> 0]

MainPc == {"nvs", "wifi", "queue", "espnow", "peer", "deinit", "task",
           "returned", "panic"}

TypeOK ==
  /\ main \in MainPc
  /\ live \subseteq {"queue", "espnow"}
  /\ data_buffer_index \in 0 .. Uint8 - 1
  /\ data_buffer_pool \in [Slots -> Nat]
  /\ queue \in Seq(Event) /\ Len(queue) <= ESPNOW_QUEUE_SIZE
  /\ cb \in Event /\ recv_cb \in Event
  /\ task \in {"none", "ready", "parse", "log"}
  /\ received \in Nat
  /\ line \in [number : Nat, event : Nat, shows : Nat]

Init ==
  /\ main = "nvs" /\ live = {}
  /\ data_buffer_index = 0
  /\ data_buffer_pool = [s \in Slots |-> 0]
  /\ queue = <<>>
  /\ cb = NoEvent /\ recv_cb = NoEvent
  /\ task = "none"
  /\ received = 0
  /\ line = [number |-> 0, event |-> 0, shows |-> 0]

-----------------------------------------------------------------------------
(* A failed ESP_ERROR_CHECK or configASSERT, and the reset that follows.   *)
Panic == main' = "panic" /\ UNCHANGED <<live, task, dataVars>>
Abort == "abort" \in Faults /\ Panic

Reboot ==
  /\ main = "panic"
  /\ main' = "nvs" /\ live' = {}
  /\ data_buffer_index' = 0
  /\ data_buffer_pool' = [s \in Slots |-> 0]
  /\ queue' = <<>>
  /\ cb' = NoEvent /\ recv_cb' = NoEvent
  /\ task' = "none"
  /\ received' = 0
  /\ line' = [number |-> 0, event |-> 0, shows |-> 0]

(* The Wi-Fi task is not running a callback, or waits in one for room.     *)
WifiBlocked == cb = NoEvent \/ Len(queue) = ESPNOW_QUEUE_SIZE

(* app_main: the steps that only can succeed or reset the chip.            *)
InitNvs ==
  /\ main = "nvs"
  /\ \/ main' = "wifi" /\ UNCHANGED <<live, task, dataVars>>
     \/ Abort

InitWifi ==
  /\ main = "wifi"
  /\ \/ main' = "queue" /\ UNCHANGED <<live, task, dataVars>>
     \/ Abort

(* app_main does not look at what test_espnow_init returns.                *)
CreateQueue ==
  /\ main = "queue"
  /\ \/ live' = {"queue"} /\ main' = "espnow"
     \/ "queue" \in Faults /\ main' = "returned" /\ UNCHANGED live
  /\ UNCHANGED <<task, dataVars>>

(* esp_now_init and esp_now_register_recv_cb: frames come from here on.    *)
InitEspnow ==
  /\ main = "espnow"
  /\ \/ /\ live' = live \cup {"espnow"}
        /\ main' = "peer"
        /\ UNCHANGED <<task, dataVars>>
     \/ Abort

(* esp_now_add_peer; test_espnow_deinit, which deletes the queue first ... *)
AddPeer ==
  /\ main = "peer" /\ WifiBlocked
  /\ \/ main' = "task" /\ UNCHANGED <<live, queue>>
     \/ /\ "peer" \in Faults
        /\ main' = "deinit"
        /\ live' = live \ {"queue"}
        /\ queue' = <<>>
  /\ UNCHANGED <<data_buffer_index, data_buffer_pool, cb, task, recv_cb,
                 received, line>>

(* ... and then takes ESP-NOW down, and the callback with it.              *)
DeinitEspnow ==
  /\ main = "deinit" /\ WifiBlocked
  /\ live' = live \ {"espnow"}
  /\ main' = "returned"
  /\ UNCHANGED <<task, dataVars>>

CreateTask ==
  /\ main = "task" /\ WifiBlocked
  /\ task' \in {"ready"} \cup (IF "task" \in Faults THEN {"none"} ELSE {})
  /\ main' = "returned"
  /\ UNCHANGED <<live, dataVars>>

MainStep ==
  \/ InitNvs \/ InitWifi \/ CreateQueue \/ InitEspnow \/ AddPeer
  \/ DeinitEspnow \/ CreateTask

-----------------------------------------------------------------------------
(* Events between the callback and the line.                               *)
Pending ==
  Len(queue) + (IF cb = NoEvent THEN 0 ELSE 1)
             + (IF task \in {"parse", "log"} THEN 1 ELSE 0)

(* get_static_buffer: the slot comes from the old value of the counter,    *)
(* which wraps around with its type and not with the pool.                 *)
NextSlot_OtherSize == data_buffer_index % (ESPNOW_QUEUE_SIZE \div 2)
NextSlot == data_buffer_index % ESPNOW_QUEUE_SIZE

(* test_espnow_recv_cb: take a slot and fill it ...                        *)
RecvFrame_RefersToNext ==
  /\ "espnow" \in live /\ main # "panic"
  /\ cb = NoEvent /\ Pending < Backlog /\ received < MaxFrames
  /\ received' = received + 1
  /\ data_buffer_index' = (data_buffer_index + 1) % Uint8
  /\ data_buffer_pool' = [data_buffer_pool EXCEPT ![NextSlot] = received + 1]
  /\ cb' = [frame |-> received + 1, slot |-> data_buffer_index' % ESPNOW_QUEUE_SIZE]
  /\ UNCHANGED <<main, live, queue, task, recv_cb, line>>
RecvFrame ==
  /\ "espnow" \in live /\ main # "panic"
  /\ cb = NoEvent /\ Pending < Backlog /\ received < MaxFrames
  /\ received' = received + 1
  /\ data_buffer_index' = (data_buffer_index + 1) % Uint8
  /\ data_buffer_pool' = [data_buffer_pool EXCEPT ![NextSlot] = received + 1]
  /\ cb' = [frame |-> received + 1, slot |-> NextSlot]
  /\ UNCHANGED <<main, live, queue, task, recv_cb, line>>

(* ... and queue the event ...                                             *)
QueueEvent ==
  /\ cb # NoEvent /\ "queue" \in live /\ main # "panic"
  /\ Len(queue) < ESPNOW_QUEUE_SIZE
  /\ queue' = Append(queue, cb)
  /\ cb' = NoEvent
  /\ UNCHANGED <<main, live, data_buffer_index, data_buffer_pool, task,
                 recv_cb, received, line>>

(* ... or give it up after ESPNOW_MAXDELAY ticks with the queue full.      *)
DropEvent ==
  /\ cb # NoEvent /\ "queue" \in live /\ main # "panic"
  /\ Len(queue) = ESPNOW_QUEUE_SIZE
  /\ cb' = NoEvent
  /\ UNCHANGED <<main, live, data_buffer_index, data_buffer_pool, queue, task,
                 recv_cb, received, line>>

(* xQueueSend asserts that there is a queue.                               *)
QueueGone == cb # NoEvent /\ "queue" \notin live /\ main # "panic" /\ Panic

CallbackStep == RecvFrame \/ QueueEvent \/ DropEvent \/ QueueGone

-----------------------------------------------------------------------------
(* test_espnow_task: xQueueReceive ...                                     *)
TakeEvent ==
  /\ task = "ready" /\ WifiBlocked /\ queue # <<>>
  /\ recv_cb' = Head(queue)
  /\ queue' = Tail(queue)
  /\ task' = "parse"
  /\ UNCHANGED <<main, live, data_buffer_index, data_buffer_pool, cb,
                 received, line>>

(* ... data_parse: the length of the event, flag and CRC of the slot ...   *)
Valid_LengthOnly(e) == e.frame \notin Short
Valid(e) ==
  /\ e.frame \notin Short
  /\ data_buffer_pool[e.slot] \notin Short \cup Damaged \cup {0}

Parse ==
  /\ task = "parse" /\ WifiBlocked
  /\ task' = IF Valid(recv_cb) THEN "log" ELSE "ready"
  /\ UNCHANGED <<main, live, dataVars>>

(* ... and the line, read from the slot once more.                         *)
Log ==
  /\ task = "log" /\ WifiBlocked
  /\ line' = [number |-> line.number + 1, event |-> recv_cb.frame,
              shows |-> data_buffer_pool[recv_cb.slot]]
  /\ task' = "ready"
  /\ UNCHANGED <<main, live, data_buffer_index, data_buffer_pool, queue, cb,
                 recv_cb, received>>

TaskStep == main # "panic" /\ (TakeEvent \/ Parse \/ Log)

-----------------------------------------------------------------------------
Next == MainStep \/ Reboot \/ CallbackStep \/ TaskStep

(* Frames need not come, and nothing is asked of the receiver but safety.  *)
Spec == Init /\ [][Next]_vars

-----------------------------------------------------------------------------
(* The events that still refer to a slot.                                  *)
Held ==
  {queue[i] : i \in 1 .. Len(queue)}
    \cup (IF cb = NoEvent THEN {} ELSE {cb})
    \cup (IF task \in {"parse", "log"} THEN {recv_cb} ELSE {})

(* A slot keeps its frame until the line for it has been printed, for any  *)
(* number of frames and across the wrap of the counter.  The pool has six  *)
(* slots but 256 is not a multiple of six: at the wrap a slot is reused    *)
(* after four frames (main.c:43-46), so that this holds for a Backlog of   *)
(* four and not for five.                                                  *)
SlotsIntact == \A e \in Held : data_buffer_pool[e.slot] = e.frame

(* A line shows the frame of its event (main.c:105-113).                   *)
LinesAreTrue == line.shows = line.event

(* With any backlog: a slot never holds an older frame than its event says *)
(* (the frame is copied before the event is queued, main.c:84-86).         *)
NeverOlder == \A e \in Held : data_buffer_pool[e.slot] >= e.frame

(* Lines show undamaged frames, in order and once.                         *)
Relay ==
  INSTANCE FrameRelay WITH Unfit <- Short \cup Damaged,
    lines <- line.number, shown <- line.shows
RelaysFrames == Relay!Spec
=============================================================================
