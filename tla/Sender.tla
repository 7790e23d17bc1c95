------------------------------- MODULE Sender -------------------------------
(***************************************************************************)
(* The ESP-NOW sender firmware (espnow_sender/main/main.c), from power-on  *)
(* to deep sleep and again: app_main, the sensor task wgBME280_task, the   *)
(* radio task wg_espnow_task and the send callback of the Wi-Fi task.      *)
(*                                                                         *)
(* The target is an ESP32-C3: one core, fixed priorities Wi-Fi task >      *)
(* radio task (4) > sensor task (3) > app_main (1).  Tasks still block in  *)
(* drivers, delays, queues and notifications, so that a step of any task   *)
(* may come next, except where a task of higher priority is in the middle  *)
(* of code that cannot block: the callback, and the end of wg_done.        *)
(*                                                                         *)
(* A packet is the number of its sample, 1 .. SEND_PACKET.  Timeouts may   *)
(* expire whenever what is waited for is not there.                        *)
(*                                                                         *)
(* Here and in the other modules a definition X_Why is X with a plausible  *)
(* mistake; no specification uses it.                                      *)
(***************************************************************************)
EXTENDS WaitGroup, Sequences

CONSTANTS
  ESPNOW_QUEUE_SIZE,  \* length of s_event_queue
  Faults              \* the kinds of failure that may happen

(* One kind for each failing call that the code treats differently.        *)
FaultKinds ==
  { "heap",         \* closer_create, wg_create or xQueueCreate: reset
    "defer",        \* closer_add finds no memory: ignored by CLOSER_DEFER
    "nvs_erase",    \* nvs_flash_erase: reset
    "nvs",          \* nvs_flash_init
    "task",         \* xTaskCreate: ignored
    "wifi_abort",   \* a call of wifi_init under ESP_ERROR_CHECK: reset
    "wifi",         \* a call of wifi_init under ESP_RETURN_ON_ERROR
    "espnow",       \* esp_now_init
    "register_cb",  \* esp_now_register_send_cb
    "peer",         \* the peer's malloc or esp_now_add_peer
    "sensor",       \* the pin, the I2C bus or bme280_create
    "sensor_init",  \* bme280_default_init
    "adc",          \* adc_oneshot_new_unit
    "adc_channel",  \* adc_oneshot_config_channel
    "send",         \* esp_now_send
    "release",      \* a call that gives something back: logged or ignored
    "sleep_timer" } \* esp_sleep_enable_timer_wakeup: reset

ASSUME SenderAssumption ==
  /\ ESPNOW_QUEUE_SIZE \in Nat \ {0}
  /\ Faults \subseteq FaultKinds

SEND_PACKET_OneMore == ESPNOW_QUEUE_SIZE + 1
SEND_PACKET == ESPNOW_QUEUE_SIZE

(* What must be given back before deep sleep.                              *)
Peripherals == {"wifi", "espnow", "power", "i2c", "bme280", "adc"}
Resources == Peripherals \cup {"wg", "queue", "nvs"}
Bme280 == {"power", "i2c", "bme280"}

VARIABLES
  main,         \* program counter of app_main
  bme,          \* program counter of wgBME280_task
  esp,          \* program counter of wg_espnow_task
  live,         \* the resources that are created and not yet released
  lost,         \* history: those of them that nobody will give back any
                \* more, because the call that should have done it failed or
                \* a failed step has left them on
  closers,      \* the stack of s_closer, top first
  queue,        \* s_event_queue
  made,         \* packetCounter of the sensor task
  cnt,          \* loops left to the radio task
  cur,          \* the packet in the radio task's buffer, 0 if none yet
  target,       \* xTaskToNotify, the handle of the radio task or NULL
  air,          \* packets whose send callback has not run yet, in order
  status,       \* the packet whose status is in the radio task's
                \* notification value, 0 if no notification is pending
  transmitted,  \* history: the last packet esp_now_send accepted
  frames,       \* history: how many packets esp_now_send accepted
  incidents     \* history: "packet" and "status", the radio task's wait for
                \* one timed out; "late", the radio task was added after
                \* the wait group had come back to zero; "unborn", a task was
                \* added but not created

taskVars == <<main, bme, esp>>
resVars == <<live, lost, closers>>
radioVars == <<cnt, cur, target, transmitted, frames>>
vars == <<wgVars, taskVars, resVars, queue, made, radioVars, air,
          status, incidents>>

MainPc == {"boot", "queue", "nvs", "sense", "wifi", "espnow", "radio",
           "wait", "take", "reset", "close", "asleep", "panic"}
BmePc == {"none", "init", "adc", "read", "cleanup", "done", "notify", "gone"}
EspPc == {"none", "start", "recv", "send", "wait", "done", "notify", "gone"}

TypeOK ==
  /\ WgTypeOK
  /\ main \in MainPc /\ bme \in BmePc /\ esp \in EspPc
  /\ live \subseteq Resources /\ lost \subseteq Resources
  /\ closers \in Seq(Resources)
  /\ queue \in Seq(Nat) /\ air \in Seq(Nat)
  /\ made \in 0 .. SEND_PACKET
  /\ cnt \in 0 .. SEND_PACKET
  /\ cur \in Nat /\ status \in Nat /\ transmitted \in Nat
  /\ frames \in Nat
  /\ target \in {"esp", "NULL"}
  /\ incidents \subseteq {"packet", "status", "late", "unborn"}

(* Power-on, or the timer of the deep sleep: RAM starts from nothing.      *)
Init ==
  /\ WgNone
  /\ main = "boot" /\ bme = "none" /\ esp = "none"
  /\ live = {} /\ lost = {} /\ closers = <<>> /\ queue = <<>> /\ air = <<>>
  /\ made = 0 /\ cnt = 0 /\ cur = 0 /\ status = 0 /\ transmitted = 0
  /\ frames = 0
  /\ target = "NULL"
  /\ incidents = {}

-----------------------------------------------------------------------------
(* A failed ESP_ERROR_CHECK or configASSERT resets the chip.               *)
Panic ==
  /\ main' = "panic"
  /\ UNCHANGED <<wgVars, bme, esp, resVars, queue, made, radioVars, air,
                 status, incidents>>

Running == main \notin {"asleep", "panic"}

(* app_main has the lowest priority: it does not run while another task is *)
(* between the subtraction and the notification of its wg_done.            *)
At(pc) == main = pc /\ bme # "notify" /\ esp # "notify"

(* DEFER(fn): push, unless there is no memory for the item.                *)
Defer_Appends(r) == closers' = Append(closers, r) /\ UNCHANGED lost
Defer(r) ==
  \/ closers' = <<r>> \o closers /\ UNCHANGED lost
  \/ "defer" \in Faults /\ UNCHANGED closers /\ lost' = lost \cup {r}

(* The calls that give rs back, each of which may fail on its own, made by *)
(* a step that leaves `left` on and keeps no handle of it.  The wait group *)
(* and the queue are freed by calls that cannot fail.                      *)
MayStick(rs) ==
  IF "release" \in Faults THEN SUBSET (rs \ {"wg", "queue"}) ELSE {{}}
GiveBack(rs, left) ==
  \E stuck \in MayStick(rs) :
    /\ live' = (live \ rs) \cup stuck \cup left
    /\ lost' = lost \cup stuck \cup left

(* closer_create, wg_create, DEFER(wg_delete).                             *)
CreateWaitGroup ==
  /\ At("boot")
  /\ \/ /\ WgCreate
        /\ live' = live \cup {"wg"}
        /\ Defer("wg")
        /\ main' = "queue"
        /\ UNCHANGED <<bme, esp, queue, made, radioVars, air,
                       status, incidents>>
     \/ "heap" \in Faults /\ Panic

(* event_queue_create, DEFER(event_queue_delete).                          *)
CreateQueue ==
  /\ At("queue")
  /\ \/ /\ live' = live \cup {"queue"}
        /\ Defer("queue")
        /\ main' = "nvs"
        /\ UNCHANGED <<wgVars, bme, esp, queue, made, radioVars, air,
                       status, incidents>>
     \/ "heap" \in Faults /\ Panic

(* nvs_flash_init, erasing once if it asks for that; DEFER on success.     *)
InitNvs ==
  /\ At("nvs")
  /\ \/ /\ live' = live \cup {"nvs"}
        /\ Defer("nvs")
        /\ main' = "sense"
        /\ UNCHANGED <<wgVars, bme, esp, queue, made, radioVars, air,
                       status, incidents>>
     \/ /\ "nvs" \in Faults
        /\ main' = "wait"
        /\ UNCHANGED <<wgVars, bme, esp, resVars, queue, made, radioVars,
                       air, status, incidents>>
     \/ "nvs_erase" \in Faults /\ Panic

(* wg_add(wg, 1); xTaskCreate(wgBME280_task), whose result is not looked   *)
(* at.                                                                     *)
LaunchSensor ==
  /\ At("sense")
  /\ WgAdd
  /\ \/ bme' = "init" /\ UNCHANGED incidents
     \/ "task" \in Faults /\ UNCHANGED bme
        /\ incidents' = incidents \cup {"unborn"}
  /\ main' = "wifi"
  /\ UNCHANGED <<esp, resVars, queue, made, radioVars, air, status>>

(* wifi_init; its DEFER comes before the result is looked at.              *)
InitWifi ==
  /\ At("wifi")
  /\ \/ /\ live' = live \cup {"wifi"}
        /\ Defer("wifi")
        /\ main' \in {"espnow"} \cup (IF "wifi" \in Faults THEN {"wait"} ELSE {})
        /\ UNCHANGED <<wgVars, bme, esp, queue, made, radioVars, air,
                       status, incidents>>
     \/ "wifi_abort" \in Faults /\ Panic

(* test_espnow_init: it takes ESP-NOW down again when the peer cannot be   *)
(* added, but not when the callback cannot be registered.                  *)
InitEspnow ==
  /\ At("espnow")
  /\ \/ /\ live' = live \cup {"espnow"}
        /\ Defer("espnow")
        /\ main' = "radio"
     \/ /\ \/ "espnow" \in Faults /\ UNCHANGED <<live, lost>>
           \/ "register_cb" \in Faults /\ GiveBack({}, {"espnow"})
           \/ "peer" \in Faults /\ GiveBack({"espnow"}, {})
        /\ main' = "wait"
        /\ UNCHANGED closers
  /\ UNCHANGED <<wgVars, bme, esp, queue, made, radioVars, air, status,
                 incidents>>

(* wg_add(wg, 1); xTaskCreate(wg_espnow_task).                             *)
LaunchRadio ==
  /\ At("radio")
  /\ WgAdd
  /\ \E born \in {TRUE} \cup (IF "task" \in Faults THEN {FALSE} ELSE {}) :
       /\ esp' = IF born THEN "start" ELSE "none"
       /\ incidents' = incidents \cup (IF bme = "gone" THEN {"late"} ELSE {})
                                 \cup (IF born THEN {} ELSE {"unborn"})
  /\ main' = "wait"
  /\ UNCHANGED <<bme, resVars, queue, made, radioVars, air, status>>

(* wg_wait, in the three steps of WaitGroup.                               *)
Wait ==
  /\ At("wait")
  /\ IF counter = 0
       THEN WgFastPath /\ main' = "close"
       ELSE main' = "take" /\ UNCHANGED wgVars
  /\ UNCHANGED <<bme, esp, resVars, queue, made, radioVars, air, status,
                 incidents>>

Take ==
  /\ At("take")
  /\ WgTake
  /\ main' = "reset"
  /\ UNCHANGED <<bme, esp, resVars, queue, made, radioVars, air, status,
                 incidents>>

Reset ==
  /\ At("reset")
  /\ WgReset
  /\ main' = "close"
  /\ UNCHANGED <<bme, esp, resVars, queue, made, radioVars, air, status,
                 incidents>>

(* closer_close calls what was pushed, last first, and takes no notice of  *)
(* what comes back.  Without ESP-NOW or Wi-Fi no send callback comes any   *)
(* more; whether one does after a failed call is open.                     *)
Close ==
  /\ At("close")
  /\ closers # <<>>
  /\ GiveBack({Head(closers)}, {})
  /\ closers' = Tail(closers)
  /\ \/ Head(closers) \in {"espnow", "wifi"} /\ air' = <<>>
     \/ Head(closers) \notin {"espnow", "wifi"} \ live' /\ UNCHANGED air
  /\ UNCHANGED <<wgVars, taskVars, queue, made, radioVars, status, incidents>>

(* closer_destroy and enter_deep_sleep.                                    *)
Sleep ==
  /\ At("close")
  /\ closers = <<>>
  /\ \/ /\ main' = "asleep"
        /\ UNCHANGED <<wgVars, bme, esp, resVars, queue, made, radioVars, air,
                       status, incidents>>
     \/ "sleep_timer" \in Faults /\ Panic

MainStep ==
  \/ CreateWaitGroup \/ CreateQueue \/ InitNvs \/ LaunchSensor
  \/ InitWifi \/ InitEspnow \/ LaunchRadio
  \/ Wait \/ Take \/ Reset \/ Close \/ Sleep

(* The deep sleep timer, or the reset after a panic: app_main from the top.*)
Wake ==
  /\ ~Running
  /\ counter' = 0 /\ owner' = "NULL" /\ given' = 0
  /\ main' = "boot" /\ bme' = "none" /\ esp' = "none"
  /\ live' = {} /\ lost' = {} /\ closers' = <<>> /\ queue' = <<>>
  /\ air' = <<>>
  /\ made' = 0 /\ cnt' = 0 /\ cur' = 0 /\ status' = 0 /\ transmitted' = 0
  /\ frames' = 0
  /\ target' = "NULL"
  /\ incidents' = {}

-----------------------------------------------------------------------------
(* wgTaskDelete: wg_done, whose configASSERT fails once wg_delete has run, *)
(* then vTaskDelete.  WgDone is the half up to the subtraction.            *)
WgDone(pc, pc1) ==
  /\ pc = "done" /\ "wg" \in live
  /\ WgFetchSub
  /\ pc1 = IF WgLast THEN "notify" ELSE "gone"

(* bme280_init.  It switches the sensor off again when the bus or the      *)
(* handle cannot be created, but not when bme280_default_init fails.       *)
InitSensor ==
  /\ bme = "init"
  /\ \/ live' = live \cup Bme280 /\ UNCHANGED lost /\ bme' = "adc"
     \/ "sensor" \in Faults /\ GiveBack({"power", "i2c"}, {}) /\ bme' = "done"
     \/ "sensor_init" \in Faults /\ GiveBack({}, Bme280) /\ bme' = "done"
  /\ UNCHANGED <<wgVars, main, esp, closers, queue, made, radioVars, air,
                 status, incidents>>

(* bat_adc_init, and bme280_deinit if it fails.  A unit whose channel      *)
(* cannot be configured is not deleted.                                    *)
InitAdc ==
  /\ bme = "adc"
  /\ \/ live' = live \cup {"adc"} /\ UNCHANGED lost /\ bme' = "read"
     \/ "adc" \in Faults /\ GiveBack(Bme280, {}) /\ bme' = "done"
     \/ "adc_channel" \in Faults /\ GiveBack(Bme280, {"adc"}) /\ bme' = "done"
  /\ UNCHANGED <<wgVars, main, esp, closers, queue, made, radioVars, air,
                 status, incidents>>

(* The loop's condition, after packetCounter++.                            *)
MoreSamples == made + 1 < SEND_PACKET

(* One round of the sampling loop: read, seal, and xQueueSend without a    *)
(* timeout.  A released queue fails the assertion inside xQueueSend.       *)
SendSample ==
  /\ bme = "read"
  /\ \/ /\ "queue" \in live
        /\ Len(queue) < ESPNOW_QUEUE_SIZE
        /\ queue' = Append(queue, made + 1)
        /\ made' = made + 1
        /\ bme' = IF MoreSamples THEN "read" ELSE "cleanup"
        /\ UNCHANGED <<wgVars, main, esp, resVars, radioVars, air,
                       status, incidents>>
     \/ "queue" \notin live /\ Panic

(* bat_adc_deinit and bme280_deinit.                                       *)
CleanUp_LeavesPower ==
  /\ bme = "cleanup"
  /\ GiveBack({"adc", "bme280", "i2c"}, {})
  /\ bme' = "done"
  /\ UNCHANGED <<wgVars, main, esp, closers, queue, made, radioVars, air,
                 status, incidents>>
CleanUp ==
  /\ bme = "cleanup"
  /\ GiveBack({"adc"} \cup Bme280, {})
  /\ bme' = "done"
  /\ UNCHANGED <<wgVars, main, esp, closers, queue, made, radioVars, air,
                 status, incidents>>

SensorDone ==
  /\ \/ WgDone(bme, bme')
     \/ bme = "notify" /\ WgNotify /\ bme' = "gone"
  /\ UNCHANGED <<main, esp, resVars, queue, made, radioVars, air, status,
                 incidents>>

SensorDoneTooLate == bme = "done" /\ "wg" \notin live /\ Panic

SensorStep ==
  /\ Running
  /\ InitSensor \/ InitAdc \/ SendSample \/ CleanUp \/ SensorDone
       \/ SensorDoneTooLate

-----------------------------------------------------------------------------
(* The radio task publishes its handle for the callback.                   *)
StartRadio_OneLess ==
  /\ esp = "start"
  /\ target' = "esp"
  /\ cnt' = SEND_PACKET - 1
  /\ esp' = "recv"
  /\ UNCHANGED <<wgVars, main, bme, resVars, queue, made, cur,
                 transmitted, frames, air, status, incidents>>
StartRadio ==
  /\ esp = "start"
  /\ target' = "esp"
  /\ cnt' = SEND_PACKET
  /\ esp' = "recv"
  /\ UNCHANGED <<wgVars, main, bme, resVars, queue, made, cur,
                 transmitted, frames, air, status, incidents>>

(* xQueueReceive with a packet there ...                                   *)
Receive_Peeks ==
  /\ esp = "recv" /\ cnt > 0
  /\ "queue" \in live /\ queue # <<>>
  /\ cur' = Head(queue)
  /\ esp' = "send"
  /\ UNCHANGED <<wgVars, main, bme, resVars, queue, made, cnt, target,
                 transmitted, frames, air, status, incidents>>
Receive ==
  /\ esp = "recv" /\ cnt > 0
  /\ "queue" \in live /\ queue # <<>>
  /\ cur' = Head(queue)
  /\ queue' = Tail(queue)
  /\ esp' = "send"
  /\ UNCHANGED <<wgVars, main, bme, resVars, made, cnt, target,
                 transmitted, frames, air, status, incidents>>

(* ... or running into its timeout, which uses up a round of the loop.  A  *)
(* task that blocked before the queue was released wakes up in freed       *)
(* memory and may get away with it; one that calls later does not.         *)
ReceiveTimeout ==
  /\ esp = "recv" /\ cnt > 0
  /\ queue = <<>> \/ "queue" \notin live
  /\ cnt' = cnt - 1
  /\ incidents' = incidents \cup {"packet"}
  /\ UNCHANGED <<wgVars, taskVars, resVars, queue, made, cur, target,
                 transmitted, frames, air, status>>

ReceiveReleased ==
  /\ esp = "recv" /\ cnt > 0
  /\ "queue" \notin live
  /\ Panic

(* esp_now_send accepts the packet, and its callback will come; or it      *)
(* fails, and the task gives up what is left in the queue.                 *)
Transmit_NoWait ==
  /\ esp = "send" /\ "espnow" \in live
  /\ air' = Append(air, cur)
  /\ transmitted' = cur /\ frames' = frames + 1
  /\ cnt' = cnt - 1
  /\ esp' = "recv"
  /\ UNCHANGED <<wgVars, main, bme, resVars, queue, made, cur, target,
                 status, incidents>>
Transmit ==
  /\ esp = "send" /\ "espnow" \in live
  /\ air' = Append(air, cur)
  /\ transmitted' = cur /\ frames' = frames + 1
  /\ esp' = "wait"
  /\ UNCHANGED <<wgVars, main, bme, resVars, queue, made, cnt, cur,
                 target, status, incidents>>

TransmitFails ==
  /\ esp = "send"
  /\ "send" \in Faults \/ ~({"espnow", "wifi"} \subseteq live)
  /\ target' = "NULL"
  /\ esp' = "done"
  /\ UNCHANGED <<wgVars, main, bme, resVars, queue, made, cnt, cur,
                 transmitted, frames, air, status, incidents>>

(* xTaskNotifyWait: take the status that is there, or the timeout.         *)
AwaitStatus ==
  /\ esp = "wait" /\ status # 0
  /\ status' = 0
  /\ cnt' = cnt - 1
  /\ esp' = "recv"
  /\ UNCHANGED <<wgVars, main, bme, resVars, queue, made, cur, target,
                 transmitted, frames, air, incidents>>

StatusTimeout ==
  /\ esp = "wait" /\ status = 0
  /\ incidents' = incidents \cup {"status"}
  /\ cnt' = cnt - 1
  /\ esp' = "recv"
  /\ UNCHANGED <<wgVars, main, bme, resVars, queue, made, cur, target,
                 transmitted, frames, air, status>>

(* The loop is over: withdraw the handle before the task ends.             *)
StopRadio_KeepsHandle ==
  /\ esp = "recv" /\ cnt = 0
  /\ esp' = "done"
  /\ UNCHANGED <<wgVars, main, bme, resVars, queue, made, radioVars, air,
                 status, incidents>>
StopRadio ==
  /\ esp = "recv" /\ cnt = 0
  /\ target' = "NULL"
  /\ esp' = "done"
  /\ UNCHANGED <<wgVars, main, bme, resVars, queue, made, cnt, cur,
                 transmitted, frames, air, status, incidents>>

RadioDone ==
  /\ \/ WgDone(esp, esp')
     \/ esp = "notify" /\ WgNotify /\ esp' = "gone"
  /\ UNCHANGED <<main, bme, resVars, queue, made, radioVars, air, status,
                 incidents>>

RadioDoneTooLate == esp = "done" /\ "wg" \notin live /\ Panic

RadioStep ==
  /\ Running
  /\ \/ StartRadio \/ Receive \/ ReceiveTimeout \/ ReceiveReleased
     \/ Transmit \/ TransmitFails \/ AwaitStatus \/ StatusTimeout
     \/ StopRadio \/ RadioDone \/ RadioDoneTooLate

(* test_espnow_send_cb, in the Wi-Fi task: nobody else runs between its    *)
(* load of xTaskToNotify and the notification.                             *)
SendCallback ==
  /\ Running
  /\ air # <<>>
  /\ air' = Tail(air)
  /\ status' = IF target # "NULL" THEN Head(air) ELSE status
  /\ UNCHANGED <<wgVars, taskVars, resVars, queue, made, radioVars,
                 incidents>>

-----------------------------------------------------------------------------
Next == MainStep \/ Wake \/ SensorStep \/ RadioStep \/ SendCallback

(* FreeRTOS runs every ready task in the end (each higher one blocks), the *)
(* timer ends the deep sleep, and the driver reports every frame.          *)
Spec ==
  /\ Init /\ [][Next]_vars
  /\ WF_vars(MainStep) /\ WF_vars(Wake) /\ WF_vars(SensorStep)
  /\ WF_vars(RadioStep) /\ WF_vars(SendCallback)

-----------------------------------------------------------------------------
(* app_main is past wg_wait and has not reset.                             *)
Released == main \in {"close", "asleep"}

(* xQueueSend of the sensor task waits without a timeout and app_main waits*)
(* for the sensor task without one, so it must never find the queue full,  *)
(* even if the radio task is never created (main.c:203, 36).               *)
SenderNeverBlocks == bme = "read" => Len(queue) < ESPNOW_QUEUE_SIZE

(* The sensor task has left its resources and the queue before app_main    *)
(* releases anything, whatever happens to the radio task (main.c:363-366). *)
SensorStopsBeforeRelease == Released => bme \in {"none", "gone"}

(* So has the radio task, if it was added before the sensor task ended.    *)
RadioStopsBeforeRelease ==
  Released /\ "late" \notin incidents => esp \in {"none", "gone"}

(* Nobody works on what app_main releases after wg_wait.                   *)
TasksStopBeforeRelease == SensorStopsBeforeRelease /\ RadioStopsBeforeRelease

(* wg_wait returns from its notification when the counter has reached zero *)
(* (wait_group.c:70-74).                                                   *)
ZeroWhenWaitReturns == main = "reset" => counter = 0

(* The callback never notifies a task that is being deleted: the handle is *)
(* withdrawn before wgTaskDelete on every path (main.c:247, 265).          *)
HandleIsLive == target # "NULL" => esp \in {"recv", "send", "wait"}

(* As long as no wait for a status ran into its timeout, the status that   *)
(* ends a wait is the one of the packet just sent (main.c:243-255).        *)
StatusIsOfLastSend ==
  status # 0 /\ "status" \notin incidents => esp = "wait" /\ status = cur

(* A radio task that ran to the end of its loop without a timeout in       *)
(* xQueueReceive has transmitted every sample (main.c:240-261).            *)
NothingLeftBehind ==
  esp \in {"done", "notify", "gone"} /\ cnt = 0 /\ "packet" \notin incidents
    => transmitted = SEND_PACKET

(* Everything that draws current is off in deep sleep, whatever has failed *)
(* (main.c:89-94, 145-150, 363-366).                                        *)
EverythingOff == main = "asleep" => live \cap Peripherals = {}

(* A failure keeps nothing on but what it concerns itself: what is still   *)
(* on in deep sleep is what its own release call could not switch off, or  *)
(* what a failed step has left on.  Everything else has been given back by *)
(* the sensor task and the closers between them, on every path, the radio  *)
(* task's timeouts and failed sends included (main.c:89-94, 125-150,       *)
(* 211-215, 363-366).                                                      *)
AllOffBeforeSleep == main = "asleep" => live \cap Peripherals \subseteq lost

(* ESP-NOW is torn down before Wi-Fi and Wi-Fi before NVS (main.c:331-347, *)
(* 366): the closers run in the reverse order of the initialisations, and  *)
(* one that fails or is missing does not upset those of the others.        *)
TornDownInReverse ==
  /\ "espnow" \in live \ lost => "wifi" \in live
  /\ "wifi" \in live \ lost => "nvs" \in live
  /\ "nvs" \in live \ lost => {"queue", "wg"} \subseteq live

(* Every waking period in which the tasks could be created ends, in deep   *)
(* sleep or in a reset: the battery does not drain because one task waits  *)
(* for another (main.c:363).                                               *)
WakingPeriodEnds == []<>(~Running \/ "unborn" \in incidents)

(* One waking period transmits its samples in order, none twice.           *)
BatchInOrder ==
  INSTANCE TelemetryBatch WITH Batch <- SEND_PACKET, taken <- made
Batch == BatchInOrder!Spec
=============================================================================
