--------------------------- MODULE ReceiverProofs ---------------------------
(***************************************************************************)
(* The receiver for any number of frames, any of them damaged, and any     *)
(* failure of the initialisation.  That no line is older than the one      *)
(* before it holds for any backlog; that a line shows what arrived, as long*)
(* as at most four frames are on their way to it at a time.                *)
(***************************************************************************)
EXTENDS Receiver, SequenceTheorems, TLAPS

(* The slot of the n-th frame.                                             *)
SlotOf(n) == ((n - 1) % Uint8) % ESPNOW_QUEUE_SIZE

(* Four frames in a row have slots of their own, also where the counter    *)
(* wraps from 255 to 0, i.e. from slot 3 to slot 0.                        *)
LEMMA SlotsDiffer ==
  ASSUME NEW m \in Nat, NEW n \in Nat, m > 0, m < n, n - m <= 3
  PROVE  SlotOf(m) # SlotOf(n)
  BY DEF SlotOf, Uint8, ESPNOW_QUEUE_SIZE

(* The number of the last frame whose event has left the callback, and of  *)
(* the events the task is working on.                                      *)
Queued == IF cb = NoEvent THEN received ELSE received - 1
Working == IF task \in {"parse", "log"} THEN 1 ELSE 0

(* The counter counts frames modulo 256.                                   *)
IndexInv == data_buffer_index = received % Uint8

(* An event that is held is that of one frame and refers to its slot.      *)
Holds(e, n) ==
  /\ e.frame = n /\ n \in 1 .. received
  /\ e.slot = SlotOf(n)
  /\ data_buffer_pool[e.slot] = n

(* The held events are those of the last frames, in order.                 *)
HeldInv ==
  /\ Pending <= Backlog
  /\ Len(queue) + Working <= Queued
  /\ cb # NoEvent => Holds(cb, received)
  /\ \A i \in 1 .. Len(queue) : Holds(queue[i], Queued - Len(queue) + i)
  /\ Working = 1 => Holds(recv_cb, Queued - Len(queue))

(* What is about to be printed is valid, and newer than the last line.     *)
LineInv ==
  /\ task = "log" => recv_cb.frame \notin Short \cup Damaged
  /\ LinesAreTrue
  /\ line.shows <= Queued - Len(queue) - Working

(* Without a queue there is no task.                                       *)
TaskInv ==
  main \in {"nvs", "wifi", "queue", "espnow", "peer", "deinit", "task"}
    => task = "none"

Inv == TypeOK /\ IndexInv /\ HeldInv /\ LineInv /\ TaskInv

-----------------------------------------------------------------------------
(* Types, whatever the backlog.                                            *)
LEMMA TypeStep == TypeOK /\ [Next]_vars => TypeOK'
<1> SUFFICES ASSUME TypeOK, [Next]_vars PROVE TypeOK'
  OBVIOUS
<1>e. NoEvent \in Event /\ Slots # {} /\ 0 \in Slots
  BY DEF NoEvent, Event, Slots, ESPNOW_QUEUE_SIZE
<1>n. NextSlot \in Slots
  BY DEF NextSlot, Slots, ESPNOW_QUEUE_SIZE, TypeOK, Uint8
<1> USE DEF TypeOK, dataVars, MainPc
<1>1. CASE Panic \/ UNCHANGED vars
  BY <1>1 DEF Panic, vars
<1>2. CASE InitNvs \/ InitWifi \/ CreateQueue \/ InitEspnow \/ DeinitEspnow
             \/ CreateTask
  BY <1>2, <1>1 DEF InitNvs, InitWifi, CreateQueue, InitEspnow,
     DeinitEspnow, CreateTask, Abort
<1>3. CASE AddPeer
  <2>1. <<>> \in Seq(Event) /\ Len(<<>>) <= ESPNOW_QUEUE_SIZE
    BY DEF ESPNOW_QUEUE_SIZE
  <2>2. queue' \in Seq(Event) /\ Len(queue') <= ESPNOW_QUEUE_SIZE
    BY <1>3, <2>1 DEF AddPeer
  <2> QED BY <1>3, <2>2 DEF AddPeer
<1>4. CASE Reboot
  BY <1>4, <1>e DEF Reboot, Uint8, ESPNOW_QUEUE_SIZE
<1>5. CASE RecvFrame
  <2>1. cb' \in Event
    BY <1>5, <1>n DEF RecvFrame, Event
  <2>2. data_buffer_index' \in 0 .. Uint8 - 1
    BY <1>5 DEF RecvFrame, Uint8
  <2>3. data_buffer_pool' \in [Slots -> Nat]
    BY <1>5, <1>n DEF RecvFrame
  <2> QED BY <1>5, <2>1, <2>2, <2>3 DEF RecvFrame
<1>6. CASE QueueEvent
  <2>1. /\ queue' = Append(queue, cb) /\ Len(queue) < ESPNOW_QUEUE_SIZE
        /\ queue \in Seq(Event) /\ cb \in Event
    BY <1>6 DEF QueueEvent
  <2>2. queue' \in Seq(Event) /\ Len(queue') = Len(queue) + 1
    BY <2>1, AppendProperties
  <2>3. Len(queue') <= ESPNOW_QUEUE_SIZE
    BY <2>1, <2>2, LenProperties DEF ESPNOW_QUEUE_SIZE
  <2> QED BY <1>6, <1>e, <2>2, <2>3 DEF QueueEvent
<1>7. CASE DropEvent
  BY <1>7, <1>e DEF DropEvent
<1>8. CASE QueueGone
  BY <1>8, <1>1 DEF QueueGone
<1>9. CASE TakeEvent
  <2>1. queue # <<>> /\ queue' = Tail(queue) /\ recv_cb' = Head(queue)
    BY <1>9 DEF TakeEvent
  <2>2. /\ queue' \in Seq(Event) /\ Head(queue) \in Event
        /\ Len(queue') = Len(queue) - 1
    BY <2>1, HeadTailProperties
  <2>3. Len(queue') <= ESPNOW_QUEUE_SIZE
    BY <2>2, LenProperties DEF ESPNOW_QUEUE_SIZE
  <2> QED BY <1>9, <2>1, <2>2, <2>3 DEF TakeEvent
<1>10. CASE Parse
  BY <1>10 DEF Parse
<1>11. CASE Log
  <2>1. recv_cb.frame \in Nat /\ data_buffer_pool[recv_cb.slot] \in Nat
    BY DEF Event
  <2> QED BY <1>11, <2>1 DEF Log
<1> QED
  BY <1>1, <1>2, <1>3, <1>4, <1>5, <1>6, <1>7, <1>8, <1>9, <1>10, <1>11
  DEF Next, MainStep, CallbackStep, TaskStep

-----------------------------------------------------------------------------
(* The events, for a backlog of at most four.                              *)
LEMMA HeldStep ==
  ASSUME Backlog <= 4, Inv, [Next]_vars
  PROVE  HeldInv' /\ IndexInv'
<1>n. /\ received \in Nat /\ Len(queue) \in Nat /\ Backlog \in Nat
      /\ Queued \in Int /\ Working \in {0, 1} /\ queue \in Seq(Event)
      /\ Queued = received \/ Queued = received - 1
  BY ReceiverAssumption, LenProperties DEF Inv, TypeOK, Queued, Working
<1>p. Pending = Len(queue) + (received - Queued) + Working /\ Pending <= Backlog
  <2>1. Pending = Len(queue) + (received - Queued) + Working
    <3>1. CASE cb = NoEvent
      BY <3>1, <1>n DEF Pending, Queued, Working
    <3>2. CASE cb # NoEvent
      BY <3>2, <1>n DEF Pending, Queued, Working
    <3> QED BY <3>1, <3>2
  <2>2. Pending <= Backlog
    BY DEF Inv, HeldInv
  <2> QED BY <2>1, <2>2
<1>f. ASSUME UNCHANGED <<data_buffer_index, data_buffer_pool, queue, cb,
                         received>>,
             Working' = Working, Working = 1 => recv_cb' = recv_cb
      PROVE  HeldInv' /\ IndexInv'
  BY <1>f DEF Inv, HeldInv, IndexInv, Holds, Pending, Queued, Working
<1> USE DEF dataVars
<1>1. CASE Panic \/ UNCHANGED vars
  BY <1>1, <1>f DEF Panic, vars, Working
<1>2. CASE InitNvs \/ InitWifi \/ CreateQueue \/ InitEspnow \/ DeinitEspnow
  BY <1>1, <1>2, <1>f DEF InitNvs, InitWifi, CreateQueue, InitEspnow,
     DeinitEspnow, Abort, Working
<1>3. CASE CreateTask
  <2>1. Working = 0 /\ Working' = 0
    BY <1>3 DEF CreateTask, Inv, TaskInv, Working
  <2> QED BY <1>3, <2>1, <1>f DEF CreateTask
<1>4. CASE AddPeer
  <2>1. /\ UNCHANGED <<data_buffer_index, data_buffer_pool, cb, task, recv_cb,
                       received>>
        /\ queue' = queue \/ (queue' = <<>> /\ Len(queue') = 0)
    BY <1>4 DEF AddPeer
  <2>2. Working = 0 /\ Working' = 0 /\ Queued' = Queued
    BY <1>4, <2>1 DEF AddPeer, Inv, TaskInv, Working, Queued
  <2>3. CASE queue' = queue
    BY <2>1, <2>2, <2>3, <1>f
  <2>4. CASE queue' = <<>> /\ Len(queue') = 0
    <3>4. Pending' = IF cb = NoEvent THEN 0 ELSE 1
      BY <2>1, <2>2, <2>4 DEF Pending, Working
    <3>1. Pending' <= Backlog
      BY <2>2, <3>4, <1>n, <1>p DEF Queued
    <3>2. (cb # NoEvent => Holds(cb, received))'
      BY <2>1 DEF Inv, HeldInv, Holds
    <3>3. IndexInv' /\ 0 <= Queued
      BY <2>1, <1>n DEF Inv, IndexInv, HeldInv
    <3> QED BY <2>1, <2>2, <2>4, <1>n, <3>1, <3>2, <3>3 DEF HeldInv
  <2> QED BY <2>1, <2>3, <2>4
<1>5. CASE Reboot
  <2>1. /\ Len(queue') = 0 /\ queue' = <<>> /\ cb' = NoEvent /\ received' = 0
        /\ task' = "none" /\ data_buffer_index' = 0
    BY <1>5 DEF Reboot
  <2> QED
    BY <2>1, <1>n, <1>p DEF HeldInv, IndexInv, Pending, Queued, Working, Uint8
<1>6. CASE RecvFrame
  <2>n. PICK n \in Nat : n = received + 1
    BY <1>n
  <2>1. /\ cb = NoEvent /\ Pending < Backlog /\ received' = n
        /\ data_buffer_index' = (data_buffer_index + 1) % Uint8
        /\ data_buffer_pool' = [data_buffer_pool EXCEPT ![NextSlot] = n]
        /\ cb' = [frame |-> n, slot |-> NextSlot]
        /\ UNCHANGED <<queue, task, recv_cb>>
    BY <1>6, <2>n DEF RecvFrame
  <2>2. NextSlot = SlotOf(n) /\ NextSlot \in Slots /\ IndexInv'
    BY <2>n, <2>1, <1>n DEF Inv, IndexInv, NextSlot, SlotOf, Slots, Uint8,
       ESPNOW_QUEUE_SIZE
  <2>3. cb' # NoEvent /\ Queued = received /\ Queued' = Queued
    BY <2>n, <2>1, <1>n DEF Queued, NoEvent
  <2>4. Working' = Working /\ Pending' = Pending + 1 /\ Pending' <= Backlog
    <3>1. Working' = Working
      BY <2>1 DEF Working
    <3>2. Pending = Len(queue) + 0 + Working
      BY <2>1 DEF Pending, Working
    <3>3. Pending' = Len(queue) + 1 + Working
      BY <2>1, <2>3, <3>1 DEF Pending, Working
    <3> QED BY <2>1, <3>1, <3>2, <3>3, <1>n
  <2>5. Holds(cb, n)'
    BY <2>n, <2>1, <2>2, <1>n DEF Holds, Inv, TypeOK
  <2>6. ASSUME NEW e, NEW m \in 1 .. received, Holds(e, m), n - m <= 3
        PROVE  Holds(e, m)'
    <3>1. SlotOf(m) # SlotOf(n)
      BY <2>n, <1>n, <2>6, SlotsDiffer
    <3> QED BY <2>n, <2>1, <2>2, <2>6, <3>1, <1>n DEF Holds, Inv, TypeOK
  <2>7. ASSUME NEW i \in 1 .. Len(queue)
        PROVE  Holds(queue[i], Queued - Len(queue) + i)'
    <3>1. Holds(queue[i], Queued - Len(queue) + i)
      BY DEF Inv, HeldInv
    <3>2. /\ Queued - Len(queue) + i \in 1 .. received
          /\ n - (Queued - Len(queue) + i) <= 3
      BY <2>n, <1>n, <1>p, <2>1, <2>3, <3>1 DEF Holds
    <3>3. (Queued - Len(queue) + i)' = Queued - Len(queue) + i
      BY <2>1, <2>3
    <3> QED BY <3>1, <3>2, <3>3, <2>1, <2>6 DEF Holds
  <2>8. Working = 1 => Holds(recv_cb, Queued - Len(queue))'
    <3> SUFFICES ASSUME Working = 1
                 PROVE  Holds(recv_cb, Queued - Len(queue))'
      OBVIOUS
    <3>1. Holds(recv_cb, Queued - Len(queue))
      BY DEF Inv, HeldInv
    <3>2. /\ Queued - Len(queue) \in 1 .. received
          /\ n - (Queued - Len(queue)) <= 3
      BY <2>n, <1>n, <1>p, <2>1, <2>3, <3>1 DEF Holds
    <3>3. (Queued - Len(queue))' = Queued - Len(queue)
      BY <2>1, <2>3
    <3> QED BY <3>1, <3>2, <3>3, <2>1, <2>6 DEF Holds
  <2>9. Len(queue') + Working' <= Queued'
    BY <2>1, <2>3, <2>4 DEF Inv, HeldInv
  <2> QED BY <2>1, <2>2, <2>3, <2>4, <2>5, <2>7, <2>8, <2>9 DEF HeldInv
<1>7. CASE QueueEvent
  <2>1. /\ cb # NoEvent /\ cb' = NoEvent /\ queue' = Append(queue, cb)
        /\ cb \in Event
        /\ UNCHANGED <<data_buffer_index, data_buffer_pool, task, recv_cb,
                       received>>
    BY <1>7 DEF QueueEvent, Inv, TypeOK
  <2>2. /\ Len(queue') = Len(queue) + 1
        /\ \A i \in 1 .. Len(queue) : queue'[i] = queue[i]
        /\ queue'[Len(queue) + 1] = cb
    BY <2>1, <1>n, AppendProperties
  <2>3. Queued = received - 1 /\ Queued' = received /\ Working' = Working
    BY <2>1 DEF Queued, Working
  <2>4. Pending' = Pending
    <3>1. Pending = Len(queue) + 1 + Working
      BY <2>1 DEF Pending, Working
    <3>2. Pending' = Len(queue') + 0 + Working'
      BY <2>1 DEF Pending, Working
    <3> QED BY <3>1, <3>2, <2>2, <2>3, <1>n
  <2>5. Queued' - Len(queue') = Queued - Len(queue)
    BY <2>2, <2>3, <1>n
  <2>6. ASSUME NEW i \in 1 .. Len(queue')
        PROVE  Holds(queue[i], Queued - Len(queue) + i)'
    <3>1. CASE i \in 1 .. Len(queue)
      <4>1. Holds(queue[i], Queued - Len(queue) + i)
        BY <3>1 DEF Inv, HeldInv
      <4> QED BY <4>1, <3>1, <2>1, <2>2, <2>5 DEF Holds
    <3>2. CASE i = Len(queue) + 1
      <4>1. Holds(cb, received)
        BY <2>1 DEF Inv, HeldInv
      <4>2. Queued' - Len(queue') + i = received
        BY <3>2, <2>2, <2>3, <1>n
      <4> QED BY <4>1, <4>2, <3>2, <2>1, <2>2 DEF Holds
    <3> QED BY <3>1, <3>2, <2>2, <1>n
  <2>7. (Working = 1 => Holds(recv_cb, Queued - Len(queue)))'
    BY <2>1, <2>3, <2>5 DEF Inv, HeldInv, Holds
  <2>8. Len(queue') + Working' <= Queued'
    BY <2>2, <2>3, <1>n DEF Inv, HeldInv
  <2>9. IndexInv' /\ Pending' <= Backlog
    BY <2>1, <2>4, <1>p DEF Inv, IndexInv
  <2> QED BY <2>1, <2>6, <2>7, <2>8, <2>9 DEF HeldInv
<1>8. CASE DropEvent
  <2>1. Len(queue) = 6 /\ cb # NoEvent
    BY <1>8 DEF DropEvent, ESPNOW_QUEUE_SIZE
  <2> QED BY <2>1, <1>n, <1>p
<1>9. CASE QueueGone
  BY <1>1, <1>9 DEF QueueGone
<1>10. CASE TakeEvent
  <2>1. /\ task = "ready" /\ task' = "parse" /\ queue # <<>>
        /\ recv_cb' = Head(queue) /\ queue' = Tail(queue)
        /\ UNCHANGED <<data_buffer_index, data_buffer_pool, cb, received>>
    BY <1>10 DEF TakeEvent
  <2>2. /\ Len(queue') = Len(queue) - 1 /\ Len(queue) > 0
        /\ \A i \in 1 .. Len(queue') : queue'[i] = queue[i + 1]
        /\ recv_cb' = queue[1]
    BY <2>1, <1>n, HeadTailProperties, LenProperties, EmptySeq
  <2>3. Queued' = Queued /\ Working = 0 /\ Working' = 1
    BY <2>1 DEF Queued, Working
  <2>4. Pending' = Pending
    <3>1. Pending = Len(queue) + (IF cb = NoEvent THEN 0 ELSE 1) + 0
      BY <2>1 DEF Pending
    <3>2. Pending' = Len(queue') + (IF cb = NoEvent THEN 0 ELSE 1) + 1
      BY <2>1 DEF Pending
    <3> QED BY <3>1, <3>2, <2>2, <1>n
  <2>5. ASSUME NEW i \in 1 .. Len(queue')
        PROVE  Holds(queue[i], Queued - Len(queue) + i)'
    <3>1. Holds(queue[i + 1], Queued - Len(queue) + (i + 1))
      BY <2>2, <1>n DEF Inv, HeldInv
    <3>2. Queued' - Len(queue') + i = Queued - Len(queue) + (i + 1)
      BY <2>2, <2>3, <1>n
    <3> QED BY <3>1, <3>2, <2>1, <2>2 DEF Holds
  <2>6. Holds(recv_cb, Queued - Len(queue))'
    <3>1. Holds(queue[1], Queued - Len(queue) + 1)
      BY <2>2, <1>n DEF Inv, HeldInv
    <3>2. Queued' - Len(queue') = Queued - Len(queue) + 1
      BY <2>2, <2>3, <1>n
    <3> QED BY <3>1, <3>2, <2>1, <2>2 DEF Holds
  <2>7. Len(queue') + Working' <= Queued'
    BY <2>2, <2>3, <1>n DEF Inv, HeldInv
  <2>8. (cb # NoEvent => Holds(cb, received))'
    BY <2>1 DEF Inv, HeldInv, Holds
  <2>9. IndexInv' /\ Pending' <= Backlog
    BY <2>1, <2>4, <1>p DEF Inv, IndexInv
  <2> QED BY <2>5, <2>6, <2>7, <2>8, <2>9 DEF HeldInv
<1>11. CASE Parse \/ Log
  <2>1. /\ Working = 1 /\ Working' \in {0, 1}
        /\ UNCHANGED <<data_buffer_index, data_buffer_pool, queue, cb, recv_cb,
                       received>>
    BY <1>11 DEF Parse, Log, Working
  <2>2. Pending' <= Backlog
    <3>1. Pending = Len(queue) + (IF cb = NoEvent THEN 0 ELSE 1) + Working
      BY DEF Pending, Working
    <3>2. Pending' = Len(queue) + (IF cb = NoEvent THEN 0 ELSE 1) + Working'
      BY <2>1 DEF Pending, Working
    <3> QED BY <3>1, <3>2, <2>1, <1>n, <1>p
  <2>3. Pending' <= Backlog /\ Queued' = Queued /\ IndexInv'
    BY <2>1, <2>2 DEF Inv, IndexInv, Queued
  <2>4. Len(queue') + Working' <= Queued'
    BY <2>1, <2>3, <1>n DEF Inv, HeldInv
  <2>5. (cb # NoEvent => Holds(cb, received))'
    BY <2>1 DEF Inv, HeldInv, Holds
  <2>6. (\A i \in 1 .. Len(queue) : Holds(queue[i], Queued - Len(queue) + i))'
    BY <2>1, <2>3 DEF Inv, HeldInv, Holds
  <2>7. (Working = 1 => Holds(recv_cb, Queued - Len(queue)))'
    BY <2>1, <2>3 DEF Inv, HeldInv, Holds
  <2> QED BY <2>3, <2>4, <2>5, <2>6, <2>7 DEF HeldInv
<1> QED
  BY <1>1, <1>2, <1>3, <1>4, <1>5, <1>6, <1>7, <1>8, <1>9, <1>10, <1>11
  DEF Next, MainStep, CallbackStep, TaskStep

(* app_main creates the task last.                                         *)
LEMMA TaskStepInv == TaskInv /\ [Next]_vars => TaskInv'
<1> SUFFICES ASSUME TaskInv, [Next]_vars PROVE TaskInv'
  OBVIOUS
<1>1. CASE Panic \/ UNCHANGED vars
  BY <1>1 DEF Panic, vars, TaskInv
<1>2. CASE MainStep
  BY <1>1, <1>2 DEF MainStep, InitNvs, InitWifi, CreateQueue, InitEspnow,
     AddPeer, DeinitEspnow, CreateTask, Abort, TaskInv
<1>3. CASE Reboot
  BY <1>3 DEF Reboot, TaskInv
<1>4. CASE RecvFrame \/ QueueEvent \/ DropEvent
  BY <1>4 DEF RecvFrame, QueueEvent, DropEvent, TaskInv
<1>5. CASE TakeEvent \/ Parse \/ Log
  BY <1>5 DEF TakeEvent, Parse, Log, TaskInv
<1> QED
  BY <1>1, <1>2, <1>3, <1>4, <1>5 DEF Next, CallbackStep, QueueGone, TaskStep

(* The lines.                                                              *)
LEMMA LineStep ==
  ASSUME Backlog <= 4, Inv, HeldInv', [Next]_vars
  PROVE  LineInv'
<1>n. /\ received \in Nat /\ Len(queue) \in Nat /\ Queued \in Int
      /\ Working \in {0, 1} /\ queue \in Seq(Event)
      /\ line.shows \in Nat
  BY LenProperties DEF Inv, TypeOK, Queued, Working
<1>f. ASSUME UNCHANGED <<queue, cb, task, recv_cb, received, line>>
      PROVE  LineInv'
  BY <1>f DEF Inv, LineInv, LinesAreTrue, Queued, Working
<1> USE DEF dataVars
<1>1. CASE Panic \/ UNCHANGED vars
  BY <1>1, <1>f DEF Panic, vars
<1>2. CASE InitNvs \/ InitWifi \/ CreateQueue \/ InitEspnow \/ DeinitEspnow
  BY <1>1, <1>2, <1>f DEF InitNvs, InitWifi, CreateQueue, InitEspnow,
     DeinitEspnow, Abort
<1>3. CASE CreateTask
  <2>1. task' # "log" /\ Working' = 0 /\ Working = 0
    BY <1>3 DEF CreateTask, Inv, TaskInv, Working
  <2> QED
    BY <1>3, <2>1 DEF CreateTask, Inv, LineInv, LinesAreTrue, Queued
<1>4. CASE AddPeer
  <2>1. task' = "none" /\ Working' = 0 /\ Working = 0 /\ Queued' = Queued
    BY <1>4 DEF AddPeer, Inv, TaskInv, Working, Queued
  <2>2. Len(queue') <= Len(queue) /\ Len(queue') \in Nat
    BY <1>4, <1>n DEF AddPeer
  <2> QED
    BY <1>4, <1>n, <2>1, <2>2 DEF AddPeer, Inv, LineInv, LinesAreTrue
<1>5. CASE Reboot
  <2>1. Len(queue') = 0 /\ cb' = NoEvent /\ received' = 0 /\ task' = "none"
        /\ line' = [number |-> 0, event |-> 0, shows |-> 0]
    BY <1>5 DEF Reboot
  <2> QED BY <2>1 DEF LineInv, LinesAreTrue, Queued, Working
<1>6. CASE RecvFrame
  <2>1. Queued' = Queued /\ Working' = Working
    BY <1>6, <1>n DEF RecvFrame, Queued, Working, NoEvent
  <2> QED BY <1>6, <2>1 DEF RecvFrame, Inv, LineInv, LinesAreTrue
<1>7. CASE QueueEvent
  <2>1. Len(queue') = Len(queue) + 1 /\ UNCHANGED <<task, recv_cb, line>>
    BY <1>7, <1>n, AppendProperties DEF QueueEvent, Inv, TypeOK
  <2>2. Queued' = Queued + 1 /\ Working' = Working
    BY <1>7, <1>n DEF QueueEvent, Queued, Working
  <2>3. Queued' - Len(queue') - Working' = Queued - Len(queue) - Working
    BY <2>1, <2>2, <1>n
  <2> QED BY <2>1, <2>3 DEF Inv, LineInv, LinesAreTrue
<1>8. CASE DropEvent
  <2>1. UNCHANGED <<queue, task, recv_cb, line>> /\ Working' = Working
        /\ Queued' = Queued + 1
    BY <1>8, <1>n DEF DropEvent, Queued, Working
  <2> QED BY <2>1, <1>n DEF Inv, LineInv, LinesAreTrue
<1>9. CASE QueueGone
  BY <1>1, <1>9 DEF QueueGone
<1>10. CASE TakeEvent
  <2>1. Len(queue') = Len(queue) - 1 /\ Queued' = Queued /\ line' = line
        /\ Working = 0 /\ Working' = 1 /\ task' = "parse"
    BY <1>10, <1>n, HeadTailProperties DEF TakeEvent, Queued, Working
  <2>2. Queued' - Len(queue') - Working' = Queued - Len(queue) - Working
    BY <2>1, <1>n
  <2> QED BY <2>1, <2>2 DEF Inv, LineInv, LinesAreTrue
<1>11. CASE Parse
  <2>1. Working = 1 /\ Working' \in {0, 1} /\ Queued' = Queued
        /\ UNCHANGED <<queue, recv_cb, line>>
    BY <1>11 DEF Parse, Working, Queued
  <2>2. Holds(recv_cb, Queued - Len(queue))
    BY <2>1 DEF Inv, HeldInv
  <2>3. task' = "log" => recv_cb.frame \notin Short \cup Damaged
    BY <1>11, <2>2 DEF Parse, Valid, Holds
  <2>4. line'.shows <= Queued' - Len(queue') - Working'
    BY <2>1, <1>n DEF Inv, LineInv
  <2> QED BY <2>1, <2>3, <2>4 DEF Inv, LineInv, LinesAreTrue
<1>12. CASE Log
  <2>1. Working = 1 /\ Working' = 0 /\ Queued' = Queued /\ queue' = queue
        /\ task' = "ready"
        /\ line' = [number |-> line.number + 1, event |-> recv_cb.frame,
                    shows |-> data_buffer_pool[recv_cb.slot]]
    BY <1>12 DEF Log, Working, Queued
  <2>2. Holds(recv_cb, Queued - Len(queue))
    BY <2>1 DEF Inv, HeldInv
  <2>3. line'.shows = recv_cb.frame /\ line'.event = recv_cb.frame
        /\ recv_cb.frame = Queued - Len(queue)
    BY <2>1, <2>2 DEF Holds
  <2> QED BY <2>1, <2>3, <1>n DEF LineInv, LinesAreTrue
<1> QED
  BY <1>1, <1>2, <1>3, <1>4, <1>5, <1>6, <1>7, <1>8, <1>9, <1>10, <1>11, <1>12
  DEF Next, MainStep, CallbackStep, TaskStep

(* The reset state.                                                        *)
LEMMA InitInv == Init => Inv
<1> SUFFICES ASSUME Init PROVE Inv
  OBVIOUS
<1>1. /\ Len(queue) = 0 /\ queue = <<>> /\ cb = NoEvent /\ received = 0
      /\ task = "none" /\ data_buffer_index = 0 /\ recv_cb = NoEvent
      /\ line = [number |-> 0, event |-> 0, shows |-> 0]
  BY DEF Init
<1>2. NoEvent \in Event /\ <<>> \in Seq(Event)
  BY DEF NoEvent, Event, Slots, ESPNOW_QUEUE_SIZE
<1>3. TypeOK
  BY <1>1, <1>2 DEF Init, TypeOK, MainPc, Uint8, ESPNOW_QUEUE_SIZE
<1>4. IndexInv /\ HeldInv
  BY <1>1, ReceiverAssumption DEF IndexInv, HeldInv, Pending, Queued,
     Working, Uint8
<1>5. LineInv /\ TaskInv
  BY <1>1 DEF LineInv, LinesAreTrue, TaskInv, Queued, Working
<1> QED BY <1>3, <1>4, <1>5 DEF Inv

(* The inductive invariant of the receiver.                                *)
THEOREM Invariant == ASSUME Backlog <= 4 PROVE Spec => []Inv
<1>1. Inv /\ [Next]_vars => Inv'
  BY TypeStep, HeldStep, LineStep, TaskStepInv DEF Inv
<1> QED BY <1>1, InitInv, PTL DEF Spec

(* The state of the receiver keeps its type, whatever the backlog.         *)
THEOREM TypeCorrect == Spec => []TypeOK
<1>1. Init => TypeOK
  BY InitInv DEF Inv
<1> QED BY <1>1, TypeStep, PTL DEF Spec

-----------------------------------------------------------------------------
(* What is held refers to a frame that has arrived, and its slot has not   *)
(* been given an older one.                                                *)
HeldArrived == \A e \in Held : e.frame <= received

LEMMA HeldType == ASSUME TypeOK, NEW e \in Held PROVE e \in Event
  BY DEF TypeOK, Held

(* Nothing comes to be held while slots and frames stay as they are.       *)
LEMMA HeldShrinks ==
  ASSUME HeldArrived, NeverOlder, Held' \subseteq Held,
         UNCHANGED <<data_buffer_pool, received>>
  PROVE  HeldArrived' /\ NeverOlder'
  BY DEF HeldArrived, NeverOlder

(* Every step keeps it so, the one that reuses a slot included.            *)
LEMMA OlderStep ==
  TypeOK /\ HeldArrived /\ NeverOlder /\ [Next]_vars => HeldArrived' /\ NeverOlder'
<1> SUFFICES ASSUME TypeOK, HeldArrived, NeverOlder, [Next]_vars
             PROVE  HeldArrived' /\ NeverOlder'
  OBVIOUS
<1> USE DEF dataVars
<1>f. ASSUME UNCHANGED <<queue, cb, task, recv_cb, data_buffer_pool, received>>
      PROVE  HeldArrived' /\ NeverOlder'
  <2>1. Held' = Held
    BY <1>f DEF Held
  <2> QED BY <1>f, <2>1, HeldShrinks
<1>1. CASE Panic \/ UNCHANGED vars
  BY <1>1, <1>f DEF Panic, vars
<1>2. CASE InitNvs \/ InitWifi \/ CreateQueue \/ InitEspnow \/ DeinitEspnow
  BY <1>1, <1>2, <1>f DEF InitNvs, InitWifi, CreateQueue, InitEspnow,
     DeinitEspnow, Abort
<1>3. CASE CreateTask
  <2>1. Held' \subseteq Held
    BY <1>3 DEF CreateTask, Held
  <2> QED BY <1>3, <2>1, HeldShrinks DEF CreateTask
<1>4. CASE AddPeer
  <2>1. queue' = queue \/ (queue' = <<>> /\ Len(queue') = 0)
    BY <1>4 DEF AddPeer
  <2>2. Held' \subseteq Held
    BY <1>4, <2>1 DEF AddPeer, Held
  <2> QED BY <1>4, <2>2, HeldShrinks DEF AddPeer
<1>5. CASE Reboot
  <2>1. Len(queue') = 0 /\ cb' = NoEvent /\ task' = "none"
    BY <1>5 DEF Reboot
  <2>2. Held' = {}
    BY <2>1 DEF Held
  <2> QED BY <2>2 DEF HeldArrived, NeverOlder
<1>6. CASE RecvFrame
  <2>1. NextSlot \in Slots /\ received \in Nat
    BY DEF NextSlot, Slots, ESPNOW_QUEUE_SIZE, TypeOK, Uint8
  <2>2. /\ received' = received + 1 /\ cb = NoEvent
        /\ data_buffer_pool' = [data_buffer_pool EXCEPT ![NextSlot] = received + 1]
        /\ cb' = [frame |-> received + 1, slot |-> NextSlot]
        /\ UNCHANGED <<queue, task, recv_cb>>
    BY <1>6 DEF RecvFrame
  <2>3. Held' \subseteq Held \cup {cb'}
    BY <2>2 DEF Held
  <2>4. ASSUME NEW e \in Held'
        PROVE  e.frame <= received' /\ data_buffer_pool'[e.slot] >= e.frame
    <3>1. CASE e = cb'
      BY <3>1, <2>1, <2>2 DEF TypeOK
    <3>2. CASE e \in Held
      <4>1. e \in Event /\ e.frame <= received /\ data_buffer_pool[e.slot] >= e.frame
        BY <3>2, HeldType DEF HeldArrived, NeverOlder
      <4>2. e.frame \in Nat /\ e.slot \in Slots
        BY <4>1 DEF Event
      <4> QED BY <4>1, <4>2, <2>1, <2>2 DEF TypeOK
    <3> QED BY <2>3, <3>1, <3>2
  <2> QED BY <2>4 DEF HeldArrived, NeverOlder
<1>7. CASE QueueEvent
  <2>1. /\ cb # NoEvent /\ cb' = NoEvent /\ queue' = Append(queue, cb)
        /\ UNCHANGED <<task, recv_cb, data_buffer_pool, received>>
    BY <1>7 DEF QueueEvent
  <2>2. /\ Len(queue') = Len(queue) + 1 /\ Len(queue) \in Nat
        /\ \A i \in 1 .. Len(queue) : queue'[i] = queue[i]
        /\ queue'[Len(queue) + 1] = cb
    BY <2>1, AppendProperties, LenProperties DEF TypeOK
  <2>3. ASSUME NEW i \in 1 .. Len(queue') PROVE queue'[i] \in Held
    <3>1. i \in 1 .. Len(queue) \/ i = Len(queue) + 1
      BY <2>2
    <3> QED BY <2>1, <2>2, <3>1 DEF Held
  <2>4. Held' \subseteq Held
    BY <2>1, <2>3 DEF Held
  <2> QED BY <2>1, <2>4, HeldShrinks
<1>8. CASE DropEvent
  <2>1. Held' \subseteq Held
    BY <1>8 DEF DropEvent, Held
  <2> QED BY <1>8, <2>1, HeldShrinks DEF DropEvent
<1>9. CASE QueueGone
  BY <1>1, <1>9 DEF QueueGone
<1>10. CASE TakeEvent
  <2>1. /\ recv_cb' = Head(queue) /\ queue' = Tail(queue) /\ queue # <<>>
        /\ UNCHANGED <<cb, data_buffer_pool, received>>
    BY <1>10 DEF TakeEvent
  <2>2. /\ Len(queue') = Len(queue) - 1 /\ Len(queue) \in Nat /\ Len(queue) > 0
        /\ \A i \in 1 .. Len(queue') : queue'[i] = queue[i + 1]
        /\ recv_cb' = queue[1]
    BY <2>1, HeadTailProperties, LenProperties, EmptySeq DEF TypeOK
  <2>3. ASSUME NEW i \in 1 .. Len(queue') PROVE queue'[i] \in Held
    <3>1. i + 1 \in 1 .. Len(queue)
      BY <2>2
    <3> QED BY <2>2, <3>1 DEF Held
  <2>4. recv_cb' \in Held
    <3>1. 1 \in 1 .. Len(queue)
      BY <2>2
    <3> QED BY <2>2, <3>1 DEF Held
  <2>5. Held' \subseteq Held
    BY <2>1, <2>3, <2>4 DEF Held
  <2> QED BY <2>1, <2>5, HeldShrinks
<1>11. CASE Parse \/ Log
  <2>1. Held' \subseteq Held
    BY <1>11 DEF Parse, Log, Held
  <2> QED BY <1>11, <2>1, HeldShrinks DEF Parse, Log
<1> QED
  BY <1>1, <1>2, <1>3, <1>4, <1>5, <1>6, <1>7, <1>8, <1>9, <1>10, <1>11
  DEF Next, MainStep, CallbackStep, TaskStep

(* Whatever the backlog, a slot that an event refers to holds its frame or *)
(* a newer one: a line may show a later frame twice, but never bring an    *)
(* old one back (main.c:43-46, 84-86).                                     *)
THEOREM NoneOlder == Spec => []NeverOlder
<1>1. Init => HeldArrived /\ NeverOlder
  <2> SUFFICES ASSUME Init PROVE Held = {}
    BY DEF HeldArrived, NeverOlder
  <2>1. Len(queue) = 0 /\ cb = NoEvent /\ task = "none"
    BY DEF Init
  <2> QED BY <2>1 DEF Held
<1> QED BY <1>1, OlderStep, TypeCorrect, PTL DEF Spec

(* With at most four frames on their way, no slot of the pool is reused    *)
(* before its line is printed, for any number of frames: the counter wraps *)
(* around every 256 frames (main.c:43-46).                                 *)
THEOREM Intact == ASSUME Backlog <= 4 PROVE Spec => []SlotsIntact
<1>1. Inv => SlotsIntact
  <2> SUFFICES ASSUME Inv, NEW e \in Held
               PROVE  data_buffer_pool[e.slot] = e.frame
    BY DEF SlotsIntact
  <2>1. CASE \E i \in 1 .. Len(queue) : e = queue[i]
    BY <2>1 DEF Inv, HeldInv, Holds
  <2>2. CASE cb # NoEvent /\ e = cb
    BY <2>2 DEF Inv, HeldInv, Holds
  <2>3. CASE Working = 1 /\ e = recv_cb
    BY <2>3 DEF Inv, HeldInv, Holds
  <2> QED BY <2>1, <2>2, <2>3 DEF Held, Working
<1> QED BY <1>1, Invariant, PTL

(* Then every line shows the frame it is printed for (main.c:105-113).     *)
THEOREM TrueLines == ASSUME Backlog <= 4 PROVE Spec => []LinesAreTrue
<1>1. Inv => LinesAreTrue
  BY DEF Inv, LineInv
<1> QED BY <1>1, Invariant, PTL

(* And the receiver implements FrameRelay: undamaged frames only, in the   *)
(* order of arrival, none twice.                                           *)
THEOREM Refinement == ASSUME Backlog <= 4 PROVE Spec => RelaysFrames
<1>1. Init => Relay!Init
  BY DEF Init, Relay!Init
<1>2. Inv /\ [Next]_vars => [Relay!Next]_<<received, line.number, line.shows>>
  <2> SUFFICES ASSUME Inv, [Next]_vars,
                      ~UNCHANGED <<received, line.number, line.shows>>
               PROVE  Relay!Next
    OBVIOUS
  <2> USE DEF dataVars
  <2>1. CASE RecvFrame
    BY <2>1 DEF RecvFrame, Relay!Next, Relay!Arrive
  <2>2. CASE Log
    <3>1. Working = 1 /\ received' = received /\ task = "log"
          /\ line'.shows = data_buffer_pool[recv_cb.slot]
          /\ line'.number = line.number + 1
      BY <2>2 DEF Log, Working
    <3>2. Holds(recv_cb, Queued - Len(queue))
      BY <3>1 DEF Inv, HeldInv
    <3>3. line.shows <= Queued - Len(queue) - 1
          /\ recv_cb.frame \notin Short \cup Damaged
      BY <3>1 DEF Inv, LineInv
    <3>4. line.shows \in Nat /\ Queued - Len(queue) \in Int
      BY LenProperties DEF Inv, TypeOK, Queued
    <3>5. line'.shows \in (line.shows + 1) .. received
          /\ line'.shows \notin Short \cup Damaged
      BY <3>1, <3>2, <3>3, <3>4 DEF Holds
    <3> QED BY <3>1, <3>5 DEF Relay!Next, Relay!Show
  <2>3. CASE Reboot
    BY <2>3 DEF Reboot, Relay!Next, Relay!Reset
  <2>4. CASE MainStep \/ Panic \/ UNCHANGED vars
    BY <2>4 DEF MainStep, InitNvs, InitWifi, CreateQueue, InitEspnow,
       AddPeer, DeinitEspnow, CreateTask, Abort, Panic, vars
  <2>5. CASE QueueEvent \/ DropEvent \/ TakeEvent \/ Parse
    BY <2>5 DEF QueueEvent, DropEvent, TakeEvent, Parse
  <2> QED
    BY <2>1, <2>2, <2>3, <2>4, <2>5 DEF Next, CallbackStep, QueueGone, TaskStep
<1> QED
  BY <1>1, <1>2, Invariant, PTL DEF Spec, RelaysFrames, Relay!Spec
=============================================================================
