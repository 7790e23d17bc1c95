---------------------------- MODULE SenderProofs ----------------------------
(***************************************************************************)
(* The safety of the sender firmware for every length of the event queue   *)
(* and every set of failures.  The invariant has parts that hardly depend  *)
(* on each other: what the wait group knows of the tasks, which packet is  *)
(* where, and what is on the stack of closers.                             *)
(***************************************************************************)
EXTENDS Sender, SequenceTheorems, TLAPS

(* A task that has still to subtract in its wg_done.                       *)
BmeBusy == bme \in {"init", "adc", "read", "cleanup", "done"}
EspBusy == esp \in {"start", "recv", "send", "wait", "done"}
Busy(b) == IF b THEN 1 ELSE 0

(* app_main creates the tasks at its place, and nobody else does.          *)
NotYetCreated ==
  /\ main \in {"boot", "queue", "nvs", "sense"} => bme = "none"
  /\ main \in {"boot", "queue", "nvs", "sense", "wifi", "espnow", "radio"}
       => esp = "none"

(* Until app_main is past wg_wait the counter is at least the number of    *)
(* busy tasks: more when a task could not be created.                      *)
CountsBusy ==
  main \notin {"close", "asleep", "panic"}
    => counter >= Busy(BmeBusy) + Busy(EspBusy)

(* Some wg_done has seen the counter reach zero.                           *)
Notified ==
  given > 0 \/ main = "reset" \/ bme = "notify" \/ esp = "notify"

(* Then the sensor task is through, and the radio task too unless it was   *)
(* added later.                                                            *)
NotifiedMeansDone ==
  main \notin {"close", "asleep", "panic"} /\ Notified =>
    /\ ~BmeBusy
    /\ EspBusy => "late" \in incidents
    /\ bme \in {"notify", "gone"} \/ esp \in {"notify", "gone"}

(* The notification app_main took was complete when it took it.            *)
TakenMeansGone ==
  main \in {"reset", "close", "asleep"} =>
    /\ bme \in {"none", "gone"}
    /\ "late" \notin incidents => esp \in {"none", "gone"}

(* Where the loops of the two tasks are.                                   *)
LoopInv ==
  /\ bme \in {"none", "init", "adc"} => made = 0
  /\ bme = "read" => made < SEND_PACKET
  /\ esp \in {"send", "wait"} => cnt > 0

GroupInv == NotYetCreated /\ CountsBusy /\ NotifiedMeansDone /\ TakenMeansGone

(* The handle of the radio task.                                           *)
TargetInv == HandleIsLive

(* The queue holds the last samples in order ...                           *)
QueueInv ==
  /\ Len(queue) <= made
  /\ \A i \in 1 .. Len(queue) : queue[i] = made - Len(queue) + i

(* ... and the radio task has transmitted those before, but for the one in *)
(* its hands.                                                              *)
TransmitInv ==
  /\ esp \in {"none", "start"} => transmitted = 0
  /\ esp \in {"none", "start", "recv", "wait"}
       => transmitted = made - Len(queue)
  /\ esp = "send" => cur = made - Len(queue) /\ transmitted = cur - 1
  /\ transmitted <= made - Len(queue)

(* Every round of the loop transmits, as long as no packet is missed.      *)
RoundInv ==
  "packet" \notin incidents =>
    /\ esp \in {"recv", "send"} => cnt + transmitted = SEND_PACKET
    /\ esp = "wait" => cnt + transmitted = SEND_PACKET + 1
    /\ esp \in {"done", "notify", "gone"} /\ cnt = 0
         => transmitted = SEND_PACKET

(* A frame is in the air, or its status pending, only while it is awaited. *)
StatusInv ==
  "status" \notin incidents =>
    IF esp = "wait"
      THEN \/ air = <<>> /\ status \in {0, cur}
           \/ air = <<cur>> /\ status = 0
      ELSE air = <<>> /\ status = 0

PacketInv == QueueInv /\ TransmitInv /\ RoundInv /\ StatusInv

(* What app_main opens, in that order, and what the sensor task does.      *)
MainParts == {"wg", "queue", "nvs", "wifi", "espnow"}
SensorParts == {"adc"} \cup Bme280
Rank(r) == CASE r = "wg" -> 1 [] r = "queue" -> 2 [] r = "nvs" -> 3
             [] r = "wifi" -> 4 [] r = "espnow" -> 5

(* What is lost is on, and it takes one of five failures to lose it.       *)
Losing == {"release", "defer", "register_cb", "sensor_init", "adc_channel"}
LostInv == lost \subseteq live /\ (Faults \cap Losing = {} => lost = {})

(* The closers are those of what is open and not lost, the last opened     *)
(* first, and whatever was opened before one of them is still open.        *)
StackInv ==
  /\ \A i \in 1 .. Len(closers) : closers[i] \in MainParts \cap (live \ lost)
  /\ \A r \in MainParts \cap (live \ lost) :
       \E i \in 1 .. Len(closers) : closers[i] = r
  /\ \A i, j \in 1 .. Len(closers) :
       i < j => Rank(closers[j]) < Rank(closers[i])
  /\ \A i \in 1 .. Len(closers) : \A r \in MainParts :
       Rank(r) < Rank(closers[i]) => r \in live

(* How far app_main has come.                                              *)
OpenUpTo(n) == \A r \in MainParts : r \in live <=> Rank(r) <= n
OpenedInv ==
  /\ main = "boot" => OpenUpTo(0)
  /\ main = "queue" => OpenUpTo(1)
  /\ main = "nvs" => OpenUpTo(2)
  /\ main \in {"sense", "wifi"} => OpenUpTo(3)
  /\ main = "espnow" => OpenUpTo(4)
  /\ main = "asleep" => closers = <<>>

(* The sensor task holds its own while it works with them, and leaves      *)
(* nothing on but what is lost.                                            *)
SensorInv ==
  /\ bme \in {"none", "init"} => live \cap SensorParts = {}
  /\ bme = "adc" => live \cap SensorParts = Bme280 /\ lost \cap SensorParts = {}
  /\ bme \in {"read", "cleanup"}
       => SensorParts \subseteq live /\ lost \cap SensorParts = {}
  /\ bme \in {"done", "notify", "gone"} => live \cap SensorParts \subseteq lost

ResourceInv == LostInv /\ StackInv /\ OpenedInv /\ SensorInv

Inv == /\ TypeOK /\ LoopInv /\ GroupInv /\ TargetInv /\ PacketInv
         /\ ResourceInv

-----------------------------------------------------------------------------
(* The calls that give rs back release all of it but what sticks.          *)
LEMMA GivenBack ==
  ASSUME NEW rs, NEW left, GiveBack(rs, left)
  PROVE  \E stuck \in SUBSET rs :
           /\ live' = (live \ rs) \cup stuck \cup left
           /\ lost' = lost \cup stuck \cup left
           /\ "release" \notin Faults => stuck = {}
  BY DEF GiveBack, MayStick

(* Opening something and pushing its closer keeps the types.               *)
LEMMA OpenType ==
  ASSUME TypeOK, NEW r \in Resources, Defer(r), live' = live \cup {r}
  PROVE  /\ closers' \in Seq(Resources)
         /\ live' \subseteq Resources /\ lost' \subseteq Resources
<1>1. <<r>> \in Seq(Resources)
  OBVIOUS
<1>2. <<r>> \o closers \in Seq(Resources)
  BY <1>1, ConcatProperties DEF TypeOK
<1> QED BY <1>2 DEF Defer, TypeOK

(* So does giving something back.                                          *)
LEMMA GiveBackType ==
  ASSUME TypeOK, NEW rs \in SUBSET Resources, NEW left \in SUBSET Resources,
         GiveBack(rs, left)
  PROVE  live' \subseteq Resources /\ lost' \subseteq Resources
  BY GivenBack DEF TypeOK

(* And popping a closer.                                                   *)
LEMMA PopType ==
  ASSUME NEW S, NEW s \in Seq(S), s # <<>>
  PROVE  Tail(s) \in Seq(S) /\ Head(s) \in S
  BY HeadTailProperties

(* A reset of the chip changes the program counter of app_main only.       *)
LEMMA PanicType == TypeOK /\ Panic => TypeOK'
  BY DEF TypeOK, WgTypeOK, Panic, wgVars, radioVars, resVars, MainPc

(* A step of the initialisation changes places, resources and incidents.   *)
LEMMA KeptType ==
  ASSUME TypeOK, main' \in MainPc, bme' \in BmePc,
         closers' \in Seq(Resources), live' \subseteq Resources,
         lost' \subseteq Resources,
         UNCHANGED <<wgVars, esp, queue, made, radioVars, air, status,
                     incidents>>
  PROVE  TypeOK'
BY DEF TypeOK, WgTypeOK, wgVars, radioVars

(* Types are kept by every step.                                           *)
LEMMA TypeStep == TypeOK /\ LoopInv /\ [Next]_vars => TypeOK'
<1> SUFFICES ASSUME TypeOK, LoopInv, [Next]_vars, ~Panic PROVE TypeOK'
  BY PanicType
<1> USE SenderAssumption DEF TypeOK, WgTypeOK, SEND_PACKET, taskVars,
        radioVars, resVars, wgVars, MainPc, BmePc, EspPc
<1>r. {"wg", "queue", "nvs", "wifi", "espnow", "power", "i2c", "bme280",
       "adc"} = Resources
  BY DEF Resources, Peripherals
<1>1. CASE CreateWaitGroup
  <2>1. Defer("wg") /\ live' = live \cup {"wg"} /\ WgCreate /\ main' = "queue"
    BY <1>1 DEF CreateWaitGroup
  <2>2. /\ closers' \in Seq(Resources)
        /\ live' \subseteq Resources /\ lost' \subseteq Resources
    BY <1>r, <2>1, OpenType
  <2>3. WgTypeOK'
    BY <2>1 DEF WgCreate
  <2> QED BY <1>1, <2>1, <2>2, <2>3 DEF CreateWaitGroup
<1>2. CASE CreateQueue
  <2>1. main' \in MainPc /\ UNCHANGED <<wgVars, bme, esp, queue, made, radioVars, air,
                                       status, incidents>>
    BY <1>2 DEF CreateQueue
  <2>2. CASE Defer("queue") /\ live' = live \cup {"queue"}
    BY <1>r, <2>1, <2>2, OpenType, KeptType
  <2>3. CASE UNCHANGED <<live, lost, closers>>
    BY <2>1, <2>3, KeptType
  <2> QED BY <1>2, <2>2, <2>3 DEF CreateQueue
<1>3. CASE InitNvs
  <2>1. main' \in MainPc /\ UNCHANGED <<wgVars, bme, esp, queue, made, radioVars, air,
                                       status, incidents>>
    BY <1>3 DEF InitNvs
  <2>2. CASE Defer("nvs") /\ live' = live \cup {"nvs"}
    BY <1>r, <2>1, <2>2, OpenType, KeptType
  <2>3. CASE UNCHANGED <<live, lost, closers>>
    BY <2>1, <2>3, KeptType
  <2> QED BY <1>3, <2>2, <2>3 DEF InitNvs
<1>4. CASE LaunchSensor
  <2>1. bme' \in BmePc /\ WgTypeOK'
    BY <1>4 DEF LaunchSensor, WgAdd
  <2>2. incidents' \subseteq {"packet", "status", "late", "unborn"}
    BY <1>4 DEF LaunchSensor
  <2> QED BY <1>4, <2>1, <2>2 DEF LaunchSensor
<1>5. CASE InitWifi
  <2>1. main' \in MainPc /\ UNCHANGED <<wgVars, bme, esp, queue, made, radioVars, air,
                                       status, incidents>>
    BY <1>5 DEF InitWifi
  <2>2. CASE Defer("wifi") /\ live' = live \cup {"wifi"}
    BY <1>r, <2>1, <2>2, OpenType, KeptType
  <2>3. CASE UNCHANGED <<live, lost, closers>>
    BY <2>1, <2>3, KeptType
  <2> QED BY <1>5, <2>2, <2>3 DEF InitWifi
<1>6. CASE InitEspnow
  <2>1. main' \in MainPc /\ UNCHANGED <<wgVars, bme, esp, queue, made, radioVars, air,
                                       status, incidents>>
    BY <1>6 DEF InitEspnow
  <2>2. CASE Defer("espnow") /\ live' = live \cup {"espnow"}
    BY <1>r, <2>1, <2>2, OpenType, KeptType
  <2>3. CASE UNCHANGED <<live, lost, closers>>
    BY <2>1, <2>3, KeptType
  <2>4. CASE UNCHANGED closers /\ (GiveBack({}, {"espnow"}) \/ GiveBack({"espnow"}, {}))
    <3>1. live' \subseteq Resources /\ lost' \subseteq Resources
      <4>1. {} \in SUBSET Resources /\ {"espnow"} \in SUBSET Resources
        BY <1>r
      <4> QED BY <2>4, <4>1, GiveBackType
    <3> QED BY <2>1, <2>4, <3>1, KeptType
  <2> QED BY <1>6, <2>2, <2>3, <2>4 DEF InitEspnow
<1>7. CASE LaunchRadio
  BY <1>7 DEF LaunchRadio, At, WgAdd
<1>8. CASE Wait
  BY <1>8 DEF Wait, At, WgFastPath
<1>9. CASE Take
  BY <1>9 DEF Take, At, WgTake
<1>10. CASE Reset
  BY <1>10 DEF Reset, At, WgReset
<1>11. CASE Close
  <2>1. Head(closers) \in Resources /\ closers' \in Seq(Resources)
    BY <1>11, PopType DEF Close
  <2>2. live' \subseteq Resources /\ lost' \subseteq Resources
    <3>1. {} \in SUBSET Resources /\ {Head(closers)} \in SUBSET Resources
      BY <2>1
    <3>2. GiveBack({Head(closers)}, {})
      BY <1>11 DEF Close
    <3> QED BY <3>1, <3>2, GiveBackType
  <2>3. air' \in Seq(Nat)
    <3>1. air' = <<>> \/ air' = air
      BY <1>11 DEF Close
    <3>2. <<>> \in Seq(Nat)
      OBVIOUS
    <3> QED BY <3>1, <3>2
  <2> QED BY <1>11, <2>1, <2>2, <2>3 DEF Close, At
<1>12. CASE Sleep
  BY <1>12 DEF Sleep, At
<1>13. CASE Wake
  BY <1>13 DEF Wake
<1>14. CASE InitSensor
  <2>1. live' \subseteq Resources /\ lost' \subseteq Resources
    <3>1. /\ {} \in SUBSET Resources /\ Bme280 \in SUBSET Resources
          /\ {"power", "i2c"} \in SUBSET Resources
      BY <1>r DEF Bme280
    <3>2. CASE \E rs, left \in SUBSET Resources : GiveBack(rs, left)
      BY <3>2, GiveBackType
    <3> QED BY <1>14, <1>r, <3>1, <3>2 DEF InitSensor
  <2>2. /\ main' \in MainPc /\ bme' \in BmePc
        /\ UNCHANGED <<wgVars, esp, closers, queue, made, radioVars, air, status, incidents>>
    BY <1>14 DEF InitSensor
  <2> QED BY <2>1, <2>2, KeptType
<1>15. CASE InitAdc
  <2>1. live' \subseteq Resources /\ lost' \subseteq Resources
    <3>1. /\ {} \in SUBSET Resources /\ Bme280 \in SUBSET Resources
          /\ {"adc"} \in SUBSET Resources
      BY <1>r DEF Bme280
    <3>2. CASE \E rs, left \in SUBSET Resources : GiveBack(rs, left)
      BY <3>2, GiveBackType
    <3> QED BY <1>15, <1>r, <3>1, <3>2 DEF InitAdc
  <2>2. /\ main' \in MainPc /\ bme' \in BmePc
        /\ UNCHANGED <<wgVars, esp, closers, queue, made, radioVars, air, status, incidents>>
    BY <1>15 DEF InitAdc
  <2> QED BY <2>1, <2>2, KeptType
<1>16. CASE SendSample
  <2>1. made + 1 \in Nat /\ made + 1 \in 0 .. SEND_PACKET
    BY <1>16 DEF SendSample, LoopInv
  <2>2. queue' \in Seq(Nat)
    <3>1. queue' = Append(queue, made + 1)
      BY <1>16 DEF SendSample
    <3> QED BY <2>1, <3>1, AppendProperties
  <2>3. made' \in 0 .. SEND_PACKET
    BY <1>16, <2>1 DEF SendSample
  <2>4. bme' \in BmePc
    BY <1>16 DEF SendSample
  <2>5. UNCHANGED <<wgVars, main, esp, resVars, radioVars, air, status, incidents>>
    BY <1>16 DEF SendSample
  <2> QED BY <2>2, <2>3, <2>4, <2>5
<1>17. CASE CleanUp
  <2>1. live' \subseteq Resources /\ lost' \subseteq Resources
    <3>1. /\ {} \in SUBSET Resources /\ Bme280 \in SUBSET Resources
          /\ {"adc"} \cup Bme280 \in SUBSET Resources
      BY <1>r DEF Bme280
    <3>2. CASE \E rs, left \in SUBSET Resources : GiveBack(rs, left)
      BY <3>2, GiveBackType
    <3> QED BY <1>17, <1>r, <3>1, <3>2 DEF CleanUp
  <2>2. /\ main' \in MainPc /\ bme' \in BmePc
        /\ UNCHANGED <<wgVars, esp, closers, queue, made, radioVars, air, status, incidents>>
    BY <1>17 DEF CleanUp
  <2> QED BY <2>1, <2>2, KeptType
<1>18. CASE SensorDone
  BY <1>18 DEF SensorDone, WgDone, WgFetchSub, WgNotify
<1>19. CASE StartRadio
  BY <1>19 DEF StartRadio
<1>20. CASE Receive
  BY <1>20, PopType DEF Receive
<1>21. CASE ReceiveTimeout
  BY <1>21 DEF ReceiveTimeout
<1>22. CASE Transmit
  BY <1>22 DEF Transmit
<1>23. CASE TransmitFails
  BY <1>23 DEF TransmitFails
<1>24. CASE AwaitStatus
  BY <1>24 DEF AwaitStatus, LoopInv
<1>25. CASE StatusTimeout
  BY <1>25 DEF StatusTimeout, LoopInv
<1>26. CASE StopRadio
  BY <1>26 DEF StopRadio
<1>27. CASE RadioDone
  BY <1>27 DEF RadioDone, WgDone, WgFetchSub, WgNotify
<1>28. CASE SendCallback
  BY <1>28, PopType DEF SendCallback
<1>29. CASE UNCHANGED vars
  BY <1>29 DEF vars
<1> QED
  BY <1>1, <1>2, <1>3, <1>4, <1>5, <1>6, <1>7, <1>8, <1>9, <1>10, <1>11,
     <1>12, <1>13, <1>14, <1>15, <1>16, <1>17, <1>18, <1>19, <1>20, <1>21,
     <1>22, <1>23, <1>24, <1>25, <1>26, <1>27, <1>28, <1>29
  DEF Next, MainStep, SensorStep, RadioStep, SensorDoneTooLate,
      RadioDoneTooLate, ReceiveReleased

(* The loops.                                                              *)
LEMMA LoopStep == TypeOK /\ LoopInv /\ GroupInv /\ [Next]_vars => LoopInv'
<1> SUFFICES ASSUME TypeOK, LoopInv, NotYetCreated, [Next]_vars
             PROVE  LoopInv'
  BY DEF GroupInv
<1> USE SenderAssumption DEF TypeOK, LoopInv, SEND_PACKET, taskVars, radioVars, resVars
<1>1. CASE Panic \/ UNCHANGED vars
  BY <1>1 DEF Panic, vars
<1>2. CASE MainStep /\ ~Panic
  BY <1>2 DEF MainStep, CreateWaitGroup, CreateQueue, InitNvs, LaunchSensor,
     InitWifi, InitEspnow, LaunchRadio, Wait, Take, Reset, Close, Sleep, At,
     NotYetCreated
<1>3. CASE Wake
  BY <1>3 DEF Wake
<1>4. CASE InitSensor \/ InitAdc \/ CleanUp
  BY <1>4 DEF InitSensor, InitAdc, CleanUp
<1>5. CASE SendSample /\ ~Panic
  BY <1>5 DEF SendSample, MoreSamples
<1>6. CASE SensorDone \/ RadioDone
  BY <1>6 DEF SensorDone, RadioDone, WgDone
<1>7. CASE StartRadio \/ Receive \/ ReceiveTimeout \/ Transmit \/ TransmitFails
  BY <1>7 DEF StartRadio, Receive, ReceiveTimeout, Transmit, TransmitFails
<1>8. CASE AwaitStatus \/ StatusTimeout \/ StopRadio \/ SendCallback
  BY <1>8 DEF AwaitStatus, StatusTimeout, StopRadio, SendCallback
<1> QED
  BY <1>1, <1>2, <1>3, <1>4, <1>5, <1>6, <1>7, <1>8
  DEF Next, SensorStep, RadioStep, SensorDoneTooLate, RadioDoneTooLate,
      ReceiveReleased

(* The handle of the radio task.                                           *)
LEMMA TargetStep == TargetInv /\ GroupInv /\ [Next]_vars => TargetInv'
<1> SUFFICES ASSUME HandleIsLive, NotYetCreated, [Next]_vars
             PROVE  HandleIsLive'
  BY DEF GroupInv, TargetInv
<1> USE DEF HandleIsLive, taskVars, radioVars, resVars
<1>1. CASE Panic \/ UNCHANGED vars
  BY <1>1 DEF Panic, vars
<1>2. CASE MainStep /\ ~Panic
  BY <1>2 DEF MainStep, CreateWaitGroup, CreateQueue, InitNvs, LaunchSensor,
     InitWifi, InitEspnow, LaunchRadio, Wait, Take, Reset, Close, Sleep, At,
     NotYetCreated
<1>3. CASE Wake \/ SendCallback
  BY <1>3 DEF Wake, SendCallback
<1>4. CASE (InitSensor \/ InitAdc \/ SendSample \/ CleanUp) /\ ~Panic
  BY <1>4 DEF InitSensor, InitAdc, SendSample, CleanUp
<1>5. CASE SensorDone \/ RadioDone
  BY <1>5 DEF SensorDone, RadioDone, WgDone
<1>6. CASE StartRadio \/ Receive \/ ReceiveTimeout \/ Transmit \/ TransmitFails
  BY <1>6 DEF StartRadio, Receive, ReceiveTimeout, Transmit, TransmitFails
<1>7. CASE AwaitStatus \/ StatusTimeout \/ StopRadio
  BY <1>7 DEF AwaitStatus, StatusTimeout, StopRadio
<1> QED
  BY <1>1, <1>2, <1>3, <1>4, <1>5, <1>6, <1>7
  DEF Next, SensorStep, RadioStep, SensorDoneTooLate, RadioDoneTooLate,
      ReceiveReleased

(* The wait group and the tasks.                                           *)
LEMMA GroupStep == TypeOK /\ GroupInv /\ [Next]_vars => GroupInv'
<1> SUFFICES ASSUME TypeOK, GroupInv, [Next]_vars PROVE GroupInv'
  OBVIOUS
<1> USE DEF TypeOK, WgTypeOK, MainPc, BmePc, EspPc, taskVars, wgVars,
        resVars, GroupInv, NotYetCreated, CountsBusy, Notified, NotifiedMeansDone,
        TakenMeansGone, BmeBusy, EspBusy, Busy
<1>1. CASE Panic \/ UNCHANGED vars
  BY <1>1 DEF Panic, vars
<1>2. CASE CreateWaitGroup /\ ~Panic
  BY <1>2 DEF CreateWaitGroup, At, WgCreate
<1>3. CASE (CreateQueue \/ InitNvs) /\ ~Panic
  BY <1>3 DEF CreateQueue, InitNvs, At
<1>4. CASE LaunchSensor
  BY <1>4 DEF LaunchSensor, At, WgAdd
<1>5. CASE (InitWifi \/ InitEspnow) /\ ~Panic
  BY <1>5 DEF InitWifi, InitEspnow, At
<1>6. CASE LaunchRadio
  BY <1>6 DEF LaunchRadio, At, WgAdd
<1>7. CASE Wait
  BY <1>7 DEF Wait, At, WgFastPath
<1>8. CASE Take
  BY <1>8 DEF Take, At, WgTake
<1>9. CASE Reset
  BY <1>9 DEF Reset, At, WgReset
<1>10. CASE (Close \/ Sleep) /\ ~Panic
  <2>1. /\ main = "close" /\ main' \in {"close", "asleep"}
        /\ UNCHANGED <<wgVars, bme, esp, incidents>>
    BY <1>10 DEF Close, Sleep, At
  <2> QED BY <2>1
<1>11. CASE Wake
  BY <1>11 DEF Wake
<1>12. CASE InitSensor \/ InitAdc \/ CleanUp
  BY <1>12 DEF InitSensor, InitAdc, CleanUp
<1>13. CASE SendSample /\ ~Panic
  BY <1>13 DEF SendSample
<1>14. CASE SensorDone
  BY <1>14 DEF SensorDone, WgDone, WgFetchSub, WgLast, WgNotify
<1>15. CASE StartRadio \/ Receive
  BY <1>15 DEF StartRadio, Receive
<1>16. CASE ReceiveTimeout \/ Transmit \/ TransmitFails
  BY <1>16 DEF ReceiveTimeout, Transmit, TransmitFails
<1>17. CASE AwaitStatus \/ StatusTimeout \/ StopRadio \/ SendCallback
  <2>1. CASE AwaitStatus \/ StatusTimeout
    BY <2>1 DEF AwaitStatus, StatusTimeout
  <2>2. CASE StopRadio \/ SendCallback
    BY <2>2 DEF StopRadio, SendCallback
  <2> QED BY <1>17, <2>1, <2>2
<1>18. CASE RadioDone
  BY <1>18 DEF RadioDone, WgDone, WgFetchSub, WgLast, WgNotify
<1> QED
  BY <1>1, <1>2, <1>3, <1>4, <1>5, <1>6, <1>7, <1>8, <1>9, <1>10, <1>11,
     <1>12, <1>13, <1>14, <1>15, <1>16, <1>17, <1>18
  DEF Next, MainStep, SensorStep, RadioStep, SensorDoneTooLate,
      RadioDoneTooLate, ReceiveReleased

(* Appending a sample keeps the order of the queue.                        *)
LEMMA QueueAppend ==
  ASSUME TypeOK, QueueInv, queue' = Append(queue, made + 1), made' = made + 1
  PROVE  QueueInv' /\ Len(queue') = Len(queue) + 1
<1>1. made \in Nat /\ made + 1 \in Nat /\ queue \in Seq(Nat)
  BY SenderAssumption DEF TypeOK, SEND_PACKET
<1>2. /\ Len(queue') = Len(queue) + 1 /\ Len(queue) \in Nat
      /\ \A i \in 1 .. Len(queue) : queue'[i] = queue[i]
      /\ queue'[Len(queue) + 1] = made + 1
  BY <1>1, AppendProperties, LenProperties
<1>3. /\ made' - Len(queue') = made - Len(queue)
      /\ Len(queue') <= made'
      /\ made - Len(queue) + (Len(queue) + 1) = made + 1
  BY <1>1, <1>2 DEF QueueInv
<1>4. ASSUME NEW i \in 1 .. Len(queue')
      PROVE  queue'[i] = made' - Len(queue') + i
  <2>1. CASE i \in 1 .. Len(queue)
    <3>1. queue'[i] = queue[i] /\ queue[i] = made - Len(queue) + i
      BY <1>2, <2>1 DEF QueueInv
    <3> QED BY <1>3, <3>1
  <2>2. CASE i = Len(queue) + 1
    <3>1. queue'[i] = made + 1
      BY <1>2, <2>2
    <3> QED BY <1>3, <2>2, <3>1
  <2> QED BY <1>2, <2>1, <2>2
<1>5. QueueInv'
  BY <1>3, <1>4 DEF QueueInv
<1> QED
  BY <1>2, <1>5

(* So does taking its first packet, which is the next one to transmit.     *)
LEMMA QueueHead ==
  ASSUME TypeOK, QueueInv, queue # <<>>, queue' = Tail(queue), made' = made
  PROVE  /\ QueueInv'
         /\ Len(queue') = Len(queue) - 1
         /\ Head(queue) = made - Len(queue) + 1
<1>1. made \in Nat /\ queue \in Seq(Nat)
  BY SenderAssumption DEF TypeOK, SEND_PACKET
<1>2. /\ Len(queue') = Len(queue) - 1 /\ Len(queue) \in Nat
      /\ Len(queue) > 0
      /\ \A i \in 1 .. Len(queue') : queue'[i] = queue[i + 1]
      /\ Head(queue) = queue[1]
  BY <1>1, HeadTailProperties, LenProperties, EmptySeq
<1>3. Head(queue) = made - Len(queue) + 1
  BY <1>1, <1>2 DEF QueueInv
<1>4. QueueInv'
  BY <1>1, <1>2 DEF QueueInv
<1> QED BY <1>2, <1>3, <1>4

(* The packets.                                                            *)
LEMMA PacketStep ==
  TypeOK /\ LoopInv /\ GroupInv /\ TargetInv /\ PacketInv /\ [Next]_vars
    => PacketInv'
<1> SUFFICES ASSUME TypeOK, LoopInv, GroupInv, TargetInv, PacketInv,
                    [Next]_vars
             PROVE  PacketInv'
  OBVIOUS
<1>n. made \in Nat /\ cnt \in Nat /\ Len(queue) \in Nat /\ SEND_PACKET \in Nat
  BY SenderAssumption, LenProperties DEF TypeOK, SEND_PACKET
<1> USE DEF PacketInv, taskVars, radioVars, resVars
<1>f. ASSUME UNCHANGED <<esp, queue, made, radioVars, air, status>>,
             incidents \subseteq incidents'
      PROVE  PacketInv'
  BY <1>f DEF QueueInv, TransmitInv, RoundInv, StatusInv
<1>1. CASE Panic \/ UNCHANGED vars
  BY <1>1, <1>f DEF Panic, vars
<1>2. CASE (CreateWaitGroup \/ CreateQueue \/ InitNvs \/ LaunchSensor
              \/ InitWifi \/ InitEspnow \/ Wait \/ Take \/ Reset \/ Sleep)
           /\ ~Panic
  BY <1>2, <1>f DEF CreateWaitGroup, CreateQueue, InitNvs, LaunchSensor,
     InitWifi, InitEspnow, Wait, Take, Reset, Sleep
<1>3. CASE LaunchRadio
  <2>1. esp = "none"
    BY <1>3 DEF LaunchRadio, At, GroupInv, NotYetCreated
  <2> QED
    BY <1>3, <2>1, <1>n DEF LaunchRadio, QueueInv, TransmitInv, RoundInv,
       StatusInv
<1>4. CASE Close
  BY <1>4 DEF Close, QueueInv, TransmitInv, RoundInv, StatusInv
<1>5. CASE Wake
  <2>1. Len(queue') = 0 /\ made' = 0 /\ transmitted' = 0 /\ esp' = "none"
    BY <1>5 DEF Wake
  <2>2. QueueInv' /\ TransmitInv'
    BY <2>1 DEF QueueInv, TransmitInv
  <2>3. RoundInv' /\ StatusInv'
    BY <1>5 DEF Wake, RoundInv, StatusInv
  <2> QED BY <2>2, <2>3
<1>6. CASE (InitSensor \/ InitAdc \/ CleanUp \/ SensorDone)
  BY <1>6, <1>f DEF InitSensor, InitAdc, CleanUp, SensorDone
<1>7. CASE SendSample /\ ~Panic
  <2>1. queue' = Append(queue, made + 1) /\ made' = made + 1
    BY <1>7 DEF SendSample
  <2>2. QueueInv' /\ Len(queue') = Len(queue) + 1
    BY <2>1, QueueAppend
  <2>3. made' - Len(queue') = made - Len(queue)
    BY <1>n, <2>1, <2>2
  <2>5. TransmitInv'
    BY <1>7, <2>3 DEF SendSample, TransmitInv
  <2>4. RoundInv' /\ StatusInv'
    BY <1>7 DEF SendSample, RoundInv, StatusInv
  <2> QED BY <2>2, <2>4, <2>5
<1>8. CASE StartRadio
  BY <1>8, <1>n DEF StartRadio, QueueInv, TransmitInv, RoundInv, StatusInv
<1>9. CASE Receive
  <2>1. /\ QueueInv'
        /\ Len(queue') = Len(queue) - 1
        /\ Head(queue) = made - Len(queue) + 1
    BY <1>9, QueueHead DEF Receive
  <2>2. TransmitInv'
    <3>1. made' - Len(queue') = made - Len(queue) + 1
      BY <1>9, <1>n, <2>1 DEF Receive
    <3>2. /\ esp' = "send" /\ transmitted' = transmitted
          /\ cur' = made' - Len(queue')
          /\ transmitted = made - Len(queue)
      BY <1>9, <2>1, <3>1 DEF Receive, TransmitInv
    <3> QED BY <1>n, <3>1, <3>2 DEF TransmitInv
  <2>3. RoundInv' /\ StatusInv'
    BY <1>9 DEF Receive, RoundInv, StatusInv
  <2> QED BY <2>1, <2>2, <2>3
<1>10. CASE ReceiveTimeout
  BY <1>10 DEF ReceiveTimeout, QueueInv, TransmitInv, RoundInv, StatusInv
<1>11. CASE Transmit
  <2>1. QueueInv' /\ TransmitInv'
    BY <1>11, <1>n DEF Transmit, QueueInv, TransmitInv, TypeOK
  <2>2. RoundInv'
    BY <1>11, <1>n DEF Transmit, RoundInv, TransmitInv, TypeOK
  <2>3. StatusInv'
    BY <1>11 DEF Transmit, StatusInv
  <2> QED BY <2>1, <2>2, <2>3
<1>12. CASE TransmitFails
  <2>1. QueueInv' /\ TransmitInv'
    BY <1>12, <1>n DEF TransmitFails, QueueInv, TransmitInv, TypeOK
  <2>2. RoundInv' /\ StatusInv'
    BY <1>12 DEF TransmitFails, RoundInv, StatusInv, LoopInv
  <2> QED BY <2>1, <2>2
<1>13. CASE AwaitStatus
  BY <1>13, <1>n DEF AwaitStatus, QueueInv, TransmitInv, RoundInv, StatusInv,
     TypeOK
<1>14. CASE StatusTimeout
  BY <1>14, <1>n DEF StatusTimeout, QueueInv, TransmitInv, RoundInv,
     StatusInv, TypeOK
<1>15. CASE StopRadio
  BY <1>15, <1>n DEF StopRadio, QueueInv, TransmitInv, RoundInv, StatusInv,
     TypeOK
<1>16. CASE RadioDone
  BY <1>16 DEF RadioDone, WgDone, QueueInv, TransmitInv, RoundInv, StatusInv
<1>17. CASE SendCallback
  <2>1. QueueInv' /\ TransmitInv' /\ RoundInv'
    BY <1>17 DEF SendCallback, QueueInv, TransmitInv, RoundInv
  <2>2. StatusInv'
    <3> SUFFICES ASSUME "status" \notin incidents PROVE StatusInv'
      BY <1>17 DEF SendCallback, StatusInv
    <3>1. esp = "wait" /\ air = <<cur>> /\ status = 0
      BY <1>17 DEF SendCallback, StatusInv
    <3>2. air' = <<>> /\ esp' = "wait" /\ cur' = cur
      BY <1>17, <3>1 DEF SendCallback
    <3>3. status' \in {0, cur}
      BY <1>17, <3>1 DEF SendCallback
    <3> QED BY <3>2, <3>3 DEF StatusInv
  <2> QED BY <2>1, <2>2
<1> QED
  BY <1>1, <1>2, <1>3, <1>4, <1>5, <1>6, <1>7, <1>8, <1>9, <1>10, <1>11,
     <1>12, <1>13, <1>14, <1>15, <1>16, <1>17
  DEF Next, MainStep, SensorStep, RadioStep, SensorDoneTooLate,
      RadioDoneTooLate, ReceiveReleased

-----------------------------------------------------------------------------
(* The things app_main opens have their places in the order of opening and *)
(* are none of the sensor task's.                                          *)
LEMMA RankIs ==
  /\ \A r \in MainParts : Rank(r) \in 1 .. 5 /\ r \notin SensorParts
  /\ \A q, r \in MainParts : Rank(q) = Rank(r) => q = r
  /\ MainParts \subseteq Resources
<1>1. /\ Rank("wg") = 1 /\ Rank("queue") = 2 /\ Rank("nvs") = 3
      /\ Rank("wifi") = 4 /\ Rank("espnow") = 5
  BY DEF Rank
<1>2. \A r \in MainParts : Rank(r) \in 1 .. 5
  BY <1>1 DEF MainParts
<1>3. \A q, r \in MainParts : Rank(q) = Rank(r) => q = r
  BY <1>1 DEF MainParts
<1>4. MainParts \cap SensorParts = {} /\ MainParts \subseteq Resources
  BY DEF MainParts, SensorParts, Bme280, Resources, Peripherals
<1> QED BY <1>2, <1>3, <1>4

(* DEFER of the thing just opened, whether its closer finds memory or not. *)
LEMMA PushStack ==
  ASSUME TypeOK, LostInv, StackInv, NEW r \in MainParts,
         OpenUpTo(Rank(r) - 1), Defer(r), live' = live \cup {r}
  PROVE  /\ LostInv' /\ StackInv'
         /\ \A q \in MainParts : q \in live' <=> Rank(q) <= Rank(r)
<1> USE RankIs
<1>1. r \notin live /\ r \notin lost
  BY DEF OpenUpTo, LostInv
<1>2. \A q \in MainParts : q \in live' <=> Rank(q) <= Rank(r)
  <2> SUFFICES ASSUME NEW q \in MainParts
               PROVE  q \in live' <=> Rank(q) <= Rank(r)
    OBVIOUS
  <2>1. q \in live <=> Rank(q) <= Rank(r) - 1
    BY DEF OpenUpTo
  <2>2. q \in live' <=> Rank(q) <= Rank(r) - 1 \/ q = r
    BY <2>1
  <2>3. q = r <=> Rank(q) = Rank(r)
    OBVIOUS
  <2>4. Rank(q) \in Nat /\ Rank(r) \in Nat
    OBVIOUS
  <2> QED BY ONLY <2>2, <2>3, <2>4
<1>3. LostInv'
  BY DEF LostInv, Defer, Losing
<1>l. Len(closers) \in Nat /\ closers \in Seq(Resources)
  BY LenProperties DEF TypeOK
<1>4. CASE UNCHANGED closers /\ lost' = lost \cup {r}
  <2>1. MainParts \cap (live' \ lost') = MainParts \cap (live \ lost)
    BY <1>1, <1>4
  <2> QED BY <1>2, <1>3, <1>4, <2>1 DEF StackInv
<1>5. CASE closers' = <<r>> \o closers /\ lost' = lost
  <2>1. <<r>> \in Seq(Resources) /\ Len(<<r>>) = 1 /\ <<r>>[1] = r
    OBVIOUS
  <2>2. /\ Len(closers') = Len(closers) + 1
        /\ \A i \in 1 .. Len(closers) + 1 :
             closers'[i] = IF i <= 1 THEN <<r>>[i] ELSE closers[i - 1]
    BY <1>l, <1>5, <2>1, ConcatProperties
  <2>3. closers'[1] = r
    BY <1>l, <2>1, <2>2
  <2>4. \A i \in 1 .. Len(closers') : i # 1 =>
          i - 1 \in 1 .. Len(closers) /\ closers'[i] = closers[i - 1]
    BY <1>l, <2>2
  <2>5. \A i \in 1 .. Len(closers) :
          i + 1 \in 1 .. Len(closers') /\ closers'[i + 1] = closers[i]
    BY <1>l, <2>2
  <2>6. MainParts \cap (live' \ lost') = {r} \cup (MainParts \cap (live \ lost))
    BY <1>1, <1>5
  <2>7. \A i \in 1 .. Len(closers') :
          closers'[i] \in MainParts \cap (live' \ lost')
    BY <2>3, <2>4, <2>6 DEF StackInv
  <2>8. ASSUME NEW q \in MainParts \cap (live' \ lost')
        PROVE  \E i \in 1 .. Len(closers') : closers'[i] = q
    <3>1. CASE q = r
      BY <1>l, <2>2, <2>3, <3>1
    <3>2. CASE q # r
      <4>1. PICK i \in 1 .. Len(closers) : closers[i] = q
        BY <2>6, <3>2 DEF StackInv
      <4> QED BY <2>5, <4>1
    <3> QED BY <3>1, <3>2
  <2>9. ASSUME NEW i \in 1 .. Len(closers'), NEW j \in 1 .. Len(closers'), i < j
        PROVE  Rank(closers'[j]) < Rank(closers'[i])
    <3>1. j # 1 /\ j - 1 \in 1 .. Len(closers) /\ closers'[j] = closers[j - 1]
      BY <1>l, <2>2, <2>4, <2>9
    <3>2. CASE i = 1
      <4>1. closers[j - 1] \in MainParts /\ closers[j - 1] \in live
        BY <3>1 DEF StackInv
      <4>2. Rank(closers[j - 1]) <= Rank(r) - 1
        BY <4>1 DEF OpenUpTo
      <4>3. Rank(closers[j - 1]) \in Nat /\ Rank(r) \in Nat
        BY <4>1
      <4>4. Rank(closers[j - 1]) < Rank(r)
        BY ONLY <4>2, <4>3
      <4> QED BY <2>3, <3>1, <3>2, <4>4
    <3>3. CASE i # 1
      <4>1. i - 1 \in 1 .. Len(closers) /\ closers'[i] = closers[i - 1]
        BY <2>4, <3>3
      <4>2. i - 1 < j - 1
        BY <2>9
      <4> QED BY <3>1, <4>1, <4>2 DEF StackInv
    <3> QED BY <3>2, <3>3
  <2>10. ASSUME NEW i \in 1 .. Len(closers'), NEW q \in MainParts,
                Rank(q) < Rank(closers'[i])
         PROVE  q \in live'
    <3>1. CASE i = 1
      <4>1. Rank(q) < Rank(r) /\ Rank(q) \in Nat /\ Rank(r) \in Nat
        BY <2>3, <2>10, <3>1
      <4> QED BY <1>2, <4>1
    <3>2. CASE i # 1
      <4>1. i - 1 \in 1 .. Len(closers) /\ closers'[i] = closers[i - 1]
        BY <2>4, <3>2
      <4>2. q \in live
        BY <2>10, <4>1 DEF StackInv
      <4> QED BY <4>2
    <3> QED BY <3>1, <3>2
  <2>11. StackInv'
    BY <2>7, <2>8, <2>9, <2>10 DEF StackInv
  <2> QED BY <1>2, <1>3, <2>11
<1> QED BY <1>4, <1>5 DEF Defer

(* One round of closer_close, whether its call fails or not.               *)
LEMMA PopStack ==
  ASSUME TypeOK, LostInv, StackInv, closers # <<>>, closers' = Tail(closers),
         GiveBack({Head(closers)}, {})
  PROVE  /\ LostInv' /\ StackInv'
         /\ live' \cap SensorParts = live \cap SensorParts
         /\ lost' \cap SensorParts = lost \cap SensorParts
<1> USE RankIs
<1> DEFINE r == Head(closers)
<1>1. /\ Len(closers) \in Nat /\ Len(closers) > 0
      /\ Len(closers') = Len(closers) - 1
      /\ \A i \in 1 .. Len(closers') : closers'[i] = closers[i + 1]
      /\ Head(closers) = closers[1]
  BY LenProperties, HeadTailProperties, EmptySeq DEF TypeOK
<1>2. r \in MainParts /\ r \in live /\ r \notin lost /\ 1 \in 1 .. Len(closers)
  BY <1>1 DEF StackInv
<1>3. PICK stuck \in SUBSET {r} :
        /\ live' = (live \ {r}) \cup stuck
        /\ lost' = lost \cup stuck
        /\ "release" \notin Faults => stuck = {}
  <2>1. PICK stuck \in SUBSET {r} :
          /\ live' = (live \ {r}) \cup stuck \cup {}
          /\ lost' = lost \cup stuck \cup {}
          /\ "release" \notin Faults => stuck = {}
    BY ONLY GiveBack({r}, {}), GivenBack
  <2>2. live' = (live \ {r}) \cup stuck /\ lost' = lost \cup stuck
    BY ONLY <2>1
  <2> QED BY <2>1, <2>2
<1>4. LostInv'
  BY <1>2, <1>3 DEF LostInv, Losing
<1>5. MainParts \cap (live' \ lost') = (MainParts \cap (live \ lost)) \ {r}
  BY <1>2, <1>3
<1>6. \A i \in 1 .. Len(closers') :
        i + 1 \in 1 .. Len(closers) /\ closers'[i] = closers[i + 1]
  BY <1>1
<1>7. ASSUME NEW i \in 1 .. Len(closers')
      PROVE  /\ closers'[i] \in MainParts \cap (live' \ lost')
             /\ Rank(closers'[i]) < Rank(r)
  <2>1. closers[i + 1] \in MainParts \cap (live \ lost)
    BY <1>6 DEF StackInv
  <2>2. 1 < i + 1
    BY <1>1
  <2>3. Rank(closers[i + 1]) < Rank(r)
    BY <1>1, <1>2, <1>6, <2>2 DEF StackInv
  <2>4. closers[i + 1] # r
    BY <1>2, <2>1, <2>3
  <2> QED BY <1>5, <1>6, <2>1, <2>3, <2>4
<1>8. ASSUME NEW q \in MainParts \cap (live' \ lost')
      PROVE  \E i \in 1 .. Len(closers') : closers'[i] = q
  <2>1. PICK i \in 1 .. Len(closers) : closers[i] = q
    BY <1>5 DEF StackInv
  <2>2. i # 1
    BY <1>1, <1>5, <2>1
  <2>3. i - 1 \in 1 .. Len(closers') /\ (i - 1) + 1 = i
    BY <1>1, <2>2
  <2>4. closers'[i - 1] = q
    BY <1>6, <2>1, <2>3
  <2> QED BY <2>3, <2>4
<1>9. ASSUME NEW i \in 1 .. Len(closers'), NEW j \in 1 .. Len(closers'), i < j
      PROVE  Rank(closers'[j]) < Rank(closers'[i])
  <2>1. i + 1 < j + 1
    BY <1>9
  <2> QED BY <1>6, <2>1 DEF StackInv
<1>10. ASSUME NEW i \in 1 .. Len(closers'), NEW q \in MainParts,
              Rank(q) < Rank(closers'[i])
       PROVE  q \in live'
  <2>1. q \in live
    BY <1>6, <1>10 DEF StackInv
  <2>2. /\ Rank(closers'[i]) < Rank(r) /\ Rank(closers'[i]) \in Nat
        /\ Rank(q) \in Nat /\ Rank(r) \in Nat
    BY <1>2, <1>7
  <2>3. q # r
    BY <1>10, <2>2
  <2> QED BY <1>3, <2>1, <2>3
<1>11. StackInv'
  BY <1>7, <1>8, <1>9, <1>10 DEF StackInv
<1>12. /\ live' \cap SensorParts = live \cap SensorParts
       /\ lost' \cap SensorParts = lost \cap SensorParts
  BY <1>2, <1>3
<1> QED BY <1>4, <1>11, <1>12

(* A step of the sensor task on its own things leaves app_main's alone.    *)
LEMMA SensorKeepsStack ==
  ASSUME StackInv, OpenedInv, closers' = closers, main' = main,
         live' \cap MainParts = live \cap MainParts,
         lost' \cap MainParts = lost \cap MainParts
  PROVE  StackInv' /\ OpenedInv'
<1>1. MainParts \cap (live' \ lost') = MainParts \cap (live \ lost)
  OBVIOUS
<1>2. \A r \in MainParts : r \in live' <=> r \in live
  OBVIOUS
<1>3. StackInv'
  BY <1>1, <1>2 DEF StackInv
<1>4. OpenedInv'
  BY <1>2 DEF OpenedInv, OpenUpTo
<1> QED BY <1>3, <1>4

(* And the other way round.                                                *)
LEMMA MainKeepsSensor ==
  ASSUME SensorInv, bme' = bme,
         live' \cap SensorParts = live \cap SensorParts,
         lost' \cap SensorParts = lost \cap SensorParts
  PROVE  SensorInv'
BY DEF SensorInv, SensorParts

(* Who holds what.                                                         *)
LEMMA ResourceStep ==
  TypeOK /\ GroupInv /\ ResourceInv /\ [Next]_vars => ResourceInv'
<1> SUFFICES ASSUME TypeOK, GroupInv, LostInv, StackInv, OpenedInv, SensorInv,
                    [Next]_vars
             PROVE  ResourceInv'
  BY DEF ResourceInv
<1> USE DEF taskVars, radioVars, resVars
<1>p. MainParts \cap SensorParts = {}
  BY RankIs
<1>e. ASSUME NEW r \in MainParts, OpenUpTo(Rank(r) - 1), Defer(r),
             live' = live \cup {r}, bme' = bme
      PROVE  /\ LostInv' /\ StackInv' /\ SensorInv'
             /\ \A q \in MainParts : q \in live' <=> Rank(q) <= Rank(r)
  <2>1. /\ live' \cap SensorParts = live \cap SensorParts
        /\ lost' \cap SensorParts = lost \cap SensorParts
    BY <1>e, <1>p DEF Defer
  <2> QED BY <1>e, <2>1, PushStack, MainKeepsSensor
<1>k. ASSUME UNCHANGED <<live, lost, closers, bme>>, OpenedInv'
      PROVE  ResourceInv'
  BY <1>k DEF ResourceInv, LostInv, StackInv, SensorInv
<1>m. ASSUME UNCHANGED <<live, lost, closers, main>>, SensorInv'
      PROVE  ResourceInv'
  BY <1>m DEF ResourceInv, LostInv, StackInv, OpenedInv, OpenUpTo
<1>s. ASSUME UNCHANGED <<main, closers>>, LostInv', SensorInv',
             live' \cap MainParts = live \cap MainParts,
             lost' \cap MainParts = lost \cap MainParts
      PROVE  ResourceInv'
  BY <1>s, SensorKeepsStack DEF ResourceInv
<1>1. CASE Panic \/ UNCHANGED vars
  BY <1>1 DEF Panic, vars, ResourceInv, LostInv, StackInv, OpenedInv,
     OpenUpTo, SensorInv
<1>2. CASE CreateWaitGroup /\ ~Panic
  <2>1. CASE /\ main = "boot" /\ main' = "queue" /\ bme' = bme
             /\ Defer("wg") /\ live' = live \cup {"wg"}
    <3>1. "wg" \in MainParts /\ Rank("wg") = 1 /\ Rank("wg") - 1 = 0
      BY DEF MainParts, Rank
    <3>2. OpenUpTo(0)
      BY <2>1 DEF OpenedInv
    <3>3. /\ LostInv' /\ StackInv' /\ SensorInv'
          /\ \A q \in MainParts : q \in live' <=> Rank(q) <= 1
      BY <2>1, <3>1, <3>2, <1>e
    <3> QED BY <2>1, <3>3 DEF ResourceInv, OpenedInv, OpenUpTo
  <2> QED BY <1>2, <2>1 DEF CreateWaitGroup, At
<1>3. CASE CreateQueue /\ ~Panic
  <2>1. CASE /\ main = "queue" /\ main' = "nvs" /\ bme' = bme
             /\ Defer("queue") /\ live' = live \cup {"queue"}
    <3>1. "queue" \in MainParts /\ Rank("queue") = 2 /\ Rank("queue") - 1 = 1
      BY DEF MainParts, Rank
    <3>2. OpenUpTo(1)
      BY <2>1 DEF OpenedInv
    <3>3. /\ LostInv' /\ StackInv' /\ SensorInv'
          /\ \A q \in MainParts : q \in live' <=> Rank(q) <= 2
      BY <2>1, <3>1, <3>2, <1>e
    <3> QED BY <2>1, <3>3 DEF ResourceInv, OpenedInv, OpenUpTo
  <2> QED BY <1>3, <2>1 DEF CreateQueue, At
<1>4. CASE InitNvs /\ ~Panic
  <2>1. CASE /\ main = "nvs" /\ main' = "sense" /\ bme' = bme
             /\ Defer("nvs") /\ live' = live \cup {"nvs"}
    <3>1. "nvs" \in MainParts /\ Rank("nvs") = 3 /\ Rank("nvs") - 1 = 2
      BY DEF MainParts, Rank
    <3>2. OpenUpTo(2)
      BY <2>1 DEF OpenedInv
    <3>3. /\ LostInv' /\ StackInv' /\ SensorInv'
          /\ \A q \in MainParts : q \in live' <=> Rank(q) <= 3
      BY <2>1, <3>1, <3>2, <1>e
    <3> QED BY <2>1, <3>3 DEF ResourceInv, OpenedInv, OpenUpTo
  <2>2. CASE main' = "wait" /\ UNCHANGED <<live, lost, closers, bme>>
    BY <2>2, <1>k DEF OpenedInv
  <2> QED BY <1>4, <2>1, <2>2 DEF InitNvs, At
<1>5. CASE LaunchSensor
  <2>1. /\ main = "sense" /\ main' = "wifi" /\ bme = "none"
        /\ bme' \in {"none", "init"} /\ UNCHANGED <<live, lost, closers>>
    BY <1>5 DEF LaunchSensor, At, GroupInv, NotYetCreated
  <2> QED
    BY <2>1 DEF ResourceInv, LostInv, StackInv, OpenedInv, OpenUpTo, SensorInv
<1>6. CASE InitWifi /\ ~Panic
  <2>1. CASE /\ main = "wifi" /\ main' \in {"espnow", "wait"} /\ bme' = bme
             /\ Defer("wifi") /\ live' = live \cup {"wifi"}
    <3>1. "wifi" \in MainParts /\ Rank("wifi") = 4 /\ Rank("wifi") - 1 = 3
      BY DEF MainParts, Rank
    <3>2. OpenUpTo(3)
      BY <2>1 DEF OpenedInv
    <3>3. /\ LostInv' /\ StackInv' /\ SensorInv'
          /\ \A q \in MainParts : q \in live' <=> Rank(q) <= 4
      BY <2>1, <3>1, <3>2, <1>e
    <3> QED BY <2>1, <3>3 DEF ResourceInv, OpenedInv, OpenUpTo
  <2> QED BY <1>6, <2>1 DEF InitWifi, At
<1>7. CASE InitEspnow /\ ~Panic
  <2>1. CASE /\ main = "espnow" /\ main' = "radio" /\ bme' = bme
             /\ Defer("espnow") /\ live' = live \cup {"espnow"}
    <3>1. "espnow" \in MainParts /\ Rank("espnow") = 5 /\ Rank("espnow") - 1 = 4
      BY DEF MainParts, Rank
    <3>2. OpenUpTo(4)
      BY <2>1 DEF OpenedInv
    <3>3. /\ LostInv' /\ StackInv' /\ SensorInv'
          /\ \A q \in MainParts : q \in live' <=> Rank(q) <= 5
      BY <2>1, <3>1, <3>2, <1>e
    <3> QED BY <2>1, <3>3 DEF ResourceInv, OpenedInv, OpenUpTo
  <2>2. CASE main' = "wait" /\ UNCHANGED <<live, lost, closers, bme>>
    BY <2>2, <1>k DEF OpenedInv
  <2>3. CASE /\ main = "espnow" /\ main' = "wait" /\ UNCHANGED <<closers, bme>>
             /\ \/ "register_cb" \in Faults /\ GiveBack({}, {"espnow"})
                \/ GiveBack({"espnow"}, {})
    <3>1. "espnow" \in MainParts /\ Rank("espnow") = 5
      BY DEF MainParts, Rank
    <3>2. "espnow" \notin live /\ "espnow" \notin lost
      BY <2>3, <3>1 DEF OpenedInv, OpenUpTo, LostInv
    <3>3. PICK stuck \in SUBSET {"espnow"} :
            /\ live' = live \cup stuck /\ lost' = lost \cup stuck
            /\ Faults \cap Losing = {} => stuck = {}
      <4>1. CASE "register_cb" \in Faults /\ GiveBack({}, {"espnow"})
        BY <4>1, GivenBack DEF Losing
      <4>2. CASE GiveBack({"espnow"}, {})
        BY <3>2, <4>2, GivenBack DEF Losing
      <4> QED BY <2>3, <4>1, <4>2
    <3>4. MainParts \cap (live' \ lost') = MainParts \cap (live \ lost)
      BY <3>2, <3>3
    <3>5. LostInv' /\ StackInv'
      BY <2>3, <3>3, <3>4 DEF LostInv, StackInv
    <3>6. SensorInv'
      BY <2>3, <3>1, <3>3, <1>p, MainKeepsSensor
    <3> QED BY <2>3, <3>5, <3>6 DEF ResourceInv, OpenedInv
  <2> QED BY <1>7, <2>1, <2>2, <2>3 DEF InitEspnow, At
<1>8. CASE LaunchRadio \/ Wait \/ Take \/ Reset
  <2>1. /\ main' \in {"wait", "take", "reset", "close"}
        /\ UNCHANGED <<live, lost, closers, bme>>
    BY <1>8 DEF LaunchRadio, Wait, Take, Reset
  <2> QED BY <2>1, <1>k DEF OpenedInv
<1>9. CASE Close
  <2>1. /\ main' = "close" /\ bme' = bme /\ closers # <<>>
        /\ closers' = Tail(closers) /\ GiveBack({Head(closers)}, {})
    BY <1>9 DEF Close, At
  <2>2. LostInv' /\ StackInv' /\ SensorInv'
    BY <2>1, PopStack, MainKeepsSensor
  <2> QED BY <2>1, <2>2 DEF ResourceInv, OpenedInv
<1>10. CASE Sleep /\ ~Panic
  <2>1. main' = "asleep" /\ UNCHANGED <<live, lost, closers, bme>> /\ closers = <<>>
    BY <1>10 DEF Sleep, At
  <2> QED BY <2>1, <1>k DEF OpenedInv
<1>11. CASE Wake
  <2>1. /\ main' = "boot" /\ bme' = "none" /\ live' = {} /\ lost' = {}
        /\ closers' = <<>> /\ Len(closers') = 0
    BY <1>11 DEF Wake
  <2>2. OpenUpTo(0)'
    BY <2>1, RankIs DEF OpenUpTo
  <2> QED
    BY <2>1, <2>2 DEF ResourceInv, LostInv, StackInv, OpenedInv, SensorInv
<1>12. CASE InitSensor
  <2>1. bme = "init" /\ UNCHANGED <<main, closers>> /\ bme' \in {"adc", "done"}
    BY <1>12 DEF InitSensor
  <2>2. live \cap SensorParts = {} /\ lost \cap SensorParts = {}
    BY <2>1 DEF SensorInv, LostInv
  <2>3. CASE live' = live \cup Bme280 /\ lost' = lost /\ bme' = "adc"
    BY <2>1, <2>2, <2>3, <1>p, <1>s DEF SensorInv, LostInv, SensorParts, Bme280
  <2>4. CASE /\ \/ GiveBack({"power", "i2c"}, {})
                \/ "sensor_init" \in Faults /\ GiveBack({}, Bme280)
             /\ bme' = "done"
    <3>1. PICK stuck \in SUBSET SensorParts :
            /\ live' = live \cup stuck /\ lost' = lost \cup stuck
            /\ Faults \cap Losing = {} => stuck = {}
      <4>1. CASE GiveBack({"power", "i2c"}, {})
        BY <2>2, <4>1, GivenBack DEF SensorParts, Bme280, Losing
      <4>2. CASE "sensor_init" \in Faults /\ GiveBack({}, Bme280)
        BY <4>2, GivenBack DEF SensorParts, Losing
      <4> QED BY <2>4, <4>1, <4>2
    <3> QED BY <2>1, <2>2, <2>4, <3>1, <1>p, <1>s DEF SensorInv, LostInv
  <2> QED BY <1>12, <2>3, <2>4 DEF InitSensor
<1>13. CASE InitAdc
  <2>1. bme = "adc" /\ UNCHANGED <<main, closers>> /\ bme' \in {"read", "done"}
    BY <1>13 DEF InitAdc
  <2>2. live \cap SensorParts = Bme280 /\ lost \cap SensorParts = {}
    BY <2>1 DEF SensorInv
  <2>3. CASE live' = live \cup {"adc"} /\ lost' = lost /\ bme' = "read"
    BY <2>1, <2>2, <2>3, <1>p, <1>s DEF SensorInv, LostInv, SensorParts
  <2>4. CASE /\ \/ GiveBack(Bme280, {})
                \/ "adc_channel" \in Faults /\ GiveBack(Bme280, {"adc"})
             /\ bme' = "done"
    <3>1. PICK stuck \in SUBSET SensorParts :
            /\ live' = (live \ Bme280) \cup stuck /\ lost' = lost \cup stuck
            /\ Faults \cap Losing = {} => stuck = {}
      <4>1. CASE GiveBack(Bme280, {})
        BY <4>1, GivenBack DEF SensorParts, Losing
      <4>2. CASE "adc_channel" \in Faults /\ GiveBack(Bme280, {"adc"})
        <5>1. PICK stuck \in SUBSET Bme280 :
                /\ live' = (live \ Bme280) \cup stuck \cup {"adc"}
                /\ lost' = lost \cup stuck \cup {"adc"}
          BY <4>2, GivenBack
        <5>2. stuck \cup {"adc"} \in SUBSET SensorParts
          BY DEF SensorParts
        <5> QED BY <4>2, <5>1, <5>2 DEF Losing
      <4> QED BY <2>4, <4>1, <4>2
    <3>2. SensorInv' /\ LostInv'
      BY <2>1, <2>2, <2>4, <3>1 DEF SensorInv, LostInv, SensorParts
    <3>3. live' \cap MainParts = live \cap MainParts /\ lost' \cap MainParts = lost \cap MainParts
      BY <3>1, <1>p DEF SensorParts
    <3> QED BY <2>1, <3>2, <3>3, <1>s
  <2> QED BY <1>13, <2>3, <2>4 DEF InitAdc
<1>14. CASE SendSample /\ ~Panic
  <2>1. /\ bme = "read" /\ bme' \in {"read", "cleanup"}
        /\ UNCHANGED <<main, live, lost, closers>>
    BY <1>14 DEF SendSample
  <2> QED BY <2>1, <1>m DEF SensorInv
<1>15. CASE CleanUp
  <2>1. /\ bme = "cleanup" /\ bme' = "done" /\ UNCHANGED <<main, closers>>
        /\ GiveBack(SensorParts, {})
    BY <1>15 DEF CleanUp, SensorParts
  <2>2. PICK stuck \in SUBSET SensorParts :
          /\ live' = (live \ SensorParts) \cup stuck /\ lost' = lost \cup stuck
          /\ "release" \notin Faults => stuck = {}
    BY <2>1, GivenBack
  <2>3. SensorInv' /\ LostInv'
    BY <2>1, <2>2 DEF SensorInv, LostInv, Losing
  <2>4. live' \cap MainParts = live \cap MainParts /\ lost' \cap MainParts = lost \cap MainParts
    BY <2>2, <1>p
  <2> QED BY <2>1, <2>3, <2>4, <1>s
<1>16. CASE SensorDone \/ RadioDone
  <2>1. /\ (bme \in {"done", "notify"} /\ bme' \in {"notify", "gone"}) \/ bme' = bme
        /\ UNCHANGED <<main, live, lost, closers>>
    BY <1>16 DEF SensorDone, RadioDone, WgDone
  <2> QED BY <2>1, <1>m DEF SensorInv
<1>17. CASE StartRadio \/ Receive \/ ReceiveTimeout \/ Transmit \/ TransmitFails
              \/ AwaitStatus \/ StatusTimeout \/ StopRadio \/ SendCallback
  <2>1. UNCHANGED <<main, bme, live, lost, closers>>
    BY <1>17 DEF StartRadio, Receive, ReceiveTimeout, Transmit, TransmitFails,
       AwaitStatus, StatusTimeout, StopRadio, SendCallback
  <2> QED BY <2>1, <1>m DEF SensorInv
<1> QED
  BY <1>1, <1>2, <1>3, <1>4, <1>5, <1>6, <1>7, <1>8, <1>9, <1>10, <1>11,
     <1>12, <1>13, <1>14, <1>15, <1>16, <1>17
  DEF Next, MainStep, SensorStep, RadioStep, SensorDoneTooLate,
      RadioDoneTooLate, ReceiveReleased

(* Power-on satisfies the invariant.                                       *)
LEMMA InitInv == Init => Inv
<1> SUFFICES ASSUME Init PROVE Inv
  OBVIOUS
<1>1. TypeOK
  BY SenderAssumption DEF Init, WgNone, TypeOK, WgTypeOK, MainPc, BmePc,
     EspPc, SEND_PACKET
<1>2. LoopInv /\ GroupInv /\ TargetInv
  BY DEF Init, WgNone, LoopInv, GroupInv, TargetInv, HandleIsLive,
     NotYetCreated, CountsBusy, Notified, NotifiedMeansDone, TakenMeansGone,
     BmeBusy, EspBusy, Busy
<1>3. made = 0 /\ Len(queue) = 0 /\ transmitted = 0 /\ esp = "none"
  BY DEF Init
<1>4. QueueInv /\ TransmitInv
  BY <1>3 DEF QueueInv, TransmitInv
<1>5. RoundInv /\ StatusInv
  BY DEF Init, RoundInv, StatusInv
<1>6. ResourceInv
  <2>1. live = {} /\ lost = {} /\ bme = "none" /\ Len(closers) = 0 /\ main = "boot"
    BY DEF Init
  <2>2. OpenUpTo(0)
    BY <2>1, RankIs DEF OpenUpTo
  <2> QED
    BY <2>1, <2>2 DEF ResourceInv, LostInv, StackInv, OpenedInv, SensorInv
<1> QED BY <1>1, <1>2, <1>4, <1>5, <1>6 DEF Inv, PacketInv

(* The inductive invariant of the sender.                                  *)
THEOREM Invariant == Spec => []Inv
<1>1. Inv /\ [Next]_vars => Inv'
  BY TypeStep, LoopStep, GroupStep, TargetStep, PacketStep,
     ResourceStep DEF Inv
<1> QED BY <1>1, InitInv, PTL DEF Spec

(* The state of the sender keeps its type.                                 *)
THEOREM TypeCorrect == Spec => []TypeOK
<1>1. Inv => TypeOK
  BY DEF Inv
<1> QED BY <1>1, Invariant, PTL

(* For every length of the queue, xQueueSend of the sensor task finds room *)
(* in it, although nobody may be reading (main.c:36, 203).                 *)
THEOREM NeverBlocks == Spec => []SenderNeverBlocks
<1>1. Inv => SenderNeverBlocks
  <2> SUFFICES ASSUME Inv, bme = "read" PROVE Len(queue) < ESPNOW_QUEUE_SIZE
    BY DEF SenderNeverBlocks
  <2>1. made < SEND_PACKET /\ Len(queue) <= made
    BY DEF Inv, LoopInv, PacketInv, QueueInv
  <2>2. made \in Nat /\ Len(queue) \in Nat
    BY SenderAssumption, LenProperties DEF Inv, TypeOK, SEND_PACKET
  <2> QED BY <2>1, <2>2, SenderAssumption DEF SEND_PACKET
<1> QED BY <1>1, Invariant, PTL

(* Whatever fails, the sensor task has ended before app_main releases a    *)
(* resource, and so has the radio task unless it was added after the       *)
(* sensor task had ended (main.c:363-366).                                 *)
THEOREM TasksStop == Spec => []TasksStopBeforeRelease
<1>1. Inv => SensorStopsBeforeRelease
  BY DEF Inv, GroupInv, TakenMeansGone, SensorStopsBeforeRelease, Released
<1>2. Inv => RadioStopsBeforeRelease
  BY DEF Inv, GroupInv, TakenMeansGone, RadioStopsBeforeRelease, Released
<1> QED BY <1>1, <1>2, Invariant, PTL DEF TasksStopBeforeRelease

(* The callback only ever finds the handle of a task that is still in its  *)
(* loop (main.c:223-225, 247, 265).                                        *)
THEOREM CallbackSafe == Spec => []HandleIsLive
<1>1. Inv => HandleIsLive
  BY DEF Inv, TargetInv
<1> QED BY <1>1, Invariant, PTL

(* The status that ends a wait is that of the packet just sent, if no wait *)
(* timed out before (main.c:243-255).                                      *)
THEOREM StatusMatches == Spec => []StatusIsOfLastSend
<1>1. Inv => StatusIsOfLastSend
  BY DEF Inv, PacketInv, StatusInv, StatusIsOfLastSend
<1> QED BY <1>1, Invariant, PTL

(* Without a timeout of xQueueReceive the loop transmits every sample      *)
(* (main.c:240-261).                                                       *)
THEOREM NothingLost == Spec => []NothingLeftBehind
<1>1. Inv => NothingLeftBehind
  BY DEF Inv, PacketInv, RoundInv, NothingLeftBehind
<1> QED BY <1>1, Invariant, PTL

(* Whatever fails, what is still on in deep sleep is what its own release  *)
(* could not switch off or a failed step has left on: app_main's closers   *)
(* and the sensor task's clean-up between them cover everything else on    *)
(* every path, and the sensor task is through when the chip goes to sleep  *)
(* (main.c:89-94, 125-150, 211-215, 363-366).                              *)
THEOREM AllOff == Spec => []AllOffBeforeSleep
<1>1. Inv => AllOffBeforeSleep
  <2> SUFFICES ASSUME Inv, main = "asleep", NEW r \in live \cap Peripherals
               PROVE  r \in lost
    BY DEF AllOffBeforeSleep
  <2>1. StackInv /\ SensorInv /\ closers = <<>>
    BY DEF Inv, ResourceInv, OpenedInv
  <2>2. bme \in {"none", "gone"}
    BY DEF Inv, GroupInv, TakenMeansGone
  <2>3. CASE r \in SensorParts
    BY <2>1, <2>2, <2>3 DEF SensorInv
  <2>4. CASE r \in MainParts
    BY <2>1, <2>4 DEF StackInv
  <2>5. r \in MainParts \cup SensorParts
    BY DEF Peripherals, SensorParts, Bme280, MainParts
  <2> QED BY <2>3, <2>4, <2>5
<1> QED BY <1>1, Invariant, PTL

(* And where none of the five failures can happen whose handling leaves    *)
(* something on, nothing is on in deep sleep, whatever else fails          *)
(* (main.c:89-94, 128, 135-140, 146-148, 214, 274, bat_adc.c:120,          *)
(* closer.c:36).                                                           *)
THEOREM OffUnlessLost ==
  ASSUME Faults \cap Losing = {}
  PROVE  Spec => []EverythingOff
<1>1. Inv => LostInv
  BY DEF Inv, ResourceInv
<1>2. LostInv /\ AllOffBeforeSleep => EverythingOff
  BY DEF LostInv, AllOffBeforeSleep, EverythingOff
<1> QED BY <1>1, <1>2, Invariant, AllOff, PTL

(* ESP-NOW goes down before Wi-Fi, Wi-Fi before NVS and all of them before *)
(* the queue and the wait group, and a call that fails does not upset the  *)
(* order of the others (main.c:331-347, 366).                              *)
THEOREM Reversed == Spec => []TornDownInReverse
<1>1. Inv => TornDownInReverse
  <2> SUFFICES ASSUME Inv PROVE TornDownInReverse
    OBVIOUS
  <2>1. StackInv
    BY DEF Inv, ResourceInv
  <2>2. ASSUME NEW q \in MainParts, NEW r \in MainParts, Rank(q) < Rank(r),
               r \in live \ lost
        PROVE  q \in live
    BY <2>1, <2>2 DEF StackInv
  <2>3. /\ Rank("wg") = 1 /\ Rank("queue") = 2 /\ Rank("nvs") = 3
        /\ Rank("wifi") = 4 /\ Rank("espnow") = 5
    BY DEF Rank
  <2>4. {"wg", "queue", "nvs", "wifi", "espnow"} = MainParts
    BY DEF MainParts
  <2>5. "espnow" \in live \ lost => "wifi" \in live
    BY <2>2, <2>3, <2>4
  <2>6. "wifi" \in live \ lost => "nvs" \in live
    BY <2>2, <2>3, <2>4
  <2>7. "nvs" \in live \ lost => "queue" \in live /\ "wg" \in live
    BY <2>2, <2>3, <2>4
  <2> QED BY <2>5, <2>6, <2>7 DEF TornDownInReverse
<1> QED BY <1>1, Invariant, PTL

(* The sender implements TelemetryBatch: in each waking period it          *)
(* transmits its samples in the order they were taken, none twice and none *)
(* skipped.                                                                *)
THEOREM Refinement == Spec => Batch
<1>1. Init => BatchInOrder!Init
  BY DEF Init, BatchInOrder!Init
<1>2. Inv /\ [Next]_vars => [BatchInOrder!Next]_<<made, transmitted, frames>>
  <2> SUFFICES ASSUME Inv, [Next]_vars, ~UNCHANGED <<made, transmitted, frames>>
               PROVE  BatchInOrder!Next
    OBVIOUS
  <2> USE DEF taskVars, radioVars, resVars
  <2>1. CASE SendSample
    BY <2>1 DEF SendSample, Panic, Inv, LoopInv, BatchInOrder!Next,
       BatchInOrder!Sample
  <2>2. CASE Transmit
    <3>1. /\ transmitted' = cur /\ frames' = frames + 1
          /\ made' = made /\ esp = "send"
      BY <2>2 DEF Transmit
    <3>2. cur = made - Len(queue) /\ transmitted = cur - 1
      BY <3>1 DEF Inv, PacketInv, TransmitInv
    <3>3. made \in Nat /\ Len(queue) \in Nat /\ cur \in Nat
      BY SenderAssumption, LenProperties DEF Inv, TypeOK, SEND_PACKET
    <3> QED
      BY <3>1, <3>2, <3>3 DEF BatchInOrder!Next, BatchInOrder!Transmit
  <2>3. CASE Wake
    BY <2>3 DEF Wake, BatchInOrder!Next, BatchInOrder!Restart
  <2>4. CASE MainStep \/ Panic \/ UNCHANGED vars
    BY <2>4 DEF MainStep, CreateWaitGroup, CreateQueue, InitNvs,
       LaunchSensor, InitWifi, InitEspnow, LaunchRadio, Wait, Take, Reset,
       Close, Sleep, Panic, vars
  <2>5. CASE InitSensor \/ InitAdc \/ CleanUp \/ SensorDone
    BY <2>5 DEF InitSensor, InitAdc, CleanUp, SensorDone
  <2>6. CASE StartRadio \/ Receive \/ ReceiveTimeout \/ TransmitFails
    BY <2>6 DEF StartRadio, Receive, ReceiveTimeout, TransmitFails
  <2>7. CASE AwaitStatus \/ StatusTimeout \/ StopRadio \/ RadioDone
               \/ SendCallback
    BY <2>7 DEF AwaitStatus, StatusTimeout, StopRadio, RadioDone, SendCallback
  <2> QED
    BY <2>1, <2>2, <2>3, <2>4, <2>5, <2>6, <2>7
    DEF Next, SensorStep, RadioStep, SensorDoneTooLate, RadioDoneTooLate,
        ReceiveReleased
<1> QED
  BY <1>1, <1>2, Invariant, PTL DEF Spec, Batch, BatchInOrder!Spec
=============================================================================
