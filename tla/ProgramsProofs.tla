--------------------------- MODULE ProgramsProofs ---------------------------
(***************************************************************************)
(* The safety of the server's life, of easy_server and of the sketch, for  *)
(* any sources, pages, times, readings and numbers of packets.             *)
(*                                                                         *)
(* The server: that it does not panic rests on who is left when            *)
(* emitter.Close runs: no member of the group, so nobody whose panic ends  *)
(* the process touches the emitter after it.  That it says why it ends     *)
(* rests on the shutdown member, which does not return before the group is *)
(* done, and on the group's first error coming before ErrServerClosed.     *)
(***************************************************************************)
EXTENDS MCPrograms, Means

(* The server.                                                             *)
(* Emit finds no closed channel; until Close has run the map is there and  *)
(* Stats has its channel open; and Close finds Stats gone.                 *)
ChannelsApart ==
  /\ subscribers \cap closed = {}
  /\ main \notin {"leaving", "exit"} =>
       emitter /\ (stats \in {"loop", "unsubscribe"} => "stats" \notin closed)
  /\ main \in {"closing", "leaving"} => stats \in {"off", "returned"}
  /\ main # "panic"

(* Without a signal the first error is a failure, and nobody has shut the  *)
(* pages off before it.                                                    *)
ReasonKnown ==
  /\ err \in {"nil", "closed", "error"} /\ cancelled \in BOOLEAN /\ signalled \in BOOLEAN
  /\ cancelled <=> err # "nil"
  /\ ~signalled => err # "closed"
  /\ shutdown \in {"draining", "returned"} => signalled \/ cancelled
  /\ main = "wait" => shutdown \in {"waiting", "draining", "returned"}
  /\ main \in {"closing", "leaving", "exit"} => signalled \/ logged

ServerInv == ChannelsApart /\ ReasonKnown /\ PortReleased

LEMMA ServerInitHolds == Init => ServerInv
BY DEF Init, SerialOff, ServerInv, ChannelsApart, ReasonKnown, PortReleased

-----------------------------------------------------------------------------
(* With the channels apart, Emit does not panic.                           *)
LEMMA EmitIsSafe ==
  ASSUME ChannelsApart, Emit PROVE UNCHANGED processVars
BY DEF ChannelsApart, Emit

LEMMA ChannelsKept == ServerInv /\ [Next]_vars => ChannelsApart'
<1> SUFFICES ASSUME ServerInv, [Next]_vars PROVE ChannelsApart'
  OBVIOUS
<1> USE DEF ServerInv, ChannelsApart
<1>1. CASE Start \/ Restart
  BY <1>1 DEF Start, Restart, Launch
<1>2. CASE Signal \/ ParseFlags \/ SetupFails \/ StartGroup \/ Wait \/ Exit
  BY <1>2 DEF Signal, ParseFlags, SetupFails, StartGroup, Wait, Exit, GroupReturned, Returned,
              emitterVars, memberVars
<1>3. CASE Close
  BY <1>3 DEF Close, CloseEmitter, memberVars
<1>4. CASE UNCHANGED <<main, stats, emitterVars>>
  BY <1>4 DEF emitterVars
<1>5. CASE UdpStep
  <2>1. main' = main
    BY <1>5, EmitIsSafe DEF UdpStep, Fail, processVars
  <2> QED BY <2>1, <1>4, <1>5 DEF UdpStep
<1>6. CASE SerialOther \/ SerialRead \/ NotifyExit
  BY <1>6, <1>4 DEF SerialOther, SerialRead, NotifyExit, processVars, memberVars
<1>7. CASE SerialEmit
  <2>1. main' = main
    BY <1>7, EmitIsSafe DEF SerialEmit, processVars
  <2> QED BY <2>1, <1>4, <1>7 DEF SerialEmit, memberVars
<1>8. CASE SerialEnd
  BY <1>8, <1>4 DEF SerialEnd, Fail, processVars, memberVars
<1>9. CASE MqttStep
  <2>1. main' = main
    BY <1>9 DEF MqttStep, MqttConnect, MqttSubscribe, MqttDone, MqttClose, MqttUnsubscribe,
                Fail, processVars
  <2> QED BY <2>1, <1>4, <1>9 DEF MqttStep
<1>10. CASE StatsStep
  BY <1>10 DEF StatsStep, Alive, Subscribing, Unsubscribing, processVars, Done
<1>11. CASE HttpStep
  <2>1. main' = main
    BY <1>11 DEF HttpStep, Listen, Shutdown, Fail, processVars
  <2> QED BY <2>1, <1>4, <1>11 DEF HttpStep
<1>12. CASE ConnectionLost \/ Reconnect \/ MessageArrives
  BY <1>12, <1>4 DEF ConnectionLost, Reconnect, MessageArrives, processVars, memberVars
<1>13. CASE MessageHandler
  <2>1. main' = main
    BY <1>13, EmitIsSafe DEF MessageHandler, processVars
  <2> QED BY <2>1, <1>4, <1>13 DEF MessageHandler, memberVars
<1>14. ASSUME NEW p \in Pages, Connect(p) \/ Disconnect(p) \/ Write(p) PROVE ChannelsApart'
  BY <1>14, <1>4 DEF Connect, Disconnect, Write, processVars, memberVars
<1>15. ASSUME NEW p \in Pages, HandlerStep(p) PROVE ChannelsApart'
  <2>1. p # "stats"
    BY ServerAssumption
  <2>2. UNCHANGED <<main, stats, emitter>>
    BY <1>15 DEF HandlerStep, processVars, memberVars
  <2>3. Subscribing(p) \/ Unsubscribing(p) \/ UNCHANGED <<subscribers, closed>>
    BY <1>15 DEF HandlerStep, Recovered
  <2> QED BY <2>1, <2>2, <2>3 DEF Subscribing, Unsubscribing
<1>16. CASE UNCHANGED vars
  BY <1>16, <1>4 DEF vars, processVars, memberVars
<1> QED BY <1>1, <1>2, <1>3, <1>5, <1>6, <1>7, <1>8, <1>9, <1>10, <1>11, <1>12, <1>13, <1>14,
           <1>15, <1>16 DEF Next, MainStep, MemberStep, SerialStep

LEMMA ReasonKept == ServerInv /\ [Next]_vars => ReasonKnown'
<1> SUFFICES ASSUME ServerInv, [Next]_vars PROVE ReasonKnown'
  OBVIOUS
<1> USE DEF ServerInv, ReasonKnown
<1>1. CASE Start \/ Restart
  BY <1>1 DEF Start, Restart, Launch
<1>2. CASE UNCHANGED <<processVars, shutdown>>
  BY <1>2 DEF processVars
<1>3. CASE Signal \/ ParseFlags \/ SetupFails \/ StartGroup \/ Close \/ Exit
  <2>1. CASE Signal BY <2>1 DEF Signal, memberVars
  <2>2. CASE ParseFlags BY <2>2 DEF ParseFlags, memberVars
  <2>3. CASE SetupFails BY <2>3 DEF SetupFails, memberVars
  <2>4. CASE StartGroup BY <2>4 DEF StartGroup
  <2>5. CASE Close BY <2>5 DEF Close, memberVars
  <2>6. CASE Exit BY <2>6 DEF Exit, memberVars
  <2> QED BY <1>3, <2>1, <2>2, <2>3, <2>4, <2>5, <2>6
<1>4. CASE Wait
  <2>1. shutdown = "returned"
    BY <1>4 DEF Wait, GroupReturned, Returned
  <2> QED BY <2>1, <1>4 DEF Wait, memberVars
<1>5. ASSUME Fail("error"), shutdown' \in {shutdown, "returned"}
      PROVE  ReasonKnown'
  BY <1>5 DEF Fail
<1>6. CASE UdpStep
  BY <1>6, <1>2, <1>5, EmitIsSafe DEF UdpStep
<1>7. CASE SerialOther \/ SerialRead \/ NotifyExit
  BY <1>7, <1>2 DEF SerialOther, SerialRead, NotifyExit, memberVars
<1>8. CASE SerialEmit
  BY <1>8, <1>2, EmitIsSafe DEF SerialEmit, memberVars
<1>9. CASE SerialEnd
  BY <1>9, <1>2, <1>5 DEF SerialEnd, memberVars
<1>10. CASE MqttStep
  BY <1>10, <1>2, <1>5 DEF MqttStep, MqttConnect, MqttSubscribe, MqttDone, MqttClose,
                           MqttUnsubscribe
<1>11. CASE StatsStep
  <2>1. ~Panic
    <3>1. ~Panic \/ main' = "panic" BY DEF Panic
    <3>2. main' # "panic" BY ChannelsKept DEF ChannelsApart
    <3> QED BY <3>1, <3>2
  <2> QED BY <2>1, <1>11, <1>2 DEF StatsStep
<1>12. CASE HttpStep
  <2>1. CASE Listen
    BY <2>1, <1>5 DEF Listen, Fail
  <2>2. CASE Shutdown
    <3>1. CASE shutdown = "waiting" /\ Done /\ shutdown' = "draining" /\ UNCHANGED processVars
      BY <3>1 DEF Done, processVars
    <3>2. CASE shutdown' = "returned" /\ shutdown = "draining" /\ UNCHANGED processVars
      BY <3>2 DEF processVars
    <3>3. CASE shutdown' = "returned" /\ Fail("error")
      BY <3>3, <1>5
    <3> QED BY <2>2, <3>1, <3>2, <3>3 DEF Shutdown
  <2> QED BY <1>12, <2>1, <2>2 DEF HttpStep
<1>13. CASE ConnectionLost \/ Reconnect \/ MessageArrives
  BY <1>13, <1>2 DEF ConnectionLost, Reconnect, MessageArrives, memberVars
<1>14. CASE MessageHandler
  BY <1>14, <1>2, EmitIsSafe DEF MessageHandler, memberVars
<1>15. ASSUME NEW p \in Pages, Connect(p) \/ Disconnect(p) \/ Write(p) \/ HandlerStep(p)
       PROVE  UNCHANGED <<processVars, shutdown>>
  BY <1>15 DEF Connect, Disconnect, Write, HandlerStep, memberVars
<1>16. CASE UNCHANGED vars
  BY <1>16, <1>2 DEF vars, memberVars
<1> QED BY <1>1, <1>2, <1>3, <1>4, <1>6, <1>7, <1>8, <1>9, <1>10, <1>11, <1>12, <1>13, <1>14,
           <1>15, <1>16 DEF Next, MainStep, MemberStep, SerialStep

LEMMA PortKept == ServerInv /\ [Next]_vars => PortReleased'
<1> SUFFICES ASSUME ServerInv, [Next]_vars PROVE PortReleased'
  OBVIOUS
<1> USE DEF ServerInv, PortReleased, serialVars
<1>1. CASE Start \/ Restart \/ StartGroup
  BY <1>1 DEF Start, Restart, Launch, StartGroup
<1>2. CASE UNCHANGED serialVars
  BY <1>2
<1>3. CASE SerialOther
  BY <1>3 DEF SerialOther, SerialGoOn, SerialStop, SerialOpen, SerialSleep, SerialSkip, SerialLeave
<1>4. CASE SerialRead \/ SerialEmit \/ SerialEnd
  BY <1>4 DEF SerialRead, SerialEmit, SerialEnd, SerialScan, SerialClose
<1>5. Signal \/ NotifyExit \/ ParseFlags \/ SetupFails \/ Wait \/ Close \/ Exit \/ UdpStep \/ MqttStep
        \/ StatsStep \/ HttpStep => UNCHANGED serialVars
  BY DEF Signal, NotifyExit, ParseFlags, SetupFails, Wait, Close, Exit, UdpStep, MqttStep,
         StatsStep, HttpStep
<1>6. ConnectionLost \/ Reconnect \/ MessageArrives \/ MessageHandler \/ UNCHANGED vars
        => UNCHANGED serialVars
  BY DEF ConnectionLost, Reconnect, MessageArrives, MessageHandler, vars
<1>7. ASSUME NEW p \in Pages, Connect(p) \/ Disconnect(p) \/ Write(p) \/ HandlerStep(p)
      PROVE  UNCHANGED serialVars
  BY <1>7 DEF Connect, Disconnect, Write, HandlerStep
<1> QED BY <1>1, <1>2, <1>3, <1>4, <1>5, <1>6, <1>7 DEF Next, MainStep, MemberStep, SerialStep

-----------------------------------------------------------------------------
(* The three parts together.                                               *)
THEOREM ServerInvariant == Spec => []ServerInv
<1>1. ServerInv /\ [Next]_vars => ServerInv'
  BY ChannelsKept, ReasonKept, PortKept DEF ServerInv
<1> QED BY ServerInitHolds, <1>1, PTL DEF Spec

(* Whatever the order of shutdown, late messages and late pages, no panic  *)
(* ends the process.                                                       *)
THEOREM NoPanic == Spec => []NeverPanics
<1>1. ServerInv => NeverPanics
  BY DEF ServerInv, ChannelsApart, NeverPanics
<1> QED BY ServerInvariant, <1>1, PTL

(* A server that ends without a signal has logged an error.                *)
THEOREM ReasonLogged == Spec => []EndsWithReason
<1>1. ServerInv => EndsWithReason
  BY DEF ServerInv, ReasonKnown, EndsWithReason
<1> QED BY ServerInvariant, <1>1, PTL

(* The serial port is open only while lines are read from it.              *)
THEOREM PortGivenBack == Spec => []PortReleased
<1>1. ServerInv => PortReleased
  BY DEF ServerInv
<1> QED BY ServerInvariant, <1>1, PTL

-----------------------------------------------------------------------------
(* TypeOK in parts.                                                        *)
Programs ==
  /\ serial \in {"off", "top", "open", "scan", "line", "close", "sleep", "returned"}
  /\ unit \in {"inactive", "active", "restarting"}
  /\ enabled \subseteq {"udp", "serial", "mqtt"} /\ main \in MainPc
  /\ err \in {"nil", "closed", "error"}
  /\ udp \in {"off", "top", "read", "emit", "returned"}
  /\ mqtt \in {"off", "connect", "subscribe", "running", "returned"}
  /\ mqttCloser \in {"off", "waiting", "unsubscribe", "returned"}
  /\ stats \in {"off", "subscribe", "loop", "unsubscribe", "returned"}
  /\ http \in {"off", "serving", "returned"}
  /\ shutdown \in {"off", "waiting", "draining", "returned"}
  /\ conn \in {"none", "open", "lost", "closed"}

Flags ==
  /\ signalled \in BOOLEAN /\ cancelled \in BOOLEAN /\ logged \in BOOLEAN
  /\ topic \in BOOLEAN /\ message \in BOOLEAN /\ emitter \in BOOLEAN
  /\ port \in BOOLEAN

Channels ==
  /\ subscribers \subseteq Pages \cup {"stats"} /\ (~emitter => subscribers = {})
  /\ closed \subseteq Pages \cup {"stats"}
  /\ handler \in [Pages -> HandlerPc] /\ online \in [Pages -> BOOLEAN]

LEMMA TypesInParts == TypeOK <=> Programs /\ Flags /\ Channels
BY DEF TypeOK, SerialTypeOK, Programs, Flags, Channels

LEMMA ServerInitTyped == Init => TypeOK
<1> SUFFICES ASSUME Init PROVE Programs /\ Flags /\ Channels
  BY TypesInParts
<1>1. Programs
  BY DEF Init, Programs, SerialOff, MainPc
<1>2. Flags
  BY DEF Init, Flags, SerialOff
<1>3. Channels
  BY DEF Init, Channels, HandlerPc
<1> QED BY <1>1, <1>2, <1>3

(* Emit leaves everything well typed.                                      *)
LEMMA EmitTyped ==
  ASSUME TypeOK, Emit
  PROVE  /\ main' \in MainPc /\ err' = err
         /\ UNCHANGED <<signalled, cancelled, logged>>
         /\ handler' \in [Pages -> HandlerPc]
BY DEF TypeOK, Emit, Panic, processVars, MainPc, HandlerPc

LEMMA FailTyped ==
  ASSUME TypeOK, NEW e \in {"closed", "error"}, Fail(e)
  PROVE  err' \in {"nil", "closed", "error"} /\ cancelled' = TRUE
         /\ UNCHANGED <<main, signalled, logged>>
BY DEF TypeOK, Fail

LEMMA ProgramsTyped == TypeOK /\ [Next]_vars => Programs'
<1> SUFFICES ASSUME TypeOK, [Next]_vars PROVE Programs'
  OBVIOUS
<1>t. Programs
  BY TypesInParts
<1> USE DEF flagVars, processVars, memberVars, mqttVars, serialVars
<1>1. CASE Start \/ Restart
  BY <1>1 DEF Start, Restart, Launch, Programs, MainPc
<1>2. CASE Signal \/ NotifyExit
  <2>1. UNCHANGED <<enabled, main, err, memberVars, serial, conn>>
    BY <1>2 DEF Signal, NotifyExit
  <2>2. unit' \in {unit, "inactive", "restarting"}
    BY <1>2 DEF Signal, NotifyExit
  <2> QED BY <1>t, <2>1, <2>2 DEF Programs
<1>3. CASE MainStep
  <2>1. CASE ParseFlags
    <3>1. enabled' \subseteq {"udp", "serial", "mqtt"} /\ main' \in MainPc
      BY <1>t, <2>1, ServerAssumption DEF ParseFlags, Programs, MainPc
    <3>2. UNCHANGED <<unit, err, memberVars, serial, conn>>
      BY <2>1 DEF ParseFlags
    <3> QED BY <1>t, <3>1, <3>2 DEF Programs
  <2>2. CASE SetupFails \/ Wait \/ Close \/ Exit
    <3>1. main' \in MainPc
      BY <2>2 DEF SetupFails, Wait, Close, Exit, MainPc
    <3>2. UNCHANGED <<flagVars, err, memberVars, serial, conn>>
      BY <2>2 DEF SetupFails, Wait, Close, Exit
    <3> QED BY <1>t, <3>1, <3>2 DEF Programs
  <2>3. CASE StartGroup
    BY <1>t, <2>3 DEF StartGroup, If, Programs, MainPc
  <2> QED BY <1>3, <2>1, <2>2, <2>3 DEF MainStep
<1>4. CASE UdpStep
  <2>1. main' \in MainPc /\ err' \in {"nil", "closed", "error"}
    BY <1>t, <1>4, EmitTyped, FailTyped DEF UdpStep, Programs
  <2>2. udp' \in {"off", "top", "read", "emit", "returned"}
    BY <1>4 DEF UdpStep
  <2> QED BY <1>t, <1>4, <2>1, <2>2 DEF UdpStep, Programs
<1>5. CASE SerialOther \/ SerialRead
  <2>1. UNCHANGED <<flagVars, processVars, memberVars, conn>>
    BY <1>5 DEF SerialOther, SerialRead
  <2>2. serial' \in {"off", "top", "open", "scan", "line", "close", "sleep", "returned"}
    BY <1>5 DEF SerialOther, SerialRead, SerialGoOn, SerialStop, SerialOpen, SerialSleep,
       SerialSkip, SerialLeave, SerialScan
  <2> QED BY <1>t, <2>1, <2>2 DEF Programs
<1>6. CASE SerialEmit
  BY <1>t, <1>6, EmitTyped DEF SerialEmit, Programs
<1>7. CASE SerialEnd
  <2>1. main' \in MainPc /\ err' \in {"nil", "closed", "error"}
    BY <1>t, <1>7, FailTyped DEF SerialEnd, Programs
  <2> QED BY <1>t, <1>7, <2>1 DEF SerialEnd, SerialClose, Programs
<1>8. CASE MqttStep
  <2>1. main' \in MainPc /\ err' \in {"nil", "closed", "error"}
    BY <1>t, <1>8, FailTyped DEF MqttStep, MqttConnect, MqttSubscribe, MqttDone, MqttClose,
       MqttUnsubscribe, Programs
  <2>2. /\ mqtt' \in {"off", "connect", "subscribe", "running", "returned"}
        /\ mqttCloser' \in {"off", "waiting", "unsubscribe", "returned"}
        /\ conn' \in {"none", "open", "lost", "closed"}
    BY <1>t, <1>8 DEF MqttStep, MqttConnect, MqttSubscribe, MqttDone, MqttClose,
       MqttUnsubscribe, Programs
  <2> QED BY <1>t, <1>8, <2>1, <2>2 DEF MqttStep, Programs
<1>9. CASE StatsStep
  <2>1. main' \in MainPc /\ err' = err
    BY <1>t, <1>9 DEF StatsStep, Panic, Programs, MainPc
  <2> QED BY <1>t, <1>9, <2>1 DEF StatsStep, Programs
<1>10. CASE HttpStep
  <2>1. main' \in MainPc /\ err' \in {"nil", "closed", "error"}
    BY <1>t, <1>10, FailTyped DEF HttpStep, Listen, Shutdown, Programs
  <2> QED BY <1>t, <1>10, <2>1 DEF HttpStep, Listen, Shutdown, Programs
<1>11. CASE ConnectionLost \/ Reconnect \/ MessageArrives
  <2>1. /\ conn' \in {"none", "open", "lost", "closed"}
        /\ UNCHANGED <<flagVars, processVars, memberVars, serial>>
    BY <1>t, <1>11 DEF ConnectionLost, Reconnect, MessageArrives, Programs
  <2> QED BY <1>t, <2>1 DEF Programs
<1>12. CASE MessageHandler
  BY <1>t, <1>12, EmitTyped DEF MessageHandler, Programs
<1>13. ASSUME NEW p \in Pages, Connect(p) \/ Disconnect(p) \/ HandlerStep(p) \/ Write(p)
       PROVE  Programs'
  <2>1. UNCHANGED <<flagVars, processVars, memberVars, serial, conn>>
    BY <1>13 DEF Connect, Disconnect, HandlerStep, Write
  <2> QED BY <1>t, <2>1 DEF Programs
<1>14. CASE UNCHANGED vars
  BY <1>t, <1>14 DEF vars, Programs
<1> QED BY <1>1, <1>2, <1>3, <1>4, <1>5, <1>6, <1>7, <1>8, <1>9, <1>10, <1>11, <1>12, <1>13,
           <1>14 DEF Next, MemberStep, SerialStep

LEMMA FlagsTyped == TypeOK /\ [Next]_vars => Flags'
<1> SUFFICES ASSUME TypeOK, [Next]_vars PROVE Flags'
  OBVIOUS
<1>t. Flags
  BY TypesInParts
<1> USE DEF processVars, mqttVars, emitterVars, serialVars
<1>1. CASE Start \/ Restart
  BY <1>1 DEF Start, Restart, Launch, Flags
<1>2. CASE Signal \/ NotifyExit \/ MainStep
  <2>1. CASE Signal \/ NotifyExit \/ ParseFlags \/ SetupFails
    BY <1>t, <2>1 DEF Signal, NotifyExit, ParseFlags, SetupFails, Flags
  <2>2. CASE StartGroup \/ Wait \/ Close \/ Exit
    BY <1>t, <2>2 DEF StartGroup, Wait, Close, CloseEmitter, Exit, Flags
  <2> QED BY <1>2, <2>1, <2>2 DEF MainStep
<1>3. CASE UdpStep
  BY <1>t, <1>3, EmitTyped, FailTyped DEF UdpStep, Flags
<1>4. CASE SerialStep \/ SerialRead
  BY <1>t, <1>4, EmitTyped, FailTyped DEF SerialStep, SerialOther, SerialEmit, SerialEnd, SerialRead,
     SerialGoOn, SerialStop, SerialOpen, SerialSleep, SerialSkip, SerialLeave, SerialScan,
     SerialClose, Flags
<1>5. CASE MqttStep
  BY <1>t, <1>5, FailTyped DEF MqttStep, MqttConnect, MqttSubscribe, MqttDone, MqttClose,
     MqttUnsubscribe, Flags
<1>6. CASE StatsStep
  BY <1>t, <1>6 DEF StatsStep, Panic, Flags
<1>7. CASE HttpStep
  BY <1>t, <1>7, FailTyped DEF HttpStep, Listen, Shutdown, Flags
<1>8. CASE ConnectionLost \/ Reconnect \/ MessageArrives
  BY <1>t, <1>8 DEF ConnectionLost, Reconnect, MessageArrives, Flags
<1>9. CASE MessageHandler
  BY <1>t, <1>9, EmitTyped DEF MessageHandler, Flags
<1>10. ASSUME NEW p \in Pages, Connect(p) \/ Disconnect(p) \/ HandlerStep(p) \/ Write(p)
       PROVE  Flags'
  BY <1>t, <1>10 DEF Connect, Disconnect, HandlerStep, Write, Flags
<1>11. CASE UNCHANGED vars
  BY <1>t, <1>11 DEF vars, Flags
<1> QED BY <1>1, <1>2, <1>3, <1>4, <1>5, <1>6, <1>7, <1>8, <1>9, <1>10, <1>11 DEF Next, MemberStep

LEMMA ChannelsTyped == TypeOK /\ [Next]_vars => Channels'
<1> SUFFICES ASSUME TypeOK, [Next]_vars PROVE Channels'
  OBVIOUS
<1>t. Channels
  BY TypesInParts
<1> USE DEF emitterVars, pageVars
<1>1. CASE Start \/ Restart
  BY <1>1 DEF Start, Restart, Launch, Channels, HandlerPc
<1>2. CASE UNCHANGED <<emitterVars, pageVars>>
  BY <1>t, <1>2 DEF Channels
<1>3. Signal \/ NotifyExit \/ ParseFlags \/ SetupFails \/ StartGroup \/ Wait \/ Exit
        => UNCHANGED <<emitterVars, pageVars>>
  BY DEF Signal, NotifyExit, ParseFlags, SetupFails, StartGroup, Wait, Exit
<1>4. CASE Close
  BY <1>t, <1>4 DEF Close, CloseEmitter, Channels
<1>5. CASE handler' \in [Pages -> HandlerPc] /\ UNCHANGED <<emitterVars, online>>
  BY <1>t, <1>5 DEF Channels
<1>6. CASE UdpStep
  BY <1>2, <1>5, <1>6, EmitTyped DEF UdpStep
<1>7. CASE SerialEmit \/ MessageHandler
  BY <1>5, <1>7, EmitTyped DEF SerialEmit, MessageHandler
<1>8. SerialOther \/ SerialEnd \/ SerialRead \/ MqttStep \/ HttpStep
        \/ ConnectionLost \/ Reconnect \/ MessageArrives \/ UNCHANGED vars
        => UNCHANGED <<emitterVars, pageVars>>
  BY DEF SerialOther, SerialEnd, SerialRead, MqttStep, HttpStep, ConnectionLost, Reconnect,
         MessageArrives, vars
<1>9. CASE StatsStep
  BY <1>t, <1>9 DEF StatsStep, Subscribing, Unsubscribing, Channels
<1>10. ASSUME NEW p \in Pages, Connect(p) \/ Disconnect(p) \/ HandlerStep(p) \/ Write(p)
       PROVE  Channels'
  <2>1. handler' \in [Pages -> HandlerPc] /\ online' \in [Pages -> BOOLEAN]
    BY <1>t, <1>10 DEF Connect, Disconnect, HandlerStep, Write, Become, Recovered, Channels, HandlerPc
  <2>2. \/ Subscribing(p) /\ UNCHANGED emitter
        \/ Unsubscribing(p) /\ UNCHANGED emitter
        \/ UNCHANGED emitterVars
    BY <1>10 DEF Connect, Disconnect, HandlerStep, Write, Recovered
  <2> QED BY <1>t, <2>1, <2>2 DEF Channels, Subscribing, Unsubscribing
<1> QED BY <1>1, <1>2, <1>3, <1>4, <1>6, <1>7, <1>8, <1>9, <1>10
           DEF Next, MainStep, MemberStep, SerialStep

LEMMA ServerTyped == TypeOK /\ [Next]_vars => TypeOK'
<1>1. TypeOK /\ [Next]_vars => Programs' /\ Flags' /\ Channels'
  BY ProgramsTyped, FlagsTyped, ChannelsTyped
<1>2. TypeOK' <=> Programs' /\ Flags' /\ Channels'
  BY TypesInParts, PTL
<1> QED BY <1>1, <1>2

(* The variables of the server keep their types.                           *)
THEOREM ServerTypeCorrect == Spec => []TypeOK
  BY ServerInitTyped, ServerTyped, PTL DEF Spec

-----------------------------------------------------------------------------
(* easy_server.                                                            *)

(* How far the update of a reading has come: the fields updated already    *)
(* have one reading more.                                                  *)
UpdateInv ==
  LET h == histogram
  IN  /\ update \in {"none", "temperature"} =>
           h["temperature"] = h["humidity"] /\ h["humidity"] = h["pressure"]
             /\ h["pressure"] = h["voltage"]
      /\ update = "humidity" =>
           h["temperature"] = h["humidity"] + 1 /\ h["humidity"] = h["pressure"]
             /\ h["pressure"] = h["voltage"]
      /\ update = "pressure" =>
           h["temperature"] = h["humidity"] /\ h["humidity"] = h["pressure"] + 1
             /\ h["pressure"] = h["voltage"]
      /\ update = "voltage" =>
           h["temperature"] = h["humidity"] /\ h["humidity"] = h["pressure"]
             /\ h["pressure"] = h["voltage"] + 1
      /\ update = "temperature" => h["temperature"] < MaxLines

(* What a push has written it has read some time ago, and later fields     *)
(* later.                                                                  *)
PushInv ==
  /\ \A f \in Easy!Fields : pushed[f] <= histogram[f]
  /\ push \in {"temperature", "voltage", "none"} => pushed["pressure"] + 1 >= pushed["humidity"]
  /\ push \in {"voltage", "none"} => pushed["temperature"] >= pushed["pressure"]
  /\ push = "none" => pushed["voltage"] + 1 >= pushed["temperature"]

EasyTypes ==
  /\ easySerial \in {"off", "top", "open", "scan", "line", "close", "sleep", "returned"}
  /\ easyMain \in {"setup", "process", "returned"}
  /\ histogram \in [Easy!Fields -> Nat]
  /\ update \in Easy!Fields \cup {"none"} /\ push \in Easy!Fields \cup {"none"}
  /\ pushed \in [Easy!Fields -> Nat]
  /\ \A f \in Easy!Fields : histogram[f] <= MaxLines

EasyFlags == easyPort \in BOOLEAN /\ easySignalled \in BOOLEAN

EasyInv == EasyTypes /\ EasyFlags /\ UpdateInv /\ PushInv

LEMMA EasyInitHolds == Easy!Init => EasyInv
<1> SUFFICES ASSUME Easy!Init PROVE EasyInv
  OBVIOUS
<1>1. EasyTypes /\ UpdateInv /\ PushInv
  BY MaxLinesAssumption DEF Easy!Init, Easy!SerialOff, Easy!NothingPushed, Easy!Fields, EasyTypes, UpdateInv, PushInv
<1>2. EasyFlags
  BY DEF Easy!Init, Easy!SerialOff, EasyFlags
<1> QED BY <1>1, <1>2 DEF EasyInv

(* The push and the serial loop are apart.                                 *)
LEMMA EasyKept == EasyInv /\ [Easy!Next]_easyVars => EasyInv'
<1> SUFFICES ASSUME EasyInv, [Easy!Next]_easyVars PROVE EasyInv'
  OBVIOUS
<1> USE MaxLinesAssumption DEF Easy!serialVars, Easy!Fields
<1>1. EasyFlags'
  BY DEF EasyInv, EasyFlags, easyVars, Easy!Next, Easy!Setup, Easy!Signal, Easy!SerialStep,
     Easy!SerialGoOn, Easy!SerialStop, Easy!SerialOpen, Easy!SerialSleep, Easy!SerialSkip,
     Easy!SerialLeave, Easy!SerialClose, Easy!SerialRead, Easy!SerialScan, Easy!Accept,
     Easy!Observe, Easy!Return, Easy!BeginPush, Easy!WriteHistogram
<1>2. CASE UNCHANGED <<histogram, update, push, pushed>>
           /\ easySerial' \in {"off", "top", "open", "scan", "line", "close", "sleep", "returned"}
           /\ easyMain' \in {"setup", "process", "returned"}
  BY <1>1, <1>2 DEF EasyInv, EasyTypes, UpdateInv, PushInv
<1>3. CASE Easy!Setup \/ Easy!Signal \/ Easy!SerialStep \/ Easy!SerialRead \/ Easy!Return
           \/ UNCHANGED easyVars
  <2>1. UNCHANGED <<histogram, update, push, pushed>>
    BY <1>3 DEF Easy!Setup, Easy!Signal, Easy!SerialStep, Easy!SerialRead, Easy!Return, easyVars
  <2>2. /\ easySerial' \in {"off", "top", "open", "scan", "line", "close", "sleep", "returned"}
        /\ easyMain' \in {"setup", "process", "returned"}
    BY <1>3 DEF EasyInv, EasyTypes, easyVars, Easy!Setup, Easy!Signal, Easy!SerialStep,
     Easy!SerialGoOn, Easy!SerialStop, Easy!SerialOpen, Easy!SerialSleep, Easy!SerialSkip,
     Easy!SerialLeave, Easy!SerialClose, Easy!SerialRead, Easy!SerialScan, Easy!Return
  <2> QED BY <1>2, <2>1, <2>2
<1>4. CASE Easy!Accept
  BY <1>1, <1>4 DEF Easy!Accept, EasyInv, EasyTypes, UpdateInv, PushInv
<1>5. ASSUME NEW f \in Easy!Fields, Easy!Observe(f) PROVE EasyInv'
  <2>1. /\ histogram' = [histogram EXCEPT ![f] = histogram[f] + 1]
        /\ update = f /\ update' = Easy!AfterUpdate(f) /\ UNCHANGED <<easyMain, push, pushed>>
        /\ easySerial' \in {"off", "top", "open", "scan", "line", "close", "sleep", "returned"}
    BY <1>5 DEF Easy!Observe, EasyInv, EasyTypes
  <2>2. histogram' \in [Easy!Fields -> Nat] /\ \A g \in Easy!Fields : histogram[g] <= histogram'[g]
    BY <2>1 DEF EasyInv, EasyTypes
  <2>3. UpdateInv' /\ \A g \in Easy!Fields : histogram'[g] <= MaxLines
    BY <2>1, <2>2 DEF EasyInv, EasyTypes, UpdateInv, Easy!AfterUpdate
  <2>4. EasyTypes'
    BY <2>1, <2>2, <2>3 DEF EasyInv, EasyTypes, Easy!AfterUpdate
  <2>5. PushInv'
    BY <2>1, <2>2 DEF EasyInv, EasyTypes, PushInv
  <2> QED BY <1>1, <2>3, <2>4, <2>5 DEF EasyInv
<1>6. CASE Easy!BeginPush
  BY <1>1, <1>6 DEF Easy!BeginPush, Easy!NothingPushed, EasyInv, EasyTypes, UpdateInv, PushInv
<1>7. ASSUME NEW f \in Easy!Fields, Easy!WriteHistogram(f) PROVE EasyInv'
  <2>1. /\ pushed' = [pushed EXCEPT ![f] = histogram[f]] /\ push = f
        /\ push' = Easy!AfterWrite(f) /\ UNCHANGED <<easySerial, easyMain, histogram, update>>
    BY <1>7 DEF Easy!WriteHistogram
  <2>2. EasyTypes' /\ UpdateInv'
    BY <2>1 DEF EasyInv, EasyTypes, UpdateInv, Easy!AfterWrite
  <2>3. /\ histogram["humidity"] <= histogram["pressure"] + 1
        /\ histogram["pressure"] <= histogram["temperature"]
        /\ histogram["temperature"] <= histogram["voltage"] + 1
    BY DEF EasyInv, EasyTypes, UpdateInv
  <2>4. PushInv'
    BY <2>1, <2>2, <2>3 DEF EasyInv, EasyTypes, PushInv, Easy!AfterWrite
  <2> QED BY <1>1, <2>2, <2>4 DEF EasyInv
<1> QED BY <1>3, <1>4, <1>5, <1>6, <1>7 DEF Easy!Next

LEMMA EasyTyped == EasyInv => Easy!TypeOK
<1> SUFFICES ASSUME EasyInv PROVE Easy!TypeOK
  OBVIOUS
<1>1. /\ histogram \in [Easy!Fields -> 0 .. MaxLines]
      /\ pushed \in [Easy!Fields -> 0 .. histogram["temperature"]]
  <2>1. \A f \in Easy!Fields : histogram[f] <= histogram["temperature"]
    BY DEF EasyInv, EasyTypes, UpdateInv, Easy!Fields
  <2> QED BY <2>1, MaxLinesAssumption DEF EasyInv, EasyTypes, PushInv, Easy!Fields
<1>2. /\ easyMain \in {"setup", "process", "returned"}
      /\ update \in Easy!Fields \cup {"none"} /\ push \in Easy!Fields \cup {"none"}
  BY DEF EasyInv, EasyTypes
<1> QED BY <1>1, <1>2 DEF EasyInv, EasyTypes, EasyFlags, Easy!TypeOK, Easy!SerialTypeOK

-----------------------------------------------------------------------------
(* The sketch.                                                             *)
(* SketchTypeOK in two parts, one without Boolean-valued variables.        *)
Switches ==
  /\ sensor \in BOOLEAN /\ wire \in BOOLEAN /\ radio \in BOOLEAN /\ led \in BOOLEAN
  /\ failed \in BOOLEAN /\ retried \in BOOLEAN /\ ledState \in BOOLEAN

Types ==
  /\ pc \in {"begin", "wifi", "read", "send", "flush", "blink", "wifiEnd", "bmeEnd",
             "sleep", "asleep"}
  /\ clock \in Nat /\ lastBlinkTime \in 0 .. clock /\ start \in 0 .. clock
  /\ packetCounter \in 0 .. PacketsCount /\ analogVolts \in Nat /\ voltage \in Nat
  /\ readings \subseteq Volts /\ stuck \subseteq {"wire", "radio"}
  /\ errorCode \in 0 .. 2 /\ blinkCount \in 0 .. errorCode /\ flashes \in Nat

(* What is switched on while setup() is at each place.                     *)
PowerInv ==
  /\ pc = "begin" => ~sensor /\ ~wire
  /\ pc \in {"begin", "wifi"} => ~radio
  /\ pc \in {"begin", "wifi", "bmeEnd", "sleep", "asleep"} => ~led
  /\ pc \in {"bmeEnd", "sleep", "asleep"} => (radio => "radio" \in stuck)
  /\ pc \in {"sleep", "asleep"} => ~sensor /\ (wire => "wire" \in stuck)
  /\ pc = "blink" /\ errorCode = BME280_Init_Failed =>
       ~sensor /\ (wire => "wire" \in stuck) /\ ~radio

(* Flashes so far: one for each blink that is over, and the one that shines*)
SeriesInv ==
  /\ pc = "blink" => errorCode > 0
  /\ blinkCount = 0 => ~ledState /\ flashes \in {0, errorCode}
  /\ blinkCount > 0 => flashes = errorCode - blinkCount + (IF ledState THEN 1 ELSE 0)

CounterInv ==
  /\ pc \in {"begin", "wifi"} => packetCounter = 0
  /\ pc \in {"read", "send"} => packetCounter < PacketsCount

SketchInv == Switches /\ Types /\ PowerInv /\ SeriesInv /\ CounterInv

LEMMA SketchInitHolds == SketchInit => SketchInv
<1> SUFFICES ASSUME SketchInit PROVE SketchInv
  OBVIOUS
<1>1. Switches /\ Types
  <2>1. Switches
    BY DEF SketchInit, Switches
  <2>2. Types
    BY SketchAssumption DEF SketchInit, Types
  <2> QED BY <2>1, <2>2
<1>2. PowerInv /\ SeriesInv /\ CounterInv
  BY SketchAssumption DEF SketchInit, PowerInv, SeriesInv, CounterInv, BME280_Init_Failed
<1> QED BY <1>1, <1>2 DEF SketchInv

LEMMA CriticalErrorInv ==
  ASSUME SketchInv, clock' \in Nat, UNCHANGED sampling,
         pc' = "blink", led' = FALSE, errorCode' \in {1, 2}, blinkCount' = 0,
         ledState' = FALSE, flashes' = 0, lastBlinkTime' = 0, start' \in 0 .. clock',
         sensor' \in BOOLEAN, wire' \in BOOLEAN, radio' \in BOOLEAN,
         stuck' \subseteq {"wire", "radio"},
         errorCode' = 1 => ~sensor' /\ (wire' => "wire" \in stuck') /\ ~radio'
  PROVE  SketchInv'
<1>0. Switches'
  BY DEF SketchInv, Switches, sampling
<1>1. Types'
  BY DEF SketchInv, Types, sampling
<1>2. PowerInv' /\ SeriesInv' /\ CounterInv'
  BY DEF PowerInv, SeriesInv, CounterInv, BME280_Init_Failed
<1> QED BY <1>0, <1>1, <1>2 DEF SketchInv

(* What is still on after a call that was to switch it off is stuck.       *)
LEMMA OffTold ==
  ASSUME NEW x \in {"wire", "radio"}, NEW on \in BOOLEAN, NEW on_,
         stuck \subseteq {"wire", "radio"}, Off(x, on, on_)
  PROVE  /\ on_ \in BOOLEAN /\ (on_ => x \in stuck')
         /\ stuck \subseteq stuck' /\ stuck' \subseteq {"wire", "radio"}
<1>1. CASE on_ = FALSE /\ UNCHANGED stuck
  BY <1>1
<1>2. CASE on_ = on /\ stuck' = IF on THEN stuck \cup {x} ELSE stuck
  <2>1. CASE on
    BY <1>2, <2>1
  <2>2. CASE ~on
    BY <1>2, <2>2
  <2> QED BY <2>1, <2>2
<1> QED BY <1>1, <1>2 DEF Off

LEMMA BeginInv == SketchInv /\ (BmeBegin \/ WiFiBegin) => SketchInv'
<1> SUFFICES ASSUME SketchInv, BmeBegin \/ WiFiBegin PROVE SketchInv'
  OBVIOUS
<1> USE SketchAssumption DEF BME280_Init_Failed, WiFi_Connection_Failed
<1>1. CASE BmeBegin
  <2>1. CASE pc' = "wifi" /\ sensor' = TRUE /\ wire' = TRUE /\ UNCHANGED <<stuck, led, blinking>>
    BY <1>1, <2>1 DEF BmeBegin, SketchInv, Switches, Types, PowerInv, SeriesInv, CounterInv, sampling, blinking
  <2>2. CASE /\ CriticalError(BME280_Init_Failed, clock) /\ sensor' = FALSE
             /\ \E begun \in BOOLEAN : Off("wire", begun, wire')
    <3>1. radio' = FALSE /\ clock' \in Nat /\ clock' = clock /\ UNCHANGED sampling
      BY <1>1 DEF BmeBegin, SketchInv, Switches, Types, PowerInv
    <3>2. /\ pc' = "blink" /\ led' = FALSE /\ errorCode' = 1 /\ blinkCount' = 0
          /\ ledState' = FALSE /\ flashes' = 0 /\ lastBlinkTime' = 0 /\ start' \in 0 .. clock'
      BY <2>2, <3>1 DEF CriticalError
    <3>3. wire' \in BOOLEAN /\ stuck' \subseteq {"wire", "radio"} /\ (wire' => "wire" \in stuck')
      <4>1. PICK begun \in BOOLEAN : Off("wire", begun, wire')
        BY <2>2
      <4>2. stuck \subseteq {"wire", "radio"}
        BY DEF SketchInv, Types
      <4> QED BY ONLY <4>1, <4>2, OffTold
    <3>4. ~sensor' /\ sensor' \in BOOLEAN /\ radio' \in BOOLEAN
      BY <2>2, <3>1
    <3> QED BY ONLY SketchInv, <3>1, <3>2, <3>3, <3>4, CriticalErrorInv
  <2> QED BY <1>1, <2>1, <2>2 DEF BmeBegin
<1>2. CASE WiFiBegin
  <2>1. clock \in Nat /\ clock + ConnectTimeout \in Nat
    BY DEF SketchInv, Switches, Types
  <2>2. /\ sensor' \in BOOLEAN /\ wire' \in BOOLEAN /\ UNCHANGED <<stuck, sampling>>
        /\ stuck' \subseteq {"wire", "radio"}
    BY <1>2 DEF WiFiBegin, SketchInv, Switches, Types
  <2>3. CASE CriticalError(WiFi_Connection_Failed, clock') /\ clock' \in Nat /\ radio' \in BOOLEAN
    <3>1. /\ pc' = "blink" /\ led' = FALSE /\ errorCode' = 2 /\ blinkCount' = 0
          /\ ledState' = FALSE /\ flashes' = 0 /\ lastBlinkTime' = 0 /\ start' \in 0 .. clock'
      BY <2>3 DEF CriticalError
    <3>2. clock' \in Nat /\ radio' \in BOOLEAN
      BY <2>3
    <3>3. sensor' \in BOOLEAN /\ wire' \in BOOLEAN
      BY <2>2
    <3>4. UNCHANGED sampling /\ stuck' \subseteq {"wire", "radio"}
      BY <2>2
    <3>5. errorCode' \in {1, 2} /\ errorCode' # 1
      BY <3>1
    <3> QED BY ONLY SketchInv, <3>1, <3>2, <3>3, <3>4, <3>5, CriticalErrorInv
  <2>4. CASE /\ radio' = TRUE /\ clock' \in {clock, clock + ConnectTimeout}
             /\ pc' = "read" /\ led' = TRUE /\ UNCHANGED blinking
    <3>1. Switches'
      BY <2>2, <2>4 DEF SketchInv, Switches, sampling, blinking
    <3>2. Types'
      BY <2>1, <2>2, <2>4 DEF SketchInv, Types, sampling, blinking
    <3>3. PowerInv' /\ SeriesInv' /\ CounterInv'
      BY <1>2, <2>2, <2>4 DEF WiFiBegin, SketchInv, PowerInv, SeriesInv, CounterInv, sampling, blinking
    <3> QED BY <3>1, <3>2, <3>3 DEF SketchInv
  <2> QED BY <1>2, <2>1, <2>3, <2>4 DEF WiFiBegin
<1> QED BY <1>1, <1>2

LEMMA SampleInv == SketchInv /\ (Read \/ Send \/ Flush) => SketchInv'
<1> SUFFICES ASSUME SketchInv, Read \/ Send \/ Flush PROVE SketchInv'
  OBVIOUS
<1> USE SketchAssumption DEF power, sampling, blinking
<1>1. CASE Read
  <2>1. CASE pc' = "flush" /\ UNCHANGED sampling
    BY <1>1, <2>1 DEF Read, SketchInv, Switches, Types, PowerInv, SeriesInv, CounterInv
  <2>2. CASE pc' = "send"
    <3>1. PICK v \in Volts :
            /\ analogVolts' = Min({analogVolts + v, MaxSum})
            /\ voltage' = analogVolts' \div (packetCounter + 1)
            /\ readings' = readings \cup {v}
            /\ UNCHANGED <<packetCounter, failed, retried>>
      BY <1>1, <2>2 DEF Read
    <3>2. v \in Nat /\ analogVolts + v \in Nat /\ packetCounter \in Nat
      BY DEF SketchInv, Switches, Types
    <3>3. analogVolts' \in Nat
      BY <3>1, <3>2, CappedIs
    <3>4. voltage' \in Nat
      BY <3>1, <3>2, <3>3
    <3>5. readings' \subseteq Volts
      BY <3>1 DEF SketchInv, Switches, Types
    <3>6. UNCHANGED <<clock, led, power, blinking>> /\ pc = "read"
      BY <1>1 DEF Read
    <3>7. Switches'
      BY <3>1, <3>6 DEF SketchInv, Switches
    <3>8. Types'
      BY <2>2, <3>1, <3>3, <3>4, <3>5, <3>6 DEF SketchInv, Types
    <3> QED BY <2>2, <3>1, <3>6, <3>7, <3>8 DEF SketchInv, PowerInv, SeriesInv, CounterInv
  <2> QED BY <1>1, <2>1, <2>2 DEF Read
<1>2. CASE Send
  <2>1. Switches'
    BY <1>2 DEF Send, SketchInv, Switches
  <2>2. Types' /\ CounterInv'
    <3>1. packetCounter \in 0 .. PacketsCount - 1 /\ PacketsCount \in Nat
      BY <1>2 DEF Send, SketchInv, Types, CounterInv
    <3>2. packetCounter' \in {packetCounter, packetCounter + 1}
      BY <1>2 DEF Send
    <3>3. packetCounter' \in 0 .. PacketsCount
      BY <3>1, <3>2
    <3>4. pc' \in {"flush", "read"} /\ (pc' = "read" => packetCounter' # PacketsCount)
      BY <1>2 DEF Send
    <3> QED BY <1>2, <3>3, <3>4 DEF Send, SketchInv, Types, CounterInv
  <2>3. PowerInv' /\ SeriesInv'
    BY <1>2 DEF Send, SketchInv, PowerInv, SeriesInv
  <2> QED BY <2>1, <2>2, <2>3 DEF SketchInv
<1>3. CASE Flush
  BY <1>3 DEF Flush, SketchInv, Switches, Types, PowerInv, SeriesInv, CounterInv
<1> QED BY <1>1, <1>2, <1>3

LEMMA BlinkInv == SketchInv /\ (Blink \/ BlinkEnd) => SketchInv'
<1> SUFFICES ASSUME SketchInv, Blink \/ BlinkEnd PROVE SketchInv'
  OBVIOUS
<1> USE SketchAssumption DEF BME280_Init_Failed, sampling, power, blinking
<1>1. CASE Blink
  <2>1. CASE NewSeries
    <3>1. Switches'
      BY <1>1, <2>1 DEF Blink, NewSeries, SketchInv, Switches
    <3>2. Types'
      BY <1>1, <2>1 DEF Blink, NewSeries, SketchInv, Types, SeriesInv
    <3>3. PowerInv' /\ SeriesInv' /\ CounterInv'
      BY <1>1, <2>1 DEF Blink, NewSeries, SketchInv, Types, PowerInv, SeriesInv, CounterInv
    <3> QED BY <3>1, <3>2, <3>3 DEF SketchInv
  <2>2. CASE Toggle
    <3>1. Switches'
      BY <1>1, <2>2 DEF Blink, Toggle, SketchInv, Switches
    <3>2. Types'
      BY <1>1, <2>2 DEF Blink, Toggle, SketchInv, Types, SeriesInv
    <3>3. PowerInv' /\ SeriesInv' /\ CounterInv'
      <4>1. PowerInv' /\ CounterInv'
        BY <1>1 DEF Blink, SketchInv, PowerInv, CounterInv
      <4>2. blinkCount > 0 /\ errorCode \in 1 .. 2 /\ blinkCount \in 1 .. errorCode
        BY <1>1, <2>2 DEF Toggle, Blink, SketchInv, Types, SeriesInv
      <4>3. CASE ledState
        <5>1. ~ledState' /\ blinkCount' = blinkCount - 1 /\ flashes' = flashes
              /\ errorCode' = errorCode /\ flashes = errorCode - blinkCount + 1
          BY <1>1, <2>2, <4>2, <4>3 DEF Blink, Toggle, SketchInv, SeriesInv
        <5> QED BY <4>1, <4>2, <5>1 DEF SeriesInv
      <4>4. CASE ~ledState
        <5>1. ledState'
          BY <2>2, <4>4, Zenon DEF Toggle
        <5>2. blinkCount' = blinkCount /\ flashes' = flashes + 1
          BY <2>2, <5>1 DEF Toggle
        <5>3. errorCode' = errorCode
          BY <1>1 DEF Blink
        <5>4. flashes = errorCode - blinkCount
          BY <4>2, <4>4 DEF SketchInv, Types, SeriesInv
        <5> QED BY <1>1, <4>1, <4>2, <5>1, <5>2, <5>3, <5>4 DEF SeriesInv
      <4> QED BY <4>3, <4>4
    <3> QED BY <3>1, <3>2, <3>3 DEF SketchInv
  <2>3. CASE Rest
    <3>1. Switches'
      BY <1>1, <2>3 DEF Blink, Rest, SketchInv, Switches
    <3>2. Types'
      BY <1>1, <2>3 DEF Blink, Rest, SketchInv, Types, SeriesInv
    <3>3. PowerInv' /\ SeriesInv' /\ CounterInv'
      <4>1. pc = "blink" /\ UNCHANGED <<pc, errorCode, blinkCount, ledState, flashes>>
        BY <1>1, <2>3 DEF Blink, Rest
      <4>2. UNCHANGED <<sensor, wire, radio, stuck, packetCounter>>
        BY <1>1 DEF Blink
      <4>3. PowerInv'
        BY ONLY SketchInv, <4>1, <4>2 DEF SketchInv, PowerInv
      <4>4. SeriesInv'
        BY ONLY SketchInv, <4>1, Zenon DEF SketchInv, SeriesInv
      <4>5. CounterInv'
        BY ONLY <4>1 DEF CounterInv
      <4> QED BY <4>3, <4>4, <4>5
    <3> QED BY <3>1, <3>2, <3>3 DEF SketchInv
  <2> QED BY <1>1, <2>1, <2>2, <2>3 DEF Blink
<1>2. CASE BlinkEnd
  BY <1>2 DEF BlinkEnd, SketchInv, Switches, Types, PowerInv, SeriesInv, CounterInv
<1> QED BY <1>1, <1>2

LEMMA EndInv == SketchInv /\ (WiFiEnd \/ BmeEnd \/ DeepSleep) => SketchInv'
<1> SUFFICES ASSUME SketchInv, WiFiEnd \/ BmeEnd \/ DeepSleep PROVE SketchInv'
  OBVIOUS
<1> USE DEF sampling, power, blinking, SketchInv, Switches, Types, PowerInv, SeriesInv, CounterInv
<1>1. CASE WiFiEnd
  <2>1. Off("radio", radio, radio') /\ radio \in BOOLEAN /\ stuck \subseteq {"wire", "radio"}
    BY <1>1 DEF WiFiEnd
  <2>2. /\ radio' \in BOOLEAN /\ (radio' => "radio" \in stuck')
        /\ stuck' \subseteq {"wire", "radio"}
    BY ONLY <2>1, OffTold
  <2> QED BY <1>1, <2>2 DEF WiFiEnd
<1>2. CASE BmeEnd
  <2>1. Off("wire", wire, wire') /\ wire \in BOOLEAN /\ stuck \subseteq {"wire", "radio"}
    BY <1>2 DEF BmeEnd
  <2>2. /\ wire' \in BOOLEAN /\ (wire' => "wire" \in stuck')
        /\ stuck \subseteq stuck' /\ stuck' \subseteq {"wire", "radio"}
    BY ONLY <2>1, OffTold
  <2> QED BY <1>2, <2>2 DEF BmeEnd
<1>3. CASE DeepSleep
  BY <1>3 DEF DeepSleep
<1> QED BY <1>1, <1>2, <1>3

LEMMA SketchNextKept == SketchInv /\ [SketchNext]_sketchVars => SketchInv'
<1> SUFFICES ASSUME SketchInv, [SketchNext]_sketchVars PROVE SketchInv'
  OBVIOUS
<1>1. CASE UNCHANGED sketchVars
  BY <1>1 DEF sketchVars, power, sampling, blinking, SketchInv, Switches, Types, PowerInv, SeriesInv, CounterInv
<1> QED BY <1>1, BeginInv, SampleInv, BlinkInv, EndInv DEF SketchNext

(* What is proved of the sketch rests on it.                               *)
THEOREM SketchInvariant == SketchSpec => []SketchInv
  BY SketchInitHolds, SketchNextKept, PTL DEF SketchSpec

-----------------------------------------------------------------------------
LEMMA SketchTyped == SketchInv => SketchTypeOK
BY DEF SketchInv, Switches, Types, SketchTypeOK

(* The variables of the sketch keep their types.                           *)
THEOREM SketchTypeCorrect == SketchSpec => []SketchTypeOK
  BY SketchTyped, SketchInvariant, PTL

(* Whatever fails and whenever, in deep sleep the sensor and the LED are   *)
(* off, and the bus and the radio are, but for one whose own switching off *)
(* failed, which the code does not look at (sketch_bme280.ino:69-124).     *)
THEOREM NothingOnInSleep == SketchSpec => []AllOffInSleep
<1>1. SketchInv => AllOffInSleep
  BY DEF SketchInv, PowerInv, AllOffInSleep
<1> QED BY <1>1, SketchInvariant, PTL

(* Whatever the times of a blink are, a complete series has as many flashes*)
(* as the number of the error.                                             *)
THEOREM ErrorIsTold == SketchSpec => []SeriesTellsError
<1>1. SketchInv => SeriesTellsError
  BY DEF SketchInv, SeriesInv, SeriesTellsError
<1> QED BY <1>1, SketchInvariant, PTL
-----------------------------------------------------------------------------
(* The sum is at least what k readings come to, the first k or any others, *)
(* and at most that if no reading was repeated.                            *)
SumBetween(k, low, high) ==
  /\ \A r \in readings : low <= r /\ r <= high
  /\ analogVolts >= k * low
  /\ ~retried => analogVolts <= k * high

SumInv ==
  /\ pc \in {"begin", "wifi"} => readings = {} /\ analogVolts = 0
  /\ pc = "read" =>
       \/ readings = {} /\ analogVolts = 0 /\ packetCounter = 0
       \/ \E low, high \in readings : SumBetween(packetCounter, low, high)
  /\ pc = "send" =>
       \E low, high \in readings :
         /\ SumBetween(packetCounter + 1, low, high)
         /\ voltage = analogVolts \div (packetCounter + 1)

(* One more reading: a new smallest or largest one, or neither.            *)
LEMMA ReadSum ==
  ASSUME SketchInv, SumInv, Read, pc' = "send"
  PROVE  SumInv'
<1>1. PICK v \in Volts :
        /\ analogVolts' = Min({analogVolts + v, MaxSum})
        /\ voltage' = analogVolts' \div (packetCounter + 1)
        /\ readings' = readings \cup {v}
        /\ UNCHANGED <<packetCounter, failed, retried>>
  BY DEF Read, sampling
<1> DEFINE n == packetCounter
<1>n. /\ pc = "read" /\ n \in Nat /\ n + 1 <= PacketsCount /\ PacketsCount \in Nat
      /\ v \in Nat /\ analogVolts \in Nat /\ MaxSum \in Nat /\ readings \subseteq Nat
  BY SketchAssumption DEF Read, SketchInv, Types, CounterInv
<1> HIDE DEF n
<1>2. /\ analogVolts' <= analogVolts + v /\ analogVolts' \in Nat
      /\ analogVolts' = analogVolts + v \/ analogVolts' = MaxSum
  <2>1. analogVolts + v \in Nat
    BY <1>n
  <2> QED BY <1>1, <1>n, <2>1, CappedIs
<1>3. ASSUME NEW low \in readings', NEW high \in readings',
             \A r \in readings' : low <= r /\ r <= high,
             analogVolts + v >= (n + 1) * low,
             ~retried => analogVolts + v <= (n + 1) * high
      PROVE  SumInv'
  <2>1. low \in Volts /\ low \in Nat /\ high \in Nat
    BY <1>1, <1>n, SketchAssumption DEF SketchInv, Types
  <2>2. MaxSum >= (n + 1) * low
    <3>1. (n + 1) * low <= PacketsCount * low
      BY <1>n, <2>1, MulMono
    <3>2. PacketsCount * low <= MaxSum
      BY <2>1, SketchAssumption
    <3>3. (n + 1) * low \in Nat /\ PacketsCount * low \in Nat
      BY <1>n, <2>1
    <3> QED BY <1>n, <3>1, <3>2, <3>3
  <2>3. analogVolts' >= (n + 1) * low
    BY <1>2, <1>3, <2>2
  <2>4. ~retried => analogVolts' <= (n + 1) * high
    <3>1. (n + 1) * high \in Nat /\ analogVolts + v \in Nat
      BY <1>n, <2>1
    <3> QED BY <1>2, <1>3, <3>1
  <2>5. SumBetween(packetCounter + 1, low, high)'
    BY <1>1, <1>3, <2>3, <2>4 DEF SumBetween, n
  <2> QED BY <1>1, <2>5 DEF SumInv
<1>4. CASE readings = {} /\ analogVolts = 0 /\ packetCounter = 0
  <2>1. readings' = {v} /\ n + 1 = 1 /\ (n + 1) * v = v /\ v <= v
    BY <1>1, <1>4, <1>n DEF n
  <2> QED BY <1>3, <1>4, <1>n, <2>1
<1>5. CASE \E low, high \in readings : SumBetween(packetCounter, low, high)
  <2>1. PICK low \in readings, high \in readings : SumBetween(n, low, high)
    BY <1>5 DEF n
  <2>2. low \in Nat /\ high \in Nat
    BY <1>n
  <2>3. PICK small \in {low, v} : small <= low /\ small <= v
    BY <1>n, <2>2
  <2>4. PICK large \in {high, v} : large >= high /\ large >= v
    BY <1>n, <2>2
  <2>5. small \in Nat /\ large \in Nat /\ small \in readings' /\ large \in readings'
    BY <1>1, <1>n, <2>2
  <2>6. \A r \in readings' : small <= r /\ r <= large
    BY <1>1, <1>n, <2>1, <2>2, <2>3, <2>4, <2>5 DEF SumBetween
  <2>7. analogVolts + v >= (n + 1) * small
    <3>1. n * small <= n * low
      BY <1>n, <2>2, <2>3, <2>5, MulMono
    <3>2. (n + 1) * small = n * small + small
      BY <1>n, <2>5
    <3>3. n * low \in Nat /\ n * small \in Nat /\ analogVolts >= n * low
      BY <1>n, <2>1, <2>2, <2>5 DEF SumBetween
    <3> QED BY <1>n, <2>3, <2>5, <3>1, <3>2, <3>3
  <2>8. ~retried => analogVolts + v <= (n + 1) * large
    <3> SUFFICES ASSUME ~retried PROVE analogVolts + v <= (n + 1) * large
      OBVIOUS
    <3>1. n * high <= n * large
      BY <1>n, <2>2, <2>4, <2>5, MulMono
    <3>2. (n + 1) * large = n * large + large
      BY <1>n, <2>5
    <3>3. n * high \in Nat /\ n * large \in Nat /\ analogVolts <= n * high
      BY <1>n, <2>1, <2>2, <2>5 DEF SumBetween
    <3> QED BY <1>n, <2>4, <2>5, <3>1, <3>2, <3>3
  <2> QED BY <1>3, <2>5, <2>6, <2>7, <2>8
<1> QED BY <1>4, <1>5, <1>n DEF SumInv

(* A sent packet counts the reading, a failed one leaves it in the sum.    *)
LEMMA SendSum ==
  ASSUME SketchInv, SumInv, Send
  PROVE  SumInv'
<1>1. /\ pc = "send" /\ pc' \in {"read", "flush"} /\ UNCHANGED <<analogVolts, readings>>
      /\ packetCounter \in Nat /\ analogVolts \in Nat /\ readings \subseteq Nat
  BY SketchAssumption DEF Send, SketchInv, Types
<1>2. PICK low \in readings, high \in readings : SumBetween(packetCounter + 1, low, high)
  BY <1>1 DEF SumInv
<1>3. CASE failed'
  <2>1. packetCounter' = packetCounter
    BY <1>3 DEF Send
  <2>2. retried'
    BY <1>3, Zenon DEF Send
  <2>3. (packetCounter + 1) * low >= packetCounter * low
    BY <1>1, MulMono
  <2>4. analogVolts >= packetCounter * low
    <3>1. packetCounter * low \in Nat /\ (packetCounter + 1) * low \in Nat
      BY <1>1
    <3> QED BY <1>1, <1>2, <2>3, <3>1 DEF SumBetween
  <2>5. SumBetween(packetCounter, low, high)'
    BY <1>1, <1>2, <2>1, <2>2, <2>4 DEF SumBetween
  <2> QED BY <1>1, <2>5 DEF SumInv
<1>4. CASE ~failed'
  <2>1. packetCounter' = packetCounter + 1
    BY <1>4 DEF Send
  <2>2. retried' => retried
    BY <1>4, Zenon DEF Send
  <2>3. retried => retried'
    BY Zenon DEF Send
  <2>4. SumBetween(packetCounter, low, high)'
    BY <1>1, <1>2, <2>1, <2>2, <2>3 DEF SumBetween
  <2> QED BY <1>1, <2>4 DEF SumInv
<1> QED BY <1>3, <1>4

LEMMA SumStep == SketchInv /\ SumInv /\ [SketchNext]_sketchVars => SumInv'
<1> SUFFICES ASSUME SketchInv, SumInv, [SketchNext]_sketchVars PROVE SumInv'
  OBVIOUS
<1>1. CASE Read
  <2>1. CASE pc' = "flush"
    BY <2>1 DEF SumInv
  <2> QED BY <1>1, <2>1, ReadSum DEF Read
<1>2. CASE Send
  BY <1>2, SendSum
<1>3. CASE BmeBegin \/ WiFiBegin
  <2>1. readings = {} /\ analogVolts = 0 /\ packetCounter = 0
        /\ UNCHANGED <<readings, analogVolts, packetCounter>> /\ pc' # "send"
    BY <1>3 DEF BmeBegin, WiFiBegin, CriticalError, sampling, SketchInv, CounterInv, SumInv
  <2> QED BY <2>1 DEF SumInv
<1>4. CASE Flush \/ Blink \/ BlinkEnd \/ WiFiEnd \/ BmeEnd \/ DeepSleep
  <2>1. pc' \in {"wifiEnd", "blink", "sleep", "bmeEnd", "asleep"}
    BY <1>4 DEF Flush, Blink, BlinkEnd, WiFiEnd, BmeEnd, DeepSleep
  <2> QED BY <2>1 DEF SumInv
<1>5. CASE UNCHANGED sketchVars
  BY <1>5 DEF sketchVars, sampling, SumInv, SumBetween
<1> QED BY <1>1, <1>2, <1>3, <1>4, <1>5 DEF SketchNext

(* For any readings and any number of packets: the mean of a packet is not *)
(* below the lowest reading, and not above the highest one as long as no   *)
(* send has failed (sketch_bme280.ino:43-60).                              *)
THEOREM VoltageIsMean == SketchSpec => []VoltageInRange
<1>1. SketchInit => SumInv
  BY DEF SketchInit, SumInv
<1>2. SketchInv /\ SumInv => VoltageInRange
  <2> SUFFICES ASSUME SketchInv, SumInv, pc = "send"
               PROVE  voltage >= Min(readings) /\ (~retried => voltage <= Max(readings))
    BY DEF VoltageInRange
  <2>1. PICK low \in readings, high \in readings :
          /\ SumBetween(packetCounter + 1, low, high)
          /\ voltage = analogVolts \div (packetCounter + 1)
    BY DEF SumInv
  <2>2. /\ readings \in SUBSET Nat /\ low \in Nat /\ high \in Nat /\ analogVolts \in Nat
        /\ packetCounter + 1 \in Nat /\ packetCounter + 1 > 0
    BY SketchAssumption DEF SketchInv, Types
  <2>3. Min(readings) = low /\ Max(readings) = high
    BY <2>1, <2>2, MinMaxAre DEF SumBetween
  <2>4. voltage >= low
    BY <2>1, <2>2, DivLow DEF SumBetween
  <2>5. ~retried => voltage <= high
    BY <2>1, <2>2, DivHigh DEF SumBetween
  <2> QED BY <2>3, <2>4, <2>5
<1> QED BY <1>1, <1>2, SumStep, SketchInvariant, PTL DEF SketchSpec

-----------------------------------------------------------------------------
(* The three together.  A step of one of them is a step of that one, which *)
(* the others do not see.                                                  *)
LEMMA StepsApart ==
  [MCNext]_<<program, vars, easyVars, sketchVars>>
    => [Next]_vars /\ [Easy!Next]_easyVars /\ [SketchNext]_sketchVars
BY DEF MCNext, RunServer, RunEasyServer, RunSketch

(* Whichever program is chosen, the invariants of all three hold.          *)
THEOREM ProgramsInvariant == MCSpec => [](TypeOK /\ EasyInv /\ SketchInv)
<1> DEFINE All == TypeOK /\ EasyInv /\ SketchInv
<1>1. MCInit => All
  BY ServerInitTyped, EasyInitHolds, SketchInitHolds DEF MCInit
<1>2. All /\ [MCNext]_<<program, vars, easyVars, sketchVars>> => All'
  BY StepsApart, ServerTyped, EasyKept, SketchNextKept
<1> QED BY <1>1, <1>2, PTL DEF MCSpec

(* The variables of all three programs keep their types.                   *)
THEOREM TypesCorrect == MCSpec => []TypesOK
<1>1. TypeOK /\ EasyInv /\ SketchInv => TypesOK
  BY EasyTyped, SketchTyped DEF TypesOK
<1> QED BY <1>1, ProgramsInvariant, PTL

(* For any number of lines, wherever a push and a reading meet: what       *)
(* easy_server pushes is at most one reading out of step                   *)
(* (easy_server/main.go:84-89, 184-186).                                   *)
THEOREM PushInStep == MCSpec => []PushNearlyComplete
<1>1. EasyInv => PushNearlyComplete
  BY DEF EasyInv, PushInv, PushNearlyComplete, Easy!PushNearlyComplete
<1> QED BY <1>1, ProgramsInvariant, PTL
=============================================================================
