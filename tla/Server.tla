------------------------------- MODULE Server -------------------------------
(***************************************************************************)
(* The life of the server process: systemd and the signal, main's error    *)
(* group, its members (UDP, serial, MQTT, statistics, HTTP, shutdown), the *)
(* page handlers that are still there when it ends, and emitter.Close.     *)
(*                                                                         *)
(* What flows through the emitter is the subject of Hub; here a packet is  *)
(* an Emit, which is one step since it holds e.mu from end to end.  There  *)
(* are two contexts: the one of the signal, which every page request has   *)
(* (http.go:46), and the one of the group, which the first error cancels.  *)
(***************************************************************************)
EXTENDS SerialReader, FiniteSets

CONSTANTS
  FlagSets,  \* which of "udp", "serial" and "mqtt" the flags may switch on
  Pages      \* pages that connect to /subscribe

ASSUME ServerAssumption ==
  /\ FlagSets \subseteq SUBSET {"udp", "serial", "mqtt"}
  /\ "stats" \notin Pages

VARIABLES
  unit,         \* systemd's view: "inactive", "active" or "restarting"
  enabled,      \* the sources that are switched on
  main,         \* program counter of main
  signalled,    \* the context of signal.NotifyContext is done
  cancelled,    \* the group has cancelled its own context
  err,          \* the first error of the group: "nil", "closed" or "error"
  logged,       \* history: main has reported an error
  udp, mqtt, mqttCloser, stats, http, shutdown,  \* members of the group
  conn,         \* the MQTT client's connection
  topic,        \* the broker has a subscription of this connection
  message,      \* a message handler of the MQTT client is about to emit
  subscribers,  \* e.subscribers
  closed,       \* channels that have been closed
  emitter,      \* e.subscribers is not nil
  handler,      \* page -> program counter of its handler
  online        \* page -> its connection is up

flagVars == <<unit, enabled>>
processVars == <<main, signalled, cancelled, err, logged>>
memberVars == <<udp, mqtt, mqttCloser, stats, http, shutdown>>
mqttVars == <<conn, topic, message>>
emitterVars == <<subscribers, closed, emitter>>
pageVars == <<handler, online>>
vars == <<flagVars, processVars, memberVars, serialVars, mqttVars, emitterVars, pageVars>>

MainPc == {"none", "flags", "setup", "wait", "closing", "leaving", "exit",
           "usage", "panic"}
HandlerPc == {"none", "subscribe", "write", "wait", "unsubscribe"}

TypeOK ==
  /\ SerialTypeOK
  /\ unit \in {"inactive", "active", "restarting"}
  /\ enabled \subseteq {"udp", "serial", "mqtt"} /\ main \in MainPc
  /\ {signalled, cancelled, logged, topic, message, emitter} \subseteq BOOLEAN
  /\ err \in {"nil", "closed", "error"}
  /\ udp \in {"off", "top", "read", "emit", "returned"}
  /\ mqtt \in {"off", "connect", "subscribe", "running", "returned"}
  /\ mqttCloser \in {"off", "waiting", "unsubscribe", "returned"}
  /\ stats \in {"off", "subscribe", "loop", "unsubscribe", "returned"}
  /\ http \in {"off", "serving", "returned"}
  /\ shutdown \in {"off", "waiting", "draining", "returned"}
  /\ conn \in {"none", "open", "lost", "closed"}
  /\ subscribers \subseteq (IF emitter THEN Pages \cup {"stats"} ELSE {})
  /\ closed \subseteq Pages \cup {"stats"}
  /\ handler \in [Pages -> HandlerPc]
  /\ online \in [Pages -> BOOLEAN]

(* The group's context derives from the signal's.                          *)
Done == signalled \/ cancelled

Init ==
  /\ unit = "inactive" /\ enabled = {} /\ main = "none"
  /\ signalled = FALSE /\ cancelled = FALSE /\ err = "nil" /\ logged = FALSE
  /\ udp = "off" /\ mqtt = "off" /\ mqttCloser = "off" /\ stats = "off"
  /\ http = "off" /\ shutdown = "off" /\ SerialOff
  /\ conn = "none" /\ topic = FALSE /\ message = FALSE
  /\ subscribers = {} /\ closed = {} /\ emitter = TRUE
  /\ handler = [p \in Pages |-> "none"] /\ online = [p \in Pages |-> FALSE]

-----------------------------------------------------------------------------
(* systemd: Type=simple, Restart=on-failure.  A process that has ended is  *)
(* gone with everything it had.                                            *)
Launch ==
  /\ unit' = "active" /\ enabled' = {} /\ main' = "flags"
  /\ signalled' = FALSE /\ cancelled' = FALSE /\ err' = "nil" /\ logged' = FALSE
  /\ udp' = "off" /\ mqtt' = "off" /\ mqttCloser' = "off" /\ stats' = "off"
  /\ http' = "off" /\ shutdown' = "off" /\ serial' = "off" /\ port' = FALSE
  /\ conn' = "none" /\ topic' = FALSE /\ message' = FALSE
  /\ subscribers' = {} /\ closed' = {} /\ emitter' = TRUE
  /\ handler' = [p \in Pages |-> "none"] /\ online' = [p \in Pages |-> FALSE]

Start == unit = "inactive" /\ Launch
Restart == unit = "restarting" /\ Launch

(* systemctl stop, or Ctrl-C.                                              *)
Signal ==
  /\ main \in {"setup", "wait"} /\ ~signalled
  /\ signalled' = TRUE
  /\ UNCHANGED <<flagVars, main, cancelled, err, logged, memberVars, serialVars,
                 mqttVars, emitterVars, pageVars>>

(* flag.Parse prints the usage and exits with code 2 at a flag that        *)
(* config.FromFlags does not define.                                       *)
ParseFlags ==
  /\ main = "flags"
  /\ \/ main' = "setup" /\ enabled' \in FlagSets
     \/ main' = "usage" /\ UNCHANGED enabled
  /\ UNCHANGED <<unit, signalled, cancelled, err, logged, memberVars, serialVars,
                 mqttVars, emitterVars, pageVars>>

(* What systemd does when the process ends: main returns with exit code 0, *)
(* whether or not it has logged an error.                                  *)
NotifyExit ==
  /\ unit = "active" /\ main \in {"exit", "usage", "panic"}
  /\ unit' = IF main = "exit" THEN "inactive" ELSE "restarting"
  /\ UNCHANGED <<enabled, processVars, memberVars, serialVars, mqttVars, emitterVars, pageVars>>

-----------------------------------------------------------------------------
(* main.  The UDP socket may be taken.                                     *)
SetupFails ==
  /\ main = "setup" /\ "udp" \in enabled
  /\ main' = "exit" /\ logged' = TRUE
  /\ UNCHANGED <<flagVars, signalled, cancelled, err, memberVars, serialVars,
                 mqttVars, emitterVars, pageVars>>

If(s, pc) == IF s \in enabled THEN pc ELSE "off"

StartGroup ==
  /\ main = "setup"
  /\ main' = "wait"
  /\ udp' = If("udp", "top")
  /\ serial' = If("serial", "top") /\ port' = FALSE
  /\ mqtt' = If("mqtt", "connect") /\ mqttCloser' = If("mqtt", "waiting")
  /\ stats' = "subscribe" /\ http' = "serving" /\ shutdown' = "waiting"
  /\ UNCHANGED <<flagVars, signalled, cancelled, err, logged, mqttVars, emitterVars, pageVars>>

(* errgroup: a member that returns an error; only the first one counts.    *)
Fail_Last(e) ==
  /\ err' = e
  /\ cancelled' = TRUE
  /\ UNCHANGED <<main, signalled, logged>>
Fail(e) ==
  /\ err' = IF err = "nil" THEN e ELSE err
  /\ cancelled' = TRUE
  /\ UNCHANGED <<main, signalled, logged>>

Returned(pc) == pc \in {"off", "returned"}

GroupReturned ==
  \A pc \in {udp, serial, mqtt, mqttCloser, stats, http, shutdown} : Returned(pc)

Wait ==
  /\ main = "wait" /\ GroupReturned
  /\ main' = "closing"
  /\ logged' = (err \notin {"nil", "closed"})
  /\ UNCHANGED <<flagVars, signalled, cancelled, err, memberVars, serialVars,
                 mqttVars, emitterVars, pageVars>>

(* The deferred emitter.Close(), and the end of the process.               *)
CloseEmitter_KeepsThem ==
  /\ closed' = closed \cup subscribers
  /\ UNCHANGED <<subscribers, emitter>>
CloseEmitter_NotEmptied ==
  /\ closed' = closed \cup subscribers
  /\ UNCHANGED subscribers /\ emitter' = FALSE
CloseEmitter ==
  /\ closed' = closed \cup subscribers
  /\ subscribers' = {} /\ emitter' = FALSE

Close ==
  /\ main = "closing" /\ main' = "leaving"
  /\ CloseEmitter
  /\ UNCHANGED <<flagVars, signalled, cancelled, err, logged, memberVars, serialVars,
                 mqttVars, pageVars>>

Exit ==
  /\ main = "leaving" /\ main' = "exit"
  /\ UNCHANGED <<flagVars, signalled, cancelled, err, logged, memberVars, serialVars,
                 mqttVars, emitterVars, pageVars>>

MainStep == ParseFlags \/ SetupFails \/ StartGroup \/ Wait \/ Close \/ Exit

-----------------------------------------------------------------------------
(* A goroutine runs as long as the process is there.                       *)
Alive == main \in {"wait", "closing", "leaving"}

Panic ==
  /\ main' = "panic"
  /\ UNCHANGED <<signalled, cancelled, err, logged>>

(* Emit: a send on a closed channel panics, and who waits in its select    *)
(* gets the packet.                                                        *)
Emit ==
  IF subscribers \cap closed # {}
    THEN Panic /\ UNCHANGED handler
    ELSE /\ UNCHANGED processVars
         /\ handler' = [p \in Pages |->
              IF p \in subscribers /\ handler[p] = "wait" THEN "write" ELSE handler[p]]

(* udp.Service.Listen: two seconds for a read; a datagram that is no packet*)
(* ends it.                                                                *)
UdpStep ==
  /\ Alive
  /\ \/ /\ udp = "top"
        /\ udp' = IF Done THEN "returned" ELSE "read"
        /\ UNCHANGED <<processVars, pageVars>>
     \/ /\ udp = "read" /\ udp' \in {"top", "emit"}
        /\ UNCHANGED <<processVars, pageVars>>
     \/ /\ udp = "read" /\ udp' = "returned"
        /\ Fail("error") /\ UNCHANGED pageVars
     \/ /\ udp = "emit" /\ udp' = "top"
        /\ Emit /\ UNCHANGED online
  /\ UNCHANGED <<flagVars, mqtt, mqttCloser, stats, http, shutdown, serialVars,
                 mqttVars, emitterVars>>

(* serial.Service.Run; a line that is a packet goes to Emit.               *)
SerialOther ==
  /\ Alive
  /\ \/ SerialGoOn(Done) \/ SerialStop(Done) \/ SerialOpen \/ SerialSleep
     \/ SerialSkip(Done) \/ SerialLeave(Done)
  /\ UNCHANGED <<flagVars, processVars, memberVars, mqttVars, emitterVars, pageVars>>

SerialRead ==
  /\ Alive /\ SerialScan
  /\ UNCHANGED <<flagVars, processVars, memberVars, mqttVars, emitterVars, pageVars>>

SerialEmit ==
  /\ Alive /\ serial = "line" /\ ~Done
  /\ serial' = "scan" /\ UNCHANGED port
  /\ Emit
  /\ UNCHANGED <<flagVars, memberVars, mqttVars, emitterVars, online>>

SerialEnd ==
  /\ Alive /\ SerialClose(Done)
  /\ IF Done THEN Fail("error") ELSE UNCHANGED processVars
  /\ UNCHANGED <<flagVars, memberVars, mqttVars, emitterVars, pageVars>>

SerialStep == SerialOther \/ SerialEmit \/ SerialEnd
-----------------------------------------------------------------------------
(* mqtt.Service.Run: connect, subscribe, wait.  A subscription needs an    *)
(* open connection; the client's own token reports an error otherwise.     *)
MqttConnect ==
  /\ mqtt = "connect"
  /\ \/ /\ mqtt' = "subscribe" /\ conn' = "open" /\ UNCHANGED processVars
     \/ /\ mqtt' = "returned" /\ UNCHANGED conn /\ Fail("error")
  /\ UNCHANGED <<topic, mqttCloser>>

MqttSubscribe ==
  /\ mqtt = "subscribe"
  /\ \/ /\ conn = "open" /\ topic' = TRUE
        /\ mqtt' = "running" /\ UNCHANGED processVars
     \/ /\ UNCHANGED topic
        /\ mqtt' = "returned" /\ Fail("error")
  /\ UNCHANGED <<conn, mqttCloser>>

MqttDone ==
  /\ mqtt = "running" /\ Done /\ mqtt' = "returned"
  /\ UNCHANGED <<processVars, conn, topic, mqttCloser>>

(* mqtt.Service.Close, which looks at the connection once.                 *)
MqttClose ==
  /\ mqttCloser = "waiting" /\ Done
  /\ mqttCloser' = IF conn = "open" THEN "unsubscribe" ELSE "returned"
  /\ UNCHANGED <<processVars, conn, topic, mqtt>>

MqttUnsubscribe ==
  /\ mqttCloser = "unsubscribe" /\ mqttCloser' = "returned"
  /\ \/ /\ conn = "open" /\ conn' = "closed" /\ topic' = FALSE
        /\ UNCHANGED processVars
     \/ /\ Fail("error") /\ UNCHANGED <<conn, topic>>
  /\ UNCHANGED mqtt

MqttStep ==
  /\ Alive
  /\ MqttConnect \/ MqttSubscribe \/ MqttDone \/ MqttClose \/ MqttUnsubscribe
  /\ UNCHANGED <<flagVars, udp, stats, http, shutdown, serialVars, message,
                 emitterVars, pageVars>>

(* The library: a connection may break, and is made again with a clean     *)
(* session; a message runs the handler in a goroutine of the library.      *)
ConnectionLost ==
  /\ Alive /\ conn = "open"
  /\ conn' = "lost" /\ topic' = FALSE
  /\ UNCHANGED <<flagVars, processVars, memberVars, serialVars, message, emitterVars, pageVars>>

Reconnect ==
  /\ Alive /\ conn = "lost"
  /\ conn' = "open"
  /\ UNCHANGED <<flagVars, processVars, memberVars, serialVars, topic, message,
                 emitterVars, pageVars>>

MessageArrives ==
  /\ Alive /\ topic /\ ~message
  /\ message' = TRUE
  /\ UNCHANGED <<flagVars, processVars, memberVars, serialVars, conn, topic,
                 emitterVars, pageVars>>

MessageHandler ==
  /\ Alive /\ message
  /\ message' = FALSE
  /\ Emit
  /\ UNCHANGED <<flagVars, memberVars, serialVars, conn, topic, emitterVars, online>>

-----------------------------------------------------------------------------
(* e.Subscribe and e.Unsubscribe for channel c.  Subscribe writes to a map *)
(* that Close has set to nil; Unsubscribe closes a channel that Close has  *)
(* closed: both panic.                                                     *)
Subscribing(c) ==
  /\ emitter
  /\ subscribers' = subscribers \cup {c}
  /\ closed' = closed \ {c}

Unsubscribing(c) ==
  /\ c \notin closed
  /\ subscribers' = subscribers \ {c}
  /\ closed' = closed \cup {c}

(* dataset.Stats.Subscribe: a panic there ends the process.                *)
StatsStep ==
  /\ Alive
  /\ \/ /\ stats = "subscribe" /\ stats' = "loop"
        /\ Subscribing("stats") /\ UNCHANGED processVars
     \/ /\ stats = "loop" /\ Done /\ stats' = "unsubscribe"
        /\ UNCHANGED <<processVars, subscribers, closed>>
     \/ /\ stats = "unsubscribe" /\ stats' = "returned"
        /\ Unsubscribing("stats") /\ UNCHANGED processVars
     \/ /\ \/ stats = "subscribe" /\ ~emitter
           \/ stats = "unsubscribe" /\ "stats" \in closed
        /\ Panic /\ UNCHANGED <<stats, subscribers, closed>>
  /\ UNCHANGED <<flagVars, udp, mqtt, mqttCloser, http, shutdown, serialVars,
                 mqttVars, emitter, pageVars>>

-----------------------------------------------------------------------------
(* http.Server: ListenAndServe may fail, and returns ErrServerClosed once  *)
(* Shutdown has been called; Shutdown waits two seconds for the handlers.  *)
Listen ==
  /\ http = "serving" /\ http' = "returned"
  /\ \/ shutdown = "waiting" /\ Fail("error")
     \/ shutdown \in {"draining", "returned"} /\ Fail("closed")
  /\ UNCHANGED shutdown

NoHandler == \A p \in Pages : handler[p] = "none"

Shutdown_NoTimeout ==
  /\ \/ /\ shutdown = "waiting" /\ Done
        /\ shutdown' = "draining" /\ UNCHANGED processVars
     \/ /\ shutdown = "draining" /\ NoHandler
        /\ shutdown' = "returned" /\ UNCHANGED processVars
  /\ UNCHANGED http
Shutdown ==
  /\ \/ /\ shutdown = "waiting" /\ Done
        /\ shutdown' = "draining" /\ UNCHANGED processVars
     \/ /\ shutdown = "draining" /\ NoHandler
        /\ shutdown' = "returned" /\ UNCHANGED processVars
     \/ /\ shutdown = "draining" /\ ~NoHandler
        /\ shutdown' = "returned" /\ Fail("error")
  /\ UNCHANGED http

HttpStep ==
  /\ Alive
  /\ Listen \/ Shutdown
  /\ UNCHANGED <<flagVars, udp, mqtt, mqttCloser, stats, serialVars, mqttVars,
                 emitterVars, pageVars>>

(* Pages and their handlers.  net/http recovers a handler's panic and      *)
(* closes its connection.                                                  *)
Connect(p) ==
  /\ Alive /\ http = "serving" /\ shutdown = "waiting" /\ handler[p] = "none"
  /\ handler' = [handler EXCEPT ![p] = "subscribe"]
  /\ online' = [online EXCEPT ![p] = TRUE]
  /\ UNCHANGED <<flagVars, processVars, memberVars, serialVars, mqttVars, emitterVars>>

Disconnect(p) ==
  /\ Alive /\ online[p]
  /\ online' = [online EXCEPT ![p] = FALSE]
  /\ UNCHANGED <<flagVars, processVars, memberVars, serialVars, mqttVars, emitterVars, handler>>

Become(p, pc) == handler' = [handler EXCEPT ![p] = pc] /\ UNCHANGED online

Recovered(p) ==
  /\ handler' = [handler EXCEPT ![p] = "none"]
  /\ online' = [online EXCEPT ![p] = FALSE]
  /\ UNCHANGED <<subscribers, closed>>

HandlerStep(p) ==
  /\ Alive
  /\ \/ handler[p] = "subscribe" /\ Subscribing(p) /\ Become(p, "write")
     \/ handler[p] = "subscribe" /\ ~emitter /\ Recovered(p)
     \/ handler[p] = "wait" /\ (signalled \/ ~online[p]) /\ Become(p, "unsubscribe")
          /\ UNCHANGED <<subscribers, closed>>
     \/ handler[p] = "wait" /\ p \in closed /\ Become(p, "write")
          /\ UNCHANGED <<subscribers, closed>>
     \/ handler[p] = "unsubscribe" /\ Unsubscribing(p) /\ Become(p, "none")
     \/ handler[p] = "unsubscribe" /\ p \in closed /\ Recovered(p)
  /\ UNCHANGED <<flagVars, processVars, memberVars, serialVars, mqttVars, emitter>>

(* sendResponse may fail, whether the page is gone or not, and blocks while*)
(* the page does not read.                                                 *)
Write(p) ==
  /\ Alive /\ handler[p] = "write"
  /\ Become(p, "wait") \/ Become(p, "unsubscribe")
  /\ UNCHANGED <<flagVars, processVars, memberVars, serialVars, mqttVars, emitterVars>>

-----------------------------------------------------------------------------
MemberStep == UdpStep \/ SerialStep \/ MqttStep \/ StatsStep \/ HttpStep

Next ==
  \/ Start \/ Restart \/ Signal \/ NotifyExit \/ MainStep
  \/ MemberStep \/ SerialRead
  \/ ConnectionLost \/ Reconnect \/ MessageArrives \/ MessageHandler
  \/ \E p \in Pages : Connect(p) \/ Disconnect(p) \/ HandlerStep(p) \/ Write(p)

(* The Go scheduler runs every goroutine; timeouts expire; the broker      *)
(* answers or the connection breaks; systemd restarts what has failed.  The*)
(* port need not say anything, pages need not read, nobody need send a     *)
(* signal, and nobody starts a unit that is inactive.                      *)
Spec ==
  /\ Init /\ [][Next]_vars
  /\ WF_vars(MainStep) /\ WF_vars(NotifyExit)
  /\ WF_vars(Restart)
  /\ WF_vars(UdpStep) /\ WF_vars(SerialStep) /\ WF_vars(MqttStep)
  /\ WF_vars(StatsStep) /\ WF_vars(HttpStep)

-----------------------------------------------------------------------------
(* No order of shutdown, however late a message or a page, makes the       *)
(* process panic: what runs on after emitter.Close finds neither a closed  *)
(* channel to send on nor a map to write to, outside of net/http           *)
(* (emmiter.go:46-55, main.go:82).                                         *)
NeverPanics == main # "panic"

(* A server that ends without having been asked to says why in its log: the*)
(* error of the failed member is not masked by the ErrServerClosed that    *)
(* follows from it (main.go:146-148).                                      *)
EndsWithReason == main = "exit" /\ ~signalled => logged

(* Once it was asked to, or a member failed, the process ends; the only    *)
(* thing that can hold it up is a serial port that says nothing            *)
(* (serial.go:173).                                                        *)
EndsWhenDone == (main = "wait" /\ Done) ~> (main = "exit" \/ serial = "scan")

(* temperature-sensor.service:14, "restart if it crashes": a unit that is  *)
(* down was asked to stop.  The code does not keep this: see the README.   *)
DownOnlyOnRequest == unit = "inactive" /\ main = "exit" => signalled
=============================================================================
