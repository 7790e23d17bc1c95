-------------------------------- MODULE Hub --------------------------------
(***************************************************************************)
(* The heart of the Go server: the sources of packets (UDP, serial and     *)
(* MQTT goroutines), the EventEmitter that fans them out, the goroutine of *)
(* dataset.Stats that keeps what was received, and one HTTP handler per    *)
(* connected page, which sends a response for each event.                  *)
(*                                                                         *)
(* Every method with a lock of its own is one step, Emit is one step per   *)
(* subscriber under e.mu.  The channels are unbuffered: Emit's select      *)
(* delivers to the subscribers that wait in their select and skips the     *)
(* others.  Only the fact of an event reaches a handler; what it sends is  *)
(* read from the statistics.                                               *)
(*                                                                         *)
(* A packet is known by its number among those that Stats received.        *)
(* Shutdown and the removal of old days are not part of this module.       *)
(***************************************************************************)
EXTENDS Naturals

CONSTANTS
  Sources,    \* the goroutines that call Emit
  Pages,      \* the pages that connect to /subscribe
  MaxPackets  \* bound: packets emitted

ASSUME HubAssumption ==
  /\ "stats" \notin Pages /\ "free" \notin Sources
  /\ MaxPackets \in Nat

VARIABLES
  subscribers,  \* e.subscribers
  mu,           \* the source that holds e.mu in Emit, or "free"
  left,         \* subscribers that this Emit has not come to yet
  source,       \* source -> where its goroutine is
  emitted,      \* packets handed to Emit
  stats,        \* program counter of Stats.Subscribe
  accepted,     \* packets that Stats received from its channel
  current,      \* s.packet: the last packet set, 0 for the zero Packet
  series,       \* how many packets each setOfData has been given
  handler,      \* page -> program counter of its handler
  online,       \* page -> its connection is up
  response,     \* page -> the EventResponse its handler is putting together
  shown         \* page -> the packet it shows, 0 for none

emitterVars == <<subscribers, mu, left, source, emitted>>
statsVars == <<stats, accepted, current, series>>
pageVars == <<handler, online, response, shown>>
vars == <<emitterVars, statsVars, pageVars>>

Charts == {"temperature", "pressure", "voltage"}
EmptyResponse == [current |-> 0, temperature |-> 0, pressure |-> 0, voltage |-> 0]

StatsPc == {"start", "wait", "set"} \cup Charts
HandlerPc == {"none", "subscribe", "current", "write", "wait", "unsubscribe"} \cup Charts

TypeOK ==
  /\ subscribers \subseteq Pages \cup {"stats"}
  /\ mu \in Sources \cup {"free"}
  /\ left \subseteq subscribers
  /\ source \in [Sources -> {"read", "lock", "emit"}]
  /\ emitted \in 0 .. MaxPackets
  /\ stats \in StatsPc
  /\ accepted \in 0 .. emitted
  /\ current \in 0 .. accepted
  /\ series \in [Charts -> 0 .. accepted]
  /\ handler \in [Pages -> HandlerPc]
  /\ online \in [Pages -> BOOLEAN]
  /\ response \in [Pages -> [{"current"} \cup Charts -> 0 .. accepted]]
  /\ shown \in [Pages -> 0 .. accepted]

Init ==
  /\ subscribers = {} /\ mu = "free" /\ left = {}
  /\ source = [s \in Sources |-> "read"] /\ emitted = 0
  /\ stats = "start" /\ accepted = 0 /\ current = 0
  /\ series = [k \in Charts |-> 0]
  /\ handler = [p \in Pages |-> "none"]
  /\ online = [p \in Pages |-> FALSE]
  /\ response = [p \in Pages |-> EmptyResponse]
  /\ shown = [p \in Pages |-> 0]

-----------------------------------------------------------------------------
(* A source has a valid packet and calls Emit ...                          *)
Parse(s) ==
  /\ source[s] = "read" /\ emitted < MaxPackets
  /\ emitted' = emitted + 1
  /\ source' = [source EXCEPT ![s] = "lock"]
  /\ UNCHANGED <<subscribers, mu, left, statsVars, pageVars>>

(* ... which locks the emitter ...                                         *)
Lock(s) ==
  /\ source[s] = "lock" /\ mu = "free"
  /\ mu' = s /\ left' = subscribers
  /\ source' = [source EXCEPT ![s] = "emit"]
  /\ UNCHANGED <<subscribers, emitted, statsVars, pageVars>>

(* ... offers the packet to each subscriber, in the random order of a      *)
(* range over a map ...                                                    *)
Waiting(c) ==
  IF c = "stats" THEN stats = "wait" ELSE handler[c] = "wait" /\ online[c]

Deliver(c) ==
  IF c = "stats"
    THEN /\ stats' = "set" /\ accepted' = accepted + 1
         /\ UNCHANGED <<current, series, pageVars>>
    ELSE /\ handler' = [handler EXCEPT ![c] = "current"]
         /\ UNCHANGED <<statsVars, online, response, shown>>

EmitTo_Blocks(s, c) ==
  /\ mu = s /\ c \in left
  /\ left' = left \ {c}
  /\ Waiting(c) /\ Deliver(c)
  /\ UNCHANGED <<subscribers, mu, source, emitted>>
EmitTo(s, c) ==
  /\ mu = s /\ c \in left
  /\ left' = left \ {c}
  /\ IF Waiting(c) THEN Deliver(c) ELSE UNCHANGED <<statsVars, pageVars>>
  /\ UNCHANGED <<subscribers, mu, source, emitted>>

(* ... and unlocks it.                                                     *)
Unlock(s) ==
  /\ mu = s /\ left = {}
  /\ mu' = "free"
  /\ source' = [source EXCEPT ![s] = "read"]
  /\ UNCHANGED <<subscribers, left, emitted, statsVars, pageVars>>

-----------------------------------------------------------------------------
(* Stats.Subscribe: the packet, then one series after the other.           *)
StatsSubscribe ==
  /\ stats = "start" /\ mu = "free"
  /\ subscribers' = subscribers \cup {"stats"}
  /\ stats' = "wait"
  /\ UNCHANGED <<mu, left, source, emitted, accepted, current, series, pageVars>>

SetPacket ==
  /\ stats = "set"
  /\ current' = accepted
  /\ stats' = "temperature"
  /\ UNCHANGED <<emitterVars, accepted, series, pageVars>>

Push(k, next) ==
  /\ stats = k
  /\ series' = [series EXCEPT ![k] = @ + 1]
  /\ stats' = next
  /\ UNCHANGED <<emitterVars, accepted, current, pageVars>>

StatsLoop_NeverBack ==
  \/ SetPacket
  \/ Push("temperature", "pressure")
  \/ Push("pressure", "voltage")
  \/ Push("voltage", "voltage")
StatsLoop ==
  \/ SetPacket
  \/ Push("temperature", "pressure")
  \/ Push("pressure", "voltage")
  \/ Push("voltage", "wait")

-----------------------------------------------------------------------------
(* A page opens its EventSource, and may go away at any time; the request's*)
(* context is done from then on.                                           *)
Connect(p) ==
  /\ handler[p] = "none" /\ ~online[p]
  /\ online' = [online EXCEPT ![p] = TRUE]
  /\ handler' = [handler EXCEPT ![p] = "subscribe"]
  /\ UNCHANGED <<emitterVars, statsVars, response, shown>>

Disconnect(p) ==
  /\ online[p]
  /\ online' = [online EXCEPT ![p] = FALSE]
  /\ UNCHANGED <<emitterVars, statsVars, handler, response, shown>>

Subscribe(p) ==
  /\ handler[p] = "subscribe" /\ mu = "free"
  /\ subscribers' = subscribers \cup {p}
  /\ handler' = [handler EXCEPT ![p] = "current"]
  /\ UNCHANGED <<mu, left, source, emitted, statsVars, online, response, shown>>

(* Stats.EventResponse: the current packet and then the series, each under *)
(* a lock of its own.                                                      *)
ReadCurrent(p) ==
  /\ handler[p] = "current"
  /\ response' = [response EXCEPT ![p].current = current]
  /\ handler' = [handler EXCEPT ![p] = "temperature"]
  /\ UNCHANGED <<emitterVars, statsVars, online, shown>>

ReadSeries_ThenCurrent(p, k, next) ==
  /\ handler[p] = k
  /\ response' = [response EXCEPT ![p] = [@ EXCEPT ![k] = series[k], !.current = current]]
  /\ handler' = [handler EXCEPT ![p] = next]
  /\ UNCHANGED <<emitterVars, statsVars, online, shown>>
ReadSeries(p, k, next) ==
  /\ handler[p] = k
  /\ response' = [response EXCEPT ![p][k] = series[k]]
  /\ handler' = [handler EXCEPT ![p] = next]
  /\ UNCHANGED <<emitterVars, statsVars, online, shown>>

EventResponse(p) ==
  \/ ReadCurrent(p)
  \/ ReadSeries(p, "temperature", "pressure")
  \/ ReadSeries(p, "pressure", "voltage")
  \/ ReadSeries(p, "voltage", "write")

(* sendResponse.  What is written to a page that has gone is lost, or      *)
(* fails; a page that does not read holds its handler up; and the response *)
(* may have no JSON, or its writer no Flush.                               *)
Respond(p) ==
  /\ handler[p] = "write"
  /\ handler' = [handler EXCEPT ![p] = "wait"]
  /\ shown' = IF online[p] THEN [shown EXCEPT ![p] = response[p].current] ELSE shown
  /\ response' = [response EXCEPT ![p] = EmptyResponse]
  /\ UNCHANGED <<emitterVars, statsVars, online>>

RespondFails_Leaks(p) ==
  /\ handler[p] = "write"
  /\ handler' = [handler EXCEPT ![p] = "none"]
  /\ response' = [response EXCEPT ![p] = EmptyResponse]
  /\ UNCHANGED <<emitterVars, statsVars, online, shown>>
RespondFails(p) ==
  /\ handler[p] = "write"
  /\ handler' = [handler EXCEPT ![p] = "unsubscribe"]
  /\ response' = [response EXCEPT ![p] = EmptyResponse]
  /\ UNCHANGED <<emitterVars, statsVars, online, shown>>

(* <-ctx.Done() in the handler's select.                                   *)
SeeDone(p) ==
  /\ handler[p] = "wait" /\ ~online[p]
  /\ handler' = [handler EXCEPT ![p] = "unsubscribe"]
  /\ UNCHANGED <<emitterVars, statsVars, online, response, shown>>

(* The deferred Unsubscribe.                                               *)
Unsubscribe(p) ==
  /\ handler[p] = "unsubscribe" /\ mu = "free"
  /\ subscribers' = subscribers \ {p}
  /\ handler' = [handler EXCEPT ![p] = "none"]
  /\ UNCHANGED <<mu, left, source, emitted, statsVars, online, response, shown>>

Gone(p) == ~online[p] /\ (Respond(p) \/ RespondFails(p) \/ SeeDone(p))

-----------------------------------------------------------------------------
SourceStep(s) ==
  Parse(s) \/ Lock(s) \/ (\E c \in left : EmitTo(s, c)) \/ Unlock(s)

PageStep(p) ==
  \/ Connect(p) \/ Disconnect(p) \/ Subscribe(p) \/ EventResponse(p)
  \/ Respond(p) \/ RespondFails(p) \/ SeeDone(p) \/ Unsubscribe(p)

Next ==
  \/ \E s \in Sources : SourceStep(s)
  \/ StatsSubscribe \/ StatsLoop
  \/ \E p \in Pages : PageStep(p)

(* The Go scheduler runs every goroutine in the end, and its mutexes do not*)
(* starve a waiter.  Packets, pages and a page's reading owe us nothing.   *)
Spec ==
  /\ Init /\ [][Next]_vars
  /\ \A s \in Sources :
       /\ SF_vars(Lock(s)) /\ WF_vars(Unlock(s))
       /\ WF_vars(\E c \in left : EmitTo(s, c))
  /\ SF_vars(StatsSubscribe) /\ WF_vars(StatsLoop)
  /\ \A p \in Pages :
       /\ SF_vars(Subscribe(p)) /\ SF_vars(Unsubscribe(p))
       /\ WF_vars(EventResponse(p)) /\ WF_vars(Gone(p))

-----------------------------------------------------------------------------
(* The parts of a response are read at different moments, and packets may  *)
(* be accepted in between.  Yet each of its charts holds every packet up to*)
(* its current one, the current one itself excepted (stats.go:55-58,       *)
(* 96-101).                                                                *)
ChartNearlyCurrent ==
  \A p \in Pages : handler[p] = "write" =>
    \A k \in Charts : response[p][k] + 1 >= response[p].current

(* A handler leaves no channel behind in the emitter, on no path           *)
(* (http.go:86-87).                                                        *)
NoSubscriberLeaks ==
  \A p \in Pages : handler[p] \in {"none", "subscribe"} => p \notin subscribers

(* No page, however slow or gone, keeps a source from returning to its     *)
(* input (emmiter.go:38-43).                                               *)
EmitReturns == \A s \in Sources : (source[s] # "read") ~> (source[s] = "read")

(* The handler of a page that is gone ends (http.go:107-108).              *)
HandlerEnds == \A p \in Pages : (~online[p]) ~> (handler[p] = "none")

(* The handlers of slow and vanished pages hold nobody up, and themselves  *)
(* not for ever, though Emit and Unsubscribe contend for one lock.         *)
PagesHoldNobodyUp == EmitReturns /\ HandlerEnds

(* Once nothing is under way a connected page shows the current reading.   *)
(* The code does not keep this: see the README.                            *)
IdlePageIsUpToDate ==
  (\A s \in Sources : source[s] = "read") /\ stats = "wait" =>
    \A p \in Pages : online[p] /\ handler[p] = "wait" => shown[p] = current
=============================================================================
