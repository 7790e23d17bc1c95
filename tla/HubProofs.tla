----------------------------- MODULE HubProofs -----------------------------
(***************************************************************************)
(* The hub for any sources, any pages and any number of packets.           *)
(***************************************************************************)
EXTENDS Hub, FiniteSetTheorems, TLAPS

Response == [current : Nat, temperature : Nat, pressure : Nat, voltage : Nat]

(* What the proofs need of the types.                                      *)
Types ==
  /\ subscribers \subseteq Pages \cup {"stats"}
  /\ left \subseteq Pages \cup {"stats"}
  /\ stats \in StatsPc
  /\ accepted \in Nat /\ current \in Nat
  /\ series \in [Charts -> Nat]
  /\ handler \in [Pages -> HandlerPc]
  /\ online \in [Pages -> BOOLEAN]
  /\ response \in [Pages -> Response]

(* Each series has every accepted packet, but for the one in hand as long  *)
(* as its push is still to come.                                           *)
StatsInv ==
  /\ current <= accepted
  /\ stats # "set" => current = accepted
  /\ stats \in {"set"} \cup Charts => accepted > 0
  /\ series["temperature"] = (IF stats \in {"set", "temperature"} THEN accepted - 1 ELSE accepted)
  /\ series["pressure"] = (IF stats \in {"set", "temperature", "pressure"} THEN accepted - 1 ELSE accepted)
  /\ series["voltage"] = (IF stats \in {"set"} \cup Charts THEN accepted - 1 ELSE accepted)

(* A response keeps up with its current packet as far as it has been read. *)
ResponseInv ==
  \A p \in Pages :
    /\ response[p].current <= current
    /\ handler[p] \in {"pressure", "voltage", "write"}
         => response[p].temperature + 1 >= response[p].current
    /\ handler[p] \in {"voltage", "write"}
         => response[p].pressure + 1 >= response[p].current
    /\ handler[p] = "write"
         => response[p].voltage + 1 >= response[p].current

Inv == Types /\ StatsInv /\ ResponseInv

(* The packets under way: each of them is in the hand of a source that     *)
(* waits for the lock, or of the one that holds it; in the latter case it  *)
(* is lost to the statistics once Emit has come past them.                 *)
Locking == {s \in Sources : source[s] = "lock"}

FlightInv ==
  /\ mu = "free" => left = {}
  /\ mu # "free" => source[mu] = "emit"
  /\ IsFiniteSet(Locking)
  /\ accepted + Cardinality(Locking) + (IF "stats" \in left THEN 1 ELSE 0) <= emitted

LEMMA InitInv == Init => Inv
  BY DEF Init, Inv, Types, StatsInv, ResponseInv, Response, EmptyResponse,
         StatsPc, HandlerPc, Charts

-----------------------------------------------------------------------------
(* The steps of the emitter that deliver nothing.                          *)
LEMMA QuietSteps ==
  ASSUME Inv, UNCHANGED <<statsVars, pageVars>>,
         subscribers' \subseteq Pages \cup {"stats"},
         left' \subseteq Pages \cup {"stats"}
  PROVE  Inv'
  BY DEF Inv, Types, StatsInv, ResponseInv, statsVars, pageVars

LEMMA EmitStep ==
  ASSUME Inv, NEW s \in Sources, NEW c \in left, EmitTo(s, c)
  PROVE  Inv'
<1>0. left' \subseteq Pages \cup {"stats"} /\ subscribers' = subscribers /\ left' = left \ {c}
  BY DEF EmitTo, Inv, Types
<1>1. CASE ~Waiting(c)
  BY <1>0, <1>1, QuietSteps DEF EmitTo, Inv, Types
<1>2. CASE Waiting(c) /\ c = "stats"
  <2>1. /\ stats = "wait" /\ stats' = "set" /\ accepted' = accepted + 1
        /\ UNCHANGED <<current, series, handler, online, response>>
    BY <1>2 DEF EmitTo, Waiting, Deliver, pageVars
  <2>2. Types'
    BY <1>0, <2>1 DEF Inv, Types, StatsPc
  <2>3. StatsInv'
    BY <2>1 DEF Inv, Types, StatsInv, Charts
  <2>4. ResponseInv'
    BY <2>1 DEF Inv, ResponseInv
  <2> QED BY <2>2, <2>3, <2>4 DEF Inv
<1>3. CASE Waiting(c) /\ c # "stats"
  <2>1. /\ c \in Pages
        /\ handler' = [handler EXCEPT ![c] = "current"]
        /\ UNCHANGED <<stats, accepted, current, series, online, response>>
    BY <1>3 DEF EmitTo, Waiting, Deliver, statsVars, Inv, Types
  <2>2. Types'
    BY <1>0, <2>1 DEF Inv, Types, HandlerPc
  <2>3. StatsInv'
    BY <2>1 DEF Inv, StatsInv
  <2>4. ResponseInv'
    BY <2>1 DEF Inv, Types, ResponseInv
  <2> QED BY <2>2, <2>3, <2>4 DEF Inv
<1> QED BY <1>1, <1>2, <1>3

-----------------------------------------------------------------------------
LEMMA StatsStep ==
  ASSUME Inv, StatsLoop
  PROVE  Inv'
<1>0. /\ UNCHANGED <<subscribers, left, accepted, handler, online, response>>
      /\ current' >= current /\ current' \in Nat
  BY DEF StatsLoop, SetPacket, Push, emitterVars, pageVars, Inv, Types, StatsInv
<1>1. series' \in [Charts -> Nat] /\ stats' \in StatsPc
  BY DEF StatsLoop, SetPacket, Push, Inv, Types, StatsPc, Charts
<1>2. Types'
  BY <1>0, <1>1 DEF Inv, Types
<1>3. ResponseInv'
  BY <1>0 DEF Inv, Types, ResponseInv, Response
<1>4. StatsInv'
  <2>1. CASE SetPacket
    BY <2>1, <1>0 DEF SetPacket, Inv, Types, StatsInv, Charts
  <2>2. CASE Push("temperature", "pressure")
    BY <2>2, <1>0 DEF Push, Inv, Types, StatsInv, Charts
  <2>3. CASE Push("pressure", "voltage")
    BY <2>3, <1>0 DEF Push, Inv, Types, StatsInv, Charts
  <2>4. CASE Push("voltage", "wait")
    BY <2>4, <1>0 DEF Push, Inv, Types, StatsInv, Charts
  <2> QED BY <2>1, <2>2, <2>3, <2>4 DEF StatsLoop
<1> QED BY <1>2, <1>3, <1>4 DEF Inv

LEMMA StatsSubscribes ==
  ASSUME Inv, StatsSubscribe
  PROVE  Inv'
<1>1. /\ subscribers' \subseteq Pages \cup {"stats"} /\ stats = "start" /\ stats' = "wait"
      /\ UNCHANGED <<left, accepted, current, series, handler, online, response>>
  BY DEF StatsSubscribe, pageVars, Inv, Types
<1>2. Types'
  BY <1>1 DEF Inv, Types, StatsPc
<1>3. StatsInv'
  BY <1>1 DEF Inv, StatsInv, Charts
<1>4. ResponseInv'
  BY <1>1 DEF Inv, ResponseInv
<1> QED BY <1>2, <1>3, <1>4 DEF Inv

-----------------------------------------------------------------------------
(* A handler reads one more part of its response.                          *)
LEMMA ReadStep ==
  ASSUME Inv, NEW p \in Pages, EventResponse(p)
  PROVE  Inv'
<1>0. UNCHANGED <<subscribers, left, stats, accepted, current, series, online>>
  BY DEF EventResponse, ReadCurrent, ReadSeries, emitterVars, statsVars
<1>1. StatsInv'
  BY <1>0 DEF Inv, StatsInv
<1>2. /\ current <= accepted
      /\ series["temperature"] \in Nat /\ series["temperature"] + 1 >= current
      /\ series["pressure"] \in Nat /\ series["pressure"] + 1 >= current
      /\ series["voltage"] \in Nat /\ series["voltage"] + 1 >= current
  BY DEF Inv, Types, StatsInv, Charts
<1>3. Types' /\ ResponseInv'
  <2>1. CASE ReadCurrent(p)
    BY <2>1, <1>0, <1>2 DEF ReadCurrent, Inv, Types, ResponseInv, Response, HandlerPc, Charts
  <2>2. CASE ReadSeries(p, "temperature", "pressure")
    BY <2>2, <1>0, <1>2 DEF ReadSeries, Inv, Types, ResponseInv, Response, HandlerPc, Charts
  <2>3. CASE ReadSeries(p, "pressure", "voltage")
    BY <2>3, <1>0, <1>2 DEF ReadSeries, Inv, Types, ResponseInv, Response, HandlerPc, Charts
  <2>4. CASE ReadSeries(p, "voltage", "write")
    BY <2>4, <1>0, <1>2 DEF ReadSeries, Inv, Types, ResponseInv, Response, HandlerPc, Charts
  <2> QED BY <2>1, <2>2, <2>3, <2>4 DEF EventResponse
<1> QED BY <1>1, <1>3 DEF Inv

(* The other steps of a page and its handler.                              *)
LEMMA HandlerStep ==
  ASSUME Inv, NEW p \in Pages,
         \/ Connect(p) \/ Disconnect(p) \/ Subscribe(p) \/ Respond(p)
         \/ RespondFails(p) \/ SeeDone(p) \/ Unsubscribe(p)
  PROVE  Inv'
<1>0. UNCHANGED <<left, stats, accepted, current, series>>
  BY DEF Connect, Disconnect, Subscribe, Respond, RespondFails, SeeDone, Unsubscribe,
         emitterVars, statsVars
<1>1. StatsInv'
  BY <1>0 DEF Inv, StatsInv
<1>2. subscribers' \subseteq Pages \cup {"stats"}
  BY DEF Connect, Disconnect, Subscribe, Respond, RespondFails, SeeDone, Unsubscribe,
         emitterVars, Inv, Types
<1>3. online' \in [Pages -> BOOLEAN]
  BY DEF Connect, Disconnect, Subscribe, Respond, RespondFails, SeeDone, Unsubscribe,
         Inv, Types
<1>4. PICK pc \in HandlerPc \ {"pressure", "voltage", "write"} :
        handler' = [handler EXCEPT ![p] = pc] \/ handler' = handler
  BY DEF Connect, Disconnect, Subscribe, Respond, RespondFails, SeeDone, Unsubscribe,
         Inv, Types, HandlerPc
<1>5. \/ /\ response' = [response EXCEPT ![p] = EmptyResponse]
         /\ handler' = [handler EXCEPT ![p] = pc]
      \/ response' = response
  BY <1>4 DEF Connect, Disconnect, Subscribe, Respond, RespondFails, SeeDone, Unsubscribe
<1>6. Types'
  BY <1>0, <1>2, <1>3, <1>4, <1>5 DEF Inv, Types, EmptyResponse, Response
<1>7. ResponseInv'
  BY <1>0, <1>4, <1>5 DEF Inv, Types, ResponseInv, EmptyResponse, Response
<1> QED BY <1>1, <1>6, <1>7 DEF Inv

LEMMA NextInv == Inv /\ [Next]_vars => Inv'
<1> SUFFICES ASSUME Inv, [Next]_vars PROVE Inv'
  OBVIOUS
<1>1. ASSUME NEW s \in Sources, Parse(s) \/ Lock(s) \/ Unlock(s) PROVE Inv'
  BY <1>1, QuietSteps DEF Parse, Lock, Unlock, Inv, Types
<1>2. ASSUME NEW s \in Sources, NEW c \in left, EmitTo(s, c) PROVE Inv'
  BY <1>2, EmitStep
<1>3. ASSUME NEW p \in Pages, PageStep(p) PROVE Inv'
  BY <1>3, ReadStep, HandlerStep DEF PageStep
<1>4. CASE UNCHANGED vars
  BY <1>4, QuietSteps DEF vars, emitterVars, Inv, Types
<1> QED
  BY <1>1, <1>2, <1>3, <1>4, StatsStep, StatsSubscribes DEF Next, SourceStep

(* What is proved of the hub rests on it.                                  *)
THEOREM Invariant == Spec => []Inv
  BY InitInv, NextInv, PTL DEF Spec

-----------------------------------------------------------------------------
(* Sources, the lock and the packets under way.                            *)
LEMMA FlightStep ==
  ASSUME Inv, TypeOK, FlightInv, [Next]_vars
  PROVE  /\ FlightInv'
         /\ subscribers' \subseteq Pages \cup {"stats"} /\ left' \subseteq subscribers'
         /\ mu' \in Sources \cup {"free"} /\ source' \in [Sources -> {"read", "lock", "emit"}]
         /\ emitted' \in 0 .. MaxPackets /\ accepted' \in 0 .. emitted'
<1> DEFINE offered(l) == IF "stats" \in l THEN 1 ELSE 0
           types == /\ subscribers \subseteq Pages \cup {"stats"} /\ left \subseteq subscribers
                    /\ mu \in Sources \cup {"free"}
                    /\ source \in [Sources -> {"read", "lock", "emit"}]
                    /\ emitted \in 0 .. MaxPackets /\ accepted \in Nat
<1>n. /\ accepted \in Nat /\ emitted \in Nat /\ Cardinality(Locking) \in Nat
      /\ IsFiniteSet(Locking)
      /\ accepted + Cardinality(Locking) + offered(left) <= emitted
  BY FS_CardinalityType DEF TypeOK, FlightInv
<1>s. SUFFICES FlightInv' /\ types'
  <2>1. ASSUME FlightInv', types'
        PROVE  accepted' \in 0 .. emitted'
    <3>1. /\ accepted' \in Nat /\ emitted' \in Nat /\ Cardinality(Locking)' \in Nat
          /\ accepted' + Cardinality(Locking)' + offered(left') <= emitted'
      BY <2>1, FS_CardinalityType DEF FlightInv
    <3>2. \A a, b, c \in Nat, o \in {0, 1} : a + b + o <= c => a <= c
      OBVIOUS
    <3> HIDE DEF offered
    <3>3. offered(left') \in {0, 1}
      BY DEF offered
    <3> QED BY <3>1, <3>2, <3>3
  <2> QED BY <2>1
<1>f. ASSUME UNCHANGED <<mu, left, source, emitted, accepted>>,
             subscribers' \subseteq Pages \cup {"stats"}, left \subseteq subscribers'
      PROVE  FlightInv' /\ types'
  <2>1. Locking' = Locking
    BY <1>f DEF Locking
  <2> QED BY <1>f, <2>1 DEF FlightInv, TypeOK
<1>1. ASSUME NEW s \in Sources, Parse(s) PROVE FlightInv' /\ types'
  <2>1. /\ source[s] = "read" /\ emitted < MaxPackets /\ emitted' = emitted + 1
        /\ source' = [source EXCEPT ![s] = "lock"]
        /\ UNCHANGED <<subscribers, mu, left, accepted>>
    BY <1>1 DEF Parse, statsVars
  <2>2. Locking' = Locking \cup {s} /\ s \notin Locking
    BY <2>1 DEF Locking, TypeOK
  <2>3. IsFiniteSet(Locking') /\ Cardinality(Locking') = Cardinality(Locking) + 1
    BY <2>2, <1>n, FS_AddElement
  <2>4. (mu = "free" => left = {})' /\ (mu # "free" => source[mu] = "emit")'
    BY <2>1 DEF FlightInv, TypeOK
  <2>5. types'
    BY <2>1, HubAssumption DEF TypeOK
  <2>6. accepted' + Cardinality(Locking') + offered(left') <= emitted'
    BY <1>n, <2>1, <2>3
  <2> QED BY <2>3, <2>4, <2>5, <2>6 DEF FlightInv
<1>2. ASSUME NEW s \in Sources, Lock(s) PROVE FlightInv' /\ types'
  <2>1. /\ source[s] = "lock" /\ mu = "free" /\ mu' = s /\ left' = subscribers
        /\ source' = [source EXCEPT ![s] = "emit"]
        /\ UNCHANGED <<subscribers, emitted, accepted>>
    BY <1>2 DEF Lock, statsVars
  <2>2. Locking' = Locking \ {s} /\ s \in Locking
    BY <2>1 DEF Locking, TypeOK
  <2>3. IsFiniteSet(Locking') /\ Cardinality(Locking') = Cardinality(Locking) - 1
    BY <2>2, <1>n, FS_RemoveElement
  <2>4. (mu = "free" => left = {})' /\ (mu # "free" => source[mu] = "emit")'
    BY <2>1, HubAssumption DEF TypeOK
  <2>5. types'
    BY <2>1 DEF TypeOK
  <2>6. accepted' + Cardinality(Locking') + offered(left') <= emitted'
    <3>1. offered(left) = 0
      BY <2>1 DEF FlightInv
    <3> QED BY <1>n, <2>1, <2>3, <3>1
  <2> QED BY <2>3, <2>4, <2>5, <2>6 DEF FlightInv
<1>3. ASSUME NEW s \in Sources, NEW c \in left, EmitTo(s, c) PROVE FlightInv' /\ types'
  <2>1. /\ mu = s /\ mu # "free" /\ left' = left \ {c}
        /\ UNCHANGED <<subscribers, mu, source, emitted>>
    BY <1>3, HubAssumption DEF EmitTo
  <2>2. Locking' = Locking
    BY <2>1 DEF Locking
  <2>3. \/ c = "stats" /\ accepted' = accepted + 1
        \/ accepted' = accepted
    BY <1>3 DEF EmitTo, Deliver, statsVars
  <2>4. accepted' + Cardinality(Locking') + offered(left') <= emitted'
    <3>1. CASE c = "stats" /\ accepted' = accepted + 1
      <4>1. offered(left) = 1 /\ offered(left') = 0
        BY <2>1, <3>1
      <4> QED BY <1>n, <2>1, <2>2, <3>1, <4>1
    <3>2. CASE accepted' = accepted
      <4>1. offered(left') <= offered(left) /\ offered(left') \in {0, 1} /\ offered(left) \in {0, 1}
        BY <2>1
      <4> HIDE DEF offered
      <4> QED BY <1>n, <2>1, <2>2, <3>2, <4>1
    <3> QED BY <2>3, <3>1, <3>2
  <2>5. types'
    BY <1>n, <2>1, <2>3 DEF TypeOK
  <2> QED BY <1>n, <2>1, <2>2, <2>4, <2>5 DEF FlightInv
<1>4. ASSUME NEW s \in Sources, Unlock(s) PROVE FlightInv' /\ types'
  <2>1. /\ mu = s /\ mu # "free" /\ left = {} /\ mu' = "free"
        /\ source' = [source EXCEPT ![s] = "read"]
        /\ UNCHANGED <<subscribers, left, emitted, accepted>>
    BY <1>4, HubAssumption DEF Unlock, statsVars
  <2>2. source[s] = "emit"
    BY <2>1 DEF FlightInv
  <2>3. Locking' = Locking
    BY <2>1, <2>2 DEF Locking, TypeOK
  <2>4. types'
    BY <2>1 DEF TypeOK
  <2> QED BY <1>n, <2>1, <2>3, <2>4 DEF FlightInv
<1>5. CASE StatsSubscribe
  BY <1>5, <1>f DEF StatsSubscribe, TypeOK
<1>6. CASE StatsLoop \/ UNCHANGED vars
  BY <1>6, <1>f DEF StatsLoop, SetPacket, Push, vars, emitterVars, statsVars, TypeOK
<1>7. ASSUME NEW p \in Pages, PageStep(p) PROVE FlightInv' /\ types'
  <2>1. CASE Subscribe(p) \/ Unsubscribe(p)
    <3>1. /\ subscribers' \subseteq Pages \cup {"stats"} /\ left \subseteq subscribers'
          /\ UNCHANGED <<mu, left, source, emitted, accepted>>
      BY <2>1 DEF Subscribe, Unsubscribe, statsVars, TypeOK, FlightInv
    <3> QED BY <3>1, <1>f
  <2>2. CASE Connect(p) \/ Disconnect(p) \/ EventResponse(p) \/ Respond(p)
               \/ RespondFails(p) \/ SeeDone(p)
    <3>1. UNCHANGED <<subscribers, mu, left, source, emitted, accepted>>
      BY <2>2 DEF Connect, Disconnect, EventResponse, ReadCurrent, ReadSeries, Respond,
                  RespondFails, SeeDone, emitterVars, statsVars
    <3> QED BY <3>1, <1>f DEF TypeOK
  <2> QED BY <1>7, <2>1, <2>2 DEF PageStep
<1> QED
  BY <1>1, <1>2, <1>3, <1>4, <1>5, <1>6, <1>7 DEF Next, SourceStep

(* What pages are sent is never more than what has been accepted.          *)
LEMMA PageTypeStep ==
  ASSUME Inv, TypeOK, accepted' \in Nat, accepted' >= accepted, [Next]_vars
  PROVE  /\ handler' \in [Pages -> HandlerPc] /\ online' \in [Pages -> BOOLEAN]
         /\ response' \in [Pages -> [{"current"} \cup Charts -> 0 .. accepted']]
         /\ shown' \in [Pages -> 0 .. accepted']
<1> DEFINE R == [{"current"} \cup Charts -> 0 .. accepted']
<1>0. /\ accepted \in Nat /\ 0 .. accepted \subseteq 0 .. accepted'
      /\ current \in 0 .. accepted' /\ series \in [Charts -> 0 .. accepted']
      /\ shown \in [Pages -> 0 .. accepted']
  BY DEF TypeOK
<1>1. response \in [Pages -> R]
  <2>1. response \in [Pages -> [{"current"} \cup Charts -> 0 .. accepted]]
    BY DEF TypeOK
  <2> QED BY <1>0, <2>1
<1>e. EmptyResponse \in R
  <2>1. DOMAIN EmptyResponse = {"current"} \cup Charts
    BY DEF EmptyResponse, Charts
  <2>2. \A k \in {"current"} \cup Charts : EmptyResponse[k] = 0
    BY DEF EmptyResponse, Charts
  <2>3. EmptyResponse = [k \in {"current"} \cup Charts |-> EmptyResponse[k]]
    BY <2>1 DEF EmptyResponse
  <2> QED BY <2>2, <2>3
<1>2. handler' \in [Pages -> HandlerPc] /\ online' \in [Pages -> BOOLEAN]
  BY NextInv DEF Inv, Types
<1>3. ASSUME NEW p \in Pages, EventResponse(p)
      PROVE  response' \in [Pages -> R] /\ shown' = shown
  <2>1. CASE ReadCurrent(p)
    BY <2>1, <1>0, <1>1 DEF ReadCurrent
  <2>2. ASSUME NEW k \in Charts, NEW next, ReadSeries(p, k, next)
        PROVE  response' \in [Pages -> R] /\ shown' = shown
    BY <2>2, <1>0, <1>1 DEF ReadSeries
  <2> QED BY <1>3, <2>1, <2>2 DEF EventResponse, Charts
<1>4. ASSUME NEW p \in Pages, PageStep(p)
      PROVE  response' \in [Pages -> R] /\ shown' \in [Pages -> 0 .. accepted']
  <2>1. CASE EventResponse(p)
    BY <2>1, <1>0, <1>3
  <2>2. CASE Respond(p)
    <3>1. response[p].current \in 0 .. accepted'
      BY <1>1
    <3> QED BY <2>2, <3>1, <1>0, <1>1, <1>e DEF Respond
  <2>3. CASE RespondFails(p)
    BY <2>3, <1>0, <1>1, <1>e DEF RespondFails
  <2>4. CASE Connect(p) \/ Disconnect(p) \/ Subscribe(p) \/ SeeDone(p) \/ Unsubscribe(p)
    BY <2>4, <1>0, <1>1 DEF Connect, Disconnect, Subscribe, SeeDone, Unsubscribe
  <2> QED BY <1>4, <2>1, <2>2, <2>3, <2>4 DEF PageStep
<1>5. ASSUME UNCHANGED <<response, shown>>
      PROVE  response' \in [Pages -> R] /\ shown' \in [Pages -> 0 .. accepted']
  BY <1>5, <1>0, <1>1
<1>6. ASSUME NEW s \in Sources, SourceStep(s)
      PROVE  UNCHANGED <<response, shown>>
  BY <1>6 DEF SourceStep, Parse, Lock, EmitTo, Deliver, Unlock, pageVars
<1>7. ASSUME StatsSubscribe \/ StatsLoop \/ UNCHANGED vars
      PROVE  UNCHANGED <<response, shown>>
  BY <1>7 DEF StatsSubscribe, StatsLoop, SetPacket, Push, pageVars, vars
<1>8. response' \in [Pages -> R] /\ shown' \in [Pages -> 0 .. accepted']
  <2>1. CASE \E p \in Pages : PageStep(p)
    BY <1>4, <2>1
  <2>2. CASE ~ \E p \in Pages : PageStep(p)
    BY <1>5, <1>6, <1>7, <2>2 DEF Next
  <2> QED BY <2>1, <2>2
<1> QED BY <1>2, <1>8

LEMMA TypeStep ==
  ASSUME Inv, TypeOK, FlightInv, [Next]_vars
  PROVE  TypeOK' /\ FlightInv'
<1>1. Inv'
  BY NextInv
<1>2. accepted' \in Nat /\ accepted' >= accepted
  BY <1>1, FlightStep DEF Inv, Types, Next, SourceStep, Parse, Lock, EmitTo, Deliver, Unlock,
     StatsSubscribe, StatsLoop, SetPacket, Push, PageStep, Connect, Disconnect, Subscribe,
     EventResponse, ReadCurrent, ReadSeries, Respond, RespondFails, SeeDone, Unsubscribe,
     statsVars, vars
<1>3. stats' \in StatsPc /\ current' \in 0 .. accepted' /\ series' \in [Charts -> 0 .. accepted']
  <2>1. /\ accepted' \in Nat /\ current' \in Nat /\ current' <= accepted'
        /\ series' \in [Charts -> Nat] /\ stats' \in StatsPc
    BY <1>1 DEF Inv, Types, StatsInv
  <2>2. \A k \in Charts : series'[k] \in {accepted', accepted' - 1}
    BY <1>1 DEF Inv, StatsInv, Charts
  <2>3. \A k \in Charts : series'[k] \in 0 .. accepted'
    BY <2>1, <2>2
  <2> QED BY <2>1, <2>3
<1> QED BY <1>2, <1>3, FlightStep, PageTypeStep DEF TypeOK

(* The state keeps its type, for any number of sources, pages and packets: *)
(* no packet reaches the statistics, or a page, that was not emitted.      *)
THEOREM TypeCorrect == Spec => []TypeOK
<1>1. Init => TypeOK /\ FlightInv
  <2> SUFFICES ASSUME Init PROVE TypeOK /\ FlightInv
    OBVIOUS
  <2>1. Locking = {} /\ IsFiniteSet(Locking) /\ Cardinality(Locking) = 0
    BY FS_EmptySet DEF Init, Locking
  <2>2. FlightInv
    BY <2>1 DEF Init, FlightInv
  <2>3. EmptyResponse \in [{"current"} \cup Charts -> {0}]
    <3>1. EmptyResponse = [k \in {"current"} \cup Charts |-> 0]
      BY DEF EmptyResponse, Charts
    <3> QED BY <3>1
  <2>4. 0 \in 0 .. MaxPackets /\ 0 .. 0 = {0}
    BY HubAssumption
  <2> QED BY <2>2, <2>3, <2>4 DEF Init, TypeOK, StatsPc, HandlerPc
<1> QED BY <1>1, TypeStep, Invariant, PTL DEF Spec

(* Each chart of a response holds every packet up to its current one, the  *)
(* current one excepted, for any number of packets and pages.              *)
THEOREM ChartsKeepUp == Spec => []ChartNearlyCurrent
<1>1. Inv => ChartNearlyCurrent
  BY DEF Inv, ResponseInv, ChartNearlyCurrent, Charts
<1> QED BY <1>1, Invariant, PTL

(* No path out of a handler leaves its channel in the emitter.             *)
THEOREM NothingLeaks == Spec => []NoSubscriberLeaks
<1>1. Init => NoSubscriberLeaks
  BY DEF Init, NoSubscriberLeaks
<1>2. Types /\ NoSubscriberLeaks /\ [Next]_vars => NoSubscriberLeaks'
  <2> SUFFICES ASSUME Types, NoSubscriberLeaks, [Next]_vars PROVE NoSubscriberLeaks'
    OBVIOUS
  <2>1. ASSUME NEW s \in Sources, Parse(s) \/ Lock(s) \/ Unlock(s) PROVE NoSubscriberLeaks'
    BY <2>1 DEF Parse, Lock, Unlock, pageVars, NoSubscriberLeaks
  <2>2. ASSUME NEW s \in Sources, NEW c \in left, EmitTo(s, c) PROVE NoSubscriberLeaks'
    BY <2>2 DEF EmitTo, Deliver, pageVars, Types, NoSubscriberLeaks
  <2>3. CASE StatsSubscribe
    BY <2>3, HubAssumption DEF StatsSubscribe, pageVars, NoSubscriberLeaks
  <2>4. CASE StatsLoop
    BY <2>4 DEF StatsLoop, SetPacket, Push, emitterVars, pageVars, NoSubscriberLeaks
  <2>5. ASSUME NEW p \in Pages, PageStep(p) PROVE NoSubscriberLeaks'
    BY <2>5 DEF PageStep, Connect, Disconnect, Subscribe, EventResponse, ReadCurrent, ReadSeries,
                Respond, RespondFails, SeeDone, Unsubscribe, emitterVars, Types, NoSubscriberLeaks
  <2>6. CASE UNCHANGED vars
    BY <2>6 DEF vars, emitterVars, pageVars, NoSubscriberLeaks
  <2> QED BY <2>1, <2>2, <2>3, <2>4, <2>5, <2>6 DEF Next, SourceStep
<1>3. Inv => Types
  BY DEF Inv
<1> QED BY <1>1, <1>2, <1>3, Invariant, PTL DEF Spec
=============================================================================
