----------------------------- MODULE DataProofs -----------------------------
(***************************************************************************)
(* The subjects of MCData: the data sets for any retention, any zone, any  *)
(* readings and any clock; the pages for any browsers, files, builds and   *)
(* restarts; what the sensor task samples, for any number of packets and   *)
(* any values of the ADC; what both receivers make of a packet, for any    *)
(* values its fields can hold and any burst of up to sixteen bits.  What   *)
(* they make of its text is in LineProofs.                                 *)
(*                                                                         *)
(* No bound of a range is a large number in these proofs: the provers list *)
(* such a range.  MaxRaw and UINT16_MAX stand for them.                    *)
(***************************************************************************)
EXTENDS MCData, LineProofs

DayData == [Parts -> [sum : Int, count : Nat]]

(* The charts that the push, or the removal, in hand has still to come to. *)
ToPush(c) ==
  \/ push = "temperature"
  \/ push = "pressure" /\ c # "temperature"
  \/ push = "voltage" /\ c = "voltage"

ToClear(c) ==
  \/ clear = "temperature"
  \/ clear = "pressure" /\ c # "temperature"
  \/ clear = "voltage" /\ c = "voltage"

(* The reading in hand is the last of the log, and of this hour.           *)
InHand == push # "idle" => /\ Len(log) > 0 /\ reading = log[Len(log)]
                           /\ reading.at = now

(* The ticker is at most a day ahead, and the last removal is bound to it. *)
Clock ==
  /\ nextTick - 24 <= now /\ now <= nextTick
  /\ before = nextTick - 24 * (RetentionDays + 1)

Kept ==
  \A c \in Charts : \A i \in DOMAIN log :
    Bod(log[i].at) >= before =>
      Bod(log[i].at) \in DOMAIN data[c] \/ (i = Len(log) /\ ToPush(c))

Removed ==
  \A c \in Charts : ~ToClear(c) => \A b \in DOMAIN data[c] : b >= before

Agree ==
  \A c, d \in Charts : \A b \in DOMAIN data[c] :
    b >= before => b \in DOMAIN data[d] \/ (ToPush(d) /\ b = Bod(reading.at))

DataInv ==
  /\ TypeOK /\ DOMAIN data = Charts /\ InHand /\ Clock
  /\ Kept /\ Removed /\ Agree

LEMMA BodBounds ==
  ASSUME NEW t \in Nat
  PROVE  Bod(t) \in Nat /\ Bod(t) % 24 = 0 /\ t - 23 <= Bod(t) /\ Bod(t) <= t
<1>1. t % 24 \in 0 .. 23 /\ t = 24 * (t \div 24) + (t % 24) /\ t \div 24 \in Nat
  OBVIOUS
<1>2. Bod(t) = 24 * (t \div 24)
  BY <1>1 DEF Bod
<1> QED BY <1>1, <1>2

LEMMA AddedType ==
  ASSUME NEW day \in DayData, NEW r \in Readings
  PROVE  Added(day, r) \in DayData
<1>1. r.value \in Int
  BY DataSetsAssumption DEF Readings
<1> QED BY <1>1 DEF Added, DayData

LEMMA EmptyDayType == EmptyDay \in DayData
  BY DEF EmptyDay, DayData

LEMMA LogTimes ==
  ASSUME TypeOK, NEW i \in DOMAIN log
  PROVE  log[i].at \in Nat
<1>1. log \in Seq(Readings)
  BY DEF TypeOK
<1>2. log[i] \in Readings
  BY <1>1
<1> QED BY <1>2 DEF Readings

LEMMA InitInv == Init => DataInv
<1> SUFFICES ASSUME Init PROVE DataInv
  OBVIOUS
<1>1. now \in Nat /\ before = now - 24 * RetentionDays /\ nextTick = now + 24
      /\ RetentionDays \in Nat
  BY DataSetsAssumption DEF Init
<1>2. DOMAIN data = Charts /\ \A c \in Charts : DOMAIN data[c] = {}
  BY DEF Init
<1>3. log = <<>> /\ push = "idle" /\ shown = 0 /\ reading = <<>> /\ clear = "idle"
  BY DEF Init
<1>4. TypeOK
  BY <1>1, <1>2, <1>3 DEF TypeOK
<1>5. InHand /\ Clock
  BY <1>1, <1>3 DEF InHand, Clock
<1>6. Kept /\ Removed /\ Agree
  BY <1>2, <1>3 DEF Kept, Removed, Agree
<1> QED BY <1>2, <1>4, <1>5, <1>6 DEF DataInv

-----------------------------------------------------------------------------
LEMMA PassInv == DataInv /\ Pass => DataInv'
<1> SUFFICES ASSUME DataInv, Pass PROVE DataInv'
  OBVIOUS
<1>1. now' \in Nat /\ now <= now' /\ now' <= nextTick
  BY DEF Pass, DataInv, TypeOK
<1>2. TypeOK' /\ (DOMAIN data = Charts)' /\ InHand' /\ Kept' /\ Removed' /\ Agree'
  BY <1>1 DEF Pass, DataInv, TypeOK, InHand, Kept, Removed, Agree, ToPush, ToClear
<1>3. Clock'
  BY <1>1, DataSetsAssumption DEF Pass, DataInv, TypeOK, Clock
<1> QED BY <1>2, <1>3 DEF DataInv

LEMMA ReceiveInv == DataInv /\ Receive => DataInv'
<1> SUFFICES ASSUME DataInv, Receive PROVE DataInv'
  OBVIOUS
<1> USE DEF Receive
<1>1. reading' \in Readings /\ reading'.at = now
  BY DEF DataInv, TypeOK, Readings
<1>2. /\ log \in Seq(Readings) /\ log' = Append(log, reading')
      /\ log' \in Seq(Readings) /\ Len(log') = Len(log) + 1
      /\ log'[Len(log')] = reading'
      /\ \A i \in DOMAIN log : log'[i] = log[i]
      /\ DOMAIN log' = DOMAIN log \cup {Len(log')}
      /\ Len(log) \in Nat
  BY <1>1 DEF DataInv, TypeOK
<1>3. TypeOK'
  BY <1>1, <1>2 DEF DataInv, TypeOK, Charts
<1>4. InHand' /\ Clock'
  BY <1>1, <1>2 DEF DataInv, InHand, Clock
<1>5. Kept'
  <2> SUFFICES ASSUME NEW c \in Charts, NEW i \in DOMAIN log', Bod(log'[i].at) >= before
               PROVE  Bod(log'[i].at) \in DOMAIN data[c] \/ i = Len(log')
    BY DEF Kept, ToPush
  <2>1. CASE i \in DOMAIN log
    BY <1>2, <2>1 DEF DataInv, Kept, ToPush
  <2> QED BY <1>2, <2>1
<1>6. Removed' /\ Agree' /\ (DOMAIN data = Charts)'
  BY DEF DataInv, Removed, Agree, ToClear, ToPush, Charts
<1> QED BY <1>3, <1>4, <1>5, <1>6 DEF DataInv

LEMMA PushInv == ASSUME NEW c \in Charts PROVE DataInv /\ Push(c) => DataInv'
<1> SUFFICES ASSUME DataInv, Push(c) PROVE DataInv'
  OBVIOUS
<1> DEFINE bod == Bod(reading.at)
           old == IF bod \in DOMAIN data[c] THEN data[c][bod] ELSE EmptyDay
<1>1. /\ reading \in Readings /\ reading.at = now /\ now \in Nat
      /\ reading = log[Len(log)] /\ Len(log) > 0
      /\ push = c /\ c # "idle"
  BY DEF Push, DataInv, TypeOK, InHand, Charts
<1>2. bod \in Nat /\ bod % 24 = 0 /\ bod >= now - 23
  BY <1>1, BodBounds
<1>3. /\ DOMAIN data' = Charts
      /\ data'[c] = [b \in DOMAIN data[c] \cup {bod} |->
                       IF b = bod THEN Added(old, reading) ELSE data[c][b]]
      /\ \A d \in Charts \ {c} : data'[d] = data[d]
  BY DEF Push, DataInv
<1>4. old \in DayData
  BY EmptyDayType DEF DataInv, TypeOK, DayData
<1>5. /\ DOMAIN data'[c] = DOMAIN data[c] \cup {bod}
      /\ \A b \in DOMAIN data'[c] : data'[c][b] \in DayData
  <2>1. \A b \in DOMAIN data[c] : data[c][b] \in DayData
    BY DEF DataInv, TypeOK, DayData
  <2>2. Added(old, reading) \in DayData
    BY <1>1, <1>4, AddedType
  <2> QED BY <1>3, <2>1, <2>2
<1>6. TypeOK'
  <2>1. \A d \in Charts : /\ DOMAIN data'[d] \subseteq {b \in Nat : b % 24 = 0}
                          /\ \A b \in DOMAIN data'[d] : data'[d][b] \in DayData
    <3> SUFFICES ASSUME NEW d \in Charts
                 PROVE  /\ DOMAIN data'[d] \subseteq {b \in Nat : b % 24 = 0}
                        /\ \A b \in DOMAIN data'[d] : data'[d][b] \in DayData
      OBVIOUS
    <3>1. CASE d = c
      BY <1>2, <1>5, <3>1 DEF DataInv, TypeOK
    <3>2. CASE d # c
      BY <1>3, <3>2 DEF DataInv, TypeOK, DayData
    <3> QED BY <3>1, <3>2
  <2>2. push' \in Charts \cup {"idle"} /\ reading' = reading
    BY DEF Push, AfterChart, Charts
  <2> QED BY <1>1, <2>1, <2>2 DEF Push, DataInv, TypeOK, DayData
<1>7. InHand' /\ Clock'
  BY <1>1 DEF Push, DataInv, InHand, Clock
<1>8. Kept'
  <2> SUFFICES ASSUME NEW d \in Charts, NEW i \in DOMAIN log, Bod(log[i].at) >= before
               PROVE  Bod(log[i].at) \in DOMAIN data'[d] \/ (i = Len(log) /\ ToPush(d)')
    BY DEF Push, Kept
  <2>1. Bod(log[i].at) \in DOMAIN data[d] \/ (i = Len(log) /\ ToPush(d))
    BY DEF DataInv, Kept
  <2>2. DOMAIN data[d] \subseteq DOMAIN data'[d]
    BY <1>3, <1>5
  <2>3. CASE i = Len(log) /\ ToPush(d)
    <3>1. CASE d = c
      BY <1>1, <1>5, <2>3, <3>1
    <3>2. CASE d # c
      BY <1>1, <2>3, <3>2 DEF Push, ToPush, AfterChart, Charts
    <3> QED BY <3>1, <3>2
  <2> QED BY <2>1, <2>2, <2>3
<1>9. Removed'
  <2>1. bod >= before
    BY <1>1, <1>2, DataSetsAssumption DEF DataInv, TypeOK, Clock
  <2>2. UNCHANGED <<before, clear>>
    BY DEF Push
  <2> QED BY <1>3, <1>5, <2>1, <2>2 DEF DataInv, Removed, ToClear
<1>10. Agree'
  <2> SUFFICES ASSUME NEW d \in Charts, NEW x \in Charts, NEW b \in DOMAIN data'[x],
                      b >= before
               PROVE  b \in DOMAIN data'[d] \/ (ToPush(d)' /\ b = bod)
    BY DEF Push, Agree
  <2>1. CASE d = c /\ b = bod
    BY <1>5, <2>1
  <2>2. CASE d # c /\ b = bod
    <3>1. ToPush(d) => ToPush(d)'
      BY <1>1, <2>2 DEF Push, ToPush, AfterChart, Charts
    <3>2. ~ToPush(d) => bod \in DOMAIN data[d]
      BY <1>1, <2>2 DEF DataInv, Kept, TypeOK
    <3> QED BY <1>3, <2>2, <3>1, <3>2
  <2>3. CASE b # bod
    <3>1. b \in DOMAIN data[x]
      BY <1>3, <1>5, <2>3
    <3>2. b \in DOMAIN data[d]
      BY <2>3, <3>1 DEF DataInv, Agree
    <3> QED BY <1>3, <1>5, <3>2
  <2> QED BY <2>1, <2>2, <2>3
<1> QED BY <1>3, <1>6, <1>7, <1>8, <1>9, <1>10 DEF DataInv

LEMMA TickInv == DataInv /\ Tick => DataInv'
<1> SUFFICES ASSUME DataInv, Tick PROVE DataInv'
  OBVIOUS
<1>1. /\ before' = now - 24 * RetentionDays /\ nextTick' = now + 24 /\ now' = now
      /\ now \in Nat /\ now = nextTick /\ RetentionDays \in Nat
      /\ before = nextTick - 24 * (RetentionDays + 1)
  BY DataSetsAssumption DEF Tick, DataInv, TypeOK, Clock
<1>2. before' \in Int /\ before \in Int /\ before <= before'
  BY <1>1
<1>3. TypeOK' /\ InHand' /\ (DOMAIN data = Charts)'
  BY <1>1, <1>2 DEF Tick, DataInv, TypeOK, InHand, Charts
<1>4. Clock'
  BY <1>1 DEF Clock
<1>5. Kept'
  <2> SUFFICES ASSUME NEW c \in Charts, NEW i \in DOMAIN log, Bod(log[i].at) >= before'
               PROVE  Bod(log[i].at) \in DOMAIN data[c] \/ (i = Len(log) /\ ToPush(c))
    BY DEF Tick, Kept, ToPush
  <2>1. log[i].at \in Nat
    BY LogTimes DEF DataInv
  <2>2. Bod(log[i].at) >= before
    BY <1>2, <2>1, BodBounds
  <2> QED BY <2>2 DEF DataInv, Kept
<1>6. Removed'
  BY DEF Tick, Removed, ToClear
<1>7. Agree'
  <2> SUFFICES ASSUME NEW c \in Charts, NEW d \in Charts, NEW b \in DOMAIN data[c], b >= before'
               PROVE  b \in DOMAIN data[d] \/ (ToPush(d) /\ b = Bod(reading.at))
    BY DEF Tick, Agree, ToPush
  <2>1. b >= before
    BY <1>2 DEF DataInv, TypeOK
  <2> QED BY <2>1 DEF DataInv, Agree
<1> QED BY <1>3, <1>4, <1>5, <1>6, <1>7 DEF DataInv

LEMMA RemoveInv == ASSUME NEW c \in Charts PROVE DataInv /\ Remove(c) => DataInv'
<1> SUFFICES ASSUME DataInv, Remove(c) PROVE DataInv'
  OBVIOUS
<1>1. /\ DOMAIN data' = Charts
      /\ data'[c] = [b \in {d \in DOMAIN data[c] : d >= before} |-> data[c][b]]
      /\ \A d \in Charts \ {c} : data'[d] = data[d]
      /\ UNCHANGED <<now, log, reading, push, nextTick, before, shown>>
  BY DEF Remove, DataInv
<1>2. \A d \in Charts : /\ DOMAIN data'[d] \subseteq DOMAIN data[d]
                        /\ \A b \in DOMAIN data'[d] : data'[d][b] = data[d][b]
                        /\ \A b \in DOMAIN data[d] : b >= before => b \in DOMAIN data'[d]
  BY <1>1
<1>3. TypeOK'
  <2>1. clear' \in Charts \cup {"idle"}
    BY DEF Remove, AfterChart, Charts
  <2>2. \A d \in Charts : /\ DOMAIN data'[d] \subseteq {b \in Nat : b % 24 = 0}
                          /\ \A b \in DOMAIN data'[d] :
                               data'[d][b] \in [Parts -> [sum : Int, count : Nat]]
    BY <1>2 DEF DataInv, TypeOK
  <2> QED BY <1>1, <2>1, <2>2 DEF DataInv, TypeOK
<1>4. InHand' /\ Clock'
  BY <1>1 DEF DataInv, InHand, Clock
<1>5. Kept'
  <2> SUFFICES ASSUME NEW d \in Charts, NEW i \in DOMAIN log, Bod(log[i].at) >= before
               PROVE  Bod(log[i].at) \in DOMAIN data'[d] \/ (i = Len(log) /\ ToPush(d))
    BY <1>1 DEF Kept, ToPush
  <2> QED BY <1>2 DEF DataInv, Kept
<1>6. Removed'
  <2> SUFFICES ASSUME NEW d \in Charts, ~ToClear(d)', NEW b \in DOMAIN data'[d]
               PROVE  b >= before
    BY <1>1 DEF Removed
  <2>1. CASE d = c
    BY <1>1, <2>1
  <2>2. CASE d # c
    <3>1. ~ToClear(d)
      BY <2>2 DEF Remove, ToClear, AfterChart, Charts
    <3> QED BY <1>2, <3>1 DEF DataInv, Removed
  <2> QED BY <2>1, <2>2
<1>7. Agree'
  <2> SUFFICES ASSUME NEW x \in Charts, NEW d \in Charts, NEW b \in DOMAIN data'[x], b >= before
               PROVE  b \in DOMAIN data'[d] \/ (ToPush(d) /\ b = Bod(reading.at))
    BY <1>1 DEF Agree, ToPush
  <2> QED BY <1>2 DEF DataInv, Agree
<1> QED BY <1>1, <1>3, <1>4, <1>5, <1>6, <1>7 DEF DataInv

LEMMA OnEventInv == DataInv /\ OnEvent => DataInv'
<1> SUFFICES ASSUME DataInv, OnEvent PROVE DataInv'
  OBVIOUS
<1>1. shown' = Len(log)
      /\ UNCHANGED <<now, data, log, reading, push, nextTick, before, clear>>
  BY DEF OnEvent
<1>2. TypeOK'
  BY <1>1 DEF DataInv, TypeOK
<1> QED BY <1>1, <1>2 DEF DataInv, InHand, Clock, Kept, Removed, Agree, ToPush, ToClear

LEMMA NextInv == DataInv /\ [Next]_vars => DataInv'
<1> SUFFICES ASSUME DataInv, [Next]_vars PROVE DataInv'
  OBVIOUS
<1>1. CASE Next
  BY <1>1, PassInv, ReceiveInv, PushInv, TickInv, RemoveInv, OnEventInv DEF Next
<1>2. CASE UNCHANGED vars
  BY <1>2 DEF vars, DataInv, TypeOK, InHand, Clock, Kept, Removed, Agree, ToPush, ToClear
<1> QED BY <1>1, <1>2

(* What is proved of the data sets rests on it.                            *)
THEOREM DataInvariant == Spec => []DataInv
  BY InitInv, NextInv, PTL DEF Spec

-----------------------------------------------------------------------------
(* Every set always has days that are midnights of UTC, with sums and      *)
(* counts for each part (dataset.go:26-52).                                *)
THEOREM DataTypeCorrect == Spec => []TypeOK
<1>1. DataInv => TypeOK
  BY DEF DataInv
<1> QED BY <1>1, DataInvariant, PTL

(* No tick removes a reading of the last RetentionDays - 1 days, at        *)
(* whatever hour the server was started (dataset.go:54-65).                *)
LEMMA RecentReadingsKept == DataInv => RecentKept
<1> SUFFICES ASSUME DataInv, push = "idle", NEW c \in Charts, NEW i \in DOMAIN log,
                    log[i].at > now - 24 * (RetentionDays - 1)
             PROVE  Bod(log[i].at) \in DOMAIN data[c]
  BY DEF RecentKept
<1>1. log[i].at \in Nat
  BY LogTimes DEF DataInv
<1>2. Bod(log[i].at) >= log[i].at - 23 /\ Bod(log[i].at) \in Nat
  BY <1>1, BodBounds
<1>3. Bod(log[i].at) >= before
  BY <1>1, <1>2, DataSetsAssumption DEF DataInv, TypeOK, Clock
<1> QED BY <1>3 DEF DataInv, Kept, ToPush

(* The sets do not grow for ever: no day is older than the retention and   *)
(* one day (stats.go:73-90).                                               *)
LEMMA OldDaysRemoved == DataInv => WindowBounded
<1> SUFFICES ASSUME DataInv, clear = "idle", NEW c \in Charts, NEW b \in DOMAIN data[c]
             PROVE  b >= now - 24 * (RetentionDays + 1)
  BY DEF WindowBounded
<1>1. b >= before /\ b \in Nat
  BY DEF DataInv, TypeOK, Removed, ToClear
<1> QED BY <1>1, DataSetsAssumption DEF DataInv, TypeOK, Clock

(* Between two pieces of work the three charts have the same days, however *)
(* a push and a removal went through the sets (stats.go:54-86).            *)
LEMMA ChartsAgree == DataInv => SetsAgree
<1> SUFFICES ASSUME DataInv, push = "idle", clear = "idle"
             PROVE  \A c, d \in Charts : DOMAIN data[c] \subseteq DOMAIN data[d]
  BY DEF SetsAgree
<1> QED BY DEF DataInv, Agree, Removed, ToPush, ToClear

(* The window of main.go:31 is kept from both sides and in all three sets, *)
(* for any retention, time zone and hours of readings and ticks.           *)
THEOREM RetentionHolds == Spec => []RetentionKept
<1>1. DataInv => RetentionKept
  BY RecentReadingsKept, OldDaysRemoved, ChartsAgree DEF RetentionKept
<1> QED BY <1>1, DataInvariant, PTL
-----------------------------------------------------------------------------
(* What is in a set came from a reading, and not from a later one.         *)
FromLog ==
  \A c \in Charts : \A b \in DOMAIN data[c] :
    b <= now /\ \E i \in DOMAIN log : Bod(log[i].at) = b

(* No day that has readings is due for removal.                            *)
AllRecent == \A i \in DOMAIN log : Bod(log[i].at) >= before

SeriesTimes(c) == Times(TimeSeries(data[c]))

(* The page counts the points it has drawn last, and until a removal each  *)
(* of them is still a point of the series.                                 *)
DrawnInv ==
  \A c \in PageCharts :
    /\ IsFiniteSet(Times(drawn[c])) /\ lastChart[c] = Cardinality(Times(drawn[c]))
    /\ AllRecent => Times(drawn[c]) \subseteq SeriesTimes(c)

(* The points of a series, by the day and the part they stand for.         *)
LEMMA TimesOf ==
  ASSUME NEW set, NEW t
  PROVE  t \in Times(TimeSeries(set)) <=>
           \E b \in DOMAIN set, p \in Parts : set[b][p].count > 0 /\ t = b + HourOf[p]
<1>1. ASSUME t \in Times(TimeSeries(set))
      PROVE  \E b \in DOMAIN set, p \in Parts : set[b][p].count > 0 /\ t = b + HourOf[p]
  <2>1. PICK point \in TimeSeries(set) : t = point.at
    BY <1>1 DEF Times
  <2>2. PICK bp \in {x \in (DOMAIN set) \X Parts : set[x[1]][x[2]].count > 0} :
          point = [at |-> bp[1] + HourOf[bp[2]], mean |-> set[bp[1]][bp[2]]]
    BY <2>1 DEF TimeSeries
  <2>3. /\ bp[1] \in DOMAIN set /\ bp[2] \in Parts /\ set[bp[1]][bp[2]].count > 0
        /\ t = bp[1] + HourOf[bp[2]]
    BY <2>1, <2>2
  <2> QED BY <2>3
<1>2. ASSUME NEW b \in DOMAIN set, NEW p \in Parts, set[b][p].count > 0, t = b + HourOf[p]
      PROVE  t \in Times(TimeSeries(set))
  <2>1. <<b, p>> \in {x \in (DOMAIN set) \X Parts : set[x[1]][x[2]].count > 0}
    BY <1>2
  <2>2. [at |-> b + HourOf[p], mean |-> set[b][p]] \in TimeSeries(set)
    BY <2>1 DEF TimeSeries
  <2> QED BY <1>2, <2>2 DEF Times
<1> QED BY <1>1, <1>2

(* Midnights and the hours of the parts can be told apart in a sum.        *)
LEMMA TimesDiffer ==
  ASSUME NEW b \in Nat, NEW d \in Nat, b % 24 = 0, d % 24 = 0,
         NEW p \in Parts, NEW q \in Parts, b + HourOf[p] = d + HourOf[q]
  PROVE  b = d /\ p = q
<1>1. /\ HourOf[p] \in {8, 14, 19} /\ HourOf[q] \in {8, 14, 19}
      /\ HourOf[p] = HourOf[q] => p = q
  BY DEF HourOf, Parts
<1>2. PICK k \in Int : b = 24 * k
  BY b = 24 * (b \div 24) + (b % 24)
<1>3. PICK l \in Int : d = 24 * l
  BY d = 24 * (d \div 24) + (d % 24)
<1>4. k = l
  <2>1. 24 * k + HourOf[p] = 24 * l + HourOf[q]
    BY <1>2, <1>3
  <2> QED BY ONLY <1>1, <2>1, k \in Int, l \in Int
<1>5. b = d
  BY <1>2, <1>3, <1>4
<1>6. HourOf[p] = HourOf[q]
  BY <1>1, <1>5
<1> QED BY <1>1, <1>5, <1>6

(* A series has finitely many points, one for each of its times.           *)
LEMMA SeriesCount ==
  ASSUME TypeOK, FromLog, NEW c \in Charts
  PROVE  /\ IsFiniteSet(SeriesTimes(c))
         /\ Cardinality(TimeSeries(data[c])) = Cardinality(SeriesTimes(c))
<1> DEFINE series == TimeSeries(data[c])
           f == [point \in series |-> point.at]
<1>1. SeriesTimes(c) \subseteq Nat /\ \A t \in SeriesTimes(c) : t <= now + 19
  <2> SUFFICES ASSUME NEW t \in SeriesTimes(c) PROVE t \in Nat /\ t <= now + 19
    OBVIOUS
  <2>1. PICK b \in DOMAIN data[c], p \in Parts : t = b + HourOf[p]
    BY TimesOf DEF SeriesTimes
  <2>2. b \in Nat /\ b <= now /\ now \in Nat
    BY DEF TypeOK, FromLog
  <2>3. HourOf[p] \in {8, 14, 19}
    BY DEF HourOf, Parts
  <2> QED BY <2>1, <2>2, <2>3
<1>2. IsFiniteSet(SeriesTimes(c))
  <2>1. now + 19 \in Nat
    BY DEF TypeOK
  <2> QED BY <1>1, <2>1, FS_BoundedSetOfNaturals
<1>3. f \in Bijection(series, SeriesTimes(c))
  <2>1. f \in [series -> SeriesTimes(c)]
    BY DEF SeriesTimes, Times
  <2>2. \A t \in SeriesTimes(c) : \E point \in series : f[point] = t
    BY DEF SeriesTimes, Times
  <2>3. ASSUME NEW x \in series, NEW y \in series, f[x] = f[y] PROVE x = y
    <3>1. PICK bp \in {z \in (DOMAIN data[c]) \X Parts : data[c][z[1]][z[2]].count > 0} :
            x = [at |-> bp[1] + HourOf[bp[2]], mean |-> data[c][bp[1]][bp[2]]]
      BY DEF TimeSeries
    <3>2. PICK dq \in {z \in (DOMAIN data[c]) \X Parts : data[c][z[1]][z[2]].count > 0} :
            y = [at |-> dq[1] + HourOf[dq[2]], mean |-> data[c][dq[1]][dq[2]]]
      BY DEF TimeSeries
    <3>3. /\ bp[1] \in Nat /\ bp[1] % 24 = 0 /\ bp[2] \in Parts
          /\ dq[1] \in Nat /\ dq[1] % 24 = 0 /\ dq[2] \in Parts
      BY <3>1, <3>2 DEF TypeOK
    <3>4. bp[1] + HourOf[bp[2]] = dq[1] + HourOf[dq[2]]
      BY <2>3, <3>1, <3>2
    <3>5. bp[1] = dq[1] /\ bp[2] = dq[2]
      BY <3>3, <3>4, TimesDiffer
    <3> QED BY <3>1, <3>2, <3>5
  <2>4. f \in Injection(series, SeriesTimes(c))
    BY <2>1, <2>3 DEF Injection, IsInjective
  <2>5. f \in Surjection(series, SeriesTimes(c))
    BY <2>1, <2>2 DEF Surjection
  <2> QED BY <2>4, <2>5 DEF Bijection
<1>4. IsFiniteSet(series) /\ Cardinality(series) <= Cardinality(SeriesTimes(c))
      /\ Cardinality(series) = Cardinality(SeriesTimes(c))
  BY <1>2, <1>3, FS_Injection DEF Bijection
<1> QED BY <1>2, <1>4

LEMMA FromLogStep == DataInv /\ FromLog /\ [Next]_vars => FromLog'
<1> SUFFICES ASSUME DataInv, FromLog, [Next]_vars PROVE FromLog'
  OBVIOUS
<1>1. CASE Pass
  <2>1. now \in Nat /\ now' \in Nat /\ now <= now' /\ UNCHANGED <<data, log>>
    BY <1>1 DEF Pass, DataInv, TypeOK
  <2> QED BY <2>1 DEF FromLog, DataInv, TypeOK
<1>2. CASE Receive
  <2>1. /\ UNCHANGED <<now, data>> /\ log' = Append(log, reading')
        /\ reading' \in Readings /\ log \in Seq(Readings)
    BY <1>2 DEF Receive, DataInv, TypeOK, Readings
  <2>2. DOMAIN log \subseteq DOMAIN log' /\ \A i \in DOMAIN log : log'[i] = log[i]
    BY <2>1
  <2> QED BY <2>1, <2>2 DEF FromLog
<1>3. ASSUME NEW c \in Charts, Push(c) PROVE FromLog'
  <2>1. /\ push # "idle" /\ now \in Nat /\ reading.at = now
        /\ Len(log) \in DOMAIN log /\ reading = log[Len(log)] /\ UNCHANGED <<now, log>>
    BY <1>3 DEF Push, DataInv, TypeOK, InHand, Charts
  <2>2. Bod(reading.at) <= now
    BY <2>1, BodBounds
  <2>3. \A d \in Charts : DOMAIN data'[d] \subseteq DOMAIN data[d] \cup {Bod(reading.at)}
    BY <1>3 DEF Push, DataInv
  <2> QED BY <2>1, <2>2, <2>3 DEF FromLog
<1>4. ASSUME NEW c \in Charts, Remove(c) PROVE FromLog'
  <2>1. UNCHANGED <<now, log>> /\ \A d \in Charts : DOMAIN data'[d] \subseteq DOMAIN data[d]
    BY <1>4 DEF Remove, DataInv
  <2> QED BY <2>1 DEF FromLog
<1>5. CASE Tick \/ OnEvent \/ UNCHANGED vars
  BY <1>5 DEF Tick, OnEvent, vars, FromLog
<1> QED BY <1>1, <1>2, <1>3, <1>4, <1>5 DEF Next

(* An event: either the series is drawn, or it was drawn before.           *)
LEMMA EventDraws ==
  ASSUME DataInv, FromLog, DrawnInv, OnEvent, NEW c \in PageCharts
  PROVE  /\ IsFiniteSet(Times(drawn'[c])) /\ lastChart'[c] = Cardinality(Times(drawn'[c]))
         /\ AllRecent => Times(drawn'[c]) = SeriesTimes(c)
<1> DEFINE series == TimeSeries(data[c])
<1>c. c \in Charts
  BY DEF PageCharts, Charts
<1>1. IsFiniteSet(SeriesTimes(c)) /\ Cardinality(series) = Cardinality(SeriesTimes(c))
  BY <1>c, SeriesCount DEF DataInv
<1>2. IsFiniteSet(Times(drawn[c])) /\ lastChart[c] = Cardinality(Times(drawn[c]))
      /\ (AllRecent => Times(drawn[c]) \subseteq SeriesTimes(c))
  BY DEF DrawnInv
<1>3. CASE lastChart[c] < Cardinality(series)
  <2>1. drawn'[c] = series /\ lastChart'[c] = Cardinality(series)
    BY <1>3 DEF OnEvent
  <2> QED BY <1>1, <2>1 DEF SeriesTimes
<1>4. CASE ~(lastChart[c] < Cardinality(series))
  <2>1. drawn'[c] = drawn[c] /\ lastChart'[c] = lastChart[c]
    BY <1>4 DEF OnEvent
  <2>2. ASSUME AllRecent PROVE Times(drawn[c]) = SeriesTimes(c)
    <3>1. Times(drawn[c]) \in SUBSET SeriesTimes(c)
      BY <1>2, <2>2
    <3>2. /\ Cardinality(Times(drawn[c])) <= Cardinality(SeriesTimes(c))
          /\ Cardinality(SeriesTimes(c)) = Cardinality(Times(drawn[c]))
               => SeriesTimes(c) = Times(drawn[c])
      BY <1>1, <3>1, FS_Subset
    <3>3. Cardinality(Times(drawn[c])) \in Nat /\ Cardinality(SeriesTimes(c)) \in Nat
      BY <1>1, <1>2, FS_CardinalityType
    <3>4. ~(Cardinality(Times(drawn[c])) < Cardinality(SeriesTimes(c)))
      BY <1>1, <1>2, <1>4
    <3> QED BY <3>2, <3>3, <3>4
  <2> QED BY <1>2, <2>1, <2>2
<1> QED BY <1>3, <1>4

(* As long as no day is due for removal, a set only gains points.          *)
LEMMA SeriesGrows ==
  ASSUME DataInv, FromLog, AllRecent, NEW c \in Charts, NEW d \in Charts, Push(d) \/ Remove(d)
  PROVE  SeriesTimes(c) \subseteq SeriesTimes(c)'
<1> SUFFICES ASSUME NEW b \in DOMAIN data[c], NEW p \in Parts, data[c][b][p].count > 0
             PROVE  b \in DOMAIN data'[c] /\ data'[c][b][p].count > 0
  <2>1. ASSUME NEW t \in SeriesTimes(c) PROVE t \in SeriesTimes(c)'
    <3>1. PICK b \in DOMAIN data[c], p \in Parts :
            data[c][b][p].count > 0 /\ t = b + HourOf[p]
      BY TimesOf DEF SeriesTimes
    <3>2. b \in DOMAIN data'[c] /\ data'[c][b][p].count > 0
      BY <3>1
    <3>3. t \in Times(TimeSeries(data'[c]))
      BY <3>1, <3>2, TimesOf
    <3> QED BY <3>3 DEF SeriesTimes
  <2> QED BY <2>1
<1>1. CASE c # d
  <2>1. data'[c] = data[c]
    BY <1>1 DEF Push, Remove, DataInv
  <2> QED BY <2>1
<1>2. CASE c = d /\ Remove(d)
  <2>1. b >= before
    BY DEF FromLog, AllRecent
  <2>2. data'[c] = [x \in {y \in DOMAIN data[c] : y >= before} |-> data[c][x]]
    BY <1>2 DEF Remove, DataInv
  <2> QED BY <2>1, <2>2
<1>3. CASE c = d /\ Push(d)
  <2> DEFINE bod == Bod(reading.at)
  <2>1. CASE b # bod
    <3>1. b \in DOMAIN data'[c] /\ data'[c][b] = data[c][b]
      BY <1>3, <2>1 DEF Push, DataInv
    <3> QED BY <3>1
  <2>2. CASE b = bod
    <3>1. b \in DOMAIN data'[c] /\ data'[c][b] = Added(data[c][b], reading)
      BY <1>3, <2>2 DEF Push, DataInv
    <3>2. data[c][b] \in [Parts -> [sum : Int, count : Nat]]
      BY DEF DataInv, TypeOK
    <3>3. data[c][b][p].count \in Nat
      BY <3>2
    <3>4. Added(data[c][b], reading)[p].count \in {data[c][b][p].count, data[c][b][p].count + 1}
      BY DEF Added
    <3> QED BY <3>1, <3>3, <3>4
  <2> QED BY <2>1, <2>2
<1> QED BY <1>1, <1>2, <1>3

LEMMA DrawnStep == DataInv /\ FromLog /\ DrawnInv /\ [Next]_vars => DrawnInv'
<1> SUFFICES ASSUME DataInv, FromLog, DrawnInv, [Next]_vars, NEW c \in PageCharts
             PROVE  /\ IsFiniteSet(Times(drawn'[c]))
                    /\ lastChart'[c] = Cardinality(Times(drawn'[c]))
                    /\ AllRecent' => Times(drawn'[c]) \subseteq SeriesTimes(c)'
  BY DEF DrawnInv
<1>c. c \in Charts
  BY DEF PageCharts, Charts
<1>0. ASSUME UNCHANGED <<drawn, lastChart>>, AllRecent' => AllRecent,
             AllRecent => SeriesTimes(c) \subseteq SeriesTimes(c)'
      PROVE  /\ IsFiniteSet(Times(drawn'[c]))
             /\ lastChart'[c] = Cardinality(Times(drawn'[c]))
             /\ AllRecent' => Times(drawn'[c]) \subseteq SeriesTimes(c)'
  BY <1>0 DEF DrawnInv
<1>1. CASE Pass \/ UNCHANGED vars
  <2>1. UNCHANGED <<data, log, before, drawn, lastChart>>
    BY <1>1 DEF Pass, vars
  <2>2. (AllRecent' <=> AllRecent) /\ SeriesTimes(c)' = SeriesTimes(c)
    BY <2>1 DEF AllRecent, SeriesTimes
  <2> QED BY <1>0, <2>1, <2>2
<1>2. CASE Receive
  <2>1. /\ UNCHANGED <<data, before, drawn, lastChart>> /\ log' = Append(log, reading')
        /\ reading' \in Readings /\ log \in Seq(Readings)
    BY <1>2 DEF Receive, DataInv, TypeOK, Readings
  <2>2. DOMAIN log \subseteq DOMAIN log' /\ \A i \in DOMAIN log : log'[i] = log[i]
    BY <2>1
  <2>3. (AllRecent' => AllRecent) /\ SeriesTimes(c)' = SeriesTimes(c)
    BY <2>1, <2>2 DEF AllRecent, SeriesTimes
  <2> QED BY <1>0, <2>1, <2>3
<1>3. CASE Tick
  <2>1. /\ UNCHANGED <<data, log, drawn, lastChart>>
        /\ before' \in Int /\ before \in Int /\ before <= before'
    BY <1>3, DataSetsAssumption DEF Tick, DataInv, TypeOK, Clock
  <2>2. AllRecent' => AllRecent
    <3> SUFFICES ASSUME AllRecent', NEW i \in DOMAIN log PROVE Bod(log[i].at) >= before
      BY DEF AllRecent
    <3>1. Bod(log[i].at) \in Nat
      BY LogTimes, BodBounds DEF DataInv
    <3>2. Bod(log[i].at) >= before'
      BY <2>1 DEF AllRecent
    <3> QED BY <2>1, <3>1, <3>2
  <2>3. SeriesTimes(c)' = SeriesTimes(c)
    BY <2>1 DEF SeriesTimes
  <2> QED BY <1>0, <2>1, <2>2, <2>3
<1>4. ASSUME NEW d \in Charts, Push(d) \/ Remove(d)
      PROVE  /\ IsFiniteSet(Times(drawn'[c]))
             /\ lastChart'[c] = Cardinality(Times(drawn'[c]))
             /\ AllRecent' => Times(drawn'[c]) \subseteq SeriesTimes(c)'
  <2>1. UNCHANGED <<log, before, drawn, lastChart>>
    BY <1>4 DEF Push, Remove
  <2>2. AllRecent' <=> AllRecent
    BY <2>1 DEF AllRecent
  <2>3. AllRecent => SeriesTimes(c) \subseteq SeriesTimes(c)'
    BY <1>4, <1>c, SeriesGrows
  <2> QED BY <1>0, <2>1, <2>2, <2>3
<1>5. CASE OnEvent
  <2>1. UNCHANGED <<data, log, before>>
    BY <1>5 DEF OnEvent
  <2>2. (AllRecent' <=> AllRecent) /\ SeriesTimes(c)' = SeriesTimes(c)
    BY <2>1 DEF AllRecent, SeriesTimes
  <2> QED BY <1>5, <2>2, EventDraws
<1> QED BY <1>1, <1>2, <1>3, <1>4, <1>5 DEF Next

(* Until a day that has readings is due for removal, an event leaves every *)
(* part of a day drawn, for any readings at any hours: to look only at the *)
(* length of a series is enough until then (index.html:294-302).           *)
THEOREM Drawn == Spec => DrawnUntilRemoval
<1>1. Init => FromLog /\ DrawnInv
  <2> SUFFICES ASSUME Init PROVE FromLog /\ DrawnInv
    OBVIOUS
  <2>1. \A c \in Charts : DOMAIN data[c] = {}
    BY DEF Init
  <2>2. ASSUME NEW c \in PageCharts
        PROVE  Times(drawn[c]) = {} /\ lastChart[c] = 0
    BY DEF Init, Times
  <2> QED BY <2>1, <2>2, FS_EmptySet DEF FromLog, DrawnInv
<1>2. DataInv /\ FromLog /\ DrawnInv /\ [Next]_vars => FromLog' /\ DrawnInv'
  BY FromLogStep, DrawnStep
<1>3. DataInv /\ FromLog /\ DrawnInv /\ [Next]_vars =>
        [OnEvent /\ (\A i \in DOMAIN log : Bod(log[i].at) >= before) =>
           \A c \in PageCharts : Times(drawn'[c]) = Times(TimeSeries(data[c]))]_vars
  BY EventDraws DEF AllRecent, SeriesTimes
<1> QED BY <1>1, <1>2, <1>3, DataInvariant, PTL DEF Spec, DrawnUntilRemoval

-----------------------------------------------------------------------------
(* Worth is what a reading adds to the sum of a part, and Sums says of t    *)
(* that it holds the sums of the first readings, up to the first m.        *)
Worth(r, b, p) == IF InPart(r, b, p) THEN r.value ELSE 0

Sums(t, l, b, p, m) ==
  t = [n \in 0 .. m |-> IF n = 0 THEN 0 ELSE t[n - 1] + Worth(l[n], b, p)]

LEMMA SumsUnique ==
  ASSUME NEW l, NEW b, NEW p, NEW m \in Nat,
         NEW t, NEW u, Sums(t, l, b, p, m), Sums(u, l, b, p, m)
  PROVE  t = u
<1> DEFINE T == {n \in Nat : n <= m => t[n] = u[n]}
<1>1. 0 \in T
  BY DEF Sums
<1>2. ASSUME NEW n \in Nat, n \in T PROVE n + 1 \in T
  BY <1>2 DEF Sums
<1>3. Nat \subseteq T
  <2> HIDE DEF T
  <2> QED BY <1>1, <1>2, SetInduction
<1>4. \A n \in 0 .. m : t[n] = u[n]
  BY <1>3
<1> QED BY <1>4 DEF Sums

LEMMA SumsExist ==
  ASSUME NEW l, NEW b, NEW p, NEW m \in Nat
  PROVE  \E t : Sums(t, l, b, p, m)
<1> DEFINE T == {n \in Nat : \E t : Sums(t, l, b, p, n)}
<1>1. 0 \in T
  <2>1. Sums([n \in 0 .. 0 |-> 0], l, b, p, 0)
    BY DEF Sums
  <2> QED BY <2>1
<1>2. ASSUME NEW n \in Nat, n \in T PROVE n + 1 \in T
  <2>1. PICK t : Sums(t, l, b, p, n)
    BY <1>2
  <2> DEFINE u == [i \in 0 .. n + 1 |-> IF i = n + 1 THEN t[n] + Worth(l[n + 1], b, p) ELSE t[i]]
  <2>2. Sums(u, l, b, p, n + 1)
    BY <2>1 DEF Sums
  <2> QED BY <2>2
<1>3. Nat \subseteq T
  <2> HIDE DEF T
  <2> QED BY <1>1, <1>2, SetInduction
<1> QED BY <1>3

LEMMA SumIs ==
  ASSUME NEW l, Len(l) \in Nat, NEW b, NEW p, NEW t, Sums(t, l, b, p, Len(l))
  PROVE  SumOf(l, b, p) = t[Len(l)]
<1>1. SumOf(l, b, p) = (CHOOSE u : Sums(u, l, b, p, Len(l)))[Len(l)]
  BY DEF SumOf, Sums, Worth
<1>2. Sums((CHOOSE u : Sums(u, l, b, p, Len(l))), l, b, p, Len(l))
  OBVIOUS
<1>3. (CHOOSE u : Sums(u, l, b, p, Len(l))) = t
  BY <1>2, SumsUnique
<1> QED BY <1>1, <1>3

LEMMA SumOfInt ==
  ASSUME NEW l \in Seq(Readings), NEW b, NEW p
  PROVE  SumOf(l, b, p) \in Int
<1> DEFINE m == Len(l)
<1>1. m \in Nat /\ \A n \in 1 .. m : Worth(l[n], b, p) \in Int
  <2>1. m \in Nat /\ \A n \in 1 .. m : l[n] \in Readings
    OBVIOUS
  <2>2. \A r \in Readings : r.value \in Int
    BY DataSetsAssumption DEF Readings
  <2> QED BY <2>1, <2>2 DEF Worth
<1>2. PICK t : Sums(t, l, b, p, m)
  BY <1>1, SumsExist
<1> HIDE DEF m
<1> DEFINE T == {n \in Nat : n <= m => t[n] \in Int}
<1>3. 0 \in T
  BY <1>2 DEF Sums
<1>4. ASSUME NEW n \in Nat, n \in T PROVE n + 1 \in T
  BY <1>1, <1>2, <1>4 DEF Sums
<1>5. Nat \subseteq T
  <2> HIDE DEF T
  <2> QED BY <1>3, <1>4, SetInduction
<1>6. t[m] \in Int
  BY <1>1, <1>5
<1> QED BY <1>1, <1>2, <1>6, SumIs DEF m

(* One reading more.                                                       *)
LEMMA SumOfMore ==
  ASSUME NEW l \in Seq(Readings), NEW r \in Readings, NEW b, NEW p
  PROVE  SumOf(Append(l, r), b, p) = SumOf(l, b, p) + Worth(r, b, p)
<1> DEFINE k == Append(l, r)
           m == Len(l)
<1>1. m \in Nat /\ Len(k) = m + 1 /\ k[m + 1] = r /\ \A i \in 1 .. m : k[i] = l[i]
  OBVIOUS
<1>2. PICK t : Sums(t, k, b, p, m + 1)
  <2>1. m + 1 \in Nat
    BY <1>1
  <2> HIDE DEF k, m
  <2> QED BY <2>1, SumsExist
<1> DEFINE u == [n \in 0 .. m |-> t[n]]
<1> HIDE DEF k, m
<1>3. Sums(u, l, b, p, m)
  BY <1>1, <1>2 DEF Sums
<1>4. SumOf(l, b, p) = u[m] /\ SumOf(k, b, p) = t[m + 1]
  BY <1>1, <1>2, <1>3, SumIs DEF m
<1>5. t[m + 1] = t[m] + Worth(r, b, p) /\ u[m] = t[m]
  BY <1>1, <1>2 DEF Sums
<1> QED BY <1>4, <1>5 DEF k

(* Readings of other days add nothing.                                     *)
LEMMA SumOfNone ==
  ASSUME NEW l \in Seq(Readings), NEW b, NEW p, \A i \in DOMAIN l : Bod(l[i].at) # b
  PROVE  SumOf(l, b, p) = 0 /\ CountOf(l, b, p) = 0
<1> DEFINE t == [n \in 0 .. Len(l) |-> 0]
<1>1. \A n \in 1 .. Len(l) : Worth(l[n], b, p) = 0
  BY DEF Worth, InPart
<1>2. Sums(t, l, b, p, Len(l))
  BY <1>1 DEF Sums
<1>3. t[Len(l)] = 0
  OBVIOUS
<1>4. {i \in DOMAIN l : InPart(l[i], b, p)} = {}
  BY DEF InPart
<1> QED BY <1>2, <1>3, <1>4, SumIs, FS_EmptySet DEF CountOf

LEMMA CountOfMore ==
  ASSUME NEW l \in Seq(Readings), NEW r \in Readings, NEW b, NEW p
  PROVE  /\ CountOf(Append(l, r), b, p) = CountOf(l, b, p) + (IF InPart(r, b, p) THEN 1 ELSE 0)
         /\ CountOf(l, b, p) \in Nat
<1> DEFINE k == Append(l, r)
           Of(s) == {i \in DOMAIN s : InPart(s[i], b, p)}
           last == Len(l) + 1
<1>1. /\ DOMAIN k = DOMAIN l \cup {last} /\ last \notin DOMAIN l
      /\ k[last] = r /\ \A i \in DOMAIN l : k[i] = l[i]
  OBVIOUS
<1>2. IsFiniteSet(Of(l)) /\ last \notin Of(l)
  <2>1. Of(l) \subseteq 1 .. Len(l)
    OBVIOUS
  <2>2. IsFiniteSet(1 .. Len(l))
    BY FS_Interval
  <2> QED BY <1>1, <2>1, <2>2, FS_Subset
<1>3. Of(k) = IF InPart(r, b, p) THEN Of(l) \cup {last} ELSE Of(l)
  BY <1>1
<1>4. Cardinality(Of(l)) \in Nat
  BY <1>2, FS_CardinalityType
<1>5. Cardinality(Of(l) \cup {last}) = Cardinality(Of(l)) + 1
  BY <1>2, FS_AddElement
<1>6. CountOf(k, b, p) = Cardinality(Of(k)) /\ CountOf(l, b, p) = Cardinality(Of(l))
  BY DEF CountOf
<1> HIDE DEF k, Of
<1> QED BY <1>3, <1>4, <1>5, <1>6 DEF k

-----------------------------------------------------------------------------
(* The readings that a set has been given: all but the one in hand, as long*)
(* as its push is to come.                                                 *)
Given(c) == IF ToPush(c) THEN SubSeq(log, 1, Len(log) - 1) ELSE log

PartSum(readings, b, p) ==
  [sum |-> SumOf(readings, b, p), count |-> CountOf(readings, b, p)]

SumInv ==
  \A c \in Charts : \A b \in DOMAIN data[c], p \in Parts :
    data[c][b][p] = PartSum(Given(c), b, p)

(* A day that a set does not have, though a reading of today is to be      *)
(* pushed into it, has had no reading before: it is not due for removal.   *)
LEMMA FreshDay ==
  ASSUME DataInv, NEW c \in Charts, push = c, Bod(reading.at) \notin DOMAIN data[c],
         NEW i \in 1 .. Len(log) - 1
  PROVE  Bod(log[i].at) # Bod(reading.at)
<1> DEFINE bod == Bod(reading.at)
<1>1. reading.at = now /\ now \in Nat
  BY DEF DataInv, InHand, TypeOK, Charts
<1>2. bod \in Nat /\ bod >= now - 23
  BY <1>1, BodBounds
<1>3. bod >= before
  BY <1>1, <1>2, DataSetsAssumption DEF DataInv, TypeOK, Clock
<1>4. i \in DOMAIN log /\ i # Len(log)
  BY DEF DataInv, TypeOK
<1> QED BY <1>3, <1>4 DEF DataInv, Kept

LEMMA AddedSums ==
  ASSUME NEW l \in Seq(Readings), NEW r \in Readings, NEW day, NEW p \in Parts,
         day[p] = PartSum(l, Bod(r.at), p)
  PROVE  Added(day, r)[p] = PartSum(Append(l, r), Bod(r.at), p)
<1> DEFINE b == Bod(r.at)
<1>1. InPart(r, b, p) <=> p = PartOf(r.at)
  BY DEF InPart
<1>2. SumOf(Append(l, r), b, p) = SumOf(l, b, p) + Worth(r, b, p)
  BY SumOfMore
<1>3. CountOf(Append(l, r), b, p) = CountOf(l, b, p) + (IF InPart(r, b, p) THEN 1 ELSE 0)
      /\ CountOf(l, b, p) \in Nat
  BY CountOfMore
<1>4. CASE p = PartOf(r.at)
  BY <1>1, <1>2, <1>3, <1>4 DEF Added, PartSum, Worth
<1>5. CASE p # PartOf(r.at)
  <2>1. Added(day, r)[p] = day[p]
    BY <1>5 DEF Added
  <2>2. CountOf(Append(l, r), b, p) = CountOf(l, b, p)
    BY <1>1, <1>3, <1>5
  <2>3. SumOf(Append(l, r), b, p) = SumOf(l, b, p)
    BY <1>1, <1>2, <1>5, SumOfInt DEF Worth
  <2> QED BY <2>1, <2>2, <2>3 DEF PartSum
<1> QED BY <1>4, <1>5

LEMMA OtherSums ==
  ASSUME NEW l \in Seq(Readings), NEW r \in Readings, NEW b, b # Bod(r.at), NEW p
  PROVE  PartSum(Append(l, r), b, p) = PartSum(l, b, p)
<1>1. ~InPart(r, b, p)
  BY DEF InPart
<1>2. SumOf(Append(l, r), b, p) = SumOf(l, b, p) + 0 /\ SumOf(l, b, p) \in Int
  BY <1>1, SumOfMore, SumOfInt DEF Worth
<1>3. CountOf(Append(l, r), b, p) = CountOf(l, b, p) + 0 /\ CountOf(l, b, p) \in Nat
  BY <1>1, CountOfMore
<1> QED BY <1>2, <1>3 DEF PartSum

LEMMA FrontAndLast ==
  ASSUME NEW l \in Seq(Readings), Len(l) > 0, NEW front, front = SubSeq(l, 1, Len(l) - 1)
  PROVE  /\ front \in Seq(Readings) /\ l = Append(front, l[Len(l)])
         /\ Len(front) = Len(l) - 1 /\ \A i \in 1 .. Len(l) - 1 : front[i] = l[i]
<1> DEFINE m == Len(l) - 1
<1>1. m \in Nat /\ Len(l) = m + 1 /\ \A i \in 1 .. m + 1 : l[i] \in Readings
  OBVIOUS
<1> HIDE DEF m
<1>2. /\ front \in Seq(Readings) /\ Len(front) = IF 1 <= m THEN m - 1 + 1 ELSE 0
      /\ \A i \in 1 .. m - 1 + 1 : front[i] = l[1 + i - 1]
  <2>1. front = SubSeq(l, 1, m) /\ \A i \in 1 .. m : l[i] \in Readings
    BY <1>1 DEF m
  <2> QED BY <1>1, <2>1, SubSeqProperties
<1>3. Len(front) = m
  BY <1>1, <1>2
<1>4. ASSUME NEW i \in 1 .. m PROVE front[i] = l[i]
  <2>1. 1 + i - 1 = i /\ i \in 1 .. m - 1 + 1
    BY <1>1
  <2> QED BY <1>2, <2>1
<1>5. /\ Append(front, l[m + 1]) \in Seq(Readings) /\ Len(Append(front, l[m + 1])) = m + 1
      /\ \A i \in 1 .. m + 1 : Append(front, l[m + 1])[i] = l[i]
  <2>1. l[m + 1] \in Readings
    BY <1>1
  <2> QED BY <1>1, <1>2, <1>3, <1>4, <2>1, AppendProperties
<1>6. Append(front, l[m + 1]) = l
  BY <1>1, <1>5, SeqEqual
<1> QED BY <1>1, <1>2, <1>3, <1>4, <1>6

LEMMA SumPush ==
  ASSUME NEW c \in Charts, DataInv, SumInv, Push(c)
  PROVE  SumInv'
<1>0. PICK bod : bod = Bod(reading.at)
  OBVIOUS
<1>k. PICK front : front = SubSeq(log, 1, Len(log) - 1)
  OBVIOUS
<1> DEFINE old == IF bod \in DOMAIN data[c] THEN data[c][bod] ELSE EmptyDay
<1>1. /\ reading \in Readings /\ log \in Seq(Readings) /\ Len(log) > 0 /\ reading = log[Len(log)]
      /\ push = c /\ UNCHANGED <<log, reading>> /\ push' = AfterChart(c)
  BY DEF Push, DataInv, TypeOK, InHand, Charts
<1>2. /\ data'[c] = [b \in DOMAIN data[c] \cup {bod} |->
                       IF b = bod THEN Added(old, reading) ELSE data[c][b]]
      /\ \A d \in Charts \ {c} : data'[d] = data[d]
  BY <1>0 DEF Push, DataInv
<1>3. front \in Seq(Readings) /\ log = Append(front, reading) /\ Len(front) = Len(log) - 1
      /\ \A i \in 1 .. Len(log) - 1 : front[i] = log[i]
  BY <1>1, <1>k, FrontAndLast
<1>4. ToPush(c) /\ ~ToPush(c)' /\ \A d \in Charts \ {c} : ToPush(d)' <=> ToPush(d)
  BY <1>1 DEF ToPush, AfterChart, Charts
<1>5. Given(c) = front /\ Given(c)' = log /\ \A d \in Charts \ {c} : Given(d)' = Given(d)
  BY <1>1, <1>4, <1>k DEF Given
<1>6. ASSUME NEW p \in Parts PROVE old[p] = PartSum(front, bod, p)
  <2>1. CASE bod \in DOMAIN data[c]
    BY <1>5, <2>1 DEF SumInv
  <2>2. CASE bod \notin DOMAIN data[c]
    <3>1. \A i \in DOMAIN front : Bod(front[i].at) # bod
      BY <1>0, <1>1, <1>3, <2>2, FreshDay
    <3>2. EmptyDay[p] = [sum |-> 0, count |-> 0]
      BY DEF EmptyDay
    <3> QED BY <1>3, <2>2, <3>1, <3>2, SumOfNone DEF PartSum
  <2> QED BY <2>1, <2>2
<1>7. ASSUME NEW p \in Parts PROVE data'[c][bod][p] = PartSum(log, bod, p)
  <2>1. data'[c][bod] = Added(old, reading)
    BY <1>2
  <2>2. Added(old, reading)[p] = PartSum(Append(front, reading), bod, p)
    BY <1>0, <1>1, <1>3, <1>6, AddedSums
  <2> QED BY <1>3, <2>1, <2>2
<1>8. ASSUME NEW d \in Charts, NEW b \in DOMAIN data'[d], NEW p \in Parts
      PROVE  data'[d][b][p] = PartSum(Given(d)', b, p)
  <2>1. CASE d = c /\ b = bod
    BY <1>5, <1>7, <2>1
  <2>2. CASE d = c /\ b # bod
    <3>1. b \in DOMAIN data[c] /\ data'[c][b] = data[c][b]
      BY <1>2, <2>2
    <3>2. data[c][b][p] = PartSum(front, b, p)
      BY <1>5, <3>1 DEF SumInv
    <3>3. PartSum(log, b, p) = PartSum(front, b, p)
      BY <1>0, <1>1, <1>3, <2>2, OtherSums
    <3> QED BY <1>5, <2>2, <3>1, <3>2, <3>3
  <2>3. CASE d # c
    BY <1>2, <1>5, <2>3 DEF SumInv
  <2> QED BY <2>1, <2>2, <2>3
<1> QED BY <1>8 DEF SumInv

LEMMA SumStep == DataInv /\ SumInv /\ [Next]_vars => SumInv'
<1> SUFFICES ASSUME DataInv, SumInv, [Next]_vars PROVE SumInv'
  OBVIOUS
<1>1. ASSUME UNCHANGED <<data, log, push>> PROVE SumInv'
  <2>1. \A c \in Charts : Given(c)' = Given(c)
    BY <1>1 DEF Given, ToPush
  <2> QED BY <1>1, <2>1 DEF SumInv
<1>2. CASE Receive
  <2>1. /\ UNCHANGED data /\ push = "idle" /\ push' = "temperature"
        /\ log \in Seq(Readings) /\ reading' \in Readings /\ log' = Append(log, reading')
    BY <1>2 DEF Receive, DataInv, TypeOK, Readings
  <2>2. SubSeq(log', 1, Len(log') - 1) = log
    BY <2>1
  <2>3. \A c \in Charts : ~ToPush(c) /\ ToPush(c)'
    BY <2>1 DEF ToPush, Charts
  <2>4. \A c \in Charts : Given(c)' = Given(c)
    BY <2>2, <2>3 DEF Given
  <2> QED BY <2>1, <2>4 DEF SumInv
<1>3. ASSUME NEW c \in Charts, Remove(c) PROVE SumInv'
  <2>1. /\ data'[c] = [b \in {d \in DOMAIN data[c] : d >= before} |-> data[c][b]]
        /\ \A d \in Charts \ {c} : data'[d] = data[d]
        /\ UNCHANGED <<log, push>>
    BY <1>3 DEF Remove, DataInv
  <2>2. \A d \in Charts : \A b \in DOMAIN data'[d] :
          b \in DOMAIN data[d] /\ data'[d][b] = data[d][b]
    BY <2>1
  <2>3. \A d \in Charts : Given(d)' = Given(d)
    BY <2>1 DEF Given, ToPush
  <2> QED BY <2>2, <2>3 DEF SumInv
<1> QED BY <1>1, <1>2, <1>3, SumPush DEF Next, vars, Pass, Tick, OnEvent

(* No reading is lost or counted twice: each part of each day of each set  *)
(* has the sum and the number of the readings that came in it, also when   *)
(* the day is begun anew or others are removed meanwhile, and at whatever  *)
(* hours (dataset.go:38-52, stats.go:54-86).                               *)
THEOREM SumsHold == Spec => []SumsMatch
<1>1. Init => SumInv
  BY DEF Init, SumInv
<1>2. DataInv /\ SumInv => SumsMatch
  <2> SUFFICES ASSUME DataInv, SumInv, push = "idle",
                      NEW c \in Charts, NEW b \in DOMAIN data[c], NEW p \in Parts
               PROVE  data[c][b][p] = PartSum(log, b, p)
    BY DEF SumsMatch, PartSum
  <2>1. Given(c) = log
    BY DEF Given, ToPush
  <2> QED BY <2>1 DEF SumInv
<1> QED BY <1>1, <1>2, SumStep, DataInvariant, PTL DEF Spec

-----------------------------------------------------------------------------
(* "Not modified" is true.  A tag holds the second its process was started *)
(* in.  The invariant says of what a browser keeps that it is of the       *)
(* installed build unless its tag is older than the clock, and older than  *)
(* the process that runs.                                                  *)
LEMMA AssetsInitTyped == AssetsInit => AssetsTypeOK
<1> SUFFICES ASSUME AssetsInit PROVE AssetsTypeOK
  OBVIOUS
<1>1. NoTag \in Tags BY DEF Tags
<1>2. Idle \in [pc : {"none", "lookup", "insert", "serve"}, file : Files,
                match : Tags, tag : Tags]
  BY <1>1, AssetsAssumption DEF Idle
<1>3. Nothing \in [tag : Tags, content : 0 .. build]
  BY <1>1, AssetsAssumption DEF Nothing, AssetsInit
<1>4. \A b \in Browsers : request[b].pc = "none"
  BY DEF AssetsInit, Idle
<1>5. etagCache \in [Files -> Tags]
  BY <1>1 DEF AssetsInit
<1>6. run \in 0 .. MaxRun /\ build \in 1 .. MaxBuild /\ clock \in 0 .. MaxClock
      /\ version \in 0 .. clock
  <2>1. run = 0 /\ build = 1 /\ clock = 0 /\ version = 0
    BY DEF AssetsInit
  <2> QED BY <2>1, AssetsAssumption
<1>7. cached \in [Browsers -> [Files -> [tag : Tags, content : 0 .. build]]]
  <2> DEFINE Entries == [tag : Tags, content : 0 .. build]
  <2>1. [f \in Files |-> Nothing] \in [Files -> Entries]
    BY <1>3
  <2> HIDE DEF Entries
  <2>2. [b \in Browsers |-> [f \in Files |-> Nothing]] \in [Browsers -> [Files -> Entries]]
    BY <2>1
  <2> QED BY <2>2 DEF AssetsInit, Entries
<1>8. request \in [Browsers -> [pc : {"none", "lookup", "insert", "serve"}, file : Files,
                               match : Tags, tag : Tags]]
  BY <1>2 DEF AssetsInit
<1>9. up \in BOOLEAN
  BY DEF AssetsInit
<1> QED BY <1>4, <1>5, <1>6, <1>7, <1>8, <1>9 DEF AssetsTypeOK

(* Files of smaller bounds are files of larger ones.                       *)
LEMMA FilesGrow ==
  ASSUME NEW m \in Nat, NEW k \in Nat, m <= k,
         NEW x \in [Browsers -> [Files -> [tag : Tags, content : 0 .. m]]]
  PROVE  x \in [Browsers -> [Files -> [tag : Tags, content : 0 .. k]]]
<1>1. 0 .. m \subseteq 0 .. k
  OBVIOUS
<1>2. [tag : Tags, content : 0 .. m] \subseteq [tag : Tags, content : 0 .. k]
  BY <1>1
<1> QED BY <1>2

(* What a browser keeps stays well typed while builds follow each other.   *)
LEMMA AssetsTypedKept == AssetsTypeOK /\ [AssetsNext]_assetsVars => AssetsTypeOK'
<1> SUFFICES ASSUME AssetsTypeOK, [AssetsNext]_assetsVars PROVE AssetsTypeOK'
  OBVIOUS
<1> DEFINE Requests == [pc : {"none", "lookup", "insert", "serve"}, file : Files,
                        match : Tags, tag : Tags]
<1> USE DEF serverVars
<1>0. /\ NoTag \in Tags
      /\ \A f \in Files : <<f, version>> \in Tags
  <2>1. version \in 0 .. MaxClock
    BY AssetsAssumption DEF AssetsTypeOK
  <2> QED BY <2>1 DEF Tags
<1>i. Idle \in Requests /\ Idle.pc = "none"
  BY <1>0, AssetsAssumption DEF Idle
<1>1. CASE Start
  <2>1. cached' \in [Browsers -> [Files -> [tag : Tags, content : 0 .. build']]]
    BY <1>1 DEF Start, AssetsTypeOK
  <2>2. etagCache' \in [Files -> Tags]
    BY <1>0, <1>1 DEF Start
  <2>3. run' \in 0 .. MaxRun /\ version' \in 0 .. clock' /\ up' = TRUE
    BY <1>1, AssetsAssumption DEF Start, AssetsTypeOK
  <2> QED BY <2>1, <2>2, <2>3, <1>1 DEF Start, AssetsTypeOK
<1>2. CASE Down
  BY <1>2, <1>i DEF Down, AssetsTypeOK
<1>3. CASE Deploy
  <2>1. cached' \in [Browsers -> [Files -> [tag : Tags, content : 0 .. build']]]
    <3>1. build \in Nat /\ build' = build + 1 /\ cached' = cached
      BY <1>3, AssetsAssumption DEF Deploy, AssetsTypeOK
    <3> QED BY <3>1, FilesGrow DEF AssetsTypeOK
  <2>2. build' \in 1 .. MaxBuild /\ clock' \in 0 .. MaxClock /\ version' \in 0 .. clock'
    BY <1>3, AssetsAssumption DEF Deploy, AssetsTypeOK
  <2> QED BY <2>1, <2>2, <1>3 DEF Deploy, AssetsTypeOK
<1>4. CASE ClockTicks
  <2>1. clock' \in 0 .. MaxClock /\ version' \in 0 .. clock'
    BY <1>4, AssetsAssumption DEF ClockTicks, AssetsTypeOK
  <2> QED BY <2>1, <1>4 DEF ClockTicks, AssetsTypeOK
<1>5. ASSUME NEW b \in Browsers, Ask(b) PROVE AssetsTypeOK'
  <2>1. PICK f \in Files : \E match \in {NoTag, cached[b][f].tag} :
          request' = [request EXCEPT ![b] = [pc |-> "lookup", file |-> f,
                                             match |-> match, tag |-> NoTag]]
    BY <1>5 DEF Ask
  <2>2. cached[b][f].tag \in Tags
    BY DEF AssetsTypeOK
  <2>3. request' \in [Browsers -> Requests]
    BY <2>1, <2>2, <1>0 DEF AssetsTypeOK
  <2> QED BY <1>5, <2>1, <2>3 DEF Ask, AssetsTypeOK
<1>6. ASSUME NEW b \in Browsers, Lookup(b) PROVE AssetsTypeOK'
  <2> DEFINE tag == etagCache[request[b].file]
  <2>1. tag \in Tags /\ request[b] \in Requests
    BY DEF AssetsTypeOK
  <2>2. [request[b] EXCEPT !.pc = IF tag = NoTag THEN "insert" ELSE "serve", !.tag = tag] \in Requests
    BY <2>1
  <2>3. request' \in [Browsers -> Requests]
    BY <1>6, <2>2, <1>i DEF Lookup, AssetsTypeOK
  <2>4. up BY <1>6 DEF Lookup, AssetsTypeOK
  <2> QED BY <1>6, <2>3, <2>4 DEF Lookup, AssetsTypeOK
<1>7. ASSUME NEW b \in Browsers, Insert(b) PROVE AssetsTypeOK'
  <2> DEFINE f == request[b].file
  <2>1. f \in Files /\ request[b] \in Requests
    BY DEF AssetsTypeOK
  <2>2. Etag(f) \in Tags
    BY <2>1, <1>0 DEF Etag
  <2>3. request' \in [Browsers -> Requests]
    BY <1>7, <2>1, <2>2 DEF Insert, AssetsTypeOK
  <2>4. up BY <1>7 DEF Insert, AssetsTypeOK
  <2> QED BY <1>7, <2>2, <2>3, <2>4 DEF Insert, AssetsTypeOK
<1>8. ASSUME NEW b \in Browsers, Serve(b) PROVE AssetsTypeOK'
  <2> DEFINE new == [tag |-> request[b].tag, content |-> build]
  <2>1. new \in [tag : Tags, content : 0 .. build]
    BY DEF AssetsTypeOK
  <2>2. cached' \in [Browsers -> [Files -> [tag : Tags, content : 0 .. build]]]
    <3> DEFINE Entries == [tag : Tags, content : 0 .. build]
    <3>1. cached \in [Browsers -> [Files -> Entries]] /\ new \in Entries
      BY <2>1 DEF AssetsTypeOK
    <3> HIDE DEF Entries, new
    <3>2. \A f \in Files : [cached EXCEPT ![b][f] = new] \in [Browsers -> [Files -> Entries]]
      BY <3>1
    <3>3. cached' = cached \/ cached' = [cached EXCEPT ![b][request[b].file] = new]
      BY <1>8 DEF Serve, new
    <3>4. request[b].file \in Files
      BY DEF AssetsTypeOK
    <3> QED BY <3>1, <3>2, <3>3, <3>4 DEF Entries
  <2>3. request' \in [Browsers -> Requests]
    BY <1>8, <1>i DEF Serve, AssetsTypeOK
  <2> QED BY <1>8, <2>2, <2>3, <1>i DEF Serve, AssetsTypeOK
<1>9. CASE UNCHANGED assetsVars
  BY <1>9 DEF assetsVars, AssetsTypeOK
<1> QED BY <1>1, <1>2, <1>3, <1>4, <1>5, <1>6, <1>7, <1>8, <1>9 DEF AssetsNext, Stop, Crash, Handle

(* What a browser keeps, a tag, and a request are well typed, whatever is  *)
(* started, stopped, deployed or asked for.                                *)
THEOREM AssetsTypeCorrect == AssetsSpec => []AssetsTypeOK
<1> QED BY AssetsInitTyped, AssetsTypedKept, PTL DEF AssetsSpec

-----------------------------------------------------------------------------
(* What a browser keeps of an older build has an older tag.                *)
OldFilesOldTags ==
  \A b \in Browsers, f \in Files : cached[b][f].tag # NoTag =>
    \E v \in 0 .. clock : /\ cached[b][f].tag = <<f, v>>
                          /\ cached[b][f].content = build \/ v < clock
                          /\ cached[b][f].content = build \/ ~up \/ v < version

(* The tags in use are those of this start.                                *)
TagsOfThisStart ==
  up => \A f \in Files : etagCache[f] \in {NoTag, Etag(f)}

(* A handler has the tag of this start, and was told the browser's tag.    *)
HandlersHaveTags ==
  \A b \in Browsers : request[b].pc # "none" =>
    /\ request[b].match \in {NoTag, cached[b][request[b].file].tag}
    /\ request[b].pc = "serve" => request[b].tag = Etag(request[b].file)

AssetsInv == AssetsTypeOK /\ OldFilesOldTags /\ TagsOfThisStart /\ HandlersHaveTags

LEMMA AssetsInitHolds == AssetsInit => OldFilesOldTags /\ TagsOfThisStart /\ HandlersHaveTags
BY DEF AssetsInit, OldFilesOldTags, TagsOfThisStart, HandlersHaveTags, Nothing, Idle

LEMMA OldTagsKept == AssetsInv /\ [AssetsNext]_assetsVars => OldFilesOldTags'
<1> SUFFICES ASSUME AssetsInv, [AssetsNext]_assetsVars,
                    NEW b \in Browsers, NEW f \in Files, cached'[b][f].tag # NoTag
             PROVE  \E v \in 0 .. clock' :
                      /\ cached'[b][f].tag = <<f, v>>
                      /\ cached'[b][f].content = build' \/ v < clock'
                      /\ cached'[b][f].content = build' \/ ~up' \/ v < version'
  BY DEF OldFilesOldTags
<1> USE DEF serverVars
<1>t. clock \in Nat /\ version \in 0 .. clock /\ build \in Nat
  BY AssetsAssumption DEF AssetsInv, AssetsTypeOK
<1>k. ASSUME cached' = cached
      PROVE  \E v \in 0 .. clock : /\ cached'[b][f].tag = <<f, v>>
                                   /\ cached'[b][f].content = build \/ v < clock
                                   /\ cached'[b][f].content = build \/ ~up \/ v < version
  BY <1>k DEF AssetsInv, OldFilesOldTags
<1>1. CASE Start
  BY <1>1, <1>k, <1>t DEF Start
<1>2. CASE Down
  BY <1>2, <1>k, <1>t DEF Down
<1>3. CASE Deploy
  BY <1>3, <1>k, <1>t DEF Deploy
<1>4. CASE ClockTicks
  BY <1>4, <1>k, <1>t DEF ClockTicks
<1>5. ASSUME NEW a \in Browsers, Ask(a) \/ Lookup(a) \/ Insert(a) \/ UNCHANGED assetsVars
      PROVE  UNCHANGED <<up, build, clock, version, cached>>
  BY <1>5 DEF Ask, Lookup, Insert, assetsVars
<1>6. ASSUME NEW a \in Browsers, Serve(a)
      PROVE  \E v \in 0 .. clock :
               /\ cached'[b][f].tag = <<f, v>>
               /\ cached'[b][f].content = build \/ v < clock
               /\ cached'[b][f].content = build \/ ~up \/ v < version
  <2> DEFINE new == [tag |-> request[a].tag, content |-> build]
  <2>1. CASE cached' = cached
    BY <2>1, <1>k
  <2>2. CASE cached' = [cached EXCEPT ![a][request[a].file] = new]
    <3>1. request[a].file \in Files /\ request[a].tag = Etag(request[a].file)
      BY <1>6 DEF Serve, AssetsInv, AssetsTypeOK, HandlersHaveTags
    <3>2. cached'[b][f] = IF b = a /\ f = request[a].file THEN new ELSE cached[b][f]
      BY <2>2, <3>1 DEF AssetsInv, AssetsTypeOK
    <3>3. CASE b = a /\ f = request[a].file
      <4>1. cached'[b][f].tag = <<f, version>> /\ cached'[b][f].content = build
        BY <3>1, <3>2, <3>3 DEF Etag
      <4> QED BY <4>1, <1>t
    <3>4. CASE ~(b = a /\ f = request[a].file)
      BY <3>2, <3>4 DEF AssetsInv, OldFilesOldTags
    <3> QED BY <3>3, <3>4
  <2> QED BY <1>6, <2>1, <2>2 DEF Serve
<1>7. ASSUME NEW a \in Browsers, Serve(a)
      PROVE  UNCHANGED <<up, build, clock, version>>
  BY <1>7 DEF Serve
<1>8. CASE UNCHANGED assetsVars
  BY <1>8, <1>k DEF assetsVars
<1> QED BY <1>1, <1>2, <1>3, <1>4, <1>5, <1>6, <1>7, <1>8, <1>k DEF AssetsNext, Stop, Crash, Handle

LEMMA TagsKept == AssetsInv /\ [AssetsNext]_assetsVars => TagsOfThisStart'
<1> SUFFICES ASSUME AssetsInv, [AssetsNext]_assetsVars, up', NEW f \in Files
             PROVE  etagCache'[f] \in {NoTag, Etag(f)'}
  BY DEF TagsOfThisStart
<1> USE DEF serverVars, Etag
<1>1. CASE Start
  BY <1>1 DEF Start
<1>2. CASE Deploy
  BY <1>2 DEF Deploy
<1>3. ASSUME NEW a \in Browsers, Insert(a) PROVE etagCache'[f] \in {NoTag, Etag(f)'}
  <2>1. etagCache'[f] \in {etagCache[f], Etag(f)} /\ version' = version /\ up
    BY <1>3 DEF Insert, AssetsInv, AssetsTypeOK
  <2> QED BY <2>1 DEF AssetsInv, TagsOfThisStart
<1>4. CASE UNCHANGED <<up, version, etagCache>>
  BY <1>4 DEF AssetsInv, TagsOfThisStart
<1>5. ASSUME NEW a \in Browsers, Ask(a) \/ Lookup(a) \/ Serve(a)
      PROVE  UNCHANGED <<up, version, etagCache>>
  BY <1>5 DEF Ask, Lookup, Serve
<1>6. ClockTicks \/ UNCHANGED assetsVars => UNCHANGED <<up, version, etagCache>>
  BY DEF ClockTicks, assetsVars
<1>7. ~Down
  BY DEF Down
<1> QED BY <1>1, <1>2, <1>3, <1>4, <1>5, <1>6, <1>7 DEF AssetsNext, Stop, Crash, Handle

LEMMA HandlersKept == AssetsInv /\ [AssetsNext]_assetsVars => HandlersHaveTags'
<1> SUFFICES ASSUME AssetsInv, [AssetsNext]_assetsVars, NEW b \in Browsers, request'[b].pc # "none"
             PROVE  /\ request'[b].match \in {NoTag, cached'[b][request'[b].file].tag}
                    /\ request'[b].pc = "serve" => request'[b].tag = <<request'[b].file, version'>>
  BY DEF HandlersHaveTags, Etag
<1> DEFINE Goal == /\ request'[b].match \in {NoTag, cached'[b][request'[b].file].tag}
                   /\ request'[b].pc = "serve" => request'[b].tag = <<request'[b].file, version'>>
<1> USE DEF serverVars, Etag
<1>1. CASE UNCHANGED <<version, request, cached>>
  BY <1>1 DEF AssetsInv, HandlersHaveTags
<1>2. CASE Start
  BY <1>2 DEF Start, AssetsInv, AssetsTypeOK
<1>3. Deploy \/ ClockTicks \/ UNCHANGED assetsVars => UNCHANGED <<version, request, cached>>
  BY DEF Deploy, ClockTicks, assetsVars
<1>4. ~Down
  BY DEF Down, Idle
<1>5. ASSUME NEW a \in Browsers, Ask(a) PROVE Goal
  <2>1. PICK f \in Files : \E match \in {NoTag, cached[a][f].tag} :
          request' = [request EXCEPT ![a] = [pc |-> "lookup", file |-> f,
                                             match |-> match, tag |-> NoTag]]
    BY <1>5 DEF Ask
  <2>0. PICK match \in {NoTag, cached[a][f].tag} :
          request' = [request EXCEPT ![a] = [pc |-> "lookup", file |-> f,
                                             match |-> match, tag |-> NoTag]]
    BY <2>1
  <2>2. request'[b] = IF b = a THEN [pc |-> "lookup", file |-> f, match |-> match, tag |-> NoTag]
                      ELSE request[b]
    BY <2>0 DEF AssetsInv, AssetsTypeOK
  <2> QED BY <1>5, <2>2 DEF Ask, AssetsInv, HandlersHaveTags
<1>6. ASSUME NEW a \in Browsers, Lookup(a) PROVE Goal
  <2> DEFINE tag == etagCache[request[a].file]
             next == [request[a] EXCEPT !.pc = IF tag = NoTag THEN "insert" ELSE "serve",
                                        !.tag = tag]
  <2>1. request'[b] = IF b = a THEN IF Matches(a, tag) THEN Idle ELSE next ELSE request[b]
    BY <1>6 DEF Lookup, AssetsInv, AssetsTypeOK
  <2>2. version' = version /\ cached' = cached
    BY <1>6 DEF Lookup
  <2>3. CASE b = a
    <3>1. request'[b] = next
      BY <2>1, <2>3 DEF Idle
    <3>2. /\ next.file = request[a].file /\ next.match = request[a].match /\ next.tag = tag
          /\ next.pc = IF tag = NoTag THEN "insert" ELSE "serve"
      BY DEF AssetsInv, AssetsTypeOK
    <3>3. up /\ request[a].pc # "none" /\ request[a].file \in Files
      BY <1>6 DEF Lookup, AssetsInv, AssetsTypeOK
    <3>4. tag \in {NoTag, Etag(request[a].file)}
      BY <3>3 DEF AssetsInv, TagsOfThisStart
    <3> QED BY <3>1, <3>2, <3>3, <3>4, <2>2, <2>3 DEF AssetsInv, HandlersHaveTags
  <2>4. CASE b # a
    BY <2>1, <2>2, <2>4 DEF AssetsInv, HandlersHaveTags
  <2> QED BY <2>3, <2>4
<1>7. ASSUME NEW a \in Browsers, Insert(a) PROVE Goal
  <2> DEFINE next == [request[a] EXCEPT !.pc = "serve", !.tag = Etag(request[a].file)]
  <2>1. request' = [request EXCEPT ![a] = next]
    BY <1>7 DEF Insert, AssetsInv, AssetsTypeOK
  <2>2. request'[b] = IF b = a THEN next ELSE request[b]
    BY <2>1 DEF AssetsInv, AssetsTypeOK
  <2>3. /\ next.file = request[a].file /\ next.match = request[a].match
        /\ next.tag = Etag(request[a].file)
    BY DEF AssetsInv, AssetsTypeOK
  <2>4. version' = version /\ cached' = cached /\ request[a].pc # "none"
    BY <1>7 DEF Insert
  <2> QED BY <2>2, <2>3, <2>4 DEF AssetsInv, HandlersHaveTags
<1>8. ASSUME NEW a \in Browsers, Serve(a) PROVE Goal
  <2>1. request'[b] = IF b = a THEN Idle ELSE request[b]
    BY <1>8 DEF Serve, AssetsInv, AssetsTypeOK
  <2>2. b # a /\ request'[b] = request[b]
    BY <2>1 DEF Idle
  <2>3. cached'[b] = cached[b] /\ version' = version
    BY <1>8, <2>2 DEF Serve, AssetsInv, AssetsTypeOK
  <2> QED BY <2>2, <2>3 DEF AssetsInv, HandlersHaveTags
<1> QED BY <1>1, <1>2, <1>3, <1>4, <1>5, <1>6, <1>7, <1>8 DEF AssetsNext, Stop, Crash, Handle

(* The four parts together.                                                *)
THEOREM AssetsInvariant == AssetsSpec => []AssetsInv
<1>1. AssetsInit => AssetsInv
  BY AssetsInitTyped, AssetsInitHolds DEF AssetsInv
<1>2. AssetsInv /\ [AssetsNext]_assetsVars => AssetsInv'
  BY AssetsTypedKept, OldTagsKept, TagsKept, HandlersKept DEF AssetsInv
<1> QED BY <1>1, <1>2, PTL DEF AssetsSpec

(* A browser that is told "not modified" has the file of the build that    *)
(* runs: the tag it named is of this start, so its file is, too.           *)
THEOREM NotModifiedTrue == AssetsSpec => NotModifiedIsTrue
<1> DEFINE True == \A b \in Browsers :
             NotModified(b) => cached[b][request[b].file].content = build
<1>1. AssetsInv /\ [AssetsNext]_assetsVars => [True]_assetsVars
  <2> SUFFICES ASSUME AssetsInv, [AssetsNext]_assetsVars, NEW b \in Browsers, NotModified(b)
               PROVE  cached[b][request[b].file].content = build
    OBVIOUS
  <2> DEFINE f == request[b].file
  <2>1. f \in Files /\ up
    BY DEF NotModified, AssetsInv, AssetsTypeOK
  <2>2. request[b].match = cached[b][f].tag /\ request[b].match # NoTag
    BY DEF NotModified, AssetsInv, HandlersHaveTags
  <2>3. ASSUME request[b].match = Etag(f) PROVE cached[b][f].content = build
    <3>1. PICK v \in 0 .. clock : /\ cached[b][f].tag = <<f, v>>
                                  /\ cached[b][f].content = build \/ ~up \/ v < version
      BY <2>1, <2>2 DEF AssetsInv, OldFilesOldTags
    <3>2. v = version
      <4>1. cached[b][f].tag = <<f, v>>
        BY <3>1
      <4>2. request[b].match = <<f, version>>
        BY <2>3 DEF Etag
      <4>3. <<f, v>> = <<f, version>>
        BY <4>1, <4>2, <2>2, Zenon
      <4> QED BY <4>3
    <3>3. version \in Nat
      BY AssetsAssumption DEF AssetsInv, AssetsTypeOK
    <3> QED BY <3>1, <3>2, <3>3, <2>1
  <2>4. ASSUME NEW a \in Browsers, Lookup(a) PROVE cached[b][f].content = build
    <3> DEFINE tag == etagCache[request[a].file]
               next == [request[a] EXCEPT !.pc = IF tag = NoTag THEN "insert" ELSE "serve",
                                          !.tag = tag]
    <3>1. request'[b] = IF b = a THEN IF Matches(a, tag) THEN Idle ELSE next ELSE request[b]
      BY <2>4 DEF Lookup, AssetsInv, AssetsTypeOK
    <3>2. next.pc # "none"
      BY DEF AssetsInv, AssetsTypeOK
    <3>3. b = a /\ Matches(b, etagCache[f])
      BY <3>1, <3>2 DEF NotModified
    <3>4. request[b].match = Etag(f)
      BY <3>3, <2>1 DEF Matches, AssetsInv, TagsOfThisStart
    <3> QED BY <3>4, <2>3
  <2>5. ASSUME NEW a \in Browsers, Serve(a) PROVE cached[b][f].content = build
    <3>1. request'[b] = IF b = a THEN Idle ELSE request[b]
      BY <2>5 DEF Serve, AssetsInv, AssetsTypeOK
    <3>2. b = a
      BY <3>1 DEF NotModified
    <3>3. CASE Matches(b, request[b].tag)
      <4>1. request[b].match = Etag(f)
        BY <2>5, <3>2, <3>3 DEF Matches, Serve, AssetsInv, HandlersHaveTags
      <4> QED BY <4>1, <2>3
    <3>4. CASE ~Matches(b, request[b].tag)
      <4> DEFINE new == [tag |-> request[b].tag, content |-> build]
      <4>1. cached' = [cached EXCEPT ![b][f] = new]
        BY <2>5, <3>2, <3>4 DEF Serve
      <4>2. cached'[b][f] = new
        BY <4>1, <2>1 DEF AssetsInv, AssetsTypeOK
      <4> QED BY <4>2 DEF NotModified
    <3> QED BY <3>3, <3>4
  <2>6. ASSUME NEW a \in Browsers, Ask(a) \/ Insert(a) PROVE FALSE
    <3>1. CASE Ask(a)
      BY <3>1 DEF Ask, NotModified, AssetsInv, AssetsTypeOK
    <3>2. CASE Insert(a)
      <4> DEFINE next == [request[a] EXCEPT !.pc = "serve", !.tag = Etag(request[a].file)]
      <4>1. request' = [request EXCEPT ![a] = next]
        BY <3>2 DEF Insert, AssetsInv, AssetsTypeOK
      <4>2. request'[b] = IF b = a THEN next ELSE request[b]
        BY <4>1 DEF AssetsInv, AssetsTypeOK
      <4>3. next.pc = "serve"
        BY DEF AssetsInv, AssetsTypeOK
      <4> QED BY <4>2, <4>3 DEF NotModified
    <3> QED BY <2>6, <3>1, <3>2
  <2>7. ~(Start \/ Deploy \/ ClockTicks \/ Down \/ UNCHANGED assetsVars)
    BY <2>1 DEF Start, Deploy, ClockTicks, Down, assetsVars, NotModified
  <2> QED BY <2>4, <2>5, <2>6, <2>7 DEF AssetsNext, Stop, Crash, Handle
<1> QED BY <1>1, AssetsInvariant, PTL DEF AssetsSpec, NotModifiedIsTrue

-----------------------------------------------------------------------------
(* What the ADC reads in mV or in steps, and what sixteen bits hold.       *)
MaxRaw == 4095
Voltages == 0 .. MaxRaw
Words == 0 .. UINT16_MAX

(* Types, with the Boolean-valued variables apart.                         *)
Payloads == [PayloadFields -> Nat]

SampleValues ==
  /\ pc \in {"init", "unit", "channel", "read", "deinit", "ended"}
  /\ packetCounter \in 0 .. SEND_PACKET /\ analogVolts \in Nat
  /\ payload \in Payloads /\ sent \in Seq(Payloads) /\ Len(sent) = packetCounter
  /\ payload["voltage"] \in Words
  /\ raws \subseteq Raws /\ failures \subseteq Calls

Switches ==
  /\ heap \in BOOLEAN /\ unit \in BOOLEAN /\ cali \in BOOLEAN /\ do_calibration \in BOOLEAN

(* What has been sent is in the packet still, or something newer is.       *)
FieldsInv ==
  /\ \A f \in SensorFields : payload[f] <= packetCounter
  /\ \A i \in DOMAIN sent, f \in SensorFields :
       /\ sent[i][f] <= i /\ sent[i][f] <= payload[f]
       /\ i > 1 => sent[i][f] >= sent[i - 1][f]

(* The sum is at most that many of the highest reading, and at least that  *)
(* many of the lowest as long as there was one for each packet.            *)
Extremes(low, high) ==
  /\ low \in raws /\ high \in raws
  /\ \A r \in raws : low <= r /\ r <= high

VoltSum ==
  \/ raws = {} /\ analogVolts = 0 /\ ("read" \notin failures => packetCounter = 0)
  \/ \E low, high \in raws :
       /\ Extremes(low, high)
       /\ analogVolts <= packetCounter * BatAdcRead(high)
       /\ "read" \notin failures => analogVolts >= packetCounter * BatAdcRead(low)

(* What is sent is the garbage or such a mean.                             *)
Within(v) ==
  /\ v # Garbage =>
       \E high \in raws : (\A r \in raws : r <= high) /\ v <= Divided(BatAdcRead(high))
  /\ "read" \notin failures =>
       \E low \in raws : (\A r \in raws : low <= r) /\ v >= Divided(BatAdcRead(low))

VoltsInv ==
  /\ payload["voltage"] # Garbage \/ packetCounter > 0 => Within(payload["voltage"])
  /\ \A i \in DOMAIN sent : Within(sent[i]["voltage"])

(* Who holds what while the task is where.                                 *)
HeldInv ==
  /\ pc = "init" => ~heap
  /\ pc \in {"init", "unit"} => ~unit
  /\ pc \in {"init", "unit", "channel"} => ~cali /\ sent = <<>> /\ raws = {} /\ analogVolts = 0
                                           /\ packetCounter = 0
  /\ HeldOnlyAfterFailure

SamplingInv == SampleValues /\ Switches /\ FieldsInv /\ VoltSum /\ VoltsInv /\ HeldInv

-----------------------------------------------------------------------------
(* Larger readings stand for larger voltages, and none is too large for the*)
(* sixteen bits of the packet.                                             *)
LEMMA DivMono ==
  ASSUME NEW a \in Nat, NEW b \in Nat, NEW k \in Nat, k > 0, a <= b
  PROVE  a \div k <= b \div k
<1>1. a = k * (a \div k) + (a % k) /\ a % k \in 0 .. k - 1 /\ a \div k \in Nat
  OBVIOUS
<1> DEFINE q == a \div k
           r == a % k
<1> HIDE DEF q, r
<1>2. q \in Nat /\ r \in Nat /\ a = k * q + r
  BY <1>1 DEF q, r
<1>3. b >= k * q
  <2>1. k * q \in Nat
    BY <1>2
  <2> QED BY <1>2, <2>1
<1>4. b \div k >= q
  BY <1>2, <1>3, DivLow
<1> QED BY <1>4 DEF q

LEMMA VoltagesAreNat ==
  Voltages \subseteq Nat
<1>1. MaxRaw \in Nat
  BY DEF MaxRaw
<1> QED BY <1>1 DEF Voltages

LEMMA LowerVoltages ==
  ASSUME NEW a \in Nat, NEW b \in Voltages, a <= b
  PROVE  a \in Voltages
<1>1. MaxRaw \in Nat
  BY DEF MaxRaw
<1> QED BY <1>1 DEF Voltages

LEMMA ReadMono ==
  ASSUME NEW a \in Voltages, NEW b \in Voltages, a <= b
  PROVE  /\ BatAdcRead(a) \in Voltages /\ BatAdcRead(b) \in Voltages
         /\ BatAdcRead(a) <= BatAdcRead(b)
<1>1. CASE ~do_calibration
  BY <1>1 DEF BatAdcRead
<1>2. CASE do_calibration
  <2>1. BatAdcRead(a) = (a * 4) \div 5 /\ BatAdcRead(b) = (b * 4) \div 5
    BY <1>2 DEF BatAdcRead, RawToVoltage
  <2>2. (a * 4) \div 5 <= (b * 4) \div 5
    <3>1. a * 4 \in Nat /\ b * 4 \in Nat /\ a * 4 <= b * 4
      BY DEF Voltages, MaxRaw
    <3> QED BY <3>1, DivMono
  <2>3. (a * 4) \div 5 \in Voltages /\ (b * 4) \div 5 \in Voltages
    <3>1. ASSUME NEW v \in Voltages PROVE (v * 4) \div 5 \in Voltages
      <4>1. v \in Nat /\ v * 4 \in Nat /\ v * 4 <= 5 * v /\ (v * 4) \div 5 \in Nat
        BY VoltagesAreNat
      <4>2. (v * 4) \div 5 <= v
        BY <4>1, DivHigh
      <4> QED BY <4>1, <4>2, LowerVoltages
    <3> QED BY <3>1
  <2> QED BY <2>1, <2>2, <2>3
<1> QED BY <1>1, <1>2

LEMMA ReadIsVoltage ==
  \A a \in Voltages : BatAdcRead(a) \in Voltages /\ BatAdcRead(a) \in Nat
<1> SUFFICES ASSUME NEW a \in Voltages PROVE BatAdcRead(a) \in Voltages /\ BatAdcRead(a) \in Nat
  OBVIOUS
<1>1. a \in Nat /\ a <= a
  BY VoltagesAreNat
<1>2. BatAdcRead(a) \in Voltages
  BY <1>1, ReadMono
<1> QED BY <1>2, VoltagesAreNat

LEMMA DividedIs ==
  ASSUME NEW v \in Voltages
  PROVE  /\ Divided(v) = (v * 1667) \div 1000
         /\ Divided(v) \in Words
<1> DEFINE q == (v * 1667) \div 1000
<1>1. v * 1667 \in Nat /\ v * 1667 <= 1000 * UINT16_MAX
  BY DEF Voltages, MaxRaw, UINT16_MAX
<1>2. q \in Nat
  BY <1>1
<1>3. UINT16_MAX \in Nat
  BY DEF UINT16_MAX
<1>4. q <= UINT16_MAX
  BY <1>1, <1>3, DivHigh
<1>5. Divided(v) = q % (UINT16_MAX + 1)
  BY DEF Divided
<1> HIDE DEF q
<1>6. q % (UINT16_MAX + 1) = q
  BY <1>2, <1>3, <1>4
<1>7. q \in Words
  BY <1>2, <1>3, <1>4 DEF Words
<1>8. Divided(v) = q /\ Divided(v) \in Words
  BY <1>5, <1>6, <1>7
<1> QED BY <1>8 DEF q

LEMMA WordsAreNat ==
  Words \subseteq Nat
<1>1. UINT16_MAX \in Nat
  BY DEF UINT16_MAX
<1> QED BY <1>1 DEF Words

LEMMA DividedMono ==
  ASSUME NEW a \in Voltages, NEW b \in Voltages, a <= b
  PROVE  Divided(a) <= Divided(b)
<1>1. a * 1667 \in Nat /\ b * 1667 \in Nat /\ a * 1667 <= b * 1667
  BY DEF Voltages, MaxRaw
<1>2. (a * 1667) \div 1000 <= (b * 1667) \div 1000
  BY <1>1, DivMono
<1> QED BY <1>2, DividedIs

(* Another reading, or another failure, takes nothing from what was said.  *)
LEMMA WithinGrows ==
  ASSUME SampleValues, NEW v \in Nat, Within(v),
         raws' = raws \/ \E raw \in Raws : raws' = raws \cup {raw},
         failures \subseteq failures', do_calibration' = do_calibration
  PROVE  Within(v)'
<1> DEFINE D(a) == Divided(BatAdcRead(a))
<1>0. raws \subseteq Voltages /\ Raws \subseteq Voltages /\ Voltages \subseteq Nat
  <2>1. raws \subseteq Raws
    BY DEF SampleValues
  <2>2. Raws \subseteq Voltages
    BY SamplingAssumption DEF Voltages, MaxRaw
  <2>3. Voltages \subseteq Nat
    BY DEF Voltages, MaxRaw
  <2> QED BY <2>1, <2>2, <2>3
<1>1. \A a, b \in Voltages : a <= b => D(a) <= D(b) /\ D(a) \in Nat /\ D(b) \in Nat
  <2>1. SUFFICES ASSUME NEW a \in Voltages, NEW b \in Voltages, a <= b
                 PROVE  D(a) <= D(b) /\ D(a) \in Nat /\ D(b) \in Nat
    OBVIOUS
  <2>2. BatAdcRead(a) \in Voltages /\ BatAdcRead(b) \in Voltages /\ BatAdcRead(a) <= BatAdcRead(b)
    BY <2>1, ReadMono
  <2>3. D(a) \in Words /\ D(b) \in Words
    BY <2>2, DividedIs
  <2>n. Words \subseteq Nat
    BY WordsAreNat
  <2>4. D(a) <= D(b)
    BY <2>2, DividedMono
  <2> HIDE DEF D
  <2> QED BY <2>3, <2>4, <2>n
<1>2. ASSUME NEW a \in Nat PROVE Divided(BatAdcRead(a))' = D(a)
  BY DEF BatAdcRead, Divided
<1>3. Within(v)' <=>
        /\ v # Garbage => \E high \in raws' : (\A r \in raws' : r <= high) /\ v <= D(high)
        /\ "read" \notin failures' => \E low \in raws' : (\A r \in raws' : low <= r) /\ v >= D(low)
  BY <1>2 DEF Within, BatAdcRead, Divided
<1>4. CASE raws' = raws
  BY <1>3, <1>4 DEF Within
<1>5. CASE \E raw \in Raws : raws' = raws \cup {raw}
  <2>1. PICK raw \in Raws : raws' = raws \cup {raw}
    BY <1>5
  <2>2. raw \in Voltages
    BY <1>0
  <2>3. ASSUME v # Garbage
        PROVE  \E high \in raws' : (\A r \in raws' : r <= high) /\ v <= D(high)
    <3>1. PICK high \in raws : (\A r \in raws : r <= high) /\ v <= D(high)
      BY <2>3 DEF Within
    <3>2. CASE raw <= high
      BY <2>1, <3>1, <3>2
    <3>3. CASE high <= raw
      <4>1. D(high) <= D(raw) /\ D(high) \in Nat /\ D(raw) \in Nat
        BY <1>0, <1>1, <2>2, <3>3
      <4>2. \A r \in raws' : r <= raw
        BY <1>0, <2>1, <2>2, <3>1, <3>3
      <4> HIDE DEF D
      <4>3. v <= D(raw)
        BY <3>1, <4>1
      <4> QED BY <2>1, <4>2, <4>3
    <3> QED BY <1>0, <2>2, <3>2, <3>3
  <2>4. ASSUME "read" \notin failures'
        PROVE  \E low \in raws' : (\A r \in raws' : low <= r) /\ v >= D(low)
    <3>1. PICK low \in raws : (\A r \in raws : low <= r) /\ v >= D(low)
      BY <2>4 DEF Within
    <3>2. CASE low <= raw
      BY <2>1, <3>1, <3>2
    <3>3. CASE raw <= low
      <4>1. D(raw) <= D(low) /\ D(low) \in Nat /\ D(raw) \in Nat
        BY <1>0, <1>1, <2>2, <3>3
      <4>2. \A r \in raws' : raw <= r
        BY <1>0, <2>1, <2>2, <3>1, <3>3
      <4> HIDE DEF D
      <4>3. v >= D(raw)
        BY <3>1, <4>1
      <4> QED BY <2>1, <4>2, <4>3
    <3> QED BY <1>0, <2>2, <3>2, <3>3
  <2> QED BY <1>3, <2>3, <2>4
<1> QED BY <1>4, <1>5

-----------------------------------------------------------------------------
LEMMA InitHolds == SamplingInit => SamplingInv
<1> SUFFICES ASSUME SamplingInit PROVE SamplingInv
  OBVIOUS
<1> USE DEF SamplingInit
<1>1. SampleValues
  <2>1. Garbage \in Words /\ Garbage \in Nat
    BY SamplingAssumption, WordsAreNat DEF Words
  <2>2. payload \in Payloads /\ payload["voltage"] = Garbage
    BY <2>1 DEF Payloads, PayloadFields
  <2>3. sent \in Seq(Payloads) /\ Len(sent) = 0 /\ 0 \in 0 .. SEND_PACKET
    BY SamplingAssumption
  <2> QED BY <2>1, <2>2, <2>3 DEF SampleValues
<1>2. Switches
  BY DEF Switches
<1>3. FieldsInv
  <2>1. \A f \in SensorFields : payload[f] = 0
    BY DEF SensorFields, PayloadFields
  <2>2. DOMAIN sent = {}
    OBVIOUS
  <2> QED BY <2>1, <2>2 DEF FieldsInv
<1>4. VoltSum
  BY DEF VoltSum
<1>5. VoltsInv
  <2>1. payload["voltage"] = Garbage /\ ~(packetCounter > 0)
    BY DEF PayloadFields
  <2>2. DOMAIN sent = {}
    OBVIOUS
  <2> QED BY <2>1, <2>2 DEF VoltsInv
<1>6. HeldInv
  BY DEF HeldInv, HeldOnlyAfterFailure
<1> QED BY <1>1, <1>2, <1>3, <1>4, <1>5, <1>6 DEF SamplingInv

(* Readings, sums and packets stay true when only the resources change.    *)
LEMMA Unread ==
  ASSUME SampleValues, FieldsInv, VoltSum, VoltsInv,
         UNCHANGED <<do_calibration, packetCounter, analogVolts, payload, sent, raws>>,
         failures \subseteq failures', "read" \in failures' => "read" \in failures
  PROVE  FieldsInv' /\ VoltSum' /\ VoltsInv'
<1>1. FieldsInv'
  BY DEF FieldsInv
<1>2. \A a \in raws : BatAdcRead(a)' = BatAdcRead(a) /\ Divided(BatAdcRead(a))' = Divided(BatAdcRead(a))
  BY DEF BatAdcRead, Divided
<1>3. VoltSum'
  BY <1>2 DEF VoltSum, Extremes
<1>4. ASSUME NEW v PROVE Within(v)' <=> Within(v)
  BY <1>2 DEF Within
<1>5. VoltsInv'
  BY <1>4 DEF VoltsInv
<1> QED BY <1>1, <1>3, <1>5

(* A round of the loop: the packet it sends, whatever the voltage.         *)
LEMMA RoundKeeps ==
  ASSUME SampleValues, FieldsInv, packetCounter < SEND_PACKET,
         NEW ok \in SUBSET SensorFields, NEW voltage \in Words, Round(FieldsRead(ok), voltage)
  PROVE  /\ packetCounter' = packetCounter + 1 /\ packetCounter' \in 0 .. SEND_PACKET
         /\ payload' \in Payloads /\ payload'["voltage"] = voltage
         /\ sent' \in Seq(Payloads) /\ Len(sent') = packetCounter'
         /\ DOMAIN sent' = DOMAIN sent \cup {packetCounter'}
         /\ \A i \in DOMAIN sent : sent'[i] = sent[i]
         /\ sent'[packetCounter'] = payload'
         /\ FieldsInv'
<1>1. packetCounter \in Nat /\ SEND_PACKET \in Nat
  BY SamplingAssumption DEF SampleValues
<1>2. packetCounter' = packetCounter + 1 /\ packetCounter' \in 0 .. SEND_PACKET
  BY <1>1 DEF Round
<1>3. \A f \in SensorFields : payload'[f] = FieldsRead(ok)[f]
  BY DEF Round, PayloadFields, SensorFields
<1>4. payload \in Payloads /\ \A f \in SensorFields : payload[f] \in Nat /\ payload[f] <= packetCounter
  BY DEF SampleValues, FieldsInv, Payloads, PayloadFields
<1>5. ASSUME NEW f \in SensorFields
      PROVE  payload'[f] \in Nat /\ payload'[f] <= packetCounter + 1 /\ payload[f] <= payload'[f]
  <2>1. payload'[f] = packetCounter + 1 \/ payload'[f] = payload[f]
    BY <1>3 DEF FieldsRead
  <2> QED BY <1>1, <1>4, <2>1
<1>6. payload'["voltage"] = voltage /\ voltage \in Nat
  BY WordsAreNat DEF Round, PayloadFields
<1>7. payload' \in Payloads
  <2>1. payload' = [f \in PayloadFields |-> IF f = "voltage" THEN voltage ELSE FieldsRead(ok)[f]]
    BY DEF Round
  <2>2. ASSUME NEW f \in PayloadFields PROVE payload'[f] \in Nat
    BY <1>5, <1>6 DEF PayloadFields
  <2>3. DOMAIN payload' = PayloadFields /\ payload' = [f \in PayloadFields |-> payload'[f]]
    BY <2>1
  <2> QED BY <2>2, <2>3 DEF Payloads
<1>8. /\ sent' \in Seq(Payloads) /\ Len(sent') = packetCounter'
      /\ DOMAIN sent' = DOMAIN sent \cup {packetCounter'}
      /\ \A i \in DOMAIN sent : sent'[i] = sent[i]
      /\ sent'[packetCounter'] = payload'
  <2>1. sent \in Seq(Payloads) /\ Len(sent) = packetCounter /\ sent' = Append(sent, payload')
    BY DEF SampleValues, Round
  <2>2. /\ sent' \in Seq(Payloads) /\ Len(sent') = Len(sent) + 1
        /\ \A i \in 1 .. Len(sent) : sent'[i] = sent[i]
        /\ sent'[Len(sent) + 1] = payload'
    BY <1>7, <2>1, AppendProperties
  <2>3. DOMAIN sent = 1 .. packetCounter /\ DOMAIN sent' = 1 .. packetCounter + 1
    BY <1>1, <2>1, <2>2
  <2> QED BY <1>1, <1>2, <2>1, <2>2, <2>3
<1>9. FieldsInv'
  <2>1. \A f \in SensorFields : payload'[f] <= packetCounter'
    BY <1>2, <1>5
  <2>2. ASSUME NEW i \in DOMAIN sent', NEW f \in SensorFields
        PROVE  /\ sent'[i][f] <= i /\ sent'[i][f] <= payload'[f]
               /\ i > 1 => sent'[i][f] >= sent'[i - 1][f]
    <3>0. DOMAIN sent = 1 .. packetCounter
      BY <1>1 DEF SampleValues
    <3>1. CASE i \in DOMAIN sent
      <4>1. sent'[i] = sent[i] /\ sent[i] \in Payloads /\ sent[i][f] \in Nat /\ i \in Nat
        BY <1>8, <3>0, <3>1 DEF SampleValues, Payloads, PayloadFields
      <4>2. i > 1 => i - 1 \in DOMAIN sent /\ sent'[i - 1] = sent[i - 1]
        BY <1>1, <1>8, <3>0, <3>1
      <4>3. sent[i][f] <= i /\ sent[i][f] <= payload[f] /\ (i > 1 => sent[i][f] >= sent[i - 1][f])
        BY <3>1 DEF FieldsInv
      <4>4. payload[f] \in Nat /\ payload'[f] \in Nat /\ payload[f] <= payload'[f]
        BY <1>4, <1>5
      <4> QED BY <4>1, <4>2, <4>3, <4>4
    <3>2. CASE i = packetCounter + 1
      <4>1. sent'[i] = payload'
        BY <1>2, <1>8, <3>2
      <4>2. ASSUME i > 1 PROVE sent'[i - 1][f] <= payload[f] /\ sent'[i - 1][f] \in Nat
        <5>1. i - 1 = packetCounter /\ packetCounter \in DOMAIN sent
          BY <1>1, <3>0, <3>2, <4>2
        <5>2. sent'[i - 1] = sent[i - 1] /\ sent[i - 1] \in Payloads
          BY <1>8, <5>1 DEF SampleValues
        <5>3. sent[i - 1][f] \in Nat
          BY <5>2 DEF Payloads, PayloadFields
        <5> QED BY <5>1, <5>2, <5>3 DEF FieldsInv
      <4>3. payload[f] \in Nat /\ payload'[f] \in Nat /\ payload[f] <= payload'[f]
            /\ payload'[f] <= packetCounter + 1
        BY <1>4, <1>5
      <4> QED BY <3>2, <4>1, <4>2, <4>3
    <3> QED BY <1>2, <1>8, <3>1, <3>2
  <2> QED BY <2>1, <2>2 DEF FieldsInv
<1> QED BY <1>2, <1>6, <1>7, <1>8, <1>9

(* What the ADC returned: the sum and the mean of one reading more.        *)
LEMMA ReadingsAre ==
  SampleValues => /\ raws \subseteq Voltages /\ Raws \subseteq Voltages /\ Voltages \subseteq Nat
            /\ packetCounter \in Nat /\ analogVolts \in Nat
<1>1. Raws \subseteq Voltages
  BY SamplingAssumption, SMT DEF Voltages, MaxRaw
<1>2. Voltages \subseteq Nat
  BY DEF Voltages, MaxRaw
<1>3. SEND_PACKET \in Nat
  BY SamplingAssumption
<1> QED BY <1>1, <1>2, <1>3 DEF SampleValues

LEMMA SumGrows ==
  ASSUME SampleValues, VoltSum, NEW raw \in Raws,
         raws' = raws \cup {raw}, analogVolts' = analogVolts + BatAdcRead(raw)
  PROVE  \E low, high \in raws' :
           /\ Extremes(low, high)'
           /\ analogVolts' <= (packetCounter + 1) * BatAdcRead(high)
           /\ "read" \notin failures => analogVolts' >= (packetCounter + 1) * BatAdcRead(low)
<1> DEFINE B(a) == BatAdcRead(a)
           n == packetCounter
<1>1. raw \in Voltages /\ raws \subseteq Voltages /\ Voltages \subseteq Nat
  BY ReadingsAre
<1>2. n \in Nat /\ analogVolts \in Nat
  BY ReadingsAre
<1>3. \A a, b \in Voltages : a <= b => B(a) <= B(b)
  BY ReadMono
<1>4. \A a \in Voltages : B(a) \in Nat
  BY ReadIsVoltage
<1>5. analogVolts' = analogVolts + B(raw)
  OBVIOUS
<1> HIDE DEF B, n
<1>6. ASSUME NEW b \in Nat PROVE (n + 1) * b = n * b + b /\ n * b \in Nat /\ (n + 1) * b \in Nat
  BY <1>2
<1>7. SUFFICES \E low, high \in raws' :
                 /\ \A r \in raws' : low <= r /\ r <= high
                 /\ analogVolts' <= (n + 1) * B(high)
                 /\ "read" \notin failures => analogVolts' >= (n + 1) * B(low)
  BY DEF Extremes, B, n
<1>8. CASE raws = {} /\ analogVolts = 0 /\ ("read" \notin failures => n = 0)
  <2>1. raws' = {raw} /\ analogVolts' = B(raw) /\ B(raw) \in Nat
    BY <1>1, <1>4, <1>5, <1>8
  <2>2. B(raw) <= (n + 1) * B(raw)
    BY <1>6, <2>1
  <2>3. n = 0 => (n + 1) * B(raw) = B(raw)
    BY <2>1
  <2>4. \A r \in raws' : raw <= r /\ r <= raw
    BY <1>1, <2>1
  <2>5. "read" \notin failures => analogVolts' >= (n + 1) * B(raw)
    BY <1>8, <2>1, <2>3
  <2> QED BY <2>1, <2>2, <2>4, <2>5
<1>9. ASSUME NEW low \in raws, NEW high \in raws, Extremes(low, high),
             analogVolts <= n * B(high),
             "read" \notin failures => analogVolts >= n * B(low)
      PROVE  \E l, h \in raws' :
                 /\ \A r \in raws' : l <= r /\ r <= h
                 /\ analogVolts' <= (n + 1) * B(h)
                 /\ "read" \notin failures => analogVolts' >= (n + 1) * B(l)
  <2> DEFINE l == IF raw <= low THEN raw ELSE low
             h == IF raw <= high THEN high ELSE raw
  <2>1. \A r \in raws : low <= r /\ r <= high
    BY <1>9 DEF Extremes
  <2>2. /\ l \in raws' /\ h \in raws' /\ l <= raw /\ raw <= h /\ l <= low /\ high <= h
        /\ l \in Voltages /\ h \in Voltages
    BY <1>1
  <2> HIDE DEF l, h
  <2>3. \A r \in raws' : l <= r /\ r <= h
    <3> SUFFICES ASSUME NEW r \in raws' PROVE l <= r /\ r <= h
      OBVIOUS
    <3>1. r = raw \/ r \in raws
      OBVIOUS
    <3> QED BY <1>1, <2>1, <2>2, <3>1
  <2>4. /\ B(raw) \in Nat /\ B(l) \in Nat /\ B(h) \in Nat /\ B(low) \in Nat /\ B(high) \in Nat
        /\ B(raw) <= B(h) /\ B(high) <= B(h) /\ B(l) <= B(raw) /\ B(l) <= B(low)
    BY <1>1, <1>3, <1>4, <2>2
  <2>5. n * B(high) <= n * B(h) /\ n * B(l) <= n * B(low)
    BY <1>2, <2>4, MulMono
  <2>6. analogVolts' <= (n + 1) * B(h)
    <3>1. (n + 1) * B(h) = n * B(h) + B(h) /\ n * B(h) \in Nat /\ n * B(high) \in Nat
      BY <1>6, <2>4
    <3> QED BY <1>2, <1>5, <1>9, <2>4, <2>5, <3>1
  <2>7. ASSUME "read" \notin failures PROVE analogVolts' >= (n + 1) * B(l)
    <3>1. (n + 1) * B(l) = n * B(l) + B(l) /\ n * B(l) \in Nat /\ n * B(low) \in Nat
      BY <1>6, <2>4
    <3>2. analogVolts >= n * B(low)
      BY <1>9, <2>7
    <3> QED BY <1>2, <1>5, <2>4, <2>5, <3>1, <3>2
  <2> QED BY <2>2, <2>3, <2>6, <2>7
<1> QED BY <1>8, <1>9 DEF VoltSum, B, n

(* The voltage of such a packet lies where the readings lie.               *)
LEMMA MeanWithin ==
  ASSUME SampleValues, VoltSum, NEW raw \in Raws, raws' = raws \cup {raw},
         analogVolts' = analogVolts + BatAdcRead(raw),
         UNCHANGED <<failures, do_calibration>>
  PROVE  \A w : w = Divided(Mean(analogVolts')) => w \in Words /\ Within(w)'
<1> DEFINE k == packetCounter + 1
           m == analogVolts' \div k
           v == Divided(m)
<1>1. PICK low \in raws', high \in raws' :
        /\ Extremes(low, high)'
        /\ analogVolts' <= k * BatAdcRead(high)
        /\ "read" \notin failures => analogVolts' >= k * BatAdcRead(low)
  BY SumGrows
<1>2. low \in Voltages /\ high \in Voltages /\ raw \in Voltages
      /\ \A r \in raws' : low <= r /\ r <= high
  BY <1>1, ReadingsAre DEF Extremes
<1>3. Voltages \subseteq Nat /\ k \in Nat /\ k > 0
  BY ReadingsAre
<1>4. \A a \in Voltages : BatAdcRead(a) \in Voltages
  BY ReadIsVoltage
<1>5. analogVolts' \in Nat
  <2>1. BatAdcRead(raw) \in Nat /\ analogVolts \in Nat
    BY <1>2, <1>3, <1>4, ReadingsAre
  <2> QED BY <2>1
<1>x. BatAdcRead(high) \in Nat /\ BatAdcRead(high) \in Voltages
      /\ BatAdcRead(low) \in Nat /\ BatAdcRead(low) \in Voltages
  BY <1>2, <1>3, <1>4
<1>6. m \in Nat /\ m <= BatAdcRead(high)
  <2>1. m \in Nat
    BY <1>3, <1>5
  <2>2. m <= BatAdcRead(high)
    BY <1>1, <1>3, <1>5, <1>x, DivHigh
  <2> QED BY <2>1, <2>2
<1>7. "read" \notin failures => m >= BatAdcRead(low)
  BY <1>1, <1>3, <1>5, <1>x, DivLow
<1> HIDE DEF m, k
<1>8. m \in Voltages
  BY <1>6, <1>x, LowerVoltages
<1>9. v \in Words /\ v \in Nat /\ v <= Divided(BatAdcRead(high))
  <2>1. v \in Words
    BY <1>8, DividedIs
  <2>2. v <= Divided(BatAdcRead(high))
    BY <1>6, <1>8, <1>x, DividedMono
  <2> HIDE DEF v
  <2> QED BY <2>1, <2>2, WordsAreNat
<1>10. "read" \notin failures => v >= Divided(BatAdcRead(low))
  <2> SUFFICES ASSUME "read" \notin failures PROVE v >= Divided(BatAdcRead(low))
    OBVIOUS
  <2>1. Divided(BatAdcRead(low)) <= v
    BY <1>7, <1>8, <1>x, DividedMono
  <2>2. Divided(BatAdcRead(low)) \in Nat /\ v \in Nat
    <3>1. Divided(BatAdcRead(low)) \in Words
      BY <1>x, DividedIs
    <3> HIDE DEF v
    <3> QED BY <1>9, <3>1, WordsAreNat
  <2> HIDE DEF v
  <2> QED BY <2>1, <2>2
<1>11. \A a \in Voltages : Divided(BatAdcRead(a))' = Divided(BatAdcRead(a))
  BY DEF BatAdcRead, Divided
<1> HIDE DEF v
<1>12. ASSUME NEW w, w = v PROVE Within(w)'
  <2>1. /\ w <= Divided(BatAdcRead(high))'
        /\ "read" \notin failures' => w >= Divided(BatAdcRead(low))'
    BY <1>2, <1>9, <1>10, <1>11, <1>12
  <2> QED BY <1>2, <2>1 DEF Within
<1>13. v = Divided(Mean(analogVolts'))
  BY DEF v, m, k, Mean
<1> QED BY <1>9, <1>12, <1>13

-----------------------------------------------------------------------------
(* What the sensor task does keeps the invariant.                          *)
LEMMA AllocateKeeps == SamplingInv /\ Allocate => SamplingInv'
<1> SUFFICES ASSUME SamplingInv, Allocate PROVE SamplingInv'
  OBVIOUS
<1> USE DEF SamplingInv
<1>1. SampleValues'
  BY DEF SampleValues, Allocate, Fails, Goes, Calls
<1>2. Switches'
  BY DEF Switches, Allocate
<1>3. FieldsInv' /\ VoltSum' /\ VoltsInv'
  <2>1. failures \subseteq failures' /\ ("read" \in failures' => "read" \in failures)
    BY DEF Allocate, Fails, Goes
  <2> QED BY <2>1, Unread DEF Allocate
<1>4. HeldInv'
  BY DEF HeldInv, HeldOnlyAfterFailure, Allocate, Fails, Goes
<1> QED BY <1>1, <1>2, <1>3, <1>4

LEMMA NewUnitKeeps == SamplingInv /\ NewUnit => SamplingInv'
<1> SUFFICES ASSUME SamplingInv, NewUnit PROVE SamplingInv'
  OBVIOUS
<1> USE DEF SamplingInv
<1>1. SampleValues'
  BY DEF SampleValues, NewUnit, Fails, Goes, Calls
<1>2. Switches'
  BY DEF Switches, NewUnit
<1>3. FieldsInv' /\ VoltSum' /\ VoltsInv'
  <2>1. failures \subseteq failures' /\ ("read" \in failures' => "read" \in failures)
    BY DEF NewUnit, Fails, Goes
  <2> QED BY <2>1, Unread DEF NewUnit
<1>4. HeldInv'
  BY DEF HeldInv, HeldOnlyAfterFailure, NewUnit, Fails, Goes
<1> QED BY <1>1, <1>2, <1>3, <1>4

LEMMA ConfigChannelKeeps == SamplingInv /\ ConfigChannel => SamplingInv'
<1> SUFFICES ASSUME SamplingInv, ConfigChannel PROVE SamplingInv'
  OBVIOUS
<1> USE DEF SamplingInv
<1>0. sent = <<>> /\ raws = {} /\ analogVolts = 0 /\ packetCounter = 0 /\ ~cali
  BY DEF ConfigChannel, HeldInv
<1>1. SampleValues'
  BY DEF SampleValues, ConfigChannel, Fails, Goes, Calls
<1>2. Switches'
  BY SamplingAssumption DEF Switches, ConfigChannel
<1>3. FieldsInv'
  BY DEF FieldsInv, ConfigChannel
<1>4. VoltSum'
  BY <1>0 DEF VoltSum, ConfigChannel
<1>5. VoltsInv'
  <2>1. payload["voltage"] = Garbage
    BY <1>0 DEF VoltsInv, Within
  <2>2. DOMAIN sent = {} /\ ~(packetCounter > 0)
    BY <1>0
  <2> QED BY <2>1, <2>2 DEF VoltsInv, ConfigChannel
<1>6. HeldInv'
  BY <1>0 DEF HeldInv, HeldOnlyAfterFailure, ConfigChannel, Fails, Goes
<1> QED BY <1>1, <1>2, <1>3, <1>4, <1>5, <1>6

LEMMA SampleKeeps == SamplingInv /\ Sample => SamplingInv'
<1> SUFFICES ASSUME SamplingInv, Sample PROVE SamplingInv'
  OBVIOUS
<1> USE DEF SamplingInv
<1>1. PICK ok \in SUBSET SensorFields :
        \/ /\ Round(FieldsRead(ok), payload.voltage) /\ Fails("read", "read")
           /\ UNCHANGED <<analogVolts, raws>>
        \/ \E raw \in Raws :
             /\ analogVolts' = analogVolts + BatAdcRead(raw) /\ raws' = raws \cup {raw}
             /\ Round(FieldsRead(ok), Divided(Mean(analogVolts')))
             /\ Goes("read")
  BY DEF Sample
<1>2. /\ packetCounter < SEND_PACKET /\ packetCounter \in Nat
      /\ UNCHANGED <<heap, unit, cali, do_calibration>>
      /\ Voltages \subseteq Nat
  BY ReadingsAre DEF Sample, MoreRounds, adc
<1>3. pc' = "read"
  BY <1>1 DEF Fails, Goes
<1>4. Switches'
  BY <1>2 DEF Switches
<1>5. HeldInv'
  BY <1>3 DEF HeldInv, HeldOnlyAfterFailure
<1>6. ASSUME NEW voltage \in Words, Round(FieldsRead(ok), voltage),
             raws' \subseteq Raws, failures' \subseteq Calls, analogVolts' \in Nat,
             raws' = raws \/ \E raw \in Raws : raws' = raws \cup {raw},
             failures \subseteq failures', VoltSum', Within(voltage)'
      PROVE  SamplingInv'
  <2>1. /\ packetCounter' = packetCounter + 1 /\ packetCounter' \in 0 .. SEND_PACKET
        /\ payload' \in Payloads /\ payload'["voltage"] = voltage
        /\ sent' \in Seq(Payloads) /\ Len(sent') = packetCounter'
        /\ DOMAIN sent' = DOMAIN sent \cup {packetCounter'}
        /\ \A i \in DOMAIN sent : sent'[i] = sent[i]
        /\ sent'[packetCounter'] = payload'
        /\ FieldsInv'
    BY <1>2, <1>6, RoundKeeps
  <2>2. SampleValues'
    BY <1>3, <1>6, <2>1 DEF SampleValues
  <2>3. VoltsInv'
    <3>1. Within(payload["voltage"])'
      BY <1>6, <2>1 DEF Within
    <3>2. ASSUME NEW i \in DOMAIN sent' PROVE Within(sent[i]["voltage"])'
      <4>1. CASE i \in DOMAIN sent
        <5>1. sent'[i]["voltage"] = sent[i]["voltage"] /\ Within(sent[i]["voltage"])
          BY <2>1, <4>1 DEF VoltsInv
        <5>2. sent[i]["voltage"] \in Nat
          BY <4>1 DEF SampleValues, Payloads, PayloadFields
        <5>3. PICK w \in Nat : w = sent[i]["voltage"]
          BY <5>2
        <5>4. Within(w)'
          BY <1>2, <1>6, <5>1, <5>3, WithinGrows
        <5>5. sent'[i]["voltage"] = w
          BY <5>1, <5>3
        <5> QED BY <5>4, <5>5 DEF Within
      <4>2. CASE i = packetCounter'
        <5>1. sent'[i]["voltage"] = voltage
          BY <2>1, <4>2
        <5> QED BY <1>6, <5>1 DEF Within
      <4> QED BY <2>1, <4>1, <4>2
    <3> QED BY <3>1, <3>2 DEF VoltsInv
  <2> QED BY <1>4, <1>5, <1>6, <2>1, <2>2, <2>3
<1>7. CASE Round(FieldsRead(ok), payload.voltage) /\ Fails("read", "read")
           /\ UNCHANGED <<analogVolts, raws>>
  <2>1. PICK w \in Words : w = payload["voltage"]
    BY DEF SampleValues
  <2>2. failures' = failures \cup {"read"} /\ failures' \subseteq Calls
    BY <1>7 DEF Fails, SampleValues, Calls
  <2>3. packetCounter' = packetCounter + 1
    BY <1>7 DEF Round
  <2>4. ASSUME NEW a PROVE BatAdcRead(a)' = BatAdcRead(a)
    BY <1>2 DEF BatAdcRead
  <2>5. VoltSum'
    <3>1. CASE raws = {} /\ analogVolts = 0
      BY <1>7, <2>2, <3>1 DEF VoltSum
    <3>2. ASSUME NEW low \in raws, NEW high \in raws, Extremes(low, high),
                 analogVolts <= packetCounter * BatAdcRead(high)
          PROVE  VoltSum'
      <4>1. BatAdcRead(high) \in Nat /\ analogVolts \in Nat
        <5>1. high \in Voltages /\ analogVolts \in Nat
          BY ReadingsAre
        <5> QED BY <5>1, ReadIsVoltage
      <4> DEFINE b == BatAdcRead(high)
      <4> HIDE DEF b
      <4>2. b \in Nat /\ analogVolts <= packetCounter * b
        BY <3>2, <4>1 DEF b
      <4>3. (packetCounter + 1) * b = packetCounter * b + b /\ packetCounter * b \in Nat
        BY <1>2, <4>2
      <4>4. analogVolts <= (packetCounter + 1) * b
        BY <1>2, <4>1, <4>2, <4>3
      <4>5. analogVolts' <= packetCounter' * BatAdcRead(high)'
        BY <1>7, <2>3, <2>4, <4>4 DEF b
      <4>6. Extremes(low, high)'
        BY <1>7, <3>2 DEF Extremes
      <4> QED BY <1>7, <2>2, <4>5, <4>6 DEF VoltSum
    <3> QED BY <3>1, <3>2 DEF VoltSum
  <2>6. Within(w)'
    <3>1. CASE w = Garbage
      BY <2>2, <3>1 DEF Within
    <3>2. CASE w # Garbage
      <4>1. Within(payload["voltage"])
        BY <2>1, <3>2 DEF VoltsInv
      <4>2. Within(w) /\ w \in Nat
        BY <2>1, <4>1, WordsAreNat
      <4> QED BY <1>2, <1>7, <2>2, <4>2, WithinGrows
    <3> QED BY <3>1, <3>2
  <2>7. Round(FieldsRead(ok), w)
    BY <1>7, <2>1
  <2>8. raws' \subseteq Raws /\ analogVolts' \in Nat
    BY <1>7 DEF SampleValues
  <2> QED BY <1>6, <1>7, <2>1, <2>2, <2>5, <2>6, <2>7, <2>8
<1>8. ASSUME NEW raw \in Raws,
             analogVolts' = analogVolts + BatAdcRead(raw), raws' = raws \cup {raw},
             Round(FieldsRead(ok), Divided(Mean(analogVolts'))), Goes("read")
      PROVE  SamplingInv'
  <2>1. UNCHANGED <<failures, do_calibration>>
    BY <1>2, <1>8 DEF Goes
  <2>2. PICK w : w = Divided(Mean(analogVolts'))
    OBVIOUS
  <2>3. w \in Words /\ Within(w)'
    BY <1>8, <2>1, <2>2, MeanWithin
  <2>4. analogVolts' \in Nat
    <3>1. raw \in Voltages /\ analogVolts \in Nat
      BY ReadingsAre
    <3>2. BatAdcRead(raw) \in Nat
      BY <3>1, ReadIsVoltage
    <3> QED BY <1>8, <3>1, <3>2
  <2>5. VoltSum'
    <3>1. PICK low \in raws', high \in raws' :
            /\ Extremes(low, high)'
            /\ analogVolts' <= (packetCounter + 1) * BatAdcRead(high)
            /\ "read" \notin failures => analogVolts' >= (packetCounter + 1) * BatAdcRead(low)
      BY <1>8, SumGrows
    <3>2. packetCounter' = packetCounter + 1
      BY <1>8 DEF Round
    <3>3. ASSUME NEW a PROVE BatAdcRead(a)' = BatAdcRead(a)
      BY <1>2 DEF BatAdcRead
    <3> QED BY <2>1, <3>1, <3>2, <3>3 DEF VoltSum
  <2>6. raws' \subseteq Raws /\ failures' \subseteq Calls /\ failures \subseteq failures'
    BY <1>8, <2>1 DEF SampleValues
  <2>7. Round(FieldsRead(ok), w)
    BY <1>8, <2>2
  <2> QED BY <1>6, <1>8, <2>3, <2>4, <2>5, <2>6, <2>7
<1> QED BY <1>1, <1>7, <1>8

LEMMA AllSampledKeeps == SamplingInv /\ AllSampled => SamplingInv'
<1> SUFFICES ASSUME SamplingInv, AllSampled PROVE SamplingInv'
  OBVIOUS
<1> USE DEF SamplingInv
<1>1. SampleValues'
  BY DEF SampleValues, AllSampled, Goes
<1>2. Switches'
  BY DEF Switches, AllSampled, adc
<1>3. FieldsInv' /\ VoltSum' /\ VoltsInv'
  BY Unread DEF AllSampled, Goes, adc
<1>4. HeldInv'
  BY DEF HeldInv, HeldOnlyAfterFailure, AllSampled, Goes
<1> QED BY <1>1, <1>2, <1>3, <1>4

LEMMA DeinitKeeps == SamplingInv /\ Deinit => SamplingInv'
<1> SUFFICES ASSUME SamplingInv, Deinit PROVE SamplingInv'
  OBVIOUS
<1> USE DEF SamplingInv
<1>1. PICK errors \in SUBSET {"delete_cali", "delete_unit"} :
        /\ cali' = (cali /\ "delete_cali" \in errors)
        /\ unit' = (unit /\ "delete_unit" \in errors)
        /\ failures' = failures \cup errors
  BY DEF Deinit
<1>2. SampleValues'
  BY <1>1 DEF SampleValues, Deinit, Calls
<1>3. Switches'
  BY <1>1 DEF Switches, Deinit
<1>4. FieldsInv' /\ VoltSum' /\ VoltsInv'
  <2>1. failures \subseteq failures' /\ ("read" \in failures' => "read" \in failures)
    BY <1>1
  <2> QED BY <2>1, Unread DEF Deinit
<1>5. HeldInv'
  BY <1>1 DEF HeldInv, HeldOnlyAfterFailure, Deinit
<1> QED BY <1>2, <1>3, <1>4, <1>5

(* The invariant holds, for any packets and any readings.                  *)
THEOREM SamplingInvariant == SamplingSpec => []SamplingInv
<1>1. SamplingInv /\ [SamplingNext]_samplingVars => SamplingInv'
  <2>1. ASSUME SamplingInv, UNCHANGED samplingVars PROVE SamplingInv'
    <3> USE <2>1 DEF SamplingInv, samplingVars, adc
    <3>1. SampleValues'
      BY DEF SampleValues
    <3>2. Switches'
      BY DEF Switches
    <3>3. FieldsInv' /\ VoltSum' /\ VoltsInv'
      BY Unread
    <3>4. HeldInv'
      BY DEF HeldInv, HeldOnlyAfterFailure
    <3> QED BY <3>1, <3>2, <3>3, <3>4
  <2> QED BY <2>1, AllocateKeeps, NewUnitKeeps, ConfigChannelKeeps, SampleKeeps, AllSampledKeeps,
             DeinitKeeps DEF SamplingNext
<1> QED BY <1>1, InitHolds, PTL DEF SamplingSpec

(* The task's variables keep their types: no voltage needs more than the   *)
(* sixteen bits of its field (bat_adc.c:38-60).                            *)
THEOREM SamplingTypeCorrect == SamplingSpec => []SamplingTypeOK
<1>1. SamplingInv => SamplingTypeOK
  <2> SUFFICES ASSUME SamplingInv PROVE SamplingTypeOK
    OBVIOUS
  <2>1. Switches /\ SampleValues /\ FieldsInv
    BY DEF SamplingInv
  <2>2. payload.voltage \in 0 .. UINT16_MAX
    BY <2>1 DEF SampleValues, Words
  <2>3. ASSUME NEW f \in SensorFields PROVE payload[f] \in 0 .. SEND_PACKET
    <3>1. payload[f] \in Nat
      BY <2>1 DEF SampleValues, Payloads, PayloadFields
    <3> QED BY <2>1, <3>1, SamplingAssumption DEF SampleValues, FieldsInv
  <2>4. heap \in BOOLEAN /\ unit \in BOOLEAN /\ cali \in BOOLEAN /\ do_calibration \in BOOLEAN
    BY <2>1 DEF Switches
  <2> HIDE DEF UINT16_MAX
  <2>5. /\ pc \in {"init", "unit", "channel", "read", "deinit", "ended"}
        /\ packetCounter \in 0 .. SEND_PACKET /\ analogVolts \in Nat
        /\ Len(sent) = packetCounter /\ raws \subseteq Raws /\ failures \subseteq Calls
    BY <2>1 DEF SampleValues
  <2> QED BY <2>2, <2>3, <2>4, <2>5 DEF SamplingTypeOK
<1> QED BY <1>1, SamplingInvariant, PTL

(* What is sent is what was last read, or near to it: no field goes back,  *)
(* and every voltage lies between the extreme readings (main.c:180-202).   *)
THEOREM SamplesTrue == SamplingSpec => []SamplesAreTrue
<1>1. SamplingInv => SamplesAreTrue
  <2> SUFFICES ASSUME SamplingInv PROVE SamplesAreTrue
    OBVIOUS
  <2> USE DEF SamplingInv
  <2>1. FieldsNeverGoBack
    BY DEF FieldsNeverGoBack, FieldsInv
  <2>2. ASSUME NEW i \in DOMAIN sent
        PROVE  /\ "read" \notin failures =>
                    sent[i].voltage >= Divided(BatAdcRead(Min(raws)))
               /\ raws # {} /\ sent[i].voltage # Garbage =>
                    sent[i].voltage <= Divided(BatAdcRead(Max(raws)))
    <3>1. Within(sent[i]["voltage"])
      BY DEF VoltsInv
    <3>2. raws \in SUBSET Nat
      BY ReadingsAre
    <3>3. ASSUME "read" \notin failures
          PROVE  sent[i].voltage >= Divided(BatAdcRead(Min(raws)))
      <4>1. PICK low \in raws :
              (\A r \in raws : low <= r) /\ sent[i].voltage >= Divided(BatAdcRead(low))
        BY <3>1, <3>3 DEF Within
      <4>2. PICK high \in raws : \A r \in raws : r <= high
        BY <4>1 DEF VoltSum, Extremes
      <4>3. Min(raws) = low
        BY <3>2, <4>1, <4>2, MinMaxAre
      <4> QED BY <4>1, <4>3
    <3>4. ASSUME raws # {}, sent[i].voltage # Garbage
          PROVE  sent[i].voltage <= Divided(BatAdcRead(Max(raws)))
      <4>1. PICK high \in raws :
              (\A r \in raws : r <= high) /\ sent[i].voltage <= Divided(BatAdcRead(high))
        BY <3>1, <3>4 DEF Within
      <4>2. PICK low \in raws : \A r \in raws : low <= r
        BY <3>4 DEF VoltSum, Extremes
      <4>3. Max(raws) = high
        BY <3>2, <4>1, <4>2, MinMaxAre
      <4> QED BY <4>1, <4>3
    <3> QED BY <3>3, <3>4
  <2> QED BY <2>1, <2>2 DEF SamplesAreTrue, VoltageInRange
<1> QED BY <1>1, SamplingInvariant, PTL

(* What the task holds when it ends, it holds because of a call that failed*)
(* (bat_adc.c:100-145).                                                    *)
THEOREM HeldTrue == SamplingSpec => []HeldOnlyAfterFailure
<1>1. SamplingInv => HeldOnlyAfterFailure
  BY DEF SamplingInv, HeldInv
<1> QED BY <1>1, SamplingInvariant, PTL

-----------------------------------------------------------------------------
(* Low and high byte make up the word again, and the three bytes of the    *)
(* pressure.                                                               *)
LEMMA WordOfBytes ==
  ASSUME NEW n \in Nat, n < 65536
  PROVE  Low(n) + 256 * High(n) = n
<1>1. n = 256 * (n \div 256) + (n % 256) /\ n \div 256 \in Nat
  BY SMT
<1>2. n \div 256 < 256
  BY <1>1, SMT
<1>3. (n \div 256) % 256 = n \div 256
  BY <1>1, <1>2, SMT
<1> QED BY <1>1, <1>3, SMT DEF Low, High

LEMMA PressureOfBytes ==
  ASSUME NEW n \in Nat, n < 16777216
  PROVE  65536 * (n \div 65536) + 256 * High(n) + Low(n) = n
<1> DEFINE q == n \div 256
<1>1. n = 256 * q + (n % 256) /\ q \in Nat
  BY SMT
<1>2. n \div 65536 = q \div 256
  BY SMT
<1>3. High(n) = q % 256 /\ Low(n) = n % 256
  BY SMT DEF High, Low, SMT
<1> HIDE DEF q
<1>4. q = 256 * (q \div 256) + (q % 256) /\ q \div 256 \in Nat /\ q % 256 \in Nat
  BY <1>1, SMT
<1> QED BY <1>1, <1>2, <1>3, <1>4, SMT

LEMMA SignedOfWord ==
  ASSUME NEW t \in Int, t >= -32768, t < 32768
  PROVE  t % 65536 \in Nat /\ t % 65536 < 65536 /\ Signed(t % 65536) = t
<1>1. t >= 0 => t % 65536 = t
  BY SMT
<1>2. t < 0 => t % 65536 = t + 65536
  BY SMT
<1> QED BY <1>1, <1>2, SMT DEF Signed

(* The nine bytes of a payload.                                            *)
LEMMA PayloadIs ==
  ASSUME NEW r
  PROVE  Payload(r) =
           <<Low(r.temperature % 65536), High(r.temperature % 65536), Low(r.humidity),
             High(r.humidity), r.pressure \div 65536, High(r.pressure), Low(r.pressure),
             Low(r.voltage), High(r.voltage)>>
BY SMT DEF Payload, pack_pressure

LEMMA RoundTrip ==
  ASSUME NEW r, Representable(r)
  PROVE  Fields(Payload(r)) = r
<1>1. /\ r \in [temperature : Int, humidity : Nat, pressure : Nat, voltage : Nat]
      /\ r.temperature \in Int /\ r.humidity \in Nat /\ r.pressure \in Nat /\ r.voltage \in Nat
      /\ r.temperature >= -32768 /\ r.temperature < 32768
      /\ r.humidity < 65536 /\ r.pressure < 16777216 /\ r.voltage < 65536
  BY SMT DEF Representable
<1>2. /\ Uint16(Payload(r), 1) = Low(r.temperature % 65536) + 256 * High(r.temperature % 65536)
      /\ Uint16(Payload(r), 3) = Low(r.humidity) + 256 * High(r.humidity)
      /\ unpack_pressure(Payload(r), 5) =
           65536 * (r.pressure \div 65536) + 256 * High(r.pressure) + Low(r.pressure)
      /\ Uint16(Payload(r), 8) = Low(r.voltage) + 256 * High(r.voltage)
  BY PayloadIs, SMT DEF Uint16, unpack_pressure
<1>3. r.temperature % 65536 \in Nat /\ r.temperature % 65536 < 65536
      /\ Signed(r.temperature % 65536) = r.temperature
  BY <1>1, SignedOfWord, SMT
<1>4. /\ Uint16(Payload(r), 1) = r.temperature % 65536 /\ Uint16(Payload(r), 3) = r.humidity
      /\ unpack_pressure(Payload(r), 5) = r.pressure /\ Uint16(Payload(r), 8) = r.voltage
  BY <1>1, <1>2, <1>3, WordOfBytes, PressureOfBytes, SMT
<1>5. Fields(Payload(r)) = [temperature |-> r.temperature, humidity |-> r.humidity,
                            pressure |-> r.pressure, voltage |-> r.voltage]
  BY <1>3, <1>4, SMT DEF Fields
<1> QED BY <1>1, <1>5, SMT

(* What is put between a head and a tail is found there again.             *)
LEMMA FrameParts ==
  ASSUME NEW S, NEW h \in Seq(S), NEW p \in Seq(S), NEW c \in Seq(S), NEW f, f = h \o p \o c,
         h # <<>>, p # <<>>, c # <<>>
  PROVE  /\ Len(f) = Len(h) + Len(p) + Len(c) /\ f \in Seq(S)
         /\ f[1] = h[1]
         /\ SubSeq(f, Len(h) + 1, Len(h) + Len(p)) = p
         /\ SubSeq(f, Len(h) + Len(p) + 1, Len(h) + Len(p) + Len(c)) = c
<1> DEFINE t == h \o p
<1>1. Len(h) \in Nat \ {0} /\ Len(p) \in Nat \ {0} /\ Len(c) \in Nat \ {0}
  OBVIOUS
<1>2. /\ t \in Seq(S) /\ Len(t) = Len(h) + Len(p)
      /\ \A i \in 1 .. Len(h) + Len(p) : t[i] = IF i <= Len(h) THEN h[i] ELSE p[i - Len(h)]
  BY ConcatProperties
<1>3. SubSeq(t, Len(h) + 1, Len(h) + Len(p)) = p
  <2>1. SubSeq(t, Len(h) + 1, Len(h) + Len(p)) =
          SubSeq(p, Len(h) + 1 - Len(h), Len(h) + Len(p) - Len(h))
    BY <1>1, SubSeqOfConcat2
  <2>2. Len(h) + 1 - Len(h) = 1 /\ Len(h) + Len(p) - Len(h) = Len(p)
    BY <1>1
  <2> QED BY <2>1, <2>2, SubSeqFull
<1>4. f = t \o c
  OBVIOUS
<1> HIDE DEF t
<1>5. /\ f \in Seq(S) /\ Len(f) = Len(t) + Len(c)
      /\ \A i \in 1 .. Len(t) + Len(c) : f[i] = IF i <= Len(t) THEN t[i] ELSE c[i - Len(t)]
  <2>1. t \in Seq(S)
    BY <1>2
  <2>2. /\ t \o c \in Seq(S) /\ Len(t \o c) = Len(t) + Len(c)
        /\ \A i \in 1 .. Len(t) + Len(c) :
             (t \o c)[i] = IF i <= Len(t) THEN t[i] ELSE c[i - Len(t)]
    BY ONLY <2>1, ConcatProperties
  <2> QED BY ONLY <1>4, <2>2
<1>6. f[1] = h[1]
  BY <1>1, <1>2, <1>5
<1>7. SubSeq(f, Len(h) + 1, Len(h) + Len(p)) = p
  <2>1. Len(h) + 1 \in 1 .. Len(t) /\ Len(h) + Len(p) \in 1 .. Len(t)
    BY <1>1, <1>2
  <2> QED BY <1>2, <1>3, <1>4, <2>1, SubSeqOfConcat1
<1>8. SubSeq(f, Len(h) + Len(p) + 1, Len(h) + Len(p) + Len(c)) = c
  <2>1. SubSeq(f, Len(t) + 1, Len(t) + Len(c)) =
          SubSeq(c, Len(t) + 1 - Len(t), Len(t) + Len(c) - Len(t))
    BY <1>1, <1>2, <1>4, SubSeqOfConcat2
  <2>2. Len(t) + 1 - Len(t) = 1 /\ Len(t) + Len(c) - Len(t) = Len(c)
    BY <1>1, <1>2
  <2> QED BY <1>2, <2>1, <2>2, SubSeqFull
<1> QED BY <1>2, <1>5, <1>6, <1>7, <1>8

(* A frame gives back the payload that was put into it, and its CRC fits.  *)
LEMMA FramedChecks ==
  ASSUME NEW r
  PROVE  /\ Framed(Payload(r)) # <<>>
         /\ Checked(Framed(Payload(r)))
         /\ PayloadOf(Framed(Payload(r))) = Payload(r)
<1> DEFINE p == Payload(r)
           c == CrcBytes(crc16LE(p))
           h == <<START_FLAG>>
           f == Framed(p)
<1>1. PICK p1, p2, p3, p4, p5, p6, p7, p8, p9 : p = <<p1, p2, p3, p4, p5, p6, p7, p8, p9>>
  BY PayloadIs
<1>2. PICK a, b : c = <<a, b>>
  BY DEF CrcBytes
<1> DEFINE S == {START_FLAG, p1, p2, p3, p4, p5, p6, p7, p8, p9, a, b}
<1>3. f = h \o p \o c
  BY DEF Framed
<1> HIDE DEF p, c, f
<1>4. p \in Seq(S) /\ Len(p) = 9 /\ p # <<>>
  BY <1>1
<1>5. c \in Seq(S) /\ Len(c) = 2 /\ c # <<>>
  BY <1>2
<1>6. h \in Seq(S) /\ Len(h) = 1 /\ h # <<>> /\ h[1] = START_FLAG
  OBVIOUS
<1> HIDE DEF h, S
<1>7. /\ Len(f) = Len(h) + Len(p) + Len(c) /\ f \in Seq(S)
      /\ f[1] = h[1]
      /\ SubSeq(f, Len(h) + 1, Len(h) + Len(p)) = p
      /\ SubSeq(f, Len(h) + Len(p) + 1, Len(h) + Len(p) + Len(c)) = c
  <2>1. h # <<>> /\ p # <<>> /\ c # <<>> /\ h \in Seq(S) /\ p \in Seq(S) /\ c \in Seq(S)
    BY <1>4, <1>5, <1>6
  <2> QED BY ONLY <1>3, <2>1, FrameParts
<1>8. /\ Len(h) + 1 = 2 /\ Len(h) + Len(p) = 10 /\ Len(h) + Len(p) + 1 = 11
      /\ Len(h) + Len(p) + Len(c) = 12
  BY <1>4, <1>5, <1>6
<1>9. Len(f) = 12 /\ f[1] = START_FLAG /\ SubSeq(f, 2, 10) = p /\ SubSeq(f, 11, 12) = c
  BY <1>6, <1>7, <1>8
<1>10. f # <<>>
  BY <1>9
<1>11. PayloadOf(f) = p
  BY <1>9 DEF PayloadOf, PayloadSize
<1>12. Checked(f)
  BY <1>9, <1>11 DEF Checked, PayloadSize, FrameSize, c
<1> QED BY <1>10, <1>11, <1>12 DEF p, f

-----------------------------------------------------------------------------
LEMMA XorMember == ASSUME NEW a, NEW b, NEW x PROVE x \in Xor(a, b) <=> ((x \in a) # (x \in b))
  BY DEF Xor

(* A shift on a register, or on a register and the bits that are still to  *)
(* come, which are the ones above it.                                      *)
LEMMA ShiftMember ==
  ASSUME NEW a \in SUBSET Nat, NEW i
  PROVE  i \in Shift(a) <=>
           i \in Nat /\ ((i + 1 \in a) # (0 \in a /\ i \in {15, 10, 3}))
<1> DEFINE s == {j - 1 : j \in a \ {0}}
<1>1. i \in s <=> i \in Nat /\ i + 1 \in a
  <2>1. ASSUME i \in s PROVE i \in Nat /\ i + 1 \in a
    <3>1. PICK j \in a \ {0} : i = j - 1
      BY <2>1
    <3> QED BY <3>1
  <2>2. ASSUME i \in Nat, i + 1 \in a PROVE i \in s
    <3>1. i + 1 \in a \ {0} /\ i = (i + 1) - 1
      BY <2>2
    <3> QED BY <3>1
  <2> QED BY <2>1, <2>2
<1>2. Shift(a) = IF 0 \in a THEN Xor(s, {15, 10, 3}) ELSE s
  BY DEF Shift, Polynomial
<1>3. 15 \in Nat /\ 10 \in Nat /\ 3 \in Nat
  OBVIOUS
<1> HIDE DEF s
<1>4. CASE 0 \in a
  BY <1>1, <1>2, <1>3, <1>4, XorMember
<1>5. CASE 0 \notin a
  BY <1>1, <1>2, <1>5
<1> QED BY <1>4, <1>5

LEMMA ShiftIsLinear ==
  ASSUME NEW a \in SUBSET Nat, NEW b \in SUBSET Nat
  PROVE  Xor(a, b) \in SUBSET Nat /\ Shift(Xor(a, b)) = Xor(Shift(a), Shift(b))
<1>1. Xor(a, b) \in SUBSET Nat
  BY DEF Xor
<1>2. ASSUME NEW i PROVE i \in Shift(Xor(a, b)) <=> i \in Xor(Shift(a), Shift(b))
  <2>1. i \in Shift(Xor(a, b)) <=>
          i \in Nat /\ ((i + 1 \in Xor(a, b)) # (0 \in Xor(a, b) /\ i \in {15, 10, 3}))
    BY <1>1, ShiftMember
  <2>2. i \in Shift(a) <=> i \in Nat /\ ((i + 1 \in a) # (0 \in a /\ i \in {15, 10, 3}))
    BY ShiftMember
  <2>3. i \in Shift(b) <=> i \in Nat /\ ((i + 1 \in b) # (0 \in b /\ i \in {15, 10, 3}))
    BY ShiftMember
  <2>4. (i + 1 \in Xor(a, b) <=> ((i + 1 \in a) # (i + 1 \in b)))
        /\ (0 \in Xor(a, b) <=> ((0 \in a) # (0 \in b)))
        /\ (i \in Xor(Shift(a), Shift(b)) <=> ((i \in Shift(a)) # (i \in Shift(b))))
    BY XorMember
  <2> QED BY <2>1, <2>2, <2>3, <2>4
<1> QED BY <1>1, <1>2

(* What is above a register only comes down.                               *)
LEMMA ShiftOfAhead ==
  ASSUME NEW a \in SUBSET Nat, 0 \notin a
  PROVE  Shift(a) = {i \in Nat : i + 1 \in a}
<1>1. ASSUME NEW i PROVE i \in Shift(a) <=> i \in Nat /\ i + 1 \in a
  BY ShiftMember
<1> QED BY <1>1

LEMMA ShiftOfRegister ==
  ASSUME NEW a \in SUBSET (0 .. 15)
  PROVE  Shift(a) \in SUBSET (0 .. 15) /\ (a # {} => Shift(a) # {})
<1>0. a \in SUBSET Nat
  OBVIOUS
<1>1. ASSUME NEW i \in Shift(a) PROVE i \in 0 .. 15
  <2>1. i \in Nat /\ (i + 1 \in a \/ i \in {15, 10, 3})
    BY <1>0, ShiftMember
  <2> QED BY <2>1
<1>2. ASSUME a # {} PROVE Shift(a) # {}
  <2>1. CASE 0 \in a
    <3>1. 15 \in Nat /\ 15 + 1 \notin a
      OBVIOUS
    <3>2. 15 \in Shift(a)
      BY <1>0, <2>1, <3>1, ShiftMember
    <3> QED BY <3>2
  <2>2. CASE 0 \notin a
    <3>1. \E j \in a : j \in Nat /\ j # 0
      <4>1. PICK j : j \in a
        BY <1>2
      <4> QED BY <1>0, <2>2, <4>1
    <3>1a. PICK j \in a : j \in Nat /\ j # 0
      BY <3>1
    <3>2. j - 1 \in Nat /\ (j - 1) + 1 = j
      BY <3>1a
    <3>3. j - 1 \in Shift(a)
      BY <1>0, <2>2, <3>2, ShiftMember
    <3> QED BY <3>3
  <2> QED BY <2>1, <2>2
<1> QED BY <1>1, <1>2

(* A burst of at most sixteen bits, wherever it starts, never vanishes in  *)
(* the register: a pattern that does has a bit at 0 and one at 16.         *)
LEMMA BurstsStay ==
  ASSUME NEW m \in Nat, NEW y, y[0] # {}, NEW first \in Nat, y[0] \subseteq first .. first + 15,
         \A k \in 1 .. m : y[k] = Shift(y[k - 1])
  PROVE  y[m] # {}
<1> DEFINE Close(n) == y[n] # {} /\ \E low \in Nat : y[n] \subseteq low .. low + 15
           T == {n \in Nat : n <= m => Close(n)}
<1>1. 0 \in T
  OBVIOUS
<1>2. ASSUME NEW n \in Nat, n \in T PROVE n + 1 \in T
  <2> SUFFICES ASSUME n + 1 <= m PROVE Close(n + 1)
    <3> HIDE DEF Close
    <3> QED OBVIOUS
  <2>1. PICK low \in Nat : y[n] # {} /\ y[n] \subseteq low .. low + 15
    BY <1>2
  <2> DEFINE a == y[n]
  <2>2. y[n + 1] = Shift(a)
    <3>1. n + 1 \in 1 .. m /\ n + 1 - 1 = n
      OBVIOUS
    <3> QED BY <3>1
  <2> HIDE DEF a
  <2>3. a # {} /\ a \subseteq low .. low + 15 /\ a \in SUBSET Nat
    BY <2>1 DEF a
  <2>4. CASE low = 0
    <3>1. a \in SUBSET (0 .. 15)
      BY <2>3, <2>4
    <3>2. Shift(a) # {} /\ Shift(a) \subseteq 0 .. 0 + 15
      BY <2>3, <3>1, ShiftOfRegister
    <3> QED BY <2>2, <3>2
  <2>5. CASE low # 0
    <3>1. 0 \notin a /\ low - 1 \in Nat
      BY <2>3, <2>5
    <3>2. Shift(a) = {i \in Nat : i + 1 \in a}
      BY <2>3, <3>1, ShiftOfAhead
    <3>3. PICK j \in a : j \in Nat /\ j # 0
      BY <2>3, <3>1
    <3>4. j - 1 \in Shift(a)
      BY <3>2, <3>3
    <3>5. Shift(a) \subseteq low - 1 .. (low - 1) + 15
      BY <2>3, <3>1, <3>2
    <3> QED BY <2>2, <3>1, <3>4, <3>5
  <2> QED BY <2>4, <2>5
<1>3. Nat \subseteq T
  <2> HIDE DEF T
  <2> QED BY <1>1, <1>2, SetInduction
<1>4. m \in T
  BY <1>3
<1> QED BY <1>4

-----------------------------------------------------------------------------
(* The bits of a payload, and those the register takes later than step k.  *)
BitsOf(bytes) == UNION {{8 * (i - 1) + b : b \in Bits(bytes[i])} : i \in DOMAIN bytes}
Ahead(bytes, k) == {b \in Nat : b + k \in BitsOf(bytes) /\ b + k >= 8 * ((k + 7) \div 8)}

CrcSteps(t, bytes) ==
  /\ t \in [0 .. 8 * Len(bytes) -> SUBSET (0 .. 15)] /\ t[0] = {}
  /\ \A k \in 1 .. 8 * Len(bytes) : t[k] = Shift(Taken(t[k - 1], k, bytes))
  /\ crc16LE(bytes) = Xor(0 .. 15, t[8 * Len(bytes)])

LEMMA CrcStepsExist ==
  ASSUME NEW bytes, Len(bytes) \in Nat
  PROVE  \E t : CrcSteps(t, bytes)
<1> DEFINE m == 8 * Len(bytes)
           S == SUBSET (0 .. 15)
           g == [k \in 1 .. m |-> [s \in S |-> Shift(Taken(s, k, bytes))]]
           Is(t) == t = [k \in 0 .. m |->
                      IF k = 0 THEN {} ELSE UNION {Shift(Taken(c, k, bytes)) : c \in {t[k - 1]}}]
<1>1. m \in Nat /\ {} \in S
  OBVIOUS
<1>2. ASSUME NEW k \in 1 .. m, NEW s \in S PROVE Shift(Taken(s, k, bytes)) \in S
  <2>1. Bits(bytes[1 + (k \div 8)]) \in SUBSET (0 .. 15)
    BY DEF Bits
  <2>2. Taken(s, k, bytes) \in SUBSET (0 .. 15)
    BY <2>1 DEF Taken, Xor
  <2> QED BY <2>2, ShiftOfRegister
<1>3. \A k \in 1 .. m : \A s \in S : g[k][s] = Shift(Taken(s, k, bytes)) /\ g[k][s] \in S
  BY <1>2
<1> HIDE DEF g, m, S
<1>4. PICK t : t \in [0 .. m -> S] /\ t[0] = {} /\ \A k \in 1 .. m : t[k] = g[k][t[k - 1]]
  <2>1. Maps(g, S, m)
    BY <1>3 DEF Maps
  <2>2. \E t : Steps(t, g, {}, S, m)
    BY <1>1, <2>1, StepsExist
  <2> QED BY <2>2 DEF Steps
<1>5. Is(t)
  <2>1. ASSUME NEW k \in 1 .. m PROVE t[k] = Shift(Taken(t[k - 1], k, bytes))
    <3>1. k - 1 \in 0 .. m
      BY <1>1
    <3> QED BY <1>3, <1>4, <3>1
  <2>2. ASSUME NEW k, NEW s PROVE UNION {Shift(Taken(c, k, bytes)) : c \in {s}} = Shift(Taken(s, k, bytes))
    OBVIOUS
  <2>3. ASSUME NEW k \in 0 .. m, k # 0 PROVE k \in 1 .. m
    BY <1>1, <2>3
  <2> QED BY <1>1, <1>4, <2>1, <2>2, <2>3
<1> DEFINE u == CHOOSE c : Is(c)
<1>6. Is(u)
  BY <1>5
<1>7. crc16LE(bytes) = Xor(0 .. 15, u[m])
  BY DEF crc16LE, m
<1> HIDE DEF u
<1> DEFINE W == {n \in Nat : n <= m => u[n] = t[n]}
<1>8. u[0] = {} /\ \A k \in 1 .. m : u[k] = Shift(Taken(u[k - 1], k, bytes))
  <2>1. ASSUME NEW k, NEW s PROVE UNION {Shift(Taken(c, k, bytes)) : c \in {s}} = Shift(Taken(s, k, bytes))
    OBVIOUS
  <2>2. 0 \in 0 .. m /\ \A k \in 1 .. m : k \in 0 .. m /\ k # 0
    BY <1>1
  <2>3. ASSUME NEW k \in 0 .. m
        PROVE  u[k] = IF k = 0 THEN {} ELSE UNION {Shift(Taken(c, k, bytes)) : c \in {u[k - 1]}}
    BY <1>6
  <2> QED BY <2>1, <2>2, <2>3
<1>9. 0 \in W
  BY <1>4, <1>8
<1>10. ASSUME NEW n \in Nat, n \in W PROVE n + 1 \in W
  <2> SUFFICES ASSUME n + 1 <= m PROVE u[n + 1] = t[n + 1]
    OBVIOUS
  <2>1. n + 1 \in 1 .. m /\ (n + 1) - 1 = n /\ n \in 0 .. m /\ u[n] = t[n]
    BY <1>1, <1>10
  <2>2. t[n + 1] = Shift(Taken(t[n], n + 1, bytes))
    BY <1>3, <1>4, <2>1
  <2>3. u[n + 1] = Shift(Taken(u[n], n + 1, bytes))
    BY <1>8, <2>1
  <2> QED BY <2>1, <2>2, <2>3
<1>11. Nat \subseteq W
  <2> HIDE DEF W
  <2> QED BY <1>9, <1>10, SetInduction
<1>12. u[m] = t[m]
  BY <1>1, <1>11
<1>13. \A k \in 1 .. m : t[k] = Shift(Taken(t[k - 1], k, bytes))
  BY <1>1, <1>3, <1>4
<1> QED BY <1>4, <1>7, <1>12, <1>13 DEF CrcSteps, m, S

LEMMA BitsOfMember ==
  ASSUME NEW bytes, Len(bytes) \in Nat, DOMAIN bytes = 1 .. Len(bytes), NEW b \in Nat
  PROVE  /\ BitsOf(bytes) \in SUBSET Nat
         /\ b \in BitsOf(bytes) <=> b < 8 * Len(bytes) /\ b % 8 \in Bits(bytes[1 + (b \div 8)])
<1>1. \A x : Bits(x) \in SUBSET (0 .. 7)
  BY DEF Bits
<1>2. ASSUME NEW c \in BitsOf(bytes)
      PROVE  c \in Nat /\ c < 8 * Len(bytes) /\ c % 8 \in Bits(bytes[1 + (c \div 8)])
  <2>0. PICK i \in 1 .. Len(bytes) : c \in {8 * (i - 1) + d : d \in Bits(bytes[i])}
    BY <1>2 DEF BitsOf
  <2>1. PICK d \in Bits(bytes[i]) : c = 8 * (i - 1) + d
    BY <2>0
  <2>2. d \in 0 .. 7 /\ i \in Nat
    BY <1>1, <2>1
  <2>3. c \in Nat /\ c < 8 * Len(bytes) /\ c % 8 = d /\ c \div 8 = i - 1
    BY <2>1, <2>2
  <2>4. 1 + (c \div 8) = i
    BY <2>2, <2>3
  <2> QED BY <2>1, <2>3, <2>4
<1>3. ASSUME b < 8 * Len(bytes), b % 8 \in Bits(bytes[1 + (b \div 8)])
      PROVE  b \in BitsOf(bytes)
  <2> DEFINE i == 1 + (b \div 8)
  <2>1. i \in 1 .. Len(bytes) /\ b = 8 * (i - 1) + (b % 8)
    BY <1>3
  <2>2. b \in {8 * (i - 1) + d : d \in Bits(bytes[i])}
    BY <1>3, <2>1
  <2> HIDE DEF i
  <2> QED BY <2>1, <2>2 DEF BitsOf
<1> QED BY <1>2, <1>3

(* The register and the bits that are ahead shift as one.                  *)
Whole(t, bytes, k) == Xor(t[k], Ahead(bytes, k))

LEMMA WholeShifts ==
  ASSUME NEW bytes, Len(bytes) \in Nat, DOMAIN bytes = 1 .. Len(bytes), NEW t, CrcSteps(t, bytes)
  PROVE  /\ Whole(t, bytes, 0) = BitsOf(bytes)
         /\ \A k \in 1 .. 8 * Len(bytes) : Whole(t, bytes, k) = Shift(Whole(t, bytes, k - 1))
         /\ Whole(t, bytes, 8 * Len(bytes)) = t[8 * Len(bytes)]
         /\ \A k \in 0 .. 8 * Len(bytes) : Whole(t, bytes, k) \in SUBSET Nat
<1> DEFINE m == 8 * Len(bytes)
<1>0. m \in Nat
  OBVIOUS
<1>1. \A b \in Nat : b \in BitsOf(bytes) <=> b < m /\ b % 8 \in Bits(bytes[1 + (b \div 8)])
  BY BitsOfMember
<1>1a. BitsOf(bytes) \in SUBSET Nat
  BY BitsOfMember
<1>2. \A k \in 0 .. m : t[k] \in SUBSET (0 .. 15)
  BY DEF CrcSteps
<1>3. Whole(t, bytes, 0) = BitsOf(bytes)
  <2>1. Ahead(bytes, 0) = BitsOf(bytes)
    BY <1>1a DEF Ahead
  <2>2. t[0] = {}
    BY DEF CrcSteps
  <2> QED BY <2>1, <2>2 DEF Whole, Xor
<1>4. ASSUME NEW k \in 1 .. m PROVE Whole(t, bytes, k) = Shift(Whole(t, bytes, k - 1))
  <2> DEFINE j == k - 1
             later == {b \in Nat : b + j \in BitsOf(bytes) /\ b + j >= 8 * ((j + 8) \div 8)}
             byte == IF k % 8 = 1 THEN Bits(bytes[1 + (k \div 8)]) ELSE {}
  <2>1. j \in 0 .. m /\ j \in Nat /\ j < m /\ k = j + 1
    BY <1>0
  <2>2. t[k] = Shift(Xor(t[j], byte))
    <3>1. t[k] = Shift(Taken(t[j], k, bytes))
      BY DEF CrcSteps
    <3>2. Taken(t[j], k, bytes) = Xor(t[j], byte)
      BY DEF Taken, Xor
    <3> QED BY <3>1, <3>2
  <2> HIDE DEF m
  <2>3. ASSUME NEW b PROVE b \in Ahead(bytes, j) <=> ((b \in byte) # (b \in later))
    <3>0. byte \subseteq 0 .. 7
      BY DEF Bits
    <3>1. CASE b \in Nat /\ j % 8 = 0
      <4>1. k % 8 = 1 /\ k \div 8 = j \div 8 /\ (j + 7) \div 8 = j \div 8 /\ (j + 8) \div 8 = (j \div 8) + 1
            /\ 8 * (j \div 8) = j
        BY <2>1, <3>1
      <4>2. CASE b < 8
        <5>1. (b + j) \div 8 = j \div 8 /\ (b + j) % 8 = b /\ b + j < 8 * ((j + 8) \div 8) /\ b + j \in Nat
          BY <2>1, <3>1, <4>1, <4>2
        <5>2. b + j < m
          BY <2>1, <3>1, <4>1, <4>2 DEF m
        <5>3. b + j \in BitsOf(bytes) <=> b \in Bits(bytes[1 + (j \div 8)])
          BY <1>1, <5>1, <5>2
        <5>4. b + j >= 8 * ((j + 7) \div 8) /\ b \notin later
          BY <2>1, <3>1, <4>1, <5>1
        <5> QED BY <3>1, <4>1, <5>3, <5>4 DEF Ahead
      <4>3. CASE b >= 8
        <5>1. b \notin byte
          BY <3>0, <3>1, <4>3
        <5>2. b + j >= 8 * ((j + 8) \div 8) /\ b + j >= 8 * ((j + 7) \div 8)
          BY <2>1, <3>1, <4>1, <4>3
        <5> QED BY <3>1, <5>1, <5>2 DEF Ahead
      <4> QED BY <3>1, <4>2, <4>3
    <3>2. CASE b \in Nat /\ j % 8 # 0
      <4>1. k % 8 # 1 /\ (j + 7) \div 8 = (j + 8) \div 8
        BY <2>1, <3>2
      <4> QED BY <3>2, <4>1 DEF Ahead
    <3>3. CASE b \notin Nat
      BY <3>0, <3>3 DEF Ahead
    <3> QED BY <3>1, <3>2, <3>3
  <2>4. Whole(t, bytes, j) = Xor(Xor(t[j], byte), later)
    <3> HIDE DEF byte, later
    <3>1. ASSUME NEW b PROVE b \in Whole(t, bytes, j) <=> b \in Xor(Xor(t[j], byte), later)
      BY <2>3, XorMember DEF Whole
    <3> QED BY <3>1
  <2>5. later \in SUBSET Nat /\ 0 \notin later
    BY <2>1
  <2>6. Shift(later) = Ahead(bytes, k)
    <3>1. Shift(later) = {i \in Nat : i + 1 \in later}
      BY <2>5, ShiftOfAhead
    <3>2. ASSUME NEW i \in Nat PROVE i + 1 \in later <=> i \in Ahead(bytes, k)
      BY <2>1 DEF Ahead
    <3>3. Ahead(bytes, k) \subseteq Nat
      BY DEF Ahead
    <3> QED BY <3>1, <3>2, <3>3
  <2>7. Xor(t[j], byte) \in SUBSET Nat
    <3>1. byte \in SUBSET Nat
      BY DEF Bits
    <3>2. t[j] \in SUBSET Nat
      BY <1>2, <2>1, SMTT(40)
    <3> HIDE DEF byte, j
    <3> QED BY <3>1, <3>2 DEF Xor
  <2> HIDE DEF byte, later
  <2>8. Shift(Whole(t, bytes, j)) = Xor(t[k], Ahead(bytes, k))
    BY <2>2, <2>4, <2>5, <2>6, <2>7, ShiftIsLinear
  <2> QED BY <2>8 DEF Whole
<1>5. Whole(t, bytes, m) = t[m]
  <2>1. Ahead(bytes, m) = {}
    <3>1. ASSUME NEW b \in Nat PROVE b + m \notin BitsOf(bytes)
      BY <1>0, <1>1
    <3> QED BY <3>1 DEF Ahead
  <2> QED BY <2>1 DEF Whole, Xor
<1>6. ASSUME NEW k \in 0 .. m PROVE Whole(t, bytes, k) \in SUBSET Nat
  <2>1. t[k] \in SUBSET Nat /\ Ahead(bytes, k) \in SUBSET Nat
    BY <1>2, SMTT(40) DEF Ahead
  <2> QED BY <2>1 DEF Whole, Xor
<1> QED BY <1>3, <1>4, <1>5, <1>6

(* The remainder of a division is the register after the last bit, seen    *)
(* from the other end: what is at b in it is at top - k - b in the other.  *)
LEMMA CrcIs ==
  ASSUME NEW bytes, Len(bytes) \in Nat, DOMAIN bytes = 1 .. Len(bytes)
  PROVE  crc16LE(bytes) = {i \in 0 .. 15 : 15 - i \notin Remainder(bytes)}
<1> DEFINE m == 8 * Len(bytes)
           top == 8 * Len(bytes) + 15
           message == UNION {{top - (8 * (i - 1) + b) : b \in Bits(bytes[i])} : i \in DOMAIN bytes}
           Divide(r, d) == IF d \in r THEN Xor(r, {d, d - 4, d - 11, d - 16}) ELSE r
           Is(f) == f = [k \in 0 .. m |->
                      IF k = 0 THEN message
                      ELSE UNION {Divide(r, top + 1 - k) : r \in {f[k - 1]}}]
<1>0. m \in Nat /\ top = m + 15
  OBVIOUS
<1>1. PICK t : CrcSteps(t, bytes)
  BY CrcStepsExist
<1> DEFINE w(k) == Whole(t, bytes, k)
           rest == [k \in 0 .. m |-> {x \in Int : top - k - x \in w(k)}]
<1>2. /\ w(0) = BitsOf(bytes) /\ w(m) = t[m]
      /\ \A k \in 1 .. m : w(k) = Shift(w(k - 1))
      /\ \A k \in 0 .. m : w(k) \in SUBSET Nat
  BY <1>1, WholeShifts
<1>3. message = {x \in Int : top - 0 - x \in BitsOf(bytes)}
  <2>1. ASSUME NEW x \in message PROVE x \in Int /\ top - 0 - x \in BitsOf(bytes)
    <3>1. PICK i \in 1 .. Len(bytes) : x \in {top - (8 * (i - 1) + b) : b \in Bits(bytes[i])}
      BY <2>1
    <3>2. PICK b \in Bits(bytes[i]) : x = top - (8 * (i - 1) + b)
      BY <3>1
    <3>3. b \in 0 .. 7
      BY <3>2 DEF Bits
    <3>4. x \in Int /\ top - 0 - x = 8 * (i - 1) + b
      BY <3>2, <3>3
    <3>5. 8 * (i - 1) + b \in {8 * (i - 1) + d : d \in Bits(bytes[i])}
      OBVIOUS
    <3> QED BY <3>4, <3>5 DEF BitsOf
  <2>2. ASSUME NEW x \in Int, top - 0 - x \in BitsOf(bytes) PROVE x \in message
    <3>1. PICK i \in 1 .. Len(bytes) : top - 0 - x \in {8 * (i - 1) + d : d \in Bits(bytes[i])}
      BY <2>2 DEF BitsOf
    <3>2. PICK b \in Bits(bytes[i]) : top - 0 - x = 8 * (i - 1) + b
      BY <3>1
    <3>3. b \in 0 .. 7
      BY <3>2 DEF Bits
    <3>4. x = top - (8 * (i - 1) + b)
      BY <3>2, <3>3
    <3>5. x \in {top - (8 * (i - 1) + d) : d \in Bits(bytes[i])}
      BY <3>4
    <3> QED BY <3>5
  <2> HIDE DEF message
  <2> QED BY <2>1, <2>2
<1> HIDE DEF w, message, m, top
<1>4. \A k \in 0 .. m : rest[k] = {x \in Int : top - k - x \in w(k)}
  OBVIOUS
<1>5. ASSUME NEW k \in 1 .. m PROVE rest[k] = Divide(rest[k - 1], top + 1 - k)
  <2> DEFINE d == top + 1 - k
             old == rest[k - 1]
  <2>0. k \in Nat /\ k - 1 \in 0 .. m /\ k \in 0 .. m /\ top \in Nat
    BY <1>0
  <2>1. old = {x \in Int : top - (k - 1) - x \in w(k - 1)}
    BY <1>4, <2>0
  <2>2. rest[k] = {x \in Int : top - k - x \in w(k)}
    BY <1>4, <2>0
  <2> HIDE DEF old
  <2>3. d \in old <=> 0 \in w(k - 1)
    <3>1. d \in Int /\ top - (k - 1) - d = 0
      BY <2>0
    <3> QED BY <2>1, <3>1
  <2>4. ASSUME NEW x \in Int PROVE x \in rest[k] <=> x \in Divide(old, d)
    <3> DEFINE b == top - k - x
    <3>1. b \in Int /\ top - (k - 1) - x = b + 1
      BY <2>0
    <3>2. x \in old <=> b + 1 \in w(k - 1)
      BY <2>1, <3>1
    <3>3. b \in w(k) <=> b \in Nat /\ ((b + 1 \in w(k - 1)) # (0 \in w(k - 1) /\ b \in {15, 10, 3}))
      <4>1. w(k) = Shift(w(k - 1)) /\ w(k - 1) \in SUBSET Nat
        BY <1>2, <2>0
      <4> QED BY <4>1, ShiftMember
    <3>4. x \in {d, d - 4, d - 11, d - 16} <=> b + 1 = 0 \/ b \in {15, 10, 3}
      BY <2>0
    <3>5. b \notin Nat /\ b + 1 \in w(k - 1) => b + 1 = 0
      <4>1. w(k - 1) \in SUBSET Nat
        BY <1>2, <2>0
      <4> QED BY <3>1, <4>1
    <3>6. x \in Divide(old, d) <=>
            IF 0 \in w(k - 1) THEN ((x \in old) # (x \in {d, d - 4, d - 11, d - 16})) ELSE x \in old
      <4> HIDE DEF d
      <4> QED BY <2>3, XorMember
    <3>7. x \in rest[k] <=> b \in w(k)
      BY <2>2
    <3>8. b + 1 = 0 => b \notin Nat /\ b \notin {15, 10, 3}
      OBVIOUS
    <3>8a. b \in {15, 10, 3} => b \in Nat
      OBVIOUS
    <3> HIDE DEF b, d, rest
    <3>9. CASE 0 \in w(k - 1)
      <4>1. CASE b + 1 = 0
        BY <3>2, <3>3, <3>4, <3>6, <3>7, <3>8, <3>9, <4>1
      <4>2. CASE b + 1 # 0
        BY <3>2, <3>3, <3>4, <3>5, <3>6, <3>7, <3>8a, <3>9, <4>2
      <4> QED BY <4>1, <4>2
    <3>10. CASE 0 \notin w(k - 1)
      BY <3>2, <3>3, <3>5, <3>6, <3>7, <3>10
    <3> QED BY <3>9, <3>10
  <2>5. Divide(old, d) \subseteq Int /\ rest[k] \subseteq Int
    <3>1. d \in Int /\ d - 4 \in Int /\ d - 11 \in Int /\ d - 16 \in Int
      BY <2>0
    <3>2. old \subseteq Int
      BY <2>1
    <3> HIDE DEF d, rest
    <3> QED BY <2>2, <3>1, <3>2 DEF Xor
  <2> HIDE DEF Divide, d, rest
  <2>6. rest[k] = Divide(old, d)
    BY <2>4, <2>5
  <2> QED BY <2>6 DEF old, d
<1>6. rest[0] = message
  BY <1>0, <1>2, <1>3, <1>4
<1>6a. DOMAIN rest = 0 .. m /\ rest = [k \in 0 .. m |-> rest[k]]
  OBVIOUS
<1> HIDE DEF rest, Divide
<1>7. Is(rest)
  <2>1. ASSUME NEW k, NEW r PROVE UNION {Divide(c, top + 1 - k) : c \in {r}} = Divide(r, top + 1 - k)
    OBVIOUS
  <2>2. ASSUME NEW k \in 0 .. m, k # 0 PROVE k \in 1 .. m
    BY <1>0, <2>2
  <2>3. ASSUME NEW k \in 0 .. m
        PROVE  rest[k] = IF k = 0 THEN message
                         ELSE UNION {Divide(r, top + 1 - k) : r \in {rest[k - 1]}}
    <3>1. CASE k = 0
      BY <1>6, <3>1
    <3>2. CASE k # 0
      <4>1. rest[k] = Divide(rest[k - 1], top + 1 - k)
        BY <1>5, <2>2, <3>2
      <4>2. UNION {Divide(r, top + 1 - k) : r \in {rest[k - 1]}} = Divide(rest[k - 1], top + 1 - k)
        BY <2>1
      <4> QED BY <3>2, <4>1, <4>2, Zenon
    <3> QED BY <3>1, <3>2
  <2> QED BY <1>6a, <2>3
<1> DEFINE u == CHOOSE f : Is(f)
<1>8. Is(u)
  BY <1>7
<1>9. Remainder(bytes) = u[m]
  BY DEF Remainder, m, top, message, Divide
<1> HIDE DEF u
<1> DEFINE A == {n \in Nat : n <= m => u[n] = rest[n]}
<1>10. u[0] = message /\ \A k \in 1 .. m : u[k] = Divide(u[k - 1], top + 1 - k)
  <2>1. ASSUME NEW k, NEW r PROVE UNION {Divide(c, top + 1 - k) : c \in {r}} = Divide(r, top + 1 - k)
    OBVIOUS
  <2>2. 0 \in 0 .. m /\ \A k \in 1 .. m : k \in 0 .. m /\ k # 0
    BY <1>0
  <2>3. ASSUME NEW k \in 0 .. m
        PROVE  u[k] = IF k = 0 THEN message ELSE UNION {Divide(r, top + 1 - k) : r \in {u[k - 1]}}
    BY <1>8
  <2> QED BY <2>1, <2>2, <2>3
<1>11. 0 \in A
  BY <1>6, <1>10
<1>12. ASSUME NEW n \in Nat, n \in A PROVE n + 1 \in A
  <2> SUFFICES ASSUME n + 1 <= m PROVE u[n + 1] = rest[n + 1]
    OBVIOUS
  <2>1. n + 1 \in 1 .. m /\ (n + 1) - 1 = n /\ u[n] = rest[n]
    BY <1>0, <1>12
  <2>2. u[n + 1] = Divide(u[n], top + 1 - (n + 1)) /\ rest[n + 1] = Divide(rest[n], top + 1 - (n + 1))
    BY <1>5, <1>10, <2>1
  <2> QED BY <2>1, <2>2
<1>13. Nat \subseteq A
  <2> HIDE DEF A
  <2> QED BY <1>11, <1>12, SetInduction
<1>14. Remainder(bytes) = {x \in Int : top - m - x \in t[m]}
  <2>1. u[m] = rest[m] /\ m \in 0 .. m
    BY <1>0, <1>13
  <2> QED BY <1>2, <1>4, <1>9, <2>1
<1>15. ASSUME NEW i \in 0 .. 15 PROVE 15 - i \in Remainder(bytes) <=> i \in t[m]
  <2>1. 15 - i \in Int /\ top - m - (15 - i) = i
    BY <1>0
  <2> QED BY <1>14, <2>1
<1>16. crc16LE(bytes) = Xor(0 .. 15, t[m]) /\ t[m] \in SUBSET (0 .. 15)
  <2>1. m \in 0 .. m
    BY <1>0
  <2> QED BY <1>1, <2>1 DEF CrcSteps, m
<1> QED BY <1>15, <1>16 DEF Xor

-----------------------------------------------------------------------------
(* A byte has the bits it is made of.                                      *)
LEMMA BitsOfByte ==
  ASSUME NEW S \in SUBSET (0 .. 7)
  PROVE  Bits(ByteOf(S)) = S /\ ByteOf(S) \in Nat /\ ByteOf(S) < 256
<1> DEFINE Bit(i) == IF i \in S THEN Weights[i + 1] ELSE 0
           n == ByteOf(S)
<1>1. /\ Weights[0 + 1] = 1 /\ Weights[1 + 1] = 2 /\ Weights[2 + 1] = 4 /\ Weights[3 + 1] = 8
      /\ Weights[4 + 1] = 16 /\ Weights[5 + 1] = 32 /\ Weights[6 + 1] = 64 /\ Weights[7 + 1] = 128
  BY DEF Weights
<1>2. n = Bit(0) + Bit(1) + Bit(2) + Bit(3) + Bit(4) + Bit(5) + Bit(6) + Bit(7)
  BY DEF ByteOf
<1> DEFINE B(i) == IF i \in S THEN 1 ELSE 0
<1>3. \A i : B(i) \in 0 .. 1 /\ (B(i) = 1 <=> i \in S)
  OBVIOUS
<1>4. n = B(0) + 2 * B(1) + 4 * B(2) + 8 * B(3) + 16 * B(4) + 32 * B(5) + 64 * B(6) + 128 * B(7)
  <2>1. /\ Bit(0) = B(0)      /\ Bit(1) = 2 * B(1)  /\ Bit(2) = 4 * B(2)  /\ Bit(3) = 8 * B(3)
        /\ Bit(4) = 16 * B(4) /\ Bit(5) = 32 * B(5) /\ Bit(6) = 64 * B(6) /\ Bit(7) = 128 * B(7)
    BY <1>1
  <2> HIDE DEF Bit, n, B
  <2> QED BY <1>2, <2>1
<1> HIDE DEF B
<1> HIDE DEF n
<1>5. /\ n \in Nat /\ n < 256
      /\ (n \div 1) % 2 = B(0) /\ (n \div 2) % 2 = B(1)
      /\ (n \div 4) % 2 = B(2) /\ (n \div 8) % 2 = B(3)
      /\ (n \div 16) % 2 = B(4) /\ (n \div 32) % 2 = B(5)
      /\ (n \div 64) % 2 = B(6) /\ (n \div 128) % 2 = B(7)
  <2>1. /\ B(0) \in 0 .. 1 /\ B(1) \in 0 .. 1 /\ B(2) \in 0 .. 1 /\ B(3) \in 0 .. 1
        /\ B(4) \in 0 .. 1 /\ B(5) \in 0 .. 1 /\ B(6) \in 0 .. 1 /\ B(7) \in 0 .. 1
    BY <1>3
  <2>2. PICK a, b, c, d, e, f, g, h \in 0 .. 1 :
          /\ a = B(0) /\ b = B(1) /\ c = B(2) /\ d = B(3)
          /\ e = B(4) /\ f = B(5) /\ g = B(6) /\ h = B(7)
    BY <2>1, Zenon
  <2>3. n = a + 2 * b + 4 * c + 8 * d + 16 * e + 32 * f + 64 * g + 128 * h
    BY <1>4, <2>2
  <2>4. /\ n \in Nat /\ n < 256
        /\ (n \div 1) % 2 = a /\ (n \div 2) % 2 = b /\ (n \div 4) % 2 = c /\ (n \div 8) % 2 = d
        /\ (n \div 16) % 2 = e /\ (n \div 32) % 2 = f /\ (n \div 64) % 2 = g
        /\ (n \div 128) % 2 = h
    BY <2>3
  <2> QED BY <2>2, <2>4
<1>8. ASSUME NEW i \in 0 .. 7 PROVE (n \div Weights[i + 1]) % 2 = 1 <=> i \in S
  <2>1. i = 0 \/ i = 1 \/ i = 2 \/ i = 3 \/ i = 4 \/ i = 5 \/ i = 6 \/ i = 7
    OBVIOUS
  <2>2. (n \div Weights[i + 1]) % 2 = B(i)
    BY <1>1, <1>5, <2>1
  <2> QED BY <1>3, <2>2
<1>9. Bits(n) = S
  BY <1>8 DEF Bits
<1> QED BY <1>5, <1>9 DEF n

LEMMA Sizes == PayloadSize \in Nat /\ FrameSize = PayloadSize + 3 /\ FrameSize \in Nat
  BY DEF PayloadSize, FrameSize

LEMMA BurstsAre ==
  ASSUME NEW first \in Nat, NEW burst \in BurstsAt(first)
  PROVE  first \in burst /\ burst \subseteq first .. first + 15 /\ \A b \in burst : b < 8 * FrameSize
<1>1. BurstLength \in Nat /\ BurstLength >= 1 /\ BurstLength <= 16
  BY FrameAssumption
<1>2. PICK last \in first .. first + BurstLength - 1 :
        last < 8 * FrameSize /\ \E inner \in SUBSET (first + 1 .. last - 1) : burst = inner \cup {first, last}
  BY DEF BurstsAt
<1>3. PICK inner \in SUBSET (first + 1 .. last - 1) : burst = inner \cup {first, last}
  BY <1>2
<1>4. 8 * FrameSize \in Nat
  BY Sizes
<1> QED BY <1>1, <1>2, <1>3, <1>4

Flipped(burst, i) == {b \in 0 .. 7 : 8 * (i - 1) + b \in burst}

LEMMA InvertedIs ==
  ASSUME NEW f \in Seq(Nat), NEW burst
  PROVE  /\ Inverted(f, burst) \in Seq(Nat) /\ Len(Inverted(f, burst)) = Len(f)
         /\ \A i \in 1 .. Len(f) : /\ Bits(Inverted(f, burst)[i]) = Xor(Bits(f[i]), Flipped(burst, i))
                                  /\ Inverted(f, burst)[i] < 256
<1> DEFINE g == Inverted(f, burst)
           x(i) == Xor(Bits(f[i]), Flipped(burst, i))
<1>1. DOMAIN f = 1 .. Len(f) /\ Len(f) \in Nat
  BY LenProperties
<1>2. g = [i \in 1 .. Len(f) |-> ByteOf(x(i))]
  BY <1>1 DEF Inverted, Flipped
<1>3. ASSUME NEW i PROVE x(i) \in SUBSET (0 .. 7)
  BY DEF Bits, Xor, Flipped
<1> HIDE DEF x
<1>4. ASSUME NEW i PROVE ByteOf(x(i)) \in Nat /\ ByteOf(x(i)) < 256 /\ Bits(ByteOf(x(i))) = x(i)
  BY <1>3, BitsOfByte
<1>5. g \in [1 .. Len(f) -> Nat]
  BY <1>2, <1>4
<1> HIDE DEF g
<1>6. g \in Seq(Nat) /\ Len(g) = Len(f)
  BY <1>1, <1>5
<1> QED BY <1>2, <1>4, <1>6 DEF g, x

(* What a frame that passes the check says of its bits.                    *)
LEMMA CheckedIs ==
  ASSUME NEW f \in Seq(Nat), Len(f) = FrameSize, NEW d, d = PayloadOf(f)
  PROVE  /\ d \in Seq(Nat) /\ Len(d) = PayloadSize /\ DOMAIN d = 1 .. PayloadSize
         /\ \A i \in 1 .. PayloadSize : d[i] = f[i + 1]
         /\ crc16LE(d) \in SUBSET (0 .. 15)
         /\ Checked(f) =>
              /\ f[1] = START_FLAG
              /\ Bits(f[PayloadSize + 2]) = crc16LE(d) \cap 0 .. 7
              /\ Bits(f[PayloadSize + 3]) = {i - 8 : i \in crc16LE(d) \cap 8 .. 15}
<1> DEFINE c == crc16LE(d)
           n == PayloadSize
<1>0. n \in Nat /\ Len(f) = n + 3
  BY Sizes
<1>1. \A i \in 1 .. n + 3 : f[i] \in Nat
  BY <1>0
<1>2. d \in Seq(Nat) /\ Len(d) = n /\ DOMAIN d = 1 .. n /\ \A i \in 1 .. n : d[i] = f[i + 1]
  <2>1. d = SubSeq(f, 2, n + 1)
    <3>1. 1 + n = n + 1
      BY <1>0
    <3> QED BY <3>1 DEF PayloadOf
  <2>2. /\ SubSeq(f, 2, n + 1) \in Seq(Nat) /\ Len(SubSeq(f, 2, n + 1)) = n
        /\ \A i \in 1 .. n : SubSeq(f, 2, n + 1)[i] = f[2 + i - 1]
    <3>1. \A i \in 2 .. n + 1 : f[i] \in Nat
      BY <1>0, <1>1
    <3> DEFINE last == n + 1
    <3>2. last \in Int /\ last - 2 + 1 = n /\ (2 <= last \/ n = 0)
      BY <1>0
    <3>3. \A i \in 2 .. last : f[i] \in Nat
      BY <3>1
    <3> HIDE DEF last
    <3>4. /\ SubSeq(f, 2, last) \in Seq(Nat)
          /\ Len(SubSeq(f, 2, last)) = IF 2 <= last THEN last - 2 + 1 ELSE 0
          /\ \A i \in 1 .. last - 2 + 1 : SubSeq(f, 2, last)[i] = f[2 + i - 1]
      BY <3>2, <3>3, SubSeqProperties
    <3>5. /\ SubSeq(f, 2, last) \in Seq(Nat) /\ Len(SubSeq(f, 2, last)) = n
          /\ \A i \in 1 .. n : SubSeq(f, 2, last)[i] = f[2 + i - 1]
      BY <1>0, <3>2, <3>4
    <3> QED BY <3>5 DEF last
  <2>3. \A i \in 1 .. n : 2 + i - 1 = i + 1
    BY <1>0
  <2>4. 1 .. Len(d) = 1 .. n /\ DOMAIN d = 1 .. Len(d)
    BY <2>1, <2>2
  <2> QED BY <2>1, <2>2, <2>3, <2>4
<1>3. c \in SUBSET (0 .. 15)
  <2>1. PICK t : CrcSteps(t, d)
    BY <1>2, CrcStepsExist
  <2>2. t[8 * Len(d)] \in SUBSET (0 .. 15)
    BY <1>2, <2>1, SMTT(40) DEF CrcSteps
  <2> QED BY <2>1, <2>2 DEF CrcSteps, Xor
<1> HIDE DEF c
<1>4. ASSUME Checked(f) PROVE Bits(f[n + 2]) = c \cap 0 .. 7 /\ Bits(f[n + 3]) = {i - 8 : i \in c \cap 8 .. 15}
  <2> DEFINE low == c \cap 0 .. 7
             high == {i - 8 : i \in c \cap 8 .. 15}
             s == SubSeq(f, n + 2, n + 3)
  <2>1. s = <<ByteOf(low), ByteOf(high)>>
    BY <1>4, Sizes DEF Checked, CrcBytes, c
  <2>2. s[1] = f[n + 2] /\ s[2] = f[n + 3]
    <3>1. \A i \in 1 .. 2 : s[i] = f[n + 2 + i - 1]
      BY <1>0, <1>1, SubSeqProperties
    <3> HIDE DEF s
    <3> QED BY <1>0, <3>1
  <2>3. low \in SUBSET (0 .. 7) /\ high \in SUBSET (0 .. 7)
    OBVIOUS
  <2> HIDE DEF s, low, high
  <2>4. f[n + 2] = ByteOf(low) /\ f[n + 3] = ByteOf(high)
    BY <2>1, <2>2
  <2>5. Bits(f[n + 2]) = low /\ Bits(f[n + 3]) = high
    BY <2>3, <2>4, BitsOfByte
  <2> QED BY <2>5 DEF low, high
<1>5. Checked(f) => f[1] = START_FLAG
  BY DEF Checked
<1> QED BY <1>2, <1>3, <1>4, <1>5 DEF c

(* No burst passes the check: one in the start flag changes it, and any    *)
(* other leaves something in the register.                                 *)
LEMMA BurstBreaks ==
  ASSUME NEW f \in Seq(Nat), Len(f) = FrameSize, Checked(f),
         NEW first \in Nat, NEW burst \in BurstsAt(first)
  PROVE  ~Checked(Inverted(f, burst))
<1> SUFFICES ASSUME Checked(Inverted(f, burst)) PROVE FALSE
  OBVIOUS
<1> DEFINE g == Inverted(f, burst)
           d == PayloadOf(f)
           e == PayloadOf(g)
           n == PayloadSize
           m == 8 * n
<1>0. n \in Nat /\ m \in Nat /\ Len(f) = n + 3 /\ FrameSize = n + 3 /\ 8 * FrameSize = m + 24
  BY Sizes
<1>1. first \in burst /\ burst \subseteq first .. first + 15 /\ burst \in SUBSET Nat /\ \A b \in burst : b < m + 24
  BY <1>0, BurstsAre
<1>2. g \in Seq(Nat) /\ Len(g) = FrameSize
      /\ \A i \in 1 .. n + 3 : Bits(g[i]) = Xor(Bits(f[i]), Flipped(burst, i))
  BY <1>0, InvertedIs
<1> HIDE DEF g
<1>3. /\ Len(d) = n /\ DOMAIN d = 1 .. n /\ \A i \in 1 .. n : d[i] = f[i + 1]
      /\ f[1] = START_FLAG /\ Bits(f[n + 2]) = crc16LE(d) \cap 0 .. 7
      /\ Bits(f[n + 3]) = {i - 8 : i \in crc16LE(d) \cap 8 .. 15}
  BY CheckedIs
<1>4. /\ Len(e) = n /\ DOMAIN e = 1 .. n /\ \A i \in 1 .. n : e[i] = g[i + 1]
      /\ g[1] = START_FLAG /\ Bits(g[n + 2]) = crc16LE(e) \cap 0 .. 7
      /\ Bits(g[n + 3]) = {i - 8 : i \in crc16LE(e) \cap 8 .. 15}
  <2>1. Checked(g)
    BY DEF g
  <2> QED BY <1>2, <2>1, CheckedIs
<1> HIDE DEF d, e, n
<1>5. first >= 8
  <2>1. ASSUME first < 8 PROVE FALSE
    <3>1. first \in Flipped(burst, 1)
      BY <1>1, <2>1 DEF Flipped
    <3>2. Bits(g[1]) = Xor(Bits(f[1]), Flipped(burst, 1)) /\ Bits(g[1]) = Bits(f[1])
      BY <1>2, <1>3, <1>4
    <3> QED BY <3>1, <3>2, XorMember
  <2> QED BY <2>1
<1>5a. Len(d) \in Nat /\ DOMAIN d = 1 .. Len(d) /\ Len(e) \in Nat /\ DOMAIN e = 1 .. Len(e)
      /\ m = 8 * Len(d) /\ m = 8 * Len(e)
  BY <1>0, <1>3, <1>4
<1>5b. n \in Nat /\ m \in Nat /\ m = 8 * n
  BY <1>0
<1> HIDE DEF m
<1>6. PICK t : CrcSteps(t, d)
  BY <1>5a, CrcStepsExist
<1>7. PICK u : CrcSteps(u, e)
  BY <1>5a, CrcStepsExist
<1>8. /\ Whole(t, d, 0) = BitsOf(d) /\ Whole(t, d, m) = t[m]
      /\ \A k \in 1 .. m : Whole(t, d, k) = Shift(Whole(t, d, k - 1))
      /\ \A k \in 0 .. m : Whole(t, d, k) \in SUBSET Nat
  BY <1>5a, <1>6, WholeShifts
<1>9. /\ Whole(u, e, 0) = BitsOf(e) /\ Whole(u, e, m) = u[m]
      /\ \A k \in 1 .. m : Whole(u, e, k) = Shift(Whole(u, e, k - 1))
      /\ \A k \in 0 .. m : Whole(u, e, k) \in SUBSET Nat
  BY <1>5a, <1>7, WholeShifts
<1> DEFINE diff(k) == Xor(Whole(t, d, k), Whole(u, e, k))
           tail(k) == {b \in Nat : b + k + 8 \in burst /\ b + k >= m}
           y == [k \in 0 .. m |-> Xor(diff(k), tail(k))]
<1>9a. 0 \in 0 .. m /\ m \in 0 .. m /\ \A k \in 0 .. m : y[k] = Xor(diff(k), tail(k))
  BY <1>5b
<1>9b. \A k \in 0 .. m : y[k] \subseteq Nat
  <2>1. ASSUME NEW k \in 0 .. m PROVE diff(k) \subseteq Nat /\ tail(k) \subseteq Nat
    BY <1>8, <1>9, ShiftIsLinear
  <2> HIDE DEF diff, tail, y
  <2> QED BY <1>9a, <2>1 DEF Xor
<1>10. ASSUME NEW k \in 1 .. m PROVE y[k] = Shift(y[k - 1])
  <2>0. k - 1 \in 0 .. m /\ k \in 0 .. m /\ k \in Nat
    BY <1>5b
  <2>1. diff(k - 1) \in SUBSET Nat /\ Shift(diff(k - 1)) = diff(k)
    BY <1>8, <1>9, <2>0, ShiftIsLinear
  <2>2. tail(k - 1) \in SUBSET Nat /\ 0 \notin tail(k - 1)
    BY <1>5b, <2>0
  <2>3. Shift(tail(k - 1)) = {i \in Nat : i + 1 \in tail(k - 1)}
    <3> HIDE DEF tail
    <3> QED BY <2>2, ShiftOfAhead
  <2>4. \A i \in Nat : i + 1 \in tail(k - 1) <=> i \in tail(k)
    <3>1. \A i \in Nat : i + 1 + (k - 1) = i + k
      BY <2>0
    <3> QED BY <3>1
  <2>5. Shift(tail(k - 1)) = tail(k)
    <3>1. tail(k) \subseteq Nat
      OBVIOUS
    <3> HIDE DEF tail
    <3> QED BY <2>3, <2>4, <3>1
  <2> HIDE DEF diff, tail
  <2>6. Shift(Xor(diff(k - 1), tail(k - 1))) = Xor(diff(k), tail(k))
    BY <2>1, <2>2, <2>5, ShiftIsLinear
  <2> QED BY <2>0, <2>6
<1>11. y[0] = {b \in Nat : b + 8 \in burst}
  <2>1. ASSUME NEW b \in Nat PROVE b \in y[0] <=> b + 8 \in burst
    <3> DEFINE i == 1 + (b \div 8)
               a == b % 8
    <3>1. i \in Nat /\ a \in 0 .. 7 /\ b = 8 * (i - 1) + a /\ (b < m <=> i \in 1 .. n)
      BY <1>5b
    <3>2. b \in BitsOf(d) <=> b < m /\ a \in Bits(d[i])
      BY <1>0, <1>5a, BitsOfMember
    <3>3. b \in BitsOf(e) <=> b < m /\ a \in Bits(e[i])
      BY <1>0, <1>5a, BitsOfMember
    <3> HIDE DEF i, a
    <3>4. ASSUME b < m PROVE (a \in Bits(d[i])) # (a \in Bits(e[i])) <=> b + 8 \in burst
      <4>1. d[i] = f[i + 1] /\ e[i] = g[i + 1] /\ i + 1 \in 1 .. n + 3
        BY <1>3, <1>4, <3>1, <3>4
      <4>2. Bits(g[i + 1]) = Xor(Bits(f[i + 1]), Flipped(burst, i + 1))
        BY <1>2, <4>1
      <4>3. a \in Flipped(burst, i + 1) <=> b + 8 \in burst
        <5>1. 8 * ((i + 1) - 1) + a = b + 8
          BY <3>1
        <5> QED BY <3>1, <5>1 DEF Flipped
      <4> QED BY <4>1, <4>2, <4>3, XorMember
    <3>5. b \in diff(0) <=> ((b \in BitsOf(d)) # (b \in BitsOf(e)))
      BY <1>8, <1>9, XorMember
    <3>6. b \in tail(0) <=> b + 8 \in burst /\ b >= m
      OBVIOUS
    <3>7. b \in y[0] <=> ((b \in diff(0)) # (b \in tail(0)))
      <4> HIDE DEF diff, tail, y
      <4> QED BY <1>9a, XorMember
    <3> HIDE DEF diff, tail, y
    <3>8. CASE b < m
      BY <1>5b, <3>2, <3>3, <3>4, <3>5, <3>6, <3>7, <3>8
    <3>9. CASE b >= m
      BY <1>5b, <3>2, <3>3, <3>5, <3>6, <3>7, <3>9
    <3> QED BY <1>5b, <3>8, <3>9
  <2>2. y[0] \subseteq Nat
    BY <1>9a, <1>9b
  <2> HIDE DEF y
  <2> QED BY <2>1, <2>2
<1>12. y[m] = {}
  <2>1. ASSUME NEW b \in Nat PROVE b \in t[m] <=> ((b \in u[m]) # (b + m + 8 \in burst))
    <3>0. t[m] \in SUBSET (0 .. 15) /\ u[m] \in SUBSET (0 .. 15)
          /\ crc16LE(d) = Xor(0 .. 15, t[m]) /\ crc16LE(e) = Xor(0 .. 15, u[m])
      BY <1>5a, <1>9a, <1>6, <1>7 DEF CrcSteps
    <3>1. CASE b < 8
      <4>1. b \in Flipped(burst, n + 2) <=> b + m + 8 \in burst
        <5>1. 8 * (n + 2 - 1) + b = b + m + 8 /\ b \in 0 .. 7
          BY <1>5b, <3>1
        <5> QED BY <1>5b, <5>1 DEF Flipped
      <4>2. b \in Bits(g[n + 2]) <=> ((b \in Bits(f[n + 2])) # (b \in Flipped(burst, n + 2)))
        <5>1. n + 2 \in 1 .. n + 3
          BY <1>5b
        <5> QED BY <1>2, <5>1, XorMember
      <4>3. (b \in Bits(f[n + 2]) <=> b \in crc16LE(d)) /\ (b \in Bits(g[n + 2]) <=> b \in crc16LE(e))
        BY <1>3, <1>4, <3>1
      <4>4. (b \in crc16LE(d) <=> b \notin t[m]) /\ (b \in crc16LE(e) <=> b \notin u[m])
        <5>1. b \in 0 .. 15
          BY <3>1
        <5>2. ASSUME NEW x PROVE b \in Xor(0 .. 15, x) <=> b \notin x
          BY <5>1 DEF Xor
        <5> QED BY <3>0, <5>2, Zenon
      <4> QED BY <4>1, <4>2, <4>3, <4>4
    <3>2. CASE b >= 8 /\ b < 16
      <4>1. b - 8 \in Flipped(burst, n + 3) <=> b + m + 8 \in burst
        <5>1. 8 * (n + 3 - 1) + (b - 8) = b + m + 8 /\ b - 8 \in 0 .. 7
          BY <1>5b, <3>2
        <5> QED BY <1>5b, <5>1 DEF Flipped
      <4>2. b - 8 \in Bits(g[n + 3]) <=> ((b - 8 \in Bits(f[n + 3])) # (b - 8 \in Flipped(burst, n + 3)))
        <5>1. n + 3 \in 1 .. n + 3
          BY <1>5b
        <5> QED BY <1>2, <5>1, XorMember
      <4>3. (b - 8 \in Bits(f[n + 3]) <=> b \in crc16LE(d)) /\ (b - 8 \in Bits(g[n + 3]) <=> b \in crc16LE(e))
        <5>1. ASSUME NEW x \in SUBSET (0 .. 15)
              PROVE  b - 8 \in {i - 8 : i \in x \cap 8 .. 15} <=> b \in x
          BY <3>2
        <5>2. crc16LE(d) \in SUBSET (0 .. 15) /\ crc16LE(e) \in SUBSET (0 .. 15)
          BY <3>0 DEF Xor
        <5> QED BY <1>3, <1>4, <5>1, <5>2
      <4>4. (b \in crc16LE(d) <=> b \notin t[m]) /\ (b \in crc16LE(e) <=> b \notin u[m])
        <5>1. b \in 0 .. 15
          BY <3>2
        <5>2. ASSUME NEW x PROVE b \in Xor(0 .. 15, x) <=> b \notin x
          BY <5>1 DEF Xor
        <5> QED BY <3>0, <5>2, Zenon
      <4> QED BY <4>1, <4>2, <4>3, <4>4
    <3>3. CASE b >= 16
      <4>1. b \notin t[m] /\ b \notin u[m] /\ b + m + 8 \notin burst
        <5>1. b \notin 0 .. 15 /\ ~(b + m + 8 < m + 24)
          BY <1>5b, <3>3
        <5> QED BY <1>1, <3>0, <5>1
      <4> QED BY <4>1
    <3> QED BY <3>1, <3>2, <3>3
  <2>2. ASSUME NEW b \in Nat PROVE b \notin y[m]
    <3>1. b \in diff(m) <=> ((b \in t[m]) # (b \in u[m]))
      BY <1>8, <1>9, XorMember
    <3>2. b \in tail(m) <=> b + m + 8 \in burst
      BY <1>5b
    <3>3. b \in y[m] <=> ((b \in diff(m)) # (b \in tail(m)))
      <4> HIDE DEF diff, tail, y
      <4> QED BY <1>9a, XorMember
    <3> HIDE DEF y, diff, tail
    <3> QED BY <2>1, <3>1, <3>2, <3>3
  <2>3. y[m] \subseteq Nat
    BY <1>9a, <1>9b
  <2> HIDE DEF y
  <2> QED BY <2>2, <2>3
<1> HIDE DEF y
<1>13. first - 8 \in y[0] /\ first - 8 \in Nat /\ y[0] \subseteq first - 8 .. (first - 8) + 15
  BY <1>1, <1>5, <1>11
<1>14. y[m] # {}
  <2>1. y[0] # {} /\ y[0] \subseteq first - 8 .. (first - 8) + 15 /\ first - 8 \in Nat
    BY <1>13
  <2> QED BY <1>5b, <1>10, <2>1, BurstsStay
<1> QED BY <1>12, <1>14

-----------------------------------------------------------------------------
(* A frame that nothing has changed is what was packed, and what both ends *)
(* make of it; one that was changed fails the check at both ends.          *)
FrameInv ==
  /\ packed \in Measurements /\ damaged \in BOOLEAN
  /\ frame # <<>> => /\ frame \in Seq(Nat) /\ \A i \in DOMAIN frame : frame[i] < 256
                     /\ Len(frame) = FrameSize - 1 \/ Len(frame) = FrameSize
  /\ ~damaged => /\ frame # <<>> => frame = Framed(Payload(packed))
                 /\ printed = <<>> \/ printed = packed
                 /\ packet = <<>> \/ (packet = packed /\ Plausible(packed))
  /\ damaged => printed = <<>> /\ packet = <<>> /\ frame # <<>> /\ ~Checked(frame)

LEMMA InRangeIsPlausible ==
  ASSUME NEW r, Representable(r)
  PROVE  InRange(r) <=> Plausible(r)
<1>1. r.temperature \in Int /\ r.humidity \in Nat /\ r.pressure \in Nat /\ r.voltage \in Nat
  BY SMT DEF Representable
<1> QED BY <1>1, SMT DEF InRange, Plausible

LEMMA DecodableIff ==
  ASSUME NEW r, Representable(r)
  PROVE  Decodable(Framed(Payload(r))) <=> Plausible(r)
BY FramedChecks, RoundTrip, InRangeIsPlausible DEF Decodable

(* A payload and its frame are bytes.                                      *)
LEMMA FramedBytes ==
  ASSUME NEW r, Representable(r), NEW f, f = Framed(Payload(r))
  PROVE  /\ f \in Seq(Nat) /\ Len(f) = FrameSize
         /\ \A i \in DOMAIN f : f[i] < 256
<1> DEFINE p == Payload(r)
           c == CrcBytes(crc16LE(p))
           h == <<START_FLAG>>
           S == {n \in Nat : n < 256}
<1>1. ASSUME NEW n \in Nat PROVE Low(n) \in S /\ High(n) \in S
  BY SMT DEF Low, High
<1>2. /\ r.temperature % 65536 \in Nat /\ r.humidity \in Nat /\ r.pressure \in Nat /\ r.voltage \in Nat
      /\ r.pressure \div 65536 \in S
  <2>1. r.temperature \in Int /\ r.humidity \in Nat /\ r.pressure \in Nat /\ r.voltage \in Nat
        /\ r.pressure < 16777216
    BY SMT DEF Representable
  <2> QED BY <2>1, SMT
<1> HIDE DEF S
<1>3. p \in Seq(S) /\ Len(p) = PayloadSize
  <2>1. PICK p1, p2, p3, p4, p5, p6, p7, p8, p9 \in S : p = <<p1, p2, p3, p4, p5, p6, p7, p8, p9>>
    BY <1>1, <1>2, PayloadIs
  <2> HIDE DEF p
  <2> QED BY <2>1 DEF PayloadSize
<1>4. c \in Seq(S) /\ Len(c) = 2
  <2> DEFINE low == crc16LE(p) \cap 0 .. 7
             high == {i - 8 : i \in crc16LE(p) \cap 8 .. 15}
  <2>1. low \in SUBSET (0 .. 7) /\ high \in SUBSET (0 .. 7)
    OBVIOUS
  <2>2. c = <<ByteOf(low), ByteOf(high)>>
    BY DEF CrcBytes
  <2> HIDE DEF low, high, c
  <2>3. ByteOf(low) \in S /\ ByteOf(high) \in S
    BY <2>1, BitsOfByte DEF S
  <2> QED BY <2>2, <2>3
<1>5. h \in Seq(S) /\ Len(h) = 1
  BY DEF START_FLAG, S
<1>6. f = h \o p \o c
  BY DEF Framed
<1> HIDE DEF p, c, h
<1> DEFINE t == h \o p
<1>7. t \in Seq(S) /\ Len(t) = 1 + PayloadSize
  <2>1. t \in Seq(S) /\ Len(t) = Len(h) + Len(p)
    BY <1>3, <1>5, ConcatProperties, ZenonT(60)
  <2> HIDE DEF t
  <2> QED BY <1>5, <2>1, <1>3
<1>7a. f = t \o c
  BY <1>6
<1> HIDE DEF t
<1>8. f \in Seq(S) /\ Len(f) = 1 + PayloadSize + 2
  <2>1. t \o c \in Seq(S) /\ Len(t \o c) = Len(t) + Len(c)
    BY <1>4, <1>7, ConcatProperties
  <2> QED BY <1>4, <1>7, <1>7a, <2>1
<1>9. \A i \in DOMAIN f : f[i] \in S
  BY <1>8
<1>10. f \in Seq(Nat)
  <2>1. S \subseteq Nat
    BY DEF S
  <2> QED BY <1>8, <2>1, SeqMonotonic
<1> QED BY <1>8, <1>9, <1>10 DEF FrameSize, S

(* Once cut or hit by a burst, a frame fails the check.                    *)
LEMMA DamageShows ==
  ASSUME NEW f \in Seq(Nat), Len(f) = FrameSize, Checked(f), \A i \in DOMAIN f : f[i] < 256,
         NEW g,
         \/ g = SubSeq(f, 1, FrameSize - 1)
         \/ \E first \in 0 .. 8 * FrameSize - 1 : \E burst \in BurstsAt(first) : g = Inverted(f, burst)
  PROVE  /\ g # <<>> /\ g \in Seq(Nat) /\ \A i \in DOMAIN g : g[i] < 256
         /\ Len(g) = FrameSize - 1 \/ Len(g) = FrameSize
         /\ ~Checked(g)
<1>0. FrameSize \in Nat /\ FrameSize > 1
  BY DEF FrameSize, PayloadSize
<1>1. CASE g = SubSeq(f, 1, FrameSize - 1)
  <2>1. /\ g \in Seq(Nat) /\ Len(g) = FrameSize - 1
        /\ \A i \in 1 .. FrameSize - 1 : g[i] = f[1 + i - 1]
    <3>1. \A i \in 1 .. FrameSize - 1 : f[i] \in Nat
      BY <1>0
    <3>2. FrameSize - 1 - 1 + 1 = FrameSize - 1 /\ 1 <= FrameSize - 1
      BY <1>0
    <3> QED BY <1>0, <1>1, <3>1, <3>2, SubSeqProperties
  <2>2. ~Checked(g)
    BY <1>0, <2>1 DEF Checked
  <2>3. ASSUME NEW i \in DOMAIN g PROVE g[i] < 256
    <3>1. i \in 1 .. FrameSize - 1 /\ 1 + i - 1 = i /\ i \in DOMAIN f
      BY <1>0, <2>1
    <3> QED BY <2>1, <3>1
  <2>4. g # <<>>
    BY <1>0, <2>1
  <2> QED BY <2>1, <2>2, <2>3, <2>4
<1>2. CASE \E first \in 0 .. 8 * FrameSize - 1 : \E burst \in BurstsAt(first) : g = Inverted(f, burst)
  <2>1. PICK first \in 0 .. 8 * FrameSize - 1 : \E burst \in BurstsAt(first) : g = Inverted(f, burst)
    BY <1>2
  <2>2. PICK burst \in BurstsAt(first) : g = Inverted(f, burst)
    BY <2>1
  <2>3. first \in Nat
    BY <1>0
  <2>4. ~Checked(g)
    BY <2>2, <2>3, BurstBreaks
  <2>5. g \in Seq(Nat) /\ Len(g) = FrameSize /\ \A i \in 1 .. FrameSize : g[i] < 256
    BY <2>2, InvertedIs
  <2>6. DOMAIN g = 1 .. FrameSize /\ g # <<>>
    BY <1>0, <2>5
  <2> QED BY <2>4, <2>5, <2>6
<1> QED BY <1>1, <1>2

(* A frame is what was packed as long as nothing damages it, and fails the *)
(* check of its CRC as soon as something does.                             *)
THEOREM FrameInvariant == FrameSpec => []FrameInv
<1>1. FrameInit => FrameInv
  BY DEF FrameInit, FrameInv
<1>2. FrameInv /\ [FrameNext]_frameVars => FrameInv'
  <2> SUFFICES ASSUME FrameInv, [FrameNext]_frameVars PROVE FrameInv'
    OBVIOUS
  <2>0. Representable(packed) /\ packed \in Measurements /\ damaged \in BOOLEAN
    BY FrameAssumption DEF FrameInv
  <2>1. CASE Pack
    <3>1. frame' = Framed(Payload(packed)) /\ UNCHANGED <<packed, damaged, printed, packet>>
          /\ frame = <<>>
      BY <2>1 DEF Pack
    <3>2. /\ frame' \in Seq(Nat) /\ Len(frame') = FrameSize
          /\ \A i \in DOMAIN frame' : frame'[i] < 256
      BY <2>0, <3>1, FramedBytes
    <3> QED BY <3>1, <3>2 DEF FrameInv, Plausible
  <2>2. CASE Damage
    <3>1. /\ frame # <<>> /\ ~damaged /\ printed = <<>> /\ packet = <<>> /\ damaged' = TRUE
          /\ \/ frame' = SubSeq(frame, 1, FrameSize - 1)
             \/ \E first \in 0 .. 8 * FrameSize - 1 : \E burst \in BurstsAt(first) :
                  frame' = Inverted(frame, burst)
          /\ UNCHANGED <<packed, printed, packet>>
      BY <2>2 DEF Damage
    <3>2. frame = Framed(Payload(packed))
      BY <3>1 DEF FrameInv
    <3>3. /\ frame \in Seq(Nat) /\ Len(frame) = FrameSize /\ Checked(frame)
          /\ \A i \in DOMAIN frame : frame[i] < 256
      BY <2>0, <3>2, FramedBytes, FramedChecks
    <3>4. /\ frame' # <<>> /\ frame' \in Seq(Nat) /\ \A i \in DOMAIN frame' : frame'[i] < 256
          /\ Len(frame') = FrameSize - 1 \/ Len(frame') = FrameSize
          /\ ~Checked(frame')
      BY <3>1, <3>3, DamageShows
    <3>5. ~Checked(frame)'
      BY <3>4 DEF Checked, PayloadOf
    <3> QED BY <2>0, <3>1, <3>4, <3>5 DEF FrameInv
  <2>3. CASE Parse
    <3>1. UNCHANGED <<packed, frame, damaged, packet>> /\ printed' = Fields(PayloadOf(frame))
          /\ frame # <<>> /\ Checked(frame)
      BY <2>3 DEF Parse
    <3>2. ~damaged
      BY <2>0, <3>1 DEF FrameInv
    <3>3. printed' = packed
      BY <2>0, <3>1, <3>2, FramedChecks, RoundTrip DEF FrameInv
    <3> QED BY <3>1, <3>2, <3>3 DEF FrameInv, Plausible
  <2>4. CASE Decode
    <3>1. UNCHANGED <<packed, frame, damaged, printed>> /\ packet' = Fields(PayloadOf(frame))
          /\ frame # <<>> /\ Decodable(frame)
      BY <2>4 DEF Decode
    <3>2. ~damaged
      BY <2>0, <3>1 DEF FrameInv, Decodable
    <3>3. packet' = packed /\ Plausible(packed)
      BY <2>0, <3>1, <3>2, FramedChecks, RoundTrip, DecodableIff DEF FrameInv
    <3> QED BY <3>1, <3>2, <3>3 DEF FrameInv, Plausible
  <2>5. CASE UNCHANGED frameVars
    <3>1. UNCHANGED <<packed, frame, damaged, printed, packet>>
      BY <2>5 DEF frameVars
    <3> QED BY <3>1 DEF FrameInv, Plausible, Checked, PayloadOf
  <2> QED BY <2>1, <2>2, <2>3, <2>4, <2>5 DEF FrameNext
<1> QED BY <1>1, <1>2, PTL DEF FrameSpec

(* A frame is bytes, all of them or all but the last one.                  *)
THEOREM FrameTypeCorrect == FrameSpec => []FrameTypeOK
<1>1. FrameInv => FrameTypeOK
  <2> SUFFICES ASSUME FrameInv PROVE FrameTypeOK
    OBVIOUS
  <2>1. ASSUME NEW n \in Nat, n < 256 PROVE n \in 0 .. 255
    BY <2>1, SMT
  <2>2. FrameSize \in Int /\ FrameSize - 1 \in FrameSize - 1 .. FrameSize
        /\ FrameSize \in FrameSize - 1 .. FrameSize
    BY DEF FrameSize, PayloadSize
  <2>3. ASSUME frame # <<>>
        PROVE  /\ Len(frame) \in FrameSize - 1 .. FrameSize
               /\ \A i \in DOMAIN frame : frame[i] \in 0 .. 255
    <3>1. \A i \in DOMAIN frame : frame[i] \in Nat /\ frame[i] < 256
      BY <2>3 DEF FrameInv
    <3>2. Len(frame) \in FrameSize - 1 .. FrameSize
      BY <2>2, <2>3 DEF FrameInv
    <3> QED BY <2>1, <3>1, <3>2, Zenon
  <2> QED BY <2>3 DEF FrameInv, FrameTypeOK
<1> QED BY <1>1, FrameInvariant, PTL

(* Whatever the sensors report and a packet can hold: it arrives as it was *)
(* packed or not at all, however a burst of at most BurstLength bits or a  *)
(* cut damages it, and undamaged it is decoded exactly if it is plausible  *)
(* (packet.go:100-179, main.c:91-114 of the receiver, protocol.h).         *)
THEOREM PacketsTrue == FrameSpec => []PacketsAreTrue
<1>1. FrameInv => PacketsAreTrue
  <2> SUFFICES ASSUME FrameInv PROVE PacketsAreTrue
    OBVIOUS
  <2>0. Representable(packed) /\ damaged \in BOOLEAN
    BY FrameAssumption DEF FrameInv
  <2>1. NothingElseArrives
    BY <2>0 DEF FrameInv, NothingElseArrives
  <2>2. DecodedIffInRange
    BY <2>0, DecodableIff DEF FrameInv, DecodedIffInRange
  <2> QED BY <2>1, <2>2 DEF PacketsAreTrue
<1> QED BY <1>1, FrameInvariant, PTL

(* The table-free CRC computes what a CRC is by its definition, for every  *)
(* payload that arrives, damaged ones included (packet.go:164-179).        *)
THEOREM CrcCorrect == FrameSpec => []CrcIsRemainder
<1>1. FrameInv => CrcIsRemainder
  <2> SUFFICES ASSUME FrameInv, Len(frame) = FrameSize
               PROVE  crc16LE(PayloadOf(frame)) =
                        {i \in 0 .. 15 : 15 - i \notin Remainder(PayloadOf(frame))}
    BY DEF CrcIsRemainder
  <2>1. frame # <<>>
    BY DEF FrameSize, PayloadSize
  <2>2. frame \in Seq(Nat)
    BY <2>1 DEF FrameInv
  <2> DEFINE d == PayloadOf(frame)
  <2>3. Len(d) = PayloadSize /\ DOMAIN d = 1 .. PayloadSize
    BY <2>2, CheckedIs
  <2> HIDE DEF d
  <2>4. Len(d) \in Nat /\ DOMAIN d = 1 .. Len(d)
    BY <2>3, Sizes
  <2> QED BY <2>4, CrcIs DEF d
<1> QED BY <1>1, FrameInvariant, PTL

-----------------------------------------------------------------------------
(* Every subject runs as it does alone: a step of one is a step of its own *)
(* specification, and leaves the variables of the others.                  *)
THEOREM SubjectsRun ==
  MCSpec => Spec /\ AssetsSpec /\ SamplingSpec /\ FrameSpec /\ LineSpec
<1>1. MCInit => Init /\ AssetsInit /\ SamplingInit /\ FrameInit /\ LineInit
  BY DEF MCInit
<1> DEFINE all == <<subject, vars, assetsVars, samplingVars, frameVars, lineVars>>
<1>2. [MCNext]_all => /\ [Next]_vars /\ [AssetsNext]_assetsVars /\ [SamplingNext]_samplingVars
                      /\ [FrameNext]_frameVars /\ [LineNext]_lineVars
  <2> SUFFICES ASSUME MCNext \/ UNCHANGED all
               PROVE  /\ Next \/ KeepData
                      /\ AssetsNext \/ KeepAssets
                      /\ SamplingNext \/ KeepSampling
                      /\ FrameNext \/ KeepFrame
                      /\ LineNext \/ KeepLines
    BY DEF KeepData, KeepAssets, KeepSampling, KeepFrame, KeepLines
  <2>1. CASE UNCHANGED all
    BY <2>1 DEF KeepData, KeepAssets, KeepSampling, KeepFrame, KeepLines
  <2>2. CASE MCNext
    BY <2>2 DEF MCNext, RunData, RunAssets, RunSampling, RunFrame, RunLines
  <2> QED BY <2>1, <2>2
<1> QED BY <1>1, <1>2, PTL DEF MCSpec, Spec, AssetsSpec, SamplingSpec, FrameSpec, LineSpec

(* What the server, the firmware and the readers of the log keep is well   *)
(* typed, whichever of the five subjects runs.                             *)
THEOREM TypesCorrect == MCSpec => []TypesOK
<1>1. TypeOK /\ AssetsTypeOK /\ SamplingTypeOK /\ FrameTypeOK /\ LineTypeOK => TypesOK
  BY DEF TypesOK
<1> QED BY <1>1, SubjectsRun, DataTypeCorrect, AssetsTypeCorrect, SamplingTypeCorrect,
           FrameTypeCorrect, LineTypeCorrect, PTL
=============================================================================
