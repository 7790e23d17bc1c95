------------------------------ MODULE DataSets ------------------------------
(***************************************************************************)
(* What the server keeps of the last days: one setOfData per chart, with   *)
(* the sum and the number of the readings of each day and part of the day; *)
(* the goroutine of Stats that pushes readings, the one of Clear that      *)
(* removes old days, and the page that draws a series.                     *)
(*                                                                         *)
(* Time is in hours, 0 is a midnight of UTC.  A day is cut in UTC, its     *)
(* parts by the hour of the server's zone, which has no daylight saving.   *)
(* An hour is longer than a goroutine ever waits: time passes when no work *)
(* is due, and the clock never jumps.  Means are sum and count, unrounded. *)
(***************************************************************************)
EXTENDS Integers, Sequences, FiniteSetsExt

CONSTANTS
  RetentionDays,  \* 7 in the code
  Offset,         \* local time minus UTC
  Values,         \* what a sensor may report
  Hours,          \* bound: the hours of a day at which things happen
  MaxHour,        \* bound: the last hour
  MaxReadings     \* bound: readings received

ASSUME DataSetsAssumption ==
  /\ RetentionDays \in Nat \ {0} /\ Offset \in -12 .. 14
  /\ Values \subseteq Int /\ Hours \subseteq 0 .. 23
  /\ MaxHour \in Nat /\ MaxReadings \in Nat

VARIABLES
  now,       \* the clock
  data,      \* chart -> its setOfData: day -> part -> sum and count
  log,       \* all that was received, which the code does not keep
  reading,   \* the reading in the hand of Stats.Subscribe
  push,      \* the set it pushes to next, "idle" in its select
  nextTick,  \* when the ticker of Clear fires
  before,    \* sevenDaysAgo of the last tick
  clear,     \* the set Clear removes from next, "idle" in its select
  shown,     \* which reading's values the page shows, 0 for none
  drawn,     \* chart of the page -> the series it shows
  lastChart  \* chart of the page -> the longest series it has drawn

vars == <<now, data, log, reading, push, nextTick, before, clear, shown, drawn, lastChart>>

Charts == {"temperature", "pressure", "voltage"}
PageCharts == {"temperature", "pressure"}
Parts == {"morning", "day", "evening"}

AfterChart(c) ==
  CASE c = "temperature" -> "pressure" [] c = "pressure" -> "voltage" [] c = "voltage" -> "idle"

(* timestamp.Truncate(24 * time.Hour), and the switch on the local hour.   *)
Bod_Local(t) == t - ((t + Offset) % 24)
Bod(t) == t - (t % 24)

PartOf(t) ==
  LET hour == (t + Offset) % 24
  IN  CASE hour \in 6 .. 13  -> "morning"
        [] hour \in 14 .. 18 -> "day"
        [] OTHER             -> "evening"

HourOf == [morning |-> 8, day |-> 14, evening |-> 19]

EmptyDay == [p \in Parts |-> [sum |-> 0, count |-> 0]]

(* The series of a set: a point for each part of a day that has readings.  *)
(* Sorted by its day and part, so a set of points says all of it.          *)
TimeSeries(set) ==
  { [at |-> bp[1] + HourOf[bp[2]], mean |-> set[bp[1]][bp[2]]] :
      bp \in {x \in (DOMAIN set) \X Parts : set[x[1]][x[2]].count > 0} }

Readings == [at : Nat, value : Values]

TypeOK ==
  /\ now \in Nat /\ nextTick \in Nat /\ before \in Int
  /\ log \in Seq(Readings) /\ reading \in Readings \cup {<<>>}
  /\ push \in Charts \cup {"idle"} /\ clear \in Charts \cup {"idle"}
  /\ push # "idle" => reading \in Readings
  /\ shown \in 0 .. Len(log)
  /\ \A c \in Charts : /\ DOMAIN data[c] \subseteq {b \in Nat : b % 24 = 0}
                       /\ \A b \in DOMAIN data[c] :
                            data[c][b] \in [Parts -> [sum : Int, count : Nat]]

Init ==
  /\ now \in Hours /\ nextTick = now + 24
  /\ data = [c \in Charts |-> [b \in {} |-> EmptyDay]]
  /\ log = <<>> /\ reading = <<>> /\ push = "idle"
  /\ before = now - 24 * RetentionDays /\ clear = "idle"
  /\ shown = 0 /\ drawn = [c \in PageCharts |-> {}]
  /\ lastChart = [c \in PageCharts |-> 0]

-----------------------------------------------------------------------------
Pass ==
  /\ push = "idle" /\ clear = "idle"
  /\ now' \in {t \in now + 1 .. nextTick : t % 24 \in Hours} /\ now' <= MaxHour
  /\ UNCHANGED <<data, log, reading, push, nextTick, before, clear, shown, drawn, lastChart>>

(* Stats.Subscribe takes a packet from its channel ...                     *)
Receive ==
  /\ push = "idle" /\ Len(log) < MaxReadings
  /\ \E v \in Values : reading' = [at |-> now, value |-> v]
  /\ log' = Append(log, reading') /\ push' = "temperature"
  /\ UNCHANGED <<now, data, nextTick, before, clear, shown, drawn, lastChart>>

(* ... and pushes it to the three sets, each under a lock of its own.      *)
Added(day, r) ==
  [p \in Parts |-> IF p = PartOf(r.at)
                     THEN [sum |-> day[p].sum + r.value, count |-> day[p].count + 1]
                     ELSE day[p]]

Push_FreshDay(c) ==
  /\ push = c
  /\ LET bod == Bod(reading.at)
     IN  data' = [data EXCEPT ![c] =
           [b \in DOMAIN data[c] \cup {bod} |->
              IF b = bod THEN Added(EmptyDay, reading) ELSE data[c][b]]]
  /\ push' = AfterChart(c)
  /\ UNCHANGED <<now, log, reading, nextTick, before, clear, shown, drawn, lastChart>>
Push(c) ==
  /\ push = c
  /\ LET bod == Bod(reading.at)
         old == IF bod \in DOMAIN data[c] THEN data[c][bod] ELSE EmptyDay
     IN  data' = [data EXCEPT ![c] =
           [b \in DOMAIN data[c] \cup {bod} |->
              IF b = bod THEN Added(old, reading) ELSE data[c][b]]]
  /\ push' = AfterChart(c)
  /\ UNCHANGED <<now, log, reading, nextTick, before, clear, shown, drawn, lastChart>>

(* Clear: once a day from the start of the server.                         *)
Tick_EarlyByADay ==
  /\ clear = "idle" /\ now = nextTick
  /\ nextTick' = now + 24 /\ before' = now - 24 * (RetentionDays - 1)
  /\ clear' = "temperature"
  /\ UNCHANGED <<now, data, log, reading, push, shown, drawn, lastChart>>
Tick ==
  /\ clear = "idle" /\ now = nextTick
  /\ nextTick' = now + 24 /\ before' = now - 24 * RetentionDays
  /\ clear' = "temperature"
  /\ UNCHANGED <<now, data, log, reading, push, shown, drawn, lastChart>>

Remove(c) ==
  /\ clear = c
  /\ data' = [data EXCEPT ![c] = [b \in {d \in DOMAIN data[c] : d >= before} |-> data[c][b]]]
  /\ clear' = AfterChart(c)
  /\ UNCHANGED <<now, log, reading, push, nextTick, before, shown, drawn, lastChart>>

(* The page: an event brings the last reading, and the series as they are  *)
(* at some moment; one that is longer than any before is drawn.            *)
OnEvent_OneLength ==
  /\ shown' = Len(log)
  /\ LET series == [c \in PageCharts |-> TimeSeries(data[c])]
     IN  IF lastChart["temperature"] < Cardinality(series["temperature"])
           THEN /\ drawn' = series
                /\ lastChart' = [c \in PageCharts |-> Cardinality(series["temperature"])]
           ELSE UNCHANGED <<drawn, lastChart>>
  /\ UNCHANGED <<now, data, log, reading, push, nextTick, before, clear>>
OnEvent ==
  /\ shown' = Len(log)
  /\ LET series == [c \in PageCharts |-> TimeSeries(data[c])]
         longer == {c \in PageCharts : lastChart[c] < Cardinality(series[c])}
     IN  /\ drawn' = [c \in PageCharts |-> IF c \in longer THEN series[c] ELSE drawn[c]]
         /\ lastChart' = [c \in PageCharts |->
              IF c \in longer THEN Cardinality(series[c]) ELSE lastChart[c]]
  /\ UNCHANGED <<now, data, log, reading, push, nextTick, before, clear>>

Next ==
  \/ Pass \/ Receive \/ Tick \/ OnEvent
  \/ \E c \in Charts : Push(c) \/ Remove(c)

Spec == Init /\ [][Next]_vars

-----------------------------------------------------------------------------
(* The sum and the number of the readings of a part of a day, as many as   *)
(* came.                                                                   *)
InPart(r, b, p) == Bod(r.at) = b /\ PartOf(r.at) = p

CountOf(readings, b, p) ==
  Cardinality({i \in DOMAIN readings : InPart(readings[i], b, p)})

SumOf(readings, b, p) ==
  LET sum[n \in 0 .. Len(readings)] ==
        IF n = 0 THEN 0
        ELSE sum[n - 1] + (IF InPart(readings[n], b, p) THEN readings[n].value ELSE 0)
  IN  sum[Len(readings)]

(* No reading is lost or counted twice: when nobody is at work, each part  *)
(* of each day of each set has the sum and the number of the readings that *)
(* came in it, whatever was removed in between and at whatever hour        *)
(* (dataset.go:38-52).                                                     *)
SumsMatch ==
  push = "idle" => \A c \in Charts : \A b \in DOMAIN data[c], p \in Parts :
    data[c][b][p] = [sum |-> SumOf(log, b, p), count |-> CountOf(log, b, p)]

(* The three charts have the same points when nobody is at work, though    *)
(* Clear and Stats go through the sets independently (stats.go:54-86).     *)
SetsAgree ==
  push = "idle" /\ clear = "idle" =>
    \A c, d \in Charts : DOMAIN data[c] = DOMAIN data[d]

(* Nothing recent is removed: a reading of the last days, less the one that*)
(* its day may have begun before it, is in every set it was pushed to.     *)
RecentKept ==
  push = "idle" => \A c \in Charts : \A i \in DOMAIN log :
    log[i].at > now - 24 * (RetentionDays - 1) => Bod(log[i].at) \in DOMAIN data[c]

(* And nothing is kept for ever: no set holds a day that began before the  *)
(* retention and the day between two ticks (main.go:31, stats.go:83-86).   *)
WindowBounded ==
  clear = "idle" => \A c \in Charts : \A b \in DOMAIN data[c] :
    b >= now - 24 * (RetentionDays + 1)

(* The window that main.go promises is kept from both sides, and alike in  *)
(* the three sets.                                                         *)
RetentionKept == RecentKept /\ WindowBounded /\ SetsAgree

(* Until a day that has readings is removed, an event leaves every part of *)
(* a day of its series drawn (index.html:294-302).                         *)
Times(series) == {point.at : point \in series}

DrawnUntilRemoval ==
  [][OnEvent /\ (\A i \in DOMAIN log : Bod(log[i].at) >= before) =>
       \A c \in PageCharts : Times(drawn'[c]) = Times(TimeSeries(data[c]))]_vars

(* The page follows the readings: what an event leaves drawn ends where the*)
(* series ends.  Not so: a series that is not longer than one drawn before *)
(* is never drawn, and after the first removals none is longer.            *)
NewestPointDrawn ==
  [][OnEvent => \A c \in PageCharts : \A point \in TimeSeries(data[c]) :
       \E last \in drawn'[c] : last.at >= point.at]_vars
=============================================================================
