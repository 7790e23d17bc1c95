----------------------------- MODULE EasyServer -----------------------------
(***************************************************************************)
(* easy_server: one goroutine reads the serial port and updates four       *)
(* histograms, another one, the metrics library's, pushes them now and     *)
(* then.  A histogram is known by how many readings it has been given.     *)
(* Each update and each reading of a histogram is a step of its own.       *)
(***************************************************************************)
EXTENDS SerialReader, Naturals

CONSTANT MaxLines  \* bound: lines that are readings

VARIABLES
  main,       \* "setup", "process" or "returned"
  signalled,  \* the context of signal.NotifyContext is done
  histogram,  \* how many readings each histogram has
  update,     \* what observe updates next, "none" outside of observe
  push,       \* what the push writes next, "none" between two pushes
  pushed      \* what this push has written so far

vars == <<serialVars, main, signalled, histogram, update, push, pushed>>

Fields == {"temperature", "humidity", "pressure", "voltage"}

(* observe updates in the order of the payload, the library writes in the  *)
(* order of the metrics' names.                                            *)
AfterUpdate(f) ==
  CASE f = "temperature" -> "humidity" [] f = "humidity" -> "pressure"
    [] f = "pressure" -> "voltage"     [] f = "voltage" -> "none"

AfterWrite(f) ==
  CASE f = "humidity" -> "pressure"     [] f = "pressure" -> "temperature"
    [] f = "temperature" -> "voltage"   [] f = "voltage" -> "none"

NothingPushed == [f \in Fields |-> 0]

TypeOK ==
  /\ SerialTypeOK
  /\ main \in {"setup", "process", "returned"} /\ signalled \in BOOLEAN
  /\ histogram \in [Fields -> 0 .. MaxLines]
  /\ update \in Fields \cup {"none"} /\ push \in Fields \cup {"none"}
  /\ pushed \in [Fields -> 0 .. histogram["temperature"]]

Init ==
  /\ SerialOff /\ main = "setup" /\ signalled = FALSE
  /\ histogram = [f \in Fields |-> 0] /\ pushed = NothingPushed
  /\ update = "none" /\ push = "none"

(* main: a push URL that cannot be parsed ends it, otherwise process runs. *)
Setup ==
  /\ main = "setup"
  /\ \/ main' = "returned" /\ UNCHANGED serialVars
     \/ main' = "process" /\ serial' = "top" /\ UNCHANGED port
  /\ UNCHANGED <<signalled, histogram, update, push, pushed>>

Signal ==
  /\ ~signalled /\ signalled' = TRUE
  /\ UNCHANGED <<serialVars, main, histogram, update, push, pushed>>

SerialStep ==
  /\ \/ SerialGoOn(signalled) \/ SerialStop(signalled) \/ SerialOpen \/ SerialSleep
     \/ update = "none" /\ (SerialSkip(signalled) \/ SerialLeave(signalled))
     \/ SerialClose(signalled)
  /\ UNCHANGED <<main, signalled, histogram, update, push, pushed>>

SerialRead ==
  /\ SerialScan
  /\ UNCHANGED <<main, signalled, histogram, update, push, pushed>>

(* A line that parsePayload accepts goes to observe, the loop then goes on.*)
Accept ==
  /\ serial = "line" /\ ~signalled /\ update = "none"
  /\ histogram["temperature"] < MaxLines
  /\ update' = "temperature"
  /\ UNCHANGED <<serialVars, main, signalled, histogram, push, pushed>>

Observe(f) ==
  /\ update = f
  /\ histogram' = [histogram EXCEPT ![f] = @ + 1]
  /\ update' = AfterUpdate(f)
  /\ IF f = "voltage" THEN serial' = "scan" /\ UNCHANGED port ELSE UNCHANGED serialVars
  /\ UNCHANGED <<main, signalled, push, pushed>>

Return ==
  /\ main = "process" /\ serial = "returned"
  /\ main' = "returned"
  /\ UNCHANGED <<serialVars, signalled, histogram, update, push, pushed>>

(* The library's goroutine, until the context is done.                     *)
BeginPush ==
  /\ main = "process" /\ push = "none" /\ ~signalled
  /\ push' = "humidity" /\ pushed' = NothingPushed
  /\ UNCHANGED <<serialVars, main, signalled, histogram, update>>

WriteHistogram_FromTheEnd(f) ==
  /\ push = f
  /\ pushed' = [pushed EXCEPT ![f] = histogram[f]]
  /\ push' = AfterUpdate(f)
  /\ UNCHANGED <<serialVars, main, signalled, histogram, update>>
WriteHistogram(f) ==
  /\ push = f
  /\ pushed' = [pushed EXCEPT ![f] = histogram[f]]
  /\ push' = AfterWrite(f)
  /\ UNCHANGED <<serialVars, main, signalled, histogram, update>>

Next ==
  \/ Setup \/ Signal \/ SerialStep \/ SerialRead \/ Accept \/ Return \/ BeginPush
  \/ \E f \in Fields : Observe(f) \/ WriteHistogram(f)

(* The scheduler runs both goroutines; the port owes us nothing.           *)
Spec ==
  /\ Init /\ [][Next]_vars
  /\ WF_vars(Setup) /\ WF_vars(SerialStep) /\ WF_vars(Return)
  /\ \A f \in Fields : WF_vars(Observe(f)) /\ WF_vars(WriteHistogram(f))

-----------------------------------------------------------------------------
(* A push is put together while readings come in.  Yet what it writes later*)
(* lacks at most the one reading in hand of what it has written earlier:   *)
(* the push at worst tells of a temperature before its voltage             *)
(* (main.go:84-89, 184-186).                                               *)
PushNearlyComplete ==
  push = "none" =>
    /\ pushed["pressure"] + 1 >= pushed["humidity"]
    /\ pushed["temperature"] >= pushed["pressure"]
    /\ pushed["voltage"] + 1 >= pushed["temperature"]

(* After a signal the program ends, unless its port says nothing.          *)
EndsWhenSignalled ==
  (main = "process" /\ signalled) ~> (main = "returned" \/ serial = "scan")
=============================================================================
