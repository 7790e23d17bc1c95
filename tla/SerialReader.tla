---------------------------- MODULE SerialReader ----------------------------
(***************************************************************************)
(* The loop that reads lines from a serial port and opens it again when it *)
(* is gone: serial.Service.Run of the server, and process of easy_server,  *)
(* which is the same code.  Each program has a module that EXTENDS this    *)
(* one and says what stops the loop (done) and what a line does.           *)
(***************************************************************************)
VARIABLES
  serial,  \* program counter of the loop
  port     \* the port is open

serialVars == <<serial, port>>

SerialTypeOK ==
  /\ serial \in {"off", "top", "open", "scan", "line", "close", "sleep", "returned"}
  /\ port \in BOOLEAN

SerialOff == serial = "off" /\ port = FALSE

(* The select at the top of the loop.                                      *)
SerialGoOn(done) ==
  /\ serial = "top" /\ ~done
  /\ serial' = "open" /\ UNCHANGED port

SerialStop(done) ==
  /\ serial = "top" /\ done
  /\ serial' = "returned" /\ UNCHANGED port

(* serial.Open, which may find no device.                                  *)
SerialOpen ==
  /\ serial = "open"
  /\ \/ serial' = "scan" /\ port' = TRUE
     \/ serial' = "sleep" /\ UNCHANGED port

SerialSleep ==
  /\ serial = "sleep"
  /\ serial' = "top" /\ UNCHANGED port

(* reader.Scan() blocks in the read of the port, which knows nothing of the*)
(* context, until there is a line, or the end of the port, or an error.    *)
SerialScan ==
  /\ serial = "scan"
  /\ serial' \in {"line", "close"} /\ UNCHANGED port

(* A line that is no packet is skipped; one that is goes to Handle, the    *)
(* part of the program that composes this loop.                            *)
SerialSkip(done) ==
  /\ serial = "line" /\ ~done
  /\ serial' = "scan" /\ UNCHANGED port

SerialLeave(done) ==
  /\ serial = "line" /\ done
  /\ serial' = "close" /\ UNCHANGED port

(* port.Close(), and then either the error of the context or another try.  *)
SerialClose(done) ==
  /\ serial = "close"
  /\ serial' = IF done THEN "returned" ELSE "sleep"
  /\ port' = FALSE

(* The loop holds the port only while it reads: before it tries again, and *)
(* when it has returned, the port is free (serial.go:48-50).               *)
PortReleased == port => serial \in {"scan", "line", "close"}
=============================================================================
