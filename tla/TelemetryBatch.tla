--------------------------- MODULE TelemetryBatch ---------------------------
(***************************************************************************)
(* What one waking period of the sender promises to the air: it takes up   *)
(* to Batch samples, and transmits them in the order they were taken, none *)
(* twice, none skipped.  A restart (deep sleep or reset) begins anew.      *)
(***************************************************************************)
EXTENDS Naturals

CONSTANT Batch

VARIABLES
  taken,       \* samples taken in this period
  transmitted, \* number of the last sample handed to the radio
  frames       \* how many samples were handed to the radio

Init == taken = 0 /\ transmitted = 0 /\ frames = 0

Sample ==
  taken < Batch /\ taken' = taken + 1 /\ UNCHANGED <<transmitted, frames>>

Transmit ==
  /\ transmitted < taken
  /\ transmitted' = transmitted + 1
  /\ frames' = frames + 1
  /\ UNCHANGED taken

Restart == taken' = 0 /\ transmitted' = 0 /\ frames' = 0

Next == Sample \/ Transmit \/ Restart

Spec == Init /\ [][Next]_<<taken, transmitted, frames>>
=============================================================================
