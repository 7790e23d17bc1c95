----------------------------- MODULE FrameRelay -----------------------------
(***************************************************************************)
(* What the receiver promises on its serial line: every line shows a frame *)
(* that arrived undamaged, in the order of arrival, and none twice.  Frames*)
(* may get lost, and a reset begins anew.                                  *)
(***************************************************************************)
EXTENDS Naturals

CONSTANT Unfit  \* the frames that must not be shown

VARIABLES
  received,  \* number of the last frame that arrived
  lines,     \* how many lines were printed
  shown      \* number of the frame on the last one

Init == received = 0 /\ lines = 0 /\ shown = 0

Arrive == received' = received + 1 /\ UNCHANGED <<lines, shown>>

Show ==
  /\ \E n \in (shown + 1) .. received : n \notin Unfit /\ shown' = n
  /\ lines' = lines + 1
  /\ UNCHANGED received

Reset == received' = 0 /\ lines' = 0 /\ shown' = 0

Next == Arrive \/ Show \/ Reset

Spec == Init /\ [][Next]_<<received, lines, shown>>
=============================================================================
