------------------------------ MODULE BytePump ------------------------------
(***************************************************************************)
(* What a caller of a stream session is promised (itb3/stream.py:91-94,    *)
(* pipeline.py:337-341): the transform of the source reaches the           *)
(* destination in order and without a gap, a normal return means all of it *)
(* did, and the call does come back.                                       *)
(***************************************************************************)
EXTENDS Integers, Sequences

CONSTANT Slices     \* the source: this many slices

VARIABLES out,      \* what the destination has received
          status    \* "running", "done" or "raised"

pumpVars == <<out, status>>

\* The transform, unit by unit: one unit for each slice, then the terminal
\* bytes the session adds at the end.
Terminal == Slices + 1
Expected == [i \in 1..Terminal |-> i]

PumpInit == out = <<>> /\ status = "running"

Deliver ==
    /\ status = "running"
    /\ \E n \in 1..Terminal :
        /\ n > Len(out)
        /\ out' = SubSeq(Expected, 1, n)
    /\ UNCHANGED status

Complete ==
    /\ status = "running"
    /\ out = Expected
    /\ status' = "done"
    /\ UNCHANGED out

Raise ==
    /\ status = "running"
    /\ status' = "raised"
    /\ UNCHANGED out

PumpNext == Deliver \/ Complete \/ Raise

PumpSteps == PumpInit /\ [][PumpNext]_pumpVars
PumpSpec == PumpSteps /\ WF_pumpVars(PumpNext)
=============================================================================
