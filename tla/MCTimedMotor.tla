---------------------------- MODULE MCTimedMotor ----------------------------
(***************************************************************************)
(* TimedMotor for TLC.  A tick of delay, a one-tick tap and a NOOP tap,    *)
(* which writes nothing, make the compositions whose taps differ in kind.  *)
(***************************************************************************)
EXTENDS TimedMotor

Now     == [delayMs |-> 0, durationMs |-> 1, gain |-> 1]
Later   == [delayMs |-> 1, durationMs |-> 1, gain |-> 1]
Noop    == [delayMs |-> 0, durationMs |-> 0, gain |-> 0]
LateNoop == [delayMs |-> 1, durationMs |-> 0, gain |-> 0]

MCDurations    == {1, 2}
MCCompositions == {<<Now>>, <<Later, Now>>, <<Noop, Later>>, <<LateNoop>>}
=============================================================================
