----------------------------- MODULE MotorNodes -----------------------------
(***************************************************************************)
(* The AW8697 driver behind /sys/class/meizu/motor, as the writer_ of      *)
(* TimedMotor sees it.  The driver is not part of the repository; what is  *)
(* said of it here is what vibrator/ relies on.  A write maps the device   *)
(* to the set of its possible outcomes, the failing ones included: a       *)
(* write that reports failure may or may not have taken effect.            *)
(***************************************************************************)

(***************************************************************************)
(* What the chip is doing: nothing, a finite RAM wave that ends by itself, *)
(* a RAM carrier start still queued in the driver, or the carrier, which   *)
(* loops until it is stopped.                                              *)
(***************************************************************************)
Chip    == {"idle", "wave", "queued", "carrier"}
Carrier == {"queued", "carrier"}

(* Starting a wave resets the gain; "set" is the gain last asked for.      *)
Gain == {"reset", "set"}

(* A device outcome: did the last write succeed, does the HAL believe the  *)
(* motor is on, and what does the chip do.                                 *)
Device == [ok : BOOLEAN, active : BOOLEAN, chip : Chip, gain : Gain]

(* "enable 0" drains the queued starts and stops the chip.                 *)
EnableOff(d) ==
    {e \in Device : /\ e.active = d.active /\ e.gain = d.gain
                    /\ e.chip = "idle" \/ (~e.ok /\ e.chip = d.chip)}

(* "ram_loop" starts the carrier and "set_mback" a finite wave.  A start   *)
(* that succeeds replaces whatever ran or was queued before; a carrier     *)
(* whose start failed may still be queued.                                 *)
Started(loop) == IF loop THEN "carrier" ELSE "wave"
MayRun(loop)  == IF loop THEN Carrier ELSE {"wave"}
StartControl(d, loop) ==
    {e \in Device :
        /\ e.active = d.active
        /\ \/ (e.ok /\ e.chip = Started(loop) /\ e.gain = "reset")
           \/ /\ ~e.ok /\ e.chip \in {d.chip, "idle"} \cup MayRun(loop)
              /\ e.gain \in {d.gain, "reset"}}

WriteGain(d) ==
    {e \in Device : /\ e.active = d.active /\ e.chip = d.chip
                    /\ e.gain = "set" \/ (~e.ok /\ e.gain = d.gain)}
=============================================================================
