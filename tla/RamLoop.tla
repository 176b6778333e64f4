------------------------------ MODULE RamLoop ------------------------------
(***************************************************************************)
(* vibrator/RamLoop.h: start() against the work queue of the driver.  The  *)
(* "enable 1" store only queues the routine that programs the sequence,    *)
(* its initial gain and the GO bit, so start() waits until the index shows *)
(* the new sequence before the caller may write a gain of its own.         *)
(* The calls of write() and readIndex() are separate steps, and the driver *)
(* runs between them.  Names are such that VibratorProofs can extend this  *)
(* module and VibratorService.                                             *)
(***************************************************************************)
EXTENDS Naturals, MotorNodes

CONSTANT MaxPolls       \* readbacks that fit in the 50 ms limit

ASSUME MaxPollsAssumption == MaxPolls \in Nat \ {0}

VARIABLES
    pc,         \* the next call of start(), or "done"
    result,     \* what start() returned: "none" while it runs
    polls,      \* readbacks so far
    drained,    \* the last "enable 0" succeeded
    asked,      \* the caller wrote its gain after a start that succeeded
    work,       \* the driver's routine: "none", "queued" or "running"
    index,      \* first wave of the programmed sequence
    waveform,   \* the wave the routine will program
    playing, gain, \* what plays ("idle", "wave" or "carrier") and at which gain
    entry       \* history: the device when start() was called

caller  == <<pc, result, polls, drained, asked, entry>>
driver  == <<work, index, waveform, playing, gain>>
ramVars == <<caller, driver>>

Wave == 19

(* The device as TimedMotor's model sees it: a routine yet to start the    *)
(* carrier is a queued start.                                              *)
ChipSeen == IF work = "none" THEN playing ELSE "queued"
Seen == [ok |-> TRUE, active |-> TRUE, chip |-> ChipSeen, gain |-> gain]

(***************************************************************************)
(* The driver.                                                             *)
(***************************************************************************)
(* Cancelling the work waits for a routine that already runs.              *)
EnableZero == /\ work # "running" /\ work' = "none" /\ playing' = "idle"
              /\ UNCHANGED <<index, waveform, gain>>

SequenceZero_Skipped == UNCHANGED driver
SequenceZero == index' = 0 /\ UNCHANGED <<work, waveform, playing, gain>>

SelectWave == waveform' = Wave /\ UNCHANGED <<work, index, playing, gain>>

EnableOne == work' = "queued" /\ UNCHANGED <<index, waveform, playing, gain>>

(* The routine holds the driver's mutex from the first step to the second. *)
RoutineProgram ==
    /\ work = "queued" /\ work' = "running" /\ index' = waveform
    /\ UNCHANGED <<waveform, playing, gain, caller>>

RoutineGo ==
    /\ work = "running" /\ work' = "none"
    /\ gain' = "reset" /\ playing' = "carrier"
    /\ UNCHANGED <<index, waveform, caller>>

FiniteWaveEnds ==
    /\ playing = "wave" /\ playing' = "idle"
    /\ UNCHANGED <<work, index, waveform, gain, caller>>

(***************************************************************************)
(* start().                                                                *)
(***************************************************************************)
(* A write that fails may have had its effect; the && chain stops at it.   *)
Write(from, effect, to) ==
    /\ pc = from
    /\ \/ effect /\ pc' = to
       \/ (effect \/ UNCHANGED driver) /\ pc' = "giveUp"
    /\ UNCHANGED <<result, polls, drained, asked, entry>>

(* index_show takes the mutex of the routine.                              *)
IndexReadable == work # "running"

Return(r) == pc' = "done" /\ result' = r

Expired(n) == n = MaxPolls

Poll ==
    /\ pc = "poll" /\ IndexReadable
    /\ \/ index = Wave /\ Return("started") /\ UNCHANGED polls
       \/ pc' = "giveUp" /\ UNCHANGED <<result, polls>>      \* readIndex() < 0
       \/ /\ index # Wave /\ polls' = (polls + 1) % (MaxPolls + 1)
          /\ pc' = IF Expired(polls') THEN "giveUp" ELSE "poll"
          /\ UNCHANGED result
    /\ UNCHANGED <<drained, asked, entry, driver>>

GiveUp_NoDrain ==
    /\ pc = "giveUp" /\ Return("failed") /\ drained' = TRUE
    /\ UNCHANGED <<polls, asked, entry, driver>>
GiveUp ==
    /\ pc = "giveUp" /\ Return("failed")
    /\ \/ EnableZero /\ drained' = TRUE
       \/ (EnableZero \/ UNCHANGED driver) /\ drained' = FALSE
    /\ UNCHANGED <<polls, asked, entry>>

(* What TimedMotor::play does next: its own gain, or, later, a new start.  *)
ApplyGain ==
    /\ pc = "done" /\ result = "started" /\ ~asked /\ asked' = TRUE
    /\ gain' = "set"
    /\ UNCHANGED <<pc, result, polls, drained, entry, work, index, waveform, playing>>

StartAgain ==
    /\ pc = "done" /\ pc' = "drain" /\ result' = "none" /\ polls' = 0
    /\ asked' = FALSE /\ entry' = Seen
    /\ UNCHANGED <<drained, driver>>

RamInit ==
    /\ pc = "drain" /\ result = "none" /\ polls = 0
    /\ drained = FALSE /\ asked = FALSE
    /\ work \in {"none", "queued"} /\ index \in {0, Wave} /\ waveform \in {0, Wave}
    /\ playing \in {"idle", "wave", "carrier"} /\ gain \in Gain
    /\ entry = Seen

Calls ==
    \/ Write("drain", EnableZero, "clear")
    \/ Write("clear", SequenceZero, "select")
    \/ Write("select", SelectWave, "schedule")
    \/ Write("schedule", EnableOne, "poll")
    \/ Poll \/ GiveUp

Routine == RoutineProgram \/ RoutineGo

RamNext == Calls \/ ApplyGain \/ StartAgain \/ Routine \/ FiniteWaveEnds

RamSpec == RamInit /\ [][RamNext]_ramVars

(***************************************************************************)
(* Properties.                                                             *)
(***************************************************************************)
(* A start that returned true has started: the readback was of the new     *)
(* sequence, and not of wave 19 left from before (RamLoop.h:18-19).        *)
StartedMeansRunning == result = "started" => work = "none" /\ playing = "carrier"

(* The gain the caller writes after a start is not overtaken by the        *)
(* initial gain of the queued routine (RamLoop.h:10-11).                   *)
AmplitudeWins == asked => gain = "set"

(* No queued restart survives a failed start whose drain succeeded         *)
(* (RamLoop.h:35-36).                                                      *)
NoSurvivor == result = "failed" /\ drained => work = "none" /\ playing = "idle"

(* What start() returned is so, however long ago it did.                   *)
ResultIsTrue == StartedMeansRunning /\ AmplitudeWins /\ NoSurvivor

(* Whatever happens in start(), it ends as TimedMotor's model of the       *)
(* "ram_loop" control says it may.                                         *)
EndsAsModelled ==
    [][result = "none" /\ result' # "none" =>
         \E d \in StartControl(entry, TRUE) :
            /\ d.ok = (result' = "started")
            /\ d.chip = ChipSeen' /\ d.gain = gain']_ramVars
=============================================================================
