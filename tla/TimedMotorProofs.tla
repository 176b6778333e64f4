-------------------------- MODULE TimedMotorProofs --------------------------
(***************************************************************************)
(* Proofs about TimedMotor, for every set of durations and compositions    *)
(* and every number of requests.                                           *)
(***************************************************************************)
EXTENDS TimedMotor, TLAPS

USE DEF Device, Chip, Carrier, Gain

(***************************************************************************)
(* What the hardware helpers return.                                       *)
(***************************************************************************)
(* A stop leaves the chip idle or unchanged; it is a success exactly when  *)
(* it leaves active_ false.                                                *)
LEMMA StopHardwareOutcome ==
    ASSUME NEW d \in Device, d.ok, NEW e \in StopHardware(d)
    PROVE  /\ e \in Device /\ e.gain = d.gain /\ e.chip \in {d.chip, "idle"}
           /\ e.active = ~e.ok
           /\ e.active => d.active
           /\ e.ok /\ d.active => e.chip = "idle"
           /\ e.ok /\ ~d.active => e.chip = d.chip
<1>1. CASE ~d.active
  BY <1>1 DEF StopHardware
<1>2. CASE d.active
  <2>1. PICK w \in EnableOff(d) : e = [w EXCEPT !.active = ~w.ok]
    BY <1>2 DEF StopHardware
  <2> QED BY <1>2, <2>1 DEF EnableOff
<1> QED BY <1>1, <1>2

(* A start always leaves active_ set; a failed one may have put on the     *)
(* chip what it was to start.                                              *)
LEMMA StartPlaybackOutcome ==
    ASSUME NEW d \in Device, d.ok, NEW loop \in BOOLEAN,
           NEW e \in StartPlayback(d, loop)
    PROVE  /\ e \in Device /\ e.active
           /\ e.ok => e.chip = Started(loop) /\ e.gain = "set"
           /\ e.chip \in {d.chip, "idle"} \cup MayRun(loop)
<1> DEFINE on == [d EXCEPT !.active = TRUE]
<1>1. on \in Device /\ on.active = TRUE /\ on.chip = d.chip
  OBVIOUS
<1> HIDE DEF on
<1>2. PICK s \in StartControl(on, loop) : e \in IF s.ok THEN WriteGain(s) ELSE {s}
  BY DEF StartPlayback, on
<1>3. /\ s \in Device /\ s.active = TRUE
      /\ s.ok => s.chip = Started(loop)
      /\ s.chip \in {d.chip, "idle"} \cup MayRun(loop)
  BY <1>1, <1>2 DEF StartControl, Started, MayRun
<1>4. CASE s.ok
  BY <1>2, <1>3, <1>4 DEF WriteGain
<1>5. CASE ~s.ok
  BY <1>2, <1>3, <1>5
<1> QED BY <1>4, <1>5

(* A tap never puts a carrier on the chip.  One that succeeds leaves none  *)
(* there that active_ owned, and its gain is the one asked for.            *)
LEMMA StartTapOutcome ==
    ASSUME NEW d \in Device, d.ok, NEW tap \in Tap, NEW e \in StartTap(d, tap)
    PROVE  /\ e \in Device /\ e.chip \in {d.chip, "idle", "wave"}
           /\ e.ok /\ d.active => /\ e.chip \notin Carrier
                                  /\ e.chip = "wave" => e.gain = "set"
           /\ e.ok /\ ~d.active => \/ e.chip = d.chip /\ e.gain = d.gain
                                   \/ e.chip = "wave" /\ e.gain = "set"
           /\ ~e.active => e.ok /\ (d.active => e.chip = "idle")
           /\ ~e.active /\ ~d.active => e.chip = d.chip /\ e.gain = d.gain
<1>1. CASE tap.gain = 0
  BY <1>1, StopHardwareOutcome DEF StartTap
<1>2. CASE tap.gain # 0
  BY <1>2, StartPlaybackOutcome DEF StartTap, Started, MayRun
<1> QED BY <1>1, <1>2

(* Stopping after a failed start either owns what is left or left nothing. *)
LEMMA StopAfterFailure ==
    ASSUME NEW d \in Device, ~d.ok, d.active, NEW e \in StopHardware(Retry(d))
    PROVE  /\ e \in Device /\ e.active = ~e.ok
           /\ e.chip \in {d.chip, "idle"}
           /\ ~e.active => e.chip = "idle"
<1>1. Retry(d) \in Device /\ Retry(d).ok /\ Retry(d).active /\ Retry(d).chip = d.chip
  BY DEF Retry
<1> QED BY <1>1, StopHardwareOutcome

(* A start or its clean-up leaves a device that IInv can live with.        *)
LEMMA OrElseStopOutcome ==
    ASSUME NEW outcomes \in SUBSET Device,
           \A d \in outcomes : ~d.ok => d.active,
           NEW e \in OrElseStop(outcomes)
    PROVE  \/ e.ok /\ e \in outcomes
           \/ /\ e \in Device /\ ~e.ok
              /\ ~e.active => e.chip = "idle"
<1>1. PICK d \in outcomes :
         e \in IF d.ok THEN {d}
               ELSE {[f EXCEPT !.ok = FALSE] : f \in StopHardware(Retry(d))}
  BY DEF OrElseStop
<1>2. CASE d.ok
  BY <1>1, <1>2
<1>3. CASE ~d.ok
  <2>1. PICK f \in StopHardware(Retry(d)) : e = [f EXCEPT !.ok = FALSE]
    BY <1>1, <1>3
  <2>2. d \in Device /\ d.active
    BY <1>3
  <2>3. f \in Device /\ f.chip \in {d.chip, "idle"} /\ (~f.active => f.chip = "idle")
    BY <1>3, <2>1, <2>2, StopAfterFailure
  <2>4. e \in Device /\ ~e.ok /\ e.active = f.active /\ e.chip = f.chip
    BY <2>1, <2>3 DEF Device
  <2> QED BY <2>3, <2>4
<1> QED BY <1>2, <1>3

(* At the end of a wait nothing new is on the chip; a carrier that ran     *)
(* under its own request is gone, or active_ stays set.                    *)
LEMMA SettleOutcome ==
    ASSUME continuous \in BOOLEAN, NEW d \in Device, NEW e \in Settle(d)
    PROVE  /\ e \in Device /\ e.gain = d.gain /\ e.chip \in {d.chip, "idle"}
           /\ e.ok => ~e.active /\ (continuous /\ d.active => e.chip = "idle")
           /\ ~e.ok => e.active = d.active \/ e.active
           /\ ~d.ok => e.chip = d.chip /\ e.active = d.active
           /\ e.ok => d.ok
           /\ d.ok /\ ~e.active => e.ok
<1>1. PICK f \in IF d.ok /\ continuous THEN StopHardware(d) ELSE {d} :
         e = [f EXCEPT !.active = f.active /\ ~f.ok]
  BY DEF Settle
<1>2. CASE d.ok /\ continuous
  BY <1>1, <1>2, StopHardwareOutcome
<1>3. CASE ~(d.ok /\ continuous)
  BY <1>1, <1>3
<1> QED BY <1>2, <1>3
(***************************************************************************)
(* The inductive invariant.                                                *)
(***************************************************************************)
(* What the hardware does, against what the HAL believes of it.            *)
HardwareInv ==
    /\ CarrierOwned /\ CarrierHasDeadline /\ SilencedIsSilent /\ GainApplied
    /\ pending => chip # "queued"
    /\ ready /\ ~active /\ chip = "wave" => gain = "set"
    /\ delivering # 0 /\ delivering = generation => chip \notin Carrier

(* Which request the callbacks belong to.                                  *)
RequestInv ==
    /\ pending => ready /\ callback = generation /\ generation > 0
    /\ delivering <= generation /\ heldGeneration <= generation
    /\ delivering # 0 => worker = "unlocked"
    /\ delivering # 0 => delivering # generation \/ ~pending

(* What the worker is asleep for.                                          *)
WorkerInv ==
    /\ TapInBounds
    /\ worker = "timed" /\ ~Interrupted => timer = deadline

IInv == TypeOK /\ HardwareInv /\ RequestInv /\ WorkerInv

(* The device the actions start from is one.                               *)
LEMMA DevIsDevice ==
    ASSUME TypeOK PROVE Dev \in Device /\ Dev.ok
                        /\ Dev.active = active /\ Dev.chip = chip /\ Dev.gain = gain
BY DEF TypeOK, StatesOK, Dev

(* The empty composition has the type of one.                              *)
LEMMA NoTaps == <<>> \in Seq(Tap) /\ Len(<<>>) = 0
OBVIOUS

(* The invariant holds before initialize().                                *)
LEMMA InitInv == Init => IInv
<1> SUFFICES ASSUME Init PROVE IInv
  OBVIOUS
<1> USE DEF Init
<1>1. NumbersOK
  BY MaxGenerationAssumption DEF NumbersOK
<1>2. TapsOK
  BY NoTaps DEF TapsOK
<1>3. StatesOK
  BY DEF StatesOK
<1>4. HardwareInv
  BY DEF HardwareInv, CarrierOwned, CarrierHasDeadline, SilencedIsSilent, GainApplied
<1>5. RequestInv /\ WorkerInv
  BY DEF RequestInv, WorkerInv, TapInBounds
<1> QED BY <1>1, <1>2, <1>3, <1>4, <1>5 DEF IInv, TypeOK

USE DEF TypeOK, CarrierOwned, CarrierHasDeadline, SilencedIsSilent, GainApplied

(* initialize() takes ownership of whatever a predecessor left.            *)
LEMMA InitializeInv == IInv /\ Initialize => IInv'
<1> SUFFICES ASSUME IInv, Initialize PROVE IInv'
  OBVIOUS
<1> USE DEF IInv, Initialize, request, tapState, thread, outcome
<1>1. PICK d \in EnableOff(Dev), cont \in BOOLEAN :
        Becomes([d EXCEPT !.active = ~(d.ok /\ cont)])
  OBVIOUS
<1>2. d \in Device /\ d.gain = gain /\ d.chip \in {chip, "idle"}
      /\ (d.ok => d.chip = "idle")
  BY DevIsDevice DEF EnableOff
<1>3. /\ active' = ~(d.ok /\ cont) /\ chip' = d.chip /\ gain' = d.gain
  BY <1>1, <1>2 DEF Becomes
<1>4. NumbersOK' /\ TapsOK' /\ StatesOK'
  BY <1>2, <1>3 DEF NumbersOK, TapsOK, StatesOK
<1>5. HardwareInv'
  BY <1>2, <1>3 DEF HardwareInv, RequestInv, NumbersOK, StatesOK
<1>6. RequestInv' /\ WorkerInv'
  BY DEF RequestInv, WorkerInv, TapInBounds, Interrupted
<1> QED BY <1>4, <1>5, <1>6

(* What a start or a silencing stop has to leave for its request to be in  *)
(* force, or refused.                                                      *)
GoodStart(d, loop) ==
    /\ ~d.active => d.chip \notin Carrier /\ (d.chip = "wave" => d.gain = "set")
    /\ d.ok => /\ d.chip # "queued" /\ (d.chip = "carrier" => loop)
               /\ d.chip \in {"wave", "carrier"} => d.gain = "set"

(* play() and compose() alike: a new request, in force or refused.         *)
LEMMA RequestInvariant ==
    ASSUME IInv, Begin, Notify, AwayFromWorker, UNCHANGED <<quit, ready>>, ~silenced',
           silenced' \in BOOLEAN,
           NEW d \in Device, Becomes(d), GoodStart(d, continuous'),
           NEW ticks \in Nat, IF d.ok THEN Arm(ticks) ELSE DropRequest,
           continuous' \in BOOLEAN, waitingForTap' \in BOOLEAN, TapsOK',
           d.ok => TapInBounds'
    PROVE  IInv'
<1> USE DEF IInv, Begin, AwayFromWorker
<1>1. active' = d.active /\ chip' = d.chip /\ gain' = d.gain
  BY DEF Becomes
<1>2. /\ pending' = d.ok
      /\ callback' = IF d.ok THEN generation + 1 ELSE 0
      /\ deadline' = IF d.ok THEN ticks ELSE deadline
  BY DEF Arm, DropRequest
<1>3. /\ generation \in Nat
      /\ generation + 1 \in 0..MaxGeneration /\ 0 \in 0..MaxGeneration
  BY MaxGenerationAssumption DEF NumbersOK
<1>4. NumbersOK'
  <2>1. callback' \in 0..MaxGeneration /\ deadline' \in Nat
    BY <1>2, <1>3 DEF NumbersOK
  <2> QED BY <1>3, <2>1 DEF NumbersOK
<1>5. StatesOK'
  BY <1>1, <1>2 DEF StatesOK, Notify
<1>6. HardwareInv'
  BY <1>1, <1>2, <1>3 DEF HardwareInv, RequestInv, NumbersOK, GoodStart
<1>7. RequestInv'
  BY <1>2, <1>3 DEF RequestInv, NumbersOK
<1>8. WorkerInv'
  <2>1. TapInBounds'
    BY <1>2 DEF TapInBounds
  <2>2. Interrupted'
    BY <1>3 DEF Interrupted, RequestInv, NumbersOK
  <2> QED BY <2>1, <2>2 DEF WorkerInv
<1> QED BY <1>4, <1>5, <1>6, <1>7, <1>8

(* play() keeps the invariant.                                             *)
LEMMA PlayInv ==
    ASSUME IInv, NEW ticks \in Durations, NEW loop \in BOOLEAN, Play(ticks, loop)
    PROVE  IInv'
<1> DEFINE outcomes == StartPlayback(Dev, loop)
<1>1. PICK d \in OrElseStop(outcomes) :
        Becomes(d) /\ IF d.ok THEN Arm(ticks) ELSE DropRequest
  BY DEF Play
<1>2. /\ outcomes \in SUBSET Device
      /\ \A e \in outcomes : /\ e.active
                             /\ e.ok => e.chip = Started(loop) /\ e.gain = "set"
  BY DevIsDevice, StartPlaybackOutcome DEF IInv
<1> HIDE DEF outcomes
<1>3. d \in Device /\ GoodStart(d, loop)
  BY <1>1, <1>2, OrElseStopOutcome DEF GoodStart, Started
<1>4. TapsOK' /\ TapInBounds'
  BY NoTaps DEF Play, ClearTaps, TapsOK, TapInBounds, IInv
<1>5. ticks \in Nat
  BY DurationsAssumption
<1> QED BY <1>1, <1>3, <1>4, <1>5, RequestInvariant DEF Play, ClearTaps

(* compose() keeps the invariant.                                          *)
LEMMA ComposeInv ==
    ASSUME IInv, NEW ts \in Compositions, Compose(ts)
    PROVE  IInv'
<1> DEFINE first   == ts[1]
           delayed == first.delayMs > 0
           starts  == StartTap(Dev, first)
           ticks   == IF delayed THEN first.delayMs ELSE first.durationMs
<1>1. ts \in Seq(Tap) /\ Len(ts) >= 1 /\ first \in Tap
  BY CompositionsAssumption
<1>2. ticks \in Nat /\ delayed \in BOOLEAN
  BY <1>1 DEF Tap
<1>3. PICK d \in IF delayed THEN StopHardware(Dev) ELSE OrElseStop(starts) :
        /\ Becomes(d) /\ taps' = IF d.ok THEN ts ELSE <<>>
        /\ IF d.ok THEN Arm(ticks) ELSE DropRequest
  BY DEF Compose
<1> HIDE DEF first, delayed, ticks
<1>4. d \in Device /\ GoodStart(d, FALSE)
  <2>0. /\ active \/ (chip \notin Carrier /\ (chip = "wave" => gain = "set"))
        /\ Dev \in Device /\ Dev.ok /\ Dev.active = active
        /\ Dev.chip = chip /\ Dev.gain = gain
    BY DevIsDevice DEF Compose, Begin, IInv, HardwareInv
  <2>1. CASE delayed
    BY <1>3, <2>0, <2>1, StopHardwareOutcome DEF GoodStart
  <2>2. CASE ~delayed
    <3>1. /\ starts \in SUBSET Device
          /\ \A e \in starts : /\ ~e.ok => e.active
                               /\ e.ok => GoodStart(e, FALSE)
      BY <1>1, <2>0, StartTapOutcome DEF GoodStart
    <3> HIDE DEF starts
    <3> QED BY <1>3, <2>2, <3>1, OrElseStopOutcome DEF GoodStart
  <2> QED BY <2>1, <2>2
<1>5. TapsOK' /\ (d.ok => TapInBounds')
  BY <1>1, <1>3, NoTaps DEF Compose, TapsOK, TapInBounds
<1> QED BY <1>2, <1>3, <1>4, <1>5, RequestInvariant DEF Compose, delayed, first

(* stop() keeps the invariant, and is silent only if it succeeded.         *)
LEMMA StopInv == ASSUME IInv, Stop PROVE IInv'
<1> USE DEF IInv, Stop, Begin, AwayFromWorker, DropRequest
<1>1. PICK d \in StopHardware(Dev) : Becomes(d) /\ silenced' = d.ok
  OBVIOUS
<1>2. /\ d \in Device /\ d.gain = gain /\ d.chip \in {chip, "idle"}
      /\ active' = d.active /\ chip' = d.chip /\ gain' = d.gain
      /\ silenced' = d.ok /\ active' = ~d.ok
      /\ d.ok => d.chip = "idle" \/ (~active /\ d.chip = chip)
  BY <1>1, DevIsDevice, StopHardwareOutcome DEF Becomes
<1>3. generation \in Nat /\ generation + 1 \in 0..MaxGeneration /\ 0 \in 0..MaxGeneration
  BY MaxGenerationAssumption DEF NumbersOK
<1>4. NumbersOK'
  BY <1>3 DEF NumbersOK
<1>5. TapsOK'
  BY NoTaps DEF TapsOK
<1>6. StatesOK'
  BY <1>2 DEF StatesOK, Notify
<1>7. HardwareInv'
  <2>1. d.ok => chip' \notin Carrier /\ (chip' = "wave" => gain' = "set")
    BY <1>2 DEF HardwareInv
  <2>2. delivering' # generation'
    BY <1>3 DEF RequestInv, NumbersOK
  <2>3. d.ok \in BOOLEAN /\ active' = ~d.ok /\ silenced' = d.ok /\ ~pending'
    BY <1>2
  <2> QED BY <2>1, <2>2, <2>3 DEF HardwareInv
<1>8. RequestInv'
  BY <1>3 DEF RequestInv, NumbersOK
<1>9. WorkerInv'
  BY DEF WorkerInv, TapInBounds, Interrupted
<1> QED BY <1>4, <1>5, <1>6, <1>7, <1>8, <1>9

(* setAmplitude() keeps the invariant.                                     *)
LEMMA SetAmplitudeInv == ASSUME IInv, SetAmplitude PROVE IInv'
<1> USE DEF IInv, SetAmplitude, request, tapState, thread, outcome
<1>1. PICK d \in WriteGain(Dev) : Becomes(d)
  OBVIOUS
<1>2. /\ active' = active /\ chip' = chip
      /\ gain' \in Gain /\ (gain' = "set" \/ gain' = gain)
  BY <1>1, DevIsDevice DEF WriteGain, Becomes
<1>3. NumbersOK' /\ TapsOK' /\ StatesOK'
  BY <1>2 DEF NumbersOK, TapsOK, StatesOK
<1>4. HardwareInv'
  BY <1>2 DEF HardwareInv
<1>5. RequestInv' /\ WorkerInv'
  BY DEF RequestInv, WorkerInv, TapInBounds, Interrupted
<1> QED BY <1>3, <1>4, <1>5

(* The destructor keeps the invariant.                                     *)
LEMMA DestroyInv == ASSUME IInv, Destroy PROVE IInv'
<1> USE DEF IInv, Destroy, AwayFromWorker, tapState
<1>1. PICK d \in StopHardware(Dev) : Becomes(d)
  OBVIOUS
<1>2. /\ d \in Device /\ d.gain = gain /\ d.chip \in {chip, "idle"}
      /\ active' = d.active /\ chip' = d.chip /\ gain' = d.gain
      /\ ~d.active => d.chip = "idle" \/ (~active /\ d.chip = chip)
  BY <1>1, DevIsDevice, StopHardwareOutcome DEF Becomes
<1>3. NumbersOK' /\ TapsOK' /\ StatesOK'
  BY <1>2 DEF NumbersOK, TapsOK, StatesOK, Notify
<1>4. HardwareInv'
  BY <1>2 DEF HardwareInv
<1>5. RequestInv' /\ WorkerInv'
  BY DEF RequestInv, WorkerInv, TapInBounds, Interrupted
<1> QED BY <1>3, <1>4, <1>5

(***************************************************************************)
(* The worker.                                                             *)
(***************************************************************************)
(* The worker goes back to sleep for the deadline of the request in force. *)
LEMMA ResumeOutcome ==
    ASSUME IInv, Resume, UNCHANGED <<generation, quit>>, deadline' \in Nat
    PROVE  /\ heldGeneration' \in 0..MaxGeneration /\ heldGeneration' <= generation
           /\ timer' \in Nat /\ signalled' = FALSE
           /\ worker' \in {"waiting", "timed", "exited"}
           /\ worker' = "timed" => timer' = deadline'
BY DEF Resume, IInv, NumbersOK, RequestInv

(* Waking, being interrupted and taking the mutex back change only what    *)
(* the worker waits for.                                                   *)
LEMMA SleepAgainInv ==
    ASSUME IInv, Resume, delivering = 0,
           UNCHANGED <<request, tapState, hardware, outcome, quit, ready>>
    PROVE  IInv'
<1> USE DEF IInv, request, tapState, hardware, outcome
<1>1. /\ heldGeneration' \in 0..MaxGeneration /\ heldGeneration' <= generation
      /\ timer' \in Nat /\ signalled' = FALSE
      /\ worker' \in {"waiting", "timed", "exited"}
      /\ worker' = "timed" => timer' = deadline'
  BY ResumeOutcome DEF NumbersOK
<1>2. NumbersOK' /\ TapsOK' /\ StatesOK'
  BY <1>1 DEF NumbersOK, TapsOK, StatesOK
<1>3. HardwareInv' /\ RequestInv'
  BY <1>1 DEF HardwareInv, RequestInv
<1>4. WorkerInv'
  BY <1>1 DEF WorkerInv, TapInBounds
<1> QED BY <1>2, <1>3, <1>4

(* A waiting worker owes no callback.                                      *)
LEMMA WakeInv == IInv /\ (Wake \/ Interrupt \/ Relock) => IInv'
BY SleepAgainInv DEF Wake, Interrupt, Relock, IInv, RequestInv

(* Starting a delayed tap keeps the invariant.                             *)
LEMMA StartDelayedTapInv == ASSUME IInv, StartDelayedTap PROVE IInv'
<1> USE DEF IInv, StartDelayedTap, outcome
<1> DEFINE tap == taps[tapIndex]
<1>1. pending /\ ready /\ delivering = 0 /\ ~quit
  BY DEF TimedOut, Interrupted, RequestInv
<1>2. tap \in Tap /\ tap.durationMs \in Nat
  <2>1. tapIndex \in 1..Len(taps) /\ taps \in Seq(Tap)
    BY <1>1 DEF WorkerInv, TapInBounds, TapsOK
  <2>2. tap \in Tap
    BY <2>1
  <2> QED BY <2>2 DEF Tap
<1>3. PICK d \in StartTap(Dev, tap) : d.ok /\ Becomes(d)
  OBVIOUS
<1>4. /\ d \in Device /\ active' = d.active /\ chip' = d.chip /\ gain' = d.gain
      /\ d.chip \in {chip, "idle", "wave"}
      /\ d.chip = "wave" => d.gain = "set"
      /\ d.chip = "carrier" => d.chip = chip /\ d.gain = gain
      /\ ~d.active => d.chip = "idle" \/ (~active /\ d.chip = chip)
  <2>1. gain = "set" \/ chip # "wave"
    BY <1>1 DEF HardwareInv
  <2> QED BY <1>2, <1>3, <2>1, DevIsDevice, StartTapOutcome DEF Becomes
<1> HIDE DEF tap
<1>5. /\ heldGeneration' \in 0..MaxGeneration /\ heldGeneration' <= generation
      /\ timer' \in Nat /\ signalled' = FALSE
      /\ worker' \in {"waiting", "timed", "exited"}
      /\ worker' = "timed" => timer' = deadline'
  BY <1>2, ResumeOutcome DEF tap
<1>6. NumbersOK' /\ TapsOK' /\ StatesOK'
  <2>1. NumbersOK'
    BY <1>2, <1>5 DEF NumbersOK, tap
  <2>2. TapsOK' /\ StatesOK'
    BY <1>4, <1>5 DEF TapsOK, StatesOK
  <2> QED BY <2>1, <2>2
<1>7. HardwareInv'
  BY <1>1, <1>4 DEF HardwareInv
<1>8. RequestInv' /\ WorkerInv'
  BY <1>1, <1>5 DEF RequestInv, WorkerInv, TapInBounds
<1> QED BY <1>6, <1>7, <1>8

(* The end of a request: the hardware is settled, and the callback taken   *)
(* out of callback_ goes with a motor known to be off.                     *)
LEMMA RetireInv ==
    ASSUME IInv, TimedOut, NEW d \in Device, Becomes(d), Retire(d.ok),
           d.chip \in {chip, "idle", "wave"},
           d.ok => d.chip \notin Carrier,
           ~d.active => d.chip \notin Carrier /\ (d.chip = "wave" => d.gain = "set"),
           tapIndex' \in Nat \ {0}, waitingForTap' \in BOOLEAN
    PROVE  IInv'
<1> USE DEF IInv, Retire
<1>1. pending /\ ready /\ callback = generation /\ ~quit /\ delivering = 0
  BY DEF TimedOut, Interrupted, RequestInv
<1>2. /\ active' = d.active /\ chip' = d.chip /\ gain' = d.gain
      /\ delivering' = IF d.ok THEN generation ELSE 0
  BY <1>1 DEF Becomes
<1>3. NumbersOK'
  <2>1. 0 \in 0..MaxGeneration /\ delivering' \in 0..MaxGeneration
    BY <1>2, MaxGenerationAssumption DEF NumbersOK
  <2> QED BY <2>1 DEF NumbersOK
<1>4. TapsOK' /\ StatesOK'
  BY <1>2, NoTaps DEF TapsOK, StatesOK
<1>5. HardwareInv'
  BY <1>2 DEF HardwareInv
<1>6. RequestInv'
  BY <1>2 DEF RequestInv, NumbersOK
<1>7. WorkerInv'
  BY DEF WorkerInv, TapInBounds
<1> QED BY <1>3, <1>4, <1>5, <1>6, <1>7

(* Settling while a request is in force: what its carrier played is gone,  *)
(* or still owned.                                                         *)
LEMMA SettleInForce ==
    ASSUME IInv, pending, NEW d \in Settle(Dev)
    PROVE  /\ d \in Device /\ d.gain = gain /\ d.chip \in {chip, "idle"}
           /\ d.ok => d.chip \notin Carrier
           /\ ~d.active => d.chip \notin Carrier /\ (d.chip = "wave" => d.gain = "set")
<1>1. continuous \in BOOLEAN /\ Dev \in Device /\ Dev.ok /\ Dev.active = active
      /\ Dev.chip = chip /\ Dev.gain = gain
  BY DevIsDevice DEF IInv, StatesOK
<1>2. /\ active \/ chip \notin Carrier
      /\ chip \in Carrier => continuous
      /\ chip = "wave" => gain = "set"
  BY DEF IInv, HardwareInv, RequestInv
<1> QED BY <1>1, <1>2, SettleOutcome

(* Ending a request at its deadline keeps the invariant.                   *)
LEMMA FinishInv == ASSUME IInv, Finish PROVE IInv'
<1>1. PICK d \in Settle(Dev) : Becomes(d) /\ Retire(d.ok)
  BY DEF Finish
<1>2. TimedOut /\ pending
  BY DEF Finish, TimedOut, Interrupted
<1>3. tapIndex' \in Nat \ {0} /\ waitingForTap' \in BOOLEAN
  BY DEF Finish, IInv, TapsOK, StatesOK
<1> QED BY <1>1, <1>2, <1>3, SettleInForce, RetireInv

(* A delayed tap that fails keeps the invariant.                           *)
LEMMA FailDelayedTapInv == ASSUME IInv, FailDelayedTap PROVE IInv'
<1> USE DEF FailDelayedTap
<1>1. TimedOut /\ pending /\ waitingForTap
  BY DEF TimedOut, Interrupted
<1>2. taps[tapIndex] \in Tap
  BY <1>1 DEF IInv, WorkerInv, TapInBounds, TapsOK
<1>3. PICK d \in StartTap(Dev, taps[tapIndex]) :
        /\ ~d.ok
        /\ \E e \in StopHardware(Retry(d)) : \E f \in Settle(e) :
              Becomes(f) /\ Retire(f.ok)
  OBVIOUS
<1>4. d \in Device /\ d.active /\ d.chip \in {chip, "idle", "wave"}
  BY <1>2, <1>3, DevIsDevice, StartTapOutcome DEF IInv
<1>5. PICK e \in StopHardware(Retry(d)) : \E f \in Settle(e) : Becomes(f) /\ Retire(f.ok)
  BY <1>3
<1>6. /\ e \in Device /\ e.active = ~e.ok /\ e.chip \in {d.chip, "idle"}
      /\ ~e.active => e.chip = "idle"
  BY <1>3, <1>4, StopAfterFailure
<1>7. PICK f \in Settle(e) : Becomes(f) /\ Retire(f.ok)
  BY <1>5
<1>8. /\ f \in Device /\ f.chip \in {e.chip, "idle"}
      /\ f.ok => f.chip = "idle"
      /\ ~f.active => f.chip = "idle"
  BY <1>6, SettleOutcome DEF IInv, StatesOK
<1>9. tapIndex' \in Nat \ {0} /\ waitingForTap' \in BOOLEAN
  BY DEF IInv, TapsOK, StatesOK
<1> QED BY <1>1, <1>4, <1>6, <1>7, <1>8, <1>9, RetireInv

(* Going on to the next tap keeps the invariant.                           *)
LEMMA NextTapInv == ASSUME IInv, NextTap PROVE IInv'
<1> USE DEF IInv, NextTap, outcome
<1>1. pending /\ ready /\ delivering = 0 /\ ~quit
  BY DEF TimedOut, Interrupted, RequestInv
<1>2. /\ tapIndex \in Nat /\ tapIndex' \in 1..Len(taps) /\ tapIndex' \in Nat \ {0}
      /\ deadline' \in Nat
  <2>1. tapIndex' \in 1..Len(taps) /\ tapIndex' \in Nat \ {0}
    BY DEF TapsOK
  <2>2. taps[tapIndex'] \in Tap
    BY <2>1 DEF TapsOK
  <2> QED BY <2>1, <2>2 DEF TapsOK, Tap
<1>3. PICK d \in Settle(Dev) : Becomes(d)
  OBVIOUS
<1>4. /\ d \in Device /\ active' = d.active /\ chip' = d.chip /\ gain' = gain
      /\ d.chip \in {chip, "idle"}
      /\ ~d.active => d.chip \notin Carrier /\ (d.chip = "wave" => gain = "set")
  BY <1>1, <1>3, SettleInForce DEF Becomes
<1>5. /\ heldGeneration' \in 0..MaxGeneration /\ heldGeneration' <= generation
      /\ timer' \in Nat /\ signalled' = FALSE
      /\ worker' \in {"waiting", "timed", "exited"}
      /\ worker' = "timed" => timer' = deadline'
  BY <1>2, ResumeOutcome
<1>6. NumbersOK'
  BY <1>2, <1>5 DEF NumbersOK
<1>7. TapsOK' /\ StatesOK'
  BY <1>2, <1>4, <1>5 DEF TapsOK, StatesOK
<1>8. HardwareInv'
  BY <1>1, <1>4 DEF HardwareInv
<1>9. RequestInv' /\ WorkerInv'
  BY <1>1, <1>2, <1>5 DEF RequestInv, WorkerInv, TapInBounds
<1> QED BY <1>6, <1>7, <1>8, <1>9

(* The completion callback keeps the invariant.                            *)
LEMMA InvokeCallbackInv == ASSUME IInv, InvokeCallback PROVE IInv'
<1> USE DEF IInv, InvokeCallback, request, tapState, hardware, thread
<1>1. NumbersOK'
  <2>1. delivering \in 1..MaxGeneration /\ 0 \in 0..MaxGeneration
    BY MaxGenerationAssumption DEF NumbersOK
  <2> QED BY <2>1 DEF NumbersOK
<1>2. TapsOK' /\ StatesOK'
  BY DEF TapsOK, StatesOK
<1>3. HardwareInv'
  BY DEF HardwareInv
<1>4. RequestInv' /\ WorkerInv'
  BY DEF RequestInv, WorkerInv, TapInBounds, Interrupted, NumbersOK
<1> QED BY <1>1, <1>2, <1>3, <1>4

(* Time keeps the invariant.                                               *)
LEMMA TickInv == ASSUME IInv, Tick PROVE IInv'
<1> USE DEF IInv, Tick, tapState, hardware, outcome, Sooner
<1>1. NumbersOK'
  <2>1. deadline' \in Nat /\ timer' \in Nat
    BY DEF NumbersOK
  <2> QED BY <2>1 DEF NumbersOK
<1>2. TapsOK' /\ StatesOK'
  BY DEF TapsOK, StatesOK
<1>3. HardwareInv' /\ RequestInv'
  BY DEF HardwareInv, RequestInv
<1>4. WorkerInv'
  BY DEF WorkerInv, TapInBounds, Interrupted
<1> QED BY <1>1, <1>2, <1>3, <1>4

(* The chip, by itself, keeps the invariant.                               *)
LEMMA ChipInv == ASSUME IInv, QueuedStart \/ WaveEnds PROVE IInv'
<1> USE DEF IInv, QueuedStart, WaveEnds, request, tapState, thread, outcome
<1>1. NumbersOK' /\ TapsOK' /\ StatesOK'
  BY DEF NumbersOK, TapsOK, StatesOK
<1>2. HardwareInv'
  BY DEF HardwareInv
<1>3. RequestInv' /\ WorkerInv'
  BY DEF RequestInv, WorkerInv, TapInBounds, Interrupted
<1> QED BY <1>1, <1>2, <1>3

(* A step of nobody keeps the invariant.                                   *)
LEMMA StutterInv == ASSUME IInv, UNCHANGED vars PROVE IInv'
<1> USE DEF IInv, vars, request, tapState, hardware, thread, outcome
<1>1. NumbersOK' /\ TapsOK' /\ StatesOK'
  BY DEF NumbersOK, TapsOK, StatesOK
<1>2. HardwareInv'
  BY DEF HardwareInv
<1>3. RequestInv' /\ WorkerInv'
  BY DEF RequestInv, WorkerInv, TapInBounds, Interrupted
<1> QED BY <1>1, <1>2, <1>3

(* Every step keeps the invariant.                                         *)
LEMMA StepInv == IInv /\ [Next]_vars => IInv'
<1> SUFFICES ASSUME IInv, [Next]_vars PROVE IInv'
  OBVIOUS
<1>1. CASE Initialize
  BY <1>1, InitializeInv
<1>2. CASE Client
  BY <1>2, PlayInv, ComposeInv, StopInv, SetAmplitudeInv, DestroyInv DEF Client
<1>3. CASE Worker
  BY <1>3, WakeInv, StartDelayedTapInv, FailDelayedTapInv, NextTapInv, FinishInv,
     InvokeCallbackInv DEF Worker, Deadline
<1>4. CASE Tick
  BY <1>4, TickInv
<1>5. CASE QueuedStart \/ WaveEnds
  BY <1>5, ChipInv
<1>6. CASE UNCHANGED vars
  BY <1>6, StutterInv
<1> QED BY <1>1, <1>2, <1>3, <1>4, <1>5, <1>6 DEF Next

(***************************************************************************)
(* The results.                                                            *)
(***************************************************************************)
(* The inductive invariant holds of every behaviour of the motor.          *)
THEOREM Invariance == Spec => []IInv
<1>1. Init => IInv
  BY InitInv
<1>2. IInv /\ [Next]_vars => IInv'
  BY StepInv
<1> QED BY <1>1, <1>2, PTL DEF Spec

(* Every variable keeps its type, in particular every tap the worker takes *)
(* from a composition is one of its taps.                                  *)
THEOREM TypeCorrect == Spec => []TypeOK
<1>1. IInv => TypeOK
  BY DEF IInv
<1> QED BY <1>1, Invariance, PTL

(* A carrier that runs or is about to is always in somebody's hands: a     *)
(* later stop reaches it, only the deadline of the request in force is at  *)
(* work, and "the motor is off" was not said of it.                        *)
THEOREM CarrierAlwaysControlled == Spec => []CarrierUnderControl
<1>1. IInv => CarrierUnderControl
  BY DEF IInv, HardwareInv, CarrierUnderControl
<1> QED BY <1>1, Invariance, PTL

(* A waiting tap is a tap of the composition in force, and a request in    *)
(* force plays at its gain.                                                *)
THEOREM RequestsArePlayed == Spec => []RequestPlays
<1>1. IInv => TapInBounds
  BY DEF IInv, WorkerInv
<1>2. IInv => GainApplied
  BY DEF IInv, HardwareInv
<1>3. IInv => RequestPlays
  BY <1>1, <1>2 DEF RequestPlays
<1> QED BY <1>3, Invariance, PTL

(* The worker never acts on the deadline of an earlier request.            *)
THEOREM DeadlinesAreKept == Spec => NeverEarly
<1> DEFINE Advance == /\ pending /\ generation' = generation /\ ~quit'
                      /\ \/ ~pending' \/ taps' # taps \/ tapIndex' # tapIndex
                         \/ waitingForTap' # waitingForTap
<1>1. IInv /\ [Next]_vars => [Advance => deadline = 0]_vars
  <2> SUFFICES ASSUME IInv, Next, Advance PROVE deadline = 0
    BY DEF vars
  <2>1. generation # generation + 1
    BY DEF IInv, NumbersOK
  <2>2. ~Client
    BY <2>1 DEF Client, Play, Compose, Stop, SetAmplitude, Destroy, Begin, request, tapState
  <2>3. CASE Deadline
    BY <2>3 DEF Deadline, StartDelayedTap, FailDelayedTap, NextTap, Finish, TimedOut,
                IInv, WorkerInv
  <2>4. ~(Initialize \/ Wake \/ Interrupt \/ InvokeCallback \/ Relock)
    BY DEF Initialize, Wake, Interrupt, InvokeCallback, Relock, request, tapState
  <2>5. ~(Tick \/ QueuedStart \/ WaveEnds)
    BY DEF Tick, QueuedStart, WaveEnds, request, tapState
  <2> QED BY <2>2, <2>3, <2>4, <2>5 DEF Next, Worker
<1> QED BY <1>1, Invariance, PTL DEF Spec, NeverEarly

(* Every step of the motor is a step of the contract, or none of its       *)
(* business.                                                               *)
LEMMA StepRefines == IInv /\ [Next]_vars => [Contract!Next]_(Contract!contractVars)
<1> SUFFICES ASSUME IInv, [Next]_vars
             PROVE  Contract!Next \/ UNCHANGED Contract!contractVars
  OBVIOUS
<1> USE DEF Contract!Next, Contract!contractVars
<1>1. CASE \E ticks \in Durations, loop \in BOOLEAN : Play(ticks, loop)
  BY <1>1 DEF Play, Begin, Arm, DropRequest, AwayFromWorker, Contract!Request
<1>2. CASE \E ts \in Compositions : Compose(ts)
  BY <1>2 DEF Compose, Begin, Arm, DropRequest, AwayFromWorker, Contract!Request
<1>3. CASE Stop
  BY <1>3 DEF Stop, Begin, DropRequest, AwayFromWorker, Contract!Request
<1>4. CASE Destroy
  BY <1>4 DEF Destroy, AwayFromWorker, Contract!Withdraw
<1>5. CASE FailDelayedTap \/ Finish
  <2>1. \E stopped : TimedOut /\ Retire(stopped)
    BY <1>5 DEF FailDelayedTap, Finish
  <2>2. PICK stopped : TimedOut /\ Retire(stopped)
    BY <2>1
  <2>3. pending /\ callback = generation /\ generation > 0 /\ delivering = 0
    BY <2>2 DEF TimedOut, Interrupted, IInv, RequestInv
  <2> QED BY <2>2, <2>3 DEF Retire, IInv, NumbersOK, Contract!Complete, Contract!Withdraw
<1>6. CASE InvokeCallback
  BY <1>6 DEF InvokeCallback, request, Contract!Deliver
<1>7. CASE Initialize \/ SetAmplitude \/ Wake \/ Interrupt \/ Relock
  BY <1>7 DEF Initialize, SetAmplitude, Wake, Interrupt, Relock, request, outcome
<1>8. CASE StartDelayedTap \/ NextTap
  BY <1>8 DEF StartDelayedTap, NextTap, outcome
<1>9. CASE Tick \/ QueuedStart \/ WaveEnds
  BY <1>9 DEF Tick, QueuedStart, WaveEnds, request, outcome
<1>10. CASE UNCHANGED vars
  BY <1>10 DEF vars, request, outcome
<1> QED BY <1>1, <1>2, <1>3, <1>4, <1>5, <1>6, <1>7, <1>8, <1>9, <1>10
        DEF Next, Client, Worker, Deadline

(* The motor implements the contract on completion callbacks.              *)
THEOREM Refinement == Spec => ImplementsContract
<1>1. Init => Contract!Init
  BY DEF Init, Contract!Init
<1> QED BY <1>1, StepRefines, Invariance, PTL DEF Spec, ImplementsContract, Contract!Spec

(* No callback is called twice, in any behaviour of the contract.          *)
THEOREM CallbacksAtMostOnce == Contract!Spec => []Contract!AtMostOnce
<1> USE DEF Contract!Numbered, Contract!AtMostOnce
<1>1. Contract!Init => Contract!Numbered /\ Contract!AtMostOnce
  BY DEF Contract!Init
<1>2. Contract!Numbered /\ Contract!AtMostOnce /\ [Contract!Next]_(Contract!contractVars)
        => (Contract!Numbered /\ Contract!AtMostOnce)'
  <2> SUFFICES ASSUME Contract!Numbered, Contract!AtMostOnce,
                      [Contract!Next]_(Contract!contractVars)
               PROVE  (Contract!Numbered /\ Contract!AtMostOnce)'
    OBVIOUS
  <2>1. CASE Contract!Request
    BY <2>1 DEF Contract!Request
  <2>2. CASE Contract!Withdraw
    BY <2>2 DEF Contract!Withdraw
  <2>3. CASE Contract!Complete
    BY <2>3 DEF Contract!Complete
  <2>4. CASE Contract!Deliver
    BY <2>4 DEF Contract!Deliver
  <2>5. CASE UNCHANGED Contract!contractVars
    BY <2>5 DEF Contract!contractVars
  <2> QED BY <2>1, <2>2, <2>3, <2>4, <2>5 DEF Contract!Next
<1> QED BY <1>1, <1>2, PTL DEF Contract!Spec

(* No completion callback is called twice, by way of the contract.         *)
THEOREM CallbacksOnce == Spec => []CalledAtMostOnce
BY Refinement, CallbacksAtMostOnce, PTL DEF ImplementsContract, CalledAtMostOnce
=============================================================================
