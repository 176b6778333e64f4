----------------------------- MODULE TimedMotor -----------------------------
(***************************************************************************)
(* vibrator/TimedMotor.h: the client operations of the vibrator HAL and    *)
(* the worker thread that ends what they start.  Every client operation    *)
(* and every critical section of the worker runs under mutex_, so each is  *)
(* one action, whose sysfs writes succeed or fail nondeterministically.    *)
(* The worker gives the mutex up in its two waits and around the           *)
(* completion callback.                                                    *)
(*                                                                         *)
(* Abstracted: a level of 0..2 is "finite", -1 is "loop"; a gain is 0 or   *)
(* not; a time is the number of ticks still to go; a completion callback   *)
(* is the generation of the request that brought it, 0 for none.           *)
(***************************************************************************)
EXTENDS Naturals, Sequences, MotorNodes

CONSTANTS
    Durations,      \* milliseconds play() may be asked for, in ticks
    Compositions,   \* sequences of taps compose() may be asked for
    MaxGeneration   \* bound on the number of requests

Tap == [delayMs : Nat, durationMs : Nat, gain : {0, 1}]

ASSUME DurationsAssumption     == Durations \subseteq Nat \ {0}
ASSUME CompositionsAssumption  == Compositions \subseteq Seq(Tap) \ {<<>>}
ASSUME MaxGenerationAssumption == MaxGeneration \in Nat

VARIABLES
    generation,     \* generation_
    pending,        \* pending_
    continuous,     \* continuous_
    deadline,       \* deadline_, in ticks to go
    callback,       \* callback_
    taps,           \* taps_
    tapIndex,       \* tapIndex_, counted from 1
    waitingForTap,  \* waitingForTap_
    quit,           \* quit_
    active,         \* active_
    chip, gain,     \* what the chip does
    worker,         \* where the worker is: "waiting", "timed", "unlocked", "exited"
    heldGeneration, \* its local copy of generation_
    timer,          \* the deadline it went to sleep with, in ticks to go
    signalled,      \* changed_ was notified since it went to sleep
    delivering,     \* its local copy of callback_, when it will be called
    delivered,      \* history: the callbacks called
    ready,          \* the constructor has taken ownership of the hardware
    silenced        \* history: the last the framework heard is "the motor is off"

request  == <<generation, pending, continuous, deadline, callback>>
tapState == <<taps, tapIndex, waitingForTap>>
hardware == <<active, chip, gain>>
thread   == <<worker, heldGeneration, timer, signalled>>
outcome  == <<delivering, delivered, silenced>>
vars     == <<request, tapState, hardware, thread, outcome, quit, ready>>

(***************************************************************************)
(* Hardware outcomes.                                                      *)
(***************************************************************************)
Dev == [ok |-> TRUE, active |-> active, chip |-> chip, gain |-> gain]

Becomes(d) == active' = d.active /\ chip' = d.chip /\ gain' = d.gain

Retry(d) == [d EXCEPT !.ok = TRUE]

(* Slips a change could bring in, each against one property, are kept      *)
(* beside what they would change and named Definition_Slip.                *)
StopHardware_Forgets(d) == {[e EXCEPT !.active = FALSE] : e \in EnableOff(d)}
StopHardware(d) ==
    IF d.active THEN {[e EXCEPT !.active = ~e.ok] : e \in EnableOff(d)} ELSE {d}

StartPlayback_GainFirst(d, loop) ==
    UNION {IF e.ok THEN StartControl(e, loop) ELSE {e} :
              e \in WriteGain([d EXCEPT !.active = TRUE])}
(* A start and then the gain, which the start may have reset.              *)
StartPlayback(d, loop) ==
    UNION {IF e.ok THEN WriteGain(e) ELSE {e} :
              e \in StartControl([d EXCEPT !.active = TRUE], loop)}

StartTap(d, tap) ==
    IF tap.gain = 0 THEN StopHardware(d) ELSE StartPlayback(d, FALSE)

(* A failed start stops the hardware and still reports failure.            *)
OrElseStop(outcomes) ==
    UNION {IF d.ok THEN {d}
           ELSE {[e EXCEPT !.ok = FALSE] : e \in StopHardware(Retry(d))} :
              d \in outcomes}

(* The end of a wait: a carrier is stopped, a finite wave keeps its tail.  *)
Settle(d) ==
    {[e EXCEPT !.active = e.active /\ ~e.ok] :
        e \in IF d.ok /\ continuous THEN StopHardware(d) ELSE {d}}

(***************************************************************************)
(* Parts of the client operations.                                         *)
(***************************************************************************)
Notify_Missing == UNCHANGED signalled
Notify == signalled' = TRUE

Begin == /\ ready /\ ~quit /\ generation < MaxGeneration
         /\ generation' = generation + 1

DropRequest_Keeps == UNCHANGED <<pending, callback, deadline>>
DropRequest == pending' = FALSE /\ callback' = 0 /\ UNCHANGED deadline

Arm(ticks) == pending' = TRUE /\ callback' = generation' /\ deadline' = ticks

ClearTaps_FromZero     == taps' = <<>> /\ waitingForTap' = FALSE /\ tapIndex' = 0
ClearTaps == taps' = <<>> /\ waitingForTap' = FALSE /\ UNCHANGED tapIndex

AwayFromWorker == UNCHANGED <<worker, heldGeneration, timer, delivering, delivered>>

(***************************************************************************)
(* Client operations.                                                      *)
(***************************************************************************)
Initialize ==
    /\ ~ready /\ ready' = TRUE
    /\ \E d \in EnableOff(Dev), cont \in BOOLEAN :
          Becomes([d EXCEPT !.active = ~(d.ok /\ cont)])
    /\ UNCHANGED <<request, tapState, thread, outcome, quit>>

Play(ticks, loop) ==
    /\ Begin /\ continuous' = loop /\ ClearTaps /\ Notify /\ silenced' = FALSE
    /\ \E d \in OrElseStop(StartPlayback(Dev, loop)) :
          Becomes(d) /\ IF d.ok THEN Arm(ticks) ELSE DropRequest
    /\ AwayFromWorker /\ UNCHANGED <<quit, ready>>

(* A first tap with a delay silences the motor; one without starts at once. *)
Compose(ts) ==
    LET first   == ts[1]
        delayed == first.delayMs > 0
    IN  /\ Begin /\ continuous' = FALSE /\ Notify /\ silenced' = FALSE
        /\ \E d \in IF delayed THEN StopHardware(Dev)
                               ELSE OrElseStop(StartTap(Dev, first)) :
              /\ Becomes(d)
              /\ taps' = IF d.ok THEN ts ELSE <<>>
              /\ IF d.ok
                 THEN Arm(IF delayed THEN first.delayMs ELSE first.durationMs)
                 ELSE DropRequest
        /\ tapIndex' = 1 /\ waitingForTap' = delayed
        /\ AwayFromWorker /\ UNCHANGED <<quit, ready>>

Stop ==
    /\ Begin /\ DropRequest /\ Notify
    /\ taps' = <<>>
    /\ \E d \in StopHardware(Dev) : Becomes(d) /\ silenced' = d.ok
    /\ AwayFromWorker
    /\ UNCHANGED <<continuous, tapIndex, waitingForTap, quit, ready>>

SetAmplitude ==
    /\ ready /\ ~quit
    /\ \E d \in WriteGain(Dev) : Becomes(d)
    /\ UNCHANGED <<request, tapState, thread, outcome, quit, ready>>

(* The destructor, up to its join.                                         *)
Destroy ==
    /\ ready /\ ~quit /\ quit' = TRUE
    /\ pending' = FALSE /\ Notify
    /\ \E d \in StopHardware(Dev) : Becomes(d)
    /\ AwayFromWorker
    /\ UNCHANGED <<generation, continuous, deadline, callback, tapState, silenced, ready>>

(***************************************************************************)
(* The worker, loop().                                                     *)
(***************************************************************************)
(* From the top of the loop to the next wait that does not return at once. *)
Resume ==
    /\ signalled' = FALSE /\ timer' = deadline'
    /\ \/ quit /\ worker' = "exited" /\ UNCHANGED heldGeneration
       \/ ~quit /\ pending' /\ worker' = "timed" /\ heldGeneration' = generation
       \/ ~quit /\ ~pending' /\ worker' = "waiting" /\ UNCHANGED heldGeneration

Interrupted_ByState == quit \/ ~pending
(* The predicate of the timed wait.                                        *)
Interrupted == quit \/ ~pending \/ generation # heldGeneration

Wake ==
    /\ worker = "waiting" /\ (quit \/ pending)
    /\ UNCHANGED <<request, tapState, hardware, outcome, quit, ready>>
    /\ Resume

Interrupt ==
    /\ worker = "timed" /\ Interrupted
    /\ UNCHANGED <<request, tapState, hardware, outcome, quit, ready>>
    /\ Resume

TimedOut == worker = "timed" /\ ~Interrupted /\ timer = 0

StartDelayedTap ==
    /\ TimedOut /\ waitingForTap /\ waitingForTap' = FALSE
    /\ \E d \in StartTap(Dev, taps[tapIndex]) : d.ok /\ Becomes(d)
    /\ deadline' = taps[tapIndex].durationMs
    /\ UNCHANGED <<generation, pending, continuous, callback, taps, tapIndex>>
    /\ UNCHANGED <<outcome, quit, ready>>
    /\ Resume

Retire(stopped) ==
    /\ taps' = <<>> /\ pending' = FALSE /\ callback' = 0
    /\ delivering' = IF stopped THEN callback ELSE 0
    /\ worker' = "unlocked"
    /\ UNCHANGED <<generation, continuous, deadline, heldGeneration, timer, signalled>>
    /\ UNCHANGED <<delivered, silenced, quit, ready>>

FailDelayedTap ==
    /\ TimedOut /\ waitingForTap /\ waitingForTap' = FALSE
    /\ \E d \in StartTap(Dev, taps[tapIndex]) :
          /\ ~d.ok
          /\ \E e \in StopHardware(Retry(d)) : \E f \in Settle(e) :
                Becomes(f) /\ Retire(f.ok)
    /\ UNCHANGED tapIndex

NextTap ==
    /\ TimedOut /\ ~waitingForTap /\ tapIndex < Len(taps)
    /\ waitingForTap' = TRUE /\ tapIndex' = tapIndex + 1
    /\ deadline' = taps[tapIndex'].delayMs
    /\ \E d \in Settle(Dev) : Becomes(d)
    /\ UNCHANGED <<generation, pending, continuous, callback, taps, outcome, quit, ready>>
    /\ Resume

Finish ==
    /\ TimedOut /\ ~waitingForTap /\ (taps = <<>> \/ tapIndex >= Len(taps))
    /\ \E d \in Settle(Dev) : Becomes(d) /\ Retire(d.ok)
    /\ tapIndex' = IF taps = <<>> THEN tapIndex ELSE tapIndex + 1
    /\ UNCHANGED waitingForTap

(* Outside the mutex.  A completion of the current request is the last the *)
(* framework hears; one that a newer request overtook is not.              *)
InvokeCallback ==
    /\ worker = "unlocked" /\ delivering # 0 /\ delivering' = 0
    /\ delivered' = delivered \cup {delivering}
    /\ silenced' = (silenced \/ delivering = generation)
    /\ UNCHANGED <<request, tapState, hardware, thread, quit, ready>>

Relock ==
    /\ worker = "unlocked" /\ delivering = 0
    /\ UNCHANGED <<request, tapState, hardware, outcome, quit, ready>>
    /\ Resume

(***************************************************************************)
(* Time, and the chip.                                                     *)
(***************************************************************************)
Sooner(ticks) == IF ticks = 0 THEN 0 ELSE ticks - 1

Tick ==
    /\ deadline > 0 \/ timer > 0
    /\ deadline' = Sooner(deadline) /\ timer' = Sooner(timer)
    /\ UNCHANGED <<generation, pending, continuous, callback, tapState, hardware>>
    /\ UNCHANGED <<worker, heldGeneration, signalled, outcome, quit, ready>>

(* A queued start runs: it programs its own gain before it starts.         *)
QueuedStart ==
    /\ chip = "queued" /\ chip' = "carrier" /\ gain' = "reset"
    /\ UNCHANGED <<request, tapState, active, thread, outcome, quit, ready>>

WaveEnds ==
    /\ chip = "wave" /\ chip' = "idle"
    /\ UNCHANGED <<request, tapState, active, gain, thread, outcome, quit, ready>>

(***************************************************************************)
(* Specification.                                                          *)
(***************************************************************************)
Init ==
    /\ generation = 0 /\ pending = FALSE /\ continuous = FALSE
    /\ deadline = 0 /\ callback = 0
    /\ taps = <<>> /\ tapIndex = 1 /\ waitingForTap = FALSE
    /\ quit = FALSE /\ active = FALSE
    /\ chip \in Chip /\ gain \in Gain   \* a predecessor may have died playing
    /\ worker = "waiting" /\ heldGeneration = 0 /\ timer = 0 /\ signalled = FALSE
    /\ delivering = 0 /\ delivered = {}
    /\ ready = FALSE /\ silenced = FALSE

Deadline == StartDelayedTap \/ FailDelayedTap \/ NextTap \/ Finish

Worker == Wake \/ Interrupt \/ Deadline \/ InvokeCallback \/ Relock

Client ==
    \/ \E ticks \in Durations, loop \in BOOLEAN : Play(ticks, loop)
    \/ \E ts \in Compositions : Compose(ts)
    \/ Stop \/ SetAmplitude \/ Destroy

Next == Initialize \/ Client \/ Worker \/ Tick \/ QueuedStart \/ WaveEnds

Spec == Init /\ [][Next]_vars

(* Threads that can run do, a sleeping one once it was notified or its     *)
(* deadline passed; clocks and chip go on.  Nobody has to make a request.  *)
Fairness ==
    /\ WF_vars(Initialize) /\ WF_vars(Tick)
    /\ WF_vars(QueuedStart) /\ WF_vars(WaveEnds)
    /\ WF_vars(signalled /\ Wake)
    /\ WF_vars((signalled \/ timer = 0) /\ Interrupt)
    /\ WF_vars(Deadline) /\ WF_vars(InvokeCallback) /\ WF_vars(Relock)

FairSpec == Spec /\ Fairness

(***************************************************************************)
(* Properties.                                                             *)
(***************************************************************************)
NumbersOK ==
    /\ generation \in 0..MaxGeneration /\ heldGeneration \in 0..MaxGeneration
    /\ callback \in 0..MaxGeneration /\ delivering \in 0..MaxGeneration
    /\ delivered \in SUBSET (1..MaxGeneration)
    /\ deadline \in Nat /\ timer \in Nat

TapsOK == taps \in Seq(Tap) /\ tapIndex \in Nat \ {0}

StatesOK ==
    /\ {pending, continuous, waitingForTap, quit, active} \subseteq BOOLEAN
    /\ {signalled, ready, silenced} \subseteq BOOLEAN
    /\ chip \in Chip /\ gain \in Gain
    /\ worker \in {"waiting", "timed", "unlocked", "exited"}

TypeOK == NumbersOK /\ TapsOK /\ StatesOK

(* A carrier never runs, nor is about to, without active_ saying so: only  *)
(* then does a later stop reach the hardware (stopHardware writes nothing  *)
(* when active_ is false).                                                 *)
CarrierOwned == ready /\ chip \in Carrier => active

(* While a request is in force the carrier runs only if that request asked *)
(* for one, so that its deadline stops it: the worker stops nothing at the *)
(* end of a finite wave or a tap.                                          *)
CarrierHasDeadline == pending /\ chip \in Carrier => continuous

(* Once the framework has heard that the motor is off, from a stop that    *)
(* succeeded or from the completion of its last request, no carrier runs   *)
(* and none is queued; only the tail of a finite wave may.                 *)
SilencedIsSilent == silenced => chip \notin Carrier

(* So a carrier that runs or is about to is always in somebody's hands:    *)
(* active_ lets a later stop reach it, the request in force will stop it,  *)
(* and the framework was not told that the motor is off.                   *)
CarrierUnderControl == CarrierOwned /\ CarrierHasDeadline /\ SilencedIsSilent

(* A composition waiting for a tap has that tap: an index of an earlier    *)
(* composition never reaches into a later one, or into none.               *)
TapInBounds == pending /\ waitingForTap => tapIndex \in 1..Len(taps)

(* A request in force plays at the gain last written, although each start  *)
(* may reset it.                                                           *)
GainApplied == pending /\ chip \in {"wave", "carrier"} => gain = "set"

(* A request in force is played as it was asked for: each of its taps, at  *)
(* its gain.                                                               *)
RequestPlays == TapInBounds /\ GainApplied

(* Nobody but its own deadline, a newer call or the destructor ends or     *)
(* advances a request: the worker never acts on the deadline of an         *)
(* earlier one.                                                            *)
NeverEarly ==
    [][/\ pending /\ generation' = generation /\ ~quit'
       /\ \/ ~pending' \/ taps' # taps \/ tapIndex' # tapIndex
          \/ waitingForTap' # waitingForTap
       => deadline = 0]_vars

(* The motor implements the contract on completion callbacks.              *)
Contract == INSTANCE VibrationContract WITH
    issued    <- generation,
    current   <- IF pending THEN callback ELSE 0,
    owed      <- delivering,
    delivered <- delivered

ImplementsContract == Contract!Spec

(* So no completion callback is called twice, although the worker calls it *)
(* with the mutex given up.                                                *)
CalledAtMostOnce == Contract!AtMostOnce

(* No request stays in force for ever: the worker wakes for it and ends    *)
(* it, or another call does.                                               *)
RequestResolves ==
    \A g \in 1..MaxGeneration : (pending /\ callback = g) ~> (~pending \/ callback # g)

(* A carrier stops, unless a stop of it failed: then no request is in      *)
(* force and active_ stays set, for the next call to try again.            *)
CarrierStops ==
    (ready /\ chip \in Carrier) ~> (chip \notin Carrier \/ (active /\ ~pending))

(* The destructor's join returns.                                          *)
DestroyJoins == quit ~> worker = "exited"

(* Nothing waits for ever: not a request, nor a carrier, nor the caller of *)
(* the destructor, although nobody calls again.                            *)
NothingLingers == RequestResolves /\ CarrierStops /\ DestroyJoins
=============================================================================
