--------------------------- MODULE VibratorProofs ---------------------------
(***************************************************************************)
(* Proofs about the two ends of the vibrator besides its motor: RamLoop,   *)
(* for every number of readbacks, and VibratorService, for every Scale and *)
(* whatever amplitudes and compositions it is asked for.                   *)
(***************************************************************************)
EXTENDS RamLoop, VibratorService, TLAPS

(***************************************************************************)
(* RamLoop.                                                                *)
(***************************************************************************)

(* What each call of start() may count on when it is made.                 *)
Progress ==
    /\ pc \in {"clear", "select", "schedule"} => work = "none" /\ playing = "idle"
    /\ pc \in {"select", "schedule"} => index = 0
    /\ pc \in {"schedule", "poll"} => waveform = Wave
    /\ pc = "poll" => /\ work = "queued" => index = 0
                      /\ work = "none" => playing = "carrier"

(* What is left behind once it has returned.                               *)
Returned ==
    /\ result # "none" <=> pc = "done"
    /\ asked => result = "started"
    /\ StartedMeansRunning /\ AmplitudeWins /\ NoSurvivor

Values ==
    /\ pc \in {"drain", "clear", "select", "schedule", "poll", "giveUp", "done"}
    /\ work \in {"none", "queued", "running"}
    /\ drained \in BOOLEAN /\ asked \in BOOLEAN
    /\ playing \in {"idle", "wave", "carrier"} /\ gain \in Gain
    /\ result \in {"none", "started", "failed"} /\ entry \in Device

(* What is seen of the device has not left what a start may make of it.    *)
SinceEntry ==
    /\ pc # "done" /\ ChipSeen = "wave" => entry.chip = "wave"
    /\ ~asked => gain \in {entry.gain, "reset"}
    /\ pc = "poll" /\ work = "none" => gain = "reset"

RamInv == Values /\ Progress /\ Returned /\ SinceEntry

(* The invariant holds before the first start.                             *)
LEMMA RamInitInv == RamInit => RamInv
<1> SUFFICES ASSUME RamInit PROVE RamInv
  OBVIOUS
<1> USE DEF RamInit
<1>1. Values
  <2>1. ChipSeen \in Chip
    BY DEF ChipSeen, Chip
  <2>2. Seen \in Device
    BY <2>1 DEF Seen, Device
  <2> QED BY <2>2 DEF Values
<1>2. Progress /\ Returned
  BY DEF Progress, Returned, StartedMeansRunning, AmplitudeWins, NoSurvivor
<1>3. SinceEntry
  BY DEF SinceEntry, ChipSeen, Seen
<1> QED BY <1>1, <1>2, <1>3 DEF RamInv

(* Each write of the chain leaves its effect, or goes to the last drain.   *)
LEMMA WritesInv ==
    ASSUME RamInv,
           \/ Write("drain", EnableZero, "clear")
           \/ Write("clear", SequenceZero, "select")
           \/ Write("select", SelectWave, "schedule")
           \/ Write("schedule", EnableOne, "poll")
    PROVE  RamInv'
<1> USE DEF RamInv, Values, Progress, Returned, SinceEntry, ChipSeen, StartedMeansRunning,
           AmplitudeWins, NoSurvivor
<1>1. CASE Write("drain", EnableZero, "clear")
  BY <1>1 DEF Write, EnableZero, driver
<1>2. CASE Write("clear", SequenceZero, "select")
  BY <1>2 DEF Write, SequenceZero, driver
<1>3. CASE Write("select", SelectWave, "schedule")
  BY <1>3 DEF Write, SelectWave, driver
<1>4. CASE Write("schedule", EnableOne, "poll")
  BY <1>4 DEF Write, EnableOne, driver
<1> QED BY <1>1, <1>2, <1>3, <1>4

(* Every step keeps the invariant.                                         *)
LEMMA RamStepInv == RamInv /\ [RamNext]_ramVars => RamInv'
<1> SUFFICES ASSUME RamInv, [RamNext]_ramVars PROVE RamInv'
  OBVIOUS
<1> USE DEF RamInv, Values, Progress, Returned, SinceEntry, ChipSeen, StartedMeansRunning,
           AmplitudeWins, NoSurvivor
<1>1. CASE Calls
  <2>1. CASE Poll
    BY <1>1, <2>1 DEF Poll, IndexReadable, Return, driver, Wave
  <2>2. CASE GiveUp
    BY <2>2 DEF GiveUp, Return, EnableZero, driver
  <2> QED BY <1>1, <2>1, <2>2, WritesInv DEF Calls
<1>2. CASE ApplyGain
  BY <1>2 DEF ApplyGain, Gain
<1>3. CASE StartAgain
  BY <1>3 DEF StartAgain, driver, Seen, Device, Chip, Gain
<1>4. CASE Routine
  BY <1>4 DEF Routine, RoutineProgram, RoutineGo, caller, Gain
<1>5. CASE FiniteWaveEnds
  BY <1>5 DEF FiniteWaveEnds, caller
<1>6. CASE UNCHANGED ramVars
  BY <1>6 DEF ramVars, caller, driver
<1> HIDE DEF RamInv
<1> QED BY <1>1, <1>2, <1>3, <1>4, <1>5, <1>6 DEF RamNext

(* The inductive invariant holds of every behaviour of start().            *)
THEOREM RamInvariance == RamSpec => []RamInv
BY RamInitInv, RamStepInv, PTL DEF RamSpec

(* What start() returned is so: it started and the caller's gain is the    *)
(* last one written, or it failed, drained, and left nothing queued.       *)
THEOREM StartsAreTrue == RamSpec => []ResultIsTrue
<1>1. RamInv => ResultIsTrue
  BY DEF RamInv, Returned, ResultIsTrue
<1> QED BY <1>1, RamInvariance, PTL

(* Every end of start() is one that MotorNodes gives the ram_loop control, *)
(* which is what the motor is checked and proved with.                     *)
THEOREM StartsEndAsModelled == RamSpec => EndsAsModelled
<1>1. RamInv /\ RamNext /\ result = "none" /\ result' # "none" =>
        \E d \in StartControl(entry, TRUE) :
            /\ d.ok = (result' = "started")
            /\ d.chip = ChipSeen' /\ d.gain = gain'
  <2> SUFFICES ASSUME RamInv, RamNext, result = "none", result' # "none"
               PROVE  \E d \in StartControl(entry, TRUE) :
                        /\ d.ok = (result' = "started")
                        /\ d.chip = ChipSeen' /\ d.gain = gain'
    OBVIOUS
  <2> DEFINE end == [ok |-> result' = "started", active |-> entry.active,
                     chip |-> ChipSeen', gain |-> gain']
  <2>1. Poll \/ GiveUp
    BY DEF RamNext, Calls, Write, ApplyGain, StartAgain, Routine, RoutineProgram, RoutineGo,
           FiniteWaveEnds, caller
  <2>2. end \in Device
    <3>1. ChipSeen' \in Chip /\ gain' \in Gain
      BY RamStepInv DEF RamInv, Values, ChipSeen, Chip
    <3>2. entry.active \in BOOLEAN
      BY DEF RamInv, Values, Device
    <3> QED BY <3>1, <3>2 DEF Device
  <2>3. CASE Poll
    <3>1. result' = "started" /\ ChipSeen' = "carrier" /\ gain' = "reset"
      BY <2>3 DEF Poll, Return, IndexReadable, driver, RamInv, Values, Progress, SinceEntry,
                  ChipSeen, Wave
    <3>2. end \in StartControl(entry, TRUE)
      BY <2>2, <3>1 DEF StartControl, Started
    <3> QED BY <3>1, <3>2
  <2>4. CASE GiveUp
    <3>1. result' = "failed" /\ ~asked
      BY <2>4 DEF GiveUp, Return, RamInv, Returned
    <3>2. ChipSeen' \in {entry.chip, "idle"} \cup Carrier
      BY <2>4 DEF GiveUp, EnableZero, driver, RamInv, Values, SinceEntry, ChipSeen, Carrier
    <3>3. gain' \in {entry.gain, "reset"}
      BY <2>4, <3>1 DEF GiveUp, EnableZero, driver, RamInv, SinceEntry
    <3>4. end \in StartControl(entry, TRUE)
      BY <2>2, <3>1, <3>2, <3>3 DEF StartControl, MayRun
    <3> QED BY <3>1, <3>4
  <2> QED BY <2>1, <2>3, <2>4
<1> QED BY <1>1, RamInvariance, PTL DEF RamSpec, EndsAsModelled

(***************************************************************************)
(* VibratorService: the arithmetic.                                        *)
(***************************************************************************)
(* What the quotient of two natural numbers is.                            *)
LEMMA Quotient ==
    ASSUME NEW a \in Nat, NEW d \in Nat, d > 0
    PROVE  /\ a \div d \in Nat
           /\ d * (a \div d) <= a /\ a < d * (a \div d) + d
OBVIOUS

(* Division undoes multiplication.                                         *)
LEMMA ExactQuotient ==
    ASSUME NEW q \in Nat, NEW d \in Nat, d > 0 PROVE (q * d) \div d = q
OBVIOUS

(* Rounding goes to the nearest gain and never beyond the base.            *)
LEMMA RoundedIsNear ==
    ASSUME NEW base \in 0..128, NEW n \in 0..Scale
    PROVE  Rounded(base, n) \in 0..base /\ Near(Rounded(base, n), base, n)
<1> USE ScaleAssumption
<1> DEFINE a == 2 * base * n + Scale
           d == 2 * Scale
           q == Rounded(base, n)
<1>1. base * n \in Nat /\ base * n <= base * Scale
  OBVIOUS
<1>2. a \in Nat /\ d \in Nat /\ d > 0 /\ a = 2 * (base * n) + Scale
  BY <1>1
<1>3. q \in Nat /\ d * q <= a /\ a < d * q + d
  <2> HIDE DEF a, d
  <2>1. a \div d \in Nat /\ d * (a \div d) <= a /\ a < d * (a \div d) + d
    BY <1>2, Quotient
  <2> QED BY <2>1 DEF Rounded, a, d
<1>4. d * q = 2 * (Scale * q)
  <2>1. \A x, y \in Nat : (2 * x) * y = 2 * (x * y)
    OBVIOUS
  <2> HIDE DEF q
  <2> QED BY <1>3, <2>1
<1>5. q <= base
  <2>1. d * q < d * (base + 1)
    BY <1>1, <1>2, <1>3
  <2> QED BY <1>2, <1>3, <2>1
<1>6. Near(q, base, n)
  <2>1. 2 * (q * Scale - base * n) = d * q - 2 * (base * n)
    BY <1>1, <1>3, <1>4
  <2> QED BY <1>1, <1>2, <1>3, <2>1 DEF Near
<1> QED BY <1>3, <1>5, <1>6

(* An audible gain is 1 or the nearest, and one the motor takes.           *)
LEMMA AudibleGainIsHeard ==
    ASSUME NEW base \in 1..128, NEW n \in 1..Scale
    PROVE  /\ AudibleGain(base, n) \in 1..128
           /\ AudibleGain(base, n) = 1 \/ Near(AudibleGain(base, n), base, n)
<1>1. base \in 0..128 /\ n \in 0..Scale
  BY ScaleAssumption
<1>2. Rounded(base, n) \in 0..base /\ Near(Rounded(base, n), base, n)
  BY <1>1, RoundedIsNear
<1> QED BY <1>2 DEF AudibleGain, Larger

(* The gain of an effect is exact, at either strength.                     *)
LEMMA EffectGainIsExact ==
    ASSUME NEW effect, NEW strength
    PROVE  /\ EffectGain(effect, strength) \in 1..128
           /\ EffectGain(effect, strength) * Scale
                 = EffectBase(effect) * StrengthScale(strength)
           /\ EffectBase(effect) * StrengthScale(strength) \in Nat \ {0}
<1> USE ScaleAssumption
<1>1. Scale \div 2 \in Nat /\ 2 * (Scale \div 2) = Scale
  OBVIOUS
<1>2. EffectBase(effect) \in {64, 128}
  BY DEF EffectBase
<1>3. \E q \in {32, 64, 128} : EffectBase(effect) * StrengthScale(strength) = q * Scale
  BY <1>1, <1>2 DEF StrengthScale
<1>4. PICK q \in {32, 64, 128} : EffectBase(effect) * StrengthScale(strength) = q * Scale
  BY <1>3
<1>5. EffectGain(effect, strength) = q
  BY <1>4, ExactQuotient DEF EffectGain
<1> QED BY <1>4, <1>5

(***************************************************************************)
(* VibratorService: what is answered.                                      *)
(***************************************************************************)
Tap == [delayMs : 0..1000, level : 0..2, gain : 0..128]

(* A gain that does justice to what was asked for.                         *)
Just(wish, given) ==
    IF wish.base * wish.n = 0 THEN given = 0
    ELSE /\ given \in 1..128
         /\ given = 1 \/ Near(given, wish.base, wish.n)

(* An effect that passes the checks of compose() becomes a tap the motor   *)
(* takes, at a gain that does it justice.                                  *)
LEMMA PrimitiveTapIsJust ==
    ASSUME NEW effect \in [primitive : STRING, scale : Int, delayMs : Int],
           ~Wrong(effect), effect.primitive \in Primitives
    PROVE  /\ PrimitiveTap(effect) \in Tap
           /\ Just([base |-> PrimitiveBase(effect.primitive), n |-> effect.scale],
                   PrimitiveTap(effect).gain)
<1> DEFINE base == PrimitiveBase(effect.primitive)
<1>1. base \in {0, 64, 96, 128}
  BY DEF PrimitiveBase
<1>2. effect.scale \in 0..Scale /\ effect.delayMs \in 0..1000
  BY DEF Wrong
<1>3. CASE effect.scale = 0 \/ base = 0
  <2>1. base * effect.scale = 0
    BY <1>1, <1>2, <1>3, ScaleAssumption
  <2>2. PrimitiveTap(effect).gain = 0
    BY <1>3 DEF PrimitiveTap
  <2> QED BY <1>2, <2>1, <2>2 DEF PrimitiveTap, Tap, Just
<1>4. CASE effect.scale # 0 /\ base # 0
  <2>1. effect.scale \in 1..Scale /\ base \in 1..128
    BY <1>1, <1>2, <1>4, ScaleAssumption
  <2>2. base * effect.scale # 0
    BY <1>1, <2>1, ScaleAssumption
  <2>3. PrimitiveTap(effect).gain = AudibleGain(base, effect.scale)
    BY <1>4 DEF PrimitiveTap
  <2>4. /\ AudibleGain(base, effect.scale) \in 1..128
        /\ \/ AudibleGain(base, effect.scale) = 1
           \/ Near(AudibleGain(base, effect.scale), base, effect.scale)
    BY <2>1, AudibleGainIsHeard
  <2> HIDE DEF base
  <2>5. Just([base |-> base, n |-> effect.scale], PrimitiveTap(effect).gain)
    BY <2>2, <2>3, <2>4 DEF Just
  <2>6. PrimitiveTap(effect) \in Tap
    BY <1>2, <2>3, <2>4 DEF PrimitiveTap, Tap, base
  <2> QED BY <2>5, <2>6 DEF base
<1> QED BY <1>3, <1>4

(***************************************************************************)
(* VibratorService: the invariant.                                         *)
(***************************************************************************)
MotorInv == chip \in -2..2 /\ taps \in Seq(Tap) /\ (taps # <<>> => chip # Loop)

FateInv ==
    /\ service \in {"up", "restarting", "stopped"}
    /\ initPending \in BOOLEAN /\ orphan \in BOOLEAN /\ initFailed \in BOOLEAN

LastInv ==
    /\ last.reply \in {"none", "OK", "EIO", "ILLEGAL_ARGUMENT", "UNSUPPORTED"}
    /\ HeardAsAsked

ServiceInv == MotorInv /\ FateInv /\ LastInv

(* It holds before the service first starts.                               *)
LEMMA ServiceInitInv == Init => ServiceInv
<1> SUFFICES ASSUME Init PROVE ServiceInv
  OBVIOUS
<1>1. MotorInv
  BY DEF Init, MotorInv, Silent
<1>2. FateInv
  BY DEF Init, FateInv
<1>3. LastInv
  BY DEF Init, LastInv, HeardAsAsked, Nothing
<1> QED BY <1>1, <1>2, <1>3 DEF ServiceInv

(* A request that is turned down changes nothing but the answer.           *)
LEMMA RejectedStep ==
    ASSUME ServiceInv, NEW exception \in {"ILLEGAL_ARGUMENT", "UNSUPPORTED"},
           Rejected(exception)
    PROVE  ServiceInv'
BY DEF ServiceInv, MotorInv, FateInv, LastInv, HeardAsAsked, Rejected, Answered, motor, fate

(* A request the motor takes, at gains that do it justice.                 *)
LEMMA StartsStep ==
    ASSUME ServiceInv, service = "up", NEW level \in -2..2, NEW wanted, NEW gains,
           NEW rest \in Seq(Tap), rest # <<>> => level # Loop,
           Starts(level, wanted, gains, rest),
           UNCHANGED <<service, initPending, initFailed>>,
           \A i \in DOMAIN gains : Just(wanted[i], gains[i])
    PROVE  ServiceInv'
<1>1. MotorInv'
  <2>1. chip' = chip \/ chip' = level \/ chip' = -2
    BY DEF Starts, Silent
  <2>2. taps' = rest \/ taps' = <<>>
    BY DEF Starts
  <2>3. taps' \in Seq(Tap)
    <3>1. CASE taps' = rest
      BY <3>1
    <3>2. CASE taps' = <<>>
      BY <3>2
    <3> QED BY <2>2, <3>1, <3>2
  <2>4. chip' \in -2..2
    BY <2>1 DEF ServiceInv, MotorInv
  <2>5. taps' # <<>> => chip' # Loop
    BY DEF Starts
  <2> QED BY <2>3, <2>4, <2>5 DEF MotorInv
<1>2. FateInv'
  <2>1. orphan' \in BOOLEAN
    <3>1. orphan' = FALSE \/ orphan' = (orphan /\ chip' = chip)
      BY DEF Starts
    <3> QED BY <3>1
  <2> QED BY <2>1 DEF ServiceInv, FateInv
<1>3. LastInv'
  <2>1. \/ Answered(wanted, gains, "OK", TRUE)
        \/ Answered(wanted, gains, "EIO", TRUE)
    BY DEF Starts
  <2>2. CASE Answered(wanted, gains, "OK", TRUE)
    BY <2>2 DEF Answered, LastInv, HeardAsAsked, Just
  <2>3. CASE Answered(wanted, gains, "EIO", TRUE)
    BY <2>3 DEF Answered, LastInv, HeardAsAsked
  <2> QED BY <2>1, <2>2, <2>3
<1> QED BY <1>1, <1>2, <1>3 DEF ServiceInv

(* on(), and perform() with an effect and a strength there are.            *)
LEMMA PlayStep ==
    ASSUME ServiceInv, service = "up", NEW level \in -1..2, NEW wanted, NEW given \in 1..128,
           Just(wanted, given), Play(level, wanted, given)
    PROVE  ServiceInv'
<1>1. Starts(level, <<wanted>>, <<given>>, <<>>) /\ UNCHANGED <<service, initPending, initFailed>>
  BY DEF Play
<1>2. \A i \in DOMAIN <<given>> : Just(<<wanted>>[i], <<given>>[i])
  OBVIOUS
<1>3. level \in -2..2 /\ <<>> \in Seq(Tap)
  OBVIOUS
<1> QED BY <1>1, <1>2, <1>3, StartsStep

(* setAmplitude().                                                         *)
LEMMA AmplitudeStep ==
    ASSUME ServiceInv, NEW n \in Amplitudes, SetAmplitude(n) PROVE ServiceInv'
<1>1. CASE n \notin 1..Scale
  BY <1>1, RejectedStep DEF SetAmplitude
<1>2. CASE n \in 1..Scale
  <2>1. Just([base |-> 128, n |-> n], AudibleGain(128, n))
    <3>1. 128 \in 1..128 /\ n \in Nat \ {0} /\ 128 * n # 0
      BY <1>2, ScaleAssumption
    <3>2. /\ AudibleGain(128, n) \in 1..128
          /\ AudibleGain(128, n) = 1 \/ Near(AudibleGain(128, n), 128, n)
      BY <1>2, <3>1, AudibleGainIsHeard
    <3> QED BY <3>1, <3>2 DEF Just
  <2>2. MotorInv' /\ FateInv'
    BY <1>2 DEF SetAmplitude, ServiceInv, MotorInv, FateInv, motor, fate
  <2>3. LastInv'
    BY <1>2, <2>1 DEF SetAmplitude, Answered, LastInv, HeardAsAsked, Just
  <2> QED BY <2>2, <2>3 DEF ServiceInv
<1> QED BY <1>1, <1>2

(* on() and perform().                                                     *)
LEMMA EffectStep ==
    ASSUME ServiceInv
    PROVE  /\ \A duration : On(duration) => ServiceInv'
           /\ \A effect, strength : Perform(effect, strength) => ServiceInv'
<1>1. ASSUME NEW duration, On(duration) PROVE ServiceInv'
  <2>1. CASE duration <= 0
    BY <1>1, <2>1, RejectedStep DEF On
  <2>2. CASE ~(duration <= 0)
    <3>1. service = "up" /\ Play(Loop, [base |-> 128, n |-> Scale], 128)
      BY <1>1, <2>2 DEF On
    <3>2. Just([base |-> 128, n |-> Scale], 128)
      BY ScaleAssumption DEF Just, Near
    <3> QED BY <3>1, <3>2, PlayStep DEF Loop
  <2> QED BY <2>1, <2>2
<1>2. ASSUME NEW effect, NEW strength, Perform(effect, strength) PROVE ServiceInv'
  <2>1. CASE strength \notin Strengths \/ effect \notin Effects
    <3>1. \E exception \in {"ILLEGAL_ARGUMENT", "UNSUPPORTED"} : Rejected(exception)
      BY <1>2, <2>1 DEF Perform
    <3> QED BY <3>1, RejectedStep
  <2>2. CASE strength \in Strengths /\ effect \in Effects
    <3> DEFINE wanted == [base |-> EffectBase(effect), n |-> StrengthScale(strength)]
               given == EffectGain(effect, strength)
    <3>1. service = "up" /\ Play(EffectLevel(effect, strength), wanted, given)
      BY <1>2, <2>2 DEF Perform
    <3>2. EffectLevel(effect, strength) \in -1..2
      BY DEF EffectLevel
    <3>3. given \in 1..128 /\ Just(wanted, given)
      BY EffectGainIsExact, ScaleAssumption DEF Just, Near
    <3> HIDE DEF wanted, given
    <3> QED BY <3>1, <3>2, <3>3, PlayStep
  <2> QED BY <2>1, <2>2
<1> QED BY <1>1, <1>2

(* compose().  The motor takes every tap of it, and a list of effects is   *)
(* never empty when it gets that far.                                      *)
LEMMA ComposeStep ==
    ASSUME ServiceInv, NEW effects \in Compositions, Compose(effects) PROVE ServiceInv'
<1> DEFINE Effect == [primitive : STRING, scale : Int, delayMs : Int]
           bad == {i \in DOMAIN effects :
                      Wrong(effects[i]) \/ effects[i].primitive \notin Primitives}
           first == CHOOSE i \in bad : \A j \in bad : i <= j
           new == [i \in DOMAIN effects |-> PrimitiveTap(effects[i])]
           wanted == [i \in DOMAIN effects |->
                        [base |-> PrimitiveBase(effects[i].primitive),
                         n |-> effects[i].scale]]
           gains == [i \in DOMAIN effects |-> new[i].gain]
<1>1. effects \in Seq(Effect)
  BY CompositionsAssumption
<1>2. CASE Len(effects) \notin 1..64
  BY <1>2, RejectedStep DEF Compose
<1>3. CASE Len(effects) \in 1..64 /\ bad # {}
  <2>1. \E exception \in {"ILLEGAL_ARGUMENT", "UNSUPPORTED"} : Rejected(exception)
    BY <1>3 DEF Compose
  <2> QED BY <2>1, RejectedStep
<1>4. CASE Len(effects) \in 1..64 /\ bad = {}
  <2>1. service = "up" /\ PlayTaps(new, wanted, gains)
    BY <1>4 DEF Compose
  <2>2. ASSUME NEW i \in DOMAIN effects
        PROVE  /\ PrimitiveTap(effects[i]) \in Tap
               /\ Just([base |-> PrimitiveBase(effects[i].primitive),
                         n |-> effects[i].scale], PrimitiveTap(effects[i]).gain)
    <3>1. effects[i] \in Effect
      <4> HIDE DEF Effect
      <4> QED BY <1>1
    <3>2. ~Wrong(effects[i]) /\ effects[i].primitive \in Primitives
      BY <1>4
    <3> QED BY <3>1, <3>2, PrimitiveTapIsJust
  <2>3. new \in Seq(Tap) /\ Len(new) = Len(effects)
    <3> HIDE DEF Effect
    <3>1. DOMAIN effects = 1..Len(effects) /\ Len(effects) \in Nat
      BY <1>1
    <3>2. new \in [1..Len(effects) -> Tap]
      BY <2>2, <3>1
    <3> QED BY <3>1, <3>2
  <2>4. new[1] \in Tap /\ Tail(new) \in Seq(Tap)
    <3> HIDE DEF new
    <3>1. Len(new) \in 1..64
      BY <1>4, <2>3
    <3>2. new # <<>>
      <4>1. Len(<<>>) = 0 /\ \A n \in 1..64 : n # 0
        OBVIOUS
      <4> QED BY <3>1, <4>1, Zenon
    <3>3. Tail(new) \in Seq(Tap)
      BY <2>3, <3>2
    <3>4. new[1] \in Tap
      BY <2>3, <3>1
    <3> QED BY <3>3, <3>4
  <2>5. \A i \in DOMAIN new : InRange(new[i])
    <3>1. \A tap \in Tap : InRange(tap)
      BY DEF InRange, Tap
    <3> QED BY <2>2, <3>1
  <2>6. Starts(First(new[1]), wanted, gains, IF new[1].delayMs > 0 THEN new ELSE Tail(new))
    BY <2>1, <2>5 DEF PlayTaps
  <2>7. UNCHANGED <<service, initPending, initFailed>>
    BY <2>1 DEF PlayTaps
  <2>8. First(new[1]) \in -2..2
    BY <2>4 DEF First, Silent, Tap
  <2>9. \A i \in DOMAIN gains : Just(wanted[i], gains[i])
    BY <2>2
  <2>10. First(new[1]) # Loop
    BY <2>4 DEF First, Silent, Loop, Tap
  <2>11. (IF new[1].delayMs > 0 THEN new ELSE Tail(new)) \in Seq(Tap)
    <3> HIDE DEF new
    <3> QED BY <2>3, <2>4
  <2> HIDE DEF new, wanted, gains
  <2> QED BY <2>1, <2>6, <2>7, <2>8, <2>9, <2>10, <2>11, StartsStep
<1> QED BY <1>2, <1>3, <1>4

(* off(), the ends of taps and waves, and the service's life.              *)
LEMMA MotorStep ==
    ASSUME ServiceInv, Off \/ NextTap \/ WaveEnds \/ LoopEnds \/ Die \/ InitWrites \/ Start
    PROVE  ServiceInv'
<1> USE DEF Off, NextTap, WaveEnds, LoopEnds, Die, InitWrites, Start
<1>1. MotorInv'
  <2>1. CASE NextTap
    <3>1. Head(taps) \in Tap /\ Tail(taps) \in Seq(Tap) /\ service' = service /\ service = "up"
      BY <2>1 DEF ServiceInv, MotorInv
    <3>2. chip' = chip \/ chip' = -2 \/ chip' = Head(taps).level
      BY <2>1 DEF Silent
    <3>3. taps' = Tail(taps) \/ taps' = <<>>
      BY <2>1
    <3>4. Head(taps).level \in 0..2
      BY <3>1 DEF Tap
    <3>5. chip' \in -2..2
      BY <3>2, <3>4 DEF ServiceInv, MotorInv
    <3>8. taps' # <<>> => chip' # Loop
      BY <2>1, <3>4 DEF Silent, Loop
    <3>6. CASE taps' = Tail(taps)
      BY <3>1, <3>5, <3>6, <3>8 DEF MotorInv
    <3>7. CASE taps' = <<>>
      BY <3>1, <3>5, <3>7 DEF MotorInv
    <3> QED BY <3>3, <3>6, <3>7
  <2>2. CASE Off \/ WaveEnds \/ LoopEnds \/ Die \/ InitWrites \/ Start
    <3>1. chip' \in -2..2
      <4>1. chip' = chip \/ chip' = -2
        BY <2>2 DEF Silent, motor
      <4> QED BY <4>1 DEF ServiceInv, MotorInv
    <3>2. taps' \in Seq(Tap)
      <4>1. CASE taps' = taps
        BY <4>1 DEF ServiceInv, MotorInv
      <4>2. CASE taps' = <<>>
        BY <4>2
      <4> QED BY <2>2, <4>1, <4>2
    <3>3. taps' # <<>> => chip' # Loop
      <4>1. taps' = <<>> \/ (taps' = taps /\ chip' \in {chip, Silent})
        BY <2>2 DEF motor
      <4> QED BY <4>1 DEF ServiceInv, MotorInv, Silent, Loop
    <3> QED BY <3>1, <3>2, <3>3 DEF MotorInv
  <2> QED BY <2>1, <2>2
<1>2. FateInv'
  <2>1. orphan' \in BOOLEAN
    <3>1. \/ orphan' = FALSE \/ orphan' = orphan
          \/ orphan' = (orphan /\ chip' = chip) \/ orphan' = (chip # Silent)
      OBVIOUS
    <3>2. orphan \in BOOLEAN
      BY DEF ServiceInv, FateInv
    <3> QED BY <3>1, <3>2
  <2> QED BY <2>1 DEF ServiceInv, FateInv, motor
<1>3. LastInv'
  <2>1. \/ last' = last
        \/ last'.reply = "none"
        \/ last'.gains = <<>> /\ last'.wrote /\ last'.reply \in {"OK", "EIO"}
    BY DEF Answered, Nothing
  <2>2. CASE last' = last
    BY <2>2 DEF ServiceInv, LastInv, HeardAsAsked
  <2>3. CASE last' # last
    BY <2>1, <2>3 DEF LastInv, HeardAsAsked
  <2> QED BY <2>2, <2>3
<1> QED BY <1>1, <1>2, <1>3 DEF ServiceInv

(* The inductive invariant holds of every behaviour of the service.        *)
THEOREM ServiceInvariance == Spec => []ServiceInv
<1>1. ServiceInv /\ [Next]_vars => ServiceInv'
  <2> SUFFICES ASSUME ServiceInv, [Next]_vars PROVE ServiceInv'
    OBVIOUS
  <2>1. CASE UNCHANGED vars
    BY <2>1 DEF vars, motor, fate, ServiceInv, MotorInv, FateInv, LastInv, HeardAsAsked
  <2>2. CASE Next
    BY <2>2, EffectStep, AmplitudeStep, ComposeStep, MotorStep DEF Next
  <2> QED BY <2>1, <2>2
<1> QED BY <1>1, ServiceInitInv, PTL DEF Spec

(* Every variable of the service keeps its type, and no taps are left when *)
(* the motor plays an endless wave.                                        *)
THEOREM ServiceTyped == Spec => []TypeOK
<1>1. ServiceInv => TypeOK
  <2> SUFFICES ASSUME ServiceInv PROVE TypeOK
    OBVIOUS
  <2>1. ASSUME NEW i \in DOMAIN taps PROVE InRange(taps[i])
    <3>1. taps[i] \in Tap
      BY DEF ServiceInv, MotorInv
    <3> QED BY <3>1 DEF InRange, Tap
  <2>2. {initPending, orphan, initFailed} \subseteq BOOLEAN
    BY DEF ServiceInv, FateInv
  <2> QED BY <2>1, <2>2 DEF ServiceInv, MotorInv, FateInv, LastInv, TypeOK
<1> QED BY <1>1, ServiceInvariance, PTL

(* Every gain does justice to what was asked for, and EIO always means     *)
(* that a write failed.                                                    *)
THEOREM RequestsAreHeard == Spec => []HeardAsAsked
<1>1. ServiceInv => HeardAsAsked
  BY DEF ServiceInv, LastInv
<1> QED BY <1>1, ServiceInvariance, PTL
=============================================================================
