-------------------------- MODULE VibratorService --------------------------
(***************************************************************************)
(* vibrator/service.cpp with vibrator.m2391.rc: what a request of the      *)
(* framework asks the motor for, in the arithmetic of the code, and what   *)
(* becomes of the motor when the service dies.  TimedMotor says how a      *)
(* request is played and ended; here it is played tap by tap.              *)
(*                                                                         *)
(* A float between 0 and 1 is n / Scale; one out of range, or not finite,  *)
(* is an n outside 0..Scale.                                               *)
(***************************************************************************)
EXTENDS Integers, Sequences

CONSTANTS
    Scale,
    Amplitudes,     \* the n that setAmplitude() is called with
    Compositions    \* the sequences of effects compose() is called with

ASSUME ScaleAssumption == Scale \in Nat /\ Scale > 0 /\ Scale % 2 = 0
ASSUME AmplitudesAssumption == Amplitudes \subseteq Int
ASSUME CompositionsAssumption ==
    Compositions \subseteq Seq([primitive : STRING, scale : Int, delayMs : Int])

VARIABLES
    chip,           \* the level of the wave it plays, Loop or Silent
    taps,           \* the taps of the composition that is being played
    service,        \* "up", "restarting" or "stopped"
    initPending,    \* init has not written cont and enable yet
    orphan,         \* history: a dead service left the motor on
    initFailed,     \* history: init could not write enable since
    last            \* history: the last request and what came of it

motor == <<chip, taps>>
fate  == <<service, initPending, orphan, initFailed>>
vars  == <<motor, fate, last>>

Loop == -1
Silent == -2

(***************************************************************************)
(* The arithmetic.                                                         *)
(***************************************************************************)
Larger(a, b) == IF a > b THEN a ELSE b

(* static_cast<int>(base * n / Scale + 0.5f)                               *)
Rounded(base, n) == (2 * base * n + Scale) \div (2 * Scale)

AudibleGain_Rounded(base, n) == Rounded(base, n)
AudibleGain(base, n) == Larger(1, Rounded(base, n))

Strengths == {"LIGHT", "MEDIUM", "STRONG"}
Effects == {"CLICK", "HEAVY_CLICK", "TICK", "TEXTURE_TICK"}
Primitives == {"NOOP", "CLICK", "LIGHT_TICK", "LOW_TICK"}

EffectLevel(effect, strength) ==
    CASE effect = "HEAVY_CLICK" \/ (effect = "CLICK" /\ strength = "STRONG") -> 2
      [] effect = "CLICK" /\ strength = "MEDIUM" -> 1
      [] OTHER -> 0

EffectBase(effect) == IF effect = "TEXTURE_TICK" THEN 64 ELSE 128
StrengthScale(strength) == IF strength = "LIGHT" THEN Scale \div 2 ELSE Scale
EffectGain(effect, strength) ==
    (EffectBase(effect) * StrengthScale(strength)) \div Scale

PrimitiveBase(primitive) ==
    CASE primitive = "CLICK" -> 128
      [] primitive = "LIGHT_TICK" -> 96
      [] primitive = "LOW_TICK" -> 64
      [] OTHER -> 0

PrimitiveTap(effect) ==
    LET base == PrimitiveBase(effect.primitive)
    IN  [delayMs |-> effect.delayMs,
         level   |-> IF effect.primitive = "CLICK" THEN 1 ELSE 0,
         gain    |-> IF effect.scale = 0 \/ base = 0 THEN 0
                     ELSE AudibleGain(base, effect.scale)]

(***************************************************************************)
(* The motor.  A request whose writes succeed is played; one that fails    *)
(* may leave the motor as it was, silent, or with the new wave started.    *)
(* What is out of range is refused before anything is written.             *)
(***************************************************************************)
Answered(wanted, gains, reply, wrote) ==
    last' = [wanted |-> wanted, gains |-> gains, reply |-> reply, wrote |-> wrote]

Rejected(exception) ==
    Answered(<<>>, <<>>, exception, FALSE) /\ UNCHANGED <<motor, fate>>

(* A wave of the new request, or silence, is the end of an orphan.         *)
Starts(level, wanted, gains, rest) ==
    \/ /\ chip' = level /\ taps' = rest /\ orphan' = FALSE
       /\ Answered(wanted, gains, "OK", TRUE)
    \/ /\ chip' \in {chip, level, Silent} /\ taps' = <<>>
       /\ orphan' = (orphan /\ chip' = chip)
       /\ Answered(wanted, gains, "EIO", TRUE)

Refused(wanted, gains) ==
    Answered(wanted, gains, "EIO", FALSE) /\ UNCHANGED <<motor, orphan>>

Play_KeepsTaps(level, wanted, gain) ==
    /\ IF level \in -1..2 /\ gain \in 1..128
       THEN Starts(level, <<wanted>>, <<gain>>, taps)
       ELSE Refused(<<wanted>>, <<gain>>)
    /\ UNCHANGED <<service, initPending, initFailed>>
Play(level, wanted, gain) ==
    /\ IF level \in -1..2 /\ gain \in 1..128
       THEN Starts(level, <<wanted>>, <<gain>>, <<>>)
       ELSE Refused(<<wanted>>, <<gain>>)
    /\ UNCHANGED <<service, initPending, initFailed>>

InRange(tap) == tap.delayMs \in 0..1000 /\ tap.level \in 0..2 /\ tap.gain \in 0..128

(* A composition that begins with a delay or a rest begins with silence.   *)
First(tap) == IF tap.delayMs > 0 \/ tap.gain = 0 THEN Silent ELSE tap.level

PlayTaps(new, wanted, gains) ==
    /\ IF \A i \in DOMAIN new : InRange(new[i])
       THEN Starts(First(new[1]), wanted, gains,
                   IF new[1].delayMs > 0 THEN new ELSE Tail(new))
       ELSE Refused(wanted, gains)
    /\ UNCHANGED <<service, initPending, initFailed>>

(***************************************************************************)
(* The service's operations.                                               *)
(***************************************************************************)
On(duration) ==
    /\ service = "up"
    /\ IF duration <= 0 THEN Rejected("ILLEGAL_ARGUMENT")
       ELSE Play(Loop, [base |-> 128, n |-> Scale], 128)

Perform(effect, strength) ==
    /\ service = "up"
    /\ CASE strength \notin Strengths -> Rejected("ILLEGAL_ARGUMENT")
         [] strength \in Strengths /\ effect \notin Effects -> Rejected("UNSUPPORTED")
         [] OTHER -> Play(EffectLevel(effect, strength),
                          [base |-> EffectBase(effect), n |-> StrengthScale(strength)],
                          EffectGain(effect, strength))

SetAmplitude(n) ==
    /\ service = "up"
    /\ IF n \notin 1..Scale THEN Rejected("ILLEGAL_ARGUMENT")
       ELSE /\ \E reply \in {"OK", "EIO"} :
                  Answered(<<[base |-> 128, n |-> n]>>, <<AudibleGain(128, n)>>, reply, TRUE)
            /\ UNCHANGED <<motor, fate>>

(* The effects are looked at in turn; the first that is wrong decides.     *)
Wrong(effect) == effect.delayMs \notin 0..1000 \/ effect.scale \notin 0..Scale

Compose(effects) ==
    /\ service = "up"
    /\ LET bad == {i \in DOMAIN effects :
                      Wrong(effects[i]) \/ effects[i].primitive \notin Primitives}
           first == CHOOSE i \in bad : \A j \in bad : i <= j
       IN  IF Len(effects) \notin 1..64 THEN Rejected("ILLEGAL_ARGUMENT")
           ELSE IF bad # {}
           THEN Rejected(IF Wrong(effects[first]) THEN "ILLEGAL_ARGUMENT" ELSE "UNSUPPORTED")
           ELSE LET new == [i \in DOMAIN effects |-> PrimitiveTap(effects[i])]
                IN  PlayTaps(new,
                             [i \in DOMAIN effects |->
                                [base |-> PrimitiveBase(effects[i].primitive),
                                 n |-> effects[i].scale]],
                             [i \in DOMAIN effects |-> new[i].gain])

(* off(), and what TimedMotor does at the end of a request: the motor is   *)
(* stopped if the service owns it, or stays on if that fails.              *)
Off ==
    /\ service = "up" /\ taps' = <<>>
    /\ \/ chip' = Silent /\ orphan' = FALSE /\ Answered(<<>>, <<>>, "OK", TRUE)
       \/ UNCHANGED <<chip, orphan>> /\ Answered(<<>>, <<>>, "EIO", TRUE)
    /\ UNCHANGED <<service, initPending, initFailed>>

(***************************************************************************)
(* Time: the next tap, the end of a finite wave, the end of a request.     *)
(***************************************************************************)
NextTap ==
    /\ service = "up" /\ taps # <<>>
    /\ LET tap == Head(taps)
           wave == IF tap.gain = 0 THEN Silent ELSE tap.level
       IN  \/ chip' = wave /\ taps' = Tail(taps)
           \/ chip' \in {chip, wave, Silent} /\ taps' = <<>>
    /\ orphan' = (orphan /\ chip' = chip)
    /\ UNCHANGED <<service, initPending, initFailed, last>>

WaveEnds ==
    /\ chip >= 0 /\ chip' = Silent /\ orphan' = FALSE
    /\ UNCHANGED <<taps, service, initPending, initFailed, last>>

LoopEnds ==
    /\ service = "up" /\ chip = Loop /\ chip' = Silent /\ orphan' = FALSE
    /\ UNCHANGED <<taps, service, initPending, initFailed, last>>

(***************************************************************************)
(* The service dies, or is stopped, with the motor as it is.  init then    *)
(* writes cont and enable, and starts it again if it died; its successor   *)
(* writes them as well, in whichever order the two come.                   *)
(***************************************************************************)
Nothing == [wanted |-> <<>>, gains |-> <<>>, reply |-> "none", wrote |-> FALSE]

Die ==
    /\ service = "up" /\ service' \in {"restarting", "stopped"}
    /\ taps' = <<>> /\ orphan' = (chip # Silent)
    /\ initPending' = TRUE /\ initFailed' = FALSE /\ last' = Nothing
    /\ UNCHANGED chip

InitWrites_ContOnly ==
    /\ initPending /\ initPending' = FALSE
    /\ UNCHANGED <<chip, orphan, initFailed, taps, service, last>>
InitWrites ==
    /\ initPending /\ initPending' = FALSE
    /\ \/ chip' = Silent /\ orphan' = FALSE /\ UNCHANGED initFailed
       \/ initFailed' = TRUE /\ UNCHANGED <<chip, orphan>>
    /\ UNCHANGED <<taps, service, last>>

(* initialize(), before the service is registered.                         *)
Start ==
    /\ service # "up" /\ service' = "up"
    /\ \/ chip' = Silent /\ orphan' = FALSE
       \/ UNCHANGED <<chip, orphan>>
    /\ UNCHANGED <<taps, initPending, initFailed, last>>

(***************************************************************************)
(* Specification.                                                          *)
(***************************************************************************)
Init ==
    /\ chip = Silent /\ taps = <<>> /\ service = "stopped"
    /\ initPending = FALSE /\ orphan = FALSE /\ initFailed = FALSE
    /\ last = Nothing

Next ==
    \/ \E duration \in {0, 15} : On(duration)
    \/ \E effect \in Effects \cup {"THUD"}, strength \in Strengths \cup {"BEYOND"} :
          Perform(effect, strength)
    \/ \E n \in Amplitudes : SetAmplitude(n)
    \/ \E effects \in Compositions : Compose(effects)
    \/ Off \/ NextTap \/ WaveEnds \/ LoopEnds
    \/ Die \/ InitWrites \/ Start

Spec == Init /\ [][Next]_vars

(* init comes to its actions.                                              *)
FairSpec == Spec /\ WF_vars(InitWrites)

(***************************************************************************)
(* Properties.                                                             *)
(***************************************************************************)
(* With taps yet to be played the motor plays no endless wave, which a tap *)
(* of an earlier composition would end or follow.                          *)
TypeOK ==
    /\ chip \in -2..2
    /\ \A i \in DOMAIN taps : InRange(taps[i])
    /\ service \in {"up", "restarting", "stopped"}
    /\ {initPending, orphan, initFailed} \subseteq BOOLEAN
    /\ last.reply \in {"none", "OK", "EIO", "ILLEGAL_ARGUMENT", "UNSUPPORTED"}
    /\ taps # <<>> => chip # Loop

Near(gain, base, n) == 2 * (gain * Scale - base * n) \in -Scale..Scale

(* What is asked for softly is still felt, what is asked to be silent is   *)
(* not, and everything else has the gain nearest to its scale; and no      *)
(* request the service takes is refused by the motor's own checks: EIO     *)
(* always means that a write failed.                                       *)
HeardAsAsked ==
    /\ last.reply = "OK" =>
         \A i \in DOMAIN last.gains :
            LET asked == last.wanted[i]
                given == last.gains[i]
            IN  IF asked.base * asked.n = 0 THEN given = 0
                ELSE /\ given \in 1..128
                     /\ given = 1 \/ Near(given, asked.base, asked.n)
    /\ last.reply = "EIO" => last.wrote

(* A service that dies, or is stopped, with the motor on leaves it to init *)
(* to silence, unless init's write fails.                                  *)
CrashSilences == orphan ~> ~orphan \/ initFailed
=============================================================================
