---------------------------- MODULE LiftToWake -----------------------------
(***************************************************************************)
(* gestures/LiftToWakeController.java and RaiseGestureFilter.java: the     *)
(* raise sensor while it is listened to, and the events that may wake the  *)
(* device.  Events come to the handler some time after the sensor made     *)
(* them; one from before the registration, the sensor's cached sample, may *)
(* come first.  GestureSync says when update() runs and what it reads      *)
(* while things change; here it is one step of the same handler thread.    *)
(*                                                                         *)
(* Each event, registration and wake-up has a time of its own.             *)
(***************************************************************************)
EXTENDS Naturals, Sequences

CONSTANTS
    ArmDelay,       \* ARM_DELAY_NS
    MaxTime,        \* bound on the time
    MaxQueue        \* bound on the events on their way

ASSUME BoundsAssumption == ArmDelay \in Nat \ {0} /\ MaxTime \in Nat /\ MaxQueue \in Nat

VARIABLES
    now,
    awake,          \* the device is awake
    setting,        \* wake_gesture_enabled
    events,         \* on their way to the handler: [action, at, after]
    latest,         \* the sensor's latest action since it was registered
    mListening, mArmedAt, mPreviousAction,
    waking,         \* a wake-up was asked for and the proximity is checked
    since,          \* history: when the sensor was registered
    lastWake,       \* history: when a wake-up was last asked for
    skipped         \* history: an action was left out of the filter

device      == <<now, awake, setting, events, latest>>
controller  == <<mListening, mArmedAt, mPreviousAction>>
liftHistory == <<since, lastWake, skipped>>
liftVars    == <<device, controller, waking, liftHistory>>

(* The codes the filter knows, another, none yet, and what is no code.     *)
Actions == {"RAISE", "LOWER", "UPRIGHT", "other"}
NoAction == "none"
NotACode == "noise"

(* Time passes; only what the handler still has to do comes at its bound.  *)
Passes == now < MaxTime /\ now' = now + 1
Later == now' = IF now < MaxTime THEN now + 1 ELSE now

(***************************************************************************)
(* LiftToWakeController.update().                                          *)
(***************************************************************************)
Requested == ~awake /\ setting

Register ==
    /\ Requested /\ ~mListening /\ Passes
    /\ mPreviousAction' = NoAction /\ mArmedAt' = now + ArmDelay
    /\ mListening' \in BOOLEAN
    /\ since' = now /\ skipped' = FALSE /\ latest' = NoAction
    /\ UNCHANGED <<awake, setting, events, waking, lastWake>>

Unregister ==
    /\ ~Requested /\ mListening /\ mListening' = FALSE
    /\ UNCHANGED <<device, mArmedAt, mPreviousAction, waking, liftHistory>>

Update_Rearms ==
    \/ Register \/ Unregister
    \/ /\ Requested /\ mListening /\ Passes /\ mArmedAt' = now + ArmDelay
       /\ UNCHANGED <<awake, setting, events, latest>>
       /\ UNCHANGED <<mListening, mPreviousAction, waking, liftHistory>>
Update == Register \/ Unregister

(***************************************************************************)
(* RaiseGestureFilter.shouldWake(): a value that is no code is not even    *)
(* remembered.                                                             *)
(***************************************************************************)
ShouldWake(action) ==
    \/ action = "RAISE"
    \/ action = "UPRIGHT" /\ mPreviousAction \notin {"RAISE", "LOWER"}

(***************************************************************************)
(* onSensorChanged().                                                      *)
(***************************************************************************)
Arrives == events # <<>> /\ events' = Tail(events)

(* Not listening, or an event from before the registration or the last     *)
(* wake-up.                                                                *)
Ignore ==
    /\ Arrives
    /\ ~mListening \/ Head(events).at < mArmedAt - ArmDelay
    /\ skipped' = (skipped \/ (mListening /\ Head(events).at >= since))
    /\ UNCHANGED <<now, awake, setting, latest, controller, waking, since, lastWake>>

Remember_Raw ==
    /\ Arrives /\ mListening /\ Head(events).at >= mArmedAt - ArmDelay
    /\ mPreviousAction' = Head(events).action
    /\ UNCHANGED <<awake, setting, latest, mListening, since, skipped>>
(* The action is remembered also while the sensor is not armed yet.        *)
Remember ==
    /\ Arrives /\ mListening /\ Head(events).at >= mArmedAt - ArmDelay
    /\ mPreviousAction' = IF Head(events).action = NotACode THEN mPreviousAction
                          ELSE Head(events).action
    /\ UNCHANGED <<awake, setting, latest, mListening, since, skipped>>

Wakes_AnySample ==
    ShouldWake(Head(events).action) /\ ~awake
Wakes ==
    /\ ShouldWake(Head(events).action)
    /\ Head(events).at >= mArmedAt /\ ~awake

Wake ==
    /\ Remember /\ Wakes /\ Later
    /\ mArmedAt' = now + ArmDelay /\ waking' = TRUE /\ lastWake' = now

Note ==
    /\ Remember /\ ~Wakes
    /\ UNCHANGED <<now, mArmedAt, waking, lastWake>>

OnSensorChanged == Ignore \/ Wake \/ Note

(***************************************************************************)
(* The sensor, the display and the user.                                   *)
(***************************************************************************)
Sends(action, at, after) ==
    /\ mListening /\ Len(events) < MaxQueue
    /\ events' = Append(events, [action |-> action, at |-> at, after |-> after])
    /\ UNCHANGED <<awake, setting, controller, waking, liftHistory>>

Sense(action) == Passes /\ Sends(action, now, latest) /\ latest' = action

Noise == Passes /\ Sends(NotACode, now, latest) /\ UNCHANGED latest

(* The sample the sensor had when it was registered.                       *)
Cached(action) ==
    /\ latest = NoAction /\ since > 0 /\ Sends(action, since - 1, NoAction)
    /\ UNCHANGED <<now, latest>>

(* wakeUpWithProximityCheck() wakes the device unless it is covered.       *)
ProximityChecked ==
    /\ waking /\ waking' = FALSE /\ awake' \in {TRUE, awake}
    /\ UNCHANGED <<now, setting, events, latest, controller, liftHistory>>

SwitchScreen ==
    /\ Passes /\ awake' = ~awake
    /\ UNCHANGED <<setting, events, latest, controller, waking, liftHistory>>

ChangeSetting ==
    /\ Passes /\ setting' = ~setting
    /\ UNCHANGED <<awake, events, latest, controller, waking, liftHistory>>

Tick == Passes /\ UNCHANGED <<awake, setting, events, latest, controller, waking, liftHistory>>

(***************************************************************************)
(* Specification.                                                          *)
(***************************************************************************)
LiftInit ==
    /\ now = 0 /\ awake = TRUE /\ setting \in BOOLEAN
    /\ events = <<>> /\ latest = NoAction
    /\ mListening = FALSE /\ mArmedAt = 0 /\ mPreviousAction = NoAction
    /\ waking = FALSE /\ since = 0 /\ lastWake = 0 /\ skipped = FALSE

LiftNext ==
    \/ Update \/ OnSensorChanged
    \/ \E action \in Actions : Sense(action) \/ Cached(action)
    \/ Noise \/ ProximityChecked \/ SwitchScreen \/ ChangeSetting \/ Tick

LiftSpec == LiftInit /\ [][LiftNext]_liftVars

(* The handler thread comes to its events and power manager to its check.  *)
FairLiftSpec == LiftSpec /\ WF_liftVars(OnSensorChanged) /\ WF_liftVars(ProximityChecked)

(***************************************************************************)
(* Properties.                                                             *)
(***************************************************************************)
Event == [action : Actions \cup {NotACode}, at : 0..MaxTime, after : Actions \cup {NoAction}]

LiftTypeOK ==
    /\ now \in 0..MaxTime /\ awake \in BOOLEAN /\ setting \in BOOLEAN
    /\ events \in Seq(Event) /\ Len(events) <= MaxQueue /\ latest \in Actions \cup {NoAction}
    /\ mListening \in BOOLEAN /\ mArmedAt \in 0..(MaxTime + ArmDelay)
    /\ mPreviousAction \in Actions \cup {NoAction}
    /\ waking \in BOOLEAN /\ skipped \in BOOLEAN
    /\ since \in 0..MaxTime /\ lastWake \in 0..MaxTime

(* The device is woken only by an action made in the dark, this            *)
(* registration's, ArmDelay after it began and after the last wake-up, and *)
(* only by a raise or by an upright device that was neither raised nor     *)
(* lowered just before: the sensor's own order, however late its events    *)
(* come, unless one was left out for being older than the last wake-up.    *)
WakesAreMeant ==
    [][lastWake' # lastWake =>
        LET event == Head(events)
        IN  /\ ~awake /\ mListening
            /\ event.at >= since + ArmDelay
            /\ lastWake > since => event.at >= lastWake + ArmDelay
            /\ \/ event.action = "RAISE"
               \/ event.action = "UPRIGHT" /\ (event.after \notin {"RAISE", "LOWER"} \/ skipped)
      ]_liftVars

(* A raise after the sensor is armed is not lost: the device is asked to   *)
(* wake, unless it wakes, or the sensor is given up, before that.          *)
Due ==
    /\ mListening /\ ~awake
    /\ \E i \in DOMAIN events : events[i].action = "RAISE" /\ events[i].at >= mArmedAt

RaiseWakes == Due ~> waking \/ awake \/ ~mListening
=============================================================================
