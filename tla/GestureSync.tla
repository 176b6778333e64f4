---------------------------- MODULE GestureSync ----------------------------
(***************************************************************************)
(* The gestures application (gestures/.../GestureApplication.java,         *)
(* GestureControl.java, LiftToWakeController.update()): settings, the      *)
(* screen, the keyguard and the fingerprint service are followed by a mask *)
(* of the touch controller and by a sensor listener.                       *)
(*                                                                         *)
(* One handler thread runs messages in order.  Whatever the system tells   *)
(* the process is posted to it; a message that applies the settings reads  *)
(* them one after the other while they go on changing.  `notices' are the  *)
(* broadcasts and callbacks still on their way to the process: a topic is  *)
(* in the set from a change to the delivery of the news of it.             *)
(***************************************************************************)
EXTENDS Naturals, Sequences

CONSTANTS
    MaxRetries,    \* MAX_RETRIES
    MaxChanges,    \* bound on what happens around the application
    FirstSettings  \* the settings it may start with, each a set of those on

ASSUME RetriesAssumption == MaxRetries \in Nat
ASSUME ChangesAssumption == MaxChanges \in Nat

Settings == {"doubleTap", "fingerprint", "lift"}

ASSUME FirstSettingsAssumption == FirstSettings \subseteq SUBSET Settings

Topics == {"settings", "enrolled", "screen", "auth", "boot"}
Owned == {"doubleTap", "fingerprint"}
Bits == Owned \cup {"other", "enable"}
Stages == {"idle", "lift", "register", "doubleTap", "screen", "keyguard", "fingerprint",
           "write"}

VARIABLES
    settings,    \* those the current user has on; "fingerprint" stands for a
                 \* fingerprint enrolled together with doze_pulse_on_auth
    interactive, \* PowerManager.isInteractive()
    locked,      \* KeyguardManager.isKeyguardLocked()
    auth,        \* the keyguard's authentication client runs
    booted,      \* the fingerprint service is up
    changes,     \* how much happened
    notices,     \* topics with news on the way
    queue,       \* messages posted to the handler
    pending,     \* mApply posted with a delay, not yet run
    stage,       \* "idle", or where applySetting() is
    mRetries,
    mKeyguardAuthenticationRunning,
    registered,  \* mFingerprintListenerRegistered
    listening,   \* LiftToWakeController.mListening
    wanted,      \* the bits applySetting() has found to be wanted so far
    mask,        \* gesture_control, as the set of its bits
    failures,    \* history: failed attempts since the last synchronisation
    gaveUp,      \* history: the last attempt failed and nothing will retry
    refused      \* history: the raise sensor could not be registered

world == <<settings, interactive, locked, auth, booted, changes>>
process == <<mRetries, mKeyguardAuthenticationRunning, registered, listening, wanted>>
history == <<failures, gaveUp, refused>>
vars == <<world, notices, queue, pending, stage, process, mask, history>>

(***************************************************************************)
(* The world.  Content observers and the screen's receiver are registered  *)
(* for as long as the process lives, the fingerprint listener once the     *)
(* service was there.                                                      *)
(***************************************************************************)
Happens(topics) ==
    /\ changes < MaxChanges /\ changes' = changes + 1
    /\ notices' = notices \cup topics
    /\ UNCHANGED <<queue, pending, stage, process, mask, history>>

Heard(topic) == IF registered THEN {topic} ELSE {}

(* A setting is switched, or several with the user.                        *)
ChangeSettings ==
    /\ settings' \in (SUBSET Settings) \ {settings} /\ Happens({"settings"})
    /\ UNCHANGED <<interactive, locked, auth, booted>>

ChangeEnrollment ==
    /\ \/ settings' = settings \cup {"fingerprint"}
       \/ settings' = settings \ {"fingerprint"}
    /\ Happens(Heard("enrolled"))
    /\ UNCHANGED <<interactive, locked, auth, booted>>

ChangeScreen ==
    /\ interactive' = ~interactive /\ Happens({"screen"})
    /\ UNCHANGED <<settings, locked, auth, booted>>

(* Only the end of a lock is announced, by ACTION_USER_PRESENT.            *)
ChangeLock ==
    /\ locked' = ~locked /\ Happens(IF locked THEN {"screen"} ELSE {})
    /\ UNCHANGED <<settings, interactive, auth, booted>>

ChangeAuth ==
    /\ auth' = ~auth /\ Happens(Heard("auth"))
    /\ UNCHANGED <<settings, interactive, locked, booted>>

(* The fingerprint service is up by the time boot is completed.            *)
Boot ==
    /\ ~booted /\ booted' = TRUE /\ notices' = notices \cup {"boot"}
    /\ UNCHANGED <<settings, interactive, locked, auth, changes,
                   queue, pending, stage, process, mask, history>>

(***************************************************************************)
(* Callbacks post messages.  The state of authentication is posted with    *)
(* its value, the rest only as a reason to synchronise.                    *)
(***************************************************************************)
Message(topic) == IF topic = "auth" THEN IF auth THEN "auth" ELSE "noauth" ELSE "sync"

Deliver(topic) ==
    /\ topic \in notices /\ notices' = notices \ {topic}
    /\ queue' = Append(queue, Message(topic))
    /\ UNCHANGED <<world, pending, stage, process, mask, history>>

(***************************************************************************)
(* Messages.                                                               *)
(***************************************************************************)
Receive(message) ==
    /\ stage = "idle" /\ queue # <<>> /\ Head(queue) = message

(* A message of its own for the state, another for what follows from it.   *)
Authentication_Alone(running) ==
    /\ Receive(IF running THEN "auth" ELSE "noauth")
    /\ mKeyguardAuthenticationRunning' = running /\ queue' = Tail(queue)
    /\ UNCHANGED <<world, notices, pending, stage, mRetries, registered, listening,
                   wanted, mask, history>>
Authentication(running) ==
    /\ Receive(IF running THEN "auth" ELSE "noauth")
    /\ mKeyguardAuthenticationRunning' = running
    /\ queue' = Append(Tail(queue), "sync")
    /\ UNCHANGED <<world, notices, pending, stage, mRetries, registered, listening,
                   wanted, mask, history>>

synchronizeSetting_Twice ==
    /\ Receive("sync") /\ queue' = Tail(queue) /\ stage' = "lift"
    /\ mRetries' = 0 /\ failures' = 0 /\ gaveUp' = FALSE
    /\ UNCHANGED <<world, notices, pending, mKeyguardAuthenticationRunning, registered,
                   listening, wanted, mask, refused>>
synchronizeSetting_NoReset ==
    /\ Receive("sync") /\ queue' = Tail(queue) /\ stage' = "lift"
    /\ pending' = 0 /\ failures' = 0 /\ gaveUp' = FALSE
    /\ UNCHANGED <<world, notices, mRetries, mKeyguardAuthenticationRunning, registered,
                   listening, wanted, mask, refused>>
synchronizeSetting ==
    /\ Receive("sync") /\ queue' = Tail(queue) /\ stage' = "lift"
    /\ pending' = 0 /\ mRetries' = 0 /\ failures' = 0 /\ gaveUp' = FALSE
    /\ UNCHANGED <<world, notices, mKeyguardAuthenticationRunning, registered,
                   listening, wanted, mask, refused>>

Retry ==
    /\ stage = "idle" /\ pending > 0 /\ pending' = pending - 1 /\ stage' = "lift"
    /\ UNCHANGED <<world, notices, queue, process, mask, history>>

(***************************************************************************)
(* applySetting(), read by read.                                           *)
(***************************************************************************)
LiftRequested == ~interactive /\ "lift" \in settings

(* A registration that is refused is not an error, and is not retried.     *)
UpdateLift ==
    /\ stage = "lift" /\ stage' = "register"
    /\ listening' \in IF LiftRequested /\ ~listening THEN BOOLEAN ELSE {LiftRequested}
    /\ refused' = (LiftRequested /\ ~listening')
    /\ UNCHANGED <<world, notices, queue, pending, mRetries,
                   mKeyguardAuthenticationRunning, registered, wanted, mask,
                   failures, gaveUp>>

(* No service, no listener and no error.  One that is there is registered  *)
(* with before its enrollments are read.                                   *)
RegisterListener ==
    /\ stage = "register" /\ stage' = "doubleTap"
    /\ registered' = (registered \/ booted)
    /\ UNCHANGED <<world, notices, queue, pending, mRetries,
                   mKeyguardAuthenticationRunning, listening, wanted, mask, history>>

ReadDoubleTap ==
    /\ stage = "doubleTap" /\ stage' = "screen"
    /\ wanted' = settings \cap {"doubleTap"}
    /\ UNCHANGED <<world, notices, queue, pending, mRetries,
                   mKeyguardAuthenticationRunning, registered, listening, mask, history>>

(* The fingerprint is wanted for an authentication, with the screen off or *)
(* with the keyguard up, and each is looked at only if those before it do  *)
(* not decide; without the service its setting is not read.                *)
Request == \/ registered /\ stage' = "fingerprint"
           \/ ~registered /\ stage' = "write"

ReadScreen ==
    /\ stage = "screen"
    /\ \/ (mKeyguardAuthenticationRunning \/ ~interactive) /\ Request
       \/ ~mKeyguardAuthenticationRunning /\ interactive /\ stage' = "keyguard"
    /\ UNCHANGED <<world, notices, queue, pending, process, mask, history>>

ReadKeyguard ==
    /\ stage = "keyguard"
    /\ \/ locked /\ Request
       \/ ~locked /\ stage' = "write"
    /\ UNCHANGED <<world, notices, queue, pending, process, mask, history>>

ReadFingerprint ==
    /\ stage = "fingerprint" /\ stage' = "write"
    /\ wanted' = wanted \cup (settings \cap {"fingerprint"})
    /\ UNCHANGED <<world, notices, queue, pending, mRetries,
                   mKeyguardAuthenticationRunning, registered, listening, mask, history>>

(* An IOException or RuntimeException: tried again a second later, some    *)
(* times.                                                                  *)
Failed_Forever ==
    /\ stage' = "idle" /\ wanted' = {} /\ mRetries' = mRetries /\ pending' = pending + 1
    /\ failures' = IF failures > MaxRetries THEN failures ELSE failures + 1
    /\ gaveUp' = FALSE
    /\ UNCHANGED <<world, notices, queue, mKeyguardAuthenticationRunning, registered,
                   listening, refused>>
Failed ==
    /\ stage' = "idle" /\ wanted' = {} /\ mRetries' = mRetries + 1 /\ failures' = failures + 1
    /\ IF mRetries < MaxRetries
       THEN pending' = pending + 1 /\ gaveUp' = FALSE
       ELSE gaveUp' = TRUE /\ UNCHANGED pending
    /\ UNCHANGED <<world, notices, queue, mKeyguardAuthenticationRunning, registered,
                   listening, refused>>

ReadFails == stage \notin {"idle", "write"} /\ Failed /\ UNCHANGED mask

(* setGesturesEnabled(): bits of others stay, the enable bit goes with the *)
(* last gesture.                                                           *)
Updated ==
    LET gestures == (mask \ (Owned \cup {"enable"})) \cup wanted
    IN IF gestures = {} THEN {} ELSE gestures \cup {"enable"}

Done ==
    /\ stage' = "idle" /\ wanted' = {}
    /\ UNCHANGED <<world, notices, queue, pending, mRetries,
                   mKeyguardAuthenticationRunning, registered, listening, history>>

(* The write, if there is anything to write, and its readback.             *)
WriteMask ==
    /\ stage = "write"
    /\ \/ mask' = Updated /\ Done
       \/ mask' \in {mask, Updated} /\ Failed

(***************************************************************************)
(* A process that dies is started again and begins with onCreate().  News  *)
(* for it is lost, except of boot, which starts what it is delivered to;   *)
(* the mask is the controller's.                                           *)
(***************************************************************************)
Restart ==
    /\ changes < MaxChanges /\ changes' = changes + 1
    /\ notices' = notices \cap {"boot"} /\ queue' = <<"sync">>
    /\ pending' = 0 /\ stage' = "idle" /\ mRetries' = 0
    /\ mKeyguardAuthenticationRunning' = FALSE /\ registered' = FALSE
    /\ listening' = FALSE /\ wanted' = {} /\ failures' = 0
    /\ gaveUp' = FALSE /\ refused' = FALSE
    /\ UNCHANGED <<settings, interactive, locked, auth, booted, mask>>

(***************************************************************************)
(* Specification.                                                          *)
(***************************************************************************)
(* The process is persistent and first started at boot, with the screen    *)
(* on; the mask is what the driver starts with.                            *)
Init ==
    /\ settings \in FirstSettings
    /\ interactive = TRUE /\ locked \in BOOLEAN /\ auth = FALSE
    /\ booted = FALSE /\ changes = 0 /\ notices = {} /\ queue = <<"sync">>
    /\ pending = 0 /\ stage = "idle" /\ mRetries = 0
    /\ mKeyguardAuthenticationRunning = FALSE /\ registered = FALSE
    /\ listening = FALSE /\ wanted = {} /\ mask \in {{}, Bits}
    /\ failures = 0 /\ gaveUp = FALSE /\ refused = FALSE

World ==
    \/ ChangeSettings \/ ChangeEnrollment \/ ChangeScreen \/ ChangeLock
    \/ ChangeAuth \/ Boot \/ Restart

Handler ==
    \/ synchronizeSetting \/ Retry \/ \E running \in BOOLEAN : Authentication(running)
    \/ UpdateLift \/ RegisterListener \/ ReadDoubleTap
    \/ ReadScreen \/ ReadKeyguard \/ ReadFingerprint
    \/ WriteMask \/ ReadFails

Next == World \/ Handler \/ \E topic \in Topics : Deliver(topic)

Spec == Init /\ [][Next]_vars

(* The handler thread runs and news arrives; every attempt may fail.       *)
FairSpec ==
    Spec /\ WF_vars(Handler) /\ \A topic \in Topics : WF_vars(Deliver(topic))

(***************************************************************************)
(* Properties.                                                             *)
(***************************************************************************)
(* In particular never two delayed runs of mApply, whatever synchronises   *)
(* while one is pending (GestureApplication.java:91).                      *)
SyncTypeOK ==
    /\ settings \subseteq Settings /\ notices \subseteq Topics
    /\ wanted \subseteq Owned /\ mask \subseteq Bits
    /\ queue \in Seq({"sync", "auth", "noauth"})
    /\ interactive \in BOOLEAN /\ locked \in BOOLEAN /\ auth \in BOOLEAN
    /\ booted \in BOOLEAN /\ registered \in BOOLEAN /\ listening \in BOOLEAN
    /\ mKeyguardAuthenticationRunning \in BOOLEAN
    /\ gaveUp \in BOOLEAN /\ refused \in BOOLEAN
    /\ stage \in Stages /\ changes \in 0..MaxChanges /\ pending \in 0..1
    /\ mRetries \in 0..MaxRetries + 1 /\ failures \in 0..MaxRetries + 1

(* Nothing is under way that would apply the settings once more.           *)
Quiet == notices = {} /\ queue = <<>> /\ pending = 0 /\ stage = "idle"

Applied == Quiet /\ ~gaveUp

(* However a setting, an enrollment or the screen changed while another    *)
(* change was being applied: on a device at rest with its screen off the   *)
(* touch controller has the bits the user asked for, the fingerprint's     *)
(* also when the keyguard seems not to need it, or the process has just    *)
(* been restarted (the comment at GestureApplication.java:110).            *)
AsleepIsArmed ==
    Applied /\ booted /\ ~interactive =>
        /\ "doubleTap" \in mask <=> "doubleTap" \in settings
        /\ "fingerprint" \in mask <=> "fingerprint" \in settings

(* With the screen on the fingerprint interrupt stays armed for an         *)
(* authentication the application knows of, and for nothing but an         *)
(* authentication or a lock.                                               *)
AwakeIsNeeded ==
    Applied /\ booted /\ interactive =>
        /\ "doubleTap" \in mask <=> "doubleTap" \in settings
        /\ "fingerprint" \in mask => "fingerprint" \in settings /\ (auth \/ locked)
        /\ mKeyguardAuthenticationRunning /\ "fingerprint" \in settings
              => "fingerprint" \in mask

(* The enable bit is set with a gesture of whoever owns it, and only then  *)
(* (GestureControl.java:33), whatever mask was found.                      *)
EnableFollows == Applied => ("enable" \in mask <=> mask \ {"enable"} # {})

(* The raise sensor is listened to while the screen is off and the user    *)
(* wants it, save where its registration was refused.                      *)
LiftFollows ==
    Applied => (listening <=> ~interactive /\ "lift" \in settings /\ ~refused)

(* So the application follows the user and the device, once it rests.      *)
FollowsAtRest == AsleepIsArmed /\ AwakeIsNeeded /\ EnableFollows /\ LiftFollows

(* Failures from before a change are not held against it: each one is      *)
(* tried as often as MAX_RETRIES says before it is given up.               *)
GivesUpLate == gaveUp => failures > MaxRetries

(* Once the world rests the application comes to rest, applied or given up,*)
(* even if every attempt fails.                                            *)
Settles == <>[]Quiet
=============================================================================
