--------------------------- MODULE UsbHostDevices ---------------------------
(***************************************************************************)
(* usb/Usb.cpp: the devices on the phone's own buses in host mode.  The    *)
(* worker keeps a list of those that are nothing but HID, for whose sake   *)
(* the autosuspend delay follows the display, lets some classes suspend at *)
(* all, and recovers a bus whose device asks for a reset.                  *)
(*                                                                         *)
(* The kernel goes on while a uevent waits to be handled: whatever the     *)
(* handler reads may belong to a later state, or to another device at the  *)
(* same path.  Devices sit on a root hub or behind hubs plugged in there.  *)
(* Interfaces appear one by one, each with its uevent.  A handler is two   *)
(* steps, what it reads and what it does; a write fails if the device is   *)
(* gone.                                                                   *)
(***************************************************************************)
EXTENDS Naturals, Sequences

CONSTANTS
    Paths,       \* sysfs paths of devices
    Buses,       \* root hubs
    BusOf,       \* the root hub of each path
    Parent,      \* the hub each path is at, a root hub or itself a path
    Kinds,       \* what may be plugged in at each path: the classes of its interfaces
    Budgets      \* bounds on what happens in a behaviour: devices plugged in
                 \* at each path, changes of the display, bus resets asked
                 \* for and workers started

Classes == {"hid", "audio", "hub", "other", "adapter"}
Hub == <<"hub">>

ASSUME KindsAssumption == \A p \in Paths : Kinds[p] \subseteq Seq(Classes) \ {<<>>}
(* The adapter is a device known by its ids, a kind of its own.            *)
ASSUME AdapterAssumption ==
    \A p \in Paths : \A k \in Kinds[p] :
        (\E i \in 1..Len(k) : k[i] = "adapter") => k = <<"adapter">>
ASSUME BusAssumption == BusOf \in [Paths -> Buses] /\ Paths \cap Buses = {}
ASSUME ParentAssumption ==
    \A p \in Paths : \/ Parent[p] = BusOf[p]
                     \/ Parent[p] \in Paths \ {p} /\ BusOf[Parent[p]] = BusOf[p]
ASSUME BudgetsAssumption ==
    Budgets \subseteq [Paths \cup {"flips", "resets", "sessions"} -> Nat]

VARIABLES
    device,     \* at each path, a kind or <<>>
    added,      \* how many of its interfaces there are yet
    delay,      \* its autosuspend_delay_ms: "default", "3000", "60000"
    control,    \* its power/control: "on", "auto"
    authorized, \* each root hub, and each path's device
    displayOn,
    left,       \* what may happen yet, of each bound
    queue,      \* uevents in the worker's socket
    worker,     \* "none", "starting", "polling" or what it handles
    plan,       \* what the handler is about to do
    binder,     \* setCallback: "idle", "scanning", "writing"
    toScan,     \* paths checkUsbWakeupSupport() has yet to visit
    scan,       \* the path it visits and what it is about to do there
    mIgnoreWakeup,
    hidDevs,    \* as a set: an entry is acted on twice to the same end, and
                \* all its copies are removed together
    usbResetRecov,
    missed,     \* history: paths some uevent of which the worker never saw
    unseen,     \* history: those of them the scan has not seen complete either
    overslept,  \* history: the display changed, and no worker has looked since
    strayed     \* history: root hubs whose recovery went to another one

kernel == <<device, added, delay, control, authorized, displayOn, left>>
usb == <<hidDevs, usbResetRecov>>
history == <<missed, unseen, overslept, strayed>>
session == <<binder, toScan, scan, mIgnoreWakeup>>
vars == <<kernel, queue, worker, plan, session, usb, history>>

Event(type, p) == [type |-> type, path |-> p]
NoScan == [plan |-> "nothing"]

(***************************************************************************)
(* The kernel.                                                             *)
(***************************************************************************)
Listening == worker \notin {"none", "starting"}

Emit(event, p) ==
    IF Listening THEN queue' = Append(queue, event) /\ UNCHANGED history
    ELSE /\ missed' = missed \cup {p} /\ unseen' = unseen \cup {p}
         /\ UNCHANGED <<queue, overslept, strayed>>

Spend(what) == left[what] > 0 /\ left' = [left EXCEPT ![what] = @ - 1]

(* The hub has its interface, and with it its driver.                      *)
Serves(hub) == authorized[hub] /\ (hub \in Paths => device[hub] = Hub /\ added[hub] = 1)

Attach(p) ==
    /\ device[p] = <<>> /\ Serves(Parent[p]) /\ Spend(p)
    /\ \E k \in Kinds[p] : device' = [device EXCEPT ![p] = k]
    /\ Emit(Event("add", p), p)
    /\ UNCHANGED <<added, delay, control, authorized, displayOn, worker, plan, session, usb>>

AddInterface(p) ==
    /\ added[p] < Len(device[p]) /\ authorized[p]
    /\ added' = [added EXCEPT ![p] = @ + 1]
    /\ Emit([type |-> "bind", path |-> p, intf |-> added[p] + 1], p)
    /\ UNCHANGED <<device, delay, control, authorized, displayOn, left, worker, plan,
                   session, usb>>

(* What is behind a hub goes before the hub.  The next device at the path  *)
(* is a new one, authorized as all are at first.                           *)
Detach(p) ==
    /\ device[p] # <<>> /\ \A q \in Paths : Parent[q] = p => device[q] = <<>>
    /\ device' = [device EXCEPT ![p] = <<>>] /\ added' = [added EXCEPT ![p] = 0]
    /\ delay' = [delay EXCEPT ![p] = "default"] /\ control' = [control EXCEPT ![p] = "on"]
    /\ authorized' = [authorized EXCEPT ![p] = TRUE]
    /\ Emit(Event("remove", p), p)
    /\ UNCHANGED <<displayOn, left, worker, plan, session, usb>>

(* Asked for by an audio device.                                           *)
AskForReset(p) ==
    /\ Listening /\ \E i \in 1..added[p] : device[p][i] = "audio"
    /\ Spend("resets") /\ queue' = Append(queue, Event("change", p))
    /\ UNCHANGED <<device, added, delay, control, authorized, displayOn, worker, plan,
                   session, usb, history>>

FlipDisplay ==
    /\ Spend("flips") /\ displayOn' = ~displayOn
    /\ queue' = IF Listening THEN Append(queue, [type |-> "backlight"]) ELSE queue
    /\ overslept' = IF Listening THEN overslept ELSE TRUE
    /\ UNCHANGED <<device, added, delay, control, authorized, worker, plan, session, usb,
                   missed, unseen, strayed>>

(***************************************************************************)
(* What is read of a device, and what is done to it.                       *)
(***************************************************************************)
HidOnly(p) == added[p] > 0 /\ \A i \in 1..added[p] : device[p][i] = "hid"

(* HID, audio and hubs may suspend; a HID device not at once while the     *)
(* display is on.  ("on" would be written first if runtime_status read     *)
(* "active", but what sysfs has there ends with a newline.)                *)
InterfacePlan_Hasty(p, i) ==
    IF i > added[p] \/ device[p][i] \notin {"hid", "audio", "hub"} THEN "nothing" ELSE "auto"
InterfacePlan(p, i) ==
    IF i > added[p] \/ device[p][i] \notin {"hid", "audio", "hub"} THEN "nothing"
    ELSE IF device[p][i] = "hid" /\ HidOnly(p) /\ displayOn THEN "60000"
    ELSE "auto"

Do(what, p) ==
    IF device[p] = <<>> \/ what = "nothing" THEN UNCHANGED <<control, delay>>
    ELSE /\ control' = [control EXCEPT ![p] = "auto"]
         /\ delay' = [delay EXCEPT ![p] = IF what = "auto" THEN @ ELSE what]

(***************************************************************************)
(* The worker.                                                             *)
(***************************************************************************)
Handles(type) == worker = "polling" /\ queue # <<>> /\ Head(queue).type = type

Begin(what) ==
    /\ worker' = Head(queue).type /\ plan' = what
    /\ UNCHANGED <<kernel, queue, session, usb>>

(* Google's adapter is known by its ids.                                   *)
HandleAdd ==
    /\ Handles("add") /\ UNCHANGED history
    /\ Begin(IF device[Head(queue).path] = <<"adapter">> THEN "auto" ELSE "nothing")

HandleBind ==
    /\ Handles("bind") /\ ~mIgnoreWakeup /\ UNCHANGED history
    /\ Begin(InterfacePlan(Head(queue).path, Head(queue).intf))

IgnoreBind ==
    /\ Handles("bind") /\ mIgnoreWakeup /\ queue' = Tail(queue)
    /\ missed' = missed \cup {Head(queue).path}
    /\ unseen' = unseen \cup {Head(queue).path}
    /\ UNCHANGED <<kernel, worker, plan, session, usb, overslept, strayed>>

HandleBacklight_Auto ==
    /\ Handles("backlight") /\ UNCHANGED history
    /\ Begin(IF displayOn THEN "60000" ELSE "auto")
HandleBacklight ==
    /\ Handles("backlight") /\ UNCHANGED history
    /\ Begin(IF displayOn THEN "60000" ELSE "3000")

Finish == worker' = "polling" /\ plan' = "nothing" /\ UNCHANGED <<session, history>>

FinishAdd ==
    /\ worker = "add" /\ Finish /\ queue' = Tail(queue) /\ Do(plan, Head(queue).path)
    /\ UNCHANGED <<device, added, authorized, displayOn, left, usb>>

(* checkUsbHIDDevice() looks at the interfaces once more.                  *)
FinishBind_First ==
    /\ worker = "bind" /\ Finish /\ queue' = Tail(queue)
    /\ LET p == Head(queue).path
       IN Do(plan, p)
          /\ hidDevs' = IF Head(queue).intf = 1 /\ plan = "60000" THEN hidDevs \cup {p}
                        ELSE hidDevs
    /\ UNCHANGED <<device, added, authorized, displayOn, left, usbResetRecov>>
FinishBind ==
    /\ worker = "bind" /\ Finish /\ queue' = Tail(queue)
    /\ LET p == Head(queue).path
       IN Do(plan, p) /\ hidDevs' = IF HidOnly(p) THEN hidDevs \cup {p} ELSE hidDevs
    /\ UNCHANGED <<device, added, authorized, displayOn, left, usbResetRecov>>

FinishBacklight ==
    /\ worker = "backlight" /\ worker' = "polling" /\ plan' = "nothing"
    /\ queue' = Tail(queue) /\ overslept' = FALSE
    /\ LET set == {p \in hidDevs : device[p] # <<>>}
       IN /\ delay' = [p \in Paths |-> IF p \in set THEN plan ELSE delay[p]]
          /\ control' = [p \in Paths |-> IF p \in set THEN "auto" ELSE control[p]]
    /\ UNCHANGED <<device, added, authorized, displayOn, left, session, usb, missed,
                   unseen, strayed>>

(* The write that takes the authorization of the hub the asker is at       *)
(* ("..") unplugs all on it before it returns, and a hub that is itself    *)
(* a device loses its interface; it fails if the asker is gone.            *)
Unauthorize(p) ==
    IF device[p] = <<>> THEN UNCHANGED <<authorized, added>>
    ELSE /\ authorized' = [authorized EXCEPT ![Parent[p]] = FALSE]
         /\ added' = [q \in Paths |-> IF q = Parent[p] THEN 0 ELSE added[q]]

HandleChange_NoFlag ==
    /\ Handles("change") /\ Unauthorize(Head(queue).path) /\ worker' = "change"
    /\ UNCHANGED <<device, delay, control, displayOn, left, queue, plan, session,
                   usb, history>>
HandleChange ==
    /\ Handles("change") /\ usbResetRecov' = TRUE
    /\ Unauthorize(Head(queue).path) /\ worker' = "change"
    /\ UNCHANGED <<device, delay, control, displayOn, left, queue, plan, session,
                   hidDevs, history>>

Empty(hub) == \A p \in Paths : hub \in {BusOf[p], Parent[p]} => device[p] = <<>>

FinishChange ==
    /\ worker = "change" /\ Finish /\ queue' = Tail(queue)
    /\ LET hub == Parent[Head(queue).path] IN authorized[hub] \/ Empty(hub)
    /\ UNCHANGED <<kernel, usb>>

(* The first device to go after a reset, whichever it is, has its root hub *)
(* authorized, and never the hub it was at.                                *)
HandleRemove ==
    /\ Handles("remove") /\ worker' = "remove"
    /\ plan' = IF usbResetRecov THEN "authorize" ELSE "nothing"
    /\ usbResetRecov' = FALSE
    /\ strayed' = IF usbResetRecov
                  THEN strayed \cup ({b \in Buses : ~authorized[b]} \ {BusOf[Head(queue).path]})
                  ELSE strayed
    /\ UNCHANGED <<kernel, queue, session, hidDevs, missed, unseen, overslept>>

FinishRemove ==
    /\ worker = "remove" /\ worker' = "polling" /\ plan' = "nothing" /\ queue' = Tail(queue)
    /\ LET p == Head(queue).path
       IN /\ authorized' = IF plan = "authorize" THEN [authorized EXCEPT ![BusOf[p]] = TRUE]
                           ELSE authorized
          /\ hidDevs' = hidDevs \ {p} /\ missed' = missed \ {p} /\ unseen' = unseen \ {p}
    /\ UNCHANGED <<device, added, delay, control, displayOn, left, session, usbResetRecov,
                   overslept, strayed>>

(***************************************************************************)
(* setCallback().  The worker opens its socket while, or after, the binder *)
(* thread visits what is plugged in already.                               *)
(***************************************************************************)
Register ==
    /\ binder = "idle" /\ worker = "none" /\ Spend("sessions")
    /\ worker' = "starting" /\ binder' = "scanning" /\ toScan' = Paths
    /\ UNCHANGED <<device, added, delay, control, authorized, displayOn, queue, plan, scan,
                   mIgnoreWakeup, usb, history>>

Listen ==
    /\ worker = "starting" /\ worker' = "polling"
    /\ UNCHANGED <<kernel, queue, plan, session, usb, history>>

(* The first interface that may suspend decides.                           *)
ScanPlan(p) ==
    IF \E i \in 1..added[p] : InterfacePlan(p, i) = "60000" THEN "60000"
    ELSE IF \E i \in 1..added[p] : InterfacePlan(p, i) = "auto" THEN "auto"
    ELSE "nothing"

Complete(p) == IF added[p] = Len(device[p]) /\ device[p] # <<"adapter">> THEN {p} ELSE {}

Scan(p) ==
    /\ binder = "scanning" /\ p \in toScan /\ toScan' = toScan \ {p}
    /\ scan' = [plan |-> ScanPlan(p), path |-> p] /\ binder' = "writing"
    /\ unseen' = unseen \ Complete(p)
    /\ UNCHANGED <<kernel, queue, worker, plan, mIgnoreWakeup, usb, missed, overslept, strayed>>

FinishScan ==
    /\ binder = "writing" /\ binder' = "scanning" /\ scan' = NoScan
    /\ IF scan = NoScan THEN UNCHANGED <<control, delay>> ELSE Do(scan.plan, scan.path)
    /\ UNCHANGED <<device, added, authorized, displayOn, left, queue, worker, plan, toScan,
                   mIgnoreWakeup, usb, history>>

(* On a platform that supports wakeup.                                     *)
EndScan ==
    /\ binder = "scanning" /\ toScan = {} /\ binder' = "idle" /\ mIgnoreWakeup' = FALSE
    /\ UNCHANGED <<kernel, queue, worker, plan, toScan, scan, usb, history>>

(* The list outlives the worker, and so do the uevents it did not take.    *)
Withdraw ==
    /\ binder = "idle" /\ worker = "polling" /\ worker' = "none" /\ queue' = <<>>
    /\ LET lost == {p \in Paths : \E i \in 1..Len(queue) :
                        queue[i].type # "backlight" /\ queue[i].path = p}
       IN missed' = missed \cup lost /\ unseen' = unseen \cup lost
    /\ overslept' = (overslept \/ \E i \in 1..Len(queue) : queue[i].type = "backlight")
    /\ UNCHANGED <<kernel, plan, session, usb, strayed>>

(***************************************************************************)
(* Specification.                                                          *)
(***************************************************************************)
Init ==
    /\ device = [p \in Paths |-> <<>>] /\ added = [p \in Paths |-> 0]
    /\ delay = [p \in Paths |-> "default"] /\ control = [p \in Paths |-> "on"]
    /\ authorized = [hub \in Buses \cup Paths |-> TRUE] /\ displayOn \in BOOLEAN
    /\ left \in Budgets
    /\ queue = <<>> /\ worker = "none" /\ plan = "nothing"
    /\ binder = "idle" /\ toScan = {} /\ scan = NoScan /\ mIgnoreWakeup \in BOOLEAN
    /\ hidDevs = {} /\ usbResetRecov \in BOOLEAN /\ missed = {} /\ unseen = {}
    /\ overslept = FALSE /\ strayed = {}

Kernel ==
    \/ FlipDisplay
    \/ \E p \in Paths : Attach(p) \/ AddInterface(p) \/ Detach(p) \/ AskForReset(p)

Worker ==
    \/ HandleAdd \/ HandleBind \/ IgnoreBind \/ HandleBacklight \/ HandleChange
    \/ HandleRemove \/ FinishAdd \/ FinishBind \/ FinishBacklight \/ FinishChange
    \/ FinishRemove \/ Listen

Binder == Register \/ FinishScan \/ EndScan \/ Withdraw \/ \E p \in Paths : Scan(p)

Next == Kernel \/ Worker \/ Binder

Spec == Init /\ [][Next]_vars

(***************************************************************************)
(* Properties.  All are about a worker that has handled every uevent, with *)
(* no device half plugged in but those that are not authorized.            *)
(***************************************************************************)
TypeOK ==
    /\ \A p \in Paths : device[p] \in Kinds[p] \cup {<<>>} /\ added[p] \in 0..Len(device[p])
    /\ delay \in [Paths -> {"default", "3000", "60000"}]
    /\ control \in [Paths -> {"on", "auto"}]
    /\ authorized \in [Buses \cup Paths -> BOOLEAN] /\ displayOn \in BOOLEAN
    /\ worker \in {"none", "starting", "polling", "add", "bind", "remove", "change",
                   "backlight"}
    /\ plan \in {"nothing", "auto", "3000", "60000", "authorize"}
    /\ binder \in {"idle", "scanning", "writing"}
    /\ toScan \subseteq Paths /\ hidDevs \subseteq Paths
    /\ missed \subseteq Paths /\ unseen \subseteq missed
    /\ scan = NoScan \/ scan.path \in Paths
    /\ mIgnoreWakeup \in BOOLEAN /\ usbResetRecov \in BOOLEAN /\ overslept \in BOOLEAN
    /\ strayed \subseteq Buses

Settled ==
    /\ worker = "polling" /\ queue = <<>> /\ binder = "idle"
    /\ \A p \in Paths : authorized[p] => added[p] = Len(device[p])

(* A listed keyboard or mouse is never left with a short delay while the   *)
(* display is on, however the display and the device came and went         *)
(* ("avoid frequent bus suspend/resume iterations", Usb.cpp:405).          *)
PatientWhileOn ==
    Settled /\ displayOn /\ ~overslept =>
        \A p \in hidDevs \ missed : device[p] # <<>> => delay[p] = "60000"

(* The list is right: a device that is nothing but HID has its place, no   *)
(* path keeps one for a device long gone, and a device that shows another  *)
(* interface first never gets one (checkUsbHidOnly(), "such as USB         *)
(* headsets", Usb.cpp:1260).                                               *)
HidsAreListed ==
    Settled =>
        /\ \A p \in Paths \ missed : HidOnly(p) => p \in hidDevs
        /\ \A p \in hidDevs \ missed : device[p] # <<>> /\ device[p][1] = "hid"

(* Devices that may suspend do, whether the worker saw their uevents or    *)
(* they were there before the session and the scan found them.             *)
MaySuspend ==
    Settled => \A p \in Paths \ unseen :
        (\E i \in 1..added[p] : device[p][i] \in {"hid", "audio", "hub", "adapter"})
            => control[p] = "auto"

(* Where devices may suspend they do, and a keyboard not at once.          *)
SuspendsRight == PatientWhileOn /\ MaySuspend

(* A root hub that was unauthorized for a reset is authorized again, unless *)
(* the worker's life ended between, or a device of another root hub was the *)
(* next to go and took the recovery (usbResetRecov is a flag and not a     *)
(* path, whatever Usb.cpp:970 says of a path reference).  This is all the  *)
(* code recovers: of the hubs between see RecoversAll.                     *)
Recovered ==
    Settled => \A b \in Buses :
        \/ authorized[b] \/ b \in strayed
        \/ usbResetRecov /\ \E p \in missed : BusOf[p] = b

(* The recovery is limited to an audio device connected directly to the    *)
(* root hub (the comment at Usb.cpp:968), so that a reset leaves no other  *)
(* hub unauthorized.  The pattern at 869 lets devices behind hubs ask too: *)
(* their hub loses its authorization at 974, and 985 gives the root hub    *)
(* what it has.  UsbHostHub.cfg has TLC show it.                           *)
RecoversAll == Settled => \A p \in Paths : authorized[p]
=============================================================================
