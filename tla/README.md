# Specifications of the m2391 device services

This directory specifies the native services of the Meizu m2391 device tree in
TLA+: the vibrator HAL (`src/vibrator`), the USB HAL (`src/usb`), the infrared
HAL (`src/ir`) and the gestures application (`src/gestures`). TLC checks the
modules on small instances; TLAPS proves the safety properties that matter
most for every value of the constants.
`PROJECT.json` maps every definition to the source lines it models, and lists
the runs, the slips of the code each property is known to catch, the hazards
and the theorems.

## 1. The system

| Component | State it keeps | Operations | Hard behaviour |
|---|---|---|---|
| Vibrator: `TimedMotor` (`vibrator/TimedMotor.h`) | request (`generation_`, `pending_`, `continuous_`, `deadline_`, `callback_`), composition (`taps_`, `tapIndex_`, `waitingForTap_`), `active_`, `quit_` | `play`, `compose`, `stop`, `setAmplitude`, `initialize`, destructor; worker `loop()` | binder threads against the worker, which gives the mutex up in two waits and around the callback; every sysfs write can fail |
| Vibrator: `RamLoop` (`vibrator/RamLoop.h`) | none of its own; the driver's work queue, sequence and gain | `start` | the driver starts the motor asynchronously, and must be waited for or drained |
| Vibrator: binder service (`vibrator/service.cpp`, `.rc`) | `motor_` | `on`, `off`, `perform`, `compose`, `setAmplitude`, queries | two binder threads; a crash leaves the motor as it was |
| USB: callback and worker (`setCallback`, `uevent_work`) | `mCallback`, `mLock`, `mPoll`, `mEventFd`, `mIgnoreWakeup`, `mContaminantStatusPath` | register, replace, withdraw a callback; start, run and end the worker | eventfd and configuration are shared without a lock and come into being after the thread does |
| USB: role switch and type-C uevents (`switchRole`, `switchMode`, `handle_typec_uevent`) | `mPartnerUp`, `mPartnerLock`, `mPartnerCV`, `mRoleSwitchLock`; the port | switch a mode, data or power role; handle a port's uevents | an 8 s wait for a partner that another thread announces, or that never comes |
| USB: requests (`enableUsbData`, `limitPowerTransfer`, `resetUsbPort`) | `usbDataDisabled`, `limitedPower` | as named | runs of writes that fail in the middle |
| USB: reports (`getPortStatusHelper`, `handle_psy_uevent`) | `mContaminantPresence`, `powerBrickConnected` | report a port's status | what was sampled may be stale when reported |
| USB: host devices and gadget (`uevent_event`) | `hidDevs`, `usbResetRecov`, `mMaxPower`, `mAttributes`, `mPowerOpMode`, ADB's property | HID power, autosuspend, UDC bind, bus reset recovery, gadget power | a uevent is handled when what it told of has changed again; bounded retries |
| IR transmitter (`ir/`) | a mutex; the node's one carrier | `transmit` | a transaction of open, carrier, train and gap; a short write must not be resumed |
| Gestures application (`gestures/`) | retry count, keyguard authentication, listener, filter | synchronise settings into a mask; wake on a raise | stale reads, retries against new events |
| Display recovery (`display-recovery/`) | none | one thread per boot broadcast | two broadcasts |
| Blob tooling, configuration | files | build time | not over time |

Interactions: the framework calls the HALs over binder and is called back
(`onComplete`, `notifyPortStatusChange`, `notifyRoleSwitchStatus`);
`TimedMotor` reaches the driver through a writer, which `service.cpp` routes
to `RamLoop::start` for the `ram_loop` control and to sysfs for the others; the
USB worker receives the kernel's uevents and shares its members with the
binder thread through `mLock`, `mPartnerLock` and `mRoleSwitchLock`.

What makes each component correct is stated by its module's properties below;
what could go wrong, line by line, is the list of hazards in `PROJECT.json`.

## 2. The modules

| Module | Models | Abstract form it relates to |
|---|---|---|
| `MotorNodes` | the AW8697 driver behind the sysfs controls, as `vibrator/` relies on it (external) | |
| `TimedMotor` | `TimedMotor.h`, all of it | implements `VibrationContract` |
| `VibrationContract` | what the vibrator promises about completion callbacks | |
| `RamLoop` | `RamLoop.h` against the driver's work queue | its outcomes are those of `MotorNodes!StartControl` |
| `UsbWorker` | `setCallback`, `uevent_work` | |
| `UsbRoleSwitch` | `switchRole`, `switchMode`, `switchToDrp`, `handle_typec_uevent` | |
| `UsbHostDevices` | host-mode devices in `uevent_event`, `checkUsbWakeupSupport` and their helpers | |
| `UsbRequests` | `enableUsbData`, `limitPowerTransfer`, `resetUsbPort`, the flags in a port status | |
| `UsbUevents` | power contracts, charger and UDC in `uevent_event`, `checkUsbInHostMode`, what a port status says of moisture and power brick | |
| `VibratorService` | `service.cpp` and `vibrator.m2391.rc`: checks, arithmetic, death and clean-up | |
| `IrTransmit` | `ir/Transmit.h`, `ir/service.cpp` | LIRC's rules for a train (`LircTakes`) |
| `GestureSync` | `GestureApplication`, `GestureControl`, `LiftToWakeController.update` | |
| `LiftToWake` | `LiftToWakeController`, `RaiseGestureFilter` | |
| `TimedMotorProofs` | theorems about `TimedMotor` and `VibrationContract`, and the refinement | |
| `VibratorProofs` | theorems about `RamLoop` and `VibratorService` | |
| `UsbBinderProofs` | theorems about `UsbWorker` and `UsbRequests` | |
| `UsbRoleSwitchProofs`, `UsbHostDevicesProofs`, `UsbUeventsProofs`, `IrTransmitProofs` | theorems about the module each is named after | |
| `GestureProofs` | theorems about `GestureSync` and `LiftToWake` | |
| `MCTimedMotor`, `MCUsbHostDevices`, `MCVibratorService` | constants for TLC; the other modules' constants are given in their `.cfg` | |

Operators named `Definition_Slip` stand beside the definition they could
replace: a plausible bug, which the property listed with it in `PROJECT.json`
("mutants") catches. They are no part of the specifications.

### TimedMotor

Every client operation takes `mutex_` for its whole length and is one action;
so is every critical section of the worker between two waits. `worker` says
where the thread is: `waiting` (first wait), `timed` (waiting for the
deadline), `unlocked` (around the callback) or `exited`. A wait that returns
at once is passed over (`Resume`).

- *Writes.* An operation's writes are folded over a device record; each may
  succeed or fail, and one that fails may have taken effect or not. The
  outcomes of a sequence such as "start, then gain, else stop" are the set
  `OrElseStop(StartPlayback(...))`, so every point of failure is there.
- *The chip* is `idle`, plays a finite `wave` that ends by itself, has a
  carrier start `queued` in the driver, or runs the `carrier` until stopped.
  A start that succeeds replaces whatever ran or was queued (the code relies
  on it: `TimedMotor.h:45-46`).
- *Time.* Deadlines are ticks to go. `timer` is the deadline the worker went
  to sleep with; the standard library keeps a reference to `deadline_`, but a
  deadline changes only along with the generation, on which the wait ends
  anyway. A wait may end late, never early; notifications are counted by
  `signalled`, so that a missing one shows (see fairness).
- *Data.* A level is finite or a loop, a gain zero or not, a callback the
  generation of its request. Arguments out of range return before the mutex
  is taken and change nothing.
- *Start-up.* `Init` lets the chip be in any state, since a predecessor may
  have died playing; the service calls `initialize()` before it is registered,
  so other calls need `ready`.

`silenced`, `delivered` are history: the last thing the framework heard is
that the motor is off, and which callbacks were called.

### RamLoop

`start()` is cut at each call of `write` and `readIndex`, since the driver's
routine runs between them. `enable 0` cancels the routine or waits for one
that runs; `index` is readable only when the routine does not hold its mutex
(`RamLoop.h:28-29`). The start state is anything a predecessor may have left.
`ApplyGain` and `StartAgain` are what the caller does next. `EndsAsModelled`
ties the two levels: each end of `start()` is one of the outcomes
`MotorNodes` gives the `ram_loop` control, which is what `TimedMotor` is
checked and proved with.

### VibratorService

What a request of the framework asks the motor for. A float between 0 and 1 is
`n / Scale`, and `Rounded` is the code's `static_cast<int>(x * base + 0.5f)`;
values out of range, and those that are not finite, are an `n` outside
`0..Scale`. `last` remembers what was asked (`wanted`, as base and scale), the
gains that were computed from it, the answer, and whether the motor got as far
as writing. The motor itself is much coarser than in `TimedMotor`: a request
that the motor's own checks (`TimedMotor.h:38`, `69-73`) let through is played,
or fails and leaves the motor as it was, silent, or with the new wave; taps
follow one another and end without a clock. When the service dies the chip
goes on, init writes `cont` and `enable` (`vibrator.m2391.rc:30-36`), and a
successor that init starts initializes the motor too, in either order. `orphan` says
that what the chip does was left by a dead service.

### UsbWorker

`main()` gives binder one thread, so calls of `setCallback` do not overlap;
workers do, with it and with one another. An eventfd is named by the worker
that made it. `setCallback` is cut where it releases the lock, before the
write of the eventfd and before the join, and after it started the thread
(`Configure`). The framework may withdraw a callback at any time, also before
its worker has an eventfd to be stopped by. That stop is lost (the run
`usb_worker_hasty`), and `tooSoon` keeps the first worker it happened to. The
properties of the passing run say what this one case can lead to and that
nothing else does: two workers, or one without a callback, only with that
worker or later ones (`OneWorker`, `LeftIfTooSoon`). Configuration comes before
reports, and a written eventfd is that of a worker that lives, even then
(`ConfiguredFirst`, `NoStaleStop`). `JoinReturns` is about the time before:
afterwards the worker that was left may replace the eventfd of the next and so
take its stop, and `setCallback` joins that one in vain.

### UsbRoleSwitch

One port, the binder thread and the worker. `mPartnerLock` and `mLock` are
never held across a wait, so what they protect is one step;
`mRoleSwitchLock` is held for the whole of a switch and is a variable.
`wait_for` without a predicate decides by the clock as it returns
(`WaitEnds`): a timeout if the 8 s are over, whoever woke it. The worker's
handler is four steps: announce, report, try the role lock, return the port
to dual role. The gadget's MaxPower and attributes, written in the same
handler from state nobody else reads, are in `UsbUevents`; so is what a status
report says beyond the partner. Reads that fail are modelled
where the code tells them apart (`ReadBack`, `ToDual`), also in the report: a
port with a partner whose roles cannot be read makes it `Status::ERROR`
(`getPortStatusHelper`, 594-618, 699), so that the framework has been told
"partner", "none" or "error".

### UsbHostDevices

The kernel's devices, root hubs and display, the worker with its queue of
uevents, and the binder thread that scans what is plugged in while
`setCallback` runs. Devices sit on a root hub or behind hubs that are devices
themselves (`Parent`, any tree of them), and are known by their paths, so
that one may replace another where it was. Interfaces appear one by one, each
with a bind uevent, in the order of the configuration; the driver core adds
and binds one before it adds the next. A handler is two steps, what it reads
(`Begin`, `plan`) and what it does (`Finish...`), with the kernel free to go on
between. `Do` merges the writes of `manageHidPower` and those after it: a
device that is gone fails them all. A hub that loses its authorization
unplugs its devices before the write returns (`FinishChange`); the write goes
through the path of the device that asked (`..`, the hub it is at), so it fails
if that is gone. A hub that is itself a device loses its interface as well, and
nothing can be plugged in behind it (`Serves`); once it is unplugged, the next
device at its path is authorized as all are at first.

`manageHidPower` means to write "on" first when `runtime_status` reads
"active"; `ReadFileToString` keeps the newline of sysfs, so it never does.
`hidDevs` is a list in the code; copies of an entry are acted on to the same
end and removed together, so it is a set here. The constructor gives
neither `mIgnoreWakeup` nor `usbResetRecov` a value (the header is not in the
repository), so `Init` gives them either;
afterwards the platform is one that supports wakeup (otherwise nothing here
happens at all).

The wireless adapter is a kind of its own (`AdapterAssumption`): the code knows
it by vendor and product, not by the class of an interface.

`Budgets` bounds what happens: how many devices come at each path, and how
often the display changes, a reset is asked for and a worker is started.

History: `missed` are the paths some uevent of which no worker took, `unseen`
those of them that the scan did not find complete either, `overslept` that the
display changed while no worker listened, `strayed` the root hubs whose recovery the
removal of a device on another bus took. The properties speak of the others,
and each exemption is a behaviour of the code to know about: between two
callbacks nobody follows the devices or the display, and the scan lists
nothing; the flag that asks for a recovery carries no path. `Recovered` likewise
exempts a reset whose worker was withdrawn before it read the removals:
`usbResetRecov` stays set, and the root hub without authorization. It speaks of
root hubs only. Of the hubs between, `RecoversAll` would say the same and does
not hold (section 3).

### UsbRequests

The three requests that write control nodes under `mLock`, on the only binder
thread. `works` are the nodes whose writes succeed in a call, so that every way
through `enableUsbData` is there: `dynamic_disable` alone, the older controls
after it, `usb_control/disable` after those. `off` are the nodes last written to
turn USB off. A platform is the set of the nodes there are. `resetUsbPort` is two
steps, since the service may die, and the cable may change, in the 300 ms
between its writes; it gives back the mode as it read it, with the newline, so
the test `mode == "none"` (1410) never holds and a disconnected port is reset as
well. `Restart` gives `usbDataDisabled` and `limitedPower` any value, since
neither constructor nor declaration does.

History: `dataKnown` and `limitKnown` say that a request of this life has set
the flag; before that a report is noise. `stranded` are the controls that are off
and that no enable need reach: an enable tried to write them and could not, or a
disable took them in place of one that is there and could not be written, a
way the next enable goes only if it fails likewise. A report of ENABLED is true but
for these, control by control, and a report of DISABLED is true whatever failed
(`id` and `b_sess` are never written back at all, and are not counted).
`limitFailed` are the writes that failed in the last `limitPowerTransfer`, of which
the report says what was asked for; of the other one it is true.
`unsettled` says that a reset did not return what it took: its write failed, the
service died, or the cable changed in the 300 ms. `ModeExplained` exempts these
three, which the code does nothing against, and says that there is no fourth.

### UsbUevents

The worker, its socket and `setCallback`, and three things of the world that
change while uevents about them wait: the power contract, the charger, the role
of the controller. They share no state, so a behaviour changes those of one
member of `Sources`. A handler reads what is so when it runs; one action is what
lies between two things another thread can see: the handling up to the report,
the report (`Tell`, which needs `mLock` and so waits for `setCallback`, and may be an
ERROR that says nothing), each try to
bind the gadget. What a handler reads of moisture and of the power brick, it
reads in one step; so does a report.

- *Power.* `saved` is `mMaxPower` and `mAttributes`, `""` when there is nothing to
  restore; every read and write of the two files may fail on its own. The new
  mode is remembered whatever became of them.
- *Charger.* `remembered` is what `handle_psy_uevent` compares with. It is
  assigned before the report, which reads everything anew.
- *Role.* `role = "host"` stands for an xHCI and no UDC. adbd binds the gadget
  itself when it runs and may; the worker does otherwise, six times 50 ms apart.
- *Registration.* `binder` follows `setCallback` through `checkUsbInHostMode`
  (read, then set) and the search for the moisture's path.

History: `missed` are the kinds of uevent nobody listened for (or whose handling
could not read the mode, or read while `setCallback` was not done),
`budgetLost` that a file failed or the service died under a contract,
`overtaken` that the framework was last told something else than the worker
remembered, `refused` that the last report was an ERROR (the worker has remembered
the change all the same and does not report it again), `excused` that the tries ran out or were left to adbd.

### IrTransmit

Each call that another thread or the driver can come between is a step:
`stage` is the caller's next one. `lock_` is a variable, and so is the node's
carrier, which the driver keeps for all who open it. `open`, the ioctl and
`nanosleep` are repeated when interrupted and fail otherwise; a write emits
a part of the train whatever it returns. `left` is what remains of a caller's sleep,
`owed` what remains of the off time that the last command asked for; a command
that failed is owed none. `service.cpp` gives binder one thread
(`main`), but its comment claims the transaction for more, and two callers check
that. Durations are in ticks: the limits are small numbers
with the same order (`kLircMaxDuration < kMaxTransmitDuration`).

### GestureSync

The application's handler thread handles messages one at a time, but the
system goes on meanwhile, so `applySetting()` is cut at each thing it reads:
the settings one by one, screen, keyguard, the mask, each only if those before it
do not decide (`||`, `&&`); it then writes the mask from what it read. What others tell the application is first a notice on its
way (`notices`, any order between topics), then a message in its queue
(`"sync"`, `"auth"`, `"noauth"`). A lock of the keyguard tells nobody.

- The setting `"fingerprint"` stands for the fingerprint gesture with an
  enrolled finger, which the code reads one right after the other and joins;
  they are read in one step here.
- `pending`, the delayed run of `mApply`, is at most one: each run first
  removes any other.
- `RegisterListener` registers for biometric state when there is a service;
  without one the code goes on without a listener and without an error. The
  raise sensor's registration may be refused; that is no error and is not
  retried (`refused`).
- An exception in any read or in the mask (`ReadFails`, `Failed`) asks for a
  retry after a second, `MAX_RETRIES` times; each notice starts the count anew.
- `Restart` kills the process: queue, pending run and registrations are lost,
  the mask and the settings stay, and the new process synchronises in
  `onCreate`. The first start is at boot, with the screen on.
- The controller's mask is a set of bits: `setGesturesEnabled` writes those
  in `Owned`, leaves `"other"` alone, and lets `"enable"` go with any gesture.

### LiftToWake

The raise sensor, the handler thread and the power manager. Events have the time
at which the sensor made them and reach the handler later, in order; the first
may be the sensor's sample from before the registration (`Cached`). Each event,
registration and wake-up has a time of its own, since `elapsedRealtimeNanos`
tells them apart. An action is one of the filter's three codes or another one; a
value that is no code at all (`Noise`) is not remembered. `update()` is one
step here; `GestureSync` says when it runs.

History: `since` and `lastWake` are the times of the last registration and
wake-up; each event carries the action the sensor reported before it (`after`), so
that `WakesAreMeant` can speak of the sensor's own order; `skipped` says that an
action was not remembered because it was older than the last wake-up, after
which the order the filter knows is not the sensor's.

## 3. The runs

| Run | Checks | Bounds |
|---|---|---|
| `motor` | control of the carrier, requests played as asked, no early end, the contract on callbacks, and that nothing lingers | 4 requests, durations 1 and 2, four compositions: more requests than the worker, its callback and the client can hold at once, and every kind of first and later tap |
| `ram_loop` | what `start()` returned stays true; agreement with `MotorNodes` | 3 readbacks: before, during and after the routine; starts repeat without bound |
| `vibrator_service` | audible gains, refusals, the silence after a crash | Scale 512, every primitive and effect at the edges of scale (0 to 4, half, full, beyond) and delay, compositions of 0, 1, 2 and 65 effects; deaths without bound |
| `usb_worker` | two workers, or one after NULL, only from a stop that came too soon; configuration before reports, the join returns | 5 workers: one told to stop too soon, those after it that share its members, and one whose stop is lost to it |
| `usb_worker_hasty` | (violation) the comment at `Usb.cpp:1080` | 4 workers |
| `usb_role_switch` | fresh announcements, no undoing, ports left forced only when explained, reports up to date, switches return | 2 switches, 4 changes of the port, 1 spurious wake-up, a wait of 2 ticks: an earlier switch and a partner that comes, leaves and comes again |
| `usb_host_devices` | who is listed, who may suspend and after how long, bus reset recovery | two devices one after the other at a path, with a change of the display, or with a reset over two workers; one device over two workers with two changes of the display; one device on each of two buses, or a headset behind a hub, with a reset |
| `usb_requests` | what port reports say of data and power; the mode after a reset | four platforms: with and without `dynamic_disable`, `usb_data_enabled`, `usb_control/disable` and the gadget; requests, failures and restarts without bound |
| `usb_uevents` | power budget, charger, ADB and gadget once all is handled | 3 uevents in the socket; changes, failures and restarts without bound; power and charger together, the role on its own |
| `ir_transmit` | what goes out, and when the next may | 2 callers, patterns of up to 6 entries against a buffer of 4, carriers on and beside every edge; calls without bound; deadlock is checked |
| `gesture_sync` | what the thread leaves behind when it rests; that it does not give up early and comes to rest | 3 changes around the application, 1 retry, at first all gestures off or all on: a change during a run, one during its retry, and one after |
| `lift_to_wake` | which events wake the device; that a raise does | times up to 7 with an arming delay of 2, 2 events on their way: two registrations, or two wake-ups, with late events of each |

Deadlock is checked where the system has no end: `ram_loop`, `vibrator_service`,
`usb_requests`, `usb_uevents` and `ir_transmit`. In the others it is not: with
the bounds used up, a motor that was stopped or
destroyed, a HAL without callback and an idle port really rest.

**Fairness.** `TimedMotor`: a thread that can run does, but a sleeping worker
only once it was notified or its deadline has passed, so that liveness does not
lean on wake-ups nobody sends; the constructor's `initialize()` returns, the
clock goes on, a queued start runs and a finite wave ends. No client is
obliged to call anything.
`UsbWorker`: threads run, and `epoll_wait` reports each descriptor that is ready, so a
worker that returns to it for ever sees its eventfd (strong fairness of
`Wake`). `UsbRoleSwitch`: both threads run and time passes; no partner need
ever come. Spurious wake-ups are bounded (`MaxSpurious`): each of them starts
the 8 s anew (`Usb.cpp:295`), so `SwitchReturns` holds only because they end.
`GestureSync`: the handler thread runs and news arrives; every attempt may fail,
so `Settles` rests on the bound of the retries. `LiftToWake`: the handler thread
comes to the events in its queue and the power manager to its proximity check.
`VibratorService`: init carries out the actions of a property trigger; nobody
need start the service again. The other modules state safety only.

### What the violations show

**`setCallback(NULL)` may leave the worker running** (`usb_worker_hasty`): the
eventfd does not exist yet, the write fails, nobody is joined, although "Kill
the worker thread if the new callback is NULL" (`Usb.cpp:1080`).

**A hub behind a root hub is not recovered** (`RecoversAll`, which
`tlc -config UsbHostHub.cfg MCUsbHostDevices` violates): the
pattern of a bus reset (`Usb.cpp:869-870`) takes devices behind hubs too,
although the comment above the handler would "Limit the recovery to when an
audio device is connected directly to the roothub" (968). The hub such a device
is at loses its authorization (974); the disconnect that follows authorizes the root
hub (985), which had it. The same behaviours are part of the
run `usb_host_devices`, where `Recovered` speaks of root hubs only.

### Behaviour to know about

The models have these too, and the properties are stated so as to hold with
them.

*Vibrator.* A delayed tap whose start fails, and whose clean-up stop fails too,
ends its composition without the callback (`TimedMotor.h:148-150`, `166`). The
motor may still be on then, so withholding the completion may be meant.

*Role switch.* A partner announced as the wait runs out is ignored: the timeout
branch does not look at `mPartnerUp` (`Usb.cpp:291-293`). An announcement from
before the port was forced, still in the worker's socket, counts as the new
partner (`279`, `294`).

*Worker and callback.* A registered callback may have no worker: the thread
returns on any failure to set up or wait (`1001-1042`). After a stop that came too
soon, uevents may be handled twice, and a later `setCallback(NULL)` may wait for
ever in its join, as the worker that was left took the eventfd over (`1021`,
`1052`).

*Reports.* A port with a partner whose roles cannot be read ends the whole report
with `Status::ERROR` (`594-618`), and nothing asks for another: the framework waits for
the next uevent.

*Host devices.* The wrong disconnect can end a bus reset recovery: a device that
leaves another bus authorizes that bus, and the one that was reset stays
unauthorized (`969-985`). A keyboard plugged in before the worker listens is let
suspend by the scan but never listed (`428`). A headset whose HID interface comes
first is listed, since that is all there is when its bind is handled (`1258`).

*Requests.* Enabling data writes neither `id` nor `b_sess` back (`155-168`), and
undoes only the way it takes itself. `limitedPower` is what was asked, whatever
became of the writes (`1365`). After a restart both flags are undefined until the
next request. A control that a disable fell back to may stay off under a report of
ENABLED (`131-169`). A reset that finds the mode "none" goes on (`1410`, the newline).

*Uevents.* A service that dies under a power contract saves the zeroes as the
gadget's own values at the next (`762`). `checkUsbInHostMode` looks and then
sets, so it may overwrite what a uevent set in between (`1138-1146`). A report
may read a newer state of the charger than the worker remembered; when the
charger then changes back, nothing is reported (`839`).

*Lift to wake.* An action older than the last wake-up is not remembered (`75`),
so an upright position that follows it may wake the device once more.

## 4. The proofs

Every invariant and every action property that a passing run checks is also a
theorem, for every value of the constants: any durations, compositions and
amplitudes, any numbers of requests, polls, workers, switches, partners,
devices, root hubs and callers. The theorems use the named assumptions of the
modules (ranges and types of the constants) and no others. Each proof has the same three facts: the
initial states satisfy an inductive invariant, every action preserves it (a lemma
for an action or for a group of them), and it implies the property.

What the invariants add to the properties, and why they must:

- `TimedMotorProofs`. `IInv` is `TypeOK` with three parts. `HardwareInv`: the
  safety invariants about the chip, and what makes them inductive: a request
  in force has no queued start (a start that succeeded is not queued), an
  unowned wave was started with its gain, and a callback about to be delivered
  for the current generation belongs to a silent chip. `RequestInv`: the
  callback in force is the current generation's, a callback on its way belongs
  to a worker outside the mutex and to a request that is over. `WorkerInv`: a
  worker asleep for the current request sleeps for its deadline, the fact
  `NeverEarly` needs. The outcome lemmas about the hardware helpers come
  first. `StepRefines` maps each step to a step of `VibrationContract` or to
  none, and `CallbacksOnce` follows from the contract's own theorem through the
  refinement.
- `VibratorProofs`, `RamLoop`. `RamInv` follows `start()` down its `&&` chain:
  from the second write on the sequence is clear or the routine, once queued,
  is the only thing that can set it, so that a readback of wave 19 with the
  routine's mutex free means GO was written. `SinceEntry` relates what is seen
  of the device to what it was when `start()` was called; from it each end
  is an outcome of `MotorNodes!StartControl` (`StartsEndAsModelled`), the one
  that `TimedMotor` is checked and proved with.
- `VibratorProofs`, `VibratorService`. The arithmetic first: at every even
  `Scale`, `Rounded` is the nearest integer and stays within its base
  (`RoundedIsNear`), and a gain that was to be heard is at least 1
  (`AudibleGainIsHeard`). Then compositions of any length: a request that
  passes the checks becomes taps that do justice to its effects one by one.
- `UsbBinderProofs`, `UsbWorker`. `EventFdInv`: whatever workers
  were left, `mEventFd` is that of a thread that listens, and only it can be
  signalled. `OnTimeInv`: until a worker is told to stop too soon, the thread handle
  stands for the only one alive and none is left between callbacks;
  `TooSoonInv`: from then on none older than that worker lives. `ConfigInv` ties the
  configuration to the lock.
- `UsbBinderProofs`, `UsbRequests`. `OneWayInv`: what is off and not
  stranded is a control that the platform prefers, so that the next enable finds the
  way the disable went. `SleepInv`:
  a reset that sleeps holds the mode of what is plugged in, newline or not.
- `UsbRoleSwitchProofs`. `LockInv` says who holds the role lock, `PhaseInv`
  what each phase of a switch may rely on, `KnownInv` that a framework behind
  the port has a uevent coming. `OrphanInv` follows a removal from the kernel
  through the queue to the handler that will see it: a forced port without a
  partner has a switch that still waits or is about to revert, or a removal that
  is queued or being handled.
- `UsbUeventsProofs`. Of the uevents of a kind the last one counts: what the
  service made of a power contract, the charger or the controller is up to
  date unless such a uevent is queued or was missed (`PowerInv`, `ChargerInv`,
  `UdcInv`). The controller's uevents carry what they announce, so there the
  last one queued must agree with the role (`Latest`). Lemmas say what an
  appended and a taken uevent does to `Queued` and `Latest`.
- `UsbHostDevicesProofs`. The handler acts on what it read, of a device that may
  since have been replaced, so nothing is right at every step; the invariants
  say, of each thing that is wrong, what is waiting that will put it right. The
  difficulty is a uevent about a device whose successor is handled first, so
  `Waiting` counts a uevent only if no removal of its path follows it, and `Fresh`
  says that one that counts is about what is there now, and that behind a removal
  all that is there now has its uevents. With it `RecoveryInv` follows a bus reset
  to the removal that ends it, `ListInv` the list of HID devices, `PatienceInv`
  the delay while the display is on and `SuspendInv` what may suspend; the last
  two need `PlanPatient` and `PlanSuspends`, that what a handler has read but not
  written is right as well, or that a later uevent is waiting.
- `IrTransmitProofs`. `IInv` says for each stage of a command what it has sent
  and with which result, that the one caller past `lock_` holds it, and
  that an off time that has not passed belongs to a command that still waits it
  out. What `Invalid` lets through is a train that LIRC takes (`ValidIsTaken`) and
  an off time within the limit (`GapIsBounded`), because the sum of a pattern
  bounds its last entry (`TotalBoundsTheLast`). The sum is a recursive function;
  the proof takes the least length at which the claim would fail (the library's
  `WFMin`), as induction itself cannot be instantiated here.
- `GestureProofs`, `GestureSync`. As long as nothing that tells of a change is on
  its way or queued, what was read is still true. `RetryInv` relates the
  count, the pending run and the queue; `LiftInv`, `ListenerInv` and `AuthInv`
  say so of the raise sensor, the registration and the authentication, the last
  with two predicates on the queue (`Holds`, `Retracted`) and their lemmas for
  an appended and a removed message; `MaskInv` of the mask.
- `GestureProofs`, `LiftToWake`. `TimesInv`: events on their way are older than
  now, and the filter arms no earlier than `ArmDelay` after the registration and
  the last wake-up. `OrderInv`: the action the filter remembers, the events on
  their way that are not older than the registration, and the last action the
  sensor reported are a chain (`Chain`), each link reported right after the one
  before, so that what the filter takes for the predecessor of a raise is the
  sensor's own.

Left to TLC: liveness under fairness, which is not in TLAPS's reach
(`NothingLingers`, `JoinReturns`, `SwitchReturns`, `Settles`, `CrashSilences`,
`RaiseWakes`), and the violations, which are counterexamples.

## 5. What is not modelled, and the plan

Not modelled:

- The restart of an offline controller (`Usb.cpp:952-962`). Its two calls of
  `WriteStringToFile(content, path)` have the arguments the other way round, so
  they write the driver's path to a file named after the controller, and the
  second of sleep between them is all that the rest of the HAL sees.
- The display recovery: it keeps no state, and all it reads or changes belongs
  to the framework and the compositor. That both boot broadcasts may reconnect
  the display is evident from `BootReceiver.java:26-34`; what a second
  reconnect does is not the code's.
- Answers that are constants: capabilities, supported effects, durations,
  `enableUsbDataWhileDocked`, `enableContaminantPresenceDetection`.
- The blob tooling and the configuration, which have no behaviour over time;
  the USB gadget HAL, whose configuration is here but whose code is not; the
  kernel drivers, which are modelled only as the code uses them.

What remains:

1. Liveness can only be checked: on the instances of section 3, never for all.
   The safety facts that the arguments rest on (a worker asleep is asleep for the
   deadline in force, the eventfd signalled is the one listened to, a retry is
   pending while one is due) are parts of the invariants proved.
2. What the modules take from each other is stated where it could be (`RamLoop`
   and `MotorNodes`, `TimedMotor` and `VibrationContract`). `VibratorService`
   relies on a motor coarser than `TimedMotor`; that the one implements the other
   is not proved (section 2 says how they relate).
3. Four hazards have no property; `PROJECT.json` says of each why.
