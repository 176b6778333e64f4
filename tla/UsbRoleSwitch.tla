--------------------------- MODULE UsbRoleSwitch ---------------------------
(***************************************************************************)
(* usb/Usb.cpp: switchRole() on the binder thread, handle_typec_uevent()   *)
(* on the worker, and one type-C port between them.  A mode switch forces  *)
(* the port's type and then waits for a partner to appear; the worker is   *)
(* who hears of partners, and returns a port without one to dual role.     *)
(*                                                                         *)
(* mPartnerLock and mLock are never held across a wait, so what is done    *)
(* under them is one step; mRoleSwitchLock is, and is modelled.  A         *)
(* callback is registered and the port's sysfs nodes exist.                *)
(***************************************************************************)
EXTENDS Naturals, Sequences

CONSTANTS
    WaitTicks,      \* the 8 s a mode switch waits for its partner, in ticks
    MaxSwitches,    \* bound on the calls of switchRole
    MaxChanges,     \* bound on partners and roles coming and going
    MaxSpurious     \* bound on spurious wake-ups

ASSUME BoundsAssumption ==
    /\ WaitTicks \in Nat \ {0}
    /\ MaxSwitches \in Nat /\ MaxChanges \in Nat /\ MaxSpurious \in Nat

VARIABLES
    partner,        \* the port has a partner
    portType,       \* its port_type: "dual", or the mode it is forced to
    dataRole,       \* its data_role
    uevents,        \* what the worker's socket holds, oldest first
    changes,        \* how often the port changed by itself
    mPartnerUp,
    roleLock,       \* who holds mRoleSwitchLock: "free", "binder" or "worker"
    binder,         \* the binder thread: "idle", "mode", "waiting", "woken",
                    \* "revert", "readBack" or "report"
    wanted,         \* the role it was asked for
    success,        \* its roleSwitch
    timer,          \* what is left of its wait
    switches, spurious,
    worker,         \* the worker: "poll", "status", "try", "check" or "dual"
    reported,       \* history: what the framework was last told of the port:
                    \* "partner", "none", or "error"
    heard,          \* history: a partner was announced since the port was forced
    missed          \* history: a port without partner was left as it was

port    == <<partner, portType, dataRole>>
call    == <<binder, wanted, success, timer, switches, spurious>>
history == <<reported, heard, missed>>
vars    == <<port, uevents, changes, mPartnerUp, roleLock, call, worker, history>>

Modes == {"sink", "source"}
Roles == {"host", "device"}

(***************************************************************************)
(* switchRole() and switchMode().                                          *)
(***************************************************************************)
At(here, there) == binder = here /\ binder' = there

Begin(role) ==
    /\ binder = "idle" /\ roleLock = "free" /\ switches < MaxSwitches
    /\ roleLock' = "binder" /\ switches' = switches + 1
    /\ wanted' = role /\ success' = FALSE

SwitchMode(mode) ==
    /\ Begin(mode) /\ binder' = "mode"
    /\ UNCHANGED <<port, uevents, changes, mPartnerUp, timer, spurious, worker, history>>

(* Under mPartnerLock until the wait has begun, so that no announcement    *)
(* falls between the reset and the wait.                                   *)
ForcePort ==
    /\ mPartnerUp' = FALSE
    /\ \/ /\ At("mode", "waiting")
          /\ portType' = wanted /\ timer' = WaitTicks
          /\ heard' = FALSE
       \/ At("mode", "revert") /\ UNCHANGED <<portType, timer, heard>>
    /\ UNCHANGED <<partner, dataRole, uevents, changes, roleLock, wanted, success>>
    /\ UNCHANGED <<switches, spurious, worker, reported, missed>>

TimesOut ==
    /\ At("waiting", "woken") /\ timer = 0
    /\ UNCHANGED <<port, uevents, changes, mPartnerUp, roleLock, wanted, success, timer>>
    /\ UNCHANGED <<switches, spurious, worker, history>>

WakesSpuriously ==
    /\ At("waiting", "woken")
    /\ spurious < MaxSpurious /\ spurious' = spurious + 1
    /\ UNCHANGED <<port, uevents, changes, mPartnerUp, roleLock, wanted, success, timer>>
    /\ UNCHANGED <<switches, worker, history>>

(* wait_for() goes by the clock: once the time is up it reports a timeout, *)
(* whoever woke it and whatever mPartnerUp says by then.                   *)
WaitEnds_Insists ==
    /\ \/ At("woken", "waiting") /\ ~mPartnerUp /\ timer' = WaitTicks /\ UNCHANGED success
       \/ At("woken", "report") /\ mPartnerUp /\ success' = TRUE /\ UNCHANGED timer
    /\ UNCHANGED <<port, uevents, changes, mPartnerUp, roleLock, wanted>>
    /\ UNCHANGED <<switches, spurious, worker, history>>
WaitEnds_NoRevert ==
    /\ \/ At("woken", "report") /\ timer = 0 /\ UNCHANGED <<success, timer>>
       \/ At("woken", "waiting") /\ timer > 0 /\ ~mPartnerUp
          /\ timer' = WaitTicks /\ UNCHANGED success
       \/ At("woken", "report") /\ timer > 0 /\ mPartnerUp
          /\ success' = TRUE /\ UNCHANGED timer
    /\ UNCHANGED <<port, uevents, changes, mPartnerUp, roleLock, wanted>>
    /\ UNCHANGED <<switches, spurious, worker, history>>
WaitEnds ==
    /\ \/ At("woken", "revert") /\ timer = 0 /\ UNCHANGED <<success, timer>>
       \/ At("woken", "waiting") /\ timer > 0 /\ ~mPartnerUp
          /\ timer' = WaitTicks /\ UNCHANGED success
       \/ At("woken", "report") /\ timer > 0 /\ mPartnerUp
          /\ success' = TRUE /\ UNCHANGED timer
    /\ UNCHANGED <<port, uevents, changes, mPartnerUp, roleLock, wanted>>
    /\ UNCHANGED <<switches, spurious, worker, history>>

(* The write of "dual" may fail.                                           *)
ToDual == \/ portType' = "dual" /\ missed' = FALSE
          \/ missed' = TRUE /\ UNCHANGED portType

Revert ==
    /\ At("revert", "report") /\ ToDual
    /\ UNCHANGED <<partner, dataRole, uevents, changes, mPartnerUp, roleLock, wanted>>
    /\ UNCHANGED <<success, timer, switches, spurious, worker, reported, heard>>

(* A data or power role is written and read back.                          *)
SwitchData(role) ==
    /\ Begin(role)
    /\ \/ dataRole' = role /\ binder' = "readBack"
       \/ UNCHANGED dataRole /\ binder' = "report"
    /\ UNCHANGED <<partner, portType, uevents, changes, mPartnerUp>>
    /\ UNCHANGED <<timer, spurious, worker, history>>

ReadBack ==
    /\ At("readBack", "report") /\ success' \in {FALSE, dataRole = wanted}
    /\ UNCHANGED <<port, uevents, changes, mPartnerUp, roleLock, wanted, timer>>
    /\ UNCHANGED <<switches, spurious, worker, history>>

(* notifyRoleSwitchStatus(), with the role lock still held.                *)
Report ==
    /\ At("report", "idle") /\ roleLock' = "free"
    /\ UNCHANGED <<port, uevents, changes, mPartnerUp, wanted, success, timer>>
    /\ UNCHANGED <<switches, spurious, worker, history>>

(***************************************************************************)
(* handle_typec_uevent().                                                  *)
(***************************************************************************)
Works(here, there) == worker = here /\ worker' = there

(* "add" of a partner is announced to a mode switch; one that waits wakes. *)
Announce ==
    /\ uevents # <<>> /\ uevents' = Tail(uevents)
    /\ IF Head(uevents) = "add"
       THEN /\ mPartnerUp' = TRUE /\ heard' = TRUE
            /\ binder' = IF binder = "waiting" THEN "woken" ELSE binder
       ELSE UNCHANGED <<mPartnerUp, heard, binder>>
    /\ UNCHANGED <<port, changes, roleLock, wanted, success, timer, switches, spurious>>
    /\ UNCHANGED <<reported, missed>>
Receive_Returns ==
    /\ Announce
    /\ worker = "poll"
    /\ worker' = IF Head(uevents) = "add" THEN "poll" ELSE "status"
Receive == Announce /\ Works("poll", "status")

(* Every uevent of the port has the framework told of it.  The roles of a  *)
(* port with a partner are read from files, and one that cannot be read,   *)
(* as of a partner that is just leaving, makes the whole report an ERROR.  *)
PortStatus == IF partner THEN {"partner", "error"} ELSE {"none"}

ReportStatus ==
    /\ Works("status", "try") /\ reported' \in PortStatus
    /\ UNCHANGED <<port, uevents, changes, mPartnerUp, roleLock, call, heard, missed>>

(* While a role switch has the lock the port is left to it.                *)
TryRevert_Unlocked ==
    /\ Works("try", "check")
    /\ UNCHANGED <<roleLock, missed, port, uevents, changes, mPartnerUp, call>>
    /\ UNCHANGED <<reported, heard>>
TryRevert ==
    /\ \/ Works("try", "check") /\ roleLock = "free" /\ roleLock' = "worker"
          /\ UNCHANGED missed
       \/ Works("try", "poll") /\ roleLock # "free" /\ missed' = (missed \/ ~partner)
          /\ UNCHANGED roleLock
    /\ UNCHANGED <<port, uevents, changes, mPartnerUp, call, reported, heard>>

Unlocked == roleLock' = IF roleLock = "worker" THEN "free" ELSE roleLock

CheckPartner ==
    /\ \/ Works("check", "poll") /\ partner /\ Unlocked
       \/ Works("check", "dual") /\ ~partner /\ UNCHANGED roleLock
    /\ UNCHANGED <<port, uevents, changes, mPartnerUp, call, history>>

WriteDual ==
    /\ Works("dual", "poll") /\ ToDual /\ Unlocked
    /\ UNCHANGED <<partner, dataRole, uevents, changes, mPartnerUp, call>>
    /\ UNCHANGED <<reported, heard>>

(***************************************************************************)
(* The port and the clock.                                                 *)
(***************************************************************************)
Comes(event) ==
    /\ changes < MaxChanges /\ changes' = changes + 1
    /\ uevents' = Append(uevents, event)
    /\ UNCHANGED <<portType, mPartnerUp, roleLock, call, worker, reported, heard, missed>>

Attach ==
    /\ Comes("add") /\ ~partner /\ partner' = TRUE /\ UNCHANGED dataRole

Detach ==
    /\ Comes("remove") /\ partner /\ partner' = FALSE
    /\ UNCHANGED dataRole

(* The partner asks for a swap of the data roles.                          *)
Swap ==
    /\ Comes("change") /\ partner /\ dataRole' \in Roles \ {dataRole}
    /\ UNCHANGED partner

Tick ==
    /\ timer > 0 /\ binder \in {"waiting", "woken"} /\ timer' = timer - 1
    /\ UNCHANGED <<port, uevents, changes, mPartnerUp, roleLock, binder, wanted, success>>
    /\ UNCHANGED <<switches, spurious, worker, history>>

(***************************************************************************)
(* Specification.                                                          *)
(***************************************************************************)
Init ==
    /\ partner = FALSE /\ portType = "dual" /\ dataRole = "device"
    /\ uevents = <<>> /\ changes = 0
    /\ mPartnerUp = FALSE /\ roleLock = "free"
    /\ binder = "idle" /\ wanted = "sink" /\ success = FALSE /\ timer = 0
    /\ switches = 0 /\ spurious = 0 /\ worker = "poll"
    /\ reported = "none" /\ heard = FALSE /\ missed = FALSE

Switch ==
    \/ ForcePort \/ TimesOut \/ WaitEnds \/ Revert \/ ReadBack \/ Report

Worker == Receive \/ ReportStatus \/ TryRevert \/ CheckPartner \/ WriteDual

Next ==
    \/ \E mode \in Modes : SwitchMode(mode)
    \/ \E role \in Roles : SwitchData(role)
    \/ Switch \/ WakesSpuriously
    \/ Worker
    \/ Attach \/ Detach \/ Swap \/ Tick

Spec == Init /\ [][Next]_vars

(* The two threads run and time passes; no partner needs to come.          *)
FairSpec == Spec /\ WF_vars(Switch) /\ WF_vars(Worker) /\ WF_vars(Tick)

(***************************************************************************)
(* Properties.                                                             *)
(***************************************************************************)
PortOK ==
    /\ portType \in {"dual"} \cup Modes /\ dataRole \in Roles
    /\ uevents \in Seq({"add", "remove", "change"}) /\ changes \in 0..MaxChanges

CallOK ==
    /\ roleLock \in {"free", "binder", "worker"}
    /\ binder \in {"idle", "mode", "waiting", "woken", "revert", "readBack", "report"}
    /\ wanted \in Modes \cup Roles /\ timer \in 0..WaitTicks
    /\ switches \in 0..MaxSwitches /\ spurious \in 0..MaxSpurious
    /\ worker \in {"poll", "status", "try", "check", "dual"}

FlagsOK ==
    /\ partner \in BOOLEAN /\ mPartnerUp \in BOOLEAN
    /\ success \in BOOLEAN /\ reported \in {"partner", "none", "error"}
    /\ heard \in BOOLEAN /\ missed \in BOOLEAN

TypeOK == PortOK /\ CallOK /\ FlagsOK

(* A mode switch is reported as a success only if a partner was announced  *)
(* after the port was forced: what an earlier switch or an earlier partner *)
(* left in mPartnerUp does not count.                                      *)
SuccessIsHeard == success /\ wanted \in Modes => heard

(* A port waiting for its partner stays in the mode it was forced to: the  *)
(* worker, who sees it without a partner all that time, does not undo it.  *)
NotUndone == binder \in {"waiting", "woken"} => portType = wanted

(* So a mode switch is a fair one: the port stays as it was forced for all *)
(* of the wait, and it ends well for a partner of that wait only.          *)
FairSwitch == SuccessIsHeard /\ NotUndone

Quiet == binder = "idle" /\ worker = "poll" /\ uevents = <<>>

(* When all is done, a port without partner is back in dual role, unless   *)
(* the write failed or its partner left during a role switch, when the     *)
(* worker does not look after the port.                                    *)
OrphanExplained == Quiet /\ ~partner /\ portType # "dual" => missed

(* When all is done, the framework knows whether there is a partner, or    *)
(* the port has one and the report made of it was an ERROR: it is never    *)
(* left with a partner that is gone, nor with the error of one that is.    *)
FrameworkUpToDate == Quiet => reported \in PortStatus

(* Every switchRole() returns, partner or none.                            *)
SwitchReturns == binder # "idle" ~> binder = "idle"
=============================================================================
