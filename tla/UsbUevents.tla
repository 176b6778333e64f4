---------------------------- MODULE UsbUevents -----------------------------
(***************************************************************************)
(* usb/Usb.cpp: what the worker makes of the uevents that concern neither  *)
(* a role switch nor host-mode devices.  A type-C uevent adapts the        *)
(* gadget's power budget to a power delivery contract and back; one of the *)
(* charger reports moisture and power bricks; one of the UDC goes to ADB   *)
(* and binds the gadget.  The worker acts on what it reads when it comes   *)
(* to a uevent, not on what was so when the uevent was sent.               *)
(*                                                                         *)
(* The three share no state but the thread and the status report, so that  *)
(* a behaviour changes the things of one member of Sources only.           *)
(***************************************************************************)
EXTENDS Naturals, Sequences

CONSTANTS
    Sources,        \* which things change together
    MaxQueue        \* bound on the uevents the socket holds

Things == {"power", "charger", "role"}

ASSUME SourcesAssumption == Sources \subseteq SUBSET Things /\ MaxQueue \in Nat

VARIABLES
    active,         \* the things that change in this behaviour
    queue,          \* the worker's socket: "typec", "psy", "add", "remove"
    worker,         \* "starting", "idle", "report" or "bind"
    binder,         \* setCallback: "scan", "set", "path" or "done"
    missed,         \* history: the kinds of uevent the worker did not act on
    opMode,         \* port0's power_operation_mode: "default" or "pd"
    gadget,         \* the gadget's MaxPower and bmAttributes: "own" or "pd"
    mPowerOpMode,
    saved,          \* mMaxPower and mAttributes
    budgetLost,     \* history: a read or a write of these failed, or they
                    \* were not the gadget's own when the service died
    charger,        \* moisture and power brick, as the kernel has them
    remembered,     \* mContaminantPresence and powerBrickConnected
    seen,           \* what the framework was last told of them
    overtaken,      \* history: that was not what the worker remembered
    refused,        \* history: the last report was an ERROR instead
    role,           \* "device" or "host": whether there is a UDC or an xHCI
    scanned,        \* the role that setCallback found
    adbDisabled,    \* vendor.sys.usb.adb.disabled
    adbRuns,        \* adbd runs, and would bind the gadget itself
    bound,          \* the gadget is bound to the UDC
    tries,          \* what is left of the worker's tries to bind it
    excused         \* history: they ran out, or were left to adbd

thread  == <<active, queue, worker, binder, missed>>
power   == <<opMode, gadget, mPowerOpMode, saved, budgetLost>>
reports == <<charger, remembered, seen, overtaken, refused>>
udc     == <<role, scanned, adbDisabled, adbRuns, bound, tries, excused>>
vars    == <<thread, power, reports, udc>>

Files == {"power", "attributes"}
Own == [f \in Files |-> "own"]

(***************************************************************************)
(* uevent_event().                                                         *)
(***************************************************************************)
Take(event) ==
    /\ worker = "idle" /\ queue # <<>> /\ Head(queue) = event
    /\ queue' = Tail(queue) /\ UNCHANGED <<active, binder>>

Kind(event) == IF event \in {"add", "remove"} THEN "udc" ELSE event

(* handle_typec_uevent(), up to its report.  The values that power         *)
(* delivery replaces are saved as they are read, and a failed read leaves  *)
(* nothing to restore; "works" are the reads and writes that succeed.      *)
Contract(reads, works) ==
    /\ saved' = [f \in Files |-> IF f \in reads THEN gadget[f] ELSE ""]
    /\ gadget' = [f \in Files |-> IF f \in works THEN "pd" ELSE gadget[f]]
    /\ budgetLost' = (budgetLost \/ reads # Files \/ works # Files)

Restore(works) ==
    IF saved["power"] = "" THEN UNCHANGED <<saved, gadget, budgetLost>>
    ELSE /\ gadget' = [f \in Files |-> IF f \in works /\ saved[f] # ""
                                       THEN saved[f] ELSE gadget[f]]
         /\ saved' = [saved EXCEPT !["power"] = ""]
         /\ budgetLost' = (budgetLost \/ works # Files)

AdaptBudget_Always(reads, works) ==
    /\ IF opMode = "pd" THEN Contract(reads, works) ELSE Restore(works)
    /\ mPowerOpMode' = opMode
AdaptBudget(reads, works) ==
    /\ IF mPowerOpMode = opMode THEN UNCHANGED <<saved, gadget, budgetLost>>
       ELSE IF opMode = "pd" THEN Contract(reads, works) ELSE Restore(works)
    /\ mPowerOpMode' = opMode

HandleTypec ==
    /\ Take("typec") /\ worker' = "report"
    /\ \/ /\ \E reads, works \in SUBSET Files : AdaptBudget(reads, works)
          /\ missed' = missed \ {"typec"}
       \/ /\ missed' = missed \cup {"typec"}
          /\ UNCHANGED <<mPowerOpMode, saved, gadget, budgetLost>>
    /\ UNCHANGED <<opMode, reports, udc>>

(* handle_psy_uevent(): mContaminantStatusPath is empty until setCallback  *)
(* has been through, and is read without a lock.                           *)
Sample == [wet |-> charger.wet /\ binder = "done", brick |-> charger.brick]

HandlePsy_BrickOnly ==
    /\ Take("psy") /\ remembered' = Sample
    /\ worker' = IF Sample.brick = remembered.brick THEN "idle" ELSE "report"
    /\ missed' = IF binder = "done" THEN missed \ {"psy"} ELSE missed \cup {"psy"}
    /\ UNCHANGED <<charger, seen, overtaken, refused, power, udc>>
HandlePsy ==
    /\ Take("psy") /\ remembered' = Sample
    /\ worker' = IF Sample = remembered THEN "idle" ELSE "report"
    /\ missed' = IF binder = "done" THEN missed \ {"psy"} ELSE missed \cup {"psy"}
    /\ UNCHANGED <<charger, seen, overtaken, refused, power, udc>>

(* A status report reads everything anew, under mLock, which setCallback   *)
(* holds until it is done.  A port whose roles cannot be read makes it an  *)
(* ERROR, which says nothing of the charger.                               *)
Tell ==
    /\ binder = "done"
    /\ \/ seen' = charger /\ overtaken' = (charger # remembered) /\ refused' = FALSE
       \/ refused' = TRUE /\ UNCHANGED <<seen, overtaken>>
    /\ UNCHANGED <<charger, remembered>>

Report ==
    /\ worker = "report" /\ worker' = "idle" /\ Tell
    /\ UNCHANGED <<active, queue, binder, missed, power, udc>>

QueryPortStatus == Tell /\ UNCHANGED <<thread, power, udc>>

(* The UDC is back: ADB may go on, and unless adbd does it the worker      *)
(* binds the gadget, in six tries 50 ms apart.                             *)
HandleUdcAdd ==
    /\ Take("add") /\ missed' = missed \ {"udc"} /\ adbDisabled' = FALSE
    /\ worker' = IF adbRuns THEN "idle" ELSE "bind"
    /\ tries' = IF adbRuns THEN 0 ELSE 6
    /\ excused' = adbRuns
    /\ UNCHANGED <<role, scanned, adbRuns, bound, power, reports>>

TryBind_Once ==
    /\ worker = "bind"
    /\ \/ (bound \/ role = "device") /\ bound' = TRUE
          /\ worker' = "idle" /\ tries' = 0 /\ UNCHANGED excused
       \/ ~bound /\ UNCHANGED bound
          /\ tries' = 0 /\ UNCHANGED excused
          /\ worker' = "idle"
    /\ UNCHANGED <<active, queue, binder, missed, power, reports>>
    /\ UNCHANGED <<role, scanned, adbDisabled, adbRuns>>
TryBind_OffByOne ==
    /\ worker = "bind"
    /\ \/ (bound \/ role = "device") /\ bound' = TRUE
          /\ worker' = "idle" /\ tries' = 0 /\ UNCHANGED excused
       \/ ~bound /\ UNCHANGED bound
          /\ tries' = tries - 1 /\ excused' = (tries = 0)
          /\ worker' = IF tries = 0 THEN "idle" ELSE "bind"
    /\ UNCHANGED <<active, queue, binder, missed, power, reports>>
    /\ UNCHANGED <<role, scanned, adbDisabled, adbRuns>>
TryBind ==
    /\ worker = "bind"
    /\ \/ (bound \/ role = "device") /\ bound' = TRUE
          /\ worker' = "idle" /\ tries' = 0 /\ UNCHANGED excused
       \/ ~bound /\ UNCHANGED bound
          /\ tries' = tries - 1 /\ excused' = (tries = 1)
          /\ worker' = IF tries = 1 THEN "idle" ELSE "bind"
    /\ UNCHANGED <<active, queue, binder, missed, power, reports>>
    /\ UNCHANGED <<role, scanned, adbDisabled, adbRuns>>

(* A UDC is gone: ADB is stopped if there is none any more.                *)
HandleUdcRemove ==
    /\ Take("remove") /\ missed' = missed \ {"udc"}
    /\ adbDisabled' = (adbDisabled \/ role = "host")
    /\ UNCHANGED <<worker, role, scanned, adbRuns, bound, tries, excused, power, reports>>

(***************************************************************************)
(* setCallback(): the worker opens its socket while this thread looks for  *)
(* an xHCI, sets ADB's property by it and finds the moisture's path.       *)
(***************************************************************************)
Listen ==
    /\ worker = "starting" /\ worker' = "idle"
    /\ UNCHANGED <<active, queue, binder, missed, power, reports, udc>>

ScanRole ==
    /\ binder = "scan" /\ binder' = "set" /\ scanned' = role
    /\ UNCHANGED <<active, queue, worker, missed, power, reports>>
    /\ UNCHANGED <<role, adbDisabled, adbRuns, bound, tries, excused>>

SetAdb ==
    /\ binder = "set" /\ binder' = "path" /\ adbDisabled' = (scanned = "host")
    /\ missed' = IF scanned = role THEN missed ELSE missed \cup {"udc"}
    /\ UNCHANGED <<active, queue, worker, power, reports>>
    /\ UNCHANGED <<role, scanned, adbRuns, bound, tries, excused>>

FindPath ==
    /\ binder = "path" /\ binder' = "done"
    /\ UNCHANGED <<active, queue, worker, missed, power, reports, udc>>

(***************************************************************************)
(* The kernel: each change is announced, whether or not somebody listens.  *)
(***************************************************************************)
Changes(thing, event) ==
    /\ thing \in active
    /\ IF worker = "starting"
       THEN missed' = missed \cup {Kind(event)} /\ UNCHANGED queue
       ELSE Len(queue) < MaxQueue /\ queue' = Append(queue, event) /\ UNCHANGED missed
    /\ UNCHANGED <<active, worker, binder>>

(* A type-C uevent need not be about power.                                *)
ChangePower ==
    /\ Changes("power", "typec") /\ opMode' \in {"default", "pd"}
    /\ UNCHANGED <<gadget, mPowerOpMode, saved, budgetLost, reports, udc>>

ChangeCharger ==
    /\ Changes("charger", "psy")
    /\ charger' \in [wet : BOOLEAN, brick : BOOLEAN] \ {charger}
    /\ UNCHANGED <<remembered, seen, overtaken, refused, power, udc>>

ChangeRole ==
    /\ Changes("role", IF role = "host" THEN "add" ELSE "remove")
    /\ role' = IF role = "host" THEN "device" ELSE "host"
    /\ bound' = FALSE /\ excused' = FALSE
    /\ UNCHANGED <<scanned, adbDisabled, adbRuns, tries, power, reports>>

(* adbd starts and ends, and binds the gadget when it may.                 *)
ChangeAdbd ==
    /\ "role" \in active /\ adbRuns' = ~adbRuns
    /\ UNCHANGED <<thread, power, reports>>
    /\ UNCHANGED <<role, scanned, adbDisabled, bound, tries, excused>>

AdbdBinds ==
    /\ adbRuns /\ ~adbDisabled /\ role = "device" /\ bound' = TRUE
    /\ UNCHANGED <<thread, power, reports>>
    /\ UNCHANGED <<role, scanned, adbDisabled, adbRuns, tries, excused>>

(***************************************************************************)
(* The service dies and starts anew; what it remembered is gone, and the   *)
(* constructor gives powerBrickConnected no value.                         *)
(***************************************************************************)
Restart ==
    /\ queue' = <<>> /\ worker' = "starting" /\ binder' = "scan"
    /\ missed' = missed \cup {Kind(queue[i]) : i \in DOMAIN queue}
    /\ mPowerOpMode' = "" /\ saved' = [f \in Files |-> ""]
    /\ budgetLost' = (budgetLost \/ gadget # Own)
    /\ remembered' \in [wet : {FALSE}, brick : BOOLEAN] /\ overtaken' = TRUE
    /\ tries' = 0 /\ excused' = (excused \/ worker = "bind")
    /\ UNCHANGED <<active, opMode, gadget, charger, seen, refused>>
    /\ UNCHANGED <<role, scanned, adbDisabled, adbRuns, bound>>

(***************************************************************************)
(* Specification.                                                          *)
(***************************************************************************)
Init ==
    /\ active \in Sources /\ queue = <<>> /\ worker = "starting" /\ binder = "scan"
    /\ missed = {}
    /\ opMode = "default" /\ gadget = Own
    /\ mPowerOpMode = "" /\ saved = [f \in Files |-> ""] /\ budgetLost = FALSE
    /\ charger = [wet |-> FALSE, brick |-> FALSE] /\ seen = charger
    /\ remembered \in [wet : {FALSE}, brick : BOOLEAN] /\ overtaken = TRUE
    /\ refused = FALSE
    /\ role = "device" /\ scanned = "device" /\ adbDisabled = FALSE
    /\ adbRuns = FALSE /\ bound = TRUE /\ tries = 0 /\ excused = FALSE

Worker == HandleTypec \/ HandlePsy \/ HandleUdcAdd \/ HandleUdcRemove \/ Report \/ TryBind

Binder == ScanRole \/ SetAdb \/ FindPath \/ QueryPortStatus

Next ==
    \/ Worker \/ Listen \/ Binder
    \/ ChangePower \/ ChangeCharger \/ ChangeRole \/ ChangeAdbd \/ AdbdBinds
    \/ Restart

Spec == Init /\ [][Next]_vars

(***************************************************************************)
(* Properties.                                                             *)
(***************************************************************************)
TypeOK ==
    /\ active \in Sources /\ queue \in Seq({"typec", "psy", "add", "remove"})
    /\ Len(queue) <= MaxQueue
    /\ worker \in {"starting", "idle", "report", "bind"}
    /\ binder \in {"scan", "set", "path", "done"} /\ missed \subseteq {"typec", "psy", "udc"}
    /\ opMode \in {"default", "pd"} /\ gadget \in [Files -> {"own", "pd"}]
    /\ mPowerOpMode \in {"", "default", "pd"} /\ saved \in [Files -> {"", "own", "pd"}]
    /\ {charger, remembered, seen} \subseteq [wet : BOOLEAN, brick : BOOLEAN]
    /\ {role, scanned} \subseteq {"device", "host"} /\ tries \in 0..6
    /\ {budgetLost, overtaken, refused, adbDisabled, adbRuns, bound, excused} \subseteq BOOLEAN
    /\ worker = "bind" <=> tries > 0

Quiet == worker = "idle" /\ binder = "done" /\ queue = <<>>

(* However often contracts come and go, the gadget draws nothing under     *)
(* one and has its own values back after the last, unless a file could not *)
(* be read or written, or the service died in the middle of a contract:    *)
(* its successor saves the zeroes as the gadget's own.                     *)
BudgetRestored ==
    Quiet /\ "typec" \notin missed /\ ~budgetLost =>
        gadget = [f \in Files |-> IF opMode = "pd" THEN "pd" ELSE "own"]

(* Once every change of the charger is handled the framework knows what is *)
(* so, unless the last report was an ERROR or read something newer than    *)
(* what the worker had just remembered: the worker compares with what it   *)
(* remembers, and may then find nothing to tell.                           *)
ChargerReported ==
    Quiet /\ "psy" \notin missed => seen = charger \/ overtaken \/ refused

(* ADB is stopped exactly while there is no UDC, however the port turned   *)
(* about meanwhile, and a UDC that came back has the gadget bound, unless  *)
(* six tries failed or it was left to an adbd that was running.            *)
GadgetFollows ==
    Quiet /\ "udc" \notin missed =>
        /\ adbDisabled <=> role = "host"
        /\ role = "device" => bound \/ excused
=============================================================================
