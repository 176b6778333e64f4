---------------------------- MODULE UsbRequests ----------------------------
(***************************************************************************)
(* usb/Usb.cpp: enableUsbData(), limitPowerTransfer() and resetUsbPort(),  *)
(* and what a port status says of them.  Each is a run of sysfs writes     *)
(* under mLock, on the only binder thread; any of the writes may fail, and *)
(* a failure leads on to other writes, to an early end, or to nothing but  *)
(* a warning.  The service may die at any time and come back.  A callback  *)
(* is registered; enableUsbDataWhileDocked() answers NOT_SUPPORTED and     *)
(* does nothing else.  Names are such that UsbBinderProofs can extend this *)
(* module and UsbWorker, which are about the same thread.                  *)
(***************************************************************************)
EXTENDS FiniteSets

CONSTANT Platforms      \* which of the control nodes there may be

(* dynamic_disable, id, b_sess, usb_data_enabled, usb_control/disable and  *)
(* the gadget's UDC.                                                       *)
Nodes == {"dynamic", "id", "vbus", "data", "notify", "pullup"}

ASSUME PlatformsAssumption == Platforms \subseteq SUBSET Nodes

VARIABLES
    nodes,              \* the nodes this platform has
    off,                \* those that were last written to turn USB off
    limits,             \* "current": restrict_cur is 0; "charge": restrict_chg is 1
    mode,               \* the controller's mode
    cable,              \* the mode that what is plugged in asks for
    usbDataDisabled, limitedPower,
    resetter,           \* the binder thread: "idle", or "asleep" in resetUsbPort
    cached,             \* the mode it is to write back, as it was read
    dataKnown,          \* history: usbDataDisabled was set in this life of the service
    limitKnown,         \* history: limitedPower was set in this life of the service
    stranded,           \* history: controls that are off and that no enable need
                        \* reach: turned off in place of one that could not be
                        \* written, or their own write failed in an enable
    limitFailed,        \* history: the writes that failed in the last
                        \* limitPowerTransfer, which answered ERROR if there were any
    unsettled           \* history: a reset did not return what it took

data  == <<off, usbDataDisabled, dataKnown, stranded>>
power == <<limits, limitedPower, limitFailed, limitKnown>>
port  == <<mode, cable, resetter, cached, unsettled>>
requestVars  == <<nodes, data, power, port>>

(***************************************************************************)
(* enableUsbData().  "works" are the nodes whose writes succeed this time. *)
(***************************************************************************)
(* dynamic_disable alone is enough; only without it the older controls are *)
(* tried, usb_control/disable only if usb_data_enabled fails.  The gadget  *)
(* comes last, and its failure is a warning, as are id's and b_sess'.      *)
Fallback(enable, works) ==
    (IF enable THEN {} ELSE {"id", "vbus"})
    \cup {"data"}
    \cup (IF "data" \in works THEN {} ELSE {"notify"})
    \cup (IF {"data", "notify"} \cap works = {} THEN {} ELSE {"pullup"})

Tried(enable, works) ==
    {"dynamic"} \cup (IF "dynamic" \in works THEN {} ELSE Fallback(enable, works))

Answer(works) ==
    IF {"dynamic", "data", "notify"} \cap works = {} THEN "ERROR" ELSE "SUCCESS"

(* What is tried only as a control that is there could not be written.     *)
Detour(enable, works) ==
    IF "dynamic" \in nodes \ works THEN Fallback(enable, works)
    ELSE IF "data" \in nodes \ works THEN {"notify"} ELSE {}

(* An enable makes good what it writes, a disable what it writes on the    *)
(* way that the next enable goes.                                          *)
Stranded(enable, works) ==
    LET tried == Tried(enable, works)
    IN  IF enable THEN stranded \cup (tried \ works)
        ELSE (stranded \ (tried \cap works)) \cup (Detour(enable, works) \cap tried)

Write(enable, works) ==
    /\ off' = IF enable THEN off \ (Tried(enable, works) \cap works)
              ELSE off \cup (Tried(enable, works) \cap works)
    /\ stranded' = Stranded(enable, works) \cap off'

EnableUsbData_Sets(enable, works) ==
    /\ resetter = "idle" /\ Write(enable, works)
    /\ usbDataDisabled' = ~enable /\ dataKnown' = TRUE
    /\ UNCHANGED <<nodes, power, port>>
EnableUsbData(enable, works) ==
    /\ resetter = "idle" /\ Write(enable, works)
    /\ IF Answer(works) = "SUCCESS"
       THEN usbDataDisabled' = ~enable /\ dataKnown' = TRUE
       ELSE UNCHANGED <<usbDataDisabled, dataKnown>>
    /\ UNCHANGED <<nodes, power, port>>

(* getUsbControllerPath() finds nothing: ERROR, and nothing else happens.  *)

(***************************************************************************)
(* limitPowerTransfer(): restrict_cur and restrict_chg to limit, only      *)
(* restrict_chg to end it.  limitedPower says what was asked, whatever     *)
(* became of the writes.                                                   *)
(***************************************************************************)
LimitPowerTransfer(limit, works) ==
    /\ resetter = "idle"
    /\ LET tried == IF limit THEN {"current", "charge"} ELSE {"charge"}
       IN  /\ limits' = IF limit THEN limits \cup works ELSE limits \ (tried \cap works)
           /\ limitFailed' = tried \ works
    /\ limitedPower' = limit /\ limitKnown' = TRUE
    /\ UNCHANGED <<nodes, data, port>>

(***************************************************************************)
(* resetUsbPort(): the mode is read, "none" written, and 300 ms later what *)
(* was read.  A sysfs node is read with its newline, so that the test for  *)
(* "none" never holds; a write ignores it.                                 *)
(***************************************************************************)
Modes == {"none", "host", "peripheral"}
Shown == [none |-> "none\n", host |-> "host\n", peripheral |-> "peripheral\n"]
Stored(line) == CHOOSE m \in Modes : Shown[m] = line

(* A read or a write that fails answers ERROR and changes nothing, so the  *)
(* step is the one that succeeds with both.                                *)
Reset_ReadsLate ==
    /\ resetter = "idle" /\ Shown[mode] # "none"
    /\ mode' = "none" /\ cached' = Shown[mode'] /\ resetter' = "asleep"
    /\ UNCHANGED <<nodes, data, power, cable, unsettled>>
Reset_Unread ==
    /\ resetter = "idle" /\ Shown[mode] # "none"
    /\ cached' \in {Shown[mode], ""} /\ mode' = "none" /\ resetter' = "asleep"
    /\ UNCHANGED <<nodes, data, power, cable, unsettled>>
Reset ==
    /\ resetter = "idle" /\ Shown[mode] # "none"
    /\ cached' = Shown[mode] /\ mode' = "none" /\ resetter' = "asleep"
    /\ UNCHANGED <<nodes, data, power, cable, unsettled>>

WriteBack ==
    /\ resetter = "asleep" /\ resetter' = "idle" /\ cached' = "none\n"
    /\ \/ mode' = Stored(cached) /\ UNCHANGED unsettled
       \/ unsettled' = TRUE /\ UNCHANGED mode
    /\ UNCHANGED <<nodes, data, power, cable>>

(***************************************************************************)
(* What is plugged in changes, and the controller's driver follows it,     *)
(* also while a reset sleeps.                                              *)
(***************************************************************************)
Replug ==
    /\ cable' \in Modes \ {cable} /\ mode' = cable'
    /\ unsettled' = (resetter = "asleep")
    /\ UNCHANGED <<nodes, data, power, resetter, cached>>

(***************************************************************************)
(* The service dies, wherever it is, and starts anew.  What it wrote       *)
(* stays; the constructor gives the two flags no value.                    *)
(***************************************************************************)
Restart ==
    /\ resetter' = "idle" /\ cached' = "none\n"
    /\ usbDataDisabled' \in BOOLEAN /\ limitedPower' \in BOOLEAN
    /\ dataKnown' = FALSE /\ limitKnown' = FALSE
    /\ limitFailed' = {}
    /\ unsettled' = (unsettled \/ resetter = "asleep")
    /\ UNCHANGED <<nodes, off, limits, mode, cable, stranded>>

(***************************************************************************)
(* Specification.                                                          *)
(***************************************************************************)
RequestsInit ==
    /\ nodes \in Platforms /\ off = {} /\ limits = {}
    /\ mode \in Modes /\ cable = mode
    /\ usbDataDisabled \in BOOLEAN /\ limitedPower \in BOOLEAN
    /\ resetter = "idle" /\ cached = "none\n"
    /\ dataKnown = FALSE /\ limitKnown = FALSE
    /\ stranded = {} /\ limitFailed = {} /\ unsettled = FALSE

RequestsNext ==
    \/ \E enable \in BOOLEAN, works \in SUBSET nodes : EnableUsbData(enable, works)
    \/ \E limit \in BOOLEAN, works \in SUBSET {"current", "charge"} :
          LimitPowerTransfer(limit, works)
    \/ Reset \/ WriteBack
    \/ Replug \/ Restart

RequestsSpec == RequestsInit /\ [][RequestsNext]_requestVars

(***************************************************************************)
(* Properties.                                                             *)
(***************************************************************************)
RequestsTypeOK ==
    /\ nodes \subseteq Nodes /\ off \subseteq nodes
    /\ limits \subseteq {"current", "charge"}
    /\ mode \in Modes /\ cable \in Modes
    /\ usbDataDisabled \in BOOLEAN /\ limitedPower \in BOOLEAN
    /\ resetter \in {"idle", "asleep"} /\ cached \in {Shown[m] : m \in Modes}
    /\ dataKnown \in BOOLEAN /\ limitKnown \in BOOLEAN /\ unsettled \in BOOLEAN
    /\ stranded \subseteq off /\ limitFailed \subseteq {"current", "charge"}

(* getPortStatusHelper() reports the two flags as they are.                *)
UsbDataStatus == IF usbDataDisabled THEN "DISABLED_FORCE" ELSE "ENABLED"

(* The controls each of which alone disables data.                         *)
Blockers == {"dynamic", "data", "notify", "pullup"}

(* A port reported with its data disabled has it disabled, whichever       *)
(* control it took and however many writes failed on the way.  On one      *)
(* reported enabled a control is off only if an enable tried and could not *)
(* turn it on, or if a disable used it in place of a control that could    *)
(* not be written; an enable that reaches none of those is a success all   *)
(* the same.  Before its first success in this life of the service the     *)
(* flag means nothing.                                                     *)
DataAsReported ==
    dataKnown =>
        /\ UsbDataStatus = "DISABLED_FORCE" => off \cap Blockers # {}
        /\ UsbDataStatus = "ENABLED" => off \cap Blockers \subseteq stranded

(* powerTransferLimited says what charging does, but for what the last     *)
(* request tried and could not write.                                      *)
LimitAsReported ==
    limitKnown =>
        /\ (limitedPower <=> "charge" \in limits) \/ "charge" \in limitFailed
        /\ limitedPower => "current" \in limits \cup limitFailed

(* What a port status, if getPortStatusHelper() comes to make one, says of *)
(* data and power is so.                                                   *)
ReportsAreTrue == DataAsReported /\ LimitAsReported

(* Outside of a reset the controller is in the mode that what is plugged   *)
(* in asks for, unless a reset could not write the mode back, or died, or  *)
(* slept while that changed and wrote back what no longer holds.           *)
ModeExplained == resetter = "idle" /\ mode # cable => unsettled
=============================================================================
