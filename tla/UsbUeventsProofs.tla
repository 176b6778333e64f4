-------------------------- MODULE UsbUeventsProofs --------------------------
(***************************************************************************)
(* Theorems about UsbUevents, for any things that change and any length of *)
(* the socket's queue.                                                     *)
(*                                                                         *)
(* The worker acts on what it reads, so that the last of the uevents of a  *)
(* kind is the one that counts: unless one is queued, or none was acted on *)
(* since the last change, what the service made of the kind is up to date. *)
(***************************************************************************)
EXTENDS UsbUevents, TLAPS

Events == {"typec", "psy", "add", "remove"}
Kinds == {"typec", "psy", "udc"}

(* A uevent of the kind is on its way.                                     *)
Queued(q, kind) == \E i \in 1..Len(q) : Kind(q[i]) = kind

(* The last of the UDC's uevents says which role it is.                    *)
Latest(q, r) ==
    \A i \in 1..Len(q) :
        Kind(q[i]) = "udc" /\ (\A j \in (i + 1)..Len(q) : Kind(q[j]) # "udc")
            => (q[i] = "add" <=> r = "device")

UpToDate(kind) == ~Queued(queue, kind) /\ kind \notin missed

(***************************************************************************)
(* The inductive invariant, by the things that change.                     *)
(***************************************************************************)
QueueTyped ==
    /\ queue \in Seq(Events) /\ Len(queue) \in 0..MaxQueue
    /\ worker = "starting" => queue = <<>>

ThreadTyped ==
    /\ active \in Sources /\ worker \in {"starting", "idle", "report", "bind"}
    /\ binder \in {"scan", "set", "path", "done"} /\ missed \subseteq Kinds
    /\ tries \in 0..6 /\ (worker = "bind" <=> tries > 0)

PowerTyped ==
    /\ opMode \in {"default", "pd"} /\ gadget \in [Files -> {"own", "pd"}]
    /\ mPowerOpMode \in {"", "default", "pd"} /\ saved \in [Files -> {"", "own", "pd"}]
    /\ budgetLost \in BOOLEAN

ChargerTyped ==
    /\ {charger, remembered, seen} \subseteq [wet : BOOLEAN, brick : BOOLEAN]
    /\ overtaken \in BOOLEAN /\ refused \in BOOLEAN

UdcTyped ==
    /\ {role, scanned} \subseteq {"device", "host"}
    /\ {adbDisabled, adbRuns, bound, excused} \subseteq BOOLEAN

Typed == QueueTyped /\ ThreadTyped /\ PowerTyped /\ ChargerTyped /\ UdcTyped

(* The budget follows the mode that is remembered, and that one the port's.*)
PowerInv ==
    ~budgetLost =>
        /\ IF mPowerOpMode = "pd"
           THEN gadget = [f \in Files |-> "pd"] /\ saved = Own
           ELSE gadget = Own /\ saved["power"] = ""
        /\ UpToDate("typec") =>
              mPowerOpMode = opMode \/ (mPowerOpMode = "" /\ opMode = "default")

(* Unless a report follows, the framework knows what is remembered, and    *)
(* that is what the kernel last announced.                                 *)
ChargerInv ==
    ~overtaken /\ ~refused =>
        /\ worker # "report" => seen = remembered
        /\ binder = "done"
        /\ UpToDate("psy") => remembered = charger

UdcInv ==
    /\ Latest(queue, role)
    /\ UpToDate("udc") =>
          /\ binder \in {"path", "done"} => (adbDisabled <=> role = "host")
          /\ role = "device" => bound \/ excused \/ worker = "bind"

IInv == Typed /\ PowerInv /\ ChargerInv /\ UdcInv

(***************************************************************************)
(* The socket's queue.                                                     *)
(***************************************************************************)
(* What taking the first of the uevents leaves.                            *)
LEMMA TailOfQueue ==
    ASSUME NEW q \in Seq(Events), q # <<>>, NEW kind, NEW r
    PROVE  /\ Tail(q) \in Seq(Events) /\ Len(Tail(q)) = Len(q) - 1 /\ Head(q) \in Events
           /\ Kind(Head(q)) # kind => (Queued(Tail(q), kind) <=> Queued(q, kind))
           /\ Latest(q, r) => Latest(Tail(q), r)
           /\ Latest(q, r) /\ Kind(Head(q)) = "udc" /\ ~Queued(Tail(q), "udc")
                 => (Head(q) = "add" <=> r = "device")
<1>1. Tail(q) \in Seq(Events) /\ Len(Tail(q)) = Len(q) - 1 /\ Len(q) \in Nat \ {0}
  OBVIOUS
<1>2. Head(q) = q[1] /\ Head(q) \in Events /\ \A i \in 1..Len(Tail(q)) : Tail(q)[i] = q[i + 1]
  OBVIOUS
<1>3. Kind(Head(q)) # kind => (Queued(Tail(q), kind) <=> Queued(q, kind))
  <2>1. ASSUME NEW i \in 1..Len(Tail(q)), Kind(Tail(q)[i]) = kind
        PROVE  Queued(q, kind)
    <3>1. i + 1 \in 1..Len(q)
      BY <1>1
    <3> QED BY <1>2, <2>1, <3>1 DEF Queued
  <2>2. ASSUME Kind(Head(q)) # kind, NEW i \in 1..Len(q), Kind(q[i]) = kind
        PROVE  Queued(Tail(q), kind)
    <3>1. i - 1 \in 1..Len(Tail(q)) /\ q[i] = Tail(q)[i - 1]
      BY <1>1, <1>2, <2>2
    <3> QED BY <2>2, <3>1 DEF Queued
  <2> QED BY <2>1, <2>2 DEF Queued
<1>4. Latest(q, r) => Latest(Tail(q), r)
  <2> SUFFICES ASSUME Latest(q, r), NEW i \in 1..Len(Tail(q)), Kind(Tail(q)[i]) = "udc",
                      \A j \in (i + 1)..Len(Tail(q)) : Kind(Tail(q)[j]) # "udc"
               PROVE  Tail(q)[i] = "add" <=> r = "device"
    BY DEF Latest
  <2>1. i + 1 \in 1..Len(q) /\ Tail(q)[i] = q[i + 1]
    BY <1>1, <1>2
  <2>2. \A j \in ((i + 1) + 1)..Len(q) : Kind(q[j]) # "udc"
    <3> TAKE j \in ((i + 1) + 1)..Len(q)
    <3>1. j - 1 \in (i + 1)..Len(Tail(q)) /\ q[j] = Tail(q)[j - 1]
      BY <1>1, <1>2
    <3> QED BY <3>1
  <2> QED BY <2>1, <2>2 DEF Latest
<1>5. ASSUME Latest(q, r), Kind(Head(q)) = "udc", ~Queued(Tail(q), "udc")
      PROVE  Head(q) = "add" <=> r = "device"
  <2>1. 1 \in 1..Len(q) /\ Kind(q[1]) = "udc"
    BY <1>1, <1>2, <1>5
  <2>2. \A j \in (1 + 1)..Len(q) : Kind(q[j]) # "udc"
    <3> TAKE j \in (1 + 1)..Len(q)
    <3>1. j - 1 \in 1..Len(Tail(q)) /\ q[j] = Tail(q)[j - 1]
      BY <1>1, <1>2
    <3> QED BY <1>5, <3>1 DEF Queued
  <2> QED BY <1>2, <1>5, <2>1, <2>2 DEF Latest
<1> QED BY <1>1, <1>2, <1>3, <1>4, <1>5

(* What one more uevent makes of it.                                       *)
LEMMA AppendToQueue ==
    ASSUME NEW q \in Seq(Events), NEW event \in Events, NEW kind, NEW r
    PROVE  /\ Append(q, event) \in Seq(Events) /\ Len(Append(q, event)) = Len(q) + 1
           /\ Queued(Append(q, event), kind) <=> Queued(q, kind) \/ Kind(event) = kind
           /\ Kind(event) # "udc" /\ Latest(q, r) => Latest(Append(q, event), r)
           /\ Kind(event) = "udc" /\ (event = "add" <=> r = "device")
                 => Latest(Append(q, event), r)
<1> DEFINE a == Append(q, event)
<1>1. /\ a \in Seq(Events) /\ Len(a) = Len(q) + 1 /\ Len(q) \in Nat
      /\ a[Len(q) + 1] = event /\ \A i \in 1..Len(q) : a[i] = q[i]
  OBVIOUS
<1> HIDE DEF a
<1>2. Queued(a, kind) <=> Queued(q, kind) \/ Kind(event) = kind
  <2>1. Queued(a, kind) => Queued(q, kind) \/ Kind(event) = kind
    BY <1>1 DEF Queued
  <2>2. Queued(q, kind) => Queued(a, kind)
    <3>1. \A i \in 1..Len(q) : i \in 1..Len(a)
      BY <1>1
    <3> QED BY <1>1, <3>1, Zenon DEF Queued
  <2>3. Kind(event) = kind => Queued(a, kind)
    <3>1. Len(q) + 1 \in 1..Len(a)
      BY <1>1
    <3> QED BY <1>1, <3>1, Zenon DEF Queued
  <2> QED BY <2>1, <2>2, <2>3
<1>3. ASSUME Kind(event) # "udc", Latest(q, r),
             NEW i \in 1..Len(a), Kind(a[i]) = "udc",
             \A j \in (i + 1)..Len(a) : Kind(a[j]) # "udc"
      PROVE  a[i] = "add" <=> r = "device"
  <2>1. i \in 1..Len(q) /\ a[i] = q[i]
    BY <1>1, <1>3
  <2>2. \A j \in (i + 1)..Len(q) : Kind(q[j]) # "udc"
    <3> TAKE j \in (i + 1)..Len(q)
    <3>1. j \in (i + 1)..Len(a) /\ a[j] = q[j]
      BY <1>1
    <3> QED BY <1>3, <3>1
  <2> QED BY <1>3, <2>1, <2>2 DEF Latest
<1>4. ASSUME Kind(event) = "udc", event = "add" <=> r = "device",
             NEW i \in 1..Len(a), Kind(a[i]) = "udc",
             \A j \in (i + 1)..Len(a) : Kind(a[j]) # "udc"
      PROVE  a[i] = "add" <=> r = "device"
  <2>1. CASE i = Len(q) + 1
    BY <1>1, <1>4, <2>1
  <2>2. CASE i # Len(q) + 1
    <3>1. Len(q) + 1 \in (i + 1)..Len(a)
      BY <1>1, <2>2
    <3> QED BY <1>1, <1>4, <3>1
  <2> QED BY <2>1, <2>2
<1>5. /\ Kind(event) # "udc" /\ Latest(q, r) => Latest(a, r)
      /\ Kind(event) = "udc" /\ (event = "add" <=> r = "device") => Latest(a, r)
  BY <1>3, <1>4 DEF Latest
<1> QED BY <1>1, <1>2, <1>5 DEF a

(* A queue with no uevents.                                                *)
LEMMA EmptyQueue ==
    ASSUME NEW kind, NEW r
    PROVE  <<>> \in Seq(Events) /\ Len(<<>>) = 0 /\ ~Queued(<<>>, kind) /\ Latest(<<>>, r)
BY DEF Queued, Latest

(***************************************************************************)
(* The uevents of one kind, through each step that touches the queue.      *)
(***************************************************************************)
LEMMA TakeKeeps ==
    ASSUME QueueTyped, NEW event \in Events, Take(event), NEW kind, NEW r
    PROVE  /\ worker = "idle" /\ (worker' # "starting" => QueueTyped')
           /\ Kind(event) # kind => (Queued(queue', kind) <=> Queued(queue, kind))
           /\ Latest(queue, r) => Latest(queue', r)
           /\ Latest(queue, r) /\ Kind(event) = "udc" /\ ~Queued(queue', "udc")
                 => (event = "add" <=> r = "device")
<1>1. queue \in Seq(Events) /\ queue # <<>> /\ Head(queue) = event /\ queue' = Tail(queue)
  BY DEF QueueTyped, Take
<1>2. Len(Tail(queue)) = Len(queue) - 1 /\ Tail(queue) \in Seq(Events)
  BY <1>1, TailOfQueue
<1>3. worker = "idle" /\ (worker' # "starting" => QueueTyped')
  BY <1>1, <1>2, SourcesAssumption DEF QueueTyped, Take
<1> QED BY <1>1, <1>3, TailOfQueue

(* A change queues its uevent, or is missed.                               *)
LEMMA ChangesKeep ==
    ASSUME QueueTyped, NEW thing, NEW event \in Events, Changes(thing, event), NEW kind, NEW r
    PROVE  /\ QueueTyped'
           /\ UpToDate(kind)' => UpToDate(kind) /\ Kind(event) # kind
           /\ Latest(queue, r) /\ Kind(event) # "udc" => Latest(queue', r)
           /\ Kind(event) = "udc" /\ (event = "add" <=> r = "device") => Latest(queue', r)
<1>1. CASE worker = "starting"
  <2>1. queue = <<>> /\ queue' = <<>> /\ missed' = missed \cup {Kind(event)}
    BY <1>1 DEF Changes, QueueTyped
  <2> QED BY <2>1, EmptyQueue, SourcesAssumption DEF UpToDate, QueueTyped
<1>2. CASE worker # "starting"
  <2>1. /\ queue \in Seq(Events) /\ Len(queue) \in 0..MaxQueue /\ Len(queue) < MaxQueue
        /\ queue' = Append(queue, event) /\ missed' = missed /\ worker' = worker
    BY <1>2 DEF Changes, QueueTyped
  <2>2. Append(queue, event) \in Seq(Events) /\ Len(Append(queue, event)) = Len(queue) + 1
    BY <2>1, AppendToQueue
  <2>3. QueueTyped'
    BY <1>2, <2>1, <2>2, SourcesAssumption DEF QueueTyped
  <2> QED BY <2>1, <2>3, AppendToQueue DEF UpToDate
<1> QED BY <1>1, <1>2

(* A restart loses what is queued, and all of that is missed.              *)
LEMMA RestartKeeps ==
    ASSUME QueueTyped, Restart, NEW kind
    PROVE  /\ QueueTyped' /\ Latest(queue', role)
           /\ UpToDate(kind)' => UpToDate(kind)
<1>1. DOMAIN queue = 1..Len(queue)
  BY DEF QueueTyped
<1>2. \A i \in 1..Len(queue) : Kind(queue[i]) \in missed'
  BY <1>1 DEF Restart
<1>3. queue' = <<>> /\ missed \subseteq missed'
  BY DEF Restart
<1>4. QueueTyped' /\ Latest(queue', role)
  BY <1>3, EmptyQueue, SourcesAssumption DEF QueueTyped
<1>5. UpToDate(kind)' => UpToDate(kind)
  BY <1>2, <1>3 DEF UpToDate, Queued
<1> QED BY <1>4, <1>5

(***************************************************************************)
(* The types.                                                              *)
(***************************************************************************)
USE DEF thread, power, reports, udc, vars

(* The variables have their types at first.                                *)
LEMMA TypedInitial == Init => Typed
<1> SUFFICES ASSUME Init PROVE Typed
  OBVIOUS
<1>1. QueueTyped
  <2>1. queue = <<>>
    BY DEF Init
  <2> QED BY <2>1, EmptyQueue, SourcesAssumption DEF QueueTyped
<1>2. ThreadTyped
  <2>1. 0 \in 0..6 /\ ~(0 > 0)
    OBVIOUS
  <2> QED BY <2>1, Zenon DEF Init, ThreadTyped
<1>4. ChargerTyped
  <2>1. charger = [wet |-> FALSE, brick |-> FALSE] /\ seen = charger /\ overtaken = TRUE
        /\ refused = FALSE
    BY DEF Init
  <2>2. remembered \in [wet : BOOLEAN, brick : BOOLEAN]
    BY DEF Init
  <2>3. {charger, remembered, seen} \subseteq [wet : BOOLEAN, brick : BOOLEAN]
    BY <2>1, <2>2
  <2> QED BY <2>1, <2>3 DEF ChargerTyped
<1>5. UdcTyped
  BY DEF Init, UdcTyped
<1>3. PowerTyped
  BY DEF Init, PowerTyped, Own
<1> QED BY <1>1, <1>2, <1>3, <1>4, <1>5 DEF Typed

(* The queue keeps its type.                                               *)
LEMMA QueueTypedStep == QueueTyped /\ [Next]_vars => QueueTyped'
<1> SUFFICES ASSUME QueueTyped, [Next]_vars PROVE QueueTyped'
  OBVIOUS
<1>1. CASE Worker
  BY <1>1, TakeKeeps
  DEF Worker, HandleTypec, HandlePsy, HandleUdcAdd, HandleUdcRemove, Report, TryBind, Events, QueueTyped
<1>2. CASE Listen \/ Binder \/ ChangeAdbd \/ AdbdBinds \/ UNCHANGED vars
  BY <1>2 DEF Listen, Binder, ScanRole, SetAdb, FindPath, QueryPortStatus, ChangeAdbd, AdbdBinds, QueueTyped
<1>3. CASE ChangePower \/ ChangeCharger \/ ChangeRole
  BY <1>3, ChangesKeep DEF ChangePower, ChangeCharger, ChangeRole, Events
<1>4. CASE Restart
  BY <1>4, RestartKeeps
<1> QED BY <1>1, <1>2, <1>3, <1>4 DEF Next

(* The threads keep theirs.                                                *)
LEMMA ThreadTypedStep == QueueTyped /\ ThreadTyped /\ [Next]_vars => ThreadTyped'
<1> SUFFICES ASSUME QueueTyped, ThreadTyped, [Next]_vars PROVE ThreadTyped'
  OBVIOUS
<1> USE DEF ThreadTyped, Kinds
<1>1. CASE HandleTypec \/ HandlePsy
  BY <1>1 DEF HandleTypec, HandlePsy, Take
<1>2. CASE HandleUdcAdd
  BY <1>2 DEF HandleUdcAdd, Take
<1>3. CASE HandleUdcRemove
  BY <1>3 DEF HandleUdcRemove, Take
<1>4. CASE Report
  BY <1>4 DEF Report
<1>5. CASE TryBind
  <2>1. CASE tries = 1
    BY <1>5, <2>1 DEF TryBind
  <2>2. CASE tries # 1
    <3>1. tries - 1 \in 0..6 /\ tries - 1 > 0
      BY <1>5, <2>2 DEF TryBind
    <3> QED BY <1>5, <2>2, <3>1 DEF TryBind
  <2> QED BY <2>1, <2>2
<1>6. CASE Listen \/ Binder
  BY <1>6 DEF Listen, Binder, ScanRole, SetAdb, FindPath, QueryPortStatus
<1>7. CASE ChangePower \/ ChangeCharger \/ ChangeRole \/ ChangeAdbd \/ AdbdBinds \/ UNCHANGED vars
  BY <1>7 DEF ChangePower, ChangeCharger, ChangeRole, Changes, Kind, ChangeAdbd, AdbdBinds
<1>8. CASE Restart
  <2>1. \A event : event \in Events => Kind(event) \in {"typec", "psy", "udc"}
    BY DEF Kind, Events
  <2>2. \A i \in DOMAIN queue : queue[i] \in Events
    BY DEF QueueTyped
  <2>3. missed' \subseteq {"typec", "psy", "udc"}
    BY <1>8, <2>1, <2>2 DEF Restart
  <2>4. tries' = 0 /\ worker' = "starting" /\ binder' = "scan" /\ active' = active
    BY <1>8 DEF Restart
  <2> QED BY <2>3, <2>4
<1> QED BY <1>1, <1>2, <1>3, <1>4, <1>5, <1>6, <1>7, <1>8 DEF Next, Worker

(* The budget keeps its type.                                              *)
LEMMA PowerTypedStep == PowerTyped /\ [Next]_vars => PowerTyped'
<1> SUFFICES ASSUME PowerTyped, [Next]_vars PROVE PowerTyped'
  OBVIOUS
<1> USE DEF PowerTyped
<1>1. ASSUME NEW reads \in SUBSET Files, NEW works \in SUBSET Files, AdaptBudget(reads, works)
      PROVE  /\ gadget' \in [Files -> {"own", "pd"}] /\ saved' \in [Files -> {"", "own", "pd"}]
             /\ budgetLost' \in BOOLEAN /\ mPowerOpMode' \in {"", "default", "pd"}
  <2>1. CASE Contract(reads, works)
    BY <1>1, <2>1 DEF Contract, AdaptBudget
  <2>2. CASE Restore(works)
    BY <1>1, <2>2 DEF Restore, AdaptBudget
  <2>3. CASE UNCHANGED <<saved, gadget, budgetLost>>
    BY <1>1, <2>3 DEF AdaptBudget
  <2> QED BY <1>1, <2>1, <2>2, <2>3 DEF AdaptBudget
<1>2. CASE HandleTypec
  BY <1>1, <1>2 DEF HandleTypec
<1>3. CASE ChangePower \/ Restart
  BY <1>3 DEF ChangePower, Restart
<1>4. CASE UNCHANGED power
  BY <1>4
<1> QED BY <1>2, <1>3, <1>4
        DEF Next, Worker, Binder, HandlePsy, HandleUdcAdd, HandleUdcRemove, Report, TryBind, Listen,
            ScanRole, SetAdb, FindPath, QueryPortStatus, ChangeCharger, ChangeRole, ChangeAdbd, AdbdBinds

(* The charger keeps its type.                                             *)
LEMMA ChargerTypedStep == ChargerTyped /\ [Next]_vars => ChargerTyped'
<1> SUFFICES ASSUME ChargerTyped, [Next]_vars PROVE ChargerTyped'
  OBVIOUS
<1> USE DEF ChargerTyped
<1>1. CASE HandlePsy
  BY <1>1 DEF HandlePsy, Sample
<1>2. CASE Report \/ QueryPortStatus
  BY <1>2 DEF Report, QueryPortStatus, Tell
<1>3. CASE ChangeCharger \/ Restart
  BY <1>3 DEF ChangeCharger, Restart
<1>4. CASE UNCHANGED reports
  BY <1>4
<1> QED BY <1>1, <1>2, <1>3, <1>4
        DEF Next, Worker, Binder, HandleTypec, HandleUdcAdd, HandleUdcRemove, TryBind, Listen,
            ScanRole, SetAdb, FindPath, ChangePower, ChangeRole, ChangeAdbd, AdbdBinds

(* The gadget keeps its type.                                              *)
LEMMA UdcTypedStep == UdcTyped /\ ThreadTyped /\ [Next]_vars => UdcTyped'
<1> SUFFICES ASSUME UdcTyped, [Next]_vars PROVE UdcTyped'
  OBVIOUS
<1> USE DEF UdcTyped
<1>1. CASE HandleUdcAdd \/ HandleUdcRemove \/ TryBind
  BY <1>1 DEF HandleUdcAdd, HandleUdcRemove, TryBind
<1>2. CASE ScanRole \/ SetAdb \/ ChangeRole \/ ChangeAdbd \/ AdbdBinds \/ Restart
  BY <1>2 DEF ScanRole, SetAdb, ChangeRole, ChangeAdbd, AdbdBinds, Restart
<1>3. CASE UNCHANGED <<role, scanned, adbDisabled, adbRuns, bound, excused>>
  BY <1>3
<1> QED BY <1>1, <1>2, <1>3
        DEF Next, Worker, Binder, HandleTypec, HandlePsy, Report, Listen, FindPath, QueryPortStatus,
            ChangePower, ChangeCharger

(* Every step keeps the types.                                             *)
LEMMA TypedStep == Typed /\ [Next]_vars => Typed'
BY QueueTypedStep, ThreadTypedStep, PowerTypedStep, ChargerTypedStep, UdcTypedStep DEF Typed

(***************************************************************************)
(* The gadget's power budget.                                              *)
(***************************************************************************)
LEMMA PowerInitial == Init => PowerInv
BY DEF Init, PowerInv, Own, Files

(* Power delivery replaces the gadget's own values, and its end restores   *)
(* them, when every file is read and written.                              *)
LEMMA BudgetStep ==
    ASSUME PowerTyped, PowerInv, NEW reads \in SUBSET Files, NEW works \in SUBSET Files,
           AdaptBudget(reads, works), ~budgetLost', opMode' = opMode
    PROVE  IF mPowerOpMode' = "pd"
           THEN gadget' = [f \in Files |-> "pd"] /\ saved' = Own
           ELSE gadget' = Own /\ saved'["power"] = ""
<1> USE DEF Files
<1>1. CASE mPowerOpMode = opMode
  BY <1>1 DEF AdaptBudget, PowerInv
<1>2. CASE mPowerOpMode # opMode /\ opMode = "pd"
  <2>1. Contract(reads, works) /\ mPowerOpMode' = "pd" /\ mPowerOpMode # "pd"
    BY <1>2 DEF AdaptBudget
  <2>2. reads = Files /\ works = Files /\ ~budgetLost
    BY <2>1 DEF Contract
  <2>3. gadget = Own
    BY <2>1, <2>2 DEF PowerInv
  <2> QED BY <2>1, <2>2, <2>3 DEF Contract, Own
<1>3. CASE mPowerOpMode # opMode /\ opMode # "pd"
  <2>1. Restore(works) /\ mPowerOpMode' # "pd"
    BY <1>3 DEF AdaptBudget
  <2>2. CASE saved["power"] = ""
    <3>1. ~budgetLost /\ gadget' = gadget /\ saved' = saved
      BY <2>1, <2>2 DEF Restore
    <3>2. mPowerOpMode # "pd"
      BY <3>1, <2>2 DEF PowerInv, Own
    <3> QED BY <2>1, <2>2, <3>1, <3>2 DEF PowerInv
  <2>3. CASE saved["power"] # ""
    <3>1. ~budgetLost /\ works = Files
      BY <2>1, <2>3 DEF Restore
    <3>2. saved = Own
      BY <3>1, <2>3 DEF PowerInv
    <3>3. gadget' = [f \in Files |-> IF f \in Files /\ Own[f] # "" THEN Own[f] ELSE gadget[f]]
      BY <2>1, <2>3, <3>1, <3>2, Zenon DEF Restore
    <3>4. gadget' = Own
      BY <3>3 DEF Own
    <3>5. saved'["power"] = ""
      BY <2>1, <2>3 DEF Restore, PowerTyped
    <3> QED BY <2>1, <3>4, <3>5
  <2> QED BY <2>2, <2>3
<1> QED BY <1>1, <1>2, <1>3

(* Every step keeps the budget in accord with the mode.                    *)
LEMMA PowerStep == Typed /\ PowerInv /\ [Next]_vars => PowerInv'
<1> SUFFICES ASSUME Typed, PowerInv, [Next]_vars PROVE PowerInv'
  OBVIOUS
<1>1. CASE HandleTypec
  <2>1. ASSUME NEW reads \in SUBSET Files, NEW works \in SUBSET Files, AdaptBudget(reads, works)
        PROVE  PowerInv'
    <3>1. mPowerOpMode' = opMode'
      BY <1>1, <2>1 DEF HandleTypec, AdaptBudget
    <3> QED BY <1>1, <2>1, <3>1, BudgetStep DEF Typed, PowerInv, HandleTypec
  <2>2. ASSUME missed' = missed \cup {"typec"}, UNCHANGED <<mPowerOpMode, saved, gadget, budgetLost>>
        PROVE  PowerInv'
    BY <2>2 DEF PowerInv, UpToDate
  <2> QED BY <1>1, <2>1, <2>2 DEF HandleTypec
<1>2. CASE HandlePsy \/ HandleUdcAdd \/ HandleUdcRemove
  <2>1. UpToDate("typec")' => UpToDate("typec")
    <3>1. PICK event \in {"psy", "add", "remove"} : Take(event) /\ missed \ {"psy", "udc"} \subseteq missed'
      BY <1>2 DEF HandlePsy, HandleUdcAdd, HandleUdcRemove
    <3>2. Kind(event) # "typec" /\ event \in Events
      BY DEF Kind, Events
    <3>3. Queued(queue', "typec") <=> Queued(queue, "typec")
      BY <3>1, <3>2, TakeKeeps DEF Typed
    <3> QED BY <3>1, <3>3 DEF UpToDate
  <2>2. UNCHANGED power
    BY <1>2 DEF HandlePsy, HandleUdcAdd, HandleUdcRemove
  <2> QED BY <2>1, <2>2 DEF PowerInv
<1>3. CASE Report \/ TryBind \/ Listen \/ Binder \/ ChangeAdbd \/ AdbdBinds \/ UNCHANGED vars
  <2>1. UNCHANGED power /\ UNCHANGED queue /\ missed \subseteq missed'
    BY <1>3 DEF Report, TryBind, Listen, Binder, ScanRole, SetAdb, FindPath, QueryPortStatus,
                ChangeAdbd, AdbdBinds
  <2> QED BY <2>1 DEF PowerInv, UpToDate
<1>4. CASE ChangePower
  <2>1. ~UpToDate("typec")'
    BY <1>4, ChangesKeep DEF ChangePower, Typed, Events, Kind
  <2>2. UNCHANGED <<gadget, mPowerOpMode, saved, budgetLost>>
    BY <1>4 DEF ChangePower
  <2> QED BY <2>1, <2>2 DEF PowerInv
<1>5. CASE ChangeCharger \/ ChangeRole
  <2>1. UpToDate("typec")' => UpToDate("typec")
    BY <1>5, ChangesKeep DEF ChangeCharger, ChangeRole, Typed, Events
  <2>2. UNCHANGED power
    BY <1>5 DEF ChangeCharger, ChangeRole
  <2> QED BY <2>1, <2>2 DEF PowerInv
<1>6. CASE Restart
  <2>1. UpToDate("typec")' => UpToDate("typec")
    BY <1>6, RestartKeeps DEF Typed
  <2>2. ~budgetLost' => ~budgetLost /\ gadget = Own
    BY <1>6 DEF Restart
  <2>3. mPowerOpMode' = "" /\ saved'["power"] = "" /\ gadget' = gadget /\ opMode' = opMode
    BY <1>6 DEF Restart, Files
  <2>4. ~budgetLost' => mPowerOpMode # "pd"
    <3>1. Own # [f \in Files |-> "pd"]
      <4>1. Own["power"] = "own" /\ [f \in Files |-> "pd"]["power"] = "pd"
        BY DEF Own, Files
      <4> QED BY <4>1
    <3> QED BY <2>2, <3>1 DEF PowerInv
  <2>5. opMode \in {"default", "pd"}
    BY DEF Typed, PowerTyped
  <2> QED BY <2>1, <2>2, <2>3, <2>4, <2>5 DEF PowerInv
<1> QED BY <1>1, <1>2, <1>3, <1>4, <1>5, <1>6 DEF Next, Worker

(***************************************************************************)
(* What the framework knows of the charger.                                *)
(***************************************************************************)
LEMMA ChargerInitial == Init => ChargerInv
BY DEF Init, ChargerInv

(* Every step keeps the charger remembered and reported.                   *)
LEMMA ChargerStep == Typed /\ ChargerInv /\ [Next]_vars => ChargerInv'
<1> SUFFICES ASSUME Typed, ChargerInv, [Next]_vars PROVE ChargerInv'
  OBVIOUS
<1>1. CASE HandlePsy
  <2>1. binder = "done" => Sample = charger
    BY DEF Sample, Typed, ChargerTyped
  <2>2. worker' # "report" => Sample = remembered /\ worker # "report"
    BY <1>1 DEF HandlePsy, Take
  <2> QED BY <1>1, <2>1, <2>2 DEF HandlePsy, Take, ChargerInv
<1>2. CASE HandleTypec \/ HandleUdcAdd \/ HandleUdcRemove
  <2>1. UpToDate("psy")' => UpToDate("psy")
    <3>1. PICK event \in {"typec", "add", "remove"} : Take(event) /\ missed \ {"typec", "udc"} \subseteq missed'
      BY <1>2 DEF HandleTypec, HandleUdcAdd, HandleUdcRemove
    <3>2. Kind(event) # "psy" /\ event \in Events
      BY DEF Kind, Events
    <3>3. Queued(queue', "psy") <=> Queued(queue, "psy")
      BY <3>1, <3>2, TakeKeeps DEF Typed
    <3> QED BY <3>1, <3>3 DEF UpToDate
  <2>2. UNCHANGED <<reports, binder>> /\ worker # "report"
    BY <1>2 DEF HandleTypec, HandleUdcAdd, HandleUdcRemove, Take
  <2> QED BY <2>1, <2>2 DEF ChargerInv
<1>3. CASE Report \/ QueryPortStatus
  <2>1. ~overtaken' /\ ~refused' => seen' = remembered' /\ remembered' = charger' /\ binder' = "done"
    BY <1>3 DEF Report, QueryPortStatus, Tell
  <2> QED BY <2>1 DEF ChargerInv
<1>4. CASE TryBind \/ Listen \/ ScanRole \/ SetAdb \/ FindPath \/ ChangeAdbd \/ AdbdBinds \/ UNCHANGED vars
  <2>1. /\ UNCHANGED <<queue, reports>> /\ missed \subseteq missed'
        /\ worker = "report" => worker' = "report"
        /\ binder = "done" => binder' = "done"
    BY <1>4 DEF TryBind, Listen, ScanRole, SetAdb, FindPath, ChangeAdbd, AdbdBinds
  <2> QED BY <2>1 DEF ChargerInv, UpToDate
<1>5. CASE ChangeCharger
  <2>1. ~UpToDate("psy")'
    BY <1>5, ChangesKeep DEF ChangeCharger, Typed, Events, Kind
  <2>2. UNCHANGED <<remembered, seen, overtaken, refused, worker, binder>>
    BY <1>5 DEF ChangeCharger, Changes
  <2> QED BY <2>1, <2>2 DEF ChargerInv
<1>6. CASE ChangePower \/ ChangeRole
  <2>1. UpToDate("psy")' => UpToDate("psy")
    BY <1>6, ChangesKeep DEF ChangePower, ChangeRole, Typed, Events
  <2>2. UNCHANGED <<reports, worker, binder>>
    BY <1>6 DEF ChangePower, ChangeRole, Changes
  <2> QED BY <2>1, <2>2 DEF ChargerInv
<1>7. CASE Restart
  BY <1>7 DEF Restart, ChargerInv
<1> QED BY <1>1, <1>2, <1>3, <1>4, <1>5, <1>6, <1>7 DEF Next, Worker, Binder

(***************************************************************************)
(* ADB and the gadget, after the UDC.                                      *)
(***************************************************************************)
LEMMA UdcInitial == Init => UdcInv
BY EmptyQueue DEF Init, UdcInv

(* Every step keeps ADB and the gadget in accord with the role.            *)
LEMMA UdcStep == Typed /\ UdcInv /\ [Next]_vars => UdcInv'
<1> SUFFICES ASSUME Typed, UdcInv, [Next]_vars PROVE UdcInv'
  OBVIOUS
<1>1. CASE HandleUdcAdd
  <2>1. /\ Take("add") /\ role' = role /\ adbDisabled' = FALSE
        /\ worker' = "bind" \/ excused'
    BY <1>1 DEF HandleUdcAdd
  <2>2. "add" \in Events /\ Kind("add") = "udc"
    BY DEF Events, Kind
  <2>3. /\ Latest(queue', role)
        /\ UpToDate("udc")' => role = "device"
    BY <2>1, <2>2, TakeKeeps DEF Typed, UdcInv, UpToDate
  <2> QED BY <2>1, <2>3 DEF UdcInv
<1>2. CASE HandleUdcRemove
  <2>1. /\ Take("remove") /\ role' = role
        /\ adbDisabled' = (adbDisabled \/ role = "host")
    BY <1>2 DEF HandleUdcRemove
  <2>2. "remove" \in Events /\ Kind("remove") = "udc" /\ "remove" # "add"
    BY DEF Events, Kind
  <2>3. /\ Latest(queue', role)
        /\ UpToDate("udc")' => role # "device"
    BY <2>1, <2>2, TakeKeeps DEF Typed, UdcInv, UpToDate
  <2>4. role # "device" => role = "host" /\ adbDisabled' = TRUE
    BY <2>1 DEF Typed, UdcTyped
  <2> QED BY <2>1, <2>3, <2>4 DEF UdcInv
<1>3. CASE HandleTypec \/ HandlePsy
  <2>1. PICK event \in {"typec", "psy"} : Take(event) /\ missed \ {"typec", "psy"} \subseteq missed'
    BY <1>3 DEF HandleTypec, HandlePsy
  <2>2. Kind(event) # "udc" /\ event \in Events
    BY DEF Kind, Events
  <2>3. Latest(queue', role) /\ (Queued(queue', "udc") <=> Queued(queue, "udc"))
    BY <2>1, <2>2, TakeKeeps DEF Typed, UdcInv
  <2>4. UNCHANGED <<udc, binder>> /\ worker # "bind"
    BY <1>3, <2>1 DEF HandleTypec, HandlePsy, Take
  <2> QED BY <2>1, <2>3, <2>4 DEF UdcInv, UpToDate
<1>4. CASE TryBind
  <2>1. UNCHANGED <<queue, missed, binder, role, adbDisabled>>
    BY <1>4 DEF TryBind
  <2>2. bound' \/ excused' \/ worker' = "bind"
    BY <1>4 DEF TryBind
  <2> QED BY <2>1, <2>2 DEF UdcInv, UpToDate
<1>5. CASE SetAdb
  <2>1. /\ UNCHANGED <<queue, worker, role, bound, excused>> /\ missed \subseteq missed'
        /\ adbDisabled' <=> scanned = "host"
        /\ scanned # role => "udc" \in missed'
    BY <1>5 DEF SetAdb
  <2>2. UpToDate("udc")' => UpToDate("udc") /\ scanned = role
    BY <2>1 DEF UpToDate
  <2>3. Latest(queue', role')
    BY <2>1 DEF UdcInv
  <2>4. UpToDate("udc")' => (adbDisabled' <=> role' = "host")
    BY <2>1, <2>2
  <2>5. UpToDate("udc")' /\ role' = "device" => bound' \/ excused' \/ worker' = "bind"
    BY <2>1, <2>2 DEF UdcInv
  <2> QED BY <2>3, <2>4, <2>5 DEF UdcInv
<1>6. CASE ChangeRole
  <2> DEFINE event == IF role = "host" THEN "add" ELSE "remove"
  <2>1. /\ Changes("role", event) /\ event \in Events /\ Kind(event) = "udc"
        /\ event = "add" <=> role' = "device"
    BY <1>6 DEF ChangeRole, Events, Kind, Typed, UdcTyped
  <2> HIDE DEF event
  <2>2. Latest(queue', role') /\ ~UpToDate("udc")'
    BY <2>1, ChangesKeep DEF Typed
  <2> QED BY <2>2 DEF UdcInv
<1>7. CASE ChangePower \/ ChangeCharger
  <2>1. Latest(queue', role) /\ (UpToDate("udc")' => UpToDate("udc"))
    BY <1>7, ChangesKeep DEF ChangePower, ChangeCharger, Typed, UdcInv, Events, Kind
  <2>2. UNCHANGED <<udc, binder, worker>>
    BY <1>7 DEF ChangePower, ChangeCharger, Changes
  <2> QED BY <2>1, <2>2 DEF UdcInv
<1>8. CASE Restart
  <2>1. Latest(queue', role) /\ (UpToDate("udc")' => UpToDate("udc"))
    BY <1>8, RestartKeeps DEF Typed
  <2>2. /\ UNCHANGED <<role, bound>> /\ binder' = "scan"
        /\ excused' = (excused \/ worker = "bind")
    BY <1>8 DEF Restart
  <2> QED BY <2>1, <2>2 DEF UdcInv
<1>9. CASE Report \/ Listen \/ ScanRole \/ FindPath \/ QueryPortStatus \/ ChangeAdbd
           \/ AdbdBinds \/ UNCHANGED vars
  <2>1. /\ UNCHANGED <<queue, missed, role, adbDisabled, excused>>
        /\ bound => bound'
        /\ worker = "bind" => worker' = "bind"
        /\ binder' \in {"path", "done"} => binder \in {"path", "done"}
    BY <1>9 DEF Report, Listen, ScanRole, FindPath, QueryPortStatus, Tell, ChangeAdbd, AdbdBinds
  <2> QED BY <2>1 DEF UdcInv, UpToDate
<1> QED BY <1>1, <1>2, <1>3, <1>4, <1>5, <1>6, <1>7, <1>8, <1>9 DEF Next, Worker, Binder

(***************************************************************************)
(* The properties.                                                         *)
(***************************************************************************)
(* The invariant holds of every behaviour.                                 *)
THEOREM Invariant == Spec => []IInv
<1>1. Init => IInv
  BY TypedInitial, PowerInitial, ChargerInitial, UdcInitial DEF IInv
<1>2. IInv /\ [Next]_vars => IInv'
  BY TypedStep, PowerStep, ChargerStep, UdcStep DEF IInv
<1> QED BY <1>1, <1>2, PTL DEF Spec

(* Every value has its type, and the worker has tries left exactly while   *)
(* it is binding the gadget.                                               *)
THEOREM Typing == Spec => []TypeOK
<1>1. Typed => TypeOK
  <2> SUFFICES ASSUME Typed PROVE TypeOK
    OBVIOUS
  <2>1. queue \in Seq({"typec", "psy", "add", "remove"}) /\ Len(queue) <= MaxQueue
    BY SourcesAssumption DEF Typed, QueueTyped, Events
  <2> QED BY <2>1 DEF TypeOK, Typed, ThreadTyped, PowerTyped, ChargerTyped, UdcTyped, Kinds
<1> QED BY <1>1, Invariant, PTL DEF IInv

(* The gadget draws nothing under a contract, and has its own values back  *)
(* after the last, unless a file failed or the service died under one.     *)
THEOREM BudgetIsRestored == Spec => []BudgetRestored
<1>1. Typed /\ PowerInv => BudgetRestored
  <2> SUFFICES ASSUME Typed, PowerInv, Quiet, "typec" \notin missed, ~budgetLost
               PROVE  gadget = [f \in Files |-> IF opMode = "pd" THEN "pd" ELSE "own"]
    BY DEF BudgetRestored
  <2>1. UpToDate("typec")
    BY EmptyQueue DEF UpToDate, Quiet
  <2>2. CASE opMode = "pd"
    BY <2>1, <2>2 DEF PowerInv
  <2>3. CASE opMode # "pd"
    BY <2>1, <2>3 DEF PowerInv, Own
  <2> QED BY <2>2, <2>3
<1> QED BY <1>1, Invariant, PTL DEF IInv

(* Once every change of the charger is handled the framework knows what is *)
(* so, unless the last report was an ERROR or newer than what the worker   *)
(* had remembered.                                                         *)
THEOREM ChargerIsReported == Spec => []ChargerReported
<1>1. ChargerInv => ChargerReported
  BY EmptyQueue DEF ChargerInv, ChargerReported, Quiet, UpToDate
<1> QED BY <1>1, Invariant, PTL DEF IInv

(* ADB is stopped exactly while there is no UDC, and a UDC that came back  *)
(* has the gadget bound, unless that failed or was left to adbd.           *)
THEOREM GadgetFollowsTheUdc == Spec => []GadgetFollows
<1>1. UdcInv => GadgetFollows
  BY EmptyQueue DEF UdcInv, GadgetFollows, Quiet, UpToDate
<1> QED BY <1>1, Invariant, PTL DEF IInv
=============================================================================
