------------------------ MODULE UsbHostDevicesProofs ------------------------
(***************************************************************************)
(* Theorems about UsbHostDevices, for any paths, root hubs, kinds of       *)
(* devices and bounds on what happens.                                     *)
(*                                                                         *)
(* What the worker does of a device is right as of some earlier state; it  *)
(* is right at last because every uevent it has not handled is still in    *)
(* the queue.  The invariants say, of each thing that may be wrong, which  *)
(* uevent is waiting that will put it right.  One that waits behind the    *)
(* removal of its device's successor counts for nothing: Waiting() asks    *)
(* that no removal follow it.                                              *)
(***************************************************************************)
EXTENDS UsbHostDevices, TLAPS

Add(p) == Event("add", p)
Bind(p, i) == [type |-> "bind", path |-> p, intf |-> i]

PathEvents == [type : {"add", "remove", "change"}, path : Paths]
Binds == [type : {"bind"}, path : Paths, intf : Nat \ {0}]
Backlights == [type : {"backlight"}]
Events == PathEvents \cup Binds \cup Backlights

RemovedAfter(q, k, p) == \E j \in (k + 1)..Len(q) : q[j].type = "remove" /\ q[j].path = p

(* A removal of the path is on its way.                                    *)
Removing(q, p) == RemovedAfter(q, 0, p)

(* The uevent is, and its device is still the same when it is handled.     *)
Waiting(q, e) == \E k \in 1..Len(q) : q[k] = e /\ ~RemovedAfter(q, k, e.path)

(* The display changed, and the worker is going to look.                   *)
Blinking(q) == \E k \in 1..Len(q) : q[k].type = "backlight"

(* A device of the root hub goes.                                          *)
Leaving(q, b) == \E k \in 1..Len(q) : q[k].type = "remove" /\ BusOf[q[k].path] = b

(***************************************************************************)
(* The types.                                                              *)
(***************************************************************************)
DeviceTyped ==
    /\ device \in [Paths -> Seq(Classes)] /\ added \in [Paths -> Nat]
    /\ \A p \in Paths : device[p] \in Kinds[p] \cup {<<>>} /\ added[p] <= Len(device[p])
    /\ \A p \in Paths : device[p] # <<>> /\ Parent[p] \in Paths => device[Parent[p]] = Hub
    /\ \A p \in Paths : ~authorized[p] => added[p] = 0

PowerTyped ==
    /\ delay \in [Paths -> {"default", "3000", "60000"}]
    /\ control \in [Paths -> {"on", "auto"}]
    /\ authorized \in [Buses \cup Paths -> BOOLEAN] /\ displayOn \in BOOLEAN

QueueTyped ==
    /\ queue \in Seq(Events)
    /\ ~Listening => queue = <<>>

Suspends == {"nothing", "auto", "60000"}

WorkerTyped ==
    /\ worker \in {"none", "starting", "polling", "add", "bind", "remove", "change", "backlight"}
    /\ worker \in {"add", "bind", "remove", "change", "backlight"}
          => queue # <<>> /\ Head(queue).type = worker
    /\ plan \in {"nothing", "auto", "3000", "60000", "authorize"}
    /\ worker \in {"add", "bind"} => plan \in Suspends
    /\ worker = "backlight" => plan \in {"3000", "60000"}

SessionTyped ==
    /\ binder \in {"idle", "scanning", "writing"} /\ toScan \subseteq Paths
    /\ scan = NoScan \/ scan \in [plan : Suspends, path : Paths]
    /\ mIgnoreWakeup \in BOOLEAN

ListsTyped ==
    /\ hidDevs \subseteq Paths /\ usbResetRecov \in BOOLEAN
    /\ missed \subseteq Paths /\ unseen \subseteq missed
    /\ overslept \in BOOLEAN /\ strayed \subseteq Buses

Typed == DeviceTyped /\ PowerTyped /\ QueueTyped /\ WorkerTyped /\ SessionTyped /\ ListsTyped

(***************************************************************************)
(* The inductive invariant.                                                *)
(***************************************************************************)
(* A uevent that counts is about what is there, and behind a removal all   *)
(* that is there now has its uevents.                                      *)
FreshAt(p) ==
    /\ Waiting(queue, Add(p)) => device[p] # <<>>
    /\ \A i \in Nat \ {0} : Waiting(queue, Bind(p, i)) => i <= added[p] \/ ~authorized[p]
    /\ Removing(queue, p) => /\ device[p] # <<>> => Waiting(queue, Add(p))
                             /\ \A i \in 1..added[p] : Waiting(queue, Bind(p, i))

Fresh == \A p \in Paths : FreshAt(p)

(* What usbResetRecov stands for: a root hub that waits for its devices to *)
(* go, or for the first of their removals.                                 *)
Awaited(b) ==
    /\ usbResetRecov
    /\ \/ worker = "change" /\ Parent[Head(queue).path] = b /\ device[Head(queue).path] # <<>>
       \/ Leaving(queue, b)
       \/ \E p \in missed : BusOf[p] = b

HubExplained(b) ==
    \/ authorized[b] \/ b \in strayed \/ Awaited(b)
    \/ worker = "remove" /\ plan = "authorize" /\ BusOf[Head(queue).path] = b

RecoveryInv ==
    /\ worker = "remove" => ~usbResetRecov
    /\ \A b \in Buses : HubExplained(b)

(* A device that belongs on the list is on it, or the uevent of its first  *)
(* interface is waiting; one that does not belong there is about to leave. *)
ListedRight(p) ==
    /\ p \notin missed /\ HidOnly(p) => Waiting(queue, Bind(p, 1)) \/ p \in hidDevs
    /\ p \in hidDevs \ missed => Removing(queue, p) \/ (added[p] > 0 /\ device[p][1] = "hid")

ListInv == \A p \in Paths : ListedRight(p)

(* With the display on a short delay is always about to be made good: the  *)
(* display's uevent is waiting, or the removal of the device.              *)
PatientAt(p) ==
    displayOn /\ ~overslept /\ p \in hidDevs \ missed =>
        delay[p] = "60000" \/ Removing(queue, p) \/ Blinking(queue)

PlanPatient ==
    displayOn =>
        /\ worker = "bind" /\ HidOnly(Head(queue).path) =>
              plan = "60000" \/ Removing(queue, Head(queue).path) \/ Blinking(queue)
        /\ worker = "backlight" /\ plan # "60000" => Blinking(Tail(queue))

PatienceInv == PlanPatient /\ \A p \in Paths : PatientAt(p)

(* What may suspend does, or its uevent is waiting, or the scan is about   *)
(* to let it.                                                              *)
Suspendable == {"hid", "audio", "hub"}

Scanned(p) == binder = "writing" /\ scan # NoScan /\ scan.path = p /\ scan.plan # "nothing"

SuspendsAt(p) ==
    p \notin unseen =>
        /\ \A i \in 1..added[p] : device[p][i] \in Suspendable =>
              control[p] = "auto" \/ Waiting(queue, Bind(p, i)) \/ Scanned(p)
        /\ device[p] = <<"adapter">> => control[p] = "auto" \/ Waiting(queue, Add(p))

PlanSuspends ==
    /\ worker = "bind" =>
          LET e == Head(queue)
          IN e.intf <= added[e.path] /\ device[e.path][e.intf] \in Suspendable =>
                plan # "nothing" \/ Removing(queue, e.path)
    /\ worker = "add" /\ device[Head(queue).path] = <<"adapter">> =>
          plan # "nothing" \/ Removing(queue, Head(queue).path)

SuspendInv == PlanSuspends /\ \A p \in Paths : SuspendsAt(p)

IInv == Typed /\ Fresh /\ RecoveryInv /\ ListInv /\ PatienceInv /\ SuspendInv

(***************************************************************************)
(* The worker's queue.                                                     *)
(***************************************************************************)
(* Every uevent but the display's has a path.                              *)
LEMMA EventsTyped ==
    ASSUME NEW e \in Events
    PROVE  /\ e.type \in {"add", "remove", "change", "bind", "backlight"}
           /\ e.type # "backlight" => e.path \in Paths
           /\ e.type = "add" => e = Add(e.path)
           /\ e.type = "bind" => e.intf \in Nat \ {0} /\ e = Bind(e.path, e.intf)
<1>1. CASE e \in PathEvents
  <2>1. e.type \in {"add", "remove", "change"} /\ e.path \in Paths /\ e = [type |-> e.type, path |-> e.path]
    BY <1>1 DEF PathEvents
  <2> QED BY <2>1 DEF Add, Event
<1>2. CASE e \in Binds
  <2>1. e.type = "bind" /\ e.path \in Paths /\ e.intf \in Nat \ {0}
    BY <1>2 DEF Binds
  <2>2. e = [type |-> "bind", path |-> e.path, intf |-> e.intf]
    BY <1>2 DEF Binds
  <2> QED BY <2>1, <2>2 DEF Bind
<1>3. CASE e \in Backlights
  BY <1>3 DEF Backlights
<1> QED BY <1>1, <1>2, <1>3 DEF Events

(* The uevents the kernel sends.                                           *)
LEMMA EventsMade ==
    ASSUME NEW p \in Paths
    PROVE  /\ \A t \in {"add", "remove", "change"} :
                 Event(t, p) \in Events /\ Event(t, p).type = t /\ Event(t, p).path = p
           /\ \A i \in Nat \ {0} :
                 /\ Bind(p, i) \in Events /\ Bind(p, i).type = "bind"
                 /\ Bind(p, i).path = p /\ Bind(p, i).intf = i
           /\ [type |-> "backlight"] \in Events
BY DEF Event, Bind, Events, PathEvents, Binds, Backlights

(* What taking the first of the uevents leaves.                            *)
LEMMA TailOfQueue ==
    ASSUME NEW q \in Seq(Events), q # <<>>
    PROVE  /\ Tail(q) \in Seq(Events) /\ Head(q) \in Events
           /\ \A p : /\ Removing(Tail(q), p) => Removing(q, p)
                     /\ Removing(q, p) => \/ Removing(Tail(q), p)
                                          \/ Head(q).type = "remove" /\ Head(q).path = p
           /\ \A e : /\ Waiting(Tail(q), e) => Waiting(q, e)
                     /\ Waiting(q, e) => \/ Waiting(Tail(q), e)
                                         \/ e = Head(q) /\ ~Removing(Tail(q), e.path)
           /\ Waiting(q, Head(q)) \/ Removing(Tail(q), Head(q).path)
           /\ Blinking(Tail(q)) => Blinking(q)
           /\ Blinking(q) => Blinking(Tail(q)) \/ Head(q).type = "backlight"
           /\ \A b : /\ Leaving(Tail(q), b) => Leaving(q, b)
                     /\ Leaving(q, b) => \/ Leaving(Tail(q), b)
                                         \/ Head(q).type = "remove" /\ BusOf[Head(q).path] = b
<1>1. Tail(q) \in Seq(Events) /\ Len(Tail(q)) = Len(q) - 1 /\ Len(q) \in Nat \ {0}
  OBVIOUS
<1>2. Head(q) = q[1] /\ Head(q) \in Events /\ \A i \in 1..Len(Tail(q)) : Tail(q)[i] = q[i + 1]
  OBVIOUS
<1>3. \A i \in 1..Len(Tail(q)) : i + 1 \in 1..Len(q) /\ q[i + 1] = Tail(q)[i]
  BY <1>1, <1>2
<1>4. \A i \in 1..Len(q) : i = 1 \/ (i - 1 \in 1..Len(Tail(q)) /\ Tail(q)[i - 1] = q[i])
  <2> TAKE i \in 1..Len(q)
  <2>1. i # 1 => i - 1 \in 1..Len(Tail(q)) /\ (i - 1) + 1 = i
    BY <1>1
  <2> QED BY <1>2, <2>1
<1>5. ASSUME NEW k \in Nat, NEW p
      PROVE  RemovedAfter(Tail(q), k, p) <=> RemovedAfter(q, k + 1, p)
  <2>1. ASSUME NEW j \in (k + 1)..Len(Tail(q))
        PROVE  j + 1 \in ((k + 1) + 1)..Len(q) /\ q[j + 1] = Tail(q)[j]
    BY <1>1, <1>2
  <2>2. ASSUME NEW j \in ((k + 1) + 1)..Len(q)
        PROVE  j - 1 \in (k + 1)..Len(Tail(q)) /\ Tail(q)[j - 1] = q[j]
    <3>1. j - 1 \in (k + 1)..Len(Tail(q)) /\ j - 1 \in 1..Len(Tail(q)) /\ (j - 1) + 1 = j
      BY <1>1
    <3> QED BY <1>2, <3>1
  <2> QED BY <2>1, <2>2 DEF RemovedAfter
<1>6. ASSUME NEW p
      PROVE  /\ Removing(Tail(q), p) => Removing(q, p)
             /\ Removing(q, p) => \/ Removing(Tail(q), p)
                                  \/ Head(q).type = "remove" /\ Head(q).path = p
  <2>1. Removing(Tail(q), p) <=> RemovedAfter(q, 1, p)
    BY <1>5 DEF Removing
  <2>2. RemovedAfter(q, 1, p) => RemovedAfter(q, 0, p)
    BY <1>1 DEF RemovedAfter
  <2>3. RemovedAfter(q, 0, p) => RemovedAfter(q, 1, p) \/ (q[1].type = "remove" /\ q[1].path = p)
    BY <1>1 DEF RemovedAfter
  <2> QED BY <1>2, <2>1, <2>2, <2>3 DEF Removing
<1>7. ASSUME NEW e
      PROVE  /\ Waiting(Tail(q), e) => Waiting(q, e)
             /\ Waiting(q, e) => \/ Waiting(Tail(q), e)
                                 \/ e = Head(q) /\ ~Removing(Tail(q), e.path)
  <2>1. ASSUME NEW k \in 1..Len(Tail(q)), Tail(q)[k] = e, ~RemovedAfter(Tail(q), k, e.path)
        PROVE  Waiting(q, e)
    <3>1. k + 1 \in 1..Len(q) /\ q[k + 1] = e /\ ~RemovedAfter(q, k + 1, e.path)
      BY <1>3, <1>5, <2>1
    <3> QED BY <3>1 DEF Waiting
  <2>2. ASSUME NEW k \in 1..Len(q), q[k] = e, ~RemovedAfter(q, k, e.path)
        PROVE  Waiting(Tail(q), e) \/ (e = Head(q) /\ ~Removing(Tail(q), e.path))
    <3>1. CASE k = 1
      BY <1>2, <1>5, <2>2, <3>1 DEF Removing
    <3>2. CASE k # 1
      <4>1. k - 1 \in 1..Len(Tail(q)) /\ Tail(q)[k - 1] = e /\ k - 1 \in Nat /\ (k - 1) + 1 = k
        BY <1>4, <2>2, <3>2
      <4>2. ~RemovedAfter(Tail(q), k - 1, e.path)
        BY <1>5, <2>2, <4>1
      <4> QED BY <4>1, <4>2 DEF Waiting
    <3> QED BY <3>1, <3>2
  <2> QED BY <2>1, <2>2 DEF Waiting
<1>8. Waiting(q, Head(q)) \/ Removing(Tail(q), Head(q).path)
  <2>1. Removing(Tail(q), Head(q).path) <=> RemovedAfter(q, 1, Head(q).path)
    BY <1>5 DEF Removing
  <2> QED BY <1>1, <1>2, <2>1 DEF Waiting
<1>9. (Blinking(Tail(q)) => Blinking(q)) /\ (Blinking(q) => Blinking(Tail(q)) \/ Head(q).type = "backlight")
  BY <1>2, <1>3, <1>4 DEF Blinking
<1>10. ASSUME NEW b
       PROVE  /\ Leaving(Tail(q), b) => Leaving(q, b)
              /\ Leaving(q, b) => \/ Leaving(Tail(q), b)
                                  \/ Head(q).type = "remove" /\ BusOf[Head(q).path] = b
  BY <1>2, <1>3, <1>4 DEF Leaving
<1> QED BY <1>1, <1>2, <1>6, <1>7, <1>8, <1>9, <1>10

(* What one more uevent makes of it.                                       *)
LEMMA AppendToQueue ==
    ASSUME NEW q \in Seq(Events), NEW e \in Events
    PROVE  /\ Append(q, e) \in Seq(Events) /\ Append(q, e) # <<>>
           /\ q # <<>> => Head(Append(q, e)) = Head(q) /\ Tail(Append(q, e)) = Append(Tail(q), e)
           /\ \A p : Removing(Append(q, e), p) <=>
                        Removing(q, p) \/ (e.type = "remove" /\ e.path = p)
           /\ \A f : Waiting(Append(q, e), f) <=>
                        \/ f = e
                        \/ Waiting(q, f) /\ ~(e.type = "remove" /\ e.path = f.path)
           /\ Blinking(Append(q, e)) <=> Blinking(q) \/ e.type = "backlight"
           /\ \A b : Leaving(Append(q, e), b) <=>
                        Leaving(q, b) \/ (e.type = "remove" /\ BusOf[e.path] = b)
<1> DEFINE a == Append(q, e)
<1>1. /\ a \in Seq(Events) /\ Len(a) = Len(q) + 1 /\ Len(q) \in Nat /\ a # <<>>
      /\ a[Len(q) + 1] = e /\ \A i \in 1..Len(q) : a[i] = q[i]
  OBVIOUS
<1>2. q # <<>> => Head(a) = Head(q) /\ Tail(a) = Append(Tail(q), e)
  OBVIOUS
<1> HIDE DEF a
<1>3. /\ Len(q) + 1 \in 1..Len(a) /\ a[Len(q) + 1] = e
      /\ \A i \in 1..Len(q) : i \in 1..Len(a) /\ a[i] = q[i]
      /\ \A i \in 1..Len(a) : i = Len(q) + 1 \/ i \in 1..Len(q)
  BY <1>1
<1>4. ASSUME NEW k \in 0..Len(q), NEW p
      PROVE  RemovedAfter(a, k, p) <=> RemovedAfter(q, k, p) \/ (e.type = "remove" /\ e.path = p)
  <2>1. /\ Len(q) + 1 \in (k + 1)..Len(a)
        /\ \A i \in (k + 1)..Len(q) : i \in (k + 1)..Len(a) /\ a[i] = q[i]
        /\ \A i \in (k + 1)..Len(a) : i = Len(q) + 1 \/ i \in (k + 1)..Len(q)
    BY <1>1
  <2> QED BY <1>3, <2>1, Zenon DEF RemovedAfter
<1>5. \A p : Removing(a, p) <=> Removing(q, p) \/ (e.type = "remove" /\ e.path = p)
  BY <1>1, <1>4 DEF Removing
<1>6. ASSUME NEW f
      PROVE  Waiting(a, f) <=> f = e \/ (Waiting(q, f) /\ ~(e.type = "remove" /\ e.path = f.path))
  <2>1. ~RemovedAfter(a, Len(q) + 1, f.path)
    BY <1>1 DEF RemovedAfter
  <2>2. f = e => Waiting(a, f)
    BY <1>3, <2>1, Zenon DEF Waiting
  <2>3. \A k \in 1..Len(q) : k \in 0..Len(q)
    BY <1>1
  <2>4. ASSUME NEW k \in 1..Len(q), q[k] = f, ~RemovedAfter(q, k, f.path),
               ~(e.type = "remove" /\ e.path = f.path)
        PROVE  Waiting(a, f)
    <3>1. k \in 1..Len(a) /\ a[k] = f /\ ~RemovedAfter(a, k, f.path)
      BY <1>3, <1>4, <2>3, <2>4
    <3> QED BY <3>1, Zenon DEF Waiting
  <2>5. ASSUME NEW k \in 1..Len(a), a[k] = f, ~RemovedAfter(a, k, f.path), f # e
        PROVE  Waiting(q, f) /\ ~(e.type = "remove" /\ e.path = f.path)
    <3>1. k \in 1..Len(q) /\ q[k] = f
      BY <1>3, <2>5
    <3>2. ~RemovedAfter(q, k, f.path) /\ ~(e.type = "remove" /\ e.path = f.path)
      BY <1>4, <2>3, <2>5, <3>1
    <3> QED BY <3>1, <3>2, Zenon DEF Waiting
  <2> QED BY <2>2, <2>4, <2>5 DEF Waiting
<1>7. Blinking(a) <=> Blinking(q) \/ e.type = "backlight"
  BY <1>3, Zenon DEF Blinking
<1>8. \A b : Leaving(a, b) <=> Leaving(q, b) \/ (e.type = "remove" /\ BusOf[e.path] = b)
  BY <1>3, Zenon DEF Leaving
<1> QED BY <1>1, <1>2, <1>5, <1>6, <1>7, <1>8 DEF a

(* A queue with no uevents.                                                *)
LEMMA EmptyQueue ==
    /\ <<>> \in Seq(Events) /\ ~Blinking(<<>>)
    /\ \A p : ~Removing(<<>>, p)
    /\ \A e : ~Waiting(<<>>, e)
    /\ \A b : ~Leaving(<<>>, b)
BY DEF Blinking, Removing, RemovedAfter, Waiting, Leaving

(* What a uevent of a device does to it, and to the history if none hears. *)
LEMMA EmitKeeps ==
    ASSUME QueueTyped, NEW e \in Events, e.type # "backlight", NEW p, Emit(e, p), worker' = worker
    PROVE  /\ QueueTyped'
           /\ queue # <<>> => /\ queue' # <<>> /\ Head(queue') = Head(queue)
                              /\ Blinking(Tail(queue)) => Blinking(Tail(queue'))
           /\ \A r : Removing(queue', r) <=>
                        Removing(queue, r) \/ (Listening /\ e.type = "remove" /\ e.path = r)
           /\ \A f : Waiting(queue', f) <=>
                        \/ Listening /\ f = e
                        \/ Waiting(queue, f) /\ ~(e.type = "remove" /\ e.path = f.path)
           /\ Blinking(queue') <=> Blinking(queue)
           /\ \A b : Leaving(queue', b) <=>
                        Leaving(queue, b) \/ (Listening /\ e.type = "remove" /\ BusOf[e.path] = b)
           /\ overslept' = overslept /\ strayed' = strayed
           /\ IF Listening THEN missed' = missed /\ unseen' = unseen
              ELSE /\ missed' = missed \cup {p} /\ unseen' = unseen \cup {p}
                   /\ queue = <<>> /\ queue' = <<>>
<1>1. CASE Listening
  <2>1. queue \in Seq(Events) /\ queue' = Append(queue, e) /\ UNCHANGED history
    BY <1>1 DEF QueueTyped, Emit
  <2>2. queue' \in Seq(Events) /\ queue' # <<>>
    BY <2>1, AppendToQueue
  <2>3. QueueTyped'
    BY <1>1, <2>2 DEF QueueTyped, Listening
  <2>4. queue # <<>> /\ Blinking(Tail(queue)) => Blinking(Append(Tail(queue), e))
    BY <2>1, TailOfQueue, AppendToQueue
  <2>5. queue # <<>> => Head(queue') = Head(queue) /\ Tail(queue') = Append(Tail(queue), e)
    BY <2>1, AppendToQueue
  <2>6. overslept' = overslept /\ strayed' = strayed /\ missed' = missed /\ unseen' = unseen
    BY <2>1 DEF history
  <2>7. \A f : Waiting(queue', f) <=>
           f = e \/ (Waiting(queue, f) /\ ~(e.type = "remove" /\ e.path = f.path))
    BY <2>1, AppendToQueue
  <2>8. /\ \A r : Removing(queue', r) <=> Removing(queue, r) \/ (e.type = "remove" /\ e.path = r)
        /\ Blinking(queue') <=> Blinking(queue)
        /\ \A b : Leaving(queue', b) <=> Leaving(queue, b) \/ (e.type = "remove" /\ BusOf[e.path] = b)
    BY <2>1, AppendToQueue
  <2> QED BY <1>1, <2>2, <2>3, <2>4, <2>5, <2>6, <2>7, <2>8, Zenon
<1>2. CASE ~Listening
  <2>1. queue = <<>> /\ queue' = <<>> /\ QueueTyped'
    BY <1>2 DEF QueueTyped, Emit, Listening
  <2> QED BY <1>2, <2>1, EmptyQueue DEF Emit
<1> QED BY <1>1, <1>2

(* The worker's uevents are still there, until it is done with the first.  *)
LEMMA TakeKeeps ==
    ASSUME QueueTyped, queue # <<>>, queue' = Tail(queue), worker' = "polling"
    PROVE  QueueTyped'
BY TailOfQueue DEF QueueTyped, Listening

(***************************************************************************)
(* The types.                                                              *)
(***************************************************************************)
USE DEF kernel, usb, history, session, vars

(* The worker is busy with the first of the uevents.                       *)
LEMMA Busy ==
    ASSUME QueueTyped, WorkerTyped, worker \in {"add", "bind", "remove", "change", "backlight"}
    PROVE  /\ queue # <<>> /\ queue \in Seq(Events) /\ Head(queue) \in Events
           /\ Head(queue).type = worker
           /\ worker # "backlight" => Head(queue).path \in Paths
           /\ worker = "bind" => Head(queue).intf \in Nat \ {0}
<1>1. queue # <<>> /\ queue \in Seq(Events) /\ Head(queue).type = worker
  BY DEF QueueTyped, WorkerTyped
<1>2. Head(queue) \in Events
  BY <1>1, TailOfQueue
<1> QED BY <1>1, <1>2, EventsTyped

(* As when it begins.                                                      *)
LEMMA About ==
    ASSUME QueueTyped, NEW t, Handles(t)
    PROVE  /\ queue # <<>> /\ queue \in Seq(Events) /\ Head(queue) \in Events
           /\ worker = "polling" /\ Head(queue).type = t
           /\ t # "backlight" => Head(queue).path \in Paths
           /\ t = "bind" => /\ Head(queue).intf \in Nat \ {0}
                            /\ Head(queue) = Bind(Head(queue).path, Head(queue).intf)
           /\ t = "add" => Head(queue) = Add(Head(queue).path)
<1>1. queue # <<>> /\ queue \in Seq(Events) /\ Head(queue).type = t /\ worker = "polling"
  BY DEF QueueTyped, Handles
<1>2. Head(queue) \in Events
  BY <1>1, TailOfQueue
<1> QED BY <1>1, <1>2, EventsTyped

(* A reset takes the authorization of one hub, and with it the interface   *)
(* of the hub if it is a device.                                           *)
LEMMA Unauthorizes ==
    ASSUME Typed, HandleChange
    PROVE  /\ added' \in [Paths -> Nat] /\ authorized' \in [Buses \cup Paths -> BOOLEAN]
           /\ \A p \in Paths : \/ added'[p] = added[p] /\ authorized'[p] = authorized[p]
                               \/ added'[p] = 0 /\ ~authorized'[p] /\ device[p] = Hub
           /\ \A b \in Buses :
                 \/ authorized'[b] = authorized[b]
                 \/ device[Head(queue).path] # <<>> /\ b = Parent[Head(queue).path]
<1> DEFINE r == Head(queue).path
<1>1. r \in Paths
  BY About DEF HandleChange, Typed
<1>2. /\ added \in [Paths -> Nat] /\ authorized \in [Buses \cup Paths -> BOOLEAN]
      /\ device[r] # <<>> /\ Parent[r] \in Paths => device[Parent[r]] = Hub
  BY <1>1 DEF Typed, DeviceTyped, PowerTyped
<1>3. Parent[r] \in Buses \cup Paths
  BY <1>1, BusAssumption, ParentAssumption
<1>4. Unauthorize(r)
  BY DEF HandleChange
<1> HIDE DEF r
<1>5. CASE device[r] = <<>>
  BY <1>2, <1>4, <1>5 DEF Unauthorize
<1>6. CASE device[r] # <<>>
  <2>1. /\ authorized' = [authorized EXCEPT ![Parent[r]] = FALSE]
        /\ added' = [q \in Paths |-> IF q = Parent[r] THEN 0 ELSE added[q]]
    BY <1>4, <1>6 DEF Unauthorize
  <2>2. /\ added' \in [Paths -> Nat] /\ authorized' \in [Buses \cup Paths -> BOOLEAN]
        /\ \A b \in Buses \cup Paths : b # Parent[r] => authorized'[b] = authorized[b]
        /\ ~authorized'[Parent[r]]
    BY <1>2, <1>3, <2>1
  <2>3. \A p \in Paths : p # Parent[r] => added'[p] = added[p]
    BY <2>1
  <2>4. \A p \in Paths : p = Parent[r] => added'[p] = 0 /\ device[p] = Hub
    BY <1>2, <1>6, <2>1
  <2> QED BY <1>6, <2>2, <2>3, <2>4 DEF r
<1> QED BY <1>5, <1>6 DEF r

(* The recovery gives authorization to root hubs only.                     *)
LEMMA Authorizes ==
    ASSUME Typed, FinishRemove, NEW p \in Paths
    PROVE  authorized'[p] = authorized[p]
<1>1. Head(queue).path \in Paths
  BY Busy DEF FinishRemove, Typed
<1>2. BusOf[Head(queue).path] # p
  BY <1>1, BusAssumption
<1> QED BY <1>2 DEF FinishRemove, Typed, PowerTyped

(* The variables have their types at first.                                *)
LEMMA TypedInitial == Init => Typed
<1> SUFFICES ASSUME Init PROVE Typed
  OBVIOUS
<1>1. DeviceTyped
  <2>1. <<>> \in Seq(Classes) /\ Len(<<>>) = 0
    OBVIOUS
  <2> QED BY <2>1 DEF Init, DeviceTyped
<1>2. PowerTyped
  BY DEF Init, PowerTyped
<1>3. QueueTyped
  BY EmptyQueue DEF Init, QueueTyped
<1>4. WorkerTyped
  BY DEF Init, WorkerTyped
<1>5. SessionTyped
  BY DEF Init, SessionTyped
<1>6. ListsTyped
  BY DEF Init, ListsTyped
<1> QED BY <1>1, <1>2, <1>3, <1>4, <1>5, <1>6 DEF Typed

(* A path has a kind of its own or nothing, and never too many interfaces. *)
LEMMA DeviceTypedStep == Typed /\ [Next]_vars => DeviceTyped'
<1> SUFFICES ASSUME Typed, [Next]_vars PROVE DeviceTyped'
  OBVIOUS
<1>0. /\ DeviceTyped /\ authorized \in [Buses \cup Paths -> BOOLEAN]
      /\ \A p \in Paths : Parent[p] \in Paths => Parent[p] # p
  BY BusAssumption, ParentAssumption DEF Typed, PowerTyped
<1>1. CASE UNCHANGED <<device, added, authorized>>
  BY <1>0, <1>1 DEF DeviceTyped
<1>2. ASSUME NEW p \in Paths, Attach(p) PROVE DeviceTyped'
  <2>1. PICK k \in Kinds[p] : device' = [device EXCEPT ![p] = k]
    BY <1>2 DEF Attach
  <2>2. k \in Seq(Classes) /\ Len(k) \in Nat /\ Hub # <<>>
    BY <2>1, KindsAssumption DEF Hub
  <2>3. added[p] = 0 /\ added' = added /\ authorized' = authorized /\ device[p] = <<>>
    <3>1. Len(<<>>) = 0
      OBVIOUS
    <3> QED BY <1>0, <1>2, <3>1 DEF Attach, DeviceTyped
  <2>4. Parent[p] \in Paths => device[Parent[p]] = Hub
    BY <1>2 DEF Attach, Serves
  <2>5. device' \in [Paths -> Seq(Classes)] /\ device'[p] = k
        /\ \A q \in Paths : q # p => device'[q] = device[q]
    BY <1>0, <2>1, <2>2 DEF DeviceTyped
  <2>6. ASSUME NEW q \in Paths, device'[q] # <<>>, Parent[q] \in Paths
        PROVE  device'[Parent[q]] = Hub
    <3>1. CASE q = p
      BY <1>0, <2>4, <2>5, <2>6, <3>1
    <3>2. CASE q # p
      <4>1. device[Parent[q]] = Hub
        BY <1>0, <2>5, <2>6, <3>2 DEF DeviceTyped
      <4> QED BY <2>2, <2>3, <2>5, <2>6, <4>1
    <3> QED BY <3>1, <3>2
  <2> QED BY <1>0, <2>1, <2>2, <2>3, <2>5, <2>6 DEF DeviceTyped
<1>3. ASSUME NEW p \in Paths, AddInterface(p) PROVE DeviceTyped'
  <2>1. Len(device[p]) \in Nat /\ authorized[p]
    BY <1>0, <1>3 DEF DeviceTyped, AddInterface
  <2> QED BY <1>0, <1>3, <2>1 DEF AddInterface, DeviceTyped
<1>4. ASSUME NEW p \in Paths, Detach(p) PROVE DeviceTyped'
  <2>1. <<>> \in Seq(Classes) /\ Len(<<>>) = 0
    OBVIOUS
  <2>2. /\ device'[p] = <<>> /\ \A q \in Paths : q # p => device'[q] = device[q]
        /\ \A q \in Paths : Parent[q] = p => device[q] = <<>>
        /\ device' \in [Paths -> Seq(Classes)]
    BY <1>0, <1>4, <2>1 DEF Detach, DeviceTyped
  <2>3. /\ added'[p] = 0 /\ \A q \in Paths : q # p => added'[q] = added[q]
        /\ added' \in [Paths -> Nat]
        /\ \A q \in Paths : ~authorized'[q] => ~authorized[q]
    BY <1>0, <1>4 DEF Detach, DeviceTyped
  <2>4. ASSUME NEW q \in Paths, device'[q] # <<>>, Parent[q] \in Paths
        PROVE  device'[Parent[q]] = Hub
    BY <1>0, <2>2, <2>4 DEF DeviceTyped
  <2>5. ASSUME NEW q \in Paths
        PROVE  /\ device'[q] \in Kinds[q] \cup {<<>>} /\ added'[q] <= Len(device'[q])
               /\ ~authorized'[q] => added'[q] = 0
    BY <1>0, <2>1, <2>2, <2>3 DEF DeviceTyped
  <2> QED BY <2>2, <2>3, <2>4, <2>5 DEF DeviceTyped
<1>5. CASE FlipDisplay \/ \E p \in Paths : AskForReset(p)
  BY <1>1, <1>5 DEF FlipDisplay, AskForReset
<1>6. CASE HandleChange
  <2>1. device' = device
    BY <1>6 DEF HandleChange
  <2>2. ASSUME NEW p \in Paths
        PROVE  Len(device[p]) \in Nat /\ 0 <= Len(device[p])
    BY <1>0 DEF DeviceTyped
  <2> QED BY <1>0, <1>6, <2>1, <2>2, Unauthorizes DEF DeviceTyped
<1>7. CASE FinishRemove
  <2>1. UNCHANGED <<device, added>>
    BY <1>7 DEF FinishRemove
  <2> QED BY <1>0, <1>7, <2>1, Authorizes DEF DeviceTyped
<1>8. CASE Worker /\ ~HandleChange /\ ~FinishRemove
  BY <1>1, <1>8 DEF Worker, HandleAdd, HandleBind, IgnoreBind, HandleBacklight, HandleRemove,
     FinishAdd, FinishBind, FinishBacklight, FinishChange, Listen, Begin
<1>9. CASE Binder
  BY <1>1, <1>9 DEF Binder, Register, FinishScan, EndScan, Withdraw, Scan
<1> QED BY <1>1, <1>2, <1>3, <1>4, <1>5, <1>6, <1>7, <1>8, <1>9 DEF Next, Kernel

(* What a plan makes of a device.                                          *)
LEMMA DoKeeps ==
    ASSUME PowerTyped, NEW what \in Suspends, NEW p \in Paths, Do(what, p)
    PROVE  /\ delay' \in [Paths -> {"default", "3000", "60000"}]
           /\ control' \in [Paths -> {"on", "auto"}]
           /\ \A r \in Paths : /\ control[r] = "auto" => control'[r] = "auto"
                               /\ delay[r] = "60000" => delay'[r] = "60000"
           /\ device[p] # <<>> /\ what # "nothing" => control'[p] = "auto"
           /\ device[p] # <<>> /\ what = "60000" => delay'[p] = "60000"
BY DEF PowerTyped, Suspends, Do

(* The sysfs files keep their types.                                       *)
LEMMA PowerTypedStep == Typed /\ [Next]_vars => PowerTyped'
<1> SUFFICES ASSUME Typed, [Next]_vars PROVE PowerTyped'
  OBVIOUS
<1> USE DEF Typed
<1>1. CASE UNCHANGED <<delay, control, authorized, displayOn>>
  BY <1>1 DEF PowerTyped
<1>2. CASE FlipDisplay
  BY <1>2 DEF PowerTyped, FlipDisplay
<1>3. CASE \E p \in Paths : Attach(p) \/ AddInterface(p) \/ AskForReset(p)
  BY <1>1, <1>3 DEF Attach, AddInterface, AskForReset
<1>4. ASSUME NEW p \in Paths, Detach(p) PROVE PowerTyped'
  BY <1>4 DEF Detach, PowerTyped
<1>5. CASE FinishAdd \/ FinishBind
  <2>1. Head(queue).path \in Paths /\ plan \in Suspends
    BY <1>5, Busy DEF FinishAdd, FinishBind, WorkerTyped
  <2>2. Do(plan, Head(queue).path)
    BY <1>5 DEF FinishAdd, FinishBind
  <2> QED BY <1>5, <2>1, <2>2, DoKeeps DEF FinishAdd, FinishBind, PowerTyped
<1>6. CASE FinishBacklight
  <2>1. plan \in {"3000", "60000"}
    BY <1>6 DEF FinishBacklight, WorkerTyped
  <2> QED BY <1>6, <2>1 DEF FinishBacklight, PowerTyped
<1>7. CASE HandleChange
  BY <1>7, Unauthorizes DEF HandleChange, PowerTyped
<1>11. CASE FinishRemove
  <2>1. BusOf \in [Paths -> Buses]
    BY BusAssumption
  <2> QED BY <1>11, <2>1 DEF FinishRemove, PowerTyped
<1>8. CASE FinishScan
  <2>1. CASE scan = NoScan
    BY <1>1, <1>8, <2>1 DEF FinishScan
  <2>2. CASE scan # NoScan
    <3>1. scan.plan \in Suspends /\ scan.path \in Paths /\ Do(scan.plan, scan.path)
      BY <1>8, <2>2 DEF FinishScan, SessionTyped
    <3> QED BY <1>8, <3>1, DoKeeps DEF FinishScan, PowerTyped
  <2> QED BY <2>1, <2>2
<1>9. CASE HandleAdd \/ HandleBind \/ IgnoreBind \/ HandleBacklight \/ HandleRemove \/ FinishChange \/ Listen
  BY <1>1, <1>9 DEF HandleAdd, HandleBind, IgnoreBind, HandleBacklight, HandleRemove, FinishChange, Listen, Begin
<1>10. CASE Register \/ EndScan \/ Withdraw \/ \E p \in Paths : Scan(p)
  BY <1>1, <1>10 DEF Register, EndScan, Withdraw, Scan
<1> QED BY <1>1, <1>2, <1>3, <1>4, <1>5, <1>6, <1>7, <1>8, <1>9, <1>10, <1>11
        DEF Next, Kernel, Worker, Binder

(* The queue holds uevents, and none without a worker that listens.        *)
LEMMA QueueTypedStep == Typed /\ [Next]_vars => QueueTyped'
<1> SUFFICES ASSUME Typed, [Next]_vars PROVE QueueTyped'
  OBVIOUS
<1> USE DEF Typed
<1>1. CASE UNCHANGED queue /\ (Listening' \/ UNCHANGED worker)
  BY <1>1 DEF QueueTyped, Listening
<1>2. CASE FlipDisplay
  <2>1. [type |-> "backlight"] \in Events
    BY DEF Events, Backlights
  <2> QED BY <1>2, <2>1, AppendToQueue DEF FlipDisplay, QueueTyped, Listening
<1>3. ASSUME NEW p \in Paths, Attach(p) \/ Detach(p) PROVE QueueTyped'
  BY <1>3, EmitKeeps, EventsMade DEF Attach, Detach
<1>4. ASSUME NEW p \in Paths, AddInterface(p) PROVE QueueTyped'
  <2>1. added[p] + 1 \in Nat \ {0}
    BY DEF DeviceTyped
  <2>2. Emit(Bind(p, added[p] + 1), p) /\ worker' = worker
    BY <1>4 DEF AddInterface, Bind
  <2> QED BY <2>1, <2>2, EmitKeeps, EventsMade
<1>5. ASSUME NEW p \in Paths, AskForReset(p) PROVE QueueTyped'
  BY <1>5, EventsMade, AppendToQueue DEF AskForReset, QueueTyped, Listening
<1>6. CASE HandleAdd \/ HandleBind \/ HandleBacklight \/ HandleChange \/ HandleRemove
  BY <1>1, <1>6, About DEF HandleAdd, HandleBind, HandleBacklight, HandleChange, HandleRemove, Begin, Listening
<1>7. CASE IgnoreBind
  <2>1. queue # <<>> /\ queue' = Tail(queue) /\ worker' = "polling"
    BY <1>7 DEF IgnoreBind, Handles
  <2> QED BY <2>1, TakeKeeps
<1>8. CASE FinishAdd \/ FinishBind \/ FinishBacklight \/ FinishChange \/ FinishRemove
  <2>1. queue' = Tail(queue) /\ worker' = "polling" /\ queue # <<>>
    BY <1>8, Busy DEF FinishAdd, FinishBind, FinishBacklight, FinishChange, FinishRemove, Finish
  <2> QED BY <2>1, TakeKeeps
<1>9. CASE Listen \/ Register \/ FinishScan \/ EndScan \/ \E p \in Paths : Scan(p)
  BY <1>9 DEF Listen, Register, FinishScan, EndScan, Scan, QueueTyped, Listening
<1>10. CASE Withdraw
  BY <1>10, EmptyQueue DEF Withdraw, QueueTyped
<1>11. CASE UNCHANGED vars
  BY <1>1, <1>11
<1> QED BY <1>2, <1>3, <1>4, <1>5, <1>6, <1>7, <1>8, <1>9, <1>10, <1>11 DEF Next, Kernel, Worker, Binder

(* The worker is busy with the first of the uevents, with a plan of its    *)
(* kind.                                                                   *)
LEMMA WorkerTypedStep == Typed /\ [Next]_vars => WorkerTyped'
<1> SUFFICES ASSUME Typed, [Next]_vars PROVE WorkerTyped'
  OBVIOUS
<1> USE DEF Typed
<1>1. CASE UNCHANGED <<queue, worker, plan>>
  BY <1>1 DEF WorkerTyped
<1>2. ASSUME UNCHANGED <<worker, plan>>, queue # <<>> => queue' # <<>> /\ Head(queue') = Head(queue)
      PROVE  WorkerTyped'
  BY <1>2 DEF WorkerTyped
<1>3. CASE FlipDisplay
  <2>1. [type |-> "backlight"] \in Events /\ queue \in Seq(Events)
    BY DEF Events, Backlights, QueueTyped
  <2> QED BY <1>2, <1>3, <2>1, AppendToQueue DEF FlipDisplay
<1>4. ASSUME NEW p \in Paths, Attach(p) \/ Detach(p) PROVE WorkerTyped'
  BY <1>2, <1>4, EmitKeeps, EventsMade DEF Attach, Detach
<1>5. ASSUME NEW p \in Paths, AddInterface(p) PROVE WorkerTyped'
  <2>1. added[p] + 1 \in Nat \ {0}
    BY DEF DeviceTyped
  <2>2. Emit(Bind(p, added[p] + 1), p) /\ worker' = worker /\ plan' = plan
    BY <1>5 DEF AddInterface, Bind
  <2> QED BY <1>2, <2>1, <2>2, EmitKeeps, EventsMade
<1>6. ASSUME NEW p \in Paths, AskForReset(p) PROVE WorkerTyped'
  <2>1. queue \in Seq(Events)
    BY DEF QueueTyped
  <2> QED BY <1>2, <1>6, <2>1, EventsMade, AppendToQueue DEF AskForReset
<1>7. CASE HandleAdd \/ HandleBind
  BY <1>7, About DEF HandleAdd, HandleBind, Begin, InterfacePlan, WorkerTyped, Suspends
<1>8. CASE HandleBacklight
  BY <1>8, About DEF HandleBacklight, Begin, WorkerTyped
<1>9. CASE HandleChange
  BY <1>9, About DEF HandleChange, WorkerTyped
<1>10. CASE HandleRemove
  BY <1>10, About DEF HandleRemove, WorkerTyped
<1>11. CASE IgnoreBind \/ Listen
  BY <1>11 DEF IgnoreBind, Handles, Listen, WorkerTyped
<1>12. CASE FinishAdd \/ FinishBind \/ FinishBacklight \/ FinishChange \/ FinishRemove
  BY <1>12 DEF FinishAdd, FinishBind, FinishBacklight, FinishChange, FinishRemove, Finish, WorkerTyped
<1>13. CASE Register \/ Withdraw
  BY <1>13 DEF Register, Withdraw, WorkerTyped
<1>14. CASE FinishScan \/ EndScan \/ \E p \in Paths : Scan(p)
  BY <1>1, <1>14 DEF FinishScan, EndScan, Scan
<1> QED BY <1>1, <1>3, <1>4, <1>5, <1>6, <1>7, <1>8, <1>9, <1>10, <1>11, <1>12, <1>13, <1>14
        DEF Next, Kernel, Worker, Binder

(* The session and its scan keep their types.                              *)
LEMMA SessionTypedStep == SessionTyped /\ [Next]_vars => SessionTyped'
<1> SUFFICES ASSUME SessionTyped, [Next]_vars PROVE SessionTyped'
  OBVIOUS
<1>1. CASE UNCHANGED session
  BY <1>1 DEF SessionTyped
<1>2. CASE Kernel \/ Worker
  BY <1>1, <1>2 DEF Kernel, FlipDisplay, Attach, AddInterface, Detach, AskForReset, Worker, HandleAdd, HandleBind,
     IgnoreBind, HandleBacklight, HandleChange, HandleRemove, FinishAdd, FinishBind, FinishBacklight,
     FinishChange, FinishRemove, Finish, Listen, Begin
<1>3. CASE Register \/ EndScan \/ Withdraw \/ FinishScan
  BY <1>3 DEF Register, EndScan, Withdraw, FinishScan, SessionTyped
<1>4. ASSUME NEW p \in Paths, Scan(p) PROVE SessionTyped'
  <2>1. ScanPlan(p) \in Suspends
    BY DEF ScanPlan, Suspends
  <2> QED BY <1>4, <2>1 DEF Scan, SessionTyped
<1> QED BY <1>1, <1>2, <1>3, <1>4 DEF Next, Binder

(* The list and the history keep their types.                              *)
LEMMA ListsTypedStep == Typed /\ [Next]_vars => ListsTyped'
<1> SUFFICES ASSUME Typed, [Next]_vars PROVE ListsTyped'
  OBVIOUS
<1> USE DEF Typed, ListsTyped
<1>1. CASE UNCHANGED <<usb, history>>
  BY <1>1
<1>2. CASE Kernel
  <2>1. CASE FlipDisplay
    BY <2>1 DEF FlipDisplay
  <2>2. ASSUME NEW p \in Paths, NEW e, Emit(e, p), UNCHANGED usb PROVE ListsTyped'
    BY <2>2 DEF Emit, usb, history
  <2>3. ASSUME NEW p \in Paths, Attach(p) \/ AddInterface(p) PROVE ListsTyped'
    BY <2>2, <2>3 DEF Attach, AddInterface
  <2>4. ASSUME NEW p \in Paths, Detach(p) \/ AskForReset(p) PROVE ListsTyped'
    BY <2>2, <2>4 DEF Detach, AskForReset
  <2> QED BY <1>2, <2>1, <2>3, <2>4 DEF Kernel
<1>3. CASE HandleAdd \/ HandleBind \/ HandleBacklight \/ FinishAdd \/ FinishChange \/ Listen
  BY <1>1, <1>3 DEF HandleAdd, HandleBind, HandleBacklight, FinishAdd, FinishChange, Finish, Listen, Begin
<1>4. CASE IgnoreBind
  BY <1>4, About DEF IgnoreBind
<1>5. CASE FinishBind
  BY <1>5, Busy DEF FinishBind, Finish
<1>6. CASE FinishBacklight \/ HandleChange \/ HandleRemove \/ FinishRemove
  BY <1>6 DEF FinishBacklight, HandleChange, HandleRemove, FinishRemove
<1>7. CASE Binder
  BY <1>7 DEF Binder, Register, FinishScan, EndScan, Withdraw, Scan
<1> QED BY <1>1, <1>2, <1>3, <1>4, <1>5, <1>6, <1>7 DEF Next, Worker

(* Every step keeps the types.                                             *)
LEMMA TypedStep == Typed /\ [Next]_vars => Typed'
BY DeviceTypedStep, PowerTypedStep, QueueTypedStep, WorkerTypedStep, SessionTypedStep, ListsTypedStep DEF Typed

(* Every variable keeps its type, whatever comes and goes.                 *)
THEOREM TypeCorrect == Spec => []TypeOK
<1>1. Typed => TypeOK
  <2> SUFFICES ASSUME Typed PROVE TypeOK
    OBVIOUS
  <2>1. ASSUME NEW p \in Paths
        PROVE  device[p] \in Kinds[p] \cup {<<>>} /\ added[p] \in 0..Len(device[p])
    <3>1. device[p] \in Seq(Classes) /\ added[p] \in Nat /\ added[p] <= Len(device[p])
      BY DEF Typed, DeviceTyped
    <3>2. Len(device[p]) \in Nat
      BY <3>1
    <3>3. device[p] \in Kinds[p] \cup {<<>>}
      BY DEF Typed, DeviceTyped
    <3> QED BY <3>1, <3>2, <3>3
  <2>2. scan = NoScan \/ scan.path \in Paths
    BY DEF Typed, SessionTyped
  <2> QED BY <2>1, <2>2, Zenon DEF Typed, TypeOK, PowerTyped, WorkerTyped, SessionTyped, ListsTyped
<1> QED BY <1>1, TypedInitial, TypedStep, PTL DEF Spec

(***************************************************************************)
(* The uevents that count.                                                 *)
(***************************************************************************)
(* Two uevents are the same if they say the same.                          *)
LEMMA EventsDiffer ==
    ASSUME NEW p, NEW i
    PROVE  /\ Add(p).path = p /\ Bind(p, i).path = p
           /\ \A r, j : Bind(p, i) = Bind(r, j) => p = r /\ i = j
           /\ \A r : Add(p) = Add(r) => p = r
           /\ \A t, r : t # "bind" => Bind(p, i) # Event(t, r)
           /\ \A t, r : t # "add" => Add(p) # Event(t, r)
           /\ \A t : Bind(p, i) # [type |-> t] /\ Add(p) # [type |-> t]
           /\ \A r, j : Add(p) # Bind(r, j)
<1>1. \A r, j : Bind(p, i) = Bind(r, j) => p = r /\ i = j
  BY DEF Bind
<1>2. \A t, r : Event(t, r).type = t /\ Event(t, r).path = r
  BY DEF Event
<1>3. \A r, j : Bind(r, j).type = "bind" /\ Bind(r, j).path = r
  BY DEF Bind
<1>4. Add(p).type = "add" /\ \A r : Add(r).path = r
  BY <1>2 DEF Add
<1>5. \A t : Bind(p, i) # [type |-> t] /\ Add(p) # [type |-> t]
  <2> TAKE t
  <2>1. DOMAIN [type |-> t] = {"type"} /\ DOMAIN Bind(p, i) = {"type", "path", "intf"}
        /\ DOMAIN Add(p) = {"type", "path"}
    BY DEF Bind, Add, Event
  <2> QED BY <2>1
<1> QED BY <1>1, <1>2, <1>3, <1>4, <1>5

(* A uevent that is taken is no longer waited for, nothing else changes.   *)
LEMMA FreshTaken ==
    ASSUME Fresh, QueueTyped, queue # <<>>, queue' = Tail(queue), UNCHANGED <<device, added>>,
           \A p \in Paths : authorized'[p] = authorized[p]
    PROVE  Fresh'
<1> SUFFICES ASSUME NEW p \in Paths PROVE FreshAt(p)'
  BY DEF Fresh
<1>1. queue \in Seq(Events) /\ FreshAt(p)
  BY DEF QueueTyped, Fresh
<1>2. \A e : e.path = p /\ Removing(queue', p) /\ Waiting(queue, e) => Waiting(queue', e)
  BY <1>1, TailOfQueue
<1>3. \A e : Waiting(queue', e) => Waiting(queue, e)
  BY <1>1, TailOfQueue
<1>4. Removing(queue', p) => Removing(queue, p)
  BY <1>1, TailOfQueue
<1>5. Add(p).path = p /\ \A i : Bind(p, i).path = p
  BY EventsDiffer
<1> QED BY <1>1, <1>2, <1>3, <1>4, <1>5 DEF FreshAt

(* Every step keeps the uevents that count about what is there.            *)
LEMMA FreshStep == Typed /\ Fresh /\ [Next]_vars => Fresh'
<1> SUFFICES ASSUME Typed, Fresh, [Next]_vars PROVE Fresh'
  OBVIOUS
<1>1. queue \in Seq(Events) /\ QueueTyped /\ WorkerTyped
  BY DEF Typed, QueueTyped
<1>2. CASE UNCHANGED <<device, added, authorized, queue>>
  BY <1>2 DEF Fresh, FreshAt
<1>3. ASSUME NEW e \in Events, e.type \in {"change", "backlight"},
             UNCHANGED <<device, added, authorized>>, queue' = Append(queue, e)
      PROVE  Fresh'
  <2> SUFFICES ASSUME NEW p \in Paths PROVE FreshAt(p)'
    BY DEF Fresh
  <2>1. FreshAt(p)
    BY DEF Fresh
  <2>2. Removing(queue', p) <=> Removing(queue, p)
    BY <1>1, <1>3, AppendToQueue
  <2>3. \A f : f # e => (Waiting(queue', f) <=> Waiting(queue, f))
    BY <1>1, <1>3, AppendToQueue
  <2>4. Add(p).type = "add" /\ \A i : Bind(p, i).type = "bind"
    BY DEF Add, Event, Bind
  <2>5. Add(p) # e /\ \A i : Bind(p, i) # e
    BY <1>3, <2>4
  <2> QED BY <1>3, <2>1, <2>2, <2>3, <2>5 DEF FreshAt
<1>4. CASE FlipDisplay
  <2>1. [type |-> "backlight"] \in Events /\ [type |-> "backlight"].type = "backlight"
    BY DEF Events, Backlights
  <2> QED BY <1>2, <1>3, <1>4, <2>1 DEF FlipDisplay
<1>5. ASSUME NEW p \in Paths, AskForReset(p) PROVE Fresh'
  BY <1>3, <1>5, EventsMade DEF AskForReset
<1>6. ASSUME NEW p \in Paths, Attach(p) PROVE Fresh'
  <2> SUFFICES ASSUME NEW r \in Paths PROVE FreshAt(r)'
    BY DEF Fresh
  <2>1. /\ FreshAt(r) /\ added' = added /\ authorized' = authorized
        /\ r # p => device'[r] = device[r]
    BY <1>6 DEF Fresh, Attach, Typed, DeviceTyped
  <2>2. device'[p] # <<>> /\ added[p] = 0
    <3>1. Len(<<>>) = 0
      OBVIOUS
    <3> QED BY <1>6, <3>1, KindsAssumption DEF Attach, Typed, DeviceTyped
  <2>3. Event("add", p) \in Events /\ Event("add", p).type = "add"
    BY EventsMade
  <2>4. Emit(Event("add", p), p) /\ worker' = worker
    BY <1>6 DEF Attach
  <2>5. /\ Removing(queue', r) <=> Removing(queue, r)
        /\ \A f : Waiting(queue', f) <=> (Listening /\ f = Add(p)) \/ Waiting(queue, f)
        /\ Listening \/ queue' = <<>>
    BY <1>1, <2>3, <2>4, EmitKeeps DEF Add
  <2>6. \A i : Bind(r, i) # Add(p) /\ (r # p => Add(r) # Add(p))
    BY EventsDiffer
  <2>7. ~Listening => ~Removing(queue', r)
    BY <2>5, EmptyQueue
  <2>8. CASE r = p
    BY <2>1, <2>2, <2>5, <2>6, <2>7, <2>8 DEF FreshAt
  <2>9. CASE r # p
    BY <2>1, <2>5, <2>6, <2>9 DEF FreshAt
  <2> QED BY <2>8, <2>9
<1>7. ASSUME NEW p \in Paths, AddInterface(p) PROVE Fresh'
  <2> DEFINE n == added[p] + 1
  <2> SUFFICES ASSUME NEW r \in Paths PROVE FreshAt(r)'
    BY DEF Fresh
  <2>1. /\ FreshAt(r) /\ device' = device /\ added'[p] = n /\ (r # p => added'[r] = added[r])
        /\ authorized' = authorized /\ authorized[p] /\ added[p] \in Nat /\ added[r] \in Nat /\ n \in Nat \ {0}
    BY <1>7 DEF Fresh, AddInterface, Typed, DeviceTyped
  <2>2. Emit(Bind(p, n), p) /\ worker' = worker
    BY <1>7 DEF AddInterface, Bind
  <2>3. Bind(p, n) \in Events /\ Bind(p, n).type = "bind"
    BY <2>1, EventsMade
  <2> HIDE DEF n
  <2>4. /\ Removing(queue', r) <=> Removing(queue, r)
        /\ \A f : Waiting(queue', f) <=> (Listening /\ f = Bind(p, n)) \/ Waiting(queue, f)
        /\ Listening \/ queue' = <<>>
    BY <1>1, <2>2, <2>3, EmitKeeps
  <2>5. Add(r) # Bind(p, n) /\ \A i : Bind(r, i) = Bind(p, n) => r = p /\ i = n
    <3>1. Add(r) # Bind(p, n)
      BY EventsDiffer
    <3>2. \A x, i : Bind(p, n) = Bind(x, i) => p = x /\ n = i
      BY EventsDiffer
    <3> QED BY <3>1, <3>2
  <2>6. ~Listening => ~Removing(queue', r)
    BY <2>4, EmptyQueue
  <2>7. CASE r = p
    <3>1. \A i \in Nat \ {0} : Waiting(queue', Bind(p, i)) => i <= n
      BY <2>1, <2>4, <2>5, <2>7 DEF FreshAt, n
    <3>2. \A i \in 1..n : i = n \/ i \in 1..added[p]
      BY <2>1 DEF n
    <3>3. Removing(queue', p) => \A i \in 1..n : Waiting(queue', Bind(p, i))
      BY <2>1, <2>4, <2>6, <2>7, <3>2 DEF FreshAt
    <3> QED BY <2>1, <2>4, <2>5, <2>7, <3>1, <3>3 DEF FreshAt
  <2>8. CASE r # p
    BY <2>1, <2>4, <2>5, <2>8 DEF FreshAt
  <2> QED BY <2>7, <2>8
<1>8. ASSUME NEW p \in Paths, Detach(p) PROVE Fresh'
  <2> SUFFICES ASSUME NEW r \in Paths PROVE FreshAt(r)'
    BY DEF Fresh
  <2>1. /\ FreshAt(r) /\ device'[p] = <<>> /\ added'[p] = 0
        /\ r # p => /\ device'[r] = device[r] /\ added'[r] = added[r]
                    /\ authorized'[r] = authorized[r]
    BY <1>8 DEF Fresh, Detach, Typed, DeviceTyped, PowerTyped
  <2>2. Emit(Event("remove", p), p) /\ worker' = worker
    BY <1>8 DEF Detach
  <2>3. /\ Event("remove", p) \in Events /\ Event("remove", p).type = "remove"
        /\ Event("remove", p).path = p
    BY EventsMade
  <2>4. /\ Removing(queue', r) <=> Removing(queue, r) \/ (Listening /\ r = p)
        /\ \A f : Waiting(queue', f) <=>
              (Listening /\ f = Event("remove", p)) \/ (Waiting(queue, f) /\ f.path # p)
    BY <1>1, <2>2, <2>3, EmitKeeps
  <2>5. /\ Add(r) # Event("remove", p) /\ Add(r).path = r
        /\ \A i : Bind(r, i) # Event("remove", p) /\ Bind(r, i).path = r
    BY EventsDiffer
  <2>6. CASE r = p
    <3>1. ~Listening => queue = <<>> /\ \A f : ~Waiting(queue, f)
      BY <1>1, EmptyQueue DEF QueueTyped
    <3> QED BY <2>1, <2>4, <2>5, <2>6, <3>1 DEF FreshAt
  <2>7. CASE r # p
    BY <2>1, <2>4, <2>5, <2>7 DEF FreshAt
  <2> QED BY <2>6, <2>7
<1>9. CASE HandleAdd \/ HandleBind \/ HandleBacklight \/ HandleRemove \/ Listen
  BY <1>2, <1>9 DEF HandleAdd, HandleBind, HandleBacklight, HandleRemove, Listen, Begin
<1>14. CASE HandleChange
  <2> SUFFICES ASSUME NEW p \in Paths PROVE FreshAt(p)'
    BY DEF Fresh
  <2>1. FreshAt(p) /\ UNCHANGED <<device, queue>>
    BY <1>14 DEF Fresh, HandleChange
  <2>2. CASE added'[p] = added[p] /\ authorized'[p] = authorized[p]
    BY <2>1, <2>2 DEF FreshAt
  <2>3. CASE added'[p] = 0 /\ ~authorized'[p]
    BY <2>1, <2>3 DEF FreshAt
  <2> QED BY <1>14, <2>2, <2>3, Unauthorizes
<1>10. CASE IgnoreBind
  BY <1>1, <1>10, FreshTaken, About DEF IgnoreBind
<1>11. CASE FinishAdd \/ FinishBind \/ FinishBacklight \/ FinishChange \/ FinishRemove
  <2>1. queue # <<>> /\ queue' = Tail(queue) /\ UNCHANGED <<device, added>>
        /\ \A p \in Paths : authorized'[p] = authorized[p]
    BY <1>1, <1>11, Busy, Authorizes DEF FinishAdd, FinishBind, FinishBacklight, FinishChange, FinishRemove
  <2> QED BY <1>1, <2>1, FreshTaken
<1>12. CASE Register \/ FinishScan \/ EndScan \/ \E p \in Paths : Scan(p)
  BY <1>2, <1>12 DEF Register, FinishScan, EndScan, Scan
<1>13. CASE Withdraw
  BY <1>13, EmptyQueue DEF Withdraw, Fresh, FreshAt
<1> QED BY <1>2, <1>4, <1>5, <1>6, <1>7, <1>8, <1>9, <1>10, <1>11, <1>12, <1>13, <1>14
        DEF Next, Kernel, Worker, Binder

(***************************************************************************)
(* Bus resets.                                                             *)
(***************************************************************************)
(* One more uevent changes nothing for a root hub, unless it is the one    *)
(* that is awaited.                                                        *)
LEMMA HubKept ==
    ASSUME Typed, NEW b \in Buses, HubExplained(b),
           authorized'[b] = authorized[b], UNCHANGED <<strayed, usbResetRecov, worker, plan>>,
           queue # <<>> => queue' # <<>> /\ Head(queue') = Head(queue),
           Leaving(queue, b) => Leaving(queue', b), missed \subseteq missed',
           \/ worker = "change" /\ Parent[Head(queue).path] = b /\ device[Head(queue).path] # <<>>
                 => device'[Head(queue).path] # <<>>
           \/ Leaving(queue', b)
    PROVE  HubExplained(b)'
<1>1. worker \in {"change", "remove"} => Head(queue') = Head(queue)
  BY Busy DEF Typed
<1> QED BY <1>1 DEF HubExplained, Awaited

(* The worker is done with a uevent that is not a removal.                 *)
LEMMA HubTaken ==
    ASSUME Typed, NEW b \in Buses, HubExplained(b), worker # "remove", queue # <<>>,
           UNCHANGED <<authorized, strayed, usbResetRecov>>, missed \subseteq missed',
           queue' = Tail(queue), Head(queue).type # "remove",
           worker = "change" /\ Parent[Head(queue).path] = b /\ device[Head(queue).path] # <<>>
              => authorized[b]
    PROVE  HubExplained(b)'
<1>1. Leaving(queue, b) => Leaving(queue', b)
  BY TailOfQueue DEF Typed, QueueTyped
<1> QED BY <1>1 DEF HubExplained, Awaited

(* Every step keeps root hubs without authorization explained.             *)
LEMMA RecoveryStep == Typed /\ RecoveryInv /\ [Next]_vars => RecoveryInv'
<1> SUFFICES ASSUME Typed, RecoveryInv, [Next]_vars PROVE RecoveryInv'
  OBVIOUS
<1>1. queue \in Seq(Events) /\ QueueTyped /\ WorkerTyped /\ \A b \in Buses : HubExplained(b)
  BY DEF Typed, QueueTyped, RecoveryInv
<1>2. worker = "remove" => ~usbResetRecov
  BY DEF RecoveryInv
<1>3. worker' = "remove" => ~usbResetRecov'
  <2>1. CASE Kernel \/ Binder \/ UNCHANGED vars
    BY <1>2, <2>1 DEF Kernel, FlipDisplay, Attach, AddInterface, Detach, AskForReset,
       Binder, Register, FinishScan, EndScan, Withdraw, Scan
  <2>2. CASE HandleAdd \/ HandleBind \/ HandleBacklight
    <3>1. worker' # "remove"
      BY <2>2, About DEF HandleAdd, HandleBind, HandleBacklight, Begin, Typed
    <3> QED BY <3>1
  <2>3. CASE HandleRemove \/ HandleChange \/ Listen \/ IgnoreBind
    BY <2>3 DEF HandleRemove, HandleChange, Listen, IgnoreBind, Handles
  <2>4. CASE FinishAdd \/ FinishBind \/ FinishBacklight \/ FinishChange \/ FinishRemove
    BY <2>4 DEF FinishAdd, FinishBind, FinishBacklight, FinishChange, FinishRemove, Finish
  <2> QED BY <2>1, <2>2, <2>3, <2>4 DEF Next, Worker
<1>4. ASSUME NEW b \in Buses PROVE HubExplained(b)'
  <2>1. HubExplained(b)
    BY <1>1
  <2>2. CASE UNCHANGED <<device, authorized, strayed, usbResetRecov, worker, plan, queue, missed>>
    BY <2>1, <2>2 DEF HubExplained, Awaited
  <2>3. CASE FlipDisplay
    <3>1. [type |-> "backlight"] \in Events
      BY DEF Events, Backlights
    <3> QED BY <1>1, <2>1, <2>3, <3>1, HubKept, AppendToQueue DEF FlipDisplay
  <2>4. ASSUME NEW p \in Paths, AskForReset(p) PROVE HubExplained(b)'
    BY <1>1, <2>1, <2>4, HubKept, EventsMade, AppendToQueue DEF AskForReset
  <2>5. ASSUME NEW p \in Paths, Attach(p) PROVE HubExplained(b)'
    <3>1. Event("add", p) \in Events /\ Event("add", p).type # "backlight"
      BY EventsMade
    <3>2. Emit(Event("add", p), p) /\ worker' = worker
      BY <2>5 DEF Attach
    <3>3. /\ queue # <<>> => queue' # <<>> /\ Head(queue') = Head(queue)
          /\ Leaving(queue, b) => Leaving(queue', b)
          /\ missed \subseteq missed' /\ strayed' = strayed
      BY <1>1, <3>1, <3>2, EmitKeeps
    <3>4. \A r \in Paths : device[r] # <<>> => device'[r] # <<>>
      BY <2>5 DEF Attach, Typed, DeviceTyped
    <3>5. worker = "change" => Head(queue).path \in Paths
      BY <1>1, Busy
    <3> QED BY <2>1, <2>5, <3>3, <3>4, <3>5, HubKept DEF Attach
  <2>6. ASSUME NEW p \in Paths, AddInterface(p) PROVE HubExplained(b)'
    <3> DEFINE n == added[p] + 1
    <3>1. n \in Nat \ {0}
      BY DEF Typed, DeviceTyped
    <3>2. Emit(Bind(p, n), p) /\ worker' = worker
      BY <2>6 DEF AddInterface, Bind
    <3> HIDE DEF n
    <3>3. Bind(p, n) \in Events /\ Bind(p, n).type # "backlight"
      BY <3>1, EventsMade
    <3>4. /\ queue # <<>> => queue' # <<>> /\ Head(queue') = Head(queue)
          /\ Leaving(queue, b) => Leaving(queue', b)
          /\ missed \subseteq missed' /\ strayed' = strayed
      BY <1>1, <3>2, <3>3, EmitKeeps
    <3> QED BY <2>1, <2>6, <3>4, HubKept DEF AddInterface
  <2>7. ASSUME NEW p \in Paths, Detach(p) PROVE HubExplained(b)'
    <3>1. /\ Event("remove", p) \in Events /\ Event("remove", p).type = "remove"
          /\ Event("remove", p).path = p
      BY EventsMade
    <3>2. Emit(Event("remove", p), p) /\ worker' = worker
      BY <2>7 DEF Detach
    <3>3. /\ queue # <<>> => queue' # <<>> /\ Head(queue') = Head(queue)
          /\ Leaving(queue', b) <=> Leaving(queue, b) \/ (Listening /\ BusOf[p] = b)
          /\ missed \subseteq missed' /\ strayed' = strayed
      BY <1>1, <3>1, <3>2, EmitKeeps
    <3>4. (\A r \in Paths : r # p => device'[r] = device[r]) /\ authorized'[b] = authorized[b]
      BY <2>7, BusAssumption DEF Detach, Typed, DeviceTyped, PowerTyped
    <3>5. worker = "change" => Head(queue).path \in Paths /\ Listening
      BY <1>1, Busy DEF Listening
    <3>6. Parent[p] = b => BusOf[p] = b
      BY BusAssumption, ParentAssumption
    <3> QED BY <2>1, <2>7, <3>3, <3>4, <3>5, <3>6, HubKept DEF Detach
  <2>8. CASE HandleAdd \/ HandleBind \/ HandleBacklight \/ Listen \/ Register
    <3>1. worker \notin {"change", "remove"}
          /\ UNCHANGED <<authorized, strayed, usbResetRecov, queue, missed>>
      BY <2>8, About DEF HandleAdd, HandleBind, HandleBacklight, Begin, Listen, Register, Handles
    <3> QED BY <2>1, <3>1 DEF HubExplained, Awaited
  <2>9. CASE IgnoreBind
    <3>1. Head(queue).type = "bind" /\ queue # <<>> /\ worker = "polling"
      BY <2>9 DEF IgnoreBind, Handles
    <3> QED BY <2>1, <2>9, <3>1, HubTaken DEF IgnoreBind
  <2>10. CASE FinishAdd \/ FinishBind \/ FinishBacklight
    <3>1. queue # <<>> /\ Head(queue).type = worker /\ worker \in {"add", "bind", "backlight"}
      BY <1>1, <2>10, Busy DEF FinishAdd, FinishBind, FinishBacklight
    <3> QED BY <2>1, <2>10, <3>1, HubTaken DEF FinishAdd, FinishBind, FinishBacklight, Finish
  <2>11. CASE FinishChange
    <3>1. queue # <<>> /\ Head(queue).type = "change" /\ Head(queue).path \in Paths
      BY <1>1, <2>11, Busy DEF FinishChange
    <3>2. Parent[Head(queue).path] = b /\ device[Head(queue).path] # <<>> => authorized[b]
      BY <2>11, <3>1 DEF FinishChange, Empty
    <3> QED BY <2>1, <2>11, <3>1, <3>2, HubTaken DEF FinishChange, Finish
  <2>12. CASE HandleChange
    <3>1. Head(queue).path \in Paths /\ queue' = queue /\ worker = "polling"
      BY <1>1, <2>12, About DEF HandleChange
    <3>2. usbResetRecov' = TRUE /\ worker' = "change" /\ UNCHANGED <<device, missed, strayed>>
      BY <2>12 DEF HandleChange
    <3>3. authorized'[b] = authorized[b]
          \/ (device[Head(queue).path] # <<>> /\ b = Parent[Head(queue).path])
      BY <2>12, Unauthorizes
    <3> QED BY <2>1, <3>1, <3>2, <3>3 DEF HubExplained, Awaited
  <2>13. CASE HandleRemove
    <3>1. worker = "polling" /\ queue' = queue /\ authorized' = authorized
      BY <2>13 DEF HandleRemove, Handles
    <3> QED BY <2>1, <2>13, <3>1 DEF HandleRemove, HubExplained, Awaited
  <2>14. CASE FinishRemove
    <3>1. Head(queue).path \in Paths /\ ~usbResetRecov /\ worker = "remove"
      BY <1>1, <1>2, <2>14, Busy DEF FinishRemove
    <3>2. BusOf[Head(queue).path] \in Buses
      BY <3>1, BusAssumption
    <3> QED BY <2>1, <2>14, <3>1, <3>2 DEF FinishRemove, HubExplained, Awaited, Typed, PowerTyped
  <2>15. CASE Withdraw
    <3>1. ASSUME Leaving(queue, b)
          PROVE  \E p \in missed' : BusOf[p] = b
      <4>1. PICK k \in 1..Len(queue) : queue[k].type = "remove" /\ BusOf[queue[k].path] = b
        BY <3>1 DEF Leaving
      <4>2. queue[k] \in Events
        BY <1>1
      <4>3. queue[k].path \in Paths
        BY <4>1, <4>2, EventsTyped
      <4>4. queue[k].path \in missed'
        BY <2>15, <4>1, <4>3 DEF Withdraw
      <4> QED BY <4>1, <4>4
    <3>2. worker = "polling" /\ missed \subseteq missed'
          /\ UNCHANGED <<authorized, strayed, usbResetRecov>>
      BY <2>15 DEF Withdraw
    <3> QED BY <2>1, <3>1, <3>2 DEF HubExplained, Awaited
  <2>16. CASE FinishScan \/ EndScan \/ (\E p \in Paths : Scan(p)) \/ UNCHANGED vars
    BY <2>2, <2>16 DEF FinishScan, EndScan, Scan
  <2> QED BY <2>3, <2>4, <2>5, <2>6, <2>7, <2>8, <2>9, <2>10, <2>11, <2>12, <2>13, <2>14, <2>15, <2>16
          DEF Next, Kernel, Worker, Binder
<1> QED BY <1>3, <1>4 DEF RecoveryInv

(***************************************************************************)
(* The list.                                                               *)
(***************************************************************************)
(* The uevent of a removal is that of its path.                            *)
LEMMA HeadRemoves ==
    ASSUME NEW q \in Seq(Events), q # <<>>, Head(q).type = "remove"
    PROVE  Removing(q, Head(q).path)
<1>1. 1 \in (0 + 1)..Len(q) /\ q[1] = Head(q)
  OBVIOUS
<1> QED BY <1>1 DEF Removing, RemovedAfter

(* A step that leaves a device, its entry and its uevents keeps it right.  *)
LEMMA ListKept ==
    ASSUME NEW p \in Paths, ListedRight(p), device'[p] = device[p], added'[p] = added[p],
           p \in missed' \/ ( /\ p \notin missed /\ (p \in hidDevs' <=> p \in hidDevs)
                              /\ Waiting(queue, Bind(p, 1)) => Waiting(queue', Bind(p, 1))
                              /\ Removing(queue, p) => Removing(queue', p) )
    PROVE  ListedRight(p)'
BY DEF ListedRight, HidOnly

(* Every step keeps the list right, or its correction on the way.          *)
LEMMA ListStep == Typed /\ Fresh /\ ListInv /\ [Next]_vars => ListInv'
<1> SUFFICES ASSUME Typed, Fresh, ListInv, [Next]_vars, NEW p \in Paths PROVE ListedRight(p)'
  BY DEF ListInv
<1>1. /\ queue \in Seq(Events) /\ QueueTyped /\ WorkerTyped /\ ListedRight(p)
      /\ added \in [Paths -> Nat] /\ added[p] \in Nat /\ DOMAIN device = Paths
  BY DEF Typed, QueueTyped, DeviceTyped, ListInv
<1>2. CASE UNCHANGED <<device, added, missed, hidDevs, queue>>
  BY <1>1, <1>2, ListKept
<1>3. ASSUME NEW e \in Events, queue' = Append(queue, e), UNCHANGED <<device, added, missed, hidDevs>>,
             e.type \in {"change", "backlight"}
      PROVE  ListedRight(p)'
  <2>1. /\ Removing(queue, p) => Removing(queue', p)
        /\ Waiting(queue, Bind(p, 1)) => Waiting(queue', Bind(p, 1))
    BY <1>1, <1>3, AppendToQueue
  <2> QED BY <1>1, <1>3, <2>1, ListKept
<1>4. CASE FlipDisplay
  <2>1. [type |-> "backlight"] \in Events /\ [type |-> "backlight"].type = "backlight"
    BY DEF Events, Backlights
  <2> QED BY <1>2, <1>3, <1>4, <2>1 DEF FlipDisplay
<1>5. ASSUME NEW r \in Paths, AskForReset(r) PROVE ListedRight(p)'
  BY <1>3, <1>5, EventsMade DEF AskForReset
<1>6. ASSUME NEW r \in Paths, Attach(r) PROVE ListedRight(p)'
  <2>1. Event("add", r) \in Events /\ Event("add", r).type = "add"
    BY EventsMade
  <2>2. Emit(Event("add", r), r) /\ worker' = worker /\ hidDevs' = hidDevs /\ added' = added
    BY <1>6 DEF Attach
  <2>3. /\ Removing(queue', p) <=> Removing(queue, p)
        /\ Waiting(queue, Bind(p, 1)) => Waiting(queue', Bind(p, 1))
        /\ missed' = missed \/ missed' = missed \cup {r}
    BY <1>1, <2>1, <2>2, EmitKeeps
  <2>4. CASE p = r
    <3>1. added[p] = 0
      <4>1. Len(<<>>) = 0
        OBVIOUS
      <4> QED BY <1>6, <2>4, <4>1 DEF Attach, Typed, DeviceTyped
    <3> QED BY <1>1, <2>2, <2>3, <2>4, <3>1 DEF ListedRight, HidOnly
  <2>5. CASE p # r
    <3>1. device'[p] = device[p]
      BY <1>1, <1>6, <2>5 DEF Attach
    <3> QED BY <1>1, <2>2, <2>3, <2>5, <3>1, ListKept
  <2> QED BY <2>4, <2>5
<1>7. ASSUME NEW r \in Paths, AddInterface(r) PROVE ListedRight(p)'
  <2> DEFINE n == added[r] + 1
  <2>1. n \in Nat \ {0} /\ added[r] \in Nat /\ added'[r] = n /\ (p # r => added'[p] = added[p])
    BY <1>1, <1>7 DEF AddInterface
  <2>2. Emit(Bind(r, n), r) /\ worker' = worker /\ hidDevs' = hidDevs /\ device' = device
    BY <1>7 DEF AddInterface, Bind
  <2>3. n = 1 \/ (added[r] > 0 /\ \A i \in 1..added[r] : i \in 1..n)
    BY <2>1
  <2> HIDE DEF n
  <2>4. Bind(r, n) \in Events /\ Bind(r, n).type = "bind"
    BY <2>1, EventsMade
  <2>5. /\ Removing(queue', p) <=> Removing(queue, p)
        /\ \A f : Waiting(queue', f) <=> (Listening /\ f = Bind(r, n)) \/ Waiting(queue, f)
        /\ IF Listening THEN missed' = missed ELSE missed' = missed \cup {r}
    BY <1>1, <2>2, <2>4, EmitKeeps
  <2>6. CASE p = r
    <3>1. HidOnly(p)' => n = 1 \/ HidOnly(p)
      BY <2>1, <2>2, <2>3, <2>6 DEF HidOnly
    <3>2. added[p] > 0 => added'[p] > 0
      BY <2>1, <2>6 DEF n
    <3> QED BY <1>1, <2>1, <2>2, <2>5, <2>6, <3>1, <3>2 DEF ListedRight
  <2>7. CASE p # r
    <3>1. missed' = missed \/ missed' = missed \cup {r}
      BY <2>5
    <3> QED BY <1>1, <2>1, <2>2, <2>5, <2>7, <3>1, ListKept
  <2> QED BY <2>6, <2>7
<1>8. ASSUME NEW r \in Paths, Detach(r) PROVE ListedRight(p)'
  <2>1. /\ Event("remove", r) \in Events /\ Event("remove", r).type = "remove"
        /\ Event("remove", r).path = r
    BY EventsMade
  <2>2. Emit(Event("remove", r), r) /\ worker' = worker /\ hidDevs' = hidDevs
    BY <1>8 DEF Detach
  <2>3. /\ Removing(queue', p) <=> Removing(queue, p) \/ (Listening /\ r = p)
        /\ \A f : Waiting(queue, f) /\ f.path # r => Waiting(queue', f)
        /\ IF Listening THEN missed' = missed ELSE missed' = missed \cup {r}
    BY <1>1, <2>1, <2>2, EmitKeeps
  <2>4. CASE p = r
    <3>1. added'[p] = 0
      BY <1>1, <1>8, <2>4 DEF Detach
    <3> QED BY <2>2, <2>3, <2>4, <3>1 DEF ListedRight, HidOnly
  <2>5. CASE p # r
    <3>1. device'[p] = device[p] /\ added'[p] = added[p]
      BY <1>1, <1>8, <2>5 DEF Detach
    <3>2. Bind(p, 1).path = p
      BY EventsDiffer
    <3>3. missed' = missed \/ missed' = missed \cup {r}
      BY <2>3
    <3> QED BY <1>1, <2>2, <2>3, <2>5, <3>1, <3>2, <3>3, ListKept
  <2> QED BY <2>4, <2>5
<1>9. CASE HandleAdd \/ HandleBind \/ HandleBacklight \/ HandleRemove \/ Listen
  BY <1>2, <1>9 DEF HandleAdd, HandleBind, HandleBacklight, HandleRemove, Listen, Begin
<1>17. CASE HandleChange
  <2>1. UNCHANGED <<device, missed, hidDevs, queue>>
    BY <1>17 DEF HandleChange
  <2>2. CASE added'[p] = added[p]
    BY <1>1, <2>1, <2>2, ListKept
  <2>3. CASE added'[p] = 0 /\ device[p] = Hub
    <3>1. Hub[1] # "hid"
      BY DEF Hub
    <3> QED BY <1>1, <2>1, <2>3, <3>1 DEF ListedRight, HidOnly
  <2> QED BY <1>17, <2>2, <2>3, Unauthorizes
<1>10. CASE IgnoreBind
  <2>1. queue # <<>> /\ queue' = Tail(queue) /\ Head(queue).type = "bind"
    BY <1>10 DEF IgnoreBind, Handles
  <2>2. Removing(queue, p) => Removing(queue', p)
    BY <1>1, <2>1, TailOfQueue
  <2>3. Waiting(queue, Bind(p, 1)) => Waiting(queue', Bind(p, 1)) \/ Head(queue) = Bind(p, 1)
    BY <1>1, <2>1, TailOfQueue
  <2>4. Bind(p, 1).path = p
    BY EventsDiffer
  <2>5. UNCHANGED <<device, added, hidDevs>> /\ missed' = missed \cup {Head(queue).path}
    BY <1>10 DEF IgnoreBind
  <2> QED BY <1>1, <2>2, <2>3, <2>4, <2>5, ListKept
<1>11. CASE FinishAdd \/ FinishBacklight \/ FinishChange
  <2>1. queue # <<>> /\ Head(queue).type \in {"add", "backlight", "change"}
    BY <1>1, <1>11, Busy DEF FinishAdd, FinishBacklight, FinishChange
  <2>2. queue' = Tail(queue) /\ UNCHANGED <<device, added, missed, hidDevs>>
    BY <1>11 DEF FinishAdd, FinishBacklight, FinishChange, Finish
  <2>3. Removing(queue, p) => Removing(queue', p)
    BY <1>1, <2>1, <2>2, TailOfQueue
  <2>4. Waiting(queue, Bind(p, 1)) => Waiting(queue', Bind(p, 1)) \/ Head(queue) = Bind(p, 1)
    BY <1>1, <2>1, <2>2, TailOfQueue
  <2>5. Bind(p, 1).type = "bind"
    BY DEF Bind
  <2> QED BY <1>1, <2>1, <2>2, <2>3, <2>4, <2>5, ListKept
<1>12. CASE FinishBind
  <2>1. queue # <<>> /\ Head(queue).type = "bind" /\ Head(queue).path \in Paths
    BY <1>1, <1>12, Busy DEF FinishBind
  <2>2. /\ queue' = Tail(queue) /\ UNCHANGED <<device, added, missed>>
        /\ hidDevs' = IF HidOnly(Head(queue).path) THEN hidDevs \cup {Head(queue).path} ELSE hidDevs
    BY <1>12 DEF FinishBind, Finish
  <2>3. Removing(queue, p) => Removing(queue', p)
    BY <1>1, <2>1, <2>2, TailOfQueue
  <2>4. Waiting(queue, Bind(p, 1)) => Waiting(queue', Bind(p, 1)) \/ Head(queue) = Bind(p, 1)
    BY <1>1, <2>1, <2>2, TailOfQueue
  <2>5. Bind(p, 1).path = p
    BY EventsDiffer
  <2>6. HidOnly(p)' <=> HidOnly(p)
    BY <2>2 DEF HidOnly
  <2>7. HidOnly(p) => added[p] > 0 /\ device[p][1] = "hid"
    BY <1>1 DEF HidOnly
  <2> QED BY <1>1, <2>1, <2>2, <2>3, <2>4, <2>5, <2>6, <2>7 DEF ListedRight
<1>13. CASE FinishRemove
  <2>1. queue # <<>> /\ Head(queue).type = "remove" /\ Head(queue).path \in Paths
    BY <1>1, <1>13, Busy DEF FinishRemove
  <2>2. /\ queue' = Tail(queue) /\ UNCHANGED <<device, added>>
        /\ hidDevs' = hidDevs \ {Head(queue).path} /\ missed' = missed \ {Head(queue).path}
    BY <1>13 DEF FinishRemove
  <2>3. Removing(queue, p) => Removing(queue', p) \/ Head(queue).path = p
    BY <1>1, <2>1, <2>2, TailOfQueue
  <2>4. Waiting(queue, Bind(p, 1)) => Waiting(queue', Bind(p, 1))
    <3>1. Bind(p, 1).type = "bind"
      BY DEF Bind
    <3> QED BY <1>1, <2>1, <2>2, <3>1, TailOfQueue
  <2>5. CASE Head(queue).path = p
    <3>1. Removing(queue, p)
      BY <1>1, <2>1, <2>5, HeadRemoves
    <3>2. HidOnly(p)' => 1 \in 1..added[p]
      BY <1>1, <2>2 DEF HidOnly
    <3>3. HidOnly(p)' => Waiting(queue, Bind(p, 1))
      BY <3>1, <3>2 DEF Fresh, FreshAt
    <3> QED BY <2>2, <2>4, <2>5, <3>3 DEF ListedRight
  <2>6. CASE Head(queue).path # p
    BY <1>1, <2>2, <2>3, <2>4, <2>6, ListKept
  <2> QED BY <2>5, <2>6
<1>14. CASE Withdraw
  <2>1. UNCHANGED <<device, added, hidDevs>> /\ missed \subseteq missed'
    BY <1>14 DEF Withdraw
  <2>2. ASSUME NEW k \in 1..Len(queue), queue[k].type # "backlight", queue[k].path = p
        PROVE  p \in missed'
    BY <1>14, <2>2 DEF Withdraw
  <2>3. Removing(queue, p) => p \in missed'
    <3>1. \A k : k \in (0 + 1)..Len(queue) => k \in 1..Len(queue)
      OBVIOUS
    <3> QED BY <2>2, <3>1 DEF Removing, RemovedAfter
  <2>4. Waiting(queue, Bind(p, 1)) => p \in missed'
    <3>1. Bind(p, 1).type = "bind" /\ Bind(p, 1).path = p
      BY DEF Bind
    <3> QED BY <2>2, <3>1 DEF Waiting
  <2> QED BY <1>1, <2>1, <2>3, <2>4, ListKept
<1>15. CASE Register \/ FinishScan \/ EndScan \/ \E r \in Paths : Scan(r)
  BY <1>2, <1>15 DEF Register, FinishScan, EndScan, Scan
<1>16. CASE UNCHANGED vars
  BY <1>2, <1>16
<1> QED BY <1>4, <1>5, <1>6, <1>7, <1>8, <1>9, <1>10, <1>11, <1>12, <1>13, <1>14, <1>15, <1>16,
           <1>17 DEF Next, Kernel, Worker, Binder

(***************************************************************************)
(* What the worker is about to do.                                         *)
(***************************************************************************)
(* The plan for a uevent that counts is as good as one made now.           *)
LEMMA PlanStep ==
    Typed /\ Fresh /\ PlanPatient /\ PlanSuspends /\ [Next]_vars => (PlanPatient /\ PlanSuspends)'
<1> SUFFICES ASSUME Typed, Fresh, PlanPatient, PlanSuspends, [Next]_vars
             PROVE  PlanPatient' /\ PlanSuspends'
  OBVIOUS
<1>e. PICK e : e = Head(queue)
  OBVIOUS
<1>p. PICK p : p = e.path
  OBVIOUS
<1>1. queue \in Seq(Events) /\ QueueTyped /\ WorkerTyped /\ added \in [Paths -> Nat] /\ DOMAIN device = Paths
  BY DEF Typed, QueueTyped, DeviceTyped
<1>2. CASE worker' \notin {"add", "bind", "backlight"}
  BY <1>2 DEF PlanPatient, PlanSuspends
<1>3. ASSUME worker \in {"add", "bind"}, queue # <<>>, e \in Events, e.type = worker
      PROVE  /\ p \in Paths
             /\ worker = "bind" => e.intf \in Nat \ {0} /\ (e.intf <= added[p] \/ ~authorized[p] \/ Removing(queue, p))
             /\ worker = "add" => device[p] # <<>> \/ Removing(queue, p)
  <2>1. /\ p \in Paths
        /\ e.type = "add" => e = Add(p)
        /\ e.type = "bind" => e.intf \in Nat \ {0} /\ e = Bind(p, e.intf)
    BY <1>3, <1>p, EventsTyped
  <2>2. Waiting(queue, e) \/ Removing(queue, p)
    BY <1>1, <1>3, <1>e, <1>p, TailOfQueue
  <2>3. FreshAt(p)
    BY <2>1 DEF Fresh
  <2> QED BY <1>3, <2>1, <2>2, <2>3 DEF FreshAt
<1>4. worker \in {"add", "bind", "backlight"} => queue # <<>> /\ e \in Events /\ e.type = worker
  BY <1>1, <1>e, Busy
<1>5. ASSUME UNCHANGED <<worker, plan, displayOn>>, queue # <<>> => Head(queue') = e,
             Removing(queue, p) => Removing(queue', p), Blinking(queue) => Blinking(queue'),
             queue # <<>> /\ Blinking(Tail(queue)) => Blinking(Tail(queue')),
             HidOnly(p)' => HidOnly(p) \/ (worker = "bind" => Removing(queue, p)),
             worker = "bind" => \/ Removing(queue, p)
                                \/ /\ e.intf <= added'[p] => e.intf <= added[p]
                                   /\ e.intf <= added'[p] => device'[p] = device[p],
             worker = "add" => \/ Removing(queue, p)
                               \/ device'[p] = <<"adapter">> => device[p] = <<"adapter">>
      PROVE  PlanPatient' /\ PlanSuspends'
  <2>1. worker \in {"add", "bind", "backlight"} => Head(queue') = e /\ e = Head(queue)
    BY <1>4, <1>5, <1>e
  <2>2. PlanPatient'
    BY <1>4, <1>5, <2>1, <1>p DEF PlanPatient
  <2>3. PlanSuspends'
    BY <1>4, <1>5, <2>1, <1>p DEF PlanSuspends
  <2> QED BY <2>2, <2>3
<1>6. CASE UNCHANGED <<worker, plan, displayOn, queue, device, added>>
  BY <1>6 DEF PlanPatient, PlanSuspends, HidOnly
<1>7. CASE FlipDisplay
  <2>1. CASE Listening
    <3>1. [type |-> "backlight"] \in Events /\ [type |-> "backlight"].type = "backlight"
      BY DEF Events, Backlights
    <3>2. queue' = Append(queue, [type |-> "backlight"])
          /\ UNCHANGED <<worker, plan, device, added>>
      BY <1>7, <2>1 DEF FlipDisplay
    <3>3. Blinking(queue') /\ (Removing(queue, p) => Removing(queue', p))
      BY <1>1, <3>1, <3>2, AppendToQueue
    <3>4. queue # <<>> => Head(queue') = e /\ Tail(queue') = Append(Tail(queue), [type |-> "backlight"])
      BY <1>1, <3>1, <3>2, AppendToQueue, <1>e
    <3>5. queue # <<>> => Blinking(Tail(queue'))
      <4>1. queue # <<>> => Tail(queue) \in Seq(Events)
        BY <1>1, TailOfQueue
      <4>2. queue # <<>> => Blinking(Append(Tail(queue), [type |-> "backlight"]))
        BY <3>1, <4>1, AppendToQueue
      <4> QED BY <3>4, <4>2
    <3>6. worker \in {"add", "bind", "backlight"} => Head(queue') = e /\ e = Head(queue)
      BY <1>4, <3>4, <1>e
    <3>7. PlanPatient'
      BY <1>4, <3>2, <3>3, <3>5 DEF PlanPatient
    <3>8. PlanSuspends'
      BY <1>4, <3>2, <3>3, <3>6, <1>p DEF PlanSuspends
    <3> QED BY <3>7, <3>8
  <2>2. CASE ~Listening
    BY <1>2, <1>7, <2>2 DEF FlipDisplay, Listening
  <2> QED BY <2>1, <2>2
<1>8. ASSUME NEW r \in Paths, AskForReset(r) PROVE PlanPatient' /\ PlanSuspends'
  <2>1. /\ Event("change", r) \in Events
        /\ queue' = Append(queue, Event("change", r)) /\ UNCHANGED <<worker, plan, displayOn, device, added>>
    BY <1>8, EventsMade DEF AskForReset
  <2>2. /\ Blinking(queue) => Blinking(queue')
        /\ Removing(queue, p) => Removing(queue', p)
        /\ queue # <<>> => Head(queue') = e /\ Tail(queue') = Append(Tail(queue), Event("change", r))
    BY <1>1, <2>1, AppendToQueue, <1>e
  <2>3. queue # <<>> /\ Blinking(Tail(queue)) => Blinking(Tail(queue'))
    <3>1. queue # <<>> => Tail(queue) \in Seq(Events)
      BY <1>1, TailOfQueue
    <3>2. \A q \in Seq(Events) : Blinking(q) => Blinking(Append(q, Event("change", r)))
      BY <2>1, AppendToQueue
    <3> QED BY <2>2, <3>1, <3>2
  <2>4. HidOnly(p)' => HidOnly(p)
    BY <2>1 DEF HidOnly
  <2> QED BY <1>5, <2>1, <2>2, <2>3, <2>4
<1>9. ASSUME NEW r \in Paths, Attach(r) PROVE PlanPatient' /\ PlanSuspends'
  <2>1. Event("add", r) \in Events /\ Event("add", r).type = "add"
    BY EventsMade
  <2>2. Emit(Event("add", r), r) /\ UNCHANGED <<worker, plan, displayOn, added>>
    BY <1>9 DEF Attach
  <2>3. /\ Blinking(queue) => Blinking(queue')
        /\ Removing(queue, p) => Removing(queue', p)
        /\ queue # <<>> => Head(queue') = e /\ (Blinking(Tail(queue)) => Blinking(Tail(queue')))
    BY <1>1, <2>1, <2>2, EmitKeeps, <1>e
  <2>4. added[r] = 0 /\ device[r] = <<>> /\ (p # r => device'[p] = device[p])
    <3>1. Len(<<>>) = 0
      OBVIOUS
    <3> QED BY <1>1, <1>9, <3>1 DEF Attach, Typed, DeviceTyped
  <2>5. HidOnly(p)' => HidOnly(p)
    BY <2>2, <2>4 DEF HidOnly
  <2>6. worker = "bind" => p \in Paths /\ e.intf \in Nat \ {0}
    BY <1>3, <1>4
  <2>7. worker = "bind" /\ e.intf <= added'[p] => e.intf <= added[p] /\ device'[p] = device[p]
    BY <1>1, <2>2, <2>4, <2>6
  <2>8. worker = "add" => Removing(queue, p) \/ (device'[p] = <<"adapter">> => device[p] = <<"adapter">>)
    BY <1>3, <1>4, <2>4
  <2> QED BY <1>5, <2>2, <2>3, <2>5, <2>7, <2>8
<1>10. ASSUME NEW r \in Paths, AddInterface(r) PROVE PlanPatient' /\ PlanSuspends'
  <2> DEFINE n == added[r] + 1
  <2>1. n \in Nat \ {0} /\ added[r] \in Nat /\ added'[r] = n /\ (p # r => added'[p] = added[p])
    BY <1>1, <1>10 DEF AddInterface
  <2>2. Emit(Bind(r, n), r) /\ UNCHANGED <<worker, plan, displayOn, device>>
    BY <1>10 DEF AddInterface, Bind
  <2>3. added[r] = 0 \/ (added[r] > 0 /\ \A i \in 1..added[r] : i \in 1..n)
    BY <2>1
  <2> HIDE DEF n
  <2>4. Bind(r, n) \in Events /\ Bind(r, n).type = "bind"
    BY <2>1, EventsMade
  <2>5. /\ Blinking(queue) => Blinking(queue')
        /\ Removing(queue, p) => Removing(queue', p)
        /\ queue # <<>> => Head(queue') = e /\ (Blinking(Tail(queue)) => Blinking(Tail(queue')))
    BY <1>1, <2>2, <2>4, EmitKeeps, <1>e
  <2>6. HidOnly(p)' => HidOnly(p) \/ (p = r /\ added[r] = 0)
    BY <2>1, <2>2, <2>3 DEF HidOnly
  <2>7. worker = "bind" => /\ e.intf \in Nat \ {0}
                           /\ e.intf <= added[p] \/ ~authorized[p] \/ Removing(queue, p)
    BY <1>3, <1>4
  <2>8. authorized[r]
    BY <1>10 DEF AddInterface
  <2>9. worker = "bind" /\ p = r /\ added[r] = 0 => Removing(queue, p)
    BY <2>7, <2>8
  <2>10. worker = "bind" => \/ Removing(queue, p)
                            \/ e.intf <= added'[p] => e.intf <= added[p]
    BY <2>1, <2>7, <2>8
  <2> QED BY <1>5, <2>2, <2>5, <2>6, <2>9, <2>10
<1>11. ASSUME NEW r \in Paths, Detach(r) PROVE PlanPatient' /\ PlanSuspends'
  <2>1. Event("remove", r) \in Events /\ Event("remove", r).type = "remove"
    BY EventsMade
  <2>2. Emit(Event("remove", r), r) /\ UNCHANGED <<worker, plan, displayOn>>
    BY <1>11 DEF Detach
  <2>3. /\ Blinking(queue) => Blinking(queue')
        /\ Removing(queue, p) => Removing(queue', p)
        /\ queue # <<>> => Head(queue') = e /\ (Blinking(Tail(queue)) => Blinking(Tail(queue')))
    BY <1>1, <2>1, <2>2, EmitKeeps, <1>e
  <2>4. /\ device'[r] = <<>> /\ added'[r] = 0
        /\ p # r => device'[p] = device[p] /\ added'[p] = added[p]
    BY <1>1, <1>11 DEF Detach
  <2>5. HidOnly(p)' => HidOnly(p)
    BY <2>4 DEF HidOnly
  <2>6. worker = "bind" => e.intf \in Nat \ {0}
    BY <1>3, <1>4
  <2>7. worker = "bind" /\ e.intf <= added'[p] => e.intf <= added[p] /\ device'[p] = device[p]
    BY <2>4, <2>6
  <2> QED BY <1>5, <2>2, <2>3, <2>4, <2>5, <2>7
<1>12. CASE HandleAdd
  <2>1. worker' = "add" /\ queue' = queue /\ device' = device
        /\ plan' = (IF device[p] = <<"adapter">> THEN "auto" ELSE "nothing")
    BY <1>1, <1>12, About, <1>e, <1>p DEF HandleAdd, Begin
  <2> QED BY <2>1, <1>e, <1>p DEF PlanPatient, PlanSuspends
<1>13. CASE HandleBind
  <2>1. /\ worker' = "bind" /\ UNCHANGED <<queue, device, added, displayOn>>
        /\ plan' = InterfacePlan(p, e.intf) /\ queue # <<>> /\ e \in Events /\ p \in Paths
        /\ e.intf \in Nat \ {0} /\ e = Bind(p, e.intf)
    BY <1>1, <1>13, About, <1>e, <1>p DEF HandleBind, Begin
  <2>2. Waiting(queue, e) \/ Removing(queue, p)
    BY <1>1, <2>1, TailOfQueue, <1>e, <1>p
  <2>3. e.intf <= added[p] \/ Removing(queue, p) \/ ~HidOnly(p)
    <3>1. ~authorized[p] => added[p] = 0
      BY <2>1 DEF Typed, DeviceTyped
    <3> QED BY <2>1, <2>2, <3>1 DEF Fresh, FreshAt, HidOnly
  <2>4. HidOnly(p) /\ e.intf <= added[p] => device[p][e.intf] = "hid"
    <3>1. added[p] \in Nat
      BY <1>1, <2>1
    <3> QED BY <2>1, <3>1 DEF HidOnly
  <2>5. e.intf <= added[p] => ~(e.intf > added[p])
    BY <1>1, <2>1
  <2>6. HidOnly(p)' <=> HidOnly(p)
    BY <2>1 DEF HidOnly
  <2>7. PlanPatient'
    BY <2>1, <2>3, <2>4, <2>5, <2>6, <1>e, <1>p DEF PlanPatient, InterfacePlan
  <2>8. PlanSuspends'
    BY <2>1, <2>5, <1>e, <1>p DEF PlanSuspends, InterfacePlan, Suspendable
  <2> QED BY <2>7, <2>8
<1>14. CASE HandleBacklight
  <2>1. worker' = "backlight" /\ (displayOn => plan' = "60000") /\ displayOn' = displayOn
    BY <1>14, About DEF HandleBacklight, Begin, Typed
  <2> QED BY <2>1 DEF PlanPatient, PlanSuspends
<1>15. CASE FinishAdd \/ FinishBind \/ FinishBacklight \/ FinishChange \/ FinishRemove
            \/ HandleChange \/ HandleRemove \/ Listen \/ Register \/ Withdraw
  BY <1>2, <1>15 DEF FinishAdd, FinishBind, FinishBacklight, FinishChange, FinishRemove, Finish, 
     HandleChange, HandleRemove, Listen, Register, Withdraw
<1>16. CASE IgnoreBind
  BY <1>2, <1>16 DEF IgnoreBind, Handles
<1>17. CASE FinishScan \/ EndScan \/ (\E r \in Paths : Scan(r)) \/ UNCHANGED vars
  BY <1>6, <1>17 DEF FinishScan, EndScan, Scan
<1> QED BY <1>7, <1>8, <1>9, <1>10, <1>11, <1>12, <1>13, <1>14, <1>15, <1>16, <1>17
        DEF Next, Kernel, Worker, Binder

(***************************************************************************)
(* The display.                                                            *)
(***************************************************************************)
LEMMA PatienceKept ==
    ASSUME NEW p \in Paths, PatientAt(p),
           displayOn' /\ ~overslept' /\ p \in hidDevs' \ missed' =>
              /\ displayOn /\ ~overslept /\ p \in hidDevs \ missed
              /\ delay[p] = "60000" => delay'[p] = "60000" \/ Removing(queue', p)
              /\ Removing(queue, p) => Removing(queue', p)
              /\ Blinking(queue) => Blinking(queue')
    PROVE  PatientAt(p)'
BY DEF PatientAt

(* Every step keeps short delays explained.                                *)
LEMMA PatienceStep == Typed /\ ListInv /\ PatienceInv /\ [Next]_vars => \A p \in Paths : PatientAt(p)'
<1> SUFFICES ASSUME Typed, ListInv, PatienceInv, [Next]_vars, NEW p \in Paths PROVE PatientAt(p)'
  OBVIOUS
<1>1. /\ queue \in Seq(Events) /\ QueueTyped /\ WorkerTyped /\ PowerTyped /\ PatientAt(p)
      /\ DOMAIN delay = Paths
  BY DEF Typed, QueueTyped, PowerTyped, PatienceInv
<1>2. CASE UNCHANGED <<displayOn, delay, overslept, missed, hidDevs, queue>>
  BY <1>1, <1>2, PatienceKept
<1>3. CASE FlipDisplay
  <2>1. CASE Listening
    <3>1. [type |-> "backlight"] \in Events /\ [type |-> "backlight"].type = "backlight"
      BY DEF Events, Backlights
    <3>2. queue' = Append(queue, [type |-> "backlight"])
      BY <1>3, <2>1 DEF FlipDisplay
    <3>3. Blinking(queue')
      BY <1>1, <3>1, <3>2, AppendToQueue
    <3> QED BY <3>3 DEF PatientAt
  <2>2. CASE ~Listening
    BY <1>3, <2>2 DEF FlipDisplay, PatientAt
  <2> QED BY <2>1, <2>2
<1>4. ASSUME NEW r \in Paths, AskForReset(r) PROVE PatientAt(p)'
  <2>1. /\ Event("change", r) \in Events /\ queue' = Append(queue, Event("change", r))
        /\ UNCHANGED <<displayOn, delay, overslept, missed, hidDevs>>
    BY <1>4, EventsMade DEF AskForReset
  <2>2. /\ Blinking(queue) => Blinking(queue')
        /\ Removing(queue, p) => Removing(queue', p)
    BY <1>1, <2>1, AppendToQueue
  <2> QED BY <1>1, <2>1, <2>2, PatienceKept
<1>5. ASSUME NEW e \in Events, e.type # "backlight", NEW r \in Paths, Emit(e, r), worker' = worker,
             UNCHANGED <<displayOn, hidDevs>>,
             delay'[p] = delay[p] \/ (p = r /\ e.type = "remove" /\ e.path = r)
      PROVE  PatientAt(p)'
  <2>1. /\ Blinking(queue) => Blinking(queue')
        /\ Removing(queue, p) => Removing(queue', p)
        /\ Listening /\ e.type = "remove" /\ e.path = p => Removing(queue', p)
        /\ overslept' = overslept
        /\ IF Listening THEN missed' = missed ELSE missed' = missed \cup {r}
    BY <1>1, <1>5, EmitKeeps
  <2>2. p \notin missed' => Listening \/ p # r
    BY <1>5, <2>1
  <2> QED BY <1>1, <1>5, <2>1, <2>2, PatienceKept
<1>6. ASSUME NEW r \in Paths, Attach(r) PROVE PatientAt(p)'
  <2>1. Event("add", r) \in Events /\ Event("add", r).type = "add"
    BY EventsMade
  <2> QED BY <1>5, <1>6, <2>1 DEF Attach
<1>7. ASSUME NEW r \in Paths, AddInterface(r) PROVE PatientAt(p)'
  <2> DEFINE n == added[r] + 1
  <2>1. n \in Nat \ {0}
    BY DEF Typed, DeviceTyped
  <2>2. Emit(Bind(r, n), r) /\ UNCHANGED <<worker, displayOn, delay, hidDevs>>
    BY <1>7 DEF AddInterface, Bind
  <2> HIDE DEF n
  <2>3. Bind(r, n) \in Events /\ Bind(r, n).type = "bind"
    BY <2>1, EventsMade
  <2> QED BY <1>5, <2>2, <2>3
<1>8. ASSUME NEW r \in Paths, Detach(r) PROVE PatientAt(p)'
  <2>1. /\ Event("remove", r) \in Events /\ Event("remove", r).type = "remove"
        /\ Event("remove", r).path = r
    BY EventsMade
  <2>2. delay'[p] = delay[p] \/ p = r
    BY <1>1, <1>8 DEF Detach
  <2> QED BY <1>5, <1>8, <2>1, <2>2 DEF Detach
<1>9. CASE HandleAdd \/ HandleBind \/ HandleBacklight \/ HandleChange \/ HandleRemove \/ Listen
  BY <1>2, <1>9 DEF HandleAdd, HandleBind, HandleBacklight, HandleChange, HandleRemove, Listen, Begin
<1>10. ASSUME queue # <<>>, queue' = Tail(queue), Head(queue).type # "backlight"
       PROVE  /\ Blinking(queue) => Blinking(queue')
              /\ Removing(queue, p) =>
                    Removing(queue', p) \/ (Head(queue).type = "remove" /\ Head(queue).path = p)
  BY <1>1, <1>10, TailOfQueue
<1>11. CASE IgnoreBind
  <2>1. queue # <<>> /\ queue' = Tail(queue) /\ Head(queue).type = "bind"
    BY <1>11 DEF IgnoreBind, Handles
  <2>2. UNCHANGED <<displayOn, delay, overslept, hidDevs>> /\ missed \subseteq missed'
    BY <1>11 DEF IgnoreBind
  <2> QED BY <1>1, <1>10, <2>1, <2>2, PatienceKept
<1>12. CASE FinishAdd
  <2>1. queue # <<>> /\ Head(queue).type = "add" /\ Head(queue).path \in Paths /\ plan \in Suspends
    BY <1>1, <1>12, Busy DEF FinishAdd, WorkerTyped
  <2>2. /\ queue' = Tail(queue) /\ UNCHANGED <<displayOn, overslept, missed, hidDevs>>
        /\ Do(plan, Head(queue).path)
    BY <1>12 DEF FinishAdd, Finish
  <2>3. delay[p] = "60000" => delay'[p] = "60000"
    BY <1>1, <2>1, <2>2, DoKeeps
  <2> QED BY <1>1, <1>10, <2>1, <2>2, <2>3, PatienceKept
<1>13. CASE FinishBind
  <2>1. /\ queue # <<>> /\ Head(queue).type = "bind" /\ Head(queue).path \in Paths
        /\ plan \in Suspends /\ worker = "bind"
    BY <1>1, <1>13, Busy DEF FinishBind, WorkerTyped
  <2>2. /\ queue' = Tail(queue) /\ UNCHANGED <<displayOn, overslept, missed>>
        /\ Do(plan, Head(queue).path)
        /\ hidDevs' = IF HidOnly(Head(queue).path) THEN hidDevs \cup {Head(queue).path} ELSE hidDevs
    BY <1>13 DEF FinishBind, Finish
  <2>3. delay[p] = "60000" => delay'[p] = "60000"
    BY <1>1, <2>1, <2>2, DoKeeps
  <2>4. CASE p \in hidDevs \/ p \notin hidDevs'
    BY <1>1, <1>10, <2>1, <2>2, <2>3, <2>4, PatienceKept
  <2>5. CASE p \notin hidDevs /\ p \in hidDevs'
    <3>1. p = Head(queue).path /\ HidOnly(p)
      BY <2>2, <2>5
    <3>2. displayOn => plan = "60000" \/ Removing(queue, p) \/ Blinking(queue)
      BY <2>1, <3>1 DEF PatienceInv, PlanPatient
    <3>3. device[p] # <<>>
      <4>1. Len(<<>>) = 0 /\ added[p] \in Nat /\ added[p] <= Len(device[p])
        BY DEF Typed, DeviceTyped
      <4> QED BY <3>1, <4>1 DEF HidOnly
    <3>4. plan = "60000" => delay'[p] = "60000"
      BY <1>1, <2>1, <2>2, <3>1, <3>3, DoKeeps
    <3> QED BY <1>10, <2>1, <2>2, <3>2, <3>4 DEF PatientAt
  <2> QED BY <2>4, <2>5
<1>14. CASE FinishBacklight
  <2>1. queue # <<>> /\ Head(queue).type = "backlight" /\ worker = "backlight"
    BY <1>1, <1>14, Busy DEF FinishBacklight
  <2>2. /\ queue' = Tail(queue) /\ UNCHANGED <<displayOn, missed, hidDevs>>
        /\ p \in hidDevs /\ device[p] # <<>> => delay'[p] = plan
    BY <1>14 DEF FinishBacklight
  <2>3. displayOn => plan = "60000" \/ Blinking(queue')
    BY <2>1, <2>2 DEF PatienceInv, PlanPatient
  <2>4. p \in hidDevs \ missed /\ device[p] = <<>> => Removing(queue', p)
    <3>1. Len(<<>>) = 0 /\ added[p] \in Nat /\ added[p] <= Len(device[p])
      BY DEF Typed, DeviceTyped
    <3>2. device[p] = <<>> => ~(added[p] > 0)
      BY <3>1
    <3>3. p \in hidDevs \ missed /\ device[p] = <<>> => Removing(queue, p)
      BY <3>2 DEF ListInv, ListedRight
    <3>4. Removing(queue, p) => Removing(queue', p)
      BY <1>1, <2>1, <2>2, TailOfQueue
    <3> QED BY <3>3, <3>4
  <2> QED BY <2>2, <2>3, <2>4 DEF PatientAt
<1>15. CASE FinishChange
  <2>1. queue # <<>> /\ Head(queue).type = "change" /\ queue' = Tail(queue)
        /\ UNCHANGED <<displayOn, delay, overslept, missed, hidDevs>>
    BY <1>1, <1>15, Busy DEF FinishChange, Finish
  <2> QED BY <1>1, <1>10, <2>1, PatienceKept
<1>16. CASE FinishRemove
  <2>1. queue # <<>> /\ Head(queue).type = "remove"
    BY <1>1, <1>16, Busy DEF FinishRemove
  <2>2. /\ queue' = Tail(queue) /\ UNCHANGED <<displayOn, delay, overslept>>
        /\ hidDevs' = hidDevs \ {Head(queue).path} /\ missed' = missed \ {Head(queue).path}
    BY <1>16 DEF FinishRemove
  <2> QED BY <1>1, <1>10, <2>1, <2>2, PatienceKept
<1>17. CASE Withdraw
  <2>1. UNCHANGED <<displayOn, delay, hidDevs>> /\ missed \subseteq missed' /\ queue' = <<>>
    BY <1>17 DEF Withdraw
  <2>2. Blinking(queue) \/ overslept => overslept'
    BY <1>17 DEF Withdraw, Blinking
  <2>3. Removing(queue, p) => p \in missed'
    <3>1. \A k : k \in (0 + 1)..Len(queue) => k \in 1..Len(queue)
      OBVIOUS
    <3>2. ASSUME NEW k \in 1..Len(queue), queue[k].type = "remove", queue[k].path = p
          PROVE  p \in missed'
      BY <1>17, <3>2 DEF Withdraw
    <3> QED BY <3>1, <3>2 DEF Removing, RemovedAfter
  <2> QED BY <1>1, <2>1, <2>2, <2>3 DEF PatientAt
<1>18. CASE FinishScan
  <2>1. UNCHANGED <<displayOn, overslept, missed, hidDevs, queue>>
    BY <1>18 DEF FinishScan
  <2>2. delay[p] = "60000" => delay'[p] = "60000"
    <3>1. CASE scan = NoScan
      BY <1>18, <3>1 DEF FinishScan
    <3>2. CASE scan # NoScan
      <4>1. scan.plan \in Suspends /\ scan.path \in Paths /\ Do(scan.plan, scan.path)
        BY <1>18, <3>2 DEF FinishScan, Typed, SessionTyped
      <4> QED BY <1>1, <4>1, DoKeeps
    <3> QED BY <3>1, <3>2
  <2> QED BY <1>1, <2>1, <2>2, PatienceKept
<1>19. CASE Register \/ EndScan \/ \E r \in Paths : Scan(r)
  BY <1>2, <1>19 DEF Register, EndScan, Scan
<1>20. CASE UNCHANGED vars
  BY <1>2, <1>20
<1> QED BY <1>3, <1>4, <1>6, <1>7, <1>8, <1>9, <1>11, <1>12, <1>13, <1>14, <1>15, <1>16, <1>17,
           <1>18, <1>19, <1>20 DEF Next, Kernel, Worker, Binder

(***************************************************************************)
(* Autosuspend.                                                            *)
(***************************************************************************)
LEMMA SuspendsKept ==
    ASSUME NEW p \in Paths, SuspendsAt(p), device'[p] = device[p], added'[p] = added[p],
           p \notin unseen' =>
              /\ p \notin unseen
              /\ control[p] = "auto" => control'[p] = "auto"
              /\ \A i \in 1..added[p] : Waiting(queue, Bind(p, i)) /\ device[p][i] \in Suspendable
                    => Waiting(queue', Bind(p, i)) \/ control'[p] = "auto"
              /\ Waiting(queue, Add(p)) /\ device[p] = <<"adapter">>
                    => Waiting(queue', Add(p)) \/ control'[p] = "auto"
              /\ added[p] > 0 /\ Scanned(p) => Scanned(p)' \/ control'[p] = "auto",
           added[p] \in Nat
    PROVE  SuspendsAt(p)'
<1> SUFFICES ASSUME p \notin unseen' PROVE SuspendsAt(p)'
  BY DEF SuspendsAt
<1>1. ASSUME NEW i \in 1..added[p], device[p][i] \in Suspendable
      PROVE  control'[p] = "auto" \/ Waiting(queue', Bind(p, i)) \/ Scanned(p)'
  <2>1. control[p] = "auto" \/ Waiting(queue, Bind(p, i)) \/ Scanned(p)
    BY <1>1 DEF SuspendsAt
  <2>2. added[p] > 0
    BY <1>1
  <2> QED BY <1>1, <2>1, <2>2
<1>2. device[p] = <<"adapter">> => control'[p] = "auto" \/ Waiting(queue', Add(p))
  BY DEF SuspendsAt
<1> QED BY <1>1, <1>2 DEF SuspendsAt

(* A uevent of neither kind is taken.                                      *)
LEMMA TakenElse ==
    ASSUME NEW p, NEW q \in Seq(Events), q # <<>>, Head(q).type \notin {"add", "bind"}
    PROVE  /\ \A i : Waiting(q, Bind(p, i)) => Waiting(Tail(q), Bind(p, i))
           /\ Waiting(q, Add(p)) => Waiting(Tail(q), Add(p))
<1>1. Add(p).type = "add" /\ \A i : Bind(p, i).type = "bind"
  BY DEF Add, Event, Bind
<1>2. \A e : Waiting(q, e) => Waiting(Tail(q), e) \/ e = Head(q)
  BY TailOfQueue
<1> QED BY <1>1, <1>2

(* Every step keeps devices that do not suspend explained.                 *)
LEMMA SuspendStep ==
    Typed /\ Fresh /\ SuspendInv /\ [Next]_vars => \A p \in Paths : SuspendsAt(p)'
<1> SUFFICES ASSUME Typed, Fresh, SuspendInv, [Next]_vars, NEW p \in Paths PROVE SuspendsAt(p)'
  OBVIOUS
<1>1. /\ queue \in Seq(Events) /\ QueueTyped /\ WorkerTyped /\ PowerTyped /\ SuspendsAt(p)
      /\ DOMAIN control = Paths /\ DOMAIN device = Paths
      /\ added \in [Paths -> Nat] /\ added[p] \in Nat
  BY DEF Typed, QueueTyped, PowerTyped, DeviceTyped, SuspendInv
<1>2. Add(p).path = p /\ \A i : Bind(p, i).path = p
  BY EventsDiffer
<1>3. Add(p).type = "add" /\ \A i : Bind(p, i).type = "bind" /\ Bind(p, i).intf = i
  BY DEF Add, Event, Bind
<1>4. device[p] = <<>> => added[p] = 0
  <2>1. Len(<<>>) = 0 /\ added[p] <= Len(device[p])
    BY DEF Typed, DeviceTyped
  <2> QED BY <1>1, <2>1
<1>5. CASE UNCHANGED <<device, added, control, unseen, queue, session>>
  BY <1>1, <1>5, SuspendsKept DEF Scanned
<1>6. ASSUME NEW e \in Events, queue' = Append(queue, e), e.type # "remove",
             UNCHANGED <<device, added, control, unseen, session>>
      PROVE  SuspendsAt(p)'
  <2>1. \A f : Waiting(queue, f) => Waiting(queue', f)
    BY <1>1, <1>6, AppendToQueue
  <2> QED BY <1>1, <1>6, <2>1, SuspendsKept DEF Scanned
<1>7. CASE FlipDisplay
  <2>1. [type |-> "backlight"] \in Events /\ [type |-> "backlight"].type = "backlight"
    BY DEF Events, Backlights
  <2> QED BY <1>5, <1>6, <1>7, <2>1 DEF FlipDisplay
<1>8. ASSUME NEW r \in Paths, AskForReset(r) PROVE SuspendsAt(p)'
  <2>1. Event("change", r) \in Events /\ Event("change", r).type = "change"
    BY EventsMade
  <2> QED BY <1>6, <1>8, <2>1 DEF AskForReset
<1>9. ASSUME NEW r \in Paths, Attach(r) PROVE SuspendsAt(p)'
  <2>1. Event("add", r) \in Events /\ Event("add", r).type = "add"
    BY EventsMade
  <2>2. Emit(Event("add", r), r) /\ worker' = worker
        /\ UNCHANGED <<added, control, session>>
    BY <1>9 DEF Attach
  <2>3. /\ \A f : Waiting(queue, f) => Waiting(queue', f)
        /\ Listening => Waiting(queue', Add(r)) /\ unseen' = unseen
        /\ ~Listening => unseen' = unseen \cup {r}
    BY <1>1, <2>1, <2>2, EmitKeeps DEF Add
  <2>4. CASE p = r
    <3>1. added[p] = 0 /\ ~(\E i \in 1..added[p] : TRUE)
      BY <1>4, <1>9, <2>4 DEF Attach
    <3> QED BY <2>2, <2>3, <2>4, <3>1 DEF SuspendsAt
  <2>5. CASE p # r
    <3>1. device'[p] = device[p]
      BY <1>1, <1>9, <2>5 DEF Attach
    <3> QED BY <1>1, <2>2, <2>3, <2>5, <3>1, SuspendsKept DEF Scanned
  <2> QED BY <2>4, <2>5
<1>10. ASSUME NEW r \in Paths, AddInterface(r) PROVE SuspendsAt(p)'
  <2> DEFINE n == added[r] + 1
  <2>1. n \in Nat \ {0} /\ added'[r] = n /\ (p # r => added'[p] = added[p])
    BY <1>1, <1>10 DEF AddInterface
  <2>2. Emit(Bind(r, n), r) /\ worker' = worker
        /\ UNCHANGED <<device, control, session>>
    BY <1>10 DEF AddInterface, Bind
  <2>3. p = r => \A i \in 1..n : i = n \/ i \in 1..added[p]
    BY <1>1
  <2> HIDE DEF n
  <2>4. Bind(r, n) \in Events /\ Bind(r, n).type = "bind"
    BY <2>1, EventsMade
  <2>5. /\ \A f : Waiting(queue, f) => Waiting(queue', f)
        /\ Listening => Waiting(queue', Bind(r, n)) /\ unseen' = unseen
        /\ ~Listening => unseen' = unseen \cup {r}
    BY <1>1, <2>2, <2>4, EmitKeeps
  <2>6. CASE p = r
    <3> SUFFICES ASSUME p \notin unseen' PROVE SuspendsAt(p)'
      BY DEF SuspendsAt
    <3>1. p \notin unseen /\ Waiting(queue', Bind(p, n))
      BY <2>5, <2>6
    <3>2. Scanned(p)' <=> Scanned(p)
      BY <2>2 DEF Scanned
    <3>3. ASSUME NEW i \in 1..n, device'[p][i] \in Suspendable
          PROVE  control'[p] = "auto" \/ Waiting(queue', Bind(p, i)) \/ Scanned(p)'
      BY <1>1, <2>2, <2>3, <2>5, <2>6, <3>1, <3>2, <3>3 DEF SuspendsAt
    <3> QED BY <1>1, <2>1, <2>2, <2>5, <2>6, <3>1, <3>3 DEF SuspendsAt
  <2>7. CASE p # r
    BY <1>1, <2>1, <2>2, <2>5, <2>7, SuspendsKept DEF Scanned
  <2> QED BY <2>6, <2>7
<1>11. ASSUME NEW r \in Paths, Detach(r) PROVE SuspendsAt(p)'
  <2>1. /\ Event("remove", r) \in Events /\ Event("remove", r).type = "remove"
        /\ Event("remove", r).path = r
    BY EventsMade
  <2>2. Emit(Event("remove", r), r) /\ worker' = worker /\ UNCHANGED session
    BY <1>11 DEF Detach
  <2>3. /\ \A f : Waiting(queue, f) /\ f.path # r => Waiting(queue', f)
        /\ unseen' = unseen \/ unseen' = unseen \cup {r}
    BY <1>1, <2>1, <2>2, EmitKeeps
  <2>4. CASE p = r
    <3>1. added'[p] = 0 /\ device'[p] = <<>> /\ ~(\E i \in 1..0 : TRUE) /\ <<>> # <<"adapter">>
      BY <1>1, <1>11, <2>4 DEF Detach
    <3> QED BY <3>1 DEF SuspendsAt
  <2>5. CASE p # r
    <3>1. device'[p] = device[p] /\ added'[p] = added[p] /\ control'[p] = control[p]
      BY <1>1, <1>11, <2>5 DEF Detach
    <3> QED BY <1>1, <1>2, <2>2, <2>3, <2>5, <3>1, SuspendsKept DEF Scanned
  <2> QED BY <2>4, <2>5
<1>12. CASE HandleAdd \/ HandleBind \/ HandleBacklight \/ HandleRemove \/ Listen
  BY <1>5, <1>12 DEF HandleAdd, HandleBind, HandleBacklight, HandleRemove, Listen, Begin
<1>24. CASE HandleChange
  <2>1. UNCHANGED <<device, control, unseen, queue, session>>
    BY <1>24 DEF HandleChange
  <2>2. CASE added'[p] = added[p]
    BY <1>1, <2>1, <2>2, SuspendsKept DEF Scanned
  <2>3. CASE added'[p] = 0
    BY <1>1, <2>1, <2>3 DEF SuspendsAt
  <2> QED BY <1>24, <2>2, <2>3, Unauthorizes
<1>13. CASE IgnoreBind
  <2>1. queue # <<>> /\ Head(queue).type = "bind"
    BY <1>13 DEF IgnoreBind, Handles
  <2>2. /\ queue' = Tail(queue) /\ UNCHANGED <<device, added, control, session>>
        /\ unseen' = unseen \cup {Head(queue).path}
    BY <1>13 DEF IgnoreBind
  <2>3. \A f : Waiting(queue, f) => Waiting(queue', f) \/ f = Head(queue)
    BY <1>1, <2>1, <2>2, TailOfQueue
  <2> QED BY <1>1, <1>2, <1>3, <2>1, <2>2, <2>3, SuspendsKept DEF Scanned
<1>14. CASE FinishAdd
  <2>1. queue # <<>> /\ Head(queue).type = "add" /\ Head(queue).path \in Paths /\ plan \in Suspends
        /\ worker = "add"
    BY <1>1, <1>14, Busy DEF FinishAdd, WorkerTyped
  <2>2. /\ queue' = Tail(queue) /\ UNCHANGED <<device, added, session, unseen>>
        /\ Do(plan, Head(queue).path)
    BY <1>14 DEF FinishAdd, Finish
  <2>3. control[p] = "auto" => control'[p] = "auto"
    BY <1>1, <2>1, <2>2, DoKeeps
  <2>4. \A f : Waiting(queue, f) =>
           Waiting(queue', f) \/ (f = Head(queue) /\ ~Removing(queue', f.path))
    BY <1>1, <2>1, <2>2, TailOfQueue
  <2>5. ASSUME Add(p) = Head(queue), ~Removing(queue', p), device[p] = <<"adapter">>
        PROVE  control'[p] = "auto"
    <3>1. ~Removing(queue, p)
      BY <1>1, <2>1, <2>2, <2>5, TailOfQueue
    <3>2. p = Head(queue).path
      BY <1>2, <2>5
    <3>3. plan # "nothing"
      BY <2>1, <2>5, <3>1, <3>2 DEF SuspendInv, PlanSuspends
    <3>4. device[p] # <<>>
      BY <2>5
    <3> QED BY <1>1, <2>1, <2>2, <3>2, <3>3, <3>4, DoKeeps
  <2> QED BY <1>1, <1>2, <1>3, <2>1, <2>2, <2>3, <2>4, <2>5, SuspendsKept DEF Scanned
<1>15. CASE FinishBind
  <2>1. queue # <<>> /\ Head(queue).type = "bind" /\ Head(queue).path \in Paths /\ plan \in Suspends
        /\ worker = "bind"
    BY <1>1, <1>15, Busy DEF FinishBind, WorkerTyped
  <2>2. /\ queue' = Tail(queue) /\ UNCHANGED <<device, added, session, unseen>>
        /\ Do(plan, Head(queue).path)
    BY <1>15 DEF FinishBind, Finish
  <2>3. control[p] = "auto" => control'[p] = "auto"
    BY <1>1, <2>1, <2>2, DoKeeps
  <2>4. \A f : Waiting(queue, f) =>
           Waiting(queue', f) \/ (f = Head(queue) /\ ~Removing(queue', f.path))
    BY <1>1, <2>1, <2>2, TailOfQueue
  <2>5. ASSUME NEW i \in 1..added[p], Bind(p, i) = Head(queue), ~Removing(queue', p),
               device[p][i] \in Suspendable
        PROVE  control'[p] = "auto"
    <3>1. ~Removing(queue, p)
      BY <1>1, <2>1, <2>2, <2>5, TailOfQueue
    <3>2. p = Head(queue).path /\ i = Head(queue).intf /\ i <= added[p]
      BY <1>1, <1>2, <1>3, <2>5
    <3>3. plan # "nothing"
      BY <2>1, <2>5, <3>1, <3>2 DEF SuspendInv, PlanSuspends
    <3>4. device[p] # <<>>
      BY <1>1, <1>4, <2>5
    <3> QED BY <1>1, <2>1, <2>2, <3>2, <3>3, <3>4, DoKeeps
  <2> QED BY <1>1, <1>2, <1>3, <2>1, <2>2, <2>3, <2>4, <2>5, SuspendsKept DEF Scanned
<1>16. CASE FinishBacklight
  <2>1. queue # <<>> /\ Head(queue).type = "backlight"
    BY <1>1, <1>16, Busy DEF FinishBacklight
  <2>2. /\ queue' = Tail(queue) /\ UNCHANGED <<device, added, session, unseen>>
        /\ control[p] = "auto" => control'[p] = "auto"
    BY <1>16 DEF FinishBacklight
  <2> QED BY <1>1, <2>1, <2>2, TakenElse, SuspendsKept DEF Scanned
<1>17. CASE FinishChange
  <2>1. queue # <<>> /\ Head(queue).type = "change"
    BY <1>1, <1>17, Busy DEF FinishChange
  <2>2. queue' = Tail(queue) /\ UNCHANGED <<device, added, control, session, unseen>>
    BY <1>17 DEF FinishChange, Finish
  <2> QED BY <1>1, <2>1, <2>2, TakenElse, SuspendsKept DEF Scanned
<1>18. CASE FinishRemove
  <2>1. queue # <<>> /\ Head(queue).type = "remove" /\ Head(queue).path \in Paths
    BY <1>1, <1>18, Busy DEF FinishRemove
  <2>2. /\ queue' = Tail(queue) /\ UNCHANGED <<device, added, control, session>>
        /\ unseen' = unseen \ {Head(queue).path}
    BY <1>18 DEF FinishRemove
  <2>3. CASE Head(queue).path = p
    <3>1. Removing(queue, p)
      BY <1>1, <2>1, <2>3, HeadRemoves
    <3>2. /\ device[p] # <<>> => Waiting(queue, Add(p))
          /\ \A i \in 1..added[p] : Waiting(queue, Bind(p, i))
      BY <3>1 DEF Fresh, FreshAt
    <3>3. /\ device[p] # <<>> => Waiting(queue', Add(p))
          /\ \A i \in 1..added[p] : Waiting(queue', Bind(p, i))
      BY <1>1, <2>1, <2>2, <3>2, TakenElse
    <3>4. device[p] = <<"adapter">> => device[p] # <<>>
      OBVIOUS
    <3> QED BY <2>2, <3>3, <3>4 DEF SuspendsAt
  <2>4. CASE Head(queue).path # p
    BY <1>1, <2>1, <2>2, <2>4, TakenElse, SuspendsKept DEF Scanned
  <2> QED BY <2>3, <2>4
<1>19. CASE Withdraw
  <2>1. /\ UNCHANGED <<device, added, control, session>> /\ unseen \subseteq unseen'
        /\ binder = "idle"
    BY <1>19 DEF Withdraw
  <2>2. ASSUME NEW e, Waiting(queue, e), e.type # "backlight", e.path = p PROVE p \in unseen'
    BY <1>19, <2>2 DEF Withdraw, Waiting
  <2> QED BY <1>1, <1>2, <1>3, <2>1, <2>2, SuspendsKept DEF Scanned
<1>20. CASE Register \/ EndScan
  <2>1. UNCHANGED <<device, added, control, queue, unseen>> /\ binder # "writing"
    BY <1>20 DEF Register, EndScan
  <2> QED BY <1>1, <2>1, SuspendsKept DEF Scanned
<1>21. ASSUME NEW r \in Paths, Scan(r) PROVE SuspendsAt(p)'
  <2>1. /\ UNCHANGED <<device, added, control, queue>> /\ binder = "scanning" /\ binder' = "writing"
        /\ scan' = [plan |-> ScanPlan(r), path |-> r] /\ unseen' = unseen \ Complete(r)
    BY <1>21 DEF Scan
  <2>2. CASE p \notin unseen \/ p \in unseen'
    BY <1>1, <2>1, <2>2, SuspendsKept DEF Scanned
  <2>3. CASE p \in unseen /\ p \notin unseen'
    <3>1. p = r /\ device[p] # <<"adapter">>
      BY <2>1, <2>3 DEF Complete
    <3>2. scan' # NoScan /\ scan'.path = p /\ scan'.plan = ScanPlan(p)
      <4>1. DOMAIN scan' = {"plan", "path"} /\ DOMAIN NoScan = {"plan"}
        BY <2>1 DEF NoScan
      <4> QED BY <2>1, <3>1, <4>1
    <3>3. ASSUME NEW i \in 1..added[p], device[p][i] \in Suspendable
          PROVE  ScanPlan(p) # "nothing"
      <4>1. ~(i > added[p])
        BY <1>1, <3>3
      <4>2. InterfacePlan(p, i) \in {"60000", "auto"}
        BY <3>3, <4>1 DEF InterfacePlan, Suspendable
      <4> QED BY <4>2 DEF ScanPlan
    <3> QED BY <2>1, <3>1, <3>2, <3>3 DEF SuspendsAt, Scanned
  <2> QED BY <2>2, <2>3
<1>22. CASE FinishScan
  <2>1. UNCHANGED <<device, added, queue, unseen>>
    BY <1>22 DEF FinishScan
  <2>2. CASE scan = NoScan
    <3>1. control' = control /\ ~Scanned(p)
      BY <1>22, <2>2 DEF FinishScan, Scanned
    <3> QED BY <1>1, <2>1, <3>1, SuspendsKept
  <2>3. CASE scan # NoScan
    <3>1. scan.plan \in Suspends /\ scan.path \in Paths /\ Do(scan.plan, scan.path)
      BY <1>22, <2>3 DEF FinishScan, Typed, SessionTyped
    <3>2. control[p] = "auto" => control'[p] = "auto"
      BY <1>1, <3>1, DoKeeps
    <3>3. added[p] > 0 /\ Scanned(p) => control'[p] = "auto"
      BY <1>1, <1>4, <3>1, DoKeeps DEF Scanned
    <3> QED BY <1>1, <2>1, <3>2, <3>3, SuspendsKept
  <2> QED BY <2>2, <2>3
<1>23. CASE UNCHANGED vars
  BY <1>5, <1>23
<1> QED BY <1>7, <1>8, <1>9, <1>10, <1>11, <1>12, <1>13, <1>14, <1>15, <1>16, <1>17, <1>18, <1>19,
           <1>20, <1>21, <1>22, <1>23, <1>24 DEF Next, Kernel, Worker, Binder

(***************************************************************************)
(* The inductive invariant.                                                *)
(***************************************************************************)
(* What is not as it should be is on its way there, for every device.      *)
THEOREM Invariant == Spec => []IInv
<1>1. Init => IInv
  <2> SUFFICES ASSUME Init PROVE IInv
    OBVIOUS
  <2>1. Typed
    BY TypedInitial
  <2>2. Fresh /\ ListInv
    BY EmptyQueue DEF Init, Fresh, FreshAt, ListInv, ListedRight, HidOnly
  <2>3. RecoveryInv
    BY DEF Init, RecoveryInv, HubExplained
  <2>4. PatienceInv
    BY DEF Init, PatienceInv, PlanPatient, PatientAt
  <2>5. SuspendInv
    <3>1. \A p \in Paths : device[p] = <<>> /\ added[p] = 0
      BY DEF Init
    <3>2. ~(\E i \in 1..0 : TRUE) /\ <<>> # <<"adapter">>
      OBVIOUS
    <3> QED BY <3>1, <3>2 DEF Init, SuspendInv, PlanSuspends, SuspendsAt
  <2> QED BY <2>1, <2>2, <2>3, <2>4, <2>5 DEF IInv
<1>2. IInv /\ [Next]_vars => IInv'
  <2> SUFFICES ASSUME IInv, [Next]_vars PROVE IInv'
    OBVIOUS
  <2>1. Typed' /\ Fresh' /\ RecoveryInv' /\ ListInv'
    BY TypedStep, FreshStep, RecoveryStep, ListStep DEF IInv
  <2>2. PlanPatient' /\ PlanSuspends'
    BY PlanStep DEF IInv, PatienceInv, SuspendInv
  <2>3. \A p \in Paths : PatientAt(p)' /\ SuspendsAt(p)'
    BY PatienceStep, SuspendStep DEF IInv
  <2> QED BY <2>1, <2>2, <2>3 DEF IInv, PatienceInv, SuspendInv
<1> QED BY <1>1, <1>2, PTL DEF Spec

(* A root hub is given back its authorization, unless its worker died or   *)
(* another root hub's device was the next to go.                           *)
THEOREM HubsAreRecovered == Spec => []Recovered
<1>1. IInv => Recovered
  <2> SUFFICES ASSUME IInv, Settled, NEW b \in Buses
               PROVE  authorized[b] \/ b \in strayed
                      \/ (usbResetRecov /\ \E p \in missed : BusOf[p] = b)
    BY DEF Recovered
  <2>1. worker = "polling" /\ ~Leaving(queue, b) /\ HubExplained(b)
    BY EmptyQueue DEF IInv, Settled, RecoveryInv
  <2> QED BY <2>1 DEF HubExplained, Awaited
<1> QED BY <1>1, Invariant, PTL

(* The list holds every device that is nothing but HID, and none that is   *)
(* gone or shows another interface first.                                  *)
THEOREM HidsAreKept == Spec => []HidsAreListed
<1>1. IInv => HidsAreListed
  <2> SUFFICES ASSUME IInv, Settled, NEW p \in Paths
               PROVE  /\ p \notin missed /\ HidOnly(p) => p \in hidDevs
                      /\ p \in hidDevs \ missed => device[p] # <<>> /\ device[p][1] = "hid"
    BY DEF HidsAreListed, IInv, Typed, ListsTyped
  <2>1. ListedRight(p) /\ queue = <<>> /\ ~Removing(queue, p) /\ ~Waiting(queue, Bind(p, 1))
    BY EmptyQueue DEF IInv, Settled, ListInv
  <2>2. device[p] = <<>> => ~(added[p] > 0)
    <3>1. Len(<<>>) = 0 /\ added[p] \in Nat /\ added[p] <= Len(device[p])
      BY DEF IInv, Typed, DeviceTyped
    <3> QED BY <3>1
  <2> QED BY <2>1, <2>2 DEF ListedRight
<1> QED BY <1>1, Invariant, PTL

(* Devices that may suspend do, and a listed one never with a short delay  *)
(* while the display is on.                                                *)
THEOREM DevicesSuspend == Spec => []SuspendsRight
<1>1. IInv => PatientWhileOn
  <2> SUFFICES ASSUME IInv, Settled, displayOn, ~overslept, NEW p \in hidDevs \ missed
               PROVE  delay[p] = "60000"
    BY DEF PatientWhileOn
  <2>1. p \in Paths /\ PatientAt(p)
    BY DEF IInv, Typed, ListsTyped, PatienceInv
  <2> QED BY <2>1, EmptyQueue DEF Settled, PatientAt
<1>2. IInv => MaySuspend
  <2> SUFFICES ASSUME IInv, Settled, NEW p \in Paths \ unseen, NEW i \in 1..added[p],
                      device[p][i] \in {"hid", "audio", "hub", "adapter"}
               PROVE  control[p] = "auto"
    BY DEF MaySuspend
  <2>1. SuspendsAt(p) /\ ~Scanned(p) /\ ~Waiting(queue, Add(p)) /\ ~Waiting(queue, Bind(p, i))
    BY EmptyQueue DEF IInv, Settled, SuspendInv, Scanned
  <2>2. CASE device[p][i] \in Suspendable
    BY <2>1, <2>2 DEF SuspendsAt
  <2>3. CASE device[p][i] = "adapter"
    <3>0. added[p] # 0
      BY DEF IInv, Typed, DeviceTyped
    <3>1. device[p] \in Kinds[p] \cup {<<>>} /\ added[p] = Len(device[p])
      BY <3>0 DEF IInv, Typed, DeviceTyped, Settled
    <3>2. device[p] # <<>>
      <4>1. Len(<<>>) = 0 /\ ~(\E j \in 1..0 : TRUE)
        OBVIOUS
      <4> QED BY <3>1, <4>1
    <3>3. device[p] = <<"adapter">>
      BY <2>3, <3>1, <3>2, AdapterAssumption
    <3> QED BY <2>1, <3>3 DEF SuspendsAt
  <2> QED BY <2>2, <2>3 DEF Suspendable
<1>3. IInv => SuspendsRight
  BY <1>1, <1>2 DEF SuspendsRight
<1> QED BY <1>3, Invariant, PTL
=============================================================================
