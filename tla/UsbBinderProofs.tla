-------------------------- MODULE UsbBinderProofs --------------------------
(***************************************************************************)
(* Proofs about what the HAL's one binder thread does: setCallback and the *)
(* threads it starts (UsbWorker), for any number of them; then the         *)
(* requests that write control nodes (UsbRequests), for any platforms.     *)
(***************************************************************************)
EXTENDS UsbWorker, UsbRequests, TLAPS

(***************************************************************************)
(* UsbWorker.                                                              *)
(***************************************************************************)

Listening == {w \in Workers : pc[w] \in {"polling", "handling", "reading", "closing"}}

(* Workers are started in the order of their numbers; the handle stands    *)
(* for one that was started and is 0 only between callbacks.               *)
OrderInv ==
    /\ \A v, w \in Workers : v < w /\ pc[v] = "new" => pc[w] = "new"
    /\ mCallback \/ binder = "unlocked" => mPoll # 0
    /\ mPoll # 0 => pc[mPoll] # "new"
    /\ tooSoon # 0 => pc[tooSoon] # "new"

(* mEventFd is the eventfd of a thread that listens.                       *)
EventFdInv ==
    /\ mEventFd # 0 => mEventFd \in Listening
    /\ signalled \subseteq {mEventFd} \ {0}

(* What setCallback may count on between its steps.                        *)
BinderInv ==
    /\ binder = "configuring" => mCallback
    /\ binder \in {"unlocked", "joining"} => ~mCallback

(* Until a worker is told to stop too soon, the handle stands for the only *)
(* thread alive, that thread has mEventFd once it listens, and none is     *)
(* left between callbacks.                                                 *)
OnTimeInv ==
    tooSoon = 0 =>
        /\ \A w \in Alive : w = mPoll
        /\ \A w \in Listening : mEventFd = w
        /\ binder = "idle" /\ ~mCallback => Alive = {}

(* From then on that worker and later ones may be left, no older one.      *)
TooSoonInv == tooSoon # 0 => \A w \in Alive : tooSoon <= w

(* The lock is held from the start of a worker to the end of setCallback.  *)
ConfigInv ==
    /\ binder = "configuring" => mLock = "binder"
    /\ mCallback => configured \/ binder = "configuring"

IInv == TypeOK /\ OrderInv /\ EventFdInv /\ BinderInv /\ OnTimeInv /\ TooSoonInv
        /\ ConfigInv

(* Workers are numbered, and 0 names none.                                 *)
LEMMA WorkersAreNumbers == Workers \subseteq Nat /\ 0 \notin Workers
BY MaxWorkersAssumption DEF Workers

(* The invariant holds before the first callback.                          *)
LEMMA InitInv == Init => IInv
BY WorkersAreNumbers
   DEF Init, IInv, TypeOK, OrderInv, EventFdInv, BinderInv, OnTimeInv, TooSoonInv, ConfigInv,
       Alive, Listening

USE DEF Goes

(* setCallback() keeps the invariant.                                      *)
LEMMA BinderStep == ASSUME IInv, Binder PROVE IInv'
<1> USE WorkersAreNumbers
        DEF IInv, TypeOK, OrderInv, EventFdInv, BinderInv, OnTimeInv, TooSoonInv, ConfigInv,
            Alive, Listening, Starting
<1>1. CASE Configure
  BY <1>1 DEF Configure
<1>2. CASE Withdraw
  BY <1>2 DEF Withdraw
<1>3. CASE Signal
  <2> USE <1>3 DEF Signal, TooSoon
  <2>1. TypeOK' /\ OrderInv' /\ EventFdInv' /\ BinderInv' /\ ConfigInv'
    OBVIOUS
  <2>2. OnTimeInv' /\ TooSoonInv'
    <3>1. CASE tooSoon = 0 /\ mPoll \in Starting /\ mEventFd = 0
      BY <3>1
    <3>2. CASE ~(tooSoon = 0 /\ mPoll \in Starting /\ mEventFd = 0)
      <4>1. tooSoon' = tooSoon
        BY <3>2
      <4>2. tooSoon = 0 /\ mEventFd = 0 => Alive = {}
        BY <3>2
      <4> QED BY <4>1, <4>2
    <3> QED BY <3>1, <3>2
  <2> QED BY <2>1, <2>2
<1>4. CASE Join
  BY <1>4 DEF Join
<1>5. ASSUME NEW w \in Workers, Register(w) PROVE IInv'
  <2> USE <1>5 DEF Register
  <2>1. TypeOK' /\ OrderInv' /\ EventFdInv' /\ BinderInv' /\ ConfigInv'
    OBVIOUS
  <2>2. OnTimeInv'
    OBVIOUS
  <2>3. TooSoonInv'
    <3>1. tooSoon # 0 => tooSoon < w
      OBVIOUS
    <3> QED BY <3>1
  <2> QED BY <2>1, <2>2, <2>3
<1> QED BY <1>1, <1>2, <1>3, <1>4, <1>5 DEF Binder

(* A worker that goes on keeps the invariant.                              *)
LEMMA WorkStep == ASSUME IInv, NEW w \in Workers, Work(w) PROVE IInv'
<1> USE WorkersAreNumbers
        DEF IInv, TypeOK, OrderInv, EventFdInv, BinderInv, OnTimeInv, TooSoonInv, ConfigInv,
            Alive, Listening, Starting
<1>1. CASE Listen(w)
  BY <1>1 DEF Listen
<1>2. CASE FailToListen(w)
  BY <1>2 DEF FailToListen
<1>3. CASE Handle(w)
  BY <1>3 DEF Handle
<1>4. CASE Read(w)
  BY <1>4 DEF Read
<1>5. CASE Close(w)
  BY <1>5 DEF Close
<1> QED BY <1>1, <1>2, <1>3, <1>4, <1>5 DEF Work

(* A worker that is woken keeps the invariant.                             *)
LEMMA PollStep ==
    ASSUME IInv, NEW w \in Workers, Receive(w) \/ Wake(w) \/ PollFails(w) PROVE IInv'
<1> USE WorkersAreNumbers
        DEF IInv, TypeOK, OrderInv, EventFdInv, BinderInv, OnTimeInv, TooSoonInv, ConfigInv,
            Alive, Listening, Starting
<1>1. CASE Receive(w)
  BY <1>1 DEF Receive
<1>2. CASE Wake(w)
  BY <1>2 DEF Wake
<1>3. CASE PollFails(w)
  BY <1>3 DEF PollFails
<1> QED BY <1>1, <1>2, <1>3

(* Every step keeps the invariant.                                         *)
LEMMA StepInv == IInv /\ [Next]_vars => IInv'
<1> SUFFICES ASSUME IInv, [Next]_vars PROVE IInv'
  OBVIOUS
<1>1. CASE UNCHANGED vars
  BY <1>1 DEF vars, IInv, TypeOK, OrderInv, EventFdInv, BinderInv, OnTimeInv, TooSoonInv,
              ConfigInv, Alive, Listening
<1> QED BY <1>1, BinderStep, WorkStep, PollStep DEF Next

(* The inductive invariant holds of every behaviour.                       *)
THEOREM Invariance == Spec => []IInv
<1>1. IInv /\ [Next]_vars => IInv'
  BY StepInv
<1> QED BY <1>1, InitInv, PTL DEF Spec

(* There are never two workers until one is told to stop too soon, and     *)
(* none older than that one ever.                                          *)
THEOREM AtMostOneWorker == Spec => []OneWorker
<1>1. IInv => OneWorker
  <2> SUFFICES ASSUME IInv, NEW v \in Alive, NEW w \in Alive, v < w
               PROVE  tooSoon \in 1..v
    BY DEF OneWorker
  <2>1. v \in Nat /\ w \in Nat /\ tooSoon \in Nat
    BY WorkersAreNumbers DEF IInv, TypeOK, Alive
  <2>2. tooSoon # 0
    BY <2>1 DEF IInv, OnTimeInv
  <2> QED BY <2>1, <2>2 DEF IInv, TooSoonInv
<1> QED BY <1>1, Invariance, PTL

(* setCallback(NULL) leaves no worker behind but one that was told to stop *)
(* too soon, or a later one.                                               *)
THEOREM NullStopsTheWorker == Spec => []LeftIfTooSoon
<1>1. IInv => LeftIfTooSoon
  <2> SUFFICES ASSUME IInv, binder = "idle", ~mCallback, NEW w \in Alive
               PROVE  tooSoon \in 1..w
    BY DEF LeftIfTooSoon
  <2>1. w \in Nat /\ tooSoon \in Nat
    BY WorkersAreNumbers DEF IInv, TypeOK, Alive
  <2> QED BY <2>1 DEF IInv, OnTimeInv, TooSoonInv
<1> QED BY <1>1, Invariance, PTL

(* Only the worker that listens is ever told to stop.                      *)
THEOREM StopsAreForTheLiving == Spec => []NoStaleStop
<1>1. IInv => NoStaleStop
  BY DEF IInv, EventFdInv, NoStaleStop, Listening, Alive
<1> QED BY <1>1, Invariance, PTL

(* No callback is told of anything before it is configured.                *)
THEOREM ConfigurationComesFirst == Spec => ConfiguredFirst
<1>1. IInv /\ [Next]_vars =>
        [\A w \in Workers : pc[w] = "handling" /\ pc'[w] = "polling" /\ mCallback
            => configured]_vars
  <2> SUFFICES ASSUME IInv, Next, NEW w \in Workers,
                      pc[w] = "handling", pc'[w] = "polling", mCallback
               PROVE  configured
    BY DEF vars
  <2>1. PICK v \in Workers : Handle(v)
    BY DEF Next, Binder, Work, Register, Configure, Withdraw, Signal, Join, Listen,
           FailToListen, Read, Close, Receive, Wake, PollFails, IInv, TypeOK
  <2> QED BY <2>1 DEF Handle, IInv, ConfigInv
<1> QED BY <1>1, Invariance, PTL DEF Spec, ConfiguredFirst

(***************************************************************************)
(* UsbRequests.                                                            *)
(***************************************************************************)
(* The controls that a platform prefers.                                   *)
Way == IF "dynamic" \in nodes THEN {"dynamic"}
       ELSE IF "data" \in nodes THEN {"data", "pullup"} ELSE {"notify", "pullup"}

(* What is off and not stranded is on that way, where the next enable      *)
(* writes.                                                                 *)
OneWayInv == off \cap Blockers \subseteq stranded \cup Way

(* A reset that sleeps holds the mode of what is plugged in, or is known   *)
(* not to.                                                                 *)
SleepInv ==
    /\ resetter = "asleep" /\ ~unsettled => Stored(cached) = cable
    /\ ModeExplained

RequestsInv == RequestsTypeOK /\ OneWayInv /\ ReportsAreTrue /\ SleepInv

(* What is written back is what was read, newline or not.                  *)
LEMMA StoredAsShown == \A m \in Modes : Stored(Shown[m]) = m
BY DEF Stored, Shown, Modes

(* It holds when the service first starts.                                 *)
LEMMA RequestsInitInv == RequestsInit => RequestsInv
BY PlatformsAssumption
   DEF RequestsInit, RequestsInv, RequestsTypeOK, OneWayInv, ReportsAreTrue, DataAsReported,
       LimitAsReported, SleepInv, ModeExplained, Shown, Modes, Nodes, Blockers

(* enableUsbData(), whichever of its writes fail.                          *)
LEMMA EnableStep ==
    ASSUME RequestsInv, NEW enable \in BOOLEAN, NEW works \in SUBSET nodes,
           EnableUsbData(enable, works)
    PROVE  RequestsInv'
<1> USE DEF RequestsInv, EnableUsbData, Write
<1>1. RequestsTypeOK'
  BY DEF RequestsTypeOK, power, port
<1>2. OneWayInv'
  <2> USE DEF RequestsTypeOK, OneWayInv, Way, Stranded, Detour, Tried, Fallback, Blockers
  <2>1. CASE enable
    BY <2>1
  <2>2. CASE ~enable
    <3>1. CASE "dynamic" \in nodes
      BY <2>2, <3>1
    <3>2. CASE "dynamic" \notin nodes /\ "data" \in nodes
      BY <2>2, <3>2
    <3>3. CASE "dynamic" \notin nodes /\ "data" \notin nodes
      BY <2>2, <3>3
    <3> QED BY <3>1, <3>2, <3>3
  <2> QED BY <2>1, <2>2
<1>3. DataAsReported'
  <2> USE DEF Tried, Fallback, Answer, Blockers, RequestsTypeOK
  <2>1. CASE Answer(works) = "ERROR"
    <3>1. off' \cap Blockers = off \cap Blockers
      BY <2>1
    <3>2. off \cap Blockers \cap stranded \subseteq stranded'
      BY <2>1, <3>1 DEF Stranded
    <3> QED BY <2>1, <3>1, <3>2 DEF ReportsAreTrue, DataAsReported, UsbDataStatus
  <2>2. CASE Answer(works) = "SUCCESS" /\ ~enable
    <3>1. {"dynamic", "data", "notify"} \cap off' # {}
      BY <2>2
    <3> QED BY <2>2, <3>1 DEF DataAsReported, UsbDataStatus
  <2>3. CASE Answer(works) = "SUCCESS" /\ enable
    <3>1. off' \cap Blockers \subseteq stranded'
      <4>1. SUFFICES ASSUME NEW n \in off', n \in Blockers, n \notin stranded
                     PROVE  n \in Tried(enable, works) \ works
        BY <2>3 DEF Stranded
      <4>2. n \in off /\ n \in Way /\ n \notin Tried(enable, works) \cap works
        BY <2>3, <4>1 DEF OneWayInv
      <4>3. n \in Tried(enable, works)
        BY <2>3, <4>2 DEF Way
      <4> QED BY <4>2, <4>3
    <3> QED BY <2>3, <3>1 DEF DataAsReported, UsbDataStatus
  <2> QED BY <2>1, <2>2, <2>3
<1>4. LimitAsReported' /\ SleepInv'
  BY DEF ReportsAreTrue, LimitAsReported, SleepInv, ModeExplained, power, port
<1> QED BY <1>1, <1>2, <1>3, <1>4 DEF ReportsAreTrue

(* limitPowerTransfer(), whichever of its writes fail.                     *)
LEMMA LimitStep ==
    ASSUME RequestsInv, NEW limit \in BOOLEAN, NEW works \in SUBSET {"current", "charge"},
           LimitPowerTransfer(limit, works)
    PROVE  RequestsInv'
<1> USE DEF RequestsInv, LimitPowerTransfer
<1>1. RequestsTypeOK'
  BY DEF RequestsTypeOK, data, port
<1>2. LimitAsReported'
  BY DEF RequestsTypeOK, LimitAsReported
<1>3. OneWayInv' /\ DataAsReported' /\ SleepInv'
  BY DEF OneWayInv, ReportsAreTrue, DataAsReported, UsbDataStatus, Blockers, Way,
         SleepInv, ModeExplained, data, port
<1> QED BY <1>1, <1>2, <1>3 DEF ReportsAreTrue

(* resetUsbPort(), and what comes between its two writes.                  *)
LEMMA ResetStep ==
    ASSUME RequestsInv, Reset \/ WriteBack \/ Replug \/ Restart PROVE RequestsInv'
<1> USE DEF RequestsInv
<1>1. RequestsTypeOK'
  <2> USE DEF RequestsTypeOK
  <2>1. "none" \in Modes /\ Shown["none"] = "none\n"
    BY DEF Modes, Shown
  <2>2. CASE Reset
    BY <2>1, <2>2 DEF Reset, data, power
  <2>3. CASE WriteBack
    <3>1. Stored(cached) \in Modes
      BY StoredAsShown
    <3> QED BY <2>1, <2>3, <3>1 DEF WriteBack, data, power
  <2>4. CASE Replug
    BY <2>4 DEF Replug, data, power
  <2>5. CASE Restart
    BY <2>1, <2>5 DEF Restart
  <2> QED BY <2>2, <2>3, <2>4, <2>5
<1> USE DEF Reset, WriteBack, Replug, Restart
<1>2. OneWayInv' /\ ReportsAreTrue'
  BY DEF OneWayInv, ReportsAreTrue, DataAsReported, LimitAsReported, UsbDataStatus, Blockers,
         Way, data, power
<1>3. SleepInv'
  BY StoredAsShown DEF RequestsTypeOK, SleepInv, ModeExplained
<1> QED BY <1>1, <1>2, <1>3

(* The inductive invariant of the requests holds of every behaviour.       *)
THEOREM RequestsInvariance == RequestsSpec => []RequestsInv
<1>1. RequestsInv /\ [RequestsNext]_requestVars => RequestsInv'
  <2> SUFFICES ASSUME RequestsInv, [RequestsNext]_requestVars PROVE RequestsInv'
    OBVIOUS
  <2>1. CASE UNCHANGED requestVars
    BY <2>1 DEF requestVars, data, power, port, RequestsInv, RequestsTypeOK, OneWayInv,
                ReportsAreTrue, DataAsReported, LimitAsReported, UsbDataStatus, Blockers,
                Way, SleepInv, ModeExplained
  <2> QED BY <2>1, EnableStep, LimitStep, ResetStep DEF RequestsNext
<1> QED BY <1>1, RequestsInitInv, PTL DEF RequestsSpec

(* Every variable of the requests keeps its type.                          *)
THEOREM RequestsTyped == RequestsSpec => []RequestsTypeOK
<1>1. RequestsInv => RequestsTypeOK
  BY DEF RequestsInv
<1> QED BY <1>1, RequestsInvariance, PTL

(* What a port status says of data and power is so, but for the controls   *)
(* that a failed write left behind.                                        *)
THEOREM PortStatusIsTrue == RequestsSpec => []ReportsAreTrue
<1>1. RequestsInv => ReportsAreTrue
  BY DEF RequestsInv
<1> QED BY <1>1, RequestsInvariance, PTL

(* A port in another mode than what is plugged in asks for was left so by  *)
(* a reset that failed, died or was overtaken.                             *)
THEOREM ResetGivesTheModeBack == RequestsSpec => []ModeExplained
<1>1. RequestsInv => ModeExplained
  BY DEF RequestsInv, SleepInv
<1> QED BY <1>1, RequestsInvariance, PTL
=============================================================================
