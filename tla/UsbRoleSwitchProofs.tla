------------------------ MODULE UsbRoleSwitchProofs ------------------------
(***************************************************************************)
(* What holds of role switches for any number of them, any partners and    *)
(* any waiting time.  The inductive invariant says who holds the role lock *)
(* and what each phase of switchRole() may rely on.                        *)
(***************************************************************************)
EXTENDS UsbRoleSwitch, TLAPS

(* A switch under way has the role lock, and so does a worker that is      *)
(* about to return the port to dual role: never both.                      *)
LockInv ==
    /\ binder # "idle" <=> roleLock = "binder"
    /\ worker \in {"check", "dual"} => roleLock = "worker"

(* Until a switch is decided it is no success, and what waits is a mode    *)
(* switch, whose port has the wanted mode and whose flag is of this wait.  *)
PhaseInv ==
    /\ binder \in {"mode", "waiting", "woken", "revert", "readBack"} => ~success
    /\ binder \in {"mode", "waiting", "woken", "revert"} => wanted \in Modes
    /\ binder = "readBack" => wanted \in Roles
    /\ binder \in {"waiting", "woken"} => portType = wanted
    /\ binder \in {"waiting", "woken"} /\ mPartnerUp => heard

(* The framework was last told of the port as it is unless there is a      *)
(* uevent yet to handle.                                                   *)
KnownInv == uevents = <<>> /\ worker # "status" => reported \in PortStatus

IInv == PortOK /\ CallOK /\ FlagsOK /\ LockInv /\ PhaseInv /\ KnownInv /\ SuccessIsHeard

(* The invariant holds before the first call.                              *)
LEMMA InitInv == Init => IInv
<1> SUFFICES ASSUME Init PROVE IInv
  OBVIOUS
<1> USE BoundsAssumption DEF Init, Modes, Roles
<1>1. PortOK /\ CallOK
  BY DEF PortOK, CallOK
<1>2. FlagsOK
  BY DEF FlagsOK
<1>3. LockInv /\ PhaseInv /\ KnownInv /\ SuccessIsHeard
  BY DEF LockInv, PhaseInv, KnownInv, PortStatus, SuccessIsHeard
<1> QED BY <1>1, <1>2, <1>3 DEF IInv

(* A uevent sent leaves the queue with one, and a queue it can be taken    *)
(* from.                                                                   *)
LEMMA Appended ==
    ASSUME uevents \in Seq({"add", "remove", "change"}),
           NEW event \in {"add", "remove", "change"},
           uevents' = Append(uevents, event)
    PROVE  uevents' \in Seq({"add", "remove", "change"}) /\ uevents' # <<>>
OBVIOUS

(* The binder thread keeps the invariant.                                  *)
LEMMA BinderStep ==
    ASSUME IInv,
           \/ \E mode \in Modes : SwitchMode(mode)
           \/ \E role \in Roles : SwitchData(role)
           \/ Switch \/ WakesSpuriously
    PROVE  IInv'
<1> USE BoundsAssumption
<1> USE DEF IInv, PortOK, CallOK, FlagsOK, LockInv, PhaseInv, KnownInv, PortStatus, SuccessIsHeard, Modes,
            Roles, port, call, history, At
<1>1. ASSUME NEW mode \in Modes, SwitchMode(mode) PROVE IInv'
  <2>1. PortOK' /\ CallOK'
    BY <1>1 DEF SwitchMode, Begin
  <2>2. FlagsOK'
    BY <1>1 DEF SwitchMode, Begin
  <2>3. LockInv' /\ PhaseInv' /\ KnownInv' /\ SuccessIsHeard'
    BY <1>1 DEF SwitchMode, Begin
  <2> QED BY <2>1, <2>2, <2>3
<1>2. ASSUME NEW role \in Roles, SwitchData(role) PROVE IInv'
  <2>1. PortOK' /\ CallOK'
    BY <1>2 DEF SwitchData, Begin
  <2>2. FlagsOK'
    BY <1>2 DEF SwitchData, Begin
  <2>3. LockInv' /\ PhaseInv' /\ KnownInv' /\ SuccessIsHeard'
    BY <1>2 DEF SwitchData, Begin
  <2> QED BY <2>1, <2>2, <2>3
<1>3. CASE ForcePort
  <2>1. PortOK' /\ CallOK'
    BY <1>3 DEF ForcePort
  <2>2. FlagsOK'
    BY <1>3 DEF ForcePort
  <2>3. LockInv' /\ PhaseInv' /\ KnownInv' /\ SuccessIsHeard'
    BY <1>3 DEF ForcePort
  <2> QED BY <2>1, <2>2, <2>3
<1>4. CASE TimesOut
  <2>1. PortOK' /\ CallOK'
    BY <1>4 DEF TimesOut
  <2>2. FlagsOK'
    BY <1>4 DEF TimesOut
  <2>3. LockInv' /\ PhaseInv' /\ KnownInv' /\ SuccessIsHeard'
    BY <1>4 DEF TimesOut
  <2> QED BY <2>1, <2>2, <2>3
<1>5. CASE WakesSpuriously
  <2>1. PortOK' /\ CallOK'
    BY <1>5 DEF WakesSpuriously
  <2>2. FlagsOK'
    BY <1>5 DEF WakesSpuriously
  <2>3. LockInv' /\ PhaseInv' /\ KnownInv' /\ SuccessIsHeard'
    BY <1>5 DEF WakesSpuriously
  <2> QED BY <2>1, <2>2, <2>3
<1>6. CASE WaitEnds
  <2>1. PortOK' /\ CallOK'
    BY <1>6 DEF WaitEnds
  <2>2. FlagsOK'
    BY <1>6 DEF WaitEnds
  <2>3. LockInv' /\ PhaseInv' /\ KnownInv' /\ SuccessIsHeard'
    BY <1>6 DEF WaitEnds
  <2> QED BY <2>1, <2>2, <2>3
<1>7. CASE Revert
  <2>1. PortOK' /\ CallOK'
    BY <1>7 DEF Revert, ToDual
  <2>2. FlagsOK'
    BY <1>7 DEF Revert, ToDual
  <2>3. LockInv' /\ PhaseInv' /\ KnownInv' /\ SuccessIsHeard'
    BY <1>7 DEF Revert, ToDual
  <2> QED BY <2>1, <2>2, <2>3
<1>8. CASE ReadBack
  <2>1. PortOK' /\ CallOK'
    BY <1>8 DEF ReadBack
  <2>2. FlagsOK'
    BY <1>8 DEF ReadBack
  <2>3. LockInv' /\ PhaseInv' /\ KnownInv' /\ SuccessIsHeard'
    BY <1>8 DEF ReadBack
  <2> QED BY <2>1, <2>2, <2>3
<1>9. CASE Report
  <2>1. PortOK' /\ CallOK'
    BY <1>9 DEF Report
  <2>2. FlagsOK'
    BY <1>9 DEF Report
  <2>3. LockInv' /\ PhaseInv' /\ KnownInv' /\ SuccessIsHeard'
    BY <1>9 DEF Report
  <2> QED BY <2>1, <2>2, <2>3
<1> QED BY <1>1, <1>2, <1>3, <1>4, <1>5, <1>6, <1>7, <1>8, <1>9 DEF Switch

(* The worker keeps the invariant.                                         *)
LEMMA WorkerStep == ASSUME IInv, Worker PROVE IInv'
<1> USE DEF IInv, PortOK, CallOK, FlagsOK, LockInv, PhaseInv, KnownInv, PortStatus, SuccessIsHeard, Modes,
            Roles, port, call, history, Works
<1>1. CASE Receive
  <2>1. PortOK' /\ CallOK'
    BY <1>1 DEF Receive, Announce
  <2>2. FlagsOK'
    BY <1>1 DEF Receive, Announce
  <2>3. LockInv' /\ PhaseInv' /\ KnownInv' /\ SuccessIsHeard'
    BY <1>1 DEF Receive, Announce
  <2> QED BY <2>1, <2>2, <2>3
<1>2. CASE ReportStatus
  <2>1. PortOK' /\ CallOK'
    BY <1>2 DEF ReportStatus
  <2>2. FlagsOK'
    BY <1>2 DEF ReportStatus
  <2>3. LockInv' /\ PhaseInv' /\ KnownInv' /\ SuccessIsHeard'
    BY <1>2 DEF ReportStatus
  <2> QED BY <2>1, <2>2, <2>3
<1>3. CASE TryRevert
  <2>1. PortOK' /\ CallOK'
    BY <1>3 DEF TryRevert
  <2>2. FlagsOK'
    BY <1>3 DEF TryRevert
  <2>3. LockInv' /\ PhaseInv' /\ KnownInv' /\ SuccessIsHeard'
    BY <1>3 DEF TryRevert
  <2> QED BY <2>1, <2>2, <2>3
<1>4. CASE CheckPartner
  <2>1. PortOK' /\ CallOK'
    BY <1>4 DEF CheckPartner, Unlocked
  <2>2. FlagsOK'
    BY <1>4 DEF CheckPartner, Unlocked
  <2>3. LockInv' /\ PhaseInv' /\ KnownInv' /\ SuccessIsHeard'
    BY <1>4 DEF CheckPartner, Unlocked
  <2> QED BY <2>1, <2>2, <2>3
<1>5. CASE WriteDual
  <2>1. PortOK' /\ CallOK'
    BY <1>5 DEF WriteDual, Unlocked, ToDual
  <2>2. FlagsOK'
    BY <1>5 DEF WriteDual, Unlocked, ToDual
  <2>3. LockInv' /\ PhaseInv' /\ KnownInv' /\ SuccessIsHeard'
    BY <1>5 DEF WriteDual, Unlocked, ToDual
  <2> QED BY <2>1, <2>2, <2>3
<1> QED BY <1>1, <1>2, <1>3, <1>4, <1>5 DEF Worker

(* The port and the clock keep the invariant.                              *)
LEMMA PortStep == ASSUME IInv, Attach \/ Detach \/ Swap \/ Tick PROVE IInv'
<1> USE BoundsAssumption
<1> USE DEF IInv, PortOK, CallOK, FlagsOK, LockInv, PhaseInv, KnownInv, PortStatus, SuccessIsHeard, Modes,
            Roles, port, call, history
<1>1. CASE Attach
  <2>1. uevents' \in Seq({"add", "remove", "change"}) /\ uevents' # <<>>
    BY <1>1, Appended DEF Attach, Comes
  <2>2. PortOK' /\ CallOK'
    BY <1>1, <2>1 DEF Attach, Comes
  <2>3. FlagsOK'
    BY <1>1, <2>1 DEF Attach, Comes
  <2>4. LockInv' /\ PhaseInv' /\ KnownInv' /\ SuccessIsHeard'
    BY <1>1, <2>1 DEF Attach, Comes
  <2> QED BY <2>2, <2>3, <2>4
<1>2. CASE Detach
  <2>1. uevents' \in Seq({"add", "remove", "change"}) /\ uevents' # <<>>
    BY <1>2, Appended DEF Detach, Comes
  <2>2. PortOK' /\ CallOK'
    BY <1>2, <2>1 DEF Detach, Comes
  <2>3. FlagsOK'
    BY <1>2, <2>1 DEF Detach, Comes
  <2>4. LockInv' /\ PhaseInv' /\ KnownInv' /\ SuccessIsHeard'
    BY <1>2, <2>1 DEF Detach, Comes
  <2> QED BY <2>2, <2>3, <2>4
<1>3. CASE Swap
  <2>1. uevents' \in Seq({"add", "remove", "change"}) /\ uevents' # <<>>
    BY <1>3, Appended DEF Swap, Comes
  <2>2. PortOK' /\ CallOK'
    BY <1>3, <2>1 DEF Swap, Comes
  <2>3. FlagsOK'
    BY <1>3, <2>1 DEF Swap, Comes
  <2>4. LockInv' /\ PhaseInv' /\ KnownInv' /\ SuccessIsHeard'
    BY <1>3, <2>1 DEF Swap, Comes
  <2> QED BY <2>2, <2>3, <2>4
<1>4. CASE Tick
  <2>1. PortOK' /\ CallOK'
    BY <1>4 DEF Tick
  <2>2. FlagsOK'
    BY <1>4 DEF Tick
  <2>3. LockInv' /\ PhaseInv' /\ KnownInv' /\ SuccessIsHeard'
    BY <1>4 DEF Tick
  <2> QED BY <2>1, <2>2, <2>3
<1> QED BY <1>1, <1>2, <1>3, <1>4

(* Every step keeps the invariant.                                         *)
LEMMA StepInv == IInv /\ [Next]_vars => IInv'
<1> SUFFICES ASSUME IInv, [Next]_vars PROVE IInv'
  OBVIOUS
<1>1. CASE Next
  BY <1>1, BinderStep, WorkerStep, PortStep DEF Next
<1>2. CASE UNCHANGED vars
  <2> USE <1>2 DEF vars, port, call, history, IInv
  <2>1. PortOK' /\ CallOK'
    BY DEF PortOK, CallOK
  <2>2. FlagsOK'
    BY DEF FlagsOK
  <2>3. LockInv' /\ PhaseInv' /\ KnownInv' /\ SuccessIsHeard'
    BY DEF LockInv, PhaseInv, KnownInv, PortStatus, SuccessIsHeard
  <2> QED BY <2>1, <2>2, <2>3
<1> QED BY <1>1, <1>2

(* The inductive invariant holds of every behaviour.                       *)
THEOREM Invariance == Spec => []IInv
BY InitInv, StepInv, PTL DEF Spec

(* Every variable keeps its type.                                          *)
THEOREM TypeCorrect == Spec => []TypeOK
<1>1. IInv => TypeOK  BY DEF IInv, TypeOK
<1> QED BY <1>1, Invariance, PTL

(* No mode switch succeeds on the strength of an earlier partner's         *)
(* announcement, and the worker undoes none that waits for its partner.    *)
THEOREM SwitchesAreFair == Spec => []FairSwitch
<1>1. IInv => SuccessIsHeard  BY DEF IInv
<1>2. IInv => NotUndone  BY DEF IInv, PhaseInv, NotUndone
<1>3. IInv => FairSwitch  BY <1>1, <1>2 DEF FairSwitch
<1> QED BY <1>3, Invariance, PTL

(* With every uevent handled, the framework knows whether there is a       *)
(* partner, or was told of an ERROR, and then there is one.                *)
THEOREM FrameworkKnows == Spec => []FrameworkUpToDate
<1>1. IInv => FrameworkUpToDate  BY DEF IInv, KnownInv, FrameworkUpToDate, Quiet
<1> QED BY <1>1, Invariance, PTL

(***************************************************************************)
(* Ports without a partner.                                                *)
(***************************************************************************)
(* The worker will look at the port, or is at it.                          *)
Removed(q) == \E i \in 1..Len(q) : q[i] = "remove"

Watched == worker # "poll" \/ Removed(uevents)

(* A forced port without a partner waits for one that is not announced     *)
(* yet, or is about to be returned to dual role, or the worker will see it.*)
OrphanInv ==
    ~partner /\ portType # "dual" /\ ~missed =>
        \/ binder \in {"waiting", "woken"} /\ ~mPartnerUp
        \/ binder = "revert"
        \/ Watched

(* A removal stays in the queue until the worker takes it.                 *)
LEMMA RemovedStays ==
    ASSUME uevents \in Seq({"add", "remove", "change"})
    PROVE  /\ uevents # <<>> => (Removed(uevents) => Removed(Tail(uevents)) \/ Head(uevents) = "remove")
           /\ \A event \in {"add", "remove", "change"} :
                 Removed(uevents) \/ event = "remove" => Removed(Append(uevents, event))
<1>1. ASSUME uevents # <<>>, NEW i \in 1..Len(uevents), uevents[i] = "remove"
      PROVE  Removed(Tail(uevents)) \/ Head(uevents) = "remove"
  <2>1. CASE i = 1
    BY <1>1, <2>1
  <2>2. CASE i # 1
    <3>1. i - 1 \in 1..Len(Tail(uevents)) /\ Tail(uevents)[i - 1] = uevents[i]
      BY <1>1, <2>2
    <3> QED BY <1>1, <3>1 DEF Removed
  <2> QED BY <2>1, <2>2
<1>2. ASSUME NEW event \in {"add", "remove", "change"}, Removed(uevents) \/ event = "remove"
      PROVE  Removed(Append(uevents, event))
  <2> DEFINE q == Append(uevents, event)
  <2>1. /\ Len(q) = Len(uevents) + 1 /\ Len(uevents) \in Nat /\ q[Len(uevents) + 1] = event
        /\ \A i \in 1..Len(uevents) : i \in 1..Len(q) /\ q[i] = uevents[i]
    OBVIOUS
  <2>2. Len(uevents) + 1 \in 1..Len(q)
    BY <2>1
  <2> HIDE DEF q
  <2> QED BY <1>2, <2>1, <2>2 DEF Removed, q
<1> QED BY <1>1, <1>2 DEF Removed

(* No port is an orphan at first.                                          *)
LEMMA OrphanInitial == Init => OrphanInv
BY DEF Init, OrphanInv

(* Every step keeps orphans explained.                                     *)
LEMMA OrphanStep == IInv /\ OrphanInv /\ [Next]_vars => OrphanInv'
<1> SUFFICES ASSUME IInv, OrphanInv, [Next]_vars PROVE OrphanInv'
  OBVIOUS
<1> USE DEF OrphanInv, Watched, port, call, history, At, Works
<1>1. ASSUME NEW mode \in Modes, SwitchMode(mode) PROVE OrphanInv'
  BY <1>1 DEF SwitchMode, Begin
<1>2. ASSUME NEW role \in Roles, SwitchData(role) PROVE OrphanInv'
  BY <1>2 DEF SwitchData, Begin
<1>3. CASE ForcePort \/ TimesOut \/ WakesSpuriously \/ WaitEnds
  BY <1>3 DEF ForcePort, TimesOut, WakesSpuriously, WaitEnds
<1>4. CASE Revert
  BY <1>4 DEF Revert, ToDual
<1>5. CASE ReadBack \/ Report
  BY <1>5 DEF ReadBack, Report
<1>6. CASE Receive
  BY <1>6 DEF Receive, Announce
<1>7. CASE ReportStatus
  BY <1>7 DEF ReportStatus
<1>8. CASE TryRevert
  BY <1>8 DEF TryRevert
<1>9. CASE CheckPartner
  BY <1>9 DEF CheckPartner
<1>10. CASE WriteDual
  BY <1>10 DEF WriteDual, ToDual
<1>11. CASE Attach \/ Detach \/ Swap
  <2>1. PICK event \in {"add", "remove", "change"} : uevents' = Append(uevents, event) /\ Comes(event)
                  /\ (partner' \/ partner' = partner \/ event = "remove")
    BY <1>11 DEF Attach, Detach, Swap, Comes
  <2>2. Removed(uevents) \/ event = "remove" => Removed(uevents')
    BY <2>1, RemovedStays DEF IInv, PortOK
  <2> QED BY <2>1, <2>2 DEF Comes
<1>12. CASE Tick
  BY <1>12 DEF Tick
<1>13. CASE UNCHANGED vars
  BY <1>13 DEF vars
<1> QED BY <1>1, <1>2, <1>3, <1>4, <1>5, <1>6, <1>7, <1>8, <1>9, <1>10, <1>11, <1>12, <1>13
        DEF Next, Switch, Worker

(* When all is done a port without a partner is back in dual role, unless  *)
(* the write failed or the partner left during a role switch.              *)
THEOREM OrphansAreExplained == Spec => []OrphanExplained
<1>1. OrphanInv => OrphanExplained
  BY DEF OrphanInv, OrphanExplained, Watched, Removed, Quiet
<1> QED BY Invariance, OrphanInitial, OrphanStep, <1>1, PTL DEF Spec
=============================================================================
