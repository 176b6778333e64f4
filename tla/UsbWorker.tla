----------------------------- MODULE UsbWorker -----------------------------
(***************************************************************************)
(* usb/Usb.cpp: how setCallback() starts and ends the thread that receives *)
(* uevents, uevent_work().  The HAL serves binder calls on one thread      *)
(* (main() sets a pool of 0), so calls of setCallback never overlap; what  *)
(* overlaps them is the worker, which creates the eventfd that is to stop  *)
(* it only some time after it was started.                                 *)
(*                                                                         *)
(* An eventfd is named by the worker that made it; mEventFd is the member  *)
(* that setCallback and every worker share without a lock.  Which callback *)
(* is registered makes no difference here, only whether one is.            *)
(*                                                                         *)
(* A callback may be withdrawn at any time, also before its worker has     *)
(* made the eventfd.  tooSoon, which is no state of the program, keeps the *)
(* first worker this happened to, so that the properties can tell what     *)
(* follows from it and from nothing else.                                  *)
(***************************************************************************)
EXTENDS Naturals, FiniteSets

CONSTANT MaxWorkers     \* bound on the threads setCallback starts

ASSUME MaxWorkersAssumption == MaxWorkers \in Nat

Workers == 1..MaxWorkers    \* in the order they are started

VARIABLES
    mCallback,  \* a callback is registered
    mLock,      \* "free", "binder" or the worker that holds it
    mPoll,      \* the thread the joinable handle stands for, 0 for none
    mEventFd,   \* the eventfd the member holds, 0 for none
    signalled,  \* eventfds written and not read
    binder,     \* the binder thread in setCallback: "idle", "configuring",
                \* "unlocked", "joining"
    configured, \* mIgnoreWakeup and mContaminantStatusPath are those of this callback
    tooSoon,    \* history: the first worker that was to stop before it had an
                \* eventfd, 0 for none
    pc          \* each worker: "new", "starting", "polling", "handling",
                \* "reading", "closing", "gone"

vars == <<mCallback, mLock, mPoll, mEventFd, signalled, binder, pc, configured,
          tooSoon>>

Alive == {w \in Workers : pc[w] \notin {"new", "gone"}}
Starting == {w \in Workers : pc[w] = "starting"}

(***************************************************************************)
(* setCallback().                                                          *)
(***************************************************************************)
Goes(w, where) == pc' = [pc EXCEPT ![w] = where]

(* A worker that is still joinable is abandoned, a new one takes over and  *)
(* runs already while the rest of setCallback, still under the lock, looks *)
(* for wakeup support and for the path of the contaminant status.          *)
Register_Always(w) ==
    /\ binder = "idle" /\ mLock = "free"
    /\ pc[w] = "new" /\ \A v \in Workers : v < w => pc[v] # "new"
    /\ mCallback' = TRUE /\ mPoll' = w /\ Goes(w, "starting")
    /\ binder' = "configuring" /\ mLock' = "binder" /\ configured' = FALSE
    /\ UNCHANGED <<mEventFd, signalled, tooSoon>>
Register(w) ==
    /\ binder = "idle" /\ mLock = "free" /\ ~mCallback
    /\ pc[w] = "new" /\ \A v \in Workers : v < w => pc[v] # "new"
    /\ mCallback' = TRUE /\ mPoll' = w /\ Goes(w, "starting")
    /\ binder' = "configuring" /\ mLock' = "binder" /\ configured' = FALSE
    /\ UNCHANGED <<mEventFd, signalled, tooSoon>>

Configure ==
    /\ binder = "configuring" /\ binder' = "idle" /\ mLock' = "free"
    /\ configured' = TRUE
    /\ UNCHANGED <<mCallback, mPoll, mEventFd, signalled, pc, tooSoon>>

(* Another callback for one, or none for none, starts and ends nothing.    *)
(* The lock is given up before the worker is told to end and joined.       *)
Withdraw_KeepsLock ==
    /\ binder = "idle" /\ mLock = "free" /\ mCallback
    /\ mCallback' = FALSE /\ binder' = "unlocked"
    /\ mLock' = "binder"
    /\ UNCHANGED <<mPoll, mEventFd, signalled, pc, configured, tooSoon>>
Withdraw ==
    /\ binder = "idle" /\ mLock = "free" /\ mCallback
    /\ mCallback' = FALSE /\ binder' = "unlocked"
    /\ UNCHANGED <<mLock, mPoll, mEventFd, signalled, pc, configured, tooSoon>>

(* A write to no eventfd fails, and then nobody is joined.                 *)
TooSoon == IF tooSoon = 0 /\ mEventFd = 0 /\ mPoll \in Starting THEN mPoll ELSE tooSoon

Signal_NoJoin ==
    /\ binder = "unlocked" /\ binder' = "idle"
    /\ signalled' = signalled \cup ({mEventFd} \ {0}) /\ tooSoon' = TooSoon
    /\ UNCHANGED <<mCallback, mLock, mPoll, mEventFd, pc, configured>>
Signal ==
    /\ binder = "unlocked" /\ tooSoon' = TooSoon
    /\ IF mEventFd = 0
       THEN binder' = "idle" /\ UNCHANGED signalled
       ELSE binder' = "joining" /\ signalled' = signalled \cup {mEventFd}
    /\ UNCHANGED <<mCallback, mLock, mPoll, mEventFd, pc, configured>>

Join ==
    /\ binder = "joining" /\ pc[mPoll] = "gone"
    /\ binder' = "idle" /\ mPoll' = 0
    /\ mLock' = IF mLock = "binder" THEN "free" ELSE mLock
    /\ UNCHANGED <<mCallback, mEventFd, signalled, pc, configured, tooSoon>>

(***************************************************************************)
(* uevent_work().                                                          *)
(***************************************************************************)
(* Assigning mEventFd closes the one it held.                              *)
Listen(w) ==
    /\ pc[w] = "starting" /\ Goes(w, "polling")
    /\ mEventFd' = w /\ signalled' = signalled \ {mEventFd}
    /\ UNCHANGED <<mCallback, mLock, mPoll, binder, configured, tooSoon>>

(* A socket, epoll set or eventfd that cannot be had ends the thread; when *)
(* only the last epoll_ctl fails, mEventFd was assigned and is reset.      *)
FailToListen(w) ==
    /\ pc[w] = "starting" /\ Goes(w, "gone")
    /\ \/ UNCHANGED <<mEventFd, signalled>>
       \/ mEventFd' = 0 /\ signalled' = signalled \ {mEventFd}
    /\ UNCHANGED <<mCallback, mLock, mPoll, binder, configured, tooSoon>>

(* Every worker has a socket of its own and receives every uevent.         *)
Receive(w) ==
    /\ pc[w] = "polling" /\ Goes(w, "handling")
    /\ UNCHANGED <<mCallback, mLock, mPoll, mEventFd, signalled, binder, configured, tooSoon>>

(* notifyPortStatusChange() under the lock, if there is a callback.        *)
Handle_Unlocked(w) ==
    /\ pc[w] = "handling" /\ Goes(w, "polling")
    /\ UNCHANGED <<mCallback, mLock, mPoll, mEventFd, signalled, binder, configured, tooSoon>>
Handle(w) ==
    /\ pc[w] = "handling" /\ mLock = "free" /\ Goes(w, "polling")
    /\ UNCHANGED <<mCallback, mLock, mPoll, mEventFd, signalled, binder, configured, tooSoon>>

(* The worker's own eventfd wakes it while that is open, but what it then  *)
(* reads is what mEventFd holds by now: nothing, and the loop goes on, or  *)
(* an eventfd, and the read blocks until it is written.                    *)
Wake(w) ==
    /\ pc[w] = "polling" /\ mEventFd = w /\ w \in signalled /\ Goes(w, "reading")
    /\ UNCHANGED <<mCallback, mLock, mPoll, mEventFd, signalled, binder, configured, tooSoon>>

Read(w) ==
    /\ pc[w] = "reading"
    /\ \/ mEventFd = 0 /\ Goes(w, "polling") /\ UNCHANGED signalled
       \/ /\ mEventFd \in signalled /\ signalled' = signalled \ {mEventFd}
          /\ Goes(w, "closing")
    /\ UNCHANGED <<mCallback, mLock, mPoll, mEventFd, binder, configured, tooSoon>>

PollFails(w) ==
    /\ pc[w] = "polling" /\ Goes(w, "closing")
    /\ UNCHANGED <<mCallback, mLock, mPoll, mEventFd, signalled, binder, configured, tooSoon>>

Close(w) ==
    /\ pc[w] = "closing" /\ Goes(w, "gone")
    /\ mEventFd' = 0 /\ signalled' = signalled \ {mEventFd}
    /\ UNCHANGED <<mCallback, mLock, mPoll, binder, configured, tooSoon>>

(***************************************************************************)
(* Specification.                                                          *)
(***************************************************************************)
Init ==
    /\ mCallback = FALSE /\ mLock = "free" /\ mPoll = 0
    /\ mEventFd = 0 /\ signalled = {} /\ binder = "idle" /\ configured = FALSE
    /\ tooSoon = 0
    /\ pc = [w \in Workers |-> "new"]

Binder == Configure \/ Withdraw \/ Signal \/ Join \/ \E w \in Workers : Register(w)

Work(w) == Listen(w) \/ FailToListen(w) \/ Handle(w) \/ Read(w) \/ Close(w)

Next == Binder \/ \E w \in Workers : Work(w) \/ Receive(w) \/ Wake(w) \/ PollFails(w)

Spec == Init /\ [][Next]_vars

(* Threads run.  epoll_wait() reports every descriptor that is ready, so a *)
(* worker that keeps polling sees its eventfd however many uevents there   *)
(* are.  Nobody has to register or withdraw a callback.                    *)
FairSpec ==
    /\ Spec /\ WF_vars(Configure) /\ WF_vars(Signal) /\ WF_vars(Join)
    /\ \A w \in Workers : WF_vars(Work(w)) /\ SF_vars(Wake(w))

(***************************************************************************)
(* Properties.                                                             *)
(***************************************************************************)
TypeOK ==
    /\ mCallback \in BOOLEAN /\ mLock \in {"free", "binder"}
    /\ mPoll \in Workers \cup {0} /\ mEventFd \in Workers \cup {0}
    /\ signalled \subseteq Workers /\ configured \in BOOLEAN
    /\ tooSoon \in Workers \cup {0}
    /\ binder \in {"idle", "configuring", "unlocked", "joining"}
    /\ pc \in [Workers -> {"new", "starting", "polling", "handling", "reading",
                           "closing", "gone"}]

(* Never two workers, so that a uevent is handled once, until a worker is  *)
(* told to stop before it has an eventfd; and then none older than it.     *)
OneWorker == \A v, w \in Alive : v < w => tooSoon \in 1..v

(* "Kill the worker thread if the new callback is NULL" (Usb.cpp:1080):    *)
(* once setCallback(NULL) has returned, no worker is left.  The code does  *)
(* not do what the comment says.                                           *)
NullMeansStopped == binder = "idle" /\ ~mCallback => Alive = {}

(* What the code does: a worker is left after setCallback(NULL) only if it *)
(* or an older one was told to stop before it had an eventfd.              *)
LeftIfTooSoon == binder = "idle" /\ ~mCallback => \A w \in Alive : tooSoon \in 1..w

(* A written eventfd is one that somebody listens to, and is closed with   *)
(* the worker that made it: no later worker is stopped by it.              *)
NoStaleStop == \A e \in signalled : mEventFd = e /\ e \in Alive

(* A callback is told of nothing before setCallback has found what its     *)
(* reports are made from, although its worker runs by then.                *)
ConfiguredFirst ==
    [][\A w \in Workers : pc[w] = "handling" /\ pc'[w] = "polling" /\ mCallback
          => configured]_vars

(* setCallback(NULL) returns: the binder thread of the HAL is not lost to  *)
(* a join that never ends.  After a stop that came too soon it may be: the *)
(* worker that was left can take over mEventFd and so the stop of the next *)
(* one, which setCallback then joins in vain.                              *)
JoinReturns == binder = "joining" /\ tooSoon = 0 ~> binder = "idle"
=============================================================================
