---------------------------- MODULE GestureProofs ---------------------------
(***************************************************************************)
(* Theorems about GestureSync, for any number of retries and of changes    *)
(* around the application, and about LiftToWake, for any delay and any     *)
(* events.                                                                 *)
(*                                                                         *)
(* Every property of the applied settings has the same argument: as long   *)
(* as no news is on the way and no message posted, what applySetting() has *)
(* read so far is still true, and so is what it has written.  The wake-ups *)
(* follow from a chain of actions that the events on their way carry on.   *)
(***************************************************************************)
EXTENDS GestureSync, LiftToWake, TLAPS

News == notices # {} \/ queue # <<>>

Read(stages) == stage \in stages \/ Applied

(* Where applySetting() finds out whether the fingerprint is wanted.       *)
Deciding == {"screen", "keyguard", "fingerprint"}

(* Delayed runs and the count of attempts.                                 *)
RetryInv ==
    /\ stage \in Stages /\ pending \in 0..1
    /\ mRetries \in 0..MaxRetries + 1 /\ failures = mRetries
    /\ pending > 0 => stage = "idle" /\ mRetries <= MaxRetries
    /\ stage # "idle" => mRetries <= MaxRetries
    /\ gaveUp => mRetries = MaxRetries + 1 /\ stage = "idle" /\ pending = 0

(* The sensor listener, once update() has run.                             *)
LiftInv ==
    ~News /\ Read(Stages \ {"idle", "lift"}) =>
        (listening <=> ~interactive /\ "lift" \in settings /\ ~refused)

(* What is known to be true of the bits found so far, then of the mask.    *)
DoubleTapIn(bits) == "doubleTap" \in bits <=> "doubleTap" \in settings

FingerprintIn(bits) ==
    /\ "fingerprint" \in bits =>
          "fingerprint" \in settings /\ (~interactive \/ auth \/ locked)
    /\ "fingerprint" \in settings /\ (~interactive \/ mKeyguardAuthenticationRunning)
          => "fingerprint" \in bits

MaskInv ==
    /\ wanted \subseteq Owned /\ mask \subseteq Bits
    /\ stage \in Deciding => "fingerprint" \notin wanted
    /\ ~News /\ stage \in Deciding \cup {"write"} => DoubleTapIn(wanted)
    /\ ~News /\ stage = "keyguard" => interactive /\ ~mKeyguardAuthenticationRunning
    /\ ~News /\ stage = "fingerprint" => ~interactive \/ auth \/ locked
    /\ stage = "fingerprint" => registered
    /\ ~News /\ booted /\ stage = "write" => FingerprintIn(wanted)
    /\ ~News /\ Applied => DoubleTapIn(mask) /\ (booted => FingerprintIn(mask))
    /\ Applied => ("enable" \in mask <=> mask \ {"enable"} # {})

(* The fingerprint listener is registered from the first time the service  *)
(* is found, and boot is announced.                                        *)
ListenerInv ==
    /\ registered => booted
    /\ ~News /\ booted /\ Read(Deciding \cup {"doubleTap", "write"}) => registered

(* The application believes in an authentication that has ended only as    *)
(* long as the end is on its way, behind the belief.                       *)
Holds(q, m) == \E i \in 1..Len(q) : q[i] = m

Retracted(q) == \A i \in 1..Len(q) : q[i] = "auth" => \E j \in i..Len(q) : q[j] = "noauth"

AuthInv ==
    /\ queue \in Seq({"sync", "auth", "noauth"})
    /\ mKeyguardAuthenticationRunning \/ "auth" \in notices => registered
    /\ Holds(queue, "auth") => registered
    /\ ~auth /\ "auth" \notin notices =>
          /\ mKeyguardAuthenticationRunning => Holds(queue, "noauth")
          /\ Retracted(queue)

USE DEF world, process, history, vars

(* RetryInv needs nothing else.                                            *)
LEMMA RetryInitial == Init => RetryInv
BY RetriesAssumption DEF Init, RetryInv, Stages

(* Every step leaves one chain of retries, counted as it should be.        *)
LEMMA RetryStep == RetryInv /\ [Next]_vars => RetryInv'
<1> SUFFICES ASSUME RetryInv, [Next]_vars PROVE RetryInv'
  OBVIOUS
<1> USE RetriesAssumption DEF RetryInv, Stages
<1>1. CASE World
  BY <1>1 DEF World, ChangeSettings, ChangeEnrollment, ChangeScreen, ChangeLock, ChangeAuth,
              Boot, Restart, Happens
<1>2. CASE Handler
  <2>1. CASE synchronizeSetting
    BY <2>1 DEF synchronizeSetting, Receive
  <2>2. CASE Retry
    BY <2>2 DEF Retry
  <2>3. CASE \E running \in BOOLEAN : Authentication(running)
    BY <2>3 DEF Authentication
  <2>4. CASE UpdateLift \/ RegisterListener \/ ReadDoubleTap
    BY <2>4 DEF UpdateLift, RegisterListener, ReadDoubleTap
  <2>8. CASE ReadScreen \/ ReadKeyguard \/ ReadFingerprint
    BY <2>8 DEF ReadScreen, ReadKeyguard, Request, ReadFingerprint
  <2>5. ASSUME stage # "idle", Failed PROVE RetryInv'
    BY <2>5 DEF Failed
  <2>6. CASE WriteMask
    BY <2>5, <2>6 DEF WriteMask, Done
  <2>7. CASE ReadFails
    BY <2>5, <2>7 DEF ReadFails
  <2> QED
    BY <1>2, <2>1, <2>2, <2>3, <2>4, <2>6, <2>7, <2>8 DEF Handler
<1>3. CASE \E topic \in Topics : Deliver(topic)
  BY <1>3 DEF Deliver
<1>4. CASE UNCHANGED vars
  BY <1>4
<1> QED
  BY <1>1, <1>2, <1>3, <1>4 DEF Next

(* Failures from before a change are not held against it                   *)
(* (GestureApplication.java:92).                                           *)
THEOREM GivenUpLate == Spec => []GivesUpLate
<1>1. RetryInv => GivesUpLate
  BY RetriesAssumption DEF RetryInv, GivesUpLate
<1> QED
  BY RetryInitial, RetryStep, <1>1, PTL DEF Spec

(***************************************************************************)
(* The raise sensor.                                                       *)
(***************************************************************************)
LEMMA LiftInitial == Init => LiftInv
BY DEF Init, LiftInv, News, Read, Applied, Quiet

(* Every step keeps the raise sensor listened to as the settings want.     *)
LEMMA LiftStep == RetryInv /\ LiftInv /\ [Next]_vars => LiftInv'
<1> SUFFICES ASSUME RetryInv, LiftInv, [Next]_vars PROVE LiftInv'
  OBVIOUS
<1> USE DEF RetryInv, Stages, LiftInv, News, Read, Applied, Quiet
<1>1. CASE World
  <2>1. CASE ChangeSettings \/ ChangeScreen
    BY <2>1 DEF ChangeSettings, ChangeScreen, Happens
  <2>2. CASE ChangeEnrollment
    BY <2>2 DEF ChangeEnrollment, Happens
  <2>3. CASE ChangeLock \/ ChangeAuth \/ Boot
    BY <2>3 DEF ChangeLock, ChangeAuth, Boot, Happens
  <2>4. CASE Restart
    BY <2>4 DEF Restart
  <2> QED
    BY <1>1, <2>1, <2>2, <2>3, <2>4 DEF World
<1>2. CASE Handler
  <2>1. CASE synchronizeSetting
    BY <2>1 DEF synchronizeSetting, Receive
  <2>2. CASE Retry
    BY <2>2 DEF Retry
  <2>3. CASE \E running \in BOOLEAN : Authentication(running)
    BY <2>3 DEF Authentication, Receive
  <2>4. CASE UpdateLift
    BY <2>4 DEF UpdateLift, LiftRequested
  <2>5. CASE RegisterListener \/ ReadDoubleTap \/ ReadScreen \/ ReadKeyguard \/ ReadFingerprint
    BY <2>5 DEF RegisterListener, ReadDoubleTap, ReadScreen, ReadKeyguard,
             Request, ReadFingerprint
  <2>6. ASSUME stage # "idle", Failed PROVE LiftInv'
    BY <2>6 DEF Failed
  <2>7. CASE WriteMask
    BY <2>6, <2>7 DEF WriteMask, Done
  <2>8. CASE ReadFails
    BY <2>6, <2>8 DEF ReadFails
  <2> QED
    BY <1>2, <2>1, <2>2, <2>3, <2>4, <2>5, <2>7, <2>8 DEF Handler
<1>3. CASE \E topic \in Topics : Deliver(topic)
  BY <1>3 DEF Deliver
<1>4. CASE UNCHANGED vars
  BY <1>4
<1> QED
  BY <1>1, <1>2, <1>3, <1>4 DEF Next

(* The raise sensor is listened to exactly while it should be              *)
(* (LiftToWakeController.java:51).                                         *)
THEOREM LiftIsFollowed == Spec => []LiftFollows
<1>1. LiftInv => LiftFollows
  BY DEF LiftInv, LiftFollows, News, Read, Applied, Quiet
<1> QED
  BY RetryInitial, RetryStep, LiftInitial, LiftStep, <1>1, PTL DEF Spec

(***************************************************************************)
(* The fingerprint listener.                                               *)
(***************************************************************************)
LEMMA ListenerInitial == Init => ListenerInv
BY DEF Init, ListenerInv, News, Read, Applied, Quiet

(* Every step keeps the fingerprint listener registered as it should be.     *)
LEMMA ListenerStep == RetryInv /\ ListenerInv /\ [Next]_vars => ListenerInv'
<1> SUFFICES ASSUME RetryInv, ListenerInv, [Next]_vars PROVE ListenerInv'
  OBVIOUS
<1> USE DEF RetryInv, Stages, ListenerInv, News, Read, Deciding, Applied, Quiet
<1>1. CASE World
  <2>1. CASE ChangeSettings \/ ChangeEnrollment \/ ChangeScreen
    BY <2>1 DEF ChangeSettings, ChangeEnrollment, ChangeScreen, Happens
  <2>2. CASE ChangeLock \/ ChangeAuth \/ Boot
    BY <2>2 DEF ChangeLock, ChangeAuth, Boot, Happens
  <2>3. CASE Restart
    BY <2>3 DEF Restart
  <2> QED
    BY <1>1, <2>1, <2>2, <2>3 DEF World
<1>2. CASE Handler
  <2>1. CASE synchronizeSetting
    BY <2>1 DEF synchronizeSetting, Receive
  <2>2. CASE Retry
    BY <2>2 DEF Retry
  <2>3. CASE \E running \in BOOLEAN : Authentication(running)
    BY <2>3 DEF Authentication, Receive
  <2>4. CASE UpdateLift \/ ReadDoubleTap \/ ReadScreen \/ ReadKeyguard \/ ReadFingerprint
    BY <2>4 DEF UpdateLift, ReadDoubleTap, ReadScreen, ReadKeyguard, Request, ReadFingerprint
  <2>8. CASE RegisterListener
    BY <2>8 DEF RegisterListener
  <2>5. ASSUME stage # "idle", Failed PROVE ListenerInv'
    BY <2>5 DEF Failed
  <2>6. CASE WriteMask
    BY <2>5, <2>6 DEF WriteMask, Done
  <2>7. CASE ReadFails
    BY <2>5, <2>7 DEF ReadFails
  <2> QED
    BY <1>2, <2>1, <2>2, <2>3, <2>4, <2>6, <2>7, <2>8 DEF Handler
<1>3. CASE \E topic \in Topics : Deliver(topic)
  BY <1>3 DEF Deliver
<1>4. CASE UNCHANGED vars
  BY <1>4
<1> QED
  BY <1>1, <1>2, <1>3, <1>4 DEF Next

(***************************************************************************)
(* The belief in an authentication.                                        *)
(***************************************************************************)
Messages == {"sync", "auth", "noauth"}

(* What a message at the end of a queue changes.                           *)
LEMMA AppendFacts ==
  ASSUME NEW q \in Seq(Messages), NEW m \in Messages
  PROVE  /\ Append(q, m) \in Seq(Messages) /\ Append(q, m) # <<>>
         /\ Len(Append(q, m)) = Len(q) + 1 /\ Append(q, m)[Len(q) + 1] = m
         /\ \A i \in 1..Len(q) : Append(q, m)[i] = q[i]
OBVIOUS

(* What the removal of the message at its head changes.                    *)
LEMMA TailFacts ==
  ASSUME NEW q \in Seq(Messages), q # <<>>
  PROVE  /\ Tail(q) \in Seq(Messages) /\ Len(Tail(q)) = Len(q) - 1
         /\ Len(q) \in Nat /\ Len(q) >= 1 /\ Head(q) = q[1]
         /\ \A i \in 1..Len(q) - 1 : Tail(q)[i] = q[i + 1]
OBVIOUS

(* A queue holds what it held and the message that was added.              *)
LEMMA HoldsAppend ==
  ASSUME NEW q \in Seq(Messages), NEW m \in Messages, NEW n
  PROVE  Holds(Append(q, m), n) <=> Holds(q, n) \/ m = n
<1> DEFINE r == Append(q, m)
<1>1. /\ Len(q) \in Nat /\ Len(r) = Len(q) + 1 /\ r[Len(q) + 1] = m
      /\ \A i \in 1..Len(q) : r[i] = q[i]
  BY AppendFacts
<1> QED
  BY <1>1 DEF Holds

(* A claim that is added must be retracted, a retraction settles all.      *)
LEMMA RetractedAppend ==
  ASSUME NEW q \in Seq(Messages), NEW m \in Messages
  PROVE  /\ Retracted(q) /\ m # "auth" => Retracted(Append(q, m))
         /\ Retracted(Append(q, "noauth"))
<1>1. Retracted(q) /\ m # "auth" => Retracted(Append(q, m))
  <2> DEFINE r == Append(q, m)
  <2>1. /\ Len(q) \in Nat /\ Len(r) = Len(q) + 1 /\ r[Len(q) + 1] = m
        /\ \A i \in 1..Len(q) : r[i] = q[i]
    BY AppendFacts
  <2> SUFFICES ASSUME Retracted(q), m # "auth", NEW i \in 1..Len(r), r[i] = "auth"
               PROVE  \E j \in i..Len(r) : r[j] = "noauth"
    BY DEF Retracted
  <2>2. i \in 1..Len(q) /\ q[i] = "auth"
    BY <2>1
  <2>3. PICK j \in i..Len(q) : q[j] = "noauth"
    BY <2>2 DEF Retracted
  <2> QED
    BY <2>1, <2>2, <2>3
<1>2. Retracted(Append(q, "noauth"))
  <2> DEFINE r == Append(q, "noauth")
  <2>1. Len(q) \in Nat /\ Len(r) = Len(q) + 1 /\ r[Len(q) + 1] = "noauth"
    BY AppendFacts DEF Messages
  <2> QED
    BY <2>1 DEF Retracted
<1> QED
  BY <1>1, <1>2

(* The rest of a queue holds all of it but the first message.              *)
LEMMA TailHolds ==
  ASSUME NEW q \in Seq(Messages), q # <<>>, NEW m
  PROVE  /\ Holds(q, m) /\ Head(q) # m => Holds(Tail(q), m)
         /\ Holds(Tail(q), m) => Holds(q, m)
         /\ Holds(q, Head(q))
<1> DEFINE r == Tail(q)
<1>1. /\ Len(q) \in Nat /\ Len(q) >= 1 /\ Len(r) = Len(q) - 1 /\ Head(q) = q[1]
      /\ \A i \in 1..Len(q) - 1 : r[i] = q[i + 1]
  BY TailFacts
<1>2. ASSUME Holds(q, m), Head(q) # m PROVE Holds(r, m)
  <2>1. PICK i \in 1..Len(q) : q[i] = m
    BY <1>2 DEF Holds
  <2>2. i - 1 \in 1..Len(r) /\ r[i - 1] = q[(i - 1) + 1]
    BY <1>1, <1>2, <2>1
  <2> QED
    BY <2>1, <2>2 DEF Holds
<1>3. ASSUME Holds(r, m) PROVE Holds(q, m)
  <2>1. PICK i \in 1..Len(r) : r[i] = m
    BY <1>3 DEF Holds
  <2>2. i + 1 \in 1..Len(q) /\ q[i + 1] = m
    BY <1>1, <2>1
  <2> QED
    BY <2>2 DEF Holds
<1>4. Holds(q, Head(q))
  BY <1>1 DEF Holds
<1> QED
  BY <1>2, <1>3, <1>4

(* Claims stay retracted as messages are handled.                          *)
LEMMA TailRetracted ==
  ASSUME NEW q \in Seq(Messages), q # <<>>, Retracted(q)
  PROVE  /\ Retracted(Tail(q))
         /\ Head(q) = "auth" => Holds(Tail(q), "noauth")
<1> DEFINE r == Tail(q)
<1>1. /\ Len(q) \in Nat /\ Len(q) >= 1 /\ Len(r) = Len(q) - 1 /\ Head(q) = q[1]
      /\ \A i \in 1..Len(q) - 1 : r[i] = q[i + 1]
  BY TailFacts
<1>2. ASSUME NEW i \in 1..Len(r), r[i] = "auth"
      PROVE  \E j \in i..Len(r) : r[j] = "noauth"
  <2>1. i + 1 \in 1..Len(q) /\ q[i + 1] = "auth"
    BY <1>1, <1>2
  <2>2. PICK j \in (i + 1)..Len(q) : q[j] = "noauth"
    BY <2>1 DEF Retracted
  <2>3. j - 1 \in i..Len(r) /\ r[j - 1] = q[(j - 1) + 1]
    BY <1>1, <2>1, <2>2
  <2> QED
    BY <2>2, <2>3
<1>3. Head(q) = "auth" => Holds(q, "noauth")
  BY <1>1 DEF Retracted, Holds
<1> QED
  BY <1>2, <1>3, TailHolds DEF Retracted

(* The flag of the keyguard is right before anything happens.              *)
LEMMA AuthInitial == Init => AuthInv
BY DEF Init, AuthInv, Holds, Retracted

(* Every step keeps the keyguard flag explained by the messages queued.    *)
LEMMA AuthStep == AuthInv /\ [Next]_vars => AuthInv'
<1> SUFFICES ASSUME AuthInv, [Next]_vars PROVE AuthInv'
  OBVIOUS
<1> USE DEF AuthInv, Messages
<1>1. CASE World
  <2>1. CASE ChangeSettings \/ ChangeEnrollment \/ ChangeScreen
    BY <2>1 DEF ChangeSettings, ChangeEnrollment, ChangeScreen, Happens, Heard
  <2>2. CASE ChangeLock \/ Boot
    BY <2>2 DEF ChangeLock, Boot, Happens
  <2>3. CASE ChangeAuth
    <3>1. /\ registered => "auth" \in notices'
          /\ ~registered => notices' = notices
          /\ UNCHANGED <<queue, mKeyguardAuthenticationRunning, registered>>
      BY <2>3 DEF ChangeAuth, Happens, Heard
    <3>2. ~registered => Retracted(queue)
      BY DEF Holds, Retracted
    <3> QED
      BY <3>1, <3>2
  <2>4. CASE Restart
    BY <2>4 DEF Restart, Holds, Retracted
  <2> QED
    BY <1>1, <2>1, <2>2, <2>3, <2>4 DEF World
<1>2. CASE synchronizeSetting
  <2>1. /\ queue # <<>> /\ Head(queue) = "sync" /\ queue' = Tail(queue)
        /\ UNCHANGED <<notices, auth, mKeyguardAuthenticationRunning, registered>>
    BY <1>2 DEF synchronizeSetting, Receive
  <2> QED
    BY <2>1, TailFacts, TailHolds, TailRetracted
<1>3. ASSUME NEW running \in BOOLEAN, Authentication(running) PROVE AuthInv'
  <2>1. /\ queue # <<>> /\ Head(queue) = IF running THEN "auth" ELSE "noauth"
        /\ queue' = Append(Tail(queue), "sync")
        /\ mKeyguardAuthenticationRunning' = running
        /\ UNCHANGED <<notices, auth, registered>>
    BY <1>3 DEF Authentication, Receive
  <2>2. Tail(queue) \in Seq(Messages) /\ queue' \in Seq(Messages)
    BY <2>1, TailFacts, AppendFacts
  <2>3. \A m : Holds(queue', m) <=> Holds(Tail(queue), m) \/ m = "sync"
    BY <2>1, <2>2, HoldsAppend
  <2>4. Retracted(queue) => Retracted(queue')
    BY <2>1, <2>2, TailRetracted, RetractedAppend
  <2>5. Holds(queue', "auth") => Holds(queue, "auth")
    BY <2>1, <2>3, TailHolds
  <2>6. running => Holds(queue, "auth") /\ (Retracted(queue) => Holds(queue', "noauth"))
    BY <2>1, <2>3, TailHolds, TailRetracted
  <2> QED
    BY <2>1, <2>2, <2>4, <2>5, <2>6
<1>5. CASE \/ Retry \/ UpdateLift \/ ReadDoubleTap \/ ReadScreen \/ ReadKeyguard
            \/ ReadFingerprint \/ WriteMask \/ ReadFails
  BY <1>5 DEF Retry, UpdateLift, ReadDoubleTap, ReadScreen, ReadKeyguard, Request,
              ReadFingerprint, WriteMask, ReadFails,
              Failed, Done
<1>8. CASE RegisterListener
  BY <1>8 DEF RegisterListener
<1>6. ASSUME NEW topic \in Topics, Deliver(topic) PROVE AuthInv'
  <2>1. /\ topic \in notices /\ notices' = notices \ {topic}
        /\ Message(topic) \in Messages /\ queue' = Append(queue, Message(topic))
        /\ UNCHANGED <<auth, mKeyguardAuthenticationRunning, registered>>
    BY <1>6 DEF Deliver, Message
  <2>2. /\ queue' \in Seq(Messages)
        /\ \A m : Holds(queue', m) <=> Holds(queue, m) \/ m = Message(topic)
    BY <2>1, HoldsAppend, AppendFacts
  <2>3. Message(topic) = "sync" /\ Retracted(queue) => Retracted(queue')
    BY <2>1, RetractedAppend
  <2>4. Message(topic) = "noauth" => Retracted(queue')
    BY <2>1, RetractedAppend
  <2>5. CASE topic # "auth"
    BY <2>1, <2>2, <2>3, <2>5 DEF Message
  <2>6. CASE topic = "auth"
    BY <2>1, <2>2, <2>4, <2>6 DEF Message
  <2> QED
    BY <2>5, <2>6
<1>7. CASE UNCHANGED vars
  BY <1>7
<1> QED
  BY <1>1, <1>2, <1>3, <1>5, <1>6, <1>7, <1>8 DEF Next, Handler

(***************************************************************************)
(* The mask.                                                               *)
(***************************************************************************)
LEMMA MaskInitial == Init => MaskInv
BY DEF Init, MaskInv, News, Applied, Quiet, Owned, Bits

(* With no message left the belief is right.                               *)
LEMMA BeliefIsTrue == AuthInv /\ ~News /\ mKeyguardAuthenticationRunning => auth /\ registered
BY DEF AuthInv, News, Holds

(* The mask that is written has the bits asked for and the enable bit.     *)
LEMMA UpdatedFacts ==
  ASSUME wanted \subseteq Owned, mask \subseteq Bits
  PROVE  /\ Updated \subseteq Bits
         /\ \A bit \in Owned : bit \in Updated <=> bit \in wanted
         /\ "enable" \in Updated <=> Updated \ {"enable"} # {}
BY DEF Updated, Owned, Bits

(* Every step keeps what is about to be written in accord with the news.   *)
LEMMA MaskStep ==
  RetryInv /\ ListenerInv /\ AuthInv /\ MaskInv /\ [Next]_vars => MaskInv'
<1> SUFFICES ASSUME RetryInv, ListenerInv, AuthInv, MaskInv, [Next]_vars PROVE MaskInv'
  OBVIOUS
<1> USE DEF MaskInv, News, Applied, Quiet, Deciding
<1>1. CASE World
  <2>1. CASE ChangeSettings \/ ChangeScreen \/ Boot
    BY <2>1 DEF ChangeSettings, ChangeScreen, Boot, Happens
  <2>2. CASE ChangeEnrollment
    BY <2>2 DEF ChangeEnrollment, Happens, Heard, DoubleTapIn, ListenerInv, Read
  <2>3. CASE ChangeLock
    BY <2>3 DEF ChangeLock, Happens, DoubleTapIn, FingerprintIn
  <2>4. CASE ChangeAuth
    BY <2>4 DEF ChangeAuth, Happens, Heard, DoubleTapIn, ListenerInv, Read
  <2>5. CASE Restart
    BY <2>5 DEF Restart, Owned
  <2> QED
    BY <1>1, <2>1, <2>2, <2>3, <2>4, <2>5 DEF World
<1>2. CASE synchronizeSetting
  BY <1>2 DEF synchronizeSetting, Receive
<1>3. CASE Retry
  BY <1>3 DEF Retry
<1>4. ASSUME NEW running \in BOOLEAN, Authentication(running) PROVE MaskInv'
  <2>1. queue' # <<>> /\ stage = "idle" /\ UNCHANGED <<stage, wanted, mask>>
    BY <1>4, TailFacts, AppendFacts DEF Authentication, Receive, AuthInv, Messages
  <2> QED
    BY <2>1
<1>5. CASE UpdateLift \/ RegisterListener
  BY <1>5 DEF UpdateLift, RegisterListener
<1>6. CASE ReadDoubleTap
  BY <1>6 DEF ReadDoubleTap, DoubleTapIn, Owned, Deciding
<1>7. CASE ReadScreen \/ ReadKeyguard \/ ReadFingerprint
  <2>1. /\ UNCHANGED <<world, notices, queue, mKeyguardAuthenticationRunning, registered, mask>>
        /\ stage \in Deciding /\ stage' \in Deciding \cup {"write"}
    BY <1>7 DEF ReadScreen, ReadKeyguard, Request, ReadFingerprint, Deciding
  <2>2. CASE ReadScreen
    <3>1. wanted' = wanted /\ (stage' = "fingerprint" => registered)
          /\ (stage' # "fingerprint" => stage' = "keyguard" \/ ~registered)
      BY <2>2 DEF ReadScreen, Request
    <3>2. /\ stage = "screen" /\ stage' # "screen"
          /\ stage' = "keyguard" => interactive /\ ~mKeyguardAuthenticationRunning
          /\ stage' = "fingerprint" => ~interactive \/ mKeyguardAuthenticationRunning
      BY <2>2 DEF ReadScreen, Request
    <3>3. ~News /\ booted => stage' # "write"
      BY <3>1, <3>2 DEF ListenerInv, Read, Deciding
    <3> QED BY <2>1, <3>1, <3>2, <3>3, BeliefIsTrue DEF DoubleTapIn, Deciding
  <2>3. CASE ReadKeyguard
    <3>1. /\ stage = "keyguard" /\ wanted' = wanted /\ stage' # "keyguard"
          /\ stage' = "fingerprint" => registered /\ locked
      BY <2>3 DEF ReadKeyguard, Request
    <3>2. ~News /\ booted /\ stage' = "write" => FingerprintIn(wanted')
      BY <3>1 DEF FingerprintIn, Deciding
    <3> QED BY <2>1, <3>1, <3>2 DEF DoubleTapIn, FingerprintIn, Deciding
  <2>4. CASE ReadFingerprint
    <3>1. /\ stage = "fingerprint" /\ stage' = "write"
          /\ wanted' \in {wanted, wanted \cup {"fingerprint"}}
          /\ "fingerprint" \in wanted' <=> "fingerprint" \in settings
      BY <2>4 DEF ReadFingerprint, Deciding
    <3>2. ~News => FingerprintIn(wanted')
      BY <3>1 DEF FingerprintIn
    <3> QED BY <2>1, <3>1, <3>2 DEF DoubleTapIn, FingerprintIn, Owned, Deciding
  <2> QED BY <1>7, <2>2, <2>3, <2>4
<1>8. ASSUME stage # "idle", Failed, mask' \in {mask, Updated} PROVE MaskInv'
  <2>1. stage' = "idle" /\ wanted' = {} /\ mask' \subseteq Bits
    BY <1>8, UpdatedFacts DEF Failed
  <2>2. ~Applied'
    BY <1>8 DEF Failed, RetryInv
  <2> QED
    BY <2>1, <2>2
<1>9. CASE WriteMask
  <2>1. CASE mask' = Updated /\ Done
    <3>1. /\ stage = "write" /\ stage' = "idle" /\ wanted' = {} /\ mask' = Updated
          /\ UNCHANGED <<world, notices, queue, mKeyguardAuthenticationRunning>>
      BY <1>9, <2>1 DEF WriteMask, Done
    <3>2. /\ "doubleTap" \in mask' <=> "doubleTap" \in wanted
          /\ "fingerprint" \in mask' <=> "fingerprint" \in wanted
          /\ mask' \subseteq Bits
          /\ "enable" \in mask' <=> mask' \ {"enable"} # {}
      BY <3>1, UpdatedFacts DEF Owned
    <3> QED
      BY <3>1, <3>2 DEF DoubleTapIn, FingerprintIn
  <2> QED
    BY <1>8, <1>9, <2>1 DEF WriteMask
<1>10. CASE ReadFails
  BY <1>8, <1>10 DEF ReadFails
<1>11. ASSUME NEW topic \in Topics, Deliver(topic) PROVE MaskInv'
  <2>1. queue' # <<>> /\ UNCHANGED <<stage, registered, wanted, mask>>
    BY <1>11, AppendFacts DEF Deliver, Message, AuthInv, Messages
  <2> QED
    BY <2>1
<1>12. CASE UNCHANGED vars
  BY <1>12 DEF DoubleTapIn, FingerprintIn
<1> QED
  BY <1>1, <1>2, <1>3, <1>4, <1>5, <1>6, <1>7, <1>9, <1>10, <1>11, <1>12 DEF Next, Handler

(***************************************************************************)
(* Types.  The flags are apart from what is counted.                       *)
(***************************************************************************)
FlagsOK ==
    /\ interactive \in BOOLEAN /\ locked \in BOOLEAN /\ auth \in BOOLEAN
    /\ booted \in BOOLEAN /\ registered \in BOOLEAN /\ listening \in BOOLEAN
    /\ mKeyguardAuthenticationRunning \in BOOLEAN
    /\ gaveUp \in BOOLEAN /\ refused \in BOOLEAN

WorldOK ==
    settings \subseteq Settings /\ notices \subseteq Topics /\ changes \in 0..MaxChanges

(* The flags have their types at first.                                    *)
LEMMA FlagsInitial == Init => FlagsOK
BY DEF Init, FlagsOK

(* The flags keep their types.                                             *)
LEMMA FlagsStep == FlagsOK /\ [Next]_vars => FlagsOK'
<1> SUFFICES ASSUME FlagsOK, [Next]_vars PROVE FlagsOK'
  OBVIOUS
<1> USE DEF FlagsOK
<1>1. CASE World
  <2>1. CASE ChangeSettings \/ ChangeEnrollment \/ ChangeScreen
    BY <2>1, Zenon DEF ChangeSettings, ChangeEnrollment, ChangeScreen, Happens
  <2>2. CASE ChangeLock
    BY <2>2, Zenon DEF ChangeLock, Happens
  <2>3. CASE ChangeAuth
    BY <2>3, Zenon DEF ChangeAuth, Happens
  <2>4. CASE Boot
    BY <2>4, Zenon DEF Boot, Happens
  <2>5. CASE Restart
    BY <2>5, Zenon DEF Restart
  <2> QED BY <1>1, <2>1, <2>2, <2>3, <2>4, <2>5 DEF World
<1>2. CASE synchronizeSetting \/ Retry
  BY <1>2, Zenon DEF synchronizeSetting, Retry
<1>3. CASE \E running \in BOOLEAN : Authentication(running)
  BY <1>3, Zenon DEF Authentication
<1>4. CASE UpdateLift
  <2>1. listening' \in BOOLEAN /\ refused' \in BOOLEAN
    BY <1>4 DEF UpdateLift, LiftRequested
  <2> QED
    BY <1>4, <2>1, Zenon DEF UpdateLift
<1>5. CASE RegisterListener \/ ReadDoubleTap \/ ReadScreen \/ ReadKeyguard \/ ReadFingerprint
  <2>1. CASE RegisterListener
    BY <2>1, Zenon DEF RegisterListener
  <2>2. CASE ReadDoubleTap
    BY <2>2, Zenon DEF ReadDoubleTap
  <2>3. CASE ReadScreen \/ ReadKeyguard
    BY <2>3, Zenon DEF ReadScreen, ReadKeyguard
  <2>4. CASE ReadFingerprint
    BY <2>4, Zenon DEF ReadFingerprint
  <2> QED BY <1>5, <2>1, <2>2, <2>3, <2>4
<1>6. ASSUME Failed PROVE FlagsOK'
  <2>1. gaveUp' \in BOOLEAN
    BY <1>6 DEF Failed
  <2> QED
    BY <1>6, <2>1, Zenon DEF Failed
<1>7. CASE WriteMask \/ ReadFails
  <2>1. CASE Done
    BY <2>1, Zenon DEF Done
  <2> QED
    BY <1>6, <1>7, <2>1, Zenon DEF WriteMask, ReadFails
<1>8. CASE \E topic \in Topics : Deliver(topic)
  BY <1>8, Zenon DEF Deliver
<1>9. CASE UNCHANGED vars
  BY <1>9, Zenon
<1> QED
  BY <1>1, <1>2, <1>3, <1>4, <1>5, <1>7, <1>8, <1>9 DEF Next, Handler

(* The world has its types at first.                                       *)
LEMMA WorldInitial == Init => WorldOK
BY FirstSettingsAssumption, ChangesAssumption DEF Init, WorldOK

(* The world keeps its types.                                              *)
LEMMA WorldStep == WorldOK /\ [Next]_vars => WorldOK'
<1> SUFFICES ASSUME WorldOK, [Next]_vars PROVE WorldOK'
  OBVIOUS
<1> USE ChangesAssumption DEF WorldOK, Topics, Settings
<1>1. CASE World
  <2>1. ASSUME NEW topics \in SUBSET Topics, Happens(topics), settings' \subseteq Settings
        PROVE  WorldOK'
    BY <2>1 DEF Happens
  <2>2. CASE ChangeSettings
    BY <2>1, <2>2 DEF ChangeSettings
  <2>3. CASE ChangeEnrollment
    BY <2>1, <2>3 DEF ChangeEnrollment, Heard
  <2>4. CASE ChangeScreen
    BY <2>1, <2>4 DEF ChangeScreen
  <2>5. CASE ChangeLock
    <3>1. (IF locked THEN {"screen"} ELSE {}) \in SUBSET Topics
      OBVIOUS
    <3> QED
      BY <2>1, <2>5, <3>1 DEF ChangeLock
  <2>6. CASE ChangeAuth
    BY <2>1, <2>6 DEF ChangeAuth, Heard
  <2>7. CASE Boot
    BY <2>7 DEF Boot
  <2>8. CASE Restart
    BY <2>8 DEF Restart
  <2> QED
    BY <1>1, <2>8, <2>2, <2>3, <2>4, <2>5, <2>6, <2>7 DEF World
<1>2. CASE Handler
  <2>1. CASE synchronizeSetting \/ Retry \/ UpdateLift \/ RegisterListener
    BY <2>1 DEF synchronizeSetting, Retry, UpdateLift, RegisterListener
  <2>2. CASE ReadDoubleTap \/ ReadScreen \/ ReadKeyguard \/ ReadFingerprint
    BY <2>2 DEF ReadDoubleTap, ReadScreen, ReadKeyguard, Request, ReadFingerprint
  <2>3. CASE \E running \in BOOLEAN : Authentication(running)
    BY <2>3 DEF Authentication
  <2>4. CASE WriteMask \/ ReadFails
    BY <2>4 DEF WriteMask, ReadFails, Failed, Done
  <2> QED
    BY <1>2, <2>1, <2>2, <2>3, <2>4 DEF Handler
<1>3. CASE \E topic \in Topics : Deliver(topic)
  BY <1>3 DEF Deliver
<1>4. CASE UNCHANGED vars
  BY <1>4
<1> QED
  BY <1>1, <1>2, <1>3, <1>4 DEF Next

(***************************************************************************)
(* Theorems.                                                               *)
(***************************************************************************)
IInv == RetryInv /\ LiftInv /\ ListenerInv /\ AuthInv /\ MaskInv /\ FlagsOK /\ WorldOK

(* The inductive invariant of the settings side holds.                     *)
LEMMA Invariance == Spec => []IInv
<1>1. Init => IInv
  BY RetryInitial, LiftInitial, ListenerInitial, AuthInitial, MaskInitial, FlagsInitial,
     WorldInitial DEF IInv
<1>2. IInv /\ [Next]_vars => IInv'
  BY RetryStep, LiftStep, ListenerStep, AuthStep, MaskStep, FlagsStep, WorldStep DEF IInv
<1> QED
  BY <1>1, <1>2, PTL DEF Spec

(* Every variable keeps its type; in particular there are never two        *)
(* delayed runs of mApply (GestureApplication.java:91).                    *)
THEOREM TypeCorrect == Spec => []SyncTypeOK
<1>1. IInv => SyncTypeOK
  <2>1. RetryInv /\ MaskInv /\ WorldOK /\ FlagsOK /\ AuthInv => SyncTypeOK
    BY RetriesAssumption DEF RetryInv, MaskInv, WorldOK, FlagsOK, AuthInv, SyncTypeOK
  <2> QED
    BY <2>1 DEF IInv
<1> QED
  BY Invariance, <1>1, PTL

(* With the screen off and the application at rest the touch controller    *)
(* has the bits the user asked for (GestureApplication.java:110).          *)
THEOREM AsleepIsAlwaysArmed == Spec => []AsleepIsArmed
<1>1. MaskInv => AsleepIsArmed
  BY DEF MaskInv, News, Applied, Quiet, DoubleTapIn, FingerprintIn, AsleepIsArmed
<1> QED
  BY Invariance, <1>1, PTL DEF IInv

(* With the screen on the fingerprint interrupt is armed for an            *)
(* authentication or a lock, and for nothing else                          *)
(* (GestureApplication.java:115).                                          *)
THEOREM AwakeIsAlwaysNeeded == Spec => []AwakeIsNeeded
<1>1. MaskInv => AwakeIsNeeded
  BY DEF MaskInv, News, Applied, Quiet, DoubleTapIn, FingerprintIn, AwakeIsNeeded
<1> QED
  BY Invariance, <1>1, PTL DEF IInv

(* The enable bit goes with the gestures, whoever owns them                *)
(* (GestureControl.java:33).                                               *)
THEOREM EnableIsFollowed == Spec => []EnableFollows
<1>1. MaskInv => EnableFollows
  BY DEF MaskInv, EnableFollows
<1> QED
  BY Invariance, <1>1, PTL DEF IInv

(* Whatever changes, in whatever order the application hears of it, and    *)
(* however often it is restarted: at rest it follows.                      *)
THEOREM RestIsRight == Spec => []FollowsAtRest
BY AsleepIsAlwaysArmed, AwakeIsAlwaysNeeded, EnableIsFollowed, LiftIsFollowed, PTL
   DEF FollowsAtRest

(***************************************************************************)
(* LiftToWake: the inductive invariant.                                    *)
(***************************************************************************)
(* The chain of a registration's actions: from the one that is remembered, *)
(* through the events on their way, to the sensor's latest.  An event that *)
(* is older than the registration is no link of it.                        *)
Leaves(event) == IF event.action = NotACode THEN event.after ELSE event.action

LinkLeaves(q, first, i) == IF i = 0 THEN first ELSE Leaves(q[i])
LinkFinds(q, last, j) == IF j = Len(q) + 1 THEN last ELSE q[j].after
IsLink(q, start, k) == k = 0 \/ k = Len(q) + 1 \/ q[k].at >= start

Chain(q, first, last, start) ==
    \A i \in 0..Len(q) : \A j \in (i + 1)..(Len(q) + 1) :
        /\ IsLink(q, start, i) /\ IsLink(q, start, j)
        /\ \A k \in (i + 1)..(j - 1) : ~IsLink(q, start, k)
        => LinkFinds(q, last, j) = LinkLeaves(q, first, i)

TimesInv ==
    /\ since <= now /\ lastWake <= now
    /\ \A i \in 1..Len(events) : events[i].at < now
    /\ mListening =>
          /\ mArmedAt >= since + ArmDelay
          /\ lastWake > since => mArmedAt >= lastWake + ArmDelay

OrderInv ==
    mListening /\ ~skipped => Chain(events, mPreviousAction, latest, since)

WakeInv == LiftTypeOK /\ TimesInv /\ OrderInv

(***************************************************************************)
(* The events on their way.                                                *)
(***************************************************************************)
(* Events that are all older than the registration change nothing.         *)
LEMMA ChainOfOld ==
    ASSUME NEW q, Len(q) \in Nat, NEW start, NEW value,
           \A k \in 1..Len(q) : ~(q[k].at >= start)
    PROVE  Chain(q, value, value, start)
<1> SUFFICES ASSUME NEW i \in 0..Len(q), NEW j \in (i + 1)..(Len(q) + 1),
                    IsLink(q, start, i), IsLink(q, start, j)
             PROVE  LinkFinds(q, value, j) = LinkLeaves(q, value, i)
  BY DEF Chain
<1>1. i = 0
  BY DEF IsLink
<1>2. j = Len(q) + 1
  BY DEF IsLink
<1> QED BY <1>1, <1>2 DEF LinkFinds, LinkLeaves

(* The first of the events is handled: if it is a link, what it leaves is  *)
(* what is remembered.                                                     *)
LEMMA ChainOfTail ==
    ASSUME NEW q \in Seq(Event), q # <<>>, NEW first, NEW last, NEW start,
           Chain(q, first, last, start)
    PROVE  Chain(Tail(q), IF Head(q).at >= start THEN Leaves(Head(q)) ELSE first, last, start)
<1> DEFINE t == Tail(q)
           new == IF Head(q).at >= start THEN Leaves(Head(q)) ELSE first
<1>1. /\ Len(q) \in Nat \ {0} /\ Len(t) = Len(q) - 1 /\ Head(q) = q[1]
      /\ \A k \in 1..Len(t) : t[k] = q[k + 1]
  <2> HIDE DEF Event
  <2> QED OBVIOUS
<1>2. new = IF q[1].at >= start THEN Leaves(q[1]) ELSE first
  BY <1>1
<1> SUFFICES ASSUME NEW i \in 0..Len(t), NEW j \in (i + 1)..(Len(t) + 1),
                    IsLink(t, start, i), IsLink(t, start, j),
                    \A k \in (i + 1)..(j - 1) : ~IsLink(t, start, k)
             PROVE  LinkFinds(t, last, j) = LinkLeaves(t, new, i)
  BY DEF Chain
<1> HIDE DEF t, new
<1>3. \A k \in 1..(Len(t) + 1) : IsLink(t, start, k) <=> IsLink(q, start, k + 1)
  <2> TAKE k \in 1..(Len(t) + 1)
  <2>1. CASE k = Len(t) + 1
    BY <1>1, <2>1 DEF IsLink
  <2>2. CASE k # Len(t) + 1
    <3>1. k \in 1..Len(t) /\ t[k] = q[k + 1] /\ k # 0 /\ k + 1 # 0 /\ k + 1 # Len(q) + 1
      BY <1>1, <2>2
    <3> QED BY <3>1, <2>2 DEF IsLink
  <2> QED BY <2>1, <2>2
<1>4. j + 1 \in 1..(Len(q) + 1) /\ IsLink(q, start, j + 1)
  BY <1>1, <1>3
<1>5. LinkFinds(t, last, j) = LinkFinds(q, last, j + 1)
  <2>1. CASE j = Len(t) + 1
    BY <1>1, <2>1 DEF LinkFinds
  <2>2. CASE j # Len(t) + 1
    <3>1. j \in 1..Len(t) /\ t[j] = q[j + 1] /\ j + 1 # Len(q) + 1
      BY <1>1, <2>2
    <3> QED BY <3>1, <2>2 DEF LinkFinds
  <2> QED BY <2>1, <2>2
<1>6. \A k \in (i + 2)..j : ~IsLink(q, start, k)
  <2> TAKE k \in (i + 2)..j
  <2>1. k - 1 \in (i + 1)..(j - 1) /\ k - 1 \in 1..(Len(t) + 1) /\ (k - 1) + 1 = k
    BY <1>1
  <2> QED BY <1>3, <2>1
<1>7. ASSUME NEW m \in 0..Len(q), m < j + 1, IsLink(q, start, m),
             \A k \in (m + 1)..j : ~IsLink(q, start, k)
      PROVE  LinkFinds(q, last, j + 1) = LinkLeaves(q, first, m)
  <2>1. j + 1 \in (m + 1)..(Len(q) + 1) /\ (j + 1) - 1 = j
    BY <1>1, <1>7
  <2> QED BY <1>4, <1>7, <2>1 DEF Chain
<1>8. CASE i # 0
  <2>1. i + 1 \in 0..Len(q) /\ i + 1 < j + 1 /\ (i + 1) + 1 = i + 2 /\ i + 1 # 0 /\ t[i] = q[i + 1]
    BY <1>1, <1>8
  <2>2. IsLink(q, start, i + 1)
    BY <1>1, <1>3, <1>8
  <2>3. LinkFinds(q, last, j + 1) = LinkLeaves(q, first, i + 1)
    BY <1>6, <1>7, <2>1, <2>2
  <2> QED BY <1>5, <1>8, <2>1, <2>3 DEF LinkLeaves
<1>9. CASE i = 0 /\ q[1].at >= start
  <2>1. IsLink(q, start, 1) /\ 1 \in 0..Len(q) /\ 1 < j + 1
    BY <1>1, <1>9 DEF IsLink
  <2>2. LinkFinds(q, last, j + 1) = LinkLeaves(q, first, 1)
    BY <1>6, <1>7, <1>9, <2>1
  <2> QED BY <1>2, <1>5, <1>9, <2>2 DEF LinkLeaves
<1>10. CASE i = 0 /\ ~(q[1].at >= start)
  <2>1. ~IsLink(q, start, 1)
    BY <1>1, <1>10 DEF IsLink
  <2>2. \A k \in (0 + 1)..j : ~IsLink(q, start, k)
    <3> TAKE k \in (0 + 1)..j
    <3>1. k = 1 \/ k \in (i + 2)..j
      BY <1>10
    <3> QED BY <1>6, <2>1, <3>1
  <2>3. IsLink(q, start, 0) /\ 0 \in 0..Len(q) /\ 0 < j + 1
    BY <1>1 DEF IsLink
  <2>4. LinkFinds(q, last, j + 1) = LinkLeaves(q, first, 0)
    BY <1>7, <2>2, <2>3
  <2> QED BY <1>2, <1>5, <1>10, <2>4 DEF LinkLeaves
<1> QED BY <1>8, <1>9, <1>10

(* One more event: a link if it is the registration's own, and then what   *)
(* was the latest action was found by it.                                  *)
LEMMA ChainOfAppend ==
    ASSUME NEW q \in Seq(Event), NEW event, NEW first, NEW last, NEW start,
           event.at >= start => event.after = last,
           Chain(q, first, last, start)
    PROVE  Chain(Append(q, event), first, IF event.at >= start THEN Leaves(event) ELSE last, start)
<1> DEFINE a == Append(q, event)
           n == Len(q)
           new == IF event.at >= start THEN Leaves(event) ELSE last
<1>1. n \in Nat /\ Len(a) = n + 1 /\ a[n + 1] = event /\ \A k \in 1..n : a[k] = q[k]
  <2> HIDE DEF Event
  <2> QED OBVIOUS
<1> SUFFICES ASSUME NEW i \in 0..Len(a), NEW j \in (i + 1)..(Len(a) + 1),
                    IsLink(a, start, i), IsLink(a, start, j),
                    \A k \in (i + 1)..(j - 1) : ~IsLink(a, start, k)
             PROVE  LinkFinds(a, new, j) = LinkLeaves(a, first, i)
  BY DEF Chain
<1>2. new = IF event.at >= start THEN Leaves(event) ELSE last
  OBVIOUS
<1>3. n = Len(q)
  OBVIOUS
<1> HIDE DEF a, n, new
<1>4. \A k \in 0..n : (IsLink(a, start, k) <=> IsLink(q, start, k)) /\ LinkLeaves(a, first, k) = LinkLeaves(q, first, k)
  BY <1>1, <1>3 DEF IsLink, LinkLeaves
<1>5. IsLink(a, start, n + 1) <=> event.at >= start
  BY <1>1 DEF IsLink
<1>6. IsLink(q, start, n + 1) /\ LinkFinds(q, last, n + 1) = last
  BY <1>3 DEF IsLink, LinkFinds
<1>7. ASSUME NEW m \in (i + 1)..(n + 1), IsLink(q, start, m), i \in 0..n,
             \A k \in (i + 1)..(m - 1) : ~IsLink(a, start, k)
      PROVE  LinkFinds(q, last, m) = LinkLeaves(a, first, i)
  <2>1. \A k \in (i + 1)..(m - 1) : ~IsLink(q, start, k)
    <3> TAKE k \in (i + 1)..(m - 1)
    <3>1. k \in 0..n
      BY <1>1, <1>7
    <3> QED BY <1>4, <1>7, <3>1
  <2>2. IsLink(q, start, i) /\ LinkLeaves(a, first, i) = LinkLeaves(q, first, i)
    BY <1>4, <1>7
  <2> QED BY <1>3, <1>7, <2>1, <2>2 DEF Chain
<1>8. CASE j \in 0..n
  <2>1. i \in 0..n /\ j \in (i + 1)..(n + 1) /\ IsLink(q, start, j)
    BY <1>1, <1>4, <1>8
  <2>2. LinkFinds(a, new, j) = LinkFinds(q, last, j)
    <3>1. j \in 1..n /\ j # Len(a) + 1 /\ j # Len(q) + 1
      BY <1>1, <1>3, <1>8
    <3> QED BY <1>1, <3>1 DEF LinkFinds
  <2> QED BY <1>7, <2>1, <2>2
<1>9. CASE j = n + 1
  <2>1. i \in 0..n /\ j \in (i + 1)..(n + 1) /\ event.at >= start /\ j # Len(a) + 1
    BY <1>1, <1>5, <1>9
  <2>2. LinkFinds(a, new, j) = last
    BY <1>1, <1>9, <2>1 DEF LinkFinds
  <2> QED BY <1>6, <1>7, <1>9, <2>1, <2>2
<1>10. CASE j = n + 2 /\ event.at >= start
  <2>1. i = n + 1
    <3>1. i \in 0..n => n + 1 \in (i + 1)..(j - 1)
      BY <1>1, <1>10
    <3>2. i \notin 0..n
      BY <1>5, <1>10, <3>1
    <3> QED BY <1>1, <3>2
  <2>2. LinkFinds(a, new, j) = Leaves(event)
    <3>1. j = Len(a) + 1
      BY <1>1, <1>10
    <3> QED BY <1>2, <1>10, <3>1 DEF LinkFinds
  <2>3. LinkLeaves(a, first, i) = Leaves(event)
    BY <1>1, <2>1 DEF LinkLeaves
  <2> QED BY <2>2, <2>3
<1>11. CASE j = n + 2 /\ ~(event.at >= start)
  <2>1. i # n + 1
    BY <1>5, <1>11
  <2>2. i \in 0..n /\ n + 1 \in (i + 1)..(n + 1)
    BY <1>1, <2>1
  <2>3. \A k \in (i + 1)..((n + 1) - 1) : ~IsLink(a, start, k)
    <3> TAKE k \in (i + 1)..((n + 1) - 1)
    <3>1. k \in (i + 1)..(j - 1)
      BY <1>1, <1>11, <2>2
    <3> QED BY <3>1
  <2>4. LinkFinds(q, last, n + 1) = LinkLeaves(a, first, i)
    BY <1>6, <1>7, <2>2, <2>3
  <2>5. LinkFinds(a, new, j) = last
    BY <1>1, <1>2, <1>11 DEF LinkFinds
  <2> QED BY <1>6, <2>4, <2>5
<1>12. j \in 0..n \/ j = n + 1 \/ j = n + 2
  BY <1>1
<1> QED BY <1>8, <1>9, <1>10, <1>11, <1>12

(* The first event of the registration found what is remembered.           *)
LEMMA ChainOfHead ==
    ASSUME NEW q \in Seq(Event), q # <<>>, NEW first, NEW last, NEW start,
           Chain(q, first, last, start), Head(q).at >= start
    PROVE  Head(q).after = first
<1>1. Len(q) \in Nat \ {0} /\ Head(q) = q[1]
  <2> HIDE DEF Event
  <2> QED OBVIOUS
<1>2. 0 \in 0..Len(q) /\ 1 \in (0 + 1)..(Len(q) + 1) /\ 1 # Len(q) + 1
  BY <1>1
<1>3. IsLink(q, start, 0) /\ IsLink(q, start, 1)
  BY <1>1 DEF IsLink
<1>4. \A k \in (0 + 1)..(1 - 1) : ~IsLink(q, start, k)
  OBVIOUS
<1>5. LinkFinds(q, last, 1) = LinkLeaves(q, first, 0)
  BY <1>2, <1>3, <1>4 DEF Chain
<1> QED BY <1>1, <1>2, <1>5 DEF LinkFinds, LinkLeaves

(***************************************************************************)
(* WakeInv is inductive.                                                   *)
(***************************************************************************)
USE DEF device, controller, liftHistory, liftVars

(* Nothing has happened to the sensor at first.                            *)
LEMMA WakeInitial == LiftInit => WakeInv
<1> SUFFICES ASSUME LiftInit PROVE WakeInv
  OBVIOUS
<1>1. LiftTypeOK
  <2>1. events \in Seq(Event) /\ Len(events) <= MaxQueue
    BY BoundsAssumption DEF LiftInit
  <2>2. 0 \in 0..MaxTime /\ 0 \in 0..(MaxTime + ArmDelay)
    BY BoundsAssumption
  <2> QED BY <2>1, <2>2 DEF LiftInit, LiftTypeOK
<1>2. TimesInv /\ OrderInv
  BY DEF LiftInit, TimesInv, OrderInv
<1> QED BY <1>1, <1>2 DEF WakeInv

(* What an arriving event leaves on its way.                               *)
LEMMA ArrivesFacts ==
    ASSUME LiftTypeOK, Arrives
    PROVE  /\ events' \in Seq(Event) /\ Len(events') <= MaxQueue /\ Head(events) \in Event
           /\ \A i \in 1..Len(events') : i + 1 \in 1..Len(events) /\ events'[i] = events[i + 1]
           /\ 1 \in 1..Len(events) /\ Head(events) = events[1] /\ events # <<>>
<1>1. /\ events \in Seq(Event) /\ Len(events) <= MaxQueue /\ events # <<>>
      /\ events' = Tail(events)
  BY DEF LiftTypeOK, Arrives
<1> HIDE DEF Event
<1>2. /\ Len(events) \in Nat \ {0} /\ Len(Tail(events)) = Len(events) - 1
      /\ Tail(events) \in Seq(Event) /\ Head(events) \in Event /\ Head(events) = events[1]
      /\ \A i \in 1..Len(Tail(events)) : Tail(events)[i] = events[i + 1]
  BY <1>1
<1> QED BY <1>1, <1>2, BoundsAssumption

(* What one that is sent does.                                             *)
LEMMA SendsFacts ==
    ASSUME LiftTypeOK, NEW action \in Actions \cup {NotACode}, NEW at \in 0..MaxTime,
           NEW after \in Actions \cup {NoAction}, Sends(action, at, after)
    PROVE  /\ events' = Append(events, [action |-> action, at |-> at, after |-> after])
           /\ events' \in Seq(Event) /\ Len(events') <= MaxQueue
           /\ \A i \in 1..Len(events') :
                 events'[i].at = at \/ (i \in 1..Len(events) /\ events'[i] = events[i])
<1> DEFINE event == [action |-> action, at |-> at, after |-> after]
<1>1. event \in Event /\ event.at = at
  BY DEF Event
<1>2. events \in Seq(Event) /\ Len(events) < MaxQueue /\ events' = Append(events, event)
  BY DEF LiftTypeOK, Sends
<1> HIDE DEF Event, event
<1>3. /\ Append(events, event) \in Seq(Event) /\ Len(Append(events, event)) = Len(events) + 1
      /\ Append(events, event)[Len(events) + 1] = event
      /\ \A i \in 1..Len(events) : Append(events, event)[i] = events[i]
  BY <1>1, <1>2
<1>4. Len(events) \in Nat /\ Len(events) + 1 <= MaxQueue
  BY <1>2, BoundsAssumption
<1>5. \A i \in 1..(Len(events) + 1) : i = Len(events) + 1 \/ i \in 1..Len(events)
  BY <1>4
<1> QED BY <1>1, <1>2, <1>3, <1>4, <1>5 DEF event

(* Time goes on and stays within its bound.                                *)
LEMMA NowAdvances == LiftTypeOK /\ (Passes \/ Later) => now' \in 0..MaxTime /\ now' >= now
BY BoundsAssumption DEF LiftTypeOK, Passes, Later

(* Every step keeps the types of the raise sensor.                         *)
LEMMA WakeTypeStep == LiftTypeOK /\ TimesInv /\ [LiftNext]_liftVars => LiftTypeOK'
<1> SUFFICES ASSUME LiftTypeOK, TimesInv, [LiftNext]_liftVars PROVE LiftTypeOK'
  OBVIOUS
<1>0. /\ now \in 0..MaxTime /\ awake \in BOOLEAN /\ setting \in BOOLEAN
      /\ events \in Seq(Event) /\ Len(events) <= MaxQueue /\ latest \in Actions \cup {NoAction}
      /\ mListening \in BOOLEAN /\ mArmedAt \in 0..(MaxTime + ArmDelay)
      /\ mPreviousAction \in Actions \cup {NoAction}
      /\ waking \in BOOLEAN /\ skipped \in BOOLEAN
      /\ since \in 0..MaxTime /\ lastWake \in 0..MaxTime
      /\ now + ArmDelay \in 0..(MaxTime + ArmDelay)
  BY BoundsAssumption DEF LiftTypeOK
<1> HIDE DEF Event
<1>1. CASE Update
  BY <1>0, <1>1, NowAdvances DEF Update, Register, Unregister, LiftTypeOK
<1>2. CASE Ignore
  BY <1>0, <1>2, ArrivesFacts DEF Ignore, LiftTypeOK
<1>3. CASE Wake \/ Note
  <2>1. Remember /\ Arrives
    BY <1>3 DEF Wake, Note, Remember
  <2>2. mPreviousAction' \in Actions \cup {NoAction}
    <3>1. Head(events).action \in Actions \cup {NotACode}
      BY <2>1, ArrivesFacts DEF Event
    <3> QED BY <1>0, <2>1, <3>1 DEF Remember
  <2>3. events' \in Seq(Event) /\ Len(events') <= MaxQueue
    BY <2>1, ArrivesFacts
  <2> QED BY <1>0, <1>3, <2>2, <2>3, NowAdvances DEF Wake, Note, Remember, LiftTypeOK
<1>4. ASSUME NEW action \in Actions, Sense(action) PROVE LiftTypeOK'
  <2>1. events' \in Seq(Event) /\ Len(events') <= MaxQueue
    BY <1>0, <1>4, SendsFacts DEF Sense
  <2> QED BY <1>0, <1>4, <2>1, NowAdvances DEF Sense, Sends, LiftTypeOK
<1>5. ASSUME NEW action \in Actions, Cached(action) PROVE LiftTypeOK'
  <2>1. since - 1 \in 0..MaxTime
    BY <1>0, <1>5, BoundsAssumption DEF Cached
  <2>2. events' \in Seq(Event) /\ Len(events') <= MaxQueue
    BY <1>0, <1>5, <2>1, SendsFacts DEF Cached
  <2> QED BY <1>0, <1>5, <2>2 DEF Cached, Sends, LiftTypeOK
<1>6. CASE Noise
  <2>1. events' \in Seq(Event) /\ Len(events') <= MaxQueue
    BY <1>0, <1>6, SendsFacts DEF Noise
  <2> QED BY <1>0, <1>6, <2>1, NowAdvances DEF Noise, Sends, LiftTypeOK
<1>7. CASE ProximityChecked \/ SwitchScreen \/ ChangeSetting \/ Tick \/ UNCHANGED liftVars
  BY <1>0, <1>7, NowAdvances DEF ProximityChecked, SwitchScreen, ChangeSetting, Tick, LiftTypeOK
<1> QED BY <1>1, <1>2, <1>3, <1>4, <1>5, <1>6, <1>7 DEF LiftNext, OnSensorChanged

(* Every step keeps the events in the past, and arming before them.        *)
LEMMA TimesStep == LiftTypeOK /\ TimesInv /\ [LiftNext]_liftVars => TimesInv'
<1> SUFFICES ASSUME LiftTypeOK, TimesInv, [LiftNext]_liftVars PROVE TimesInv'
  OBVIOUS
<1>0. /\ now \in Nat /\ since \in Nat /\ lastWake \in Nat /\ mArmedAt \in Nat /\ ArmDelay \in Nat
      /\ MaxTime \in Nat /\ now <= MaxTime /\ since <= MaxTime
      /\ \A i \in 1..Len(events) : events[i].at \in Nat
  <2>1. now \in 0..MaxTime /\ since \in 0..MaxTime /\ lastWake \in 0..MaxTime /\ MaxTime \in Nat
    BY BoundsAssumption DEF LiftTypeOK
  <2>2. mArmedAt \in Nat /\ ArmDelay \in Nat
    BY BoundsAssumption DEF LiftTypeOK
  <2>3. \A i \in 1..Len(events) : events[i] \in Event
    BY DEF LiftTypeOK
  <2> QED BY <2>1, <2>2, <2>3 DEF Event
<1>1. CASE Update
  <2>1. CASE Register
    BY <1>0, <2>1 DEF Register, Passes, TimesInv
  <2>2. CASE Unregister
    BY <1>0, <2>2 DEF Unregister, TimesInv
  <2> QED BY <1>1, <2>1, <2>2 DEF Update
<1>2. CASE Ignore \/ Note
  <2>1. Arrives /\ UNCHANGED <<now, since, lastWake, mListening, mArmedAt>>
    BY <1>2 DEF Ignore, Note, Remember
  <2>2. \A i \in 1..Len(events') : i + 1 \in 1..Len(events) /\ events'[i] = events[i + 1]
    BY <2>1, ArrivesFacts
  <2> QED BY <2>1, <2>2 DEF TimesInv
<1>3. CASE Wake
  <2>1. Arrives /\ UNCHANGED <<since, mListening>> /\ lastWake' = now /\ mArmedAt' = now + ArmDelay
    BY <1>3 DEF Wake, Remember
  <2>2. \A i \in 1..Len(events') : i + 1 \in 1..Len(events) /\ events'[i] = events[i + 1]
    BY <2>1, ArrivesFacts
  <2>3. now' >= now /\ now' \in Nat
    BY <1>0, <1>3 DEF Wake, Later
  <2> QED BY <1>0, <2>1, <2>2, <2>3 DEF TimesInv
<1>4. ASSUME NEW action \in Actions \cup {NotACode}, Passes, Sends(action, now, latest)
      PROVE  TimesInv'
  <2>1. now \in 0..MaxTime /\ latest \in Actions \cup {NoAction}
    BY DEF LiftTypeOK
  <2>2. \A i \in 1..Len(events') :
           events'[i].at = now \/ (i \in 1..Len(events) /\ events'[i] = events[i])
    BY <1>4, <2>1, SendsFacts
  <2>3. UNCHANGED <<since, lastWake, mListening, mArmedAt>> /\ now' = now + 1
    BY <1>4 DEF Sends, Passes
  <2> QED BY <1>0, <2>2, <2>3 DEF TimesInv
<1>5. ASSUME NEW action \in Actions, Cached(action) PROVE TimesInv'
  <2>1. since - 1 \in 0..MaxTime /\ since - 1 < now
    BY <1>0, <1>5 DEF Cached, TimesInv
  <2>2. \A i \in 1..Len(events') :
           events'[i].at = since - 1 \/ (i \in 1..Len(events) /\ events'[i] = events[i])
    BY <1>5, <2>1, SendsFacts DEF Cached
  <2>3. UNCHANGED <<since, lastWake, mListening, mArmedAt, now>>
    BY <1>5 DEF Cached, Sends
  <2> QED BY <1>0, <2>1, <2>2, <2>3 DEF TimesInv
<1>6. CASE ProximityChecked \/ SwitchScreen \/ ChangeSetting \/ Tick \/ UNCHANGED liftVars
  <2>1. UNCHANGED <<events, since, lastWake, mListening, mArmedAt>> /\ now' \in {now, now + 1}
    BY <1>6 DEF ProximityChecked, SwitchScreen, ChangeSetting, Tick, Passes
  <2> QED BY <1>0, <2>1 DEF TimesInv
<1> QED BY <1>1, <1>2, <1>3, <1>4, <1>5, <1>6 DEF LiftNext, OnSensorChanged, Sense, Noise

(* Every step keeps the history of actions a chain.                        *)
LEMMA OrderStep == WakeInv /\ [LiftNext]_liftVars => OrderInv'
<1> SUFFICES ASSUME WakeInv, [LiftNext]_liftVars PROVE OrderInv'
  OBVIOUS
<1>0. /\ now \in Nat /\ since \in Nat /\ mArmedAt \in Nat /\ ArmDelay \in Nat /\ since <= now
      /\ now \in 0..MaxTime /\ since <= MaxTime
      /\ events \in Seq(Event) /\ Len(events) \in Nat /\ latest \in Actions \cup {NoAction}
      /\ \A i \in 1..Len(events) : events[i].at \in Nat /\ events[i].at < now
      /\ mListening => mArmedAt - ArmDelay >= since
  <2>1. now \in 0..MaxTime /\ since \in 0..MaxTime /\ MaxTime \in Nat
    BY BoundsAssumption DEF WakeInv, LiftTypeOK
  <2>2. mArmedAt \in Nat /\ ArmDelay \in Nat /\ latest \in Actions \cup {NoAction}
    BY BoundsAssumption DEF WakeInv, LiftTypeOK
  <2>3. events \in Seq(Event)
    BY DEF WakeInv, LiftTypeOK
  <2>4. Len(events) \in Nat /\ \A i \in 1..Len(events) : events[i] \in Event
    BY <2>3
  <2> QED BY <2>1, <2>2, <2>3, <2>4 DEF Event, WakeInv, TimesInv
<1>1. CASE Update
  <2>1. CASE Register
    <3>1. \A k \in 1..Len(events) : ~(events[k].at >= now)
      BY <1>0
    <3>2. Chain(events, NoAction, NoAction, now)
      BY <1>0, <3>1, ChainOfOld
    <3> QED BY <2>1, <3>2 DEF Register, OrderInv
  <2>2. CASE Unregister
    BY <2>2 DEF Unregister, OrderInv
  <2> QED BY <1>1, <2>1, <2>2 DEF Update
<1>2. CASE Ignore
  <2>1. /\ Arrives /\ UNCHANGED <<latest, mListening, mPreviousAction, since>>
        /\ skipped' = (skipped \/ (mListening /\ Head(events).at >= since))
    BY <1>2 DEF Ignore
  <2> SUFFICES ASSUME mListening, ~skipped, ~(Head(events).at >= since)
               PROVE  Chain(events', mPreviousAction, latest, since)
    BY <2>1 DEF OrderInv
  <2>2. Chain(events, mPreviousAction, latest, since)
    BY DEF WakeInv, OrderInv
  <2>3. events # <<>> /\ events' = Tail(events)
    BY <2>1 DEF Arrives
  <2> QED BY <1>0, <2>2, <2>3, ChainOfTail
<1>3. CASE Wake \/ Note
  <2>1. Remember /\ Arrives /\ mListening /\ UNCHANGED <<latest, mListening, since, skipped>>
    BY <1>3 DEF Wake, Note, Remember
  <2> SUFFICES ASSUME ~skipped
               PROVE  Chain(events', mPreviousAction', latest, since)
    BY <2>1 DEF OrderInv
  <2>2. Chain(events, mPreviousAction, latest, since)
    BY <2>1 DEF WakeInv, OrderInv
  <2>3. events # <<>> /\ events' = Tail(events)
    BY <2>1 DEF Arrives
  <2>4. Head(events).at >= since
    <3>1. Head(events).at \in Nat
      BY <1>0, <2>1, ArrivesFacts DEF WakeInv
    <3>2. Head(events).at >= mArmedAt - ArmDelay
      BY <2>1 DEF Remember
    <3> QED BY <1>0, <2>1, <3>1, <3>2
  <2>5. Head(events).after = mPreviousAction
    BY <1>0, <2>2, <2>3, <2>4, ChainOfHead
  <2>6. mPreviousAction' = Leaves(Head(events))
    BY <2>1, <2>5 DEF Remember, Leaves
  <2>7. Chain(Tail(events), Leaves(Head(events)), latest, since)
    BY <1>0, <2>2, <2>3, <2>4, ChainOfTail
  <2> QED BY <2>3, <2>6, <2>7
<1>4. ASSUME NEW action \in Actions \cup {NotACode}, Passes, Sends(action, now, latest),
             latest' = IF action = NotACode THEN latest ELSE action
      PROVE  OrderInv'
  <2> DEFINE event == [action |-> action, at |-> now, after |-> latest]
  <2>1. events' = Append(events, event) /\ UNCHANGED <<mListening, mPreviousAction, since, skipped>>
    BY <1>4 DEF Sends
  <2>2. event.at >= since /\ event.after = latest /\ Leaves(event) = latest'
    BY <1>0, <1>4 DEF Leaves
  <2> HIDE DEF event
  <2>3. Chain(events, mPreviousAction, latest, since)
          => Chain(Append(events, event), mPreviousAction, Leaves(event), since)
    BY <1>0, <2>2, ChainOfAppend
  <2> QED BY <2>1, <2>2, <2>3 DEF WakeInv, OrderInv
<1>5. ASSUME NEW action \in Actions, Cached(action) PROVE OrderInv'
  <2> DEFINE event == [action |-> action, at |-> since - 1, after |-> NoAction]
  <2>1. /\ events' = Append(events, event)
        /\ UNCHANGED <<mListening, mPreviousAction, since, skipped, latest>>
    BY <1>5 DEF Cached, Sends
  <2>2. ~(event.at >= since)
    BY <1>0
  <2> HIDE DEF event
  <2>3. Chain(events, mPreviousAction, latest, since)
          => Chain(Append(events, event), mPreviousAction, latest, since)
    BY <1>0, <2>2, ChainOfAppend
  <2> QED BY <2>1, <2>3 DEF WakeInv, OrderInv
<1>6. CASE ProximityChecked \/ SwitchScreen \/ ChangeSetting \/ Tick \/ UNCHANGED liftVars
  <2>1. UNCHANGED <<events, latest, since, mListening, mPreviousAction, skipped>>
    BY <1>6 DEF ProximityChecked, SwitchScreen, ChangeSetting, Tick
  <2> QED BY <2>1 DEF WakeInv, OrderInv
<1>7. \A action \in Actions : action # NotACode
  BY DEF Actions, NotACode
<1> QED BY <1>1, <1>2, <1>3, <1>4, <1>5, <1>6, <1>7 DEF LiftNext, OnSensorChanged, Sense, Noise

(* The inductive invariant of the raise sensor holds.                      *)
LEMMA WakeInvariance == LiftSpec => []WakeInv
BY WakeInitial, WakeTypeStep, TimesStep, OrderStep, PTL DEF WakeInv, LiftSpec

(* Every variable keeps its type; no code the filter does not know is ever *)
(* remembered (RaiseGestureFilter.java:18).                                *)
THEOREM LiftTypeCorrect == LiftSpec => []LiftTypeOK
BY WakeInvariance, PTL DEF WakeInv

(* A wake-up is of an action made in the dark, for this registration and   *)
(* past its delay and the last wake-up's, and one that the sensor's own    *)
(* order makes a wake-up (LiftToWakeController.java:80).                   *)
THEOREM OnlyMeantActionsWake == LiftSpec => WakesAreMeant
<1>1. ASSUME WakeInv, [LiftNext]_liftVars, lastWake' # lastWake
      PROVE  /\ ~awake /\ mListening
             /\ Head(events).at >= since + ArmDelay
             /\ lastWake > since => Head(events).at >= lastWake + ArmDelay
             /\ \/ Head(events).action = "RAISE"
                \/ /\ Head(events).action = "UPRIGHT"
                   /\ Head(events).after \notin {"RAISE", "LOWER"} \/ skipped
  <2>1. Wake
    BY <1>1 DEF LiftNext, Update, Register, Unregister, OnSensorChanged, Ignore, Note, Remember, Sense,
                Cached, Noise, Sends, ProximityChecked, SwitchScreen, ChangeSetting, Tick
  <2>2. Arrives /\ mListening /\ ~awake /\ Head(events).at >= mArmedAt /\ ShouldWake(Head(events).action)
    BY <2>1 DEF Wake, Remember, Wakes
  <2>3. /\ Head(events).at \in Nat /\ mArmedAt \in Nat /\ since \in Nat /\ lastWake \in Nat
        /\ ArmDelay \in Nat /\ events \in Seq(Event) /\ events # <<>>
    <3>1. Head(events).at \in Nat
      BY <1>1, <2>2, ArrivesFacts DEF WakeInv, Event
    <3>2. events \in Seq(Event) /\ events # <<>>
      BY <1>1, <2>2 DEF WakeInv, LiftTypeOK, Arrives
    <3>3. mArmedAt \in Nat /\ since \in Nat /\ lastWake \in Nat /\ ArmDelay \in Nat
      BY <1>1, BoundsAssumption DEF WakeInv, LiftTypeOK
    <3> QED BY <3>1, <3>2, <3>3
  <2>4. mArmedAt >= since + ArmDelay /\ (lastWake > since => mArmedAt >= lastWake + ArmDelay)
    BY <1>1, <2>2 DEF WakeInv, TimesInv
  <2>5. ~skipped => Head(events).after = mPreviousAction
    <3>1. Head(events).at >= since
      BY <2>2, <2>3, <2>4
    <3> QED BY <1>1, <2>2, <2>3, <3>1, ChainOfHead DEF WakeInv, OrderInv
  <2>6. \/ Head(events).action = "RAISE"
        \/ Head(events).action = "UPRIGHT" /\ mPreviousAction \notin {"RAISE", "LOWER"}
    BY <2>2 DEF ShouldWake
  <2>7. Head(events).at >= since + ArmDelay /\ (lastWake > since => Head(events).at >= lastWake + ArmDelay)
    BY <2>2, <2>3, <2>4
  <2> QED BY <2>2, <2>5, <2>6, <2>7
<1> QED BY <1>1, WakeInvariance, PTL DEF LiftSpec, WakesAreMeant
=============================================================================
