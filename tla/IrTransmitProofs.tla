-------------------------- MODULE IrTransmitProofs --------------------------
(***************************************************************************)
(* Theorems about IrTransmit, for any callers, patterns and limits.        *)
(*                                                                         *)
(* lock_ leaves one caller with a command in progress; what that command   *)
(* has sent, and with which result, follows from how far it is, and an off *)
(* time that has not passed has the command it belongs to still waiting.   *)
(*                                                                         *)
(* The off time is bounded by the sum of the pattern it is the last entry  *)
(* of.  The sum is a function defined by recursion, and what is proved of  *)
(* it rests on the least element of the lengths that would refute it.      *)
(***************************************************************************)
EXTENDS IrTransmit, SequenceTheorems, WellFoundedInduction, TLAPS

(***************************************************************************)
(* The inductive invariant.                                                *)
(***************************************************************************)
Typed ==
    /\ stage \in [Callers -> Stages] /\ lock \in Callers \cup {NoCaller}
    /\ request \in Requests \cup {NoRequest}
    /\ result \in [Callers -> Errors \cup {"EINVAL", "OK"}] /\ fds \subseteq Callers
    /\ left \in [Callers -> 0..kMaxTransmitDuration] /\ programmed \in Carriers
    /\ owed \in 0..kMaxTransmitDuration /\ sent = [c \in Callers |-> sent[c]]

Outside == {"idle", "waiting"}

Locked == \A c \in Callers : stage[c] \notin Outside => lock = c

Accepted == supportsCarrier(request.carrier) /\ ~Invalid(request.pattern)

Train(pulses) == [carrier |-> request.carrier, pulses |-> pulses]

(* Before the train goes out there is nothing to show for the command.     *)
Begun(c) ==
    /\ stage[c] \in Outside \cup {"check", "open", "carrier", "write"}
          => sent[c] = <<>> /\ result[c] = "OK"
    /\ stage[c] \in {"open", "carrier", "write", "gap", "close"} => Accepted
    /\ stage[c] = "write" => programmed = request.carrier

(* Afterwards: all of it and no error, or an error and at most one train.  *)
Succeeded(c) == result[c] = "OK" /\ sent[c] = <<Train(Pulses(request.pattern))>>

Failed(c) ==
    /\ result[c] # "OK"
    /\ \/ sent[c] = <<>>
       \/ \E pulses \in Seq(Int) : sent[c] = <<Train(pulses)>>

Ended(c) ==
    /\ stage[c] = "gap" => Succeeded(c)
    /\ stage[c] \in {"close", "return"} =>
          \/ Accepted /\ (Succeeded(c) \/ Failed(c))
          \/ /\ stage[c] = "return" /\ result[c] # "OK" /\ sent[c] = <<>>
             /\ supportsCarrier(request.carrier) \/ result[c] = "EOPNOTSUPP"

Opened(c) == c \in fds => stage[c] \in {"carrier", "write", "gap", "close"}

Gap == owed > 0 => \E c \in Callers : stage[c] = "gap" /\ owed <= left[c]

IInv ==
    /\ Typed /\ Locked /\ Gap
    /\ \A c \in Callers : Begun(c) /\ Ended(c) /\ Opened(c)

(***************************************************************************)
(* The total of a pattern.                                                 *)
(***************************************************************************)
(* A set of natural numbers with an element has a least one.               *)
LEMMA Least == \A T \in SUBSET Nat : T # {} => \E x \in T : \A y \in T : x <= y
<1> TAKE T \in SUBSET Nat
<1> HAVE T # {}
<1>1. PICK x \in T : \A y \in T : ~(<<y, x>> \in OpToRel(<, Nat))
  BY NatLessThanWellFounded, WFMin, Zenon
<1>2. \A y \in T : ~(y < x)
  BY <1>1, Zenon DEF OpToRel
<1>3. \A y \in T : x <= y
  BY <1>2
<1> QED BY <1>3

(* The sums of the first entries, as Total defines them, are a function.   *)
IsSum(f, p, n) == f = [i \in 0..n |-> IF i = 0 THEN 0 ELSE f[i - 1] + p[i]]

(* Each of these functions extends the one for a shorter pattern.          *)
LEMMA SumExists ==
    ASSUME NEW p \in Seq(Int)
    PROVE  \A n \in 0..Len(p) : \E f : IsSum(f, p, n)
<1> DEFINE T == {n \in 0..Len(p) : ~\E f : IsSum(f, p, n)}
<1>1. SUFFICES ASSUME T # {} PROVE FALSE
  BY Zenon
<1>2. PICK n \in T : \A k \in T : n <= k
  <2>1. T \in SUBSET Nat
    OBVIOUS
  <2> HIDE DEF T
  <2> QED BY <1>1, <2>1, Least
<1>3. CASE n = 0
  <2>1. IsSum([i \in 0..0 |-> 0], p, 0)
    BY DEF IsSum
  <2> QED BY <2>1, <1>3
<1>4. CASE n # 0
  <2>1. n \in Nat /\ n - 1 \in 0..Len(p) /\ n - 1 \notin T
    BY <1>2, <1>4
  <2>2. PICK g : IsSum(g, p, n - 1)
    BY <2>1
  <2> DEFINE f == [i \in 0..n |-> IF i = n THEN g[n - 1] + p[n] ELSE g[i]]
  <2>3. \A i \in 0..n-1 : f[i] = g[i]
    BY <2>1
  <2>4. \A i \in 0..n-1 : g[i] = IF i = 0 THEN 0 ELSE g[i - 1] + p[i]
    BY <2>2 DEF IsSum
  <2>5. \A i \in 0..n : f[i] = IF i = 0 THEN 0 ELSE f[i - 1] + p[i]
    <3> TAKE i \in 0..n
    <3>1. CASE i = n
      BY <3>1, <2>1, <2>3, <1>4
    <3>2. CASE i # n /\ i # 0
      <4>1. i \in 0..n-1 /\ i - 1 \in 0..n-1
        BY <3>2, <2>1
      <4> QED BY <4>1, <2>3, <2>4, <3>2
    <3>3. CASE i # n /\ i = 0
      <4>1. i \in 0..n-1
        BY <3>3, <2>1
      <4> QED BY <4>1, <2>3, <2>4, <3>3
    <3> QED BY <3>1, <3>2, <3>3
  <2>6. IsSum(f, p, n)
    <3> HIDE DEF f
    <3>1. f = [i \in 0..n |-> f[i]]
      BY DEF f
    <3> QED BY <3>1, <2>5, Zenon DEF IsSum
  <2> QED BY <2>6, <1>2
<1> QED BY <1>3, <1>4

(* Total is the last of the sums.                                          *)
LEMMA TotalIsSum ==
    ASSUME NEW p \in Seq(Int)
    PROVE  \E f : IsSum(f, p, Len(p)) /\ Total(p) = f[Len(p)]
<1>1. Len(p) \in 0..Len(p)
  OBVIOUS
<1>2. \E f : IsSum(f, p, Len(p))
  BY <1>1, SumExists
<1> DEFINE s == CHOOSE f : IsSum(f, p, Len(p))
<1>3. IsSum(s, p, Len(p))
  BY <1>2, Zenon
<1>4. Total(p) = s[Len(p)]
  BY Zenon DEF Total, IsSum
<1> HIDE DEF s
<1> QED BY <1>3, <1>4

(* The total of positive durations is not less than the last of them.      *)
LEMMA TotalBoundsTheLast ==
    ASSUME NEW p \in Seq(Int), p # <<>>, \A i \in DOMAIN p : p[i] > 0
    PROVE  Total(p) \in Nat /\ p[Len(p)] <= Total(p)
<1>1. PICK f : IsSum(f, p, Len(p)) /\ Total(p) = f[Len(p)]
  BY TotalIsSum
<1>2. \A i \in 0..Len(p) : f[i] = IF i = 0 THEN 0 ELSE f[i - 1] + p[i]
  BY <1>1 DEF IsSum
<1> DEFINE T == {n \in 0..Len(p) : f[n] \notin Nat}
<1>3. T = {}
  <2>1. SUFFICES ASSUME T # {} PROVE FALSE
    OBVIOUS
  <2>2. PICK n \in T : \A k \in T : n <= k
    <3>1. T \in SUBSET Nat
      OBVIOUS
    <3> HIDE DEF T
    <3> QED BY <2>1, <3>1, Least
  <2>3. n # 0
    BY <1>2, <2>2
  <2>4. n - 1 \in 0..Len(p) /\ n - 1 \notin T /\ n \in DOMAIN p
    BY <2>2, <2>3
  <2>5. f[n - 1] \in Nat /\ f[n] = f[n - 1] + p[n] /\ p[n] \in Nat
    BY <1>2, <2>2, <2>3, <2>4
  <2> QED BY <2>5, <2>2
<1>4. Len(p) \in Nat \ {0} /\ Len(p) - 1 \in 0..Len(p) /\ Len(p) \in 0..Len(p)
  OBVIOUS
<1>5. f[Len(p) - 1] \in Nat
  BY <1>3, <1>4
<1>6. f[Len(p)] = f[Len(p) - 1] + p[Len(p)] /\ p[Len(p)] \in Nat
  BY <1>2, <1>4
<1> QED BY <1>1, <1>5, <1>6

(***************************************************************************)
(* A request and its checks.                                               *)
(***************************************************************************)
(* What is requested is a number and a sequence of numbers.                *)
LEMMA RequestIsTyped ==
    ASSUME request \in Requests \cup {NoRequest}
    PROVE  request.carrier \in Int /\ request.pattern \in Seq(Int)
<1>1. CASE request = NoRequest
  BY <1>1 DEF NoRequest
<1>2. CASE request \in Requests
  <2>1. PICK n \in 0..MaxLength : request.pattern \in [1..n -> Durations]
    BY <1>2 DEF Requests
  <2>2. request.pattern \in Seq(Int)
    <3>1. n \in Nat
      BY LimitsAssumption
    <3>2. \A p \in [1..n -> Durations] : p \in [1..n -> Int]
      BY LimitsAssumption
    <3>3. \A p \in [1..n -> Int] : p \in Seq(Int)
      BY <3>1
    <3> QED BY <2>1, <3>2, <3>3, Zenon
  <2> QED BY <1>2, <2>2, LimitsAssumption DEF Requests
<1> QED BY <1>1, <1>2

(* A request with a verdict of "OK" is one that is accepted.               *)
LEMMA VerdictIsTyped ==
    /\ Verdict(request) \in Errors \cup {"EINVAL", "OK"}
    /\ Verdict(request) = "OK" => Accepted
    /\ Verdict(request) # "OK" => supportsCarrier(request.carrier) \/ Verdict(request) = "EOPNOTSUPP"
BY DEF Verdict, Accepted, Errors

(* The carriers that are accepted are the ones getCarrierFreqs() names.    *)
LEMMA SupportedAreAdvertised ==
    ASSUME NEW carrier \in Int
    PROVE  supportsCarrier(carrier) <=> carrier \in Advertised
<1> DEFINE range == 37001..38999
           alone == 36000
<1>1. Advertised = {alone} \cup range
  BY DEF Advertised
<1>2. supportsCarrier(carrier) <=> carrier = alone \/ carrier \in range
  BY DEF supportsCarrier
<1> HIDE DEF range, alone
<1> QED BY <1>1, <1>2

(* What is written of a pattern is a sequence, and odd in length.          *)
LEMMA PulsesAreOdd ==
    ASSUME NEW p \in Seq(Int), p # <<>>
    PROVE  /\ Pulses(p) \in Seq(Int) /\ Len(Pulses(p)) \in 1..Len(p)
           /\ Len(Pulses(p)) % 2 = 1
           /\ \A i \in 1..Len(Pulses(p)) : Pulses(p)[i] = p[i]
           /\ Pulses(p) = SubSeq(p, 1, Len(Pulses(p)))
<1>1. Len(p) \in Nat \ {0}
  OBVIOUS
<1>2. CASE HasTrailingSpace(p)
  <2>1. Len(p) % 2 = 0 /\ Pulses(p) = SubSeq(p, 1, Len(p) - 1)
    BY <1>2 DEF Pulses, HasTrailingSpace
  <2>2. Len(p) - 1 \in 1..Len(p) /\ (Len(p) - 1) % 2 = 1
    <3>1. \A n \in Nat \ {0} : n % 2 = 0 => n - 1 \in 1..n /\ (n - 1) % 2 = 1
      OBVIOUS
    <3> QED BY <1>1, <2>1, <3>1
  <2>3. \A i \in 1..(Len(p) - 1) : p[i] \in Int
    BY <1>1
  <2>4. /\ Pulses(p) \in Seq(Int) /\ Len(Pulses(p)) = Len(p) - 1
        /\ \A i \in 1..(Len(p) - 1) : Pulses(p)[i] = p[i]
    BY <1>1, <2>1, <2>2, <2>3, SubSeqProperties
  <2> QED BY <2>1, <2>2, <2>4
<1>3. CASE ~HasTrailingSpace(p)
  <2>1. Pulses(p) = p
    BY <1>3 DEF Pulses
  <2>2. Len(p) % 2 = 1
    BY <1>1, <1>3 DEF HasTrailingSpace
  <2>3. SubSeq(p, 1, Len(p)) = p
    OBVIOUS
  <2> QED BY <1>1, <2>1, <2>2, <2>3
<1> QED BY <1>2, <1>3

(* A pattern that passes the checks makes a train that the driver takes.   *)
LEMMA ValidIsTaken ==
    ASSUME NEW p \in Seq(Int), ~Invalid(p)
    PROVE  /\ p # <<>> /\ Len(Pulses(p)) % 2 = 1 /\ Len(Pulses(p)) <= kLircBufferSize
           /\ \A i \in DOMAIN Pulses(p) : Pulses(p)[i] > 0
           /\ Total(Pulses(p)) <= kLircMaxDuration
<1>1. p # <<>> /\ \A i \in DOMAIN p : p[i] > 0
  BY DEF Invalid
<1>2. ~(Len(Pulses(p)) > kLircBufferSize) /\ ~(Total(Pulses(p)) > kLircMaxDuration)
  BY Zenon DEF Invalid
<1>3. /\ Pulses(p) \in Seq(Int) /\ Len(Pulses(p)) \in 1..Len(p) /\ Len(Pulses(p)) % 2 = 1
      /\ \A i \in 1..Len(Pulses(p)) : Pulses(p)[i] = p[i]
  BY <1>1, PulsesAreOdd
<1>4. Len(Pulses(p)) <= kLircBufferSize
  <2>1. Len(Pulses(p)) \in Nat
    <3>1. \A s \in Seq(Int) : Len(s) \in Nat
      OBVIOUS
    <3> QED BY <1>3, <3>1, Zenon
  <2>2. \A n \in Nat : ~(n > kLircBufferSize) => n <= kLircBufferSize
    BY LimitsAssumption
  <2> QED BY <1>2, <2>1, <2>2, Zenon
<1>5. Pulses(p) \in Seq(Int) /\ Pulses(p) # <<>>
  BY <1>3
<1>6. \A i \in DOMAIN Pulses(p) : Pulses(p)[i] > 0
  <2> DEFINE q == Pulses(p)
  <2>1. DOMAIN q = 1..Len(q) /\ 1..Len(q) \subseteq 1..Len(p) /\ DOMAIN p = 1..Len(p)
    BY <1>3
  <2>2. \A i \in 1..Len(q) : q[i] = p[i]
    BY <1>3
  <2> HIDE DEF q
  <2>3. \A i \in DOMAIN q : q[i] > 0
    BY <1>1, <2>1, <2>2
  <2> QED BY <2>3 DEF q
<1>7. Total(Pulses(p)) \in Nat
  BY <1>5, <1>6, TotalBoundsTheLast
<1>8. Total(Pulses(p)) <= kLircMaxDuration
  <2>1. \A n \in Nat : ~(n > kLircMaxDuration) => n <= kLircMaxDuration
    BY LimitsAssumption
  <2> QED BY <1>2, <1>7, <2>1, Zenon
<1> QED BY <1>1, <1>3, <1>4, <1>6, <1>8

(* The off time of a pattern that passes the checks is within the limit.   *)
LEMMA GapIsBounded ==
    ASSUME NEW p \in Seq(Int), ~Invalid(p)
    PROVE  p[Len(p)] \in 0..kMaxTransmitDuration
<1>1. p # <<>> /\ \A i \in DOMAIN p : p[i] > 0
  BY DEF Invalid
<1>2. ~(Total(p) > kMaxTransmitDuration)
  BY Zenon DEF Invalid
<1>3. Total(p) \in Nat /\ p[Len(p)] <= Total(p)
  BY <1>1, TotalBoundsTheLast
<1>4. Len(p) \in DOMAIN p
  BY <1>1
<1> QED BY <1>1, <1>2, <1>3, <1>4, LimitsAssumption

(***************************************************************************)
(* IInv is inductive.                                                      *)
(***************************************************************************)
USE DEF Stages, Outside, Errors, Goes, Returns

(* The invariant holds before any call.                                    *)
LEMMA Initial == Init => IInv
BY LimitsAssumption
DEF Init, IInv, Typed, Locked, Gap, Begun, Ended, Opened, NoRequest

(* While a caller holds lock_ every other is outside of its command, and   *)
(* nothing is known to happen to it.                                       *)
LEMMA OthersAreOutside ==
    ASSUME IInv, NEW c \in Callers, stage[c] \notin Outside
    PROVE  /\ lock = c
           /\ \A d \in Callers \ {c} : stage[d] \in Outside
           /\ \A d \in Callers \ {c} : d \notin fds /\ sent[d] = <<>> /\ result[d] = "OK"
BY DEF IInv, Locked, Begun, Opened, Typed

(* A call that is made keeps it.                                           *)
LEMMA CallStep ==
    ASSUME IInv, NEW c \in Callers, Call(c)
    PROVE  IInv'
<1>1. Typed'
  BY DEF IInv, Typed, Call
<1>2. Locked' /\ Gap'
  BY DEF IInv, Typed, Locked, Gap, Call
<1>3. \A d \in Callers : Begun(d)' /\ Ended(d)' /\ Opened(d)'
  BY DEF IInv, Typed, Call, Begun, Ended, Opened, Accepted, Succeeded, Failed, Train
<1> QED BY <1>1, <1>2, <1>3 DEF IInv

(* Taking the lock keeps it.                                               *)
LEMMA LockStep ==
    ASSUME IInv, NEW c \in Callers, Lock(c)
    PROVE  IInv'
<1>1. Typed'
  BY DEF IInv, Typed, Lock
<1>2. \A d \in Callers : stage[d] \in Outside
  BY LimitsAssumption DEF IInv, Locked, Lock
<1>3. Locked' /\ Gap'
  BY <1>2 DEF IInv, Typed, Locked, Gap, Lock
<1>4. \A d \in Callers : Begun(d)' /\ Ended(d)' /\ Opened(d)'
  BY <1>2 DEF IInv, Typed, Lock, Begun, Ended, Opened
<1> QED BY <1>1, <1>3, <1>4 DEF IInv

(* Validating the request keeps it.                                        *)
LEMMA CheckStep ==
    ASSUME IInv, NEW c \in Callers, Check(c)
    PROVE  IInv'
<1>1. Verdict(request) \in Errors \cup {"EINVAL", "OK"}
  BY VerdictIsTyped
<1>2. Typed'
  BY <1>1 DEF IInv, Typed, Check
<1>3. lock = c /\ \A d \in Callers \ {c} :
        stage[d] \in Outside /\ d \notin fds /\ sent[d] = <<>> /\ result[d] = "OK"
  BY OthersAreOutside DEF Check
<1>4. Locked' /\ Gap'
  BY <1>3 DEF IInv, Typed, Locked, Gap, Check
<1>5. \A d \in Callers \ {c} : Begun(d)' /\ Ended(d)' /\ Opened(d)'
  BY <1>3 DEF IInv, Typed, Check, Begun, Ended, Opened
<1>6. Begun(c)' /\ Ended(c)' /\ Opened(c)'
  BY <1>3, VerdictIsTyped DEF IInv, Typed, Check, Begun, Ended, Opened, Accepted
<1> QED BY <1>2, <1>4, <1>5, <1>6 DEF IInv

(* Opening the node keeps it.                                              *)
LEMMA OpenStep ==
    ASSUME IInv, NEW c \in Callers, Open(c)
    PROVE  IInv'
<1>1. lock = c /\ \A d \in Callers \ {c} :
        stage[d] \in Outside /\ d \notin fds /\ sent[d] = <<>> /\ result[d] = "OK"
  BY OthersAreOutside DEF Open
<1>2. Typed'
  BY DEF IInv, Typed, Open
<1>3. Locked' /\ Gap'
  BY <1>1 DEF IInv, Typed, Locked, Gap, Open
<1>4. \A d \in Callers \ {c} : Begun(d)' /\ Ended(d)' /\ Opened(d)'
  BY <1>1 DEF IInv, Typed, Open, Begun, Ended, Opened
<1>5. Begun(c)' /\ Ended(c)' /\ Opened(c)'
  BY <1>1 DEF IInv, Typed, Open, Begun, Ended, Opened, Accepted, Succeeded, Failed, Train
<1> QED BY <1>2, <1>3, <1>4, <1>5 DEF IInv

(* Setting the carrier keeps it.                                           *)
LEMMA SetCarrierStep ==
    ASSUME IInv, NEW c \in Callers, SetCarrier(c)
    PROVE  IInv'
<1>1. lock = c /\ \A d \in Callers \ {c} :
        stage[d] \in Outside /\ d \notin fds /\ sent[d] = <<>> /\ result[d] = "OK"
  BY OthersAreOutside DEF SetCarrier
<1>2. Typed'
  <2>1. request \in Requests
    BY DEF IInv, Typed, Begun, Accepted, supportsCarrier, NoRequest, SetCarrier
  <2>2. request.carrier \in Carriers
    BY <2>1 DEF Requests
  <2> QED BY <2>2 DEF IInv, Typed, SetCarrier
<1>3. Locked' /\ Gap'
  BY <1>1 DEF IInv, Typed, Locked, Gap, SetCarrier
<1>4. \A d \in Callers \ {c} : Begun(d)' /\ Ended(d)' /\ Opened(d)'
  BY <1>1 DEF IInv, Typed, SetCarrier, Begun, Ended, Opened
<1>5. Begun(c)' /\ Ended(c)' /\ Opened(c)'
  BY <1>1 DEF IInv, Typed, SetCarrier, Begun, Ended, Opened, Accepted, Succeeded, Failed, Train
<1> QED BY <1>2, <1>3, <1>4, <1>5 DEF IInv

(* What a write() puts on the air, if it does.                             *)
LEMMA EmitsOnce ==
    ASSUME IInv, NEW c \in Callers, stage[c] = "write",
           NEW count \in 0..Len(Pulses(request.pattern)), Emits(c, count)
    PROVE  /\ sent' = [d \in Callers |-> sent'[d]]
           /\ \A d \in Callers \ {c} : sent'[d] = sent[d]
           /\ count = 0 => sent'[c] = <<>>
           /\ count # 0 => sent'[c] = <<Train(SubSeq(request.pattern, 1, count))>>
           /\ SubSeq(request.pattern, 1, count) \in Seq(Int)
<1>1. sent[c] = <<>> /\ programmed = request.carrier /\ sent = [d \in Callers |-> sent[d]]
  BY DEF IInv, Typed, Begun
<1>2. Append(<<>>, Train(SubSeq(request.pattern, 1, count)))
        = <<Train(SubSeq(request.pattern, 1, count))>>
  OBVIOUS
<1>3. /\ sent' = [d \in Callers |-> sent'[d]]
      /\ \A d \in Callers \ {c} : sent'[d] = sent[d]
      /\ count = 0 => sent'[c] = <<>>
      /\ count # 0 => sent'[c] = Append(<<>>, Train(SubSeq(request.pattern, 1, count)))
  BY <1>1 DEF Emits, Train
<1>4. SubSeq(request.pattern, 1, count) \in Seq(Int)
  <2>1. request.pattern \in Seq(Int) /\ request.pattern # <<>>
    BY RequestIsTyped DEF IInv, Typed, Begun, Accepted, Invalid
  <2>2. Len(Pulses(request.pattern)) \in 1..Len(request.pattern)
    BY <2>1, PulsesAreOdd
  <2>3. count \in Nat /\ \A i \in 1..count : request.pattern[i] \in Int
    BY <2>1, <2>2
  <2> QED BY <2>3, SubSeqProperties
<1> QED BY <1>2, <1>3, <1>4

(* A whole write keeps it.                                                 *)
LEMMA WriteWholeStep ==
    ASSUME IInv, NEW c \in Callers, WriteWhole(c)
    PROVE  IInv'
<1>1. /\ lock = c /\ stage[c] = "write"
      /\ \A d \in Callers \ {c} :
            stage[d] \in Outside /\ d \notin fds /\ sent[d] = <<>> /\ result[d] = "OK"
  BY OthersAreOutside DEF WriteWhole
<1>2. request.pattern \in Seq(Int) /\ ~Invalid(request.pattern) /\ request.pattern # <<>>
  BY <1>1, RequestIsTyped DEF IInv, Typed, Begun, Accepted, Invalid
<1>3. /\ Len(Pulses(request.pattern)) \in 1..Len(request.pattern)
      /\ SubSeq(request.pattern, 1, Len(Pulses(request.pattern))) = Pulses(request.pattern)
  BY <1>2, PulsesAreOdd
<1> DEFINE gap == request.pattern[Len(request.pattern)]
<1>4. gap \in 0..kMaxTransmitDuration
  BY <1>2, GapIsBounded
<1>5. /\ sent' = [d \in Callers |-> sent'[d]] /\ \A d \in Callers \ {c} : sent'[d] = sent[d]
      /\ sent'[c] = <<Train(Pulses(request.pattern))>>
  <2>1. Emits(c, Len(Pulses(request.pattern)))
    BY DEF WriteWhole
  <2>2. Len(Pulses(request.pattern)) \in 0..Len(Pulses(request.pattern)) \ {0}
    BY <1>3
  <2> QED BY <1>1, <1>3, <2>1, <2>2, EmitsOnce
<1>6. /\ \E to \in {"gap", "close"} : stage' = [stage EXCEPT ![c] = to]
      /\ left' \in {left, [left EXCEPT ![c] = gap]} /\ owed' \in {0, gap}
      /\ owed' > 0 => stage'[c] = "gap" /\ left' = [left EXCEPT ![c] = gap]
      /\ UNCHANGED <<lock, request, result, fds, programmed>>
  <2>1. CASE HasTrailingSpace(request.pattern)
    <3>1. /\ stage' = [stage EXCEPT ![c] = "gap"] /\ left' = [left EXCEPT ![c] = gap]
          /\ owed' = gap /\ UNCHANGED <<lock, request, result, fds, programmed>>
      BY <2>1 DEF WriteWhole
    <3>2. stage'[c] = "gap"
      BY <3>1 DEF IInv, Typed
    <3> HIDE DEF gap
    <3> QED BY <3>1, <3>2
  <2>2. CASE ~HasTrailingSpace(request.pattern)
    BY <1>4, <2>2 DEF WriteWhole
  <2> QED BY <2>1, <2>2
<1> HIDE DEF gap
<1>7. Typed'
  <2>1. 0 \in 0..kMaxTransmitDuration
    BY LimitsAssumption
  <2> QED BY <1>4, <1>5, <1>6, <2>1 DEF IInv, Typed
<1>8. Locked' /\ Gap'
  BY <1>1, <1>4, <1>6 DEF IInv, Typed, Locked, Gap
<1>9. \A d \in Callers \ {c} : Begun(d)' /\ Ended(d)' /\ Opened(d)'
  BY <1>1, <1>5, <1>6 DEF IInv, Typed, Begun, Ended, Opened
<1>10. Begun(c)' /\ Ended(c)' /\ Opened(c)'
  <2>1. Accepted' /\ result'[c] = "OK" /\ Train(Pulses(request.pattern)) = Train(Pulses(request.pattern))'
    BY <1>1, <1>6 DEF IInv, Begun, Accepted, Train
  <2>2. Succeeded(c)'
    BY <1>5, <1>6, <2>1 DEF Succeeded
  <2> QED BY <1>1, <1>6, <2>1, <2>2 DEF IInv, Typed, Begun, Ended, Opened
<1> QED BY <1>7, <1>8, <1>9, <1>10 DEF IInv

(* A short write keeps it.                                                 *)
LEMMA WriteShortStep ==
    ASSUME IInv, NEW c \in Callers, WriteShort(c)
    PROVE  IInv'
<1>1. /\ lock = c /\ stage[c] = "write"
      /\ \A d \in Callers \ {c} :
            stage[d] \in Outside /\ d \notin fds /\ sent[d] = <<>> /\ result[d] = "OK"
  BY OthersAreOutside DEF WriteShort
<1>2. request.pattern \in Seq(Int) /\ ~Invalid(request.pattern) /\ request.pattern # <<>>
  BY <1>1, RequestIsTyped DEF IInv, Typed, Begun, Accepted, Invalid
<1>3. /\ Len(Pulses(request.pattern)) \in 1..Len(request.pattern)
      /\ SubSeq(request.pattern, 1, Len(Pulses(request.pattern))) = Pulses(request.pattern)
  BY <1>2, PulsesAreOdd
<1>4. PICK count \in 0..Len(Pulses(request.pattern)) : Emits(c, count)
  BY <1>3 DEF WriteShort
<1>5. /\ sent' = [d \in Callers |-> sent'[d]] /\ \A d \in Callers \ {c} : sent'[d] = sent[d]
      /\ sent'[c] = <<>> \/ \E pulses \in Seq(Int) : sent'[c] = <<Train(pulses)>>
  BY <1>1, <1>4, EmitsOnce
<1>6. /\ stage' = [stage EXCEPT ![c] = "close"] /\ owed' = 0
      /\ \E e \in Errors : result' = [result EXCEPT ![c] = e]
      /\ UNCHANGED <<lock, request, fds, left, programmed>>
  BY DEF WriteShort
<1>7. Typed'
  <2>1. 0 \in 0..kMaxTransmitDuration
    BY LimitsAssumption
  <2> QED BY <1>5, <1>6, <2>1 DEF IInv, Typed
<1>8. Locked' /\ Gap'
  BY <1>1, <1>6 DEF IInv, Typed, Locked, Gap
<1>9. \A d \in Callers \ {c} : Begun(d)' /\ Ended(d)' /\ Opened(d)'
  BY <1>1, <1>5, <1>6 DEF IInv, Typed, Begun, Ended, Opened
<1>10. Begun(c)' /\ Ended(c)' /\ Opened(c)'
  <2>1. Accepted' /\ result'[c] \in Errors /\ request' = request
    BY <1>1, <1>6 DEF IInv, Typed, Begun, Accepted, Train
  <2>2. Failed(c)'
    BY <1>5, <1>6, <2>1 DEF Failed, Train
  <2> QED BY <1>1, <1>6, <2>1, <2>2 DEF IInv, Typed, Begun, Ended, Opened
<1> QED BY <1>7, <1>8, <1>9, <1>10 DEF IInv

(* A failed write keeps it.                                                *)
LEMMA WriteFailsStep ==
    ASSUME IInv, NEW c \in Callers, WriteFails(c)
    PROVE  IInv'
<1>1. /\ lock = c /\ stage[c] = "write"
      /\ \A d \in Callers \ {c} :
            stage[d] \in Outside /\ d \notin fds /\ sent[d] = <<>> /\ result[d] = "OK"
  BY OthersAreOutside DEF WriteFails
<1>2. request.pattern \in Seq(Int) /\ ~Invalid(request.pattern) /\ request.pattern # <<>>
  BY <1>1, RequestIsTyped DEF IInv, Typed, Begun, Accepted, Invalid
<1>3. /\ Len(Pulses(request.pattern)) \in 1..Len(request.pattern)
      /\ SubSeq(request.pattern, 1, Len(Pulses(request.pattern))) = Pulses(request.pattern)
  BY <1>2, PulsesAreOdd
<1>4. PICK count \in 0..Len(Pulses(request.pattern)) : Emits(c, count)
  BY <1>3 DEF WriteFails
<1>5. /\ sent' = [d \in Callers |-> sent'[d]] /\ \A d \in Callers \ {c} : sent'[d] = sent[d]
      /\ sent'[c] = <<>> \/ \E pulses \in Seq(Int) : sent'[c] = <<Train(pulses)>>
  BY <1>1, <1>4, EmitsOnce
<1>6. /\ stage' = [stage EXCEPT ![c] = "close"] /\ owed' = 0
      /\ \E e \in Errors : result' = [result EXCEPT ![c] = e]
      /\ UNCHANGED <<lock, request, fds, left, programmed>>
  BY DEF WriteFails
<1>7. Typed'
  <2>1. 0 \in 0..kMaxTransmitDuration
    BY LimitsAssumption
  <2> QED BY <1>5, <1>6, <2>1 DEF IInv, Typed
<1>8. Locked' /\ Gap'
  BY <1>1, <1>6 DEF IInv, Typed, Locked, Gap
<1>9. \A d \in Callers \ {c} : Begun(d)' /\ Ended(d)' /\ Opened(d)'
  BY <1>1, <1>5, <1>6 DEF IInv, Typed, Begun, Ended, Opened
<1>10. Begun(c)' /\ Ended(c)' /\ Opened(c)'
  <2>1. Accepted' /\ result'[c] \in Errors /\ request' = request
    BY <1>1, <1>6 DEF IInv, Typed, Begun, Accepted, Train
  <2>2. Failed(c)'
    BY <1>5, <1>6, <2>1 DEF Failed, Train
  <2> QED BY <1>1, <1>6, <2>1, <2>2 DEF IInv, Typed, Begun, Ended, Opened
<1> QED BY <1>7, <1>8, <1>9, <1>10 DEF IInv

(* Waiting for the gap keeps it.                                           *)
LEMMA WaitGapStep ==
    ASSUME IInv, NEW c \in Callers, WaitGap(c)
    PROVE  IInv'
<1>1. lock = c /\ \A d \in Callers \ {c} :
        stage[d] \in Outside /\ d \notin fds /\ sent[d] = <<>> /\ result[d] = "OK"
  BY OthersAreOutside DEF WaitGap
<1>2. Typed'
  BY LimitsAssumption DEF IInv, Typed, WaitGap
<1>3. Locked' /\ Gap'
  BY <1>1 DEF IInv, Typed, Locked, Gap, WaitGap
<1>4. \A d \in Callers \ {c} : Begun(d)' /\ Ended(d)' /\ Opened(d)'
  BY <1>1 DEF IInv, Typed, WaitGap, Begun, Ended, Opened
<1>5. Begun(c)' /\ Ended(c)' /\ Opened(c)'
  <2>1. Succeeded(c) /\ Accepted /\ Pulses(request.pattern) \in Seq(Int)
    BY RequestIsTyped, PulsesAreOdd DEF WaitGap, IInv, Typed, Begun, Ended, Accepted, Invalid
  <2>2. request' = request /\ sent' = sent /\ stage' = [stage EXCEPT ![c] = "close"] /\ fds' = fds
    BY DEF WaitGap
  <2>3. CASE result' = result
    BY <2>1, <2>2, <2>3 DEF IInv, Typed, Begun, Ended, Opened, Accepted, Succeeded, Train, WaitGap
  <2>4. CASE \E e \in Errors : result' = [result EXCEPT ![c] = e]
    <3>1. Failed(c)' /\ Accepted'
      BY <2>1, <2>2, <2>4 DEF IInv, Typed, Accepted, Succeeded, Failed, Train
    <3> QED BY <2>2, <3>1 DEF IInv, Typed, Begun, Ended, Opened, WaitGap
  <2> QED BY <2>3, <2>4 DEF WaitGap
<1> QED BY <1>2, <1>3, <1>4, <1>5 DEF IInv

(* Closing the node keeps it.                                              *)
LEMMA CloseStep ==
    ASSUME IInv, NEW c \in Callers, Close(c)
    PROVE  IInv'
<1>1. lock = c /\ \A d \in Callers \ {c} :
        stage[d] \in Outside /\ d \notin fds /\ sent[d] = <<>> /\ result[d] = "OK"
  BY OthersAreOutside DEF Close
<1>2. Typed'
  BY DEF IInv, Typed, Close
<1>3. Locked' /\ Gap'
  BY <1>1 DEF IInv, Typed, Locked, Gap, Close
<1>4. \A d \in Callers \ {c} : Begun(d)' /\ Ended(d)' /\ Opened(d)'
  BY <1>1 DEF IInv, Typed, Close, Begun, Ended, Opened
<1>5. Begun(c)' /\ Ended(c)' /\ Opened(c)'
  BY <1>1 DEF IInv, Typed, Close, Begun, Ended, Opened, Accepted, Succeeded, Failed, Train
<1> QED BY <1>2, <1>3, <1>4, <1>5 DEF IInv

(* Returning keeps it.                                                     *)
LEMMA ReturnStep ==
    ASSUME IInv, NEW c \in Callers, Return(c)
    PROVE  IInv'
<1>1. lock = c /\ \A d \in Callers \ {c} :
        stage[d] \in Outside /\ d \notin fds /\ sent[d] = <<>> /\ result[d] = "OK"
  BY OthersAreOutside DEF Return
<1>2. Typed'
  BY DEF IInv, Typed, Return
<1>3. Locked' /\ Gap'
  BY <1>1 DEF IInv, Typed, Locked, Gap, Return
<1>4. \A d \in Callers \ {c} : Begun(d)' /\ Ended(d)' /\ Opened(d)'
  BY <1>1 DEF IInv, Typed, Return, Begun, Ended, Opened
<1>5. Begun(c)' /\ Ended(c)' /\ Opened(c)'
  BY <1>1 DEF IInv, Typed, Return, Begun, Ended, Opened, Accepted, Succeeded, Failed, Train
<1> QED BY <1>2, <1>3, <1>4, <1>5 DEF IInv

(* The off time passes no sooner than the nanosleep that waits for it.     *)
LEMMA TickStep == IInv /\ Tick => IInv'
<1> SUFFICES ASSUME IInv, Tick PROVE IInv'
  OBVIOUS
<1>1. \A n \in 0..kMaxTransmitDuration :
        Decrement(n) \in 0..kMaxTransmitDuration /\ (Decrement(n) > 0 => n > 0)
  BY LimitsAssumption DEF Decrement
<1>2. \A m, n \in 0..kMaxTransmitDuration : m <= n => Decrement(m) <= Decrement(n)
  BY LimitsAssumption DEF Decrement
<1>3. Typed'
  BY <1>1 DEF IInv, Typed, Tick
<1>4. Locked'
  BY DEF IInv, Locked, Tick
<1>5. Gap'
  BY <1>1, <1>2 DEF IInv, Typed, Gap, Tick
<1>6. \A d \in Callers : Begun(d)' /\ Ended(d)' /\ Opened(d)'
  BY DEF IInv, Tick, Begun, Ended, Opened, Accepted, Succeeded, Failed, Train
<1> QED BY <1>3, <1>4, <1>5, <1>6 DEF IInv

(* Every step keeps the inductive invariant.                               *)
LEMMA Step == IInv /\ [Next]_vars => IInv'
<1>1. IInv /\ Next => IInv'
  BY TickStep, CallStep, LockStep, CheckStep, OpenStep, SetCarrierStep, WriteWholeStep,
     WriteShortStep, WriteFailsStep, WaitGapStep, CloseStep, ReturnStep DEF Next, Transmit
<1>2. IInv /\ UNCHANGED vars => IInv'
  BY DEF vars, IInv, Typed, Locked, Gap, Begun, Ended, Opened, Accepted, Succeeded, Failed, Train
<1> QED BY <1>1, <1>2

(* The inductive invariant holds: what the caller with the lock has sent   *)
(* is of its own command, and the gap follows.                             *)
THEOREM Invariant == Spec => []IInv
BY Initial, Step, PTL DEF Spec

(***************************************************************************)
(* The properties.                                                         *)
(***************************************************************************)
(* Every caller and the driver hold values of their types, the off time    *)
(* that is waited is within a request's limit, and a caller past           *)
(* lock_guard is the one that holds lock_.                                 *)
THEOREM Typing == Spec => []TypeOK
<1>1. IInv => TypeOK
  BY DEF IInv, Typed, Locked, TypeOK
<1> QED BY <1>1, Invariant, PTL

(* A command that succeeds went out once, whole, on its own carrier and as *)
(* a train the driver takes; one that fails did not go out twice; no       *)
(* carrier that is not advertised is accepted; the node is closed.         *)
THEOREM CommandsAreWhole == Spec => []SentWhole
<1>1. IInv => SentWhole
  <2> SUFFICES ASSUME IInv, NEW c \in Callers, stage[c] = "return"
               PROVE  /\ c \notin fds
                      /\ IF result[c] = "OK"
                         THEN sent[c] = <<Train(Pulses(request.pattern))>> /\ LircTakes(sent[c][1])
                         ELSE Len(sent[c]) <= 1
                      /\ \A i \in DOMAIN sent[c] : sent[c][i].carrier \in Advertised
                      /\ request.carrier \notin Advertised => result[c] = "EOPNOTSUPP"
    BY DEF SentWhole, Train
  <2>1. c \notin fds
    BY DEF IInv, Opened
  <2>2. request.carrier \in Int /\ request.pattern \in Seq(Int)
    BY RequestIsTyped DEF IInv, Typed
  <2>3. supportsCarrier(request.carrier) <=> request.carrier \in Advertised
    BY <2>2, SupportedAreAdvertised
  <2>4. CASE Accepted /\ Succeeded(c)
    <3>1. LircTakes(Train(Pulses(request.pattern)))
      BY <2>2, <2>4, ValidIsTaken DEF LircTakes, Accepted, Train
    <3> QED BY <2>1, <2>3, <2>4, <3>1 DEF Accepted, Succeeded, Train
  <2>5. CASE Accepted /\ Failed(c)
    <3>1. ASSUME NEW pulses \in Seq(Int), sent[c] = <<Train(pulses)>>
          PROVE  Len(sent[c]) = 1 /\ \A i \in DOMAIN sent[c] : sent[c][i].carrier = request.carrier
      BY <3>1 DEF Train
    <3>2. Len(<<>>) = 0 /\ DOMAIN <<>> = {}
      OBVIOUS
    <3>3. /\ Len(sent[c]) <= 1
          /\ \A i \in DOMAIN sent[c] : sent[c][i].carrier = request.carrier
      <4>1. CASE sent[c] = <<>>
        BY <4>1, <3>2
      <4>2. CASE \E pulses \in Seq(Int) : sent[c] = <<Train(pulses)>>
        BY <4>2, <3>1
      <4> QED BY <2>5, <4>1, <4>2 DEF Failed
    <3> QED BY <2>1, <2>3, <2>5, <3>3 DEF Accepted, Failed
  <2>6. CASE /\ result[c] # "OK" /\ sent[c] = <<>>
             /\ supportsCarrier(request.carrier) \/ result[c] = "EOPNOTSUPP"
    BY <2>1, <2>3, <2>6
  <2> QED BY <2>4, <2>5, <2>6 DEF IInv, Ended
<1> QED BY <1>1, Invariant, PTL

(* No train starts in the off time of a command that has not failed.       *)
THEOREM GapsAreKept == Spec => GapKept
<1>1. ASSUME IInv, [Next]_vars, \E c \in Callers : Len(sent'[c]) > Len(sent[c])
      PROVE  owed = 0
  <2>1. PICK c \in Callers : Len(sent'[c]) > Len(sent[c])
    BY <1>1
  <2>2. sent'[c] # sent[c] /\ sent'[c] # <<>>
    BY <2>1, <1>1
  <2>3. stage[c] = "write"
    BY <1>1, <2>2 DEF IInv, Typed, Next, vars, Transmit, Tick, Call, Lock, Check, Open, SetCarrier,
       WriteWhole, WriteShort, WriteFails, WaitGap, Close, Return, Emits
  <2>4. \A d \in Callers : stage[d] # "gap"
    BY <1>1, <2>3, OthersAreOutside
  <2> QED BY <1>1, <2>4 DEF IInv, Typed, Gap
<1> QED BY <1>1, Invariant, PTL DEF Spec, GapKept
=============================================================================
