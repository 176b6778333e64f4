---------------------------- MODULE IrTransmit -----------------------------
(***************************************************************************)
(* ir/service.cpp and ir/Transmit.h: the infrared service.  A command is   *)
(* an open, a carrier, one pulse train and the off time after it, and      *)
(* lock_ makes one transaction of them, whichever of Binder's threads the  *)
(* calls come on.  The driver, /dev/lirc0, keeps one carrier for all who   *)
(* open it, may take a part of a train, and may fail at every call.        *)
(*                                                                         *)
(* Frequencies are in Hz, durations in ticks and buffers in pulses.        *)
(***************************************************************************)
EXTENDS Integers, Sequences

CONSTANTS
    Callers,        \* the threads that transmit() is called on
    NoCaller,
    Carriers,       \* the frequencies that are asked for
    Durations,      \* the entries of a pattern
    MaxLength,      \* bound on a pattern's length
    kLircBufferSize, kLircMaxDuration, kMaxTransmitDuration

ASSUME LimitsAssumption ==
    /\ NoCaller \notin Callers /\ Carriers \subseteq Int /\ Durations \subseteq Int
    /\ {MaxLength, kLircBufferSize, kLircMaxDuration, kMaxTransmitDuration} \subseteq Nat

VARIABLES
    stage,          \* how far each caller's transmit() is
    lock,           \* lock_'s holder
    request,        \* the holder's [carrier, pattern]
    result,         \* what transmitLirc() is to return to each caller
    fds,            \* the callers with the node open
    left,           \* what is left of a caller's nanosleep
    programmed,     \* the driver's carrier
    sent,           \* history: the trains that went out in each caller's turn
    owed            \* history: what is left of the last command's off time

vars == <<stage, lock, request, result, fds, left, programmed, sent, owed>>

Requests ==
    [carrier : Carriers, pattern : UNION {[1..n -> Durations] : n \in 0..MaxLength}]

NoRequest == [carrier |-> 0, pattern |-> <<>>]

(***************************************************************************)
(* transmitLirc()'s checks, in their order.                                *)
(***************************************************************************)
supportsCarrier(carrier) == carrier = 36000 \/ (carrier > 37000 /\ carrier < 39000)

HasTrailingSpace(pattern) == Len(pattern) % 2 = 0

Pulses(pattern) ==
    IF HasTrailingSpace(pattern) THEN SubSeq(pattern, 1, Len(pattern) - 1) ELSE pattern

Total(pattern) ==
    LET sum[n \in 0..Len(pattern)] == IF n = 0 THEN 0 ELSE sum[n - 1] + pattern[n]
    IN  sum[Len(pattern)]

Invalid(pattern) ==
    \/ pattern = <<>>
    \/ Len(Pulses(pattern)) > kLircBufferSize
    \/ \E i \in DOMAIN pattern : pattern[i] <= 0
    \/ Total(Pulses(pattern)) > kLircMaxDuration
    \/ Total(pattern) > kMaxTransmitDuration

Verdict(r) ==
    IF ~supportsCarrier(r.carrier) THEN "EOPNOTSUPP"
    ELSE IF Invalid(r.pattern) THEN "EINVAL" ELSE "OK"

(***************************************************************************)
(* transmit().                                                             *)
(***************************************************************************)
Goes(c, from, to) == stage[c] = from /\ stage' = [stage EXCEPT ![c] = to]

Returns(c, value) == result' = [result EXCEPT ![c] = value]

(* What the node's calls fail with; the carrier may be one the driver does *)
(* not support after all.                                                  *)
Errors == {"EOPNOTSUPP", "EIO"}

Call(c) ==
    /\ Goes(c, "idle", "waiting")
    /\ UNCHANGED <<lock, request, result, fds, left, programmed, sent, owed>>

Lock_Shared(c) ==
    /\ Goes(c, "waiting", "check") /\ lock' = c /\ request' \in Requests
    /\ UNCHANGED <<result, fds, left, programmed, sent, owed>>
Lock(c) ==
    /\ lock = NoCaller
    /\ Goes(c, "waiting", "check") /\ lock' = c /\ request' \in Requests
    /\ UNCHANGED <<result, fds, left, programmed, sent, owed>>

Check(c) ==
    /\ Returns(c, Verdict(request))
    /\ Goes(c, "check", IF Verdict(request) = "OK" THEN "open" ELSE "return")
    /\ UNCHANGED <<lock, request, fds, left, programmed, sent, owed>>

(* An interrupted open() or ioctl() is repeated.                           *)
Open(c) ==
    /\ \/ Goes(c, "open", "carrier") /\ fds' = fds \cup {c} /\ UNCHANGED result
       \/ Goes(c, "open", "return") /\ (\E e \in Errors : Returns(c, e)) /\ UNCHANGED fds
    /\ UNCHANGED <<lock, request, left, programmed, sent, owed>>

SetCarrier(c) ==
    /\ \/ Goes(c, "carrier", "write") /\ programmed' = request.carrier /\ UNCHANGED result
       \/ /\ Goes(c, "carrier", "close") /\ \E e \in Errors : Returns(c, e)
          /\ UNCHANGED programmed
    /\ UNCHANGED <<lock, request, fds, left, sent, owed>>

(* The first "count" pulses go out, whatever write() returns.              *)
Emits(c, count) ==
    sent' = [sent EXCEPT ![c] =
        IF count = 0 THEN @
        ELSE Append(@, [carrier |-> programmed, pulses |-> SubSeq(request.pattern, 1, count)])]

(* A whole train, with the off time after it; a short one; an error.       *)
WriteWhole(c) ==
    LET pulses == Len(Pulses(request.pattern))
        gap == request.pattern[Len(request.pattern)]
        trailing == HasTrailingSpace(request.pattern)
    IN  /\ Goes(c, "write", IF trailing THEN "gap" ELSE "close") /\ Emits(c, pulses)
        /\ left' = IF trailing THEN [left EXCEPT ![c] = gap] ELSE left
        /\ owed' = IF trailing THEN gap ELSE 0
        /\ UNCHANGED <<lock, request, result, fds, programmed>>

WriteShort_Resumes(c) ==
    /\ \E count \in 0..(Len(Pulses(request.pattern)) - 1) : Emits(c, count)
    /\ stage[c] = "write"
    /\ UNCHANGED <<stage, result, owed, lock, request, fds, left, programmed>>
WriteShort(c) ==
    /\ Goes(c, "write", "close") /\ Returns(c, "EIO") /\ owed' = 0
    /\ \E count \in 0..(Len(Pulses(request.pattern)) - 1) : Emits(c, count)
    /\ UNCHANGED <<lock, request, fds, left, programmed>>

WriteFails(c) ==
    /\ Goes(c, "write", "close") /\ (\E e \in Errors : Returns(c, e)) /\ owed' = 0
    /\ \E count \in 0..Len(Pulses(request.pattern)) : Emits(c, count)
    /\ UNCHANGED <<lock, request, fds, left, programmed>>

(* An interrupted nanosleep() goes on with what is left.                   *)
WaitGap_Interrupted(c) ==
    /\ Goes(c, "gap", "close") /\ left' = [left EXCEPT ![c] = 0]
    /\ UNCHANGED <<result, owed, lock, request, fds, programmed, sent>>
WaitGap(c) ==
    /\ Goes(c, "gap", "close") /\ left' = [left EXCEPT ![c] = 0]
    /\ \/ left[c] = 0 /\ UNCHANGED <<result, owed>>
       \/ (\E e \in Errors : Returns(c, e)) /\ owed' = 0
    /\ UNCHANGED <<lock, request, fds, programmed, sent>>

Close(c) ==
    /\ Goes(c, "close", "return") /\ fds' = fds \ {c}
    /\ UNCHANGED <<lock, request, result, left, programmed, sent, owed>>

Return(c) ==
    /\ Goes(c, "return", "idle") /\ lock' = NoCaller
    /\ request' = NoRequest /\ Returns(c, "OK") /\ sent' = [sent EXCEPT ![c] = <<>>]
    /\ UNCHANGED <<fds, left, programmed, owed>>

Transmit(c) ==
    \/ Call(c) \/ Lock(c) \/ Check(c)
    \/ Open(c) \/ SetCarrier(c)
    \/ WriteWhole(c) \/ WriteShort(c) \/ WriteFails(c)
    \/ WaitGap(c) \/ Close(c) \/ Return(c)

(* The timers and the off time they are for.                               *)
Decrement(n) == IF n > 0 THEN n - 1 ELSE 0

Tick ==
    /\ owed > 0 \/ \E c \in Callers : left[c] > 0
    /\ owed' = Decrement(owed) /\ left' = [c \in Callers |-> Decrement(left[c])]
    /\ UNCHANGED <<stage, lock, request, result, fds, programmed, sent>>

(***************************************************************************)
(* Specification.                                                          *)
(***************************************************************************)
Init ==
    /\ stage = [c \in Callers |-> "idle"] /\ lock = NoCaller
    /\ request = NoRequest
    /\ result = [c \in Callers |-> "OK"] /\ fds = {}
    /\ left = [c \in Callers |-> 0] /\ programmed \in Carriers
    /\ sent = [c \in Callers |-> <<>>] /\ owed = 0

Next == Tick \/ \E c \in Callers : Transmit(c)

Spec == Init /\ [][Next]_vars

(***************************************************************************)
(* Properties.                                                             *)
(***************************************************************************)
Stages ==
    {"idle", "waiting", "check", "open", "carrier", "write", "gap", "close", "return"}

TypeOK ==
    /\ stage \in [Callers -> Stages] /\ lock \in Callers \cup {NoCaller}
    /\ request \in Requests \cup {NoRequest}
    /\ result \in [Callers -> Errors \cup {"EINVAL", "OK"}] /\ fds \subseteq Callers
    /\ left \in [Callers -> 0..kMaxTransmitDuration] /\ programmed \in Carriers
    /\ owed \in 0..kMaxTransmitDuration
    /\ \A c \in Callers : stage[c] \notin {"idle", "waiting"} => lock = c

(* getCarrierFreqs() in service.cpp, and what LIRC says a train is: an odd *)
(* number of durations, pulse to pulse, within its buffer and its time.    *)
Advertised == {36000} \cup 37001..38999

LircTakes(train) ==
    /\ Len(train.pulses) % 2 = 1 /\ Len(train.pulses) <= kLircBufferSize
    /\ \A i \in DOMAIN train.pulses : train.pulses[i] > 0
    /\ Total(train.pulses) <= kLircMaxDuration

(* A command that succeeds went out once and whole, on its own carrier, as *)
(* a train the driver takes; one that fails did not go out twice, and no   *)
(* carrier that is not advertised is accepted.  Either leaves the node     *)
(* closed.                                                                 *)
SentWhole ==
    \A c \in Callers : stage[c] = "return" =>
        /\ c \notin fds
        /\ IF result[c] = "OK"
           THEN /\ sent[c] = <<[carrier |-> request.carrier, pulses |-> Pulses(request.pattern)]>>
                /\ LircTakes(sent[c][1])
           ELSE Len(sent[c]) <= 1
        /\ \A i \in DOMAIN sent[c] : sent[c][i].carrier \in Advertised
        /\ request.carrier \notin Advertised => result[c] = "EOPNOTSUPP"

(* No train starts in the off time of a command that has not failed: a     *)
(* receiver would take the two for one command.                            *)
GapKept == [][(\E c \in Callers : Len(sent'[c]) > Len(sent[c])) => owed = 0]_vars
=============================================================================
