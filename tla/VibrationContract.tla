------------------------- MODULE VibrationContract -------------------------
(***************************************************************************)
(* What the vibrator promises about completion callbacks, whatever the     *)
(* hardware does.  Requests are numbered in the order they are made.  At   *)
(* most one is current; making another withdraws it for good.  A current   *)
(* request may complete: its callback is then owed, and delivered later,   *)
(* perhaps after another request was made.                                 *)
(***************************************************************************)
EXTENDS Naturals

VARIABLES
    issued,     \* requests made so far
    current,    \* the request that may still complete, 0 for none
    owed,       \* the request whose callback is about to be called, 0 for none
    delivered   \* requests whose callback was called

contractVars == <<issued, current, owed, delivered>>

Init == issued = 0 /\ current = 0 /\ owed = 0 /\ delivered = {}

Request  == /\ issued' = issued + 1 /\ current' \in {0, issued'}
            /\ UNCHANGED <<owed, delivered>>

Withdraw == current' = 0 /\ UNCHANGED <<issued, owed, delivered>>

Complete == /\ current # 0 /\ owed = 0
            /\ owed' = current /\ current' = 0
            /\ UNCHANGED <<issued, delivered>>

Deliver  == /\ owed # 0 /\ owed' = 0
            /\ delivered' = delivered \cup {owed}
            /\ UNCHANGED <<issued, current>>

Next == Request \/ Withdraw \/ Complete \/ Deliver

Spec == Init /\ [][Next]_contractVars

(* Requests are numbered in order, so a new one never had its callback.    *)
Numbered ==
    /\ issued \in Nat /\ current \in 0..issued /\ owed \in 0..issued
    /\ delivered \subseteq 1..issued

(***************************************************************************)
(* No callback is called twice: a request that is owed its callback is not *)
(* among those that had it, and is older than the one that is current      *)
(* (TimedMotor.h moves callback_ out before it calls it).                  *)
(***************************************************************************)
AtMostOnce ==
    /\ owed # 0 => owed \notin delivered
    /\ current # 0 => current \notin delivered \cup {owed}
=============================================================================
