----------------------------- MODULE RcAuthority -----------------------------
(***************************************************************************)
(* What failsafe promises the pilot, without saying how: at every moment   *)
(* the pilot or failsafe has the sticks, or arming is locked out.          *)
(* Failsafe takes over a flying craft only; it hands back, and unlocks     *)
(* arming, only while the RX link is up; a locked-out craft stays disarmed *)
(* until it is unlocked.  The module is a specification of failsafe.c's    *)
(* interface (flight/failsafe.h), implemented by Failsafe.                 *)
(***************************************************************************)
VARIABLES
    authority,      \* who has the sticks, or "LOCKED"
    motors,         \* is the craft armed?
    link            \* the state of the RX link

vars == <<authority, motors, link>>

Init == authority = "PILOT" /\ motors = FALSE /\ link = "UP"

TakeOver ==
    /\ authority = "PILOT" /\ motors
    /\ authority' = "FAILSAFE"
    /\ UNCHANGED <<motors, link>>

HandBack ==
    /\ authority = "FAILSAFE" /\ link = "UP"
    /\ authority' = "PILOT"
    /\ UNCHANGED <<motors, link>>

(* Disarming may write the EEPROM, which declares the link up.             *)
LockOut ==
    /\ authority = "FAILSAFE"
    /\ authority' = "LOCKED" /\ motors' = FALSE
    /\ link' \in {link, "UP"}

Unlock ==
    /\ authority = "LOCKED" /\ link = "UP"
    /\ authority' = "PILOT"
    /\ UNCHANGED <<motors, link>>

Arm ==
    /\ ~motors /\ authority # "LOCKED"
    /\ motors' = TRUE
    /\ UNCHANGED <<authority, link>>

Disarm ==
    /\ motors /\ motors' = FALSE
    /\ link' \in {link, "UP"}
    /\ UNCHANGED authority

LinkChanges ==
    /\ link' \in {"UP", "DOWN"} \ {link}
    /\ UNCHANGED <<authority, motors>>

Next == TakeOver \/ HandBack \/ LockOut \/ Unlock \/ Arm \/ Disarm \/ LinkChanges

Spec == Init /\ [][Next]_vars
==============================================================================
