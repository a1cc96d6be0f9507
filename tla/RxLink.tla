------------------------------- MODULE RxLink -------------------------------
(***************************************************************************)
(* The RX link tracker of flight/failsafe.c: what rx.c reports to it at    *)
(* every sample and what failsafe makes of the reports.                    *)
(*                                                                         *)
(* Time is a tick.  A deadline D of the code (compared as millis() > D) is *)
(* kept as the ticks left, D - now, down to Expired = -1; a timestamp T as *)
(* its age now - T, up to one more than the period it is compared with.    *)
(* Both conversions keep the outcome of every comparison of the code.      *)
(***************************************************************************)
EXTENDS Integers

CONSTANTS
    RxDataFailurePeriod,   \* PERIOD_RXDATA_FAILURE + failsafe_delay
    RxDataRecoveryPeriod   \* PERIOD_RXDATA_RECOVERY + failsafe_recovery_delay

ASSUME RxLinkAssumption ==
    RxDataFailurePeriod \in Nat /\ RxDataRecoveryPeriod \in Nat

VARIABLES
    rxLinkState,        \* failsafeState.rxLinkState
    sinceReceived,      \* age of validRxDataReceivedAt
    sinceFailed         \* age of validRxDataFailedAt

rxVars == <<rxLinkState, sinceReceived, sinceFailed>>

Expired == -1
HasPassed(timer) == timer < 0
Countdown(timer) == IF timer > Expired THEN timer - 1 ELSE Expired
Older(age, period) == IF age > period THEN age ELSE age + 1

LinkTypeOK ==
    /\ rxLinkState \in {"UP", "DOWN"}
    /\ sinceReceived \in 0 .. RxDataFailurePeriod + 1
    /\ sinceFailed \in 0 .. RxDataRecoveryPeriod + 1

(* The RX signal is resumed once the configuration is loaded.              *)
LinkInit == rxLinkState = "UP" /\ sinceReceived = 0 /\ sinceFailed = 0

ValidDataReceived ==
    /\ sinceReceived' = 0
    /\ rxLinkState' = IF sinceFailed > RxDataRecoveryPeriod THEN "UP" ELSE rxLinkState
    /\ UNCHANGED sinceFailed

ValidDataFailed ==
    /\ sinceFailed' = 0
    /\ rxLinkState' = IF sinceReceived > RxDataFailurePeriod THEN "DOWN" ELSE rxLinkState
    /\ UNCHANGED sinceReceived

(* failsafeOnRxResume(): the end of every EEPROM read or write.            *)
RxResumed ==
    /\ sinceReceived' = 0
    /\ rxLinkState' = "UP"
    /\ UNCHANGED sinceFailed

(* failsafeReset() zeroes both times; the resume that follows sets one.    *)
LinkReset ==
    /\ rxLinkState' = "UP" /\ sinceReceived' = 0
    /\ sinceFailed' = RxDataRecoveryPeriod + 1

LinkTick ==
    /\ sinceReceived' = Older(sinceReceived, RxDataFailurePeriod)
    /\ sinceFailed' = Older(sinceFailed, RxDataRecoveryPeriod)
    /\ UNCHANGED rxLinkState
=============================================================================
