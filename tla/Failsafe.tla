------------------------------ MODULE Failsafe ------------------------------
(***************************************************************************)
(* The failsafe subsystem (flight/failsafe.c): the RX link tracker and the *)
(* phase machine that failsafeUpdateState() drives once per RX task pass.  *)
(*                                                                         *)
(* failsafeUpdateState() is a do/while loop over a switch on the phase.    *)
(* One iteration of the loop is one action here, named for its case; the   *)
(* locals that the function computes once, before the loop, are the record *)
(* `pass'.  They keep the value they had when the pass began even when an  *)
(* iteration changes what they were computed from.  The firmware is a      *)
(* cooperative scheduler, so nothing interleaves with the iterations.      *)
(*                                                                         *)
(* The link tracker is in RxLink, with the way time is kept.               *)
(***************************************************************************)
EXTENDS RxLink

CONSTANTS
    Procedures,        \* values of failsafe_procedure the craft may be given
    ThrottleLowDelay,      \* failsafe_throttle_low_delay, 0 turns it off
    OffDelay,              \* failsafe_off_delay, 0 turns it off
    ShortQuarantine,       \* PERIOD_OF_3_SECONDS
    LongQuarantine,        \* PERIOD_OF_30_SECONDS
    ReloadWhileActive      \* may readEEPROM() run while failsafe is active?

Procedure == {"AUTO_LANDING", "DROP_IT", "RTH", "NONE"}

ASSUME FailsafeAssumption ==
    /\ Procedures \subseteq Procedure /\ Procedures # {}
    /\ ThrottleLowDelay \in Nat /\ OffDelay \in Nat
    /\ ShortQuarantine \in Nat /\ LongQuarantine \in Nat
    /\ ReloadWhileActive \in BOOLEAN

VARIABLES
    phase,              \* failsafeState.phase
    active,             \* failsafeState.active
    controlling,        \* failsafeState.controlling
    activeProcedure,    \* failsafeState.activeProcedure
    monitoring,         \* failsafeState.monitoring
    throttleLowIn,      \* ticks to throttleLowPeriod
    landingIn,          \* ticks to landingShouldBeFinishedAt
    rxPeriodIn,         \* ticks to receivingRxDataPeriod
    rxPeriodPreset,     \* receivingRxDataPeriodPreset
    failsafeMode,       \* FLIGHT_MODE(FAILSAFE_MODE)
    armed,              \* ARMING_FLAG(ARMED)
    locked,             \* ARMING_FLAG(ARMING_DISABLED_FAILSAFE_SYSTEM)
    forcedRTH,          \* posControl.flags.forcedRTHActivated
    navState,           \* posControl.navState, up to what failsafe.c can see
    pc,                 \* "tasks": the scheduler; "pass": in failsafeUpdateState
    pass                \* the locals of failsafeUpdateState

timers   == <<throttleLowIn, landingIn, rxPeriodIn>>
craft    == <<armed, locked, failsafeMode>>
navVars  == <<forcedRTH, navState>>
vars == <<phase, active, controlling, activeProcedure, monitoring, rxVars, timers,
          rxPeriodPreset, craft, navVars, pc, pass>>
-----------------------------------------------------------------------------
Phase == {"IDLE", "RX_LOSS_DETECTED", "RX_LOSS_IDLE", "RETURN_TO_HOME", "LANDING",
          "LANDED", "RX_LOSS_MONITORING", "RX_LOSS_RECOVERED"}

(* What failsafeUpdateState reads once, at its start (rxOk, armed, sticks)
   or during the pass from state no iteration changes (the rest).          *)
PassInputs == [rxOk : BOOLEAN, armed : BOOLEAN, sticks : BOOLEAN,
               throttleHigh : BOOLEAN, motorStop : BOOLEAN, boxArm : BOOLEAN]
NoPass == [rxOk |-> FALSE, armed |-> FALSE, sticks |-> FALSE,
           throttleHigh |-> FALSE, motorStop |-> FALSE, boxArm |-> FALSE]

NavState == {"IDLE", "WAYPOINT", "RTH", "RTH_LANDED", "OTHER"}

FlagsOK ==
    /\ active \in BOOLEAN /\ controlling \in BOOLEAN /\ monitoring \in BOOLEAN
    /\ armed \in BOOLEAN /\ locked \in BOOLEAN /\ failsafeMode \in BOOLEAN
    /\ forcedRTH \in BOOLEAN
StatesOK ==
    /\ phase \in Phase
    /\ activeProcedure \in Procedure
    /\ navState \in NavState
    /\ pc \in {"tasks", "pass"}
TimersOK ==
    /\ throttleLowIn \in Expired .. ThrottleLowDelay
    /\ landingIn \in Expired .. OffDelay
    /\ rxPeriodPreset \in {0, ShortQuarantine, LongQuarantine}
    /\ rxPeriodIn \in Int /\ rxPeriodIn >= Expired
TypeOK == LinkTypeOK /\ FlagsOK /\ StatesOK /\ TimersOK /\ pass \in PassInputs

(* fcInit(): readEEPROM() runs failsafeReset() and resumes the RX signal,
   which declares the link up; failsafeInit() follows.                     *)
Init ==
    /\ phase = "IDLE" /\ active = FALSE /\ controlling = FALSE
    /\ activeProcedure \in Procedures
    /\ monitoring = FALSE
    /\ LinkInit
    /\ throttleLowIn = Expired /\ landingIn = Expired /\ rxPeriodIn = Expired
    /\ rxPeriodPreset = 0
    /\ failsafeMode = FALSE /\ armed = FALSE /\ locked = FALSE
    /\ forcedRTH = FALSE /\ navState = "IDLE"
    /\ pc = "tasks" /\ pass = NoPass
-----------------------------------------------------------------------------
failsafeOnValidDataReceived ==
    /\ pc = "tasks" /\ ValidDataReceived
    /\ UNCHANGED <<phase, active, controlling, activeProcedure, monitoring, timers,
                   rxPeriodPreset, craft, navVars, pc, pass>>

failsafeOnValidDataFailed ==
    /\ pc = "tasks" /\ ValidDataFailed
    /\ UNCHANGED <<phase, active, controlling, activeProcedure, monitoring, timers,
                   rxPeriodPreset, craft, navVars, pc, pass>>

failsafeStartMonitoring ==
    /\ pc = "tasks" /\ ~monitoring /\ monitoring' = TRUE
    /\ UNCHANGED <<phase, active, controlling, activeProcedure, rxVars, timers,
                   rxPeriodPreset, craft, navVars, pc, pass>>
-----------------------------------------------------------------------------

(* failsafeUpdateState: the start of a pass.  rxOk is the local
   receivingRxDataAndNotFailsafeMode; boxFailsafe is the FAILSAFE switch.
   A pass that is not monitoring returns at once, so it is no pass.        *)
BeginPass ==
    /\ pc = "tasks" /\ monitoring
    /\ pc' = "pass"
    /\ \E boxFailsafe, sticks, throttleHigh, motorStop, boxArm \in BOOLEAN :
          pass' = [rxOk |-> rxLinkState = "UP" /\ ~boxFailsafe, armed |-> armed,
                   sticks |-> sticks, throttleHigh |-> throttleHigh,
                   motorStop |-> motorStop, boxArm |-> boxArm]
    /\ UNCHANGED <<phase, active, controlling, activeProcedure, monitoring, rxVars,
                   timers, rxPeriodPreset, craft, navVars>>

Reprocess == pc' = "pass" /\ UNCHANGED pass      \* reprocessState = true
EndPass   == pc' = "tasks" /\ pass' = NoPass     \* leave the do/while loop

(* A mutant: failsafe becomes active without taking the sticks.            *)
ActivateWithoutControl(newPhase) ==
    /\ active' = TRUE /\ failsafeMode' = TRUE /\ UNCHANGED controlling
    /\ phase' = newPhase
    /\ landingIn' = OffDelay

failsafeActivate(newPhase) ==
    /\ active' = TRUE /\ controlling' = TRUE /\ failsafeMode' = TRUE
    /\ phase' = newPhase
    /\ landingIn' = OffDelay

abortForcedRTH == forcedRTH' = FALSE /\ navState' = "IDLE"

(* activateForcedRTH() asks the navigation FSM for RTH; the FSM may refuse
   (a launch in progress keeps its state), and one that is already landing
   may have landed in the call.                                            *)
activateForcedRTH ==
    /\ forcedRTH' = TRUE
    /\ \/ navState' \in {"RTH", navState}
       \/ navState = "RTH" /\ navState' = "RTH_LANDED"

StateOfForcedRTH ==
    CASE forcedRTH /\ navState = "RTH"        -> "RTH_IN_PROGRESS"
      [] forcedRTH /\ navState = "RTH_LANDED" -> "RTH_HAS_LANDED"
      [] OTHER                                -> "RTH_IDLE"

(* case FAILSAFE_IDLE, armed                                               *)
throttleLowNext == IF pass.throttleHigh THEN ThrottleLowDelay ELSE throttleLowIn
JustDisarm == \/ ThrottleLowDelay # 0 /\ HasPassed(throttleLowNext)
              \/ pass.motorStop

IdleWatching ==
    /\ pc = "pass" /\ phase = "IDLE" /\ pass.armed /\ pass.rxOk
    /\ throttleLowIn' = throttleLowNext
    /\ EndPass
    /\ UNCHANGED <<phase, active, controlling, activeProcedure, monitoring, rxVars,
                   landingIn, rxPeriodIn, rxPeriodPreset, craft, navVars>>

IdleJustDisarm ==
    /\ pc = "pass" /\ phase = "IDLE" /\ pass.armed /\ ~pass.rxOk /\ JustDisarm
    /\ throttleLowIn' = throttleLowNext
    /\ activeProcedure' = "DROP_IT"
    /\ failsafeActivate("LANDED")
    /\ rxPeriodPreset' = ShortQuarantine
    /\ Reprocess
    /\ UNCHANGED <<monitoring, rxVars, rxPeriodIn, armed, locked, navVars>>

IdleLossDetected ==
    /\ pc = "pass" /\ phase = "IDLE" /\ pass.armed /\ ~pass.rxOk /\ ~JustDisarm
    /\ throttleLowIn' = throttleLowNext
    /\ phase' = "RX_LOSS_DETECTED"
    /\ Reprocess
    /\ UNCHANGED <<active, controlling, activeProcedure, monitoring, rxVars,
                   landingIn, rxPeriodIn, rxPeriodPreset, craft, navVars>>

(* case FAILSAFE_IDLE, disarmed: the flight mode only mirrors the link.    *)
IdleDisarmed ==
    /\ pc = "pass" /\ phase = "IDLE" /\ ~pass.armed
    /\ failsafeMode' = ~pass.rxOk
    /\ throttleLowIn' = Expired
    /\ EndPass
    /\ UNCHANGED <<phase, active, controlling, activeProcedure, monitoring, rxVars,
                   landingIn, rxPeriodIn, rxPeriodPreset, armed, locked, navVars>>
-----------------------------------------------------------------------------
(* case FAILSAFE_RX_LOSS_DETECTED                                          *)

(* failsafeChooseFailsafeProcedure(): failsafe_mission off suppresses the
   procedure during a mission; otherwise the configured one or, near home,
   failsafe_min_distance_procedure: any procedure the craft is given.      *)
ChosenProcedures == Procedures \cup (IF navState = "WAYPOINT" THEN {"NONE"} ELSE {})

StartProcedure(procedure) ==
    /\ activeProcedure' = procedure
    /\ \/ /\ procedure = "AUTO_LANDING"
          /\ failsafeActivate("LANDING")
          /\ UNCHANGED <<rxPeriodPreset, navVars>>
       \/ /\ procedure = "DROP_IT"
          /\ failsafeActivate("LANDED")
          /\ rxPeriodPreset' = ShortQuarantine
          /\ UNCHANGED navVars
       \/ /\ procedure = "RTH"
          /\ failsafeActivate("RETURN_TO_HOME") /\ activateForcedRTH
          /\ UNCHANGED rxPeriodPreset
       \/ /\ procedure = "NONE"
          /\ failsafeActivate("RX_LOSS_IDLE")
          /\ UNCHANGED <<rxPeriodPreset, navVars>>

LossDetected ==
    /\ pc = "pass" /\ phase = "RX_LOSS_DETECTED"
    /\ IF pass.rxOk
       THEN /\ phase' = "RX_LOSS_RECOVERED"
            /\ UNCHANGED <<active, controlling, activeProcedure, landingIn,
                           rxPeriodPreset, failsafeMode, navVars>>
       ELSE \E procedure \in ChosenProcedures : StartProcedure(procedure)
    /\ Reprocess
    /\ UNCHANGED <<monitoring, rxVars, throttleLowIn, rxPeriodIn, armed, locked>>
-----------------------------------------------------------------------------
(* cases FAILSAFE_RX_LOSS_IDLE, RETURN_TO_HOME and LANDING                 *)

PilotIsBack == pass.rxOk /\ pass.sticks

LossIdleRecovers ==
    /\ pc = "pass" /\ phase = "RX_LOSS_IDLE" /\ PilotIsBack
    /\ phase' = "RX_LOSS_RECOVERED"
    /\ Reprocess
    /\ UNCHANGED <<active, controlling, activeProcedure, monitoring, rxVars, timers,
                   rxPeriodPreset, craft, navVars>>

(* A mutant: the forced RTH is not aborted.                                *)
ReturnHomeKeepsRTH ==
    /\ pc = "pass" /\ phase = "RETURN_TO_HOME" /\ PilotIsBack
    /\ phase' = "RX_LOSS_RECOVERED"
    /\ Reprocess
    /\ UNCHANGED <<active, controlling, activeProcedure, monitoring, rxVars, timers,
                   rxPeriodPreset, craft, navVars>>

ReturnHomeRecovers ==
    /\ pc = "pass" /\ phase = "RETURN_TO_HOME" /\ PilotIsBack
    /\ abortForcedRTH
    /\ phase' = "RX_LOSS_RECOVERED"
    /\ Reprocess
    /\ UNCHANGED <<active, controlling, activeProcedure, monitoring, rxVars, timers,
                   rxPeriodPreset, craft>>

ReturnHomeLanded ==
    /\ pc = "pass" /\ phase = "RETURN_TO_HOME" /\ ~PilotIsBack
    /\ \/ StateOfForcedRTH = "RTH_HAS_LANDED"
       \/ StateOfForcedRTH = "RTH_IN_PROGRESS" /\ ~pass.armed
    /\ rxPeriodPreset' = LongQuarantine
    /\ phase' = "LANDED"
    /\ Reprocess
    /\ UNCHANGED <<active, controlling, activeProcedure, monitoring, rxVars, timers,
                   craft, navVars>>

(* RTH was aborted behind the back of failsafe: fall back to LANDING, and
   when disarmed go straight on to LANDED.                                 *)
ReturnHomeLost ==
    /\ pc = "pass" /\ phase = "RETURN_TO_HOME" /\ ~PilotIsBack
    /\ StateOfForcedRTH = "RTH_IDLE"
    /\ abortForcedRTH
    /\ activeProcedure' = "AUTO_LANDING"
    /\ failsafeActivate(IF pass.armed THEN "LANDING" ELSE "LANDED")
    /\ rxPeriodPreset' = IF pass.armed THEN rxPeriodPreset ELSE LongQuarantine
    /\ Reprocess
    /\ UNCHANGED <<monitoring, rxVars, throttleLowIn, rxPeriodIn, armed, locked>>

LandingIsOver == (OffDelay # 0 /\ HasPassed(landingIn)) \/ ~pass.armed

(* The time-out is tested after the recovery and overwrites the phase.     *)
LandingOver ==
    /\ pc = "pass" /\ phase = "LANDING" /\ LandingIsOver
    /\ rxPeriodPreset' = LongQuarantine
    /\ phase' = "LANDED"
    /\ Reprocess
    /\ UNCHANGED <<active, controlling, activeProcedure, monitoring, rxVars, timers,
                   craft, navVars>>

LandingRecovers ==
    /\ pc = "pass" /\ phase = "LANDING" /\ ~LandingIsOver /\ PilotIsBack
    /\ phase' = "RX_LOSS_RECOVERED"
    /\ Reprocess
    /\ UNCHANGED <<active, controlling, activeProcedure, monitoring, rxVars, timers,
                   rxPeriodPreset, craft, navVars>>

(* A mutant: reprocessState is left set when the procedure goes on.        *)
ProcedureReprocessed ==
    /\ pc = "pass" /\ ~PilotIsBack
    /\ \/ phase = "RX_LOSS_IDLE"
       \/ phase = "RETURN_TO_HOME" /\ pass.armed /\ StateOfForcedRTH = "RTH_IN_PROGRESS"
       \/ phase = "LANDING" /\ ~LandingIsOver
    /\ Reprocess
    /\ UNCHANGED <<phase, active, controlling, activeProcedure, monitoring, rxVars,
                   timers, rxPeriodPreset, craft, navVars>>

(* The procedure goes on: no case changes anything.                        *)
ProcedureContinues ==
    /\ pc = "pass" /\ ~PilotIsBack
    /\ \/ phase = "RX_LOSS_IDLE"
       \/ phase = "RETURN_TO_HOME" /\ pass.armed /\ StateOfForcedRTH = "RTH_IN_PROGRESS"
       \/ phase = "LANDING" /\ ~LandingIsOver
    /\ EndPass
    /\ UNCHANGED <<phase, active, controlling, activeProcedure, monitoring, rxVars,
                   timers, rxPeriodPreset, craft, navVars>>
-----------------------------------------------------------------------------
(* cases FAILSAFE_LANDED, RX_LOSS_MONITORING and RX_LOSS_RECOVERED         *)

(* disarm(): when the craft was armed statsOnDisarm() may write the EEPROM,
   which suspends and resumes the RX signal.                               *)
Disarm ==
    /\ armed' = FALSE
    /\ UNCHANGED rxVars \/ (armed /\ RxResumed)

(* Two mutants: the sticks are not handed back; the craft is not disarmed. *)
LandedInControl ==
    /\ pc = "pass" /\ phase = "LANDED"
    /\ locked' = TRUE /\ Disarm
    /\ rxPeriodIn' = rxPeriodPreset
    /\ phase' = "RX_LOSS_MONITORING"
    /\ Reprocess
    /\ UNCHANGED <<active, controlling, activeProcedure, monitoring, throttleLowIn,
                   landingIn, rxPeriodPreset, failsafeMode, navVars>>
LandedStillArmed ==
    /\ pc = "pass" /\ phase = "LANDED"
    /\ locked' = TRUE
    /\ rxPeriodIn' = rxPeriodPreset
    /\ phase' = "RX_LOSS_MONITORING" /\ controlling' = FALSE
    /\ Reprocess
    /\ UNCHANGED <<active, armed, activeProcedure, monitoring, throttleLowIn, rxVars,
                   landingIn, rxPeriodPreset, failsafeMode, navVars>>

Landed ==
    /\ pc = "pass" /\ phase = "LANDED"
    /\ locked' = TRUE
    /\ Disarm
    /\ rxPeriodIn' = rxPeriodPreset
    /\ phase' = "RX_LOSS_MONITORING"
    /\ controlling' = FALSE
    /\ Reprocess
    /\ UNCHANGED <<active, activeProcedure, monitoring, throttleLowIn, landingIn,
                   rxPeriodPreset, failsafeMode, navVars>>

MonitoringUnlocks ==
    /\ pc = "pass" /\ phase = "RX_LOSS_MONITORING"
    /\ pass.rxOk /\ HasPassed(rxPeriodIn) /\ ~pass.boxArm
    /\ locked' = FALSE
    /\ phase' = "RX_LOSS_RECOVERED"
    /\ Reprocess
    /\ UNCHANGED <<active, controlling, activeProcedure, monitoring, rxVars, timers,
                   rxPeriodPreset, armed, failsafeMode, navVars>>

(* Two mutants: the quarantine runs on while the link is lost; it starts
   again on every pass.                                                    *)
QuarantineRunsOn ==
    /\ pc = "pass" /\ phase = "RX_LOSS_MONITORING"
    /\ pass.rxOk => ~HasPassed(rxPeriodIn) \/ pass.boxArm
    /\ EndPass
    /\ UNCHANGED <<phase, active, controlling, activeProcedure, monitoring, rxVars,
                   timers, rxPeriodPreset, craft, navVars>>
QuarantineRestarts ==
    /\ pc = "pass" /\ phase = "RX_LOSS_MONITORING"
    /\ pass.rxOk => ~HasPassed(rxPeriodIn) \/ pass.boxArm
    /\ rxPeriodIn' = rxPeriodPreset
    /\ EndPass
    /\ UNCHANGED <<phase, active, controlling, activeProcedure, monitoring, rxVars,
                   throttleLowIn, landingIn, rxPeriodPreset, craft, navVars>>

MonitoringWaits ==
    /\ pc = "pass" /\ phase = "RX_LOSS_MONITORING"
    /\ pass.rxOk => ~HasPassed(rxPeriodIn) \/ pass.boxArm
    /\ rxPeriodIn' = IF pass.rxOk THEN rxPeriodIn ELSE rxPeriodPreset
    /\ EndPass
    /\ UNCHANGED <<phase, active, controlling, activeProcedure, monitoring, rxVars,
                   throttleLowIn, landingIn, rxPeriodPreset, craft, navVars>>

Recovered ==
    /\ pc = "pass" /\ phase = "RX_LOSS_RECOVERED"
    /\ throttleLowIn' = ThrottleLowDelay
    /\ phase' = "IDLE"
    /\ active' = FALSE /\ controlling' = FALSE /\ failsafeMode' = FALSE
    /\ Reprocess
    /\ UNCHANGED <<activeProcedure, monitoring, rxVars, landingIn, rxPeriodIn,
                   rxPeriodPreset, armed, locked, navVars>>

Iterate ==
    \/ IdleWatching \/ IdleJustDisarm \/ IdleLossDetected \/ IdleDisarmed
    \/ LossDetected \/ LossIdleRecovers
    \/ ReturnHomeRecovers \/ ReturnHomeLanded \/ ReturnHomeLost
    \/ LandingOver \/ LandingRecovers
    \/ ProcedureContinues
    \/ Landed \/ MonitoringUnlocks \/ MonitoringWaits \/ Recovered
-----------------------------------------------------------------------------
(* What the rest of the firmware does to this state between two passes.    *)

Elsewhere == pc = "tasks" /\ UNCHANGED <<pc, pass, monitoring, activeProcedure>>

(* tryArm(): the lock is one of the flags that isArmingDisabled() tests.   *)
Arm ==
    /\ Elsewhere /\ ~armed /\ ~locked
    /\ armed' = TRUE
    /\ UNCHANGED <<phase, active, controlling, rxVars, timers, rxPeriodPreset, locked,
                   failsafeMode, navVars>>

(* disarm() by a switch, the kill switch or the navigation.                *)
DisarmElsewhere ==
    /\ Elsewhere /\ armed /\ Disarm
    /\ UNCHANGED <<phase, active, controlling, timers, rxPeriodPreset, locked,
                   failsafeMode, navVars>>

(* The PID loop: the navigation runs while armed and drops the forced RTH
   when disarmed.                                                          *)
Navigate ==
    /\ Elsewhere
    /\ IF armed
       THEN navState' \in NavState /\ UNCHANGED forcedRTH
       ELSE navState' = "IDLE" /\ forcedRTH' = FALSE
    /\ UNCHANGED <<phase, active, controlling, rxVars, timers, rxPeriodPreset, craft>>

(* readEEPROM() after a configuration was saved: failsafeReset(), then the
   RX signal is resumed.  Its callers require a disarmed craft.            *)
failsafeReset ==
    /\ pc = "tasks" /\ ~armed /\ (active => ReloadWhileActive)
    /\ phase' = "IDLE"
    /\ LinkReset
    /\ throttleLowIn' = Expired /\ landingIn' = Expired /\ rxPeriodIn' = Expired
    /\ rxPeriodPreset' = 0
    /\ activeProcedure' \in Procedures
    /\ UNCHANGED <<active, controlling, monitoring, craft, navVars, pc, pass>>

(* writeEEPROM() alone: statistics, automatic saves of sensor set-up.      *)
EepromWrite ==
    /\ Elsewhere /\ RxResumed
    /\ UNCHANGED <<phase, active, controlling, timers, rxPeriodPreset, craft, navVars>>

Tick ==
    /\ Elsewhere
    /\ throttleLowIn' = Countdown(throttleLowIn)
    /\ landingIn' = Countdown(landingIn)
    /\ rxPeriodIn' = Countdown(rxPeriodIn)
    /\ LinkTick
    /\ UNCHANGED <<phase, active, controlling, rxPeriodPreset, craft, navVars>>

RxData == failsafeOnValidDataReceived \/ failsafeOnValidDataFailed

Next ==
    \/ RxData \/ failsafeStartMonitoring \/ BeginPass \/ Iterate
    \/ Arm \/ DisarmElsewhere \/ Navigate \/ failsafeReset \/ EepromWrite \/ Tick

Spec == Init /\ [][Next]_vars

(* The scheduler runs every task again and again, the RX task finishes each
   pass it begins, and the clock ticks however busy the tasks are.         *)
Fairness == WF_vars(Iterate) /\ WF_vars(BeginPass) /\ SF_vars(Tick)
                /\ WF_vars(failsafeStartMonitoring)
FairSpec == Spec /\ Fairness
-----------------------------------------------------------------------------
(* The phase, the three flags other modules read (failsafeIsActive(),
   failsafeShouldApplyControlInput(), FLIGHT_MODE(FAILSAFE_MODE)) and the
   arming lock tell one story: who has the sticks, and why arming is off.  *)
PhaseConsistent ==
    /\ active <=> phase \notin {"IDLE", "RX_LOSS_DETECTED"}
    /\ controlling => active
    /\ phase \in {"RX_LOSS_IDLE", "RETURN_TO_HOME", "LANDING", "LANDED"} => controlling
    /\ locked <=> phase = "RX_LOSS_MONITORING"
    /\ locked => ~controlling /\ ~armed
    /\ active => failsafeMode

(* A pass that sees the link gone while the craft flies never ends with the
   pilot's dead sticks in charge: either failsafe controls or it disarmed. *)
LossIsAnswered ==
    [][pc = "pass" /\ pc' = "tasks" /\ ~pass.rxOk /\ armed' => controlling']_vars

(* Failsafe gives up only on a pass that saw a good link.                  *)
ReleaseNeedsLink ==
    [][active /\ ~active' => pass.rxOk /\ rxLinkState = "UP"]_vars

(* The do/while loop of failsafeUpdateState() terminates.                  *)
PassTerminates == (pc = "pass") ~> (pc = "tasks")

(* Once the pilot has a good link, moves the sticks and has the arm switch
   off for good, failsafe always ends and the arming lock goes.            *)
PilotStaysBack ==
    <>[](pc = "pass" => PilotIsBack /\ ~pass.boxArm)
FailsafeEnds == PilotStaysBack => []<>(~active /\ ~locked)

(* Who has the sticks, as failsafeShouldApplyControlInput() and the arming
   lock tell the rest of the firmware.                                     *)
Owner == IF locked THEN "LOCKED" ELSE IF controlling THEN "FAILSAFE" ELSE "PILOT"

(* What the whole of failsafe.c implements: the contract of RcAuthority.   *)
Authority ==
    INSTANCE RcAuthority WITH
        authority <- Owner,
        motors    <- armed,
        link      <- rxLinkState
AuthoritySpec == Authority!Spec

(* The strengthening that makes PhaseConsistent inductive.                 *)
PassConsistent ==
    /\ phase \in {"RX_LOSS_DETECTED", "LANDED", "RX_LOSS_RECOVERED"} => pc = "pass"
    /\ phase = "RX_LOSS_DETECTED" => ~pass.rxOk
    /\ phase = "RX_LOSS_RECOVERED" => pass.rxOk
    /\ pc = "pass" /\ pass.rxOk => rxLinkState = "UP"
    /\ pc = "pass" /\ armed => pass.armed
    /\ pc = "pass" /\ ~pass.rxOk /\ phase \in {"IDLE", "RX_LOSS_DETECTED"}
          => armed = pass.armed
    /\ phase = "RX_LOSS_DETECTED" => pass.armed
IInv == TypeOK /\ PhaseConsistent /\ PassConsistent
=============================================================================
