----------------------------- MODULE FlightCore -----------------------------
(***************************************************************************)
(* The RX task and the PID loop of fc_core.c around the failsafe: what a   *)
(* receiver sample does, how the craft arms and disarms, and what the      *)
(* failsafe sees of it.                                                    *)
(*                                                                         *)
(* The state of Failsafe is shared; what this module adds is the state of  *)
(* rx.c, rc_modes.c, rc_controls.c and the arming flags.  One processRx()  *)
(* is a sequence of steps driven by `task':                                *)
(*   scheduler -> switch3D -> monitor -> failsafe -> sticks -> kill        *)
(*             -> modes -> scheduler                                       *)
(* The tasks are cooperative, so the steps of one processRx() follow each  *)
(* other; between two of them the PID loop, saves and the clock interleave.*)
(***************************************************************************)
EXTENDS Failsafe

CONSTANTS
    Setups,             \* the crafts: [boxes : the boxes that have a mode activation
                        \*   condition, options : the configuration options that are on,
                        \*   faults : sensor checks of updateArmingStatus() that may fail]
    SwitchDisarmDelay,  \* switchDisarmDelayMs
    PrearmTimeout,      \* prearmTimeoutMs, 0 turns it off
    Histories           \* the history variables that the properties of a run need

Box == {"ARM", "FAILSAFE", "KILL", "PREARM", "NAV", "LAUNCH", "TURTLE"}
Option == {"AUTO_ARM",              \* airplane, MOTOR_STOP, fixed_wing_auto_arm
           "REVERSIBLE",            \* FEATURE_REVERSIBLE_MOTORS
           "DISARM_KILL_SWITCH",    \* disarm_kill_switch
           "EXTRA_ARMING_SAFETY",   \* nav_extra_arming_safety is not OFF
           "ALLOW_BYPASS",          \* and holding yaw high bypasses it
           "EMERGENCY",             \* the pilot may ask for emergency arming
           "OVERRIDE",              \* a logic condition overrides arming safety
           "BAD_PULSES",            \* frames may carry invalid flight channels
           "STATS",                 \* stats_enabled: disarming writes the EEPROM
           "SAVES"}                 \* configuration saves happen
SensorFault == {"NOT_LEVEL", "CALIBRATING", "NO_FIX"}
History == {"SILENCE", "SWITCHES", "REFUSALS", "FRAMES", "QUARANTINE"}

ASSUME FlightAssumption ==
    /\ Setups \subseteq [boxes : SUBSET Box, options : SUBSET Option, faults : SUBSET SensorFault]
    /\ Histories \subseteq History
    /\ SwitchDisarmDelay \in Nat /\ PrearmTimeout \in Nat

VARIABLES
    setup,              \* the craft that flies
    chanBoxes,          \* boxes whose range holds the value in rcChannels[].data
    throttleHigh,       \* rcChannels[THROTTLE].data is above min_check
    sticksMoving,       \* failsafeCheckStickMotion() of rcChannels[].data
    modes,              \* rcModeActivationMask
    rxSignalReceived,
    skipRxSamples,
    blockers,           \* the ARMING_DISABLED flags but FAILSAFE_SYSTEM
    rcDisarmAge,        \* age of rcDisarmTimeMs
    prearmWasReset,
    prearmAge,          \* age of prearmActivationTime
    bypassed,           \* STATE(NAV_EXTRA_ARMING_SAFETY_BYPASSED)
    lastDisarmReason,
    task,               \* what the CPU is doing
    ran,                \* tasks that ran in this tick
    silentFor,          \* history: ticks since the last valid sample
    seenOff,            \* history: the switches seen off since the last disarm
    refused,            \* history: arming was refused since BOXARM came on
    prearmOnFor,        \* history: ticks since PREARM was off
    linkGoodFor,        \* history: ticks of the lock since a pass saw no link
    offFrames,          \* history: OFF frames since modes had ARM, up to 2
    offAge              \* history: ticks since the one of them, if it is one

rcData   == <<chanBoxes, throttleHigh, sticksMoving>>
rxState  == <<rxSignalReceived, skipRxSamples>>
armState == <<blockers, rcDisarmAge, prearmWasReset, prearmAge, bypassed,
              lastDisarmReason>>
ages     == <<silentFor, prearmOnFor, linkGoodFor, offFrames, offAge>>
history  == <<seenOff, refused, ages>>
flightVars == <<vars, setup, rcData, modes, rxState, armState, task, ran, history>>

Boxes == setup.boxes
On(option) == option \in setup.options
-----------------------------------------------------------------------------
Reason == {"NONE", "SWITCH", "SWITCH_3D", "KILLSWITCH", "FAILSAFE", "NAVIGATION"}
Blocker == {"RC_LINK", "THROTTLE", "ROLLPITCH", "NAV_UNSAFE", "BOXFAILSAFE",
            "BOXKILLSWITCH", "NO_PREARM", "ARM_SWITCH", "NOT_LEVEL", "CALIBRATING"}

(* ARMING_DISABLED_EMERGENCY_OVERRIDE                                      *)
EmergencyOverride == {"NOT_LEVEL", "NAV_UNSAFE", "ARM_SWITCH"}

(* What the histories follow, nothing where no property asks for it.       *)
Follows(h) == h \in Histories
SilenceCap == IF Follows("SILENCE") THEN RxDataFailurePeriod + 2 ELSE 0
FrameCap   == IF Follows("FRAMES") THEN 2 ELSE 0
Quarantine == IF activeProcedure = "DROP_IT" THEN ShortQuarantine ELSE LongQuarantine
Switch     == IF Follows("SWITCHES") THEN {"ARM", "PREARM"} ELSE {}

FlightTypeOK ==
    /\ setup \in Setups
    /\ chanBoxes \subseteq Boxes /\ modes \subseteq Boxes
    /\ {throttleHigh, sticksMoving, rxSignalReceived, prearmWasReset, bypassed, refused}
          \subseteq BOOLEAN
    /\ skipRxSamples \in 0 .. 2
    /\ blockers \subseteq Blocker
    /\ rcDisarmAge \in 0 .. SwitchDisarmDelay + 1
    /\ prearmAge \in 0 .. PrearmTimeout + 1
    /\ lastDisarmReason \in Reason
    /\ task \in {"scheduler", "switch3D", "monitor", "failsafe", "sticks", "kill", "modes"}
    /\ ran \subseteq {"RX", "PID"}
    /\ silentFor \in 0 .. SilenceCap /\ seenOff \subseteq Switch
    /\ offFrames \in 0 .. FrameCap /\ offAge \in 0 .. SwitchDisarmDelay + 1
    /\ prearmOnFor \in 0 .. PrearmTimeout + 1 /\ linkGoodFor \in Nat

(* rxInit() sets the ARM channel to its OFF value and the throttle low; the
   other channels are at mid-stick.                                        *)
FlightInit ==
    /\ Init
    /\ setup \in Setups
    /\ chanBoxes \in SUBSET (Boxes \ {"ARM"}) /\ throttleHigh = FALSE /\ sticksMoving = FALSE
    /\ modes = {}
    /\ rxSignalReceived = FALSE /\ skipRxSamples = 2
    /\ blockers = {} /\ rcDisarmAge = SwitchDisarmDelay + 1
    /\ prearmWasReset = FALSE /\ prearmAge = 0 /\ bypassed = FALSE
    /\ lastDisarmReason = "NONE"
    /\ task = "scheduler" /\ ran = {}
    /\ silentFor = 0 /\ seenOff = Switch /\ refused = FALSE
    /\ prearmOnFor = 0 /\ linkGoodFor = 0 /\ offFrames = 0 /\ offAge = 0
-----------------------------------------------------------------------------
(* calculateRxChannelsAndUpdateFailsafe(), the start of processRx().       *)

StartRx ==
    /\ task = "scheduler" /\ pc = "tasks"
    /\ task' = IF On("REVERSIBLE") THEN "switch3D" ELSE "monitor"
    /\ UNCHANGED <<phase, active, controlling, activeProcedure, monitoring, timers,
                   rxPeriodPreset, craft, navVars, pc, pass, setup, modes, armState, seenOff,
                   refused>>

(* The pass was asked for by the auxiliary or override processing only.    *)
SampleNone ==
    /\ StartRx
    /\ rxSignalReceived' \in {rxSignalReceived, FALSE}
    /\ UNCHANGED <<rxVars, rcData, skipRxSamples, ran, ages>>

(* Two mutants: the counter is not tested; a skipped sample drops the link. *)
SampleSkippedWraps ==
    /\ StartRx
    /\ skipRxSamples' = skipRxSamples - 1
    /\ rxSignalReceived' \in BOOLEAN
    /\ UNCHANGED <<rxVars, rcData, ran, ages>>
SampleSkippedDropsLink ==
    /\ StartRx
    /\ skipRxSamples > 0 /\ skipRxSamples' = skipRxSamples - 1
    /\ rxSignalReceived' \in BOOLEAN
    /\ rxLinkState' = "DOWN"
    /\ UNCHANGED <<sinceReceived, sinceFailed, rcData, ran, ages>>

SampleSkipped ==
    /\ StartRx
    /\ skipRxSamples > 0 /\ skipRxSamples' = skipRxSamples - 1
    /\ rxSignalReceived' \in BOOLEAN
    /\ UNCHANGED <<rxVars, rcData, ran, ages>>

(* The sample may show a new frame, or the same one again as long as the
   signal is believed, or a held value where the pulse is not valid: only a
   new frame takes the arming switch off.                                  *)
SwitchSeenOff ==
    /\ offFrames' = IF offFrames < FrameCap THEN offFrames + 1 ELSE FrameCap
    /\ offAge' = 0
SampleValid ==
    /\ StartRx
    /\ skipRxSamples = 0
    /\ rxSignalReceived' = TRUE
    /\ chanBoxes' \in SUBSET Boxes
    /\ throttleHigh' \in BOOLEAN /\ sticksMoving' \in BOOLEAN
    /\ ValidDataReceived
    /\ ran' = ran \cup {"RX"}
    /\ silentFor' = 0
    /\ \/ "ARM" \notin chanBoxes' /\ SwitchSeenOff
       \/ /\ "ARM" \in chanBoxes => "ARM" \in chanBoxes'
          /\ UNCHANGED <<offFrames, offAge>>
    /\ UNCHANGED <<skipRxSamples, prearmOnFor, linkGoodFor>>

(* A mutant: failsafeOnValidDataFailed() is not called.                    *)
SampleInvalidIgnored ==
    /\ StartRx
    /\ skipRxSamples = 0
    /\ rxSignalReceived' \in IF On("BAD_PULSES") THEN BOOLEAN ELSE {FALSE}
    /\ ran' = ran \cup {"RX"}
    /\ UNCHANGED <<rxVars, rcData, skipRxSamples, ages>>

(* No signal, or invalid pulses on a flight channel: the data is held.     *)
SampleInvalid ==
    /\ StartRx
    /\ skipRxSamples = 0
    /\ rxSignalReceived' \in IF On("BAD_PULSES") THEN BOOLEAN ELSE {FALSE}
    /\ ValidDataFailed
    /\ ran' = ran \cup {"RX"}
    /\ UNCHANGED <<rcData, skipRxSamples, ages>>
-----------------------------------------------------------------------------
(* disarm().  Writing the statistics suspends and resumes the RX signal,
   which then skips two samples.                                           *)
StatsWritten == rxLinkState' = "UP" /\ sinceReceived' = 0
PrearmNotReset(reason) ==                  \* a mutant: prearm stays valid
    /\ lastDisarmReason' = reason
    /\ seenOff' = Switch \ modes
    /\ UNCHANGED <<prearmWasReset, refused>>
    /\ \/ UNCHANGED <<skipRxSamples, rxVars>>
       \/ On("STATS") /\ skipRxSamples' = 2 /\ StatsWritten
StatsAlwaysWritten(reason) ==              \* a mutant: stats_enabled not tested
    /\ lastDisarmReason' = reason
    /\ prearmWasReset' = FALSE
    /\ seenOff' = Switch \ modes
    /\ UNCHANGED refused
    /\ skipRxSamples' = 2 /\ StatsWritten
Disarmed(reason) ==
    /\ lastDisarmReason' = reason
    /\ prearmWasReset' = FALSE
    /\ seenOff' = Switch \ modes
    /\ UNCHANGED refused
    /\ \/ UNCHANGED <<skipRxSamples, rxVars>>
       \/ On("STATS") /\ skipRxSamples' = 2 /\ StatsWritten

DisarmBy(reason) ==
    /\ DisarmElsewhere /\ Disarmed(reason)
    /\ UNCHANGED <<setup, rcData, modes, rxSignalReceived, blockers, rcDisarmAge, prearmAge,
                   bypassed, ran, ages>>

Keep == UNCHANGED <<vars, setup, rcData, modes, rxState, ran, history>>

(* In 3D mode the craft can be disarmed by switch at any time.             *)
Switch3D ==
    /\ task = "switch3D" /\ task' = "monitor"
    /\ IF "ARM" \notin modes /\ armed THEN DisarmBy("SWITCH_3D")
       ELSE Keep /\ UNCHANGED armState

(* Monitoring starts when FAILSAFE_POWER_ON_DELAY_US has passed.           *)
StartMonitoring ==
    /\ task = "monitor" /\ failsafeStartMonitoring
    /\ UNCHANGED <<setup, rcData, modes, rxState, armState, task, ran, history>>

NotMonitoring ==
    /\ task = "monitor" /\ ~monitoring /\ task' = "sticks"
    /\ Keep /\ UNCHANGED armState

(* failsafeUpdateState() reads the channels of this pass but the modes of
   the pass before: updateActivatedModes() comes later in processRx().     *)
FailsafePass ==
    /\ task = "monitor" /\ task' = "failsafe"
    /\ BeginPass
    /\ pass'.rxOk = (rxLinkState = "UP" /\ "FAILSAFE" \notin modes)
    /\ pass'.sticks = sticksMoving /\ pass'.throttleHigh = throttleHigh
    /\ pass'.boxArm = ("ARM" \in modes)
    /\ pass'.motorStop => navState # "IDLE"
    /\ UNCHANGED <<setup, rcData, modes, rxState, armState, ran, history>>

FailsafeIterate ==
    /\ task = "failsafe"
    /\ Iterate
    /\ task' = IF pc' = "tasks" THEN "sticks" ELSE "failsafe"
    /\ IF armed /\ ~armed'
       THEN Disarmed("FAILSAFE")
       ELSE UNCHANGED <<lastDisarmReason, prearmWasReset, seenOff, refused, skipRxSamples>>
    /\ linkGoodFor' = IF locked /\ pass.rxOk THEN linkGoodFor ELSE 0
    /\ UNCHANGED <<setup, rcData, modes, rxSignalReceived, blockers, rcDisarmAge, prearmAge,
                   bypassed, ran, silentFor, prearmOnFor, offFrames, offAge>>
-----------------------------------------------------------------------------
(* What updateArmingStatus() looks at besides the state: the sensor checks
   that fail, isRollPitchStickDeflected() and checkStickPosition(YAW_HI).   *)
Readings ==
    [faults    : SUBSET setup.faults,
     deflected : IF "LAUNCH" \in modes THEN BOOLEAN ELSE {FALSE},
     yawHigh   : IF On("ALLOW_BYPASS") THEN BOOLEAN ELSE {FALSE}]

(* navigationIsBlockingArming(): without a fix the pilot may bypass it.  A
   bypass also skips the check of the navigation switches.                 *)
UsesBypass(r) ==
    /\ On("EXTRA_ARMING_SAFETY") /\ "NO_FIX" \in r.faults
    /\ On("ALLOW_BYPASS") /\ (bypassed \/ r.yawHigh)
navigationIsBlockingArming(r) ==
    /\ On("EXTRA_ARMING_SAFETY") /\ ~UsesBypass(r)
    /\ "NO_FIX" \in r.faults \/ ("NAV" \in modes /\ "LAUNCH" \notin modes)

PrearmIsValid == prearmWasReset /\ (PrearmTimeout = 0 \/ prearmAge < PrearmTimeout)

(* Every check sets or clears its flag; the one for the sticks of a launch
   only runs while NAV LAUNCH is selected, and otherwise leaves the flag.  *)
Checks(r) ==
    LET fails ==
          [RC_LINK       |-> rxLinkState = "DOWN",
           THROTTLE      |-> throttleHigh /\ ~On("AUTO_ARM"),
           ROLLPITCH     |-> IF "LAUNCH" \in modes THEN r.deflected
                             ELSE "ROLLPITCH" \in blockers,
           NAV_UNSAFE    |-> navigationIsBlockingArming(r),
           BOXFAILSAFE   |-> "FAILSAFE" \in modes,
           BOXKILLSWITCH |-> "KILL" \in modes,
           NO_PREARM     |-> "PREARM" \in Boxes /\ ~("PREARM" \in modes /\ PrearmIsValid)]
    IN (r.faults \ {"NO_FIX"}) \cup {b \in DOMAIN fails : fails[b]}

(* A mutant: the switch is held against the pilot only while something else
   blocks arming.                                                          *)
SwitchNotSticky(r) ==
    LET found == Checks(r)
    IN IF "ARM" \in modes /\ (found # {} \/ locked)
       THEN found \cup {"ARM_SWITCH"} ELSE found

(* The arming switch is the last check: on while anything blocks arming, it
   has to be seen off before the craft may arm.                            *)
ArmingBlockers(r) ==
    LET found == Checks(r)
    IN IF "ARM" \in modes /\ (found # {} \/ locked \/ "ARM_SWITCH" \in blockers)
       THEN found \cup {"ARM_SWITCH"} ELSE found

RefusesSwitch == Follows("REFUSALS") /\ "ARM" \in modes /\ (locked \/ blockers' # {})
updateArmingStatus(r) ==
    IF armed THEN UNCHANGED <<blockers, prearmWasReset, prearmAge, refused>>
    ELSE /\ blockers' = ArmingBlockers(r)
         /\ refused' = (refused \/ RefusesSwitch)
         /\ IF "PREARM" \in Boxes \ modes
            THEN prearmWasReset' = TRUE /\ prearmAge' = 0
            ELSE UNCHANGED <<prearmWasReset, prearmAge>>

(* tryArm(): turtle mode, no blocker, emergency arming or an override.     *)
CanOverrideLock == blockers' \subseteq EmergencyOverride            \* a mutant
CanOverride == blockers' \subseteq EmergencyOverride /\ ~locked
MayArm(emergency) ==
    \/ blockers' = {} /\ ~locked
    \/ emergency /\ CanOverride
    \/ On("OVERRIDE")
MayFlip == "TURTLE" \in modes /\ CanOverride

SetArmed ==
    /\ Elsewhere /\ armed' = TRUE
    /\ UNCHANGED <<phase, active, controlling, rxVars, timers, rxPeriodPreset, locked,
                   failsafeMode, navVars>>

tryArm ==
    \E r \in Readings, emergency \in IF On("EMERGENCY") THEN BOOLEAN ELSE {FALSE} :
      /\ updateArmingStatus(r)
      /\ \/ ~armed /\ MayFlip /\ SetArmed /\ UNCHANGED <<lastDisarmReason, bypassed>>
         \/ /\ ~armed /\ ~MayFlip /\ MayArm(emergency)
            /\ SetArmed
            /\ lastDisarmReason' = "NONE"
            /\ bypassed' = (bypassed \/ UsesBypass(r))
         \/ /\ armed \/ ~(MayFlip \/ MayArm(emergency))
            /\ UNCHANGED <<vars, lastDisarmReason, bypassed>>
-----------------------------------------------------------------------------
(* processRcStickPositions().                                              *)

AfterSticks == IF "KILL" \in Boxes THEN "kill" ELSE "modes"
Sticks == task = "sticks" /\ UNCHANGED <<setup, rcData, modes, rxSignalReceived, ran, ages>>

(* Auto arm on throttle returns before the switches are looked at.         *)
AutoArm ==
    /\ Sticks /\ On("AUTO_ARM") /\ throttleHigh
    /\ tryArm
    /\ task' = "modes"
    /\ UNCHANGED <<rcDisarmAge, skipRxSamples, seenOff>>

NoAutoArm ==
    /\ Sticks /\ On("AUTO_ARM") /\ ~throttleHigh
    /\ task' = "modes"
    /\ UNCHANGED <<vars, armState, skipRxSamples, seenOff, refused>>

ArmBySwitch ==
    /\ Sticks /\ ~On("AUTO_ARM") /\ "ARM" \in modes
    /\ rcDisarmAge' = 0
    /\ tryArm
    /\ task' = AfterSticks
    /\ UNCHANGED <<skipRxSamples, seenOff>>

(* The switch is off, and the receiver is to be trusted.                   *)
SwitchedOff ==
    ~On("AUTO_ARM") /\ "ARM" \notin modes
ReceiverTrusted ==
    armed /\ "FAILSAFE" \notin modes /\ rxSignalReceived /\ ~active

DisarmAtOnce ==                            \* a mutant: no switchDisarmDelayMs
    /\ task = "sticks" /\ SwitchedOff /\ ReceiverTrusted
    /\ On("DISARM_KILL_SWITCH") \/ ~throttleHigh
    /\ DisarmBy("SWITCH")
    /\ task' = AfterSticks

DisarmBySwitch ==
    /\ task = "sticks" /\ SwitchedOff /\ ReceiverTrusted
    /\ rcDisarmAge > SwitchDisarmDelay
    /\ On("DISARM_KILL_SWITCH") \/ ~throttleHigh
    /\ DisarmBy("SWITCH")
    /\ task' = AfterSticks

PendingRestarts ==                         \* a mutant: the delay starts again
    /\ Sticks /\ SwitchedOff /\ ReceiverTrusted
    /\ ~(rcDisarmAge > SwitchDisarmDelay /\ (On("DISARM_KILL_SWITCH") \/ ~throttleHigh))
    /\ rcDisarmAge' = 0
    /\ task' = AfterSticks
    /\ UNCHANGED <<vars, blockers, prearmWasReset, prearmAge, bypassed, lastDisarmReason,
                   skipRxSamples, seenOff, refused>>

DisarmPending ==
    /\ Sticks /\ SwitchedOff /\ ReceiverTrusted
    /\ ~(rcDisarmAge > SwitchDisarmDelay /\ (On("DISARM_KILL_SWITCH") \/ ~throttleHigh))
    /\ task' = AfterSticks
    /\ UNCHANGED <<vars, armState, skipRxSamples, seenOff, refused>>

DisarmRefused ==
    /\ Sticks /\ SwitchedOff /\ ~ReceiverTrusted
    /\ rcDisarmAge' = 0
    /\ task' = AfterSticks
    /\ UNCHANGED <<vars, blockers, prearmWasReset, prearmAge, bypassed, lastDisarmReason,
                   skipRxSamples, seenOff, refused>>

KillSwitch ==
    /\ task = "kill" /\ task' = "modes"
    /\ IF "KILL" \in modes /\ armed THEN DisarmBy("KILLSWITCH")
       ELSE Keep /\ UNCHANGED armState

updateActivatedModes ==
    /\ task = "modes" /\ task' = "scheduler"
    /\ modes' = chanBoxes
    /\ seenOff' = seenOff \cup (Switch \ chanBoxes)
    /\ refused' = (refused /\ "ARM" \in chanBoxes)
    /\ offFrames' = IF "ARM" \in chanBoxes THEN 0 ELSE offFrames
    /\ offAge' = IF "ARM" \in chanBoxes THEN 0 ELSE offAge
    /\ prearmOnFor' = IF "PREARM" \in chanBoxes THEN prearmOnFor ELSE 0
    /\ UNCHANGED <<vars, setup, rcData, rxState, armState, ran, silentFor, linkGoodFor>>

ProcessSticks == AutoArm \/ NoAutoArm \/ ArmBySwitch \/ DisarmBySwitch \/ DisarmPending
                   \/ DisarmRefused
ProcessRx ==
    \/ SampleNone \/ SampleSkipped \/ SampleValid \/ SampleInvalid
    \/ Switch3D \/ StartMonitoring \/ NotMonitoring \/ FailsafePass \/ FailsafeIterate
    \/ ProcessSticks \/ KillSwitch \/ updateActivatedModes
-----------------------------------------------------------------------------
(* taskMainPidLoop(): annexCode() refreshes the arming status, then the
   navigation runs.  Its FSM is in RTH only if the NAV box or a forced RTH
   asks for it.                                                            *)
NavAsked == modes \cap {"NAV", "LAUNCH"} # {} \/ forcedRTH
PidLoop ==
    /\ task = "scheduler"
    /\ \E r \in Readings : updateArmingStatus(r)
    /\ Navigate
    /\ navState' # "IDLE" => NavAsked
    /\ ran' = ran \cup {"PID"}
    /\ UNCHANGED <<setup, rcData, modes, rxState, rcDisarmAge, bypassed, lastDisarmReason,
                   task, seenOff, ages>>

(* RTH_FINISHING with nav_disarm_on_landing.                               *)
NavigationDisarms ==
    /\ task = "scheduler" /\ navState = "RTH_LANDED" /\ NavAsked
    /\ DisarmBy("NAVIGATION")
    /\ UNCHANGED task

SaveConfig ==
    /\ task = "scheduler" /\ On("SAVES") /\ ~armed
    /\ failsafeReset \/ EepromWrite
    /\ skipRxSamples' = 2
    /\ UNCHANGED <<setup, rcData, modes, rxSignalReceived, armState, task, ran, history>>

(* A tick is long: the RX task runs at 50 Hz at least (rxNextUpdateAtUs)
   and gets past the skipped samples, the PID loop runs at its own rate.   *)
FlightTick ==
    /\ task = "scheduler" /\ ran = {"RX", "PID"} /\ ran' = {}
    /\ Tick
    /\ rcDisarmAge' = Older(rcDisarmAge, SwitchDisarmDelay)
    /\ prearmAge' = Older(prearmAge, PrearmTimeout)
    /\ silentFor' = IF silentFor < SilenceCap THEN silentFor + 1 ELSE SilenceCap
    /\ prearmOnFor' = IF "PREARM" \in modes THEN Older(prearmOnFor, PrearmTimeout) ELSE 0
    /\ linkGoodFor' = IF locked /\ Follows("QUARANTINE") THEN Older(linkGoodFor, Quarantine)
                      ELSE 0
    /\ offAge' = IF offFrames = 1 THEN Older(offAge, SwitchDisarmDelay) ELSE 0
    /\ UNCHANGED <<setup, rcData, modes, rxState, blockers, prearmWasReset, bypassed,
                   lastDisarmReason, task, seenOff, refused, offFrames>>

FlightNext ==
    ProcessRx \/ PidLoop \/ NavigationDisarms \/ SaveConfig \/ FlightTick

FlightSpec == FlightInit /\ [][FlightNext]_flightVars

(* The scheduler runs the RX task at 50 Hz at least and the PID loop at its
   own rate, a task runs to its end, and time passes.                      *)
FlightFairness ==
    /\ WF_flightVars(ProcessRx)
    /\ SF_flightVars(SampleValid \/ SampleInvalid \/ SampleSkipped)
    /\ SF_flightVars(PidLoop)
    /\ SF_flightVars(FlightTick)
FairFlightSpec == FlightSpec /\ FlightFairness
-----------------------------------------------------------------------------
(* The failsafe seen from the whole flight controller is Failsafe.         *)
FailsafeSpec == Spec

(* Silence on the RX is answered in time: when no valid sample came for
   longer than the guard time, an armed craft is in the hands of failsafe. *)
SilenceIsAnswered ==
    task = "scheduler" /\ armed /\ monitoring /\ silentFor > RxDataFailurePeriod + 1
        => controlling

(* docs/Failsafe.md: a craft disarmed in failsafe, RTH with disarming after
   the landing included, does not arm before the signal is back.           *)
ArmingNeedsData ==
    [][~armed /\ armed' => silentFor <= RxDataFailurePeriod + 1]_flightVars

(* fc_core.c: prearm must be reset before arming is possible.  Every time
   the craft arms, PREARM is on, was off since the craft last disarmed, and
   has not been on for longer than its time-out.                           *)
PrearmBeforeArming ==
    [][~armed /\ armed' /\ "PREARM" \in Boxes
          => /\ "PREARM" \in modes /\ "PREARM" \in seenOff
             /\ PrearmTimeout = 0 \/ prearmOnFor < PrearmTimeout]_flightVars

(* A switch that was on while something blocked arming never arms the craft
   by itself when the blocker goes away; turtle mode is asked for.         *)
ArmingIsDeliberate ==
    [][~armed /\ armed' => ~refused \/ "TURTLE" \in modes]_flightVars

(* The forced RTH never outlives the failsafe that asked for it: a craft
   that flies with it is one that failsafe is bringing home.               *)
ForcedRTHIsFailsafe ==
    task = "scheduler" /\ forcedRTH /\ armed => phase = "RETURN_TO_HOME"

(* rc_controls.c: a guard prevents that one frame can disarm the craft: it
   takes two frames, or one that is sampled for longer than the guard time. *)
OneFrameCannotDisarm ==
    [][armed /\ ~armed' /\ lastDisarmReason' = "SWITCH"
          => offFrames = 2 \/ offAge > SwitchDisarmDelay]_flightVars

(* failsafe.c: the lock of a failsafe that disarmed the craft goes when the
   link was good, in every pass, for longer than the quarantine: 3 seconds
   after a drop, 30 after the other procedures.                            *)
QuarantineIsServed ==
    [][locked /\ ~locked' => linkGoodFor > Quarantine]_flightVars

(* A pilot with a good link who leaves the switches off, the throttle low
   and moves the sticks gets the craft disarmed, whatever failsafe does.   *)
PilotSwitchesOff ==
    <>[](chanBoxes = {} /\ sticksMoving /\ ~throttleHigh /\ rxSignalReceived)
PilotCanDisarm == PilotSwitchesOff => <>[]~armed

(* The failsafe lock keeps the craft disarmed, whatever else is overridden.
   (Not on a logic condition that overrides arming safety: it arms then.)  *)
LockKeepsDisarmed == locked => ~armed
=============================================================================
