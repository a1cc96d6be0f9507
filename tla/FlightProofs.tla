----------------------------- MODULE FlightProofs -----------------------------
(***************************************************************************)
(* Proofs about the RX task and the PID loop around the failsafe, for every *)
(* set of crafts and every configuration of the delays.                    *)
(***************************************************************************)
EXTENDS FlightCore, FailsafeProofs

(* No craft has a logic condition that overrides arming safety: it arms the
   craft through every blocker, the failsafe lock included.                *)
NoOverride == \A s \in Setups : "OVERRIDE" \notin s.options

(* What tryArm() does to the failsafe's state: nothing, or it arms a craft
   that the failsafe has not locked.                                       *)
LEMMA TryArmArms ==
  ASSUME NoOverride, setup \in Setups, tryArm
  PROVE  UNCHANGED vars \/ (Arm /\ SetArmed)
<1>1. ~On("OVERRIDE")
  BY DEF NoOverride, On
<1>2. PICK r \in Readings, emergency \in IF On("EMERGENCY") THEN BOOLEAN ELSE {FALSE} :
        \/ ~armed /\ MayFlip /\ SetArmed
        \/ ~armed /\ MayArm(emergency) /\ SetArmed
        \/ UNCHANGED vars
  BY Zenon DEF tryArm
<1>3. CASE UNCHANGED vars
  BY <1>3
<1>4. CASE ~armed /\ SetArmed /\ (MayFlip \/ MayArm(emergency))
  <2>1. ~locked
    BY <1>1, <1>4, Zenon DEF MayFlip, MayArm, CanOverride
  <2> QED
    BY <1>4, <2>1, Zenon DEF SetArmed, Arm
<1> QED
  BY <1>2, <1>3, <1>4, Zenon

(* A receiver sample reaches the failsafe as a report on the link, or not. *)
LEMMA SampleReports ==
  ASSUME SampleNone \/ SampleSkipped \/ SampleValid \/ SampleInvalid
  PROVE  RxData \/ UNCHANGED vars
<1> USE DEF StartRx, rxVars, timers, craft, navVars
<1>1. CASE SampleNone
  BY <1>1, Zenon DEF SampleNone, vars
<1>2. CASE SampleSkipped
  BY <1>2, Zenon DEF SampleSkipped, vars
<1>3. CASE SampleValid
  BY <1>3, Zenon DEF SampleValid, RxData, failsafeOnValidDataReceived
<1>4. CASE SampleInvalid
  BY <1>4, Zenon DEF SampleInvalid, RxData, failsafeOnValidDataFailed
<1> QED
  BY <1>1, <1>2, <1>3, <1>4

(* Every step of the flight controller is a step of the failsafe or leaves
   its state alone.                                                        *)
LEMMA FailsafeStep ==
  ASSUME NoOverride, setup \in Setups, [FlightNext]_flightVars
  PROVE  [Next]_vars
<1>1. CASE SampleNone \/ SampleSkipped \/ SampleValid \/ SampleInvalid
  BY <1>1, SampleReports DEF Next
<1>2. CASE Switch3D \/ KillSwitch \/ NavigationDisarms
  BY <1>2, Zenon DEF Switch3D, KillSwitch, NavigationDisarms, DisarmBy, Keep, Next
<1>3. CASE StartMonitoring \/ FailsafePass \/ FailsafeIterate
  BY <1>3, Zenon DEF StartMonitoring, FailsafePass, FailsafeIterate, Next
<1>4. CASE NotMonitoring \/ updateActivatedModes
  BY <1>4, Zenon DEF NotMonitoring, updateActivatedModes, Keep
<1>5. CASE AutoArm \/ ArmBySwitch
  BY <1>5, TryArmArms, Zenon DEF AutoArm, ArmBySwitch, Next
<1>6. CASE NoAutoArm \/ DisarmPending \/ DisarmRefused
  BY <1>6, Zenon DEF NoAutoArm, DisarmPending, DisarmRefused
<1>7. CASE DisarmBySwitch
  BY <1>7, Zenon DEF DisarmBySwitch, DisarmBy, Next
<1>8. CASE PidLoop
  BY <1>8, Zenon DEF PidLoop, Next
<1>9. CASE SaveConfig
  BY <1>9, Zenon DEF SaveConfig, Next
<1>10. CASE FlightTick
  BY <1>10, Zenon DEF FlightTick, Next
<1>11. CASE UNCHANGED flightVars
  BY <1>11, Zenon DEF flightVars
<1> QED
  BY <1>1, <1>2, <1>3, <1>4, <1>5, <1>6, <1>7, <1>8, <1>9, <1>10, <1>11, Zenon
  DEF FlightNext, ProcessRx, ProcessSticks
-----------------------------------------------------------------------------
(* The checks of updateArmingStatus() raise flags of ArmingDisabled only.  *)
LEMMA ArmingStatusTyped ==
  ASSUME FlightTypeOK, NEW r \in Readings, updateArmingStatus(r)
  PROVE  /\ blockers' \subseteq Blocker
         /\ prearmWasReset' \in BOOLEAN /\ refused' \in BOOLEAN
         /\ prearmAge' \in 0 .. PrearmTimeout + 1
<1> USE FlightAssumption DEF FlightTypeOK
<1>1. r.faults \subseteq SensorFault
  BY DEF Readings
<1>2. Checks(r) \subseteq Blocker
  BY <1>1, Zenon DEF Checks, Blocker, SensorFault
<1>3. ArmingBlockers(r) \subseteq Blocker
  BY <1>2 DEF ArmingBlockers, Blocker
<1>4. blockers' \subseteq Blocker
  BY <1>3 DEF updateArmingStatus
<1>5. prearmAge' \in 0 .. PrearmTimeout + 1
  BY DEF updateArmingStatus
<1>6. prearmWasReset' \in BOOLEAN /\ refused' \in BOOLEAN
  BY Zenon DEF updateArmingStatus, RefusesSwitch
<1> QED
  BY <1>4, <1>5, <1>6

LEMMA TryArmTyped ==
  ASSUME FlightTypeOK, tryArm
  PROVE  /\ blockers' \subseteq Blocker /\ prearmWasReset' \in BOOLEAN
         /\ refused' \in BOOLEAN /\ bypassed' \in BOOLEAN
         /\ prearmAge' \in 0 .. PrearmTimeout + 1 /\ lastDisarmReason' \in Reason
<1>1. PICK r \in Readings :
        /\ updateArmingStatus(r)
        /\ bypassed' = bypassed \/ bypassed' = (bypassed \/ UsesBypass(r))
        /\ lastDisarmReason' \in {lastDisarmReason, "NONE"}
  BY Zenon DEF tryArm
<1>2. bypassed' \in BOOLEAN
  BY <1>1, Zenon DEF FlightTypeOK
<1>3. lastDisarmReason' \in Reason
  BY <1>1 DEF FlightTypeOK, Reason
<1> QED
  BY <1>1, <1>2, <1>3, ArmingStatusTyped

(* The steps that may disarm by hand or by navigation.                     *)
LEMMA DisarmingSteps ==
  ASSUME Switch3D \/ KillSwitch \/ NavigationDisarms \/ DisarmBySwitch
  PROVE  (\E reason \in Reason : DisarmBy(reason)) \/ (Keep /\ UNCHANGED armState)
BY Zenon DEF Switch3D, KillSwitch, NavigationDisarms, DisarmBySwitch, Reason

(* FlightTypeOK in four parts.                                             *)
CraftOK == setup \in Setups /\ chanBoxes \subseteq Boxes /\ modes \subseteq Boxes
SwitchesOK ==
    /\ throttleHigh \in BOOLEAN /\ sticksMoving \in BOOLEAN /\ rxSignalReceived \in BOOLEAN
    /\ prearmWasReset \in BOOLEAN /\ bypassed \in BOOLEAN /\ refused \in BOOLEAN
CountersOK ==
    /\ skipRxSamples \in 0 .. 2
    /\ rcDisarmAge \in 0 .. SwitchDisarmDelay + 1
    /\ prearmAge \in 0 .. PrearmTimeout + 1
    /\ silentFor \in 0 .. SilenceCap
    /\ offFrames \in 0 .. FrameCap /\ offAge \in 0 .. SwitchDisarmDelay + 1
    /\ prearmOnFor \in 0 .. PrearmTimeout + 1 /\ linkGoodFor \in Nat
FlightStatesOK ==
    /\ blockers \subseteq Blocker
    /\ lastDisarmReason \in Reason
    /\ task \in {"scheduler", "switch3D", "monitor", "failsafe", "sticks", "kill", "modes"}
    /\ ran \subseteq {"RX", "PID"}
    /\ seenOff \subseteq Switch

LEMMA FlightTypeParts ==
  FlightTypeOK <=> CraftOK /\ SwitchesOK /\ CountersOK /\ FlightStatesOK
BY DEF FlightTypeOK, CraftOK, SwitchesOK, CountersOK, FlightStatesOK

LEMMA CraftStep == ASSUME CraftOK, [FlightNext]_flightVars PROVE CraftOK'
<1> USE DEF CraftOK, Boxes, rcData
<1>1. CASE SampleNone \/ SampleSkipped \/ SampleInvalid
  BY <1>1 DEF SampleNone, SampleSkipped, SampleInvalid, StartRx
<1>2. CASE SampleValid
  BY <1>2 DEF SampleValid, StartRx
<1>3. CASE updateActivatedModes
  BY <1>3 DEF updateActivatedModes
<1>4. CASE UNCHANGED <<setup, rcData, modes>>
  BY <1>4
<1>5. CASE Switch3D \/ KillSwitch \/ NavigationDisarms \/ DisarmBySwitch
  BY <1>4, <1>5, DisarmingSteps, Zenon DEF DisarmBy, Keep
<1>6. CASE StartMonitoring \/ NotMonitoring \/ FailsafePass \/ FailsafeIterate
  BY <1>4, <1>6, Zenon DEF StartMonitoring, NotMonitoring, FailsafePass, FailsafeIterate, Keep
<1>7. CASE AutoArm \/ NoAutoArm \/ ArmBySwitch \/ DisarmPending \/ DisarmRefused
  BY <1>4, <1>7, Zenon DEF AutoArm, NoAutoArm, ArmBySwitch, DisarmPending, DisarmRefused, Sticks
<1>8. CASE PidLoop \/ SaveConfig \/ FlightTick \/ UNCHANGED flightVars
  BY <1>4, <1>8, Zenon DEF PidLoop, SaveConfig, FlightTick, flightVars
<1> QED
  BY <1>1, <1>2, <1>3, <1>5, <1>6, <1>7, <1>8, Zenon DEF FlightNext, ProcessRx, ProcessSticks

LEMMA SwitchesStep == ASSUME FlightTypeOK, [FlightNext]_flightVars PROVE SwitchesOK'
<1>0. SwitchesOK
  BY FlightTypeParts
<1> USE DEF SwitchesOK, rcData, rxState, armState, history, ages
<1>1. CASE SampleNone \/ SampleSkipped
  BY <1>0, <1>1, Zenon DEF SampleNone, SampleSkipped, StartRx
<1>2. CASE SampleValid
  BY <1>0, <1>2, Zenon DEF SampleValid, StartRx
<1>3. CASE SampleInvalid
  <2>1. rxSignalReceived' \in BOOLEAN
    BY <1>3 DEF SampleInvalid
  <2> QED
    BY <1>0, <1>3, <2>1, Zenon DEF SampleInvalid, StartRx
<1>4. CASE updateActivatedModes
  BY <1>0, <1>4, Zenon DEF updateActivatedModes
<1>5. CASE UNCHANGED <<rcData, rxState, armState, refused>>
  BY <1>0, <1>5, Zenon
<1>6. CASE Switch3D \/ KillSwitch \/ NavigationDisarms \/ DisarmBySwitch
  BY <1>0, <1>6, DisarmingSteps, Zenon DEF DisarmBy, Disarmed, Keep
<1>7. CASE StartMonitoring \/ NotMonitoring \/ FailsafePass
  BY <1>5, <1>7, Zenon DEF StartMonitoring, NotMonitoring, FailsafePass, Keep
<1>8. CASE FailsafeIterate
  BY <1>0, <1>8, Zenon DEF FailsafeIterate, Disarmed
<1>9. CASE AutoArm \/ ArmBySwitch
  BY <1>0, <1>9, TryArmTyped, Zenon DEF AutoArm, ArmBySwitch, Sticks
<1>10. CASE NoAutoArm \/ DisarmPending \/ DisarmRefused
  BY <1>0, <1>10, Zenon DEF NoAutoArm, DisarmPending, DisarmRefused, Sticks
<1>11. CASE PidLoop
  BY <1>0, <1>11, ArmingStatusTyped, Zenon DEF PidLoop
<1>12. CASE SaveConfig \/ UNCHANGED flightVars
  BY <1>0, <1>12, Zenon DEF SaveConfig, flightVars
<1>13. CASE FlightTick
  BY <1>0, <1>13, Zenon DEF FlightTick
<1> QED
  BY <1>1, <1>2, <1>3, <1>4, <1>6, <1>7, <1>8, <1>9, <1>10, <1>11, <1>12, <1>13, Zenon
  DEF FlightNext, ProcessRx, ProcessSticks

LEMMA CountersStep == ASSUME FlightTypeOK, [FlightNext]_flightVars PROVE CountersOK'
<1>0. CountersOK
  BY FlightTypeParts
<1> USE FlightAssumption, RxLinkAssumption
    DEF CountersOK, rcData, rxState, armState, history, ages, SilenceCap, FrameCap
<1>1. CASE SampleNone \/ SampleSkipped \/ SampleInvalid
  <2>1. UNCHANGED <<rcDisarmAge, prearmAge, ages>>
    BY <1>1, Zenon DEF SampleNone, SampleSkipped, SampleInvalid, StartRx
  <2>2. skipRxSamples' = skipRxSamples \/ (skipRxSamples > 0 /\ skipRxSamples' = skipRxSamples - 1)
    BY <1>1, Zenon DEF SampleNone, SampleSkipped, SampleInvalid
  <2> QED
    BY <1>0, <2>1, <2>2
<1>2. CASE SampleValid
  <2>1. UNCHANGED <<rcDisarmAge, prearmAge, prearmOnFor, linkGoodFor, skipRxSamples>>
        /\ silentFor' = 0
    BY <1>2, Zenon DEF SampleValid, StartRx
  <2>2. \/ UNCHANGED <<offFrames, offAge>>
        \/ offFrames' = (IF offFrames < FrameCap THEN offFrames + 1 ELSE FrameCap) /\ offAge' = 0
    BY <1>2, Zenon DEF SampleValid, SwitchSeenOff
  <2> QED
    BY <1>0, <2>1, <2>2
<1>4. CASE updateActivatedModes
  <2>1. UNCHANGED <<skipRxSamples, rcDisarmAge, prearmAge, silentFor, linkGoodFor>>
    BY <1>4, Zenon DEF updateActivatedModes
  <2>2. offFrames' \in {offFrames, 0} /\ offAge' \in {offAge, 0} /\ prearmOnFor' \in {prearmOnFor, 0}
    BY <1>4, Zenon DEF updateActivatedModes
  <2> QED
    BY <1>0, <2>1, <2>2
<1>5. CASE UNCHANGED <<skipRxSamples, rcDisarmAge, prearmAge, ages>>
  BY <1>0, <1>5
<1>6. CASE Switch3D \/ KillSwitch \/ NavigationDisarms \/ DisarmBySwitch
  <2>1. UNCHANGED <<rcDisarmAge, prearmAge, ages>>
    BY <1>6, DisarmingSteps, Zenon DEF DisarmBy, Keep
  <2>2. skipRxSamples' \in {skipRxSamples, 2}
    BY <1>6, DisarmingSteps, Zenon DEF DisarmBy, Disarmed, Keep
  <2> QED
    BY <1>0, <2>1, <2>2
<1>7. CASE StartMonitoring \/ NotMonitoring \/ FailsafePass
  BY <1>5, <1>7, Zenon DEF StartMonitoring, NotMonitoring, FailsafePass, Keep
<1>8. CASE FailsafeIterate
  <2>1. UNCHANGED <<rcDisarmAge, prearmAge, silentFor, prearmOnFor, offFrames, offAge>>
        /\ linkGoodFor' \in {linkGoodFor, 0}
    BY <1>8, Zenon DEF FailsafeIterate
  <2>2. skipRxSamples' \in {skipRxSamples, 2}
    BY <1>8, Zenon DEF FailsafeIterate, Disarmed
  <2> QED
    BY <1>0, <2>1, <2>2
<1>9. CASE AutoArm \/ ArmBySwitch
  <2>1. UNCHANGED <<skipRxSamples, ages>> /\ rcDisarmAge' \in {rcDisarmAge, 0}
    BY <1>9, Zenon DEF AutoArm, ArmBySwitch, Sticks
  <2>2. prearmAge' \in 0 .. PrearmTimeout + 1
    BY <1>9, TryArmTyped, Zenon DEF AutoArm, ArmBySwitch
  <2> QED
    BY <1>0, <2>1, <2>2
<1>10. CASE NoAutoArm \/ DisarmPending \/ DisarmRefused
  <2>1. UNCHANGED <<skipRxSamples, prearmAge, ages>>
        /\ rcDisarmAge' \in {rcDisarmAge, 0}
    BY <1>10, Zenon DEF NoAutoArm, DisarmPending, DisarmRefused, Sticks
  <2> QED
    BY <1>0, <2>1
<1>11. CASE PidLoop
  <2>1. UNCHANGED <<skipRxSamples, rcDisarmAge, ages>>
    BY <1>11, Zenon DEF PidLoop
  <2>2. prearmAge' \in 0 .. PrearmTimeout + 1
    BY <1>11, ArmingStatusTyped, Zenon DEF PidLoop
  <2> QED
    BY <1>0, <2>1, <2>2
<1>12. CASE SaveConfig
  BY <1>0, <1>12 DEF SaveConfig
<1>13. CASE FlightTick
  <2>1. /\ UNCHANGED <<skipRxSamples, offFrames>>
        /\ rcDisarmAge' = Older(rcDisarmAge, SwitchDisarmDelay)
        /\ prearmAge' = Older(prearmAge, PrearmTimeout)
        /\ silentFor' = IF silentFor < SilenceCap THEN silentFor + 1 ELSE SilenceCap
        /\ prearmOnFor' = IF "PREARM" \in modes THEN Older(prearmOnFor, PrearmTimeout) ELSE 0
        /\ offAge' = IF offFrames = 1 THEN Older(offAge, SwitchDisarmDelay) ELSE 0
    BY <1>13 DEF FlightTick
  <2>2. linkGoodFor' \in {0, linkGoodFor, linkGoodFor + 1}
    BY <1>13 DEF FlightTick, Older
  <2> QED
    BY <1>0, <2>1, <2>2 DEF Older
<1>14. CASE UNCHANGED flightVars
  BY <1>5, <1>14, Zenon DEF flightVars
<1> QED
  BY <1>1, <1>2, <1>4, <1>6, <1>7, <1>8, <1>9, <1>10, <1>11, <1>12, <1>13, <1>14, Zenon
  DEF FlightNext, ProcessRx, ProcessSticks

LEMMA FlightStatesStep == ASSUME FlightTypeOK, [FlightNext]_flightVars PROVE FlightStatesOK'
<1>0. FlightStatesOK
  BY FlightTypeParts
<1> USE DEF FlightStatesOK, rxState, armState, history, ages
<1>1. CASE SampleNone \/ SampleSkipped
  BY <1>0, <1>1 DEF SampleNone, SampleSkipped, StartRx
<1>2. CASE SampleValid \/ SampleInvalid
  BY <1>0, <1>2 DEF SampleValid, SampleInvalid, StartRx
<1>4. CASE updateActivatedModes
  BY <1>0, <1>4 DEF updateActivatedModes
<1>6. CASE Switch3D \/ KillSwitch \/ NavigationDisarms \/ DisarmBySwitch
  <2>1. UNCHANGED <<blockers, ran>>
    BY <1>6, DisarmingSteps, Zenon DEF DisarmBy, Keep
  <2>2. lastDisarmReason' \in Reason /\ seenOff' \subseteq Switch
    <3>1. CASE Keep /\ UNCHANGED armState
      BY <1>0, <3>1 DEF Keep
    <3>2. CASE \E reason \in Reason : DisarmBy(reason)
      BY <3>2 DEF DisarmBy, Disarmed
    <3> QED
      BY <1>6, <3>1, <3>2, DisarmingSteps
  <2>3. task' \in {task, "monitor", "modes", "kill"}
    BY <1>6, Zenon DEF Switch3D, KillSwitch, NavigationDisarms, DisarmBySwitch, AfterSticks
  <2> QED
    BY <1>0, <2>1, <2>2, <2>3
<1>7. CASE StartMonitoring \/ NotMonitoring \/ FailsafePass
  BY <1>0, <1>7 DEF StartMonitoring, NotMonitoring, FailsafePass, Keep
<1>8. CASE FailsafeIterate
  <2>1. UNCHANGED <<blockers, ran>> /\ task' \in {"sticks", "failsafe"}
    BY <1>8, Zenon DEF FailsafeIterate
  <2>2. \/ UNCHANGED <<lastDisarmReason, seenOff>>
        \/ lastDisarmReason' = "FAILSAFE" /\ seenOff' = Switch \ modes
    BY <1>8, Zenon DEF FailsafeIterate, Disarmed
  <2> QED
    BY <1>0, <2>1, <2>2 DEF Reason
<1>9. CASE AutoArm \/ ArmBySwitch
  <2>1. UNCHANGED <<ran, seenOff>> /\ task' \in {"modes", "kill"}
    BY <1>9, Zenon DEF AutoArm, ArmBySwitch, Sticks, AfterSticks
  <2>2. blockers' \subseteq Blocker /\ lastDisarmReason' \in Reason
    BY <1>9, TryArmTyped, Zenon DEF AutoArm, ArmBySwitch
  <2> QED
    BY <1>0, <2>1, <2>2
<1>10. CASE NoAutoArm \/ DisarmPending \/ DisarmRefused
  BY <1>0, <1>10 DEF NoAutoArm, DisarmPending, DisarmRefused, Sticks, AfterSticks
<1>11. CASE PidLoop
  <2>1. UNCHANGED <<lastDisarmReason, task, seenOff>> /\ ran' = ran \cup {"PID"}
    BY <1>11, Zenon DEF PidLoop
  <2>2. blockers' \subseteq Blocker
    BY <1>11, ArmingStatusTyped, Zenon DEF PidLoop
  <2> QED
    BY <1>0, <2>1, <2>2
<1>12. CASE SaveConfig \/ UNCHANGED flightVars
  BY <1>0, <1>12 DEF SaveConfig, flightVars
<1>13. CASE FlightTick
  BY <1>0, <1>13 DEF FlightTick
<1> QED
  BY <1>1, <1>2, <1>4, <1>6, <1>7, <1>8, <1>9, <1>10, <1>11, <1>12, <1>13, Zenon
  DEF FlightNext, ProcessRx, ProcessSticks

LEMMA InitFlightTypeOK == FlightInit => FlightTypeOK
<1> SUFFICES ASSUME FlightInit PROVE FlightTypeOK
  OBVIOUS
<1> USE FlightAssumption, RxLinkAssumption DEF FlightInit
<1>1. CraftOK
  BY DEF CraftOK, Boxes
<1>2. SwitchesOK
  BY DEF SwitchesOK
<1>3. CountersOK
  BY DEF CountersOK, SilenceCap, FrameCap
<1>4. FlightStatesOK
  BY DEF FlightStatesOK, Reason
<1> QED
  BY <1>1, <1>2, <1>3, <1>4, FlightTypeParts

LEMMA FlightTypeStep == ASSUME FlightTypeOK, [FlightNext]_flightVars PROVE FlightTypeOK'
<1>1. CraftOK' /\ SwitchesOK' /\ CountersOK' /\ FlightStatesOK'
  BY FlightTypeParts, CraftStep, SwitchesStep, CountersStep, FlightStatesStep
<1> QED
  BY <1>1 DEF FlightTypeOK, CraftOK, SwitchesOK, CountersOK, FlightStatesOK, Boxes

(* Every variable of the RX task and the arming logic keeps its type, in
   every craft: overrides, emergency arming and saves included.            *)
THEOREM FlightTypeCorrect == FlightSpec => []FlightTypeOK
BY InitFlightTypeOK, FlightTypeStep, PTL DEF FlightSpec
-----------------------------------------------------------------------------
(* The flight controller drives failsafe.c as Failsafe says it is driven:
   what is proved of Failsafe alone holds of the whole.                    *)
THEOREM FlightIsFailsafe == ASSUME NoOverride PROVE FlightSpec => FailsafeSpec
<1>1. FlightInit => Init
  BY DEF FlightInit
<1>2. FlightTypeOK /\ [FlightNext]_flightVars => [Next]_vars
  BY FailsafeStep DEF FlightTypeOK
<1> QED
  BY <1>1, <1>2, FlightTypeCorrect, PTL DEF FlightSpec, FailsafeSpec, Spec

(* The failsafe lock keeps the craft disarmed whatever else is overridden:
   emergency arming, turtle mode, arming on throttle.                      *)
THEOREM LockedIsDisarmed ==
  ASSUME NoOverride, ~ReloadWhileActive PROVE FlightSpec => []LockKeepsDisarmed
<1>1. PhaseConsistent => LockKeepsDisarmed
  BY DEF PhaseConsistent, LockKeepsDisarmed
<1> QED
  BY <1>1, FlightIsFailsafe, PhasesAreConsistent, PTL DEF FailsafeSpec
-----------------------------------------------------------------------------
(* The CPU is inside failsafeUpdateState() exactly while a pass is open.   *)
TaskConsistent == task = "failsafe" <=> pc = "pass"

LEMMA TaskStep ==
  ASSUME FlightTypeOK, StatesOK, TaskConsistent, [FlightNext]_flightVars
  PROVE  TaskConsistent'
<1> USE DEF TaskConsistent
<1>1. CASE SampleNone \/ SampleSkipped \/ SampleValid \/ SampleInvalid
  BY <1>1 DEF SampleNone, SampleSkipped, SampleValid, SampleInvalid, StartRx
<1>2. CASE Switch3D \/ KillSwitch \/ NavigationDisarms \/ DisarmBySwitch
  <2>1. pc' = pc
    BY <1>2, DisarmingSteps, Zenon DEF DisarmBy, DisarmElsewhere, Elsewhere, Keep, vars
  <2>2. task # "failsafe" /\ task' # "failsafe"
    BY <1>2 DEF Switch3D, KillSwitch, NavigationDisarms, DisarmBySwitch, AfterSticks
  <2> QED
    BY <2>1, <2>2
<1>3. CASE StartMonitoring \/ NotMonitoring \/ updateActivatedModes
  BY <1>3 DEF StartMonitoring, failsafeStartMonitoring, NotMonitoring, updateActivatedModes,
     Keep, vars
<1>4. CASE FailsafePass
  BY <1>4 DEF FailsafePass, BeginPass
<1>5. CASE FailsafeIterate
  <2>1. pc' \in {"tasks", "pass"}
    BY <1>5, Zenon DEF FailsafeIterate, Iterate, EndPass, Reprocess, IdleWatching, IdleJustDisarm,
       IdleLossDetected, IdleDisarmed, LossDetected, LossIdleRecovers, ReturnHomeRecovers,
       ReturnHomeLanded, ReturnHomeLost, LandingOver, LandingRecovers, ProcedureContinues,
       Landed, MonitoringUnlocks, MonitoringWaits, Recovered
  <2> QED
    BY <1>5, <2>1 DEF FailsafeIterate
<1>6. CASE AutoArm \/ ArmBySwitch
  <2>1. pc' = pc
    BY <1>6, Zenon DEF AutoArm, ArmBySwitch, tryArm, SetArmed, Elsewhere, vars
  <2> QED
    BY <1>6, <2>1 DEF AutoArm, ArmBySwitch, Sticks, AfterSticks
<1>7. CASE NoAutoArm \/ DisarmPending \/ DisarmRefused
  BY <1>7 DEF NoAutoArm, DisarmPending, DisarmRefused, Sticks, AfterSticks, vars
<1>8. CASE PidLoop \/ FlightTick
  BY <1>8 DEF PidLoop, Navigate, FlightTick, Tick, Elsewhere
<1>9. CASE SaveConfig
  BY <1>9 DEF SaveConfig, failsafeReset, EepromWrite, Elsewhere
<1>10. CASE UNCHANGED flightVars
  BY <1>10, Zenon DEF flightVars, vars
<1> QED
  BY <1>1, <1>2, <1>3, <1>4, <1>5, <1>6, <1>7, <1>8, <1>9, <1>10, Zenon
  DEF FlightNext, ProcessRx, ProcessSticks

(* What the later invariants rest on.                                      *)
FlightInv == IInv /\ FlightTypeOK /\ TaskConsistent

LEMMA FlightInvHolds ==
  ASSUME NoOverride, ~ReloadWhileActive PROVE FlightSpec => []FlightInv
<1>1. FlightInit => TaskConsistent
  BY DEF FlightInit, Init, TaskConsistent
<1>2. IInv /\ FlightTypeOK /\ TaskConsistent /\ [FlightNext]_flightVars => TaskConsistent'
  BY TaskStep DEF IInv, TypeOK
<1> QED
  BY <1>1, <1>2, FlightTypeCorrect, FlightIsFailsafe, IInvHolds, PTL
  DEF FlightSpec, FailsafeSpec, FlightInv
-----------------------------------------------------------------------------
(* A forced RTH is accounted for by the phase.  Once the phase has gone on
   from RETURN_TO_HOME the quarantine runs, and it is too long to pass
   before a PID loop of the disarmed craft has dropped the forced RTH.     *)
RTHAccounted ==
    /\ forcedRTH => phase \in {"RETURN_TO_HOME", "LANDED", "RX_LOSS_MONITORING"}
    /\ forcedRTH /\ phase \in {"LANDED", "RX_LOSS_MONITORING"} => rxPeriodPreset = LongQuarantine
    /\ forcedRTH /\ phase = "RX_LOSS_MONITORING" => rxPeriodIn >= IF "PID" \in ran THEN 1 ELSE 0

LEMMA RTHUntouched ==
  ASSUME RTHAccounted, UNCHANGED <<forcedRTH, phase, rxPeriodPreset, rxPeriodIn>>,
         "PID" \in ran' <=> "PID" \in ran
  PROVE  RTHAccounted'
BY DEF RTHAccounted

(* The iterations of a pass keep the account.                              *)
LEMMA RTHIterates ==
  ASSUME LongQuarantine >= 1, IInv, RTHAccounted, Iterate, ran' = ran
  PROVE  RTHAccounted'
<1> USE FailsafeAssumption DEF RTHAccounted, timers, navVars
<1>0. rxPeriodIn \in Int
  BY DEF IInv, TypeOK, TimersOK
<1>1. CASE IdleWatching \/ IdleDisarmed \/ ProcedureContinues
  BY <1>1, RTHUntouched, Zenon DEF IdleWatching, IdleDisarmed, ProcedureContinues
<1>2. CASE IdleJustDisarm \/ IdleLossDetected
  BY <1>2 DEF IdleJustDisarm, IdleLossDetected
<1>3. CASE LossDetected
  <2>1. ~forcedRTH /\ ~pass.rxOk
    BY <1>3 DEF LossDetected, IInv, PassConsistent
  <2>2. PICK procedure \in ChosenProcedures : StartProcedure(procedure)
    BY <1>3, <2>1, Zenon DEF LossDetected
  <2>3. forcedRTH' => phase' = "RETURN_TO_HOME"
    BY <2>1, <2>2, Zenon DEF StartProcedure, failsafeActivate
  <2> QED
    BY <2>3
<1>4. CASE LossIdleRecovers \/ LandingOver \/ LandingRecovers \/ Recovered
  <2>1. phase \in {"RX_LOSS_IDLE", "LANDING", "RX_LOSS_RECOVERED"}
    BY <1>4, Zenon DEF LossIdleRecovers, LandingOver, LandingRecovers, Recovered
  <2>2. forcedRTH' = forcedRTH
    BY <1>4, Zenon DEF LossIdleRecovers, LandingOver, LandingRecovers, Recovered
  <2> QED
    BY <2>1, <2>2
<1>5. CASE ReturnHomeRecovers \/ ReturnHomeLost
  BY <1>5 DEF ReturnHomeRecovers, ReturnHomeLost, abortForcedRTH
<1>6. CASE ReturnHomeLanded
  BY <1>6 DEF ReturnHomeLanded
<1>7. CASE Landed
  BY <1>0, <1>7 DEF Landed
<1>8. CASE MonitoringUnlocks
  <2>1. ~forcedRTH
    BY <1>0, <1>8 DEF MonitoringUnlocks, HasPassed
  <2> QED
    BY <1>8, <2>1 DEF MonitoringUnlocks
<1>9. CASE MonitoringWaits
  <2>1. UNCHANGED <<forcedRTH, phase, rxPeriodPreset>>
    BY <1>9, Zenon DEF MonitoringWaits
  <2>2. rxPeriodIn' = rxPeriodIn \/ rxPeriodIn' = rxPeriodPreset
    BY <1>9, Zenon DEF MonitoringWaits
  <2> QED
    BY <1>0, <2>1, <2>2
<1> QED
  BY <1>1, <1>2, <1>3, <1>4, <1>5, <1>6, <1>7, <1>8, <1>9 DEF Iterate

LEMMA RTHStep ==
  ASSUME NoOverride, ~ReloadWhileActive, LongQuarantine >= 1, FlightInv, RTHAccounted,
         [FlightNext]_flightVars
  PROVE  RTHAccounted'
<1> USE DEF vars, timers, navVars, history, ages
<1>1. CASE SampleNone \/ SampleSkipped \/ SampleValid \/ SampleInvalid
  <2>1. UNCHANGED <<forcedRTH, phase, rxPeriodPreset, rxPeriodIn>>
    BY <1>1, Zenon DEF SampleNone, SampleSkipped, SampleValid, SampleInvalid, StartRx
  <2>2. ran' = ran \/ ran' = ran \cup {"RX"}
    BY <1>1, Zenon DEF SampleNone, SampleSkipped, SampleValid, SampleInvalid
  <2> QED
    BY <2>1, <2>2, RTHUntouched
<1>2. CASE Switch3D \/ KillSwitch \/ NavigationDisarms \/ DisarmBySwitch
  BY <1>2, DisarmingSteps, RTHUntouched, Zenon DEF DisarmBy, DisarmElsewhere, Keep
<1>3. CASE StartMonitoring \/ NotMonitoring \/ FailsafePass \/ updateActivatedModes
  BY <1>3, RTHUntouched, Zenon DEF StartMonitoring, failsafeStartMonitoring, NotMonitoring, Keep,
     FailsafePass, BeginPass, updateActivatedModes
<1>4. CASE FailsafeIterate
  BY <1>4, RTHIterates, Zenon DEF FailsafeIterate, FlightInv
<1>5. CASE AutoArm \/ ArmBySwitch
  <2>1. UNCHANGED <<forcedRTH, phase, rxPeriodPreset, rxPeriodIn>>
    BY <1>5, Zenon DEF AutoArm, ArmBySwitch, tryArm, SetArmed
  <2>2. ran' = ran
    BY <1>5, Zenon DEF AutoArm, ArmBySwitch, Sticks
  <2> QED
    BY <2>1, <2>2, RTHUntouched
<1>6. CASE NoAutoArm \/ DisarmPending \/ DisarmRefused
  BY <1>6, RTHUntouched, Zenon DEF NoAutoArm, DisarmPending, DisarmRefused, Sticks
<1>7. CASE PidLoop
  <2>1. UNCHANGED <<phase, rxPeriodPreset>>
    BY <1>7, Zenon DEF PidLoop, Navigate
  <2>2. CASE armed
    <3>1. phase \notin {"LANDED", "RX_LOSS_MONITORING"} /\ forcedRTH' = forcedRTH
      BY <1>7, <2>2 DEF PidLoop, Navigate, Elsewhere, FlightInv, IInv, PhaseConsistent,
         PassConsistent
    <3> QED
      BY <2>1, <3>1 DEF RTHAccounted
  <2>3. CASE ~armed
    BY <1>7, <2>3 DEF PidLoop, Navigate, RTHAccounted
  <2> QED
    BY <2>2, <2>3
<1>8. CASE SaveConfig
  <2>1. CASE EepromWrite
    BY <1>8, <2>1, RTHUntouched, Zenon DEF SaveConfig, EepromWrite
  <2>2. CASE failsafeReset
    <3>1. ~active /\ forcedRTH' = forcedRTH
      BY <2>2, Zenon DEF failsafeReset
    <3>2. ~forcedRTH
      BY <3>1 DEF RTHAccounted, FlightInv, IInv, PhaseConsistent
    <3> QED
      BY <3>1, <3>2 DEF RTHAccounted
  <2> QED
    BY <1>8, <2>1, <2>2 DEF SaveConfig
<1>9. CASE FlightTick
  <2>1. UNCHANGED <<forcedRTH, phase, rxPeriodPreset>> /\ rxPeriodIn' = Countdown(rxPeriodIn)
        /\ "PID" \in ran /\ ran' = {}
    BY <1>9 DEF FlightTick, Tick
  <2>2. rxPeriodIn >= 1 => rxPeriodIn' >= 0
    BY <2>1 DEF Countdown, Expired, FlightInv, IInv, TypeOK, TimersOK
  <2> QED
    BY <2>1, <2>2 DEF RTHAccounted
<1>10. CASE UNCHANGED flightVars
  BY <1>10, RTHUntouched, Zenon DEF flightVars
<1> QED
  BY <1>1, <1>2, <1>3, <1>4, <1>5, <1>6, <1>7, <1>8, <1>9, <1>10, Zenon
  DEF FlightNext, ProcessRx, ProcessSticks

(* Between two passes an armed craft with a forced RTH is one that failsafe
   brings home: the flag never outlives the failsafe that set it, as long
   as the long quarantine takes at least a tick.                           *)
THEOREM ForcedRTHBelongsToFailsafe ==
  ASSUME NoOverride, ~ReloadWhileActive, LongQuarantine >= 1
  PROVE  FlightSpec => []ForcedRTHIsFailsafe
<1>1. FlightInit => RTHAccounted
  BY DEF FlightInit, Init, RTHAccounted
<1>2. FlightInv /\ RTHAccounted /\ [FlightNext]_flightVars => RTHAccounted'
  BY RTHStep
<1>3. FlightInv /\ RTHAccounted => ForcedRTHIsFailsafe
  BY DEF FlightInv, TaskConsistent, IInv, PhaseConsistent, PassConsistent, RTHAccounted,
     ForcedRTHIsFailsafe
<1> QED
  BY <1>1, <1>2, <1>3, FlightInvHolds, PTL DEF FlightSpec
-----------------------------------------------------------------------------
(* What every arming has passed: the checks of updateArmingStatus(), up to
   the three that emergency arming and turtle mode override.               *)
LEMMA ArmingPassesChecks ==
  ASSUME NoOverride, setup \in Setups, tryArm, ~armed, armed'
  PROVE  \E r \in Readings :
           /\ updateArmingStatus(r) /\ blockers' = ArmingBlockers(r)
           /\ blockers' \subseteq EmergencyOverride
           /\ "TURTLE" \in modes \/ On("EMERGENCY") \/ blockers' = {}
<1>1. ~On("OVERRIDE")
  BY DEF NoOverride, On
<1>2. PICK r \in Readings, emergency \in IF On("EMERGENCY") THEN BOOLEAN ELSE {FALSE} :
        updateArmingStatus(r) /\ (MayFlip \/ MayArm(emergency))
  BY Zenon DEF tryArm, vars, craft
<1>3. blockers' = ArmingBlockers(r)
  BY <1>2, Zenon DEF updateArmingStatus
<1>4. emergency => On("EMERGENCY")
  BY <1>2
<1>5. CASE blockers' = {}
  BY <1>2, <1>3, <1>5
<1>6. CASE blockers' \subseteq EmergencyOverride /\ ("TURTLE" \in modes \/ emergency)
  BY <1>2, <1>3, <1>4, <1>6
<1> QED
  BY <1>1, <1>2, <1>5, <1>6, Zenon DEF MayFlip, MayArm, CanOverride

(* Among them: the link is up, and PREARM is on, was off before and has not
   timed out.                                                              *)
LEMMA ArmingNeedsLink ==
  ASSUME NoOverride, setup \in Setups, tryArm, ~armed, armed'
  PROVE  /\ rxLinkState # "DOWN"
         /\ "PREARM" \in Boxes => "PREARM" \in modes /\ PrearmIsValid
<1>1. PICK r \in Readings : blockers' = ArmingBlockers(r) /\ blockers' \subseteq EmergencyOverride
  BY ArmingPassesChecks
<1>2. Checks(r) \subseteq blockers'
  BY <1>1 DEF ArmingBlockers
<1>3. "RC_LINK" \notin blockers' /\ "NO_PREARM" \notin blockers'
  BY <1>1 DEF EmergencyOverride
<1>4. rxLinkState = "DOWN" => "RC_LINK" \in Checks(r)
  BY Zenon DEF Checks
<1>5. "PREARM" \in Boxes /\ ~("PREARM" \in modes /\ PrearmIsValid) => "NO_PREARM" \in Checks(r)
  BY Zenon DEF Checks
<1> QED
  BY <1>2, <1>3, <1>4, <1>5

(* Only tryArm() arms.                                                     *)
LEMMA OnlyTryArmArms ==
  ASSUME FlightTypeOK, [FlightNext]_flightVars, ~armed, armed'
  PROVE  /\ AutoArm \/ ArmBySwitch
         /\ tryArm /\ task = "sticks" /\ UNCHANGED <<modes, seenOff, silentFor, prearmOnFor>>
<1> USE DEF craft, vars, ages
<1>1. CASE SampleNone \/ SampleSkipped \/ SampleValid \/ SampleInvalid
  BY <1>1, Zenon DEF SampleNone, SampleSkipped, SampleValid, SampleInvalid, StartRx
<1>2. CASE Switch3D \/ KillSwitch \/ NavigationDisarms \/ DisarmBySwitch
  BY <1>2, DisarmingSteps, Zenon DEF DisarmBy, DisarmElsewhere, Keep
<1>3. CASE StartMonitoring \/ NotMonitoring \/ FailsafePass \/ updateActivatedModes
  BY <1>3, Zenon DEF StartMonitoring, failsafeStartMonitoring, NotMonitoring, Keep,
     FailsafePass, BeginPass, updateActivatedModes
<1>4. CASE FailsafeIterate
  BY <1>4, Zenon DEF FailsafeIterate, Iterate, IdleWatching, IdleJustDisarm, IdleLossDetected,
     IdleDisarmed, LossDetected, LossIdleRecovers, ReturnHomeRecovers, ReturnHomeLanded,
     ReturnHomeLost, LandingOver, LandingRecovers, ProcedureContinues, Landed, Disarm,
     MonitoringUnlocks, MonitoringWaits, Recovered
<1>5. CASE AutoArm \/ ArmBySwitch
  BY <1>5, Zenon DEF AutoArm, ArmBySwitch, Sticks
<1>6. CASE NoAutoArm \/ DisarmPending \/ DisarmRefused
  BY <1>6, Zenon DEF NoAutoArm, DisarmPending, DisarmRefused
<1>7. CASE PidLoop \/ FlightTick
  BY <1>7, Zenon DEF PidLoop, Navigate, FlightTick, Tick
<1>8. CASE SaveConfig
  BY <1>8, Zenon DEF SaveConfig, failsafeReset, EepromWrite
<1>9. CASE UNCHANGED flightVars
  BY <1>9, Zenon DEF flightVars
<1> QED
  BY <1>1, <1>2, <1>3, <1>4, <1>5, <1>6, <1>7, <1>8, <1>9, Zenon
  DEF FlightNext, ProcessRx, ProcessSticks
-----------------------------------------------------------------------------
(* PREARM is remembered as reset only when it was seen off since the craft
   last disarmed, and timed from a time before it went on.                 *)
PrearmSeenOff ==
    /\ Switch \ modes \subseteq seenOff
    /\ prearmWasReset => "PREARM" \in seenOff
PrearmTimed ==
    /\ "PREARM" \notin modes => prearmOnFor = 0
    /\ prearmOnFor <= prearmAge

LEMMA PrearmStep ==
  ASSUME Follows("SWITCHES"), PrearmSeenOff, [FlightNext]_flightVars
  PROVE  PrearmSeenOff'
<1> USE DEF PrearmSeenOff, armState, history, ages
<1>0. "PREARM" \in Switch
  BY DEF Switch
<1>1. CASE UNCHANGED <<modes, seenOff, prearmWasReset>>
  BY <1>1
<1>2. CASE prearmWasReset' = FALSE /\ seenOff' = Switch \ modes /\ modes' = modes
  BY <1>2
<1>3. CASE SampleNone \/ SampleSkipped \/ SampleValid \/ SampleInvalid
  BY <1>1, <1>3, Zenon DEF SampleNone, SampleSkipped, SampleValid, SampleInvalid, StartRx
<1>4. CASE Switch3D \/ KillSwitch \/ NavigationDisarms \/ DisarmBySwitch
  BY <1>1, <1>2, <1>4, DisarmingSteps, Zenon DEF DisarmBy, Disarmed, Keep
<1>5. CASE StartMonitoring \/ NotMonitoring \/ FailsafePass
  BY <1>1, <1>5, Zenon DEF StartMonitoring, NotMonitoring, FailsafePass, Keep
<1>6. CASE FailsafeIterate
  BY <1>1, <1>2, <1>6, Zenon DEF FailsafeIterate, Disarmed
<1>7. CASE updateActivatedModes
  BY <1>7 DEF updateActivatedModes
<1>8. CASE AutoArm \/ ArmBySwitch \/ PidLoop
  <2>1. UNCHANGED <<modes, seenOff>>
    BY <1>8, Zenon DEF AutoArm, ArmBySwitch, PidLoop, Sticks
  <2>2. \E r \in Readings : updateArmingStatus(r)
    BY <1>8, Zenon DEF AutoArm, ArmBySwitch, PidLoop, tryArm
  <2>3. prearmWasReset' => prearmWasReset \/ "PREARM" \notin modes
    BY <2>2 DEF updateArmingStatus
  <2> QED
    BY <1>0, <2>1, <2>3
<1>9. CASE NoAutoArm \/ DisarmPending \/ DisarmRefused
  BY <1>1, <1>9, Zenon DEF NoAutoArm, DisarmPending, DisarmRefused, Sticks
<1>10. CASE SaveConfig \/ FlightTick \/ UNCHANGED flightVars
  BY <1>1, <1>10, Zenon DEF SaveConfig, FlightTick, flightVars
<1> QED
  BY <1>3, <1>4, <1>5, <1>6, <1>7, <1>8, <1>9, <1>10, Zenon
  DEF FlightNext, ProcessRx, ProcessSticks

LEMMA PrearmTimedStep ==
  ASSUME FlightTypeOK, PrearmTimed, [FlightNext]_flightVars PROVE PrearmTimed'
<1> USE DEF PrearmTimed, armState, history, ages
<1>0. prearmAge \in Nat /\ prearmOnFor \in Nat /\ PrearmTimeout \in Nat
  BY FlightAssumption DEF FlightTypeOK
<1>1. CASE UNCHANGED <<modes, prearmOnFor, prearmAge>>
  BY <1>1
<1>2. CASE SampleNone \/ SampleSkipped \/ SampleValid \/ SampleInvalid
  BY <1>1, <1>2, Zenon DEF SampleNone, SampleSkipped, SampleValid, SampleInvalid, StartRx
<1>3. CASE Switch3D \/ KillSwitch \/ NavigationDisarms \/ DisarmBySwitch
  BY <1>1, <1>3, DisarmingSteps, Zenon DEF DisarmBy, Keep
<1>4. CASE StartMonitoring \/ NotMonitoring \/ FailsafePass \/ FailsafeIterate
  BY <1>1, <1>4, Zenon DEF StartMonitoring, NotMonitoring, FailsafePass, FailsafeIterate, Keep
<1>5. CASE updateActivatedModes
  <2>1. modes' = chanBoxes /\ prearmAge' = prearmAge
        /\ prearmOnFor' = IF "PREARM" \in chanBoxes THEN prearmOnFor ELSE 0
    BY <1>5, Zenon DEF updateActivatedModes
  <2> QED
    BY <1>0, <2>1
<1>6. CASE AutoArm \/ ArmBySwitch \/ PidLoop
  <2>1. UNCHANGED <<modes, prearmOnFor>>
    BY <1>6, Zenon DEF AutoArm, ArmBySwitch, PidLoop, Sticks
  <2>2. \E r \in Readings : updateArmingStatus(r)
    BY <1>6, Zenon DEF AutoArm, ArmBySwitch, PidLoop, tryArm
  <2>3. prearmAge' = prearmAge \/ ("PREARM" \notin modes /\ prearmAge' = 0)
    BY <2>2 DEF updateArmingStatus
  <2> QED
    BY <2>1, <2>3
<1>7. CASE NoAutoArm \/ DisarmPending \/ DisarmRefused
  BY <1>1, <1>7, Zenon DEF NoAutoArm, DisarmPending, DisarmRefused, Sticks
<1>8. CASE SaveConfig \/ UNCHANGED flightVars
  BY <1>1, <1>8, Zenon DEF SaveConfig, flightVars
<1>9. CASE FlightTick
  <2>1. modes' = modes /\ prearmAge' = Older(prearmAge, PrearmTimeout)
        /\ prearmOnFor' = IF "PREARM" \in modes THEN Older(prearmOnFor, PrearmTimeout) ELSE 0
    BY <1>9 DEF FlightTick
  <2> QED
    BY <1>0, <2>1 DEF Older
<1> QED
  BY <1>2, <1>3, <1>4, <1>5, <1>6, <1>7, <1>8, <1>9, Zenon
  DEF FlightNext, ProcessRx, ProcessSticks

(* prearm must be reset before arming is possible: whenever a craft that has
   the PREARM mode arms, in an emergency and in turtle mode too, PREARM is
   on, was off at some time since the craft last disarmed and has been on
   for less than its time-out.                                             *)
THEOREM PrearmComesFirst ==
  ASSUME NoOverride, Follows("SWITCHES") PROVE FlightSpec => PrearmBeforeArming
<1>1. FlightInit => PrearmSeenOff /\ PrearmTimed
  BY DEF FlightInit, PrearmSeenOff, PrearmTimed
<1>2. PrearmSeenOff /\ [FlightNext]_flightVars => PrearmSeenOff'
  BY PrearmStep
<1>3. FlightTypeOK /\ PrearmTimed /\ [FlightNext]_flightVars => PrearmTimed'
  BY PrearmTimedStep
<1>4. FlightTypeOK /\ PrearmSeenOff /\ PrearmTimed /\ [FlightNext]_flightVars =>
        (~armed /\ armed' /\ "PREARM" \in Boxes
           => /\ "PREARM" \in modes /\ "PREARM" \in seenOff
              /\ PrearmTimeout = 0 \/ prearmOnFor < PrearmTimeout)
  <2> SUFFICES ASSUME FlightTypeOK, PrearmSeenOff, PrearmTimed, [FlightNext]_flightVars,
                      ~armed, armed', "PREARM" \in Boxes
               PROVE  /\ "PREARM" \in modes /\ "PREARM" \in seenOff
                      /\ PrearmTimeout = 0 \/ prearmOnFor < PrearmTimeout
    OBVIOUS
  <2>1. "PREARM" \in modes /\ PrearmIsValid
    BY OnlyTryArmArms, ArmingNeedsLink DEF FlightTypeOK
  <2>2. prearmAge \in Nat /\ prearmOnFor \in Nat /\ PrearmTimeout \in Nat
    BY FlightAssumption DEF FlightTypeOK
  <2> QED
    BY <2>1, <2>2 DEF PrearmIsValid, PrearmSeenOff, PrearmTimed
<1> QED
  BY <1>1, <1>2, <1>3, <1>4, FlightTypeCorrect, PTL DEF FlightSpec, PrearmBeforeArming
-----------------------------------------------------------------------------
(* A craft that was refused with the switch on has the switch held against
   it until the switch is seen off.                                        *)
RefusalSticks == refused => "ARM" \in modes /\ "ARM_SWITCH" \in blockers

LEMMA RefusalChecked ==
  ASSUME RefusalSticks, NEW r \in Readings, updateArmingStatus(r), modes' = modes
  PROVE  RefusalSticks'
<1> USE DEF RefusalSticks
<1>1. CASE armed
  BY <1>1 DEF updateArmingStatus
<1>2. CASE ~armed
  <2>1. refused' => "ARM" \in modes /\ ("ARM_SWITCH" \in blockers \/ locked \/ blockers' # {})
    BY <1>2 DEF updateArmingStatus, RefusesSwitch
  <2>2. blockers' = ArmingBlockers(r)
    BY <1>2 DEF updateArmingStatus
  <2> QED
    BY <2>1, <2>2 DEF ArmingBlockers
<1> QED
  BY <1>1, <1>2

LEMMA RefusalStep == ASSUME RefusalSticks, [FlightNext]_flightVars PROVE RefusalSticks'
<1> USE DEF armState, history, ages
<1>1. CASE UNCHANGED <<modes, blockers, refused>>
  BY <1>1 DEF RefusalSticks
<1>2. CASE SampleNone \/ SampleSkipped \/ SampleValid \/ SampleInvalid
  BY <1>1, <1>2, Zenon DEF SampleNone, SampleSkipped, SampleValid, SampleInvalid, StartRx
<1>3. CASE Switch3D \/ KillSwitch \/ NavigationDisarms \/ DisarmBySwitch
  BY <1>1, <1>3, DisarmingSteps, Zenon DEF DisarmBy, Disarmed, Keep
<1>4. CASE StartMonitoring \/ NotMonitoring \/ FailsafePass
  BY <1>1, <1>4, Zenon DEF StartMonitoring, NotMonitoring, FailsafePass, Keep
<1>5. CASE FailsafeIterate
  BY <1>1, <1>5, Zenon DEF FailsafeIterate, Disarmed
<1>6. CASE updateActivatedModes
  BY <1>6 DEF updateActivatedModes, RefusalSticks
<1>7. CASE AutoArm \/ ArmBySwitch \/ PidLoop
  <2>1. modes' = modes
    BY <1>7, Zenon DEF AutoArm, ArmBySwitch, PidLoop, Sticks
  <2>2. \E r \in Readings : updateArmingStatus(r)
    BY <1>7, Zenon DEF AutoArm, ArmBySwitch, PidLoop, tryArm
  <2> QED
    BY <2>1, <2>2, RefusalChecked
<1>8. CASE NoAutoArm \/ DisarmPending \/ DisarmRefused
  BY <1>1, <1>8, Zenon DEF NoAutoArm, DisarmPending, DisarmRefused, Sticks
<1>9. CASE SaveConfig \/ FlightTick \/ UNCHANGED flightVars
  BY <1>1, <1>9, Zenon DEF SaveConfig, FlightTick, flightVars
<1> QED
  BY <1>2, <1>3, <1>4, <1>5, <1>6, <1>7, <1>8, <1>9, Zenon
  DEF FlightNext, ProcessRx, ProcessSticks

(* A switch that was on while something blocked arming never arms the craft
   when the blocker goes away; only turtle mode, or a pilot who asks for
   emergency arming, gets past it.                                         *)
NoEmergency == \A s \in Setups : "EMERGENCY" \notin s.options

THEOREM ArmingIsAskedFor ==
  ASSUME NoOverride, NoEmergency PROVE FlightSpec => ArmingIsDeliberate
<1>1. FlightInit => RefusalSticks
  BY DEF FlightInit, RefusalSticks
<1>2. RefusalSticks /\ [FlightNext]_flightVars => RefusalSticks'
  BY RefusalStep
<1>3. FlightTypeOK /\ RefusalSticks /\ [FlightNext]_flightVars =>
        (~armed /\ armed' => ~refused \/ "TURTLE" \in modes)
  <2> SUFFICES ASSUME FlightTypeOK, RefusalSticks, [FlightNext]_flightVars, ~armed, armed',
                      "TURTLE" \notin modes
               PROVE  ~refused
    OBVIOUS
  <2>1. setup \in Setups
    BY DEF FlightTypeOK
  <2>2. ~On("EMERGENCY")
    BY <2>1 DEF On, NoEmergency
  <2>3. PICK r \in Readings : blockers' = ArmingBlockers(r) /\ blockers' = {}
    BY <2>1, <2>2, OnlyTryArmArms, ArmingPassesChecks
  <2> QED
    BY <2>3 DEF ArmingBlockers, RefusalSticks
<1> QED
  BY <1>1, <1>2, <1>3, FlightTypeCorrect, PTL DEF FlightSpec, ArmingIsDeliberate
-----------------------------------------------------------------------------
(* Once the RX task has got past the failsafe with the link down, an armed
   craft is in the hands of failsafe.                                      *)
OutageSeen ==
    /\ task \in {"scheduler", "sticks", "kill", "modes"}
    /\ monitoring /\ armed /\ rxLinkState = "DOWN"
    => controlling

(* The link state moves with the samples and with writes of the EEPROM,
   which declare it up.                                                    *)
LEMMA LinkMoves ==
  ASSUME [FlightNext]_flightVars,
         ~(SampleNone \/ SampleSkipped \/ SampleValid \/ SampleInvalid)
  PROVE  rxLinkState' \in {rxLinkState, "UP"}
<1> USE DEF vars, rxVars
<1>1. CASE Switch3D \/ KillSwitch \/ NavigationDisarms \/ DisarmBySwitch
  BY <1>1, DisarmingSteps, Zenon DEF DisarmBy, Disarmed, StatsWritten, Keep
<1>2. CASE StartMonitoring \/ NotMonitoring \/ FailsafePass \/ updateActivatedModes
  BY <1>2, Zenon DEF StartMonitoring, failsafeStartMonitoring, NotMonitoring, Keep,
     FailsafePass, BeginPass, updateActivatedModes
<1>3. CASE FailsafeIterate
  BY <1>3, Zenon DEF FailsafeIterate, Iterate, IdleWatching, IdleJustDisarm, IdleLossDetected,
     IdleDisarmed, LossDetected, LossIdleRecovers, ReturnHomeRecovers, ReturnHomeLanded,
     ReturnHomeLost, LandingOver, LandingRecovers, ProcedureContinues, Landed, Disarm, RxResumed,
     MonitoringUnlocks, MonitoringWaits, Recovered
<1>4. CASE AutoArm \/ ArmBySwitch
  BY <1>4, Zenon DEF AutoArm, ArmBySwitch, tryArm, SetArmed
<1>5. CASE NoAutoArm \/ DisarmPending \/ DisarmRefused
  BY <1>5, Zenon DEF NoAutoArm, DisarmPending, DisarmRefused
<1>6. CASE PidLoop \/ FlightTick
  BY <1>6, Zenon DEF PidLoop, Navigate, FlightTick, Tick, LinkTick
<1>7. CASE SaveConfig
  BY <1>7, Zenon DEF SaveConfig, failsafeReset, LinkReset, EepromWrite, RxResumed
<1>8. CASE UNCHANGED flightVars
  BY <1>8, Zenon DEF flightVars
<1> QED
  BY <1>1, <1>2, <1>3, <1>4, <1>5, <1>6, <1>7, <1>8, Zenon
  DEF FlightNext, ProcessRx, ProcessSticks

LEMMA OutageStep ==
  ASSUME NoOverride, FlightInv, OutageSeen, [FlightNext]_flightVars
  PROVE  OutageSeen'
<1>0. FlightTypeOK /\ setup \in Setups
  BY DEF FlightInv, FlightTypeOK
<1> SUFFICES ASSUME task' \in {"scheduler", "sticks", "kill", "modes"},
                    monitoring', armed', rxLinkState' = "DOWN"
             PROVE  controlling'
  BY DEF OutageSeen
<1> USE DEF OutageSeen
<1>1. CASE SampleNone \/ SampleSkipped \/ SampleValid \/ SampleInvalid
  BY <1>1 DEF SampleNone, SampleSkipped, SampleValid, SampleInvalid, StartRx
<1>2. CASE FailsafeIterate
  <2>1. task = "failsafe" /\ pc' = "tasks" /\ Iterate
    BY <1>2 DEF FailsafeIterate
  <2>2. pc = "pass" /\ IInv
    BY <2>1 DEF FlightInv, TaskConsistent
  <2>3. ~pass.rxOk
    <3>1. IdleWatching \/ IdleDisarmed \/ ProcedureContinues \/ MonitoringWaits
      BY <2>1, <2>2, PassEnds DEF Next
    <3>2. rxLinkState' = rxLinkState
      BY <3>1, Zenon
      DEF IdleWatching, IdleDisarmed, ProcedureContinues, MonitoringWaits, rxVars
    <3> QED
      BY <2>2, <3>2 DEF IInv, PassConsistent
  <2> QED
    BY <2>1, <2>2, <2>3, LossAnsweredStep DEF Next
<1>3. CASE ~armed
  <2>1. tryArm /\ (AutoArm \/ ArmBySwitch)
    BY <1>0, <1>3, OnlyTryArmArms
  <2>2. rxLinkState # "DOWN"
    BY <1>0, <1>3, <2>1, ArmingNeedsLink
  <2>3. rxLinkState' = rxLinkState
    BY <2>1, Zenon DEF tryArm, SetArmed, vars, rxVars
  <2> QED
    BY <2>2, <2>3
<1>4. CASE armed /\ ~FailsafeIterate /\ ~(SampleNone \/ SampleSkipped \/ SampleValid \/ SampleInvalid)
  <2>1. rxLinkState = "DOWN"
    BY <1>4, LinkMoves
  <2> USE DEF vars
  <2>2. CASE Switch3D \/ FailsafePass \/ StartMonitoring
    BY <2>2 DEF Switch3D, FailsafePass, StartMonitoring
  <2>3. CASE NotMonitoring
    BY <2>3, Zenon DEF NotMonitoring, Keep
  <2>4. CASE KillSwitch \/ NavigationDisarms \/ DisarmBySwitch
    <3>1. UNCHANGED <<monitoring, controlling>>
      BY <2>4, DisarmingSteps, Zenon DEF DisarmBy, DisarmElsewhere, Elsewhere, Keep
    <3> QED
      BY <1>4, <2>1, <2>4, <3>1 DEF KillSwitch, NavigationDisarms, DisarmBySwitch
  <2>5. CASE AutoArm \/ ArmBySwitch
    <3>1. UNCHANGED <<monitoring, controlling>>
      BY <2>5, Zenon DEF AutoArm, ArmBySwitch, tryArm, SetArmed, Elsewhere
    <3> QED
      BY <1>4, <2>1, <2>5, <3>1 DEF AutoArm, ArmBySwitch, Sticks
  <2>6. CASE NoAutoArm \/ DisarmPending \/ DisarmRefused \/ updateActivatedModes
    <3>1. UNCHANGED <<monitoring, controlling>>
      BY <2>6, Zenon DEF NoAutoArm, DisarmPending, DisarmRefused, updateActivatedModes
    <3> QED
      BY <1>4, <2>1, <2>6, <3>1 DEF NoAutoArm, DisarmPending, DisarmRefused, Sticks,
         updateActivatedModes
  <2>7. CASE PidLoop \/ FlightTick
    <3>1. UNCHANGED <<monitoring, controlling>>
      BY <2>7, Zenon DEF PidLoop, Navigate, FlightTick, Tick, Elsewhere
    <3> QED
      BY <1>4, <2>1, <2>7, <3>1 DEF PidLoop, FlightTick
  <2>8. CASE SaveConfig
    BY <1>4, <2>8 DEF SaveConfig
  <2>9. CASE UNCHANGED flightVars
    BY <1>4, <2>1, <2>9 DEF flightVars
  <2> QED
    BY <1>4, <2>2, <2>3, <2>4, <2>5, <2>6, <2>7, <2>8, <2>9, Zenon
    DEF FlightNext, ProcessRx, ProcessSticks
<1> QED
  BY <1>1, <1>2, <1>3, <1>4

(* The EEPROM is not written in flight or between flights: every write
   declares the link up, and what it does to silence is run rearm_on_silence. *)
NoEepromWrites == \A s \in Setups : s.options \cap {"STATS", "SAVES"} = {}

(* The tracker measures silence from the last valid sample, and the link is
   down from the first sample after the guard time on.                     *)
SilenceMeasured == Follows("SILENCE") =>
    /\ sinceReceived > RxDataFailurePeriod <=> silentFor > RxDataFailurePeriod
    /\ silentFor <= RxDataFailurePeriod => silentFor = sinceReceived
    /\ silentFor > RxDataFailurePeriod /\ (silentFor > RxDataFailurePeriod + 1 \/ "RX" \in ran)
         => rxLinkState = "DOWN"

(* Without EEPROM writes only samples and the clock move the tracker.      *)
LEMMA TrackerMoves ==
  ASSUME NoEepromWrites, FlightTypeOK, [FlightNext]_flightVars,
         ~(SampleNone \/ SampleSkipped \/ SampleValid \/ SampleInvalid \/ FlightTick)
  PROVE  UNCHANGED <<rxVars, silentFor>> /\ ("RX" \in ran' <=> "RX" \in ran)
<1>0. ~On("STATS") /\ ~On("SAVES")
  BY DEF On, NoEepromWrites, FlightTypeOK
<1> USE DEF vars, history, ages
<1>1. CASE Switch3D \/ KillSwitch \/ NavigationDisarms \/ DisarmBySwitch
  BY <1>0, <1>1, DisarmingSteps, Zenon DEF DisarmBy, Disarmed, Keep
<1>2. CASE StartMonitoring \/ NotMonitoring \/ FailsafePass \/ updateActivatedModes
  BY <1>2, Zenon DEF StartMonitoring, failsafeStartMonitoring, NotMonitoring, Keep,
     FailsafePass, BeginPass, updateActivatedModes
<1>3. CASE FailsafeIterate
  <2>1. ran' = ran /\ silentFor' = silentFor /\ Iterate
    BY <1>3, Zenon DEF FailsafeIterate
  <2>2. armed /\ ~armed' => UNCHANGED rxVars
    BY <1>0, <1>3, Zenon DEF FailsafeIterate, Disarmed
  <2>3. UNCHANGED rxVars \/ (armed /\ ~armed')
    BY <2>1, Zenon DEF Iterate, IdleWatching, IdleJustDisarm, IdleLossDetected,
       IdleDisarmed, LossDetected, LossIdleRecovers, ReturnHomeRecovers, ReturnHomeLanded,
       ReturnHomeLost, LandingOver, LandingRecovers, ProcedureContinues, Landed, Disarm,
       MonitoringUnlocks, MonitoringWaits, Recovered
  <2> QED
    BY <2>1, <2>2, <2>3, Zenon
<1>4. CASE AutoArm \/ ArmBySwitch
  BY <1>4, Zenon DEF AutoArm, ArmBySwitch, Sticks, tryArm, SetArmed
<1>5. CASE NoAutoArm \/ DisarmPending \/ DisarmRefused
  BY <1>5, Zenon DEF NoAutoArm, DisarmPending, DisarmRefused, Sticks
<1>6. CASE PidLoop
  <2>1. UNCHANGED <<rxVars, silentFor>> /\ ran' = ran \cup {"PID"}
    BY <1>6, Zenon DEF PidLoop, Navigate
  <2> QED
    BY <2>1
<1>7. CASE UNCHANGED flightVars
  BY <1>7, Zenon DEF flightVars
<1> QED
  BY <1>0, <1>1, <1>2, <1>3, <1>4, <1>5, <1>6, <1>7, Zenon
  DEF FlightNext, ProcessRx, ProcessSticks, SaveConfig

LEMMA SilenceStep ==
  ASSUME NoEepromWrites, FlightInv, SilenceMeasured, [FlightNext]_flightVars
  PROVE  SilenceMeasured'
<1> SUFFICES ASSUME Follows("SILENCE") PROVE SilenceMeasured'
  BY DEF SilenceMeasured, Follows
<1>0. /\ FlightTypeOK /\ silentFor \in 0 .. RxDataFailurePeriod + 2
      /\ sinceReceived \in 0 .. RxDataFailurePeriod + 1 /\ RxDataFailurePeriod \in Nat
  BY RxLinkAssumption
  DEF FlightInv, FlightTypeOK, SilenceCap, IInv, TypeOK, LinkTypeOK
<1> USE DEF SilenceMeasured, rxVars, ages
<1>1. CASE SampleNone \/ SampleSkipped
  BY <1>0, <1>1 DEF SampleNone, SampleSkipped
<1>2. CASE SampleValid
  BY <1>0, <1>2 DEF SampleValid, ValidDataReceived
<1>3. CASE SampleInvalid
  <2>1. UNCHANGED <<sinceReceived, silentFor>>
    BY <1>3, Zenon DEF SampleInvalid, ValidDataFailed
  <2>2. sinceReceived > RxDataFailurePeriod => rxLinkState' = "DOWN"
    BY <1>3 DEF SampleInvalid, ValidDataFailed
  <2> QED
    BY <1>0, <2>1, <2>2
<1>4. CASE FlightTick
  <2>1. /\ "RX" \in ran /\ ran' = {} /\ rxLinkState' = rxLinkState
        /\ sinceReceived' = IF sinceReceived > RxDataFailurePeriod THEN sinceReceived
                            ELSE sinceReceived + 1
        /\ silentFor' = IF silentFor < SilenceCap THEN silentFor + 1 ELSE SilenceCap
    BY <1>4 DEF FlightTick, Tick, LinkTick, Older
  <2> QED
    BY <1>0, <2>1 DEF SilenceCap
<1>5. CASE ~(SampleNone \/ SampleSkipped \/ SampleValid \/ SampleInvalid \/ FlightTick)
  <2>1. UNCHANGED <<rxVars, silentFor>> /\ ("RX" \in ran' <=> "RX" \in ran)
    BY <1>0, <1>5, TrackerMoves
  <2> QED
    BY <2>1
<1> QED
  BY <1>1, <1>2, <1>3, <1>4, <1>5

LEMMA SilenceHolds ==
  ASSUME NoOverride, NoEepromWrites, ~ReloadWhileActive
  PROVE  FlightSpec => [](FlightInv /\ OutageSeen /\ SilenceMeasured)
<1>1. FlightInit => OutageSeen /\ SilenceMeasured
  BY RxLinkAssumption DEF FlightInit, Init, LinkInit, OutageSeen, SilenceMeasured
<1>2. FlightInv /\ OutageSeen /\ [FlightNext]_flightVars => OutageSeen'
  BY OutageStep
<1>3. FlightInv /\ SilenceMeasured /\ [FlightNext]_flightVars => SilenceMeasured'
  BY SilenceStep
<1> QED
  BY <1>1, <1>2, <1>3, FlightInvHolds, PTL DEF FlightSpec

LEMMA LongSilenceIsDown ==
  ASSUME FlightTypeOK, SilenceMeasured, silentFor > RxDataFailurePeriod + 1
  PROVE  rxLinkState = "DOWN"
<1>1. RxDataFailurePeriod \in Nat /\ silentFor \in 0 .. SilenceCap
  BY RxLinkAssumption DEF FlightTypeOK
<1>2. Follows("SILENCE")
  BY <1>1 DEF SilenceCap
<1> QED
  BY <1>1, <1>2 DEF SilenceMeasured

(* When no valid sample came for longer than the guard time, an armed craft
   is in the hands of failsafe once the RX task has run.                   *)
THEOREM SilenceAnswered ==
  ASSUME NoOverride, NoEepromWrites, ~ReloadWhileActive
  PROVE  FlightSpec => []SilenceIsAnswered
<1>1. FlightInv /\ OutageSeen /\ SilenceMeasured => SilenceIsAnswered
  BY LongSilenceIsDown DEF FlightInv, OutageSeen, SilenceIsAnswered
<1> QED
  BY <1>1, SilenceHolds, PTL

(* A craft does not arm in silence.  With statistics it does, which is what
   run rearm_on_silence shows.                                             *)
THEOREM ArmsOnDataOnly ==
  ASSUME NoOverride, NoEepromWrites, ~ReloadWhileActive
  PROVE  FlightSpec => ArmingNeedsData
<1>1. FlightInv /\ SilenceMeasured /\ [FlightNext]_flightVars =>
        (~armed /\ armed' => silentFor <= RxDataFailurePeriod + 1)
  <2> SUFFICES ASSUME FlightInv, SilenceMeasured, [FlightNext]_flightVars, ~armed, armed'
               PROVE  silentFor <= RxDataFailurePeriod + 1
    OBVIOUS
  <2>1. FlightTypeOK /\ setup \in Setups
    BY DEF FlightInv, FlightTypeOK
  <2>2. rxLinkState # "DOWN"
    BY <2>1, OnlyTryArmArms, ArmingNeedsLink
  <2>3. RxDataFailurePeriod \in Nat /\ silentFor \in 0 .. SilenceCap /\ SilenceCap \in Nat
    BY <2>1, RxLinkAssumption DEF FlightTypeOK, SilenceCap
  <2> QED
    BY <2>1, <2>2, <2>3, LongSilenceIsDown
<1> QED
  BY <1>1, SilenceHolds, PTL DEF FlightSpec, ArmingNeedsData
-----------------------------------------------------------------------------
(* OFF frames and the disarm timer: an armed craft whose arming switch went
   off by one frame has its timer started by that frame or later.          *)
FramesCounted == ~On("AUTO_ARM") =>
    /\ "ARM" \in modes => "ARM" \in chanBoxes \/ offFrames > 0
    /\ armed /\ "ARM" \notin modes => offFrames > 0
    /\ "ARM" \in modes /\ task \in {"kill", "modes"} => rcDisarmAge = 0
    /\ armed /\ "ARM" \notin modes /\ offFrames = 1 => rcDisarmAge <= offAge

LEMMA SetupIsFixed == ASSUME [FlightNext]_flightVars PROVE setup' = setup
BY DisarmingSteps, Zenon DEF FlightNext, ProcessRx, ProcessSticks, flightVars,
   SampleNone, SampleSkipped, SampleValid, SampleInvalid, StartRx, DisarmBy, Keep,
   StartMonitoring, NotMonitoring, FailsafePass, FailsafeIterate, updateActivatedModes,
   AutoArm, ArmBySwitch, NoAutoArm, DisarmPending, DisarmRefused, Sticks,
   PidLoop, SaveConfig, FlightTick

(* An iteration of failsafe never arms.                                    *)
LEMMA IterationsDoNotArm == ASSUME FailsafeIterate, armed' PROVE armed
BY Zenon DEF FailsafeIterate, Iterate, IdleWatching, IdleJustDisarm, IdleLossDetected,
   IdleDisarmed, LossDetected, LossIdleRecovers, ReturnHomeRecovers, ReturnHomeLanded,
   ReturnHomeLost, LandingOver, LandingRecovers, ProcedureContinues, Landed, Disarm,
   MonitoringUnlocks, MonitoringWaits, Recovered, craft

LEMMA FramesStep ==
  ASSUME Follows("FRAMES"), FlightTypeOK, FramesCounted, [FlightNext]_flightVars
  PROVE  FramesCounted'
<1>1. setup' = setup
  BY SetupIsFixed
<1> SUFFICES ASSUME ~On("AUTO_ARM") PROVE FramesCounted'
  BY <1>1 DEF FramesCounted, On
<1>2. /\ SwitchDisarmDelay \in Nat /\ rcDisarmAge \in 0 .. SwitchDisarmDelay + 1
      /\ offFrames \in 0 .. 2 /\ FrameCap = 2 /\ offAge \in 0 .. SwitchDisarmDelay + 1
  BY FlightAssumption DEF FlightTypeOK, FrameCap
<1>3. CASE SampleNone \/ SampleSkipped \/ SampleInvalid
  <2>1. UNCHANGED <<chanBoxes, modes, armed, rcDisarmAge, offFrames, offAge>>
    BY <1>3, Zenon DEF SampleNone, SampleSkipped, SampleInvalid, StartRx, rcData, armState,
       craft, ages
  <2>2. task' \in {"switch3D", "monitor"}
    BY <1>3 DEF SampleNone, SampleSkipped, SampleInvalid, StartRx
  <2> QED
    BY <2>1, <2>2 DEF FramesCounted
<1>4. CASE SampleValid
  <2>1. UNCHANGED <<modes, armed, rcDisarmAge>>
    BY <1>4, Zenon DEF SampleValid, StartRx, armState, craft
  <2>2. task' \in {"switch3D", "monitor"}
    BY <1>4 DEF SampleValid, StartRx
  <2>3. CASE SwitchSeenOff
    <3>1. offFrames' \in 1 .. 2 /\ (offFrames' = 1 => offFrames = 0)
      BY <1>2, <2>3 DEF SwitchSeenOff
    <3> QED
      BY <1>2, <2>1, <2>2, <3>1 DEF FramesCounted
  <2>4. CASE ("ARM" \in chanBoxes => "ARM" \in chanBoxes') /\ UNCHANGED <<offFrames, offAge>>
    BY <2>1, <2>2, <2>4 DEF FramesCounted
  <2> QED
    BY <1>4, <2>3, <2>4, Zenon DEF SampleValid
<1>5. CASE Switch3D \/ KillSwitch \/ NavigationDisarms \/ DisarmBySwitch
  <2>1. UNCHANGED <<chanBoxes, modes, rcDisarmAge, offFrames, offAge>>
    BY <1>5, DisarmingSteps, Zenon DEF DisarmBy, Keep, rcData, armState, history, ages
  <2>2. armed' = FALSE \/ (armed' = armed /\ ~DisarmBySwitch)
    BY <1>5, Zenon DEF Switch3D, KillSwitch, NavigationDisarms, DisarmBySwitch, DisarmBy,
       DisarmElsewhere, Disarm, Keep, vars, craft
  <2>3. \/ task = "switch3D" /\ task' = "monitor"
        \/ task = "kill" /\ task' = "modes"
        \/ task' = task
        \/ DisarmBySwitch /\ "ARM" \notin modes
    BY <1>5, Zenon DEF Switch3D, KillSwitch, NavigationDisarms, DisarmBySwitch, SwitchedOff
  <2> QED
    BY <2>1, <2>2, <2>3 DEF FramesCounted
<1>6. CASE StartMonitoring \/ NotMonitoring \/ FailsafePass \/ FailsafeIterate
  <2>1. UNCHANGED <<chanBoxes, modes, rcDisarmAge, offFrames, offAge>>
    BY <1>6, Zenon DEF StartMonitoring, NotMonitoring, FailsafePass, FailsafeIterate, Keep,
       rcData, armState, history, ages
  <2>2. armed' => armed
    BY <1>6, IterationsDoNotArm, Zenon DEF StartMonitoring, failsafeStartMonitoring,
       NotMonitoring, FailsafePass, BeginPass, Keep, vars, craft
  <2>3. task \in {"monitor", "failsafe"} /\ task' \in {"monitor", "failsafe", "sticks"}
    BY <1>6 DEF StartMonitoring, NotMonitoring, FailsafePass, FailsafeIterate
  <2> QED
    BY <2>1, <2>2, <2>3 DEF FramesCounted
<1>7. CASE ArmBySwitch
  <2>1. UNCHANGED <<chanBoxes, modes, offFrames>> /\ rcDisarmAge' = 0 /\ "ARM" \in modes
    BY <1>7, Zenon DEF ArmBySwitch, Sticks, rcData, ages
  <2> QED
    BY <2>1 DEF FramesCounted
<1>8. CASE DisarmPending \/ DisarmRefused
  <2>1. /\ UNCHANGED <<chanBoxes, modes, offFrames, offAge, armed>>
        /\ "ARM" \notin modes /\ task' \in {"kill", "modes"}
    BY <1>8, Zenon DEF DisarmPending, DisarmRefused, SwitchedOff, Sticks, AfterSticks, rcData,
       vars, craft, ages
  <2>2. rcDisarmAge' \in {0, rcDisarmAge}
    BY <1>8, Zenon DEF DisarmPending, DisarmRefused, armState
  <2> QED
    BY <1>2, <2>1, <2>2 DEF FramesCounted
<1>9. CASE updateActivatedModes
  <2>1. UNCHANGED <<chanBoxes, armed, rcDisarmAge>> /\ modes' = chanBoxes
        /\ task = "modes" /\ task' = "scheduler"
    BY <1>9, Zenon DEF updateActivatedModes, rcData, vars, craft, armState
  <2>2. /\ offFrames' = IF "ARM" \in chanBoxes THEN 0 ELSE offFrames
        /\ offAge' = IF "ARM" \in chanBoxes THEN 0 ELSE offAge
    BY <1>9, Zenon DEF updateActivatedModes
  <2> QED
    BY <1>2, <2>1, <2>2 DEF FramesCounted
<1>10. CASE PidLoop \/ SaveConfig
  <2>1. UNCHANGED <<chanBoxes, modes, armed, rcDisarmAge, offFrames, offAge, task>>
    BY <1>10, Zenon DEF PidLoop, Navigate, SaveConfig, failsafeReset, EepromWrite, craft, rcData,
       armState, history, ages
  <2> QED
    BY <2>1 DEF FramesCounted
<1>11. CASE FlightTick
  <2>1. UNCHANGED <<chanBoxes, modes, armed, offFrames, task>> /\ task = "scheduler"
    BY <1>11, Zenon DEF FlightTick, Tick, rcData, craft
  <2>2. /\ rcDisarmAge' = Older(rcDisarmAge, SwitchDisarmDelay)
        /\ offAge' = IF offFrames = 1 THEN Older(offAge, SwitchDisarmDelay) ELSE 0
    BY <1>11 DEF FlightTick
  <2> QED
    BY <1>2, <2>1, <2>2 DEF FramesCounted, Older
<1>12. CASE UNCHANGED flightVars
  <2>1. UNCHANGED <<chanBoxes, modes, armed, rcDisarmAge, offFrames, offAge, task>>
    BY <1>12, Zenon DEF flightVars, vars, craft, rcData, armState, history, ages
  <2> QED
    BY <2>1 DEF FramesCounted
<1> QED
  BY <1>3, <1>4, <1>5, <1>6, <1>7, <1>8, <1>9, <1>10, <1>11, <1>12, Zenon
  DEF FlightNext, ProcessRx, ProcessSticks, AutoArm, NoAutoArm

(* Where the reason for a disarm is the switch, it was DisarmBySwitch.     *)
LEMMA SwitchReason ==
  ASSUME FlightTypeOK, [FlightNext]_flightVars, armed, ~armed', lastDisarmReason' = "SWITCH"
  PROVE  DisarmBySwitch
<1> USE DEF vars, craft
<1>1. CASE SampleNone \/ SampleSkipped \/ SampleValid \/ SampleInvalid
  BY <1>1, Zenon DEF SampleNone, SampleSkipped, SampleValid, SampleInvalid, StartRx
<1>2. CASE Switch3D \/ KillSwitch \/ NavigationDisarms
  <2>1. lastDisarmReason' \in {"SWITCH_3D", "KILLSWITCH", "NAVIGATION"}
    BY <1>2, Zenon DEF Switch3D, KillSwitch, NavigationDisarms, DisarmBy, Disarmed, Keep
  <2> QED
    BY <2>1
<1>3. CASE StartMonitoring \/ NotMonitoring \/ FailsafePass \/ updateActivatedModes
  BY <1>3, Zenon DEF StartMonitoring, failsafeStartMonitoring, NotMonitoring, Keep,
     FailsafePass, BeginPass, updateActivatedModes
<1>4. CASE FailsafeIterate
  BY <1>4 DEF FailsafeIterate, Disarmed
<1>5. CASE AutoArm \/ ArmBySwitch
  BY <1>5, Zenon DEF AutoArm, ArmBySwitch, tryArm, SetArmed
<1>6. CASE NoAutoArm \/ DisarmPending \/ DisarmRefused
  BY <1>6, Zenon DEF NoAutoArm, DisarmPending, DisarmRefused
<1>7. CASE PidLoop \/ FlightTick
  BY <1>7, Zenon DEF PidLoop, Navigate, FlightTick, Tick
<1>8. CASE SaveConfig
  BY <1>8, Zenon DEF SaveConfig, failsafeReset, EepromWrite
<1>9. CASE UNCHANGED flightVars
  BY <1>9, Zenon DEF flightVars
<1> QED
  BY <1>1, <1>2, <1>3, <1>4, <1>5, <1>6, <1>7, <1>8, <1>9, Zenon
  DEF FlightNext, ProcessRx, ProcessSticks

(* One frame cannot disarm the craft at once: a disarm by the switch has
   seen two frames with the switch off, or has sampled the one for longer
   than the guard time, whatever that is; a frame is sampled again while its
   signal is believed, or held.  Overrides and bad pulses included.        *)
THEOREM DisarmIsConfirmed ==
  ASSUME Follows("FRAMES") PROVE FlightSpec => OneFrameCannotDisarm
<1>1. FlightInit => FramesCounted
  BY DEF FlightInit, Init, FramesCounted
<1>2. FlightTypeOK /\ FramesCounted /\ [FlightNext]_flightVars => FramesCounted'
  BY FramesStep
<1>3. FlightTypeOK /\ FramesCounted /\ [FlightNext]_flightVars =>
        (armed /\ ~armed' /\ lastDisarmReason' = "SWITCH"
           => offFrames = 2 \/ offAge > SwitchDisarmDelay)
  <2> SUFFICES ASSUME FlightTypeOK, FramesCounted, DisarmBySwitch, armed
               PROVE  offFrames = 2 \/ offAge > SwitchDisarmDelay
    BY SwitchReason
  <2>1. ~On("AUTO_ARM") /\ "ARM" \notin modes /\ rcDisarmAge > SwitchDisarmDelay
    BY DEF DisarmBySwitch, SwitchedOff
  <2>2. /\ SwitchDisarmDelay \in Nat /\ rcDisarmAge \in Int
        /\ offFrames \in 0 .. 2 /\ offAge \in Int
    BY FlightAssumption DEF FlightTypeOK, FrameCap
  <2> QED
    BY <2>1, <2>2 DEF FramesCounted
<1> QED
  BY <1>1, <1>2, <1>3, FlightTypeCorrect, PTL DEF FlightSpec, OneFrameCannotDisarm
-----------------------------------------------------------------------------
(* The quarantine is the one of the procedure that disarmed the craft, and
   what is left of it and what was served make up the whole.               *)
QuarantineCounted ==
    /\ phase = "LANDING" => activeProcedure = "AUTO_LANDING"
    /\ phase = "RETURN_TO_HOME" => activeProcedure = "RTH"
    /\ phase \in {"LANDED", "RX_LOSS_MONITORING"} => rxPeriodPreset = Quarantine
    /\ phase = "RX_LOSS_MONITORING" => rxPeriodIn + linkGoodFor >= rxPeriodPreset

LEMMA QuarantineUntouched ==
  ASSUME QuarantineCounted,
         UNCHANGED <<phase, activeProcedure, rxPeriodPreset, rxPeriodIn, linkGoodFor>>
  PROVE  QuarantineCounted'
BY DEF QuarantineCounted, Quarantine

(* The iterations of a pass keep the count.                                *)
LEMMA QuarantineIterates ==
  ASSUME FlightInv, QuarantineCounted, FailsafeIterate
  PROVE  QuarantineCounted'
<1> USE FailsafeAssumption DEF QuarantineCounted, Quarantine, timers
<1>0. /\ rxPeriodIn \in Int /\ rxPeriodPreset \in Nat /\ linkGoodFor \in Nat
      /\ locked <=> phase = "RX_LOSS_MONITORING"
  BY DEF FlightInv, IInv, TypeOK, TimersOK, PhaseConsistent, FlightTypeOK
<1>1. linkGoodFor' = IF locked /\ pass.rxOk THEN linkGoodFor ELSE 0
  BY DEF FailsafeIterate
<1>2. CASE IdleWatching \/ IdleLossDetected \/ IdleDisarmed \/ LossIdleRecovers
             \/ LandingRecovers \/ Recovered \/ ReturnHomeRecovers \/ MonitoringUnlocks
  <2>1. phase' \in {"IDLE", "RX_LOSS_DETECTED", "RX_LOSS_RECOVERED"}
    BY <1>2 DEF IdleWatching, IdleLossDetected, IdleDisarmed, LossIdleRecovers, LandingRecovers,
       Recovered, ReturnHomeRecovers, MonitoringUnlocks
  <2> QED
    BY <2>1
<1>3. CASE IdleJustDisarm
  BY <1>3 DEF IdleJustDisarm, failsafeActivate
<1>4. CASE LossDetected
  <2>1. CASE pass.rxOk
    BY <1>4, <2>1 DEF LossDetected
  <2>2. CASE ~pass.rxOk
    <3>1. PICK procedure \in ChosenProcedures : StartProcedure(procedure)
      BY <1>4, <2>2, Zenon DEF LossDetected
    <3> QED
      BY <3>1 DEF StartProcedure, failsafeActivate
  <2> QED
    BY <2>1, <2>2
<1>5. CASE ReturnHomeLanded \/ LandingOver
  BY <1>5 DEF ReturnHomeLanded, LandingOver
<1>6. CASE ReturnHomeLost
  BY <1>6 DEF ReturnHomeLost, failsafeActivate
<1>7. CASE ProcedureContinues
  BY <1>7 DEF ProcedureContinues
<1>8. CASE Landed
  <2>1. /\ phase = "LANDED" /\ phase' = "RX_LOSS_MONITORING" /\ rxPeriodIn' = rxPeriodPreset
        /\ UNCHANGED <<activeProcedure, rxPeriodPreset>>
    BY <1>8 DEF Landed
  <2> QED
    BY <1>0, <1>1, <2>1
<1>9. CASE MonitoringWaits
  <2>1. /\ phase = "RX_LOSS_MONITORING" /\ UNCHANGED <<phase, activeProcedure, rxPeriodPreset>>
        /\ rxPeriodIn' = IF pass.rxOk THEN rxPeriodIn ELSE rxPeriodPreset
    BY <1>9 DEF MonitoringWaits
  <2> QED
    BY <1>0, <1>1, <2>1
<1> QED
  BY <1>2, <1>3, <1>4, <1>5, <1>6, <1>7, <1>8, <1>9 DEF FailsafeIterate, Iterate

LEMMA QuarantineStep ==
  ASSUME Follows("QUARANTINE"), ~ReloadWhileActive, FlightInv, QuarantineCounted,
         [FlightNext]_flightVars
  PROVE  QuarantineCounted'
<1> USE DEF vars, timers, history, ages
<1>1. CASE SampleNone \/ SampleSkipped \/ SampleValid \/ SampleInvalid
  BY <1>1, QuarantineUntouched, Zenon DEF SampleNone, SampleSkipped, SampleValid, SampleInvalid,
     StartRx
<1>2. CASE Switch3D \/ KillSwitch \/ NavigationDisarms \/ DisarmBySwitch
  BY <1>2, DisarmingSteps, QuarantineUntouched, Zenon DEF DisarmBy, DisarmElsewhere, Elsewhere,
     Keep
<1>3. CASE StartMonitoring \/ NotMonitoring \/ FailsafePass \/ updateActivatedModes
  BY <1>3, QuarantineUntouched, Zenon DEF StartMonitoring, failsafeStartMonitoring,
     NotMonitoring, Keep, FailsafePass, BeginPass, updateActivatedModes
<1>4. CASE FailsafeIterate
  BY <1>4, QuarantineIterates
<1>5. CASE AutoArm \/ ArmBySwitch
  BY <1>5, QuarantineUntouched, Zenon DEF AutoArm, ArmBySwitch, Sticks, tryArm, SetArmed,
     Elsewhere
<1>6. CASE NoAutoArm \/ DisarmPending \/ DisarmRefused
  BY <1>6, QuarantineUntouched, Zenon DEF NoAutoArm, DisarmPending, DisarmRefused, Sticks
<1>7. CASE PidLoop
  BY <1>7, QuarantineUntouched, Zenon DEF PidLoop, Navigate, Elsewhere
<1>8. CASE SaveConfig
  <2>1. CASE EepromWrite
    BY <1>8, <2>1, QuarantineUntouched, Zenon DEF SaveConfig, EepromWrite, Elsewhere
  <2>2. CASE failsafeReset
    BY <2>2 DEF failsafeReset, QuarantineCounted
  <2> QED
    BY <1>8, <2>1, <2>2 DEF SaveConfig
<1>9. CASE FlightTick
  <2>1. /\ UNCHANGED <<phase, activeProcedure, rxPeriodPreset>>
        /\ rxPeriodIn' = Countdown(rxPeriodIn)
        /\ linkGoodFor' = IF locked THEN Older(linkGoodFor, Quarantine) ELSE 0
    BY <1>9 DEF FlightTick, Tick, Elsewhere
  <2>2. /\ rxPeriodIn \in Int /\ rxPeriodIn >= Expired /\ linkGoodFor \in Nat
        /\ locked <=> phase = "RX_LOSS_MONITORING"
    BY DEF FlightInv, IInv, TypeOK, TimersOK, PhaseConsistent, FlightTypeOK
  <2>3. Quarantine \in Nat /\ Quarantine' = Quarantine
    BY <2>1, FailsafeAssumption DEF Quarantine
  <2> QED
    BY <2>1, <2>2, <2>3 DEF QuarantineCounted, Countdown, Older, Expired
<1>10. CASE UNCHANGED flightVars
  BY <1>10, QuarantineUntouched, Zenon DEF flightVars
<1> QED
  BY <1>1, <1>2, <1>3, <1>4, <1>5, <1>6, <1>7, <1>8, <1>9, <1>10, Zenon
  DEF FlightNext, ProcessRx, ProcessSticks

(* Only the end of the quarantine takes the lock off.                      *)
LEMMA OnlyMonitoringUnlocks ==
  ASSUME [FlightNext]_flightVars, locked, ~locked'
  PROVE  MonitoringUnlocks
<1> USE DEF vars, craft
<1>1. CASE SampleNone \/ SampleSkipped \/ SampleValid \/ SampleInvalid
  BY <1>1, Zenon DEF SampleNone, SampleSkipped, SampleValid, SampleInvalid, StartRx
<1>2. CASE Switch3D \/ KillSwitch \/ NavigationDisarms \/ DisarmBySwitch
  BY <1>2, DisarmingSteps, Zenon DEF DisarmBy, DisarmElsewhere, Keep
<1>3. CASE StartMonitoring \/ NotMonitoring \/ FailsafePass \/ updateActivatedModes
  BY <1>3, Zenon DEF StartMonitoring, failsafeStartMonitoring, NotMonitoring, Keep,
     FailsafePass, BeginPass, updateActivatedModes
<1>4. CASE FailsafeIterate
  BY <1>4, Zenon DEF FailsafeIterate, Iterate, IdleWatching, IdleJustDisarm, IdleLossDetected,
     IdleDisarmed, LossDetected, LossIdleRecovers, ReturnHomeRecovers, ReturnHomeLanded,
     ReturnHomeLost, LandingOver, LandingRecovers, ProcedureContinues, Landed, MonitoringWaits,
     Recovered
<1>5. CASE AutoArm \/ ArmBySwitch
  BY <1>5, Zenon DEF AutoArm, ArmBySwitch, tryArm, SetArmed
<1>6. CASE NoAutoArm \/ DisarmPending \/ DisarmRefused
  BY <1>6, Zenon DEF NoAutoArm, DisarmPending, DisarmRefused
<1>7. CASE PidLoop \/ FlightTick
  BY <1>7, Zenon DEF PidLoop, Navigate, FlightTick, Tick
<1>8. CASE SaveConfig
  BY <1>8, Zenon DEF SaveConfig, failsafeReset, EepromWrite
<1>9. CASE UNCHANGED flightVars
  BY <1>9, Zenon DEF flightVars
<1> QED
  BY <1>1, <1>2, <1>3, <1>4, <1>5, <1>6, <1>7, <1>8, <1>9, Zenon
  DEF FlightNext, ProcessRx, ProcessSticks

(* The lock of a failsafe that disarmed the craft goes only when every pass
   for longer than the quarantine of its procedure saw a good link: a link
   that comes and goes never shortens it.                                  *)
THEOREM QuarantineServed ==
  ASSUME NoOverride, Follows("QUARANTINE"), ~ReloadWhileActive
  PROVE  FlightSpec => QuarantineIsServed
<1>1. FlightInit => QuarantineCounted
  BY DEF FlightInit, Init, QuarantineCounted
<1>2. FlightInv /\ QuarantineCounted /\ [FlightNext]_flightVars => QuarantineCounted'
  BY QuarantineStep
<1>3. FlightInv /\ QuarantineCounted /\ [FlightNext]_flightVars =>
        (locked /\ ~locked' => linkGoodFor > Quarantine)
  <2> SUFFICES ASSUME FlightInv, QuarantineCounted, MonitoringUnlocks
               PROVE  linkGoodFor > Quarantine
    BY OnlyMonitoringUnlocks
  <2>1. phase = "RX_LOSS_MONITORING" /\ rxPeriodIn < 0
    BY DEF MonitoringUnlocks, HasPassed
  <2>2. rxPeriodIn \in Int /\ linkGoodFor \in Nat /\ Quarantine \in Nat
    BY FailsafeAssumption DEF FlightInv, IInv, TypeOK, TimersOK, FlightTypeOK, Quarantine
  <2> QED
    BY <2>1, <2>2 DEF QuarantineCounted
<1> QED
  BY <1>1, <1>2, <1>3, FlightInvHolds, PTL DEF FlightSpec, QuarantineIsServed
===============================================================================
