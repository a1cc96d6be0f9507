---------------------------- MODULE FailsafeProofs ----------------------------
(***************************************************************************)
(* Proofs about the phase machine of failsafe.c, for every configuration   *)
(* of the delays and procedures.                                           *)
(***************************************************************************)
EXTENDS Failsafe, TLAPS

(* Every step keeps the link tracker in its types and ages in bounds. *)
LEMMA LinkStep == ASSUME LinkTypeOK, [Next]_vars PROVE LinkTypeOK'
<1> USE RxLinkAssumption DEF LinkTypeOK, rxVars
<1>1. CASE RxData
  BY <1>1 DEF RxData, failsafeOnValidDataReceived, failsafeOnValidDataFailed,
     ValidDataReceived, ValidDataFailed
<1>2. CASE failsafeReset
  BY <1>2 DEF failsafeReset, LinkReset
<1>3. CASE Tick
  BY <1>3 DEF Tick, LinkTick, Older
<1>4. CASE EepromWrite \/ DisarmElsewhere \/ Landed
  BY <1>4 DEF EepromWrite, DisarmElsewhere, Landed, Disarm, RxResumed
<1>5. CASE UNCHANGED rxVars
  BY <1>5
<1>6. CASE failsafeStartMonitoring \/ BeginPass \/ Arm \/ Navigate \/ UNCHANGED vars
  BY <1>5, <1>6, Zenon DEF failsafeStartMonitoring, BeginPass, Arm, Navigate, vars
<1>7. CASE Iterate /\ ~Landed
  BY <1>5, <1>7, Zenon DEF Iterate, IdleWatching, IdleJustDisarm, IdleLossDetected,
     IdleDisarmed, LossDetected, LossIdleRecovers, ReturnHomeRecovers, ReturnHomeLanded,
     ReturnHomeLost, LandingOver, LandingRecovers, ProcedureContinues,
     MonitoringUnlocks, MonitoringWaits, Recovered
<1> QED
  BY <1>1, <1>2, <1>3, <1>4, <1>6, <1>7 DEF Next

(* Every step keeps the flags Boolean. *)
LEMMA FlagsStep == ASSUME FlagsOK, [Next]_vars PROVE FlagsOK'
<1> USE DEF FlagsOK, rxVars, timers, craft, navVars, Elsewhere
<1>1. CASE RxData
  BY <1>1, Zenon DEF RxData, failsafeOnValidDataReceived, failsafeOnValidDataFailed,
                ValidDataReceived, ValidDataFailed
<1>2. CASE failsafeStartMonitoring
  BY <1>2, Zenon DEF failsafeStartMonitoring
<1>3. CASE BeginPass
  BY <1>3, Zenon DEF BeginPass
<1>4. CASE Iterate
  <2>1. CASE IdleWatching
    BY <2>1, Zenon DEF IdleWatching
  <2>2. CASE IdleJustDisarm
    BY <2>2, Zenon DEF IdleJustDisarm, failsafeActivate
  <2>3. CASE IdleLossDetected
    BY <2>3, Zenon DEF IdleLossDetected
  <2>4. CASE IdleDisarmed
    BY <2>4, Zenon DEF IdleDisarmed
  <2>5. CASE LossDetected
    <3>1. CASE pass.rxOk
      BY <2>5, <3>1, Zenon DEF LossDetected
    <3>2. CASE ~pass.rxOk
      <4>1. PICK procedure \in ChosenProcedures : StartProcedure(procedure)
        BY <2>5, <3>2, Zenon DEF LossDetected
      <4> QED
        BY <2>5, <3>2, <4>1, Zenon
        DEF LossDetected, StartProcedure, failsafeActivate, activateForcedRTH,
           ChosenProcedures
    <3> QED
      BY <3>1, <3>2
  <2>6. CASE LossIdleRecovers
    BY <2>6, Zenon DEF LossIdleRecovers, PilotIsBack
  <2>7. CASE ReturnHomeRecovers
    BY <2>7, Zenon DEF ReturnHomeRecovers, abortForcedRTH, PilotIsBack
  <2>8. CASE ReturnHomeLanded
    BY <2>8, Zenon DEF ReturnHomeLanded
  <2>9. CASE ReturnHomeLost
    BY <2>9, Zenon DEF ReturnHomeLost, abortForcedRTH, failsafeActivate
  <2>10. CASE LandingOver
    BY <2>10, Zenon DEF LandingOver
  <2>11. CASE LandingRecovers
    BY <2>11, Zenon DEF LandingRecovers, PilotIsBack
  <2>12. CASE ProcedureContinues
    BY <2>12, Zenon DEF ProcedureContinues
  <2>13. CASE Landed
    BY <2>13, Zenon DEF Landed, Disarm, RxResumed
  <2>14. CASE MonitoringUnlocks
    BY <2>14, Zenon DEF MonitoringUnlocks
  <2>15. CASE MonitoringWaits
    BY <2>15, Zenon DEF MonitoringWaits
  <2>16. CASE Recovered
    BY <2>16, Zenon DEF Recovered
  <2> QED
    BY <1>4, <2>1, <2>2, <2>3, <2>4, <2>5, <2>6, <2>7, <2>8, <2>9, <2>10, <2>11,
       <2>12, <2>13, <2>14, <2>15, <2>16 DEF Iterate
<1>5. CASE Arm
  BY <1>5, Zenon DEF Arm
<1>6. CASE DisarmElsewhere
  BY <1>6, Zenon DEF DisarmElsewhere, Disarm, RxResumed
<1>7. CASE Navigate
  BY <1>7, Zenon DEF Navigate
<1>8. CASE failsafeReset
  BY <1>8, Zenon DEF failsafeReset
<1>9. CASE EepromWrite
  BY <1>9, Zenon DEF EepromWrite, RxResumed
<1>10. CASE Tick
  BY <1>10, Zenon DEF Tick
<1>11. CASE UNCHANGED vars
  BY <1>11, Zenon DEF vars
<1> QED
  BY <1>1, <1>2, <1>3, <1>4, <1>5, <1>6, <1>7, <1>8, <1>9, <1>10, <1>11 DEF Next

(* Every step keeps the enumerations in their types. *)
LEMMA StatesStep == ASSUME StatesOK, [Next]_vars PROVE StatesOK'
<1> USE FailsafeAssumption DEF StatesOK, Phase, Procedure, NavState, EndPass,
    Reprocess, rxVars, timers, craft, navVars, Elsewhere
<1>1. CASE RxData
  BY <1>1 DEF RxData, failsafeOnValidDataReceived, failsafeOnValidDataFailed,
                ValidDataReceived, ValidDataFailed
<1>2. CASE failsafeStartMonitoring
  BY <1>2 DEF failsafeStartMonitoring
<1>3. CASE BeginPass
  BY <1>3 DEF BeginPass
<1>4. CASE Iterate
  <2>1. CASE IdleWatching
    BY <2>1 DEF IdleWatching
  <2>2. CASE IdleJustDisarm
    BY <2>2 DEF IdleJustDisarm, failsafeActivate
  <2>3. CASE IdleLossDetected
    BY <2>3 DEF IdleLossDetected
  <2>4. CASE IdleDisarmed
    BY <2>4 DEF IdleDisarmed
  <2>5. CASE LossDetected
    <3>1. CASE pass.rxOk
      BY <2>5, <3>1 DEF LossDetected
    <3>2. CASE ~pass.rxOk
      <4>1. PICK procedure \in ChosenProcedures : StartProcedure(procedure)
        BY <2>5, <3>2, Zenon DEF LossDetected
      <4> QED
        BY <2>5, <3>2, <4>1
        DEF LossDetected, StartProcedure, failsafeActivate, activateForcedRTH,
           ChosenProcedures
    <3> QED
      BY <3>1, <3>2
  <2>6. CASE LossIdleRecovers
    BY <2>6 DEF LossIdleRecovers, PilotIsBack
  <2>7. CASE ReturnHomeRecovers
    BY <2>7 DEF ReturnHomeRecovers, abortForcedRTH, PilotIsBack
  <2>8. CASE ReturnHomeLanded
    BY <2>8 DEF ReturnHomeLanded
  <2>9. CASE ReturnHomeLost
    BY <2>9 DEF ReturnHomeLost, abortForcedRTH, failsafeActivate
  <2>10. CASE LandingOver
    BY <2>10 DEF LandingOver
  <2>11. CASE LandingRecovers
    BY <2>11 DEF LandingRecovers, PilotIsBack
  <2>12. CASE ProcedureContinues
    BY <2>12 DEF ProcedureContinues
  <2>13. CASE Landed
    BY <2>13 DEF Landed, Disarm, RxResumed
  <2>14. CASE MonitoringUnlocks
    BY <2>14 DEF MonitoringUnlocks
  <2>15. CASE MonitoringWaits
    BY <2>15 DEF MonitoringWaits
  <2>16. CASE Recovered
    BY <2>16 DEF Recovered
  <2> QED
    BY <1>4, <2>1, <2>2, <2>3, <2>4, <2>5, <2>6, <2>7, <2>8, <2>9, <2>10, <2>11,
       <2>12, <2>13, <2>14, <2>15, <2>16 DEF Iterate
<1>5. CASE Arm
  BY <1>5 DEF Arm
<1>6. CASE DisarmElsewhere
  BY <1>6 DEF DisarmElsewhere, Disarm, RxResumed
<1>7. CASE Navigate
  BY <1>7 DEF Navigate
<1>8. CASE failsafeReset
  BY <1>8 DEF failsafeReset
<1>9. CASE EepromWrite
  BY <1>9 DEF EepromWrite, RxResumed
<1>10. CASE Tick
  BY <1>10 DEF Tick, Countdown
<1>11. CASE UNCHANGED vars
  BY <1>11 DEF vars
<1> QED
  BY <1>1, <1>2, <1>3, <1>4, <1>5, <1>6, <1>7, <1>8, <1>9, <1>10, <1>11 DEF Next

(* Every step keeps the timers within their bounds. *)
LEMMA TimersStep == ASSUME TimersOK, [Next]_vars PROVE TimersOK'
<1> USE FailsafeAssumption DEF TimersOK, Expired, rxVars, timers, craft, navVars,
    Elsewhere
<1>1. CASE RxData
  BY <1>1 DEF RxData, failsafeOnValidDataReceived, failsafeOnValidDataFailed,
                ValidDataReceived, ValidDataFailed
<1>2. CASE failsafeStartMonitoring
  BY <1>2 DEF failsafeStartMonitoring
<1>3. CASE BeginPass
  BY <1>3 DEF BeginPass
<1>4. CASE Iterate
  <2>1. CASE IdleWatching
    BY <2>1 DEF IdleWatching, throttleLowNext
  <2>2. CASE IdleJustDisarm
    BY <2>2 DEF IdleJustDisarm, failsafeActivate, throttleLowNext
  <2>3. CASE IdleLossDetected
    BY <2>3 DEF IdleLossDetected, throttleLowNext
  <2>4. CASE IdleDisarmed
    BY <2>4 DEF IdleDisarmed
  <2>5. CASE LossDetected
    <3>1. CASE pass.rxOk
      BY <2>5, <3>1 DEF LossDetected
    <3>2. CASE ~pass.rxOk
      <4>1. PICK procedure \in ChosenProcedures : StartProcedure(procedure)
        BY <2>5, <3>2, Zenon DEF LossDetected
      <4> QED
        BY <2>5, <3>2, <4>1
        DEF LossDetected, StartProcedure, failsafeActivate, activateForcedRTH,
           ChosenProcedures
    <3> QED
      BY <3>1, <3>2
  <2>6. CASE LossIdleRecovers
    BY <2>6 DEF LossIdleRecovers, PilotIsBack
  <2>7. CASE ReturnHomeRecovers
    BY <2>7 DEF ReturnHomeRecovers, abortForcedRTH, PilotIsBack
  <2>8. CASE ReturnHomeLanded
    BY <2>8 DEF ReturnHomeLanded
  <2>9. CASE ReturnHomeLost
    BY <2>9 DEF ReturnHomeLost, abortForcedRTH, failsafeActivate
  <2>10. CASE LandingOver
    BY <2>10 DEF LandingOver
  <2>11. CASE LandingRecovers
    BY <2>11 DEF LandingRecovers, PilotIsBack
  <2>12. CASE ProcedureContinues
    BY <2>12 DEF ProcedureContinues
  <2>13. CASE Landed
    BY <2>13 DEF Landed, Disarm, RxResumed
  <2>14. CASE MonitoringUnlocks
    BY <2>14 DEF MonitoringUnlocks
  <2>15. CASE MonitoringWaits
    BY <2>15 DEF MonitoringWaits
  <2>16. CASE Recovered
    BY <2>16 DEF Recovered
  <2> QED
    BY <1>4, <2>1, <2>2, <2>3, <2>4, <2>5, <2>6, <2>7, <2>8, <2>9, <2>10, <2>11,
       <2>12, <2>13, <2>14, <2>15, <2>16 DEF Iterate
<1>5. CASE Arm
  BY <1>5 DEF Arm
<1>6. CASE DisarmElsewhere
  BY <1>6 DEF DisarmElsewhere, Disarm, RxResumed
<1>7. CASE Navigate
  BY <1>7 DEF Navigate
<1>8. CASE failsafeReset
  BY <1>8 DEF failsafeReset
<1>9. CASE EepromWrite
  BY <1>9 DEF EepromWrite, RxResumed
<1>10. CASE Tick
  BY <1>10 DEF Tick, Countdown
<1>11. CASE UNCHANGED vars
  BY <1>11 DEF vars
<1> QED
  BY <1>1, <1>2, <1>3, <1>4, <1>5, <1>6, <1>7, <1>8, <1>9, <1>10, <1>11 DEF Next

(* Every step keeps the locals of a pass in their types. *)
LEMMA PassStep ==
  ASSUME FlagsOK, pass \in PassInputs, [Next]_vars
  PROVE  (pass \in PassInputs)'
<1> USE DEF FlagsOK, PassInputs, NoPass, EndPass, Reprocess, rxVars, timers, craft,
    navVars, Elsewhere
<1>1. CASE RxData
  BY <1>1, Zenon DEF RxData, failsafeOnValidDataReceived, failsafeOnValidDataFailed,
                ValidDataReceived, ValidDataFailed
<1>2. CASE failsafeStartMonitoring
  BY <1>2, Zenon DEF failsafeStartMonitoring
<1>3. CASE BeginPass
  <2>1. PICK boxFailsafe \in BOOLEAN, sticks \in BOOLEAN, throttleHigh \in BOOLEAN,
            motorStop \in BOOLEAN, boxArm \in BOOLEAN :
          pass' = [rxOk |-> rxLinkState = "UP" /\ ~boxFailsafe, armed |-> armed,
                   sticks |-> sticks, throttleHigh |-> throttleHigh,
                   motorStop |-> motorStop, boxArm |-> boxArm]
    BY <1>3, Zenon DEF BeginPass
  <2>2. (rxLinkState = "UP" /\ ~boxFailsafe) \in BOOLEAN
    OBVIOUS
  <2> QED
    BY <2>1, <2>2
<1>4. CASE Iterate
  <2>1. CASE IdleWatching
    BY <2>1, Zenon DEF IdleWatching
  <2>2. CASE IdleJustDisarm
    BY <2>2, Zenon DEF IdleJustDisarm, failsafeActivate
  <2>3. CASE IdleLossDetected
    BY <2>3, Zenon DEF IdleLossDetected
  <2>4. CASE IdleDisarmed
    BY <2>4, Zenon DEF IdleDisarmed
  <2>5. CASE LossDetected
    <3>1. CASE pass.rxOk
      BY <2>5, <3>1, Zenon DEF LossDetected
    <3>2. CASE ~pass.rxOk
      <4>1. PICK procedure \in ChosenProcedures : StartProcedure(procedure)
        BY <2>5, <3>2, Zenon DEF LossDetected
      <4> QED
        BY <2>5, <3>2, <4>1, Zenon
        DEF LossDetected, StartProcedure, failsafeActivate, activateForcedRTH,
           ChosenProcedures
    <3> QED
      BY <3>1, <3>2
  <2>6. CASE LossIdleRecovers
    BY <2>6, Zenon DEF LossIdleRecovers, PilotIsBack
  <2>7. CASE ReturnHomeRecovers
    BY <2>7, Zenon DEF ReturnHomeRecovers, abortForcedRTH, PilotIsBack
  <2>8. CASE ReturnHomeLanded
    BY <2>8, Zenon DEF ReturnHomeLanded
  <2>9. CASE ReturnHomeLost
    BY <2>9, Zenon DEF ReturnHomeLost, abortForcedRTH, failsafeActivate
  <2>10. CASE LandingOver
    BY <2>10, Zenon DEF LandingOver
  <2>11. CASE LandingRecovers
    BY <2>11, Zenon DEF LandingRecovers, PilotIsBack
  <2>12. CASE ProcedureContinues
    BY <2>12, Zenon DEF ProcedureContinues
  <2>13. CASE Landed
    BY <2>13, Zenon DEF Landed, Disarm, RxResumed
  <2>14. CASE MonitoringUnlocks
    BY <2>14, Zenon DEF MonitoringUnlocks
  <2>15. CASE MonitoringWaits
    BY <2>15, Zenon DEF MonitoringWaits
  <2>16. CASE Recovered
    BY <2>16, Zenon DEF Recovered
  <2> QED
    BY <1>4, <2>1, <2>2, <2>3, <2>4, <2>5, <2>6, <2>7, <2>8, <2>9, <2>10, <2>11,
       <2>12, <2>13, <2>14, <2>15, <2>16 DEF Iterate
<1>5. CASE Arm
  BY <1>5, Zenon DEF Arm
<1>6. CASE DisarmElsewhere
  BY <1>6, Zenon DEF DisarmElsewhere, Disarm, RxResumed
<1>7. CASE Navigate
  BY <1>7, Zenon DEF Navigate
<1>8. CASE failsafeReset
  BY <1>8, Zenon DEF failsafeReset
<1>9. CASE EepromWrite
  BY <1>9, Zenon DEF EepromWrite, RxResumed
<1>10. CASE Tick
  BY <1>10, Zenon DEF Tick
<1>11. CASE UNCHANGED vars
  BY <1>11, Zenon DEF vars
<1> QED
  BY <1>1, <1>2, <1>3, <1>4, <1>5, <1>6, <1>7, <1>8, <1>9, <1>10, <1>11 DEF Next

(* The phase, the flags and the lock stay consistent. *)
LEMMA PhaseStep == ASSUME ~ReloadWhileActive, IInv, [Next]_vars PROVE PhaseConsistent'
<1> USE DEF IInv, TypeOK, FlagsOK, StatesOK, PhaseConsistent, PassConsistent,
    Reprocess, rxVars, timers, craft, navVars, Elsewhere
<1>1. CASE RxData
  <2>1. UNCHANGED <<phase, active, controlling, failsafeMode, armed, locked>>
    BY <1>1, Zenon DEF RxData, failsafeOnValidDataReceived, failsafeOnValidDataFailed
  <2> QED
    BY <2>1, Zenon
<1>2. CASE failsafeStartMonitoring
  BY <1>2, Zenon DEF failsafeStartMonitoring
<1>3. CASE BeginPass
  BY <1>3, Zenon DEF BeginPass
<1>4. CASE Iterate
  <2>1. CASE IdleWatching
    BY <2>1, Zenon DEF IdleWatching
  <2>2. CASE IdleJustDisarm
    BY <2>2, Zenon DEF IdleJustDisarm, failsafeActivate
  <2>3. CASE IdleLossDetected
    BY <2>3, Zenon DEF IdleLossDetected
  <2>4. CASE IdleDisarmed
    BY <2>4, Zenon DEF IdleDisarmed
  <2>5. CASE LossDetected
    <3>1. CASE pass.rxOk
      BY <2>5, <3>1, Zenon DEF LossDetected
    <3>2. CASE ~pass.rxOk
      <4>1. PICK procedure \in ChosenProcedures : StartProcedure(procedure)
        BY <2>5, <3>2, Zenon DEF LossDetected
      <4> QED
        BY <2>5, <3>2, <4>1, Zenon
        DEF LossDetected, StartProcedure, failsafeActivate, activateForcedRTH,
           ChosenProcedures
    <3> QED
      BY <3>1, <3>2
  <2>6. CASE LossIdleRecovers
    BY <2>6, Zenon DEF LossIdleRecovers, PilotIsBack
  <2>7. CASE ReturnHomeRecovers
    BY <2>7, Zenon DEF ReturnHomeRecovers, abortForcedRTH, PilotIsBack
  <2>8. CASE ReturnHomeLanded
    BY <2>8, Zenon DEF ReturnHomeLanded
  <2>9. CASE ReturnHomeLost
    BY <2>9, Zenon DEF ReturnHomeLost, abortForcedRTH, failsafeActivate
  <2>10. CASE LandingOver
    BY <2>10, Zenon DEF LandingOver
  <2>11. CASE LandingRecovers
    BY <2>11, Zenon DEF LandingRecovers, PilotIsBack
  <2>12. CASE ProcedureContinues
    BY <2>12, Zenon DEF ProcedureContinues
  <2>13. CASE Landed
    BY <2>13, Zenon DEF Landed, Disarm, RxResumed
  <2>14. CASE MonitoringUnlocks
    BY <2>14, Zenon DEF MonitoringUnlocks
  <2>15. CASE MonitoringWaits
    BY <2>15, Zenon DEF MonitoringWaits
  <2>16. CASE Recovered
    BY <2>16, Zenon DEF Recovered
  <2> QED
    BY <1>4, <2>1, <2>2, <2>3, <2>4, <2>5, <2>6, <2>7, <2>8, <2>9, <2>10, <2>11,
       <2>12, <2>13, <2>14, <2>15, <2>16 DEF Iterate
<1>5. CASE Arm
  BY <1>5, Zenon DEF Arm
<1>6. CASE DisarmElsewhere
  BY <1>6, Zenon DEF DisarmElsewhere, Disarm, RxResumed
<1>7. CASE Navigate
  BY <1>7, Zenon DEF Navigate
<1>8. CASE failsafeReset
  BY <1>8, Zenon DEF failsafeReset
<1>9. CASE EepromWrite
  BY <1>9, Zenon DEF EepromWrite, RxResumed
<1>10. CASE Tick
  BY <1>10, Zenon DEF Tick
<1>11. CASE UNCHANGED vars
  BY <1>11, Zenon DEF vars
<1> QED
  BY <1>1, <1>2, <1>3, <1>4, <1>5, <1>6, <1>7, <1>8, <1>9, <1>10, <1>11 DEF Next

(* What a pass may assume of the phase and of its locals. *)
LEMMA PassConsistentStep ==
  ASSUME ~ReloadWhileActive, IInv, [Next]_vars
  PROVE  PassConsistent'
<1> USE DEF IInv, TypeOK, FlagsOK, StatesOK, PhaseConsistent, PassConsistent,
    Reprocess, EndPass, NoPass, rxVars, timers, craft, navVars, Elsewhere
<1>1. CASE RxData
  BY <1>1, Zenon DEF RxData, failsafeOnValidDataReceived, failsafeOnValidDataFailed,
                ValidDataReceived, ValidDataFailed
<1>2. CASE failsafeStartMonitoring
  BY <1>2, Zenon DEF failsafeStartMonitoring
<1>3. CASE BeginPass
  <2>1. UNCHANGED <<phase, armed, rxLinkState>>
    BY <1>3, Zenon DEF BeginPass
  <2>2. pc = "tasks" /\ pc' = "pass"
    BY <1>3, Zenon DEF BeginPass
  <2>3. pass'.armed = armed
    BY <1>3 DEF BeginPass
  <2>4. pass'.rxOk => rxLinkState = "UP"
    BY <1>3 DEF BeginPass
  <2> QED
    BY <2>1, <2>2, <2>3, <2>4, Zenon
<1>4. CASE Iterate
  <2>1. CASE IdleWatching
    BY <2>1, Zenon DEF IdleWatching
  <2>2. CASE IdleJustDisarm
    BY <2>2, Zenon DEF IdleJustDisarm, failsafeActivate
  <2>3. CASE IdleLossDetected
    BY <2>3, Zenon DEF IdleLossDetected
  <2>4. CASE IdleDisarmed
    BY <2>4, Zenon DEF IdleDisarmed
  <2>5. CASE LossDetected
    <3>1. CASE pass.rxOk
      BY <2>5, <3>1, Zenon DEF LossDetected
    <3>2. CASE ~pass.rxOk
      <4>1. PICK procedure \in ChosenProcedures : StartProcedure(procedure)
        BY <2>5, <3>2, Zenon DEF LossDetected
      <4> QED
        BY <2>5, <3>2, <4>1, Zenon
        DEF LossDetected, StartProcedure, failsafeActivate, activateForcedRTH,
           ChosenProcedures
    <3> QED
      BY <3>1, <3>2
  <2>6. CASE LossIdleRecovers
    BY <2>6, Zenon DEF LossIdleRecovers, PilotIsBack
  <2>7. CASE ReturnHomeRecovers
    BY <2>7, Zenon DEF ReturnHomeRecovers, abortForcedRTH, PilotIsBack
  <2>8. CASE ReturnHomeLanded
    BY <2>8, Zenon DEF ReturnHomeLanded
  <2>9. CASE ReturnHomeLost
    BY <2>9, Zenon DEF ReturnHomeLost, abortForcedRTH, failsafeActivate
  <2>10. CASE LandingOver
    BY <2>10, Zenon DEF LandingOver
  <2>11. CASE LandingRecovers
    BY <2>11, Zenon DEF LandingRecovers, PilotIsBack
  <2>12. CASE ProcedureContinues
    BY <2>12, Zenon DEF ProcedureContinues
  <2>13. CASE Landed
    BY <2>13, Zenon DEF Landed, Disarm, RxResumed
  <2>14. CASE MonitoringUnlocks
    BY <2>14, Zenon DEF MonitoringUnlocks
  <2>15. CASE MonitoringWaits
    BY <2>15, Zenon DEF MonitoringWaits
  <2>16. CASE Recovered
    BY <2>16, Zenon DEF Recovered
  <2> QED
    BY <1>4, <2>1, <2>2, <2>3, <2>4, <2>5, <2>6, <2>7, <2>8, <2>9, <2>10, <2>11,
       <2>12, <2>13, <2>14, <2>15, <2>16 DEF Iterate
<1>5. CASE Arm
  BY <1>5, Zenon DEF Arm
<1>6. CASE DisarmElsewhere
  BY <1>6, Zenon DEF DisarmElsewhere, Disarm, RxResumed
<1>7. CASE Navigate
  BY <1>7, Zenon DEF Navigate
<1>8. CASE failsafeReset
  BY <1>8, Zenon DEF failsafeReset, LinkReset
<1>9. CASE EepromWrite
  BY <1>9, Zenon DEF EepromWrite, RxResumed
<1>10. CASE Tick
  BY <1>10, Zenon DEF Tick, LinkTick
<1>11. CASE UNCHANGED vars
  BY <1>11, Zenon DEF vars
<1> QED
  BY <1>1, <1>2, <1>3, <1>4, <1>5, <1>6, <1>7, <1>8, <1>9, <1>10, <1>11 DEF Next

-----------------------------------------------------------------------------
(* Init establishes the inductive invariant.                               *)
LEMMA InitIInv == Init => IInv
<1> SUFFICES ASSUME Init PROVE IInv
  OBVIOUS
<1> USE FailsafeAssumption DEF Init, LinkInit, NoPass, Expired
<1>0. LinkTypeOK
  BY RxLinkAssumption DEF LinkTypeOK
<1>1. FlagsOK
  BY DEF FlagsOK
<1>2. StatesOK
  BY DEF StatesOK, Phase, Procedure, NavState
<1>3. TimersOK
  BY DEF TimersOK
<1>4. pass \in PassInputs
  BY DEF PassInputs
<1>5. PhaseConsistent
  BY DEF PhaseConsistent
<1>6. PassConsistent
  BY DEF PassConsistent
<1> QED
  BY <1>0, <1>1, <1>2, <1>3, <1>4, <1>5, <1>6 DEF IInv, TypeOK

(* Every variable keeps its type, whatever the delays, the procedures and
   the moments at which the configuration is saved.                        *)
THEOREM TypeCorrect == Spec => []TypeOK
<1>1. Init => TypeOK
  BY InitIInv DEF IInv
<1>2. TypeOK /\ [Next]_vars => TypeOK'
  <2> SUFFICES ASSUME TypeOK, [Next]_vars PROVE TypeOK'
    OBVIOUS
  <2> USE DEF TypeOK
  <2>0. LinkTypeOK'
    BY LinkStep
  <2>1. FlagsOK'
    BY FlagsStep
  <2>2. StatesOK'
    BY StatesStep
  <2>3. TimersOK'
    BY TimersStep
  <2>4. (pass \in PassInputs)'
    BY PassStep
  <2> QED
    BY <2>0, <2>1, <2>2, <2>3, <2>4
<1> QED
  BY <1>1, <1>2, PTL DEF Spec

(* The strengthened invariant holds when no configuration is reloaded while
   failsafe is active.                                                     *)
LEMMA IInvHolds == ASSUME ~ReloadWhileActive PROVE Spec => []IInv
<1>1. IInv /\ [Next]_vars => IInv'
  BY LinkStep, FlagsStep, StatesStep, TimersStep, PassStep, PhaseStep,
     PassConsistentStep
  DEF IInv, TypeOK
<1> QED
  BY <1>1, InitIInv, PTL DEF Spec

(* The phase, the flags that the rest of the firmware reads and the arming
   lock tell one story, in every state of every pass.                      *)
THEOREM PhasesAreConsistent == ASSUME ~ReloadWhileActive PROVE Spec => []PhaseConsistent
<1>1. IInv => PhaseConsistent
  BY DEF IInv
<1> QED
  BY <1>1, IInvHolds, PTL

(* Only the last iteration of a pass returns to the scheduler: the cases of
   the switch that leave the loop.                                         *)
LEMMA PassEnds ==
  ASSUME [Next]_vars, pc = "pass", pc' = "tasks"
  PROVE  IdleWatching \/ IdleDisarmed \/ ProcedureContinues \/ MonitoringWaits
<1>1. Iterate
  BY Zenon DEF Next, RxData, failsafeOnValidDataReceived, failsafeOnValidDataFailed,
     failsafeStartMonitoring, BeginPass, Elsewhere, Arm, DisarmElsewhere, Navigate,
     failsafeReset, EepromWrite, Tick, vars
<1> QED
  BY <1>1, Zenon DEF Iterate, Reprocess, IdleJustDisarm, IdleLossDetected, LossDetected,
     LossIdleRecovers, ReturnHomeRecovers, ReturnHomeLanded, ReturnHomeLost,
     LandingOver, LandingRecovers, Landed, MonitoringUnlocks, Recovered

(* A pass that saw the link gone ends with failsafe in control, or disarmed. *)
LEMMA LossAnsweredStep ==
  ASSUME IInv, [Next]_vars, pc = "pass", pc' = "tasks", ~pass.rxOk, armed'
  PROVE  controlling'
<1>1. PhaseConsistent /\ PassConsistent
  BY DEF IInv
<1>2. CASE IdleWatching
  BY <1>2 DEF IdleWatching
<1>3. CASE IdleDisarmed
  BY <1>1, <1>3, Zenon DEF IdleDisarmed, PassConsistent
<1>4. CASE ProcedureContinues
  BY <1>1, <1>4, Zenon DEF ProcedureContinues, PhaseConsistent
<1>5. CASE MonitoringWaits
  BY <1>1, <1>5, Zenon DEF MonitoringWaits, PhaseConsistent, craft
<1> QED
  BY <1>2, <1>3, <1>4, <1>5, PassEnds

(* A pass that sees the link gone never leaves a flying craft to the pilot. *)
THEOREM LossAnswered == ASSUME ~ReloadWhileActive PROVE Spec => LossIsAnswered
<1>1. IInv /\ [Next]_vars =>
        (pc = "pass" /\ pc' = "tasks" /\ ~pass.rxOk /\ armed' => controlling')
  BY LossAnsweredStep
<1> QED
  BY <1>1, IInvHolds, PTL DEF Spec, LossIsAnswered

(* Only the RX_LOSS_RECOVERED case ends failsafe.                          *)
LEMMA ActiveEnds == ASSUME [Next]_vars, active, ~active' PROVE Recovered
BY Zenon DEF Next, RxData, failsafeOnValidDataReceived, failsafeOnValidDataFailed,
   failsafeStartMonitoring, BeginPass, Iterate, Elsewhere, Arm, DisarmElsewhere, Navigate,
   failsafeReset, EepromWrite, Tick, vars, IdleWatching, IdleJustDisarm, IdleLossDetected,
   IdleDisarmed, LossDetected, StartProcedure, failsafeActivate, LossIdleRecovers,
   ReturnHomeRecovers, ReturnHomeLanded, ReturnHomeLost, LandingOver, LandingRecovers,
   ProcedureContinues, Landed, MonitoringUnlocks, MonitoringWaits

(* Failsafe gives up only on a pass that saw a good link.                  *)
THEOREM ReleaseOnLink == ASSUME ~ReloadWhileActive PROVE Spec => ReleaseNeedsLink
<1>1. IInv /\ [Next]_vars => (active /\ ~active' => pass.rxOk /\ rxLinkState = "UP")
  BY ActiveEnds, Zenon DEF Recovered, IInv, PassConsistent
<1>2. UNCHANGED vars => (active /\ ~active' => pass.rxOk /\ rxLinkState = "UP")
  BY DEF vars
<1> QED
  BY <1>1, <1>2, IInvHolds, PTL DEF Spec, ReleaseNeedsLink
-----------------------------------------------------------------------------
(* The refinement of RcAuthority, in the terms of the four variables that
   its mapping reads.                                                      *)
LEMMA OwnerOfFlags ==
  /\ locked => Owner = "LOCKED"
  /\ ~locked /\ controlling => Owner = "FAILSAFE"
  /\ ~locked /\ ~controlling => Owner = "PILOT"
BY DEF Owner

LEMMA OwnerOfFlagsNext ==
  /\ locked' => Owner' = "LOCKED"
  /\ ~locked' /\ controlling' => Owner' = "FAILSAFE"
  /\ ~locked' /\ ~controlling' => Owner' = "PILOT"
BY DEF Owner

LEMMA OwnerStutters ==
  ASSUME UNCHANGED <<locked, controlling, armed, rxLinkState>>
  PROVE  UNCHANGED Authority!vars
BY DEF Owner, Authority!vars

LEMMA LinkStepMaps ==
  ASSUME UNCHANGED <<locked, controlling, armed>>, rxLinkState' \in {"UP", "DOWN"}
  PROVE  [Authority!Next]_(Authority!vars)
<1>1. Owner' = Owner
  BY DEF Owner
<1>2. CASE rxLinkState' = rxLinkState
  BY <1>2, OwnerStutters
<1>3. CASE rxLinkState' # rxLinkState
  BY <1>1, <1>3 DEF Authority!Next, Authority!LinkChanges
<1> QED
  BY <1>2, <1>3

(* Every step of the phase machine is a step of RcAuthority or a stutter.  *)
LEMMA AuthorityStep ==
  ASSUME ~ReloadWhileActive, IInv, IInv', [Next]_vars
  PROVE  [Authority!Next]_(Authority!vars)
<1>0. /\ PhaseConsistent /\ PassConsistent /\ PhaseConsistent'
      /\ FlagsOK /\ FlagsOK' /\ LinkTypeOK'
  BY DEF IInv, TypeOK
<1>1. CASE UNCHANGED <<locked, controlling, armed, rxLinkState>>
  BY <1>1, OwnerStutters
<1>2. CASE RxData \/ failsafeReset \/ EepromWrite
  <2>1. UNCHANGED <<locked, controlling, armed>>
    BY <1>2, Zenon DEF RxData, failsafeOnValidDataReceived, failsafeOnValidDataFailed,
       failsafeReset, EepromWrite, craft
  <2>2. rxLinkState' \in {"UP", "DOWN"}
    BY <1>0 DEF LinkTypeOK
  <2> QED
    BY <2>1, <2>2, LinkStepMaps
<1>3. CASE IdleJustDisarm \/ LossDetected
  <2>1. ~locked /\ ~controlling /\ armed
    BY <1>0, <1>3, Zenon
    DEF IdleJustDisarm, LossDetected, PhaseConsistent, PassConsistent, FlagsOK
  <2>2. UNCHANGED <<locked, armed, rxLinkState>>
    BY <1>3, Zenon DEF IdleJustDisarm, LossDetected, rxVars
  <2>3. controlling'
    <3>1. CASE IdleJustDisarm
      BY <3>1, Zenon DEF IdleJustDisarm, failsafeActivate
    <3>2. CASE LossDetected
      <4>1. ~pass.rxOk
        BY <1>0, <3>2, Zenon DEF LossDetected, PassConsistent
      <4>2. PICK procedure \in ChosenProcedures : StartProcedure(procedure)
        BY <3>2, <4>1, Zenon DEF LossDetected
      <4> QED
        BY <4>2, Zenon DEF StartProcedure, failsafeActivate
    <3> QED
      BY <1>3, <3>1, <3>2
  <2>4. Owner = "PILOT" /\ Owner' = "FAILSAFE"
    BY <2>1, <2>2, <2>3, OwnerOfFlags, OwnerOfFlagsNext, Zenon
  <2> QED
    BY <2>1, <2>2, <2>4 DEF Authority!Next, Authority!TakeOver
<1>4. CASE ReturnHomeLost
  BY <1>0, <1>4, <1>1, Zenon DEF ReturnHomeLost, failsafeActivate, PhaseConsistent,
     rxVars,
     FlagsOK
<1>5. CASE Landed
  <2>1. ~locked /\ controlling /\ locked' /\ armed' = FALSE
    BY <1>0, <1>5, Zenon DEF Landed, Disarm, PhaseConsistent
  <2>2. rxLinkState' \in {rxLinkState, "UP"}
    BY <1>5, Zenon DEF Landed, Disarm, RxResumed, rxVars
  <2>3. Owner = "FAILSAFE" /\ Owner' = "LOCKED"
    BY <2>1, OwnerOfFlags, OwnerOfFlagsNext, Zenon
  <2> QED
    BY <2>1, <2>2, <2>3 DEF Authority!Next, Authority!LockOut
<1>6. CASE MonitoringUnlocks
  <2>1. locked /\ ~controlling /\ ~locked' /\ ~controlling' /\ rxLinkState = "UP"
    BY <1>0, <1>6, Zenon DEF MonitoringUnlocks, PhaseConsistent, PassConsistent
  <2>2. UNCHANGED <<armed, rxLinkState>>
    BY <1>6, Zenon DEF MonitoringUnlocks, rxVars
  <2>3. Owner = "LOCKED" /\ Owner' = "PILOT"
    BY <2>1, OwnerOfFlags, OwnerOfFlagsNext, Zenon
  <2> QED
    BY <2>1, <2>2, <2>3 DEF Authority!Next, Authority!Unlock
<1>7. CASE Recovered
  <2>1. ~locked /\ ~locked' /\ ~controlling' /\ rxLinkState = "UP"
    BY <1>0, <1>7, Zenon DEF Recovered, PhaseConsistent, PassConsistent
  <2>2. UNCHANGED <<locked, armed, rxLinkState>>
    BY <1>7, Zenon DEF Recovered, rxVars
  <2>3. Owner' = "PILOT" /\ Owner \in {"PILOT", "FAILSAFE"}
    BY <2>1, OwnerOfFlags, OwnerOfFlagsNext, Zenon
  <2> QED
    BY <2>1, <2>2, <2>3 DEF Authority!Next, Authority!HandBack, Authority!vars
<1>8. CASE Arm
  <2>1. ~locked /\ ~armed /\ armed' = TRUE
    BY <1>8, Zenon DEF Arm
  <2>2. UNCHANGED <<locked, controlling, rxLinkState>>
    BY <1>8, Zenon DEF Arm, rxVars
  <2>3. Owner' = Owner /\ Owner # "LOCKED"
    BY <2>1, <2>2 DEF Owner
  <2> QED
    BY <2>1, <2>2, <2>3 DEF Authority!Next, Authority!Arm
<1>9. CASE DisarmElsewhere
  <2>1. armed /\ armed' = FALSE /\ rxLinkState' \in {rxLinkState, "UP"}
    BY <1>9, Zenon DEF DisarmElsewhere, Disarm, RxResumed, rxVars
  <2>2. UNCHANGED <<locked, controlling>>
    BY <1>9, Zenon DEF DisarmElsewhere
  <2>3. Owner' = Owner
    BY <2>2 DEF Owner
  <2> QED
    BY <2>1, <2>3 DEF Authority!Next, Authority!Disarm
<1>10. CASE failsafeStartMonitoring \/ BeginPass \/ Navigate \/ Tick \/ UNCHANGED vars
  BY <1>1, <1>10, Zenon DEF failsafeStartMonitoring, BeginPass, Navigate, Tick,
     LinkTick,
     vars, Elsewhere, rxVars, craft
<1>11. CASE IdleWatching \/ IdleLossDetected \/ IdleDisarmed
  BY <1>1, <1>11, Zenon DEF IdleWatching, IdleLossDetected, IdleDisarmed, rxVars, craft
<1>12. CASE LossIdleRecovers \/ ReturnHomeRecovers \/ ReturnHomeLanded \/ LandingOver
              \/ LandingRecovers \/ ProcedureContinues \/ MonitoringWaits
  BY <1>1, <1>12, Zenon DEF LossIdleRecovers, ReturnHomeRecovers, ReturnHomeLanded,
     LandingOver, LandingRecovers, ProcedureContinues, MonitoringWaits, rxVars, craft
<1> QED
  BY <1>2, <1>3, <1>4, <1>5, <1>6, <1>7, <1>8, <1>9, <1>10, <1>11, <1>12
  DEF Next, Iterate

(* failsafe.c implements the contract of RcAuthority: who has the sticks
   changes hands only as the contract allows.                              *)
THEOREM ImplementsAuthority == ASSUME ~ReloadWhileActive PROVE Spec => AuthoritySpec
<1>1. Init => Authority!Init
  BY DEF Init, LinkInit, Owner, Authority!Init
<1>2. IInv /\ IInv' /\ [Next]_vars => [Authority!Next]_(Authority!vars)
  BY AuthorityStep
<1> QED
  BY <1>1, <1>2, IInvHolds, PTL DEF Spec, AuthoritySpec, Authority!Spec
===============================================================================
