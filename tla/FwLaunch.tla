------------------------------- MODULE FwLaunch -------------------------------
(***************************************************************************)
(* The fixed-wing launch sequencer (navigation/navigation_fw_launch.c): a  *)
(* state machine that the PID loop steps while the navigation is in LAUNCH *)
(* mode, and that the navigation resets, releases and aborts.  Its         *)
(* controller is a while loop over the handlers of the states; one handler *)
(* is one step here.  The clock of a state is abstracted to whether the    *)
(* time that its handler waits for is over.                                *)
(***************************************************************************)
VARIABLES
    launch,         \* fwLaunch.currentState
    motor           \* who commands rcCommand[THROTTLE] in this PID loop

launchVars == <<launch, motor>>

BeforeDetection == {"WAIT_THROTTLE", "IDLE_MOTOR_DELAY", "MOTOR_IDLE", "WAIT_DETECTION"}
AfterDetection  == {"DETECTED", "MOTOR_DELAY", "MOTOR_SPINUP", "IN_PROGRESS", "FINISH"}
LaunchState     == {"IDLE"} \cup BeforeDetection \cup AfterDetection
Motor           == {"PILOT", "STOP", "IDLE", "LAUNCH"}

LaunchTypeOK == launch \in LaunchState /\ motor \in Motor
LaunchInit   == launch = "IDLE" /\ motor = "PILOT"

(* What the handlers read in one PID loop: the throttle and the sticks, and
   whether the time of the state is over.  Sticks moved within
   launch_min_time are seen by the last state only.                        *)
LaunchInputs == [throttleLow : BOOLEAN, sticks : {"CENTRED", "EARLY", "MOVED"},
                 timeUp : BOOLEAN, idleThrottle : BOOLEAN]

isFixedWingLaunchDetected          == launch \in AfterDetection
isFixedWingLaunchFinishedOrAborted == launch = "IDLE"

(* applyThrottleIdleLogic(FALSE)                                           *)
Idled(in) == IF in.idleThrottle THEN "IDLE" ELSE "STOP"

(* The transitions of launchStateMachine; an event that a state does not
   define would lead to state 0, which is IDLE.                            *)
LaunchNext(s, e) ==
    CASE e = "ABORT"          -> "IDLE"
      [] e = "THROTTLE_LOW"   -> "WAIT_THROTTLE"
      [] e = "GOTO_DETECTION" -> "WAIT_DETECTION"
      [] e = "SUCCESS" /\ s = "WAIT_THROTTLE"    -> "IDLE_MOTOR_DELAY"
      [] e = "SUCCESS" /\ s = "IDLE_MOTOR_DELAY" -> "MOTOR_IDLE"
      [] e = "SUCCESS" /\ s = "MOTOR_IDLE"       -> "WAIT_DETECTION"
      [] e = "SUCCESS" /\ s = "WAIT_DETECTION"   -> "DETECTED"
      [] e = "SUCCESS" /\ s = "MOTOR_DELAY"      -> "MOTOR_SPINUP"
      [] e = "SUCCESS" /\ s = "MOTOR_SPINUP"     -> "IN_PROGRESS"
      [] e = "SUCCESS" /\ s = "IN_PROGRESS"      -> "FINISH"
      [] OTHER -> "IDLE"

(* The handler of state s: the pairs of an event it may return and of what
   it commands the motor, "KEEP" where it leaves the throttle alone.       *)
Handler(s, in) ==
    LET elapsed(cmd) == IF in.timeUp THEN {<<"SUCCESS", cmd>>} ELSE {<<"NONE", cmd>>}
    IN CASE s \in {"IDLE_MOTOR_DELAY", "MOTOR_IDLE", "WAIT_DETECTION"} /\ in.throttleLow
              -> {<<"THROTTLE_LOW", "KEEP">>}
         [] s \in {"MOTOR_DELAY", "MOTOR_SPINUP"} /\ in.sticks = "MOVED"
              -> {<<"ABORT", IF s = "MOTOR_DELAY" THEN Idled(in) ELSE "KEEP">>}
         [] s = "FINISH" /\ in.sticks # "CENTRED" -> {<<"ABORT", "KEEP">>}
         [] s = "WAIT_THROTTLE"
              -> IF in.throttleLow THEN {<<"NONE", "STOP">>}
                 ELSE {<<IF in.idleThrottle THEN "SUCCESS" ELSE "GOTO_DETECTION", "KEEP">>}
         [] s = "IDLE_MOTOR_DELAY" -> elapsed("STOP")
         [] s = "MOTOR_IDLE"       -> elapsed("IDLE")
         [] s = "WAIT_DETECTION"   -> elapsed(Idled(in)) \cup {<<"NONE", Idled(in)>>}
         [] s = "DETECTED"         -> {<<"NONE", Idled(in)>>}
         [] s = "MOTOR_DELAY"      -> elapsed(Idled(in))
         [] s = "MOTOR_SPINUP"     -> elapsed("LAUNCH")
         [] s = "IN_PROGRESS" -> {<<"SUCCESS", "LAUNCH">>} \cup
                                 (IF in.sticks = "MOVED" THEN {<<"ABORT", "LAUNCH">>}
                                                         ELSE elapsed("LAUNCH"))
         [] s = "FINISH"           -> elapsed(IF in.timeUp THEN "KEEP" ELSE "LAUNCH")
         [] OTHER                  -> {<<"NONE", "KEEP">>}

(* One round of the loop of applyFixedWingLaunchController(): `again' says
   whether the next state is processed in the same call.                   *)
LaunchRound(in, again) ==
    \E result \in Handler(launch, in) :
        /\ motor' = IF result[2] = "KEEP" THEN motor ELSE result[2]
        /\ again = (result[1] # "NONE")
        /\ launch' = IF again THEN LaunchNext(launch, result[1]) ELSE launch

(* In FINISH the throttle moves from the launch throttle to the pilot's; the
   model calls that "LAUNCH" until it is over.                             *)

ResetForgotten                  == UNCHANGED launchVars              \* a mutant
resetFixedWingLaunchController  == launch' = "WAIT_THROTTLE" /\ UNCHANGED motor
enableFixedWingLaunchController == launch' = "MOTOR_DELAY" /\ UNCHANGED motor
abortFixedWingLaunch            == launch' = "IDLE" /\ UNCHANGED motor
==============================================================================
