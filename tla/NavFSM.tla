-------------------------------- MODULE NavFSM --------------------------------
(***************************************************************************)
(* The navigation state machine (navigation/navigation.c): the table of    *)
(* states and events, the entry function of every state, the choice of an  *)
(* event from the mode switches and the failsafe, and the calls that drive *)
(* the machine.  The fixed-wing launch sequencer it works with is in       *)
(* FwLaunch.                                                               *)
(*                                                                         *)
(* navProcessFSMEvents() is two while loops over entry functions, one for  *)
(* the time-out of the state and one for the injected event.  One entry    *)
(* function is one action here; pc says where in the call the program is.  *)
(* The firmware is a cooperative scheduler: nothing interleaves with a     *)
(* call.  Positions, headings and altitudes are abstracted to what the     *)
(* entry functions test of them.                                           *)
(***************************************************************************)
EXTENDS Integers, Sequences, FwLaunch

CONSTANTS
    Crafts,        \* what may be flown: see Craft
    Switchings,    \* the sets of mode boxes the pilot may have active
    Faults,        \* the sets of estimates that may be missing
    HoverDelay     \* time-out of the hover before a landing, in units of 10 ms

Box      == {"ALTHOLD", "POSHOLD", "COURSEHOLD", "CRUISE", "RTH", "WP", "MANUAL", "LAUNCH"}
Estimate == {"HEADING", "ALTITUDE", "HOME"}
Geo      == {"WAYPOINT", "HOLD_TIME", "LAND"}
NavAction == Geo \cup {"JUMP", "SET_POI", "SET_HEAD", "RTH"}
Waypoint == [action : NavAction, p1 : Int, p2 : Int]
(* What is flown: the kind of craft, the boxes that its transmitter can
   switch, FEATURE_FW_LAUNCH, nav_fw_launch_idle_thr above the idle of the
   motor, nav_disarm_on_landing, and the mission that was uploaded.        *)
Craft    == [kind : {"MULTIROTOR", "AIRPLANE", "ROVER"}, boxes : SUBSET Box,
             launchFeature : BOOLEAN, idleThrottle : BOOLEAN, disarmOnLanding : BOOLEAN,
             mission : Seq(Waypoint)]

(* navigationIsBlockingArming(): a JUMP goes to a geo-referenced waypoint
   of the list, not to a neighbour, and is not the first one.  The check is
   made unless nav_extra_arming_safety is OFF.                             *)
JumpsAreValid(m) ==
    \A i \in DOMAIN m : m[i].action = "JUMP" =>
        /\ i # 1 /\ m[i].p2 >= -1
        /\ m[i].p1 \notin {i - 1, i, i + 1} /\ m[i].p1 <= Len(m)
        /\ m[i].p1 \in DOMAIN m => m[m[i].p1].action \in Geo

(* It has no lower bound: a JUMP to number 0 is looked up outside the list.
   Missions with one are left out here.                                    *)
JumpsHaveTargets(m) == \A i \in DOMAIN m : m[i].action = "JUMP" => m[i].p1 >= 1

ASSUME NavAssumption ==
    /\ Crafts \subseteq Craft
    /\ \A c \in Crafts : JumpsAreValid(c.mission) /\ JumpsHaveTargets(c.mission)
    /\ Switchings \subseteq SUBSET Box /\ Faults \subseteq SUBSET Estimate
    /\ HoverDelay \in Nat \ {0}

VARIABLES
    craft,          \* what is being flown, its mission included; never changes
    navState,       \* posControl.navState
    modes,          \* the navigation bits of flightModeFlags
    activeWaypoint, \* posControl.activeWaypointIndex + 1
    jumps,          \* p3 of every waypoint: the jumps a JUMP has left
    canWaypoint,    \* the static canActivateWaypoint
    canLaunch,      \* the static canActivateLaunchMode
    launchEnabled,  \* isNavLaunchEnabled() in the last RX frame
    adjusting,      \* posControl.flags.isAdjustingPosition
    elapsed,        \* time since lastStateProcessTime, up to HoverDelay
    armed,          \* ARMING_FLAG(ARMED)
    failsafe,       \* what failsafe.c is doing with the craft
    forcedRTH,      \* posControl.flags.forcedRTHActivated
    position,       \* posControl.flags.estPosStatus, and its time-out
    pc,             \* where in a call of the machine the program is
    call            \* that call: its event, its caller and what it reads

path    == <<activeWaypoint, jumps>>
allowed == <<canWaypoint, canLaunch, launchEnabled>>
world   == <<armed, failsafe, forcedRTH, position>>
navVars == <<craft, navState, modes, path, allowed, adjusting, elapsed, world, pc, call>>
vars    == <<navVars, launchVars>>
-----------------------------------------------------------------------------
mission == craft.mission
Plane == craft.kind = "AIRPLANE"
Rover == craft.kind = "ROVER"         \* no STATE(ALTITUDE_CONTROL)

Transient == {"ALTHOLD_INITIALIZE", "POSHOLD_3D_INITIALIZE", "COURSE_HOLD_INITIALIZE",
              "CRUISE_INITIALIZE"}
Held      == {"ALTHOLD_IN_PROGRESS", "POSHOLD_3D_IN_PROGRESS"}
Course    == {"COURSE_HOLD_IN_PROGRESS", "COURSE_HOLD_ADJUSTING"}
Cruise    == {"CRUISE_IN_PROGRESS", "CRUISE_ADJUSTING"}
Homing    == {"RTH_CLIMB_TO_SAFE_ALT", "RTH_HEAD_HOME", "RTH_HOVER_PRIOR_TO_LANDING",
              "RTH_HOVER_ABOVE_HOME"}
Landing   == {"RTH_LANDING", "RTH_FINISHED"}
AutoRTH   == {"RTH_INITIALIZE", "RTH_FINISHING"} \cup Homing \cup Landing
Enroute   == {"WAYPOINT_IN_PROGRESS", "WAYPOINT_REACHED", "WAYPOINT_HOLD_TIME",
              "WAYPOINT_RTH_LAND", "WAYPOINT_FINISHED"}
AutoWP    == {"WAYPOINT_INITIALIZE", "WAYPOINT_PRE_ACTION", "WAYPOINT_NEXT"} \cup Enroute
Emergency == {"EMERGENCY_LANDING_INITIALIZE", "EMERGENCY_LANDING_IN_PROGRESS",
              "EMERGENCY_LANDING_FINISHED"}
Launching == {"LAUNCH_INITIALIZE", "LAUNCH_WAIT", "LAUNCH_IN_PROGRESS"}
NavState  == {"IDLE"} \cup Transient \cup Held \cup Course \cup Cruise \cup AutoRTH
                 \cup AutoWP \cup Emergency \cup Launching

(* .timeoutMs: every state that is re-processed waits 10 ms, the hover
   before landing 500 ms.  The other states define no TIMEOUT event.       *)
NotReprocessed == {"IDLE", "RTH_FINISHING", "WAYPOINT_INITIALIZE", "WAYPOINT_NEXT",
                   "WAYPOINT_FINISHED", "EMERGENCY_LANDING_INITIALIZE", "LAUNCH_INITIALIZE"}
                      \cup Transient
Due(s) == /\ s \notin NotReprocessed
          /\ elapsed >= IF s = "RTH_HOVER_PRIOR_TO_LANDING" THEN HoverDelay ELSE 1

(* .mapToFlightModes                                                       *)
MappedModes(s) ==
    CASE s \in {"ALTHOLD_INITIALIZE", "ALTHOLD_IN_PROGRESS"} -> {"ALTHOLD"}
      [] s \in {"POSHOLD_3D_INITIALIZE", "POSHOLD_3D_IN_PROGRESS"} -> {"ALTHOLD", "POSHOLD"}
      [] s \in {"COURSE_HOLD_INITIALIZE"} \cup Course -> {"COURSE_HOLD"}
      [] s \in {"CRUISE_INITIALIZE"} \cup Cruise -> {"ALTHOLD", "COURSE_HOLD"}
      [] s \in AutoRTH -> {"RTH", "ALTHOLD"}
      [] s \in AutoWP -> {"WP", "ALTHOLD"}
      [] s \in Launching -> {"LAUNCH"}
      [] OTHER -> {}

(* The states with NAV_RC_POS: the pilot may shift the position.           *)
PilotShifts == {"POSHOLD_3D_IN_PROGRESS", "RTH_LANDING"} \cup Course \cup Cruise \cup Homing

(* The columns of the table: the states that define a switch event.        *)
Level == {"IDLE"} \cup Held \cup Course \cup Cruise
Accepts(s, e) ==
    CASE e = "TO_IDLE"        -> s \notin {"IDLE", "WAYPOINT_NEXT"}
      [] e = "TO_ALTHOLD"     -> s \in (Level \ {"ALTHOLD_IN_PROGRESS"}) \cup Homing \cup Landing
                                     \cup Enroute \cup {"EMERGENCY_LANDING_INITIALIZE",
                                                         "EMERGENCY_LANDING_IN_PROGRESS"}
      [] e = "TO_POSHOLD"     -> s \in (Level \ {"POSHOLD_3D_IN_PROGRESS"}) \cup Homing
                                     \cup Landing \cup Enroute
      [] e = "TO_COURSE_HOLD" -> s \in (Level \ Course) \cup Homing \cup Enroute
      [] e = "TO_CRUISE"      -> s \in (Level \ Cruise) \cup Homing \cup Enroute
      [] e = "TO_COURSE_ADJ"  -> s \in {"COURSE_HOLD_IN_PROGRESS", "CRUISE_IN_PROGRESS"}
      [] e = "TO_RTH"         -> s \in Level \cup Enroute \cup {"WAYPOINT_PRE_ACTION"}
      [] e = "TO_WAYPOINT"    -> s \in Level
      [] e = "TO_EMERGENCY"   -> s \in Level \cup Homing \cup Landing \cup Enroute
                                     \cup {"RTH_INITIALIZE"}
      [] e = "TO_LAUNCH"      -> s = "IDLE"
      [] e = "TO_RTH_LANDING" -> s = "RTH_INITIALIZE"
      [] e = "TO_HOVER_ABOVE" -> s = "RTH_HOVER_PRIOR_TO_LANDING"
      [] e = "TO_HOLD_TIME"   -> s = "WAYPOINT_REACHED"
      [] e = "TO_RTH_LAND"    -> s = "WAYPOINT_REACHED"
      [] e = "TO_FINISHED"    -> s \in {"WAYPOINT_INITIALIZE", "WAYPOINT_PRE_ACTION",
                                        "WAYPOINT_REACHED", "WAYPOINT_NEXT"}
      [] OTHER                -> FALSE

(* Where SUCCESS and the switch events lead; EMERGENCY's way to ALTHOLD is
   the exception.                                                          *)
Successor ==
    [ALTHOLD_INITIALIZE         |-> "ALTHOLD_IN_PROGRESS",
     POSHOLD_3D_INITIALIZE      |-> "POSHOLD_3D_IN_PROGRESS",
     COURSE_HOLD_INITIALIZE     |-> "COURSE_HOLD_IN_PROGRESS",
     COURSE_HOLD_ADJUSTING      |-> "COURSE_HOLD_IN_PROGRESS",
     CRUISE_INITIALIZE          |-> "CRUISE_IN_PROGRESS",
     CRUISE_ADJUSTING           |-> "CRUISE_IN_PROGRESS",
     RTH_INITIALIZE             |-> "RTH_CLIMB_TO_SAFE_ALT",
     RTH_CLIMB_TO_SAFE_ALT      |-> "RTH_HEAD_HOME",
     RTH_HEAD_HOME              |-> "RTH_HOVER_PRIOR_TO_LANDING",
     RTH_HOVER_PRIOR_TO_LANDING |-> "RTH_LANDING",
     RTH_LANDING                |-> "RTH_FINISHING",
     RTH_FINISHING              |-> "RTH_FINISHED",
     WAYPOINT_INITIALIZE        |-> "WAYPOINT_PRE_ACTION",
     WAYPOINT_PRE_ACTION        |-> "WAYPOINT_IN_PROGRESS",
     WAYPOINT_IN_PROGRESS       |-> "WAYPOINT_REACHED",
     WAYPOINT_REACHED           |-> "WAYPOINT_NEXT",
     WAYPOINT_HOLD_TIME         |-> "WAYPOINT_NEXT",
     WAYPOINT_RTH_LAND          |-> "WAYPOINT_FINISHED",
     WAYPOINT_NEXT              |-> "WAYPOINT_PRE_ACTION",
     EMERGENCY_LANDING_INITIALIZE  |-> "EMERGENCY_LANDING_IN_PROGRESS",
     EMERGENCY_LANDING_IN_PROGRESS |-> "EMERGENCY_LANDING_FINISHED",
     LAUNCH_INITIALIZE          |-> "LAUNCH_WAIT",
     LAUNCH_WAIT                |-> "LAUNCH_IN_PROGRESS",
     LAUNCH_IN_PROGRESS         |-> "IDLE"]

Destination ==
    [TO_IDLE        |-> "IDLE",
     TO_ALTHOLD     |-> "ALTHOLD_INITIALIZE",
     TO_POSHOLD     |-> "POSHOLD_3D_INITIALIZE",
     TO_COURSE_HOLD |-> "COURSE_HOLD_INITIALIZE",
     TO_CRUISE      |-> "CRUISE_INITIALIZE",
     TO_RTH         |-> "RTH_INITIALIZE",
     TO_WAYPOINT    |-> "WAYPOINT_INITIALIZE",
     TO_EMERGENCY   |-> "EMERGENCY_LANDING_INITIALIZE",
     TO_LAUNCH      |-> "LAUNCH_INITIALIZE",
     TO_RTH_LANDING |-> "RTH_HOVER_PRIOR_TO_LANDING",
     TO_HOVER_ABOVE |-> "RTH_HOVER_ABOVE_HOME",
     TO_HOLD_TIME   |-> "WAYPOINT_HOLD_TIME",
     TO_RTH_LAND    |-> "WAYPOINT_RTH_LAND",
     TO_FINISHED    |-> "WAYPOINT_FINISHED"]

ErrorToIdle == Transient \cup Launching
                  \cup {"COURSE_HOLD_ADJUSTING", "CRUISE_ADJUSTING", "WAYPOINT_INITIALIZE",
                        "WAYPOINT_PRE_ACTION", "EMERGENCY_LANDING_INITIALIZE"}

(* navFSM[s].onEvent[e]; "UNDEFINED" is NAV_STATE_UNDEFINED.               *)
OnEvent(s, e) ==
    CASE e = "SUCCESS" /\ s \in DOMAIN Successor -> Successor[s]
      [] e = "ERROR" /\ s \in ErrorToIdle        -> "IDLE"
      [] e = "TO_ALTHOLD" /\ s \in Emergency /\ Accepts(s, e) -> "IDLE"
      [] e = "TO_COURSE_ADJ" /\ Accepts(s, e)
            -> IF s \in Course THEN "COURSE_HOLD_ADJUSTING" ELSE "CRUISE_ADJUSTING"
      [] e \in DOMAIN Destination /\ Accepts(s, e) /\ ~(e = "TO_ALTHOLD" /\ s \in Emergency)
            -> Destination[e]
      [] OTHER -> "UNDEFINED"
-----------------------------------------------------------------------------
(* What the machine reads: estPosStatus and the pos_failure_timeout of
   checkForPositionSensorTimeout(), and the other estimates.               *)
Usable   == position \in {"TRUSTED", "USABLE"}
TimedOut == position = "TIMED_OUT"
Has(estimate, in)         == estimate \notin in.missing
canActivateAltHold(in)    == Has("ALTITUDE", in)
canActivatePosHold(in)    == Usable /\ Has("HEADING", in)
canActivateNavigation(in) == position = "TRUSTED" /\ Has("HEADING", in)
canFlyHome(in) == canActivateAltHold(in) /\ canActivateNavigation(in) /\ Has("HOME", in)

NoInput == [boxes |-> {}, missing |-> {}, low |-> TRUE, sticks |-> "CENTRED", timeUp |-> FALSE]
NoCall  == [event |-> "NONE", caller |-> "none", rth |-> FALSE, in |-> NoInput]
Callers == {"none", "rx", "failsafe", "abort"}
Event   == DOMAIN Destination \cup {"NONE", "TO_COURSE_ADJ"}

(* What a call may read.  A craft that is launching reads the throttle, the
   sticks and the time of the launch; otherwise the machine reads the
   estimates.                                                              *)
Inputs ==
    {in \in [boxes : {b \in Switchings : b \subseteq craft.boxes}, missing : Faults,
             low : BOOLEAN, sticks : {"CENTRED", "EARLY", "MOVED"}, timeUp : BOOLEAN] :
        IF navState \in Launching THEN in.missing = {}
        ELSE in.low /\ ~in.timeUp /\ in.sticks # "EARLY"}

LaunchBox(in) == Plane /\ (craft.launchFeature \/ "LAUNCH" \in in.boxes)   \* isNavLaunchEnabled()

NavTypeOK ==
    /\ craft \in Crafts /\ navState \in NavState
    /\ modes \subseteq {"ALTHOLD", "POSHOLD", "COURSE_HOLD", "RTH", "WP", "LAUNCH"}
    /\ activeWaypoint \in DOMAIN mission \cup {1}
    /\ jumps \in [DOMAIN mission -> Int]
    /\ {canWaypoint, canLaunch, launchEnabled, adjusting, armed, forcedRTH} \subseteq BOOLEAN
    /\ elapsed \in 0 .. HoverDelay
    /\ failsafe \in {"OFF", "NONE", "RTH", "LANDING", "LANDED"}
    /\ position \in {"TRUSTED", "USABLE", "LOST", "TIMED_OUT"}
    /\ pc \in {"rest", "timeout", "event", "inject", "done", "pid", "failsafe"}
    /\ call.event \in Event /\ call.caller \in Callers
    /\ LaunchTypeOK

NavInit ==
    /\ craft \in Crafts
    /\ navState = "IDLE" /\ modes = {} /\ activeWaypoint = 1
    /\ jumps = [i \in DOMAIN mission |-> 0]
    /\ canWaypoint = FALSE /\ canLaunch = FALSE /\ launchEnabled = FALSE /\ adjusting = FALSE
    /\ elapsed = HoverDelay
    /\ armed = FALSE /\ failsafe = "OFF" /\ forcedRTH = FALSE /\ position = "LOST"
    /\ pc = "rest" /\ call = NoCall
    /\ LaunchInit
-----------------------------------------------------------------------------
(* selectNavEventFromBoxModeInput(): a list of requests in the order of
   their priority, each with its condition; the first that holds decides.  *)
FirstOf(requests) ==
    LET i == CHOOSE k \in DOMAIN requests :
                requests[k][1] /\ \A j \in 1 .. k - 1 : ~requests[j][1]
    IN requests[i][2]

(* The modes below MANUAL: a mode that flies goes on without its sensors.  *)
PilotMode(in, wp) ==
    LET hold     == canActivatePosHold(in) /\ canActivateAltHold(in)
        cruising == {"COURSE_HOLD", "ALTHOLD"} \subseteq modes
    IN FirstOf(
         << <<"WP" \in in.boxes /\ ("WP" \in modes \/ (wp /\ canFlyHome(in))), "TO_WAYPOINT">>,
            <<"POSHOLD" \in in.boxes /\ ("POSHOLD" \in modes \/ hold), "TO_POSHOLD">>,
            <<"CRUISE" \in in.boxes /\ (cruising \/ hold), "TO_CRUISE">>,
            <<{"COURSEHOLD", "ALTHOLD"} \subseteq in.boxes /\ (cruising \/ hold), "TO_CRUISE">>,
            <<"COURSEHOLD" \in in.boxes /\ ("COURSE_HOLD" \in modes \/ canActivatePosHold(in)),
              "TO_COURSE_HOLD">>,
            <<"ALTHOLD" \in in.boxes /\ ("ALTHOLD" \in modes \/ canActivateAltHold(in)), "TO_ALTHOLD">>,
            <<TRUE, "TO_IDLE">> >>)

(* The event and the two statics it leaves, for an arming flag and a launch
   box that this frame may just have changed.                              *)
Selection(e, wp, launchOnce) == [event |-> e, canWaypoint |-> wp, canLaunch |-> launchOnce]

SelectArmed(launchBox, forced, in) ==
    LET executingRTH == navState \in AutoRTH
        wp           == canWaypoint /\ mission # <<>> /\ ~executingRTH
        rthAsked     == \/ "RTH" \in in.boxes
                        \/ "WP" \in in.boxes /\ ~wp /\ "MANUAL" \notin in.boxes
    IN FirstOf(
         << <<failsafe = "LANDING", Selection("TO_IDLE", canWaypoint, canLaunch)>>,
            <<launchBox /\ canLaunch, Selection("TO_LAUNCH", wp, FALSE)>>,
            <<"LAUNCH" \in modes /\ (launchBox \/ ~in.low), Selection("NONE", wp, canLaunch)>>,
            <<"LAUNCH" \in modes, Selection("TO_IDLE", wp, canLaunch)>>,
            <<forced, Selection("TO_RTH", wp, canLaunch)>>,
            <<rthAsked /\ (executingRTH \/ canFlyHome(in)), Selection("TO_RTH", wp, canLaunch)>>,
            <<"MANUAL" \in in.boxes, Selection("TO_IDLE", FALSE, canLaunch)>>,
            <<TRUE, Selection(PilotMode(in, wp), wp \/ "WP" \notin in.boxes, canLaunch)>> >>)

Select(arm, launchBox, forced, in) ==
    IF arm THEN SelectArmed(launchBox, forced, in) ELSE Selection("TO_IDLE", FALSE, launchBox)
-----------------------------------------------------------------------------
(* navProcessFSMEvents(): the loop of the time-out, the injected event, its
   loop.  Its mutant loses the event when the state was due.               *)
BeginEither(e, caller, in) ==
    /\ call' = [event |-> IF Due(navState) THEN "NONE" ELSE e, caller |-> caller,
                rth |-> "RTH" \in in.boxes, in |-> [in EXCEPT !.boxes = {}]]
    /\ pc' = IF Due(navState) THEN "timeout" ELSE "event"
Begin(e, caller, in) ==
    /\ call' = [event |-> e, caller |-> caller, rth |-> "RTH" \in in.boxes,
                in |-> [in EXCEPT !.boxes = {}]]
    /\ pc' = IF Due(navState) THEN "timeout" ELSE "event"

(* A mutant: an event without effect restarts the clock of the state.       *)
InjectRestartsClock ==
    /\ pc = "event"
    /\ IF OnEvent(navState, call.event) = "UNDEFINED"
       THEN pc' = "done" /\ elapsed' = 0 /\ UNCHANGED navState
       ELSE pc' = "inject" /\ navState' = OnEvent(navState, call.event) /\ UNCHANGED elapsed
    /\ call' = [call EXCEPT !.event = "NONE"]
    /\ UNCHANGED <<craft, modes, path, allowed, adjusting, world, launchVars>>
Inject ==
    /\ pc = "event"
    /\ IF OnEvent(navState, call.event) = "UNDEFINED"
       THEN pc' = "done" /\ UNCHANGED navState
       ELSE pc' = "inject" /\ navState' = OnEvent(navState, call.event)
    /\ call' = [call EXCEPT !.event = "NONE"]
    /\ UNCHANGED <<craft, modes, path, allowed, adjusting, elapsed, world, launchVars>>

(* The entry function of navState returned e: the loop goes on in the state
   that e leads to, or ends.                                               *)
Entered(e) ==
    /\ pc \in {"timeout", "inject"}
    /\ IF OnEvent(navState, e) = "UNDEFINED"
       THEN /\ pc' = IF pc = "timeout" THEN "event" ELSE "done"
            /\ elapsed' = 0 /\ UNCHANGED navState
       ELSE /\ navState' = OnEvent(navState, e)
            /\ UNCHANGED <<pc, elapsed>>
    /\ UNCHANGED <<craft, modes, allowed, adjusting, failsafe, forcedRTH, position, call, motor>>

(* The landing controller; on a plane a landing is never detected.  On the
   way home and down the sanity check may find the craft flying away.      *)
FlyAway  == IF Plane THEN {} ELSE {"TO_EMERGENCY"}
Landed   == IF Rover \/ ~armed THEN {"SUCCESS"}
            ELSE {"NONE", "TO_EMERGENCY"} \cup (IF Plane THEN {} ELSE {"SUCCESS"})
FinishRTH == armed' = IF Rover \/ craft.disarmOnLanding THEN FALSE ELSE armed

(* The entry functions that change nothing but the targets of the
   controllers: the events each may return.                                *)
LostOr(events) == IF TimedOut THEN {"TO_EMERGENCY"} ELSE events
Homeward(in, events) == IF Has("HEADING", in) THEN events ELSE {"TO_EMERGENCY"}
Enters(s, in) ==
    CASE s \in {"ALTHOLD_INITIALIZE", "POSHOLD_3D_INITIALIZE", "EMERGENCY_LANDING_INITIALIZE"} -> {"SUCCESS"}
      [] s \in {"COURSE_HOLD_INITIALIZE", "CRUISE_INITIALIZE"}
           -> IF ~Plane THEN {"ERROR"} ELSE IF TimedOut THEN {"TO_IDLE"} ELSE {"SUCCESS"}
      [] s \in {"COURSE_HOLD_IN_PROGRESS", "CRUISE_IN_PROGRESS"}
           -> IF TimedOut THEN {"TO_IDLE"} ELSE IF adjusting THEN {"TO_COURSE_ADJ"} ELSE {"NONE"}
      [] s \in {"COURSE_HOLD_ADJUSTING", "CRUISE_ADJUSTING"}
           -> IF adjusting THEN {"NONE"} ELSE {"SUCCESS"}
      [] s = "RTH_INITIALIZE"
           -> IF position # "TRUSTED" \/ in.missing # {} THEN {"TO_EMERGENCY"}
              ELSE {"SUCCESS", IF Plane /\ ~forcedRTH THEN "TO_IDLE" ELSE "TO_RTH_LANDING"}
      [] s = "RTH_CLIMB_TO_SAFE_ALT"
           -> Homeward(in, IF Rover THEN {"SUCCESS"} ELSE LostOr({"SUCCESS", "NONE"} \cup FlyAway))
      [] s = "RTH_HEAD_HOME"
           -> Homeward(in, IF Usable THEN {"SUCCESS", "NONE", "TO_EMERGENCY"} ELSE LostOr({"NONE"}))
      [] s = "RTH_HOVER_PRIOR_TO_LANDING"
           -> Homeward(in, IF Rover THEN {"SUCCESS"}
                           ELSE LostOr({"SUCCESS", "TO_HOVER_ABOVE"} \cup
                                       (IF Plane THEN {} ELSE {"NONE", "TO_EMERGENCY"})))
      [] s = "RTH_HOVER_ABOVE_HOME"    -> {"NONE"} \cup LostOr({"NONE"})
      [] s = "RTH_LANDING"             -> Landed
      [] s = "WAYPOINT_IN_PROGRESS"
           -> IF Usable /\ Has("HEADING", in) THEN {"SUCCESS", "NONE"} ELSE LostOr({"NONE"})
      [] s = "WAYPOINT_REACHED"
           -> {CASE mission[activeWaypoint].action = "LAND"      -> "TO_RTH_LAND"
                 [] mission[activeWaypoint].action = "HOLD_TIME" -> "TO_HOLD_TIME"
                 [] OTHER                                        -> "SUCCESS"}
      [] s = "WAYPOINT_HOLD_TIME"      -> {"SUCCESS", "NONE"}
      [] s = "EMERGENCY_LANDING_FINISHED" -> {"SUCCESS"}
      [] s = "LAUNCH_IN_PROGRESS"      -> {IF isFixedWingLaunchFinishedOrAborted THEN "SUCCESS" ELSE "NONE"}
      [] OTHER                         -> {"NONE"}
Stateful == {"RTH_FINISHING", "WAYPOINT_INITIALIZE", "WAYPOINT_PRE_ACTION", "WAYPOINT_RTH_LAND",
             "WAYPOINT_NEXT", "WAYPOINT_FINISHED", "LAUNCH_INITIALIZE", "LAUNCH_WAIT"}
Enter ==
    /\ navState \notin Stateful
    /\ \E e \in Enters(navState, call.in) : Entered(e)
    /\ UNCHANGED <<path, armed, launch>>

EnterFinishing ==
    /\ navState = "RTH_FINISHING"
    /\ FinishRTH /\ Entered("SUCCESS")
    /\ UNCHANGED <<path, launch>>

(* The landing controller again; an emergency it asks for is not heard.     *)
EnterWaypointLand ==
    /\ navState = "WAYPOINT_RTH_LAND"
    /\ \/ "SUCCESS" \in Landed /\ FinishRTH /\ Entered("SUCCESS")
       \/ Landed # {"SUCCESS"} /\ Entered("NONE") /\ UNCHANGED armed
    /\ UNCHANGED <<path, launch>>

(* setupJumpCounters()                                                      *)
EnterMission ==
    /\ navState = "WAYPOINT_INITIALIZE"
    /\ IF mission = <<>>
       THEN Entered("ERROR") /\ UNCHANGED path
       ELSE /\ Entered("SUCCESS")
            /\ activeWaypoint' = 1
            /\ jumps' = [i \in DOMAIN mission |->
                            IF mission[i].action = "JUMP" THEN mission[i].p2 ELSE jumps[i]]
    /\ UNCHANGED <<armed, launch>>

(* Two mutants: one past the end, and one that flies to what comes next.    *)
NextWaypointPastEnd(e) == Entered(e) /\ activeWaypoint' = activeWaypoint + 1
NextWaypointFlies(e) ==
    IF activeWaypoint = Len(mission)
    THEN Entered("TO_FINISHED") /\ UNCHANGED activeWaypoint
    ELSE Entered("SUCCESS") /\ activeWaypoint' = activeWaypoint + 1
NextWaypoint(e) ==
    IF activeWaypoint = Len(mission)
    THEN Entered("TO_FINISHED") /\ UNCHANGED activeWaypoint
    ELSE Entered(e) /\ activeWaypoint' = activeWaypoint + 1

EnterNext ==
    /\ navState = "WAYPOINT_NEXT"
    /\ NextWaypoint("SUCCESS")
    /\ UNCHANGED <<jumps, armed, launch>>

(* A jump ends the loop: its target is looked at when the state is due.  The
   mutant goes there at once.                                               *)
Jumped(i) ==
    /\ jumps' = [jumps EXCEPT ![i] = IF @ = -1 THEN @ ELSE @ - 1]
    /\ activeWaypoint' = mission[i].p1
JumpAtOnce(i) == Jumped(i) /\ Entered("SUCCESS")
TakeJump(i) == Jumped(i) /\ Entered("NONE")

(* The waypoint decides: fly there; jump, or go past a JUMP that has no
   jumps left, whose counter starts again; note a heading; fly home.        *)
EnterPreAction ==
    LET wp == mission[activeWaypoint]
        i  == activeWaypoint
    IN /\ navState = "WAYPOINT_PRE_ACTION"
       /\ \/ wp.action \in Geo /\ Entered("SUCCESS") /\ UNCHANGED path
          \/ /\ wp.action = "JUMP" /\ jumps[i] = 0
             /\ jumps' = [jumps EXCEPT ![i] = wp.p2]
             /\ NextWaypoint("NONE")
          \/ wp.action = "JUMP" /\ jumps[i] # 0 /\ TakeJump(i)
          \/ wp.action \in {"SET_POI", "SET_HEAD"} /\ NextWaypoint("NONE") /\ UNCHANGED jumps
          \/ wp.action = "RTH" /\ Entered("TO_RTH") /\ UNCHANGED path
       /\ UNCHANGED <<armed, launch>>

(* clearJumpCounters()                                                      *)
EnterMissionDone ==
    /\ navState = "WAYPOINT_FINISHED"
    /\ jumps' = [i \in DOMAIN mission |-> IF mission[i].action = "JUMP" THEN 0 ELSE jumps[i]]
    /\ Entered(IF TimedOut THEN "TO_EMERGENCY" ELSE "NONE")
    /\ UNCHANGED <<activeWaypoint, armed, launch>>

EnterLaunch ==
    /\ navState = "LAUNCH_INITIALIZE"
    /\ Entered("SUCCESS") /\ resetFixedWingLaunchController
    /\ UNCHANGED <<path, armed>>

EnterLaunchWait ==
    /\ navState = "LAUNCH_WAIT"
    /\ \/ isFixedWingLaunchDetected /\ Entered("SUCCESS") /\ enableFixedWingLaunchController
       \/ /\ ~isFixedWingLaunchDetected
          /\ craft.launchFeature /\ call.in.low /\ call.in.sticks # "CENTRED"
          /\ Entered("TO_IDLE") /\ abortFixedWingLaunch
       \/ /\ ~isFixedWingLaunchDetected
          /\ ~(craft.launchFeature /\ call.in.low /\ call.in.sticks # "CENTRED")
          /\ Entered("NONE") /\ UNCHANGED launch
    /\ UNCHANGED <<path, armed>>

Entry == \/ Enter \/ EnterFinishing \/ EnterWaypointLand \/ EnterMission \/ EnterNext
         \/ EnterPreAction \/ EnterMissionDone \/ EnterLaunch \/ EnterLaunchWait

(* The machine has returned to its caller.                                  *)
ReturnToPidLoop ==
    /\ pc = "done" /\ call.caller = "rx"
    /\ adjusting' = IF navState \notin PilotShifts THEN FALSE        \* processNavigationRCAdjustments()
                    ELSE IF failsafe = "OFF" THEN call.in.sticks # "CENTRED"
                    ELSE adjusting
    /\ modes' = MappedModes(navState)                                \* switchNavigationFlightModes()
    /\ motor' = "PILOT"
    /\ pc' = "pid"
    /\ call' = IF navState \in Launching THEN [call EXCEPT !.in.missing = {}] ELSE NoCall
    /\ UNCHANGED <<craft, navState, path, allowed, elapsed, world, launch>>

ReturnToFailsafe ==
    /\ pc = "done" /\ call.caller \in {"failsafe", "abort"}
    /\ pc' = IF call.caller = "failsafe" THEN "failsafe" ELSE "rest"
    /\ call' = NoCall
    /\ UNCHANGED <<craft, navState, modes, path, allowed, adjusting, elapsed, world, launchVars>>
-----------------------------------------------------------------------------
(* The PID loop: applyWaypointNavigationAndAltitudeHold(), where the launch
   controller may run several of its handlers.                              *)
PidEnds == pc' = "rest" /\ call' = NoCall
PidStart ==                              \* a loop without a new RX frame
    /\ pc = "rest"
    /\ navState \in Launching \/ (~armed /\ forcedRTH)
    /\ \E in \in Inputs : call' = [NoCall EXCEPT !.in = in]
    /\ pc' = "pid" /\ motor' = "PILOT"
    /\ UNCHANGED <<craft, navState, modes, path, allowed, adjusting, elapsed, world, launch>>
PidLoop ==
    /\ pc = "pid"
    /\ \/ ~armed /\ forcedRTH' = FALSE /\ PidEnds /\ UNCHANGED launchVars
       \/ /\ armed /\ navState \notin {"LAUNCH_WAIT", "LAUNCH_IN_PROGRESS"}
          /\ PidEnds /\ UNCHANGED <<forcedRTH, launchVars>>
       \/ /\ armed /\ navState \in {"LAUNCH_WAIT", "LAUNCH_IN_PROGRESS"}
          /\ LET in == [throttleLow |-> call.in.low, sticks |-> call.in.sticks,
                        timeUp |-> call.in.timeUp, idleThrottle |-> craft.idleThrottle]
             IN \/ LaunchRound(in, TRUE) /\ call' = [call EXCEPT !.in.timeUp = FALSE] /\ UNCHANGED pc
                \/ LaunchRound(in, FALSE) /\ PidEnds
          /\ UNCHANGED forcedRTH
    /\ UNCHANGED <<craft, navState, modes, path, allowed, adjusting, elapsed, armed, failsafe, position>>
-----------------------------------------------------------------------------
(* An RX frame and the navigation pass that follows it: the pilot arms or
   disarms, and the machine gets the event that the switches select.        *)
MayArm(in) ==
    /\ ~armed /\ failsafe = "OFF"
    /\ Usable /\ Has("HOME", in) /\ in.low
    /\ LaunchBox(in) => in.sticks = "CENTRED"
    /\ \/ in.boxes \cap {"RTH", "WP", "POSHOLD"} = {}                 \* navBoxModesEnabled
          /\ Plane => in.boxes \cap {"ALTHOLD", "COURSEHOLD", "CRUISE"} = {}
       \/ LaunchBox(in) /\ in.boxes \ {"LAUNCH", "MANUAL", "POSHOLD"} # {}  \* navLaunchComboModesEnabled

RxFrame(in) ==
    /\ pc = "rest"
    /\ armed' \in {armed, FALSE} \cup (IF MayArm(in) THEN {TRUE} ELSE {})
    /\ launchEnabled' = LaunchBox(in)
    /\ LET selected == Select(armed', launchEnabled', forcedRTH, in)
       IN /\ canWaypoint' = selected.canWaypoint
          /\ canLaunch' = selected.canLaunch
          /\ Begin(selected.event, "rx", in)
    /\ UNCHANGED <<craft, navState, modes, path, adjusting, elapsed, failsafe, forcedRTH,
                   position, launchVars>>
Frame == \E in \in Inputs : RxFrame(in)

(* failsafe.c, as far as it touches the navigation.  A craft with its motor
   stopped by the launch, or its throttle low for long, is disarmed.        *)
FailsafeRest == UNCHANGED <<craft, navState, modes, path, allowed, adjusting, elapsed, forcedRTH,
                            position, pc, call, launchVars>>
FailsafeDrops ==
    /\ pc = "rest" /\ failsafe = "OFF" /\ armed
    /\ failsafe' = "LANDED" /\ armed' = FALSE
    /\ FailsafeRest
FailsafeTakesOver ==                     \* AUTO_LANDING, or the procedure NONE
    /\ pc = "rest" /\ failsafe = "OFF" /\ armed /\ motor # "STOP"
    /\ failsafe' \in {"LANDING", "NONE"}
    /\ UNCHANGED armed /\ FailsafeRest
activateForcedRTH ==
    /\ pc = "rest" /\ failsafe = "OFF" /\ armed /\ motor # "STOP"
    /\ failsafe' = "RTH" /\ forcedRTH' = TRUE
    /\ abortFixedWingLaunch
    /\ \E missing \in Faults, low \in BOOLEAN :
         LET in       == [NoInput EXCEPT !.missing = missing, !.low = low]
             selected == Select(TRUE, launchEnabled, TRUE, in)
         IN /\ canWaypoint' = selected.canWaypoint /\ canLaunch' = selected.canLaunch
            /\ Begin(selected.event, "failsafe", in)
    /\ UNCHANGED <<craft, navState, modes, path, launchEnabled, adjusting, elapsed, armed, position>>

(* Its mutant leaves the RTH forced.                                       *)
AbortKeepsForced ==
    /\ Begin("TO_IDLE", "abort", NoInput)
    /\ UNCHANGED <<craft, navState, modes, path, allowed, adjusting, elapsed, armed, forcedRTH,
                   position, launchVars>>
abortForcedRTH ==
    /\ forcedRTH' = FALSE
    /\ Begin("TO_IDLE", "abort", NoInput)
    /\ UNCHANGED <<craft, navState, modes, path, allowed, adjusting, elapsed, armed, position, launchVars>>

(* getStateOfForcedRTH(), right after the activation and then in every RX
   task.                                                                    *)
FailsafeWatches ==
    /\ \/ pc = "failsafe"
       \/ pc = "rest" /\ failsafe = "RTH"
    /\ \/ /\ ~(forcedRTH /\ navState \in AutoRTH \cup Emergency)        \* RTH_IDLE
          /\ failsafe' = "LANDING" /\ abortForcedRTH
       \/ /\ forcedRTH /\ navState \in AutoRTH \cup Emergency
          /\ IF ~armed \/ navState \in {"RTH_FINISHED", "EMERGENCY_LANDING_FINISHED"}
             THEN failsafe' = "LANDED" /\ armed' = FALSE
             ELSE UNCHANGED <<failsafe, armed>>
          /\ pc' = "rest"
          /\ UNCHANGED <<craft, navState, modes, path, allowed, adjusting, elapsed, forcedRTH,
                         position, call, launchVars>>
FailsafeLands ==
    /\ pc = "rest" /\ failsafe = "LANDING"
    /\ failsafe' = "LANDED" /\ armed' = FALSE
    /\ FailsafeRest
FailsafeRecovers ==                      \* a landed craft has had PID loops since
    /\ pc = "rest" /\ failsafe # "OFF"
    /\ failsafe = "LANDED" => ~forcedRTH
    /\ failsafe' = "OFF"
    /\ IF failsafe = "RTH" THEN abortForcedRTH ELSE UNCHANGED armed /\ FailsafeRest

(* The rest of the world: the position estimate and the clock.              *)
PositionChanges ==
    /\ pc = "rest"
    /\ position' \in ({"TRUSTED", "USABLE", "LOST"} \cup
                      (IF position = "LOST" THEN {"TIMED_OUT"} ELSE {})) \ {position}
    /\ UNCHANGED <<craft, navState, modes, path, allowed, adjusting, elapsed, armed, failsafe,
                   forcedRTH, pc, call, launchVars>>
Tick ==
    /\ pc = "rest"
    /\ elapsed < HoverDelay /\ elapsed' = elapsed + 1
    /\ UNCHANGED <<craft, navState, modes, path, allowed, adjusting, world, pc, call, launchVars>>

CallStep == Inject \/ Entry \/ ReturnToPidLoop \/ ReturnToFailsafe \/ PidLoop
               \/ (pc = "failsafe" /\ FailsafeWatches)
NavNext == \/ CallStep \/ PidStart \/ Frame
           \/ FailsafeDrops \/ FailsafeTakesOver \/ activateForcedRTH \/ FailsafeWatches
           \/ FailsafeLands \/ FailsafeRecovers \/ PositionChanges \/ Tick

NavSpec == NavInit /\ [][NavNext]_vars
FairNavSpec == NavSpec /\ WF_vars(CallStep) /\ SF_vars(Frame) /\ SF_vars(Tick)
-----------------------------------------------------------------------------
(* The states that fly to, hold at or land on a waypoint only ever do so for
   a geo-referenced one: their UNREACHABLE() cases are unreachable, whatever
   the mission jumps over and whichever estimate comes and goes.            *)
ActiveWaypointIsGeo ==
    navState \in {"WAYPOINT_IN_PROGRESS", "WAYPOINT_REACHED", "WAYPOINT_HOLD_TIME", "WAYPOINT_RTH_LAND"}
        => activeWaypoint \in DOMAIN mission /\ mission[activeWaypoint].action \in Geo

(* Once the call that activates a forced RTH is over and the failsafe has
   looked at it, an armed craft whose RTH is still forced flies it or is in
   an emergency landing: no switch of the pilot, no launch and no loss of an
   estimate takes the craft out of it.                                      *)
ForcedRTHIsFlown ==
    pc = "rest" /\ armed /\ forcedRTH => navState \in AutoRTH \cup Emergency

(* abortForcedRTH() leaves the machine in IDLE from whatever it was doing,
   an entry that its time-out had just run included: what failsafe.c
   assumes when it hands the craft back to the pilot or starts its landing. *)
AbortedRTHIsIdle ==
    pc = "done" /\ call.caller = "abort" => navState = "IDLE"

(* While the machine waits for a launch the pilot's throttle never reaches
   the motor, not even when the sequencer goes back a state.                *)
MotorWaitsForLaunch ==
    pc = "rest" /\ armed /\ navState = "LAUNCH_WAIT" /\ failsafe = "OFF"
        => motor \in {"STOP", "IDLE"}

(* The while loops over entry functions, and the one of the sequencer, end:
   no mission and no estimate makes the entry functions call each other for
   ever.                                                                    *)
EntryLoopEnds == (pc # "rest") ~> (pc = "rest")

(* A craft that flies home, flies to a waypoint or holds a course and whose
   position stays lost past pos_failure_timeout does not go on with that.
   The ADJUSTING states do not look at the position while the pilot steers. *)
NeedsPosition == {"COURSE_HOLD_IN_PROGRESS", "CRUISE_IN_PROGRESS", "RTH_CLIMB_TO_SAFE_ALT",
                  "RTH_HEAD_HOME", "RTH_HOVER_PRIOR_TO_LANDING", "WAYPOINT_IN_PROGRESS"}
PositionLossIsAnswered ==
    (armed /\ TimedOut /\ navState \in NeedsPosition)
        ~> (~armed \/ ~TimedOut \/ navState \notin NeedsPosition)
==============================================================================
