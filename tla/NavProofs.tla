------------------------------ MODULE NavProofs ------------------------------
(***************************************************************************)
(* Proofs about the navigation state machine and the launch sequencer, for *)
(* every set of crafts and missions, every set of switches and losses of   *)
(* an estimate, and every hover time.                                      *)
(***************************************************************************)
EXTENDS NavFSM, WellFoundedInduction, TLAPS

(* The states of a mission that is under way, and those of them that fly
   to, hold at or land on the waypoint.                                    *)
Flying    == AutoWP \ {"WAYPOINT_INITIALIZE"}
GeoStates == {"WAYPOINT_IN_PROGRESS", "WAYPOINT_REACHED", "WAYPOINT_HOLD_TIME", "WAYPOINT_RTH_LAND"}

Homecoming == AutoRTH \cup Emergency
LaunchOnly == Launching \cup {"IDLE"}
-----------------------------------------------------------------------------
(* The columns of the table that lead to a state.                          *)
LEMMA OnEventCases ==
  ASSUME NEW s, NEW e, OnEvent(s, e) # "UNDEFINED"
  PROVE  \/ e = "SUCCESS" /\ s \in DOMAIN Successor /\ OnEvent(s, e) = Successor[s]
         \/ e = "ERROR" /\ s \in ErrorToIdle /\ OnEvent(s, e) = "IDLE"
         \/ e = "TO_ALTHOLD" /\ s \in Emergency /\ OnEvent(s, e) = "IDLE"
         \/ /\ e = "TO_COURSE_ADJ" /\ Accepts(s, e)
            /\ OnEvent(s, e) \in {"COURSE_HOLD_ADJUSTING", "CRUISE_ADJUSTING"}
         \/ e \in DOMAIN Destination /\ Accepts(s, e) /\ OnEvent(s, e) = Destination[e]
<1> DEFINE succ == DOMAIN Successor
           dest == DOMAIN Destination
           next(x) == Successor[x]
           goal(x) == Destination[x]
           accepted  == Accepts(s, e)
           failing   == s \in ErrorToIdle
           emergency == s \in Emergency
           course    == s \in Course
<1>1. OnEvent(s, e) =
        CASE e = "SUCCESS" /\ s \in succ -> next(s)
          [] e = "ERROR" /\ failing -> "IDLE"
          [] e = "TO_ALTHOLD" /\ emergency /\ accepted -> "IDLE"
          [] e = "TO_COURSE_ADJ" /\ accepted
               -> IF course THEN "COURSE_HOLD_ADJUSTING" ELSE "CRUISE_ADJUSTING"
          [] e \in dest /\ accepted /\ ~(e = "TO_ALTHOLD" /\ emergency) -> goal(e)
          [] OTHER -> "UNDEFINED"
  BY Zenon DEF OnEvent
<1> HIDE DEF succ, dest, next, goal, accepted, failing, emergency, course
<1>2. \/ e = "SUCCESS" /\ s \in succ /\ OnEvent(s, e) = next(s)
      \/ e = "ERROR" /\ failing /\ OnEvent(s, e) = "IDLE"
      \/ e = "TO_ALTHOLD" /\ emergency /\ OnEvent(s, e) = "IDLE"
      \/ /\ e = "TO_COURSE_ADJ" /\ accepted
         /\ OnEvent(s, e) \in {"COURSE_HOLD_ADJUSTING", "CRUISE_ADJUSTING"}
      \/ e \in dest /\ accepted /\ OnEvent(s, e) = goal(e)
  BY <1>1
<1> QED
  BY <1>2, Zenon DEF succ, dest, next, goal, accepted, failing, emergency, course

LEMMA SuccessorDomain ==
  DOMAIN Successor = {"ALTHOLD_INITIALIZE", "POSHOLD_3D_INITIALIZE", "COURSE_HOLD_INITIALIZE",
    "COURSE_HOLD_ADJUSTING", "CRUISE_INITIALIZE", "CRUISE_ADJUSTING", "RTH_INITIALIZE",
    "RTH_CLIMB_TO_SAFE_ALT", "RTH_HEAD_HOME", "RTH_HOVER_PRIOR_TO_LANDING", "RTH_LANDING",
    "RTH_FINISHING", "WAYPOINT_INITIALIZE", "WAYPOINT_PRE_ACTION", "WAYPOINT_IN_PROGRESS",
    "WAYPOINT_REACHED", "WAYPOINT_HOLD_TIME", "WAYPOINT_RTH_LAND", "WAYPOINT_NEXT",
    "EMERGENCY_LANDING_INITIALIZE", "EMERGENCY_LANDING_IN_PROGRESS", "LAUNCH_INITIALIZE",
    "LAUNCH_WAIT", "LAUNCH_IN_PROGRESS"}
BY DEF Successor

LEMMA DestinationDomain ==
  DOMAIN Destination = {"TO_IDLE", "TO_ALTHOLD", "TO_POSHOLD", "TO_COURSE_HOLD", "TO_CRUISE",
    "TO_RTH", "TO_WAYPOINT", "TO_EMERGENCY", "TO_LAUNCH", "TO_RTH_LANDING", "TO_HOVER_ABOVE",
    "TO_HOLD_TIME", "TO_RTH_LAND", "TO_FINISHED"}
BY DEF Destination

LEMMA StateNames ==
  /\ Homecoming \subseteq NavState /\ LaunchOnly \subseteq NavState /\ AutoWP \subseteq NavState
  /\ GeoStates \subseteq Flying /\ Homecoming \cap LaunchOnly = {} /\ Homecoming \cap AutoWP = {}
  /\ LaunchOnly \cap AutoWP = {}
BY DEF NavState, Homecoming, LaunchOnly, AutoWP, AutoRTH, Homing, Landing, Enroute, Emergency, Launching,
       GeoStates, Flying

(* Where SUCCESS leads.                                                    *)
LEMMA SuccessStays ==
  ASSUME NEW s \in DOMAIN Successor
  PROVE  /\ Successor[s] \in NavState
         /\ s \in Homecoming => Successor[s] \in Homecoming
         /\ s \in LaunchOnly => Successor[s] \in LaunchOnly
         /\ Successor[s] \in Flying => s \in AutoWP
         /\ Successor[s] \in GeoStates => s \in GeoStates \cup {"WAYPOINT_PRE_ACTION"}
         /\ Successor[s] = "LAUNCH_WAIT" => s = "LAUNCH_INITIALIZE"
BY SuccessorDomain
DEF Successor, NavState, Homecoming, LaunchOnly, Flying, GeoStates, Transient, Held, Course, Cruise,
    AutoRTH, Homing, Landing, AutoWP, Enroute, Emergency, Launching

(* Where the switch events lead, and from where.                           *)
LEMMA SwitchLeads ==
  ASSUME NEW s \in NavState, NEW e \in DOMAIN Destination, Accepts(s, e)
  PROVE  /\ Destination[e] \in NavState \ {"LAUNCH_WAIT", "WAYPOINT_NEXT"}
         /\ Destination[e] \in Flying => s \in AutoWP
         /\ Destination[e] \in GeoStates => s \in GeoStates
         /\ s \in Homecoming =>
               (e \in {"TO_RTH", "TO_LAUNCH", "TO_EMERGENCY", "TO_RTH_LANDING", "TO_HOVER_ABOVE"}
                  => Destination[e] \in Homecoming)
         /\ e \in {"TO_IDLE", "TO_LAUNCH"} => Destination[e] \in LaunchOnly
BY DestinationDomain
DEF Destination, Accepts, NavState, Homecoming, LaunchOnly, Flying, GeoStates, Level, Transient, Held, Course,
    Cruise, AutoRTH, Homing, Landing, AutoWP, Enroute, Emergency, Launching

(* The facts about one transition that the invariants below rest on.       *)
LEMMA Transition ==
  ASSUME NEW s \in NavState, NEW e, OnEvent(s, e) # "UNDEFINED"
  PROVE  /\ OnEvent(s, e) \in NavState
         /\ OnEvent(s, e) \in Flying => s \in AutoWP
         /\ OnEvent(s, e) \in GeoStates => s \in GeoStates \/ (s = "WAYPOINT_PRE_ACTION" /\ e = "SUCCESS")
         /\ OnEvent(s, e) = "WAYPOINT_NEXT" => e = "SUCCESS"
         /\ OnEvent(s, e) = "LAUNCH_WAIT" => s = "LAUNCH_INITIALIZE" /\ e = "SUCCESS"
         /\ s \in LaunchOnly /\ e \in {"NONE", "SUCCESS", "TO_IDLE", "TO_LAUNCH"}
               => OnEvent(s, e) \in LaunchOnly
         /\ s \in Homecoming /\ e \in {"NONE", "SUCCESS", "TO_RTH", "TO_LAUNCH", "TO_EMERGENCY",
                                        "TO_RTH_LANDING", "TO_HOVER_ABOVE"}
               => OnEvent(s, e) \in Homecoming
<1> DEFINE t == OnEvent(s, e)
<1>1. CASE e = "SUCCESS" /\ s \in DOMAIN Successor /\ t = Successor[s]
  BY <1>1, SuccessStays, StateNames
<1>2. CASE t = "IDLE" /\ e \in {"ERROR", "TO_ALTHOLD"}
  BY <1>2 DEF NavState, Flying, AutoWP, Enroute, GeoStates
<1>3. CASE /\ e = "TO_COURSE_ADJ"
           /\ t \in {"COURSE_HOLD_ADJUSTING", "CRUISE_ADJUSTING"}
  BY <1>3 DEF NavState, Course, Cruise, Flying, AutoWP, Enroute, GeoStates
<1>4. CASE e \in DOMAIN Destination /\ Accepts(s, e) /\ t = Destination[e]
  <2>1. e \notin {"NONE", "SUCCESS"}
    BY <1>4, DestinationDomain
  <2>2. /\ t \in NavState \ {"LAUNCH_WAIT", "WAYPOINT_NEXT"}
        /\ t \in Flying => s \in AutoWP
        /\ t \in GeoStates => s \in GeoStates
        /\ s \in Homecoming =>
              (e \in {"TO_RTH", "TO_LAUNCH", "TO_EMERGENCY", "TO_RTH_LANDING", "TO_HOVER_ABOVE"}
                 => t \in Homecoming)
        /\ e \in {"TO_IDLE", "TO_LAUNCH"} => t \in LaunchOnly
    BY <1>4, SwitchLeads
  <2> QED
    BY <2>1, <2>2
<1> QED
  BY <1>1, <1>2, <1>3, <1>4, OnEventCases

(* TO_IDLE is heard in every state but IDLE itself, and but the one that no
   call is in when it injects its event.                                   *)
LEMMA ToIdle ==
  ASSUME NEW s \in NavState \ {"IDLE", "WAYPOINT_NEXT"}
  PROVE  OnEvent(s, "TO_IDLE") = "IDLE"
<1>1. Accepts(s, "TO_IDLE") /\ Destination["TO_IDLE"] = "IDLE" /\ "TO_IDLE" \in DOMAIN Destination
  BY DEF Accepts, Destination
<1> QED
  BY <1>1 DEF OnEvent

LEMMA ErrorEvent ==
  ASSUME NEW s \in ErrorToIdle
  PROVE  OnEvent(s, "ERROR") = "IDLE"
<1> DEFINE next == Successor[s]
           course == IF s \in Course THEN "COURSE_HOLD_ADJUSTING" ELSE "CRUISE_ADJUSTING"
           goal == Destination["ERROR"]
           known == "ERROR" \in DOMAIN Destination /\ Accepts(s, "ERROR")
                     /\ ~("ERROR" = "TO_ALTHOLD" /\ s \in Emergency)
<1>1. OnEvent(s, "ERROR") =
        CASE "ERROR" = "SUCCESS" /\ s \in DOMAIN Successor -> next
          [] "ERROR" = "ERROR" /\ s \in ErrorToIdle -> "IDLE"
          [] "ERROR" = "TO_ALTHOLD" /\ s \in Emergency /\ Accepts(s, "ERROR") -> "IDLE"
          [] "ERROR" = "TO_COURSE_ADJ" /\ Accepts(s, "ERROR") -> course
          [] known -> goal
          [] OTHER -> "UNDEFINED"
  BY Zenon DEF OnEvent
<1>2. ~known
  BY DestinationDomain
<1> HIDE DEF next, course, goal, known
<1> QED
  BY <1>1, <1>2

LEMMA NoEvent ==
  ASSUME NEW s
  PROVE  OnEvent(s, "NONE") = "UNDEFINED"
BY DestinationDomain, OnEventCases

LEMMA IdleHears ==
  ASSUME NEW e, OnEvent("IDLE", e) # "UNDEFINED"
  PROVE  e \in DOMAIN Destination \ {"TO_IDLE"}
<1>1. "IDLE" \notin DOMAIN Successor /\ "IDLE" \notin ErrorToIdle /\ "IDLE" \notin Emergency
  BY SuccessorDomain DEF ErrorToIdle, Emergency, Transient, Launching
<1>2. ~Accepts("IDLE", "TO_COURSE_ADJ") /\ ~Accepts("IDLE", "TO_IDLE")
  BY DEF Accepts
<1> QED
  BY <1>1, <1>2, OnEventCases
-----------------------------------------------------------------------------
(* The first request whose condition holds decides.                        *)
LEMMA First ==
  ASSUME NEW n \in Nat, NEW r, DOMAIN r = 1 .. n, NEW k \in 1 .. n, r[k][1]
  PROVE  \E i \in DOMAIN r : r[i][1] /\ FirstOf(r) = r[i][2] /\ \A j \in 1 .. i-1 : ~r[j][1]
<1> DEFINE T == {i \in Nat : i \in 1 .. n /\ r[i][1]}
<1>1. PICK i \in T : \A j \in T : <<j, i>> \notin OpToRel(<, Nat)
  <2>1. T \subseteq Nat /\ T # {}
    OBVIOUS
  <2> HIDE DEF T
  <2> QED
    BY <2>1, WFMin, NatLessThanWellFounded
<1>2. \A j \in 1 .. i - 1 : ~r[j][1]
  <2> SUFFICES ASSUME NEW j \in 1 .. i - 1, r[j][1] PROVE FALSE
    OBVIOUS
  <2>1. j \in T /\ i \in Nat /\ j < i
    OBVIOUS
  <2>2. <<j, i>> \in Nat \X Nat /\ <<j, i>>[1] < <<j, i>>[2]
    BY <2>1
  <2>3. <<j, i>> \in OpToRel(<, Nat)
    BY <2>2 DEF OpToRel
  <2> QED
    BY <1>1, <2>1, <2>3, Zenon
<1> QED
  BY <1>1, <1>2, Zenon DEF FirstOf

(* The events that selectNavEventFromBoxModeInput() can return: those the pilot
   asks for, and those of a launch or of a way home.                        *)
Requested == {"TO_WAYPOINT", "TO_POSHOLD", "TO_CRUISE", "TO_COURSE_HOLD", "TO_ALTHOLD", "TO_IDLE"}
SwitchEvent == Requested \cup {"NONE", "TO_LAUNCH", "TO_RTH"}

LEMMA PilotModes ==
  ASSUME NEW in, NEW wp
  PROVE  PilotMode(in, wp) \in Requested
<1> DEFINE flyWaypoints == "WP" \in in.boxes /\ ("WP" \in modes \/ (wp /\ canFlyHome(in)))
           hold == canActivatePosHold(in) /\ canActivateAltHold(in)
           cruising == {"COURSE_HOLD", "ALTHOLD"} \subseteq modes
           holdPosition == "POSHOLD" \in in.boxes /\ ("POSHOLD" \in modes \/ hold)
           cruise == "CRUISE" \in in.boxes /\ (cruising \/ hold)
           cruiseByParts == {"COURSEHOLD", "ALTHOLD"} \subseteq in.boxes /\ (cruising \/ hold)
           holdCourse == /\ "COURSEHOLD" \in in.boxes
                         /\ "COURSE_HOLD" \in modes \/ canActivatePosHold(in)
           holdAltitude == /\ "ALTHOLD" \in in.boxes
                           /\ "ALTHOLD" \in modes \/ canActivateAltHold(in)
           r == << <<flyWaypoints, "TO_WAYPOINT">>, <<holdPosition, "TO_POSHOLD">>,
                   <<cruise, "TO_CRUISE">>, <<cruiseByParts, "TO_CRUISE">>,
                   <<holdCourse, "TO_COURSE_HOLD">>, <<holdAltitude, "TO_ALTHOLD">>,
                   <<TRUE, "TO_IDLE">> >>
<1>1. PilotMode(in, wp) = FirstOf(r)
  BY Zenon DEF PilotMode
<1> HIDE DEF flyWaypoints, holdPosition, cruise, cruiseByParts, holdCourse, holdAltitude
<1>2. DOMAIN r = 1 .. 7 /\ r[7][1]
  OBVIOUS
<1>3. \A i \in DOMAIN r : r[i][2] \in Requested
  BY DEF Requested
<1> HIDE DEF r
<1>4. \E i \in DOMAIN r : FirstOf(r) = r[i][2]
  <2>1. 7 \in Nat /\ 7 \in 1 .. 7
    OBVIOUS
  <2> QED
    BY <1>2, <2>1, First, Zenon
<1> QED
  BY <1>1, <1>3, <1>4, Zenon

LEMMA ArmedSelection ==
  ASSUME NEW launchBox \in BOOLEAN, NEW forced \in BOOLEAN, NEW in,
         canWaypoint \in BOOLEAN, canLaunch \in BOOLEAN
  PROVE  /\ SelectArmed(launchBox, forced, in).event \in SwitchEvent
         /\ SelectArmed(launchBox, forced, in).canWaypoint \in BOOLEAN
         /\ SelectArmed(launchBox, forced, in).canLaunch \in BOOLEAN
         /\ "LAUNCH" \in modes =>
              SelectArmed(launchBox, forced, in).event \in {"NONE", "TO_IDLE", "TO_LAUNCH"}
         /\ forced /\ failsafe # "LANDING" /\ "LAUNCH" \notin modes =>
              SelectArmed(launchBox, forced, in).event \in {"TO_LAUNCH", "TO_RTH"}
<1> DEFINE exec == navState \in AutoRTH
           wp == canWaypoint /\ mission # <<>> /\ ~exec
           asked == ("RTH" \in in.boxes \/ ("WP" \in in.boxes /\ ~wp /\ "MANUAL" \notin in.boxes))
           mode == PilotMode(in, wp)
           launchNow == launchBox /\ canLaunch
           launching == "LAUNCH" \in modes
           launchGoesOn == launching /\ (launchBox \/ ~in.low)
           comeHome == asked /\ (exec \/ canFlyHome(in))
           manual == "MANUAL" \in in.boxes
           wpAfter == wp \/ "WP" \notin in.boxes
           land == failsafe = "LANDING"
           r == << <<land, Selection("TO_IDLE", canWaypoint, canLaunch)>>,
            <<launchNow, Selection("TO_LAUNCH", wp, FALSE)>>,
            <<launchGoesOn, Selection("NONE", wp, canLaunch)>>,
            <<launching, Selection("TO_IDLE", wp, canLaunch)>>,
            <<forced, Selection("TO_RTH", wp, canLaunch)>>,
            <<comeHome, Selection("TO_RTH", wp, canLaunch)>>,
            <<manual, Selection("TO_IDLE", FALSE, canLaunch)>>,
            <<TRUE, Selection(mode, wpAfter, canLaunch)>> >>
<1>1. SelectArmed(launchBox, forced, in) = FirstOf(r)
  BY Zenon DEF SelectArmed
<1>2. mode \in Requested /\ wp \in BOOLEAN /\ wpAfter \in BOOLEAN
  BY PilotModes, Zenon
<1> HIDE DEF wp, asked, mode, launchNow, launchGoesOn, comeHome, manual, wpAfter, land, launching
<1>3. DOMAIN r = 1 .. 8 /\ r[8][1]
  OBVIOUS
<1>4. /\ r[1][2] = Selection("TO_IDLE", canWaypoint, canLaunch)
      /\ r[2][2] = Selection("TO_LAUNCH", wp, FALSE)
      /\ r[3][2] = Selection("NONE", wp, canLaunch)
      /\ r[4][2] = Selection("TO_IDLE", wp, canLaunch)
      /\ r[5][2] = Selection("TO_RTH", wp, canLaunch)
      /\ r[6][2] = Selection("TO_RTH", wp, canLaunch)
      /\ r[7][2] = Selection("TO_IDLE", FALSE, canLaunch)
      /\ r[8][2] = Selection(mode, wpAfter, canLaunch)
  OBVIOUS
<1>5. (r[1][1] <=> land) /\ (r[4][1] <=> launching) /\ (r[5][1] <=> forced) /\ (r[3][1] => launching)
  BY DEF launchGoesOn
<1> HIDE DEF r
<1>6. PICK i \in 1 .. 8 : /\ r[i][1] /\ FirstOf(r) = r[i][2]
                         /\ \A j \in 1 .. i - 1 : ~r[j][1]
  <2> DEFINE n == 8
  <2>1. n \in Nat /\ n \in 1 .. n /\ DOMAIN r = 1 .. n /\ r[n][1]
    BY <1>3
  <2> HIDE DEF n
  <2>2. \E i \in DOMAIN r : r[i][1] /\ FirstOf(r) = r[i][2] /\ \A j \in 1 .. i - 1 : ~r[j][1]
    BY <2>1, First, Zenon
  <2> QED
    BY <1>3, <2>2, Zenon
<1>7. launching => i <= 4
  <2>1. i > 4 => 4 \in 1 .. i - 1
    OBVIOUS
  <2> QED
    BY <1>5, <1>6, <2>1
<1>8. forced /\ ~land /\ ~launching => i \in {2, 5}
  <2>1. i > 5 => 5 \in 1 .. i - 1
    OBVIOUS
  <2>2. forced => i <= 5
    BY <1>5, <1>6, <2>1
  <2>3. ~land /\ ~launching => i # 1 /\ i # 3 /\ i # 4
    BY <1>5, <1>6
  <2> QED
    BY <2>2, <2>3
<1>9. i \in {1, 2, 3, 4, 5, 6, 7, 8}
  BY <1>6
<1>10. /\ r[i][2].event \in SwitchEvent
       /\ r[i][2].canWaypoint \in BOOLEAN
       /\ r[i][2].canLaunch \in BOOLEAN
  <2>1. \A e, w, l : /\ Selection(e, w, l).event = e /\ Selection(e, w, l).canWaypoint = w
                     /\ Selection(e, w, l).canLaunch = l
    BY DEF Selection
  <2>2. \E e \in SwitchEvent, w \in BOOLEAN, l \in BOOLEAN : r[i][2] = Selection(e, w, l)
    <3>1. {"TO_IDLE", "TO_LAUNCH", "NONE", "TO_RTH", mode} \subseteq SwitchEvent
      BY <1>2 DEF SwitchEvent, Requested
    <3> QED
      BY <1>2, <1>4, <1>9, <3>1
  <2> QED
    <3>1. PICK e \in SwitchEvent, w \in BOOLEAN, l \in BOOLEAN : r[i][2] = Selection(e, w, l)
      BY <2>2
    <3> QED
      BY <2>1, <3>1
<1>11. launching => r[i][2].event \in {"NONE", "TO_IDLE", "TO_LAUNCH"}
  BY <1>4, <1>7, <1>9 DEF Selection
<1>12. forced /\ ~land /\ ~launching => r[i][2].event \in {"TO_LAUNCH", "TO_RTH"}
  BY <1>4, <1>8 DEF Selection
<1> QED
  BY <1>1, <1>6, <1>10, <1>11, <1>12, Zenon DEF launching, land

(* The event for a frame, or for the activation of a forced RTH.            *)
LEMMA Selects ==
  ASSUME NEW arm \in BOOLEAN, NEW launchBox \in BOOLEAN, NEW forced \in BOOLEAN, NEW in,
         canWaypoint \in BOOLEAN, canLaunch \in BOOLEAN
  PROVE  /\ Select(arm, launchBox, forced, in).event \in SwitchEvent
         /\ Select(arm, launchBox, forced, in).canWaypoint \in BOOLEAN
         /\ Select(arm, launchBox, forced, in).canLaunch \in BOOLEAN
         /\ "LAUNCH" \in modes =>
              Select(arm, launchBox, forced, in).event \in {"NONE", "TO_IDLE", "TO_LAUNCH"}
         /\ arm /\ forced /\ failsafe # "LANDING" /\ "LAUNCH" \notin modes =>
              Select(arm, launchBox, forced, in).event \in {"TO_LAUNCH", "TO_RTH"}
<1>1. CASE arm
  <2>1. Select(arm, launchBox, forced, in) = SelectArmed(launchBox, forced, in)
    BY <1>1 DEF Select
  <2> DEFINE s == SelectArmed(launchBox, forced, in)
  <2>2. /\ s.event \in SwitchEvent /\ s.canWaypoint \in BOOLEAN /\ s.canLaunch \in BOOLEAN
        /\ "LAUNCH" \in modes => s.event \in {"NONE", "TO_IDLE", "TO_LAUNCH"}
        /\ forced /\ failsafe # "LANDING" /\ "LAUNCH" \notin modes => s.event \in {"TO_LAUNCH", "TO_RTH"}
    BY ArmedSelection
  <2> QED
    BY <2>1, <2>2
<1>2. CASE ~arm
  <2>1. Select(arm, launchBox, forced, in) = Selection("TO_IDLE", FALSE, launchBox)
    BY <1>2 DEF Select
  <2> QED
    BY <1>2, <2>1 DEF Selection, SwitchEvent, Requested
<1> QED
  BY <1>1, <1>2
-----------------------------------------------------------------------------
(* The type invariant made inductive: what a call carries, and that the
   waypoint of a mission under way is one of its list.                     *)
Input == [boxes : SUBSET Box, missing : SUBSET Estimate, low : BOOLEAN,
          sticks : {"CENTRED", "EARLY", "MOVED"}, timeUp : BOOLEAN]
Call  == [event : SwitchEvent, caller : Callers, rth : BOOLEAN, in : Input]

OnMission == navState \in Flying => activeWaypoint \in DOMAIN mission

MachineTyped == /\ craft \in Crafts /\ navState \in NavState
          /\ modes \subseteq {"ALTHOLD", "POSHOLD", "COURSE_HOLD", "RTH", "WP", "LAUNCH"}
          /\ pc \in {"rest", "timeout", "event", "inject", "done", "pid", "failsafe"}
          /\ elapsed \in 0 .. HoverDelay
MissionKept == /\ activeWaypoint \in DOMAIN mission \cup {1}
          /\ jumps \in [DOMAIN mission -> Int]
          /\ OnMission
WorldTyped == /\ canWaypoint \in BOOLEAN /\ canLaunch \in BOOLEAN /\ launchEnabled \in BOOLEAN
          /\ adjusting \in BOOLEAN /\ armed \in BOOLEAN /\ forcedRTH \in BOOLEAN
          /\ failsafe \in {"OFF", "NONE", "RTH", "LANDING", "LANDED"}
          /\ position \in {"TRUSTED", "USABLE", "LOST", "TIMED_OUT"}
CallTyped == call \in Call

LEMMA EventNames ==
  SwitchEvent \subseteq Event
BY DestinationDomain DEF SwitchEvent, Requested, Event

NavTyped == MachineTyped /\ MissionKept /\ WorldTyped /\ CallTyped /\ LaunchTypeOK

LEMMA TypedImplies ==
  NavTyped => NavTypeOK
<1>1. call \in Call => call.event \in Event /\ call.caller \in Callers
  BY EventNames DEF Call
<1> QED
  BY <1>1 DEF NavTyped, NavTypeOK, MachineTyped, MissionKept, WorldTyped, CallTyped, LaunchTypeOK

LEMMA MissionTyped ==
  ASSUME craft \in Crafts
  PROVE  /\ craft \in Craft /\ mission \in Seq(Waypoint)
         /\ JumpsAreValid(mission) /\ JumpsHaveTargets(mission)
         /\ Len(mission) \in Nat /\ DOMAIN mission = 1 .. Len(mission)
         /\ \A i \in DOMAIN mission : mission[i] \in Waypoint
BY NavAssumption DEF Craft, mission

LEMMA InputsTyped ==
  ASSUME NEW in \in Inputs
  PROVE  in \in Input
BY NavAssumption DEF Inputs, Input, Box, Estimate

(* A call that begins.                                                     *)
LEMMA BeginTyped ==
  ASSUME NEW e \in SwitchEvent, NEW caller \in Callers, NEW in \in Input, Begin(e, caller, in)
  PROVE  /\ call' \in Call /\ pc' \in {"timeout", "event"}
         /\ call'.event = e /\ call'.caller = caller
BY DEF Begin, Call, Input

LEMMA NoCallTyped ==
  NoCall \in Call /\ NoInput \in Input /\ NoCall.caller = "none"
BY DEF NoCall, NoInput, Call, Input, Callers, SwitchEvent

LEMMA InitTyped ==
  NavInit => NavTyped
<1> SUFFICES ASSUME NavInit PROVE NavTyped
  OBVIOUS
<1>1. MachineTyped /\ WorldTyped /\ LaunchTypeOK
  <2>1. MachineTyped
    BY NavAssumption DEF NavInit, MachineTyped, NavState
  <2>2. WorldTyped
    BY DEF NavInit, WorldTyped
  <2>3. LaunchTypeOK
    BY DEF NavInit, LaunchInit, LaunchTypeOK, LaunchState, Motor
  <2> QED
    BY <2>1, <2>2, <2>3
<1>2. MissionKept
  <2>1. navState \notin Flying
    BY DEF NavInit, Flying, AutoWP, Enroute
  <2>2. activeWaypoint = 1 /\ jumps = [i \in DOMAIN mission |-> 0]
    BY DEF NavInit
  <2> QED
    BY <2>1, <2>2 DEF MissionKept, OnMission
<1>3. CallTyped
  BY NoCallTyped DEF NavInit, CallTyped
<1> QED
  BY <1>1, <1>2, <1>3 DEF NavTyped
-----------------------------------------------------------------------------
(* What the entry functions of the stateless entries may return.           *)
HomeEvent == {"NONE", "SUCCESS", "TO_EMERGENCY", "TO_RTH_LANDING", "TO_HOVER_ABOVE"}

LEMMA EntersIdle ==
  ASSUME NEW in, NEW e \in Enters("IDLE", in)
  PROVE  e = "NONE"
BY DEF Enters

LEMMA EntersLaunch ==
  ASSUME NEW in, NEW e \in Enters("LAUNCH_IN_PROGRESS", in)
  PROVE  e \in {"NONE", "SUCCESS"}
BY DEF Enters

LEMMA EntersHome ==
  ASSUME NEW in, NEW s \in Homecoming, NEW e \in Enters(s, in), forcedRTH
  PROVE  e \in HomeEvent
<1> USE DEF HomeEvent
<1>1. ASSUME NEW E, E \subseteq HomeEvent
      PROVE  LostOr(E) \subseteq HomeEvent /\ Homeward(in, E) \subseteq HomeEvent
  BY <1>1 DEF LostOr, Homeward
<1>2. FlyAway \subseteq HomeEvent /\ Landed \subseteq HomeEvent
  BY DEF FlyAway, Landed
<1>3. CASE s = "RTH_INITIALIZE"
  BY <1>3 DEF Enters
<1>4. CASE s = "RTH_CLIMB_TO_SAFE_ALT"
  <2>1. e \in Homeward(in, IF Rover THEN {"SUCCESS"} ELSE LostOr({"SUCCESS", "NONE"} \cup FlyAway))
    BY <1>4 DEF Enters
  <2> QED
    BY <1>1, <1>2, <2>1
<1>5. CASE s = "RTH_HEAD_HOME"
  <2>1. e \in Homeward(in, IF Usable THEN {"SUCCESS", "NONE", "TO_EMERGENCY"} ELSE LostOr({"NONE"}))
    BY <1>5 DEF Enters
  <2> QED
    BY <1>1, <2>1
<1>6. CASE s = "RTH_HOVER_PRIOR_TO_LANDING"
  <2>1. e \in Homeward(in, IF Rover THEN {"SUCCESS"}
                           ELSE LostOr({"SUCCESS", "TO_HOVER_ABOVE"} \cup
                                       (IF Plane THEN {} ELSE {"NONE", "TO_EMERGENCY"})))
    BY <1>6 DEF Enters
  <2> QED
    BY <1>1, <2>1
<1>7. CASE s = "RTH_HOVER_ABOVE_HOME"
  <2>1. e \in {"NONE"} \cup LostOr({"NONE"})
    BY <1>7 DEF Enters
  <2> QED
    BY <1>1, <2>1
<1>8. CASE s = "RTH_LANDING"
  BY <1>2, <1>8 DEF Enters
<1>9. CASE s \in {"RTH_FINISHING", "RTH_FINISHED"} \cup Emergency
  BY <1>9 DEF Enters, Emergency
<1> QED
  BY <1>3, <1>4, <1>5, <1>6, <1>7, <1>8, <1>9 DEF Homecoming, AutoRTH, Homing, Landing

(* One entry function: the event it returns and what else it changes.      *)
EntryReturns(e) ==
  /\ Entered(e)
  /\ navState = "IDLE" => e = "NONE"
  /\ navState \in LaunchOnly => e \in {"NONE", "SUCCESS", "TO_IDLE"}
  /\ navState \in Homecoming /\ forcedRTH => e \in HomeEvent
  /\ navState = "WAYPOINT_NEXT" => e \in {"SUCCESS", "TO_FINISHED"}
  /\ armed' = armed \/ armed' = FALSE
  /\ \/ navState # "LAUNCH_INITIALIZE" /\ launch' = launch
     \/ navState = "LAUNCH_INITIALIZE" /\ launch' = "WAIT_THROTTLE"
     \/ navState = "LAUNCH_WAIT" /\ e = "SUCCESS" /\ launch' = "MOTOR_DELAY"
     \/ navState = "LAUNCH_WAIT" /\ e = "TO_IDLE" /\ launch' = "IDLE"

LEMMA EntryEvent ==
  ASSUME NavTyped, Entry
  PROVE  \E e : EntryReturns(e)
<1> USE DEF LaunchOnly, Launching, Homecoming, AutoRTH, Homing, Landing, Emergency
<1>1. CASE Enter
  <2>1. PICK e \in Enters(navState, call.in) : Entered(e)
    BY <1>1 DEF Enter
  <2>2. navState \notin Stateful /\ armed' = armed /\ launch' = launch
    BY <1>1 DEF Enter
  <2>3. navState = "IDLE" => e = "NONE"
    BY <2>1, EntersIdle
  <2>4. navState \in LaunchOnly => e \in {"NONE", "SUCCESS", "TO_IDLE"}
    BY <2>1, <2>2, <2>3, EntersLaunch DEF Stateful
  <2>5. navState \in Homecoming /\ forcedRTH => e \in HomeEvent
    <3> SUFFICES ASSUME navState \in Homecoming, forcedRTH PROVE e \in HomeEvent
      OBVIOUS
    <3> QED
      BY <2>1, EntersHome, Zenon
  <2>6. navState \notin {"LAUNCH_INITIALIZE", "WAYPOINT_NEXT"}
    BY <2>2 DEF Stateful
  <2>7. EntryReturns(e)
    BY <2>1, <2>2, <2>3, <2>4, <2>5, <2>6 DEF EntryReturns
  <2> QED
    BY <2>7
<1>2. CASE EnterFinishing
  <2>1. Entered("SUCCESS") /\ navState = "RTH_FINISHING" /\ launch' = launch /\ armed' \in {armed, FALSE}
    BY <1>2 DEF EnterFinishing, FinishRTH
  <2>2. EntryReturns("SUCCESS")
    BY <2>1 DEF EntryReturns, HomeEvent
  <2> QED
    BY <2>2
<1>3. CASE EnterWaypointLand
  <2>1. PICK e \in {"SUCCESS", "NONE"} : Entered(e)
    BY <1>3 DEF EnterWaypointLand
  <2>2. navState = "WAYPOINT_RTH_LAND" /\ launch' = launch /\ armed' \in {armed, FALSE}
    BY <1>3 DEF EnterWaypointLand, FinishRTH
  <2>3. EntryReturns(e)
    BY <2>1, <2>2 DEF EntryReturns
  <2> QED
    BY <2>3
<1>4. CASE EnterMission \/ EnterPreAction \/ EnterMissionDone
  <2>1. PICK e : Entered(e)
    BY <1>4, Zenon DEF EnterMission, EnterPreAction, EnterMissionDone, NextWaypoint, TakeJump
  <2>2. /\ navState \in {"WAYPOINT_INITIALIZE", "WAYPOINT_PRE_ACTION", "WAYPOINT_FINISHED"}
        /\ launch' = launch /\ armed' = armed
    BY <1>4 DEF EnterMission, EnterPreAction, EnterMissionDone
  <2>3. EntryReturns(e)
    BY <2>1, <2>2 DEF EntryReturns
  <2> QED
    BY <2>3
<1>5. CASE EnterNext
  <2>1. PICK e \in {"SUCCESS", "TO_FINISHED"} : Entered(e)
    BY <1>5 DEF EnterNext, NextWaypoint
  <2>2. navState = "WAYPOINT_NEXT" /\ launch' = launch /\ armed' = armed
    BY <1>5 DEF EnterNext
  <2>3. EntryReturns(e)
    BY <2>1, <2>2 DEF EntryReturns
  <2> QED
    BY <2>3
<1>6. CASE EnterLaunch
  <2>1. Entered("SUCCESS") /\ navState = "LAUNCH_INITIALIZE" /\ launch' = "WAIT_THROTTLE" /\ armed' = armed
    BY <1>6 DEF EnterLaunch, resetFixedWingLaunchController
  <2>2. EntryReturns("SUCCESS")
    BY <2>1 DEF EntryReturns
  <2> QED
    BY <2>2
<1>7. CASE EnterLaunchWait
  <2>1. navState = "LAUNCH_WAIT" /\ armed' = armed
    BY <1>7 DEF EnterLaunchWait
  <2>2. PICK e : /\ Entered(e)
                 /\ \/ e = "SUCCESS" /\ launch' = "MOTOR_DELAY"
                    \/ e = "TO_IDLE" /\ launch' = "IDLE"
                    \/ e = "NONE" /\ launch' = launch
    BY <1>7, Zenon DEF EnterLaunchWait, enableFixedWingLaunchController, abortFixedWingLaunch
  <2>3. EntryReturns(e)
    BY <2>1, <2>2 DEF EntryReturns
  <2> QED
    BY <2>3
<1> QED
  BY <1>1, <1>2, <1>3, <1>4, <1>5, <1>6, <1>7 DEF Entry

(* The two ways in which an entry function ends.                           *)
LEMMA EnteredMoves ==
  ASSUME NavTyped, NEW e, Entered(e)
  PROVE  /\ pc \in {"timeout", "inject"} /\ pc' \in {"timeout", "event", "inject", "done"}
         /\ navState' \in NavState /\ elapsed' \in 0 .. HoverDelay
         /\ \/ /\ OnEvent(navState, e) = "UNDEFINED" /\ navState' = navState
               /\ pc' = IF pc = "timeout" THEN "event" ELSE "done"
            \/ /\ OnEvent(navState, e) # "UNDEFINED" /\ navState' = OnEvent(navState, e)
               /\ pc' = pc
         /\ UNCHANGED <<craft, modes, allowed, adjusting, failsafe, forcedRTH, position, call, motor>>
<1>1. navState \in NavState /\ elapsed \in 0 .. HoverDelay /\ HoverDelay \in Nat
  BY NavAssumption DEF MachineTyped, NavTyped
<1>2. OnEvent(navState, e) # "UNDEFINED" => OnEvent(navState, e) \in NavState
  BY <1>1, Transition
<1>3. \/ /\ OnEvent(navState, e) = "UNDEFINED" /\ navState' = navState /\ elapsed' = 0
         /\ pc' = IF pc = "timeout" THEN "event" ELSE "done"
      \/ /\ OnEvent(navState, e) # "UNDEFINED" /\ navState' = OnEvent(navState, e)
         /\ pc' = pc /\ elapsed' = elapsed
  BY Zenon DEF Entered
<1>4. /\ pc \in {"timeout", "inject"}
      /\ UNCHANGED <<craft, modes, allowed, adjusting, failsafe, forcedRTH, position, call, motor>>
  BY Zenon DEF Entered
<1> QED
  BY <1>1, <1>2, <1>3, <1>4

LEMMA NextWaypointTyped ==
  ASSUME NavTyped, NEW e, NextWaypoint(e), activeWaypoint \in DOMAIN mission, e # "TO_FINISHED"
  PROVE  /\ activeWaypoint' \in DOMAIN mission
         /\ \/ Entered(e) \/ Entered("TO_FINISHED")
<1>1. /\ Len(mission) \in Nat /\ DOMAIN mission = 1 .. Len(mission)
  BY MissionTyped DEF MachineTyped, NavTyped
<1> QED
  BY <1>1 DEF NextWaypoint

(* What an entry function does to the mission.                              *)
LEMMA EntryOnMission ==
  ASSUME NavTyped, Entry
  PROVE  MissionKept'
<1>1. craft' = craft
  BY EntryEvent, EnteredMoves, Zenon DEF EntryReturns
<1>2. /\ craft \in Craft /\ mission \in Seq(Waypoint)
      /\ JumpsAreValid(mission) /\ JumpsHaveTargets(mission)
      /\ Len(mission) \in Nat /\ DOMAIN mission = 1 .. Len(mission)
      /\ \A i \in DOMAIN mission : mission[i] \in Waypoint
  BY MissionTyped DEF MachineTyped, NavTyped
<1>3. mission' = mission
  BY <1>1 DEF mission
<1>4. /\ activeWaypoint \in DOMAIN mission \cup {1}
      /\ jumps \in [DOMAIN mission -> Int]
      /\ navState \in Flying => activeWaypoint \in DOMAIN mission
  BY DEF MissionKept, OnMission, NavTyped
<1>5. navState \in NavState
  BY DEF MachineTyped, NavTyped
<1>6. ASSUME navState' \in Flying PROVE navState \in AutoWP
  <2>1. PICK e : Entered(e)
    BY EntryEvent DEF EntryReturns
  <2> QED
    <3>1. \/ navState' = navState
          \/ OnEvent(navState, e) # "UNDEFINED" /\ navState' = OnEvent(navState, e)
      BY <2>1, EnteredMoves
    <3> QED
      BY <1>5, <1>6, <3>1, Transition DEF Flying
<1>7. CASE UNCHANGED path /\ navState # "WAYPOINT_INITIALIZE"
  <2>1. activeWaypoint' = activeWaypoint /\ jumps' = jumps
    BY <1>7 DEF path
  <2> QED
    BY <1>3, <1>4, <1>6, <1>7, <2>1 DEF MissionKept, OnMission, Flying
<1>8. CASE Enter \/ EnterFinishing \/ EnterWaypointLand \/ EnterLaunch \/ EnterLaunchWait
  <2>1. UNCHANGED path
    BY <1>8, Zenon DEF Enter, EnterFinishing, EnterWaypointLand, EnterLaunch, EnterLaunchWait
  <2>2. navState # "WAYPOINT_INITIALIZE"
    BY <1>8 DEF Enter, EnterFinishing, EnterWaypointLand, EnterLaunch, EnterLaunchWait, Stateful
  <2> QED
    BY <1>7, <2>1, <2>2
<1>9. CASE EnterMission
  <2>1. CASE mission = <<>>
    <3>1. Entered("ERROR") /\ UNCHANGED path /\ navState = "WAYPOINT_INITIALIZE"
      BY <1>9, <2>1 DEF EnterMission
    <3>2. OnEvent(navState, "ERROR") = "IDLE"
      BY <3>1, ErrorEvent DEF ErrorToIdle
    <3>3. navState' = "IDLE" /\ activeWaypoint' = activeWaypoint /\ jumps' = jumps
      BY <3>1, <3>2, EnteredMoves DEF path
    <3> QED
      BY <1>3, <1>4, <3>3 DEF MissionKept, OnMission, Flying, AutoWP, Enroute
  <2>2. CASE mission # <<>>
    <3>1. /\ activeWaypoint' = 1
          /\ jumps' = [i \in DOMAIN mission |->
                            IF mission[i].action = "JUMP" THEN mission[i].p2 ELSE jumps[i]]
      BY <1>9, <2>2 DEF EnterMission
    <3>2. \A i \in DOMAIN mission : mission[i].p2 \in Int
      BY <1>2 DEF Waypoint
    <3>3. 1 \in DOMAIN mission
      BY <1>2, <2>2
    <3>4. jumps' \in [DOMAIN mission -> Int]
      BY <1>4, <3>1, <3>2
    <3> QED
      BY <1>3, <3>1, <3>3, <3>4 DEF MissionKept, OnMission
  <2> QED
    BY <2>1, <2>2
<1>10. CASE EnterNext
  <2>1. activeWaypoint \in DOMAIN mission
    BY <1>4, <1>10 DEF EnterNext, Flying, AutoWP
  <2>2. activeWaypoint' \in DOMAIN mission /\ jumps' = jumps
    BY <1>10, <2>1, NextWaypointTyped DEF EnterNext
  <2> QED
    BY <1>3, <1>4, <2>2 DEF MissionKept, OnMission
<1>11. CASE EnterPreAction
  <2>1. activeWaypoint \in DOMAIN mission
    BY <1>4, <1>11 DEF EnterPreAction, Flying, AutoWP
  <2>2. mission[activeWaypoint].p1 \in Int /\ mission[activeWaypoint].p2 \in Int
    BY <1>2, <2>1 DEF Waypoint
  <2>3. CASE UNCHANGED path
    BY <1>7, <1>11, <2>3 DEF EnterPreAction
  <2>4. CASE /\ NextWaypoint("NONE")
             /\ \/ jumps' = [jumps EXCEPT ![activeWaypoint] = mission[activeWaypoint].p2]
                \/ UNCHANGED jumps
    <3>1. activeWaypoint' \in DOMAIN mission
      BY <2>1, <2>4, NextWaypointTyped
    <3>2. jumps' \in [DOMAIN mission -> Int]
      BY <1>4, <2>1, <2>2, <2>4
    <3> QED
      BY <1>3, <3>1, <3>2 DEF MissionKept, OnMission
  <2>5. CASE mission[activeWaypoint].action = "JUMP" /\ TakeJump(activeWaypoint)
    <3>1. mission[activeWaypoint].p1 \in DOMAIN mission
      <4>1. mission[activeWaypoint].p1 \in Int
        BY <1>2, <2>1 DEF Waypoint
      <4>2. 1 <= mission[activeWaypoint].p1 /\ mission[activeWaypoint].p1 <= Len(mission)
        BY <1>2, <2>1, <2>5 DEF JumpsAreValid, JumpsHaveTargets
      <4> QED
        BY <1>2, <4>1, <4>2
    <3>2. activeWaypoint' \in DOMAIN mission /\ jumps' \in [DOMAIN mission -> Int]
      BY <1>4, <2>1, <2>5, <3>1 DEF TakeJump, Jumped
    <3> QED
      BY <1>3, <3>2 DEF MissionKept, OnMission
  <2> QED
    BY <1>11, <2>3, <2>4, <2>5, Zenon DEF EnterPreAction
<1>12. CASE EnterMissionDone
  <2>1. activeWaypoint' = activeWaypoint
    BY <1>12 DEF EnterMissionDone
  <2>2. jumps' = [i \in DOMAIN mission |-> IF mission[i].action = "JUMP" THEN 0 ELSE jumps[i]]
    BY <1>12 DEF EnterMissionDone
  <2>3. navState = "WAYPOINT_FINISHED"
    BY <1>12 DEF EnterMissionDone
  <2> QED
    <3>1. jumps' \in [DOMAIN mission -> Int]
      BY <1>4, <2>2
    <3>2. activeWaypoint \in DOMAIN mission
      BY <1>4, <2>3 DEF Flying, AutoWP, Enroute
    <3> QED
      BY <1>3, <2>1, <3>1, <3>2 DEF MissionKept, OnMission
<1> QED
  BY <1>8, <1>9, <1>10, <1>11, <1>12, Zenon DEF Entry

LEMMA EntryTyped ==
  ASSUME NavTyped, Entry
  PROVE  NavTyped'
<1>1. PICK e : EntryReturns(e)
  BY EntryEvent
<1>2. Entered(e) /\ armed' \in {armed, FALSE}
      /\ launch' \in {launch, "WAIT_THROTTLE", "MOTOR_DELAY", "IDLE"}
  BY <1>1 DEF EntryReturns
<1>3. /\ pc' \in {"timeout", "event", "inject", "done"}
      /\ navState' \in NavState /\ elapsed' \in 0 .. HoverDelay
      /\ UNCHANGED <<craft, modes, allowed, adjusting, failsafe, forcedRTH, position, call, motor>>
  BY <1>2, EnteredMoves
<1>4. MachineTyped /\ WorldTyped /\ CallTyped /\ LaunchTypeOK
  BY DEF NavTyped
<1>5. MachineTyped'
  BY <1>3, <1>4 DEF MachineTyped
<1>6. WorldTyped'
  BY <1>2, <1>3, <1>4 DEF WorldTyped, allowed
<1>7. CallTyped'
  BY <1>3, <1>4 DEF CallTyped
<1>8. LaunchTypeOK'
  BY <1>2, <1>3, <1>4 DEF LaunchTypeOK, LaunchState, BeforeDetection, AfterDetection
<1> QED
  BY <1>5, <1>6, <1>7, <1>8, EntryOnMission DEF NavTyped

(* The events of the switches lead to the first state of a mode.           *)
LEMMA InjectedEvent ==
  ASSUME NEW s \in NavState, NEW e \in SwitchEvent, OnEvent(s, e) # "UNDEFINED"
  PROVE  OnEvent(s, e) \in NavState \ (Flying \cup {"LAUNCH_WAIT"})
<1>1. CASE OnEvent(s, e) = "IDLE"
  BY <1>1 DEF NavState, Flying, AutoWP, Enroute
<1>2. CASE e \in DOMAIN Destination /\ OnEvent(s, e) = Destination[e]
  <2>1. e \in {"TO_WAYPOINT", "TO_POSHOLD", "TO_CRUISE", "TO_COURSE_HOLD", "TO_ALTHOLD", "TO_IDLE",
               "TO_LAUNCH", "TO_RTH"}
    BY <1>2, DestinationDomain DEF SwitchEvent, Requested
  <2>2. Destination[e] \in {"IDLE", "ALTHOLD_INITIALIZE", "POSHOLD_3D_INITIALIZE", "COURSE_HOLD_INITIALIZE",
                            "CRUISE_INITIALIZE", "RTH_INITIALIZE", "WAYPOINT_INITIALIZE", "LAUNCH_INITIALIZE"}
    BY <2>1 DEF Destination
  <2> QED
    BY <1>2, <2>2 DEF NavState, Transient, AutoRTH, AutoWP, Enroute, Flying, Launching
<1>3. e \notin {"SUCCESS", "ERROR", "TO_COURSE_ADJ"}
  BY DEF SwitchEvent, Requested
<1> QED
  BY <1>1, <1>2, <1>3, OnEventCases

LEMMA InjectTyped ==
  ASSUME NavTyped, Inject
  PROVE  NavTyped'
<1>1. MachineTyped /\ MissionKept /\ WorldTyped /\ CallTyped /\ LaunchTypeOK
  BY DEF NavTyped
<1>2. UNCHANGED <<craft, modes, path, allowed, adjusting, elapsed, world, launchVars>>
  BY Zenon DEF Inject
<1>3. \/ pc' = "done" /\ navState' = navState
      \/ /\ pc' = "inject" /\ OnEvent(navState, call.event) # "UNDEFINED"
         /\ navState' = OnEvent(navState, call.event)
  BY Zenon DEF Inject
<1>4. navState \in NavState /\ call.event \in SwitchEvent
  BY <1>1 DEF MachineTyped, CallTyped, Call
<1>5. navState' \in NavState /\ (navState' \in Flying => navState' = navState)
  BY <1>3, <1>4, InjectedEvent
<1>6. MachineTyped'
  BY <1>1, <1>2, <1>3, <1>5 DEF MachineTyped
<1>7. MissionKept'
  BY <1>1, <1>2, <1>5 DEF MissionKept, OnMission, path, mission
<1>8. WorldTyped' /\ LaunchTypeOK'
  BY <1>1, <1>2 DEF WorldTyped, allowed, world, launchVars, LaunchTypeOK
<1>9. CallTyped'
  <2>1. call' = [call EXCEPT !.event = "NONE"]
    BY Zenon DEF Inject
  <2> QED
    BY <1>1, <2>1 DEF CallTyped, Call, SwitchEvent
<1> QED
  BY <1>6, <1>7, <1>8, <1>9 DEF NavTyped
-----------------------------------------------------------------------------
(* One round of the launch controller.                                      *)
LEMMA HandlerTyped ==
  ASSUME NEW s \in LaunchState, NEW in, NEW result \in Handler(s, in)
  PROVE  result[2] \in Motor \cup {"KEEP"}
BY DEF Handler, Idled, Motor

(* Before the launch is detected every state that waits has commanded the
   motor, and no state leads out of the waiting ones.                      *)
LEMMA HandlerWaits ==
  ASSUME NEW s \in BeforeDetection \cup {"DETECTED"}, NEW in, NEW result \in Handler(s, in)
  PROVE  /\ result[1] = "NONE" => result[2] \in {"STOP", "IDLE"}
         /\ result[1] # "NONE" => LaunchNext(s, result[1]) \in BeforeDetection \cup {"DETECTED"}
<1> USE DEF Idled
<1>1. CASE s = "WAIT_THROTTLE"
  BY <1>1 DEF Handler, LaunchNext, BeforeDetection
<1>2. CASE s \in {"IDLE_MOTOR_DELAY", "MOTOR_IDLE", "WAIT_DETECTION"} /\ in.throttleLow
  BY <1>2 DEF Handler, LaunchNext, BeforeDetection
<1>3. CASE s = "IDLE_MOTOR_DELAY" /\ ~in.throttleLow
  BY <1>3 DEF Handler, LaunchNext, BeforeDetection
<1>4. CASE s = "MOTOR_IDLE" /\ ~in.throttleLow
  BY <1>4 DEF Handler, LaunchNext, BeforeDetection
<1>5. CASE s = "WAIT_DETECTION" /\ ~in.throttleLow
  BY <1>5 DEF Handler, LaunchNext, BeforeDetection
<1>6. CASE s = "DETECTED"
  BY <1>6 DEF Handler
<1> QED
  BY <1>1, <1>2, <1>3, <1>4, <1>5, <1>6 DEF BeforeDetection

LEMMA LaunchNextTyped ==
  ASSUME NEW s, NEW e
  PROVE  LaunchNext(s, e) \in LaunchState
BY DEF LaunchNext, LaunchState, BeforeDetection, AfterDetection

LEMMA RoundTyped ==
  ASSUME LaunchTypeOK, NEW in, NEW again \in BOOLEAN, LaunchRound(in, again)
  PROVE  /\ LaunchTypeOK'
         /\ launch \in BeforeDetection \cup {"DETECTED"} =>
              /\ launch' \in BeforeDetection \cup {"DETECTED"}
              /\ ~again => motor' \in {"STOP", "IDLE"}
<1>1. PICK result \in Handler(launch, in) :
        /\ motor' = IF result[2] = "KEEP" THEN motor ELSE result[2]
        /\ again = (result[1] # "NONE")
        /\ launch' = IF again THEN LaunchNext(launch, result[1]) ELSE launch
  BY Zenon DEF LaunchRound
<1>2. result[2] \in Motor \cup {"KEEP"} /\ LaunchNext(launch, result[1]) \in LaunchState
  BY HandlerTyped, LaunchNextTyped DEF LaunchTypeOK
<1>3. LaunchTypeOK'
  BY <1>1, <1>2 DEF LaunchTypeOK
<1>4. ASSUME launch \in BeforeDetection \cup {"DETECTED"}
      PROVE  /\ launch' \in BeforeDetection \cup {"DETECTED"}
             /\ ~again => motor' \in {"STOP", "IDLE"}
  <2>1. /\ result[1] = "NONE" => result[2] \in {"STOP", "IDLE"}
        /\ result[1] # "NONE" => LaunchNext(launch, result[1]) \in BeforeDetection \cup {"DETECTED"}
    BY <1>4, HandlerWaits
  <2> QED
    BY <1>1, <1>4, <2>1
<1> QED
  BY <1>3, <1>4
-----------------------------------------------------------------------------
(* The state and the mission do not change outside of the two loops.       *)
LEMMA MissionKeeps ==
  ASSUME NavTyped, UNCHANGED <<craft, navState, path>>
  PROVE  MissionKept'
BY DEF NavTyped, MissionKept, OnMission, path, mission

LEMMA ReturnTyped ==
  ASSUME NavTyped, ReturnToPidLoop \/ ReturnToFailsafe
  PROVE  NavTyped'
<1>1. UNCHANGED <<craft, navState, path, allowed, elapsed, world, launch>>
  BY Zenon DEF ReturnToPidLoop, ReturnToFailsafe, launchVars
<1>2. MissionKept'
  BY <1>1, MissionKeeps
<1>3. pc' \in {"pid", "failsafe", "rest"}
  BY DEF ReturnToPidLoop, ReturnToFailsafe
<1>4. modes' = modes \/ modes' = MappedModes(navState)
  BY Zenon DEF ReturnToPidLoop, ReturnToFailsafe
<1>5. MappedModes(navState) \subseteq {"ALTHOLD", "POSHOLD", "COURSE_HOLD", "RTH", "WP", "LAUNCH"}
  BY DEF MappedModes
<1>6. MachineTyped'
  BY <1>1, <1>3, <1>4, <1>5 DEF NavTyped, MachineTyped
<1>7. adjusting' \in BOOLEAN
  BY DEF ReturnToPidLoop, ReturnToFailsafe, NavTyped, WorldTyped
<1>8. WorldTyped'
  BY <1>1, <1>7 DEF NavTyped, WorldTyped, allowed, world
<1>9. CallTyped'
  <2>1. call' = NoCall \/ call' = [call EXCEPT !.in.missing = {}]
    BY Zenon DEF ReturnToPidLoop, ReturnToFailsafe
  <2> QED
    BY <2>1, NoCallTyped DEF NavTyped, CallTyped, Call, Input
<1>10. motor' \in {motor, "PILOT"}
  BY DEF ReturnToPidLoop, ReturnToFailsafe, launchVars
<1> QED
  BY <1>1, <1>2, <1>6, <1>8, <1>9, <1>10 DEF NavTyped, LaunchTypeOK, Motor

LEMMA PidTyped ==
  ASSUME NavTyped, PidStart \/ PidLoop
  PROVE  NavTyped'
<1>1. UNCHANGED <<craft, navState, modes, path, allowed, adjusting, elapsed, armed, failsafe, position>>
  BY Zenon DEF PidStart, PidLoop, world
<1>2. MissionKept'
  BY <1>1, MissionKeeps
<1>3. CASE PidStart
  <2>1. /\ pc' = "pid" /\ motor' = "PILOT" /\ launch' = launch /\ forcedRTH' = forcedRTH
        /\ \E in \in Inputs : call' = [NoCall EXCEPT !.in = in]
    BY <1>3, Zenon DEF PidStart, world
  <2>2. CallTyped'
    BY <2>1, NoCallTyped, InputsTyped DEF CallTyped, Call
  <2> QED
    BY <1>1, <1>2, <2>1, <2>2 DEF NavTyped, MachineTyped, WorldTyped, LaunchTypeOK, Motor, allowed
<1>4. CASE PidLoop
  <2>1. /\ forcedRTH' \in {FALSE, forcedRTH}
        /\ pc' \in {pc, "rest"}
        /\ call' \in {call, NoCall, [call EXCEPT !.in.timeUp = FALSE]}
    BY <1>4 DEF PidLoop, PidEnds
  <2>2. \/ UNCHANGED launchVars
        \/ \E in : LaunchRound(in, TRUE) \/ LaunchRound(in, FALSE)
    BY <1>4, Zenon DEF PidLoop
  <2>3. LaunchTypeOK'
    BY <2>2, RoundTyped DEF NavTyped, launchVars, LaunchTypeOK
  <2>4. CallTyped'
    <3>1. call \in Call
      BY DEF NavTyped, CallTyped
    <3>2. [call EXCEPT !.in.timeUp = FALSE] \in Call
      BY <3>1 DEF Call, Input
    <3> QED
      BY <2>1, <3>1, <3>2, NoCallTyped DEF CallTyped
  <2>5. MachineTyped'
    BY <1>1, <2>1 DEF NavTyped, MachineTyped
  <2>6. WorldTyped'
    BY <1>1, <2>1 DEF NavTyped, WorldTyped, allowed
  <2> QED
    BY <1>2, <2>3, <2>4, <2>5, <2>6 DEF NavTyped
<1> QED
  BY <1>3, <1>4

(* The calls that begin: an RX frame, and the activation and the abort of a
   forced RTH.                                                              *)
LEMMA BeginningTyped ==
  ASSUME NavTyped, Frame \/ activateForcedRTH \/ abortForcedRTH,
         UNCHANGED <<craft, navState, modes, path, adjusting, elapsed, position>>,
         armed' \in BOOLEAN, failsafe' \in {"OFF", "NONE", "RTH", "LANDING", "LANDED"}
  PROVE  NavTyped'
<1>1. MissionKept'
  BY MissionKeeps
<1>2. CASE Frame
  <2>1. PICK in \in Inputs : RxFrame(in)
    BY <1>2 DEF Frame
  <2> DEFINE s == Select(armed', launchEnabled', forcedRTH, in)
  <2>2. launchEnabled' \in BOOLEAN /\ forcedRTH' = forcedRTH /\ UNCHANGED launchVars
    BY <2>1 DEF RxFrame, LaunchBox
  <2>3. canWaypoint' = s.canWaypoint /\ canLaunch' = s.canLaunch /\ Begin(s.event, "rx", in)
    BY <2>1, Zenon DEF RxFrame
  <2>4. s.event \in SwitchEvent /\ s.canWaypoint \in BOOLEAN /\ s.canLaunch \in BOOLEAN
    <3>1. /\ launchEnabled' \in BOOLEAN /\ forcedRTH \in BOOLEAN
          /\ canWaypoint \in BOOLEAN /\ canLaunch \in BOOLEAN
      BY <2>2 DEF NavTyped, WorldTyped
    <3> QED
      BY <3>1, Selects
  <2>5. call' \in Call /\ pc' \in {"timeout", "event"}
    BY <2>3, <2>4, BeginTyped, InputsTyped DEF Callers
  <2> QED
    BY <1>1, <2>2, <2>3, <2>4, <2>5
    DEF NavTyped, MachineTyped, WorldTyped, CallTyped, LaunchTypeOK, launchVars
<1>3. CASE activateForcedRTH
  <2>1. PICK missing \in Faults, low \in BOOLEAN :
          LET in       == [NoInput EXCEPT !.missing = missing, !.low = low]
              selected == Select(TRUE, launchEnabled, TRUE, in)
          IN /\ canWaypoint' = selected.canWaypoint /\ canLaunch' = selected.canLaunch
             /\ Begin(selected.event, "failsafe", in)
    BY <1>3, Zenon DEF activateForcedRTH
  <2> DEFINE in == [NoInput EXCEPT !.missing = missing, !.low = low]
             yes == TRUE
             s  == Select(yes, launchEnabled, yes, in)
  <2>2. in \in Input
    BY NavAssumption, NoCallTyped DEF Input
  <2>3. canWaypoint' = s.canWaypoint /\ canLaunch' = s.canLaunch /\ Begin(s.event, "failsafe", in)
    BY <2>1, Zenon
  <2> HIDE DEF in, yes
  <2>4. s.event \in SwitchEvent /\ s.canWaypoint \in BOOLEAN /\ s.canLaunch \in BOOLEAN
    <3>1. launchEnabled \in BOOLEAN /\ canWaypoint \in BOOLEAN /\ canLaunch \in BOOLEAN
      BY DEF NavTyped, WorldTyped
    <3>2. yes \in BOOLEAN
      BY DEF yes
    <3> QED
      BY <3>1, <3>2, Selects
  <2>5. call' \in Call /\ pc' \in {"timeout", "event"}
    BY <2>2, <2>3, <2>4, BeginTyped DEF Callers
  <2>6. /\ launchEnabled' = launchEnabled /\ forcedRTH' = TRUE
        /\ launch' = "IDLE" /\ motor' = motor
    BY <1>3, Zenon DEF activateForcedRTH, abortFixedWingLaunch
  <2> QED
    BY <1>1, <2>3, <2>4, <2>5, <2>6
    DEF NavTyped, MachineTyped, WorldTyped, CallTyped, LaunchTypeOK, LaunchState
<1>4. CASE abortForcedRTH
  <2>1. Begin("TO_IDLE", "abort", NoInput) /\ forcedRTH' = FALSE /\ UNCHANGED <<allowed, launchVars>>
    BY <1>4, Zenon DEF abortForcedRTH
  <2>2. call' \in Call /\ pc' \in {"timeout", "event"}
    BY <2>1, BeginTyped, NoCallTyped DEF Callers, SwitchEvent, Requested
  <2> QED
    BY <1>1, <2>1, <2>2
    DEF NavTyped, MachineTyped, WorldTyped, CallTyped, LaunchTypeOK, allowed, launchVars
<1> QED
  BY <1>2, <1>3, <1>4

LEMMA OutsideTyped ==
  ASSUME NavTyped, UNCHANGED <<craft, navState, modes, path, allowed, adjusting, forcedRTH, launchVars>>,
         elapsed' \in 0 .. HoverDelay, pc' \in {pc, "rest"}, call' = call,
         armed' \in BOOLEAN, failsafe' \in {"OFF", "NONE", "RTH", "LANDING", "LANDED"},
         position' \in {"TRUSTED", "USABLE", "LOST", "TIMED_OUT"}
  PROVE  NavTyped'
<1>1. MissionKept'
  BY MissionKeeps
<1>2. MachineTyped'
  BY DEF NavTyped, MachineTyped
<1>3. WorldTyped' /\ CallTyped' /\ LaunchTypeOK'
  BY DEF NavTyped, WorldTyped, CallTyped, LaunchTypeOK, allowed, launchVars
<1> QED
  BY <1>1, <1>2, <1>3 DEF NavTyped

LEMMA FailsafeTyped ==
  ASSUME NavTyped,
         FailsafeDrops \/ FailsafeTakesOver \/ FailsafeWatches \/ FailsafeLands \/ FailsafeRecovers
  PROVE  NavTyped'
<1>1. armed \in BOOLEAN /\ failsafe \in {"OFF", "NONE", "RTH", "LANDING", "LANDED"}
      /\ position \in {"TRUSTED", "USABLE", "LOST", "TIMED_OUT"} /\ elapsed \in 0 .. HoverDelay
  BY DEF NavTyped, WorldTyped, MachineTyped
<1>2. \/ UNCHANGED <<craft, navState, modes, path, allowed, adjusting, forcedRTH, launchVars>>
         /\ pc' \in {pc, "rest"} /\ UNCHANGED <<elapsed, position, call>>
      \/ abortForcedRTH
  BY Zenon DEF FailsafeDrops, FailsafeTakesOver, FailsafeWatches,
     FailsafeLands, FailsafeRecovers, FailsafeRest
<1>3. armed' \in BOOLEAN
  BY <1>1 DEF FailsafeDrops, FailsafeTakesOver, FailsafeWatches,
     FailsafeLands, FailsafeRecovers, abortForcedRTH
<1>4. failsafe' \in {"OFF", "NONE", "RTH", "LANDING", "LANDED"}
  BY <1>1 DEF FailsafeDrops, FailsafeTakesOver, FailsafeWatches,
     FailsafeLands, FailsafeRecovers
<1>5. CASE abortForcedRTH
  <2>1. UNCHANGED <<craft, navState, modes, path, adjusting, elapsed, position>>
    BY <1>5, Zenon DEF abortForcedRTH
  <2> QED
    BY <1>3, <1>4, <1>5, <2>1, BeginningTyped
<1>6. CASE /\ UNCHANGED <<craft, navState, modes, path, allowed, adjusting, forcedRTH, launchVars>>
           /\ pc' \in {pc, "rest"} /\ UNCHANGED <<elapsed, position, call>>
  BY <1>1, <1>3, <1>4, <1>6, OutsideTyped
<1> QED
  BY <1>2, <1>5, <1>6

LEMMA NavStepTyped ==
  ASSUME NavTyped, [NavNext]_vars
  PROVE  NavTyped'
<1>1. CASE Inject \/ Entry
  BY <1>1, InjectTyped, EntryTyped
<1>2. CASE ReturnToPidLoop \/ ReturnToFailsafe
  BY <1>2, ReturnTyped
<1>3. CASE PidStart \/ PidLoop
  BY <1>3, PidTyped
<1>4. CASE Frame
  <2>1. PICK in \in Inputs : RxFrame(in)
    BY <1>4 DEF Frame
  <2>2. /\ UNCHANGED <<craft, navState, modes, path, adjusting, elapsed, position>>
        /\ failsafe' = failsafe
    BY <2>1, Zenon DEF RxFrame
  <2>3. armed' \in BOOLEAN
    BY <2>1 DEF RxFrame, NavTyped, WorldTyped
  <2> QED
    BY <1>4, <2>2, <2>3, BeginningTyped DEF NavTyped, WorldTyped
<1>5. CASE activateForcedRTH
  <2>1. /\ UNCHANGED <<craft, navState, modes, path, adjusting, elapsed, position>>
        /\ armed' = armed /\ failsafe' = "RTH"
    BY <1>5, Zenon DEF activateForcedRTH
  <2> QED
    BY <1>5, <2>1, BeginningTyped DEF NavTyped, WorldTyped
<1>6. CASE FailsafeDrops \/ FailsafeTakesOver \/ FailsafeWatches \/ FailsafeLands \/ FailsafeRecovers
  BY <1>6, FailsafeTyped
<1>7. CASE PositionChanges \/ Tick \/ UNCHANGED vars
  <2>1. UNCHANGED <<craft, navState, modes, path, allowed, adjusting, forcedRTH, launchVars,
                    pc, call, armed, failsafe>>
    BY <1>7, Zenon DEF PositionChanges, Tick, vars, navVars, world
  <2>2. elapsed' \in 0 .. HoverDelay
    BY <1>7, NavAssumption DEF PositionChanges, Tick, vars, navVars, NavTyped, MachineTyped
  <2>3. position' \in {"TRUSTED", "USABLE", "LOST", "TIMED_OUT"}
    BY <1>7 DEF PositionChanges, Tick, vars, navVars, world, NavTyped, WorldTyped
  <2> QED
    BY <2>1, <2>2, <2>3, OutsideTyped DEF NavTyped, WorldTyped
<1> QED
  BY <1>1, <1>2, <1>3, <1>4, <1>5, <1>6, <1>7, Zenon DEF NavNext, CallStep

LEMMA AlwaysTyped ==
  NavSpec => []NavTyped
<1>1. NavTyped /\ [NavNext]_vars => NavTyped'
  BY NavStepTyped
<1> QED
  BY <1>1, InitTyped, PTL DEF NavSpec

(* The state of the machine always has its type: the active waypoint is one
   of the mission, whatever it jumps over, and every event that a switch, a
   failsafe or an entry function gives is one of the table's.              *)
THEOREM NavTypeCorrect ==
  NavSpec => []NavTypeOK
BY AlwaysTyped, TypedImplies, PTL
-----------------------------------------------------------------------------
(* Only the loops of the machine move it or its mission.                    *)
Outside == \/ ReturnToPidLoop \/ ReturnToFailsafe \/ PidStart \/ PidLoop \/ Frame
           \/ FailsafeDrops \/ FailsafeTakesOver \/ activateForcedRTH \/ FailsafeWatches
           \/ FailsafeLands \/ FailsafeRecovers \/ PositionChanges \/ Tick \/ UNCHANGED vars

LEMMA Steps ==
  [NavNext]_vars => Inject \/ Entry \/ Outside
BY Zenon DEF NavNext, CallStep, Outside

LEMMA OutsideKeeps ==
  ASSUME Outside
  PROVE  UNCHANGED <<craft, navState, path>>
<1>1. CASE ReturnToPidLoop \/ ReturnToFailsafe \/ PidStart \/ PidLoop \/ PositionChanges \/ Tick
             \/ UNCHANGED vars
  BY <1>1, Zenon DEF ReturnToPidLoop, ReturnToFailsafe,
   PidStart, PidLoop, PositionChanges, Tick, vars, navVars
<1>2. CASE Frame \/ activateForcedRTH
  BY <1>2, Zenon DEF Frame, RxFrame, activateForcedRTH
<1>3. CASE FailsafeDrops \/ FailsafeTakesOver \/ FailsafeWatches \/ FailsafeLands \/ FailsafeRecovers
  BY <1>3, Zenon DEF FailsafeDrops, FailsafeTakesOver, FailsafeWatches,
     FailsafeLands, FailsafeRecovers,
     FailsafeRest, abortForcedRTH
<1> QED
  BY <1>1, <1>2, <1>3 DEF Outside

LEMMA InjectKeeps ==
  ASSUME NavTyped, Inject
  PROVE  UNCHANGED <<craft, path>> /\ (navState' = navState \/ navState' \notin Flying \cup {"LAUNCH_WAIT"})
<1>1. UNCHANGED <<craft, path>>
  BY Zenon DEF Inject
<1>2. \/ navState' = navState
      \/ /\ OnEvent(navState, call.event) # "UNDEFINED"
         /\ navState' = OnEvent(navState, call.event)
  BY Zenon DEF Inject
<1>3. navState \in NavState /\ call.event \in SwitchEvent
  BY DEF NavTyped, MachineTyped, CallTyped, Call
<1> QED
  BY <1>1, <1>2, <1>3, InjectedEvent

LEMMA GeoStep ==
  ASSUME NavTyped, ActiveWaypointIsGeo, [NavNext]_vars
  PROVE  ActiveWaypointIsGeo'
<1>1. ActiveWaypointIsGeo <=>
        (navState \in GeoStates => activeWaypoint \in DOMAIN mission /\ mission[activeWaypoint].action \in Geo)
  BY Zenon DEF ActiveWaypointIsGeo, GeoStates
<1>2. SUFFICES ASSUME navState' \in GeoStates
               PROVE  activeWaypoint' \in DOMAIN mission' /\ mission'[activeWaypoint'].action \in Geo
  BY Zenon DEF ActiveWaypointIsGeo, GeoStates
<1>3. navState \in NavState
  BY DEF NavTyped, MachineTyped
<1>4. CASE UNCHANGED <<craft, path>> /\ navState \in GeoStates
  BY <1>1, <1>4 DEF path, mission
<1>5. CASE Inject
  BY <1>2, <1>4, <1>5, InjectKeeps, StateNames
<1>6. CASE Outside
  BY <1>2, <1>4, <1>6, OutsideKeeps
<1>7. CASE Entry
  <2>1. ASSUME NEW e, Entered(e)
        PROVE  navState \in GeoStates \/ (navState = "WAYPOINT_PRE_ACTION" /\ e = "SUCCESS")
    <3>1. \/ navState' = navState
          \/ OnEvent(navState, e) # "UNDEFINED" /\ navState' = OnEvent(navState, e)
      BY <2>1, EnteredMoves
    <3> QED
      BY <1>2, <1>3, <3>1, Transition
  <2>2. craft' = craft
    BY <1>7, EntryEvent, EnteredMoves, Zenon DEF EntryReturns
  <2>3. CASE navState \in GeoStates
    <3>1. UNCHANGED path
      BY <1>7, <2>3 DEF Entry, Enter, EnterFinishing, EnterWaypointLand, EnterMission, EnterNext,
         EnterPreAction, EnterMissionDone, EnterLaunch, EnterLaunchWait, GeoStates
    <3> QED
      BY <1>4, <2>2, <2>3, <3>1
  <2>4. CASE navState = "WAYPOINT_PRE_ACTION"
    <3>1. EnterPreAction
      BY <1>7, <2>4 DEF Entry, Enter, EnterFinishing, EnterWaypointLand, EnterMission, EnterNext,
         EnterMissionDone, EnterLaunch, EnterLaunchWait, Stateful
    <3>2. ~Entered("NONE") /\ ~Entered("TO_FINISHED") /\ ~Entered("TO_RTH")
      BY <2>1, <2>4 DEF GeoStates
    <3>3. ~NextWaypoint("NONE") /\ ~TakeJump(activeWaypoint)
      BY <3>2, Zenon DEF NextWaypoint, TakeJump
    <3>4. mission[activeWaypoint].action \in Geo /\ UNCHANGED path
      BY <3>1, <3>2, <3>3, Zenon DEF EnterPreAction
    <3>5. activeWaypoint \in DOMAIN mission
      BY <2>4 DEF NavTyped, MissionKept, OnMission, Flying, AutoWP
    <3> QED
      BY <2>2, <3>4, <3>5 DEF path, mission
  <2>5. PICK e : Entered(e)
    BY <1>7, EntryEvent DEF EntryReturns
  <2> QED
    BY <2>1, <2>3, <2>4, <2>5
<1> QED
  BY <1>5, <1>6, <1>7, Steps

(* The states that fly to, hold at or land on a waypoint only ever do so
   for a geo-referenced one, for every mission whose jumps are valid and
   every order in which the estimates come and go.                         *)
THEOREM WaypointsAreGeo ==
  NavSpec => []ActiveWaypointIsGeo
<1>1. NavInit => ActiveWaypointIsGeo
  BY DEF NavInit, ActiveWaypointIsGeo
<1>2. NavTyped /\ ActiveWaypointIsGeo /\ [NavNext]_vars => ActiveWaypointIsGeo'
  BY GeoStep
<1> QED
  BY <1>1, <1>2, AlwaysTyped, PTL DEF NavSpec
-----------------------------------------------------------------------------
(* Where in a call a step outside of the loops may be, and which calls it
   may begin.                                                               *)
InCall == {"timeout", "event", "inject", "done"}
NotInCall == {"rest", "pid", "failsafe"}

LEMMA OutsideCalls ==
  ASSUME NavTyped, Outside
  PROVE  \/ pc' = pc /\ call' = call
         \/ pc \in {"rest", "pid", "failsafe", "done"} /\ pc' \in NotInCall
         \/ /\ pc \in {"rest", "failsafe"} /\ pc' \in {"timeout", "event"}
            /\ \/ Frame /\ call'.caller = "rx"
               \/ activateForcedRTH /\ call'.caller = "failsafe"
               \/ abortForcedRTH /\ call'.caller = "abort" /\ call'.event = "TO_IDLE"
<1> USE DEF NotInCall
<1>1. CASE ReturnToPidLoop \/ ReturnToFailsafe
  BY <1>1 DEF ReturnToPidLoop, ReturnToFailsafe
<1>2. CASE PidStart \/ PidLoop
  <2>1. pc \in {"rest", "pid"} /\ pc' \in {"pid", "rest"}
    BY <1>2 DEF PidStart, PidLoop, PidEnds
  <2> QED
    BY <2>1
<1>3. CASE Frame
  <2>1. PICK in \in Inputs : RxFrame(in)
    BY <1>3 DEF Frame
  <2> DEFINE e == Select(armed', launchEnabled', forcedRTH, in).event
  <2>2. pc = "rest" /\ Begin(e, "rx", in)
    BY <2>1, Zenon DEF RxFrame
  <2> HIDE DEF e
  <2> QED
    BY <1>3, <2>2 DEF Begin
<1>4. CASE activateForcedRTH
  <2>1. pc = "rest" /\ \E e, in : Begin(e, "failsafe", in)
    BY <1>4, Zenon DEF activateForcedRTH
  <2> QED
    BY <1>4, <2>1 DEF Begin
<1>5. CASE abortForcedRTH /\ (FailsafeWatches \/ FailsafeRecovers)
  <2>1. Begin("TO_IDLE", "abort", NoInput)
    BY <1>5, Zenon DEF abortForcedRTH
  <2>2. pc \in {"rest", "failsafe"}
    BY <1>5 DEF FailsafeWatches, FailsafeRecovers
  <2> QED
    BY <1>5, <2>1, <2>2 DEF Begin
<1>6. CASE ~abortForcedRTH /\ FailsafeWatches
  <2>1. pc \in {"rest", "failsafe"} /\ pc' = "rest"
    BY <1>6, Zenon DEF FailsafeWatches
  <2> QED
    BY <2>1
<1>7. CASE ~abortForcedRTH /\ FailsafeRecovers
  BY <1>7, Zenon DEF FailsafeRecovers, FailsafeRest
<1>8. CASE FailsafeDrops \/ FailsafeTakesOver \/ FailsafeLands
  BY <1>8, Zenon DEF FailsafeDrops, FailsafeTakesOver, FailsafeLands, FailsafeRest
<1>9. CASE PositionChanges \/ Tick \/ UNCHANGED vars
  BY <1>9, Zenon DEF PositionChanges, Tick, vars, navVars
<1> QED
  BY <1>1, <1>2, <1>3, <1>4, <1>5, <1>6, <1>7, <1>8, <1>9, Zenon DEF Outside

(* No call rests in WAYPOINT_NEXT, the only state that TO_IDLE does not
   leave; an abort carries TO_IDLE until it is injected and finds the
   machine in IDLE from then on.                                            *)
NextIsTransient == pc \notin {"timeout", "inject"} => navState # "WAYPOINT_NEXT"
AbortToIdle == call.caller = "abort" =>
                 /\ pc \in {"timeout", "event"} => call.event = "TO_IDLE"
                 /\ pc \in {"inject", "done"} => navState = "IDLE"
AbortInv == NextIsTransient /\ AbortToIdle

LEMMA NextIsLeft ==
  ASSUME NEW e \in {"SUCCESS", "TO_FINISHED"}
  PROVE  OnEvent("WAYPOINT_NEXT", e) # "UNDEFINED"
<1>1. "WAYPOINT_NEXT" \in DOMAIN Successor /\ Successor["WAYPOINT_NEXT"] = "WAYPOINT_PRE_ACTION"
  BY SuccessorDomain DEF Successor
<1>2. "TO_FINISHED" \in DOMAIN Destination /\ Destination["TO_FINISHED"] = "WAYPOINT_FINISHED"
  BY DEF Destination
<1>3. Accepts("WAYPOINT_NEXT", "TO_FINISHED")
  BY DEF Accepts
<1>4. CASE e = "SUCCESS"
  BY <1>1, <1>4, DestinationDomain DEF OnEvent
<1>5. CASE e = "TO_FINISHED"
  BY <1>2, <1>3, <1>5 DEF OnEvent
<1> QED
  BY <1>4, <1>5

LEMMA AbortStep ==
  ASSUME NavTyped, AbortInv, [NavNext]_vars
  PROVE  AbortInv'
<1>1. navState \in NavState
  BY DEF NavTyped, MachineTyped
<1>2. CASE Entry
  <2>1. PICK e : EntryReturns(e)
    BY <1>2, EntryEvent
  <2>2. Entered(e) /\ (navState = "IDLE" => e = "NONE")
        /\ (navState = "WAYPOINT_NEXT" => e \in {"SUCCESS", "TO_FINISHED"})
    BY <2>1 DEF EntryReturns
  <2>3. /\ pc \in {"timeout", "inject"} /\ call' = call
        /\ \/ /\ OnEvent(navState, e) = "UNDEFINED" /\ navState' = navState
              /\ pc' = IF pc = "timeout" THEN "event" ELSE "done"
           \/ /\ OnEvent(navState, e) # "UNDEFINED" /\ pc' = pc
    BY <2>2, EnteredMoves
  <2>4. NextIsTransient'
    BY <2>2, <2>3, NextIsLeft DEF NextIsTransient
  <2>5. navState = "IDLE" => OnEvent(navState, e) = "UNDEFINED"
    BY <2>2, NoEvent
  <2> QED
    BY <2>3, <2>4, <2>5 DEF AbortInv, AbortToIdle
<1>3. CASE Inject
  <2>1. /\ pc = "event" /\ call'.caller = call.caller
        /\ \/ OnEvent(navState, call.event) = "UNDEFINED" /\ pc' = "done" /\ navState' = navState
           \/ /\ OnEvent(navState, call.event) # "UNDEFINED" /\ pc' = "inject"
              /\ navState' = OnEvent(navState, call.event)
    BY <1>3 DEF Inject, NavTyped, CallTyped, Call
  <2>2. navState # "WAYPOINT_NEXT"
    BY <2>1 DEF AbortInv, NextIsTransient
  <2>3. call.caller = "abort" => navState' = "IDLE"
    BY <1>1, <2>1, <2>2, ToIdle, IdleHears DEF AbortInv, AbortToIdle
  <2> QED
    BY <2>1, <2>2, <2>3 DEF AbortInv, NextIsTransient, AbortToIdle
<1>4. CASE Outside
  <2>1. navState' = navState
    BY <1>4, OutsideKeeps
  <2>2. \/ pc' = pc /\ call' = call
        \/ pc \in {"rest", "pid", "failsafe", "done"} /\ pc' \in NotInCall
        \/ /\ pc \in {"rest", "failsafe"} /\ pc' \in {"timeout", "event"}
           /\ call'.caller \in {"rx", "failsafe"} \/ call'.event = "TO_IDLE"
    BY <1>4, OutsideCalls
  <2> QED
    BY <2>1, <2>2 DEF AbortInv, NextIsTransient, AbortToIdle, NotInCall
<1> QED
  BY <1>2, <1>3, <1>4, Steps

(* abortForcedRTH() leaves the machine in IDLE from whatever it was doing,
   for every mission and every entry that its time-out had just run.       *)
THEOREM AbortIsIdle ==
  NavSpec => []AbortedRTHIsIdle
<1>1. NavInit => AbortInv
  BY DEF NavInit, AbortInv, NextIsTransient, AbortToIdle
<1>2. NavTyped /\ AbortInv /\ [NavNext]_vars => AbortInv'
  BY AbortStep
<1>3. AbortInv => AbortedRTHIsIdle
  BY DEF AbortInv, AbortToIdle, AbortedRTHIsIdle
<1> QED
  BY <1>1, <1>2, <1>3, AlwaysTyped, PTL DEF NavSpec
-----------------------------------------------------------------------------
(* The event of a call that begins.                                         *)
LEMMA BegunEvent ==
  ASSUME NavTyped, Frame \/ activateForcedRTH
  PROVE  /\ "LAUNCH" \in modes => call'.event \in {"NONE", "TO_IDLE", "TO_LAUNCH"}
         /\ Frame /\ armed' /\ forcedRTH /\ failsafe # "LANDING" /\ "LAUNCH" \notin modes =>
              call'.event \in {"TO_LAUNCH", "TO_RTH"}
<1>1. canWaypoint \in BOOLEAN /\ canLaunch \in BOOLEAN /\ forcedRTH \in BOOLEAN /\ launchEnabled \in BOOLEAN
      /\ armed \in BOOLEAN
  BY DEF NavTyped, WorldTyped
<1>2. ASSUME NEW in \in Inputs, RxFrame(in)
      PROVE  /\ "LAUNCH" \in modes => call'.event \in {"NONE", "TO_IDLE", "TO_LAUNCH"}
             /\ armed' /\ forcedRTH /\ failsafe # "LANDING" /\ "LAUNCH" \notin modes =>
                  call'.event \in {"TO_LAUNCH", "TO_RTH"}
  <2> DEFINE e == Select(armed', launchEnabled', forcedRTH, in).event
  <2>1. launchEnabled' \in BOOLEAN /\ armed' \in BOOLEAN
    BY <1>1, <1>2 DEF RxFrame, LaunchBox
  <2>2. Begin(e, "rx", in)
    BY <1>2, Zenon DEF RxFrame
  <2>3. /\ "LAUNCH" \in modes => e \in {"NONE", "TO_IDLE", "TO_LAUNCH"}
        /\ armed' /\ forcedRTH /\ failsafe # "LANDING" /\ "LAUNCH" \notin modes
              => e \in {"TO_LAUNCH", "TO_RTH"}
    BY <1>1, <2>1, Selects
  <2> HIDE DEF e
  <2>4. call'.event = e
    BY <2>2 DEF Begin
  <2> QED
    BY <2>3, <2>4
<1>3. ASSUME activateForcedRTH, "LAUNCH" \in modes
      PROVE  call'.event \in {"NONE", "TO_IDLE", "TO_LAUNCH"}
  <2> DEFINE yes == TRUE
             e(in) == Select(yes, launchEnabled, yes, in).event
  <2>1. \E in : Begin(e(in), "failsafe", in)
    BY <1>3, Zenon DEF activateForcedRTH
  <2>2. yes \in BOOLEAN
    OBVIOUS
  <2> HIDE DEF yes
  <2>3. \A in : e(in) \in {"NONE", "TO_IDLE", "TO_LAUNCH"}
    <3> SUFFICES ASSUME NEW in
                 PROVE  Select(yes, launchEnabled, yes, in).event \in {"NONE", "TO_IDLE", "TO_LAUNCH"}
      OBVIOUS
    <3> DEFINE s == Select(yes, launchEnabled, yes, in)
    <3>1. /\ s.event \in SwitchEvent /\ s.canWaypoint \in BOOLEAN /\ s.canLaunch \in BOOLEAN
          /\ "LAUNCH" \in modes => s.event \in {"NONE", "TO_IDLE", "TO_LAUNCH"}
      BY <1>1, <2>2, Selects
    <3> QED
      BY <1>3, <3>1
  <2> HIDE DEF e
  <2>4. \E in : call'.event = e(in)
    BY <2>1 DEF Begin
  <2> QED
    BY <2>3, <2>4
<1>4. Frame => \E in \in Inputs : RxFrame(in)
  BY DEF Frame
<1> QED
  BY <1>2, <1>3, <1>4

(* While the launch mode is on the machine is launching or idle, and no call
   takes it anywhere else.                                                  *)
LaunchModeInv ==
  "LAUNCH" \in modes =>
    /\ navState \in LaunchOnly
    /\ pc \in {"timeout", "event"} => call.event \in {"NONE", "TO_IDLE", "TO_LAUNCH"}

LEMMA LaunchModeStep ==
  ASSUME NavTyped, LaunchModeInv, [NavNext]_vars
  PROVE  LaunchModeInv'
<1>1. navState \in NavState
  BY DEF NavTyped, MachineTyped
<1>2. CASE Entry
  <2>1. PICK e : EntryReturns(e)
    BY <1>2, EntryEvent
  <2>2. Entered(e) /\ (navState \in LaunchOnly => e \in {"NONE", "SUCCESS", "TO_IDLE"})
    BY <2>1 DEF EntryReturns
  <2>3. /\ pc \in {"timeout", "inject"} /\ call' = call /\ modes' = modes
        /\ \/ /\ navState' = navState
              /\ pc' = IF pc = "timeout" THEN "event" ELSE "done"
           \/ /\ OnEvent(navState, e) # "UNDEFINED" /\ navState' = OnEvent(navState, e) /\ pc' = pc
    BY <2>2, EnteredMoves
  <2>4. navState \in LaunchOnly => navState' \in LaunchOnly
    BY <1>1, <2>2, <2>3, Transition
  <2> QED
    BY <2>3, <2>4 DEF LaunchModeInv
<1>3. CASE Inject
  <2>1. pc = "event" /\ modes' = modes
        /\ (navState' = navState \/ (OnEvent(navState, call.event) # "UNDEFINED"
                                      /\ navState' = OnEvent(navState, call.event)))
        /\ pc' \in {"done", "inject"}
    BY <1>3 DEF Inject
  <2> QED
    BY <1>1, <2>1, Transition DEF LaunchModeInv
<1>4. CASE Outside
  <2>1. navState' = navState
    BY <1>4, OutsideKeeps
  <2>2. modes' = modes \/ (ReturnToPidLoop /\ modes' = MappedModes(navState))
    <3>1. CASE ReturnToPidLoop \/ ReturnToFailsafe \/ PidStart \/ PidLoop \/ PositionChanges \/ Tick
                 \/ UNCHANGED vars
      BY <3>1, Zenon DEF ReturnToPidLoop, ReturnToFailsafe, PidStart, PidLoop, PositionChanges, Tick,
         vars, navVars
    <3>2. CASE Frame \/ activateForcedRTH
      BY <3>2, Zenon DEF Frame, RxFrame, activateForcedRTH
    <3>3. CASE FailsafeDrops \/ FailsafeTakesOver \/ FailsafeWatches \/ FailsafeLands \/ FailsafeRecovers
      BY <3>3, Zenon DEF FailsafeDrops, FailsafeTakesOver, FailsafeWatches,
         FailsafeLands, FailsafeRecovers,
         FailsafeRest, abortForcedRTH
    <3> QED
      BY <1>4, <3>1, <3>2, <3>3 DEF Outside
  <2>3. "LAUNCH" \in MappedModes(navState) => navState \in LaunchOnly
    BY DEF MappedModes, LaunchOnly
  <2>4. ReturnToPidLoop => pc' = "pid"
    BY DEF ReturnToPidLoop
  <2>5. \/ pc' = pc /\ call' = call
        \/ pc' \in NotInCall
        \/ Frame \/ activateForcedRTH
        \/ call'.event = "TO_IDLE"
    BY <1>4, OutsideCalls
  <2>6. Frame \/ activateForcedRTH => ("LAUNCH" \in modes => call'.event \in {"NONE", "TO_IDLE", "TO_LAUNCH"})
    BY BegunEvent
  <2>7. CASE ReturnToPidLoop /\ modes' = MappedModes(navState)
    BY <2>1, <2>3, <2>4, <2>7 DEF LaunchModeInv
  <2>8. CASE modes' = modes
    BY <2>1, <2>5, <2>6, <2>8 DEF LaunchModeInv, NotInCall
  <2> QED
    BY <2>2, <2>7, <2>8
<1> QED
  BY <1>2, <1>3, <1>4, Steps

LEMMA AlwaysLaunchMode ==
  NavSpec => []LaunchModeInv
<1>1. NavInit => LaunchModeInv
  BY DEF NavInit, LaunchModeInv
<1>2. NavTyped /\ LaunchModeInv /\ [NavNext]_vars => LaunchModeInv'
  BY LaunchModeStep
<1> QED
  BY <1>1, <1>2, AlwaysTyped, PTL DEF NavSpec

(* A forced RTH belongs to the failsafe that activated it; an armed craft
   under it is on its way home, or the call that activates it is not over
   or has not been looked at.                                              *)
ForcedByFailsafe == /\ forcedRTH => failsafe \in {"RTH", "LANDED"}
                    /\ failsafe = "LANDED" => ~armed
Activating == pc = "failsafe" \/ (pc \in InCall /\ call.caller = "failsafe")
ForcedIsFlown == armed /\ forcedRTH =>
                   /\ navState \in Homecoming \/ Activating
                   /\ call.caller = "rx" /\ pc \in {"timeout", "event"} =>
                        call.event \in {"NONE", "TO_RTH", "TO_LAUNCH"}
AbortUnforces == pc \in InCall => /\ call.caller \in {"rx", "failsafe", "abort"}
                                  /\ call.caller = "abort" => ~forcedRTH
ForcedInv == ForcedByFailsafe /\ ForcedIsFlown /\ AbortUnforces

LEMMA ForcedEntry ==
  ASSUME NavTyped, ForcedInv, Entry
  PROVE  ForcedInv'
<1>1. PICK e : EntryReturns(e)
  BY EntryEvent
<1>2. /\ Entered(e) /\ (armed' => armed)
      /\ navState \in Homecoming /\ forcedRTH => e \in HomeEvent
  <2>1. Entered(e) /\ (navState \in Homecoming /\ forcedRTH => e \in HomeEvent)
        /\ (armed' = armed \/ armed' = FALSE)
    BY <1>1 DEF EntryReturns
  <2> QED
    BY <2>1
<1>3. /\ pc \in {"timeout", "inject"} /\ pc' \in InCall /\ call' = call
      /\ forcedRTH' = forcedRTH /\ failsafe' = failsafe
      /\ pc' \in {"timeout", "event"} => pc = "timeout"
      /\ navState' = navState
            \/ (OnEvent(navState, e) # "UNDEFINED" /\ navState' = OnEvent(navState, e))
  BY <1>2, EnteredMoves DEF InCall
<1>4. navState \in Homecoming /\ forcedRTH => navState' \in Homecoming
  BY <1>2, <1>3, Transition DEF HomeEvent, NavTyped, MachineTyped
<1> QED
  BY <1>2, <1>3, <1>4 DEF ForcedInv, ForcedByFailsafe, ForcedIsFlown, Activating, AbortUnforces, InCall

LEMMA ForcedInject ==
  ASSUME NavTyped, ForcedInv, Inject
  PROVE  ForcedInv'
<1>1. /\ pc = "event" /\ pc' \in {"done", "inject"} /\ call'.caller = call.caller
      /\ UNCHANGED <<armed, forcedRTH, failsafe>>
      /\ navState' = navState \/ (OnEvent(navState, call.event) # "UNDEFINED"
                                   /\ navState' = OnEvent(navState, call.event))
  BY DEF Inject, world, NavTyped, CallTyped, Call
<1>2. navState \in Homecoming /\ call.event \in {"NONE", "TO_RTH", "TO_LAUNCH"}
        => navState' \in Homecoming
  BY <1>1, Transition DEF NavTyped, MachineTyped
<1> QED
  BY <1>1, <1>2 DEF ForcedInv, ForcedByFailsafe, ForcedIsFlown, Activating, AbortUnforces, InCall

LEMMA ForcedOutside ==
  ASSUME NavTyped, ForcedInv, LaunchModeInv, Outside
  PROVE  ForcedInv'
<1> USE DEF ForcedInv, ForcedByFailsafe, ForcedIsFlown, Activating, AbortUnforces, InCall
<1>1. navState' = navState
  BY OutsideKeeps
<1>2. CASE UNCHANGED <<armed, forcedRTH, failsafe, pc, call>>
  BY <1>1, <1>2
<1>3. CASE ReturnToPidLoop \/ ReturnToFailsafe
  <2>1. UNCHANGED <<armed, forcedRTH, failsafe>> /\ pc = "done"
    BY <1>3, Zenon DEF ReturnToPidLoop, ReturnToFailsafe, world
  <2>2. \/ call.caller = "rx" /\ pc' = "pid"
        \/ call.caller = "failsafe" /\ pc' = "failsafe"
        \/ call.caller = "abort" /\ pc' = "rest"
    BY <1>3 DEF ReturnToPidLoop, ReturnToFailsafe
  <2> QED
    BY <1>1, <2>1, <2>2
<1>4. CASE PidStart \/ PidLoop
  <2>1. /\ armed' = armed /\ failsafe' = failsafe /\ (forcedRTH' => forcedRTH)
        /\ pc \in {"rest", "pid"} /\ pc' \in {"rest", "pid"}
    <3>1. CASE PidStart
      BY <3>1, Zenon DEF PidStart, world
    <3>2. CASE PidLoop
      <4>1. armed' = armed /\ failsafe' = failsafe /\ pc = "pid" /\ pc' \in {pc, "rest"}
        BY <3>2 DEF PidLoop, PidEnds
      <4>2. forcedRTH' = FALSE \/ UNCHANGED forcedRTH
        BY <3>2, Zenon DEF PidLoop
      <4> QED
        BY <4>1, <4>2
    <3> QED
      BY <1>4, <3>1, <3>2
  <2> QED
    BY <1>1, <2>1
<1>5. CASE Frame
  <2>1. /\ pc = "rest" /\ pc' \in {"timeout", "event"} /\ call'.caller = "rx"
        /\ failsafe' = failsafe /\ forcedRTH' = forcedRTH
        /\ armed' => armed \/ failsafe = "OFF"
    <3>1. PICK in \in Inputs : RxFrame(in)
      BY <1>5 DEF Frame
    <3>2. /\ pc = "rest" /\ failsafe' = failsafe /\ forcedRTH' = forcedRTH
          /\ armed' \in {armed, FALSE} \cup (IF MayArm(in) THEN {TRUE} ELSE {})
          /\ \E e : Begin(e, "rx", in)
      BY <3>1, Zenon DEF RxFrame
    <3>3. MayArm(in) => failsafe = "OFF"
      BY DEF MayArm
    <3>4. armed' => armed \/ failsafe = "OFF"
      BY <3>2, <3>3 DEF NavTyped, WorldTyped
    <3>5. pc' \in {"timeout", "event"} /\ call'.caller = "rx"
      BY <3>2 DEF Begin
    <3> QED
      BY <3>2, <3>4, <3>5
  <2>2. ASSUME armed', forcedRTH'
        PROVE  navState \in Homecoming /\ call'.event \in {"TO_LAUNCH", "TO_RTH"}
    <3>1. navState \in Homecoming /\ failsafe = "RTH"
      BY <2>1, <2>2
    <3>2. "LAUNCH" \notin modes
      BY <3>1, StateNames DEF LaunchModeInv
    <3> QED
      BY <1>5, <2>1, <2>2, <3>1, <3>2, BegunEvent
  <2>3. armed' \in BOOLEAN /\ forcedRTH' \in BOOLEAN
    BY NavStepTyped, <1>5 DEF NavNext, NavTyped, WorldTyped
  <2> QED
    BY <1>1, <2>1, <2>2, <2>3
<1>6. CASE activateForcedRTH
  <2>1. failsafe' = "RTH" /\ call'.caller = "failsafe" /\ pc' \in {"timeout", "event"}
    <3>1. failsafe' = "RTH" /\ \E e, in : Begin(e, "failsafe", in)
      BY <1>6, Zenon DEF activateForcedRTH
    <3> QED
      BY <3>1 DEF Begin
  <2> QED
    BY <2>1
<1>7. CASE abortForcedRTH /\ (FailsafeWatches \/ FailsafeRecovers)
  <2>1. /\ forcedRTH' = FALSE /\ armed' = armed /\ failsafe' \in {"LANDING", "OFF", "LANDED"}
        /\ failsafe' = "LANDED" => ~armed'
    BY <1>7 DEF abortForcedRTH, FailsafeWatches, FailsafeRecovers
  <2>2. call'.caller = "abort"
    BY <1>7 DEF abortForcedRTH, Begin
  <2> QED
    BY <2>1, <2>2
<1>8. CASE ~abortForcedRTH /\ FailsafeWatches
  <2>1. /\ navState \in Homecoming /\ forcedRTH' = forcedRTH /\ pc' = "rest"
        /\ \/ failsafe' = failsafe /\ armed' = armed
           \/ failsafe' = "LANDED" /\ armed' = FALSE
    BY <1>8, Zenon DEF FailsafeWatches, Homecoming
  <2> QED
    BY <1>1, <2>1
<1>9. CASE ~abortForcedRTH /\ FailsafeRecovers
  <2>1. /\ pc' = "rest" /\ failsafe # "RTH" /\ forcedRTH' = forcedRTH /\ armed' = armed /\ failsafe' = "OFF"
        /\ failsafe = "LANDED" => ~forcedRTH
    BY <1>9, Zenon DEF FailsafeRecovers, FailsafeRest
  <2> QED
    BY <2>1
<1>10. CASE FailsafeDrops \/ FailsafeTakesOver \/ FailsafeLands
  <2>1. /\ pc' = "rest" /\ forcedRTH' = forcedRTH /\ failsafe \in {"OFF", "LANDING"}
        /\ failsafe' \in {"LANDED", "LANDING", "NONE"} /\ (failsafe' = "LANDED" => armed' = FALSE)
    BY <1>10 DEF FailsafeDrops, FailsafeTakesOver, FailsafeLands, FailsafeRest
  <2> QED
    BY <2>1
<1>11. CASE PositionChanges \/ Tick \/ UNCHANGED vars
  BY <1>2, <1>11, Zenon DEF PositionChanges, Tick, vars, navVars, world
<1> QED
  BY <1>3, <1>4, <1>5, <1>6, <1>7, <1>8, <1>9, <1>10, <1>11, Zenon DEF Outside

(* No switch of the pilot, no launch and no loss of an estimate takes an
   armed craft out of a forced RTH, once the call that activated it is over
   and the failsafe has looked at it.                                       *)
THEOREM ForcedRTHHolds ==
  NavSpec => []ForcedRTHIsFlown
<1>1. NavInit => ForcedInv
  BY DEF NavInit, ForcedInv, ForcedByFailsafe, ForcedIsFlown, Activating, AbortUnforces, InCall
<1>2. NavTyped /\ LaunchModeInv /\ ForcedInv /\ [NavNext]_vars => ForcedInv'
  BY ForcedEntry, ForcedInject, ForcedOutside, Steps
<1>3. ForcedInv => ForcedRTHIsFlown
  BY DEF ForcedInv, ForcedIsFlown, Activating, InCall, ForcedRTHIsFlown, Homecoming
<1> QED
  BY <1>1, <1>2, <1>3, AlwaysTyped, AlwaysLaunchMode, PTL DEF NavSpec
-----------------------------------------------------------------------------
(* While the machine waits for a launch, the sequencer waits for its
   detection, unless the failsafe has just aborted it: then the call that
   follows takes the machine out of the wait.                               *)
Waiting  == BeforeDetection \cup {"DETECTED"}
Aborting == pc = "failsafe" \/ (pc \in InCall /\ call.caller \in {"failsafe", "abort"})
LaunchWaits == navState = "LAUNCH_WAIT" => launch \in Waiting \/ Aborting
MotorHeld   == pc = "rest" /\ armed /\ navState = "LAUNCH_WAIT" => motor \in {"STOP", "IDLE"}
LaunchInv   == LaunchWaits /\ MotorHeld

LEMMA LaunchWaitHears ==
  /\ OnEvent("LAUNCH_WAIT", "SUCCESS") # "UNDEFINED"
  /\ OnEvent("LAUNCH_WAIT", "TO_IDLE") # "UNDEFINED"
<1>1. "LAUNCH_WAIT" \in DOMAIN Successor /\ Successor["LAUNCH_WAIT"] = "LAUNCH_IN_PROGRESS"
  BY SuccessorDomain DEF Successor
<1>2. "LAUNCH_WAIT" \in NavState
  BY DEF NavState, Launching
<1> QED
  BY <1>1, <1>2, ToIdle, DestinationDomain DEF OnEvent

LEMMA LaunchEntry ==
  ASSUME NavTyped, LaunchInv, Entry
  PROVE  LaunchInv'
<1>1. PICK e : EntryReturns(e)
  BY EntryEvent
<1>2. Entered(e)
  BY <1>1 DEF EntryReturns
<1>3. \/ navState # "LAUNCH_INITIALIZE" /\ launch' = launch
      \/ navState = "LAUNCH_INITIALIZE" /\ launch' = "WAIT_THROTTLE"
      \/ navState = "LAUNCH_WAIT" /\ e = "SUCCESS" /\ launch' = "MOTOR_DELAY"
      \/ navState = "LAUNCH_WAIT" /\ e = "TO_IDLE" /\ launch' = "IDLE"
  BY <1>1, Zenon DEF EntryReturns
<1>4. /\ pc \in {"timeout", "inject"} /\ pc' \in InCall /\ call' = call
      /\ \/ OnEvent(navState, e) = "UNDEFINED" /\ navState' = navState
         \/ OnEvent(navState, e) # "UNDEFINED" /\ navState' = OnEvent(navState, e)
  BY <1>2, EnteredMoves DEF InCall
<1>5. MotorHeld'
  BY <1>4 DEF MotorHeld, InCall
<1>6. ASSUME navState' = "LAUNCH_WAIT" PROVE launch' \in Waiting \/ Aborting'
  <2>1. CASE OnEvent(navState, e) # "UNDEFINED"
    <3>1. navState = "LAUNCH_INITIALIZE"
      BY <1>4, <1>6, <2>1, Transition DEF NavTyped, MachineTyped
    <3> QED
      BY <1>3, <3>1 DEF Waiting, BeforeDetection
  <2>2. CASE OnEvent(navState, e) = "UNDEFINED"
    <3>1. navState = "LAUNCH_WAIT" /\ e \notin {"SUCCESS", "TO_IDLE"}
      BY <1>4, <1>6, <2>2, LaunchWaitHears
    <3>2. launch' = launch
      BY <1>3, <3>1
    <3> QED
      BY <1>4, <3>1, <3>2 DEF LaunchInv, LaunchWaits, Aborting, InCall
  <2> QED
    BY <2>1, <2>2
<1> QED
  BY <1>5, <1>6 DEF LaunchInv, LaunchWaits

LEMMA LaunchInject ==
  ASSUME NavTyped, LaunchInv, Inject
  PROVE  LaunchInv'
<1>1. /\ pc = "event" /\ pc' \in {"done", "inject"} /\ call'.caller = call.caller /\ launch' = launch
  BY DEF Inject, launchVars, NavTyped, CallTyped, Call
<1>2. navState' = "LAUNCH_WAIT" => navState = "LAUNCH_WAIT"
  BY InjectKeeps
<1> QED
  BY <1>1, <1>2 DEF LaunchInv, LaunchWaits, MotorHeld, Aborting, InCall

LEMMA LaunchOutside ==
  ASSUME NavTyped, AbortInv, LaunchInv, Outside
  PROVE  LaunchInv'
<1> USE DEF LaunchInv, LaunchWaits, MotorHeld, Aborting, InCall
<1>1. navState' = navState
  BY OutsideKeeps
<1>2. CASE ReturnToPidLoop
  <2>1. /\ pc = "done" /\ call.caller = "rx" /\ launch' = launch /\ pc' = "pid"
    BY <1>2 DEF ReturnToPidLoop
  <2> QED
    BY <1>1, <2>1
<1>3. CASE ReturnToFailsafe
  <2>1. \/ pc' = "failsafe"
        \/ pc = "done" /\ call.caller = "abort"
    BY <1>3 DEF ReturnToFailsafe
  <2> QED
    BY <1>1, <2>1 DEF AbortInv, AbortToIdle
<1>4. CASE PidStart
  <2>1. pc = "rest" /\ pc' = "pid" /\ launch' = launch
    BY <1>4, Zenon DEF PidStart
  <2> QED
    BY <1>1, <2>1
<1>5. CASE PidLoop
  <2>1. pc = "pid" /\ armed' = armed /\ pc' \in {"pid", "rest"}
    BY <1>5 DEF PidLoop, PidEnds
  <2>2. CASE UNCHANGED launchVars /\ (armed => navState # "LAUNCH_WAIT")
    BY <1>1, <2>1, <2>2 DEF launchVars
  <2>3. CASE \E in : (LaunchRound(in, TRUE) /\ pc' = pc) \/ LaunchRound(in, FALSE)
    <3>1. navState = "LAUNCH_WAIT" => launch \in Waiting
      BY <2>1
    <3>2. PICK again \in BOOLEAN : \E in : LaunchRound(in, again) /\ (again => pc' = pc)
      BY <2>3, Zenon
    <3>3. PICK in : LaunchRound(in, again) /\ (again => pc' = pc)
      BY <3>2
    <3>4. launch \in Waiting => /\ launch' \in Waiting
                                /\ ~again => motor' \in {"STOP", "IDLE"}
      BY <3>3, RoundTyped DEF NavTyped, Waiting
    <3> QED
      BY <1>1, <2>1, <3>1, <3>3, <3>4
  <2> QED
    BY <1>5, <2>2, <2>3, Zenon DEF PidLoop
<1>6. CASE Frame
  <2>1. PICK in \in Inputs : RxFrame(in)
    BY <1>6 DEF Frame
  <2>2. pc = "rest" /\ UNCHANGED launchVars /\ \E e : Begin(e, "rx", in)
    BY <2>1, Zenon DEF RxFrame
  <2>3. pc' \in {"timeout", "event"} /\ launch' = launch
    BY <2>2 DEF Begin, launchVars
  <2> QED
    BY <1>1, <2>2, <2>3
<1>7. CASE activateForcedRTH
  <2>1. \E e, in : Begin(e, "failsafe", in)
    BY <1>7, Zenon DEF activateForcedRTH
  <2> QED
    BY <2>1 DEF Begin
<1>8. CASE abortForcedRTH
  <2>1. pc' \in {"timeout", "event"} /\ call'.caller = "abort"
    BY <1>8 DEF abortForcedRTH, Begin
  <2> QED
    BY <2>1
<1>9. CASE ~abortForcedRTH /\ FailsafeWatches
  <2>1. navState \in Homecoming
    BY <1>9, Zenon DEF FailsafeWatches, Homecoming
  <2> QED
    BY <1>1, <2>1, StateNames DEF LaunchOnly, Launching
<1>10. CASE \/ ~abortForcedRTH /\ FailsafeRecovers
            \/ FailsafeDrops \/ FailsafeTakesOver \/ FailsafeLands
  <2>1. pc = "rest" /\ pc' = "rest" /\ UNCHANGED launchVars
    BY <1>10, Zenon DEF FailsafeRecovers, FailsafeDrops, FailsafeTakesOver, FailsafeLands, FailsafeRest
  <2>2. armed' = armed \/ armed' = FALSE
    BY <1>10, Zenon DEF FailsafeRecovers, FailsafeDrops, FailsafeTakesOver, FailsafeLands, FailsafeRest
  <2> QED
    BY <1>1, <2>1, <2>2 DEF launchVars
<1>11. CASE PositionChanges \/ Tick \/ UNCHANGED vars
  <2>1. UNCHANGED <<pc, call, armed, launchVars>>
    BY <1>11, Zenon DEF PositionChanges, Tick, vars, navVars, world
  <2> QED
    BY <1>1, <2>1 DEF launchVars
<1> QED
  BY <1>2, <1>3, <1>4, <1>5, <1>6, <1>7, <1>8, <1>9, <1>10, <1>11, Zenon DEF Outside

(* While the machine waits for a launch the pilot's throttle never reaches
   the motor, whichever way the sequencer goes back and forth.              *)
THEOREM MotorWaits ==
  NavSpec => []MotorWaitsForLaunch
<1>1. NavInit => LaunchInv /\ AbortInv
  BY DEF NavInit, LaunchInv, LaunchWaits, MotorHeld, AbortInv, NextIsTransient, AbortToIdle
<1>2. NavTyped /\ AbortInv /\ [NavNext]_vars => AbortInv'
  BY AbortStep
<1>3. NavTyped /\ AbortInv /\ LaunchInv /\ [NavNext]_vars => LaunchInv'
  BY LaunchEntry, LaunchInject, LaunchOutside, Steps
<1>4. LaunchInv => MotorWaitsForLaunch
  BY DEF LaunchInv, MotorHeld, MotorWaitsForLaunch
<1> QED
  BY <1>1, <1>2, <1>3, <1>4, AlwaysTyped, PTL DEF NavSpec
==============================================================================
