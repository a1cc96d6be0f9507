------------------------------ MODULE MCNavFSM ------------------------------
EXTENDS NavFSM

Wp(action)  == [action |-> action, p1 |-> 0, p2 |-> 0]
Jump(to, n) == [action |-> "JUMP", p1 |-> to, p2 |-> n]
Of(kind, boxes, route) ==
    [kind |-> kind, boxes |-> boxes, launchFeature |-> FALSE, idleThrottle |-> FALSE,
     disarmOnLanding |-> FALSE, mission |-> route]

(* A mission with a jump back over a point of interest, and a landing.      *)
Survey == <<Wp("WAYPOINT"), Wp("SET_POI"), Wp("HOLD_TIME"), Jump(1, 1), Wp("LAND")>>
(* One that goes on for ever, one that flies home and one that just ends.    *)
Patrol == <<Wp("SET_HEAD"), Wp("WAYPOINT"), Wp("WAYPOINT"), Jump(2, -1)>>
Return == <<Wp("WAYPOINT"), Wp("RTH")>>
Errand == <<Wp("HOLD_TIME"), Wp("SET_POI"), Wp("SET_HEAD")>>

Fleet == {Of("MULTIROTOR", {"WP", "RTH", "POSHOLD", "MANUAL"}, Survey),
          Of("AIRPLANE", {"WP", "CRUISE", "COURSEHOLD", "ALTHOLD"}, Patrol),
          [Of("ROVER", {"WP", "RTH"}, Return) EXCEPT !.disarmOnLanding = TRUE],
          Of("ROVER", {"WP"}, Errand),
          [Of("AIRPLANE", {"LAUNCH", "RTH"}, <<>>) EXCEPT !.idleThrottle = TRUE],
          [Of("AIRPLANE", {}, <<>>) EXCEPT !.launchFeature = TRUE]}

(* The same behaviours one by one, for the liveness run.                    *)
Trials == {Of("MULTIROTOR", {"RTH"}, <<>>), Of("MULTIROTOR", {"WP"}, Survey),
           Of("ROVER", {"WP"}, Patrol), Of("AIRPLANE", {"CRUISE", "COURSEHOLD", "ALTHOLD"}, <<>>),
           [Of("AIRPLANE", {}, <<>>) EXCEPT !.launchFeature = TRUE]}

Switches == {{}, {"ALTHOLD"}, {"POSHOLD"}, {"CRUISE"}, {"COURSEHOLD"}, {"COURSEHOLD", "ALTHOLD"},
             {"RTH"}, {"WP"}, {"WP", "MANUAL"}, {"LAUNCH"}, {"LAUNCH", "RTH"}}
Losses      == {{}, {"HEADING"}, {"ALTITUDE"}}
CompassLoss == {{}, {"HEADING"}}
=============================================================================
