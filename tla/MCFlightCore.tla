---------------------------- MODULE MCFlightCore ----------------------------
EXTENDS FlightCore

Craft(boxes, options, faults) == [boxes |-> boxes, options |-> options, faults |-> faults]

(* Loss of the link, by the receiver and by the FAILSAFE switch.           *)
Switched == {Craft({"ARM", "FAILSAFE"}, {"DISARM_KILL_SWITCH"}, {"CALIBRATING"})}

(* A multirotor that arms by switches, and a plane that arms on throttle.  *)
Armings == {Craft({"ARM", "PREARM", "TURTLE"}, {"REVERSIBLE", "EMERGENCY", "STATS", "SAVES"}, {}),
            Craft({"LAUNCH", "NAV"},
                  {"AUTO_ARM", "EXTRA_ARMING_SAFETY", "ALLOW_BYPASS", "BAD_PULSES", "EMERGENCY"},
                  {"NO_FIX"})}

(* A logic condition overrides arming safety.                              *)
Overriding == {Craft({"ARM", "KILL"}, {"OVERRIDE", "STATS"}, {})}

Counting == {Craft({"ARM"}, {"STATS"}, {})}
=============================================================================
