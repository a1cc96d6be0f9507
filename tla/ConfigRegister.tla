---------------------------- MODULE ConfigRegister ----------------------------
(***************************************************************************)
(* What the configuration store promises, without saying how: the flash    *)
(* holds one configuration as a whole, or none that is valid.  Outside a   *)
(* save it does not change.  A save replaces it by the new one and while   *)
(* it lasts the flash may be without a configuration; when a power cycle   *)
(* cuts it off, the flash may hold the new configuration, none, the old    *)
(* one, or that of a save that was cut off earlier.  The module is a       *)
(* specification of config/config_eeprom.h, implemented by ConfigStore.    *)
(***************************************************************************)
CONSTANTS Contents, Lost

VARIABLES
    stored,         \* the configuration in the flash, or Lost
    saving,         \* the configuration that is being saved, or Lost
    candidates      \* the last one that was saved or loaded, and those begun since

vars == <<stored, saving, candidates>>

Init == stored = Lost /\ saving = Lost /\ candidates = {}

Begin ==
    /\ saving = Lost
    /\ saving' \in Contents /\ candidates' = candidates \cup {saving'}
    /\ UNCHANGED stored

Store ==
    /\ saving # Lost
    /\ stored' \in candidates \cup {Lost}
    /\ UNCHANGED <<saving, candidates>>

End ==
    /\ saving # Lost /\ stored = saving
    /\ saving' = Lost /\ candidates' = {stored}
    /\ UNCHANGED stored

Load ==
    /\ saving = Lost /\ stored # Lost
    /\ candidates' = {stored}
    /\ UNCHANGED <<stored, saving>>

PowerCycle ==
    /\ saving' = Lost
    /\ UNCHANGED <<stored, candidates>>

Next == Begin \/ Store \/ End \/ Load \/ PowerCycle

Spec == Init /\ [][Next]_vars
===============================================================================
