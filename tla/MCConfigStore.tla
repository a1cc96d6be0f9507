----------------------------- MODULE MCConfigStore -----------------------------
EXTENDS ConfigStore

(* The first two firmwares differ in the layout of a group and in what they
   find sound, the third has another format.                               *)
MCFirmwares == {[format |-> 1, version |-> <<1, 1>>, unsound |-> {}],
                [format |-> 1, version |-> <<1, 2>>, unsound |-> {1}],
                [format |-> 2, version |-> <<1, 1>>, unsound |-> {}]}
================================================================================
