----------------------------- MODULE ConfigStore -----------------------------
(***************************************************************************)
(* The configuration store (config/config_eeprom.c, config_streamer.c and  *)
(* the flash drivers behind it, fc/config.c): one copy of the parameter    *)
(* groups in the flash of the processor, read at boot and written word by  *)
(* word over the old copy, a page being erased when the first of its words *)
(* is reached.  Errors of the flash, worn cells, power cycles at any step  *)
(* and the installation of another firmware are modelled.                  *)
(*                                                                         *)
(* A record is one word: a record of which only a part is in the flash     *)
(* stands for a garbled one.  The checksum is ideal: it is the words it    *)
(* was computed from.  Groups are numbers in the order of PG_FOREACH, and  *)
(* the profiles of a group are groups of their own.                        *)
(***************************************************************************)
EXTENDS Integers

CONSTANTS
    NumGroups,      \* parameter groups
    Values,         \* the settings of a group
    Default,        \* those of a reset
    Firmwares,      \* [format : EEPROM_CONF_VERSION, version : pgVersion() of each group,
                    \*  unsound : the settings validateAndFixConfig() replaces]
    PageWords,      \* words of a flash page
    Worn,           \* places with a worn cell, which may come out wrong without an error
    Attempts,       \* 3: how often a save is tried
    MaxInstalls     \* bound of the model: how often another firmware is installed

Groups == 1 .. NumGroups
Footer == NumGroups + 1
Last   == NumGroups + 2             \* the place of the checksum
Places == 0 .. Last

ASSUME ConfigAssumption ==
    /\ NumGroups \in Nat /\ PageWords \in Nat \ {0} /\ Worn \subseteq Nat /\ Attempts \in Nat \ {0} /\ MaxInstalls \in Nat
    /\ Default \in Values /\ Firmwares # {}
    /\ Firmwares \subseteq [format : Nat, version : [Groups -> Nat],
                            unsound : SUBSET (Values \ {Default})]

VARIABLES
    flash,          \* the words from __config_start
    settings,       \* the parameter groups in RAM
    firmware, installs,
    pc,             \* what the processor does: boot, write, program, read, idle, dead
    after,          \* what follows the save: read or idle
    at, err,        \* config_streamer_t: the next word, and whether one has failed
    attempt,
    target,         \* the words of the save that is under way
    candidates      \* history: those of the last finished save and of all begun since

vars == <<flash, settings, firmware, installs, pc, after, at, err, attempt, target, candidates>>

Lost    == <<"none">>
Erased  == <<"erased">>
Garbled == <<"garbled">>
Defaults == [g \in Groups |-> Default]

Checksum(words) == <<"crc", [i \in 0 .. Footer |-> words[i]]>>

(* The words writeSettingsToEEPROM() of firmware f writes for config.       *)
Body(f, config) ==
    [i \in 0 .. Footer |-> IF i = 0 THEN <<"header", f.format>>
                           ELSE IF i = Footer THEN <<"footer">>
                           ELSE <<"record", i, f.version[i], config[i]>>]
Image(f, config) ==
    [i \in Places |-> IF i = Last THEN Checksum(Body(f, config)) ELSE Body(f, config)[i]]
Images == {Image(f, config) : f \in Firmwares, config \in [Groups -> Values]}
Words  == {Erased, Garbled} \cup {image[i] : image \in Images, i \in Places}

(* isEEPROMContentValid(): the scan ends at the footer and gives up at an
   erased word, whose size is too big.  Its mutant does not compare the
   checksum.                                                               *)
ScanEnds(words) ==
    /\ words[0][1] = "header" /\ words[Footer][1] = "footer"
    /\ \A g \in Groups : words[g][1] = "record"
ScanOnly(words) == ScanEnds(words)
Whole(words)    == ScanEnds(words) /\ words[Last] = Checksum(words)
isEEPROMContentValid == Whole(flash) /\ flash[0] = <<"header", firmware.format>>

ConfigTypeOK ==
    /\ flash \in [Places -> Words] /\ settings \in [Groups -> Values] /\ firmware \in Firmwares
    /\ pc \in {"boot", "write", "program", "read", "idle", "dead"} /\ after \in {"read", "idle"}
    /\ at \in 0 .. Last + 1 /\ err \in BOOLEAN /\ attempt \in 1 .. Attempts
    /\ installs \in 0 .. MaxInstalls
    /\ target \in Images \cup {Lost} /\ candidates \subseteq Images

Init ==
    /\ flash = [i \in Places |-> Erased]
    /\ settings = Defaults /\ firmware \in Firmwares /\ installs = 0
    /\ pc = "boot" /\ after = "read"
    /\ at = 0 /\ err = FALSE /\ attempt = 1
    /\ target = Lost /\ candidates = {}
-----------------------------------------------------------------------------
(* writeConfigToEEPROM() begins.                                            *)
BeginSave(next) ==
    /\ pc' = "write" /\ after' = next
    /\ at' = 0 /\ err' = FALSE /\ attempt' = 1
    /\ target' = Image(firmware, settings')
    /\ candidates' = candidates \cup {target'}
    /\ UNCHANGED <<flash, firmware, installs>>

(* ensureEEPROMContainsValidData()                                          *)
Boot ==
    /\ pc = "boot"
    /\ IF isEEPROMContentValid
       THEN /\ pc' = "read"
            /\ UNCHANGED <<flash, settings, firmware, installs, after, at, err, attempt, target, candidates>>
       ELSE /\ settings' = Defaults
            /\ BeginSave("read")

(* readEEPROM(): pgLoad() takes a record of the version of its group, and
   validateAndFixConfig() replaces what the firmware cannot use.           *)
Fixed(value) == IF value \in firmware.unsound THEN Default ELSE value
Loaded(words) ==
    [g \in Groups |-> IF words[g][1] = "record" /\ words[g][3] = firmware.version[g]
                      THEN Fixed(words[g][4]) ELSE Default]
ReadEEPROM ==
    /\ pc = "read"
    /\ settings' = Loaded(flash)
    /\ candidates' = {flash}
    /\ pc' = "idle"
    /\ UNCHANGED <<flash, firmware, installs, after, at, err, attempt, target>>

(* The pilot changes a setting.                                             *)
Change ==
    /\ pc = "idle"
    /\ \E g \in Groups, v \in Values : settings' = [settings EXCEPT ![g] = v]
    /\ UNCHANGED <<flash, firmware, installs, pc, after, at, err, attempt, target, candidates>>

(* writeEEPROM(), saveConfigAndNotify(), which reads back, and resetEEPROM(). *)
Save ==
    /\ pc = "idle"
    /\ settings' \in {settings, Defaults}
    /\ \E next \in {"idle", "read"} : BeginSave(next)
-----------------------------------------------------------------------------
(* config_streamer_impl_write_word().  The page of the word is erased when
   the word is its first; a page whose erasure fails keeps its words or
   loses them.                                                             *)
PageOf(place) == {i \in Places : i \div PageWords = place \div PageWords}
Wiped(word)   == [i \in Places |-> IF i \in PageOf(at) THEN word ELSE flash[i]]
EraseSector ==
    /\ pc = "write" /\ ~err /\ at <= Last /\ at % PageWords = 0
    /\ \/ flash' = Wiped(Erased) /\ pc' = "program" /\ UNCHANGED err
       \/ flash' \in {flash, Wiped(Garbled)} /\ err' = TRUE /\ UNCHANGED pc
    /\ UNCHANGED <<settings, firmware, installs, after, at, attempt, target, candidates>>

(* A word is programmed, it is not and the flash says so, or, in a worn cell,
   it is not and the flash does not.                                       *)
Programmed(word) == [flash EXCEPT ![at] = IF @ = Erased THEN word ELSE Garbled]
ProgramWord ==
    /\ \/ pc = "program"
       \/ pc = "write" /\ ~err /\ at <= Last /\ at % PageWords # 0
    /\ pc' = "write"
    /\ \/ /\ \/ flash' = Programmed(target[at])
             \/ at \in Worn /\ flash' = Programmed(Garbled)
          /\ at' = at + 1 /\ UNCHANGED err
       \/ /\ flash' \in {Programmed(target[at]), Programmed(Garbled)}
          /\ err' = TRUE /\ UNCHANGED at
    /\ UNCHANGED <<settings, firmware, installs, after, attempt, target, candidates>>

(* config_streamer_finish(), and the loop of writeConfigToEEPROM(): try
   again after an error, look at what is in the flash after a success, and
   failureMode() when there is no way to go on.  The mutants do not look, try
   once too often, and do not count.                                       *)
Unchecked  == ~err
OneMore    == err /\ attempt <= Attempts
NotCounted == UNCHANGED attempt
MayRetry == err /\ attempt < Attempts
Counted  == attempt' = attempt + 1
Succeeded == ~err /\ isEEPROMContentValid
FinishAttempt ==
    /\ pc = "write" /\ (err \/ at > Last)
    /\ at' = 0 /\ err' = FALSE
    /\ \/ /\ Succeeded
          /\ pc' = after /\ after' = "read" /\ attempt' = 1
          /\ candidates' = {target} /\ target' = Lost
       \/ /\ MayRetry
          /\ Counted
          /\ UNCHANGED <<pc, after, target, candidates>>
       \/ /\ ~Succeeded /\ ~MayRetry
          /\ pc' = "dead"
          /\ UNCHANGED <<after, attempt, target, candidates>>
    /\ UNCHANGED <<flash, settings, firmware, installs>>

(* The power fails, or the pilot has had enough of the blinking LED.  A word
   or a page that was being written is as after an error.  The firmware may
   be another one afterwards.                                              *)
PowerCycle ==
    /\ pc' = "boot" /\ after' = "read"
    /\ settings' = Defaults                 \* RAM, before it is loaded
    /\ \/ UNCHANGED <<firmware, installs>>
       \/ firmware' \in Firmwares /\ installs < MaxInstalls /\ installs' = installs + 1
    /\ at' = 0 /\ err' = FALSE /\ attempt' = 1
    /\ target' = Lost
    /\ UNCHANGED <<flash, candidates>>

Write    == EraseSector \/ ProgramWord \/ FinishAttempt
Next     == Boot \/ ReadEEPROM \/ Change \/ Save \/ Write \/ PowerCycle
Spec     == Init /\ [][Next]_vars
FairSpec == Spec /\ WF_vars(Boot \/ ReadEEPROM \/ Write)
-----------------------------------------------------------------------------
Stored == IF Whole(flash) THEN flash ELSE Lost

(* A save that has returned is durable: whatever errors it met, the flash
   holds the configuration that was saved as a whole, and holds it until
   the next save begins.                                                   *)
SaveIsDurable ==
    /\ pc \in {"idle", "read"} => Whole(flash)
    /\ pc = "idle" => candidates = {flash}

(* What a boot loads is one configuration, group by group where the firmware
   has not changed its layout: that of the last finished save, or of one
   that was begun since and cut off.  It is never one that a later save had
   replaced, and never some groups of one and some of another.             *)
LoadIsWhole ==
    [][pc = "read" /\ pc' = "idle" => \E words \in candidates : settings' = Loaded(words)]_vars

(* The store implements the register.                                       *)
Saving == IF pc \in {"write", "program", "dead"} THEN target ELSE Lost
Register == INSTANCE ConfigRegister WITH
                Contents <- Images, stored <- Stored, saving <- Saving
RegisterSpec == Register!Spec

(* A save ends, also on a flash that fails for ever.                        *)
SaveEnds == pc = "write" ~> pc \in {"idle", "dead", "boot"}
==============================================================================
