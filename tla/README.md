# A verification of the flight-critical state machines of this firmware

The repository is a flight controller for multirotors and airplanes (the INAV
branch of Cleanflight): C code for a microcontroller, run by a cooperative
scheduler without preemption. This project models the part of it that decides
whether the motors may turn and who flies the craft (the receiver, failsafe,
arming, the navigation state machine, the fixed-wing launch), and the two
parts that keep data over a power cycle: the configuration store and the black
box on its flash file system.

Contents: 1 the system, 2 the modules, 3 correspondence with the code, 4 the
runs, 5 bounds, 6 fairness, 7 the proofs, 8 what the checks found, 9 what is
not modelled, 10 the plan.

## 1. The system

### Components

| component | state | operations | who it talks to |
|---|---|---|---|
| receiver (`rx/rx.c`) | signal flag and its deadline, per-channel value and hold deadline, "data required" and "auxiliary required" flags, samples to skip | `rxUpdateCheck` (check function of the RX task), `calculateRxChannelsAndUpdateFailsafe` (start of the task), `suspendRxSignal`, `resumeRxSignal` | a driver's frame callback; failsafe hears of every sample |
| RX link tracker (`flight/failsafe.c:300-340`) | link UP or DOWN, times of the last good and the last bad sample | valid data received, valid data failed, suspend, resume, reset | called by the receiver and by every access to the EEPROM |
| failsafe phase machine (`flight/failsafe.c:380-572`) | phase, active, controlling, procedure, three deadlines, FAILSAFE_MODE, the arming lock | `failsafeUpdateState` once per RX pass, start of monitoring, reset | reads the link, arming, sticks, modes, navigation; disarms, locks arming, forces RTH |
| arming (`fc/fc_core.c`) | ARMED, the ARMING_DISABLED flags, prearm, bypass, last disarm reason | `updateArmingStatus` (both tasks), `tryArm`, `disarm` | asked by switches, failsafe, navigation |
| switches (`fc/rc_controls.c`, `fc/rc_modes.c`) | active modes, time of the last trusted ON | `processRcStickPositions`, `updateActivatedModes` | at the end of every RX pass |
| emergency arming (`fc/fc_core.c:106-119, 356-369, 458-499`) | a queue of relative byte times of switch flips | `emergencyArmingUpdate`, `emergencyArmingIsTriggered` | every RX pass |
| navigation state machine (`navigation/navigation.c`) | state, the time it was last processed, modes, active waypoint and jump counters, forced RTH, what may be activated | `navProcessFSMEvents` with an event from switches, failsafe, time-outs and entry functions | after every RX frame and from failsafe; disarms after a landing |
| fixed-wing launch (`navigation/navigation_fw_launch.c`) | state, time of entry, state of the motor | one round of handlers per PID loop; reset, release, abort | navigation, sticks |
| configuration store (`config/`, `fc/config.c`) | the parameter groups in RAM, the words in flash | boot, load, save with retries, reset | suspends and resumes the receiver around flash accesses |
| statistics (`fc/stats.c`) | totals | a save at disarm | configuration store |
| flash file system (`io/flashfs.c`) | a ring buffer, the address behind the last stored byte, the chip | write, flush, erase, search for free space | black box, MSP |
| black box (`blackbox/`) | state of the log, place in the header, header budget, iteration | start, finish, update in every PID loop, events | arming, flash file system |
| scheduler (`scheduler/scheduler.c`) | task queue, dynamic priorities | `scheduler` | everything |
| MSP over serial (`msp/msp_serial.c`) | parser state per port | process byte, reply | configuration |
| video transmitters, camera (`io/vtx*.c`, `io/rcdevice*.c`) | queues of commands and responses | tick, command, answer | serial ports |
| MSP override (`rx/msp_override.c`) | a second receiver with its own deadlines | check, calculate, override channels | receiver |
| sensors, estimators, PID, mixer, OSD, telemetry, drivers | numeric and device state | | |

`PROJECT.json` lists all of them with what is modelled or why it is not.

### How the flight-critical parts interact

Two tasks share all of this state. There is no preemption between them, so one
task body is atomic with respect to the other; but a task body calls many
modules in a fixed order, and some of those calls come back.

    RX task     rxUpdateCheck ... processRx:
                  calculateRxChannels --> link tracker
                  [reversible motors: disarm on the OLD modes]
                  failsafeUpdateState   (new sticks, OLD modes)
                    may disarm --> statistics --> EEPROM --> resume RX --> link UP
                    may force an RTH --> navigation machine, at once
                  processRcStickPositions  (OLD modes)
                    arm / disarm / kill switch --> black box
                  updateActivatedModes     (new modes)
    PID task    updateArmingStatus; after an RX frame the navigation machine
                --> may disarm, may end a forced RTH; launch; black box
    others      configuration saves: failsafeReset, resume RX;
                MSP: reads and erases the flash chip

### What is hard

* The locals of `failsafeUpdateState()` are read once and survive iterations of
  its loop that change what they were read from.
* Failsafe works on the channels of this pass and the modes of the one before.
* A disarm can write the EEPROM, and every EEPROM access declares the link up.
* Every blocker is recomputed by two tasks; the arming switch is only "sticky"
  because it is the last one; prearm and the disarm delay are time-outs.
* Loss, recovery, time-out, switch and landing may fall into the same pass.
* Deadlines are compared as plain unsigned numbers in several places.
* An event of the navigation machine runs entry functions in a loop, and a
  time-out runs such a loop just before the event; failsafe calls the machine
  from the middle of its own pass and asks what became of the call.
* A mission is data that decides what the machine does next: jumps, ends and
  waypoints that are no places.
* The launch sequencer and the navigation machine wait for each other.
* A save may fail at every word, three times, or be cut off, and what is then
  in the flash is all that the next boot has.
* The logger writes faster than a busy chip takes it, into a ring that drops
  everything when it overflows, while MSP may erase the chip.

`PROJECT.json` has the full list under `hazards`, each at its line, with the
properties that cover it or the reason none does.

### What makes each component correct

* Receiver: silence, a receiver's own failsafe bit and a broken flight channel
  take the link down in bounded time; a good signal brings it up; old frames
  never pass for new data.
* Failsafe: phase, flags and lock tell one story; a loss is always answered;
  control goes back only on a good link; the loop of a pass ends; a pilot who
  is back gets the craft.
* Arming: nothing arms on silence; a refused switch does not arm later by
  itself; the lock cannot be overridden by emergency arming or turtle mode;
  prearm is fresh; one frame does not disarm; the pilot can always disarm in
  the end.
* Emergency arming: ten deliberate flips in ten seconds, nothing else.
* Navigation: a mission flies only to places; a forced RTH is flown whatever
  else happens, and leaves nothing behind when failsafe ends it; a lost
  position ends what needs one; every call returns.
* Launch: the motor stays with the sequencer until the throw is over.
* Configuration store: a save that returned is there after any power cycle; a
  boot loads one configuration, never a mixture.
* Black box: what is stored is in order, the header comes first and complete,
  and a decoder finds an I frame where it starts.

## 2. The modules

    RcAuthority                what failsafe promises (abstract)
        ^ implemented by
    RxLink <-- Failsafe <-- FlightCore          EmergencyArming
       ^           ^             ^                    ^
    RxSignal   FailsafeProofs  FlightProofs     EmergencyProofs
       ^       MCFailsafe      MCFlightCore     MCEmergencyArming
    RxSignalProofs
    MCRxSignal

    FwLaunch <-- NavFSM <-- NavProofs, MCNavFSM

    FlashFS <-- Blackbox <-- BlackboxProofs, MCBlackbox
       ^                          |
    FlashProofs <-----------------+

    ConfigRegister             what a store promises (abstract)
        ^ implemented by
    ConfigStore <-- ConfigProofs, MCConfigStore

FlightProofs also extends FailsafeProofs.

* **RxLink**: the link tracker alone, as operators on three variables, so that
  both `Failsafe` and `RxSignal` use the same one. It also says how time is
  kept: a deadline as the ticks left, a timestamp as its age, both saturating
  just past the last value the code can tell apart.
* **Failsafe**: the phase machine. One action is one iteration of the loop in
  `failsafeUpdateState()`; the locals of the function are the record `pass`.
  Everything the rest of the firmware may do to this state between two passes
  is an action of its own (`Arm`, `DisarmElsewhere`, `Navigate`,
  `failsafeReset`, `EepromWrite`, `Tick`), as weak as the code allows.
* **RcAuthority**: three variables (who has the sticks, are the motors armed, is
  the link up) and the contract between them. `Failsafe` implements it under
  the mapping `Owner`.
* **FlightCore**: extends `Failsafe` with the RX task, the switches, arming and
  the PID task. It replaces the free environment of `Failsafe` by the real one,
  and is checked to implement `Failsafe` (`FailsafeSpec`): the environment that
  the proofs assume is one the firmware really provides.
* **RxSignal**: the receiver side. Frames, failsafe bits, invalid pulses and
  a task that runs later than its check.
* **EmergencyArming**: the queue of flips with its unsigned arithmetic.
* **NavFSM**: the navigation machine. The table is a set of operators
  (`Accepts`, `OnEvent`, `MappedModes`), one entry function is one action, and
  `pc` says where in `navProcessFSMEvents()` the program is. The callers of the
  machine are actions: an RX frame, failsafe's forcing and aborting of an RTH,
  the PID loop. Failsafe is kept as what it is doing to the craft
  (`failsafe`): off, flying home, landing, landed.
* **FwLaunch**: the launch sequencer, as operators that `NavFSM` calls from its
  entry functions and from the PID loop.
* **FlashFS**: the ring buffer and the chip as one record, each function of
  `flashfs.c` an operator on it. A byte is its number in the order of writing,
  so that lost, repeated and misplaced bytes can be told apart.
* **Blackbox**: the logger on that file system. One write is one step, since
  the chip may become ready between two writes of a call; `todo` holds the
  writes of the current call that are still to come.
* **ConfigStore**: the configuration in the flash of the processor; one word,
  one erasure and one end of an attempt is a step each.
* **ConfigRegister**: what it promises. Outside a save the contents do not
  change; a save replaces them by the new ones; one that is cut off leaves the
  new, the old, none, or those of an earlier save that was cut off.
* **FailsafeProofs**, **FlightProofs**, **RxSignalProofs**, **EmergencyProofs**,
  **NavProofs**, **FlashProofs**, **BlackboxProofs**, **ConfigProofs**: the
  theorems and their lemmas (section 7).

## 3. Correspondence with the code

`PROJECT.json` maps every definition to its lines. The conventions:

* Names are those of the source where TLA+ allows (`failsafeActivate`,
  `updateArmingStatus`, `tryArm`, `UsesBypass` for `*usedBypass = true`).
  A case of the phase switch with several outcomes is several actions, one per
  outcome: `IdleWatching`, `IdleJustDisarm`, `IdleLossDetected`,
  `IdleDisarmed` are the four ways through `case FAILSAFE_IDLE`. States of the
  navigation and of the black box have the names of the enumerations without
  their prefixes.
* Values become what the code compares them for. A channel is "in the range of
  box B", "above min_check", "moved by more than failsafe_stick_motion_threshold".
  A sensor check may fail at any evaluation. A position estimate is trusted,
  usable, lost or lost for longer than `nav_position_timeout`. Whether a waypoint
  is reached, a landing detected or a climb over is a free choice between the
  events the entry function may return.
* A sample, a frame, a reading of the sensors and the position of a switch are
  inputs: they are chosen freely at the moment the code reads them, and kept
  afterwards as long as the code keeps them. `NavFSM` fixes the inputs that the
  state it is in does not read, which changes nothing but the number of states.
* A frame and a sample are different things. The RX task samples at 50 Hz what
  the driver holds, a new frame or the old one, for as long as the signal is
  believed, and holds the last value of a channel whose pulse is not valid. So
  a valid sample of FlightCore either brings a new frame or shows the last one again
  (`SampleValid`), and the histories of the arming switch count frames only.
* `micros()` is a number that wraps. The two times that the code compares with
  it as plain numbers, `needRxSignalBefore` and `suspendRxSignalUntil`, are
  numbers in RxSignal as well; `rxNextUpdateAtUs`, which it compares by
  difference, and the `millis()` of a channel's `expiresAt` are ticks left.
* `task` in FlightCore, and `pc` in the other modules, is where the CPU is in a
  task body. Nothing but the body (and in `Blackbox` the chip, in `ConfigStore`
  the power) moves while they are not at rest.
* `disarm()` saves statistics only when they are on and the flight was long
  enough, so the write is a choice when `STATS` is among the options.
* The value `ReloadWhileActive` says whether a configuration may be reloaded
  while failsafe is active. The code does not forbid it (section 8); the
  properties of failsafe are stated for a craft on which it does not happen.

Definitions that are marked "a mutant" are broken versions of the definition
after them. No specification uses them; they exist to show that each property
fails when the code is changed the way a plausible bug would change it.

History variables record what a property speaks about and the code does not
keep: for how long no valid sample came (`silentFor`), which switches were seen
off since the last disarm (`seenOff`), for how long PREARM has been on
(`prearmOnFor`), whether arming was refused since the switch went on
(`refused`), how many frames switched off and for how long the last of them has
been sampled (`offFrames`, `offAge`), for how long every pass of a quarantine
saw a good link (`linkGoodFor`), that the clock has wrapped over a deadline or a
resume (`deadlineMissed`, `samplesStopped`), the times of all flips (`edges`), the first and last byte of a log's header
(`header`), whether an I frame was written since logging began (`intra`), the
configurations a boot may find (`candidates`). No guard reads them.

## 4. The runs

Ten runs pass, two end in the violation that a finding describes (section 8).

| run | what is in it | properties |
|---|---|---|
| `failsafe` | the phase machine with every procedure, every interleaving of link reports, arming, navigation, saves, time | `PhaseConsistent`, `LossIsAnswered`, `AuthoritySpec` (refinement of RcAuthority), `PassTerminates`, `FailsafeEnds` |
| `flight_core` | RX task, ARM and FAILSAFE switches, DROP and RTH, a calibrating sensor | `FlightTypeOK`, `SilenceIsAnswered`, `ForcedRTHIsFailsafe`, `ArmingNeedsData`, `ArmingIsDeliberate`, `OneFrameCannotDisarm`, `QuarantineIsServed`, `FailsafeSpec` (refinement of Failsafe) |
| `flight_arming` | a multirotor with prearm and its time-out, turtle mode, emergency arming, reversible motors, statistics, saves; a plane that arms on throttle, with navigation and launch switches, no fix and its bypass, emergency arming, bad pulses | `LockKeepsDisarmed`, `PrearmBeforeArming` |
| `flight_live` | kill switch, override by a logic condition, statistics, under fairness | `PilotCanDisarm` |
| `emergency_queue` | every sequence of flips from the end of the first window of uptime on | `QueueIsHistory`, `TriggeredIsDeliberate`, `LoopEnds` |
| `rx_signal` | every sequence of frames, failsafe bits, bad pulses, saves, late tasks, a clock that wraps anywhere among them | `SilenceIsDetected`, `BrokenChannelIsDetected`, `RecoveryIsDetected`, `DataIsNotStale` |
| `nav` | six crafts (multirotor, planes, rovers; four missions; launch by switch and by feature) with the switches of each, lost headings, altitudes and positions, failsafe | `NavTypeOK`, `ActiveWaypointIsGeo`, `ForcedRTHIsFlown`, `AbortedRTHIsIdle`, `MotorWaitsForLaunch` |
| `nav_live` | the same behaviours one by one, under fairness | `EntryLoopEnds`, `PositionLossIsAnswered` |
| `blackbox` | logs on a small chip that is slow or fast at every write, with armings, pauses, events, reads, erasures and power cycles | `BlackboxTypeOK`, `LogIsInOrder`, `HeaderIsWhole`, `IntraframeFirst`, `HeaderEnds` |
| `config` | saves and boots with errors, a worn cell, power cycles, three firmwares | `ConfigTypeOK`, `SaveIsDurable`, `LoadIsWhole`, `RegisterSpec` (refinement of ConfigRegister), `SaveEnds` |
| `emergency_boot` | `emergency_queue` from power-up | `LoopEnds` is violated |
| `rearm_on_silence` | RTH, navigation disarm, statistics | `ArmingNeedsData` is violated |

What the passing runs show, in order of importance:

* *A loss is answered.* No pass that sees the link gone ends with the motors on
  and the pilot's dead sticks in charge (`LossIsAnswered`), and with the whole RX task
  around it an armed craft is in the hands of failsafe at the latest one sample
  period after the guard time (`SilenceIsAnswered`).
* *An RTH that failsafe asks for is flown.* Whatever the switches, the launch,
  the estimates and the time-outs do, an armed craft with a forced RTH is on its
  way home or in an emergency landing once failsafe has looked
  (`ForcedRTHIsFlown`), the request ends with the failsafe that made it
  (`ForcedRTHIsFailsafe`), and ending it leaves the machine in IDLE, even when
  a time-out ran just before (`AbortedRTHIsIdle`).
* *Arming is deliberate.* Nothing arms on silence (with the statistics off), a switch that was
  refused has to be moved again, prearm has to be off and on again between two
  flights and is good for its time-out only, and emergency arming and turtle
  mode never pass the lock.
* *The lock is served.* It goes only after every pass for longer than the
  quarantine of the procedure that set it saw a good link
  (`QuarantineIsServed`): a link that comes and goes starts it again.
* *A disarm is confirmed.* The arming switch disarms only on two OFF frames, or
  on one that was sampled for longer than `switch_disarm_delay`
  (`OneFrameCannotDisarm`). The second case is a weakness of the code (section
  8), and `offFrames = 2` alone is violated by it.
* *One story.* Phase, `active`, `controlling`, FAILSAFE_MODE and the arming lock
  agree at every step, the steps inside a pass included.
* *A mission flies to places only.* The `UNREACHABLE()` cases of the waypoint
  states are unreachable for every mission that passes the arming check
  (`ActiveWaypointIsGeo`), and a mission never keeps a call from returning
  (`EntryLoopEnds`): a jump ends the loop, and its target is looked at 10 ms later.
* *A lost position is answered* in the states that need it, within the 10 ms
  rhythm of the machine, and no sequence of RX frames can starve the time-out
  (`PositionLossIsAnswered`).
* *A launch is safe to wait for.* Between the entry of LAUNCH_WAIT and the throw
  the motor is stopped or idle, not the pilot's (`MotorWaitsForLaunch`).
* *Settings survive.* A save that returns is in the flash as a whole
  (`SaveIsDurable`); a boot loads the last finished save or one begun since, as
  a whole (`LoadIsWhole`), whatever was cut off or written wrongly in between.
* *A log can be read.* What is stored is a part of what was written, in
  order, even over power cycles and erasures in the middle of a log
  (`LogIsInOrder`); the header is on the chip before the first frame
  (`HeaderIsWhole`); the first frame after a start or a pause is an I frame.
* *Nothing hangs.* The loop of a failsafe pass, the quarantine, the queue of
  the emergency arming, the header of a log and a save end; the pilot can
  always disarm in the end.
* *The receiver.* The time-outs add up: silence and broken flight channels are
  found within `SignalAge + RxDataFailurePeriod + Late` ticks (`Hold` in
  place of `SignalAge` for a channel), recovery within
  `RxDataRecoveryPeriod + Late`. `SignalAge` is `SignalTimeout` and the tick of
  the check. The two plain comparisons with the clock are exceptions that the
  properties name: silence is not found while `deadlineMissed` (the clock
  wrapped over the deadline of a signal), nothing is found while
  `samplesStopped` (it wrapped over a resume). With either of them dropped TLC
  finds the violation. A signal that ends too early near the wrap is back with
  its next frame, so the recovery needs no exception.

## 5. Bounds, and why they are enough

* **Time.** No counter of time grows: deadlines saturate at -1, ages at one past
  the period. A period of 1 separates "before", "at" and "after" it, which is
  all that `>` tells apart. 0 turns an optional time-out off. Where two periods
  race, they differ (in `flight_core` the quarantines, 2 after a drop and 3 after
  an RTH, are longer than the guard time, 1, as with the defaults in the code).
* **Failsafe.** All four procedures; the locals of a pass are all combinations
  the code can compute. The short and the long quarantine are told apart only
  in the code that sets them, so 1 and 2.
* **FlightCore** multiplies the switches, the options and the histories. A run
  has a set of `Setups`, each the boxes, options and failing sensors of one
  craft; a behaviour flies one of them. The split follows what can
  interact: statistics and saves change the link only and go with prearm and
  the lock; navigation and launch switches go with the airplane that arms on
  throttle; the FAILSAFE switch goes with link properties. One sensor check
  is kept of those emergency arming overrides (`NO_FIX`) and
  one of those it does not (`CALIBRATING`): the code treats
  all of a kind alike. `NOT_LEVEL`, of the first kind, is there for other
  instances. A history that no property of a run reads is switched off by `Histories`.
* **RxSignal.** Two flight channels (one broken, one good) and one auxiliary
  one. `RxDataFailurePeriod` = 4 is longer than the longest gap between two
  samples, `Late` = 3, as 1000 ms is longer than the 20 ms of `DELAY_50_HZ`
  plus a task that is late. The clock goes from 0 to `LastTime` = 13 and starts again:
  a lap is longer than `SilenceLatency`, 10, so a deadline missed at a wrap
  is believed for longer than any bound. The proofs need `SignalTimeout <
  LastTime` only. `micros()` wraps after 71 minutes, often in a session;
  the wrap of `millis()` after 49 days is outside.
* **EmergencyArming.** Slots 9, window 10 s, step 100 ms, byte 256 are scaled to
  3, 10, 2, 8, keeping the inequality the code's comment relies on
  (`Window \div Step < ByteModulus`); the clock is bounded by `LastPass`, four
  windows, so that the queue fills, ages and refills. The clock's own wrap
  after 49 days is outside the bound.
* **NavFSM.** Six crafts; among their missions are one with every
  kind of waypoint and a counted jump, one that goes round for ever,
  one that flies home and one that simply ends. `Switchings` are the positions of
  the switches between any two passes, without a rule on their order; a craft
  moves only the switches it has. The time-outs are 1 unit (10 ms, everything
  that is re-processed) and `HoverDelay` = 2 for the hover before landing,
  the only longer one. `nav_extra_arming_safety` is not OFF, so that a mission
  has passed the check of its jumps (`JumpsAreValid`); that check has no lower
  bound, and missions with a JUMP to number 0 are left out
  (`JumpsHaveTargets`, section 8). `nav_rth_climb_ignore_emerg` is OFF; the mission does not change in flight, as uploads are refused while
  armed; the calls of failsafe see the launch switch of the last frame.
* **FlashFS, Blackbox.** Lengths are divided by 16 or more, with the
  inequalities kept that the code relies on: the ring (6 usable) is longer than
  the flush threshold (3) and holds at most a page (6), a header chunk (3) fits
  in both the ring and the budget, and the accumulated budget (8) is larger
  than the ring. The chip has six pages, so logs meet its end; `MaxStart` and
  `MaxBytes` keep a log from starting or going on forever, and `MaxEvents` = 3 bounds armings,
  moves of the switch, events, reads, erasures and power cycles together: the
  shortest behaviours that mix two disturbances with a log fit in it. Only the flash
  chip is modelled as a device; a page program is not cut in the middle by a
  power cycle; the logging switch moves while frames are logged (only then is it
  read); the last chunk of the header is a short one and not longer than a chunk
  together with the line after it, as the code's header is (78 bytes in chunks of 64).
* **ConfigStore.** Two groups of two values and pages of two words put header,
  records, footer and checksum on three pages, so that errors and power cycles
  fall between any two of them and within a page. One cell is worn. Three firmwares: one with
  another layout of a group and other sound settings, one with another format;
  one installation. Three attempts as in the code. A record is a word, and a
  record of which a part was written is a garbled one. The checksum is ideal:
  that 16 bits may agree by chance is left out.

Deadlock checking is off for `EmergencyArming` only: its clock is bounded.

## 6. Fairness

Every fairness condition is one the scheduler, or the hardware, justifies:

* a task body that runs is run to its end (`WF` of the iterations of a pass, of
  `ProcessRx`, of the loop of the queue, of `CallStep`, of a boot and of a save):
  there is no preemption;
* the RX task runs again and again, at 50 Hz even without a receiver
  (`rxNextUpdateAtUs`, rx.c:533), and its requests get past the samples to skip:
  `SF` of the three kinds of sample together, so that neither good nor bad samples are promised.
  For `NavFSM` it is `SF` of `Frame`, with any content;
* the PID task runs again and again (it is the real-time task): also `WF` of
  `blackboxUpdate()`;
* time passes (`SF` of `Tick`): finitely many task bodies fit into a tick;
* the flash chip ends a command it was given (`WF` of `FlashDone`).

The pilot, the receiver, the sensors, the power and errors of the flash are
never fair. A property that needs the pilot says so in its premise: `PilotStaysBack`
and `PilotSwitchesOff` are of the form <>[].

## 7. The proofs

Every safety invariant, action property and refinement that a passing run checks
is a theorem, for all values of the constants or under the hypotheses named
here. `PROJECT.json` lists 35 theorems. Only liveness is left to TLC.

### Failsafe

`FailsafeProofs` proves, for all values of the delays and any non-empty set of
procedures:

| theorem | statement | assumption |
|---|---|---|
| `TypeCorrect` | `Spec => []TypeOK` | none: reloads included |
| `PhasesAreConsistent` | `Spec => []PhaseConsistent` | `~ReloadWhileActive` |
| `LossAnswered` | `Spec => LossIsAnswered` | `~ReloadWhileActive` |
| `ReleaseOnLink` | `Spec => ReleaseNeedsLink` | `~ReloadWhileActive` |
| `ImplementsAuthority` | `Spec => AuthoritySpec` | `~ReloadWhileActive` |

`TypeOK` is the conjunction of five parts (link, flags, states, timers, pass),
each inductive by itself, with a lemma for each.

`PhaseConsistent` is not inductive: in the middle of a pass an iteration relies
on what earlier iterations, or the start of the pass, established. The case
RX_LOSS_RECOVERED drops `active` without looking at the link; it is right
because the phase is only entered on a pass with `rxOk`. RX_LOSS_DETECTED starts
a procedure without looking at ARMED; it is right because the phase is only
entered on a pass that saw the craft armed, and nothing before the procedure can
disarm it. `PassConsistent` says exactly this:

1. the three transient phases occur only inside a pass;
2. RX_LOSS_DETECTED needs a pass without link and with an armed craft,
   RX_LOSS_RECOVERED one with a link;
3. a pass that saw a good link still has one (nothing in a pass takes it down);
4. a craft that is armed now was armed when the pass began, and on a pass
   without link that has not chosen its procedure it still is.

`IInv` is `TypeOK /\ PhaseConsistent /\ PassConsistent`, proved inductive
(`InitIInv`, `PhaseStep`, `PassConsistentStep`); the run `failsafe` checks
`PhaseConsistent`, and `TypeOK`, which says nothing of the code, is proved only. The assumption `~ReloadWhileActive` is used at one place, the action
`failsafeReset`: without it the phase goes to IDLE under a set lock (section 8).

The two action properties follow from `IInv`: the only iterations that end a
pass are looked at one by one (`PassEnds`), and only `Recovered` drops `active`
(`ActiveEnds`). For the refinement, `OwnerOfFlags` computes who has the sticks
from phase and flags, and `AuthorityStep` maps each action: the start of a
procedure to `TakeOver`, `Recovered` to `HandBack`, `Landed` to `LockOut`,
`MonitoringUnlocks` to `Unlock`, `Arm` and disarming elsewhere to `Arm` and
`Disarm`, reports of the link to `LinkChanges`, all others to a stutter.

### The RX task, arming and the PID loop

`FlightProofs` proves, for every set of crafts (`Setups`), every choice of
switches and options in them and all delays:

| theorem | statement | assumption |
|---|---|---|
| `FlightTypeCorrect` | `FlightSpec => []FlightTypeOK` | none |
| `FlightIsFailsafe` | `FlightSpec => FailsafeSpec` | `NoOverride` |
| `LockedIsDisarmed` | `FlightSpec => []LockKeepsDisarmed` | `NoOverride`, `~ReloadWhileActive` |
| `ForcedRTHBelongsToFailsafe` | `FlightSpec => []ForcedRTHIsFailsafe` | the same, `LongQuarantine >= 1` |
| `PrearmComesFirst` | `FlightSpec => PrearmBeforeArming` | `NoOverride` |
| `ArmingIsAskedFor` | `FlightSpec => ArmingIsDeliberate` | `NoOverride`, `NoEmergency` |
| `SilenceAnswered` | `FlightSpec => []SilenceIsAnswered` | `NoOverride`, `NoEepromWrites`, `~ReloadWhileActive` |
| `ArmsOnDataOnly` | `FlightSpec => ArmingNeedsData` | the same |
| `DisarmIsConfirmed` | `FlightSpec => OneFrameCannotDisarm` | none |
| `QuarantineServed` | `FlightSpec => QuarantineIsServed` | `NoOverride`, `~ReloadWhileActive` |

`PrearmComesFirst`, `DisarmIsConfirmed` and `QuarantineServed` also assume that
the instance keeps the history that they speak of (`Follows`, the constant
`Histories`). Those on
silence and refusals say something of instances that keep theirs.

`FlightIsFailsafe` comes first because it carries all of `FailsafeProofs` over:
`IInv` holds in FlightCore without a second proof, and `LockedIsDisarmed` needs
nothing else. Each action of the RX task, of the PID loop and of time is shown
to be an action of Failsafe or a stutter (`FailsafeStep`). The delicate one is
arming, which Failsafe allows to an unlocked craft only: `TryArmArms` follows
each of the ways past the blockers (none is set, emergency, turtle mode,
override) and finds the test of the lock in all of them but the last.

The hypotheses are the conditions under which the code does what is claimed:

* `NoOverride`: no craft has a logic condition that overrides arming safety. It
  arms through every blocker, the lock and prearm included (section 8).
* `NoEepromWrites`: neither statistics nor saves in flight. A write declares the
  link up; `rearm_on_silence` is the counterexample with it.
* `NoEmergency`: emergency arming is the documented way past a refused switch.
* `LongQuarantine >= 1`: in the code 30 s.

The inductive invariants, none of which follows from the properties themselves:

* `TaskConsistent`: where the RX task is agrees with what the phase machine
  does.
* `RTHAccounted`: a forced RTH is accounted for by the phase. Once the phase has
  left RETURN_TO_HOME the flag survives until a PID loop sees the craft
  disarmed, and the proof has to show that this happens before the quarantine is
  over and the craft can arm again: the quarantine runs in full ticks, and a PID
  loop comes in every one of them.
* `PrearmSeenOff`, `PrearmTimed`, `RefusalSticks`: what `prearmWasReset`, the
  time of its activation and the sticky blocker of the switch stand for.
* `OutageSeen` and `SilenceMeasured`: past the failsafe's place in the task, a
  link that is down is answered; and the tracker's age is the true silence as
  long as it is within the guard time.
* `FramesCounted`: until a second OFF frame the disarm timer is no older than
  the first, whatever samples repeat it, wherever the task is.
* `QuarantineCounted`: the time left of the quarantine, and the time that every
  pass saw a good link, make up at least the quarantine of the procedure; a pass
  without a link starts both again.

### The configuration store

`ConfigProofs` proves, under `ConfigAssumption` alone, that is for every number
of groups, values, firmwares, size of a page, set of worn cells, number of
attempts and of installations:

| theorem | statement |
|---|---|
| `TypeCorrect` | `Spec => []ConfigTypeOK` |
| `Durable` | `Spec => []SaveIsDurable` |
| `LoadsWhole` | `Spec => LoadIsWhole` |
| `ImplementsRegister` | `Spec => RegisterSpec` |

`SaveIsDurable` is not inductive: in the middle of a save the flash is a
patchwork of several saves, and whether the next boot accepts it depends on how
it came about. The strengthening looks at one word only, the last. `IInv` adds
to the type and `SaveIsDurable`:

* `TailOK`: the last word is erased, garbled, or the last word of a candidate,
  that is, of the last save that finished or one that was begun since;
* `TargetOK`: the save under way is a candidate, and outside one there is none;
* `WrittenOK`: when every word is written without an error, the last is the
  target's, or garbled in a worn cell.

With an ideal checksum the last word decides the others (`WholeIsImage`): a
content that passes the scan and ends in the last word of a candidate *is* that
candidate (`WholeIsCandidate`). `LoadsWhole` is this at the moment of the boot.
`Durable` is `Delivered`: a save whose loop ends without an error and whose
content passes has its own last word in the flash (`WrittenOK`), hence all of
its words. For the refinement `StoredFacts` says that what is stored, seen
through the scan, is a candidate or nothing; then every step that writes is
`Store`, `BeginSave` is `Begin`, the end of a save `End`, and so on
(`RegisterStep`).

Each proof module has one lemma per action and combines them in the last step.

### The receiver

`RxSignalProofs` proves, for all periods, any set of channels and every order of
frames, checks, tasks, resumes and ticks:

| theorem | statement | assumption |
|---|---|---|
| `RxTypeCorrect` | `Spec => []RxTypeOK` | none |
| `DataStaysFresh` | `Spec => []DataIsNotStale` | none |
| `SilenceTakesLinkDown` | `Spec => []SilenceIsDetected` | `SkipsFit(SignalAge)` |
| `BrokenChannelTakesLinkDown` | `Spec => []BrokenChannelIsDetected` | `SkipsFit(Hold)`, `Watched` is a flight channel |
| `GoodSignalTakesLinkUp` | `Spec => []RecoveryIsDetected` | none |

A bound on a latency is a race of counters, and its proof says for every state
how far each may be. `Scheduled` ties the deadline of the next sample to the age
of the last, whether the task waits, is due or is late; `SignalIsRecent` ties
the deadline of the signal to the silence, in three cases: the deadline is ahead
of the clock, or behind its next wrap, or was reached after the last check. A
deadline that the wrap jumps over is none of them, and is on record
(`deadlineMissed`); so is a resume (`StopIsSeen`). `SilentWhileUp` then bounds the
silence of a link that is up, as far as no missed deadline is to blame
(`SilentAge`), by what the time-outs allow plus the age of the last sample. `BrokenInv` is the same with the hold time of a channel.
`GoodIsSeen` goes the other way: it bounds the age of the last failure from
below while the signal is good.

`SkipsFit(t)` is `2 * Late <= t + RxDataFailurePeriod`. A resume makes the
tracker skip two samples that then say nothing of the silence; when they take
longer than the time-outs, the silence after a save is noticed later than the
bound. In the code two periods of 20 ms and two late tasks stand against at
least 300 ms.

The bounds on silence, on a broken channel and on the age of data are exact:
with a tick less TLC finds a violation.

### The queue of emergency arming

`EmergencyProofs` proves, for every size of the queue, window, step, width of
the byte and sequence of passes, under `WholeSteps`:

| theorem | statement |
|---|---|
| `QueueTellsFlips` | `Spec => []QueueIsHistory` |
| `TriggerIsDeliberate` | `Spec => []TriggeredIsDeliberate` |

The queue stores a flip as a number of steps since `start`, and `start` moves
when old flips are dropped. The invariant (`Aligned`) says for each byte which
flip of the history it stands for: entry i is the rounded distance of the flip
`base + i` from `start`, whatever was dropped and rebased since. The difficult
step is the subtraction of the first delta from all others (`DivShift`: it
commutes with the rounding because `start` moves by whole steps).

`WholeSteps` is `Window % Step = 0 /\ Window < Modulus`, in the code 10000 ms
and 100 ms in 32 bits. An attempt without it failed for a good reason: with a
window of 11 and a step of 3 TLC finds a full queue whose last byte is no longer
below the number of steps in the window, while `start` is still within the
window. Nothing is dropped then, and the next byte is written behind the array.
The code is right because of the two numbers chosen, which no assertion of its
says.

### Navigation and launch

`NavProofs` proves, with no assumption but those on the constants
(`NavAssumption`: missions whose jumps are valid, as the arming check demands,
and do not go to number 0, which it lets pass),
for every set of crafts, missions, switches and hover times:

| theorem | statement |
|---|---|
| `NavTypeCorrect` | `NavSpec => []NavTypeOK` |
| `WaypointsAreGeo` | `NavSpec => []ActiveWaypointIsGeo` |
| `AbortIsIdle` | `NavSpec => []AbortedRTHIsIdle` |
| `ForcedRTHHolds` | `NavSpec => []ForcedRTHIsFlown` |
| `MotorWaits` | `NavSpec => []MotorWaitsForLaunch` |

The proofs look at the table and not at a run of it: `OnEventCases` says which
columns lead to a state, and one lemma per entry function which events it can
return.

* `WaypointsAreGeo` is inductive with the type, which says that the active
  waypoint of a mission under way is one of its waypoints: the four states are
  entered from each other, or by SUCCESS of PRE_ACTION, and its entry returns
  that for a place only; a jump and the end of the mission return something
  else.
* `AbortInv`: no call comes to rest in WAYPOINT_NEXT, the only state that does
  not accept TO_IDLE. That is why an abort, whose time-out may just have entered
  any state, always arrives.
* `ForcedInv` and `LaunchModeInv`: an armed craft under a forced RTH is flying
  home, or the call that asked for it is not over or not yet looked at; no event
  of an RX frame takes it elsewhere, as the launch mode, which would, is on only
  in launching or idle states.
* `LaunchInv`: in LAUNCH_WAIT the sequencer is before the throw or has just
  detected it, or the call that aborts it is under way.

### The flash file system and the black box

`FlashProofs` has the facts about `flashfs.c`, one lemma per operator, for every
size of the ring, a page, a block and the chip; `BlackboxProofs` proves with
them, for all lengths, budgets and intervals and every sequence of calls, and
with no assumption but those on the constants:

| theorem | statement |
|---|---|
| `BlackboxTypeCorrect` | `Spec => []BlackboxTypeOK` |
| `IntraComesFirst` | `Spec => []IntraframeFirst` |
| `BytesStayInOrder` | `Spec => []LogIsInOrder` |
| `HeaderDelivered` | `Spec => []HeaderIsWhole` |

`LogIsInOrder` speaks of the chip and the ring. What makes it inductive is
`FileInOrder`: the bytes of the ring increase (`Stream`), those of the chip
increase and end at the address, and no block before it starts with an erased
cell (`Chip`), and every byte of the ring is behind every one of the chip
(`Behind`). The last two are what a write in the middle of a page, a wrap of the
ring and the overwriting of a chip that is not empty could break. After a power
cycle the address is searched for anew: the binary search is a recursive
function on ranges of blocks, and since induction over data is out of reach,
`SearchExists` shows that a function with its equation exists and `SearchFinds`
that each such function finds the first erased block, by the least range on
which it would not.

`HeaderIsWhole` needs two more ideas. The ring has room for all that the current
call still has to write, and in the sending of the fields for the budget that
remains (`Roomy`); so no piece of the header is ever dropped. And all bytes from
the first of the header on are in the ring or in consecutive cells (`Held`),
which the emptying of the ring at the end of the header turns into `Delivered`.
The attempt found what the model had left open: when the length of the header is
a multiple of its piece, the last piece is a whole one, the line behind it does
not fit into what was reserved, and the ring may overflow. With `HeaderLen =
HeaderChunk = 3` TLC shows it. The code's header has 78 bytes and its pieces 64,
so `BlackboxAssumption` now says `HeaderLen % HeaderChunk # 0`.

Each proof module has a lemma per action, or per function of the code, and
combines them in the last step.

### What is only checked

* Liveness under fairness is out of the prover's reach and stays with TLC:
  `PassTerminates`, `FailsafeEnds`, `PilotCanDisarm`, `LoopEnds`,
  `EntryLoopEnds`, `PositionLossIsAnswered`, `HeaderEnds`, `SaveEnds`.
* The behaviours that the hypotheses above exclude: crafts with an override of
  arming safety (in `flight_live` only), and statistics together with silence,
  of which `rearm_on_silence` shows that the property is false.
* That NavFSM and FlightCore agree on what they see of each other: they are not
  composed.

## 8. What the checks found

Two runs end in a violation of what the documentation or a comment says:

1. `rearm_on_silence`: with statistics on, the disarm after a landed RTH writes
   the EEPROM, which declares the link up; the sticks are still held off
   centre; failsafe takes this for the pilot's return, and the craft arms again
   without a signal (stats.c:67, docs/Failsafe.md:17).
2. `emergency_boot`: the second flip of the arming switch within the first 10 s
   of uptime never leaves the loop of `emergencyArmingUpdate()`, because
   `now - WINDOW` wraps below zero (fc_core.c:469).

Behaviours met while modelling that have no run of their own. The models
contain each of them unless it says otherwise, and the properties are stated so
that they say which configurations they hold for.

Failsafe, receiver and arming:

* Saving a configuration during the quarantine resets the phase but not the
  lock, and only the phase RX_LOSS_MONITORING clears the lock: arming stays
  locked until a reboot (failsafe.c:158, docs/Failsafe.md:17). With
  `ReloadWhileActive = TRUE` the formula `PilotStaysBack => []<>~locked` fails for this reason. A
  reload in an earlier phase leaves `active` and FAILSAFE_MODE set in phase IDLE.
* `needRxSignalBefore` is compared as a plain number (rx.c:442). When the
  deadline falls into the last moments before `micros()` wraps and the next
  check comes after the wrap, the deadline is missed: `rxSignalReceived` stays set for
  another lap of 71 minutes, the 50 Hz samples of a silent receiver count as
  valid data, and failsafe does not see the loss. A deadline that lies behind
  the wrap is over at once: in the last `rxSignalTimeout` before it the signal
  is lost at the first check without a frame. `SilenceIsDetected` and `DataIsNotStale` name the
  first case, `deadlineMissed`. The deadline of the samples, two lines further
  on, is compared by difference.
* A microsecond clock that wraps while samples are skipped after a resume stops
  all sampling until the next wrap or save (rx.c:537); the comment at
  rx.c:107 speaks of two samples, "timing independent".
* The quarantine is 3 s, not 30 s, after DROP (failsafe.c:448); docs/Failsafe.md:17
  has 30 s for all procedures.
* A landing whose time-out passes on the very pass on which the pilot is back
  disarms all the same: the time-out is tested last (failsafe.c:522).
* With statistics on and the guard time longer than the quarantine, the write of
  the disarm keeps the link up long enough to unlock on silence (rx.c:430).
* After the disarm by the navigation the arming switch may still be on; if
  nothing blocks, the next RX pass arms again (navigation.c:1408).
* A logic condition that overrides arming safety arms through the failsafe
  lock as well (fc_core.c:525-526). `LockKeepsDisarmed` is checked without it.
* ROLLPITCH stays as it was when NAV LAUNCH is switched off (fc_core.c:224-231)
  and blocks every arming until the mode is on again with centred sticks.
* One OFF frame may be enough to disarm (rc_controls.c:217), although the comment
  at rc_controls.c:179 calls the guard "an extra guard for disarming through switch to
  prevent that one frame can disarm it". The guard counts
  time, not frames: the one frame is sampled again at 50 Hz for as long as its
  signal is believed, 100 ms, or 200 ms with MSP (rx.c:287, msp.c:73), and
  through invalid pulses without a limit, since a switch channel is held and
  `rxIsReceivingSignal()` stays true. `switch_disarm_delay` is 250 ms by default
  but may be 0 to 1000. `OneFrameCannotDisarm` therefore says what the guard
  does give: two frames, or one that was sampled for longer than the delay.
* A craft with reversible motors disarms on the switch at once, with neither
  guard time nor a look at failsafe (fc_core.c:600). Nothing in the
  repository promises otherwise.
* An auxiliary channel that fails holds its value for ever and never triggers
  failsafe (rx.c:565); docs/Failsafe.md:6 says "any channel".
* An airplane with fixed_wing_auto_arm never looks at the kill switch
  (rc_controls.c:202-208).

Navigation and launch:

* An emergency landing that the machine begins by itself, with no failsafe and
  no RTH switch, is dropped in the next RX frame: the switch that selected the mode can no
  longer be activated, so the event is TO_IDLE (navigation.c:3221-3224, 3279).
  The description of `nav_position_timeout` (fc/settings.yaml:2416) promises
  a wait "before switching to emergency landing mode".
* The states in which the pilot adjusts the course do not look at the position, so that a
  lost one is answered only after the sticks are centred; and in FAILSAFE_MODE `isAdjustingPosition`
  keeps its last value (navigation.c:3031), so that a course may stay "adjusted".
* The arming check of a JUMP has no lower bound (navigation.c:3396): a jump to
  number 0, p1 = -1 in the code, is looked up outside `waypointList`, and
  whether the check refuses it depends on what lies there. With
  `nav_extra_arming_safety` OFF there is no check at all (navigation.c:3358).
  NavFSM leaves such missions out.
* `WAYPOINT_FINISHED` has no time-out in the table, so its answer to a lost
  position is computed once, at its entry (navigation.c:1662-1667), although its
  comment says "will re-process state in >10ms".
* Launch mode has priority over a forced RTH (navigation.c:3185-3205): with the
  launch switch on and the machine in a launch, the request is refused, and failsafe notices,
  takes it back and lands.
* A launch may be entered in flight: with the launch box on before arming
  the permission is kept until it is used (navigation.c:3271).
* The flag of a forced RTH outlives the landing until a PID loop sees the craft disarmed.

Black box and configuration:

* A craft that arms again while the last log is still being flushed gets no log:
  `blackboxStart()` returns and nobody calls it again (blackbox.c:1271);
  docs/Blackbox.md:211 says that recording starts as soon as the craft is armed.
* `blackboxPrintfHeaderLine()` takes only the value of a line from the budget,
  not its name (blackbox_encoding.c:63-81, whose comment says "the number of
  bytes written"). `HeaderIsWhole` holds all the same, since every call starts
  with a chunk of budget.
* MSP may erase the chip under a log (fc_msp.c:2544); the log goes on at the
  address 0 without a header. Order is kept, the header is not, and
  `HeaderIsWhole` says so.
* A save that a power cycle cut off can come back: a boot may find it whole
  after it was finished except for its last words. `LoadIsWhole` includes it.
* The streamer never compares its address with the `size` it is given (config_streamer.c:33-56),
  so a configuration that outgrows its pages would be written past them. Not modelled:
  the linker reserves the pages.
* In config_streamer_stm32f4.c:60-63 the end of sector 10 is tested before the
  end of sector 9, so an address of sector 10 is taken for one of sector 9. The
  targets keep the configuration elsewhere; not modelled.

## 9. What is not modelled, and why

* Numeric code: estimators, PID, mixer, filters, servos, RC curves. Floating
  point over large domains is not what these tools are for. It is the larger
  part of the firmware's own source; the rest of the repository is vendor
  libraries and board files, so the mapped share of all lines is small.
* `failsafeApplyControlInput()`: it computes stick values; who applies them is
  modelled.
* Of the navigation: the targets of the controllers, the estimates themselves,
  safe homes, the upload of missions, and the composition with FlightCore.
  FlightCore and Failsafe hold what they see of the navigation (a forced RTH, a
  landing, a disarm), and NavFSM what it sees of them (`failsafe`, `armed`).
* Of the black box: what is in a frame and how it is encoded; the serial port
  and the SD card as devices.
* Of the configuration: the switch between profiles, and the storage in an
  external chip.
* Sensor and receiver drivers: their outputs are inputs here. The median filter
  on the channels of a PPM receiver is left out (rx.c:579): with it a switch
  follows its frames one or two samples later.
* Presentation: OSD, menus, telemetry, LEDs, beeper.
* The SD card file system, USB and vendor code.

## 10. The plan

Done: the core (failsafe, receiver, arming), the navigation machine with the
launch, the configuration store with its register, the flash file system with
the black box, and the proofs of their safety. In order, what is left:

1. `Scheduler`: the selection of tasks, with a bound on the waiting time of an
   aged task, which is what section 6 assumes.
2. `MspOverride`: the second link tracker, next to `RxSignal`.
3. `MspSerial`: the parser states of three framings, and replies.
4. `VtxQueue`, `RcDevice`: queues of commands with retries and lost answers.
5. `FirmwareUpdate`: the copy with a power loss at every step.
6. FlightCore with NavFSM in place of its own view of the navigation.

Proofs to come, in order of value:

* FlightCore: weaker hypotheses. `ArmingIsDeliberate` with emergency arming,
  where only a pilot who asks for it gets past a refusal; silence with saves,
  where each write may postpone the answer by one guard time.
* NavFSM as what FlightCore assumes of the navigation: a mapping of `failsafe`
  and `armed` to the actions `Navigate` and `DisarmElsewhere` of Failsafe.
* An abstract log (a sequence that only grows at its end) that FlashFS
  implements between two erasures.
* The safety of the components above, each with its module.
