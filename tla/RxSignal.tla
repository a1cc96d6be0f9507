------------------------------ MODULE RxSignal ------------------------------
(***************************************************************************)
(* The receiver side of rx.c: what a receiver driver reports becomes the   *)
(* signal flag, the signal and the pulses become samples, and the samples  *)
(* are what the link tracker of failsafe.c hears about.                    *)
(*                                                                         *)
(* rxUpdateCheck() is the check function of the event-driven RX task: the  *)
(* scheduler calls it until it returns true and then runs the task, which  *)
(* calls calculateRxChannelsAndUpdateFailsafe(), some time later.  What    *)
(* the check saw may be old when the task runs.  Ticks of time and saves   *)
(* of the configuration come in between.                                   *)
(*                                                                         *)
(* The clock is micros(), which goes from LastTime to 0.  Two times are    *)
(* compared with it as plain numbers and kept as such.  Of the others one  *)
(* is compared by difference and one with millis(): they are ticks left.   *)
(***************************************************************************)
EXTENDS RxLink, FiniteSets

CONSTANTS
    FlightChannels,     \* the first NON_AUX_CHANNEL_COUNT channels
    AuxChannels,
    SignalTimeout,      \* rxRuntimeConfig.rxSignalTimeout
    UpdatePeriod,       \* DELAY_50_HZ
    Hold,               \* MAX_INVALID_RX_PULSE_TIME
    LastTime,           \* the largest value of micros(), 2^32 - 1 in the code
    Watched             \* the channel that the history `brokenFor' follows

Channels == FlightChannels \cup AuxChannels
SkippedSamples == 2     \* SKIP_RC_SAMPLES_ON_RESUME

ASSUME SignalAssumption ==
    /\ {SignalTimeout, UpdatePeriod, Hold} \subseteq Nat \ {0}
    /\ LastTime \in Nat /\ SignalTimeout < LastTime
    /\ IsFiniteSet(Channels) /\ Watched \in Channels

VARIABLES
    now,                \* micros()
    rxSignalReceived,
    needRxSignalBefore, \* 0 while there is no signal: nobody looks at it
    updateIn,           \* ticks to rxNextUpdateAtUs
    dataRequired,       \* rxDataProcessingRequired
    auxRequired,        \* auxiliaryProcessingRequired
    skipRxSamples,
    suspendRxSignalUntil,   \* 0 while no sample is skipped: nobody looks at it
    expiresIn,          \* ticks to rcChannels[c].expiresAt
    rxTask,             \* "waiting" for its check, "due", "late": due last tick
    checked,            \* the check function was called in this tick
    silentFor,          \* history: ticks since the last good frame or resume
    brokenFor,          \* history: ticks since Watched was in range, or resume
    goodFor,            \* history: ticks in a row in which nothing was wrong
    goodTick,           \* history: such a tick so far
    deadlineMissed,     \* history: in this silence the clock has wrapped over
                        \*   the deadline of a signal that is still believed
    samplesStopped      \* history: it has wrapped over a resume, and no sample
                        \*   was processed since

signal   == <<rxSignalReceived, needRxSignalBefore>>
requests == <<updateIn, dataRequired, auxRequired>>
resume   == <<skipRxSamples, suspendRxSignalUntil>>
overtaken == <<deadlineMissed, samplesStopped>>
history  == <<silentFor, brokenFor, goodFor, goodTick, overtaken>>
vars == <<rxVars, now, signal, requests, resume, expiresIn, rxTask, checked, history>>

Late == UpdatePeriod + 2                  \* longest time between two samples
SignalAge == SignalTimeout + 1            \* oldest frame of a signal in time
SilenceLatency == SignalAge + RxDataFailurePeriod + Late
BreakLatency == Hold + RxDataFailurePeriod + Late
GoodLatency == RxDataRecoveryPeriod + Late
UpTo(bound, n) == IF n < bound THEN n + 1 ELSE bound

(* rxInit(), after readEEPROM() resumed the signal.                        *)
Init ==
    /\ LinkInit
    /\ now = 0
    /\ rxSignalReceived = FALSE /\ needRxSignalBefore = 0
    /\ updateIn = Expired /\ dataRequired = FALSE /\ auxRequired = FALSE
    /\ skipRxSamples = SkippedSamples /\ suspendRxSignalUntil = 0
    /\ expiresIn = [c \in Channels |-> Hold]
    /\ rxTask = "waiting" /\ checked = FALSE
    /\ silentFor = 0 /\ brokenFor = 0 /\ goodFor = 0 /\ goodTick = FALSE
    /\ deadlineMissed = FALSE /\ samplesStopped = FALSE
-----------------------------------------------------------------------------
(* rxUpdateCheck().                                                        *)

FrameBits == {"COMPLETE", "FAILSAFE", "PROCESSING_REQUIRED"}   \* rxFrameState_e

After(period) ==
    IF now + period > LastTime THEN now + period - LastTime - 1 ELSE now + period

(* The outcomes of `currentTimeUs >= needRxSignalBefore'.  In the tick of
   the deadline itself the check may come before or after it.  The plain
   comparison takes a deadline behind the next wrap for one that is over,
   and one that the last wrap jumped over for one that is still ahead.      *)
DeadlineOver == IF now = needRxSignalBefore THEN BOOLEAN ELSE {now > needRxSignalBefore}

TimeoutIgnored == {rxSignalReceived}                  \* a mutant
StillReceived == {rxSignalReceived /\ ~over : over \in DeadlineOver}

LossLatched(lost) == rxSignalReceived /\ ~lost        \* a mutant
SignalOfFrame(lost) == ~lost

Check(status) ==
    LET complete == "COMPLETE" \in status
        lost     == "FAILSAFE" \in status
    IN
    /\ rxTask = "waiting"
    /\ \E received \in StillReceived :
          rxSignalReceived' = IF complete THEN SignalOfFrame(lost) ELSE received /\ ~lost
    /\ needRxSignalBefore' = IF ~rxSignalReceived' THEN 0
                             ELSE IF complete THEN After(SignalTimeout)
                             ELSE needRxSignalBefore
    /\ auxRequired' = (auxRequired \/ "PROCESSING_REQUIRED" \in status)
    /\ dataRequired' = (dataRequired \/ complete \/ HasPassed(updateIn))
    /\ rxTask' = IF dataRequired' \/ auxRequired' THEN "due" ELSE "waiting"
    /\ checked' = TRUE
    /\ silentFor' = IF complete /\ ~lost THEN 0 ELSE silentFor
    /\ deadlineMissed' = (deadlineMissed /\ ~(complete /\ ~lost))
    /\ goodFor' = IF lost THEN 0 ELSE goodFor
    /\ goodTick' = (goodTick /\ ~lost)
    /\ UNCHANGED <<rxVars, now, updateIn, resume, expiresIn, brokenFor, samplesStopped>>
-----------------------------------------------------------------------------
(* calculateRxChannelsAndUpdateFailsafe(), the start of the RX task.       *)

(* rcProcessFrameFn() says whether the auxiliary processing is finished.   *)
RunTask ==
    /\ rxTask # "waiting" /\ rxTask' = "waiting"
    /\ IF auxRequired THEN auxRequired' \in BOOLEAN ELSE UNCHANGED auxRequired
    /\ UNCHANGED <<now, signal, checked, silentFor, deadlineMissed>>

OnlyAuxiliary ==
    /\ RunTask /\ ~dataRequired
    /\ UNCHANGED <<rxVars, updateIn, dataRequired, resume, expiresIn, brokenFor, goodFor,
                   goodTick, samplesStopped>>

Sample == RunTask /\ dataRequired /\ dataRequired' = FALSE /\ updateIn' = UpdatePeriod

(* suspendRxSignalUntil is the time of the resume: it is over at the next
   sample, unless the clock has wrapped since.                             *)
ResumeAhead == skipRxSamples > 0 /\ now < suspendRxSignalUntil
SkipSample ==
    /\ Sample /\ skipRxSamples > 0
    /\ IF ResumeAhead THEN UNCHANGED resume
       ELSE /\ skipRxSamples' = skipRxSamples - 1
            /\ suspendRxSignalUntil' = IF skipRxSamples' = 0 THEN 0 ELSE suspendRxSignalUntil
    /\ UNCHANGED <<rxVars, expiresIn, brokenFor, goodFor, goodTick, samplesStopped>>

(* Two mutants: an invalid pulse renews the channel; the signal flag is not
   looked at.                                                              *)
HoldRenewed(valid) == [c \in Channels |-> Hold]
HoldOf(valid) == [c \in Channels |-> IF c \in valid THEN Hold ELSE expiresIn[c]]
PulsesOnly(valid) ==
    \A c \in FlightChannels : c \in valid \/ ~HasPassed(expiresIn[c])
Accepted(valid) ==
    /\ \A c \in FlightChannels : c \in valid \/ ~HasPassed(expiresIn[c])
    /\ rxSignalReceived

(* The pulses of the channels in `valid' are in range.                     *)
ProcessSample(valid) ==
    /\ Sample /\ skipRxSamples = 0
    /\ expiresIn' = HoldOf(valid)
    /\ IF Accepted(valid) THEN ValidDataReceived ELSE ValidDataFailed
    /\ brokenFor' = IF Watched \in valid THEN 0 ELSE brokenFor
    /\ LET good == FlightChannels \subseteq valid
       IN /\ goodFor' = IF good THEN goodFor ELSE 0
          /\ goodTick' = (goodTick /\ good)
    /\ samplesStopped' = FALSE
    /\ UNCHANGED resume
-----------------------------------------------------------------------------
(* suspendRxSignal() and resumeRxSignal() around an EEPROM access, with the
   failsafeReset() of a configuration that was read.                       *)
Resume ==
    /\ RxResumed \/ LinkReset
    /\ skipRxSamples' = SkippedSamples /\ suspendRxSignalUntil' = now
    /\ silentFor' = 0 /\ brokenFor' = 0 /\ goodFor' = 0 /\ goodTick' = FALSE
    /\ samplesStopped' = FALSE
    /\ UNCHANGED <<now, signal, requests, expiresIn, rxTask, checked, deadlineMissed>>

(* No deadline is set further ahead than the time-out.                     *)
DeadlineJumped == rxSignalReceived /\ needRxSignalBefore > now + SignalTimeout

(* Whatever else runs, the scheduler calls the check in every tick that the
   task is waiting and runs a task that is due before a tick has passed.
   After LastTime, every 71 minutes, the clock starts again at 0.          *)
RxTick ==
    /\ rxTask = "due" \/ (rxTask = "waiting" /\ checked)
    /\ rxTask' = IF rxTask = "due" THEN "late" ELSE "waiting"
    /\ checked' = FALSE
    /\ now' = After(1)
    /\ LinkTick
    /\ updateIn' = Countdown(updateIn)
    /\ expiresIn' = [c \in Channels |-> Countdown(expiresIn[c])]
    /\ silentFor' = UpTo(SilenceLatency + 1, silentFor)
    /\ brokenFor' = UpTo(BreakLatency + 1, brokenFor)
    /\ goodFor' = IF goodTick /\ silentFor = 0 THEN UpTo(GoodLatency + 1, goodFor) ELSE 0
    /\ goodTick' = TRUE
    /\ UNCHANGED <<signal, dataRequired, auxRequired, resume>>
    /\ deadlineMissed' = (deadlineMissed \/ DeadlineJumped')
    /\ samplesStopped' = (samplesStopped \/ ResumeAhead')

Next ==
    \/ \E status \in SUBSET FrameBits : Check(status)
    \/ OnlyAuxiliary \/ SkipSample
    \/ \E valid \in SUBSET Channels : ProcessSample(valid)
    \/ Resume \/ RxTick

Spec == Init /\ [][Next]_vars
-----------------------------------------------------------------------------
(* A receiver that goes silent, or that reports the loss itself, takes the
   link down within the sum of the time-outs: unless rx.c:442, in the tick
   before the clock wraps, missed the deadline of its last signal, which is
   then believed for one more lap of the clock, or rx.c:537 has stopped
   processing samples because the clock wrapped right after a resume.      *)
SilenceIsDetected ==
    silentFor > SilenceLatency /\ ~deadlineMissed /\ ~samplesStopped => rxLinkState = "DOWN"

(* So does a flight channel that is out of range for longer than the held
   value is good for.  Of an auxiliary channel this is not true.           *)
BrokenChannelIsDetected ==
    brokenFor > BreakLatency /\ ~samplesStopped => rxLinkState = "DOWN"

(* And a signal that is good again brings the link up in bounded time, also
   where the plain comparison ends a signal just before the clock wraps.   *)
RecoveryIsDetected == goodFor > GoodLatency => rxLinkState = "UP"

(* What the tracker believes to be the age of the data is never far younger
   than the last good frame, although task and check run at other times:
   unless the deadline of the signal was missed as above.                  *)
DataIsNotStale ==
    sinceReceived <= RxDataFailurePeriod /\ ~deadlineMissed
        => silentFor <= sinceReceived + SignalAge
=============================================================================
