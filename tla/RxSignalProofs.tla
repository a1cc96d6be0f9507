---------------------------- MODULE RxSignalProofs ----------------------------
(***************************************************************************)
(* Proofs about the receiver signal: however frames, pulses, saves and a   *)
(* late task interleave, and for every value of the periods, the link      *)
(* tracker is told of a loss and of a recovery in bounded time.            *)
(***************************************************************************)
EXTENDS RxSignal, TLAPS

(* What the time-outs have to be for the bounds.  A resume is followed by two samples
   that nobody looks at, so a time-out has to be longer than they take.     *)
SkipsFit(timeout) == 2 * Late <= timeout + RxDataFailurePeriod

Deadlines == [Channels -> Expired .. Hold]
RxTypeOK ==
    /\ LinkTypeOK
    /\ now \in 0 .. LastTime
    /\ rxSignalReceived \in BOOLEAN /\ needRxSignalBefore \in 0 .. LastTime
    /\ updateIn \in Expired .. UpdatePeriod
    /\ dataRequired \in BOOLEAN /\ auxRequired \in BOOLEAN
    /\ skipRxSamples \in 0 .. SkippedSamples /\ suspendRxSignalUntil \in 0 .. LastTime
    /\ expiresIn \in Deadlines
    /\ rxTask \in {"waiting", "due", "late"} /\ checked \in BOOLEAN
    /\ silentFor \in 0 .. SilenceLatency + 1 /\ brokenFor \in 0 .. BreakLatency + 1
    /\ goodFor \in 0 .. GoodLatency + 1 /\ goodTick \in BOOLEAN
    /\ deadlineMissed \in BOOLEAN /\ samplesStopped \in BOOLEAN

LEMMA Constants ==
  /\ SignalTimeout \in Nat /\ SignalTimeout > 0
  /\ UpdatePeriod \in Nat /\ UpdatePeriod > 0
  /\ Hold \in Nat /\ Hold > 0
  /\ RxDataFailurePeriod \in Nat /\ RxDataRecoveryPeriod \in Nat
  /\ LastTime \in Nat /\ SignalTimeout < LastTime
  /\ SignalAge \in Nat /\ SignalAge = SignalTimeout + 1
  /\ Late \in Nat /\ SilenceLatency \in Nat /\ BreakLatency \in Nat /\ GoodLatency \in Nat
  /\ Watched \in Channels
BY SignalAssumption, RxLinkAssumption DEF Late, SignalAge, SilenceLatency, BreakLatency, GoodLatency

LEMMA CountsDown ==
  ASSUME NEW limit \in Nat, NEW timer \in Expired .. limit
  PROVE  /\ Countdown(timer) \in Int
         /\ Countdown(timer) >= 0 => timer > 0 /\ Countdown(timer) = timer - 1
         /\ timer > 0 => Countdown(timer) = timer - 1
BY DEF Countdown, Expired

LEMMA ClockStays ==
  ASSUME now \in 0 .. LastTime, NEW period \in 1 .. SignalTimeout
  PROVE  /\ After(period) \in 0 .. LastTime
         /\ \/ now + period <= LastTime /\ After(period) = now + period
            \/ now + period > LastTime /\ After(period) = now + period - LastTime - 1
BY Constants DEF After

LEMMA ClockTicks ==
  ASSUME now \in 0 .. LastTime
  PROVE  /\ After(1) \in 0 .. LastTime
         /\ \/ now < LastTime /\ After(1) = now + 1
            \/ now = LastTime /\ After(1) = 0
BY Constants, ClockStays

LEMMA Outgrown ==
  ASSUME NEW base \in Nat, NEW age \in Nat, NEW later \in Int, NEW count \in Nat, NEW after \in Nat,
         count <= base + age, after <= count + 1, later > age
  PROVE  after <= base + later
OBVIOUS

LEMMA LinkKept ==
  ASSUME LinkTypeOK,
         \/ ValidDataReceived \/ ValidDataFailed \/ RxResumed \/ LinkReset \/ LinkTick
         \/ UNCHANGED rxVars
  PROVE  LinkTypeOK'
BY RxLinkAssumption
   DEF LinkTypeOK, ValidDataReceived, ValidDataFailed, RxResumed, LinkReset, LinkTick, Older, rxVars

LEMMA InitTyped == Init => RxTypeOK
<1> SUFFICES ASSUME Init PROVE RxTypeOK
  OBVIOUS
<1>1. LinkTypeOK
  BY RxLinkAssumption DEF Init, LinkInit, LinkTypeOK
<1>2. expiresIn \in Deadlines
  BY Constants DEF Init, Expired, Deadlines
<1>3. /\ now \in 0 .. LastTime /\ needRxSignalBefore \in 0 .. LastTime
      /\ suspendRxSignalUntil \in 0 .. LastTime
      /\ updateIn \in Expired .. UpdatePeriod
      /\ skipRxSamples \in 0 .. SkippedSamples
      /\ silentFor \in 0 .. SilenceLatency + 1 /\ brokenFor \in 0 .. BreakLatency + 1
      /\ goodFor \in 0 .. GoodLatency + 1
  BY Constants DEF Init, Expired, SkippedSamples
<1> QED
  BY <1>1, <1>2, <1>3 DEF Init, RxTypeOK

LEMMA TaskRuns ==
  ASSUME RxTypeOK, Sample
  PROVE  /\ rxTask' = "waiting" /\ dataRequired' = FALSE /\ auxRequired' \in BOOLEAN
         /\ updateIn' = UpdatePeriod /\ updateIn' \in Expired .. UpdatePeriod
         /\ UNCHANGED <<now, rxSignalReceived, needRxSignalBefore, checked, silentFor, deadlineMissed>>
<1>1. auxRequired' \in BOOLEAN
  BY Zenon DEF Sample, RunTask, RxTypeOK
<1> QED
  BY <1>1, Constants DEF Sample, RunTask, signal, Expired

LEMMA StepTyped == RxTypeOK /\ [Next]_vars => RxTypeOK'
<1> SUFFICES ASSUME RxTypeOK, [Next]_vars PROVE RxTypeOK'
  OBVIOUS
<1> USE Constants
<1>1. CASE \E status \in SUBSET FrameBits : Check(status)
  <2>1. UNCHANGED rxVars
    BY <1>1 DEF Check
  <2>2. PICK status \in SUBSET FrameBits : Check(status)
    BY <1>1
  <2>3. /\ rxSignalReceived' \in BOOLEAN /\ dataRequired' \in BOOLEAN /\ auxRequired' \in BOOLEAN
        /\ goodTick' \in BOOLEAN /\ rxTask' \in {"waiting", "due"} /\ checked' \in BOOLEAN
    BY <2>2, Zenon DEF Check, RxTypeOK, SignalOfFrame, StillReceived
  <2>4. silentFor' \in {0, silentFor} /\ goodFor' \in {0, goodFor} /\ deadlineMissed' \in BOOLEAN
    BY <2>2, Zenon DEF Check
  <2>5. UNCHANGED <<now, updateIn, skipRxSamples, suspendRxSignalUntil, expiresIn, brokenFor,
                    samplesStopped>>
    BY <2>2 DEF Check, resume
  <2>6. After(SignalTimeout) \in 0 .. LastTime
    BY ClockStays DEF RxTypeOK
  <2>7. needRxSignalBefore' \in {0, After(SignalTimeout), needRxSignalBefore}
    BY <2>2, Zenon DEF Check
  <2>8. needRxSignalBefore' \in 0 .. LastTime
    BY <2>6, <2>7 DEF RxTypeOK
  <2>9. silentFor' \in 0 .. SilenceLatency + 1 /\ goodFor' \in 0 .. GoodLatency + 1
    BY <2>4 DEF RxTypeOK
  <2> QED
    BY <2>1, <2>3, <2>4, <2>5, <2>8, <2>9, LinkKept DEF RxTypeOK
<1>2. CASE OnlyAuxiliary
  <2>1. UNCHANGED rxVars
    BY <1>2 DEF OnlyAuxiliary
  <2> QED
    BY <1>2, <2>1, LinkKept DEF OnlyAuxiliary, RunTask, RxTypeOK, signal, resume
<1>3. CASE SkipSample
  <2>1. UNCHANGED rxVars
    BY <1>3 DEF SkipSample
  <2>2. LinkTypeOK'
    BY <2>1, LinkKept DEF RxTypeOK
  <2>3. Sample /\ UNCHANGED <<expiresIn, brokenFor, goodFor, goodTick, samplesStopped>>
    BY <1>3, Zenon DEF SkipSample
  <2>4. skipRxSamples' \in 0 .. SkippedSamples /\ suspendRxSignalUntil' \in 0 .. LastTime
    BY <1>3 DEF SkipSample, RxTypeOK, SkippedSamples, resume
  <2>5. rxTask' \in {"waiting", "due", "late"} /\ dataRequired' \in BOOLEAN
    BY <2>3, TaskRuns
  <2> QED
    BY <2>2, <2>3, <2>4, <2>5, TaskRuns, Zenon DEF RxTypeOK
<1>4. CASE \E valid \in SUBSET Channels : ProcessSample(valid)
  <2>1. PICK valid \in SUBSET Channels : ProcessSample(valid)
    BY <1>4
  <2>2. LinkTypeOK'
    BY <2>1, LinkKept, Zenon DEF ProcessSample, RxTypeOK
  <2>3. expiresIn' \in Deadlines
    BY <2>1 DEF ProcessSample, HoldOf, RxTypeOK, Expired, Deadlines
  <2>4. goodTick' \in BOOLEAN /\ brokenFor' \in {0, brokenFor} /\ goodFor' \in {0, goodFor}
    BY <2>1, Zenon DEF ProcessSample, RxTypeOK
  <2>5. /\ Sample /\ UNCHANGED <<skipRxSamples, suspendRxSignalUntil>>
        /\ samplesStopped' = FALSE
    BY <2>1, Zenon DEF ProcessSample, resume
  <2>6. rxTask' \in {"waiting", "due", "late"} /\ dataRequired' \in BOOLEAN
    BY <2>5, TaskRuns
  <2>7. brokenFor' \in 0 .. BreakLatency + 1 /\ goodFor' \in 0 .. GoodLatency + 1
    BY <2>4 DEF RxTypeOK
  <2> QED
    BY <2>2, <2>3, <2>4, <2>5, <2>6, <2>7, TaskRuns, Zenon DEF RxTypeOK
<1>5. CASE Resume
  <2>1. LinkTypeOK'
    BY <1>5, LinkKept, Zenon DEF Resume, RxTypeOK
  <2>2. /\ skipRxSamples' = SkippedSamples /\ suspendRxSignalUntil' = now
        /\ silentFor' = 0 /\ brokenFor' = 0 /\ goodFor' = 0 /\ goodTick' = FALSE
        /\ samplesStopped' = FALSE
        /\ UNCHANGED <<now, rxSignalReceived, needRxSignalBefore, updateIn, dataRequired,
                       auxRequired, expiresIn, rxTask, checked, deadlineMissed>>
    BY <1>5, Zenon DEF Resume, signal, requests
  <2>3. /\ skipRxSamples' \in 0 .. SkippedSamples
        /\ silentFor' \in 0 .. SilenceLatency + 1 /\ brokenFor' \in 0 .. BreakLatency + 1
        /\ goodFor' \in 0 .. GoodLatency + 1
    BY <2>2 DEF SkippedSamples
  <2> QED
    BY <2>1, <2>2, <2>3, Zenon DEF RxTypeOK, SkippedSamples
<1>6. CASE RxTick
  <2>1. LinkTypeOK'
    BY <1>6, LinkKept DEF RxTick, RxTypeOK
  <2>2. expiresIn' \in Deadlines
    BY <1>6 DEF RxTick, Countdown, RxTypeOK, Expired, Deadlines
  <2>3. updateIn' \in Expired .. UpdatePeriod
    BY <1>6 DEF RxTick, Countdown, RxTypeOK, Expired
  <2>4. /\ silentFor' \in 0 .. SilenceLatency + 1 /\ brokenFor' \in 0 .. BreakLatency + 1
        /\ goodFor' \in 0 .. GoodLatency + 1
    BY <1>6 DEF RxTick, UpTo, RxTypeOK
  <2>5. now' \in 0 .. LastTime
    BY <1>6, ClockTicks DEF RxTick, RxTypeOK
  <2>6. deadlineMissed' \in BOOLEAN /\ samplesStopped' \in BOOLEAN
    BY <1>6, Zenon DEF RxTick
  <2>7. /\ rxTask' \in {"waiting", "late"} /\ checked' = FALSE /\ goodTick' = TRUE
        /\ UNCHANGED <<rxSignalReceived, needRxSignalBefore, dataRequired, auxRequired,
                       skipRxSamples, suspendRxSignalUntil>>
    BY <1>6, Zenon DEF RxTick, signal, resume
  <2> QED
    BY <2>1, <2>2, <2>3, <2>4, <2>5, <2>6, <2>7 DEF RxTypeOK
<1>7. CASE UNCHANGED vars
  <2>1. UNCHANGED rxVars
    BY <1>7 DEF vars
  <2> QED
    BY <1>7, <2>1, LinkKept DEF vars, RxTypeOK, signal, requests, resume, history, overtaken
<1> QED
  BY <1>1, <1>2, <1>3, <1>4, <1>5, <1>6, <1>7 DEF Next

(* The deadlines and the ages of the receiver stay within their bounds.     *)
THEOREM RxTypeCorrect == Spec => []RxTypeOK
BY InitTyped, StepTyped, PTL DEF Spec
-----------------------------------------------------------------------------
(* What the actions do to the link, to the schedule and to the histories.   *)
LEMMA CheckDoes ==
  ASSUME RxTypeOK, NEW status, Check(status)
  PROVE  /\ rxTask = "waiting" /\ checked' = TRUE
         /\ rxTask' = IF dataRequired' \/ auxRequired' THEN "due" ELSE "waiting"
         /\ HasPassed(updateIn) => dataRequired' = TRUE
         /\ UNCHANGED <<rxLinkState, sinceReceived, sinceFailed, now, updateIn, resume,
                        expiresIn, brokenFor, samplesStopped>>
         /\ \/ "COMPLETE" \in status /\ "FAILSAFE" \notin status
               /\ rxSignalReceived' = TRUE /\ needRxSignalBefore' = After(SignalTimeout)
               /\ silentFor' = 0 /\ goodFor' = goodFor /\ goodTick' = goodTick
            \/ "FAILSAFE" \in status
               /\ rxSignalReceived' = FALSE /\ silentFor' = silentFor
               /\ deadlineMissed' = deadlineMissed
               /\ goodFor' = 0 /\ goodTick' = FALSE
            \/ "COMPLETE" \notin status /\ "FAILSAFE" \notin status
               /\ rxSignalReceived' \in StillReceived
               /\ (rxSignalReceived' => needRxSignalBefore' = needRxSignalBefore)
               /\ silentFor' = silentFor /\ goodFor' = goodFor /\ goodTick' = goodTick
               /\ deadlineMissed' = deadlineMissed
<1>1. HasPassed(updateIn) => dataRequired' = TRUE
  BY Zenon DEF Check
<1>2. UNCHANGED <<rxLinkState, sinceReceived, sinceFailed, now, updateIn, resume,
                  expiresIn, brokenFor, samplesStopped>>
  BY Zenon DEF Check, rxVars
<1>3. CASE "COMPLETE" \in status /\ "FAILSAFE" \notin status
  <2>1. rxSignalReceived' = TRUE /\ goodTick' = goodTick /\ goodFor' = goodFor
    BY <1>3 DEF Check, SignalOfFrame, RxTypeOK
  <2> QED
    BY <1>1, <1>2, <1>3, <2>1, Zenon DEF Check
<1>4. CASE "FAILSAFE" \in status
  <2>1. rxSignalReceived' = FALSE
    BY <1>4 DEF Check, SignalOfFrame
  <2>2. silentFor' = silentFor /\ goodTick' = FALSE /\ deadlineMissed' = deadlineMissed
    BY <1>4 DEF Check, RxTypeOK
  <2> QED
    BY <1>1, <1>2, <1>4, <2>1, <2>2, Zenon DEF Check
<1>5. CASE "COMPLETE" \notin status /\ "FAILSAFE" \notin status
  <2>1. rxSignalReceived' \in StillReceived
    BY <1>5 DEF Check, StillReceived, RxTypeOK
  <2>2. /\ silentFor' = silentFor
        /\ (goodTick' <=> goodTick) /\ goodTick \in BOOLEAN /\ goodTick' \in BOOLEAN
    BY <1>5, Zenon DEF Check, RxTypeOK
  <2>3. deadlineMissed' = deadlineMissed
    BY <1>5 DEF Check, RxTypeOK
  <2> QED
    BY <1>1, <1>2, <1>5, <2>1, <2>2, <2>3, Zenon DEF Check
<1> QED
  BY <1>3, <1>4, <1>5

LEMMA TickDoes ==
  ASSUME RxTypeOK, RxTick
  PROVE  /\ rxTask = "due" \/ (rxTask = "waiting" /\ checked)
         /\ rxTask' = (IF rxTask = "due" THEN "late" ELSE "waiting") /\ checked' = FALSE
         /\ UNCHANGED <<rxLinkState, rxSignalReceived, needRxSignalBefore, dataRequired,
                        skipRxSamples>>
         /\ sinceReceived' = Older(sinceReceived, RxDataFailurePeriod)
         /\ sinceFailed' = Older(sinceFailed, RxDataRecoveryPeriod)
         /\ now' = After(1) /\ updateIn' = Countdown(updateIn)
         /\ silentFor' \in Nat /\ silentFor' > 0 /\ silentFor' <= silentFor + 1
         /\ brokenFor' \in Nat /\ brokenFor' <= brokenFor + 1
         /\ \A c \in Channels : expiresIn'[c] = Countdown(expiresIn[c])
         /\ deadlineMissed' = (deadlineMissed \/ DeadlineJumped')
         /\ samplesStopped' = (samplesStopped \/ ResumeAhead')
<1>1. UNCHANGED <<rxLinkState, rxSignalReceived, needRxSignalBefore, dataRequired, skipRxSamples>>
  BY Zenon DEF RxTick, LinkTick, signal, resume
<1>2. /\ silentFor' \in Nat /\ silentFor' > 0 /\ silentFor' <= silentFor + 1
      /\ brokenFor' \in Nat /\ brokenFor' <= brokenFor + 1
  BY Constants DEF RxTick, UpTo, RxTypeOK
<1> QED
  BY <1>1, <1>2, Zenon DEF RxTick, LinkTick

LEMMA Actions ==
  ASSUME Next
  PROVE  \/ \E status \in SUBSET FrameBits : Check(status)
         \/ OnlyAuxiliary \/ SkipSample
         \/ \E valid \in SUBSET Channels : ProcessSample(valid)
         \/ Resume \/ RxTick
BY Zenon DEF Next

(* What a run of the task leaves that takes no sample.                       *)
LEMMA QuietKeeps ==
  ASSUME OnlyAuxiliary
  PROVE  /\ rxTask' = "waiting"
         /\ UNCHANGED <<rxLinkState, sinceReceived, sinceFailed, now, rxSignalReceived,
                        needRxSignalBefore, updateIn, dataRequired, resume, skipRxSamples,
                        expiresIn, checked, silentFor, brokenFor, goodFor, goodTick,
                        deadlineMissed, samplesStopped>>
BY Zenon DEF OnlyAuxiliary, RunTask, rxVars, signal, resume

LEMMA SampleDoes ==
  ASSUME RxTypeOK, SkipSample \/ (\E valid \in SUBSET Channels : ProcessSample(valid))
  PROVE  /\ rxTask' = "waiting" /\ updateIn' = UpdatePeriod
         /\ UNCHANGED <<now, rxSignalReceived, needRxSignalBefore, checked, silentFor,
                        deadlineMissed>>
<1>1. Sample
  BY Zenon DEF SkipSample, ProcessSample
<1> QED
  BY <1>1, TaskRuns, Zenon

LEMMA ResumeDoes ==
  ASSUME Resume
  PROVE  /\ rxLinkState' = "UP" /\ sinceReceived' = 0 /\ skipRxSamples' = SkippedSamples
         /\ suspendRxSignalUntil' = now /\ samplesStopped' = FALSE
         /\ silentFor' = 0 /\ brokenFor' = 0 /\ goodFor' = 0 /\ goodTick' = FALSE
         /\ UNCHANGED <<now, rxSignalReceived, needRxSignalBefore, updateIn, dataRequired,
                        auxRequired, expiresIn, rxTask, checked, deadlineMissed>>
BY Zenon DEF Resume, RxResumed, LinkReset, signal, requests
-----------------------------------------------------------------------------
(* The check function has been called before every tick, and a sample that
   is overdue is asked for by the first check that sees it.                 *)
Scheduled ==
    /\ rxTask = "due" => checked
    /\ checked /\ updateIn < 0 => rxTask = "due" /\ dataRequired

LEMMA ScheduledStep == ASSUME RxTypeOK, Scheduled, Next PROVE Scheduled'
<1>1. CASE \E status \in SUBSET FrameBits : Check(status)
  BY <1>1, CheckDoes DEF Scheduled, HasPassed
<1>2. CASE OnlyAuxiliary
  <2>1. rxTask # "waiting" /\ rxTask' = "waiting" /\ ~dataRequired
    BY <1>2, Zenon DEF OnlyAuxiliary, RunTask
  <2> QED
    BY <1>2, <2>1, QuietKeeps DEF Scheduled
<1>3. CASE SkipSample \/ (\E valid \in SUBSET Channels : ProcessSample(valid))
  <2>1. rxTask' = "waiting" /\ updateIn' = UpdatePeriod
    BY <1>3, SampleDoes, Zenon
  <2> QED
    BY <2>1, Constants DEF Scheduled
<1>4. CASE Resume
  BY <1>4, ResumeDoes DEF Scheduled
<1>5. CASE RxTick
  BY <1>5, TickDoes DEF Scheduled
<1> QED
  BY <1>1, <1>2, <1>3, <1>4, <1>5, Actions

(* No longer ago than this a sample was taken.                              *)
SampleAge ==
    IF updateIn >= 0 THEN UpdatePeriod - updateIn
    ELSE UpdatePeriod + (IF rxTask = "late" /\ dataRequired THEN 2 ELSE 1)

LEMMA SampleAgeSteps ==
  ASSUME RxTypeOK, Scheduled
  PROVE  /\ SampleAge \in 0 .. Late
         /\ SkipSample \/ (\E valid \in SUBSET Channels : ProcessSample(valid))
               => SampleAge' = 0
         /\ Resume \/ OnlyAuxiliary
              \/ (\E status \in SUBSET FrameBits : Check(status)) => SampleAge' = SampleAge
         /\ RxTick => SampleAge' \in Int /\ SampleAge' > SampleAge
<1> USE Constants
<1>1. SampleAge \in 0 .. Late
  BY DEF SampleAge, Late, RxTypeOK, Expired
<1>2. ASSUME SkipSample \/ (\E valid \in SUBSET Channels : ProcessSample(valid))
      PROVE  SampleAge' = 0
  <2>1. updateIn' = UpdatePeriod
    BY <1>2, SampleDoes, Zenon
  <2> QED
    BY <2>1 DEF SampleAge
<1>3. ASSUME Resume PROVE SampleAge' = SampleAge
  BY <1>3, ResumeDoes DEF SampleAge
<1>4. ASSUME OnlyAuxiliary PROVE SampleAge' = SampleAge
  <2>1. rxTask' = "waiting" /\ ~dataRequired
    BY <1>4, Zenon DEF OnlyAuxiliary, RunTask
  <2> QED
    BY <1>4, <2>1, QuietKeeps DEF SampleAge
<1>5. ASSUME NEW status \in SUBSET FrameBits, Check(status) PROVE SampleAge' = SampleAge
  BY <1>5, CheckDoes DEF SampleAge
<1>6. ASSUME RxTick PROVE SampleAge' \in Int /\ SampleAge' > SampleAge
  <2>1. /\ rxTask = "due" \/ (rxTask = "waiting" /\ checked)
        /\ rxTask' = (IF rxTask = "due" THEN "late" ELSE "waiting")
        /\ dataRequired' = dataRequired /\ updateIn' = Countdown(updateIn)
    BY <1>6, TickDoes, Zenon
  <2>2. updateIn \in Expired .. UpdatePeriod
    BY DEF RxTypeOK
  <2>3. updateIn < 0 => rxTask = "due" /\ dataRequired
    BY <2>1, Zenon DEF Scheduled
  <2> QED
    BY <2>1, <2>2, <2>3 DEF SampleAge, Countdown, Expired
<1> QED
  BY <1>1, <1>2, <1>3, <1>4, <1>5, <1>6
-----------------------------------------------------------------------------
(* A signal that is believed is not older than its time-out: its deadline is
   ahead, or behind the next wrap, or was reached after the last check.  Only
   a deadline that the clock has jumped over is none of these.              *)
SignalIsRecent ==
    /\ rxTask = "due" => checked
    /\ rxSignalReceived /\ ~deadlineMissed =>
         \/ now <= needRxSignalBefore
            /\ silentFor + (needRxSignalBefore - now) <= SignalTimeout
         \/ needRxSignalBefore < now
            /\ silentFor + needRxSignalBefore + (LastTime + 1 - now) <= SignalTimeout
         \/ now = needRxSignalBefore + 1 /\ ~checked /\ silentFor <= SignalAge

LEMMA SignalIsRecentStep == ASSUME RxTypeOK, SignalIsRecent, Next PROVE SignalIsRecent'
<1> USE Constants
<1>0. /\ now \in 0 .. LastTime /\ needRxSignalBefore \in 0 .. LastTime
      /\ silentFor \in Nat /\ deadlineMissed \in BOOLEAN
  BY DEF RxTypeOK
<1>1. CASE \E status \in SUBSET FrameBits : Check(status)
  <2>1. PICK status \in SUBSET FrameBits : Check(status)
    BY <1>1
  <2>2. checked' = TRUE /\ now' = now
    BY <2>1, CheckDoes
  <2>3. \/ /\ rxSignalReceived' = TRUE /\ needRxSignalBefore' = After(SignalTimeout)
           /\ silentFor' = 0
        \/ rxSignalReceived' = FALSE
        \/ /\ rxSignalReceived' \in StillReceived
           /\ rxSignalReceived' => needRxSignalBefore' = needRxSignalBefore
           /\ silentFor' = silentFor /\ deadlineMissed' = deadlineMissed
    BY <2>1, CheckDoes, Zenon
  <2>4. CASE /\ rxSignalReceived' \in StillReceived
             /\ rxSignalReceived' => needRxSignalBefore' = needRxSignalBefore
             /\ silentFor' = silentFor /\ deadlineMissed' = deadlineMissed
    <3>1. PICK over \in DeadlineOver : rxSignalReceived' = (rxSignalReceived /\ ~over)
      BY <2>4 DEF StillReceived
    <3>2. ASSUME now > needRxSignalBefore PROVE over
      <4>1. now # needRxSignalBefore
        BY <1>0, <3>2
      <4>2. over \in {now > needRxSignalBefore}
        BY <4>1, Zenon DEF DeadlineOver
      <4> QED
        BY <3>2, <4>2, Zenon
    <3>3. rxSignalReceived' => rxSignalReceived /\ ~(now > needRxSignalBefore)
      BY <3>1, <3>2
    <3> QED
      BY <1>0, <2>2, <2>4, <3>3 DEF SignalIsRecent
  <2>5. CASE /\ rxSignalReceived' = TRUE /\ needRxSignalBefore' = After(SignalTimeout)
             /\ silentFor' = 0
    <3>1. \/ /\ now + SignalTimeout <= LastTime
             /\ After(SignalTimeout) = now + SignalTimeout
          \/ /\ now + SignalTimeout > LastTime
             /\ After(SignalTimeout) = now + SignalTimeout - LastTime - 1
      BY <1>0, ClockStays
    <3> QED
      BY <1>0, <2>2, <2>5, <3>1 DEF SignalIsRecent
  <2> QED
    BY <2>2, <2>3, <2>4, <2>5 DEF SignalIsRecent
<1>2. CASE OnlyAuxiliary
  BY <1>2, QuietKeeps DEF SignalIsRecent
<1>3. CASE SkipSample \/ (\E valid \in SUBSET Channels : ProcessSample(valid))
  <2>1. /\ rxTask' = "waiting"
        /\ UNCHANGED <<now, rxSignalReceived, needRxSignalBefore, checked, silentFor,
                       deadlineMissed>>
    BY <1>3, SampleDoes, Zenon
  <2> QED
    BY <2>1 DEF SignalIsRecent
<1>4. CASE Resume
  <2>1. /\ silentFor' = 0
        /\ UNCHANGED <<now, rxSignalReceived, needRxSignalBefore, rxTask, checked, deadlineMissed>>
    BY <1>4, ResumeDoes, Zenon
  <2> QED
    BY <1>0, <2>1 DEF SignalIsRecent
<1>5. CASE RxTick
  <2>1. /\ checked /\ checked' = FALSE /\ rxTask' # "due"
        /\ rxSignalReceived' = rxSignalReceived /\ needRxSignalBefore' = needRxSignalBefore
        /\ now' = After(1)
        /\ silentFor' \in Nat /\ silentFor' > 0 /\ silentFor' <= silentFor + 1
        /\ deadlineMissed' = (deadlineMissed \/ DeadlineJumped')
    BY <1>5, TickDoes DEF SignalIsRecent
  <2>2. SUFFICES ASSUME rxSignalReceived, ~deadlineMissed, ~DeadlineJumped'
                 PROVE  SignalIsRecent'
    BY <1>0, <2>1 DEF SignalIsRecent
  <2>3. \/ /\ now <= needRxSignalBefore
           /\ silentFor + (needRxSignalBefore - now) <= SignalTimeout
        \/ /\ needRxSignalBefore < now
           /\ silentFor + needRxSignalBefore + (LastTime + 1 - now) <= SignalTimeout
    BY <2>1, <2>2 DEF SignalIsRecent
  <2>4. CASE now < LastTime /\ now' = now + 1
    BY <1>0, <2>1, <2>3, <2>4 DEF SignalIsRecent
  <2>5. CASE now = LastTime /\ now' = 0
    <3>1. ~(needRxSignalBefore > SignalTimeout)
      BY <1>0, <2>1, <2>2, <2>5 DEF DeadlineJumped
    <3> QED
      BY <1>0, <2>1, <2>3, <2>5, <3>1 DEF SignalIsRecent
  <2> QED
    BY <1>0, <2>1, <2>4, <2>5, ClockTicks
<1> QED
  BY <1>1, <1>2, <1>3, <1>4, <1>5, Actions

(* A resume that the clock has wrapped over is on record.                   *)
StopIsSeen == ResumeAhead => samplesStopped

LEMMA StopIsSeenStep == ASSUME RxTypeOK, StopIsSeen, Next PROVE StopIsSeen'
<1>0. now \in Nat /\ suspendRxSignalUntil \in Nat /\ skipRxSamples \in Nat
  BY Constants DEF RxTypeOK, SkippedSamples
<1>1. CASE \/ \E status \in SUBSET FrameBits : Check(status)
           \/ OnlyAuxiliary
  <2>1. UNCHANGED <<now, skipRxSamples, suspendRxSignalUntil, samplesStopped>>
    BY <1>1, CheckDoes, QuietKeeps, Zenon DEF resume
  <2> QED
    BY <2>1 DEF StopIsSeen, ResumeAhead
<1>2. CASE SkipSample
  <2>1. now' = now /\ samplesStopped' = samplesStopped /\ skipRxSamples > 0
    BY <1>2, SampleDoes, Zenon DEF SkipSample
  <2>2. \/ skipRxSamples' = skipRxSamples /\ suspendRxSignalUntil' = suspendRxSignalUntil
        \/ /\ ~ResumeAhead
           /\ suspendRxSignalUntil' \in {0, suspendRxSignalUntil}
    BY <1>2, Zenon DEF SkipSample, resume
  <2> QED
    BY <1>0, <2>1, <2>2 DEF StopIsSeen, ResumeAhead
<1>3. CASE \E valid \in SUBSET Channels : ProcessSample(valid)
  <2>1. skipRxSamples' = 0
    BY <1>3, Zenon DEF ProcessSample, resume
  <2> QED
    BY <2>1 DEF StopIsSeen, ResumeAhead
<1>4. CASE Resume
  <2>1. now' = now /\ suspendRxSignalUntil' = now
    BY <1>4, ResumeDoes
  <2> QED
    BY <1>0, <2>1 DEF StopIsSeen, ResumeAhead
<1>5. CASE RxTick
  BY <1>5, TickDoes DEF StopIsSeen
<1> QED
  BY <1>1, <1>2, <1>3, <1>4, <1>5, Actions

(* Nor is a held value of a channel older than what it is held for.         *)
PulseIsRecent == expiresIn[Watched] >= 0 => brokenFor + expiresIn[Watched] <= Hold

LEMMA PulseIsRecentStep == ASSUME RxTypeOK, PulseIsRecent, Next PROVE PulseIsRecent'
<1> USE Constants
<1>1. CASE \/ \E status \in SUBSET FrameBits : Check(status)
           \/ OnlyAuxiliary
  BY <1>1, CheckDoes, QuietKeeps DEF PulseIsRecent
<1>2. CASE SkipSample
  <2>1. UNCHANGED <<expiresIn, brokenFor>>
    BY <1>2, Zenon DEF SkipSample
  <2> QED
    BY <2>1 DEF PulseIsRecent
<1>3. CASE \E valid \in SUBSET Channels : ProcessSample(valid)
  <2>1. PICK valid \in SUBSET Channels : ProcessSample(valid)
    BY <1>3
  <2>2. /\ expiresIn'[Watched] = IF Watched \in valid THEN Hold ELSE expiresIn[Watched]
        /\ brokenFor' = IF Watched \in valid THEN 0 ELSE brokenFor
    BY <2>1 DEF ProcessSample, HoldOf
  <2> QED
    BY <2>2 DEF PulseIsRecent
<1>4. CASE Resume
  <2>1. expiresIn[Watched] \in Expired .. Hold
    BY DEF RxTypeOK, Deadlines
  <2> QED
    BY <1>4, <2>1, ResumeDoes DEF PulseIsRecent
<1>5. CASE RxTick
  <2>1. expiresIn[Watched] \in Expired .. Hold
    BY DEF RxTypeOK, Deadlines
  <2>2. /\ expiresIn'[Watched] = Countdown(expiresIn[Watched])
        /\ brokenFor' \in Nat /\ brokenFor' <= brokenFor + 1
    BY <1>5, TickDoes, Zenon
  <2>3. brokenFor \in Nat
    BY DEF RxTypeOK
  <2>4. /\ expiresIn'[Watched] \in Int
        /\ expiresIn'[Watched] >= 0 =>
              expiresIn[Watched] > 0 /\ expiresIn'[Watched] = expiresIn[Watched] - 1
    BY <2>1, <2>2, CountsDown
  <2> QED
    BY <2>1, <2>2, <2>3, <2>4 DEF PulseIsRecent
<1> QED
  BY <1>1, <1>2, <1>3, <1>4, <1>5, Actions
-----------------------------------------------------------------------------
(* What a sample tells the tracker.                                         *)
LEMMA SampleTells ==
  ASSUME NEW valid \in SUBSET Channels, ProcessSample(valid)
  PROVE  /\ \/ /\ rxSignalReceived /\ Accepted(valid)
               /\ sinceReceived' = 0 /\ sinceFailed' = sinceFailed
               /\ rxLinkState' = IF sinceFailed > RxDataRecoveryPeriod THEN "UP" ELSE rxLinkState
            \/ /\ ~Accepted(valid)
               /\ sinceReceived' = sinceReceived /\ sinceFailed' = 0
               /\ rxLinkState' = IF sinceReceived > RxDataFailurePeriod THEN "DOWN" ELSE rxLinkState
         /\ skipRxSamples = 0 /\ skipRxSamples' = 0
<1>1. CASE Accepted(valid)
  BY <1>1, Zenon DEF ProcessSample, Accepted, ValidDataReceived, resume
<1>2. CASE ~Accepted(valid)
  BY <1>2, Zenon DEF ProcessSample, ValidDataFailed, resume
<1> QED
  BY <1>1, <1>2

(* The tracker's age of the data and a true age of it: a claim that survives
   a step if no accepted sample finds the true age above `limit'.           *)
LEMMA AgesTogether ==
  ASSUME RxTypeOK, Next, NEW limit \in Nat, NEW age \in Nat, NEW after \in Nat,
         sinceReceived <= RxDataFailurePeriod => age <= sinceReceived + limit,
         RxTick => after <= age + 1, RxTick \/ after <= age,
         Resume => after = 0,
         \A valid \in SUBSET Channels : ProcessSample(valid) /\ Accepted(valid) => after <= limit
  PROVE  (sinceReceived <= RxDataFailurePeriod)' => after <= sinceReceived' + limit
<1> USE Constants
<1>0. sinceReceived \in Nat /\ sinceReceived <= RxDataFailurePeriod + 1
  BY DEF RxTypeOK, LinkTypeOK
<1>1. CASE RxTick
  <2>1. sinceReceived' = Older(sinceReceived, RxDataFailurePeriod)
    BY <1>1, TickDoes, Zenon
  <2>2. sinceReceived' <= RxDataFailurePeriod => sinceReceived' = sinceReceived + 1
    BY <1>0, <2>1 DEF Older
  <2>3. after <= age + 1
    BY <1>1
  <2> QED
    BY <1>0, <2>2, <2>3
<1>2. CASE Resume
  <2>1. after = 0 /\ sinceReceived' = 0
    BY <1>2, ResumeDoes
  <2> QED
    BY <2>1
<1>3. CASE /\ after <= age
           /\ \E valid \in SUBSET Channels : ProcessSample(valid)
  <2>1. PICK valid \in SUBSET Channels : ProcessSample(valid)
    BY <1>3
  <2>2. \/ Accepted(valid) /\ sinceReceived' = 0
        \/ sinceReceived' = sinceReceived
    BY <2>1, SampleTells, Zenon
  <2>3. Accepted(valid) => after <= limit
    BY <2>1
  <2> QED
    BY <1>0, <1>3, <2>2, <2>3
<1>4. CASE /\ after <= age
           /\ \/ \E status \in SUBSET FrameBits : Check(status)
              \/ OnlyAuxiliary \/ SkipSample
  <2>1. sinceReceived' = sinceReceived
    BY <1>4, Zenon DEF Check, OnlyAuxiliary, SkipSample, rxVars
  <2> QED
    BY <1>0, <1>4, <2>1
<1> QED
  BY <1>1, <1>2, <1>3, <1>4, Actions
-----------------------------------------------------------------------------
(* While the link is up, a true age of the data is bounded by what the
   time-outs allow and the time since the last sample; right after a resume
   by the samples that were skipped.                                        *)
Allowed(timeouts) ==
    IF skipRxSamples = 0 THEN timeouts ELSE (SkippedSamples - skipRxSamples) * Late

LEMMA AllowedAtMost ==
  ASSUME NEW timeouts \in Nat, 2 * Late <= timeouts, skipRxSamples \in 0 .. SkippedSamples
  PROVE  Allowed(timeouts) \in Nat /\ Allowed(timeouts) <= timeouts
<1> USE Constants DEF Allowed, SkippedSamples
<1>1. CASE skipRxSamples = 0
  BY <1>1
<1>2. CASE skipRxSamples = 1
  BY <1>2
<1>3. CASE skipRxSamples = 2
  BY <1>3
<1> QED
  BY <1>1, <1>2, <1>3

LEMMA UpIsShort ==
  ASSUME RxTypeOK, Scheduled, StopIsSeen, Next,
         NEW limit \in Nat, NEW age \in Nat, NEW after \in Nat,
         2 * Late <= limit + RxDataFailurePeriod,
         ~samplesStopped /\ rxLinkState = "UP"
           => age <= Allowed(limit + RxDataFailurePeriod) + SampleAge,
         RxTick => after <= age + 1, RxTick \/ after <= age,
         Resume => after = 0,
         \A valid \in SUBSET Channels : ProcessSample(valid) /\ Accepted(valid) => after <= limit,
         sinceReceived <= RxDataFailurePeriod => age <= sinceReceived + limit
  PROVE  (~samplesStopped /\ rxLinkState = "UP")'
            => after <= Allowed(limit + RxDataFailurePeriod)' + SampleAge'
<1> USE Constants
<1>0. /\ SampleAge \in Nat /\ SampleAge <= Late
      /\ skipRxSamples \in {0, 1, 2} /\ sinceReceived \in Nat
  BY SampleAgeSteps DEF RxTypeOK, LinkTypeOK, SkippedSamples
<1> DEFINE timeouts == limit + RxDataFailurePeriod
<1>1. CASE RxTick
  <2>1. UNCHANGED <<rxLinkState, skipRxSamples>> /\ (samplesStopped => samplesStopped')
    BY <1>1, TickDoes, Zenon
  <2>2. SampleAge' \in Int /\ SampleAge' > SampleAge
    BY <1>1, SampleAgeSteps
  <2>3. Allowed(timeouts)' = Allowed(timeouts) /\ Allowed(timeouts) \in Nat
    BY <1>0, <2>1 DEF Allowed, SkippedSamples
  <2> QED
    BY <1>0, <1>1, <2>1, <2>2, <2>3
<1>2. CASE Resume
  <2>1. after = 0 /\ skipRxSamples' = SkippedSamples
    BY <1>2, ResumeDoes
  <2>2. SampleAge' = SampleAge
    BY <1>2, SampleAgeSteps
  <2>3. Allowed(timeouts)' = 0
    BY <2>1 DEF Allowed, SkippedSamples
  <2> QED
    BY <1>0, <2>1, <2>2, <2>3
<1>3. CASE /\ after <= age
           /\ \E valid \in SUBSET Channels : ProcessSample(valid)
  <2>1. PICK valid \in SUBSET Channels : ProcessSample(valid)
    BY <1>3
  <2>2. SampleAge' = 0
    BY <2>1, SampleAgeSteps
  <2>3. Allowed(timeouts)' = timeouts
    BY <2>1, SampleTells DEF Allowed
  <2>4. CASE Accepted(valid)
    BY <1>0, <2>1, <2>2, <2>3, <2>4
  <2>5. CASE ~Accepted(valid)
    <3>1. rxLinkState' = IF sinceReceived > RxDataFailurePeriod THEN "DOWN" ELSE rxLinkState
      BY <2>1, <2>5, SampleTells, Zenon
    <3> QED
      BY <1>0, <1>3, <2>2, <2>3, <3>1
  <2> QED
    BY <2>4, <2>5
<1>4. CASE after <= age /\ SkipSample
  <2>1. /\ rxLinkState' = rxLinkState /\ samplesStopped' = samplesStopped /\ skipRxSamples > 0
        /\ samplesStopped \/ skipRxSamples' = skipRxSamples - 1
    BY <1>4, Zenon DEF SkipSample, StopIsSeen, rxVars
  <2>2. SampleAge' = 0
    BY <1>4, SampleAgeSteps
  <2>3. CASE ~samplesStopped /\ rxLinkState = "UP" /\ skipRxSamples = 2
    <3>1. age <= Late
      BY <1>0, <2>3 DEF Allowed, SkippedSamples
    <3>2. Allowed(timeouts)' = Late
      BY <2>1, <2>3 DEF Allowed, SkippedSamples
    <3> QED
      BY <1>4, <2>2, <3>1, <3>2
  <2>4. CASE ~samplesStopped /\ rxLinkState = "UP" /\ skipRxSamples = 1
    <3>1. age <= 2 * Late
      BY <1>0, <2>4 DEF Allowed, SkippedSamples
    <3>2. Allowed(timeouts)' = timeouts
      BY <2>1, <2>4 DEF Allowed
    <3> QED
      BY <1>4, <2>2, <3>1, <3>2
  <2> QED
    BY <1>0, <2>1, <2>3, <2>4
<1>5. CASE /\ after <= age
           /\ OnlyAuxiliary \/ \E status \in SUBSET FrameBits : Check(status)
  <2>1. UNCHANGED <<rxLinkState, skipRxSamples, samplesStopped>>
    BY <1>5, Zenon DEF Check, OnlyAuxiliary, rxVars, resume
  <2>2. SampleAge' = SampleAge
    BY <1>5, SampleAgeSteps
  <2>3. Allowed(timeouts)' = Allowed(timeouts) /\ Allowed(timeouts) \in Nat
    BY <1>0, <2>1 DEF Allowed, SkippedSamples
  <2> QED
    BY <1>0, <1>5, <2>1, <2>2, <2>3
<1> QED
  BY <1>1, <1>2, <1>3, <1>4, <1>5, Actions
-----------------------------------------------------------------------------
(* A signal that is good in every tick keeps asking for samples, so that
   none is taken for want of one while the flag may be down, and the tracker
   counts the time since the last bad sample as far as the good signal.     *)
SampledWhileGood ==
    /\ rxTask = "waiting" => ~dataRequired
    /\ goodTick /\ silentFor = 0 => dataRequired \/ updateIn = UpdatePeriod
    /\ goodFor > 0 => dataRequired \/ updateIn >= 0
    /\ goodFor > 0 \/ (goodTick /\ silentFor = 0) => (dataRequired => rxSignalReceived)
GoodIsCounted ==
    /\ sinceFailed < goodFor => sinceFailed > RxDataRecoveryPeriod
    /\ skipRxSamples > 0 => rxLinkState = "UP"
    /\ rxLinkState = "DOWN" => goodFor <= RxDataRecoveryPeriod + SampleAge
GoodIsSeen == SampledWhileGood /\ GoodIsCounted

LEMMA TickCountsGood ==
  ASSUME RxTypeOK, RxTick
  PROVE  /\ goodFor' \in Nat /\ goodFor' <= goodFor + 1
         /\ goodFor' > 0 => goodTick /\ silentFor = 0
BY Constants DEF RxTick, UpTo, RxTypeOK

LEMMA SampledWhileGoodStep ==
  ASSUME RxTypeOK, SampledWhileGood, Next
  PROVE  SampledWhileGood'
<1> USE Constants
<1>0. goodFor \in Nat /\ silentFor \in Nat /\ updateIn \in Int
  BY DEF RxTypeOK, Expired
<1>1. CASE \E status \in SUBSET FrameBits : Check(status)
  <2>1. PICK status \in SUBSET FrameBits : Check(status)
    BY <1>1
  <2>2. /\ rxTask = "waiting" /\ updateIn' = updateIn
        /\ rxTask' = IF dataRequired' \/ auxRequired' THEN "due" ELSE "waiting"
        /\ dataRequired' = (dataRequired \/ "COMPLETE" \in status \/ HasPassed(updateIn))
    BY <2>1, Zenon DEF Check
  <2>3. CASE "COMPLETE" \in status /\ "FAILSAFE" \notin status
    <3>1. rxSignalReceived' = TRUE /\ dataRequired'
      BY <2>1, <2>2, <2>3, CheckDoes
    <3> QED
      BY <2>2, <3>1 DEF SampledWhileGood
  <2>4. CASE "FAILSAFE" \in status
    <3>1. goodFor' = 0 /\ goodTick' = FALSE
      BY <2>1, <2>4, CheckDoes
    <3> QED
      BY <2>2, <3>1 DEF SampledWhileGood
  <2>5. CASE "COMPLETE" \notin status /\ "FAILSAFE" \notin status
    <3>1. silentFor' = silentFor /\ goodFor' = goodFor /\ goodTick' = goodTick
      BY <2>1, <2>5, CheckDoes
    <3>2. goodFor > 0 \/ (goodTick /\ silentFor = 0) => updateIn >= 0 /\ ~dataRequired
      BY <2>2 DEF SampledWhileGood
    <3>3. updateIn >= 0 /\ ~dataRequired => ~dataRequired'
      <4>1. updateIn >= 0 => ~HasPassed(updateIn)
        BY <1>0 DEF HasPassed
      <4> QED
        BY <2>2, <2>5, <4>1, Zenon
    <3> QED
      BY <2>2, <3>1, <3>2, <3>3 DEF SampledWhileGood
  <2> QED
    BY <2>3, <2>4, <2>5
<1>2. CASE OnlyAuxiliary
  <2>1. ~dataRequired
    BY <1>2, Zenon DEF OnlyAuxiliary
  <2> QED
    BY <1>2, <2>1, QuietKeeps DEF SampledWhileGood
<1>3. CASE SkipSample \/ (\E valid \in SUBSET Channels : ProcessSample(valid))
  <2>1. dataRequired' = FALSE /\ updateIn' = UpdatePeriod
    BY <1>3, Zenon DEF SkipSample, ProcessSample, Sample
  <2> QED
    BY <2>1 DEF SampledWhileGood
<1>4. CASE Resume
  BY <1>4, ResumeDoes DEF SampledWhileGood
<1>5. CASE RxTick
  <2>1. /\ UNCHANGED <<rxSignalReceived, dataRequired>>
        /\ rxTask' = "waiting" => rxTask = "waiting"
        /\ updateIn' = Countdown(updateIn) /\ silentFor' > 0
    BY <1>5, TickDoes
  <2>2. goodFor' > 0 => goodTick /\ silentFor = 0
    BY <1>5, TickCountsGood
  <2>3. updateIn = UpdatePeriod => updateIn' >= 0
    BY <1>0, <2>1 DEF Countdown, Expired
  <2> QED
    BY <2>1, <2>2, <2>3 DEF SampledWhileGood
<1> QED
  BY <1>1, <1>2, <1>3, <1>4, <1>5, Actions

LEMMA GoodIsCountedStep ==
  ASSUME RxTypeOK, Scheduled, GoodIsSeen, Next
  PROVE  GoodIsCounted'
<1> USE Constants
<1>0. /\ SampleAge \in Nat /\ goodFor \in Nat /\ sinceFailed \in Nat
      /\ rxLinkState \in {"UP", "DOWN"} /\ sinceFailed <= RxDataRecoveryPeriod + 1
  BY SampleAgeSteps DEF RxTypeOK, LinkTypeOK
<1>1. CASE \E status \in SUBSET FrameBits : Check(status)
  <2>1. UNCHANGED <<rxLinkState, sinceFailed, skipRxSamples>> /\ SampleAge' = SampleAge
    BY <1>1, CheckDoes, SampleAgeSteps DEF resume
  <2>2. goodFor' \in {0, goodFor}
    BY <1>1, CheckDoes
  <2> QED
    BY <1>0, <2>1, <2>2 DEF GoodIsSeen, GoodIsCounted
<1>2. CASE OnlyAuxiliary
  <2>1. UNCHANGED <<goodFor, sinceFailed, skipRxSamples, rxLinkState>>
    BY <1>2, QuietKeeps, Zenon
  <2>2. SampleAge' = SampleAge
    BY <1>2, SampleAgeSteps
  <2> QED
    BY <2>1, <2>2 DEF GoodIsSeen, GoodIsCounted
<1>3. CASE SkipSample
  <2>1. UNCHANGED <<goodFor, sinceFailed, rxLinkState>> /\ skipRxSamples > 0
    BY <1>3, Zenon DEF SkipSample, rxVars
  <2> QED
    BY <1>0, <2>1 DEF GoodIsSeen, GoodIsCounted
<1>4. CASE \E valid \in SUBSET Channels : ProcessSample(valid)
  <2>1. PICK valid \in SUBSET Channels : ProcessSample(valid)
    BY <1>4
  <2>2. dataRequired /\ SampleAge' = 0 /\ skipRxSamples' = 0
    BY <2>1, SampleAgeSteps, SampleTells DEF ProcessSample, Sample
  <2>3. goodFor' = 0 \/ (goodFor' = goodFor /\ FlightChannels \subseteq valid)
    BY <2>1, Zenon DEF ProcessSample
  <2>4. CASE Accepted(valid)
    <3>1. /\ sinceFailed' = sinceFailed
          /\ rxLinkState' = IF sinceFailed > RxDataRecoveryPeriod THEN "UP" ELSE rxLinkState
      BY <2>1, <2>4, SampleTells, Zenon
    <3> QED
      BY <1>0, <2>2, <2>3, <3>1 DEF GoodIsSeen, GoodIsCounted
  <2>5. CASE ~Accepted(valid)
    <3>1. ~(FlightChannels \subseteq valid /\ rxSignalReceived)
      BY <2>5 DEF Accepted
    <3>2. goodFor' = 0
      BY <1>0, <2>2, <2>3, <3>1 DEF GoodIsSeen, SampledWhileGood
    <3>3. sinceFailed' = 0
      BY <2>1, <2>5, SampleTells, Zenon
    <3> QED
      BY <1>0, <2>2, <3>2, <3>3 DEF GoodIsCounted
  <2> QED
    BY <2>4, <2>5
<1>5. CASE Resume
  <2>1. rxLinkState' = "UP" /\ goodFor' = 0
    BY <1>5, ResumeDoes
  <2>2. sinceFailed' \in Nat
    BY <1>0, <1>5 DEF Resume, RxResumed, LinkReset
  <2> QED
    BY <2>1, <2>2 DEF GoodIsCounted
<1>6. CASE RxTick
  <2>1. /\ UNCHANGED <<rxLinkState, skipRxSamples>>
        /\ sinceFailed' = Older(sinceFailed, RxDataRecoveryPeriod)
    BY <1>6, TickDoes, Zenon
  <2>2. /\ goodFor' \in Nat /\ goodFor' <= goodFor + 1
        /\ SampleAge' \in Int /\ SampleAge' > SampleAge
    BY <1>6, TickCountsGood, SampleAgeSteps
  <2>3. sinceFailed' < goodFor' => sinceFailed' > RxDataRecoveryPeriod
    <3>1. CASE sinceFailed > RxDataRecoveryPeriod
      BY <2>1, <3>1 DEF Older
    <3>2. CASE ~(sinceFailed > RxDataRecoveryPeriod)
      <4>1. goodFor <= sinceFailed /\ sinceFailed' = sinceFailed + 1
        BY <1>0, <2>1, <3>2 DEF GoodIsSeen, GoodIsCounted, Older
      <4>2. ~(sinceFailed' < goodFor')
        BY <1>0, <2>2, <4>1
      <4> QED
        BY <4>2
    <3> QED
      BY <3>1, <3>2
  <2>4. goodFor <= RxDataRecoveryPeriod + SampleAge
          => goodFor' <= RxDataRecoveryPeriod + SampleAge'
    BY <1>0, <2>2, Outgrown
  <2> QED
    BY <1>0, <2>1, <2>3, <2>4 DEF GoodIsSeen, GoodIsCounted
<1> QED
  BY <1>1, <1>2, <1>3, <1>4, <1>5, <1>6, Actions

-----------------------------------------------------------------------------
(* The facts above about the schedule, together.                            *)
RxInv == RxTypeOK /\ Scheduled /\ SignalIsRecent /\ StopIsSeen

LEMMA AlwaysRx == Spec => []RxInv
<1>1. Init => RxInv
  BY InitTyped, Constants DEF Init, RxInv, Scheduled, SignalIsRecent, StopIsSeen, ResumeAhead
<1>2. RxInv /\ [Next]_vars => RxInv'
  <2> SUFFICES ASSUME RxInv, [Next]_vars PROVE RxInv'
    OBVIOUS
  <2>1. CASE Next
    BY <2>1, StepTyped, ScheduledStep, SignalIsRecentStep, StopIsSeenStep DEF RxInv
  <2>2. CASE UNCHANGED vars
    <3>1. UNCHANGED <<rxTask, checked, updateIn, dataRequired, now, rxSignalReceived,
                      needRxSignalBefore, silentFor, skipRxSamples, suspendRxSignalUntil,
                      deadlineMissed, samplesStopped>>
      BY <2>2, Zenon DEF vars, requests, signal, resume, history, overtaken
    <3> QED
      BY <2>2, <3>1, StepTyped DEF RxInv, Scheduled, SignalIsRecent, StopIsSeen, ResumeAhead
  <2> QED
    BY <2>1, <2>2
<1> QED
  BY <1>1, <1>2, PTL DEF Spec

(* The true age of the last good frame, as far as its signal can be blamed on
   anybody, in a step.                                                      *)
SilentAge == IF deadlineMissed THEN 0 ELSE silentFor

LEMMA SilenceSteps ==
  ASSUME RxInv, Next
  PROVE  /\ SilentAge \in Nat /\ SilentAge' \in Nat
         /\ RxTick => SilentAge' <= SilentAge + 1
         /\ RxTick \/ SilentAge' <= SilentAge
         /\ Resume => SilentAge' = 0
         /\ \A valid \in SUBSET Channels :
               ProcessSample(valid) /\ Accepted(valid) => SilentAge' <= SignalAge
<1>1. silentFor \in Nat /\ silentFor' \in Nat
  BY StepTyped, Constants DEF RxInv, RxTypeOK
<1>2. ASSUME RxTick PROVE SilentAge' <= SilentAge + 1
  <2>1. silentFor' <= silentFor + 1 /\ (deadlineMissed => deadlineMissed')
    BY <1>2, TickDoes DEF RxInv
  <2> QED
    BY <1>1, <2>1 DEF SilentAge
<1>3. ASSUME Resume PROVE SilentAge' = 0
  BY <1>3, ResumeDoes DEF SilentAge
<1>4. RxTick \/ SilentAge' <= SilentAge
  <2>1. CASE \E status \in SUBSET FrameBits : Check(status)
    <3>1. silentFor' = 0 \/ (silentFor' = silentFor /\ deadlineMissed' = deadlineMissed)
      BY <2>1, CheckDoes, Zenon DEF RxInv
    <3> QED
      BY <1>1, <3>1 DEF SilentAge
  <2>2. CASE OnlyAuxiliary
    BY <1>1, <2>2, QuietKeeps DEF SilentAge
  <2>3. CASE SkipSample \/ (\E valid \in SUBSET Channels : ProcessSample(valid))
    BY <1>1, <2>3, SampleDoes DEF RxInv, SilentAge
  <2> QED
    BY <1>1, <1>3, <2>1, <2>2, <2>3, Actions DEF SilentAge
<1>5. ASSUME NEW valid \in SUBSET Channels, ProcessSample(valid), Accepted(valid)
      PROVE  SilentAge' <= SignalAge
  <2>1. silentFor' = silentFor /\ deadlineMissed' = deadlineMissed
    BY <1>5, SampleDoes DEF RxInv
  <2>2. /\ rxSignalReceived /\ now \in 0 .. LastTime /\ needRxSignalBefore \in 0 .. LastTime
    BY <1>5 DEF Accepted, RxInv, RxTypeOK
  <2>3. ASSUME ~deadlineMissed PROVE silentFor <= SignalAge
    <3>1. \/ /\ now <= needRxSignalBefore
             /\ silentFor + (needRxSignalBefore - now) <= SignalTimeout
          \/ silentFor + needRxSignalBefore + (LastTime + 1 - now) <= SignalTimeout
          \/ silentFor <= SignalAge
      BY <2>2, <2>3 DEF RxInv, SignalIsRecent
    <3> QED
      BY <1>1, <2>2, <3>1, Constants
  <2>4. SignalAge \in Nat
    BY Constants
  <2>5. CASE deadlineMissed
    BY <2>1, <2>4, <2>5 DEF SilentAge
  <2>6. CASE ~deadlineMissed
    BY <2>1, <2>3, <2>6 DEF SilentAge
  <2> QED
    BY <2>5, <2>6
<1> QED
  BY <1>1, <1>2, <1>3, <1>4, <1>5 DEF SilentAge

LEMMA StaleMeans ==
  ASSUME RxTypeOK
  PROVE  DataIsNotStale <=>
            (sinceReceived <= RxDataFailurePeriod => SilentAge <= sinceReceived + SignalAge)
BY Constants DEF DataIsNotStale, SilentAge, RxTypeOK, LinkTypeOK

LEMMA StaleStep ==
  ASSUME RxInv, DataIsNotStale, Next
  PROVE  DataIsNotStale'
<1>1. SignalAge \in Nat /\ RxTypeOK /\ RxTypeOK'
  BY Constants, StepTyped DEF RxInv
<1>2. sinceReceived <= RxDataFailurePeriod => SilentAge <= sinceReceived + SignalAge
  BY <1>1, StaleMeans
<1>3. (sinceReceived <= RxDataFailurePeriod)' => SilentAge' <= sinceReceived' + SignalAge
  BY <1>1, <1>2, SilenceSteps, AgesTogether
<1>4. deadlineMissed' \/ SilentAge' = silentFor'
  BY DEF SilentAge
<1> QED
  BY <1>3, <1>4 DEF DataIsNotStale

LEMMA InitAges ==
  Init => /\ sinceReceived = 0 /\ silentFor = 0 /\ brokenFor = 0
          /\ skipRxSamples = SkippedSamples
BY Zenon DEF Init, LinkInit

(* The tracker never takes old frames for new data: what it believes to be
   the age of the data is behind the last good frame by no more than the
   age that a signal may have, although task and check run at other times and
   the clock wraps.  The exception is the deadline that rx.c:442 has missed
   when the clock jumped over it.                                           *)
THEOREM DataStaysFresh == Spec => []DataIsNotStale
<1>1. Init => DataIsNotStale
  BY InitAges, Constants DEF DataIsNotStale
<1>2. RxInv /\ DataIsNotStale /\ [Next]_vars => DataIsNotStale'
  <2>1. UNCHANGED vars => UNCHANGED <<sinceReceived, silentFor, deadlineMissed>>
    BY Zenon DEF vars, rxVars, history, overtaken
  <2> QED
    BY <2>1, StaleStep DEF DataIsNotStale
<1> QED
  BY <1>1, <1>2, AlwaysRx, PTL DEF Spec

SilentWhileUp ==
  ~samplesStopped /\ rxLinkState = "UP" =>
     SilentAge <= Allowed(SignalAge + RxDataFailurePeriod) + SampleAge

LEMMA SilentStep ==
  ASSUME SkipsFit(SignalAge), RxInv, DataIsNotStale, SilentWhileUp, Next
  PROVE  SilentWhileUp'
<1>1. SignalAge \in Nat /\ RxTypeOK /\ Scheduled /\ StopIsSeen
  BY Constants DEF RxInv
<1>2. sinceReceived <= RxDataFailurePeriod => SilentAge <= sinceReceived + SignalAge
  BY <1>1, StaleMeans
<1> QED
  BY <1>1, <1>2, SilenceSteps, UpIsShort DEF SilentWhileUp, SkipsFit

(* A receiver that goes silent, or that reports the loss of the signal, takes
   the link down within the sum of the time-outs, whatever saves of the
   configuration and skipped samples come in between.                       *)
THEOREM SilenceTakesLinkDown ==
  ASSUME SkipsFit(SignalAge)
  PROVE  Spec => []SilenceIsDetected
<1> DEFINE Inv == RxInv /\ DataIsNotStale
<1>1. Init => SilentWhileUp
  <2> SUFFICES ASSUME Init PROVE SilentWhileUp
    OBVIOUS
  <2>1. RxTypeOK /\ Scheduled
    BY InitTyped DEF Init, Scheduled
  <2>2. SampleAge \in Nat /\ SilentAge = 0 /\ skipRxSamples = SkippedSamples
    BY <2>1, InitAges, SampleAgeSteps, Constants DEF SilentAge
  <2> QED
    BY <2>2, Constants DEF SilentWhileUp, Allowed, SkippedSamples
<1>2. Inv /\ SilentWhileUp /\ [Next]_vars => SilentWhileUp'
  <2> SUFFICES ASSUME Inv, SilentWhileUp, [Next]_vars PROVE SilentWhileUp'
    OBVIOUS
  <2>1. CASE Next
    BY <2>1, SilentStep
  <2>2. CASE UNCHANGED vars
    <3>1. UNCHANGED <<rxLinkState, samplesStopped, deadlineMissed, silentFor, skipRxSamples,
                      updateIn, rxTask, dataRequired>>
      BY <2>2, Zenon DEF vars, rxVars, resume, requests, history, overtaken
    <3> QED
      BY <3>1 DEF SilentWhileUp, SilentAge, Allowed, SampleAge
  <2> QED
    BY <2>1, <2>2
<1>3. Inv /\ SilentWhileUp => SilenceIsDetected
  <2> SUFFICES ASSUME Inv, SilentWhileUp PROVE SilenceIsDetected
    OBVIOUS
  <2>1. /\ SampleAge \in 0 .. Late /\ silentFor \in Nat
        /\ rxLinkState \in {"UP", "DOWN"}
    BY SampleAgeSteps, Constants DEF RxInv, RxTypeOK, LinkTypeOK, SkippedSamples
  <2>2. /\ Allowed(SignalAge + RxDataFailurePeriod) \in Nat
        /\ Allowed(SignalAge + RxDataFailurePeriod) <= SignalAge + RxDataFailurePeriod
    BY AllowedAtMost, Constants DEF SkipsFit, RxInv, RxTypeOK
  <2> QED
    BY <2>1, <2>2, Constants DEF SilentWhileUp, SilentAge, SilenceIsDetected, SilenceLatency
<1> QED
  BY <1>1, <1>2, <1>3, AlwaysRx, DataStaysFresh, PTL DEF Spec

-----------------------------------------------------------------------------
(* The same for a channel whose pulses are out of range, with the time for
   which its last value is held in the place of the time-out of the signal. *)
BrokenNotStale == sinceReceived <= RxDataFailurePeriod => brokenFor <= sinceReceived + Hold
BrokenWhileUp ==
  ~samplesStopped /\ rxLinkState = "UP"
    => brokenFor <= Allowed(Hold + RxDataFailurePeriod) + SampleAge
BrokenInv == PulseIsRecent /\ BrokenNotStale /\ BrokenWhileUp

LEMMA BrokenSteps ==
  ASSUME RxInv, PulseIsRecent, Watched \in FlightChannels, Next
  PROVE  /\ brokenFor \in Nat /\ brokenFor' \in Nat
         /\ RxTick => brokenFor' <= brokenFor + 1
         /\ RxTick \/ brokenFor' <= brokenFor
         /\ Resume => brokenFor' = 0
         /\ \A valid \in SUBSET Channels :
               ProcessSample(valid) /\ Accepted(valid) => brokenFor' <= Hold
<1>1. brokenFor \in Nat /\ brokenFor' \in Nat
  BY StepTyped, Constants DEF RxInv, RxTypeOK
<1>2. ASSUME RxTick PROVE brokenFor' <= brokenFor + 1
  BY <1>2, TickDoes DEF RxInv
<1>3. ASSUME Resume PROVE brokenFor' = 0
  BY <1>3, ResumeDoes
<1>4. RxTick \/ brokenFor' <= brokenFor
  <2>1. CASE \E status \in SUBSET FrameBits : Check(status)
    <3>1. brokenFor' = brokenFor
      BY <2>1, Zenon DEF Check
    <3> QED
      BY <1>1, <3>1
  <2>2. CASE OnlyAuxiliary
    BY <1>1, <2>2, QuietKeeps
  <2>3. CASE SkipSample
    <3>1. brokenFor' = brokenFor
      BY <2>3, Zenon DEF SkipSample
    <3> QED
      BY <1>1, <3>1
  <2>4. CASE \E valid \in SUBSET Channels : ProcessSample(valid)
    <3>1. brokenFor' \in {0, brokenFor}
      BY <2>4, Zenon DEF ProcessSample
    <3> QED
      BY <1>1, <3>1
  <2> QED
    BY <1>1, <1>3, <2>1, <2>2, <2>3, <2>4, Actions
<1>5. ASSUME NEW valid \in SUBSET Channels, ProcessSample(valid), Accepted(valid)
      PROVE  brokenFor' <= Hold
  <2>1. brokenFor' = IF Watched \in valid THEN 0 ELSE brokenFor
    BY <1>5, Zenon DEF ProcessSample
  <2>2. Watched \in valid \/ ~HasPassed(expiresIn[Watched])
    BY <1>5 DEF Accepted
  <2>3. expiresIn[Watched] \in Int
    BY Constants DEF RxInv, RxTypeOK, Deadlines, Expired
  <2> QED
    BY <1>1, <2>1, <2>2, <2>3, Constants DEF PulseIsRecent, HasPassed
<1> QED
  BY <1>1, <1>2, <1>3, <1>4, <1>5

LEMMA BrokenStep ==
  ASSUME SkipsFit(Hold), Watched \in FlightChannels, RxInv, BrokenInv, Next
  PROVE  BrokenInv'
<1>1. Hold \in Nat /\ RxTypeOK /\ Scheduled /\ StopIsSeen
  BY Constants DEF RxInv
<1>2. PulseIsRecent'
  BY <1>1, PulseIsRecentStep DEF BrokenInv
<1>3. BrokenNotStale'
  BY <1>1, BrokenSteps, AgesTogether DEF BrokenInv, BrokenNotStale
<1>4. BrokenWhileUp'
  BY <1>1, BrokenSteps, UpIsShort DEF BrokenInv, BrokenNotStale, BrokenWhileUp, SkipsFit
<1> QED
  BY <1>2, <1>3, <1>4 DEF BrokenInv

(* A flight channel that stays out of range for longer than its last value is
   held takes the link down in bounded time, even when every other channel
   is good.                                                                 *)
THEOREM BrokenChannelTakesLinkDown ==
  ASSUME SkipsFit(Hold), Watched \in FlightChannels
  PROVE  Spec => []BrokenChannelIsDetected
<1>1. Init => BrokenInv
  <2> SUFFICES ASSUME Init PROVE BrokenInv
    OBVIOUS
  <2>1. RxTypeOK /\ Scheduled
    BY InitTyped DEF Init, Scheduled
  <2>2. /\ SampleAge \in Nat /\ brokenFor = 0 /\ sinceReceived = 0
        /\ skipRxSamples = SkippedSamples
    BY <2>1, InitAges, SampleAgeSteps, Constants
  <2>3. expiresIn[Watched] = Hold
    BY Constants DEF Init
  <2> QED
    BY <2>2, <2>3, Constants
    DEF BrokenInv, PulseIsRecent, BrokenNotStale, BrokenWhileUp, Allowed, SkippedSamples
<1>2. RxInv /\ BrokenInv /\ [Next]_vars => BrokenInv'
  <2> SUFFICES ASSUME RxInv, BrokenInv, [Next]_vars PROVE BrokenInv'
    OBVIOUS
  <2>1. CASE Next
    BY <2>1, BrokenStep
  <2>2. CASE UNCHANGED vars
    <3>1. UNCHANGED <<rxLinkState, sinceReceived, samplesStopped, expiresIn, brokenFor,
                      skipRxSamples, updateIn, rxTask, dataRequired>>
      BY <2>2, Zenon DEF vars, rxVars, resume, requests, history, overtaken
    <3> QED
      BY <3>1 DEF BrokenInv, PulseIsRecent, BrokenNotStale, BrokenWhileUp, Allowed, SampleAge
  <2> QED
    BY <2>1, <2>2
<1>3. RxInv /\ BrokenInv => BrokenChannelIsDetected
  <2> SUFFICES ASSUME RxInv, BrokenInv PROVE BrokenChannelIsDetected
    OBVIOUS
  <2>1. /\ SampleAge \in 0 .. Late /\ brokenFor \in Nat
        /\ rxLinkState \in {"UP", "DOWN"}
    BY SampleAgeSteps, Constants DEF RxInv, RxTypeOK, LinkTypeOK, SkippedSamples
  <2>2. /\ Allowed(Hold + RxDataFailurePeriod) \in Nat
        /\ Allowed(Hold + RxDataFailurePeriod) <= Hold + RxDataFailurePeriod
    BY AllowedAtMost, Constants DEF SkipsFit, RxInv, RxTypeOK
  <2> QED
    BY <2>1, <2>2, Constants DEF BrokenInv, BrokenWhileUp, BrokenChannelIsDetected, BreakLatency
<1> QED
  BY <1>1, <1>2, <1>3, AlwaysRx, PTL DEF Spec

(* A signal that has been good in every tick, frames and flight channels, for
   the time that the recovery asks for and one sample has the link up.      *)
THEOREM GoodSignalTakesLinkUp ==
  Spec => []RecoveryIsDetected
<1>1. Init => GoodIsSeen
  BY Constants DEF Init, LinkInit, GoodIsSeen, SampledWhileGood, GoodIsCounted
<1>2. RxInv /\ GoodIsSeen /\ [Next]_vars => GoodIsSeen'
  <2> SUFFICES ASSUME RxInv, GoodIsSeen, [Next]_vars PROVE GoodIsSeen'
    OBVIOUS
  <2>1. CASE Next
    BY <2>1, SampledWhileGoodStep, GoodIsCountedStep DEF RxInv, GoodIsSeen
  <2>2. CASE UNCHANGED vars
    <3>1. UNCHANGED <<rxLinkState, sinceFailed, skipRxSamples, updateIn, rxTask, dataRequired,
                      rxSignalReceived, silentFor, goodFor, goodTick>>
      BY <2>2, Zenon DEF vars, rxVars, resume, requests, signal, history
    <3> QED
      BY <3>1 DEF GoodIsSeen, SampledWhileGood, GoodIsCounted, SampleAge
  <2> QED
    BY <2>1, <2>2
<1>3. RxInv /\ GoodIsSeen => RecoveryIsDetected
  <2> SUFFICES ASSUME RxInv, GoodIsSeen PROVE RecoveryIsDetected
    OBVIOUS
  <2>1. SampleAge \in 0 .. Late /\ goodFor \in Nat /\ rxLinkState \in {"UP", "DOWN"}
    BY SampleAgeSteps, Constants DEF RxInv, RxTypeOK, LinkTypeOK
  <2> QED
    BY <2>1, Constants DEF GoodIsSeen, GoodIsCounted, RecoveryIsDetected, GoodLatency
<1> QED
  BY <1>1, <1>2, <1>3, AlwaysRx, PTL DEF Spec
=============================================================================
