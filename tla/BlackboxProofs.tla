---------------------------- MODULE BlackboxProofs -----------------------------
(***************************************************************************)
(* Proofs about the black box, for every length, budget and interval, every *)
(* chip, and every sequence of calls and of events around them.             *)
(***************************************************************************)
EXTENDS Blackbox, FlashProofs, TLAPS

(* A log, or the log after its header, starts at iteration 0; only there may a
   pause end, and from there on each iteration 0 writes an I frame.         *)
FrameTyped == pFrame \in 0 .. IFrameInterval - 1 /\ intra \in BOOLEAN
StartsAtZero ==
    /\ blackboxState \in {"PREPARE_LOG_FILE"} \cup HeaderStates => pFrame = 0
    /\ pc = "fields" => blackboxState \in FieldHeaders
IntraOwed ==
    blackboxState = "RUNNING" /\ ~intra =>
        pFrame = 0 /\ ~(todo # <<>> /\ pc = "full")

FrameInv == FrameTyped /\ StartsAtZero /\ IntraOwed
-----------------------------------------------------------------------------
LEMMA Interval == IFrameInterval \in Nat /\ IFrameInterval > 0
BY BlackboxAssumption

LEMMA Advanced ==
  ASSUME FrameTyped, AdvanceIterationTimers
  PROVE  pFrame' \in 0 .. IFrameInterval - 1
BY Interval DEF FrameTyped, AdvanceIterationTimers

(* Steps that leave the state, the iteration and the I frame alone.         *)
LEMMA FrameUntouched ==
  ASSUME FrameInv, blackboxState' = blackboxState, pFrame' = pFrame, intra' = intra,
         pc' = pc \/ pc' = "idle", pc' # "full" \/ todo' = todo \/ todo # <<>>
  PROVE  FrameInv'
BY Zenon DEF FrameInv, FrameTyped, StartsAtZero, IntraOwed

(* Steps that leave the logging states, or do not enter them.               *)
LEMMA FrameLeft ==
  ASSUME FrameInv, pFrame' = pFrame, intra' \in BOOLEAN, pc' # "fields",
         blackboxState' \notin {"PREPARE_LOG_FILE", "RUNNING"} \cup HeaderStates
  PROVE  FrameInv'
<1>1. FrameTyped'
  BY Zenon DEF FrameInv, FrameTyped
<1>2. StartsAtZero' /\ IntraOwed'
  BY Zenon DEF StartsAtZero, IntraOwed
<1> QED
  BY <1>1, <1>2 DEF FrameInv

(* Steps in the header, whose iteration stays at zero.                      *)
LEMMA FrameHeader ==
  ASSUME FrameInv, pFrame = 0, pFrame' = 0, intra' \in BOOLEAN, pc' # "fields",
         todo' = <<>> \/ blackboxState' # "RUNNING"
  PROVE  FrameInv'
<1>1. FrameTyped'
  BY Zenon DEF FrameInv, FrameTyped
<1>2. StartsAtZero' /\ IntraOwed'
  BY Zenon DEF StartsAtZero, IntraOwed
<1> QED
  BY <1>1, <1>2 DEF FrameInv

LEMMA EntersBoolean ==
  ASSUME FrameInv, NEW s, EnterState(s)
  PROVE  blackboxState' = s /\ intra' \in BOOLEAN /\ (s # "RUNNING" => intra' = intra)
BY DEF EnterState, FrameInv, FrameTyped

LEMMA AfterHeader ==
  ASSUME NEW s \in FieldHeaders
  PROVE  NextHeader(s) \in HeaderStates
BY DEF NextHeader, FieldHeaders, HeaderStates
-----------------------------------------------------------------------------
(* Every step keeps the invariant.                                          *)
LEMMA InitFrames == Init => FrameInv
<1> SUFFICES ASSUME Init PROVE FrameInv
  OBVIOUS
<1>1. blackboxState = "STOPPED" /\ pFrame = 0 /\ intra = FALSE /\ pc = "idle"
  BY DEF Init
<1>2. FrameTyped
  <2>1. pFrame \in 0 .. IFrameInterval - 1
    BY <1>1, Interval
  <2> QED
    BY <1>1, <2>1, Zenon DEF FrameTyped
<1>3. StartsAtZero /\ IntraOwed
  BY <1>1 DEF StartsAtZero, IntraOwed, HeaderStates, FieldHeaders
<1> QED
  BY <1>2, <1>3 DEF FrameInv

LEMMA HeaderKeepsFrames ==
  ASSUME FrameInv, PrepareLogFile \/ SendHeader \/ SendSysinfo
  PROVE  FrameInv'
<1>1. pFrame' = pFrame /\ pc' = "full" /\ todo = <<>>
  BY Zenon DEF PrepareLogFile, SendHeader, SendSysinfo, Called
<1>2. pFrame = 0
  <2>1. blackboxState \in {"PREPARE_LOG_FILE"} \cup HeaderStates
    BY DEF PrepareLogFile, SendHeader, SendSysinfo, Called, HeaderStates
  <2> QED
    BY <2>1 DEF FrameInv, StartsAtZero
<1>3. intra' \in BOOLEAN
  <2>1. intra \in BOOLEAN
    BY DEF FrameInv, FrameTyped
  <2> QED
    BY <2>1 DEF PrepareLogFile, SendHeader, SendSysinfo, SysinfoDone, EnterState
<1>4. todo' = <<>> \/ blackboxState' # "RUNNING"
  <2>1. CASE PrepareLogFile
    BY <2>1 DEF PrepareLogFile, EnterState
  <2>2. CASE SendHeader
    <3>1. blackboxState' \in {blackboxState, "SEND_MAIN_FIELD_HEADER"} /\ blackboxState = "SEND_HEADER"
      BY <2>2, Zenon DEF SendHeader, EnterState, Called
    <3> QED
      BY <3>1
  <2>3. CASE SendSysinfo
    <3>1. blackboxState' = blackboxState \/ todo' = todo
      BY <2>3, Zenon DEF SendSysinfo
    <3>2. blackboxState = "SEND_SYSINFO"
      BY <2>3 DEF SendSysinfo, Called
    <3> QED
      BY <1>1, <3>1, <3>2
  <2> QED
    BY <2>1, <2>2, <2>3
<1>5. pc' # "fields"
  BY <1>1
<1> QED
  BY <1>1, <1>2, <1>3, <1>4, <1>5, FrameHeader

LEMMA FieldsKeepFrames ==
  ASSUME FrameInv, SendFieldDefinition \/ SendField
  PROVE  FrameInv'
<1>1. CASE SendFieldDefinition
  <2>1. /\ blackboxState' = blackboxState /\ blackboxState \in FieldHeaders /\ pFrame' = pFrame
        /\ intra' = intra /\ pc' = "fields"
    BY <1>1 DEF SendFieldDefinition, Called, history
  <2>2. blackboxState # "RUNNING"
    BY <2>1 DEF FieldHeaders
  <2> QED
    BY <2>1, <2>2, Zenon DEF FrameInv, FrameTyped, StartsAtZero, IntraOwed
<1>2. CASE SendField
  <2>1. /\ blackboxState \in FieldHeaders /\ pFrame' = pFrame /\ pc = "fields"
    BY <1>2, Zenon DEF SendField, FrameInv, StartsAtZero
  <2>2. blackboxState \in HeaderStates /\ blackboxState # "RUNNING"
    BY <2>1 DEF FieldHeaders, HeaderStates
  <2>3. pFrame = 0
    BY <2>2, Zenon DEF FrameInv, StartsAtZero
  <2>4. \/ blackboxState' = blackboxState /\ intra' = intra /\ pc' \in {"full", pc}
        \/ EnterState(NextHeader(blackboxState)) /\ pc' = "full"
    BY <1>2, Zenon DEF SendField, FieldsWait
  <2>5. CASE blackboxState' = blackboxState /\ intra' = intra /\ pc' \in {"full", pc}
    BY <2>1, <2>2, <2>5, Zenon DEF FrameInv, FrameTyped, StartsAtZero, IntraOwed
  <2>6. CASE EnterState(NextHeader(blackboxState)) /\ pc' = "full"
    <3>1. NextHeader(blackboxState) \in HeaderStates
      BY <2>1, AfterHeader
    <3>2. blackboxState' # "RUNNING" /\ intra' \in BOOLEAN
      BY <2>6, <3>1, EntersBoolean DEF HeaderStates, FieldHeaders
    <3>3. pc' # "fields"
      BY <2>6
    <3> QED
      BY <2>1, <2>3, <3>2, <3>3, FrameHeader
  <2> QED
    BY <2>4, <2>5, <2>6
<1> QED
  BY <1>1, <1>2

LEMMA IterationKeepsFrames ==
  ASSUME FrameInv, Running \/ Paused
  PROVE  FrameInv'
<1>1. pFrame' \in 0 .. IFrameInterval - 1
  BY Advanced, Zenon DEF Running, Paused, FrameInv
<1>2. pc' = "full" /\ intra \in BOOLEAN
  BY Zenon DEF Running, Paused, FrameInv, FrameTyped
<1>3. blackboxState' \in Logging /\ intra' \in BOOLEAN
      /\ (blackboxState' = "RUNNING" => intra')
  <2>1. CASE Running /\ ~box
    <3>1. EnterState("PAUSED")
      BY <2>1, Zenon DEF Running
    <3> QED
      BY <1>2, <3>1 DEF EnterState, Logging
  <2>2. CASE Running /\ box
    <3>1. LogIteration /\ blackboxState' = blackboxState /\ blackboxState = "RUNNING"
      BY <2>2, Zenon DEF Running, Called
    <3>2. pFrame # 0 => intra
      BY <1>2, <3>1, Zenon DEF FrameInv, IntraOwed
    <3>3. intra' = TRUE
      BY <1>2, <3>1, <3>2 DEF LogIteration
    <3> QED
      BY <3>1, <3>3 DEF Logging
  <2>3. CASE Paused /\ MayResume
    <3>1. blackboxState' = "RUNNING" /\ intra' = (pFrame = 0) /\ pFrame = 0
      BY <2>3, Zenon DEF Paused, MayResume
    <3> QED
      BY <3>1 DEF Logging
  <2>4. CASE Paused /\ ~MayResume
    <3>1. blackboxState' = blackboxState /\ blackboxState = "PAUSED" /\ intra' = intra
      BY <2>4, Zenon DEF Paused, Called
    <3> QED
      BY <1>2, <3>1 DEF Logging
  <2> QED
    BY <2>1, <2>2, <2>3, <2>4
<1>4. FrameTyped'
  BY <1>1, <1>3 DEF FrameTyped
<1>5. StartsAtZero'
  BY <1>2, <1>3 DEF StartsAtZero, Logging, HeaderStates, FieldHeaders
<1>6. IntraOwed'
  BY <1>3 DEF IntraOwed
<1> QED
  BY <1>4, <1>5, <1>6 DEF FrameInv

LEMMA OtherUpdatesKeepFrames ==
  ASSUME FrameInv, WriteStep \/ ShuttingDown \/ CheckFull
  PROVE  FrameInv'
<1>1. CASE WriteStep
  <2>1. /\ blackboxState' = blackboxState /\ pFrame' = pFrame /\ intra' = intra /\ pc' = pc
        /\ todo # <<>>
    BY <1>1 DEF WriteStep, history
  <2> QED
    BY <2>1, FrameUntouched, Zenon
<1>2. CASE ShuttingDown
  <2>1. pFrame' = pFrame /\ pc' = "full" /\ blackboxState' \in {"SHUTTING_DOWN", "STOPPED"}
        /\ intra' \in BOOLEAN
    <3>1. intra \in BOOLEAN
      BY DEF FrameInv, FrameTyped
    <3> QED
      BY <1>2, <3>1 DEF ShuttingDown, EnterState, Called
  <2>2. blackboxState' \notin {"PREPARE_LOG_FILE", "RUNNING"} \cup HeaderStates /\ pc' # "fields"
    BY <2>1 DEF HeaderStates, FieldHeaders
  <2> QED
    BY <2>1, <2>2, FrameLeft
<1>3. CASE CheckFull
  <2>1. /\ blackboxState' \in {blackboxState, "STOPPED"} /\ pFrame' = pFrame /\ intra' = intra
        /\ pc' = "idle"
    BY <1>3 DEF CheckFull, history
  <2>2. CASE blackboxState' = blackboxState
    BY <2>1, <2>2, FrameUntouched, Zenon
  <2>3. CASE blackboxState' = "STOPPED"
    <3>1. blackboxState' \notin {"PREPARE_LOG_FILE", "RUNNING"} \cup HeaderStates /\ pc' # "fields"
      BY <2>1, <2>3 DEF HeaderStates, FieldHeaders
    <3>2. intra' \in BOOLEAN
      BY <2>1 DEF FrameInv, FrameTyped
    <3> QED
      BY <2>1, <3>1, <3>2, FrameLeft
  <2> QED
    BY <2>1, <2>2, <2>3
<1> QED
  BY <1>1, <1>2, <1>3

LEMMA EventsKeepFrames ==
  ASSUME FrameInv,
         \/ blackboxStart \/ blackboxFinish \/ blackboxLogEvent \/ SwitchBox
         \/ ReadFlash \/ EraseFlash \/ FlashDone \/ PowerCycle
  PROVE  FrameInv'
<1>1. CASE blackboxLogEvent \/ SwitchBox \/ ReadFlash \/ EraseFlash \/ FlashDone
  <2>1. /\ blackboxState' = blackboxState /\ pFrame' = pFrame /\ intra' = intra /\ pc' = pc
    BY <1>1 DEF blackboxLogEvent, SwitchBox, ReadFlash, EraseFlash, FlashDone, history
  <2>2. pc' = "full" => todo' = todo
    BY <1>1 DEF blackboxLogEvent, SwitchBox, ReadFlash, EraseFlash, FlashDone, Between
  <2> QED
    BY <2>1, <2>2, FrameUntouched, Zenon
<1>2. CASE blackboxStart
  <2>1. intra' = intra /\ pc' = "idle" /\ pc = "idle"
    BY <1>2 DEF blackboxStart, Between
  <2>2. \/ blackboxState' = blackboxState /\ pFrame' = pFrame
        \/ blackboxState' = "DISABLED" /\ pFrame' = pFrame
        \/ blackboxState' = "PREPARE_LOG_FILE" /\ pFrame' = 0
    BY <1>2, Zenon DEF blackboxStart
  <2>3. CASE blackboxState' = blackboxState /\ pFrame' = pFrame
    BY <2>1, <2>3, FrameUntouched, Zenon
  <2>4. CASE blackboxState' = "DISABLED" /\ pFrame' = pFrame
    <3>1. blackboxState' \notin {"PREPARE_LOG_FILE", "RUNNING"} \cup HeaderStates /\ pc' # "fields"
      BY <2>1, <2>4 DEF HeaderStates, FieldHeaders
    <3>2. intra' \in BOOLEAN
      BY <2>1 DEF FrameInv, FrameTyped
    <3> QED
      BY <2>4, <3>1, <3>2, FrameLeft
  <2>5. CASE blackboxState' = "PREPARE_LOG_FILE" /\ pFrame' = 0
    <3>1. FrameTyped'
      BY <2>1, <2>5, Interval DEF FrameInv, FrameTyped
    <3>2. StartsAtZero' /\ IntraOwed'
      BY <2>1, <2>5 DEF StartsAtZero, IntraOwed
    <3> QED
      BY <3>1, <3>2 DEF FrameInv
  <2> QED
    BY <2>2, <2>3, <2>4, <2>5
<1>3. CASE blackboxFinish
  <2>1. intra' = intra /\ pFrame' = pFrame /\ pc' = "idle"
    BY <1>3 DEF blackboxFinish, Between, history
  <2>2. blackboxState' \in {"DISABLED", "STOPPED", "SHUTTING_DOWN"}
    BY <1>3 DEF blackboxFinish
  <2>3. blackboxState' \notin {"PREPARE_LOG_FILE", "RUNNING"} \cup HeaderStates /\ pc' # "fields"
    BY <2>1, <2>2 DEF HeaderStates, FieldHeaders
  <2>4. intra' \in BOOLEAN
    BY <2>1 DEF FrameInv, FrameTyped
  <2> QED
    BY <2>1, <2>3, <2>4, FrameLeft
<1>4. CASE PowerCycle
  <2>1. blackboxState' = "STOPPED" /\ pFrame' = 0 /\ intra' = FALSE /\ pc' = "idle"
    BY <1>4 DEF PowerCycle
  <2>2. FrameTyped'
    <3>1. pFrame' \in 0 .. IFrameInterval - 1
      BY <2>1, Interval
    <3> QED
      BY <2>1, <3>1, Zenon DEF FrameTyped
  <2>3. StartsAtZero' /\ IntraOwed'
    BY <2>1 DEF StartsAtZero, IntraOwed, HeaderStates, FieldHeaders
  <2> QED
    BY <2>2, <2>3 DEF FrameInv
<1> QED
  BY <1>1, <1>2, <1>3, <1>4
-----------------------------------------------------------------------------
LEMMA FrameStep == FrameInv /\ [BlackboxNext]_vars => FrameInv'
<1> SUFFICES ASSUME FrameInv, [BlackboxNext]_vars PROVE FrameInv'
  OBVIOUS
<1>1. CASE UNCHANGED vars
  BY <1>1 DEF vars, history, FrameInv, FrameTyped, StartsAtZero, IntraOwed
<1> QED
  BY <1>1, HeaderKeepsFrames, FieldsKeepFrames, IterationKeepsFrames,
     OtherUpdatesKeepFrames, EventsKeepFrames, Zenon DEF BlackboxNext, Update

(* blackboxUpdate(): after a start or a pause the first frame is an I frame,
   whatever the interval and however the switch moves.                      *)
THEOREM IntraComesFirst == Spec => []IntraframeFirst
<1>1. FrameInv => IntraframeFirst
  BY Zenon DEF FrameInv, IntraOwed, IntraframeFirst
<1> QED
  BY <1>1, InitFrames, FrameStep, PTL DEF Spec
-----------------------------------------------------------------------------
(* What is written, and where the header stands. A single byte has length 1:
   it takes the one number that is next.                                    *)
Writes == {<<"byte", 1>>, <<"flush", 0>>} \cup ({"print"} \X Nat)
PositionTyped ==
    /\ headerIndex \in 0 .. Max({HeaderLen, FieldLines, SysinfoLines})
    /\ fieldIndex \in -1 .. Fields /\ blackboxHeaderBudget \in Int
    /\ blackboxState = "SEND_HEADER" => headerIndex < HeaderLen
    /\ blackboxState \in FieldHeaders => headerIndex < FieldLines
    /\ blackboxState = "SEND_SYSINFO" => headerIndex <= SysinfoLines
RestTyped ==
    /\ blackboxState \in LogStates /\ box \in BOOLEAN /\ armed \in BOOLEAN
    /\ pc \in {"idle", "fields", "full"} /\ events \in 0 .. MaxEvents /\ header \in Nat \X Nat
WritesTyped == todo \in Seq(Writes) /\ next \in Nat /\ next > 0

BoxInv == FrameInv /\ PositionTyped /\ RestTyped /\ WritesTyped /\ FileInOrder(fs, next)
-----------------------------------------------------------------------------
LEMMA Lengths ==
  /\ HeaderLen \in Nat /\ HeaderLen > 0 /\ HeaderChunk \in Nat /\ HeaderChunk > 0
  /\ MaxBudget \in Nat /\ LineLen \in Nat /\ LineLen > 0 /\ FieldLines \in Nat /\ FieldLines > 0
  /\ SysinfoLines \in Nat /\ Fields \in Nat /\ Fields > 0 /\ FieldLen \in Nat /\ FieldLen > 0
  /\ IntraLen \in Nat /\ InterLen \in Nat /\ MaxEvents \in Nat
BY BlackboxAssumption

LEMMA BytesWritten ==
  ASSUME NEW n \in Int
  PROVE  Bytes(n) \in Seq(Writes)
<1>1. CASE n >= 0
  BY <1>1 DEF Bytes, Writes
<1>2. CASE n < 0
  <2>1. 1 .. n = 1 .. 0
    BY <1>2
  <2> QED
    BY <2>1 DEF Bytes, Writes
<1> QED
  BY <1>1, <1>2

LEMMA PrintWritten ==
  ASSUME NEW n \in Nat
  PROVE  Printed(n) \in Seq(Writes)
BY DEF Printed, Writes

LEMMA FlushWritten == Flush \in Seq(Writes)
BY DEF Flush, Writes

LEMMA WritesJoined ==
  ASSUME NEW s \in Seq(Writes), NEW t \in Seq(Writes)
  PROVE  s \o t \in Seq(Writes)
OBVIOUS

LEMMA NoWrites == <<>> \in Seq(Writes)
OBVIOUS

LEMMA LineWritten == HeaderLine \in Seq(Writes)
BY Lengths, BytesWritten, PrintWritten, WritesJoined DEF HeaderLine

LEMMA MaxThree ==
  ASSUME NEW a \in Int, NEW b \in Int, NEW c \in Int
  PROVE  LET m == Max({a, b, c}) IN m \in Int /\ m >= a /\ m >= b /\ m >= c
<1>1. \E x \in {a, b, c} : \A y \in {a, b, c} : x >= y
  OBVIOUS
<1>2. Max({a, b, c}) \in {a, b, c} /\ \A y \in {a, b, c} : Max({a, b, c}) >= y
  BY <1>1 DEF Max
<1> QED
  BY <1>2

LEMMA MinThree ==
  ASSUME NEW a \in Int, NEW b \in Int, NEW c \in Int
  PROVE  LET m == Min({a, b, c}) IN m \in Int /\ m <= a /\ m <= b /\ m <= c
<1>1. \E x \in {a, b, c} : \A y \in {a, b, c} : x <= y
  OBVIOUS
<1>2. Min({a, b, c}) \in {a, b, c} /\ \A y \in {a, b, c} : Min({a, b, c}) <= y
  BY <1>1 DEF Min
<1> QED
  BY <1>2

LEMMA ReplenishedTyped ==
  ASSUME BoxInv
  PROVE  Replenished \in Int /\ Replenished <= FreeSpace(fs)
<1>1. FreeSpace(fs) \in Int /\ blackboxHeaderBudget + HeaderChunk \in Int /\ MaxBudget \in Int
  BY Lengths, Constants DEF BoxInv, PositionTyped, FileInOrder, FileType, FreeSpace, Usable
<1> QED
  BY <1>1, MinThree, Zenon DEF Replenished
-----------------------------------------------------------------------------
(* The chip and the numbers.                                                *)
LEMMA WriteKeepsOrder ==
  ASSUME BoxInv, WriteStep
  PROVE  WritesTyped' /\ FileInOrder(fs, next)'
<1> DEFINE kind == Head(todo)[1]  len == Head(todo)[2]
           data == [i \in 1 .. len |-> next + i - 1]
<1>1. /\ todo \in Seq(Writes) /\ todo # <<>> /\ todo' = Tail(todo)
      /\ next \in Nat /\ next > 0 /\ FileInOrder(fs, next) /\ next' = next + len
      /\ fs' = CASE kind = "byte"  -> WriteByte(fs, next)
                 [] kind = "flush" -> FlushAsync(fs)
                 [] kind = "print" -> Write(fs, data)
  BY Zenon DEF BoxInv, WritesTyped, WriteStep
<1>2. Head(todo) \in Writes
  BY <1>1
<1>3. \/ kind = "byte" /\ len = 1
      \/ kind = "flush" /\ len = 0
      \/ kind = "print" /\ len \in Nat
  BY <1>2 DEF Writes
<1>4. Tail(todo) \in Seq(Writes)
  BY <1>1
<1> HIDE DEF kind, len
<1>5. len \in Nat
  BY <1>3
<1>6. CASE kind = "byte"
  <2>1. fs' = WriteByte(fs, next) /\ next' = next + 1
    BY <1>1, <1>3, <1>6
  <2>2. FileInOrder(WriteByte(fs, next), next + 1)
    BY <1>1, WriteByteInOrder
  <2>3. next' \in Nat /\ next' > 0
    BY <1>1, <2>1
  <2> QED
    BY <1>1, <1>4, <2>1, <2>2, <2>3 DEF WritesTyped
<1>7. CASE kind = "flush"
  <2>1. fs' = FlushAsync(fs) /\ next' = next
    BY <1>1, <1>3, <1>7
  <2>2. FileInOrder(FlushAsync(fs), next)
    BY <1>1, FlushAsyncInOrder
  <2> QED
    BY <1>1, <1>4, <2>1, <2>2 DEF WritesTyped
<1>8. CASE kind = "print"
  <2>1. fs' = Write(fs, data) /\ next' = next + len
    BY <1>1, <1>8
  <2>2. data \in Seq(Int) /\ Len(data) = len /\ \A i \in 1 .. len : data[i] = next + i - 1
    BY <1>1, <1>5, SMTT(30)
  <2> HIDE DEF data
  <2>3. FileInOrder(Write(fs, data), next + len)
    BY <1>1, <1>5, <2>2, WriteInOrder
  <2>4. next' \in Nat /\ next' > 0
    BY <1>1, <1>5, <2>1
  <2> QED
    BY <1>1, <1>4, <2>1, <2>3, <2>4 DEF WritesTyped
<1> QED
  BY <1>3, <1>6, <1>7, <1>8

(* Every other step leaves the numbers alone.                               *)
Disturbed == {fs, FlushAsync(fs), FlushSync(fs), EraseCompletely(fs), Boot(fs),
              [fs EXCEPT !.busy = FALSE]}

LEMMA DisturbedInOrder ==
  ASSUME BoxInv, next' = next, fs' \in Disturbed
  PROVE  FileInOrder(fs, next)'
<1>1. FileInOrder(fs, next) /\ next \in Nat /\ next > 0
  BY DEF BoxInv, WritesTyped
<1>2. \A f \in Disturbed : FileInOrder(f, next)
  BY <1>1, FlushAsyncInOrder, FlushSyncInOrder, EraseInOrder, BootInOrder, ReadyInOrder
     DEF Disturbed
<1> QED
  BY <1>2
-----------------------------------------------------------------------------
(* Steps that leave the position, the writes and the numbers alone.         *)
LEMMA TypesUntouched ==
  ASSUME BoxInv, headerIndex' = headerIndex, fieldIndex' = fieldIndex,
         blackboxHeaderBudget' = blackboxHeaderBudget, next' = next,
         \/ blackboxState' = blackboxState
         \/ blackboxState' \in LogStates \ HeaderStates
  PROVE  PositionTyped' /\ (todo' = todo => WritesTyped') /\ blackboxState' \in LogStates
<1>1. PositionTyped /\ blackboxState \in LogStates /\ WritesTyped
  BY DEF BoxInv, RestTyped
<1>2. WritesTyped /\ todo' = todo => WritesTyped'
  BY Zenon DEF WritesTyped
<1>3. CASE blackboxState' = blackboxState
  <2>1. PositionTyped'
    BY <1>1, <1>3, Zenon DEF PositionTyped
  <2> QED
    BY <1>1, <1>2, <1>3, <2>1
<1>4. CASE blackboxState' \in LogStates \ HeaderStates
  <2>1. /\ blackboxState' # "SEND_HEADER" /\ blackboxState' \notin FieldHeaders
        /\ blackboxState' # "SEND_SYSINFO" /\ blackboxState' \in LogStates
    BY <1>4 DEF HeaderStates
  <2>2. PositionTyped'
    BY <1>1, <2>1, Zenon DEF PositionTyped
  <2> QED
    BY <1>1, <1>2, <2>1, <2>2
<1> QED
  BY <1>3, <1>4

LEMMA Indices ==
  ASSUME BoxInv
  PROVE  /\ headerIndex \in Nat /\ fieldIndex \in Int /\ fieldIndex >= -1 /\ fieldIndex <= Fields
         /\ \A i \in Nat : i <= HeaderLen \/ i <= FieldLines \/ i <= SysinfoLines =>
                              i \in 0 .. Max({HeaderLen, FieldLines, SysinfoLines})
<1> DEFINE m == Max({HeaderLen, FieldLines, SysinfoLines})
<1>1. m \in Int /\ m >= HeaderLen /\ m >= FieldLines /\ m >= SysinfoLines
  <2>1. HeaderLen \in Int /\ FieldLines \in Int /\ SysinfoLines \in Int
    BY Lengths
  <2> QED
    BY <2>1, MaxThree, Zenon
<1>2. headerIndex \in 0 .. m /\ fieldIndex \in -1 .. Fields
  BY DEF BoxInv, PositionTyped
<1> HIDE DEF m
<1>3. \A i \in Nat : i <= HeaderLen \/ i <= FieldLines \/ i <= SysinfoLines => i \in 0 .. m
  BY <1>1, Lengths
<1> QED
  BY <1>1, <1>2, <1>3, Lengths DEF m

(* Entering a state of the header.                                          *)
LEMMA PositionEntered ==
  ASSUME BoxInv, NEW s, EnterState(s), blackboxHeaderBudget' \in Int
  PROVE  PositionTyped'
<1>1. /\ blackboxState' = s /\ headerIndex' = (IF s \in HeaderStates THEN 0 ELSE headerIndex)
      /\ fieldIndex' \in {-1, fieldIndex}
  BY Zenon DEF EnterState
<1>2. 0 \in 0 .. Max({HeaderLen, FieldLines, SysinfoLines}) /\ -1 \in -1 .. Fields
  BY Indices, Lengths
<1>3. headerIndex' \in 0 .. Max({HeaderLen, FieldLines, SysinfoLines})
  BY <1>1, <1>2 DEF BoxInv, PositionTyped
<1>4. fieldIndex' \in -1 .. Fields
  BY <1>1, <1>2 DEF BoxInv, PositionTyped
<1>5. s \in FieldHeaders \cup {"SEND_HEADER", "SEND_SYSINFO"} => headerIndex' = 0
  BY <1>1 DEF HeaderStates
<1> QED
  BY <1>1, <1>3, <1>4, <1>5, Lengths DEF PositionTyped

(* And staying in one, further on.                                          *)
LEMMA PositionMoved ==
  ASSUME BoxInv, blackboxState' = blackboxState, blackboxHeaderBudget' \in Int,
         fieldIndex' \in -1 .. Fields, headerIndex' \in Nat,
         \/ headerIndex' = headerIndex
         \/ blackboxState = "SEND_HEADER" /\ headerIndex' < HeaderLen
         \/ blackboxState \in FieldHeaders /\ headerIndex' < FieldLines
         \/ blackboxState = "SEND_SYSINFO" /\ headerIndex' <= SysinfoLines
  PROVE  PositionTyped'
<1>1. headerIndex' \in 0 .. Max({HeaderLen, FieldLines, SysinfoLines})
  <2>1. CASE headerIndex' = headerIndex
    BY <2>1 DEF BoxInv, PositionTyped
  <2>2. CASE headerIndex' # headerIndex
    <3>1. headerIndex' <= HeaderLen \/ headerIndex' <= FieldLines \/ headerIndex' <= SysinfoLines
      BY <2>2, Lengths
    <3> QED
      BY <3>1, Indices
  <2> QED
    BY <2>1, <2>2
<1>2. /\ blackboxState' = "SEND_HEADER" => headerIndex' < HeaderLen
      /\ blackboxState' \in FieldHeaders => headerIndex' < FieldLines
      /\ blackboxState' = "SEND_SYSINFO" => headerIndex' <= SysinfoLines
  <2>1. /\ blackboxState = "SEND_HEADER" => headerIndex < HeaderLen
        /\ blackboxState \in FieldHeaders => headerIndex < FieldLines
        /\ blackboxState = "SEND_SYSINFO" => headerIndex <= SysinfoLines
    BY DEF BoxInv, PositionTyped
  <2>2. "SEND_HEADER" \notin FieldHeaders /\ "SEND_SYSINFO" \notin FieldHeaders
    BY DEF FieldHeaders
  <2> QED
    BY <2>1, <2>2
<1> QED
  BY <1>1, <1>2 DEF PositionTyped
-----------------------------------------------------------------------------
(* The types and the order of the bytes, step by step.                      *)
Kept == PositionTyped' /\ RestTyped' /\ WritesTyped' /\ FileInOrder(fs, next)'

LEMMA HeaderStateNames ==
  /\ HeaderStates \subseteq LogStates
  /\ \A s \in FieldHeaders : s # "SEND_HEADER" /\ s # "SEND_SYSINFO"
  /\ FieldHeaders \subseteq HeaderStates
BY DEF HeaderStates, LogStates, FieldHeaders

LEMMA RefusedOrReserved ==
  ASSUME NEW bytes, NEW budget, Refused(bytes, budget) \/ Reserved(bytes, budget)
  PROVE  fs' \in {fs, FlushAsync(fs)}
BY Zenon DEF Refused, Reserved

LEMMA WritesNext ==
  ASSUME BoxInv, next' = next, todo' \in Seq(Writes)
  PROVE  WritesTyped'
BY DEF BoxInv, WritesTyped

LEMMA RestNext ==
  ASSUME BoxInv, blackboxState' \in LogStates, box' \in BOOLEAN, armed' \in BOOLEAN,
         pc' \in {"idle", "fields", "full"}, events' = events \/ Event, header' \in Nat \X Nat
  PROVE  RestTyped'
<1>1. events' \in 0 .. MaxEvents
  BY Lengths DEF BoxInv, RestTyped, Event
<1> QED
  BY <1>1 DEF RestTyped

LEMMA HeaderKeepsTypes ==
  ASSUME BoxInv, PrepareLogFile \/ SendHeader \/ SendSysinfo
  PROVE  Kept
<1>1. /\ next' = next /\ pc' = "full" /\ box' = box /\ armed' = armed /\ events' = events
      /\ todo = <<>>
  BY Zenon DEF PrepareLogFile, SendHeader, SendSysinfo, Called
<1>2. /\ box \in BOOLEAN /\ armed \in BOOLEAN /\ blackboxState \in LogStates /\ header \in Nat \X Nat
      /\ next \in Nat /\ next > 0 /\ fieldIndex \in -1 .. Fields
      /\ headerIndex \in Nat /\ Replenished \in Int /\ blackboxHeaderBudget \in Int
  BY Indices, ReplenishedTyped DEF BoxInv, RestTyped, WritesTyped, PositionTyped
<1>3. CASE PrepareLogFile
  <2>1. /\ EnterState("SEND_HEADER") /\ blackboxHeaderBudget' = 0 /\ header' = <<next, 0>>
        /\ fs' = fs /\ todo' = todo
    BY <1>3, Zenon DEF PrepareLogFile
  <2>2. PositionTyped'
    BY <2>1, PositionEntered
  <2>3. blackboxState' \in LogStates
    BY <2>1 DEF EnterState, LogStates, HeaderStates
  <2>4. WritesTyped'
    BY <1>1, <2>1, NoWrites, WritesNext
  <2>5. RestTyped'
    BY <1>1, <1>2, <2>1, <2>3, RestNext
  <2>6. FileInOrder(fs, next)'
    BY <1>1, <2>1, DisturbedInOrder DEF Disturbed
  <2> QED
    BY <2>2, <2>4, <2>5, <2>6 DEF Kept
<1>4. CASE SendHeader
  <2> DEFINE n == Min({HeaderChunk, HeaderLen - headerIndex})
  <2>1. n \in Int /\ n <= HeaderLen - headerIndex
    <3>1. HeaderChunk \in Int /\ HeaderLen - headerIndex \in Int
      BY <1>2, Lengths
    <3> QED
      BY <3>1, MinTwo
  <2> HIDE DEF n
  <2>2. /\ blackboxState = "SEND_HEADER" /\ header' = header
        /\ Refused(HeaderChunk, Replenished) \/ Reserved(HeaderChunk, Replenished)
        /\ \/ /\ blackboxHeaderBudget' = Replenished /\ blackboxState' = blackboxState
              /\ headerIndex' = headerIndex /\ fieldIndex' = fieldIndex /\ todo' = todo
           \/ /\ headerIndex + n = HeaderLen /\ todo' = Bytes(n) \o HeaderLine
              /\ blackboxHeaderBudget' = Replenished - n - LineCost
              /\ EnterState("SEND_MAIN_FIELD_HEADER")
           \/ /\ headerIndex + n # HeaderLen /\ todo' = Bytes(n) /\ headerIndex' = headerIndex + n
              /\ blackboxHeaderBudget' = Replenished - n
              /\ blackboxState' = blackboxState /\ fieldIndex' = fieldIndex
    BY <1>4, Zenon DEF SendHeader, Called, n
  <2>3. Bytes(n) \in Seq(Writes) /\ Bytes(n) \o HeaderLine \in Seq(Writes)
    BY <2>1, BytesWritten, LineWritten, WritesJoined
  <2>4. WritesTyped'
    <3>1. todo' \in Seq(Writes)
      BY <1>1, <2>2, <2>3, NoWrites, Zenon
    <3> QED
      BY <1>1, <3>1, WritesNext
  <2>5. blackboxHeaderBudget' \in Int
    BY <1>2, <2>1, <2>2 DEF LineCost
  <2>6. PositionTyped'
    <3>1. CASE EnterState("SEND_MAIN_FIELD_HEADER")
      BY <2>5, <3>1, PositionEntered
    <3>2. CASE /\ blackboxState' = blackboxState /\ headerIndex' = headerIndex
               /\ fieldIndex' = fieldIndex
      BY <1>2, <2>5, <3>2, PositionMoved
    <3>3. CASE /\ headerIndex + n # HeaderLen /\ headerIndex' = headerIndex + n
               /\ blackboxState' = blackboxState /\ fieldIndex' = fieldIndex
      <4>1. headerIndex < HeaderLen
        BY <2>2 DEF BoxInv, PositionTyped
      <4>2. n >= 0
        <5>1. HeaderChunk \in Int /\ HeaderLen - headerIndex \in Int
          BY <1>2, Lengths
        <5>2. n = IF HeaderChunk <= HeaderLen - headerIndex THEN HeaderChunk ELSE HeaderLen - headerIndex
          BY <5>1, MinTwo, Zenon DEF n
        <5> QED
          BY <1>2, <4>1, <5>2, Lengths
      <4>3. headerIndex' \in Nat /\ headerIndex' < HeaderLen
        BY <1>2, <2>1, <3>3, <4>2, Lengths
      <4> QED
        BY <1>2, <2>2, <2>5, <3>3, <4>3, PositionMoved
    <3> QED
      BY <2>2, <3>1, <3>2, <3>3, Zenon
  <2>7. blackboxState' \in LogStates
    BY <1>2, <2>2 DEF EnterState, LogStates, HeaderStates, FieldHeaders
  <2>8. RestTyped'
    BY <1>1, <1>2, <2>2, <2>7, RestNext
  <2>9. FileInOrder(fs, next)'
    <3>1. fs' \in {fs, FlushAsync(fs)}
      BY <2>2, RefusedOrReserved
    <3> QED
      BY <1>1, <3>1, DisturbedInOrder DEF Disturbed
  <2> QED
    BY <2>4, <2>6, <2>8, <2>9 DEF Kept
<1>5. CASE SendSysinfo
  <2>1. /\ blackboxState = "SEND_SYSINFO"
        /\ \/ /\ Refused(HeaderChunk, Replenished) /\ blackboxHeaderBudget' = Replenished
              /\ blackboxState' = blackboxState /\ headerIndex' = headerIndex
              /\ fieldIndex' = fieldIndex /\ todo' = todo /\ header' = header
           \/ /\ headerIndex < SysinfoLines /\ blackboxHeaderBudget' = Replenished - LineCost
              /\ todo' = HeaderLine /\ headerIndex' = headerIndex + 1
              /\ fs' = fs /\ blackboxState' = blackboxState /\ fieldIndex' = fieldIndex
              /\ header' = header
           \/ /\ blackboxHeaderBudget' = Replenished /\ todo' = todo
              /\ fs' = FlushAsync(fs)
              /\ \/ EnterState("RUNNING") /\ header' = <<header[1], next - 1>>
                 \/ /\ blackboxState' = blackboxState /\ headerIndex' = headerIndex
                    /\ fieldIndex' = fieldIndex /\ header' = header
    BY <1>5, Zenon DEF SendSysinfo, SysinfoDone, Called
  <2>2. WritesTyped'
    <3>1. todo' \in Seq(Writes)
      BY <1>1, <2>1, LineWritten, NoWrites, Zenon
    <3> QED
      BY <1>1, <3>1, WritesNext
  <2>3. blackboxHeaderBudget' \in Int
    BY <1>2, <2>1 DEF LineCost
  <2>4. PositionTyped'
    <3>1. CASE EnterState("RUNNING")
      BY <2>3, <3>1, PositionEntered
    <3>2. CASE /\ blackboxState' = blackboxState /\ headerIndex' = headerIndex
               /\ fieldIndex' = fieldIndex
      BY <1>2, <2>3, <3>2, PositionMoved
    <3>3. CASE /\ headerIndex < SysinfoLines /\ headerIndex' = headerIndex + 1
               /\ blackboxState' = blackboxState /\ fieldIndex' = fieldIndex
      <4>1. headerIndex' \in Nat /\ headerIndex' <= SysinfoLines
        BY <1>2, <3>3, Lengths
      <4> QED
        BY <1>2, <2>1, <2>3, <3>3, <4>1, PositionMoved
    <3> QED
      BY <2>1, <3>1, <3>2, <3>3, Zenon
  <2>5. blackboxState' \in LogStates
    BY <1>2, <2>1 DEF EnterState, LogStates
  <2>6. header' \in Nat \X Nat
    BY <1>2, <2>1
  <2>7. RestTyped'
    BY <1>1, <1>2, <2>5, <2>6, RestNext
  <2>8. FileInOrder(fs, next)'
    <3>1. fs' \in {fs, FlushAsync(fs)}
      BY <2>1, RefusedOrReserved
    <3> QED
      BY <1>1, <3>1, DisturbedInOrder DEF Disturbed
  <2> QED
    BY <2>2, <2>4, <2>7, <2>8 DEF Kept
<1> QED
  BY <1>3, <1>4, <1>5

(* The frames of a call, and the bytes of a field.                          *)
LEMMA FieldWritten ==
  /\ Bytes(FieldLen) \in Seq(Writes) /\ Bytes(1) \in Seq(Writes)
  /\ \A before \in {Bytes(1), <<>>}, field \in {Printed(FieldLen - 1), Bytes(FieldLen - 1)} :
        before \o field \in Seq(Writes)
<1>1. FieldLen \in Int /\ 1 \in Int /\ FieldLen - 1 \in Nat /\ FieldLen - 1 \in Int
  BY Lengths
<1>2. /\ Bytes(FieldLen) \in Seq(Writes) /\ Bytes(1) \in Seq(Writes)
      /\ Bytes(FieldLen - 1) \in Seq(Writes) /\ Printed(FieldLen - 1) \in Seq(Writes)
  BY <1>1, BytesWritten, PrintWritten, Zenon
<1> QED
  BY <1>2, NoWrites, WritesJoined

LEMMA FieldsKeepTypes ==
  ASSUME BoxInv, SendFieldDefinition \/ SendField
  PROVE  Kept
<1>1. /\ next' = next /\ pc' \in {"full", "fields", pc} /\ box' = box /\ armed' = armed
      /\ events' = events /\ header' = header /\ todo = <<>> /\ blackboxState \in FieldHeaders
  <2>1. pc = "fields" => blackboxState \in FieldHeaders
    BY Zenon DEF BoxInv, FrameInv, StartsAtZero
  <2> QED
    BY <2>1 DEF SendFieldDefinition, SendField, FieldsWait, Called, history
<1>2. /\ box \in BOOLEAN /\ armed \in BOOLEAN /\ blackboxState \in LogStates /\ header \in Nat \X Nat
      /\ fieldIndex \in -1 .. Fields /\ headerIndex \in Nat /\ blackboxHeaderBudget \in Int
      /\ Replenished \in Int /\ pc \in {"idle", "fields", "full"} /\ headerIndex < FieldLines
  BY <1>1, Indices, ReplenishedTyped DEF BoxInv, RestTyped, WritesTyped, PositionTyped
<1>3. CASE SendFieldDefinition
  <2>1. /\ blackboxHeaderBudget' = Replenished /\ fs' = fs /\ blackboxState' = blackboxState
        /\ headerIndex' = headerIndex /\ fieldIndex' = fieldIndex /\ todo' = todo
    BY <1>3, Zenon DEF SendFieldDefinition
  <2>2. PositionTyped'
    BY <1>2, <2>1, PositionMoved
  <2>3. WritesTyped'
    BY <1>1, <2>1, NoWrites, WritesNext
  <2>4. RestTyped'
    BY <1>1, <1>2, <2>1, RestNext
  <2>5. FileInOrder(fs, next)'
    BY <1>1, <2>1, DisturbedInOrder DEF Disturbed
  <2> QED
    BY <2>2, <2>3, <2>4, <2>5 DEF Kept
<1>4. CASE SendField
  <2> DEFINE before == IF fieldIndex > 0 THEN Bytes(1) ELSE <<>>
             field == IF headerIndex = 0 THEN Printed(FieldLen - 1) ELSE Bytes(FieldLen - 1)
  <2>1. \/ FieldsWait(FieldLen) \/ FieldsWait(1)
        \/ /\ FieldsWrite(FieldLen, IF fieldIndex = -1 THEN Bytes(FieldLen) ELSE before \o field)
           /\ fieldIndex < Fields /\ fieldIndex' = fieldIndex + 1
           /\ blackboxState' = blackboxState /\ headerIndex' = headerIndex
        \/ /\ FieldsWrite(1, Bytes(1))
           /\ \/ /\ headerIndex + 1 < FieldLines
                 /\ headerIndex' = headerIndex + 1 /\ fieldIndex' = -1
                 /\ blackboxState' = blackboxState
              \/ EnterState(NextHeader(blackboxState))
    BY <1>4, Zenon DEF SendField
  <2>2. fs' \in {fs, FlushAsync(fs)}
    BY <2>1, RefusedOrReserved, Zenon DEF FieldsWait, FieldsWrite
  <2>3. todo' \in Seq(Writes)
    <3>1. before \in {Bytes(1), <<>>} /\ field \in {Printed(FieldLen - 1), Bytes(FieldLen - 1)}
      BY Zenon
    <3>2. todo' \in {todo, Bytes(FieldLen), Bytes(1), before \o field}
      BY <2>1, Zenon DEF FieldsWait, FieldsWrite
    <3> HIDE DEF before, field
    <3>3. before \o field \in Seq(Writes)
      BY <3>1, FieldWritten, Zenon
    <3> QED
      BY <1>1, <3>2, <3>3, FieldWritten, NoWrites, Zenon
  <2> HIDE DEF before, field
  <2>4. blackboxHeaderBudget' \in Int
    <3>1. \/ blackboxHeaderBudget' = blackboxHeaderBudget
          \/ blackboxHeaderBudget' = blackboxHeaderBudget - FieldLen
          \/ blackboxHeaderBudget' = blackboxHeaderBudget - 1
      BY <2>1, Zenon DEF FieldsWait, FieldsWrite, position
    <3> QED
      BY <1>2, <3>1, Lengths
  <2>5. PositionTyped' /\ blackboxState' \in LogStates
    <3>1. CASE EnterState(NextHeader(blackboxState))
      <4>1. blackboxState' \in LogStates
        BY <1>1, <3>1, AfterHeader, HeaderStateNames DEF EnterState
      <4> QED
        BY <2>4, <3>1, <4>1, PositionEntered
    <3>2. CASE FieldsWait(FieldLen) \/ FieldsWait(1)
      <4>1. blackboxState' = blackboxState /\ headerIndex' = headerIndex /\ fieldIndex' = fieldIndex
        BY <3>2, Zenon DEF FieldsWait, position
      <4> QED
        BY <1>2, <2>4, <4>1, PositionMoved
    <3>3. CASE /\ fieldIndex < Fields /\ fieldIndex' = fieldIndex + 1
               /\ blackboxState' = blackboxState /\ headerIndex' = headerIndex
      <4>1. fieldIndex' \in -1 .. Fields
        BY <1>2, <3>3, Lengths
      <4> QED
        BY <1>2, <2>4, <3>3, <4>1, PositionMoved
    <3>4. CASE /\ headerIndex + 1 < FieldLines
               /\ headerIndex' = headerIndex + 1 /\ fieldIndex' = -1
               /\ blackboxState' = blackboxState
      <4>1. fieldIndex' \in -1 .. Fields /\ headerIndex' \in Nat /\ headerIndex' < FieldLines
        BY <1>2, <3>4, Lengths
      <4> QED
        BY <1>1, <1>2, <2>4, <3>4, <4>1, PositionMoved
    <3> QED
      BY <2>1, <3>1, <3>2, <3>3, <3>4, Zenon
  <2>6. WritesTyped'
    BY <1>1, <2>3, WritesNext
  <2>7. RestTyped'
    BY <1>1, <1>2, <2>5, RestNext
  <2>8. FileInOrder(fs, next)'
    BY <1>1, <2>2, DisturbedInOrder DEF Disturbed
  <2> QED
    BY <2>5, <2>6, <2>7, <2>8 DEF Kept
<1> QED
  BY <1>3, <1>4

LEMMA FramesWritten ==
  /\ Bytes(InterLen) \in Seq(Writes) /\ Bytes(IntraLen) \o Flush \in Seq(Writes)
  /\ \A frames \in {0, 1, 2} : Bytes(frames * InterLen) \o Flush \in Seq(Writes)
  /\ \A len \in {IntraLen, InterLen} : Bytes(InterLen) \o Bytes(len) \o Flush \in Seq(Writes)
<1>1. InterLen \in Int /\ IntraLen \in Int /\ \A frames \in {0, 1, 2} : frames * InterLen \in Int
  BY Lengths
<1>2. /\ Bytes(InterLen) \in Seq(Writes) /\ Bytes(IntraLen) \in Seq(Writes)
      /\ \A frames \in {0, 1, 2} : Bytes(frames * InterLen) \in Seq(Writes)
  BY <1>1, BytesWritten, Zenon
<1>3. /\ Bytes(IntraLen) \o Flush \in Seq(Writes)
      /\ \A frames \in {0, 1, 2} : Bytes(frames * InterLen) \o Flush \in Seq(Writes)
  BY <1>2, FlushWritten, WritesJoined, Zenon
<1>4. \A len \in {IntraLen, InterLen} : Bytes(InterLen) \o Bytes(len) \in Seq(Writes)
  <2>1. \A len \in {IntraLen, InterLen} : Bytes(len) \in Seq(Writes)
    BY <1>2
  <2> QED
    BY <1>2, <2>1, WritesJoined, Zenon
<1>5. \A len \in {IntraLen, InterLen} : Bytes(InterLen) \o Bytes(len) \o Flush \in Seq(Writes)
  BY <1>4, FlushWritten, WritesJoined, Zenon
<1> QED
  BY <1>2, <1>3, <1>5, Zenon

LEMMA UpdatesKeepTypes ==
  ASSUME BoxInv, Running \/ Paused \/ ShuttingDown \/ CheckFull
  PROVE  Kept
<1>1. /\ next' = next /\ pc' \in {"full", "idle"} /\ box' = box /\ armed' = armed
      /\ events' = events /\ header' = header /\ todo = <<>>
  BY DEF Running, Paused, ShuttingDown, CheckFull, Called, history
<1>2. /\ box \in BOOLEAN /\ armed \in BOOLEAN /\ blackboxState \in LogStates /\ header \in Nat \X Nat
      /\ fieldIndex \in -1 .. Fields /\ headerIndex \in Nat /\ blackboxHeaderBudget \in Int
      /\ WritesTyped
  BY Indices DEF BoxInv, RestTyped, PositionTyped
<1>3. fs' \in {fs, FlushAsync(fs)}
  BY Zenon DEF Running, Paused, ShuttingDown, CheckFull
<1>4. todo' \in Seq(Writes)
  <2>1. CASE Running
    <3>1. \/ todo' = todo \/ todo' = Bytes(IntraLen) \o Flush
          \/ \E frames \in {0, 1, 2} : todo' = Bytes(frames * InterLen) \o Flush
      BY <2>1, Zenon DEF Running, LogIteration
    <3> QED
      BY <1>1, <3>1, FramesWritten, NoWrites, Zenon
  <2>2. CASE Paused
    <3>1. \/ todo' = todo
          \/ todo' = Bytes(InterLen) \o Bytes(IF pFrame = 0 THEN IntraLen ELSE InterLen) \o Flush
      BY <2>2, Zenon DEF Paused
    <3>2. (IF pFrame = 0 THEN IntraLen ELSE InterLen) \in {IntraLen, InterLen}
      BY Zenon
    <3> QED
      BY <1>1, <3>1, <3>2, FramesWritten, NoWrites, Zenon
  <2>3. CASE ShuttingDown \/ CheckFull
    <3>1. todo' = todo
      BY <2>3, Zenon DEF ShuttingDown, CheckFull
    <3> QED
      BY <1>1, <3>1, NoWrites, Zenon
  <2> QED
    BY <2>1, <2>2, <2>3
<1>5. blackboxHeaderBudget' = blackboxHeaderBudget
  BY Zenon DEF Running, Paused, ShuttingDown, CheckFull, position
<1>6. PositionTyped' /\ blackboxState' \in LogStates
  <2>1. \/ EnterState("PAUSED") \/ EnterState("STOPPED")
        \/ /\ blackboxState' \in {blackboxState, "RUNNING", "STOPPED"}
           /\ headerIndex' = headerIndex /\ fieldIndex' = fieldIndex
    BY Zenon DEF Running, Paused, ShuttingDown, CheckFull, position
  <2>2. CASE EnterState("PAUSED") \/ EnterState("STOPPED")
    <3>1. blackboxState' \in LogStates
      BY <2>2 DEF EnterState, LogStates
    <3>2. PositionTyped'
      BY <1>2, <1>5, <2>2, PositionEntered
    <3> QED
      BY <3>1, <3>2
  <2>3. CASE /\ blackboxState' \in {blackboxState, "RUNNING", "STOPPED"}
             /\ headerIndex' = headerIndex /\ fieldIndex' = fieldIndex
    <3>1. blackboxState' = blackboxState \/ blackboxState' \in LogStates \ HeaderStates
      BY <2>3 DEF LogStates, HeaderStates, FieldHeaders
    <3> QED
      BY <1>1, <1>5, <2>3, <3>1, TypesUntouched
  <2> QED
    BY <2>1, <2>2, <2>3
<1>7. WritesTyped'
  BY <1>1, <1>4, WritesNext
<1>8. RestTyped'
  <2>1. pc' \in {"idle", "fields", "full"}
    BY <1>1
  <2> QED
    BY <1>1, <1>2, <1>6, <2>1, RestNext
<1>9. FileInOrder(fs, next)'
  BY <1>1, <1>3, DisturbedInOrder DEF Disturbed
<1> QED
  BY <1>6, <1>7, <1>8, <1>9 DEF Kept

LEMMA WriteKeepsTypes ==
  ASSUME BoxInv, WriteStep
  PROVE  Kept
<1>1. /\ blackboxState' = blackboxState /\ headerIndex' = headerIndex /\ fieldIndex' = fieldIndex
      /\ blackboxHeaderBudget' = blackboxHeaderBudget /\ box' = box /\ armed' = armed /\ pc' = pc
      /\ events' = events /\ header' = header
  BY DEF WriteStep, position, history
<1>2. PositionTyped' /\ RestTyped'
  BY <1>1, Zenon DEF BoxInv, PositionTyped, RestTyped
<1> QED
  BY <1>2, WriteKeepsOrder DEF Kept

LEMMA EventsKeepTypes ==
  ASSUME BoxInv,
         \/ blackboxStart \/ blackboxFinish \/ blackboxLogEvent \/ SwitchBox
         \/ ReadFlash \/ EraseFlash \/ FlashDone
  PROVE  Kept
<1>1. /\ next' = next /\ headerIndex' = headerIndex /\ fieldIndex' = fieldIndex
      /\ blackboxHeaderBudget' = blackboxHeaderBudget /\ pc' = pc
      /\ events' = events \/ Event
  BY DEF blackboxStart, blackboxFinish, blackboxLogEvent, SwitchBox, ReadFlash, EraseFlash,
         FlashDone, position, history
<1>2. /\ box \in BOOLEAN /\ armed \in BOOLEAN /\ blackboxState \in LogStates /\ header \in Nat \X Nat
      /\ pc \in {"idle", "fields", "full"} /\ WritesTyped
  BY DEF BoxInv, RestTyped
<1>3. fs' \in Disturbed
  BY DEF blackboxStart, blackboxFinish, blackboxLogEvent, SwitchBox, ReadFlash, EraseFlash,
         FlashDone, Disturbed
<1>4. todo' \in Seq(Writes)
  <2>1. todo' \in {todo, Bytes(InterLen), <<>>}
    BY DEF blackboxStart, blackboxFinish, blackboxLogEvent, SwitchBox, ReadFlash, EraseFlash,
           FlashDone
  <2> QED
    BY <1>2, <2>1, FramesWritten, NoWrites DEF WritesTyped
<1>5. box' \in BOOLEAN /\ armed' \in BOOLEAN /\ header' \in Nat \X Nat
  <2>1. box' \in {box, ~box} /\ armed' \in {armed, TRUE, FALSE} /\ header' \in {header, <<0, 0>>}
    BY DEF blackboxStart, blackboxFinish, blackboxLogEvent, SwitchBox, ReadFlash, EraseFlash,
           FlashDone, history
  <2>2. <<0, 0>> \in Nat \X Nat
    OBVIOUS
  <2> QED
    BY <1>2, <2>1, <2>2, Zenon
<1>6. blackboxState' = blackboxState \/ blackboxState' \in LogStates \ HeaderStates
  <2>1. blackboxState' \in {blackboxState, "DISABLED", "PREPARE_LOG_FILE", "SHUTTING_DOWN"}
    BY DEF blackboxStart, blackboxFinish, blackboxLogEvent, SwitchBox, ReadFlash, EraseFlash,
           FlashDone
  <2> QED
    BY <2>1 DEF LogStates, HeaderStates, FieldHeaders
<1>7. PositionTyped' /\ blackboxState' \in LogStates
  BY <1>1, <1>6, TypesUntouched
<1>8. WritesTyped'
  BY <1>1, <1>4, WritesNext
<1>9. RestTyped'
  <2>1. pc' \in {"idle", "fields", "full"}
    BY <1>1, <1>2
  <2> QED
    BY <1>1, <1>5, <1>7, <2>1, RestNext
<1>10. FileInOrder(fs, next)'
  BY <1>1, <1>3, DisturbedInOrder
<1> QED
  BY <1>7, <1>8, <1>9, <1>10 DEF Kept

LEMMA PowerKeepsTypes ==
  ASSUME BoxInv, PowerCycle
  PROVE  Kept
<1>1. /\ next' = next /\ headerIndex' = 0 /\ fieldIndex' = -1 /\ blackboxHeaderBudget' = 0
      /\ pc' = "idle" /\ Event /\ fs' = Boot(fs) /\ blackboxState' = "STOPPED" /\ armed' = FALSE
      /\ box' = box /\ header' = <<0, 0>> /\ todo' = <<>>
  BY Zenon DEF PowerCycle
<1>2. blackboxState' \in LogStates /\ blackboxState' \notin HeaderStates
  BY <1>1 DEF LogStates, HeaderStates, FieldHeaders
<1>3. PositionTyped'
  <2>1. 0 \in 0 .. Max({HeaderLen, FieldLines, SysinfoLines}) /\ -1 \in -1 .. Fields /\ 0 \in Int
    BY Indices, Lengths
  <2> QED
    BY <1>1, <1>2, <2>1, HeaderStateNames DEF PositionTyped, HeaderStates
<1>4. WritesTyped'
  BY <1>1, NoWrites, WritesNext
<1>5. RestTyped'
  <2>1. box' \in BOOLEAN /\ armed' \in BOOLEAN /\ header' \in Nat \X Nat
        /\ pc' \in {"idle", "fields", "full"}
    BY <1>1 DEF BoxInv, RestTyped
  <2> QED
    BY <1>1, <1>2, <2>1, RestNext
<1>6. FileInOrder(fs, next)'
  BY <1>1, DisturbedInOrder DEF Disturbed
<1> QED
  BY <1>3, <1>4, <1>5, <1>6 DEF Kept

LEMMA InitTypes == Init => BoxInv
<1> SUFFICES ASSUME Init PROVE BoxInv
  OBVIOUS
<1>1. /\ fs = Fresh /\ next = 1 /\ blackboxState = "STOPPED"
      /\ headerIndex = 0 /\ fieldIndex = -1 /\ blackboxHeaderBudget = 0
      /\ box = TRUE /\ armed = FALSE /\ todo = <<>> /\ pc = "idle"
      /\ events = 0 /\ header = <<0, 0>>
  BY Zenon DEF Init
<1>2. FileInOrder(fs, next)
  BY <1>1, FreshInOrder
<1>3. PositionTyped
  <2>1. 0 \in 0 .. Max({HeaderLen, FieldLines, SysinfoLines})
    <3>1. HeaderLen \in Int /\ FieldLines \in Int /\ SysinfoLines \in Int
      BY Lengths
    <3>2. LET m == Max({HeaderLen, FieldLines, SysinfoLines})
          IN  m \in Int /\ m >= HeaderLen
      BY <3>1, MaxThree, Zenon
    <3> DEFINE m == Max({HeaderLen, FieldLines, SysinfoLines})
    <3>3. m \in Int /\ m >= HeaderLen
      BY <3>2
    <3> HIDE DEF m
    <3>4. 0 \in 0 .. m
      BY <3>3, Lengths
    <3> QED
      BY <3>4 DEF m
  <2>2. -1 \in -1 .. Fields /\ 0 \in Int
    BY Lengths
  <2>3. blackboxState \notin {"SEND_HEADER", "SEND_SYSINFO"} /\ blackboxState \notin FieldHeaders
    BY <1>1 DEF FieldHeaders
  <2> QED
    BY <1>1, <2>1, <2>2, <2>3 DEF PositionTyped
<1>4. RestTyped
  <2>1. /\ 0 \in 0 .. MaxEvents /\ <<0, 0>> \in Nat \X Nat /\ "STOPPED" \in LogStates
        /\ "idle" \in {"idle", "fields", "full"}
    BY Lengths DEF LogStates
  <2> QED
    BY <1>1, <2>1, Zenon DEF RestTyped
<1>5. WritesTyped
  BY <1>1, NoWrites DEF WritesTyped
<1> QED
  BY <1>2, <1>3, <1>4, <1>5, InitFrames DEF BoxInv

LEMMA BoxStep == BoxInv /\ [BlackboxNext]_vars => BoxInv'
<1> SUFFICES ASSUME BoxInv, [BlackboxNext]_vars PROVE BoxInv'
  OBVIOUS
<1>1. FrameInv'
  BY FrameStep DEF BoxInv
<1>2. CASE UNCHANGED vars
  <2>1. /\ fs' = fs /\ next' = next /\ blackboxState' = blackboxState /\ headerIndex' = headerIndex
        /\ fieldIndex' = fieldIndex /\ blackboxHeaderBudget' = blackboxHeaderBudget
        /\ box' = box /\ armed' = armed /\ todo' = todo /\ pc' = pc /\ events' = events
        /\ header' = header
    BY <1>2 DEF vars, position, history
  <2>2. PositionTyped' /\ RestTyped' /\ WritesTyped'
    BY <2>1, Zenon DEF BoxInv, PositionTyped, RestTyped, WritesTyped
  <2>3. FileInOrder(fs, next)'
    BY <2>1, Zenon DEF BoxInv
  <2> QED
    BY <1>1, <2>2, <2>3 DEF BoxInv
<1>3. CASE BlackboxNext
  <2>1. Kept
    BY <1>3, HeaderKeepsTypes, FieldsKeepTypes, UpdatesKeepTypes, WriteKeepsTypes,
       EventsKeepTypes, PowerKeepsTypes, Zenon DEF BlackboxNext, Update
  <2> QED
    BY <1>1, <2>1 DEF Kept, BoxInv
<1> QED
  BY <1>2, <1>3

(* The types of the black box: no write of a length below zero, no header
   line and no field beyond the last.                                       *)
THEOREM BlackboxTypeCorrect == Spec => []BlackboxTypeOK
<1>1. BoxInv => BlackboxTypeOK
  <2> SUFFICES ASSUME BoxInv PROVE BlackboxTypeOK
    OBVIOUS
  <2>1. fs \in FileType /\ next \in Nat \ {0}
    BY DEF BoxInv, FileInOrder, WritesTyped
  <2>2. todo \in Seq({"byte", "print", "flush"} \X Nat)
    BY DEF BoxInv, WritesTyped, Writes
  <2>3. pFrame \in 0 .. IFrameInterval - 1 /\ intra \in BOOLEAN
    BY DEF BoxInv, FrameInv, FrameTyped
  <2> QED
    BY <2>1, <2>2, <2>3, Zenon DEF BoxInv, PositionTyped, RestTyped, BlackboxTypeOK
<1> QED
  BY <1>1, InitTypes, BoxStep, PTL DEF Spec

(* flashfs.c: for every size of ring, page, block and chip, and whatever power
   cycle, erasure, read or full buffer comes between two writes, the bytes of
   the chip and of the ring are in the order in which they were written and
   none is programmed over another.                                         *)
THEOREM BytesStayInOrder == Spec => []LogIsInOrder
<1>1. BoxInv => LogIsInOrder
  <2> SUFFICES ASSUME BoxInv PROVE LogIsInOrder
    OBVIOUS
  <2>1. /\ Stream(fs.dirty, next) /\ Chip(fs.flash, fs.address, next)
        /\ Behind(fs.dirty, fs.flash) /\ fs.flash \in [Cells -> Nat]
    BY DEF BoxInv, FileInOrder, Chip
  <2> DEFINE stored == {a \in Cells : fs.flash[a] # Erased}
  <2>2. ASSUME NEW a \in stored, NEW b \in stored
        PROVE  fs.flash[a] > 0 /\ (a < b => fs.flash[a] < fs.flash[b])
    <3>1. fs.flash[a] \in Nat /\ fs.flash[a] # 0
      BY <2>1 DEF Erased
    <3> QED
      BY <2>1, <3>1 DEF Chip
  <2>3. ASSUME NEW i \in 1 .. Len(fs.dirty)
        PROVE  /\ \A a \in stored : fs.flash[a] < fs.dirty[i]
               /\ i > 1 => fs.dirty[i - 1] < fs.dirty[i]
    <3>1. \A a \in stored : fs.flash[a] < fs.dirty[i]
      BY <2>1 DEF Behind
    <3>2. i > 1 => i - 1 \in 1 .. Len(fs.dirty) /\ i - 1 < i
      BY <2>1 DEF Stream
    <3> QED
      BY <2>1, <3>1, <3>2 DEF Stream
  <2> QED
    BY <2>2, <2>3 DEF LogIsInOrder
<1> QED
  BY <1>1, InitTypes, BoxStep, PTL DEF Spec
-----------------------------------------------------------------------------
(* The header. A call begins to write only what the ring has room for, and the
   room can only grow until it is written: no byte of the header is lost on its
   way into the ring. r is the number of bytes that are still to be written. *)
Pending(s, r) ==
    \/ r = Len(s) /\ \A i \in 1 .. Len(s) : s[i] = <<"byte", 1>>
    \/ /\ Len(s) > 0 /\ \A i \in 1 .. Len(s) - 1 : s[i] = <<"byte", 1>>
       /\ r - (Len(s) - 1) \in Nat /\ s[Len(s)] = <<"print", r - (Len(s) - 1)>>
Roomy ==
    \E r \in Nat : /\ Pending(todo, r) /\ r <= FreeSpace(fs)
                   /\ pc = "fields" => r + blackboxHeaderBudget <= FreeSpace(fs)
Delivered(f, h) ==
    ~IsEOF(f) => \E a \in Cells : \A i \in h[1] .. h[2] :
                    a + i - h[1] \in Cells /\ f.flash[a + i - h[1]] = i
HeaderInv ==
    /\ Len(fs.dirty) <= Usable /\ header[1] <= next
    /\ blackboxState \in HeaderStates => Roomy
    /\ blackboxState = "SEND_HEADER" => headerIndex % HeaderChunk = 0
    /\ blackboxState \in HeaderStates /\ header[1] # 0 => Held(fs, header[1], next)
    /\ blackboxState \in Logging /\ header[1] # 0 => Delivered(fs, header)
-----------------------------------------------------------------------------
LEMMA PendingNothing == Pending(<<>>, 0)
BY DEF Pending

LEMMA PendingBytes ==
  ASSUME NEW n \in Nat
  PROVE  Pending(Bytes(n), n)
BY DEF Pending, Bytes

LEMMA PendingPrint ==
  ASSUME NEW n \in Nat
  PROVE  Pending(Printed(n), n)
BY DEF Pending, Printed

LEMMA Joining ==
  ASSUME NEW s \in Seq(Writes), NEW t \in Seq(Writes)
  PROVE  /\ s \o t \in Seq(Writes) /\ Len(s \o t) = Len(s) + Len(t)
         /\ \A i \in 1 .. Len(s) : (s \o t)[i] = s[i]
         /\ \A i \in 1 .. Len(t) : (s \o t)[Len(s) + i] = t[i]
OBVIOUS

LEMMA PendingMore ==
  ASSUME NEW n \in Nat, NEW s \in Seq(Writes), NEW r \in Nat, Pending(s, r)
  PROVE  Pending(Bytes(n) \o s, n + r)
<1> DEFINE b == Bytes(n)  t == b \o s
<1>1. b \in Seq(Writes) /\ Len(b) = n /\ \A i \in 1 .. n : b[i] = <<"byte", 1>>
  BY BytesWritten DEF Bytes
<1> HIDE DEF b
<1>2. /\ Len(s) \in Nat /\ t \in Seq(Writes) /\ Len(t) = n + Len(s)
      /\ \A i \in 1 .. n : t[i] = b[i]
      /\ \A i \in 1 .. Len(s) : t[n + i] = s[i]
  <2>1. Len(s) \in Nat
    OBVIOUS
  <2>2. /\ t \in Seq(Writes) /\ Len(t) = Len(b) + Len(s)
        /\ \A i \in 1 .. Len(b) : t[i] = b[i]
        /\ \A i \in 1 .. Len(s) : t[Len(b) + i] = s[i]
    BY <1>1, Joining, Zenon
  <2> HIDE DEF t
  <2> QED
    BY <1>1, <2>1, <2>2
<1> HIDE DEF t
<1> SUFFICES Pending(t, n + r)
  BY DEF b, t
<1>3. \A i \in 1 .. n : t[i] = <<"byte", 1>>
  BY <1>1, <1>2
<1>4. CASE r = Len(s) /\ \A i \in 1 .. Len(s) : s[i] = <<"byte", 1>>
  <2>1. ASSUME NEW i \in 1 .. Len(t) PROVE t[i] = <<"byte", 1>>
    <3>1. CASE i <= n
      BY <1>2, <1>3, <3>1
    <3>2. CASE i > n
      <4>1. i - n \in 1 .. Len(s) /\ n + (i - n) = i
        BY <1>2, <3>2
      <4> QED
        BY <1>2, <1>4, <4>1
    <3> QED
      BY <1>2, <3>1, <3>2
  <2>2. n + r = Len(t)
    BY <1>2, <1>4
  <2> QED
    BY <2>1, <2>2 DEF Pending
<1>5. CASE /\ Len(s) > 0 /\ \A i \in 1 .. Len(s) - 1 : s[i] = <<"byte", 1>>
           /\ r - (Len(s) - 1) \in Nat /\ s[Len(s)] = <<"print", r - (Len(s) - 1)>>
  <2>1. ASSUME NEW i \in 1 .. Len(t) - 1 PROVE t[i] = <<"byte", 1>>
    <3>1. CASE i <= n
      BY <1>2, <1>3, <3>1
    <3>2. CASE i > n
      <4>1. i - n \in 1 .. Len(s) - 1 /\ i - n \in 1 .. Len(s) /\ n + (i - n) = i
        BY <1>2, <3>2
      <4> QED
        BY <1>2, <1>5, <4>1
    <3> QED
      BY <1>2, <3>1, <3>2
  <2>2. Len(s) \in 1 .. Len(s) /\ (n + r) - (Len(t) - 1) = r - (Len(s) - 1) /\ Len(t) > 0
    BY <1>2, <1>5
  <2>3. t[Len(t)] = <<"print", (n + r) - (Len(t) - 1)>>
    BY <1>2, <1>5, <2>2
  <2>4. (n + r) - (Len(t) - 1) \in Nat
    BY <1>5, <2>2
  <2> QED
    BY <2>1, <2>2, <2>3, <2>4 DEF Pending
<1> QED
  BY <1>4, <1>5, Zenon DEF Pending

(* The next write, and what is left then.                                   *)
LEMMA PendingNext ==
  ASSUME NEW s \in Seq(Writes), s # <<>>, NEW r \in Nat, Pending(s, r)
  PROVE  \/ Head(s) = <<"byte", 1>> /\ r - 1 \in Nat /\ Pending(Tail(s), r - 1)
         \/ Head(s) = <<"print", r>> /\ Pending(Tail(s), 0)
<1> DEFINE t == Tail(s)
<1>1. /\ Len(s) \in Nat /\ Len(s) > 0 /\ t \in Seq(Writes) /\ Len(t) = Len(s) - 1
      /\ Head(s) = s[1] /\ \A i \in 1 .. Len(t) : t[i] = s[i + 1]
  BY ZenonT(20), SMT
<1> HIDE DEF t
<1>2. CASE r = Len(s) /\ \A i \in 1 .. Len(s) : s[i] = <<"byte", 1>>
  <2>1. Head(s) = <<"byte", 1>> /\ r - 1 \in Nat /\ r - 1 = Len(t)
    BY <1>1, <1>2
  <2>2. \A i \in 1 .. Len(t) : t[i] = <<"byte", 1>>
    BY <1>1, <1>2
  <2> QED
    BY <2>1, <2>2 DEF Pending, t
<1>3. CASE /\ Len(s) > 0 /\ \A i \in 1 .. Len(s) - 1 : s[i] = <<"byte", 1>>
           /\ r - (Len(s) - 1) \in Nat /\ s[Len(s)] = <<"print", r - (Len(s) - 1)>>
  <2>1. CASE Len(s) = 1
    <3>1. Head(s) = <<"print", r>> /\ Len(t) = 0
      <4>1. r - (Len(s) - 1) = r
        BY <2>1
      <4> QED
        BY <1>1, <1>3, <2>1, <4>1
    <3>2. Pending(t, 0)
      BY <1>1, <3>1 DEF Pending
    <3> QED
      BY <3>1, <3>2 DEF t
  <2>2. CASE Len(s) > 1
    <3>1. Head(s) = <<"byte", 1>> /\ r - 1 \in Nat /\ Len(t) > 0
      <4>1. 1 \in 1 .. Len(s) - 1 /\ Len(t) > 0
        BY <1>1, <2>2
      <4>2. r - 1 \in Nat
        BY <1>1, <1>3, <2>2
      <4> QED
        BY <1>1, <1>3, <4>1, <4>2
    <3>2. ASSUME NEW i \in 1 .. Len(t) - 1 PROVE t[i] = <<"byte", 1>>
      <4>1. i \in 1 .. Len(t) /\ i + 1 \in 1 .. Len(s) - 1
        BY <1>1
      <4> QED
        BY <1>1, <1>3, <4>1
    <3>3. (r - 1) - (Len(t) - 1) = r - (Len(s) - 1) /\ Len(t) \in 1 .. Len(t) /\ Len(t) + 1 = Len(s)
      BY <1>1, <2>2
    <3>4. t[Len(t)] = <<"print", (r - 1) - (Len(t) - 1)>>
      BY <1>1, <1>3, <3>3
    <3>5. Pending(t, r - 1)
      BY <1>3, <3>1, <3>2, <3>3, <3>4 DEF Pending
    <3> QED
      BY <3>1, <3>5 DEF t
  <2> QED
    BY <1>1, <1>3, <2>1, <2>2
<1> QED
  BY <1>2, <1>3 DEF Pending
-----------------------------------------------------------------------------
(* What a byte of the header is, once it is on the chip, stays.              *)
LEMMA DeliveredGrows ==
  ASSUME NEW f, NEW n \in Nat, FileInOrder(f, n), NEW g, g.address \in Nat, NEW k \in Nat, Grown(f, g, k),
         NEW h \in Nat \X Nat, h[1] # 0, Delivered(f, h)
  PROVE  Delivered(g, h)
<1>1. /\ f.address \in Nat /\ Size \in Nat /\ h[1] \in Nat /\ h[2] \in Nat
      /\ \A a \in Cells : a >= f.address => f.flash[a] = Erased
      /\ Cells = 0 .. Size - 1
  BY Constants DEF FileInOrder, FileType, Chip, Cells
<1>2. g.address >= f.address /\ \A a \in Cells : a < f.address => g.flash[a] = f.flash[a]
  BY DEF Grown
<1>3. SUFFICES ASSUME ~IsEOF(g)
      PROVE  \E a \in Cells : \A i \in h[1] .. h[2] :
                a + i - h[1] \in Cells /\ g.flash[a + i - h[1]] = i
  BY DEF Delivered
<1>4. ~IsEOF(f)
  BY <1>1, <1>2, <1>3 DEF IsEOF
<1>5. PICK a \in Cells : \A i \in h[1] .. h[2] : a + i - h[1] \in Cells /\ f.flash[a + i - h[1]] = i
  BY <1>4 DEF Delivered
<1>6. ASSUME NEW i \in h[1] .. h[2]
      PROVE  a + i - h[1] \in Cells /\ g.flash[a + i - h[1]] = i
  <2> DEFINE p == a + i - h[1]
  <2>1. p \in Cells /\ f.flash[p] = i
    BY <1>5
  <2>2. i # Erased /\ p \in Nat
    BY <1>1, <2>1 DEF Erased
  <2> HIDE DEF p
  <2>3. p < f.address
    BY <1>1, <2>1, <2>2
  <2>4. g.flash[p] = i
    BY <1>2, <2>1, <2>3
  <2> QED
    BY <2>1, <2>4 DEF p
<1> QED
  BY <1>6

LEMMA HeaderFacts ==
  ASSUME BoxInv, HeaderInv
  PROVE  /\ FileInOrder(fs, next) /\ next \in Nat /\ next > 0 /\ header[1] \in Nat /\ header[1] <= next
         /\ header \in Nat \X Nat
         /\ FreeSpace(fs) \in Nat /\ Usable \in Nat /\ Len(fs.dirty) \in Nat /\ Len(fs.dirty) <= Usable
         /\ FreeSpace(fs) = Usable - Len(fs.dirty)
<1>1. FileInOrder(fs, next) /\ next \in Nat /\ next > 0 /\ header \in Nat \X Nat
  BY DEF BoxInv, WritesTyped, RestTyped
<1>2. header[1] \in Nat /\ header[1] <= next
  BY <1>1 DEF HeaderInv
<1>3. /\ Usable \in Nat /\ Len(fs.dirty) \in Nat /\ Len(fs.dirty) <= Usable
      /\ FreeSpace(fs) = Usable - Len(fs.dirty)
  BY <1>1, Constants DEF HeaderInv, FileInOrder, FileType, Usable, FreeSpace
<1> QED
  BY <1>1, <1>2, <1>3

(* A file that has grown by k bytes.                                        *)
LEMMA RoomLeft ==
  ASSUME BoxInv, HeaderInv, NEW g, NEW k \in Nat, NEW m \in Nat, Grown(fs, g, k), FileInOrder(g, m)
  PROVE  /\ Len(g.dirty) <= Usable /\ FreeSpace(g) \in Nat /\ FreeSpace(g) >= FreeSpace(fs) - k
         /\ g.address \in Nat
BY HeaderFacts DEF Grown, FileInOrder, FileType, FreeSpace
-----------------------------------------------------------------------------
(* One write.                                                               *)
LEMMA WriteGrows ==
  ASSUME BoxInv, HeaderInv, WriteStep
  PROVE  LET len == Head(todo)[2]
         IN  /\ len \in Nat /\ Grown(fs, fs', len) /\ next' = next + len
             /\ len <= FreeSpace(fs) /\ Held(fs, header[1], next) => Held(fs', header[1], next')
<1> DEFINE kind == Head(todo)[1]  len == Head(todo)[2]
           data == [i \in 1 .. len |-> next + i - 1]
<1>1. /\ todo \in Seq(Writes) /\ todo # <<>> /\ next' = next + len
      /\ fs' = CASE kind = "byte"  -> WriteByte(fs, next)
                 [] kind = "flush" -> FlushAsync(fs)
                 [] kind = "print" -> Write(fs, data)
  BY Zenon DEF BoxInv, WritesTyped, WriteStep
<1>2. Head(todo) \in Writes
  BY <1>1
<1>3. \/ kind = "byte" /\ len = 1
      \/ kind = "flush" /\ len = 0
      \/ kind = "print" /\ len \in Nat
  BY <1>2 DEF Writes
<1>4. /\ FileInOrder(fs, next) /\ next \in Nat /\ next > 0 /\ header[1] \in Nat /\ header[1] <= next
      /\ FreeSpace(fs) \in Nat /\ Usable \in Nat /\ Len(fs.dirty) \in Nat /\ Len(fs.dirty) <= Usable
      /\ FreeSpace(fs) = Usable - Len(fs.dirty)
  BY HeaderFacts
<1> HIDE DEF kind, len
<1>5. len \in Nat
  BY <1>3
<1>6. /\ Grown(fs, fs', len)
      /\ len <= FreeSpace(fs) /\ Held(fs, header[1], next) => Held(fs', header[1], next + len)
  <2>1. CASE kind = "byte"
    <3>1. fs' = WriteByte(fs, next) /\ len = 1
      BY <1>1, <1>3, <2>1
    <3>2. /\ Grown(fs, WriteByte(fs, next), 1)
          /\ Len(fs.dirty) < Usable /\ Held(fs, header[1], next) =>
                Held(WriteByte(fs, next), header[1], next + 1)
      BY <1>4, WriteByteKeeps
    <3>3. 1 <= FreeSpace(fs) => Len(fs.dirty) < Usable
      BY <1>4
    <3> QED
      BY <3>1, <3>2, <3>3, Zenon
  <2>2. CASE kind = "flush"
    <3>1. fs' = FlushAsync(fs) /\ len = 0 /\ next + 0 = next
      BY <1>1, <1>3, <1>4, <2>2
    <3>2. /\ Grown(fs, FlushAsync(fs), 0)
          /\ Held(fs, header[1], next) => Held(FlushAsync(fs), header[1], next)
      BY <1>4, FlushAsyncKeeps
    <3> QED
      BY <3>1, <3>2, Zenon
  <2>3. CASE kind = "print"
    <3>1. fs' = Write(fs, data)
      BY <1>1, <2>3
    <3>2. data \in Seq(Int) /\ Len(data) = len /\ \A i \in 1 .. len : data[i] = next + i - 1
      BY <1>4, <1>5
    <3> HIDE DEF data
    <3>3. /\ Grown(fs, Write(fs, data), len)
          /\ Len(fs.dirty) + len <= Usable /\ Held(fs, header[1], next) =>
                Held(Write(fs, data), header[1], next + len)
      BY <1>4, <1>5, <3>2, WriteKeeps
    <3>4. len <= FreeSpace(fs) => Len(fs.dirty) + len <= Usable
      BY <1>4, <1>5
    <3> QED
      BY <3>1, <3>3, <3>4, Zenon
  <2> QED
    BY <1>3, <2>1, <2>2, <2>3
<1>7. next' = next + len
  BY <1>1
<1> QED
  BY <1>5, <1>6, <1>7, Zenon DEF len

LEMMA WriteKeepsHeader ==
  ASSUME BoxInv, HeaderInv, WriteStep
  PROVE  HeaderInv'
<1> DEFINE len == Head(todo)[2]
<1>1. /\ len \in Nat /\ Grown(fs, fs', len) /\ next' = next + len
      /\ len <= FreeSpace(fs) /\ Held(fs, header[1], next) => Held(fs', header[1], next')
  BY WriteGrows
<1>2. /\ todo \in Seq(Writes) /\ todo # <<>> /\ todo' = Tail(todo) /\ header' = header
      /\ blackboxState' = blackboxState /\ headerIndex' = headerIndex /\ pc' = pc
      /\ blackboxHeaderBudget' = blackboxHeaderBudget /\ blackboxHeaderBudget \in Int
  BY DEF BoxInv, WritesTyped, PositionTyped, WriteStep, position, history
<1>3. FileInOrder(fs', next') /\ next' \in Nat
  BY WriteKeepsOrder DEF WritesTyped
<1> HIDE DEF len
<1>4. /\ Len(fs'.dirty) <= Usable /\ FreeSpace(fs') \in Nat /\ FreeSpace(fs') >= FreeSpace(fs) - len
      /\ fs'.address \in Nat
  BY <1>1, <1>3, RoomLeft
<1>5. /\ FreeSpace(fs) \in Nat /\ header[1] \in Nat /\ header[1] <= next /\ next \in Nat
      /\ FileInOrder(fs, next) /\ header \in Nat \X Nat
  BY HeaderFacts
<1>6. CASE blackboxState \in HeaderStates
  <2>1. PICK r \in Nat : /\ Pending(todo, r) /\ r <= FreeSpace(fs)
                         /\ pc = "fields" => r + blackboxHeaderBudget <= FreeSpace(fs)
    BY <1>6 DEF HeaderInv, Roomy
  <2>2. \/ Head(todo) = <<"byte", 1>> /\ r - 1 \in Nat /\ Pending(Tail(todo), r - 1)
        \/ Head(todo) = <<"print", r>> /\ Pending(Tail(todo), 0)
    BY <1>2, <2>1, PendingNext
  <2>3. len <= r /\ \E q \in Nat : q <= r - len /\ Pending(Tail(todo), q)
    <3>1. CASE Head(todo) = <<"byte", 1>> /\ r - 1 \in Nat /\ Pending(Tail(todo), r - 1)
      <4>1. len = 1
        BY <3>1 DEF len
      <4> QED
        BY <3>1, <4>1
    <3>2. CASE Head(todo) = <<"print", r>> /\ Pending(Tail(todo), 0)
      <4>1. len = r
        BY <3>2 DEF len
      <4> QED
        BY <3>2, <4>1
    <3> QED
      BY <2>2, <3>1, <3>2
  <2>4. PICK q \in Nat : q <= r - len /\ Pending(Tail(todo), q)
    BY <2>3
  <2>5. q <= FreeSpace(fs') /\ (pc' = "fields" => q + blackboxHeaderBudget' <= FreeSpace(fs'))
    BY <1>1, <1>2, <1>4, <1>5, <2>1, <2>4
  <2>6. Roomy'
    BY <1>2, <2>4, <2>5 DEF Roomy
  <2>7. len <= FreeSpace(fs)
    BY <1>1, <1>5, <2>1, <2>3
  <2>8. header[1] # 0 => Held(fs, header[1], next)
    BY <1>6 DEF HeaderInv
  <2>9. header'[1] # 0 => Held(fs', header'[1], next')
    BY <1>1, <1>2, <2>7, <2>8
  <2>10. blackboxState' \notin Logging
    BY <1>2, <1>6 DEF HeaderStates, FieldHeaders, Logging
  <2>11. header'[1] <= next'
    BY <1>1, <1>2, <1>5
  <2>12. blackboxState' = "SEND_HEADER" => headerIndex' % HeaderChunk = 0
    BY <1>2 DEF HeaderInv
  <2> QED
    BY <1>4, <2>6, <2>9, <2>10, <2>11, <2>12, Zenon DEF HeaderInv
<1>7. CASE blackboxState \notin HeaderStates
  <2>1. header'[1] <= next'
    BY <1>1, <1>2, <1>5
  <2>2. blackboxState \in Logging /\ header[1] # 0 => Delivered(fs', header)
    BY <1>1, <1>4, <1>5, DeliveredGrows DEF HeaderInv
  <2>3. blackboxState' \notin HeaderStates /\ blackboxState' # "SEND_HEADER"
    BY <1>2, <1>7 DEF HeaderStates
  <2> QED
    BY <1>2, <1>4, <2>1, <2>2, <2>3, Zenon DEF HeaderInv
<1> QED
  BY <1>6, <1>7
-----------------------------------------------------------------------------
(* Steps that write nothing: what the ring held is in it or on the chip.     *)
Undisturbed == {fs, FlushAsync(fs), FlushSync(fs), [fs EXCEPT !.busy = FALSE]}

LEMMA UndisturbedKeeps ==
  ASSUME BoxInv, HeaderInv, NEW g \in Undisturbed
  PROVE  /\ Len(g.dirty) <= Usable /\ FreeSpace(g) \in Nat /\ FreeSpace(g) >= FreeSpace(fs)
         /\ Held(fs, header[1], next) => Held(g, header[1], next)
         /\ header[1] # 0 /\ Delivered(fs, header) => Delivered(g, header)
<1>1. /\ FileInOrder(fs, next) /\ next \in Nat /\ Len(fs.dirty) <= Usable /\ header[1] \in Nat
      /\ header \in Nat \X Nat /\ FreeSpace(fs) \in Nat
  BY HeaderFacts
<1>2. Grown(fs, g, 0) /\ (Held(fs, header[1], next) => Held(g, header[1], next))
  <2>1. CASE g = fs
    BY <1>1, <2>1, SameKeeps
  <2>2. CASE g = FlushAsync(fs)
    BY <1>1, <2>2, FlushAsyncKeeps
  <2>3. CASE g = FlushSync(fs)
    BY <1>1, <2>3, FlushSyncKeeps
  <2>4. CASE g = [fs EXCEPT !.busy = FALSE]
    BY <1>1, <2>4, ReadyKeeps
  <2> QED
    BY <2>1, <2>2, <2>3, <2>4 DEF Undisturbed
<1>3. FileInOrder(g, next)
  BY <1>1, FlushAsyncInOrder, FlushSyncInOrder, ReadyInOrder DEF Undisturbed
<1>4. /\ Len(g.dirty) <= Usable /\ FreeSpace(g) \in Nat /\ FreeSpace(g) >= FreeSpace(fs) - 0
      /\ g.address \in Nat
  BY <1>1, <1>2, <1>3, RoomLeft
<1>5. header[1] # 0 /\ Delivered(fs, header) => Delivered(g, header)
  BY <1>1, <1>2, <1>4, DeliveredGrows
<1> QED
  BY <1>1, <1>2, <1>4, <1>5

LEMMA RoomyKept ==
  ASSUME BoxInv, HeaderInv, Roomy, fs' \in Undisturbed, todo' = todo,
         pc' = "fields" => pc = "fields" /\ blackboxHeaderBudget' = blackboxHeaderBudget
  PROVE  Roomy'
<1>1. PICK r \in Nat : /\ Pending(todo, r) /\ r <= FreeSpace(fs)
                       /\ pc = "fields" => r + blackboxHeaderBudget <= FreeSpace(fs)
  BY DEF Roomy
<1>2. /\ FreeSpace(fs') \in Nat /\ FreeSpace(fs') >= FreeSpace(fs) /\ FreeSpace(fs) \in Nat
      /\ blackboxHeaderBudget \in Int
  BY UndisturbedKeeps, HeaderFacts DEF BoxInv, PositionTyped
<1>3. r <= FreeSpace(fs') /\ (pc' = "fields" => r + blackboxHeaderBudget' <= FreeSpace(fs'))
  BY <1>1, <1>2
<1> QED
  BY <1>1, <1>3 DEF Roomy

(* The call begins, or goes on, to write r bytes.                           *)
LEMMA RoomyNew ==
  ASSUME NEW r \in Nat, Pending(todo', r), r <= FreeSpace(fs'),
         pc' = "fields" => r + blackboxHeaderBudget' <= FreeSpace(fs')
  PROVE  Roomy'
BY DEF Roomy

(* Steps on the way through the header, and those that leave it or the log.  *)
LEMMA HeaderGoesOn ==
  ASSUME BoxInv, HeaderInv, next' = next, header' = header, fs' \in Undisturbed,
         blackboxState' \in HeaderStates => blackboxState \in HeaderStates /\ Roomy',
         blackboxState' \in Logging => blackboxState \in Logging,
         blackboxState' = "SEND_HEADER" => headerIndex' % HeaderChunk = 0
  PROVE  HeaderInv'
<1>1. Len(fs'.dirty) <= Usable
  BY UndisturbedKeeps
<1>2. header'[1] <= next'
  BY HeaderFacts
<1>3. blackboxState' \in HeaderStates /\ header'[1] # 0 => Held(fs', header'[1], next')
  BY UndisturbedKeeps DEF HeaderInv
<1>4. blackboxState' \in Logging /\ header'[1] # 0 => Delivered(fs', header')
  BY UndisturbedKeeps DEF HeaderInv
<1> QED
  BY <1>1, <1>2, <1>3, <1>4, Zenon DEF HeaderInv

LEMMA HeaderLeft ==
  ASSUME Len(fs'.dirty) <= Usable, header'[1] <= next',
         blackboxState' \notin HeaderStates, blackboxState' \notin Logging \/ header'[1] = 0
  PROVE  HeaderInv'
<1>1. blackboxState' # "SEND_HEADER"
  BY DEF HeaderStates
<1> QED
  BY <1>1, Zenon DEF HeaderInv
-----------------------------------------------------------------------------
(* blackboxHeader itself: the last piece is the short one.                   *)
LEMMA RemainderIs ==
  ASSUME NEW c \in Nat, c > 0, NEW k \in Int, NEW r \in Nat, r < c, NEW x \in Int, x = c * k + r
  PROVE  x % c = r
<1> DEFINE q == x \div c  t == x % c
<1>1. x = c * q + t /\ q \in Int /\ t \in Int /\ 0 <= t /\ t < c
  OBVIOUS
<1> HIDE DEF q, t
<1>2. t - r = c * (k - q) /\ k - q \in Int
  BY <1>1
<1>3. k - q = 0
  <2>1. CASE k - q >= 1
    <3>1. c * (k - q) >= c
      BY <1>2, <2>1
    <3> QED
      BY <1>1, <1>2, <3>1
  <2>2. CASE k - q <= -1
    <3>1. c * (k - q) <= -c
      BY <1>2, <2>2
    <3> QED
      BY <1>1, <1>2, <3>1
  <2> QED
    BY <1>2, <2>1, <2>2
<1>4. t = r
  BY <1>1, <1>2, <1>3
<1> QED
  BY <1>4 DEF t

LEMMA Piecewise ==
  ASSUME NEW c \in Nat, c > 0, NEW i \in Nat, i % c = 0, NEW len \in Nat, i < len
  PROVE  LET n == Min({c, len - i})
         IN  /\ n \in Nat /\ n <= c /\ i + n <= len
             /\ i + n # len => (i + n) % c = 0
             /\ i + n = len => n = c \/ n = len % c
             /\ n = c /\ i + n = len => len % c = 0
<1> DEFINE n == Min({c, len - i})
<1>1. n = IF c <= len - i THEN c ELSE len - i
  <2>1. c \in Int /\ len - i \in Int
    OBVIOUS
  <2> QED
    BY <2>1, MinTwo, Zenon
<1> HIDE DEF n
<1>2. n \in Nat /\ n <= c /\ i + n <= len
  BY <1>1
<1>3. PICK k \in Int : i = c * k
  <2> DEFINE q == i \div c
  <2>1. i = c * q + (i % c) /\ q \in Int
    OBVIOUS
  <2> HIDE DEF q
  <2>2. i = c * q
    BY <2>1
  <2> QED
    BY <2>1, <2>2
<1>4. (i + c) % c = 0
  <2>1. i + c = c * (k + 1) + 0
    BY <1>3
  <2> QED
    BY <2>1, RemainderIs
<1>5. ~(c <= len - i) => len % c = len - i
  <2> SUFFICES ASSUME ~(c <= len - i) PROVE len % c = len - i
    OBVIOUS
  <2> DEFINE r == len - i
  <2>1. len = c * k + r /\ r \in Nat /\ r < c
    BY <1>3
  <2> HIDE DEF r
  <2>2. len % c = r
    BY <2>1, RemainderIs
  <2> QED
    BY <2>2 DEF r
<1> QED
  BY <1>1, <1>2, <1>4, <1>5 DEF n

LEMMA Budgets ==
  /\ HeaderLen \in Nat /\ HeaderChunk \in Nat /\ HeaderChunk > 0 /\ LineLen \in Nat /\ LineLen > 0
  /\ FieldLen \in Nat /\ FieldLen > 0 /\ LineLen <= HeaderChunk /\ 0 % HeaderChunk = 0
  /\ HeaderLen % HeaderChunk # 0 /\ (HeaderLen % HeaderChunk) + LineLen <= HeaderChunk
<1>1. /\ HeaderLen \in Nat /\ HeaderChunk \in Nat /\ HeaderChunk > 0 /\ LineLen \in Nat /\ LineLen > 0
      /\ FieldLen \in Nat /\ FieldLen > 0
  BY Lengths
<1>2. HeaderLen % HeaderChunk # 0 /\ (HeaderLen % HeaderChunk) + LineLen <= HeaderChunk
  BY BlackboxAssumption
<1>3. HeaderLen % HeaderChunk \in Nat /\ 0 % HeaderChunk = 0
  BY <1>1
<1> QED
  BY <1>1, <1>2, <1>3

LEMMA LinePending == Pending(HeaderLine, LineLen)
<1>1. LineLen - 1 \in Nat /\ 1 + (LineLen - 1) = LineLen
  BY Budgets
<1>2. Printed(LineLen - 1) \in Seq(Writes) /\ Pending(Printed(LineLen - 1), LineLen - 1)
  BY <1>1, PrintWritten, PendingPrint
<1>3. Pending(Bytes(1) \o Printed(LineLen - 1), 1 + (LineLen - 1))
  BY <1>1, <1>2, PendingMore
<1> QED
  BY <1>1, <1>3 DEF HeaderLine

LEMMA PrepareKeepsHeader ==
  ASSUME BoxInv, HeaderInv, PrepareLogFile
  PROVE  HeaderInv'
<1>1. /\ fs' = fs /\ next' = next /\ header' = <<next, 0>> /\ blackboxState' = "SEND_HEADER"
      /\ todo' = <<>> /\ pc' = "full"
  BY DEF PrepareLogFile, Called, EnterState
<1>2. headerIndex' = 0
  BY DEF PrepareLogFile, EnterState, HeaderStates
<1>3. /\ Len(fs.dirty) <= Usable /\ FreeSpace(fs) \in Nat /\ next \in Nat
  BY HeaderFacts
<1>4. Roomy'
  <2>1. Pending(todo', 0) /\ 0 <= FreeSpace(fs') /\ pc' # "fields" /\ 0 \in Nat
    BY <1>1, <1>3, PendingNothing
  <2> QED
    BY <2>1, RoomyNew
<1>5. Held(fs', header'[1], next')
  <2>1. \A j \in next .. next - 1 : FALSE
    BY <1>3
  <2>2. Holds(fs.flash, fs.address, fs.dirty, next, next)
    BY <2>1 DEF Holds
  <2>3. header'[1] = next
    BY <1>1
  <2> QED
    BY <1>1, <2>2, <2>3, Zenon DEF Held
<1>6. header'[1] <= next' /\ blackboxState' \notin Logging /\ headerIndex' % HeaderChunk = 0
  BY <1>1, <1>2, <1>3, Budgets DEF Logging
<1> QED
  BY <1>1, <1>3, <1>4, <1>5, <1>6, Zenon DEF HeaderInv

LEMMA SendHeaderKeepsHeader ==
  ASSUME BoxInv, HeaderInv, SendHeader
  PROVE  HeaderInv'
<1> DEFINE n == Min({HeaderChunk, HeaderLen - headerIndex})
<1>1. /\ blackboxState = "SEND_HEADER" /\ next' = next /\ header' = header /\ pc' = "full" /\ todo = <<>>
      /\ \/ Refused(HeaderChunk, Replenished) /\ UNCHANGED <<blackboxState, headerIndex, todo>>
         \/ /\ Reserved(HeaderChunk, Replenished) /\ headerIndex + n = HeaderLen
            /\ todo' = Bytes(n) \o HeaderLine /\ EnterState("SEND_MAIN_FIELD_HEADER")
         \/ /\ Reserved(HeaderChunk, Replenished) /\ headerIndex + n # HeaderLen
            /\ todo' = Bytes(n) /\ headerIndex' = headerIndex + n /\ UNCHANGED blackboxState
  BY DEF SendHeader, Called
<1>2. blackboxState \in HeaderStates /\ Roomy /\ headerIndex % HeaderChunk = 0
  BY <1>1 DEF HeaderStates, HeaderInv
<1>3. headerIndex \in Nat /\ headerIndex < HeaderLen
  BY <1>1, Indices DEF BoxInv, PositionTyped
<1>4. /\ n \in Nat /\ n <= HeaderChunk /\ headerIndex + n <= HeaderLen
      /\ headerIndex + n # HeaderLen => (headerIndex + n) % HeaderChunk = 0
      /\ headerIndex + n = HeaderLen => n = HeaderChunk \/ n = HeaderLen % HeaderChunk
      /\ n = HeaderChunk /\ headerIndex + n = HeaderLen => HeaderLen % HeaderChunk = 0
  BY <1>2, <1>3, Budgets, Piecewise
<1>5. Replenished \in Int /\ Replenished <= FreeSpace(fs) /\ FreeSpace(fs) \in Nat
  BY ReplenishedTyped, HeaderFacts
<1> HIDE DEF n
<1>6. CASE Refused(HeaderChunk, Replenished) /\ UNCHANGED <<blackboxState, headerIndex, todo>>
  <2>1. fs' \in Undisturbed
    BY <1>6, RefusedOrReserved DEF Undisturbed
  <2>2. Roomy'
    BY <1>1, <1>2, <1>6, <2>1, RoomyKept
  <2>3. blackboxState' = blackboxState /\ headerIndex' = headerIndex
    BY <1>6
  <2> QED
    BY <1>1, <1>2, <2>1, <2>2, <2>3, HeaderGoesOn
<1>7. CASE /\ Reserved(HeaderChunk, Replenished) /\ headerIndex + n = HeaderLen
           /\ todo' = Bytes(n) \o HeaderLine /\ EnterState("SEND_MAIN_FIELD_HEADER")
  <2>1. fs' = fs /\ HeaderChunk <= Replenished
    BY <1>7 DEF Reserved
  <2>2. Pending(todo', n + LineLen)
    BY <1>4, <1>7, Budgets, LinePending, LineWritten, PendingMore
  <2>3. n + LineLen \in Nat /\ n + LineLen <= FreeSpace(fs')
    BY <1>4, <1>5, <1>7, <2>1, Budgets
  <2>4. Roomy'
    BY <1>1, <2>2, <2>3, RoomyNew
  <2>5. blackboxState' = "SEND_MAIN_FIELD_HEADER" /\ fs' \in Undisturbed
    BY <1>7, <2>1 DEF EnterState, Undisturbed
  <2>6. blackboxState' # "SEND_HEADER" /\ blackboxState' \notin Logging
    BY <2>5 DEF Logging
  <2> QED
    BY <1>1, <1>2, <2>4, <2>5, <2>6, HeaderGoesOn
<1>8. CASE /\ Reserved(HeaderChunk, Replenished) /\ headerIndex + n # HeaderLen
           /\ todo' = Bytes(n) /\ headerIndex' = headerIndex + n /\ UNCHANGED blackboxState
  <2>1. fs' = fs /\ HeaderChunk <= Replenished
    BY <1>8 DEF Reserved
  <2>2. Pending(todo', n)
    BY <1>4, <1>8, PendingBytes
  <2>3. n <= FreeSpace(fs')
    BY <1>4, <1>5, <2>1, Budgets
  <2>4. Roomy'
    BY <1>1, <1>4, <2>2, <2>3, RoomyNew
  <2>5. fs' \in Undisturbed /\ blackboxState' = blackboxState /\ headerIndex' % HeaderChunk = 0
    BY <1>4, <1>8, <2>1 DEF Undisturbed
  <2>6. blackboxState' \notin Logging
    BY <1>1, <2>5 DEF Logging
  <2> QED
    BY <1>1, <1>2, <2>4, <2>5, <2>6, HeaderGoesOn
<1> QED
  BY <1>1, <1>6, <1>7, <1>8

LEMMA HeaderLogsNothing == \A s \in HeaderStates : s \notin Logging
BY DEF HeaderStates, FieldHeaders, Logging

(* The next piece of a field definition takes no more than it was granted.   *)
LEMMA FieldPending ==
  /\ Pending(Bytes(FieldLen), FieldLen) /\ Pending(Bytes(1), 1)
  /\ \A before \in {Bytes(1), <<>>}, field \in {Printed(FieldLen - 1), Bytes(FieldLen - 1)} :
        \E r \in Nat : r <= FieldLen /\ Pending(before \o field, r)
<1>1. FieldLen \in Nat /\ FieldLen - 1 \in Nat /\ 1 \in Nat /\ FieldLen - 1 <= FieldLen
      /\ 1 + (FieldLen - 1) = FieldLen
  BY Budgets
<1>2. Pending(Bytes(FieldLen), FieldLen) /\ Pending(Bytes(1), 1)
  BY <1>1, PendingBytes
<1>3. ASSUME NEW field \in {Printed(FieldLen - 1), Bytes(FieldLen - 1)}
      PROVE  field \in Seq(Writes) /\ Pending(field, FieldLen - 1)
  BY <1>1, PrintWritten, BytesWritten, PendingPrint, PendingBytes
<1>4. ASSUME NEW field \in {Printed(FieldLen - 1), Bytes(FieldLen - 1)}
      PROVE  Pending(Bytes(1) \o field, FieldLen) /\ Pending(<<>> \o field, FieldLen - 1)
  <2>1. Pending(Bytes(1) \o field, 1 + (FieldLen - 1))
    BY <1>1, <1>3, PendingMore
  <2>2. Bytes(0) = <<>> /\ 0 \in Nat /\ 0 + (FieldLen - 1) = FieldLen - 1
    BY <1>1 DEF Bytes
  <2>3. Pending(Bytes(0) \o field, 0 + (FieldLen - 1))
    BY <1>1, <1>3, <2>2, PendingMore
  <2> QED
    BY <1>1, <2>1, <2>2, <2>3
<1> QED
  BY <1>1, <1>2, <1>4

LEMMA FieldsKeepHeader ==
  ASSUME BoxInv, HeaderInv, SendFieldDefinition \/ SendField
  PROVE  HeaderInv'
<1>1. /\ next' = next /\ header' = header /\ todo = <<>> /\ blackboxState \in FieldHeaders
  <2>1. pc = "fields" => blackboxState \in FieldHeaders
    BY Zenon DEF BoxInv, FrameInv, StartsAtZero
  <2> QED
    BY <2>1 DEF SendFieldDefinition, SendField, FieldsWait, Called, history
<1>2. /\ blackboxState \in HeaderStates /\ blackboxState # "SEND_HEADER" /\ Roomy
      /\ blackboxState \notin Logging
  BY <1>1, HeaderStateNames, HeaderLogsNothing DEF HeaderInv
<1>3. /\ Replenished \in Int /\ Replenished <= FreeSpace(fs) /\ FreeSpace(fs) \in Nat
      /\ blackboxHeaderBudget \in Int /\ FieldLen \in Nat
  BY ReplenishedTyped, HeaderFacts, Budgets DEF BoxInv, PositionTyped
<1>4. CASE SendFieldDefinition
  <2>1. /\ blackboxHeaderBudget' = Replenished /\ fs' = fs /\ blackboxState' = blackboxState
        /\ todo' = todo
    BY <1>4, Zenon DEF SendFieldDefinition
  <2>2. Pending(todo', 0) /\ 0 \in Nat /\ 0 <= FreeSpace(fs') /\ 0 + blackboxHeaderBudget' <= FreeSpace(fs')
    BY <1>1, <1>3, <2>1, PendingNothing
  <2>3. Roomy'
    BY <2>2, RoomyNew
  <2>4. fs' \in Undisturbed
    BY <2>1 DEF Undisturbed
  <2> QED
    BY <1>1, <1>2, <2>1, <2>3, <2>4, HeaderGoesOn
<1>5. CASE SendField
  <2> DEFINE before == IF fieldIndex > 0 THEN Bytes(1) ELSE <<>>
             field == IF headerIndex = 0 THEN Printed(FieldLen - 1) ELSE Bytes(FieldLen - 1)
             writes == IF fieldIndex = -1 THEN Bytes(FieldLen) ELSE before \o field
  <2>1. /\ pc = "fields"
        /\ \/ FieldsWait(FieldLen) \/ FieldsWait(1)
           \/ FieldsWrite(FieldLen, writes) /\ blackboxState' = blackboxState
           \/ /\ FieldsWrite(1, Bytes(1)) /\ pc' = "full"
              /\ blackboxState' = blackboxState \/ EnterState(NextHeader(blackboxState))
    BY <1>5, Zenon DEF SendField
  <2>2. before \in {Bytes(1), <<>>} /\ field \in {Printed(FieldLen - 1), Bytes(FieldLen - 1)}
    BY Zenon
  <2>3. writes \in {Bytes(FieldLen), before \o field}
    BY Zenon
  <2> HIDE DEF before, field, writes
  <2>4. \E r \in Nat : r <= FieldLen /\ Pending(writes, r)
    <3>1. \E r \in Nat : r <= FieldLen /\ Pending(before \o field, r)
      BY <2>2, FieldPending, Zenon
    <3>2. Pending(Bytes(FieldLen), FieldLen) /\ FieldLen <= FieldLen
      BY <1>3, FieldPending
    <3> QED
      BY <1>3, <2>3, <3>1, <3>2, Zenon
  <2>5. CASE FieldsWait(FieldLen) \/ FieldsWait(1)
    <3>1. /\ blackboxState' = blackboxState /\ todo' = todo /\ pc' = "full"
          /\ Refused(FieldLen, blackboxHeaderBudget) \/ Refused(1, blackboxHeaderBudget)
      BY <2>5, Zenon DEF FieldsWait
    <3>2. fs' \in Undisturbed
      BY <3>1, RefusedOrReserved DEF Undisturbed
    <3>3. Roomy'
      BY <1>2, <3>1, <3>2, RoomyKept
    <3> QED
      BY <1>1, <1>2, <3>1, <3>2, <3>3, HeaderGoesOn
  <2>6. ASSUME NEW bytes \in Nat, NEW t, FieldsWrite(bytes, t), NEW r \in Nat, r <= bytes, Pending(t, r)
        PROVE  Roomy' /\ fs' \in Undisturbed
    <3>1. /\ bytes <= blackboxHeaderBudget /\ fs' = fs /\ todo' = t
          /\ blackboxHeaderBudget' = blackboxHeaderBudget - bytes
      BY <2>6, Zenon DEF FieldsWrite, Reserved
    <3>2. blackboxHeaderBudget <= FreeSpace(fs)
      <4>1. PICK q \in Nat : q + blackboxHeaderBudget <= FreeSpace(fs)
        BY <1>2, <2>1 DEF Roomy
      <4> QED
        BY <1>3, <4>1
    <3>3. r <= FreeSpace(fs') /\ r + blackboxHeaderBudget' <= FreeSpace(fs')
      BY <1>3, <2>6, <3>1, <3>2
    <3>4. Roomy'
      BY <2>6, <3>1, <3>3, RoomyNew
    <3> QED
      BY <3>1, <3>4 DEF Undisturbed
  <2>7. CASE FieldsWrite(FieldLen, writes) /\ blackboxState' = blackboxState
    <3>1. Roomy' /\ fs' \in Undisturbed
      BY <1>3, <2>4, <2>6, <2>7
    <3> QED
      BY <1>1, <1>2, <2>7, <3>1, HeaderGoesOn
  <2>8. CASE FieldsWrite(1, Bytes(1)) /\ (blackboxState' = blackboxState \/ EnterState(NextHeader(blackboxState)))
    <3>1. Roomy' /\ fs' \in Undisturbed
      BY <2>6, <2>8, FieldPending
    <3>2. blackboxState' \in HeaderStates /\ blackboxState' # "SEND_HEADER"
      <4>1. NextHeader(blackboxState) \in HeaderStates /\ NextHeader(blackboxState) # "SEND_HEADER"
        BY <1>1, AfterHeader DEF NextHeader, FieldHeaders
      <4> QED
        BY <1>2, <2>8, <4>1 DEF EnterState
    <3>3. blackboxState' \notin Logging
      BY <3>2, HeaderLogsNothing
    <3> QED
      BY <1>1, <1>2, <3>1, <3>2, <3>3, HeaderGoesOn
  <2> QED
    BY <2>1, <2>5, <2>7, <2>8
<1> QED
  BY <1>4, <1>5

(* Frames are logged only when the ring has drained: every byte of the header,
   which was held, has its place on the chip.                               *)
LEMMA DrainedIsDelivered ==
  ASSUME NEW f, NEW n \in Nat, NEW m \in Nat, FileInOrder(f, m), IsEmpty(f), NEW from \in Nat, from <= n,
         Held(f, from, n), NEW h, h = <<from, n - 1>>
  PROVE  Delivered(f, h)
<1>1. /\ f.address \in Nat /\ Size \in Nat /\ Size > 0 /\ Len(f.dirty) = 0
      /\ Cells = 0 .. Size - 1 /\ h[1] = from /\ h[2] = n - 1
  BY Constants DEF FileInOrder, FileType, IsEmpty, Cells
<1>2. SUFFICES ASSUME ~IsEOF(f)
      PROVE  \E a \in Cells : \A i \in from .. n - 1 : a + i - from \in Cells /\ f.flash[a + i - from] = i
  BY <1>1 DEF Delivered
<1>3. Holds(f.flash, f.address, f.dirty, from, n) /\ f.address < Size
  BY <1>1, <1>2 DEF Held, IsEOF
<1>4. ASSUME NEW j \in from .. n - 1
      PROVE  LET p == f.address - (n - j)
             IN  p \in Nat /\ p < f.address /\ f.flash[p] = j
  <2> DEFINE p == f.address + Len(f.dirty) - (n - j)
  <2>1. p \in Nat /\ (p < f.address => f.flash[p] = j)
    BY <1>3 DEF Holds
  <2>2. p = f.address - (n - j) /\ p < f.address
    BY <1>1
  <2> HIDE DEF p
  <2>3. f.flash[p] = j
    BY <2>1, <2>2
  <2> QED
    BY <2>1, <2>2, <2>3
<1>5. CASE from = n
  <2>1. \A i \in from .. n - 1 : FALSE
    BY <1>5
  <2>2. 0 \in Cells
    BY <1>1
  <2> QED
    BY <2>1, <2>2
<1>6. CASE from < n
  <2> DEFINE a == f.address - (n - from)
  <2>1. a \in Nat /\ a < f.address
    BY <1>4, <1>6
  <2>2. a \in Cells
    BY <1>1, <1>3, <2>1
  <2>3. ASSUME NEW i \in from .. n - 1
        PROVE  a + i - from \in Cells /\ f.flash[a + i - from] = i
    <3> DEFINE p == f.address - (n - i)
    <3>1. p \in Nat /\ p < f.address /\ f.flash[p] = i
      BY <1>4
    <3>2. a + i - from = p /\ p \in Cells
      BY <1>1, <1>3, <3>1
    <3> HIDE DEF a, p
    <3> QED
      BY <3>1, <3>2
  <2> HIDE DEF a
  <2> QED
    BY <2>2, <2>3
<1> QED
  BY <1>5, <1>6

LEMMA SysinfoKeepsHeader ==
  ASSUME BoxInv, HeaderInv, SendSysinfo
  PROVE  HeaderInv'
<1>1. /\ blackboxState = "SEND_SYSINFO" /\ next' = next /\ pc' = "full" /\ todo = <<>>
      /\ \/ /\ Refused(HeaderChunk, Replenished) /\ blackboxState' = blackboxState
            /\ todo' = todo /\ header' = header
         \/ /\ HeaderChunk <= Replenished /\ fs' = fs /\ todo' = HeaderLine
            /\ blackboxState' = blackboxState /\ header' = header
         \/ /\ fs' = FlushAsync(fs) /\ todo' = todo
            /\ \/ ~IsEmpty(fs') /\ blackboxState' = blackboxState /\ header' = header
               \/ IsEmpty(fs') /\ EnterState("RUNNING") /\ header' = <<header[1], next - 1>>
  BY DEF SendSysinfo, SysinfoDone, Called
<1>2. /\ blackboxState \in HeaderStates /\ blackboxState # "SEND_HEADER" /\ blackboxState \notin Logging
      /\ Roomy
  BY <1>1 DEF HeaderStates, Logging, HeaderInv
<1>3. /\ Replenished \in Int /\ Replenished <= FreeSpace(fs) /\ FreeSpace(fs) \in Nat
      /\ FileInOrder(fs, next) /\ next \in Nat /\ next > 0
      /\ header[1] \in Nat /\ header[1] <= next /\ Len(fs.dirty) <= Usable
  BY ReplenishedTyped, HeaderFacts
<1>4. CASE blackboxState' = blackboxState /\ header' = header /\ todo' = todo /\ fs' \in Undisturbed
  <2>1. Roomy'
    BY <1>1, <1>2, <1>4, RoomyKept
  <2> QED
    BY <1>1, <1>2, <1>4, <2>1, HeaderGoesOn
<1>5. CASE /\ HeaderChunk <= Replenished /\ fs' = fs /\ todo' = HeaderLine
           /\ blackboxState' = blackboxState /\ header' = header
  <2>1. Pending(todo', LineLen) /\ LineLen \in Nat /\ LineLen <= FreeSpace(fs')
    BY <1>3, <1>5, Budgets, LinePending
  <2>2. Roomy'
    BY <1>1, <2>1, RoomyNew
  <2>3. fs' \in Undisturbed
    BY <1>5 DEF Undisturbed
  <2> QED
    BY <1>1, <1>2, <1>5, <2>2, <2>3, HeaderGoesOn
<1>6. CASE fs' = FlushAsync(fs) /\ IsEmpty(fs') /\ EnterState("RUNNING") /\ header' = <<header[1], next - 1>>
  <2>1. blackboxState' = "RUNNING" /\ header'[1] = header[1] /\ fs' \in Undisturbed
    BY <1>6 DEF EnterState, Undisturbed
  <2>2. Len(fs'.dirty) <= Usable
    BY <2>1, UndisturbedKeeps
  <2>3. blackboxState' \notin HeaderStates /\ blackboxState' # "SEND_HEADER"
    BY <2>1 DEF HeaderStates, FieldHeaders
  <2>4. header[1] # 0 => Held(fs', header[1], next)
    BY <1>2, <2>1, UndisturbedKeeps DEF HeaderInv
  <2>5. FileInOrder(fs', next)
    BY <1>3, <1>6, FlushAsyncInOrder
  <2>6. header'[1] # 0 => Delivered(fs', header')
    BY <1>3, <1>6, <2>1, <2>4, <2>5, DrainedIsDelivered
  <2>7. header'[1] <= next'
    BY <1>1, <1>3, <2>1
  <2> QED
    BY <2>2, <2>3, <2>6, <2>7, Zenon DEF HeaderInv
<1>7. /\ FlushAsync(fs) \in Undisturbed
      /\ Refused(HeaderChunk, Replenished) => fs' \in Undisturbed
  BY RefusedOrReserved DEF Undisturbed
<1> QED
  BY <1>1, <1>4, <1>5, <1>6, <1>7, Zenon

(* Steps between two headers, or beside one: none enters a header or the log
   from outside.                                                            *)
LEMMA BesideHeader ==
  ASSUME BoxInv, HeaderInv, next' = next, header' = header, fs' \in Undisturbed,
         blackboxState' \in HeaderStates =>
            /\ blackboxState' = blackboxState /\ headerIndex' = headerIndex /\ todo' = todo
            /\ pc' = "fields" => pc = "fields" /\ blackboxHeaderBudget' = blackboxHeaderBudget,
         blackboxState' \in Logging => blackboxState \in Logging
  PROVE  HeaderInv'
<1>1. blackboxState' \in HeaderStates => blackboxState \in HeaderStates /\ Roomy'
  BY RoomyKept DEF HeaderInv
<1>2. blackboxState' = "SEND_HEADER" => headerIndex' % HeaderChunk = 0
  BY DEF HeaderInv, HeaderStates
<1> QED
  BY <1>1, <1>2, HeaderGoesOn

LEMMA UpdatesKeepHeader ==
  ASSUME BoxInv, HeaderInv, Running \/ Paused \/ ShuttingDown \/ CheckFull
  PROVE  HeaderInv'
<1>1. /\ next' = next /\ header' = header /\ pc' # "fields" /\ fs' \in Undisturbed
  BY DEF Running, Paused, ShuttingDown, CheckFull, history, Undisturbed
<1>2. CASE Running \/ Paused
  <2>1. blackboxState' \in Logging /\ blackboxState \in Logging
    BY <1>2 DEF Running, Paused, Called, EnterState, Logging
  <2>2. blackboxState' \notin HeaderStates
    BY <2>1, HeaderLogsNothing
  <2> QED
    BY <1>1, <2>1, <2>2, BesideHeader
<1>3. CASE ShuttingDown
  <2>1. blackboxState' \in {"SHUTTING_DOWN", "STOPPED"}
    BY <1>3 DEF ShuttingDown, Called, EnterState
  <2>2. blackboxState' \notin HeaderStates /\ blackboxState' \notin Logging
    BY <2>1 DEF HeaderStates, FieldHeaders, Logging
  <2> QED
    BY <1>1, <2>2, BesideHeader
<1>4. CASE CheckFull
  <2>1. /\ blackboxState' \in {"STOPPED", blackboxState} /\ todo' = todo /\ headerIndex' = headerIndex
    BY <1>4 DEF CheckFull, position
  <2>2. "STOPPED" \notin HeaderStates /\ "STOPPED" \notin Logging
    BY DEF HeaderStates, FieldHeaders, Logging
  <2> QED
    BY <1>1, <2>1, <2>2, BesideHeader
<1> QED
  BY <1>2, <1>3, <1>4

LEMMA EventsKeepHeader ==
  ASSUME BoxInv, HeaderInv,
         blackboxStart \/ blackboxFinish \/ blackboxLogEvent \/ SwitchBox \/ ReadFlash \/ FlashDone
  PROVE  HeaderInv'
<1>1. /\ next' = next /\ header' = header /\ headerIndex' = headerIndex /\ pc' = pc
      /\ blackboxHeaderBudget' = blackboxHeaderBudget /\ fs' \in Undisturbed
  BY DEF blackboxStart, blackboxFinish, blackboxLogEvent, SwitchBox, ReadFlash, FlashDone,
         position, history, Undisturbed
<1>2. \/ blackboxState' = blackboxState /\ (todo' = todo \/ blackboxState \in Logging \/
                                              blackboxState \in {"DISABLED", "STOPPED", "SHUTTING_DOWN"})
      \/ blackboxState' \in {"DISABLED", "PREPARE_LOG_FILE", "SHUTTING_DOWN"}
  BY DEF blackboxStart, blackboxFinish, blackboxLogEvent, SwitchBox, ReadFlash, FlashDone
<1>3. \A s \in {"DISABLED", "PREPARE_LOG_FILE", "SHUTTING_DOWN", "STOPPED"} :
          s \notin HeaderStates /\ s \notin Logging
  BY DEF HeaderStates, FieldHeaders, Logging
<1>4. blackboxState' \in HeaderStates => blackboxState' = blackboxState /\ todo' = todo
  BY <1>2, <1>3, HeaderLogsNothing
<1>5. blackboxState' \in Logging => blackboxState \in Logging
  BY <1>2, <1>3
<1> QED
  BY <1>1, <1>4, <1>5, BesideHeader

(* An erasure takes the header with it, a power cycle the log.               *)
LEMMA LossKeepsHeader ==
  ASSUME BoxInv, HeaderInv, EraseFlash \/ PowerCycle
  PROVE  HeaderInv'
<1>1. next' = next /\ header' = <<0, 0>> /\ header'[1] = 0
  BY DEF EraseFlash, PowerCycle
<1>2. /\ next \in Nat /\ Usable \in Nat /\ fs \in FileType /\ FreeSpace(fs) \in Nat
      /\ FreeSpace(fs) = Usable - Len(fs.dirty) /\ Len(fs.dirty) \in Nat
  BY HeaderFacts DEF FileInOrder
<1>3. fs'.dirty = <<>>
  BY <1>2 DEF EraseFlash, PowerCycle, EraseCompletely, Boot, Cleared, Fresh, FileType
<1>4. Len(fs'.dirty) <= Usable /\ FreeSpace(fs') = Usable /\ header'[1] <= next'
  BY <1>1, <1>2, <1>3 DEF FreeSpace
<1>5. CASE PowerCycle
  <2>1. blackboxState' \notin HeaderStates /\ blackboxState' \notin Logging
    BY <1>5 DEF PowerCycle, HeaderStates, FieldHeaders, Logging
  <2> QED
    BY <1>4, <2>1, HeaderLeft
<1>6. CASE EraseFlash
  <2>1. /\ blackboxState' = blackboxState /\ headerIndex' = headerIndex /\ todo' = todo
        /\ pc' = pc /\ pc = "idle"
    BY <1>6 DEF EraseFlash, Between, position
  <2>2. blackboxState \in HeaderStates => Roomy'
    <3> SUFFICES ASSUME blackboxState \in HeaderStates PROVE Roomy'
      OBVIOUS
    <3>1. PICK r \in Nat : Pending(todo, r) /\ r <= FreeSpace(fs)
      BY DEF HeaderInv, Roomy
    <3>2. r <= FreeSpace(fs')
      BY <1>2, <1>4, <3>1
    <3> QED
      BY <2>1, <3>1, <3>2, RoomyNew
  <2>3. blackboxState' = "SEND_HEADER" => headerIndex' % HeaderChunk = 0
    BY <2>1 DEF HeaderInv
  <2> QED
    BY <1>1, <1>4, <2>1, <2>2, <2>3, Zenon DEF HeaderInv
<1> QED
  BY <1>5, <1>6

LEMMA HeaderStep == BoxInv /\ HeaderInv /\ [BlackboxNext]_vars => HeaderInv'
<1> SUFFICES ASSUME BoxInv, HeaderInv, [BlackboxNext]_vars PROVE HeaderInv'
  OBVIOUS
<1>1. CASE UNCHANGED vars
  <2>1. /\ fs' = fs /\ next' = next /\ blackboxState' = blackboxState /\ headerIndex' = headerIndex
        /\ blackboxHeaderBudget' = blackboxHeaderBudget /\ todo' = todo /\ pc' = pc
        /\ header' = header
    BY <1>1 DEF vars, position, history
  <2>2. fs' \in Undisturbed
    BY <2>1 DEF Undisturbed
  <2> QED
    BY <2>1, <2>2, BesideHeader
<1>2. CASE BlackboxNext
  BY <1>2, WriteKeepsHeader, PrepareKeepsHeader, SendHeaderKeepsHeader, FieldsKeepHeader,
     SysinfoKeepsHeader, UpdatesKeepHeader, EventsKeepHeader, LossKeepsHeader, Zenon
     DEF BlackboxNext, Update
<1> QED
  BY <1>1, <1>2

LEMMA InitHeader == Init => HeaderInv
<1> SUFFICES ASSUME Init PROVE HeaderInv
  OBVIOUS
<1>1. fs = Fresh /\ next = 1 /\ blackboxState = "STOPPED" /\ header = <<0, 0>>
  BY Zenon DEF Init
<1>2. Len(fs.dirty) <= Usable /\ header[1] <= next
  BY <1>1, FlashAssumption DEF Fresh, Usable
<1>3. "STOPPED" \notin HeaderStates /\ "STOPPED" \notin Logging
  BY DEF HeaderStates, FieldHeaders, Logging
<1>4. blackboxState \notin HeaderStates /\ blackboxState # "SEND_HEADER" /\ blackboxState \notin Logging
  BY <1>1, <1>3
<1> QED
  BY <1>2, <1>4, Zenon DEF HeaderInv

(* blackbox.c:2003: for every chip and every budget, whatever delays the chip
   between two writes, the header is on it in one piece before the first frame
   is logged, and stays there.                                              *)
THEOREM HeaderDelivered == Spec => []HeaderIsWhole
<1>1. HeaderInv => HeaderIsWhole
  BY Zenon DEF HeaderInv, Delivered, HeaderIsWhole
<1>2. Init => BoxInv /\ HeaderInv
  BY InitTypes, InitHeader
<1>3. BoxInv /\ HeaderInv /\ [BlackboxNext]_vars => BoxInv' /\ HeaderInv'
  BY BoxStep, HeaderStep
<1> QED
  BY <1>1, <1>2, <1>3, PTL DEF Spec
================================================================================
