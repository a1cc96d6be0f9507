------------------------------- MODULE Blackbox -------------------------------
(***************************************************************************)
(* The black box (blackbox/blackbox.c, blackbox_io.c) on a flash chip: the *)
(* states of a log, its header sent in pieces under a budget, the frames,  *)
(* the logging switch, and what disturbs it from outside: arming and       *)
(* disarming, events, a read or an erasure of the chip by MSP, the end of  *)
(* the volume and a power cycle.                                           *)
(*                                                                         *)
(* A call of blackboxUpdate() writes several times and the chip may become *)
(* ready between two writes, so one write is one step: todo holds the      *)
(* writes of the current call that are still to come, pc what follows.     *)
(* Lengths stand for numbers of bytes divided by 16.                       *)
(***************************************************************************)
EXTENDS FlashFS

CONSTANTS
    HeaderLen,      \* length of blackboxHeader
    HeaderChunk,    \* BLACKBOX_TARGET_HEADER_BUDGET_PER_ITERATION
    MaxBudget,      \* BLACKBOX_MAX_ACCUMULATED_HEADER_BUDGET
    LineLen,        \* length of a line of system information
    FieldLines,     \* header lines of a frame type
    SysinfoLines,   \* lines of system information
    Fields,         \* fields of a frame type
    FieldLen,       \* what the header asks for a field
    IntraLen,       \* length of an I frame
    InterLen,       \* length of a P frame or of an event
    IFrameInterval, \* blackboxIFrameInterval
    HasGPS,         \* FEATURE_GPS
    MaxStart,       \* bound of the model: no log starts after so many bytes
    MaxBytes,       \* bound of the model: no frame starts after so many bytes
    MaxEvents       \* bound of the model: armings, moves of the switch, events to log, reads
                    \* and erasures by MSP, power cycles

(* The last piece of blackboxHeader (78 bytes in pieces of 64) is a short one,
   and the line that is printed behind it fits into what the call reserved
   for a whole piece.                                                       *)
ASSUME BlackboxAssumption ==
    /\ {HeaderLen, HeaderChunk, MaxBudget, LineLen, FieldLines, SysinfoLines, Fields, FieldLen,
        IntraLen, InterLen, IFrameInterval, MaxStart, MaxBytes} \subseteq Nat \ {0} /\ MaxEvents \in Nat
    /\ HasGPS \in BOOLEAN
    /\ FieldLen <= HeaderChunk /\ HeaderChunk <= Usable
    /\ HeaderLen % HeaderChunk # 0 /\ (HeaderLen % HeaderChunk) + LineLen <= HeaderChunk

VARIABLES
    fs,             \* the flash file system
    next,           \* the number of the next byte that is written
    blackboxState, headerIndex, fieldIndex, blackboxHeaderBudget,
    pFrame,         \* blackboxPFrameIndex
    box,            \* BOXBLACKBOX; a craft without the switch is one whose switch stays on
    armed,
    todo, pc,       \* inside a call: the writes to come, and what follows them
    events,         \* how many of MaxEvents are over
    header,         \* history: the bytes of the header of this log, first and last
    intra           \* history: an I frame was written since logging (re)started

position == <<headerIndex, fieldIndex, blackboxHeaderBudget>>
history  == <<events, header, intra>>
vars == <<fs, next, blackboxState, position, pFrame, box, armed, todo, pc, history>>

FieldHeaders == {"SEND_MAIN_FIELD_HEADER", "SEND_GPS_H_HEADER", "SEND_GPS_G_HEADER",
                 "SEND_SLOW_HEADER"}
HeaderStates == {"SEND_HEADER", "SEND_SYSINFO"} \cup FieldHeaders
LogStates    == {"DISABLED", "STOPPED", "PREPARE_LOG_FILE", "PAUSED", "RUNNING", "SHUTTING_DOWN"}
                    \cup HeaderStates
Logging      == {"RUNNING", "PAUSED"}

Bytes(n) == [i \in 1 .. n |-> <<"byte", 1>>]
Printed(n) == <<<<"print", n>>>>
Flush    == <<<<"flush", 0>>>>

BlackboxTypeOK ==
    /\ fs \in FileType /\ next \in Nat \ {0} /\ blackboxState \in LogStates
    /\ headerIndex \in 0 .. Max({HeaderLen, FieldLines, SysinfoLines})
    /\ fieldIndex \in -1 .. Fields /\ blackboxHeaderBudget \in Int
    /\ pFrame \in 0 .. IFrameInterval - 1
    /\ box \in BOOLEAN /\ armed \in BOOLEAN /\ intra \in BOOLEAN
    /\ todo \in Seq({"byte", "print", "flush"} \X Nat)
    /\ pc \in {"idle", "fields", "full"}
    /\ events \in 0 .. MaxEvents /\ header \in Nat \X Nat

Init ==
    /\ fs = Fresh /\ next = 1
    /\ blackboxState = "STOPPED"
    /\ headerIndex = 0 /\ fieldIndex = -1 /\ blackboxHeaderBudget = 0
    /\ pFrame = 0 /\ box = TRUE /\ armed = FALSE
    /\ todo = <<>> /\ pc = "idle"
    /\ events = 0 /\ header = <<0, 0>> /\ intra = FALSE
-----------------------------------------------------------------------------
(* blackboxWrite() and blackboxPrint() number the bytes they store.         *)
WriteStep ==
    /\ todo # <<>>
    /\ LET kind == Head(todo)[1]
           len  == Head(todo)[2]
       IN /\ fs' = CASE kind = "byte"  -> WriteByte(fs, next)
                     [] kind = "flush" -> FlushAsync(fs)
                     [] kind = "print" -> Write(fs, [i \in 1 .. len |-> next + i - 1])
          /\ next' = next + len
    /\ todo' = Tail(todo)
    /\ UNCHANGED <<blackboxState, position, pFrame, box, armed, pc, history>>

(* blackboxSetState()                                                       *)
EnterState(s) ==
    /\ blackboxState' = s
    /\ headerIndex' = IF s \in HeaderStates THEN 0 ELSE headerIndex
    /\ fieldIndex' = IF s \in FieldHeaders THEN -1 ELSE fieldIndex
    /\ intra' = (intra /\ s # "RUNNING")

(* blackboxReplenishHeaderBudget()                                          *)
Replenished == Min({FreeSpace(fs), blackboxHeaderBudget + HeaderChunk, MaxBudget})

(* blackboxDeviceReserveBufferSpace(): without success the caller comes back
   in a later call; a buffer without room for it is flushed.  Its mutant
   leaves that to the writes.                                              *)
RefusedOnly(bytes, budget) == bytes > budget /\ UNCHANGED fs
Refused(bytes, budget) ==
    /\ bytes > budget
    /\ fs' = IF bytes > FreeSpace(fs) THEN FlushAsync(fs) ELSE fs
Reserved(bytes, budget) == bytes <= budget /\ UNCHANGED fs

(* blackboxPrintfHeaderLine(): "H ", a name, a value and a newline; the name
   is not taken from the budget.                                           *)
HeaderLine == Bytes(1) \o Printed(LineLen - 1)
LineCost   == 1

-----------------------------------------------------------------------------
(* blackboxUpdate(), one action per state.  Every call ends in CheckFull.   *)
Called(s) == blackboxState = s /\ pc = "idle" /\ todo = <<>>

PrepareLogFile ==
    /\ Called("PREPARE_LOG_FILE")
    /\ EnterState("SEND_HEADER") /\ blackboxHeaderBudget' = 0
    /\ header' = <<next, 0>>
    /\ pc' = "full"
    /\ UNCHANGED <<fs, next, pFrame, box, armed, todo, events>>

SendHeader ==
    LET n == Min({HeaderChunk, HeaderLen - headerIndex})
    IN /\ Called("SEND_HEADER")
       /\ \/ /\ Refused(HeaderChunk, Replenished)
             /\ blackboxHeaderBudget' = Replenished
             /\ UNCHANGED <<blackboxState, headerIndex, fieldIndex, intra, todo>>
          \/ /\ Reserved(HeaderChunk, Replenished)
             /\ IF headerIndex + n = HeaderLen
                THEN /\ todo' = Bytes(n) \o HeaderLine
                     /\ blackboxHeaderBudget' = Replenished - n - LineCost
                     /\ EnterState("SEND_MAIN_FIELD_HEADER")
                ELSE /\ todo' = Bytes(n) /\ headerIndex' = headerIndex + n
                     /\ blackboxHeaderBudget' = Replenished - n
                     /\ UNCHANGED <<blackboxState, fieldIndex, intra>>
       /\ pc' = "full"
       /\ UNCHANGED <<next, pFrame, box, armed, header, events>>

(* sendFieldDefinition(): the name of the line, its fields, its newline, as
   many of them as the budget allows; a step for each.                      *)
SendFieldDefinition ==
    /\ \E s \in FieldHeaders : Called(s)
    /\ blackboxHeaderBudget' = Replenished
    /\ pc' = "fields"
    /\ UNCHANGED <<fs, next, blackboxState, headerIndex, fieldIndex, pFrame, box, armed, todo, history>>

NextHeader(s) ==
    CASE s = "SEND_MAIN_FIELD_HEADER" -> IF HasGPS THEN "SEND_GPS_H_HEADER" ELSE "SEND_SLOW_HEADER"
      [] s = "SEND_GPS_H_HEADER"      -> "SEND_GPS_G_HEADER"
      [] s = "SEND_GPS_G_HEADER"      -> "SEND_SLOW_HEADER"
      [] s = "SEND_SLOW_HEADER"       -> "SEND_SYSINFO"

FieldsWait(bytes) ==
    /\ Refused(bytes, blackboxHeaderBudget)
    /\ pc' = "full"
    /\ UNCHANGED <<blackboxState, position, intra, todo>>
FieldsWrite(bytes, writes) ==
    /\ Reserved(bytes, blackboxHeaderBudget)
    /\ blackboxHeaderBudget' = blackboxHeaderBudget - bytes
    /\ todo' = writes
SendField ==
    /\ pc = "fields" /\ todo = <<>>
    /\ \/ /\ fieldIndex < Fields
          /\ \/ FieldsWait(FieldLen)
             \/ /\ FieldsWrite(FieldLen,
                       IF fieldIndex = -1 THEN Bytes(FieldLen)
                       ELSE (IF fieldIndex > 0 THEN Bytes(1) ELSE <<>>) \o
                            (IF headerIndex = 0 THEN Printed(FieldLen - 1) ELSE Bytes(FieldLen - 1)))
                /\ fieldIndex' = fieldIndex + 1
                /\ UNCHANGED <<blackboxState, headerIndex, intra, pc>>
       \/ /\ fieldIndex = Fields
          /\ \/ FieldsWait(1)
             \/ /\ FieldsWrite(1, Bytes(1))
                /\ pc' = "full"
                /\ IF headerIndex + 1 < FieldLines
                   THEN /\ headerIndex' = headerIndex + 1 /\ fieldIndex' = -1
                        /\ UNCHANGED <<blackboxState, intra>>
                   ELSE EnterState(NextHeader(blackboxState))
    /\ UNCHANGED <<next, pFrame, box, armed, header, events>>

(* A line of system information in each call, and when there are no more a
   wait for the buffer to drain.  The mutant does not wait.                *)
SysinfoDoneAtOnce ==
    /\ fs' = FlushAsync(fs)
    /\ EnterState("RUNNING") /\ header' = <<header[1], next - 1>>
SysinfoDone ==
    /\ fs' = FlushAsync(fs)
    /\ IF IsEmpty(fs') THEN EnterState("RUNNING") /\ header' = <<header[1], next - 1>>
       ELSE UNCHANGED <<blackboxState, headerIndex, fieldIndex, intra, header>>
SendSysinfo ==
    /\ Called("SEND_SYSINFO")
    /\ \/ /\ Refused(HeaderChunk, Replenished)
          /\ blackboxHeaderBudget' = Replenished
          /\ UNCHANGED <<blackboxState, headerIndex, fieldIndex, todo, header, intra>>
       \/ /\ HeaderChunk <= Replenished /\ headerIndex < SysinfoLines
          /\ blackboxHeaderBudget' = Replenished - LineCost
          /\ todo' = HeaderLine /\ headerIndex' = headerIndex + 1
          /\ UNCHANGED <<fs, blackboxState, fieldIndex, header, intra>>
       \/ /\ HeaderChunk <= Replenished /\ headerIndex = SysinfoLines
          /\ blackboxHeaderBudget' = Replenished
          /\ SysinfoDone
          /\ UNCHANGED todo
    /\ pc' = "full"
    /\ UNCHANGED <<next, pFrame, box, armed, events>>

(* blackboxLogIteration(): an I frame, or events and a P frame when its
   turn has come; slow frames go with either.                               *)
LogIteration ==
    \/ /\ pFrame = 0
       /\ todo' = Bytes(IntraLen) \o Flush /\ intra' = TRUE
    \/ /\ pFrame # 0
       /\ \E frames \in {0, 1, 2} : todo' = Bytes(frames * InterLen) \o Flush
       /\ UNCHANGED intra
(* blackboxAdvanceIterationTimers().  Its mutant wraps one too late.        *)
WrapTooLate == pFrame' = (pFrame + 1) % (IFrameInterval + 1)
AdvanceIterationTimers == pFrame' = (pFrame + 1) % IFrameInterval

Running ==
    /\ Called("RUNNING") /\ next <= MaxBytes
    /\ IF ~box THEN EnterState("PAUSED") /\ UNCHANGED todo
       ELSE LogIteration /\ UNCHANGED <<blackboxState, headerIndex, fieldIndex>>
    /\ AdvanceIterationTimers
    /\ pc' = "full"
    /\ UNCHANGED <<fs, next, blackboxHeaderBudget, box, armed, header, events>>

(* Only in the iteration of an I frame may logging go on; the mutant does
   not wait for it.                                                        *)
ResumeAtOnce == box
MayResume    == box /\ pFrame = 0
Paused ==
    /\ Called("PAUSED") /\ next <= MaxBytes
    /\ IF MayResume
       THEN /\ blackboxState' = "RUNNING"
            /\ todo' = Bytes(InterLen) \o Bytes(IF pFrame = 0 THEN IntraLen ELSE InterLen) \o Flush
            /\ intra' = (pFrame = 0)
       ELSE UNCHANGED <<blackboxState, todo, intra>>
    /\ AdvanceIterationTimers
    /\ pc' = "full"
    /\ UNCHANGED <<fs, next, position, box, armed, header, events>>

(* Either BLACKBOX_SHUTDOWN_TIMEOUT_MILLIS is over or the buffer is empty.  *)
ShuttingDown ==
    /\ Called("SHUTTING_DOWN")
    /\ \/ fs' = fs /\ EnterState("STOPPED")
       \/ /\ fs' = FlushAsync(fs)
          /\ IF IsEmpty(fs') THEN EnterState("STOPPED")
             ELSE UNCHANGED <<blackboxState, headerIndex, fieldIndex, intra>>
    /\ pc' = "full"
    /\ UNCHANGED <<next, blackboxHeaderBudget, pFrame, box, armed, todo, header, events>>

CheckFull ==
    /\ todo = <<>>
    /\ \/ pc = "full"
       \/ pc = "idle" /\ blackboxState \in {"DISABLED", "STOPPED"}
    /\ blackboxState' = IF IsEOF(fs) THEN "STOPPED" ELSE blackboxState
    /\ pc' = "idle"
    /\ UNCHANGED <<fs, next, position, pFrame, box, armed, todo, history>>

Update == \/ WriteStep \/ PrepareLogFile \/ SendHeader \/ SendFieldDefinition \/ SendField
          \/ SendSysinfo \/ Running \/ Paused \/ ShuttingDown \/ CheckFull
-----------------------------------------------------------------------------
(* Between two calls.                                                       *)
Between == pc = "idle" /\ todo = <<>>
Event   == events < MaxEvents /\ events' = events + 1

(* blackboxStart(), from tryArm(): nothing unless the last log is closed.   *)
blackboxStart ==
    /\ Between /\ ~armed /\ next <= MaxStart /\ Event
    /\ armed' = TRUE
    /\ IF blackboxState = "STOPPED"
       THEN /\ blackboxState' = IF IsEOF(fs) THEN "DISABLED" ELSE "PREPARE_LOG_FILE"
            /\ pFrame' = IF IsEOF(fs) THEN pFrame ELSE 0
       ELSE UNCHANGED <<blackboxState, pFrame>>
    /\ UNCHANGED <<fs, next, position, box, todo, pc, header, intra>>

(* blackboxFinish(), from disarm().                                         *)
blackboxFinish ==
    /\ Between /\ armed
    /\ armed' = FALSE
    /\ blackboxState' = IF blackboxState \in {"DISABLED", "STOPPED", "SHUTTING_DOWN"}
                        THEN blackboxState ELSE "SHUTTING_DOWN"
    /\ todo' = IF blackboxState \in Logging THEN Bytes(InterLen) ELSE <<>>
    /\ UNCHANGED <<fs, next, position, pFrame, box, pc, history>>

blackboxLogEvent ==
    /\ Between /\ blackboxState \in Logging /\ Event
    /\ todo' = Bytes(InterLen)
    /\ UNCHANGED <<fs, next, blackboxState, position, pFrame, box, armed, pc, header, intra>>

(* The switch is read while frames are logged, and only then.               *)
SwitchBox ==
    /\ Between /\ blackboxState \in Logging /\ Event
    /\ box' = ~box
    /\ UNCHANGED <<fs, next, blackboxState, position, pFrame, armed, todo, pc, header, intra>>

(* flashfsReadAbs() and flashfsEraseCompletely(), for MSP: nothing asks
   whether a log is being written.                                          *)
ReadFlash ==
    /\ Between /\ fs' = FlushSync(fs)
    /\ Event
    /\ UNCHANGED <<next, blackboxState, position, pFrame, box, armed, todo, pc, header, intra>>
EraseFlash ==
    /\ Between /\ fs' = EraseCompletely(fs)
    /\ header' = <<0, 0>>
    /\ Event
    /\ UNCHANGED <<next, blackboxState, position, pFrame, box, armed, todo, pc, intra>>

FlashDone ==
    /\ fs.busy /\ fs' = [fs EXCEPT !.busy = FALSE]
    /\ UNCHANGED <<next, blackboxState, position, pFrame, box, armed, todo, pc, history>>

(* The power fails, between any two writes.                                 *)
PowerCycle ==
    /\ fs' = Boot(fs)
    /\ Event
    /\ blackboxState' = "STOPPED" /\ headerIndex' = 0 /\ fieldIndex' = -1
    /\ blackboxHeaderBudget' = 0 /\ pFrame' = 0 /\ armed' = FALSE
    /\ todo' = <<>> /\ pc' = "idle" /\ header' = <<0, 0>> /\ intra' = FALSE
    /\ UNCHANGED <<next, box>>

BlackboxNext == \/ Update \/ blackboxStart \/ blackboxFinish \/ blackboxLogEvent \/ SwitchBox
                \/ ReadFlash \/ EraseFlash \/ FlashDone \/ PowerCycle
Spec     == Init /\ [][BlackboxNext]_vars
FairSpec == Spec /\ WF_vars(Update) /\ WF_vars(FlashDone)
-----------------------------------------------------------------------------
(* What is on the chip and in the ring is a part of what was written, in the
   order in which it was written, whatever is lost in between: no byte
   twice, none out of place, and no page programmed over another, not even
   after a power cycle.                                                     *)
LogIsInOrder ==
    LET stored == {a \in Cells : fs.flash[a] # Erased}
    IN  /\ \A a, b \in stored : fs.flash[a] > 0 /\ (a < b => fs.flash[a] < fs.flash[b])
        /\ \A i \in 1 .. Len(fs.dirty) :
              /\ \A a \in stored : fs.flash[a] < fs.dirty[i]
              /\ i > 1 => fs.dirty[i - 1] < fs.dirty[i]

(* blackbox.c:2003 waits for the header to be on the chip before the first
   frame, "to ensure reliable header delivery": once frames are logged every
   byte of the header is there and in one piece, however slow the chip was.
   (Left out: a header that was erased under way, header[1] = 0, and one that
   met the end of the chip, with which the same call stops the log.)        *)
HeaderIsWhole ==
    blackboxState \in Logging /\ header[1] # 0 /\ ~IsEOF(fs) =>
        \E a \in Cells : \A i \in header[1] .. header[2] :
            a + i - header[1] \in Cells /\ fs.flash[a + i - header[1]] = i

(* A P frame is a difference to frames before it: after a start or a pause
   the first frame is an I frame.                                           *)
IntraframeFirst == blackboxState = "RUNNING" /\ todo # <<>> /\ pc = "full" => intra

(* A header that was begun is completed or given up: a full buffer and a
   slow chip never leave the log waiting in its header.                     *)
HeaderEnds == (blackboxState \in HeaderStates) ~> (blackboxState \notin HeaderStates)
==============================================================================
