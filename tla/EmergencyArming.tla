-------------------------- MODULE EmergencyArming --------------------------
(***************************************************************************)
(* Emergency arming (fc_core.c): the pilot who flips the arming switch on  *)
(* often enough within a time window may arm past some of the blockers.    *)
(* emergencyArmingUpdate() keeps the times of the last flips as one byte   *)
(* each, counted in steps from `start', and drops the oldest in a loop.    *)
(* The unsigned arithmetic of the code is kept: times are modulo Modulus   *)
(* (2^32 ms), the bytes modulo ByteModulus (2^8).                          *)
(***************************************************************************)
EXTENDS Integers, Sequences

CONSTANTS
    Modulus, ByteModulus,
    Window,             \* EMERGENCY_ARMING_TIME_WINDOW_MS
    Step,               \* EMERGENCY_ARMING_COUNTER_STEP_MS
    Slots,              \* ARRAYLEN(emergencyArming.queue)
    FirstPass,          \* millis() at the first pass of the RX task
    LastPass,           \* bound on the clock
    Gaps                \* times between two passes of the RX task

ASSUME EmergencyAssumption ==
    /\ {Modulus, ByteModulus, Window, Step, Slots, FirstPass, LastPass} \subseteq Nat
    /\ Step > 0 /\ Slots > 0 /\ Window \div Step < ByteModulus
    /\ FirstPass <= LastPass /\ LastPass < Modulus
    /\ Gaps \subseteq Nat \ {0}

VARIABLES
    now,                \* millis()
    armingSwitchWasOn,
    start,              \* emergencyArming.start, None while queueCount is 0
    queue,              \* the bytes in use: queueCount is one more than these
    pc,                 \* "task": the scheduler; "loop": in the while loop
    edges               \* history: times of the last flips, Slots + 1 of them

vars == <<now, armingSwitchWasOn, start, queue, pc, edges>>

None == -1
Minus(a, b) == (a - b) % Modulus

Init ==
    /\ now = FirstPass /\ armingSwitchWasOn = FALSE
    /\ start = None /\ queue = <<>>
    /\ pc = "task" /\ edges = <<>>
-----------------------------------------------------------------------------
(* A mutant: the queue is believed whatever its age.                      *)
TriggeredAtAnyTime ==
    Len(queue) = Slots /\ queue[Slots] < Window \div Step
emergencyArmingIsTriggered ==
    /\ Len(queue) = Slots
    /\ queue[Slots] < Window \div Step
    /\ start >= Minus(now, Window)

MustDrop == start < Minus(now, Window) \/ emergencyArmingIsTriggered

Remember(time) ==
    IF Len(edges) <= Slots THEN Append(edges, time) ELSE Append(Tail(edges), time)

(* A pass of the RX task, `gap' after the one before.                      *)
Pass(on) ==
    /\ pc = "task"
    /\ \E gap \in Gaps : now + gap <= LastPass /\ now' = now + gap
    /\ IF on /\ ~armingSwitchWasOn
       THEN /\ edges' = Remember(now')
            /\ IF start = None
               THEN start' = now' /\ armingSwitchWasOn' = TRUE /\ pc' = "task"
               ELSE pc' = "loop" /\ UNCHANGED <<start, armingSwitchWasOn>>
       ELSE /\ armingSwitchWasOn' = on
            /\ UNCHANGED <<start, pc, edges>>
    /\ UNCHANGED queue

(* A mutant: the bytes are not rebased.                                     *)
DropUnrebased ==
    /\ pc = "loop" /\ MustDrop /\ queue # <<>>
    /\ start' = start + Head(queue) * Step
    /\ queue' = Tail(queue)
    /\ UNCHANGED <<now, armingSwitchWasOn, pc, edges>>

DropOldest ==
    /\ pc = "loop" /\ MustDrop /\ queue # <<>>
    /\ start' = start + Head(queue) * Step
    /\ queue' = [i \in 1 .. Len(queue) - 1 |->
                    (queue[i + 1] - Head(queue)) % ByteModulus]
    /\ UNCHANGED <<now, armingSwitchWasOn, pc, edges>>

StartKept ==                              \* a mutant: start is not renewed
    /\ pc = "loop" /\ MustDrop /\ queue = <<>>
    /\ UNCHANGED vars
StartAgain ==
    /\ pc = "loop" /\ MustDrop /\ queue = <<>>
    /\ start' = now
    /\ UNCHANGED <<now, armingSwitchWasOn, queue, pc, edges>>

Record ==
    /\ pc = "loop" /\ ~MustDrop
    /\ LET delta == (Minus(now, start) \div Step) % ByteModulus
       IN queue' = IF delta > 0 THEN Append(queue, delta) ELSE queue
    /\ armingSwitchWasOn' = TRUE
    /\ pc' = "task"
    /\ UNCHANGED <<now, start, edges>>

emergencyArmingUpdate == DropOldest \/ StartAgain \/ Record

Next == (\E on \in BOOLEAN : Pass(on)) \/ emergencyArmingUpdate

(* A task that runs is run to its end.                                     *)
Spec == Init /\ [][Next]_vars
FairSpec == Spec /\ WF_vars(emergencyArmingUpdate)
-----------------------------------------------------------------------------

(* The queue never outgrows its array, behind which its counter lies, and
   every byte stands for the flip it was recorded for, whatever was dropped
   since: within one step of its time.                                     *)
QueueIsHistory ==
    /\ Len(queue) <= Slots
    /\ pc = "task" =>
          \A i \in 1 .. Len(queue) :
             LET edge == edges[Len(edges) - Len(queue) + i]
             IN (edge - start) \div Step = queue[i]

(* Emergency arming needs the whole number of flips within the window.     *)
TriggeredIsDeliberate ==
    pc = "task" /\ emergencyArmingIsTriggered
       => Len(edges) = Slots + 1 /\ now - edges[1] <= Window

(* The while loop ends.  fc_core.c says of this queue that it will work
   fine as long as the window is smaller than what a byte can represent.   *)
LoopEnds == (pc = "loop") ~> (pc = "task")
=============================================================================
