---------------------------- MODULE EmergencyProofs ----------------------------
(***************************************************************************)
(* Proofs about the trigger queue of emergency arming, for every size of   *)
(* the queue, every time window and step, and every sequence of passes.    *)
(***************************************************************************)
EXTENDS EmergencyArming, TLAPS

(* The window is a whole number of steps (10 s of 0.1 s), and the clock is
   wider than the window.  With a window that is not, a flip late in its
   last step finds the queue full and writes behind the array.              *)
WholeSteps == Window % Step = 0 /\ Window < Modulus

(* A history E of m flips in their order, and n bytes Q that count, from s, the
   flips after the place b of that history.                                 *)
Increasing(E, m) ==
    /\ \A i \in 1 .. m : E[i] \in Nat
    /\ \A i, j \in 1 .. m : i < j => E[i] < E[j]
Bytes(Q, n) == \A i \in 1 .. n : Q[i] \in Nat
AlignedWith(E, Q, n, s, b) == \A i \in 1 .. n : (E[b + i] - s) \div Step = Q[i]

QueueTyped ==
    /\ now \in Nat /\ now < Modulus /\ armingSwitchWasOn \in BOOLEAN
    /\ start \in Int /\ pc \in {"task", "loop"}
    /\ queue \in Seq(Nat) /\ Len(queue) <= Slots
    /\ \A i \in 1 .. Len(queue) : queue[i] < ByteModulus
    /\ edges \in Seq(Nat) /\ Len(edges) <= Slots + 1

(* The flips are remembered in their order; in the loop the last is now.    *)
EdgesOrdered ==
    /\ \A i \in 1 .. Len(edges) : edges[i] <= now
    /\ Increasing(edges, Len(edges))
    /\ pc = "loop" => edges # <<>> /\ edges[Len(edges)] = now

Started ==
    /\ start = None => edges = <<>> /\ queue = <<>> /\ pc = "task"
    /\ start # None => start \in 0 .. now /\ edges # <<>>

(* base is the place in the history of the flip that start stands for: the
   queue holds those that follow, but for the one that is being recorded.   *)
base == Len(edges) - Len(queue) - (IF pc = "loop" THEN 1 ELSE 0)
Aligned ==
    /\ base >= 0
    /\ AlignedWith(edges, queue, Len(queue), start, base)
    /\ start # None =>
          \/ base > 0 /\ edges[base] >= start
          \/ pc = "loop" /\ (Len(queue) = Slots \/ (queue = <<>> /\ start = now))

EmergencyInv == QueueTyped /\ EdgesOrdered /\ Started /\ Aligned
-----------------------------------------------------------------------------
(* Division by a step, and the unsigned difference of two times.            *)
LEMMA DivMonotone ==
  ASSUME NEW a \in Int, NEW b \in Int, NEW s \in Nat, s > 0, a <= b
  PROVE  a \div s <= b \div s
OBVIOUS

LEMMA DivShift ==
  ASSUME NEW a \in Int, NEW q \in Int, NEW s \in Nat, s > 0
  PROVE  (a - q * s) \div s = a \div s - q
OBVIOUS

LEMMA DivBounds ==
  ASSUME NEW a \in Int, NEW s \in Nat, s > 0, a \div s >= 0
  PROVE  /\ a >= 0 /\ (a \div s) * s <= a /\ (a \div s) * s >= 0
         /\ a \div s \in Nat
OBVIOUS

LEMMA WholeDiv ==
  ASSUME NEW a \in Int, NEW w \in Nat, NEW s \in Nat, s > 0, w % s = 0, a \div s >= w \div s
  PROVE  a >= w
OBVIOUS

LEMMA ModSmall ==
  ASSUME NEW a \in Nat, NEW b \in Nat, a < b
  PROVE  a % b = a
OBVIOUS

LEMMA ModBelow ==
  ASSUME NEW a \in Int, NEW b \in Nat, a < 0, 0 <= a + b
  PROVE  a % b = a + b
OBVIOUS

LEMMA Constants ==
  /\ Modulus \in Nat /\ ByteModulus \in Nat /\ Window \in Nat
  /\ Step \in Nat /\ Step > 0 /\ Slots \in Nat /\ Slots > 0
  /\ FirstPass \in Nat /\ FirstPass < Modulus /\ LastPass \in Nat /\ LastPass < Modulus
  /\ \A gap \in Gaps : gap \in Nat /\ gap > 0
  /\ Window \div Step < ByteModulus
BY EmergencyAssumption

(* What is kept was neither wrapped nor longer ago than the window.         *)
LEMMA InWindow ==
  ASSUME WholeSteps, NEW t \in Nat, t < Modulus, NEW from \in Nat, from <= t,
         from >= Minus(t, Window)
  PROVE  t - from <= Window
<1> USE Constants DEF Minus, WholeSteps
<1>1. CASE t < Window
  <2>1. (t - Window) % Modulus = t - Window + Modulus
    BY <1>1, ModBelow
  <2> QED
    BY <2>1
<1>2. CASE t >= Window
  <2>1. t - Window \in Nat /\ (t - Window) % Modulus = t - Window
    BY <1>2, ModSmall
  <2> QED
    BY <2>1
<1> QED
  BY <1>1, <1>2

LEMMA Kept ==
  ASSUME WholeSteps, QueueTyped, start \in 0 .. now, ~MustDrop
  PROVE  /\ now - start <= Window
         /\ (Minus(now, start) \div Step) % ByteModulus = (now - start) \div Step
         /\ (now - start) \div Step \in Nat /\ (now - start) \div Step < ByteModulus
<1> USE Constants
<1>1. now \in Nat /\ now < Modulus /\ start \in Nat /\ start <= now
  BY DEF QueueTyped
<1>2. start >= Minus(now, Window)
  BY <1>1 DEF MustDrop, Minus
<1>3. now - start <= Window
  BY <1>1, <1>2, InWindow
<1>4. Minus(now, start) = now - start
  BY <1>1, ModSmall DEF Minus
<1>5. (now - start) \div Step <= Window \div Step
  BY <1>1, <1>3, DivMonotone
<1>6. (now - start) \div Step \in Nat
  BY <1>1
<1>7. (now - start) \div Step < ByteModulus
  BY <1>5, <1>6
<1> QED
  BY <1>3, <1>4, <1>6, <1>7, ModSmall

LEMMA Remembered ==
  ASSUME edges \in Seq(Nat), Len(edges) <= Slots + 1, NEW time \in Nat
  PROVE  \E lost \in {0, 1} :
            /\ lost = 1 => Len(edges) = Slots + 1
            /\ Remember(time) \in Seq(Nat)
            /\ Len(Remember(time)) = Len(edges) + 1 - lost
            /\ Len(Remember(time)) <= Slots + 1
            /\ \A i \in 1 .. Len(edges) - lost : Remember(time)[i] = edges[i + lost]
            /\ Remember(time)[Len(edges) + 1 - lost] = time
<1> USE Constants
<1>1. CASE Len(edges) <= Slots
  <2>1. Remember(time) = Append(edges, time)
    BY <1>1 DEF Remember
  <2> QED
    BY <1>1, <2>1
<1>2. CASE ~(Len(edges) <= Slots)
  <2>1. Remember(time) = Append(Tail(edges), time)
    BY <1>2 DEF Remember
  <2>2. /\ Len(edges) = Slots + 1 /\ edges # <<>>
    BY <1>2
  <2>3. /\ Tail(edges) \in Seq(Nat) /\ Len(Tail(edges)) = Slots
        /\ \A i \in 1 .. Slots : Tail(edges)[i] = edges[i + 1]
    BY <2>2
  <2> HIDE DEF Remember
  <2>4. /\ Append(Tail(edges), time) \in Seq(Nat)
        /\ Len(Append(Tail(edges), time)) = Slots + 1
        /\ \A i \in 1 .. Slots : Append(Tail(edges), time)[i] = edges[i + 1]
        /\ Append(Tail(edges), time)[Slots + 1] = time
    BY <2>3
  <2> QED
    BY <2>1, <2>2, <2>4
<1> QED
  BY <1>1, <1>2
-----------------------------------------------------------------------------
(* A history of flips with one more, and perhaps without its oldest.        *)
LEMMA OneMore ==
  ASSUME NEW old \in Seq(Nat), NEW new \in Seq(Nat), NEW lost \in {0, 1},
         NEW before \in Nat, NEW time \in Nat, before < time,
         Len(new) = Len(old) + 1 - lost,
         \A i \in 1 .. Len(old) - lost : new[i] = old[i + lost],
         new[Len(new)] = time,
         \A i \in 1 .. Len(old) : old[i] <= before,
         Increasing(old, Len(old))
  PROVE  (\A i \in 1 .. Len(new) : new[i] <= time) /\ Increasing(new, Len(new))
<1>0. Len(old) \in Nat /\ Len(new) \in Nat
  OBVIOUS
<1>1. ASSUME NEW i \in 1 .. Len(new), i # Len(new)
      PROVE  /\ i + lost \in 1 .. Len(old) /\ new[i] = old[i + lost]
             /\ new[i] < time /\ new[i] \in Nat
  <2>1. i \in 1 .. Len(old) - lost /\ i + lost \in 1 .. Len(old)
    BY <1>0, <1>1
  <2>2. new[i] = old[i + lost] /\ old[i + lost] <= before /\ old[i + lost] \in Nat
    BY <2>1
  <2> QED
    BY <2>1, <2>2
<1>2. ASSUME NEW i \in 1 .. Len(new), NEW j \in 1 .. Len(new), i < j
      PROVE  new[i] < new[j]
  <2>1. i # Len(new)
    BY <1>0, <1>2
  <2>2. CASE j = Len(new)
    BY <1>1, <2>1, <2>2
  <2>3. CASE j # Len(new)
    <3>1. /\ i + lost \in 1 .. Len(old) /\ j + lost \in 1 .. Len(old)
          /\ new[i] = old[i + lost] /\ new[j] = old[j + lost]
      BY <1>1, <2>1, <2>3
    <3>2. i + lost < j + lost
      BY <1>2
    <3> QED
      BY <3>1, <3>2 DEF Increasing
  <2> QED
    BY <2>2, <2>3
<1>3. ASSUME NEW i \in 1 .. Len(new) PROVE new[i] <= time /\ new[i] \in Nat
  BY <1>1, <1>3
<1> QED
  BY <1>2, <1>3 DEF Increasing
-----------------------------------------------------------------------------
(* Dropping the oldest byte moves start to its flip, or just before it in the
   same step, and takes it off the later bytes, which still tell their flips. *)
Rebased(E, Q, n, s, b) ==
    /\ s + Q[1] * Step \in Nat /\ s + Q[1] * Step <= E[b + 1]
    /\ \A i \in 1 .. n - 1 :
          LET r == (Q[i + 1] - Q[1]) % ByteModulus
          IN  /\ r \in Nat /\ r < ByteModulus
              /\ (E[b + 1 + i] - (s + Q[1] * Step)) \div Step = r

LEMMA OldestDropped ==
  ASSUME NEW m \in Nat, NEW n \in Nat, NEW E, NEW Q, NEW s \in Nat, NEW b \in Nat,
         n > 0, b + n <= m, Increasing(E, m), Bytes(Q, n), AlignedWith(E, Q, n, s, b),
         \A i \in 1 .. n : Q[i] < ByteModulus
  PROVE  Rebased(E, Q, n, s, b)
<1> USE Constants
<1>2. ASSUME NEW i \in 1 .. n
      PROVE  /\ b + i \in 1 .. m /\ E[b + i] \in Nat /\ E[b + 1] \in Nat
             /\ E[b + 1] <= E[b + i] /\ (E[b + i] - s) \div Step = Q[i]
             /\ (E[b + 1] - s) \div Step = Q[1] /\ Q[1] \in Nat /\ Q[i] \in Nat
  <2>1. b + i \in 1 .. m /\ b + 1 \in 1 .. m /\ 1 \in 1 .. n
    OBVIOUS
  <2>2. E[b + i] \in Nat /\ E[b + 1] \in Nat
    BY <2>1 DEF Increasing
  <2>3. i # 1 => E[b + 1] < E[b + i]
    <3>1. i # 1 => b + 1 < b + i
      OBVIOUS
    <3> QED
      BY <2>1, <3>1 DEF Increasing
  <2>4. (E[b + i] - s) \div Step = Q[i] /\ (E[b + 1] - s) \div Step = Q[1]
    BY <2>1 DEF AlignedWith
  <2>5. i = 1 => E[b + 1] = E[b + i]
    OBVIOUS
  <2>6. E[b + 1] <= E[b + i]
    BY <2>2, <2>3, <2>5
  <2> QED
    BY <2>1, <2>2, <2>4, <2>6 DEF Bytes
<1>3. ASSUME NEW i \in 1 .. n
      PROVE  /\ Q[1] <= Q[i] /\ s + Q[1] * Step \in Nat /\ s + Q[1] * Step <= E[b + 1]
             /\ (E[b + i] - (s + Q[1] * Step)) \div Step = Q[i] - Q[1]
  <2>1. /\ E[b + i] \in Nat /\ E[b + 1] \in Nat /\ E[b + 1] <= E[b + i]
        /\ Q[1] \in Nat /\ Q[i] \in Nat
        /\ (E[b + 1] - s) \div Step = Q[1] /\ (E[b + i] - s) \div Step = Q[i]
    BY <1>2
  <2> DEFINE e == E[b + 1]  f == E[b + i]  p == Q[1]  r == Q[i]
  <2>2. /\ e \in Nat /\ f \in Nat /\ e <= f /\ p \in Nat /\ r \in Nat
        /\ (e - s) \div Step = p /\ (f - s) \div Step = r
    BY <2>1
  <2> HIDE DEF e, f, p, r
  <2>3. /\ p <= r /\ s + p * Step \in Nat /\ s + p * Step <= e
        /\ (f - (s + p * Step)) \div Step = r - p
    <3>1. e - s \in Int /\ f - s \in Int /\ e - s <= f - s
      BY <2>2
    <3>2. p <= r
      BY <2>2, <3>1, DivMonotone
    <3>3. p * Step \in Nat /\ p * Step <= e - s
      BY <2>2, <3>1, DivBounds
    <3>4. f - (s + p * Step) = (f - s) - p * Step
      BY <2>2, <3>3
    <3>5. ((f - s) - p * Step) \div Step = (f - s) \div Step - p
      BY <2>2, <3>1, DivShift
    <3>6. s + p * Step \in Nat /\ s + p * Step <= e
      BY <2>2, <3>3
    <3> QED
      BY <2>2, <3>2, <3>4, <3>5, <3>6
  <2> QED
    BY <2>3, Zenon DEF e, f, p, r
<1>4. ASSUME NEW i \in 1 .. n - 1
      PROVE  LET r == (Q[i + 1] - Q[1]) % ByteModulus
             IN  /\ r \in Nat /\ r < ByteModulus
                 /\ (E[b + 1 + i] - (s + Q[1] * Step)) \div Step = r
  <2>1. i + 1 \in 1 .. n /\ b + (i + 1) = b + 1 + i
    OBVIOUS
  <2>2. Q[1] \in Nat /\ Q[i + 1] \in Nat /\ Q[i + 1] < ByteModulus /\ Q[1] <= Q[i + 1]
    BY <1>2, <1>3, <2>1
  <2>3. (Q[i + 1] - Q[1]) % ByteModulus = Q[i + 1] - Q[1]
    <3>1. Q[i + 1] - Q[1] \in Nat /\ Q[i + 1] - Q[1] < ByteModulus
      BY <2>2
    <3> QED
      BY <3>1, ModSmall
  <2>4. (E[b + (i + 1)] - (s + Q[1] * Step)) \div Step = Q[i + 1] - Q[1]
    BY <1>3, <2>1
  <2> QED
    BY <2>1, <2>2, <2>3, <2>4
<1>5. 1 \in 1 .. n
  OBVIOUS
<1>6. s + Q[1] * Step \in Nat /\ s + Q[1] * Step <= E[b + 1]
  BY <1>3, <1>5
<1> QED
  BY <1>4, <1>6, Zenon DEF Rebased

(* Unless its step is that of start, a flip gets a byte; if it is, every byte
   is zero, and stands for the flip after the one it was recorded for as well. *)
LEMMA SameStep ==
  ASSUME NEW m \in Nat, NEW n \in Nat, NEW E, NEW Q, NEW s \in Nat, NEW b \in Nat,
         b + n + 1 = m, Increasing(E, m), Bytes(Q, n), AlignedWith(E, Q, n, s, b),
         s <= E[m], (E[m] - s) \div Step = 0
  PROVE  AlignedWith(E, Q, n, s, b + 1) /\ E[b + 1] >= s
<1> USE Constants
<1>1. m \in 1 .. m /\ E[m] \in Nat
  BY DEF Increasing
<1>2. ASSUME NEW i \in 1 .. n
      PROVE  (E[b + 1 + i] - s) \div Step = Q[i]
  <2>1. b + i \in 1 .. m /\ b + 1 + i \in 1 .. m /\ b + i < b + 1 + i
    OBVIOUS
  <2>2. E[b + i] \in Nat /\ E[b + 1 + i] \in Nat /\ E[b + i] < E[b + 1 + i]
    BY <2>1 DEF Increasing
  <2>3. b + 1 + i < m \/ b + 1 + i = m
    OBVIOUS
  <2>4. E[b + 1 + i] <= E[m]
    BY <1>1, <2>1, <2>2, <2>3 DEF Increasing
  <2>5. (E[b + i] - s) \div Step <= (E[b + 1 + i] - s) \div Step
    <3>1. E[b + i] - s \in Int /\ E[b + 1 + i] - s \in Int /\ E[b + i] - s <= E[b + 1 + i] - s
      BY <2>2
    <3> QED
      BY <3>1, DivMonotone
  <2>6. (E[b + 1 + i] - s) \div Step <= (E[m] - s) \div Step
    BY <1>1, <2>2, <2>4, DivMonotone
  <2>7. (E[b + i] - s) \div Step = Q[i] /\ Q[i] \in Nat
    BY DEF AlignedWith, Bytes
  <2>8. (E[b + 1 + i] - s) \div Step \in Int
    BY <2>2
  <2> QED
    BY <2>5, <2>6, <2>7, <2>8
<1>3. E[b + 1] >= s
  <2>1. CASE n = 0
    BY <2>1
  <2>2. CASE n > 0
    <3>1. 1 \in 1 .. n /\ b + 1 \in 1 .. m
      BY <2>2
    <3>2. (E[b + 1] - s) \div Step = Q[1] /\ Q[1] \in Nat /\ E[b + 1] \in Nat
      BY <3>1 DEF AlignedWith, Bytes, Increasing
    <3>3. E[b + 1] - s >= 0
      BY <3>2, DivBounds
    <3> QED
      BY <3>2, <3>3
  <2> QED
    BY <2>1, <2>2
<1> QED
  BY <1>2, <1>3 DEF AlignedWith

(* A full queue that need not drop its oldest byte would be triggered.      *)
LEMMA FullIsTriggered ==
  ASSUME WholeSteps, NEW m \in Nat, NEW E, NEW Q, NEW s \in Nat, NEW b \in Nat,
         b + Slots + 1 = m, Increasing(E, m), Bytes(Q, Slots), AlignedWith(E, Q, Slots, s, b),
         E[m] - s <= Window
  PROVE  Q[Slots] < Window \div Step
<1> USE Constants
<1>1. Slots \in 1 .. Slots /\ b + Slots \in 1 .. m /\ m \in 1 .. m /\ b + Slots < m
  OBVIOUS
<1>2. E[b + Slots] \in Nat /\ E[m] \in Nat /\ E[b + Slots] < E[m]
  BY <1>1 DEF Increasing
<1>3. (E[b + Slots] - s) \div Step = Q[Slots] /\ Q[Slots] \in Nat
  BY <1>1 DEF AlignedWith, Bytes
<1>4. SUFFICES ASSUME ~(Q[Slots] < Window \div Step) PROVE FALSE
  OBVIOUS
<1>5. E[b + Slots] - s >= Window
  BY <1>2, <1>3, <1>4, WholeDiv DEF WholeSteps
<1> QED
  BY <1>2, <1>5
-----------------------------------------------------------------------------
(* Every step keeps the invariant.                                          *)
LEMMA InitQueue == Init => EmergencyInv
<1> SUFFICES ASSUME Init PROVE EmergencyInv
  OBVIOUS
<1> USE Constants
<1>1. /\ now = FirstPass /\ armingSwitchWasOn = FALSE /\ start = -1
      /\ queue = <<>> /\ pc = "task" /\ edges = <<>>
  BY DEF Init, None
<1>2. Len(queue) = 0 /\ Len(edges) = 0 /\ queue \in Seq(Nat) /\ edges \in Seq(Nat)
  BY <1>1
<1>3. QueueTyped
  <2>1. /\ now \in Nat /\ now < Modulus /\ start \in Int /\ Len(queue) <= Slots
        /\ Len(edges) <= Slots + 1 /\ \A i \in 1 .. Len(queue) : queue[i] < ByteModulus
    BY <1>1, <1>2
  <2>2. armingSwitchWasOn \in BOOLEAN /\ pc \in {"task", "loop"}
    BY <1>1
  <2> QED
    BY <1>2, <2>1, <2>2, Zenon DEF QueueTyped
<1>4. EdgesOrdered
  BY <1>1, <1>2 DEF EdgesOrdered, Increasing
<1>5. Started
  BY <1>1 DEF Started, None
<1>6. Aligned
  BY <1>1, <1>2 DEF Aligned, AlignedWith, base, None
<1> QED
  BY <1>3, <1>4, <1>5, <1>6 DEF EmergencyInv

LEMMA PassKeeps ==
  ASSUME EmergencyInv, NEW on \in BOOLEAN, Pass(on)
  PROVE  EmergencyInv'
<1> USE Constants
<1>1. /\ now \in Nat /\ start \in Int /\ pc = "task" /\ queue' = queue
      /\ armingSwitchWasOn \in BOOLEAN
      /\ queue \in Seq(Nat) /\ Len(queue) \in Nat /\ Len(queue) <= Slots
      /\ edges \in Seq(Nat) /\ Len(edges) \in Nat /\ Len(edges) <= Slots + 1
      /\ \A i \in 1 .. Len(queue) : queue[i] < ByteModulus
  BY DEF EmergencyInv, QueueTyped, Pass
<1>2. now' \in Nat /\ now < now' /\ now' < Modulus
  <2>1. PICK gap \in Gaps : now + gap <= LastPass /\ now' = now + gap
    BY DEF Pass
  <2> QED
    BY <1>1, <2>1
<1>3. base = Len(edges) - Len(queue) /\ base >= 0
  BY <1>1 DEF base, EmergencyInv, Aligned
<1>4. CASE ~(on /\ ~armingSwitchWasOn)
  <2>1. armingSwitchWasOn' = on /\ start' = start /\ pc' = pc /\ edges' = edges
    BY <1>4 DEF Pass
  <2>2. QueueTyped'
    BY <1>1, <1>2, <2>1 DEF QueueTyped
  <2>3. EdgesOrdered'
    BY <1>1, <1>2, <2>1 DEF EdgesOrdered, EmergencyInv
  <2>4. Started'
    BY <1>1, <1>2, <2>1 DEF Started, EmergencyInv, None
  <2>5. Aligned'
    BY <1>1, <2>1, Zenon DEF Aligned, EmergencyInv, base
  <2> QED
    BY <2>2, <2>3, <2>4, <2>5 DEF EmergencyInv
<1>5. ASSUME on, ~armingSwitchWasOn
      PROVE  \E lost \in {0, 1} :
                /\ lost = 1 => Len(edges) = Slots + 1
                /\ edges' \in Seq(Nat) /\ Len(edges') = Len(edges) + 1 - lost
                /\ Len(edges') <= Slots + 1
                /\ \A i \in 1 .. Len(edges) - lost : edges'[i] = edges[i + lost]
                /\ edges'[Len(edges')] = now'
                /\ \A i \in 1 .. Len(edges') : edges'[i] <= now'
                /\ Increasing(edges', Len(edges'))
  <2>1. edges' = Remember(now')
    BY <1>5 DEF Pass
  <2>2. PICK lost \in {0, 1} :
            /\ lost = 1 => Len(edges) = Slots + 1
            /\ edges' \in Seq(Nat) /\ Len(edges') = Len(edges) + 1 - lost
            /\ Len(edges') <= Slots + 1
            /\ \A i \in 1 .. Len(edges) - lost : edges'[i] = edges[i + lost]
            /\ edges'[Len(edges) + 1 - lost] = now'
    BY <1>1, <1>2, <2>1, Remembered
  <2>3. Increasing(edges, Len(edges)) /\ \A i \in 1 .. Len(edges) : edges[i] <= now
    BY DEF EmergencyInv, EdgesOrdered
  <2>4. (\A i \in 1 .. Len(edges') : edges'[i] <= now') /\ Increasing(edges', Len(edges'))
    BY <1>1, <1>2, <2>2, <2>3, OneMore
  <2> QED
    BY <2>2, <2>4
<1>6. CASE on /\ ~armingSwitchWasOn /\ start = None
  <2>1. start' = now' /\ armingSwitchWasOn' = TRUE /\ pc' = "task"
    BY <1>6 DEF Pass
  <2>2. queue = <<>> /\ edges = <<>> /\ Len(queue) = 0 /\ Len(edges) = 0
    BY <1>6 DEF EmergencyInv, Started
  <2>3. /\ edges' \in Seq(Nat) /\ Len(edges') = 1 /\ edges'[1] = now'
        /\ \A i \in 1 .. Len(edges') : edges'[i] <= now'
        /\ Increasing(edges', Len(edges'))
    BY <1>5, <1>6, <2>2
  <2>4. QueueTyped'
    BY <1>1, <1>2, <2>1, <2>3 DEF QueueTyped
  <2>5. EdgesOrdered'
    BY <2>1, <2>3 DEF EdgesOrdered
  <2>6. Started'
    <3>1. start' # None /\ start' \in 0 .. now'
      BY <1>2, <2>1 DEF None
    <3>2. edges' # <<>>
      <4>1. SUFFICES ASSUME edges' = <<>> PROVE FALSE
        OBVIOUS
      <4>2. Len(edges') = 0
        BY <4>1
      <4> QED
        BY <2>3, <4>2
    <3> QED
      BY <3>1, <3>2, Zenon DEF Started
  <2>7. base' = 1
    BY <1>1, <2>1, <2>2, <2>3 DEF base
  <2>8. AlignedWith(edges, queue, Len(queue), start, base)'
    BY <1>1, <2>2 DEF AlignedWith
  <2>9. Aligned'
    BY <1>2, <2>1, <2>3, <2>7, <2>8 DEF Aligned
  <2> QED
    BY <2>4, <2>5, <2>6, <2>9 DEF EmergencyInv
<1>7. CASE on /\ ~armingSwitchWasOn /\ start # None
  <2>1. start' = start /\ armingSwitchWasOn' = armingSwitchWasOn /\ pc' = "loop"
    BY <1>7 DEF Pass
  <2>2. start \in Nat /\ start <= now /\ base > 0 /\ edges[base] >= start
    BY <1>1, <1>7 DEF EmergencyInv, Started, Aligned
  <2>3. PICK lost \in {0, 1} :
                /\ lost = 1 => Len(edges) = Slots + 1
                /\ edges' \in Seq(Nat) /\ Len(edges') = Len(edges) + 1 - lost
                /\ Len(edges') <= Slots + 1
                /\ \A i \in 1 .. Len(edges) - lost : edges'[i] = edges[i + lost]
                /\ edges'[Len(edges')] = now'
                /\ \A i \in 1 .. Len(edges') : edges'[i] <= now'
                /\ Increasing(edges', Len(edges'))
    BY <1>5, <1>7
  <2>4. Len(edges') \in Nat /\ Len(edges') > 0 /\ edges' # <<>>
    <3>1. Len(edges) > 0
      BY <1>1, <1>3, <2>2
    <3> QED
      BY <1>1, <2>3, <3>1
  <2>5. QueueTyped'
    BY <1>1, <1>2, <2>1, <2>3 DEF QueueTyped
  <2>6. EdgesOrdered'
    BY <2>1, <2>3, <2>4 DEF EdgesOrdered
  <2>7. Started'
    <3>1. start' # None /\ start' = start
      BY <1>7, <2>1
    <3>2. start' \in 0 .. now'
      BY <1>1, <1>2, <2>1, <2>2
    <3> QED
      BY <2>4, <3>1, <3>2, Zenon DEF Started
  <2>8. base' = base - lost /\ base' \in Int
    <3>1. base' = Len(edges') - Len(queue') - 1
      BY <2>1 DEF base
    <3>2. Len(queue') = Len(queue)
      BY <1>1
    <3> QED
      BY <1>1, <1>3, <2>3, <3>1, <3>2
  <2>9. base' >= 0
    BY <1>1, <1>3, <2>2, <2>8
  <2>10. ASSUME NEW i \in 0 .. Len(queue), base' + i > 0
         PROVE  edges'[base' + i] = edges[base + i]
    <3>1. base' + i \in 1 .. Len(edges) - lost /\ base' + i + lost = base + i
      BY <1>1, <1>3, <2>8, <2>10
    <3> QED
      BY <2>3, <3>1
  <2>11. AlignedWith(edges, queue, Len(queue), start, base)'
    <3>1. ASSUME NEW i \in 1 .. Len(queue)
          PROVE  (edges'[base' + i] - start') \div Step = queue'[i]
      <4>1. edges'[base' + i] = edges[base + i]
        BY <1>1, <2>8, <2>9, <2>10
      <4>2. (edges[base + i] - start) \div Step = queue[i]
        BY DEF EmergencyInv, Aligned, AlignedWith
      <4> QED
        BY <1>1, <2>1, <4>1, <4>2
    <3> QED
      BY <1>1, <3>1 DEF AlignedWith
  <2>12. \/ base' > 0 /\ edges'[base'] >= start
         \/ Len(queue) = Slots
    <3>1. CASE base' > 0
      <4>1. 0 \in 0 .. Len(queue) /\ base' + 0 = base' /\ base + 0 = base
        BY <1>1, <1>3, <2>8
      <4> QED
        BY <2>2, <2>10, <3>1, <4>1
    <3>2. CASE ~(base' > 0)
      <4>1. lost = 1 /\ base = 1
        BY <1>1, <1>3, <2>2, <2>8, <3>2
      <4> QED
        BY <1>1, <1>3, <2>3, <4>1
    <3> QED
      BY <3>1, <3>2
  <2>13. Aligned'
    BY <1>1, <2>1, <2>9, <2>11, <2>12 DEF Aligned
  <2> QED
    BY <2>5, <2>6, <2>7, <2>13 DEF EmergencyInv
<1> QED
  BY <1>4, <1>6, <1>7

(* What holds in the loop.                                                  *)
LEMMA InTheLoop ==
  ASSUME EmergencyInv, pc = "loop"
  PROVE  /\ now \in Nat /\ now < Modulus /\ start \in Nat /\ start <= now /\ start # None
         /\ queue \in Seq(Nat) /\ Len(queue) \in Nat /\ Len(queue) <= Slots
         /\ Bytes(queue, Len(queue)) /\ \A i \in 1 .. Len(queue) : queue[i] < ByteModulus
         /\ edges \in Seq(Nat) /\ Len(edges) \in Nat /\ Len(edges) <= Slots + 1
         /\ edges # <<>> /\ Len(edges) > 0
         /\ Increasing(edges, Len(edges)) /\ \A i \in 1 .. Len(edges) : edges[i] <= now
         /\ edges[Len(edges)] = now
         /\ base \in Nat /\ base + Len(queue) + 1 = Len(edges)
         /\ AlignedWith(edges, queue, Len(queue), start, base)
<1> USE Constants
<1>1. /\ now \in Nat /\ now < Modulus
      /\ queue \in Seq(Nat) /\ Len(queue) \in Nat /\ Len(queue) <= Slots
      /\ \A i \in 1 .. Len(queue) : queue[i] < ByteModulus
      /\ edges \in Seq(Nat) /\ Len(edges) \in Nat /\ Len(edges) <= Slots + 1
  BY DEF EmergencyInv, QueueTyped
<1>2. /\ edges # <<>> /\ edges[Len(edges)] = now
      /\ Increasing(edges, Len(edges)) /\ \A i \in 1 .. Len(edges) : edges[i] <= now
  BY DEF EmergencyInv, EdgesOrdered
<1>3. start \in Nat /\ start <= now /\ start # None
  BY <1>1 DEF EmergencyInv, Started
<1>4. Len(edges) > 0
  BY <1>1, <1>2
<1>5. base = Len(edges) - Len(queue) - 1 /\ base >= 0
  BY DEF base, EmergencyInv, Aligned
<1>6. base \in Nat /\ base + Len(queue) + 1 = Len(edges)
  BY <1>1, <1>5
<1>7. Bytes(queue, Len(queue))
  BY <1>1 DEF Bytes
<1>8. AlignedWith(edges, queue, Len(queue), start, base)
  BY DEF EmergencyInv, Aligned
<1> QED
  BY <1>1, <1>2, <1>3, <1>4, <1>6, <1>7, <1>8, Zenon

LEMMA DropKeeps ==
  ASSUME EmergencyInv, DropOldest
  PROVE  EmergencyInv'
<1> USE Constants
<1>1. /\ pc = "loop" /\ queue # <<>> /\ start' = start + queue[1] * Step
      /\ queue' = [i \in 1 .. Len(queue) - 1 |-> (queue[i + 1] - queue[1]) % ByteModulus]
      /\ now' = now /\ armingSwitchWasOn' = armingSwitchWasOn /\ pc' = pc /\ edges' = edges
  <2>1. Head(queue) = queue[1]
    BY DEF EmergencyInv, QueueTyped, DropOldest
  <2> QED
    BY <2>1, Zenon DEF DropOldest
<1>2. /\ now \in Nat /\ now < Modulus /\ start \in Nat /\ start <= now /\ start # None
      /\ queue \in Seq(Nat) /\ Len(queue) \in Nat /\ Len(queue) <= Slots
      /\ Bytes(queue, Len(queue)) /\ \A i \in 1 .. Len(queue) : queue[i] < ByteModulus
      /\ edges \in Seq(Nat) /\ Len(edges) \in Nat /\ Len(edges) <= Slots + 1
      /\ edges # <<>>
      /\ Increasing(edges, Len(edges)) /\ \A i \in 1 .. Len(edges) : edges[i] <= now
      /\ base \in Nat /\ base + Len(queue) + 1 = Len(edges)
      /\ AlignedWith(edges, queue, Len(queue), start, base)
  BY <1>1, InTheLoop, Zenon
<1>3. Len(queue) > 0 /\ base + Len(queue) <= Len(edges)
  BY <1>1, <1>2
<1>4. /\ start + queue[1] * Step \in Nat /\ start + queue[1] * Step <= edges[base + 1]
      /\ \A i \in 1 .. Len(queue) - 1 :
            LET r == (queue[i + 1] - queue[1]) % ByteModulus
            IN  /\ r \in Nat /\ r < ByteModulus
                /\ (edges[base + 1 + i] - (start + queue[1] * Step)) \div Step = r
  <2>1. /\ Len(queue) \in Nat /\ Len(edges) \in Nat /\ base \in Nat /\ start \in Nat
        /\ Len(queue) > 0 /\ base + Len(queue) <= Len(edges)
        /\ Increasing(edges, Len(edges)) /\ Bytes(queue, Len(queue))
        /\ AlignedWith(edges, queue, Len(queue), start, base)
        /\ \A i \in 1 .. Len(queue) : queue[i] < ByteModulus
    BY <1>2, <1>3
  <2>2. Rebased(edges, queue, Len(queue), start, base)
    BY <2>1, OldestDropped
  <2> QED
    BY <2>2, Zenon DEF Rebased
<1>5. /\ queue' \in Seq(Nat) /\ Len(queue') = Len(queue) - 1
      /\ \A i \in 1 .. Len(queue') : queue'[i] < ByteModulus
      /\ \A i \in 1 .. Len(queue') :
            (edges[base + 1 + i] - (start + queue[1] * Step)) \div Step = queue'[i]
  <2>1. Len(queue) - 1 \in Nat
    BY <1>2, <1>3
  <2>2. queue' \in [1 .. Len(queue) - 1 -> Nat]
    BY <1>1, <1>4
  <2>3. queue' \in Seq(Nat) /\ Len(queue') = Len(queue) - 1
    BY <2>1, <2>2
  <2> QED
    BY <1>1, <1>4, <2>3
<1>6. base' = base + 1
  BY <1>1, <1>2, <1>5 DEF base
<1>7. /\ base + 1 \in 1 .. Len(edges) /\ edges[base + 1] \in Nat /\ edges[base + 1] <= now
  BY <1>2, <1>3, SMTT(30)
<1>8. start' \in Nat /\ start' <= now' /\ start' <= edges'[base']
  <2> DEFINE next == start + queue[1] * Step
  <2>1. next \in Nat /\ next <= edges[base + 1] /\ start' = next
    BY <1>1, <1>4, Zenon
  <2> HIDE DEF next
  <2>2. next <= now
    BY <1>2, <1>7, <2>1
  <2>3. edges'[base'] = edges[base + 1]
    BY <1>1, <1>6
  <2> QED
    BY <1>1, <2>1, <2>2, <2>3
<1>9. QueueTyped'
  <2>1. Len(queue') <= Slots
    BY <1>2, <1>5
  <2>2. armingSwitchWasOn \in BOOLEAN
    BY DEF EmergencyInv, QueueTyped
  <2>3. now' \in Nat /\ now' < Modulus /\ start' \in Int
    BY <1>1, <1>2, <1>8
  <2>4. edges' \in Seq(Nat) /\ Len(edges') <= Slots + 1
    BY <1>1, <1>2
  <2>5. pc' \in {"task", "loop"} /\ armingSwitchWasOn' \in BOOLEAN
    BY <1>1, <2>2
  <2> QED
    BY <1>5, <2>1, <2>3, <2>4, <2>5, Zenon DEF QueueTyped
<1>10. EdgesOrdered'
  BY <1>1, Zenon DEF EdgesOrdered, EmergencyInv
<1>11. Started'
  BY <1>1, <1>2, <1>8 DEF Started, None
<1>12. AlignedWith(edges, queue, Len(queue), start, base)'
  <2>1. \A i \in 1 .. Len(queue') : (edges'[base' + i] - start') \div Step = queue'[i]
    BY <1>1, <1>5, <1>6, Zenon
  <2> QED
    BY <2>1, Zenon DEF AlignedWith
<1>13. Aligned'
  <2>1. base' > 0 /\ base' >= 0 /\ edges'[base'] >= start'
    BY <1>1, <1>2, <1>6, <1>7, <1>8
  <2> QED
    BY <1>12, <2>1, Zenon DEF Aligned
<1> QED
  BY <1>9, <1>10, <1>11, <1>13 DEF EmergencyInv

LEMMA AgainKeeps ==
  ASSUME EmergencyInv, StartAgain
  PROVE  EmergencyInv'
<1>1. /\ pc = "loop" /\ queue = <<>> /\ start' = now /\ now' = now
      /\ armingSwitchWasOn' = armingSwitchWasOn /\ queue' = queue /\ pc' = pc /\ edges' = edges
  BY DEF StartAgain
<1>2. now \in Nat /\ edges # <<>> /\ base >= 0 /\ Len(queue) = 0
  BY <1>1, InTheLoop
<1>3. base' = base
  BY <1>1, Zenon DEF base
<1>4. QueueTyped'
  BY <1>1, <1>2 DEF QueueTyped, EmergencyInv
<1>5. EdgesOrdered'
  BY <1>1, Zenon DEF EdgesOrdered, EmergencyInv
<1>6. Started'
  BY <1>1, <1>2 DEF Started, None
<1>7. AlignedWith(edges, queue, Len(queue), start, base)'
  BY <1>1, <1>2 DEF AlignedWith
<1>8. Aligned'
  BY <1>1, <1>2, <1>3, <1>7 DEF Aligned
<1> QED
  BY <1>4, <1>5, <1>6, <1>8 DEF EmergencyInv

LEMMA RecordKeeps ==
  ASSUME WholeSteps, EmergencyInv, Record
  PROVE  EmergencyInv'
<1> USE Constants
<1> DEFINE delta == (now - start) \div Step
<1>1. /\ pc = "loop" /\ ~MustDrop /\ armingSwitchWasOn' = TRUE /\ pc' = "task"
      /\ now' = now /\ start' = start /\ edges' = edges
  BY DEF Record
<1>2. /\ now \in Nat /\ now < Modulus /\ start \in Nat /\ start <= now /\ start # None
      /\ queue \in Seq(Nat) /\ Len(queue) \in Nat /\ Len(queue) <= Slots
      /\ Bytes(queue, Len(queue)) /\ \A i \in 1 .. Len(queue) : queue[i] < ByteModulus
      /\ edges \in Seq(Nat) /\ Len(edges) \in Nat /\ Len(edges) <= Slots + 1
      /\ edges # <<>> /\ edges[Len(edges)] = now
      /\ Increasing(edges, Len(edges)) /\ \A i \in 1 .. Len(edges) : edges[i] <= now
      /\ base \in Nat /\ base + Len(queue) + 1 = Len(edges)
      /\ AlignedWith(edges, queue, Len(queue), start, base)
  BY <1>1, InTheLoop, Zenon
<1>3. /\ now - start <= Window /\ delta \in Nat /\ delta < ByteModulus
      /\ start >= Minus(now, Window)
      /\ queue' = IF delta > 0 THEN Append(queue, delta) ELSE queue
  <2>1. QueueTyped /\ start \in 0 .. now
    BY <1>2 DEF EmergencyInv
  <2>2. /\ now - start <= Window /\ delta \in Nat /\ delta < ByteModulus
        /\ (Minus(now, start) \div Step) % ByteModulus = delta
    BY <1>1, <2>1, Kept
  <2>3. start >= Minus(now, Window)
    BY <1>1, <1>2 DEF MustDrop, Minus
  <2> QED
    BY <2>2, <2>3, Zenon DEF Record
<1> HIDE DEF delta
<1>4. EdgesOrdered'
  BY <1>1, <1>2 DEF EdgesOrdered
<1>5. Started'
  BY <1>1, <1>2 DEF Started
<1>6. CASE delta = 0
  <2>1. queue' = queue /\ base' = base + 1
    BY <1>1, <1>2, <1>3, <1>6 DEF base
  <2>2. AlignedWith(edges, queue, Len(queue), start, base + 1) /\ edges[base + 1] >= start
    BY <1>2, <1>6, SameStep DEF delta
  <2>3. QueueTyped'
    BY <1>1, <1>2, <2>1 DEF QueueTyped
  <2>4. AlignedWith(edges, queue, Len(queue), start, base)'
    BY <1>1, <2>1, <2>2, Zenon DEF AlignedWith
  <2>5. base' > 0 /\ base' >= 0 /\ edges'[base'] >= start'
    BY <1>1, <1>2, <2>1, <2>2
  <2>6. Aligned'
    BY <2>4, <2>5, Zenon DEF Aligned
  <2> QED
    BY <1>4, <1>5, <2>3, <2>6 DEF EmergencyInv
<1>7. CASE delta > 0
  <2>1. Len(queue) < Slots
    <3> SUFFICES ASSUME Len(queue) = Slots PROVE FALSE
      BY <1>2
    <3>1. queue[Slots] < Window \div Step
      BY <1>2, <1>3, FullIsTriggered
    <3> QED
      BY <1>1, <1>3, <3>1 DEF MustDrop, emergencyArmingIsTriggered
  <2>2. /\ queue' = Append(queue, delta) /\ queue' \in Seq(Nat)
        /\ Len(queue') = Len(queue) + 1 /\ queue'[Len(queue) + 1] = delta
        /\ \A i \in 1 .. Len(queue) : queue'[i] = queue[i]
    BY <1>2, <1>3, <1>7
  <2>3. base' = base
    BY <1>1, <1>2, <2>2 DEF base
  <2>4. base > 0 /\ edges[base] >= start
    <3>1. ~(queue = <<>> /\ start = now)
      BY <1>2, <1>7 DEF delta
    <3> QED
      BY <1>1, <1>2, <2>1, <3>1 DEF EmergencyInv, Aligned
  <2>5. QueueTyped'
    <3>1. Len(queue') <= Slots
      BY <1>2, <2>1, <2>2
    <3>2. \A i \in 1 .. Len(queue') : queue'[i] < ByteModulus
      BY <1>2, <1>3, <2>2
    <3>3. /\ now' \in Nat /\ now' < Modulus /\ start' \in Int
          /\ edges' \in Seq(Nat) /\ Len(edges') <= Slots + 1
      BY <1>1, <1>2
    <3>4. pc' \in {"task", "loop"} /\ armingSwitchWasOn' \in BOOLEAN
      BY <1>1
    <3> QED
      BY <2>2, <3>1, <3>2, <3>3, <3>4, Zenon DEF QueueTyped
  <2>6. AlignedWith(edges, queue, Len(queue), start, base)'
    <3>1. ASSUME NEW i \in 1 .. Len(queue')
          PROVE  (edges[base + i] - start) \div Step = queue'[i]
      <4>1. CASE i \in 1 .. Len(queue)
        BY <1>2, <2>2, <4>1 DEF AlignedWith
      <4>2. CASE i = Len(queue) + 1
        <5>1. base + i = Len(edges)
          BY <1>2, <4>2
        <5> QED
          BY <1>2, <2>2, <4>2, <5>1 DEF delta
      <4> QED
        BY <1>2, <2>2, <4>1, <4>2
    <3> QED
      BY <1>1, <2>3, <3>1, Zenon DEF AlignedWith
  <2>7. base' >= 0 /\ base' > 0 /\ edges'[base'] >= start'
    BY <1>1, <1>2, <2>3, <2>4
  <2>8. Aligned'
    BY <2>6, <2>7, Zenon DEF Aligned
  <2> QED
    BY <1>4, <1>5, <2>5, <2>8 DEF EmergencyInv
<1> QED
  BY <1>3, <1>6, <1>7
-----------------------------------------------------------------------------
(* The invariant of the queue.                                              *)
LEMMA EmergencyInvariant ==
  ASSUME WholeSteps
  PROVE  Spec => []EmergencyInv
<1>1. Init => EmergencyInv
  BY InitQueue
<1>2. EmergencyInv /\ [Next]_vars => EmergencyInv'
  <2> SUFFICES ASSUME EmergencyInv, [Next]_vars PROVE EmergencyInv'
    OBVIOUS
  <2>1. ASSUME NEW on \in BOOLEAN, Pass(on) PROVE EmergencyInv'
    BY <2>1, PassKeeps
  <2>2. CASE DropOldest
    BY <2>2, DropKeeps
  <2>3. CASE StartAgain
    BY <2>3, AgainKeeps
  <2>4. CASE Record
    BY <2>4, RecordKeeps
  <2>5. CASE UNCHANGED vars
    BY <2>5, Zenon DEF vars, EmergencyInv, QueueTyped, EdgesOrdered, Started, Aligned, base
  <2> QED
    BY <2>1, <2>2, <2>3, <2>4, <2>5 DEF Next, emergencyArmingUpdate
<1> QED
  BY <1>1, <1>2, PTL DEF Spec

(* emergencyArmingUpdate(): the queue never outgrows its array, behind which
   its counter lies, and every byte stands, to the step, for the flip it was
   recorded for, whatever was dropped and rebased since.                    *)
THEOREM QueueTellsFlips ==
  ASSUME WholeSteps
  PROVE  Spec => []QueueIsHistory
<1>1. EmergencyInv => QueueIsHistory
  <2> SUFFICES ASSUME EmergencyInv PROVE QueueIsHistory
    OBVIOUS
  <2>1. Len(queue) <= Slots /\ Len(edges) \in Int /\ Len(queue) \in Int
    BY DEF EmergencyInv, QueueTyped
  <2>2. ASSUME pc = "task", NEW i \in 1 .. Len(queue)
        PROVE  (edges[Len(edges) - Len(queue) + i] - start) \div Step = queue[i]
    <3>1. base = Len(edges) - Len(queue)
      BY <2>1, <2>2 DEF base
    <3> QED
      BY <3>1, Zenon DEF EmergencyInv, Aligned, AlignedWith
  <2> QED
    BY <2>1, <2>2 DEF QueueIsHistory
<1> QED
  BY <1>1, EmergencyInvariant, PTL

(* emergencyArmingIsTriggered(): it takes the whole number of flips, the
   first of them no longer ago than the window.                             *)
THEOREM TriggerIsDeliberate ==
  ASSUME WholeSteps
  PROVE  Spec => []TriggeredIsDeliberate
<1>1. EmergencyInv => TriggeredIsDeliberate
  <2> SUFFICES ASSUME EmergencyInv, pc = "task", emergencyArmingIsTriggered
               PROVE  Len(edges) = Slots + 1 /\ now - edges[1] <= Window
    BY DEF TriggeredIsDeliberate
  <2> USE Constants
  <2>1. /\ now \in Nat /\ now < Modulus /\ Len(queue) = Slots
        /\ edges \in Seq(Nat) /\ Len(edges) \in Nat /\ Len(edges) <= Slots + 1
        /\ start >= Minus(now, Window)
    BY DEF EmergencyInv, QueueTyped, emergencyArmingIsTriggered
  <2>2. start # None
    BY <2>1 DEF EmergencyInv, Started
  <2>3. start \in Nat /\ start <= now
    BY <2>1, <2>2 DEF EmergencyInv, Started
  <2>4. base = Len(edges) - Slots /\ base > 0 /\ edges[base] >= start
    BY <2>1, <2>2 DEF EmergencyInv, Aligned, base
  <2>5. base = 1 /\ Len(edges) = Slots + 1
    BY <2>1, <2>4
  <2>6. now - start <= Window
    BY <2>1, <2>3, InWindow
  <2>7. edges[1] \in Nat
    BY <2>1, <2>5
  <2> QED
    BY <2>1, <2>3, <2>4, <2>5, <2>6, <2>7
<1> QED
  BY <1>1, EmergencyInvariant, PTL
================================================================================
