----------------------------- MODULE ServoProofs -----------------------------
(***************************************************************************)
(* How far an axis on late readings, late frames and rounded rates can get *)
(* out of its soft limits (Servo), for any rates, ramp, rounding, limits   *)
(* and timing: no further than it goes in the longest time the guard ever  *)
(* looks ahead and a frame's delay.  How far the axis is to go is nowhere  *)
(* used: while a reading is outside, nothing outward is let through, so    *)
(* what is left is what it was doing when the reading was taken, and each  *)
(* of the places that still holds it (the vector, the stick, the segment   *)
(* computed) gives it up within a bound.                                   *)
(*                                                                         *)
(* The limits are two bounds on one axis and its mirror image, so all of   *)
(* the argument is about the upper one: `Held' of (pos, rate, ...) and     *)
(* `Held' of (-pos, -rate, ...).                                           *)
(***************************************************************************)
EXTENDS Servo, TLAPS

(* How far an axis at rate n gets while it stops (control.ts:175-188).     *)
Brake(n) == IF n > 0 THEN n * decel(n) ELSE 0

(* The same of an axis whose segments are r now and n next.                *)
Path(r, n, loaded) == IF loaded THEN (IF r > 0 THEN r ELSE 0) + Brake(n) ELSE Brake(r)

(* As far as an axis can get (the bound of NeverFarOut).                   *)
Farthest == Limit + (LongestHorizon + Delay) * MaxJog

(* Whatever the reading s of age a says, the axis at p is no further on    *)
(* than its age allows.  And if it says that the axis is outside, then the *)
(* vector j is outward still, till the next tick, d cycles away; or it is  *)
(* not, and the stick k is, till the next frame, u cycles away; or neither *)
(* is, and the axis is braking on the way w to its stop.                   *)
Held(p, w, k, j, u, s, a, d) ==
  /\ p <= s + MaxJog * a
  /\ s > Limit =>
       \/ j > 0 /\ p + MaxJog * d <= Limit + MaxJog * (PushPeriod + TickPeriod)
       \/ /\ j <= 0 /\ k > 0
          /\ p + MaxJog * u <= Limit + MaxJog * (PushPeriod + TickPeriod + PumpPeriod)
       \/ /\ j <= 0 /\ k <= 0
          /\ p + w <= Farthest

(* The inductive invariant: both limits, and what the three places that    *)
(* hold a rate tell of each other.                                         *)
ServoInv ==
  /\ Held(pos, Path(rate, next, nextMoveLoaded), stick, jog, pump, seen, age, due)
  /\ Held(-pos, Path(-rate, -next, nextMoveLoaded), -stick, -jog, pump, -seen, age, due)
  /\ pump = NoTimer => stick = 0 /\ jog = 0
  /\ nextMoveLoaded \/ next = rate
-----------------------------------------------------------------------------
(* The constants' types.                                                   *)
LEMMA Constants ==
  /\ MaxJog \in Nat /\ Rounding \in Nat /\ Limit \in Nat
  /\ Accel \in Nat /\ Accel >= 1
  /\ TickPeriod \in Nat /\ PumpPeriod \in Nat /\ PushPeriod \in Nat
BY ServoAssumption DEF ServoAssumption

(* More cycles at a rate get farther.                                      *)
LEMMA FartherInMore ==
  ASSUME NEW m \in Nat, NEW x \in Int, NEW y \in Int, x <= y
  PROVE  m * x <= m * y
<1>1. m * y = m * x + m * (y - x)
  OBVIOUS
<1>2. y - x \in Nat /\ m * (y - x) >= 0
  <2>1. y - x \in Nat
    OBVIOUS
  <2> QED
    BY <2>1
<1> QED
  BY <1>1, <1>2

(* Whole cycles of the ramp (decelMs, control.ts:175-188): the same both   *)
(* ways, and one at least while the axis turns.                            *)
LEMMA DecelIs ==
  ASSUME NEW n \in Int
  PROVE  decel(n) \in Nat /\ decel(-n) = decel(n) /\ (n > 0 => decel(n) >= 1)
<1> USE Constants
<1>1. Size(n) \in Nat /\ Size(-n) = Size(n) /\ (n > 0 => Size(n) = n)
  BY DEF Size
<1> DEFINE x == Size(n) + Accel - 1
           c == x \div Accel
<1>2. x \in Nat /\ (n > 0 => x >= Accel)
  BY <1>1
<1> HIDE DEF x
<1>3. c \in Nat /\ Accel * c <= x /\ x < Accel * c + Accel
  BY <1>2
<1>4. n > 0 => c # 0
  BY <1>2, <1>3
<1>5. decel(n) = c /\ decel(-n) = c
  BY <1>1 DEF decel, x
<1> HIDE DEF c
<1> QED
  BY <1>3, <1>4, <1>5

(* A faster axis takes no fewer, and one more for what one cycle takes off.*)
LEMMA DecelSteps ==
  ASSUME NEW m \in Nat, NEW n \in Nat
  PROVE  /\ m <= n => decel(m) <= decel(n)
         /\ m + Accel <= n => decel(m) + 1 <= decel(n)
<1> USE Constants
<1> DEFINE x == m + Accel - 1
           y == n + Accel - 1
           i == x \div Accel
           k == y \div Accel
<1>1. x \in Nat /\ y \in Nat
  OBVIOUS
<1>2. decel(m) = i /\ decel(n) = k
  BY DEF decel, Size
<1>3. x = m + Accel - 1 /\ y = n + Accel - 1
  OBVIOUS
<1> HIDE DEF x, y
<1>4. /\ i \in Nat /\ Accel * i <= x
      /\ k \in Nat /\ y < Accel * k + Accel
  BY <1>1
<1> HIDE DEF i, k
<1>5. ASSUME k + 1 <= i PROVE Accel * k + Accel <= Accel * i
  <2>1. Accel * (k + 1) <= Accel * i
    BY <1>4, <1>5, FartherInMore
  <2> QED
    BY <1>4, <2>1
<1>6. ASSUME k <= i PROVE Accel * k <= Accel * i
  BY <1>4, <1>6, FartherInMore
<1>7. m <= n => i <= k
  BY <1>1, <1>3, <1>4, <1>5
<1>8. m + Accel <= n => i + 1 <= k
  BY <1>1, <1>3, <1>4, <1>6
<1> QED
  BY <1>2, <1>7, <1>8

(* No rate there is takes longer to stop from than the top rate.           *)
LEMMA BrakeIs ==
  ASSUME NEW n \in Rates
  PROVE  /\ Brake(n) \in Nat /\ Brake(n) <= MaxJog * decel(MaxJog)
         /\ n <= 0 => Brake(n) = 0
<1> USE Constants
<1>0. n \in Int /\ n <= MaxJog /\ decel(MaxJog) \in Nat /\ MaxJog * decel(MaxJog) \in Nat
  BY DecelIs DEF Rates
<1>1. CASE n <= 0
  BY <1>0, <1>1 DEF Brake
<1>2. CASE n > 0
  <2>1. n \in Nat /\ decel(n) \in Nat /\ decel(n) <= decel(MaxJog)
    BY <1>0, <1>2, DecelIs, DecelSteps
  <2>2. n * decel(n) \in Nat /\ n * decel(n) <= n * decel(MaxJog)
    BY <1>0, <2>1, FartherInMore
  <2>3. decel(MaxJog) * n <= decel(MaxJog) * MaxJog
    BY <1>0, <2>1, FartherInMore
  <2>4. n * decel(MaxJog) = decel(MaxJog) * n /\ MaxJog * decel(MaxJog) = decel(MaxJog) * MaxJog
    BY <1>0
  <2>5. Brake(n) = n * decel(n)
    BY <1>2 DEF Brake
  <2> QED
    BY <1>0, <1>2, <2>1, <2>2, <2>3, <2>4, <2>5
<1> QED
  BY <1>0, <1>1, <1>2

(* A cycle of braking takes off the way what is turned in it.              *)
LEMMA BrakeStep ==
  ASSUME NEW r \in Int, NEW m \in Int, m <= 0 \/ m + Accel <= r
  PROVE  (IF r > 0 THEN r ELSE 0) + Brake(m) <= Brake(r)
<1> USE Constants
<1>1. CASE r <= 0
  <2>1. m <= 0
    BY <1>1
  <2> QED
    BY <1>1, <2>1 DEF Brake
<1>2. CASE r > 0 /\ m <= 0
  <2>1. decel(r) \in Nat /\ decel(r) >= 1 /\ r \in Nat
    BY <1>2, DecelIs
  <2>2. r * 1 <= r * decel(r)
    BY <2>1, FartherInMore
  <2> QED
    BY <1>2, <2>1, <2>2 DEF Brake
<1>3. CASE r > 0 /\ m > 0
  <2>1. r \in Nat /\ m \in Nat /\ decel(r) \in Nat /\ decel(m) \in Nat /\ m <= r
    BY <1>3, DecelIs
  <2>2. decel(m) + 1 <= decel(r)
    BY <1>3, <2>1, DecelSteps
  <2>3. r * (decel(m) + 1) <= r * decel(r)
    BY <2>1, <2>2, FartherInMore
  <2>4. decel(m) * m <= decel(m) * r
    BY <2>1, FartherInMore
  <2>5. r * (decel(m) + 1) = decel(m) * r + r /\ m * decel(m) = decel(m) * m
    BY <2>1
  <2>6. Brake(m) = m * decel(m) /\ Brake(r) = r * decel(r)
    BY <1>3 DEF Brake
  <2> QED
    BY <1>3, <2>1, <2>3, <2>4, <2>5, <2>6
<1> QED
  BY <1>1, <1>2, <1>3

(* The farthest there is, by its parts.                                    *)
LEMMA FarIs ==
  /\ Farthest =
       Limit + MaxJog * (PushPeriod + TickPeriod + PumpPeriod) + MaxJog * decel(MaxJog)
         + 2 * MaxJog
  /\ MaxJog * (PushPeriod + TickPeriod + PumpPeriod) =
       MaxJog * (PushPeriod + TickPeriod) + MaxJog * PumpPeriod
  /\ MaxJog * (PushPeriod + TickPeriod) = MaxJog * PushPeriod + MaxJog * TickPeriod
  /\ {MaxJog * PushPeriod, MaxJog * TickPeriod, MaxJog * PumpPeriod,
      MaxJog * decel(MaxJog)} \subseteq Nat
<1> USE Constants
<1>1. decel(MaxJog) \in Nat
  BY DecelIs
<1> HIDE DEF decel
<1>2. (LongestHorizon + Delay) * MaxJog =
        MaxJog * (PushPeriod + TickPeriod + PumpPeriod) + MaxJog * decel(MaxJog) + 2 * MaxJog
  BY <1>1 DEF LongestHorizon, Delay
<1> QED
  BY <1>1, <1>2 DEF Farthest

(* What the way to the stop of an axis with segments r and n comes to.     *)
Ways == {w \in Int : w <= MaxJog + MaxJog * decel(MaxJog)}

(* It does come to no more than that, ...                                  *)
LEMMA PathIs ==
  ASSUME NEW r \in Rates, NEW n \in Rates, NEW loaded \in BOOLEAN
  PROVE  Path(r, n, loaded) \in Ways
<1> USE Constants
<1>1. /\ Brake(r) \in Nat /\ Brake(r) <= MaxJog * decel(MaxJog)
      /\ Brake(n) \in Nat /\ Brake(n) <= MaxJog * decel(MaxJog)
      /\ r \in Int /\ r <= MaxJog
  BY BrakeIs DEF Rates
<1>2. CASE loaded
  BY <1>1, <1>2, FarIs DEF Path, Ways
<1>3. CASE ~ loaded
  BY <1>1, <1>3, FarIs DEF Path, Ways
<1> QED
  BY <1>2, <1>3

(* is no way back, ...                                                     *)
LEMMA PathNotBack ==
  ASSUME NEW r \in Rates, NEW n \in Rates, NEW loaded \in BOOLEAN
  PROVE  Path(r, n, loaded) >= 0
<1>1. Brake(r) \in Nat /\ Brake(n) \in Nat /\ r \in Int
  BY BrakeIs DEF Rates
<1>2. CASE loaded
  BY <1>1, <1>2 DEF Path
<1>3. CASE ~ loaded
  BY <1>1, <1>3 DEF Path
<1> QED
  BY <1>2, <1>3

(* ... so an axis that begins to brake in time stops in time.              *)
LEMMA StopsInTime ==
  ASSUME NEW p \in Int, NEW w \in Ways,
         p <= Limit + MaxJog * (PushPeriod + TickPeriod + PumpPeriod)
  PROVE  p + w <= Farthest
BY FarIs, Constants DEF Ways

(* The numbers that an axis is described by.                               *)
Numbers(p, w, k, j, u, s, a, d) ==
  /\ p \in Int /\ s \in Int
  /\ w \in Ways
  /\ k \in Rates /\ j \in Rates
  /\ u \in NoTimer .. PumpPeriod
  /\ a \in 0 .. PushPeriod
  /\ d \in 0 .. TickPeriod
  /\ u = NoTimer => k = 0 /\ j = 0

(* A reading taken while the one before it was inside (device.ts:98-120):  *)
(* the axis cannot have got far since.                                     *)
LEMMA HeldPush ==
  ASSUME NEW p, NEW w, NEW k, NEW j, NEW u, NEW s, NEW a, NEW d,
         Numbers(p, w, k, j, u, s, a, d),
         Held(p, w, k, j, u, s, a, d)
  PROVE  Held(p, w, k, j, u, p, 0, d)
<1> USE Constants
<1>1. /\ p \in Int /\ s \in Int /\ a \in Nat /\ a <= PushPeriod /\ d \in Nat /\ d <= TickPeriod
      /\ j \in Int /\ k \in Int /\ w \in Ways
      /\ u \in Int /\ u <= PumpPeriod /\ (k > 0 => u >= 0)
      /\ p <= s + MaxJog * a
  BY DEF Numbers, Rates, NoTimer, Held
<1>2. p <= p + MaxJog * 0
  BY <1>1
<1>3. CASE s > Limit
  BY <1>2, <1>3 DEF Held
<1>4. CASE s <= Limit
  <2>1. MaxJog * a <= MaxJog * PushPeriod /\ MaxJog * a \in Nat
    BY <1>1, FartherInMore
  <2>2. p <= Limit + MaxJog * PushPeriod
    BY <1>1, <1>4, <2>1, FarIs
  <2>3. CASE j > 0
    <3>1. MaxJog * d <= MaxJog * TickPeriod /\ MaxJog * d \in Nat
      BY <1>1, FartherInMore
    <3>2. p + MaxJog * d <= Limit + MaxJog * (PushPeriod + TickPeriod)
      BY <1>1, <2>2, <3>1, FarIs
    <3> QED
      BY <1>2, <2>3, <3>2 DEF Held
  <2>4. CASE j <= 0 /\ k > 0
    <3>1. MaxJog * u <= MaxJog * PumpPeriod /\ MaxJog * u \in Nat
      BY <1>1, <2>4, FartherInMore
    <3>2. p + MaxJog * u <= Limit + MaxJog * (PushPeriod + TickPeriod + PumpPeriod)
      BY <1>1, <2>2, <3>1, FarIs
    <3> QED
      BY <1>2, <2>4, <3>2 DEF Held
  <2>5. CASE j <= 0 /\ k <= 0
    <3>1. p <= Limit + MaxJog * (PushPeriod + TickPeriod + PumpPeriod)
      BY <1>1, <2>2, FarIs
    <3>2. p + w <= Farthest
      BY <1>1, <3>1, StopsInTime
    <3> QED
      BY <1>2, <2>5, <3>2 DEF Held
  <2> QED
    BY <1>1, <2>3, <2>4, <2>5
<1> QED
  BY <1>1, <1>3, <1>4

(* A tick (session.ts:210-214, 290-324) that asks for nothing outward when *)
(* the reading is outside: the stick is left to the keep-alive, or follows.*)
LEMMA HeldTick ==
  ASSUME NEW p, NEW w, NEW k, NEW j, NEW u, NEW s, NEW a,
         Numbers(p, w, k, j, u, s, a, 0),
         Held(p, w, k, j, u, s, a, 0),
         NEW j2 \in Rates, NEW k2 \in Rates, NEW u2 \in NoTimer .. PumpPeriod,
         s > Limit => j2 <= 0,
         (k2 = k /\ u2 = u) \/ k2 = j2
  PROVE  Held(p, w, k2, j2, u2, s, a, TickPeriod)
<1> USE Constants
<1>1. /\ p \in Int /\ s \in Int /\ j \in Int /\ k \in Int /\ j2 \in Int /\ k2 \in Int
      /\ w \in Ways
      /\ u \in Int /\ u <= PumpPeriod /\ (k > 0 => u >= 0)
      /\ p <= s + MaxJog * a
  BY DEF Numbers, Rates, NoTimer, Held
<1>2. CASE s <= Limit
  BY <1>1, <1>2 DEF Held
<1>3. CASE s > Limit
  <2>1. j2 <= 0
    BY <1>3
  <2>2. /\ k > 0 => MaxJog * u <= MaxJog * PumpPeriod /\ MaxJog * u \in Nat
    BY <1>1, FartherInMore
  <2>3. \/ p <= Limit + MaxJog * (PushPeriod + TickPeriod)
        \/ k > 0 /\ p + MaxJog * u <= Limit + MaxJog * (PushPeriod + TickPeriod + PumpPeriod)
        \/ k <= 0 /\ p + w <= Farthest
    <3>1. MaxJog * 0 = 0
      OBVIOUS
    <3> QED
      BY <1>1, <1>3, <3>1 DEF Held
  <2>4. CASE k2 > 0
    <3>1. k2 = k /\ u2 = u
      BY <1>1, <2>1, <2>4
    <3>2. p + MaxJog * u <= Limit + MaxJog * (PushPeriod + TickPeriod + PumpPeriod)
      BY <1>1, <2>2, <2>3, <2>4, <3>1, FarIs
    <3> QED
      BY <1>1, <1>3, <2>1, <2>4, <3>1, <3>2 DEF Held
  <2>5. CASE k2 <= 0
    <3>1. CASE k <= 0 /\ p + w <= Farthest
      BY <1>1, <2>1, <2>5, <3>1 DEF Held
    <3>2. CASE p <= Limit + MaxJog * (PushPeriod + TickPeriod + PumpPeriod)
      <4>1. p + w <= Farthest
        BY <1>1, <3>2, StopsInTime
      <4> QED
        BY <1>1, <2>1, <2>5, <4>1 DEF Held
    <3>3. \/ k <= 0 /\ p + w <= Farthest
          \/ p <= Limit + MaxJog * (PushPeriod + TickPeriod + PumpPeriod)
      BY <1>1, <2>2, <2>3, FarIs
    <3> QED
      BY <3>1, <3>2, <3>3
  <2> QED
    BY <1>1, <2>4, <2>5
<1> QED
  BY <1>1, <1>2, <1>3

(* The keep-alive's frame (device.ts:204-214): the stick is the vector.    *)
LEMMA HeldPump ==
  ASSUME NEW p, NEW w, NEW k, NEW j, NEW s, NEW a, NEW d,
         Numbers(p, w, k, j, 0, s, a, d),
         Held(p, w, k, j, 0, s, a, d)
  PROVE  Held(p, w, j, j, PumpPeriod, s, a, d)
<1> USE Constants
<1>1. /\ p \in Int /\ s \in Int /\ j \in Int /\ k \in Int
      /\ w \in Ways
      /\ p <= s + MaxJog * a
  BY DEF Numbers, Rates, Held
<1>2. CASE s <= Limit
  BY <1>1, <1>2 DEF Held
<1>3. CASE s > Limit /\ j > 0
  BY <1>1, <1>3 DEF Held
<1>4. CASE s > Limit /\ j <= 0 /\ k > 0
  <2>1. MaxJog * 0 = 0
    OBVIOUS
  <2>2. p <= Limit + MaxJog * (PushPeriod + TickPeriod + PumpPeriod)
    BY <1>1, <1>4, <2>1 DEF Held
  <2>3. p + w <= Farthest
    BY <1>1, <2>2, StopsInTime
  <2> QED
    BY <1>1, <1>4, <2>3 DEF Held
<1>5. CASE s > Limit /\ j <= 0 /\ k <= 0
  BY <1>1, <1>5 DEF Held
<1> QED
  BY <1>1, <1>2, <1>3, <1>4, <1>5

(* The segment computed for a stick that is not outward brakes             *)
(* (TB3_Nunchuck.ino:495-605): the way to the stop gets no longer.         *)
LEMMA HeldCompute ==
  ASSUME NEW p, NEW w, NEW k, NEW j, NEW u, NEW s, NEW a, NEW d, NEW w2 \in Ways,
         Numbers(p, w, k, j, u, s, a, d),
         Held(p, w, k, j, u, s, a, d),
         k <= 0 => w2 <= w
  PROVE  Held(p, w2, k, j, u, s, a, d)
<1> USE Constants
<1>1. /\ p \in Int /\ k \in Int /\ w \in Int /\ w2 \in Int /\ Farthest \in Int
      /\ j \in Int /\ u \in Int /\ s \in Int /\ a \in Int /\ d \in Int
  BY FarIs DEF Numbers, Rates, NoTimer, Ways
<1>2. CASE k > 0
  BY <1>1, <1>2 DEF Held
<1>3. CASE k <= 0
  <2>1. p + w <= Farthest => p + w2 <= Farthest
    BY <1>1, <1>3
  <2> QED
    BY <1>1, <1>3, <2>1 DEF Held
<1> QED
  BY <1>1, <1>2, <1>3

(* A cycle (TB_DF.ino:377-406) turns the axis by no more than the top rate,*)
(* which is what a cycle of every delay was counted for.                   *)
LEMMA HeldCycle ==
  ASSUME NEW p, NEW w, NEW k, NEW j, NEW u, NEW s, NEW a, NEW d,
         Numbers(p, w, k, j, u, s, a, d),
         Held(p, w, k, j, u, s, a, d),
         d > 0, u # 0, NEW u2, u2 = IF u = NoTimer THEN NoTimer ELSE u - 1,
         NEW r \in Rates, NEW w2 \in Ways, r + w2 <= w
  PROVE  Held(p + r, w2, k, j, u2, s, a + 1, d - 1)
<1> USE Constants
<1>1. /\ p \in Int /\ s \in Int /\ a \in Int /\ d \in Int /\ j \in Int /\ k \in Int /\ u \in Int
      /\ r \in Int /\ r <= MaxJog /\ (k > 0 => u2 = u - 1)
      /\ w \in Int /\ w2 \in Int /\ Farthest \in Int
  BY FarIs DEF Numbers, Rates, NoTimer, Ways
<1>2. /\ MaxJog * (a + 1) = MaxJog * a + MaxJog /\ MaxJog * a \in Int
      /\ MaxJog * (d - 1) = MaxJog * d - MaxJog /\ MaxJog * d \in Int
      /\ MaxJog * (u - 1) = MaxJog * u - MaxJog /\ MaxJog * u \in Int
  BY <1>1
<1>3. p + r <= s + MaxJog * (a + 1)
  <2>1. p <= s + MaxJog * a
    BY DEF Held
  <2> QED
    BY <1>1, <1>2, <2>1
<1>4. CASE s <= Limit
  BY <1>1, <1>3, <1>4 DEF Held
<1>5. CASE s > Limit /\ j > 0
  <2>1. p + MaxJog * d <= Limit + MaxJog * (PushPeriod + TickPeriod)
    BY <1>1, <1>5 DEF Held
  <2>2. (p + r) + MaxJog * (d - 1) <= Limit + MaxJog * (PushPeriod + TickPeriod)
    BY <1>1, <1>2, <2>1, FarIs
  <2> QED
    BY <1>1, <1>3, <1>5, <2>2 DEF Held
<1>6. CASE s > Limit /\ j <= 0 /\ k > 0
  <2>1. p + MaxJog * u <= Limit + MaxJog * (PushPeriod + TickPeriod + PumpPeriod)
    BY <1>1, <1>6 DEF Held
  <2>2. (p + r) + MaxJog * u2 <= Limit + MaxJog * (PushPeriod + TickPeriod + PumpPeriod)
    BY <1>1, <1>2, <1>6, <2>1, FarIs
  <2> QED
    BY <1>1, <1>3, <1>6, <2>2 DEF Held
<1>7. CASE s > Limit /\ j <= 0 /\ k <= 0
  <2>1. p + w <= Farthest
    BY <1>1, <1>7 DEF Held
  <2>2. (p + r) + w2 <= Farthest
    BY <1>1, <2>1
  <2> QED
    BY <1>1, <1>3, <1>7, <2>2 DEF Held
<1> QED
  BY <1>1, <1>4, <1>5, <1>6, <1>7
-----------------------------------------------------------------------------
(* The guard lets nothing outward pass once the reading is outside         *)
(* (control.ts:221-244), and the firmware's curve never turns a rate the   *)
(* other way (control.ts:146-152).                                         *)
LEMMA GuardHolds ==
  ASSUME seen \in Int, age \in Nat, NEW r \in Rates, NEW d \in rateToDeflection(limitGuard(r))
  PROVE  /\ d \in Rates /\ -d \in Rates
         /\ seen > Limit => d <= 0
         /\ -seen > Limit => -d <= 0
<1> USE Constants
<1>1. /\ r \in Int /\ d \in Int /\ d \in Rates /\ -d \in Rates
      /\ d > 0 => limitGuard(r) > 0
      /\ d < 0 => limitGuard(r) < 0
  BY DEF rateToDeflection, Rates
<1>2. limitHorizon(r) \in Nat
  BY <1>1, DecelIs DEF limitHorizon
<1>3. /\ r > 0 => r * limitHorizon(r) \in Nat
      /\ r < 0 => (-r) * limitHorizon(r) \in Nat /\ r * limitHorizon(r) = -((-r) * limitHorizon(r))
  BY <1>1, <1>2
<1>4. seen > Limit /\ r > 0 => limitGuard(r) = 0
  BY <1>1, <1>3 DEF limitGuard, Size
<1>5. -seen > Limit /\ r < 0 => limitGuard(r) = 0
  BY <1>1, <1>3 DEF limitGuard, Size
<1>6. limitGuard(r) = 0 \/ limitGuard(r) = r
  BY DEF limitGuard
<1> QED
  BY <1>1, <1>4, <1>5, <1>6

(* A ramp towards a stick that is not outward slows an outward axis, or    *)
(* stops it (TB3_Nunchuck.ino:495-605).                                    *)
LEMMA RampIs ==
  ASSUME NEW k \in Rates, NEW n \in Rates, NEW m, m = Bound(k, n - Accel, n + Accel)
  PROVE  /\ m \in Rates /\ -m \in Rates
         /\ k <= 0 => m <= 0 \/ m + Accel <= n
         /\ -k <= 0 => -m <= 0 \/ -m + Accel <= -n
BY Constants DEF Bound, Rates

(* A segment computed while braking makes the way to the stop no longer, ..*)
LEMMA PathComputed ==
  ASSUME NEW r \in Rates, NEW m \in Rates, m <= 0 \/ m + Accel <= r
  PROVE  Path(r, m, TRUE) <= Path(r, r, FALSE)
BY BrakeStep DEF Path, Rates

(* ... and one that has run is a part of it.                               *)
LEMMA PathRun ==
  ASSUME NEW r \in Rates, NEW n \in Rates
  PROVE  r + Path(n, n, FALSE) <= Path(r, n, TRUE)
BY BrakeIs DEF Path, Rates

(* Rates have a mirror image each, ...                                     *)
LEMMA Mirrored ==
  ASSUME NEW r \in Rates
  PROVE  -r \in Rates /\ (r = 0 => -r = 0)
<1>1. r \in Int /\ -MaxJog <= r /\ r <= MaxJog
  BY Constants DEF Rates
<1>2. -r \in Int /\ -MaxJog <= -r /\ -r <= MaxJog /\ (r = 0 => -r = 0)
  BY <1>1, Constants
<1> QED
  BY <1>2 DEF Rates

(* ... and so has an axis.                                                 *)
LEMMA BothAreAxes ==
  ASSUME ServoTypeOK, pump = NoTimer => stick = 0 /\ jog = 0
  PROVE  /\ Numbers(pos, Path(rate, next, nextMoveLoaded), stick, jog, pump, seen, age, due)
         /\ Numbers(-pos, Path(-rate, -next, nextMoveLoaded), -stick, -jog, pump, -seen, age, due)
<1>1. /\ -rate \in Rates /\ -next \in Rates /\ -stick \in Rates /\ -jog \in Rates
      /\ -pos \in Int /\ -seen \in Int
  BY Mirrored DEF ServoTypeOK
<1>2. pump = NoTimer => -stick = 0 /\ -jog = 0
  BY Mirrored DEF ServoTypeOK
<1>3. Path(rate, next, nextMoveLoaded) \in Ways /\ Path(-rate, -next, nextMoveLoaded) \in Ways
  BY <1>1, PathIs DEF ServoTypeOK
<1> QED
  BY <1>1, <1>2, <1>3 DEF Numbers, ServoTypeOK

(* No session starts outside (session.ts:83-101).                          *)
LEMMA InitHeld == ServoInit => ServoTypeOK /\ ServoInv
<1> SUFFICES ASSUME ServoInit PROVE ServoTypeOK /\ ServoInv
  OBVIOUS
<1> USE Constants
<1>1. ServoTypeOK
  <2>1. 0 \in Rates /\ NoTimer \in NoTimer .. PumpPeriod
    BY DEF Rates, NoTimer
  <2>2. pos \in Int /\ 0 \in 0 .. PushPeriod /\ 0 \in 0 .. TickPeriod
    BY DEF ServoInit
  <2> QED
    BY <2>1, <2>2 DEF ServoInit, ServoTypeOK
<1>2. pos <= Limit /\ -pos <= Limit /\ pos \in Int
  BY DEF ServoInit
<1>3. MaxJog * 0 = 0
  OBVIOUS
<1>4. /\ pos <= seen + MaxJog * age /\ ~ seen > Limit
      /\ -pos <= -seen + MaxJog * age /\ ~ -seen > Limit
  BY <1>2, <1>3 DEF ServoInit
<1>5. stick = 0 /\ jog = 0 /\ next = rate
  BY DEF ServoInit
<1> QED
  BY <1>1, <1>4, <1>5 DEF ServoInv, Held

(* Every step keeps the numbers' types.                                    *)
LEMMA TypeStep == ServoTypeOK /\ [ServoNext]_servoVars => ServoTypeOK'
<1> SUFFICES ASSUME ServoTypeOK, [ServoNext]_servoVars PROVE ServoTypeOK'
  OBVIOUS
<1> USE Constants
<1>1. CASE ServoTick
  <2>1. PICK r \in controlRate : \E d \in rateToDeflection(limitGuard(r)) : setJogVector(d)
    BY <1>1 DEF ServoTick
  <2>2. PICK d \in Rates : setJogVector(d)
    BY <2>1 DEF rateToDeflection
  <2>3. jog' \in Rates /\ stick' \in Rates /\ pump' \in NoTimer .. PumpPeriod
    BY <2>2 DEF setJogVector, ServoTypeOK, NoTimer
  <2> QED
    BY <1>1, <2>3 DEF ServoTick, motionVars, ServoTypeOK
<1>2. CASE WaitTick
  BY <1>2 DEF WaitTick, motionVars, ServoTypeOK, Rates, NoTimer
<1>3. CASE Pump
  BY <1>3 DEF Pump, motionVars, ServoTypeOK, NoTimer
<1>4. CASE updateMotorVelocities2
  <2>1. next' \in Rates
    BY <1>4, RampIs DEF updateMotorVelocities2, ServoTypeOK
  <2> QED
    BY <1>4, <2>1 DEF updateMotorVelocities2, ServoTypeOK
<1>5. CASE Cycle
  <2>1. pos' \in Int /\ age' \in 0 .. PushPeriod /\ due' \in 0 .. TickPeriod
    BY <1>5 DEF Cycle, ServoTypeOK, Rates
  <2>2. pump' \in NoTimer .. PumpPeriod
    BY <1>5 DEF Cycle, ServoTypeOK, NoTimer
  <2> QED
    BY <1>5, <2>1, <2>2 DEF Cycle, ServoTypeOK
<1>6. CASE Push
  BY <1>6 DEF Push, motionVars, ServoTypeOK
<1>7. CASE UNCHANGED servoVars
  BY <1>7 DEF servoVars, motionVars, ServoTypeOK
<1> QED
  BY <1>1, <1>2, <1>3, <1>4, <1>5, <1>6, <1>7 DEF ServoNext

(* And every step keeps both limits.                                       *)
LEMMA StepHeld == ServoTypeOK /\ ServoInv /\ [ServoNext]_servoVars => ServoInv'
<1> SUFFICES ASSUME ServoTypeOK, ServoInv, [ServoNext]_servoVars PROVE ServoInv'
  OBVIOUS
<1> USE Constants
<1> DEFINE w == Path(rate, next, nextMoveLoaded)
           v == Path(-rate, -next, nextMoveLoaded)
<1>1. /\ Held(pos, w, stick, jog, pump, seen, age, due)
      /\ Held(-pos, v, -stick, -jog, pump, -seen, age, due)
      /\ pump = NoTimer => stick = 0 /\ jog = 0
      /\ nextMoveLoaded \/ next = rate
  BY DEF ServoInv
<1>2. /\ Numbers(pos, w, stick, jog, pump, seen, age, due)
      /\ Numbers(-pos, v, -stick, -jog, pump, -seen, age, due)
  BY <1>1, BothAreAxes
<1>3. /\ 0 \in Rates /\ -0 = 0 /\ -stick \in Rates /\ -jog \in Rates
      /\ PumpPeriod \in NoTimer .. PumpPeriod
      /\ NoTimer \in NoTimer .. PumpPeriod
      /\ NoTimer # PumpPeriod
  <2>1. 0 \in Rates
    BY DEF Rates
  <2>2. -0 = 0 /\ -stick \in Rates /\ -jog \in Rates
    BY <2>1, Mirrored DEF ServoTypeOK
  <2>3. /\ PumpPeriod \in NoTimer .. PumpPeriod
        /\ NoTimer \in NoTimer .. PumpPeriod
        /\ NoTimer # PumpPeriod
    BY DEF NoTimer
  <2> QED
    BY <2>1, <2>2, <2>3
<1>4. CASE ServoTick
  <2>1. PICK r \in Rates : \E d \in rateToDeflection(limitGuard(r)) : setJogVector(d)
    BY <1>4 DEF ServoTick, controlRate
  <2>2. PICK d \in rateToDeflection(limitGuard(r)) : setJogVector(d)
    BY <2>1
  <2>3. /\ d \in Rates /\ -d \in Rates
        /\ seen > Limit => d <= 0
        /\ -seen > Limit => -d <= 0
    BY GuardHolds DEF ServoTypeOK
  <2>4. /\ due = 0 /\ due' = TickPeriod /\ jog' = d
        /\ UNCHANGED <<pos, rate, next, nextMoveLoaded, seen, age>>
        /\ (stick' = stick /\ pump' = pump /\ pump # NoTimer) \/ (stick' = d /\ pump' = PumpPeriod)
    BY <1>4, <2>2 DEF ServoTick, setJogVector, motionVars
  <2>5. stick' \in Rates /\ pump' \in NoTimer .. PumpPeriod
    BY <1>3, <2>3, <2>4 DEF ServoTypeOK
  <2>6. -stick' \in Rates /\ ((-stick' = -stick /\ pump' = pump) \/ -stick' = -d)
    BY <2>4, <2>5, Mirrored
  <2>7. Held(pos, w, stick', d, pump', seen, age, TickPeriod)
    BY <1>1, <1>2, <2>3, <2>4, <2>5, HeldTick
  <2>8. Held(-pos, v, -stick', -d, pump', -seen, age, TickPeriod)
    BY <1>1, <1>2, <2>3, <2>4, <2>5, <2>6, HeldTick
  <2>9. pump' # NoTimer
    BY <1>3, <2>4
  <2> QED
    BY <1>1, <2>4, <2>7, <2>8, <2>9 DEF ServoInv
<1>5. CASE WaitTick
  <2>1. /\ due = 0 /\ due' = TickPeriod /\ jog' = 0 /\ stick' = 0 /\ pump' = NoTimer
        /\ UNCHANGED <<pos, rate, next, nextMoveLoaded, seen, age>>
    BY <1>5 DEF WaitTick, motionVars
  <2>2. Held(pos, w, 0, 0, NoTimer, seen, age, TickPeriod)
    BY <1>1, <1>2, <1>3, <2>1, HeldTick
  <2>3. Held(-pos, v, 0, 0, NoTimer, -seen, age, TickPeriod)
    BY <1>1, <1>2, <1>3, <2>1, HeldTick
  <2> QED
    BY <1>1, <1>3, <2>1, <2>2, <2>3 DEF ServoInv
<1>6. CASE Pump
  <2>1. /\ pump = 0 /\ pump' = PumpPeriod /\ stick' = jog
        /\ UNCHANGED <<pos, rate, next, nextMoveLoaded, jog, seen, age, due>>
    BY <1>6 DEF Pump, motionVars
  <2>2. Held(pos, w, jog, jog, PumpPeriod, seen, age, due)
    BY <1>1, <1>2, <2>1, HeldPump
  <2>3. Held(-pos, v, -jog, -jog, PumpPeriod, -seen, age, due)
    BY <1>1, <1>2, <2>1, HeldPump
  <2> QED
    BY <1>1, <1>3, <2>1, <2>2, <2>3 DEF ServoInv
<1>7. CASE updateMotorVelocities2
  <2>1. /\ ~ nextMoveLoaded /\ nextMoveLoaded' = TRUE
        /\ next' = Bound(stick, rate - Accel, rate + Accel)
        /\ UNCHANGED <<pos, rate, stick, jog, pump, seen, age, due>>
    BY <1>1, <1>7 DEF updateMotorVelocities2
  <2>2. /\ rate \in Rates /\ -rate \in Rates /\ next' \in Rates /\ -next' \in Rates
        /\ stick <= 0 => next' <= 0 \/ next' + Accel <= rate
        /\ -stick <= 0 => -next' <= 0 \/ -next' + Accel <= -rate
    BY <1>1, <2>1, RampIs, Mirrored DEF ServoTypeOK
  <2>3. w = Path(rate, rate, FALSE) /\ v = Path(-rate, -rate, FALSE)
    BY <1>1, <2>1 DEF Path
  <2> DEFINE w2 == Path(rate, next', TRUE)
             v2 == Path(-rate, -next', TRUE)
  <2>4. /\ w2 \in Ways /\ v2 \in Ways
        /\ stick <= 0 => w2 <= w
        /\ -stick <= 0 => v2 <= v
    BY <2>2, <2>3, PathIs, PathComputed
  <2> HIDE DEF w, v, w2, v2
  <2>5. Held(pos, w2, stick, jog, pump, seen, age, due)
    BY <1>1, <1>2, <2>4, HeldCompute
  <2>6. Held(-pos, v2, -stick, -jog, pump, -seen, age, due)
    BY <1>1, <1>2, <2>4, HeldCompute
  <2> QED
    BY <1>1, <2>1, <2>5, <2>6 DEF ServoInv, w2, v2
<1>8. CASE Cycle
  <2> DEFINE u2 == IF pump = NoTimer THEN NoTimer ELSE pump - 1
             w2 == Path(next, next, FALSE)
             v2 == Path(-next, -next, FALSE)
  <2>1. /\ nextMoveLoaded /\ due > 0 /\ pump # 0
        /\ pos' = pos + rate /\ rate' = next /\ next' = next /\ nextMoveLoaded' = FALSE
        /\ age' = age + 1 /\ due' = due - 1 /\ pump' = u2
        /\ UNCHANGED <<stick, jog, seen>>
    BY <1>8 DEF Cycle
  <2>2. rate \in Rates /\ -rate \in Rates /\ next \in Rates /\ -next \in Rates /\ pos \in Int
    BY DEF ServoTypeOK, Rates
  <2>3. w = Path(rate, next, TRUE) /\ v = Path(-rate, -next, TRUE)
    BY <2>1 DEF Path
  <2>4. w2 \in Ways /\ v2 \in Ways /\ rate + w2 <= w /\ -rate + v2 <= v
    BY <2>2, <2>3, PathIs, PathRun
  <2>5. -pos' = -pos + -rate
    BY <2>1, <2>2 DEF Rates
  <2>6. u2 = NoTimer => pump = NoTimer
    BY <2>1 DEF ServoTypeOK, NoTimer
  <2> HIDE DEF w, v, w2, v2
  <2>7. Held(pos + rate, w2, stick, jog, u2, seen, age + 1, due - 1)
    BY <1>1, <1>2, <2>1, <2>2, <2>4, HeldCycle
  <2>8. Held(-pos + -rate, v2, -stick, -jog, u2, -seen, age + 1, due - 1)
    BY <1>1, <1>2, <2>1, <2>2, <2>4, HeldCycle
  <2> HIDE DEF u2
  <2> QED
    BY <1>1, <2>1, <2>5, <2>6, <2>7, <2>8 DEF ServoInv, w2, v2
<1>9. CASE Push
  <2>1. /\ age' = 0 /\ seen' = pos
        /\ UNCHANGED <<pos, rate, next, nextMoveLoaded, stick, jog, pump, due>>
    BY <1>9 DEF Push, motionVars
  <2>2. Held(pos, w, stick, jog, pump, pos, 0, due)
    BY <1>1, <1>2, HeldPush
  <2>3. Held(-pos, v, -stick, -jog, pump, -pos, 0, due)
    BY <1>1, <1>2, HeldPush
  <2> QED
    BY <1>1, <2>1, <2>2, <2>3 DEF ServoInv
<1>10. CASE UNCHANGED servoVars
  BY <1>1, <1>10 DEF servoVars, motionVars, ServoInv
<1> QED
  BY <1>4, <1>5, <1>6, <1>7, <1>8, <1>9, <1>10 DEF ServoNext

(* Where the invariant holds, the axis has not got too far.                *)
LEMMA HeldIsNear ==
  ASSUME NEW p, NEW w, NEW k, NEW j, NEW u, NEW s, NEW a, NEW d,
         Numbers(p, w, k, j, u, s, a, d), w >= 0,
         Held(p, w, k, j, u, s, a, d)
  PROVE  p <= Farthest
<1> USE Constants
<1>1. /\ p \in Int /\ s \in Int /\ w \in Int /\ a \in Nat /\ a <= PushPeriod /\ d \in Nat
      /\ j \in Int /\ k \in Int /\ u \in Int /\ (k > 0 => u \in Nat)
  BY DEF Numbers, Rates, NoTimer, Ways
<1>2. /\ MaxJog * a \in Nat /\ MaxJog * a <= MaxJog * PushPeriod /\ MaxJog * d \in Nat
      /\ k > 0 => MaxJog * u \in Nat
  BY <1>1, FartherInMore
<1>3. /\ p <= s + MaxJog * a
      /\ s > Limit =>
           \/ p + MaxJog * d <= Limit + MaxJog * (PushPeriod + TickPeriod)
           \/ k > 0 /\ p + MaxJog * u <= Limit + MaxJog * (PushPeriod + TickPeriod + PumpPeriod)
           \/ p + w <= Farthest
  BY DEF Held
<1> QED
  BY <1>1, <1>2, <1>3, FarIs

(* ServoTypeOK, for any rates, ramp, rounding, limits and timing.          *)
THEOREM ServoTypeCorrect == ServoSpec => []ServoTypeOK
<1>1. ServoInit => ServoTypeOK
  BY InitHeld
<1> QED
  BY <1>1, TypeStep, PTL DEF ServoSpec

(* Both limits are held, whatever the target does.                         *)
THEOREM ServoInvariant == ServoSpec => []ServoInv
BY InitHeld, StepHeld, ServoTypeCorrect, PTL DEF ServoSpec

(* NeverFarOut, for any rates, ramp, rounding, limits and timing: whatever *)
(* the guard makes of an old reading (control.ts:221-244), the axis gets   *)
(* no further out than its top rate takes it in the longest the guard ever *)
(* looks ahead and a frame's delay.                                        *)
THEOREM AlwaysNeverFarOut == ServoSpec => []NeverFarOut
<1>1. ServoTypeOK /\ ServoInv => NeverFarOut
  <2> SUFFICES ASSUME ServoTypeOK, ServoInv PROVE NeverFarOut
    OBVIOUS
  <2> DEFINE w == Path(rate, next, nextMoveLoaded)
             v == Path(-rate, -next, nextMoveLoaded)
  <2>1. w >= 0 /\ v >= 0
    <3>1. rate \in Rates /\ -rate \in Rates /\ next \in Rates /\ -next \in Rates
      BY Constants DEF ServoTypeOK, Rates
    <3> QED
      BY <3>1, PathNotBack DEF ServoTypeOK
  <2> HIDE DEF w, v
  <2>2. /\ Numbers(pos, w, stick, jog, pump, seen, age, due)
        /\ Numbers(-pos, v, -stick, -jog, pump, -seen, age, due)
    BY BothAreAxes DEF ServoInv, w, v
  <2>3. pos <= Farthest
    BY <2>1, <2>2, HeldIsNear DEF ServoInv, w
  <2>4. -pos <= Farthest
    BY <2>1, <2>2, HeldIsNear DEF ServoInv, v
  <2>5. pos \in Int /\ Size(pos) <= Farthest
    BY <2>3, <2>4 DEF Size, ServoTypeOK
  <2> QED
    BY <2>5 DEF NeverFarOut, Farthest
<1> QED
  BY <1>1, ServoInvariant, ServoTypeCorrect, PTL
=============================================================================
