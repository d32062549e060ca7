---------------------------- MODULE N5FandProofs ----------------------------
(***************************************************************************)
(* Proofs about N5Fand, for every set of channels, every curve, step width *)
(* and period the assumption allows, and all disturbances.                 *)
(***************************************************************************)
EXTENDS N5Fand, TLAPS

-----------------------------------------------------------------------------
(* The inductive invariant, in named parts.                                *)

\* The stall counter is left below its limit until the stall is declared.
Counting == \A c \in Channels : ~stalled[c] => stallcnt[c] < StallCycles

Starting == unit = "start" => pc = "sense"

\* Cycles since the last one in which every channel was written.
Since(k) == IF k % Refresh = 0 THEN Refresh - 1 ELSE (k % Refresh) - 1

Waiting == \A c \in Channels : late[c] <= Since(n)

\* A cycle that refreshes, and failsafe_all(), leave no channel out.
Trying ==
  unit = "loop" /\ (pc = "full" \/ (pc = "apply" /\ n % Refresh = 0))
    => \A c \in Channels \ todo : c \in tried

Filling ==
  /\ unit = "loop" /\ pc = "apply" => \A c \in Channels : mode[c] # "SENSORFEHLER"
  /\ unit = "loop" /\ pc = "full" => \A c \in Channels \ todo : out[c] = FullDuty \/ c \in astray
  /\ SensorFaultIsFull

\* The daemon never believes a channel to be below what it runs on.
Believing ==
  unit \in {"start", "loop"} => \A c \in Channels : out[c] <= cur[c] \/ c \in astray

Lowering ==
  unit = "loop" /\ pc = "apply" /\ n # 0 =>
    \A c \in todo : mode[c] = "auto" => want[c] >= cur[c] - StepDown

Stopping ==
  /\ unit = "post" => \A c \in Channels \ todo : out[c] = StopValue(c) \/ c \in astray
  /\ StoppedSafe

IInv ==
  /\ TypeOK /\ Counting /\ Starting /\ Waiting /\ Trying /\ Filling /\ Believing
  /\ Lowering /\ Stopping

-----------------------------------------------------------------------------
(* The pure parts.                                                         *)

\* What the assumption says of numbers.
LEMMA Widths ==
  /\ StepUp \in Int /\ StepUp > 0 /\ StepDown \in Int /\ StepDown > 0
  /\ StallCycles \in Int /\ StallCycles > 0 /\ HddStopPwm \in 0..FullDuty
  /\ Refresh \in Nat /\ Refresh > 0 /\ Resolve \in Nat /\ Resolve > 0 /\ Resolve % Refresh = 0
  /\ FullDuty = 255 /\ Channels \subseteq 1..3
  BY FandAssumption DEF FullDuty

\* The loops over the channels visit one of those that are left.
LEMMA NextOne ==
  ASSUME NEW S, S \subseteq 1..3, S # {}
  PROVE  Next1(S) \in S
  <1>1. \E c \in S : \A x \in S : c <= x
    <2>1. CASE 1 \in S
      BY <2>1
    <2>2. CASE 1 \notin S /\ 2 \in S
      BY <2>2
    <2>3. CASE 1 \notin S /\ 2 \notin S
      <3>1. \A x \in S : x = 3
        BY <2>3
      <3>2. PICK x \in S : x = 3
        BY <3>1
      <3>3. \A y \in S : x <= y
        BY <3>1, <3>2
      <3>4. QED
        BY <3>3
    <2>4. QED
      BY <2>1, <2>2, <2>3
  <1>2. QED
    BY <1>1 DEF Next1

\* A share y * (x / z), rounded down.
LEMMA ShareInRange ==
  ASSUME NEW x \in Int, NEW y \in Int, NEW z \in Int, 0 < x, x < z, 0 <= y
  PROVE  (x * y) \div z \in 0..y
  <1> DEFINE p == x * y
  <1>1. p \in Int /\ 0 <= p /\ p <= z * y
    BY SMT
  <1>2. p \div z \in Int /\ 0 <= p \div z
    <2> HIDE DEF p
    <2> QED BY <1>1, SMT
  <1>3. p \div z <= y
    <2> HIDE DEF p
    <2> QED BY <1>1, SMT
  <1>4. QED
    BY <1>2, <1>3

\* The curve stays between its two ends.
LEMMA CurveInRange ==
  ASSUME NEW c \in Channels, NEW t \in Int
  PROVE  curve(c, t) \in Duties
  <1> DEFINE k == Conf[c]
             a == t - k.tmin
             b == k.pmax - k.pmin
             d == k.tmax - k.tmin
  <1>1. /\ k.tmin \in Int /\ k.tmax \in Int /\ k.pmin \in 0..255 /\ k.pmax \in k.pmin..255
        /\ k.tmin < k.tmax
    BY FandAssumption DEF FullDuty
  <1>2. CASE t <= k.tmin \/ t >= k.tmax
    BY <1>1, <1>2 DEF curve, Duties, FullDuty
  <1>3. CASE ~(t <= k.tmin \/ t >= k.tmax)
    <2>1. a \in Int /\ b \in Int /\ d \in Int /\ 0 < a /\ a < d /\ 0 <= b
      BY <1>1, <1>3
    <2>3. (a * b) \div d \in 0..b
      <3> HIDE DEF a, b, d
      <3>1. QED
        BY <2>1, ShareInRange
    <2>4. \E q \in 0..b : curve(c, t) = k.pmin + q
      BY <1>3, <2>3 DEF curve
    <2>5. PICK q \in 0..b : curve(c, t) = k.pmin + q
      BY <2>4
    <2>6. k.pmin + q \in 0..255
      <3>1. k.pmin \in Int /\ 0 <= k.pmin /\ k.pmax \in Int /\ k.pmax <= 255 /\ q \in 0..(k.pmax - k.pmin)
        BY <1>1
      <3>2. \A u, v, w \in Int : 0 <= u /\ v <= 255 /\ 0 <= w /\ w <= v - u => u + w \in 0..255
        OBVIOUS
      <3>3. q \in Int /\ 0 <= q /\ q <= k.pmax - k.pmin
        BY <3>1
      <3>4. QED
        BY <3>1, <3>2, <3>3
    <2>7. QED
      BY <2>5, <2>6 DEF Duties, FullDuty
  <1>4. QED
    BY <1>2, <1>3

\* A step of the slew limit lies between where it starts and where it goes.
LEMMA SlewBounds ==
  ASSUME NEW x \in Duties, NEW y \in Duties
  PROVE  slew(x, y) \in Duties /\ slew(x, y) >= x - StepDown
  BY Widths DEF slew, Duties

LEMMA WantedBounds ==
  ASSUME TypeOK, NEW c \in Channels, NEW t \in Int, NEW r
  PROVE  /\ Wanted(c, t, r) \in Duties /\ CurAt(c, t) \in Duties
         /\ ~StallNow(c, t, r) /\ ModeOf(c, t) = "auto" =>
              CurAt(c, t) = cur[c] /\ (n # 0 => Wanted(c, t, r) >= cur[c] - StepDown)
  <1>1. cur[c] \in Duties /\ over[c] \in Duties \cup {-1} /\ FullDuty \in Duties
    BY DEF TypeOK, Duties, FullDuty
  <1>2. Target(c, t) \in Duties /\ CurAt(c, t) \in Duties
    BY <1>1, CurveInRange DEF Target, CurAt
  <1>3. CASE StallNow(c, t, r)
    BY <1>1, <1>2, <1>3 DEF Wanted
  <1>4. CASE ~StallNow(c, t, r)
    <2>1. Wanted(c, t, r) = IF n = 0 \/ ModeOf(c, t) # "auto" THEN Target(c, t)
                            ELSE slew(CurAt(c, t), Target(c, t))
      BY <1>4 DEF Wanted, StallNow
    <2>2. ModeOf(c, t) = "auto" => CurAt(c, t) = cur[c]
      BY DEF ModeOf, CurAt
    <2>3. QED
      BY <1>2, <2>1, <2>2, SlewBounds
  <1>5. QED
    BY <1>3, <1>4

LEMMA RemainderOf ==
  ASSUME NEW q \in Int, NEW r \in Int, NEW z \in Int, z > 0, 0 <= r, r < z
  PROVE  (z * q + r) % z = r
  BY SMT

LEMMA RemainderNext ==
  ASSUME NEW k \in Nat, NEW z \in Nat, z > 0
  PROVE  (k + 1) % z = IF k % z = z - 1 THEN 0 ELSE (k % z) + 1
  <1> DEFINE q == k \div z
             r == k % z
  <1>1. q \in Int /\ r \in Int /\ 0 <= r /\ r < z /\ k = z * q + r
    BY SMT
  <1>2. CASE r = z - 1
    <2>1. k + 1 = z * (q + 1) + 0
      <3> HIDE DEF q, r
      <3> QED BY <1>1, <1>2, SMT
    <2>2. q + 1 \in Int
      BY <1>1
    <2>3. (z * (q + 1) + 0) % z = 0
      <3> HIDE DEF q, r
      <3> QED BY <2>2, RemainderOf
    <2>4. QED
      BY <1>2, <2>1, <2>3
  <1>3. CASE r # z - 1
    <2>1. k + 1 = z * q + (r + 1) /\ r + 1 \in Int /\ 0 <= r + 1 /\ r + 1 < z
      <3> HIDE DEF q, r
      <3> QED BY <1>1, <1>3, SMT
    <2>2. (z * q + (r + 1)) % z = r + 1
      <3> HIDE DEF q, r
      <3> QED BY <1>1, <2>1, RemainderOf
    <2>3. (k + 1) % z = r + 1
      BY <2>1, <2>2
    <2>4. QED
      BY <1>3, <2>3
  <1>4. QED
    BY <1>2, <1>3

\* Counting on modulo the refresh period.
LEMMA SinceNext ==
  ASSUME NEW k \in Nat
  PROVE  /\ Since(k) \in Nat /\ Since(k) < Refresh
         /\ k % Refresh # 0 => Since(k + 1) = Since(k) + 1
  <1>1. Refresh \in Nat /\ Refresh > 0
    BY Widths
  <1>2. k % Refresh \in 0..(Refresh - 1)
    BY <1>1
  <1>3. (k + 1) % Refresh = IF k % Refresh = Refresh - 1 THEN 0 ELSE (k % Refresh) + 1
    BY <1>1, RemainderNext
  <1>4. QED
    BY <1>1, <1>2, <1>3 DEF Since

-----------------------------------------------------------------------------
(* Types.                                                                  *)

\* A write changes its own channel only; one that fails leaves it astray.
LEMMA WriteEffect ==
  ASSUME TypeOK, NEW c \in Channels, NEW v \in Duties \cup {EcAuto}, NEW u,
         WriteOk(c, v) \/ WriteFails(c, v, u)
  PROVE  /\ out' \in [Channels -> Duties \cup {EcAuto}] /\ astray' \subseteq Channels
         /\ \A x \in Channels \ {c} : out'[x] = out[x] /\ (x \in astray' <=> x \in astray)
         /\ (out'[c] = v /\ c \notin astray') \/ c \in astray'
  <1>1. out \in [Channels -> Duties \cup {EcAuto}] /\ astray \subseteq Channels
    BY DEF TypeOK
  <1>2. FullDuty \in Duties
    BY DEF FullDuty, Duties
  <1>3. CASE WriteOk(c, v)
    BY <1>1, <1>3 DEF WriteOk
  <1>4. CASE WriteFails(c, v, u)
    <2>1. astray' = astray \cup {c} /\ (out' = out \/ \E d \in Duties \cup {EcAuto} : out' = [out EXCEPT ![c] = d])
      BY <1>2, <1>4 DEF WriteFails
    <2>2. QED
      BY <1>1, <2>1
  <1>5. QED
    BY <1>3, <1>4

LEMMA NextTodo ==
  ASSUME TypeOK, todo # {}
  PROVE  Next1(todo) \in todo /\ Next1(todo) \in Channels
  BY NextOne, Widths DEF TypeOK

LEMMA StopDuty ==
  ASSUME NEW c \in Channels
  PROVE  StopValue(c) \in Duties \cup {EcAuto}
  BY Widths DEF StopValue, Duties

LEMMA CycleEnds ==
  ASSUME TypeOK, EndCycle
  PROVE  /\ pc' = "sleep" /\ n' \in 0..Resolve /\ late' \in [Channels -> Nat]
         /\ n' = IF n = Resolve THEN 1 ELSE n + 1
         /\ \A c \in Channels : late'[c] = late[c] + 1 \/ late'[c] = 0
         /\ \A c \in Channels : c \in tried => late'[c] = 0
  BY Widths DEF EndCycle, TypeOK

LEMMA SenseType ==
  ASSUME TypeOK, Counting, NEW t \in [Channels -> Temps], NEW r \in [Channels -> Rpms], Sense(t, r)
  PROVE  TypeOK' /\ Counting'
  <1>1. Temps \subseteq Int /\ Rpms \subseteq Int
    BY FandAssumption
  <1>2. want' \in [Channels -> Duties] /\ cur' \in [Channels -> Duties]
    <2>1. \A c \in Channels : Wanted(c, t[c], r[c]) \in Duties /\ CurAt(c, t[c]) \in Duties
      BY <1>1, WantedBounds
    <2>2. FullDuty \in Duties
      BY DEF FullDuty, Duties
    <2>3. QED
      BY <2>1, <2>2 DEF Sense
  <1>3. mode' \in [Channels -> {"auto", "manuell", "SENSORFEHLER"} \cup Emergency]
    BY DEF Sense, ModeOf, Emergency
  <1>4. /\ stalled' \in [Channels -> BOOLEAN] /\ stallcnt' \in [Channels -> 0..StallCycles]
        /\ Counting'
    <2>1. \A c \in Channels : stalled[c] \in BOOLEAN /\ stallcnt[c] \in 0..StallCycles
                              /\ (~stalled[c] => stallcnt[c] < StallCycles)
      BY DEF TypeOK, Counting
    <2>2. stalled' \in [Channels -> BOOLEAN]
      BY <2>1 DEF Sense, StallNow, StallBegins, Recovers, Stands
    <2>3. ASSUME NEW c \in Channels
          PROVE  stallcnt'[c] \in 0..StallCycles /\ (~stalled'[c] => stallcnt'[c] < StallCycles)
      <3>1. /\ stallcnt'[c] = IF stalled[c] THEN (IF Recovers(c, r[c]) THEN 0 ELSE stallcnt[c])
                              ELSE IF Stands(c, t[c], r[c]) THEN stallcnt[c] + 1 ELSE 0
            /\ stalled'[c] = (StallNow(c, t[c], r[c]) /\ ~Recovers(c, r[c]))
        BY DEF Sense
      <3>2. CASE stalled[c]
        BY <2>1, <3>1, <3>2, Widths DEF StallNow
      <3>3. CASE ~stalled[c]
        <4>1. stalled'[c] <=> Stands(c, t[c], r[c]) /\ stallcnt[c] + 1 >= StallCycles
          BY <3>1, <3>3 DEF StallNow, StallBegins, Recovers
        <4>2. stallcnt'[c] = IF Stands(c, t[c], r[c]) THEN stallcnt[c] + 1 ELSE 0
          BY <3>1, <3>3
        <4>3. stallcnt[c] \in Int /\ 0 <= stallcnt[c] /\ stallcnt[c] < StallCycles
          BY <2>1, <3>3, Widths
        <4>4. QED
          BY <4>1, <4>2, <4>3, Widths
      <3>4. QED
        BY <3>2, <3>3
    <2>4. stallcnt' \in [Channels -> 0..StallCycles]
      BY <2>3 DEF Sense
    <2>5. QED
      BY <2>2, <2>3, <2>4 DEF Counting
  <1>5. recov' \in [Channels -> 0..2]
    <2>1. \A c \in Channels : recov[c] \in 0..2
      BY DEF TypeOK
    <2>2. QED
      BY <2>1 DEF Sense, Recovers
  <1>6. QED
    BY <1>2, <1>3, <1>4, <1>5 DEF Sense, TypeOK, PeriodicResolve, hw

LEMMA TypeStep == TypeOK /\ Counting /\ [Next]_vars => TypeOK' /\ Counting'
  <1> SUFFICES ASSUME TypeOK, Counting, [Next]_vars PROVE TypeOK' /\ Counting'
    OBVIOUS
  <1> USE DEF hw, calc, hist
  <1>1. CASE UNCHANGED vars
    BY <1>1 DEF vars, TypeOK, Counting
  <1>2. CASE StartUnit
    <2>1. /\ cur' \in [Channels -> Duties] /\ want' \in [Channels -> Duties]
          /\ stallcnt' \in [Channels -> 0..StallCycles] /\ recov' \in [Channels -> 0..2]
          /\ late' \in [Channels -> Nat] /\ n' \in 0..Resolve /\ wrerr' \in 0..WrerrSeen
      BY <1>2, Widths DEF StartUnit, Fresh, Duties, WrerrSeen
    <2>2. Counting' /\ stalled' \in [Channels -> BOOLEAN]
      BY <1>2, Widths DEF StartUnit, Fresh, Counting
    <2>3. here' \in Hwmons \cup {NoFan}
      BY <1>2 DEF StartUnit, Modprobe, TypeOK
    <2>4. QED
      BY <1>2, <2>1, <2>2, <2>3 DEF StartUnit, Fresh, TypeOK
  <1>3. CASE StartLoop
    BY <1>3 DEF StartLoop, Modprobe, TypeOK, Counting
  <1>4. CASE Term \/ Kill
    BY <1>4 DEF Term, Kill, TypeOK, Counting
  <1>5. CASE StopNext
    <2>1. out' \in [Channels -> Duties \cup {EcAuto}] /\ astray' \subseteq Channels
      BY <1>5, NextTodo, StopDuty, WriteEffect DEF StopNext
    <2>2. QED
      BY <1>5, <2>1 DEF StopNext, TypeOK, Counting
  <1>6. CASE StopEnds
    BY <1>6 DEF StopEnds, TypeOK, Counting
  <1>7. CASE SensorFault
    BY <1>7 DEF SensorFault, Modprobe, TypeOK, Counting
  <1>8. ASSUME NEW t \in [Channels -> Temps], NEW r \in [Channels -> Rpms], Sense(t, r)
        PROVE  TypeOK' /\ Counting'
    BY <1>8, SenseType
  <1>9. CASE ApplyNext
    <2>1. Next1(todo) \in Channels /\ want[Next1(todo)] \in Duties
      BY <1>9, NextTodo DEF ApplyNext, TypeOK
    <2>2. out' \in [Channels -> Duties \cup {EcAuto}] /\ astray' \subseteq Channels
      BY <1>9, <2>1, WriteEffect DEF ApplyNext, TypeOK
    <2>3. QED
      BY <1>9, <2>1, <2>2 DEF ApplyNext, TypeOK, Counting
  <1>10. CASE EndApply
    BY <1>10, CycleEnds DEF EndApply, Modprobe, WrerrSeen, TypeOK, Counting
  <1>11. CASE FullNext
    <2>1. Next1(todo) \in Channels /\ FullDuty \in Duties
      BY <1>11, NextTodo DEF FullNext, Duties, FullDuty
    <2>2. out' \in [Channels -> Duties \cup {EcAuto}] /\ astray' \subseteq Channels
      BY <1>11, <2>1, WriteEffect DEF FullNext, TypeOK
    <2>3. QED
      BY <1>11, <2>1, <2>2 DEF FullNext, TypeOK, Counting
  <1>12. CASE FullEnds \/ WakeUp
    BY <1>12, CycleEnds DEF FullEnds, WakeUp, TypeOK, Counting
  <1>13. ASSUME NEW c \in Channels, NEW v \in Overrides \cup {EcAuto}, ForeignWrite(c, v)
         PROVE  TypeOK' /\ Counting'
    BY <1>13, FandAssumption DEF ForeignWrite, TypeOK, Counting, Duties
  <1>14. CASE UnloadModule \/ LoadModule
    BY <1>14 DEF UnloadModule, LoadModule, TypeOK, Counting
  <1>15. ASSUME NEW c \in Channels, NEW v \in Overrides \cup {-1}, SetOverride(c, v)
         PROVE  TypeOK' /\ Counting'
    BY <1>15, FandAssumption DEF SetOverride, TypeOK, Counting, Duties
  <1>16. QED
    BY <1>1, <1>2, <1>3, <1>4, <1>5, <1>6, <1>7, <1>8, <1>9, <1>10, <1>11, <1>12, <1>13, <1>14, <1>15
    DEF Next, Cycle

-----------------------------------------------------------------------------
(* An emergency waits for the next refresh only.                           *)

LEMMA StartingStep == Starting /\ [Next]_vars => Starting'
  <1> SUFFICES ASSUME Starting, [Next]_vars PROVE Starting'
    OBVIOUS
  <1> USE DEF Starting, hw, calc, hist
  <1>1. CASE UNCHANGED vars
    BY <1>1 DEF vars
  <1>2. CASE StartUnit \/ StartLoop \/ Term \/ Kill \/ StopNext \/ StopEnds
    BY <1>2 DEF StartUnit, Fresh, StartLoop, Term, Kill, StopNext, StopEnds
  <1>3. CASE Cycle
    BY <1>3 DEF Cycle, SensorFault, Sense, ApplyNext, EndApply, FullNext, FullEnds, WakeUp
  <1>4. CASE \/ \E c \in Channels, v \in Overrides \cup {EcAuto} : ForeignWrite(c, v)
             \/ UnloadModule \/ LoadModule
             \/ \E c \in Channels, v \in Overrides \cup {-1} : SetOverride(c, v)
    BY <1>4 DEF ForeignWrite, UnloadModule, LoadModule, SetOverride
  <1>5. QED
    BY <1>1, <1>2, <1>3, <1>4 DEF Next

LEMMA TryingStep == TypeOK /\ Starting /\ Trying /\ [Next]_vars => Trying'
  <1> SUFFICES ASSUME TypeOK, Starting, Trying, [Next]_vars PROVE Trying'
    OBVIOUS
  <1> USE DEF hw, calc, hist
  <1>1. CASE UNCHANGED vars
    BY <1>1 DEF vars, Trying
  <1>2. CASE StartUnit \/ StartLoop \/ Term \/ Kill \/ StopNext \/ StopEnds
    BY <1>2 DEF StartUnit, StartLoop, Starting, Term, Kill, StopNext, StopEnds, Trying
  <1>3. CASE SensorFault \/ (\E t \in [Channels -> Temps], r \in [Channels -> Rpms] : Sense(t, r))
    BY <1>3 DEF SensorFault, Sense, Trying
  <1>4. CASE ApplyNext
    <2>1. Next1(todo) \in todo /\ unit = "loop" /\ pc = "apply" /\ UNCHANGED <<unit, pc, n>>
          /\ todo' = todo \ {Next1(todo)}
      BY <1>4, NextTodo DEF ApplyNext
    <2>2. n % Refresh = 0 => tried' = tried \cup {Next1(todo)}
      BY <1>4 DEF ApplyNext, Due
    <2>3. QED
      BY <2>1, <2>2 DEF Trying
  <1>5. CASE FullNext
    <2>1. Next1(todo) \in todo /\ Next1(todo) \in Channels /\ unit = "loop" /\ pc = "full"
          /\ UNCHANGED <<unit, pc, n>> /\ todo' = todo \ {Next1(todo)}
      BY <1>5, NextTodo DEF FullNext
    <2>2. tried' = tried \cup {Next1(todo)}
      BY <1>5, <2>1 DEF FullNext, FullNeeded
    <2>3. QED
      BY <2>1, <2>2 DEF Trying
  <1>6. CASE EndApply \/ FullEnds \/ WakeUp
    BY <1>6 DEF EndApply, FullEnds, WakeUp, EndCycle, Trying
  <1>7. CASE \/ \E c \in Channels, v \in Overrides \cup {EcAuto} : ForeignWrite(c, v)
             \/ UnloadModule \/ LoadModule
             \/ \E c \in Channels, v \in Overrides \cup {-1} : SetOverride(c, v)
    BY <1>7 DEF ForeignWrite, UnloadModule, LoadModule, SetOverride, Trying
  <1>8. QED
    BY <1>1, <1>2, <1>3, <1>4, <1>5, <1>6, <1>7 DEF Next, Cycle

\* The end of a cycle in which every channel was written, or that only waits.
LEMMA WaitingAtEnd ==
  ASSUME TypeOK, Waiting, EndCycle, n % Refresh = 0 => Channels \subseteq tried
  PROVE  Waiting'
  <1>1. n \in Nat /\ n' \in Nat /\ Since(n') \in Nat /\ n' = IF n = Resolve THEN 1 ELSE n + 1
    BY CycleEnds, SinceNext, Widths DEF TypeOK
  <1>2. CASE n % Refresh = 0
    BY <1>1, <1>2, CycleEnds DEF Waiting, Since
  <1>3. CASE n % Refresh # 0
    <2>1. Since(n') = Since(n) + 1 /\ Since(n) \in Nat
      BY <1>1, <1>3, SinceNext, Widths
    <2>2. \A c \in Channels : late[c] \in Nat /\ (late'[c] = late[c] + 1 \/ late'[c] = 0)
      BY CycleEnds DEF TypeOK
    <2>3. \A c \in Channels : late'[c] <= Since(n')
      BY <2>1, <2>2 DEF Waiting
    <2>4. QED
      BY <2>3 DEF Waiting, Since
  <1>4. QED
    BY <1>2, <1>3

LEMMA WaitingStep == TypeOK /\ Trying /\ Waiting /\ [Next]_vars => Waiting'
  <1> SUFFICES ASSUME TypeOK, Trying, Waiting, [Next]_vars PROVE Waiting'
    OBVIOUS
  <1> USE DEF hw, calc, hist
  <1>1. CASE UNCHANGED vars
    BY <1>1 DEF vars, Waiting, Since
  <1>2. CASE StartUnit
    <2>1. n' = 0 /\ \A c \in Channels : late'[c] = 0
      BY <1>2 DEF StartUnit, Fresh
    <2>2. Since(0) \in Nat
      BY SinceNext
    <2>3. QED
      BY <2>1, <2>2 DEF Waiting, Since
  <1>3. CASE StartLoop \/ Term \/ Kill \/ StopNext \/ StopEnds
    BY <1>3 DEF StartLoop, Term, Kill, StopNext, StopEnds, Waiting, Since
  <1>4. CASE SensorFault \/ (\E t \in [Channels -> Temps], r \in [Channels -> Rpms] : Sense(t, r))
             \/ ApplyNext \/ FullNext \/ WakeUp
    BY <1>4 DEF SensorFault, Sense, ApplyNext, FullNext, WakeUp, Waiting, Since
  <1>5. CASE EndApply
    <2>1. EndCycle \/ UNCHANGED <<n, late>>
      BY <1>5 DEF EndApply
    <2>2. n % Refresh = 0 => Channels \subseteq tried
      BY <1>5 DEF EndApply, Trying
    <2>3. QED
      BY <2>1, <2>2, WaitingAtEnd DEF Waiting, Since
  <1>6. CASE FullEnds
    BY <1>6, WaitingAtEnd DEF FullEnds, Trying
  <1>7. CASE \/ \E c \in Channels, v \in Overrides \cup {EcAuto} : ForeignWrite(c, v)
             \/ UnloadModule \/ LoadModule
             \/ \E c \in Channels, v \in Overrides \cup {-1} : SetOverride(c, v)
    BY <1>7 DEF ForeignWrite, UnloadModule, LoadModule, SetOverride, Waiting, Since
  <1>8. QED
    BY <1>1, <1>2, <1>3, <1>4, <1>5, <1>6, <1>7 DEF Next, Cycle

-----------------------------------------------------------------------------
(* Sensor faults and the end of the daemon.                                *)

LEMMA FillingStep == TypeOK /\ Starting /\ Filling /\ [Next]_vars => Filling'
  <1> SUFFICES ASSUME TypeOK, Starting, Filling, [Next]_vars PROVE Filling'
    OBVIOUS
  <1> USE DEF Filling, SensorFaultIsFull, CycleOver, hw, calc, hist
  <1>1. CASE UNCHANGED vars
    BY <1>1 DEF vars
  <1>2. CASE StartUnit \/ StartLoop \/ Term \/ Kill \/ StopNext \/ StopEnds
    BY <1>2 DEF StartUnit, StartLoop, Starting, Term, Kill, StopNext, StopEnds
  <1>3. CASE SensorFault \/ WakeUp
    BY <1>3 DEF SensorFault, WakeUp
  <1>4. ASSUME NEW t \in [Channels -> Temps], NEW r \in [Channels -> Rpms], Sense(t, r)
        PROVE  Filling'
    <2>1. \A c \in Channels : mode'[c] # "SENSORFEHLER"
      BY <1>4 DEF Sense, ModeOf
    <2>2. QED
      BY <1>4, <2>1 DEF Sense
  <1>5. CASE ApplyNext
    BY <1>5 DEF ApplyNext
  <1>6. CASE EndApply
    BY <1>6 DEF EndApply, EndCycle
  <1>7. CASE FullNext
    <2> DEFINE c == Next1(todo)
    <2>1. c \in todo /\ c \in Channels /\ unit' = "loop" /\ unit = "loop" /\ pc = "full" /\ pc' = "full"
          /\ todo' = todo \ {c}
      BY <1>7, NextTodo DEF FullNext
    <2>2. WriteOk(c, FullDuty) \/ WriteFails(c, FullDuty, Usable)
      BY <1>7, <2>1 DEF FullNext, FullNeeded
    <2>3. FullDuty \in Duties
      BY DEF FullDuty, Duties
    <2>4. /\ \A x \in Channels \ {c} : out'[x] = out[x] /\ (x \in astray' <=> x \in astray)
          /\ out'[c] = FullDuty \/ c \in astray'
      <3> HIDE DEF c
      <3> QED BY <2>1, <2>2, <2>3, WriteEffect
    <2>5. QED
      <3> HIDE DEF c
      <3> QED BY <2>1, <2>4
  <1>8. CASE FullEnds
    BY <1>8 DEF FullEnds, EndCycle
  <1>9. ASSUME NEW c \in Channels, NEW v \in Overrides \cup {EcAuto}, ForeignWrite(c, v)
        PROVE  Filling'
    BY <1>9 DEF ForeignWrite, TypeOK
  <1>10. CASE \/ UnloadModule \/ LoadModule
              \/ \E c \in Channels, v \in Overrides \cup {-1} : SetOverride(c, v)
    BY <1>10 DEF UnloadModule, LoadModule, SetOverride
  <1>11. QED
    BY <1>1, <1>2, <1>3, <1>4, <1>5, <1>6, <1>7, <1>8, <1>9, <1>10 DEF Next, Cycle

LEMMA StoppingStep == TypeOK /\ Stopping /\ [Next]_vars => Stopping'
  <1> SUFFICES ASSUME TypeOK, Stopping, [Next]_vars PROVE Stopping'
    OBVIOUS
  <1> USE DEF Stopping, StoppedSafe, StopValue, hw, calc, hist
  <1>1. CASE UNCHANGED vars
    BY <1>1 DEF vars
  <1>2. CASE StartUnit \/ StartLoop \/ Term \/ Kill \/ StopEnds
    BY <1>2 DEF StartUnit, StartLoop, Term, Kill, StopEnds
  <1>3. CASE StopNext
    <2> DEFINE c == Next1(todo)
    <2>1. c \in todo /\ c \in Channels /\ unit \in {"stop", "post"} /\ unit' = unit /\ todo' = todo \ {c}
      BY <1>3, NextTodo DEF StopNext
    <2>2. \E u : WriteOk(c, StopValue(c)) \/ WriteFails(c, StopValue(c), u)
      BY <1>3 DEF StopNext
    <2>3. StopValue(c) \in Duties \cup {EcAuto}
      BY <2>1, StopDuty
    <2>4. /\ \A x \in Channels \ {c} : out'[x] = out[x] /\ (x \in astray' <=> x \in astray)
          /\ out'[c] = StopValue(c) \/ c \in astray'
      <3> HIDE DEF c, StopValue
      <3> QED BY <2>1, <2>2, <2>3, WriteEffect
    <2>5. QED
      <3> HIDE DEF c, StopValue
      <3>1. \A x \in Channels \ todo' : x = c \/ x \in Channels \ todo
        BY <2>1
      <3>2. unit = "post" => \A x \in Channels \ todo' : out'[x] = StopValue(x) \/ x \in astray'
        BY <2>4, <3>1
      <3>3. QED
        BY <2>1, <3>2 DEF StopValue
  <1>4. CASE Cycle
    BY <1>4 DEF Cycle, SensorFault, Sense, ApplyNext, EndApply, FullNext, FullEnds, WakeUp
  <1>5. ASSUME NEW c \in Channels, NEW v \in Overrides \cup {EcAuto}, ForeignWrite(c, v)
        PROVE  Stopping'
    BY <1>5 DEF ForeignWrite, TypeOK
  <1>6. CASE \/ UnloadModule \/ LoadModule
             \/ \E c \in Channels, v \in Overrides \cup {-1} : SetOverride(c, v)
    BY <1>6 DEF UnloadModule, LoadModule, SetOverride
  <1>7. QED
    BY <1>1, <1>2, <1>3, <1>4, <1>5, <1>6 DEF Next

-----------------------------------------------------------------------------
(* The way down.                                                           *)

LEMMA BelievingStep == TypeOK /\ Believing /\ [Next]_vars => Believing'
  <1> SUFFICES ASSUME TypeOK, Believing, [Next]_vars PROVE Believing'
    OBVIOUS
  <1> USE DEF hw, calc, hist
  <1>0. \A c \in Channels : out[c] \in Int /\ out[c] <= 255 /\ cur[c] \in Int /\ cur[c] <= 255
    <2>1. \A x \in Duties \cup {EcAuto} : x \in Int /\ x <= 255
      BY DEF Duties, EcAuto, FullDuty
    <2>2. \A c \in Channels : out[c] \in Duties \cup {EcAuto} /\ cur[c] \in Duties
      BY DEF TypeOK
    <2>3. QED
      BY <2>1, <2>2
  <1>1. CASE UNCHANGED vars
    BY <1>1 DEF vars, Believing
  <1>2. CASE StartUnit
    <2>1. \A c \in Channels : out'[c] = out[c] /\ cur'[c] = 255
      BY <1>2 DEF StartUnit, Fresh, FullDuty
    <2>2. QED
      BY <1>0, <2>1 DEF Believing
  <1>3. CASE StartLoop \/ Term \/ Kill \/ StopNext \/ StopEnds
    BY <1>3 DEF StartLoop, Term, Kill, StopNext, StopEnds, Believing
  <1>4. CASE SensorFault \/ EndApply \/ FullEnds \/ WakeUp
    BY <1>4 DEF SensorFault, EndApply, EndCycle, FullEnds, WakeUp, Believing
  <1>5. ASSUME NEW t \in [Channels -> Temps], NEW r \in [Channels -> Rpms], Sense(t, r)
        PROVE  Believing'
    <2>1. \A c \in Channels : cur'[c] = cur[c] \/ cur'[c] = 255
      BY <1>5 DEF Sense, CurAt, FullDuty
    <2>2. QED
      BY <1>0, <1>5, <2>1 DEF Sense, Believing
  <1>6. CASE ApplyNext \/ FullNext
    <2> DEFINE c == Next1(todo)
               v == IF pc = "apply" THEN want[c] ELSE FullDuty
    <2>1. c \in Channels /\ v \in Duties /\ unit = "loop" /\ unit' = "loop"
      BY <1>6, NextTodo DEF ApplyNext, FullNext, TypeOK, Duties, FullDuty
    <2>2. \/ UNCHANGED <<out, cur, astray>>
          \/ WriteOk(c, v) /\ cur' = [cur EXCEPT ![c] = v]
          \/ WriteFails(c, v, Usable) /\ UNCHANGED cur
      BY <1>6 DEF ApplyNext, FullNext
    <2>3. CASE UNCHANGED <<out, cur, astray>>
      BY <2>1, <2>3 DEF Believing
    <2>4. CASE WriteOk(c, v) /\ cur' = [cur EXCEPT ![c] = v]
      <3> HIDE DEF c, v
      <3>1. \A x \in Channels \ {c} : out'[x] = out[x] /\ (x \in astray' <=> x \in astray)
                                      /\ cur'[x] = cur[x]
        BY <2>1, <2>4, WriteEffect DEF TypeOK
      <3>2. out'[c] = v /\ cur'[c] = v /\ v <= v
        BY <2>1, <2>4 DEF WriteOk, TypeOK, Duties, FullDuty
      <3>3. QED
        BY <2>1, <3>1, <3>2 DEF Believing
    <2>5. CASE WriteFails(c, v, Usable) /\ UNCHANGED cur
      <3> HIDE DEF c, v
      <3>1. /\ \A x \in Channels \ {c} : out'[x] = out[x] /\ (x \in astray' <=> x \in astray)
            /\ c \in astray'
        BY <2>1, <2>5, WriteEffect DEF WriteFails
      <3>2. QED
        BY <2>1, <2>5, <3>1 DEF Believing
    <2>6. QED
      BY <2>2, <2>3, <2>4, <2>5
  <1>7. ASSUME NEW c \in Channels, NEW v \in Overrides \cup {EcAuto}, ForeignWrite(c, v)
        PROVE  Believing'
    BY <1>7 DEF ForeignWrite, TypeOK, Believing
  <1>8. CASE \/ UnloadModule \/ LoadModule
             \/ \E c \in Channels, v \in Overrides \cup {-1} : SetOverride(c, v)
    BY <1>8 DEF UnloadModule, LoadModule, SetOverride, Believing
  <1>9. QED
    BY <1>1, <1>2, <1>3, <1>4, <1>5, <1>6, <1>7, <1>8 DEF Next, Cycle

LEMMA LoweringStep == TypeOK /\ Starting /\ Lowering /\ [Next]_vars => Lowering'
  <1> SUFFICES ASSUME TypeOK, Starting, Lowering, [Next]_vars PROVE Lowering'
    OBVIOUS
  <1> USE DEF hw, calc, hist
  <1>1. CASE UNCHANGED vars
    BY <1>1 DEF vars, Lowering
  <1>2. CASE StartUnit \/ StartLoop \/ Term \/ Kill \/ StopNext \/ StopEnds
    BY <1>2 DEF StartUnit, StartLoop, Starting, Term, Kill, StopNext, StopEnds, Lowering
  <1>3. CASE SensorFault \/ EndApply \/ FullNext \/ FullEnds \/ WakeUp
    BY <1>3 DEF SensorFault, EndApply, EndCycle, FullNext, FullEnds, WakeUp, Lowering
  <1>4. ASSUME NEW t \in [Channels -> Temps], NEW r \in [Channels -> Rpms], Sense(t, r)
        PROVE  Lowering'
    <2>1. /\ todo' = Channels /\ n' = n
          /\ \A c \in Channels :
               /\ want'[c] = Wanted(c, t[c], r[c])
               /\ mode'[c] = "auto" => ~StallNow(c, t[c], r[c]) /\ ModeOf(c, t[c]) = "auto"
      BY <1>4 DEF Sense
    <2>2. \A c \in Channels : mode'[c] = "auto" => cur'[c] = CurAt(c, t[c])
      BY <1>4, <2>1 DEF Sense, StallNow
    <2>3. \A c \in Channels : t[c] \in Int
      BY FandAssumption
    <2>4. \A c \in Channels : mode'[c] = "auto" /\ n # 0 => want'[c] >= cur'[c] - StepDown
      BY <2>1, <2>2, <2>3, WantedBounds
    <2>5. QED
      BY <2>1, <2>4 DEF Lowering
  <1>5. CASE ApplyNext
    <2>1. /\ todo' = todo \ {Next1(todo)} /\ UNCHANGED <<unit, pc, n, want, mode>>
          /\ cur' = cur \/ cur' = [cur EXCEPT ![Next1(todo)] = want[Next1(todo)]]
      BY <1>5 DEF ApplyNext
    <2>2. \A x \in todo' : x \in todo /\ cur'[x] = cur[x]
      BY <2>1 DEF TypeOK
    <2>3. QED
      BY <2>1, <2>2 DEF Lowering
  <1>6. CASE \/ \E c \in Channels, v \in Overrides \cup {EcAuto} : ForeignWrite(c, v)
             \/ UnloadModule \/ LoadModule
             \/ \E c \in Channels, v \in Overrides \cup {-1} : SetOverride(c, v)
    BY <1>6 DEF ForeignWrite, UnloadModule, LoadModule, SetOverride, Lowering
  <1>7. QED
    BY <1>1, <1>2, <1>3, <1>4, <1>5, <1>6 DEF Next, Cycle

-----------------------------------------------------------------------------
(* Theorems.                                                               *)

LEMMA InitInv == Init => IInv
  <1> SUFFICES ASSUME Init PROVE IInv
    OBVIOUS
  <1>1. TypeOK /\ Counting
    <2>1. /\ cur \in [Channels -> Duties] /\ want \in [Channels -> Duties]
          /\ out \in [Channels -> Duties \cup {EcAuto}] /\ over \in [Channels -> Duties \cup {-1}]
      BY DEF Init, Duties, FullDuty
    <2>2. /\ stallcnt \in [Channels -> 0..StallCycles] /\ recov \in [Channels -> 0..2]
          /\ late \in [Channels -> Nat] /\ n \in 0..Resolve /\ wrerr \in 0..WrerrSeen
      BY Widths DEF Init, WrerrSeen
    <2>3. Counting /\ stalled \in [Channels -> BOOLEAN]
      BY Widths DEF Init, Counting
    <2>4. QED
      BY <2>1, <2>2, <2>3 DEF Init, TypeOK, Hwmons
  <1>2. Starting /\ Trying /\ Believing /\ Lowering
    BY DEF Init, Starting, Trying, Believing, Lowering
  <1>3. Waiting
    <2>1. Since(0) \in Nat
      BY SinceNext
    <2>2. QED
      BY <2>1 DEF Init, Waiting
  <1>4. Filling /\ Stopping
    BY DEF Init, Filling, SensorFaultIsFull, CycleOver, Stopping, StoppedSafe
  <1>5. QED
    BY <1>1, <1>2, <1>3, <1>4 DEF IInv

\* The inductive invariant holds in every reachable state of n5-fand: its types
\* and counters, the phases of a cycle and of a stop, and what it believes of the
\* channels it owns.
THEOREM Invariance == Spec => []IInv
  <1>1. IInv /\ [Next]_vars => IInv'
    BY TypeStep, StartingStep, WaitingStep, TryingStep, FillingStep, BelievingStep, LoweringStep,
       StoppingStep DEF IInv
  <1>2. QED
    BY InitInv, <1>1, PTL DEF Spec

\* Duties stay in a register's range whatever the curves, the step widths and the
\* readings are, and the stall counters within what the loop compares them with.
THEOREM TypeCorrect == Spec => []TypeOK
  <1>1. IInv => TypeOK
    BY DEF IInv
  <1>2. QED
    BY Invariance, <1>1, PTL

\* A critical temperature or a standing fan is written at the next refresh at the
\* latest (n % 6), through reloads, foreign writers and restarts.
THEOREM EmergencyWaitsLessThanRefresh == Spec => []EmergencySoon
  <1>1. IInv => EmergencySoon
    <2> SUFFICES ASSUME IInv, NEW c \in Channels PROVE late[c] < Refresh
      BY DEF EmergencySoon
    <2>1. late[c] \in Nat /\ late[c] <= Since(n) /\ n \in Nat
      BY Widths DEF IInv, TypeOK, Waiting
    <2>2. Since(n) \in Nat /\ Since(n) < Refresh
      BY <2>1, SinceNext
    <2>3. QED
      BY <2>1, <2>2, Widths
  <1>2. QED
    BY Invariance, <1>1, PTL

\* failsafe_all() leaves no channel out, whatever CUR says of it.
THEOREM SensorFaultWritesAll == Spec => []SensorFaultIsFull
  <1>1. IInv => SensorFaultIsFull
    BY DEF IInv, Filling
  <1>2. QED
    BY Invariance, <1>1, PTL

\* However the daemon ends, the trap handler or the ExecStopPost hook has dealt
\* with every channel.
THEOREM StopIsSafe == Spec => []StoppedSafe
  <1>1. IInv => StoppedSafe
    BY DEF IInv, Stopping
  <1>2. QED
    BY Invariance, <1>1, PTL

\* slew() and the bookkeeping in CUR limit the way down of a channel on its curve
\* to STEP_DOWN per cycle, after an emergency as well.
THEOREM WayDownIsLimited == Spec => LowersSlowly
  <1> DEFINE Slow ==
        \A c \in Channels :
          unit = "loop" /\ n # 0 /\ mode[c] = "auto" /\ c \notin astray /\ c \notin astray'
            => out'[c] >= out[c] - StepDown
  <1>1. IInv /\ [Next]_vars => [Slow]_vars
    <2> SUFFICES ASSUME IInv, [Next]_vars, NEW c \in Channels, unit = "loop", n # 0,
                        mode[c] = "auto", c \notin astray, c \notin astray'
                 PROVE  out'[c] >= out[c] - StepDown
      OBVIOUS
    <2> USE DEF hw, calc, hist
    <2>1. /\ TypeOK /\ out[c] <= cur[c] /\ out[c] \in Int /\ cur[c] \in Int /\ out[c] <= 255
          /\ cur[c] \in Duties
      <3>1. \A x \in Duties \cup {EcAuto} : x \in Int /\ x <= 255
        BY DEF Duties, EcAuto, FullDuty
      <3>2. out[c] \in Duties \cup {EcAuto} /\ cur[c] \in Duties
        BY DEF IInv, TypeOK
      <3>3. QED
        BY <3>1, <3>2 DEF IInv, Believing
    <2>2. CASE out'[c] = out[c]
      BY <2>1, <2>2, Widths
    <2>3. CASE ApplyNext /\ out'[c] # out[c]
      <3> DEFINE d == Next1(todo)
      <3>1. d \in todo /\ d \in Channels /\ want[d] \in Duties /\ pc = "apply"
        BY <2>1, <2>3, NextTodo DEF ApplyNext, TypeOK
      <3>2. WriteOk(d, want[d]) \/ WriteFails(d, want[d], Usable)
        BY <2>3, <2>1 DEF ApplyNext
      <3>3. c = d /\ out'[c] = want[c]
        <4> HIDE DEF d
        <4> QED BY <2>1, <2>3, <3>1, <3>2, WriteEffect
      <3>4. want[c] >= cur[c] - StepDown
        <4> HIDE DEF d
        <4> QED BY <3>1, <3>3 DEF IInv, Lowering
      <3>5. want[c] \in Int
        BY <3>1, <3>3 DEF Duties, FullDuty
      <3>6. QED
        BY <2>1, <3>3, <3>4, <3>5, Widths
    <2>4. CASE FullNext /\ out'[c] # out[c]
      <3> DEFINE d == Next1(todo)
      <3>1. d \in Channels /\ FullDuty \in Duties
        BY <2>1, <2>4, NextTodo DEF FullNext, Duties, FullDuty
      <3>2. WriteOk(d, FullDuty) \/ WriteFails(d, FullDuty, Usable)
        BY <2>4 DEF FullNext
      <3>3. out'[c] = FullDuty
        <4> HIDE DEF d
        <4> QED BY <2>1, <2>4, <3>1, <3>2, WriteEffect
      <3>4. QED
        BY <2>1, <3>3, Widths
    <2>5. CASE UNCHANGED vars
      BY <2>2, <2>5 DEF vars
    <2>6. CASE StartUnit \/ StartLoop \/ Term \/ Kill \/ StopNext \/ StopEnds
      BY <2>2, <2>6 DEF StartUnit, StartLoop, Term, Kill, StopNext, StopEnds
    <2>7. CASE SensorFault \/ (\E t \in [Channels -> Temps], r \in [Channels -> Rpms] : Sense(t, r))
               \/ EndApply \/ FullEnds \/ WakeUp
      BY <2>2, <2>7 DEF SensorFault, Sense, EndApply, FullEnds, WakeUp
    <2>8. CASE \/ \E x \in Channels, v \in Overrides \cup {EcAuto} : ForeignWrite(x, v)
               \/ UnloadModule \/ LoadModule
               \/ \E x \in Channels, v \in Overrides \cup {-1} : SetOverride(x, v)
      BY <2>1, <2>2, <2>8 DEF ForeignWrite, UnloadModule, LoadModule, SetOverride, TypeOK
    <2>9. QED
      BY <2>2, <2>3, <2>4, <2>5, <2>6, <2>7, <2>8 DEF Next, Cycle
  <1>2. QED
    BY Invariance, <1>1, PTL DEF Spec, LowersSlowly
=============================================================================
