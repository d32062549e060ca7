--------------------------- MODULE N5RunnerProofs ---------------------------
(***************************************************************************)
(* Proofs about N5Runner, for holds of any length, any duties, sensors and *)
(* limits of odd samples: what may be sent to the EC, when a sensor counts *)
(* as lost, and that a hold that was not cut short was sampled to its end. *)
(***************************************************************************)
EXTENDS N5Runner, FiniteSetTheorems, WellFoundedInduction, TLAPS

-----------------------------------------------------------------------------
(* Numbers and finite sets.                                                *)

\* A set of numbers has a least one.
LEMMA LeastNumber ==
  ASSUME NEW S \in SUBSET Nat, S # {}
  PROVE  \E n \in S : \A m \in S : n <= m
<1>. DEFINE R == OpToRel(<, Nat)
<1>1. IsWellFoundedOn(R, Nat)
  BY NatLessThanWellFounded
<1>2. \A m, n \in S : m < n => <<m, n>> \in R
  BY DEF OpToRel
<1>. HIDE DEF R
<1>3. PICK n \in S : \A m \in S : <<m, n>> \notin R
  BY <1>1, WFMin
<1>4. \A m \in S : ~(m < n)
  BY <1>2, <1>3
<1>. QED
  BY <1>4

\* A set of numbers up to n is finite.
LEMMA UpTo ==
  ASSUME NEW n \in Nat, NEW T \in SUBSET (1..n)
  PROVE  IsFiniteSet(T) /\ Cardinality(T) \in 0..n
<1>1. IsFiniteSet(1..n) /\ Cardinality(1..n) = n
  BY FS_Interval
<1>2. IsFiniteSet(T) /\ Cardinality(T) <= Cardinality(1..n)
  BY <1>1, FS_Subset
<1>3. Cardinality(T) \in Nat
  BY <1>2, FS_CardinalityType
<1>. QED
  BY <1>1, <1>2, <1>3

\* A smaller set has fewer elements.
LEMMA Fewer ==
  ASSUME NEW n \in Nat, NEW T \in SUBSET (1..n), NEW U \in SUBSET T, U # T
  PROVE  Cardinality(U) < Cardinality(T)
<1>1. IsFiniteSet(T) /\ Cardinality(T) \in Nat
  BY UpTo
<1>2. Cardinality(U) \in Nat
  <2>1. U \in SUBSET (1..n)
    OBVIOUS
  <2>. QED
    BY <2>1, UpTo
<1>3. Cardinality(U) <= Cardinality(T) /\ (Cardinality(T) = Cardinality(U) => T = U)
  BY <1>1, FS_Subset
<1>. QED
  BY <1>1, <1>2, <1>3

\* The last of some numbers up to n.
LEMMA Greatest ==
  ASSUME NEW n \in Nat, NEW T \in SUBSET (1..n), T # {}
  PROVE  Max(T) \in T /\ \A i \in T : i <= Max(T)
<1>. DEFINE S == {m \in Nat : \A i \in T : i <= m}
<1>1. PICK m \in S : \A k \in S : m <= k
  <2>1. n \in S
    OBVIOUS
  <2>. QED
    BY <2>1, LeastNumber
<1>2. m \in T
  <2>1. SUFFICES ASSUME m \notin T
                 PROVE  FALSE
    OBVIOUS
  <2>2. m # 0
    <3>1. PICK i \in T : i \in 1..n
      OBVIOUS
    <3>. QED
      BY <1>1, <3>1
  <2>3. \A i \in T : i <= m - 1
    BY <1>1, <2>1
  <2>. QED
    BY <1>1, <2>2, <2>3
<1>3. \E x \in T : \A y \in T : x >= y
  BY <1>1, <1>2
<1>. QED
  BY <1>3 DEF Max

\* Some numbers in order: every place has one, the one with that many before it.
LEMMA InOrder ==
  ASSUME NEW n \in Nat, NEW P \in SUBSET (1..n)
  PROVE  /\ Cardinality(P) \in Nat
         /\ Ordered(P) \in [1..Cardinality(P) -> P]
         /\ \A i, j \in 1..Cardinality(P) : i < j => Ordered(P)[i] < Ordered(P)[j]
         /\ \A p \in P : \E k \in 1..Cardinality(P) : Ordered(P)[k] = p
<1>. DEFINE Below(i) == {j \in P : j < i}
            c(i) == Cardinality(Below(i))
            N == Cardinality(P)
            T(k) == {i \in P : c(i) < k}
<1>1. N \in Nat /\ IsFiniteSet(P)
  BY UpTo
<1>2. P \subseteq Nat /\ \A i \in P : i \in Int
  OBVIOUS
<1>. HIDE DEF c, N, T
<1>3. \A i \in P : c(i) \in Nat /\ IsFiniteSet(Below(i)) /\ c(i) < N
  <2>. TAKE i \in P
  <2>1. i \in P /\ i \notin Below(i) /\ Below(i) \subseteq P
    BY <1>2
  <2>. DEFINE U == Below(i)
  <2>. HIDE DEF Below
  <2>2. U \in SUBSET P /\ U \in SUBSET (1..n) /\ U # P
    BY <2>1
  <2>. HIDE DEF U
  <2>3. Cardinality(U) \in Nat /\ IsFiniteSet(U)
    BY <2>2, UpTo
  <2>4. Cardinality(U) < Cardinality(P)
    BY <2>2, Fewer
  <2>. HIDE DEF Below
  <2>. QED
    BY <2>3, <2>4 DEF c, N, U
<1>4. \A i, j \in P : i < j => c(i) < c(j)
  <2>1. SUFFICES ASSUME NEW i \in P, NEW j \in P, i < j
                 PROVE  c(i) < c(j)
    OBVIOUS
  <2>. DEFINE U == Below(i)
              V == Below(j)
  <2>2. \A x \in U : x \in V
    <3>1. TAKE x \in U
    <3>2. x \in P /\ x < i /\ x \in Int /\ i \in Int /\ j \in Int
      BY <1>2
    <3>3. x < j
      BY <2>1, <3>2
    <3>. QED
      BY <3>2, <3>3
  <2>3. i \in V /\ i \notin U
    BY <1>2, <2>1
  <2>4. \A x \in V : x \in P
    OBVIOUS
  <2>. HIDE DEF U, V
  <2>5. U \in SUBSET V /\ V \in SUBSET (1..n) /\ U # V
    BY <2>2, <2>3, <2>4
  <2>6. Cardinality(U) < Cardinality(V)
    BY <2>5, Fewer
  <2>. QED
    BY <2>6 DEF c, U, V
<1>5. \A i \in P : c(i) + 1 = N \/ \E q \in P : i < q /\ c(q) = c(i) + 1
  <2>1. TAKE i \in P
  <2>. DEFINE Q == {q \in P : i < q}
              M == Below(i) \cup {i}
  <2>2. i \notin Below(i)
    BY <1>2
  <2>3. Cardinality(M) = c(i) + 1
    <3>. HIDE DEF Below
    <3>. QED
      BY <1>3, <2>2, FS_AddElement DEF c
  <2>4. CASE Q = {}
    <3>1. \A x \in P : x \in M
      <4>1. TAKE x \in P
      <4>2. ~(i < x) /\ x \in Int /\ i \in Int
        BY <1>2, <2>4
      <4>3. x < i \/ x = i
        BY <4>2
      <4>. QED
        BY <4>3
    <3>2. \A x \in M : x \in P
      OBVIOUS
    <3>. HIDE DEF M, Below
    <3>3. P = M
      BY <3>1, <3>2
    <3>. QED
      BY <2>3, <3>3 DEF N
  <2>5. CASE Q # {}
    <3>1. Q \in SUBSET Nat /\ \A q \in Q : q \in P /\ i < q
      BY <1>2
    <3>2. PICK q \in Q : \A m \in Q : q <= m
      BY <2>5, <3>1, LeastNumber
    <3>3. q \in P /\ i < q /\ q \in Int /\ i \in Int
      BY <1>2, <3>2
    <3>4. \A x \in P : x < q <=> x < i \/ x = i
      <4>1. TAKE x \in P
      <4>2. x \in Int /\ (i < x => q <= x)
        BY <1>2, <3>2
      <4>. QED
        BY <3>3, <4>2
    <3>5. Below(q) = M
      BY <3>3, <3>4
    <3>. HIDE DEF M, Below
    <3>. QED
      BY <2>3, <3>3, <3>5 DEF c
  <2>. QED
    BY <2>4, <2>5
<1>. HIDE DEF Below
<1>6. \A k \in 1..N : T(k) # {}
  <2>1. TAKE k \in 1..N
  <2>2. P # {}
    <3>1. SUFFICES ASSUME P = {}
                   PROVE  FALSE
      OBVIOUS
    <3>2. N = 0
      BY <3>1, FS_EmptySet DEF N
    <3>. QED
      BY <3>2
  <2>3. PICK p \in P : \A m \in P : p <= m
    BY <1>2, <2>2, LeastNumber
  <2>4. \A m \in P : ~(m < p)
    BY <1>2, <2>3
  <2>5. Below(p) = {}
    BY <2>4 DEF Below
  <2>6. c(p) = 0
    BY <2>5, FS_EmptySet DEF c
  <2>. QED
    BY <2>6 DEF T
<1>7. \A k \in 1..N : Max(T(k)) \in P /\ c(Max(T(k))) = k - 1
  <2>1. TAKE k \in 1..N
  <2>2. T(k) \in SUBSET (1..n) /\ T(k) # {}
    BY <1>6 DEF T
  <2>3. Max(T(k)) \in T(k) /\ \A i \in T(k) : i <= Max(T(k))
    <3>. QED
      BY <2>2, Greatest
  <2>. DEFINE m == Max(T(k))
  <2>4. m \in P /\ c(m) < k /\ \A i \in P : c(i) < k => i <= m
    BY <2>3 DEF T
  <2>. HIDE DEF m
  <2>5. c(m) + 1 >= k
    <3>1. CASE c(m) + 1 = N
      BY <1>1, <3>1
    <3>2. CASE \E q \in P : m < q /\ c(q) = c(m) + 1
      BY <1>2, <1>3, <2>4, <3>2
    <3>. QED
      BY <1>5, <2>4, <3>1, <3>2
  <2>6. c(m) = k - 1
    BY <1>3, <2>4, <2>5
  <2>. QED
    BY <2>4, <2>6 DEF m
<1>8. Ordered(P) = [k \in 1..N |-> Max(T(k))]
  BY DEF Ordered, c, Below, T, N
<1>9. \A k \in 1..N : Ordered(P)[k] \in P /\ c(Ordered(P)[k]) = k - 1
  BY <1>7, <1>8
<1>10. \A i, j \in 1..N : i < j => Ordered(P)[i] < Ordered(P)[j]
  <2>1. SUFFICES ASSUME NEW i \in 1..N, NEW j \in 1..N, i < j
                 PROVE  Ordered(P)[i] < Ordered(P)[j]
    OBVIOUS
  <2>. DEFINE a == Ordered(P)[i]
              b == Ordered(P)[j]
  <2>2. a \in P /\ b \in P /\ c(a) = i - 1 /\ c(b) = j - 1
    BY <1>9
  <2>. HIDE DEF a, b
  <2>3. a < b
    BY <1>1, <1>2, <1>4, <2>1, <2>2
  <2>. QED
    BY <2>3 DEF a, b
<1>11. \A p \in P : \E k \in 1..N : Ordered(P)[k] = p
  <2>1. TAKE p \in P
  <2>. DEFINE k == c(p) + 1
              q == Ordered(P)[k]
  <2>2. k \in 1..N
    BY <1>1, <1>3 DEF N
  <2>3. q \in P /\ c(q) = c(p)
    BY <1>3, <1>9, <2>2
  <2>4. q = p
    <3>. HIDE DEF q, k
    <3>. QED
      BY <1>2, <1>3, <1>4, <2>3
  <2>. QED
    BY <2>2, <2>4
<1>12. Ordered(P) \in [1..N -> P]
  BY <1>8, <1>9
<1>. QED
  BY <1>1, <1>10, <1>11, <1>12 DEF N

-----------------------------------------------------------------------------
(* Types.                                                                  *)

Names == {"boot", "gate", "rest", "pre", "step", "hold", "log"}
Whats == {"", "H", "M"} \cup 100..255
Phases == Names \X Nat \X Whats
EventNames ==
  CommandTexts \cup {"T1 complete", "T2 complete", "T2 auto", "ABORT", "guardian",
                     "restore ok", "restore differs", "restore failed"}
Texts == EventNames \X Nat \X Whats

Steps ==
  {<<"manual">>, <<"auto">>, <<"value A">>, <<"decide">>}
  \cup ({"sample"} \X Phases) \cup ({"hold"} \X Phases \X (Nat \ {0}))
  \cup ({"write", "mark"} \X Texts)

Readouts == SUBSET OddKinds
Points == [t : Int, odd : Readouts]
Samples == [ph : Phases, ts : Int, odd : Readouts]
Events == [e : Texts, ts : Int]
GateValues == {"PASS", "FAIL", "FAIL?", "SKIPPED", "PARTIAL"}

TypeRun ==
  /\ test \in Tests /\ ch \in Channels /\ confirmed \in BOOLEAN /\ dcrOK \in BOOLEAN
  /\ pc \in {"confirm", "gates", "test", "close", "meta", "verdict", "sums", "end",
             "refused", "killed", "panic"}
  /\ cancel \in BOOLEAN
  /\ abort \in {"", "writer", "lost", "hot", "tach", "cancelled", "command"}
  /\ hot \in 0..3 /\ nan \in [Sensors -> Nat] /\ limits \in SUBSET Sensors
  /\ gates \in [Gates -> GateValues] /\ touched \in SUBSET (1..4) /\ aKnown \in BOOLEAN

TypeHold == plan \in Seq(Steps) /\ slot \in Nat /\ t0 \in Nat /\ now \in Nat

TypeData ==
  /\ DOMAIN coll \in SUBSET Phases /\ \A ph \in DOMAIN coll : coll[ph] \in Seq(Points)
  /\ subs \in Seq(Nat \X Whats)
  /\ samples \in Seq(Samples) /\ events \in Seq(Events)

TypeOK == TypeRun /\ TypeHold /\ TypeData

-----------------------------------------------------------------------------
(* The inductive invariant, in named parts.                                *)

\* The steps of a plan before the test, and of one of a test.
GateSteps(q) ==
  \A i \in DOMAIN q : /\ q[i][1] \in {"sample", "hold", "decide"}
                      /\ q[i][1] \in {"sample", "hold"} => q[i][2] \in {Boot, Gate}
TestSteps(q) == \A i \in DOMAIN q : q[i][1] \notin {"sample", "decide"}

\* Before the test: the gate window only, and no command.
Before ==
  pc \in {"confirm", "gates"} =>
    /\ limits = {} /\ nan = [s \in Sensors |-> 0] /\ abort # "lost"
    /\ \A i \in DOMAIN samples : ~IsTest(samples[i])
    /\ GateSteps(plan)
    /\ DOMAIN coll \subseteq {Boot, Gate}
    /\ subs = <<>> /\ ~aKnown /\ results = Inconclusive /\ touched = {}

\* At the gates: the confirmation of the command, the gates from before.
AtGates ==
  pc = "gates" =>
    /\ Writing => confirmed
    /\ \A g \in PreGates : gates[g] \in {"PASS", "FAIL"}

\* What a sample found ends the run, so that without an abort nothing was found.
NothingFound ==
  pc \in {"gates", "test"} /\ abort = "" => \A i \in DOMAIN samples : samples[i].odd \cap Ending = {}

\* While a test has something to do.
Started ==
  pc = "test" /\ plan # <<>> =>
    /\ abort = "" /\ confirmed /\ Writing /\ dcrOK /\ limits = Sensors
    /\ \A g \in Blocking : gates[g] = "PASS"
    /\ TestSteps(plan)
    /\ results = Inconclusive

\* The results before they are made from what was collected.
NoResult ==
  pc = "test" => results \in {Inconclusive, NotApplicable}

\* The count of a sensor: so many samples without its value, since its last one.
CountIsTrue ==
  pc \in {"gates", "test"} /\ abort = "" =>
    \A s \in Sensors :
      /\ nan[s] <= Len(samples)
      /\ \A j \in DOMAIN samples : j > Len(samples) - nan[s] => s \in samples[j].odd

\* Samples j to the last are of a test and without a value of sensor s.
MissedSince(s, j) == \A k \in DOMAIN samples : k >= j => s \in samples[k].odd /\ IsTest(samples[k])

\* And no fewer: samples of a test without the value are counted.
CountIsWhole ==
  pc = "test" /\ plan # <<>> =>
    \A s \in Sensors :
      /\ nan[s] < LostAfter
      /\ \A j \in DOMAIN samples : MissedSince(s, j) => Len(samples) - j + 1 <= nan[s]

\* No sensor was without a value for LostAfter samples of a test.
NoneLost ==
  pc = "test" /\ plan # <<>> =>
    \A i \in DOMAIN samples, s \in Sensors :
      i + LostAfter - 1 \in DOMAIN samples =>
        \E j \in i..i + LostAfter - 1 : s \notin samples[j].odd \/ ~IsTest(samples[j])

\* The plan of the test, and the step that is next.
Full == IF test = "map" THEN T1Plan ELSE T2Plan
At == Len(Full) - Len(plan) + 1
DeterminesA(k) == Full[k][1] = "value A"

\* The samples of a phase so far, in their order and before the next one.
Partly(ph, n) ==
  /\ \A i \in DOMAIN Got(ph) : Got(ph)[i].t < n
  /\ \A i \in DOMAIN Got(ph) : i > 1 => Got(ph)[i - 1].t < Got(ph)[i].t

\* A test on its way, or at its end.
OnTrack ==
  /\ pc = "test" /\ abort = ""
  /\ plan # <<>> \/ (touched # {} /\ (test = "map" \/ aKnown))

\* What is done, what is being done, and what is still to do.
Along ==
  /\ Len(plan) <= Len(Full)
  /\ \A k \in DOMAIN plan : plan[k] = Full[At + k - 1]
  /\ \A k \in 1..Len(Full) : Full[k][1] = "hold" =>
       /\ k < At => Complete(Full[k][2], Full[k][3])
       /\ k > At => Got(Full[k][2]) = <<>>
       /\ k = At => slot \in 1..Full[k][3] /\ Partly(Full[k][2], slot)
  /\ \A k \in 1..Len(Full) : DeterminesA(k) /\ k >= At => ~aKnown

Progress == OnTrack => Along

IInv ==
  /\ TypeOK /\ Before /\ AtGates /\ NothingFound /\ Started /\ NoResult
  /\ CountIsTrue /\ CountIsWhole /\ NoneLost /\ LostInARow /\ Progress /\ LastSlotSampled

-----------------------------------------------------------------------------
(* Sequences.                                                              *)

\* The first element of a sequence and the others.
LEMMA HeadTail ==
  ASSUME NEW S, NEW q \in Seq(S), q # <<>>
  PROVE  /\ 1 \in DOMAIN q /\ Head(q) = q[1] /\ Head(q) \in S
         /\ Tail(q) \in Seq(S) /\ Len(Tail(q)) = Len(q) - 1
         /\ \A k \in DOMAIN Tail(q) : Tail(q)[k] = q[k + 1]
OBVIOUS

\* A sequence with one more element.
LEMMA OneMore ==
  ASSUME NEW S, NEW q \in Seq(S), NEW x \in S
  PROVE  /\ Append(q, x) \in Seq(S) /\ Len(Append(q, x)) = Len(q) + 1
         /\ Append(q, x)[Len(q) + 1] = x
         /\ \A k \in DOMAIN q : Append(q, x)[k] = q[k]
OBVIOUS

\* Three sequences, one after the other.
LEMMA Joined ==
  ASSUME NEW S, NEW a \in Seq(S), NEW b \in Seq(S), NEW c \in Seq(S)
  PROVE  /\ a \o b \o c \in Seq(S) /\ Len(a \o b \o c) = Len(a) + Len(b) + Len(c)
         /\ \A k \in 1..Len(a) : (a \o b \o c)[k] = a[k]
         /\ \A k \in 1..Len(b) : (a \o b \o c)[Len(a) + k] = b[k]
         /\ \A k \in 1..Len(c) : (a \o b \o c)[Len(a) + Len(b) + k] = c[k]
<1>1. /\ a \o b \in Seq(S) /\ Len(a \o b) = Len(a) + Len(b)
      /\ \A k \in 1..Len(a) : (a \o b)[k] = a[k]
      /\ \A k \in 1..Len(b) : (a \o b)[Len(a) + k] = b[k]
  OBVIOUS
<1>. DEFINE ab == a \o b
<1>2. ab \in Seq(S)
  BY <1>1
<1>. HIDE DEF ab
<1>3. /\ ab \o c \in Seq(S) /\ Len(ab \o c) = Len(ab) + Len(c)
      /\ \A k \in 1..Len(ab) : (ab \o c)[k] = ab[k]
      /\ \A k \in 1..Len(c) : (ab \o c)[Len(ab) + k] = c[k]
  BY <1>2
<1>. QED
  BY <1>1, <1>3 DEF ab

\* Numbers in parts of two.
LEMMA Halves ==
  ASSUME NEW m \in Nat
  PROVE  /\ \A k \in 1..2 * m : \E i \in 1..m, r \in 1..2 :
              /\ k = 2 * (i - 1) + r /\ 1 + (k - 1) \div 2 = i /\ 1 + ((k - 1) % 2) = r
         /\ \A i \in 1..m, r \in 1..2 : \E k \in 1..2 * m :
              /\ k = 2 * (i - 1) + r /\ 1 + (k - 1) \div 2 = i /\ 1 + ((k - 1) % 2) = r
<1>1. ASSUME NEW k \in 1..2 * m
      PROVE  \E i \in 1..m, r \in 1..2 :
               k = 2 * (i - 1) + r /\ 1 + (k - 1) \div 2 = i /\ 1 + ((k - 1) % 2) = r
  <2>. DEFINE d == (k - 1) \div 2
              e == (k - 1) % 2
  <2>1. d \in 0..m - 1
    OBVIOUS
  <2>2. e \in 0..2 - 1
    OBVIOUS
  <2>3. k - 1 = 2 * d + e
    OBVIOUS
  <2>. HIDE DEF d, e
  <2>4. 1 + d \in 1..m /\ 1 + e \in 1..2 /\ k = 2 * ((1 + d) - 1) + (1 + e)
    BY <2>1, <2>2, <2>3
  <2>. QED
    BY <2>4 DEF d, e
<1>2. ASSUME NEW i \in 1..m, NEW r \in 1..2
      PROVE  \E k \in 1..2 * m :
               k = 2 * (i - 1) + r /\ 1 + (k - 1) \div 2 = i /\ 1 + ((k - 1) % 2) = r
  <2>. DEFINE k == 2 * (i - 1) + r
  <2>1. k \in 1..2 * m
    OBVIOUS
  <2>2. (k - 1) \div 2 = i - 1
    OBVIOUS
  <2>3. (k - 1) % 2 = r - 1
    OBVIOUS
  <2>. HIDE DEF k
  <2>4. 1 + (k - 1) \div 2 = i /\ 1 + ((k - 1) % 2) = r
    BY <2>2, <2>3
  <2>. QED
    BY <2>1, <2>4 DEF k
<1>. QED
  BY <1>1, <1>2

\* Numbers in parts of six.
LEMMA Sixths ==
  ASSUME NEW m \in Nat
  PROVE  /\ \A k \in 1..6 * m : \E i \in 1..m, r \in 1..6 :
              /\ k = 6 * (i - 1) + r /\ 1 + (k - 1) \div 6 = i /\ 1 + ((k - 1) % 6) = r
         /\ \A i \in 1..m, r \in 1..6 : \E k \in 1..6 * m :
              /\ k = 6 * (i - 1) + r /\ 1 + (k - 1) \div 6 = i /\ 1 + ((k - 1) % 6) = r
<1>1. ASSUME NEW k \in 1..6 * m
      PROVE  \E i \in 1..m, r \in 1..6 :
               k = 6 * (i - 1) + r /\ 1 + (k - 1) \div 6 = i /\ 1 + ((k - 1) % 6) = r
  <2>. DEFINE d == (k - 1) \div 6
              e == (k - 1) % 6
  <2>1. d \in 0..m - 1
    OBVIOUS
  <2>2. e \in 0..6 - 1
    OBVIOUS
  <2>3. k - 1 = 6 * d + e
    OBVIOUS
  <2>. HIDE DEF d, e
  <2>4. 1 + d \in 1..m /\ 1 + e \in 1..6 /\ k = 6 * ((1 + d) - 1) + (1 + e)
    BY <2>1, <2>2, <2>3
  <2>. QED
    BY <2>4 DEF d, e
<1>2. ASSUME NEW i \in 1..m, NEW r \in 1..6
      PROVE  \E k \in 1..6 * m :
               k = 6 * (i - 1) + r /\ 1 + (k - 1) \div 6 = i /\ 1 + ((k - 1) % 6) = r
  <2>. DEFINE k == 6 * (i - 1) + r
  <2>1. k \in 1..6 * m
    OBVIOUS
  <2>2. (k - 1) \div 6 = i - 1
    OBVIOUS
  <2>3. (k - 1) % 6 = r - 1
    OBVIOUS
  <2>. HIDE DEF k
  <2>4. 1 + (k - 1) \div 6 = i /\ 1 + ((k - 1) % 6) = r
    BY <2>2, <2>3
  <2>. QED
    BY <2>1, <2>4 DEF k
<1>. QED
  BY <1>1, <1>2

\* The steps of parts of two or six steps.
LEMMA PartsInTurn ==
  ASSUME NEW n \in {2, 6}, NEW parts \in Seq(Seq(Steps)), \A i \in DOMAIN parts : Len(parts[i]) = n
  PROVE  /\ InTurn(parts, n) \in Seq(Steps) /\ Len(InTurn(parts, n)) = n * Len(parts)
         /\ \A k \in 1..n * Len(parts) : \E i \in DOMAIN parts, r \in 1..n : k = n * (i - 1) + r
         /\ \A i \in DOMAIN parts, r \in 1..n : InTurn(parts, n)[n * (i - 1) + r] = parts[i][r]
<1>. DEFINE m == Len(parts)
            I(k) == 1 + (k - 1) \div n
            R(k) == 1 + ((k - 1) % n)
            K(i, r) == n * (i - 1) + r
            N == n * m
            f == [k \in 1..N |-> parts[I(k)][R(k)]]
<1>1. m \in Nat /\ DOMAIN parts = 1..m
  OBVIOUS
<1>2. /\ \A k \in 1..N : \E i \in 1..m, r \in 1..n : k = K(i, r) /\ I(k) = i /\ R(k) = r
      /\ \A i \in 1..m, r \in 1..n : \E k \in 1..N : k = K(i, r) /\ I(k) = i /\ R(k) = r
      /\ N \in Nat
  <2>. HIDE DEF m
  <2>1. CASE n = 2
    BY <1>1, <2>1, Halves
  <2>2. CASE n = 6
    BY <1>1, <2>2, Sixths
  <2>. QED
    BY <2>1, <2>2
<1>3. InTurn(parts, n) = f
  BY DEF InTurn
<1>4. \A i \in 1..m, r \in 1..n : parts[i][r] \in Steps
  <2>1. TAKE i \in 1..m, r \in 1..n
  <2>2. i \in DOMAIN parts
    BY <2>1, <1>1
  <2>3. parts[i] \in Seq(Steps) /\ Len(parts[i]) = n
    BY <2>2
  <2>. QED
    BY <2>1, <2>3
<1>. HIDE DEF I, R, K, N, m
<1>5. \A k \in 1..N : f[k] \in Steps
  BY <1>2, <1>4, SMTT(30)
<1>6. \A i \in 1..m, r \in 1..n : f[K(i, r)] = parts[i][r]
  BY <1>2
<1>7. f \in [1..N -> Steps]
  BY <1>5
<1>. HIDE DEF f
<1>8. f \in Seq(Steps) /\ Len(f) = N
  BY <1>2, <1>7
<1>9. /\ f \in Seq(Steps) /\ Len(f) = N
      /\ \A k \in 1..N : \E i \in DOMAIN parts, r \in 1..n : k = K(i, r)
      /\ \A i \in DOMAIN parts, r \in 1..n : f[K(i, r)] = parts[i][r]
  <2>1. \A k \in 1..N : \E i \in DOMAIN parts, r \in 1..n : k = K(i, r)
    BY <1>1, <1>2
  <2>2. \A i \in DOMAIN parts, r \in 1..n : f[K(i, r)] = parts[i][r]
    BY <1>1, <1>6
  <2>. QED
    BY <2>1, <2>2, <1>8
<1>. QED
  BY <1>3, <1>9 DEF K, N, m

-----------------------------------------------------------------------------
(* Plans.                                                                  *)

\* What a step of a plan carries.
LEMMA StepTypes ==
  ASSUME NEW s \in Steps
  PROVE  /\ s[1] \in {"sample", "hold"} => s[2] \in Phases
         /\ s[1] = "hold" => s[3] \in Nat \ {0}
         /\ s[1] \in {"write", "mark"} => s[2] \in Texts
         /\ s[1] \in {"manual", "auto"} => Len(s) = 1
<1>1. CASE s \in {<<"manual">>, <<"auto">>, <<"value A">>, <<"decide">>}
  <2>1. /\ Len(<<"manual">>) = 1 /\ Len(<<"auto">>) = 1
        /\ <<"manual">>[1] = "manual" /\ <<"auto">>[1] = "auto"
        /\ <<"value A">>[1] = "value A" /\ <<"decide">>[1] = "decide"
    OBVIOUS
  <2>2. CASE s = <<"manual">>
    BY <2>1, <2>2
  <2>3. CASE s = <<"auto">>
    BY <2>1, <2>3
  <2>4. CASE s = <<"value A">> \/ s = <<"decide">>
    BY <2>1, <2>4
  <2>. QED
    BY <1>1, <2>2, <2>3, <2>4
<1>2. CASE s \in {"sample"} \X Phases
  BY <1>2
<1>3. CASE s \in {"hold"} \X Phases \X (Nat \ {0})
  BY <1>3
<1>4. CASE s \in {"write", "mark"} \X Texts
  BY <1>4
<1>. QED
  BY <1>1, <1>2, <1>3, <1>4 DEF Steps

\* The phases and the texts of events that a plan names.
LEMMA NamesAreTyped ==
  /\ Boot \in Phases /\ Gate \in Phases /\ Rest \in Phases /\ A \in Phases
  /\ \A d \in 100..255 : Phase("step", 0, d) \in Phases
  /\ \A r \in Nat, lab \in {"H", "M"}, name \in {"hold", "log"} : Phase(name, r, lab) \in Phases
  /\ \A d \in 100..255 \cup {"H", "M"} : WriteOf(d) \in Texts
  /\ \A r \in Nat, lab \in {"H", "M"} : AutoOf(r, lab) \in Texts
  /\ \A text \in EventNames : Plain(text) \in Texts
  /\ T1Complete \in Texts /\ T2Complete \in Texts
<1>1. /\ Boot \in Phases /\ Gate \in Phases /\ Rest \in Phases /\ A \in Phases
      /\ \A d \in 100..255 : Phase("step", 0, d) \in Phases
      /\ \A r \in Nat, lab \in {"H", "M"}, name \in {"hold", "log"} : Phase(name, r, lab) \in Phases
  BY DEF Boot, Gate, Rest, A, Phase, Phases, Names, Whats
<1>2. /\ "write" \in EventNames /\ "T2 auto" \in EventNames
      /\ "T1 complete" \in EventNames /\ "T2 complete" \in EventNames
  BY DEF EventNames, CommandTexts
<1>3. /\ \A d \in 100..255 \cup {"H", "M"} : WriteOf(d) \in Texts
      /\ \A r \in Nat, lab \in {"H", "M"} : AutoOf(r, lab) \in Texts
      /\ \A text \in EventNames : Plain(text) \in Texts
      /\ T1Complete \in Texts /\ T2Complete \in Texts
  BY <1>2 DEF WriteOf, AutoOf, Plain, T1Complete, T2Complete, Texts, Whats
<1>. QED
  BY <1>1, <1>3

\* Lengths and duties.
LEMMA Numbers ==
  /\ {Hold, Pre, Observe, Window} \subseteq Nat \ {0} /\ LostAfter \in Nat \ {0}
  /\ Repeat \in Nat \ {0} /\ T1Steps \in Seq(100..255)
  /\ DOMAIN T1Steps = 1..Len(T1Steps) /\ Len(T1Steps) \in Nat
  /\ \A i \in DOMAIN T1Steps : T1Steps[i] \in 100..255
  /\ \A i, j \in DOMAIN T1Steps : T1Steps[i] = T1Steps[j] => i = j
<1>1. T1Steps \in Seq(100..255) /\ IsInjective(T1Steps)
  BY RunnerAssumption
<1>2. \A i, j \in DOMAIN T1Steps : T1Steps[i] = T1Steps[j] => i = j
  BY <1>1 DEF IsInjective
<1>3. DOMAIN T1Steps = 1..Len(T1Steps) /\ Len(T1Steps) \in Nat
  BY <1>1
<1>4. \A i \in DOMAIN T1Steps : T1Steps[i] \in 100..255
  <2>. DEFINE D == 100..255
  <2>1. T1Steps \in Seq(D)
    BY <1>1
  <2>. HIDE DEF D
  <2>2. \A i \in DOMAIN T1Steps : T1Steps[i] \in D
    BY <2>1
  <2>. QED
    BY <2>2 DEF D
<1>. QED
  BY <1>1, <1>2, <1>3, <1>4, RunnerAssumption

\* The sub-runs: every repetition first hot, then in the middle.
LEMMA SubRunsAre ==
  /\ DOMAIN SubRuns = 1..2 * Repeat /\ SubRuns \in Seq(Nat \X {"H", "M"})
  /\ Len(SubRuns) = 2 * Repeat
  /\ \A i \in DOMAIN SubRuns : SubRuns[i] \in (1..Repeat) \X {"H", "M"}
  /\ \A i, j \in DOMAIN SubRuns : SubRuns[i] = SubRuns[j] => i = j
<1>1. Repeat \in Nat \ {0}
  BY Numbers
<1>2. /\ DOMAIN SubRuns = 1..2 * Repeat
      /\ \A i \in 1..2 * Repeat :
           SubRuns[i] = <<(i + 1) \div 2, IF i % 2 = 1 THEN "H" ELSE "M">>
  BY DEF SubRuns
<1>3. \A i \in 1..2 * Repeat : (i + 1) \div 2 \in 1..Repeat
  BY <1>1
<1>4. \A i \in DOMAIN SubRuns : SubRuns[i] \in (1..Repeat) \X {"H", "M"}
  <2>1. TAKE i \in DOMAIN SubRuns
  <2>2. i \in 1..2 * Repeat
    BY <1>2
  <2>. DEFINE rep == (i + 1) \div 2
              lab == IF i % 2 = 1 THEN "H" ELSE "M"
  <2>3. rep \in 1..Repeat /\ lab \in {"H", "M"} /\ SubRuns[i] = <<rep, lab>>
    BY <1>2, <1>3, <2>2
  <2>. HIDE DEF rep, lab
  <2>. QED
    BY <2>3
<1>5. \A i, j \in 1..2 * Repeat : (i + 1) \div 2 = (j + 1) \div 2 /\ (i % 2 = 1 <=> j % 2 = 1) => i = j
  BY <1>1
<1>6. \A i, j \in DOMAIN SubRuns : SubRuns[i] = SubRuns[j] => i = j
  BY <1>2, <1>5
<1>7. SubRuns \in Seq(Nat \X {"H", "M"}) /\ Len(SubRuns) = 2 * Repeat
  <2>1. SubRuns \in [1..2 * Repeat -> Nat \X {"H", "M"}]
    <3>1. \A i \in 1..2 * Repeat : SubRuns[i] \in Nat \X {"H", "M"}
      BY <1>2, <1>4
    <3>. QED
      BY <3>1, <1>2 DEF SubRuns
  <2>2. 2 * Repeat \in Nat
    BY <1>1
  <2>. QED
    BY <2>1, <2>2
<1>. QED
  BY <1>2, <1>4, <1>6, <1>7

\* The plan before the gates.
LEMMA GatePlanType ==
  /\ GatePlan \in Seq(Steps)
  /\ \A i \in DOMAIN GatePlan : GatePlan[i][1] \in {"sample", "hold", "decide"}
  /\ \A i \in DOMAIN GatePlan : GatePlan[i][1] \in {"sample", "hold"} => GatePlan[i][2] \in {Boot, Gate}
<1>. DEFINE s1 == <<"sample", Boot>>
            s2 == <<"sample", Gate>>
            s3 == <<"hold", Gate, Window>>
            s4 == <<"decide">>
<1>1. s1 \in Steps /\ s2 \in Steps /\ s3 \in Steps /\ s4 \in Steps
  BY NamesAreTyped, Numbers DEF Steps
<1>2. /\ s1[1] = "sample" /\ s2[1] = "sample" /\ s3[1] = "hold" /\ s4[1] = "decide"
      /\ s1[2] = Boot /\ s2[2] = Gate /\ s3[2] = Gate
  OBVIOUS
<1>. HIDE DEF s1, s2, s3, s4
<1>3. GatePlan \in {<<s1, s4>>, <<s1, s2, s3, s4>>}
  BY DEF GatePlan, s1, s2, s3, s4
<1>4. CASE GatePlan = <<s1, s4>>
  BY <1>1, <1>2, <1>4
<1>5. CASE GatePlan = <<s1, s2, s3, s4>>
  <2>1. GatePlan \in Seq(Steps)
    BY <1>1, <1>5
  <2>2. \A i \in DOMAIN GatePlan : GatePlan[i] \in {s1, s2, s3, s4}
    BY <1>5
  <2>. QED
    BY <1>2, <2>1, <2>2
<1>. QED
  BY <1>3, <1>4, <1>5

\* The plan of T1, step by step.
LEMMA T1PlanIs ==
  /\ T1Plan \in Seq(Steps) /\ Len(T1Plan) = 3 + 2 * Len(T1Steps)
  /\ \A k \in 1..Len(T1Plan) :
       \/ k \in {1, 2, Len(T1Plan)}
       \/ \E i \in DOMAIN T1Steps : k \in {1 + 2 * i, 2 + 2 * i}
  /\ T1Plan[1] = <<"hold", Rest, Hold>> /\ T1Plan[2] = <<"manual">>
  /\ T1Plan[Len(T1Plan)] = <<"mark", T1Complete>>
  /\ \A i \in DOMAIN T1Steps :
       /\ T1Plan[1 + 2 * i] = <<"write", WriteOf(T1Steps[i])>>
       /\ T1Plan[2 + 2 * i] = <<"hold", Phase("step", 0, T1Steps[i]), Hold>>
<1>. DEFINE a == << <<"hold", Rest, Hold>>, <<"manual">> >>
            parts == [i \in DOMAIN T1Steps |-> StepPlan(T1Steps[i])]
            b == InTurn(parts, 2)
            c == << <<"mark", T1Complete>> >>
            n == Len(T1Steps)
<1>1. a \in Seq(Steps) /\ Len(a) = 2 /\ a[1] = <<"hold", Rest, Hold>> /\ a[2] = <<"manual">>
  <2>1. <<"hold", Rest, Hold>> \in Steps /\ <<"manual">> \in Steps
    BY NamesAreTyped, Numbers DEF Steps
  <2>. QED
    BY <2>1
<1>2. c \in Seq(Steps) /\ Len(c) = 1 /\ c[1] = <<"mark", T1Complete>>
  <2>1. <<"mark", T1Complete>> \in Steps
    BY NamesAreTyped DEF Steps
  <2>. QED
    BY <2>1
<1>3. \A d \in 100..255 :
        /\ StepPlan(d) \in Seq(Steps) /\ Len(StepPlan(d)) = 2
        /\ StepPlan(d)[1] = <<"write", WriteOf(d)>>
        /\ StepPlan(d)[2] = <<"hold", Phase("step", 0, d), Hold>>
  <2>1. TAKE d \in 100..255
  <2>. DEFINE s1 == <<"write", WriteOf(d)>>
              s2 == <<"hold", Phase("step", 0, d), Hold>>
  <2>2. s1 \in Steps /\ s2 \in Steps
    BY NamesAreTyped, Numbers DEF Steps
  <2>3. StepPlan(d) = <<s1, s2>>
    BY DEF StepPlan
  <2>. HIDE DEF s1, s2
  <2>4. StepPlan(d) \in Seq(Steps) /\ Len(StepPlan(d)) = 2 /\ StepPlan(d)[1] = s1 /\ StepPlan(d)[2] = s2
    BY <2>2, <2>3
  <2>. QED
    BY <2>4 DEF s1, s2
<1>4. /\ parts \in Seq(Seq(Steps)) /\ Len(parts) = n /\ DOMAIN parts = 1..n /\ DOMAIN T1Steps = 1..n
      /\ n \in Nat
      /\ \A i \in 1..n :
           /\ Len(parts[i]) = 2 /\ parts[i][1] = <<"write", WriteOf(T1Steps[i])>>
           /\ parts[i][2] = <<"hold", Phase("step", 0, T1Steps[i]), Hold>>
  <2>1. DOMAIN T1Steps = 1..n /\ n \in Nat /\ \A i \in 1..n : T1Steps[i] \in 100..255
    BY Numbers
  <2>2. parts \in [1..n -> Seq(Steps)]
    BY <1>3, <2>1
  <2>3. \A i \in 1..n : parts[i] = StepPlan(T1Steps[i])
    BY <2>1
  <2>. HIDE DEF parts, n
  <2>4. parts \in Seq(Seq(Steps)) /\ Len(parts) = n /\ DOMAIN parts = 1..n
    BY <2>1, <2>2
  <2>5. ASSUME NEW i \in 1..n
        PROVE  /\ Len(parts[i]) = 2 /\ parts[i][1] = <<"write", WriteOf(T1Steps[i])>>
               /\ parts[i][2] = <<"hold", Phase("step", 0, T1Steps[i]), Hold>>
    <3>1. T1Steps[i] \in 100..255 /\ parts[i] = StepPlan(T1Steps[i])
      BY <2>1, <2>3
    <3>. QED
      BY <1>3, <3>1
  <2>. QED
    BY <2>1, <2>4, <2>5
<1>5. T1Plan = a \o b \o c
  BY DEF T1Plan
<1>. HIDE DEF a, c, parts, n
<1>6. /\ b \in Seq(Steps) /\ Len(b) = 2 * n
      /\ \A k \in 1..2 * n : \E i \in 1..n, r \in 1..2 : k = 2 * (i - 1) + r
      /\ \A i \in 1..n, r \in 1..2 : b[2 * (i - 1) + r] = parts[i][r]
  <2>1. \A i \in DOMAIN parts : Len(parts[i]) = 2
    BY <1>4
  <2>2. /\ b \in Seq(Steps) /\ Len(b) = 2 * Len(parts)
        /\ \A k \in 1..2 * Len(parts) : \E i \in DOMAIN parts, r \in 1..2 : k = 2 * (i - 1) + r
        /\ \A i \in DOMAIN parts, r \in 1..2 : b[2 * (i - 1) + r] = parts[i][r]
    <3>1. 2 \in {2, 6} /\ parts \in Seq(Seq(Steps))
      BY <1>4
    <3>. HIDE DEF b
    <3>. QED
      BY <2>1, <3>1, PartsInTurn DEF b
  <2>3. Len(parts) = n /\ DOMAIN parts = 1..n
    BY <1>4
  <2>. QED
    BY <2>2, <2>3
<1>. HIDE DEF b
<1>7. /\ T1Plan \in Seq(Steps) /\ Len(T1Plan) = 2 + 2 * n + 1
      /\ \A k \in 1..2 : T1Plan[k] = a[k]
      /\ \A k \in 1..2 * n : T1Plan[2 + k] = b[k]
      /\ \A k \in 1..1 : T1Plan[2 + 2 * n + k] = c[k]
  <2>1. /\ T1Plan \in Seq(Steps) /\ Len(T1Plan) = Len(a) + Len(b) + Len(c)
        /\ \A k \in 1..Len(a) : T1Plan[k] = a[k]
        /\ \A k \in 1..Len(b) : T1Plan[Len(a) + k] = b[k]
        /\ \A k \in 1..Len(c) : T1Plan[Len(a) + Len(b) + k] = c[k]
    <3>. DEFINE t == a \o b \o c
    <3>1. /\ t \in Seq(Steps) /\ Len(t) = Len(a) + Len(b) + Len(c)
          /\ \A k \in 1..Len(a) : t[k] = a[k]
          /\ \A k \in 1..Len(b) : t[Len(a) + k] = b[k]
          /\ \A k \in 1..Len(c) : t[Len(a) + Len(b) + k] = c[k]
      <4>1. a \in Seq(Steps) /\ b \in Seq(Steps) /\ c \in Seq(Steps)
        BY <1>1, <1>2, <1>6
      <4>. QED
        BY <4>1, Joined
    <3>2. T1Plan = t
      BY <1>5
    <3>. HIDE DEF t
    <3>. QED
      BY <3>1, <3>2
  <2>2. Len(a) = 2 /\ Len(b) = 2 * n /\ Len(c) = 1
    BY <1>1, <1>2, <1>6
  <2>. QED
    BY <2>1, <2>2
<1>8. \A i \in 1..n : T1Plan[1 + 2 * i] = parts[i][1] /\ T1Plan[2 + 2 * i] = parts[i][2]
  <2>1. TAKE i \in 1..n
  <2>2. /\ 2 * (i - 1) + 1 \in 1..2 * n /\ 2 * (i - 1) + 2 \in 1..2 * n
        /\ 2 + (2 * (i - 1) + 1) = 1 + 2 * i /\ 2 + (2 * (i - 1) + 2) = 2 + 2 * i
    BY <1>4
  <2>3. b[2 * (i - 1) + 1] = parts[i][1] /\ b[2 * (i - 1) + 2] = parts[i][2]
    BY <1>6
  <2>. QED
    BY <1>7, <2>2, <2>3
<1>9. \A k \in 1..Len(T1Plan) : k \in {1, 2, Len(T1Plan)} \/ \E i \in 1..n : k \in {1 + 2 * i, 2 + 2 * i}
  <2>1. TAKE k \in 1..Len(T1Plan)
  <2>2. k \in {1, 2, Len(T1Plan)} \/ k - 2 \in 1..2 * n
    BY <1>4, <1>7
  <2>3. CASE k - 2 \in 1..2 * n
    <3>1. PICK i \in 1..n, r \in 1..2 : k - 2 = 2 * (i - 1) + r
      BY <1>6, <2>3
    <3>2. k \in {1 + 2 * i, 2 + 2 * i}
      BY <3>1
    <3>. QED
      BY <3>2
  <2>. QED
    BY <2>2, <2>3
<1>10. T1Plan[1] = a[1] /\ T1Plan[2] = a[2] /\ T1Plan[Len(T1Plan)] = c[1]
  <2>1. Len(T1Plan) = 2 + 2 * n + 1 /\ 1 \in 1..2 /\ 2 \in 1..2 /\ 1 \in 1..1
    BY <1>7
  <2>. QED
    BY <1>7, <2>1
<1>11. Len(T1Plan) = 3 + 2 * Len(T1Steps)
  BY <1>4, <1>7 DEF n
<1>12. \A i \in 1..n :
         /\ T1Plan[1 + 2 * i] = <<"write", WriteOf(T1Steps[i])>>
         /\ T1Plan[2 + 2 * i] = <<"hold", Phase("step", 0, T1Steps[i]), Hold>>
  BY <1>4, <1>8
<1>. QED
  BY <1>1, <1>2, <1>4, <1>7, <1>9, <1>10, <1>11, <1>12

\* The plan of a sub-run.
LEMMA SubPlanIs ==
  ASSUME NEW s \in Nat \X {"H", "M"}
  PROVE  /\ SubPlan(s) \in Seq(Steps) /\ Len(SubPlan(s)) = 6
         /\ SubPlan(s)[1] = <<"manual">> /\ SubPlan(s)[2] = <<"write", WriteOf(s[2])>>
         /\ SubPlan(s)[3] = <<"hold", Phase("hold", s[1], s[2]), Hold>>
         /\ SubPlan(s)[4] = <<"auto">> /\ SubPlan(s)[5] = <<"mark", AutoOf(s[1], s[2])>>
         /\ SubPlan(s)[6] = <<"hold", Phase("log", s[1], s[2]), Observe>>
<1>. DEFINE s1 == <<"manual">>
            s2 == <<"write", WriteOf(s[2])>>
            s3 == <<"hold", Phase("hold", s[1], s[2]), Hold>>
            s4 == <<"auto">>
            s5 == <<"mark", AutoOf(s[1], s[2])>>
            s6 == <<"hold", Phase("log", s[1], s[2]), Observe>>
<1>1. {s1, s2, s3, s4, s5, s6} \subseteq Steps
  <2>1. s[1] \in Nat /\ s[2] \in {"H", "M"}
    OBVIOUS
  <2>2. s1 \in Steps /\ s4 \in Steps
    BY DEF Steps
  <2>3. s2 \in Steps /\ s5 \in Steps
    BY <2>1, NamesAreTyped DEF Steps
  <2>4. s3 \in Steps /\ s6 \in Steps
    BY <2>1, NamesAreTyped, Numbers DEF Steps
  <2>. QED
    BY <2>2, <2>3, <2>4
<1>2. SubPlan(s) = <<s1, s2, s3, s4, s5, s6>>
  BY DEF SubPlan
<1>. HIDE DEF s1, s2, s3, s4, s5, s6
<1>3. /\ SubPlan(s) \in Seq(Steps) /\ Len(SubPlan(s)) = 6
      /\ SubPlan(s)[1] = s1 /\ SubPlan(s)[2] = s2 /\ SubPlan(s)[3] = s3
      /\ SubPlan(s)[4] = s4 /\ SubPlan(s)[5] = s5 /\ SubPlan(s)[6] = s6
  BY <1>1, <1>2
<1>. QED
  BY <1>3 DEF s1, s2, s3, s4, s5, s6

\* The plan of T2, step by step.
LEMMA T2PlanIs ==
  /\ T2Plan \in Seq(Steps) /\ Len(T2Plan) = 4 + 6 * Len(SubRuns)
  /\ \A k \in 1..Len(T2Plan) :
       \/ k \in {1, 2, 3, Len(T2Plan)}
       \/ \E i \in DOMAIN SubRuns, r \in 1..6 : k = 3 + (6 * (i - 1) + r)
  /\ T2Plan[1] = <<"auto">> /\ T2Plan[2] = <<"hold", A, Pre>> /\ T2Plan[3] = <<"value A">>
  /\ T2Plan[Len(T2Plan)] = <<"mark", T2Complete>>
  /\ \A i \in DOMAIN SubRuns, r \in 1..6 :
       /\ 3 + (6 * (i - 1) + r) \in 1..Len(T2Plan)
       /\ T2Plan[3 + (6 * (i - 1) + r)] = SubPlan(SubRuns[i])[r]
<1>. DEFINE a == << <<"auto">>, <<"hold", A, Pre>>, <<"value A">> >>
            parts == [i \in DOMAIN SubRuns |-> SubPlan(SubRuns[i])]
            b == InTurn(parts, 6)
            c == << <<"mark", T2Complete>> >>
            n == Len(SubRuns)
<1>1. /\ a \in Seq(Steps) /\ Len(a) = 3
      /\ a[1] = <<"auto">> /\ a[2] = <<"hold", A, Pre>> /\ a[3] = <<"value A">>
  <2>. DEFINE s1 == <<"auto">>
              s2 == <<"hold", A, Pre>>
              s3 == <<"value A">>
  <2>1. s1 \in Steps /\ s2 \in Steps /\ s3 \in Steps
    BY NamesAreTyped, Numbers DEF Steps
  <2>2. a = <<s1, s2, s3>>
    OBVIOUS
  <2>. HIDE DEF s1, s2, s3, a
  <2>3. a \in Seq(Steps) /\ Len(a) = 3 /\ a[1] = s1 /\ a[2] = s2 /\ a[3] = s3
    BY <2>1, <2>2
  <2>. QED
    BY <2>3 DEF s1, s2, s3
<1>2. c \in Seq(Steps) /\ Len(c) = 1 /\ c[1] = <<"mark", T2Complete>>
  <2>1. <<"mark", T2Complete>> \in Steps
    BY NamesAreTyped DEF Steps
  <2>. QED
    BY <2>1
<1>3. n \in Nat /\ DOMAIN SubRuns = 1..n /\ \A i \in 1..n : SubRuns[i] \in Nat \X {"H", "M"}
  BY SubRunsAre
<1>4. /\ parts \in Seq(Seq(Steps)) /\ Len(parts) = n /\ DOMAIN parts = 1..n
      /\ \A i \in 1..n : parts[i] = SubPlan(SubRuns[i]) /\ Len(parts[i]) = 6
  <2>1. parts \in [1..n -> Seq(Steps)]
    BY <1>3, SubPlanIs
  <2>2. \A i \in 1..n : parts[i] = SubPlan(SubRuns[i])
    BY <1>3
  <2>. HIDE DEF parts, n
  <2>3. parts \in Seq(Seq(Steps)) /\ Len(parts) = n /\ DOMAIN parts = 1..n
    BY <1>3, <2>1
  <2>. QED
    BY <1>3, <2>2, <2>3, SubPlanIs
<1>5. T2Plan = a \o b \o c
  BY DEF T2Plan
<1>. HIDE DEF a, c, parts, n
<1>6. /\ b \in Seq(Steps) /\ Len(b) = 6 * n
      /\ \A k \in 1..6 * n : \E i \in 1..n, r \in 1..6 : k = 6 * (i - 1) + r
      /\ \A i \in 1..n, r \in 1..6 : b[6 * (i - 1) + r] = parts[i][r]
  <2>1. \A i \in DOMAIN parts : Len(parts[i]) = 6
    BY <1>4
  <2>2. /\ b \in Seq(Steps) /\ Len(b) = 6 * Len(parts)
        /\ \A k \in 1..6 * Len(parts) : \E i \in DOMAIN parts, r \in 1..6 : k = 6 * (i - 1) + r
        /\ \A i \in DOMAIN parts, r \in 1..6 : b[6 * (i - 1) + r] = parts[i][r]
    <3>1. 6 \in {2, 6} /\ parts \in Seq(Seq(Steps))
      BY <1>4
    <3>. HIDE DEF b
    <3>. QED
      BY <2>1, <3>1, PartsInTurn DEF b
  <2>3. Len(parts) = n /\ DOMAIN parts = 1..n
    BY <1>4
  <2>. QED
    BY <2>2, <2>3
<1>. HIDE DEF b
<1>7. /\ T2Plan \in Seq(Steps) /\ Len(T2Plan) = 3 + 6 * n + 1
      /\ \A k \in 1..3 : T2Plan[k] = a[k]
      /\ \A k \in 1..6 * n : T2Plan[3 + k] = b[k]
      /\ \A k \in 1..1 : T2Plan[3 + 6 * n + k] = c[k]
  <2>1. /\ T2Plan \in Seq(Steps) /\ Len(T2Plan) = Len(a) + Len(b) + Len(c)
        /\ \A k \in 1..Len(a) : T2Plan[k] = a[k]
        /\ \A k \in 1..Len(b) : T2Plan[Len(a) + k] = b[k]
        /\ \A k \in 1..Len(c) : T2Plan[Len(a) + Len(b) + k] = c[k]
    <3>. DEFINE t == a \o b \o c
    <3>1. /\ t \in Seq(Steps) /\ Len(t) = Len(a) + Len(b) + Len(c)
          /\ \A k \in 1..Len(a) : t[k] = a[k]
          /\ \A k \in 1..Len(b) : t[Len(a) + k] = b[k]
          /\ \A k \in 1..Len(c) : t[Len(a) + Len(b) + k] = c[k]
      <4>1. a \in Seq(Steps) /\ b \in Seq(Steps) /\ c \in Seq(Steps)
        BY <1>1, <1>2, <1>6
      <4>. QED
        BY <4>1, Joined
    <3>2. T2Plan = t
      BY <1>5
    <3>. HIDE DEF t
    <3>. QED
      BY <3>1, <3>2
  <2>2. Len(a) = 3 /\ Len(b) = 6 * n /\ Len(c) = 1
    BY <1>1, <1>2, <1>6
  <2>. QED
    BY <2>1, <2>2
<1>8. \A i \in 1..n, r \in 1..6 :
        /\ 3 + (6 * (i - 1) + r) \in 1..Len(T2Plan)
        /\ T2Plan[3 + (6 * (i - 1) + r)] = SubPlan(SubRuns[i])[r]
  <2>1. TAKE i \in 1..n, r \in 1..6
  <2>. DEFINE k == 6 * (i - 1) + r
  <2>2. k \in 1..6 * n /\ 3 + k \in 1..Len(T2Plan)
    BY <1>3, <1>7
  <2>3. b[k] = SubPlan(SubRuns[i])[r]
    <3>1. parts[i] = SubPlan(SubRuns[i])
      BY <1>4
    <3>2. b[6 * (i - 1) + r] = parts[i][r]
      BY <1>6
    <3>. QED
      BY <3>1, <3>2, Zenon
  <2>. HIDE DEF k
  <2>4. T2Plan[3 + k] = SubPlan(SubRuns[i])[r]
    BY <1>7, <2>2, <2>3
  <2>. QED
    BY <2>2, <2>4 DEF k
<1>9. \A k \in 1..Len(T2Plan) :
        k \in {1, 2, 3, Len(T2Plan)} \/ \E i \in 1..n, r \in 1..6 : k = 3 + (6 * (i - 1) + r)
  <2>1. TAKE k \in 1..Len(T2Plan)
  <2>2. k \in {1, 2, 3, Len(T2Plan)} \/ k - 3 \in 1..6 * n
    BY <1>3, <1>7
  <2>3. CASE k - 3 \in 1..6 * n
    <3>1. PICK i \in 1..n, r \in 1..6 : k - 3 = 6 * (i - 1) + r
      BY <1>6, <2>3
    <3>2. k = 3 + (6 * (i - 1) + r)
      BY <3>1
    <3>. QED
      BY <3>2
  <2>. QED
    BY <2>2, <2>3
<1>10. T2Plan[1] = a[1] /\ T2Plan[2] = a[2] /\ T2Plan[3] = a[3] /\ T2Plan[Len(T2Plan)] = c[1]
  <2>1. Len(T2Plan) = 3 + 6 * n + 1 /\ 1 \in 1..3 /\ 2 \in 1..3 /\ 3 \in 1..3 /\ 1 \in 1..1
    BY <1>7
  <2>. QED
    BY <1>7, <2>1
<1>11. Len(T2Plan) = 4 + 6 * Len(SubRuns)
  BY <1>3, <1>7 DEF n
<1>12. /\ T2Plan[1] = <<"auto">> /\ T2Plan[2] = <<"hold", A, Pre>> /\ T2Plan[3] = <<"value A">>
       /\ T2Plan[Len(T2Plan)] = <<"mark", T2Complete>>
  BY <1>1, <1>2, <1>10
<1>13. DOMAIN SubRuns = 1..n
  BY <1>3
<1>14. \A k \in 1..Len(T2Plan) :
        \/ k \in {1, 2, 3, Len(T2Plan)}
        \/ \E i \in DOMAIN SubRuns, r \in 1..6 : k = 3 + (6 * (i - 1) + r)
  BY <1>9, <1>13, Zenon
<1>15. \A i \in DOMAIN SubRuns, r \in 1..6 :
        /\ 3 + (6 * (i - 1) + r) \in 1..Len(T2Plan)
        /\ T2Plan[3 + (6 * (i - 1) + r)] = SubPlan(SubRuns[i])[r]
  BY <1>8, <1>13, Zenon
<1>. QED
  BY <1>7, <1>11, <1>12, <1>14, <1>15, Zenon

\* Its first steps and its last one.
LEMMA T2Ends ==
  /\ T2Plan[1][1] = "auto" /\ T2Plan[2][1] = "hold" /\ T2Plan[2][2] = A
  /\ T2Plan[3][1] = "value A" /\ T2Plan[Len(T2Plan)][1] = "mark"
<1>1. T2Plan[1][1] = "auto"
  <2>1. T2Plan[1] = <<"auto">>
    BY T2PlanIs, Zenon
  <2>. QED
    BY <2>1
<1>2. T2Plan[2][1] = "hold" /\ T2Plan[2][2] = A
  <2>1. T2Plan[2] = <<"hold", A, Pre>>
    BY T2PlanIs, Zenon
  <2>. QED
    BY <2>1
<1>3. T2Plan[3][1] = "value A"
  <2>1. T2Plan[3] = <<"value A">>
    BY T2PlanIs, Zenon
  <2>2. <<"value A">>[1] = "value A"
    OBVIOUS
  <2>. QED
    BY <2>1, <2>2, Zenon
<1>4. T2Plan[Len(T2Plan)][1] = "mark"
  <2>. DEFINE l == Len(T2Plan)
  <2>1. T2Plan[l] = <<"mark", T2Complete>>
    BY T2PlanIs, Zenon
  <2>. HIDE DEF l
  <2>2. T2Plan[l][1] = "mark"
    BY <2>1
  <2>. QED
    BY <2>2 DEF l
<1>. QED
  BY <1>1, <1>2, <1>3, <1>4

\* The holds of a test are of different phases, none of them of the gates; it has
\* no other samples, and the value A is determined at most once.
LEMMA FullIs ==
  /\ Full \in Seq(Steps) /\ Len(Full) > 0
  /\ \A k \in 1..Len(Full) : Full[k][1] \notin {"sample", "decide"}
  /\ \A k \in 1..Len(Full) : Full[k][1] = "hold" => Full[k][2] \notin {Boot, Gate}
  /\ \A j, k \in 1..Len(Full) :
       Full[j][1] = "hold" /\ Full[k][1] = "hold" /\ Full[j][2] = Full[k][2] => j = k
  /\ \A j, k \in 1..Len(Full) : DeterminesA(j) /\ DeterminesA(k) => j = k
  /\ test = "map" => \A k \in 1..Len(Full) : ~DeterminesA(k)
<1>1. CASE test = "map"
  <2>. DEFINE Q == T1Plan
              n == Len(T1Steps)
  <2>1. Full = Q
    BY <1>1 DEF Full
  <2>2. /\ Q \in Seq(Steps) /\ Len(Q) = 3 + 2 * n /\ n \in Nat /\ DOMAIN T1Steps = 1..n
    BY T1PlanIs, Numbers
  <2>3. \A k \in 1..Len(Q) :
          \/ k = 1 /\ Q[k][1] = "hold" /\ Q[k][2] = Rest
          \/ Q[k][1] \in {"manual", "mark", "write"}
          \/ \E i \in 1..n : k = 2 + 2 * i /\ Q[k][1] = "hold" /\ Q[k][2] = Phase("step", 0, T1Steps[i])
    <3>1. TAKE k \in 1..Len(Q)
    <3>2. k \in {1, 2, Len(Q)} \/ \E i \in DOMAIN T1Steps : k \in {1 + 2 * i, 2 + 2 * i}
      BY T1PlanIs
    <3>3. CASE k \in {1, 2, Len(Q)}
      BY <3>3, T1PlanIs
    <3>4. ASSUME NEW i \in DOMAIN T1Steps, k \in {1 + 2 * i, 2 + 2 * i}
          PROVE  \/ Q[k][1] = "write"
                 \/ k = 2 + 2 * i /\ Q[k][1] = "hold" /\ Q[k][2] = Phase("step", 0, T1Steps[i])
      BY <3>4, T1PlanIs
    <3>. QED
      BY <2>2, <3>2, <3>3, <3>4
  <2>4. /\ Rest \notin {Boot, Gate}
        /\ \A i \in 1..n : Phase("step", 0, T1Steps[i]) \notin {Boot, Gate, Rest}
        /\ \A i, j \in 1..n : Phase("step", 0, T1Steps[i]) = Phase("step", 0, T1Steps[j]) => i = j
    <3>1. \A i, j \in 1..n : T1Steps[i] = T1Steps[j] => i = j
      BY Numbers
    <3>. QED
      BY <3>1 DEF Phase, Rest, Boot, Gate
  <2>. HIDE DEF Q, n
  <2>5. \A k \in 1..Len(Q) :
          /\ Q[k][1] \in {"hold", "manual", "mark", "write"}
          /\ Q[k][1] = "hold" => Q[k][2] \notin {Boot, Gate}
    BY <2>3, <2>4
  <2>6. \A j, k \in 1..Len(Q) : Q[j][1] = "hold" /\ Q[k][1] = "hold" /\ Q[j][2] = Q[k][2] => j = k
    BY <2>3, <2>4
  <2>7. Len(Q) > 0
    BY <2>2
  <2>8. \A k \in 1..Len(Full) : ~DeterminesA(k)
    <3>1. "value A" \notin {"hold", "manual", "mark", "write"}
      BY Zenon
    <3>. QED
      BY <2>1, <2>5, <3>1, Zenon DEF DeterminesA
  <2>9. /\ Q \in Seq(Steps) /\ Len(Q) > 0
        /\ \A k \in 1..Len(Q) : Q[k][1] \notin {"sample", "decide"}
        /\ \A k \in 1..Len(Q) : Q[k][1] = "hold" => Q[k][2] \notin {Boot, Gate}
    BY <2>2, <2>5, <2>7
  <2>. QED
    BY <2>1, <2>6, <2>8, <2>9, Zenon
<1>2. CASE test # "map"
  <2>. DEFINE Q == T2Plan
              n == Len(SubRuns)
              K(i, r) == 3 + (6 * (i - 1) + r)
              P(i) == Phase("hold", SubRuns[i][1], SubRuns[i][2])
              L(i) == Phase("log", SubRuns[i][1], SubRuns[i][2])
  <2>1. Full = Q
    BY <1>2 DEF Full
  <2>2. /\ Q \in Seq(Steps) /\ Len(Q) = 4 + 6 * n /\ n \in Nat /\ DOMAIN SubRuns = 1..n
    <3>1. n \in Nat /\ DOMAIN SubRuns = 1..n
      BY SubRunsAre
    <3>. QED
      BY <3>1, T2PlanIs
  <2>3. \A i \in 1..n : SubRuns[i] \in Nat \X {"H", "M"}
    BY <2>2, SubRunsAre
  <2>4. \A k \in 1..Len(Q) :
          \/ k = 2 /\ Q[k][1] = "hold" /\ Q[k][2] = A
          \/ k = 3 /\ Q[k][1] = "value A"
          \/ Q[k][1] \in {"manual", "mark", "write", "auto"}
          \/ \E i \in 1..n : k = K(i, 3) /\ Q[k][1] = "hold" /\ Q[k][2] = P(i)
          \/ \E i \in 1..n : k = K(i, 6) /\ Q[k][1] = "hold" /\ Q[k][2] = L(i)
    <3>1. TAKE k \in 1..Len(Q)
    <3>2. k \in {1, 2, 3, Len(Q)} \/ \E i \in DOMAIN SubRuns, r \in 1..6 : k = K(i, r)
      BY T2PlanIs
    <3>3. CASE k \in {1, 2, 3, Len(Q)}
      <4>1. /\ Q[1][1] = "auto" /\ Q[2][1] = "hold" /\ Q[2][2] = A
            /\ Q[3][1] = "value A" /\ Q[Len(Q)][1] = "mark"
        BY T2Ends
      <4>. HIDE DEF Q, K, P, L, n
      <4>. QED
        BY <3>3, <4>1
    <3>4. ASSUME NEW i \in 1..n, NEW r \in 1..6, k = K(i, r)
          PROVE  \/ Q[k][1] \in {"manual", "mark", "write", "auto"}
                 \/ k = K(i, 3) /\ Q[k][1] = "hold" /\ Q[k][2] = P(i)
                 \/ k = K(i, 6) /\ Q[k][1] = "hold" /\ Q[k][2] = L(i)
      <4>1. Q[k] = SubPlan(SubRuns[i])[r]
        BY <2>2, <3>4, T2PlanIs
      <4>2. r \in {1, 2, 3, 4, 5, 6}
        OBVIOUS
      <4>3. /\ SubPlan(SubRuns[i])[1][1] = "manual" /\ SubPlan(SubRuns[i])[2][1] = "write"
            /\ SubPlan(SubRuns[i])[3][1] = "hold" /\ SubPlan(SubRuns[i])[3][2] = P(i)
            /\ SubPlan(SubRuns[i])[4][1] = "auto" /\ SubPlan(SubRuns[i])[5][1] = "mark"
            /\ SubPlan(SubRuns[i])[6][1] = "hold" /\ SubPlan(SubRuns[i])[6][2] = L(i)
        BY <2>3, SubPlanIs, SMTT(30)
      <4>. HIDE DEF K, P, L
      <4>. QED
        BY <3>4, <4>1, <4>2, <4>3
    <3>. HIDE DEF K, P, L, Q
    <3>. QED
      BY <2>2, <3>2, <3>3, <3>4
  <2>5. /\ A \notin {Boot, Gate}
        /\ \A i \in 1..n : P(i) \notin {Boot, Gate, A} /\ L(i) \notin {Boot, Gate, A}
        /\ \A i, j \in 1..n : P(i) # L(j)
        /\ \A i, j \in 1..n : P(i) = P(j) => i = j
        /\ \A i, j \in 1..n : L(i) = L(j) => i = j
    <3>1. \A i, j \in 1..n : SubRuns[i] = SubRuns[j] => i = j
      BY <2>2, SubRunsAre
    <3>2. \A i, j \in 1..n : SubRuns[i][1] = SubRuns[j][1] /\ SubRuns[i][2] = SubRuns[j][2] => i = j
      BY <2>3, <3>1
    <3>. HIDE DEF n
    <3>. QED
      BY <3>2 DEF Phase, A, Boot, Gate
  <2>. HIDE DEF Q, n, K, P, L
  <2>6. \A k \in 1..Len(Q) :
          /\ Q[k][1] \in {"hold", "manual", "mark", "write", "auto", "value A"}
          /\ Q[k][1] = "hold" => Q[k][2] \notin {Boot, Gate}
          /\ Q[k][1] = "value A" => k = 3
    BY <2>4, <2>5
  <2>7. \A j, k \in 1..Len(Q) : Q[j][1] = "hold" /\ Q[k][1] = "hold" /\ Q[j][2] = Q[k][2] => j = k
    <3>. DEFINE H(k) == Q[k][1] = "hold"
    <3>1. \A k \in 1..Len(Q) :
            H(k) => \/ k = 2 /\ Q[k][2] = A
                    \/ \E i \in 1..n : k = K(i, 3) /\ Q[k][2] = P(i)
                    \/ \E i \in 1..n : k = K(i, 6) /\ Q[k][2] = L(i)
      BY <2>4
    <3>. HIDE DEF H
    <3>2. \A j, k \in 1..Len(Q) : H(j) /\ H(k) /\ Q[j][2] = Q[k][2] => j = k
      BY <2>5, <3>1
    <3>. QED
      BY <3>2 DEF H
  <2>8. Len(Q) > 0
    BY <2>2
  <2>9. \A j, k \in 1..Len(Full) : DeterminesA(j) /\ DeterminesA(k) => j = k
    BY <2>1, <2>6, Zenon DEF DeterminesA
  <2>10. Q \in Seq(Steps)
    BY <2>2
  <2>11. \A k \in 1..Len(Q) : Q[k][1] \notin {"sample", "decide"} /\ (Q[k][1] = "hold" => Q[k][2] \notin {Boot, Gate})
    <3>1. \A x \in {"hold", "manual", "mark", "write", "auto", "value A"} : x \notin {"sample", "decide"}
      BY Zenon
    <3>. QED
      BY <2>6, <3>1, Zenon
  <2>. QED
    BY <1>2, <2>1, <2>7, <2>8, <2>9, <2>10, <2>11, Zenon
<1>. QED
  BY <1>1, <1>2

\* The step of a plan that is the hold of a phase.
HeldFor(ph, n) == \E k \in 1..Len(Full) : Full[k][1] = "hold" /\ Full[k][2] = ph /\ Full[k][3] = n

\* Every hold that a result of a test is made from is in its plan.
LEMMA FullHolds ==
  IF test = "map"
  THEN HeldFor(Rest, Hold) /\ \A i \in DOMAIN T1Steps : HeldFor(Phase("step", 0, T1Steps[i]), Hold)
  ELSE /\ HeldFor(A, Pre)
       /\ \A i \in DOMAIN SubRuns :
            /\ HeldFor(Phase("hold", SubRuns[i][1], SubRuns[i][2]), Hold)
            /\ HeldFor(Phase("log", SubRuns[i][1], SubRuns[i][2]), Observe)
<1>1. CASE test = "map"
  <2>1. Full = T1Plan
    BY <1>1 DEF Full
  <2>2. HeldFor(Rest, Hold)
    <3>1. T1Plan[1] = <<"hold", Rest, Hold>> /\ 1 \in 1..Len(T1Plan)
      BY T1PlanIs, Numbers
    <3>. QED
      BY <2>1, <3>1 DEF HeldFor
  <2>3. ASSUME NEW i \in DOMAIN T1Steps
        PROVE  HeldFor(Phase("step", 0, T1Steps[i]), Hold)
    <3>1. 2 + 2 * i \in 1..Len(T1Plan)
      BY T1PlanIs, Numbers
    <3>2. T1Plan[2 + 2 * i] = <<"hold", Phase("step", 0, T1Steps[i]), Hold>>
      BY T1PlanIs
    <3>. QED
      BY <2>1, <3>1, <3>2 DEF HeldFor
  <2>. QED
    BY <1>1, <2>2, <2>3
<1>2. CASE test # "map"
  <2>1. Full = T2Plan
    BY <1>2 DEF Full
  <2>2. HeldFor(A, Pre)
    <3>1. T2Plan[2] = <<"hold", A, Pre>>
      BY T2PlanIs, Zenon
    <3>2. Len(T2Plan) = 4 + 6 * Len(SubRuns)
      BY T2PlanIs, Zenon
    <3>3. Len(SubRuns) \in Nat
      BY SubRunsAre
    <3>4. 2 \in 1..Len(T2Plan)
      BY <3>2, <3>3
    <3>. QED
      BY <2>1, <3>1, <3>4 DEF HeldFor
  <2>3. ASSUME NEW i \in DOMAIN SubRuns
        PROVE  /\ HeldFor(Phase("hold", SubRuns[i][1], SubRuns[i][2]), Hold)
               /\ HeldFor(Phase("log", SubRuns[i][1], SubRuns[i][2]), Observe)
    <3>1. SubRuns[i] \in Nat \X {"H", "M"}
      BY SubRunsAre
    <3>2. /\ 3 + (6 * (i - 1) + 3) \in 1..Len(T2Plan) /\ 3 + (6 * (i - 1) + 6) \in 1..Len(T2Plan)
          /\ T2Plan[3 + (6 * (i - 1) + 3)] = SubPlan(SubRuns[i])[3]
          /\ T2Plan[3 + (6 * (i - 1) + 6)] = SubPlan(SubRuns[i])[6]
      <4>1. 3 \in 1..6 /\ 6 \in 1..6
        OBVIOUS
      <4>. QED
        BY <4>1, T2PlanIs, Zenon
    <3>3. /\ SubPlan(SubRuns[i])[3] = <<"hold", Phase("hold", SubRuns[i][1], SubRuns[i][2]), Hold>>
          /\ SubPlan(SubRuns[i])[6] = <<"hold", Phase("log", SubRuns[i][1], SubRuns[i][2]), Observe>>
      BY <3>1, SubPlanIs
    <3>. QED
      BY <2>1, <3>2, <3>3 DEF HeldFor
  <2>. QED
    BY <1>2, <2>2, <2>3
<1>. QED
  BY <1>1, <1>2

-----------------------------------------------------------------------------
(* Types.                                                                  *)

\* A set of odd things, and what a sample that shows them ends.
LEMMA OddType ==
  ASSUME NEW O \in SomeOdd
  PROVE  O \in Readouts
BY DEF SomeOdd, kSubset, Readouts

\* What the sample checks find is in the sample.
LEMMA FindingIs ==
  ASSUME NEW O, NEW c
  PROVE  /\ Finding(O, c) \in {"", "writer", "lost", "hot", "tach"}
         /\ Finding(O, c) = "" => O \cap Ending = {} /\ ~LostNow(c)
         /\ Finding(O, c) = "lost" => "writer" \notin O /\ LostNow(c)
         /\ Finding(O, c) = "hot" => "hot" \in O
<1>1. LostNow(c) \in BOOLEAN
  BY DEF LostNow
<1>. QED
  BY <1>1 DEF Finding, Ending

\* Counts stay counts.
LEMMA CountsType ==
  ASSUME TypeRun, NEW O
  PROVE  CountsAfter(O) \in [Sensors -> Nat]
<1>1. nan \in [Sensors -> Nat]
  BY DEF TypeRun
<1>2. \A s \in Sensors : nan[s] \in Nat /\ nan[s] + 1 \in Nat
  BY <1>1
<1>3. Counted(O) \in [Sensors -> Nat]
  BY <1>2 DEF Counted
<1>. QED
  BY <1>1, <1>3 DEF CountsAfter

\* Lines of one time at the end of the log.
LEMMA LinesType ==
  ASSUME NEW q \in Seq(Events), NEW texts \in Seq(Texts), now \in Nat
  PROVE  /\ q \o [i \in DOMAIN texts |-> Now(texts[i])] \in Seq(Events)
         /\ Len(q \o [i \in DOMAIN texts |-> Now(texts[i])]) = Len(q) + Len(texts)
         /\ \A k \in 1..Len(q) : (q \o [i \in DOMAIN texts |-> Now(texts[i])])[k] = q[k]
         /\ \A k \in 1..Len(texts) :
              (q \o [i \in DOMAIN texts |-> Now(texts[i])])[Len(q) + k] = Now(texts[k])
<1>. DEFINE r == [i \in DOMAIN texts |-> Now(texts[i])]
            n == Len(texts)
<1>1. n \in Nat /\ DOMAIN texts = 1..n /\ \A i \in 1..n : texts[i] \in Texts
  OBVIOUS
<1>2. \A x \in Texts : Now(x) \in Events
  <2>1. TAKE x \in Texts
  <2>2. now \in Int
    OBVIOUS
  <2>. HIDE DEF r, n
  <2>. QED
    BY <2>2 DEF Now, Events
<1>3. r \in [1..n -> Events] /\ \A i \in 1..n : r[i] = Now(texts[i])
  <2>. HIDE DEF n
  <2>. QED
    BY <1>1, <1>2
<1>. HIDE DEF r, n
<1>4. r \in Seq(Events) /\ Len(r) = n
  BY <1>1, <1>3
<1>5. /\ q \o r \in Seq(Events) /\ Len(q \o r) = Len(q) + Len(r)
      /\ \A k \in 1..Len(q) : (q \o r)[k] = q[k]
      /\ \A k \in 1..Len(r) : (q \o r)[Len(q) + k] = r[k]
  BY <1>4
<1>6. /\ q \o r \in Seq(Events) /\ Len(q \o r) = Len(q) + n
      /\ \A k \in 1..Len(q) : (q \o r)[k] = q[k]
      /\ \A k \in 1..n : (q \o r)[Len(q) + k] = Now(texts[k])
  BY <1>3, <1>4, <1>5
<1>. QED
  BY <1>6 DEF r, n

\* The log grows by lines.
LEMMA LogType ==
  ASSUME TypeHold, TypeData, NEW texts \in Seq(Texts), Log(texts)
  PROVE  /\ events' \in Seq(Events) /\ Len(events') = Len(events) + Len(texts)
         /\ \A k \in 1..Len(events) : events'[k] = events[k]
         /\ \A k \in 1..Len(texts) : events'[Len(events) + k] = Now(texts[k])
<1>1. now \in Nat /\ events \in Seq(Events)
  BY DEF TypeHold, TypeData
<1>. QED
  BY <1>1, LinesType DEF Log

\* What a restore pass reports, one line for every channel of it.
Reports == {"restore ok", "restore differs", "restore failed"}

\* One line for every channel of a pass.
LEMMA RestoreTexts ==
  ASSUME NEW todo \in SUBSET (1..4), NEW Answer \in [todo -> Reports]
  PROVE  LET texts == [i \in DOMAIN Ordered(todo) |-> <<Answer[Ordered(todo)[i]], Ordered(todo)[i], "">>] IN
         /\ texts \in Seq(Texts)
         /\ \A i \in DOMAIN texts : texts[i][1] \in Reports /\ texts[i][2] \in todo
<1>. DEFINE n == Cardinality(todo)
            q == Ordered(todo)
            texts == [i \in DOMAIN q |-> <<Answer[q[i]], q[i], "">>]
<1>1. n \in Nat /\ q \in [1..n -> todo]
  <2>1. 4 \in Nat
    OBVIOUS
  <2>. QED
    BY <2>1, InOrder
<1>. HIDE DEF n, q
<1>2. DOMAIN q = 1..n /\ \A i \in 1..n : q[i] \in todo /\ Answer[q[i]] \in Reports
  BY <1>1
<1>3. \A i \in 1..n : texts[i] \in Texts /\ texts[i][1] \in Reports /\ texts[i][2] \in todo
  <2>1. TAKE i \in 1..n
  <2>. DEFINE c == q[i]
              a == Answer[q[i]]
  <2>2. texts[i] = <<a, c, "">>
    BY <1>2
  <2>3. c \in todo /\ a \in Reports
    BY <1>2
  <2>. HIDE DEF c, a, texts
  <2>4. c \in Nat /\ a \in EventNames /\ "" \in Whats
    <3>1. c \in Nat
      BY <2>3
    <3>2. Reports \subseteq EventNames
      BY Zenon DEF Reports, EventNames
    <3>3. "" \in Whats
      BY DEF Whats
    <3>. QED
      BY <2>3, <3>1, <3>2, <3>3
  <2>5. <<a, c, "">> \in Texts
    BY <2>4 DEF Texts
  <2>6. texts[i][1] = a /\ texts[i][2] = c
    <3>1. <<a, c, "">>[1] = a /\ <<a, c, "">>[2] = c
      OBVIOUS
    <3>. QED
      BY <2>2, <3>1, Zenon
  <2>. QED
    BY <2>2, <2>3, <2>5, <2>6
<1>4. texts \in [1..n -> Texts]
  BY <1>2, <1>3
<1>. HIDE DEF texts
<1>5. texts \in Seq(Texts) /\ DOMAIN texts = 1..n
  BY <1>1, <1>4
<1>. QED
  BY <1>3, <1>5 DEF texts, q

\* A sample that ends a run says why and names a channel.
LEMMA EndsType ==
  ASSUME TypeRun, NEW O, NEW why \in {"writer", "lost", "hot", "tach"}, Ends(why, O)
  PROVE  /\ abort' \in {"", "writer", "lost", "hot", "tach", "cancelled", "command"}
         /\ hot' \in 0..3 /\ abort' # ""
<1>1. hot' \in 0..3
  <2>1. CASE why = "hot"
    BY <2>1, RunnerAssumption DEF Ends
  <2>2. CASE why # "hot"
    BY <2>2 DEF Ends, TypeRun
  <2>. QED
    BY <2>1, <2>2
<1>. QED
  BY <1>1 DEF Ends, Stopped, TypeRun

\* The channels to close are channels.
LEMMA CloseType ==
  ASSUME TypeRun
  PROVE  ToClose \in SUBSET (1..4)
<1>1. HotChannel \in SUBSET (1..4)
  <2>1. {hot} \ {0} \in SUBSET (1..4)
    <3>1. hot \in 0..3
      BY DEF TypeRun
    <3>2. \A x \in {hot} \ {0} : x \in 1..4
      BY <3>1
    <3>. QED
      BY <3>2
  <2>2. {} \in SUBSET (1..4)
    OBVIOUS
  <2>. QED
    BY <2>1, <2>2 DEF HotChannel
<1>. QED
  BY <1>1 DEF ToClose, TypeRun

\* The gates as they are recorded.
LEMMA GatesType ==
  ASSUME TypeRun
  PROVE  /\ WindowGates \in [Gates -> GateValues]
         /\ \A g \in PreGates : WindowGates[g] = gates[g]
         /\ WindowGates["G3"] \in {"PASS", "FAIL", "FAIL?"}
         /\ WindowGates["G4"] \in {"PASS", "FAIL", "FAIL?"}
         /\ WindowGates["G4"] = "PASS" => abort = "" /\ HadValue(Rows(Gate)) = Sensors
<1>. DEFINE a == IF Rows(Gate) = <<>> THEN "FAIL?" ELSE G3(Rows(Gate)[1])
            b == IF abort # "" THEN "FAIL?" ELSE EvalG4(Rows(Gate))
<1>1. a \in {"PASS", "FAIL", "FAIL?"} /\ b \in {"PASS", "FAIL", "FAIL?"}
  BY DEF G3, EvalG4
<1>2. b = "PASS" => abort = "" /\ HadValue(Rows(Gate)) = Sensors
  BY DEF EvalG4
<1>3. WindowGates = [gates EXCEPT !["G3"] = a, !["G4"] = b]
  BY DEF WindowGates
<1>. HIDE DEF a, b
<1>4. gates \in [Gates -> GateValues] /\ {"G3", "G4"} \subseteq Gates /\ PreGates \subseteq Gates
  BY DEF TypeRun, Gates, Blocking
<1>5. {a, b} \subseteq GateValues
  BY <1>1 DEF GateValues
<1>6. "G3" \notin PreGates /\ "G4" \notin PreGates
  BY DEF PreGates
<1>7. WindowGates \in [Gates -> GateValues]
  BY <1>3, <1>4, <1>5
<1>8. WindowGates["G3"] = a /\ WindowGates["G4"] = b /\ \A g \in PreGates : WindowGates[g] = gates[g]
  BY <1>3, <1>4, <1>6
<1>. QED
  BY <1>1, <1>2, <1>7, <1>8

\* The state of the run keeps its types.
LEMMA TypeRunStep ==
  ASSUME IInv, [Next]_vars
  PROVE  TypeRun'
<1>. TypeRun /\ TypeHold /\ TypeData
  BY DEF IInv, TypeOK
<1>1. CASE \E bad \in {{}} \cup {{g} : g \in PreGates}, d, typed \in BOOLEAN : Confirm(bad, d, typed)
  <2>1. PICK bad \in {{}} \cup {{g} : g \in PreGates}, d \in BOOLEAN, typed \in BOOLEAN : Confirm(bad, d, typed)
    BY <1>1
  <2>2. gates' \in [Gates -> GateValues]
    BY <2>1 DEF Confirm, GateValues
  <2>. QED
    BY <2>1, <2>2 DEF Confirm, TypeRun, request, hold, watch, data
<1>2. CASE StartGates
  BY <1>2 DEF StartGates, TypeRun, request, watch, data
<1>3. CASE \E g6 \in {"PASS", "PARTIAL", "FAIL"} : Decide(g6)
  <2>1. PICK g6 \in {"PASS", "PARTIAL", "FAIL"} : Decide(g6)
    BY <1>3
  <2>. DEFINE w == IF Windowed THEN WindowGates ELSE gates
  <2>2. w \in [Gates -> GateValues] /\ g6 \in GateValues
    BY GatesType DEF TypeRun, GateValues
  <2>3. gates' = [w EXCEPT !["G6"] = g6]
    BY <2>1 DEF Decide
  <2>. HIDE DEF w
  <2>4. gates' \in [Gates -> GateValues]
    BY <2>2, <2>3
  <2>5. limits' \in SUBSET Sensors
    BY <2>1 DEF Decide, HadValue
  <2>6. pc' = "test"
    BY <2>1 DEF Decide
  <2>7. UNCHANGED <<request, cancel, abort, hot, nan, touched, aKnown>>
    BY <2>1 DEF Decide
  <2>. QED
    BY <2>4, <2>5, <2>6, <2>7 DEF TypeRun, request
<1>4. CASE \E O \in SomeOdd : TakeSample(O)
  <2>1. PICK O \in SomeOdd : TakeSample(O)
    BY <1>4
  <2>. DEFINE why == Finding(O, CountsAfter(O))
  <2>2. nan' \in [Sensors -> Nat]
    BY <2>1, CountsType DEF TakeSample, Sampled
  <2>3. abort' \in {"", "writer", "lost", "hot", "tach", "cancelled", "command"} /\ hot' \in 0..3
    <3>1. why \in {"", "writer", "lost", "hot", "tach"}
      BY FindingIs
    <3>2. CASE why = ""
      BY <2>1, <3>2 DEF TakeSample, TypeRun
    <3>3. CASE why # ""
      <4>1. Ends(why, O)
        BY <2>1, <3>3 DEF TakeSample
      <4>. HIDE DEF why
      <4>. QED
        BY <3>1, <3>3, <4>1, EndsType
    <3>. QED
      BY <3>2, <3>3
  <2>4. UNCHANGED <<request, pc, cancel, limits, gates, touched, aKnown>>
    BY <2>1 DEF TakeSample, Sampled
  <2>. QED
    BY <2>2, <2>3, <2>4 DEF TypeRun, request
<1>5. CASE \E O \in SomeOdd, slow \in 0..MaxOdd - odd : HoldSample(O, slow)
  <2>1. PICK O \in SomeOdd, slow \in 0..MaxOdd - odd : HoldSample(O, slow)
    BY <1>5
  <2>. DEFINE why == Finding(O, CountsAfter(O))
  <2>2. nan' \in [Sensors -> Nat]
    BY <2>1, CountsType DEF HoldSample, Sampled
  <2>3. abort' \in {"", "writer", "lost", "hot", "tach", "cancelled", "command"} /\ hot' \in 0..3
    <3>1. why \in {"", "writer", "lost", "hot", "tach"}
      BY FindingIs
    <3>2. CASE why = ""
      BY <2>1, <3>2 DEF HoldSample, TypeRun
    <3>3. CASE why # ""
      <4>1. Ends(why, O)
        BY <2>1, <3>3 DEF HoldSample
      <4>. HIDE DEF why
      <4>. QED
        BY <3>1, <3>3, <4>1, EndsType
    <3>. QED
      BY <3>2, <3>3
  <2>4. UNCHANGED <<request, pc, cancel, limits, gates, touched, aKnown>>
    BY <2>1 DEF HoldSample, Sampled
  <2>. QED
    BY <2>2, <2>3, <2>4 DEF TypeRun, request
<1>6. CASE HoldCancelled
  BY <1>6 DEF HoldCancelled, TypeRun, request, watch, data, Stopped
<1>7. CASE \E out \in {"sent", "failed", "no state file"} : Command(out)
  <2>1. {ch} \in SUBSET (1..4)
    BY RunnerAssumption DEF TypeRun
  <2>. QED
    BY <1>7, <2>1 DEF Command, Stopped, TypeRun, request, data
<1>8. CASE Mark
  BY <1>8 DEF Mark, TypeRun, request, watch, data
<1>9. CASE ValueA
  BY <1>9 DEF ValueA, TypeRun, request, watch, data
<1>10. CASE TestEnds
  BY <1>10 DEF TestEnds, TypeRun, request, watch, data
<1>11. CASE \E fails \in SUBSET ToClose : \E differs \in SUBSET (ToClose \ fails) : Restore(fails, differs)
  <2>1. PICK fails \in SUBSET ToClose : touched' = fails
    BY <1>11 DEF Restore
  <2>2. touched' \in SUBSET (1..4)
    BY <2>1, CloseType
  <2>. QED
    BY <1>11, <2>2 DEF Restore, TypeRun, request, watch, data
<1>12. CASE Closed
  BY <1>12 DEF Closed, TypeRun, request, watch, data
<1>13. CASE WriteMeta
  BY <1>13 DEF WriteMeta, TypeRun, request, watch, data
<1>14. CASE WriteVerdict
  BY <1>14 DEF WriteVerdict, TypeRun, request, watch, data
<1>15. CASE Finish
  BY <1>15 DEF Finish, TypeRun, request, watch, data
<1>16. CASE Aftermath
  BY <1>16 DEF Aftermath, TypeRun, request, watch, data
<1>17. CASE Cancel
  BY <1>17 DEF Cancel, TypeRun, request, watch, data
<1>18. CASE \E how \in {"killed", "panic"} : Dies(how)
  BY <1>18 DEF Dies, TypeRun, request, watch, data
<1>19. CASE UNCHANGED vars
  BY <1>19 DEF TypeRun, request, watch, data, vars
<1>. QED
  BY <1>1, <1>2, <1>3, <1>4, <1>5, <1>6, <1>7, <1>8, <1>9, <1>10, <1>11, <1>12, <1>13, <1>14,
    <1>15, <1>16, <1>17, <1>18, <1>19 DEF Next

\* The plan after a stop, and after a step that was done.
LEMMA StoppedPlan ==
  ASSUME NEW why, Stopped(why)
  PROVE  plan' \in Seq(Steps) /\ (pc = "test" => plan' = <<>>)
<1>1. <<"decide">> \in Steps
  BY DEF Steps
<1>2. << <<"decide">> >> \in Seq(Steps) /\ Len(<< <<"decide">> >>) = 1
  BY <1>1
<1>. DEFINE D == << <<"decide">> >>
<1>3. plan' = IF pc = "gates" THEN D ELSE <<>>
  BY DEF Stopped
<1>. HIDE DEF D
<1>4. D \in Seq(Steps) /\ Len(D) = 1 /\ <<>> \in Seq(Steps) /\ Len(<<>>) = 0
  BY <1>2 DEF D
<1>5. plan' = D \/ plan' = <<>>
  BY <1>3
<1>6. plan' \in Seq(Steps)
  <2>1. CASE plan' = D
    BY <1>4, <2>1
  <2>2. CASE plan' = <<>>
    BY <1>4, <2>2
  <2>. QED
    BY <1>5, <2>1, <2>2
<1>7. pc = "test" => plan' = <<>>
  BY <1>3
<1>. QED
  BY <1>6, <1>7

\* The plan after its first step is done.
LEMMA NextPlan ==
  ASSUME TypeHold, plan # <<>>, NEW t \in Nat, NextStep(t)
  PROVE  /\ plan' \in Seq(Steps) /\ slot' \in Nat /\ t0' \in Nat
         /\ Len(plan') = Len(plan) - 1
         /\ \A k \in 1..Len(plan') : plan'[k] = plan[k + 1]
         /\ \A k \in DOMAIN plan' : plan'[k] = plan[k + 1] /\ k + 1 \in DOMAIN plan
<1>1. plan \in Seq(Steps)
  BY DEF TypeHold
<1>2. plan' = Tail(plan) /\ slot' = 1 /\ t0' = t
  BY DEF NextStep
<1>3. /\ Tail(plan) \in Seq(Steps) /\ Len(Tail(plan)) = Len(plan) - 1
      /\ \A k \in DOMAIN Tail(plan) : Tail(plan)[k] = plan[k + 1]
  BY <1>1, HeadTail
<1>4. DOMAIN plan' = 1..Len(plan') /\ DOMAIN plan = 1..Len(plan) /\ Len(plan) \in Nat
  BY <1>1, <1>2, <1>3
<1>5. \A k \in DOMAIN plan' : plan'[k] = plan[k + 1]
  BY <1>2, <1>3
<1>6. \A k \in 1..Len(plan') : k + 1 \in 1..Len(plan)
  BY <1>2, <1>3, <1>4
<1>. QED
  BY <1>2, <1>3, <1>4, <1>5, <1>6

\* The step that is next.
LEMMA NextUp ==
  ASSUME TypeHold, plan # <<>>
  PROVE  Head(plan) \in Steps /\ Head(plan) = plan[1] /\ 1 \in DOMAIN plan
<1>1. plan \in Seq(Steps)
  BY DEF TypeHold
<1>. QED
  BY <1>1, HeadTail

\* What a sample adds.
LEMMA SampleAdds ==
  ASSUME TypeRun, TypeHold, TypeData, NEW ph \in Phases, NEW t \in Nat, NEW O \in Readouts,
         Sampled(ph, t, O)
  PROVE  /\ samples' \in Seq(Samples) /\ Len(samples') = Len(samples) + 1
         /\ samples'[Len(samples) + 1] = [ph |-> ph, ts |-> t, odd |-> O]
         /\ \A k \in DOMAIN samples : samples'[k] = samples[k]
         /\ DOMAIN coll' = DOMAIN coll \cup {ph}
         /\ Got(ph)' = Append(Got(ph), [t |-> t - t0, odd |-> O])
         /\ \A p : p # ph => Got(p)' = Got(p)
         /\ \A p \in DOMAIN coll' : coll'[p] \in Seq(Points)
<1>1. samples \in Seq(Samples) /\ [ph |-> ph, ts |-> t, odd |-> O] \in Samples
  BY DEF TypeData, Samples
<1>2. samples' = Append(samples, [ph |-> ph, ts |-> t, odd |-> O])
  BY DEF Sampled, Row
<1>3. /\ samples' \in Seq(Samples) /\ Len(samples') = Len(samples) + 1
      /\ samples'[Len(samples) + 1] = [ph |-> ph, ts |-> t, odd |-> O]
      /\ \A k \in DOMAIN samples : samples'[k] = samples[k]
  BY <1>1, <1>2, OneMore
<1>. DEFINE q == Append(Got(ph), [t |-> t - t0, odd |-> O])
<1>4. coll' = [p \in DOMAIN coll \cup {ph} |-> IF p = ph THEN q ELSE coll[p]]
  BY DEF Sampled
<1>5. Got(ph) \in Seq(Points) /\ [t |-> t - t0, odd |-> O] \in Points
  <2>1. Got(ph) \in Seq(Points)
    BY DEF TypeData, Got
  <2>2. t - t0 \in Int
    BY DEF TypeHold
  <2>. QED
    BY <2>1, <2>2 DEF Points
<1>6. q \in Seq(Points)
  BY <1>5, OneMore
<1>. HIDE DEF q
<1>7. DOMAIN coll' = DOMAIN coll \cup {ph}
  BY <1>4
<1>8. \A p \in DOMAIN coll' : coll'[p] \in Seq(Points)
  BY <1>4, <1>6, <1>7 DEF TypeData
<1>9. Got(ph)' = q
  BY <1>4, <1>7 DEF Got
<1>10. \A p : p # ph => Got(p)' = Got(p)
  BY <1>4, <1>7 DEF Got
<1>. QED
  BY <1>3, <1>7, <1>8, <1>9, <1>10 DEF q

\* The plan and the state of the hold keep their types.
LEMMA TypeHoldStep ==
  ASSUME IInv, [Next]_vars
  PROVE  TypeHold'
<1>. TypeRun /\ TypeHold /\ TypeData
  BY DEF IInv, TypeOK
<1>. 1 \in Nat /\ slot \in Nat /\ t0 \in Nat /\ now \in Nat /\ t0 + slot \in Nat
  BY DEF TypeHold
<1>1. CASE \E bad \in {{}} \cup {{g} : g \in PreGates}, d, typed \in BOOLEAN : Confirm(bad, d, typed)
  BY <1>1 DEF Confirm, TypeHold, hold
<1>2. CASE StartGates
  BY <1>2, GatePlanType DEF StartGates, TypeHold, hold
<1>3. CASE \E g6 \in {"PASS", "PARTIAL", "FAIL"} : Decide(g6)
  <2>1. <<>> \in Seq(Steps) /\ T1Plan \in Seq(Steps) /\ T2Plan \in Seq(Steps)
    <3>1. <<>> \in Seq(Steps)
      OBVIOUS
    <3>. QED
      BY <3>1, T1PlanIs, T2PlanIs, Zenon
  <2>2. plan' \in {<<>>, T1Plan, T2Plan} /\ slot' = 1 /\ t0' = now /\ now' = now
    BY <1>3, Zenon DEF Decide
  <2>. QED
    BY <2>1, <2>2 DEF TypeHold
<1>4. CASE \E O \in SomeOdd : TakeSample(O)
  <2>1. PICK O \in SomeOdd : TakeSample(O)
    BY <1>4
  <2>. DEFINE why == Finding(O, CountsAfter(O))
  <2>2. plan # <<>> /\ now' = now
    BY <2>1 DEF TakeSample, Does, Sampled
  <2>3. now' \in Nat
    BY <2>2
  <2>4. CASE why # ""
    <3>1. Stopped(why) /\ UNCHANGED <<slot, t0>>
      BY <2>1, <2>4 DEF TakeSample, Ends
    <3>. HIDE DEF why
    <3>. QED
      BY <2>3, <3>1, StoppedPlan DEF TypeHold
  <2>5. CASE why = ""
    <3>1. NextStep(now)
      BY <2>1, <2>5 DEF TakeSample
    <3>. QED
      BY <2>2, <2>3, <3>1, NextPlan DEF TypeHold
  <2>. QED
    BY <2>4, <2>5
<1>5. CASE \E O \in SomeOdd, slow \in 0..MaxOdd - odd : HoldSample(O, slow)
  <2>1. PICK O \in SomeOdd, slow \in 0..MaxOdd - odd : HoldSample(O, slow)
    BY <1>5
  <2>. DEFINE why == Finding(O, CountsAfter(O))
  <2>2. plan # <<>> /\ now' = t0 + slot
    BY <2>1 DEF HoldSample, Does, Sampled
  <2>3. now' \in Nat
    BY <2>2
  <2>4. CASE why # ""
    <3>1. Stopped(why) /\ UNCHANGED <<slot, t0>>
      BY <2>1, <2>4 DEF HoldSample, Ends
    <3>. HIDE DEF why
    <3>. QED
      BY <2>3, <3>1, StoppedPlan DEF TypeHold
  <2>5. CASE why = ""
    <3>1. CASE NextStep(t0 + slot)
      BY <2>2, <2>3, <3>1, NextPlan DEF TypeHold
    <3>2. CASE slot' = SlotAfter(slot, Head(plan)[3], slow) /\ UNCHANGED <<plan, t0>>
      <4>1. Head(plan)[3] \in Nat
        <5>1. Head(plan)[1] = "hold"
          BY <2>1 DEF HoldSample, Does
        <5>. QED
          BY <2>2, <5>1, NextUp, StepTypes
      <4>2. slow \in Nat
        OBVIOUS
      <4>3. slot' \in Nat
        BY <3>2, <4>1, <4>2 DEF SlotAfter
      <4>. QED
        BY <2>3, <3>2, <4>3 DEF TypeHold
    <3>. QED
      BY <2>1, <2>5, <3>1, <3>2 DEF HoldSample
  <2>. QED
    BY <2>4, <2>5
<1>6. CASE HoldCancelled
  <2>1. Stopped("cancelled") /\ UNCHANGED <<slot, t0, now>>
    BY <1>6 DEF HoldCancelled, hold
  <2>. QED
    BY <2>1, StoppedPlan DEF TypeHold
<1>7. CASE \E out \in {"sent", "failed", "no state file"} : Command(out)
  <2>1. plan # <<>> /\ now' = now
    BY <1>7 DEF Command
  <2>2. NextStep(now) \/ (Stopped("command") /\ UNCHANGED <<slot, t0>>)
    BY <1>7 DEF Command
  <2>. QED
    BY <2>1, <2>2, NextPlan, StoppedPlan DEF TypeHold
<1>8. CASE Mark
  <2>1. plan # <<>> /\ NextStep(now) /\ now' = now
    BY <1>8 DEF Mark, Does
  <2>. QED
    BY <2>1, NextPlan DEF TypeHold
<1>9. CASE ValueA
  <2>1. plan # <<>> /\ now' = now
    BY <1>9 DEF ValueA, Does
  <2>2. NextStep(now) \/ (plan' = <<>> /\ UNCHANGED <<slot, t0>>)
    BY <1>9 DEF ValueA
  <2>3. <<>> \in Seq(Steps)
    OBVIOUS
  <2>. QED
    BY <2>1, <2>2, <2>3, NextPlan DEF TypeHold
<1>10. CASE TestEnds
  BY <1>10 DEF TestEnds, TypeHold, hold
<1>11. CASE \E fails \in SUBSET ToClose : \E differs \in SUBSET (ToClose \ fails) : Restore(fails, differs)
  BY <1>11 DEF Restore, TypeHold, hold
<1>12. CASE Closed
  BY <1>12 DEF Closed, TypeHold, hold
<1>13. CASE WriteMeta
  BY <1>13 DEF WriteMeta, TypeHold, hold
<1>14. CASE WriteVerdict
  BY <1>14 DEF WriteVerdict, TypeHold, hold
<1>15. CASE Finish
  BY <1>15 DEF Finish, TypeHold, hold
<1>16. CASE Aftermath
  BY <1>16 DEF Aftermath, TypeHold, hold
<1>17. CASE Cancel
  BY <1>17 DEF Cancel, TypeHold, hold
<1>18. CASE \E how \in {"killed", "panic"} : Dies(how)
  BY <1>18 DEF Dies, TypeHold, hold
<1>19. CASE UNCHANGED vars
  BY <1>19 DEF TypeHold, hold, vars
<1>. QED
  BY <1>1, <1>2, <1>3, <1>4, <1>5, <1>6, <1>7, <1>8, <1>9, <1>10, <1>11, <1>12, <1>13, <1>14,
    <1>15, <1>16, <1>17, <1>18, <1>19 DEF Next

\* The lines of a restore pass.
LEMMA RestoreLogs ==
  ASSUME TypeRun, NEW fails, NEW differs, Restore(fails, differs)
  PROVE  \E texts \in Seq(Texts) :
           /\ Log(texts)
           /\ \A i \in DOMAIN texts : texts[i][1] \in Reports /\ texts[i][2] \in 1..4
<1>. DEFINE todo == IF OfTest THEN touched ELSE ToClose
            Answer(c) == IF c \in fails THEN "restore failed"
                         ELSE IF c \in differs THEN "restore differs" ELSE "restore ok"
            F == [c \in todo |-> Answer(c)]
            texts == [i \in DOMAIN Ordered(todo) |-> <<F[Ordered(todo)[i]], Ordered(todo)[i], "">>]
<1>1. todo \in SUBSET (1..4)
  BY CloseType DEF TypeRun
<1>2. Log([i \in DOMAIN Ordered(todo) |-> <<Answer(Ordered(todo)[i]), Ordered(todo)[i], "">>])
  BY DEF Restore
<1>3. F \in [todo -> Reports]
  BY Zenon DEF Reports
<1>4. \A i \in DOMAIN Ordered(todo) : Ordered(todo)[i] \in todo
  <2>1. 4 \in Nat
    OBVIOUS
  <2>. HIDE DEF todo
  <2>2. Ordered(todo) \in [1..Cardinality(todo) -> todo]
    BY <1>1, <2>1, InOrder
  <2>. QED
    BY <2>2
<1>5. \A c \in todo : F[c] = Answer(c)
  OBVIOUS
<1>. HIDE DEF todo, F, Answer
<1>6. texts = [i \in DOMAIN Ordered(todo) |-> <<Answer(Ordered(todo)[i]), Ordered(todo)[i], "">>]
  BY <1>4, <1>5
<1>7. texts \in Seq(Texts) /\ \A i \in DOMAIN texts : texts[i][1] \in Reports /\ texts[i][2] \in todo
  BY <1>1, <1>3, RestoreTexts
<1>8. Log(texts)
  BY <1>2, <1>6
<1>. HIDE DEF texts
<1>9. \A i \in DOMAIN texts : texts[i][1] \in Reports /\ texts[i][2] \in 1..4
  BY <1>1, <1>7
<1>. QED
  BY <1>7, <1>8, <1>9

\* What is collected and the files of the bundle keep their types.
LEMMA TypeDataStep ==
  ASSUME IInv, [Next]_vars
  PROVE  TypeData'
<1>. TypeRun /\ TypeHold /\ TypeData
  BY DEF IInv, TypeOK
<1>. now \in Nat /\ t0 + slot \in Nat /\ events \in Seq(Events)
  BY DEF TypeHold, TypeData
<1>. <<Plain("ABORT")>> \in Seq(Texts)
  <2>1. "ABORT" \in EventNames
    BY DEF EventNames
  <2>2. Plain("ABORT") \in Texts
    BY <2>1, NamesAreTyped
  <2>. QED
    BY <2>2
<1>1. CASE \E bad \in {{}} \cup {{g} : g \in PreGates}, d, typed \in BOOLEAN : Confirm(bad, d, typed)
  <2>1. samples' = <<>> /\ events' = <<>> /\ UNCHANGED <<coll, subs>>
    BY <1>1 DEF Confirm, CreateBundle, data
  <2>. QED
    BY <2>1 DEF TypeData
<1>2. CASE StartGates
  BY <1>2 DEF StartGates, TypeData, data
<1>3. CASE \E g6 \in {"PASS", "PARTIAL", "FAIL"} : Decide(g6)
  BY <1>3 DEF Decide, TypeData, data
<1>4. CASE \E O \in SomeOdd : TakeSample(O)
  <2>1. PICK O \in SomeOdd : TakeSample(O)
    BY <1>4
  <2>. DEFINE ph == Head(plan)[2]
              why == Finding(O, CountsAfter(O))
  <2>2. plan # <<>> /\ Head(plan)[1] = "sample" /\ Sampled(ph, now, O)
    BY <2>1 DEF TakeSample, Does
  <2>3. ph \in Phases /\ O \in Readouts
    BY <2>2, NextUp, StepTypes, OddType
  <2>4. /\ DOMAIN coll' \in SUBSET Phases /\ \A p \in DOMAIN coll' : coll'[p] \in Seq(Points)
        /\ samples' \in Seq(Samples)
    <3>. HIDE DEF ph
    <3>1. /\ DOMAIN coll' = DOMAIN coll \cup {ph} /\ samples' \in Seq(Samples)
          /\ \A p \in DOMAIN coll' : coll'[p] \in Seq(Points)
      BY <2>2, <2>3, SampleAdds
    <3>. QED
      BY <2>3, <3>1 DEF TypeData
  <2>5. events' \in Seq(Events)
    <3>1. Log(<<Plain("ABORT")>>) \/ UNCHANGED events
      BY <2>1 DEF TakeSample, Ends
    <3>. QED
      BY <3>1, LogType DEF TypeData
  <2>6. subs' \in Seq(Nat \X Whats)
    BY <2>1 DEF TakeSample, TypeData
  <2>. QED
    BY <2>4, <2>5, <2>6 DEF TypeData
<1>5. CASE \E O \in SomeOdd, slow \in 0..MaxOdd - odd : HoldSample(O, slow)
  <2>1. PICK O \in SomeOdd, slow \in 0..MaxOdd - odd : HoldSample(O, slow)
    BY <1>5
  <2>. DEFINE ph == Head(plan)[2]
              why == Finding(O, CountsAfter(O))
  <2>2. plan # <<>> /\ Head(plan)[1] = "hold" /\ Sampled(ph, t0 + slot, O)
    BY <2>1 DEF HoldSample, Does
  <2>3. ph \in Phases /\ O \in Readouts
    BY <2>2, NextUp, StepTypes, OddType
  <2>4. /\ DOMAIN coll' \in SUBSET Phases /\ \A p \in DOMAIN coll' : coll'[p] \in Seq(Points)
        /\ samples' \in Seq(Samples)
    <3>. HIDE DEF ph
    <3>1. /\ DOMAIN coll' = DOMAIN coll \cup {ph} /\ samples' \in Seq(Samples)
          /\ \A p \in DOMAIN coll' : coll'[p] \in Seq(Points)
      BY <2>2, <2>3, SampleAdds
    <3>. QED
      BY <2>3, <3>1 DEF TypeData
  <2>5. events' \in Seq(Events)
    <3>1. Log(<<Plain("ABORT")>>) \/ UNCHANGED events
      BY <2>1 DEF HoldSample, Ends
    <3>. QED
      BY <3>1, LogType DEF TypeData
  <2>6. subs' \in Seq(Nat \X Whats)
    <3>. DEFINE x == <<ph[2], ph[3]>>
                S == Nat \X Whats
    <3>1. subs \in Seq(Nat \X Whats) /\ x \in Nat \X Whats
      BY <2>3 DEF TypeData, Phases
    <3>2. subs' \in {subs, Append(subs, x)}
      BY <2>1 DEF HoldSample, Judge
    <3>. HIDE DEF x, S
    <3>3. Append(subs, x) \in Seq(S)
      BY <3>1, OneMore DEF S
    <3>. QED
      BY <3>1, <3>2, <3>3 DEF S
  <2>. QED
    BY <2>4, <2>5, <2>6 DEF TypeData
<1>6. CASE HoldCancelled
  <2>. DEFINE ph == Head(plan)[2]
  <2>1. plan # <<>> /\ Head(plan)[1] = "hold"
    BY <1>6 DEF HoldCancelled, Does
  <2>2. Log(<<Plain("ABORT")>>) /\ UNCHANGED <<coll, samples>>
    BY <1>6 DEF HoldCancelled
  <2>3. ph \in Phases
    BY <2>1, NextUp, StepTypes
  <2>4. subs' \in Seq(Nat \X Whats)
    <3>. DEFINE x == <<ph[2], ph[3]>>
                S == Nat \X Whats
    <3>1. subs \in Seq(Nat \X Whats) /\ x \in Nat \X Whats
      BY <2>3 DEF TypeData, Phases
    <3>2. subs' \in {subs, Append(subs, x)}
      BY <1>6 DEF HoldCancelled, Judge
    <3>. HIDE DEF x, S
    <3>3. Append(subs, x) \in Seq(S)
      BY <3>1, OneMore DEF S
    <3>. QED
      BY <3>1, <3>2, <3>3 DEF S
  <2>5. events' \in Seq(Events)
    BY <2>2, LogType
  <2>. QED
    BY <2>2, <2>4, <2>5 DEF TypeData
<1>7. CASE \E out \in {"sent", "failed", "no state file"} : Command(out)
  <2>1. UNCHANGED <<coll, subs, samples>>
    BY <1>7 DEF Command, data
  <2>2. PICK texts \in Seq(Texts) : Log(texts)
    <3>1. {"FAILED", "manual", "auto", "write"} \subseteq EventNames
      BY Zenon DEF EventNames, CommandTexts
    <3>2. Plain("FAILED") \in Texts /\ Plain("ABORT") \in Texts
      <4>1. "ABORT" \in EventNames
        BY DEF EventNames
      <4>. QED
        BY <3>1, <4>1, NamesAreTyped
    <3>3. <<Plain("FAILED"), Plain("ABORT")>> \in Seq(Texts)
      BY <3>2
    <3>. DEFINE s == Head(plan)
                x == IF Len(s) > 1 THEN s[2] ELSE Plain(s[1])
    <3>4. plan # <<>> /\ s[1] \in {"manual", "write", "auto"}
      BY <1>7 DEF Command
    <3>5. s \in Steps
      BY <3>4, NextUp
    <3>6. x \in Texts
      <4>. HIDE DEF s
      <4>1. s[1] = "write" => s[2] \in Texts
        BY <3>5, StepTypes
      <4>2. s[1] \in {"manual", "auto"} => Len(s) = 1
        BY <3>5, StepTypes
      <4>3. Plain(s[1]) \in Texts
        BY <3>1, <3>4, NamesAreTyped
      <4>4. CASE s[1] = "write"
        BY <4>1, <4>3, <4>4
      <4>5. CASE s[1] \in {"manual", "auto"}
        BY <4>2, <4>3, <4>5
      <4>. QED
        BY <3>4, <4>4, <4>5
    <3>7. Log(<<x>>) \/ Log(<<Plain("FAILED"), Plain("ABORT")>>) \/ Log(<<Plain("ABORT")>>)
      BY <1>7 DEF Command
    <3>. HIDE DEF x
    <3>8. <<x>> \in Seq(Texts)
      BY <3>6
    <3>. QED
      BY <3>3, <3>7, <3>8
  <2>3. events' \in Seq(Events)
    BY <2>2, LogType
  <2>. QED
    BY <2>1, <2>3 DEF TypeData
<1>8. CASE Mark
  <2>1. UNCHANGED <<coll, subs, samples>> /\ Log(<<Head(plan)[2]>>)
    BY <1>8 DEF Mark, data
  <2>2. plan # <<>> /\ Head(plan)[1] = "mark"
    BY <1>8 DEF Mark, Does
  <2>3. Head(plan)[2] \in Texts
    BY <2>2, NextUp, StepTypes
  <2>4. <<Head(plan)[2]>> \in Seq(Texts)
    BY <2>3
  <2>5. events' \in Seq(Events)
    BY <2>1, <2>4, LogType
  <2>. QED
    BY <2>1, <2>5 DEF TypeData
<1>9. CASE ValueA
  BY <1>9 DEF ValueA, TypeData, data
<1>10. CASE TestEnds
  BY <1>10 DEF TestEnds, TypeData, data
<1>11. CASE \E fails \in SUBSET ToClose : \E differs \in SUBSET (ToClose \ fails) : Restore(fails, differs)
  <2>1. PICK fails \in SUBSET ToClose : \E differs \in SUBSET (ToClose \ fails) : Restore(fails, differs)
    BY <1>11
  <2>2. PICK differs \in SUBSET (ToClose \ fails) : Restore(fails, differs)
    BY <2>1
  <2>3. UNCHANGED <<coll, subs, samples>>
    BY <2>2 DEF Restore, data
  <2>4. PICK texts \in Seq(Texts) : Log(texts)
    BY <2>2, RestoreLogs
  <2>5. events' \in Seq(Events)
    BY <2>4, LogType
  <2>. QED
    BY <2>3, <2>5 DEF TypeData
<1>12. CASE Closed
  BY <1>12 DEF Closed, TypeData, data
<1>13. CASE WriteMeta
  BY <1>13 DEF WriteMeta, TypeData, data
<1>14. CASE WriteVerdict
  BY <1>14 DEF WriteVerdict, TypeData, data
<1>15. CASE Finish
  BY <1>15 DEF Finish, TypeData, data
<1>16. CASE Aftermath
  <2>1. UNCHANGED <<coll, subs, samples>> /\ events' = Append(events, [e |-> Plain("guardian"), ts |-> -1])
    BY <1>16 DEF Aftermath, data
  <2>2. "guardian" \in EventNames
    BY DEF EventNames
  <2>3. [e |-> Plain("guardian"), ts |-> -1] \in Events
    BY <2>2, NamesAreTyped DEF Events
  <2>4. events' \in Seq(Events)
    BY <2>1, <2>3, OneMore
  <2>. QED
    BY <2>1, <2>4 DEF TypeData
<1>17. CASE Cancel
  BY <1>17 DEF Cancel, TypeData, data
<1>18. CASE \E how \in {"killed", "panic"} : Dies(how)
  BY <1>18 DEF Dies, TypeData, data
<1>19. CASE UNCHANGED vars
  BY <1>19 DEF TypeData, data, vars
<1>. QED
  BY <1>1, <1>2, <1>3, <1>4, <1>5, <1>6, <1>7, <1>8, <1>9, <1>10, <1>11, <1>12, <1>13, <1>14,
    <1>15, <1>16, <1>17, <1>18, <1>19 DEF Next

-----------------------------------------------------------------------------
(* What may be sent.                                                       *)

\* A sample of a phase: what both actions that take one do.
SampleOf(ph, t, O) ==
  /\ pc \in {"gates", "test"} /\ plan # <<>>
  /\ Head(plan)[1] \in {"sample", "hold"} /\ Head(plan)[2] = ph
  /\ ph \in Phases /\ t \in Nat /\ O \in Readouts
  /\ Sampled(ph, t, O)
  /\ IF Finding(O, CountsAfter(O)) = ""
     THEN abort' = abort /\ (plan' = plan \/ \E u \in Nat : NextStep(u))
     ELSE Stopped(Finding(O, CountsAfter(O)))
  /\ subs' \in {subs, IF ph[1] = "log" THEN Append(subs, <<ph[2], ph[3]>>) ELSE subs}

\* The two actions that take a sample.
LEMMA SamplesOf ==
  ASSUME TypeOK,
         (\E O \in SomeOdd : TakeSample(O)) \/ (\E O \in SomeOdd, slow \in 0..MaxOdd - odd : HoldSample(O, slow))
  PROVE  \E ph, t, O : SampleOf(ph, t, O)
<1>. TypeHold /\ now \in Nat /\ t0 + slot \in Nat
  BY DEF TypeOK, TypeHold
<1>1. ASSUME NEW O \in SomeOdd, TakeSample(O)
      PROVE  SampleOf(Head(plan)[2], now, O)
  <2>1. pc \in {"gates", "test"} /\ plan # <<>> /\ Head(plan)[1] = "sample"
    BY <1>1 DEF TakeSample, Does
  <2>2. Head(plan)[2] \in Phases /\ O \in Readouts
    BY <2>1, NextUp, StepTypes, OddType
  <2>3. Sampled(Head(plan)[2], now, O) /\ UNCHANGED subs
    BY <1>1 DEF TakeSample
  <2>4. IF Finding(O, CountsAfter(O)) = "" THEN abort' = abort /\ NextStep(now)
        ELSE Stopped(Finding(O, CountsAfter(O)))
    BY <1>1, Zenon DEF TakeSample, Ends
  <2>. QED
    BY <2>1, <2>2, <2>3, <2>4 DEF SampleOf
<1>2. ASSUME NEW O \in SomeOdd, NEW slow \in 0..MaxOdd - odd, HoldSample(O, slow)
      PROVE  SampleOf(Head(plan)[2], t0 + slot, O)
  <2>1. pc \in {"gates", "test"} /\ plan # <<>> /\ Head(plan)[1] = "hold"
    BY <1>2 DEF HoldSample, Does
  <2>2. Head(plan)[2] \in Phases /\ O \in Readouts
    BY <2>1, NextUp, StepTypes, OddType
  <2>3. Sampled(Head(plan)[2], t0 + slot, O)
    BY <1>2 DEF HoldSample
  <2>4. IF Finding(O, CountsAfter(O)) = ""
        THEN abort' = abort /\ (plan' = plan \/ NextStep(t0 + slot))
        ELSE Stopped(Finding(O, CountsAfter(O)))
    BY <1>2, Zenon DEF HoldSample, Ends
  <2>5. LET ph == Head(plan)[2] IN
        subs' \in {subs, IF ph[1] = "log" THEN Append(subs, <<ph[2], ph[3]>>) ELSE subs}
    BY <1>2 DEF HoldSample, Judge, Evaluated
  <2>. QED
    BY <2>1, <2>2, <2>3, <2>4, <2>5 DEF SampleOf
<1>. QED
  BY <1>1, <1>2

\* Steps that remain are steps of the plan.
LEMMA StepsLeft ==
  ASSUME TypeHold, plan # <<>>, NEW t \in Nat, NextStep(t)
  PROVE  (GateSteps(plan) => GateSteps(plan')) /\ (TestSteps(plan) => TestSteps(plan'))
<1>1. \A k \in DOMAIN plan' : plan'[k] = plan[k + 1] /\ k + 1 \in DOMAIN plan
  BY NextPlan
<1>. QED
  BY <1>1 DEF GateSteps, TestSteps

\* After a stop the gates are still recorded.
LEMMA StopSteps ==
  ASSUME NEW why, Stopped(why)
  PROVE  GateSteps(plan')
<1>. DEFINE D == << <<"decide">> >>
<1>1. plan' = IF pc = "gates" THEN D ELSE <<>>
  BY DEF Stopped
<1>2. GateSteps(D) /\ GateSteps(<<>>)
  BY DEF GateSteps
<1>. HIDE DEF D
<1>. QED
  BY <1>1, <1>2

\* No sample of the gates is one of a test.
LEMMA GatePhases ==
  ASSUME NEW ph \in {Boot, Gate}
  PROVE  ph[1] # "log"
<1>1. Boot[1] = "boot" /\ Gate[1] = "gate"
  BY DEF Boot, Gate, Phase
<1>. QED
  BY <1>1

\* Before the test there are only samples, the hold of the gate window and the decision.
LEMMA GateOps ==
  ASSUME TypeHold, Before, pc = "gates", plan # <<>>
  PROVE  Head(plan)[1] \in {"sample", "hold", "decide"}
BY NextUp DEF Before, GateSteps

\* A sample before the test.
LEMMA SampleBefore ==
  ASSUME TypeOK, Before, NEW ph, NEW t, NEW O, SampleOf(ph, t, O)
  PROVE  Before'
<1>. TypeRun /\ TypeHold /\ TypeData
  BY DEF TypeOK
<1>1. /\ ph \in Phases /\ t \in Nat /\ O \in Readouts /\ Sampled(ph, t, O) /\ plan # <<>>
      /\ UNCHANGED <<pc, limits, aKnown, results, touched>>
  BY DEF SampleOf, Sampled
<1>2. CASE pc = "gates"
  <2>1. ph \in {Boot, Gate}
    BY <1>2, NextUp DEF SampleOf, Before, GateSteps
  <2>2. \A i \in DOMAIN samples' : ~IsTest(samples'[i])
    <3>1. /\ samples' \in Seq(Samples) /\ Len(samples') = Len(samples) + 1
          /\ samples'[Len(samples) + 1] = [ph |-> ph, ts |-> t, odd |-> O]
          /\ \A k \in DOMAIN samples : samples'[k] = samples[k]
      BY <1>1, SampleAdds
    <3>2. \A i \in DOMAIN samples' : i \in DOMAIN samples \/ i = Len(samples) + 1
      BY <3>1 DEF TypeData
    <3>3. ~IsTest([ph |-> ph, ts |-> t, odd |-> O])
      BY <2>1 DEF IsTest
    <3>. QED
      BY <1>2, <3>1, <3>2, <3>3 DEF Before
  <2>3. DOMAIN coll' \subseteq {Boot, Gate}
    BY <1>1, <1>2, <2>1, SampleAdds DEF Before
  <2>4. nan' = [s \in Sensors |-> 0]
    <3>1. limits = {} /\ nan = [s \in Sensors |-> 0] /\ nan' = CountsAfter(O)
      BY <1>1, <1>2 DEF Before, Sampled
    <3>2. Counted(O) = [s \in Sensors |-> 0]
      BY <3>1 DEF Counted
    <3>. QED
      BY <3>1, <3>2 DEF CountsAfter
  <2>5. subs' = subs
    BY <2>1, GatePhases DEF SampleOf
  <2>6. abort' # "lost"
    <3>1. ~LostNow(CountsAfter(O)) /\ abort # "lost"
      BY <1>2 DEF LostNow, Before
    <3>2. Finding(O, CountsAfter(O)) # "lost"
      BY <3>1, FindingIs
    <3>. QED
      BY <3>1, <3>2 DEF SampleOf, Stopped
  <2>7. GateSteps(plan')
    <3>1. GateSteps(plan)
      BY <1>2 DEF Before
    <3>2. plan' = plan \/ (\E u \in Nat : NextStep(u)) \/ \E why : Stopped(why)
      BY Zenon DEF SampleOf
    <3>3. (\E u \in Nat : NextStep(u)) => GateSteps(plan')
      BY <1>1, <3>1, StepsLeft
    <3>4. (\E why : Stopped(why)) => GateSteps(plan')
      BY StopSteps
    <3>. QED
      BY <3>1, <3>2, <3>3, <3>4
  <2>. QED
    BY <1>1, <1>2, <2>2, <2>3, <2>4, <2>5, <2>6, <2>7 DEF Before
<1>3. CASE pc = "test"
  BY <1>1, <1>3 DEF Before
<1>. QED
  BY <1>2, <1>3 DEF SampleOf

\* No step takes anything of a test before the test.
LEMMA BeforeStep ==
  ASSUME IInv, [Next]_vars
  PROVE  Before'
<1>. TypeOK /\ TypeRun /\ TypeHold /\ TypeData /\ Before
  BY DEF IInv, TypeOK
<1>1. CASE \E bad \in {{}} \cup {{g} : g \in PreGates}, d, typed \in BOOLEAN : Confirm(bad, d, typed)
  <2>1. samples' = <<>> /\ pc = "confirm"
    BY <1>1 DEF Confirm, CreateBundle
  <2>2. \A i \in DOMAIN samples' : ~IsTest(samples'[i])
    BY <2>1
  <2>3. UNCHANGED <<limits, nan, abort, plan, coll, subs, aKnown, results, touched>>
    BY <1>1 DEF Confirm, watch, data
  <2>. QED
    BY <2>1, <2>2, <2>3 DEF Before
<1>2. CASE StartGates
  <2>1. GateSteps(GatePlan)
    BY GatePlanType DEF GateSteps
  <2>2. pc = "gates" /\ plan' = GatePlan /\ UNCHANGED <<pc, limits, nan, abort, samples, coll, subs, aKnown, results, touched>>
    BY <1>2 DEF StartGates, watch, data
  <2>. QED
    BY <2>1, <2>2 DEF Before
<1>3. CASE \E g6 \in {"PASS", "PARTIAL", "FAIL"} : Decide(g6)
  BY <1>3 DEF Decide, Before
<1>4. CASE \E O \in SomeOdd : TakeSample(O)
  <2>1. PICK ph, t, O : SampleOf(ph, t, O)
    BY <1>4, SamplesOf
  <2>. QED
    BY <2>1, SampleBefore
<1>5. CASE \E O \in SomeOdd, slow \in 0..MaxOdd - odd : HoldSample(O, slow)
  <2>1. PICK ph, t, O : SampleOf(ph, t, O)
    BY <1>5, SamplesOf
  <2>. QED
    BY <2>1, SampleBefore
<1>6. CASE HoldCancelled
  <2>1. Stopped("cancelled") /\ UNCHANGED <<pc, limits, nan, samples, coll, aKnown, results, touched>>
    BY <1>6 DEF HoldCancelled
  <2>3. CASE pc = "gates"
    <3>1. plan # <<>> /\ Head(plan)[1] = "hold"
      BY <1>6 DEF HoldCancelled, Does
    <3>2. Head(plan)[2] \in {Boot, Gate}
      BY <2>3, <3>1, NextUp DEF Before, GateSteps
    <3>3. subs' = subs
      BY <1>6, <3>2, GatePhases DEF HoldCancelled, Judge, Evaluated
    <3>4. GateSteps(plan') /\ abort' # "lost"
      BY <2>1, <2>3, StopSteps DEF Stopped, Before
    <3>. QED
      BY <2>1, <2>3, <3>3, <3>4 DEF Before
  <2>4. CASE pc # "gates"
    BY <1>6, <2>1, <2>4 DEF Before, HoldCancelled, Does
  <2>. QED
    BY <2>3, <2>4
<1>7. CASE \E out \in {"sent", "failed", "no state file"} : Command(out)
  BY <1>7 DEF Command, Before, watch, data
<1>8. CASE Mark
  BY <1>8 DEF Mark, Before, watch, data, Does, GateSteps
<1>9. CASE ValueA
  <2>1. pc # "gates"
    BY <1>9, GateOps DEF ValueA, Does
  <2>. QED
    BY <1>9, <2>1 DEF ValueA, Does, Before
<1>10. CASE TestEnds
  BY <1>10 DEF TestEnds, Before, watch, data
<1>11. CASE \E fails \in SUBSET ToClose : \E differs \in SUBSET (ToClose \ fails) : Restore(fails, differs)
  BY <1>11 DEF Restore, Before, watch, data
<1>12. CASE Closed
  BY <1>12 DEF Closed, Before, watch, data
<1>13. CASE WriteMeta
  BY <1>13 DEF WriteMeta, Before, watch, data
<1>14. CASE WriteVerdict
  BY <1>14 DEF WriteVerdict, Before, watch, data
<1>15. CASE Finish
  BY <1>15 DEF Finish, Before, watch, data
<1>16. CASE Aftermath
  BY <1>16 DEF Aftermath, Before, watch, data
<1>17. CASE Cancel
  BY <1>17 DEF Cancel, Before, watch, data
<1>18. CASE \E how \in {"killed", "panic"} : Dies(how)
  BY <1>18 DEF Dies, Before, watch, data
<1>19. CASE UNCHANGED vars
  BY <1>19 DEF Before, watch, data, vars
<1>. QED
  BY <1>1, <1>2, <1>3, <1>4, <1>5, <1>6, <1>7, <1>8, <1>9, <1>10, <1>11, <1>12, <1>13, <1>14,
    <1>15, <1>16, <1>17, <1>18, <1>19 DEF Next

\* The confirmation and the first gates stay as they are.
LEMMA AtGatesStep ==
  ASSUME IInv, [Next]_vars
  PROVE  AtGates'
<1>. TypeOK /\ TypeRun /\ AtGates
  BY DEF IInv, TypeOK
<1>1. CASE \E bad \in {{}} \cup {{g} : g \in PreGates}, d, typed \in BOOLEAN : Confirm(bad, d, typed)
  <2>1. PICK bad \in {{}} \cup {{g} : g \in PreGates}, d \in BOOLEAN, typed \in BOOLEAN : Confirm(bad, d, typed)
    BY <1>1
  <2>2. gates' = [g \in Gates |-> IF g \in bad THEN "FAIL" ELSE IF g \in PreGates THEN "PASS" ELSE "SKIPPED"]
    BY <2>1 DEF Confirm
  <2>3. \A g \in PreGates : gates'[g] \in {"PASS", "FAIL"}
    BY <2>2 DEF Gates, Blocking
  <2>4. pc' = "gates" => (Writing' => confirmed')
    BY <2>1 DEF Confirm, Writing
  <2>. QED
    BY <2>3, <2>4 DEF AtGates
<1>2. CASE StartGates
  BY <1>2 DEF StartGates, AtGates, Writing, request
<1>3. CASE \E g6 \in {"PASS", "PARTIAL", "FAIL"} : Decide(g6)
  BY <1>3 DEF Decide, AtGates, Writing, request
<1>4. CASE \E O \in SomeOdd : TakeSample(O)
  <2>1. PICK ph, t, O : SampleOf(ph, t, O)
    BY <1>4, SamplesOf
  <2>2. UNCHANGED <<pc, gates, request>>
    BY <2>1 DEF SampleOf, Sampled
  <2>. QED
    BY <2>2 DEF AtGates, Writing, request
<1>5. CASE \E O \in SomeOdd, slow \in 0..MaxOdd - odd : HoldSample(O, slow)
  <2>1. PICK ph, t, O : SampleOf(ph, t, O)
    BY <1>5, SamplesOf
  <2>2. UNCHANGED <<pc, gates, request>>
    BY <2>1 DEF SampleOf, Sampled
  <2>. QED
    BY <2>2 DEF AtGates, Writing, request
<1>6. CASE HoldCancelled
  BY <1>6 DEF HoldCancelled, AtGates, Writing, request
<1>7. CASE \E out \in {"sent", "failed", "no state file"} : Command(out)
  BY <1>7 DEF Command, AtGates, Writing, request
<1>8. CASE Mark
  BY <1>8 DEF Mark, AtGates, Writing, request
<1>9. CASE ValueA
  BY <1>9 DEF ValueA, AtGates, Writing, request
<1>10. CASE TestEnds
  BY <1>10 DEF TestEnds, AtGates, Writing, request
<1>11. CASE \E fails \in SUBSET ToClose : \E differs \in SUBSET (ToClose \ fails) : Restore(fails, differs)
  BY <1>11 DEF Restore, AtGates, Writing, request
<1>12. CASE Closed
  BY <1>12 DEF Closed, AtGates, Writing, request
<1>13. CASE WriteMeta
  BY <1>13 DEF WriteMeta, AtGates, Writing, request
<1>14. CASE WriteVerdict
  BY <1>14 DEF WriteVerdict, AtGates, Writing, request
<1>15. CASE Finish
  BY <1>15 DEF Finish, AtGates, Writing, request
<1>16. CASE Aftermath
  BY <1>16 DEF Aftermath, AtGates, Writing, request
<1>17. CASE Cancel
  BY <1>17 DEF Cancel, AtGates, Writing, request
<1>18. CASE \E how \in {"killed", "panic"} : Dies(how)
  BY <1>18 DEF Dies, AtGates, Writing, request
<1>19. CASE UNCHANGED vars
  BY <1>19 DEF AtGates, Writing, request, vars
<1>. QED
  BY <1>1, <1>2, <1>3, <1>4, <1>5, <1>6, <1>7, <1>8, <1>9, <1>10, <1>11, <1>12, <1>13, <1>14,
    <1>15, <1>16, <1>17, <1>18, <1>19 DEF Next

\* What a sample that ended nothing did not find, and the samples with it.
LEMMA SampleFinds ==
  ASSUME TypeOK, NEW ph, NEW t, NEW O, SampleOf(ph, t, O), abort' = ""
  PROVE  abort = "" /\ O \cap Ending = {} /\ ~LostNow(CountsAfter(O))
<1>1. Finding(O, CountsAfter(O)) = "" /\ abort = ""
  BY DEF SampleOf, Stopped
<1>. QED
  BY <1>1, FindingIs

\* A sample that found something stopped the run.
LEMMA NothingFoundStep ==
  ASSUME IInv, [Next]_vars
  PROVE  NothingFound'
<1>. TypeOK /\ TypeRun /\ TypeHold /\ TypeData /\ NothingFound
  BY DEF IInv, TypeOK
<1>. DEFINE Clean(q) == \A i \in DOMAIN q : q[i].odd \cap Ending = {}
<1>1. CASE \E bad \in {{}} \cup {{g} : g \in PreGates}, d, typed \in BOOLEAN : Confirm(bad, d, typed)
  <2>1. samples' = <<>>
    BY <1>1 DEF Confirm, CreateBundle
  <2>2. Clean(samples')
    BY <2>1
  <2>. QED
    BY <2>2 DEF NothingFound
<1>2. CASE StartGates
  BY <1>2 DEF StartGates, NothingFound, watch
<1>3. CASE \E g6 \in {"PASS", "PARTIAL", "FAIL"} : Decide(g6)
  <2>1. pc \in {"gates", "test"} /\ UNCHANGED <<abort, samples>>
    BY <1>3 DEF Decide, Does
  <2>. QED
    BY <2>1 DEF NothingFound
<1>4. CASE \E O \in SomeOdd : TakeSample(O)
  <2>1. PICK ph, t, O : SampleOf(ph, t, O)
    BY <1>4, SamplesOf
  <2>2. SUFFICES ASSUME abort' = ""
                 PROVE  Clean(samples')
    BY DEF NothingFound
  <2>3. abort = "" /\ O \cap Ending = {}
    BY <2>1, <2>2, SampleFinds
  <2>4. Clean(samples)
    BY <2>1, <2>3 DEF NothingFound, SampleOf
  <2>5. /\ samples' \in Seq(Samples) /\ Len(samples') = Len(samples) + 1
        /\ samples'[Len(samples) + 1] = [ph |-> ph, ts |-> t, odd |-> O]
        /\ \A k \in DOMAIN samples : samples'[k] = samples[k]
    BY <2>1, SampleAdds DEF SampleOf
  <2>6. \A i \in DOMAIN samples' : i \in DOMAIN samples \/ i = Len(samples) + 1
    BY <2>5 DEF TypeData
  <2>7. [ph |-> ph, ts |-> t, odd |-> O].odd = O
    OBVIOUS
  <2>. QED
    BY <2>3, <2>4, <2>5, <2>6, <2>7
<1>5. CASE \E O \in SomeOdd, slow \in 0..MaxOdd - odd : HoldSample(O, slow)
  <2>1. PICK ph, t, O : SampleOf(ph, t, O)
    BY <1>5, SamplesOf
  <2>2. SUFFICES ASSUME abort' = ""
                 PROVE  Clean(samples')
    BY DEF NothingFound
  <2>3. abort = "" /\ O \cap Ending = {}
    BY <2>1, <2>2, SampleFinds
  <2>4. Clean(samples)
    BY <2>1, <2>3 DEF NothingFound, SampleOf
  <2>5. /\ samples' \in Seq(Samples) /\ Len(samples') = Len(samples) + 1
        /\ samples'[Len(samples) + 1] = [ph |-> ph, ts |-> t, odd |-> O]
        /\ \A k \in DOMAIN samples : samples'[k] = samples[k]
    BY <2>1, SampleAdds DEF SampleOf
  <2>6. \A i \in DOMAIN samples' : i \in DOMAIN samples \/ i = Len(samples) + 1
    BY <2>5 DEF TypeData
  <2>7. [ph |-> ph, ts |-> t, odd |-> O].odd = O
    OBVIOUS
  <2>. QED
    BY <2>3, <2>4, <2>5, <2>6, <2>7
<1>6. CASE HoldCancelled
  BY <1>6 DEF HoldCancelled, NothingFound, watch, Stopped
<1>7. CASE \E out \in {"sent", "failed", "no state file"} : Command(out)
  BY <1>7 DEF Command, NothingFound, watch, Stopped
<1>8. CASE Mark
  BY <1>8 DEF Mark, NothingFound, watch
<1>9. CASE ValueA
  BY <1>9 DEF ValueA, NothingFound, watch
<1>10. CASE TestEnds
  BY <1>10 DEF TestEnds, NothingFound, watch
<1>11. CASE \E fails \in SUBSET ToClose : \E differs \in SUBSET (ToClose \ fails) : Restore(fails, differs)
  BY <1>11 DEF Restore, NothingFound, watch
<1>12. CASE Closed
  BY <1>12 DEF Closed, NothingFound, watch
<1>13. CASE WriteMeta
  BY <1>13 DEF WriteMeta, NothingFound, watch
<1>14. CASE WriteVerdict
  BY <1>14 DEF WriteVerdict, NothingFound, watch
<1>15. CASE Finish
  BY <1>15 DEF Finish, NothingFound, watch
<1>16. CASE Aftermath
  BY <1>16 DEF Aftermath, NothingFound, watch
<1>17. CASE Cancel
  BY <1>17 DEF Cancel, NothingFound, watch
<1>18. CASE \E how \in {"killed", "panic"} : Dies(how)
  BY <1>18 DEF Dies, NothingFound, watch
<1>19. CASE UNCHANGED vars
  BY <1>19 DEF NothingFound, watch, vars
<1>. QED
  BY <1>1, <1>2, <1>3, <1>4, <1>5, <1>6, <1>7, <1>8, <1>9, <1>10, <1>11, <1>12, <1>13, <1>14,
    <1>15, <1>16, <1>17, <1>18, <1>19 DEF Next

\* A test has no result before its end.
LEMMA NoResultStep ==
  ASSUME IInv, [Next]_vars
  PROVE  NoResult'
<1>. NoResult /\ TypeRun
  BY DEF IInv, TypeOK
<1>1. CASE \E bad \in {{}} \cup {{g} : g \in PreGates}, d, typed \in BOOLEAN : Confirm(bad, d, typed)
  BY <1>1 DEF Confirm, NoResult, data
<1>2. CASE StartGates
  BY <1>2 DEF StartGates, NoResult, data
<1>3. CASE \E g6 \in {"PASS", "PARTIAL", "FAIL"} : Decide(g6)
  BY <1>3 DEF Decide, NoResult, data
<1>4. CASE \E O \in SomeOdd : TakeSample(O)
  BY <1>4 DEF TakeSample, Sampled, NoResult
<1>5. CASE \E O \in SomeOdd, slow \in 0..MaxOdd - odd : HoldSample(O, slow)
  BY <1>5 DEF HoldSample, Sampled, NoResult
<1>6. CASE HoldCancelled
  BY <1>6 DEF HoldCancelled, NoResult, data
<1>7. CASE \E out \in {"sent", "failed", "no state file"} : Command(out)
  BY <1>7 DEF Command, NoResult, data
<1>8. CASE Mark
  BY <1>8 DEF Mark, NoResult, data
<1>9. CASE ValueA
  BY <1>9 DEF ValueA, NoResult, data, Does
<1>10. CASE TestEnds
  BY <1>10 DEF TestEnds, NoResult, data
<1>11. CASE \E fails \in SUBSET ToClose : \E differs \in SUBSET (ToClose \ fails) : Restore(fails, differs)
  BY <1>11 DEF Restore, NoResult, data
<1>12. CASE Closed
  BY <1>12 DEF Closed, NoResult, data
<1>13. CASE WriteMeta
  BY <1>13 DEF WriteMeta, NoResult, data
<1>14. CASE WriteVerdict
  BY <1>14 DEF WriteVerdict, NoResult, data
<1>15. CASE Finish
  BY <1>15 DEF Finish, NoResult, data
<1>16. CASE Aftermath
  BY <1>16 DEF Aftermath, NoResult, data
<1>17. CASE Cancel
  BY <1>17 DEF Cancel, NoResult, data
<1>18. CASE \E how \in {"killed", "panic"} : Dies(how)
  BY <1>18 DEF Dies, NoResult, data
<1>19. CASE UNCHANGED vars
  BY <1>19 DEF NoResult, data, vars
<1>. QED
  BY <1>1, <1>2, <1>3, <1>4, <1>5, <1>6, <1>7, <1>8, <1>9, <1>10, <1>11, <1>12, <1>13, <1>14,
    <1>15, <1>16, <1>17, <1>18, <1>19 DEF Next

\* A test that goes on.
LEMMA GoesOn ==
  ASSUME Started, pc = "test", plan # <<>>, TestSteps(plan'),
         UNCHANGED <<request, pc, abort, limits, gates, results>>
  PROVE  Started'
BY DEF Started, Writing, request

\* A test that is over has nothing to do.
LEMMA NotInTest ==
  ASSUME pc' # "test" \/ plan' = <<>>
  PROVE  Started'
BY DEF Started

\* The gates that a started test has passed.
LEMMA GatesPassed ==
  ASSUME TypeRun, AtGates, Before, pc = "gates", NEW g6 \in {"PASS", "PARTIAL", "FAIL"}, Decide(g6), plan' # <<>>
  PROVE  /\ abort = "" /\ cancel = FALSE /\ confirmed /\ Writing /\ dcrOK /\ touched = {}
         /\ limits' = Sensors /\ results' = Inconclusive
         /\ \A g \in Blocking : gates'[g] = "PASS"
         /\ plan' = Full
<1>. DEFINE w == IF Windowed THEN WindowGates ELSE gates
            g == [w EXCEPT !["G6"] = g6]
<1>1. /\ gates' = g
      /\ ~(Blocked(g) /\ Writing) /\ ~(abort # "" \/ cancel) /\ Writing /\ dcrOK
      /\ plan' = IF test = "map" THEN T1Plan ELSE T2Plan
      /\ limits' = IF Windowed /\ abort = "" THEN HadValue(Rows(Gate)) ELSE {}
      /\ results' = IF ~Writing THEN NotApplicable ELSE Inconclusive
  BY Zenon DEF Decide
<1>2. w \in [Gates -> GateValues] /\ "G6" \in Gates /\ "G6" \notin Blocking /\ Blocking \subseteq Gates
  BY GatesType DEF TypeRun, Gates, Blocking, PreGates
<1>3. \A x \in Blocking : g[x] = w[x]
  <2>. HIDE DEF w
  <2>. QED
    BY <1>2
<1>4. \A x \in Blocking : w[x] \notin {"FAIL", "FAIL?"}
  BY <1>1, <1>3 DEF Blocked
<1>5. \A x \in PreGates : w[x] = gates[x] /\ gates[x] = "PASS"
  <2>1. \A x \in PreGates : w[x] = gates[x]
    BY GatesType
  <2>. HIDE DEF w
  <2>. QED
    BY <1>4, <2>1 DEF AtGates, Blocking
<1>6. Windowed
  BY <1>1, <1>5 DEF Windowed, PreGates
<1>7. w["G3"] = "PASS" /\ w["G4"] = "PASS" /\ HadValue(Rows(Gate)) = Sensors
  <2>1. /\ w["G3"] \in {"PASS", "FAIL", "FAIL?"} /\ w["G4"] \in {"PASS", "FAIL", "FAIL?"}
        /\ w["G4"] = "PASS" => HadValue(Rows(Gate)) = Sensors
    BY <1>6, GatesType
  <2>2. "G3" \in Blocking /\ "G4" \in Blocking
    BY DEF Blocking
  <2>. HIDE DEF w
  <2>. QED
    BY <1>4, <2>1, <2>2
<1>. HIDE DEF w
<1>8. \A x \in Blocking : g[x] = "PASS"
  BY <1>3, <1>5, <1>7 DEF Blocking
<1>. HIDE DEF g
<1>9. cancel = FALSE /\ abort = "" /\ confirmed
  BY <1>1 DEF TypeRun, AtGates
<1>10. plan' = Full
  BY <1>1 DEF Full
<1>. QED
  BY <1>1, <1>6, <1>7, <1>8, <1>9, <1>10 DEF Before

\* What let a test start holds as long as it runs.
LEMMA StartedStep ==
  ASSUME IInv, [Next]_vars
  PROVE  Started'
<1>. TypeOK /\ TypeRun /\ TypeHold /\ TypeData /\ Started /\ AtGates /\ Before
  BY DEF IInv, TypeOK
<1>1. CASE \E bad \in {{}} \cup {{g} : g \in PreGates}, d, typed \in BOOLEAN : Confirm(bad, d, typed)
  BY <1>1, NotInTest DEF Confirm
<1>2. CASE StartGates
  BY <1>2, NotInTest DEF StartGates
<1>3. CASE \E g6 \in {"PASS", "PARTIAL", "FAIL"} : Decide(g6)
  <2>1. PICK g6 \in {"PASS", "PARTIAL", "FAIL"} : Decide(g6)
    BY <1>3
  <2>2. SUFFICES ASSUME plan' # <<>>
                 PROVE  Started'
    BY NotInTest
  <2>3. pc = "gates"
    <3>1. pc \in {"gates", "test"} /\ plan # <<>> /\ Head(plan)[1] = "decide"
      BY <2>1 DEF Decide, Does
    <3>2. pc # "test"
      BY <3>1, NextUp DEF Started, TestSteps
    <3>. QED
      BY <3>1, <3>2
  <2>4. /\ abort = "" /\ confirmed /\ Writing /\ dcrOK /\ limits' = Sensors /\ results' = Inconclusive
        /\ \A g \in Blocking : gates'[g] = "PASS"
        /\ plan' = Full
    BY <2>1, <2>2, <2>3, GatesPassed
  <2>5. TestSteps(plan')
    <3>1. DOMAIN Full = 1..Len(Full)
      <4>1. Full \in Seq(Steps)
        BY FullIs
      <4>. QED
        BY <4>1
    <3>2. TestSteps(Full)
      BY <3>1, FullIs DEF TestSteps
    <3>. QED
      BY <2>4, <3>2
  <2>6. UNCHANGED <<request, abort>>
    BY <2>1 DEF Decide
  <2>. QED
    BY <2>4, <2>5, <2>6 DEF Started, Writing, request
<1>4. CASE \E O \in SomeOdd : TakeSample(O)
  <2>1. PICK ph, t, O : SampleOf(ph, t, O)
    BY <1>4, SamplesOf
  <2>2. UNCHANGED <<request, pc, limits, gates, results>> /\ pc \in {"gates", "test"} /\ plan # <<>>
    BY <2>1 DEF SampleOf, Sampled
  <2>3. CASE pc = "gates"
    BY <2>2, <2>3, NotInTest
  <2>4. CASE pc = "test" /\ Finding(O, CountsAfter(O)) = ""
    <3>1. abort' = abort /\ (plan' = plan \/ \E u \in Nat : NextStep(u))
      BY <2>1, <2>4 DEF SampleOf
    <3>2. TestSteps(plan')
      BY <2>2, <2>4, <3>1, StepsLeft DEF Started
    <3>. QED
      BY <2>2, <2>4, <3>1, <3>2, GoesOn
  <2>5. CASE pc = "test" /\ Finding(O, CountsAfter(O)) # ""
    <3>1. plan' = <<>>
      BY <2>1, <2>5, StoppedPlan DEF SampleOf
    <3>. QED
      BY <3>1, NotInTest
  <2>. QED
    BY <2>2, <2>3, <2>4, <2>5
<1>5. CASE \E O \in SomeOdd, slow \in 0..MaxOdd - odd : HoldSample(O, slow)
  <2>1. PICK ph, t, O : SampleOf(ph, t, O)
    BY <1>5, SamplesOf
  <2>2. UNCHANGED <<request, pc, limits, gates, results>> /\ pc \in {"gates", "test"} /\ plan # <<>>
    BY <2>1 DEF SampleOf, Sampled
  <2>3. CASE pc = "gates"
    BY <2>2, <2>3, NotInTest
  <2>4. CASE pc = "test" /\ Finding(O, CountsAfter(O)) = ""
    <3>1. abort' = abort /\ (plan' = plan \/ \E u \in Nat : NextStep(u))
      BY <2>1, <2>4 DEF SampleOf
    <3>2. TestSteps(plan')
      BY <2>2, <2>4, <3>1, StepsLeft DEF Started
    <3>. QED
      BY <2>2, <2>4, <3>1, <3>2, GoesOn
  <2>5. CASE pc = "test" /\ Finding(O, CountsAfter(O)) # ""
    <3>1. plan' = <<>>
      BY <2>1, <2>5, StoppedPlan DEF SampleOf
    <3>. QED
      BY <3>1, NotInTest
  <2>. QED
    BY <2>2, <2>3, <2>4, <2>5
<1>6. CASE HoldCancelled
  <2>1. pc \in {"gates", "test"} /\ pc' = pc /\ Stopped("cancelled")
    BY <1>6 DEF HoldCancelled, Does
  <2>2. pc' # "test" \/ plan' = <<>>
    BY <2>1, StoppedPlan
  <2>. QED
    BY <2>2, NotInTest
<1>7. CASE \E out \in {"sent", "failed", "no state file"} : Command(out)
  <2>1. pc = "test" /\ plan # <<>> /\ UNCHANGED <<request, pc, limits, gates, results>>
    BY <1>7 DEF Command, data
  <2>2. (NextStep(now) /\ abort' = abort) \/ Stopped("command")
    BY <1>7 DEF Command
  <2>3. CASE NextStep(now) /\ abort' = abort
    <3>1. TestSteps(plan')
      BY <2>1, <2>3, StepsLeft DEF Started, TypeHold
    <3>. QED
      BY <2>1, <2>3, <3>1, GoesOn
  <2>4. CASE Stopped("command")
    BY <2>1, <2>4, StoppedPlan, NotInTest
  <2>. QED
    BY <2>2, <2>3, <2>4
<1>8. CASE Mark
  <2>1. plan # <<>> /\ UNCHANGED <<request, pc, abort, limits, gates, results>> /\ NextStep(now)
    BY <1>8 DEF Mark, Does, data, watch
  <2>2. CASE pc = "test"
    <3>1. TestSteps(plan')
      BY <2>1, <2>2, StepsLeft DEF Started, TypeHold
    <3>. QED
      BY <2>1, <2>2, <3>1, GoesOn
  <2>3. CASE pc # "test"
    BY <2>1, <2>3, NotInTest
  <2>. QED
    BY <2>2, <2>3
<1>9. CASE ValueA
  <2>1. plan # <<>> /\ UNCHANGED <<request, pc, abort, limits, gates, results>>
    BY <1>9 DEF ValueA, Does, watch
  <2>2. NextStep(now) \/ plan' = <<>>
    BY <1>9 DEF ValueA
  <2>3. CASE pc = "test" /\ NextStep(now)
    <3>1. TestSteps(plan')
      BY <2>1, <2>3, StepsLeft DEF Started, TypeHold
    <3>. QED
      BY <2>1, <2>3, <3>1, GoesOn
  <2>4. CASE pc # "test" \/ plan' = <<>>
    BY <2>1, <2>4, NotInTest
  <2>. QED
    BY <2>2, <2>3, <2>4
<1>10. CASE TestEnds
  BY <1>10, NotInTest DEF TestEnds
<1>11. CASE \E fails \in SUBSET ToClose : \E differs \in SUBSET (ToClose \ fails) : Restore(fails, differs)
  BY <1>11, NotInTest DEF Restore
<1>12. CASE Closed
  BY <1>12, NotInTest DEF Closed
<1>13. CASE WriteMeta
  BY <1>13, NotInTest DEF WriteMeta
<1>14. CASE WriteVerdict
  BY <1>14, NotInTest DEF WriteVerdict
<1>15. CASE Finish
  BY <1>15, NotInTest DEF Finish
<1>16. CASE Aftermath
  BY <1>16, NotInTest DEF Aftermath
<1>17. CASE Cancel
  BY <1>17 DEF Cancel, Started, Writing, request, data
<1>18. CASE \E how \in {"killed", "panic"} : Dies(how)
  BY <1>18, NotInTest DEF Dies
<1>19. CASE UNCHANGED vars
  BY <1>19 DEF Started, Writing, request, data, watch, vars
<1>. QED
  BY <1>1, <1>2, <1>3, <1>4, <1>5, <1>6, <1>7, <1>8, <1>9, <1>10, <1>11, <1>12, <1>13, <1>14,
    <1>15, <1>16, <1>17, <1>18, <1>19 DEF Next

-----------------------------------------------------------------------------
(* Lost sensors.                                                           *)

\* The counts after a sample, in the gates and in a test.
LEMMA CountsAre ==
  ASSUME TypeOK, Before, Started, NEW ph, NEW t, NEW O, SampleOf(ph, t, O), "writer" \notin O,
         NEW s \in Sensors
  PROVE  /\ nan'[s] \in Nat /\ nan[s] \in Nat
         /\ pc = "test" => nan'[s] = (IF s \in O THEN nan[s] + 1 ELSE 0)
         /\ pc = "gates" => nan'[s] = 0
<1>1. nan' = Counted(O) /\ nan \in [Sensors -> Nat]
  BY DEF SampleOf, Sampled, CountsAfter, TypeOK, TypeRun
<1>2. nan[s] \in Nat
  BY <1>1
<1>3. nan'[s] = IF s \notin limits THEN nan[s] ELSE IF s \in O THEN nan[s] + 1 ELSE 0
  BY <1>1 DEF Counted
<1>4. CASE pc = "test"
  <2>1. limits = Sensors
    BY <1>4 DEF SampleOf, Started
  <2>. QED
    BY <1>2, <1>3, <1>4, <2>1
<1>5. CASE pc = "gates"
  <2>1. limits = {} /\ nan[s] = 0
    BY <1>5 DEF Before
  <2>. QED
    BY <1>2, <1>3, <1>5, <2>1
<1>. QED
  BY <1>4, <1>5 DEF SampleOf

\* The samples with one more.
LEMMA MoreSamples ==
  ASSUME TypeOK, NEW ph, NEW t, NEW O, SampleOf(ph, t, O)
  PROVE  /\ Len(samples) \in Nat /\ DOMAIN samples = 1..Len(samples)
         /\ Len(samples') = Len(samples) + 1 /\ DOMAIN samples' = 1..Len(samples) + 1
         /\ samples'[Len(samples) + 1].odd = O /\ samples'[Len(samples) + 1].ph = ph
         /\ samples'[Len(samples) + 1].ts = t
         /\ \A k \in 1..Len(samples) : samples'[k] = samples[k]
<1>. DEFINE L == Len(samples)
            r == [ph |-> ph, ts |-> t, odd |-> O]
<1>1. /\ samples' \in Seq(Samples) /\ Len(samples') = L + 1
      /\ samples'[L + 1] = r
      /\ \A k \in DOMAIN samples : samples'[k] = samples[k]
  BY SampleAdds DEF SampleOf, TypeOK
<1>2. L \in Nat /\ DOMAIN samples = 1..L
  <2>1. samples \in Seq(Samples)
    BY DEF TypeOK, TypeData
  <2>. QED
    BY <2>1
<1>3. DOMAIN samples' = 1..L + 1
  <2>. HIDE DEF L
  <2>1. DOMAIN samples' = 1..Len(samples')
    BY <1>1
  <2>. QED
    BY <1>1, <2>1
<1>4. r.odd = O /\ r.ph = ph /\ r.ts = t
  OBVIOUS
<1>. HIDE DEF L, r
<1>5. samples'[L + 1].odd = O /\ samples'[L + 1].ph = ph /\ samples'[L + 1].ts = t
  BY <1>1, <1>4, Zenon
<1>. QED
  BY <1>1, <1>2, <1>3, <1>5 DEF L

\* The last n of L samples, and with one more of it or none.
LEMMA OneMissing ==
  ASSUME NEW L \in Nat, NEW m \in Nat, NEW n \in Nat, n <= L, m = 0 \/ m = n + 1
  PROVE  /\ m <= L + 1
         /\ \A j \in 1..L + 1 :
              j > (L + 1) - m => /\ m = n + 1 /\ m # 0
                                 /\ j = L + 1 \/ (j \in 1..L /\ j > L - n)
OBVIOUS

\* With a sample more, so many samples without a value are still the last ones.
LEMMA CountsGrow ==
  ASSUME TypeOK, Before, Started, CountIsTrue, abort = "",
         NEW ph, NEW t, NEW O, SampleOf(ph, t, O), "writer" \notin O, NEW s \in Sensors
  PROVE  /\ nan'[s] <= Len(samples')
         /\ \A j \in DOMAIN samples' : j > Len(samples') - nan'[s] => s \in samples'[j].odd
<1>1. /\ Len(samples) \in Nat /\ DOMAIN samples = 1..Len(samples)
      /\ Len(samples') = Len(samples) + 1 /\ DOMAIN samples' = 1..Len(samples) + 1
      /\ samples'[Len(samples) + 1].odd = O
      /\ \A k \in 1..Len(samples) : samples'[k] = samples[k]
  BY MoreSamples
<1>2. /\ nan[s] <= Len(samples)
      /\ \A j \in DOMAIN samples : j > Len(samples) - nan[s] => s \in samples[j].odd
  BY DEF CountIsTrue, SampleOf
<1>3. nan'[s] \in Nat /\ nan[s] \in Nat /\ (nan'[s] = 0 \/ (s \in O /\ nan'[s] = nan[s] + 1))
  BY CountsAre DEF SampleOf
<1>4. /\ nan'[s] <= Len(samples) + 1
      /\ \A j \in 1..Len(samples) + 1 :
           j > (Len(samples) + 1) - nan'[s] =>
             /\ nan'[s] = nan[s] + 1 /\ nan'[s] # 0
             /\ j = Len(samples) + 1 \/ (j \in 1..Len(samples) /\ j > Len(samples) - nan[s])
  BY <1>1, <1>2, <1>3, OneMissing, Zenon
<1>5. ASSUME NEW j \in DOMAIN samples', j > Len(samples') - nan'[s]
      PROVE  s \in samples'[j].odd
  <2>1. j \in 1..Len(samples) + 1 /\ j > (Len(samples) + 1) - nan'[s]
    BY <1>1, <1>5, Zenon
  <2>2. s \in O
    <3>1. nan'[s] # 0
      BY <1>4, <2>1, Zenon
    <3>. QED
      BY <1>3, <3>1, Zenon
  <2>3. CASE j = Len(samples) + 1
    BY <1>1, <2>2, <2>3, Zenon
  <2>4. CASE j \in 1..Len(samples) /\ j > Len(samples) - nan[s]
    BY <1>1, <1>2, <2>4, Zenon
  <2>. QED
    BY <1>4, <2>1, <2>3, <2>4, Zenon
<1>6. nan'[s] <= Len(samples')
  BY <1>1, <1>4, Zenon
<1>. QED
  BY <1>5, <1>6

\* No step counts a sample that had the value.
LEMMA CountIsTrueStep ==
  ASSUME IInv, [Next]_vars
  PROVE  CountIsTrue'
<1>. TypeOK /\ TypeRun /\ TypeData /\ Before /\ Started /\ CountIsTrue
  BY DEF IInv, TypeOK
<1>1. CASE \E bad \in {{}} \cup {{g} : g \in PreGates}, d, typed \in BOOLEAN : Confirm(bad, d, typed)
  <2>1. samples' = <<>> /\ nan' = nan /\ pc = "confirm"
    BY <1>1 DEF Confirm, CreateBundle, watch
  <2>2. \A s \in Sensors : nan'[s] = 0
    BY <2>1 DEF Before
  <2>3. Len(samples') = 0 /\ DOMAIN samples' = {}
    BY <2>1
  <2>4. \A s \in Sensors : nan'[s] <= Len(samples') /\ \A j \in DOMAIN samples' : s \in samples'[j].odd
    BY <2>2, <2>3
  <2>. QED
    BY <2>4 DEF CountIsTrue
<1>2. CASE StartGates
  BY <1>2 DEF StartGates, CountIsTrue, watch
<1>3. CASE \E g6 \in {"PASS", "PARTIAL", "FAIL"} : Decide(g6)
  <2>1. pc \in {"gates", "test"} /\ UNCHANGED <<abort, samples, nan>>
    BY <1>3 DEF Decide, Does
  <2>. QED
    BY <2>1 DEF CountIsTrue
<1>4. CASE \E O \in SomeOdd : TakeSample(O)
  <2>1. PICK ph, t, O : SampleOf(ph, t, O)
    BY <1>4, SamplesOf
  <2>2. SUFFICES ASSUME abort' = "", NEW s \in Sensors
                 PROVE  /\ nan'[s] <= Len(samples')
                        /\ \A j \in DOMAIN samples' : j > Len(samples') - nan'[s] => s \in samples'[j].odd
    BY DEF CountIsTrue
  <2>3. abort = "" /\ "writer" \notin O
    BY <2>1, <2>2, SampleFinds DEF Ending
  <2>. QED
    BY <2>1, <2>3, CountsGrow
<1>5. CASE \E O \in SomeOdd, slow \in 0..MaxOdd - odd : HoldSample(O, slow)
  <2>1. PICK ph, t, O : SampleOf(ph, t, O)
    BY <1>5, SamplesOf
  <2>2. SUFFICES ASSUME abort' = "", NEW s \in Sensors
                 PROVE  /\ nan'[s] <= Len(samples')
                        /\ \A j \in DOMAIN samples' : j > Len(samples') - nan'[s] => s \in samples'[j].odd
    BY DEF CountIsTrue
  <2>3. abort = "" /\ "writer" \notin O
    BY <2>1, <2>2, SampleFinds DEF Ending
  <2>. QED
    BY <2>1, <2>3, CountsGrow
<1>6. CASE HoldCancelled
  BY <1>6 DEF HoldCancelled, CountIsTrue, watch, Stopped
<1>7. CASE \E out \in {"sent", "failed", "no state file"} : Command(out)
  BY <1>7 DEF Command, CountIsTrue, watch, Stopped
<1>8. CASE Mark
  BY <1>8 DEF Mark, CountIsTrue, watch
<1>9. CASE ValueA
  BY <1>9 DEF ValueA, CountIsTrue, watch
<1>10. CASE TestEnds
  BY <1>10 DEF TestEnds, CountIsTrue, watch
<1>11. CASE \E fails \in SUBSET ToClose : \E differs \in SUBSET (ToClose \ fails) : Restore(fails, differs)
  BY <1>11 DEF Restore, CountIsTrue, watch
<1>12. CASE Closed
  BY <1>12 DEF Closed, CountIsTrue, watch
<1>13. CASE WriteMeta
  BY <1>13 DEF WriteMeta, CountIsTrue, watch
<1>14. CASE WriteVerdict
  BY <1>14 DEF WriteVerdict, CountIsTrue, watch
<1>15. CASE Finish
  BY <1>15 DEF Finish, CountIsTrue, watch
<1>16. CASE Aftermath
  BY <1>16 DEF Aftermath, CountIsTrue, watch
<1>17. CASE Cancel
  BY <1>17 DEF Cancel, CountIsTrue, watch
<1>18. CASE \E how \in {"killed", "panic"} : Dies(how)
  BY <1>18 DEF Dies, CountIsTrue, watch
<1>19. CASE UNCHANGED vars
  BY <1>19 DEF CountIsTrue, watch, vars
<1>. QED
  BY <1>1, <1>2, <1>3, <1>4, <1>5, <1>6, <1>7, <1>8, <1>9, <1>10, <1>11, <1>12, <1>13, <1>14,
    <1>15, <1>16, <1>17, <1>18, <1>19 DEF Next

\* A sensor is lost only by its count.
LEMMA LostInARowStep ==
  ASSUME IInv, [Next]_vars
  PROVE  LostInARow'
<1>. TypeOK /\ TypeRun /\ TypeData /\ Before /\ Started /\ CountIsTrue /\ LostInARow
  BY DEF IInv, TypeOK
<1>1. CASE \E bad \in {{}} \cup {{g} : g \in PreGates}, d, typed \in BOOLEAN : Confirm(bad, d, typed)
  <2>1. pc = "confirm" /\ abort' = abort
    BY <1>1 DEF Confirm, watch
  <2>. QED
    BY <2>1 DEF Before, LostInARow
<1>2. CASE StartGates
  BY <1>2 DEF StartGates, LostInARow, watch
<1>3. CASE \E g6 \in {"PASS", "PARTIAL", "FAIL"} : Decide(g6)
  BY <1>3 DEF Decide, LostInARow, watch
<1>4. CASE \E O \in SomeOdd : TakeSample(O)
  <2>1. PICK ph, t, O : SampleOf(ph, t, O)
    BY <1>4, SamplesOf
  <2>2. SUFFICES ASSUME abort' = "lost"
                 PROVE  \E s \in Sensors :
                          \A j \in Len(samples') - LostAfter + 1..Len(samples') :
                            j \in DOMAIN samples' /\ s \in samples'[j].odd
    BY DEF LostInARow
  <2>3. abort # "lost"
    BY <2>1 DEF SampleOf, Before, Started
  <2>4. abort = "" /\ Finding(O, CountsAfter(O)) = "lost"
    BY <2>1, <2>2, <2>3 DEF SampleOf, Stopped
  <2>5. "writer" \notin O /\ LostNow(CountsAfter(O))
    BY <2>4, FindingIs
  <2>6. nan' = CountsAfter(O)
    BY <2>1 DEF SampleOf, Sampled
  <2>7. PICK s \in Sensors : nan'[s] >= LostAfter
    BY <2>5, <2>6 DEF LostNow, TypeRun
  <2>8. /\ nan'[s] <= Len(samples')
        /\ \A j \in DOMAIN samples' : j > Len(samples') - nan'[s] => s \in samples'[j].odd
    BY <2>1, <2>4, <2>5, CountsGrow
  <2>9. nan'[s] \in Nat
    BY <2>1, <2>5, CountsAre
  <2>10. Len(samples') \in Nat /\ DOMAIN samples' = 1..Len(samples')
    BY <2>1, MoreSamples
  <2>11. \A j \in Len(samples') - LostAfter + 1..Len(samples') :
           j \in DOMAIN samples' /\ j > Len(samples') - nan'[s]
    BY <2>7, <2>8, <2>9, <2>10, Numbers
  <2>. QED
    BY <2>8, <2>11
<1>5. CASE \E O \in SomeOdd, slow \in 0..MaxOdd - odd : HoldSample(O, slow)
  <2>1. PICK ph, t, O : SampleOf(ph, t, O)
    BY <1>5, SamplesOf
  <2>2. SUFFICES ASSUME abort' = "lost"
                 PROVE  \E s \in Sensors :
                          \A j \in Len(samples') - LostAfter + 1..Len(samples') :
                            j \in DOMAIN samples' /\ s \in samples'[j].odd
    BY DEF LostInARow
  <2>3. abort # "lost"
    BY <2>1 DEF SampleOf, Before, Started
  <2>4. abort = "" /\ Finding(O, CountsAfter(O)) = "lost"
    BY <2>1, <2>2, <2>3 DEF SampleOf, Stopped
  <2>5. "writer" \notin O /\ LostNow(CountsAfter(O))
    BY <2>4, FindingIs
  <2>6. nan' = CountsAfter(O)
    BY <2>1 DEF SampleOf, Sampled
  <2>7. PICK s \in Sensors : nan'[s] >= LostAfter
    BY <2>5, <2>6 DEF LostNow, TypeRun
  <2>8. /\ nan'[s] <= Len(samples')
        /\ \A j \in DOMAIN samples' : j > Len(samples') - nan'[s] => s \in samples'[j].odd
    BY <2>1, <2>4, <2>5, CountsGrow
  <2>9. nan'[s] \in Nat
    BY <2>1, <2>5, CountsAre
  <2>10. Len(samples') \in Nat /\ DOMAIN samples' = 1..Len(samples')
    BY <2>1, MoreSamples
  <2>11. \A j \in Len(samples') - LostAfter + 1..Len(samples') :
           j \in DOMAIN samples' /\ j > Len(samples') - nan'[s]
    BY <2>7, <2>8, <2>9, <2>10, Numbers
  <2>. QED
    BY <2>8, <2>11
<1>6. CASE HoldCancelled
  BY <1>6 DEF HoldCancelled, LostInARow, watch, Stopped
<1>7. CASE \E out \in {"sent", "failed", "no state file"} : Command(out)
  BY <1>7 DEF Command, LostInARow, watch, Stopped
<1>8. CASE Mark
  BY <1>8 DEF Mark, LostInARow, watch
<1>9. CASE ValueA
  BY <1>9 DEF ValueA, LostInARow, watch
<1>10. CASE TestEnds
  BY <1>10 DEF TestEnds, LostInARow, watch
<1>11. CASE \E fails \in SUBSET ToClose : \E differs \in SUBSET (ToClose \ fails) : Restore(fails, differs)
  BY <1>11 DEF Restore, LostInARow, watch
<1>12. CASE Closed
  BY <1>12 DEF Closed, LostInARow, watch
<1>13. CASE WriteMeta
  BY <1>13 DEF WriteMeta, LostInARow, watch
<1>14. CASE WriteVerdict
  BY <1>14 DEF WriteVerdict, LostInARow, watch
<1>15. CASE Finish
  BY <1>15 DEF Finish, LostInARow, watch
<1>16. CASE Aftermath
  BY <1>16 DEF Aftermath, LostInARow, watch
<1>17. CASE Cancel
  BY <1>17 DEF Cancel, LostInARow, watch
<1>18. CASE \E how \in {"killed", "panic"} : Dies(how)
  BY <1>18 DEF Dies, LostInARow, watch
<1>19. CASE UNCHANGED vars
  BY <1>19 DEF LostInARow, watch, vars
<1>. QED
  BY <1>1, <1>2, <1>3, <1>4, <1>5, <1>6, <1>7, <1>8, <1>9, <1>10, <1>11, <1>12, <1>13, <1>14,
    <1>15, <1>16, <1>17, <1>18, <1>19 DEF Next

\* With n samples missing since, and at least L - j + 1 of L, one more.
LEMMA StillMissing ==
  ASSUME NEW L \in Nat, NEW m \in Nat, NEW n \in Nat, NEW j \in 1..L + 1,
         m = n + 1, j # L + 1 => L - j + 1 <= n
  PROVE  (L + 1) - j + 1 <= m
OBVIOUS

\* A sample that goes on has counted what is missing.
LEMMA SampleCounted ==
  ASSUME TypeOK, Before, Started, CountIsWhole, NEW ph, NEW t, NEW O, SampleOf(ph, t, O)
  PROVE  CountIsWhole'
<1>. TypeHold /\ TypeRun
  BY DEF TypeOK
<1>1. SUFFICES ASSUME pc' = "test", plan' # <<>>, NEW s \in Sensors
               PROVE  /\ nan'[s] < LostAfter
                      /\ \A j \in DOMAIN samples' : MissedSince(s, j)' => Len(samples') - j + 1 <= nan'[s]
  BY DEF CountIsWhole
<1>2. pc = "test" /\ plan # <<>>
  BY <1>1 DEF SampleOf, Sampled
<1>3. Finding(O, CountsAfter(O)) = ""
  <2>1. SUFFICES ASSUME Finding(O, CountsAfter(O)) # ""
                 PROVE  FALSE
    OBVIOUS
  <2>2. Stopped(Finding(O, CountsAfter(O)))
    BY <2>1 DEF SampleOf
  <2>3. plan' = <<>>
    BY <1>2, <2>2, StoppedPlan
  <2>. QED
    BY <1>1, <2>3
<1>4. "writer" \notin O /\ ~LostNow(CountsAfter(O))
  BY <1>3, FindingIs DEF Ending
<1>5. nan' = CountsAfter(O) /\ limits = Sensors
  BY <1>2 DEF SampleOf, Sampled, Started
<1>6. nan'[s] \in Nat /\ nan[s] \in Nat /\ nan'[s] = IF s \in O THEN nan[s] + 1 ELSE 0
  BY <1>2, <1>4, CountsAre
<1>7. nan'[s] < LostAfter
  <2>1. ~(nan'[s] >= LostAfter)
    BY <1>4, <1>5 DEF LostNow
  <2>. QED
    BY <1>6, <2>1, Numbers
<1>8. /\ Len(samples) \in Nat /\ DOMAIN samples = 1..Len(samples)
      /\ Len(samples') = Len(samples) + 1 /\ DOMAIN samples' = 1..Len(samples) + 1
      /\ samples'[Len(samples) + 1].odd = O
      /\ \A k \in 1..Len(samples) : samples'[k] = samples[k]
  BY MoreSamples
<1>9. ASSUME NEW j \in 1..Len(samples) + 1, MissedSince(s, j)'
      PROVE  Len(samples') - j + 1 <= nan'[s]
  <2>1. \A k \in DOMAIN samples' : k >= j => s \in samples'[k].odd /\ IsTest(samples'[k])
    BY <1>9 DEF MissedSince, IsTest
  <2>2. s \in O
    <3>1. Len(samples) + 1 \in DOMAIN samples' /\ Len(samples) + 1 >= j
      BY <1>8
    <3>. QED
      BY <1>8, <2>1, <3>1, Zenon
  <2>3. nan'[s] = nan[s] + 1
    BY <1>6, <2>2
  <2>4. j # Len(samples) + 1 => Len(samples) - j + 1 <= nan[s]
    <3>1. SUFFICES ASSUME j # Len(samples) + 1
                   PROVE  Len(samples) - j + 1 <= nan[s]
      OBVIOUS
    <3>2. j \in DOMAIN samples
      BY <1>8, <3>1
    <3>3. \A k \in DOMAIN samples : k \in DOMAIN samples' /\ samples'[k] = samples[k]
      BY <1>8
    <3>4. MissedSince(s, j)
      BY <2>1, <3>3 DEF MissedSince
    <3>. QED
      BY <1>2, <3>2, <3>4 DEF CountIsWhole
  <2>5. (Len(samples) + 1) - j + 1 <= nan'[s]
    BY <1>6, <1>8, <2>3, <2>4, StillMissing, Zenon
  <2>. QED
    BY <1>8, <2>5, Zenon
<1>. QED
  BY <1>7, <1>8, <1>9, Zenon

\* No step leaves a missing value of a test uncounted.
LEMMA CountIsWholeStep ==
  ASSUME IInv, [Next]_vars
  PROVE  CountIsWhole'
<1>. TypeOK /\ TypeRun /\ TypeHold /\ TypeData /\ Before /\ Started /\ AtGates /\ CountIsWhole
  BY DEF IInv, TypeOK
<1>1. ASSUME pc = "test", plan # <<>>, UNCHANGED <<pc, nan, samples>>
      PROVE  CountIsWhole'
  BY <1>1 DEF CountIsWhole, MissedSince, IsTest
<1>2. ASSUME pc' # "test" \/ plan' = <<>>
      PROVE  CountIsWhole'
  BY <1>2 DEF CountIsWhole
<1>3. CASE \E bad \in {{}} \cup {{g} : g \in PreGates}, d, typed \in BOOLEAN : Confirm(bad, d, typed)
  BY <1>3, <1>2 DEF Confirm
<1>4. CASE StartGates
  BY <1>4, <1>2 DEF StartGates
<1>5. CASE \E g6 \in {"PASS", "PARTIAL", "FAIL"} : Decide(g6)
  <2>1. PICK g6 \in {"PASS", "PARTIAL", "FAIL"} : Decide(g6)
    BY <1>5
  <2>2. SUFFICES ASSUME plan' # <<>>
                 PROVE  CountIsWhole'
    BY <1>2
  <2>3. pc = "gates" /\ UNCHANGED <<samples, nan>>
    <3>1. pc \in {"gates", "test"} /\ plan # <<>> /\ Head(plan)[1] = "decide" /\ UNCHANGED <<samples, nan>>
      BY <2>1 DEF Decide, Does
    <3>2. pc # "test"
      BY <3>1, NextUp DEF Started, TestSteps
    <3>. QED
      BY <3>1, <3>2
  <2>4. \A s \in Sensors : nan'[s] = 0
    BY <2>3 DEF Before
  <2>5. \A j \in DOMAIN samples' : ~IsTest(samples'[j])
    BY <2>3 DEF Before
  <2>6. samples \in Seq(Samples)
    BY DEF TypeData
  <2>7. \A s \in Sensors, j \in DOMAIN samples' : ~MissedSince(s, j)'
    <3>1. DOMAIN samples' = 1..Len(samples)
      BY <2>3, <2>6
    <3>2. \A j \in DOMAIN samples' : j >= j
      BY <3>1
    <3>. QED
      BY <2>5, <3>2 DEF MissedSince, IsTest
  <2>8. \A s \in Sensors : nan'[s] < LostAfter
    BY <2>4, Numbers
  <2>. QED
    BY <2>7, <2>8 DEF CountIsWhole
<1>6. CASE \E O \in SomeOdd : TakeSample(O)
  <2>1. PICK ph, t, O : SampleOf(ph, t, O)
    BY <1>6, SamplesOf
  <2>. QED
    BY <2>1, SampleCounted
<1>7. CASE \E O \in SomeOdd, slow \in 0..MaxOdd - odd : HoldSample(O, slow)
  <2>1. PICK ph, t, O : SampleOf(ph, t, O)
    BY <1>7, SamplesOf
  <2>. QED
    BY <2>1, SampleCounted
<1>8. CASE HoldCancelled
  <2>1. pc \in {"gates", "test"} /\ pc' = pc /\ Stopped("cancelled")
    BY <1>8 DEF HoldCancelled, Does
  <2>2. pc' # "test" \/ plan' = <<>>
    BY <2>1, StoppedPlan
  <2>. QED
    BY <2>2, <1>2
<1>9. CASE \E out \in {"sent", "failed", "no state file"} : Command(out)
  <2>1. pc = "test" /\ plan # <<>> /\ UNCHANGED <<pc, nan, samples>>
    BY <1>9 DEF Command
  <2>. QED
    BY <2>1, <1>1
<1>10. CASE Mark
  <2>1. pc \in {"gates", "test"} /\ plan # <<>> /\ UNCHANGED <<pc, nan, samples>>
    BY <1>10 DEF Mark, Does, watch
  <2>2. pc = "test" \/ pc' # "test"
    BY <2>1
  <2>. QED
    BY <2>1, <2>2, <1>1, <1>2
<1>11. CASE ValueA
  <2>1. pc \in {"gates", "test"} /\ plan # <<>> /\ UNCHANGED <<pc, nan, samples>>
    BY <1>11 DEF ValueA, Does, watch
  <2>2. pc = "test" \/ pc' # "test"
    BY <2>1
  <2>. QED
    BY <2>1, <2>2, <1>1, <1>2
<1>12. CASE TestEnds
  BY <1>12, <1>2 DEF TestEnds
<1>13. CASE \E fails \in SUBSET ToClose : \E differs \in SUBSET (ToClose \ fails) : Restore(fails, differs)
  BY <1>13, <1>2 DEF Restore
<1>14. CASE Closed
  BY <1>14, <1>2 DEF Closed
<1>15. CASE WriteMeta
  BY <1>15, <1>2 DEF WriteMeta
<1>16. CASE WriteVerdict
  BY <1>16, <1>2 DEF WriteVerdict
<1>17. CASE Finish
  BY <1>17, <1>2 DEF Finish
<1>18. CASE Aftermath
  BY <1>18, <1>2 DEF Aftermath
<1>19. CASE Cancel
  BY <1>19 DEF Cancel, CountIsWhole, MissedSince, IsTest
<1>20. CASE \E how \in {"killed", "panic"} : Dies(how)
  BY <1>20, <1>2 DEF Dies
<1>21. CASE UNCHANGED vars
  BY <1>21 DEF CountIsWhole, MissedSince, IsTest, vars, watch
<1>. QED
  BY <1>3, <1>4, <1>5, <1>6, <1>7, <1>8, <1>9, <1>10, <1>11, <1>12, <1>13, <1>14, <1>15,
    <1>16, <1>17, <1>18, <1>19, <1>20, <1>21 DEF Next

\* So many samples of L from the i-th, when they end with the last one.
LEMMA WindowLength ==
  ASSUME NEW L \in Nat, NEW a \in Nat \ {0}, NEW m \in Nat, NEW i \in 1..L, i + a - 1 = L, m < a
  PROVE  ~(L - i + 1 <= m)
OBVIOUS

\* A window that does not end with the newest sample was there before.
LEMMA WindowBefore ==
  ASSUME NEW L \in Nat, NEW a \in Nat \ {0}, NEW i \in 1..L + 1, i + a - 1 \in 1..L + 1, i + a - 1 # L + 1
  PROVE  /\ i \in 1..L /\ i + a - 1 \in 1..L
         /\ \A j \in i..i + a - 1 : j \in 1..L
OBVIOUS

\* A sample that goes on is not one too many without a value.
LEMMA NotLostYet ==
  ASSUME TypeOK, NoneLost, CountIsWhole', NEW ph, NEW t, NEW O, SampleOf(ph, t, O),
         TypeRun', Started
  PROVE  NoneLost'
<1>1. SUFFICES ASSUME pc' = "test", plan' # <<>>, NEW i \in DOMAIN samples', NEW s \in Sensors,
                      i + LostAfter - 1 \in DOMAIN samples'
               PROVE  \E j \in i..i + LostAfter - 1 : s \notin samples'[j].odd \/ ~IsTest(samples'[j])
  BY DEF NoneLost, IsTest
<1>2. pc = "test" /\ plan # <<>>
  BY <1>1 DEF SampleOf, Sampled
<1>3. /\ Len(samples) \in Nat /\ DOMAIN samples = 1..Len(samples)
      /\ Len(samples') = Len(samples) + 1 /\ DOMAIN samples' = 1..Len(samples) + 1
      /\ \A k \in 1..Len(samples) : samples'[k] = samples[k]
  BY MoreSamples
<1>4. LostAfter \in Nat \ {0}
  BY Numbers
<1>5. CASE i + LostAfter - 1 = Len(samples) + 1
  <2>1. nan'[s] \in Nat
    BY DEF TypeRun
  <2>2. nan'[s] < LostAfter /\ (MissedSince(s, i)' => Len(samples') - i + 1 <= nan'[s])
    BY <1>1 DEF CountIsWhole
  <2>3. Len(samples) + 1 \in Nat /\ i \in 1..Len(samples) + 1
    BY <1>3
  <2>4. ~((Len(samples) + 1) - i + 1 <= nan'[s])
    BY <1>4, <1>5, <2>1, <2>2, <2>3, WindowLength, Zenon
  <2>5. ~MissedSince(s, i)'
    BY <1>3, <2>2, <2>4, Zenon
  <2>6. PICK k \in DOMAIN samples' : k >= i /\ ~(s \in samples'[k].odd /\ IsTest(samples'[k]))
    BY <2>5 DEF MissedSince, IsTest
  <2>7. k \in i..i + LostAfter - 1
    BY <1>3, <1>5, <2>3, <2>6
  <2>. QED
    BY <2>6, <2>7
<1>6. CASE i + LostAfter - 1 # Len(samples) + 1
  <2>1. /\ i \in 1..Len(samples) /\ i + LostAfter - 1 \in 1..Len(samples)
        /\ \A j \in i..i + LostAfter - 1 : j \in 1..Len(samples)
    <3>1. i \in 1..Len(samples) + 1 /\ i + LostAfter - 1 \in 1..Len(samples) + 1
      BY <1>1, <1>3
    <3>. QED
      BY <1>3, <1>4, <1>6, <3>1, WindowBefore, Zenon
  <2>2. PICK j \in i..i + LostAfter - 1 : s \notin samples[j].odd \/ ~IsTest(samples[j])
    BY <1>2, <1>3, <2>1 DEF NoneLost
  <2>3. samples'[j] = samples[j]
    BY <1>3, <2>1
  <2>. QED
    BY <2>2, <2>3
<1>. QED
  BY <1>5, <1>6

\* No test goes on after LostAfter samples without a value.
LEMMA NoneLostStep ==
  ASSUME IInv, [Next]_vars
  PROVE  NoneLost'
<1>. TypeOK /\ TypeRun /\ TypeHold /\ TypeData /\ Before /\ Started /\ NoneLost /\ CountIsWhole
  BY DEF IInv, TypeOK
<1>. CountIsWhole'
  BY CountIsWholeStep
<1>1. ASSUME pc = "test", plan # <<>>, UNCHANGED <<pc, samples>>
      PROVE  NoneLost'
  BY <1>1 DEF NoneLost, IsTest
<1>2. ASSUME pc' # "test" \/ plan' = <<>>
      PROVE  NoneLost'
  BY <1>2 DEF NoneLost
<1>3. CASE \E bad \in {{}} \cup {{g} : g \in PreGates}, d, typed \in BOOLEAN : Confirm(bad, d, typed)
  BY <1>3, <1>2 DEF Confirm
<1>4. CASE StartGates
  BY <1>4, <1>2 DEF StartGates
<1>5. CASE \E g6 \in {"PASS", "PARTIAL", "FAIL"} : Decide(g6)
  <2>1. SUFFICES ASSUME plan' # <<>>
                 PROVE  NoneLost'
    BY <1>2
  <2>2. pc = "gates" /\ UNCHANGED samples
    <3>1. pc \in {"gates", "test"} /\ plan # <<>> /\ Head(plan)[1] = "decide" /\ UNCHANGED samples
      BY <1>5 DEF Decide, Does
    <3>2. pc # "test"
      BY <3>1, NextUp DEF Started, TestSteps
    <3>. QED
      BY <3>1, <3>2
  <2>3. \A j \in DOMAIN samples' : ~IsTest(samples'[j])
    BY <2>2 DEF Before
  <2>4. DOMAIN samples' = 1..Len(samples)
    BY <2>2 DEF TypeData
  <2>5. \A i \in DOMAIN samples' : i \in i..i + LostAfter - 1
    BY <2>4, Numbers
  <2>. QED
    BY <2>3, <2>5 DEF NoneLost, IsTest
<1>6. CASE \E O \in SomeOdd : TakeSample(O)
  <2>1. PICK ph, t, O : SampleOf(ph, t, O)
    BY <1>6, SamplesOf
  <2>. QED
    BY <2>1, NotLostYet, TypeRunStep
<1>7. CASE \E O \in SomeOdd, slow \in 0..MaxOdd - odd : HoldSample(O, slow)
  <2>1. PICK ph, t, O : SampleOf(ph, t, O)
    BY <1>7, SamplesOf
  <2>. QED
    BY <2>1, NotLostYet, TypeRunStep
<1>8. CASE HoldCancelled
  <2>1. pc \in {"gates", "test"} /\ pc' = pc /\ Stopped("cancelled")
    BY <1>8 DEF HoldCancelled, Does
  <2>2. pc' # "test" \/ plan' = <<>>
    BY <2>1, StoppedPlan
  <2>. QED
    BY <2>2, <1>2
<1>9. CASE \E out \in {"sent", "failed", "no state file"} : Command(out)
  <2>1. pc = "test" /\ plan # <<>> /\ UNCHANGED <<pc, samples>>
    BY <1>9 DEF Command
  <2>. QED
    BY <2>1, <1>1
<1>10. CASE Mark
  <2>1. pc \in {"gates", "test"} /\ plan # <<>> /\ UNCHANGED <<pc, samples>>
    BY <1>10 DEF Mark, Does, watch
  <2>2. pc = "test" \/ pc' # "test"
    BY <2>1
  <2>. QED
    BY <2>1, <2>2, <1>1, <1>2
<1>11. CASE ValueA
  <2>1. pc \in {"gates", "test"} /\ plan # <<>> /\ UNCHANGED <<pc, samples>>
    BY <1>11 DEF ValueA, Does, watch
  <2>2. pc = "test" \/ pc' # "test"
    BY <2>1
  <2>. QED
    BY <2>1, <2>2, <1>1, <1>2
<1>12. CASE TestEnds
  BY <1>12, <1>2 DEF TestEnds
<1>13. CASE \E fails \in SUBSET ToClose : \E differs \in SUBSET (ToClose \ fails) : Restore(fails, differs)
  BY <1>13, <1>2 DEF Restore
<1>14. CASE Closed
  BY <1>14, <1>2 DEF Closed
<1>15. CASE WriteMeta
  BY <1>15, <1>2 DEF WriteMeta
<1>16. CASE WriteVerdict
  BY <1>16, <1>2 DEF WriteVerdict
<1>17. CASE Finish
  BY <1>17, <1>2 DEF Finish
<1>18. CASE Aftermath
  BY <1>18, <1>2 DEF Aftermath
<1>19. CASE Cancel
  BY <1>19 DEF Cancel, NoneLost, IsTest
<1>20. CASE \E how \in {"killed", "panic"} : Dies(how)
  BY <1>20, <1>2 DEF Dies
<1>21. CASE UNCHANGED vars
  BY <1>21 DEF NoneLost, IsTest, vars
<1>. QED
  BY <1>3, <1>4, <1>5, <1>6, <1>7, <1>8, <1>9, <1>10, <1>11, <1>12, <1>13, <1>14, <1>15,
    <1>16, <1>17, <1>18, <1>19, <1>20, <1>21 DEF Next

-----------------------------------------------------------------------------
(* The holds of a test.                                                    *)

\* The sample after one that overran: the last sample of a hold is never skipped.
LEMMA NextSlot ==
  ASSUME NEW n \in Nat \ {0}, NEW k \in 1..n, NEW slow \in Nat, slow > 0 => k < n
  PROVE  /\ SlotAfter(k, n, slow) > n => k = n
         /\ SlotAfter(k, n, slow) <= n => SlotAfter(k, n, slow) \in 1..n /\ k < SlotAfter(k, n, slow)
BY DEF SlotAfter

\* A sample that is later than all before it.
LEMMA SampleInOrder ==
  ASSUME NEW q \in Seq(Points), NEW m \in Nat, NEW x \in Points, x.t = m,
         \A i \in DOMAIN q : q[i].t < m,
         \A i \in DOMAIN q : i > 1 => q[i - 1].t < q[i].t
  PROVE  /\ Append(q, x) # <<>> /\ Append(q, x)[Len(Append(q, x))].t = m
         /\ \A i \in DOMAIN Append(q, x) : Append(q, x)[i].t <= m
         /\ \A i \in DOMAIN Append(q, x) : i > 1 => Append(q, x)[i - 1].t < Append(q, x)[i].t
<1>. DEFINE r == Append(q, x)
<1>1. /\ Len(r) = Len(q) + 1 /\ r[Len(q) + 1] = x /\ r \in Seq(Points)
      /\ \A k \in DOMAIN q : r[k] = q[k]
  BY OneMore
<1>2. DOMAIN r = 1..Len(q) + 1 /\ DOMAIN q = 1..Len(q) /\ Len(q) \in Nat
  BY <1>1
<1>. HIDE DEF r
<1>3. r # <<>>
  BY <1>1, <1>2
<1>4. \A i \in 1..Len(q) : q[i].t \in Int
  <2>1. \A i \in 1..Len(q) : q[i] \in Points
    BY <1>2
  <2>. QED
    BY <2>1 DEF Points
<1>5. \A i \in DOMAIN r : r[i].t <= m
  BY <1>1, <1>2, <1>4
<1>6. \A i \in DOMAIN r : i > 1 => r[i - 1].t < r[i].t
  <2>1. TAKE i \in DOMAIN r
  <2>2. SUFFICES ASSUME i > 1
                 PROVE  r[i - 1].t < r[i].t
    OBVIOUS
  <2>3. i - 1 \in DOMAIN q /\ r[i - 1] = q[i - 1]
    BY <1>1, <1>2, <2>2
  <2>4. CASE i = Len(q) + 1
    BY <1>1, <2>3, <2>4
  <2>5. CASE i \in 1..Len(q)
    BY <1>1, <1>2, <2>2, <2>3, <2>5
  <2>. QED
    BY <1>2, <2>4, <2>5
<1>. QED
  BY <1>1, <1>3, <1>5, <1>6 DEF r

\* The present step of a test is a step of its plan.
LEMMA Present ==
  ASSUME TypeHold, Progress, OnTrack, plan # <<>>
  PROVE  /\ Len(plan) \in Nat \ {0} /\ Len(Full) \in Nat /\ At \in 1..Len(Full)
         /\ Head(plan) = Full[At] /\ Full[At] \in Steps
         /\ \A k \in 1..Len(plan) : plan[k] = Full[At + k - 1]
<1>1. plan \in Seq(Steps)
  BY DEF TypeHold
<1>2. Len(plan) \in Nat /\ DOMAIN plan = 1..Len(plan) /\ Len(plan) # 0
  BY <1>1
<1>3. Full \in Seq(Steps)
  BY FullIs
<1>4. Len(Full) \in Nat /\ DOMAIN Full = 1..Len(Full)
  BY <1>3
<1>5. Len(plan) <= Len(Full) /\ \A k \in DOMAIN plan : plan[k] = Full[At + k - 1]
  BY DEF Progress, Along
<1>6. At = Len(Full) - Len(plan) + 1
  BY DEF At
<1>7. At \in 1..Len(Full) /\ At + 1 - 1 = At
  BY <1>2, <1>4, <1>5, <1>6
<1>8. 1 \in DOMAIN plan
  BY <1>2
<1>9. plan[1] = Full[At]
  BY <1>5, <1>7, <1>8
<1>10. Head(plan) = plan[1]
  BY <1>1, HeadTail
<1>11. Full[At] \in Steps
  BY <1>3, <1>4, <1>7
<1>. QED
  BY <1>2, <1>4, <1>5, <1>7, <1>9, <1>10, <1>11

\* The plan of a test is the same in all its states.
LEMMA SamePlan ==
  ASSUME test' = test
  PROVE  Full' = Full
BY DEF Full

\* A step that leaves the test where it is.
LEMMA Stays ==
  ASSUME Progress, UNCHANGED <<test, pc, abort, plan, slot, coll, aKnown, touched>>
  PROVE  Progress'
<1>1. Full' = Full
  BY SamePlan
<1>2. At' = At
  BY <1>1 DEF At
<1>3. OnTrack' = OnTrack
  BY DEF OnTrack
<1>4. /\ \A ph : Got(ph)' = Got(ph)
      /\ \A ph, n : Partly(ph, n)' = Partly(ph, n)
      /\ \A ph, n : Complete(ph, n)' = Complete(ph, n)
  BY DEF Got, Partly, Complete
<1>5. SUFFICES ASSUME OnTrack'
               PROVE  Along'
  BY DEF Progress
<1>6. Along
  BY <1>3, <1>5 DEF Progress
<1>7. Len(plan') <= Len(Full')
  BY <1>1, <1>6, Zenon DEF Along
<1>8. ASSUME NEW k \in DOMAIN plan'
      PROVE  plan'[k] = Full'[At' + k - 1]
  BY <1>1, <1>2, <1>6, <1>8, Zenon DEF Along
<1>9. ASSUME NEW k \in 1..Len(Full'), Full'[k][1] = "hold"
      PROVE  /\ k < At' => Complete(Full[k][2], Full[k][3])'
             /\ k > At' => Got(Full[k][2])' = <<>>
             /\ k = At' => slot' \in 1..Full'[k][3] /\ Partly(Full[k][2], slot)'
  <2>1. k \in 1..Len(Full) /\ Full[k][1] = "hold"
    BY <1>1, <1>9, Zenon
  <2>2. /\ k < At' => Complete(Full[k][2], Full[k][3])
        /\ k > At' => Got(Full[k][2]) = <<>>
        /\ k = At' => slot \in 1..Full[k][3] /\ Partly(Full[k][2], slot)
    BY <1>2, <1>6, <2>1, Zenon DEF Along
  <2>. QED
    BY <1>1, <1>4, <2>2, Zenon
<1>10. ASSUME NEW k \in 1..Len(Full'), DeterminesA(k)', k >= At'
       PROVE  ~aKnown'
  <2>1. k \in 1..Len(Full) /\ DeterminesA(k) /\ k >= At
    BY <1>1, <1>2, <1>10, Zenon DEF DeterminesA
  <2>. QED
    BY <1>6, <2>1, Zenon DEF Along
<1>. QED
  BY <1>7, <1>8, <1>9, <1>10, Zenon DEF Along

\* A test whose run is stopped, or that is over, is not on its way.
LEMMA OffTrack ==
  ASSUME pc' # "test" \/ abort' # "" \/ (plan' = <<>> /\ (touched' = {} \/ (test' # "map" /\ ~aKnown')))
  PROVE  Progress'
BY DEF Progress, OnTrack

\* A step that adds samples to the present hold only; one that completes it.
OthersKept == \A ph : ~(Full[At][1] = "hold" /\ Full[At][2] = ph) => Got(ph)' = Got(ph)
Done == \A k : k = At /\ Full[k][1] = "hold" => Complete(Full[k][2], Full[k][3])'

\* The present step is done; a hold is complete.
LEMMA Advances ==
  ASSUME TypeHold, Progress, OnTrack, plan # <<>>, test' = test, NEW t \in Nat, NextStep(t),
         OthersKept, Done, DeterminesA(At) \/ aKnown' = aKnown
  PROVE  Progress'
<1>1. /\ Len(plan) \in Nat \ {0} /\ Len(Full) \in Nat /\ At \in 1..Len(Full)
      /\ \A k \in 1..Len(plan) : plan[k] = Full[At + k - 1]
  BY Present
<1>2. /\ plan' \in Seq(Steps) /\ slot' = 1 /\ Len(plan') = Len(plan) - 1 /\ Len(plan') \in Nat
      /\ \A k \in DOMAIN plan' : plan'[k] = plan[k + 1] /\ k + 1 \in DOMAIN plan
  BY NextPlan DEF NextStep
<1>3. plan \in Seq(Steps)
  BY DEF TypeHold
<1>4. DOMAIN plan = 1..Len(plan) /\ DOMAIN plan' = 1..Len(plan')
  BY <1>2, <1>3
<1>5. Full' = Full
  BY SamePlan
<1>6. At' = At + 1
  <2>1. At = Len(Full) - Len(plan) + 1 /\ At' = Len(Full') - Len(plan') + 1
    BY DEF At
  <2>2. At' = Len(Full) - (Len(plan) - 1) + 1
    BY <1>2, <1>5, <2>1, Zenon
  <2>. QED
    BY <1>1, <2>1, <2>2
<1>7. Len(plan') <= Len(Full) /\ Len(plan) <= Len(Full)
  BY <1>1, <1>2 DEF Progress, Along
<1>8. \A k \in DOMAIN plan' : plan'[k] = Full[At + 1 + k - 1]
  <2>1. TAKE k \in DOMAIN plan'
  <2>2. k \in Nat /\ k + 1 \in 1..Len(plan)
    BY <1>2, <1>4
  <2>3. plan'[k] = Full[At + (k + 1) - 1]
    BY <1>1, <1>2, <2>2
  <2>4. At + (k + 1) - 1 = At + 1 + k - 1
    BY <1>1, <2>2
  <2>. QED
    BY <2>3, <2>4, Zenon
<1>9. \A k \in 1..Len(Full) : k # At /\ Full[k][1] = "hold" => Got(Full[k][2])' = Got(Full[k][2])
  <2>1. TAKE k \in 1..Len(Full)
  <2>2. SUFFICES ASSUME k # At, Full[k][1] = "hold"
                 PROVE  Got(Full[k][2])' = Got(Full[k][2])
    OBVIOUS
  <2>3. ~(Full[At][1] = "hold" /\ Full[At][2] = Full[k][2])
    BY <1>1, <2>2, FullIs
  <2>. QED
    BY <1>5, <2>3, Zenon DEF OthersKept
<1>10. ASSUME NEW ph, NEW n, Got(ph)' = Got(ph), Complete(ph, n)
       PROVE  Complete(ph, n)'
  BY <1>10, Zenon DEF Complete
<1>11. ASSUME NEW k \in 1..Len(Full), Full[k][1] = "hold"
       PROVE  /\ k < At + 1 => Complete(Full[k][2], Full[k][3])'
              /\ k > At + 1 => Got(Full[k][2])' = <<>>
              /\ k = At + 1 => slot' \in 1..Full[k][3] /\ Partly(Full[k][2], slot)'
  <2>1. k \in Int /\ At \in Int
    BY <1>1
  <2>2. k # At => Got(Full[k][2])' = Got(Full[k][2])
    BY <1>9, <1>11, Zenon
  <2>3. /\ k < At => Complete(Full[k][2], Full[k][3])
        /\ k > At => Got(Full[k][2]) = <<>>
    BY <1>11 DEF Progress, Along
  <2>4. CASE k = At
    <3>1. ~(k > At + 1) /\ k # At + 1
      BY <2>1, <2>4
    <3>2. Complete(Full[k][2], Full[k][3])'
      BY <1>5, <1>11, <2>4, Zenon DEF Done
    <3>. QED
      BY <3>1, <3>2, Zenon
  <2>5. CASE k < At
    <3>1. k # At /\ ~(k > At + 1) /\ k # At + 1
      BY <2>1, <2>5
    <3>2. Complete(Full[k][2], Full[k][3])'
      BY <1>5, <1>10, <2>2, <2>3, <2>5, <3>1, Zenon
    <3>. QED
      BY <3>1, <3>2, Zenon
  <2>6. CASE k > At
    <3>1. k # At /\ ~(k < At + 1)
      BY <2>1, <2>6
    <3>2. Got(Full[k][2])' = <<>>
      BY <2>2, <2>3, <2>6, <3>1, Zenon
    <3>3. Full[k][3] \in Nat \ {0}
      <4>1. Full[k] \in Steps
        <5>1. Full \in Seq(Steps) /\ k \in DOMAIN Full
          BY FullIs
        <5>. QED
          BY <5>1
      <4>. QED
        BY <1>11, <4>1, StepTypes
    <3>4. slot' \in 1..Full[k][3]
      BY <1>2, <3>3
    <3>5. Partly(Full[k][2], slot)'
      <4>1. DOMAIN <<>> = {}
        OBVIOUS
      <4>. QED
        BY <3>2, <4>1, Zenon DEF Partly
    <3>. QED
      BY <3>1, <3>2, <3>4, <3>5, Zenon
  <2>. QED
    BY <2>1, <2>4, <2>5, <2>6
<1>12. ASSUME NEW k \in 1..Len(Full), DeterminesA(k), k >= At + 1
       PROVE  ~aKnown'
  <2>1. k \in Int /\ At \in Int /\ k # At /\ k >= At
    BY <1>1, <1>12
  <2>2. ~aKnown
    BY <1>12, <2>1 DEF Progress, Along
  <2>3. ~DeterminesA(At)
    BY <1>1, <1>12, <2>1, FullIs
  <2>. QED
    BY <2>2, <2>3
<1>13. Len(plan') <= Len(Full')
  BY <1>5, <1>7, Zenon
<1>14. ASSUME NEW k \in DOMAIN plan'
       PROVE  plan'[k] = Full'[At' + k - 1]
  BY <1>5, <1>6, <1>8, <1>14, Zenon
<1>15. ASSUME NEW k \in 1..Len(Full'), Full'[k][1] = "hold"
       PROVE  /\ k < At' => Complete(Full[k][2], Full[k][3])'
              /\ k > At' => Got(Full[k][2])' = <<>>
              /\ k = At' => slot' \in 1..Full'[k][3] /\ Partly(Full[k][2], slot)'
  <2>1. k \in 1..Len(Full) /\ Full[k][1] = "hold"
    BY <1>5, <1>15, Zenon
  <2>. QED
    BY <1>5, <1>6, <1>11, <2>1, Zenon
<1>16. ASSUME NEW k \in 1..Len(Full'), DeterminesA(k)', k >= At'
       PROVE  ~aKnown'
  <2>1. k \in 1..Len(Full) /\ DeterminesA(k) /\ k >= At + 1
    BY <1>5, <1>6, <1>16, Zenon DEF DeterminesA
  <2>. QED
    BY <1>12, <2>1, Zenon
<1>. QED
  BY <1>13, <1>14, <1>15, <1>16, Zenon DEF Progress, Along

\* A sample that is not the last of its hold.
InPart(m) == \A p : p = Full[At][2] => Partly(p, m)'

\* The present step goes on.
LEMMA PartOfHold ==
  ASSUME Progress, OnTrack, UNCHANGED <<test, pc, abort, plan, touched, aKnown>>,
         At \in 1..Len(Full), Len(Full) \in Nat, Full[At][1] = "hold",
         NEW m \in 1..Full[At][3], slot' = m, OthersKept, InPart(m)
  PROVE  Progress'
<1>1. Full' = Full
  BY SamePlan
<1>2. At' = At
  BY <1>1 DEF At
<1>3. Along
  BY DEF Progress
<1>4. Len(plan') <= Len(Full')
  BY <1>1, <1>3, Zenon DEF Along
<1>5. ASSUME NEW k \in DOMAIN plan'
      PROVE  plan'[k] = Full'[At' + k - 1]
  BY <1>1, <1>2, <1>3, <1>5, Zenon DEF Along
<1>6. ASSUME NEW k \in 1..Len(Full'), Full'[k][1] = "hold"
      PROVE  /\ k < At' => Complete(Full[k][2], Full[k][3])'
             /\ k > At' => Got(Full[k][2])' = <<>>
             /\ k = At' => slot' \in 1..Full'[k][3] /\ Partly(Full[k][2], slot)'
  <2>1. k \in 1..Len(Full) /\ Full[k][1] = "hold"
    BY <1>1, <1>6, Zenon
  <2>2. CASE k = At
    <3>1. ~(k < At') /\ ~(k > At')
      BY <1>2, <2>1, <2>2
    <3>2. slot' \in 1..Full'[k][3]
      BY <1>1, <2>2, Zenon
    <3>3. Partly(Full[k][2], slot)'
      BY <1>1, <2>2, Zenon DEF InPart
    <3>. QED
      BY <3>1, <3>2, <3>3, Zenon
  <2>3. CASE k # At
    <3>1. ~(Full[At][1] = "hold" /\ Full[At][2] = Full[k][2])
      BY <2>1, <2>3, FullIs
    <3>2. Got(Full[k][2])' = Got(Full[k][2])
      BY <1>1, <3>1, Zenon DEF OthersKept
    <3>3. /\ k < At' => Complete(Full[k][2], Full[k][3])
          /\ k > At' => Got(Full[k][2]) = <<>>
      BY <1>2, <1>3, <2>1, Zenon DEF Along
    <3>4. ASSUME NEW ph, NEW n, Got(ph)' = Got(ph), Complete(ph, n)
          PROVE  Complete(ph, n)'
      BY <3>4, Zenon DEF Complete
    <3>5. k < At' => Complete(Full[k][2], Full[k][3])'
      BY <1>1, <3>2, <3>3, <3>4, Zenon
    <3>6. k > At' => Got(Full[k][2])' = <<>>
      BY <1>1, <3>2, <3>3, Zenon
    <3>. QED
      BY <1>2, <2>3, <3>5, <3>6, Zenon
  <2>. QED
    BY <2>2, <2>3
<1>7. ASSUME NEW k \in 1..Len(Full'), DeterminesA(k)', k >= At'
      PROVE  ~aKnown'
  <2>1. k \in 1..Len(Full) /\ DeterminesA(k) /\ k >= At
    BY <1>1, <1>2, <1>7, Zenon DEF DeterminesA
  <2>. QED
    BY <1>3, <2>1, Zenon DEF Along
<1>. QED
  BY <1>4, <1>5, <1>6, <1>7, Zenon DEF Progress, Along

\* What a sample of a hold adds to its phase.
LEMMA HoldAdds ==
  ASSUME TypeRun, TypeHold, TypeData, NEW ph \in Phases, NEW O \in Readouts, Sampled(ph, t0 + slot, O)
  PROVE  /\ Got(ph)' = Append(Got(ph), [t |-> slot, odd |-> O])
         /\ \A p : p # ph => Got(p)' = Got(p)
<1>1. t0 + slot \in Nat /\ (t0 + slot) - t0 = slot
  BY DEF TypeHold
<1>2. /\ Got(ph)' = Append(Got(ph), [t |-> (t0 + slot) - t0, odd |-> O])
      /\ \A p : p # ph => Got(p)' = Got(p)
  BY <1>1, SampleAdds
<1>. QED
  BY <1>1, <1>2, Zenon

\* A sample of a hold of a test.
LEMMA HoldGoesOn ==
  ASSUME TypeRun, TypeHold, TypeData, Started, Progress, pc = "test",
         NEW O \in SomeOdd, NEW slow \in Nat, HoldSample(O, slow)
  PROVE  Progress'
<1>. PICK k, ph, n, why, next, x :
       /\ k = At /\ ph = Full[k][2] /\ n = Full[k][3] /\ why = Finding(O, CountsAfter(O))
       /\ next = SlotAfter(slot, n, slow) /\ x = [t |-> slot, odd |-> O]
  OBVIOUS
<1>1. plan # <<>> /\ Head(plan)[1] = "hold"
  BY DEF HoldSample, Does
<1>2. OnTrack
  BY <1>1 DEF OnTrack, Started
<1>3. k \in 1..Len(Full) /\ Head(plan) = Full[k] /\ Full[k] \in Steps
  BY <1>1, <1>2, Present
<1>4. Full[k][1] = "hold" /\ ph \in Phases /\ n \in Nat \ {0}
  BY <1>1, <1>3, StepTypes
<1>5. slot \in 1..n /\ Partly(ph, slot)
  BY <1>2, <1>3, <1>4 DEF Progress, Along
<1>6. /\ Sampled(ph, t0 + slot, O) /\ (slow > 0 => slot < n)
      /\ IF why # "" THEN Ends(why, O)
         ELSE abort' = abort /\ (IF next > n THEN NextStep(t0 + slot) ELSE slot' = next /\ UNCHANGED <<plan, t0>>)
  BY <1>3 DEF HoldSample
<1>7. t0 + slot \in Nat /\ (t0 + slot) - t0 = slot /\ slot \in Nat
  BY DEF TypeHold
<1>8. O \in Readouts
  BY OddType
<1>9. /\ UNCHANGED <<test, pc, touched, aKnown>>
  BY <1>6 DEF Sampled, request
<1>10. /\ Got(ph)' = Append(Got(ph), x)
       /\ \A p : p # ph => Got(p)' = Got(p)
  BY <1>4, <1>6, <1>8, HoldAdds, Zenon
<1>11. x \in Points /\ x.t = slot
  BY <1>7, <1>8 DEF Points
<1>12. Got(ph) \in Seq(Points)
  BY DEF TypeData, Got
<1>13. /\ Append(Got(ph), x) # <<>> /\ Append(Got(ph), x)[Len(Append(Got(ph), x))].t = slot
       /\ \A i \in DOMAIN Append(Got(ph), x) : Append(Got(ph), x)[i].t <= slot
       /\ \A i \in DOMAIN Append(Got(ph), x) : i > 1 => Append(Got(ph), x)[i - 1].t < Append(Got(ph), x)[i].t
  <2>. DEFINE q == Got(ph)
  <2>1. q \in Seq(Points) /\ (\A i \in DOMAIN q : q[i].t < slot)
        /\ \A i \in DOMAIN q : i > 1 => q[i - 1].t < q[i].t
    BY <1>5, <1>12 DEF Partly
  <2>. HIDE DEF q
  <2>2. /\ Append(q, x) # <<>> /\ Append(q, x)[Len(Append(q, x))].t = slot
        /\ \A i \in DOMAIN Append(q, x) : Append(q, x)[i].t <= slot
        /\ \A i \in DOMAIN Append(q, x) : i > 1 => Append(q, x)[i - 1].t < Append(q, x)[i].t
    BY <1>7, <1>11, <2>1, SampleInOrder
  <2>. QED
    BY <2>2 DEF q
<1>14. Full' = Full
  BY <1>9, SamePlan
<1>15. CASE why # ""
  <2>1. abort' # ""
    BY <1>6, <1>15, EndsType, FindingIs
  <2>. QED
    BY <2>1, OffTrack
<1>16. CASE why = "" /\ next > n
  <2>1. slot = n
    BY <1>4, <1>5, <1>6, <1>16, NextSlot
  <2>2. NextStep(t0 + slot)
    BY <1>6, <1>16
  <2>3. OthersKept
    BY <1>4, <1>10, Zenon DEF OthersKept
  <2>4. \A p, m : p = ph /\ m = n => Complete(p, m)'
    <3>. DEFINE q == Append(Got(ph), x)
    <3>1. q # <<>> /\ q[Len(q)].t = n /\ \A i \in DOMAIN q : i > 1 => q[i - 1].t < q[i].t
      BY <1>13, <2>1
    <3>2. ASSUME NEW p, NEW m, p = ph, m = n
          PROVE  Complete(p, m)'
      <4>1. Got(p)' = q
        BY <1>10, <3>2
      <4>. HIDE DEF q
      <4>. QED
        BY <3>1, <3>2, <4>1, Zenon DEF Complete
    <3>. QED
      BY <3>2, Zenon
  <2>5. Done
    BY <1>14, <2>4, Zenon DEF Done
  <2>. QED
    BY <1>1, <1>2, <1>7, <1>9, <2>2, <2>3, <2>5, Advances
<1>17. CASE why = "" /\ ~(next > n)
  <2>1. next \in 1..n /\ slot < next /\ next \in Nat
    <3>1. SlotAfter(slot, n, slow) \in Int
      BY <1>4, <1>7 DEF SlotAfter
    <3>2. next \in Int /\ (next <= n => next \in 1..n /\ slot < next)
      BY <1>4, <1>5, <1>6, <3>1, NextSlot
    <3>3. n \in Int /\ ~(next > n)
      <4>1. n \in Int
        BY <1>4
      <4>. QED
        BY <1>17, <4>1, Zenon
    <3>4. next <= n
      BY <3>2, <3>3
    <3>5. 1..n \subseteq Nat
      OBVIOUS
    <3>. QED
      BY <3>2, <3>4, <3>5
  <2>2. slot' = next /\ UNCHANGED <<plan, abort>>
    BY <1>6, <1>17
  <2>3. OthersKept
    BY <1>4, <1>10, Zenon DEF OthersKept
  <2>4. ASSUME NEW p, p = ph
        PROVE  Partly(p, next)'
    <3>. DEFINE q == Append(Got(ph), x)
    <3>1. Got(p)' = q
      BY <1>10, <2>4
    <3>2. \A i \in DOMAIN q : q[i].t < next
      <4>1. q \in Seq(Points)
        BY <1>11, <1>12, OneMore
      <4>. HIDE DEF q
      <4>2. \A i \in DOMAIN q : q[i] \in Points /\ q[i].t <= slot
        BY <1>13, <4>1 DEF q
      <4>3. slot < next /\ next \in Nat /\ slot \in Nat
        BY <1>7, <2>1
      <4>. QED
        BY <4>2, <4>3 DEF Points
    <3>3. \A i \in DOMAIN q : i > 1 => q[i - 1].t < q[i].t
      BY <1>13
    <3>. HIDE DEF q
    <3>. QED
      BY <2>1, <2>2, <3>1, <3>2, <3>3, Zenon DEF Partly
  <2>5. InPart(next)
    BY <2>2, <2>4 DEF InPart
  <2>6. Len(Full) \in Nat
    BY <1>1, <1>2, Present
  <2>7. next \in 1..Full[At][3]
    BY <2>1
  <2>8. UNCHANGED <<test, pc, abort, plan, touched, aKnown>>
    BY <1>9, <2>2
  <2>. QED
    BY <1>2, <1>3, <1>4, <2>2, <2>3, <2>5, <2>6, <2>7, <2>8, PartOfHold
<1>. QED
  BY <1>15, <1>16, <1>17

\* A test starts at the first step of its plan, with nothing collected.
LEMMA TestStarts ==
  ASSUME TypeRun, TypeHold, TypeData, AtGates, Before, pc = "gates",
         NEW g6 \in {"PASS", "PARTIAL", "FAIL"}, Decide(g6)
  PROVE  Progress'
<1>1. UNCHANGED <<test, touched, aKnown, coll>> /\ slot' = 1
  BY DEF Decide, request
<1>2. touched = {} /\ ~aKnown /\ DOMAIN coll \subseteq {Boot, Gate}
  BY DEF Before
<1>3. CASE plan' = <<>>
  BY <1>1, <1>2, <1>3, OffTrack
<1>4. CASE plan' # <<>>
  <2>1. plan' = Full
    BY <1>4, GatesPassed
  <2>2. Full' = Full
    BY <1>1, SamePlan
  <2>3. Full \in Seq(Steps) /\ Len(Full) \in Nat /\ DOMAIN Full = 1..Len(Full)
    <3>1. Full \in Seq(Steps)
      BY FullIs
    <3>. QED
      BY <3>1
  <2>4. At' = 1
    <3>1. At' = Len(Full') - Len(plan') + 1
      BY DEF At
    <3>2. At' = Len(Full) - Len(Full) + 1
      BY <2>1, <2>2, <3>1, Zenon
    <3>. QED
      BY <2>3, <3>2
  <2>5. Len(plan') <= Len(Full')
    <3>1. Len(Full) <= Len(Full)
      BY <2>3
    <3>. QED
      BY <2>1, <2>2, <3>1, Zenon
  <2>6. ASSUME NEW k \in DOMAIN plan'
        PROVE  plan'[k] = Full'[At' + k - 1]
    <3>1. k \in 1..Len(Full)
      BY <2>1, <2>3, <2>6, Zenon
    <3>2. 1 + k - 1 = k
      BY <3>1
    <3>. QED
      BY <2>1, <2>2, <2>4, <3>2, Zenon
  <2>7. ASSUME NEW k \in 1..Len(Full'), Full'[k][1] = "hold"
        PROVE  /\ k < At' => Complete(Full[k][2], Full[k][3])'
               /\ k > At' => Got(Full[k][2])' = <<>>
               /\ k = At' => slot' \in 1..Full'[k][3] /\ Partly(Full[k][2], slot)'
    <3>1. k \in 1..Len(Full) /\ Full[k][1] = "hold"
      BY <2>2, <2>7, Zenon
    <3>2. Full[k][2] \notin DOMAIN coll
      BY <1>2, <3>1, FullIs
    <3>3. Got(Full[k][2])' = <<>>
      BY <1>1, <2>2, <3>2, Zenon DEF Got
    <3>4. ~(k < At')
      BY <2>4, <3>1
    <3>5. slot' \in 1..Full'[k][3]
      <4>1. Full[k] \in Steps
        BY <2>3, <3>1
      <4>2. Full[k][3] \in Nat \ {0}
        BY <3>1, <4>1, StepTypes
      <4>3. 1 \in 1..Full[k][3]
        BY <4>2
      <4>. QED
        BY <1>1, <2>2, <4>3, Zenon
    <3>6. Partly(Full[k][2], slot)'
      <4>1. DOMAIN <<>> = {}
        OBVIOUS
      <4>. QED
        BY <3>3, <4>1, Zenon DEF Partly
    <3>. QED
      BY <3>3, <3>4, <3>5, <3>6, Zenon
  <2>. QED
    BY <1>1, <1>2, <2>5, <2>6, <2>7, Zenon DEF Progress, Along
<1>. QED
  BY <1>3, <1>4

\* A command or a mark is done.
LEMMA StepDone ==
  ASSUME TypeHold, Progress, OnTrack, plan # <<>>, Head(plan)[1] \in {"manual", "write", "auto", "mark"},
         UNCHANGED <<test, coll, aKnown>>, NextStep(now)
  PROVE  Progress'
<1>1. At \in 1..Len(Full) /\ Head(plan) = Full[At] /\ now \in Nat
  BY Present DEF TypeHold
<1>2. Full[At][1] # "hold"
  BY <1>1
<1>3. OthersKept
  BY <1>2 DEF OthersKept, Got
<1>4. Done
  BY <1>2, Zenon DEF Done
<1>. QED
  BY <1>1, <1>3, <1>4, Advances

\* Every step of a run leaves what the plan has held.
LEMMA ProgressStep ==
  ASSUME IInv, [Next]_vars
  PROVE  Progress'
<1>. TypeOK /\ TypeRun /\ TypeHold /\ TypeData /\ Before /\ AtGates /\ Started /\ Progress
  BY DEF IInv, TypeOK
<1>1. ASSUME pc' # "test"
      PROVE  Progress'
  BY <1>1, OffTrack
<1>2. ASSUME pc = "test", plan # <<>>
      PROVE  OnTrack /\ TestSteps(plan) /\ Head(plan) = plan[1] /\ 1 \in DOMAIN plan
  BY <1>2, NextUp DEF OnTrack, Started
<1>3. CASE \E bad \in {{}} \cup {{g} : g \in PreGates}, d, typed \in BOOLEAN : Confirm(bad, d, typed)
  BY <1>3, <1>1 DEF Confirm
<1>4. CASE StartGates
  BY <1>4, <1>1 DEF StartGates
<1>5. CASE \E g6 \in {"PASS", "PARTIAL", "FAIL"} : Decide(g6)
  <2>1. PICK g6 \in {"PASS", "PARTIAL", "FAIL"} : Decide(g6)
    BY <1>5
  <2>2. pc = "gates"
    <3>1. pc \in {"gates", "test"} /\ plan # <<>> /\ Head(plan)[1] = "decide"
      BY <2>1 DEF Decide, Does
    <3>2. pc # "test"
      BY <1>2, <3>1 DEF TestSteps
    <3>. QED
      BY <3>1, <3>2
  <2>. QED
    BY <2>1, <2>2, TestStarts
<1>6. CASE \E O \in SomeOdd : TakeSample(O)
  <2>1. pc \in {"gates", "test"} /\ plan # <<>> /\ Head(plan)[1] = "sample" /\ pc' = pc
    BY <1>6 DEF TakeSample, Does, Sampled
  <2>2. pc # "test"
    BY <1>2, <2>1 DEF TestSteps
  <2>. QED
    BY <1>1, <2>1, <2>2
<1>7. CASE \E O \in SomeOdd, slow \in 0..MaxOdd - odd : HoldSample(O, slow)
  <2>1. PICK O \in SomeOdd, slow \in 0..MaxOdd - odd : HoldSample(O, slow)
    BY <1>7
  <2>2. slow \in Nat
    OBVIOUS
  <2>3. pc' = pc
    BY <2>1 DEF HoldSample, Sampled
  <2>4. CASE pc = "test"
    BY <2>1, <2>2, <2>4, HoldGoesOn
  <2>5. CASE pc # "test"
    BY <1>1, <2>3, <2>5
  <2>. QED
    BY <2>4, <2>5
<1>8. CASE HoldCancelled
  <2>1. abort' # ""
    BY <1>8 DEF HoldCancelled, Stopped
  <2>. QED
    BY <2>1, OffTrack
<1>9. CASE \E out \in {"sent", "failed", "no state file"} : Command(out)
  <2>1. /\ pc = "test" /\ plan # <<>> /\ Head(plan)[1] \in {"manual", "write", "auto"}
        /\ UNCHANGED <<test, pc, coll, aKnown>>
    BY <1>9 DEF Command, request, data
  <2>2. NextStep(now) \/ Stopped("command")
    BY <1>9 DEF Command
  <2>3. CASE NextStep(now)
    BY <1>2, <2>1, <2>3, StepDone
  <2>4. CASE Stopped("command")
    <3>1. abort' # ""
      BY <2>4 DEF Stopped
    <3>. QED
      BY <3>1, OffTrack
  <2>. QED
    BY <2>2, <2>3, <2>4
<1>10. CASE Mark
  <2>1. /\ plan # <<>> /\ Head(plan)[1] = "mark" /\ NextStep(now)
        /\ UNCHANGED <<test, pc, coll, aKnown>>
    BY <1>10 DEF Mark, Does, request, data
  <2>2. CASE pc = "test"
    BY <1>2, <2>1, <2>2, StepDone
  <2>3. CASE pc # "test"
    BY <1>1, <2>1, <2>3
  <2>. QED
    BY <2>2, <2>3
<1>11. CASE ValueA
  <2>1. Does("value A") /\ UNCHANGED <<test, pc, coll>>
    BY <1>11 DEF ValueA, request
  <2>2. pc \in {"gates", "test"} /\ plan # <<>> /\ Head(plan)[1] = "value A"
    BY <2>1 DEF Does
  <2>3. CASE pc # "test"
    BY <1>1, <2>1, <2>3
  <2>4. CASE pc = "test"
    <3>1. OnTrack
      BY <1>2, <2>2, <2>4
    <3>2. /\ Len(plan) \in Nat \ {0} /\ Len(Full) \in Nat /\ At \in 1..Len(Full) /\ Head(plan) = Full[At]
      BY <2>2, <3>1, Present
    <3>3. DeterminesA(At)
      BY <2>2, <3>2, Zenon DEF DeterminesA
    <3>4. CASE NextStep(now)
      <4>1. now \in Nat
        BY DEF TypeHold
      <4>2. Full[At][1] # "hold"
        <5>1. "value A" # "hold"
          OBVIOUS
        <5>. QED
          BY <3>3, <5>1, Zenon DEF DeterminesA
      <4>3. OthersKept
        BY <2>1, <4>2 DEF OthersKept, Got
      <4>4. Done
        BY <4>2, Zenon DEF Done
      <4>. QED
        BY <2>1, <2>2, <3>1, <3>3, <3>4, <4>1, <4>3, <4>4, Advances
    <3>5. CASE plan' = <<>> /\ UNCHANGED aKnown
      <4>1. ~aKnown
        <5>1. Along
          BY <3>1 DEF Progress
        <5>2. At >= At
          BY <3>2
        <5>. QED
          BY <3>2, <3>3, <5>1, <5>2, Zenon DEF Along
      <4>2. test # "map"
        BY <3>2, <3>3, FullIs, Zenon
      <4>. QED
        BY <2>1, <3>5, <4>1, <4>2, OffTrack
    <3>. QED
      BY <1>11, <3>4, <3>5, Zenon DEF ValueA
  <2>. QED
    BY <2>3, <2>4
<1>12. CASE TestEnds
  BY <1>12, <1>1 DEF TestEnds
<1>13. CASE \E fails \in SUBSET ToClose : \E differs \in SUBSET (ToClose \ fails) : Restore(fails, differs)
  BY <1>13, <1>1 DEF Restore
<1>14. CASE Closed
  BY <1>14, <1>1 DEF Closed
<1>15. CASE WriteMeta
  BY <1>15, <1>1 DEF WriteMeta
<1>16. CASE WriteVerdict
  BY <1>16, <1>1 DEF WriteVerdict
<1>17. CASE Finish
  BY <1>17, <1>1 DEF Finish
<1>18. CASE Aftermath
  BY <1>18, <1>1 DEF Aftermath
<1>19. CASE Cancel
  BY <1>19, Stays DEF Cancel, request, hold, data
<1>20. CASE \E how \in {"killed", "panic"} : Dies(how)
  BY <1>20, <1>1 DEF Dies
<1>21. CASE UNCHANGED vars
  BY <1>21, Stays DEF request, hold, data, watch, vars
<1>. QED
  BY <1>3, <1>4, <1>5, <1>6, <1>7, <1>8, <1>9, <1>10, <1>11, <1>12, <1>13, <1>14, <1>15,
    <1>16, <1>17, <1>18, <1>19, <1>20, <1>21 DEF Next

-----------------------------------------------------------------------------
(* Results.                                                                *)

\* What the results of a test are made from, complete.
AllHeld ==
  IF test = "map"
  THEN Complete(Rest, Hold) /\ \A i \in DOMAIN T1Steps : Complete(Phase("step", 0, T1Steps[i]), Hold)
  ELSE /\ Complete(A, Pre)
       /\ \A i \in DOMAIN SubRuns :
            /\ Complete(Phase("hold", SubRuns[i][1], SubRuns[i][2]), Hold)
            /\ Complete(Phase("log", SubRuns[i][1], SubRuns[i][2]), Observe)

Over == {"close", "meta", "verdict", "sums", "end"}

\* A test on its way that has no step left held all of its phases.
LEMMA AllDone ==
  ASSUME TypeHold, Progress, OnTrack, plan = <<>>
  PROVE  AllHeld
<1>1. Len(plan) = 0
  OBVIOUS
<1>2. Full \in Seq(Steps)
  BY FullIs
<1>3. Len(Full) \in Nat
  BY <1>2
<1>4. At = Len(Full) + 1
  BY <1>1, <1>3 DEF At
<1>5. Along
  BY DEF Progress
<1>6. ASSUME NEW ph, NEW n, HeldFor(ph, n)
      PROVE  Complete(ph, n)
  <2>1. PICK k \in 1..Len(Full) : Full[k][1] = "hold" /\ Full[k][2] = ph /\ Full[k][3] = n
    BY <1>6 DEF HeldFor
  <2>2. k < At
    BY <1>3, <1>4
  <2>. QED
    BY <1>5, <2>1, <2>2, Zenon DEF Along
<1>. QED
  BY <1>6, FullHolds, Zenon DEF AllHeld

\* Only a test that was not stopped gives a result of a test.
LEMMA ResultOf ==
  ASSUME NoResult, pc = "test", plan = <<>>, results' = (IF touched = {} THEN results ELSE Outcome),
         results'.v[1] \in {"T1", "T2"}
  PROVE  OnTrack
<1>1. touched # {}
  <2>1. Inconclusive.v[1] = "inconclusive" /\ NotApplicable.v[1] = "n/a"
    BY DEF Inconclusive, NotApplicable
  <2>2. touched = {} => results' \in {Inconclusive, NotApplicable}
    BY DEF NoResult
  <2>. QED
    BY <2>1, <2>2
<1>2. Outcome.v[1] \in {"T1", "T2"}
  BY <1>1
<1>3. CASE test = "map"
  <2>1. abort = ""
    <3>1. SUFFICES ASSUME abort # ""
                   PROVE  FALSE
      OBVIOUS
    <3>2. Outcome = Inconclusive
      BY <1>3, <3>1 DEF Outcome
    <3>. QED
      BY <1>2, <3>2 DEF Inconclusive
  <2>. QED
    BY <1>1, <1>3, <2>1 DEF OnTrack
<1>4. CASE test # "map"
  <2>1. aKnown
    <3>1. SUFFICES ASSUME ~aKnown
                   PROVE  FALSE
      OBVIOUS
    <3>2. Outcome = Inconclusive
      BY <1>4, <3>1 DEF Outcome
    <3>. QED
      BY <1>2, <3>2 DEF Inconclusive
  <2>2. abort = ""
    <3>1. SUFFICES ASSUME abort # ""
                   PROVE  FALSE
      OBVIOUS
    <3>2. \E a, runs : Outcome = FinishHandback(a, runs, abort)
      BY <1>4, <2>1, Zenon DEF Outcome
    <3>3. PICK a, runs : Outcome = FinishHandback(a, runs, abort)
      BY <3>2
    <3>4. Outcome.v = <<"inconclusive">>
      BY <3>1, <3>3 DEF FinishHandback
    <3>. QED
      BY <1>2, <3>4
  <2>. QED
    BY <1>1, <1>4, <2>1, <2>2 DEF OnTrack
<1>. QED
  BY <1>3, <1>4

\* Only the end of a test makes results, and nothing changes them later.
LEMMA LastSlotSampledStep ==
  ASSUME IInv, [Next]_vars
  PROVE  LastSlotSampled'
<1>. TypeOK /\ TypeRun /\ TypeHold /\ TypeData /\ NoResult /\ Progress /\ LastSlotSampled
  BY DEF IInv, TypeOK
<1>1. LastSlotSampled = (pc \in Over /\ results.v[1] \in {"T1", "T2"} => AllHeld)
  BY DEF LastSlotSampled, AllHeld, Over
<1>2. LastSlotSampled' = ((pc \in Over /\ results.v[1] \in {"T1", "T2"})' => AllHeld')
  BY DEF LastSlotSampled, AllHeld, Over
<1>3. ASSUME pc' \notin Over
      PROVE  LastSlotSampled'
  BY <1>2, <1>3
<1>4. ASSUME UNCHANGED <<test, coll>>
      PROVE  AllHeld' = AllHeld
  BY <1>4 DEF AllHeld, Complete, Got
<1>5. ASSUME pc \in Over, UNCHANGED <<test, coll, results>>
      PROVE  LastSlotSampled'
  BY <1>1, <1>2, <1>4, <1>5
<1>6. CASE \E bad \in {{}} \cup {{g} : g \in PreGates}, d, typed \in BOOLEAN : Confirm(bad, d, typed)
  BY <1>6, <1>3 DEF Confirm, Over, Does
<1>7. CASE StartGates
  BY <1>7, <1>3 DEF StartGates, Over, Does
<1>8. CASE \E g6 \in {"PASS", "PARTIAL", "FAIL"} : Decide(g6)
  BY <1>8, <1>3 DEF Decide, Over, Does
<1>9. CASE \E O \in SomeOdd : TakeSample(O)
  BY <1>9, <1>3 DEF TakeSample, Over, Does, Sampled
<1>10. CASE \E O \in SomeOdd, slow \in 0..MaxOdd - odd : HoldSample(O, slow)
  BY <1>10, <1>3 DEF HoldSample, Over, Does, Sampled
<1>11. CASE HoldCancelled
  BY <1>11, <1>3 DEF HoldCancelled, Over, Does
<1>12. CASE \E out \in {"sent", "failed", "no state file"} : Command(out)
  BY <1>12, <1>3 DEF Command, Over, Does
<1>13. CASE Mark
  BY <1>13, <1>3 DEF Mark, Over, Does
<1>14. CASE ValueA
  BY <1>14, <1>3 DEF ValueA, Over, Does
<1>15. CASE TestEnds
  <2>1. /\ pc = "test" /\ plan = <<>> /\ UNCHANGED <<test, coll>>
        /\ results' = IF touched = {} THEN results ELSE Outcome
    BY <1>15 DEF TestEnds, request
  <2>2. SUFFICES ASSUME results'.v[1] \in {"T1", "T2"}
                 PROVE  AllHeld'
    BY <1>2
  <2>3. OnTrack
    BY <2>1, <2>2, ResultOf
  <2>. QED
    BY <1>4, <2>1, <2>3, AllDone
<1>16. CASE \E fails \in SUBSET ToClose : \E differs \in SUBSET (ToClose \ fails) : Restore(fails, differs)
  BY <1>16, <1>3, <1>5 DEF Restore, Over, request, data
<1>17. CASE Closed
  BY <1>17, <1>5 DEF Closed, Over, request, data
<1>18. CASE WriteMeta
  BY <1>18, <1>5 DEF WriteMeta, Over, request, data
<1>19. CASE WriteVerdict
  BY <1>19, <1>5 DEF WriteVerdict, Over, request, data
<1>20. CASE Finish
  BY <1>20, <1>3, <1>5 DEF Finish, Over, request, data
<1>21. CASE Aftermath
  BY <1>21, <1>3, <1>5 DEF Aftermath, Over, request, data
<1>22. CASE Cancel
  BY <1>22, <1>3 DEF Cancel, Over, Does
<1>23. CASE \E how \in {"killed", "panic"} : Dies(how)
  BY <1>23, <1>3 DEF Dies, Over
<1>24. CASE UNCHANGED vars
  BY <1>24, <1>3, <1>5 DEF vars, request, data
<1>. QED
  BY <1>6, <1>7, <1>8, <1>9, <1>10, <1>11, <1>12, <1>13, <1>14, <1>15, <1>16, <1>17, <1>18,
    <1>19, <1>20, <1>21, <1>22, <1>23, <1>24 DEF Next

-----------------------------------------------------------------------------
(* The theorems.                                                           *)

\* The start of a run.
LEMMA InitIInv ==
  ASSUME Init
  PROVE  IInv
<1>1. TypeRun
  <2>1. /\ test \in Tests /\ ch \in Channels /\ confirmed \in BOOLEAN /\ dcrOK \in BOOLEAN
        /\ cancel \in BOOLEAN /\ aKnown \in BOOLEAN
    BY Zenon DEF Init
  <2>2. hot \in 0..3 /\ nan \in [Sensors -> Nat] /\ limits \in SUBSET Sensors /\ touched \in SUBSET (1..4)
    <3>1. hot = 0 /\ nan = [s \in Sensors |-> 0] /\ limits = {} /\ touched = {}
      BY DEF Init
    <3>. QED
      BY <3>1
  <2>3. gates \in [Gates -> GateValues]
    <3>1. gates = [g \in Gates |-> "SKIPPED"] /\ "SKIPPED" \in GateValues
      BY DEF Init, GateValues
    <3>. QED
      BY <3>1
  <2>4. pc = "confirm" /\ abort = ""
    BY DEF Init
  <2>. QED
    BY <2>1, <2>2, <2>3, <2>4, Zenon DEF TypeRun
<1>2. TypeHold /\ TypeData
  <2>1. <<>> \in Seq(Steps) /\ <<>> \in Seq(Nat \X Whats) /\ <<>> \in Seq(Samples) /\ <<>> \in Seq(Events)
        /\ DOMAIN <<>> = {}
    OBVIOUS
  <2>. QED
    BY <2>1, Zenon DEF Init, TypeHold, TypeData
<1>3. pc = "confirm" /\ abort = "" /\ samples = <<>> /\ plan = <<>>
  BY DEF Init
<1>4. Before
  <2>1. DOMAIN <<>> = {}
    OBVIOUS
  <2>. QED
    BY <2>1 DEF Init, Before, GateSteps
<1>5. AtGates /\ NothingFound /\ Started /\ NoResult /\ CountIsTrue /\ CountIsWhole /\ NoneLost
  BY <1>3 DEF AtGates, NothingFound, Started, NoResult, CountIsTrue, CountIsWhole, NoneLost
<1>6. LostInARow /\ Progress /\ LastSlotSampled
  BY <1>3 DEF LostInARow, Progress, OnTrack, LastSlotSampled
<1>. QED
  BY <1>1, <1>2, <1>4, <1>5, <1>6 DEF IInv, TypeOK

\* The inductive invariant of a run.
THEOREM Invariance == Spec => []IInv
<1>1. Init => IInv
  BY InitIInv
<1>2. IInv /\ [Next]_vars => IInv'
  <2>. SUFFICES ASSUME IInv, [Next]_vars
                PROVE  IInv'
    OBVIOUS
  <2>1. TypeOK' /\ Before' /\ AtGates' /\ NothingFound' /\ Started' /\ NoResult'
    BY TypeRunStep, TypeHoldStep, TypeDataStep, BeforeStep, AtGatesStep, NothingFoundStep, StartedStep,
       NoResultStep DEF TypeOK
  <2>2. CountIsTrue' /\ CountIsWhole' /\ NoneLost' /\ LostInARow'
    BY CountIsTrueStep, CountIsWholeStep, NoneLostStep, LostInARowStep
  <2>3. Progress' /\ LastSlotSampled'
    BY ProgressStep, LastSlotSampledStep
  <2>. QED
    BY <2>1, <2>2, <2>3 DEF IInv
<1>. QED
  BY <1>1, <1>2, PTL DEF Spec

\* A sensor is called lost only after LostAfter samples in a row without its
\* value: a value in between starts the count again.
THEOREM LostMeansInARow == Spec => []LostInARow
<1>1. IInv => LostInARow
  BY DEF IInv
<1>. QED
  BY <1>1, Invariance, PTL

\* Every hold that a result of T1 or T2 was made from was sampled up to its end,
\* each sample later than the one before.
THEOREM HoldsAreWhole == Spec => []LastSlotSampled
<1>1. IInv => LastSlotSampled
  BY DEF IInv
<1>. QED
  BY <1>1, Invariance, PTL

\* The condition of WritesAllowed, of one step.
Allowed ==
  /\ confirmed /\ \A g \in Blocking : gates[g] = "PASS"
  /\ \A i \in DOMAIN samples : samples[i].odd \cap Ending = {}
  /\ \A i \in DOMAIN samples, s \in Sensors :
       i + LostAfter - 1 \in DOMAIN samples =>
         \E j \in i..i + LostAfter - 1 : s \notin samples[j].odd \/ ~IsTest(samples[j])

NewCommand == \E i \in DOMAIN events' \ DOMAIN events : events'[i].e[1] \in CommandTexts

\* The lines that a step adds are the texts that it logs.
LEMMA NewLines ==
  ASSUME TypeHold, TypeData, NEW texts \in Seq(Texts), Log(texts),
         NEW i \in DOMAIN events' \ DOMAIN events
  PROVE  \E k \in DOMAIN texts : events'[i].e = texts[k]
<1>1. /\ events' \in Seq(Events) /\ Len(events') = Len(events) + Len(texts)
      /\ \A k \in 1..Len(texts) : events'[Len(events) + k] = Now(texts[k])
  BY LogType
<1>2. Len(events) \in Nat /\ DOMAIN events = 1..Len(events) /\ Len(texts) \in Nat /\ DOMAIN texts = 1..Len(texts)
  BY DEF TypeData
<1>3. DOMAIN events' = 1..Len(events) + Len(texts)
  BY <1>1
<1>4. PICK k \in 1..Len(texts) : i = Len(events) + k
  <2>1. i - Len(events) \in 1..Len(texts) /\ i = Len(events) + (i - Len(events))
    BY <1>2, <1>3
  <2>. QED
    BY <2>1
<1>5. events'[i] = Now(texts[k])
  BY <1>1, <1>4
<1>. QED
  BY <1>2, <1>5 DEF Now

\* An abort is not a command.
LEMMA NoCommand ==
  ASSUME TypeHold, TypeData, events' = events \/ Log(<<Plain("ABORT")>>)
  PROVE  ~NewCommand
<1>1. CASE events' = events
  BY <1>1 DEF NewCommand
<1>2. CASE Log(<<Plain("ABORT")>>)
  <2>. DEFINE x == Plain("ABORT")
  <2>1. x \in Texts /\ x[1] = "ABORT"
    <3>1. "ABORT" \in EventNames
      BY DEF EventNames
    <3>2. x \in Texts
      BY <3>1, NamesAreTyped
    <3>. QED
      BY <3>2 DEF Plain
  <2>. HIDE DEF x
  <2>2. <<x>> \in Seq(Texts) /\ \A k \in DOMAIN <<x>> : <<x>>[k] = x
    BY <2>1
  <2>3. Log(<<x>>)
    BY <1>2 DEF x
  <2>4. \A i \in DOMAIN events' \ DOMAIN events : events'[i].e = x
    BY <2>2, <2>3, NewLines
  <2>. QED
    BY <2>1, <2>4 DEF NewCommand, CommandTexts
<1>. QED
  BY <1>1, <1>2

\* At a command and at the end of a test the run is confirmed, its gates are
\* passed and nothing was found.
LEMMA AllowedInTest ==
  ASSUME IInv, pc = "test", plan # <<>>
  PROVE  Allowed
<1>1. Started /\ NothingFound /\ NoneLost
  BY DEF IInv
<1>2. abort = "" /\ confirmed /\ \A g \in Blocking : gates[g] = "PASS"
  BY <1>1 DEF Started
<1>3. \A i \in DOMAIN samples : samples[i].odd \cap Ending = {}
  BY <1>1, <1>2 DEF NothingFound
<1>4. \A i \in DOMAIN samples, s \in Sensors :
        i + LostAfter - 1 \in DOMAIN samples =>
          \E j \in i..i + LostAfter - 1 : s \notin samples[j].odd \/ ~IsTest(samples[j])
  BY <1>1, Zenon DEF NoneLost
<1>. QED
  BY <1>2, <1>3, <1>4, Zenon DEF Allowed

\* A step that sends a command is one of a test that goes on.
LEMMA CommandStep ==
  ASSUME IInv, [Next]_vars, NewCommand
  PROVE  Allowed
<1>. TypeOK /\ TypeRun /\ TypeHold /\ TypeData /\ Before
  BY DEF IInv, TypeOK
<1>1. events' # events /\ ~Log(<<Plain("ABORT")>>)
  BY NoCommand
<1>2. CASE \E bad \in {{}} \cup {{g} : g \in PreGates}, d, typed \in BOOLEAN : Confirm(bad, d, typed)
  <2>1. events' = <<>>
    BY <1>2 DEF Confirm, CreateBundle
  <2>2. DOMAIN events' = {}
    BY <2>1
  <2>. QED
    BY <2>2 DEF NewCommand
<1>3. CASE StartGates
  BY <1>3, <1>1 DEF StartGates
<1>4. CASE \E g6 \in {"PASS", "PARTIAL", "FAIL"} : Decide(g6)
  BY <1>4, <1>1 DEF Decide
<1>5. CASE \E O \in SomeOdd : TakeSample(O)
  BY <1>5, <1>1 DEF TakeSample, Ends
<1>6. CASE \E O \in SomeOdd, slow \in 0..MaxOdd - odd : HoldSample(O, slow)
  BY <1>6, <1>1 DEF HoldSample, Ends
<1>7. CASE HoldCancelled
  BY <1>7, <1>1 DEF HoldCancelled
<1>8. CASE \E out \in {"sent", "failed", "no state file"} : Command(out)
  <2>1. pc = "test" /\ plan # <<>>
    BY <1>8 DEF Command
  <2>. QED
    BY <2>1, AllowedInTest
<1>9. CASE Mark
  <2>1. pc \in {"gates", "test"} /\ plan # <<>> /\ Head(plan)[1] = "mark"
    BY <1>9 DEF Mark, Does
  <2>2. pc # "gates"
    BY <2>1, GateOps
  <2>. QED
    BY <2>1, <2>2, AllowedInTest
<1>10. CASE ValueA
  BY <1>10, <1>1 DEF ValueA
<1>11. CASE TestEnds
  BY <1>11, <1>1 DEF TestEnds
<1>12. CASE \E fails \in SUBSET ToClose : \E differs \in SUBSET (ToClose \ fails) : Restore(fails, differs)
  <2>1. PICK texts \in Seq(Texts) :
          Log(texts) /\ \A i \in DOMAIN texts : texts[i][1] \in Reports /\ texts[i][2] \in 1..4
    BY <1>12, RestoreLogs
  <2>2. PICK i \in DOMAIN events' \ DOMAIN events : events'[i].e[1] \in CommandTexts
    BY DEF NewCommand
  <2>3. PICK k \in DOMAIN texts : events'[i].e = texts[k]
    BY <2>1, <2>2, NewLines
  <2>4. events'[i].e[1] \in Reports
    BY <2>1, <2>3
  <2>5. Reports \cap CommandTexts = {}
    BY Zenon DEF Reports, CommandTexts
  <2>. QED
    BY <2>2, <2>4, <2>5
<1>13. CASE Closed
  BY <1>13, <1>1 DEF Closed
<1>14. CASE WriteMeta
  BY <1>14, <1>1 DEF WriteMeta
<1>15. CASE WriteVerdict
  BY <1>15, <1>1 DEF WriteVerdict
<1>16. CASE Finish
  BY <1>16, <1>1 DEF Finish
<1>17. CASE Aftermath
  <2>1. PICK i \in DOMAIN events' \ DOMAIN events : events'[i].e[1] \in CommandTexts
    BY DEF NewCommand
  <2>. DEFINE x == [e |-> Plain("guardian"), ts |-> -1]
  <2>2. events \in Seq(Events) /\ events' = Append(events, x) /\ x \in Events
    <3>1. "guardian" \in EventNames
      BY DEF EventNames
    <3>2. Plain("guardian") \in Texts
      BY <3>1, NamesAreTyped
    <3>3. events' = Append(events, x)
      BY <1>17 DEF Aftermath
    <3>4. x \in Events
      BY <3>2 DEF Events
    <3>. QED
      BY <3>3, <3>4 DEF TypeData
  <2>3. x.e[1] = "guardian"
    BY DEF Plain
  <2>. HIDE DEF x
  <2>4. Len(events') = Len(events) + 1 /\ events'[Len(events) + 1] = x /\ events' \in Seq(Events)
    BY <2>2, OneMore
  <2>5. i = Len(events) + 1
    BY <2>1, <2>2, <2>4
  <2>. QED
    BY <2>1, <2>3, <2>4, <2>5 DEF CommandTexts
<1>18. CASE Cancel
  BY <1>18, <1>1 DEF Cancel
<1>19. CASE \E how \in {"killed", "panic"} : Dies(how)
  BY <1>19, <1>1 DEF Dies
<1>20. CASE UNCHANGED vars
  BY <1>20, <1>1 DEF vars
<1>. QED
  BY <1>2, <1>3, <1>4, <1>5, <1>6, <1>7, <1>8, <1>9, <1>10, <1>11, <1>12, <1>13, <1>14, <1>15,
    <1>16, <1>17, <1>18, <1>19, <1>20 DEF Next

\* No command of a test is sent to the EC by a run that was not confirmed, with a
\* gate that is not passed, or after a sample that found a limit reached, a fan
\* standing, another writer or a sensor lost, whatever happened in between.
THEOREM CommandsAreAllowed == Spec => WritesAllowed
<1>1. IInv /\ [Next]_vars => [NewCommand => Allowed]_vars
  BY CommandStep
<1>2. Spec => [][NewCommand => Allowed]_vars
  BY <1>1, Invariance, PTL DEF Spec
<1>. QED
  BY <1>2 DEF NewCommand, Allowed, WritesAllowed

=============================================================================
