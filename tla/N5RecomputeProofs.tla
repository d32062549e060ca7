-------------------------- MODULE N5RecomputeProofs --------------------------
(***************************************************************************)
(* Proofs about N5Recompute: what n5-ectest report makes of the files of a *)
(* bundle is what the run that wrote them found, whatever the duties, the  *)
(* holds, the sensors and the odd things of the run.                       *)
(***************************************************************************)
EXTENDS N5Recompute, N5RunnerProofs, SequenceTheorems

-----------------------------------------------------------------------------
(* The inductive invariant, in named parts.                                *)

\* The lines of the log with one of some texts, of those that have a time.
Lines(T) == Those(events, {i \in DOMAIN events : events[i].ts >= 0 /\ events[i].e \in T})

WriteLines(d) == Lines({WriteOf(d)})
Marks == {AutoOf(SubRuns[i][1], SubRuns[i][2]) : i \in DOMAIN SubRuns}
AutoLines == Lines(Marks)

StepPhase(i) == Phase("step", 0, T1Steps[i])
HoldPhase(i) == Phase("hold", SubRuns[i][1], SubRuns[i][2])
LogPhase(i) == Phase("log", SubRuns[i][1], SubRuns[i][2])

\* The samples of a phase in the file are those that the test collected.
Mirror ==
  \A ph \in Phases :
    /\ Len(Rows(ph)) = Len(Got(ph))
    /\ \A k \in DOMAIN Got(ph) : Rows(ph)[k].odd = Got(ph)[k].odd

\* What the test collected has its times from a line of the log.
TimedFrom(ph, from) == \A k \in DOMAIN Got(ph) : Got(ph)[k].t = Rows(ph)[k].ts - from

\* Before the test: an abort is all that was logged, the window is not judged.
Quiet ==
  /\ pc = "confirm" => plan = <<>> /\ coll = <<>> /\ samples = <<>> /\ events = <<>>
  /\ pc = "gates" => /\ \A i \in DOMAIN events : events[i].e = Plain("ABORT")
                     /\ gates["G3"] = "SKIPPED" /\ gates["G4"] = "SKIPPED"

\* The plan of a gate window: it is next, or it was sampled.
WindowPlan == << <<"sample", Boot>>, <<"sample", Gate>>, <<"hold", Gate, Window>>, <<"decide">> >>

Way ==
  pc = "gates" /\ abort = "" /\ Windowed /\ plan # <<>> =>
    /\ Len(plan) <= 4 /\ \A k \in DOMAIN plan : plan[k] = WindowPlan[4 - Len(plan) + k]
    /\ Len(plan) <= 2 => Rows(Gate) # <<>>

\* The gates of the window were made from its samples.
GatesTrue == pc \in {"test"} \cup Over => checkGates

\* A test that is not of a writing run does nothing.
Idle ==
  pc = "test" =>
    /\ results = IF Writing THEN Inconclusive ELSE NotApplicable
    /\ ~Writing => plan = <<>> /\ touched = {}

\* T1: the line of the write of a duty, from which its samples have their times.
T1Line(i) ==
  LET q == WriteLines(T1Steps[i]) IN
  /\ 1 + 2 * i >= At => q = <<>>
  /\ 1 + 2 * i < At => Len(q) = 1 /\ TimedFrom(StepPhase(i), q[1].ts)
  /\ 2 + 2 * i = At => q[1].ts = t0

T1Lines ==
  pc = "test" /\ test = "map" =>
    /\ HasEvent(T1Complete) <=> plan = <<>> /\ OnTrack
    /\ OnTrack => (At > 2 => touched # {}) /\ \A i \in DOMAIN T1Steps : T1Line(i)

\* T2: the value A, which is known or not before the first sub-run.
HasValue == \E k \in DOMAIN Got(A) : Readable(Got(A)[k])

T2Value ==
  pc = "test" /\ test # "map" =>
    /\ touched = {} => Got(A) = <<>>
    /\ OnTrack => (At > 1 => touched # {}) /\ (At > 3 => aKnown)
    /\ aKnown => HasValue
    /\ ~aKnown /\ abort = "" /\ plan = <<>> => ~HasValue
    /\ ~aKnown => AutoLines = <<>> /\ subs = <<>>

\* The position k in a plan of T2 after m marks and n evaluated sub-runs.
Within(m, n, k) ==
  /\ k <= 6 * m + 8 /\ (m > 0 => k > 6 * m + 2)
  /\ k <= 6 * n + 9 /\ (n > 0 => k > 6 * n + 3)

\* T2: the lines of its sub-runs, and the sub-runs that were evaluated.
MarkLine(i) ==
  /\ i \in DOMAIN SubRuns
  /\ AutoLines[i].e = AutoOf(SubRuns[i][1], SubRuns[i][2])
  /\ TimedFrom(LogPhase(i), AutoLines[i].ts)

T2Lines ==
  pc = "test" /\ test # "map" =>
    LET m == Len(AutoLines)
        n == Len(subs) IN
    /\ \A i \in 1..n : i \in DOMAIN SubRuns /\ subs[i] = SubRuns[i]
    /\ \A i \in 1..m : MarkLine(i)
    /\ ~OnTrack => m = n
    /\ OnTrack => Within(m, n, At) /\ (m > 0 /\ At = 6 * m + 3 => AutoLines[m].ts = t0)

\* The report recomputes what the run found.
Agrees == pc \in Over => results = Recomputed

\* The files at the end.
Files ==
  /\ pc \notin {"sums", "end", "killed"} => verdict = <<>>
  /\ verdict \in {<<>>, <<results>>}
  /\ sums => pc = "end" \/ guarded \/ (pc = "killed" /\ verdict = <<>>)

\* Together with the invariant of the run they are inductive.
RInv ==
  Mirror /\ Quiet /\ Way /\ GatesTrue /\ Idle /\ T1Lines /\ T2Value /\ T2Lines /\ Agrees /\ Files

-----------------------------------------------------------------------------
(* Parts of sequences.                                                     *)

\* The numbers of a set and one that is greater than all of them.
LEMMA OrderedMore ==
  ASSUME NEW n \in Nat, NEW P \in SUBSET (1..n)
  PROVE  /\ Cardinality(P \cup {n + 1}) = Cardinality(P) + 1
         /\ \A k \in 1..Cardinality(P) : Ordered(P \cup {n + 1})[k] = Ordered(P)[k]
         /\ Ordered(P \cup {n + 1})[Cardinality(P) + 1] = n + 1
<1>. DEFINE m == n + 1
            Q == P \cup {m}
            N == Cardinality(P)
            b(i) == Cardinality({j \in P : j < i})
            c(i) == Cardinality({j \in Q : j < i})
            T(k) == {i \in P : b(i) < k}
            U(k) == {i \in Q : c(i) < k}
<1>1. N \in Nat /\ IsFiniteSet(P)
  BY UpTo
<1>2. /\ m \in Nat /\ m \notin P /\ ~(m < m) /\ m \in 1..m
      /\ \A i \in P : i \in Nat /\ i < m /\ ~(i < i) /\ ~(m < i) /\ i \in 1..m
  OBVIOUS
<1>. HIDE DEF m
<1>3. Cardinality(Q) = N + 1
  BY <1>1, <1>2, FS_AddElement
<1>4. \A i \in P : c(i) = b(i) /\ b(i) \in Nat /\ b(i) < N
  <2>1. TAKE i \in P
  <2>2. {j \in Q : j < i} = {j \in P : j < i}
    BY <1>2
  <2>. DEFINE V == {j \in P : j < i}
  <2>3. V \in SUBSET P /\ i \notin V
    BY <1>2
  <2>4. V \in SUBSET (1..n) /\ V # P
    BY <2>3
  <2>5. c(i) = Cardinality(V)
    BY <2>2
  <2>6. b(i) = Cardinality(V)
    OBVIOUS
  <2>. HIDE DEF V, b, c
  <2>7. Cardinality(V) \in Nat
    BY <2>4, UpTo
  <2>8. Cardinality(V) < Cardinality(P)
    BY <2>3, <2>4, Fewer
  <2>. QED
    BY <2>5, <2>6, <2>7, <2>8
<1>5. c(m) = N
  <2>1. \A j \in Q : j < m <=> j \in P
    BY <1>2
  <2>2. {j \in Q : j < m} = P
    BY <2>1
  <2>. QED
    BY <2>2
<1>6. Ordered(P) = [k \in 1..N |-> Max(T(k))]
  BY DEF Ordered
<1>7. Ordered(Q) = [k \in 1..N + 1 |-> Max(U(k))]
  <2>1. Ordered(Q) = [k \in 1..Cardinality(Q) |-> Max(U(k))]
    BY DEF Ordered
  <2>. QED
    BY <1>3, <2>1
<1>. HIDE DEF b, c, N
<1>8. \A k \in 1..N : Ordered(Q)[k] = Ordered(P)[k]
  <2>1. TAKE k \in 1..N
  <2>2. ~(c(m) < k)
    BY <1>1, <1>5
  <2>3. \A i \in P : c(i) < k <=> b(i) < k
    BY <1>4
  <2>4. U(k) = T(k)
    BY <2>2, <2>3
  <2>5. k \in 1..N + 1
    BY <1>1
  <2>. HIDE DEF T, U
  <2>. QED
    BY <1>6, <1>7, <2>4, <2>5
<1>9. Ordered(Q)[N + 1] = m
  <2>. DEFINE W == U(N + 1)
              w == Max(W)
  <2>1. m \in W
    BY <1>1, <1>5
  <2>2. \A i \in Q : i \in 1..m
    BY <1>2
  <2>3. W \in SUBSET (1..m)
    BY <2>2
  <2>4. N + 1 \in 1..N + 1
    BY <1>1
  <2>5. Ordered(Q)[N + 1] = w
    BY <1>7, <2>4
  <2>. HIDE DEF W, Q
  <2>6. w \in W /\ \A i \in W : i <= w
    BY <1>2, <2>1, <2>3, Greatest
  <2>. HIDE DEF w
  <2>7. w \in 1..m /\ m <= w
    BY <2>1, <2>3, <2>6
  <2>8. w = m
    BY <1>2, <2>7
  <2>. QED
    BY <2>5, <2>8
<1>. QED
  BY <1>3, <1>8, <1>9 DEF N, m

\* A part of a sequence is made of its elements.
LEMMA ThoseAre ==
  ASSUME NEW S, NEW q \in Seq(S), NEW P \in SUBSET (DOMAIN q)
  PROVE  /\ Cardinality(P) \in Nat
         /\ Those(q, P) \in Seq(S) /\ Len(Those(q, P)) = Cardinality(P)
         /\ \A k \in 1..Cardinality(P) : Ordered(P)[k] \in P /\ Those(q, P)[k] = q[Ordered(P)[k]]
<1>1. Len(q) \in Nat /\ DOMAIN q = 1..Len(q) /\ P \in SUBSET (1..Len(q))
  OBVIOUS
<1>2. Cardinality(P) \in Nat /\ Ordered(P) \in [1..Cardinality(P) -> P]
  BY <1>1, InOrder
<1>3. \A k \in 1..Cardinality(P) : Ordered(P)[k] \in P
  BY <1>2
<1>4. \A i \in P : q[i] \in S
  OBVIOUS
<1>5. Those(q, P) = [k \in 1..Cardinality(P) |-> q[Ordered(P)[k]]]
  BY DEF Those
<1>. HIDE DEF Those
<1>6. Those(q, P) \in [1..Cardinality(P) -> S]
  BY <1>3, <1>4, <1>5
<1>. QED
  BY <1>2, <1>3, <1>5, <1>6

\* A part depends on its elements only.
LEMMA ThoseSame ==
  ASSUME NEW S, NEW q \in Seq(S), NEW P \in SUBSET (DOMAIN q), NEW r, \A i \in P : r[i] = q[i]
  PROVE  Those(r, P) = Those(q, P)
<1>1. \A k \in 1..Cardinality(P) : Ordered(P)[k] \in P
  BY ThoseAre
<1>. QED
  BY <1>1 DEF Those

\* A part with the element that was added.
LEMMA ThoseMore ==
  ASSUME NEW S, NEW q \in Seq(S), NEW x \in S, NEW P \in SUBSET (DOMAIN q)
  PROVE  Those(Append(q, x), P \cup {Len(q) + 1}) = Append(Those(q, P), x)
<1>. DEFINE n == Len(q)
            N == Cardinality(P)
            r == Append(q, x)
            Q == P \cup {n + 1}
            z == Those(q, P)
            y == Those(r, Q)
<1>1. n \in Nat /\ P \in SUBSET (1..n) /\ r \in Seq(S) /\ Q \in SUBSET (DOMAIN r) /\ r[n + 1] = x
      /\ \A i \in 1..n : r[i] = q[i]
  OBVIOUS
<1>. HIDE DEF n, r
<1>2. /\ Cardinality(Q) = N + 1
      /\ \A k \in 1..N : Ordered(Q)[k] = Ordered(P)[k]
      /\ Ordered(Q)[N + 1] = n + 1
  BY <1>1, OrderedMore
<1>3. /\ N \in Nat /\ z \in Seq(S) /\ Len(z) = N
      /\ \A k \in 1..N : Ordered(P)[k] \in P /\ z[k] = q[Ordered(P)[k]]
  BY ThoseAre
<1>4. y = [k \in 1..Cardinality(Q) |-> r[Ordered(Q)[k]]]
  BY DEF Those
<1>. HIDE DEF N, z, Q, y
<1>5. y = [k \in 1..N + 1 |-> r[Ordered(Q)[k]]]
  BY <1>2, <1>4
<1>6. \A k \in 1..N : y[k] = z[k]
  <2>1. TAKE k \in 1..N
  <2>2. Ordered(Q)[k] = Ordered(P)[k] /\ Ordered(P)[k] \in 1..n /\ z[k] = q[Ordered(P)[k]]
    BY <1>1, <1>2, <1>3
  <2>3. k \in 1..N + 1
    BY <1>3
  <2>. QED
    BY <1>1, <1>5, <2>2, <2>3
<1>7. y[N + 1] = x
  <2>1. N + 1 \in 1..N + 1
    BY <1>3
  <2>. QED
    BY <1>1, <1>2, <1>5, <2>1
<1>8. y = Append(z, x)
  <2>1. y \in Seq(S) /\ Len(y) = N + 1
    <3>1. \A k \in 1..N + 1 : y[k] \in S
      <4>1. TAKE k \in 1..N + 1
      <4>2. k \in 1..N \/ k = N + 1
        BY <1>3
      <4>. QED
        BY <1>3, <1>6, <1>7, <4>2
    <3>2. y \in [1..N + 1 -> S]
      BY <1>5, <3>1
    <3>. QED
      BY <1>3, <3>2
  <2>2. Append(z, x) \in Seq(S) /\ Len(Append(z, x)) = N + 1
    BY <1>3
  <2>3. \A k \in 1..N + 1 : y[k] = Append(z, x)[k]
    <3>1. TAKE k \in 1..N + 1
    <3>2. k \in 1..N \/ k = N + 1
      BY <1>3
    <3>. QED
      BY <1>3, <1>6, <1>7, <3>2
  <2>. QED
    BY <2>1, <2>2, <2>3, SeqEqual
<1>. QED
  BY <1>8 DEF y, z, r, Q, n

\* Nothing of a sequence.
LEMMA ThoseNone ==
  ASSUME NEW q
  PROVE  Those(q, {}) = <<>>
<1>1. Cardinality({}) = 0
  BY FS_EmptySet
<1>2. Those(q, {}) = [k \in 1..Cardinality({}) |-> q[Ordered({})[k]]]
  BY DEF Those
<1>3. Those(q, {}) = [k \in 1..0 |-> q[Ordered({})[k]]]
  BY <1>1, <1>2
<1>. QED
  BY <1>3

\* The elements of a sequence that are in a set.
Picked(q, W) == Those(q, {i \in DOMAIN q : q[i] \in W})

\* They are elements of the sequence and of the set, and none of them is left out.
LEMMA PickedAre ==
  ASSUME NEW S, NEW q \in Seq(S), NEW W
  PROVE  /\ Picked(q, W) \in Seq(S)
         /\ \A k \in DOMAIN Picked(q, W) : Picked(q, W)[k] \in W
         /\ Picked(q, W) = <<>> <=> \A i \in DOMAIN q : q[i] \notin W
<1>. DEFINE P == {i \in DOMAIN q : q[i] \in W}
<1>1. P \in SUBSET (DOMAIN q) /\ \A i \in P : q[i] \in W
  OBVIOUS
<1>2. Len(q) \in Nat /\ DOMAIN q = 1..Len(q)
  OBVIOUS
<1>3. Picked(q, W) = Those(q, P)
  BY DEF Picked
<1>4. (\A i \in DOMAIN q : q[i] \notin W) <=> P = {}
  OBVIOUS
<1>. HIDE DEF P
<1>5. /\ Cardinality(P) \in Nat
      /\ Those(q, P) \in Seq(S) /\ Len(Those(q, P)) = Cardinality(P)
      /\ \A k \in 1..Cardinality(P) : Ordered(P)[k] \in P /\ Those(q, P)[k] = q[Ordered(P)[k]]
  BY <1>1, ThoseAre
<1>6. P = {} => Those(q, P) = <<>>
  BY ThoseNone
<1>7. P # {} => Those(q, P) # <<>>
  <2>1. SUFFICES ASSUME NEW i \in P
                 PROVE  Those(q, P) # <<>>
    OBVIOUS
  <2>2. PICK k \in 1..Cardinality(P) : Ordered(P)[k] = i
    BY <1>1, <1>2, InOrder
  <2>. QED
    BY <1>5, <2>2
<1>8. \A k \in DOMAIN Those(q, P) : Those(q, P)[k] \in W
  <2>1. TAKE k \in DOMAIN Those(q, P)
  <2>2. k \in 1..Cardinality(P)
    BY <1>5
  <2>. QED
    BY <1>1, <1>5, <2>2
<1>. QED
  BY <1>3, <1>4, <1>5, <1>6, <1>7, <1>8

\* They grow by an element that is in the set, and by no other.
LEMMA PickedMore ==
  ASSUME NEW S, NEW q \in Seq(S), NEW W, NEW x \in S
  PROVE  Picked(Append(q, x), W) = IF x \in W THEN Append(Picked(q, W), x) ELSE Picked(q, W)
<1>. DEFINE P == {i \in DOMAIN q : q[i] \in W}
            r == Append(q, x)
            Q == {i \in DOMAIN r : r[i] \in W}
            n == Len(q)
<1>1. n \in Nat /\ DOMAIN q = 1..n /\ DOMAIN r = 1..n + 1 /\ r[n + 1] = x /\ \A i \in 1..n : r[i] = q[i]
  OBVIOUS
<1>2. P \in SUBSET (DOMAIN q) /\ \A i \in P : r[i] = q[i]
  BY <1>1
<1>3. CASE x \in W
  <2>1. Q = P \cup {n + 1}
    <3>. HIDE DEF r, n
    <3>. QED
      BY <1>1, <1>3
  <2>. HIDE DEF P
  <2>2. Those(r, P \cup {n + 1}) = Append(Those(q, P), x)
    BY <1>2, ThoseMore
  <2>3. Picked(r, W) = Those(r, Q) /\ Picked(q, W) = Those(q, P)
    BY DEF Picked, P
  <2>. QED
    BY <1>3, <2>1, <2>2, <2>3
<1>4. CASE x \notin W
  <2>1. Q = P
    <3>. HIDE DEF r, n
    <3>. QED
      BY <1>1, <1>4
  <2>. HIDE DEF P
  <2>2. Those(r, P) = Those(q, P)
    BY <1>2, ThoseSame
  <2>3. Picked(r, W) = Those(r, Q) /\ Picked(q, W) = Those(q, P)
    BY DEF Picked, P
  <2>. QED
    BY <1>4, <2>1, <2>2, <2>3
<1>. QED
  BY <1>3, <1>4

\* Elements that are not in the set change nothing.
LEMMA PickedKept ==
  ASSUME NEW S, NEW q \in Seq(S), NEW r \in Seq(S), NEW W,
         \A i \in DOMAIN r : r[i] \notin W
  PROVE  Picked(q \o r, W) = Picked(q, W)
<1>. DEFINE P == {i \in DOMAIN q : q[i] \in W}
            z == q \o r
            Q == {i \in DOMAIN z : z[i] \in W}
<1>1. /\ Len(q) \in Nat /\ DOMAIN q = 1..Len(q) /\ Len(r) \in Nat /\ DOMAIN r = 1..Len(r)
      /\ DOMAIN z = 1..Len(q) + Len(r)
      /\ \A i \in 1..Len(q) : z[i] = q[i]
      /\ \A i \in 1..Len(r) : z[Len(q) + i] = r[i]
  OBVIOUS
<1>. HIDE DEF z
<1>2. \A i \in DOMAIN z : i \in 1..Len(q) \/ (i - Len(q) \in 1..Len(r) /\ i = Len(q) + (i - Len(q)))
  BY <1>1
<1>3. \A i \in DOMAIN z : i \notin DOMAIN q => z[i] \notin W
  BY <1>1, <1>2
<1>4. \A i \in DOMAIN q : i \in DOMAIN z /\ z[i] = q[i]
  BY <1>1
<1>5. Q = P
  BY <1>3, <1>4
<1>6. P \in SUBSET (DOMAIN q) /\ \A i \in P : z[i] = q[i]
  BY <1>4
<1>. HIDE DEF P
<1>7. Those(z, P) = Those(q, P)
  BY <1>6, ThoseSame
<1>. QED
  BY <1>5, <1>7 DEF Picked, z, P

-----------------------------------------------------------------------------
(* The files at the end.                                                   *)

\* The result of a run does not change after its test, and only Finish and the
\* guardian write the checksums.
LEMMA FilesStep ==
  ASSUME Files, [Next]_vars
  PROVE  Files'
<1>1. ASSUME pc \in {"gates", "test", "close", "panic"}, pc' \in {"gates", "test", "close", "panic"},
             UNCHANGED <<verdict, sums, guarded>>
      PROVE  Files'
  BY <1>1 DEF Files
<1>2. CASE \E bad \in {{}} \cup {{g} : g \in PreGates}, d, typed \in BOOLEAN : Confirm(bad, d, typed)
  BY <1>2 DEF Confirm, Files, final, request, data, CreateBundle
<1>3. CASE StartGates
  BY <1>3 DEF StartGates, Files, final, request, data
<1>4. CASE \E g6 \in {"PASS", "PARTIAL", "FAIL"} : Decide(g6)
  <2>1. PICK g6 \in {"PASS", "PARTIAL", "FAIL"} : Decide(g6)
    BY <1>4, Zenon
  <2>2. pc \in {"gates", "test"} /\ UNCHANGED <<verdict, sums, guarded>>
    BY <2>1, Zenon DEF Decide, final, Does
  <2>3. pc' = "test" \/ pc' = pc
    BY <2>1, Zenon DEF Decide, request, Does
  <2>. QED
    BY <1>1, <2>2, <2>3
<1>5. CASE \E O \in SomeOdd : TakeSample(O)
  <2>1. PICK O \in SomeOdd : TakeSample(O)
    BY <1>5, Zenon
  <2>2. pc \in {"gates", "test"} /\ UNCHANGED <<verdict, sums, guarded>>
    BY <2>1, Zenon DEF TakeSample, final, Does, Sampled
  <2>3. pc' = "test" \/ pc' = pc
    BY <2>1, Zenon DEF TakeSample, request, Does, Sampled
  <2>. QED
    BY <1>1, <2>2, <2>3
<1>6. CASE \E O \in SomeOdd, slow \in 0..MaxOdd - odd : HoldSample(O, slow)
  <2>1. PICK O \in SomeOdd, slow \in 0..MaxOdd - odd : HoldSample(O, slow)
    BY <1>6, Zenon
  <2>2. pc \in {"gates", "test"} /\ UNCHANGED <<verdict, sums, guarded>>
    BY <2>1, Zenon DEF HoldSample, final, Does, Sampled
  <2>3. pc' = "test" \/ pc' = pc
    BY <2>1, Zenon DEF HoldSample, request, Does, Sampled
  <2>. QED
    BY <1>1, <2>2, <2>3
<1>7. CASE HoldCancelled
  BY <1>7 DEF HoldCancelled, Files, final, request, data, Does
<1>8. CASE \E out \in {"sent", "failed", "no state file"} : Command(out)
  <2>1. PICK out \in {"sent", "failed", "no state file"} : Command(out)
    BY <1>8, Zenon
  <2>2. pc \in {"test"} /\ UNCHANGED <<verdict, sums, guarded>>
    BY <2>1, Zenon DEF Command, final
  <2>3. pc' = "test" \/ pc' = pc
    BY <2>1, Zenon DEF Command, request
  <2>. QED
    BY <1>1, <2>2, <2>3
<1>9. CASE Mark
  BY <1>9 DEF Mark, Files, final, request, data, Does
<1>10. CASE ValueA
  BY <1>10 DEF ValueA, Files, final, request, data, Does
<1>11. CASE TestEnds
  BY <1>11 DEF TestEnds, Files, final, request, data
<1>12. CASE \E fails \in SUBSET ToClose : \E differs \in SUBSET (ToClose \ fails) : Restore(fails, differs)
  <2>1. PICK fails \in SUBSET ToClose, differs \in SUBSET ToClose : Restore(fails, differs)
    BY <1>12, Zenon
  <2>2. pc \in {"close", "panic"} /\ UNCHANGED <<verdict, sums, guarded>>
    BY <2>1, Zenon DEF Restore, final
  <2>3. pc' = "test" \/ pc' = pc
    BY <2>1, Zenon DEF Restore, request
  <2>. QED
    BY <1>1, <2>2, <2>3
<1>13. CASE Closed
  BY <1>13 DEF Closed, Files, final, request, data
<1>14. CASE WriteMeta
  BY <1>14 DEF WriteMeta, Files, final, request, data
<1>15. CASE WriteVerdict
  BY <1>15 DEF WriteVerdict, Files, final, request, data
<1>16. CASE Finish
  BY <1>16 DEF Finish, Files, final, request, data
<1>17. CASE Aftermath
  BY <1>17 DEF Aftermath, Files, final, request, data
<1>18. CASE Cancel
  BY <1>18 DEF Cancel, Files, final, request, data
<1>19. CASE \E how \in {"killed", "panic"} : Dies(how)
  BY <1>19 DEF Dies, Files, final, request, data, Running
<1>20. CASE UNCHANGED vars
  BY <1>20 DEF vars, Files, final, request, data
<1>. QED
  BY <1>2, <1>3, <1>4, <1>5, <1>6, <1>7, <1>8, <1>9, <1>10, <1>11, <1>12, <1>13, <1>14, <1>15,
    <1>16, <1>17, <1>18, <1>19, <1>20 DEF Next

\* A clean report is one of a bundle that was closed, by its worker or by the
\* guardian after it.
THEOREM CleanIsClosed == Spec => []CleanMeansFinished
<1>1. Init => Files
  BY DEF Init, Files
<1>2. Files /\ [Next]_vars => Files'
  BY FilesStep
<1>3. Files => CleanMeansFinished
  BY DEF Files, CleanMeansFinished, ReportClean, SameVerdict
<1>. QED
  BY <1>1, <1>2, <1>3, PTL DEF Spec

-----------------------------------------------------------------------------
(* Lines of the files.                                                     *)

\* The samples of a phase, and the timed lines of some texts.
OfPhase(ph) == {s \in Samples : s.ph = ph}
OfTexts(T) == {e \in Events : e.ts >= 0 /\ e.e \in T}

\* The rows of a phase are those samples of the file that are of it.
LEMMA RowsAre ==
  ASSUME NEW q \in Seq(Samples), NEW ph
  PROVE  Those(q, {i \in DOMAIN q : q[i].ph = ph}) = Picked(q, OfPhase(ph))
<1>1. \A i \in DOMAIN q : q[i] \in Samples
  OBVIOUS
<1>2. {i \in DOMAIN q : q[i].ph = ph} = {i \in DOMAIN q : q[i] \in OfPhase(ph)}
  BY <1>1 DEF OfPhase
<1>. QED
  BY <1>2 DEF Picked

\* The lines with some texts are those of the log that have one of them and a time.
LEMMA LinesAre ==
  ASSUME NEW q \in Seq(Events), NEW T
  PROVE  Those(q, {i \in DOMAIN q : q[i].ts >= 0 /\ q[i].e \in T}) = Picked(q, OfTexts(T))
<1>1. \A i \in DOMAIN q : q[i] \in Events
  OBVIOUS
<1>2. {i \in DOMAIN q : q[i].ts >= 0 /\ q[i].e \in T} = {i \in DOMAIN q : q[i] \in OfTexts(T)}
  BY <1>1 DEF OfTexts
<1>. QED
  BY <1>2 DEF Picked

\* What the report reads of a phase, and of a text, has the types of the files.
LEMMA ReadTypes ==
  ASSUME TypeData
  PROVE  /\ \A ph : Rows(ph) \in Seq(Samples) /\ Got(ph) \in Seq(Points)
         /\ \A T : Lines(T) \in Seq(Events) /\ \A k \in DOMAIN Lines(T) : Lines(T)[k].e \in T
<1>1. samples \in Seq(Samples) /\ events \in Seq(Events)
  BY DEF TypeData
<1>2. ASSUME NEW ph
      PROVE  Rows(ph) \in Seq(Samples)
  <2>1. Rows(ph) = Picked(samples, OfPhase(ph))
    BY <1>1, RowsAre DEF Rows
  <2>. QED
    BY <1>1, <2>1, PickedAre
<1>3. ASSUME NEW ph
      PROVE  Got(ph) \in Seq(Points)
  BY DEF TypeData, Got
<1>4. ASSUME NEW T
      PROVE  Lines(T) \in Seq(Events) /\ \A k \in DOMAIN Lines(T) : Lines(T)[k].e \in T
  <2>1. Lines(T) = Picked(events, OfTexts(T))
    BY <1>1, LinesAre DEF Lines
  <2>2. /\ Picked(events, OfTexts(T)) \in Seq(Events)
        /\ \A k \in DOMAIN Picked(events, OfTexts(T)) : Picked(events, OfTexts(T))[k] \in OfTexts(T)
    BY <1>1, PickedAre
  <2>. QED
    BY <2>1, <2>2 DEF OfTexts
<1>. QED
  BY <1>2, <1>3, <1>4

\* A sample is one more of its phase.
LEMMA RowAdded ==
  ASSUME TypeData, NEW s \in Samples, Row(s), NEW ph
  PROVE  Rows(ph)' = IF s.ph = ph THEN Append(Rows(ph), s) ELSE Rows(ph)
<1>1. samples \in Seq(Samples) /\ samples' = Append(samples, s)
  BY DEF TypeData, Row
<1>2. samples' \in Seq(Samples)
  BY <1>1
<1>3. Rows(ph) = Picked(samples, OfPhase(ph))
  BY <1>1, RowsAre DEF Rows
<1>4. Rows(ph)' = Picked(samples', OfPhase(ph))
  BY <1>2, RowsAre DEF Rows
<1>5. Picked(Append(samples, s), OfPhase(ph)) =
        IF s \in OfPhase(ph) THEN Append(Picked(samples, OfPhase(ph)), s) ELSE Picked(samples, OfPhase(ph))
  BY <1>1, PickedMore
<1>6. s \in OfPhase(ph) <=> s.ph = ph
  BY DEF OfPhase
<1>. QED
  BY <1>1, <1>3, <1>4, <1>5, <1>6

\* A line is one more of its text.
LEMMA LineAdded ==
  ASSUME TypeHold, TypeData, NEW x \in Texts, Log(<<x>>), NEW T
  PROVE  Lines(T)' = IF x \in T THEN Append(Lines(T), Now(x)) ELSE Lines(T)
<1>. DEFINE e == Now(x)
<1>1. e \in Events /\ e.e = x /\ e.ts >= 0
  BY DEF TypeHold, Now, Events
<1>2. events' = Append(events, e)
  <2>1. events' = events \o [i \in DOMAIN <<x>> |-> Now(<<x>>[i])]
    BY DEF Log
  <2>2. [i \in DOMAIN <<x>> |-> Now(<<x>>[i])] = <<e>>
    OBVIOUS
  <2>3. events \o <<e>> = Append(events, e)
    <3>1. events \in Seq(Events)
      BY DEF TypeData
    <3>. HIDE DEF e
    <3>. QED
      BY <1>1, <3>1
  <2>. QED
    BY <2>1, <2>2, <2>3
<1>. HIDE DEF e
<1>3. events \in Seq(Events) /\ events' \in Seq(Events)
  BY <1>1, <1>2 DEF TypeData
<1>4. Lines(T) = Picked(events, OfTexts(T))
  BY <1>3, LinesAre DEF Lines
<1>5. Lines(T)' = Picked(events', OfTexts(T))
  BY <1>3, LinesAre DEF Lines
<1>6. Picked(Append(events, e), OfTexts(T)) =
        IF e \in OfTexts(T) THEN Append(Picked(events, OfTexts(T)), e) ELSE Picked(events, OfTexts(T))
  BY <1>1, <1>3, PickedMore
<1>7. e \in OfTexts(T) <=> x \in T
  BY <1>1 DEF OfTexts
<1>. QED
  BY <1>2, <1>4, <1>5, <1>6, <1>7 DEF e

\* Lines of other texts change nothing, and a text is in the log when it was logged.
LEMMA LinesKept ==
  ASSUME TypeHold, TypeData, NEW texts \in Seq(Texts), Log(texts), NEW T,
         \A k \in DOMAIN texts : texts[k] \notin T
  PROVE  Lines(T)' = Lines(T)
<1>. DEFINE r == [i \in DOMAIN texts |-> Now(texts[i])]
<1>1. events \in Seq(Events) /\ events' = events \o r
  BY DEF TypeData, Log
<1>2. \A x \in Texts : Now(x) \in Events /\ Now(x).e = x
  BY DEF TypeHold, Now, Events
<1>3. r \in Seq(Events) /\ DOMAIN r = DOMAIN texts /\ \A i \in DOMAIN r : r[i] = Now(texts[i])
  <2>1. \A i \in DOMAIN texts : Now(texts[i]) \in Events
    BY <1>2
  <2>2. Len(texts) \in Nat /\ DOMAIN texts = 1..Len(texts)
    OBVIOUS
  <2>3. r \in [1..Len(texts) -> Events]
    BY <2>1, <2>2
  <2>. QED
    BY <2>2, <2>3
<1>. HIDE DEF r
<1>4. \A i \in DOMAIN r : r[i] \notin OfTexts(T)
  BY <1>2, <1>3 DEF OfTexts
<1>5. events' \in Seq(Events)
  BY <1>1, <1>3
<1>6. Lines(T) = Picked(events, OfTexts(T))
  BY <1>1, LinesAre DEF Lines
<1>7. Lines(T)' = Picked(events', OfTexts(T))
  BY <1>5, LinesAre DEF Lines
<1>8. Picked(events \o r, OfTexts(T)) = Picked(events, OfTexts(T))
  BY <1>1, <1>3, <1>4, PickedKept
<1>. QED
  BY <1>1, <1>6, <1>7, <1>8

\* Lines that are added to the log are there, and no others are new.
LEMMA EventsKept ==
  ASSUME TypeHold, TypeData, NEW texts \in Seq(Texts), Log(texts), NEW x
  PROVE  HasEvent(x)' <=> HasEvent(x) \/ \E k \in DOMAIN texts : texts[k] = x
<1>1. /\ events' \in Seq(Events) /\ Len(events') = Len(events) + Len(texts)
      /\ \A k \in 1..Len(events) : events'[k] = events[k]
      /\ \A k \in 1..Len(texts) : events'[Len(events) + k] = Now(texts[k])
  BY LogType
<1>2. /\ Len(events) \in Nat /\ DOMAIN events = 1..Len(events)
      /\ Len(texts) \in Nat /\ DOMAIN texts = 1..Len(texts)
      /\ DOMAIN events' = 1..Len(events) + Len(texts)
  BY <1>1 DEF TypeData
<1>3. ASSUME NEW i \in DOMAIN events', events'[i].e = x
      PROVE  HasEvent(x) \/ \E k \in DOMAIN texts : texts[k] = x
  <2>1. CASE i \in DOMAIN events
    BY <1>1, <1>2, <1>3, <2>1 DEF HasEvent
  <2>2. CASE i \notin DOMAIN events
    BY <1>3, <2>2, NewLines
  <2>. QED
    BY <2>1, <2>2
<1>4. ASSUME NEW i \in DOMAIN events, events[i].e = x
      PROVE  HasEvent(x)'
  <2>1. i \in DOMAIN events' /\ events'[i] = events[i]
    BY <1>1, <1>2
  <2>. QED
    BY <1>4, <2>1 DEF HasEvent
<1>5. ASSUME NEW k \in DOMAIN texts, texts[k] = x
      PROVE  HasEvent(x)'
  <2>. DEFINE i == Len(events) + k
  <2>1. i \in DOMAIN events' /\ events'[i] = Now(texts[k])
    BY <1>1, <1>2
  <2>2. Now(texts[k]).e = x
    BY <1>5 DEF Now
  <2>. HIDE DEF i
  <2>. QED
    BY <2>1, <2>2 DEF HasEvent
<1>. QED
  BY <1>3, <1>4, <1>5 DEF HasEvent

\* The guardian's line, which has no time of the run, is of no text of a test.
LEMMA GuardianLine ==
  ASSUME TypeData, events' = Append(events, [e |-> Plain("guardian"), ts |-> -1])
  PROVE  /\ \A T : Lines(T)' = Lines(T)
         /\ \A x : x # Plain("guardian") => (HasEvent(x)' <=> HasEvent(x))
<1>. DEFINE e == [e |-> Plain("guardian"), ts |-> -1]
<1>1. e \in Events /\ ~(e.ts >= 0) /\ e.e = Plain("guardian")
  <2>1. "guardian" \in EventNames
    BY DEF EventNames
  <2>. QED
    BY <2>1, NamesAreTyped DEF Events
<1>. HIDE DEF e
<1>2. events \in Seq(Events) /\ events' = Append(events, e)
  BY DEF TypeData, e
<1>3. /\ events' \in Seq(Events) /\ Len(events') = Len(events) + 1 /\ events'[Len(events) + 1] = e
      /\ \A k \in DOMAIN events : events'[k] = events[k]
  BY <1>1, <1>2, OneMore
<1>4. ASSUME NEW T
      PROVE  Lines(T)' = Lines(T)
  <2>1. Lines(T) = Picked(events, OfTexts(T))
    BY <1>2, LinesAre DEF Lines
  <2>2. Lines(T)' = Picked(events', OfTexts(T))
    BY <1>3, LinesAre DEF Lines
  <2>3. e \notin OfTexts(T)
    BY <1>1 DEF OfTexts
  <2>. QED
    BY <1>1, <1>2, <2>1, <2>2, <2>3, PickedMore
<1>5. ASSUME NEW x, x # Plain("guardian")
      PROVE  HasEvent(x)' <=> HasEvent(x)
  <2>1. DOMAIN events' = DOMAIN events \cup {Len(events) + 1}
    BY <1>2, <1>3
  <2>. QED
    BY <1>1, <1>3, <1>5, <2>1 DEF HasEvent
<1>. QED
  BY <1>4, <1>5

-----------------------------------------------------------------------------
(* Samples and gates.                                                      *)

\* A sample is written to the file and handed to the test.
LEMMA MirrorSample ==
  ASSUME TypeOK, Mirror, NEW ph, NEW t, NEW O, SampleOf(ph, t, O)
  PROVE  Mirror'
<1>. TypeRun /\ TypeHold /\ TypeData
  BY DEF TypeOK
<1>. DEFINE s == [ph |-> ph, ts |-> t, odd |-> O]
            x == [t |-> t - t0, odd |-> O]
<1>1. ph \in Phases /\ t \in Nat /\ O \in Readouts /\ Sampled(ph, t, O)
  BY DEF SampleOf
<1>2. s \in Samples /\ x \in Points /\ s.odd = x.odd /\ s.ph = ph
  <2>1. t - t0 \in Int
    BY <1>1 DEF TypeHold
  <2>. QED
    BY <1>1, <2>1 DEF Samples, Points
<1>3. Row(s)
  BY <1>1 DEF Sampled
<1>4. Got(ph)' = Append(Got(ph), x) /\ \A p : p # ph => Got(p)' = Got(p)
  BY <1>1, SampleAdds
<1>. HIDE DEF s, x
<1>5. ASSUME NEW p \in Phases
      PROVE  /\ Len(Rows(p)') = Len(Got(p)')
             /\ \A k \in DOMAIN Got(p)' : Rows(p)'[k].odd = Got(p)'[k].odd
  <2>1. /\ Len(Rows(p)) = Len(Got(p)) /\ \A k \in DOMAIN Got(p) : Rows(p)[k].odd = Got(p)[k].odd
        /\ Rows(p) \in Seq(Samples) /\ Got(p) \in Seq(Points)
    BY ReadTypes DEF Mirror
  <2>2. Rows(p)' = IF s.ph = p THEN Append(Rows(p), s) ELSE Rows(p)
    BY <1>2, <1>3, RowAdded
  <2>3. CASE p = ph
    <3>. DEFINE a == Rows(p)
                b == Got(p)
    <3>1. /\ a \in Seq(Samples) /\ b \in Seq(Points) /\ Len(a) = Len(b)
          /\ \A k \in DOMAIN b : a[k].odd = b[k].odd
          /\ Rows(p)' = Append(a, s) /\ Got(p)' = Append(b, x)
      BY <1>2, <1>4, <2>1, <2>2, <2>3
    <3>. HIDE DEF a, b
    <3>2. \A k \in DOMAIN Append(b, x) : k \in DOMAIN b \/ k = Len(b) + 1
      BY <1>2, <3>1
    <3>3. /\ Len(Append(a, s)) = Len(Append(b, x)) /\ DOMAIN a = DOMAIN b
          /\ Append(a, s)[Len(b) + 1] = s /\ Append(b, x)[Len(b) + 1] = x
          /\ \A k \in DOMAIN b : Append(a, s)[k] = a[k] /\ Append(b, x)[k] = b[k]
      BY <1>2, <3>1
    <3>4. \A k \in DOMAIN Append(b, x) : Append(a, s)[k].odd = Append(b, x)[k].odd
      BY <1>2, <3>1, <3>2, <3>3
    <3>. QED
      BY <3>1, <3>3, <3>4
  <2>4. CASE p # ph
    BY <1>2, <1>4, <2>1, <2>2, <2>4
  <2>. QED
    BY <2>3, <2>4
<1>. QED
  BY <1>5 DEF Mirror

\* The file mirrors what was collected, through every step of a run.
LEMMA MirrorStep ==
  ASSUME TypeOK, Quiet, Mirror, [Next]_vars
  PROVE  Mirror'
<1>1. ASSUME UNCHANGED <<coll, samples>>
      PROVE  Mirror'
  BY <1>1 DEF Mirror, Rows, Got
<1>2. CASE \E bad \in {{}} \cup {{g} : g \in PreGates}, d, typed \in BOOLEAN : Confirm(bad, d, typed)
  <2>1. coll = <<>> /\ coll' = coll /\ samples' = <<>>
    BY <1>2 DEF Confirm, CreateBundle, data, Quiet
  <2>2. DOMAIN <<>> = {}
    OBVIOUS
  <2>3. ASSUME NEW ph
        PROVE  Rows(ph)' = <<>> /\ Got(ph)' = <<>>
    <3>1. Got(ph)' = <<>>
      BY <2>1, <2>2 DEF Got
    <3>2. {i \in DOMAIN samples' : samples'[i].ph = ph} = {}
      BY <2>1, <2>2
    <3>3. Rows(ph)' = Those(samples', {})
      BY <3>2 DEF Rows
    <3>. QED
      BY <3>1, <3>3, ThoseNone
  <2>4. Len(<<>>) = 0
    OBVIOUS
  <2>. QED
    BY <2>2, <2>3, <2>4 DEF Mirror
<1>3. CASE StartGates
  BY <1>3, <1>1 DEF StartGates, data
<1>4. CASE \E g6 \in {"PASS", "PARTIAL", "FAIL"} : Decide(g6)
  BY <1>4, <1>1 DEF Decide, data
<1>5. CASE \E O \in SomeOdd : TakeSample(O)
  BY <1>5, SamplesOf, MirrorSample
<1>6. CASE \E O \in SomeOdd, slow \in 0..MaxOdd - odd : HoldSample(O, slow)
  BY <1>6, SamplesOf, MirrorSample
<1>7. CASE HoldCancelled
  BY <1>7, <1>1 DEF HoldCancelled, data
<1>8. CASE \E out \in {"sent", "failed", "no state file"} : Command(out)
  BY <1>8, <1>1 DEF Command, data
<1>9. CASE Mark
  BY <1>9, <1>1 DEF Mark, data
<1>10. CASE ValueA
  BY <1>10, <1>1 DEF ValueA, data
<1>11. CASE TestEnds
  BY <1>11, <1>1 DEF TestEnds, data
<1>12. CASE \E fails \in SUBSET ToClose : \E differs \in SUBSET (ToClose \ fails) : Restore(fails, differs)
  BY <1>12, <1>1 DEF Restore, data
<1>13. CASE Closed
  BY <1>13, <1>1 DEF Closed, data
<1>14. CASE WriteMeta
  BY <1>14, <1>1 DEF WriteMeta, data
<1>15. CASE WriteVerdict
  BY <1>15, <1>1 DEF WriteVerdict, data
<1>16. CASE Finish
  BY <1>16, <1>1 DEF Finish, data
<1>17. CASE Aftermath
  BY <1>17, <1>1 DEF Aftermath, data
<1>18. CASE Cancel
  BY <1>18, <1>1 DEF Cancel, data
<1>19. CASE \E how \in {"killed", "panic"} : Dies(how)
  BY <1>19, <1>1 DEF Dies, data
<1>20. CASE UNCHANGED vars
  BY <1>20, <1>1 DEF vars, data
<1>. QED
  BY <1>2, <1>3, <1>4, <1>5, <1>6, <1>7, <1>8, <1>9, <1>10, <1>11, <1>12, <1>13, <1>14, <1>15,
    <1>16, <1>17, <1>18, <1>19, <1>20 DEF Next

\* Before the test nothing but an abort is logged.
LEMMA QuietStep ==
  ASSUME IInv, Quiet, [Next]_vars
  PROVE  Quiet'
<1>. TypeOK /\ TypeRun /\ TypeHold /\ TypeData /\ Before
  BY DEF IInv, TypeOK
<1>1. ASSUME pc' \notin {"confirm", "gates"}
      PROVE  Quiet'
  BY <1>1 DEF Quiet
<1>2. ASSUME UNCHANGED <<pc, plan, coll, samples, events, gates>>
      PROVE  Quiet'
  BY <1>2 DEF Quiet
<1>3. ASSUME pc = "gates", UNCHANGED <<pc, gates>>, events' = events \/ Log(<<Plain("ABORT")>>)
      PROVE  Quiet'
  <2>1. (\A i \in DOMAIN events' : events'[i].e = Plain("ABORT"))
    <3>1. CASE events' = events
      BY <1>3, <3>1 DEF Quiet
    <3>2. CASE Log(<<Plain("ABORT")>>)
      <4>. DEFINE x == Plain("ABORT")
      <4>1. x \in Texts
        <5>1. "ABORT" \in EventNames
          BY DEF EventNames
        <5>. QED
          BY <5>1, NamesAreTyped
      <4>2. Log(<<x>>) /\ \A i \in DOMAIN events : events[i].e = x
        BY <1>3, <3>2 DEF Quiet
      <4>. HIDE DEF x
      <4>3. <<x>> \in Seq(Texts) /\ Len(<<x>>) = 1 /\ \A k \in DOMAIN <<x>> : <<x>>[k] = x
        BY <4>1
      <4>4. \A i \in DOMAIN events' \ DOMAIN events : events'[i].e = x
        BY <4>2, <4>3, NewLines
      <4>5. \A k \in 1..Len(events) : events'[k] = events[k]
        BY <4>2, <4>3, LogType
      <4>6. DOMAIN events = 1..Len(events)
        BY DEF TypeData
      <4>. QED
        BY <4>2, <4>4, <4>5, <4>6 DEF x
    <3>. QED
      BY <1>3, <3>1, <3>2
  <2>. QED
    BY <1>3, <2>1 DEF Quiet
<1>4. CASE \E bad \in {{}} \cup {{g} : g \in PreGates}, d, typed \in BOOLEAN : Confirm(bad, d, typed)
  <2>1. PICK bad \in {{}} \cup {{g} : g \in PreGates}, d \in BOOLEAN, typed \in BOOLEAN : Confirm(bad, d, typed)
    BY <1>4
  <2>2. /\ pc' = "gates" \/ pc' = "refused"
        /\ events' = <<>>
        /\ gates' = [g \in Gates |-> IF g \in bad THEN "FAIL" ELSE IF g \in PreGates THEN "PASS" ELSE "SKIPPED"]
    BY <2>1, Zenon DEF Confirm, CreateBundle
  <2>3. DOMAIN <<>> = {}
    OBVIOUS
  <2>4. bad \subseteq PreGates /\ "G3" \notin PreGates /\ "G4" \notin PreGates /\ "G3" \in Gates /\ "G4" \in Gates
    BY DEF PreGates, Gates, Blocking
  <2>5. gates'["G3"] = "SKIPPED" /\ gates'["G4"] = "SKIPPED"
    BY <2>2, <2>4
  <2>. QED
    BY <2>2, <2>3, <2>5 DEF Quiet
<1>5. CASE StartGates
  BY <1>5, <1>3 DEF StartGates
<1>6. CASE \E g6 \in {"PASS", "PARTIAL", "FAIL"} : Decide(g6)
  BY <1>6, <1>1 DEF Decide
<1>7. CASE \E O \in SomeOdd : TakeSample(O)
  <2>1. pc \in {"gates", "test"} /\ UNCHANGED <<pc, gates>> /\ (events' = events \/ Log(<<Plain("ABORT")>>))
    BY <1>7, Zenon DEF TakeSample, Does, Sampled, Ends
  <2>. QED
    BY <1>1, <1>3, <2>1
<1>8. CASE \E O \in SomeOdd, slow \in 0..MaxOdd - odd : HoldSample(O, slow)
  <2>1. pc \in {"gates", "test"} /\ UNCHANGED <<pc, gates>> /\ (events' = events \/ Log(<<Plain("ABORT")>>))
    BY <1>8, Zenon DEF HoldSample, Does, Sampled, Ends
  <2>. QED
    BY <1>1, <1>3, <2>1
<1>9. CASE HoldCancelled
  <2>1. pc \in {"gates", "test"} /\ UNCHANGED <<pc, gates>> /\ Log(<<Plain("ABORT")>>)
    BY <1>9, Zenon DEF HoldCancelled, Does
  <2>. QED
    BY <1>1, <1>3, <2>1
<1>10. CASE \E out \in {"sent", "failed", "no state file"} : Command(out)
  <2>1. pc = "test" /\ pc' = pc
    BY <1>10, Zenon DEF Command
  <2>. QED
    BY <1>1, <2>1
<1>11. CASE Mark
  <2>1. pc \in {"gates", "test"} /\ pc' = pc /\ plan # <<>> /\ Head(plan)[1] = "mark"
    BY <1>11 DEF Mark, Does
  <2>2. pc # "gates"
    BY <2>1, GateOps
  <2>. QED
    BY <1>1, <2>1, <2>2
<1>12. CASE ValueA
  <2>1. pc \in {"gates", "test"} /\ UNCHANGED <<pc, events, gates>>
    BY <1>12, Zenon DEF ValueA, Does
  <2>. QED
    BY <1>1, <1>3, <2>1
<1>13. CASE TestEnds
  BY <1>13, <1>1 DEF TestEnds
<1>14. CASE \E fails \in SUBSET ToClose : \E differs \in SUBSET (ToClose \ fails) : Restore(fails, differs)
  <2>1. pc \in {"close", "panic"} /\ pc' = pc
    BY <1>14, Zenon DEF Restore
  <2>. QED
    BY <1>1, <2>1
<1>15. CASE Closed
  BY <1>15, <1>1 DEF Closed
<1>16. CASE WriteMeta
  BY <1>16, <1>1 DEF WriteMeta
<1>17. CASE WriteVerdict
  BY <1>17, <1>1 DEF WriteVerdict
<1>18. CASE Finish
  BY <1>18, <1>1 DEF Finish
<1>19. CASE Aftermath
  BY <1>19, <1>1 DEF Aftermath
<1>20. CASE Cancel
  BY <1>20, <1>2 DEF Cancel, data
<1>21. CASE \E how \in {"killed", "panic"} : Dies(how)
  BY <1>21, <1>1 DEF Dies
<1>22. CASE UNCHANGED vars
  BY <1>22, <1>2 DEF vars, data
<1>. QED
  BY <1>4, <1>5, <1>6, <1>7, <1>8, <1>9, <1>10, <1>11, <1>12, <1>13, <1>14, <1>15, <1>16,
    <1>17, <1>18, <1>19, <1>20, <1>21, <1>22 DEF Next

\* The gates are decided before the test.
LEMMA DecidedBefore ==
  ASSUME IInv, NEW g6, Decide(g6)
  PROVE  pc = "gates" /\ plan # <<>> /\ Head(plan)[1] = "decide"
<1>1. pc \in {"gates", "test"} /\ plan # <<>> /\ Head(plan)[1] = "decide"
  BY DEF Decide, Does
<1>2. pc # "test"
  BY <1>1, NextUp DEF IInv, TypeOK, Started, TestSteps
<1>. QED
  BY <1>1, <1>2

\* A sample of a test is one of a hold of its plan.
LEMMA SampledInTest ==
  ASSUME IInv, pc = "test", NEW ph, NEW t, NEW O, SampleOf(ph, t, O)
  PROVE  /\ OnTrack /\ At \in 1..Len(Full) /\ Head(plan) = Full[At]
         /\ Full[At][1] = "hold" /\ Full[At][2] = ph /\ ph \notin {Boot, Gate}
<1>. TypeHold /\ Progress /\ Started
  BY DEF IInv, TypeOK
<1>1. plan # <<>> /\ Head(plan)[1] \in {"sample", "hold"} /\ Head(plan)[2] = ph
  BY DEF SampleOf
<1>2. OnTrack
  BY <1>1 DEF OnTrack, Started
<1>. PICK k : k = At
  OBVIOUS
<1>3. k \in 1..Len(Full) /\ Head(plan) = Full[k]
  BY <1>1, <1>2, Present
<1>4. Full[k][1] = "hold"
  BY <1>1, <1>3, FullIs
<1>5. Full[k][2] \notin {Boot, Gate}
  BY <1>3, <1>4, FullIs
<1>. QED
  BY <1>1, <1>2, <1>3, <1>4, <1>5

\* The plan of the gate window.
LEMMA WindowPlanIs ==
  /\ WindowPlan \in Seq(Steps) /\ Len(WindowPlan) = 4
  /\ WindowPlan[1] = <<"sample", Boot>> /\ WindowPlan[2] = <<"sample", Gate>>
  /\ WindowPlan[3] = <<"hold", Gate, Window>> /\ WindowPlan[4] = <<"decide">>
  /\ Windowed => GatePlan = WindowPlan
<1>. DEFINE s1 == <<"sample", Boot>>
            s2 == <<"sample", Gate>>
            s3 == <<"hold", Gate, Window>>
            s4 == <<"decide">>
<1>1. s1 \in Steps /\ s2 \in Steps /\ s3 \in Steps /\ s4 \in Steps
  BY NamesAreTyped, Numbers DEF Steps
<1>2. WindowPlan = <<s1, s2, s3, s4>>
  BY DEF WindowPlan
<1>3. Windowed => GatePlan = <<s1, s2, s3, s4>>
  BY Zenon DEF Windowed, GatePlan
<1>. HIDE DEF s1, s2, s3, s4
<1>4. /\ WindowPlan \in Seq(Steps) /\ Len(WindowPlan) = 4
      /\ WindowPlan[1] = s1 /\ WindowPlan[2] = s2 /\ WindowPlan[3] = s3 /\ WindowPlan[4] = s4
  BY <1>1, <1>2
<1>. QED
  BY <1>2, <1>3, <1>4 DEF s1, s2, s3, s4

\* A sample takes the gate window a step further.
LEMMA WaySample ==
  ASSUME IInv, Way, pc = "gates", NEW ph, NEW t, NEW O, SampleOf(ph, t, O)
  PROVE  Way'
<1>. TypeOK /\ TypeRun /\ TypeHold /\ TypeData
  BY DEF IInv, TypeOK
<1>1. /\ ph \in Phases /\ t \in Nat /\ O \in Readouts /\ Sampled(ph, t, O) /\ plan # <<>>
      /\ UNCHANGED <<test, ch, dcrOK, gates>>
  BY DEF SampleOf, Sampled, request
<1>2. SUFFICES ASSUME pc' = "gates", abort' = "", Windowed', plan' # <<>>
               PROVE  /\ Len(plan') <= 4 /\ \A k \in DOMAIN plan' : plan'[k] = WindowPlan[4 - Len(plan') + k]
                      /\ Len(plan') <= 2 => Rows(Gate)' # <<>>
  BY DEF Way
<1>3. abort = "" /\ (plan' = plan \/ \E u \in Nat : NextStep(u))
  BY <1>2, Zenon DEF SampleOf, Stopped
<1>4. Windowed
  BY <1>1, <1>2 DEF Windowed, Writing
<1>5. /\ Len(plan) <= 4 /\ \A k \in DOMAIN plan : plan[k] = WindowPlan[4 - Len(plan) + k]
      /\ Len(plan) <= 2 => Rows(Gate) # <<>>
  BY <1>1, <1>3, <1>4 DEF Way
<1>. DEFINE s == [ph |-> ph, ts |-> t, odd |-> O]
<1>6. s \in Samples /\ s.ph = ph /\ Row(s)
  BY <1>1 DEF Samples, Sampled
<1>. HIDE DEF s
<1>7. Rows(Gate)' = IF s.ph = Gate THEN Append(Rows(Gate), s) ELSE Rows(Gate)
  BY <1>6, RowAdded
<1>8. Rows(Gate) # <<>> \/ ph = Gate => Rows(Gate)' # <<>>
  <2>. DEFINE q == Rows(Gate)
  <2>1. q \in Seq(Samples)
    BY ReadTypes
  <2>. HIDE DEF q
  <2>2. Append(q, s) # <<>>
    <3>1. Len(Append(q, s)) = Len(q) + 1 /\ Len(q) \in Nat
      BY <1>6, <2>1, OneMore
    <3>. QED
      BY <3>1
  <2>. QED
    BY <1>6, <1>7, <2>2 DEF q
<1>9. CASE plan' = plan
  BY <1>5, <1>8, <1>9
<1>10. CASE \E u \in Nat : NextStep(u)
  <2>1. /\ plan' \in Seq(Steps) /\ Len(plan') = Len(plan) - 1
        /\ \A k \in DOMAIN plan' : plan'[k] = plan[k + 1] /\ k + 1 \in DOMAIN plan
    BY <1>1, <1>10, NextPlan
  <2>2. Len(plan) \in Nat /\ Len(plan') \in Nat /\ DOMAIN plan' = 1..Len(plan')
    BY <2>1 DEF TypeHold
  <2>3. Len(plan') <= 4
    BY <1>5, <2>1, <2>2
  <2>4. \A k \in DOMAIN plan' : plan'[k] = WindowPlan[4 - Len(plan') + k]
    <3>1. TAKE k \in DOMAIN plan'
    <3>2. 4 - Len(plan) + (k + 1) = 4 - Len(plan') + k
      BY <2>1, <2>2
    <3>. QED
      BY <1>5, <2>1, <3>2
  <2>5. ASSUME Len(plan') <= 2
        PROVE  Rows(Gate)' # <<>>
    <3>1. CASE Len(plan) <= 2
      BY <1>5, <1>8, <3>1
    <3>2. CASE Len(plan) = 3
      <4>1. 4 - Len(plan) + 1 = 2 /\ Head(plan) = plan[1] /\ 1 \in DOMAIN plan
        BY <1>1, <3>2, NextUp
      <4>2. Head(plan) = <<"sample", Gate>>
        BY <1>5, <4>1, WindowPlanIs
      <4>3. Head(plan)[2] = ph
        BY Zenon DEF SampleOf
      <4>4. ph = Gate
        <5>. HIDE DEF Gate
        <5>. QED
          BY <4>2, <4>3
      <4>. QED
        BY <1>8, <4>4
    <3>. QED
      BY <2>1, <2>2, <2>5, <3>1, <3>2
  <2>. QED
    BY <2>3, <2>4, <2>5
<1>. QED
  BY <1>3, <1>9, <1>10

\* The plan of a gate window through every step of a run.
LEMMA WayStep ==
  ASSUME IInv, Quiet, Way, [Next]_vars
  PROVE  Way'
<1>. TypeOK /\ TypeRun /\ TypeHold /\ TypeData /\ Before
  BY DEF IInv, TypeOK
<1>1. ASSUME pc' # "gates" \/ abort' # "" \/ plan' = <<>>
      PROVE  Way'
  BY <1>1 DEF Way
<1>2. ASSUME UNCHANGED <<test, ch, dcrOK, gates, pc, abort, plan, samples>>
      PROVE  Way'
  <2>1. (Windowed' <=> Windowed) /\ Rows(Gate)' = Rows(Gate)
    BY <1>2 DEF Windowed, Writing, Rows
  <2>. QED
    BY <1>2, <2>1, Zenon DEF Way
<1>3. CASE \E bad \in {{}} \cup {{g} : g \in PreGates}, d, typed \in BOOLEAN : Confirm(bad, d, typed)
  <2>1. pc = "confirm" /\ plan' = plan
    BY <1>3 DEF Confirm
  <2>. QED
    BY <1>1, <2>1 DEF Quiet
<1>4. CASE StartGates
  <2>1. plan' = GatePlan /\ UNCHANGED <<test, ch, dcrOK, gates>>
    BY <1>4 DEF StartGates, request
  <2>2. ASSUME Windowed'
        PROVE  plan' = WindowPlan
    <3>1. Windowed
      BY <2>1, <2>2 DEF Windowed, Writing
    <3>. QED
      BY <2>1, <3>1, WindowPlanIs
  <2>3. ASSUME plan' = WindowPlan
        PROVE  /\ Len(plan') = 4
               /\ \A k \in DOMAIN plan' : plan'[k] = WindowPlan[4 - Len(plan') + k]
    <3>1. Len(plan') = 4 /\ DOMAIN plan' = 1..4
      BY <2>3, WindowPlanIs
    <3>2. \A k \in 1..4 : 4 - Len(plan') + k = k
      BY <3>1
    <3>. QED
      BY <2>3, <3>1, <3>2
  <2>4. 4 <= 4 /\ ~(4 <= 2)
    OBVIOUS
  <2>. QED
    BY <2>2, <2>3, <2>4, Zenon DEF Way
<1>5. CASE \E g6 \in {"PASS", "PARTIAL", "FAIL"} : Decide(g6)
  BY <1>5, <1>1 DEF Decide
<1>6. CASE \E O \in SomeOdd : TakeSample(O)
  <2>1. PICK ph, t, O : SampleOf(ph, t, O)
    BY <1>6, SamplesOf
  <2>2. pc' = pc
    BY <2>1 DEF SampleOf, Sampled
  <2>3. CASE pc = "gates"
    BY <2>1, <2>3, WaySample
  <2>. QED
    BY <1>1, <2>2, <2>3
<1>7. CASE \E O \in SomeOdd, slow \in 0..MaxOdd - odd : HoldSample(O, slow)
  <2>1. PICK ph, t, O : SampleOf(ph, t, O)
    BY <1>7, SamplesOf
  <2>2. pc' = pc
    BY <2>1 DEF SampleOf, Sampled
  <2>3. CASE pc = "gates"
    BY <2>1, <2>3, WaySample
  <2>. QED
    BY <1>1, <2>2, <2>3
<1>8. CASE HoldCancelled
  <2>1. abort' # ""
    BY <1>8 DEF HoldCancelled, Stopped
  <2>. QED
    BY <1>1, <2>1
<1>9. CASE \E out \in {"sent", "failed", "no state file"} : Command(out)
  <2>1. pc = "test" /\ pc' = pc
    BY <1>9, Zenon DEF Command
  <2>. QED
    BY <1>1, <2>1
<1>10. CASE Mark
  <2>1. pc \in {"gates", "test"} /\ pc' = pc /\ plan # <<>> /\ Head(plan)[1] = "mark"
    BY <1>10 DEF Mark, Does
  <2>2. pc # "gates"
    BY <2>1, GateOps
  <2>. QED
    BY <1>1, <2>1, <2>2
<1>11. CASE ValueA
  <2>1. pc \in {"gates", "test"} /\ pc' = pc /\ plan # <<>> /\ Does("value A")
    BY <1>11 DEF ValueA, Does
  <2>2. pc # "gates"
    BY <2>1, GateOps DEF Does
  <2>. QED
    BY <1>1, <2>1, <2>2
<1>12. CASE TestEnds
  BY <1>12, <1>1 DEF TestEnds
<1>13. CASE \E fails \in SUBSET ToClose : \E differs \in SUBSET (ToClose \ fails) : Restore(fails, differs)
  <2>1. pc \in {"close", "panic"} /\ pc' = pc
    BY <1>13, Zenon DEF Restore
  <2>. QED
    BY <1>1, <2>1
<1>14. CASE Closed
  BY <1>14, <1>1 DEF Closed
<1>15. CASE WriteMeta
  BY <1>15, <1>1 DEF WriteMeta
<1>16. CASE WriteVerdict
  BY <1>16, <1>1 DEF WriteVerdict
<1>17. CASE Finish
  BY <1>17, <1>1 DEF Finish
<1>18. CASE Aftermath
  BY <1>18, <1>1 DEF Aftermath
<1>19. CASE Cancel
  BY <1>19, <1>2 DEF Cancel, request
<1>20. CASE \E how \in {"killed", "panic"} : Dies(how)
  BY <1>20, <1>1 DEF Dies
<1>21. CASE UNCHANGED vars
  BY <1>21, <1>2 DEF vars, watch, request
<1>. QED
  BY <1>3, <1>4, <1>5, <1>6, <1>7, <1>8, <1>9, <1>10, <1>11, <1>12, <1>13, <1>14, <1>15,
    <1>16, <1>17, <1>18, <1>19, <1>20, <1>21 DEF Next

\* The gates of the window are decided with its samples at hand.
LEMMA WindowSampled ==
  ASSUME IInv, Way, Windowed, NEW g6, Decide(g6)
  PROVE  abort = "" => Rows(Gate) # <<>>
<1>. TypeHold
  BY DEF IInv, TypeOK
<1>1. pc = "gates" /\ plan # <<>> /\ Head(plan)[1] = "decide"
  BY DecidedBefore
<1>2. Head(plan) = plan[1] /\ 1 \in DOMAIN plan /\ Len(plan) \in Nat
  BY <1>1, NextUp DEF TypeHold
<1>. DEFINE Ready == /\ Len(plan) <= 4 /\ \A k \in DOMAIN plan : plan[k] = WindowPlan[4 - Len(plan) + k]
                     /\ Len(plan) <= 2 => Rows(Gate) # <<>>
<1>3. abort = "" => Ready
  BY <1>1, Zenon DEF Way
<1>4. ASSUME NEW l \in Nat, l = Len(plan), Ready
      PROVE  Rows(Gate) # <<>>
  <2>1. /\ l <= 4 /\ plan[1] = WindowPlan[4 - l + 1]
        /\ l <= 2 => Rows(Gate) # <<>>
    BY <1>2, <1>4
  <2>. HIDE DEF Ready
  <2>2. l <= 2 \/ 4 - l + 1 = 1 \/ 4 - l + 1 = 2
    BY <1>4, <2>1
  <2>3. WindowPlan[1][1] = "sample" /\ WindowPlan[2][1] = "sample"
    BY WindowPlanIs
  <2>4. WindowPlan[4 - l + 1][1] = "decide"
    BY <1>1, <1>2, <2>1
  <2>. QED
    BY <2>1, <2>2, <2>3, <2>4
<1>. QED
  BY <1>2, <1>3, <1>4, Zenon

\* The gates are recorded from the samples that the report reads.
LEMMA GatesDecided ==
  ASSUME IInv, Quiet, Way, NEW g6 \in {"PASS", "PARTIAL", "FAIL"}, Decide(g6)
  PROVE  checkGates'
<1>. TypeOK /\ TypeRun
  BY DEF IInv, TypeOK
<1>. DEFINE w == IF Windowed THEN WindowGates ELSE gates
            q == Rows(Gate)
<1>1. pc = "gates" /\ gates["G3"] = "SKIPPED" /\ gates["G4"] = "SKIPPED"
  BY DecidedBefore DEF Quiet
<1>2. gates' = [w EXCEPT !["G6"] = g6] /\ samples' = samples
  BY Zenon DEF Decide
<1>3. w \in [Gates -> GateValues] /\ "G3" \in Gates /\ "G4" \in Gates
  BY GatesType DEF TypeRun, Gates, Blocking
<1>4. Rows(Gate)' = q
  BY <1>2 DEF Rows
<1>5. ~Windowed => w["G3"] = "SKIPPED" /\ w["G4"] = "SKIPPED"
  BY <1>1
<1>6. Windowed => /\ w["G3"] = IF q = <<>> THEN "FAIL?" ELSE G3(q[1])
                  /\ w["G4"] = IF abort # "" THEN "FAIL?" ELSE EvalG4(q)
  <2>1. gates \in [Gates -> GateValues]
    BY DEF TypeRun
  <2>. DEFINE a == IF q = <<>> THEN "FAIL?" ELSE G3(q[1])
              b == IF abort # "" THEN "FAIL?" ELSE EvalG4(q)
  <2>2. WindowGates = [gates EXCEPT !["G3"] = a, !["G4"] = b]
    BY DEF WindowGates
  <2>. HIDE DEF a, b, q
  <2>3. WindowGates["G3"] = a /\ WindowGates["G4"] = b
    BY <1>3, <2>1, <2>2
  <2>. QED
    BY <2>3 DEF a, b
<1>7. Windowed /\ abort = "" => q # <<>>
  BY WindowSampled
<1>. HIDE DEF w, q
<1>8. gates'["G3"] = w["G3"] /\ gates'["G4"] = w["G4"]
  BY <1>2, <1>3
<1>9. ASSUME gates'["G3"] \in {"PASS", "FAIL"}
      PROVE  q # <<>> /\ gates'["G3"] = G3(q[1])
  BY <1>5, <1>6, <1>8, <1>9
<1>10. ASSUME gates'["G4"] \in {"PASS", "FAIL"}
       PROVE  q # <<>> /\ gates'["G4"] = EvalG4(q)
  BY <1>5, <1>6, <1>7, <1>8, <1>10
<1>11. \A g \in {"G3", "G4"} :
         GateCompared(g)' =>
           /\ Rows(Gate)' # <<>>
           /\ gates'[g] = IF g = "G3" THEN G3(Rows(Gate)'[1]) ELSE EvalG4(Rows(Gate)')
  BY <1>4, <1>9, <1>10 DEF GateCompared
<1>. QED
  BY <1>11, Zenon DEF checkGates, InPhase, GateCompared

\* Nothing of a test changes the gates or the samples of their window.
LEMMA GatesTrueStep ==
  ASSUME IInv, Quiet, Way, GatesTrue, [Next]_vars
  PROVE  GatesTrue'
<1>. TypeOK /\ TypeRun /\ TypeHold /\ TypeData /\ Before
  BY DEF IInv, TypeOK
<1>1. ASSUME pc' \notin {"test"} \cup Over
      PROVE  GatesTrue'
  BY <1>1 DEF GatesTrue
<1>2. ASSUME pc \in {"test"} \cup Over, gates' = gates, Rows(Gate)' = Rows(Gate)
      PROVE  GatesTrue'
  <2>1. checkGates
    BY <1>2 DEF GatesTrue
  <2>2. checkGates'
    BY <1>2, <2>1 DEF checkGates, GateCompared, InPhase
  <2>. QED
    BY <2>2 DEF GatesTrue
<1>3. ASSUME pc \in {"test"} \cup Over, UNCHANGED <<gates, samples>>
      PROVE  GatesTrue'
  <2>1. Rows(Gate)' = Rows(Gate)
    BY <1>3 DEF Rows
  <2>. QED
    BY <1>2, <1>3, <2>1
<1>4. CASE \E bad \in {{}} \cup {{g} : g \in PreGates}, d, typed \in BOOLEAN : Confirm(bad, d, typed)
  BY <1>4, <1>1 DEF Confirm, Over
<1>5. CASE StartGates
  BY <1>5, <1>1 DEF StartGates, Over
<1>6. CASE \E g6 \in {"PASS", "PARTIAL", "FAIL"} : Decide(g6)
  <2>1. PICK g6 \in {"PASS", "PARTIAL", "FAIL"} : Decide(g6)
    BY <1>6
  <2>2. checkGates'
    BY <2>1, GatesDecided
  <2>. QED
    BY <2>2 DEF GatesTrue
<1>7. CASE \E O \in SomeOdd : TakeSample(O)
  <2>1. PICK ph, t, O : SampleOf(ph, t, O)
    BY <1>7, SamplesOf
  <2>2. /\ UNCHANGED <<pc, gates>> /\ pc \in {"gates", "test"} /\ Sampled(ph, t, O)
        /\ ph \in Phases /\ t \in Nat /\ O \in Readouts
    BY <2>1 DEF SampleOf, Sampled
  <2>3. CASE pc = "test"
    <3>. DEFINE s == [ph |-> ph, ts |-> t, odd |-> O]
    <3>1. ph # Gate
      BY <2>1, <2>3, SampledInTest
    <3>2. s \in Samples /\ s.ph = ph /\ Row(s)
      BY <2>2 DEF Samples, Sampled
    <3>. HIDE DEF s
    <3>3. Rows(Gate)' = Rows(Gate)
      BY <3>1, <3>2, RowAdded
    <3>. QED
      BY <1>2, <2>2, <2>3, <3>3
  <2>4. CASE pc # "test"
    BY <1>1, <2>2, <2>4 DEF Over
  <2>. QED
    BY <2>3, <2>4
<1>8. CASE \E O \in SomeOdd, slow \in 0..MaxOdd - odd : HoldSample(O, slow)
  <2>1. PICK ph, t, O : SampleOf(ph, t, O)
    BY <1>8, SamplesOf
  <2>2. /\ UNCHANGED <<pc, gates>> /\ pc \in {"gates", "test"} /\ Sampled(ph, t, O)
        /\ ph \in Phases /\ t \in Nat /\ O \in Readouts
    BY <2>1 DEF SampleOf, Sampled
  <2>3. CASE pc = "test"
    <3>. DEFINE s == [ph |-> ph, ts |-> t, odd |-> O]
    <3>1. ph # Gate
      BY <2>1, <2>3, SampledInTest
    <3>2. s \in Samples /\ s.ph = ph /\ Row(s)
      BY <2>2 DEF Samples, Sampled
    <3>. HIDE DEF s
    <3>3. Rows(Gate)' = Rows(Gate)
      BY <3>1, <3>2, RowAdded
    <3>. QED
      BY <1>2, <2>2, <2>3, <3>3
  <2>4. CASE pc # "test"
    BY <1>1, <2>2, <2>4 DEF Over
  <2>. QED
    BY <2>3, <2>4
<1>9. CASE HoldCancelled
  <2>1. pc \in {"gates", "test"} /\ UNCHANGED <<pc, gates, samples>>
    BY <1>9, Zenon DEF HoldCancelled, Does
  <2>. QED
    BY <1>1, <1>3, <2>1 DEF Over
<1>10. CASE \E out \in {"sent", "failed", "no state file"} : Command(out)
  <2>1. pc = "test" /\ UNCHANGED <<pc, gates, samples>>
    BY <1>10, Zenon DEF Command
  <2>. QED
    BY <1>3, <2>1
<1>11. CASE Mark
  <2>1. pc \in {"gates", "test"} /\ UNCHANGED <<pc, gates, samples>>
    BY <1>11, Zenon DEF Mark, Does
  <2>. QED
    BY <1>1, <1>3, <2>1 DEF Over
<1>12. CASE ValueA
  <2>1. pc \in {"gates", "test"} /\ UNCHANGED <<pc, gates, samples>>
    BY <1>12, Zenon DEF ValueA, Does
  <2>. QED
    BY <1>1, <1>3, <2>1 DEF Over
<1>13. CASE TestEnds
  BY <1>13, <1>3 DEF TestEnds, Over
<1>14. CASE \E fails \in SUBSET ToClose : \E differs \in SUBSET (ToClose \ fails) : Restore(fails, differs)
  <2>1. pc \in {"close", "panic"} /\ UNCHANGED <<pc, gates, samples>>
    BY <1>14, Zenon DEF Restore
  <2>. QED
    BY <1>1, <1>3, <2>1 DEF Over
<1>15. CASE Closed
  BY <1>15, <1>3 DEF Closed, Over
<1>16. CASE WriteMeta
  BY <1>16, <1>3 DEF WriteMeta, Over
<1>17. CASE WriteVerdict
  BY <1>17, <1>3 DEF WriteVerdict, Over
<1>18. CASE Finish
  BY <1>18, <1>1, <1>3 DEF Finish, Over
<1>19. CASE Aftermath
  BY <1>19, <1>1, <1>3 DEF Aftermath, Over
<1>20. CASE Cancel
  BY <1>20, <1>1, <1>3 DEF Cancel, Over
<1>21. CASE \E how \in {"killed", "panic"} : Dies(how)
  BY <1>21, <1>1 DEF Dies, Over
<1>22. CASE UNCHANGED vars
  BY <1>22, <1>1, <1>3 DEF vars
<1>. QED
  BY <1>4, <1>5, <1>6, <1>7, <1>8, <1>9, <1>10, <1>11, <1>12, <1>13, <1>14, <1>15, <1>16,
    <1>17, <1>18, <1>19, <1>20, <1>21, <1>22 DEF Next

\* A run that writes nothing has no test.
LEMMA IdleStep ==
  ASSUME IInv, Idle, [Next]_vars
  PROVE  Idle'
<1>. TypeOK /\ TypeRun /\ TypeHold /\ TypeData /\ Before
  BY DEF IInv, TypeOK
<1>1. ASSUME pc' # "test"
      PROVE  Idle'
  BY <1>1 DEF Idle
<1>2. ASSUME pc = "test", plan # <<>>, UNCHANGED <<test, ch, results>>
      PROVE  Idle'
  BY <1>2 DEF Idle, Writing
<1>3. ASSUME pc = "test", UNCHANGED <<test, ch, results, plan, touched>>
      PROVE  Idle'
  BY <1>3 DEF Idle, Writing
<1>4. CASE \E bad \in {{}} \cup {{g} : g \in PreGates}, d, typed \in BOOLEAN : Confirm(bad, d, typed)
  BY <1>4, <1>1 DEF Confirm
<1>5. CASE StartGates
  BY <1>5, <1>1 DEF StartGates
<1>6. CASE \E g6 \in {"PASS", "PARTIAL", "FAIL"} : Decide(g6)
  <2>1. PICK g6 \in {"PASS", "PARTIAL", "FAIL"} : Decide(g6)
    BY <1>6
  <2>2. /\ pc = "gates" /\ touched' = touched /\ Writing' = Writing
        /\ results' = IF ~Writing THEN NotApplicable ELSE Inconclusive
        /\ ~Writing => plan' = <<>>
    <3>1. UNCHANGED <<test, ch, touched>>
      BY <2>1 DEF Decide, request
    <3>2. results' = IF ~Writing THEN NotApplicable ELSE Inconclusive
      BY <2>1, Zenon DEF Decide
    <3>3. ~Writing => plan' = <<>>
      BY <2>1, Zenon DEF Decide
    <3>. QED
      BY <2>1, <3>1, <3>2, <3>3, DecidedBefore DEF Writing
  <2>3. touched = {}
    BY <2>2 DEF Before
  <2>. QED
    BY <2>2, <2>3 DEF Idle
<1>7. CASE \E O \in SomeOdd : TakeSample(O)
  <2>1. pc \in {"gates", "test"} /\ plan # <<>> /\ UNCHANGED <<pc, test, ch, results>>
    BY <1>7 DEF TakeSample, Does, Sampled, request
  <2>. QED
    BY <1>1, <1>2, <2>1
<1>8. CASE \E O \in SomeOdd, slow \in 0..MaxOdd - odd : HoldSample(O, slow)
  <2>1. pc \in {"gates", "test"} /\ plan # <<>> /\ UNCHANGED <<pc, test, ch, results>>
    BY <1>8 DEF HoldSample, Does, Sampled, request
  <2>. QED
    BY <1>1, <1>2, <2>1
<1>9. CASE HoldCancelled
  <2>1. pc \in {"gates", "test"} /\ plan # <<>> /\ UNCHANGED <<pc, test, ch, results>>
    BY <1>9 DEF HoldCancelled, Does, request, data
  <2>. QED
    BY <1>1, <1>2, <2>1
<1>10. CASE \E out \in {"sent", "failed", "no state file"} : Command(out)
  <2>1. pc = "test" /\ plan # <<>> /\ UNCHANGED <<pc, test, ch, results>>
    BY <1>10, Zenon DEF Command, request, data
  <2>. QED
    BY <1>2, <2>1
<1>11. CASE Mark
  <2>1. pc \in {"gates", "test"} /\ plan # <<>> /\ UNCHANGED <<pc, test, ch, results>>
    BY <1>11 DEF Mark, Does, request, data
  <2>. QED
    BY <1>1, <1>2, <2>1
<1>12. CASE ValueA
  <2>1. pc \in {"gates", "test"} /\ plan # <<>> /\ UNCHANGED <<pc, test, ch, results>>
    BY <1>12 DEF ValueA, Does, request, data
  <2>. QED
    BY <1>1, <1>2, <2>1
<1>13. CASE TestEnds
  BY <1>13, <1>1 DEF TestEnds
<1>14. CASE \E fails \in SUBSET ToClose : \E differs \in SUBSET (ToClose \ fails) : Restore(fails, differs)
  <2>1. pc \in {"close", "panic"} /\ pc' = pc
    BY <1>14, Zenon DEF Restore
  <2>. QED
    BY <1>1, <2>1
<1>15. CASE Closed
  BY <1>15, <1>1 DEF Closed
<1>16. CASE WriteMeta
  BY <1>16, <1>1 DEF WriteMeta
<1>17. CASE WriteVerdict
  BY <1>17, <1>1 DEF WriteVerdict
<1>18. CASE Finish
  BY <1>18, <1>1 DEF Finish
<1>19. CASE Aftermath
  BY <1>19, <1>1 DEF Aftermath
<1>20. CASE Cancel
  BY <1>20, <1>1, <1>3 DEF Cancel, request, data
<1>21. CASE \E how \in {"killed", "panic"} : Dies(how)
  BY <1>21, <1>1 DEF Dies
<1>22. CASE UNCHANGED vars
  BY <1>22, <1>1, <1>3 DEF vars, request, data
<1>. QED
  BY <1>4, <1>5, <1>6, <1>7, <1>8, <1>9, <1>10, <1>11, <1>12, <1>13, <1>14, <1>15, <1>16,
    <1>17, <1>18, <1>19, <1>20, <1>21, <1>22 DEF Next

-----------------------------------------------------------------------------
(* The steps of a test.                                                    *)

\* First elements of the texts that are neither marks nor, but for "write", writes.
Ordinary == {"manual", "write", "auto", "FAILED", "ABORT"} \cup Reports

\* The texts of events by their parts.
LEMMA TextNames ==
  /\ \A d : WriteOf(d)[1] = "write" /\ WriteOf(d)[3] = d
  /\ \A r, l : AutoOf(r, l)[1] \notin Ordinary /\ AutoOf(r, l)[2] = r /\ AutoOf(r, l)[3] = l
  /\ T1Complete[1] \notin Ordinary /\ T2Complete[1] \notin Ordinary
  /\ \A r, l : T2Complete # AutoOf(r, l)
  /\ \A text : Plain(text)[1] = text
<1>1. ASSUME NEW r, NEW l
      PROVE  AutoOf(r, l)[1] \notin Ordinary /\ AutoOf(r, l)[2] = r /\ AutoOf(r, l)[3] = l
  <2>1. AutoOf(r, l)[1] = "T2 auto" /\ AutoOf(r, l)[2] = r /\ AutoOf(r, l)[3] = l
    BY DEF AutoOf
  <2>2. "T2 auto" \notin Ordinary
    BY Zenon DEF Ordinary, Reports
  <2>. QED
    BY <2>1, <2>2, Zenon
<1>2. T1Complete[1] \notin Ordinary
  <2>1. T1Complete[1] = "T1 complete"
    BY DEF T1Complete, Plain
  <2>2. "T1 complete" \notin Ordinary
    BY Zenon DEF Ordinary, Reports
  <2>. QED
    BY <2>1, <2>2, Zenon
<1>3. T2Complete[1] = "T2 complete"
  BY DEF T2Complete, Plain
<1>4. T2Complete[1] \notin Ordinary
  <2>1. "T2 complete" \notin Ordinary
    BY Zenon DEF Ordinary, Reports
  <2>. QED
    BY <1>3, <2>1, Zenon
<1>5. ASSUME NEW r, NEW l
      PROVE  T2Complete # AutoOf(r, l)
  <2>1. AutoOf(r, l)[1] = "T2 auto"
    BY DEF AutoOf
  <2>2. "T2 auto" # "T2 complete"
    BY Zenon
  <2>. QED
    BY <1>3, <2>1, <2>2, Zenon
<1>6. \A d : WriteOf(d)[1] = "write" /\ WriteOf(d)[3] = d
  BY DEF WriteOf
<1>7. \A text : Plain(text)[1] = text
  BY DEF Plain
<1>. QED
  BY <1>1, <1>2, <1>4, <1>5, <1>6, <1>7, Zenon

\* No other line is taken for a mark, for a write or for the end of T1.
LEMMA OtherTexts ==
  /\ \A x : x[1] \in Ordinary => x \notin Marks /\ x # T1Complete
  /\ \A x : x[1] \in Ordinary \ {"write"} => \A d : x # WriteOf(d)
  /\ \A d : T1Complete # WriteOf(d)
  /\ T2Complete \notin Marks
  /\ \A d, e : WriteOf(d) = WriteOf(e) => d = e
  /\ \A i, j \in DOMAIN SubRuns :
       AutoOf(SubRuns[i][1], SubRuns[i][2]) = AutoOf(SubRuns[j][1], SubRuns[j][2]) => i = j
<1>0. \A r, l : AutoOf(r, l)[1] \notin Ordinary /\ AutoOf(r, l)[2] = r /\ AutoOf(r, l)[3] = l
  BY TextNames, Zenon
<1>1. ASSUME NEW x \in Marks
      PROVE  x[1] \notin Ordinary
  <2>1. PICK i \in DOMAIN SubRuns : x = AutoOf(SubRuns[i][1], SubRuns[i][2])
    BY Zenon DEF Marks
  <2>. QED
    BY <1>0, <2>1, Zenon
<1>2. "write" \in Ordinary
  BY DEF Ordinary
<1>3. T2Complete \notin Marks
  <2>1. \A r, l : T2Complete # AutoOf(r, l)
    BY TextNames, Zenon
  <2>. QED
    BY <2>1, Zenon DEF Marks
<1>4. ASSUME NEW i \in DOMAIN SubRuns, NEW j \in DOMAIN SubRuns,
             AutoOf(SubRuns[i][1], SubRuns[i][2]) = AutoOf(SubRuns[j][1], SubRuns[j][2])
      PROVE  i = j
  <2>. DEFINE a == SubRuns[i]
              b == SubRuns[j]
  <2>0. AutoOf(a[1], a[2]) = AutoOf(b[1], b[2])
    BY <1>4
  <2>1. a[1] = b[1] /\ a[2] = b[2]
    <3>1. a[1] = AutoOf(a[1], a[2])[2] /\ b[1] = AutoOf(b[1], b[2])[2]
      BY <1>0, Zenon
    <3>2. a[2] = AutoOf(a[1], a[2])[3] /\ b[2] = AutoOf(b[1], b[2])[3]
      BY <1>0, Zenon
    <3>. QED
      BY <2>0, <3>1, <3>2, Zenon
  <2>2. a \in (1..Repeat) \X {"H", "M"} /\ b \in (1..Repeat) \X {"H", "M"}
    BY SubRunsAre, Zenon
  <2>. HIDE DEF a, b
  <2>3. a = b
    BY <2>1, <2>2
  <2>. QED
    BY <2>3, SubRunsAre DEF a, b
<1>5. T1Complete[1] \notin Ordinary /\ (\A d : WriteOf(d)[1] = "write" /\ WriteOf(d)[3] = d)
  BY TextNames, Zenon
<1>6. \A x : x[1] \in Ordinary => x \notin Marks /\ x # T1Complete
  BY <1>1, <1>5, Zenon
<1>7. \A x : x[1] \in Ordinary \ {"write"} => \A d : x # WriteOf(d)
  BY <1>5
<1>8. \A d : T1Complete # WriteOf(d)
  BY <1>2, <1>5, Zenon
<1>9. ASSUME NEW d, NEW e, WriteOf(d) = WriteOf(e)
      PROVE  d = e
  <2>1. d = WriteOf(d)[3] /\ e = WriteOf(e)[3]
    BY <1>5, Zenon
  <2>. QED
    BY <1>9, <2>1, Zenon
<1>. QED
  BY <1>3, <1>4, <1>6, <1>7, <1>8, <1>9, Zenon

\* What a step of a test does: nothing, a sample or the cut of a hold, a command
\* that is sent or fails, a mark, the value A.
LogEnds(ph) == subs' = IF ph[1] = "log" THEN Append(subs, <<ph[2], ph[3]>>) ELSE subs
Breaks == abort' # "" /\ plan' = <<>>
Aborts == Log(<<Plain("ABORT")>>)
Quietly == \E texts \in Seq(Texts) : Log(texts) /\ \A k \in DOMAIN texts : texts[k][1] \in Ordinary \ {"write"}

Rests == UNCHANGED <<plan, slot, t0, abort, touched, coll, subs, aKnown, results, samples, events>>

Takes(ph, O) ==
  /\ Full[At][1] = "hold" /\ Full[At][2] = ph /\ ph \in Phases /\ O \in Readouts
  /\ Sampled(ph, t0 + slot, O) /\ UNCHANGED <<touched, aKnown>>

SampleGoes(ph, O) ==
  /\ Takes(ph, O) /\ UNCHANGED <<abort, events>>
  /\ \/ UNCHANGED <<plan, t0, subs>>
     \/ NextStep(t0 + slot) /\ LogEnds(ph)

SampleBreaks(ph, O) == Takes(ph, O) /\ Aborts /\ Breaks /\ LogEnds(ph)

HoldBreaks(ph) ==
  /\ Full[At][1] = "hold" /\ Full[At][2] = ph
  /\ Aborts /\ Breaks /\ LogEnds(ph) /\ UNCHANGED <<touched, aKnown, coll, samples>>

Sends(x) ==
  /\ Full[At][1] \in {"manual", "write", "auto"}
  /\ x = IF Full[At][1] = "write" THEN Full[At][2] ELSE Plain(Full[At][1])
  /\ Log(<<x>>) /\ NextStep(now) /\ touched' = {ch}
  /\ UNCHANGED <<abort, aKnown, coll, subs, samples>>

Fails ==
  /\ Full[At][1] \in {"manual", "write", "auto"}
  /\ Quietly /\ Breaks /\ touched' \in {touched, {ch}}
  /\ UNCHANGED <<aKnown, coll, subs, samples>>

Sets(x) ==
  /\ Full[At][1] = "mark" /\ x = Full[At][2]
  /\ Log(<<x>>) /\ NextStep(now)
  /\ UNCHANGED <<abort, touched, aKnown, coll, subs, samples>>

Finds ==
  /\ DeterminesA(At) /\ HasValue /\ aKnown' = TRUE /\ NextStep(now)
  /\ UNCHANGED <<abort, touched, coll, subs, samples, events>>

FindsNone ==
  /\ DeterminesA(At) /\ ~HasValue /\ plan' = <<>>
  /\ UNCHANGED <<aKnown, abort, touched, coll, subs, samples, events>>

Works ==
  \/ \E ph, O : SampleGoes(ph, O) \/ SampleBreaks(ph, O)
  \/ \E ph : HoldBreaks(ph)
  \/ \E x : Sends(x) \/ Sets(x)
  \/ Fails \/ Finds \/ FindsNone

\* A write has its text and nothing else.
LEMMA WriteSteps ==
  ASSUME NEW s \in Steps
  PROVE  s[1] = "write" => Len(s) = 2
<1>1. CASE s \in {<<"manual">>, <<"auto">>, <<"value A">>, <<"decide">>}
  <2>1. /\ <<"manual">>[1] = "manual" /\ <<"auto">>[1] = "auto"
        /\ <<"value A">>[1] = "value A" /\ <<"decide">>[1] = "decide"
    OBVIOUS
  <2>2. s[1] \in {"manual", "auto", "value A", "decide"}
    BY <1>1, <2>1, Zenon
  <2>3. "write" \notin {"manual", "auto", "value A", "decide"}
    BY Zenon
  <2>. QED
    BY <2>2, <2>3, Zenon
<1>2. CASE s \in {"sample"} \X Phases
  BY <1>2
<1>3. CASE s \in {"hold"} \X Phases \X (Nat \ {0})
  BY <1>3
<1>4. CASE s \in {"write", "mark"} \X Texts
  BY <1>4
<1>. QED
  BY <1>1, <1>2, <1>3, <1>4 DEF Steps

\* A command, sent or not.
LEMMA CommandKinds ==
  ASSUME IInv, NEW out, Command(out), Head(plan) = Full[At], Full[At] \in Steps
  PROVE  Fails \/ \E x : Sends(x)
<1>. PICK s : s = Full[At]
  OBVIOUS
<1>1. s[1] \in {"manual", "write", "auto"} /\ Head(plan) = s /\ s \in Steps
  BY Zenon DEF Command
<1>2. pc = "test" /\ UNCHANGED <<aKnown, coll, subs, samples>>
  BY Zenon DEF Command, data
<1>3. \/ /\ touched' = {ch} /\ NextStep(now) /\ abort' = abort
         /\ Log(<<IF Len(s) > 1 THEN s[2] ELSE Plain(s[1])>>)
      \/ touched' = {ch} /\ Stopped("command") /\ Log(<<Plain("FAILED"), Plain("ABORT")>>)
      \/ touched' = touched /\ Stopped("command") /\ Log(<<Plain("ABORT")>>)
  BY <1>1, Zenon DEF Command
<1>4. /\ Plain("ABORT") \in Texts /\ Plain("FAILED") \in Texts
      /\ Plain("ABORT")[1] = "ABORT" /\ Plain("FAILED")[1] = "FAILED"
      /\ {"ABORT", "FAILED"} \subseteq Ordinary \ {"write"}
  <2>1. "ABORT" \in EventNames /\ "FAILED" \in EventNames
    BY DEF EventNames, CommandTexts
  <2>2. {"ABORT", "FAILED"} \subseteq Ordinary \ {"write"}
    BY DEF Ordinary
  <2>3. Plain("ABORT")[1] = "ABORT" /\ Plain("FAILED")[1] = "FAILED"
    BY TextNames, Zenon
  <2>. QED
    BY <2>1, <2>2, <2>3, NamesAreTyped, Zenon
<1>5. ASSUME touched' \in {touched, {ch}}, Stopped("command"),
             NEW texts \in Seq(Texts), Log(texts), \A k \in DOMAIN texts : texts[k][1] \in Ordinary \ {"write"}
      PROVE  Fails
  <2>1. plan' = <<>>
    BY <1>2, <1>5 DEF Stopped
  <2>2. abort' # ""
    BY <1>5 DEF Stopped
  <2>. QED
    BY <1>1, <1>2, <1>5, <2>1, <2>2, Zenon DEF Fails, Breaks, Quietly
<1>6. ASSUME NEW a \in Texts, NEW b \in Texts, a[1] \in Ordinary \ {"write"}, b[1] \in Ordinary \ {"write"}
      PROVE  /\ <<a>> \in Seq(Texts) /\ \A k \in DOMAIN <<a>> : <<a>>[k][1] \in Ordinary \ {"write"}
             /\ <<a, b>> \in Seq(Texts) /\ \A k \in DOMAIN <<a, b>> : <<a, b>>[k][1] \in Ordinary \ {"write"}
  BY <1>6
<1>7. CASE touched' = {ch} /\ NextStep(now) /\ abort' = abort
           /\ Log(<<IF Len(s) > 1 THEN s[2] ELSE Plain(s[1])>>)
  <2>1. (Len(s) > 1) <=> s[1] = "write"
    <3>1. s[1] \in {"manual", "auto"} => Len(s) = 1
      BY <1>1, StepTypes
    <3>2. s[1] = "write" => Len(s) = 2
      BY <1>1, WriteSteps
    <3>3. s[1] \in {"manual", "auto"} \/ s[1] = "write"
      BY <1>1
    <3>4. CASE s[1] \in {"manual", "auto"}
      <4>1. Len(s) = 1 /\ s[1] # "write" /\ ~(1 > 1)
        BY <3>1, <3>4
      <4>. QED
        BY <4>1, Zenon
    <3>5. CASE s[1] = "write"
      <4>1. Len(s) = 2 /\ 2 > 1
        BY <3>2, <3>5
      <4>. QED
        BY <3>5, <4>1, Zenon
    <3>. QED
      BY <3>3, <3>4, <3>5, Zenon
  <2>. DEFINE x == IF s[1] = "write" THEN s[2] ELSE Plain(s[1])
  <2>2. (IF Len(s) > 1 THEN s[2] ELSE Plain(s[1])) = x
    BY <2>1
  <2>3. Log(<<x>>)
    BY <1>7, <2>2, Zenon
  <2>4. /\ Full[At][1] \in {"manual", "write", "auto"}
        /\ x = (IF Full[At][1] = "write" THEN Full[At][2] ELSE Plain(Full[At][1]))
    BY <1>1
  <2>. HIDE DEF x
  <2>. QED
    <3>1. UNCHANGED <<abort, aKnown, coll, subs, samples>>
      BY <1>2, <1>7
    <3>2. NextStep(now) /\ touched' = {ch}
      BY <1>7
    <3>3. Sends(x)
      BY <2>3, <2>4, <3>1, <3>2, Zenon DEF Sends
    <3>. QED
      BY <3>3, Zenon
<1>8. CASE touched' = {ch} /\ Stopped("command") /\ Log(<<Plain("FAILED"), Plain("ABORT")>>)
  <2>1. /\ <<Plain("FAILED"), Plain("ABORT")>> \in Seq(Texts)
        /\ \A k \in DOMAIN <<Plain("FAILED"), Plain("ABORT")>> :
             <<Plain("FAILED"), Plain("ABORT")>>[k][1] \in Ordinary \ {"write"}
    BY <1>4, <1>6
  <2>. QED
    BY <1>5, <1>8, <2>1, Zenon
<1>9. CASE touched' = touched /\ Stopped("command") /\ Log(<<Plain("ABORT")>>)
  <2>1. /\ <<Plain("ABORT")>> \in Seq(Texts)
        /\ \A k \in DOMAIN <<Plain("ABORT")>> : <<Plain("ABORT")>>[k][1] \in Ordinary \ {"write"}
    BY <1>4, <1>6
  <2>. QED
    BY <1>5, <1>9, <2>1, Zenon
<1>. QED
  BY <1>3, <1>7, <1>8, <1>9, Zenon

\* A sample of a test: the hold goes on, it ends, or the run does.
LEMMA SampleKinds ==
  ASSUME IInv, pc = "test", NEW O \in SomeOdd, NEW slow, HoldSample(O, slow),
         Head(plan) = Full[At], Full[At] \in Steps
  PROVE  \E ph : SampleGoes(ph, O) \/ SampleBreaks(ph, O)
<1>. TypeRun /\ TypeHold /\ TypeData
  BY DEF IInv, TypeOK
<1>. PICK s, ph, n, why, next :
       /\ s = Full[At] /\ ph = s[2] /\ n = s[3] /\ why = Finding(O, CountsAfter(O))
       /\ next = SlotAfter(slot, n, slow)
  OBVIOUS
<1>1. Head(plan) = s /\ s \in Steps /\ s[1] = "hold"
  BY DEF HoldSample, Does
<1>2. ph \in Phases /\ O \in Readouts
  BY <1>1, StepTypes, OddType
<1>3. /\ Sampled(ph, t0 + slot, O)
      /\ IF why # "" THEN Ends(why, O)
         ELSE /\ UNCHANGED <<abort, hot, events>>
              /\ IF next > n THEN NextStep(t0 + slot) ELSE slot' = next /\ UNCHANGED <<plan, t0>>
      /\ Judge(ph, why # "" \/ next > n, why = "")
  BY <1>1 DEF HoldSample
<1>4. Takes(ph, O)
  BY <1>1, <1>2, <1>3 DEF Takes, Sampled
<1>5. why # "" \/ next > n => LogEnds(ph)
  BY <1>3 DEF Judge, Evaluated, LogEnds
<1>6. why = "" /\ ~(next > n) => subs' = subs
  BY <1>3 DEF Judge, Evaluated
<1>7. CASE why # ""
  <2>1. Stopped(why) /\ Aborts
    BY <1>3, <1>7 DEF Ends, Aborts
  <2>2. Breaks
    BY <1>7, <2>1 DEF Stopped, Breaks
  <2>. QED
    BY <1>4, <1>5, <1>7, <2>1, <2>2, Zenon DEF SampleBreaks
<1>8. CASE why = ""
  BY <1>3, <1>4, <1>5, <1>6, <1>8, Zenon DEF SampleGoes
<1>. QED
  BY <1>7, <1>8

\* Every step of a test is of one of these kinds.
LEMMA InTest ==
  ASSUME IInv, [Next]_vars, pc = "test", pc' = "test"
  PROVE  /\ UNCHANGED <<test, ch>>
         /\ Rests \/ (plan # <<>> /\ OnTrack /\ Works)
<1>. TypeOK /\ TypeRun /\ TypeHold /\ TypeData /\ Before /\ Started /\ Progress
  BY DEF IInv, TypeOK
<1>1. ASSUME plan # <<>>
      PROVE  OnTrack /\ Head(plan) = Full[At] /\ Full[At] \in Steps /\ TestSteps(plan) /\ Head(plan) = plan[1] /\ 1 \in DOMAIN plan
  <2>1. OnTrack /\ TestSteps(plan)
    BY <1>1 DEF OnTrack, Started
  <2>. QED
    BY <1>1, <2>1, Present, NextUp
<1>2. CASE \E bad \in {{}} \cup {{g} : g \in PreGates}, d, typed \in BOOLEAN : Confirm(bad, d, typed)
  BY <1>2 DEF Confirm
<1>3. CASE StartGates
  BY <1>3 DEF StartGates
<1>4. CASE \E g6 \in {"PASS", "PARTIAL", "FAIL"} : Decide(g6)
  <2>1. pc = "gates"
    BY <1>4, DecidedBefore
  <2>. QED
    BY <2>1
<1>5. CASE \E O \in SomeOdd : TakeSample(O)
  <2>1. plan # <<>> /\ Head(plan)[1] = "sample"
    BY <1>5 DEF TakeSample, Does
  <2>. QED
    BY <1>1, <2>1 DEF TestSteps
<1>6. CASE \E O \in SomeOdd, slow \in 0..MaxOdd - odd : HoldSample(O, slow)
  <2>1. PICK O \in SomeOdd, slow \in 0..MaxOdd - odd : HoldSample(O, slow)
    BY <1>6
  <2>2. plan # <<>> /\ UNCHANGED <<test, ch>>
    BY <2>1 DEF HoldSample, Does, Sampled, request
  <2>3. \E ph : SampleGoes(ph, O) \/ SampleBreaks(ph, O)
    BY <1>1, <2>1, <2>2, SampleKinds
  <2>. QED
    BY <1>1, <2>2, <2>3, Zenon DEF Works
<1>7. CASE HoldCancelled
  <2>1. /\ plan # <<>> /\ Head(plan)[1] = "hold" /\ Stopped("cancelled") /\ Aborts
        /\ Judge(Head(plan)[2], TRUE, FALSE)
        /\ UNCHANGED <<test, ch, touched, aKnown, coll, samples>>
    BY <1>7 DEF HoldCancelled, Does, request, Aborts
  <2>2. Breaks
    BY <2>1 DEF Stopped, Breaks
  <2>3. LogEnds(Head(plan)[2])
    BY <2>1 DEF Judge, Evaluated, LogEnds
  <2>4. HoldBreaks(Head(plan)[2])
    BY <1>1, <2>1, <2>2, <2>3, Zenon DEF HoldBreaks
  <2>. QED
    BY <1>1, <2>1, <2>4, Zenon DEF Works
<1>8. CASE \E out \in {"sent", "failed", "no state file"} : Command(out)
  <2>1. PICK out \in {"sent", "failed", "no state file"} : Command(out)
    BY <1>8
  <2>2. plan # <<>> /\ UNCHANGED <<test, ch>>
    BY <2>1, Zenon DEF Command, request
  <2>3. Fails \/ \E x : Sends(x)
    BY <1>1, <2>1, <2>2, CommandKinds, Zenon
  <2>. QED
    BY <1>1, <2>2, <2>3, Zenon DEF Works
<1>9. CASE Mark
  <2>1. /\ plan # <<>> /\ Head(plan)[1] = "mark" /\ Log(<<Head(plan)[2]>>) /\ NextStep(now)
        /\ UNCHANGED <<test, ch, abort, touched, aKnown, coll, subs, samples>>
    BY <1>9 DEF Mark, Does, request, watch, data
  <2>2. Sets(Head(plan)[2])
    BY <1>1, <2>1, Zenon DEF Sets
  <2>. QED
    BY <1>1, <2>1, <2>2, Zenon DEF Works
<1>10. CASE ValueA
  <2>1. plan # <<>> /\ UNCHANGED <<test, ch, abort, touched, coll, subs, samples, events>>
    BY <1>10 DEF ValueA, Does, request, watch
  <2>2. DeterminesA(At)
    BY <1>1, <1>10, <2>1, Zenon DEF ValueA, Does, DeterminesA
  <2>3. IF HasValue THEN aKnown' = TRUE /\ NextStep(now) ELSE plan' = <<>> /\ UNCHANGED aKnown
    BY <1>10, Zenon DEF ValueA, HasValue
  <2>4. Finds \/ FindsNone
    BY <2>1, <2>2, <2>3, Zenon DEF Finds, FindsNone
  <2>. QED
    BY <1>1, <2>1, <2>4, Zenon DEF Works
<1>11. CASE TestEnds
  BY <1>11 DEF TestEnds
<1>12. CASE \E fails \in SUBSET ToClose : \E differs \in SUBSET (ToClose \ fails) : Restore(fails, differs)
  BY <1>12 DEF Restore
<1>13. CASE Closed
  BY <1>13 DEF Closed
<1>14. CASE WriteMeta
  BY <1>14 DEF WriteMeta
<1>15. CASE WriteVerdict
  BY <1>15 DEF WriteVerdict
<1>16. CASE Finish
  BY <1>16 DEF Finish
<1>17. CASE Aftermath
  BY <1>17 DEF Aftermath
<1>18. CASE Cancel
  BY <1>18 DEF Cancel, Rests, request, hold, data
<1>19. CASE \E how \in {"killed", "panic"} : Dies(how)
  BY <1>19 DEF Dies
<1>20. CASE UNCHANGED vars
  BY <1>20 DEF vars, Rests, request, hold, watch, data
<1>. QED
  BY <1>2, <1>3, <1>4, <1>5, <1>6, <1>7, <1>8, <1>9, <1>10, <1>11, <1>12, <1>13, <1>14, <1>15,
    <1>16, <1>17, <1>18, <1>19, <1>20 DEF Next

-----------------------------------------------------------------------------
(* Where the steps of a test are.                                          *)

\* The operations of a test that are sent to the EC.
Orders == {"manual", "write", "auto"}

\* T1: the rest phase, then a write and a hold for every duty, then its end.
LEMMA T1Positions ==
  ASSUME test = "map"
  PROVE  /\ Len(Full) = 3 + 2 * Len(T1Steps)
         /\ \A k \in 1..Len(Full) :
              /\ Full[k][1] = "hold" =>
                   \/ k = 1 /\ Full[k][2] = Rest
                   \/ \E i \in DOMAIN T1Steps : k = 2 + 2 * i /\ Full[k][2] = StepPhase(i)
              /\ Full[k][1] = "write" =>
                   \E i \in DOMAIN T1Steps : k = 1 + 2 * i /\ Full[k][2] = WriteOf(T1Steps[i])
              /\ Full[k][1] \in {"manual", "auto"} => k = 2
              /\ Full[k][1] = "mark" => k = Len(Full) /\ Full[k][2] = T1Complete
         /\ \A i \in DOMAIN T1Steps : 2 + 2 * i \in 1..Len(Full) /\ Full[2 + 2 * i][1] = "hold"
                                      /\ Full[2 + 2 * i][2] = StepPhase(i)
<1>. DEFINE L == 3 + 2 * Len(T1Steps)
<1>1. Full = T1Plan
  BY DEF Full
<1>2. Len(Full) = L
  BY <1>1, T1PlanIs
<1>3. Full[1][1] = "hold" /\ Full[1][2] = Rest /\ Full[2][1] = "manual"
      /\ Full[L][1] = "mark" /\ Full[L][2] = T1Complete
  BY <1>1, T1PlanIs
<1>4. \A i \in DOMAIN T1Steps :
        /\ Full[1 + 2 * i][1] = "write" /\ Full[1 + 2 * i][2] = WriteOf(T1Steps[i])
        /\ Full[2 + 2 * i][1] = "hold" /\ Full[2 + 2 * i][2] = StepPhase(i)
  BY <1>1, T1PlanIs DEF StepPhase
<1>5. ASSUME NEW k \in 1..L
      PROVE  \/ k = 1 \/ k = 2 \/ k = L
             \/ \E i \in DOMAIN T1Steps : k = 1 + 2 * i
             \/ \E i \in DOMAIN T1Steps : k = 2 + 2 * i
  BY <1>1, <1>2, T1PlanIs
<1>6. \A i \in DOMAIN T1Steps : 2 + 2 * i \in 1..L
  <2>1. TAKE i \in DOMAIN T1Steps
  <2>2. i \in Nat /\ Len(T1Steps) \in Nat /\ i <= Len(T1Steps)
    BY Numbers
  <2>. QED
    BY <2>2
<1>. HIDE DEF L
<1>7. ASSUME NEW k \in 1..L
      PROVE  /\ Full[k][1] = "hold" =>
                   \/ k = 1 /\ Full[k][2] = Rest
                   \/ \E i \in DOMAIN T1Steps : k = 2 + 2 * i /\ Full[k][2] = StepPhase(i)
             /\ Full[k][1] = "write" =>
                   \E i \in DOMAIN T1Steps : k = 1 + 2 * i /\ Full[k][2] = WriteOf(T1Steps[i])
             /\ Full[k][1] \in {"manual", "auto"} => k = 2
             /\ Full[k][1] = "mark" => k = L /\ Full[k][2] = T1Complete
  <2>1. CASE k = 1
    BY <1>3, <2>1
  <2>2. CASE k = 2
    BY <1>3, <2>2
  <2>3. CASE k = L
    BY <1>3, <2>3
  <2>4. CASE \E i \in DOMAIN T1Steps : k = 1 + 2 * i
    BY <1>4, <2>4
  <2>5. CASE \E i \in DOMAIN T1Steps : k = 2 + 2 * i
    BY <1>4, <2>5
  <2>. QED
    BY <1>5, <2>1, <2>2, <2>3, <2>4, <2>5
<1>. QED
  BY <1>2, <1>4, <1>6, <1>7 DEF L

\* T2: the part of a sub-run that has its place in the plan.
LEMMA SubPositions ==
  ASSUME test # "map", NEW i \in DOMAIN SubRuns
  PROVE  /\ i \in Nat \ {0} /\ 6 * i + 3 <= Len(Full)
         /\ Full[6 * i - 2][1] = "manual"
         /\ Full[6 * i - 1][1] = "write" /\ Full[6 * i - 1][2] = WriteOf(SubRuns[i][2])
         /\ Full[6 * i][1] = "hold" /\ Full[6 * i][2] = HoldPhase(i)
         /\ Full[6 * i + 1][1] = "auto"
         /\ Full[6 * i + 2][1] = "mark" /\ Full[6 * i + 2][2] = AutoOf(SubRuns[i][1], SubRuns[i][2])
         /\ Full[6 * i + 3][1] = "hold" /\ Full[6 * i + 3][2] = LogPhase(i)
<1>1. Full = T2Plan
  BY DEF Full
<1>2. i \in Nat \ {0} /\ SubRuns[i] \in Nat \X {"H", "M"}
  BY SubRunsAre, Numbers
<1>. PICK s : s = SubRuns[i]
  OBVIOUS
<1>3. \A r \in 1..6 : 3 + (6 * (i - 1) + r) \in 1..Len(Full) /\ Full[3 + (6 * (i - 1) + r)] = SubPlan(s)[r]
  BY <1>1, T2PlanIs
<1>4. /\ SubPlan(s)[1] = <<"manual">> /\ SubPlan(s)[2] = <<"write", WriteOf(s[2])>>
      /\ SubPlan(s)[3] = <<"hold", Phase("hold", s[1], s[2]), Hold>>
      /\ SubPlan(s)[4] = <<"auto">> /\ SubPlan(s)[5] = <<"mark", AutoOf(s[1], s[2])>>
      /\ SubPlan(s)[6] = <<"hold", Phase("log", s[1], s[2]), Observe>>
  BY <1>2, SubPlanIs
<1>5. /\ 3 + (6 * (i - 1) + 1) = 6 * i - 2 /\ 3 + (6 * (i - 1) + 2) = 6 * i - 1
      /\ 3 + (6 * (i - 1) + 3) = 6 * i /\ 3 + (6 * (i - 1) + 4) = 6 * i + 1
      /\ 3 + (6 * (i - 1) + 5) = 6 * i + 2 /\ 3 + (6 * (i - 1) + 6) = 6 * i + 3
  BY <1>2
<1>6. /\ Full[6 * i - 2] = SubPlan(s)[1] /\ Full[6 * i - 1] = SubPlan(s)[2] /\ Full[6 * i] = SubPlan(s)[3]
      /\ Full[6 * i + 1] = SubPlan(s)[4] /\ Full[6 * i + 2] = SubPlan(s)[5] /\ Full[6 * i + 3] = SubPlan(s)[6]
  BY <1>3, <1>5
<1>7. 6 * i + 3 <= Len(Full)
  BY <1>3, <1>5
<1>. QED
  BY <1>2, <1>4, <1>6, <1>7 DEF HoldPhase, LogPhase

\* T2: the value A, then six steps for every sub-run, then its end.
LEMMA T2Positions ==
  ASSUME test # "map"
  PROVE  /\ Len(Full) = 4 + 6 * (2 * Repeat)
         /\ \A k \in 1..Len(Full) :
              /\ Full[k][1] = "hold" =>
                   \/ k = 2 /\ Full[k][2] = A
                   \/ \E i \in DOMAIN SubRuns : k = 6 * i /\ Full[k][2] = HoldPhase(i)
                   \/ \E i \in DOMAIN SubRuns : k = 6 * i + 3 /\ Full[k][2] = LogPhase(i)
              /\ Full[k][1] \in Orders =>
                   /\ k = 1 \/ \E i \in DOMAIN SubRuns : k \in {6 * i - 2, 6 * i - 1, 6 * i + 1}
                   /\ Full[k][1] = "write" => Full[k][2][1] = "write"
              /\ Full[k][1] = "mark" =>
                   \/ k = Len(Full) /\ Full[k][2] = T2Complete
                   \/ \E i \in DOMAIN SubRuns : k = 6 * i + 2 /\ Full[k][2] = AutoOf(SubRuns[i][1], SubRuns[i][2])
              /\ DeterminesA(k) => k = 3
<1>. DEFINE L == 4 + 6 * (2 * Repeat)
<1>1. Full = T2Plan
  BY DEF Full
<1>0. /\ Len(T2Plan) = 4 + 6 * Len(SubRuns)
      /\ \A k \in 1..Len(T2Plan) :
           \/ k \in {1, 2, 3, Len(T2Plan)}
           \/ \E i \in DOMAIN SubRuns, r \in 1..6 : k = 3 + (6 * (i - 1) + r)
      /\ T2Plan[1] = <<"auto">> /\ T2Plan[2] = <<"hold", A, Pre>>
      /\ T2Plan[Len(T2Plan)] = <<"mark", T2Complete>>
  BY T2PlanIs, Zenon
<1>2. Len(Full) = L
  BY <1>0, <1>1, SubRunsAre
<1>3. /\ Full[1][1] = "auto" /\ Full[2][1] = "hold" /\ Full[2][2] = A
      /\ Full[L][1] = "mark" /\ Full[L][2] = T2Complete
  BY <1>0, <1>1, <1>2
<1>4. DeterminesA(3) /\ L \in Nat /\ L > 3
  <2>1. DeterminesA(3)
    BY <1>1, T2Ends, Zenon DEF DeterminesA
  <2>. QED
    BY <2>1, Numbers
<1>5. \A k \in 1..L : DeterminesA(k) => k = 3
  <2>1. 3 \in 1..L
    BY <1>4
  <2>. QED
    BY <1>2, <1>4, <2>1, FullIs
<1>6. ASSUME NEW k \in 1..L
      PROVE  k = 1 \/ k = 2 \/ k = 3 \/ k = L \/
             \E i \in DOMAIN SubRuns : k \in {6 * i - 2, 6 * i - 1, 6 * i, 6 * i + 1, 6 * i + 2, 6 * i + 3}
  <2>1. CASE \E i \in DOMAIN SubRuns, r \in 1..6 : k = 3 + (6 * (i - 1) + r)
    <3>1. PICK i \in DOMAIN SubRuns, r \in 1..6 : k = 3 + (6 * (i - 1) + r)
      BY <2>1
    <3>2. i \in Nat
      BY SubRunsAre
    <3>3. k \in {6 * i - 2, 6 * i - 1, 6 * i, 6 * i + 1, 6 * i + 2, 6 * i + 3}
      BY <3>1, <3>2
    <3>. QED
      BY <3>3
  <2>. QED
    BY <1>0, <1>1, <1>2, <2>1
<1>. HIDE DEF L
<1>7. ASSUME NEW k \in 1..L
      PROVE  /\ Full[k][1] = "hold" =>
                   \/ k = 2 /\ Full[k][2] = A
                   \/ \E i \in DOMAIN SubRuns : k = 6 * i /\ Full[k][2] = HoldPhase(i)
                   \/ \E i \in DOMAIN SubRuns : k = 6 * i + 3 /\ Full[k][2] = LogPhase(i)
             /\ Full[k][1] \in Orders =>
                   /\ k = 1 \/ \E i \in DOMAIN SubRuns : k \in {6 * i - 2, 6 * i - 1, 6 * i + 1}
                   /\ Full[k][1] = "write" => Full[k][2][1] = "write"
             /\ Full[k][1] = "mark" =>
                   \/ k = L /\ Full[k][2] = T2Complete
                   \/ \E i \in DOMAIN SubRuns : k = 6 * i + 2 /\ Full[k][2] = AutoOf(SubRuns[i][1], SubRuns[i][2])
  <2>0. "hold" \notin Orders /\ "mark" \notin Orders
    BY DEF Orders
  <2>1. CASE k = 1
    BY <1>3, <2>1
  <2>2. CASE k = 2
    BY <1>3, <2>0, <2>2
  <2>3. CASE k = 3
    <3>1. Full[k][1] \notin Orders \cup {"hold", "mark"}
      <4>1. Full[k][1] = "value A"
        BY <1>4, <2>3, Zenon DEF DeterminesA
      <4>2. "value A" \notin Orders \cup {"hold", "mark"}
        BY Zenon DEF Orders
      <4>. QED
        BY <4>1, <4>2, Zenon
    <3>. QED
      BY <3>1
  <2>4. CASE k = L
    BY <1>3, <2>0, <2>4
  <2>5. ASSUME NEW i \in DOMAIN SubRuns,
               k \in {6 * i - 2, 6 * i - 1, 6 * i, 6 * i + 1, 6 * i + 2, 6 * i + 3}
        PROVE  /\ Full[k][1] = "hold" =>
                     \/ k = 6 * i /\ Full[k][2] = HoldPhase(i)
                     \/ k = 6 * i + 3 /\ Full[k][2] = LogPhase(i)
               /\ Full[k][1] \in Orders =>
                     /\ k \in {6 * i - 2, 6 * i - 1, 6 * i + 1}
                     /\ Full[k][1] = "write" => Full[k][2][1] = "write"
               /\ Full[k][1] = "mark" =>
                     k = 6 * i + 2 /\ Full[k][2] = AutoOf(SubRuns[i][1], SubRuns[i][2])
    <3>1. WriteOf(SubRuns[i][2])[1] = "write"
      BY TextNames, Zenon
    <3>2. CASE k = 6 * i - 2
      BY <3>2, SubPositions
    <3>3. CASE k = 6 * i - 1
      BY <3>1, <3>3, SubPositions
    <3>4. CASE k = 6 * i
      BY <2>0, <3>4, SubPositions
    <3>5. CASE k = 6 * i + 1
      BY <3>5, SubPositions
    <3>6. CASE k = 6 * i + 2
      BY <2>0, <3>6, SubPositions
    <3>7. CASE k = 6 * i + 3
      BY <2>0, <3>7, SubPositions
    <3>. QED
      BY <2>5, <3>2, <3>3, <3>4, <3>5, <3>6, <3>7
  <2>6. CASE \E i \in DOMAIN SubRuns : k \in {6 * i - 2, 6 * i - 1, 6 * i, 6 * i + 1, 6 * i + 2, 6 * i + 3}
    BY <2>5, <2>6
  <2>. QED
    BY <1>6, <2>1, <2>2, <2>3, <2>4, <2>6
<1>8. Len(Full) = L /\ \A k \in 1..L : k \in 1..Len(Full)
  BY <1>2
<1>. QED
  BY <1>5, <1>7, <1>8 DEF L

\* A position tells how many marks were set and how many sub-runs evaluated.
LEMMA WithinIs ==
  ASSUME NEW m \in Nat, NEW n \in Nat, NEW k \in Nat, Within(m, n, k)
  PROVE  /\ \A i \in Nat \ {0} :
              /\ k = 6 * i + 3 => m = i /\ n = i - 1 /\ Within(m, i, k + 1)
              /\ k = 6 * i + 2 => m = i - 1 /\ n = i - 1 /\ Within(i, n, k + 1)
              /\ k \in {6 * i - 2, 6 * i - 1, 6 * i, 6 * i + 1} =>
                   /\ m = i - 1 /\ n = i - 1 /\ Within(m, n, k + 1)
                   /\ ~(m > 0 /\ k + 1 = 6 * m + 3)
         /\ k \in {1, 2, 3} => m = 0 /\ n = 0 /\ Within(m, n, k + 1)
         /\ \A N \in Nat \ {0} : k = 4 + 6 * N =>
              m = N /\ n = N /\ Within(m, n, k + 1) /\ ~(m > 0 /\ k + 1 = 6 * m + 3)
         /\ \A N \in Nat \ {0} : k = 5 + 6 * N => m = N /\ n = N
BY DEF Within

\* In particular before the mark of a sub-run.
LEMMA WithinWork ==
  ASSUME NEW m \in Nat, NEW n \in Nat, NEW k \in Nat, Within(m, n, k), NEW i \in Nat \ {0},
         k \in {6 * i - 2, 6 * i - 1, 6 * i, 6 * i + 1}
  PROVE  m = i - 1 /\ n = i - 1 /\ Within(m, n, k + 1) /\ ~(m > 0 /\ k + 1 = 6 * m + 3)
BY DEF Within

\* A test begins when the gates are decided.
LEMMA Entered ==
  ASSUME IInv, [Next]_vars, pc # "test", pc' = "test"
  PROVE  \E g6 \in {"PASS", "PARTIAL", "FAIL"} : Decide(g6)
<1>1. CASE \E bad \in {{}} \cup {{g} : g \in PreGates}, d, typed \in BOOLEAN : Confirm(bad, d, typed)
  BY <1>1 DEF Confirm
<1>2. CASE StartGates
  BY <1>2 DEF StartGates
<1>3. CASE \E g6 \in {"PASS", "PARTIAL", "FAIL"} : Decide(g6)
  BY <1>3
<1>4. CASE \E O \in SomeOdd : TakeSample(O)
  BY <1>4 DEF TakeSample, Sampled
<1>5. CASE \E O \in SomeOdd, slow \in 0..MaxOdd - odd : HoldSample(O, slow)
  BY <1>5 DEF HoldSample, Sampled
<1>6. CASE HoldCancelled
  BY <1>6 DEF HoldCancelled
<1>7. CASE \E out \in {"sent", "failed", "no state file"} : Command(out)
  BY <1>7, Zenon DEF Command
<1>8. CASE Mark
  BY <1>8 DEF Mark
<1>9. CASE ValueA
  BY <1>9 DEF ValueA
<1>10. CASE TestEnds
  BY <1>10 DEF TestEnds
<1>11. CASE \E fails \in SUBSET ToClose : \E differs \in SUBSET (ToClose \ fails) : Restore(fails, differs)
  BY <1>11 DEF Restore
<1>12. CASE Closed
  BY <1>12 DEF Closed
<1>13. CASE WriteMeta
  BY <1>13 DEF WriteMeta
<1>14. CASE WriteVerdict
  BY <1>14 DEF WriteVerdict
<1>15. CASE Finish
  BY <1>15 DEF Finish
<1>16. CASE Aftermath
  BY <1>16 DEF Aftermath
<1>17. CASE Cancel
  BY <1>17 DEF Cancel
<1>18. CASE \E how \in {"killed", "panic"} : Dies(how)
  BY <1>18, Zenon DEF Dies
<1>19. CASE UNCHANGED vars
  BY <1>19 DEF vars
<1>. QED
  BY <1>1, <1>2, <1>3, <1>4, <1>5, <1>6, <1>7, <1>8, <1>9, <1>10, <1>11, <1>12, <1>13, <1>14,
    <1>15, <1>16, <1>17, <1>18, <1>19 DEF Next

-----------------------------------------------------------------------------
(* Lines and samples of a test, step by step.                              *)

\* A line of a text that nothing logged.
LEMMA NoLines ==
  ASSUME TypeData, NEW T, \A i \in DOMAIN events : events[i].e \notin T
  PROVE  Lines(T) = <<>>
<1>1. events \in Seq(Events)
  BY DEF TypeData
<1>2. \A i \in DOMAIN events : events[i] \notin OfTexts(T)
  BY DEF OfTexts
<1>3. Lines(T) = Picked(events, OfTexts(T))
  BY <1>1, LinesAre DEF Lines
<1>. QED
  BY <1>1, <1>2, <1>3, PickedAre

\* Lines that are neither a mark nor a write nor the end of T1.
LEMMA QuietLines ==
  ASSUME TypeHold, TypeData, Quietly
  PROVE  /\ AutoLines' = AutoLines
         /\ HasEvent(T1Complete)' <=> HasEvent(T1Complete)
         /\ \A d : WriteLines(d)' = WriteLines(d)
<1>1. PICK texts \in Seq(Texts) : Log(texts) /\ \A k \in DOMAIN texts : texts[k][1] \in Ordinary \ {"write"}
  BY Zenon DEF Quietly
<1>2. \A k \in DOMAIN texts : texts[k] \notin Marks /\ texts[k] # T1Complete
  BY <1>1, OtherTexts
<1>3. AutoLines' = AutoLines
  BY <1>1, <1>2, LinesKept DEF AutoLines
<1>4. HasEvent(T1Complete)' <=> HasEvent(T1Complete)
  BY <1>1, <1>2, EventsKept, Zenon
<1>5. ASSUME NEW d
      PROVE  WriteLines(d)' = WriteLines(d)
  <2>1. \A k \in DOMAIN texts : texts[k] # WriteOf(d)
    BY <1>1, OtherTexts, Zenon
  <2>2. \A k \in DOMAIN texts : texts[k] \notin {WriteOf(d)}
    BY <2>1
  <2>. QED
    BY <1>1, <2>2, LinesKept DEF WriteLines
<1>. QED
  BY <1>3, <1>4, <1>5

\* So are those of an abort, and those of an order that is not a write.
LEMMA AbortIsQuiet ==
  ASSUME Aborts
  PROVE  Quietly
<1>1. "ABORT" \in EventNames /\ "ABORT" \in Ordinary \ {"write"}
  BY DEF EventNames, Ordinary
<1>2. Plain("ABORT") \in Texts /\ Plain("ABORT")[1] = "ABORT"
  BY <1>1, NamesAreTyped, TextNames
<1>. DEFINE a == Plain("ABORT")
<1>3. <<a>> \in Seq(Texts) /\ \A k \in DOMAIN <<a>> : <<a>>[k][1] \in Ordinary \ {"write"}
  BY <1>1, <1>2
<1>. QED
  BY <1>3, Zenon DEF Quietly, Aborts

\* A line that is no write and no mark is quiet.
LEMMA OneLine ==
  ASSUME NEW x \in Texts, Log(<<x>>), x[1] \in Ordinary \ {"write"}
  PROVE  Quietly
<1>1. <<x>> \in Seq(Texts) /\ \A k \in DOMAIN <<x>> : <<x>>[k][1] \in Ordinary \ {"write"}
  OBVIOUS
<1>. QED
  BY <1>1, Zenon DEF Quietly

\* The text of an order or a mark.
LEMMA StepText ==
  ASSUME TypeHold, NEW k \in 1..Len(Full)
  PROVE  /\ Full[k][1] \in {"write", "mark"} => Full[k][2] \in Texts
         /\ Full[k][1] \in {"manual", "auto"} =>
              /\ Plain(Full[k][1]) \in Texts
              /\ Plain(Full[k][1])[1] = Full[k][1] /\ Full[k][1] \in Ordinary \ {"write"}
<1>1. Full[k] \in Steps
  BY FullIs
<1>2. {"manual", "auto"} \subseteq EventNames /\ {"manual", "auto"} \subseteq Ordinary \ {"write"}
  BY DEF EventNames, CommandTexts, Ordinary
<1>3. Full[k][1] \in {"write", "mark"} => Full[k][2] \in Texts
  BY <1>1, StepTypes
<1>4. ASSUME Full[k][1] \in {"manual", "auto"}
      PROVE  Plain(Full[k][1]) \in Texts /\ Plain(Full[k][1])[1] = Full[k][1]
  <2>1. Full[k][1] \in EventNames
    BY <1>2, <1>4
  <2>. QED
    BY <2>1, NamesAreTyped, TextNames, Zenon
<1>. QED
  BY <1>2, <1>3, <1>4

\* Where the line of a phase is, the times of a sample added later agree with it.
LEMMA TimesKept ==
  ASSUME UNCHANGED <<coll, samples>>, NEW ph, NEW from, TimedFrom(ph, from)
  PROVE  TimedFrom(ph, from)'
<1>1. Got(ph)' = Got(ph) /\ Rows(ph)' = Rows(ph)
  BY DEF Got, Rows
<1>. QED
  BY <1>1 DEF TimedFrom

\* A sample more has its time from the same line.
LEMMA TimesAdded ==
  ASSUME TypeRun, TypeHold, TypeData, Mirror, NEW p, NEW O, Takes(p, O),
         NEW ph \in Phases, NEW from, TimedFrom(ph, from), ph = p => from = t0
  PROVE  TimedFrom(ph, from)'
<1>1. p \in Phases /\ O \in Readouts /\ Sampled(p, t0 + slot, O)
  BY DEF Takes
<1>. DEFINE s == [ph |-> p, ts |-> t0 + slot, odd |-> O]
<1>2. s \in Samples /\ s.ph = p /\ s.ts = t0 + slot /\ Row(s)
  BY <1>1 DEF Sampled, Samples, TypeHold
<1>. DEFINE c == [t |-> slot, odd |-> O]
<1>3. Got(p)' = Append(Got(p), c) /\ \A r : r # p => Got(r)' = Got(r)
  BY <1>1, HoldAdds
<1>4. c \in Points /\ c.t = slot
  BY <1>1 DEF Points, TypeHold
<1>. HIDE DEF s, c
<1>5. Rows(ph)' = IF p = ph THEN Append(Rows(ph), s) ELSE Rows(ph)
  BY <1>2, RowAdded
<1>6. CASE p # ph
  <2>1. Got(ph)' = Got(ph) /\ Rows(ph)' = Rows(ph)
    BY <1>3, <1>5, <1>6
  <2>. QED
    BY <2>1 DEF TimedFrom
<1>7. CASE p = ph
  <2>1. Got(ph) \in Seq(Points) /\ Rows(ph) \in Seq(Samples) /\ Len(Rows(ph)) = Len(Got(ph))
    BY ReadTypes DEF Mirror
  <2>. PICK g, r : g = Got(ph) /\ r = Rows(ph)
    OBVIOUS
  <2>2. g \in Seq(Points) /\ r \in Seq(Samples) /\ Len(r) = Len(g) /\ Len(g) \in Nat
    BY <2>1
  <2>3. \A k \in DOMAIN g : g[k].t = r[k].ts - from
    BY DEF TimedFrom
  <2>4. Got(ph)' = Append(g, c) /\ Rows(ph)' = Append(r, s) /\ from = t0
    BY <1>3, <1>5, <1>7
  <2>5. ASSUME NEW k \in DOMAIN Append(g, c)
        PROVE  Append(g, c)[k].t = Append(r, s)[k].ts - from
    <3>1. CASE k = Len(g) + 1
      <4>1. Append(g, c)[k] = c /\ Append(r, s)[k] = s
        BY <1>2, <1>4, <2>2, <3>1, OneMore
      <4>. QED
        BY <1>2, <1>4, <2>4, <4>1 DEF TypeHold
    <3>2. CASE k # Len(g) + 1
      <4>1. k \in DOMAIN g /\ k \in DOMAIN r
        BY <1>4, <2>2, <3>2, OneMore
      <4>2. Append(g, c)[k] = g[k] /\ Append(r, s)[k] = r[k]
        BY <1>2, <1>4, <2>2, <4>1, OneMore
      <4>. QED
        BY <2>3, <4>1, <4>2
    <3>. QED
      BY <3>1, <3>2
  <2>. QED
    BY <2>4, <2>5 DEF TimedFrom
<1>. QED
  BY <1>6, <1>7

\* The next step of the plan.
LEMMA Forward ==
  ASSUME TypeHold, Progress, OnTrack, plan # <<>>, test' = test, NEW t, NextStep(t)
  PROVE  /\ Full' = Full /\ At' = At + 1 /\ At \in 1..Len(Full) /\ Len(Full) \in Nat
         /\ plan' = <<>> <=> At = Len(Full)
         /\ t0' = t
<1>1. /\ Len(plan) \in Nat \ {0} /\ Len(Full) \in Nat /\ At \in 1..Len(Full)
  BY Present
<1>2. plan \in Seq(Steps) /\ plan' = Tail(plan) /\ t0' = t
  BY DEF TypeHold, NextStep
<1>3. Tail(plan) \in Seq(Steps) /\ Len(Tail(plan)) = Len(plan) - 1
  BY <1>2, HeadTail
<1>4. Full' = Full
  BY SamePlan
<1>. PICK l, m : l = Len(plan) /\ m = Len(Full)
  OBVIOUS
<1>5. At = m - l + 1 /\ l \in Nat \ {0} /\ m \in Nat
  BY <1>1 DEF At
<1>6. At' = m - Len(plan') + 1 /\ Len(plan') = l - 1
  BY <1>2, <1>3, <1>4 DEF At
<1>7. At' = At + 1
  BY <1>5, <1>6
<1>8. plan' = <<>> <=> l - 1 = 0
  <2>1. \A q \in Seq(Steps) : q = <<>> <=> Len(q) = 0
    OBVIOUS
  <2>2. plan' \in Seq(Steps)
    BY <1>2, <1>3
  <2>. QED
    BY <1>6, <2>1, <2>2
<1>9. l - 1 = 0 <=> At = m
  BY <1>5
<1>. QED
  BY <1>1, <1>2, <1>4, <1>7, <1>8, <1>9

\* Without a step of the plan the place is the same.
LEMMA InPlace ==
  ASSUME UNCHANGED <<test, plan>>
  PROVE  Full' = Full /\ At' = At
BY SamePlan DEF At

-----------------------------------------------------------------------------
(* T1: the lines of its writes.                                            *)

\* The line of a write stays while the test goes on at, or past, other steps.
LEMMA T1LineKept ==
  ASSUME NEW i \in DOMAIN T1Steps, T1Line(i), NEW k \in Nat, NEW j \in Nat, At = k, At' = j,
         NEW q, WriteLines(T1Steps[i]) = q, WriteLines(T1Steps[i])' = q,
         TimedFrom(StepPhase(i), q[1].ts) => TimedFrom(StepPhase(i), q[1].ts)',
         \/ j = k /\ t0' = t0
         \/ j = k + 1 /\ 1 + 2 * i # k
  PROVE  T1Line(i)'
<1>. DEFINE F == TimedFrom(StepPhase(i), q[1].ts)
            G == TimedFrom(StepPhase(i), q[1].ts)'
<1>1. /\ 1 + 2 * i >= k => q = <<>>
      /\ 1 + 2 * i < k => Len(q) = 1 /\ F
      /\ 2 + 2 * i = k => q[1].ts = t0
  BY DEF T1Line
<1>2. F => G
  OBVIOUS
<1>3. i \in Nat
  BY Numbers
<1>. HIDE DEF F, G
<1>4. /\ 1 + 2 * i >= j => q = <<>>
      /\ 1 + 2 * i < j => Len(q) = 1 /\ G
      /\ 2 + 2 * i = j => q[1].ts = t0'
  BY <1>1, <1>2, <1>3
<1>. QED
  BY <1>4 DEF T1Line, G

\* A test of T1 begins without a line of it in the log.
LEMMA T1Enters ==
  ASSUME IInv, Quiet, NEW g6 \in {"PASS", "PARTIAL", "FAIL"}, Decide(g6), test' = "map"
  PROVE  T1Lines'
<1>. TypeRun /\ TypeHold /\ TypeData /\ Before /\ AtGates
  BY DEF IInv, TypeOK
<1>1. pc = "gates" /\ pc' = "test" /\ UNCHANGED <<test, abort, touched, events, aKnown>>
  BY DecidedBefore DEF Decide, request
<1>2. touched = {} /\ \A i \in DOMAIN events : events[i].e = Plain("ABORT")
  BY <1>1 DEF Before, Quiet
<1>3. Plain("ABORT")[1] = "ABORT" /\ "ABORT" \in Ordinary \ {"write"}
  BY TextNames DEF Ordinary
<1>4. ~HasEvent(T1Complete)'
  <2>1. T1Complete # Plain("ABORT")
    BY <1>3, OtherTexts
  <2>2. ~HasEvent(T1Complete)
    BY <1>2, <2>1 DEF HasEvent
  <2>. QED
    BY <1>1, <2>2 DEF HasEvent
<1>5. ASSUME NEW d
      PROVE  WriteLines(d)' = <<>>
  <2>1. Plain("ABORT") # WriteOf(d)
    BY <1>3, OtherTexts
  <2>2. \A i \in DOMAIN events : events[i].e \notin {WriteOf(d)}
    BY <1>2, <2>1
  <2>3. Lines({WriteOf(d)}) = <<>>
    BY <2>2, NoLines
  <2>. QED
    BY <1>1, <2>3 DEF WriteLines, Lines
<1>6. CASE plan' = <<>>
  <2>1. ~OnTrack'
    BY <1>1, <1>2, <1>6 DEF OnTrack
  <2>. QED
    BY <1>4, <2>1 DEF T1Lines
<1>7. CASE plan' # <<>>
  <2>1. plan' = Full /\ Full' = Full
    BY <1>1, <1>7, GatesPassed, SamePlan
  <2>2. At' = 1
    <3>1. Len(Full) \in Nat
      BY FullIs
    <3>2. At' = Len(Full) - Len(Full) + 1
      BY <2>1 DEF At
    <3>. QED
      BY <3>1, <3>2
  <2>3. \A i \in DOMAIN T1Steps : T1Line(i)'
    <3>1. TAKE i \in DOMAIN T1Steps
    <3>2. i \in Nat \ {0}
      BY Numbers
    <3>. QED
      BY <1>5, <2>2, <3>2 DEF T1Line
  <2>. QED
    BY <1>4, <1>7, <2>2, <2>3 DEF T1Lines
<1>. QED
  BY <1>6, <1>7

\* A run that stops early has no end of T1 in its log.
LEMMA T1Breaks ==
  ASSUME TypeHold, TypeData, T1Lines, pc = "test", test = "map", plan # <<>>, Quietly, Breaks
  PROVE  T1Lines'
<1>1. ~HasEvent(T1Complete)
  BY DEF T1Lines
<1>2. ~HasEvent(T1Complete)'
  BY <1>1, QuietLines
<1>3. ~OnTrack'
  BY DEF OnTrack, Breaks
<1>. QED
  BY <1>2, <1>3 DEF T1Lines

\* A sample of the rest phase, or of the hold after a write.
LEMMA T1Sample ==
  ASSUME IInv, Mirror, T1Lines, pc = "test", pc' = "test", test = "map", test' = test, plan # <<>>, OnTrack,
         NEW p, NEW O, SampleGoes(p, O)
  PROVE  T1Lines'
<1>. TypeRun /\ TypeHold /\ TypeData /\ Progress
  BY DEF IInv, TypeOK
<1>1. At \in 1..Len(Full) /\ Len(Full) \in Nat
  BY Present
<1>. PICK k, n : k = At /\ n = Len(T1Steps)
  OBVIOUS
<1>2. n \in Nat /\ Len(Full) = 3 + 2 * n /\ k \in 1..3 + 2 * n
  BY <1>1, T1Positions, Numbers
<1>3. Takes(p, O) /\ Full[k][1] = "hold" /\ Full[k][2] = p /\ UNCHANGED <<abort, events, touched>>
  BY DEF SampleGoes, Takes
<1>4. \/ k = 1 /\ p = Rest
      \/ \E i \in DOMAIN T1Steps : k = 2 + 2 * i /\ p = StepPhase(i)
  BY <1>1, <1>3, T1Positions
<1>5. \A i \in DOMAIN T1Steps : i \in Nat \ {0}
  BY Numbers
<1>6. k # 2 /\ k # 3 + 2 * n /\ \A i \in DOMAIN T1Steps : 1 + 2 * i # k
  BY <1>2, <1>4, <1>5
<1>. PICK j : j = At'
  OBVIOUS
<1>7. (j = k /\ t0' = t0 /\ plan' = plan) \/ (j = k + 1 /\ (plan' = <<>> <=> k = Len(Full)))
  <2>1. CASE UNCHANGED <<plan, t0>>
    BY <2>1, InPlace
  <2>2. CASE NextStep(t0 + slot)
    BY <2>2, Forward
  <2>. QED
    BY <2>1, <2>2 DEF SampleGoes
<1>8. plan' # <<>> /\ j \in Nat
  BY <1>2, <1>6, <1>7
<1>9. OnTrack' /\ ~HasEvent(T1Complete)'
  BY <1>3, <1>8 DEF OnTrack, T1Lines, HasEvent
<1>10. j > 2 => touched' # {}
  <2>1. j > 2 => k > 2
    BY <1>2, <1>6, <1>7
  <2>2. k > 2 => touched # {}
    BY DEF T1Lines
  <2>. QED
    BY <1>3, <2>1, <2>2
<1>11. ASSUME NEW i \in DOMAIN T1Steps
       PROVE  T1Line(i)'
  <2>. PICK q : q = WriteLines(T1Steps[i])
    OBVIOUS
  <2>1. T1Line(i) /\ i \in Nat \ {0}
    BY <1>5 DEF T1Lines
  <2>2. WriteLines(T1Steps[i])' = q
    BY <1>3 DEF WriteLines, Lines
  <2>3. StepPhase(i) = p => k = 2 + 2 * i
    <3>1. 2 + 2 * i \in 1..Len(Full) /\ Full[2 + 2 * i][1] = "hold" /\ Full[2 + 2 * i][2] = StepPhase(i)
      BY T1Positions
    <3>. QED
      BY <1>1, <1>3, <3>1, FullIs
  <2>4. StepPhase(i) = p => q[1].ts = t0
    BY <2>1, <2>3 DEF T1Line
  <2>5. StepPhase(i) \in Phases
    BY Numbers, NamesAreTyped DEF StepPhase
  <2>6. TimedFrom(StepPhase(i), q[1].ts) => TimedFrom(StepPhase(i), q[1].ts)'
    BY <1>3, <2>4, <2>5, TimesAdded
  <2>7. (j = k /\ t0' = t0) \/ (j = k + 1 /\ 1 + 2 * i # k)
    BY <1>6, <1>7
  <2>8. k \in Nat
    BY <1>2
  <2>. QED
    BY <1>8, <2>1, <2>2, <2>6, <2>7, <2>8, T1LineKept
<1>. QED
  BY <1>8, <1>9, <1>10, <1>11 DEF T1Lines

\* A write has its line before the first sample of its hold.
LEMMA T1Sends ==
  ASSUME IInv, T1Lines, pc = "test", pc' = "test", test = "map", test' = test, plan # <<>>, OnTrack,
         NEW x, Sends(x)
  PROVE  T1Lines'
<1>. TypeRun /\ TypeHold /\ TypeData /\ Progress
  BY DEF IInv, TypeOK
<1>1. At \in 1..Len(Full) /\ Len(Full) \in Nat
  BY Present
<1>. PICK k, n : k = At /\ n = Len(T1Steps)
  OBVIOUS
<1>2. n \in Nat /\ Len(Full) = 3 + 2 * n /\ k \in 1..3 + 2 * n /\ k \in Nat
  BY <1>1, T1Positions, Numbers
<1>3. /\ Full[k][1] \in {"manual", "write", "auto"} /\ Log(<<x>>) /\ NextStep(now)
      /\ x = (IF Full[k][1] = "write" THEN Full[k][2] ELSE Plain(Full[k][1]))
      /\ touched' = {ch} /\ UNCHANGED <<abort, coll, samples>>
  BY DEF Sends
<1>4. Full' = Full /\ At' = k + 1 /\ (plan' = <<>> <=> k = Len(Full)) /\ t0' = now
  BY <1>3, Forward
<1>5. \A i \in DOMAIN T1Steps : i \in Nat \ {0}
  BY Numbers
<1>6. plan' # <<>>
  <2>1. Full[Len(Full)][1] = "mark"
    <3>1. Full = T1Plan /\ T1Plan[Len(T1Plan)] = <<"mark", T1Complete>>
      BY T1PlanIs DEF Full
    <3>. QED
      BY <3>1
  <2>. QED
    BY <1>3, <1>4, <2>1
<1>7. OnTrack'
  BY <1>3, <1>6 DEF OnTrack
<1>8. x \in Texts /\ x[1] \in Ordinary /\ (Full[k][1] # "write" => x[1] \in Ordinary \ {"write"})
  <2>1. CASE Full[k][1] = "write"
    <3>1. x \in Texts
      BY <1>1, <1>3, <2>1, StepText
    <3>2. PICK i \in DOMAIN T1Steps : x = WriteOf(T1Steps[i])
      BY <1>1, <1>3, <2>1, T1Positions
    <3>3. x[1] = "write"
      BY <3>2, TextNames, Zenon
    <3>. QED
      BY <2>1, <3>1, <3>3 DEF Ordinary
  <2>2. CASE Full[k][1] # "write"
    BY <1>1, <1>3, <2>2, StepText
  <2>. QED
    BY <2>1, <2>2
<1>9. ~HasEvent(T1Complete)'
  <2>1. x # T1Complete
    BY <1>8, OtherTexts, Zenon
  <2>2. <<x>> \in Seq(Texts) /\ \A j \in DOMAIN <<x>> : <<x>>[j] # T1Complete
    BY <1>8, <2>1
  <2>3. ~HasEvent(T1Complete)
    BY DEF T1Lines
  <2>. QED
    BY <1>3, <2>2, <2>3, EventsKept, Zenon
<1>10. ASSUME NEW i \in DOMAIN T1Steps
       PROVE  T1Line(i)'
  <2>. PICK q : q = WriteLines(T1Steps[i])
    OBVIOUS
  <2>1. T1Line(i) /\ i \in Nat \ {0}
    BY <1>5 DEF T1Lines
  <2>2. WriteLines(T1Steps[i])' = IF x = WriteOf(T1Steps[i]) THEN Append(q, Now(x)) ELSE q
    <3>1. Lines({WriteOf(T1Steps[i])})' =
            IF x \in {WriteOf(T1Steps[i])} THEN Append(Lines({WriteOf(T1Steps[i])}), Now(x))
            ELSE Lines({WriteOf(T1Steps[i])})
      BY <1>3, <1>8, LineAdded
    <3>. QED
      BY <3>1 DEF WriteLines
  <2>3. CASE x # WriteOf(T1Steps[i])
    <3>1. 1 + 2 * i # k
      <4>1. SUFFICES ASSUME 1 + 2 * i = k
                     PROVE  FALSE
        OBVIOUS
      <4>2. Full[k] = <<"write", WriteOf(T1Steps[i])>>
        BY <4>1, T1PlanIs DEF Full
      <4>. QED
        BY <1>3, <2>3, <4>2
    <3>2. WriteLines(T1Steps[i])' = q
      BY <2>2, <2>3
    <3>3. TimedFrom(StepPhase(i), q[1].ts) => TimedFrom(StepPhase(i), q[1].ts)'
      BY <1>3, TimesKept
    <3>. QED
      BY <1>2, <1>4, <2>1, <3>1, <3>2, <3>3, T1LineKept
  <2>4. CASE x = WriteOf(T1Steps[i])
    <3>1. k = 1 + 2 * i
      <4>1. Full[k][1] = "write"
        <5>1. x[1] = "write"
          BY <2>4, TextNames, Zenon
        <5>. QED
          BY <1>8, <5>1
      <4>2. PICK h \in DOMAIN T1Steps : k = 1 + 2 * h /\ x = WriteOf(T1Steps[h])
        BY <1>1, <1>3, <4>1, T1Positions
      <4>3. T1Steps[h] = T1Steps[i]
        BY <2>4, <4>2, OtherTexts, Zenon
      <4>. QED
        BY <4>2, <4>3, Numbers
    <3>2. q = <<>>
      <4>1. 1 + 2 * i >= k
        BY <2>1, <3>1
      <4>. QED
        BY <2>1, <4>1 DEF T1Line
    <3>. PICK e : e = Now(x)
      OBVIOUS
    <3>3. e.ts = now
      BY DEF Now
    <3>4. WriteLines(T1Steps[i])' = <<e>>
      BY <2>2, <2>4, <3>2
    <3>5. Got(StepPhase(i)) = <<>>
      <4>1. 2 + 2 * i \in 1..Len(Full) /\ Full[2 + 2 * i][1] = "hold" /\ Full[2 + 2 * i][2] = StepPhase(i)
        BY T1Positions
      <4>2. 2 + 2 * i > k
        BY <2>1, <3>1
      <4>3. Along
        BY DEF Progress
      <4>. QED
        BY <4>1, <4>2, <4>3 DEF Along
    <3>6. Got(StepPhase(i))' = <<>>
      BY <1>3, <3>5 DEF Got
    <3>7. TimedFrom(StepPhase(i), e.ts)'
      BY <3>6 DEF TimedFrom
    <3>8. /\ ~(1 + 2 * i >= k + 1) /\ Len(<<e>>) = 1 /\ <<e>>[1] = e
          /\ 2 + 2 * i = k + 1
      BY <2>1, <3>1
    <3>. QED
      BY <1>4, <3>3, <3>4, <3>7, <3>8 DEF T1Line
  <2>. QED
    BY <2>3, <2>4
<1>11. touched' # {}
  BY <1>3
<1>. QED
  BY <1>6, <1>7, <1>9, <1>10, <1>11 DEF T1Lines

\* The end of T1 is logged when there is nothing left to do.
LEMMA T1Sets ==
  ASSUME IInv, T1Lines, pc = "test", pc' = "test", test = "map", test' = test, plan # <<>>, OnTrack,
         NEW x, Sets(x)
  PROVE  T1Lines'
<1>. TypeRun /\ TypeHold /\ TypeData /\ Progress
  BY DEF IInv, TypeOK
<1>1. At \in 1..Len(Full) /\ Len(Full) \in Nat
  BY Present
<1>. PICK k, n : k = At /\ n = Len(T1Steps)
  OBVIOUS
<1>2. n \in Nat /\ Len(Full) = 3 + 2 * n /\ k \in Nat
  BY <1>1, T1Positions, Numbers
<1>3. /\ Full[k][1] = "mark" /\ x = Full[k][2] /\ Log(<<x>>) /\ NextStep(now)
      /\ UNCHANGED <<abort, touched, coll, samples>>
  BY DEF Sets
<1>4. k = Len(Full) /\ x = T1Complete
  BY <1>1, <1>3, T1Positions
<1>5. At' = k + 1 /\ plan' = <<>>
  BY <1>3, <1>4, Forward
<1>6. touched # {}
  <2>1. k > 2
    BY <1>2, <1>4
  <2>. QED
    BY <2>1 DEF T1Lines
<1>7. OnTrack'
  BY <1>3, <1>6 DEF OnTrack
<1>8. x \in Texts /\ <<x>> \in Seq(Texts) /\ 1 \in DOMAIN <<x>> /\ <<x>>[1] = x
  BY <1>4, NamesAreTyped
<1>9. HasEvent(T1Complete)'
  BY <1>3, <1>4, <1>8, EventsKept, Zenon
<1>10. ASSUME NEW i \in DOMAIN T1Steps
       PROVE  T1Line(i)'
  <2>. PICK q : q = WriteLines(T1Steps[i])
    OBVIOUS
  <2>1. T1Line(i) /\ i \in Nat \ {0} /\ i <= n
    BY Numbers DEF T1Lines
  <2>2. WriteLines(T1Steps[i])' = q
    <3>1. x # WriteOf(T1Steps[i])
      BY <1>4, OtherTexts, Zenon
    <3>2. Lines({WriteOf(T1Steps[i])})' = Lines({WriteOf(T1Steps[i])})
      BY <1>3, <1>8, <3>1, LineAdded
    <3>. QED
      BY <3>2 DEF WriteLines
  <2>3. TimedFrom(StepPhase(i), q[1].ts) => TimedFrom(StepPhase(i), q[1].ts)'
    BY <1>3, TimesKept
  <2>4. 1 + 2 * i # k
    BY <1>2, <1>4, <2>1
  <2>. QED
    BY <1>2, <1>5, <2>1, <2>2, <2>3, <2>4, T1LineKept
<1>. QED
  BY <1>5, <1>6, <1>3, <1>7, <1>9, <1>10 DEF T1Lines

\* The lines of T1 through every step of a run.
LEMMA T1LinesStep ==
  ASSUME IInv, Mirror, Quiet, T1Lines, [Next]_vars
  PROVE  T1Lines'
<1>. TypeRun /\ TypeHold /\ TypeData
  BY DEF IInv, TypeOK
<1>1. CASE ~(pc' = "test" /\ test' = "map")
  BY <1>1 DEF T1Lines
<1>2. CASE pc' = "test" /\ test' = "map" /\ pc # "test"
  BY <1>2, Entered, T1Enters
<1>3. CASE pc' = "test" /\ test' = "map" /\ pc = "test"
  <2>1. test' = test /\ test = "map"
    BY <1>3, InTest
  <2>2. CASE Rests
    <3>1. UNCHANGED <<plan, t0, abort, touched, coll, aKnown, samples, events>>
      BY <2>2 DEF Rests
    <3>2. At' = At /\ OnTrack' = OnTrack
      BY <1>3, <2>1, <3>1, InPlace DEF OnTrack
    <3>3. /\ HasEvent(T1Complete)' = HasEvent(T1Complete)
          /\ \A d : WriteLines(d)' = WriteLines(d)
      BY <3>1 DEF HasEvent, WriteLines, Lines
    <3>4. ASSUME NEW i \in DOMAIN T1Steps
          PROVE  T1Line(i)' = T1Line(i)
      <4>1. Got(StepPhase(i))' = Got(StepPhase(i)) /\ Rows(StepPhase(i))' = Rows(StepPhase(i))
        BY <3>1 DEF Got, Rows
      <4>. QED
        BY <3>1, <3>2, <3>3, <4>1 DEF T1Line, TimedFrom
    <3>. QED
      BY <1>3, <2>1, <3>1, <3>2, <3>3, <3>4 DEF T1Lines
  <2>3. CASE plan # <<>> /\ OnTrack /\ Works
    <3>1. ASSUME NEW p, NEW O, SampleGoes(p, O)
          PROVE  T1Lines'
      BY <1>3, <2>1, <2>3, <3>1, T1Sample
    <3>2. ASSUME NEW p, NEW O, SampleBreaks(p, O)
          PROVE  T1Lines'
      <4>1. Aborts /\ Breaks
        BY <3>2 DEF SampleBreaks
      <4>. QED
        BY <1>3, <2>1, <2>3, <4>1, AbortIsQuiet, T1Breaks
    <3>3. ASSUME NEW p, HoldBreaks(p)
          PROVE  T1Lines'
      <4>1. Aborts /\ Breaks
        BY <3>3 DEF HoldBreaks
      <4>. QED
        BY <1>3, <2>1, <2>3, <4>1, AbortIsQuiet, T1Breaks
    <3>4. ASSUME NEW x, Sends(x)
          PROVE  T1Lines'
      BY <1>3, <2>1, <2>3, <3>4, T1Sends
    <3>5. ASSUME NEW x, Sets(x)
          PROVE  T1Lines'
      BY <1>3, <2>1, <2>3, <3>5, T1Sets
    <3>6. ASSUME Fails
          PROVE  T1Lines'
      <4>1. Quietly /\ Breaks
        BY <3>6 DEF Fails
      <4>. QED
        BY <1>3, <2>1, <2>3, <4>1, T1Breaks
    <3>7. ~Finds /\ ~FindsNone
      <4>1. At \in 1..Len(Full)
        BY <2>3, Present DEF IInv
      <4>2. ~DeterminesA(At)
        BY <2>1, <4>1, FullIs
      <4>. QED
        BY <4>2 DEF Finds, FindsNone
    <3>. QED
      BY <2>3, <3>1, <3>2, <3>3, <3>4, <3>5, <3>6, <3>7, Zenon DEF Works
  <2>. QED
    BY <1>3, <2>2, <2>3, InTest
<1>. QED
  BY <1>1, <1>2, <1>3

-----------------------------------------------------------------------------
(* T2: the value A.                                                        *)

\* Where a hold of T2 can be.
LEMMA T2Hold ==
  ASSUME test # "map", NEW k \in 1..Len(Full), Full[k][1] = "hold"
  PROVE  /\ k \in Nat /\ k > 1 /\ k # 3 /\ k # Len(Full)
         /\ Full[k][2][1] = "log" =>
              k > 3 /\ \E i \in DOMAIN SubRuns : k = 6 * i + 3 /\ Full[k][2] = LogPhase(i)
         /\ Full[k][2][1] # "log" => k = 2 \/ \E i \in DOMAIN SubRuns : k = 6 * i
<1>1. Repeat \in Nat \ {0} /\ \A i \in DOMAIN SubRuns : i \in Nat \ {0}
  <2>1. Repeat \in Nat \ {0}
    BY Numbers
  <2>2. DOMAIN SubRuns = 1..2 * Repeat
    BY SubRunsAre
  <2>. QED
    BY <2>1, <2>2
<1>2. Len(Full) = 4 + 6 * (2 * Repeat)
  BY T2Positions
<1>3. \/ k = 2 /\ Full[k][2] = A
      \/ \E i \in DOMAIN SubRuns : k = 6 * i /\ Full[k][2] = HoldPhase(i)
      \/ \E i \in DOMAIN SubRuns : k = 6 * i + 3 /\ Full[k][2] = LogPhase(i)
  BY T2Positions
<1>4. A[1] # "log" /\ (\A i : HoldPhase(i)[1] # "log") /\ \A i : LogPhase(i)[1] = "log"
  BY DEF A, HoldPhase, LogPhase, Phase
<1>5. k \in Nat
  OBVIOUS
<1>6. CASE k = 2 /\ Full[k][2] = A
  BY <1>1, <1>2, <1>4, <1>6
<1>7. ASSUME NEW i \in DOMAIN SubRuns, k = 6 * i, Full[k][2] = HoldPhase(i)
      PROVE  k > 1 /\ k # 3 /\ k # Len(Full) /\ Full[k][2][1] # "log"
  BY <1>1, <1>2, <1>4, <1>7
<1>8. ASSUME NEW i \in DOMAIN SubRuns, k = 6 * i + 3, Full[k][2] = LogPhase(i)
      PROVE  k > 3 /\ k # Len(Full) /\ Full[k][2][1] = "log"
  BY <1>1, <1>2, <1>4, <1>8
<1>. QED
  BY <1>3, <1>5, <1>6, <1>7, <1>8

\* A value that was read stays read.
LEMMA ValueStays ==
  ASSUME TypeRun, TypeHold, TypeData, NEW p, NEW O, Takes(p, O)
  PROVE  /\ HasValue => HasValue'
         /\ p # A => Got(A)' = Got(A)
<1>1. p \in Phases /\ O \in Readouts /\ Sampled(p, t0 + slot, O)
  BY DEF Takes
<1>. DEFINE c == [t |-> slot, odd |-> O]
<1>2. Got(p)' = Append(Got(p), c) /\ \A r : r # p => Got(r)' = Got(r)
  BY <1>1, HoldAdds
<1>3. c \in Points
  BY <1>1 DEF Points, TypeHold
<1>. HIDE DEF c
<1>4. CASE p # A
  BY <1>2, <1>4 DEF HasValue
<1>5. CASE p = A
  <2>1. ASSUME NEW k \in DOMAIN Got(A), Readable(Got(A)[k])
        PROVE  HasValue'
    <3>. PICK g : g = Got(A)
      OBVIOUS
    <3>1. g \in Seq(Points)
      BY ReadTypes
    <3>2. k \in DOMAIN Append(g, c) /\ Append(g, c)[k] = g[k]
      BY <1>3, <2>1, <3>1, OneMore
    <3>3. Got(A)' = Append(g, c)
      BY <1>2, <1>5
    <3>4. Readable(g[k])
      BY <2>1
    <3>. QED
      BY <3>2, <3>3, <3>4 DEF HasValue, Readable
  <2>. QED
    BY <1>5, <2>1 DEF HasValue
<1>. QED
  BY <1>4, <1>5

\* A test of T2 begins with neither samples of A nor marks.
LEMMA T2Begins ==
  ASSUME IInv, Quiet, NEW g6 \in {"PASS", "PARTIAL", "FAIL"}, Decide(g6), test' # "map"
  PROVE  /\ touched' = {} /\ ~aKnown' /\ Got(A)' = <<>> /\ AutoLines' = <<>> /\ subs' = <<>>
         /\ plan' # <<>> => At' = 1
         /\ OnTrack' => plan' # <<>>
<1>. TypeRun /\ TypeHold /\ TypeData /\ Before /\ AtGates
  BY DEF IInv, TypeOK
<1>1. pc = "gates" /\ pc' = "test" /\ UNCHANGED <<test, touched, events, aKnown, coll, subs>>
  BY DecidedBefore DEF Decide, request
<1>2. /\ touched = {} /\ ~aKnown /\ subs = <<>> /\ DOMAIN coll \subseteq {Boot, Gate}
      /\ \A i \in DOMAIN events : events[i].e = Plain("ABORT")
  BY <1>1 DEF Before, Quiet
<1>3. Got(A)' = <<>>
  <2>1. A \notin {Boot, Gate}
    BY DEF A, Boot, Gate, Phase
  <2>. QED
    BY <1>1, <1>2, <2>1 DEF Got
<1>4. AutoLines' = <<>>
  <2>1. Plain("ABORT")[1] = "ABORT" /\ "ABORT" \in Ordinary
    BY TextNames DEF Ordinary
  <2>2. Plain("ABORT") \notin Marks
    BY <2>1, OtherTexts
  <2>3. Lines(Marks) = <<>>
    BY <1>2, <2>2, NoLines
  <2>. QED
    BY <1>1, <2>3 DEF AutoLines, Lines
<1>5. plan' # <<>> => At' = 1
  <2>1. SUFFICES ASSUME plan' # <<>>
                 PROVE  At' = 1
    OBVIOUS
  <2>2. plan' = Full /\ Full' = Full
    BY <1>1, <2>1, GatesPassed, SamePlan
  <2>3. Len(Full) \in Nat
    BY FullIs
  <2>4. At' = Len(Full) - Len(Full) + 1
    BY <2>2 DEF At
  <2>. QED
    BY <2>3, <2>4
<1>6. OnTrack' => plan' # <<>>
  BY <1>1, <1>2 DEF OnTrack
<1>. QED
  BY <1>1, <1>2, <1>3, <1>4, <1>5, <1>6

\* A test of T2 begins with no value A.
LEMMA T2ValueEnters ==
  ASSUME IInv, Quiet, NEW g6 \in {"PASS", "PARTIAL", "FAIL"}, Decide(g6), test' # "map"
  PROVE  T2Value'
<1>1. /\ touched' = {} /\ ~aKnown' /\ Got(A)' = <<>> /\ AutoLines' = <<>> /\ subs' = <<>>
      /\ OnTrack' => At' = 1
  BY T2Begins
<1>2. ~HasValue'
  BY <1>1 DEF HasValue
<1>. PICK j : j = At'
  OBVIOUS
<1>3. OnTrack' => ~(j > 1) /\ ~(j > 3)
  BY <1>1
<1>. QED
  BY <1>1, <1>2, <1>3, Zenon DEF T2Value

\* No order to the EC is a mark.
LEMMA OrderIsNoMark ==
  ASSUME TypeHold, TypeData, test # "map", At \in 1..Len(Full), NEW x, Sends(x)
  PROVE  AutoLines' = AutoLines
<1>. PICK k \in 1..Len(Full) : k = At
  OBVIOUS
<1>1. /\ Full[k][1] \in Orders /\ Log(<<x>>)
      /\ x = (IF Full[k][1] = "write" THEN Full[k][2] ELSE Plain(Full[k][1]))
  BY DEF Sends, Orders
<1>2. x \in Texts /\ x[1] \in Ordinary
  <2>1. CASE Full[k][1] = "write"
    <3>1. x \in Texts /\ x[1] = "write"
      BY <1>1, <2>1, StepText, T2Positions
    <3>. QED
      BY <3>1 DEF Ordinary
  <2>2. CASE Full[k][1] # "write"
    BY <1>1, <2>2, StepText DEF Orders
  <2>. QED
    BY <2>1, <2>2
<1>3. x \notin Marks
  BY <1>2, OtherTexts, Zenon
<1>. QED
  BY <1>1, <1>2, <1>3, LineAdded DEF AutoLines

\* The value A through a step of a test.
LEMMA T2ValueWorks ==
  ASSUME IInv, T2Value, pc = "test", pc' = "test", test # "map", test' = test, plan # <<>>, OnTrack, Works
  PROVE  T2Value'
<1>. TypeRun /\ TypeHold /\ TypeData /\ Progress
  BY DEF IInv, TypeOK
<1>. PICK k : k = At
  OBVIOUS
<1>1. k \in 1..Len(Full) /\ Len(Full) \in Nat /\ k \in Nat /\ k >= 1
  BY Present
<1>2. /\ touched = {} => Got(A) = <<>>
      /\ k > 1 => touched # {}
      /\ k > 3 => aKnown
      /\ aKnown => HasValue
      /\ ~aKnown => AutoLines = <<>> /\ subs = <<>>
  BY DEF T2Value
<1>3. DeterminesA(k) => k = 3
  BY <1>1, T2Positions
<1>. PICK j : j = At'
  OBVIOUS
<1>4. ASSUME NEW t, NextStep(t)
      PROVE  j = k + 1 /\ (plan' = <<>> <=> k = Len(Full))
  BY <1>4, Forward
<1>5. ASSUME NEW p, NEW O, SampleGoes(p, O)
      PROVE  T2Value'
  <2>1. Takes(p, O) /\ Full[k][1] = "hold" /\ Full[k][2] = p /\ UNCHANGED <<abort, events, touched, aKnown>>
    BY <1>5 DEF SampleGoes, Takes
  <2>2. /\ k > 1 /\ k # 3 /\ k # Len(Full)
        /\ p[1] = "log" => k > 3
    BY <1>1, <2>1, T2Hold
  <2>3. touched' # {}
    BY <1>2, <2>1, <2>2
  <2>4. plan' # <<>> /\ (j = k \/ j = k + 1)
    <3>1. CASE plan' = plan
      BY <3>1, InPlace
    <3>2. CASE NextStep(t0 + slot)
      BY <1>4, <2>2, <3>2
    <3>. QED
      BY <1>5, <3>1, <3>2 DEF SampleGoes
  <2>5. j > 3 => aKnown'
    BY <1>1, <1>2, <2>1, <2>2, <2>4
  <2>6. aKnown' => HasValue'
    BY <1>2, <2>1, ValueStays
  <2>7. ~aKnown' => AutoLines' = <<>> /\ subs' = <<>>
    <3>1. AutoLines' = AutoLines
      BY <2>1 DEF AutoLines, Lines
    <3>2. subs' = subs \/ p[1] = "log"
      BY <1>5 DEF SampleGoes, LogEnds
    <3>. QED
      BY <1>2, <2>1, <2>2, <3>1, <3>2
  <2>. QED
    BY <2>3, <2>4, <2>5, <2>6, <2>7 DEF T2Value
<1>6. ASSUME Quietly, Breaks, touched' = {} => touched = {} /\ Got(A)' = Got(A),
             aKnown' = aKnown, HasValue => HasValue', subs' = subs \/ k > 3
      PROVE  T2Value'
  <2>1. ~OnTrack' /\ abort' # ""
    BY <1>6 DEF OnTrack, Breaks
  <2>2. AutoLines' = AutoLines
    BY <1>6, QuietLines
  <2>3. ~aKnown' => AutoLines' = <<>> /\ subs' = <<>>
    BY <1>2, <1>6, <2>2
  <2>4. touched' = {} => Got(A)' = <<>>
    BY <1>2, <1>6
  <2>5. aKnown' => HasValue'
    BY <1>2, <1>6
  <2>. QED
    BY <2>1, <2>3, <2>4, <2>5 DEF T2Value
<1>7. ASSUME NEW p, NEW O, SampleBreaks(p, O)
      PROVE  T2Value'
  <2>1. /\ Takes(p, O) /\ Full[k][1] = "hold" /\ Full[k][2] = p /\ Aborts /\ Breaks /\ LogEnds(p)
        /\ UNCHANGED <<touched, aKnown>>
    BY <1>7 DEF SampleBreaks, Takes
  <2>2. k > 1 /\ (p[1] = "log" => k > 3)
    BY <1>1, <2>1, T2Hold
  <2>3. touched' # {}
    BY <1>2, <2>1, <2>2
  <2>4. subs' = subs \/ k > 3
    BY <2>1, <2>2 DEF LogEnds
  <2>. QED
    BY <1>6, <2>1, <2>3, <2>4, AbortIsQuiet, ValueStays
<1>8. ASSUME NEW p, HoldBreaks(p)
      PROVE  T2Value'
  <2>1. /\ Full[k][1] = "hold" /\ Full[k][2] = p /\ Aborts /\ Breaks /\ LogEnds(p)
        /\ UNCHANGED <<touched, aKnown, coll>>
    BY <1>8 DEF HoldBreaks
  <2>2. p[1] = "log" => k > 3
    BY <1>1, <2>1, T2Hold
  <2>3. subs' = subs \/ k > 3
    BY <2>1, <2>2 DEF LogEnds
  <2>4. Got(A)' = Got(A) /\ HasValue' = HasValue
    BY <2>1 DEF Got, HasValue
  <2>. QED
    BY <1>6, <2>1, <2>3, <2>4, AbortIsQuiet
<1>9. ASSUME Fails
      PROVE  T2Value'
  <2>1. Quietly /\ Breaks /\ touched' \in {touched, {ch}} /\ UNCHANGED <<aKnown, coll, subs>>
    BY <1>9 DEF Fails
  <2>2. Got(A)' = Got(A) /\ HasValue' = HasValue
    BY <2>1 DEF Got, HasValue
  <2>. QED
    BY <1>6, <2>1, <2>2
<1>10. ASSUME NEW x, Sends(x)
       PROVE  T2Value'
  <2>1. /\ Full[k][1] \in Orders /\ Log(<<x>>) /\ NextStep(now) /\ touched' = {ch}
        /\ x = (IF Full[k][1] = "write" THEN Full[k][2] ELSE Plain(Full[k][1]))
        /\ UNCHANGED <<abort, aKnown, coll, subs>>
    BY <1>10 DEF Sends, Orders
  <2>3. AutoLines' = AutoLines
    BY <1>1, <1>10, OrderIsNoMark
  <2>4. k # 3 /\ k # Len(Full)
    <3>1. DeterminesA(3) /\ Full[Len(Full)][1] = "mark"
      BY T2Ends, Zenon DEF DeterminesA, Full
    <3>2. "value A" \notin Orders /\ "mark" \notin Orders
      BY Zenon DEF Orders
    <3>. QED
      BY <2>1, <3>1, <3>2, Zenon DEF DeterminesA
  <2>5. plan' # <<>> /\ j = k + 1
    BY <1>4, <2>1, <2>4
  <2>6. j > 3 => aKnown'
    BY <1>1, <1>2, <2>1, <2>4, <2>5
  <2>7. Got(A)' = Got(A) /\ HasValue' = HasValue /\ touched' # {}
    BY <2>1 DEF Got, HasValue
  <2>. QED
    BY <1>2, <2>1, <2>3, <2>5, <2>6, <2>7 DEF T2Value
<1>11. ASSUME NEW x, Sets(x)
       PROVE  T2Value'
  <2>1. /\ Full[k][1] = "mark" /\ NextStep(now) /\ UNCHANGED <<abort, touched, aKnown, coll, subs>>
    BY <1>11 DEF Sets
  <2>2. k > 3
    <3>1. Repeat \in Nat \ {0} /\ Len(Full) = 4 + 6 * (2 * Repeat)
      BY Numbers, T2Positions
    <3>2. k = Len(Full) \/ \E i \in DOMAIN SubRuns : k = 6 * i + 2
      BY <1>1, <2>1, T2Positions
    <3>3. \A i \in DOMAIN SubRuns : i \in Nat \ {0}
      BY SubRunsAre, Numbers
    <3>. QED
      BY <3>1, <3>2, <3>3
  <2>3. touched' # {} /\ aKnown'
    BY <1>1, <1>2, <2>1, <2>2
  <2>4. HasValue' = HasValue
    BY <2>1 DEF Got, HasValue
  <2>. QED
    BY <1>2, <2>1, <2>3, <2>4 DEF T2Value
<1>12. ASSUME Finds
       PROVE  T2Value'
  <2>1. /\ DeterminesA(k) /\ HasValue /\ aKnown' = TRUE /\ UNCHANGED <<touched, coll>>
    BY <1>12, Zenon DEF Finds
  <2>2. touched' # {}
    BY <1>2, <1>3, <2>1
  <2>3. HasValue' = HasValue
    BY <2>1 DEF Got, HasValue
  <2>. QED
    BY <2>1, <2>2, <2>3 DEF T2Value
<1>13. ASSUME FindsNone
       PROVE  T2Value'
  <2>1. /\ DeterminesA(k) /\ ~HasValue /\ plan' = <<>>
        /\ UNCHANGED <<aKnown, touched, coll, subs, events>>
    BY <1>13, Zenon DEF FindsNone
  <2>2. ~aKnown
    <3>1. Along
      BY DEF Progress
    <3>. QED
      BY <1>1, <2>1, <3>1 DEF Along
  <2>3. ~OnTrack'
    BY <2>1, <2>2 DEF OnTrack
  <2>4. HasValue' = HasValue /\ Got(A)' = Got(A)
    BY <2>1 DEF Got, HasValue
  <2>5. AutoLines' = AutoLines
    BY <2>1 DEF AutoLines, Lines
  <2>. QED
    BY <1>2, <2>1, <2>2, <2>3, <2>4, <2>5 DEF T2Value
<1>. QED
  BY <1>5, <1>7, <1>8, <1>9, <1>10, <1>11, <1>12, <1>13, Zenon DEF Works

\* The value A through every step of a run.
LEMMA T2ValueStep ==
  ASSUME IInv, Quiet, T2Value, [Next]_vars
  PROVE  T2Value'
<1>1. CASE ~(pc' = "test" /\ test' # "map")
  BY <1>1 DEF T2Value
<1>2. CASE pc' = "test" /\ test' # "map" /\ pc # "test"
  BY <1>2, Entered, T2ValueEnters
<1>3. CASE pc' = "test" /\ test' # "map" /\ pc = "test"
  <2>1. test' = test /\ test # "map"
    BY <1>3, InTest
  <2>2. CASE Rests
    <3>1. UNCHANGED <<plan, abort, touched, coll, subs, aKnown, events>>
      BY <2>2 DEF Rests
    <3>2. At' = At /\ OnTrack' = OnTrack
      BY <1>3, <2>1, <3>1, InPlace DEF OnTrack
    <3>3. HasValue' = HasValue /\ Got(A)' = Got(A) /\ AutoLines' = AutoLines
      BY <3>1 DEF HasValue, Got, AutoLines, Lines
    <3>. QED
      BY <1>3, <2>1, <3>1, <3>2, <3>3 DEF T2Value
  <2>3. CASE plan # <<>> /\ OnTrack /\ Works
    BY <1>3, <2>1, <2>3, T2ValueWorks
  <2>. QED
    BY <1>3, <2>2, <2>3, InTest
<1>. QED
  BY <1>1, <1>2, <1>3

-----------------------------------------------------------------------------
(* T2: the sub-runs.                                                       *)

\* The mark of a sub-run, from which the samples of its log have their times.
MarkIs(q, i) ==
  /\ i \in DOMAIN SubRuns /\ q[i].e = AutoOf(SubRuns[i][1], SubRuns[i][2])
  /\ TimedFrom(LogPhase(i), q[i].ts)

\* The sub-runs of a list are the first ones.
InOrderOf(s) == \A i \in 1..Len(s) : i \in DOMAIN SubRuns /\ s[i] = SubRuns[i]

\* What there is of the sub-runs, in numbers.
LEMMA T2LinesAre ==
  ASSUME pc = "test", test # "map", NEW q, AutoLines = q, NEW s, subs = s
  PROVE  T2Lines <=>
           /\ InOrderOf(s) /\ \A i \in 1..Len(q) : MarkIs(q, i)
           /\ ~OnTrack => Len(q) = Len(s)
           /\ OnTrack => /\ Within(Len(q), Len(s), At)
                         /\ Len(q) > 0 /\ At = 6 * Len(q) + 3 => q[Len(q)].ts = t0
<1>1. \A i : MarkLine(i) <=> MarkIs(q, i)
  BY DEF MarkLine, MarkIs
<1>. QED
  BY <1>1 DEF T2Lines, InOrderOf

\* The same after a step.
LEMMA T2LinesNext ==
  ASSUME pc' = "test", test' # "map", NEW q, AutoLines' = q, NEW s, subs' = s,
         NEW m, m = Len(q), NEW n, n = Len(s), NEW j, At' = j,
         InOrderOf(s), \A i \in 1..m : MarkIs(q, i)',
         ~OnTrack' => m = n,
         OnTrack' => Within(m, n, j) /\ (m > 0 /\ j = 6 * m + 3 => q[m].ts = t0')
  PROVE  T2Lines'
<1>1. \A i : MarkLine(i)' <=> MarkIs(q, i)'
  BY DEF MarkLine, MarkIs
<1>2. \A i \in 1..m : MarkLine(i)'
  BY <1>1
<1>3. \A i \in 1..n : i \in DOMAIN SubRuns /\ s[i] = SubRuns[i]
  BY DEF InOrderOf
<1>. QED
  BY <1>2, <1>3 DEF T2Lines

\* The types of the lines and the sub-runs.
LEMMA FileTypes ==
  ASSUME TypeData
  PROVE  AutoLines \in Seq(Events) /\ subs \in Seq(Nat \X Whats)
<1>1. AutoLines \in Seq(Events)
  BY ReadTypes, Zenon DEF AutoLines
<1>2. subs \in Seq(Nat \X Whats)
  BY DEF TypeData
<1>. QED
  BY <1>1, <1>2

\* The phases of a sub-run.
LEMMA SubPhases ==
  ASSUME NEW i \in DOMAIN SubRuns
  PROVE  LogPhase(i) \in Phases /\ HoldPhase(i) \in Phases /\ SubRuns[i] \in Nat \X Whats
<1>1. SubRuns[i] \in (1..Repeat) \X {"H", "M"} /\ Repeat \in Nat
  BY SubRunsAre, Numbers
<1>2. SubRuns[i][1] \in Nat /\ SubRuns[i][2] \in {"H", "M"}
  BY <1>1
<1>4. SubRuns[i] \in Nat \X Whats
  <2>1. {"H", "M"} \subseteq Whats
    BY Zenon DEF Whats
  <2>. QED
    BY <1>1, <2>1
<1>3. "log" \in {"hold", "log"} /\ "hold" \in {"hold", "log"}
  OBVIOUS
<1>. QED
  BY <1>2, <1>3, <1>4, NamesAreTyped, Zenon DEF LogPhase, HoldPhase

\* A test of T2 begins without a sub-run.
LEMMA T2LinesEnters ==
  ASSUME IInv, Quiet, NEW g6 \in {"PASS", "PARTIAL", "FAIL"}, Decide(g6), pc' = "test", test' # "map"
  PROVE  T2Lines'
<1>1. AutoLines' = <<>> /\ subs' = <<>> /\ (OnTrack' => At' = 1)
  BY T2Begins
<1>2. Len(<<>>) = 0 /\ Within(0, 0, 1)
  BY DEF Within
<1>3. InOrderOf(<<>>) /\ \A i \in 1..0 : MarkIs(<<>>, i)'
  BY <1>2 DEF InOrderOf
<1>. PICK j : j = At'
  OBVIOUS
<1>4. OnTrack' => Within(0, 0, j) /\ (0 > 0 /\ j = 6 * 0 + 3 => <<>>[0].ts = t0')
  BY <1>1, <1>2
<1>. QED
  BY <1>1, <1>2, <1>3, <1>4, T2LinesNext

\* The times of the logs of the sub-runs so far, with a sample more.
LEMMA LogTimes ==
  ASSUME IInv, Mirror, T2Lines, pc = "test", test # "map", plan # <<>>, OnTrack,
         NEW p, NEW O, Takes(p, O), NEW q, AutoLines = q
  PROVE  \A i \in 1..Len(q) : MarkIs(q, i)'
<1>. TypeRun /\ TypeHold /\ TypeData /\ Progress
  BY DEF IInv, TypeOK
<1>. PICK k : k = At
  OBVIOUS
<1>1. k \in 1..Len(Full) /\ k \in Nat
  BY Present
<1>. PICK s : s = subs
  OBVIOUS
<1>2. /\ \A i \in 1..Len(q) : MarkIs(q, i)
      /\ Within(Len(q), Len(s), k) /\ (Len(q) > 0 /\ k = 6 * Len(q) + 3 => q[Len(q)].ts = t0)
  BY T2LinesAre
<1>3. q \in Seq(Events) /\ s \in Seq(Nat \X Whats)
  BY FileTypes
<1>4. TAKE i \in 1..Len(q)
<1>5. MarkIs(q, i)
  BY <1>2
<1>6. i \in DOMAIN SubRuns /\ TimedFrom(LogPhase(i), q[i].ts)
  BY <1>5 DEF MarkIs
<1>7. LogPhase(i) \in Phases
  BY <1>6, SubPhases
<1>8. LogPhase(i) = p => q[i].ts = t0
  <2>1. SUFFICES ASSUME LogPhase(i) = p
                 PROVE  q[i].ts = t0
    OBVIOUS
  <2>2. Full[k][1] = "hold" /\ Full[k][2] = p
    BY DEF Takes
  <2>3. i \in Nat \ {0} /\ 6 * i + 3 \in 1..Len(Full) /\ Full[6 * i + 3][1] = "hold" /\ Full[6 * i + 3][2] = LogPhase(i)
    <3>1. Len(Full) \in Nat
      BY FullIs
    <3>. QED
      BY <1>6, <3>1, SubPositions
  <2>4. k = 6 * i + 3
    BY <1>1, <2>1, <2>2, <2>3, FullIs
  <2>5. Len(q) \in Nat /\ Len(s) \in Nat
    BY <1>3
  <2>6. Len(q) = i
    BY <1>1, <1>2, <2>3, <2>4, <2>5, WithinIs
  <2>. QED
    BY <1>2, <2>3, <2>4, <2>6
<1>9. TimedFrom(LogPhase(i), q[i].ts)'
  <2>. PICK f : f = q[i].ts
    OBVIOUS
  <2>1. TimedFrom(LogPhase(i), f)'
    BY <1>6, <1>7, <1>8, TimesAdded
  <2>. QED
    BY <2>1
<1>. QED
  BY <1>5, <1>9 DEF MarkIs

\* The marks of the sub-runs so far, when no sample was taken.
LEMMA LogTimesKept ==
  ASSUME UNCHANGED <<coll, samples>>, NEW q, NEW m, \A i \in 1..m : MarkIs(q, i)
  PROVE  \A i \in 1..m : MarkIs(q, i)'
<1>1. TAKE i \in 1..m
<1>2. MarkIs(q, i)
  OBVIOUS
<1>. PICK f : f = q[i].ts
  OBVIOUS
<1>3. TimedFrom(LogPhase(i), f)'
  BY <1>2, TimesKept DEF MarkIs
<1>. QED
  BY <1>2, <1>3 DEF MarkIs

\* At the end of a hold of T2 there are as many evaluated sub-runs as marks.
LEMMA HoldIsOver ==
  ASSUME IInv, T2Lines, pc = "test", test # "map", plan # <<>>, OnTrack,
         NEW p, Full[At][1] = "hold", Full[At][2] = p, LogEnds(p),
         NEW q, AutoLines = q, NEW k, At = k
  PROVE  \E s : /\ subs' = s /\ InOrderOf(s) /\ Len(s) = Len(q)
                /\ Within(Len(q), Len(s), k + 1) /\ ~(Len(q) > 0 /\ k + 1 = 6 * Len(q) + 3)
<1>. TypeRun /\ TypeHold /\ TypeData /\ Progress
  BY DEF IInv, TypeOK
<1>1. k \in 1..Len(Full) /\ k \in Nat
  BY Present
<1>. PICK s : s = subs
  OBVIOUS
<1>2. InOrderOf(s) /\ Within(Len(q), Len(s), k)
  BY T2LinesAre
<1>3. s \in Seq(Nat \X Whats) /\ q \in Seq(Events)
  BY FileTypes
<1>. PICK m, n : m = Len(q) /\ n = Len(s)
  OBVIOUS
<1>4. m \in Nat /\ n \in Nat /\ Within(m, n, k)
  BY <1>2, <1>3
<1>5. CASE p[1] # "log"
  <2>1. k = 2 \/ \E i \in DOMAIN SubRuns : k = 6 * i
    BY <1>1, <1>5, T2Hold
  <2>2. subs' = s
    BY <1>5 DEF LogEnds
  <2>3. m = n /\ Within(m, n, k + 1) /\ ~(m > 0 /\ k + 1 = 6 * m + 3)
    <3>1. CASE k = 2
      BY <1>1, <1>4, <3>1, WithinIs
    <3>2. ASSUME NEW i \in DOMAIN SubRuns, k = 6 * i
          PROVE  m = n /\ Within(m, n, k + 1) /\ ~(m > 0 /\ k + 1 = 6 * m + 3)
      <4>1. i \in Nat \ {0}
        BY <3>2, SubPositions
      <4>. QED
        BY <1>1, <1>4, <3>2, <4>1, WithinIs
    <3>. QED
      BY <2>1, <3>1, <3>2
  <2>. QED
    BY <1>2, <2>2, <2>3
<1>6. CASE p[1] = "log"
  <2>1. PICK i \in DOMAIN SubRuns : k = 6 * i + 3 /\ p = LogPhase(i)
    BY <1>1, <1>6, T2Hold
  <2>2. i \in Nat \ {0}
    BY <2>1, SubPositions
  <2>3. m = i /\ n = i - 1 /\ Within(m, i, k + 1)
    BY <1>1, <1>4, <2>1, <2>2, WithinIs
  <2>4. SubRuns[i] \in (1..Repeat) \X {"H", "M"} /\ Repeat \in Nat
    BY <2>1, SubRunsAre, Numbers
  <2>5. <<p[2], p[3]>> = SubRuns[i]
    BY <2>1, <2>4 DEF LogPhase, Phase
  <2>. PICK x : x = SubRuns[i]
    OBVIOUS
  <2>6. subs' = Append(s, x)
    BY <1>6, <2>5 DEF LogEnds
  <2>7. Len(Append(s, x)) = n + 1 /\ Append(s, x)[n + 1] = x /\ \A l \in 1..n : Append(s, x)[l] = s[l]
    <3>1. x \in Nat \X Whats
      BY <2>1, SubPhases
    <3>2. DOMAIN s = 1..n
      BY <1>3
    <3>. QED
      BY <1>3, <3>1, <3>2, OneMore
  <2>8. InOrderOf(Append(s, x))
    <3>1. SUFFICES ASSUME NEW l \in 1..(n + 1)
                   PROVE  l \in DOMAIN SubRuns /\ Append(s, x)[l] = SubRuns[l]
      BY <2>7 DEF InOrderOf
    <3>2. CASE l = n + 1
      BY <2>1, <2>3, <2>7, <3>2, <2>2
    <3>3. CASE l # n + 1
      <4>1. l \in 1..n
        BY <1>4, <3>3
      <4>. QED
        BY <1>2, <2>7, <4>1 DEF InOrderOf
    <3>. QED
      BY <3>2, <3>3
  <2>9. Len(Append(s, x)) = m /\ ~(m > 0 /\ k + 1 = 6 * m + 3)
    BY <1>4, <2>1, <2>3, <2>7
  <2>. QED
    BY <2>3, <2>6, <2>8, <2>9
<1>. QED
  BY <1>5, <1>6

\* The sub-runs through a step that changes neither the marks nor the files, at a
\* place where every mark has its evaluated sub-run.
LEMMA T2Even ==
  ASSUME pc' = "test", test' # "map", NEW q, AutoLines' = q, NEW s, subs' = s, Len(q) = Len(s),
         InOrderOf(s), \A i \in 1..Len(q) : MarkIs(q, i)', NEW j,
         OnTrack' => At' = j /\ Within(Len(q), Len(s), j) /\ ~(Len(q) > 0 /\ j = 6 * Len(q) + 3)
  PROVE  T2Lines'
<1>. PICK a : a = At'
  OBVIOUS
<1>1. OnTrack' => Within(Len(q), Len(s), a) /\ (Len(q) > 0 /\ a = 6 * Len(q) + 3 => q[Len(q)].ts = t0')
  OBVIOUS
<1>. QED
  BY <1>1, T2LinesNext

\* The mark of the next sub-run.
LEMMA T2Sets ==
  ASSUME IInv, T2Lines, pc = "test", pc' = "test", test # "map", test' = test, plan # <<>>, OnTrack,
         NEW x, Sets(x), NEW i \in DOMAIN SubRuns, At = 6 * i + 2
  PROVE  T2Lines'
<1>. TypeRun /\ TypeHold /\ TypeData /\ Progress
  BY DEF IInv, TypeOK
<1>. PICK k : k = At
  OBVIOUS
<1>1. k \in 1..Len(Full) /\ k \in Nat /\ Len(Full) \in Nat
  BY Present
<1>. PICK q, s : q = AutoLines /\ s = subs
  OBVIOUS
<1>2. /\ InOrderOf(s) /\ (\A l \in 1..Len(q) : MarkIs(q, l)) /\ Within(Len(q), Len(s), k)
  BY T2LinesAre
<1>3. q \in Seq(Events) /\ s \in Seq(Nat \X Whats)
  BY FileTypes
<1>. PICK m, n : m = Len(q) /\ n = Len(s)
  OBVIOUS
<1>4. m \in Nat /\ n \in Nat /\ i \in Nat \ {0}
  BY <1>3, SubPositions
<1>5. m = i - 1 /\ n = i - 1 /\ Within(i, n, k + 1)
  BY <1>1, <1>2, <1>4, WithinIs
<1>6. /\ x = Full[k][2] /\ Full[k][1] = "mark" /\ Log(<<x>>) /\ NextStep(now)
      /\ UNCHANGED <<abort, touched, aKnown, coll, subs, samples>>
  BY DEF Sets
<1>7. /\ x = AutoOf(SubRuns[i][1], SubRuns[i][2]) /\ x \in Marks /\ x \in Texts
  <2>1. x = AutoOf(SubRuns[i][1], SubRuns[i][2])
    BY <1>6, SubPositions
  <2>2. x \in Texts
    BY <1>1, <1>6, StepText
  <2>. QED
    BY <2>1, <2>2 DEF Marks
<1>. PICK z : z = Now(x)
  OBVIOUS
<1>8. z \in Events /\ z.e = x /\ z.ts = now
  BY <1>7 DEF Now, Events, TypeHold
<1>9. AutoLines' = Append(q, z)
  BY <1>6, <1>7, LineAdded DEF AutoLines
<1>10. /\ Len(Append(q, z)) = m + 1 /\ Append(q, z)[m + 1] = z
       /\ \A l \in 1..m : Append(q, z)[l] = q[l]
  <2>1. DOMAIN q = 1..m
    BY <1>3
  <2>. QED
    BY <1>3, <1>8, <2>1, OneMore
<1>11. Got(LogPhase(i)) = <<>>
  <2>1. Along
    BY DEF Progress
  <2>2. 6 * i + 3 \in 1..Len(Full) /\ Full[6 * i + 3][1] = "hold" /\ Full[6 * i + 3][2] = LogPhase(i)
    BY <1>1, <1>4, SubPositions
  <2>3. 6 * i + 3 > k
    BY <1>4
  <2>. QED
    BY <2>1, <2>2, <2>3 DEF Along
<1>12. ASSUME NEW l \in 1..i
       PROVE  MarkIs(Append(q, z), l)'
  <2>. PICK r : r = Append(q, z)
    OBVIOUS
  <2>1. CASE l = i
    <3>1. r[l] = z
      BY <1>4, <1>5, <1>10, <2>1
    <3>2. Got(LogPhase(i))' = <<>>
      BY <1>6, <1>11 DEF Got
    <3>3. TimedFrom(LogPhase(i), now)'
      BY <3>2 DEF TimedFrom
    <3>4. TimedFrom(LogPhase(l), r[l].ts)'
      <4>. PICK f : f = now
        OBVIOUS
      <4>1. TimedFrom(LogPhase(l), f)'
        BY <2>1, <3>2 DEF TimedFrom
      <4>. QED
        BY <1>8, <3>1, <4>1
    <3>. QED
      BY <1>7, <1>8, <2>1, <3>1, <3>4 DEF MarkIs
  <2>2. CASE l # i
    <3>1. l \in 1..m
      BY <1>4, <1>5, <2>2
    <3>2. MarkIs(q, l) /\ r[l] = q[l]
      BY <1>2, <1>10, <3>1
    <3>3. MarkIs(q, l)'
      BY <1>2, <1>6, LogTimesKept, <3>1
    <3>. QED
      BY <3>2, <3>3 DEF MarkIs
  <2>. QED
    BY <2>1, <2>2
<1>13. k # Len(Full)
  <2>1. Repeat \in Nat /\ Len(Full) = 4 + 6 * (2 * Repeat)
    BY Numbers, T2Positions
  <2>. QED
    BY <1>4, <2>1
<1>14. At' = k + 1 /\ plan' # <<>> /\ t0' = now
  BY <1>6, <1>13, Forward
<1>15. OnTrack'
  BY <1>6, <1>14 DEF OnTrack
<1>16. m + 1 = i
  BY <1>4, <1>5
<1>. PICK r : r = Append(q, z)
  OBVIOUS
<1>17. AutoLines' = r /\ Len(r) = i /\ r[i] = z /\ \A l \in 1..i : MarkIs(r, l)'
  BY <1>9, <1>10, <1>12, <1>16
<1>18. r[i].ts = t0'
  BY <1>8, <1>14, <1>17
<1>19. subs' = s
  BY <1>6
<1>. QED
  BY <1>2, <1>5, <1>14, <1>15, <1>17, <1>18, <1>19, T2LinesNext

\* The sub-runs through a step of a test.
LEMMA T2LinesWorks ==
  ASSUME IInv, Mirror, T2Value, T2Lines, pc = "test", pc' = "test", test # "map", test' = test,
         plan # <<>>, OnTrack, Works
  PROVE  T2Lines'
<1>. TypeRun /\ TypeHold /\ TypeData /\ Progress
  BY DEF IInv, TypeOK
<1>. PICK k : k = At
  OBVIOUS
<1>1. k \in 1..Len(Full) /\ k \in Nat
  BY Present
<1>. PICK q, s : q = AutoLines /\ s = subs
  OBVIOUS
<1>2. /\ InOrderOf(s) /\ (\A l \in 1..Len(q) : MarkIs(q, l)) /\ Within(Len(q), Len(s), k)
      /\ Len(q) > 0 /\ k = 6 * Len(q) + 3 => q[Len(q)].ts = t0
  BY T2LinesAre
<1>3. q \in Seq(Events) /\ s \in Seq(Nat \X Whats)
  BY FileTypes
<1>4. Len(q) \in Nat /\ Len(s) \in Nat
  BY <1>3
<1>5. ASSUME NEW t, NextStep(t)
      PROVE  At' = k + 1
  BY <1>5, Forward
<1>6. Full[k][1] \in Orders \/ k = 3 =>
        Len(q) = Len(s) /\ Within(Len(q), Len(s), k + 1) /\ ~(Len(q) > 0 /\ k + 1 = 6 * Len(q) + 3)
  <2>1. CASE k \in {1, 3}
    BY <1>1, <1>2, <1>4, <2>1, WithinIs
  <2>2. ASSUME NEW i \in DOMAIN SubRuns, k \in {6 * i - 2, 6 * i - 1, 6 * i + 1}
        PROVE  Len(q) = Len(s) /\ Within(Len(q), Len(s), k + 1) /\ ~(Len(q) > 0 /\ k + 1 = 6 * Len(q) + 3)
    <3>1. i \in Nat \ {0}
      BY <2>2, SubPositions
    <3>. PICK m, n : m = Len(q) /\ n = Len(s)
      OBVIOUS
    <3>2. m \in Nat /\ n \in Nat /\ k \in Nat /\ Within(m, n, k)
      BY <1>1, <1>2, <1>4
    <3>3. k \in {6 * i - 2, 6 * i - 1, 6 * i, 6 * i + 1}
      BY <2>2
    <3>4. m = i - 1 /\ n = i - 1 /\ Within(m, n, k + 1) /\ ~(m > 0 /\ k + 1 = 6 * m + 3)
      BY <3>1, <3>2, <3>3, WithinWork
    <3>. QED
      BY <3>4
  <2>. QED
    BY <1>1, <2>1, <2>2, T2Positions
<1>7. ASSUME NEW p, NEW O, SampleGoes(p, O)
      PROVE  T2Lines'
  <2>1. Takes(p, O) /\ Full[k][1] = "hold" /\ Full[k][2] = p /\ UNCHANGED <<abort, events>>
    BY <1>7 DEF SampleGoes, Takes
  <2>2. AutoLines' = q /\ \A i \in 1..Len(q) : MarkIs(q, i)'
    BY <2>1, LogTimes DEF AutoLines, Lines
  <2>3. CASE UNCHANGED <<plan, t0, subs>>
    <3>1. At' = k /\ subs' = s /\ t0' = t0
      BY <2>3, InPlace
    <3>2. OnTrack'
      BY <2>1, <2>3 DEF OnTrack
    <3>. QED
      BY <1>2, <2>2, <3>1, <3>2, T2LinesNext
  <2>4. CASE NextStep(t0 + slot) /\ LogEnds(p)
    <3>1. PICK r : /\ subs' = r /\ InOrderOf(r) /\ Len(r) = Len(q)
                   /\ Within(Len(q), Len(r), k + 1) /\ ~(Len(q) > 0 /\ k + 1 = 6 * Len(q) + 3)
      BY <2>1, <2>4, HoldIsOver
    <3>2. At' = k + 1
      BY <1>5, <2>4
    <3>. QED
      BY <2>2, <3>1, <3>2, T2Even
  <2>. QED
    BY <1>7, <2>3, <2>4 DEF SampleGoes
<1>8. ASSUME NEW p, Full[k][1] = "hold", Full[k][2] = p, Aborts, Breaks, LogEnds(p),
             \A i \in 1..Len(q) : MarkIs(q, i)'
      PROVE  T2Lines'
  <2>1. PICK r : subs' = r /\ InOrderOf(r) /\ Len(r) = Len(q)
    BY <1>8, HoldIsOver
  <2>2. AutoLines' = q
    BY <1>8, AbortIsQuiet, QuietLines
  <2>3. ~OnTrack'
    BY <1>8 DEF OnTrack, Breaks
  <2>. QED
    BY <1>8, <2>1, <2>2, <2>3, T2Even
<1>9. ASSUME NEW p, NEW O, SampleBreaks(p, O)
      PROVE  T2Lines'
  <2>1. Takes(p, O) /\ Full[k][1] = "hold" /\ Full[k][2] = p /\ Aborts /\ Breaks /\ LogEnds(p)
    BY <1>9 DEF SampleBreaks, Takes
  <2>2. \A i \in 1..Len(q) : MarkIs(q, i)'
    BY <2>1, LogTimes
  <2>. QED
    BY <1>8, <2>1, <2>2
<1>10. ASSUME NEW p, HoldBreaks(p)
       PROVE  T2Lines'
  <2>1. /\ Full[k][1] = "hold" /\ Full[k][2] = p /\ Aborts /\ Breaks /\ LogEnds(p)
        /\ UNCHANGED <<coll, samples>>
    BY <1>10 DEF HoldBreaks
  <2>2. \A i \in 1..Len(q) : MarkIs(q, i)'
    BY <1>2, <2>1, LogTimesKept
  <2>. QED
    BY <1>8, <2>1, <2>2
<1>11. ASSUME Fails
       PROVE  T2Lines'
  <2>1. Full[k][1] \in Orders /\ Quietly /\ Breaks /\ UNCHANGED <<coll, subs, samples>>
    BY <1>11 DEF Fails, Orders
  <2>2. AutoLines' = q /\ subs' = s /\ ~OnTrack'
    BY <2>1, QuietLines DEF OnTrack, Breaks
  <2>3. \A i \in 1..Len(q) : MarkIs(q, i)'
    BY <1>2, <2>1, LogTimesKept
  <2>. QED
    BY <1>2, <1>6, <2>1, <2>2, <2>3, T2Even
<1>12. ASSUME NEW x, Sends(x)
       PROVE  T2Lines'
  <2>1. Full[k][1] \in Orders /\ NextStep(now) /\ UNCHANGED <<coll, subs, samples>>
    BY <1>12 DEF Sends, Orders
  <2>2. AutoLines' = q /\ subs' = s /\ At' = k + 1
    BY <1>1, <1>5, <1>12, <2>1, OrderIsNoMark
  <2>3. \A i \in 1..Len(q) : MarkIs(q, i)'
    BY <1>2, <2>1, LogTimesKept
  <2>. QED
    BY <1>2, <1>6, <2>1, <2>2, <2>3, T2Even
<1>13. ASSUME NEW x, Sets(x)
       PROVE  T2Lines'
  <2>1. /\ x = Full[k][2] /\ Full[k][1] = "mark" /\ Log(<<x>>) /\ NextStep(now)
        /\ UNCHANGED <<coll, subs, samples>>
    BY <1>13 DEF Sets
  <2>2. \/ k = Len(Full) /\ x = T2Complete
        \/ \E i \in DOMAIN SubRuns : k = 6 * i + 2
    BY <1>1, <2>1, T2Positions
  <2>3. CASE k = Len(Full) /\ x = T2Complete
    <3>1. x \in Texts /\ x \notin Marks
      BY <1>1, <2>1, <2>3, StepText, OtherTexts
    <3>2. AutoLines' = q /\ subs' = s /\ At' = k + 1
      BY <1>5, <2>1, <3>1, LineAdded DEF AutoLines
    <3>3. PICK N \in Nat \ {0} : k = 4 + 6 * N
      <4>1. 2 * Repeat \in Nat \ {0}
        BY Numbers
      <4>2. k = 4 + 6 * (2 * Repeat)
        BY <2>3, T2Positions
      <4>. QED
        BY <4>1, <4>2
    <3>4. /\ Len(q) = Len(s) /\ Within(Len(q), Len(s), k + 1)
          /\ ~(Len(q) > 0 /\ k + 1 = 6 * Len(q) + 3)
      BY <1>1, <1>2, <1>4, <3>3, WithinIs
    <3>5. \A i \in 1..Len(q) : MarkIs(q, i)'
      BY <1>2, <2>1, LogTimesKept
    <3>. QED
      BY <1>2, <3>2, <3>4, <3>5, T2Even
  <2>. QED
    BY <1>13, <2>2, <2>3, T2Sets
<1>14. ASSUME Finds
       PROVE  T2Lines'
  <2>1. DeterminesA(k) /\ NextStep(now) /\ UNCHANGED <<coll, subs, samples, events>>
    <3>1. \E t : NextStep(t)
      BY <1>14 DEF Finds
    <3>. QED
      BY <1>14, Zenon DEF Finds
  <2>2. k = 3
    BY <1>1, <2>1, T2Positions
  <2>3. AutoLines' = q /\ subs' = s /\ At' = k + 1
    BY <1>5, <2>1 DEF AutoLines, Lines
  <2>4. \A i \in 1..Len(q) : MarkIs(q, i)'
    BY <1>2, <2>1, LogTimesKept
  <2>. QED
    BY <1>2, <1>6, <2>2, <2>3, <2>4, T2Even
<1>15. ASSUME FindsNone
       PROVE  T2Lines'
  <2>1. DeterminesA(k) /\ plan' = <<>> /\ UNCHANGED <<aKnown, coll, subs, samples, events>>
    BY <1>15, Zenon DEF FindsNone
  <2>2. k = 3
    BY <1>1, <2>1, T2Positions
  <2>3. AutoLines' = q /\ subs' = s
    BY <2>1 DEF AutoLines, Lines
  <2>4. \A i \in 1..Len(q) : MarkIs(q, i)'
    BY <1>2, <2>1, LogTimesKept
  <2>5. ~aKnown
    <3>1. Along
      BY DEF Progress
    <3>. QED
      BY <1>1, <2>1, <3>1 DEF Along
  <2>6. ~OnTrack'
    BY <2>1, <2>5 DEF OnTrack
  <2>. QED
    BY <1>2, <1>6, <2>2, <2>3, <2>4, <2>6, T2Even
<1>. QED
  BY <1>7, <1>9, <1>10, <1>11, <1>12, <1>13, <1>14, <1>15, Zenon DEF Works

\* The sub-runs through every step of a run.
LEMMA T2LinesStep ==
  ASSUME IInv, Mirror, Quiet, T2Value, T2Lines, [Next]_vars
  PROVE  T2Lines'
<1>1. CASE ~(pc' = "test" /\ test' # "map")
  BY <1>1 DEF T2Lines
<1>2. CASE pc' = "test" /\ test' # "map" /\ pc # "test"
  BY <1>2, Entered, T2LinesEnters
<1>3. CASE pc' = "test" /\ test' # "map" /\ pc = "test"
  <2>1. test' = test /\ test # "map"
    BY <1>3, InTest
  <2>2. CASE Rests
    <3>1. UNCHANGED <<plan, t0, abort, touched, coll, subs, aKnown, samples, events>>
      BY <2>2 DEF Rests
    <3>2. At' = At /\ OnTrack' = OnTrack
      BY <1>3, <2>1, <3>1, InPlace DEF OnTrack
    <3>. PICK q, s : q = AutoLines /\ s = subs
      OBVIOUS
    <3>3. AutoLines' = q /\ subs' = s /\ t0' = t0
      BY <3>1 DEF AutoLines, Lines
    <3>4. /\ InOrderOf(s) /\ (\A i \in 1..Len(q) : MarkIs(q, i))
          /\ ~OnTrack => Len(q) = Len(s)
          /\ OnTrack => /\ Within(Len(q), Len(s), At)
                        /\ Len(q) > 0 /\ At = 6 * Len(q) + 3 => q[Len(q)].ts = t0
      BY <1>3, <2>1, T2LinesAre
    <3>5. \A i \in 1..Len(q) : MarkIs(q, i)'
      BY <3>1, <3>4, LogTimesKept
    <3>. QED
      BY <1>3, <2>1, <3>2, <3>3, <3>4, <3>5, T2LinesNext
  <2>3. CASE plan # <<>> /\ OnTrack /\ Works
    BY <1>3, <2>1, <2>3, T2LinesWorks
  <2>. QED
    BY <1>3, <2>2, <2>3, InTest
<1>. QED
  BY <1>1, <1>2, <1>3

-----------------------------------------------------------------------------
(* What a test found, and what the report makes of the files.              *)

\* The readable ones of some samples.
LEMMA SeriesAre ==
  ASSUME NEW S, NEW q \in Seq(S)
  PROVE  /\ Series(q) \in Seq(S)
         /\ Series(q) = <<>> <=> \A i \in DOMAIN q : ~Readable(q[i])
<1>. DEFINE W == {x \in S : Readable(x)}
<1>1. \A i \in DOMAIN q : q[i] \in S
  OBVIOUS
<1>2. {i \in DOMAIN q : Readable(q[i])} = {i \in DOMAIN q : q[i] \in W}
  BY <1>1
<1>3. Series(q) = Picked(q, W)
  BY <1>2 DEF Series, Picked
<1>4. \A i \in DOMAIN q : q[i] \notin W <=> ~Readable(q[i])
  BY <1>1
<1>. HIDE DEF W
<1>. QED
  BY <1>3, <1>4, PickedAre

\* Samples that mirror others have the same values, the same readable places and
\* the same last readable value.
LEMMA SameValues ==
  ASSUME NEW r \in Seq(Samples), NEW g \in Seq(Points), Len(r) = Len(g),
         \A k \in DOMAIN g : r[k].odd = g[k].odd
  PROVE  /\ Values(r) = Values(g)
         /\ Series(r) = <<>> <=> Series(g) = <<>>
         /\ Series(g) # <<>> => AutoValue(Series(r)) = AutoValue(Series(g))
<1>1. DOMAIN r = DOMAIN g /\ \A k \in DOMAIN g : r[k].odd = g[k].odd
  OBVIOUS
<1>2. Values(r) = Values(g)
  BY <1>1 DEF Values
<1>. DEFINE P == {i \in DOMAIN g : Readable(g[i])}
<1>3. {i \in DOMAIN r : Readable(r[i])} = P
  BY <1>1 DEF Readable
<1>4. Series(r) = Those(r, P) /\ Series(g) = Those(g, P)
  BY <1>3 DEF Series
<1>5. P \in SUBSET (DOMAIN g) /\ P \in SUBSET (DOMAIN r)
  BY <1>1
<1>. HIDE DEF P
<1>6. /\ Cardinality(P) \in Nat
      /\ Those(g, P) \in Seq(Points) /\ Len(Those(g, P)) = Cardinality(P)
      /\ \A k \in 1..Cardinality(P) : Ordered(P)[k] \in P /\ Those(g, P)[k] = g[Ordered(P)[k]]
  BY <1>5, ThoseAre
<1>7. /\ Those(r, P) \in Seq(Samples) /\ Len(Those(r, P)) = Cardinality(P)
      /\ \A k \in 1..Cardinality(P) : Those(r, P)[k] = r[Ordered(P)[k]]
  BY <1>5, ThoseAre
<1>. PICK c : c = Cardinality(P)
  OBVIOUS
<1>8. Those(g, P) = <<>> <=> c = 0
  BY <1>6
<1>9. Those(r, P) = <<>> <=> c = 0
  BY <1>6, <1>7
<1>10. ASSUME c # 0
       PROVE  AutoValue(Those(r, P)) = AutoValue(Those(g, P))
  <2>1. c \in 1..Cardinality(P)
    BY <1>6, <1>10
  <2>2. Last(Those(r, P)) = r[Ordered(P)[c]] /\ Last(Those(g, P)) = g[Ordered(P)[c]]
    BY <1>6, <1>7, <2>1 DEF Last
  <2>3. Ordered(P)[c] \in DOMAIN g
    BY <1>5, <1>6, <2>1
  <2>. QED
    BY <1>1, <2>2, <2>3 DEF AutoValue
<1>. QED
  BY <1>2, <1>4, <1>8, <1>9, <1>10

\* Two sequences, one after the other.
LEMMA JoinedTwo ==
  ASSUME NEW S, NEW a \in Seq(S), NEW b \in Seq(S)
  PROVE  /\ a \o b \in Seq(S) /\ Len(a \o b) = Len(a) + Len(b)
         /\ DOMAIN (a \o b) = 1..(Len(a) + Len(b))
         /\ \A k \in 1..Len(a) : (a \o b)[k] = a[k]
         /\ \A k \in 1..Len(b) : (a \o b)[Len(a) + k] = b[k]
OBVIOUS

\* Samples with the same values.
Alike(r, g) == Len(r) = Len(g) /\ \A k \in DOMAIN g : r[k].odd = g[k].odd

\* One after the other they still have them.
LEMMA SameJoined ==
  ASSUME NEW r \in Seq(Samples), NEW g \in Seq(Points), Alike(r, g),
         NEW v \in Seq(Samples), NEW w \in Seq(Points), Alike(v, w)
  PROVE  Values(r \o v) = Values(g \o w)
<1>0. /\ Len(r) = Len(g) /\ \A k \in DOMAIN g : r[k].odd = g[k].odd
      /\ Len(v) = Len(w) /\ \A k \in DOMAIN w : v[k].odd = w[k].odd
  BY DEF Alike
<1>1. /\ r \o v \in Seq(Samples) /\ Len(r \o v) = Len(r) + Len(v)
      /\ \A k \in 1..Len(r) : (r \o v)[k] = r[k]
      /\ \A k \in 1..Len(v) : (r \o v)[Len(r) + k] = v[k]
  <2>1. \A a, b \in Seq(Samples) :
          /\ a \o b \in Seq(Samples) /\ Len(a \o b) = Len(a) + Len(b)
          /\ \A k \in 1..Len(a) : (a \o b)[k] = a[k]
          /\ \A k \in 1..Len(b) : (a \o b)[Len(a) + k] = b[k]
    BY JoinedTwo
  <2>. QED
    BY <2>1
<1>2. /\ g \o w \in Seq(Points) /\ Len(g \o w) = Len(g) + Len(w)
      /\ DOMAIN (g \o w) = 1..(Len(g) + Len(w))
      /\ \A k \in 1..Len(g) : (g \o w)[k] = g[k]
      /\ \A k \in 1..Len(w) : (g \o w)[Len(g) + k] = w[k]
  BY JoinedTwo
<1>. PICK m, n : m = Len(g) /\ n = Len(w)
  OBVIOUS
<1>3. m \in Nat /\ n \in Nat /\ DOMAIN g = 1..m /\ DOMAIN w = 1..n
  OBVIOUS
<1>4. ASSUME NEW k \in 1..(m + n)
      PROVE  (r \o v)[k].odd = (g \o w)[k].odd
  <2>1. CASE k <= m
    <3>1. k \in 1..m
      BY <1>3, <2>1
    <3>. QED
      BY <1>0, <1>1, <1>2, <1>3, <3>1
  <2>2. CASE k > m
    <3>1. PICK l \in 1..n : k = m + l
      <4>1. k - m \in 1..n /\ k = m + (k - m)
        BY <1>3, <2>2
      <4>. QED
        BY <4>1
    <3>2. (r \o v)[k] = v[l] /\ (g \o w)[k] = w[l]
      BY <1>0, <1>1, <1>2, <3>1
    <3>. QED
      BY <1>0, <1>3, <3>1, <3>2
  <2>3. k <= m \/ k > m
    BY <1>3
  <2>. QED
    BY <2>1, <2>2, <2>3, Zenon
<1>5. Len(r \o v) = Len(g \o w) /\ \A k \in DOMAIN (g \o w) : (r \o v)[k].odd = (g \o w)[k].odd
  BY <1>0, <1>1, <1>2, <1>4
<1>. QED
  BY <1>1, <1>2, <1>5, SameValues

\* With the times of a line of the log the samples of the file are those of the test.
LEMMA SameTimed ==
  ASSUME NEW r \in Seq(Samples), NEW g \in Seq(Points), Len(r) = Len(g),
         \A k \in DOMAIN g : r[k].odd = g[k].odd,
         NEW from, \A k \in DOMAIN g : g[k].t = r[k].ts - from
  PROVE  Timed(r, from) = g
<1>1. DOMAIN r = DOMAIN g /\ DOMAIN g = 1..Len(g)
  OBVIOUS
<1>2. \A k \in DOMAIN g : g[k] \in Points
  OBVIOUS
<1>. DEFINE E(k) == [t |-> r[k].ts - from, odd |-> r[k].odd]
<1>3. ASSUME NEW k \in DOMAIN g
      PROVE  E(k) = g[k]
  <2>1. g[k] = [t |-> g[k].t, odd |-> g[k].odd]
    BY <1>2 DEF Points
  <2>. QED
    BY <2>1
<1>4. Timed(r, from) = [k \in DOMAIN g |-> E(k)]
  BY <1>1 DEF Timed
<1>. HIDE DEF E
<1>5. g = [k \in DOMAIN g |-> g[k]]
  OBVIOUS
<1>. QED
  BY <1>3, <1>4, <1>5

\* Without a sub-run there are no runs.
LEMMA RunsOfNone == RunsOf(<<>>) = <<>>
<1>1. {rep \in 1..Repeat : \E i \in DOMAIN <<>> : <<>>[i].rep = rep} = {}
  OBVIOUS
<1>. QED
  BY <1>1, ThoseNone DEF RunsOf

\* The files and what was collected, by phase.
LEMMA Mirrored ==
  ASSUME TypeData, Mirror, NEW ph \in Phases
  PROVE  /\ Rows(ph) \in Seq(Samples) /\ Got(ph) \in Seq(Points) /\ Len(Rows(ph)) = Len(Got(ph))
         /\ \A k \in DOMAIN Got(ph) : Rows(ph)[k].odd = Got(ph)[k].odd
BY ReadTypes DEF Mirror

\* One sub-run as the report rebuilds it, and as the test evaluates it.
RunOf(e) ==
  LET log == InPhase(Phase("log", e.e[2], e.e[3])) IN
  [rep |-> e.e[2],
   res |-> SubResult(e.e[3], AutoValue(Series(InPhase(A))),
             MarkCrossing(InPhase(A), InPhase(Phase("hold", e.e[2], e.e[3])) \o log), Timed(log, e.ts))]

FoundOf(r) ==
  LET log == Got(Phase("log", r[1], r[2])) IN
  [rep |-> r[1],
   res |-> SubResult(r[2], AutoValue(Series(Got(A))),
             MarkCrossing(Got(A), Got(Phase("hold", r[1], r[2])) \o log), log)]

RunList == [i \in DOMAIN AutoLines |-> RunOf(AutoLines[i])]
FoundList == [i \in DOMAIN subs |-> FoundOf(subs[i])]

TimedStep(i) == Timed(InPhase(StepPhase(i)), WriteTS(T1Steps[i]))

\* The first line of the write of a duty has its time.
LEMMA WriteTime ==
  ASSUME NEW d
  PROVE  WriteTS(d) = WriteLines(d)[1].ts
<1>1. {i \in DOMAIN events : events[i].ts >= 0 /\ events[i].e = WriteOf(d)}
      = {i \in DOMAIN events : events[i].ts >= 0 /\ events[i].e \in {WriteOf(d)}}
  OBVIOUS
<1>. QED
  BY <1>1 DEF WriteTS, WriteLines, Lines

\* The report and the result in terms of them.
ReportMade ==
  /\ recomputeT1 = IF ~HasEvent(T1Complete) THEN Inconclusive
                   ELSE [v |-> EvalT1(InPhase(Rest), [i \in DOMAIN T1Steps |-> TimedStep(i)]), runs |-> <<>>]
  /\ recomputeT2 = IF ch = PCIeChannel THEN NotApplicable
                   ELSE IF Series(InPhase(A)) = <<>> THEN Inconclusive
                   ELSE FinishHandback(AutoValue(Series(InPhase(A))), RunsOf(RunList), abort)
  /\ \A i \in DOMAIN T1Steps : TimedStep(i) = Timed(InPhase(StepPhase(i)), WriteLines(T1Steps[i])[1].ts)

\* So the report is made.
LEMMA ReportIs == ReportMade
<1>1. AutoEvents = AutoLines
  BY DEF AutoEvents, AutoLines, Lines, Marks
<1>2. recomputeT2 = IF ch = PCIeChannel THEN NotApplicable
                    ELSE IF Series(InPhase(A)) = <<>> THEN Inconclusive
                    ELSE FinishHandback(AutoValue(Series(InPhase(A))),
                           RunsOf([i \in DOMAIN AutoEvents |-> RunOf(AutoEvents[i])]), abort)
  BY DEF recomputeT2, RunOf
<1>3. recomputeT1 = IF ~HasEvent(T1Complete) THEN Inconclusive
                    ELSE [v |-> EvalT1(InPhase(Rest), [i \in DOMAIN T1Steps |-> TimedStep(i)]), runs |-> <<>>]
  BY DEF recomputeT1, TimedStep, StepPhase
<1>4. \A i \in DOMAIN T1Steps : TimedStep(i) = Timed(InPhase(StepPhase(i)), WriteLines(T1Steps[i])[1].ts)
  BY WriteTime DEF TimedStep
<1>. QED
  BY <1>1, <1>2, <1>3, <1>4 DEF ReportMade, RunList

\* So the result of a test is made.
LEMMA OutcomeIs ==
  Outcome =
    IF test = "map"
    THEN IF abort # "" THEN Inconclusive
         ELSE [v |-> EvalT1(Got(Rest), [i \in DOMAIN T1Steps |-> Got(StepPhase(i))]), runs |-> <<>>]
    ELSE IF ~aKnown THEN Inconclusive
         ELSE FinishHandback(AutoValue(Series(Got(A))), RunsOf(FoundList), abort)
BY DEF Outcome, FoundOf, FoundList, StepPhase

\* The report reads what a step of the end of a run leaves as it is.
LEMMA ReportKept ==
  ASSUME UNCHANGED <<test, ch, samples, abort>>, HasEvent(T1Complete)' <=> HasEvent(T1Complete),
         \A d : WriteLines(d)' = WriteLines(d), AutoLines' = AutoLines
  PROVE  Recomputed' = Recomputed
<1>0. ReportMade /\ ReportMade'
  BY ReportIs, PTL
<1>1. \A ph : InPhase(ph)' = InPhase(ph)
  BY DEF InPhase, Rows
<1>2. \A i \in DOMAIN T1Steps : TimedStep(i)' = TimedStep(i)
  <2>1. TAKE i \in DOMAIN T1Steps
  <2>2. WriteLines(T1Steps[i])' = WriteLines(T1Steps[i])
    OBVIOUS
  <2>. QED
    BY <1>0, <1>1, <2>2 DEF ReportMade
<1>3. \A e : RunOf(e)' = RunOf(e)
  BY <1>1 DEF RunOf
<1>4. RunList' = RunList
  BY <1>3 DEF RunList
<1>5. [i \in DOMAIN T1Steps |-> TimedStep(i)]' = [i \in DOMAIN T1Steps |-> TimedStep(i)]
  BY <1>2
<1>6. recomputeT1' = recomputeT1
  BY <1>0, <1>1, <1>5 DEF ReportMade
<1>7. recomputeT2' = recomputeT2
  BY <1>0, <1>1, <1>4 DEF ReportMade
<1>. QED
  BY <1>6, <1>7 DEF Recomputed

\* T1: a test that is over has found what the report makes of the files.
LEMMA T1Agrees ==
  ASSUME IInv, Mirror, Idle, T1Lines, pc = "test", plan = <<>>, test = "map"
  PROVE  (IF touched = {} THEN results ELSE Outcome) = recomputeT1
<1>. TypeRun /\ TypeHold /\ TypeData
  BY DEF IInv, TypeOK
<1>0. ReportMade
  BY ReportIs
<1>1. results = Inconclusive
  BY DEF Idle, Writing
<1>2. HasEvent(T1Complete) <=> OnTrack
  BY DEF T1Lines
<1>3. OnTrack <=> abort = "" /\ touched # {}
  BY DEF OnTrack
<1>4. ~OnTrack => recomputeT1 = Inconclusive
  BY <1>0, <1>2, Zenon DEF ReportMade
<1>5. CASE touched = {}
  BY <1>1, <1>3, <1>4, <1>5, Zenon
<1>6. CASE abort # ""
  <2>1. Outcome = Inconclusive
    BY <1>6, OutcomeIs, Zenon
  <2>. QED
    BY <1>1, <1>3, <1>4, <1>6, <2>1, Zenon
<1>7. CASE OnTrack
  <2>1. Values(InPhase(Rest)) = Values(Got(Rest))
    <3>1. Rest \in Phases
      BY NamesAreTyped
    <3>. QED
      BY <3>1, Mirrored, SameValues DEF InPhase
  <2>2. ASSUME NEW i \in DOMAIN T1Steps
        PROVE  TimedStep(i) = Got(StepPhase(i))
    <3>1. StepPhase(i) \in Phases
      BY Numbers, NamesAreTyped DEF StepPhase
    <3>2. T1Line(i)
      BY <1>7 DEF T1Lines
    <3>. PICK k : k = At
      OBVIOUS
    <3>3. 1 + 2 * i < k
      <4>1. Full \in Seq(Steps) /\ Len(Full) = 3 + 2 * Len(T1Steps)
        BY FullIs, T1Positions
      <4>2. Len(plan) = 0 /\ Len(T1Steps) \in Nat /\ i \in 1..Len(T1Steps)
        BY Numbers
      <4>3. k = Len(Full) - Len(plan) + 1
        BY DEF At
      <4>. QED
        BY <4>1, <4>2, <4>3
    <3>. PICK f : f = WriteLines(T1Steps[i])[1].ts
      OBVIOUS
    <3>4. TimedFrom(StepPhase(i), f)
      BY <3>2, <3>3 DEF T1Line
    <3>5. Timed(Rows(StepPhase(i)), f) = Got(StepPhase(i))
      BY <3>1, <3>4, Mirrored, SameTimed DEF TimedFrom
    <3>. QED
      BY <1>0, <3>5 DEF ReportMade, InPhase
  <2>3. [i \in DOMAIN T1Steps |-> TimedStep(i)] = [i \in DOMAIN T1Steps |-> Got(StepPhase(i))]
    BY <2>2
  <2>4. EvalT1(InPhase(Rest), [i \in DOMAIN T1Steps |-> TimedStep(i)])
        = EvalT1(Got(Rest), [i \in DOMAIN T1Steps |-> Got(StepPhase(i))])
    BY <2>1, <2>3 DEF EvalT1
  <2>5. recomputeT1 = [v |-> EvalT1(InPhase(Rest), [i \in DOMAIN T1Steps |-> TimedStep(i)]), runs |-> <<>>]
    BY <1>0, <1>2, <1>7, Zenon DEF ReportMade
  <2>6. Outcome = [v |-> EvalT1(Got(Rest), [i \in DOMAIN T1Steps |-> Got(StepPhase(i))]), runs |-> <<>>]
    BY <1>3, <1>7, OutcomeIs, Zenon
  <2>. QED
    BY <1>3, <1>7, <2>4, <2>5, <2>6
<1>. QED
  BY <1>3, <1>5, <1>6, <1>7

\* T2: the sub-runs that the report rebuilds are those that were evaluated.
LEMMA SameRuns ==
  ASSUME IInv, Mirror, T2Value, T2Lines, pc = "test", plan = <<>>, test # "map", aKnown
  PROVE  RunList = FoundList
<1>. TypeRun /\ TypeHold /\ TypeData
  BY DEF IInv, TypeOK
<1>. PICK q, s : q = AutoLines /\ s = subs
  OBVIOUS
<1>1. /\ InOrderOf(s) /\ (\A i \in 1..Len(q) : MarkIs(q, i))
      /\ ~OnTrack => Len(q) = Len(s)
      /\ OnTrack => Within(Len(q), Len(s), At)
  BY T2LinesAre
<1>2. q \in Seq(Events) /\ s \in Seq(Nat \X Whats)
  BY FileTypes
<1>. PICK m, n : m = Len(q) /\ n = Len(s)
  OBVIOUS
<1>3. m \in Nat /\ n \in Nat /\ DOMAIN q = 1..m /\ DOMAIN s = 1..n
  BY <1>2
<1>4. OnTrack => m = n
  <2>1. SUFFICES ASSUME OnTrack
                 PROVE  m = n
    OBVIOUS
  <2>2. PICK N \in Nat \ {0} : Len(Full) = 4 + 6 * N
    <3>1. 2 * Repeat \in Nat \ {0}
      BY Numbers
    <3>2. Len(Full) = 4 + 6 * (2 * Repeat)
      BY T2Positions
    <3>. QED
      BY <3>1, <3>2
  <2>. PICK k : k = At
    OBVIOUS
  <2>3. k = 5 + 6 * N
    <3>1. Len(plan) = 0
      OBVIOUS
    <3>2. k = Len(Full) - Len(plan) + 1
      BY DEF At
    <3>. QED
      BY <2>2, <3>1, <3>2
  <2>4. Within(m, n, k) /\ k \in Nat
    BY <1>1, <2>1, <2>3
  <2>. QED
    BY <1>3, <2>3, <2>4, WithinIs
<1>5. m = n
  BY <1>1, <1>4
<1>. DEFINE pre == Got(A)
<1>6. /\ Values(InPhase(A)) = Values(Got(A))
      /\ AutoValue(Series(InPhase(A))) = AutoValue(Series(Got(A)))
  <2>1. A \in Phases
    BY NamesAreTyped
  <2>2. Got(A) \in Seq(Points) /\ Series(Got(A)) # <<>>
    <3>1. Got(A) \in Seq(Points)
      BY ReadTypes
    <3>2. HasValue
      BY DEF T2Value
    <3>. QED
      BY <3>1, <3>2, SeriesAre DEF HasValue
  <2>. QED
    BY <2>1, <2>2, Mirrored, SameValues DEF InPhase
<1>7. ASSUME NEW i \in 1..m
      PROVE  RunOf(q[i]) = FoundOf(s[i])
  <2>1. i \in DOMAIN SubRuns /\ s[i] = SubRuns[i] /\ MarkIs(q, i)
    BY <1>1, <1>5 DEF InOrderOf
  <2>. PICK r, l, e : r = SubRuns[i][1] /\ l = SubRuns[i][2] /\ e = q[i]
    OBVIOUS
  <2>2. e.e = AutoOf(r, l) /\ TimedFrom(LogPhase(i), e.ts)
    BY <2>1 DEF MarkIs
  <2>3. e.e[2] = r /\ e.e[3] = l
    BY <2>2, TextNames
  <2>. PICK f : f = e.ts
    OBVIOUS
  <2>4. LogPhase(i) \in Phases /\ HoldPhase(i) \in Phases
    BY <2>1, SubPhases
  <2>5. LogPhase(i) = Phase("log", r, l) /\ HoldPhase(i) = Phase("hold", r, l)
    BY DEF LogPhase, HoldPhase
  <2>. PICK a, b, g, h : /\ a = Rows(HoldPhase(i)) /\ b = Rows(LogPhase(i))
                         /\ g = Got(HoldPhase(i)) /\ h = Got(LogPhase(i))
    OBVIOUS
  <2>6. a \in Seq(Samples) /\ g \in Seq(Points) /\ Alike(a, g)
    BY <2>4, Mirrored DEF Alike
  <2>7. /\ b \in Seq(Samples) /\ h \in Seq(Points) /\ Len(b) = Len(h)
        /\ \A k \in DOMAIN h : b[k].odd = h[k].odd
    BY <2>4, Mirrored
  <2>8. Values(a \o b) = Values(g \o h)
    <3>1. Alike(b, h)
      BY <2>7 DEF Alike
    <3>. QED
      BY <2>6, <2>7, <3>1, SameJoined
  <2>9. Timed(b, f) = h
    <3>1. \A k \in DOMAIN h : h[k].t = b[k].ts - f
      BY <2>2 DEF TimedFrom
    <3>. QED
      BY <2>7, <3>1, SameTimed
  <2>10. MarkCrossing(InPhase(A), a \o b) = MarkCrossing(Got(A), g \o h)
    BY <1>6, <2>8 DEF MarkCrossing
  <2>11. RunOf(e) = [rep |-> r, res |-> SubResult(l, AutoValue(Series(InPhase(A))),
                                          MarkCrossing(InPhase(A), a \o b), Timed(b, f))]
    BY <2>3, <2>5 DEF RunOf, InPhase
  <2>12. FoundOf(s[i]) = [rep |-> r, res |-> SubResult(l, AutoValue(Series(Got(A))),
                                               MarkCrossing(Got(A), g \o h), h)]
    BY <2>1, <2>5 DEF FoundOf
  <2>. QED
    BY <1>6, <2>9, <2>10, <2>11, <2>12
<1>8. RunList = [i \in 1..m |-> RunOf(q[i])] /\ FoundList = [i \in 1..m |-> FoundOf(s[i])]
  BY <1>3, <1>5 DEF RunList, FoundList
<1>. QED
  BY <1>7, <1>8

\* Without a mark there is no sub-run.
LEMMA NoRuns ==
  ASSUME AutoLines = <<>>
  PROVE  RunList = <<>>
BY DEF RunList

\* T2: a test that is over has found what the report makes of the files.
LEMMA T2Agrees ==
  ASSUME IInv, Mirror, Idle, T2Value, T2Lines, pc = "test", plan = <<>>, test # "map"
  PROVE  (IF touched = {} THEN results ELSE Outcome) = recomputeT2
<1>. TypeRun /\ TypeHold /\ TypeData
  BY DEF IInv, TypeOK
<1>0. ReportMade
  BY ReportIs
<1>1. CASE ch = PCIeChannel
  <2>1. ~Writing
    BY <1>1 DEF Writing
  <2>2. touched = {} /\ results = NotApplicable
    BY <2>1, Zenon DEF Idle
  <2>. QED
    BY <1>0, <1>1, <2>2, Zenon DEF ReportMade
<1>2. CASE ch # PCIeChannel
  <2>1. results = Inconclusive
    BY <1>2, Zenon DEF Idle, Writing
  <2>2. /\ Values(InPhase(A)) = Values(Got(A))
        /\ Series(InPhase(A)) = <<>> <=> Series(Got(A)) = <<>>
        /\ Series(Got(A)) # <<>> => AutoValue(Series(InPhase(A))) = AutoValue(Series(Got(A)))
    <3>1. A \in Phases
      BY NamesAreTyped
    <3>. QED
      BY <3>1, Mirrored, SameValues DEF InPhase
  <2>3. Series(Got(A)) = <<>> <=> ~HasValue
    <3>1. Got(A) \in Seq(Points)
      BY ReadTypes
    <3>. QED
      BY <3>1, SeriesAre DEF HasValue
  <2>4. recomputeT2 = IF Series(InPhase(A)) = <<>> THEN Inconclusive
                      ELSE FinishHandback(AutoValue(Series(InPhase(A))), RunsOf(RunList), abort)
    BY <1>0, <1>2, Zenon DEF ReportMade
  <2>5. CASE touched = {}
    <3>1. ~HasValue
      <4>1. Got(A) = <<>>
        BY <2>5, Zenon DEF T2Value
      <4>. QED
        BY <4>1 DEF HasValue
    <3>. QED
      BY <2>1, <2>2, <2>3, <2>4, <2>5, <3>1, Zenon
  <2>6. CASE touched # {} /\ ~aKnown
    <3>1. Outcome = Inconclusive
      BY <2>6, OutcomeIs, Zenon
    <3>2. CASE ~HasValue
      BY <2>2, <2>3, <2>4, <2>6, <3>1, <3>2, Zenon
    <3>3. CASE HasValue
      <4>1. abort # "" /\ AutoLines = <<>>
        BY <2>6, <3>3, Zenon DEF T2Value
      <4>2. RunList = <<>>
        BY <4>1, NoRuns
      <4>. PICK a : a = AutoValue(Series(InPhase(A)))
        OBVIOUS
      <4>3. FinishHandback(a, <<>>, abort) = Inconclusive
        BY <4>1 DEF FinishHandback, Inconclusive
      <4>. QED
        BY <2>2, <2>3, <2>4, <2>6, <3>1, <3>3, <4>2, <4>3, RunsOfNone, Zenon
    <3>. QED
      BY <3>2, <3>3
  <2>7. CASE touched # {} /\ aKnown
    <3>1. HasValue
      BY <2>7, Zenon DEF T2Value
    <3>2. RunList = FoundList
      BY <2>7, SameRuns
    <3>3. Outcome = FinishHandback(AutoValue(Series(Got(A))), RunsOf(FoundList), abort)
      BY <2>7, OutcomeIs, Zenon
    <3>. QED
      BY <2>2, <2>3, <2>4, <2>7, <3>1, <3>2, <3>3, Zenon
  <2>. QED
    BY <2>5, <2>6, <2>7
<1>. QED
  BY <1>1, <1>2

\* The end of a run is entered from its test; there, restores and the guardian add
\* lines to the log, and that is all that changes of what the report reads.
LEMMA OverStep ==
  ASSUME [Next]_vars, pc' \in Over
  PROVE  \/ TestEnds
         \/ /\ pc \in Over /\ UNCHANGED <<test, ch, samples, abort, results>>
            /\ \/ UNCHANGED events
               \/ \E fails, differs : Restore(fails, differs)
               \/ Aftermath
<1>1. CASE \E bad \in {{}} \cup {{g} : g \in PreGates}, d, typed \in BOOLEAN : Confirm(bad, d, typed)
  BY <1>1 DEF Confirm, Over
<1>2. CASE StartGates
  <2>1. pc \in {"gates", "test"} /\ pc' = pc
    BY <1>2, Zenon DEF StartGates, request
  <2>. QED
    BY <2>1, Zenon DEF Over
<1>3. CASE \E g6 \in {"PASS", "PARTIAL", "FAIL"} : Decide(g6)
  <2>1. PICK g6 \in {"PASS", "PARTIAL", "FAIL"} : Decide(g6)
    BY <1>3, Zenon
  <2>2. pc \in {"gates", "test"} /\ (pc' = pc \/ pc' = "test")
    BY <2>1, Zenon DEF Decide, Does, request
  <2>. QED
    BY <2>2, Zenon DEF Over
<1>4. CASE \E O \in SomeOdd : TakeSample(O)
  <2>1. PICK O \in SomeOdd : TakeSample(O)
    BY <1>4, Zenon
  <2>2. pc \in {"gates", "test"} /\ (pc' = pc \/ pc' = "test")
    BY <2>1, Zenon DEF TakeSample, Does, request, Sampled
  <2>. QED
    BY <2>2, Zenon DEF Over
<1>5. CASE \E O \in SomeOdd, slow \in 0..MaxOdd - odd : HoldSample(O, slow)
  <2>1. PICK O \in SomeOdd, slow \in 0..MaxOdd - odd : HoldSample(O, slow)
    BY <1>5, Zenon
  <2>2. pc \in {"gates", "test"} /\ (pc' = pc \/ pc' = "test")
    BY <2>1, Zenon DEF HoldSample, Does, request, Sampled
  <2>. QED
    BY <2>2, Zenon DEF Over
<1>6. CASE HoldCancelled
  <2>1. pc \in {"gates", "test"} /\ pc' = pc
    BY <1>6, Zenon DEF HoldCancelled, Does
  <2>. QED
    BY <2>1, Zenon DEF Over
<1>7. CASE \E out \in {"sent", "failed", "no state file"} : Command(out)
  <2>1. PICK out \in {"sent", "failed", "no state file"} : Command(out)
    BY <1>7, Zenon
  <2>2. pc \in {"gates", "test"} /\ (pc' = pc \/ pc' = "test")
    BY <2>1, Zenon DEF Command, Does, request
  <2>. QED
    BY <2>2, Zenon DEF Over
<1>8. CASE Mark
  <2>1. pc \in {"gates", "test"} /\ pc' = pc
    BY <1>8, Zenon DEF Mark, Does
  <2>. QED
    BY <2>1, Zenon DEF Over
<1>9. CASE ValueA
  <2>1. pc \in {"gates", "test"} /\ pc' = pc
    BY <1>9, Zenon DEF ValueA, Does
  <2>. QED
    BY <2>1, Zenon DEF Over
<1>10. CASE TestEnds
  BY <1>10
<1>11. CASE \E fails \in SUBSET ToClose : \E differs \in SUBSET (ToClose \ fails) : Restore(fails, differs)
  <2>1. PICK fails, differs : Restore(fails, differs)
    BY <1>11, Zenon
  <2>2. pc' = pc /\ UNCHANGED <<test, ch, samples, abort, results>>
    BY <2>1, Zenon DEF Restore, request, watch, data
  <2>. QED
    BY <2>1, <2>2, Zenon
<1>12. CASE Closed
  BY <1>12 DEF Closed, Over, request, watch, data
<1>13. CASE WriteMeta
  BY <1>13 DEF WriteMeta, Over, request, watch, data
<1>14. CASE WriteVerdict
  BY <1>14 DEF WriteVerdict, Over, request, watch, data
<1>15. CASE Finish
  BY <1>15 DEF Finish, Over, request, watch, data
<1>16. CASE Aftermath
  <2>1. pc' = pc /\ UNCHANGED <<test, ch, samples, abort, results>>
    BY <1>16, Zenon DEF Aftermath, request, watch, data
  <2>. QED
    BY <1>16, <2>1, Zenon
<1>17. CASE Cancel
  <2>1. pc \in {"gates", "test"} /\ pc' = pc
    BY <1>17, Zenon DEF Cancel, request
  <2>. QED
    BY <2>1, Zenon DEF Over
<1>18. CASE \E how \in {"killed", "panic"} : Dies(how)
  BY <1>18 DEF Dies, Over
<1>19. CASE UNCHANGED vars
  BY <1>19 DEF Over, vars, request, watch, data
<1>. QED
  BY <1>1, <1>2, <1>3, <1>4, <1>5, <1>6, <1>7, <1>8, <1>9, <1>10, <1>11, <1>12, <1>13, <1>14,
    <1>15, <1>16, <1>17, <1>18, <1>19 DEF Next

\* What a test found is what the report makes of the files, until the end of the run.
LEMMA AgreesStep ==
  ASSUME IInv, Mirror, Idle, T1Lines, T2Value, T2Lines, Agrees, [Next]_vars
  PROVE  Agrees'
<1>. TypeRun /\ TypeHold /\ TypeData
  BY DEF IInv, TypeOK
<1>1. CASE pc' \notin Over
  BY <1>1, Zenon DEF Agrees
<1>2. ASSUME UNCHANGED <<test, ch, samples, abort, events>>
      PROVE  Recomputed' = Recomputed
  <2>1. /\ HasEvent(T1Complete)' <=> HasEvent(T1Complete)
        /\ \A d : WriteLines(d)' = WriteLines(d)
        /\ AutoLines' = AutoLines
    BY <1>2 DEF HasEvent, WriteLines, AutoLines, Lines
  <2>. QED
    BY <1>2, <2>1, ReportKept
<1>3. CASE TestEnds
  <2>1. pc = "test" /\ plan = <<>> /\ results' = IF touched = {} THEN results ELSE Outcome
    BY <1>3, Zenon DEF TestEnds
  <2>2. (IF touched = {} THEN results ELSE Outcome) = Recomputed
    <3>1. CASE test = "map"
      BY <2>1, <3>1, T1Agrees, Zenon DEF Recomputed
    <3>2. CASE test # "map"
      BY <2>1, <3>2, T2Agrees, Zenon DEF Recomputed
    <3>. QED
      BY <3>1, <3>2
  <2>3. UNCHANGED <<test, ch, samples, abort, events>>
    BY <1>3, Zenon DEF TestEnds, request, watch
  <2>. QED
    BY <1>2, <2>1, <2>2, <2>3, Zenon DEF Agrees
<1>4. CASE /\ pc' \in Over /\ pc \in Over /\ UNCHANGED <<test, ch, samples, abort, results>>
           /\ \/ UNCHANGED events
              \/ \E fails, differs : Restore(fails, differs)
              \/ Aftermath
  <2>1. ASSUME NEW fails, NEW differs, Restore(fails, differs)
        PROVE  Quietly
    <3>1. PICK texts \in Seq(Texts) :
            /\ Log(texts)
            /\ \A i \in DOMAIN texts : texts[i][1] \in Reports /\ texts[i][2] \in 1..4
      BY <2>1, RestoreLogs
    <3>2. \A x : x \in Reports => x \in Ordinary \ {"write"}
      BY DEF Reports, Ordinary
    <3>. QED
      BY <3>1, <3>2, Zenon DEF Quietly
  <2>2. CASE Quietly
    <3>1. /\ HasEvent(T1Complete)' <=> HasEvent(T1Complete)
          /\ \A d : WriteLines(d)' = WriteLines(d)
          /\ AutoLines' = AutoLines
      BY <2>2, QuietLines
    <3>2. Recomputed' = Recomputed
      BY <1>4, <3>1, ReportKept
    <3>. QED
      BY <1>4, <3>2, Zenon DEF Agrees
  <2>3. CASE Aftermath
    <3>1. events' = Append(events, [e |-> Plain("guardian"), ts |-> -1])
      BY <2>3, Zenon DEF Aftermath
    <3>2. (\A T : Lines(T)' = Lines(T)) /\ \A x : x # Plain("guardian") => (HasEvent(x)' <=> HasEvent(x))
      BY <3>1, GuardianLine
    <3>3. T1Complete # Plain("guardian")
      BY DEF T1Complete, Plain
    <3>4. /\ HasEvent(T1Complete)' <=> HasEvent(T1Complete)
          /\ \A d : WriteLines(d)' = WriteLines(d)
          /\ AutoLines' = AutoLines
      BY <3>2, <3>3 DEF WriteLines, AutoLines
    <3>5. Recomputed' = Recomputed
      BY <1>4, <3>4, ReportKept
    <3>. QED
      BY <1>4, <3>5, Zenon DEF Agrees
  <2>4. CASE UNCHANGED events
    <3>1. Recomputed' = Recomputed
      BY <1>2, <1>4, <2>4
    <3>. QED
      BY <1>4, <3>1, Zenon DEF Agrees
  <2>. QED
    BY <1>4, <2>1, <2>2, <2>3, <2>4, Zenon
<1>. QED
  BY <1>1, <1>3, <1>4, OverStep, Zenon

-----------------------------------------------------------------------------
(* The whole.                                                              *)

\* The inductive invariant holds at the start.
LEMMA RInit ==
  ASSUME Init
  PROVE  RInv
<1>2. pc = "confirm" /\ plan = <<>> /\ coll = <<>> /\ samples = <<>> /\ events = <<>>
      /\ verdict = <<>> /\ sums = FALSE
  BY DEF Init
<1>3. Mirror
  <2>1. ASSUME NEW ph
        PROVE  Rows(ph) = <<>> /\ Got(ph) = <<>>
    <3>1. {i \in DOMAIN samples : samples[i].ph = ph} = {}
      BY <1>2
    <3>2. ph \notin DOMAIN coll
      BY <1>2
    <3>. QED
      BY <3>1, <3>2, ThoseNone DEF Rows, Got
  <2>. QED
    BY <2>1 DEF Mirror
<1>4. Quiet
  BY <1>2 DEF Quiet
<1>5. Way /\ GatesTrue /\ Idle
  BY <1>2 DEF Way, GatesTrue, Idle, Over
<1>6. T1Lines /\ T2Value /\ T2Lines
  BY <1>2 DEF T1Lines, T2Value, T2Lines
<1>7. Agrees /\ Files
  BY <1>2 DEF Agrees, Over, Files
<1>. QED
  BY <1>3, <1>4, <1>5, <1>6, <1>7, Zenon DEF RInv

\* And after every step.
LEMMA RStep ==
  ASSUME IInv, RInv, [Next]_vars
  PROVE  RInv'
<1>1. /\ Mirror /\ Quiet /\ Way /\ GatesTrue /\ Idle /\ T1Lines /\ T2Value /\ T2Lines
      /\ Agrees /\ Files
  BY Zenon DEF RInv
<1>3. Mirror'
  BY <1>1, MirrorStep DEF IInv
<1>4. Quiet' /\ Way' /\ GatesTrue' /\ Idle'
  BY <1>1, QuietStep, WayStep, GatesTrueStep, IdleStep
<1>5. T1Lines'
  BY <1>1, T1LinesStep
<1>6. T2Value' /\ T2Lines'
  BY <1>1, T2ValueStep, T2LinesStep
<1>7. Agrees' /\ Files'
  BY <1>1, AgreesStep, FilesStep
<1>. QED
  BY <1>3, <1>4, <1>5, <1>6, <1>7, Zenon DEF RInv

\* Whatever the run: when it came to its end and could write its files, the report
\* is clean. What one made of the samples it saw is what the other makes of the
\* files, for T1 and T2, aborted or not, and for the gates of the window.
THEOREM FinishedAgrees == Spec => []FinishedIsClean
<1>1. Init => RInv
  BY RInit
<1>2. IInv /\ RInv /\ [Next]_vars => RInv'
  BY RStep
<1>3. RInv => FinishedIsClean
  <2>1. SUFFICES ASSUME RInv, pc = "end", meta = "final", verdict # <<>>, sums
                 PROVE  ReportClean
    BY Zenon DEF FinishedIsClean
  <2>2. GatesTrue /\ Agrees /\ Files
    BY <2>1, Zenon DEF RInv
  <2>3. pc \in Over
    BY <2>1 DEF Over
  <2>4. checkGates
    BY <2>2, <2>3, Zenon DEF GatesTrue
  <2>5. verdict = <<Recomputed>>
    <3>1. verdict = <<results>>
      BY <2>1, <2>2, Zenon DEF Files
    <3>2. results = Recomputed
      BY <2>2, <2>3, Zenon DEF Agrees
    <3>. QED
      BY <3>1, <3>2, Zenon
  <2>. QED
    BY <2>1, <2>4, <2>5, Zenon DEF ReportClean, SameVerdict, Judged
<1>. QED
  BY <1>1, <1>2, <1>3, Invariance, PTL DEF Spec
=============================================================================
