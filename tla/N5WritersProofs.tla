--------------------------- MODULE N5WritersProofs ---------------------------
(***************************************************************************)
(* Proofs about N5Writers, for every number of runs, lock files, channels  *)
(* and duties.                                                             *)
(***************************************************************************)
EXTENDS N5Writers, TLAPS

-----------------------------------------------------------------------------
(* The inductive invariant, in named parts.                                *)

Caches == [Channels -> Values]
Known == [en : {Manual, EcAuto, Unknown}, pwm : Duty \cup {Unknown}]

TypeInv ==
  /\ entry \in Nat /\ files \in Nat /\ fd \in [Runs -> Nat] /\ held \subseteq Runs
  /\ loaded \in BOOLEAN /\ cache \in Caches /\ reg \in BOOLEAN
  /\ pc \in [Runs -> {"idle", "running", "closing"}]
  /\ exp \in [Runs -> [Channels -> Known]] /\ own \in [Runs -> [Channels -> Known]]
  /\ op \in [Runs -> Ops \cup {NoOp}] /\ late \in [Runs -> Ops \cup {NoOp}]
  /\ younger \in [Runs -> BOOLEAN] /\ disturbed \in [Runs -> BOOLEAN]
  /\ blamed \in [Runs -> BOOLEAN] /\ pass \subseteq Runs

\* A file is held once; a run that was overtaken holds one that is no longer at
\* the path, and no new file gets its number.
Locking ==
  /\ entry <= files
  /\ \A r \in Runs : fd[r] <= files
  /\ \A r \in held : fd[r] # NoFile
  /\ \A r, q \in held : fd[r] = fd[q] => r = q
  /\ \A r \in Runs : pc[r] = "running" => r \in held
  /\ \A r \in Runs : pc[r] = "running" /\ younger[r] => entry # fd[r]
  /\ \A r \in Runs : pc[r] = "idle" => ~younger[r]

\* What a running run expects is what its own writes have done, and the one in
\* progress will do.
Expecting ==
  \A r \in Runs :
    /\ pc[r] = "running" => own[r] \in Caches /\ late[r] = NoOp
    /\ pc[r] = "idle" => op[r] = NoOp /\ late[r] = NoOp /\ ~blamed[r]
    /\ pc[r] = "running" =>
         exp[r] = IF op[r] = NoOp THEN own[r]
                  ELSE [own[r] EXCEPT ![op[r].ch] = Effect(@, op[r])]

\* Where nothing was done but by the run itself, everything is as it left it.
Undisturbed ==
  /\ \A r \in Runs : pc[r] = "running" /\ ~disturbed[r] =>
       loaded /\ ~reg /\ Verified(r) /\ cache = own[r]
  /\ NeverBlamed

\* What a sample that passed has seen.
Passing == \A r \in pass : pc[r] = "running" /\ op[r] = NoOp /\ ~Check(r)

IInv == TypeInv /\ Locking /\ Expecting /\ Undisturbed /\ Passing

-----------------------------------------------------------------------------
(* Writes.                                                                 *)

LEMMA OpFields ==
  ASSUME NEW o \in Ops
  PROVE  /\ o.ch \in Channels /\ o # NoOp /\ o.a \in {"enable", "duty"}
         /\ o.a = "enable" => o.v \in {Manual, EcAuto}
         /\ o.a = "duty" => o.v \in Duty
  BY WritersAssumption DEF Ops, NoOp

LEMMA EffectIsValue ==
  ASSUME NEW o \in Ops, NEW k \in Values
  PROVE  Effect(k, o) \in Values
  BY OpFields, WritersAssumption DEF Effect, Values, Manual, FullDuty

LEMMA ValuesKnown == Values \subseteq Known
  BY DEF Values, Known

LEMMA KnownEffect ==
  ASSUME NEW o \in Ops, NEW k \in Known
  PROVE  Effect(k, o) \in Known
  BY OpFields, WritersAssumption DEF Effect, Known, Manual, FullDuty

\* Expect() says of known values what the driver does with them.
LEMMA ExpectIsEffect ==
  ASSUME NEW o \in Ops, NEW k \in Values
  PROVE  Expect(k, o) = Effect(k, o)
  BY DEF Expect, Effect

LEMMA ValuesDiffer ==
  ASSUME NEW k \in Values, NEW e \in Values, ~Differs(e, k)
  PROVE  e = k
  <1>1. e.en # Unknown /\ e.pwm # Unknown
    BY WritersAssumption DEF Values, Unknown, Manual, EcAuto
  <1>2. QED
    BY <1>1 DEF Differs, Values

-----------------------------------------------------------------------------
(* Steps.                                                                  *)

LEMMA InitInv == Init => IInv
  <1>1. SUFFICES ASSUME Init PROVE IInv
    OBVIOUS
  <1>2. TypeInv
    BY <1>1 DEF Init, LockInit, TypeInv, Caches, NoFile, None, Nothing, Known
  <1>3. Locking /\ Expecting /\ Undisturbed /\ Passing
    BY <1>1 DEF Init, LockInit, Locking, Expecting, Undisturbed, Passing, NeverBlamed, NoFile
  <1>4. QED
    BY <1>2, <1>3 DEF IInv

\* Steps of a run in which neither the driver nor the lock is touched by it.
LEMMA LockStep ==
  ASSUME TypeInv, NEW r \in Runs, OpenLock(r) \/ Flock(r) \/ Release(r) \/ RemoveLock
  PROVE  /\ entry' \in Nat /\ files' \in Nat /\ fd' \in [Runs -> Nat] /\ held' \subseteq Runs
         /\ files <= files'
  <1>1. /\ entry \in Nat /\ files \in Nat /\ fd \in [Runs -> Nat] /\ held \subseteq Runs
    BY DEF TypeInv
  <1>2. CASE OpenLock(r)
    BY <1>1, <1>2 DEF OpenLock
  <1>3. CASE Flock(r)
    BY <1>1, <1>3 DEF Flock, NoFile
  <1>4. CASE Release(r) \/ RemoveLock
    BY <1>1, <1>4 DEF Release, RemoveLock, NoFile
  <1>5. QED
    BY <1>2, <1>3, <1>4

LEMMA ServeType ==
  ASSUME TypeInv, NEW o \in Ops, Serve(o)
  PROVE  cache' \in Caches
  BY EffectIsValue, OpFields DEF TypeInv, Caches, Serve

LEMMA TypeStep == TypeInv /\ [Next]_vars => TypeInv'
  <1> SUFFICES ASSUME TypeInv, [Next]_vars PROVE TypeInv'
    OBVIOUS
  <1> USE DEF lock, guard, hist
  <1>1. CASE UNCHANGED vars
    BY <1>1 DEF TypeInv, vars, driver
  <1>2. ASSUME NEW o \in Ops, ForeignWrite(o) PROVE TypeInv'
    BY <1>2, ServeType DEF ForeignWrite, Disturb, TypeInv
  <1>3. CASE Unload
    BY <1>3 DEF Unload, Disturb, TypeInv
  <1>4. ASSUME NEW k \in [Channels -> Values], Load(k) PROVE TypeInv'
    BY <1>4 DEF Load, Disturb, TypeInv, Caches
  <1>5. CASE Regulator
    BY <1>5 DEF Regulator, Disturb, TypeInv
  <1>6. CASE Remove
    BY <1>6 DEF Remove, RemoveLock, Disturb, TypeInv, driver, NoFile
  <1>7. ASSUME NEW r \in Runs, RunStep(r) PROVE TypeInv'
    <2>1. CASE TakeLock(r)
      BY <2>1, LockStep DEF TakeLock, TypeInv, driver
    <2>2. CASE Begin(r)
      <3>1. CASE Verified(r) /\ loaded /\ ~reg
        <4>1. cache \in [Channels -> Known]
          BY ValuesKnown DEF TypeInv, Caches
        <4>2. exp' \in [Runs -> [Channels -> Known]] /\ own' \in [Runs -> [Channels -> Known]]
          BY <2>2, <3>1, <4>1 DEF Begin, TypeInv
        <4>3. QED
          BY <2>2, <3>1, <4>2 DEF Begin, TypeInv, driver
      <3>2. CASE ~(Verified(r) /\ loaded /\ ~reg)
        BY <2>2, <3>2, LockStep DEF Begin, TypeInv, driver
      <3>3. QED
        BY <3>1, <3>2
    <2>3. CASE Sample(r)
      BY <2>3 DEF Sample, TypeInv, driver
    <2>4. ASSUME NEW o \in Ops, WriteBegins(r, o) PROVE TypeInv'
      <3>1. ASSUME NEW e \in Known PROVE Expect(e, o) \in Known
        BY KnownEffect DEF Expect, Effect
      <3>2. exp' \in [Runs -> [Channels -> Known]]
        BY <2>4, <3>1, OpFields DEF WriteBegins, TypeInv
      <3>3. QED
        BY <2>4, <3>2 DEF WriteBegins, TypeInv, driver
    <2>5. CASE WriteRefused(r)
      BY <2>5 DEF WriteRefused, TypeInv, driver
    <2>6. CASE WriteDone(r)
      <3>1. cache' \in Caches
        BY <2>6, ServeType DEF WriteDone, TypeInv
      <3>2. own' \in [Runs -> [Channels -> Known]]
        BY <2>6, KnownEffect, OpFields DEF WriteDone, TypeInv
      <3>3. QED
        BY <2>6, <3>1, <3>2 DEF WriteDone, Disturb, TypeInv
    <2>7. ASSUME NEW lands \in BOOLEAN, WriteFails(r, lands) PROVE TypeInv'
      <3>1. op[r] \in Ops /\ Refreshed(op[r].ch) \in Known
        BY <2>7, OpFields, ValuesKnown DEF WriteFails, Refreshed, TypeInv, Caches, Known, Nothing
      <3>2. QED
        BY <2>7, <3>1 DEF WriteFails, AfterFailure, TypeInv, driver
    <2>8. CASE Lands(r)
      <3>1. cache' \in Caches
        BY <2>8, ServeType DEF Lands, TypeInv
      <3>2. QED
        BY <2>8, <3>1 DEF Lands, Disturb, TypeInv
    <2>9. CASE TestOver(r)
      BY <2>9 DEF TestOver, TypeInv, driver
    <2>10. CASE Leave(r)
      BY <2>10, LockStep DEF Leave, TypeInv, driver, None, Nothing, Known
    <2>11. QED
      BY <1>7, <2>1, <2>2, <2>3, <2>4, <2>5, <2>6, <2>7, <2>8, <2>9, <2>10 DEF RunStep
  <1>8. QED
    BY <1>1, <1>2, <1>3, <1>4, <1>5, <1>6, <1>7 DEF Next, Others

\* The steps after which fewer runs may be running, and the lock is as before.
LEMMA LockQuiet ==
  ASSUME TypeInv, Locking, UNCHANGED lock, UNCHANGED younger,
         \A r \in Runs : pc'[r] = pc[r] \/ pc'[r] = "closing"
  PROVE  Locking'
  BY DEF TypeInv, Locking, lock

LEMMA LockingStep == TypeInv /\ Locking /\ [Next]_vars => Locking'
  <1> SUFFICES ASSUME TypeInv, Locking, [Next]_vars PROVE Locking'
    OBVIOUS
  <1> USE DEF guard, hist
  <1>1. CASE UNCHANGED vars
    BY <1>1, LockQuiet DEF vars
  <1>2. CASE \/ \E o \in Ops : ForeignWrite(o)
             \/ Unload \/ (\E k \in [Channels -> Values] : Load(k)) \/ Regulator
    BY <1>2, LockQuiet DEF ForeignWrite, Unload, Load, Regulator
  <1>3. CASE Remove
    BY <1>3 DEF Remove, RemoveLock, TypeInv, Locking, NoFile
  <1>4. ASSUME NEW r \in Runs, RunStep(r) PROVE Locking'
    <2>1. CASE Sample(r) \/ (\E o \in Ops : WriteBegins(r, o)) \/ WriteRefused(r) \/ WriteDone(r)
               \/ (\E lands \in BOOLEAN : WriteFails(r, lands)) \/ Lands(r) \/ TestOver(r)
      BY <2>1, LockQuiet
      DEF Sample, WriteBegins, WriteRefused, WriteDone, WriteFails, AfterFailure, Lands, TestOver,
          TypeInv
    <2>2. CASE TakeLock(r) /\ OpenLock(r)
      <3>1. r \notin held /\ fd[r] = NoFile /\ UNCHANGED <<pc, younger, held>>
        BY <2>2 DEF TakeLock, OpenLock, Locking
      <3>2. /\ entry' \in Nat /\ files' \in Nat /\ entry' <= files' /\ files <= files'
            /\ \A q \in Runs : entry' = entry \/ entry' > fd[q]
            /\ entry' # NoFile /\ fd' = [fd EXCEPT ![r] = entry']
        BY <2>2 DEF OpenLock, TypeInv, Locking, NoFile
      <3>3. \A q \in Runs : q # r => fd'[q] = fd[q]
        BY <3>2 DEF TypeInv
      <3>4. fd' \in [Runs -> Nat] /\ fd'[r] = entry' /\ pc[r] # "running"
        BY <2>2, <3>1, <3>2 DEF TypeInv, TakeLock, Idle
      <3>5. \A q \in held : q \in Runs /\ q # r /\ fd'[q] = fd[q]
        BY <3>1, <3>3 DEF TypeInv
      <3>6. \A q \in Runs : fd'[q] <= files'
        <4> SUFFICES ASSUME NEW q \in Runs PROVE fd'[q] <= files'
          OBVIOUS
        <4>1. fd[q] <= files /\ fd[q] \in Nat /\ files \in Nat
          BY DEF Locking, TypeInv
        <4>2. QED
          BY <4>1, <3>2, <3>3, <3>4
      <3>7. \A q \in Runs : pc[q] = "running" /\ younger[q] => entry' # fd'[q]
        <4> SUFFICES ASSUME NEW q \in Runs, pc[q] = "running", younger[q] PROVE entry' # fd'[q]
          OBVIOUS
        <4>1. entry # fd[q] /\ fd[q] \in Nat /\ entry' \in Nat /\ fd'[q] = fd[q]
          BY <3>2, <3>3, <3>4 DEF Locking, TypeInv
        <4>2. QED
          BY <4>1, <3>2
      <3>8. QED
        BY <3>1, <3>2, <3>5, <3>6, <3>7 DEF Locking
    <2>3. CASE TakeLock(r) /\ Flock(r)
      <3>1. /\ r \notin held /\ pc[r] # "running" /\ fd[r] # NoFile
            /\ UNCHANGED <<pc, younger, entry, files>>
        BY <2>3 DEF TakeLock, Flock, Idle, TypeInv
      <3>2. CASE Flocked(fd[r])
        <4>1. fd' = [fd EXCEPT ![r] = NoFile] /\ UNCHANGED held
          BY <2>3, <3>2 DEF Flock
        <4>2. /\ \A q \in Runs : q # r => fd'[q] = fd[q]
              /\ fd'[r] = NoFile /\ NoFile <= files /\ \A q \in held : q \in Runs /\ q # r
          BY <3>1, <4>1 DEF TypeInv, NoFile
        <4>3. QED
          BY <3>1, <4>1, <4>2 DEF Locking
      <3>3. CASE ~Flocked(fd[r])
        BY <2>3, <3>1, <3>3 DEF Flock, Flocked, Locking, TypeInv
      <3>4. QED
        BY <3>2, <3>3
    <2>4. CASE Begin(r)
      <3>1. CASE Verified(r) /\ loaded /\ ~reg
        <4>1. /\ UNCHANGED lock /\ pc' = [pc EXCEPT ![r] = "running"] /\ r \in held
              /\ pc[r] = "idle" /\ entry = fd[r]
              /\ younger' = [q \in Runs |-> younger[q] \/ pc[q] = "running"]
          BY <2>4, <3>1 DEF Begin, Idle, Verified
        <4>2. ASSUME NEW q \in Runs, pc'[q] = "running", younger'[q] PROVE entry # fd[q]
          <5>1. q # r
            BY <4>1, <4>2 DEF Locking
          <5>2. q \in held
            BY <4>1, <4>2, <5>1 DEF Locking, TypeInv
          <5>3. QED
            BY <4>1, <5>1, <5>2 DEF Locking
        <4>3. \A q \in Runs : pc'[q] = "idle" => ~younger'[q]
          BY <4>1 DEF Locking, TypeInv
        <4>4. \A q \in Runs : pc'[q] = "running" => q \in held
          BY <4>1 DEF Locking, TypeInv
        <4>5. QED
          BY <4>1, <4>2, <4>3, <4>4 DEF Locking, lock
      <3>2. CASE ~(Verified(r) /\ loaded /\ ~reg)
        <4>1. /\ UNCHANGED <<entry, files, pc, younger>> /\ pc[r] = "idle"
              /\ held' = held \ {r} /\ fd' = [fd EXCEPT ![r] = NoFile]
          BY <2>4, <3>2 DEF Begin, Release, Idle
        <4>2. \A q \in Runs : fd'[q] = (IF q = r THEN NoFile ELSE fd[q])
          BY <4>1 DEF TypeInv
        <4>3. QED
          BY <4>1, <4>2 DEF Locking, TypeInv, NoFile
      <3>3. QED
        BY <3>1, <3>2
    <2>5. CASE Leave(r)
      BY <2>5 DEF Leave, Release, Locking, TypeInv, NoFile
    <2>6. QED
      BY <1>4, <2>1, <2>2, <2>3, <2>4, <2>5 DEF RunStep, TakeLock
  <1>5. QED
    BY <1>1, <1>2, <1>3, <1>4 DEF Next, Others

\* Steps that leave what a run knows as it is: for other runs all but its own.
ExpectsAs(r) ==
  /\ pc[r] = "running" => own[r] \in Caches /\ late[r] = NoOp
  /\ pc[r] = "idle" => op[r] = NoOp /\ late[r] = NoOp /\ ~blamed[r]
  /\ pc[r] = "running" =>
       exp[r] = IF op[r] = NoOp THEN own[r]
                ELSE [own[r] EXCEPT ![op[r].ch] = Effect(@, op[r])]

LEMMA ExpectingParts == Expecting <=> \A r \in Runs : ExpectsAs(r)
  BY DEF Expecting, ExpectsAs

LEMMA OtherRuns ==
  ASSUME TypeInv, NEW r \in Runs, RunStep(r), NEW q \in Runs, q # r
  PROVE  /\ pc'[q] = pc[q] /\ exp'[q] = exp[q] /\ own'[q] = own[q] /\ op'[q] = op[q]
         /\ late'[q] = late[q] /\ blamed'[q] = blamed[q]
  <1> USE DEF guard, hist
  <1>1. CASE TakeLock(r) \/ Begin(r)
    BY <1>1 DEF TakeLock, Begin, TypeInv
  <1>2. CASE Sample(r) \/ (\E o \in Ops : WriteBegins(r, o)) \/ WriteRefused(r)
    BY <1>2 DEF Sample, WriteBegins, WriteRefused, TypeInv
  <1>3. CASE WriteDone(r)
    BY <1>3 DEF WriteDone, TypeInv
  <1>6. ASSUME NEW lands \in BOOLEAN, WriteFails(r, lands)
        PROVE  /\ pc'[q] = pc[q] /\ exp'[q] = exp[q] /\ own'[q] = own[q] /\ op'[q] = op[q]
               /\ late'[q] = late[q] /\ blamed'[q] = blamed[q]
    <2>1. late' = [late EXCEPT ![r] = IF lands THEN op[r] ELSE NoOp] /\ UNCHANGED <<own, blamed>>
      BY <1>6 DEF WriteFails
    <2>2. /\ exp' = [exp EXCEPT ![r][op[r].ch] = Refreshed(op[r].ch)]
          /\ op' = [op EXCEPT ![r] = NoOp] /\ pc' = [pc EXCEPT ![r] = AfterFailure(r)]
      BY <1>6 DEF WriteFails
    <2>3. QED
      BY <2>1, <2>2 DEF TypeInv
  <1>7. CASE Lands(r)
    BY <1>7 DEF Lands, TypeInv
  <1>4. CASE TestOver(r) \/ Leave(r)
    BY <1>4 DEF TestOver, Leave, TypeInv
  <1>5. QED
    BY <1>1, <1>2, <1>3, <1>4, <1>6, <1>7 DEF RunStep

LEMMA ExpectingStep == TypeInv /\ Expecting /\ [Next]_vars => Expecting'
  <1> SUFFICES ASSUME TypeInv, Expecting, [Next]_vars PROVE Expecting'
    OBVIOUS
  <1> USE DEF guard, hist
  <1>1. CASE UNCHANGED vars
    BY <1>1 DEF vars, Expecting, Effect
  <1>2. CASE Others
    BY <1>2 DEF Others, ForeignWrite, Unload, Load, Regulator, Remove, Expecting, Effect
  <1>3. ASSUME NEW r \in Runs, RunStep(r) PROVE Expecting'
    <2>1. ASSUME NEW q \in Runs, q # r PROVE ExpectsAs(q)'
      <3>1. ExpectsAs(q)
        BY ExpectingParts
      <3>2. /\ pc'[q] = pc[q] /\ exp'[q] = exp[q] /\ own'[q] = own[q] /\ op'[q] = op[q]
            /\ late'[q] = late[q] /\ blamed'[q] = blamed[q]
        BY <1>3, <2>1, OtherRuns
      <3> QED
        BY <3>1, <3>2 DEF ExpectsAs, Effect
    <2>2. ExpectsAs(r)
      BY ExpectingParts
    <2>3. ExpectsAs(r)'
      <3>1. CASE TakeLock(r)
        BY <2>2, <3>1 DEF TakeLock, ExpectsAs, Effect
      <3>2. CASE Begin(r)
        BY <2>2, <3>2 DEF Begin, Idle, ExpectsAs, TypeInv
      <3>3. CASE Sample(r) \/ WriteRefused(r) \/ TestOver(r)
        BY <2>2, <3>3 DEF Sample, WriteRefused, TestOver, ExpectsAs, Effect, TypeInv
      <3>4. ASSUME NEW o \in Ops, WriteBegins(r, o) PROVE ExpectsAs(r)'
        <4>1. /\ op' = [op EXCEPT ![r] = o] /\ UNCHANGED <<pc, late, own, blamed>>
              /\ op'[r] = o /\ o # NoOp /\ op[r] = NoOp /\ pc[r] # "idle" /\ o.ch \in Channels
          BY <3>4, OpFields DEF WriteBegins, TypeInv
        <4>2. CASE pc[r] = "running"
          <5>1. exp[r] = own[r] /\ own[r] \in Caches
            BY <2>2, <4>1, <4>2 DEF ExpectsAs
          <5>2. exp'[r] = [own[r] EXCEPT ![o.ch] = Expect(own[r][o.ch], o)]
            BY <3>4, <5>1, <4>1 DEF WriteBegins, TypeInv
          <5>3. Expect(own[r][o.ch], o) = Effect(own[r][o.ch], o)
            BY <5>1, <4>1, ExpectIsEffect DEF Caches
          <5>4. QED
            BY <2>2, <4>1, <4>2, <5>1, <5>2, <5>3 DEF ExpectsAs
        <4>3. CASE pc[r] # "running"
          BY <4>1, <4>3 DEF ExpectsAs
        <4>4. QED
          BY <4>2, <4>3
      <3>5. CASE WriteDone(r)
        <4>1. /\ op[r] \in Ops /\ op[r] # NoOp /\ op'[r] = NoOp /\ UNCHANGED <<pc, exp, late, blamed>>
              /\ own'[r] = [own[r] EXCEPT ![op[r].ch] = Effect(@, op[r])]
          BY <3>5 DEF WriteDone, TypeInv
        <4>2. op[r].ch \in Channels
          BY <4>1, OpFields
        <4>3. own[r] \in Caches => own'[r] \in Caches
          BY <4>1, <4>2, EffectIsValue DEF Caches
        <4>4. QED
          BY <2>2, <4>1, <4>3 DEF ExpectsAs
      <3>6. CASE \E lands \in BOOLEAN : WriteFails(r, lands)
        BY <3>6 DEF WriteFails, AfterFailure, ExpectsAs, TypeInv
      <3>7. CASE Lands(r)
        BY <2>2, <3>7 DEF Lands, ExpectsAs, Effect, TypeInv
      <3>8. CASE Leave(r)
        BY <2>2, <3>8 DEF Leave, ExpectsAs, TypeInv
      <3>9. QED
        BY <1>3, <3>1, <3>2, <3>3, <3>4, <3>5, <3>6, <3>7, <3>8 DEF RunStep
    <2>4. QED
      BY <2>1, <2>3 DEF Expecting, ExpectsAs
  <1>4. QED
    BY <1>1, <1>2, <1>3 DEF Next

\* What Undisturbed says of one run.
Calm(r) ==
  /\ pc[r] = "running" /\ ~disturbed[r] => loaded /\ ~reg /\ Verified(r) /\ cache = own[r]
  /\ blamed[r] => disturbed[r]

LEMMA UndisturbedParts == Undisturbed <=> \A r \in Runs : Calm(r)
  BY DEF Undisturbed, NeverBlamed, Calm

LEMMA UndisturbedStep == TypeInv /\ Expecting /\ Undisturbed /\ [Next]_vars => Undisturbed'
  <1> SUFFICES ASSUME TypeInv, Expecting, Undisturbed, [Next]_vars PROVE Undisturbed'
    OBVIOUS
  <1> USE DEF guard, hist, lock
  <1>0. \A q \in Runs : Calm(q)
    BY UndisturbedParts
  <1>1. CASE UNCHANGED vars
    BY <1>1 DEF vars, driver, Undisturbed, NeverBlamed, Verified
  <1>2. CASE Others
    <2>1. /\ Disturb(Runs) /\ UNCHANGED <<pc, blamed>>
      BY <1>2 DEF Others, ForeignWrite, Unload, Load, Regulator, Remove
    <2>2. QED
      BY <2>1 DEF Undisturbed, NeverBlamed, Disturb
  <1>3. ASSUME NEW r \in Runs, RunStep(r) PROVE Undisturbed'
    <2>1. ASSUME NEW q \in Runs, Calm(q), q # r PROVE Calm(q)'
      <3>1. pc'[q] = pc[q] /\ own'[q] = own[q] /\ blamed'[q] = blamed[q]
        BY <1>3, <2>1, OtherRuns
      <3>2. CASE TakeLock(r)
        <4>1. UNCHANGED <<loaded, cache, reg, disturbed>> /\ (Verified(q) => Verified(q)')
          BY <2>1, <3>2 DEF TakeLock, OpenLock, Flock, Verified, driver, TypeInv
        <4>2. QED
          BY <2>1, <3>1, <4>1 DEF Calm
      <3>3. CASE Begin(r) \/ Leave(r)
        <4>1. UNCHANGED <<loaded, cache, reg>> /\ disturbed'[q] = disturbed[q]
              /\ (Verified(q) => Verified(q)')
          BY <2>1, <3>3 DEF Begin, Leave, Release, Verified, driver, TypeInv
        <4>2. QED
          BY <2>1, <3>1, <4>1 DEF Calm
      <3>4. CASE WriteDone(r) \/ Lands(r)
        <4>1. Disturb(Runs \ {r})
          BY <3>4 DEF WriteDone, Lands
        <4>2. QED
          BY <2>1, <3>1, <4>1 DEF Calm, Disturb
      <3>5. CASE Sample(r) \/ (\E o \in Ops : WriteBegins(r, o)) \/ WriteRefused(r)
                 \/ (\E lands \in BOOLEAN : WriteFails(r, lands)) \/ TestOver(r)
        <4>1. UNCHANGED <<loaded, cache, reg, disturbed, entry, fd>>
          BY <3>5 DEF Sample, WriteBegins, WriteRefused, WriteFails, TestOver, driver
        <4>2. QED
          BY <2>1, <3>1, <4>1 DEF Calm, Verified
      <3>6. QED
        BY <1>3, <3>2, <3>3, <3>4, <3>5 DEF RunStep
    <2>2. Calm(r) /\ ExpectsAs(r)
      BY <1>0, ExpectingParts
    <2>3. Calm(r)'
      <3>1. CASE TakeLock(r) \/ Leave(r)
        BY <2>2, <3>1 DEF TakeLock, Idle, Leave, Calm, TypeInv
      <3>2. CASE Begin(r)
        BY <2>2, <3>2 DEF Begin, Release, Idle, Calm, Verified, driver, TypeInv
      <3>3. CASE Sample(r)
        <4>1. CASE Check(r)
          <5>1. disturbed[r]
            <6> SUFFICES ASSUME ~disturbed[r] PROVE FALSE
              BY DEF TypeInv
            <6>1. loaded /\ ~reg /\ Verified(r) /\ cache = own[r] /\ exp[r] = own[r]
              BY <2>2, <3>3 DEF Sample, Calm, ExpectsAs
            <6>2. QED
              BY <4>1, <6>1 DEF Check, Diff, Differs
          <5>2. QED
            BY <3>3, <4>1, <5>1 DEF Sample, Calm, TypeInv
        <4>2. CASE ~Check(r)
          BY <2>2, <3>3, <4>2 DEF Sample, Calm, Verified, driver
        <4>3. QED
          BY <4>1, <4>2
      <3>4. CASE \E o \in Ops : WriteBegins(r, o)
        BY <2>2, <3>4 DEF WriteBegins, Calm, Verified, driver
      <3>5. CASE WriteRefused(r) \/ TestOver(r) \/ (\E lands \in BOOLEAN : WriteFails(r, lands))
        BY <2>2, <3>5 DEF WriteRefused, TestOver, WriteFails, AfterFailure, Calm, TypeInv
      <3>6. CASE WriteDone(r)
        <4>1. /\ Serve(op[r]) /\ own'[r] = [own[r] EXCEPT ![op[r].ch] = Effect(@, op[r])]
              /\ disturbed'[r] = disturbed[r] /\ UNCHANGED <<loaded, reg, pc, blamed, entry, fd>>
          BY <3>6 DEF WriteDone, Disturb, TypeInv
        <4>2. cache = own[r] => cache' = own'[r]
          BY <4>1 DEF Serve
        <4>3. QED
          BY <2>2, <4>1, <4>2 DEF Calm, Verified
      <3>7. CASE Lands(r)
        BY <2>2, <3>7 DEF Lands, Disturb, Calm, ExpectsAs, TypeInv
      <3>8. QED
        BY <1>3, <3>1, <3>2, <3>3, <3>4, <3>5, <3>6, <3>7 DEF RunStep
    <2>4. QED
      BY <1>0, <2>1, <2>3 DEF Undisturbed, NeverBlamed, Calm
  <1>4. QED
    BY <1>1, <1>2, <1>3 DEF Next

LEMMA PassingStep == TypeInv /\ Passing /\ [Next]_vars => Passing'
  <1> SUFFICES ASSUME TypeInv, Passing, [Next]_vars PROVE Passing'
    OBVIOUS
  <1> USE DEF guard, hist, lock
  <1>1. CASE UNCHANGED vars
    BY <1>1 DEF vars, driver, Passing, Check, Diff, Verified, Differs
  <1>2. CASE Others
    BY <1>2 DEF Others, ForeignWrite, Unload, Load, Regulator, Remove, Passing
  <1>3. ASSUME NEW r \in Runs, RunStep(r) PROVE Passing'
    <2>1. CASE Sample(r)
      BY <2>1 DEF Sample, Passing, Check, Diff, Verified, Differs, driver
    <2>2. CASE ~Sample(r)
      BY <1>3, <2>2 DEF RunStep, TakeLock, Begin, WriteBegins, WriteRefused, WriteDone,
                        WriteFails, Lands, TestOver, Leave, Passing
    <2>3. QED
      BY <2>1, <2>2
  <1>4. QED
    BY <1>1, <1>2, <1>3 DEF Next

\* The invariant behind the theorems: the lock, the expectation of a run and what
\* has happened to it go together.
THEOREM Invariance == Spec => []IInv
  <1>1. IInv /\ [Next]_vars => IInv'
    BY TypeStep, LockingStep, ExpectingStep, UndisturbedStep, PassingStep DEF IInv
  <1>2. QED
    BY InitInv, <1>1, PTL DEF Spec

\* A sample of a writing run (Regulator.Check) passes only when the driver shows
\* what the run's own writes have left there.
THEOREM OnlyOwnValuesPass == Spec => []PassIsOwn
  <1>1. IInv => PassIsOwn
    <2> SUFFICES ASSUME IInv, NEW r \in pass, loaded PROVE cache = own[r]
      BY DEF PassIsOwn
    <2>1. r \in Runs /\ pc[r] = "running" /\ op[r] = NoOp /\ ~Check(r)
      BY DEF IInv, TypeInv, Passing
    <2>2. exp[r] = own[r] /\ own[r] \in Caches /\ cache \in Caches
      BY <2>1 DEF IInv, TypeInv, Expecting
    <2>3. \A c \in Channels : ~Differs(own[r][c], cache[c])
      BY <2>1, <2>2 DEF Check, Diff
    <2>4. \A c \in Channels : own[r][c] = cache[c]
      BY <2>2, <2>3, ValuesDiffer DEF Caches
    <2>5. QED
      BY <2>2, <2>4 DEF Caches
  <1>2. QED
    BY Invariance, <1>1, PTL

\* A run whose channels and lock nobody touched is never aborted for another
\* writer (ErrForeignWriter).
THEOREM NoFalseBlame == Spec => []NeverBlamed
  <1>1. IInv => NeverBlamed
    BY DEF IInv, Undisturbed
  <1>2. QED
    BY Invariance, <1>1, PTL

\* However often the lock file is deleted and created again, samples pass in one
\* run only: the one that began last (writerlock.Verify).
THEOREM OneRunAtATime == Spec => []OneRunPasses
  <1>1. IInv => OneRunPasses
    BY DEF IInv, TypeInv, Locking, Passing, Check, Verified, OneRunPasses
  <1>2. QED
    BY Invariance, <1>1, PTL
=============================================================================
