------------------------------ MODULE N5Writers ------------------------------
(***************************************************************************)
(* Who else writes? A writing run of n5-ectest holds the writer lock and   *)
(* asks at every sample whether another pwm writer became active: a known  *)
(* regulator, a lock file that is no longer its own, and values in the     *)
(* driver's cache that its own writes do not explain (Expectation). Other  *)
(* runs, programs that know nothing of the lock, reloads of the driver and *)
(* the removal of the lock file come between any two steps.                *)
(*                                                                         *)
(* A write is two steps: the value is expected, then the driver is asked.  *)
(***************************************************************************)
EXTENDS N5WriterLock, Integers

CONSTANTS
  Channels,
  Duty       \* duties that are written, by the runs and by others

Unknown == -1
Manual == 1
EcAuto == 2
FullDuty == 255
NoOp == [ch |-> 0]

ASSUME WritersAssumption == Duty \subseteq 0..255 /\ FullDuty \in Duty /\ 0 \notin Channels

VARIABLES
  loaded,    \* the driver is there
  cache,     \* pwmN_enable and pwmN of each channel, as the driver shows them
  reg,       \* a known regulator runs
  pc,        \* a run: "idle", "running", "closing"
  exp,       \* Expectation of each run, Unknown for a value it does not have
  op,        \* the write in progress
  late,      \* a write given up after 15 s that the driver has not answered
  own,       \* history: the cache as the run's own writes would have it
  pass,      \* history: the run whose sample has just passed
  younger,   \* history: another run began while this one went on
  disturbed, \* history: something was done to the channels or the lock during it
  blamed     \* history: the run was aborted because of another writer

driver == <<loaded, cache, reg>>
guard  == <<exp, op, late, own>>
hist   == <<younger, disturbed, blamed>>
vars   == <<lock, driver, pc, guard, pass, hist>>

Values == [en : {Manual, EcAuto}, pwm : Duty]
Ops == {o \in [ch : Channels, a : {"enable", "duty"}, v : {Manual, EcAuto} \cup Duty] :
          IF o.a = "enable" THEN o.v \in {Manual, EcAuto} ELSE o.v \in Duty}

Disturb(S) == disturbed' = [r \in Runs |-> disturbed[r] \/ (r \in S /\ pc[r] = "running")]

-----------------------------------------------------------------------------
(* The driver.                                                             *)

\* A duty is taken in manual mode only; entering it sets the full duty. (The
\* automatic of pwm4, which shows 255, is set by no run.)
Accepts(k, o) == o.a = "enable" \/ k.en = Manual
Effect(k, o) ==
  IF o.a = "duty" THEN [k EXCEPT !.pwm = o.v]
  ELSE [en |-> o.v, pwm |-> IF o.v = Manual /\ k.en # Manual THEN FullDuty ELSE k.pwm]

Serve(o) == cache' = [cache EXCEPT ![o.ch] = Effect(@, o)]

ForeignWrite(o) ==
  /\ loaded /\ Accepts(cache[o.ch], o)
  /\ Serve(o) /\ Disturb(Runs) /\ pass' = {}
  /\ UNCHANGED <<lock, loaded, reg, pc, guard, younger, blamed>>

\* An unload waits for the writes that are in the driver.
Unload ==
  /\ loaded /\ \A r \in Runs : late[r] = NoOp
  /\ loaded' = FALSE /\ Disturb(Runs) /\ pass' = {}
  /\ UNCHANGED <<lock, cache, reg, pc, guard, younger, blamed>>

Load(k) ==
  /\ ~loaded
  /\ loaded' = TRUE /\ cache' = k /\ Disturb(Runs) /\ pass' = {}
  /\ UNCHANGED <<lock, reg, pc, guard, younger, blamed>>

Regulator ==
  /\ reg' = ~reg /\ Disturb(Runs) /\ pass' = {}
  /\ UNCHANGED <<lock, loaded, cache, pc, guard, younger, blamed>>

Remove ==
  /\ RemoveLock /\ Disturb(Runs) /\ pass' = {}
  /\ UNCHANGED <<driver, pc, guard, younger, blamed>>

-----------------------------------------------------------------------------
(* Expectation.                                                            *)

Nothing == [en |-> Unknown, pwm |-> Unknown]
None == [c \in Channels |-> Nothing]

\* Seeded fault: entering manual mode always expects the full duty.
ExpectAlwaysFull(e, o) ==
  IF o.a = "duty" THEN [e EXCEPT !.pwm = o.v]
  ELSE [en |-> o.v, pwm |-> IF o.v = Manual THEN FullDuty ELSE e.pwm]

\* Expect(): what the write will do to the cache, as the run knows it.
Expect(e, o) ==
  IF o.a = "duty" THEN [e EXCEPT !.pwm = o.v]
  ELSE [en |-> o.v, pwm |-> IF o.v = Manual /\ e.en # Manual THEN FullDuty ELSE e.pwm]

\* Refresh(): the values as they are now, whoever wrote them.
Refreshed(c) == IF loaded THEN cache[c] ELSE Nothing

Differs(e, k) ==
  \/ e.en # Unknown /\ e.en # k.en
  \/ e.pwm # Unknown /\ e.pwm # k.pwm

\* Diff(): values that cannot be read are not compared.
Diff(r) == loaded /\ \E c \in Channels : Differs(exp[r][c], cache[c])

\* Check(): (a)-(c) regulators, (d) the lock, (e) the values.
Check(r) == reg \/ ~Verified(r) \/ Diff(r)

-----------------------------------------------------------------------------
(* A run.                                                                  *)

Idle(r) == pc[r] = "idle"

TakeLock(r) ==
  /\ Idle(r) /\ (OpenLock(r) \/ Flock(r)) /\ pass' = {}
  /\ UNCHANGED <<driver, pc, guard, hist>>

\* The worker adopts the lock and verifies it, reads the values it starts from
\* and passes gate G1, or gives up.
Begin(r) ==
  /\ Idle(r) /\ r \in held /\ pass' = {}
  /\ IF Verified(r) /\ loaded /\ ~reg
     THEN /\ pc' = [pc EXCEPT ![r] = "running"]
          /\ exp' = [exp EXCEPT ![r] = cache] /\ own' = [own EXCEPT ![r] = cache]
          /\ younger' = [q \in Runs |-> younger[q] \/ pc[q] = "running"]
          /\ UNCHANGED lock
     ELSE Release(r) /\ UNCHANGED <<pc, exp, own, younger>>
  /\ UNCHANGED <<driver, op, late, disturbed, blamed>>

Sample(r) ==
  /\ pc[r] = "running" /\ op[r] = NoOp
  /\ IF Check(r) THEN /\ pc' = [pc EXCEPT ![r] = "closing"]
                      /\ blamed' = [blamed EXCEPT ![r] = TRUE] /\ pass' = {}
                 ELSE pass' = {r} /\ UNCHANGED <<pc, blamed>>
  /\ UNCHANGED <<lock, driver, guard, younger, disturbed>>

\* The tests enter manual mode before they write a duty. A write waits for one
\* of the same run that was given up and is still in the driver.
WriteBegins(r, o) ==
  /\ pc[r] \in {"running", "closing"} /\ op[r] = NoOp /\ late[r] = NoOp /\ loaded
  /\ o.a = "duty" => own[r][o.ch].en = Manual
  /\ op' = [op EXCEPT ![r] = o]
  /\ exp' = [exp EXCEPT ![r][o.ch] = Expect(@, o)]
  /\ pass' = {}
  /\ UNCHANGED <<lock, driver, pc, late, own, hist>>

\* No device: nothing is written and nothing expected.
WriteRefused(r) ==
  /\ pc[r] = "running" /\ op[r] = NoOp /\ ~loaded
  /\ pc' = [pc EXCEPT ![r] = "closing"] /\ pass' = {}
  /\ UNCHANGED <<lock, driver, guard, hist>>

WriteDone(r) ==
  /\ op[r] # NoOp /\ loaded /\ Accepts(cache[op[r].ch], op[r])
  /\ Serve(op[r])
  /\ own' = [own EXCEPT ![r][op[r].ch] = Effect(@, op[r])]
  /\ op' = [op EXCEPT ![r] = NoOp]
  /\ Disturb(Runs \ {r}) /\ pass' = {}
  /\ UNCHANGED <<lock, loaded, reg, pc, exp, late, younger, blamed>>

\* Seeded fault: a test goes on after a write that failed.
AfterFailureOn(r) == pc[r]

\* A failed write ends the run.
AfterFailure(r) == "closing"

\* An error, or no answer: the write may still be done later. After() reads the
\* values anew.
WriteFails(r, lands) ==
  /\ op[r] # NoOp
  /\ lands => loaded
  /\ op' = [op EXCEPT ![r] = NoOp]
  /\ late' = [late EXCEPT ![r] = IF lands THEN op[r] ELSE NoOp]
  /\ exp' = [exp EXCEPT ![r][op[r].ch] = Refreshed(op[r].ch)]
  /\ pc' = [pc EXCEPT ![r] = AfterFailure(r)]
  /\ pass' = {}
  /\ UNCHANGED <<lock, driver, own, hist>>

Lands(r) ==
  /\ late[r] # NoOp
  /\ IF Accepts(cache[late[r].ch], late[r]) THEN Serve(late[r]) ELSE UNCHANGED cache
  /\ late' = [late EXCEPT ![r] = NoOp]
  /\ Disturb(Runs \ {r}) /\ pass' = {}
  /\ UNCHANGED <<lock, loaded, reg, pc, exp, op, own, younger, blamed>>

\* The end of a test: the channels are restored by further writes.
TestOver(r) ==
  /\ pc[r] = "running" /\ op[r] = NoOp
  /\ pc' = [pc EXCEPT ![r] = "closing"] /\ pass' = {}
  /\ UNCHANGED <<lock, driver, guard, hist>>

\* The process is gone, and its lock with it, when the driver has let it go.
Leave(r) ==
  /\ pc[r] = "closing" /\ op[r] = NoOp /\ late[r] = NoOp
  /\ Release(r) /\ pc' = [pc EXCEPT ![r] = "idle"] /\ pass' = {}
  /\ exp' = [exp EXCEPT ![r] = None] /\ own' = [own EXCEPT ![r] = None]
  /\ younger' = [younger EXCEPT ![r] = FALSE]
  /\ disturbed' = [disturbed EXCEPT ![r] = FALSE] /\ blamed' = [blamed EXCEPT ![r] = FALSE]
  /\ UNCHANGED <<driver, op, late>>

Init ==
  /\ LockInit
  /\ loaded = TRUE /\ cache \in [Channels -> Values] /\ reg = FALSE
  /\ pc = [r \in Runs |-> "idle"]
  /\ exp = [r \in Runs |-> None] /\ own = [r \in Runs |-> None]
  /\ op = [r \in Runs |-> NoOp] /\ late = [r \in Runs |-> NoOp]
  /\ pass = {} /\ younger = [r \in Runs |-> FALSE]
  /\ disturbed = [r \in Runs |-> FALSE] /\ blamed = [r \in Runs |-> FALSE]

RunStep(r) ==
  \/ TakeLock(r) \/ Begin(r) \/ Sample(r)
  \/ \E o \in Ops : WriteBegins(r, o)
  \/ WriteRefused(r) \/ WriteDone(r) \/ \E lands \in BOOLEAN : WriteFails(r, lands)
  \/ Lands(r) \/ TestOver(r) \/ Leave(r)

Others ==
  \/ \E o \in Ops : ForeignWrite(o)
  \/ Unload \/ \E k \in [Channels -> Values] : Load(k)
  \/ Regulator \/ Remove

Next == Others \/ \E r \in Runs : RunStep(r)

Spec == Init /\ [][Next]_vars

-----------------------------------------------------------------------------
(* Properties.                                                             *)

\* A sample lets a run go on only when every channel is as the run's own writes
\* leave it (the driver being there to be asked): what others wrote since the last
\* sample is not taken over, not even after a write that failed.
PassIsOwn == \A r \in pass : loaded => cache = own[r]

\* A run is aborted because of another writer only when there was something:
\* the expectation does what the driver does with the run's own writes.
NeverBlamed == \A r \in Runs : blamed[r] => disturbed[r]

\* Two runs never test side by side: once another run began, whose lock file was
\* put in the place of a deleted one, no sample of the older run passes.
OneRunPasses == \A r \in pass : ~younger[r]
=============================================================================
